------------------------------ MODULE LvSplit ------------------------------
(***************************************************************************)
(* Requests that cross a logical track group (LTG): lv_minphys shortens    *)
(* them on the raw interface, the head of lv_strategy splits the others    *)
(* into two halves with bufs of their own, lv_workmask finds the pages of  *)
(* a request or rejects it, and lv_collect, the b_iodone of the halves,    *)
(* returns the original buf.  lv_strategy's loop rejects in the thread of  *)
(* the caller; accepted halves are completed by the callout thread or at   *)
(* interrupt level, lv_collect holds no lock, and so the lv_collect of one *)
(* half may run between any two accesses of the other's.                   *)
(*                                                                         *)
(* Byte counts are in units that make a disk block two bytes long, so that *)
(* a count need not be whole blocks.  Masks are sets of pages.             *)
(***************************************************************************)
EXTENDS Integers, FiniteSets

CONSTANTS
    BPPG,       \* blocks of a page
    PGPTRK,     \* pages of an LTG
    Word,       \* number of values of an unsigned
    Starts,     \* block numbers at which requests start
    MaxBytes,   \* bound on the byte count of a request
    Raw         \* whether requests come through physio and lv_minphys

DEV_BSIZE == 2
BLKPTRK == PGPTRK * BPPG

ASSUME SplitAssumption ==
    /\ BPPG \in Nat \ {0} /\ PGPTRK \in Nat \ {0} /\ MaxBytes \in Nat
    /\ Starts \subseteq Nat /\ Word \in Nat
    /\ \A b \in Starts : Word > DEV_BSIZE * (b + BLKPTRK + MaxBytes)
    /\ Raw \subseteq BOOLEAN

VARIABLES
    orig,     \* the caller's buf
    half,     \* the halves (or the only buf, as half 1) and where they are
    thread    \* progress of the lv_strategy call: split, link 1, link 2, done

vars == <<orig, half, thread>>

Halves == {1, 2}
NoBuf == 0
Other(h) == 3 - h

\* A half in lv_collect has read b_forw ("read"), has loaded the residual count
\* of the original ("adding"), has stored its error there ("added"), and is
\* freed in the end ("gone").
States == {"none", "new", "linked", "collect", "read", "adding", "added", "gone"}

-----------------------------------------------------------------------------
(* Arithmetic of blocks, pages and bytes (ltg.h), on unsigned words.       *)

Unsigned(n)    == n % Word
BYTE2BLK(n)    == Unsigned(n) \div DEV_BSIZE
BLK2PG(b)      == Unsigned(b) \div BPPG
PagesSpanned(bwp, bct) == Unsigned(BLK2PG(bwp + bct - 1) + 1)

PageInTrk(b)   == BLK2PG(b) % PGPTRK   \* pwt: 1st page within the LTG
BlkInPage(b)   == b % BPPG             \* bwp: 1st block within its page

\* A slip: the last page is taken to be the one after the last block.
WorkmaskOneMore(b, n) ==
    LET pct == BLK2PG(BlkInPage(b) + BYTE2BLK(n)) + 1
        pwt == PageInTrk(b)
    IN  [error |-> pwt + pct > PGPTRK, pages |-> pwt .. pwt + pct - 1]

\* lv_workmask: the pages of a request, and whether it leaves its LTG.
Workmask(b, n) ==
    LET pct == PagesSpanned(BlkInPage(b), BYTE2BLK(n))
        pwt == PageInTrk(b)
    IN  [error |-> pwt + pct > PGPTRK, pages |-> pwt .. pwt + pct - 1]

\* lv_minphys: the byte count, cut off at the end of the LTG.
Minphys(b, n) ==
    LET blkwt == b % BLKPTRK IN
    IF n % DEV_BSIZE = 0 /\ blkwt + BYTE2BLK(n) - 1 >= BLKPTRK
    THEN (BLKPTRK - blkwt) * DEV_BSIZE ELSE n

\* lv_strategy: does a request leave its LTG?
Misaligned(b, n) ==
    LET bct == BYTE2BLK(n)
        bwp == BlkInPage(b)
        pct == IF bct # 0 THEN PagesSpanned(bwp, bct) ELSE BLK2PG(bwp)
    IN  PageInTrk(b) + pct > PGPTRK

\* A slip: the first half ends a page early.
FirstHalfShort(b) == (PGPTRK - PageInTrk(b) - 1) * BPPG * DEV_BSIZE

\* The byte count lv_strategy gives to the first half.
FirstHalf(b) == ((PGPTRK - PageInTrk(b)) * BPPG + BlkInPage(b)) * DEV_BSIZE

\* lv_strategy's loop rejects a request that is not whole blocks or leaves
\* its LTG.
Rejected(b, n) == n % DEV_BSIZE # 0 \/ Workmask(b, n).error

-----------------------------------------------------------------------------

NewHalf(b, n) == [state |-> "new", blkno |-> b, bcount |-> n,
                  forw |-> NoBuf, seen |-> NoBuf, error |-> FALSE, resid |-> 0,
                  sum |-> 0]
NoHalf == [NewHalf(0, 0) EXCEPT !.state = "none"]

\* The head of lv_strategy: two linked halves, or the request as it is.
Split ==
    /\ thread = "split"
    /\ LET b == orig.blkno
           n == orig.bcount
           n1 == FirstHalf(b)
       IN  half' = IF Misaligned(b, n)
                   THEN [h \in Halves |->
                         IF h = 1
                         THEN [NewHalf(b, n1) EXCEPT !.forw = 2]
                         ELSE [NewHalf(b + BYTE2BLK(n1), n - n1)
                                 EXCEPT !.forw = 1]]
                   ELSE [h \in Halves |-> IF h = 1 THEN NewHalf(b, n) ELSE NoHalf]
    /\ thread' = "link1"
    /\ UNCHANGED orig

IsSplit == half[2].state # "none"

\* biodone of the caller's buf, which now says whether it failed and what is
\* left to transfer.
Biodone(error, resid) ==
    orig' = [orig EXCEPT !.returned = @ + 1, !.error = error, !.resid = resid]

\* Half h is done with residual count r, failed or not; a buf that was not split
\* is simply returned.
Iodone(h, error, r) ==
    IF IsSplit
    THEN /\ half' = [half EXCEPT ![h].state = "collect", ![h].error = error,
                                 ![h].resid = r]
         /\ UNCHANGED orig
    ELSE /\ half' = [half EXCEPT ![h].state = "gone"]
         /\ Biodone(error, r)

\* The loop goes on when the lv_collect it called for half 1 has returned.
InReject == /\ half[1].state \in {"collect", "read", "adding", "added"}
            /\ Rejected(half[1].blkno, half[1].bcount)

\* One round of lv_strategy's loop: half h is linked on work_Q, or rejected,
\* and lv_reject calls its b_iodone before the next round.
Link(h) ==
    /\ thread = IF h = 1 THEN "link1" ELSE "link2"
    /\ half[h].state = "new"
    /\ ~InReject
    /\ IF Rejected(half[h].blkno, half[h].bcount)
       THEN Iodone(h, TRUE, half[h].bcount)
       ELSE half' = [half EXCEPT ![h].state = "linked"] /\ UNCHANGED orig
    /\ thread' = IF h = 1 /\ IsSplit THEN "link2" ELSE "done"

\* lv_initiate or the lower layers complete a linked half; a read at the end of
\* media leaves a residual count without an error.
Complete(h) ==
    /\ half[h].state = "linked"
    /\ \E error \in BOOLEAN, r \in {0, half[h].bcount} : Iodone(h, error, r)
    /\ UNCHANGED thread

\* lv_collect: other = lb->b_forw ...
CollectRead(h) ==
    /\ half[h].state = "collect"
    /\ half' = [half EXCEPT ![h].state = "read", ![h].seen = half[h].forw]
    /\ UNCHANGED <<orig, thread>>

\* ... loads the residual count it is to add to, if it failed ...
CollectLoad(h) ==
    /\ half[h].state = "read"
    /\ half' = IF half[h].error
               THEN [half EXCEPT ![h].state = "adding",
                                 ![h].sum = orig.resid + half[h].resid]
               ELSE [half EXCEPT ![h].state = "added"]
    /\ UNCHANGED <<orig, thread>>

\* A slip: the residual count is overwritten and not added to.
CollectErrorOver(h) ==
    /\ half[h].state = "adding"
    /\ orig' = [orig EXCEPT !.error = TRUE, !.resid = half[h].resid]
    /\ half' = [half EXCEPT ![h].state = "added"]
    /\ UNCHANGED thread

\* ... and stores the error and the sum in the original, without a lock ...
CollectError(h) ==
    /\ half[h].state = "adding"
    /\ orig' = [orig EXCEPT !.error = TRUE, !.resid = half[h].sum]
    /\ half' = [half EXCEPT ![h].state = "added"]
    /\ UNCHANGED thread

\* ... and the half unlinks itself from the other one (whose buf may be freed
\* already), or, if there is none, is the last and returns the original.
CollectFree(h) ==
    /\ half[h].state = "added"
    /\ half' = [g \in Halves |->
           IF g = h THEN [half[g] EXCEPT !.state = "gone"]
           ELSE IF g = half[h].seen THEN [half[g] EXCEPT !.forw = NoBuf]
           ELSE half[g]]
    /\ IF half[h].seen = NoBuf THEN Biodone(orig.error, orig.resid)
                               ELSE UNCHANGED orig
    /\ UNCHANGED thread

Done ==   \* the call is over; nothing is left to do
    /\ thread = "done" /\ \A h \in Halves : half[h].state \in {"none", "gone"}
    /\ UNCHANGED vars

Init ==
    /\ \E b \in Starts, n \in 0 .. MaxBytes, raw \in Raw :
          orig = [raw |-> raw, blkno |-> b,
                  bcount |-> IF raw THEN Minphys(b, n) ELSE n, returned |-> 0, error |-> FALSE, resid |-> 0]
    /\ half = [h \in Halves |-> NoHalf]
    /\ thread = "split"

Next ==
    \/ Split \/ Done
    \/ \E h \in Halves :
          \/ Link(h) \/ Complete(h)
          \/ CollectRead(h) \/ CollectLoad(h) \/ CollectError(h) \/ CollectFree(h)

Spec == Init /\ [][Next]_vars

-----------------------------------------------------------------------------
(* Properties.                                                             *)

\* The original is returned at most once, and a half points at the other half
\* or at nothing.
TypeOK ==
    /\ orig.returned \in 0 .. 1 /\ orig.error \in BOOLEAN
    /\ thread \in {"split", "link1", "link2", "done"}
    /\ \A h \in Halves : half[h].state \in States /\ half[h].forw \in {NoBuf, Other(h)}

Existing == {h \in Halves : half[h].state # "none"}

\* The blocks b .. b + n - 1 in pages of their LTG, by counting.
PagesOf(b, n) == {(c \div BPPG) % PGPTRK : c \in b .. b + n - 1}

\* What goes on work_Q lies in one LTG and its mask names exactly the pages
\* it touches: the conflicts lv_block finds are the real ones (lv_workmask).
MaskExact ==
    \A h \in Existing : half[h].state = "linked" =>
        LET b == half[h].blkno
            n == half[h].bcount \div DEV_BSIZE
        IN  n > 0 => /\ Workmask(b, half[h].bcount).pages = PagesOf(b, n)
                     /\ b \div BLKPTRK = (b + n - 1) \div BLKPTRK

\* The halves of a request no longer than an LTG each fit one: neither is
\* rejected for leaving it (lv_strategy's split, lv_block.c:211-217).
HalvesFit ==
    IsSplit /\ orig.bcount % DEV_BSIZE = 0 /\ orig.bcount <= BLKPTRK * DEV_BSIZE =>
        \A h \in Halves : ~Rejected(half[h].blkno, half[h].bcount)

\* The same for a request that starts with a page, as those of file systems do.
AlignedHalvesFit == BlkInPage(orig.blkno) = 0 => HalvesFit

\* What lv_minphys lets through, if it is whole blocks, is neither split nor
\* rejected.
RawFits ==
    orig.raw /\ thread # "split" /\ orig.bcount % DEV_BSIZE = 0 /\ orig.bcount > 0
        => ~IsSplit /\ ~Rejected(orig.blkno, orig.bcount)

\* What comes from a file system or through lv_minphys is carried out whole.
PiecesFit == AlignedHalvesFit /\ RawFits

\* A request that is not whole blocks is rejected (lv_strategy, "Such requests
\* are rejected below"): no part of it is carried out.
WholeBlocksOnly ==
    orig.bcount % DEV_BSIZE # 0 => \A h \in Halves : half[h].state # "linked"

\* The original is returned when both halves are through with it: lv_collect
\* never hands the caller a buf that the other half is still to write to.
ReturnedLast ==
    orig.returned > 0 => \A h \in Existing : half[h].state \in {"added", "gone"}

\* A returned original carries the errors of both halves and the residual
\* counts that go with errors: the additions are not locked, but the half that
\* returns it found b_forw cleared, and so loads what the other has stored.
\* (The residual of a half that met the end of media without an error is lost.)
ReturnedRight ==
    orig.returned = 1 /\ IsSplit =>
        /\ orig.error = (\E h \in Halves : half[h].error)
        /\ orig.resid = (IF half[1].error THEN half[1].resid ELSE 0)
                         + (IF half[2].error THEN half[2].resid ELSE 0)

\* The last half hands the original back, with what both have to say (lv_collect).
Returned == ReturnedLast /\ ReturnedRight

\* When both halves are gone the original was returned (lv_collect, "If it's
\* the last, it biodones the original buffer").
NotLost ==
    (thread = "done" /\ \A h \in Existing : half[h].state = "gone")
        => orig.returned = 1
=============================================================================
