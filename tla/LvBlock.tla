------------------------------- MODULE LvBlock -------------------------------
(***************************************************************************)
(* What the mirror scheduler promises: a mirrored extent looks like one    *)
(* row of blocks, here tracks.  A track may be read or written, by one     *)
(* request at a time (the strategy layer sees to that).  A read that is    *)
(* answered without an error returns what is stored; a write that is       *)
(* answered without an error is stored, and one answered with an error has *)
(* either happened or not, once and for all.  Any request may fail.        *)
(***************************************************************************)
CONSTANTS Track, Value

VARIABLES
    asked,     \* of each track: what is being asked for, if anything
    stored,    \* the values it may be found to have
    answer     \* the last answer given

vars == <<asked, stored, answer>>

Idle  == [op |-> "idle"]
Asks  == [op : {"read"}] \cup [op : {"write"}, val : Value, was : SUBSET Value]
None  == [op |-> "none"]
Error == [op |-> "error"]
Answers == [op : {"written", "error"}] \cup [op : {"read"}, val : Value]

TypeOK ==
    /\ asked \in [Track -> Asks \cup {Idle}]
    /\ stored \in [Track -> (SUBSET Value) \ {{}}]
    /\ answer \in [Track -> Answers \cup {None}]

\* While a track is being written it may be found to have the value from before or
\* the new one; otherwise nothing is added to what it may be found to have.
Shifts ==
    \A t \in Track :
        /\ stored'[t] # {}
        /\ stored'[t] \subseteq IF asked[t].op = "write"
                                THEN asked[t].was \cup {asked[t].val}
                                ELSE stored[t]

Ask(t) ==
    /\ asked[t] = Idle
    /\ \E a \in Asks :
          /\ a.op = "write" => a.was = stored[t]
          /\ asked' = [asked EXCEPT ![t] = a]
    /\ answer' = [answer EXCEPT ![t] = None]
    /\ UNCHANGED stored

\* The answer a to what was asked of a track, which has the values s.
Right(ask, s, a) ==
    \/ ask.op = "read"  /\ a.op = "read" /\ s = {a.val}
    \/ ask.op = "write" /\ a.op = "written" /\ s = {ask.val}
    \/ a = Error

Answer(t) ==
    /\ asked[t] # Idle
    /\ asked' = [asked EXCEPT ![t] = Idle]
    /\ Shifts
    /\ \E a \in Answers :
          /\ Right(asked[t], stored'[t], a)
          /\ answer' = [answer EXCEPT ![t] = a]

Shift == Shifts /\ UNCHANGED <<asked, answer>>

Init ==
    /\ asked = [t \in Track |-> Idle]
    /\ \E v \in [Track -> Value] : stored = [t \in Track |-> {v[t]}]
    /\ answer = [t \in Track |-> None]

Next == Shift \/ \E t \in Track : Ask(t) \/ Answer(t)

Spec == Init /\ [][Next]_vars
=============================================================================
