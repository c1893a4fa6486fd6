---------------------------- MODULE LvPageLocks ----------------------------
(***************************************************************************)
(* What the strategy layer of the logical volume driver promises: every    *)
(* outstanding request is an exclusive lock on some pages of one logical   *)
(* track group, the locks are granted in order of arrival, and an          *)
(* administrator can close the volume's gate.  Hash chains, queues, counts *)
(* and contexts are the business of LvStrategy, which implements this.     *)
(***************************************************************************)
CONSTANTS Reqs, LTGs, Pages, NoAsk

VARIABLES
    state,   \* of each request: outside, waiting or busy (granted)
    ask,     \* the pages each request asks for
    older,   \* the outstanding requests of its LTG that came before it
    gate     \* open, closing (no grants, waiting for the busy) or closed

vars == <<state, ask, older, gate>>

Asks == [ltg : LTGs, pages : SUBSET Pages]

TypeOK ==
    /\ state \in [Reqs -> {"out", "waiting", "busy"}]
    /\ ask \in [Reqs -> Asks \cup {NoAsk}]
    /\ older \in [Reqs -> SUBSET Reqs]
    /\ gate \in {"open", "closing", "closed"}

Outstanding == {r \in Reqs : state[r] # "out"}
Busy == {r \in Reqs : state[r] = "busy"}

\* With locks ol on pages as, nothing older stands in the way of r.
Grantable(r, as, ol) == \A q \in ol[r] : as[q].pages \cap as[r].pages = {}

\* The new state st, in which also any grantable waiting requests are granted
\* if the gate g is open.
Grant(st, as, ol, g) ==
    \E G \in SUBSET {r \in Reqs : st[r] = "waiting" /\ Grantable(r, as, ol)} :
        /\ G # {} => g = "open"
        /\ state' = [r \in Reqs |-> IF r \in G THEN "busy" ELSE st[r]]
        /\ ask' = as /\ older' = ol /\ gate' = g

Arrive(r, a) ==
    /\ state[r] = "out"
    /\ Grant([state EXCEPT ![r] = "waiting"], [ask EXCEPT ![r] = a],
             [older EXCEPT ![r] = {q \in Outstanding : ask[q].ltg = a.ltg}],
             gate)

Finish(r) ==
    /\ state[r] = "busy"
    /\ Grant([state EXCEPT ![r] = "out"], [ask EXCEPT ![r] = NoAsk],
             [q \in Reqs |-> IF q = r THEN {} ELSE older[q] \ {r}], gate)

Close ==
    /\ gate = "open"
    /\ gate' = IF Busy = {} THEN "closed" ELSE "closing"
    /\ UNCHANGED <<state, ask, older>>

Closed ==
    /\ gate = "closing" /\ Busy = {}
    /\ gate' = "closed"
    /\ UNCHANGED <<state, ask, older>>

Open ==
    /\ gate = "closed"
    /\ Grant(state, ask, older, "open")

Init ==
    /\ state = [r \in Reqs |-> "out"]
    /\ ask = [r \in Reqs |-> NoAsk]
    /\ older = [r \in Reqs |-> {}]
    /\ gate = "open"

Next ==
    \/ \E r \in Reqs : Finish(r) \/ \E a \in Asks : Arrive(r, a)
    \/ Close \/ Closed \/ Open

Spec == Init /\ [][Next]_vars
=============================================================================
