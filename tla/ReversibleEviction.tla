------------------------- MODULE ReversibleEviction -------------------------
(* What checkpointing promises a user: a process that was put away comes   *)
(* back exactly as often as it was put away, unless it is given up after   *)
(* MaxTries restores have failed; nothing else ends a saved process, and   *)
(* nothing brings back one that has exited.                                *)
EXTENDS Naturals

CONSTANTS Instances, MaxTries
VARIABLES state, tries

vars == <<state, tries>>

Init ==
    /\ state \in [Instances -> {"unborn", "live"}]
    /\ tries = [i \in Instances |-> 0]

Become(i, from, to) ==
    /\ state[i] = from
    /\ state' = [state EXCEPT ![i] = to]

Begin(i) == Become(i, "unborn", "live") /\ UNCHANGED tries
Finish(i) == Become(i, "live", "gone") /\ UNCHANGED tries
Save(i) == Become(i, "live", "saved") /\ UNCHANGED tries
Restore(i) == Become(i, "saved", "live") /\ tries' = [tries EXCEPT ![i] = 0]

Fail(i) ==
    /\ state[i] = "saved" /\ tries[i] < MaxTries
    /\ tries' = [tries EXCEPT ![i] = @ + 1]
    /\ UNCHANGED state

GiveUp(i) ==
    /\ Become(i, "saved", "gone")
    /\ tries[i] = MaxTries
    /\ tries' = [tries EXCEPT ![i] = 0]

Next ==
    \E i \in Instances :
        \/ Begin(i) \/ Finish(i) \/ Save(i) \/ Restore(i) \/ Fail(i) \/ GiveUp(i)

Spec == Init /\ [][Next]_vars
=============================================================================
