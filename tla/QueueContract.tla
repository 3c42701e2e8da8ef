--------------------------- MODULE QueueContract ---------------------------
(***************************************************************************)
(* What the documentation of _tny_camel_queue_launch promises its callers: *)
(* a submitted item is run once and answered with its callback, or dropped *)
(* before it ran and refused with its cancel callback; only one item is on *)
(* the stage at a time, and dropping does not touch the item on it.        *)
(***************************************************************************)
CONSTANT Items

VARIABLE phase

OnStage == {"running", "ended", "answered", "refused"}
Phases  == {"free", "waiting", "dropped"} \cup OnStage

StageFree == \A i \in Items : phase[i] \notin OnStage

Init == phase = [i \in Items |-> "free"]

Move(i, from, to) == phase[i] = from /\ phase' = [phase EXCEPT ![i] = to]

Submit(i) == Move(i, "free", "waiting")

Drop(S) == /\ \A i \in S : phase[i] = "waiting"
           /\ phase' = [i \in Items |-> IF i \in S THEN "dropped" ELSE phase[i]]

Start(i)  == StageFree /\ Move(i, "waiting", "running")
End(i)    == Move(i, "running", "ended")
Answer(i) == Move(i, "ended", "answered")
Refuse(i) == StageFree /\ Move(i, "dropped", "refused")

Release(i) == Move(i, "answered", "free") \/ Move(i, "refused", "free")

Next == \/ \E S \in SUBSET Items : Drop(S)
        \/ \E i \in Items : \/ Submit(i) \/ Start(i) \/ End(i) \/ Answer(i)
                            \/ Refuse(i) \/ Release(i)

Spec == Init /\ [][Next]_phase
=============================================================================
