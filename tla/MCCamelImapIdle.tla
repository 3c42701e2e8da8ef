-------------------------- MODULE MCCamelImapIdle --------------------------
(* Instances of CamelImapIdle for TLC. *)
EXTENDS CamelImapIdle, TLC

CONSTANTS w1, w2, i1, i2

OneWorker  == {w1}
TwoWorkers == {w1, w2}
TwoThreads == {i1, i2}
Symmetry   == Permutations(Workers) \cup Permutations(IdleThreads)
=============================================================================
