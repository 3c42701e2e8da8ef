------------------------ MODULE MCTnyCamelSendQueue ------------------------
(* Instances of TnyCamelSendQueue for TLC. *)
EXTENDS TnyCamelSendQueue, TLC

CONSTANTS m1, m2, s1, s2

OneMsg   == {m1}
TwoMsgs  == {m1, m2}
Senders  == {s1, s2}
Symmetry == Permutations(Msgs) \cup Permutations(Threads)
=============================================================================
