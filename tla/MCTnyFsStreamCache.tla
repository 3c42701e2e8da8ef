------------------------- MODULE MCTnyFsStreamCache -------------------------
(* Instances of TnyFsStreamCache for TLC. *)
EXTENDS TnyFsStreamCache, TLC

CONSTANTS c1, i1, i2, f1, f2, f3, s1, n1, n2, n3

OneCaller   == {c1}
OneId       == {i1}
TwoIds      == {i1, i2}
TwoFiles    == {f1, f2}
ThreeFiles  == {f1, f2, f3}
OneStream   == {s1}
ThreeInodes == {n1, n2, n3}
SmallSizes  == (i1 :> 1) @@ (i2 :> 1)
LargerSize  == i1 :> 2
=============================================================================
