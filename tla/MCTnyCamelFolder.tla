-------------------------- MODULE MCTnyCamelFolder --------------------------
(***************************************************************************)
(* Instances of TnyCamelFolder for TLC: the three threads and a few        *)
(* messages, headers and changes.                                          *)
(***************************************************************************)
EXTENDS TnyCamelFolder

CONSTANTS main, worker, idle, nothing, u1, u2, h1, h2, h3, h4, h5, k1, k2

OneUid    == {u1}
TwoUids   == {u1, u2}
Headers3  == {h1, h2, h3}
Headers4  == {h1, h2, h3, h4}
Headers5  == {h1, h2, h3, h4, h5}
OneChange == {k1}
TwoChanges == {k1, k2}
=============================================================================
