------------------------- MODULE MCReactorLifecycle -------------------------
(* Instances of ReactorLifecycle for TLC: the configurations give every      *)
(* constant.                                                                 *)
EXTENDS ReactorLifecycle
=============================================================================
