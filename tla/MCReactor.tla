------------------------------ MODULE MCReactor ------------------------------
(* Instances of Reactor for TLC: the configurations give every constant. *)
EXTENDS Reactor
=============================================================================
