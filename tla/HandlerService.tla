--------------------------- MODULE HandlerService ---------------------------
(***************************************************************************)
(* What an event dispatcher promises its clients, with nothing of how it   *)
(* is done: a handler is served only while its client has granted it, and  *)
(* handlers are served one at a time.  A client may withdraw the grant     *)
(* while its handler is being served; that service still runs to its end.  *)
(***************************************************************************)
CONSTANT Clients

VARIABLES granted, serving

vars == <<granted, serving>>

Init == granted = {} /\ serving = {}

Grant(c) == granted' = granted \cup {c} /\ UNCHANGED serving

Withdraw(c) == granted' = granted \ {c} /\ UNCHANGED serving

Serve(c) ==
    /\ serving = {}
    /\ c \in granted
    /\ serving' = {c}
    /\ UNCHANGED granted

Complete ==
    /\ serving' = {}
    /\ UNCHANGED granted

Next == Complete \/ \E c \in Clients : Grant(c) \/ Withdraw(c) \/ Serve(c)

Spec == Init /\ [][Next]_vars

=============================================================================
