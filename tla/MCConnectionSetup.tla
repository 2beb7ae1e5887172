-------------------------- MODULE MCConnectionSetup --------------------------
(* Instances of ConnectionSetup for TLC.  PRI is subscribed for by nobody.   *)
EXTENDS ConnectionSetup

BothRoles == {"connector", "acceptor"}

\* Of a connector's socket, whatever epoll may report; of a listening socket: a
\* client, an error, both, a hang-up; and of a connection: input, and its end.
MasksByRole ==
    [connector |-> SUBSET {In, Out, Err, Hup, Shutdown},
     acceptor |-> {{In}, {Err}, {In, Err}, {Hup}, {In, Hup, Shutdown}}]

\* The proofs about HandedOnOwnSuccess rest on this.  It has no parameter: TLC sorts
\* every notification there is.
ASSUME DeliveryAssumption == DeliveredInOrder

EdgesByRole == [connector |-> 2, acceptor |-> 3]
=============================================================================
