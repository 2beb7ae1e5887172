------------------------- MODULE ServerClientsProofs -------------------------
(***************************************************************************)
(* Proofs about ServerClients, for any sets of clients and of descriptors. *)
(*                                                                         *)
(* Agree strengthens StorageIsSubscribed: it says of every moment what     *)
(* storage, endpoints, device numbers, contexts and handlers have to do    *)
(* with each other, also while an event is handled, when a destroyed       *)
(* endpoint may still be the handler in progress.  Waits says that a       *)
(* connection in the backlog is there once and has no endpoint yet, which  *)
(* is why its endpoint is none of those that the single storage drops.     *)
(*                                                                         *)
(* LeftBehindByMerging counts, so that it needs to know that a             *)
(* notification of the listening socket carries one event (Edges), and     *)
(* how the number of such notifications changes with the queue.            *)
(*                                                                         *)
(* EndIsItsOwn follows a notification from the report to the handler:      *)
(* a SHUTDOWN in it is that of its source (Honest), and the handler that   *)
(* gets it is the source or excused (Straight).  It rests on a fact about  *)
(* the recursive Delivered that TLC evaluates: it adds no event.           *)
(***************************************************************************)
EXTENDS ServerClients, FiniteSetTheorems, SequenceTheorems, TLAPS

Ended(c) == peer[c] \cap {"fin", "reset"} # {}

Todos == {<<In>>} \cup {Delivered(mask) : mask \in SUBSET Event}
Notification ==
    [handle : Descriptors \cup {Listener}, source : Clients \cup {Nobody}, todo : Todos]

TypesHold ==
    /\ peer \in [Clients -> SUBSET {"here", "data", "read", "fin", "reset"}]
    /\ backlog \in Seq(Clients)
    /\ ready \subseteq watched \cup {Listener}
    /\ watched \subseteq Descriptors
    /\ queue \in Seq(Notification)
    /\ joined \in Nat
    /\ policy \in {"single", "associative"}
    /\ storage \in [Descriptors -> Clients \cup {Nobody}]
    /\ endpoint \in [Clients -> {"none", "alive", "destroyed"}]
    /\ fd \in [Clients -> Descriptors \cup {Nobody}]
    /\ context \in [Descriptors -> {"absent", "live", "expired"}]
    /\ handler \in [Descriptors -> Clients \cup {Nobody}]
    /\ told \in [Clients -> Seq({"connected", "input", "disconnected"})]
    /\ excused \subseteq Clients
    /\ running \in BOOLEAN

\* The notification under way.
LoopTypes ==
    /\ DOMAIN loop = {"handle", "source", "todo"}
    /\ loop.handle \in Descriptors \cup {Listener, Nobody}

\* A connection that waits for accept4 does so once and has no endpoint.
Waits ==
    /\ \A i, j \in DOMAIN backlog : backlog[i] = backlog[j] => i = j
    /\ \A i \in DOMAIN backlog : endpoint[backlog[i]] = "none" /\ peer[backlog[i]] # {}
    /\ \A c \in Clients : peer[c] = {} => endpoint[c] = "none"

\* StorageIsSubscribed at every moment, and what it rests on.
StoredAt(d) ==
    IF storage[d] # Nobody
    THEN /\ endpoint[storage[d]] = "alive" /\ fd[storage[d]] = d
         /\ context[d] = "live" /\ handler[d] = storage[d] /\ d \in watched
    ELSE context[d] # "live" /\ d \notin watched
Held(c) ==
    IF endpoint[c] = "alive" THEN fd[c] \in Descriptors /\ storage[fd[c]] = c ELSE fd[c] = Nobody
HandlerAt(d) ==
    handler[d] # Nobody =>
        endpoint[handler[d]] # "none" /\ (endpoint[handler[d]] = "alive" => fd[handler[d]] = d)

Agree ==
    /\ \A d \in Descriptors : StoredAt(d) /\ HandlerAt(d)
    /\ \A c \in Clients : Held(c)

SInv == TypesHold /\ LoopTypes /\ Waits /\ Agree

\* A notification of the listening socket carries one event.
Edges ==
    /\ \A i \in DOMAIN queue : queue[i].handle = Listener => queue[i].todo = <<In>>
    /\ loop.handle = Listener => loop.todo \in {<<>>, <<In>>}

One(condition) == IF condition THEN 1 ELSE 0

LInv == SInv /\ Edges /\ LeftBehindByMerging

\* A notification tells of its source: of an end only if there is one.
TheEnded == {c \in Clients : Ended(c)}
Honestly(n, ended) ==
    n.handle \in Descriptors =>
        /\ n.source \in Clients /\ n.todo \in Seq(Event)
        /\ \A i \in DOMAIN n.todo : n.todo[i] = Shutdown => n.source \in ended
Honest == (\A i \in DOMAIN queue : Honestly(queue[i], TheEnded)) /\ Honestly(loop, TheEnded)

\* It goes to its source, or its receiver is excused.
Straight == loop.handle \in Descriptors => handler[loop.handle] \in {loop.source} \cup excused

Told(c) ==
    /\ endpoint[c] = "none" => told[c] = <<>>
    /\ endpoint[c] = "alive" => told[c] # <<>>
    /\ \A i \in DOMAIN told[c] :
          /\ told[c][i] = "connected" <=> i = 1
          /\ told[c][i] = "disconnected" =>
                /\ i >= Len(told[c]) - 1 /\ told[c][Len(told[c])] = "disconnected"
                /\ endpoint[c] = "destroyed" /\ (Ended(c) \/ c \in excused)

TInv == SInv /\ Honest /\ Straight /\ \A c \in Clients : Told(c)

-----------------------------------------------------------------------------
(* What the operators of the model do *)

LEMMA IdleLoop ==
    /\ DOMAIN Idle = {"handle", "source", "todo"}
    /\ Idle.handle = Nobody /\ Idle.todo = <<>> /\ DOMAIN Idle.todo = {}
  BY DEF Idle

\* cleanupExpired touches no live context and not its handler.
LEMMA Cleaned ==
    ASSUME TypesHold
    PROVE  /\ CleanContext \in [Descriptors -> {"absent", "live", "expired"}]
           /\ CleanHandler \in [Descriptors -> Clients \cup {Nobody}]
           /\ \A d \in Descriptors :
                 /\ CleanContext[d] = "live" <=> context[d] = "live"
                 /\ context[d] = "live" => CleanHandler[d] = handler[d]
                 /\ CleanHandler[d] \in {handler[d], Nobody}
                 /\ loop.handle = d => CleanHandler[d] = handler[d]
  BY DEF TypesHold, CleanContext, CleanHandler, Expired

\* What is destroyed, closed and unsubscribed is of the types of the state.
LEMMA GoneTypes ==
    ASSUME TypesHold, NEW gone
    PROVE  /\ Unsubscribed(gone) \in [Descriptors -> {"absent", "live", "expired"}]
           /\ HandlersLeft(gone) \in [Descriptors -> Clients \cup {Nobody}]
           /\ Destroyed(gone) \in [Clients -> {"none", "alive", "destroyed"}]
           /\ Closed(gone) \in [Clients -> Descriptors \cup {Nobody}]
  BY Cleaned DEF TypesHold, Unsubscribed, HandlersLeft, Destroyed, Closed

\* The connection that accept4 returns, and those that still wait.
LEMMA NextWaiting ==
    ASSUME SInv, backlog # <<>>
    PROVE  /\ Head(backlog) \in Clients /\ Tail(backlog) \in Seq(Clients)
           /\ Len(Tail(backlog)) = Len(backlog) - 1
           /\ endpoint[Head(backlog)] = "none" /\ peer[Head(backlog)] # {}
           /\ \A i \in DOMAIN Tail(backlog) :
                 /\ Tail(backlog)[i] = backlog[i + 1] /\ i + 1 \in DOMAIN backlog
                 /\ Tail(backlog)[i] # Head(backlog)
  <1>1. /\ backlog \in Seq(Clients) /\ Head(backlog) \in Clients /\ Tail(backlog) \in Seq(Clients)
        /\ Len(Tail(backlog)) = Len(backlog) - 1
        /\ \A i \in 1..Len(Tail(backlog)) : Tail(backlog)[i] = backlog[i + 1]
    BY HeadTailProperties DEF SInv, TypesHold
  <1>2. /\ Len(backlog) \in Nat /\ DOMAIN backlog = 1..Len(backlog) /\ 1 \in DOMAIN backlog
        /\ Head(backlog) = backlog[1]
        /\ DOMAIN Tail(backlog) = 1..Len(backlog) - 1
    BY <1>1
  <1>3. \A i \in DOMAIN Tail(backlog) : i + 1 \in DOMAIN backlog /\ i + 1 # 1
    BY <1>2
  <1> QED
    BY <1>1, <1>2, <1>3 DEF SInv, Waits

\* Those that still wait do so as before when what waited first is accepted.
LEMMA StillWaits ==
    ASSUME SInv, backlog # <<>>, backlog' = Tail(backlog), peer' = peer,
           \A c \in Clients :
              c # Head(backlog) /\ endpoint[c] = "none" => endpoint'[c] = "none"
    PROVE  Waits'
  <1>1. \A i, j \in DOMAIN Tail(backlog) : Tail(backlog)[i] = Tail(backlog)[j] => i = j
    <2>1. \A i \in DOMAIN Tail(backlog) :
             Tail(backlog)[i] = backlog[i + 1] /\ i + 1 \in DOMAIN backlog /\ i \in Nat
      BY NextWaiting
    <2>2. \A i, j \in DOMAIN backlog : backlog[i] = backlog[j] => i = j
      BY DEF SInv, Waits
    <2> QED
      BY <2>1, <2>2
  <1>2. \A i \in DOMAIN Tail(backlog) :
           /\ Tail(backlog)[i] \in Clients /\ Tail(backlog)[i] # Head(backlog)
           /\ endpoint[Tail(backlog)[i]] = "none" /\ peer[Tail(backlog)[i]] # {}
    BY NextWaiting DEF SInv, Waits, TypesHold
  <1>3. \A c \in Clients : peer[c] = {} => endpoint[c] = "none" /\ c # Head(backlog)
    BY NextWaiting DEF SInv, Waits
  <1> QED
    BY <1>1, <1>2, <1>3 DEF Waits

\* What is stored is alive with its own number; the single storage drops all of it.
LEMMA Dropped ==
    ASSUME SInv, NEW d \in Descriptors, Free(d)
    PROVE  /\ storage[d] = Nobody
           /\ Replaced(d) = IF policy = "single"
                            THEN {storage[e] : e \in Descriptors} \ {Nobody} ELSE {}
           /\ Replaced(d) \subseteq {c \in Clients : endpoint[c] = "alive"}
           /\ \A e \in Descriptors :
                 e \in Numbers(Replaced(d)) <=> storage[e] # Nobody /\ policy = "single"
           /\ \A c \in Clients :
                 c \in Replaced(d) <=> endpoint[c] = "alive" /\ policy = "single"
  <1>1. \A e \in Descriptors : storage[e] # Nobody =>
           storage[e] \in Clients /\ endpoint[storage[e]] = "alive" /\ fd[storage[e]] = e
    BY DEF SInv, TypesHold, Agree, StoredAt
  <1>2. storage[d] = Nobody
    BY <1>1 DEF Free
  <1>3. Replaced(d) = IF policy = "single"
                      THEN {storage[e] : e \in Descriptors} \ {Nobody} ELSE {}
    BY <1>2 DEF Replaced
  <1>4. \A c \in Clients :
           endpoint[c] = "alive" => fd[c] \in Descriptors /\ storage[fd[c]] = c /\ c # Nobody
    BY HandlesAssumption DEF SInv, Agree, Held
  <1>5. \A c \in Clients : c \in Replaced(d) <=> endpoint[c] = "alive" /\ policy = "single"
    BY <1>1, <1>3, <1>4
  <1>6. \A e \in Descriptors :
           e \in Numbers(Replaced(d)) <=> storage[e] # Nobody /\ policy = "single"
    BY <1>1, <1>3 DEF Numbers
  <1>7. \A c \in Replaced(d) : c \in Clients /\ endpoint[c] = "alive"
    BY <1>1, <1>3
  <1> QED
    BY <1>2, <1>3, <1>5, <1>6, <1>7

-----------------------------------------------------------------------------
(* Storage, endpoints and reactor: one lemma per action *)

LEMMA Initially == Init => SInv
  <1> SUFFICES ASSUME Init PROVE SInv
    OBVIOUS
  <1>1. TypesHold
    BY DEF Init, TypesHold
  <1>2. LoopTypes
    BY IdleLoop DEF Init, LoopTypes
  <1>3. Waits
    BY DEF Init, Waits
  <1>4. Agree
    BY DEF Init, Agree, StoredAt, HandlerAt, Held
  <1> QED BY <1>1, <1>2, <1>3, <1>4 DEF SInv

\* What neither the storage nor the endpoints nor the reactor's tables know of.
LEMMA AgreeStays ==
    ASSUME Agree, UNCHANGED <<storage, endpoint, fd, context, handler, watched>>
    PROVE  Agree'
  BY DEF Agree, StoredAt, HandlerAt, Held

LEMMA ArriveKeeps ==
    ASSUME SInv, NEW c \in Clients, Arrive(c)
    PROVE  SInv'
  <1>1. /\ Append(backlog, c) \in Seq(Clients)
        /\ DOMAIN Append(backlog, c) = 1..Len(backlog) + 1 /\ DOMAIN backlog = 1..Len(backlog)
        /\ Len(backlog) \in Nat
        /\ \A i \in 1..Len(backlog) : Append(backlog, c)[i] = backlog[i]
        /\ Append(backlog, c)[Len(backlog) + 1] = c
    BY AppendProperties, LenProperties DEF SInv, TypesHold
  <1>2. TypesHold' /\ LoopTypes'
    BY <1>1 DEF SInv, TypesHold, LoopTypes, Arrive, server, reactor
  <1>3. Waits'
    <2>1. /\ \A i \in DOMAIN backlog : backlog[i] # c
          /\ endpoint[c] = "none"
      BY DEF SInv, Waits, Arrive
    <2>2. \A i \in 1..Len(backlog) + 1 : i \in 1..Len(backlog) \/ i = Len(backlog) + 1
      BY <1>1
    <2>3. \A i \in DOMAIN backlog : backlog[i] \in Clients
      BY DEF SInv, TypesHold
    <2>4. /\ peer'[c] # {} /\ \A x \in Clients \ {c} : peer'[x] = peer[x]
          /\ backlog' = Append(backlog, c) /\ endpoint' = endpoint
      BY DEF SInv, TypesHold, Arrive, server
    <2> QED
      BY <1>1, <2>1, <2>2, <2>3, <2>4 DEF SInv, Waits
  <1>4. Agree'
    BY AgreeStays DEF SInv, Arrive, server, reactor
  <1> QED BY <1>2, <1>3, <1>4 DEF SInv

LEMMA PeerDoesKeeps ==
    ASSUME SInv, NEW c \in Clients, NEW what \in {"data", "fin", "reset"}, PeerDoes(c, what)
    PROVE  SInv'
  <1>1. /\ peer' \in [Clients -> SUBSET {"here", "data", "read", "fin", "reset"}]
        /\ \A x \in Clients : peer[x] \subseteq peer'[x]
        /\ \A x \in Clients : peer'[x] = {} => peer[x] = {}
    BY DEF SInv, TypesHold, PeerDoes
  <1>2. TypesHold' /\ LoopTypes'
    BY <1>1 DEF SInv, TypesHold, LoopTypes, PeerDoes, server, reactor
  <1>3. Waits'
    BY <1>1 DEF SInv, TypesHold, Waits, PeerDoes, server
  <1>4. Agree'
    BY AgreeStays DEF SInv, PeerDoes, server, reactor
  <1> QED BY <1>2, <1>3, <1>4 DEF SInv

\* A watched descriptor is that of the stored endpoint.
LEMMA OwnerOfWatched ==
    ASSUME SInv, NEW d \in watched
    PROVE  Owner(d) \in Clients /\ fd[Owner(d)] = d
  <1>1. storage[d] \in Clients /\ fd[storage[d]] = d
    BY DEF SInv, TypesHold, Agree, StoredAt
  <1> QED
    BY <1>1 DEF Owner

LEMMA MaskIsEvents == \A c \in Clients : Mask(c) \in SUBSET Event
  BY DEF Mask, Event, In, Shutdown, Err, Hup

LEMMA ReportKeeps ==
    ASSUME SInv, NEW h \in Descriptors \cup {Listener}, Report(h)
    PROVE  SInv' /\ queue' \in Seq(Notification)
  <1> DEFINE n == [handle |-> h, source |-> IF h = Listener THEN Nobody ELSE Owner(h),
                   todo |-> IF h = Listener THEN <<In>> ELSE Delivered(Mask(Owner(h)))]
  <1>1. h # Listener => h \in watched
    BY DEF SInv, TypesHold, Report, Reported
  <1>2. n \in Notification
    BY <1>1, OwnerOfWatched, MaskIsEvents DEF Notification, Todos
  <1>3. Append(queue, n) \in Seq(Notification)
    BY <1>2 DEF SInv, TypesHold
  <1>4. queue' = Append(queue, n) /\ ready' \subseteq ready
    BY DEF Report, Reported
  <1> HIDE DEF n
  <1>5. TypesHold' /\ LoopTypes'
    BY <1>3, <1>4 DEF SInv, TypesHold, LoopTypes, Report, server, reactor
  <1>6. Waits' /\ Agree'
    BY AgreeStays DEF SInv, Waits, Report, server, reactor
  <1> QED BY <1>3, <1>4, <1>5, <1>6 DEF SInv

\* Taking an event off the list leaves the handle.
LEMMA LoopGoesOn ==
    ASSUME LoopTypes, NEW h \in Descriptors \cup {Listener}, Serving(h), loop' = Done
    PROVE  /\ LoopTypes' /\ loop'.handle = h
           /\ loop'.source = loop.source /\ loop'.todo = Tail(loop.todo)
  BY DEF LoopTypes, Serving, Done

LEMMA AcceptKeeps ==
    ASSUME SInv, NEW d \in Descriptors, Accept(d)
    PROVE  SInv' /\ loop' = Done
  <1> DEFINE c == Head(backlog)
             gone == Replaced(d)
  <1>1. /\ Serving(Listener) /\ backlog # <<>> /\ Free(d) /\ CleanContext[d] = "absent"
        /\ backlog' = Tail(backlog) /\ loop' = Done
        /\ endpoint' = [Destroyed(gone) EXCEPT ![c] = "alive"]
        /\ fd' = [Closed(gone) EXCEPT ![c] = d]
        /\ context' = [Unsubscribed(gone) EXCEPT ![d] = "live"]
        /\ handler' = [HandlersLeft(gone) EXCEPT ![d] = c]
        /\ storage' = Store(d, c)
        /\ watched' = (watched \ Numbers(gone)) \cup {d}
        /\ ready' \subseteq (ready \ Numbers(gone)) \cup {d}
        /\ told' = [told EXCEPT ![c] = Append(@, "connected")]
        /\ UNCHANGED <<peer, queue, joined, policy, excused, running>>
    BY DEF Accept
  <1>2. /\ c \in Clients /\ endpoint[c] = "none" /\ peer[c] # {} /\ Tail(backlog) \in Seq(Clients)
        /\ storage[d] = Nobody /\ c \notin gone
        /\ gone \subseteq {x \in Clients : endpoint[x] # "none"}
    BY <1>1, NextWaiting, Dropped
  <1>3. /\ endpoint'[c] = "alive" /\ fd'[c] = d
        /\ \A x \in Clients \ {c} :
              /\ endpoint'[x] = IF x \in gone THEN "destroyed" ELSE endpoint[x]
              /\ fd'[x] = IF x \in gone THEN Nobody ELSE fd[x]
    BY <1>1, <1>2, GoneTypes DEF SInv, Destroyed, Closed
  <1>4. /\ context'[d] = "live" /\ handler'[d] = c /\ storage'[d] = c
        /\ \A e \in Descriptors \ {d} :
              /\ context'[e] = IF e \in Numbers(gone) THEN "absent" ELSE CleanContext[e]
              /\ handler'[e] = IF e \in Numbers(gone) THEN Nobody ELSE CleanHandler[e]
              /\ storage'[e] = IF policy = "single" THEN Nobody ELSE storage[e]
    BY <1>1, GoneTypes, HandlesAssumption
       DEF SInv, TypesHold, Unsubscribed, HandlersLeft, Serving, Store
  <1>5. /\ gone \subseteq {x \in Clients : endpoint[x] = "alive"}
        /\ \A e \in Descriptors : e \in Numbers(gone) <=> storage[e] # Nobody /\ policy = "single"
        /\ \A x \in Clients : x \in gone <=> endpoint[x] = "alive" /\ policy = "single"
    BY <1>1, Dropped
  <1>6. LoopTypes'
    BY <1>1, LoopGoesOn DEF SInv
  <1>7. Waits'
    <2>1. \A x \in Clients : x # c /\ endpoint[x] = "none" => endpoint'[x] = "none"
      BY <1>2, <1>3
    <2> QED BY <1>1, <2>1, StillWaits
  <1> HIDE DEF c, gone
  <1>8. TypesHold'
    <2>1. /\ endpoint' \in [Clients -> {"none", "alive", "destroyed"}]
          /\ fd' \in [Clients -> Descriptors \cup {Nobody}]
      BY <1>1, <1>2, GoneTypes DEF SInv
    <2>2. /\ context' \in [Descriptors -> {"absent", "live", "expired"}]
          /\ handler' \in [Descriptors -> Clients \cup {Nobody}]
      BY <1>1, <1>2, GoneTypes DEF SInv
    <2>3. storage' \in [Descriptors -> Clients \cup {Nobody}]
      BY <1>1, <1>2 DEF SInv, TypesHold, Store
    <2>4. Append(told[c], "connected") \in Seq({"connected", "input", "disconnected"})
      BY <1>2 DEF SInv, TypesHold
    <2>5. told' \in [Clients -> Seq({"connected", "input", "disconnected"})]
      BY <1>1, <1>2, <2>4 DEF SInv, TypesHold
    <2>6. ready' \subseteq watched' \cup {Listener} /\ watched' \subseteq Descriptors
      BY <1>1 DEF SInv, TypesHold, Numbers
    <2> QED BY <1>1, <1>2, <2>1, <2>2, <2>3, <2>5, <2>6 DEF SInv, TypesHold
  <1>9. ASSUME NEW e \in Descriptors
        PROVE  (StoredAt(e) /\ HandlerAt(e))'
    <2>1. CASE e = d
      BY <1>1, <1>3, <1>4, <2>1, <1>2, HandlesAssumption DEF StoredAt, HandlerAt
    <2>2. CASE e # d /\ e \in Numbers(gone)
      BY <1>1, <1>4, <1>5, <2>2, HandlesAssumption DEF StoredAt, HandlerAt
    <2>3. CASE e # d /\ e \notin Numbers(gone)
      <3>1. /\ StoredAt(e) /\ HandlerAt(e)
            /\ context'[e] = CleanContext[e] /\ handler'[e] = CleanHandler[e]
            /\ storage'[e] = storage[e] /\ (e \in watched' <=> e \in watched)
        BY <1>1, <1>4, <1>5, <2>3 DEF SInv, Agree
      <3>2. \A x \in Clients : endpoint[x] # "none" =>
               /\ x # c /\ endpoint'[x] \in {"destroyed", endpoint[x]}
               /\ endpoint'[x] = "alive" => endpoint[x] = "alive" /\ fd'[x] = fd[x]
        BY <1>2, <1>3
      <3>3. storage[e] # Nobody => storage[e] \in Clients /\ storage[e] \notin gone
        BY <1>5, <2>3 DEF SInv, TypesHold
      <3>4. StoredAt(e)'
        BY <3>1, <3>2, <3>3, <1>3, Cleaned DEF SInv, StoredAt
      <3>5. handler[e] \in Clients \cup {Nobody} /\ CleanHandler[e] \in {handler[e], Nobody}
        BY Cleaned DEF SInv, TypesHold
      <3>6. HandlerAt(e)'
        BY <3>1, <3>2, <3>5 DEF HandlerAt
      <3> QED BY <3>4, <3>6
    <2> QED BY <2>1, <2>2, <2>3
  <1>10. ASSUME NEW x \in Clients
         PROVE  Held(x)'
    <2>1. CASE x = c
      BY <1>3, <1>4, <2>1 DEF Held
    <2>2. CASE x # c
      <3>1. Held(x) /\ fd[x] # d
        BY <1>1 DEF SInv, Agree, Free
      <3>2. CASE x \in gone
        BY <1>3, <2>2, <3>2 DEF Held
      <3>3. CASE x \notin gone
        BY <1>3, <1>4, <1>5, <2>2, <3>1, <3>3 DEF Held
      <3> QED BY <3>2, <3>3
    <2> QED BY <2>1, <2>2
  <1>11. Agree'
    BY <1>9, <1>10 DEF Agree
  <1> QED BY <1>1, <1>6, <1>7, <1>8, <1>11 DEF SInv

\* A cleanup by itself.
LEMMA CleanupAgrees ==
    ASSUME SInv, context' = CleanContext, handler' = CleanHandler,
           storage' = storage, fd' = fd, watched' = watched,
           \A c \in Clients :
              /\ endpoint[c] # "none" => endpoint'[c] = endpoint[c]
              /\ endpoint'[c] = "alive" => endpoint[c] = "alive"
    PROVE  Agree'
  <1>1. ASSUME NEW d \in Descriptors
        PROVE  (StoredAt(d) /\ HandlerAt(d))'
    <2>1. storage[d] \in Clients \cup {Nobody} /\ handler[d] \in Clients \cup {Nobody}
      BY DEF SInv, TypesHold
    <2> QED
      BY <2>1, Cleaned DEF SInv, Agree, StoredAt, HandlerAt
  <1>2. \A c \in Clients : Held(c)'
    BY DEF SInv, Agree, Held
  <1> QED BY <1>1, <1>2 DEF Agree

LEMMA RefuseKeeps ==
    ASSUME SInv, Refuse
    PROVE  SInv'
  <1>1. /\ Serving(Listener) /\ backlog # <<>> /\ backlog' = Tail(backlog) /\ loop' = Done
        /\ endpoint' = [endpoint EXCEPT ![Head(backlog)] = "destroyed"]
        /\ context' = CleanContext /\ handler' = CleanHandler
        /\ UNCHANGED <<peer, ready, watched, queue, joined, policy, storage, fd, told, excused,
                       running>>
    BY DEF Refuse
  <1>2. /\ Head(backlog) \in Clients /\ endpoint[Head(backlog)] = "none"
        /\ Tail(backlog) \in Seq(Clients)
    BY <1>1, NextWaiting
  <1>3. \A c \in Clients :
           endpoint'[c] = IF c = Head(backlog) THEN "destroyed" ELSE endpoint[c]
    BY <1>1 DEF SInv, TypesHold
  <1>4. TypesHold'
    BY <1>1, <1>2, Cleaned DEF SInv, TypesHold
  <1>5. LoopTypes'
    BY <1>1, LoopGoesOn DEF SInv
  <1>6. Waits'
    <2>1. \A c \in Clients : c # Head(backlog) /\ endpoint[c] = "none" => endpoint'[c] = "none"
      BY <1>3
    <2> QED BY <1>1, <2>1, StillWaits
  <1>7. Agree'
    <2>1. \A c \in Clients :
             /\ endpoint[c] # "none" => endpoint'[c] = endpoint[c]
             /\ endpoint'[c] = "alive" => endpoint[c] = "alive"
      BY <1>2, <1>3
    <2> QED BY <1>1, <2>1, CleanupAgrees
  <1> QED BY <1>4, <1>5, <1>6, <1>7 DEF SInv

LEMMA InputKeeps ==
    ASSUME SInv, NEW c \in Clients, InputEvent(c)
    PROVE  SInv' /\ loop.handle \in Descriptors /\ Serving(loop.handle) /\ loop' = Done
  <1>1. /\ loop.handle \in Descriptors /\ Serving(loop.handle) /\ loop' = Done
        /\ told' = [told EXCEPT ![c] = Append(@, "input")]
        /\ peer' = [peer EXCEPT ![c] = IF "data" \in @ THEN @ \cup {"read"} ELSE @]
        /\ UNCHANGED <<backlog, ready, watched, queue, joined, policy, storage, endpoint, fd,
                       context, handler, excused, running>>
    BY DEF InputEvent, Handling, server, reactor
  <1>2. Append(told[c], "input") \in Seq({"connected", "input", "disconnected"})
    BY DEF SInv, TypesHold
  <1>3. /\ peer' \in [Clients -> SUBSET {"here", "data", "read", "fin", "reset"}]
        /\ \A x \in Clients : peer[x] # {} <=> peer'[x] # {}
    BY <1>1 DEF SInv, TypesHold
  <1>4. TypesHold'
    BY <1>1, <1>2, <1>3 DEF SInv, TypesHold
  <1>5. LoopTypes'
    BY <1>1, LoopGoesOn DEF SInv
  <1>6. Waits'
    BY <1>1, <1>3 DEF SInv, TypesHold, Waits
  <1>7. Agree'
    BY <1>1, AgreeStays DEF SInv
  <1> QED BY <1>1, <1>4, <1>5, <1>6, <1>7 DEF SInv

\* Who handles an event is stored at the number that the event is for.
LEMMA HandlerIsStored ==
    ASSUME SInv, NEW c \in Clients, NEW h \in Descriptors, handler[h] = c, endpoint[c] = "alive"
    PROVE  fd[c] = h /\ storage[h] = c
  <1>1. c # Nobody
    BY HandlesAssumption
  <1> QED
    BY <1>1 DEF SInv, Agree, HandlerAt, Held

LEMMA DisconnectionKeeps ==
    ASSUME SInv, NEW c \in Clients, DisconnectionEvent(c)
    PROVE  SInv' /\ loop.handle \in Descriptors /\ Serving(loop.handle) /\ loop' = Done
  <1> DEFINE h == loop.handle
  <1>1. /\ h \in Descriptors /\ Serving(h) /\ loop' = Done
        /\ handler[h] = c /\ endpoint[c] = "alive"
        /\ storage' = Erase(h) /\ endpoint' = Destroyed({c}) /\ fd' = Closed({c})
        /\ context' = Unsubscribed({c}) /\ handler' = HandlersLeft({c})
        /\ watched' = watched \ {h} /\ ready' = ready \ {h}
        /\ running' \in BOOLEAN
        /\ UNCHANGED <<peer, backlog, queue, joined, policy, excused>>
    BY DEF DisconnectionEvent, Disconnect, Handling
  <1>2. PICK again \in {<<>>, <<"disconnected">>} :
           told' = [told EXCEPT ![c] = @ \o <<"disconnected">> \o again]
    BY DEF DisconnectionEvent
  <1>3. fd[c] = h /\ storage[h] = c
    BY <1>1, HandlerIsStored
  <1>4. Numbers({c}) = {h}
    BY <1>1, <1>3 DEF Numbers
  <1>5. /\ \A x \in Clients : endpoint'[x] = IF x = c THEN "destroyed" ELSE endpoint[x]
        /\ \A x \in Clients : fd'[x] = IF x = c THEN Nobody ELSE fd[x]
        /\ \A d \in Descriptors : context'[d] = IF d = h THEN "absent" ELSE CleanContext[d]
        /\ \A d \in Descriptors : handler'[d] = CleanHandler[d]
        /\ \A d \in Descriptors : storage'[d] = IF d = h THEN Nobody ELSE storage[d]
    BY <1>1, <1>4 DEF SInv, TypesHold, Destroyed, Closed, Unsubscribed, HandlersLeft, Erase
  <1>6. LoopTypes'
    BY <1>1, LoopGoesOn DEF SInv
  <1>7. TypesHold'
    <2>1. told[c] \in Seq({"connected", "input", "disconnected"})
      BY DEF SInv, TypesHold
    <2>0. /\ <<"disconnected">> \in Seq({"connected", "input", "disconnected"})
          /\ <<>> \in Seq({"connected", "input", "disconnected"})
          /\ again = <<>> \/ again = <<"disconnected">>
      OBVIOUS
    <2>2. told[c] \o <<"disconnected">> \o again \in Seq({"connected", "input", "disconnected"})
      BY <2>0, <2>1, ConcatProperties
    <2>3. told' \in [Clients -> Seq({"connected", "input", "disconnected"})]
      BY <1>2, <2>2 DEF SInv, TypesHold
    <2>4. storage' \in [Descriptors -> Clients \cup {Nobody}]
      BY <1>1 DEF SInv, TypesHold, Erase
    <2>5. ready' \subseteq watched' \cup {Listener} /\ watched' \subseteq Descriptors
      BY <1>1 DEF SInv, TypesHold
    <2> QED BY <1>1, <2>3, <2>4, <2>5, GoneTypes DEF SInv, TypesHold
  <1>8. Waits'
    <2>1. \A i \in DOMAIN backlog : backlog[i] \in Clients
      BY DEF SInv, TypesHold
    <2>2. \A x \in Clients : endpoint[x] = "none" => endpoint'[x] = "none"
      BY <1>1, <1>5
    <2> QED BY <1>1, <2>1, <2>2 DEF SInv, Waits
  <1> HIDE DEF h
  <1>9. ASSUME NEW d \in Descriptors
        PROVE  (StoredAt(d) /\ HandlerAt(d))'
    <2>1. /\ StoredAt(d) /\ HandlerAt(d) /\ StoredAt(h)
          /\ storage[d] \in Clients \cup {Nobody} /\ handler[d] \in Clients \cup {Nobody}
      BY <1>1 DEF SInv, TypesHold, Agree
    <2>2. d # h => storage[d] # c
      BY <1>3, <2>1, HandlesAssumption DEF StoredAt
    <2>3. StoredAt(d)'
      <3>1. CASE d = h
        BY <1>1, <1>5, <3>1 DEF StoredAt
      <3>2. CASE d # h
        <4>1. /\ context'[d] = "live" <=> context[d] = "live"
              /\ context[d] = "live" => handler'[d] = handler[d]
              /\ storage'[d] = storage[d] /\ (d \in watched' <=> d \in watched)
          BY <1>1, <1>5, <3>2, Cleaned DEF SInv
        <4>2. storage[d] # Nobody =>
                 endpoint'[storage[d]] = endpoint[storage[d]] /\ fd'[storage[d]] = fd[storage[d]]
          BY <1>5, <2>1, <2>2, <3>2
        <4> QED BY <2>1, <4>1, <4>2 DEF StoredAt
      <3> QED BY <3>1, <3>2
    <2>4. CleanHandler[d] \in {handler[d], Nobody}
      BY Cleaned DEF SInv
    <2>5. HandlerAt(d)'
      BY <1>5, <2>1, <2>4 DEF HandlerAt
    <2> QED BY <2>3, <2>5
  <1>10. ASSUME NEW x \in Clients
         PROVE  Held(x)'
    <2>1. Held(x)
      BY DEF SInv, Agree
    <2>2. x # c /\ endpoint[x] = "alive" => fd[x] # h
      BY <1>3, <2>1 DEF Held
    <2> QED BY <1>5, <2>1, <2>2 DEF Held
  <1>11. Agree'
    BY <1>9, <1>10 DEF Agree
  <1> QED BY <1>1, <1>6, <1>7, <1>8, <1>11 DEF SInv, h

LEMMA CallDestroyedKeeps ==
    ASSUME SInv, CallDestroyed
    PROVE  SInv'
  <1>1. /\ loop.handle \in Descriptors
        /\ endpoint[handler[loop.handle]] = "destroyed"
        /\ loop' = [loop EXCEPT !.todo = <<>>]
        /\ context' = [context EXCEPT ![loop.handle] = "expired"]
        /\ running' \in BOOLEAN
        /\ UNCHANGED <<peer, backlog, ready, watched, queue, joined, policy, storage, endpoint, fd,
                       handler, told, excused>>
    BY DEF CallDestroyed, kernel, server
  <1>2. storage[loop.handle] = Nobody
    BY <1>1 DEF SInv, Agree, StoredAt
  <1>3. TypesHold' /\ Waits'
    BY <1>1 DEF SInv, TypesHold, Waits
  <1>4. LoopTypes'
    BY <1>1 DEF SInv, LoopTypes
  <1>5. Agree'
    BY <1>1, <1>2 DEF SInv, TypesHold, Agree, StoredAt, HandlerAt, Held
  <1> QED BY <1>3, <1>4, <1>5 DEF SInv

\* The first of the notifications, and those behind it.
LEMMA NextNotified ==
    ASSUME queue \in Seq(Notification), queue # <<>>
    PROVE  /\ Head(queue) \in Notification /\ Tail(queue) \in Seq(Notification)
           /\ DOMAIN Head(queue) = {"handle", "source", "todo"}
           /\ Head(queue).handle \in Descriptors \cup {Listener}
           /\ Head(queue).todo \in Todos
           /\ Head(queue) = queue[1] /\ 1 \in DOMAIN queue
           /\ \A i \in DOMAIN Tail(queue) : i + 1 \in DOMAIN queue /\ Tail(queue)[i] = queue[i + 1]
  <1>1. /\ Head(queue) \in Notification /\ Tail(queue) \in Seq(Notification)
        /\ Len(Tail(queue)) = Len(queue) - 1
        /\ \A i \in 1..Len(Tail(queue)) : Tail(queue)[i] = queue[i + 1]
    BY HeadTailProperties
  <1>2. /\ Len(queue) \in Nat /\ DOMAIN queue = 1..Len(queue) /\ 1 \in DOMAIN queue
        /\ Head(queue) = queue[1] /\ DOMAIN Tail(queue) = 1..Len(queue) - 1
    BY <1>1
  <1>3. \A i \in DOMAIN Tail(queue) : i + 1 \in DOMAIN queue
    BY <1>2
  <1>4. \A n \in Notification :
           /\ DOMAIN n = {"handle", "source", "todo"}
           /\ n.handle \in Descriptors \cup {Listener} /\ n.todo \in Todos
    BY DEF Notification
  <1> QED BY <1>1, <1>2, <1>3, <1>4

\* A live context is that of a stored endpoint.
LEMMA ServedHandler ==
    ASSUME SInv, NEW d \in Descriptors, context[d] = "live"
    PROVE  handler[d] \in Clients /\ endpoint[handler[d]] = "alive"
  BY DEF SInv, TypesHold, Agree, StoredAt

LEMMA PopKeeps ==
    ASSUME SInv, Pop
    PROVE  SInv'
  <1> DEFINE n == Head(queue)
             served == n.handle = Listener \/ context[n.handle] = "live"
  <1>1. /\ queue # <<>> /\ queue' = Tail(queue)
        /\ loop' = IF served THEN n ELSE Idle
        /\ excused' = IF served /\ n.handle # Listener /\ handler[n.handle] # n.source
                      THEN excused \cup {handler[n.handle]} ELSE excused
        /\ UNCHANGED <<peer, backlog, ready, watched, joined, policy, storage, endpoint, fd,
                       context, handler, told, running>>
    BY DEF Pop, server, reactor
  <1>2. /\ n.handle \in Descriptors \cup {Listener} /\ Tail(queue) \in Seq(Notification)
        /\ DOMAIN n = {"handle", "source", "todo"}
    BY <1>1, NextNotified DEF SInv, TypesHold
  <1>3. served /\ n.handle # Listener => handler[n.handle] \in Clients
    BY <1>2, ServedHandler
  <1> HIDE DEF n
  <1>4. TypesHold' /\ Waits'
    BY <1>1, <1>2, <1>3 DEF SInv, TypesHold, Waits
  <1>5. LoopTypes'
    BY <1>1, <1>2, IdleLoop DEF LoopTypes
  <1>6. Agree'
    BY <1>1, AgreeStays DEF SInv
  <1> QED BY <1>4, <1>5, <1>6 DEF SInv

LEMMA OthersKeep ==
    ASSUME SInv, AcceptFails \/ Finish \/ Cleanup \/ UNCHANGED vars
    PROVE  SInv'
  <1>1. CASE AcceptFails \/ Finish \/ UNCHANGED vars
    <2>1. UNCHANGED <<kernel, server, reactor, told, excused>> /\ running' \in BOOLEAN
      BY <1>1 DEF SInv, TypesHold, AcceptFails, Finish, vars
    <2>2. TypesHold' /\ Waits'
      BY <2>1 DEF SInv, TypesHold, Waits, kernel, server, reactor
    <2>3. LoopTypes'
      BY <1>1, IdleLoop DEF SInv, LoopTypes, AcceptFails, Finish, vars
    <2>4. Agree'
      BY <2>1, AgreeStays DEF SInv, kernel, server, reactor
    <2> QED BY <2>2, <2>3, <2>4 DEF SInv
  <1>2. CASE Cleanup
    <2>1. /\ context' = CleanContext /\ handler' = CleanHandler
          /\ UNCHANGED <<kernel, server, loop, told, excused, running>>
      BY <1>2 DEF Cleanup
    <2>2. TypesHold' /\ Waits' /\ LoopTypes'
      BY <2>1, Cleaned DEF SInv, TypesHold, Waits, LoopTypes, kernel, server
    <2>3. Agree'
      BY <2>1, CleanupAgrees DEF kernel, server
    <2> QED BY <2>2, <2>3 DEF SInv
  <1> QED BY <1>1, <1>2

LEMMA StepKeeps == SInv /\ [Next]_vars => SInv'
  <1> SUFFICES ASSUME SInv, [Next]_vars PROVE SInv'
    OBVIOUS
  <1>1. ASSUME NEW c \in Clients, Arrive(c) PROVE SInv'
    BY <1>1, ArriveKeeps
  <1>2. ASSUME NEW c \in Clients, NEW what \in {"data", "fin", "reset"}, PeerDoes(c, what)
        PROVE  SInv'
    BY <1>2, PeerDoesKeeps
  <1>3. ASSUME NEW h \in Descriptors \cup {Listener}, Report(h) PROVE SInv'
    BY <1>3, ReportKeeps
  <1>4. ASSUME NEW d \in Descriptors, Accept(d) PROVE SInv'
    BY <1>4, AcceptKeeps
  <1>5. CASE Refuse
    BY <1>5, RefuseKeeps
  <1>6. ASSUME NEW c \in Clients, InputEvent(c) PROVE SInv'
    BY <1>6, InputKeeps
  <1>7. ASSUME NEW c \in Clients, DisconnectionEvent(c) PROVE SInv'
    BY <1>7, DisconnectionKeeps
  <1>8. CASE CallDestroyed
    BY <1>8, CallDestroyedKeeps
  <1>9. CASE Pop
    BY <1>9, PopKeeps
  <1>10. CASE AcceptFails \/ Finish \/ Cleanup \/ UNCHANGED vars
    BY <1>10, OthersKeep
  <1> QED
    BY <1>1, <1>2, <1>3, <1>4, <1>5, <1>6, <1>7, <1>8, <1>9, <1>10 DEF Next, LoopStep

\* Type correctness and what storage, endpoints and reactor have to do with each
\* other at every moment.
THEOREM ServerAgrees == Spec => []SInv
  <1> QED BY Initially, StepKeeps, PTL DEF Spec

\* Between notifications the server's storage, its endpoints and the reactor agree:
\* what the storage holds is alive and subscribed, and nothing else is.
THEOREM StorageStaysSubscribed == Spec => []StorageIsSubscribed
  <1>1. SInv => StorageIsSubscribed
    BY DEF SInv, Agree, StoredAt, Held, StorageIsSubscribed
  <1> QED BY <1>1, ServerAgrees, PTL

-----------------------------------------------------------------------------
(* How many of the listener's edges are queued *)

Accepts(q) == {i \in DOMAIN q : q[i].handle = Listener}

LEMMA AcceptsFinite ==
    ASSUME NEW q \in Seq(Notification)
    PROVE  IsFiniteSet(Accepts(q)) /\ Cardinality(Accepts(q)) \in Nat
  <1>1. Len(q) \in Nat /\ DOMAIN q = 1..Len(q)
    OBVIOUS
  <1>2. IsFiniteSet(1..Len(q))
    BY <1>1, FS_Interval
  <1>3. Accepts(q) \in SUBSET (1..Len(q))
    BY <1>1 DEF Accepts
  <1> QED
    BY <1>2, <1>3, FS_Subset, FS_CardinalityType

LEMMA AcceptsAppended ==
    ASSUME NEW q \in Seq(Notification), NEW n \in Notification
    PROVE  Cardinality(Accepts(Append(q, n))) = Cardinality(Accepts(q)) + One(n.handle = Listener)
  <1>1. /\ Len(q) \in Nat /\ DOMAIN q = 1..Len(q)
        /\ DOMAIN Append(q, n) = 1..Len(q) + 1
        /\ \A i \in 1..Len(q) : Append(q, n)[i] = q[i]
        /\ Append(q, n)[Len(q) + 1] = n
    BY AppendProperties
  <1>2. /\ Len(q) + 1 \notin 1..Len(q)
        /\ \A i : i \in 1..Len(q) + 1 <=> i \in 1..Len(q) \/ i = Len(q) + 1
    BY <1>1
  <1>3. Accepts(Append(q, n)) = Accepts(q) \cup {i \in {Len(q) + 1} : n.handle = Listener}
    BY <1>1, <1>2 DEF Accepts
  <1>4. Len(q) + 1 \notin Accepts(q)
    BY <1>1, <1>2 DEF Accepts
  <1>5. CASE n.handle = Listener
    <2>1. Accepts(Append(q, n)) = Accepts(q) \cup {Len(q) + 1}
      BY <1>3, <1>5
    <2> QED BY <2>1, <1>4, <1>5, AcceptsFinite, FS_AddElement DEF One
  <1>6. CASE n.handle # Listener
    <2>1. Accepts(Append(q, n)) = Accepts(q)
      BY <1>3, <1>6
    <2> QED BY <2>1, <1>6, AcceptsFinite DEF One
  <1> QED BY <1>5, <1>6

LEMMA AcceptsTaken ==
    ASSUME NEW q \in Seq(Notification), q # <<>>
    PROVE  Cardinality(Accepts(q)) = Cardinality(Accepts(Tail(q))) + One(Head(q).handle = Listener)
  <1> DEFINE behind == Accepts(q) \ {1}
             Shift == [i \in Accepts(Tail(q)) |-> i + 1]
  <1>1. /\ Tail(q) \in Seq(Notification) /\ Len(q) \in Nat /\ DOMAIN q = 1..Len(q)
        /\ 1 \in DOMAIN q /\ Head(q) = q[1]
        /\ DOMAIN Tail(q) = 1..Len(q) - 1
        /\ \A i \in 1..Len(q) - 1 : Tail(q)[i] = q[i + 1]
    <2>1. /\ Tail(q) \in Seq(Notification) /\ Len(Tail(q)) = Len(q) - 1
          /\ \A i \in 1..Len(Tail(q)) : Tail(q)[i] = q[i + 1]
      BY HeadTailProperties
    <2>2. Len(q) \in Nat /\ DOMAIN q = 1..Len(q) /\ 1 \in DOMAIN q /\ Head(q) = q[1]
      OBVIOUS
    <2> QED BY <2>1, <2>2
  <1>2. /\ \A i \in 1..Len(q) - 1 : i + 1 \in 1..Len(q) /\ i + 1 # 1
        /\ \A j \in 1..Len(q) : j # 1 => j - 1 \in 1..Len(q) - 1 /\ (j - 1) + 1 = j
        /\ \A i, j \in 1..Len(q) - 1 : i + 1 = j + 1 => i = j
    BY <1>1
  <1>3. \A i \in Accepts(Tail(q)) : i \in 1..Len(q) - 1 /\ i + 1 \in behind
    BY <1>1, <1>2 DEF Accepts
  <1>4. \A j \in behind : j - 1 \in Accepts(Tail(q)) /\ (j - 1) + 1 = j
    BY <1>1, <1>2 DEF Accepts
  <1>5. Shift \in Bijection(Accepts(Tail(q)), behind)
    <2>1. Shift \in [Accepts(Tail(q)) -> behind]
      BY <1>3
    <2>2. \A i, j \in Accepts(Tail(q)) : Shift[i] = Shift[j] => i = j
      BY <1>2, <1>3
    <2>3. \A j \in behind : \E i \in Accepts(Tail(q)) : Shift[i] = j
      BY <1>4
    <2> QED BY <2>1, <2>2, <2>3 DEF Bijection, Injection, Surjection, IsInjective
  <1>6. Cardinality(behind) = Cardinality(Accepts(Tail(q)))
    <2>1. IsFiniteSet(Accepts(Tail(q)))
      BY <1>1, AcceptsFinite
    <2>2. ExistsBijection(Accepts(Tail(q)), behind)
      BY <1>5 DEF ExistsBijection
    <2> QED BY <2>1, <2>2, FS_Bijection
  <1>7. 1 \in Accepts(q) <=> Head(q).handle = Listener
    BY <1>1 DEF Accepts
  <1>8. /\ Cardinality(behind) = IF 1 \in Accepts(q) THEN Cardinality(Accepts(q)) - 1
                                 ELSE Cardinality(Accepts(q))
        /\ Cardinality(Accepts(q)) \in Nat
    BY AcceptsFinite, FS_RemoveElement
  <1> HIDE DEF behind
  <1> QED BY <1>6, <1>7, <1>8 DEF One

-----------------------------------------------------------------------------
(* LeftBehindByMerging *)

LEMMA Counting ==
    /\ AcceptsQueued = Cardinality(Accepts(queue))
    /\ LeftBehindByMerging <=>
          Len(backlog) = joined + Accepting + One(Listener \in ready) + Cardinality(Accepts(queue))
    /\ LeftBehindByMerging' <=>
          Len(backlog') = joined' + Accepting' + One(Listener \in ready')
                          + Cardinality(Accepts(queue'))
  BY DEF LeftBehindByMerging, AcceptsQueued, Accepts, One

\* Nothing of this is about descriptors, so that a step that leaves the rest alone
\* leaves the sum alone.
LEMMA SumStays ==
    ASSUME LeftBehindByMerging, backlog' = backlog, joined' = joined, queue' = queue,
           Accepting' = Accepting, Listener \in ready' <=> Listener \in ready
    PROVE  LeftBehindByMerging'
  BY Counting DEF One

LEMMA EdgesStay ==
    ASSUME Edges, queue' = queue, loop' = loop \/ loop'.handle # Listener \/ loop'.todo = <<>>
    PROVE  Edges'
  BY DEF Edges

\* One connection less for one edge less.
LEMMA AcceptCounts ==
    ASSUME LInv, Serving(Listener), backlog # <<>>, backlog' = Tail(backlog), loop' = Done,
           joined' = joined, queue' = queue, Listener \in ready' <=> Listener \in ready
    PROVE  Edges' /\ LeftBehindByMerging'
  <1>1. loop.handle = Listener /\ loop.todo = <<In>>
    BY DEF LInv, Edges, Serving
  <1>2. loop'.handle = Listener /\ loop'.todo = <<>>
    BY <1>1, LoopGoesOn DEF LInv, SInv
  <1>3. Accepting = 1 /\ Accepting' = 0
    BY <1>1, <1>2 DEF Accepting
  <1>4. Len(backlog) \in Nat /\ Len(backlog') = Len(backlog) - 1
    BY NextWaiting DEF LInv, SInv, TypesHold
  <1>5. joined \in Nat /\ Cardinality(Accepts(queue)) \in Nat
    BY AcceptsFinite DEF LInv, SInv, TypesHold
  <1>6. LeftBehindByMerging'
    BY <1>3, <1>4, <1>5, Counting DEF LInv, One
  <1> QED BY <1>2, <1>6, EdgesStay DEF LInv

LEMMA ReportCounts ==
    ASSUME LInv, NEW h \in Descriptors \cup {Listener}, Report(h)
    PROVE  Edges' /\ LeftBehindByMerging'
  <1> DEFINE n == [handle |-> h, source |-> IF h = Listener THEN Nobody ELSE Owner(h),
                   todo |-> IF h = Listener THEN <<In>> ELSE Delivered(Mask(Owner(h)))]
  <1>1. n.handle = h /\ (h = Listener => n.todo = <<In>>) /\ n \in Notification
    <2>1. h # Listener => h \in watched
      BY DEF LInv, SInv, TypesHold, Report, Reported
    <2> QED BY <2>1, OwnerOfWatched, MaskIsEvents DEF LInv, Notification, Todos
  <1>2. /\ queue' = Append(queue, n) /\ h \in ready /\ ready' = ready \ {h}
        /\ UNCHANGED <<backlog, joined, loop>>
    BY DEF Report, Reported
  <1> HIDE DEF n
  <1>3. /\ queue \in Seq(Notification) /\ joined \in Nat /\ Cardinality(Accepts(queue)) \in Nat
        /\ Accepting \in {0, 1} /\ Accepting' = Accepting
    BY <1>2, AcceptsFinite DEF LInv, SInv, TypesHold, Accepting
  <1>4. Cardinality(Accepts(queue')) = Cardinality(Accepts(queue)) + One(h = Listener)
    BY <1>1, <1>2, <1>3, AcceptsAppended
  <1>5. LeftBehindByMerging'
    BY <1>2, <1>3, <1>4, Counting DEF LInv, One
  <1>6. \A i \in DOMAIN queue' : queue'[i] = n \/ (i \in DOMAIN queue /\ queue'[i] = queue[i])
    <2>1. /\ Len(queue) \in Nat /\ DOMAIN queue = 1..Len(queue)
          /\ DOMAIN queue' = 1..Len(queue) + 1
          /\ \A i \in 1..Len(queue) : queue'[i] = queue[i]
          /\ queue'[Len(queue) + 1] = n
      BY <1>1, <1>2, <1>3, AppendProperties
    <2>2. \A i \in 1..Len(queue) + 1 : i \in 1..Len(queue) \/ i = Len(queue) + 1
      BY <2>1
    <2> QED BY <2>1, <2>2
  <1>7. Edges'
    BY <1>1, <1>2, <1>6 DEF LInv, Edges
  <1> QED BY <1>5, <1>7

LEMMA PopCounts ==
    ASSUME LInv, Pop
    PROVE  Edges' /\ LeftBehindByMerging'
  <1> DEFINE n == Head(queue)
  <1>1. /\ queue # <<>> /\ queue' = Tail(queue) /\ loop = Idle
        /\ n.handle = Listener => loop' = n
        /\ loop' = n \/ loop' = Idle
        /\ UNCHANGED <<backlog, joined, ready>>
    BY DEF Pop
  <1>2. /\ n = queue[1] /\ 1 \in DOMAIN queue
        /\ \A i \in DOMAIN Tail(queue) : i + 1 \in DOMAIN queue /\ Tail(queue)[i] = queue[i + 1]
    BY <1>1, NextNotified DEF LInv, SInv, TypesHold
  <1>3. n.handle = Listener => n.todo = <<In>>
    BY <1>2 DEF LInv, Edges
  <1>4. Accepting = 0 /\ Accepting' = One(n.handle = Listener)
    BY <1>1, <1>3, IdleLoop DEF Accepting, One
  <1>5. /\ Cardinality(Accepts(queue)) = Cardinality(Accepts(queue')) + One(n.handle = Listener)
        /\ Cardinality(Accepts(queue')) \in Nat /\ joined \in Nat
    BY <1>1, AcceptsTaken, AcceptsFinite, NextNotified DEF LInv, SInv, TypesHold
  <1> HIDE DEF n
  <1>6. LeftBehindByMerging'
    BY <1>1, <1>4, <1>5, Counting DEF LInv, One
  <1>7. Edges'
    BY <1>1, <1>2, <1>3, IdleLoop DEF LInv, Edges
  <1> QED BY <1>6, <1>7

\* An arrival is an edge of its own or is counted as one that joined another.
LEMMA ArriveCounts ==
    ASSUME LInv, NEW c \in Clients, Arrive(c)
    PROVE  Edges' /\ LeftBehindByMerging'
  <1>1. /\ backlog' = Append(backlog, c) /\ ready' = ready \cup {Listener}
        /\ joined' = IF Listener \in ready THEN joined + 1 ELSE joined
        /\ queue' = queue /\ loop' = loop
    BY DEF Arrive
  <1>2. /\ Len(backlog) \in Nat /\ Len(backlog') = Len(backlog) + 1
        /\ joined \in Nat /\ Cardinality(Accepts(queue)) \in Nat
        /\ Accepting \in {0, 1} /\ Accepting' = Accepting
    BY <1>1, AppendProperties, AcceptsFinite DEF LInv, SInv, TypesHold, Accepting
  <1>3. LeftBehindByMerging'
    BY <1>1, <1>2, Counting DEF LInv, One
  <1> QED BY <1>1, <1>3, EdgesStay DEF LInv

LEMMA StepCounts == LInv /\ [Next]_vars => LInv'
  <1> SUFFICES ASSUME LInv, [Next]_vars PROVE Edges' /\ LeftBehindByMerging'
    BY StepKeeps DEF LInv
  <1>0. SInv /\ Edges /\ LeftBehindByMerging
    BY DEF LInv
  <1>1. ASSUME NEW c \in Clients, Arrive(c) PROVE Edges' /\ LeftBehindByMerging'
    BY <1>1, ArriveCounts
  <1>2. ASSUME NEW c \in Clients, NEW what \in {"data", "fin", "reset"}, PeerDoes(c, what)
        PROVE  Edges' /\ LeftBehindByMerging'
    <2>1. /\ UNCHANGED <<backlog, joined, queue, loop>>
          /\ ready' = ready \cup ({fd[c]} \cap watched)
      BY <1>2 DEF PeerDoes
    <2>2. Listener \in ready' <=> Listener \in ready
      BY <2>1, <1>0, HandlesAssumption DEF SInv, TypesHold
    <2>3. Accepting' = Accepting
      BY <2>1 DEF Accepting
    <2> QED BY <1>0, <2>1, <2>2, <2>3, SumStays, EdgesStay
  <1>3. ASSUME NEW h \in Descriptors \cup {Listener}, Report(h)
        PROVE  Edges' /\ LeftBehindByMerging'
    BY <1>3, ReportCounts
  <1>4. ASSUME NEW d \in Descriptors, Accept(d) PROVE Edges' /\ LeftBehindByMerging'
    <2>1. /\ Serving(Listener) /\ backlog # <<>> /\ backlog' = Tail(backlog) /\ loop' = Done
          /\ joined' = joined /\ queue' = queue
          /\ ready \ Numbers(Replaced(d)) \subseteq ready'
          /\ ready' \subseteq ready \cup {d}
      BY <1>4 DEF Accept
    <2>2. Listener \in ready' <=> Listener \in ready
      BY <2>1, HandlesAssumption DEF Numbers
    <2> QED BY <2>1, <2>2, AcceptCounts
  <1>5. CASE Refuse
    <2>1. /\ Serving(Listener) /\ backlog # <<>> /\ backlog' = Tail(backlog) /\ loop' = Done
          /\ joined' = joined /\ queue' = queue /\ ready' = ready
      BY <1>5 DEF Refuse
    <2> QED BY <2>1, AcceptCounts
  <1>6. ASSUME NEW c \in Clients, InputEvent(c) \/ DisconnectionEvent(c)
        PROVE  Edges' /\ LeftBehindByMerging'
    <2>1. loop.handle \in Descriptors /\ Serving(loop.handle) /\ loop' = Done
      BY <1>0, <1>6, InputKeeps, DisconnectionKeeps
    <2>2. loop.handle # Listener /\ loop'.handle # Listener
      BY <1>0, <2>1, LoopGoesOn, HandlesAssumption DEF SInv
    <2>3. UNCHANGED <<backlog, joined, queue>> /\ ready \ {loop.handle} \subseteq ready'
          /\ ready' \subseteq ready
      BY <1>6 DEF InputEvent, DisconnectionEvent, Disconnect
    <2>4. Accepting' = Accepting /\ (Listener \in ready' <=> Listener \in ready)
      BY <2>2, <2>3 DEF Accepting
    <2> QED BY <1>0, <2>2, <2>3, <2>4, SumStays, EdgesStay
  <1>7. CASE CallDestroyed
    <2>1. /\ UNCHANGED <<backlog, joined, queue, ready>> /\ loop.handle \in Descriptors
          /\ loop' = [loop EXCEPT !.todo = <<>>]
      BY <1>7 DEF CallDestroyed, kernel
    <2>2. loop.handle # Listener /\ loop'.handle # Listener
      BY <1>0, <2>1, HandlesAssumption DEF SInv, LoopTypes
    <2>3. Accepting' = Accepting
      BY <2>2 DEF Accepting
    <2> QED BY <1>0, <2>1, <2>2, <2>3, SumStays, EdgesStay
  <1>8. CASE Pop
    BY <1>8, PopCounts
  <1>9. CASE Finish
    <2>1. UNCHANGED <<backlog, joined, queue, ready>> /\ loop.todo = <<>> /\ loop' = Idle
      BY <1>9 DEF Finish, kernel
    <2>2. loop'.todo = <<>> /\ Accepting' = Accepting
      BY <2>1, IdleLoop DEF Accepting
    <2> QED BY <1>0, <2>1, <2>2, SumStays, EdgesStay
  <1>10. CASE AcceptFails \/ Cleanup \/ UNCHANGED vars
    <2>1. UNCHANGED <<backlog, joined, queue, ready, loop>>
      BY <1>10 DEF AcceptFails, Cleanup, vars, kernel
    <2>2. Accepting' = Accepting
      BY <2>1 DEF Accepting
    <2> QED BY <1>0, <2>1, <2>2, SumStays, EdgesStay
  <1> QED
    BY <1>1, <1>2, <1>3, <1>4, <1>5, <1>6, <1>7, <1>8, <1>9, <1>10 DEF Next, LoopStep

\* The server accepts one connection per edge of the listening socket, whatever is
\* waiting: when every edge has been handled, exactly those connections are left in
\* the backlog whose edge was that of an earlier one, and nobody comes back for them.
THEOREM MergedArrivalsStay == Spec => []LeftBehindByMerging
  <1>1. Init => LInv
    <2> SUFFICES ASSUME Init PROVE Edges /\ LeftBehindByMerging
      BY Initially DEF LInv
    <2>1. /\ backlog = <<>> /\ ready = {} /\ queue = <<>> /\ joined = 0 /\ loop = Idle
      BY DEF Init
    <2>2. Edges /\ Accepting = 0
      BY <2>1, IdleLoop DEF Edges, Accepting
    <2>3. Accepts(queue) = {}
      BY <2>1 DEF Accepts
    <2>4. Len(backlog) = 0 /\ joined = 0 /\ One(Listener \in ready) = 0
      BY <2>1 DEF One
    <2>5. Cardinality(Accepts(queue)) = 0
      BY <2>3, FS_EmptySet
    <2> QED BY <2>2, <2>4, <2>5, Counting
  <1>2. LInv => LeftBehindByMerging
    BY DEF LInv
  <1> QED BY <1>1, <1>2, StepCounts, PTL DEF Spec

-----------------------------------------------------------------------------
(* EndIsItsOwn *)

LEMMA HonestStays ==
    ASSUME NEW n, NEW earlier, NEW later, earlier \subseteq later, Honestly(n, earlier)
    PROVE  Honestly(n, later)
  BY DEF Honestly

\* An end is never taken back, nor is an excuse.
LEMMA HistoryGrows ==
    ASSUME SInv, [Next]_vars
    PROVE  TheEnded \subseteq TheEnded' /\ excused \subseteq excused'
  <1>1. ASSUME NEW c \in Clients, Arrive(c)
        PROVE  TheEnded \subseteq TheEnded' /\ excused \subseteq excused'
    BY <1>1 DEF SInv, TypesHold, Arrive, TheEnded, Ended
  <1>2. ASSUME NEW c \in Clients, NEW what \in {"data", "fin", "reset"}, PeerDoes(c, what)
        PROVE  TheEnded \subseteq TheEnded' /\ excused \subseteq excused'
    BY <1>2 DEF SInv, TypesHold, PeerDoes, TheEnded, Ended
  <1>3. ASSUME NEW c \in Clients, InputEvent(c)
        PROVE  TheEnded \subseteq TheEnded' /\ excused \subseteq excused'
    BY <1>3 DEF SInv, TypesHold, InputEvent, TheEnded, Ended
  <1>4. CASE Pop
    BY <1>4 DEF Pop, TheEnded, Ended
  <1>5. ASSUME \/ \E h \in Descriptors \cup {Listener} : Report(h)
               \/ \E d \in Descriptors : Accept(d)
               \/ \E c \in Clients : DisconnectionEvent(c)
               \/ Refuse \/ AcceptFails \/ CallDestroyed \/ Finish \/ Cleanup \/ UNCHANGED vars
        PROVE  TheEnded \subseteq TheEnded' /\ excused \subseteq excused'
    <2>1. peer' = peer /\ excused' = excused
      BY <1>5 DEF Report, Accept, DisconnectionEvent, Disconnect, Refuse, AcceptFails, CallDestroyed,
                  Finish, Cleanup, vars, kernel
    <2> QED BY <2>1 DEF TheEnded, Ended
  <1> QED
    BY <1>1, <1>2, <1>3, <1>4, <1>5 DEF Next, LoopStep

LEMMA QueueStaysHonest ==
    ASSUME Honest, TheEnded \subseteq TheEnded', queue' = queue
    PROVE  \A i \in DOMAIN queue' : Honestly(queue'[i], TheEnded')
  BY HonestStays DEF Honest

LEMMA LoopStaysHonest ==
    ASSUME Honest, TheEnded \subseteq TheEnded',
           \/ loop' = loop
           \/ loop' = Idle
           \/ /\ loop.handle \in Descriptors /\ loop.todo # <<>> /\ loop'.handle = loop.handle
              /\ loop'.source = loop.source /\ loop'.todo \in {<<>>, Tail(loop.todo)}
           \/ loop'.handle \notin Descriptors
    PROVE  Honestly(loop', TheEnded')
  <1>1. CASE loop' = loop
    BY <1>1, HonestStays DEF Honest
  <1>2. CASE loop' = Idle
    BY <1>2, IdleLoop, HandlesAssumption DEF Honestly
  <1>3. CASE /\ loop.handle \in Descriptors /\ loop.todo # <<>> /\ loop'.handle = loop.handle
             /\ loop'.source = loop.source /\ loop'.todo \in {<<>>, Tail(loop.todo)}
    <2>1. /\ loop.source \in Clients /\ loop.todo \in Seq(Event)
          /\ \A i \in DOMAIN loop.todo : loop.todo[i] = Shutdown => loop.source \in TheEnded
      BY <1>3 DEF Honest, Honestly
    <2>2. /\ Tail(loop.todo) \in Seq(Event) /\ <<>> \in Seq(Event) /\ DOMAIN <<>> = {}
          /\ \A i \in DOMAIN Tail(loop.todo) :
                i + 1 \in DOMAIN loop.todo /\ Tail(loop.todo)[i] = loop.todo[i + 1]
      <3>1. /\ Tail(loop.todo) \in Seq(Event) /\ Len(Tail(loop.todo)) = Len(loop.todo) - 1
            /\ \A i \in 1..Len(Tail(loop.todo)) : Tail(loop.todo)[i] = loop.todo[i + 1]
        BY <1>3, <2>1, HeadTailProperties
      <3>2. Len(loop.todo) \in Nat /\ DOMAIN loop.todo = 1..Len(loop.todo)
        BY <2>1
      <3> QED BY <3>1, <3>2
    <2>3. /\ loop'.todo \in Seq(Event)
          /\ \A i \in DOMAIN loop'.todo : loop'.todo[i] = Shutdown => loop.source \in TheEnded
      BY <1>3, <2>1, <2>2
    <2> QED BY <1>3, <2>1, <2>3 DEF Honestly
  <1>4. CASE loop'.handle \notin Descriptors
    BY <1>4 DEF Honestly
  <1> QED BY <1>1, <1>2, <1>3, <1>4

\* What epoll reports and the demultiplexer delivers says SHUTDOWN only of an end.
LEMMA ReportIsHonest ==
    ASSUME DeliveredFromMask, SInv, NEW h \in Descriptors \cup {Listener}, Report(h), Honest,
           TheEnded \subseteq TheEnded'
    PROVE  Honest'
  <1> DEFINE n == [handle |-> h, source |-> IF h = Listener THEN Nobody ELSE Owner(h),
                   todo |-> IF h = Listener THEN <<In>> ELSE Delivered(Mask(Owner(h)))]
             mask == Mask(Owner(h))
  <1>1. h # Listener => h \in watched
    BY DEF SInv, TypesHold, Report, Reported
  <1>2. n \in Notification
    BY <1>1, OwnerOfWatched, MaskIsEvents DEF Notification, Todos
  <1>3. queue' = Append(queue, n) /\ loop' = loop /\ queue \in Seq(Notification)
    BY DEF Report, SInv, TypesHold
  <1>4. Honestly(n, TheEnded)
    <2> SUFFICES ASSUME h # Listener
                 PROVE  /\ Owner(h) \in Clients /\ Delivered(mask) \in Seq(Event)
                        /\ \A i \in DOMAIN Delivered(mask) :
                              Delivered(mask)[i] = Shutdown => Owner(h) \in TheEnded
      BY HandlesAssumption DEF Honestly
    <2>1. Owner(h) \in Clients /\ mask \in SUBSET Event
      BY <1>1, OwnerOfWatched, MaskIsEvents
    <2>2. Shutdown \in mask => Owner(h) \in TheEnded
      BY <2>1 DEF Mask, TheEnded, Ended, In, Err, Hup, Shutdown
    <2> HIDE DEF mask
    <2>3. Delivered(mask) \in Seq(mask)
      BY <2>1 DEF DeliveredFromMask
    <2>4. /\ Delivered(mask) \in Seq(Event)
          /\ \A i \in DOMAIN Delivered(mask) : Delivered(mask)[i] \in mask
      BY <2>1, <2>3
    <2> QED BY <2>1, <2>2, <2>4
  <1> HIDE DEF n
  <1>5. \A i \in DOMAIN queue' : queue'[i] = n \/ (i \in DOMAIN queue /\ queue'[i] = queue[i])
    <2>1. /\ Len(queue) \in Nat /\ DOMAIN queue = 1..Len(queue)
          /\ DOMAIN queue' = 1..Len(queue) + 1
          /\ \A i \in 1..Len(queue) : queue'[i] = queue[i]
          /\ queue'[Len(queue) + 1] = n
      BY <1>2, <1>3, AppendProperties
    <2>2. \A i \in 1..Len(queue) + 1 : i \in 1..Len(queue) \/ i = Len(queue) + 1
      BY <2>1
    <2> QED BY <2>1, <2>2
  <1>6. \A i \in DOMAIN queue' : Honestly(queue'[i], TheEnded')
    BY <1>4, <1>5, HonestStays DEF Honest
  <1>7. Honestly(loop', TheEnded')
    BY <1>3, LoopStaysHonest
  <1> QED BY <1>6, <1>7 DEF Honest

\* A notification is served to its source, or its receiver becomes excused.
LEMMA PopIsStraight ==
    ASSUME SInv, Pop, Honest, TheEnded \subseteq TheEnded'
    PROVE  Honest' /\ Straight'
  <1> DEFINE n == Head(queue)
             served == n.handle = Listener \/ context[n.handle] = "live"
  <1>1. /\ queue # <<>> /\ queue' = Tail(queue) /\ handler' = handler
        /\ loop' = IF served THEN n ELSE Idle
        /\ excused' = IF served /\ n.handle # Listener /\ handler[n.handle] # n.source
                      THEN excused \cup {handler[n.handle]} ELSE excused
    BY DEF Pop, reactor
  <1>2. /\ n = queue[1] /\ 1 \in DOMAIN queue
        /\ \A i \in DOMAIN Tail(queue) : i + 1 \in DOMAIN queue /\ Tail(queue)[i] = queue[i + 1]
    BY <1>1, NextNotified DEF SInv, TypesHold
  <1>3. \A i \in DOMAIN queue' : Honestly(queue'[i], TheEnded')
    BY <1>1, <1>2, HonestStays DEF Honest
  <1>4. Honestly(n, TheEnded')
    BY <1>2, HonestStays DEF Honest
  <1> HIDE DEF n
  <1>5. Honestly(loop', TheEnded')
    BY <1>1, <1>4, IdleLoop, HandlesAssumption DEF Honestly
  <1>6. Straight'
    BY <1>1, IdleLoop, HandlesAssumption DEF Straight
  <1> QED BY <1>3, <1>5, <1>6 DEF Honest

LEMMA HandlersStraight ==
    ASSUME Straight, excused \subseteq excused',
           \/ loop'.handle \notin Descriptors
           \/ /\ loop'.handle = loop.handle /\ loop'.source = loop.source
              /\ loop.handle \in Descriptors => handler'[loop.handle] = handler[loop.handle]
    PROVE  Straight'
  BY DEF Straight

LEMMA StepIsStraight ==
    ASSUME DeliveredFromMask, SInv, Honest, Straight, [Next]_vars
    PROVE  Honest' /\ Straight'
  <1>0. TheEnded \subseteq TheEnded' /\ excused \subseteq excused'
    BY HistoryGrows
  <1>1. ASSUME NEW h \in Descriptors \cup {Listener}, Report(h) PROVE Honest' /\ Straight'
    <2>1. UNCHANGED <<loop, handler>>
      BY <1>1 DEF Report, reactor
    <2> QED BY <1>0, <1>1, <2>1, ReportIsHonest, HandlersStraight
  <1>2. CASE Pop
    BY <1>0, <1>2, PopIsStraight
  <1>3. CASE (\E d \in Descriptors : Accept(d)) \/ Refuse
    <2>1. Serving(Listener) /\ loop' = Done /\ queue' = queue
      BY <1>3 DEF Accept, Refuse
    <2>2. loop'.handle = Listener
      BY <2>1, LoopGoesOn DEF SInv
    <2>3. loop'.handle \notin Descriptors
      BY <2>2, HandlesAssumption
    <2>4. Honest'
      BY <1>0, <2>1, <2>3, QueueStaysHonest, LoopStaysHonest DEF Honest
    <2> QED BY <1>0, <2>3, <2>4, HandlersStraight
  <1>4. ASSUME NEW c \in Clients, InputEvent(c) \/ DisconnectionEvent(c)
        PROVE  Honest' /\ Straight'
    <2>1. loop.handle \in Descriptors /\ Serving(loop.handle) /\ loop' = Done
      BY <1>4, InputKeeps, DisconnectionKeeps
    <2>2. /\ loop'.handle = loop.handle /\ loop'.source = loop.source
          /\ loop'.todo = Tail(loop.todo) /\ loop.todo # <<>>
      BY <2>1, LoopGoesOn DEF SInv, Serving
    <2>3. queue' = queue
      BY <1>4 DEF InputEvent, DisconnectionEvent, Disconnect
    <2>4. handler'[loop.handle] = handler[loop.handle]
      <3>1. CASE InputEvent(c)
        BY <3>1 DEF InputEvent, reactor
      <3>2. CASE DisconnectionEvent(c)
        BY <2>1, <3>2, Cleaned DEF SInv, DisconnectionEvent, Disconnect, HandlersLeft
      <3> QED BY <1>4, <3>1, <3>2
    <2>5. Honest'
      BY <1>0, <2>1, <2>2, <2>3, QueueStaysHonest, LoopStaysHonest DEF Honest
    <2> QED BY <1>0, <2>2, <2>4, <2>5, HandlersStraight
  <1>5. CASE CallDestroyed
    <2>1. /\ queue' = queue /\ handler' = handler /\ loop.handle \in Descriptors
          /\ loop.todo # <<>> /\ loop' = [loop EXCEPT !.todo = <<>>]
      BY <1>5 DEF CallDestroyed, Serving, kernel
    <2>2. loop'.handle = loop.handle /\ loop'.source = loop.source /\ loop'.todo = <<>>
      BY <2>1 DEF SInv, LoopTypes
    <2>3. Honest'
      BY <1>0, <2>1, <2>2, QueueStaysHonest, LoopStaysHonest DEF Honest
    <2> QED BY <1>0, <2>1, <2>2, <2>3, HandlersStraight
  <1>6. CASE Finish
    <2>1. queue' = queue /\ loop' = Idle /\ loop'.handle \notin Descriptors
      BY <1>6, IdleLoop, HandlesAssumption DEF Finish, kernel
    <2>2. Honest'
      BY <1>0, <2>1, QueueStaysHonest, LoopStaysHonest DEF Honest
    <2> QED BY <1>0, <2>1, <2>2, HandlersStraight
  <1>7. CASE Cleanup
    <2>1. queue' = queue /\ loop' = loop /\ loop.handle \notin Descriptors
      BY <1>7, IdleLoop, HandlesAssumption DEF Cleanup, kernel
    <2>2. Honest'
      BY <1>0, <2>1, QueueStaysHonest, LoopStaysHonest DEF Honest
    <2> QED BY <1>0, <2>1, <2>2, HandlersStraight
  <1>8. ASSUME \/ \E c \in Clients : Arrive(c)
               \/ \E c \in Clients, what \in {"data", "fin", "reset"} : PeerDoes(c, what)
               \/ AcceptFails \/ UNCHANGED vars
        PROVE  Honest' /\ Straight'
    <2>1. UNCHANGED <<queue, loop, handler>>
      BY <1>8 DEF Arrive, PeerDoes, AcceptFails, vars, kernel, reactor
    <2>2. Honest'
      BY <1>0, <2>1, QueueStaysHonest, LoopStaysHonest DEF Honest
    <2> QED BY <1>0, <2>1, <2>2, HandlersStraight
  <1> QED
    BY <1>1, <1>2, <1>3, <1>4, <1>5, <1>6, <1>7, <1>8 DEF Next, LoopStep

-----------------------------------------------------------------------------
(* What the user is told *)

\* Of a client to whom nothing is told, whose endpoint at most goes away.
LEMMA ToldStays ==
    ASSUME NEW c \in Clients, Told(c), told'[c] = told[c],
           endpoint'[c] \in {endpoint[c], "destroyed"},
           TheEnded \subseteq TheEnded', excused \subseteq excused'
    PROVE  Told(c)'
  BY DEF Told, TheEnded

LEMMA ConnectionIsTold ==
    ASSUME NEW c \in Clients, endpoint[c] = "none", Told(c), endpoint'[c] = "alive",
           told'[c] = Append(told[c], "connected")
    PROVE  Told(c)'
  <1>1. told[c] = <<>>
    BY DEF Told
  <1>2. told'[c] = <<"connected">>
    BY <1>1
  <1> QED BY <1>2 DEF Told

LEMMA InputIsTold ==
    ASSUME TypesHold, NEW c \in Clients, endpoint[c] = "alive", Told(c), endpoint'[c] = "alive",
           told'[c] = Append(told[c], "input")
    PROVE  Told(c)'
  <1> DEFINE n == Len(told[c])
  <1>1. /\ told[c] \in Seq({"connected", "input", "disconnected"}) /\ told[c] # <<>>
        /\ n \in Nat /\ n # 0 /\ DOMAIN told[c] = 1..n
    BY DEF TypesHold, Told
  <1>2. /\ DOMAIN told'[c] = 1..n + 1 /\ told'[c] # <<>>
        /\ \A i \in 1..n : told'[c][i] = told[c][i]
        /\ told'[c][n + 1] = "input"
    BY <1>1, AppendProperties
  <1>3. \A i \in 1..n : (told[c][i] = "connected" <=> i = 1) /\ told[c][i] # "disconnected"
    BY <1>1 DEF Told
  <1> HIDE DEF n
  <1>4. \A i \in 1..n + 1 : (i \in 1..n \/ i = n + 1) /\ n + 1 # 1
    BY <1>1
  <1>5. \A i \in 1..n + 1 :
           (told'[c][i] = "connected" <=> i = 1) /\ told'[c][i] # "disconnected"
    BY <1>2, <1>3, <1>4
  <1> QED BY <1>2, <1>5 DEF Told

\* The end, told once or twice.
LEMMA EndTold ==
    ASSUME TypesHold, NEW c \in Clients, endpoint[c] = "alive", Told(c),
           endpoint'[c] = "destroyed", (Ended(c) \/ c \in excused)',
           NEW again \in {<<>>, <<"disconnected">>},
           told'[c] = told[c] \o <<"disconnected">> \o again
    PROVE  Told(c)'
  <1> DEFINE n == Len(told[c])
  <1>1. /\ told[c] \in Seq({"connected", "input", "disconnected"}) /\ told[c] # <<>>
        /\ n \in Nat /\ n # 0 /\ DOMAIN told[c] = 1..n
    BY DEF TypesHold, Told
  <1>2. PICK m \in {n + 1, n + 2} :
           /\ Len(told'[c]) = m /\ DOMAIN told'[c] = 1..m
           /\ \A i \in 1..n : told'[c][i] = told[c][i]
           /\ \A i \in 1..m : i \in 1..n \/ told'[c][i] = "disconnected"
    <2>1. CASE again = <<>>
      <3>1. /\ Len(told'[c]) = n + 1 /\ DOMAIN told'[c] = 1..n + 1
            /\ \A i \in 1..n : told'[c][i] = told[c][i]
            /\ told'[c][n + 1] = "disconnected"
        BY <1>1, <2>1
      <3>2. \A i \in 1..n + 1 : i \in 1..n \/ i = n + 1
        BY <1>1
      <3> QED BY <3>1, <3>2
    <2>2. CASE again = <<"disconnected">>
      <3>1. /\ Len(told'[c]) = n + 2 /\ DOMAIN told'[c] = 1..n + 2
            /\ \A i \in 1..n : told'[c][i] = told[c][i]
            /\ told'[c][n + 1] = "disconnected" /\ told'[c][n + 2] = "disconnected"
        BY <1>1, <2>2
      <3>2. \A i \in 1..n + 2 : i \in 1..n \/ i = n + 1 \/ i = n + 2
        BY <1>1
      <3> QED BY <3>1, <3>2
    <2> QED BY <2>1, <2>2
  <1>3. \A i \in 1..n : (told[c][i] = "connected" <=> i = 1) /\ told[c][i] # "disconnected"
    BY <1>1 DEF Told
  <1> HIDE DEF n
  <1>4. /\ m \in 1..m /\ m \notin 1..n
        /\ \A i \in 1..m : i \in 1..n \/ (i # 1 /\ i >= m - 1)
    BY <1>1, <1>2
  <1>5. \A i \in 1..m :
           /\ told'[c][i] = "connected" <=> i = 1
           /\ told'[c][i] = "disconnected" => i >= m - 1 /\ told'[c][m] = "disconnected"
    BY <1>2, <1>3, <1>4
  <1> QED BY <1>2, <1>5 DEF Told

LEMMA StepTells ==
    ASSUME SInv, Honest, Straight, \A c \in Clients : Told(c), [Next]_vars, NEW x \in Clients
    PROVE  Told(x)'
  <1>0. /\ TheEnded \subseteq TheEnded' /\ excused \subseteq excused'
        /\ Told(x) /\ TypesHold
    BY HistoryGrows DEF SInv
  <1>1. ASSUME NEW d \in Descriptors, Accept(d) PROVE Told(x)'
    <2> DEFINE c == Head(backlog)
               gone == Replaced(d)
    <2>1. /\ endpoint' = [Destroyed(gone) EXCEPT ![c] = "alive"]
          /\ told' = [told EXCEPT ![c] = Append(@, "connected")]
          /\ backlog # <<>>
      BY <1>1 DEF Accept
    <2>2. c \in Clients /\ endpoint[c] = "none"
      BY <2>1, NextWaiting
    <2> HIDE DEF c, gone
    <2>3. CASE x = c
      <3>1. endpoint'[x] = "alive" /\ told'[x] = Append(told[x], "connected")
        BY <1>0, <2>1, <2>2, <2>3, GoneTypes DEF TypesHold
      <3> QED BY <1>0, <2>2, <2>3, <3>1, ConnectionIsTold
    <2>4. CASE x # c
      <3>1. endpoint'[x] \in {endpoint[x], "destroyed"} /\ told'[x] = told[x]
        BY <1>0, <2>1, <2>4 DEF TypesHold, Destroyed
      <3> QED BY <1>0, <3>1, ToldStays
    <2> QED BY <2>3, <2>4
  <1>2. CASE Refuse
    <2>1. told' = told /\ endpoint'[x] \in {endpoint[x], "destroyed"}
      BY <1>0, <1>2 DEF Refuse, TypesHold
    <2> QED BY <1>0, <2>1, ToldStays
  <1>3. ASSUME NEW c \in Clients, InputEvent(c) PROVE Told(x)'
    <2>1. /\ endpoint[c] = "alive" /\ endpoint' = endpoint
          /\ told' = [told EXCEPT ![c] = Append(@, "input")]
      BY <1>3 DEF InputEvent, Handling, server
    <2>2. CASE x = c
      <3>1. told'[x] = Append(told[x], "input")
        BY <1>0, <2>1, <2>2 DEF TypesHold
      <3> QED BY <1>0, <2>1, <2>2, <3>1, InputIsTold
    <2>3. CASE x # c
      <3>1. told'[x] = told[x]
        BY <1>0, <2>1, <2>3 DEF TypesHold
      <3> QED BY <1>0, <2>1, <3>1, ToldStays
    <2> QED BY <2>2, <2>3
  <1>4. ASSUME NEW c \in Clients, DisconnectionEvent(c) PROVE Told(x)'
    <2>1. /\ loop.handle \in Descriptors /\ loop.todo # <<>> /\ Head(loop.todo) = Shutdown
          /\ handler[loop.handle] = c /\ endpoint[c] = "alive" /\ endpoint' = Destroyed({c})
      BY <1>4 DEF DisconnectionEvent, Handling, Disconnect, Serving
    <2>2. PICK again \in {<<>>, <<"disconnected">>} :
             told' = [told EXCEPT ![c] = @ \o <<"disconnected">> \o again]
      BY <1>4 DEF DisconnectionEvent
    <2>3. CASE x = c
      <3>1. /\ loop.todo \in Seq(Event)
            /\ \A i \in DOMAIN loop.todo : loop.todo[i] = Shutdown => loop.source \in TheEnded
        BY <2>1 DEF Honest, Honestly
      <3>2. 1 \in DOMAIN loop.todo /\ loop.todo[1] = Shutdown
        BY <2>1, <3>1
      <3>3. c \in TheEnded \cup excused
        BY <2>1, <3>1, <3>2 DEF Straight
      <3>4. c \in TheEnded' \cup excused'
        BY <1>0, <3>3
      <3>5. (Ended(c) \/ c \in excused)'
        BY <3>4 DEF TheEnded
      <3>6. endpoint'[x] = "destroyed" /\ told'[x] = told[x] \o <<"disconnected">> \o again
        BY <1>0, <2>1, <2>2, <2>3 DEF TypesHold, Destroyed
      <3> QED BY <1>0, <2>1, <2>3, <3>5, <3>6, EndTold
    <2>4. CASE x # c
      <3>1. endpoint'[x] = endpoint[x] /\ told'[x] = told[x]
        BY <1>0, <2>1, <2>2, <2>4 DEF TypesHold, Destroyed
      <3> QED BY <1>0, <3>1, ToldStays
    <2> QED BY <2>3, <2>4
  <1>5. ASSUME \/ \E c \in Clients : Arrive(c)
               \/ \E c \in Clients, what \in {"data", "fin", "reset"} : PeerDoes(c, what)
               \/ \E h \in Descriptors \cup {Listener} : Report(h)
               \/ AcceptFails \/ CallDestroyed \/ Pop \/ Finish \/ Cleanup \/ UNCHANGED vars
        PROVE  Told(x)'
    <2>1. told' = told /\ endpoint' = endpoint
      BY <1>5 DEF Arrive, PeerDoes, Report, AcceptFails, CallDestroyed, Pop, Finish, Cleanup, vars,
                  server
    <2> QED BY <1>0, <2>1, ToldStays
  <1> QED
    BY <1>1, <1>2, <1>3, <1>4, <1>5 DEF Next, LoopStep

\* The user is told of a client in order, of its end at most twice and at last, and
\* only of an end that is the client's own, or of one that was handed the
\* notification of another client whose number it had got.
THEOREM EndStaysItsOwn ==
    ASSUME DeliveredFromMask
    PROVE  Spec => []EndIsItsOwn
  <1>1. Init => TInv
    <2> SUFFICES ASSUME Init PROVE Honest /\ Straight /\ \A c \in Clients : Told(c)
      BY Initially DEF TInv
    <2>1. /\ queue = <<>> /\ loop = Idle
          /\ \A c \in Clients : endpoint[c] = "none" /\ told[c] = <<>>
      BY DEF Init
    <2>2. Honest /\ Straight
      BY <2>1, IdleLoop, HandlesAssumption DEF Honest, Honestly, Straight
    <2>3. \A c \in Clients : Told(c)
      BY <2>1 DEF Told
    <2> QED BY <2>2, <2>3
  <1>2. TInv /\ [Next]_vars => TInv'
    BY StepKeeps, StepIsStraight, StepTells DEF TInv
  <1>3. TInv => EndIsItsOwn
    <2> SUFFICES ASSUME TInv, NEW c \in Clients
                 PROVE  /\ \A i \in DOMAIN told[c] :
                              /\ told[c][i] = "connected" <=> i = 1
                              /\ told[c][i] = "disconnected" =>
                                    /\ i >= Len(told[c]) - 1
                                    /\ told[c][Len(told[c])] = "disconnected"
                        /\ "disconnected" \in Range(told[c]) =>
                              /\ endpoint[c] = "destroyed"
                              /\ peer[c] \cap {"fin", "reset"} # {} \/ c \in excused
      BY DEF EndIsItsOwn
    <2> QED BY DEF TInv, Told, Ended, Range
  <1> QED BY <1>1, <1>2, <1>3, PTL DEF Spec

=============================================================================
