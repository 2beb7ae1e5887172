---------------------------- MODULE ReactorProofs ----------------------------
(***************************************************************************)
(* Proofs about Reactor, for any sets of handles and threads and any       *)
(* bounds.  The first part has the inductive invariant IInv: the type of   *)
(* the state, what the locals of eventProcessingThread hold at each of its *)
(* steps, and HandlerPinned itself.                                        *)
(*                                                                         *)
(* The second part proves that Reactor implements HandlerService when      *)
(* clients make one call about a handle at a time (Disciplined).           *)
(*                                                                         *)
(* The point is that a dispatch begins only on a granted handle.  What has *)
(* to be known for that is when a handler's entry and a context can be in  *)
(* their tables together although the client holds no subscription: never  *)
(* (Unserved), unless a window has hit the handle.  A subscribe under way  *)
(* counts as a grant, so SubscribeKeeps says of each of its steps what has *)
(* to be true for the moment in which it gives up; AboutToDrop says the    *)
(* same of unsubscribe's last step, and MarkJustified carries Unserved     *)
(* over the gap between the event loop's lookup and its mark.              *)
(*                                                                         *)
(* From the same invariant: nothing is lost and nothing left behind but in *)
(* the known windows.  InOrder says of a handle what its context, its      *)
(* interest in epoll and its handler are at each step of the one call that *)
(* may be about it, and RemovedExcused that a cleanup takes a handler away *)
(* from no other handle than those that a window has hit.                  *)
(*                                                                         *)
(* The last part is about the table that the subscribers are kept in       *)
(* (TableCalls): for any keys and values the table over a sorted vector    *)
(* holds and answers what the one over an unordered_map does (Same).       *)
(***************************************************************************)
EXTENDS Reactor, TableCalls, NaturalsInduction, WellFoundedInduction, SequenceTheorems,
        FiniteSetTheorems, TLAPS

\* What the event loop's locals hold where it uses them: an event is left to
\* deliver, and the copy it may write back is a context.
LoopLocals ==
    /\ loop.step \in {"lookup", "mark", "handling"} => loop.left # 0
    /\ loop.step \in {"mark", "expire", "handling", "invalid", "finish"} => loop.copy \in Context

IInv == TypeOK /\ LoopLocals /\ HandlerPinned

-----------------------------------------------------------------------------
(* Facts about the operators the actions are built from. *)

\* removeHandler never erases an entry in progress, and adds none.
LEMMA RemovedKeepsBusy ==
    ASSUME NEW entry \in {"absent", "idle", "busy"}
    PROVE  /\ Removed(entry) \in {"absent", "busy"}
           /\ Removed(entry) = "busy" <=> entry = "busy"
  BY DEF Removed

\* Assigning a handler over an entry never changes whether it is in progress.
LEMMA AssignedKeepsBusy ==
    ASSUME NEW entry \in {"absent", "idle", "busy"}
    PROVE  /\ Assigned(entry) \in {"idle", "busy"}
           /\ Assigned(entry) = "busy" <=> entry = "busy"
  BY DEF Assigned

\* A call stays well formed when it moves to another step, changes what it has
\* left to do, or returns.
LEMMA CallTyping ==
    ASSUME call \in [Callers -> Calls], NEW p \in Callers,
           NEW s \in CallSteps, NEW T \in SUBSET Ids
    PROVE  /\ Goto(p, s) => call' \in [Callers -> Calls]
           /\ Return(p) => call' \in [Callers -> Calls]
           /\ [call EXCEPT ![p].step = s, ![p].todo = T] \in [Callers -> Calls]
           /\ [call EXCEPT ![p].todo = T] \in [Callers -> Calls]
           /\ [call EXCEPT ![p].step = s, ![p].found = TRUE] \in [Callers -> Calls]
           /\ \A kind \in {"subscribe", "unsubscribe", "cleanupExpired"}, h \in Ids :
                [call EXCEPT ![p] = [NoCall EXCEPT !.step = "cleanup", !.op = kind, !.handle = h]]
                    \in [Callers -> Calls]
           /\ call[p].handle \in Ids
           /\ call[p].todo \in SUBSET Ids
  <1>1. call[p] \in Calls
    OBVIOUS
  <1>2. [call[p] EXCEPT !.step = s] \in Calls
    BY <1>1 DEF Calls
  <1>3. NoCall \in Calls
    BY DEF NoCall, Calls, CallSteps, Ids
  <1>4. [call[p] EXCEPT !.step = s, !.todo = T] \in Calls
    BY <1>1 DEF Calls
  <1>5. [call[p] EXCEPT !.todo = T] \in Calls
    BY <1>1 DEF Calls
  <1>6. [call[p] EXCEPT !.step = s, !.found = TRUE] \in Calls
    BY <1>1 DEF Calls
  <1>7. ASSUME NEW kind \in {"subscribe", "unsubscribe", "cleanupExpired"}, NEW h \in Ids
        PROVE  [NoCall EXCEPT !.step = "cleanup", !.op = kind, !.handle = h] \in Calls
    BY DEF NoCall, Calls, CallSteps
  <1>8. call[p].handle \in Ids /\ call[p].todo \in SUBSET Ids
    BY <1>1 DEF Calls
  <1>q. QED
    BY <1>2, <1>3, <1>4, <1>5, <1>6, <1>7, <1>8 DEF Goto, Return

-----------------------------------------------------------------------------
(* The invariant. *)

\* The reactor starts with empty tables and nothing marked.
LEMMA InitInv == Init => IInv
  <1> SUFFICES ASSUME Init PROVE IInv
    OBVIOUS
  <1>1. TypeOK
    <2>1. NoCall \in Calls
      BY DEF NoCall, Calls, CallSteps, Ids
    <2>2. NoEvent \in Events
      BY BoundAssumption DEF NoEvent, Events, LoopSteps, Ids
    <2> QED
      BY <2>1, <2>2, BoundAssumption DEF Init, TypeOK
  <1>2. LoopLocals
    BY DEF Init, NoEvent, LoopLocals
  <1>3. HandlerPinned
    BY DEF Init, NoEvent, HandlerPinned, Dispatching
  <1> QED
    BY <1>1, <1>2, <1>3 DEF IInv

\* Steps of cleanupExpired.
LEMMA CleanupInv ==
    ASSUME IInv, NEW p \in Callers, CleanupStep(p)
    PROVE  IInv'
  <1> USE DEF IInv, TypeOK
  <1>0. \A s \in CallSteps, T \in SUBSET Ids :
          /\ [call EXCEPT ![p].step = s, ![p].todo = T] \in [Callers -> Calls]
          /\ [call EXCEPT ![p].todo = T] \in [Callers -> Calls]
    BY CallTyping
  <1>1. \A s \in CallSteps : Goto(p, s) => call' \in [Callers -> Calls]
    BY CallTyping
  <1>2. Return(p) => call' \in [Callers -> Calls]
    BY CallTyping DEF CallSteps
  <1>3. call[p].todo \in SUBSET Ids
    BY CallTyping DEF CallSteps
  <1>4. CASE CleanupBegin(p)
    <2>1. call' \in [Callers -> Calls] /\ tableLock' \in Callers \cup {Free}
      <3> DEFINE doomed == {h \in Ids : Expirable(h)}
      <3>1. CASE doomed = {}
        BY <1>4, <1>1, <3>1 DEF CleanupBegin, CallSteps
      <3>2. CASE doomed # {}
        <4>1. call' = [call EXCEPT ![p].step = "scan", ![p].todo = doomed] /\ tableLock' = p
          BY <1>4, <3>2 DEF CleanupBegin
        <4>2. doomed \in SUBSET Ids /\ "scan" \in CallSteps
          BY DEF CallSteps
        <4> HIDE DEF doomed
        <4> QED
          BY <1>0, <4>1, <4>2
      <3> QED
        BY <3>1, <3>2
    <2> QED
      BY <1>4, <2>1 DEF CleanupBegin, LoopLocals, HandlerPinned, Dispatching,
          kernel, budget, history
  <1>5. ASSUME NEW h \in Ids, CleanupVisit(p, h) PROVE IInv'
    <2>1. call' \in [Callers -> Calls]
      BY <1>5, <1>0, <1>3 DEF CleanupVisit, CallSteps
    <2>2. handlers' \in [Ids -> {"absent", "idle", "busy"}]
      BY <1>5, RemovedKeepsBusy DEF CleanupVisit
    <2>3. HandlerPinned'
      BY <1>5, RemovedKeepsBusy DEF CleanupVisit, HandlerPinned, Dispatching
    <2> QED
      BY <1>5, <2>1, <2>2, <2>3 DEF CleanupVisit, LoopLocals, kernel, budget, history
  <1>6. CASE CleanupUnlock(p)
    BY <1>6, <1>1 DEF CleanupUnlock, LockReleased, CallSteps, LoopLocals, HandlerPinned, Dispatching,
        kernel, budget, history
  <1>7. CASE CleanupIterate(p)
    BY <1>7, <1>0 DEF CleanupIterate, CallSteps, LoopLocals, HandlerPinned, Dispatching,
        tables, kernel, budget, history
  <1>8. ASSUME NEW h \in Ids, CleanupErase(p, h) PROVE IInv'
    BY <1>8, <1>0, <1>3 DEF CleanupErase, Store, CallSteps, LoopLocals, HandlerPinned, Dispatching,
        kernel, budget, history
  <1>9. CASE CleanupDone(p)
    BY <1>9, <1>1, <1>2 DEF CleanupDone, CallSteps, LoopLocals, HandlerPinned, Dispatching,
        kernel, budget, history
  <1> QED
    BY <1>4, <1>5, <1>6, <1>7, <1>8, <1>9 DEF CleanupStep

\* Steps of subscribe.
LEMMA SubscribeInv ==
    ASSUME IInv, NEW p \in Callers, SubscribeStep(p)
    PROVE  IInv'
  <1> USE DEF IInv, TypeOK
  <1>1. \A s \in CallSteps : Goto(p, s) => call' \in [Callers -> Calls]
    BY CallTyping
  <1>2. Return(p) => call' \in [Callers -> Calls]
    BY CallTyping DEF CallSteps
  <1>3. call[p].handle \in Ids
    BY CallTyping DEF CallSteps
  <1>4. CheckId(p) => call' \in [Callers -> Calls]
    BY <1>1, <1>2 DEF CheckId, CallSteps
  <1>5. CASE Lookup(p)
    <2>1. [call EXCEPT ![p].step = "checkBusy", ![p].found = TRUE] \in [Callers -> Calls]
      BY CallTyping DEF CallSteps
    <2> QED
      BY <1>5, <1>1, <2>1 DEF Lookup, CallSteps, LoopLocals, HandlerPinned, Dispatching,
          tables, kernel, budget, history
  <1>6. CASE CheckBusy(p)
    BY <1>6, <1>1, <1>2 DEF CheckBusy, CallSteps, LoopLocals, HandlerPinned, Dispatching,
        tables, kernel, budget, history
  <1>7. CASE Insert(p)
    <2>1. call' \in [Callers -> Calls]
      BY <1>7, <1>1, <1>2 DEF Insert, CallSteps
    <2>2. subscribers' \in [Ids -> Context \cup {Absent}]
      BY <1>7 DEF Insert, Store, Unconfirmed, Context
    <2> QED
      BY <1>7, <1>3, <2>1, <2>2 DEF Insert, LoopLocals, HandlerPinned, Dispatching, kernel, budget
  <1>8. CASE Update(p)
    BY <1>8, <1>2, <1>4 DEF Update, LoopLocals, HandlerPinned, Dispatching,
        tables, kernel, budget, history
  <1>9. CASE Register(p)
    <2>1. call' \in [Callers -> Calls]
      BY <1>9, <1>1 DEF Register, CallSteps
    <2> QED
      BY <1>9, <1>3, <2>1 DEF Register, LoopLocals, HandlerPinned, Dispatching,
          tables, kernel, budget, history
  <1>10. CASE Confirm(p)
    <2>1. subscribers' \in [Ids -> Context \cup {Absent}]
      BY <1>10 DEF Confirm, Store, Confirmed, Context
    <2> QED
      BY <1>10, <1>4, <2>1 DEF Confirm, LoopLocals, HandlerPinned, Dispatching,
          kernel, budget, history
  <1>11. CASE Rollback(p)
    BY <1>11, <1>2 DEF Rollback, Store, LoopLocals, HandlerPinned, Dispatching,
        kernel, budget, history
  <1>12. CASE AddHandler(p)
    <2>1. handlers' \in [Ids -> {"absent", "idle", "busy"}]
      BY <1>12, <1>3, AssignedKeepsBusy DEF AddHandler
    <2>2. HandlerPinned'
      BY <1>12, <1>3, AssignedKeepsBusy DEF AddHandler, HandlerPinned, Dispatching
    <2> QED
      BY <1>12, <1>2, <1>3, <2>1, <2>2 DEF AddHandler, LoopLocals, kernel, budget
  <1> QED
    BY <1>5, <1>6, <1>7, <1>8, <1>9, <1>10, <1>11, <1>12 DEF SubscribeStep

\* Steps of unsubscribe.
LEMMA UnsubscribeInv ==
    ASSUME IInv, NEW p \in Callers, UnsubscribeStep(p)
    PROVE  IInv'
  <1> USE DEF IInv, TypeOK
  <1>1. \A s \in CallSteps : Goto(p, s) => call' \in [Callers -> Calls]
    BY CallTyping
  <1>2. Return(p) => call' \in [Callers -> Calls]
    BY CallTyping DEF CallSteps
  <1>3. call[p].handle \in Ids
    BY CallTyping DEF CallSteps
  <1>4. CASE Find(p)
    <2>1. call' \in [Callers -> Calls]
      BY <1>4, <1>1, <1>2 DEF Find, CallSteps
    <2> QED
      BY <1>4, <2>1 DEF Find, LoopLocals, HandlerPinned, Dispatching, tables, kernel, budget, history
  <1>5. CASE Unregister(p)
    BY <1>5, <1>1 DEF Unregister, CallSteps, LoopLocals, HandlerPinned, Dispatching,
        tables, kernel, budget, history
  <1>6. CASE RemoveMapping(p)
    BY <1>6, <1>1 DEF RemoveMapping, Store, CallSteps, LoopLocals, HandlerPinned, Dispatching,
        kernel, budget, history
  <1>7. CASE DropHandler(p)
    <2>1. handlers' \in [Ids -> {"absent", "idle", "busy"}]
      BY <1>7, <1>3, RemovedKeepsBusy DEF DropHandler
    <2>2. HandlerPinned'
      BY <1>7, <1>3, RemovedKeepsBusy DEF DropHandler, HandlerPinned, Dispatching
    <2> QED
      BY <1>7, <1>2, <2>1, <2>2 DEF DropHandler, LoopLocals, kernel, budget
  <1> QED
    BY <1>4, <1>5, <1>6, <1>7 DEF UnsubscribeStep

\* A client or a handler enters a call.
LEMMA EntryInv ==
    ASSUME IInv, NEW p \in Callers, NEW kind \in {"subscribe", "unsubscribe"}, NEW h \in Handles,
           Call(p, kind, h)
    PROVE  IInv'
  <1> USE DEF IInv, TypeOK
  <1>1. call' \in [Callers -> Calls]
    BY CallTyping DEF Call, CallSteps, Ids
  <1>2. calls' \in 0..MaxCalls
    BY BoundAssumption DEF Call
  <1> QED
    BY <1>1, <1>2 DEF Call, LoopLocals, HandlerPinned, Dispatching, tables, kernel, history

\* Steps of the demultiplexer's thread.
LEMMA MonitorInv ==
    ASSUME IInv,
           MonitorStep \/ \E ready \in SUBSET monitored : EpollWait(ready)
    PROVE  IInv'
  <1> USE DEF IInv, TypeOK
  <1>1. ASSUME NEW ready \in SUBSET monitored, EpollWait(ready) PROVE IInv'
    <2>1. waits' \in 0..MaxWaits
      BY <1>1, BoundAssumption DEF EpollWait
    <2> QED
      BY <1>1, <2>1 DEF EpollWait, LoopLocals, HandlerPinned, Dispatching, tables, history
  <1>2. ASSUME NEW h \in Ids, PushNotification(h) PROVE IInv'
    <2>1. queue' \in Seq(Ids)
      BY <1>2 DEF PushNotification
    <2> QED
      BY <1>2, <2>1 DEF PushNotification, LoopLocals, HandlerPinned, Dispatching,
          tables, budget, history
  <1> QED
    BY <1>1, <1>2 DEF MonitorStep

\* Steps of the event-processing thread.  A dispatch marks the entry it begins
\* on and unmarks it when it ends; only here does loop.handle change, and only
\* while no entry is marked.
LEMMA LoopInv ==
    ASSUME IInv, LoopStep
    PROVE  IInv'
  <1> USE DEF IInv, TypeOK
  <1>1. NoEvent \in Events
    BY BoundAssumption DEF NoEvent, Events, LoopSteps, Ids
  <1>2. ASSUME NEW s \in LoopSteps PROVE [loop EXCEPT !.step = s] \in Events
    BY DEF Events
  <1>3. loop.handle \in Ids /\ loop.copy \in Context \cup {Absent} /\ loop.left \in 0..MaxEvents
    BY DEF Events
  <1>4. CASE Pop
    <2>1. PICK n \in 1..MaxEvents :
            loop' = [NoEvent EXCEPT !.step = "lookup", !.handle = Head(queue), !.left = n]
      BY <1>4 DEF Pop
    <2>2. Head(queue) \in Ids /\ queue' \in Seq(Ids)
      BY <1>4 DEF Pop
    <2>3. loop' \in Events
      <3>1. n \in 0..MaxEvents
        BY BoundAssumption
      <3>2. loop' = [step |-> "lookup", handle |-> Head(queue), copy |-> Absent, left |-> n]
        BY <2>1 DEF NoEvent
      <3> QED
        BY <2>2, <3>1, <3>2 DEF Events, LoopSteps
    <2>4. loop'.step = "lookup" /\ loop'.left # 0
      BY <2>1, BoundAssumption DEF NoEvent
    <2>5. \A h \in Ids : handlers[h] # "busy"
      BY <1>4 DEF Pop, LoopAt, HandlerPinned, Dispatching
    <2>6. LoopLocals'
      BY <2>4 DEF LoopLocals
    <2>7. HandlerPinned'
      BY <1>4, <2>4, <2>5 DEF Pop, HandlerPinned, Dispatching, tables
    <2> QED
      BY <1>4, <2>2, <2>3, <2>6, <2>7 DEF Pop, tables, budget, history
  <1>5. CASE LoopLookup
    <2>1. loop.step = "lookup"
      BY <1>5 DEF LoopLookup, LoopAt
    <2>2. CASE Servable(subscribers[loop.handle])
      <3>1. loop' = [loop EXCEPT !.step = "mark", !.copy = subscribers[loop.handle]]
        BY <1>5, <2>2 DEF LoopLookup
      <3>2. subscribers[loop.handle] \in Context
        BY <2>2, <1>3 DEF Servable
      <3>3. loop' \in Events
        BY <3>1, <3>2 DEF Events, LoopSteps
      <3>4. LoopLocals'
        BY <2>1, <3>1, <3>2, <3>3 DEF LoopLocals, Events
      <3>5. HandlerPinned'
        BY <1>5, <2>1, <3>1, <3>3 DEF LoopLookup, HandlerPinned, Dispatching, tables, Events
      <3> QED
        BY <1>5, <3>3, <3>4, <3>5 DEF LoopLookup, tables, kernel, budget, history
    <2>3. CASE ~Servable(subscribers[loop.handle])
      <3>1. loop' = [loop EXCEPT !.step = "tail"]
        BY <1>5, <2>3 DEF LoopLookup, LoopGoto
      <3>2. loop' \in Events
        BY <1>2, <3>1 DEF LoopSteps
      <3>3. LoopLocals'
        BY <3>1, <3>2 DEF LoopLocals, Events
      <3>4. HandlerPinned'
        BY <1>5, <2>1, <3>1, <3>2 DEF LoopLookup, HandlerPinned, Dispatching, tables, Events
      <3> QED
        BY <1>5, <3>2, <3>3, <3>4 DEF LoopLookup, tables, kernel, budget, history
    <2> QED
      BY <2>2, <2>3
  <1>6. CASE Mark
    <2>1. loop.step = "mark"
      BY <1>6 DEF Mark, LoopAt
    <2>2. CASE HasHandler(loop.handle)
      <3>1. /\ loop' = [loop EXCEPT !.step = "handling"]
            /\ handlers' = [handlers EXCEPT ![loop.handle] = "busy"]
            /\ excused' = excused
        BY <1>6, <2>2 DEF Mark, LoopGoto
      <3>2. loop' \in Events
        BY <1>2, <3>1 DEF LoopSteps
      <3>3. LoopLocals'
        BY <2>1, <3>1, <3>2 DEF LoopLocals, Events
      <3>4. HandlerPinned'
        BY <1>3, <2>1, <3>1, <3>2 DEF HandlerPinned, Dispatching, Events
      <3> QED
        BY <1>6, <3>1, <3>2, <3>3, <3>4 DEF Mark, kernel, budget
    <2>3. CASE ~HasHandler(loop.handle)
      <3>1. loop' = [loop EXCEPT !.step = "expire"] /\ handlers' = handlers
            /\ excused' = excused \cup {loop.handle}
        BY <1>6, <2>3 DEF Mark, LoopGoto
      <3>2. loop' \in Events
        BY <1>2, <3>1 DEF LoopSteps
      <3>3. LoopLocals'
        BY <2>1, <3>1, <3>2 DEF LoopLocals, Events
      <3>4. HandlerPinned'
        BY <2>1, <3>1, <3>2 DEF HandlerPinned, Dispatching, Events
      <3> QED
        BY <1>3, <1>6, <3>1, <3>2, <3>3, <3>4 DEF Mark, kernel, budget
    <2> QED
      BY <2>2, <2>3
  <1>7. ASSUME WriteBack, loop.copy \in Context
        PROVE  subscribers' \in [Ids -> Context \cup {Absent}]
    <2>1. [loop.copy EXCEPT !.expired = TRUE] \in Context
      BY <1>7 DEF Context
    <2> QED
      BY <1>7, <2>1 DEF WriteBack, Store
  <1>8. CASE ExpireUnhandled
    <2>1. loop.step = "expire" /\ loop' = NoEvent /\ loop.copy \in Context
      BY <1>8 DEF ExpireUnhandled, LoopAt, LoopLocals
    <2>2. subscribers' \in [Ids -> Context \cup {Absent}]
      BY <1>7, <1>8, <2>1 DEF ExpireUnhandled
    <2>3. LoopLocals' /\ HandlerPinned'
      BY <1>8, <2>1 DEF ExpireUnhandled, WriteBack, NoEvent, LoopLocals, HandlerPinned, Dispatching
    <2> QED
      BY <1>1, <1>8, <2>1, <2>2, <2>3 DEF ExpireUnhandled, WriteBack, Store, kernel, budget, history
  <1>9. CASE HandleEvent
    <2>1. loop.step = "handling" /\ loop.left # 0 /\ loop.copy \in Context
      BY <1>9 DEF HandleEvent, LoopAt, LoopLocals
    <2>2. loop' \in Events /\ loop'.handle = loop.handle /\ loop'.copy = loop.copy
          /\ (loop'.step = "handling" => loop'.left # 0)
          /\ loop'.step \in {"handling", "finish", "invalid"}
      <3>1. CASE loop' = [loop EXCEPT !.left = @ - 1, !.step = IF LastEvent THEN "finish" ELSE @]
        <4>1. loop.left - 1 \in 0..MaxEvents /\ (loop.left # 1 => loop.left - 1 # 0)
          BY <1>3, <2>1, BoundAssumption
        <4> DEFINE left == loop.left - 1
        <4>2. CASE loop.left = 1
          <5>1. loop' = [loop EXCEPT !.left = left, !.step = "finish"]
            BY <3>1, <4>2 DEF LastEvent
          <5> HIDE DEF left
          <5> QED
            BY <4>1, <5>1 DEF Events, LoopSteps, left
        <4>3. CASE loop.left # 1
          <5>1. loop' = [loop EXCEPT !.left = left]
            BY <2>1, <3>1, <4>3 DEF LastEvent, Events
          <5>2. left \in 0..MaxEvents /\ left # 0
            BY <4>1, <4>3
          <5> HIDE DEF left
          <5> QED
            BY <2>1, <5>1, <5>2 DEF Events
        <4> QED
          BY <4>2, <4>3
      <3>2. CASE loop' = [loop EXCEPT !.step = "invalid"]
        BY <3>2 DEF Events, LoopSteps
      <3> QED
        BY <1>9, <3>1, <3>2 DEF HandleEvent, LoopGoto
    <2>3. LoopLocals'
      BY <2>1, <2>2 DEF LoopLocals
    <2>4. HandlerPinned'
      BY <1>9, <2>1, <2>2 DEF HandleEvent, HandlerPinned, Dispatching, tables
    <2>5. excused' \subseteq Ids
      BY <1>3, <1>9 DEF HandleEvent
    <2> QED
      BY <1>9, <2>2, <2>3, <2>4, <2>5 DEF HandleEvent, tables, kernel, budget
  <1>10. CASE ExpireInvalid
    <2>1. /\ loop.step = "invalid" /\ loop.copy \in Context
          /\ loop' = [loop EXCEPT !.step = "finish"]
      BY <1>10 DEF ExpireInvalid, LoopAt, LoopGoto, LoopLocals
    <2>2. subscribers' \in [Ids -> Context \cup {Absent}]
      BY <1>7, <1>10, <2>1 DEF ExpireInvalid
    <2>3. loop' \in Events
      BY <1>2, <2>1 DEF LoopSteps
    <2>4. LoopLocals' /\ HandlerPinned'
      BY <1>10, <2>1, <2>3 DEF ExpireInvalid, WriteBack, LoopLocals, HandlerPinned, Dispatching, Events
    <2> QED
      BY <1>10, <2>2, <2>3, <2>4 DEF ExpireInvalid, WriteBack, Store, kernel, budget, history
  <1>11. CASE Finish
    <2>1. /\ loop.step = "finish"
          /\ loop' = [loop EXCEPT !.step = "tail"]
          /\ handlers' = [handlers EXCEPT ![loop.handle] = "idle"]
      BY <1>11 DEF Finish, LoopAt, LoopGoto
    <2>2. loop' \in Events
      BY <1>2, <2>1 DEF LoopSteps
    <2>3. LoopLocals'
      BY <2>1, <2>2 DEF LoopLocals, Events
    <2>4. HandlerPinned'
      BY <1>3, <2>1, <2>2 DEF HandlerPinned, Dispatching, Events
    <2> QED
      BY <1>11, <2>1, <2>2, <2>3, <2>4 DEF Finish, kernel, budget, history
  <1>12. CASE LoopTail
    <2>1. loop.step = "tail" /\ loop' = NoEvent
      BY <1>12 DEF LoopTail, LoopAt
    <2>2. call' \in [Callers -> Calls]
      <3>1. [NoCall EXCEPT !.step = "cleanup", !.op = "cleanupExpired"] \in Calls
        BY DEF NoCall, Calls, CallSteps, Ids
      <3> QED
        BY <1>12, <3>1 DEF LoopTail
    <2>3. LoopLocals' /\ HandlerPinned'
      BY <1>12, <2>1 DEF LoopTail, NoEvent, LoopLocals, HandlerPinned, Dispatching, tables
    <2> QED
      BY <1>1, <1>12, <2>1, <2>2, <2>3 DEF LoopTail, tables, kernel, budget, history
  <1> QED
    BY <1>4, <1>5, <1>6, <1>8, <1>9, <1>10, <1>11, <1>12 DEF LoopStep

\* Every step of the reactor preserves the invariant.
LEMMA NextInv == IInv /\ [Next]_vars => IInv'
  <1> SUFFICES ASSUME IInv, [Next]_vars PROVE IInv'
    OBVIOUS
  <1>1. ASSUME NEW p \in Callers, CallStep(p) PROVE IInv'
    BY <1>1, CleanupInv, SubscribeInv, UnsubscribeInv DEF CallStep
  <1>2. CASE UNCHANGED vars
    BY <1>2 DEF vars, tables, kernel, budget, history, IInv, TypeOK, LoopLocals,
        HandlerPinned, Dispatching
  <1>3. CASE Idle
    BY <1>2, <1>3 DEF Idle
  <1> QED
    BY <1>1, <1>2, <1>3, EntryInv, MonitorInv, LoopInv DEF Next

\* The inductive invariant holds in every reachable state.
THEOREM Invariant == Spec => []IInv
  BY InitInv, NextInv, PTL DEF Spec

\* Whatever the number of handles and threads and the bounds, the tables, the
\* queue and every thread's locals keep their types.
THEOREM TypeCorrect == Spec => []TypeOK
  <1>1. IInv => TypeOK
    BY DEF IInv
  <1> QED
    BY <1>1, Invariant, PTL

\* A handler whose events are being delivered keeps its marked entry in
\* m_handlers_table, and no entry stays marked after its dispatch: for any number
\* of handles and threads, and any interleaving of calls and cleanups.
THEOREM HandlerStaysPinned == Spec => []HandlerPinned
  <1>1. IInv => HandlerPinned
    BY DEF IInv
  <1> QED
    BY <1>1, Invariant, PTL

-----------------------------------------------------------------------------
(* One call about a handle at a time: the promise of HandlerService. *)

Unheld(h) == h \notin held /\ h \notin excused
Granted(h) == h \in held \/ h \in excused \/ \E p \in Callers : Subscribing(p, h)

\* A context and a handler are not there together.
Settled(h) == subscribers[h] = Absent \/ handlers[h] = "absent"

ClientOps == {"subscribe", "unsubscribe"}
EarlySteps == {"cleanup", "scan", "iterate", "erase", "lookup", "checkBusy", "insert"}
LateSteps == {"update", "register", "confirm", "rollback", "addHandler"}

CallShape ==
    \A p \in Callers :
        /\ At(p, "idle") => call[p].op = "none"
        /\ call[p].step \in {"lookup", "checkBusy", "insert"} \cup LateSteps =>
              call[p].op = "subscribe"
        /\ call[p].step \in {"find", "unregister", "remove", "dropHandler"} =>
              call[p].op = "unsubscribe"
        /\ At(p, "addHandler") => call[p].handle # NullHandle
        /\ At(p, "update") => call[p].found
        /\ p = EventThread /\ call[p].op \in ClientOps => loop.step = "handling"

OneAtATime ==
    \A p, q \in Callers :
        /\ call[p].op \in ClientOps /\ call[q].op \in ClientOps
        /\ call[p].handle = call[q].handle
        => p = q

ExpiringExcused == loop.step \in {"expire", "invalid"} => loop.handle \in excused

Unserved == \A h \in Ids : Granted(h) \/ Settled(h)

MarkJustified ==
    loop.step = "mark" => Granted(loop.handle) \/ handlers[loop.handle] = "absent"

SubscribeKeeps ==
    \A p \in Callers, h \in Ids :
        Subscribing(p, h) /\ Unheld(h) =>
            /\ call[p].step \in EarlySteps => Settled(h)
            /\ call[p].found => handlers[h] = "absent"
            /\ call[p].step \in LateSteps =>
                  handlers[h] = "absent" \/ (p = EventThread /\ handlers[h] = "busy")

AboutToDrop ==
    \A p \in Callers, h \in Ids :
        Unsubscribing(p, h) /\ At(p, "dropHandler") /\ h \notin excused => subscribers[h] = Absent

NullBare == handlers[NullHandle] = "absent"

Justified ==
    /\ OneAtATime /\ ExpiringExcused /\ Unserved /\ MarkJustified
    /\ SubscribeKeeps /\ AboutToDrop /\ NullBare

SInv == IInv /\ CallShape /\ Justified

-----------------------------------------------------------------------------
(* What a step does to the calls. *)

\* A step of p's call leaves the other calls alone, and p's own operation too
\* unless it returns.
Follows(p, s) ==
    /\ \A q \in Callers \ {p} : call'[q] = call[q]
    /\ call'[p].op = call[p].op
    /\ call'[p].handle = call[p].handle
    /\ call'[p].step = s

Ends(p) ==
    /\ \A q \in Callers \ {p} : call'[q] = call[q]
    /\ call'[p] = NoCall

LEMMA CallEffects ==
    ASSUME TypeOK, NEW p \in Callers, NEW s \in CallSteps
    PROVE  /\ Goto(p, s) => Follows(p, s) /\ call'[p].found = call[p].found
           /\ Return(p) => Ends(p)
           /\ call' = [call EXCEPT ![p].step = s, ![p].found = TRUE] =>
                 Follows(p, s) /\ call'[p].found
           /\ \A T : call' = [call EXCEPT ![p].step = s, ![p].todo = T] =>
                 Follows(p, s) /\ call'[p].found = call[p].found
           /\ \A T : call' = [call EXCEPT ![p].todo = T] =>
                 Follows(p, call[p].step) /\ call'[p].found = call[p].found
  <1>1. call[p] \in Calls /\ call \in [Callers -> Calls]
    BY DEF TypeOK
  <1>2. Goto(p, s) => Follows(p, s) /\ call'[p].found = call[p].found
    BY <1>1 DEF Goto, Follows, Calls
  <1>3. Return(p) => Ends(p)
    BY <1>1 DEF Return, Ends
  <1>4. ASSUME call' = [call EXCEPT ![p].step = s, ![p].found = TRUE]
        PROVE  Follows(p, s) /\ call'[p].found
    BY <1>1, <1>4 DEF Follows, Calls
  <1>5. ASSUME NEW T, call' = [call EXCEPT ![p].step = s, ![p].todo = T]
        PROVE  Follows(p, s) /\ call'[p].found = call[p].found
    BY <1>1, <1>5 DEF Follows, Calls
  <1>6. ASSUME NEW T, call' = [call EXCEPT ![p].todo = T]
        PROVE  Follows(p, call[p].step) /\ call'[p].found = call[p].found
    BY <1>1, <1>6 DEF Follows, Calls
  <1> QED
    BY <1>2, <1>3, <1>4, <1>5, <1>6

\* A step of a call that goes on takes no grant away.
LEMMA FollowsGrants ==
    ASSUME NEW p \in Callers, NEW s, Follows(p, s) \/ UNCHANGED call,
           held' = held, excused \subseteq excused'
    PROVE  \A h : /\ Granted(h) => Granted(h)'
                  /\ Unheld(h)' => Unheld(h)
                  /\ \A q \in Callers : Subscribing(q, h)' <=> Subscribing(q, h)
                  /\ \A q \in Callers : Unsubscribing(q, h)' <=> Unsubscribing(q, h)
  BY DEF Follows, Granted, Unheld, Subscribing, Unsubscribing

Own(p, h) == Subscribing(p, h) \/ Unsubscribing(p, h)

\* A call that returns takes no grant away but its own.
LEMMA EndsGrants ==
    ASSUME NEW p \in Callers, Ends(p), excused \subseteq excused',
           \A h \in Ids : ~Own(p, h) => (h \in held' <=> h \in held)
    PROVE  \A h \in Ids :
              /\ ~Own(p, h) => (Granted(h) => Granted(h)') /\ (Unheld(h)' => Unheld(h))
              /\ ~Unheld(h)' => Granted(h)'
              /\ \A q \in Callers : Subscribing(q, h)' <=> Subscribing(q, h) /\ q # p
              /\ \A q \in Callers : Unsubscribing(q, h)' <=> Unsubscribing(q, h) /\ q # p
  BY DEF Ends, NoCall, Granted, Unheld, Own, Subscribing, Unsubscribing

-----------------------------------------------------------------------------
(* Preservation by the steps of a call.  But for its own handle a call only  *)
(* takes contexts and handlers away, and a handler in progress stays.        *)

Shrinks(h) ==
    /\ subscribers'[h] = subscribers[h] \/ subscribers'[h] = Absent
    /\ handlers'[h] = handlers[h] \/ (handlers'[h] = "absent" /\ handlers[h] # "busy")

\* The shape of the calls after a step of p's call to its step s.
LEMMA FollowsShape ==
    ASSUME CallShape, NEW p \in Callers, NEW s \in CallSteps \ {"idle"},
           Follows(p, s), UNCHANGED loop,
           s \in {"lookup", "checkBusy", "insert"} \cup LateSteps => call[p].op = "subscribe",
           s \in {"find", "unregister", "remove", "dropHandler"} => call[p].op = "unsubscribe",
           s = "addHandler" => call[p].handle # NullHandle,
           s = "update" => call'[p].found
    PROVE  CallShape'
  BY DEF CallShape, Follows, At

LEMMA EndsShape ==
    ASSUME CallShape, NEW p \in Callers, Ends(p), UNCHANGED loop
    PROVE  CallShape'
  BY DEF CallShape, Ends, NoCall, At, ClientOps, LateSteps

\* A step of p's call to its step s, which says what SubscribeKeeps and
\* AboutToDrop say of it there.
LEMMA FollowsJustified ==
    ASSUME IInv, CallShape, Justified, NEW p \in Callers, NEW s \in CallSteps, Follows(p, s),
           UNCHANGED <<loop, held>>, excused \subseteq excused',
           \A h \in Ids : Shrinks(h) \/ (Subscribing(p, h) /\ handlers'[h] = handlers[h]),
           \A h \in Ids : Subscribing(p, h) /\ Unheld(h)' =>
               /\ s \in EarlySteps => Settled(h)'
               /\ call'[p].found => handlers'[h] = "absent"
               /\ s \in LateSteps =>
                     handlers'[h] = "absent" \/ (p = EventThread /\ handlers'[h] = "busy"),
           s = "dropHandler" =>
               \A h \in Ids : Unsubscribing(p, h) /\ h \notin excused => subscribers'[h] = Absent
    PROVE  Justified'
  <1>1. \A h : /\ Granted(h) => Granted(h)'
               /\ Unheld(h)' => Unheld(h)
               /\ \A q \in Callers : Subscribing(q, h)' <=> Subscribing(q, h)
               /\ \A q \in Callers : Unsubscribing(q, h)' <=> Unsubscribing(q, h)
    BY FollowsGrants
  <1>2. OneAtATime' /\ ExpiringExcused'
    BY DEF Justified, OneAtATime, ExpiringExcused, Follows
  <1>3. \A h \in Ids : Shrinks(h) => (Settled(h) => Settled(h)')
    BY DEF Shrinks, Settled
  <1>4. \A h \in Ids : Subscribing(p, h) => Granted(h)'
    BY <1>1 DEF Granted
  <1>5. Unserved'
    BY <1>1, <1>3, <1>4 DEF Justified, Unserved
  <1>6. loop.handle \in Ids /\ NullHandle \in Ids
    BY DEF IInv, TypeOK, Events, Ids
  <1>7. MarkJustified' /\ NullBare'
    BY <1>1, <1>6 DEF Justified, MarkJustified, NullBare, Shrinks
  <1>8. ASSUME NEW q \in Callers, q # p, NEW h \in Ids, Own(q, h)
        PROVE  call'[q] = call[q] /\ Shrinks(h)
    BY <1>8 DEF Justified, OneAtATime, Own, Subscribing, Unsubscribing, ClientOps, Follows
  <1>9. SubscribeKeeps'
    <2> SUFFICES ASSUME NEW q \in Callers, NEW h \in Ids, Subscribing(q, h), Unheld(h)'
                 PROVE  /\ call'[q].step \in EarlySteps => Settled(h)'
                        /\ call'[q].found => handlers'[h] = "absent"
                        /\ call'[q].step \in LateSteps =>
                              handlers'[h] = "absent" \/ (q = EventThread /\ handlers'[h] = "busy")
      BY <1>1 DEF SubscribeKeeps
    <2>1. CASE q = p
      BY <2>1 DEF Follows
    <2>2. CASE q # p
      BY <1>1, <1>3, <1>8, <2>2 DEF Justified, SubscribeKeeps, Shrinks, Own
    <2> QED
      BY <2>1, <2>2
  <1>10. AboutToDrop'
    <2> SUFFICES ASSUME NEW q \in Callers, NEW h \in Ids,
                        Unsubscribing(q, h), call'[q].step = "dropHandler", h \notin excused
                 PROVE  subscribers'[h] = Absent
      BY <1>1 DEF AboutToDrop, At
    <2>1. CASE q = p
      BY <2>1 DEF Follows
    <2>2. CASE q # p
      BY <1>8, <2>2 DEF Justified, AboutToDrop, Shrinks, At, Own
    <2> QED
      BY <2>1, <2>2
  <1> QED
    BY <1>2, <1>5, <1>7, <1>9, <1>10 DEF Justified

\* A call that returns, and leaves its handle so that nothing of it is served
\* unless somebody still holds it.
LEMMA EndsJustified ==
    ASSUME IInv, CallShape, Justified, NEW p \in Callers, Ends(p),
           UNCHANGED loop, excused \subseteq excused',
           \A h \in Ids : Shrinks(h) \/ (Own(p, h) /\ (h # NullHandle \/ handlers'[h] = handlers[h])),
           \A h \in Ids : ~Own(p, h) => (h \in held' <=> h \in held),
           \A h \in Ids : Own(p, h) /\ Unheld(h)' =>
               /\ Settled(h)'
               /\ loop.step = "mark" /\ loop.handle = h => handlers'[h] = "absent"
    PROVE  Justified'
  <1>1. \A h \in Ids :
              /\ ~Own(p, h) => (Granted(h) => Granted(h)') /\ (Unheld(h)' => Unheld(h))
              /\ ~Unheld(h)' => Granted(h)'
              /\ \A q \in Callers : Subscribing(q, h)' <=> Subscribing(q, h) /\ q # p
              /\ \A q \in Callers : Unsubscribing(q, h)' <=> Unsubscribing(q, h) /\ q # p
    BY EndsGrants
  <1>2. OneAtATime' /\ ExpiringExcused'
    BY DEF Justified, OneAtATime, ExpiringExcused, Ends, NoCall, ClientOps
  <1>3. \A h \in Ids : Shrinks(h) => (Settled(h) => Settled(h)')
    BY DEF Shrinks, Settled
  <1>4. Unserved'
    BY <1>1, <1>3 DEF Justified, Unserved
  <1>5. loop.handle \in Ids /\ NullHandle \in Ids
    BY DEF IInv, TypeOK, Events, Ids
  <1>6. MarkJustified' /\ NullBare'
    BY <1>1, <1>5 DEF Justified, MarkJustified, NullBare, Shrinks
  <1>7. ASSUME NEW q \in Callers, q # p, NEW h \in Ids, Own(q, h)
        PROVE  call'[q] = call[q] /\ ~Own(p, h) /\ Shrinks(h)
    BY <1>7 DEF Justified, OneAtATime, Own, Subscribing, Unsubscribing, ClientOps, Ends
  <1>8. SubscribeKeeps'
    BY <1>1, <1>3, <1>7 DEF Justified, SubscribeKeeps, Shrinks, Own
  <1>9. AboutToDrop'
    BY <1>1, <1>7 DEF Justified, AboutToDrop, Shrinks, At, Own
  <1> QED
    BY <1>2, <1>4, <1>6, <1>8, <1>9 DEF Justified

-----------------------------------------------------------------------------
(* The steps of calls, operation by operation. *)

\* A call that stays before its insert keeps what holds there.
LEMMA EarlyJustified ==
    ASSUME IInv, CallShape, Justified, NEW p \in Callers, NEW s \in CallSteps, Follows(p, s),
           call[p].step \in EarlySteps \/ call[p].op # "subscribe", s \in EarlySteps \cup {"find"},
           call'[p].found = call[p].found,
           \A h \in Ids : Shrinks(h), UNCHANGED <<loop, held, excused>>
    PROVE  Justified'
  <1>1. ASSUME NEW h \in Ids, Subscribing(p, h), Unheld(h)'
        PROVE  /\ Settled(h)'
               /\ call[p].found => handlers'[h] = "absent"
    BY <1>1 DEF Justified, SubscribeKeeps, Shrinks, Settled, Subscribing, Unheld
  <1>2. s \notin LateSteps /\ s # "dropHandler"
    BY DEF EarlySteps, LateSteps
  <1> QED
    BY <1>1, <1>2, FollowsJustified

LEMMA CleanupService ==
    ASSUME IInv, CallShape, Justified, NEW p \in Callers, CleanupStep(p)
    PROVE  CallShape' /\ Justified'
  <1> DEFINE Follow(s) == Follows(p, s) /\ call'[p].found = call[p].found
  <1>1. TypeOK
    BY DEF IInv
  <1>2. ASSUME NEW s \in CallSteps, Follow(s), call[p].step \in EarlySteps,
               s \in {"scan", "iterate", "erase"},
               \A h \in Ids : Shrinks(h), UNCHANGED <<loop, held, excused>>
        PROVE  CallShape' /\ Justified'
    <2>1. Justified'
      BY <1>2, EarlyJustified DEF EarlySteps
    <2>2. CallShape'
      BY <1>2, FollowsShape DEF LateSteps
    <2> QED
      BY <2>1, <2>2
  <1>3. CASE CleanupBegin(p)
    <2>1. PICK s \in {"iterate", "scan"} : Follow(s)
      BY <1>1, <1>3, CallEffects DEF CleanupBegin, CallSteps
    <2>2. (\A g \in Ids : Shrinks(g)) /\ UNCHANGED <<loop, held, excused>> /\ At(p, "cleanup")
      BY <1>3 DEF CleanupBegin, Shrinks, kernel, budget, history
    <2> QED
      BY <1>2, <2>1, <2>2 DEF At, EarlySteps, CallSteps
  <1>4. ASSUME NEW h \in Ids, CleanupVisit(p, h) PROVE CallShape' /\ Justified'
    <2>1. Follow("scan")
      BY <1>1, <1>4, CallEffects DEF CleanupVisit, At, CallSteps
    <2>2. (\A g \in Ids : Shrinks(g)) /\ UNCHANGED <<loop, held, excused>>
      BY <1>1, <1>4 DEF CleanupVisit, Shrinks, Removed, kernel, budget, history, TypeOK
    <2> QED
      BY <1>2, <1>4, <2>1, <2>2 DEF CleanupVisit, At, EarlySteps, CallSteps
  <1>5. CASE CleanupUnlock(p)
    <2>1. Follow("iterate")
      BY <1>1, <1>5, CallEffects DEF CleanupUnlock, CallSteps
    <2>2. (\A g \in Ids : Shrinks(g)) /\ UNCHANGED <<loop, held, excused>>
      BY <1>5 DEF CleanupUnlock, Shrinks, kernel, budget, history
    <2> QED
      BY <1>2, <1>5, <2>1, <2>2 DEF CleanupUnlock, At, EarlySteps, CallSteps
  <1>6. CASE CleanupIterate(p)
    <2>1. Follow("erase")
      BY <1>1, <1>6, CallEffects DEF CleanupIterate, CallSteps
    <2>2. (\A g \in Ids : Shrinks(g)) /\ UNCHANGED <<loop, held, excused>>
      BY <1>6 DEF CleanupIterate, Shrinks, tables, kernel, budget, history
    <2> QED
      BY <1>2, <1>6, <2>1, <2>2 DEF CleanupIterate, At, EarlySteps, CallSteps
  <1>7. ASSUME NEW h \in Ids, CleanupErase(p, h) PROVE CallShape' /\ Justified'
    <2>1. Follow("erase")
      BY <1>1, <1>7, CallEffects DEF CleanupErase, At, CallSteps
    <2>2. (\A g \in Ids : Shrinks(g)) /\ UNCHANGED <<loop, held, excused>>
      BY <1>1, <1>7 DEF CleanupErase, Store, Shrinks, kernel, budget, history, TypeOK
    <2> QED
      BY <1>2, <1>7, <2>1, <2>2 DEF CleanupErase, At, EarlySteps, CallSteps
  <1>8. CASE CleanupDone(p)
    <2>1. (\A g \in Ids : Shrinks(g)) /\ UNCHANGED <<loop, held, excused>> /\ At(p, "erase")
      BY <1>8 DEF CleanupDone, Shrinks, kernel, budget, history
    <2>2. CASE call[p].op = "subscribe" /\ Goto(p, "lookup")
      <3>1. Follow("lookup")
        BY <1>1, <2>2, CallEffects DEF CallSteps
      <3>2. Justified'
        BY <2>1, <3>1, EarlyJustified DEF At, EarlySteps, CallSteps
      <3> QED
        BY <2>1, <2>2, <3>1, <3>2, FollowsShape DEF LateSteps, CallSteps
    <2>3. CASE call[p].op = "unsubscribe" /\ Goto(p, "find")
      <3>1. Follow("find")
        BY <1>1, <2>3, CallEffects DEF CallSteps
      <3>2. Justified'
        BY <2>1, <3>1, EarlyJustified DEF At, EarlySteps, CallSteps
      <3> QED
        BY <2>1, <2>3, <3>1, <3>2, FollowsShape DEF LateSteps, CallSteps
    <2>4. CASE call[p].op = "cleanupExpired" /\ Return(p)
      <3>1. Ends(p)
        BY <1>1, <2>4, CallEffects DEF CallSteps
      <3>2. Justified'
        BY <2>1, <2>4, <3>1, EndsJustified DEF Own, Subscribing, Unsubscribing
      <3> QED
        BY <2>1, <3>1, <3>2, EndsShape
    <2> QED
      BY <1>8, <2>2, <2>3, <2>4 DEF CleanupDone
  <1> QED
    BY <1>3, <1>4, <1>5, <1>6, <1>7, <1>8 DEF CleanupStep

\* A handler that is being looked at from the event loop's mark is not busy, so
\* a caller at a step of subscribe then is an application thread.
LEMMA AtMark ==
    ASSUME IInv, CallShape, loop.step = "mark"
    PROVE  /\ \A h \in Ids : handlers[h] # "busy"
           /\ \A p \in Callers : call[p].op \in ClientOps => p # EventThread
  BY DEF IInv, HandlerPinned, Dispatching, CallShape

LEMMA SubscribeService ==
    ASSUME IInv, CallShape, Justified, NEW p \in Callers, SubscribeStep(p)
    PROVE  CallShape' /\ Justified'
  <1> DEFINE Follow(s) == Follows(p, s) /\ call'[p].found = call[p].found
  <1>0. PICK g \in Ids : call[p].handle = g
    BY DEF IInv, TypeOK, Calls
  <1>1. TypeOK /\ call[p].handle = g /\ \A h \in Ids : Subscribing(p, h) => h = g
    BY <1>0 DEF IInv, Subscribing
  <1>2. ASSUME call[p].op = "subscribe", call[p].step \in {"lookup", "checkBusy", "insert"} \cup LateSteps
        PROVE  /\ Subscribing(p, g) /\ ~Unsubscribing(p, g)
               /\ Unheld(g) =>
                    /\ call[p].step \in EarlySteps => Settled(g)
                    /\ call[p].found => handlers[g] = "absent"
                    /\ call[p].step \in LateSteps =>
                          handlers[g] = "absent" \/ (p = EventThread /\ handlers[g] = "busy")
    BY <1>1, <1>2 DEF Subscribing, Unsubscribing, Justified, SubscribeKeeps
  <1>3. \A h \in Ids : (Own(p, h) => h = g) /\ (call[p].op = "subscribe" => ~Unsubscribing(p, h))
    BY <1>1 DEF Own, Subscribing, Unsubscribing
  <1>4. CASE Lookup(p)
    <2>1. /\ call[p].op = "subscribe" /\ At(p, "lookup")
          /\ (\A h \in Ids : Shrinks(h)) /\ UNCHANGED <<loop, held, excused>>
      BY <1>4 DEF Lookup, CallShape, At, Shrinks, tables, history
    <2>2. CASE subscribers[g] = Absent
      <3>1. Follow("insert")
        BY <1>1, <1>4, <2>2, CallEffects DEF Lookup, CallSteps
      <3>2. Justified'
        BY <2>1, <3>1, EarlyJustified DEF At, EarlySteps, CallSteps
      <3> QED
        BY <2>1, <3>1, <3>2, FollowsShape DEF LateSteps, CallSteps
    <2>3. CASE subscribers[g] # Absent
      <3>1. Follows(p, "checkBusy") /\ call'[p].found
        BY <1>1, <1>4, <2>3, CallEffects DEF Lookup, CallSteps
      <3>2. Unheld(g) => Settled(g) /\ handlers[g] = "absent"
        BY <1>2, <2>1, <2>3 DEF At, EarlySteps, Settled
      <3>3. Settled(g)' <=> Settled(g)
        BY <1>4 DEF Settled, Lookup, tables
      <3>4. handlers' = handlers
        BY <1>4 DEF Lookup, tables
      <3>5. Unheld(g)' <=> Unheld(g)
        BY <2>1 DEF Unheld
      <3>6. Justified'
        BY <1>1, <2>1, <3>1, <3>2, <3>3, <3>4, <3>5, FollowsJustified DEF EarlySteps,
                                                                          LateSteps, CallSteps
      <3> QED
        BY <2>1, <3>1, <3>6, FollowsShape DEF LateSteps, CallSteps
    <2> QED
      BY <2>2, <2>3
  <1>5. CASE CheckBusy(p)
    <2>1. /\ call[p].op = "subscribe" /\ At(p, "checkBusy")
          /\ (\A h \in Ids : Shrinks(h)) /\ UNCHANGED <<subscribers, handlers, loop, held, excused>>
      BY <1>5 DEF CheckBusy, CallShape, At, Shrinks, tables, history
    <2>2. CASE handlers[g] = "busy"
      <3>1. Ends(p)
        BY <1>1, <1>5, <2>2, CallEffects DEF CheckBusy, CallSteps
      <3>2. Unheld(g)' => Settled(g)'
        BY <1>2, <2>1 DEF Unheld, Settled, At, EarlySteps
      <3>3. loop.step # "mark"
        BY <1>1, <2>2, AtMark
      <3>4. Justified'
        BY <1>3, <2>1, <3>1, <3>2, <3>3, EndsJustified
      <3> QED
        BY <2>1, <3>1, <3>4, EndsShape
    <2>3. CASE handlers[g] # "busy"
      <3>1. Follow("insert")
        BY <1>1, <1>5, <2>3, CallEffects DEF CheckBusy, CallSteps
      <3>2. Justified'
        BY <2>1, <3>1, EarlyJustified DEF At, EarlySteps, CallSteps
      <3> QED
        BY <2>1, <3>1, <3>2, FollowsShape DEF LateSteps, CallSteps
    <2> QED
      BY <2>2, <2>3
  <1>6. CASE Insert(p)
    <2>1. /\ call[p].op = "subscribe" /\ At(p, "insert") /\ UNCHANGED <<handlers, loop, held>>
          /\ excused \subseteq excused'
      BY <1>6 DEF Insert, CallShape, At
    <2>2. \A h \in Ids \ {g} : Shrinks(h)
      BY <1>1, <1>6 DEF Insert, Store, Shrinks, TypeOK
    <2>3. Unheld(g)' => handlers[g] = "absent" \/ Resubscribing(p, g)
      BY <1>1, <1>6 DEF Insert, Unheld
    <2>4. Unheld(g)' => Unheld(g)
      BY <2>1 DEF Unheld
    <2>5. CASE subscribers[g] # Absent
      <3>1. Ends(p)
        BY <1>1, <1>6, <2>5, CallEffects DEF Insert, CallSteps
      <3>2. Unheld(g)' => handlers'[g] = "absent" /\ Settled(g)'
        BY <2>1, <2>3, <2>5 DEF Resubscribing, Settled
      <3>3. Justified'
        BY <1>1, <1>2, <1>3, <2>1, <2>2, <3>1, <3>2, EndsJustified DEF Own, At
      <3> QED
        BY <2>1, <3>1, <3>3, EndsShape
    <2>6. CASE subscribers[g] = Absent
      <3>1. PICK s \in {"update", "register"} : Follow(s) /\ (s = "update" => call[p].found)
        BY <1>1, <1>6, <2>6, CallEffects DEF Insert, CallSteps
      <3>2. Unheld(g)' =>
              /\ call[p].found => handlers'[g] = "absent"
              /\ handlers'[g] = "absent" \/ (p = EventThread /\ handlers'[g] = "busy")
        BY <1>2, <2>1, <2>3, <2>4 DEF Resubscribing, At
      <3>3. Subscribing(p, g)
        BY <1>2, <2>1 DEF At
      <3>4. s \notin EarlySteps /\ s \in LateSteps /\ s # "dropHandler" /\ s \in CallSteps \ {"idle"}
        BY DEF EarlySteps, LateSteps, CallSteps
      <3>5. Justified'
        BY <1>1, <2>1, <2>2, <3>1, <3>2, <3>3, <3>4, FollowsJustified
      <3> QED
        BY <2>1, <3>1, <3>4, <3>5, FollowsShape
    <2> QED
      BY <2>5, <2>6
  <1>7. ASSUME CheckId(p), call[p].op = "subscribe", call[p].step \in {"update", "confirm"},
               UNCHANGED <<handlers, loop, held, excused>>, \A h \in Ids \ {g} : Shrinks(h),
               Unheld(g) => call[p].found \/ g = NullHandle \/ ~Ends(p)
        PROVE  CallShape' /\ Justified'
    <2>1. Subscribing(p, g) /\ (Unheld(g)' <=> Unheld(g))
      BY <1>2, <1>7 DEF Unheld, LateSteps
    <2>2. CASE g = NullHandle
      <3>1. Ends(p)
        BY <1>1, <1>7, <2>2, CallEffects DEF CheckId, CallSteps
      <3>2. handlers'[g] = "absent" /\ Settled(g)'
        BY <1>7, <2>2 DEF Justified, NullBare, Settled
      <3>3. Justified'
        BY <1>3, <1>7, <2>1, <3>1, <3>2, EndsJustified DEF Own
      <3> QED
        BY <1>7, <3>1, <3>3, EndsShape
    <2>3. CASE g # NullHandle
      <3>1. Follow("addHandler")
        BY <1>1, <1>7, <2>3, CallEffects DEF CheckId, CallSteps
      <3>2. Unheld(g)' =>
              /\ call[p].found => handlers'[g] = "absent"
              /\ handlers'[g] = "absent" \/ (p = EventThread /\ handlers'[g] = "busy")
        BY <1>2, <1>7, <2>1 DEF LateSteps
      <3>3. Justified'
        BY <1>1, <1>7, <2>1, <3>1, <3>2, FollowsJustified DEF EarlySteps, CallSteps
      <3> QED
        BY <1>1, <1>7, <2>3, <3>1, <3>3, FollowsShape DEF CallSteps
    <2> QED
      BY <2>2, <2>3
  <1>8. CASE Update(p)
    <2>1. /\ call[p].op = "subscribe" /\ call[p].step = "update" /\ call[p].found
          /\ (\A h \in Ids : Shrinks(h)) /\ UNCHANGED <<subscribers, handlers, loop, held, excused>>
      BY <1>8 DEF Update, CallShape, At, LateSteps, Shrinks, tables, history
    <2>2. CASE g \in monitored
      BY <1>1, <1>7, <1>8, <2>1, <2>2 DEF Update
    <2>3. CASE g \notin monitored
      <3>1. Ends(p)
        BY <1>1, <1>8, <2>3, CallEffects DEF Update, CallSteps
      <3>2. Unheld(g)' => handlers'[g] = "absent" /\ Settled(g)'
        BY <1>2, <2>1 DEF Unheld, LateSteps, Settled
      <3>3. Justified'
        BY <1>3, <2>1, <3>1, <3>2, EndsJustified
      <3> QED
        BY <2>1, <3>1, <3>3, EndsShape
    <2> QED
      BY <2>2, <2>3
  <1>9. CASE Register(p)
    <2>1. /\ call[p].op = "subscribe" /\ call[p].step = "register"
          /\ (\A h \in Ids : Shrinks(h)) /\ UNCHANGED <<handlers, loop, held, excused>>
      BY <1>9 DEF Register, CallShape, At, LateSteps, Shrinks, tables, history
    <2>2. PICK s \in {"confirm", "rollback"} : Follow(s)
      BY <1>1, <1>9, CallEffects DEF Register, CallSteps
    <2>3. Unheld(g)' =>
            /\ call[p].found => handlers'[g] = "absent"
            /\ handlers'[g] = "absent" \/ (p = EventThread /\ handlers'[g] = "busy")
      BY <1>2, <2>1 DEF Unheld, LateSteps
    <2>4. s \notin EarlySteps /\ s \in LateSteps /\ s \notin {"dropHandler", "addHandler", "update"}
          /\ s \in CallSteps \ {"idle"}
      BY DEF EarlySteps, LateSteps, CallSteps
    <2>5. Justified'
      BY <1>1, <2>1, <2>2, <2>3, <2>4, FollowsJustified
    <2> QED
      BY <2>1, <2>2, <2>4, <2>5, FollowsShape
  <1>10. CASE Confirm(p)
    <2>1. /\ call[p].op = "subscribe" /\ call[p].step = "confirm" /\ CheckId(p)
          /\ UNCHANGED <<handlers, loop, held, excused>>
      BY <1>10 DEF Confirm, CallShape, At, LateSteps, history
    <2>2. \A h \in Ids \ {g} : Shrinks(h)
      BY <1>1, <1>10 DEF Confirm, Store, Shrinks, TypeOK
    <2>3. g # NullHandle => ~Ends(p)
      <3> SUFFICES ASSUME g # NullHandle PROVE ~Ends(p)
        OBVIOUS
      <3>1. Follow("addHandler")
        BY <1>1, <2>1, CallEffects DEF CheckId, CallSteps
      <3> QED
        BY <3>1 DEF Follows, Ends, NoCall
    <2> QED
      BY <1>7, <2>1, <2>2, <2>3
  <1>11. CASE Rollback(p)
    <2>1. /\ call[p].op = "subscribe" /\ call[p].step = "rollback"
          /\ UNCHANGED <<handlers, loop, held, excused>>
      BY <1>11 DEF Rollback, CallShape, At, LateSteps, history
    <2>2. (\A h \in Ids : Shrinks(h)) /\ subscribers'[g] = Absent
      BY <1>1, <1>11 DEF Rollback, Store, Shrinks, TypeOK
    <2>3. Ends(p)
      BY <1>1, <1>11, CallEffects DEF Rollback, CallSteps
    <2>4. Unheld(g)' => handlers'[g] = "absent" \/ (p = EventThread /\ handlers'[g] = "busy")
      BY <1>2, <2>1 DEF Unheld, LateSteps
    <2>5. Unheld(g)' => Settled(g)' /\ (loop.step = "mark" => handlers'[g] = "absent")
      BY <2>1, <2>2, <2>4, AtMark DEF Settled, ClientOps
    <2>6. Justified'
      BY <1>3, <2>1, <2>2, <2>3, <2>5, EndsJustified
    <2> QED
      BY <2>1, <2>3, <2>6, EndsShape
  <1>12. CASE AddHandler(p)
    <2>1. /\ call[p].op = "subscribe" /\ call[p].step = "addHandler" /\ g # NullHandle
          /\ UNCHANGED <<subscribers, loop, excused>> /\ held' = held \cup {g}
      BY <1>1, <1>12 DEF AddHandler, CallShape, At, LateSteps
    <2>2. \A h \in Ids \ {g} : Shrinks(h)
      BY <1>1, <1>12 DEF AddHandler, Shrinks, TypeOK
    <2>3. Ends(p)
      BY <1>1, <1>12, CallEffects DEF AddHandler, CallSteps
    <2>4. ~Unheld(g)' /\ Own(p, g)
      BY <1>2, <2>1 DEF Unheld, LateSteps, Own
    <2>5. Justified'
      BY <1>3, <2>1, <2>2, <2>3, <2>4, EndsJustified
    <2> QED
      BY <2>1, <2>3, <2>5, EndsShape
  <1> QED
    BY <1>4, <1>5, <1>6, <1>8, <1>9, <1>10, <1>11, <1>12 DEF SubscribeStep

LEMMA UnsubscribeService ==
    ASSUME IInv, CallShape, Justified, NEW p \in Callers, UnsubscribeStep(p)
    PROVE  CallShape' /\ Justified'
  <1> DEFINE Follow(s) == Follows(p, s) /\ call'[p].found = call[p].found
  <1>0. PICK g \in Ids : call[p].handle = g
    BY DEF IInv, TypeOK, Calls
  <1>1. TypeOK /\ call[p].handle = g
    BY <1>0 DEF IInv
  <1>2. /\ call[p].op = "unsubscribe"
        /\ \A h \in Ids : ~Subscribing(p, h) /\ (Own(p, h) <=> h = g) /\ (Unsubscribing(p, h) <=> h = g)
    BY <1>0 DEF UnsubscribeStep, Find, Unregister, RemoveMapping, DropHandler, CallShape, At,
        Own, Subscribing, Unsubscribing
  <1>3. Unheld(g) => ~Granted(g)
    <2> SUFFICES ASSUME NEW q \in Callers, Subscribing(q, g) PROVE FALSE
      BY DEF Unheld, Granted
    <2>1. q = p
      BY <1>1, <1>2 DEF Subscribing, Justified, OneAtATime, ClientOps
    <2> QED
      BY <1>2, <2>1 DEF Subscribing
  <1>4. Unheld(g) /\ loop.step = "mark" /\ loop.handle = g => handlers[g] = "absent"
    BY <1>3 DEF Justified, MarkJustified
  <1>5. CASE Find(p)
    <2>1. (\A h \in Ids : Shrinks(h)) /\ UNCHANGED <<subscribers, handlers, loop, held, excused>>
      BY <1>5 DEF Find, Shrinks, tables, history
    <2>2. CASE subscribers[g] = Absent
      <3>1. Ends(p)
        BY <1>1, <1>5, <2>2, CallEffects DEF Find, CallSteps
      <3>2. Settled(g)' /\ (Unheld(g)' => Unheld(g))
        BY <2>1, <2>2 DEF Settled, Unheld
      <3>3. Justified'
        BY <1>2, <1>4, <2>1, <3>1, <3>2, EndsJustified
      <3> QED
        BY <2>1, <3>1, <3>3, EndsShape
    <2>3. CASE subscribers[g] # Absent
      <3>1. PICK s \in {"unregister", "remove"} : Follow(s)
        BY <1>1, <1>5, <2>3, CallEffects DEF Find, CallSteps
      <3>2. Justified'
        BY <1>2, <2>1, <3>1, FollowsJustified DEF CallSteps
      <3> QED
        BY <1>2, <2>1, <3>1, <3>2, FollowsShape DEF CallSteps, LateSteps
    <2> QED
      BY <2>2, <2>3
  <1>6. CASE Unregister(p)
    <2>1. (\A h \in Ids : Shrinks(h)) /\ UNCHANGED <<loop, held, excused>>
      BY <1>6 DEF Unregister, Shrinks, tables, history
    <2>2. Follow("remove")
      BY <1>1, <1>6, CallEffects DEF Unregister, CallSteps
    <2>3. Justified'
      BY <1>2, <2>1, <2>2, FollowsJustified DEF CallSteps
    <2> QED
      BY <1>2, <2>1, <2>2, <2>3, FollowsShape DEF CallSteps, LateSteps
  <1>7. CASE RemoveMapping(p)
    <2>1. /\ (\A h \in Ids : Shrinks(h)) /\ UNCHANGED <<loop, held, excused>>
          /\ subscribers'[g] = Absent
      BY <1>1, <1>7 DEF RemoveMapping, Store, Shrinks, TypeOK, history
    <2>2. Follow("dropHandler")
      BY <1>1, <1>7, CallEffects DEF RemoveMapping, CallSteps
    <2>3. Justified'
      BY <1>2, <2>1, <2>2, FollowsJustified DEF CallSteps
    <2> QED
      BY <1>2, <2>1, <2>2, <2>3, FollowsShape DEF CallSteps, LateSteps
  <1>8. CASE DropHandler(p)
    <2>1. /\ (\A h \in Ids : Shrinks(h)) /\ UNCHANGED <<subscribers, loop, excused>>
          /\ held' = held \ {g} /\ At(p, "dropHandler")
      BY <1>1, <1>8 DEF DropHandler, Removed, Shrinks, TypeOK
    <2>2. Ends(p)
      BY <1>1, <1>8, CallEffects DEF DropHandler, CallSteps
    <2>3. Unheld(g)' => Settled(g)'
      BY <1>2, <2>1 DEF Justified, AboutToDrop, Unheld, Settled
    <2>4. loop.step = "mark" => handlers'[g] = "absent"
      BY <1>1, <1>8, AtMark DEF DropHandler, Removed, TypeOK
    <2>5. Justified'
      BY <1>2, <2>1, <2>2, <2>3, <2>4, EndsJustified
    <2> QED
      BY <2>1, <2>2, <2>5, EndsShape
  <1> QED
    BY <1>5, <1>6, <1>7, <1>8 DEF UnsubscribeStep

\* A client or a handler enters a call, about a handle that no call is about.
LEMMA EntryService ==
    ASSUME Disciplined, IInv, CallShape, Justified, NEW p \in Callers,
           NEW kind \in {"subscribe", "unsubscribe"}, NEW g \in Handles, Call(p, kind, g)
    PROVE  CallShape' /\ Justified'
  <1>1. /\ \A q \in Callers \ {p} : call'[q] = call[q]
        /\ call'[p].op = kind /\ call'[p].handle = g /\ call'[p].step = "cleanup"
        /\ ~call'[p].found
    BY DEF IInv, TypeOK, Call, NoCall
  <1>2. /\ call[p].op = "none" /\ Quiet(g) /\ g \in Ids
        /\ p = EventThread => loop.step = "handling"
        /\ UNCHANGED <<subscribers, handlers, loop, held, excused>>
    BY DEF Call, CallShape, At, tables, history, Ids
  <1>3. CallShape'
    BY <1>1, <1>2 DEF CallShape, At, LateSteps
  <1>4. \A q \in Callers, h \in Ids :
            /\ Subscribing(q, h)' => Subscribing(q, h) \/ (q = p /\ h = g)
            /\ Subscribing(q, h) => Subscribing(q, h)'
            /\ Unsubscribing(q, h)' => Unsubscribing(q, h) \/ (q = p /\ h = g)
    BY <1>1, <1>2 DEF Subscribing, Unsubscribing
  <1>5. \A h \in Ids : /\ Unheld(h)' <=> Unheld(h)
                       /\ Settled(h)' <=> Settled(h)
                       /\ Granted(h) => Granted(h)'
    BY <1>2, <1>4 DEF Unheld, Settled, Granted
  <1>6. OneAtATime'
    BY <1>1, <1>2 DEF Justified, OneAtATime, Quiet, Subscribing, Unsubscribing, ClientOps
  <1>7. ExpiringExcused' /\ NullBare' /\ Unserved'
    BY <1>2, <1>5 DEF Justified, ExpiringExcused, NullBare, Unserved
  <1>8. MarkJustified'
    <2>1. loop.handle \in Ids
      BY DEF IInv, TypeOK, Events
    <2> QED
      BY <1>2, <1>5, <2>1 DEF Justified, MarkJustified
  <1>9. SubscribeKeeps'
    <2>1. Unheld(g) => Settled(g)
      BY <1>2 DEF Justified, Unserved, Unheld, Granted, Quiet
    <2> SUFFICES ASSUME NEW q \in Callers, NEW h \in Ids, Subscribing(q, h)', Unheld(h)
                 PROVE  /\ call'[q].step \in EarlySteps => Settled(h)
                        /\ call'[q].found => handlers[h] = "absent"
                        /\ call'[q].step \in LateSteps =>
                              handlers[h] = "absent" \/ (q = EventThread /\ handlers[h] = "busy")
      BY <1>2, <1>5 DEF SubscribeKeeps
    <2>2. CASE q = p
      BY <1>1, <2>1, <2>2 DEF Subscribing, LateSteps
    <2>3. CASE q # p
      BY <1>1, <1>4, <2>3 DEF Justified, SubscribeKeeps
    <2> QED
      BY <2>2, <2>3
  <1>10. AboutToDrop'
    BY <1>1, <1>2, <1>4 DEF Justified, AboutToDrop, At
  <1> QED
    BY <1>3, <1>6, <1>7, <1>8, <1>9, <1>10 DEF Justified

\* Steps that touch neither the tables nor a call nor the event loop.
LEMMA ElsewhereService ==
    ASSUME IInv, CallShape, Justified, UNCHANGED <<subscribers, handlers, call, loop, held, excused>>
    PROVE  CallShape' /\ Justified'
  <1>1. CallShape'
    BY DEF CallShape, At
  <1>2. OneAtATime' /\ ExpiringExcused' /\ NullBare'
    BY DEF Justified, OneAtATime, ExpiringExcused, NullBare
  <1>3. Unserved' /\ MarkJustified'
    BY DEF Justified, Unserved, MarkJustified, Granted, Settled, Subscribing
  <1>4. SubscribeKeeps' /\ AboutToDrop'
    BY DEF Justified, SubscribeKeeps, AboutToDrop, Subscribing, Unsubscribing, Unheld, Settled,
           At
  <1> QED
    BY <1>1, <1>2, <1>3, <1>4 DEF Justified

\* Steps of the event-processing thread.  A mark turns an unmarked handler into
\* a busy one, on a handle that MarkJustified says is granted.
LEMMA LoopService ==
    ASSUME IInv, CallShape, Justified, LoopStep
    PROVE  CallShape' /\ Justified'
  <1>1. TypeOK /\ loop \in Events /\ loop.handle \in Ids /\ EventThread \in Callers
    BY DEF IInv, TypeOK, Events, Callers
  <1>2. PICK g \in Ids : loop.handle = g
    BY <1>1
  <1>3. At(EventThread, "idle") /\ call[EventThread].op = "none"
    BY <1>1 DEF LoopStep, Pop, LoopLookup, Mark, ExpireUnhandled, HandleEvent, ExpireInvalid,
        Finish, LoopTail, LoopAt, CallShape
  <1>4. ASSUME UNCHANGED call PROVE CallShape'
    BY <1>3, <1>4 DEF CallShape, At, ClientOps
  <1>5. ASSUME UNCHANGED <<call, held>>, excused \subseteq excused'
        PROVE  /\ OneAtATime'
               /\ \A h : /\ Granted(h) => Granted(h)'
                         /\ Unheld(h)' => Unheld(h)
                         /\ \A q : Subscribing(q, h)' <=> Subscribing(q, h)
                         /\ \A q : Unsubscribing(q, h)' <=> Unsubscribing(q, h)
    BY <1>5 DEF Justified, OneAtATime, Granted, Unheld, Subscribing, Unsubscribing
  <1>6. ASSUME UNCHANGED <<call, held, subscribers, handlers>>, excused \subseteq excused'
        PROVE  Unserved' /\ SubscribeKeeps' /\ AboutToDrop' /\ NullBare'
    <2>1. \A h : Settled(h)' <=> Settled(h)
      BY <1>6 DEF Settled
    <2>2. Unserved' /\ NullBare'
      BY <1>5, <1>6, <2>1 DEF Justified, Unserved, NullBare
    <2>3. SubscribeKeeps' /\ AboutToDrop'
      BY <1>5, <1>6, <2>1 DEF Justified, SubscribeKeeps, AboutToDrop, At
    <2> QED
      BY <2>2, <2>3
  <1>7. CASE Pop
    <2>1. UNCHANGED <<call, held, excused, subscribers, handlers>> /\ loop'.step = "lookup"
      BY <1>7 DEF Pop, NoEvent, tables, history
    <2> QED
      BY <1>4, <1>5, <1>6, <2>1 DEF Justified, ExpiringExcused, MarkJustified
  <1>8. CASE LoopLookup
    <2>1. UNCHANGED <<call, held, excused, subscribers, handlers>>
      BY <1>8 DEF LoopLookup, tables, history
    <2>2. loop'.step \in {"mark", "tail"} /\ loop'.handle = g
      BY <1>1, <1>2, <1>8 DEF LoopLookup, LoopGoto, Events
    <2>3. loop'.step = "mark" => subscribers[g] # Absent
      BY <1>1, <1>2, <1>8 DEF LoopLookup, LoopGoto, Servable, Events
    <2>4. MarkJustified'
      BY <1>5, <2>1, <2>2, <2>3 DEF MarkJustified, Justified, Unserved, Settled
    <2> QED
      BY <1>4, <1>5, <1>6, <2>1, <2>2, <2>4 DEF Justified, ExpiringExcused
  <1>9. CASE Mark
    <2>1. CASE HasHandler(g)
      <3>1. /\ UNCHANGED <<call, held, excused, subscribers>> /\ loop.step = "mark"
            /\ loop'.step = "handling" /\ handlers' = [handlers EXCEPT ![g] = "busy"]
        BY <1>1, <1>2, <1>9, <2>1 DEF Mark, LoopAt, LoopGoto, Events
      <3>2. Granted(g) /\ handlers[g] # "absent"
        BY <1>2, <2>1, <3>1 DEF HasHandler, Justified, MarkJustified
      <3>3. \A h \in Ids : h # g => handlers'[h] = handlers[h]
        BY <1>1, <3>1 DEF TypeOK
      <3>4. Unserved'
        BY <1>5, <3>1, <3>2, <3>3 DEF Justified, Unserved, Settled
      <3>5. NullBare' /\ ExpiringExcused' /\ MarkJustified'
        BY <3>1, <3>2, <3>3 DEF Justified, NullBare, ExpiringExcused, MarkJustified, Ids
      <3>6. SubscribeKeeps'
        <4> SUFFICES ASSUME NEW q \in Callers, NEW h \in Ids, Subscribing(q, h), Unheld(h)
                     PROVE  /\ call[q].step \in EarlySteps => Settled(h)'
                            /\ call[q].found => handlers'[h] = "absent"
                            /\ call[q].step \in LateSteps =>
                                 handlers'[h] = "absent" \/ (q = EventThread /\ handlers'[h] = "busy")
          BY <1>5, <3>1 DEF SubscribeKeeps
        <4>1. q # EventThread
          BY <1>3 DEF Subscribing
        <4>2. /\ call[q].step \in EarlySteps => Settled(h)
              /\ call[q].found => handlers[h] = "absent"
              /\ call[q].step \in LateSteps => handlers[h] = "absent"
          BY <4>1 DEF Justified, SubscribeKeeps
        <4> QED
          BY <3>1, <3>2, <3>3, <4>2 DEF Settled
      <3>7. AboutToDrop'
        BY <1>5, <3>1 DEF Justified, AboutToDrop, At
      <3> QED
        BY <1>4, <1>5, <3>1, <3>4, <3>5, <3>6, <3>7 DEF Justified
    <2>2. CASE ~HasHandler(g)
      <3>1. /\ UNCHANGED <<call, held, subscribers, handlers>>
            /\ excused' = excused \cup {g}
            /\ loop'.step = "expire" /\ loop'.handle = g
        BY <1>1, <1>2, <1>9, <2>2 DEF Mark, LoopGoto, Events
      <3>2. ExpiringExcused' /\ MarkJustified'
        BY <3>1 DEF ExpiringExcused, MarkJustified
      <3> QED
        BY <1>4, <1>5, <1>6, <3>1, <3>2 DEF Justified
    <2> QED
      BY <2>1, <2>2
  <1>10. ASSUME WriteBack, g \in excused, loop'.step \in {"pop", "finish"} PROVE CallShape' /\ Justified'
    <2>1. /\ UNCHANGED <<handlers, call, held, excused>>
          /\ \A h \in Ids : h # g => subscribers'[h] = subscribers[h]
      BY <1>1, <1>2, <1>10 DEF WriteBack, Store, TypeOK, history
    <2>2. \A h \in Ids : Settled(h)' \/ ~Settled(h) \/ h = g
      BY <2>1 DEF Settled
    <2>3. Granted(g)' /\ ~Unheld(g)'
      BY <1>10, <2>1 DEF Granted, Unheld
    <2>4. Unserved' /\ NullBare' /\ ExpiringExcused' /\ MarkJustified'
      BY <1>5, <1>10, <2>1, <2>2, <2>3 DEF Justified, Unserved, NullBare, ExpiringExcused,
                                           MarkJustified
    <2>5. SubscribeKeeps'
      BY <1>5, <2>1, <2>2, <2>3 DEF Justified, SubscribeKeeps
    <2>6. AboutToDrop'
      BY <1>5, <1>10, <2>1 DEF Justified, AboutToDrop, At
    <2> QED
      BY <1>4, <1>5, <2>1, <2>4, <2>5, <2>6 DEF Justified
  <1>11. CASE ExpireUnhandled
    <2>1. WriteBack /\ loop.step = "expire" /\ loop'.step = "pop"
      BY <1>11 DEF ExpireUnhandled, LoopAt, NoEvent
    <2> QED
      BY <1>2, <1>10, <2>1 DEF Justified, ExpiringExcused
  <1>12. CASE HandleEvent
    <2>1. /\ UNCHANGED <<call, held, subscribers, handlers>> /\ excused \subseteq excused'
          /\ loop.step = "handling" /\ loop'.handle = g
          /\ loop'.step \in {"handling", "finish", "invalid"}
          /\ loop'.step = "invalid" => g \in excused'
      <3>1. CASE loop' = [loop EXCEPT !.left = @ - 1, !.step = IF LastEvent THEN "finish" ELSE @]
                 /\ UNCHANGED excused
        BY <1>1, <1>2, <1>12, <3>1 DEF HandleEvent, LoopAt, Events, tables
      <3>2. CASE LoopGoto("invalid") /\ excused' = excused \cup {loop.handle}
        BY <1>1, <1>2, <1>12, <3>2 DEF HandleEvent, LoopAt, LoopGoto, Events, tables
      <3> QED
        BY <1>12, <3>1, <3>2 DEF HandleEvent
    <2>2. ExpiringExcused' /\ MarkJustified'
      BY <2>1 DEF ExpiringExcused, MarkJustified
    <2> QED
      BY <1>4, <1>5, <1>6, <2>1, <2>2 DEF Justified
  <1>13. CASE ExpireInvalid
    <2>1. WriteBack /\ loop.step = "invalid" /\ loop'.step = "finish"
      BY <1>1, <1>13 DEF ExpireInvalid, LoopAt, LoopGoto, Events
    <2> QED
      BY <1>2, <1>10, <2>1 DEF Justified, ExpiringExcused
  <1>14. CASE Finish
    <2>1. /\ UNCHANGED <<call, held, excused, subscribers>> /\ loop.step = "finish"
          /\ loop'.step = "tail" /\ handlers' = [handlers EXCEPT ![g] = "idle"]
      BY <1>1, <1>2, <1>14 DEF Finish, LoopAt, LoopGoto, Events, history
    <2>2. handlers[g] = "busy"
      BY <1>2, <2>1 DEF IInv, HandlerPinned, Dispatching
    <2>3. \A h \in Ids : (handlers'[h] = "absent" <=> handlers[h] = "absent")
      BY <1>1, <2>1, <2>2 DEF TypeOK
    <2>4. \A h \in Ids : Settled(h)' <=> Settled(h)
      BY <2>1, <2>3 DEF Settled
    <2>5. Unserved' /\ NullBare' /\ ExpiringExcused' /\ MarkJustified'
      BY <1>5, <2>1, <2>3, <2>4 DEF Justified, Unserved, NullBare, ExpiringExcused,
                                    MarkJustified, Ids
    <2>6. SubscribeKeeps'
      <3>1. \A q \in Callers, h \in Ids : Subscribing(q, h) => q # EventThread
        BY <1>3 DEF Subscribing
      <3> QED
        BY <1>5, <2>1, <2>3, <2>4, <3>1 DEF Justified, SubscribeKeeps
    <2>7. AboutToDrop'
      BY <1>5, <2>1 DEF Justified, AboutToDrop, At
    <2> QED
      BY <1>4, <1>5, <2>1, <2>5, <2>6, <2>7 DEF Justified
  <1>15. CASE LoopTail
    <2>1. /\ UNCHANGED <<subscribers, handlers, held, excused>> /\ loop'.step = "pop"
          /\ \A q \in Callers : q # EventThread => call'[q] = call[q]
          /\ call'[EventThread].op \in {"none", "cleanupExpired"}
          /\ call'[EventThread].step \in {"idle", "cleanup"}
          /\ call'[EventThread].step = "idle" => call'[EventThread].op = "none"
      BY <1>1, <1>3, <1>15 DEF LoopTail, NoEvent, NoCall, tables, history, TypeOK, At
    <2>2. CallShape'
      BY <2>1 DEF CallShape, At, LateSteps, ClientOps
    <2>3. OneAtATime' /\ ExpiringExcused' /\ MarkJustified' /\ NullBare'
      BY <2>1 DEF Justified, OneAtATime, ExpiringExcused, MarkJustified, NullBare, ClientOps
    <2>4. \A h \in Ids, q \in Callers :
              /\ Subscribing(q, h)' <=> Subscribing(q, h)
              /\ Unsubscribing(q, h)' <=> Unsubscribing(q, h)
              /\ Own(q, h) => call'[q] = call[q]
      BY <1>3, <2>1 DEF Own, Subscribing, Unsubscribing
    <2>5. \A h \in Ids : (Unheld(h)' <=> Unheld(h)) /\ (Granted(h) => Granted(h)') /\ (Settled(h)' <=> Settled(h))
      BY <2>1, <2>4 DEF Unheld, Granted, Settled
    <2>6. Unserved' /\ SubscribeKeeps' /\ AboutToDrop'
      BY <2>1, <2>4, <2>5 DEF Justified, Unserved, SubscribeKeeps, AboutToDrop, At, Own
    <2> QED
      BY <2>2, <2>3, <2>6 DEF Justified
  <1> QED
    BY <1>7, <1>8, <1>9, <1>11, <1>12, <1>13, <1>14, <1>15 DEF LoopStep

-----------------------------------------------------------------------------
(* The invariant. *)

LEMMA InitService == Init => SInv
  <1> SUFFICES ASSUME Init PROVE SInv
    OBVIOUS
  <1>1. IInv
    BY InitInv
  <1>2. /\ \A p \in Callers : call[p].op = "none" /\ call[p].step = "idle"
        /\ \A h \in Ids : subscribers[h] = Absent /\ handlers[h] = "absent"
        /\ loop.step = "pop"
    BY DEF Init, NoCall, NoEvent
  <1>3. CallShape
    BY <1>2 DEF CallShape, At, LateSteps, ClientOps
  <1>4. Justified
    BY <1>2 DEF Justified, OneAtATime, ExpiringExcused, Unserved, Settled, MarkJustified,
        SubscribeKeeps, Subscribing, AboutToDrop, Unsubscribing, NullBare, ClientOps, Ids
  <1> QED
    BY <1>1, <1>3, <1>4 DEF SInv

LEMMA NextService == Disciplined /\ SInv /\ [Next]_vars => SInv'
  <1> SUFFICES ASSUME Disciplined, SInv, [Next]_vars PROVE SInv'
    OBVIOUS
  <1>1. IInv /\ CallShape /\ Justified
    BY DEF SInv
  <1>2. IInv'
    BY <1>1, NextInv
  <1>3. ASSUME NEW p \in Callers, CallStep(p) PROVE CallShape' /\ Justified'
    BY <1>1, <1>3, CleanupService, SubscribeService, UnsubscribeService DEF CallStep
  <1>4. ASSUME NEW p \in Callers, NEW kind \in {"subscribe", "unsubscribe"}, NEW h \in Handles,
               Call(p, kind, h)
        PROVE  CallShape' /\ Justified'
    BY <1>1, <1>4, EntryService
  <1>5. ASSUME LoopStep PROVE CallShape' /\ Justified'
    BY <1>1, <1>5, LoopService
  <1>6. ASSUME UNCHANGED <<subscribers, handlers, call, loop, held, excused>>
        PROVE  CallShape' /\ Justified'
    BY <1>1, <1>6, ElsewhereService
  <1>7. ASSUME NEW ready \in SUBSET monitored, EpollWait(ready) PROVE CallShape' /\ Justified'
    BY <1>6, <1>7 DEF EpollWait, tables, history
  <1>8. ASSUME MonitorStep PROVE CallShape' /\ Justified'
    BY <1>6, <1>8 DEF MonitorStep, PushNotification, tables, history
  <1>9. ASSUME Idle \/ UNCHANGED vars PROVE CallShape' /\ Justified'
    BY <1>6, <1>9 DEF Idle, vars, tables, history
  <1>10. CallShape' /\ Justified'
    BY <1>3, <1>4, <1>5, <1>7, <1>8, <1>9 DEF Next
  <1> QED
    BY <1>2, <1>10 DEF SInv

-----------------------------------------------------------------------------
(* The refinement. *)

\* What a step of a call leaves alone.
LEMMA CallLocality ==
    ASSUME TypeOK, NEW p \in Callers, CallStep(p)
    PROVE  /\ UNCHANGED loop
           /\ \A q \in Callers \ {p} : call'[q] = call[q]
           /\ \/ call'[p] = NoCall
              \/ call'[p].op = call[p].op /\ call'[p].handle = call[p].handle
           /\ \A h \in Ids \ {call[p].handle} :
                 (h \in held' <=> h \in held) /\ (h \in excused' <=> h \in excused)
  <1>1. (\E s \in CallSteps : Follows(p, s)) \/ Ends(p)
    <2>1. CASE CleanupStep(p)
      <3>1. CASE \E h \in Ids : CleanupVisit(p, h) \/ CleanupErase(p, h)
        BY <3>1, CallEffects DEF CleanupVisit, CleanupErase, At, CallSteps
      <3>2. CASE CleanupBegin(p)
        BY <3>2, CallEffects DEF CleanupBegin, CallSteps
      <3>3. CASE CleanupUnlock(p) \/ CleanupIterate(p) \/ CleanupDone(p)
        BY <3>3, CallEffects DEF CleanupUnlock, CleanupIterate, CleanupDone, CallSteps
      <3> QED
        BY <2>1, <3>1, <3>2, <3>3 DEF CleanupStep
    <2>2. CASE SubscribeStep(p)
      <3>1. CASE Lookup(p)
        BY <3>1, CallEffects DEF Lookup, CallSteps
      <3>2. CASE CheckBusy(p) \/ Insert(p) \/ Register(p) \/ Rollback(p) \/ AddHandler(p)
        BY <3>2, CallEffects DEF CheckBusy, Insert, Register, Rollback, AddHandler, CallSteps
      <3>3. CASE Update(p) \/ Confirm(p)
        BY <3>3, CallEffects DEF Update, Confirm, CheckId, CallSteps
      <3> QED
        BY <2>2, <3>1, <3>2, <3>3 DEF SubscribeStep
    <2>3. CASE UnsubscribeStep(p)
      BY <2>3, CallEffects DEF UnsubscribeStep, Find, Unregister, RemoveMapping, DropHandler,
                               CallSteps
    <2> QED
      BY <2>1, <2>2, <2>3 DEF CallStep
  <1>2. /\ UNCHANGED loop
        /\ \A h \in Ids \ {call[p].handle} :
              (h \in held' <=> h \in held) /\ (h \in excused' <=> h \in excused)
    BY DEF CallStep, CleanupStep, CleanupBegin, CleanupVisit, CleanupUnlock, CleanupIterate,
           CleanupErase,
        CleanupDone, SubscribeStep, Lookup, CheckBusy, Insert, Update, Register, Confirm, Rollback,
        AddHandler, UnsubscribeStep, Find, Unregister, RemoveMapping, DropHandler, history
  <1> QED
    BY <1>1, <1>2 DEF Follows, Ends

\* A step that changes what is served not at all and what is granted for one
\* handle at most is a grant or a withdrawal.
LEMMA OneGrant ==
    ASSUME TypeOK, TypeOK', NEW c \in Ids,
           \A h \in Ids : Dispatching(h)' <=> Dispatching(h),
           \A h \in Ids \ {c} : Granted(h)' <=> Granted(h)
    PROVE  Service!Grant(c) \/ Service!Withdraw(c)
  <1> DEFINE G == held \cup excused \cup {h \in Ids : \E p \in Callers : Subscribing(p, h)}
             S == {h \in Ids : Dispatching(h)}
  <1>1. G \subseteq Ids /\ G' \subseteq Ids
    BY DEF TypeOK
  <1>2. \A h \in Ids : (h \in G <=> Granted(h)) /\ (h \in G' <=> Granted(h)')
    BY DEF Granted
  <1>3. G' = G \cup {c} \/ G' = G \ {c}
    <2> HIDE DEF G
    <2>1. CASE c \in G'
      BY <1>1, <1>2, <2>1
    <2>2. CASE c \notin G'
      BY <1>1, <1>2, <2>2
    <2> QED
      BY <2>1, <2>2
  <1>4. S' = S
    OBVIOUS
  <1> QED
    BY <1>3, <1>4 DEF Service!Grant, Service!Withdraw

LEMMA StepServes == SInv /\ SInv' /\ [Next]_vars => [Service!Next]_(Service!vars)
  <1> SUFFICES ASSUME SInv, SInv', [Next]_vars PROVE [Service!Next]_(Service!vars)
    OBVIOUS
  <1>1. /\ TypeOK /\ TypeOK' /\ loop \in Events /\ loop' \in Events /\ loop.handle \in Ids
        /\ CallShape /\ MarkJustified /\ HandlerPinned
    BY DEF SInv, IInv, Justified, TypeOK, Events
  <1>2. ASSUME NEW c \in Ids, \A h \in Ids : Dispatching(h)' <=> Dispatching(h),
               \A h \in Ids \ {c} : Granted(h)' <=> Granted(h)
        PROVE  Service!Next
    BY <1>1, <1>2, OneGrant DEF Service!Next
  <1>3. ASSUME UNCHANGED <<call, held, excused>>
        PROVE  /\ \A h : Granted(h)' <=> Granted(h)
               /\ UNCHANGED (held \cup excused \cup {h \in Ids : \E p \in Callers : Subscribing(p, h)})
    BY <1>3 DEF Granted, Subscribing
  <1>4. ASSUME NEW p \in Callers, CallStep(p) PROVE Service!Next
    <2>1. /\ UNCHANGED loop
          /\ \A q \in Callers \ {p} : call'[q] = call[q]
          /\ \/ call'[p] = NoCall
             \/ call'[p].op = call[p].op /\ call'[p].handle = call[p].handle
          /\ \A h \in Ids \ {call[p].handle} :
                (h \in held' <=> h \in held) /\ (h \in excused' <=> h \in excused)
      BY <1>1, <1>4, CallLocality
    <2>2. call[p].handle \in Ids
      BY <1>1 DEF TypeOK, Calls
    <2>3. \A h \in Ids \ {call[p].handle} : Granted(h)' <=> Granted(h)
      BY <2>1 DEF Granted, Subscribing, NoCall
    <2>4. \A h \in Ids : Dispatching(h)' <=> Dispatching(h)
      BY <2>1 DEF Dispatching
    <2> QED
      BY <1>2, <2>2, <2>3, <2>4
  <1>5. ASSUME NEW p \in Callers, NEW kind \in {"subscribe", "unsubscribe"}, NEW g \in Handles,
               Call(p, kind, g)
        PROVE  Service!Next
    <2>1. /\ UNCHANGED <<loop, held, excused>>
          /\ \A q \in Callers \ {p} : call'[q] = call[q]
          /\ call[p].op = "none" /\ call'[p].handle = g
      BY <1>1, <1>5 DEF Call, CallShape, TypeOK, NoCall, history
    <2>2. g \in Ids /\ \A h \in Ids \ {g} : Granted(h)' <=> Granted(h)
      BY <2>1 DEF Granted, Subscribing, Ids
    <2>3. \A h \in Ids : Dispatching(h)' <=> Dispatching(h)
      BY <2>1 DEF Dispatching
    <2> QED
      BY <1>2, <2>2, <2>3
  <1>6. ASSUME UNCHANGED <<call, loop, held, excused>> PROVE UNCHANGED Service!vars
    <2>1. UNCHANGED {h \in Ids : Dispatching(h)}
      BY <1>6 DEF Dispatching
    <2> QED
      BY <1>3, <1>6, <2>1 DEF Service!vars
  <1>7. ASSUME LoopStep PROVE Service!Next
    <2>1. PICK c \in Ids : loop.handle = c
      BY <1>1
    <2>2. ASSUME UNCHANGED <<held, excused>> \/ (held' = held /\ excused' = excused \cup {c}),
                 UNCHANGED call
          PROVE  \A h \in Ids \ {c} : Granted(h)' <=> Granted(h)
      BY <2>2 DEF Granted, Subscribing
    <2>3. CASE Pop \/ LoopLookup \/ ExpireUnhandled
      <3>1. /\ UNCHANGED <<call, held, excused>>
            /\ loop.step \in {"pop", "lookup", "expire"}
            /\ loop'.step \in {"pop", "lookup", "mark", "tail"}
        <4>1. CASE Pop
          BY <4>1 DEF Pop, LoopAt, NoEvent, history
        <4>2. CASE LoopLookup
          BY <1>1, <4>2 DEF LoopLookup, LoopAt, LoopGoto, history, Events
        <4>3. CASE ExpireUnhandled
          BY <4>3 DEF ExpireUnhandled, WriteBack, LoopAt, NoEvent, history
        <4> QED
          BY <2>3, <4>1, <4>2, <4>3
      <3> QED
        BY <1>2, <2>1, <2>2, <3>1 DEF Dispatching
    <2>4. CASE Mark
      <3>1. CASE HasHandler(c)
        <4>1. /\ UNCHANGED <<call, held, excused>> /\ loop.step = "mark"
              /\ loop'.step = "handling" /\ loop'.handle = c
          BY <1>1, <2>1, <2>4, <3>1 DEF Mark, LoopAt, LoopGoto, Events
        <4>2. Granted(c)
          BY <1>1, <2>1, <3>1, <4>1 DEF MarkJustified, HasHandler
        <4>3. c \in held \cup excused \cup {h \in Ids : \E p \in Callers : Subscribing(p, h)}
          BY <2>1, <4>2 DEF Granted
        <4>4. {h \in Ids : Dispatching(h)} = {}
          BY <4>1 DEF Dispatching
        <4>5. {h \in Ids : Dispatching(h)}' = {c}
          BY <2>1, <4>1 DEF Dispatching
        <4> QED
          BY <1>3, <2>1, <4>1, <4>3, <4>4, <4>5 DEF Service!Next, Service!Serve
      <3>2. CASE ~HasHandler(c)
        <4>1. /\ UNCHANGED <<call, held>> /\ excused' = excused \cup {c}
              /\ loop.step = "mark" /\ loop'.step = "expire"
          BY <1>1, <2>1, <2>4, <3>2 DEF Mark, LoopAt, LoopGoto, Events
        <4> QED
          BY <1>2, <2>1, <2>2, <4>1 DEF Dispatching
      <3> QED
        BY <3>1, <3>2
    <2>5. CASE HandleEvent \/ ExpireInvalid
      <3>1. /\ loop'.handle = c /\ loop.step \in {"handling", "invalid"}
            /\ loop'.step \in {"handling", "invalid", "finish"}
            /\ UNCHANGED call /\ held' = held
            /\ excused' = excused \/ excused' = excused \cup {c}
        <4>1. CASE ExpireInvalid
          BY <1>1, <2>1, <4>1 DEF ExpireInvalid, WriteBack, LoopAt, LoopGoto, Events, history
        <4>2. CASE HandleEvent
          <5>1. CASE loop' = [loop EXCEPT !.left = @ - 1, !.step = IF LastEvent THEN "finish" ELSE @]
                     /\ UNCHANGED excused
            BY <1>1, <2>1, <4>2, <5>1 DEF HandleEvent, LoopAt, Events
          <5>2. CASE LoopGoto("invalid") /\ excused' = excused \cup {loop.handle}
            BY <1>1, <2>1, <4>2, <5>2 DEF HandleEvent, LoopAt, LoopGoto, Events
          <5> QED
            BY <4>2, <5>1, <5>2 DEF HandleEvent
        <4> QED
          BY <2>5, <4>1, <4>2
      <3> QED
        BY <1>2, <2>1, <2>2, <3>1 DEF Dispatching
    <2>6. CASE Finish
      <3>1. UNCHANGED <<call, held, excused>> /\ loop'.step = "tail"
        BY <1>1, <2>6 DEF Finish, LoopGoto, Events, history
      <3>2. {h \in Ids : Dispatching(h)}' = {}
        BY <3>1 DEF Dispatching
      <3> QED
        BY <1>3, <3>1, <3>2 DEF Service!Next, Service!Complete
    <2>7. CASE LoopTail
      <3>1. /\ UNCHANGED <<held, excused>> /\ loop.step = "tail" /\ loop'.step = "pop"
            /\ \A q \in Callers : q # EventThread => call'[q] = call[q]
            /\ call[EventThread].op = "none"
            /\ call'[EventThread].op # "subscribe"
        BY <1>1, <2>7 DEF LoopTail, LoopAt, CallShape, At, NoEvent, NoCall, TypeOK, Callers,
                          history
      <3>2. \A h \in Ids : Granted(h)' <=> Granted(h)
        BY <3>1 DEF Granted, Subscribing
      <3> QED
        BY <1>2, <2>1, <3>1, <3>2 DEF Dispatching
    <2> QED
      BY <1>7, <2>3, <2>4, <2>5, <2>6, <2>7 DEF LoopStep
  <1>8. ASSUME NEW ready \in SUBSET monitored, EpollWait(ready) PROVE UNCHANGED Service!vars
    BY <1>6, <1>8 DEF EpollWait, history
  <1>9. ASSUME MonitorStep PROVE UNCHANGED Service!vars
    BY <1>6, <1>9 DEF MonitorStep, PushNotification, history
  <1>10. ASSUME Idle \/ UNCHANGED vars PROVE UNCHANGED Service!vars
    BY <1>6, <1>10 DEF Idle, vars, history
  <1> QED
    BY <1>4, <1>5, <1>7, <1>8, <1>9, <1>10 DEF Next

LEMMA InitServes == Init => Service!Init
  BY DEF Init, Service!Init, NoCall, NoEvent, Subscribing, Dispatching

\* Under the discipline that no two calls about one handle overlap, what the
\* reactor does is what HandlerService promises, for any sets of handles and
\* threads: a dispatch begins only on a granted handle, one at a time.
THEOREM ReactorKeepsItsPromise == ASSUME Disciplined PROVE Spec => KeepsItsPromise
  <1>1. Init => SInv
    BY InitService
  <1>2. SInv /\ [Next]_vars => SInv'
    BY NextService
  <1>3. SInv /\ SInv' /\ [Next]_vars => [Service!Next]_(Service!vars)
    BY StepServes
  <1>4. Init => Service!Init
    BY InitServes
  <1> QED
    BY <1>1, <1>2, <1>3, <1>4, PTL DEF Spec, KeepsItsPromise, Service!Spec


-----------------------------------------------------------------------------
(* What is left in and lost from the tables *)

\* A scan looks only for contexts that it found expirable, and they stay so while it
\* holds the table.
ScanHolds ==
    \A p \in Callers :
        /\ tableLock = p <=> At(p, "scan")
        /\ At(p, "scan") => \A h \in call[p].todo : Expirable(h)

\* Only a handle that a window has hit loses its handler, and then its context, to a cleanup.
RemovedExcused ==
    /\ removedKeys \subseteq excused
    /\ \A p \in Callers : At(p, "erase") => call[p].todo \subseteq excused

\* The context of descriptor 0, whose handler is never added, stays once it is registered.
Watched(h) == subscribers[h] # Absent /\ subscribers[h].registered => h \in monitored

\* With no call about it under way, or before the call's first change.
Resting(h) ==
    IF h \in held THEN InForce(h)
    ELSE IF h = NullHandle THEN Watched(h)
    ELSE subscribers[h] = Absent /\ h \notin monitored

CalmSteps == EarlySteps \cup {"find"}

\* What a call finds of its handle at one of its steps.
Midway(h, step, found) ==
    /\ step \in CalmSteps => Resting(h)
    /\ step \in {"confirm", "unregister"} => h \in monitored
    /\ h = NullHandle /\ step # "remove" => Watched(h)
    /\ h # NullHandle =>
        /\ step # "update"
        /\ step \in CalmSteps /\ found => subscribers[h] # Absent
        /\ step \in {"register", "confirm", "rollback"} =>
              subscribers[h] = Unconfirmed /\ h \notin held
        /\ step \in {"addHandler", "unregister", "remove"} => subscribers[h] = Confirmed
        /\ step = "addHandler" => h \in monitored /\ h \notin held
        /\ step = "dropHandler" => subscribers[h] = Absent
        /\ step \in {"register", "rollback", "remove", "dropHandler"} => h \notin monitored

InOrder ==
    \A h \in Ids \ excused :
        /\ Quiet(h) => Resting(h)
        /\ \A p \in Callers : Own(p, h) => Midway(h, call[p].step, call[p].found)

WInv == ScanHolds /\ RemovedExcused /\ InOrder /\ NullHandle \notin held

Unmoved(h) ==
    /\ subscribers'[h] = subscribers[h]
    /\ h \in monitored' <=> h \in monitored
    /\ h \in held' <=> h \in held
    /\ handlers'[h] = handlers[h] \/ handlers'[h] # "absent"

LEMMA UnmovedKeeps ==
    ASSUME NEW h, Unmoved(h)
    PROVE  /\ Resting(h) => Resting(h)'
           /\ \A step, found : Midway(h, step, found) => Midway(h, step, found)'
  <1>1. Resting(h) => Resting(h)'
    BY DEF Unmoved, Resting, InForce, Watched
  <1> QED
    BY <1>1 DEF Unmoved, Midway, Watched

LEMMA QuietIsUnowned == \A h : Quiet(h) <=> \A p \in Callers : ~Own(p, h)
  BY DEF Quiet, Own

\* A step of p's call: what it does to its own handle has to be said, the others stay.
LEMMA FollowsInOrder ==
    ASSUME Justified, InOrder, NEW p \in Callers, NEW s, Follows(p, s), excused \subseteq excused',
           \A h \in Ids \ excused' : ~Own(p, h) => Unmoved(h),
           \A h \in Ids \ excused' : Own(p, h) => Midway(h, s, call[p].found)'
    PROVE  InOrder'
  <1>1. \A q \in Callers : \A h : Own(q, h)' <=> Own(q, h)
    BY DEF Follows, Own, Subscribing, Unsubscribing
  <1>2. \A h : Quiet(h)' <=> Quiet(h)
    BY <1>1, QuietIsUnowned DEF Quiet, Own
  <1>3. \A q \in Callers : \A h : Own(q, h) /\ Own(p, h) => q = p
    BY DEF Justified, OneAtATime, Own, Subscribing, Unsubscribing, ClientOps
  <1> SUFFICES ASSUME NEW h \in Ids \ excused'
               PROVE  /\ Quiet(h)' => Resting(h)'
                      /\ \A q \in Callers : Own(q, h)' => Midway(h, call[q].step, call[q].found)'
    BY DEF InOrder
  <1>4. CASE Own(p, h)
    <2>1. ~Quiet(h)'
      BY <1>2, <1>4, QuietIsUnowned
    <2>2. Midway(h, call[p].step, call[p].found)'
      BY <1>4 DEF Follows
    <2> QED
      BY <1>1, <1>3, <1>4, <2>1, <2>2
  <1>5. CASE ~Own(p, h)
    <2>1. Unmoved(h) /\ h \notin excused
      BY <1>5
    <2>2. Quiet(h)' => Resting(h)'
      BY <1>2, <2>1, UnmovedKeeps DEF InOrder
    <2>3. ASSUME NEW q \in Callers, Own(q, h)
          PROVE  Midway(h, call[q].step, call[q].found)'
      <3>1. Midway(h, call[q].step, call[q].found)
        BY <2>1, <2>3 DEF InOrder
      <3>2. call'[q] = call[q]
        BY <1>5, <2>3 DEF Follows
      <3>3. PICK step, found : step = call[q].step /\ found = call[q].found
        OBVIOUS
      <3>4. Midway(h, step, found)'
        BY <2>1, <3>1, <3>3, UnmovedKeeps
      <3> QED
        BY <3>2, <3>3, <3>4
    <2> QED
      BY <1>1, <2>2, <2>3
  <1> QED
    BY <1>4, <1>5

\* A call that returns leaves its handle at rest.
LEMMA EndsInOrder ==
    ASSUME Justified, InOrder, NEW p \in Callers, Ends(p), excused \subseteq excused',
           \A h \in Ids \ excused' : ~Own(p, h) => Unmoved(h),
           \A h \in Ids \ excused' : Own(p, h) => Resting(h)'
    PROVE  InOrder'
  <1>1. \A q \in Callers : \A h : Own(q, h)' <=> Own(q, h) /\ q # p
    BY DEF Ends, NoCall, Own, Subscribing, Unsubscribing
  <1>3. \A q \in Callers : \A h : Own(q, h) /\ Own(p, h) => q = p
    BY DEF Justified, OneAtATime, Own, Subscribing, Unsubscribing, ClientOps
  <1> SUFFICES ASSUME NEW h \in Ids \ excused'
               PROVE  /\ Quiet(h)' => Resting(h)'
                      /\ \A q \in Callers : Own(q, h)' => Midway(h, call[q].step, call[q].found)'
    BY DEF InOrder
  <1>4. CASE Own(p, h)
    BY <1>1, <1>3, <1>4
  <1>5. CASE ~Own(p, h)
    <2>1. Unmoved(h) /\ h \notin excused
      BY <1>5
    <2>2. Quiet(h)' => Quiet(h)
      BY <1>1, <1>5 DEF Quiet, Own
    <2>3. Quiet(h)' => Resting(h)'
      BY <2>1, <2>2, UnmovedKeeps DEF InOrder
    <2>4. ASSUME NEW q \in Callers, Own(q, h)'
          PROVE  Midway(h, call[q].step, call[q].found)'
      <3>1. Midway(h, call[q].step, call[q].found)
        BY <1>1, <2>1, <2>4 DEF InOrder
      <3>2. call'[q] = call[q]
        BY <1>1, <2>4 DEF Ends
      <3>3. PICK step, found : step = call[q].step /\ found = call[q].found
        OBVIOUS
      <3>4. Midway(h, step, found)'
        BY <2>1, <3>1, <3>3, UnmovedKeeps
      <3> QED
        BY <3>2, <3>3, <3>4
    <2> QED
      BY <2>3, <2>4
  <1> QED
    BY <1>4, <1>5

\* A step of no client's call.
LEMMA StillInOrder ==
    ASSUME InOrder, excused \subseteq excused', \A h \in Ids \ excused' : Unmoved(h),
           \A q \in Callers : \/ call'[q] = call[q]
                              \/ call[q].op \notin ClientOps /\ call'[q].op \notin ClientOps
    PROVE  InOrder'
  <1>1. \A q \in Callers : \A h : Own(q, h)' <=> Own(q, h)
    BY DEF Own, Subscribing, Unsubscribing, ClientOps
  <1> SUFFICES ASSUME NEW h \in Ids \ excused'
               PROVE  /\ Quiet(h)' => Resting(h)'
                      /\ \A q \in Callers : Own(q, h)' => Midway(h, call[q].step, call[q].found)'
    BY DEF InOrder
  <1>2. Quiet(h)' => Resting(h)'
    BY <1>1, UnmovedKeeps DEF InOrder, Quiet, Own
  <1>3. ASSUME NEW q \in Callers, Own(q, h)'
        PROVE  Midway(h, call[q].step, call[q].found)'
    <2>1. Midway(h, call[q].step, call[q].found)
      BY <1>1, <1>3 DEF InOrder
    <2>2. call'[q] = call[q]
      BY <1>1, <1>3 DEF Own, Subscribing, Unsubscribing, ClientOps
    <2>3. PICK step, found : step = call[q].step /\ found = call[q].found
      OBVIOUS
    <2>4. Midway(h, step, found)'
      BY <2>1, <2>3, UnmovedKeeps
    <2> QED
      BY <2>2, <2>3, <2>4
  <1> QED
    BY <1>2, <1>3

\* A step outside the cleanups.
LEMMA AsideKept ==
    ASSUME ScanHolds, RemovedExcused, NEW p \in Callers, \A q \in Callers \ {p} : call'[q] = call[q],
           call[p].step # "scan", call'[p].step \notin {"scan", "erase"},
           UNCHANGED <<tableLock, removedKeys>>, subscribers' = subscribers \/ TableFree,
           excused \subseteq excused'
    PROVE  ScanHolds' /\ RemovedExcused'
  <1>1. ScanHolds'
    BY ThreadAssumption DEF ScanHolds, At, Expirable, TableFree
  <1>2. RemovedExcused'
    BY DEF RemovedExcused, At
  <1> QED
    BY <1>1, <1>2

\* A scan that finds an idle handler under an expirable context finds it on a handle that
\* a window has hit.
LEMMA VisitHarmless ==
    ASSUME IInv, CallShape, Justified, WInv, NEW p \in Callers, NEW h \in Ids, Expirable(h),
           handlers[h] = "idle"
    PROVE  h \in excused
  <1> SUFFICES ASSUME h \notin excused
               PROVE  FALSE
    OBVIOUS
  <1>1. h # NullHandle
    BY DEF Justified, NullBare
  <1>2. ~Resting(h) /\ subscribers[h] # Confirmed /\ subscribers[h] # Absent
    BY <1>1 DEF Resting, InForce, Expirable, Confirmed
  <1>3. PICK q \in Callers : Own(q, h)
    BY <1>2, QuietIsUnowned DEF WInv, InOrder
  <1>4. Midway(h, call[q].step, call[q].found)
    BY <1>3 DEF WInv, InOrder
  <1>5. call[q].step \in {"register", "confirm", "rollback"}
    <2>1. call[q].step \in CallSteps /\ call[q].step # "idle"
      BY <1>3 DEF IInv, TypeOK, Calls, CallShape, At, Own, Subscribing, Unsubscribing
    <2> QED
      BY <1>1, <1>2, <1>4, <2>1 DEF Midway, CalmSteps, EarlySteps, CallSteps
  <1>6. Subscribing(q, h) /\ Unheld(h) /\ call[q].step \in LateSteps
    BY <1>1, <1>3, <1>4, <1>5 DEF Midway, Unheld, CallShape, Own, Subscribing, Unsubscribing,
                                  LateSteps
  <1>7. handlers[h] \in {"absent", "busy"}
    BY <1>6 DEF Justified, SubscribeKeeps
  <1> QED
    BY <1>7

LEMMA CleanupInOrder ==
    ASSUME IInv, CallShape, Justified, WInv, NEW p \in Callers, CleanupStep(p)
    PROVE  WInv'
  <1> DEFINE Follow(s) == Follows(p, s) /\ call'[p].found = call[p].found
  <1>1. /\ TypeOK /\ ScanHolds /\ RemovedExcused /\ InOrder /\ NullHandle \notin held
    BY DEF IInv, WInv
  <1>2. ASSUME NEW s \in {"scan", "iterate", "erase", "lookup", "find"}, Follow(s),
               call[p].step \in EarlySteps, UNCHANGED <<held, excused>>,
               \A h \in Ids \ excused : Unmoved(h)
        PROVE  InOrder' /\ NullHandle \notin held'
    <2>1. ASSUME NEW h \in Ids \ excused, Own(p, h)
          PROVE  Midway(h, s, call[p].found)'
      <3>1. Midway(h, call[p].step, call[p].found) /\ Unmoved(h)
        BY <1>1, <1>2, <2>1 DEF InOrder
      <3>2. /\ Resting(h) /\ (h = NullHandle => Watched(h))
            /\ h # NullHandle /\ call[p].found => subscribers[h] # Absent
        BY <1>2, <3>1 DEF Midway, CalmSteps, EarlySteps
      <3>3. /\ Resting(h)' /\ (h = NullHandle => Watched(h)')
            /\ h # NullHandle /\ call'[p].found => subscribers'[h] # Absent
        BY <1>2, <3>1, <3>2, UnmovedKeeps DEF Unmoved, Watched
      <3> QED
        BY <3>3 DEF Midway
    <2> QED
      BY <1>1, <1>2, <2>1, FollowsInOrder
  <1>3. CASE CleanupBegin(p)
    <2> DEFINE doomed == {h \in Ids : Expirable(h)}
    <2>1. /\ At(p, "cleanup") /\ TableFree /\ UNCHANGED <<subscribers, handlers, removedKeys>>
          /\ UNCHANGED <<monitored, held, excused>>
      BY <1>3 DEF CleanupBegin, kernel, history
    <2>2. PICK s \in {"iterate", "scan"} :
              Follow(s) /\ tableLock' = (IF s = "scan" THEN p ELSE tableLock)
              /\ (s = "scan" => call'[p].todo = {h \in Ids : Expirable(h)})
      <3>1. CASE doomed = {}
        BY <1>1, <1>3, <3>1, CallEffects DEF CleanupBegin, CallSteps
      <3>2. CASE doomed # {}
        <4>1. call' = [call EXCEPT ![p].step = "scan", ![p].todo = doomed] /\ tableLock' = p
          BY <1>3, <3>2 DEF CleanupBegin
        <4>2. call'[p].todo = doomed
          BY <1>1, <4>1 DEF TypeOK, Calls
        <4>3. Follow("scan")
          BY <1>1, <4>1, CallEffects DEF CallSteps
        <4> QED
          BY <4>1, <4>2, <4>3
      <3> QED
        BY <3>1, <3>2
    <2>3. InOrder' /\ NullHandle \notin held'
      BY <1>2, <2>1, <2>2 DEF At, EarlySteps, Unmoved
    <2>4. \A q \in Callers : ~At(q, "scan")
      BY <1>1, <2>1, ThreadAssumption DEF ScanHolds, TableFree
    <2>5. ScanHolds'
      BY <2>1, <2>2, <2>4, ThreadAssumption DEF ScanHolds, At, Follows, Expirable, TableFree
    <2>6. RemovedExcused'
      BY <1>1, <2>1, <2>2 DEF RemovedExcused, At, Follows
    <2> QED
      BY <2>3, <2>5, <2>6 DEF WInv
  <1>4. ASSUME NEW h \in Ids, CleanupVisit(p, h)
        PROVE  WInv'
    <2>1. /\ At(p, "scan") /\ Expirable(h) /\ UNCHANGED <<subscribers, tableLock, monitored, held, excused>>
          /\ handlers' = [handlers EXCEPT ![h] = Removed(@)]
          /\ removedKeys' = IF handlers'[h] # handlers[h] THEN removedKeys \cup {h} ELSE removedKeys
      BY <1>1, <1>4 DEF CleanupVisit, kernel, history, ScanHolds
    <2>2. Follow("scan") /\ call'[p].todo \subseteq call[p].todo
      BY <1>1, <1>4, CallEffects DEF CleanupVisit, At, CallSteps, TypeOK, Calls
    <2>3. handlers'[h] # handlers[h] => h \in excused
      BY <1>1, <2>1, VisitHarmless DEF TypeOK, Removed
    <2>4. \A g \in Ids \ excused : Unmoved(g)
      BY <1>1, <2>1, <2>3 DEF TypeOK, Unmoved
    <2>5. InOrder' /\ NullHandle \notin held'
      BY <1>2, <2>1, <2>2, <2>4 DEF At, EarlySteps
    <2>6. ScanHolds'
      BY <1>1, <2>1, <2>2 DEF ScanHolds, At, Follows, Expirable
    <2>7. RemovedExcused'
      BY <1>1, <2>1, <2>2, <2>3 DEF RemovedExcused, At, Follows
    <2> QED
      BY <2>5, <2>6, <2>7 DEF WInv
  <1>5. CASE CleanupUnlock(p)
    <2>1. /\ At(p, "scan") /\ tableLock' = Free /\ Follow("iterate")
          /\ UNCHANGED <<subscribers, handlers, removedKeys, monitored, held, excused>>
      BY <1>1, <1>5, CallEffects DEF CleanupUnlock, LockReleased, kernel, history, CallSteps
    <2>2. InOrder' /\ NullHandle \notin held'
      BY <1>2, <2>1 DEF At, EarlySteps, Unmoved
    <2>3. ScanHolds'
      BY <1>1, <2>1, ThreadAssumption DEF ScanHolds, At, Follows, Expirable
    <2>4. RemovedExcused'
      BY <1>1, <2>1 DEF RemovedExcused, At, Follows
    <2> QED
      BY <2>2, <2>3, <2>4 DEF WInv
  <1>6. CASE CleanupIterate(p)
    <2>1. /\ At(p, "iterate") /\ Follow("erase") /\ call'[p].todo = removedKeys
          /\ UNCHANGED <<subscribers, handlers, tableLock, removedKeys, monitored, held, excused>>
      BY <1>1, <1>6, CallEffects DEF CleanupIterate, tables, kernel, history, CallSteps,
                                     TypeOK, Calls
    <2>2. InOrder' /\ NullHandle \notin held'
      BY <1>2, <2>1 DEF At, EarlySteps, Unmoved
    <2>3. ScanHolds'
      BY <1>1, <2>1 DEF ScanHolds, At, Follows, Expirable
    <2>4. RemovedExcused'
      BY <1>1, <2>1 DEF RemovedExcused, At, Follows
    <2> QED
      BY <2>2, <2>3, <2>4 DEF WInv
  <1>7. ASSUME NEW h \in Ids, CleanupErase(p, h)
        PROVE  WInv'
    <2>1. /\ At(p, "erase") /\ h \in excused /\ TableFree
          /\ subscribers' = [subscribers EXCEPT ![h] = Absent]
          /\ UNCHANGED <<handlers, tableLock, removedKeys, monitored, held, excused>>
      BY <1>1, <1>7 DEF CleanupErase, Store, kernel, history, RemovedExcused
    <2>2. Follow("erase") /\ call'[p].todo \subseteq call[p].todo
      BY <1>1, <1>7, CallEffects DEF CleanupErase, At, CallSteps, TypeOK, Calls
    <2>3. \A g \in Ids \ excused : Unmoved(g)
      BY <1>1, <2>1 DEF TypeOK, Unmoved
    <2>4. InOrder' /\ NullHandle \notin held'
      BY <1>2, <2>1, <2>2, <2>3 DEF At, EarlySteps
    <2>5. ScanHolds'
      BY <1>1, <2>1, <2>2, ThreadAssumption DEF ScanHolds, At, Follows, TableFree
    <2>6. RemovedExcused'
      BY <1>1, <2>1, <2>2 DEF RemovedExcused, At, Follows
    <2> QED
      BY <2>4, <2>5, <2>6 DEF WInv
  <1>8. CASE CleanupDone(p)
    <2>1. /\ At(p, "erase") /\ removedKeys' = {}
          /\ UNCHANGED <<subscribers, handlers, tableLock, monitored, held, excused>>
      BY <1>8 DEF CleanupDone, kernel, history
    <2>2. \A h \in Ids \ excused : Unmoved(h)
      BY <2>1 DEF Unmoved
    <2>3. \/ Follow("lookup") \/ Follow("find")
          \/ call[p].op = "cleanupExpired" /\ Ends(p)
      BY <1>1, <1>8, CallEffects DEF CleanupDone, CallSteps
    <2>4. InOrder' /\ NullHandle \notin held'
      <3>1. CASE Follow("lookup") \/ Follow("find")
        BY <1>2, <2>1, <2>2, <3>1 DEF At, EarlySteps
      <3>2. CASE call[p].op = "cleanupExpired" /\ Ends(p)
        BY <1>1, <2>1, <2>2, <3>2, EndsInOrder DEF Own, Subscribing, Unsubscribing
      <3> QED
        BY <2>3, <3>1, <3>2
    <2>5. call'[p].step \notin {"scan", "erase"} /\ \A q \in Callers \ {p} : call'[q] = call[q]
      BY <2>3 DEF Follows, Ends, NoCall
    <2>6. ScanHolds'
      BY <1>1, <2>1, <2>5 DEF ScanHolds, At, Expirable
    <2>7. RemovedExcused'
      BY <1>1, <2>1, <2>5 DEF RemovedExcused, At
    <2> QED
      BY <2>4, <2>6, <2>7 DEF WInv
  <1> QED
    BY <1>3, <1>4, <1>5, <1>6, <1>7, <1>8 DEF CleanupStep

\* A step of subscribe or unsubscribe, which touches its own handle only.
LEMMA OwnStep ==
    ASSUME IInv, CallShape, Justified, WInv, NEW p \in Callers, NEW g \in Ids,
           \A h \in Ids : Own(p, h) => h = g, call[p].step \notin {"scan", "idle"},
           UNCHANGED <<tableLock, removedKeys>>, subscribers' = subscribers \/ TableFree,
           excused \subseteq excused', NullHandle \notin held',
           \A h \in Ids \ {g} : Unmoved(h),
           Own(p, g),
           \/ Ends(p) /\ (g \notin excused' => Resting(g)')
           \/ \E s \in CallSteps \ {"scan", "erase"} :
                 Follows(p, s) /\ (g \notin excused' => Midway(g, s, call[p].found)')
    PROVE  WInv'
  <1>1. InOrder'
    <2>1. CASE Ends(p) /\ (g \notin excused' => Resting(g)')
      BY <2>1, EndsInOrder DEF WInv
    <2>2. ASSUME NEW s \in CallSteps \ {"scan", "erase"}, Follows(p, s),
                 g \notin excused' => Midway(g, s, call[p].found)'
          PROVE  InOrder'
      BY <2>2, FollowsInOrder DEF WInv
    <2> QED
      BY <2>1, <2>2
  <1>2. call'[p].step \notin {"scan", "erase"} /\ \A q \in Callers \ {p} : call'[q] = call[q]
    BY DEF Follows, Ends, NoCall
  <1>3. ScanHolds' /\ RemovedExcused'
    BY <1>2, AsideKept DEF WInv
  <1> QED
    BY <1>1, <1>3 DEF WInv

LEMMA SubscribeInOrder ==
    ASSUME IInv, CallShape, Justified, WInv, NEW p \in Callers, SubscribeStep(p)
    PROVE  WInv'
  <1>0. PICK g \in Ids : call[p].handle = g
    BY DEF IInv, TypeOK, Calls
  <1>1. /\ TypeOK /\ ScanHolds /\ RemovedExcused /\ InOrder /\ NullHandle \notin held
        /\ \A h \in Ids : Own(p, h) => h = g
    BY <1>0 DEF IInv, WInv, Own, Subscribing, Unsubscribing
  <1>2. ASSUME call[p].step \in {"lookup", "checkBusy", "insert"} \cup LateSteps
        PROVE  /\ call[p].op = "subscribe" /\ Subscribing(p, g) /\ Own(p, g)
               /\ g \notin excused => Midway(g, call[p].step, call[p].found)
    BY <1>0, <1>1, <1>2 DEF CallShape, Own, Subscribing, InOrder
  <1>3. CASE Lookup(p)
    <2>1. /\ call[p].step = "lookup"
          /\ UNCHANGED <<subscribers, handlers, tableLock, removedKeys, monitored, held, excused>>
      BY <1>3 DEF Lookup, At, tables, kernel, history
    <2>2. \A h : Unmoved(h)
      BY <2>1 DEF Unmoved
    <2>3. Own(p, g) /\ (g \notin excused => Midway(g, "lookup", call[p].found))
      BY <1>2, <2>1
    <2>4. g \notin excused =>
              /\ Resting(g) /\ (g = NullHandle => Watched(g))
              /\ g # NullHandle /\ call[p].found => subscribers[g] # Absent
      BY <2>3 DEF Midway, CalmSteps, EarlySteps
    <2>5. PICK s \in {"insert", "checkBusy"} :
              Follows(p, s) /\ (call'[p].found => call[p].found \/ subscribers[g] # Absent)
      BY <1>0, <1>1, <1>3, CallEffects DEF Lookup, CallSteps
    <2>6. g \notin excused => Resting(g)' /\ (g = NullHandle => Watched(g)')
      BY <2>1, <2>2, <2>4, UnmovedKeeps DEF Watched
    <2>7. g \notin excused => Midway(g, s, call[p].found)'
      BY <2>1, <2>4, <2>5, <2>6 DEF Midway
    <2> QED
      BY <1>1, <2>1, <2>2, <2>3, <2>5, <2>7, OwnStep DEF CallSteps
  <1>4. CASE CheckBusy(p)
    <2>1. /\ call[p].step = "checkBusy"
          /\ UNCHANGED <<subscribers, handlers, tableLock, removedKeys, monitored, held, excused>>
      BY <1>4 DEF CheckBusy, At, tables, kernel, history
    <2>2. \A h : Unmoved(h)
      BY <2>1 DEF Unmoved
    <2>3. Own(p, g) /\ (g \notin excused => Midway(g, "checkBusy", call[p].found))
      BY <1>2, <2>1
    <2>4. g \notin excused =>
              /\ Resting(g) /\ (g = NullHandle => Watched(g))
              /\ g # NullHandle /\ call[p].found => subscribers[g] # Absent
      BY <2>3 DEF Midway, CalmSteps, EarlySteps
    <2>5. Ends(p) \/ (Follows(p, "insert") /\ call'[p].found = call[p].found)
      BY <1>1, <1>4, CallEffects DEF CheckBusy, CallSteps
    <2>6. g \notin excused => Resting(g)' /\ (g = NullHandle => Watched(g)')
      BY <2>1, <2>2, <2>4, UnmovedKeeps DEF Watched
    <2>7. CASE Ends(p)
      BY <1>1, <2>1, <2>2, <2>3, <2>6, <2>7, OwnStep
    <2>8. CASE Follows(p, "insert") /\ call'[p].found = call[p].found
      <3>1. g \notin excused => Midway(g, "insert", call[p].found)'
        BY <2>1, <2>4, <2>6, <2>8 DEF Midway
      <3> QED
        BY <1>1, <2>1, <2>2, <2>3, <2>8, <3>1, OwnStep DEF CallSteps
    <2> QED
      BY <2>5, <2>7, <2>8
  <1>5. CASE Insert(p)
    <2>1. /\ call[p].step = "insert" /\ TableFree /\ subscribers' = [subscribers EXCEPT ![g] = Unconfirmed]
          /\ UNCHANGED <<handlers, tableLock, removedKeys, monitored, held>>
          /\ excused \subseteq excused'
      BY <1>0, <1>5 DEF Insert, At, Store, kernel
    <2>2. subscribers'[g] = Unconfirmed /\ \A h \in Ids \ {g} : Unmoved(h)
      BY <1>1, <2>1 DEF TypeOK, Unmoved
    <2>3. Own(p, g) /\ (g \notin excused => Midway(g, "insert", call[p].found))
      BY <1>2, <2>1
    <2>4. g \notin excused /\ g # NullHandle =>
              Resting(g) /\ (call[p].found => subscribers[g] # Absent)
      BY <2>3 DEF Midway, CalmSteps, EarlySteps
    <2>5. g \notin excused' => handlers[g] = "absent" \/ subscribers[g] = Absent
      BY <1>0, <1>5 DEF Insert, Resubscribing
    <2>6. g \notin excused' /\ g # NullHandle =>
              subscribers[g] = Absent /\ ~call[p].found /\ g \notin held /\ g \notin monitored
      BY <2>1, <2>4, <2>5 DEF Resting, InForce
    <2>7. Watched(g)'
      BY <2>2 DEF Watched, Unconfirmed
    <2>8. CASE subscribers[g] # Absent
      <3>1. Ends(p)
        BY <1>0, <1>1, <1>5, <2>8, CallEffects DEF Insert, CallSteps
      <3>2. g \notin excused' => Resting(g)'
        BY <1>1, <2>1, <2>6, <2>7, <2>8 DEF Resting
      <3> QED
        BY <1>1, <2>1, <2>2, <2>3, <3>1, <3>2, OwnStep
    <2>9. CASE subscribers[g] = Absent
      <3>1. PICK s \in {"update", "register"} :
                Follows(p, s) /\ call'[p].found = call[p].found /\ (s = "update" => call[p].found)
        BY <1>0, <1>1, <1>5, <2>9, CallEffects DEF Insert, CallSteps
      <3>2. g \notin excused' => Midway(g, s, call[p].found)'
        BY <2>1, <2>2, <2>6, <2>7, <3>1 DEF Midway, CalmSteps, EarlySteps
      <3> QED
        BY <1>1, <2>1, <2>2, <2>3, <3>1, <3>2, OwnStep DEF CallSteps
    <2> QED
      BY <2>8, <2>9
  <1>6. CASE Update(p)
    <2>1. /\ call[p].step = "update"
          /\ UNCHANGED <<subscribers, handlers, tableLock, removedKeys, monitored, held, excused>>
      BY <1>6 DEF Update, At, tables, kernel, history
    <2>2. \A h : Unmoved(h)
      BY <2>1 DEF Unmoved
    <2>3. Own(p, g) /\ (g \notin excused => Midway(g, "update", call[p].found))
      BY <1>2, <2>1 DEF LateSteps
    <2>4. g \notin excused => g = NullHandle /\ Watched(g)
      BY <2>3 DEF Midway
    <2>5. Ends(p) \/ (Follows(p, "addHandler") /\ g # NullHandle)
      BY <1>0, <1>1, <1>6, CallEffects DEF Update, CheckId, CallSteps
    <2>6. g \notin excused => Resting(g)'
      BY <1>1, <2>1, <2>4 DEF Resting, Watched
    <2> QED
      BY <1>1, <2>1, <2>2, <2>3, <2>4, <2>5, <2>6, OwnStep DEF CallSteps
  <1>7. CASE Register(p)
    <2>1. /\ call[p].step = "register"
          /\ UNCHANGED <<subscribers, handlers, tableLock, removedKeys, held, excused>>
          /\ monitored' = monitored \cup {g} \/ monitored' = monitored
      BY <1>0, <1>7 DEF Register, At, tables, history
    <2>2. \A h \in Ids \ {g} : Unmoved(h)
      BY <2>1 DEF Unmoved
    <2>3. Own(p, g) /\ (g \notin excused => Midway(g, "register", call[p].found))
      BY <1>2, <2>1 DEF LateSteps
    <2>4. PICK s \in {"confirm", "rollback"} :
              Follows(p, s) /\ monitored' = (IF s = "confirm" THEN monitored \cup {g} ELSE monitored)
      BY <1>0, <1>1, <1>7, CallEffects DEF Register, CallSteps
    <2>5. g \notin excused => Midway(g, s, call[p].found)'
      BY <2>1, <2>3, <2>4 DEF Midway, CalmSteps, EarlySteps, Watched
    <2> QED
      BY <1>1, <2>1, <2>2, <2>3, <2>4, <2>5, OwnStep DEF CallSteps
  <1>8. CASE Confirm(p)
    <2>1. /\ call[p].step = "confirm" /\ TableFree /\ subscribers' = [subscribers EXCEPT ![g] = Confirmed]
          /\ UNCHANGED <<handlers, tableLock, removedKeys, monitored, held, excused>>
      BY <1>0, <1>8 DEF Confirm, At, Store, kernel, history
    <2>2. subscribers'[g] = Confirmed /\ \A h \in Ids \ {g} : Unmoved(h)
      BY <1>1, <2>1 DEF TypeOK, Unmoved
    <2>3. Own(p, g) /\ (g \notin excused => Midway(g, "confirm", call[p].found))
      BY <1>2, <2>1 DEF LateSteps
    <2>4. g \notin excused => g \in monitored /\ (g # NullHandle => g \notin held)
      BY <2>3 DEF Midway
    <2>5. CASE g = NullHandle
      <3>1. Ends(p)
        BY <1>0, <1>1, <1>8, <2>5, CallEffects DEF Confirm, CheckId, CallSteps
      <3>2. g \notin excused => Resting(g)'
        BY <1>1, <2>1, <2>4, <2>5 DEF Resting, Watched
      <3> QED
        BY <1>1, <2>1, <2>2, <2>3, <3>1, <3>2, OwnStep
    <2>6. CASE g # NullHandle
      <3>1. Follows(p, "addHandler")
        BY <1>0, <1>1, <1>8, <2>6, CallEffects DEF Confirm, CheckId, CallSteps
      <3>2. g \notin excused => Midway(g, "addHandler", call[p].found)'
        BY <2>1, <2>2, <2>4, <2>6 DEF Midway, CalmSteps, EarlySteps
      <3> QED
        BY <1>1, <2>1, <2>2, <2>3, <3>1, <3>2, OwnStep DEF CallSteps
    <2> QED
      BY <2>5, <2>6
  <1>9. CASE Rollback(p)
    <2>1. /\ call[p].step = "rollback" /\ TableFree /\ subscribers' = [subscribers EXCEPT ![g] = Absent]
          /\ UNCHANGED <<handlers, tableLock, removedKeys, monitored, held, excused>>
      BY <1>0, <1>9 DEF Rollback, At, Store, kernel, history
    <2>2. subscribers'[g] = Absent /\ \A h \in Ids \ {g} : Unmoved(h)
      BY <1>1, <2>1 DEF TypeOK, Unmoved
    <2>3. Own(p, g) /\ (g \notin excused => Midway(g, "rollback", call[p].found))
      BY <1>2, <2>1 DEF LateSteps
    <2>4. Ends(p)
      BY <1>1, <1>9, CallEffects DEF Rollback, CallSteps
    <2>5. g \notin excused => Resting(g)'
      BY <1>1, <2>1, <2>2, <2>3 DEF Midway, Resting, Watched
    <2> QED
      BY <1>1, <2>1, <2>2, <2>3, <2>4, <2>5, OwnStep
  <1>10. CASE AddHandler(p)
    <2>1. /\ call[p].step = "addHandler" /\ g # NullHandle
          /\ handlers' = [handlers EXCEPT ![g] = Assigned(@)] /\ held' = held \cup {g}
          /\ UNCHANGED <<subscribers, tableLock, removedKeys, monitored, excused>>
      BY <1>0, <1>10 DEF AddHandler, At, kernel, CallShape
    <2>2. handlers'[g] # "absent" /\ \A h \in Ids \ {g} : Unmoved(h)
      BY <1>1, <2>1, AssignedKeepsBusy DEF TypeOK, Unmoved
    <2>3. Own(p, g) /\ (g \notin excused => Midway(g, "addHandler", call[p].found))
      BY <1>2, <2>1 DEF LateSteps
    <2>4. Ends(p)
      BY <1>1, <1>10, CallEffects DEF AddHandler, CallSteps
    <2>5. g \notin excused => Resting(g)'
      <3>1. g \notin excused => subscribers[g] = Confirmed /\ g \in monitored
        BY <2>1, <2>3 DEF Midway
      <3>2. Confirmed # Absent /\ Confirmed.registered /\ ~Confirmed.expired
        <4>1. Confirmed \in Context
          BY DEF Confirmed, Context
        <4>2. Confirmed # Absent
          BY <4>1, AbsentAssumption
        <4> QED
          BY <4>2 DEF Confirmed
      <3> QED
        BY <2>1, <2>2, <3>1, <3>2 DEF Resting, InForce
    <2> QED
      BY <1>1, <2>1, <2>2, <2>3, <2>4, <2>5, OwnStep
  <1> QED
    BY <1>3, <1>4, <1>5, <1>6, <1>7, <1>8, <1>9, <1>10 DEF SubscribeStep

LEMMA UnsubscribeInOrder ==
    ASSUME IInv, CallShape, Justified, WInv, NEW p \in Callers, UnsubscribeStep(p)
    PROVE  WInv'
  <1>0. PICK g \in Ids : call[p].handle = g
    BY DEF IInv, TypeOK, Calls
  <1>1. /\ TypeOK /\ ScanHolds /\ RemovedExcused /\ InOrder /\ NullHandle \notin held
        /\ \A h \in Ids : Own(p, h) => h = g
    BY <1>0 DEF IInv, WInv, Own, Subscribing, Unsubscribing
  <1>2. ASSUME call[p].step \in {"find", "unregister", "remove", "dropHandler"}
        PROVE  Own(p, g) /\ (g \notin excused => Midway(g, call[p].step, call[p].found))
    BY <1>0, <1>1, <1>2 DEF CallShape, Own, Unsubscribing, InOrder
  <1>3. CASE Find(p)
    <2>1. /\ call[p].step = "find"
          /\ UNCHANGED <<subscribers, handlers, tableLock, removedKeys, monitored, held, excused>>
      BY <1>3 DEF Find, At, tables, kernel, history
    <2>2. \A h : Unmoved(h)
      BY <2>1 DEF Unmoved
    <2>3. Own(p, g) /\ (g \notin excused => Midway(g, "find", call[p].found))
      BY <1>2, <2>1
    <2>4. g \notin excused => Resting(g) /\ (g = NullHandle => Watched(g))
      BY <2>3 DEF Midway, CalmSteps
    <2>5. CASE subscribers[g] = Absent
      <3>1. Ends(p)
        BY <1>0, <1>1, <1>3, <2>5, CallEffects DEF Find, CallSteps
      <3>2. g \notin excused => Resting(g)'
        BY <2>2, <2>4, UnmovedKeeps
      <3> QED
        BY <1>1, <2>1, <2>2, <2>3, <3>1, <3>2, OwnStep
    <2>6. CASE subscribers[g] # Absent
      <3>1. PICK s \in {"unregister", "remove"} :
                Follows(p, s) /\ s = IF subscribers[g].registered THEN "unregister" ELSE "remove"
        BY <1>0, <1>1, <1>3, <2>6, CallEffects DEF Find, MustUnregister, CallSteps
      <3>2. g \notin excused /\ g # NullHandle =>
                subscribers[g] = Confirmed /\ g \in monitored /\ s = "unregister"
        <4>1. ASSUME g \notin excused, g # NullHandle
              PROVE  InForce(g)
          BY <2>4, <2>6, <4>1 DEF Resting
        <4>2. subscribers[g] \in Context
          BY <1>1, <2>6 DEF TypeOK
        <4>3. InForce(g) => subscribers[g] = Confirmed
          BY <4>2 DEF InForce, Context, Confirmed
        <4> QED
          BY <3>1, <4>1, <4>3 DEF InForce
      <3>3. g \notin excused /\ g = NullHandle => (s = "unregister" => g \in monitored) /\ Watched(g)
        BY <2>4, <2>6, <3>1 DEF Watched
      <3>4. g \notin excused => Midway(g, s, call[p].found)'
        BY <2>1, <3>1, <3>2, <3>3 DEF Midway, CalmSteps, EarlySteps, Watched
      <3> QED
        BY <1>1, <2>1, <2>2, <2>3, <3>1, <3>4, OwnStep DEF CallSteps
    <2> QED
      BY <2>5, <2>6
  <1>4. CASE Unregister(p)
    <2>1. /\ call[p].step = "unregister" /\ monitored' = monitored \ {g}
          /\ UNCHANGED <<subscribers, handlers, tableLock, removedKeys, held, excused>>
      BY <1>0, <1>4 DEF Unregister, At, tables, history
    <2>2. \A h \in Ids \ {g} : Unmoved(h)
      BY <2>1 DEF Unmoved
    <2>3. Own(p, g) /\ (g \notin excused => Midway(g, "unregister", call[p].found))
      BY <1>2, <2>1
    <2>4. Follows(p, "remove")
      BY <1>1, <1>4, CallEffects DEF Unregister, CallSteps
    <2>5. g \notin excused => Midway(g, "remove", call[p].found)'
      BY <2>1, <2>3 DEF Midway, CalmSteps, EarlySteps
    <2> QED
      BY <1>1, <2>1, <2>2, <2>3, <2>4, <2>5, OwnStep DEF CallSteps
  <1>5. CASE RemoveMapping(p)
    <2>1. /\ call[p].step = "remove" /\ TableFree /\ subscribers' = [subscribers EXCEPT ![g] = Absent]
          /\ UNCHANGED <<handlers, tableLock, removedKeys, monitored, held, excused>>
      BY <1>0, <1>5 DEF RemoveMapping, At, Store, kernel, history
    <2>2. subscribers'[g] = Absent /\ \A h \in Ids \ {g} : Unmoved(h)
      BY <1>1, <2>1 DEF TypeOK, Unmoved
    <2>3. Own(p, g) /\ (g \notin excused => Midway(g, "remove", call[p].found))
      BY <1>2, <2>1
    <2>4. Follows(p, "dropHandler")
      BY <1>1, <1>5, CallEffects DEF RemoveMapping, CallSteps
    <2>5. g \notin excused => Midway(g, "dropHandler", call[p].found)'
      BY <2>1, <2>2, <2>3 DEF Midway, CalmSteps, EarlySteps, Watched
    <2> QED
      BY <1>1, <2>1, <2>2, <2>3, <2>4, <2>5, OwnStep DEF CallSteps
  <1>6. CASE DropHandler(p)
    <2>1. /\ call[p].step = "dropHandler" /\ handlers' = [handlers EXCEPT ![g] = Removed(@)]
          /\ held' = held \ {g}
          /\ UNCHANGED <<subscribers, tableLock, removedKeys, monitored, excused>>
      BY <1>0, <1>6 DEF DropHandler, At, kernel
    <2>2. \A h \in Ids \ {g} : Unmoved(h)
      BY <1>1, <2>1 DEF TypeOK, Unmoved
    <2>3. Own(p, g) /\ (g \notin excused => Midway(g, "dropHandler", call[p].found))
      BY <1>2, <2>1
    <2>4. Ends(p)
      BY <1>1, <1>6, CallEffects DEF DropHandler, CallSteps
    <2>5. g \notin excused => Resting(g)'
      BY <2>1, <2>3 DEF Midway, Resting, Watched
    <2> QED
      BY <1>1, <2>1, <2>2, <2>3, <2>4, <2>5, OwnStep
  <1> QED
    BY <1>3, <1>4, <1>5, <1>6 DEF UnsubscribeStep

LEMMA CallInOrder ==
    ASSUME Disciplined, IInv, CallShape, Justified, WInv, NEW p \in Callers,
           NEW kind \in ClientOps, NEW g \in Handles, Call(p, kind, g)
    PROVE  WInv'
  <1>1. /\ TypeOK /\ ScanHolds /\ RemovedExcused /\ InOrder /\ NullHandle \notin held /\ g \in Ids
    BY DEF IInv, WInv, Ids
  <1>2. /\ call[p].step = "idle" /\ Quiet(g)
        /\ UNCHANGED <<subscribers, handlers, tableLock, removedKeys, monitored, held, excused>>
    BY DEF Call, At, tables, kernel, history
  <1>3. PICK c : c = [NoCall EXCEPT !.step = "cleanup", !.op = kind, !.handle = g]
    OBVIOUS
  <1>4. c.step = "cleanup" /\ c.op = kind /\ c.handle = g /\ ~c.found
    BY <1>3 DEF NoCall
  <1>5. call'[p] = c /\ \A q \in Callers \ {p} : call'[q] = call[q]
    BY <1>1, <1>3 DEF Call, TypeOK
  <1>6. \A h : Unmoved(h)
    BY <1>2 DEF Unmoved
  <1>7. call[p].op = "none"
    BY <1>2 DEF CallShape, At
  <1>8. ASSUME NEW h \in Ids \ excused'
        PROVE  /\ Quiet(h)' => Resting(h)'
               /\ \A q \in Callers : Own(q, h)' => Midway(h, call[q].step, call[q].found)'
    <2>1. Quiet(h)' => Quiet(h)
      BY <1>5, <1>7 DEF Quiet, Subscribing, Unsubscribing
    <2>2. Quiet(h)' => Resting(h)'
      BY <1>1, <1>2, <1>6, <2>1, UnmovedKeeps DEF InOrder
    <2>3. CASE h = g
      <3>1. Resting(g)' /\ (g = NullHandle => Watched(g)')
        <4>1. Resting(g)
          BY <1>1, <1>2, <2>3 DEF InOrder
        <4>2. Resting(g)'
          BY <1>6, <4>1, UnmovedKeeps
        <4> QED
          BY <1>1, <1>2, <4>2 DEF Resting
      <3>2. \A q \in Callers : Own(q, h)' => q = p
        BY <1>2, <1>5, <2>3 DEF Quiet, Own, Subscribing, Unsubscribing
      <3>3. Midway(g, "cleanup", FALSE)'
        BY <3>1 DEF Midway
      <3>4. Midway(g, call[p].step, call[p].found)'
        BY <1>4, <1>5, <3>1 DEF Midway
      <3> QED
        BY <2>2, <2>3, <3>2, <3>4
    <2>4. CASE h # g
      <3>1. ASSUME NEW q \in Callers, Own(q, h)'
            PROVE  Midway(h, call[q].step, call[q].found)'
        <4>1. call'[q] = call[q] /\ Own(q, h)
          BY <1>4, <1>5, <2>4, <3>1 DEF Own, Subscribing, Unsubscribing
        <4>2. PICK step, found : step = call[q].step /\ found = call[q].found
          OBVIOUS
        <4>3. Midway(h, step, found)
          BY <1>1, <1>2, <4>1, <4>2 DEF InOrder
        <4>4. Midway(h, step, found)'
          BY <1>6, <4>3, UnmovedKeeps
        <4> QED
          BY <4>1, <4>2, <4>4
      <3> QED
        BY <2>2, <3>1
    <2> QED
      BY <2>3, <2>4
  <1>9. InOrder'
    BY <1>8 DEF InOrder
  <1>10. ScanHolds' /\ RemovedExcused'
    BY <1>1, <1>2, <1>4, <1>5, AsideKept
  <1> QED
    BY <1>1, <1>2, <1>9, <1>10 DEF WInv

\* A step of the event loop touches contexts of handles only that a window has hit.
LEMMA LoopInOrder ==
    ASSUME IInv, CallShape, Justified, WInv, LoopStep
    PROVE  WInv'
  <1>1. /\ TypeOK /\ ScanHolds /\ RemovedExcused /\ InOrder /\ NullHandle \notin held
        /\ EventThread \in Callers
    BY DEF IInv, WInv, Callers
  <1>2. /\ call[EventThread].step = "idle" /\ call[EventThread].op = "none"
        /\ UNCHANGED <<tableLock, removedKeys, monitored, held>> /\ excused \subseteq excused'
    <2>1. /\ At(EventThread, "idle") /\ UNCHANGED <<tableLock, removedKeys, monitored, held>>
          /\ excused \subseteq excused'
      BY DEF LoopStep, LoopAt, Pop, LoopLookup, Mark, ExpireUnhandled, ExpireInvalid, WriteBack,
             HandleEvent, Finish, LoopTail, tables, kernel, history
    <2> QED
      BY <1>1, <2>1 DEF At, CallShape
  <1>3. /\ subscribers' = subscribers \/ TableFree
        /\ \A h \in Ids \ excused' : Unmoved(h)
    <2>1. CASE Pop \/ LoopLookup \/ HandleEvent \/ LoopTail
      <3>1. UNCHANGED <<subscribers, handlers>>
        BY <2>1 DEF Pop, LoopLookup, HandleEvent, LoopTail, tables
      <3> QED
        BY <1>2, <3>1 DEF Unmoved
    <2>2. CASE Mark
      BY <1>1, <1>2, <2>2 DEF Mark, Unmoved, TypeOK
    <2>3. CASE Finish
      BY <1>1, <1>2, <2>3 DEF Finish, Unmoved, TypeOK
    <2>4. CASE ExpireUnhandled \/ ExpireInvalid
      <3>1. WriteBack /\ loop.handle \in excused /\ loop.handle \in Ids
        BY <1>1, <2>4 DEF ExpireUnhandled, ExpireInvalid, LoopAt, Justified, ExpiringExcused,
                          TypeOK, Events
      <3> QED
        BY <1>1, <1>2, <3>1 DEF WriteBack, Store, Unmoved, TypeOK
    <2> QED
      BY <2>1, <2>2, <2>3, <2>4 DEF LoopStep
  <1>4. /\ \A q \in Callers \ {EventThread} : call'[q] = call[q]
        /\ call'[EventThread].step \notin {"scan", "erase"}
        /\ call'[EventThread].op \notin ClientOps
    <2>1. CASE LoopTail
      BY <1>1, <1>2, <2>1 DEF LoopTail, TypeOK, NoCall, ClientOps
    <2>2. CASE ~LoopTail
      <3>1. UNCHANGED call
        BY <2>2 DEF LoopStep, Pop, LoopLookup, Mark, ExpireUnhandled, ExpireInvalid, WriteBack,
                    HandleEvent, Finish
      <3> QED
        BY <1>2, <3>1 DEF ClientOps
    <2> QED
      BY <2>1, <2>2
  <1>5. ScanHolds' /\ RemovedExcused'
    BY <1>1, <1>2, <1>3, <1>4, AsideKept
  <1>6. InOrder'
    BY <1>1, <1>2, <1>3, <1>4, StillInOrder DEF ClientOps
  <1> QED
    BY <1>1, <1>2, <1>5, <1>6 DEF WInv

LEMMA NextInOrder == ASSUME Disciplined PROVE SInv /\ WInv /\ [Next]_vars => WInv'
  <1> SUFFICES ASSUME SInv, WInv, [Next]_vars
               PROVE  WInv'
    OBVIOUS
  <1>1. IInv /\ CallShape /\ Justified
    BY DEF SInv
  <1>2. ASSUME NEW p \in Callers, CallStep(p)
        PROVE  WInv'
    BY <1>1, <1>2, CleanupInOrder, SubscribeInOrder, UnsubscribeInOrder DEF CallStep
  <1>3. ASSUME NEW p \in Callers, NEW kind \in {"subscribe", "unsubscribe"}, NEW h \in Handles,
               Call(p, kind, h)
        PROVE  WInv'
    BY <1>1, <1>3, CallInOrder DEF ClientOps
  <1>4. CASE LoopStep
    BY <1>1, <1>4, LoopInOrder
  <1>5. ASSUME (\E ready \in SUBSET monitored : EpollWait(ready)) \/ MonitorStep \/ Idle \/ UNCHANGED vars
        PROVE  WInv'
    <2>1. UNCHANGED <<subscribers, handlers, tableLock, removedKeys, monitored, call, held, excused>>
      BY <1>5 DEF EpollWait, MonitorStep, PushNotification, Idle, vars, tables, kernel, history
    <2>2. \A h : Unmoved(h)
      BY <2>1 DEF Unmoved
    <2>3. InOrder'
      BY <2>1, <2>2, StillInOrder DEF WInv
    <2>4. ScanHolds' /\ RemovedExcused'
      BY <2>1 DEF WInv, ScanHolds, RemovedExcused, At, Expirable
    <2> QED
      BY <2>1, <2>3, <2>4 DEF WInv
  <1> QED
    BY <1>2, <1>3, <1>4, <1>5 DEF Next

LEMMA InitInOrder == Init => WInv
  <1> SUFFICES ASSUME Init
               PROVE  WInv
    OBVIOUS
  <1>1. \A p \in Callers : call[p].step = "idle" /\ call[p].op = "none"
    BY DEF Init, NoCall
  <1>2. InOrder
    BY <1>1 DEF Init, InOrder, Resting, Watched, Own, Subscribing, Unsubscribing
  <1>3. ScanHolds /\ RemovedExcused
    BY <1>1, ThreadAssumption DEF Init, ScanHolds, RemovedExcused, At
  <1> QED
    BY <1>2, <1>3 DEF WInv, Init

LEMMA AlwaysInOrder == ASSUME Disciplined PROVE Spec => [](SInv /\ WInv)
  <1>1. Init => SInv /\ WInv
    BY InitService, InitInOrder
  <1>2. SInv /\ WInv /\ [Next]_vars => (SInv /\ WInv)'
    BY NextService, NextInOrder
  <1> QED
    BY <1>1, <1>2, PTL DEF Spec

\* Reactor.hpp subscribe, unsubscribe, cleanupExpired and eventProcessingThread: when no two
\* calls about one handle overlap, a client that holds a subscription is in force, context,
\* epoll interest and handler, unless one of the three windows has hit its handle.
THEOREM SubscriptionsStayInForce == ASSUME Disciplined PROVE Spec => []LostOnlyInWindows
  <1>1. SInv /\ WInv => LostOnlyInWindows
    BY DEF WInv, InOrder, Resting, LostOnlyInWindows, Ids
  <1> QED
    BY <1>1, AlwaysInOrder, PTL

\* Reactor.hpp subscribeImpl and unsubscribe: outside the same windows a handle that nobody
\* holds has no context and no interest left, and unregisterListener is called only for a
\* handle that the demultiplexer has.
THEOREM LeavesNothingBehind == ASSUME Disciplined PROVE Spec => []NothingLeftBehind
  <1>1. SInv /\ WInv => NothingLeftBehind
    <2> SUFFICES ASSUME SInv, WInv
                 PROVE  NothingLeftBehind
      OBVIOUS
    <2>1. \A h \in Handles \ {NullHandle} :
              h \notin held /\ Quiet(h) /\ h \notin excused =>
                  subscribers[h] = Absent /\ h \notin monitored
      BY DEF WInv, InOrder, Resting, Ids
    <2>2. ASSUME NEW p \in Callers, At(p, "unregister"), call[p].handle \notin excused
          PROVE  call[p].handle \in monitored
      <3>1. Own(p, call[p].handle) /\ call[p].handle \in Ids
        BY <2>2 DEF SInv, CallShape, At, Own, Unsubscribing, IInv, TypeOK, Calls
      <3>2. Midway(call[p].handle, call[p].step, call[p].found)
        BY <2>2, <3>1 DEF WInv, InOrder
      <3> QED
        BY <2>2, <3>2 DEF Midway, At
    <2> QED
      BY <2>1, <2>2 DEF NothingLeftBehind, UnregistersMonitored
  <1> QED
    BY <1>1, AlwaysInOrder, PTL

-----------------------------------------------------------------------------
(* TableCalls: the sorted vector implements the map *)

PairType == [key : Keys, value : Values]

KeysIn(content) == {content[i].key : i \in 1..Len(content)}

Sorted(content) == \A i, j \in 1..Len(content) : i < j => content[i].key < content[j].key

\* The function and the sequence hold the same pairs.
SamePairs(f, content) ==
    /\ content \in Seq(PairType) /\ Sorted(content)
    /\ DOMAIN f = KeysIn(content) /\ f = [k \in DOMAIN f |-> f[k]]
    /\ \A i \in 1..Len(content) : f[content[i].key] = content[i].value

IsTable(table) ==
    table = [content |-> table.content, locked |-> table.locked] /\ table.locked \in BOOLEAN

Same(one, other) ==
    /\ IsTable(one) /\ IsTable(other) /\ one.locked = other.locked
    /\ SamePairs(one.content, other.content)

Part == Table!map_get_subsection_for(map, section.asked)

TablesInv ==
    /\ Same(map, vector)
    /\ removed_keys \subseteq KeysIn(vector.content)
    /\ removed_keys # {} => section = NewSection
    /\ section = [asked |-> section.asked, part |-> section.part]
    /\ section.asked \subseteq Keys
    /\ Same(Part, section.part) /\ ~section.part.locked

-----------------------------------------------------------------------------
(* Tables *)

\* A set of numbers has a least one.
LEMMA LeastOf ==
  ASSUME NEW T, T \subseteq Nat, T # {}
  PROVE  \E x \in T : \A y \in T : x <= y
  <1> DEFINE R == OpToRel(<, Nat)
  <1>1. IsWellFoundedOn(R, Nat)
    BY NatLessThanWellFounded
  <1> HIDE DEF R
  <1>2. PICK x \in T : \A y \in T : ~ (<<y, x>> \in R)
    BY <1>1, WFMin
  <1>3. \A y \in T : ~ (y < x)
    BY <1>2 DEF R, OpToRel
  <1> QED
    BY <1>3

\* What an element of the sequence is.
LEMMA PairFields ==
  ASSUME NEW content \in Seq(PairType), NEW i \in 1..Len(content)
  PROVE  /\ content[i] \in PairType /\ content[i].key \in Keys /\ content[i].key \in Int
         /\ content[i].value \in Values
         /\ content[i] = Table!Pair(content[i].key, content[i].value)
  <1>1. content[i] \in PairType
    OBVIOUS
  <1> QED
    BY <1>1, KeysAssumption DEF PairType, Table!Pair

\* A key is searched from the front; 0 stands for none.
LEMMA PositionOf ==
  ASSUME NEW table, NEW key, IsTable(table), table.content \in Seq(PairType)
  PROVE  LET at == Table!get_value_position_for(table, key) IN
         \/ at = 0 /\ key \notin KeysIn(table.content)
         \/ /\ at \in 1..Len(table.content) /\ table.content[at].key = key
            /\ key \in KeysIn(table.content)
  <1> DEFINE c == table.content
             at == Table!get_value_position_for(table, key)
             T == {i \in 1..Len(c) : c[i].key = key}
  <1>0. DOMAIN c = 1..Len(c) /\ Len(c) \in Nat
    OBVIOUS
  <1>1. CASE T = {}
    <2>1. \A i \in DOMAIN c : c[i].key # key
      BY <1>0, <1>1
    <2>2. at = 0
      BY <2>1 DEF Table!get_value_position_for
    <2> QED
      BY <1>0, <2>1, <2>2 DEF KeysIn
  <1>2. CASE T # {}
    <2>0. T \subseteq Nat
      BY <1>0
    <2> HIDE DEF T
    <2>1. PICK x \in T : \A y \in T : x <= y
      BY <1>2, <2>0, LeastOf
    <2> USE DEF T
    <2>2. x \in DOMAIN c /\ c[x].key = key /\ \A j \in 1..(x - 1) : c[j].key # key
      BY <1>0, <2>1
    <2>3. at \in DOMAIN c /\ c[at].key = key
      <3> HIDE DEF c
      <3>1. at = CHOOSE i \in DOMAIN c : c[i].key = key /\ \A j \in 1..(i - 1) : c[j].key # key
        BY <2>2 DEF Table!get_value_position_for, c
      <3> QED
        BY <3>1, <2>2
    <2> QED
      BY <1>0, <2>3 DEF KeysIn
  <1> QED
    BY <1>1, <1>2

\* A sorted sequence with one more pair at its end can be sorted, and sorting moves
\* its elements only.
LEMMA CanBeSorted ==
  ASSUME NEW content \in Seq(PairType), Sorted(content),
         NEW pair \in PairType, pair.key \notin KeysIn(content)
  PROVE  LET all == Append(content, pair)
             places == DOMAIN all IN
         \E p \in [places -> places] :
            /\ \A i \in places : \E j \in places : p[j] = i
            /\ \A i, j \in places : i < j => ~(all[p[j]].key < all[p[i]].key)
  <1> DEFINE n == Len(content)
             all == Append(content, pair)
             T == {i \in 1..(n + 1) : i = n + 1 \/ pair.key < content[i].key}
  <1>1. /\ n \in Nat /\ DOMAIN all = 1..(n + 1) /\ all[n + 1] = pair
        /\ \A i \in 1..n : all[i] = content[i]
    OBVIOUS
  <1>2. PICK m \in T : \A y \in T : m <= y
    <2>1. T \subseteq Nat /\ n + 1 \in T
      BY <1>1
    <2> QED
      BY <2>1, LeastOf
  <1>3. pair.key \in Int /\ \A i \in 1..n : content[i].key \in Int /\ content[i].key # pair.key
    BY PairFields, KeysAssumption DEF PairType, KeysIn
  <1>4. \A i \in 1..n : i < m => content[i].key < pair.key
    BY <1>1, <1>2, <1>3
  <1>5. \A i \in 1..n : m <= i => pair.key < content[i].key
    <2> SUFFICES ASSUME NEW i \in 1..n, m <= i  PROVE pair.key < content[i].key
      OBVIOUS
    <2>1. m \in 1..n /\ pair.key < content[m].key
      BY <1>1, <1>2
    <2>2. CASE m = i
      BY <2>1, <2>2
    <2>3. CASE m < i
      <3>1. content[m].key < content[i].key
        BY <2>1, <2>3 DEF Sorted
      <3> QED
        BY <2>1, <3>1, <1>3
    <2> QED
      BY <2>1, <2>2, <2>3
  <1> DEFINE p == [i \in 1..(n + 1) |-> IF i < m THEN i ELSE IF i = m THEN n + 1 ELSE i - 1]
  <1>6. m \in 1..(n + 1)
    BY <1>2
  <1>7. p \in [1..(n + 1) -> 1..(n + 1)]
    BY <1>1, <1>6
  <1>8. ASSUME NEW i \in 1..(n + 1)
        PROVE  \E j \in 1..(n + 1) : p[j] = i
    <2>1. CASE i < m
      BY <2>1, <1>1, <1>6
    <2>2. CASE i = n + 1
      BY <2>2, <1>1, <1>6
    <2>3. CASE ~(i < m) /\ i # n + 1
      <3>1. i + 1 \in 1..(n + 1) /\ p[i + 1] = i
        BY <2>3, <1>1, <1>6
      <3> QED
        BY <3>1
    <2> QED
      BY <2>1, <2>2, <2>3
  <1>9. ASSUME NEW i \in 1..(n + 1), NEW j \in 1..(n + 1), i < j
        PROVE  ~(all[p[j]].key < all[p[i]].key)
    <2> HIDE DEF all
    <2>0. \A a, b \in 1..n : a < b => content[a].key < content[b].key
      BY DEF Sorted
    <2>1. CASE j < m
      <3>1. p[i] = i /\ p[j] = j /\ i \in 1..n /\ j \in 1..n
        BY <2>1, <1>9, <1>1, <1>6
      <3> HIDE DEF p
      <3> QED
        BY <3>1, <1>1, <1>3, <2>0, <1>9
    <2>2. CASE j = m
      <3>1. p[i] = i /\ p[j] = n + 1 /\ i \in 1..n /\ i < m
        BY <2>2, <1>9, <1>1, <1>6
      <3> HIDE DEF p
      <3> QED
        BY <3>1, <1>1, <1>3, <1>4
    <2>3. CASE m < j /\ i < m
      <3>1. p[i] = i /\ p[j] = j - 1 /\ i \in 1..n /\ j - 1 \in 1..n
        BY <2>3, <1>9, <1>1, <1>6
      <3>2. i < j - 1
        BY <2>3, <1>9, <1>1, <1>6
      <3> HIDE DEF p
      <3> QED
        BY <3>1, <3>2, <1>1, <1>3, <2>0
    <2>4. CASE m < j /\ i = m
      <3>1. p[i] = n + 1 /\ p[j] = j - 1 /\ j - 1 \in 1..n /\ m <= j - 1
        BY <2>4, <1>9, <1>1, <1>6
      <3> HIDE DEF p
      <3>2. pair.key < content[j - 1].key
        BY <3>1, <1>5
      <3>3. all[p[i]].key = pair.key /\ all[p[j]].key = content[j - 1].key
        BY <3>1, <1>1
      <3>4. content[j - 1].key \in Int
        BY <3>1, <1>3
      <3> QED
        BY <3>2, <3>3, <3>4, <1>3
    <2>5. CASE m < j /\ m < i
      <3>1. p[i] = i - 1 /\ p[j] = j - 1 /\ i - 1 \in 1..n /\ j - 1 \in 1..n /\ i - 1 < j - 1
        BY <2>5, <1>9, <1>1, <1>6
      <3> HIDE DEF p
      <3> QED
        BY <3>1, <1>1, <1>3, <2>0
    <2> QED
      BY <2>1, <2>2, <2>3, <2>4, <2>5, <1>6, <1>9
  <1> HIDE DEF p, all, T
  <1>10. DOMAIN all = 1..(n + 1)
    BY <1>1
  <1> QED
    BY <1>7, <1>8, <1>9, <1>10 DEF all

\* internal_sort after a pair was added at the end.
LEMMA SortKeeps ==
  ASSUME NEW content \in Seq(PairType), Sorted(content),
         NEW pair \in PairType, pair.key \notin KeysIn(content)
  PROVE  LET sorted == Table!internal_sort(Append(content, pair)) IN
         /\ sorted \in Seq(PairType) /\ Sorted(sorted)
         /\ \A i \in 1..Len(sorted) :
               sorted[i] = pair \/ \E j \in 1..Len(content) : sorted[i] = content[j]
         /\ \E i \in 1..Len(sorted) : sorted[i] = pair
         /\ \A j \in 1..Len(content) : \E i \in 1..Len(sorted) : sorted[i] = content[j]
  <1> DEFINE n == Len(content)
             all == Append(content, pair)
             places == DOMAIN all
             sorted == Table!internal_sort(all)
             Orders(p) == /\ \A i \in places : \E j \in places : p[j] = i
                          /\ \A i, j \in places : i < j => ~(all[p[j]].key < all[p[i]].key)
             order == CHOOSE p \in [places -> places] : Orders(p)
  <1>1. /\ n \in Nat /\ places = 1..(n + 1) /\ all[n + 1] = pair
        /\ \A i \in 1..n : all[i] = content[i]
        /\ all \in Seq(PairType)
    OBVIOUS
  <1>2. order \in [places -> places] /\ Orders(order)
    <2>1. \E p \in [places -> places] : Orders(p)
      BY CanBeSorted
    <2> HIDE DEF Orders
    <2> QED
      BY <2>1
  <1>3. sorted = [i \in places |-> all[order[i]]]
    BY DEF Table!internal_sort
  <1> HIDE DEF order, sorted, all
  <1>4. \A i \in 1..(n + 1) : sorted[i] = all[order[i]] /\ order[i] \in 1..(n + 1)
    BY <1>1, <1>2, <1>3
  <1>5. \A i \in 1..(n + 1) : all[i] \in PairType /\ all[i].key \in Int
    <2>1. \A i \in 1..(n + 1) : all[i] \in PairType
      BY <1>1
    <2>2. \A q \in PairType : q.key \in Int
      BY KeysAssumption DEF PairType
    <2> QED
      BY <2>1, <2>2
  <1>6. sorted \in Seq(PairType) /\ Len(sorted) = n + 1
    <2>1. sorted \in [1..(n + 1) -> PairType]
      BY <1>1, <1>3, <1>4, <1>5
    <2> QED
      BY <2>1, <1>1
  <1>7. \A i, j \in 1..(n + 1) : i # j => all[i].key # all[j].key
    <2>1. \A i, j \in 1..n : i # j => content[i].key # content[j].key
      <3> SUFFICES ASSUME NEW i \in 1..n, NEW j \in 1..n, i < j
                   PROVE  content[i].key # content[j].key
        BY <1>1
      <3>1. content[i].key < content[j].key /\ content[i].key \in Int /\ content[j].key \in Int
        BY PairFields DEF Sorted
      <3> QED
        BY <3>1
    <2>2. \A i \in 1..n : content[i].key # pair.key
      BY DEF KeysIn
    <2> QED
      BY <1>1, <2>1, <2>2
  <1>8. Sorted(sorted)
    <2> SUFFICES ASSUME NEW i \in 1..(n + 1), NEW j \in 1..(n + 1), i < j
                 PROVE  sorted[i].key < sorted[j].key
      BY <1>6 DEF Sorted
    <2>1. order[i] # order[j]
      <3>1. order \in Surjection(places, places)
        BY <1>2 DEF Surjection
      <3>2. IsFiniteSet(places)
        BY <1>1, FS_Interval
      <3>3. order \in Injection(places, places)
        BY <3>1, <3>2, FS_SurjSameCardinalityImpliesInj
      <3>4. i \in places /\ j \in places /\ i # j
        BY <1>1
      <3> QED
        BY <3>3, <3>4 DEF Injection, IsInjective
    <2>2. ~(all[order[j]].key < all[order[i]].key)
      BY <1>1, <1>2
    <2>3. all[order[i]].key # all[order[j]].key
      BY <2>1, <1>4, <1>7
    <2> QED
      BY <2>2, <2>3, <1>4, <1>5
  <1>9. \A i \in 1..Len(sorted) :
           sorted[i] = pair \/ \E j \in 1..Len(content) : sorted[i] = content[j]
    <2> SUFFICES ASSUME NEW i \in 1..(n + 1)
                 PROVE  sorted[i] = pair \/ \E j \in 1..n : sorted[i] = content[j]
      BY <1>6
    <2>1. order[i] = n + 1 \/ order[i] \in 1..n
      BY <1>4, <1>1
    <2> QED
      BY <2>1, <1>1, <1>4
  <1>10. ASSUME NEW k \in 1..(n + 1)
         PROVE  \E i \in 1..Len(sorted) : sorted[i] = all[k]
    <2>1. PICK i \in 1..(n + 1) : order[i] = k
      BY <1>1, <1>2
    <2> QED
      BY <2>1, <1>4, <1>6
  <1>11. \E i \in 1..Len(sorted) : sorted[i] = pair
    BY <1>10, <1>1
  <1>12. \A j \in 1..n : \E i \in 1..Len(sorted) : sorted[i] = content[j]
    <2> SUFFICES ASSUME NEW j \in 1..n PROVE \E i \in 1..Len(sorted) : sorted[i] = content[j]
      OBVIOUS
    <2>1. j \in 1..(n + 1) /\ all[j] = content[j]
      BY <1>1
    <2> QED
      BY <2>1, <1>10
  <1> QED
    BY <1>6, <1>8, <1>9, <1>11, <1>12 DEF sorted, all

LEMMA EmptyTables ==
  Same(Table!NewTable, Table!NewTable)
  <1>1. <<>> \in Seq(PairType) /\ Len(<<>>) = 0 /\ DOMAIN <<>> = {}
    OBVIOUS
  <1>2. <<>> = [k \in DOMAIN <<>> |-> <<>>[k]]
    OBVIOUS
  <1> QED
    BY <1>1, <1>2 DEF Same, IsTable, SamePairs, Sorted, KeysIn, Table!NewTable

\* A pair is added whose key the table does not have.
LEMMA InsertSame ==
  ASSUME NEW f, NEW content, SamePairs(f, content),
         NEW key \in Keys, NEW value \in Values, key \notin KeysIn(content)
  PROVE  SamePairs([k \in DOMAIN f \cup {key} |-> IF k = key THEN value ELSE f[k]],
                   Table!internal_sort(Append(content, Table!Pair(key, value))))
  <1> DEFINE pair == Table!Pair(key, value)
             s == Table!internal_sort(Append(content, pair))
             g == [k \in DOMAIN f \cup {key} |-> IF k = key THEN value ELSE f[k]]
  <1>1. pair \in PairType /\ pair.key = key /\ pair.value = value
    BY DEF Table!Pair, PairType
  <1>2. content \in Seq(PairType) /\ Sorted(content)
    BY DEF SamePairs
  <1>3. /\ s \in Seq(PairType) /\ Sorted(s)
        /\ \A i \in 1..Len(s) : s[i] = pair \/ \E j \in 1..Len(content) : s[i] = content[j]
        /\ \E i \in 1..Len(s) : s[i] = pair
        /\ \A j \in 1..Len(content) : \E i \in 1..Len(s) : s[i] = content[j]
    <2> HIDE DEF pair
    <2> QED
      BY <1>1, <1>2, SortKeeps
  <1> HIDE DEF s, pair
  <1>4. KeysIn(s) = KeysIn(content) \cup {key}
    <2>1. ASSUME NEW k \in KeysIn(s)
          PROVE  k \in KeysIn(content) \cup {key}
      <3>1. PICK i \in 1..Len(s) : k = s[i].key
        BY DEF KeysIn
      <3> QED
        BY <3>1, <1>1, <1>3 DEF KeysIn
    <2>2. ASSUME NEW k \in KeysIn(content)
          PROVE  k \in KeysIn(s)
      <3>1. PICK j \in 1..Len(content) : k = content[j].key
        BY DEF KeysIn
      <3>2. PICK i \in 1..Len(s) : s[i] = content[j]
        BY <1>3
      <3> QED
        BY <3>1, <3>2 DEF KeysIn
    <2>3. key \in KeysIn(s)
      BY <1>1, <1>3 DEF KeysIn
    <2> QED
      BY <2>1, <2>2, <2>3
  <1>5. DOMAIN g = KeysIn(s) /\ g = [k \in DOMAIN g |-> g[k]]
    BY <1>4 DEF SamePairs
  <1>6. \A i \in 1..Len(s) : g[s[i].key] = s[i].value
    <2> SUFFICES ASSUME NEW i \in 1..Len(s) PROVE g[s[i].key] = s[i].value
      OBVIOUS
    <2>1. CASE s[i] = pair
      BY <2>1, <1>1
    <2>2. CASE \E j \in 1..Len(content) : s[i] = content[j]
      <3>1. PICK j \in 1..Len(content) : s[i] = content[j]
        BY <2>2
      <3>2. s[i].key \in KeysIn(content) /\ f[s[i].key] = s[i].value
        BY <3>1 DEF SamePairs, KeysIn
      <3>3. s[i].key # key /\ s[i].key \in DOMAIN f
        BY <3>2 DEF SamePairs
      <3> QED
        BY <3>2, <3>3
    <2> QED
      BY <2>1, <2>2, <1>3
  <1> HIDE DEF g
  <1> QED
    BY <1>3, <1>5, <1>6 DEF SamePairs, g, s, pair

\* The pair at a place gets another value.
LEMMA ReplaceSame ==
  ASSUME NEW f, NEW content, SamePairs(f, content), NEW at \in 1..Len(content),
         NEW value \in Values
  PROVE  SamePairs([k \in DOMAIN f \cup {content[at].key} |->
                       IF k = content[at].key THEN value ELSE f[k]],
                   [content EXCEPT ![at].value = value])
  <1> DEFINE key == content[at].key
             s == [content EXCEPT ![at].value = value]
             g == [k \in DOMAIN f \cup {key} |-> IF k = key THEN value ELSE f[k]]
  <1>1. content \in Seq(PairType) /\ Sorted(content)
    BY DEF SamePairs
  <1>2. \A i \in 1..Len(content) : content[i] \in PairType
    BY <1>1
  <1>3. /\ s \in Seq(PairType) /\ Len(s) = Len(content)
        /\ \A i \in 1..Len(content) :
              /\ s[i].key = content[i].key
              /\ s[i].value = IF i = at THEN value ELSE content[i].value
    <2>1. [content[at] EXCEPT !.value = value] = [key |-> key, value |-> value]
      BY <1>2 DEF PairType
    <2>2. [content[at] EXCEPT !.value = value] \in PairType
      BY <2>1, <1>2 DEF PairType
    <2>3. s = [content EXCEPT ![at] = [content[at] EXCEPT !.value = value]]
      OBVIOUS
    <2>4. s \in Seq(PairType) /\ Len(s) = Len(content)
      BY <2>2, <2>3, <1>1
    <2>5. ASSUME NEW i \in 1..Len(content)
          PROVE  /\ s[i].key = content[i].key
                 /\ s[i].value = IF i = at THEN value ELSE content[i].value
      <3>1. i = at => s[i] = [key |-> key, value |-> value]
        BY <2>1, <2>3, <1>1
      <3>2. i # at => s[i] = content[i]
        BY <1>1
      <3> QED
        BY <3>1, <3>2
    <2> QED
      BY <2>4, <2>5
  <1> HIDE DEF s
  <1>4. Sorted(s) /\ KeysIn(s) = KeysIn(content) /\ key \in KeysIn(content)
    BY <1>1, <1>3 DEF Sorted, KeysIn
  <1>5. DOMAIN g = KeysIn(s) /\ g = [k \in DOMAIN g |-> g[k]]
    BY <1>4 DEF SamePairs
  <1>6. \A i \in 1..Len(s) : g[s[i].key] = s[i].value
    <2> SUFFICES ASSUME NEW i \in 1..Len(content) PROVE g[s[i].key] = s[i].value
      BY <1>3
    <2>1. i = at \/ content[i].key # key
      <3>1. content[i].key \in Int /\ key \in Int
        BY <1>1, PairFields
      <3>2. i < at => content[i].key < key
        BY <1>1 DEF Sorted
      <3>3. at < i => key < content[i].key
        BY <1>1 DEF Sorted
      <3> QED
        BY <3>1, <3>2, <3>3
    <2>2. content[i].key \in DOMAIN f /\ f[content[i].key] = content[i].value
      BY DEF SamePairs, KeysIn
    <2> QED
      BY <2>1, <2>2, <1>3
  <1> HIDE DEF g
  <1> QED
    BY <1>3, <1>4, <1>5, <1>6 DEF SamePairs, g, s

\* A pair is taken out.
LEMMA RemoveSame ==
  ASSUME NEW f, NEW content, SamePairs(f, content), NEW at \in 1..Len(content)
  PROVE  SamePairs([k \in DOMAIN f \ {content[at].key} |-> f[k]],
                   SubSeq(content, 1, at - 1) \o SubSeq(content, at + 1, Len(content)))
  <1> DEFINE key == content[at].key
             n == Len(content)
             s == SubSeq(content, 1, at - 1) \o SubSeq(content, at + 1, n)
             g == [k \in DOMAIN f \ {key} |-> f[k]]
             back(i) == IF i < at THEN i ELSE i + 1
  <1>1. content \in Seq(PairType) /\ Sorted(content) /\ n \in Nat /\ at \in 1..n
    BY DEF SamePairs
  <1>2. /\ s \in Seq(PairType) /\ Len(s) = n - 1
        /\ \A i \in 1..(n - 1) : s[i] = content[back(i)]
    <2> DEFINE a == SubSeq(content, 1, at - 1)
               b == SubSeq(content, at + 1, n)
    <2>1. a \in Seq(PairType) /\ b \in Seq(PairType) /\ Len(a) = at - 1 /\ Len(b) = n - at
      BY <1>1
    <2>2. /\ \A i \in 1..(at - 1) : a[i] = content[i]
          /\ \A i \in 1..(n - at) : b[i] = content[at + i]
      BY <1>1
    <2> HIDE DEF a, b
    <2>3. a \o b \in Seq(PairType) /\ Len(a \o b) = n - 1
      BY <2>1, <1>1
    <2>4. ASSUME NEW i \in 1..(n - 1)
          PROVE  (a \o b)[i] = content[back(i)]
      <3>1. CASE i < at
        BY <3>1, <2>1, <2>2, <1>1
      <3>2. CASE ~(i < at)
        <4>1. i - (at - 1) \in 1..(n - at) /\ at + (i - (at - 1)) = i + 1
          BY <3>2, <1>1
        <4>2. (a \o b)[i] = b[i - (at - 1)]
          <5>1. i \in 1..(Len(a) + Len(b)) /\ ~(i <= Len(a)) /\ i - Len(a) = i - (at - 1)
            BY <3>2, <2>1, <1>1
          <5> QED
            BY <5>1, <2>1, ConcatProperties
        <4>3. b[i - (at - 1)] = content[i + 1]
          BY <4>1, <2>2
        <4> QED
          BY <4>2, <4>3, <3>2, <1>1
      <3> QED
        BY <3>1, <3>2
    <2> QED
      BY <2>3, <2>4 DEF a, b
  <1> HIDE DEF s
  <1>3. \A i \in 1..(n - 1) : back(i) \in 1..n /\ back(i) # at
    BY <1>1
  <1>4. \A i, j \in 1..(n - 1) : i < j => back(i) < back(j)
    BY <1>1
  <1>5. \A j \in 1..n : j # at => \E i \in 1..(n - 1) : back(i) = j
    <2> SUFFICES ASSUME NEW j \in 1..n, j # at
                 PROVE  \E i \in 1..(n - 1) : back(i) = j
      OBVIOUS
    <2>1. CASE j < at
      <3>1. j \in 1..(n - 1) /\ back(j) = j
        BY <2>1, <1>1
      <3> QED
        BY <3>1
    <2>2. CASE at < j
      <3>1. j - 1 \in 1..(n - 1) /\ back(j - 1) = j
        BY <2>2, <1>1
      <3> QED
        BY <3>1
    <2> QED
      BY <2>1, <2>2, <1>1
  <1> HIDE DEF back
  <1>6. \A j \in 1..n : j # at => content[j].key # key
    <2> SUFFICES ASSUME NEW j \in 1..n, j # at PROVE content[j].key # key
      OBVIOUS
    <2>1. content[j].key \in Int /\ key \in Int
      BY <1>1, PairFields
    <2>2. j < at => content[j].key < key
      BY <1>1 DEF Sorted
    <2>3. at < j => key < content[j].key
      BY <1>1 DEF Sorted
    <2> QED
      BY <2>1, <2>2, <2>3, <1>1
  <1>7. Sorted(s)
    BY <1>1, <1>2, <1>3, <1>4 DEF Sorted
  <1>8. KeysIn(s) = KeysIn(content) \ {key}
    <2>1. \A k : k \in KeysIn(s) => k \in KeysIn(content) \ {key}
      BY <1>2, <1>3, <1>6 DEF KeysIn
    <2>2. ASSUME NEW k \in KeysIn(content) \ {key}
          PROVE  k \in KeysIn(s)
      <3>1. PICK j \in 1..n : k = content[j].key
        BY <2>2 DEF KeysIn
      <3>2. j # at
        BY <3>1, <2>2
      <3>3. PICK i \in 1..(n - 1) : back(i) = j
        BY <3>2, <1>5
      <3>4. k = s[i].key /\ i \in 1..Len(s)
        BY <3>1, <3>3, <1>2
      <3> QED
        BY <3>4 DEF KeysIn
    <2> QED
      BY <2>1, <2>2
  <1>9. DOMAIN g = KeysIn(s) /\ g = [k \in DOMAIN g |-> g[k]]
    BY <1>8 DEF SamePairs
  <1>10. \A i \in 1..Len(s) : g[s[i].key] = s[i].value
    <2> SUFFICES ASSUME NEW i \in 1..(n - 1) PROVE g[s[i].key] = s[i].value
      BY <1>2
    <2>1. /\ content[back(i)].key \in DOMAIN f \ {key}
          /\ f[content[back(i)].key] = content[back(i)].value
      BY <1>3, <1>6 DEF SamePairs, KeysIn
    <2> QED
      BY <2>1, <1>2
  <1> HIDE DEF g
  <1> QED
    BY <1>2, <1>7, <1>9, <1>10 DEF SamePairs, g, s

\* Values are given by a function of the values.
LEMMA ChangeSame ==
  ASSUME NEW f, NEW content, SamePairs(f, content), NEW change \in [Values -> Values]
  PROVE  SamePairs([k \in DOMAIN f |-> change[f[k]]],
                   [i \in DOMAIN content |->
                       Table!Pair(content[i].key, change[content[i].value])])
  <1> DEFINE n == Len(content)
             s == [i \in DOMAIN content |->
                      Table!Pair(content[i].key, change[content[i].value])]
             g == [k \in DOMAIN f |-> change[f[k]]]
  <1>1. content \in Seq(PairType) /\ n \in Nat /\ DOMAIN content = 1..n /\ Sorted(content)
    BY DEF SamePairs
  <1>2. \A i \in 1..n : /\ s[i].key = content[i].key /\ s[i].value = change[content[i].value]
                        /\ s[i] \in PairType
    <2> SUFFICES ASSUME NEW i \in 1..n
                 PROVE  /\ s[i].key = content[i].key /\ s[i].value = change[content[i].value]
                        /\ s[i] \in PairType
      OBVIOUS
    <2>1. content[i].key \in Keys /\ content[i].value \in Values
      BY <1>1, PairFields
    <2> QED
      BY <2>1, <1>1 DEF Table!Pair, PairType
  <1>3. s \in Seq(PairType) /\ Len(s) = n
    <2>1. s \in [1..n -> PairType]
      BY <1>1, <1>2
    <2> QED
      BY <2>1, <1>1
  <1> HIDE DEF s
  <1>4. Sorted(s) /\ KeysIn(s) = KeysIn(content)
    BY <1>1, <1>2, <1>3 DEF Sorted, KeysIn
  <1>5. DOMAIN g = KeysIn(s) /\ g = [k \in DOMAIN g |-> g[k]]
    BY <1>4 DEF SamePairs
  <1>6. \A i \in 1..Len(s) : g[s[i].key] = s[i].value
    <2> SUFFICES ASSUME NEW i \in 1..n PROVE g[s[i].key] = s[i].value
      BY <1>3
    <2>1. content[i].key \in DOMAIN f /\ f[content[i].key] = content[i].value
      BY DEF SamePairs, KeysIn
    <2> QED
      BY <2>1, <1>2
  <1> HIDE DEF g
  <1> QED
    BY <1>3, <1>4, <1>5, <1>6 DEF SamePairs, g, s

\* Only the content of a table changes, not whether it is locked.
LEMMA ContentReplaced ==
  ASSUME NEW table, IsTable(table), NEW content
  PROVE  /\ IsTable([table EXCEPT !.content = content])
         /\ [table EXCEPT !.content = content].content = content
         /\ [table EXCEPT !.content = content].locked = table.locked
  <1>1. table = [content |-> table.content, locked |-> table.locked]
    BY DEF IsTable
  <1> DEFINE t == table.content
             l == table.locked
  <1>2. [table EXCEPT !.content = content] = [content |-> content, locked |-> l]
    <2> HIDE DEF t, l
    <2>1. table = [content |-> t, locked |-> l]
      BY <1>1 DEF t, l
    <2> QED
      BY <2>1
  <1> QED
    BY <1>2 DEF IsTable

\* The vector finds the position of exactly the keys that the map has.
LEMMA PositionInSame ==
  ASSUME NEW one, NEW other, Same(one, other), NEW key
  PROVE  LET at == Table!get_value_position_for(other, key) IN
         \/ at = 0 /\ key \notin KeysIn(other.content) /\ key \notin DOMAIN one.content
         \/ /\ at \in 1..Len(other.content) /\ other.content[at].key = key /\ at # 0
            /\ key \in DOMAIN one.content /\ other.content[at].value = one.content[key]
            /\ key \in KeysIn(other.content)
            /\ key \in Keys /\ one.content[key] \in Values
  <1>1. /\ IsTable(other) /\ other.content \in Seq(PairType)
        /\ DOMAIN one.content = KeysIn(other.content)
        /\ \A i \in 1..Len(other.content) :
              one.content[other.content[i].key] = other.content[i].value
    BY DEF Same, SamePairs
  <1> DEFINE at == Table!get_value_position_for(other, key)
  <1>2. \/ at = 0 /\ key \notin KeysIn(other.content)
        \/ /\ at \in 1..Len(other.content) /\ other.content[at].key = key
           /\ key \in KeysIn(other.content)
    BY <1>1, PositionOf
  <1> HIDE DEF at
  <1>3. at \in 1..Len(other.content) =>
           other.content[at].key \in Keys /\ other.content[at].value \in Values /\ at # 0
    BY <1>1, PairFields
  <1> QED
    BY <1>1, <1>2, <1>3 DEF at

\* add_or_update, in both ways it can go.
LEMMA AddTables ==
  ASSUME NEW one, NEW other, Same(one, other), NEW key \in Keys, NEW value \in Values
  PROVE  Same(Table!map_add_or_update(one, key, value)[1],
              Table!vector_add_or_update(other, key, value)[1])
  <1> DEFINE at == Table!get_value_position_for(other, key)
             f == one.content
             c == other.content
             g == [k \in DOMAIN f \cup {key} |-> IF k = key THEN value ELSE f[k]]
             d == IF at # 0 THEN [c EXCEPT ![at].value = value]
                  ELSE Table!internal_sort(Append(c, Table!Pair(key, value)))
  <1>1. IsTable(one) /\ IsTable(other) /\ one.locked = other.locked /\ SamePairs(f, c)
    BY DEF Same
  <1>2. /\ Table!map_add_or_update(one, key, value)[1] = [one EXCEPT !.content = g]
        /\ Table!vector_add_or_update(other, key, value)[1] = [other EXCEPT !.content = d]
    BY DEF Table!map_add_or_update, Table!vector_add_or_update
  <1>3. SamePairs(g, d)
    <2>1. CASE at = 0
      <3>1. key \notin KeysIn(c)
        BY <2>1, PositionInSame
      <3>2. d = Table!internal_sort(Append(c, Table!Pair(key, value)))
        BY <2>1
      <3> HIDE DEF d, at, c, f
      <3> QED
        BY <3>1, <3>2, <1>1, InsertSame
    <2>2. CASE at # 0
      <3>1. at \in 1..Len(c) /\ c[at].key = key
        BY <2>2, PositionInSame
      <3>2. d = [c EXCEPT ![at].value = value]
        BY <2>2
      <3> HIDE DEF d, at, c, f
      <3> QED
        BY <3>1, <3>2, <1>1, ReplaceSame
    <2> QED
      BY <2>1, <2>2
  <1> HIDE DEF g, d
  <1> QED
    BY <1>1, <1>2, <1>3, ContentReplaced DEF Same

\* remove, which erases one element at most.
LEMMA RemoveTables ==
  ASSUME NEW one, NEW other, Same(one, other), NEW key
  PROVE  /\ Same(Table!map_remove(one, key), Table!vector_remove(other, key))
         /\ KeysIn(Table!vector_remove(other, key).content) = KeysIn(other.content) \ {key}
  <1> DEFINE at == Table!get_value_position_for(other, key)
             f == one.content
             c == other.content
             g == [k \in DOMAIN f \ {key} |-> f[k]]
             d == IF at = 0 THEN c ELSE SubSeq(c, 1, at - 1) \o SubSeq(c, at + 1, Len(c))
  <1>1. IsTable(one) /\ IsTable(other) /\ one.locked = other.locked /\ SamePairs(f, c)
    BY DEF Same
  <1>2. /\ Table!map_remove(one, key) = [one EXCEPT !.content = g]
        /\ Table!vector_remove(other, key) = [other EXCEPT !.content = d]
    BY DEF Table!map_remove, Table!vector_remove
  <1>3. SamePairs(g, d)
    <2>1. CASE at = 0
      <3>1. key \notin DOMAIN f
        BY <2>1, PositionInSame
      <3>2. f = [k \in DOMAIN f |-> f[k]]
        BY <1>1 DEF SamePairs
      <3>3. DOMAIN f \ {key} = DOMAIN f
        BY <3>1
      <3>4. g = f
        BY <3>2, <3>3
      <3>5. d = c
        BY <2>1
      <3> HIDE DEF g, d, at, c, f
      <3> QED
        BY <3>4, <3>5, <1>1
    <2>2. CASE at # 0
      <3>1. at \in 1..Len(c) /\ c[at].key = key
        BY <2>2, PositionInSame
      <3>2. d = SubSeq(c, 1, at - 1) \o SubSeq(c, at + 1, Len(c))
        BY <2>2
      <3> HIDE DEF d, at, c, f
      <3> QED
        BY <3>1, <3>2, <1>1, RemoveSame
    <2> QED
      BY <2>1, <2>2
  <1>4. KeysIn(d) = KeysIn(c) \ {key}
    <2> HIDE DEF d, c, f
    <2> QED
      BY <1>1, <1>3 DEF SamePairs
  <1> HIDE DEF g, d, f, c
  <1>5. /\ IsTable([one EXCEPT !.content = g]) /\ IsTable([other EXCEPT !.content = d])
        /\ [one EXCEPT !.content = g].content = g /\ [other EXCEPT !.content = d].content = d
        /\ [one EXCEPT !.content = g].locked = one.locked
        /\ [other EXCEPT !.content = d].locked = other.locked
    BY <1>1, ContentReplaced
  <1>6. Same([one EXCEPT !.content = g], [other EXCEPT !.content = d])
    BY <1>1, <1>3, <1>5 DEF Same
  <1>7. KeysIn([other EXCEPT !.content = d].content) = KeysIn(other.content) \ {key}
    BY <1>4, <1>5 DEF c
  <1> QED
    BY <1>2, <1>6, <1>7

\* update_if, which keeps the keys.
LEMMA UpdateTables ==
  ASSUME NEW one, NEW other, Same(one, other), NEW pred, NEW update \in [Values -> Values]
  PROVE  Same(Table!map_update_if(one, pred, update), Table!vector_update_if(other, pred, update))
  <1> DEFINE change == Table!Where(pred, update)
             g == [k \in DOMAIN one.content |-> change[one.content[k]]]
             d == [i \in DOMAIN other.content |->
                      Table!Pair(other.content[i].key, change[other.content[i].value])]
  <1>1. change \in [Values -> Values]
    BY DEF Table!Where
  <1>2. IsTable(one) /\ IsTable(other) /\ one.locked = other.locked
        /\ SamePairs(one.content, other.content)
    BY DEF Same
  <1>3. /\ Table!map_update_if(one, pred, update) = [one EXCEPT !.content = g]
        /\ Table!vector_update_if(other, pred, update) = [other EXCEPT !.content = d]
    BY DEF Table!map_update_if, Table!vector_update_if, Table!map_for_each, Table!vector_for_each
  <1>4. SamePairs(g, d)
    <2> HIDE DEF change
    <2> QED
      BY <1>1, <1>2, ChangeSame
  <1> HIDE DEF g, d
  <1> QED
    BY <1>2, <1>3, <1>4, ContentReplaced DEF Same

\* The subsection that one key more is asked of.
LEMMA AskTables ==
  ASSUME NEW one, NEW other, Same(one, other), NEW asked \in SUBSET Keys, NEW key \in Keys,
         NEW part, Same(Table!map_get_subsection_for(one, asked), part)
  PROVE  /\ Same(Table!map_get_subsection_for(one, asked \cup {key}),
                 Table!vector_subsection_with(part, other, key))
         /\ Table!vector_subsection_with(part, other, key).locked = part.locked
  <1> DEFINE at == Table!get_value_position_for(other, key)
             f == one.content
             mine == Table!map_get_subsection_for(one, asked)
             more == Table!map_get_subsection_for(one, asked \cup {key})
  <1>1. /\ mine.content = [k \in asked \cap DOMAIN f |-> f[k]] /\ mine.locked = FALSE
        /\ mine = [content |-> mine.content, locked |-> FALSE]
        /\ more = [content |-> [k \in (asked \cup {key}) \cap DOMAIN f |-> f[k]], locked |-> FALSE]
    BY DEF Table!map_get_subsection_for
  <1>2. CASE at = 0
    <2>1. key \notin DOMAIN f
      BY <1>2, PositionInSame
    <2>2. (asked \cup {key}) \cap DOMAIN f = asked \cap DOMAIN f
      BY <2>1
    <2>3. more = mine
      BY <1>1, <2>2
    <2>4. Table!vector_subsection_with(part, other, key) = part
      BY <1>2 DEF Table!vector_subsection_with
    <2> QED
      BY <2>3, <2>4
  <1>3. CASE at # 0
    <2>1. key \in DOMAIN f /\ other.content[at].value = f[key] /\ f[key] \in Values
      BY <1>3, PositionInSame
    <2>2. Table!vector_subsection_with(part, other, key) =
             Table!vector_add_or_update(part, key, f[key])[1]
      BY <1>3, <2>1 DEF Table!vector_subsection_with
    <2>3. Table!map_add_or_update(mine, key, f[key])[1] = more
      <3> DEFINE g == [k \in DOMAIN mine.content \cup {key} |->
                          IF k = key THEN f[key] ELSE mine.content[k]]
      <3>1. Table!map_add_or_update(mine, key, f[key])[1] = [mine EXCEPT !.content = g]
        BY DEF Table!map_add_or_update
      <3>2. DOMAIN mine.content = asked \cap DOMAIN f
        BY <1>1
      <3>3. g = [k \in (asked \cup {key}) \cap DOMAIN f |-> f[k]]
        <4>1. DOMAIN mine.content \cup {key} = (asked \cup {key}) \cap DOMAIN f
          BY <3>2, <2>1
        <4>2. \A k \in DOMAIN mine.content : mine.content[k] = f[k]
          BY <1>1, <3>2
        <4>3. \A k \in DOMAIN mine.content \cup {key} :
                 (IF k = key THEN f[key] ELSE mine.content[k]) = f[k]
          BY <4>2
        <4> DEFINE e(k) == IF k = key THEN f[key] ELSE mine.content[k]
                   D == DOMAIN mine.content \cup {key}
        <4>4. \A k \in D : e(k) = f[k]
          BY <4>3
        <4> HIDE DEF e
        <4>5. [k \in D |-> e(k)] = [k \in D |-> f[k]]
          BY <4>4
        <4> QED
          BY <4>1, <4>5 DEF e
      <3>4. [mine EXCEPT !.content = g] = [content |-> g, locked |-> FALSE]
        <4> DEFINE t == mine.content
                   l == mine.locked
        <4>1. mine = [content |-> t, locked |-> l] /\ l = FALSE
          BY <1>1
        <4> HIDE DEF g, mine, t, l
        <4>2. [mine EXCEPT !.content = g] = [content |-> g, locked |-> l]
          BY <4>1
        <4> QED
          BY <4>1, <4>2
      <3> QED
        BY <3>1, <3>3, <3>4, <1>1
    <2>4. Same(mine, part)
      OBVIOUS
    <2>5. Same(Table!map_add_or_update(mine, key, f[key])[1],
               Table!vector_add_or_update(part, key, f[key])[1])
      <3> HIDE DEF mine, f
      <3> QED
        BY <2>1, <2>4, AddTables
    <2>6. Table!vector_add_or_update(part, key, f[key])[1].locked = part.locked
      <3>1. IsTable(part)
        BY <2>4 DEF Same
      <3>2. \E d : Table!vector_add_or_update(part, key, f[key])[1] = [part EXCEPT !.content = d]
        BY DEF Table!vector_add_or_update
      <3> QED
        BY <3>1, <3>2, ContentReplaced
    <2> QED
      BY <2>2, <2>3, <2>5, <2>6
  <1> QED
    BY <1>2, <1>3

-----------------------------------------------------------------------------
(* TableCalls: the invariant *)

\* A subsection that nothing was asked of is an empty table.
LEMMA NothingAsked ==
  ASSUME NEW one
  PROVE  Table!map_get_subsection_for(one, {}) = Table!NewTable
  <1>1. [k \in {} \cap DOMAIN one.content |-> one.content[k]] = <<>>
    OBVIOUS
  <1> QED
    BY <1>1 DEF Table!map_get_subsection_for, Table!NewTable

LEMMA FreshSection ==
  ASSUME section' = NewSection
  PROVE  /\ section' = [asked |-> section'.asked, part |-> section'.part]
         /\ section'.asked \subseteq Keys
         /\ Same(Part', section'.part) /\ ~section'.part.locked
  <1>1. section'.asked = {} /\ section'.part = Table!NewTable
        /\ section' = [asked |-> section'.asked, part |-> section'.part]
    BY DEF NewSection
  <1>2. Part' = Table!NewTable
    BY <1>1, NothingAsked DEF Part
  <1>3. ~Table!NewTable.locked
    BY DEF Table!NewTable
  <1> QED
    BY <1>1, <1>2, <1>3, EmptyTables

\* What a table is copied, moved, assigned or cleared to.
LEMMA CopiesAreSame ==
  ASSUME NEW one, NEW other, Same(one, other)
  PROVE  /\ Same(Table!copied(one), Table!copied(other))
         /\ Same(Table!clear(one), Table!clear(other))
         /\ Same(Table!moved(one)[1], Table!moved(other)[1])
         /\ Same(Table!moved(one)[2], Table!moved(other)[2])
         /\ Same(Table!copyAssigned(one)[1], Table!moveAssigned(other)[1])
  <1>1. IsTable(one) /\ IsTable(other) /\ one.locked = other.locked
        /\ SamePairs(one.content, other.content)
    BY DEF Same
  <1>2. SamePairs(<<>>, <<>>)
    BY EmptyTables DEF Same, Table!NewTable
  <1>3. Same(Table!copied(one), Table!copied(other))
    BY <1>1 DEF Same, IsTable, Table!copied
  <1>4. Same([one EXCEPT !.content = <<>>], [other EXCEPT !.content = <<>>])
    BY <1>1, <1>2, ContentReplaced DEF Same
  <1>5. Same([one EXCEPT !.locked = TRUE], [other EXCEPT !.locked = TRUE])
    <2>1. ASSUME NEW table, IsTable(table)
          PROVE  [table EXCEPT !.locked = TRUE] = [content |-> table.content, locked |-> TRUE]
      <3> DEFINE t == table.content
                 l == table.locked
      <3>1. table = [content |-> t, locked |-> l]
        BY <2>1 DEF IsTable
      <3> HIDE DEF t, l
      <3>2. ASSUME NEW b
            PROVE  [table EXCEPT !.locked = b] = [content |-> t, locked |-> b]
        BY <3>1
      <3> QED
        BY <3>2 DEF t
    <2> QED
      BY <1>1, <2>1 DEF Same, IsTable
  <1> QED
    BY <1>3, <1>4, <1>5
       DEF Table!clear, Table!moved, Table!copyAssigned, Table!moveAssigned

LEMMA TablesInvInit ==
  TablesInit => TablesInv
  <1> SUFFICES ASSUME TablesInit PROVE TablesInv
    OBVIOUS
  <1>1. map = Table!NewTable /\ vector = Table!NewTable /\ removed_keys = {} /\ section = NewSection
    BY DEF TablesInit
  <1>2. section.asked = {} /\ section.part = Table!NewTable
        /\ section = [asked |-> section.asked, part |-> section.part]
    BY <1>1 DEF NewSection
  <1>3. Part = Table!NewTable
    BY <1>2, NothingAsked DEF Part
  <1>4. ~Table!NewTable.locked
    BY DEF Table!NewTable
  <1> QED
    BY <1>1, <1>2, <1>3, <1>4, EmptyTables DEF TablesInv

LEMMA TablesInvStep ==
  TablesInv /\ [TablesNext]_tablesVars => TablesInv'
  <1> SUFFICES ASSUME TablesInv, [TablesNext]_tablesVars PROVE TablesInv'
    OBVIOUS
  <1>0. /\ Same(map, vector)
        /\ removed_keys \subseteq KeysIn(vector.content)
        /\ removed_keys # {} => section = NewSection
        /\ section = [asked |-> section.asked, part |-> section.part]
        /\ section.asked \subseteq Keys
        /\ Same(Part, section.part) /\ ~section.part.locked
    BY DEF TablesInv
  <1>1. ASSUME Operation, Same(map', vector'), removed_keys' \subseteq KeysIn(vector'.content)
        PROVE  TablesInv'
    <2>1. section' = NewSection
      BY <1>1 DEF Operation
    <2> QED
      BY <1>1, <2>1, FreshSection DEF TablesInv
  <1>2. ASSUME Operation, Same(map', vector'), UNCHANGED removed_keys
        PROVE  TablesInv'
    BY <1>1, <1>2 DEF Operation
  <1>3. ASSUME NEW key \in Keys, NEW value \in Values, AddOrUpdate(key, value)
        PROVE  TablesInv'
    BY <1>0, <1>2, <1>3, AddTables DEF AddOrUpdate
  <1>4. ASSUME NEW key \in Keys, RemoveKey(key)
        PROVE  TablesInv'
    BY <1>0, <1>2, <1>4, RemoveTables DEF RemoveKey
  <1>5. ASSUME NEW key \in Keys, RemoveNext(key)
        PROVE  TablesInv'
    <2>1. /\ map' = Table!map_remove(map, key) /\ vector' = Table!vector_remove(vector, key)
          /\ removed_keys' = removed_keys \ {key} /\ section' = section
          /\ section = NewSection
      BY <1>0, <1>5 DEF RemoveNext
    <2>2. Same(map', vector') /\ KeysIn(vector'.content) = KeysIn(vector.content) \ {key}
      BY <1>0, <2>1, RemoveTables
    <2>3. removed_keys' \subseteq KeysIn(vector'.content)
      BY <1>0, <2>1, <2>2
    <2>4. section' = NewSection /\ NewSection' = NewSection
      BY <2>1 DEF NewSection, Table!NewTable
    <2>5. /\ section' = [asked |-> section'.asked, part |-> section'.part]
          /\ section'.asked \subseteq Keys
          /\ Same(Part', section'.part) /\ ~section'.part.locked
      BY <2>4, FreshSection
    <2> QED
      BY <2>2, <2>3, <2>4, <2>5 DEF TablesInv
  <1>6. ASSUME NEW key \in Keys, AskFor(key)
        PROVE  TablesInv'
    <2>1. /\ section'.asked = section.asked \cup {key}
          /\ section'.part = Table!vector_subsection_with(section.part, vector, key)
          /\ section' = [asked |-> section'.asked, part |-> section'.part]
          /\ UNCHANGED <<map, vector, removed_keys>> /\ removed_keys = {}
      BY <1>6 DEF AskFor
    <2>2. Part' = Table!map_get_subsection_for(map, section.asked \cup {key})
      BY <2>1 DEF Part
    <2>3. Same(Part', section'.part) /\ section'.part.locked = section.part.locked
      BY <1>0, <2>1, <2>2, AskTables DEF Part
    <2> QED
      BY <1>0, <2>1, <2>3 DEF TablesInv
  <1>7. ASSUME NEW pred \in SUBSET Values, RemoveIf(pred)
        PROVE  TablesInv'
    <2>1. Operation /\ map' = map /\ vector' = vector
          /\ removed_keys' = Table!vector_removed_keys(vector, pred)
      BY <1>7 DEF RemoveIf
    <2>2. vector.content \in Seq(PairType)
      BY <1>0 DEF Same, SamePairs
    <2>3. Table!vector_removed_keys(vector, pred) \subseteq KeysIn(vector.content)
      BY <2>2 DEF Table!vector_removed_keys, KeysIn
    <2>4. Same(map', vector') /\ removed_keys' \subseteq KeysIn(vector'.content)
      BY <1>0, <2>1, <2>3
    <2> QED
      BY <1>1, <2>1, <2>4
  <1>8. ASSUME NEW pred \in SUBSET Values, NEW update \in [Values -> Values],
               UpdateIf(pred, update)
        PROVE  TablesInv'
    BY <1>0, <1>2, <1>8, UpdateTables DEF UpdateIf
  <1>9. ASSUME Clear
        PROVE  TablesInv'
    BY <1>0, <1>2, <1>9, CopiesAreSame DEF Clear
  <1>10. ASSUME Move
         PROVE  TablesInv'
    <2>1. PICK i \in 1..2 : map' = Table!moved(map)[i] /\ vector' = Table!moved(vector)[i]
      BY <1>10 DEF Move
    <2>2. i = 1 \/ i = 2
      OBVIOUS
    <2>3. Same(map', vector')
      BY <1>0, <2>1, <2>2, CopiesAreSame
    <2> QED
      BY <1>2, <1>10, <2>3 DEF Move
  <1>11. ASSUME Assign
         PROVE  TablesInv'
    BY <1>0, <1>2, <1>11, CopiesAreSame DEF Assign, Part
  <1>12. ASSUME UNCHANGED tablesVars
         PROVE  TablesInv'
    <2>1. map' = map /\ vector' = vector /\ removed_keys' = removed_keys /\ section' = section
          /\ NewSection' = NewSection
      BY <1>12 DEF tablesVars
    <2> QED
      BY <1>0, <2>1 DEF TablesInv, Part
  <1> QED
    BY <1>3, <1>4, <1>5, <1>6, <1>7, <1>8, <1>9, <1>10, <1>11, <1>12 DEF TablesNext

-----------------------------------------------------------------------------
(* TableCalls: what a caller can tell *)

\* value_for.
LEMMA SameAnswers ==
  ASSUME NEW one, NEW other, Same(one, other), NEW key
  PROVE  Table!vector_value_for(other, key) = Table!map_value_for(one, key)
  <1> DEFINE at == Table!get_value_position_for(other, key)
  <1>1. \/ at = 0 /\ key \notin DOMAIN one.content
        \/ /\ at # 0 /\ key \in DOMAIN one.content
           /\ other.content[at].value = one.content[key]
    BY PositionInSame
  <1> HIDE DEF at
  <1>2. Table!vector_value_for(other, key) =
           IF at # 0 THEN <<other.content[at].value, TRUE>> ELSE Table!NotFound
    BY DEF Table!vector_value_for, at
  <1>3. Table!map_value_for(one, key) =
           IF key \in DOMAIN one.content THEN <<one.content[key], TRUE>> ELSE Table!NotFound
    BY DEF Table!map_value_for
  <1> QED
    BY <1>1, <1>2, <1>3

\* find_if stops at the first of the vector and at any of the map; remove_if collects
\* the keys of all.
LEMMA SameFinds ==
  ASSUME NEW one, NEW other, Same(one, other), NEW pred
  PROVE  /\ Table!vector_find_if(other, pred) \in Table!map_find_if(one, pred)
         /\ Table!vector_removed_keys(other, pred) = Table!map_removed_keys(one, pred)
  <1> DEFINE f == one.content
             c == other.content
             found == {i \in DOMAIN c : c[i].value \in pred}
             keys == {k \in DOMAIN f : f[k] \in pred}
             first == CHOOSE i \in found : \A j \in found : i <= j
  <1>1. /\ c \in Seq(PairType) /\ DOMAIN c = 1..Len(c) /\ DOMAIN f = KeysIn(c)
        /\ \A i \in 1..Len(c) : f[c[i].key] = c[i].value
    BY DEF Same, SamePairs
  <1>2. \A i \in found : c[i].key \in keys /\ f[c[i].key] = c[i].value
    BY <1>1 DEF KeysIn
  <1>3. \A k \in keys : \E i \in found : c[i].key = k
    BY <1>1 DEF KeysIn
  <1>4. Table!vector_removed_keys(other, pred) = Table!map_removed_keys(one, pred)
    <2>1. Table!vector_removed_keys(other, pred) = {c[i].key : i \in found}
      BY DEF Table!vector_removed_keys
    <2>2. Table!map_removed_keys(one, pred) = keys
      BY DEF Table!map_removed_keys
    <2> HIDE DEF found, keys
    <2> QED
      BY <2>1, <2>2, <1>2, <1>3
  <1>5. /\ Table!vector_find_if(other, pred) =
              IF found = {} THEN Table!NotFound ELSE <<c[first].value, TRUE>>
        /\ Table!map_find_if(one, pred) =
              IF keys = {} THEN {Table!NotFound} ELSE {<<f[k], TRUE>> : k \in keys}
    BY DEF Table!vector_find_if, Table!map_find_if
  <1>6. found # {} => first \in found
    <2>1. found \subseteq Nat
      BY <1>1
    <2> HIDE DEF found
    <2> QED
      BY <2>1, LeastOf
  <1> HIDE DEF found, keys, first
  <1>7. CASE found = {}
    <2>1. keys = {}
      BY <1>3, <1>7
    <2> QED
      BY <1>4, <1>5, <1>7, <2>1
  <1>8. CASE found # {}
    <2>1. c[first].key \in keys /\ f[c[first].key] = c[first].value
      BY <1>2, <1>6, <1>8
    <2> QED
      BY <1>4, <1>5, <1>8, <2>1
  <1> QED
    BY <1>7, <1>8

\* get_keys.
LEMMA KeysAreSorted ==
  ASSUME NEW one, NEW other, Same(one, other)
  PROVE  LET keys == Table!vector_get_keys(other) IN
         /\ \A i \in 1..(Len(keys) - 1) : keys[i] < keys[i + 1]
         /\ {keys[i] : i \in DOMAIN keys} = Table!map_get_keys(one)
  <1> DEFINE c == other.content
             n == Len(c)
             keys == Table!vector_get_keys(other)
  <1>1. c \in Seq(PairType) /\ n \in Nat /\ DOMAIN c = 1..n /\ Sorted(c)
        /\ DOMAIN one.content = KeysIn(c)
    BY DEF Same, SamePairs
  <1>2. keys = [i \in 1..n |-> c[i].key]
    BY <1>1 DEF Table!vector_get_keys
  <1>3. keys \in Seq(Int) /\ Len(keys) = n
    <2>1. \A i \in 1..n : c[i].key \in Int
      BY <1>1, PairFields
    <2> HIDE DEF c, n, keys
    <2>2. keys \in [1..n -> Int]
      BY <1>2, <2>1
    <2> QED
      BY <2>2, <1>1, <1>2
  <1> HIDE DEF keys
  <1>4. \A i \in 1..(n - 1) : keys[i] < keys[i + 1]
    BY <1>1, <1>2 DEF Sorted
  <1>5. {keys[i] : i \in DOMAIN keys} = Table!map_get_keys(one)
    BY <1>1, <1>2 DEF Table!map_get_keys, KeysIn
  <1> QED
    BY <1>3, <1>4, <1>5 DEF keys

\* What remove is called with is found, so that there is an element to erase.
LEMMA RemovalIsDefined ==
  ASSUME NEW one, NEW other, Same(one, other), NEW key
  PROVE  /\ key \in KeysIn(other.content) => Table!vector_remove_is_defined(other, key)
         /\ Table!map_remove(one, key) # one => key \in KeysIn(other.content)
  <1>1. key \in KeysIn(other.content) => Table!vector_remove_is_defined(other, key)
    BY PositionInSame DEF Table!vector_remove_is_defined
  <1>2. ASSUME key \notin KeysIn(other.content)
        PROVE  Table!map_remove(one, key) = one
    <2> DEFINE f == one.content
               l == one.locked
    <2>1. DOMAIN f \ {key} = DOMAIN f /\ f = [k \in DOMAIN f |-> f[k]]
      BY <1>2 DEF Same, SamePairs
    <2>2. one = [content |-> f, locked |-> l]
      BY DEF Same, IsTable
    <2>3. Table!map_remove(one, key) = [one EXCEPT !.content = f]
      BY <2>1 DEF Table!map_remove
    <2> HIDE DEF f, l
    <2> QED
      BY <2>2, <2>3
  <1> QED
    BY <1>1, <1>2

LEMMA TablesInvAgrees ==
  TablesInv => TablesAgree
  <1> SUFFICES ASSUME TablesInv PROVE TablesAgree
    OBVIOUS
  <1> DEFINE keys == Table!vector_get_keys(vector)
             part == Table!map_get_subsection_for(map, section.asked)
  <1>1. /\ Same(map, vector) /\ Same(part, section.part)
        /\ removed_keys \subseteq KeysIn(vector.content)
    BY DEF TablesInv, Part
  <1>2. /\ \A i \in 1..(Len(keys) - 1) : keys[i] < keys[i + 1]
        /\ {keys[i] : i \in DOMAIN keys} = Table!map_get_keys(map)
    BY <1>1, KeysAreSorted
  <1>3. Table!empty(map) <=> Table!empty(vector)
    <2>1. DOMAIN vector.content = 1..Len(vector.content)
      BY <1>1 DEF Same, SamePairs
    <2>2. DOMAIN map.content = {vector.content[i].key : i \in DOMAIN vector.content}
      BY <1>1, <2>1 DEF Same, SamePairs, KeysIn
    <2> QED
      BY <2>2 DEF Table!empty
  <1>4. ASSUME NEW k \in Keys
        PROVE  /\ Table!vector_value_for(vector, k) = Table!map_value_for(map, k)
               /\ Table!vector_value_for(section.part, k) = Table!map_value_for(part, k)
               /\ Table!vector_value_for(Table!clone(vector), k) =
                     Table!map_value_for(Table!copied(map), k)
               /\ Table!map_remove(map, k) # map => Table!vector_remove_is_defined(vector, k)
    <2>1. Same(Table!copied(map), Table!clone(vector))
      BY <1>1, CopiesAreSame DEF Table!clone
    <2> HIDE DEF part
    <2> QED
      BY <1>1, <2>1, SameAnswers, RemovalIsDefined
  <1>5. ASSUME NEW pred \in SUBSET Values
        PROVE  /\ Table!vector_find_if(vector, pred) \in Table!map_find_if(map, pred)
               /\ Table!vector_removed_keys(vector, pred) = Table!map_removed_keys(map, pred)
    BY <1>1, SameFinds
  <1>6. \A key \in removed_keys : Table!vector_remove_is_defined(vector, key)
    BY <1>1, RemovalIsDefined
  <1>7. vector.locked = map.locked
    BY <1>1 DEF Same
  <1> HIDE DEF keys, part
  <1> QED
    BY <1>2, <1>3, <1>4, <1>5, <1>6, <1>7 DEF TablesAgree, keys, part

\* shared_lookup_table.hpp: for any keys that are ordered and any values, whatever
\* calls were made, the sorted vector holds the pairs of the unordered_map and
\* answers as it does.
THEOREM TablesAgreeHolds ==
  TablesSpec => []TablesAgree
  <1>1. TablesInit => TablesInv
    BY TablesInvInit
  <1>2. TablesInv /\ [TablesNext]_tablesVars => TablesInv'
    BY TablesInvStep
  <1>3. TablesInv => TablesAgree
    BY TablesInvAgrees
  <1> QED
    BY <1>1, <1>2, <1>3, PTL DEF TablesSpec

=============================================================================
