------------------------- MODULE ConnectionSetupProofs -------------------------
(***************************************************************************)
(* Proofs about ConnectionSetup: for any setups, descriptor numbers and    *)
(* notifications, in both roles.                                           *)
(*                                                                         *)
(* Two invariants.  CInv says where a setup's descriptor, its entry, its   *)
(* context and its handler are in every phase, and what its callback was   *)
(* told.  A step of one setup touches what is about it and its number: for *)
(* those it restores Settled, and OneSetup does the rest.  NInv says whose *)
(* notifications are queued, and that the events which the loop has taken  *)
(* for a setup that still waits decided nothing.                           *)
(***************************************************************************)
EXTENDS ConnectionSetup, SequenceTheorems, TLAPS

\* The phases of a setup that has its descriptor.
Holding == {"opened", "registered", "subscribed", "pending", "deaf", "connected", "installed",
            "listening", "handed"}

\* The phases of a setup whose endpoint may be its descriptor's handler.
Handles == {"installed", "listening", "handed"}

Orders == {Delivered(mask) : mask \in Reported}

Notification ==
    {n \in [descriptor : Descriptors, mask : Reported, todo : Orders, source : Setups] :
        n.todo = Delivered(n.mask)}

SetupTypes ==
    /\ role \in Roles
    /\ phase \in [Setups -> Phases]
    /\ fd \in [Setups -> Descriptors \cup {Nobody}]
    /\ active \in [Descriptors -> Setups \cup {Nobody}]
    /\ answers \in [Setups -> Seq({"endpoint", "none"})]
    /\ excused \subseteq Setups

ReactorTypes ==
    /\ context \in [Descriptors -> {"absent", "live", "expired"}]
    /\ interest \in [Descriptors -> {{}, {In}, {Out}}]
    /\ handler \in [Descriptors -> Setups \cup {Initialiser, Nobody}]

LoopTypes ==
    /\ DOMAIN loop = {"step", "descriptor", "mask", "todo", "source"}
    /\ loop.step \in {"pop", "handling", "completing", "erasing"}
    /\ loop.step # "pop" => loop.descriptor \in Descriptors

QueueTypes == queue \in Seq(Notification)

TypesHold == SetupTypes /\ ReactorTypes /\ LoopTypes /\ QueueTypes

HeldWhileOpen == \A s \in Setups : fd[s] # Nobody <=> phase[s] \in Holding

OneOwner == \A s, t \in Setups : fd[s] = fd[t] /\ fd[s] # Nobody => s = t

\* An entry is of a setup that waits for its answer, or of one that the event loop
\* is answering.
EntryHeld(d, s) ==
    \/ fd[s] = d /\ phase[s] \in {"pending", "deaf"}
    \/ loop.step = "completing" /\ loop.descriptor = d /\ phase[s] = "failing"
    \/ loop.step = "erasing" /\ loop.descriptor = d /\ phase[s] = "failed"
    \/ loop.step = "erasing" /\ loop.descriptor = d /\ phase[s] = "handed" /\ fd[s] = d

EntriesHeld == \A d \in Descriptors : active[d] # Nobody => EntryHeld(d, active[d])

\* Who owns the number of a descriptor that was closed on failure, while the entry
\* is still there, was given it too early.
Completing == loop.step \in {"completing", "erasing"}

GivenTooEarly ==
    Completing => active[loop.descriptor] # Nobody /\ Owners(loop.descriptor) \subseteq excused

EndpointHandles ==
    \A d \in Descriptors :
        handler[d] \in Setups => fd[handler[d]] = d /\ phase[handler[d]] \in Handles

\* A descriptor that is in use: opened, and more.
Used(d) == \E s \in Setups : fd[s] = d /\ phase[s] # "opened"

Watched == \A d \in Descriptors : interest[d] # {} => Used(d)

Remembered == excused = {} => \A d \in Descriptors : context[d] = "live" => Used(d)

\* What the reactor has of a setup that no window hit.
Stage(s) ==
    /\ phase[s] \in {"registered", "subscribed", "pending"} =>
           context[fd[s]] = "live" /\ interest[fd[s]] = {Awaited}
    /\ phase[s] \in {"subscribed", "pending"} => handler[fd[s]] = Initialiser
    /\ phase[s] = "pending" => active[fd[s]] = s
    /\ phase[s] = "connected" => context[fd[s]] = "live" /\ interest[fd[s]] = {In}
    /\ phase[s] \in Handles => Armed(fd[s], {In}, s)

Staged == \A s \in Setups \ excused : Stage(s)

\* What a setup's callback was told.
Told(s) ==
    /\ phase[s] \in {"handed", "closed"} => answers[s] = <<"endpoint">>
    /\ phase[s] = "failed" => answers[s] = <<"none">> \/ (answers[s] = <<>> /\ s \in excused)
    /\ phase[s] \notin {"handed", "closed", "failed"} => answers[s] = <<>>

AllTold == \A s \in Setups : Told(s)

CInv ==
    /\ TypesHold /\ HeldWhileOpen /\ OneOwner /\ EntriesHeld /\ GivenTooEarly
    /\ EndpointHandles /\ Watched /\ Remembered /\ Staged /\ AllTold

-----------------------------------------------------------------------------
(* Steps that are about one setup and its descriptor *)

\* A cleanup takes expired contexts only, and their handlers.
Spared(d) ==
    \/ context'[d] = context[d] /\ handler'[d] = handler[d]
    \/ /\ context[d] = "expired" /\ context'[d] \in {"absent", "expired"}
       /\ handler'[d] \in {handler[d], Nobody}

LEMMA CleanupTypes ==
  ASSUME TypesHold
  PROVE  /\ CleanContext \in [Descriptors -> {"absent", "live", "expired"}]
         /\ CleanHandler \in [Descriptors -> Setups \cup {Initialiser, Nobody}]
  BY DEF TypesHold, ReactorTypes, CleanContext, CleanHandler

LEMMA CleanupSpares ==
  ASSUME TypesHold, NEW d \in Descriptors
  PROVE  /\ \/ CleanContext[d] = context[d] /\ CleanHandler[d] = handler[d]
            \/ /\ context[d] = "expired" /\ CleanContext[d] \in {"absent", "expired"}
               /\ CleanHandler[d] \in {handler[d], Nobody}
         /\ Busy(d) => CleanHandler[d] = handler[d]
  BY DEF TypesHold, ReactorTypes, CleanContext, CleanHandler, Expired

\* The step leaves other setups alone, and what is on other numbers but for a cleanup.
Concerns(s, d) ==
    /\ fd[s] \in {d, Nobody} /\ fd'[s] \in {d, Nobody}
    /\ \A t \in Setups \ {s} :
          fd[t] # d /\ phase'[t] = phase[t] /\ fd'[t] = fd[t] /\ answers'[t] = answers[t]
    /\ \A e \in Descriptors \ {d} :
          active[e] # s /\ active'[e] = active[e] /\ interest'[e] = interest[e] /\ Spared(e)
    /\ excused \subseteq excused' /\ role' = role
    /\ \/ loop'.step = loop.step /\ loop'.descriptor = loop.descriptor
       \/ (Completing => loop.descriptor = d) /\ (Completing' => loop'.descriptor = d)

\* The invariant, of this setup and this number.
Settled(s, d) ==
    /\ fd[s] # Nobody <=> phase[s] \in Holding
    /\ active[d] # Nobody => EntryHeld(d, active[d])
    /\ Completing /\ loop.descriptor = d => active[d] # Nobody /\ (fd[s] = d => s \in excused)
    /\ handler[d] \in Setups => handler[d] = s /\ fd[s] = d /\ phase[s] \in Handles
    /\ interest[d] # {} => fd[s] = d /\ phase[s] # "opened"
    /\ excused = {} /\ context[d] = "live" => fd[s] = d /\ phase[s] # "opened"
    /\ s \notin excused => Stage(s)
    /\ Told(s)

LEMMA AwaitedEvent ==
  Awaited \in {In, Out} /\ (role' = role => Awaited' = Awaited)
  BY DEF Awaited

LEMMA OneSetup ==
  ASSUME CInv, TypesHold', NEW s \in Setups, NEW d \in Descriptors,
         Concerns(s, d), Settled(s, d)'
  PROVE  CInv'
  <1> Nobody \notin Descriptors \cup Setups
    BY NobodyAssumption
  <1>0. HeldWhileOpen'
    BY DEF CInv, HeldWhileOpen, Concerns, Settled
  <1>1. OneOwner'
    <2> SUFFICES ASSUME NEW t \in Setups, NEW u \in Setups, fd'[t] = fd'[u], fd'[t] # Nobody
                 PROVE  t = u
      BY DEF OneOwner
    <2>1. CASE t = s \/ u = s
      BY <2>1 DEF Concerns
    <2>2. CASE t # s /\ u # s
      BY <2>2 DEF Concerns, CInv, OneOwner
    <2> QED BY <2>1, <2>2
  <1>2. EntriesHeld'
    <2> SUFFICES ASSUME NEW e \in Descriptors \ {d}, active'[e] # Nobody
                 PROVE  EntryHeld(e, active[e])'
      BY DEF EntriesHeld, Settled
    <2>1. EntryHeld(e, active[e]) /\ active'[e] = active[e] /\ active[e] \in Setups \ {s}
      BY DEF CInv, EntriesHeld, Concerns, TypesHold, SetupTypes
    <2> QED BY <2>1 DEF EntryHeld, Concerns, Completing
  <1>3. GivenTooEarly'
    <2>1. CASE Completing' /\ loop'.descriptor = d
      BY <2>1 DEF Settled, Concerns, GivenTooEarly, Owners
    <2>2. CASE Completing' /\ loop'.descriptor # d
      <3> DEFINE e == loop.descriptor
      <3>1. e \in Descriptors \ {d} /\ loop'.descriptor = e /\ Completing
        BY <2>2 DEF CInv, Concerns, Completing, TypesHold, LoopTypes
      <3>2. \A t \in Setups : fd'[t] = e => fd[t] = e
        BY <3>1 DEF Concerns
      <3>3. active[e] # Nobody /\ Owners(e) \subseteq excused
        BY <3>1 DEF CInv, GivenTooEarly
      <3> HIDE DEF e
      <3> QED BY <3>1, <3>2, <3>3 DEF Concerns, GivenTooEarly, Owners
    <2> QED BY <2>1, <2>2 DEF GivenTooEarly
  <1>4. EndpointHandles'
    <2> SUFFICES ASSUME NEW e \in Descriptors \ {d}, handler'[e] \in Setups
                 PROVE  fd'[handler'[e]] = e /\ phase'[handler'[e]] \in Handles
      BY DEF EndpointHandles, Settled
    <2>1. handler'[e] = handler[e]
      BY DEF Concerns, Spared
    <2>2. fd[handler[e]] = e /\ phase[handler[e]] \in Handles
      BY <2>1 DEF CInv, EndpointHandles
    <2>3. handler[e] # s
      BY <2>2 DEF Concerns
    <2> QED BY <2>1, <2>2, <2>3 DEF Concerns
  <1>5. ASSUME NEW e \in Descriptors \ {d}, Used(e)
        PROVE  Used(e)'
    <2>1. PICK t \in Setups : fd[t] = e /\ phase[t] # "opened"
      BY <1>5 DEF Used
    <2>2. t # s
      BY <2>1 DEF Concerns
    <2> QED BY <2>1, <2>2 DEF Used, Concerns
  <1>6. Watched'
    <2> SUFFICES ASSUME NEW e \in Descriptors, interest'[e] # {}
                 PROVE  Used(e)'
      BY DEF Watched
    <2>1. CASE e = d
      BY <2>1 DEF Settled, Used
    <2>2. CASE e # d
      BY <2>2, <1>5 DEF CInv, Watched, Concerns
    <2> QED BY <2>1, <2>2
  <1>7. Remembered'
    <2> SUFFICES ASSUME excused' = {}, NEW e \in Descriptors, context'[e] = "live"
                 PROVE  Used(e)'
      BY DEF Remembered
    <2>1. CASE e = d
      BY <2>1 DEF Settled, Used
    <2>2. CASE e # d
      <3>1. excused = {} /\ context[e] = "live"
        BY <2>2 DEF Concerns, Spared
      <3> QED BY <2>2, <3>1, <1>5 DEF CInv, Remembered
    <2> QED BY <2>1, <2>2
  <1>8. Staged'
    <2> SUFFICES ASSUME NEW t \in Setups \ {s}, t \notin excused'
                 PROVE  Stage(t)'
      BY DEF Staged, Settled
    <2>1. Stage(t) /\ fd[t] # d /\ phase'[t] = phase[t] /\ fd'[t] = fd[t]
      BY DEF CInv, Staged, Concerns
    <2>2. CASE fd[t] \in Descriptors
      BY <2>1, <2>2, AwaitedEvent DEF Stage, Armed, Concerns, Spared
    <2>3. CASE fd[t] = Nobody
      BY <2>1, <2>3 DEF Stage, Handles, CInv, HeldWhileOpen, Holding
    <2> QED BY <2>2, <2>3 DEF CInv, TypesHold, SetupTypes
  <1>9. AllTold'
    BY DEF CInv, AllTold, Told, Settled, Concerns
  <1> QED BY <1>0, <1>1, <1>2, <1>3, <1>4, <1>6, <1>7, <1>8, <1>9 DEF CInv

LEMMA SettledBefore ==
  ASSUME CInv, NEW s \in Setups, NEW d \in Descriptors, fd[s] = d
  PROVE  /\ Settled(s, d)
         /\ \A t \in Setups \ {s} : fd[t] # d
         /\ \A e \in Descriptors \ {d} : active[e] # s
  <1>1. d # Nobody /\ phase[s] \in Holding
    BY NobodyAssumption DEF CInv, HeldWhileOpen
  <1>2. \A t \in Setups \ {s} : fd[t] # d
    BY <1>1 DEF CInv, OneOwner
  <1>3. \A e \in Descriptors \ {d} : active[e] # s
    BY <1>1, NobodyAssumption DEF CInv, EntriesHeld, EntryHeld, Holding
  <1>4. Used(d) => phase[s] # "opened"
    BY <1>2 DEF Used
  <1>5. handler[d] \in Setups => handler[d] = s /\ phase[s] \in Handles
    BY <1>2 DEF CInv, EndpointHandles
  <1>6. Completing /\ loop.descriptor = d => active[d] # Nobody /\ s \in excused
    BY DEF CInv, GivenTooEarly, Owners
  <1> QED BY <1>1, <1>2, <1>3, <1>4, <1>5, <1>6
          DEF Settled, CInv, EntriesHeld, Watched, Remembered, Staged, AllTold


LEMMA OtherEntryHeld ==
  ASSUME CInv, NEW s \in Setups, NEW d \in Descriptors, Concerns(s, d),
         UNCHANGED <<active, loop>>, active[d] # s
  PROVE  active'[d] # Nobody => EntryHeld(d, active[d])'
  BY DEF CInv, TypesHold, SetupTypes, EntriesHeld, EntryHeld, Concerns

LEMMA FirstAnswer ==
  ASSUME SetupTypes, NEW s \in Setups, answers[s] = <<>>, NEW word \in {"endpoint", "none"},
         answers' = [answers EXCEPT ![s] = Append(@, word)]
  PROVE  /\ answers' \in [Setups -> Seq({"endpoint", "none"})]
         /\ answers'[s] = <<word>>
         /\ \A t \in Setups \ {s} : answers'[t] = answers[t]
  <1>1. Append(<<>>, word) = <<word>> /\ <<word>> \in Seq({"endpoint", "none"})
    OBVIOUS
  <1> QED BY <1>1 DEF SetupTypes

-----------------------------------------------------------------------------
(* The steps of setup, and of the client *)

LEMMA OpenDeviceKeeps ==
  ASSUME CInv, NEW s \in Setups, NEW d \in Descriptors, OpenDevice(s, d), UNCHANGED role
  PROVE  CInv'
  <1>1. TypesHold /\ Nobody \notin Descriptors \cup Setups
    BY NobodyAssumption DEF CInv
  <1>2. /\ phase[s] = "new" /\ fd[s] = Nobody
        /\ \A t \in Setups : fd[t] # d
        /\ \A e \in Descriptors : active[e] # s
    BY <1>1 DEF OpenDevice, Open, CInv, HeldWhileOpen, Holding, EntriesHeld, EntryHeld
  <1>3. TypesHold'
    BY <1>1 DEF OpenDevice, reactor, TypesHold, SetupTypes, ReactorTypes, LoopTypes,
                QueueTypes, Phases
  <1>4. Concerns(s, d)
    BY <1>1, <1>2 DEF OpenDevice, reactor, Concerns, Spared, TypesHold, SetupTypes
  <1>5. /\ interest[d] = {} /\ (excused = {} => context[d] # "live") /\ handler[d] \notin Setups
    BY <1>2 DEF CInv, Watched, Remembered, EndpointHandles, Used
  <1>6. /\ active[d] # Nobody => EntryHeld(d, active[d]) /\ active[d] # s
        /\ Completing /\ loop.descriptor = d => active[d] # Nobody /\ s \in excused'
        /\ answers[s] = <<>>
    BY <1>1, <1>2 DEF CInv, EntriesHeld, GivenTooEarly, Completing, OpenDevice, Busy, AllTold,
                      Told
  <1>7. phase'[s] = "opened" /\ fd'[s] = d /\ UNCHANGED <<active, reactor, loop, answers>>
        /\ excused \subseteq excused'
    BY <1>1 DEF OpenDevice, TypesHold, SetupTypes
  <1>8. active[d] # Nobody => EntryHeld(d, active[d])'
    BY <1>1, <1>2, <1>4, <1>6, <1>7 DEF EntryHeld, Concerns, TypesHold, SetupTypes
  <1>9. Settled(s, d)'
    BY <1>1, <1>5, <1>6, <1>7, <1>8 DEF Settled, Stage, Handles, Told, Holding, Completing, reactor
  <1> QED BY <1>3, <1>4, <1>9, OneSetup

LEMMA FailToConnectKeeps ==
  ASSUME CInv, NEW s \in Setups, FailToConnect(s), UNCHANGED role
  PROVE  CInv'
  <1>1. TypesHold /\ Nobody \notin Descriptors \cup Setups /\ Initialiser \notin Setups
    BY NobodyAssumption, InitialiserAssumption DEF CInv
  <1>2. PICK d \in Descriptors : fd[s] = d
    BY <1>1 DEF FailToConnect, CInv, HeldWhileOpen, Holding, TypesHold, SetupTypes
  <1>3. /\ Settled(s, d)
        /\ \A t \in Setups \ {s} : fd[t] # d
        /\ \A e \in Descriptors \ {d} : active[e] # s
    BY <1>2, SettledBefore
  <1>4. TypesHold'
    BY <1>1, <1>2, AwaitedEvent
       DEF FailToConnect, reactor, TypesHold, SetupTypes, ReactorTypes, LoopTypes, QueueTypes,
           Phases
  <1>5. Concerns(s, d)
    BY <1>1, <1>2, <1>3
       DEF FailToConnect, reactor, Concerns, Spared, TypesHold, SetupTypes, ReactorTypes
  <1>6. Settled(s, d)'
    BY <1>1, <1>2, <1>3, AwaitedEvent
       DEF FailToConnect, reactor, Settled, Stage, Handles, Armed, Told, EntryHeld, Holding, Completing,
           Busy,
           TypesHold, SetupTypes, ReactorTypes
  <1> QED BY <1>2, <1>4, <1>5, <1>6, OneSetup

LEMMA RefuseKeeps ==
  ASSUME CInv, NEW s \in Setups, Refuse(s), UNCHANGED role
  PROVE  CInv'
  <1>1. TypesHold /\ Nobody \notin Descriptors \cup Setups /\ Initialiser \notin Setups
    BY NobodyAssumption, InitialiserAssumption DEF CInv
  <1>2. PICK d \in Descriptors : fd[s] = d
    BY <1>1 DEF Refuse, CInv, HeldWhileOpen, Holding, TypesHold, SetupTypes
  <1>3. /\ Settled(s, d)
        /\ \A t \in Setups \ {s} : fd[t] # d
        /\ \A e \in Descriptors \ {d} : active[e] # s
    BY <1>2, SettledBefore
  <1>4. TypesHold'
    BY <1>1, <1>2, CleanupTypes, CleanupSpares, AwaitedEvent
       DEF Refuse, reactor, TypesHold, SetupTypes, ReactorTypes, LoopTypes, QueueTypes, Phases
  <1>5. ASSUME NEW e \in Descriptors \ {d}
        PROVE  Spared(e)
    BY <1>1, <1>2, CleanupTypes, CleanupSpares DEF Refuse, Spared, TypesHold, ReactorTypes
  <1>6. Concerns(s, d)
    BY <1>1, <1>2, <1>3, <1>5
       DEF Refuse, reactor, Concerns, TypesHold, SetupTypes, ReactorTypes
  <1>7. /\ phase[s] = "opened" /\ phase'[s] = "refused" /\ fd'[s] = Nobody
        /\ context'[d] = "live" => context[d] = "live"
        /\ handler'[d] \in {handler[d], Nobody}
        /\ UNCHANGED <<active, interest, loop, answers, excused>>
    BY <1>1, <1>2, CleanupTypes, CleanupSpares
       DEF Refuse, TypesHold, SetupTypes, ReactorTypes
  <1>8. active[d] # Nobody => EntryHeld(d, active[d])'
    <2>1. active[d] # s
      BY <1>2, NobodyAssumption DEF Refuse, Busy, CInv, EntriesHeld, EntryHeld
    <2> QED BY <1>6, <1>7, <2>1, OtherEntryHeld
  <1>9. Settled(s, d)'
    BY <1>1, <1>2, <1>3, <1>7, <1>8, AwaitedEvent
       DEF Settled, Stage, Handles, Armed, Told, Holding, Completing
  <1> QED BY <1>2, <1>4, <1>6, <1>9, OneSetup

LEMMA SubscribeKeeps ==
  ASSUME CInv, NEW s \in Setups, Subscribe(s), UNCHANGED role
  PROVE  CInv'
  <1>1. TypesHold /\ Nobody \notin Descriptors \cup Setups /\ Initialiser \notin Setups
    BY NobodyAssumption, InitialiserAssumption DEF CInv
  <1>2. PICK d \in Descriptors : fd[s] = d
    BY <1>1 DEF Subscribe, CInv, HeldWhileOpen, Holding, TypesHold, SetupTypes
  <1>3. /\ Settled(s, d)
        /\ \A t \in Setups \ {s} : fd[t] # d
        /\ \A e \in Descriptors \ {d} : active[e] # s
    BY <1>2, SettledBefore
  <1>4. TypesHold'
    BY <1>1, <1>2, CleanupTypes, CleanupSpares, AwaitedEvent
       DEF Subscribe, reactor, TypesHold, SetupTypes, ReactorTypes, LoopTypes, QueueTypes,
           Phases
  <1>5. ASSUME NEW e \in Descriptors \ {d}
        PROVE  Spared(e)
    BY <1>1, <1>2, CleanupTypes, CleanupSpares DEF Subscribe, Spared, TypesHold, ReactorTypes
  <1>6. Concerns(s, d)
    BY <1>1, <1>2, <1>3, <1>5
       DEF Subscribe, reactor, Concerns, TypesHold, SetupTypes, ReactorTypes
  <1>7. /\ phase[s] = "opened" /\ phase'[s] = "registered" /\ fd'[s] = d
        /\ context'[d] = "live" /\ interest'[d] = {Awaited} /\ handler'[d] \in {handler[d], Nobody}
        /\ UNCHANGED <<active, loop, answers, excused>>
    BY <1>1, <1>2, CleanupTypes, CleanupSpares
       DEF Subscribe, TypesHold, SetupTypes, ReactorTypes
  <1>8. active[d] # Nobody => EntryHeld(d, active[d])'
    <2>1. active[d] # s
      BY <1>2, NobodyAssumption DEF Subscribe, Busy, CInv, EntriesHeld, EntryHeld
    <2> QED BY <1>6, <1>7, <2>1, OtherEntryHeld
  <1>9. Settled(s, d)'
    BY <1>1, <1>2, <1>3, <1>7, <1>8, AwaitedEvent
       DEF Settled, Stage, Handles, Armed, Told, Holding, Completing
  <1> QED BY <1>2, <1>4, <1>6, <1>9, OneSetup

LEMMA AddHandlerKeeps ==
  ASSUME CInv, NEW s \in Setups, AddHandler(s), UNCHANGED role
  PROVE  CInv'
  <1>1. TypesHold /\ Nobody \notin Descriptors \cup Setups /\ Initialiser \notin Setups
    BY NobodyAssumption, InitialiserAssumption DEF CInv
  <1>2. PICK d \in Descriptors : fd[s] = d
    BY <1>1 DEF AddHandler, CInv, HeldWhileOpen, Holding, TypesHold, SetupTypes
  <1>3. /\ Settled(s, d)
        /\ \A t \in Setups \ {s} : fd[t] # d
        /\ \A e \in Descriptors \ {d} : active[e] # s
    BY <1>2, SettledBefore
  <1>4. TypesHold'
    BY <1>1, <1>2, AwaitedEvent
       DEF AddHandler, reactor, TypesHold, SetupTypes, ReactorTypes, LoopTypes, QueueTypes,
           Phases
  <1>5. Concerns(s, d)
    BY <1>1, <1>2, <1>3
       DEF AddHandler, reactor, Concerns, Spared, TypesHold, SetupTypes, ReactorTypes
  <1>6. Settled(s, d)'
    BY <1>1, <1>2, <1>3, AwaitedEvent
       DEF AddHandler, reactor, Settled, Stage, Handles, Armed, Told, EntryHeld, Holding, Completing,
           Busy,
           TypesHold, SetupTypes, ReactorTypes
  <1> QED BY <1>2, <1>4, <1>5, <1>6, OneSetup

LEMMA StoreEntryKeeps ==
  ASSUME CInv, NEW s \in Setups, StoreEntry(s), UNCHANGED role
  PROVE  CInv'
  <1>1. TypesHold /\ Nobody \notin Descriptors \cup Setups /\ Initialiser \notin Setups
    BY NobodyAssumption, InitialiserAssumption DEF CInv
  <1>2. PICK d \in Descriptors : fd[s] = d
    BY <1>1 DEF StoreEntry, CInv, HeldWhileOpen, Holding, TypesHold, SetupTypes
  <1>3. /\ Settled(s, d)
        /\ \A t \in Setups \ {s} : fd[t] # d
        /\ \A e \in Descriptors \ {d} : active[e] # s
    BY <1>2, SettledBefore
  <1>4. TypesHold'
    BY <1>1, <1>2, AwaitedEvent
       DEF StoreEntry, reactor, TypesHold, SetupTypes, ReactorTypes, LoopTypes, QueueTypes,
           Phases
  <1>5. Concerns(s, d)
    BY <1>1, <1>2, <1>3
       DEF StoreEntry, reactor, Concerns, Spared, TypesHold, SetupTypes, ReactorTypes
  <1>6. Settled(s, d)'
    BY <1>1, <1>2, <1>3, AwaitedEvent
       DEF StoreEntry, reactor, Settled, Stage, Handles, Armed, Told, EntryHeld, Holding, Completing,
           Busy,
           TypesHold, SetupTypes, ReactorTypes
  <1> QED BY <1>2, <1>4, <1>5, <1>6, OneSetup

LEMMA ConnectPipeKeeps ==
  ASSUME CInv, NEW s \in Setups, ConnectPipe(s), UNCHANGED role
  PROVE  CInv'
  <1>1. TypesHold /\ Nobody \notin Descriptors \cup Setups /\ Initialiser \notin Setups
    BY NobodyAssumption, InitialiserAssumption DEF CInv
  <1>2. PICK d \in Descriptors : fd[s] = d
    BY <1>1 DEF ConnectPipe, CInv, HeldWhileOpen, Holding, TypesHold, SetupTypes
  <1>3. /\ Settled(s, d)
        /\ \A t \in Setups \ {s} : fd[t] # d
        /\ \A e \in Descriptors \ {d} : active[e] # s
    BY <1>2, SettledBefore
  <1>4. context' \in [Descriptors -> {"absent", "live", "expired"}]
    BY <1>1, <1>2, CleanupTypes, CleanupSpares DEF ConnectPipe
  <1>5. TypesHold'
    <2>1. phase' \in [Setups -> Phases] /\ excused' \subseteq Setups
      BY <1>1 DEF ConnectPipe, TypesHold, SetupTypes, Phases
    <2>2. interest' \in [Descriptors -> {{}, {In}, {Out}}]
      BY <1>1, <1>2 DEF ConnectPipe, TypesHold, ReactorTypes
    <2> QED
      BY <1>1, <1>4, <2>1, <2>2, CleanupTypes
         DEF ConnectPipe, TypesHold, SetupTypes, ReactorTypes, LoopTypes, QueueTypes
  <1>6. ASSUME NEW e \in Descriptors \ {d}
        PROVE  Spared(e)
    BY <1>1, <1>2, CleanupTypes, CleanupSpares DEF ConnectPipe, Spared, TypesHold, ReactorTypes
  <1>7. Concerns(s, d)
    BY <1>1, <1>2, <1>3, <1>6
       DEF ConnectPipe, reactor, Concerns, TypesHold, SetupTypes, ReactorTypes
  <1>8. /\ phase[s] = "opened" /\ fd'[s] = d
        /\ handler'[d] \in {handler[d], Nobody}
        /\ \/ /\ phase'[s] = "connected" /\ excused' = excused
              /\ context'[d] = "live" /\ interest'[d] = {In}
           \/ phase'[s] = "listening" /\ interest'[d] = interest[d] /\ s \in excused'
        /\ UNCHANGED <<active, loop, answers>>
    BY <1>1, <1>2, CleanupTypes, CleanupSpares
       DEF ConnectPipe, TypesHold, SetupTypes, ReactorTypes
  <1>9. active[d] # Nobody => EntryHeld(d, active[d])'
    <2>1. active[d] # s
      BY <1>2, NobodyAssumption DEF ConnectPipe, Busy, CInv, EntriesHeld, EntryHeld
    <2> QED BY <1>7, <1>8, <2>1, OtherEntryHeld
  <1>10. Settled(s, d)'
    BY <1>1, <1>2, <1>3, <1>8, <1>9, AwaitedEvent
       DEF Settled, Stage, Handles, Armed, Told, Holding, Completing
  <1> QED BY <1>2, <1>5, <1>7, <1>10, OneSetup

LEMMA AddPipeHandlerKeeps ==
  ASSUME CInv, NEW s \in Setups, AddPipeHandler(s), UNCHANGED role
  PROVE  CInv'
  <1>1. TypesHold /\ Nobody \notin Descriptors \cup Setups /\ Initialiser \notin Setups
    BY NobodyAssumption, InitialiserAssumption DEF CInv
  <1>2. PICK d \in Descriptors : fd[s] = d
    BY <1>1 DEF AddPipeHandler, CInv, HeldWhileOpen, Holding, TypesHold, SetupTypes
  <1>3. /\ Settled(s, d)
        /\ \A t \in Setups \ {s} : fd[t] # d
        /\ \A e \in Descriptors \ {d} : active[e] # s
    BY <1>2, SettledBefore
  <1>4. TypesHold'
    BY <1>1, <1>2, AwaitedEvent
       DEF AddPipeHandler, TypesHold, SetupTypes, ReactorTypes, LoopTypes, QueueTypes, Phases
  <1>5. Concerns(s, d)
    BY <1>1, <1>2, <1>3
       DEF AddPipeHandler, Concerns, Spared, TypesHold, SetupTypes, ReactorTypes
  <1>6. Settled(s, d)'
    BY <1>1, <1>2, <1>3, AwaitedEvent
       DEF AddPipeHandler, Settled, Stage, Armed, Told, EntryHeld, Holding, Handles, Completing,
           Busy, TypesHold, SetupTypes, ReactorTypes
  <1> QED BY <1>2, <1>4, <1>5, <1>6, OneSetup

LEMMA SetListenerIdKeeps ==
  ASSUME CInv, NEW s \in Setups, SetListenerId(s), UNCHANGED role
  PROVE  CInv'
  <1>1. TypesHold /\ Nobody \notin Descriptors \cup Setups /\ Initialiser \notin Setups
    BY NobodyAssumption, InitialiserAssumption DEF CInv
  <1>2. PICK d \in Descriptors : fd[s] = d
    BY <1>1 DEF SetListenerId, CInv, HeldWhileOpen, Holding, TypesHold, SetupTypes
  <1>3. /\ Settled(s, d)
        /\ \A t \in Setups \ {s} : fd[t] # d
        /\ \A e \in Descriptors \ {d} : active[e] # s
    BY <1>2, SettledBefore
  <1>4. TypesHold'
    BY <1>1, <1>2, AwaitedEvent
       DEF SetListenerId, reactor, TypesHold, SetupTypes, ReactorTypes, LoopTypes, QueueTypes,
           Phases
  <1>5. Concerns(s, d)
    BY <1>1, <1>2, <1>3
       DEF SetListenerId, reactor, Concerns, Spared, TypesHold, SetupTypes, ReactorTypes
  <1>6. Settled(s, d)'
    BY <1>1, <1>2, <1>3, AwaitedEvent
       DEF SetListenerId, reactor, Settled, Stage, Armed, Told, EntryHeld, Holding, Handles,
           Completing, Busy, TypesHold, SetupTypes, ReactorTypes
  <1> QED BY <1>2, <1>4, <1>5, <1>6, OneSetup

LEMMA CallBackKeeps ==
  ASSUME CInv, NEW s \in Setups, CallBack(s), UNCHANGED role
  PROVE  CInv'
  <1>1. TypesHold /\ Nobody \notin Descriptors \cup Setups /\ Initialiser \notin Setups
    BY NobodyAssumption, InitialiserAssumption DEF CInv
  <1>2. PICK d \in Descriptors : fd[s] = d
    BY <1>1 DEF CallBack, CInv, HeldWhileOpen, Holding, TypesHold, SetupTypes
  <1>3. /\ Settled(s, d)
        /\ \A t \in Setups \ {s} : fd[t] # d
        /\ \A e \in Descriptors \ {d} : active[e] # s
    BY <1>2, SettledBefore
  <1>4. /\ answers' \in [Setups -> Seq({"endpoint", "none"})]
        /\ answers'[s] = <<"endpoint">>
        /\ \A t \in Setups \ {s} : answers'[t] = answers[t]
    BY <1>1, <1>3, FirstAnswer DEF CallBack, Settled, Told, TypesHold
  <1>5. TypesHold'
    BY <1>1, <1>2, <1>4, AwaitedEvent
       DEF CallBack, reactor, TypesHold, SetupTypes, ReactorTypes, LoopTypes, QueueTypes, Phases
  <1>6. Concerns(s, d)
    BY <1>1, <1>2, <1>3, <1>4
       DEF CallBack, reactor, Concerns, Spared, TypesHold, SetupTypes, ReactorTypes
  <1>7. Settled(s, d)'
    BY <1>1, <1>2, <1>3, <1>4, AwaitedEvent
       DEF CallBack, reactor, Settled, Stage, Handles, Armed, Told, EntryHeld, Holding, Completing, Busy,
           TypesHold, SetupTypes, ReactorTypes
  <1> QED BY <1>2, <1>5, <1>6, <1>7, OneSetup

LEMMA FailToOpenPipeKeeps ==
  ASSUME CInv, NEW s \in Setups, FailToOpenPipe(s), UNCHANGED role
  PROVE  CInv'
  <1>1. TypesHold /\ Nobody \notin Descriptors \cup Setups /\ Initialiser \notin Setups
    BY NobodyAssumption, InitialiserAssumption DEF CInv
  <1>2. PICK d \in Descriptors : fd[s] = d
    BY <1>1 DEF FailToOpenPipe, CInv, HeldWhileOpen, Holding, TypesHold, SetupTypes
  <1>3. /\ Settled(s, d)
        /\ \A t \in Setups \ {s} : fd[t] # d
        /\ \A e \in Descriptors \ {d} : active[e] # s
    BY <1>2, SettledBefore
  <1>4. /\ answers' \in [Setups -> Seq({"endpoint", "none"})]
        /\ answers'[s] = <<"none">>
        /\ \A t \in Setups \ {s} : answers'[t] = answers[t]
    BY <1>1, <1>3, FirstAnswer DEF FailToOpenPipe, Settled, Told, TypesHold
  <1>5. TypesHold'
    BY <1>1, <1>2, <1>4, AwaitedEvent
       DEF FailToOpenPipe, reactor, TypesHold, SetupTypes, ReactorTypes, LoopTypes, QueueTypes,
           Phases
  <1>6. Concerns(s, d)
    BY <1>1, <1>2, <1>3, <1>4
       DEF FailToOpenPipe, reactor, Concerns, Spared, TypesHold, SetupTypes, ReactorTypes
  <1>7. Settled(s, d)'
    BY <1>1, <1>2, <1>3, <1>4, AwaitedEvent
       DEF FailToOpenPipe, reactor, Settled, Stage, Handles, Armed, Told, EntryHeld, Holding,
           Completing, Busy,
           TypesHold, SetupTypes, ReactorTypes
  <1> QED BY <1>2, <1>5, <1>6, <1>7, OneSetup

LEMMA DestroyKeeps ==
  ASSUME CInv, NEW s \in Setups, Destroy(s), UNCHANGED role
  PROVE  CInv'
  <1>1. TypesHold /\ Nobody \notin Descriptors \cup Setups /\ Initialiser \notin Setups
    BY NobodyAssumption, InitialiserAssumption DEF CInv
  <1>2. PICK d \in Descriptors : fd[s] = d
    BY <1>1 DEF Destroy, CInv, HeldWhileOpen, Holding, TypesHold, SetupTypes
  <1>3. /\ Settled(s, d)
        /\ \A t \in Setups \ {s} : fd[t] # d
        /\ \A e \in Descriptors \ {d} : active[e] # s
    BY <1>2, SettledBefore
  <1>4. TypesHold'
    BY <1>1, <1>2, CleanupTypes, CleanupSpares, AwaitedEvent
       DEF Destroy, reactor, TypesHold, SetupTypes, ReactorTypes, LoopTypes, QueueTypes,
           Phases, Without
  <1>5. ASSUME NEW e \in Descriptors \ {d}
        PROVE  Spared(e)
    BY <1>1, <1>2, CleanupTypes, CleanupSpares DEF Destroy, Spared, TypesHold, ReactorTypes,
                                                   Without
  <1>6. Concerns(s, d)
    BY <1>1, <1>2, <1>3, <1>5
       DEF Destroy, reactor, Concerns, TypesHold, SetupTypes, ReactorTypes
  <1>7. /\ phase[s] = "handed" /\ phase'[s] = "closed" /\ fd'[s] = Nobody
        /\ interest'[d] = {}
        /\ handler[d] # s => context'[d] = context[d] /\ handler'[d] = handler[d]
        /\ handler[d] = s => context'[d] = "absent" /\ handler'[d] = Nobody
        /\ UNCHANGED <<active, loop, answers, excused>>
    BY <1>1, <1>2, CleanupTypes, CleanupSpares
       DEF Destroy, TypesHold, SetupTypes, ReactorTypes, Without
  <1>8. active[d] # Nobody => EntryHeld(d, active[d])'
    <2>1. active[d] # s
      BY <1>2, NobodyAssumption DEF Destroy, Busy, CInv, EntriesHeld, EntryHeld
    <2> QED BY <1>6, <1>7, <2>1, OtherEntryHeld
  <1>9. Settled(s, d)'
    BY <1>1, <1>2, <1>3, <1>7, <1>8, AwaitedEvent
       DEF Settled, Stage, Handles, Armed, Told, Holding, Completing
  <1> QED BY <1>2, <1>4, <1>6, <1>9, OneSetup

-----------------------------------------------------------------------------
(* The steps of the event loop that decide *)

\* Who has an entry that the loop looks at, while it is handling.
LEMMA HandledSetup ==
  ASSUME CInv, loop.step = "handling", active[loop.descriptor] # Nobody
  PROVE  \E s \in Setups, d \in Descriptors :
            /\ loop.descriptor = d /\ active[d] = s /\ fd[s] = d /\ Busy(d)
            /\ phase[s] \in {"pending", "deaf"}
  BY DEF CInv, TypesHold, LoopTypes, SetupTypes, EntriesHeld, EntryHeld, Busy

LEMMA SucceedKeeps ==
  ASSUME CInv, Succeed, UNCHANGED role
  PROVE  CInv'
  <1>1. TypesHold /\ Nobody \notin Descriptors \cup Setups /\ Initialiser \notin Setups
    BY NobodyAssumption, InitialiserAssumption DEF CInv
  <1>2. PICK s \in Setups, d \in Descriptors :
            /\ loop.descriptor = d /\ active[d] = s /\ fd[s] = d /\ Busy(d)
            /\ phase[s] \in {"pending", "deaf"}
    BY HandledSetup DEF Succeed, Deciding, Handling
  <1>3. /\ Settled(s, d)
        /\ \A t \in Setups \ {s} : fd[t] # d
        /\ \A e \in Descriptors \ {d} : active[e] # s
    BY <1>2, SettledBefore
  <1>4. loop.step = "handling"
    BY DEF Succeed, Deciding, Handling
  <1>5. /\ answers' \in [Setups -> Seq({"endpoint", "none"})]
        /\ answers'[s] = <<"endpoint">>
        /\ \A t \in Setups \ {s} : answers'[t] = answers[t]
    BY <1>1, <1>2, <1>3, FirstAnswer DEF Succeed, Settled, Told, TypesHold
  <1>6. /\ phase'[s] = "handed" /\ active'[d] = Nobody /\ fd'[s] = d
        /\ loop'.step = "handling" /\ loop'.descriptor = d
        /\ \/ /\ context'[d] = "live" /\ interest'[d] = {In} /\ handler'[d] = s
              /\ excused' = excused
           \/ /\ context'[d] = "absent" /\ interest'[d] = {} /\ handler'[d] = handler[d]
              /\ s \in excused'
    <2>1. Without(d)[d] = "absent" /\ CleanHandler[d] = handler[d]
      BY <1>1, <1>2, CleanupTypes, CleanupSpares DEF Without
    <2>2. /\ phase'[s] = "handed" /\ active'[d] = Nobody /\ fd'[s] = d
          /\ loop'.step = "handling" /\ loop'.descriptor = d
      BY <1>1, <1>2, <1>4 DEF Succeed, NextEvent, TypesHold, SetupTypes, LoopTypes
    <2>3. \/ /\ context' = [Without(d) EXCEPT ![d] = "live"]
             /\ interest' = [interest EXCEPT ![d] = {In}]
             /\ handler' = [CleanHandler EXCEPT ![d] = s] /\ excused' = excused
          \/ /\ context' = Without(d) /\ interest' = [interest EXCEPT ![d] = {}]
             /\ handler' = CleanHandler /\ s \in excused'
      BY <1>2, <2>1 DEF Succeed
    <2>4. DOMAIN Without(d) = Descriptors
      BY CleanupTypes, <1>1 DEF Without
    <2> QED BY <1>1, <2>1, <2>2, <2>3, <2>4, CleanupTypes DEF TypesHold, ReactorTypes
  <1>7. TypesHold'
    <2>1. SetupTypes' /\ LoopTypes' /\ QueueTypes'
      BY <1>1, <1>2, <1>4, <1>5
         DEF Succeed, NextEvent, TypesHold, SetupTypes, LoopTypes, QueueTypes, Phases
    <2>2. ReactorTypes'
      BY <1>1, <1>2, CleanupTypes, CleanupSpares DEF Succeed, Without, TypesHold, ReactorTypes
    <2> QED BY <2>1, <2>2 DEF TypesHold
  <1>8. ASSUME NEW e \in Descriptors \ {d}
        PROVE  Spared(e)
    BY <1>1, <1>2, CleanupTypes, CleanupSpares DEF Succeed, Spared, TypesHold, ReactorTypes,
                                                   Without
  <1>9. Concerns(s, d)
    BY <1>1, <1>2, <1>3, <1>4, <1>5, <1>8
       DEF Succeed, NextEvent, reactor, Concerns, Completing, TypesHold, SetupTypes,
           ReactorTypes, LoopTypes
  <1>10. Settled(s, d)'
    BY <1>1, <1>2, <1>3, <1>4, <1>5, <1>6
       DEF Settled, Stage, Handles, Armed, Told, EntryHeld, Holding, Completing
  <1> QED BY <1>7, <1>9, <1>10, OneSetup

LEMMA FailToAcceptKeeps ==
  ASSUME CInv, FailToAccept, UNCHANGED role
  PROVE  CInv'
  <1>1. TypesHold /\ Nobody \notin Descriptors \cup Setups /\ Initialiser \notin Setups
    BY NobodyAssumption, InitialiserAssumption DEF CInv
  <1>2. PICK s \in Setups, d \in Descriptors :
            /\ loop.descriptor = d /\ active[d] = s /\ fd[s] = d /\ Busy(d)
            /\ phase[s] \in {"pending", "deaf"}
    BY HandledSetup DEF FailToAccept, Deciding, Handling
  <1>3. /\ Settled(s, d)
        /\ \A t \in Setups \ {s} : fd[t] # d
        /\ \A e \in Descriptors \ {d} : active[e] # s
    BY <1>2, SettledBefore
  <1>4. loop.step = "handling"
    BY DEF FailToAccept, Deciding, Handling
  <1>5. TypesHold'
    BY <1>1, <1>2, <1>4, CleanupTypes, CleanupSpares
       DEF FailToAccept, NextEvent, Without, reactor, TypesHold, SetupTypes, ReactorTypes,
           LoopTypes, QueueTypes, Phases
  <1>6. ASSUME NEW e \in Descriptors \ {d}
        PROVE  Spared(e)
    BY <1>1, <1>2, CleanupTypes, CleanupSpares DEF FailToAccept, Spared, TypesHold,
                                                   ReactorTypes, Without
  <1>7. Concerns(s, d)
    BY <1>1, <1>2, <1>3, <1>4, <1>6
       DEF FailToAccept, NextEvent, reactor, Concerns, Completing, TypesHold, SetupTypes,
           ReactorTypes, LoopTypes
  <1>8. Settled(s, d)'
    BY <1>1, <1>2, <1>3, <1>4, CleanupTypes, CleanupSpares, AwaitedEvent
       DEF FailToAccept, NextEvent, reactor, Settled, Stage, Handles, Armed, Told, EntryHeld, Holding,
           Completing, Busy,
           TypesHold, SetupTypes, ReactorTypes, LoopTypes, Without
  <1> QED BY <1>5, <1>7, <1>8, OneSetup

LEMMA FailKeeps ==
  ASSUME CInv, Fail, UNCHANGED role
  PROVE  CInv'
  <1>1. TypesHold /\ Nobody \notin Descriptors \cup Setups /\ Initialiser \notin Setups
    BY NobodyAssumption, InitialiserAssumption DEF CInv
  <1>2. PICK s \in Setups, d \in Descriptors :
            /\ loop.descriptor = d /\ active[d] = s /\ fd[s] = d /\ Busy(d)
            /\ phase[s] \in {"pending", "deaf"}
    BY HandledSetup DEF Fail, Deciding, Handling
  <1>3. /\ Settled(s, d)
        /\ \A t \in Setups \ {s} : fd[t] # d
        /\ \A e \in Descriptors \ {d} : active[e] # s
    BY <1>2, SettledBefore
  <1>4. loop.step = "handling"
    BY DEF Fail, Deciding, Handling
  <1>5. TypesHold'
    BY <1>1, <1>2, <1>4, CleanupTypes, CleanupSpares
       DEF Fail, NextEvent, Without, reactor, TypesHold, SetupTypes, ReactorTypes, LoopTypes,
           QueueTypes, Phases
  <1>6. ASSUME NEW e \in Descriptors \ {d}
        PROVE  Spared(e)
    BY <1>1, <1>2, CleanupTypes, CleanupSpares DEF Fail, Spared, TypesHold, ReactorTypes,
                                                   Without
  <1>7. Concerns(s, d)
    BY <1>1, <1>2, <1>3, <1>4, <1>6
       DEF Fail, NextEvent, reactor, Concerns, Completing, TypesHold, SetupTypes, ReactorTypes,
           LoopTypes
  <1>8. /\ phase'[s] = "failing" /\ fd'[s] = Nobody
        /\ context'[d] = "absent" /\ interest'[d] = {} /\ handler'[d] = handler[d]
        /\ loop'.step = "completing" /\ loop'.descriptor = d
        /\ UNCHANGED <<active, answers, excused>>
    BY <1>1, <1>2, <1>4, CleanupTypes, CleanupSpares
       DEF Fail, TypesHold, SetupTypes, ReactorTypes, LoopTypes, Without
  <1>9. Settled(s, d)'
    BY <1>1, <1>2, <1>3, <1>4, <1>8, AwaitedEvent
       DEF Settled, Stage, Handles, Armed, Told, EntryHeld, Holding, Completing
  <1> QED BY <1>5, <1>7, <1>9, OneSetup

-----------------------------------------------------------------------------
(* The steps that are about no setup *)

LEMMA NoSetup ==
  ASSUME CInv, TypesHold', UNCHANGED <<phase, fd, active, answers, interest, role>>,
         excused \subseteq excused',
         \/ loop'.step = loop.step /\ loop'.descriptor = loop.descriptor
         \/ ~Completing /\ ~Completing',
         \A d \in Descriptors :
            \/ Spared(d)
            \/ context'[d] = "expired" /\ handler'[d] = handler[d] /\ Owners(d) \subseteq excused'
  PROVE  CInv'
  <1> Nobody \notin Descriptors \cup Setups
    BY NobodyAssumption
  <1>1. (HeldWhileOpen /\ OneOwner)'
    BY DEF CInv, HeldWhileOpen, OneOwner
  <1>2. EntriesHeld'
    BY DEF CInv, EntriesHeld, EntryHeld, Completing
  <1>3. GivenTooEarly'
    BY DEF CInv, GivenTooEarly, Completing, Owners
  <1>4. EndpointHandles'
    BY DEF CInv, EndpointHandles, Spared
  <1>5. Watched'
    BY DEF CInv, Watched, Used
  <1>6. Remembered'
    <2> SUFFICES ASSUME excused' = {}, NEW d \in Descriptors, context'[d] = "live"
                 PROVE  Used(d)'
      BY DEF Remembered
    <2>1. context[d] = "live" /\ excused = {}
      BY DEF Spared
    <2> QED BY <2>1 DEF CInv, Remembered, Used
  <1>7. Staged'
    <2> SUFFICES ASSUME NEW s \in Setups, s \notin excused'
                 PROVE  Stage(s)'
      BY DEF Staged
    <2>1. Stage(s) /\ s \notin excused
      BY DEF CInv, Staged
    <2>2. CASE fd[s] \in Descriptors
      <3>1. Spared(fd[s])
        BY <2>2 DEF Owners
      <3> QED BY <2>1, <3>1, AwaitedEvent DEF Stage, Armed, Spared
    <2>3. CASE fd[s] = Nobody
      BY <2>1, <2>3 DEF Stage, Handles, CInv, HeldWhileOpen, Holding
    <2> QED BY <2>2, <2>3 DEF CInv, TypesHold, SetupTypes
  <1>8. AllTold'
    BY DEF CInv, AllTold, Told
  <1> QED BY <1>1, <1>2, <1>3, <1>4, <1>5, <1>6, <1>7, <1>8 DEF CInv

\* A notification is of who owns the number at the time.
LEMMA SourceIsOwner ==
  ASSUME CInv, NEW d \in Descriptors, interest[d] # {}
  PROVE  /\ (CHOOSE s \in Owners(d) : TRUE) \in Setups
         /\ fd[CHOOSE s \in Owners(d) : TRUE] = d
  BY DEF CInv, Watched, Used, Owners

LEMMA EdgeKeeps ==
  ASSUME CInv, NEW d \in Descriptors, NEW mask \in Masks[role], Edge(d, mask), UNCHANGED role
  PROVE  CInv'
  <1> DEFINE n == [descriptor |-> d, mask |-> mask, todo |-> Delivered(mask),
                   source |-> CHOOSE s \in Owners(d) : TRUE]
  <1>1. mask \in Reported
    <2>1. interest[d] \in {{}, {In}, {Out}}
      BY DEF CInv, TypesHold, ReactorTypes
    <2>2. interest[d] # {} /\ mask \subseteq interest[d] \cup {Err, Hup, Shutdown}
      BY DEF Edge
    <2>3. CASE interest[d] = {In}
      BY <2>2, <2>3 DEF Reported
    <2>4. CASE interest[d] = {Out}
      BY <2>2, <2>4 DEF Reported
    <2> QED BY <2>1, <2>2, <2>3, <2>4
  <1>2. n \in Notification
    <2>1. n.source \in Setups
      BY SourceIsOwner DEF Edge
    <2> QED BY <1>1, <2>1 DEF Notification, Orders
  <1>3. QueueTypes'
    BY <1>2, AppendProperties DEF CInv, TypesHold, QueueTypes, Edge
  <1>4. TypesHold'
    BY <1>3 DEF CInv, Edge, reactor, TypesHold, SetupTypes, ReactorTypes, LoopTypes
  <1> QED BY <1>4, NoSetup DEF Edge, reactor, Spared

LEMMA PopKeeps ==
  ASSUME CInv, Pop, UNCHANGED role
  PROVE  CInv'
  <1> DEFINE d == Head(queue).descriptor
  <1>1. Head(queue) \in Notification /\ Tail(queue) \in Seq(Notification)
    BY HeadTailProperties DEF CInv, TypesHold, QueueTypes, Pop
  <1>2. d \in Descriptors
    <2>1. \A n \in Notification : n.descriptor \in Descriptors
      BY DEF Notification
    <2> QED BY <1>1, <2>1
  <1>3. /\ loop.step = "pop" /\ queue' = Tail(queue)
        /\ DOMAIN loop' = {"step", "descriptor", "mask", "todo", "source"}
        /\ loop'.step \in {"pop", "handling"} /\ (loop'.step # "pop" => loop'.descriptor = d)
        /\ \/ context' = context /\ excused' = excused
           \/ context' = [context EXCEPT ![d] = "expired"] /\ excused' = excused \cup Owners(d)
        /\ UNCHANGED <<phase, fd, active, interest, handler, answers>>
    BY <1>1 DEF Pop, NoNotification
  <1> HIDE DEF d
  <1>4. TypesHold'
    BY <1>1, <1>2, <1>3
       DEF CInv, TypesHold, SetupTypes, ReactorTypes, LoopTypes, QueueTypes, Owners
  <1>5. ~Completing /\ ~Completing'
    BY <1>3 DEF Completing
  <1>6. ASSUME NEW e \in Descriptors
        PROVE  \/ Spared(e)
               \/ /\ context'[e] = "expired" /\ handler'[e] = handler[e]
                  /\ Owners(e) \subseteq excused'
    BY <1>3 DEF CInv, TypesHold, ReactorTypes, Spared
  <1> QED BY <1>3, <1>4, <1>5, <1>6, NoSetup

LEMMA DisownKeeps ==
  ASSUME CInv, loop.step = "handling", Disown, UNCHANGED role
  PROVE  CInv'
  <1>1. PICK d \in Descriptors : loop.descriptor = d
    BY DEF CInv, TypesHold, LoopTypes
  <1>2. loop.step = "handling" /\ loop'.step = "handling" /\ loop'.descriptor = d
    BY <1>1 DEF Disown, CInv, TypesHold, LoopTypes
  <1>3. TypesHold'
    BY <1>1, <1>2 DEF CInv, Disown, TypesHold, SetupTypes, ReactorTypes, LoopTypes, QueueTypes,
                      Owners
  <1>4. ASSUME NEW e \in Descriptors
        PROVE  \/ Spared(e)
               \/ /\ context'[e] = "expired" /\ handler'[e] = handler[e]
                  /\ Owners(e) \subseteq excused'
    BY <1>1 DEF Disown, CInv, TypesHold, ReactorTypes, Spared
  <1> QED BY <1>1, <1>2, <1>3, <1>4, NoSetup DEF Disown

LEMMA InvalidReferenceKeeps ==
  ASSUME CInv, InvalidReference \/ RefuseUnknownId, UNCHANGED role
  PROVE  CInv'
  BY DisownKeeps DEF InvalidReference, RefuseUnknownId, Handling

\* The next event, or the end of a notification.
LEMMA LoopGoesOn ==
  ASSUME CInv, UNCHANGED role,
         \/ HandleByEndpoint \/ Undecided \/ Finish
  PROVE  CInv'
  <1>1. /\ DOMAIN loop' = {"step", "descriptor", "mask", "todo", "source"}
        /\ loop.step = "handling" /\ loop'.step \in {"pop", "handling"}
        /\ loop'.step = "handling" => loop'.descriptor = loop.descriptor
    BY DEF CInv, TypesHold, LoopTypes, HandleByEndpoint, Undecided, Finish, Handling, NextEvent,
           NoNotification
  <1>2. UNCHANGED <<phase, fd, active, answers, reactor, excused, queue>>
    BY DEF HandleByEndpoint, Undecided, Finish
  <1>3. TypesHold'
    BY <1>1, <1>2 DEF CInv, TypesHold, SetupTypes, ReactorTypes, LoopTypes, QueueTypes, reactor
  <1> QED BY <1>1, <1>2, <1>3, NoSetup DEF reactor, Spared, Completing

LEMMA CleanupKeeps ==
  ASSUME CInv, Cleanup, UNCHANGED role
  PROVE  CInv'
  <1>1. TypesHold'
    BY CleanupTypes
       DEF CInv, Cleanup, TypesHold, SetupTypes, ReactorTypes, LoopTypes, QueueTypes
  <1>2. ASSUME NEW d \in Descriptors
        PROVE  Spared(d)
    BY CleanupSpares DEF CInv, Cleanup, Spared
  <1> QED BY <1>1, <1>2, NoSetup DEF Cleanup

-----------------------------------------------------------------------------
(* The completion of a failed connection *)

LEMMA CompleteKeeps ==
  ASSUME CInv, Complete, UNCHANGED role
  PROVE  CInv'
  <1> DEFINE word(s) == IF phase[s] = "failing" THEN "none" ELSE "endpoint"
  <1> DEFINE end(s) == IF phase[s] = "failing" THEN "failed" ELSE "handed"
  <1>1. TypesHold /\ Nobody \notin Descriptors \cup Setups
    BY NobodyAssumption DEF CInv
  <1>2. PICK s \in Setups, d \in Descriptors :
            /\ loop.descriptor = d /\ active[d] = s /\ Owners(d) \subseteq excused
            /\ \/ fd[s] = d /\ phase[s] \in {"pending", "deaf"}
               \/ phase[s] = "failing"
    <2>1. loop.step = "completing" /\ loop.descriptor \in Descriptors
      BY <1>1 DEF Complete, TypesHold, LoopTypes
    <2> QED BY <1>1, <2>1 DEF CInv, GivenTooEarly, EntriesHeld, EntryHeld, Completing,
                              TypesHold, SetupTypes
  <1>3. answers[s] = <<>>
    BY <1>2 DEF CInv, AllTold, Told
  <1>4. /\ answers' \in [Setups -> Seq({"endpoint", "none"})]
        /\ answers'[s] = <<word(s)>>
        /\ \A t \in Setups \ {s} : answers'[t] = answers[t]
    BY <1>1, <1>2, <1>3, FirstAnswer DEF Complete, TypesHold
  <1>5. /\ phase' = [phase EXCEPT ![s] = end(s)]
        /\ loop'.step = "erasing" /\ loop'.descriptor = d
        /\ DOMAIN loop' = {"step", "descriptor", "mask", "todo", "source"}
        /\ UNCHANGED <<fd, active, context, interest, handler, queue, excused>>
        /\ loop.step = "completing"
    BY <1>1, <1>2 DEF Complete, reactor, TypesHold, LoopTypes
  <1>6. TypesHold'
    BY <1>1, <1>2, <1>4, <1>5
       DEF TypesHold, SetupTypes, ReactorTypes, LoopTypes, QueueTypes, Phases
  <1>7. phase'[s] = end(s) /\ \A t \in Setups \ {s} : phase'[t] = phase[t]
    BY <1>1, <1>5 DEF TypesHold, SetupTypes
  <1>8. fd[s] = d \/ fd[s] = Nobody
    BY <1>2 DEF CInv, HeldWhileOpen, Holding
  <1>9. (HeldWhileOpen /\ OneOwner)'
    BY <1>2, <1>5, <1>7 DEF CInv, HeldWhileOpen, OneOwner, Holding
  <1>10. EntriesHeld'
    BY <1>1, <1>2, <1>5, <1>7 DEF CInv, EntriesHeld, EntryHeld, TypesHold, SetupTypes
  <1>11. GivenTooEarly'
    BY <1>1, <1>2, <1>5 DEF GivenTooEarly, Owners
  <1>12. EndpointHandles'
    BY <1>2, <1>5, <1>7 DEF CInv, EndpointHandles, Handles
  <1>13. ASSUME NEW e \in Descriptors, Used(e)
         PROVE  Used(e)'
    BY <1>5, <1>7, <1>13 DEF Used
  <1>14. (Watched /\ Remembered)'
    BY <1>5, <1>13 DEF CInv, Watched, Remembered
  <1>15. Staged'
    <2> SUFFICES ASSUME NEW t \in Setups \ excused
                 PROVE  Stage(t)'
      BY <1>5 DEF Staged
    <2>1. CASE t = s
      BY <1>2, <1>7, <2>1 DEF Stage, Handles, Owners
    <2>2. CASE t # s
      BY <1>5, <1>7, <2>2, AwaitedEvent DEF CInv, Staged, Stage, Armed
    <2> QED BY <2>1, <2>2
  <1>16. AllTold'
    BY <1>4, <1>5, <1>7 DEF CInv, AllTold, Told
  <1> QED BY <1>6, <1>9, <1>10, <1>11, <1>12, <1>14, <1>15, <1>16 DEF CInv

LEMMA EraseKeeps ==
  ASSUME CInv, Erase, UNCHANGED role
  PROVE  CInv'
  <1>1. TypesHold /\ Nobody \notin Descriptors \cup Setups
    BY NobodyAssumption DEF CInv
  <1>2. PICK s \in Setups, d \in Descriptors :
            /\ loop.descriptor = d /\ active[d] = s /\ Owners(d) \subseteq excused
            /\ phase[s] = "pending" => fd[s] = d
    <2>1. loop.step = "erasing" /\ loop.descriptor \in Descriptors
      BY <1>1 DEF Erase, TypesHold, LoopTypes
    <2> QED BY <1>1, <2>1 DEF CInv, GivenTooEarly, EntriesHeld, EntryHeld, Completing,
                              TypesHold, SetupTypes
  <1>3. /\ active' = [active EXCEPT ![d] = Nobody]
        /\ loop.step = "erasing" /\ loop'.step = "handling" /\ loop'.descriptor = d
        /\ DOMAIN loop' = {"step", "descriptor", "mask", "todo", "source"}
        /\ UNCHANGED <<context, handler, queue, answers, excused>>
    BY <1>1, <1>2 DEF Erase, EntryErased, TypesHold, LoopTypes
  <1>4. EntriesHeld' /\ GivenTooEarly'
    <2>1. GivenTooEarly'
      BY <1>3 DEF GivenTooEarly, Completing
    <2> SUFFICES ASSUME NEW e \in Descriptors \ {d}, active[e] # Nobody
                 PROVE  EntryHeld(e, active[e])'
      BY <1>1, <1>3, <2>1 DEF EntriesHeld, TypesHold, SetupTypes
    <2>2. /\ active'[e] = active[e] /\ active[e] \in Setups
          /\ fd[active[e]] = e /\ phase[active[e]] \in {"pending", "deaf"}
      BY <1>1, <1>2, <1>3 DEF CInv, EntriesHeld, EntryHeld, TypesHold, SetupTypes
    <2>3. phase'[active[e]] = phase[active[e]] /\ fd'[active[e]] = fd[active[e]]
      BY <1>1, <1>2, <2>2 DEF Erase, TypesHold, SetupTypes
    <2> QED BY <2>2, <2>3 DEF EntryHeld
  <1>5. CASE phase[s] = "pending"
    <2>1. /\ s \in excused /\ fd[s] = d
          /\ \A t \in Setups \ {s} : fd[t] # d
      BY <1>1, <1>2, <1>5 DEF CInv, OneOwner, Owners
    <2>2. /\ phase' = [phase EXCEPT ![s] = "failed"] /\ fd' = [fd EXCEPT ![s] = Nobody]
          /\ interest' = [interest EXCEPT ![d] = {}]
      BY <1>2, <1>5 DEF Erase
    <2>3. TypesHold'
      BY <1>1, <1>2, <1>3, <2>2 DEF TypesHold, SetupTypes, ReactorTypes, LoopTypes, QueueTypes,
                                    Phases
    <2>4. (HeldWhileOpen /\ OneOwner)'
      BY <1>1, <2>2 DEF CInv, HeldWhileOpen, OneOwner, Holding, TypesHold, SetupTypes
    <2>5. EndpointHandles'
      BY <1>1, <1>3, <1>5, <2>2 DEF CInv, EndpointHandles, Handles, TypesHold, SetupTypes
    <2>6. ASSUME NEW e \in Descriptors \ {d}, Used(e)
          PROVE  Used(e)'
      BY <1>1, <2>1, <2>2, <2>6 DEF Used, TypesHold, SetupTypes
    <2>7. Watched' /\ Remembered'
      BY <1>1, <1>3, <2>1, <2>2, <2>6 DEF CInv, Watched, Remembered, TypesHold, ReactorTypes
    <2>8. Staged'
      <3> SUFFICES ASSUME NEW t \in Setups \ excused
                   PROVE  Stage(t)'
        BY <1>3 DEF Staged
      <3>1. t # s /\ fd[t] # d /\ phase'[t] = phase[t] /\ fd'[t] = fd[t] /\ Stage(t)
        BY <1>1, <2>1, <2>2 DEF CInv, Staged, TypesHold, SetupTypes
      <3> QED BY <1>1, <1>2, <1>3, <2>2, <3>1, AwaitedEvent
              DEF Stage, Armed, TypesHold, SetupTypes, ReactorTypes, CInv, HeldWhileOpen,
                  Holding
    <2>9. AllTold'
      BY <1>1, <1>3, <1>5, <2>1, <2>2 DEF CInv, AllTold, Told, TypesHold, SetupTypes
    <2> QED BY <1>4, <2>3, <2>4, <2>5, <2>7, <2>8, <2>9 DEF CInv
  <1>6. CASE phase[s] # "pending"
    <2>1. UNCHANGED <<phase, fd, interest>>
      BY <1>2, <1>6 DEF Erase
    <2>2. TypesHold'
      BY <1>1, <1>2, <1>3, <2>1 DEF TypesHold, SetupTypes, ReactorTypes, LoopTypes, QueueTypes
    <2>3. (HeldWhileOpen /\ OneOwner /\ EndpointHandles)'
      BY <1>3, <2>1 DEF CInv, HeldWhileOpen, OneOwner, EndpointHandles
    <2>4. (Watched /\ Remembered)'
      BY <1>3, <2>1 DEF CInv, Watched, Remembered, Used
    <2>5. Staged'
      <3> SUFFICES ASSUME NEW t \in Setups \ excused
                   PROVE  Stage(t)'
        BY <1>3 DEF Staged
      <3>1. Stage(t) /\ (fd[t] # Nobody => fd[t] \in Descriptors \ {d})
        BY <1>1, <1>2 DEF CInv, Staged, Owners, TypesHold, SetupTypes
      <3> QED BY <1>1, <1>3, <2>1, <3>1, AwaitedEvent
              DEF Stage, Armed, TypesHold, SetupTypes, CInv, HeldWhileOpen, Holding
    <2>6. AllTold'
      BY <1>3, <2>1 DEF CInv, AllTold, Told
    <2> QED BY <1>4, <2>2, <2>3, <2>4, <2>5, <2>6 DEF CInv
  <1> QED BY <1>5, <1>6

-----------------------------------------------------------------------------
(* The invariant of the specification *)

LEMMA InitialInvariant == Init => CInv
  <1> SUFFICES ASSUME Init
               PROVE  CInv
    OBVIOUS
  <1>1. TypesHold
    BY DEF Init, TypesHold, SetupTypes, ReactorTypes, LoopTypes, QueueTypes, NoNotification,
           Phases
  <1>2. ~Completing
    BY DEF Init, NoNotification, Completing
  <1> QED BY <1>1, <1>2, NobodyAssumption
          DEF Init, CInv, HeldWhileOpen, Holding, Handles, OneOwner, EntriesHeld, GivenTooEarly,
              EndpointHandles,
              Watched, Remembered, Staged, Stage, AllTold, Told

LEMMA NextInvariant == CInv /\ [Next]_vars => CInv'
  <1> SUFFICES ASSUME CInv, [Next]_vars
               PROVE  CInv'
    OBVIOUS
  <1>1. ASSUME NEW s \in Setups, SetupStep(s), UNCHANGED role
        PROVE  CInv'
    BY <1>1, OpenDeviceKeeps, FailToConnectKeeps, RefuseKeeps, SubscribeKeeps, AddHandlerKeeps,
       StoreEntryKeeps, ConnectPipeKeeps, AddPipeHandlerKeeps, SetListenerIdKeeps, CallBackKeeps, FailToOpenPipeKeeps DEF SetupStep
  <1>2. ASSUME LoopStep, UNCHANGED role
        PROVE  CInv'
    BY <1>2, PopKeeps, LoopGoesOn, InvalidReferenceKeeps, SucceedKeeps, FailToAcceptKeeps,
       FailKeeps, CompleteKeeps, EraseKeeps DEF LoopStep
  <1>3. CASE UNCHANGED vars
    <2>1. UNCHANGED <<phase, fd, active, answers, interest, role, context, handler, loop,
                      excused, queue>>
      BY <1>3 DEF vars, reactor
    <2>2. TypesHold'
      BY <2>1 DEF CInv, TypesHold, SetupTypes, ReactorTypes, LoopTypes, QueueTypes
    <2> QED BY <2>1, <2>2, NoSetup DEF Spared
  <1> QED BY <1>1, <1>2, <1>3, DestroyKeeps, EdgeKeeps, CleanupKeeps DEF Next

LEMMA Invariant == Spec => []CInv
  BY InitialInvariant, NextInvariant, PTL DEF Spec

-----------------------------------------------------------------------------
(* Whose notifications there are, and what was done with their events *)

Waiting == {"registered", "subscribed", "pending"}

\* What is left of a notification when k of its events were taken.
Left(todo, mask, k) ==
    LET D == Delivered(mask)
    IN  /\ k \in 0..Len(D) /\ todo \in Seq(Event) /\ Len(todo) = Len(D) - k
        /\ \A i \in 1..Len(todo) : todo[i] = D[i + k]

\* The events taken from a notification, if its descriptor's owner still waits,
\* were ones that decide nothing.
Taken(k) ==
    (/\ loop.step = "handling"
     /\ \E s \in Setups \ excused : fd[s] = loop.descriptor /\ phase[s] \in Waiting)
    => \A i \in 1..k : Verdict(Delivered(loop.mask)[i]) = "default"

LoopTakes ==
    loop.step # "pop" =>
        /\ loop.mask \in Reported
        /\ \E k \in Nat : Left(loop.todo, loop.mask, k) /\ Taken(k)
        /\ Completing => loop.todo # <<>>

\* What is queued or handled for the number of a setup that no window hit is about it.
Notified(s) ==
    fd[s] # Nobody =>
        /\ \A i \in DOMAIN queue :
              queue[i].descriptor = fd[s] => queue[i].source = s /\ phase[s] # "opened"
        /\ Busy(fd[s]) => /\ loop.step = "handling" /\ loop.source = s
                          /\ phase[s] # "opened"

NInv ==
    /\ LoopTakes
    /\ \A s \in Setups \ excused : Notified(s) /\ phase[s] # "deaf"

LEMMA VerdictKept ==
  ASSUME UNCHANGED role
  PROVE  \A e : Verdict(e)' = Verdict(e)
  BY DEF Verdict, FailureFirst, Awaited

\* A step of one setup.
LEMMA SetupNotified ==
  ASSUME CInv, CInv', NInv, UNCHANGED <<loop, queue, role>>, excused \subseteq excused',
         NEW s \in Setups, fd'[s] \in {fd[s], Nobody}, phase'[s] \notin {"opened", "deaf"},
         phase'[s] \in Waiting => phase[s] \in Waiting \cup {"opened"},
         \A t \in Setups \ {s} : phase'[t] = phase[t] /\ fd'[t] = fd[t]
  PROVE  NInv'
  <1> Nobody \notin Descriptors \cup Setups
    BY NobodyAssumption
  <1>1. ASSUME NEW t \in Setups \ excused'
        PROVE  Notified(t)' /\ phase'[t] # "deaf"
    BY <1>1 DEF NInv, Notified, Busy
  <1>2. ASSUME NEW k \in Nat, Taken(k), loop.step # "pop"
        PROVE  Taken(k)'
    <2> SUFFICES ASSUME loop.step = "handling", NEW t \in Setups \ excused',
                        fd'[t] = loop.descriptor, phase'[t] \in Waiting
                 PROVE  \A i \in 1..k : Verdict(Delivered(loop.mask)[i]) = "default"
      BY VerdictKept DEF Taken
    <2>1. fd[t] = loop.descriptor /\ loop.descriptor \in Descriptors
      BY DEF CInv, TypesHold, LoopTypes
    <2>2. phase[t] # "opened"
      BY <2>1 DEF NInv, Notified, Busy
    <2> QED BY <1>2, <2>1, <2>2 DEF Taken
  <1>3. LoopTakes'
    BY <1>2 DEF NInv, LoopTakes, Completing, Left
  <1> QED BY <1>1, <1>3 DEF NInv

LEMMA SetupStepNotified ==
  ASSUME CInv, CInv', NInv, UNCHANGED role, NEW s \in Setups,
         \/ FailToConnect(s) \/ Refuse(s) \/ Subscribe(s) \/ AddHandler(s) \/ StoreEntry(s)
         \/ ConnectPipe(s) \/ AddPipeHandler(s) \/ SetListenerId(s) \/ CallBack(s)
         \/ FailToOpenPipe(s) \/ Destroy(s)
  PROVE  NInv'
  <1>1. UNCHANGED <<loop, queue>> /\ excused \subseteq excused'
    BY DEF FailToConnect, Refuse, Subscribe, AddHandler, StoreEntry, ConnectPipe, AddPipeHandler, SetListenerId, CallBack,
           FailToOpenPipe, Destroy, reactor
  <1>2. /\ fd' \in {fd, [fd EXCEPT ![s] = Nobody]}
        /\ \E p \in Phases \ {"opened", "deaf"} : phase' = [phase EXCEPT ![s] = p]
    BY DEF FailToConnect, Refuse, Subscribe, AddHandler, StoreEntry, ConnectPipe, AddPipeHandler, SetListenerId, CallBack,
           FailToOpenPipe, Destroy, Phases
  <1>3. phase'[s] \in Waiting => phase[s] \in Waiting \cup {"opened"}
    BY DEF FailToConnect, Refuse, Subscribe, AddHandler, StoreEntry, ConnectPipe, AddPipeHandler, SetListenerId, CallBack,
           FailToOpenPipe, Destroy, Waiting, CInv, TypesHold, SetupTypes
  <1>4. /\ fd'[s] \in {fd[s], Nobody} /\ phase'[s] \notin {"opened", "deaf"}
        /\ \A t \in Setups \ {s} : phase'[t] = phase[t] /\ fd'[t] = fd[t]
    BY <1>2 DEF CInv, TypesHold, SetupTypes
  <1> QED BY <1>1, <1>3, <1>4, SetupNotified

LEMMA OpenDeviceNotified ==
  ASSUME CInv, NInv, UNCHANGED role, NEW s \in Setups, NEW d \in Descriptors, OpenDevice(s, d)
  PROVE  NInv'
  <1>1. /\ UNCHANGED <<loop, queue>> /\ excused \subseteq excused'
        /\ phase'[s] = "opened" /\ fd'[s] = d
        /\ \A t \in Setups \ {s} : phase'[t] = phase[t] /\ fd'[t] = fd[t]
        /\ s \notin excused' => ~Busy(d) /\ \A i \in DOMAIN queue : queue[i].descriptor # d
    BY DEF OpenDevice, CInv, TypesHold, SetupTypes
  <1>2. ASSUME NEW t \in Setups \ excused'
        PROVE  Notified(t)' /\ phase'[t] # "deaf"
    BY <1>1, <1>2 DEF NInv, Notified, Busy
  <1>3. ASSUME NEW k \in Nat, Taken(k)
        PROVE  Taken(k)'
    BY <1>1, <1>3, VerdictKept DEF Taken, Waiting
  <1>4. LoopTakes'
    BY <1>1, <1>3 DEF NInv, LoopTakes, Completing, Left
  <1> QED BY <1>2, <1>4 DEF NInv

\* A step that leaves the loop where it is, and every setup.
LEMMA EdgeNotified ==
  ASSUME CInv, NInv, UNCHANGED role,
         NEW d \in Descriptors, NEW mask \in Masks[role], Edge(d, mask)
  PROVE  NInv'
  <1> DEFINE n == [descriptor |-> d, mask |-> mask, todo |-> Delivered(mask),
                   source |-> CHOOSE s \in Owners(d) : TRUE]
  <1>1. UNCHANGED <<loop, phase, fd, excused>> /\ queue' = Append(queue, n) /\ interest[d] # {}
    BY DEF Edge
  <1>2. ASSUME NEW s \in Setups \ excused, fd[s] = d
        PROVE  n.source = s /\ phase[s] # "opened"
    <2>1. n.source \in Setups /\ fd[n.source] = d
      BY <1>1, SourceIsOwner
    <2>2. Used(d)
      BY <1>1 DEF CInv, Watched
    <2> QED BY <1>2, <2>1, <2>2, NobodyAssumption DEF CInv, OneOwner, Used
  <1>3. n.descriptor = d
    OBVIOUS
  <1> HIDE DEF n
  <1>4. \A i \in DOMAIN queue' : (i \in DOMAIN queue /\ queue'[i] = queue[i]) \/ queue'[i] = n
    BY <1>1 DEF CInv, TypesHold, QueueTypes
  <1>5. ASSUME NEW s \in Setups \ excused
        PROVE  Notified(s)'
    BY <1>1, <1>2, <1>3, <1>4 DEF NInv, Notified, Busy
  <1>6. LoopTakes'
    BY <1>1, VerdictKept DEF NInv, LoopTakes, Completing, Taken
  <1> QED BY <1>1, <1>5, <1>6 DEF NInv

LEMMA NoneTaken ==
  ASSUME DeliveredInOrder, NEW mask \in Reported
  PROVE  Left(Delivered(mask), mask, 0)
  <1>1. Delivered(mask) \in Seq(Event)
    BY DEF DeliveredInOrder, InOrder
  <1> QED BY <1>1 DEF Left

LEMMA NextTaken ==
  ASSUME NEW k \in Nat, NEW mask, NEW todo, Left(todo, mask, k), todo # <<>>
  PROVE  Left(Tail(todo), mask, k + 1) /\ Head(todo) = Delivered(mask)[k + 1]
  <1> DEFINE D == Delivered(mask)
             rest == Tail(todo)
  <1>1. todo \in Seq(Event) /\ Len(todo) = Len(D) - k /\ k \in 0..Len(D)
        /\ \A i \in 1..Len(todo) : todo[i] = D[i + k]
    BY DEF Left
  <1>2. /\ rest \in Seq(Event) /\ Len(rest) = Len(todo) - 1 /\ Len(todo) \in Nat \ {0}
        /\ \A i \in 1..Len(rest) : rest[i] = todo[i + 1]
        /\ Head(todo) = todo[1]
    BY <1>1
  <1> HIDE DEF D, rest
  <1>3. k \in Int /\ Len(D) \in Int /\ k + 1 \in 0..Len(D) /\ Len(rest) = Len(D) - (k + 1)
    BY <1>1, <1>2
  <1>4. ASSUME NEW i \in 1..Len(rest)
        PROVE  rest[i] = D[i + (k + 1)]
    <2>1. i + 1 \in 1..Len(todo) /\ (i + 1) + k = i + (k + 1)
      BY <1>2, <1>3
    <2> QED BY <1>1, <1>2, <2>1
  <1>5. Head(todo) = D[k + 1]
    BY <1>1, <1>2
  <1> QED BY <1>2, <1>3, <1>4, <1>5 DEF Left, D, rest

LEMMA LastTaken ==
  ASSUME NEW k \in Nat, NEW mask, NEW todo, Left(todo, mask, k)
  PROVE  Len(Delivered(mask)) \in Nat /\ Left(<<>>, mask, Len(Delivered(mask)))
  <1>1. Len(todo) \in Nat /\ Len(todo) = Len(Delivered(mask)) - k /\ k \in 0..Len(Delivered(mask))
    BY DEF Left
  <1>2. Len(Delivered(mask)) \in Nat
    BY <1>1
  <1>3. <<>> \in Seq(Event) /\ Len(<<>>) = 0
    OBVIOUS
  <1> QED BY <1>2, <1>3 DEF Left

\* A step of the event loop, when what it leaves to do is known.
LEMMA LoopNotified ==
  ASSUME CInv, CInv', NInv, LoopTakes', excused \subseteq excused',
         queue' = queue \/ (queue # <<>> /\ queue' = Tail(queue)),
         \A s \in Setups \ excused' :
            /\ fd'[s] \in {fd[s], Nobody}
            /\ phase'[s] = phase[s] \/ phase'[s] \notin {"opened", "deaf"}
            /\ loop'.step # "pop" /\ fd'[s] = loop'.descriptor =>
                  loop'.step = "handling" /\ loop'.source = s /\ phase'[s] # "opened"
  PROVE  NInv'
  <1>1. \A i \in DOMAIN queue' : \E j \in DOMAIN queue : queue'[i] = queue[j]
    <2>1. queue \in Seq(Notification)
      BY DEF CInv, TypesHold, QueueTypes
    <2>2. CASE queue' = queue
      BY <2>2
    <2>3. CASE queue # <<>> /\ queue' = Tail(queue)
      <3> SUFFICES ASSUME NEW i \in DOMAIN Tail(queue)
                   PROVE  i + 1 \in DOMAIN queue /\ Tail(queue)[i] = queue[i + 1]
        BY <2>3
      <3> QED BY <2>1, <2>3
    <2> QED BY <2>2, <2>3
  <1>2. ASSUME NEW s \in Setups \ excused'
        PROVE  Notified(s)' /\ phase'[s] # "deaf"
    BY <1>1, <1>2 DEF NInv, Notified, Busy
  <1> QED BY <1>2 DEF NInv

LEMMA PopNotified ==
  ASSUME DeliveredInOrder, CInv, CInv', NInv, UNCHANGED role, Pop
  PROVE  NInv'
  <1> DEFINE n == Head(queue)
  <1>1. n \in Notification /\ n = queue[1] /\ 1 \in DOMAIN queue /\ queue # <<>>
    BY HeadTailProperties DEF CInv, TypesHold, QueueTypes, Pop
  <1>2. /\ n.descriptor \in Descriptors /\ n.mask \in Reported /\ n.source \in Setups
        /\ n.todo = Delivered(n.mask)
    BY <1>1 DEF Notification
  <1>3. /\ loop' = NoNotification
           \/ loop' = [step |-> "handling", descriptor |-> n.descriptor, mask |-> n.mask,
                       todo |-> n.todo, source |-> n.source]
        /\ queue' = Tail(queue) /\ UNCHANGED <<phase, fd>> /\ excused \subseteq excused'
    BY DEF Pop
  <1> HIDE DEF n
  <1>4. LoopTakes'
    <2>1. CASE loop' = NoNotification
      BY <2>1 DEF LoopTakes, NoNotification
    <2>2. CASE loop' = [step |-> "handling", descriptor |-> n.descriptor, mask |-> n.mask,
                        todo |-> n.todo, source |-> n.source]
      <3>1. Left(loop'.todo, loop'.mask, 0) /\ loop'.mask \in Reported /\ loop'.step = "handling"
        BY <1>2, <2>2, NoneTaken
      <3>2. Left(loop.todo, loop.mask, 0)'
        BY <3>1 DEF Left
      <3>3. Taken(0)'
        BY DEF Taken
      <3> QED BY <3>1, <3>2, <3>3 DEF LoopTakes, Completing
    <2> QED BY <1>3, <2>1, <2>2
  <1>5. ASSUME NEW s \in Setups \ excused', loop'.step # "pop", fd'[s] = loop'.descriptor
        PROVE  loop'.step = "handling" /\ loop'.source = s /\ phase'[s] # "opened"
    BY <1>1, <1>2, <1>3, <1>5, NobodyAssumption DEF NoNotification, NInv, Notified
  <1> QED BY <1>1, <1>3, <1>4, <1>5, LoopNotified

\* Who owns the number while its events are handled, and waits, had nothing decided.
LEMMA EventTaken ==
  ASSUME CInv, NInv, UNCHANGED role, loop.step = "handling", loop.todo # <<>>,
         loop' = [loop EXCEPT !.todo = Tail(@)],
         \A s \in Setups \ excused' :
            fd'[s] = loop.descriptor /\ phase'[s] \in Waiting =>
                /\ fd[s] = loop.descriptor /\ phase[s] \in Waiting /\ s \notin excused
                /\ Verdict(Head(loop.todo)) = "default"
  PROVE  LoopTakes'
  <1>1. /\ loop'.step = "handling" /\ loop'.descriptor = loop.descriptor
        /\ loop'.mask = loop.mask /\ loop'.todo = Tail(loop.todo)
    BY DEF CInv, TypesHold, LoopTypes
  <1>2. PICK k \in Nat : Left(loop.todo, loop.mask, k) /\ Taken(k)
    BY DEF NInv, LoopTakes
  <1>3. Left(loop'.todo, loop.mask, k + 1) /\ Head(loop.todo) = Delivered(loop.mask)[k + 1]
    BY <1>1, <1>2, NextTaken
  <1>4. Taken(k + 1)'
    <2> SUFFICES ASSUME NEW s \in Setups \ excused',
                        fd'[s] = loop.descriptor, phase'[s] \in Waiting, NEW i \in 1..k + 1
                 PROVE  Verdict(Delivered(loop.mask)[i]) = "default"
      BY <1>1, VerdictKept DEF Taken
    <2>1. CASE i \in 1..k
      BY <1>2, <2>1 DEF Taken
    <2>2. CASE i = k + 1
      BY <1>3, <2>2
    <2> QED BY <2>1, <2>2
  <1>5. Left(loop.todo, loop.mask, k + 1)'
    BY <1>1, <1>3 DEF Left
  <1> QED BY <1>1, <1>4, <1>5 DEF LoopTakes, NInv, Completing

LEMMA HandledNotified ==
  ASSUME CInv, CInv', NInv, UNCHANGED role, HandleByEndpoint \/ Undecided
  PROVE  NInv'
  <1>1. /\ UNCHANGED <<phase, fd, active, reactor, queue, excused>>
        /\ loop.step = "handling" /\ loop.todo # <<>> /\ loop' = [loop EXCEPT !.todo = Tail(@)]
    BY DEF HandleByEndpoint, Undecided, Handling, NextEvent
  <1>2. ASSUME NEW s \in Setups \ excused, fd[s] = loop.descriptor, phase[s] \in Waiting
        PROVE  Verdict(Head(loop.todo)) = "default"
    <2>1. CASE HandleByEndpoint
      <3>1. handler[loop.descriptor] \in Setups /\ loop.descriptor \in Descriptors
        BY <2>1, <1>1 DEF HandleByEndpoint, Handling, CInv, TypesHold, LoopTypes
      <3>2. handler[loop.descriptor] = s /\ phase[s] \in Handles
        BY <1>2, <3>1, NobodyAssumption DEF CInv, EndpointHandles, OneOwner
      <3> QED BY <1>2, <3>2 DEF Waiting, Handles
    <2>2. CASE Undecided
      BY <2>2 DEF Undecided
    <2> QED BY <2>1, <2>2
  <1>3. LoopTakes'
    BY <1>1, <1>2, EventTaken
  <1>4. ASSUME NEW s \in Setups \ excused, fd[s] = loop'.descriptor
        PROVE  loop'.step = "handling" /\ loop'.source = s /\ phase[s] # "opened"
    <2>1. loop'.step = "handling" /\ loop'.descriptor = loop.descriptor
          /\ loop'.source = loop.source /\ fd[s] # Nobody
      BY <1>1, <1>4, NobodyAssumption DEF CInv, TypesHold, LoopTypes
    <2> QED BY <1>1, <1>4, <2>1 DEF NInv, Notified, Busy
  <1> QED BY <1>1, <1>3, <1>4, LoopNotified

LEMMA InvalidReferenceNotified ==
  ASSUME CInv, CInv', NInv, UNCHANGED role, InvalidReference \/ RefuseUnknownId
  PROVE  NInv'
  <1>1. /\ loop.step = "handling" /\ loop'.step = "handling" /\ loop'.todo = <<>>
        /\ loop'.mask = loop.mask /\ loop'.descriptor = loop.descriptor
        /\ UNCHANGED <<phase, fd, queue>> /\ excused' = excused \cup Owners(loop.descriptor)
    BY DEF InvalidReference, RefuseUnknownId, Disown, Handling, CInv, TypesHold, LoopTypes
  <1>2. PICK k \in Nat : Left(loop.todo, loop.mask, k)
    BY <1>1 DEF NInv, LoopTakes
  <1>3. PICK n \in Nat : Left(<<>>, loop.mask, n)
    BY <1>2, LastTaken
  <1>4. Left(loop.todo, loop.mask, n)'
    BY <1>1, <1>3 DEF Left
  <1>5. ASSUME NEW s \in Setups \ excused'
        PROVE  fd[s] # loop.descriptor
    BY <1>1 DEF Owners
  <1>6. Taken(n)'
    BY <1>1, <1>5 DEF Taken
  <1>7. LoopTakes'
    BY <1>1, <1>4, <1>6 DEF LoopTakes, NInv, Completing
  <1> QED BY <1>1, <1>5, <1>7, LoopNotified

LEMMA FinishNotified ==
  ASSUME CInv, CInv', NInv, UNCHANGED role, Finish
  PROVE  NInv'
  <1>1. loop'.step = "pop" /\ UNCHANGED <<phase, fd, queue, excused>>
    BY DEF Finish, NoNotification
  <1> QED BY <1>1, LoopNotified DEF LoopTakes

LEMMA CleanupNotified ==
  ASSUME NInv, UNCHANGED <<role, phase, fd, queue, loop, excused>>
  PROVE  NInv'
  <1>1. LoopTakes'
    BY VerdictKept DEF NInv, LoopTakes, Completing, Taken
  <1>2. ASSUME NEW s \in Setups \ excused
        PROVE  Notified(s)'
    BY <1>2 DEF NInv, Notified, Busy
  <1> QED BY <1>1, <1>2 DEF NInv

\* What the loop decides of a setup that waits.
LEMMA DecidedNotified ==
  ASSUME CInv, CInv', NInv, UNCHANGED role, Succeed \/ FailToAccept
  PROVE  NInv'
  <1>1. /\ UNCHANGED <<fd, queue>> /\ excused \subseteq excused'
        /\ loop.step = "handling" /\ loop.todo # <<>> /\ loop' = [loop EXCEPT !.todo = Tail(@)]
    BY DEF Succeed, FailToAccept, Deciding, Handling, NextEvent
  <1>2. PICK s \in Setups, d \in Descriptors :
            /\ loop.descriptor = d /\ active[d] = s /\ fd[s] = d /\ Busy(d)
            /\ phase[s] \in {"pending", "deaf"}
    BY HandledSetup DEF Succeed, FailToAccept, Deciding, Handling
  <1>3. \A t \in Setups \ {s} : fd[t] # d /\ phase'[t] = phase[t]
    BY <1>2, SettledBefore DEF Succeed, FailToAccept, CInv, TypesHold, SetupTypes
  <1>4. phase'[s] = "handed" \/ s \in excused'
    BY <1>2 DEF Succeed, FailToAccept, CInv, TypesHold, SetupTypes
  <1>5. LoopTakes'
    BY <1>1, <1>2, <1>3, <1>4, EventTaken DEF Waiting
  <1>6. ASSUME NEW t \in Setups \ excused', fd[t] = loop'.descriptor
        PROVE  loop'.step = "handling" /\ loop'.source = t /\ phase'[t] # "opened"
    <2>1. loop'.step = "handling" /\ loop'.descriptor = d /\ loop'.source = loop.source
      BY <1>1, <1>2 DEF CInv, TypesHold, LoopTypes
    <2>2. t = s /\ phase'[t] = "handed"
      BY <1>3, <1>4, <1>6, <2>1
    <2> QED BY <1>1, <1>2, <2>1, <2>2, NobodyAssumption DEF NInv, Notified, Busy
  <1> QED BY <1>1, <1>3, <1>4, <1>5, <1>6, LoopNotified

LEMMA FailNotified ==
  ASSUME CInv, CInv', NInv, UNCHANGED role, Fail
  PROVE  NInv'
  <1>1. PICK s \in Setups, d \in Descriptors :
            /\ loop.descriptor = d /\ active[d] = s /\ fd[s] = d /\ Busy(d)
            /\ phase[s] \in {"pending", "deaf"}
    BY HandledSetup DEF Fail, Deciding, Handling
  <1>2. \A t \in Setups \ {s} : fd[t] # d /\ phase'[t] = phase[t] /\ fd'[t] = fd[t]
    BY <1>1, SettledBefore DEF Fail, CInv, TypesHold, SetupTypes
  <1>3. /\ loop.step = "handling" /\ loop.todo # <<>>
        /\ loop'.step = "completing" /\ loop'.descriptor = d
        /\ loop'.mask = loop.mask /\ loop'.todo = loop.todo
        /\ phase'[s] = "failing" /\ fd'[s] = Nobody /\ UNCHANGED <<queue, excused>>
    BY <1>1 DEF Fail, Deciding, Handling, CInv, TypesHold, LoopTypes, SetupTypes
  <1>4. LoopTakes'
    <2>1. PICK k \in Nat : Left(loop.todo, loop.mask, k)
      BY <1>3 DEF NInv, LoopTakes
    <2>2. Left(loop.todo, loop.mask, k)' /\ Taken(k)'
      BY <1>3, <2>1 DEF Left, Taken
    <2> QED BY <1>3, <2>2 DEF NInv, LoopTakes
  <1>5. \A t \in Setups : fd'[t] # d
    BY <1>2, <1>3, NobodyAssumption
  <1> QED BY <1>2, <1>3, <1>4, <1>5, LoopNotified

LEMMA CompleteNotified ==
  ASSUME CInv, CInv', NInv, UNCHANGED role, Complete
  PROVE  NInv'
  <1>1. /\ loop.step = "completing" /\ loop'.step = "erasing"
        /\ loop'.descriptor = loop.descriptor /\ loop'.mask = loop.mask /\ loop'.todo = loop.todo
        /\ UNCHANGED <<fd, queue, excused>>
        /\ \A s \in Setups : phase'[s] = phase[s] \/ phase'[s] \in {"failed", "handed"}
    BY DEF Complete, CInv, TypesHold, LoopTypes, SetupTypes
  <1>2. LoopTakes'
    <2>1. PICK k \in Nat : Left(loop.todo, loop.mask, k)
      BY <1>1 DEF NInv, LoopTakes
    <2>2. Left(loop.todo, loop.mask, k)' /\ Taken(k)'
      BY <1>1, <2>1 DEF Left, Taken
    <2> QED BY <1>1, <2>2 DEF NInv, LoopTakes, Completing
  <1>3. \A s \in Setups \ excused : fd[s] # loop.descriptor
    BY <1>1 DEF CInv, GivenTooEarly, Completing, Owners
  <1> QED BY <1>1, <1>2, <1>3, LoopNotified

LEMMA EraseNotified ==
  ASSUME CInv, CInv', NInv, UNCHANGED role, Erase
  PROVE  NInv'
  <1> DEFINE d == loop.descriptor
             s == active[loop.descriptor]
  <1>1. /\ loop.step = "erasing" /\ loop'.step = "handling" /\ loop'.descriptor = d
        /\ loop'.mask = loop.mask /\ loop'.todo = Tail(loop.todo) /\ loop.todo # <<>>
        /\ UNCHANGED <<queue, excused>>
    BY DEF Erase, CInv, TypesHold, LoopTypes, NInv, LoopTakes, Completing
  <1>2. d \in Descriptors /\ s \in Setups /\ \A t \in Setups \ excused : fd[t] # d
    BY <1>1 DEF CInv, TypesHold, LoopTypes, SetupTypes, GivenTooEarly, Completing, Owners
  <1>3. \A t \in Setups : /\ fd'[t] \in {fd[t], Nobody}
                          /\ phase'[t] = phase[t] \/ phase'[t] = "failed"
    BY <1>2 DEF Erase, CInv, TypesHold, SetupTypes
  <1>4. \A t \in Setups \ excused : fd'[t] # d
    BY <1>2, <1>3, NobodyAssumption
  <1>5. LoopTakes'
    <2>1. PICK k \in Nat : Left(loop.todo, loop.mask, k)
      BY <1>1 DEF NInv, LoopTakes
    <2>2. Left(loop'.todo, loop.mask, k + 1)
      BY <1>1, <2>1, NextTaken
    <2>3. Left(loop.todo, loop.mask, k + 1)' /\ Taken(k + 1)'
      BY <1>1, <1>4, <2>2 DEF Left, Taken
    <2> QED BY <1>1, <2>3 DEF NInv, LoopTakes, Completing
  <1> HIDE DEF d, s
  <1> QED BY <1>1, <1>3, <1>4, <1>5, LoopNotified

LEMMA NotifiedInvariant == DeliveredInOrder => (Spec => [](CInv /\ NInv))
  <1> SUFFICES ASSUME DeliveredInOrder
               PROVE  Spec => [](CInv /\ NInv)
    OBVIOUS
  <1>1. Init => CInv /\ NInv
    <2> SUFFICES ASSUME Init
                 PROVE  NInv
      BY InitialInvariant
    <2>1. LoopTakes
      BY DEF Init, NoNotification, LoopTakes
    <2> QED BY <2>1 DEF Init, NInv, Notified
  <1>2. CInv /\ NInv /\ [Next]_vars => CInv' /\ NInv'
    <2> SUFFICES ASSUME CInv, NInv, [Next]_vars, CInv'
                 PROVE  NInv'
      BY NextInvariant
    <2>1. ASSUME NEW s \in Setups, SetupStep(s) \/ Destroy(s), UNCHANGED role
          PROVE  NInv'
      BY <2>1, OpenDeviceNotified, SetupStepNotified DEF SetupStep
    <2>2. ASSUME LoopStep, UNCHANGED role
          PROVE  NInv'
      BY <2>2, PopNotified, HandledNotified, InvalidReferenceNotified, DecidedNotified,
         FailNotified, CompleteNotified, EraseNotified, FinishNotified DEF LoopStep
    <2>3. CASE UNCHANGED vars
      BY <2>3, CleanupNotified DEF vars
    <2>4. CASE Cleanup /\ UNCHANGED role
      BY <2>4, CleanupNotified DEF Cleanup
    <2> QED BY <2>1, <2>2, <2>3, <2>4, EdgeNotified DEF Next
  <1> QED BY <1>1, <1>2, PTL DEF Spec

\* Only the success of its own entry hands an unexcused endpoint over, in the loop.
LEMMA WhoHandsOver ==
  ASSUME CInv, [Next]_vars, NEW s \in Setups \ excused',
         phase[s] \notin {"listening", "handed"}, phase'[s] = "handed"
  PROVE  Succeed /\ active[loop.descriptor] = s /\ UNCHANGED role
  <1>1. TypesHold
    BY DEF CInv
  <1>2. ASSUME NEW t \in Setups
        PROVE  ~SetupStep(t) /\ ~Destroy(t)
    BY <1>1 DEF SetupStep, OpenDevice, FailToConnect, Refuse, Subscribe, AddHandler, StoreEntry,
                ConnectPipe, AddPipeHandler, SetListenerId, CallBack, FailToOpenPipe, Destroy, TypesHold, SetupTypes
  <1>3. phase' # phase
    OBVIOUS
  <1>4. ~Complete
    <2> SUFFICES ASSUME Complete
                 PROVE  FALSE
      OBVIOUS
    <2>1. loop.step = "completing" /\ loop.descriptor \in Descriptors /\ excused' = excused
      BY <1>1 DEF Complete, TypesHold, LoopTypes
    <2>2. active[loop.descriptor] = s /\ phase[s] # "failing"
      BY <1>1 DEF Complete, TypesHold, SetupTypes
    <2>3. fd[s] = loop.descriptor
      BY <2>1, <2>2, NobodyAssumption DEF CInv, EntriesHeld, EntryHeld
    <2> QED BY <2>1, <2>3 DEF CInv, GivenTooEarly, Completing, Owners
  <1>5. /\ ~Pop /\ ~HandleByEndpoint /\ ~InvalidReference /\ ~RefuseUnknownId
        /\ ~Undecided /\ ~Finish /\ ~Cleanup
        /\ \A d \in Descriptors, mask \in Masks[role] : ~Edge(d, mask)
        /\ ~(UNCHANGED vars)
    BY <1>3 DEF Pop, HandleByEndpoint, InvalidReference, RefuseUnknownId, Disown, Undecided,
                Finish, Cleanup, Edge, vars
  <1>6. ~FailToAccept /\ ~Fail /\ ~Erase
    BY <1>1 DEF FailToAccept, Fail, Erase, TypesHold, SetupTypes
  <1>7. Succeed /\ UNCHANGED role
    BY <1>2, <1>4, <1>5, <1>6 DEF Next, LoopStep
  <1> QED BY <1>1, <1>7 DEF Succeed, TypesHold, SetupTypes

-----------------------------------------------------------------------------
(* The theorems *)

\* Outside the windows a setup whose callback is still to come can be answered, and an
\* endpoint that was handed over is its descriptor's handler: Connector2 and Acceptor
\* subscribe the handle, store the entry in m_active_subscriptions, and hand over with
\* an unsubscribe and a subscribe while their own handler is in progress, in any order
\* of any number of setups, closed descriptors and notifications.
THEOREM WaitingStaysArmed == Spec => []WaitingIsArmed
  <1>1. CInv => WaitingIsArmed
    BY DEF CInv, Staged, Stage, Handles, WaitingIsArmed, Armed
  <1> QED BY <1>1, Invariant, PTL

\* handleConnectionSuccess, completeClientService and a named pipe's connect between
\* them call a setup's callback at most once, and outside the windows with the endpoint
\* exactly when the connection succeeded.
THEOREM AnswersOnce == Spec => []AnsweredOnce
  <1>1. CInv => AnsweredOnce
    <2> SUFFICES ASSUME CInv, NEW s \in Setups
                 PROVE  /\ Len(answers[s]) <= 1
                        /\ s \notin excused =>
                              /\ phase[s] \in {"handed", "closed"} <=> answers[s] = <<"endpoint">>
                              /\ phase[s] = "failed" <=> answers[s] = <<"none">>
      BY DEF AnsweredOnce
    <2>1. answers[s] \in {<<>>, <<"endpoint">>, <<"none">>}
      BY DEF CInv, AllTold, Told
    <2>2. Len(answers[s]) <= 1
      <3>1. Len(<<>>) = 0 /\ Len(<<"endpoint">>) = 1 /\ Len(<<"none">>) = 1
        OBVIOUS
      <3>2. CASE answers[s] = <<>>
        BY <3>1, <3>2
      <3>3. CASE answers[s] = <<"endpoint">>
        BY <3>1, <3>3
      <3>4. CASE answers[s] = <<"none">>
        BY <3>1, <3>4
      <3> QED BY <2>1, <3>2, <3>3, <3>4
    <2>3. <<>> # <<"endpoint">> /\ <<>> # <<"none">> /\ <<"endpoint">> # <<"none">>
      OBVIOUS
    <2> QED BY <2>1, <2>2, <2>3 DEF CInv, AllTold, Told
  <1> QED BY <1>1, Invariant, PTL

\* As long as no window was hit, the reactor's table has no live context, and epoll no
\* interest, for a descriptor that nobody has open: the unsubscribe of
\* handleConnectionFailure and of the endpoint's own destruction come before the number
\* can be given anew.
THEOREM ClosedStaysForgotten == Spec => []ClosedIsForgotten
  <1>1. CInv => ClosedIsForgotten
    BY DEF CInv, Watched, Remembered, Used, Open, ClosedIsForgotten
  <1> QED BY <1>1, Invariant, PTL

\* Outside the windows handleConnectionSuccess hands an endpoint over only on a
\* notification of its own connection, for a connector on none that reports a hang-up or
\* a shutdown, and an error behind it is still to be told to the endpoint.  The hypothesis
\* is about sortByPriority alone, and closed: TLC evaluates it for every notification.
THEOREM HandsOverOnOwnSuccess == DeliveredInOrder => (Spec => HandedOnOwnSuccess)
  <1> SUFFICES ASSUME DeliveredInOrder
               PROVE  Spec => HandedOnOwnSuccess
    OBVIOUS
  <1> DEFINE Granted(s) ==
                 /\ loop.source = s
                 /\ role = "connector" => loop.mask \cap {Hup, Shutdown} = {}
                 /\ Err \in loop.mask =>
                       Err \in Range(loop'.todo) /\ handler'[loop.descriptor] = s
             HandOver ==
                 \A s \in Setups \ excused' :
                     phase[s] \notin {"listening", "handed"} /\ phase'[s] = "handed" => Granted(s)
  <1>1. ASSUME CInv, NInv, [Next]_vars
        PROVE  HandOver
    <2> SUFFICES ASSUME NEW s \in Setups \ excused', phase[s] \notin {"listening", "handed"},
                        phase'[s] = "handed"
                 PROVE  Granted(s)
      OBVIOUS
    <2>1. Succeed /\ active[loop.descriptor] = s /\ UNCHANGED role
      BY <1>1, WhoHandsOver
    <2>2. PICK d \in Descriptors : loop.descriptor = d /\ fd[s] = d /\ Busy(d) /\ s \notin excused
      BY <1>1, <2>1, HandledSetup, NobodyAssumption DEF Succeed, Deciding, Handling
    <2>3. /\ loop.step = "handling" /\ loop.todo # <<>> /\ Verdict(Head(loop.todo)) = "success"
          /\ loop'.todo = Tail(loop.todo)
      BY <1>1, <2>1 DEF Succeed, Deciding, Handling, NextEvent, CInv, TypesHold, LoopTypes
    <2>4. loop.source = s /\ phase[s] = "pending"
      BY <1>1, <2>1, <2>2, <2>3, HandledSetup, NobodyAssumption DEF NInv, Notified
    <2> DEFINE D == Delivered(loop.mask)
    <2>5. PICK k \in Nat : /\ Left(loop.todo, loop.mask, k)
                           /\ \A i \in 1..k : Verdict(D[i]) = "default"
      BY <1>1, <2>2, <2>3, <2>4 DEF NInv, LoopTakes, Taken, Waiting
    <2>6. Head(loop.todo) = D[k + 1] /\ Left(loop'.todo, loop.mask, k + 1)
      BY <2>3, <2>5, NextTaken
    <2>7. InOrder(D, loop.mask)
      BY <1>1, <2>3 DEF DeliveredInOrder, NInv, LoopTakes
    <2> HIDE DEF D
    <2>8. D[k + 1] = Awaited
      BY <2>3, <2>6 DEF Verdict, FailureFirst
    <2>9. k + 1 \in DOMAIN D
      BY <2>6, <2>7 DEF Left, InOrder, D
    <2>10. ASSUME NEW j \in DOMAIN D, j > k + 1, D[j] = Err
           PROVE  Err \in Range(loop'.todo)
      <3> DEFINE i == j - (k + 1)
      <3>1. /\ loop'.todo \in Seq(Event) /\ Len(loop'.todo) = Len(D) - (k + 1)
            /\ \A m \in 1..Len(loop'.todo) : loop'.todo[m] = D[m + (k + 1)]
            /\ D \in Seq(Event)
        BY <2>6, <2>7 DEF Left, InOrder, D
      <3>2. i \in 1..Len(loop'.todo) /\ i + (k + 1) = j
        BY <2>10, <3>1
      <3>3. i \in DOMAIN loop'.todo /\ loop'.todo[i] = Err
        BY <2>10, <3>1, <3>2
      <3> QED BY <3>3 DEF Range
    <2>11. Err \in loop.mask => handler'[loop.descriptor] = s
      <3>1. Without(d)[d] = "absent" /\ handler'[d] = [CleanHandler EXCEPT ![d] = s][d]
        BY <1>1, <2>1, <2>2, CleanupTypes DEF Succeed, CInv, Without
      <3> QED BY <1>1, <2>2, <3>1, CleanupTypes DEF CInv
    <2>12. CASE role = "connector"
      <3>1. D[k + 1] = Out /\ In # Out
        BY <2>8, <2>12 DEF Awaited, In, Out
      <3>2. ASSUME NEW j \in DOMAIN D, j < k + 1, D[j] \in {Err, Hup, Shutdown}
            PROVE  FALSE
        <4>1. j \in 1..k
          BY <2>7, <3>2 DEF InOrder
        <4> QED BY <2>5, <2>12, <3>2, <4>1
                DEF Verdict, FailureFirst, Awaited, In, Out, Err, Hup, Shutdown, D
      <3>3. /\ loop.mask \cap {Hup, Shutdown} = {}
            /\ Err \in loop.mask => \E j \in DOMAIN D : j > k + 1 /\ D[j] = Err
        BY <2>7, <2>9, <3>1, <3>2 DEF InOrder
      <3> QED BY <2>4, <2>10, <2>11, <3>3
    <2>13. CASE role = "acceptor"
      <3>1. D[k + 1] = In
        BY <2>8, <2>13 DEF Awaited
      <3>2. Err \in loop.mask => \E j \in DOMAIN D : j > k + 1 /\ D[j] = Err
        BY <2>7, <2>9, <3>1 DEF InOrder
      <3> QED BY <2>4, <2>10, <2>11, <2>13, <3>2
    <2> QED BY <1>1, <2>12, <2>13, RoleAssumption DEF CInv, TypesHold, SetupTypes
  <1> QED BY <1>1, NotifiedInvariant, PTL DEF Spec, HandedOnOwnSuccess

=============================================================================
