------------------------ MODULE DescriptorOwnerProofs ------------------------
(***************************************************************************)
(* Proofs about DescriptorOwner: for any number of handlers, threads and   *)
(* descriptor numbers nothing that is open is lost track of, what a        *)
(* handler took to be its own is open until it closes it, and two handlers *)
(* carry one number only after a close or overlapping calls.               *)
(*                                                                         *)
(* No property is inductive.  A number that was closed to make room for    *)
(* another stays in the handler for one more step, and may be given out    *)
(* meanwhile: Tracked does not count it.  That an owned descriptor is      *)
(* nobody else's has to be said of handlers, of numbers in hand and of the *)
(* one that accept keeps (HandlerOwns, HandOwns, KeptOwns).  That no two   *)
(* handlers carry one number rests on all of these numbers being open, so  *)
(* that the kernel gives them to nobody, but for the one the call under    *)
(* way has closed (Alone).                                                 *)
(***************************************************************************)
EXTENDS DescriptorOwner, TLAPS

\* What can be left of a call.
AcceptSteps == <<"accept", "open", "acquire", "recall", "acquire">>
Programs ==
    {<<>>, <<"open", "acquire">>, <<"acquire">>, <<"set">>,
     AcceptSteps, <<"open", "acquire", "recall", "acquire">>,
     <<"acquire", "recall", "acquire">>, <<"set", "recall", "acquire">>, <<"recall", "acquire">>,
     <<"dup", "acquire">>, <<"close">>, <<"close", "dup", "acquire">>,
     <<"close", "release", "acquire">>, <<"release", "acquire">>,
     <<"probe", "openAt", "acquire">>, <<"openAt", "acquire">>, <<"close", "gone">>, <<"gone">>}

\* The steps before which a number is in hand, the one of accept is kept, another
\* handler is still to be released, and the number of the call's own was closed.
WithHand ==
    {<<"acquire">>, <<"acquire", "recall", "acquire">>, <<"set">>, <<"set", "recall", "acquire">>}
WithKept ==
    {<<"open", "acquire", "recall", "acquire">>, <<"acquire", "recall", "acquire">>,
     <<"set", "recall", "acquire">>, <<"recall", "acquire">>}
Moving == {<<"close", "release", "acquire">>, <<"release", "acquire">>}
Replacing == {<<"set">>, <<"set", "recall", "acquire">>, <<"gone">>}

Calls == [h : Handlers \cup {None}, other : Handlers \cup {None}, todo : Programs,
          hand : Receipts, kept : Receipts]

TypeOK ==
    /\ entry \in [Numbers -> 0..MaxEntries] /\ entries \in 0..MaxEntries
    /\ alive \subseteq Handlers
    /\ handle \in [Handlers -> Numbers \cup {None}]
    /\ open \in [Handlers -> BOOLEAN]
    /\ own \in [Handlers -> 0..MaxEntries]
    /\ call \in [Threads -> Calls]

\* A call has its handlers for itself, and a number in hand only on the way to it.
InOrder(t) ==
    LET c == call[t]
    IN  /\ c.todo = <<>> => c = NoCall
        /\ c.todo # <<>> => c.h \in alive
        /\ c.other # None => c.other \in alive
        /\ c.todo \notin WithHand => c.hand = NoNumber
        /\ c.kept # NoNumber => c.todo \in WithKept \/ c.kept = c.hand
        /\ c.todo = AcceptSteps => handle[c.h] = None
        /\ c.todo \in Moving => c.other # None

CallsInOrder == \A t \in Threads : InOrder(t)

Apart ==
    \A t \in Threads : \A u \in Threads \ {t} :
        /\ call[t].h # None => call[t].h \notin {call[u].h, call[u].other}
        /\ call[t].other # None => call[t].other \notin {call[u].h, call[u].other}

\* The number is the handler's and was not closed to make room for another.
Bears(h, n) ==
    handle[h] = n /\ \A t \in Threads : call[t].h = h => call[t].todo \notin Replacing
Holds(t, n) == n \in {call[t].hand.n, call[t].kept.n}

Tracked ==
    \A n \in Numbers : entry[n] # 0 =>
        (\E h \in alive : Bears(h, n)) \/ (\E t \in Threads : Holds(t, n))

\* What a handler, a number in hand and the one kept are the only owners of.
HandlerOwns(h) ==
    own[h] # 0 =>
        /\ handle[h] # None
        /\ open[h] => /\ entry[handle[h]] = own[h]
                      /\ \A g \in alive \ {h} : handle[g] # handle[h]
                      /\ \A t \in Threads : ~Holds(t, handle[h])

HandOwns(t) ==
    LET c == call[t]
    IN  c.hand.e # 0 =>
            /\ c.hand.n # None /\ entry[c.hand.n] = c.hand.e
            /\ \A g \in alive \ {c.h} : handle[g] # c.hand.n
            /\ \A u \in Threads \ {t} : ~Holds(u, c.hand.n)
            /\ c.todo \in WithKept => c.kept.n # c.hand.n

KeptOwns(t) ==
    LET c == call[t]
    IN  c.todo \in WithKept /\ c.kept.e # 0 =>
            /\ c.kept.n # None /\ entry[c.kept.n] = c.kept.e
            /\ \A g \in alive : handle[g] # c.kept.n
            /\ \A u \in Threads \ {t} : ~Holds(u, c.kept.n)
            /\ c.hand.n # c.kept.n

HandlersOwn == \A h \in alive : HandlerOwns(h)
HandsOwn == \A t \in Threads : HandOwns(t) /\ KeptOwns(t)

Orderly == TypeOK /\ CallsInOrder /\ Apart
Owned == HandlersOwn /\ HandsOwn
IInv == Orderly /\ Tracked /\ Owned

-----------------------------------------------------------------------------
(* The steps of a call *)

LEMMA AfterFirst ==
  ASSUME NEW a, NEW b, NEW c, NEW d, NEW e
  PROVE  /\ Tail(<<a>>) = <<>> /\ Tail(<<a, b>>) = <<b>> /\ Tail(<<a, b, c>>) = <<b, c>>
         /\ Tail(<<a, b, c, d>>) = <<b, c, d>> /\ Tail(<<a, b, c, d, e>>) = <<b, c, d, e>>
  OBVIOUS

LEMMA InFront ==
  ASSUME NEW a, NEW b, NEW c
  PROVE  <<a>> \o <<>> = <<a>> /\ <<a>> \o <<b, c>> = <<a, b, c>>
  <1> DEFINE both == [i \in 1..3 |-> IF i <= 1 THEN <<a>>[i] ELSE <<b, c>>[i - 1]]
  <1>1. <<a>> \o <<b, c>> = both
    OBVIOUS
  <1>2. <<a, b, c>> = both
    OBVIOUS
  <1>3. <<a>> \o <<>> = <<a>>
    OBVIOUS
  <1> QED BY <1>1, <1>2, <1>3

LEMMA BeforeClose ==
  ASSUME NEW p \in Programs, p # <<>>, Head(p) = "close"
  PROVE  /\ p \notin WithHand \cup WithKept \cup Replacing
         /\ Tail(p) \in {<<>>, <<"dup", "acquire">>, <<"release", "acquire">>, <<"gone">>}
         /\ Tail(p) \in Moving => p \in Moving
  <1>1. p \in {<<"close">>, <<"close", "dup", "acquire">>, <<"close", "release", "acquire">>,
               <<"close", "gone">>}
    BY DEF Programs, AcceptSteps
  <1>2. p = <<"close">> => Tail(p) = <<>>
    BY AfterFirst
  <1>3. p = <<"close", "gone">> => Tail(p) = <<"gone">>
    BY AfterFirst
  <1>4. p = <<"close", "dup", "acquire">> => Tail(p) = <<"dup", "acquire">>
    BY AfterFirst
  <1>5. p = <<"close", "release", "acquire">> => Tail(p) = <<"release", "acquire">>
    BY AfterFirst
  <1>6. p \notin WithHand \cup WithKept \cup Replacing
    BY <1>1 DEF WithHand, WithKept, Replacing
  <1>7. Tail(p) \in Moving => p \in Moving
    BY <1>1, <1>2, <1>3, <1>4, <1>5 DEF Moving
  <1> QED BY <1>1, <1>2, <1>3, <1>4, <1>5, <1>6, <1>7

LEMMA BeforeOpen ==
  ASSUME NEW p \in Programs, p # <<>>, Head(p) = "open"
  PROVE  /\ p \notin WithHand \cup Replacing
         /\ Tail(p) \in Programs \ {<<>>} /\ Tail(p) \in WithHand \ Replacing
         /\ Tail(p) \in WithKept <=> p \in WithKept
  <1>1. p \in {<<"open", "acquire">>,
               <<"open", "acquire", "recall", "acquire">>}
    BY DEF Programs, AcceptSteps
  <1>2. p = <<"open", "acquire">> => Tail(p) = <<"acquire">>
    BY AfterFirst
  <1>3. p = <<"open", "acquire", "recall", "acquire">> => Tail(p) = <<"acquire", "recall", "acquire">>
    BY AfterFirst
  <1>4. CASE p = <<"open", "acquire">>
    BY <1>2, <1>4 DEF Programs, WithHand, WithKept, Replacing, Moving, AcceptSteps
  <1>5. CASE p = <<"open", "acquire", "recall", "acquire">>
    BY <1>3, <1>5 DEF Programs, WithHand, WithKept, Replacing, Moving, AcceptSteps
  <1> QED BY <1>1, <1>4, <1>5

LEMMA BeforeDup ==
  ASSUME NEW p \in Programs, p # <<>>, Head(p) = "dup"
  PROVE  /\ p \notin WithHand \cup WithKept \cup Replacing
         /\ Tail(p) \in Programs \ {<<>>} /\ Tail(p) \in WithHand \ Replacing
         /\ Tail(p) \notin WithKept
  <1>1. p = <<"dup", "acquire">>
    BY DEF Programs, AcceptSteps
  <1>2. p = <<"dup", "acquire">> => Tail(p) = <<"acquire">>
    BY AfterFirst
  <1> QED BY <1>1, <1>2 DEF Programs, WithHand, WithKept, Replacing, Moving, AcceptSteps

LEMMA BeforeOpenAt ==
  ASSUME NEW p \in Programs, p # <<>>, Head(p) = "openAt"
  PROVE  /\ p \notin WithHand \cup WithKept \cup Replacing
         /\ Tail(p) \in Programs \ {<<>>} /\ Tail(p) \in WithHand \ Replacing
         /\ Tail(p) \notin WithKept
  <1>1. p = <<"openAt", "acquire">>
    BY DEF Programs, AcceptSteps
  <1>2. p = <<"openAt", "acquire">> => Tail(p) = <<"acquire">>
    BY AfterFirst
  <1> QED BY <1>1, <1>2 DEF Programs, WithHand, WithKept, Replacing, Moving, AcceptSteps

LEMMA BeforeRelease ==
  ASSUME NEW p \in Programs, p # <<>>, Head(p) = "release"
  PROVE  /\ p \in Moving /\ p \notin WithHand \cup WithKept \cup Replacing
         /\ Tail(p) \in Programs \ {<<>>} /\ Tail(p) \in WithHand \ Replacing
         /\ Tail(p) \notin WithKept
  <1>1. p = <<"release", "acquire">>
    BY DEF Programs, AcceptSteps
  <1>2. p = <<"release", "acquire">> => Tail(p) = <<"acquire">>
    BY AfterFirst
  <1> QED BY <1>1, <1>2 DEF Programs, WithHand, WithKept, Replacing, Moving, AcceptSteps

LEMMA BeforeAccept ==
  ASSUME NEW p \in Programs, p # <<>>, Head(p) = "accept"
  PROVE  /\ p = AcceptSteps /\ p \notin WithHand \cup WithKept \cup Replacing
         /\ Tail(p) \in Programs \ {<<>>, AcceptSteps}
         /\ Tail(p) \in WithKept \ (WithHand \cup Replacing \cup Moving)
  <1>1. p = <<"accept", "open", "acquire", "recall", "acquire">>
    BY DEF Programs, AcceptSteps
  <1>2. p = <<"accept", "open", "acquire", "recall", "acquire">> => Tail(p) = <<"open", "acquire", "recall", "acquire">>
    BY AfterFirst
  <1> QED BY <1>1, <1>2 DEF Programs, WithHand, WithKept, Replacing, Moving, AcceptSteps

LEMMA BeforeRecall ==
  ASSUME NEW p \in Programs, p # <<>>, Head(p) = "recall"
  PROVE  /\ p \in WithKept \ (WithHand \cup Replacing)
         /\ Tail(p) \in Programs \ {<<>>} /\ Tail(p) \in WithHand \ (WithKept \cup Replacing)
  <1>1. p = <<"recall", "acquire">>
    BY DEF Programs, AcceptSteps
  <1>2. p = <<"recall", "acquire">> => Tail(p) = <<"acquire">>
    BY AfterFirst
  <1> QED BY <1>1, <1>2 DEF Programs, WithHand, WithKept, Replacing, Moving, AcceptSteps

LEMMA BeforeProbe ==
  ASSUME NEW p \in Programs, p # <<>>, Head(p) = "probe"
  PROVE  /\ p \notin WithHand \cup WithKept \cup Replacing
         /\ Tail(p) \in Programs \ {AcceptSteps}
         /\ Tail(p) \notin WithHand \cup WithKept \cup Replacing \cup Moving
  <1>1. p = <<"probe", "openAt", "acquire">>
    BY DEF Programs, AcceptSteps
  <1>2. p = <<"probe", "openAt", "acquire">> => Tail(p) = <<"openAt", "acquire">>
    BY AfterFirst
  <1> QED BY <1>1, <1>2 DEF Programs, WithHand, WithKept, Replacing, Moving, AcceptSteps

LEMMA BeforeAcquire ==
  ASSUME NEW p \in Programs, p # <<>>, Head(p) = "acquire"
  PROVE  /\ p \in WithHand \ Replacing /\ p # AcceptSteps
         /\ <<"set">> \o Tail(p) \in Programs \ {<<>>} /\ <<"set">> \o Tail(p) \in WithHand \cap Replacing
         /\ <<"set">> \o Tail(p) \in WithKept <=> p \in WithKept
         /\ Tail(p) \in Programs \ {AcceptSteps}
         /\ Tail(p) \notin WithHand \cup Replacing \cup Moving
         /\ Tail(p) # <<>> <=> p \in WithKept
         /\ Tail(p) \in WithKept <=> p \in WithKept
  <1>1. p \in {<<"acquire">>,
               <<"acquire", "recall", "acquire">>}
    BY DEF Programs, AcceptSteps
  <1>2. p = <<"acquire">> =>
          Tail(p) = <<>> /\ <<"set">> \o Tail(p) = <<"set">>
    BY AfterFirst, InFront
  <1>3. p = <<"acquire", "recall", "acquire">> =>
          Tail(p) = <<"recall", "acquire">> /\ <<"set">> \o Tail(p) = <<"set", "recall", "acquire">>
    BY AfterFirst, InFront
  <1>4. CASE p = <<"acquire">>
    BY <1>2, <1>4 DEF Programs, WithHand, WithKept, Replacing, Moving, AcceptSteps
  <1>5. CASE p = <<"acquire", "recall", "acquire">>
    BY <1>3, <1>5 DEF Programs, WithHand, WithKept, Replacing, Moving, AcceptSteps
  <1> QED BY <1>1, <1>4, <1>5

LEMMA BeforeSet ==
  ASSUME NEW p \in Programs, p # <<>>, Head(p) = "set"
  PROVE  /\ p \in WithHand \cap Replacing
         /\ Tail(p) \in Programs \ {AcceptSteps}
         /\ Tail(p) \notin WithHand \cup Replacing \cup Moving
         /\ Tail(p) # <<>> <=> p \in WithKept
         /\ Tail(p) \in WithKept <=> p \in WithKept
  <1>1. p \in {<<"set">>,
               <<"set", "recall", "acquire">>}
    BY DEF Programs, AcceptSteps
  <1>2. p = <<"set">> => Tail(p) = <<>>
    BY AfterFirst
  <1>3. p = <<"set", "recall", "acquire">> => Tail(p) = <<"recall", "acquire">>
    BY AfterFirst
  <1>4. CASE p = <<"set">>
    BY <1>2, <1>4 DEF Programs, WithHand, WithKept, Replacing, Moving, AcceptSteps
  <1>5. CASE p = <<"set", "recall", "acquire">>
    BY <1>3, <1>5 DEF Programs, WithHand, WithKept, Replacing, Moving, AcceptSteps
  <1> QED BY <1>1, <1>4, <1>5

LEMMA BeforeGone ==
  ASSUME NEW p \in Programs, p # <<>>, Head(p) = "gone"
  PROVE  p \in Replacing \ (WithHand \cup WithKept) /\ Tail(p) = <<>>
  <1>1. p = <<"gone">>
    BY DEF Programs, AcceptSteps
  <1>2. p = <<"gone">> => Tail(p) = <<>>
    BY AfterFirst
  <1> QED BY <1>1, <1>2 DEF Programs, WithHand, WithKept, Replacing, Moving, AcceptSteps

LEMMA SmallPrograms ==
  /\ {<<>>, <<"dup", "acquire">>, <<"release", "acquire">>, <<"gone">>} \subseteq Programs
  /\ {<<>>, <<"dup", "acquire">>, <<"release", "acquire">>, <<"gone">>} \cap (WithHand \cup WithKept) = {}
  /\ AcceptSteps \notin {<<>>, <<"dup", "acquire">>, <<"release", "acquire">>, <<"gone">>}
  <1>1. {<<>>, <<"dup", "acquire">>, <<"release", "acquire">>, <<"gone">>} \subseteq Programs
    BY DEF Programs
  <1>2. {<<>>, <<"dup", "acquire">>, <<"release", "acquire">>, <<"gone">>}
            \cap (WithHand \cup WithKept) = {}
    BY DEF WithHand, WithKept
  <1>3. AcceptSteps \notin {<<>>, <<"dup", "acquire">>, <<"release", "acquire">>, <<"gone">>}
    BY DEF AcceptSteps
  <1> QED BY <1>1, <1>2, <1>3

-----------------------------------------------------------------------------
(* Every step keeps the invariant *)

\* What is left of a call after a step, and what the call holds then.
Continues(t, todo, hand) ==
    IF todo = <<>> THEN NoCall ELSE [call[t] EXCEPT !.todo = todo, !.hand = hand]

LEMMA Going ==
  ASSUME TypeOK, NEW t \in Threads, NEW todo \in Programs, NEW hand \in Receipts,
         Goes(t, todo, hand)
  PROVE  /\ call' \in [Threads -> Calls]
         /\ call'[t] = Continues(t, todo, hand)
         /\ \A u \in Threads \ {t} : call'[u] = call[u]
         /\ call'[t].h \in {None, call[t].h} /\ call'[t].other \in {None, call[t].other}
         /\ call'[t].todo = todo
         /\ call'[t].hand \in {NoNumber, hand} /\ call'[t].kept \in {NoNumber, call[t].kept}
         /\ todo # <<>> => /\ call'[t].h = call[t].h /\ call'[t].other = call[t].other
                           /\ call'[t].hand = hand /\ call'[t].kept = call[t].kept
         /\ todo = <<>> => call'[t] = NoCall
  <1>1. NoNumber \in Receipts /\ <<>> \in Programs
    BY BoundsAssumption DEF NoNumber, Receipts, Programs
  <1>2. NoCall \in Calls
    BY <1>1 DEF NoCall, Calls
  <1>3. call[t] \in Calls
    BY DEF TypeOK
  <1>4. Continues(t, todo, hand) \in Calls
    BY <1>2, <1>3 DEF Continues, Calls
  <1>5. call' = [call EXCEPT ![t] = Continues(t, todo, hand)]
    BY DEF Goes, Continues
  <1>6. call'[t] = Continues(t, todo, hand) /\ \A u \in Threads \ {t} : call'[u] = call[u]
    BY <1>5 DEF TypeOK
  <1>7. todo = <<>> => /\ call'[t] = NoCall /\ call'[t].h = None /\ call'[t].other = None
                      /\ call'[t].todo = <<>> /\ call'[t].hand = NoNumber
                      /\ call'[t].kept = NoNumber
    BY <1>6 DEF Continues, NoCall
  <1>8. todo # <<>> => /\ call'[t].h = call[t].h /\ call'[t].other = call[t].other
                      /\ call'[t].todo = todo /\ call'[t].hand = hand
                      /\ call'[t].kept = call[t].kept
    BY <1>3, <1>6 DEF Continues, Calls
  <1>9. call' \in [Threads -> Calls]
    BY <1>4, <1>5 DEF TypeOK
  <1> QED BY <1>6, <1>7, <1>8, <1>9

LEMMA NothingInOrder ==
  /\ NoCall.todo = <<>> /\ NoCall.h = None /\ NoCall.other = None
  /\ NoCall.hand = NoNumber /\ NoCall.kept = NoNumber
  /\ NoNumber.n = None /\ NoNumber.e = 0
  /\ <<>> \notin WithHand \cup WithKept \cup Replacing \cup Moving /\ <<>> # AcceptSteps
  <1>1. <<>> \notin WithHand \cup WithKept \cup Replacing \cup Moving /\ <<>> # AcceptSteps
    BY DEF WithHand, WithKept, Replacing, Moving, AcceptSteps
  <1> QED BY <1>1 DEF NoCall, NoNumber

\* No call gets a handler that it had not.
LEMMA StaysApart ==
  ASSUME TypeOK, Apart, NEW t \in Threads,
         \A u \in Threads \ {t} : call'[u] = call[u],
         call'[t].h \in {None, call[t].h}, call'[t].other \in {None, call[t].other}
  PROVE  Apart'
  BY DEF Apart

LEMMA CloseKeeps ==
  ASSUME IInv, NEW t \in Threads, CloseStep(t)
  PROVE  IInv'
  <1> DEFINE c == call[t]
             todo == Tail(c.todo)
  <1> USE DEF IInv, Orderly, Owned
  <1>1. c \in Calls /\ c.todo \in Programs /\ c.todo # <<>> /\ Head(c.todo) = "close"
    BY DEF TypeOK, Calls, CloseStep, At
  <1>2. /\ c.todo \notin WithHand \cup WithKept \cup Replacing
        /\ todo \in Programs /\ todo \notin WithHand \cup WithKept
    BY <1>1, BeforeClose, SmallPrograms
  <1>3. c.h \in alive /\ c.h \in Handlers /\ c.hand = NoNumber /\ c.kept = NoNumber
    BY <1>1, <1>2 DEF CallsInOrder, InOrder, TypeOK
  <1>4. NoNumber \in Receipts /\ Goes(t, todo, NoNumber)
    BY <1>3, BoundsAssumption DEF NoNumber, Receipts, CloseStep, Rest
  <1>5. /\ call' \in [Threads -> Calls]
        /\ \A u \in Threads \ {t} : call'[u] = call[u]
        /\ call'[t].h \in {None, c.h} /\ call'[t].other \in {None, c.other}
        /\ call'[t].todo = todo /\ call'[t].hand = NoNumber /\ call'[t].kept = NoNumber
        /\ todo # <<>> => call'[t].h = c.h /\ call'[t].other = c.other
        /\ todo = <<>> => call'[t] = NoCall
    BY <1>2, <1>3, <1>4, Going
  <1>6. /\ entry' = [n \in Numbers |-> IF n = handle[c.h] THEN 0 ELSE entry[n]]
        /\ open' = [open EXCEPT ![c.h] = @ /\ ~IsOpen(handle[c.h])]
        /\ entries' = entries /\ alive' = alive /\ handle' = handle /\ own' = own
    BY DEF CloseStep, Closes
  <1>7. TypeOK'
    BY <1>3, <1>5, <1>6, BoundsAssumption DEF TypeOK, IsOpen
  <1>8. CallsInOrder'
    <2> SUFFICES ASSUME NEW u \in Threads
                 PROVE  InOrder(u)'
      BY DEF CallsInOrder
    <2>1. InOrder(u) /\ InOrder(t)
      BY DEF CallsInOrder
    <2>2. todo # AcceptSteps /\ (todo \in Moving => c.todo \in Moving)
      BY <1>1, BeforeClose, SmallPrograms
    <2>3. CASE u = t
      <3>1. c.other # None => c.other \in alive
        BY <2>1 DEF InOrder
      <3>2. c.todo \in Moving => c.other # None
        BY <2>1 DEF InOrder
      <3>3. CASE todo = <<>>
        BY <2>3, <3>3, <1>5, NothingInOrder DEF InOrder
      <3>4. CASE todo # <<>>
        BY <2>2, <2>3, <3>1, <3>2, <3>4, <1>2, <1>3, <1>5, <1>6 DEF InOrder
      <3> QED BY <3>3, <3>4
    <2>4. CASE u # t
      BY <2>1, <2>4, <1>5, <1>6 DEF InOrder
    <2> QED BY <2>3, <2>4
  <1>9. Apart'
    BY <1>5, StaysApart
  <1>10. Tracked'
    <2> SUFFICES ASSUME NEW n \in Numbers, entry'[n] # 0
                 PROVE  (\E h \in alive : Bears(h, n)') \/ (\E u \in Threads : Holds(u, n)')
      BY <1>6 DEF Tracked
    <2>1. entry[n] # 0 /\ n # handle[c.h]
      BY <1>6
    <2>2. ASSUME NEW h \in alive, Bears(h, n)
          PROVE  Bears(h, n)'
      BY <2>1, <2>2, <1>5, <1>6, HandlersAssumption DEF Bears, TypeOK
    <2>3. ASSUME NEW u \in Threads, Holds(u, n)
          PROVE  Holds(u, n)'
      BY <2>3, <1>3, <1>5 DEF Holds
    <2> QED BY <2>1, <2>2, <2>3 DEF Tracked
  <1>11. HandlersOwn'
    <2> SUFFICES ASSUME NEW h \in alive
                 PROVE  HandlerOwns(h)'
      BY <1>6 DEF HandlersOwn
    <2>1. HandlerOwns(h) /\ h \in Handlers
      BY DEF HandlersOwn, TypeOK
    <2>2. \A u \in Threads : Holds(u, handle[h])' => Holds(u, handle[h])
      BY <1>3, <1>5, <1>6 DEF Holds
    <2>3. CASE h = c.h
      BY <2>1, <2>3, <1>6 DEF HandlerOwns, TypeOK, IsOpen
    <2>4. CASE h # c.h
      BY <2>1, <2>2, <2>4, <1>3, <1>6 DEF HandlerOwns, TypeOK
    <2> QED BY <2>3, <2>4
  <1>12. HandsOwn'
    <2> SUFFICES ASSUME NEW u \in Threads
                 PROVE  HandOwns(u)' /\ KeptOwns(u)'
      BY DEF HandsOwn
    <2>1. CASE u = t
      BY <2>1, <1>2, <1>5 DEF HandOwns, KeptOwns, NoNumber
    <2>2. CASE u # t
      <3>1. HandOwns(u) /\ KeptOwns(u) /\ call'[u] = call[u]
        BY <2>2, <1>5 DEF HandsOwn
      <3>2. \A v \in Threads, n \in Numbers : Holds(v, n)' => Holds(v, n)
        BY <1>3, <1>5 DEF Holds
      <3>3. c.h # call[u].h
        BY <2>2, <1>3, HandlersAssumption DEF Apart
      <3>4. call[u].hand \in Receipts /\ call[u].kept \in Receipts
        BY DEF TypeOK, Calls
      <3>5. HandOwns(u)'
        BY <3>1, <3>2, <3>3, <3>4, <1>3, <1>6 DEF HandOwns, Receipts, TypeOK
      <3>6. KeptOwns(u)'
        BY <3>1, <3>2, <3>4, <1>3, <1>6 DEF KeptOwns, Receipts, TypeOK
      <3> QED BY <3>5, <3>6
    <2> QED BY <2>1, <2>2
  <1> QED BY <1>7, <1>8, <1>9, <1>10, <1>11, <1>12

\* What the kernel gives is nobody's, and if nobody carries its number it is owned.
LEMMA WhatIsGiven ==
  ASSUME TypeOK, NEW h, NEW got \in Receipts, Given(h, got)
  PROVE  /\ got.n \in Numbers /\ got.n # None /\ entry[got.n] = 0
         /\ entries' \in 1..MaxEntries /\ entry' = [entry EXCEPT ![got.n] = entries']
         /\ got.e # 0 => /\ got.e = entries' /\ \A g \in alive \ {h} : handle[g] # got.n
                        /\ \A u \in Threads : ~Holds(u, got.n)
  <1>1. PICK n \in Numbers : /\ Lowest(n) /\ entry' = [entry EXCEPT ![n] = entries']
                             /\ got = [n |-> n, e |-> IF Carried(n, h) THEN 0 ELSE entries + 1]
    BY DEF Given
  <1>2. got.n = n /\ got.e = IF Carried(n, h) THEN 0 ELSE entries + 1
    BY <1>1
  <1>3. entries' = entries + 1 /\ entries' \in 1..MaxEntries
    BY BoundsAssumption DEF Given, TypeOK
  <1>4. n # None
    BY NumbersAssumption DEF None
  <1>5. got.e # 0 => ~Carried(n, h)
    BY <1>2
  <1> QED BY <1>1, <1>2, <1>3, <1>4, <1>5 DEF Lowest, Carried, Holds

\* A step that puts what the kernel gave, or no number, into an empty hand.
LEMMA ReceiptKeeps ==
  ASSUME IInv, NEW t \in Threads, NEW got \in Receipts, NEW todo \in Programs \ {<<>>},
         call[t].todo # <<>>, call[t].todo \notin WithHand \cup Replacing,
         todo \in WithHand \ Replacing, todo \in WithKept <=> call[t].todo \in WithKept,
         Given(call[t].h, got) \/ Refused(got),
         Goes(t, todo, got), UNCHANGED handlers
  PROVE  IInv'
  <1> DEFINE c == call[t]
  <1> USE DEF IInv, Orderly, Owned
  <1>1. c \in Calls /\ InOrder(t) /\ c.h \in alive /\ c.hand = NoNumber
    BY DEF TypeOK, CallsInOrder, InOrder
  <1>2. /\ call' \in [Threads -> Calls]
        /\ \A u \in Threads \ {t} : call'[u] = call[u]
        /\ call'[t].h = c.h /\ call'[t].other = c.other /\ call'[t].todo = todo
        /\ call'[t].hand = got /\ call'[t].kept = c.kept
    BY Going
  <1>3. alive' = alive /\ handle' = handle /\ open' = open /\ own' = own
    BY DEF handlers
  <1>4. /\ entry' \in [Numbers -> 0..MaxEntries] /\ entries' \in 0..MaxEntries
        /\ \A n \in Numbers : entry[n] # 0 => entry'[n] = entry[n] /\ n # got.n
        /\ \A n \in Numbers : entry'[n] # 0 => entry[n] # 0 \/ n = got.n
        /\ got.e # 0 => got.n \in Numbers /\ got.n # None /\ entry'[got.n] = got.e
        /\ \A g \in alive \ {c.h} : got.e # 0 => handle[g] # got.n
        /\ \A u \in Threads : got.e # 0 => ~Holds(u, got.n)
    <2>1. CASE Refused(got)
      <3>1. got.n = None /\ got.e = 0
        BY <2>1 DEF Refused, NoNumber
      <3>2. \A n \in Numbers : n # got.n
        BY <3>1, NumbersAssumption DEF None
      <3> QED BY <2>1, <3>1, <3>2 DEF Refused, kernel, TypeOK
    <2>2. CASE Given(c.h, got)
      <3>1. /\ got.n \in Numbers /\ got.n # None /\ entry[got.n] = 0
            /\ entries' \in 1..MaxEntries /\ entry' = [entry EXCEPT ![got.n] = entries']
            /\ got.e # 0 => got.e = entries'
            /\ \A g \in alive \ {c.h} : got.e # 0 => handle[g] # got.n
            /\ \A u \in Threads : got.e # 0 => ~Holds(u, got.n)
        BY <2>2, WhatIsGiven
      <3>2. entry' \in [Numbers -> 0..MaxEntries] /\ entries' \in 0..MaxEntries
        BY <3>1, BoundsAssumption DEF TypeOK
      <3>3. entry'[got.n] = entries' /\ \A n \in Numbers \ {got.n} : entry'[n] = entry[n]
        BY <3>1 DEF TypeOK
      <3> QED BY <3>1, <3>2, <3>3
    <2> QED BY <2>1, <2>2
  <1>5. TypeOK'
    BY <1>2, <1>3, <1>4 DEF TypeOK
  <1>6. CallsInOrder'
    <2> SUFFICES ASSUME NEW u \in Threads
                 PROVE  InOrder(u)'
      BY DEF CallsInOrder
    <2>1. InOrder(u)
      BY DEF CallsInOrder
    <2>2. CASE u = t
      <3>1. c.kept # NoNumber => c.todo \in WithKept
        BY <1>1 DEF InOrder
      <3>2. todo # AcceptSteps /\ todo \notin Moving
        BY DEF WithHand, AcceptSteps, Moving
      <3> QED BY <1>1, <1>2, <1>3, <2>2, <3>1, <3>2 DEF InOrder
    <2>3. CASE u # t
      BY <2>1, <2>3, <1>2, <1>3 DEF InOrder
    <2> QED BY <2>2, <2>3
  <1>7. Apart'
    BY <1>2, StaysApart
  <1>8. \A v \in Threads, n \in Numbers : Holds(v, n) => Holds(v, n)'
    BY <1>1, <1>2, NumbersAssumption DEF Holds, NoNumber, None
  <1>9. \A v \in Threads, n \in Numbers : n # got.n /\ Holds(v, n)' => Holds(v, n)
    BY <1>2 DEF Holds
  <1>10. Tracked'
    <2> SUFFICES ASSUME NEW n \in Numbers, entry'[n] # 0
                 PROVE  (\E h \in alive : Bears(h, n)') \/ (\E u \in Threads : Holds(u, n)')
      BY <1>3 DEF Tracked
    <2>1. CASE n = got.n
      BY <2>1, <1>2 DEF Holds
    <2>2. CASE entry[n] # 0
      <3>1. ASSUME NEW h \in alive, Bears(h, n)
            PROVE  Bears(h, n)'
        BY <3>1, <1>2, <1>3 DEF Bears
      <3> QED BY <2>2, <3>1, <1>8 DEF Tracked
    <2> QED BY <2>1, <2>2, <1>4
  <1>11. HandlersOwn'
    <2> SUFFICES ASSUME NEW h \in alive
                 PROVE  HandlerOwns(h)'
      BY <1>3 DEF HandlersOwn
    <2>1. HandlerOwns(h) /\ h \in Handlers
      BY DEF HandlersOwn, TypeOK
    <2> QED BY <2>1, <1>3, <1>4, <1>9 DEF HandlerOwns, TypeOK
  <1>12. HandsOwn'
    <2> SUFFICES ASSUME NEW u \in Threads
                 PROVE  HandOwns(u)' /\ KeptOwns(u)'
      BY DEF HandsOwn
    <2>1. HandOwns(u) /\ KeptOwns(u)
      BY DEF HandsOwn
    <2>2. call[u].hand \in Receipts /\ call[u].kept \in Receipts
      BY DEF TypeOK, Calls
    <2>3. CASE u = t
      <3>1. HandOwns(t)'
        <4>1. \A v \in Threads \ {t} : Holds(v, got.n)' => Holds(v, got.n)
          BY <1>2 DEF Holds
        <4>2. got.e # 0 => c.kept.n # got.n
          <5>1. got.e # 0 => ~Holds(t, got.n)
            BY <1>4 DEF Holds
          <5> QED BY <5>1 DEF Holds
        <4>3. got.e # 0 => \A v \in Threads \ {t} : ~Holds(v, got.n)'
          BY <4>1, <1>4
        <4> QED BY <4>2, <4>3, <1>2, <1>3, <1>4 DEF HandOwns
      <3>2. KeptOwns(t)'
        BY <2>1, <2>2, <2>3, <1>2, <1>3, <1>4 DEF KeptOwns, Holds, Receipts
      <3> QED BY <2>3, <3>1, <3>2
    <2>4. CASE u # t
      <3>1. HandOwns(u)'
        BY <2>1, <2>2, <2>4, <1>2, <1>3, <1>4, <1>9 DEF HandOwns, Receipts
      <3>2. KeptOwns(u)'
        BY <2>1, <2>2, <2>4, <1>2, <1>3, <1>4, <1>9 DEF KeptOwns, Receipts
      <3> QED BY <3>1, <3>2
    <2> QED BY <2>3, <2>4
  <1> QED BY <1>5, <1>6, <1>7, <1>10, <1>11, <1>12

\* A step that changes nothing but what is left of a call with empty hands.
LEMMA QuietKeeps ==
  ASSUME IInv, NEW t \in Threads, NEW todo \in Programs \ {AcceptSteps},
         call[t].todo # <<>>, call[t].todo \notin WithHand \cup WithKept,
         todo \notin WithHand \cup WithKept \cup Replacing \cup Moving,
         Goes(t, todo, NoNumber), UNCHANGED <<kernel, handlers>>
  PROVE  IInv'
  <1> DEFINE c == call[t]
  <1> USE DEF IInv, Orderly, Owned
  <1>1. c \in Calls /\ InOrder(t) /\ c.h \in alive /\ c.hand = NoNumber /\ c.kept = NoNumber
    BY DEF TypeOK, CallsInOrder, InOrder
  <1>2. NoNumber \in Receipts
    BY <1>1 DEF Calls
  <1>3. /\ call' \in [Threads -> Calls]
        /\ \A u \in Threads \ {t} : call'[u] = call[u]
        /\ call'[t].h \in {None, c.h} /\ call'[t].other \in {None, c.other}
        /\ call'[t].todo = todo /\ call'[t].hand = NoNumber /\ call'[t].kept = NoNumber
        /\ todo # <<>> => call'[t].h = c.h /\ call'[t].other = c.other
        /\ todo = <<>> => call'[t] = NoCall
    BY <1>1, <1>2, Going
  <1>4. /\ entry' = entry /\ entries' = entries /\ alive' = alive
        /\ handle' = handle /\ open' = open /\ own' = own
    BY DEF handlers, kernel
  <1>5. TypeOK'
    BY <1>3, <1>4 DEF TypeOK
  <1>6. CallsInOrder'
    <2> SUFFICES ASSUME NEW u \in Threads
                 PROVE  InOrder(u)'
      BY DEF CallsInOrder
    <2>1. InOrder(u)
      BY DEF CallsInOrder
    <2>2. CASE u = t /\ todo = <<>>
      BY <2>2, <1>3, NothingInOrder DEF InOrder
    <2>3. CASE u = t /\ todo # <<>>
      <3>1. c.other # None => c.other \in alive
        BY <1>1 DEF InOrder
      <3> QED BY <2>3, <3>1, <1>1, <1>3, <1>4 DEF InOrder
    <2>4. CASE u # t
      BY <2>1, <2>4, <1>3, <1>4 DEF InOrder
    <2> QED BY <2>2, <2>3, <2>4
  <1>7. Apart'
    BY <1>3, StaysApart
  <1>8. \A v \in Threads, n \in Numbers : Holds(v, n)' <=> Holds(v, n)
    BY <1>1, <1>3 DEF Holds
  <1>9. Tracked'
    <2> SUFFICES ASSUME NEW n \in Numbers, entry[n] # 0
                 PROVE  (\E h \in alive : Bears(h, n)') \/ (\E u \in Threads : Holds(u, n)')
      BY <1>4 DEF Tracked
    <2>1. ASSUME NEW h \in alive, Bears(h, n)
          PROVE  Bears(h, n)'
      BY <2>1, <1>3, <1>4 DEF Bears
    <2> QED BY <2>1, <1>8 DEF Tracked
  <1>10. HandlersOwn'
    <2> SUFFICES ASSUME NEW h \in alive
                 PROVE  HandlerOwns(h)'
      BY <1>4 DEF HandlersOwn
    <2>1. HandlerOwns(h) /\ h \in Handlers
      BY DEF HandlersOwn, TypeOK
    <2> QED BY <2>1, <1>4, <1>8 DEF HandlerOwns, TypeOK
  <1>11. HandsOwn'
    <2> SUFFICES ASSUME NEW u \in Threads
                 PROVE  HandOwns(u)' /\ KeptOwns(u)'
      BY DEF HandsOwn
    <2>1. CASE u = t
      BY <2>1, <1>3 DEF HandOwns, KeptOwns, NoNumber
    <2>2. CASE u # t
      <3>1. HandOwns(u) /\ KeptOwns(u) /\ call[u].hand \in Receipts /\ call[u].kept \in Receipts
        BY DEF HandsOwn, TypeOK, Calls
      <3>2. HandOwns(u)'
        BY <2>2, <3>1, <1>3, <1>4, <1>8 DEF HandOwns, Receipts
      <3>3. KeptOwns(u)'
        BY <2>2, <3>1, <1>3, <1>4, <1>8 DEF KeptOwns, Receipts
      <3> QED BY <3>2, <3>3
    <2> QED BY <2>1, <2>2
  <1> QED BY <1>5, <1>6, <1>7, <1>9, <1>10, <1>11

LEMMA OpenKeeps ==
  ASSUME IInv, NEW t \in Threads, OpenStep(t) \/ OpenAtStep(t) \/ DupStep(t)
  PROVE  IInv'
  <1> DEFINE todo == Tail(call[t].todo)
  <1>1. call[t] \in Calls /\ call[t].todo \in Programs
    BY DEF IInv, Orderly, TypeOK, Calls
  <1>2. CASE OpenStep(t)
    <2>1. call[t].todo # <<>> /\ Head(call[t].todo) = "open"
      BY <1>2 DEF OpenStep, At
    <2>2. PICK got \in Receipts : (Given(call[t].h, got) \/ Refused(got)) /\ Goes(t, todo, got)
      BY <1>2 DEF OpenStep, Rest
    <2> QED BY <2>1, <2>2, <1>1, <1>2, BeforeOpen, ReceiptKeeps DEF OpenStep
  <1>3. CASE DupStep(t)
    <2>1. call[t].todo # <<>> /\ Head(call[t].todo) = "dup"
      BY <1>3 DEF DupStep, At
    <2>2. PICK got \in Receipts : (Given(call[t].h, got) \/ Refused(got)) /\ Goes(t, todo, got)
      BY <1>3 DEF DupStep, Rest
    <2> QED BY <2>1, <2>2, <1>1, <1>3, BeforeDup, ReceiptKeeps DEF DupStep
  <1>4. CASE OpenAtStep(t)
    <2>1. call[t].todo # <<>> /\ Head(call[t].todo) = "openAt"
      BY <1>4 DEF OpenAtStep, At
    <2>2. PICK got \in Receipts : \/ Given(call[t].h, got) /\ Goes(t, todo, got)
                                  \/ Refused(got) /\ Goes(t, <<>>, got)
      BY <1>4 DEF OpenAtStep, Rest
    <2>3. UNCHANGED handlers
      BY <1>4 DEF OpenAtStep
    <2>4. CASE Given(call[t].h, got) /\ Goes(t, todo, got)
      BY <2>1, <2>3, <2>4, <1>1, BeforeOpenAt, ReceiptKeeps
    <2>5. CASE Refused(got) /\ Goes(t, <<>>, got)
      <3>1. Goes(t, <<>>, NoNumber) /\ UNCHANGED kernel
        BY <2>5 DEF Refused
      <3>2. <<>> \in Programs \ {AcceptSteps}
        BY SmallPrograms, NothingInOrder
      <3> QED BY <2>1, <2>3, <3>1, <3>2, <1>1, BeforeOpenAt, NothingInOrder, QuietKeeps
    <2> QED BY <2>2, <2>4, <2>5
  <1> QED BY <1>2, <1>3, <1>4

LEMMA ProbeKeeps ==
  ASSUME IInv, NEW t \in Threads, ProbeStep(t)
  PROVE  IInv'
  <1> DEFINE todo == IF IsOpen(handle[call[t].h]) THEN <<>> ELSE Tail(call[t].todo)
  <1>1. call[t].todo \in Programs /\ call[t].todo # <<>> /\ Head(call[t].todo) = "probe"
    BY DEF IInv, Orderly, TypeOK, Calls, ProbeStep, At
  <1>2. Goes(t, todo, NoNumber) /\ UNCHANGED <<kernel, handlers>>
    BY DEF ProbeStep, Rest
  <1>3. /\ todo \in Programs \ {AcceptSteps}
        /\ todo \notin WithHand \cup WithKept \cup Replacing \cup Moving
    BY <1>1, BeforeProbe, SmallPrograms, NothingInOrder
  <1> QED BY <1>1, <1>2, <1>3, BeforeProbe, QuietKeeps

LEMMA AcceptKeeps ==
  ASSUME IInv, NEW t \in Threads, AcceptStep(t)
  PROVE  IInv'
  <1> DEFINE c == call[t]
             todo == Tail(c.todo)
  <1> USE DEF IInv, Orderly, Owned
  <1>1. c \in Calls /\ InOrder(t) /\ c.todo # <<>> /\ Head(c.todo) = "accept"
    BY DEF TypeOK, CallsInOrder, AcceptStep, At
  <1>2. /\ c.todo = AcceptSteps /\ c.todo \notin WithHand \cup WithKept \cup Replacing
        /\ todo \in Programs \ {<<>>, AcceptSteps}
        /\ todo \in WithKept \ (WithHand \cup Replacing \cup Moving)
    BY <1>1, BeforeAccept DEF Calls
  <1>3. c.h \in alive /\ handle[c.h] = None /\ c.hand = NoNumber /\ c.kept = NoNumber
    BY <1>1, <1>2 DEF InOrder
  <1>4. PICK got \in Receipts : /\ Given(c.h, got)
                                /\ call' = [call EXCEPT ![t].todo = todo, ![t].kept = got]
    BY DEF AcceptStep, Rest
  <1>5. /\ call' \in [Threads -> Calls]
        /\ \A u \in Threads \ {t} : call'[u] = call[u]
        /\ call'[t].h = c.h /\ call'[t].other = c.other /\ call'[t].todo = todo
        /\ call'[t].hand = NoNumber /\ call'[t].kept = got
    BY <1>1, <1>2, <1>3, <1>4 DEF TypeOK, Calls
  <1>6. alive' = alive /\ handle' = handle /\ open' = open /\ own' = own
    BY DEF AcceptStep, handlers
  <1>7. /\ got.n \in Numbers /\ got.n # None /\ entry[got.n] = 0
        /\ entries' \in 1..MaxEntries /\ entry' = [entry EXCEPT ![got.n] = entries']
        /\ got.e # 0 => got.e = entries'
        /\ \A g \in alive \ {c.h} : got.e # 0 => handle[g] # got.n
        /\ \A u \in Threads : got.e # 0 => ~Holds(u, got.n)
    BY <1>4, WhatIsGiven
  <1>8. entry'[got.n] = entries' /\ \A n \in Numbers \ {got.n} : entry'[n] = entry[n]
    BY <1>7 DEF TypeOK
  <1>9. TypeOK'
    BY <1>5, <1>6, <1>7, BoundsAssumption DEF TypeOK
  <1>10. CallsInOrder'
    <2> SUFFICES ASSUME NEW u \in Threads
                 PROVE  InOrder(u)'
      BY DEF CallsInOrder
    <2>1. InOrder(u)
      BY DEF CallsInOrder
    <2>2. CASE u = t
      BY <2>1, <2>2, <1>2, <1>3, <1>5, <1>6 DEF InOrder
    <2>3. CASE u # t
      BY <2>1, <2>3, <1>5, <1>6 DEF InOrder
    <2> QED BY <2>2, <2>3
  <1>11. Apart'
    BY <1>5, StaysApart
  <1>12. \A v \in Threads, n \in Numbers : Holds(v, n) => Holds(v, n)'
    BY <1>3, <1>5, NumbersAssumption DEF Holds, NoNumber, None
  <1>13. \A v \in Threads, n \in Numbers : n # got.n /\ Holds(v, n)' => Holds(v, n)
    BY <1>3, <1>5 DEF Holds
  <1>14. Tracked'
    <2> SUFFICES ASSUME NEW n \in Numbers, entry'[n] # 0
                 PROVE  (\E h \in alive : Bears(h, n)') \/ (\E u \in Threads : Holds(u, n)')
      BY <1>6 DEF Tracked
    <2>1. CASE n = got.n
      BY <2>1, <1>5 DEF Holds
    <2>2. CASE n # got.n
      <3>1. entry[n] # 0
        BY <2>2, <1>8
      <3>2. ASSUME NEW h \in alive, Bears(h, n)
            PROVE  Bears(h, n)'
        BY <3>2, <1>2, <1>5, <1>6 DEF Bears
      <3> QED BY <3>1, <3>2, <1>12 DEF Tracked
    <2> QED BY <2>1, <2>2
  <1>15. HandlersOwn'
    <2> SUFFICES ASSUME NEW h \in alive
                 PROVE  HandlerOwns(h)'
      BY <1>6 DEF HandlersOwn
    <2>1. HandlerOwns(h) /\ h \in Handlers
      BY DEF HandlersOwn, TypeOK
    <2>2. own[h] # 0 /\ open[h] => handle[h] \in Numbers \ {got.n}
      BY <2>1, <1>7 DEF HandlerOwns, TypeOK
    <2> QED BY <2>1, <2>2, <1>6, <1>8, <1>13 DEF HandlerOwns
  <1>16. HandsOwn'
    <2> SUFFICES ASSUME NEW u \in Threads
                 PROVE  HandOwns(u)' /\ KeptOwns(u)'
      BY DEF HandsOwn
    <2>1. HandOwns(u) /\ KeptOwns(u) /\ call[u].hand \in Receipts /\ call[u].kept \in Receipts
      BY DEF HandsOwn, TypeOK, Calls
    <2>2. CASE u = t
      <3>1. HandOwns(t)'
        BY <1>5 DEF HandOwns, NoNumber
      <3>2. \A v \in Threads \ {t} : got.e # 0 => ~Holds(v, got.n)'
        BY <1>5, <1>7 DEF Holds
      <3>3. \A g \in alive : got.e # 0 => handle[g] # got.n
        BY <1>3, <1>7
      <3>4. KeptOwns(t)'
        BY <3>2, <3>3, <1>5, <1>6, <1>7, <1>8 DEF KeptOwns, NoNumber
      <3> QED BY <2>2, <3>1, <3>4
    <2>3. CASE u # t
      <3>1. call[u].hand.e # 0 => call[u].hand.n \in Numbers \ {got.n}
        BY <2>1, <1>7 DEF HandOwns, Receipts
      <3>2. HandOwns(u)'
        BY <2>1, <2>3, <3>1, <1>5, <1>6, <1>8, <1>13 DEF HandOwns
      <3>3. call[u].todo \in WithKept /\ call[u].kept.e # 0 => call[u].kept.n \in Numbers \ {got.n}
        BY <2>1, <1>7 DEF KeptOwns, Receipts
      <3>4. KeptOwns(u)'
        BY <2>1, <2>3, <3>3, <1>5, <1>6, <1>8, <1>13 DEF KeptOwns
      <3> QED BY <3>2, <3>4
    <2> QED BY <2>2, <2>3
  <1> QED BY <1>9, <1>10, <1>11, <1>14, <1>15, <1>16

LEMMA RecallKeeps ==
  ASSUME IInv, NEW t \in Threads, RecallStep(t)
  PROVE  IInv'
  <1> DEFINE c == call[t]
             todo == Tail(c.todo)
  <1> USE DEF IInv, Orderly, Owned
  <1>1. c \in Calls /\ InOrder(t) /\ c.todo # <<>> /\ Head(c.todo) = "recall"
    BY DEF TypeOK, CallsInOrder, RecallStep, At
  <1>2. /\ c.todo \in WithKept \ (WithHand \cup Replacing)
        /\ todo \in Programs \ {<<>>} /\ todo \in WithHand \ (WithKept \cup Replacing)
    BY <1>1, BeforeRecall DEF Calls
  <1>3. c.h \in alive /\ c.hand = NoNumber /\ c.kept \in Receipts /\ Goes(t, todo, c.kept)
    BY <1>1, <1>2 DEF InOrder, Calls, RecallStep, Rest
  <1>4. /\ call' \in [Threads -> Calls]
        /\ \A u \in Threads \ {t} : call'[u] = call[u]
        /\ call'[t].h = c.h /\ call'[t].other = c.other /\ call'[t].todo = todo
        /\ call'[t].hand = c.kept /\ call'[t].kept = c.kept
    <2>1. todo \in Programs /\ todo # <<>> /\ Goes(t, todo, c.kept)
      BY <1>2, <1>3
    <2> HIDE DEF todo
    <2> QED BY <2>1, <1>3, Going
  <1>5. /\ entry' = entry /\ entries' = entries /\ alive' = alive
        /\ handle' = handle /\ open' = open /\ own' = own
    BY DEF RecallStep, handlers, kernel
  <1>6. TypeOK'
    BY <1>4, <1>5 DEF TypeOK
  <1>7. CallsInOrder'
    <2> SUFFICES ASSUME NEW u \in Threads
                 PROVE  InOrder(u)'
      BY DEF CallsInOrder
    <2>1. InOrder(u)
      BY DEF CallsInOrder
    <2>2. todo # AcceptSteps /\ todo \notin Moving
      BY <1>2 DEF WithHand, AcceptSteps, Moving
    <2>3. CASE u = t
      BY <2>1, <2>2, <2>3, <1>2, <1>3, <1>4, <1>5 DEF InOrder
    <2>4. CASE u # t
      BY <2>1, <2>4, <1>4, <1>5 DEF InOrder
    <2> QED BY <2>3, <2>4
  <1>8. Apart'
    BY <1>4, StaysApart
  <1>9. \A v \in Threads, n \in Numbers : Holds(v, n)' <=> Holds(v, n)
    BY <1>3, <1>4, NumbersAssumption DEF Holds, NoNumber, None
  <1>10. Tracked'
    <2> SUFFICES ASSUME NEW n \in Numbers, entry[n] # 0
                 PROVE  (\E h \in alive : Bears(h, n)') \/ (\E u \in Threads : Holds(u, n)')
      BY <1>5 DEF Tracked
    <2>1. ASSUME NEW h \in alive, Bears(h, n)
          PROVE  Bears(h, n)'
      BY <2>1, <1>2, <1>4, <1>5 DEF Bears
    <2> QED BY <2>1, <1>9 DEF Tracked
  <1>11. HandlersOwn'
    <2> SUFFICES ASSUME NEW h \in alive
                 PROVE  HandlerOwns(h)'
      BY <1>5 DEF HandlersOwn
    <2>1. HandlerOwns(h) /\ h \in Handlers
      BY DEF HandlersOwn, TypeOK
    <2> QED BY <2>1, <1>5, <1>9 DEF HandlerOwns, TypeOK
  <1>12. HandsOwn'
    <2> SUFFICES ASSUME NEW u \in Threads
                 PROVE  HandOwns(u)' /\ KeptOwns(u)'
      BY DEF HandsOwn
    <2>1. HandOwns(u) /\ KeptOwns(u) /\ call[u].hand \in Receipts /\ call[u].kept \in Receipts
      BY DEF HandsOwn, TypeOK, Calls
    <2>2. CASE u = t
      BY <2>1, <2>2, <1>2, <1>4, <1>5, <1>9 DEF HandOwns, KeptOwns, Receipts
    <2>3. CASE u # t
      <3>1. HandOwns(u)'
        BY <2>1, <2>3, <1>4, <1>5, <1>9 DEF HandOwns, Receipts
      <3>2. KeptOwns(u)'
        BY <2>1, <2>3, <1>4, <1>5, <1>9 DEF KeptOwns, Receipts
      <3> QED BY <3>1, <3>2
    <2> QED BY <2>2, <2>3
  <1> QED BY <1>6, <1>7, <1>8, <1>10, <1>11, <1>12

LEMMA ReleaseKeeps ==
  ASSUME IInv, NEW t \in Threads, ReleaseStep(t)
  PROVE  IInv'
  <1> DEFINE c == call[t]
             o == c.other
             todo == Tail(c.todo)
             got == [n |-> handle[o], e |-> IF open[o] THEN own[o] ELSE 0]
  <1> USE DEF IInv, Orderly, Owned
  <1>1. c \in Calls /\ InOrder(t) /\ c.todo # <<>> /\ Head(c.todo) = "release"
    BY DEF TypeOK, CallsInOrder, ReleaseStep, At
  <1>2. /\ c.todo \in Moving /\ c.todo \notin WithHand \cup WithKept \cup Replacing
        /\ todo \in Programs /\ todo # <<>> /\ todo \in WithHand \ Replacing /\ todo \notin WithKept
    BY <1>1, BeforeRelease DEF Calls
  <1>3. /\ c.h \in alive /\ o \in alive /\ o \in Handlers
        /\ c.hand = NoNumber /\ c.kept = NoNumber
    BY <1>1, <1>2 DEF InOrder, TypeOK
  <1>4. got \in Receipts /\ got.n = handle[o] /\ (got.e # 0 => open[o] /\ got.e = own[o])
    BY <1>3, BoundsAssumption DEF TypeOK, Receipts
  <1>5. Goes(t, todo, got)
    BY DEF ReleaseStep, Rest
  <1> HIDE DEF todo, got
  <1>6. /\ call' \in [Threads -> Calls]
        /\ \A u \in Threads \ {t} : call'[u] = call[u]
        /\ call'[t].h = c.h /\ call'[t].other = c.other /\ call'[t].todo = todo
        /\ call'[t].hand = got /\ call'[t].kept = NoNumber
    BY <1>2, <1>3, <1>4, <1>5, Going
  <1>7. /\ entry' = entry /\ entries' = entries /\ alive' = alive
        /\ handle' = [handle EXCEPT ![o] = None] /\ open' = [open EXCEPT ![o] = FALSE]
        /\ own' = [own EXCEPT ![o] = 0]
    BY DEF ReleaseStep, Released, kernel
  <1>8. /\ handle'[o] = None /\ own'[o] = 0
        /\ \A g \in alive \ {o} : handle'[g] = handle[g] /\ open'[g] = open[g] /\ own'[g] = own[g]
    BY <1>3, <1>7 DEF TypeOK
  <1>9. TypeOK'
    BY <1>3, <1>6, <1>7, BoundsAssumption DEF TypeOK
  <1>10. CallsInOrder'
    <2> SUFFICES ASSUME NEW u \in Threads
                 PROVE  InOrder(u)'
      BY DEF CallsInOrder
    <2>1. InOrder(u)
      BY DEF CallsInOrder
    <2>2. todo # AcceptSteps /\ todo \notin Moving
      BY <1>2 DEF WithHand, AcceptSteps, Moving
    <2>3. CASE u = t
      BY <2>1, <2>2, <2>3, <1>2, <1>3, <1>6, <1>7 DEF InOrder
    <2>4. CASE u # t
      <3>1. AcceptSteps # <<>>
        BY NothingInOrder
      <3> QED BY <2>1, <2>4, <3>1, <1>6, <1>7, <1>8 DEF InOrder
    <2> QED BY <2>3, <2>4
  <1>11. Apart'
    BY <1>6, StaysApart
  <1>12. \A v \in Threads, n \in Numbers : Holds(v, n) => Holds(v, n)'
    BY <1>3, <1>6, NumbersAssumption DEF Holds, NoNumber, None
  <1>13. \A v \in Threads, n \in Numbers : n # handle[o] /\ Holds(v, n)' => Holds(v, n)
    BY <1>3, <1>4, <1>6 DEF Holds
  <1>14. Tracked'
    <2> SUFFICES ASSUME NEW n \in Numbers, entry[n] # 0
                 PROVE  (\E h \in alive : Bears(h, n)') \/ (\E u \in Threads : Holds(u, n)')
      BY <1>7 DEF Tracked
    <2>1. ASSUME NEW h \in alive, Bears(h, n), h # o
          PROVE  Bears(h, n)'
      BY <2>1, <1>2, <1>6, <1>8 DEF Bears
    <2>2. Bears(o, n) => Holds(t, n)'
      BY <1>4, <1>6 DEF Bears, Holds
    <2> QED BY <2>1, <2>2, <1>12 DEF Tracked
  <1>15. HandlersOwn'
    <2> SUFFICES ASSUME NEW h \in alive
                 PROVE  HandlerOwns(h)'
      BY <1>7 DEF HandlersOwn
    <2>1. HandlerOwns(h) /\ h \in Handlers
      BY DEF HandlersOwn, TypeOK
    <2>2. CASE h = o
      BY <2>2, <1>8 DEF HandlerOwns
    <2>3. CASE h # o
      <3>1. own[h] # 0 /\ open[h] => handle[h] \in Numbers /\ handle[h] # handle[o]
        BY <2>1, <2>3, <1>3 DEF HandlerOwns, TypeOK
      <3> QED BY <2>1, <2>3, <3>1, <1>3, <1>7, <1>8, <1>13 DEF HandlerOwns
    <2> QED BY <2>2, <2>3
  <1>16. HandsOwn'
    <2> SUFFICES ASSUME NEW u \in Threads
                 PROVE  HandOwns(u)' /\ KeptOwns(u)'
      BY DEF HandsOwn
    <2>1. HandOwns(u) /\ KeptOwns(u) /\ call[u].hand \in Receipts /\ call[u].kept \in Receipts
      BY DEF HandsOwn, TypeOK, Calls
    <2>2. CASE u = t
      <3>1. HandlerOwns(o)
        BY <1>3 DEF HandlersOwn
      <3>2. got.e # 0 => /\ got.n # None /\ entry[got.n] = got.e
                         /\ \A g \in alive \ {o} : handle[g] # got.n
                         /\ \A v \in Threads : ~Holds(v, got.n)
        BY <3>1, <1>4 DEF HandlerOwns
      <3>3. got.e # 0 => \A g \in alive : handle'[g] # got.n
        BY <3>2, <1>8
      <3>4. \A v \in Threads \ {t} : got.e # 0 => got.n \notin {call'[v].hand.n, call'[v].kept.n}
        BY <3>2, <1>6 DEF Holds
      <3>5. HandOwns(t)'
        BY <3>2, <3>3, <3>4, <1>2, <1>6, <1>7 DEF HandOwns, Holds
      <3>6. KeptOwns(t)'
        BY <1>2, <1>6 DEF KeptOwns
      <3> QED BY <2>2, <3>5, <3>6
    <2>3. CASE u # t
      <3>1. o # call[u].h
        BY <2>3, <1>3, HandlersAssumption DEF Apart
      <3>2. call[u].hand.e # 0 => call[u].hand.n \in Numbers /\ call[u].hand.n # handle[o]
        BY <2>1, <3>1, <1>3 DEF HandOwns, Receipts
      <3>3. HandOwns(u)'
        BY <2>1, <2>3, <3>2, <1>6, <1>7, <1>8, <1>13 DEF HandOwns
      <3>4. call[u].todo \in WithKept /\ call[u].kept.e # 0 =>
                call[u].kept.n \in Numbers /\ call[u].kept.n # handle[o]
        BY <2>1, <1>3 DEF KeptOwns, Receipts
      <3>5. KeptOwns(u)'
        BY <2>1, <2>3, <3>4, <1>6, <1>7, <1>8, <1>13 DEF KeptOwns
      <3> QED BY <3>3, <3>5
    <2> QED BY <2>2, <2>3
  <1> QED BY <1>9, <1>10, <1>11, <1>14, <1>15, <1>16

LEMMA AcquireCloseKeeps ==
  ASSUME IInv, NEW t \in Threads, AcquireCloses(t)
  PROVE  IInv'
  <1> DEFINE c == call[t]
             todo == <<"set">> \o Tail(c.todo)
  <1> USE DEF IInv, Orderly, Owned
  <1>1. c \in Calls /\ InOrder(t) /\ c.todo # <<>> /\ Head(c.todo) = "acquire"
    BY DEF TypeOK, CallsInOrder, AcquireCloses, At
  <1>2. /\ c.todo \in WithHand \ Replacing
        /\ todo \in Programs /\ todo # <<>> /\ todo \in WithHand
        /\ todo \in WithKept <=> c.todo \in WithKept
    BY <1>1, BeforeAcquire DEF Calls
  <1>3. c.h \in alive /\ c.h \in Handlers /\ handle[c.h] # None /\ c.hand.n # handle[c.h]
    BY <1>1 DEF InOrder, TypeOK, AcquireCloses, ClosesFirst
  <1>4. c.hand \in Receipts /\ Goes(t, todo, c.hand)
    BY <1>1 DEF Calls, AcquireCloses, Rest
  <1> HIDE DEF todo
  <1>5. /\ call' \in [Threads -> Calls]
        /\ \A u \in Threads \ {t} : call'[u] = call[u]
        /\ call'[t].h = c.h /\ call'[t].other = c.other /\ call'[t].todo = todo
        /\ call'[t].hand = c.hand /\ call'[t].kept = c.kept
    BY <1>2, <1>4, Going
  <1>6. /\ entry' = [n \in Numbers |-> IF n = handle[c.h] THEN 0 ELSE entry[n]]
        /\ open' = [open EXCEPT ![c.h] = @ /\ ~IsOpen(handle[c.h])]
        /\ entries' = entries /\ alive' = alive /\ handle' = handle /\ own' = own
    BY DEF AcquireCloses, Closes
  <1>7. TypeOK'
    BY <1>3, <1>5, <1>6, BoundsAssumption DEF TypeOK, IsOpen
  <1>8. CallsInOrder'
    <2> SUFFICES ASSUME NEW u \in Threads
                 PROVE  InOrder(u)'
      BY DEF CallsInOrder
    <2>1. InOrder(u)
      BY DEF CallsInOrder
    <2>2. todo # AcceptSteps /\ todo \notin Moving
      BY <1>2 DEF WithHand, AcceptSteps, Moving
    <2>3. CASE u = t
      BY <2>1, <2>2, <2>3, <1>2, <1>3, <1>5, <1>6 DEF InOrder
    <2>4. CASE u # t
      BY <2>1, <2>4, <1>5, <1>6 DEF InOrder
    <2> QED BY <2>3, <2>4
  <1>9. Apart'
    BY <1>5, StaysApart
  <1>10. \A v \in Threads, n \in Numbers : Holds(v, n)' <=> Holds(v, n)
    BY <1>5 DEF Holds
  <1>11. Tracked'
    <2> SUFFICES ASSUME NEW n \in Numbers, entry'[n] # 0
                 PROVE  (\E h \in alive : Bears(h, n)') \/ (\E u \in Threads : Holds(u, n)')
      BY <1>6 DEF Tracked
    <2>1. entry[n] # 0 /\ n # handle[c.h]
      BY <1>6
    <2>2. ASSUME NEW h \in alive, Bears(h, n)
          PROVE  Bears(h, n)'
      BY <2>1, <2>2, <1>5, <1>6 DEF Bears
    <2> QED BY <2>1, <2>2, <1>10 DEF Tracked
  <1>12. HandlersOwn'
    <2> SUFFICES ASSUME NEW h \in alive
                 PROVE  HandlerOwns(h)'
      BY <1>6 DEF HandlersOwn
    <2>1. HandlerOwns(h) /\ h \in Handlers
      BY DEF HandlersOwn, TypeOK
    <2>2. CASE h = c.h
      BY <2>1, <2>2, <1>6 DEF HandlerOwns, TypeOK, IsOpen
    <2>3. CASE h # c.h
      BY <2>1, <2>3, <1>3, <1>6, <1>10 DEF HandlerOwns, TypeOK
    <2> QED BY <2>2, <2>3
  <1>13. HandsOwn'
    <2> SUFFICES ASSUME NEW u \in Threads
                 PROVE  HandOwns(u)' /\ KeptOwns(u)'
      BY DEF HandsOwn
    <2>1. /\ HandOwns(u) /\ KeptOwns(u) /\ call[u].hand \in Receipts /\ call[u].kept \in Receipts
          /\ call'[u].h = call[u].h /\ call'[u].hand = call[u].hand /\ call'[u].kept = call[u].kept
          /\ call'[u].todo \in WithKept <=> call[u].todo \in WithKept
      BY <1>2, <1>5 DEF HandsOwn, TypeOK, Calls
    <2>2. call[u].hand.e # 0 => call[u].hand.n \in Numbers /\ call[u].hand.n # handle[c.h]
      <3>1. u # t => c.h # call[u].h
        BY <1>3, HandlersAssumption DEF Apart
      <3> QED BY <2>1, <3>1, <1>3 DEF HandOwns, Receipts
    <2>3. HandOwns(u)'
      BY <2>1, <2>2, <1>6, <1>10 DEF HandOwns
    <2>4. call[u].todo \in WithKept /\ call[u].kept.e # 0 =>
              call[u].kept.n \in Numbers /\ call[u].kept.n # handle[c.h]
      BY <2>1, <1>3 DEF KeptOwns, Receipts
    <2>5. KeptOwns(u)'
      BY <2>1, <2>4, <1>6, <1>10 DEF KeptOwns
    <2> QED BY <2>3, <2>5
  <1> QED BY <1>7, <1>8, <1>9, <1>11, <1>12, <1>13

LEMMA SetKeeps ==
  ASSUME IInv, NEW t \in Threads, SetStep(t)
  PROVE  IInv'
  <1> DEFINE c == call[t]
             todo == Tail(c.todo)
  <1> USE DEF IInv, Orderly, Owned
  <1>1. /\ c \in Calls /\ InOrder(t) /\ c.todo \in Programs /\ c.todo # <<>>
        /\ Head(c.todo) \in {"set", "acquire"}
    BY DEF TypeOK, Calls, CallsInOrder, SetStep, At
  <1>2. /\ c.todo \in WithHand
        /\ todo \in Programs /\ todo # AcceptSteps /\ todo \notin WithHand \cup Replacing \cup Moving
        /\ todo # <<>> <=> c.todo \in WithKept
        /\ todo \in WithKept <=> c.todo \in WithKept
    BY <1>1, BeforeSet, BeforeAcquire
  <1>3. c.todo \in Replacing \/ handle[c.h] \in {None, c.hand.n}
    BY <1>1, BeforeSet DEF SetStep, At, ClosesFirst
  <1>4. c.h \in alive /\ c.h \in Handlers /\ c.h # None /\ c.hand \in Receipts /\ c.kept \in Receipts
    BY <1>1, HandlersAssumption DEF InOrder, TypeOK, Calls
  <1>5. NoNumber \in Receipts /\ Goes(t, todo, NoNumber)
    BY BoundsAssumption DEF NoNumber, Receipts, SetStep, Rest
  <1> HIDE DEF todo
  <1>6. /\ call' \in [Threads -> Calls]
        /\ \A u \in Threads \ {t} : call'[u] = call[u]
        /\ call'[t].h \in {None, c.h} /\ call'[t].other \in {None, c.other}
        /\ call'[t].todo = todo /\ call'[t].hand = NoNumber
        /\ call'[t].kept = NoNumber \/ (todo # <<>> /\ call'[t].kept = c.kept)
        /\ todo # <<>> => /\ call'[t].h = c.h /\ call'[t].other = c.other
                          /\ call'[t].kept = c.kept
        /\ todo = <<>> => call'[t] = NoCall
    BY <1>2, <1>5, Going, NothingInOrder
  <1>7. /\ entry' = entry /\ entries' = entries /\ alive' = alive
        /\ handle' = [handle EXCEPT ![c.h] = c.hand.n] /\ open' = [open EXCEPT ![c.h] = TRUE]
        /\ own' = [own EXCEPT ![c.h] = c.hand.e]
    BY DEF SetStep, kernel
  <1>8. /\ handle'[c.h] = c.hand.n /\ own'[c.h] = c.hand.e
        /\ \A g \in alive \ {c.h} : handle'[g] = handle[g] /\ open'[g] = open[g] /\ own'[g] = own[g]
    BY <1>4, <1>7 DEF TypeOK
  <1>9. TypeOK'
    BY <1>4, <1>6, <1>7 DEF TypeOK, Receipts
  <1>10. \A u \in Threads \ {t} : call[u].h # c.h /\ call[u].other # c.h
    BY <1>4 DEF Apart
  <1>11. CallsInOrder'
    <2> SUFFICES ASSUME NEW u \in Threads
                 PROVE  InOrder(u)'
      BY DEF CallsInOrder
    <2>1. InOrder(u)
      BY DEF CallsInOrder
    <2>2. CASE u = t /\ todo = <<>>
      BY <2>2, <1>6, NothingInOrder DEF InOrder
    <2>3. CASE u = t /\ todo # <<>>
      BY <2>1, <2>3, <1>2, <1>4, <1>6, <1>7 DEF InOrder
    <2>4. CASE u # t
      <3>1. call[u].todo = AcceptSteps => call[u].h \in alive \ {c.h}
        BY <2>1, <2>4, <1>10, NothingInOrder DEF InOrder
      <3> QED BY <2>1, <2>4, <3>1, <1>6, <1>7, <1>8 DEF InOrder
    <2> QED BY <2>2, <2>3, <2>4
  <1>12. Apart'
    BY <1>6, StaysApart
  <1>13. \A v \in Threads, n \in Numbers : Holds(v, n)' => Holds(v, n)
    BY <1>6, NumbersAssumption DEF Holds, NoNumber, None
  <1>14. \A v \in Threads, n \in Numbers : Holds(v, n) => Holds(v, n)' \/ n = c.hand.n
    <2> SUFFICES ASSUME NEW v \in Threads, NEW n \in Numbers, Holds(v, n), n # c.hand.n
                 PROVE  Holds(v, n)'
      OBVIOUS
    <2>1. CASE v = t
      <3>1. c.kept.n = n /\ c.kept # c.hand /\ n # None
        BY <2>1, NumbersAssumption DEF Holds, None
      <3>2. c.kept # NoNumber
        BY <3>1, NothingInOrder
      <3>3. todo # <<>>
        BY <3>1, <3>2, <1>1, <1>2 DEF InOrder
      <3> QED BY <2>1, <3>1, <3>3, <1>6 DEF Holds
    <2>2. CASE v # t
      BY <2>2, <1>6 DEF Holds
    <2> QED BY <2>1, <2>2
  <1>15. Tracked'
    <2> SUFFICES ASSUME NEW n \in Numbers, entry[n] # 0
                 PROVE  (\E h \in alive : Bears(h, n)') \/ (\E u \in Threads : Holds(u, n)')
      BY <1>7 DEF Tracked
    <2>1. PICK mine \in alive : mine = c.h
      BY <1>4
    <2>2. n = c.hand.n => Bears(mine, n)'
      BY <2>1, <1>2, <1>6, <1>8, <1>10 DEF Bears
    <2>3. Bears(mine, n) => n = c.hand.n
      BY <2>1, <1>3, NumbersAssumption DEF Bears, None
    <2>4. ASSUME NEW h \in alive, Bears(h, n), h # mine
          PROVE  Bears(h, n)'
      <3>1. h # None
        BY HandlersAssumption DEF TypeOK
      <3> QED BY <2>1, <2>4, <3>1, <1>6, <1>8, NothingInOrder DEF Bears
    <2> QED BY <2>2, <2>3, <2>4, <1>14 DEF Tracked
  <1>16. HandlersOwn'
    <2> SUFFICES ASSUME NEW h \in alive
                 PROVE  HandlerOwns(h)'
      BY <1>7 DEF HandlersOwn
    <2>1. HandlerOwns(h) /\ h \in Handlers
      BY DEF HandlersOwn, TypeOK
    <2>2. CASE h = c.h
      <3>1. c.hand.e # 0 => /\ c.hand.n # None /\ entry[c.hand.n] = c.hand.e
                            /\ \A g \in alive \ {c.h} : handle[g] # c.hand.n
                            /\ \A u \in Threads \ {t} : ~Holds(u, c.hand.n)
                            /\ c.todo \in WithKept => c.kept.n # c.hand.n
        BY DEF HandsOwn, HandOwns
      <3>2. c.hand.e # 0 => \A u \in Threads \ {t} :
                                c.hand.n \notin {call'[u].hand.n, call'[u].kept.n}
        BY <3>1, <1>6 DEF Holds
      <3>3. c.hand.e # 0 => c.hand.n \notin {call'[t].hand.n, call'[t].kept.n}
        BY <3>1, <1>2, <1>6, NothingInOrder
      <3>4. c.hand.e # 0 => \A g \in alive \ {c.h} : handle'[g] # c.hand.n
        BY <3>1, <1>8
      <3> QED BY <2>2, <3>1, <3>2, <3>3, <3>4, <1>7, <1>8 DEF HandlerOwns, Holds
    <2>3. CASE h # c.h
      <3>1. own[h] # 0 /\ open[h] => handle[h] \in Numbers /\ handle[h] # c.hand.n
        BY <2>1 DEF HandlerOwns, TypeOK, Holds
      <3> QED BY <2>1, <2>3, <3>1, <1>4, <1>7, <1>8, <1>13 DEF HandlerOwns
    <2> QED BY <2>2, <2>3
  <1>17. HandsOwn'
    <2> SUFFICES ASSUME NEW u \in Threads
                 PROVE  HandOwns(u)' /\ KeptOwns(u)'
      BY DEF HandsOwn
    <2>1. HandOwns(u) /\ KeptOwns(u) /\ call[u].hand \in Receipts /\ call[u].kept \in Receipts
      BY DEF HandsOwn, TypeOK, Calls
    <2>2. CASE u = t
      <3>1. HandOwns(t)'
        BY <1>6, NothingInOrder DEF HandOwns
      <3>2. ASSUME todo \in WithKept, c.kept.e # 0
            PROVE  KeptOwns(t)'
        <4>1. call'[t].kept = c.kept /\ c.todo \in WithKept
          BY <3>2, <1>2, <1>6, NothingInOrder
        <4>2. c.kept.n \in Numbers /\ c.kept.n # c.hand.n
          BY <2>1, <2>2, <3>2, <4>1 DEF KeptOwns, Receipts
        <4> QED BY <2>1, <2>2, <3>2, <4>1, <4>2, <1>4, <1>6, <1>7, <1>8, <1>13, NothingInOrder
                DEF KeptOwns
      <3>3. ~(todo \in WithKept /\ c.kept.e # 0) => KeptOwns(t)'
        BY <1>6, NothingInOrder DEF KeptOwns
      <3> QED BY <2>2, <3>1, <3>2, <3>3
    <2>3. CASE u # t
      <3>1. call[u].hand.e # 0 => call[u].hand.n \in Numbers /\ call[u].hand.n # c.hand.n
        BY <2>1, <2>3 DEF HandOwns, Receipts, Holds
      <3>2. HandOwns(u)'
        BY <2>1, <2>3, <3>1, <1>4, <1>6, <1>7, <1>8, <1>13 DEF HandOwns
      <3>3. call[u].todo \in WithKept /\ call[u].kept.e # 0 =>
                call[u].kept.n \in Numbers /\ call[u].kept.n # c.hand.n
        BY <2>1, <2>3 DEF KeptOwns, Receipts, Holds
      <3>4. KeptOwns(u)'
        BY <2>1, <2>3, <3>3, <1>4, <1>6, <1>7, <1>8, <1>13 DEF KeptOwns
      <3> QED BY <3>2, <3>4
    <2> QED BY <2>2, <2>3
  <1> QED BY <1>9, <1>11, <1>12, <1>15, <1>16, <1>17

LEMMA GoneKeeps ==
  ASSUME IInv, NEW t \in Threads, GoneStep(t)
  PROVE  IInv'
  <1> DEFINE c == call[t]
  <1> USE DEF IInv, Orderly, Owned
  <1>1. c \in Calls /\ InOrder(t) /\ c.todo \in Programs /\ c.todo # <<>> /\ Head(c.todo) = "gone"
    BY DEF TypeOK, Calls, CallsInOrder, GoneStep, At
  <1>2. c.todo \in Replacing \ (WithHand \cup WithKept) /\ Tail(c.todo) = <<>>
    BY <1>1, BeforeGone
  <1>3. c.h \in alive /\ c.h # None /\ c.hand = NoNumber /\ c.kept = NoNumber
    BY <1>1, <1>2, HandlersAssumption DEF InOrder, TypeOK
  <1>4. NoNumber \in Receipts /\ <<>> \in Programs /\ Goes(t, <<>>, NoNumber)
    <2>1. Goes(t, Tail(c.todo), NoNumber)
      BY DEF GoneStep, Rest
    <2>2. Goes(t, <<>>, NoNumber)
      BY <2>1, <1>2 DEF Goes
    <2> QED BY <2>2, BoundsAssumption, SmallPrograms DEF NoNumber, Receipts
  <1>5. /\ call' \in [Threads -> Calls] /\ call'[t] = NoCall
        /\ \A u \in Threads \ {t} : call'[u] = call[u]
        /\ call'[t].h \in {None, c.h} /\ call'[t].other \in {None, c.other}
    BY <1>4, Going
  <1>6. /\ entry' = entry /\ entries' = entries /\ alive' = alive \ {c.h}
        /\ handle' = handle /\ open' = open /\ own' = own
    BY DEF GoneStep, kernel
  <1>7. TypeOK'
    BY <1>5, <1>6 DEF TypeOK
  <1>8. \A u \in Threads \ {t} : call[u].h # c.h /\ call[u].other # c.h
    BY <1>3 DEF Apart
  <1>9. CallsInOrder'
    <2> SUFFICES ASSUME NEW u \in Threads
                 PROVE  InOrder(u)'
      BY DEF CallsInOrder
    <2>1. CASE u = t
      BY <2>1, <1>5, NothingInOrder DEF InOrder
    <2>2. CASE u # t
      <3>1. InOrder(u)
        BY DEF CallsInOrder
      <3> QED BY <2>2, <3>1, <1>5, <1>6, <1>8 DEF InOrder
    <2> QED BY <2>1, <2>2
  <1>10. Apart'
    BY <1>5, StaysApart
  <1>11. \A v \in Threads, n \in Numbers : Holds(v, n)' <=> Holds(v, n)
    BY <1>3, <1>5, NothingInOrder DEF Holds
  <1>12. Tracked'
    <2> SUFFICES ASSUME NEW n \in Numbers, entry[n] # 0
                 PROVE  (\E h \in alive \ {c.h} : Bears(h, n)') \/ (\E u \in Threads : Holds(u, n)')
      BY <1>6 DEF Tracked
    <2>1. ASSUME NEW h \in alive, Bears(h, n)
          PROVE  h # c.h /\ Bears(h, n)'
      <3>1. h # None /\ h # c.h
        BY <2>1, <1>2, HandlersAssumption DEF Bears, TypeOK
      <3> QED BY <2>1, <3>1, <1>5, <1>6, NothingInOrder DEF Bears
    <2> QED BY <2>1, <1>11 DEF Tracked
  <1>13. HandlersOwn'
    <2> SUFFICES ASSUME NEW h \in alive \ {c.h}
                 PROVE  HandlerOwns(h)'
      BY <1>6 DEF HandlersOwn
    <2>1. HandlerOwns(h) /\ h \in Handlers
      BY DEF HandlersOwn, TypeOK
    <2> QED BY <2>1, <1>6, <1>11 DEF HandlerOwns, TypeOK
  <1>14. HandsOwn'
    <2> SUFFICES ASSUME NEW u \in Threads
                 PROVE  HandOwns(u)' /\ KeptOwns(u)'
      BY DEF HandsOwn
    <2>1. HandOwns(u) /\ KeptOwns(u) /\ call[u].hand \in Receipts /\ call[u].kept \in Receipts
      BY DEF HandsOwn, TypeOK, Calls
    <2>2. CASE u = t
      BY <2>2, <1>5, NothingInOrder DEF HandOwns, KeptOwns
    <2>3. CASE u # t
      <3>1. HandOwns(u)'
        BY <2>1, <2>3, <1>5, <1>6, <1>11 DEF HandOwns, Receipts
      <3>2. KeptOwns(u)'
        BY <2>1, <2>3, <1>5, <1>6, <1>11 DEF KeptOwns, Receipts
      <3> QED BY <3>1, <3>2
    <2> QED BY <2>2, <2>3
  <1> QED BY <1>7, <1>9, <1>10, <1>12, <1>13, <1>14

LEMMA FirstSteps ==
  /\ {<<"open", "acquire">>, AcceptSteps, <<"dup", "acquire">>, <<"close">>,
      <<"close", "dup", "acquire">>, <<"close", "release", "acquire">>,
      <<"probe", "openAt", "acquire">>, <<"close", "gone">>}
         \subseteq Programs \ ({<<>>} \cup WithHand \cup WithKept \cup Replacing)
  /\ {<<"open", "acquire">>, AcceptSteps, <<"dup", "acquire">>, <<"close">>,
      <<"close", "dup", "acquire">>, <<"probe", "openAt", "acquire">>, <<"close", "gone">>}
         \cap Moving = {}
  /\ AcceptSteps \notin
         {<<"open", "acquire">>, <<"dup", "acquire">>, <<"close">>, <<"close", "dup", "acquire">>,
          <<"close", "release", "acquire">>, <<"probe", "openAt", "acquire">>, <<"close", "gone">>}
  <1>1. {<<"open", "acquire">>, AcceptSteps, <<"dup", "acquire">>, <<"close">>,
         <<"close", "dup", "acquire">>, <<"close", "release", "acquire">>,
         <<"probe", "openAt", "acquire">>, <<"close", "gone">>} \subseteq Programs \ {<<>>}
    BY DEF Programs, AcceptSteps
  <1>2. {<<"open", "acquire">>, AcceptSteps, <<"dup", "acquire">>, <<"close">>,
         <<"close", "dup", "acquire">>, <<"close", "release", "acquire">>,
         <<"probe", "openAt", "acquire">>, <<"close", "gone">>}
            \cap (WithHand \cup WithKept \cup Replacing) = {}
    BY DEF WithHand, WithKept, Replacing, AcceptSteps
  <1>3. {<<"open", "acquire">>, AcceptSteps, <<"dup", "acquire">>, <<"close">>,
         <<"close", "dup", "acquire">>, <<"probe", "openAt", "acquire">>, <<"close", "gone">>}
            \cap Moving = {}
    BY DEF Moving, AcceptSteps
  <1>4. AcceptSteps \notin
            {<<"open", "acquire">>, <<"dup", "acquire">>, <<"close">>,
             <<"close", "dup", "acquire">>, <<"close", "release", "acquire">>,
             <<"probe", "openAt", "acquire">>, <<"close", "gone">>}
    BY DEF AcceptSteps
  <1> QED BY <1>1, <1>2, <1>3, <1>4

\* A call begins on a handler that no call uses: one that lives, or a new one.
LEMMA BeginKeeps ==
  ASSUME IInv, NEW t \in Threads, NEW h \in Handlers, NEW other \in Handlers \cup {None},
         NEW todo \in Programs, NEW isOpen \in BOOLEAN,
         todo \notin {<<>>} \cup WithHand \cup WithKept \cup Replacing,
         Begin(t, h, other, todo), ~Used(h), other # None => Idle(other),
         todo \in Moving => other # None,
         \/ h \in alive /\ UNCHANGED handlers /\ todo # AcceptSteps
         \/ Construct(h, isOpen)
  PROVE  IInv'
  <1> DEFINE begun == [NoCall EXCEPT !.h = h, !.other = other, !.todo = todo]
  <1> USE DEF IInv, Orderly, Owned
  <1>1. /\ call[t] = NoCall /\ entry' = entry /\ entries' = entries
        /\ call' = [call EXCEPT ![t] = begun]
    BY DEF Begin, kernel
  <1>2. NoNumber \in Receipts
    BY BoundsAssumption DEF NoNumber, Receipts
  <1>3. /\ begun \in Calls /\ begun.h = h /\ begun.other = other /\ begun.todo = todo
        /\ begun.hand = NoNumber /\ begun.kept = NoNumber
    BY <1>2 DEF NoCall, Calls
  <1> HIDE DEF begun
  <1>4. /\ call' \in [Threads -> Calls]
        /\ \A u \in Threads \ {t} : call'[u] = call[u]
        /\ call'[t].h = h /\ call'[t].other = other /\ call'[t].todo = todo
        /\ call'[t].hand = NoNumber /\ call'[t].kept = NoNumber
    BY <1>1, <1>3 DEF TypeOK
  <1>5. /\ alive \subseteq alive' /\ alive' = alive \cup {h}
        /\ handle' \in [Handlers -> Numbers \cup {None}]
        /\ open' \in [Handlers -> BOOLEAN] /\ own' \in [Handlers -> 0..MaxEntries]
        /\ \A g \in alive : handle'[g] = handle[g] /\ open'[g] = open[g] /\ own'[g] = own[g]
        /\ h \notin alive => handle'[h] = None /\ own'[h] = 0
        /\ h \in alive => todo # AcceptSteps
    <2>1. CASE h \in alive /\ UNCHANGED handlers /\ todo # AcceptSteps
      BY <2>1 DEF handlers, TypeOK
    <2>2. CASE Construct(h, isOpen)
      BY <2>2, BoundsAssumption DEF Construct, TypeOK
    <2> QED BY <2>1, <2>2
  <1>6. TypeOK'
    BY <1>1, <1>4, <1>5 DEF TypeOK
  <1>7. h # None
    BY HandlersAssumption
  <1>8. CallsInOrder'
    <2> SUFFICES ASSUME NEW u \in Threads
                 PROVE  InOrder(u)'
      BY DEF CallsInOrder
    <2>1. CASE u = t
      BY <2>1, <1>4, <1>5 DEF InOrder, Idle
    <2>2. CASE u # t
      <3>1. InOrder(u)
        BY DEF CallsInOrder
      <3> QED BY <2>2, <3>1, <1>4, <1>5, NothingInOrder DEF InOrder
    <2> QED BY <2>1, <2>2
  <1>9. Apart'
    BY <1>4, <1>7 DEF Apart, Used, Idle
  <1>10. \A v \in Threads, n \in Numbers : Holds(v, n)' <=> Holds(v, n)
    BY <1>1, <1>4, NothingInOrder DEF Holds
  <1>11. Tracked'
    <2> SUFFICES ASSUME NEW n \in Numbers, entry[n] # 0
                 PROVE  (\E g \in alive : Bears(g, n)') \/ (\E u \in Threads : Holds(u, n)')
      BY <1>1, <1>5 DEF Tracked
    <2>1. ASSUME NEW g \in alive, Bears(g, n)
          PROVE  Bears(g, n)'
      BY <2>1, <1>4, <1>5 DEF Bears
    <2> QED BY <2>1, <1>10 DEF Tracked
  <1>12. HandlersOwn'
    <2> SUFFICES ASSUME NEW g \in alive \cup {h}
                 PROVE  HandlerOwns(g)'
      BY <1>5 DEF HandlersOwn
    <2>1. CASE g \in alive
      <3>1. HandlerOwns(g) /\ g \in Handlers
        BY <2>1 DEF HandlersOwn, TypeOK
      <3> QED BY <2>1, <3>1, <1>1, <1>5, <1>10 DEF HandlerOwns, TypeOK
    <2>2. CASE g \notin alive
      BY <2>2, <1>5 DEF HandlerOwns
    <2> QED BY <2>1, <2>2
  <1>13. HandsOwn'
    <2> SUFFICES ASSUME NEW u \in Threads
                 PROVE  HandOwns(u)' /\ KeptOwns(u)'
      BY DEF HandsOwn
    <2>1. CASE u = t
      BY <2>1, <1>4, NothingInOrder DEF HandOwns, KeptOwns
    <2>2. CASE u # t
      <3>1. HandOwns(u) /\ KeptOwns(u) /\ call[u].hand \in Receipts /\ call[u].kept \in Receipts
        BY DEF HandsOwn, TypeOK, Calls
      <3>2. HandOwns(u)'
        BY <2>2, <3>1, <1>1, <1>4, <1>5, <1>10 DEF HandOwns, Receipts
      <3>3. KeptOwns(u)'
        BY <2>2, <3>1, <1>1, <1>4, <1>5, <1>10 DEF KeptOwns, Receipts
      <3> QED BY <3>2, <3>3
    <2> QED BY <2>1, <2>2
  <1> QED BY <1>6, <1>8, <1>9, <1>11, <1>12, <1>13

LEMMA CallBeginsKeeps ==
  ASSUME IInv, NEW t \in Threads, CallBegins(t)
  PROVE  IInv'
  <1>1. PICK h \in Handlers :
          \/ ConstructSocket(t, h) \/ Accept(t, h)
          \/ Close(t, h) \/ OpenDevice(t, h) \/ Destroy(t, h)
          \/ \E other \in Handlers :
                CopyConstruct(t, h, other) \/ CopyAssign(t, h, other) \/ MoveAssign(t, h, other)
    BY DEF CallBegins
  <1>2. \A g \in Handlers : g # None /\ (Idle(g) => open[g] \in BOOLEAN /\ g \in alive /\ ~Used(g))
    BY HandlersAssumption DEF IInv, Orderly, TypeOK, Idle
  <1>3. CASE ConstructSocket(t, h) \/ Accept(t, h)
    <2>1. Construct(h, FALSE) /\ ~Used(h)
      BY <1>3 DEF ConstructSocket, Accept, Construct
    <2>2. Begin(t, h, None, <<"open", "acquire">>) \/ Begin(t, h, None, AcceptSteps)
      BY <1>3 DEF ConstructSocket, Accept, AcceptSteps
    <2> QED BY <2>1, <2>2, BeginKeeps, FirstSteps
  <1>4. CASE Close(t, h) \/ OpenDevice(t, h) \/ Destroy(t, h)
    <2>1. Idle(h) /\ UNCHANGED handlers
      BY <1>4 DEF Close, OpenDevice, Destroy, On
    <2>2. \/ Begin(t, h, None, <<"close">>) \/ Begin(t, h, None, <<"close", "gone">>)
          \/ Begin(t, h, None, <<"probe", "openAt", "acquire">>)
      BY <1>4 DEF Close, OpenDevice, Destroy, On
    <2> QED BY <2>1, <2>2, <1>2, BeginKeeps, FirstSteps
  <1>5. ASSUME NEW other \in Handlers,
               CopyConstruct(t, h, other) \/ CopyAssign(t, h, other) \/ MoveAssign(t, h, other)
        PROVE  IInv'
    <2>1. Idle(other)
      BY <1>5 DEF CopyConstruct, CopyAssign, MoveAssign
    <2>2. CASE CopyConstruct(t, h, other)
      <3>1. /\ Construct(h, open[other]) /\ ~Used(h)
            /\ Begin(t, h, other, <<"dup", "acquire">>)
        BY <2>2 DEF CopyConstruct, Construct
      <3> QED BY <2>1, <3>1, <1>2, BeginKeeps, FirstSteps
    <2>3. CASE CopyAssign(t, h, other) \/ MoveAssign(t, h, other)
      <3>1. Idle(h) /\ UNCHANGED handlers
        BY <2>3 DEF CopyAssign, MoveAssign, On
      <3>2. \/ Begin(t, h, other, <<"close">>) \/ Begin(t, h, other, <<"close", "dup", "acquire">>)
            \/ Begin(t, h, other, <<"close", "release", "acquire">>)
        BY <2>3 DEF CopyAssign, MoveAssign, On
      <3> QED BY <2>1, <3>1, <3>2, <1>2, BeginKeeps, FirstSteps
    <2> QED BY <1>5, <2>2, <2>3
  <1> QED BY <1>1, <1>3, <1>4, <1>5

LEMMA MoveConstructKeeps ==
  ASSUME IInv, NEW h \in Handlers, NEW other \in Handlers, MoveConstruct(h, other)
  PROVE  IInv'
  <1> USE DEF IInv, Orderly, Owned
  <1>1. /\ other \in alive /\ h \notin alive /\ h # other
        /\ \A u \in Threads : {call[u].h, call[u].other} \cap {h, other} = {}
        /\ entry' = entry /\ entries' = entries /\ call' = call /\ alive' = alive \cup {h}
    BY DEF MoveConstruct, Idle, Used, kernel
  <1>2. /\ handle' \in [Handlers -> Numbers \cup {None}]
        /\ open' \in [Handlers -> BOOLEAN] /\ own' \in [Handlers -> 0..MaxEntries]
        /\ handle'[h] = handle[other] /\ open'[h] = open[other] /\ own'[h] = own[other]
        /\ handle'[other] = None /\ own'[other] = 0
        /\ \A g \in alive \ {other} :
              handle'[g] = handle[g] /\ open'[g] = open[g] /\ own'[g] = own[g]
    BY <1>1, BoundsAssumption DEF MoveConstruct, TypeOK
  <1>3. TypeOK'
    BY <1>1, <1>2 DEF TypeOK
  <1>4. CallsInOrder'
    <2> SUFFICES ASSUME NEW u \in Threads
                 PROVE  InOrder(u)'
      BY DEF CallsInOrder
    <2>1. InOrder(u)
      BY DEF CallsInOrder
    <2> QED BY <2>1, <1>1, <1>2, NothingInOrder DEF InOrder
  <1>5. Apart'
    BY <1>1 DEF Apart
  <1>6. \A v \in Threads, n \in Numbers : Holds(v, n)' <=> Holds(v, n)
    BY <1>1 DEF Holds
  <1>7. Tracked'
    <2> SUFFICES ASSUME NEW n \in Numbers, entry[n] # 0
                 PROVE  (\E g \in alive \cup {h} : Bears(g, n)') \/ (\E u \in Threads : Holds(u, n)')
      BY <1>1 DEF Tracked
    <2>1. Bears(other, n) => Bears(h, n)'
      BY <1>1, <1>2 DEF Bears
    <2>2. \A g \in alive \ {other} : Bears(g, n) => Bears(g, n)'
      BY <1>1, <1>2 DEF Bears
    <2> QED BY <2>1, <2>2, <1>6 DEF Tracked
  <1>8. HandlersOwn'
    <2> SUFFICES ASSUME NEW g \in alive \cup {h}
                 PROVE  HandlerOwns(g)'
      BY <1>1 DEF HandlersOwn
    <2>1. CASE g = other
      BY <2>1, <1>2 DEF HandlerOwns
    <2>2. CASE g = h
      <3>1. HandlerOwns(other) /\ handle[other] \in Numbers \cup {None}
        BY <1>1 DEF HandlersOwn, TypeOK
      <3> QED BY <2>2, <3>1, <1>1, <1>2, <1>6 DEF HandlerOwns
    <2>3. CASE g \notin {other, h}
      <3>1. HandlerOwns(g) /\ handle[g] \in Numbers \cup {None}
        BY <2>3 DEF HandlersOwn, TypeOK
      <3> QED BY <2>3, <3>1, <1>1, <1>2, <1>6 DEF HandlerOwns
    <2> QED BY <2>1, <2>2, <2>3
  <1>9. HandsOwn'
    <2> SUFFICES ASSUME NEW u \in Threads
                 PROVE  HandOwns(u)' /\ KeptOwns(u)'
      BY DEF HandsOwn
    <2>1. HandOwns(u) /\ KeptOwns(u) /\ call[u].hand \in Receipts /\ call[u].kept \in Receipts
      BY DEF HandsOwn, TypeOK, Calls
    <2>2. call[u].hand.e # 0 =>
              \A g \in (alive \cup {h}) \ {call[u].h} : handle'[g] # call[u].hand.n
      <3>1. call[u].h # other /\ (call[u].hand.e # 0 => call[u].hand.n # None)
        BY <2>1, <1>1 DEF HandOwns
      <3> QED BY <2>1, <3>1, <1>1, <1>2 DEF HandOwns
    <2>3. HandOwns(u)'
      BY <2>1, <2>2, <1>1, <1>6 DEF HandOwns, Receipts
    <2>4. KeptOwns(u)'
      BY <2>1, <1>1, <1>2, <1>6 DEF KeptOwns, Receipts
    <2> QED BY <2>3, <2>4
  <1> QED BY <1>3, <1>4, <1>5, <1>7, <1>8, <1>9

LEMMA ReconnectKeeps ==
  ASSUME IInv, NEW h \in Handlers, Reconnect(h)
  PROVE  IInv'
  <1> USE DEF IInv, Orderly, Owned
  <1>1. /\ entry' = entry /\ entries' = entries /\ call' = call /\ alive' = alive
        /\ handle' = handle
    BY DEF Reconnect, kernel
  <1>2. /\ open' \in [Handlers -> BOOLEAN] /\ own' \in [Handlers -> 0..MaxEntries]
        /\ own'[h] = 0
        /\ \A g \in Handlers \ {h} : open'[g] = open[g] /\ own'[g] = own[g]
    BY BoundsAssumption DEF Reconnect, TypeOK
  <1>3. TypeOK'
    BY <1>1, <1>2 DEF TypeOK
  <1>4. CallsInOrder' /\ Apart'
    BY <1>1 DEF CallsInOrder, InOrder, Apart
  <1>5. \A v \in Threads, n \in Numbers : Holds(v, n)' <=> Holds(v, n)
    BY <1>1 DEF Holds
  <1>6. Tracked'
    BY <1>1 DEF Tracked, Bears, Holds
  <1>7. HandlersOwn'
    <2> SUFFICES ASSUME NEW g \in alive
                 PROVE  HandlerOwns(g)'
      BY <1>1 DEF HandlersOwn
    <2>1. HandlerOwns(g) /\ g \in Handlers /\ handle[g] \in Numbers \cup {None}
      BY DEF HandlersOwn, TypeOK
    <2> QED BY <2>1, <1>1, <1>2, <1>5 DEF HandlerOwns
  <1>8. HandsOwn'
    BY <1>1 DEF HandsOwn, HandOwns, KeptOwns, Holds
  <1> QED BY <1>3, <1>4, <1>6, <1>7, <1>8

LEMMA StutterKeeps ==
  ASSUME IInv, UNCHANGED vars
  PROVE  IInv'
  <1>1. /\ entry' = entry /\ entries' = entries /\ call' = call /\ alive' = alive
        /\ handle' = handle /\ open' = open /\ own' = own
    BY DEF vars, kernel, handlers
  <1>2. Orderly'
    BY <1>1 DEF IInv, Orderly, TypeOK, CallsInOrder, InOrder, Apart
  <1>3. Tracked'
    BY <1>1 DEF IInv, Tracked, Bears, Holds
  <1>4. Owned'
    BY <1>1 DEF IInv, Owned, HandlersOwn, HandlerOwns, HandsOwn, HandOwns, KeptOwns, Holds
  <1> QED BY <1>2, <1>3, <1>4 DEF IInv

LEMMA InitHolds == Init => IInv
  <1> SUFFICES ASSUME Init
               PROVE  IInv
    OBVIOUS
  <1>1. NoNumber \in Receipts /\ <<>> \in Programs
    BY BoundsAssumption, SmallPrograms DEF NoNumber, Receipts
  <1>2. NoCall \in Calls
    BY <1>1 DEF NoCall, Calls
  <1>3. TypeOK
    BY <1>2, BoundsAssumption DEF Init, TypeOK
  <1>4. CallsInOrder /\ Apart
    BY NothingInOrder DEF Init, CallsInOrder, InOrder, Apart
  <1>5. Tracked
    BY DEF Init, Tracked
  <1>6. HandlersOwn /\ HandsOwn
    BY NothingInOrder DEF Init, HandlersOwn, HandsOwn, HandOwns, KeptOwns
  <1> QED BY <1>3, <1>4, <1>5, <1>6 DEF IInv, Orderly, Owned

LEMMA NextKeeps == IInv /\ [Next]_vars => IInv'
  <1> SUFFICES ASSUME IInv, [Next]_vars
               PROVE  IInv'
    OBVIOUS
  <1>1. ASSUME NEW t \in Threads, CallBegins(t)
        PROVE  IInv'
    BY <1>1, CallBeginsKeeps
  <1>2. ASSUME NEW t \in Threads, CallStep(t)
        PROVE  IInv'
    BY <1>2, CloseKeeps, OpenKeeps, AcceptKeeps, RecallKeeps, ProbeKeeps, ReleaseKeeps,
       AcquireCloseKeeps, SetKeeps, GoneKeeps DEF CallStep
  <1>3. ASSUME NEW h \in Handlers, Reconnect(h)
        PROVE  IInv'
    BY <1>3, ReconnectKeeps
  <1>4. ASSUME NEW h \in Handlers, NEW other \in Handlers, MoveConstruct(h, other)
        PROVE  IInv'
    BY <1>4, MoveConstructKeeps
  <1>5. CASE UNCHANGED vars
    BY <1>5, StutterKeeps
  <1> QED BY <1>1, <1>2, <1>3, <1>4, <1>5 DEF Next

-----------------------------------------------------------------------------
(* The theorems *)

\* Whatever the calls and their interleaving, the invariant holds.
THEOREM DescriptorInvariant == Spec => []IInv
  <1> QED BY InitHolds, NextKeeps, PTL DEF Spec

\* Every variable keeps to its type: a call in progress is one of the sequences
\* of steps that UnixResourceHandler and the devices have.
THEOREM DescriptorTypeCorrect == Spec => []TypeOK
  <1>1. IInv => TypeOK
    BY DEF IInv, Orderly
  <1> QED BY <1>1, DescriptorInvariant, PTL

\* A descriptor that a handler took to be its own is open until that handler closes
\* it: close, acquire, copy, move and destruction of other handlers leave it alone,
\* unless the kernel gave its number while another handler still carried it.
THEOREM OwnedStaysOpen == Spec => []OwnStaysOpen
  <1>1. IInv => OwnStaysOpen
    BY DEF IInv, Owned, HandlersOwn, HandlerOwns, OwnStaysOpen
  <1> QED BY <1>1, DescriptorInvariant, PTL

\* Nothing the process has open is forgotten: some handler carries its number, or a
\* call under way has it in hand.
THEOREM NoDescriptorLeaks == Spec => []NothingLeaked
  <1>1. IInv => NothingLeaked
    BY DEF IInv, Tracked, Bears, Holds, NothingLeaked, IsOpen
  <1> QED BY <1>1, DescriptorInvariant, PTL

-----------------------------------------------------------------------------
(* Handlers that carry one number                                          *)
(*                                                                         *)
(* As long as no handler was closed and lived on, and there is one call at *)
(* a time, the number of a handler is open, so that the kernel gives it to *)
(* nobody; but for the handler of the call under way, whose number a call  *)
(* in Shut may have closed and get again.                                  *)

Shut ==
    {<<"dup", "acquire">>, <<"release", "acquire">>, <<"acquire">>, <<"set">>,
     <<"set", "recall", "acquire">>, <<"gone">>}

OneCall == \A t \in Threads : \A u \in Threads \ {t} : call[t] = NoCall \/ call[u] = NoCall

Distinct == \A h \in alive : \A g \in alive \ {h} : handle[h] # None => handle[g] # handle[h]

NoneStale ==
    \A h \in alive : handle[h] # None =>
        entry[handle[h]] # 0 \/ \E t \in Threads : call[t].h = h /\ call[t].todo \in Shut

HandAlone(t) ==
    LET c == call[t]
    IN  c.hand.n # None =>
            entry[c.hand.n] # 0 /\ \A g \in alive \ {c.h} : handle[g] # c.hand.n

KeptAlone(t) ==
    LET c == call[t]
    IN  c.todo \in WithKept =>
            /\ c.kept.n \in Numbers /\ entry[c.kept.n] # 0 /\ c.hand.n # c.kept.n
            /\ \A g \in alive : handle[g] # c.kept.n

\* Of these calls the handler is closed and nothing more happens to it.
LivesOn(t) ==
    call[t].todo = <<"close">> \/ (call[t].todo \in Moving /\ call[t].other = call[t].h)

Alone ==
    /\ OneCall /\ Distinct /\ NoneStale
    /\ \A t \in Threads : HandAlone(t) /\ KeptAlone(t) /\ ~LivesOn(t)

AloneInv == closed \/ overlapped \/ Alone

LEMMA ShutAfter ==
  ASSUME NEW p \in Programs, p # <<>>
  PROVE  /\ Head(p) = "close" /\ p # <<"close">> => Tail(p) \in Shut
         /\ Head(p) = "dup" => Tail(p) \in Shut
         /\ Head(p) \in {"open", "openAt", "probe", "recall", "accept"} => p \notin Shut
         /\ Head(p) = "release" => Tail(p) \in Shut
         /\ Head(p) = "acquire" => <<"set">> \o Tail(p) \in Shut
  <1>1. Head(p) = "close" /\ p # <<"close">> => Tail(p) \in Shut
    <2>1. ASSUME Head(p) = "close", p # <<"close">>
          PROVE  p \in {<<"close", "dup", "acquire">>, <<"close", "release", "acquire">>,
                        <<"close", "gone">>}
      BY <2>1 DEF Programs, AcceptSteps
    <2>2. p = <<"close", "dup", "acquire">> => Tail(p) = <<"dup", "acquire">>
      BY AfterFirst
    <2>3. p = <<"close", "release", "acquire">> => Tail(p) = <<"release", "acquire">>
      BY AfterFirst
    <2>4. p = <<"close", "gone">> => Tail(p) = <<"gone">>
      BY AfterFirst
    <2> QED BY <2>1, <2>2, <2>3, <2>4 DEF Shut
  <1>2. Head(p) = "dup" => Tail(p) \in Shut
    <2>1. Head(p) = "dup" => p = <<"dup", "acquire">>
      BY DEF Programs, AcceptSteps
    <2>2. p = <<"dup", "acquire">> => Tail(p) = <<"acquire">>
      BY AfterFirst
    <2> QED BY <2>1, <2>2 DEF Shut
  <1>3. Head(p) \in {"open", "openAt", "probe", "recall", "accept"} => p \notin Shut
    BY DEF Shut
  <1>4. Head(p) = "release" => Tail(p) \in Shut
    <2>1. Head(p) = "release" => p = <<"release", "acquire">>
      BY DEF Programs, AcceptSteps
    <2>2. p = <<"release", "acquire">> => Tail(p) = <<"acquire">>
      BY AfterFirst
    <2> QED BY <2>1, <2>2 DEF Shut
  <1>5. Head(p) = "acquire" => <<"set">> \o Tail(p) \in Shut
    <2>1. Head(p) = "acquire" => p \in {<<"acquire">>, <<"acquire", "recall", "acquire">>}
      BY DEF Programs, AcceptSteps
    <2>2. p = <<"acquire">> => <<"set">> \o Tail(p) = <<"set">>
      BY AfterFirst, InFront
    <2>3. p = <<"acquire", "recall", "acquire">> =>
            <<"set">> \o Tail(p) = <<"set", "recall", "acquire">>
      BY AfterFirst, InFront
    <2> QED BY <2>1, <2>2, <2>3 DEF Shut
  <1> QED BY <1>1, <1>2, <1>3, <1>4, <1>5

\* All that has to be said is about the one call.
LEMMA OneCallBefore ==
  ASSUME IInv, Alone, NEW t \in Threads, call[t].todo # <<>>
  PROVE  /\ \A u \in Threads \ {t} : call[u] = NoCall
         /\ \A h \in alive : handle[h] # None =>
                entry[handle[h]] # 0 \/ (call[t].h = h /\ call[t].todo \in Shut)
  <1>1. call[t] # NoCall
    BY NothingInOrder
  <1>2. \A u \in Threads \ {t} : call[u] = NoCall
    BY <1>1 DEF Alone, OneCall
  <1>3. \A h \in alive : h # None
    BY HandlersAssumption DEF IInv, Orderly, TypeOK
  <1>4. \A u \in Threads \ {t}, h \in alive : call[u].h # h
    BY <1>2, <1>3, NothingInOrder
  <1> QED BY <1>2, <1>4 DEF Alone, NoneStale

LEMMA OneCallAfter ==
  ASSUME NEW t \in Threads, \A u \in Threads \ {t} : call'[u] = NoCall, Distinct',
         \A h \in alive' : handle'[h] # None =>
             entry'[handle'[h]] # 0 \/ (call'[t].h = h /\ call'[t].todo \in Shut),
         HandAlone(t)', KeptAlone(t)', ~LivesOn(t)'
  PROVE  Alone'
  <1>1. OneCall'
    BY DEF OneCall
  <1>2. NoneStale'
    BY DEF NoneStale
  <1>3. ASSUME NEW u \in Threads
        PROVE  HandAlone(u)' /\ KeptAlone(u)' /\ ~LivesOn(u)'
    <2>1. CASE u = t
      BY <2>1
    <2>2. CASE u # t
      <3>1. call'[u] = NoCall
        BY <2>2
      <3>2. <<>> # <<"close">>
        OBVIOUS
      <3> QED BY <3>1, <3>2, NothingInOrder DEF HandAlone, KeptAlone, LivesOn
    <2> QED BY <2>1, <2>2
  <1> QED BY <1>1, <1>2, <1>3 DEF Alone

-----------------------------------------------------------------------------
(* The steps of the one call *)

LEMMA CloseAlone ==
  ASSUME IInv, Alone, NEW t \in Threads, CloseStep(t)
  PROVE  Alone'
  <1> DEFINE c == call[t]
             todo == Tail(c.todo)
  <1> USE DEF IInv, Orderly
  <1>1. c \in Calls /\ c.todo \in Programs /\ c.todo # <<>> /\ Head(c.todo) = "close"
    BY DEF TypeOK, Calls, CloseStep, At
  <1>2. /\ c.todo \notin WithHand \cup WithKept \cup Replacing
        /\ todo \in Programs /\ todo \notin WithHand \cup WithKept
        /\ todo \in Moving => c.todo \in Moving
    BY <1>1, BeforeClose, SmallPrograms
  <1>3. c.h \in alive /\ c.h \in Handlers /\ c.hand = NoNumber
    BY <1>1, <1>2 DEF CallsInOrder, InOrder, TypeOK
  <1>4. c.todo # <<"close">> /\ (c.todo \in Moving => c.other # c.h)
    BY DEF Alone, LivesOn
  <1>5. todo \in Shut
    BY <1>1, <1>4, ShutAfter
  <1>6. todo # <<>> /\ todo # <<"close">>
    BY <1>5 DEF Shut
  <1>7. NoNumber \in Receipts /\ Goes(t, todo, NoNumber)
    BY <1>3, BoundsAssumption DEF NoNumber, Receipts, CloseStep, Rest
  <1> HIDE DEF todo
  <1>8. /\ \A u \in Threads \ {t} : call'[u] = call[u]
        /\ call'[t].h = c.h /\ call'[t].other = c.other
        /\ call'[t].todo = todo /\ call'[t].hand = NoNumber
    BY <1>2, <1>6, <1>7, Going
  <1>9. /\ entry' = [n \in Numbers |-> IF n = handle[c.h] THEN 0 ELSE entry[n]]
        /\ alive' = alive /\ handle' = handle
    BY DEF CloseStep, Closes
  <1>10. Distinct'
    BY <1>9 DEF Alone, Distinct
  <1>11. ASSUME NEW h \in alive, handle[h] # None, h # c.h
         PROVE  entry'[handle[h]] # 0
    <2>1. entry[handle[h]] # 0
      BY <1>1, <1>11, OneCallBefore
    <2>2. handle[h] \in Numbers /\ handle[h] # handle[c.h]
      BY <1>3, <1>11 DEF Alone, Distinct, TypeOK
    <2> QED BY <1>9, <2>1, <2>2
  <1>12. HandAlone(t)' /\ KeptAlone(t)' /\ ~LivesOn(t)'
    BY <1>2, <1>4, <1>6, <1>8, NothingInOrder DEF HandAlone, KeptAlone, LivesOn
  <1>13. \A u \in Threads \ {t} : call'[u] = NoCall
    BY <1>1, <1>8, OneCallBefore
  <1> QED BY <1>5, <1>8, <1>9, <1>10, <1>11, <1>12, <1>13, OneCallAfter

\* What the kernel gives is not open, and so no handler but the one of the call has
\* its number.
LEMMA ReceiptAlone ==
  ASSUME IInv, Alone, NEW t \in Threads, NEW got \in Receipts, NEW todo \in Programs \ {<<>>},
         call[t].todo # <<>>, call[t].todo \notin WithHand,
         todo \in WithHand, todo \in WithKept <=> call[t].todo \in WithKept,
         call[t].todo \in Shut => todo \in Shut,
         Given(call[t].h, got) \/ Refused(got),
         Goes(t, todo, got), UNCHANGED handlers
  PROVE  Alone'
  <1> DEFINE c == call[t]
  <1> USE DEF IInv, Orderly
  <1>1. c \in Calls /\ InOrder(t) /\ c.h \in alive /\ c.hand = NoNumber
    BY DEF TypeOK, CallsInOrder, InOrder
  <1>2. /\ \A u \in Threads \ {t} : call'[u] = call[u]
        /\ call'[t].h = c.h /\ call'[t].other = c.other /\ call'[t].todo = todo
        /\ call'[t].hand = got /\ call'[t].kept = c.kept
    BY Going
  <1>3. alive' = alive /\ handle' = handle
    BY DEF handlers
  <1>4. /\ \A n \in Numbers : entry[n] # 0 => entry'[n] # 0 /\ n # got.n
        /\ got.n # None => got.n \in Numbers /\ entry'[got.n] # 0
    <2>1. CASE Refused(got)
      <3>1. got.n = None
        BY <2>1 DEF Refused, NoNumber
      <3>2. \A n \in Numbers : n # got.n
        BY <3>1, NumbersAssumption DEF None
      <3> QED BY <2>1, <3>1, <3>2 DEF Refused, kernel, TypeOK
    <2>2. CASE Given(c.h, got)
      <3>1. /\ got.n \in Numbers /\ entry[got.n] = 0
            /\ entries' \in 1..MaxEntries /\ entry' = [entry EXCEPT ![got.n] = entries']
        BY <2>2, WhatIsGiven
      <3> QED BY <3>1, BoundsAssumption DEF TypeOK
    <2> QED BY <2>1, <2>2
  <1>5. \A h \in alive : handle[h] # None => handle[h] \in Numbers
    BY DEF TypeOK
  <1>6. Distinct'
    BY <1>3 DEF Alone, Distinct
  <1>7. ASSUME NEW h \in alive, handle[h] # None
        PROVE  entry'[handle[h]] # 0 \/ (c.h = h /\ todo \in Shut)
    BY <1>4, <1>5, <1>7, OneCallBefore
  <1>8. HandAlone(t)'
    <2> SUFFICES ASSUME got.n # None
                 PROVE  entry'[got.n] # 0 /\ \A g \in alive \ {c.h} : handle[g] # got.n
      BY <1>2, <1>3 DEF HandAlone
    <2>1. ASSUME NEW g \in alive \ {c.h}
          PROVE  handle[g] # got.n
      <3>1. handle[g] # None => entry[handle[g]] # 0
        BY OneCallBefore
      <3> QED BY <1>4, <1>5, <3>1
    <2> QED BY <1>4, <2>1
  <1>9. KeptAlone(t)'
    <2>1. KeptAlone(t)
      BY DEF Alone
    <2> QED BY <1>2, <1>3, <1>4, <2>1 DEF KeptAlone
  <1>10. ~LivesOn(t)'
    <2>1. todo # <<"close">> /\ todo \notin Moving
      BY DEF WithHand, Moving
    <2> QED BY <1>2, <2>1 DEF LivesOn
  <1>11. \A u \in Threads \ {t} : call'[u] = NoCall
    BY <1>2, OneCallBefore
  <1> QED BY <1>2, <1>3, <1>6, <1>7, <1>8, <1>9, <1>10, <1>11, OneCallAfter

LEMMA QuietAlone ==
  ASSUME IInv, Alone, NEW t \in Threads, NEW todo \in Programs,
         call[t].todo # <<>>, call[t].todo \notin WithHand \cup Shut,
         todo \notin WithKept \cup Moving, todo # <<"close">>,
         Goes(t, todo, NoNumber), UNCHANGED <<kernel, handlers>>
  PROVE  Alone'
  <1> USE DEF IInv, Orderly
  <1>1. NoNumber \in Receipts
    BY BoundsAssumption DEF NoNumber, Receipts
  <1>2. /\ \A u \in Threads \ {t} : call'[u] = call[u]
        /\ call'[t].todo = todo /\ call'[t].hand = NoNumber
    BY <1>1, Going
  <1>3. entry' = entry /\ alive' = alive /\ handle' = handle
    BY DEF handlers, kernel
  <1>4. Distinct'
    BY <1>3 DEF Alone, Distinct
  <1>5. \A h \in alive : handle[h] # None => entry[handle[h]] # 0
    BY OneCallBefore
  <1>6. HandAlone(t)' /\ KeptAlone(t)' /\ ~LivesOn(t)'
    BY <1>2, NothingInOrder DEF HandAlone, KeptAlone, LivesOn
  <1>7. \A u \in Threads \ {t} : call'[u] = NoCall
    BY <1>2, OneCallBefore
  <1> QED BY <1>3, <1>4, <1>5, <1>6, <1>7, OneCallAfter

LEMMA OpenAlone ==
  ASSUME IInv, Alone, NEW t \in Threads, OpenStep(t) \/ OpenAtStep(t) \/ DupStep(t)
  PROVE  Alone'
  <1> DEFINE p == call[t].todo
             todo == Tail(p)
  <1>1. p \in Programs
    BY DEF IInv, Orderly, TypeOK, Calls
  <1>2. CASE OpenStep(t)
    <2>1. p # <<>> /\ Head(p) = "open"
      BY <1>2 DEF OpenStep, At
    <2>2. PICK got \in Receipts : (Given(call[t].h, got) \/ Refused(got)) /\ Goes(t, todo, got)
      BY <1>2 DEF OpenStep, Rest
    <2> QED BY <2>1, <2>2, <1>1, <1>2, BeforeOpen, ShutAfter, ReceiptAlone DEF OpenStep
  <1>3. CASE DupStep(t)
    <2>1. p # <<>> /\ Head(p) = "dup"
      BY <1>3 DEF DupStep, At
    <2>2. PICK got \in Receipts : (Given(call[t].h, got) \/ Refused(got)) /\ Goes(t, todo, got)
      BY <1>3 DEF DupStep, Rest
    <2> QED BY <2>1, <2>2, <1>1, <1>3, BeforeDup, ShutAfter, ReceiptAlone DEF DupStep
  <1>4. CASE OpenAtStep(t)
    <2>1. p # <<>> /\ Head(p) = "openAt"
      BY <1>4 DEF OpenAtStep, At
    <2>2. PICK got \in Receipts : \/ Given(call[t].h, got) /\ Goes(t, todo, got)
                                  \/ Refused(got) /\ Goes(t, <<>>, got)
      BY <1>4 DEF OpenAtStep, Rest
    <2>3. UNCHANGED handlers
      BY <1>4 DEF OpenAtStep
    <2>4. CASE Given(call[t].h, got) /\ Goes(t, todo, got)
      BY <2>1, <2>3, <2>4, <1>1, BeforeOpenAt, ShutAfter, ReceiptAlone
    <2>5. CASE Refused(got) /\ Goes(t, <<>>, got)
      <3>1. Goes(t, <<>>, NoNumber) /\ UNCHANGED kernel
        BY <2>5 DEF Refused
      <3>2. <<>> \in Programs /\ <<>> # <<"close">>
        BY SmallPrograms
      <3> QED BY <2>1, <2>3, <3>1, <3>2, <1>1, BeforeOpenAt, ShutAfter, NothingInOrder, QuietAlone
    <2> QED BY <2>2, <2>4, <2>5
  <1> QED BY <1>2, <1>3, <1>4

LEMMA ProbeAlone ==
  ASSUME IInv, Alone, NEW t \in Threads, ProbeStep(t)
  PROVE  Alone'
  <1> DEFINE p == call[t].todo
             todo == IF IsOpen(handle[call[t].h]) THEN <<>> ELSE Tail(p)
  <1>1. p \in Programs /\ p # <<>> /\ Head(p) = "probe"
    BY DEF IInv, Orderly, TypeOK, Calls, ProbeStep, At
  <1>2. Goes(t, todo, NoNumber) /\ UNCHANGED <<kernel, handlers>>
    BY DEF ProbeStep, Rest
  <1>3. todo \in Programs /\ todo \notin WithKept \cup Moving
    BY <1>1, BeforeProbe, SmallPrograms, NothingInOrder
  <1>4. todo # <<"close">>
    <2>1. p = <<"probe", "openAt", "acquire">>
      BY <1>1 DEF Programs, AcceptSteps
    <2>2. Tail(p) = <<"openAt", "acquire">>
      BY <2>1, AfterFirst
    <2> QED BY <2>2
  <1> QED BY <1>1, <1>2, <1>3, <1>4, BeforeProbe, ShutAfter, QuietAlone

LEMMA AcceptAlone ==
  ASSUME IInv, Alone, NEW t \in Threads, AcceptStep(t)
  PROVE  Alone'
  <1> DEFINE c == call[t]
             todo == Tail(c.todo)
  <1> USE DEF IInv, Orderly
  <1>1. c \in Calls /\ InOrder(t) /\ c.todo # <<>> /\ Head(c.todo) = "accept"
    BY DEF TypeOK, CallsInOrder, AcceptStep, At
  <1>2. /\ c.todo = AcceptSteps /\ c.todo \notin WithHand \cup WithKept \cup Shut
        /\ todo \in WithKept \ (WithHand \cup Moving)
    BY <1>1, BeforeAccept, ShutAfter DEF Calls
  <1>3. handle[c.h] = None /\ c.hand = NoNumber
    BY <1>1, <1>2 DEF InOrder
  <1>4. PICK got \in Receipts : /\ Given(c.h, got)
                                /\ call' = [call EXCEPT ![t].todo = todo, ![t].kept = got]
    BY DEF AcceptStep, Rest
  <1>5. /\ \A u \in Threads \ {t} : call'[u] = call[u]
        /\ call'[t].h = c.h /\ call'[t].todo = todo
        /\ call'[t].hand = NoNumber /\ call'[t].kept = got
    BY <1>1, <1>3, <1>4 DEF TypeOK, Calls
  <1>6. alive' = alive /\ handle' = handle
    BY DEF AcceptStep, handlers
  <1>7. /\ got.n \in Numbers /\ got.n # None /\ entry[got.n] = 0 /\ entry'[got.n] # 0
        /\ \A n \in Numbers : entry[n] # 0 => entry'[n] # 0
    <2>1. /\ got.n \in Numbers /\ got.n # None /\ entry[got.n] = 0
          /\ entries' \in 1..MaxEntries /\ entry' = [entry EXCEPT ![got.n] = entries']
      BY <1>4, WhatIsGiven
    <2> QED BY <2>1, BoundsAssumption DEF TypeOK
  <1>8. Distinct'
    BY <1>6 DEF Alone, Distinct
  <1>9. \A h \in alive : handle[h] # None => handle[h] \in Numbers /\ entry[handle[h]] # 0
    BY <1>1, <1>2, OneCallBefore DEF TypeOK
  <1>10. HandAlone(t)'
    BY <1>5, NothingInOrder DEF HandAlone
  <1>11. KeptAlone(t)'
    BY <1>5, <1>6, <1>7, <1>9, NothingInOrder DEF KeptAlone
  <1>12. ~LivesOn(t)'
    <2>1. <<"close">> \notin WithKept
      BY DEF WithKept
    <2> QED BY <2>1, <1>2, <1>5 DEF LivesOn
  <1>13. \A u \in Threads \ {t} : call'[u] = NoCall
    BY <1>1, <1>5, OneCallBefore
  <1> QED BY <1>6, <1>7, <1>8, <1>9, <1>10, <1>11, <1>12, <1>13, OneCallAfter

LEMMA RecallAlone ==
  ASSUME IInv, Alone, NEW t \in Threads, RecallStep(t)
  PROVE  Alone'
  <1> DEFINE c == call[t]
             todo == Tail(c.todo)
  <1> USE DEF IInv, Orderly
  <1>1. c \in Calls /\ c.todo \in Programs /\ c.todo # <<>> /\ Head(c.todo) = "recall"
    BY DEF TypeOK, Calls, RecallStep, At
  <1>2. /\ c.todo \in WithKept \ Shut
        /\ todo \in Programs \ {<<>>} /\ todo \in WithHand \ WithKept
    BY <1>1, BeforeRecall, ShutAfter
  <1>3. c.kept \in Receipts /\ Goes(t, todo, c.kept)
    BY <1>1 DEF Calls, RecallStep, Rest
  <1> HIDE DEF todo
  <1>4. /\ \A u \in Threads \ {t} : call'[u] = call[u]
        /\ call'[t].h = c.h /\ call'[t].todo = todo /\ call'[t].hand = c.kept
    BY <1>2, <1>3, Going
  <1>5. entry' = entry /\ alive' = alive /\ handle' = handle
    BY DEF RecallStep, handlers, kernel
  <1>6. Distinct'
    BY <1>5 DEF Alone, Distinct
  <1>7. \A h \in alive : handle[h] # None => entry[handle[h]] # 0
    BY <1>1, <1>2, OneCallBefore
  <1>8. HandAlone(t)' /\ KeptAlone(t)'
    <2>1. KeptAlone(t)
      BY DEF Alone
    <2> QED BY <2>1, <1>2, <1>4, <1>5 DEF HandAlone, KeptAlone
  <1>9. ~LivesOn(t)'
    <2>1. <<"close">> \notin WithHand /\ Moving \cap WithHand = {}
      BY DEF WithHand, Moving
    <2> QED BY <2>1, <1>2, <1>4 DEF LivesOn
  <1>10. \A u \in Threads \ {t} : call'[u] = NoCall
    BY <1>1, <1>4, OneCallBefore
  <1> QED BY <1>5, <1>6, <1>7, <1>8, <1>9, <1>10, OneCallAfter

LEMMA ReleaseAlone ==
  ASSUME IInv, Alone, NEW t \in Threads, ReleaseStep(t)
  PROVE  Alone'
  <1> DEFINE c == call[t]
             o == c.other
             todo == Tail(c.todo)
             got == [n |-> handle[o], e |-> IF open[o] THEN own[o] ELSE 0]
  <1> USE DEF IInv, Orderly
  <1>1. c \in Calls /\ c.todo \in Programs /\ InOrder(t) /\ c.todo # <<>> /\ Head(c.todo) = "release"
    BY DEF TypeOK, Calls, CallsInOrder, ReleaseStep, At
  <1>2. /\ c.todo \in Moving
        /\ todo \in Programs /\ todo # <<>> /\ todo \in WithHand \cap Shut /\ todo \notin WithKept
    BY <1>1, BeforeRelease, ShutAfter
  <1>3. c.h \in alive /\ o \in alive /\ o \in Handlers /\ o # c.h
    BY <1>1, <1>2 DEF InOrder, TypeOK, Alone, LivesOn
  <1>4. got \in Receipts /\ got.n = handle[o]
    BY <1>3, BoundsAssumption DEF TypeOK, Receipts
  <1>5. Goes(t, todo, got)
    BY DEF ReleaseStep, Rest
  <1> HIDE DEF todo, got
  <1>6. /\ \A u \in Threads \ {t} : call'[u] = call[u]
        /\ call'[t].h = c.h /\ call'[t].todo = todo /\ call'[t].hand = got
    BY <1>2, <1>4, <1>5, Going
  <1>7. /\ entry' = entry /\ alive' = alive /\ alive \subseteq Handlers
        /\ handle'[o] = None /\ \A g \in Handlers \ {o} : handle'[g] = handle[g]
    BY <1>3 DEF ReleaseStep, Released, kernel, TypeOK
  <1>8. Distinct'
    BY <1>7 DEF Alone, Distinct
  <1>9. \A h \in alive : h # c.h /\ handle[h] # None => entry[handle[h]] # 0
    BY <1>1, OneCallBefore
  <1>10. HandAlone(t)'
    <2> SUFFICES ASSUME handle[o] # None
                 PROVE  entry[handle[o]] # 0 /\ \A g \in alive \ {c.h} : handle'[g] # handle[o]
      BY <1>4, <1>6, <1>7 DEF HandAlone
    <2> QED BY <1>3, <1>7, <1>9 DEF Alone, Distinct
  <1>11. KeptAlone(t)'
    BY <1>2, <1>6 DEF KeptAlone
  <1>12. ~LivesOn(t)'
    <2>1. <<"close">> \notin WithHand /\ Moving \cap WithHand = {}
      BY DEF WithHand, Moving
    <2> QED BY <2>1, <1>2, <1>6 DEF LivesOn
  <1>13. \A u \in Threads \ {t} : call'[u] = NoCall
    BY <1>1, <1>6, OneCallBefore
  <1>14. ASSUME NEW h \in alive, handle'[h] # None
         PROVE  entry'[handle'[h]] # 0 \/ (c.h = h /\ todo \in Shut)
    BY <1>2, <1>7, <1>9, <1>14
  <1> QED BY <1>6, <1>7, <1>8, <1>10, <1>11, <1>12, <1>13, <1>14, OneCallAfter

LEMMA AcquireCloseAlone ==
  ASSUME IInv, Alone, NEW t \in Threads, AcquireCloses(t)
  PROVE  Alone'
  <1> DEFINE c == call[t]
             todo == <<"set">> \o Tail(c.todo)
  <1> USE DEF IInv, Orderly
  <1>1. c \in Calls /\ c.todo \in Programs /\ InOrder(t) /\ c.todo # <<>> /\ Head(c.todo) = "acquire"
    BY DEF TypeOK, Calls, CallsInOrder, AcquireCloses, At
  <1>2. /\ todo \in Programs /\ todo # <<>> /\ todo \in WithHand \cap Shut
        /\ todo \in WithKept <=> c.todo \in WithKept
    BY <1>1, BeforeAcquire, ShutAfter
  <1>3. c.h \in alive /\ c.h \in Handlers /\ handle[c.h] # None /\ c.hand.n # handle[c.h]
    BY <1>1 DEF InOrder, TypeOK, AcquireCloses, ClosesFirst
  <1>4. c.hand \in Receipts /\ c.kept \in Receipts /\ Goes(t, todo, c.hand)
    BY <1>1 DEF Calls, AcquireCloses, Rest
  <1> HIDE DEF todo
  <1>5. /\ \A u \in Threads \ {t} : call'[u] = call[u]
        /\ call'[t].h = c.h /\ call'[t].todo = todo
        /\ call'[t].hand = c.hand /\ call'[t].kept = c.kept
    BY <1>2, <1>4, Going
  <1>6. /\ alive' = alive /\ handle' = handle
        /\ \A n \in Numbers : n # handle[c.h] => entry'[n] = entry[n]
    BY DEF AcquireCloses, Closes
  <1>7. Distinct'
    BY <1>6 DEF Alone, Distinct
  <1>8. ASSUME NEW h \in alive, handle[h] # None, h # c.h
        PROVE  entry'[handle[h]] # 0
    <2>1. entry[handle[h]] # 0
      BY <1>1, <1>8, OneCallBefore
    <2>2. handle[h] \in Numbers /\ handle[h] # handle[c.h]
      BY <1>3, <1>8 DEF Alone, Distinct, TypeOK
    <2> QED BY <1>6, <2>1, <2>2
  <1>9. HandAlone(t)'
    <2>1. HandAlone(t)
      BY DEF Alone
    <2> QED BY <2>1, <1>3, <1>4, <1>5, <1>6 DEF HandAlone, Receipts
  <1>10. KeptAlone(t)'
    <2>1. KeptAlone(t)
      BY DEF Alone
    <2> QED BY <2>1, <1>2, <1>3, <1>5, <1>6 DEF KeptAlone
  <1>11. ~LivesOn(t)'
    <2>1. <<"close">> \notin WithHand /\ Moving \cap WithHand = {}
      BY DEF WithHand, Moving
    <2> QED BY <2>1, <1>2, <1>5 DEF LivesOn
  <1>12. \A u \in Threads \ {t} : call'[u] = NoCall
    BY <1>1, <1>5, OneCallBefore
  <1> QED BY <1>2, <1>5, <1>6, <1>7, <1>8, <1>9, <1>10, <1>11, <1>12, OneCallAfter

\* The number put into the handler is open and nobody else's, and so is the one kept.
LEMMA SetAlone ==
  ASSUME IInv, Alone, NEW t \in Threads, SetStep(t)
  PROVE  Alone'
  <1> DEFINE c == call[t]
             todo == Tail(c.todo)
  <1> USE DEF IInv, Orderly
  <1>1. /\ c \in Calls /\ InOrder(t) /\ c.todo \in Programs /\ c.todo # <<>>
        /\ Head(c.todo) \in {"set", "acquire"}
    BY DEF TypeOK, Calls, CallsInOrder, SetStep, At
  <1>2. /\ todo \in Programs /\ todo \notin Moving
        /\ todo # <<>> <=> todo \in WithKept
        /\ todo \in WithKept <=> c.todo \in WithKept
    BY <1>1, BeforeSet, BeforeAcquire
  <1>3. c.h \in alive /\ c.h \in Handlers
    BY <1>1 DEF InOrder, TypeOK
  <1>4. NoNumber \in Receipts /\ Goes(t, todo, NoNumber)
    BY BoundsAssumption DEF NoNumber, Receipts, SetStep, Rest
  <1> HIDE DEF todo
  <1>5. /\ \A u \in Threads \ {t} : call'[u] = call[u]
        /\ call'[t].todo = todo /\ call'[t].hand = NoNumber
        /\ todo # <<>> => call'[t].h = c.h /\ call'[t].kept = c.kept
    BY <1>2, <1>4, Going
  <1>6. /\ entry' = entry /\ alive' = alive /\ alive \subseteq Handlers
        /\ handle'[c.h] = c.hand.n /\ \A g \in Handlers \ {c.h} : handle'[g] = handle[g]
    BY <1>3 DEF SetStep, kernel, TypeOK
  <1>7. HandAlone(t) /\ KeptAlone(t)
    BY DEF Alone
  <1>8. Distinct'
    BY <1>3, <1>6, <1>7 DEF Alone, Distinct, HandAlone
  <1>9. ASSUME NEW h \in alive, handle'[h] # None
        PROVE  entry'[handle'[h]] # 0
    <2>1. h # c.h /\ handle[h] # None => entry[handle[h]] # 0
      BY <1>1, OneCallBefore
    <2> QED BY <2>1, <1>6, <1>7, <1>9 DEF HandAlone
  <1>10. HandAlone(t)'
    BY <1>5, NothingInOrder DEF HandAlone
  <1>11. KeptAlone(t)'
    <2>1. None \notin Numbers
      BY NumbersAssumption DEF None
    <2> QED BY <2>1, <1>2, <1>5, <1>6, <1>7, NothingInOrder DEF KeptAlone
  <1>12. ~LivesOn(t)'
    <2>1. <<"close">> # <<>> /\ <<"close">> \notin WithKept
      BY DEF WithKept
    <2> QED BY <2>1, <1>2, <1>5 DEF LivesOn
  <1>13. \A u \in Threads \ {t} : call'[u] = NoCall
    BY <1>1, <1>5, OneCallBefore
  <1> QED BY <1>6, <1>8, <1>9, <1>10, <1>11, <1>12, <1>13, OneCallAfter

LEMMA GoneAlone ==
  ASSUME IInv, Alone, NEW t \in Threads, GoneStep(t)
  PROVE  Alone'
  <1> DEFINE c == call[t]
  <1> USE DEF IInv, Orderly
  <1>1. c.todo \in Programs /\ c.todo # <<>> /\ Head(c.todo) = "gone"
    BY DEF TypeOK, Calls, GoneStep, At
  <1>2. NoNumber \in Receipts /\ <<>> \in Programs /\ Goes(t, <<>>, NoNumber)
    <2>1. Goes(t, Tail(c.todo), NoNumber)
      BY DEF GoneStep, Rest
    <2>2. Goes(t, <<>>, NoNumber)
      BY <2>1, <1>1, BeforeGone DEF Goes
    <2> QED BY <2>2, BoundsAssumption, SmallPrograms DEF NoNumber, Receipts
  <1>3. call'[t] = NoCall /\ \A u \in Threads \ {t} : call'[u] = call[u]
    BY <1>2, Going
  <1>4. entry' = entry /\ alive' = alive \ {c.h} /\ handle' = handle
    BY DEF GoneStep, kernel
  <1>5. Distinct'
    BY <1>4 DEF Alone, Distinct
  <1>6. \A h \in alive : h # c.h /\ handle[h] # None => entry[handle[h]] # 0
    BY <1>1, OneCallBefore
  <1>7. HandAlone(t)' /\ KeptAlone(t)' /\ ~LivesOn(t)'
    <2>1. <<>> # <<"close">>
      OBVIOUS
    <2> QED BY <2>1, <1>3, NothingInOrder DEF HandAlone, KeptAlone, LivesOn
  <1>8. \A u \in Threads \ {t} : call'[u] = NoCall
    BY <1>1, <1>3, OneCallBefore
  <1> QED BY <1>4, <1>5, <1>6, <1>7, <1>8, OneCallAfter

-----------------------------------------------------------------------------
(* Where a call begins, and what is done without one *)

LEMMA BeginAlone ==
  ASSUME IInv, Alone, NEW t \in Threads, NEW h \in Handlers, NEW other \in Handlers \cup {None},
         NEW todo \in Programs, NEW isOpen \in BOOLEAN,
         todo \notin WithKept, todo # <<"close">>, todo \in Moving => other # h,
         Begin(t, h, other, todo), ~overlapped',
         (h \in alive /\ UNCHANGED handlers) \/ Construct(h, isOpen)
  PROVE  Alone'
  <1> DEFINE begun == [NoCall EXCEPT !.h = h, !.other = other, !.todo = todo]
  <1> USE DEF IInv, Orderly
  <1>1. entry' = entry /\ call' = [call EXCEPT ![t] = begun] /\ \A u \in Threads : call[u] = NoCall
    BY DEF Begin, kernel
  <1>2. begun.other = other /\ begun.todo = todo /\ begun.hand = NoNumber /\ begun.h = h
    BY DEF NoCall
  <1> HIDE DEF begun
  <1>3. call'[t] = begun /\ \A u \in Threads \ {t} : call'[u] = NoCall
    BY <1>1 DEF TypeOK
  <1>4. /\ alive' = alive \cup {h} /\ alive \subseteq Handlers
        /\ \A g \in alive : handle'[g] = handle[g]
        /\ h \notin alive => handle'[h] = None
    BY DEF handlers, Construct, TypeOK
  <1>5. Distinct'
    <2> SUFFICES ASSUME NEW f \in alive \cup {h}, NEW g \in alive \cup {h}, f # g, handle'[f] # None
                 PROVE  handle'[g] # handle'[f]
      BY <1>4 DEF Distinct
    <2>1. f \in alive
      BY <1>4
    <2> QED BY <2>1, <1>4 DEF Alone, Distinct
  <1>6. \A g \in alive : handle[g] # None => entry[handle[g]] # 0
    <2>1. <<>> \notin Shut
      BY DEF Shut
    <2> QED BY <2>1, <1>1, NothingInOrder DEF Alone, NoneStale
  <1>7. HandAlone(t)' /\ KeptAlone(t)' /\ ~LivesOn(t)'
    BY <1>2, <1>3, NothingInOrder DEF HandAlone, KeptAlone, LivesOn
  <1> QED BY <1>1, <1>3, <1>4, <1>5, <1>6, <1>7, OneCallAfter

LEMMA CallBeginsAlone ==
  ASSUME IInv, Alone, NEW t \in Threads, CallBegins(t), ~closed', ~overlapped'
  PROVE  Alone'
  <1>1. PICK h \in Handlers :
          \/ ConstructSocket(t, h) \/ Accept(t, h)
          \/ Close(t, h) \/ OpenDevice(t, h) \/ Destroy(t, h)
          \/ \E other \in Handlers :
                CopyConstruct(t, h, other) \/ CopyAssign(t, h, other) \/ MoveAssign(t, h, other)
    BY DEF CallBegins
  <1>2. \A g \in Handlers : g # None /\ (Idle(g) => open[g] \in BOOLEAN /\ g \in alive)
    BY HandlersAssumption DEF IInv, Orderly, TypeOK, Idle
  <1>3. <<"close">> \notin
            {<<"open", "acquire">>, AcceptSteps, <<"dup", "acquire">>,
             <<"close", "dup", "acquire">>, <<"close", "release", "acquire">>,
             <<"probe", "openAt", "acquire">>, <<"close", "gone">>}
    BY DEF AcceptSteps
  <1>4. CASE ConstructSocket(t, h) \/ Accept(t, h)
    <2>1. Construct(h, FALSE)
      BY <1>4 DEF ConstructSocket, Accept
    <2>2. Begin(t, h, None, <<"open", "acquire">>) \/ Begin(t, h, None, AcceptSteps)
      BY <1>4 DEF ConstructSocket, Accept, AcceptSteps
    <2> QED BY <2>1, <2>2, <1>3, BeginAlone, FirstSteps
  <1>5. CASE OpenDevice(t, h) \/ Destroy(t, h)
    <2>1. h \in alive /\ UNCHANGED handlers
      BY <1>5 DEF OpenDevice, Destroy, On, Idle
    <2>2. \/ Begin(t, h, None, <<"close", "gone">>)
          \/ Begin(t, h, None, <<"probe", "openAt", "acquire">>)
      BY <1>5 DEF OpenDevice, Destroy, On
    <2> QED BY <2>1, <2>2, <1>3, BeginAlone, FirstSteps
  <1>6. CASE Close(t, h)
    BY <1>6 DEF Close
  <1>7. ASSUME NEW other \in Handlers,
               CopyConstruct(t, h, other) \/ CopyAssign(t, h, other) \/ MoveAssign(t, h, other)
        PROVE  Alone'
    <2>1. CASE CopyConstruct(t, h, other)
      <3>1. Construct(h, open[other]) /\ Begin(t, h, other, <<"dup", "acquire">>)
        BY <2>1 DEF CopyConstruct
      <3>2. open[other] \in BOOLEAN
        BY <2>1, <1>2 DEF CopyConstruct
      <3> QED BY <3>1, <3>2, <1>3, BeginAlone, FirstSteps
    <2>2. CASE CopyAssign(t, h, other)
      <3>1. h # other /\ h \in alive /\ UNCHANGED handlers
        BY <2>2 DEF CopyAssign, On, Idle
      <3>2. Begin(t, h, other, <<"close", "dup", "acquire">>)
        BY <2>2, <3>1 DEF CopyAssign, On
      <3> QED BY <3>1, <3>2, <1>3, BeginAlone, FirstSteps
    <2>3. CASE MoveAssign(t, h, other)
      <3>1. h # other /\ h \in alive /\ UNCHANGED handlers
        BY <2>3 DEF MoveAssign, On, Idle
      <3>2. Begin(t, h, other, <<"close", "release", "acquire">>)
        BY <2>3 DEF MoveAssign, On
      <3> QED BY <3>1, <3>2, <1>3, BeginAlone, FirstSteps
    <2> QED BY <1>7, <2>1, <2>2, <2>3
  <1> QED BY <1>1, <1>4, <1>5, <1>6, <1>7

LEMMA MoveConstructAlone ==
  ASSUME IInv, Alone, NEW h \in Handlers, NEW other \in Handlers, MoveConstruct(h, other)
  PROVE  Alone'
  <1> USE DEF IInv, Orderly
  <1>1. /\ other \in alive /\ h \notin alive /\ h # other /\ alive \subseteq Handlers
        /\ \A u \in Threads : {call[u].h, call[u].other} \cap {h, other} = {}
        /\ entry' = entry /\ call' = call /\ alive' = alive \cup {h}
    BY DEF MoveConstruct, Idle, Used, kernel, TypeOK
  <1>2. /\ handle'[h] = handle[other] /\ handle'[other] = None
        /\ \A g \in alive \ {other} : handle'[g] = handle[g]
    BY <1>1 DEF MoveConstruct, TypeOK
  <1>3. Distinct'
    BY <1>1, <1>2 DEF Alone, Distinct
  <1>4. NoneStale'
    <2> SUFFICES ASSUME NEW g \in alive \cup {h}, handle'[g] # None
                 PROVE  \/ entry[handle'[g]] # 0
                        \/ \E u \in Threads : call[u].h = g /\ call[u].todo \in Shut
      BY <1>1 DEF NoneStale
    <2>1. CASE g = h
      <3>1. entry[handle[other]] # 0
        BY <2>1, <1>1, <1>2 DEF Alone, NoneStale
      <3> QED BY <2>1, <3>1, <1>2
    <2>2. CASE g # h
      BY <2>2, <1>1, <1>2 DEF Alone, NoneStale
    <2> QED BY <2>1, <2>2
  <1>5. ASSUME NEW u \in Threads
        PROVE  HandAlone(u)' /\ KeptAlone(u)' /\ ~LivesOn(u)'
    <2>1. HandAlone(u) /\ KeptAlone(u) /\ ~LivesOn(u)
      BY DEF Alone
    <2>2. call[u].h # other
      BY <1>1
    <2>3. HandAlone(u)'
      BY <2>1, <2>2, <1>1, <1>2 DEF HandAlone
    <2>4. KeptAlone(u)'
      <3>1. None \notin Numbers
        BY NumbersAssumption DEF None
      <3> QED BY <2>1, <3>1, <1>1, <1>2 DEF KeptAlone
    <2> QED BY <2>1, <2>3, <2>4, <1>1 DEF LivesOn
  <1>6. OneCall'
    BY <1>1 DEF Alone, OneCall
  <1> QED BY <1>3, <1>4, <1>5, <1>6 DEF Alone

\* Neither reconnecting nor doing nothing changes who carries what.
LEMMA SameAlone ==
  ASSUME Alone, UNCHANGED <<entry, call, alive, handle>>
  PROVE  Alone'
  BY DEF Alone, OneCall, Distinct, NoneStale, HandAlone, KeptAlone, LivesOn

LEMMA InitAlone == Init => AloneInv
  <1> SUFFICES ASSUME Init
               PROVE  Alone
    BY DEF AloneInv
  <1>1. \A t \in Threads : call[t] = NoCall
    BY DEF Init
  <1>2. <<>> # <<"close">>
    OBVIOUS
  <1>3. \A t \in Threads : HandAlone(t) /\ KeptAlone(t) /\ ~LivesOn(t)
    BY <1>1, <1>2, NothingInOrder DEF HandAlone, KeptAlone, LivesOn
  <1>4. OneCall /\ Distinct /\ NoneStale
    BY <1>1 DEF Init, OneCall, Distinct, NoneStale
  <1> QED BY <1>3, <1>4 DEF Alone

\* What has happened once has happened.
LEMMA StaysSet ==
  ASSUME NEW t \in Threads, CallBegins(t)
  PROVE  (closed => closed') /\ (overlapped => overlapped')
  <1>1. PICK h \in Handlers :
          \/ ConstructSocket(t, h) \/ Accept(t, h)
          \/ Close(t, h) \/ OpenDevice(t, h) \/ Destroy(t, h)
          \/ \E other \in Handlers :
                CopyConstruct(t, h, other) \/ CopyAssign(t, h, other) \/ MoveAssign(t, h, other)
    BY DEF CallBegins
  <1>2. ASSUME NEW g, NEW other, NEW todo, Begin(t, g, other, todo)
        PROVE  overlapped => overlapped'
    <2>1. overlapped' = (overlapped \/ \E u \in Threads : call[u] # NoCall)
      BY <1>2, Zenon DEF Begin
    <2> QED BY <2>1, Zenon
  <1>3. ASSUME NEW g, NEW isOpen, Construct(g, isOpen)
        PROVE  closed => closed'
    BY <1>3, Zenon DEF Construct
  <1>4. CASE ConstructSocket(t, h) \/ Accept(t, h)
    BY <1>2, <1>3, <1>4, Zenon DEF ConstructSocket, Accept
  <1>5. CASE Close(t, h) \/ OpenDevice(t, h) \/ Destroy(t, h)
    <2>1. overlapped => overlapped'
      BY <1>2, <1>5, Zenon DEF Close, OpenDevice, Destroy, On
    <2>2. closed' = TRUE \/ closed' = closed
      BY <1>5, Zenon DEF Close, OpenDevice, Destroy
    <2> QED BY <2>1, <2>2
  <1>6. ASSUME NEW other \in Handlers,
               CopyConstruct(t, h, other) \/ CopyAssign(t, h, other) \/ MoveAssign(t, h, other)
        PROVE  (closed => closed') /\ (overlapped => overlapped')
    BY <1>2, <1>3, <1>6, Zenon DEF CopyConstruct, CopyAssign, MoveAssign, On
  <1> QED BY <1>1, <1>4, <1>5, <1>6

LEMMA NextAlone == IInv /\ AloneInv /\ [Next]_vars => AloneInv'
  <1> SUFFICES ASSUME IInv, AloneInv, [Next]_vars, ~closed', ~overlapped'
               PROVE  Alone'
    BY DEF AloneInv
  <1>1. ~closed /\ ~overlapped
    <2>1. ASSUME NEW t \in Threads, CallBegins(t)
          PROVE  ~closed /\ ~overlapped
      BY <2>1, StaysSet
    <2>2. ASSUME NEW t \in Threads, CallStep(t)
          PROVE  ~closed /\ ~overlapped
      BY <2>2 DEF CallStep, CloseStep, OpenStep, OpenAtStep, DupStep, AcceptStep, RecallStep,
         ProbeStep, ReleaseStep, AcquireCloses, SetStep, GoneStep, At, history
    <2>3. ASSUME NEW h \in Handlers, NEW other \in Handlers, Reconnect(h) \/ MoveConstruct(h, other)
          PROVE  ~closed /\ ~overlapped
      <3>1. UNCHANGED history
        BY <2>3 DEF Reconnect, MoveConstruct
      <3> QED BY <3>1 DEF history
    <2>4. CASE UNCHANGED vars
      BY <2>4 DEF vars, history
    <2> QED BY <2>1, <2>2, <2>3, <2>4 DEF Next
  <1>2. Alone
    BY <1>1 DEF AloneInv
  <1>3. ASSUME NEW t \in Threads, CallBegins(t)
        PROVE  Alone'
    BY <1>2, <1>3, CallBeginsAlone
  <1>4. ASSUME NEW t \in Threads, CallStep(t)
        PROVE  Alone'
    BY <1>2, <1>4, CloseAlone, OpenAlone, AcceptAlone, RecallAlone, ProbeAlone, ReleaseAlone,
       AcquireCloseAlone, SetAlone, GoneAlone DEF CallStep
  <1>5. ASSUME NEW h \in Handlers, Reconnect(h)
        PROVE  Alone'
    BY <1>2, <1>5, SameAlone DEF Reconnect, kernel
  <1>6. ASSUME NEW h \in Handlers, NEW other \in Handlers, MoveConstruct(h, other)
        PROVE  Alone'
    BY <1>2, <1>6, MoveConstructAlone
  <1>7. CASE UNCHANGED vars
    BY <1>2, <1>7, SameAlone DEF vars, kernel, handlers
  <1> QED BY <1>3, <1>4, <1>5, <1>6, <1>7 DEF Next

\* Two handlers carry one number only after a handler was closed and lived on, or
\* when two calls were under way at a time: as long as neither has happened, what
\* closing before an assignment or an acquire leaves in the handler is put right
\* before anybody else is given that number.
THEOREM SharedAfterCloseOnly == Spec => []SharedOnlyAfterClose
  <1>1. Init => IInv /\ AloneInv
    BY InitHolds, InitAlone
  <1>2. IInv /\ AloneInv /\ [Next]_vars => (IInv /\ AloneInv)'
    BY NextKeeps, NextAlone
  <1>3. IInv /\ AloneInv => SharedOnlyAfterClose
    BY DEF AloneInv, Alone, Distinct, SharedOnlyAfterClose
  <1> QED BY <1>1, <1>2, <1>3, PTL DEF Spec

=============================================================================
