------------------------- MODULE StatePublisherProofs -------------------------
(***************************************************************************)
(* Proofs about StatePublisher: for any threads, observers, publishers and *)
(* values.                                                                 *)
(*                                                                         *)
(* Numbers is about the lists of observers while additions come one at a   *)
(* time.  Knows is about one publisher's state while its assignments come  *)
(* one at a time: who does not know the state yet is still to be called.   *)
(***************************************************************************)
EXTENDS StatePublisher, FiniteSetTheorems, SequenceTheorems, TLAPS

Delegate == [id : Nat, observer : Observers]

Steps == {"idle", "increment", "emplace", "return", "hook", "notify", "call"}

Thread == [at : Steps, p : Publishers \cup {Nobody}, id : Nat, value : Values,
           todo : Seq(Delegate), observer : Observers \cup {Nobody}]

\* The types, and that a thread under way has a publisher, an addition an observer.
TypesHold ==
    /\ state \in [Publishers -> Values]
    /\ delegates \in [Publishers -> Seq(Delegate)]
    /\ current_id \in Nat
    /\ lock \in [Publishers -> Threads \cup {Nobody}]
    /\ thread \in [Threads -> Thread]
    /\ given \in [Observers -> Nat]
    /\ place \in [Observers -> Publishers \cup {Nobody}]
    /\ seen \in [Observers -> Values]
    /\ assigned \in [Publishers -> Nat]
    /\ overlapped \subseteq Publishers
    /\ mixed \in BOOLEAN

UnderWay ==
    /\ \A t \in Threads :
          /\ ~At(t, "idle") => thread[t].p \in Publishers
          /\ Adding(t) => thread[t].observer \in Observers /\ place[thread[t].observer] = thread[t].p
          /\ At(t, "call") => \A i \in DOMAIN thread[t].todo :
                                  place[thread[t].todo[i].observer] = thread[t].p
    /\ \A o \in Observers : given[o] # 0 => place[o] \in Publishers
    /\ \A p \in Publishers : \A i \in DOMAIN delegates[p] : place[delegates[p][i].observer] = p

Base == TypesHold /\ UnderWay

-----------------------------------------------------------------------------
(* What removal leaves of a list *)

LEMMA Least ==
  ASSUME NEW T, T \subseteq Nat, T # {}
  PROVE  \E x \in T : \A y \in T : x <= y
  <1> DEFINE R == OpToRel(<, Nat)
  <1>1. IsWellFoundedOn(R, Nat)
    BY NatLessThanWellFounded
  <1> HIDE DEF R
  <1>2. PICK x \in T : \A y \in T : ~ (<<y, x>> \in R)
    BY <1>1, WFMin
  <1>3. \A y \in T : ~(y < x)
    BY <1>2 DEF R, OpToRel
  <1> QED BY <1>3

Upto(list, id, i) == {j \in Stay(list, id) : j <= i}
Rank(list, id, i) == Cardinality(Upto(list, id, i))

LEMMA RankSteps ==
  ASSUME NEW S, NEW list \in Seq(S), NEW id
  PROVE  /\ Rank(list, id, 0) = 0
         /\ Rank(list, id, Len(list)) = Cardinality(Stay(list, id))
         /\ Cardinality(Stay(list, id)) \in 0..Len(list)
         /\ \A i \in 1..Len(list) :
               /\ Rank(list, id, i) \in Nat
               /\ Rank(list, id, i) =
                     Rank(list, id, i - 1) + IF i \in Stay(list, id) THEN 1 ELSE 0
  <1> DEFINE stay == Stay(list, id)
  <1>1. stay \subseteq 1..Len(list) /\ Len(list) \in Nat
    BY DEF Stay
  <1>2. IsFiniteSet(1..Len(list)) /\ Cardinality(1..Len(list)) = Len(list)
    <2> DEFINE n == Len(list)
    <2>1. n \in Nat
      BY <1>1
    <2> HIDE DEF n
    <2>2. IsFiniteSet(1..n) /\ Cardinality(1..n) = IF 1 > n THEN 0 ELSE n - 1 + 1
      BY <2>1, FS_Interval
    <2> QED BY <2>1, <2>2 DEF n
  <1>3. IsFiniteSet(stay) /\ Cardinality(stay) <= Len(list) /\ Cardinality(stay) \in Nat
    BY <1>1, <1>2, FS_Subset, FS_CardinalityType
  <1>4. Upto(list, id, 0) = {} /\ Upto(list, id, Len(list)) = stay
    BY <1>1 DEF Upto
  <1>5. ASSUME NEW i \in 1..Len(list)
        PROVE  /\ Rank(list, id, i) \in Nat
               /\ Rank(list, id, i) = Rank(list, id, i - 1) + IF i \in stay THEN 1 ELSE 0
    <2> DEFINE before == Upto(list, id, i - 1)
    <2>1. IsFiniteSet(before) /\ i \notin before /\ Cardinality(before) \in Nat
      BY <1>1, <1>3, FS_Subset, FS_CardinalityType DEF Upto
    <2>2. Upto(list, id, i) = IF i \in stay THEN before \cup {i} ELSE before
      BY <1>1 DEF Upto
    <2>3. Rank(list, id, i - 1) = Cardinality(before)
      BY DEF Rank
    <2> HIDE DEF before, stay
    <2>4. CASE i \in stay
      <3>1. Cardinality(before \cup {i}) = Cardinality(before) + 1
        BY <2>1, FS_AddElement
      <3> QED BY <2>1, <2>2, <2>3, <2>4, <3>1 DEF Rank
    <2>5. CASE i \notin stay
      BY <2>1, <2>2, <2>3, <2>5 DEF Rank
    <2> QED BY <2>4, <2>5
  <1>6. Rank(list, id, 0) = 0
    BY <1>4, FS_EmptySet DEF Rank
  <1>7. Rank(list, id, Len(list)) = Cardinality(stay) /\ Cardinality(stay) \in 0..Len(list)
    BY <1>1, <1>3, <1>4 DEF Rank
  <1> HIDE DEF stay
  <1> QED BY <1>5, <1>6, <1>7 DEF stay

LEMMA NthStays ==
  ASSUME NEW S, NEW list \in Seq(S), NEW id, NEW k \in 1..Cardinality(Stay(list, id))
  PROVE  \E i \in Stay(list, id) : Rank(list, id, i) = k
  <1> DEFINE T == {i \in 1..Len(list) : Rank(list, id, i) >= k}
  <1>1. /\ Len(list) \in Nat /\ Cardinality(Stay(list, id)) \in 0..Len(list)
        /\ Rank(list, id, 0) = 0 /\ Rank(list, id, Len(list)) = Cardinality(Stay(list, id))
        /\ \A i \in 1..Len(list) :
               /\ Rank(list, id, i) \in Nat
               /\ Rank(list, id, i) =
                     Rank(list, id, i - 1) + IF i \in Stay(list, id) THEN 1 ELSE 0
    BY RankSteps
  <1>2. Len(list) \in T
    BY <1>1
  <1>3. PICK i \in T : \A j \in T : i <= j
    <2>1. T \subseteq Nat /\ T # {}
      BY <1>2
    <2> HIDE DEF T
    <2> QED BY <2>1, Least
  <1>4. i - 1 \in 0..Len(list) /\ Rank(list, id, i - 1) < k /\ Rank(list, id, i - 1) \in Nat
    <2>1. CASE i = 1
      BY <1>1, <2>1
    <2>2. CASE i # 1
      <3>1. i - 1 \in 1..Len(list) /\ i - 1 \notin T
        BY <1>3, <2>2
      <3> QED BY <1>1, <3>1
    <2> QED BY <2>1, <2>2
  <1>5. i \in Stay(list, id) /\ Rank(list, id, i) = k
    BY <1>1, <1>3, <1>4
  <1> QED BY <1>5

LEMMA WithoutIsStay ==
  ASSUME NEW S, NEW list \in Seq(S), NEW id
  PROVE  /\ Without(list, id) \in Seq(S)
         /\ Len(Without(list, id)) = Cardinality(Stay(list, id))
         /\ Cardinality(Stay(list, id)) \in 0..Len(list)
         /\ \A k \in 1..Cardinality(Stay(list, id)) :
               \E i \in Stay(list, id) : Rank(list, id, i) = k /\ Without(list, id)[k] = list[i]
  <1> DEFINE n == Cardinality(Stay(list, id))
             nth(k) == CHOOSE i \in Stay(list, id) : Cardinality({j \in Stay(list, id) : j <= i}) = k
  <1>1. n \in 0..Len(list)
    BY RankSteps
  <1>2. ASSUME NEW k \in 1..n
        PROVE  nth(k) \in Stay(list, id) /\ Rank(list, id, nth(k)) = k
    <2>1. \E i \in Stay(list, id) : Cardinality({j \in Stay(list, id) : j <= i}) = k
      BY NthStays DEF Rank, Upto
    <2> QED BY <2>1 DEF Rank, Upto
  <1>3. Without(list, id) = [k \in 1..n |-> list[nth(k)]]
    BY DEF Without
  <1>4. Stay(list, id) \subseteq 1..Len(list)
    BY DEF Stay
  <1> HIDE DEF n, nth
  <1>5. \A k \in 1..n : list[nth(k)] \in S
    BY <1>2, <1>4
  <1>6. Without(list, id) \in Seq(S) /\ Len(Without(list, id)) = n
    BY <1>1, <1>3, <1>5
  <1> QED BY <1>1, <1>2, <1>3, <1>6 DEF n

\* Whatever the number, what is left was there before.
LEMMA ErasedFrom ==
  ASSUME NEW S, NEW list \in Seq(S), NEW id
  PROVE  /\ Erased(list, id) \in Seq(S)
         /\ \A k \in DOMAIN Erased(list, id) : \E i \in DOMAIN list : Erased(list, id)[k] = list[i]
  <1> DEFINE kept == Without(list, id)
             rest == SubSeq(list, Len(kept) + 2, Len(list))
  <1>1. /\ kept \in Seq(S) /\ Len(kept) \in 0..Len(list)
        /\ \A k \in 1..Len(kept) : \E i \in DOMAIN list : kept[k] = list[i]
    <2>1. /\ kept \in Seq(S) /\ Len(kept) = Cardinality(Stay(list, id)) /\ Len(kept) \in 0..Len(list)
          /\ \A k \in 1..Len(kept) : \E i \in Stay(list, id) : kept[k] = list[i]
      BY WithoutIsStay
    <2>2. Stay(list, id) \subseteq DOMAIN list
      BY DEF Stay
    <2> HIDE DEF kept
    <2> QED BY <2>1, <2>2
  <1>2. CASE Len(kept) = Len(list)
    BY <1>2 DEF Erased
  <1>3. CASE Len(kept) # Len(list)
    <2>1. Erased(list, id) = kept \o rest
      BY <1>3 DEF Erased
    <2>2. \A i \in Len(kept) + 2..Len(list) : list[i] \in S /\ i \in DOMAIN list
      BY <1>1
    <2>3. /\ rest \in Seq(S) /\ Len(rest) = Len(list) - Len(kept) - 1
          /\ \A i \in 1..Len(rest) : rest[i] = list[Len(kept) + 1 + i]
      <3> DEFINE m == Len(kept) + 2
                 n == Len(list)
      <3>1. m \in Int /\ n \in Int /\ m <= n + 1
        BY <1>1, <1>3
      <3> HIDE DEF kept, m, n
      <3> QED BY <2>2, <3>1, SubSeqProperties DEF m, n
    <2> HIDE DEF kept, rest
    <2>4. /\ kept \o rest \in Seq(S) /\ Len(kept \o rest) = Len(kept) + Len(rest)
          /\ \A i \in 1..Len(kept) + Len(rest) :
                (kept \o rest)[i] = IF i <= Len(kept) THEN kept[i] ELSE rest[i - Len(kept)]
      BY <1>1, <2>3, ConcatProperties
    <2>5. ASSUME NEW k \in 1..Len(kept) + Len(rest)
          PROVE  \E i \in DOMAIN list : (kept \o rest)[k] = list[i]
      <3>1. CASE k <= Len(kept)
        BY <1>1, <2>4, <3>1
      <3>2. CASE k > Len(kept)
        <4>1. k - Len(kept) \in 1..Len(rest) /\ k + 1 \in DOMAIN list
          BY <1>1, <2>3, <3>2
        <4>2. (kept \o rest)[k] = rest[k - Len(kept)]
          BY <1>1, <2>4, <3>2
        <4>3. Len(kept) + 1 + (k - Len(kept)) = k + 1
          BY <1>1
        <4> QED BY <2>3, <4>1, <4>2, <4>3
      <3> QED BY <1>1, <3>1, <3>2
    <2>6. \A k \in DOMAIN (kept \o rest) : \E i \in DOMAIN list : (kept \o rest)[k] = list[i]
      <3>1. PICK c \in Seq(S) : c = kept \o rest
        BY <2>4
      <3>2. DOMAIN c = 1..Len(kept) + Len(rest)
        BY <2>4, <3>1
      <3> QED BY <2>5, <3>1, <3>2
    <2> QED BY <2>1, <2>4, <2>6
  <1> QED BY <1>2, <1>3

LEMMA Interval ==
  ASSUME NEW n \in Nat
  PROVE  /\ IsFiniteSet(1..n) /\ Cardinality(1..n) = n
         /\ \A m \in 1..n : Cardinality((1..n) \ {m}) = n - 1
  <1>1. IsFiniteSet(1..n) /\ Cardinality(1..n) = IF 1 > n THEN 0 ELSE n - 1 + 1
    BY FS_Interval
  <1>2. IsFiniteSet(1..n) /\ Cardinality(1..n) = n
    BY <1>1
  <1>3. ASSUME NEW m \in 1..n
        PROVE  Cardinality((1..n) \ {m}) = n - 1
    BY <1>2, FS_RemoveElement
  <1> QED BY <1>2, <1>3

\* A number that only the m-th element has takes just that one.
LEMMA ErasedOne ==
  ASSUME NEW S, NEW list \in Seq(S), NEW m \in DOMAIN list,
         \A i \in DOMAIN list \ {m} : list[i].id # list[m].id
  PROVE  LET e == Erased(list, list[m].id)
         IN  /\ e \in Seq(S) /\ Len(e) = Len(list) - 1
             /\ \A k \in 1..Len(e) : e[k] = IF k < m THEN list[k] ELSE list[k + 1]
  <1> DEFINE id == list[m].id
             n == Len(list)
             kept == Without(list, id)
  <1>1. n \in Nat /\ m \in 1..n /\ Stay(list, id) = (1..n) \ {m}
    BY DEF Stay
  <1>2. Cardinality(Stay(list, id)) = n - 1
    BY <1>1, Interval
  <1>3. /\ kept \in Seq(S) /\ Len(kept) = n - 1
        /\ \A k \in 1..n - 1 : \E i \in Stay(list, id) : Rank(list, id, i) = k /\ kept[k] = list[i]
    BY <1>2, WithoutIsStay
  <1>4. ASSUME NEW i \in Stay(list, id)
        PROVE  Rank(list, id, i) = IF i < m THEN i ELSE i - 1
    <2>1. i \in Nat /\ i # m /\ i \in 1..n
      BY <1>1
    <2>2. CASE i < m
      <3>1. Upto(list, id, i) = 1..i
        BY <1>1, <2>2 DEF Upto
      <3> QED BY <2>1, <2>2, <3>1, Interval DEF Rank
    <2>3. CASE i > m
      <3>1. Upto(list, id, i) = (1..i) \ {m} /\ m \in 1..i
        BY <1>1, <2>3 DEF Upto
      <3>2. Cardinality((1..i) \ {m}) = i - 1
        BY <2>1, <3>1, Interval
      <3> QED BY <1>1, <2>1, <2>3, <3>1, <3>2 DEF Rank
    <2> QED BY <1>1, <2>1, <2>2, <2>3
  <1>5. ASSUME NEW k \in 1..n - 1
        PROVE  kept[k] = IF k < m THEN list[k] ELSE list[k + 1]
    <2>1. PICK i \in Stay(list, id) : Rank(list, id, i) = k /\ kept[k] = list[i]
      BY <1>3
    <2>2. i = IF k < m THEN k ELSE k + 1
      BY <1>1, <1>4, <2>1
    <2> QED BY <2>1, <2>2
  <1>6. Erased(list, id) = kept
    <2>1. Erased(list, id) = kept \o SubSeq(list, n + 1, n)
      BY <1>1, <1>3 DEF Erased
    <2>2. SubSeq(list, n + 1, n) = <<>>
      BY <1>1, SubSeqEmpty
    <2> HIDE DEF kept, n
    <2> QED BY <1>3, <2>1, <2>2, ConcatEmptySeq
  <1> HIDE DEF kept
  <1> QED BY <1>3, <1>5, <1>6

\* Without its m-th element a list is e: the others are all there, each in a place of its own.
LessOne(list, m, e) ==
    /\ \A i \in DOMAIN list \ {m} : \E k \in DOMAIN e : e[k] = list[i]
    /\ \A k \in DOMAIN e : \E i \in DOMAIN list \ {m} : e[k] = list[i]
    /\ \A k, l \in DOMAIN e : k # l =>
          \E i, j \in DOMAIN list \ {m} : i # j /\ e[k] = list[i] /\ e[l] = list[j]

LEMMA ErasedOthers ==
  ASSUME NEW S, NEW list \in Seq(S), NEW m \in DOMAIN list,
         \A i \in DOMAIN list \ {m} : list[i].id # list[m].id,
         NEW e, e = Erased(list, list[m].id)
  PROVE  LessOne(list, m, e)
  <1> DEFINE n == Len(list)
             From(k) == IF k < m THEN k ELSE k + 1
  <1>1. /\ e \in Seq(S) /\ Len(e) = n - 1
        /\ \A k \in 1..Len(e) : e[k] = IF k < m THEN list[k] ELSE list[k + 1]
    BY ErasedOne
  <1>2. n \in Nat /\ DOMAIN list = 1..n /\ m \in 1..n
    OBVIOUS
  <1> HIDE DEF n
  <1>3. DOMAIN e = 1..n - 1
    BY <1>1, <1>2
  <1>4. \A k \in 1..n - 1 : From(k) \in (1..n) \ {m} /\ e[k] = list[From(k)]
    BY <1>1, <1>2
  <1>5. \A k, l \in 1..n - 1 : k # l => From(k) # From(l)
    BY <1>2
  <1>6. ASSUME NEW i \in (1..n) \ {m}
        PROVE  \E k \in 1..n - 1 : e[k] = list[i]
    <2>1. CASE i < m
      BY <1>1, <1>2, <2>1
    <2>2. CASE i > m
      <3>1. i - 1 \in 1..n - 1 /\ ~(i - 1 < m) /\ i - 1 + 1 = i
        BY <1>2, <2>2
      <3> QED BY <1>1, <3>1
    <2> QED BY <1>2, <2>1, <2>2
  <1> HIDE DEF From
  <1>7. ASSUME NEW k \in DOMAIN e, NEW l \in DOMAIN e, k # l
        PROVE  \E i, j \in DOMAIN list \ {m} : i # j /\ e[k] = list[i] /\ e[l] = list[j]
    BY <1>2, <1>3, <1>4, <1>5, <1>7
  <1>8. \A i \in DOMAIN list \ {m} : \E k \in DOMAIN e : e[k] = list[i]
    BY <1>2, <1>3, <1>6
  <1>9. \A k \in DOMAIN e : \E i \in DOMAIN list \ {m} : e[k] = list[i]
    BY <1>2, <1>3, <1>4
  <1> QED BY <1>7, <1>8, <1>9 DEF LessOne

-----------------------------------------------------------------------------
(* Types, and where every observer belongs *)

LEMMA IdleThread == Idle \in Thread /\ Idle.at = "idle"
  BY InitialAssumption DEF Idle, Thread, Steps

LEMMA AssigningThread ==
  ASSUME NEW p \in Publishers, NEW r, r = [Idle EXCEPT !.at = "hook", !.p = p]
  PROVE  r \in Thread /\ r.at = "hook" /\ r.p = p
  BY IdleThread DEF Thread, Steps

LEMMA InitBase == Init => Base
  <1> SUFFICES ASSUME Init
               PROVE  Base
    OBVIOUS
  <1>1. Idle \in Thread /\ Idle.at = "idle" /\ <<>> \in Seq(Delegate) /\ DOMAIN <<>> = {}
    <2>1. <<>> \in Seq(Delegate) /\ DOMAIN <<>> = {}
      OBVIOUS
    <2> QED BY <2>1, IdleThread
  <1>2. TypesHold
    BY <1>1, InitialAssumption DEF Init, TypesHold
  <1>3. UnderWay
    BY <1>1 DEF Init, UnderWay, At, Adding
  <1> QED BY <1>2, <1>3 DEF Base

\* A step of one thread that leaves the lists alone.
LEMMA ThreadBase ==
  ASSUME Base, TypesHold', NEW t \in Threads, NEW r \in Thread,
         UNCHANGED <<place, given, delegates>>, thread' = [thread EXCEPT ![t] = r],
         r.at # "idle" => r.p \in Publishers,
         r.at \in {"increment", "emplace", "return"} =>
             r.observer \in Observers /\ place[r.observer] = r.p,
         r.at = "call" => \A i \in DOMAIN r.todo : place[r.todo[i].observer] = r.p
  PROVE  Base'
  <1>1. thread'[t] = r /\ \A u \in Threads \ {t} : thread'[u] = thread[u]
    BY DEF Base, TypesHold
  <1>2. UnderWay'
    BY <1>1 DEF Base, UnderWay, At, Adding
  <1> QED BY <1>2 DEF Base

LEMMA NextBase == Base /\ [Next]_vars => Base'
  <1> SUFFICES ASSUME Base, [Next]_vars
               PROVE  Base'
    OBVIOUS
  <1> USE DEF registry, history
  <1>1. TypesHold /\ UnderWay
    BY DEF Base
  <1>2. \A t \in Threads : thread[t] \in Thread
    BY <1>1 DEF TypesHold
  <1>3. ASSUME NEW t \in Threads, NEW o \in Observers, NEW p \in Publishers, addObserver(t, o, p)
        PROVE  Base'
    <2>1. PICK r : r = [Idle EXCEPT !.at = "increment", !.p = p, !.id = current_id, !.observer = o]
      OBVIOUS
    <2>2. r \in Thread /\ r.at = "increment" /\ r.p = p /\ r.observer = o
      <3>1. current_id \in Nat
        BY <1>1 DEF TypesHold
      <3> QED BY <2>1, <3>1, IdleThread DEF Thread, Steps
    <2>3. thread' = [thread EXCEPT ![t] = r] /\ place[o] = Nobody /\ place' = [place EXCEPT ![o] = p]
      BY <1>3, <2>1 DEF addObserver, Local
    <2>4. TypesHold'
      BY <1>1, <1>3, <2>2, <2>3 DEF TypesHold, addObserver
    <2>5. /\ thread'[t] = r /\ \A u \in Threads \ {t} : thread'[u] = thread[u]
          /\ place'[o] = p /\ \A q \in Observers \ {o} : place'[q] = place[q]
      BY <1>1, <2>3 DEF TypesHold
    <2>6. /\ \A q \in Publishers : \A i \in DOMAIN delegates[q] :
                delegates[q][i].observer \in Observers \ {o}
          /\ \A u \in Threads : At(u, "call") =>
                \A i \in DOMAIN thread[u].todo : thread[u].todo[i].observer \in Observers \ {o}
      <3>1. \A q \in Publishers : delegates[q] \in Seq(Delegate)
        BY <1>1 DEF TypesHold
      <3>2. \A u \in Threads : thread[u].todo \in Seq(Delegate)
        BY <1>2 DEF Thread
      <3>3. \A u \in Threads : At(u, "call") => thread[u].p \in Publishers
        BY <1>1 DEF UnderWay, At
      <3>4. \A list \in Seq(Delegate) : \A i \in DOMAIN list : list[i].observer \in Observers
        <4>1. \A list \in Seq(Delegate) : \A i \in DOMAIN list : list[i] \in Delegate
          BY ElementOfSeq
        <4> QED BY <4>1 DEF Delegate
      <3> QED BY <1>1, <2>3, <3>1, <3>2, <3>3, <3>4, NobodyAssumption DEF UnderWay
    <2>7. UnderWay'
      BY <1>1, <1>3, <2>2, <2>3, <2>5, <2>6, NobodyAssumption
         DEF UnderWay, At, Adding, addObserver
    <2> QED BY <2>4, <2>7 DEF Base
  <1>4. ASSUME NEW t \in Threads, Increment(t)
        PROVE  Base'
    <2> DEFINE r == [thread[t] EXCEPT !.at = "emplace", !.id = @ + 1]
    <2>1. /\ r \in Thread /\ r.at = "emplace" /\ r.p = thread[t].p /\ r.observer = thread[t].observer
          /\ thread[t].id \in Nat
      <3>1. thread[t].id \in Nat /\ thread[t].id + 1 \in Nat
        BY <1>2 DEF Thread
      <3> QED BY <1>2, <3>1 DEF Thread, Steps
    <2>2. thread' = [thread EXCEPT ![t] = r] /\ At(t, "increment")
      BY <1>4 DEF Increment, Local
    <2> HIDE DEF r
    <2>3. TypesHold'
      BY <1>1, <1>4, <2>1, <2>2 DEF TypesHold, Increment
    <2> QED BY <1>1, <1>4, <2>1, <2>2, <2>3, ThreadBase DEF Increment, UnderWay, Adding, At
  <1>5. ASSUME NEW t \in Threads, Return(t)
        PROVE  Base'
    <2>1. PICK id \in {thread[t].id, current_id} :
              given' = [given EXCEPT ![thread[t].observer] = id]
      BY <1>5 DEF Return, Returned
    <2>2. /\ id \in Nat /\ Idle \in Thread /\ Idle.at = "idle"
      BY <1>1, <1>2, InitialAssumption DEF Thread, TypesHold, Idle, Steps
    <2>3. /\ thread[t].observer \in Observers /\ place[thread[t].observer] = thread[t].p
          /\ thread[t].p \in Publishers
      BY <1>1, <1>5 DEF UnderWay, Return, Adding, At
    <2>4. TypesHold'
      BY <1>1, <1>5, <2>1, <2>2, <2>3 DEF TypesHold, Return, Local
    <2>5. thread'[t] = Idle /\ \A u \in Threads \ {t} : thread'[u] = thread[u]
      BY <1>1, <1>5 DEF TypesHold, Return, Local
    <2>6. UnderWay'
      <3>1. \A o \in Observers : given'[o] # 0 => given[o] # 0 \/ o = thread[t].observer
        BY <1>1, <2>1 DEF TypesHold
      <3>2. UNCHANGED <<place, delegates>>
        BY <1>5 DEF Return
      <3> QED BY <1>1, <2>2, <2>3, <2>5, <3>1, <3>2 DEF UnderWay, At, Adding
    <2> QED BY <2>4, <2>6 DEF Base
  <1>6. ASSUME NEW t \in Threads, Emplace(t)
        PROVE  Base'
    <2> DEFINE r == [thread[t] EXCEPT !.at = "return"]
               p == thread[t].p
               o == thread[t].observer
    <2>1. r \in Thread /\ r.at = "return" /\ r.p = p /\ r.observer = o
      BY <1>2 DEF Thread, Steps
    <2>2. p \in Publishers /\ o \in Observers /\ place[o] = p
      BY <1>1, <1>6 DEF UnderWay, Emplace, Adding, At
    <2>3. /\ thread' = [thread EXCEPT ![t] = r] /\ seen' = [seen EXCEPT ![o] = state[p]]
          /\ UNCHANGED <<state, current_id, lock, given, place, history>>
      BY <1>6 DEF Emplace, Local
    <2>4. PICK id \in {thread[t].id, current_id} :
              delegates' = [delegates EXCEPT ![p] = Append(@, [id |-> id, observer |-> o])]
      BY <1>6 DEF Emplace
    <2> DEFINE d == [id |-> id, observer |-> o]
    <2>5. d \in Delegate /\ d.observer = o
      BY <1>1, <1>2, <2>2 DEF Delegate, Thread, TypesHold
    <2> HIDE DEF r, d, p, o
    <2>6. /\ delegates[p] \in Seq(Delegate) /\ Append(delegates[p], d) \in Seq(Delegate)
          /\ \A i \in DOMAIN Append(delegates[p], d) :
                \/ i \in DOMAIN delegates[p] /\ Append(delegates[p], d)[i] = delegates[p][i]
                \/ Append(delegates[p], d)[i] = d
      BY <1>1, <2>2, <2>5, AppendProperties DEF TypesHold
    <2>7. /\ delegates'[p] = Append(delegates[p], d)
          /\ \A q \in Publishers \ {p} : delegates'[q] = delegates[q]
      BY <1>1, <2>2, <2>4 DEF TypesHold, d
    <2>8. TypesHold'
      <3>1. delegates' \in [Publishers -> Seq(Delegate)]
        BY <1>1, <2>4, <2>6 DEF TypesHold, d
      <3> QED BY <1>1, <2>1, <2>2, <2>3, <3>1 DEF TypesHold
    <2>9. thread'[t] = r /\ \A u \in Threads \ {t} : thread'[u] = thread[u]
      BY <1>1, <2>3 DEF TypesHold
    <2>10. \A q \in Publishers : \A i \in DOMAIN delegates'[q] :
               place[delegates'[q][i].observer] = q
      <3>1. \A i \in DOMAIN delegates'[p] : place[delegates'[p][i].observer] = p
        BY <1>1, <2>2, <2>5, <2>6, <2>7 DEF UnderWay
      <3>2. \A q \in Publishers \ {p} : \A i \in DOMAIN delegates'[q] :
                place[delegates'[q][i].observer] = q
        BY <1>1, <2>7 DEF UnderWay
      <3> QED BY <3>1, <3>2
    <2>11. \A u \in Threads : At(u, "call")' => thread'[u] = thread[u] /\ At(u, "call")
      BY <2>1, <2>9 DEF At
    <2>12. UnderWay'
      BY <1>1, <2>1, <2>2, <2>3, <2>9, <2>10, <2>11 DEF UnderWay, At, Adding
    <2> QED BY <2>8, <2>12 DEF Base
  <1>7. ASSUME NEW t \in Threads, NEW o \in Observers, removeObserver(t, o)
        PROVE  Base'
    <2> DEFINE p == place[o]
               e == Erased(delegates[p], given[o])
    <2>1. /\ p \in Publishers /\ delegates[p] \in Seq(Delegate)
          /\ delegates' = [delegates EXCEPT ![p] = e] /\ given' = [given EXCEPT ![o] = 0]
          /\ UNCHANGED <<state, current_id, lock, thread, place, seen, history>>
      BY <1>1, <1>7 DEF removeObserver, UnderWay, TypesHold
    <2>2. e \in Seq(Delegate) /\ \A k \in DOMAIN e : \E i \in DOMAIN delegates[p] : e[k] = delegates[p][i]
      BY <2>1, ErasedFrom
    <2> HIDE DEF e, p
    <2>3. delegates'[p] = e /\ \A q \in Publishers \ {p} : delegates'[q] = delegates[q]
      BY <1>1, <2>1 DEF TypesHold
    <2>4. TypesHold'
      BY <1>1, <2>1, <2>2 DEF TypesHold
    <2>5. UnderWay'
      BY <1>1, <2>1, <2>2, <2>3 DEF UnderWay, At, Adding, TypesHold
    <2> QED BY <2>4, <2>5 DEF Base
  <1>8. ASSUME NEW t \in Threads, NEW p \in Publishers, NEW value \in Values, Assign(t, p, value)
        PROVE  Base'
    <2> DEFINE r == [Idle EXCEPT !.at = "hook", !.p = p]
    <2>1. r \in Thread /\ r.at = "hook" /\ r.p = p
      BY AssigningThread
    <2>2. thread' = [thread EXCEPT ![t] = r]
      BY <1>8 DEF Assign, Local
    <2> HIDE DEF r
    <2>3. TypesHold'
      BY <1>1, <1>8, <2>1, <2>2 DEF TypesHold, Assign
    <2> QED BY <1>1, <1>8, <2>1, <2>2, <2>3, ThreadBase DEF Assign
  <1>9. ASSUME NEW t \in Threads, Hook(t)
        PROVE  Base'
    <2> DEFINE r == [thread[t] EXCEPT !.at = "notify", !.value = state[thread[t].p]]
    <2>1. thread[t].p \in Publishers
      BY <1>1, <1>9 DEF Hook, UnderWay, At
    <2>2. r \in Thread /\ r.at = "notify" /\ r.p = thread[t].p
      BY <1>1, <1>2, <2>1 DEF Thread, Steps, TypesHold
    <2>3. thread' = [thread EXCEPT ![t] = r]
      BY <1>9 DEF Hook, Local
    <2> HIDE DEF r
    <2>4. TypesHold'
      BY <1>1, <1>9, <2>2, <2>3 DEF TypesHold, Hook
    <2> QED BY <1>1, <1>9, <2>1, <2>2, <2>3, <2>4, ThreadBase DEF Hook
  <1>10. ASSUME NEW t \in Threads, notify(t)
         PROVE  Base'
    <2> DEFINE r == [thread[t] EXCEPT !.at = "call", !.todo = delegates[thread[t].p]]
    <2>1. thread[t].p \in Publishers
      BY <1>1, <1>10 DEF notify, UnderWay, At
    <2>2. r \in Thread /\ r.at = "call" /\ r.p = thread[t].p /\ r.todo = delegates[thread[t].p]
      BY <1>1, <1>2, <2>1 DEF Thread, Steps, TypesHold
    <2>3. thread' = [thread EXCEPT ![t] = r]
      BY <1>10 DEF notify, Local, getDelegatesCopy
    <2> HIDE DEF r
    <2>4. TypesHold'
      BY <1>1, <1>10, <2>2, <2>3 DEF TypesHold, notify
    <2> QED BY <1>1, <1>10, <2>1, <2>2, <2>3, <2>4, ThreadBase DEF notify, UnderWay
  <1>11. ASSUME NEW t \in Threads, dispatch(t)
         PROVE  Base'
    <2> DEFINE r == IF thread[t].todo = <<>> THEN Idle ELSE [thread[t] EXCEPT !.todo = Tail(@)]
    <2>1. thread[t].p \in Publishers /\ thread[t].at = "call" /\ thread[t].todo \in Seq(Delegate)
      BY <1>1, <1>2, <1>11 DEF dispatch, UnderWay, At, Thread
    <2>2. CASE thread[t].todo = <<>>
      <3>1. Idle \in Thread /\ Idle.at = "idle"
        BY InitialAssumption DEF Idle, Thread, Steps
      <3>2. thread' = [thread EXCEPT ![t] = Idle]
        BY <1>11, <2>2 DEF dispatch, Local
      <3>3. TypesHold'
        BY <1>1, <1>11, <2>2, <3>1, <3>2 DEF dispatch, TypesHold
      <3> QED BY <1>1, <1>11, <3>1, <3>2, <3>3, ThreadBase DEF dispatch
    <2>3. CASE thread[t].todo # <<>>
      <3> DEFINE s == [thread[t] EXCEPT !.todo = Tail(@)]
                 d == Head(thread[t].todo)
      <3>1. /\ d \in Delegate /\ Tail(thread[t].todo) \in Seq(Delegate)
            /\ Len(Tail(thread[t].todo)) = Len(thread[t].todo) - 1
            /\ \A i \in 1..Len(Tail(thread[t].todo)) : Tail(thread[t].todo)[i] = thread[t].todo[i + 1]
        BY <2>1, <2>3, HeadTailProperties
      <3>2. s \in Thread /\ s.at = "call" /\ s.p = thread[t].p /\ s.todo = Tail(thread[t].todo)
        BY <1>2, <2>1, <3>1 DEF Thread
      <3>3. /\ thread' = [thread EXCEPT ![t] = s]
            /\ seen' = [seen EXCEPT ![d.observer] = thread[t].value]
        BY <1>11, <2>3 DEF dispatch, Local
      <3> HIDE DEF s
      <3>4. TypesHold'
        <4>1. thread[t].value \in Values
          BY <1>2 DEF Thread
        <4> QED BY <1>1, <1>11, <3>2, <3>3, <4>1 DEF dispatch, TypesHold
      <3>5. \A i \in DOMAIN s.todo : place[s.todo[i].observer] = s.p
        <4> SUFFICES ASSUME NEW i \in DOMAIN Tail(thread[t].todo)
                     PROVE  i + 1 \in DOMAIN thread[t].todo
          BY <1>1, <2>1, <3>1, <3>2 DEF UnderWay, At
        <4> QED BY <2>1, <3>1
      <3> QED BY <1>1, <1>11, <2>1, <3>2, <3>3, <3>4, <3>5, ThreadBase DEF dispatch
    <2> QED BY <2>2, <2>3
  <1>12. CASE UNCHANGED vars
    BY <1>1, <1>12 DEF vars, Base, TypesHold, UnderWay, At, Adding
  <1> QED BY <1>3, <1>4, <1>5, <1>6, <1>7, <1>8, <1>9, <1>10, <1>11, <1>12 DEF Next

-----------------------------------------------------------------------------
(* Who knows a state *)

\* A thread that assigns still has to call o.
ToTell(t, o) ==
    At(t, "call") => \E j \in DOMAIN thread[t].todo : thread[t].todo[j].observer = o

Knows(p) ==
    /\ \A t, u \in Threads : Assigning(t, p) /\ Assigning(u, p) => t = u
    /\ \A t \in Threads : Assigning(t, p) /\ ~At(t, "hook") => thread[t].value = state[p]
    /\ \A i \in DOMAIN delegates[p] :
          LET o == delegates[p][i].observer
          IN  \/ seen[o] = state[p]
              \/ \E t \in Threads : Assigning(t, p) /\ ToTell(t, o)

AllKnow == \A p \in Publishers \ overlapped : Knows(p)

\* An assigning thread stays as it is, or is another publisher's.
LEMMA KnowsKept ==
  ASSUME Base, NEW p \in Publishers, Knows(p), state'[p] = state[p],
         \A t \in Threads : thread'[t] = thread[t] \/ (~Assigning(t, p) /\ ~Assigning(t, p)'),
         \A k \in DOMAIN delegates'[p] :
            \/ /\ \E i \in DOMAIN delegates[p] : delegates'[p][k] = delegates[p][i]
               /\ seen'[delegates'[p][k].observer] = seen[delegates'[p][k].observer]
            \/ seen'[delegates'[p][k].observer] = state[p]
  PROVE  Knows(p)'
  <1>1. /\ \A t \in Threads : Assigning(t, p)' => Assigning(t, p) /\ thread'[t] = thread[t]
        /\ \A t \in Threads : Assigning(t, p) => Assigning(t, p)' /\ thread'[t] = thread[t]
    BY DEF Assigning
  <1>2. \A t, u \in Threads : Assigning(t, p)' /\ Assigning(u, p)' => t = u
    BY <1>1 DEF Knows
  <1>3. \A t \in Threads : Assigning(t, p)' /\ ~At(t, "hook")' => thread'[t].value = state'[p]
    BY <1>1 DEF Knows, At
  <1>4. ASSUME NEW k \in DOMAIN delegates'[p], NEW o, o = delegates'[p][k].observer,
               seen'[o] # state'[p]
        PROVE  \E t \in Threads : Assigning(t, p)' /\ ToTell(t, o)'
    <2>1. PICK i \in DOMAIN delegates[p] : delegates[p][i].observer = o /\ seen[o] # state[p]
      BY <1>4
    <2>2. PICK t \in Threads : Assigning(t, p) /\ ToTell(t, o)
      BY <2>1 DEF Knows
    <2> QED BY <1>1, <2>2 DEF ToTell, At
  <1> QED BY <1>2, <1>3, <1>4 DEF Knows

LEMMA ListOf ==
  ASSUME Base, NEW p \in Publishers, NEW i \in DOMAIN delegates[p]
  PROVE  /\ delegates[p] \in Seq(Delegate) /\ delegates[p][i].observer \in Observers
         /\ place[delegates[p][i].observer] = p
  <1>1. delegates[p] \in Seq(Delegate)
    BY DEF Base, TypesHold
  <1>2. delegates[p][i] \in Delegate
    BY <1>1, ElementOfSeq
  <1> QED BY <1>1, <1>2 DEF Base, UnderWay, Delegate

LEMMA NextKnows == Base /\ AllKnow /\ [Next]_vars => AllKnow'
  <1> SUFFICES ASSUME Base, AllKnow, [Next]_vars
               PROVE  AllKnow'
    OBVIOUS
  <1> USE DEF registry, history
  <1>1. TypesHold /\ UnderWay
    BY DEF Base
  <1>2. \A t \in Threads : thread[t] \in Thread
    BY <1>1 DEF TypesHold
  <1>3. ASSUME NEW t \in Threads, NEW r, thread' = [thread EXCEPT ![t] = r],
               thread[t].at \in {"idle", "increment", "emplace", "return"},
               r.at \in {"idle", "increment", "emplace", "return"},
               UNCHANGED <<state, delegates, seen, overlapped>>
        PROVE  AllKnow'
    <2> SUFFICES ASSUME NEW p \in Publishers \ overlapped
                 PROVE  Knows(p)'
      BY <1>3 DEF AllKnow
    <2>1. \A u \in Threads : thread'[u] = thread[u] \/ (~Assigning(u, p) /\ ~Assigning(u, p)')
      BY <1>1, <1>3 DEF TypesHold, Assigning
    <2> QED BY <1>3, <2>1, KnowsKept DEF AllKnow
  <1>4. ASSUME NEW t \in Threads, NEW o \in Observers, NEW p \in Publishers, addObserver(t, o, p)
        PROVE  AllKnow'
    <2>1. [Idle EXCEPT !.at = "increment", !.p = p, !.id = current_id, !.observer = o].at = "increment"
      BY DEF Idle
    <2> QED BY <1>3, <1>4, <2>1 DEF addObserver, Local, At
  <1>5. ASSUME NEW t \in Threads, Increment(t)
        PROVE  AllKnow'
    <2>1. [thread[t] EXCEPT !.at = "emplace", !.id = @ + 1].at = "emplace"
      BY <1>2 DEF Thread
    <2> QED BY <1>3, <1>5, <2>1 DEF Increment, Local, At
  <1>6. ASSUME NEW t \in Threads, Return(t)
        PROVE  AllKnow'
    BY <1>3, <1>6, IdleThread DEF Return, Local, At
  <1>7. ASSUME NEW t \in Threads, Emplace(t)
        PROVE  AllKnow'
    <2> SUFFICES ASSUME NEW p \in Publishers \ overlapped
                 PROVE  Knows(p)'
      BY <1>7 DEF AllKnow, Emplace
    <2> DEFINE q == thread[t].p
               o == thread[t].observer
    <2>1. q \in Publishers /\ o \in Observers /\ place[o] = q /\ delegates[q] \in Seq(Delegate)
      BY <1>1, <1>7 DEF UnderWay, Emplace, Adding, At, TypesHold
    <2>2. PICK id \in Nat :
              delegates' = [delegates EXCEPT ![q] = Append(@, [id |-> id, observer |-> o])]
      <3>1. thread[t].id \in Nat /\ current_id \in Nat
        BY <1>1, <1>2 DEF TypesHold, Thread
      <3> QED BY <1>7, <3>1 DEF Emplace
    <2> DEFINE d == [id |-> id, observer |-> o]
    <2>3. seen' = [seen EXCEPT ![o] = state[q]] /\ UNCHANGED state
      BY <1>7 DEF Emplace
    <2>4. \A u \in Threads : thread'[u] = thread[u] \/ (~Assigning(u, p) /\ ~Assigning(u, p)')
      BY <1>1, <1>2, <1>7 DEF TypesHold, Thread, Assigning, Emplace, Local, At
    <2>5. ASSUME NEW k \in DOMAIN delegates'[p]
          PROVE  \/ /\ \E i \in DOMAIN delegates[p] : delegates'[p][k] = delegates[p][i]
                    /\ seen'[delegates'[p][k].observer] = seen[delegates'[p][k].observer]
                 \/ seen'[delegates'[p][k].observer] = state[p]
      <3>1. CASE p # q
        <4>1. delegates'[p] = delegates[p]
          BY <1>1, <2>2, <3>1 DEF TypesHold
        <4>2. delegates[p][k].observer \in Observers \ {o}
          BY <2>1, <3>1, <4>1, ListOf
        <4> QED BY <1>1, <2>3, <4>1, <4>2 DEF TypesHold
      <3>2. CASE p = q
        <4>1. delegates'[p] = Append(delegates[p], d)
          BY <1>1, <2>2, <3>2 DEF TypesHold
        <4>2. d \in Delegate /\ d.observer = o
          BY <2>1 DEF Delegate
        <4> HIDE DEF d
        <4>3. (k \in DOMAIN delegates[p] /\ delegates'[p][k] = delegates[p][k]) \/ delegates'[p][k] = d
          BY <2>1, <3>2, <4>1, <4>2
        <4>4. seen'[o] = state[p]
          BY <1>1, <2>1, <2>3, <3>2 DEF TypesHold
        <4>5. CASE k \in DOMAIN delegates[p] /\ delegates'[p][k] = delegates[p][k]
          <5>1. delegates[p][k].observer \in Observers
            BY <4>5, ListOf
          <5> QED BY <1>1, <2>3, <4>4, <4>5, <5>1 DEF TypesHold
        <4> QED BY <4>2, <4>3, <4>4, <4>5
      <3> QED BY <3>1, <3>2
    <2> QED BY <2>3, <2>4, <2>5, KnowsKept DEF AllKnow
  <1>8. ASSUME NEW t \in Threads, NEW o \in Observers, removeObserver(t, o)
        PROVE  AllKnow'
    <2> SUFFICES ASSUME NEW p \in Publishers \ overlapped
                 PROVE  Knows(p)'
      BY <1>8 DEF AllKnow, removeObserver
    <2>1. UNCHANGED <<state, thread, seen>>
      BY <1>8 DEF removeObserver
    <2>2. \A k \in DOMAIN delegates'[p] : \E i \in DOMAIN delegates[p] : delegates'[p][k] = delegates[p][i]
      <3>1. delegates'[p] = IF p = place[o] THEN Erased(delegates[p], given[o]) ELSE delegates[p]
        BY <1>1, <1>8 DEF removeObserver, TypesHold
      <3>2. delegates[p] \in Seq(Delegate)
        BY <1>1 DEF TypesHold
      <3>3. \A k \in DOMAIN Erased(delegates[p], given[o]) :
                \E i \in DOMAIN delegates[p] : Erased(delegates[p], given[o])[k] = delegates[p][i]
        BY <3>2, ErasedFrom
      <3> QED BY <3>1, <3>3
    <2> QED BY <2>1, <2>2, KnowsKept DEF AllKnow
  <1>9. ASSUME NEW t \in Threads, NEW q \in Publishers, NEW value \in Values, Assign(t, q, value)
        PROVE  AllKnow'
    <2> DEFINE r == [Idle EXCEPT !.at = "hook", !.p = q]
    <2>1. r.at = "hook" /\ r.p = q
      BY AssigningThread
    <2>2. /\ thread' = [thread EXCEPT ![t] = r] /\ thread[t].at = "idle"
          /\ state' = [state EXCEPT ![q] = value] /\ UNCHANGED <<delegates, seen>>
      BY <1>9 DEF Assign, Local, At
    <2> HIDE DEF r
    <2>3. thread'[t] = r /\ \A u \in Threads \ {t} : thread'[u] = thread[u]
      BY <1>1, <2>2 DEF TypesHold
    <2> SUFFICES ASSUME NEW p \in Publishers \ overlapped'
                 PROVE  Knows(p)'
      BY DEF AllKnow
    <2>4. p \notin overlapped /\ (p = q => \A u \in Threads : ~Assigning(u, p))
      BY <1>9 DEF Assign
    <2>5. CASE p # q
      <3>1. state'[p] = state[p]
        BY <1>1, <2>2, <2>5 DEF TypesHold
      <3>2. \A u \in Threads : thread'[u] = thread[u] \/ (~Assigning(u, p) /\ ~Assigning(u, p)')
        BY <2>1, <2>2, <2>3, <2>5 DEF Assigning
      <3> QED BY <2>2, <2>4, <3>1, <3>2, KnowsKept DEF AllKnow
    <2>6. CASE p = q
      <3>1. \A u \in Threads : Assigning(u, p)' <=> u = t
        BY <2>1, <2>3, <2>4, <2>6 DEF Assigning
      <3>2. At(t, "hook")' /\ \A o : ToTell(t, o)'
        BY <2>1, <2>3 DEF At, ToTell
      <3> QED BY <3>1, <3>2 DEF Knows
    <2> QED BY <2>5, <2>6
  <1>10. ASSUME NEW t \in Threads, NEW r \in Thread, thread' = [thread EXCEPT ![t] = r],
                thread[t].at \in {"hook", "notify"}, r.at \in {"notify", "call"},
                r.p = thread[t].p, r.value = IF At(t, "hook") THEN state[r.p] ELSE thread[t].value,
                r.at = "call" => r.todo = delegates[r.p] /\ ~At(t, "hook"),
                UNCHANGED <<state, delegates, seen, overlapped>>
         PROVE  AllKnow'
    <2>1. thread'[t] = r /\ \A u \in Threads \ {t} : thread'[u] = thread[u]
      BY <1>1, <1>10 DEF TypesHold
    <2> SUFFICES ASSUME NEW p \in Publishers \ overlapped
                 PROVE  Knows(p)'
      BY <1>10 DEF AllKnow
    <2>2. CASE thread[t].p # p
      <3>1. \A u \in Threads : thread'[u] = thread[u] \/ (~Assigning(u, p) /\ ~Assigning(u, p)')
        BY <1>10, <2>1, <2>2 DEF Assigning
      <3> QED BY <1>10, <3>1, KnowsKept DEF AllKnow
    <2>3. CASE thread[t].p = p
      <3>1. Knows(p) /\ Assigning(t, p)
        BY <1>10, <2>3 DEF AllKnow, Assigning
      <3>2. \A u \in Threads : Assigning(u, p)' <=> u = t
        BY <1>10, <2>1, <2>3, <3>1 DEF Knows, Assigning
      <3>3. thread'[t].value = state'[p]
        BY <1>10, <2>1, <2>3, <3>1 DEF Knows
      <3>4. ASSUME NEW j \in DOMAIN delegates[p]
            PROVE  ToTell(t, delegates[p][j].observer)'
        BY <1>10, <2>1, <2>3 DEF ToTell, At
      <3> QED BY <1>10, <3>2, <3>3, <3>4 DEF Knows
    <2> QED BY <2>2, <2>3
  <1>11. ASSUME NEW t \in Threads, Hook(t)
         PROVE  AllKnow'
    <2> DEFINE r == [thread[t] EXCEPT !.at = "notify", !.value = state[thread[t].p]]
    <2>1. /\ r \in Thread /\ r.at = "notify" /\ r.p = thread[t].p /\ r.value = state[r.p]
      BY <1>1, <1>2, <1>11 DEF Hook, UnderWay, At, Thread, Steps, TypesHold
    <2>2. thread' = [thread EXCEPT ![t] = r] /\ At(t, "hook")
      BY <1>11 DEF Hook, Local
    <2> HIDE DEF r
    <2> QED BY <1>10, <1>11, <2>1, <2>2 DEF Hook, At
  <1>12. ASSUME NEW t \in Threads, notify(t)
         PROVE  AllKnow'
    <2> DEFINE r == [thread[t] EXCEPT !.at = "call", !.todo = delegates[thread[t].p]]
    <2>1. /\ r \in Thread /\ r.at = "call" /\ r.p = thread[t].p /\ r.value = thread[t].value
          /\ r.todo = delegates[r.p]
      <3>1. thread[t].p \in Publishers
        BY <1>1, <1>12 DEF notify, UnderWay, At
      <3>2. delegates[thread[t].p] \in Seq(Delegate)
        BY <1>1, <3>1 DEF TypesHold
      <3> QED BY <1>2, <3>2 DEF Thread, Steps
    <2>2. thread' = [thread EXCEPT ![t] = r] /\ At(t, "notify")
      BY <1>12 DEF notify, Local, getDelegatesCopy
    <2> HIDE DEF r
    <2> QED BY <1>10, <1>12, <2>1, <2>2 DEF notify, At
  <1>13. ASSUME NEW t \in Threads, dispatch(t)
         PROVE  AllKnow'
    <2> DEFINE q == thread[t].p
               todo == thread[t].todo
    <2>1. q \in Publishers /\ thread[t].at = "call" /\ todo \in Seq(Delegate)
      BY <1>1, <1>2, <1>13 DEF dispatch, UnderWay, At, Thread
    <2> SUFFICES ASSUME NEW p \in Publishers \ overlapped
                 PROVE  Knows(p)'
      BY <1>13 DEF AllKnow, dispatch
    <2>2. UNCHANGED <<state, delegates>>
      BY <1>13 DEF dispatch
    <2>3. CASE todo = <<>>
      <3>1. /\ thread'[t] = Idle /\ \A u \in Threads \ {t} : thread'[u] = thread[u]
            /\ UNCHANGED seen
        BY <1>1, <1>13, <2>3 DEF dispatch, Local, TypesHold
      <3>2. CASE p # q
        <4>1. \A u \in Threads : thread'[u] = thread[u] \/ (~Assigning(u, p) /\ ~Assigning(u, p)')
          BY <3>1, <3>2, IdleThread DEF Assigning
        <4> QED BY <2>2, <3>1, <4>1, KnowsKept DEF AllKnow
      <3>3. CASE p = q
        <4>1. Knows(p) /\ Assigning(t, p)
          BY <2>1, <3>3 DEF AllKnow, Assigning
        <4>2. \A u \in Threads : ~Assigning(u, p)'
          BY <3>1, <4>1, IdleThread DEF Knows, Assigning
        <4>3. \A o : ~ToTell(t, o)
          BY <2>1, <2>3 DEF ToTell, At
        <4>4. \A i \in DOMAIN delegates[p] : seen[delegates[p][i].observer] = state[p]
          BY <4>1, <4>3 DEF Knows
        <4> QED BY <2>2, <3>1, <4>2, <4>4 DEF Knows
      <3> QED BY <3>2, <3>3
    <2>4. CASE todo # <<>>
      <3> DEFINE d == Head(todo)
                 rest == Tail(todo)
                 r == [thread[t] EXCEPT !.todo = rest]
      <3>1. /\ d \in Delegate /\ d = todo[1] /\ rest \in Seq(Delegate) /\ Len(rest) = Len(todo) - 1
            /\ \A j \in 1..Len(rest) : rest[j] = todo[j + 1]
            /\ 1 \in DOMAIN todo
        BY <2>1, <2>4, HeadTailProperties
      <3>2. d.observer \in Observers /\ place[d.observer] = q
        BY <1>1, <2>1, <3>1 DEF Delegate, UnderWay, At
      <3>3. r.at = "call" /\ r.p = q /\ r.value = thread[t].value /\ r.todo = rest
        BY <1>2, <2>1 DEF Thread
      <3>4. thread' = [thread EXCEPT ![t] = r] /\ seen' = [seen EXCEPT ![d.observer] = thread[t].value]
        BY <1>13, <2>4 DEF dispatch, Local
      <3> HIDE DEF r, rest, d
      <3>5. thread'[t] = r /\ \A u \in Threads \ {t} : thread'[u] = thread[u]
        BY <1>1, <3>4 DEF TypesHold
      <3>6. CASE p # q
        <4>1. \A u \in Threads : thread'[u] = thread[u] \/ (~Assigning(u, p) /\ ~Assigning(u, p)')
          BY <3>3, <3>5, <3>6 DEF Assigning
        <4>2. \A i \in DOMAIN delegates[p] : seen'[delegates[p][i].observer] = seen[delegates[p][i].observer]
          BY <1>1, <3>2, <3>4, <3>6, ListOf DEF TypesHold
        <4> QED BY <2>2, <4>1, <4>2, KnowsKept DEF AllKnow
      <3>7. CASE p = q
        <4>1. Knows(p) /\ Assigning(t, p) /\ thread[t].value = state[p]
          BY <2>1, <3>7 DEF AllKnow, Knows, Assigning, At
        <4>2. \A u \in Threads : Assigning(u, p)' <=> u = t
          BY <3>3, <3>5, <3>7, <4>1 DEF Knows, Assigning
        <4>3. ASSUME NEW i \in DOMAIN delegates[p], NEW o, o = delegates[p][i].observer,
                     seen'[o] # state[p]
              PROVE  ToTell(t, o)'
          <5>1. o \in Observers
            BY <4>3, ListOf
          <5>2. o # d.observer /\ seen[o] # state[p]
            BY <1>1, <3>2, <3>4, <4>1, <4>3, <5>1 DEF TypesHold
          <5>3. ToTell(t, o)
            BY <4>1, <4>3, <5>2 DEF Knows
          <5>4. PICK j \in DOMAIN todo : todo[j].observer = o
            BY <2>1, <5>3 DEF ToTell, At
          <5>5. j - 1 \in DOMAIN rest /\ rest[j - 1] = todo[j]
            BY <2>1, <3>1, <5>2, <5>4
          <5> QED BY <3>3, <3>5, <5>4, <5>5 DEF ToTell
        <4> QED BY <2>2, <3>3, <3>5, <4>1, <4>2, <4>3 DEF Knows
      <3> QED BY <3>6, <3>7
    <2> QED BY <2>3, <2>4
  <1>14. CASE UNCHANGED vars
    <2> SUFFICES ASSUME NEW p \in Publishers \ overlapped
                 PROVE  Knows(p)'
      BY <1>14 DEF AllKnow, vars
    <2> QED BY <1>14, KnowsKept DEF AllKnow, vars
  <1> QED BY <1>4, <1>5, <1>6, <1>7, <1>8, <1>9, <1>11, <1>12, <1>13, <1>14 DEF Next

-----------------------------------------------------------------------------
(* The numbers, as long as additions come one at a time *)

Entry(o, id) == [id |-> id, observer |-> o]
Listed(p, d) == \E i \in DOMAIN delegates[p] : delegates[p][i] = d

AddingAlone ==
    /\ \A t, u \in Threads : Adding(t) /\ Adding(u) => t = u
    /\ \A t \in Threads : Adding(t) =>
          thread[t].id = current_id /\ given[thread[t].observer] = 0
    /\ \A t \in Threads : At(t, "return") =>
          Listed(thread[t].p, Entry(thread[t].observer, thread[t].id))
    /\ \A t \in Threads : At(t, "emplace") => current_id # 0

\* The number of an entry was answered, or is about to be.
Answered(d) ==
    \/ given[d.observer] = d.id
    \/ /\ given[d.observer] = 0
       /\ \E t \in Threads :
             At(t, "return") /\ thread[t].observer = d.observer /\ thread[t].id = d.id

Numbered(p) ==
    \A i \in DOMAIN delegates[p] :
        LET d == delegates[p][i]
        IN  /\ d.id \in 1..current_id /\ Answered(d)
            /\ \A t \in Threads : At(t, "emplace") => d.id < current_id
            /\ \A j \in DOMAIN delegates[p] \ {i} :
                  delegates[p][j].id # d.id /\ delegates[p][j].observer # d.observer

GivenListed == \A o \in Observers : given[o] # 0 => Listed(place[o], Entry(o, given[o]))

Numbers ==
    ~mixed => AddingAlone /\ (\A p \in Publishers : Numbered(p)) /\ GivenListed

LEMMA NumbersKept ==
  ASSUME Base, Numbers, UNCHANGED <<delegates, current_id, given, place, mixed>>,
         \A t \in Threads : thread'[t] = thread[t] \/ (~Adding(t) /\ ~Adding(t)')
  PROVE  Numbers'
  <1> SUFFICES ASSUME ~mixed
               PROVE  /\ AddingAlone' /\ GivenListed'
                      /\ \A p \in Publishers : Numbered(p)'
    BY DEF Numbers
  <1>1. AddingAlone /\ (\A p \in Publishers : Numbered(p)) /\ GivenListed
    BY DEF Numbers
  <1>2. \A t \in Threads : (Adding(t) \/ Adding(t)') => thread'[t] = thread[t]
    OBVIOUS
  <1>3. AddingAlone'
    BY <1>1, <1>2 DEF AddingAlone, Adding, At, Listed
  <1>4. \A d : Answered(d) => Answered(d)'
    BY <1>2 DEF Answered, Adding, At
  <1>5. ASSUME NEW p \in Publishers
        PROVE  Numbered(p)'
    BY <1>1, <1>2, <1>4 DEF Numbered, Adding, At
  <1>6. GivenListed'
    BY <1>1 DEF GivenListed, Listed
  <1> QED BY <1>3, <1>5, <1>6

LEMMA AddingBegins ==
  ASSUME Base, Numbers, NEW t \in Threads, NEW o \in Observers, NEW p \in Publishers,
         addObserver(t, o, p)
  PROVE  Numbers'
  <1> SUFFICES ASSUME ~mixed'
               PROVE  /\ AddingAlone' /\ GivenListed'
                      /\ \A q \in Publishers : Numbered(q)'
    BY DEF Numbers
  <1>1. AddingAlone /\ (\A q \in Publishers : Numbered(q)) /\ GivenListed
    BY DEF Numbers, addObserver
  <1>2. \A u \in Threads : ~Adding(u)
    BY DEF addObserver
  <1>3. PICK r : r = [Idle EXCEPT !.at = "increment", !.p = p, !.id = current_id, !.observer = o]
    OBVIOUS
  <1>4. r.at = "increment" /\ r.p = p /\ r.observer = o /\ r.id = current_id
    BY <1>3 DEF Idle
  <1>5. thread'[t] = r /\ \A u \in Threads \ {t} : thread'[u] = thread[u]
    BY <1>3 DEF addObserver, Local, Base, TypesHold
  <1>6. /\ given[o] = 0 /\ UNCHANGED <<delegates, current_id, given>>
        /\ \A q \in Observers \ {o} : place'[q] = place[q]
    BY NobodyAssumption DEF addObserver, Base, UnderWay, TypesHold
  <1>7. AddingAlone'
    BY <1>2, <1>4, <1>5, <1>6 DEF AddingAlone, Adding, At
  <1>8. ASSUME NEW q \in Publishers
        PROVE  Numbered(q)'
    <2>1. \A d : Answered(d) => Answered(d)'
      BY <1>2, <1>6 DEF Answered, Adding, At
    <2>2. \A u \in Threads : ~At(u, "emplace")'
      BY <1>2, <1>4, <1>5 DEF Adding, At
    <2> QED BY <1>1, <1>6, <2>1, <2>2 DEF Numbered
  <1>9. GivenListed'
    BY <1>1, <1>6 DEF GivenListed, Listed
  <1> QED BY <1>7, <1>8, <1>9

LEMMA AddingIncrements ==
  ASSUME Base, Numbers, NEW t \in Threads, Increment(t)
  PROVE  Numbers'
  <1> SUFFICES ASSUME ~mixed'
               PROVE  /\ AddingAlone' /\ GivenListed'
                      /\ \A q \in Publishers : Numbered(q)'
    BY DEF Numbers
  <1>1. AddingAlone /\ (\A q \in Publishers : Numbered(q)) /\ GivenListed
    BY DEF Numbers, Increment, history
  <1>2. thread[t] \in Thread /\ thread[t].at = "increment" /\ current_id \in Nat
    BY DEF Increment, At, Base, TypesHold
  <1>3. thread[t].id = current_id /\ \A u \in Threads \ {t} : ~Adding(u)
    BY <1>1, <1>2 DEF AddingAlone, Adding
  <1> DEFINE r == [thread[t] EXCEPT !.at = "emplace", !.id = @ + 1]
  <1>4. /\ r.at = "emplace" /\ r.p = thread[t].p /\ r.observer = thread[t].observer
        /\ r.id = current_id + 1
    BY <1>2, <1>3 DEF Thread
  <1>5. thread' = [thread EXCEPT ![t] = r] /\ current_id' = current_id + 1
        /\ UNCHANGED <<delegates, given, place>>
    BY <1>3 DEF Increment, Local
  <1> HIDE DEF r
  <1>6. thread'[t] = r /\ \A u \in Threads \ {t} : thread'[u] = thread[u]
    BY <1>5 DEF Base, TypesHold
  <1>7. AddingAlone'
    BY <1>1, <1>2, <1>3, <1>4, <1>5, <1>6 DEF AddingAlone, Adding, At
  <1>8. ASSUME NEW q \in Publishers
        PROVE  Numbered(q)'
    <2>1. \A d : Answered(d) => Answered(d)'
      BY <1>2, <1>3, <1>5, <1>6 DEF Answered, Adding, At
    <2>2. \A n \in 1..current_id : n \in 1..current_id' /\ n < current_id'
      BY <1>2, <1>5
    <2> QED BY <1>1, <1>5, <2>1, <2>2 DEF Numbered
  <1>9. GivenListed'
    BY <1>1, <1>5 DEF GivenListed, Listed
  <1> QED BY <1>7, <1>8, <1>9

LEMMA AddingReturns ==
  ASSUME Base, Numbers, NEW t \in Threads, Return(t)
  PROVE  Numbers'
  <1> SUFFICES ASSUME ~mixed'
               PROVE  /\ AddingAlone' /\ GivenListed'
                      /\ \A q \in Publishers : Numbered(q)'
    BY DEF Numbers
  <1> DEFINE o == thread[t].observer
             id == thread[t].id
  <1>1. AddingAlone /\ (\A q \in Publishers : Numbered(q)) /\ GivenListed
    BY DEF Numbers, Return, history
  <1>2. At(t, "return") /\ o \in Observers /\ place[o] = thread[t].p
    BY DEF Return, At, Adding, Base, UnderWay
  <1>3. /\ id = current_id /\ given[o] = 0 /\ Listed(thread[t].p, Entry(o, id))
        /\ \A u \in Threads \ {t} : ~Adding(u)
    BY <1>1, <1>2 DEF AddingAlone, Adding, At
  <1>4. /\ given' = [given EXCEPT ![o] = id] /\ thread' = [thread EXCEPT ![t] = Idle]
        /\ UNCHANGED <<delegates, current_id, place>>
    BY <1>3 DEF Return, Returned, Local
  <1> HIDE DEF o, id
  <1>5. /\ thread'[t] = Idle /\ \A u \in Threads \ {t} : thread'[u] = thread[u]
        /\ given'[o] = id /\ \A q \in Observers \ {o} : given'[q] = given[q]
    BY <1>2, <1>4 DEF Base, TypesHold
  <1>6. \A u \in Threads : ~Adding(u)'
    BY <1>3, <1>5, IdleThread DEF Adding
  <1>7. AddingAlone'
    BY <1>6 DEF AddingAlone, Adding, At
  <1>8. ASSUME NEW q \in Publishers
        PROVE  Numbered(q)'
    <2>1. ASSUME NEW d, Answered(d), d.observer \in Observers, d.id # 0
          PROVE  Answered(d)'
      <3>1. CASE given[d.observer] = d.id /\ d.observer # o
        BY <1>5, <2>1, <3>1 DEF Answered
      <3>2. CASE given[d.observer] = d.id /\ d.observer = o
        BY <1>3, <2>1, <3>2
      <3>3. CASE \E u \in Threads :
                     At(u, "return") /\ thread[u].observer = d.observer /\ thread[u].id = d.id
        BY <1>3, <1>5, <3>3 DEF Answered, Adding, At, o, id
      <3> QED BY <2>1, <3>1, <3>2, <3>3 DEF Answered
    <2> QED BY <1>1, <1>4, <1>6, <2>1, ListOf DEF Numbered, Adding, At
  <1>9. GivenListed'
    BY <1>1, <1>2, <1>3, <1>4, <1>5 DEF GivenListed, Listed
  <1> QED BY <1>7, <1>8, <1>9

LEMMA AddingEmplaces ==
  ASSUME Base, Numbers, NEW t \in Threads, Emplace(t)
  PROVE  Numbers'
  <1> SUFFICES ASSUME ~mixed'
               PROVE  /\ AddingAlone' /\ GivenListed'
                      /\ \A q \in Publishers : Numbered(q)'
    BY DEF Numbers
  <1>0. PICK o, p, c, d, r :
            /\ o = thread[t].observer /\ p = thread[t].p /\ c = current_id /\ d = Entry(o, c)
            /\ r = [thread[t] EXCEPT !.at = "return"]
    OBVIOUS
  <1>1. AddingAlone /\ (\A q \in Publishers : Numbered(q)) /\ GivenListed
    BY DEF Numbers, Emplace, history
  <1>2. /\ At(t, "emplace") /\ o \in Observers /\ place[o] = p /\ p \in Publishers
        /\ thread[t] \in Thread /\ current_id \in Nat
    BY <1>0 DEF Emplace, At, Adding, Base, UnderWay, TypesHold
  <1>3. /\ thread[t].id = c /\ c = current_id /\ given[o] = 0 /\ c \in 1..c
        /\ \A u \in Threads \ {t} : ~Adding(u)
    BY <1>0, <1>1, <1>2 DEF AddingAlone, Adding, At
  <1>4. /\ delegates' = [delegates EXCEPT ![p] = Append(@, d)]
        /\ thread' = [thread EXCEPT ![t] = r] /\ UNCHANGED <<current_id, place, given>>
    BY <1>0, <1>3 DEF Emplace, Entry, Local
  <1>5. r.at = "return" /\ r.p = p /\ r.observer = o /\ r.id = c
    BY <1>0, <1>2, <1>3 DEF Thread
  <1>6. d.id = c /\ d.observer = o /\ d = Entry(o, c)
    BY <1>0 DEF Entry
  <1>7. delegates[p] \in Seq(Delegate) /\ d \in Delegate
    BY <1>0, <1>2 DEF Base, TypesHold, Entry, Delegate
  <1>8. /\ thread'[t] = r /\ \A u \in Threads \ {t} : thread'[u] = thread[u]
        /\ delegates'[p] = Append(delegates[p], d)
        /\ \A q \in Publishers \ {p} : delegates'[q] = delegates[q]
    BY <1>2, <1>4 DEF Base, TypesHold
  <1>9. PICK n \in Nat :
        /\ n = Len(delegates[p]) /\ DOMAIN delegates[p] = 1..n /\ DOMAIN delegates'[p] = 1..n + 1
        /\ \A i \in 1..n : delegates'[p][i] = delegates[p][i]
        /\ delegates'[p][n + 1] = d /\ n + 1 \notin 1..n /\ n + 1 \in 1..n + 1
        /\ \A i \in 1..n + 1 : i \in 1..n \/ i = n + 1
    BY <1>7, <1>8, AppendProperties
  <1>10. \A q \in Publishers : \A x : Listed(q, x) => Listed(q, x)'
    BY <1>8, <1>9 DEF Listed
  <1>11. Listed(p, d)'
    BY <1>9 DEF Listed
  <1>12. AddingAlone'
    <2>1. \A u \in Threads : Adding(u)' => u = t
      BY <1>3, <1>8 DEF Adding
    <2>2. thread'[t].id = current_id' /\ given'[thread'[t].observer] = 0 /\ ~At(t, "emplace")'
      BY <1>3, <1>4, <1>5, <1>8 DEF At
    <2>3. Listed(thread[t].p, Entry(thread[t].observer, thread[t].id))'
      BY <1>5, <1>6, <1>8, <1>11 DEF Listed
    <2> QED BY <2>1, <2>2, <2>3 DEF AddingAlone, Adding, At
  <1>13. \A x : Answered(x) => Answered(x)'
    BY <1>2, <1>3, <1>4, <1>8 DEF Answered, Adding, At
  <1>14. Answered(d)'
    BY <1>3, <1>4, <1>5, <1>6, <1>8 DEF Answered, At
  <1>15. \A u \in Threads : ~At(u, "emplace")'
    BY <1>3, <1>5, <1>8 DEF Adding, At
  <1>16. ASSUME NEW q \in Publishers \ {p}
         PROVE  Numbered(q)'
    BY <1>1, <1>4, <1>8, <1>13, <1>15 DEF Numbered
  <1>17. Numbered(p)'
    <2>1. ASSUME NEW i \in 1..n
          PROVE  /\ delegates[p][i].id \in 1..c /\ Answered(delegates[p][i])
                 /\ delegates[p][i].id # c
                 /\ \A j \in (1..n) \ {i} : /\ delegates[p][j].id # delegates[p][i].id
                                          /\ delegates[p][j].observer # delegates[p][i].observer
      BY <1>1, <1>2, <1>3, <1>9 DEF Numbered
    <2>2. \A i \in 1..n : delegates[p][i].observer # o
      BY <1>2, <1>3, <2>1 DEF Answered, Adding, At
    <2>3. ASSUME NEW i \in 1..n + 1
          PROVE  /\ delegates'[p][i].id \in 1..c /\ Answered(delegates[p][i])'
                 /\ \A j \in (1..n + 1) \ {i} : /\ delegates'[p][j].id # delegates'[p][i].id
                                              /\ delegates'[p][j].observer # delegates'[p][i].observer
      <3>1. CASE i \in 1..n
        <4>1. delegates'[p][i] = delegates[p][i]
          BY <1>9, <3>1
        <4>2. ASSUME NEW j \in (1..n + 1) \ {i}
              PROVE  /\ delegates'[p][j].id # delegates[p][i].id
                     /\ delegates'[p][j].observer # delegates[p][i].observer
          BY <1>6, <1>9, <2>1, <2>2, <3>1
        <4> QED BY <1>13, <2>1, <3>1, <4>1, <4>2
      <3>2. CASE i = n + 1
        <4>1. delegates'[p][i] = d
          BY <1>9, <3>2
        <4>2. ASSUME NEW j \in (1..n + 1) \ {i}
              PROVE  delegates'[p][j].id # d.id /\ delegates'[p][j].observer # d.observer
          BY <1>6, <1>9, <2>1, <2>2, <3>2
        <4> QED BY <1>3, <1>6, <1>14, <4>1, <4>2
      <3> QED BY <1>9, <3>1, <3>2
    <2> QED BY <1>3, <1>4, <1>9, <1>15, <2>3 DEF Numbered
  <1>18. GivenListed'
    <2>1. \A q \in Observers : given[q] # 0 => place[q] \in Publishers
      BY DEF Base, UnderWay
    <2> QED BY <1>1, <1>4, <1>10, <2>1 DEF GivenListed, Entry
  <1> QED BY <1>12, <1>16, <1>17, <1>18

LEMMA RemovalKeeps ==
  ASSUME Base, Numbers, NEW t \in Threads, NEW o \in Observers, removeObserver(t, o)
  PROVE  Numbers'
  <1> SUFFICES ASSUME ~mixed'
               PROVE  /\ AddingAlone' /\ GivenListed'
                      /\ \A q \in Publishers : Numbered(q)'
    BY DEF Numbers
  <1>0. PICK p, list, e : p = place[o] /\ list = delegates[p] /\ e = Erased(list, given[o])
    OBVIOUS
  <1>1. AddingAlone /\ (\A q \in Publishers : Numbered(q)) /\ GivenListed
    BY DEF Numbers, removeObserver, history
  <1>2. given[o] # 0 /\ p \in Publishers /\ list \in Seq(Delegate)
    BY <1>0 DEF removeObserver, Base, UnderWay, TypesHold
  <1>3. PICK m \in DOMAIN list : list[m] = Entry(o, given[o])
    BY <1>0, <1>1, <1>2 DEF GivenListed, Listed
  <1>4. list[m].id = given[o] /\ list[m].observer = o
    BY <1>3 DEF Entry
  <1>5. \A i \in DOMAIN list \ {m} : list[i].id # list[m].id /\ list[i].observer # o
    BY <1>0, <1>1, <1>2, <1>4 DEF Numbered
  <1>6. LessOne(list, m, e)
    <2>1. e = Erased(list, list[m].id)
      BY <1>0, <1>4
    <2>2. \A i \in DOMAIN list \ {m} : list[i].id # list[m].id
      BY <1>5
    <2> QED BY <1>2, <1>3, <2>1, <2>2, ErasedOthers
  <1>7. /\ delegates' = [delegates EXCEPT ![p] = e] /\ given' = [given EXCEPT ![o] = 0]
        /\ UNCHANGED <<current_id, thread, place>>
    BY <1>0 DEF removeObserver
  <1>8. /\ delegates'[p] = e /\ \A q \in Publishers \ {p} : delegates'[q] = delegates[q]
        /\ given'[o] = 0 /\ \A q \in Observers \ {o} : given'[q] = given[q]
    BY <1>2, <1>7 DEF Base, TypesHold
  <1>9. \A q \in Publishers : \A c : Listed(q, c) /\ c.observer # o => Listed(q, c)'
    <2>1. ASSUME NEW q \in Publishers, NEW c, Listed(q, c), c.observer # o
          PROVE  Listed(q, c)'
      <3>1. CASE q = p
        BY <1>0, <1>4, <1>6, <1>8, <2>1, <3>1 DEF Listed, LessOne
      <3>2. CASE q # p
        BY <1>8, <2>1, <3>2 DEF Listed
      <3> QED BY <3>1, <3>2
    <2> QED BY <2>1
  <1>10. AddingAlone'
    <2>1. ASSUME NEW u \in Threads, Adding(u)
          PROVE  /\ thread[u].observer \in Observers \ {o} /\ thread[u].p \in Publishers
                 /\ Entry(thread[u].observer, thread[u].id).observer # o
      BY <1>1, <1>2, <2>1 DEF AddingAlone, Base, UnderWay, Adding, At, Entry
    <2>2. ASSUME NEW u \in Threads, At(u, "return")'
          PROVE  Listed(thread[u].p, Entry(thread[u].observer, thread[u].id))'
      BY <1>1, <1>7, <1>9, <2>1, <2>2 DEF AddingAlone, Adding, At
    <2>3. ASSUME NEW u \in Threads, Adding(u)'
          PROVE  thread'[u].id = current_id' /\ given'[thread'[u].observer] = 0
      BY <1>1, <1>7, <1>8, <2>1, <2>3 DEF AddingAlone, Adding
    <2> QED BY <1>1, <1>7, <2>2, <2>3 DEF AddingAlone, Adding, At
  <1>11. \A c : Answered(c) /\ c.observer \in Observers \ {o} => Answered(c)'
    BY <1>7, <1>8 DEF Answered, At
  <1>12. ASSUME NEW q \in Publishers, NEW i \in DOMAIN delegates[q], q # p \/ i # m
         PROVE  delegates[q][i].observer \in Observers \ {o}
    BY <1>0, <1>5, <1>12, ListOf
  <1>13. ASSUME NEW q \in Publishers, q # p
         PROVE  Numbered(q)'
    BY <1>1, <1>7, <1>8, <1>11, <1>12, <1>13 DEF Numbered, At
  <1>14. Numbered(p)'
    <2>1. ASSUME NEW k \in DOMAIN e
          PROVE  /\ e[k].id \in 1..current_id /\ Answered(e[k])'
                 /\ \A u \in Threads : At(u, "emplace") => e[k].id < current_id
      <3>1. PICK i \in DOMAIN list \ {m} : e[k] = list[i]
        BY <1>6 DEF LessOne
      <3>2. /\ list[i].id \in 1..current_id /\ Answered(list[i])
            /\ \A u \in Threads : At(u, "emplace") => list[i].id < current_id
        BY <1>0, <1>1, <1>2 DEF Numbered
      <3>3. Answered(e[k])'
        BY <1>0, <1>2, <1>11, <1>12, <3>1, <3>2
      <3> QED BY <3>1, <3>2, <3>3
    <2>2. ASSUME NEW k \in DOMAIN e, NEW l \in DOMAIN e, k # l
          PROVE  e[l].id # e[k].id /\ e[l].observer # e[k].observer
      <3>1. PICK i \in DOMAIN list \ {m}, j \in DOMAIN list \ {m} :
                i # j /\ e[k] = list[i] /\ e[l] = list[j]
        BY <1>6, <2>2 DEF LessOne
      <3>2. list[j].id # list[i].id /\ list[j].observer # list[i].observer
        BY <1>0, <1>1, <1>2, <3>1 DEF Numbered
      <3> QED BY <3>1, <3>2
    <2> QED BY <1>7, <1>8, <2>1, <2>2 DEF Numbered, At
  <1>15. GivenListed'
    <2>1. ASSUME NEW q \in Observers, given'[q] # 0
          PROVE  Listed(place[q], Entry(q, given[q]))' /\ given'[q] = given[q]
      <3>1. q # o /\ given[q] # 0 /\ given'[q] = given[q]
        BY <1>8, <2>1
      <3>2. place[q] \in Publishers /\ Listed(place[q], Entry(q, given[q]))
        BY <1>1, <3>1 DEF GivenListed, Base, UnderWay
      <3> QED BY <1>7, <1>9, <3>1, <3>2 DEF Entry
    <2> QED BY <1>7, <2>1 DEF GivenListed
  <1> QED BY <1>10, <1>13, <1>14, <1>15

LEMMA NextNumbers == Base /\ Numbers /\ [Next]_vars => Numbers'
  <1> SUFFICES ASSUME Base, Numbers, [Next]_vars
               PROVE  Numbers'
    OBVIOUS
  <1>1. thread \in [Threads -> Thread]
    BY DEF Base, TypesHold
  <1>2. ASSUME NEW t \in Threads, NEW r, thread' = [thread EXCEPT ![t] = r],
               thread[t].at \in {"idle", "hook", "notify", "call"},
               r.at \in {"idle", "hook", "notify", "call"},
               UNCHANGED <<delegates, current_id, given, place, mixed>>
        PROVE  Numbers'
    <2>1. thread'[t] = r /\ \A u \in Threads \ {t} : thread'[u] = thread[u]
      BY <1>1, <1>2
    <2>2. \A u \in Threads : thread'[u] = thread[u] \/ (~Adding(u) /\ ~Adding(u)')
      BY <1>2, <2>1 DEF Adding
    <2> QED BY <1>2, <2>2, NumbersKept
  <1>3. ASSUME NEW t \in Threads, NEW p \in Publishers, NEW value \in Values, Assign(t, p, value)
        PROVE  Numbers'
    <2>1. PICK r : r = [Idle EXCEPT !.at = "hook", !.p = p]
      OBVIOUS
    <2>2. r.at = "hook"
      BY <2>1, AssigningThread
    <2> QED BY <1>2, <1>3, <2>1, <2>2 DEF Assign, Local, At, registry
  <1>4. ASSUME NEW t \in Threads, Hook(t)
        PROVE  Numbers'
    <2>1. PICK r : r = [thread[t] EXCEPT !.at = "notify", !.value = state[thread[t].p]]
      OBVIOUS
    <2>2. r.at = "notify"
      BY <1>1, <2>1 DEF Thread
    <2> QED BY <1>2, <1>4, <2>1, <2>2 DEF Hook, Local, At, registry, history
  <1>5. ASSUME NEW t \in Threads, notify(t)
        PROVE  Numbers'
    <2>1. PICK r : r = [thread[t] EXCEPT !.at = "call",
                                         !.todo = getDelegatesCopy(delegates[thread[t].p])]
      OBVIOUS
    <2>2. r.at = "call"
      BY <1>1, <2>1 DEF Thread
    <2> QED BY <1>2, <1>5, <2>1, <2>2 DEF notify, Local, At, registry, history
  <1>6. ASSUME NEW t \in Threads, dispatch(t)
        PROVE  Numbers'
    <2>1. PICK r : /\ r = Idle \/ r = [thread[t] EXCEPT !.todo = Tail(@)]
                   /\ thread' = [thread EXCEPT ![t] = r]
      BY <1>6 DEF dispatch, Local
    <2>2. r.at \in {"idle", "call"}
      BY <1>1, <1>6, <2>1, IdleThread DEF Thread, dispatch, At
    <2> QED BY <1>2, <1>6, <2>1, <2>2 DEF dispatch, At, registry, history
  <1>7. CASE UNCHANGED vars
    BY <1>7, NumbersKept DEF vars
  <1> QED BY <1>3, <1>4, <1>5, <1>6, <1>7, AddingBegins, AddingIncrements, AddingEmplaces,
             AddingReturns, RemovalKeeps DEF Next

-----------------------------------------------------------------------------
(* The theorems *)

Invariant == Base /\ AllKnow /\ Numbers

LEMMA InitInvariant == Init => Invariant
  <1> SUFFICES ASSUME Init
               PROVE  Invariant
    OBVIOUS
  <1>1. Base
    BY InitBase
  <1>2. /\ \A t \in Threads : thread[t].at = "idle"
        /\ \A p \in Publishers : delegates[p] = <<>>
        /\ \A o \in Observers : given[o] = 0
    BY IdleThread DEF Init
  <1>3. AllKnow
    BY <1>2 DEF AllKnow, Knows, Assigning, At
  <1>4. Numbers
    BY <1>2 DEF Numbers, AddingAlone, Adding, At, Numbered, GivenListed
  <1> QED BY <1>1, <1>3, <1>4 DEF Invariant

LEMMA AlwaysInvariant == Spec => []Invariant
  <1>1. Invariant /\ [Next]_vars => Invariant'
    BY NextBase, NextKnows, NextNumbers DEF Invariant
  <1> QED BY InitInvariant, <1>1, PTL DEF Spec

\* The types of what a publisher keeps; and, for ObservableStatePublisher.hpp notify and
\* addObserver, that a thread under way has the publisher it works for, that the observers
\* it still has to call and those in a list are that publisher's own.
THEOREM PublisherTypes == Spec => [](TypesHold /\ UnderWay)
  <1>1. Invariant => TypesHold /\ UnderWay
    BY DEF Invariant, Base
  <1> QED BY <1>1, AlwaysInvariant, PTL

\* ObservableStatePublisher.hpp notify: when no assignment to a state is under way, and no
\* two of its assignments ever overlapped, every observer in the list knows the state.
THEOREM ObserversKnow == Spec => []ObserversKnowTheState
  <1>1. Invariant => ObserversKnowTheState
    <2> SUFFICES ASSUME Invariant, NEW o \in Observers, place[o] # Nobody,
                        place[o] \notin overlapped, \A t \in Threads : ~Assigning(t, place[o]),
                        Registered(o) # {}
                 PROVE  seen[o] = state[place[o]]
      BY DEF ObserversKnowTheState
    <2>1. place[o] \in Publishers
      BY DEF Invariant, Base, TypesHold
    <2>2. Knows(place[o])
      BY <2>1 DEF Invariant, AllKnow
    <2>3. PICK i \in DOMAIN delegates[place[o]] : delegates[place[o]][i].observer = o
      BY DEF Registered
    <2> QED BY <2>2, <2>3 DEF Knows
  <1> QED BY <1>1, AlwaysInvariant, PTL

\* ObservableStatePublisher.hpp addObserver, removeObserver: while additions to two
\* publishers never overlapped, the number that was answered for an observer stands in its
\* publisher's list once, and with that observer.
THEOREM NumberIsOwn == Spec => []OwnNumber
  <1>1. Invariant => OwnNumber
    <2> SUFFICES ASSUME Invariant, ~mixed, NEW o \in Observers, given[o] # 0
                 PROVE  /\ Cardinality(Registered(o)) = 1
                        /\ {i \in DOMAIN delegates[place[o]] :
                                delegates[place[o]][i].id = given[o]} = Registered(o)
      BY DEF OwnNumber
    <2>1. place[o] \in Publishers
      BY DEF Invariant, Base, UnderWay
    <2>2. Numbered(place[o]) /\ GivenListed
      BY <2>1 DEF Invariant, Numbers
    <2>3. PICK m \in DOMAIN delegates[place[o]] :
              delegates[place[o]][m] = Entry(o, given[o])
      BY <2>2 DEF GivenListed, Listed
    <2>4. delegates[place[o]][m].id = given[o] /\ delegates[place[o]][m].observer = o
      BY <2>3 DEF Entry
    <2>5. \A i \in DOMAIN delegates[place[o]] \ {m} :
              delegates[place[o]][i].id # given[o] /\ delegates[place[o]][i].observer # o
      BY <2>2, <2>4 DEF Numbered
    <2>6. Registered(o) = {m}
      BY <2>4, <2>5 DEF Registered
    <2>7. {i \in DOMAIN delegates[place[o]] : delegates[place[o]][i].id = given[o]} = {m}
      BY <2>4, <2>5
    <2>8. Cardinality({m}) = 1
      BY FS_Singleton
    <2> QED BY <2>6, <2>7, <2>8
  <1> QED BY <1>1, AlwaysInvariant, PTL

=============================================================================
