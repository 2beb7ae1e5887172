---------------------------- MODULE StatePublisher ----------------------------
(***************************************************************************)
(* A published state: an Observable whose assignment calls the observers   *)
(* of its ObservableStatePublisher.  Several threads assign, add and       *)
(* remove; every publisher has a lock of its own, but the numbers that     *)
(* observers are known by come from one counter for all publishers of a    *)
(* state's type.                                                           *)
(***************************************************************************)
EXTENDS Integers, FiniteSets, SequencesExt

CONSTANTS
    Threads, Observers, Publishers,
    Values,         \* of the state; the first is InitialValue
    InitialValue,
    Nobody,         \* no thread, no publisher
    MaxAssignments  \* bound: assignments to each state

ASSUME InitialAssumption == InitialValue \in Values
ASSUME NobodyAssumption == Nobody \notin Threads \cup Publishers

VARIABLES
    state,      \* Observable::m_state, of each publisher
    delegates,  \* m_delegates: numbers and observers, in the order they came
    current_id, \* the counter
    lock,       \* m_mutex
    thread,     \* where each thread is, and its locals
    given,      \* what addObserver answered for an observer, 0 before
    place,      \* history: the publisher that an observer was given to
    seen,       \* history: the state that an observer knows
    assigned,   \* history: assignments to each state
    overlapped, \* history: states with two assignments under way at once
    mixed       \* history: additions to two publishers were under way at once

vars == <<state, delegates, current_id, lock, thread, given, place, seen, assigned,
          overlapped, mixed>>

Idle == [at |-> "idle", p |-> Nobody, id |-> 0, value |-> InitialValue, todo |-> <<>>,
         observer |-> Nobody]

registry == <<delegates, current_id, given, place>>
history == <<assigned, overlapped, mixed>>

At(t, step) == thread[t].at = step
Local(t, record) == thread' = [thread EXCEPT ![t] = record]
Assigning(t, p) == thread[t].p = p /\ thread[t].at \in {"hook", "notify", "call"}
Adding(t) == thread[t].at \in {"increment", "emplace", "return"}

-----------------------------------------------------------------------------
(* addObserver.  The counter is incremented and read without a lock that   *)
(* the other publishers take: a read behind the increment may be of the    *)
(* counter or of the register that it was computed in.                     *)

addObserver(t, o, p) ==
    /\ At(t, "idle") /\ place[o] = Nobody /\ lock[p] = Nobody
    /\ lock' = [lock EXCEPT ![p] = t]
    /\ place' = [place EXCEPT ![o] = p]
    /\ Local(t, [Idle EXCEPT !.at = "increment", !.p = p, !.id = current_id, !.observer = o])
    /\ mixed' = (mixed \/ \E u \in Threads : Adding(u))
    /\ UNCHANGED <<state, delegates, current_id, given, seen, assigned, overlapped>>

Increment(t) ==
    /\ At(t, "increment")
    /\ current_id' = thread[t].id + 1
    /\ Local(t, [thread[t] EXCEPT !.at = "emplace", !.id = @ + 1])
    /\ UNCHANGED <<state, delegates, lock, given, place, seen, history>>

Emplace(t) ==
    /\ At(t, "emplace")
    /\ LET p == thread[t].p  o == thread[t].observer
       IN  /\ \E id \in {thread[t].id, current_id} :
                 delegates' = [delegates EXCEPT ![p] = Append(@, [id |-> id, observer |-> o])]
           /\ seen' = [seen EXCEPT ![o] = state[p]]
    /\ Local(t, [thread[t] EXCEPT !.at = "return"])
    /\ UNCHANGED <<state, current_id, lock, given, place, history>>

PostIncrement(id) == id - 1           \* mutant: client_id++
Returned(id) == id

Return(t) ==
    /\ At(t, "return")
    /\ \E id \in {thread[t].id, current_id} :
          given' = [given EXCEPT ![thread[t].observer] = Returned(id)]
    /\ lock' = [lock EXCEPT ![thread[t].p] = Nobody]
    /\ Local(t, Idle)
    /\ UNCHANGED <<state, delegates, current_id, place, seen, history>>

-----------------------------------------------------------------------------
(* removeObserver, all of it under the lock.  The observers that stay are  *)
(* moved to the front, and one element is erased there, however many went. *)

Stay(list, id) == {i \in DOMAIN list : list[i].id # id}

Without(list, id) ==
    LET stay == Stay(list, id)
        Nth(k) == CHOOSE i \in stay : Cardinality({j \in stay : j <= i}) = k
    IN  [k \in 1..Cardinality(stay) |-> list[Nth(k)]]

Erased(list, id) ==
    LET kept == Without(list, id)
    IN  IF Len(kept) = Len(list) THEN list
        ELSE kept \o SubSeq(list, Len(kept) + 2, Len(list))

removeObserver(t, o) ==
    LET p == place[o]
    IN  /\ At(t, "idle") /\ given[o] # 0 /\ lock[p] = Nobody
        /\ delegates' = [delegates EXCEPT ![p] = Erased(@, given[o])]
        /\ given' = [given EXCEPT ![o] = 0]
        /\ UNCHANGED <<state, current_id, lock, thread, place, seen, history>>

-----------------------------------------------------------------------------
(* Observable::operator=, and the hook: notify.  The state is stored, read *)
(* again for the hook, and given to a copy of the observers one after      *)
(* another; the future of each call is waited for.                         *)

Assign(t, p, value) ==
    /\ At(t, "idle") /\ assigned[p] < MaxAssignments
    /\ assigned' = [assigned EXCEPT ![p] = @ + 1]
    /\ state' = [state EXCEPT ![p] = value]
    /\ Local(t, [Idle EXCEPT !.at = "hook", !.p = p])
    /\ overlapped' = IF \E u \in Threads : Assigning(u, p) THEN overlapped \cup {p} ELSE overlapped
    /\ UNCHANGED <<registry, lock, seen, mixed>>

Hook(t) ==
    /\ At(t, "hook")
    /\ Local(t, [thread[t] EXCEPT !.at = "notify", !.value = state[thread[t].p]])
    /\ UNCHANGED <<state, registry, lock, seen, history>>

CopiesAllButLast(list) == IF list = <<>> THEN list ELSE Front(list)   \* mutant
getDelegatesCopy(list) == list

notify(t) ==
    /\ At(t, "notify") /\ lock[thread[t].p] = Nobody
    /\ Local(t, [thread[t] EXCEPT !.at = "call", !.todo = getDelegatesCopy(delegates[thread[t].p])])
    /\ UNCHANGED <<state, registry, lock, seen, history>>

dispatch(t) ==
    /\ At(t, "call")
    /\ IF thread[t].todo = <<>> THEN Local(t, Idle) /\ UNCHANGED seen
       ELSE /\ seen' = [seen EXCEPT ![Head(thread[t].todo).observer] = thread[t].value]
            /\ Local(t, [thread[t] EXCEPT !.todo = Tail(@)])
    /\ UNCHANGED <<state, registry, lock, history>>

-----------------------------------------------------------------------------
Init ==
    /\ state = [p \in Publishers |-> InitialValue]
    /\ delegates = [p \in Publishers |-> <<>>]
    /\ current_id = 0
    /\ lock = [p \in Publishers |-> Nobody]
    /\ thread = [t \in Threads |-> Idle]
    /\ given = [o \in Observers |-> 0]
    /\ place = [o \in Observers |-> Nobody]
    /\ seen = [o \in Observers |-> InitialValue]
    /\ assigned = [p \in Publishers |-> 0]
    /\ overlapped = {} /\ mixed = FALSE

Next ==
    \E t \in Threads :
        \/ \E o \in Observers, p \in Publishers : addObserver(t, o, p)
        \/ \E o \in Observers : removeObserver(t, o)
        \/ \E p \in Publishers, value \in Values : Assign(t, p, value)
        \/ Increment(t) \/ Emplace(t) \/ Return(t)
        \/ Hook(t) \/ notify(t) \/ dispatch(t)

Spec == Init /\ [][Next]_vars

-----------------------------------------------------------------------------
(* Properties *)

Registered(o) ==
    {i \in DOMAIN delegates[place[o]] : delegates[place[o]][i].observer = o}

\* ObservableStatePublisher.hpp notify: when no assignment to a state is under way,
\* every observer of it knows the state, although observers come and go between the
\* store, the copy and the calls; unless two assignments were under way at once,
\* whose notifications may be made in the other order.
ObserversKnowTheState ==
    \A o \in Observers :
        LET p == place[o]
        IN  p # Nobody /\ p \notin overlapped /\ (\A t \in Threads : ~Assigning(t, p))
                /\ Registered(o) # {} =>
                    seen[o] = state[p]

\* ObservableStatePublisher.hpp addObserver, removeObserver: the number that was
\* answered removes the observer that it was answered for and no other, unless
\* additions to two publishers were under way at once.
OwnNumber ==
    ~mixed =>
        \A o \in Observers : given[o] # 0 =>
            /\ Cardinality(Registered(o)) = 1
            /\ {i \in DOMAIN delegates[place[o]] : delegates[place[o]][i].id = given[o]}
                   = Registered(o)

=============================================================================
