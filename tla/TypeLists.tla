----------------------------- MODULE TypeLists ------------------------------
(***************************************************************************)
(* The lists the library computes with while it compiles: of types         *)
(* (typelist.hpp), of templates (template_typelist.hpp) and of values      *)
(* (non_typelist.hpp).  A list is a sequence; its operations are written   *)
(* with the recursion of their specialisations.  A predicate is the set of *)
(* the types it holds for, a generator a function of the tags.  On top of  *)
(* them: the calls of init and deinit that a Host makes on its policies.   *)
(***************************************************************************)
EXTENDS Integers, Sequences, FiniteSets

LOCAL INSTANCE SequencesExt

-----------------------------------------------------------------------------
(* typelist.hpp *)

empty_type == "empty_type"

front(list) == IF list = <<>> THEN empty_type ELSE Head(list)

push_front(list, e) == <<e>> \o list

push_back(list, e) == Append(list, e)

\* The recursion stops at index 0 or at the end of the list.
RECURSIVE nth_element(_, _)
nth_element(list, n) ==
    IF n = 0 THEN front(list)
    ELSE IF list = <<>> THEN empty_type ELSE nth_element(Tail(list), n - 1)

RECURSIVE erase_rec(_, _)
erase_rec(list, e) ==
    IF list = <<>> THEN <<>>
    ELSE IF Head(list) = e THEN erase_rec(Tail(list), e)
         ELSE push_front(erase_rec(Tail(list), e), Head(list))

\* Through std::tuple_cat.
concat(lists) == FlattenSeq(lists)

zero_or_one(keep, e) == IF keep THEN <<e>> ELSE <<>>

filter(Pred, list, filterIn) ==
    concat([i \in DOMAIN list |-> zero_or_one((list[i] \in Pred) = filterIn, list[i])])

erase(list, e) == filter({e}, list, FALSE)

RECURSIVE remove_duplicates(_)
remove_duplicates(list) ==
    IF list = <<>> THEN <<>>
    ELSE push_front(remove_duplicates(erase(Tail(list), Head(list))), Head(list))

contains(list, e) == \E i \in DOMAIN list : list[i] = e

\* The list of Generator<tag>::type, for the tags of a value list.
RECURSIVE generate_typelist(_, _)
generate_typelist(Generator, tags) ==
    IF tags = <<>> THEN <<>>
    ELSE push_front(generate_typelist(Generator, Tail(tags)), Generator[Head(tags)])

-----------------------------------------------------------------------------
(* template_typelist.hpp: the same operations, on templates wrapped in a   *)
(* pack, and the searches.                                                 *)

empty_tt == "empty_tt"

default_index_value == -1

ttl_front(list) == IF list = <<>> THEN empty_tt ELSE Head(list)

RECURSIVE ttl_nth_element(_, _)
ttl_nth_element(list, n) ==
    IF n = 0 THEN ttl_front(list)
    ELSE IF list = <<>> THEN empty_tt ELSE ttl_nth_element(Tail(list), n - 1)

RECURSIVE ttl_erase_rec(_, _)
ttl_erase_rec(list, e) ==
    IF list = <<>> THEN <<>>
    ELSE LET tails == ttl_erase_rec(Tail(list), e)
         IN  IF Head(list) = e THEN tails ELSE <<Head(list)>> \o tails

ttl_filter(Pred, list, filterIn) ==
    FlattenSeq([i \in DOMAIN list |->
        IF (list[i] \in Pred) = filterIn THEN <<list[i]>> ELSE <<>>])

ttl_erase(list, e) == ttl_filter({e}, list, FALSE)

RECURSIVE ttl_remove_duplicates(_)
ttl_remove_duplicates(list) ==
    IF list = <<>> THEN <<>>
    ELSE <<Head(list)>> \o ttl_remove_duplicates(ttl_erase(Tail(list), Head(list)))

\* find_first_by_index_helper<Pred, list, n>.
RECURSIVE find_first_by_index(_, _, _)
find_first_by_index(Pred, list, n) ==
    IF list = <<>> THEN -1
    ELSE IF Head(list) \in Pred THEN n ELSE find_first_by_index(Pred, Tail(list), n + 1)

any_of(list, Pred) == \E i \in DOMAIN list : list[i] \in Pred

RECURSIVE get_index_by_type(_, _)
get_index_by_type(list, e) ==
    IF list = <<>> THEN default_index_value
    ELSE IF Head(list) = e THEN 0
    ELSE LET temp == get_index_by_type(Tail(list), e)
         IN  IF temp = default_index_value THEN default_index_value ELSE 1 + temp

intersect(list1, list2) ==
    ttl_filter({e \in ToSet(list1) : get_index_by_type(list2, e) # default_index_value},
               list1, TRUE)

-----------------------------------------------------------------------------
(* non_typelist.hpp: default_value<int> is -1, that of size_t is 0. *)

ntl_front(list) == IF list = <<>> THEN -1 ELSE Head(list)

RECURSIVE ntl_back(_)
ntl_back(list) == IF Len(list) = 1 THEN Head(list) ELSE ntl_back(Tail(list))

\* The member type of the list travels along the recursion, and with it the
\* default for an index past the end; at index 0 the rest may be the empty list,
\* whose front is that of int.
RECURSIVE ntl_nth_element(_, _, _)
ntl_nth_element(list, n, default) ==
    IF n = 0 THEN ntl_front(list)
    ELSE IF list = <<>> THEN default ELSE ntl_nth_element(Tail(list), n - 1, default)

-----------------------------------------------------------------------------
(* policies_initializer.hpp.  A policy either has no init (its call        *)
(* succeeds) or one that answers; the indices called are returned, with    *)
(* the answer of the whole.                                                *)

invokeInit(policy) == policy # "fails"

RECURSIVE initDispatch(_, _)
initDispatch(policies, n) ==
    IF n >= Len(policies) THEN [called |-> <<>>, ok |-> TRUE]
    ELSE LET ok == invokeInit(nth_element(policies, n))
             rest == IF ok THEN initDispatch(policies, n + 1)
                     ELSE [called |-> <<>>, ok |-> FALSE]
         IN  [called |-> <<n + 1>> \o rest.called, ok |-> rest.ok]

\* size - 1 is computed without a sign: of the empty list it is no bound, and the
\* empty type ends the recursion.  Of any other it stops one short.
RECURSIVE deinitDispatcher(_, _)
deinitDispatcher(policies, n) ==
    IF policies # <<>> /\ n >= Len(policies) - 1 THEN <<>>
    ELSE IF nth_element(policies, n) = empty_type THEN <<>>
    ELSE <<n + 1>> \o deinitDispatcher(policies, n + 1)

\* AccessContextHierarchy: a Host derives from its policies in the order they are
\* written, each of them made a friend of the hierarchy that starts with it.
RECURSIVE ConcretePluginsTList(_)
ConcretePluginsTList(plugins) ==
    IF plugins = <<>> THEN <<>>
    ELSE push_front(ConcretePluginsTList(Tail(plugins)), Head(plugins))

-----------------------------------------------------------------------------
(* The assertions of Driver/meta.cpp that do not follow from a single      *)
(* specialisation: the lists on which its author checked the library.      *)

ttl_asserts ==
    LET fifth == <<"2", "4", "2", "5">>
        duplicates == <<"1", "2", "1", "3", "3", "2", "1", "4", "5", "4", "2", "5">>
        singles == <<"1", "2", "3", "4", "5">>
    IN  /\ ttl_erase_rec(fifth, "2") = <<"4", "5">>
        /\ ttl_erase(fifth, "2") = <<"4", "5">>
        /\ ttl_filter({"2"}, fifth, FALSE) = <<"4", "5">>
        /\ concat(<< <<"2", "3">>, <<"4", "5">>, <<"1">> >>) = <<"2", "3", "4", "5", "1">>
        /\ ttl_remove_duplicates(duplicates) = singles
        /\ ttl_nth_element(singles, 0) = "1"
        /\ ttl_nth_element(singles, 3) = "4"
        /\ any_of(fifth, {"2"})
        /\ ~any_of(<<"3", "1">>, {"2"})
        /\ get_index_by_type(<<"2", "3", "4", "5", "1">>, "4") = 2
        /\ intersect(<<"2", "4", "3">>, <<"5", "3", "2">>) = <<"2", "3">>

tl_asserts ==
    LET integers == <<"bool", "int", "signed char", "int", "long", "int", "long long">>
        sans_int == <<"bool", "signed char", "long", "long long">>
        floating == <<"float", "double">>
        all == sans_int \o floating
    IN  /\ erase_rec(integers, "int") = sans_int
        /\ concat(<<sans_int, floating>>) = all
        /\ filter({"float", "double"}, all, TRUE) = floating
        /\ erase(integers, "int") = sans_int
        /\ remove_duplicates(integers) =
               <<"bool", "int", "signed char", "long", "long long">>
        /\ nth_element(all, 3) = "long long"
        /\ contains(all, "signed char")
        /\ push_back(<<"float", "long">>, "char") = <<"float", "long", "char">>
        /\ generate_typelist([tag \in 1..4 |-> <<tag, "double">>], <<1, 2, 3, 4>>) =
               [i \in 1..4 |-> <<i, "double">>]

ntl_asserts ==
    /\ ntl_front(<<3250, 56111, 3877>>) = 3250
    /\ ntl_back(<<3250, 56111, 3877>>) = 3877
    /\ ntl_nth_element(<<1, 2, 3>>, 2, 0) = 3

=============================================================================
