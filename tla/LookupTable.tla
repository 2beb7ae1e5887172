---------------------------- MODULE LookupTable ------------------------------
(***************************************************************************)
(* shared_lookup_table as pure operators: what its two specialisations do  *)
(* with their containers, an unordered_map (a function from keys to        *)
(* values) and a vector of pairs that is kept sorted (a sequence).  Each   *)
(* operation holds the table's mutex for its whole length but remove_if.   *)
(* The loops over keys, of remove_if and of the vector's subsection, are   *)
(* steps of module TableCalls; their bodies are here.                      *)
(***************************************************************************)
EXTENDS Integers, Sequences

\* locked: the mutex was locked by an assignment and is for ever.
NewTable == [content |-> <<>>, locked |-> FALSE]

Pair(key, value) == [key |-> key, value |-> value]

NotFound == <<"mapped_type()", FALSE>>

-----------------------------------------------------------------------------
(* Copies and moves, the same for both.  The assignments lock both mutexes *)
(* and nothing unlocks them.                                               *)

copied(other) == [content |-> other.content, locked |-> FALSE]

moved(other) == <<copied(other), [other EXCEPT !.content = <<>>]>>

copyAssigned(other) == <<[other EXCEPT !.locked = TRUE], [other EXCEPT !.locked = TRUE]>>

moveAssigned(other) == <<[other EXCEPT !.locked = TRUE], [content |-> <<>>, locked |-> TRUE]>>

clone(table) == copied(table)

clear(table) == [table EXCEPT !.content = <<>>]

empty(table) == DOMAIN table.content = {}

-----------------------------------------------------------------------------
(* std::unordered_map                                                      *)

\* The answer is whether the key is new.
map_add_or_update(table, key, value) ==
    <<[table EXCEPT !.content =
          [k \in DOMAIN @ \cup {key} |-> IF k = key THEN value ELSE @[k]]],
      key \notin DOMAIN table.content>>

map_value_for(table, key) ==
    IF key \in DOMAIN table.content THEN <<table.content[key], TRUE>> ELSE NotFound

map_remove(table, key) ==
    [table EXCEPT !.content = [k \in DOMAIN @ \ {key} |-> @[k]]]

map_get_keys(table) == DOMAIN table.content

map_get_subsection_for(table, keys) ==
    [content |-> [k \in keys \cap DOMAIN table.content |-> table.content[k]], locked |-> FALSE]

-----------------------------------------------------------------------------
(* std::vector                                                             *)

\* 0 is end().
get_value_position_for(table, key) ==
    IF \E i \in DOMAIN table.content : table.content[i].key = key
    THEN CHOOSE i \in DOMAIN table.content :
            /\ table.content[i].key = key
            /\ \A j \in 1..(i - 1) : table.content[j].key # key
    ELSE 0

LeftUnsorted(content) == content     \* mutant: internal_sort is not called
internal_sort(content) ==
    LET places == DOMAIN content
        order == CHOOSE p \in [places -> places] :
                    /\ \A i \in places : \E j \in places : p[j] = i
                    /\ \A i, j \in places : i < j => ~(content[p[j]].key < content[p[i]].key)
    IN  [i \in places |-> content[order[i]]]

\* The answer is always TRUE.
vector_add_or_update(table, key, value) ==
    LET at == get_value_position_for(table, key)
    IN  <<[table EXCEPT !.content = IF at # 0 THEN [@ EXCEPT ![at].value = value]
                                    ELSE internal_sort(Append(@, Pair(key, value)))],
          TRUE>>

vector_value_for(table, key) ==
    LET at == get_value_position_for(table, key)
    IN  IF at # 0 THEN <<table.content[at].value, TRUE>> ELSE NotFound

\* std::remove_if moves the elements with other keys forward, and one is erased
\* behind them.  That is the one with the key, as no other has it; when none has,
\* what is erased is the end, which is undefined.
vector_remove(table, key) ==
    LET at == get_value_position_for(table, key)
    IN  [table EXCEPT !.content =
            IF at = 0 THEN @ ELSE SubSeq(@, 1, at - 1) \o SubSeq(@, at + 1, Len(@))]
vector_remove_is_defined(table, key) ==
    table.content = <<>> \/ get_value_position_for(table, key) # 0

vector_get_keys(table) == [i \in DOMAIN table.content |-> table.content[i].key]

\* One round of the loop over the keys.
vector_subsection_with(subsection, table, key) ==
    LET at == get_value_position_for(table, key)
    IN  IF at = 0 THEN subsection
        ELSE vector_add_or_update(subsection, key, table.content[at].value)[1]

-----------------------------------------------------------------------------
(* container_operations, on the values: f and update are functions of a    *)
(* value, and pred is a set of values.                                     *)

map_for_each(table, f) == [table EXCEPT !.content = [k \in DOMAIN @ |-> f[@[k]]]]
vector_for_each(table, f) ==
    [table EXCEPT !.content = [i \in DOMAIN @ |-> Pair(@[i].key, f[@[i].value])]]

Where(pred, update) == [v \in DOMAIN update |-> IF v \in pred THEN update[v] ELSE v]
map_update_if(table, pred, update) == map_for_each(table, Where(pred, update))
vector_update_if(table, pred, update) == vector_for_each(table, Where(pred, update))

\* What remove_if collects under the lock, to remove it key by key without it.
map_removed_keys(table, pred) ==
    {k \in DOMAIN table.content : table.content[k] \in pred}
vector_removed_keys(table, pred) ==
    {table.content[i].key : i \in {i \in DOMAIN table.content : table.content[i].value \in pred}}

\* A pair of the table whose value is in pred: of the map any one, of the vector
\* that with the smallest key.
map_find_if(table, pred) ==
    LET found == {k \in DOMAIN table.content : table.content[k] \in pred}
    IN  IF found = {} THEN {NotFound} ELSE {<<table.content[k], TRUE>> : k \in found}
vector_find_if(table, pred) ==
    LET found == {i \in DOMAIN table.content : table.content[i].value \in pred}
        first == CHOOSE i \in found : \A j \in found : i <= j
    IN  IF found = {} THEN NotFound ELSE <<table.content[first].value, TRUE>>

=============================================================================
