----------------------------- MODULE TableCalls ------------------------------
(***************************************************************************)
(* Two shared_lookup_tables that are given the same calls, one over an     *)
(* unordered_map and one over a sorted vector: a client may take either,   *)
(* and should not be able to tell which.                                   *)
(*                                                                         *)
(* remove_if and the vector's get_subsection_for go through their keys one *)
(* by one, with an operation of a table for each: a step for each here.    *)
(***************************************************************************)
EXTENDS Integers, Sequences

CONSTANTS Keys, Values

\* A key type of the vector has operator< and operator==; integers stand for it.
ASSUME KeysAssumption == Keys \subseteq Int

VARIABLES
    map, vector,    \* the two tables
    removed_keys,   \* of a remove_if under way, the keys that are left
    section         \* the keys asked for so far, and the vector's subsection of them

tablesVars == <<map, vector, removed_keys, section>>

Table == INSTANCE LookupTable

NewSection == [asked |-> {}, part |-> Table!NewTable]

-----------------------------------------------------------------------------
\* An operation needs the mutex, which an assignment keeps.  The subsection that was
\* taken is of the tables as they were.
Operation ==
    /\ ~map.locked /\ ~vector.locked /\ removed_keys = {}
    /\ section' = NewSection

AddOrUpdate(key, value) ==
    /\ Operation
    /\ map' = Table!map_add_or_update(map, key, value)[1]
    /\ vector' = Table!vector_add_or_update(vector, key, value)[1]
    /\ UNCHANGED removed_keys

\* A client removes what is in the table, or nothing from an empty one.
RemoveKey(key) ==
    /\ Operation
    /\ key \in Table!map_get_keys(map) \/ Table!empty(map)
    /\ map' = Table!map_remove(map, key)
    /\ vector' = Table!vector_remove(vector, key)
    /\ UNCHANGED removed_keys

RemoveIf(pred) ==
    /\ Operation
    /\ removed_keys' = Table!vector_removed_keys(vector, pred)
    /\ UNCHANGED <<map, vector>>

\* The order is the vector's, or whatever the map's is.
RemoveNext(key) ==
    /\ key \in removed_keys
    /\ map' = Table!map_remove(map, key)
    /\ vector' = Table!vector_remove(vector, key)
    /\ removed_keys' = removed_keys \ {key}
    /\ UNCHANGED section

UpdateIf(pred, update) ==
    /\ Operation
    /\ map' = Table!map_update_if(map, pred, update)
    /\ vector' = Table!vector_update_if(vector, pred, update)
    /\ UNCHANGED removed_keys

Clear ==
    /\ Operation
    /\ map' = Table!clear(map) /\ vector' = Table!clear(vector)
    /\ UNCHANGED removed_keys

\* The client goes on with the new table, or with the one that was moved from.
Move ==
    /\ Operation
    /\ \E i \in 1..2 : map' = Table!moved(map)[i] /\ vector' = Table!moved(vector)[i]
    /\ UNCHANGED removed_keys

\* Both are assigned the subsection that was taken last.
Assign ==
    /\ Operation
    /\ map' = Table!copyAssigned(Table!map_get_subsection_for(map, section.asked))[1]
    /\ vector' = Table!moveAssigned(section.part)[1]
    /\ UNCHANGED removed_keys

AskFor(key) ==
    /\ ~map.locked /\ ~vector.locked /\ removed_keys = {}
    /\ section' = [asked |-> section.asked \cup {key},
                   part |-> Table!vector_subsection_with(section.part, vector, key)]
    /\ UNCHANGED <<map, vector, removed_keys>>

TablesInit ==
    /\ map = Table!NewTable /\ vector = Table!NewTable
    /\ removed_keys = {} /\ section = NewSection

TablesNext ==
    \/ \E key \in Keys, value \in Values : AddOrUpdate(key, value)
    \/ \E key \in Keys : RemoveKey(key) \/ RemoveNext(key) \/ AskFor(key)
    \/ \E pred \in SUBSET Values : RemoveIf(pred)
    \/ \E pred \in SUBSET Values, update \in [Values -> Values] : UpdateIf(pred, update)
    \/ Clear \/ Move \/ Assign

TablesSpec == TablesInit /\ [][TablesNext]_tablesVars

-----------------------------------------------------------------------------
\* shared_lookup_table.hpp: whatever calls were made, the two tables hold the same
\* pairs and answer the same, also the parts and copies made of them, and remove_if
\* collects the same keys; the vector is sorted without a key twice, which is what
\* the erasing of one element counts on, and that element is there.
TablesAgree ==
    LET keys == Table!vector_get_keys(vector)
        part == Table!map_get_subsection_for(map, section.asked)
    IN  /\ \A i \in 1..(Len(keys) - 1) : keys[i] < keys[i + 1]
        /\ {keys[i] : i \in DOMAIN keys} = Table!map_get_keys(map)
        /\ Table!empty(map) <=> Table!empty(vector)
        /\ \A k \in Keys :
              /\ Table!vector_value_for(vector, k) = Table!map_value_for(map, k)
              /\ Table!vector_value_for(section.part, k) = Table!map_value_for(part, k)
              /\ Table!vector_value_for(Table!clone(vector), k) =
                    Table!map_value_for(Table!copied(map), k)
              /\ Table!map_remove(map, k) # map => Table!vector_remove_is_defined(vector, k)
        /\ \A pred \in SUBSET Values :
              /\ Table!vector_find_if(vector, pred) \in Table!map_find_if(map, pred)
              /\ Table!vector_removed_keys(vector, pred) = Table!map_removed_keys(map, pred)
        /\ \A key \in removed_keys : Table!vector_remove_is_defined(vector, key)
        /\ vector.locked = map.locked

=============================================================================
