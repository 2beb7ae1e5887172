------------------------------ MODULE MCClient -------------------------------
(***************************************************************************)
(* A client for TLC: one endpoint through its life (ClientEndpoint), and   *)
(* what it is set up from.  The tables, the addresses and the status of a  *)
(* file are machines of their own; the configuration, the device and the   *)
(* endpoint type that are chosen by it, and the events it is told of, are  *)
(* pure operators, of which an input is chosen.  None of these depends on  *)
(* another: a behaviour is of one part.                                    *)
(***************************************************************************)
EXTENDS ClientEndpoint, TableCalls, AddressCalls, FileStatusCalls

CONSTANT NoInput

VARIABLES
    part,       \* the part of the client that this behaviour is of
    input       \* <<kind, what>>

Types == INSTANCE RuntimeDispatch
Configuration == INSTANCE ConfigurationTable

\* The proofs about ServerClients and ClientEndpoint rest on this.  It has no parameter:
\* TLC sorts every set of events there is.
ASSUME SortAssumption == DeliveredFromMask /\ DeliveredWhole

SeqsUpTo(S, n) == UNION {[1..k -> S] : k \in 0..n}

-----------------------------------------------------------------------------
(* Inputs *)

Lists == SeqsUpTo({"a", "b", "c"}, 3) \X SeqsUpTo({"a", "b", "fails"}, 3)

\* Keys that are missing, a value that is not known, and cases that differ.
Sections ==
    LET pick(key, values) == {<<key, v>> : v \in values \cup {"missing"}}
        made(pairs) == [k \in {p[1] : p \in {p \in pairs : p[2] # "missing"}} |->
                              (CHOOSE p \in pairs : p[1] = k /\ p[2] # "missing")[2]]
    IN  {made({d, t, m, p, h, <<"SERVICE", "service">>, <<"PATHNAME", "path">>}) :
            d \in pick("DEVICE_TYPE", {"SOCKET", "Pipe", "other"}),
            t \in pick("SOCKET_TYPE", {"Stream", "datagram"}),
            m \in pick("SOCKET_DOMAIN", {"IPv4", "ipv6", "unix", "other"}),
            p \in pick("PROFILE", {"read", "write"}),
            h \in pick("HOST", {"host"})}

TagSets == {set \in SeqsUpTo(1..8, 3) : \A i, j \in DOMAIN set : i # j => set[i] # set[j]}

\* Sections with at least one pair each, under names of their own, whose values
\* may hold the separator of the pairs.
Pair == [key : {<<"k">>, <<"one">>}, value : {<<>>, <<"one">>, <<"one", "=">>, <<"=", "w">>}]
Contents ==
    LET pairs == SeqsUpTo(Pair, 2) \ {<<>>}
    IN  {<<[name |-> <<"s">>, pairs |-> p]>> : p \in pairs}
            \cup {<<[name |-> <<"s">>, pairs |-> p], [name |-> <<"t">>, pairs |-> q]>> :
                     p \in pairs, q \in {q \in pairs : Len(q) = 1}}

-----------------------------------------------------------------------------
(* What the machines are given *)

C_Texts == {<<0>>, <<1, 0>>}
C_Raws == {<<1, 2>>}
C_OpenFiles ==
    [access : {"RDONLY", "WRONLY", "RDWR"}, flags : SUBSET {"APPEND", "NONBLOCK", "DSYNC"}]
C_Flags == {{"APPEND"}, {"NONBLOCK"}}
C_Refusals == {{}, {"APPEND"}}
C_Masks == SUBSET {0, 1, 8}

-----------------------------------------------------------------------------
MCInit ==
    /\ part \in {"endpoint", "tables", "addresses", "file", "input"}
    /\ EndpointInit /\ TablesInit /\ AddressesInit /\ FileInit /\ input = NoInput
    /\ part # "endpoint" => direct
    /\ part # "file" => /\ file = (CHOOSE f \in OpenFiles : TRUE)
                        /\ permissions = Status!FilePermissions({})

Choose(kind, inputs) == \E i \in inputs : input' = <<kind, i>>

ChooseInput ==
    \/ Choose("lists", Lists)
    \/ Choose("section", Sections)
    \/ Choose("tags", TagSets \X (1..8))
    \/ Choose("contents", Contents)
    \/ Choose("mask", SUBSET Event)

MCNext ==
    \/ /\ part = "endpoint" /\ EndpointNext
       /\ UNCHANGED <<part, tablesVars, network, fileVars, input>>
    \/ /\ part = "tables" /\ TablesNext
       /\ UNCHANGED <<part, endpointVars, network, fileVars, input>>
    \/ /\ part = "addresses" /\ AddressesNext
       /\ UNCHANGED <<part, endpointVars, tablesVars, fileVars, input>>
    \/ /\ part = "file" /\ FileNext
       /\ UNCHANGED <<part, endpointVars, tablesVars, network, input>>
    \/ /\ part = "input" /\ input = NoInput /\ ChooseInput
       /\ UNCHANGED <<part, endpointVars, tablesVars, network, fileVars>>

Given(kind) == input # NoInput /\ input[1] = kind

-----------------------------------------------------------------------------
(* Properties *)

Distinct(list) == \A i, j \in DOMAIN list : list[i] = list[j] => i = j

\* typelist.hpp, template_typelist.hpp, policies_initializer.hpp: the recursions
\* compute what they are named for, on the lists of the repository's own assertions
\* (Driver/meta.cpp) and on every other; init stops at the first policy that fails.
ListsAgree(list, policies) ==
    /\ Distinct(Types!remove_duplicates(list)) /\ Range(Types!remove_duplicates(list)) = Range(list)
    /\ Types!ttl_remove_duplicates(list) = Types!remove_duplicates(list)
    /\ \A e \in {"a", "b"} :
          /\ Types!erase(list, e) = SelectSeq(list, LAMBDA x : x # e)
          /\ Types!erase_rec(list, e) = Types!erase(list, e)
          /\ LET at == Types!get_index_by_type(list, e)
             IN  IF at = -1 THEN e \notin Range(list)
                 ELSE /\ Types!nth_element(list, at) = e
                      /\ \A i \in 1..at : list[i] # e
    /\ Types!intersect(list, policies) = SelectSeq(list, LAMBDA e : e \in Range(policies))
    /\ LET done == Types!initDispatch(policies, 0)
           ran == Len(done.called)
       IN  /\ done.called = [i \in 1..ran |-> i]
           /\ done.ok <=> "fails" \notin Range(policies)
           /\ done.ok => ran = Len(policies)
           /\ ~done.ok => "fails" \notin Range(SubSeq(policies, 1, ran - 1)) /\ policies[ran] = "fails"
    /\ Types!ttl_asserts /\ Types!tl_asserts /\ Types!ntl_asserts

\* ConnectorClient.h, DeviceTypeSelector.hpp, runtime_dispatcher.hpp: whatever a
\* section says, a client that its adapter accepts has the device of that section,
\* and what is called through the adapter reaches this very endpoint, although its
\* type is found again from a number.  With one device in the set; the dispatch by
\* tags goes on by indices, and misses with several.
EndpointIsReached(settings) ==
    \A tag \in 1..8 :
        LET client == [Types!default_client_traits EXCEPT !.DeviceSet = <<tag>>]
            done == Types!clientInit(client, settings)
        IN  done.ready => /\ done.tag = tag /\ done.called = {done.endpoint}
                          /\ done.endpoint[1].Device.client = Types!Device2Type(done.tag)
                          /\ done.endpoint[1].role = client.Role

\* DeviceTypeSelector.hpp: of the devices in a set the one with the tag is chosen,
\* and none for any other tag.
ForwardedAsAsked(set, tag) ==
    Types!forward(set, tag) = (IF tag \in Range(set) THEN tag ELSE Types!undefined_device_tag)

\* The conversions of types and tags do together what a client relies on: the lists
\* are what their names say, an adapter reaches the endpoint it was given, and a
\* tag is forwarded to its own traits.
CallsArrive ==
    /\ Given("lists") => ListsAgree(input[2][1], input[2][2])
    /\ Given("section") => EndpointIsReached(input[2])
    /\ Given("tags") => ForwardedAsAsked(input[2][1], input[2][2])

\* A file as it is written: of characters, each of them a string.
Written(pairs) ==
    FlattenSeq([i \in DOMAIN pairs |->
        pairs[i].key \o <<Configuration!Equals>> \o pairs[i].value \o <<Configuration!Endline>>])

Text(sections) ==
    FlattenSeq([i \in DOMAIN sections |->
        <<Configuration!Open>> \o sections[i].name
            \o <<Configuration!Close, Configuration!Endline>> \o Written(sections[i].pairs)])

\* ConfigurationReader.cpp, ConfigurationBook.hpp: a file of sections with pairs is
\* read back as what was written, whatever separators the values hold, and the
\* first pair of a key is the one that is found.
ConfigurationIsReadBack ==
    Given("contents") =>
        LET book == Configuration!initFrom(Configuration!NewBook(Configuration!NoStream),
                                           TRUE, Text(input[2]))
            first(pairs, key) == SelectSeq(pairs, LAMBDA p : p.key = key)
        IN  /\ Configuration!fillTable(Text(input[2])).defined
            /\ book.ok /\ Configuration!isReady(book)
            /\ DOMAIN book.table = {input[2][i].name : i \in DOMAIN input[2]}
            /\ \A i \in DOMAIN input[2] :
                  /\ book.table[input[2][i].name] = input[2][i].pairs
                  /\ \A key \in {<<"k">>, <<"one">>} :
                        LET is == first(input[2][i].pairs, key)
                        IN  Configuration!valueFor(book, input[2][i].name, key, "text") =
                                IF is = <<>> THEN <<>> ELSE <<is[1].value>>

\* EpollDemultiplexer.h, Reactor.hpp: of a notification every event is handled, once,
\* although the comparator of the sort holds both ways for some pairs; shutdown,
\* hang-up, output and input come in this order, so that an end is seen before what
\* can still be read or written, but the hang-up of a descriptor that has input left
\* waits for another notification.
EndsComeFirst ==
    Given("mask") =>
        LET mask == input[2]
            events == Delivered(mask)
        IN  /\ Distinct(events)
            /\ Range(events) = IF In \in mask THEN mask \ {Hup} ELSE mask
            /\ \A i, j \in DOMAIN events :
                  i < j /\ {events[i], events[j]} \subseteq {Shutdown, Hup, Out, In} =>
                      events[i] > events[j]

=============================================================================
