-------------------------- MODULE RuntimeDispatch ---------------------------
(***************************************************************************)
(* From a configured device to the endpoint it is used through.  A tag     *)
(* read from the configuration selects the transport traits to set up; the *)
(* endpoint comes back behind an interface, and the adapter finds its type *)
(* again by the tag to call it.  Types are values: a device by its         *)
(* address, domain and profile, an endpoint by what it is composed of.     *)
(***************************************************************************)
EXTENDS TypeLists

LOCAL INSTANCE SequencesExt

-----------------------------------------------------------------------------
(* DeviceDefinitions.h, DeviceFactory.hpp *)

undefined_device_tag == 0

\* The devices by their tags: EDeviceType without its first and last.
DeviceTypes ==
    [i \in 1..8 |->
        [address |-> <<"ipv4", "ipv4", "ipv6", "ipv6", "unix", "unix", "pipe", "pipe">>[i],
         profile |-> IF i \in {1, 3, 5} THEN "stream" ELSE
                     IF i \in {2, 4, 6} THEN "datagram" ELSE
                     IF i = 7 THEN "reading" ELSE "writing"]]

EmptyDevice == [address |-> "none", profile |-> "none"]

default_device_set == [i \in 1..8 |-> i]

Device2Type(tag) == IF tag \in DOMAIN DeviceTypes THEN DeviceTypes[tag] ELSE EmptyDevice

Type2DeviceTag(device) ==
    IF \E tag \in DOMAIN DeviceTypes : DeviceTypes[tag] = device
    THEN CHOOSE tag \in DOMAIN DeviceTypes : DeviceTypes[tag] = device
    ELSE undefined_device_tag

createDevice(tag, policies) == [client |-> Device2Type(tag), plugins |-> policies]

-----------------------------------------------------------------------------
(* transport_traits.hpp.  Client traits are records; a member type that is *)
(* absent is absent from the domain.                                       *)

default_client_traits ==
    [DeviceSet |-> <<1>>,
     DevicePolicies |-> <<"ConnectionPolicy", "ResourceStatusPolicy", "GenericIOPolicy">>,
     ExportPolicies |-> <<"ResourceStatusPolicy", "SeekableOperations">>,
     TransportPolicies |-> <<>>, Role |-> "ClientCallbackPolicy"]

default_server_traits ==
    [DeviceSet |-> default_device_set, DevicePolicies |-> <<"AcceptorPolicy", "GenericIOPolicy">>,
     ExportPolicies |-> <<>>, TransportPolicies |-> <<>>, Role |-> "ServerCallbackPolicy",
     PeerTraits |-> default_client_traits,
     EndpointStoragePolicy |-> "AssociativeEndpointStorage"]

device_host_t(tag, client) == createDevice(tag, ttl_remove_duplicates(client.DevicePolicies))

\* Without a policy to export there is no exporter; the policies to export are
\* those that the device has.
transport_policies_t(client) ==
    LET export == intersect(client.ExportPolicies, client.DevicePolicies)
    IN  IF export = <<>> THEN client.TransportPolicies
        ELSE push_back(client.TransportPolicies, <<"Exporter", export>>)

generate_transport_endpoint(device, client, storage) ==
    [Device |-> device, role |-> client.Role, storage |-> storage,
     plugins |-> ttl_remove_duplicates(transport_policies_t(client))]

\* A server's storage holds the endpoints of its peers: of the same tag, composed
\* after the peers' traits.
generate_endpoint_storage(tag, client) ==
    IF ~({"PeerTraits", "EndpointStoragePolicy"} \subseteq DOMAIN client) THEN empty_type
    ELSE [policy |-> client.EndpointStoragePolicy,
          endpoint |-> generate_transport_endpoint(
              device_host_t(tag, client.PeerTraits), client.PeerTraits, empty_type)]

transport_endpoint_t(tag, client) ==
    generate_transport_endpoint(device_host_t(tag, client), client,
                                generate_endpoint_storage(tag, client))

generate_device_typelist(set, client) ==
    generate_typelist([tag \in ToSet(set) |-> createDevice(tag, client.DevicePolicies)], set)

generate_endpoint_typelist(client) ==
    generate_typelist([tag \in ToSet(client.DeviceSet) |-> transport_endpoint_t(tag, client)],
                      client.DeviceSet)

get_devices_from_endpoint_typelist(list) == [i \in DOMAIN list |-> list[i].Device]

\* Of the type at an index, if there is one.
Nowhere == <<>>

type_to_device_tag(found) ==
    IF found = Nowhere THEN undefined_device_tag ELSE Type2DeviceTag(found[1].Device.client)

-----------------------------------------------------------------------------
(* runtime_dispatcher.hpp.  The value of a dispatch is the type that the   *)
(* callable is called for, at most one.                                    *)

Reaches(list, N) == IF N < Len(list) THEN <<nth_element(list, N)>> ELSE Nowhere

RECURSIVE dispatch_helper(_, _, _)
dispatch_helper(list, N, tag) ==
    IF N = tag THEN Reaches(list, N)
    ELSE IF N < Len(list) - 1 THEN dispatch_helper(list, N + 1, tag) ELSE Nowhere

\* Compares the tag of the type at N, but goes on by the index.
dispatch_helper_mapped(list, N, tag) ==
    LET object_t == Reaches(list, N)
    IN  IF type_to_device_tag(object_t) = tag THEN object_t
        ELSE IF N < Len(list) - 1 THEN dispatch_helper(list, N + 1, tag) ELSE Nowhere

\* What the members that a callable dispatches to return, by role.
Members(T) ==
    IF T.role = "ClientCallbackPolicy"
    THEN [send |-> "ssize_t", connect |-> "bool", registerInputCallback |-> "bool",
          registerDisconnectionCallback |-> "bool"]
    ELSE [send |-> "ssize_t", bind |-> "bool", registerClientInputCallback |-> "bool",
          registerClientConnectionCallback |-> "bool",
          registerClientDisconnectionCallback |-> "bool"]

return_variant(list, Member) ==
    LET having == filter({T \in ToSet(list) : Member \in DOMAIN Members(T)}, list, TRUE)
        returns == [i \in DOMAIN having |-> Members(having[i])[Member]]
    IN  push_front(remove_duplicates(erase(returns, "void")), "monostate")

\* Which alternative the answer holds: the first, unless the call was made and
\* its result is one of the alternatives.
call(list, tag, Member) ==
    LET reached == dispatch_helper_mapped(list, 0, tag)
        holds == IF reached # Nowhere /\ Member \in DOMAIN Members(reached[1])
                 THEN Members(reached[1])[Member] ELSE "monostate"
    IN  [reached |-> reached,
         holds |-> IF contains(return_variant(list, Member), holds) THEN holds ELSE "monostate"]

-----------------------------------------------------------------------------
(* ConnectorClient.cpp: the tag of a section.  A section is a function of  *)
(* its keys.                                                               *)

Lower == [SOCKET |-> "socket", Pipe |-> "pipe", Stream |-> "stream", IPv4 |-> "ipv4"]

toLower(value) == IF value \in DOMAIN Lower THEN Lower[value] ELSE value

\* Both inet domains have the tags of the fourth version.
SocketConfigInfoToType ==
    [datagram |-> [ipv4 |-> 2, ipv6 |-> 2, unix |-> 6], stream |-> [ipv4 |-> 1, ipv6 |-> 1, unix |-> 5]]

getSocketDeviceType(section) ==
    IF ~({"SOCKET_TYPE", "SOCKET_DOMAIN"} \subseteq DOMAIN section) THEN undefined_device_tag
    ELSE LET type == toLower(section.SOCKET_TYPE)
             dom == toLower(section.SOCKET_DOMAIN)
         IN  IF type \in DOMAIN SocketConfigInfoToType /\ dom \in {"ipv4", "ipv6", "unix"}
             THEN SocketConfigInfoToType[type][dom] ELSE undefined_device_tag

\* The profile is the other side's: who is to write is read from.
getPipeDeviceType(section) ==
    IF "PROFILE" \notin DOMAIN section THEN undefined_device_tag
    ELSE CASE toLower(section.PROFILE) = "write" -> 7
           [] toLower(section.PROFILE) = "read" -> 8
           [] OTHER -> undefined_device_tag

getDeviceType(section) ==
    IF "DEVICE_TYPE" \notin DOMAIN section THEN undefined_device_tag
    ELSE CASE toLower(section.DEVICE_TYPE) = "socket" -> getSocketDeviceType(section)
           [] toLower(section.DEVICE_TYPE) = "pipe" -> getPipeDeviceType(section)
           [] OTHER -> undefined_device_tag

\* DeviceAddressFactory: which keys an address is made of.  The address of the
\* sixth version does not notice that it was set (see module Addresses).
createAddressEmpty(tag, section) ==
    LET address == Device2Type(tag).address
    IN  CASE address = "ipv4" -> ~({"HOST", "SERVICE"} \subseteq DOMAIN section)
          [] address = "ipv6" -> TRUE
          [] OTHER -> "PATHNAME" \notin DOMAIN section

-----------------------------------------------------------------------------
(* DeviceTypeSelector.hpp *)

RECURSIVE forward_helper(_, _, _)
StopsOneShort(set, TagIndex, device_tag) ==
    IF Len(set) > 1 /\ TagIndex = Len(set) - 1 THEN undefined_device_tag
    ELSE IF ntl_nth_element(set, TagIndex, 0) = device_tag THEN device_tag
    ELSE IF TagIndex < Len(set) - 1 THEN forward_helper(set, TagIndex + 1, device_tag)
         ELSE undefined_device_tag
forward_helper(set, TagIndex, device_tag) ==
    LET static_tag == ntl_nth_element(set, TagIndex, 0)
    IN  IF static_tag = device_tag THEN static_tag
        ELSE IF TagIndex < Len(set) - 1 THEN forward_helper(set, TagIndex + 1, device_tag)
             ELSE undefined_device_tag

\* The traits that the callable is called with, by their tag; the default set is
\* a switch, any other is searched.
forward(set, device_tag) ==
    IF set = default_device_set
    THEN IF device_tag \in 1..8 THEN device_tag ELSE undefined_device_tag
    ELSE forward_helper(set, 0, device_tag)

\* ConnectionInitializerAdapter::connect with the tag as an argument: the traits
\* that setup is called with.
adapterConnect(client, device_tag, section) ==
    LET traits == forward(client.DeviceSet, device_tag)
    IN  IF traits = undefined_device_tag \/ createAddressEmpty(traits, section)
        THEN undefined_device_tag ELSE traits

\* DeviceTypeSelector::connect knows one device only.
selectorConnect(device_tag) == IF device_tag = 1 THEN device_tag ELSE undefined_device_tag

-----------------------------------------------------------------------------
(* DynamicTransportEndpointAdaptor.h, ConnectorClient.h *)

\* An adapter takes an endpoint of its own role only.
adapterInit(role, endpoint) == endpoint # Nowhere /\ endpoint[1].role = role

\* The member for the disconnection stores its callback and answers no.
registerCallback(list, tag, Member) ==
    call(list, tag, Member).holds = "bool" /\ Member # "registerDisconnectionCallback"

\* What becomes of a client that is initialised from a section, and the endpoint
\* that the two callbacks it registers on completion reach; it does not look at
\* the answers.
clientInit(client, section) ==
    LET tag == getDeviceType(section)
        traits == IF tag = undefined_device_tag THEN undefined_device_tag
                  ELSE adapterConnect(client, tag, section)
        endpoint == IF traits = undefined_device_tag THEN Nowhere
                    ELSE <<transport_endpoint_t(traits, client)>>
        ready == adapterInit("ClientCallbackPolicy", endpoint)
        to(Member) == call(generate_endpoint_typelist(client), tag, Member).reached
    IN  [tag |-> tag, endpoint |-> endpoint, ready |-> ready,
         called |-> IF ~ready THEN {}
                    ELSE {to("registerInputCallback"), to("registerDisconnectionCallback")}]

\* A server reads the tag, and then sets up the reading pipe whatever it is.
serverInit(server, section) ==
    IF getDeviceType(section) = undefined_device_tag \/ createAddressEmpty(7, section)
    THEN Nowhere ELSE <<transport_endpoint_t(7, server)>>

=============================================================================
