---------------------------- MODULE AddressCalls -----------------------------
(***************************************************************************)
(* Network addresses that several holders give values to: texts that are   *)
(* addresses or are not, bytes from the system, printed addresses.         *)
(***************************************************************************)
EXTENDS Integers, Sequences

Address == INSTANCE Addresses

CONSTANTS
    Holders,
    Texts,      \* what a host address is set from, or parsed from
    Raws        \* what the system gives

ASSUME TextsAssumption == Texts \subseteq Seq(Nat) /\ Raws \subseteq [1..Address!WIDTH -> Nat]

VARIABLE network    \* holder -> NetworkAddress

Ports == 0..(Address!PORT_LIMIT - 1)

Becomes(h, net) == network' = [network EXCEPT ![h] = net]

SetText(h, text) ==
    Becomes(h, [network[h] EXCEPT !.host = Address!setText(@, text, <<>>)])

SetBytes(h, bytes) ==
    Becomes(h, [network[h] EXCEPT !.host = Address!setBytes(@, bytes)])

SetNamed(h) ==
    \E host \in {Address!setAddressAny(network[h].host), Address!setLocalHost(network[h].host)} :
        Becomes(h, [network[h] EXCEPT !.host = host])

SetPort(h, port) == Becomes(h, [network[h] EXCEPT !.port = port])

\* A text without a separator, or whose port is no number, resets the address.
Parse(h, text) == Becomes(h, Address!networkFromString(network[h], text).net)

AddressesInit == network = [h \in Holders |-> Address!NewNetwork]

AddressesNext ==
    \E h \in Holders :
        \/ \E text \in Texts : SetText(h, text)
        \/ \E bytes \in Raws : SetBytes(h, bytes)
        \/ SetNamed(h)
        \/ \E port \in Ports : SetPort(h, port)
        \/ \E text \in [separated : BOOLEAN, host : Texts, port : Ports \cup {-1}] : Parse(h, text)

AddressesSpec == AddressesInit /\ [][AddressesNext]_network

-----------------------------------------------------------------------------
\* InetSocketAddress.hpp: network addresses are totally ordered, with the equality
\* that the class defines, so that they can be keys; a socket address that was given
\* the system's structure gives it back, also through the network address that it
\* made of it; and a printed address parses to itself.
AddressesKeepTheirMeaning ==
    \A a, b, c \in Holders :
        LET less(x, y) == Address!networkLess(network[x], network[y])
            equal(x, y) == Address!networkEqual(network[x], network[y])
            raw == Address!sockaddr(network[a].port, Address!getAddress(network[a].host))
            made == Address!setSockaddr(
                        Address!setNetwork(Address!NewSocketAddress, network[b]), raw)
            parsed == Address!networkFromString(network[b], Address!networkToString(network[a]))
        IN  /\ less(a, b) \/ less(b, a) \/ equal(a, b)
            /\ ~(less(a, b) /\ less(b, a)) /\ ~(less(a, b) /\ equal(a, b))
            /\ less(a, b) /\ less(b, c) => less(a, c)
            /\ Address!getSockaddr(made) = raw
            /\ Address!setNetwork(Address!NewSocketAddress, made.address) = made
            /\ parsed.ok /\ Address!networkEqual(parsed.net, network[a])

=============================================================================
