----------------------------- MODULE Addresses ------------------------------
(***************************************************************************)
(* Host, network and socket addresses.  A text is a sequence of numbers,   *)
(* well-formed as an address when it has as many as the address has bytes; *)
(* texts are compared element by element.  An address has WIDTH bytes, and *)
(* so the reversal of htonl can be seen with two.                          *)
(***************************************************************************)
EXTENDS Integers, SequencesExt

WIDTH == 2
Byte == 0..2
SEPARATOR == 99
PORT_LIMIT == 4          \* stands for 2^16

Zeros == [i \in 1..WIDTH |-> 0]

\* What an array that was never written holds; read as any bytes.
Unwritten == <<>>

Loopback == <<2, 1>>     \* as on the wire; INADDR_LOOPBACK is a number

htonl(bytes) == Reverse(bytes)

TextLess(a, b) ==
    \/ IsStrictPrefix(a, b)
    \/ \E i \in DOMAIN a \cap DOMAIN b :
          a[i] < b[i] /\ \A j \in 1..(i - 1) : a[j] = b[j]

-----------------------------------------------------------------------------
(* HostAddress.hpp *)

NewHost == [bytes |-> Unwritten, printable |-> <<>>, valid |-> FALSE]

WellFormed(text) == Len(text) = WIDTH /\ \A i \in DOMAIN text : text[i] \in Byte

\* inet_pton answers 0, not -1, for a malformed text and writes nothing; only -1
\* counts as a failure (sys_call_noerr_eval).
extractAddress(bytes, text) == IF WellFormed(text) THEN text ELSE bytes

\* The printable address is the view that was given; inet_pton reads on past its
\* end, up to a zero.
initText(host, view, behind) ==
    [host EXCEPT !.bytes = extractAddress(@, view \o behind), !.printable = view, !.valid = TRUE]

initBytes(host, bytes) == [bytes |-> bytes, printable |-> bytes, valid |-> TRUE]

resetData(host) == [bytes |-> Zeros, printable |-> <<>>, valid |-> FALSE]

Fresh(host) == IF host.valid THEN resetData(host) ELSE host

setText(host, view, behind) == initText(Fresh(host), view, behind)

setBytes(host, bytes) == initBytes(Fresh(host), bytes)

\* The named addresses are numbers: stored in the order of the host, but for
\* setLocalHost, which converts.
setAddressAny(host) == setBytes(host, Zeros)
setLocalHost(host) == setBytes(host, Loopback)
LocalHost == initBytes(NewHost, htonl(Loopback))

toString(host) == IF host.valid THEN host.printable ELSE <<>>

getAddress(host) == IF host.valid THEN host.bytes ELSE Zeros

\* The form with an answer refuses the address any.
getInAddr(host) == [ok |-> getAddress(host) # Zeros, bytes |-> getAddress(host)]

hostEqual(a, b) == toString(a) = toString(b)

hostLess(a, b) == TextLess(toString(a), toString(b))

isLoopback(host) == getAddress(host) = Loopback

\* The sixth version: no conversions, and bytes are compared whether valid or not.
LocalHost6 == initBytes(NewHost, Loopback)
isLoopback6(host) == host.bytes = Loopback
getAddress6(host) == [ok |-> host.valid, bytes |-> host.bytes]
setText6(host, view, behind) == initText(Fresh(host), view, behind)
setBytes6(host, bytes) == initBytes(Fresh(host), bytes)

-----------------------------------------------------------------------------
(* InetSocketAddress.hpp *)

NewNetwork == [port |-> 0, host |-> NewHost]

networkEmpty(net) == net.port = 0 /\ toString(net.host) = <<>>

networkEqual(a, b) == hostEqual(a.host, b.host) /\ a.port = b.port

PortDecidesAlone(a, b) == a.port < b.port
networkLess(a, b) ==
    \/ hostLess(a.host, b.host)
    \/ hostEqual(a.host, b.host) /\ a.port < b.port

\* A text "host:port"; port is -1 where from_chars finds no number.  What follows
\* the host's view in memory is the separator and the port.
networkFromString(net, text) ==
    IF ~text.separated \/ text.port \notin 0..(PORT_LIMIT - 1)
    THEN [ok |-> FALSE, net |-> [port |-> 0, host |-> resetData(net.host)]]
    ELSE [ok |-> TRUE,
          net |-> [port |-> text.port,
                   host |-> setText(resetData(net.host), text.host, <<SEPARATOR, text.port>>)]]

networkToString(net) == [separated |-> TRUE, host |-> toString(net.host), port |-> net.port]

sockaddr(port, bytes) == [port |-> port, bytes |-> bytes]

NewSocketAddress == [address |-> NewNetwork, in_addr |-> sockaddr(0, Zeros)]

\* htonl of an address that was never in the order of the host, unless it came
\* from setAddress(sockaddr).
setNetwork(sock, net) ==
    IF ~net.host.valid THEN sock
    ELSE [address |-> net, in_addr |-> sockaddr(net.port, htonl(getAddress(net.host)))]

setSockaddr(sock, raw) ==
    [address |-> [port |-> raw.port, host |-> setBytes(sock.address.host, htonl(raw.bytes))],
     in_addr |-> raw]

getSockaddr(sock) == sock.in_addr

socketEmpty(sock) == networkEmpty(sock.address)

copySocketAddress(other) == [address |-> other.address, in_addr |-> other.in_addr]

\* Text is parsed into the network address; the socket's own is not told.
socketFromString(sock, text) ==
    LET parsed == networkFromString(sock.address, text)
    IN  [ok |-> parsed.ok, sock |-> [sock EXCEPT !.address = parsed.net]]

\* The sixth version demands a port and leaves its network address alone.
setNetwork6(sock, net) ==
    IF ~net.host.valid \/ net.port <= 0 THEN sock
    ELSE [sock EXCEPT !.in_addr = sockaddr(net.port, getAddress6(net.host).bytes)]

setSockaddr6(sock, raw) ==
    [address |-> [port |-> raw.port, host |-> setBytes6(sock.address.host, raw.bytes)],
     in_addr |-> raw]

copySocketAddress6(other) == [address |-> other.address, in_addr |-> other.in_addr]

-----------------------------------------------------------------------------
(* UnixSocketAddress.cpp, NamedPipeAddress.cpp: a path, and for the former *)
(* the system's structure beside it.                                       *)

NewUnix == [pathname |-> <<>>, sun_path |-> <<>>]

setPath(unx, path) == IF path = <<>> THEN unx ELSE [pathname |-> path, sun_path |-> path]

setSockaddrUn(unx, raw) == [pathname |-> raw, sun_path |-> raw]

copyUnix(other) == [pathname |-> other.pathname, sun_path |-> other.sun_path]

assignUnix(unx, other) == [pathname |-> other.pathname, sun_path |-> other.sun_path]

unixEmpty(unx) == unx.pathname = <<>>

\* A named pipe accepts any path, the empty one too.
pipeFromString(path) == [ok |-> TRUE, pathname |-> path]

-----------------------------------------------------------------------------
(* DeviceAddressFactory.hpp.  A book gives a host (a text or a name of the *)
(* local host) and a port, a path, or nothing.                             *)

createNetwork(host, port) ==
    [port |-> port,
     host |-> IF host = "LOCALHOST" THEN setAddressAny(NewHost) ELSE setText(NewHost, host, <<>>)]

createInet(found, host, port) ==
    IF found THEN setNetwork(NewSocketAddress, createNetwork(host, port)) ELSE NewSocketAddress

createInet6(found, host, port) ==
    IF found THEN setNetwork6(NewSocketAddress, createNetwork(host, port)) ELSE NewSocketAddress

createUnix(found, path) == IF found THEN setPath(NewUnix, path) ELSE NewUnix

=============================================================================
