---------------------------------- MODULE Ip ----------------------------------
(***************************************************************************)
(* The IP layer of src/ip.c as operators over its three registries: the    *)
(* routing table, the list of interfaces and the list of upper protocols.  *)
(* The registries are written only before net_run() (the NOTE at the top   *)
(* of ip.c), by the program's startup on the main thread, so they are      *)
(* built here by folding the registration calls of a startup sequence;     *)
(* afterwards ip_input and ip_output only read them.                       *)
(*                                                                         *)
(* Addresses are W-bit numbers in host order (ntoh32 of the ip_addr_t):    *)
(* a network test, & and the netmask comparison mean the same at any       *)
(* width. Payloads, lengths and checksums are left out: every datagram the *)
(* model carries is built by ip_output_core, whose header always passes    *)
(* the checks at the top of ip_input, and the devices of src/driver have   *)
(* an MTU of UINT16_MAX.                                                   *)
(***************************************************************************)
EXTENDS Naturals, FiniteSets, Sequences, SequencesExt, Bitwise

CONSTANTS
    W,          \* address width in bits
    Conf,       \* [Ifaces -> [dev, unicast, netmask]]: ip_iface_alloc's arguments
    NoIface,    \* NULL where an interface is expected
    NoRoute     \* NULL where a route is expected

Ifaces == DOMAIN Conf
Addr == 0 .. (2^W - 1)

IP_ADDR_ANY == 0
IP_ADDR_BROADCAST == 2^W - 1

\* ip_iface_alloc: the broadcast address is (unicast & netmask) | ~netmask.
Broadcast(i) ==
    (Conf[i].unicast & Conf[i].netmask) | (IP_ADDR_BROADCAST - Conf[i].netmask)

-----------------------------------------------------------------------------
(* The registries and the calls that fill them.                            *)
(*   routes     the routing table, newest first (ip_route_add prepends);   *)
(*   ifaces     the ip_iface list, newest first: ip_iface->next;           *)
(*   devif      the IP interface of each device (dev->ifaces; one per      *)
(*              family, net_device_add_iface refuses a second);            *)
(*   protocols  the upper protocols, newest first.                         *)

EmptyTables(Devices) ==
    [routes |-> <<>>, ifaces |-> <<>>,
     devif |-> [d \in Devices |-> NoIface], protocols |-> <<>>]

\* ip_route_add: the new route is put at the head of the table.
ip_route_add(t, network, netmask, nexthop, iface) ==
    [t EXCEPT !.routes = <<[network |-> network, netmask |-> netmask,
                            nexthop |-> nexthop, iface |-> iface]>> \o @]

\* ip_iface_register: net_device_add_iface refuses a device that has an IP
\* interface already; otherwise the interface's network gets a route (with
\* the unicast address as the network, masked at lookup) and the interface
\* goes to the head of the list.
ip_iface_register(t, i) ==
    IF t.devif[Conf[i].dev] # NoIface THEN t
    ELSE LET t1 == [t EXCEPT !.devif[Conf[i].dev] = i]
             t2 == ip_route_add(t1, Conf[i].unicast, Conf[i].netmask, IP_ADDR_ANY, i)
         IN [t2 EXCEPT !.ifaces = <<i>> \o @]

\* ip_route_set_default_gateway: 0.0.0.0/0 through the gateway.
ip_route_set_default_gateway(t, i, gw) ==
    ip_route_add(t, IP_ADDR_ANY, IP_ADDR_ANY, gw, i)

\* ip_protocol_register: a second registration of a type is refused, a new
\* one is put at the head of the list.
ip_protocol_register(t, type) ==
    IF \E k \in 1..Len(t.protocols) : t.protocols[k] = type THEN t
    ELSE [t EXCEPT !.protocols = <<type>> \o @]

\* One registration call of the startup: [op |-> "iface", iface],
\* [op |-> "gateway", iface, gw] or [op |-> "protocol", type].
Register(t, c) ==
    CASE c.op = "iface"    -> ip_iface_register(t, c.iface)
      [] c.op = "gateway"  -> ip_route_set_default_gateway(t, c.iface, c.gw)
      [] c.op = "protocol" -> ip_protocol_register(t, c.type)

Startup(Devices, calls) == FoldLeft(Register, EmptyTables(Devices), calls)

-----------------------------------------------------------------------------
(* Lookups                                                                 *)

\* The destination is in the route's network.
InNetwork(dst, r) == (dst & r.netmask) = (r.network & r.netmask)

\* Variant of the walk that keeps the first matching route.
RouteLookupFirstMatch(routes, dst) ==
    FoldLeft(LAMBDA cand, r : IF InNetwork(dst, r) /\ cand = NoRoute THEN r ELSE cand,
             NoRoute, routes)

\* ip_route_lookup: walk the table from its head and keep a matching route
\* whose netmask is strictly greater than the candidate's, so the first of
\* the list wins among equal netmasks. NoRoute when nothing matches.
ip_route_lookup(routes, dst) ==
    FoldLeft(LAMBDA cand, r :
                IF InNetwork(dst, r) /\ (cand = NoRoute \/ cand.netmask < r.netmask)
                THEN r ELSE cand,
             NoRoute, routes)

\* Variant of the filter that compares only the unicast addresses.
InputIfaceUnicastOnly(t, dev, dst) ==
    LET i == t.devif[dev]
        k == IF i = NoIface THEN 0
             ELSE SelectInSubSeq(t.ifaces, SelectInSeq(t.ifaces, LAMBDA j : j = i),
                                 Len(t.ifaces), LAMBDA j : Conf[j].unicast = dst)
    IN CASE i = NoIface            -> NoIface
         [] dst = IP_ADDR_BROADCAST -> i
         [] k # 0                   -> t.ifaces[k]
         [] OTHER                   -> NoIface

\* ip_input's filter. The walk starts at the receiving device's interface
\* and follows ip_iface->next, which is the list of every interface
\* registered before it, of whatever device. The limited broadcast is
\* accepted on the device's interface without a walk.
ip_input_iface(t, dev, dst) ==
    LET i == t.devif[dev]
        k == IF i = NoIface THEN 0
             ELSE SelectInSubSeq(t.ifaces, SelectInSeq(t.ifaces, LAMBDA j : j = i),
                                 Len(t.ifaces),
                                 LAMBDA j : Broadcast(j) = dst \/ Conf[j].unicast = dst)
    IN CASE i = NoIface            -> NoIface
         [] dst = IP_ADDR_BROADCAST -> i
         [] k # 0                   -> t.ifaces[k]
         [] OTHER                   -> NoIface

\* ip_input, after the header checks: TRUE when the datagram is handed to
\* the handler of its upper protocol.
ip_input(t, dev, h) ==
    /\ ip_input_iface(t, dev, h.dst) # NoIface
    /\ \E k \in 1..Len(t.protocols) : t.protocols[k] = h.proto

\* ip_output for a datagram h = [src, dst, proto]. The outcome is "error"
\* (-1), "crash" (ip_route_lookup found nothing and its infof reads the
\* network of the NULL candidate, so the "no route" return is never
\* reached), or "out" with the device the route's interface belongs to and
\* the next hop ip_output_device is given. ip_output_core writes the
\* interface's unicast address as the source.
ip_output(t, h) ==
    LET r == ip_route_lookup(t.routes, h.dst) IN
    CASE h.src = IP_ADDR_ANY /\ h.dst = IP_ADDR_BROADCAST -> [ret |-> "error"]
      [] r = NoRoute -> [ret |-> "crash"]
      [] h.src # IP_ADDR_ANY /\ h.src # Conf[r.iface].unicast -> [ret |-> "error"]
      [] OTHER -> [ret |-> "out", dev |-> Conf[r.iface].dev,
                   src |-> Conf[r.iface].unicast,
                   nexthop |-> IF r.nexthop # IP_ADDR_ANY THEN r.nexthop ELSE h.dst]

-----------------------------------------------------------------------------
(* Reference definitions, independent of the code's bit operations.        *)

\* The length of a prefix netmask: its number of one bits.
PrefixLen(mask) == Cardinality({b \in 0 .. (W - 1) : (mask \div 2^b) % 2 = 1})

\* dst agrees with the route's network on the route's prefix.
Covers(r, dst) ==
    LET shift == 2^(W - PrefixLen(r.netmask))
    IN dst \div shift = r.network \div shift

\* Longest-prefix match: among the routes that cover dst, one whose prefix
\* is the longest, the earliest in the table among equally long ones.
LongestMatch(routes, dst) ==
    LET m == {k \in 1..Len(routes) : Covers(routes[k], dst)}
        best == {k \in m : \A j \in m : PrefixLen(routes[j].netmask) <= PrefixLen(routes[k].netmask)}
    IN IF m = {} THEN NoRoute ELSE routes[Min(best)]

=============================================================================
