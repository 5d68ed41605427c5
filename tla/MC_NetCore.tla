------------------------------ MODULE MC_NetCore ------------------------------
(* Five frames from user threads (four IP, one ARP) and the reply the UDP  *)
(* handler outputs to the first, over a loopback queue of two entries so   *)
(* that a transmit can find it full.                                       *)
(*                                                                         *)
(* Addresses are 4 bits wide. The loopback interface is 1/12 (network 0,   *)
(* broadcast 3), the dummy device's is 9/12 (network 8, broadcast 11), and *)
(* the default gateway is 10, as in the startups of src/test/step18.c and  *)
(* later, with the dummy device in the TAP device's place (the TAP driver  *)
(* is not part of src/driver).                                             *)
EXTENDS NetCore

CONSTANTS u1, u2, u3, u4, u5, r1, no_frame, lo, dummy, lo0, d0, no_iface, no_route

MC_Frames == {u1, u2, u3, u4, u5, r1}
MC_UserFrames == {u1, u2, u3, u4, u5}
MC_Type == (u1 :> "IP" @@ u2 :> "ARP" @@ u3 :> "IP" @@ u4 :> "IP" @@ u5 :> "IP" @@ r1 :> "IP")
\* arp_init registers ARP first and ip_init IP second; each registration is
\* put at the head of the list.
MC_Protocols == <<"IP", "ARP">>
MC_Reply == [f \in MC_Frames |-> IF f = u1 THEN r1 ELSE no_frame]

\* u1 to the loopback address, answered by r1; u4 to the loopback
\* network's broadcast; u5 to an address only the default route covers;
\* u3 to an address of the loopback network that is not the interface's.
MC_Hdr == (u1 :> [src |-> 1, dst |-> 1, proto |-> "UDP"]
        @@ u4 :> [src |-> 0, dst |-> 3, proto |-> "TCP"]
        @@ u5 :> [src |-> 0, dst |-> 5, proto |-> "UDP"]
        @@ u3 :> [src |-> 0, dst |-> 2, proto |-> "UDP"]
        @@ r1 :> [src |-> 1, dst |-> 1, proto |-> "UDP"])

MC_Conf == (lo0 :> [dev |-> lo, unicast |-> 1, netmask |-> 12]
         @@ d0 :> [dev |-> dummy, unicast |-> 9, netmask |-> 12])

\* net_init: icmp_init, udp_init and tcp_init register their protocols.
NetInit == <<[op |-> "protocol", type |-> "ICMP"], [op |-> "protocol", type |-> "UDP"],
             [op |-> "protocol", type |-> "TCP"]>>
RegLo == [op |-> "iface", iface |-> lo0]
RegDummy == [op |-> "iface", iface |-> d0]
Gateway == [op |-> "gateway", iface |-> d0, gw |-> 10]

\* The order of step18.c.
MC_Startup == NetInit \o <<RegLo, RegDummy, Gateway>>
\* The order of step13.c: no default gateway.
MC_NoGateway == NetInit \o <<RegLo, RegDummy>>
=============================================================================
