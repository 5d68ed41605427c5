---------------------------- MODULE MC_ArpCache ----------------------------
(* Instance of ArpCache for TLC: two entries, two other hosts, two        *)
(* hardware addresses (a host that changes its address, or a spoofer).    *)
EXTENDS ArpCache

CONSTANTS a1, a2, h1, h2

MC_Addrs == {a1, a2}
MC_HAs == {h1, h2}
=============================================================================
