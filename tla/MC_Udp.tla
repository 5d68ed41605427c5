------------------------------- MODULE MC_Udp -------------------------------
(* Instance of Udp for TLC.                                                *)
EXTENDS Udp

CONSTANTS t1, t2, i1, i2

MC_Threads == {t1, t2}
MC_Ifaces == {i1}
MC_Ifaces2 == {i1, i2}
=============================================================================
