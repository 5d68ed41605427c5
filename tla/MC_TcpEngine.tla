---------------------------- MODULE MC_TcpEngine ----------------------------
(* TcpEngine instantiated for TLC: one local endpoint, one foreign endpoint, *)
(* and small sequence, window and time bounds.                              *)
EXTENDS TcpEngine

CONSTANTS t1, t2, f1, ep_local, ep_any, no_thread

MC_Threads == {t1, t2}
MC_Foreigns == {f1}
====
