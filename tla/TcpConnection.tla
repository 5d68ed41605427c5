---------------------------- MODULE TcpConnection ----------------------------
(***************************************************************************)
(* What a TCP connection table promises, after the RFC 793 state diagram  *)
(* and the send sequence variables of section 3.2: each entry moves only  *)
(* along an edge of the diagram, SND.UNA and SND.NXT of one incarnation    *)
(* never go back, an ACK never covers more than was sent, and FIN-WAIT-2   *)
(* and TIME-WAIT are entered only once our FIN is acknowledged.            *)
(*                                                                         *)
(* An entry that holds no connection is CLOSED; its sequence variables,    *)
(* like those of LISTEN, mean nothing and are 0. TcpEngine implements      *)
(* this specification (TcpEngine!TcpConnectionSpec).                      *)
(***************************************************************************)
EXTENDS Naturals

CONSTANTS
    Slots,  \* the entries of the table
    ISS     \* the initial send sequence numbers an open may choose

VARIABLES
    conn,   \* the RFC 793 state of each entry
    una,    \* SND.UNA
    nxt     \* SND.NXT

vars == <<conn, una, nxt>>

Unsynced == {"CLOSED", "LISTEN"}

Init ==
    /\ conn = [s \in Slots |-> "CLOSED"]
    /\ una = [s \in Slots |-> 0]
    /\ nxt = [s \in Slots |-> 0]

\* Set entry s and leave the others alone.
Set(s, st, u, n) ==
    /\ conn' = [conn EXCEPT ![s] = st]
    /\ una' = [una EXCEPT ![s] = u]
    /\ nxt' = [nxt EXCEPT ![s] = n]

\* OPEN call, passive.
PassiveOpen(s) == conn[s] = "CLOSED" /\ Set(s, "LISTEN", 0, 0)

\* OPEN call, active: a SYN with some ISS is sent.
ActiveOpen(s) == conn[s] = "CLOSED" /\ \E i \in ISS : Set(s, "SYN_SENT", i, i + 1)

\* A SYN arrives at a LISTEN entry: SYN+ACK with a new ISS.
RcvSyn(s) == conn[s] = "LISTEN" /\ \E i \in ISS : Set(s, "SYN_RECEIVED", i, i + 1)

\* A reset returns a passively opened SYN-RECEIVED entry to LISTEN.
ResetToListen(s) == conn[s] = "SYN_RECEIVED" /\ Set(s, "LISTEN", 0, 0)

\* A segment arrives at a synchronizing or synchronized entry: the state
\* moves along a receive edge of the diagram (or stays), SND.UNA advances
\* at most to SND.NXT, SND.NXT stays.
RcvEdges ==
    {<<"SYN_SENT", "SYN_RECEIVED">>, <<"SYN_SENT", "ESTABLISHED">>,
     <<"SYN_RECEIVED", "ESTABLISHED">>, <<"SYN_RECEIVED", "CLOSE_WAIT">>,
     <<"ESTABLISHED", "CLOSE_WAIT">>,
     <<"FIN_WAIT1", "FIN_WAIT2">>, <<"FIN_WAIT1", "CLOSING">>, <<"FIN_WAIT1", "TIME_WAIT">>,
     <<"FIN_WAIT2", "TIME_WAIT">>, <<"CLOSING", "TIME_WAIT">>}

\* States entered only when everything sent, our FIN included, is acknowledged.
FinAcked == {"FIN_WAIT2", "TIME_WAIT"}

Receive(s) ==
    /\ conn[s] \notin Unsynced
    /\ \E st \in {conn[s]} \cup {e[2] : e \in {d \in RcvEdges : d[1] = conn[s]}} :
       \E u \in una[s]..nxt[s] :
          /\ st \in FinAcked => u = nxt[s]
          /\ Set(s, st, u, nxt[s])

\* SEND call: any amount of data beyond SND.NXT goes out (the amount is
\* read from the next state, so the specification is checked as a property
\* of an implementation rather than run on its own).
Send(s) ==
    /\ conn[s] \in {"ESTABLISHED", "CLOSE_WAIT"}
    /\ nxt'[s] \in Nat /\ nxt'[s] > nxt[s]
    /\ Set(s, conn[s], una[s], nxt'[s])

\* CLOSE call: a FIN takes the next sequence number.
Close(s) ==
    /\ conn[s] \in {"ESTABLISHED", "CLOSE_WAIT"}
    /\ Set(s, IF conn[s] = "ESTABLISHED" THEN "FIN_WAIT1" ELSE "LAST_ACK", una[s], nxt[s] + 1)

\* A reset, ABORT, a timeout or the last ACK closes the entries in S at once.
Abort(S) ==
    /\ S # {}
    /\ conn' = [s \in Slots |-> IF s \in S THEN "CLOSED" ELSE conn[s]]
    /\ una' = [s \in Slots |-> IF s \in S THEN 0 ELSE una[s]]
    /\ nxt' = [s \in Slots |-> IF s \in S THEN 0 ELSE nxt[s]]

Next ==
    \/ \E s \in Slots : \/ PassiveOpen(s) \/ ActiveOpen(s) \/ RcvSyn(s)
                        \/ ResetToListen(s) \/ Receive(s) \/ Send(s) \/ Close(s)
    \/ \E S \in SUBSET Slots : Abort(S)

Spec == Init /\ [][Next]_vars

=============================================================================
