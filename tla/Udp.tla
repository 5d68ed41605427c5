--------------------------------- MODULE Udp ---------------------------------
(***************************************************************************)
(* UDP of src/udp.c with the scheduling context of                         *)
(* src/platform/linux/sched.c that udp_recvfrom sleeps on.                 *)
(*                                                                         *)
(*  - pcb[s]   pcbs[s]: state, local endpoint and the length of the      *)
(*             receive queue (the foreign endpoint and the data of an      *)
(*             entry are copied out, never compared);                      *)
(*  - ctx[s]   pcbs[s].ctx: interrupted and wc. A thread waiting on the    *)
(*             condition variable is blk[t] = "parked" with slot[t] = s,   *)
(*             and a broadcast makes it "woken";                           *)
(*  - user threads call udp_open, udp_bind, udp_sendto, udp_recvfrom and   *)
(*    udp_close with any id. Each call is one critical section under the   *)
(*    UDP mutex, except udp_recvfrom, which is one step up to where it     *)
(*    parks and one more each time it is woken;                            *)
(*  - the intr thread runs udp_input (from ip_input) and event_handler     *)
(*    (from net_event_handler), each wholly under the mutex;               *)
(*  - stuck is a thread that keeps the mutex forever: udp_sendto returning *)
(*    without unlocking, or udp_pcb_release blocked in                     *)
(*    pthread_cond_destroy. Nothing that takes the mutex runs after that.  *)
(*                                                                         *)
(* Byte order is left out: bind stores the port as given and the ephemeral *)
(* search stores hton16(p), and every comparison is between two stored     *)
(* ports. udp_output and the rest of the output path change no UDP state.  *)
(***************************************************************************)
EXTENDS Integers, Sequences, FiniteSets, FiniteSetsExt

CONSTANTS
    Slots,          \* indices of pcbs[], 1..UDP_PCB_SIZE
    Threads,        \* user threads
    Ifaces,         \* unicast addresses of the IP interfaces
    ANY,            \* IP_ADDR_ANY
    Ports,          \* ports users bind
    Ephemeral,      \* UDP_SOURCE_PORT_MIN..UDP_SOURCE_PORT_MAX, ascending
    InPorts,        \* destination ports of datagrams that arrive
    NoThread,       \* nobody
    QueueLimit,     \* datagrams arrive only while a queue is shorter
    DestroyHangs    \* pthread_cond_destroy blocks while a waiter is parked

ASSUME
    /\ Slots = 1..Cardinality(Slots)
    /\ ANY \notin Ifaces
    /\ Ports \cup Ephemeral \cup InPorts \subseteq Nat
    /\ 0 \notin Ports \cup Ephemeral
    /\ DestroyHangs \in BOOLEAN

VARIABLES
    pcb,        \* pcbs[]
    ctx,        \* pcbs[].ctx without its condition variable
    pc,         \* "idle", or "recv" inside udp_recvfrom
    blk,        \* "run", "parked", "woken", or "lost": parked on a condition
                \* variable that pthread_cond_init has reset since
    slot,       \* the pcb a udp_recvfrom in progress works on
    consumed,   \* ghost: some call on the pcb has returned EINTR since its
                \* last interrupt
    stuck       \* the thread that keeps the mutex forever, or NoThread

vars == <<pcb, ctx, pc, blk, slot, consumed, stuck>>

NoSlot == 0

\* Static storage, and what udp_pcb_release leaves: state FREE, ANY:0.
FreePcb == [state |-> "FREE", local |-> [addr |-> ANY, port |-> 0], queue |-> 0]

\* sched_ctx_init
ZeroCtx == [interrupted |-> FALSE, wc |-> 0]

Init ==
    /\ pcb = [s \in Slots |-> FreePcb]
    /\ ctx = [s \in Slots |-> ZeroCtx]
    /\ pc = [t \in Threads |-> "idle"]
    /\ blk = [t \in Threads |-> "run"]
    /\ slot = [t \in Threads |-> NoSlot]
    /\ consumed = [s \in Slots |-> FALSE]
    /\ stuck = NoThread

\* udp_pcb_select: the first OPEN pcb whose local endpoint matches: either
\* address ANY or both equal, and the same port.
udp_pcb_select(a, p) ==
    LET m == {s \in Slots : /\ pcb[s].state = "OPEN"
                            /\ pcb[s].local.addr = ANY \/ a = ANY \/ pcb[s].local.addr = a
                            /\ pcb[s].local.port = p}
    IN IF m = {} THEN NoSlot ELSE Min(m)

Parked(s) == {t \in Threads : blk[t] = "parked" /\ slot[t] = s}

\* sched_wakeup: pthread_cond_broadcast wakes every thread parked on s.
Broadcast(b, S) == [t \in Threads |-> IF b[t] = "parked" /\ slot[t] \in S THEN "woken" ELSE b[t]]

\* A thread is between calls and can take the mutex.
Ready(t) == pc[t] = "idle" /\ blk[t] = "run" /\ stuck = NoThread

\* A call returned EINTR on s.
Observe(t, s) == consumed' = [consumed EXCEPT ![s] = TRUE]

\* udp_pcb_release by thread t, as the last step of its critical section.
\* sched_ctx_destroy returns pthread_cond_destroy's error number, never -1,
\* so the deferral (wake the waiters, stay CLOSING) never runs: the pcb is
\* freed and its queue discarded, with any waiter still parked on it. With a
\* waiter parked, glibc's pthread_cond_destroy blocks forever instead.
Release(t, s) ==
    IF DestroyHangs /\ Parked(s) # {}
    THEN /\ pcb' = [pcb EXCEPT ![s].state = "CLOSING"]
         /\ stuck' = t
    ELSE /\ pcb' = [pcb EXCEPT ![s] = FreePcb]
         /\ UNCHANGED stuck

-----------------------------------------------------------------------------
(* User commands                                                            *)

\* udp_open: udp_pcb_alloc takes the first FREE pcb and calls
\* sched_ctx_init, whose pthread_cond_init resets the condition variable
\* under any thread still parked on it: no broadcast reaches that thread.
udp_pcb_alloc ==
    LET free == {s \in Slots : pcb[s].state = "FREE"}
    IN IF free = {} THEN NoSlot ELSE Min(free)

\* udp_open returns -1 when udp_pcb_alloc finds no FREE pcb.
udp_open(t) ==
    /\ Ready(t)
    /\ udp_pcb_alloc # NoSlot
    /\ LET s == udp_pcb_alloc IN
       /\ pcb' = [pcb EXCEPT ![s].state = "OPEN"]
       /\ ctx' = [ctx EXCEPT ![s] = ZeroCtx]
       /\ blk' = [u \in Threads |-> IF u \in Parked(s) THEN "lost" ELSE blk[u]]
       /\ consumed' = [consumed EXCEPT ![s] = FALSE]
    /\ UNCHANGED <<pc, slot, stuck>>

\* udp_close: udp_pcb_get(id) must be OPEN; then udp_pcb_release.
udp_close(t, s) ==
    /\ Ready(t)
    /\ pcb[s].state = "OPEN"
    /\ Release(t, s)
    /\ UNCHANGED <<ctx, pc, blk, slot, consumed>>

\* udp_bind: refused when udp_pcb_select finds a pcb for the endpoint.
udp_bind(t, s, a, p) ==
    /\ Ready(t)
    /\ pcb[s].state = "OPEN"
    /\ udp_pcb_select(a, p) = NoSlot
    /\ pcb' = [pcb EXCEPT ![s].local = [addr |-> a, port |-> p]]
    /\ UNCHANGED <<ctx, pc, blk, slot, consumed, stuck>>

\* udp_sendto to a foreign address routed through the interface f. Only an
\* unbound port changes state: the local address is the pcb's, or f's
\* unicast when the pcb's is ANY (without storing it), and the port is the
\* first ephemeral one udp_pcb_select finds no pcb for at that address.
\* When there is none the call returns -1 with the mutex still locked; with
\* UDP_PCB_SIZE pcbs and 16384 ephemeral ports there always is one, and the
\* runs give at least as many ephemeral ports as slots.
udp_sendto(t, s, f) ==
    LET la == IF pcb[s].local.addr = ANY THEN f ELSE pcb[s].local.addr
        cands == {p \in Ephemeral : udp_pcb_select(la, p) = NoSlot}
    IN
    /\ Ready(t)
    /\ pcb[s].state = "OPEN"
    /\ pcb[s].local.port = 0
    /\ IF cands # {}
       THEN /\ pcb' = [pcb EXCEPT ![s].local.port = Min(cands)]
            /\ UNCHANGED stuck
       ELSE /\ stuck' = t
            /\ UNCHANGED pcb
    /\ UNCHANGED <<ctx, pc, blk, slot, consumed>>

\* Variant of the loop whose sleep does not count itself in wc.
RecvLoopUncounted(t, s, c) ==
    \/ /\ pcb[s].queue > 0
       /\ pcb' = [pcb EXCEPT ![s].queue = @ - 1]
       /\ ctx' = [ctx EXCEPT ![s] = c]
       /\ pc' = [pc EXCEPT ![t] = "idle"] /\ blk' = [blk EXCEPT ![t] = "run"]
       /\ UNCHANGED consumed
    \/ /\ pcb[s].queue = 0 /\ c.interrupted
       /\ ctx' = [ctx EXCEPT ![s] = c]
       /\ pc' = [pc EXCEPT ![t] = "idle"] /\ blk' = [blk EXCEPT ![t] = "run"]
       /\ Observe(t, s)
       /\ UNCHANGED pcb
    \/ /\ pcb[s].queue = 0 /\ ~c.interrupted
       /\ ctx' = [ctx EXCEPT ![s] = c]
       /\ pc' = [pc EXCEPT ![t] = "recv"] /\ blk' = [blk EXCEPT ![t] = "parked"]
       /\ UNCHANGED <<pcb, consumed>>

\* The loop of udp_recvfrom on pcb s with context c, holding the mutex:
\* pop an entry and return it; otherwise sched_sleep, which returns EINTR
\* at once if c.interrupted is set and otherwise counts itself in wc and
\* parks.
RecvLoop(t, s, c) ==
    \/ /\ pcb[s].queue > 0
       /\ pcb' = [pcb EXCEPT ![s].queue = @ - 1]
       /\ ctx' = [ctx EXCEPT ![s] = c]
       /\ pc' = [pc EXCEPT ![t] = "idle"] /\ blk' = [blk EXCEPT ![t] = "run"]
       /\ UNCHANGED consumed
    \/ /\ pcb[s].queue = 0 /\ c.interrupted
       /\ ctx' = [ctx EXCEPT ![s] = c]
       /\ pc' = [pc EXCEPT ![t] = "idle"] /\ blk' = [blk EXCEPT ![t] = "run"]
       /\ Observe(t, s)
       /\ UNCHANGED pcb
    \/ /\ pcb[s].queue = 0 /\ ~c.interrupted
       /\ ctx' = [ctx EXCEPT ![s] = [c EXCEPT !.wc = @ + 1]]
       /\ pc' = [pc EXCEPT ![t] = "recv"] /\ blk' = [blk EXCEPT ![t] = "parked"]
       /\ UNCHANGED <<pcb, consumed>>

\* udp_recvfrom: udp_pcb_get(id) must be OPEN, then the loop.
udp_recvfrom(t, s) ==
    /\ Ready(t)
    /\ pcb[s].state = "OPEN"
    /\ slot' = [slot EXCEPT ![t] = s]
    /\ RecvLoop(t, s, ctx[s])
    /\ UNCHANGED stuck

\* A woken thread takes the mutex back in sched_sleep: wc--, and if
\* interrupted it clears the flag when it was the last waiter and returns
\* EINTR. Otherwise udp_recvfrom checks CLOSING (release and return -1)
\* and goes round its loop on the same pcb pointer.
Wakeup(t) ==
    LET s == slot[t]
        c == [ctx[s] EXCEPT !.wc = @ - 1]
    IN
    /\ blk[t] = "woken" /\ stuck = NoThread
    /\ \/ /\ c.interrupted
          /\ ctx' = [ctx EXCEPT ![s] = [c EXCEPT !.interrupted = (c.wc # 0)]]
          /\ pc' = [pc EXCEPT ![t] = "idle"] /\ blk' = [blk EXCEPT ![t] = "run"]
          /\ Observe(t, s)
          /\ UNCHANGED <<pcb, stuck>>
       \/ /\ ~c.interrupted /\ pcb[s].state = "CLOSING"
          /\ ctx' = [ctx EXCEPT ![s] = c]
          /\ Release(t, s)
          /\ pc' = [pc EXCEPT ![t] = "idle"] /\ blk' = [blk EXCEPT ![t] = "run"]
          /\ UNCHANGED consumed
       \/ /\ ~c.interrupted /\ pcb[s].state # "CLOSING"
          /\ RecvLoop(t, s, c)
          /\ UNCHANGED stuck
    /\ UNCHANGED slot

-----------------------------------------------------------------------------
(* Intr thread                                                              *)

\* Variant of udp_input that queues without sched_wakeup.
InputNoWakeup(a, p) ==
    LET s == udp_pcb_select(a, p) IN
    /\ stuck = NoThread
    /\ s # NoSlot
    /\ pcb[s].queue < QueueLimit
    /\ pcb' = [pcb EXCEPT ![s].queue = @ + 1]
    /\ UNCHANGED <<ctx, pc, blk, slot, consumed, stuck>>

\* udp_input of a datagram for a:p that passed the length and checksum
\* checks: queued on the pcb udp_pcb_select finds, with a broadcast.
udp_input(a, p) ==
    LET s == udp_pcb_select(a, p) IN
    /\ stuck = NoThread
    /\ s # NoSlot
    /\ pcb[s].queue < QueueLimit
    /\ pcb' = [pcb EXCEPT ![s].queue = @ + 1]
    /\ blk' = Broadcast(blk, {s})
    /\ UNCHANGED <<ctx, pc, slot, consumed, stuck>>

\* event_handler: sched_interrupt on every OPEN pcb, a new interrupt.
event_handler ==
    LET O == {s \in Slots : pcb[s].state = "OPEN"} IN
    /\ stuck = NoThread
    /\ O # {}
    /\ ctx' = [s \in Slots |-> IF s \in O THEN [ctx[s] EXCEPT !.interrupted = TRUE] ELSE ctx[s]]
    /\ blk' = Broadcast(blk, O)
    /\ consumed' = [s \in Slots |-> IF s \in O THEN FALSE ELSE consumed[s]]
    /\ UNCHANGED <<pcb, pc, slot, stuck>>

Next ==
    \/ \E t \in Threads :
          \/ udp_open(t)
          \/ Wakeup(t)
          \/ \E s \in Slots :
                \/ udp_close(t, s)
                \/ udp_recvfrom(t, s)
                \/ \E f \in Ifaces : udp_sendto(t, s, f)
                \/ \E a \in Ifaces \cup {ANY}, p \in Ports : udp_bind(t, s, a, p)
    \/ \E a \in Ifaces, p \in InPorts : udp_input(a, p)
    \/ event_handler

\* A woken thread gets the mutex back once it is free. Users, the network
\* and interrupts owe nothing.
Fairness == \A t \in Threads : WF_vars(Wakeup(t))

Spec == Init /\ [][Next]_vars /\ Fairness

-----------------------------------------------------------------------------
(* Properties                                                               *)

TypeOK ==
    /\ pcb \in [Slots -> [state : {"FREE", "OPEN", "CLOSING"},
                          local : [addr : Ifaces \cup {ANY}, port : {0} \cup Ports \cup Ephemeral],
                          queue : 0..QueueLimit]]
    /\ ctx \in [Slots -> [interrupted : BOOLEAN, wc : -Cardinality(Threads)..Cardinality(Threads)]]
    /\ pc \in [Threads -> {"idle", "recv"}]
    /\ blk \in [Threads -> {"run", "parked", "woken", "lost"}]
    /\ \A t \in Threads : (pc[t] = "idle") <=> (blk[t] = "run")
    /\ slot \in [Threads -> Slots \cup {NoSlot}]
    /\ consumed \in [Slots -> BOOLEAN]
    /\ stuck \in Threads \cup {NoThread}

\* A thread parked in udp_recvfrom on an open pcb whose queue holds a
\* datagram gets it or returns: udp_input broadcasts after every push, and
\* a woken thread re-checks the queue before it sleeps again.
RecvNotStarved ==
    \A t \in Threads :
        (blk[t] = "parked" /\ pcb[slot[t]].state = "OPEN" /\ pcb[slot[t]].queue > 0)
            ~> blk[t] # "parked"

\* No two open pcbs have local endpoints that udp_pcb_select cannot tell
\* apart (the same port, and the same address or ANY on either side).
\* udp_bind refuses such a binding; udp_sendto checks the ephemeral port
\* only at the interface address and keeps the pcb bound to ANY.
UniqueLocalEndpoints ==
    \A s1, s2 \in Slots :
        (/\ s1 # s2
         /\ pcb[s1].state = "OPEN" /\ pcb[s2].state = "OPEN"
         /\ pcb[s1].local.port # 0
         /\ pcb[s1].local.port = pcb[s2].local.port)
            => /\ pcb[s1].local.addr # ANY /\ pcb[s2].local.addr # ANY
               /\ pcb[s1].local.addr # pcb[s2].local.addr

\* sched_interrupt (spec 4.2): each thread waiting on the context observes
\* INTERRUPTED once, and the flag clears when the last one has consumed it.
\* So once a udp_recvfrom on the pcb has returned EINTR, the flag stays set
\* only while a thread is still counted in wc. sched_sleep returns EINTR
\* for a flag that is already set before it counts itself in wc, and only
\* the path after the wait clears the flag: an event raised while nobody
\* waits leaves it set for good, and every later udp_recvfrom fails at once.
InterruptClearedByLast ==
    \A s \in Slots : ctx[s].interrupted /\ consumed[s] => ctx[s].wc > 0

=============================================================================
