------------------------------- MODULE NetCore -------------------------------
(***************************************************************************)
(* The inbound frame path of the stack: loopback_transmit and loopback_isr *)
(* of src/driver/loopback.c, net_input_handler and net_softirq_handler of  *)
(* src/net.c, and the dispatch loop of intr_thread in                      *)
(* src/platform/linux/intr.c.                                              *)
(*                                                                         *)
(*  - lq        the loopback device's queue, under its mutex;              *)
(*  - pq[p]     the input queue of registered protocol p;                  *)
(*  - sig       the signals pending for the intr thread. Raising a pending *)
(*              signal again adds nothing (SIGUSR1 is a standard signal),  *)
(*              and the loopback IRQ is treated the same way;              *)
(*  - intr      the intr thread: waiting in sigwait, or inside the         *)
(*              per-entry loop of net_softirq_handler;                     *)
(*  - tx[f]     the user thread sending frame f: before the call, after    *)
(*              the push (mutex released, IRQ not yet raised), returned 0, *)
(*              or returned -1 because the queue was full.                 *)
(*                                                                         *)
(* An IP frame is sent by ip_output (module Ip), which routes it to the    *)
(* loopback device or to the dummy device of src/driver/dummy.c. Its       *)
(* handler is ip_input, which hands it to an upper protocol, whose handler *)
(* may output one reply (Reply[f]) through ip_output, as tcp_input does    *)
(* with its ACKs. Frames are identities with a header (Hdr[f]); the other  *)
(* types are written to the loopback device directly.                      *)
(*                                                                         *)
(*  - crashed   the process died in ip_route_lookup.                       *)
(*                                                                         *)
(* The main thread's life: the registration calls of the startup, net_run  *)
(* (intr_run starts the intr thread, then every device is opened), the     *)
(* sends, and net_shutdown (every device closed, SIGHUP to the intr thread *)
(* and pthread_join). main is that phase and devup the devices whose       *)
(* NET_DEVICE_FLAG_UP is set.                                              *)
(***************************************************************************)
EXTENDS Naturals, Sequences, SequencesExt, Ip

CONSTANTS
    Frames,               \* frame identities
    Type,                 \* [Frames -> types], the ethertype of each frame
    Protocols,            \* the registered types, in the order of the protocols list
    UserFrames,           \* frames user threads send
    Reply,                \* [Frames -> Frames \cup {NoFrame}], what a handler outputs
    NoFrame,
    LOOPBACK_QUEUE_LIMIT,
    Hdr,                  \* [IP frames -> [src, dst, proto]], what ip_output is asked to send
    Loopback,             \* the loopback device
    Dummy,                \* the dummy device
    StartupCalls          \* the registration calls of the program's startup, in order

ASSUME
    /\ UserFrames \subseteq Frames /\ NoFrame \notin Frames
    /\ Type \in [Frames -> STRING] /\ Protocols \in Seq(STRING)
    /\ Reply \in [Frames -> Frames \cup {NoFrame}]
    /\ LOOPBACK_QUEUE_LIMIT \in Nat \ {0}
    /\ DOMAIN Hdr = {f \in Frames : Type[f] = "IP"}

VARIABLES
    lq,       \* the loopback queue
    pq,       \* the protocol input queues
    sig,      \* pending signals: "LO" (the loopback IRQ), "SOFTIRQ" (SIGUSR1)
    intr,     \* "wait" in sigwait, or "softirq"
    tx,       \* per user frame: "idle", "pushed", "done", "failed"
    log,      \* ghost: every frame pushed on lq, in push order
    handled,  \* ghost: every frame handed to a protocol handler, in order
    up,       \* ghost: every IP frame ip_input handed to an upper protocol, in order
    ip,       \* the IP registries
    boot,     \* the number of startup registration calls made
    crashed,
    main,     \* "setup", "run", "join" (in net_shutdown's pthread_join), "done"
    devup     \* the devices that are up

vars == <<lq, pq, sig, intr, tx, log, handled, up, crashed, ip, boot, main, devup>>

Devices == {Loopback, Dummy}

\* The IP registries the startup leaves; nothing writes them afterwards.
IpTables == Startup(Devices, StartupCalls)

\* net_run has been called: the startup has made all its calls.
Booted == boot = Len(StartupCalls)

Registered == Range(Protocols)

Init ==
    /\ lq = <<>>
    /\ pq = [p \in Registered |-> <<>>]
    /\ sig = {}
    /\ intr = "wait"
    /\ tx = [f \in UserFrames |-> "idle"]
    /\ log = <<>>
    /\ handled = <<>>
    /\ up = <<>>
    /\ crashed = FALSE
    /\ ip = EmptyTables(Devices)
    /\ boot = 0
    /\ main = "setup"
    /\ devup = {}

-----------------------------------------------------------------------------
(* Output. A user thread's output is ip_output for an IP frame and         *)
(* net_device_output to the loopback device for the other types. The      *)
(* loopback push is done under the loopback mutex and the IRQ is raised    *)
(* after the unlock, so a user thread does it as a second step.            *)

\* Variant of the limit test that lets one entry more in.
QueueFullLate == Len(lq) > LOOPBACK_QUEUE_LIMIT

\* The queue holds LOOPBACK_QUEUE_LIMIT entries: the call returns -1.
QueueFull == Len(lq) >= LOOPBACK_QUEUE_LIMIT

\* Where the output of frame f goes: ip_output's outcome for an IP frame;
\* the other types name the loopback device themselves. Frames are output
\* only once booted, when ip = IpTables, so this is a function of the
\* constants, computed once.
Outcomes ==
    [f \in Frames |-> IF Type[f] = "IP" THEN ip_output(IpTables, Hdr[f])
                                        ELSE [ret |-> "out", dev |-> Loopback]]

Outcome(f) == Outcomes[f]

\* loopback_transmit's push, when the queue has room.
LoopbackPush(f) == lq' = Append(lq, f) /\ log' = Append(log, f)

\* dummy_transmit: the frame is dropped and the dummy IRQ raised.
dummy_transmit == sig' = sig \cup {"DUMMY"}

\* A user thread outputs f: the process dies in ip_route_lookup, the call
\* returns -1 (ip_output's checks, a device that is down, or a full
\* loopback queue), the frame is pushed on the loopback queue, or the dummy
\* device drops it.
TransmitPush(f) ==
    /\ tx[f] = "idle"
    /\ LET o == Outcome(f) IN
       CASE o.ret = "crash" ->
              crashed' = TRUE /\ UNCHANGED <<lq, log, sig, tx>>
         [] o.ret = "error" \/ o.dev \notin devup \/ (o.dev = Loopback /\ QueueFull) ->
              tx' = [tx EXCEPT ![f] = "failed"] /\ UNCHANGED <<lq, log, sig, crashed>>
         [] o.dev = Loopback ->
              /\ LoopbackPush(f) /\ tx' = [tx EXCEPT ![f] = "pushed"]
              /\ UNCHANGED <<sig, crashed>>
         [] OTHER ->
              /\ dummy_transmit /\ tx' = [tx EXCEPT ![f] = "done"]
              /\ UNCHANGED <<lq, log, crashed>>
    /\ UNCHANGED <<pq, intr, handled, up, ip, boot, main, devup>>

\* intr_raise_irq(LOOPBACK_IRQ): pthread_kill to the intr thread.
TransmitRaise(f) ==
    /\ tx[f] = "pushed"
    /\ sig' = sig \cup {"LO"}
    /\ tx' = [tx EXCEPT ![f] = "done"]
    /\ UNCHANGED <<lq, pq, intr, log, handled, up, crashed, ip, boot, main, devup>>

-----------------------------------------------------------------------------
(* The intr thread                                                         *)

\* Variant of net_input_handler that puts the entry at the head of the
\* protocol queue.
InputPushFront(q, f) ==
    IF Type[f] \in Registered THEN [q EXCEPT ![Type[f]] = <<f>> \o @] ELSE q

\* net_input_handler: the entry goes to the tail of the queue of the
\* protocol of its type; a type no protocol is registered for is dropped.
net_input_handler(q, f) ==
    IF Type[f] \in Registered THEN [q EXCEPT ![Type[f]] = Append(@, f)] ELSE q

\* Variant of loopback_isr that pops one entry per IRQ.
LoopbackIsrOne ==
    /\ intr = "wait" /\ "LO" \in sig
    /\ IF lq = <<>>
       THEN UNCHANGED <<lq, pq>> /\ sig' = sig \ {"LO"}
       ELSE /\ pq' = net_input_handler(pq, Head(lq))
            /\ lq' = Tail(lq)
            /\ sig' = (sig \ {"LO"}) \cup (IF Type[Head(lq)] \in Registered
                                           THEN {"SOFTIRQ"} ELSE {})
    /\ UNCHANGED <<intr, tx, log, handled, up, crashed, ip, boot, main, devup>>

\* sigwait returns the loopback IRQ: loopback_isr pops every entry under the
\* loopback mutex and passes each to net_input_handler, which raises the
\* soft IRQ for each entry it queues.
loopback_isr ==
    /\ intr = "wait" /\ "LO" \in sig
    /\ pq' = FoldLeft(net_input_handler, pq, lq)
    /\ lq' = <<>>
    /\ sig' = (sig \ {"LO"}) \cup (IF \E i \in 1..Len(lq) : Type[lq[i]] \in Registered
                                   THEN {"SOFTIRQ"} ELSE {})
    /\ UNCHANGED <<intr, tx, log, handled, up, crashed, ip, boot, main, devup>>

\* sigwait returns SIGUSR1: net_softirq_handler starts its loop.
SoftirqBegin ==
    /\ intr = "wait" /\ "SOFTIRQ" \in sig
    /\ sig' = sig \ {"SOFTIRQ"}
    /\ intr' = "softirq"
    /\ UNCHANGED <<lq, pq, tx, log, handled, up, crashed, ip, boot, main, devup>>

\* The protocol the loop is at: the first of the list whose queue is not
\* empty (nothing refills a queue the loop has passed: only the intr
\* thread pushes to them).
Current == Protocols[Min({i \in 1..Len(Protocols) : pq[Protocols[i]] # <<>>})]

\* The reply r of an upper protocol, output on the intr thread: the push
\* and the raise of loopback_transmit are one step (the signal is for the
\* thread itself); a reply ip_output refuses, or a full queue, is dropped.
ReplyOutput(r) ==
    LET o == Outcome(r) IN
    CASE o.ret = "crash" -> crashed' = TRUE /\ UNCHANGED <<lq, log, sig>>
      [] o.ret = "error" \/ o.dev \notin devup \/ (o.dev = Loopback /\ QueueFull) ->
           UNCHANGED <<lq, log, sig, crashed>>
      [] o.dev = Loopback -> LoopbackPush(r) /\ sig' = sig \cup {"LO"} /\ UNCHANGED crashed
      [] OTHER -> dummy_transmit /\ UNCHANGED <<lq, log, crashed>>

\* The frames ip_input on the loopback device hands to an upper protocol.
Accepted == {f \in Frames : Type[f] = "IP" /\ ip_input(IpTables, Loopback, Hdr[f])}

\* One iteration: queue_pop, then the protocol's handler. For an IP frame
\* it is ip_input on the loopback device, which hands the datagram to its
\* upper protocol, whose handler may output its reply.
SoftirqHandle ==
    /\ intr = "softirq"
    /\ \E p \in Registered : pq[p] # <<>>
    /\ LET f == Head(pq[Current])
           delivered == f \in Accepted
       IN
       /\ pq' = [pq EXCEPT ![Current] = Tail(@)]
       /\ handled' = Append(handled, f)
       /\ up' = IF delivered THEN Append(up, f) ELSE up
       /\ IF delivered /\ Reply[f] # NoFrame
          THEN ReplyOutput(Reply[f])
          ELSE UNCHANGED <<lq, log, sig, crashed>>
    /\ UNCHANGED <<intr, tx, ip, boot, main, devup>>

\* sigwait returns the dummy IRQ: dummy_isr only logs.
dummy_isr ==
    /\ intr = "wait" /\ "DUMMY" \in sig
    /\ sig' = sig \ {"DUMMY"}
    /\ UNCHANGED <<lq, pq, intr, tx, log, handled, up, crashed, ip, boot, main, devup>>

\* Every queue is empty: net_softirq_handler returns to sigwait.
SoftirqEnd ==
    /\ intr = "softirq"
    /\ \A p \in Registered : pq[p] = <<>>
    /\ intr' = "wait"
    /\ UNCHANGED <<lq, pq, sig, tx, log, handled, up, crashed, ip, boot, main, devup>>

-----------------------------------------------------------------------------
(* The main thread: the registration calls of the startup, in order, then *)
(* net_run; the sends of the program; then net_shutdown.                   *)

StartupStep ==
    /\ ~Booted
    /\ ip' = Register(ip, StartupCalls[boot + 1])
    /\ boot' = boot + 1
    /\ UNCHANGED <<lq, pq, sig, intr, tx, log, handled, up, crashed, main, devup>>

\* net_run: intr_run starts the intr thread and waits for it at the barrier,
\* then net_device_open sets every device UP (neither driver has an open
\* operation). No signal is raised before it returns.
net_run ==
    /\ Booted /\ main = "setup"
    /\ main' = "run"
    /\ devup' = Devices
    /\ UNCHANGED <<lq, pq, sig, intr, tx, log, handled, up, crashed, ip, boot>>

\* Variant of net_shutdown whose intr_shutdown waits for the thread without
\* signalling it.
NetShutdownNoKill ==
    /\ main = "run"
    /\ \A f \in UserFrames : tx[f] # "pushed"
    /\ devup' = {}
    /\ main' = "join"
    /\ UNCHANGED <<lq, pq, sig, intr, tx, log, handled, up, crashed, ip, boot>>

\* The program leaves its loop and calls net_shutdown (the sends are calls
\* of the main thread, so none is halfway through): net_device_close clears
\* the UP flag of every device of the list (neither driver has a close
\* operation), then intr_shutdown sends SIGHUP to the intr thread and
\* waits in pthread_join. The loop is one step: a device of the list is
\* closed before the loopback device, and an intr thread step between the
\* closes or before the SIGHUP sees what it would see before the call or
\* with the SIGHUP still pending.
net_shutdown ==
    /\ main = "run"
    /\ \A f \in UserFrames : tx[f] # "pushed"
    /\ devup' = {}
    /\ sig' = sig \cup {"HUP"}
    /\ main' = "join"
    /\ UNCHANGED <<lq, pq, intr, tx, log, handled, up, crashed, ip, boot>>

\* pthread_join returns once the intr thread has ended.
Join ==
    /\ main = "join" /\ intr = "exited"
    /\ main' = "done"
    /\ UNCHANGED <<lq, pq, sig, intr, tx, log, handled, up, crashed, ip, boot, devup>>

\* sigwait returns SIGHUP: terminate is set and the loop ends, whatever
\* else is pending or queued.
IntrTerminate ==
    /\ intr = "wait" /\ "HUP" \in sig
    /\ sig' = sig \ {"HUP"}
    /\ intr' = "exited"
    /\ UNCHANGED <<lq, pq, tx, log, handled, up, crashed, ip, boot, main, devup>>

\* Nothing runs once the process has died. User threads send while the
\* program runs, and the intr thread runs from net_run on.
Next ==
    \/ StartupStep \/ net_run
    \/ /\ main # "setup" /\ ~crashed
       /\ \/ main = "run" /\ \E f \in UserFrames : TransmitPush(f) \/ TransmitRaise(f)
          \/ loopback_isr \/ dummy_isr \/ IntrTerminate
          \/ SoftirqBegin \/ SoftirqHandle \/ SoftirqEnd
          \/ net_shutdown \/ Join

\* The startup runs to its end and net_run follows; sigwait returns while a
\* signal is pending; a user thread that has pushed goes on to raise the
\* IRQ; pthread_join returns once it can. Users need not send at all,
\* and the program need not shut down.
Fairness ==
    /\ WF_vars(StartupStep) /\ WF_vars(net_run)
    /\ WF_vars(loopback_isr) /\ WF_vars(dummy_isr) /\ WF_vars(SoftirqBegin)
    /\ WF_vars(SoftirqHandle) /\ WF_vars(SoftirqEnd) /\ WF_vars(IntrTerminate)
    /\ \A f \in UserFrames : WF_vars(TransmitRaise(f))
    /\ WF_vars(Join)

Spec == Init /\ [][Next]_vars /\ Fairness

-----------------------------------------------------------------------------
(* Properties                                                               *)

TypeOK ==
    /\ lq \in Seq(Frames) /\ Len(lq) <= LOOPBACK_QUEUE_LIMIT
    /\ pq \in [Registered -> Seq(Frames)]
    /\ sig \subseteq {"LO", "SOFTIRQ", "DUMMY", "HUP"}
    /\ intr \in {"wait", "softirq", "exited"}
    /\ tx \in [UserFrames -> {"idle", "pushed", "done", "failed"}]
    /\ log \in Seq(Frames) /\ handled \in Seq(Frames) /\ up \in Seq(Frames)
    /\ crashed \in BOOLEAN /\ boot \in 0..Len(StartupCalls)
    /\ main \in {"setup", "run", "join", "done"} /\ devup \subseteq Devices

OfType(s, p) == SelectSeq(s, LAMBDA f : Type[f] = p)

\* Each protocol's handler is given the frames of its type in the order
\* loopback_transmit queued them, none twice and none skipped: what passed
\* through the loopback queue and the protocol queue is a prefix of what
\* was pushed.
DeliveredInOrder ==
    \A p \in Registered : IsPrefix(OfType(handled, p), OfType(log, p))

\* A frame of a registered type that loopback_transmit queued is handed to
\* its protocol's handler in the end, although raising a pending signal
\* again is lost and the IRQ is raised only after the mutex is released;
\* only the end of the intr thread at net_shutdown (SIGHUP) may come first.
QueuedFrameHandled ==
    \A f \in Frames :
        (Type[f] \in Registered /\ f \in Range(log)) ~> (f \in Range(handled) \/ intr = "exited")

\* ip_route_lookup returns the longest-prefix match (spec section 8,
\* "IP route longest-prefix") for every destination some route covers, in
\* every table a registration call of the startup leaves: ip_iface_register
\* adds the interface's network and ip_route_set_default_gateway 0/0, each
\* at the head of the table, and the walk replaces its candidate only by a
\* strictly longer netmask. A destination no route covers is left out: the
\* code then dies in the lookup's infof (ip.c:193), which NoRouteIsError
\* shows.
RouteLookupIsLongestMatch ==
    [][ip' # ip =>
        \A dst \in Addr :
            LongestMatch(ip'.routes, dst) # NoRoute =>
                ip_route_lookup(ip'.routes, dst) = LongestMatch(ip'.routes, dst)]_vars

\* The datagram is for this host on the loopback device: its destination
\* is the limited broadcast or an address of the loopback interface, and
\* an upper protocol is registered for its protocol number.
ForLoopback(h) ==
    LET i == IpTables.devif[Loopback] IN
    /\ i # NoIface
    /\ h.dst \in {IP_ADDR_BROADCAST, Conf[i].unicast, Broadcast(i)}
    /\ \E k \in 1..Len(IpTables.protocols) : IpTables.protocols[k] = h.proto

\* An IP datagram that went onto the loopback queue reaches the handler of
\* its upper protocol in the end if it is for this host, and never if it
\* is not: ip_output routed it to the loopback device, the IRQ and the
\* soft IRQ were raised (and may have coalesced), and ip_input's address
\* filter and protocol dispatch let it through. Only the end of the intr
\* thread at net_shutdown may come first.
LoopbackDatagramDelivered ==
    /\ [](\A k \in 1..Len(up) : ForLoopback(Hdr[up[k]]))
    /\ \A f \in {g \in DOMAIN Hdr : ForLoopback(Hdr[g])} :
          f \in Range(log) ~> (f \in Range(up) \/ intr = "exited")

\* net_shutdown returns: once the program has called it, intr_shutdown's
\* SIGHUP ends the intr thread's loop (which may still be busy with frames
\* queued before the close, whose replies now find the devices down) and
\* pthread_join returns.
ShutdownCompletes == main = "join" ~> main = "done"

\* ip_output reports a destination no route covers as an error: spec 4.4
\* gives ip_route_get_iface the result "interface | none", section 7 the
\* error ERROR_NOROUTE, and ip_output has a "no route to host" return.
NoRouteIsError == ~crashed

=============================================================================
