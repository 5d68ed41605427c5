------------------------------ MODULE TcpEngine ------------------------------
(***************************************************************************)
(* The TCP engine of src/tcp.c with the scheduling context of              *)
(* src/platform/linux/sched.c that its user commands sleep on.             *)
(*                                                                         *)
(*  - pcb[s]   pcbs[s] (struct tcp_pcb) without the fields nothing reads   *)
(*             (irs, up, mtu, mss, the buffer bytes: only rcv.wnd, which   *)
(*             says how much of buf is filled, is kept);                   *)
(*  - ctx[s]   pcbs[s].ctx: the interrupted flag and the wait count wc; a  *)
(*             thread waiting on ctx->cond is blk[t] = "parked" with       *)
(*             slot[t] = s, and a broadcast makes it "woken";              *)
(*  - user threads call tcp_open_rfc793, tcp_close, tcp_send, tcp_receive. *)
(*    A call holds the TCP mutex from its start to its first sched_sleep,  *)
(*    so it is one step up to the point where it parks, and one more step *)
(*    each time it is woken and takes the mutex back;                      *)
(*  - the worker (the intr thread of src/platform/linux/intr.c) runs       *)
(*    tcp_input, the three TCP timers and the event handler, each wholly   *)
(*    under the same mutex, so each is one step;                           *)
(*  - the peer is any host: a segment carries any flags and any sequence,  *)
(*    acknowledgement, window and payload length of small ranges.          *)
(*                                                                         *)
(* Time is a coarse clock. Tick ages every start_time, time_wait and       *)
(* retransmission entry by one unit (ages stop at the largest bound that   *)
(* is compared with them) and happens only when no timer is due: the       *)
(* timers poll every 100 ms and 1 s, far more often than a unit of the     *)
(* clock, which stands for seconds.                                        *)
(***************************************************************************)
EXTENDS Integers, Sequences, FiniteSets, FiniteSetsExt

CONSTANTS
    Slots,                   \* indices of pcbs[], 1..TCP_PCB_SIZE
    Threads,                 \* user threads
    Local,                   \* the local endpoint every open uses
    Foreigns,                \* foreign endpoints
    ANY,                     \* IP_ADDR_ANY:0, the wildcard and the zeroed endpoint
    NoThread,                \* no owner
    ISS,                     \* values random() may return for an iss
    SeqMax,                  \* largest seq and ack of a segment from the peer
    BUF,                     \* sizeof(pcb->buf)
    MSS,                     \* mtu - 40 of the interface (tcp_send)
    MaxData,                 \* largest payload of a segment from the peer
    PeerWnds,                \* windows the peer advertises
    MaxSend,                 \* largest len of a tcp_send call
    RecvSizes,               \* sizes of tcp_receive calls
    SendLimit,               \* tcp_send is called only while snd.nxt < SendLimit
    QueueLimit,              \* segments arrive only while a queue stays this short
    TCP_RETRANSMIT_DEADLINE, \* in clock units
    TCP_USER_TIMEOUT_TIME,   \* in clock units
    TIME_WAIT_TIME,          \* 2 * TCP_MSL, in clock units
    OutputMayFail,           \* tcp_output of a user command may return -1
    DestroyHangs             \* pthread_cond_destroy blocks while a waiter is parked

ASSUME
    /\ Slots = 1..Cardinality(Slots)
    /\ ISS \subseteq 0..SeqMax /\ PeerWnds \subseteq 0..65535
    /\ 0 < TCP_RETRANSMIT_DEADLINE /\ TCP_RETRANSMIT_DEADLINE < TCP_USER_TIMEOUT_TIME
    /\ 0 < TIME_WAIT_TIME
    /\ OutputMayFail \in BOOLEAN /\ DestroyHangs \in BOOLEAN

VARIABLES
    pcb,    \* pcbs[]
    ctx,    \* pcbs[].ctx without its condition variable
    pc,     \* the command a user thread is in: "idle", "opening", "sending", "receiving"
    blk,    \* "run", "parked" in pthread_cond_wait, or "woken" by a broadcast
    slot,   \* the pcb a thread's handle (id) names
    saved,  \* tcp_open_rfc793's local `state` (AGAIN: state = pcb->state)
    sent,   \* tcp_send's `sent` of a parked call
    want,   \* tcp_send's len, or tcp_receive's size, of a parked call
    owner,  \* ghost: the thread whose tcp_open_rfc793 allocated the pcb
    hung    \* a thread blocked forever in pthread_cond_destroy, holding the mutex

vars == <<pcb, ctx, pc, blk, slot, saved, sent, want, owner, hung>>

NoSlot == 0

\* memset(pcb, 0, sizeof(*pcb)): state FREE (0) and every field zero.
ZeroPcb == [state |-> "FREE", active |-> FALSE, local |-> ANY, foreign |-> ANY,
            snd |-> [nxt |-> 0, una |-> 0, wnd |-> 0, wl1 |-> 0, wl2 |-> 0],
            iss |-> 0, rcv |-> [nxt |-> 0, wnd |-> 0],
            start_time |-> 0, time_wait |-> 0, queue |-> <<>>]

\* sched_ctx_init
ZeroCtx == [interrupted |-> FALSE, wc |-> 0]

\* size_t arithmetic: a negative difference wraps to a value larger than any
\* length of the model (2^31 - 1 stands for it: TLC integers stop there).
SizeT(d) == IF d >= 0 THEN d ELSE 2147483647

\* uint16_t arithmetic of rcv.wnd
U16(x) == x % 65536

Init ==
    /\ pcb = [s \in Slots |-> ZeroPcb]
    /\ ctx = [s \in Slots |-> ZeroCtx]
    /\ pc = [t \in Threads |-> "idle"]
    /\ blk = [t \in Threads |-> "run"]
    /\ slot = [t \in Threads |-> NoSlot]
    /\ saved = [t \in Threads |-> "FREE"]
    /\ sent = [t \in Threads |-> 0]
    /\ want = [t \in Threads |-> 0]
    /\ owner = [s \in Slots |-> NoThread]
    /\ hung = FALSE

-----------------------------------------------------------------------------
(* Retransmission queue and release                                         *)

\* tcp_retransmit_queue_add: the entry goes to the tail of the queue, with
\* `first` (and `last`) as its age, 0 when it is made.
tcp_retransmit_queue_add(p, seq, flg, len) ==
    [p EXCEPT !.queue = Append(@, [seq |-> seq, flg |-> flg, len |-> len, first |-> 0])]

\* tcp_output: only segments with SYN, FIN or data are queued, with seq iss
\* for a SYN and snd.nxt otherwise. The segment itself is output only.
tcp_output(p, flg, len) ==
    IF ({"SYN", "FIN"} \cap flg # {}) \/ len > 0
    THEN tcp_retransmit_queue_add(p, IF "SYN" \in flg THEN p.iss ELSE p.snd.nxt, flg, len)
    ELSE p

\* tcp_retransmit_queue_cleanup: pop entries from the head while seq < snd.una.
RECURSIVE tcp_retransmit_queue_cleanup(_, _)
tcp_retransmit_queue_cleanup(q, una) ==
    IF q # <<>> /\ Head(q).seq < una THEN tcp_retransmit_queue_cleanup(Tail(q), una) ELSE q

\* tcp_retransmit_queue_emit over the whole queue finds an entry at least
\* TCP_RETRANSMIT_DEADLINE old: it then sets CLOSED and broadcasts.
DeadlinePassed(p) == \E i \in DOMAIN p.queue : p.queue[i].first >= TCP_RETRANSMIT_DEADLINE

Parked(s) == {t \in Threads : blk[t] = "parked" /\ slot[t] = s}

\* A critical section ends with pcbs np and contexts nc; it broadcasts on the
\* slots wk and calls tcp_pcb_release on the slots rl. sched_ctx_destroy
\* returns pthread_cond_destroy's error number, never -1, so the deferral of
\* tcp_pcb_release never runs and the pcb is zeroed. With a thread still in
\* pthread_cond_wait and not woken, pthread_cond_destroy of glibc waits for it
\* forever (DestroyHangs); other C libraries return and leave it waiting.
\* b is the blk of the threads before the broadcasts.
Commit(np, nc, wk, rl, b) ==
    LET stuck == IF DestroyHangs THEN {s \in rl \ wk : Parked(s) # {}} ELSE {}
        freed == rl \ stuck
    IN /\ pcb' = [s \in Slots |-> IF s \in freed THEN ZeroPcb ELSE np[s]]
       /\ ctx' = [s \in Slots |-> IF s \in freed THEN ZeroCtx ELSE nc[s]]
       /\ owner' = [s \in Slots |-> IF s \in freed THEN NoThread ELSE owner[s]]
       /\ blk' = [t \in Threads |-> IF b[t] = "parked" /\ slot[t] \in wk THEN "woken" ELSE b[t]]
       /\ hung' = (stuck # {})

\* The same for one slot s.
CommitOne(s, p, c, wake, rel, b) ==
    Commit([pcb EXCEPT ![s] = p], [ctx EXCEPT ![s] = c],
           IF wake THEN {s} ELSE {}, IF rel THEN {s} ELSE {}, b)
-----------------------------------------------------------------------------
(* SEGMENT ARRIVES: tcp_segment_arrives, called by tcp_input                *)

Segments == [foreign : Foreigns, flg : SUBSET {"SYN", "ACK", "RST", "FIN"},
             seq : 0..SeqMax, ack : 0..SeqMax, dlen : 0..MaxData, wnd : PeerWnds]

\* seg->len, computed by tcp_input: the payload and one for each of SYN, FIN.
SegLen(g) == g.dlen + (IF "SYN" \in g.flg THEN 1 ELSE 0) + (IF "FIN" \in g.flg THEN 1 ELSE 0)

\* tcp_pcb_select(local, foreign): the first pcb of the scan whose endpoints
\* both match; failing that, the LAST wildcard LISTEN of the scan.
tcp_pcb_select(l, f) ==
    LET full == {s \in Slots : pcb[s].local = l /\ pcb[s].foreign = f}
        lsn  == {s \in Slots : pcb[s].local = l /\ pcb[s].state = "LISTEN" /\ pcb[s].foreign = ANY}
    IN IF full # {} THEN Min(full) ELSE IF lsn # {} THEN Max(lsn) ELSE NoSlot

\* What a handler leaves: the pcb, whether it broadcast, whether it released.
Keep(p) == [p |-> p, wake |-> FALSE, rel |-> FALSE]
Abort(p, wake) == [p |-> [p EXCEPT !.state = "CLOSED"], wake |-> wake, rel |-> TRUE]

\* LISTEN: an RST or an ACK is dropped (answered by an RST); a SYN fixes both
\* endpoints, takes a fresh iss and sends SYN+ACK.
SegListen(p, g, iss) ==
    IF "RST" \in g.flg \/ "ACK" \in g.flg \/ "SYN" \notin g.flg THEN Keep(p)
    ELSE LET q == [p EXCEPT !.local = Local, !.foreign = g.foreign, !.rcv.wnd = BUF,
                            !.rcv.nxt = g.seq + 1, !.iss = iss]
         IN Keep([tcp_output(q, {"SYN", "ACK"}, 0) EXCEPT !.snd.nxt = iss + 1, !.snd.una = iss,
                                                          !.state = "SYN_RECEIVED"])

\* SYN-SENT. An RST closes and releases whether or not its ACK is acceptable.
SegSynSent(p, g) ==
    LET acc == "ACK" \in g.flg /\ p.snd.una <= g.ack /\ g.ack <= p.snd.nxt
        q   == [p EXCEPT !.rcv.nxt = g.seq + 1,
                         !.snd.una = IF acc THEN g.ack ELSE @,
                         !.queue = IF acc THEN tcp_retransmit_queue_cleanup(@, g.ack) ELSE @]
    IN CASE "ACK" \in g.flg /\ (g.ack <= p.iss \/ g.ack > p.snd.nxt) -> Keep(p)
         [] "RST" \in g.flg -> Abort(p, TRUE)
         [] "SYN" \notin g.flg -> Keep(p)
         [] q.snd.una > q.iss ->
                [p |-> [q EXCEPT !.state = "ESTABLISHED", !.snd.wnd = g.wnd,
                                 !.snd.wl1 = g.seq, !.snd.wl2 = g.ack],
                 wake |-> TRUE, rel |-> FALSE]
         [] OTHER -> Keep(tcp_output([q EXCEPT !.state = "SYN_RECEIVED"], {"SYN", "ACK"}, 0))

\* 1st check sequence number: only the states listed in the code can accept;
\* a segment is acceptable when its first or its last octet is in the window.
Acceptable(p, g) ==
    LET len == SegLen(g)
        InWnd(x) == p.rcv.nxt <= x /\ x < p.rcv.nxt + p.rcv.wnd
    IN /\ p.state \in {"SYN_RECEIVED", "ESTABLISHED", "FIN_WAIT1", "FIN_WAIT2",
                       "CLOSE_WAIT", "LAST_ACK"}
       /\ IF len = 0
          THEN IF p.rcv.wnd = 0 THEN g.seq = p.rcv.nxt ELSE InWnd(g.seq)
          ELSE p.rcv.wnd # 0 /\ (InWnd(g.seq) \/ InWnd(g.seq + len - 1))

\* Variant of SegTextFin in which a FIN in FIN-WAIT-1 goes to TIME-WAIT
\* without checking that it acknowledges our FIN.
SegTextFinEager(p, g, wake) ==
    LET text == p.state = "ESTABLISHED" /\ g.dlen > 0
        q == IF text THEN [p EXCEPT !.rcv.nxt = g.seq + SegLen(g), !.rcv.wnd = U16(@ - g.dlen)]
                     ELSE p
        st == CASE q.state \in {"SYN_RECEIVED", "ESTABLISHED"} -> "CLOSE_WAIT"
                [] q.state \in {"FIN_WAIT1", "FIN_WAIT2"} -> "TIME_WAIT"
                [] OTHER -> q.state
        r == [q EXCEPT !.rcv.nxt = g.seq + 1, !.state = st,
                       !.time_wait = IF st = "TIME_WAIT" THEN 0 ELSE @]
    IN IF "FIN" \in g.flg
       THEN [p |-> r, wake |-> wake \/ text \/ st = "CLOSE_WAIT", rel |-> FALSE]
       ELSE [p |-> q, wake |-> wake \/ text, rel |-> FALSE]

\* 7th process the segment text (ESTABLISHED only: the payload is copied at
\* buf + (16 - rcv.wnd), wherever seq lies), 8th check the FIN bit.
SegTextFin(p, g, wake) ==
    LET text == p.state = "ESTABLISHED" /\ g.dlen > 0
        q == IF text THEN [p EXCEPT !.rcv.nxt = g.seq + SegLen(g), !.rcv.wnd = U16(@ - g.dlen)]
                     ELSE p
        st == CASE q.state \in {"SYN_RECEIVED", "ESTABLISHED"} -> "CLOSE_WAIT"
                [] q.state = "FIN_WAIT1" /\ g.ack = q.snd.nxt -> "TIME_WAIT"
                [] q.state = "FIN_WAIT1" -> "CLOSING"
                [] q.state = "FIN_WAIT2" -> "TIME_WAIT"
                [] OTHER -> q.state
        r == [q EXCEPT !.rcv.nxt = g.seq + 1, !.state = st,
                       !.time_wait = IF st = "TIME_WAIT" THEN 0 ELSE @]
    IN IF "FIN" \in g.flg
       THEN [p |-> r, wake |-> wake \/ text \/ st = "CLOSE_WAIT", rel |-> FALSE]
       ELSE [p |-> q, wake |-> wake \/ text, rel |-> FALSE]

\* An ACK of something sent and not yet acknowledged: SND.UNA < SEG.ACK =< SND.NXT.
AckNew(p, g) == p.snd.una < g.ack /\ g.ack <= p.snd.nxt

\* 5th check the ACK field, the part shared by ESTABLISHED, FIN-WAIT-1,
\* FIN-WAIT-2 and CLOSE-WAIT (and SYN-RECEIVED falling through). The window
\* update assigns wl2 twice and never wl1.
SegAck(p, g, wake) ==
    LET newAck == AckNew(p, g)
        upd    == p.snd.wl1 < g.seq \/ (p.snd.wl1 = g.seq /\ p.snd.wl2 <= g.ack)
        q == IF newAck
             THEN [p EXCEPT !.snd.una = g.ack, !.queue = tcp_retransmit_queue_cleanup(@, g.ack),
                            !.snd.wnd = IF upd THEN g.wnd ELSE @,
                            !.snd.wl2 = IF upd THEN g.ack ELSE @]
             ELSE p
        r == IF q.state = "FIN_WAIT1" /\ g.ack = q.snd.nxt THEN [q EXCEPT !.state = "FIN_WAIT2"] ELSE q
    IN IF ~newAck /\ g.ack >= p.snd.una /\ g.ack > p.snd.nxt
       THEN [p |-> p, wake |-> wake, rel |-> FALSE]
       ELSE SegTextFin(r, g, wake)

\* 2nd check the RST bit, 4th the SYN bit, 5th the ACK field, of an
\* acceptable segment in a synchronized state. "Flushing" the queue before
\* CLOSED is tcp_retransmit_queue_emit_all, which broadcasts only if an entry
\* is past the deadline.
SegOtherwise(p, g) ==
    CASE "RST" \in g.flg ->
            CASE p.state = "SYN_RECEIVED" /\ p.active -> Abort(p, FALSE)
              [] p.state = "SYN_RECEIVED" -> Keep([p EXCEPT !.state = "LISTEN"])
              [] p.state \in {"ESTABLISHED", "FIN_WAIT1", "FIN_WAIT2", "CLOSE_WAIT"} ->
                    Abort(p, DeadlinePassed(p))
              [] OTHER -> Abort(p, FALSE)
      [] "SYN" \in g.flg -> Abort(p, DeadlinePassed(p))
      [] "ACK" \notin g.flg -> Keep(p)
      [] p.state = "SYN_RECEIVED" ->
            IF p.snd.una <= g.ack /\ g.ack <= p.snd.nxt
            THEN SegAck([p EXCEPT !.state = "ESTABLISHED"], g, TRUE)
            ELSE Keep(p)
      [] p.state = "LAST_ACK" ->
            IF g.ack = p.snd.nxt THEN Abort(p, FALSE) ELSE Keep(p)
      [] OTHER -> SegAck(p, g, FALSE)

SegArrive(p, g, iss) ==
    CASE p.state = "LISTEN"   -> SegListen(p, g, iss)
      [] p.state = "SYN_SENT" -> SegSynSent(p, g)
      [] Acceptable(p, g)     -> SegOtherwise(p, g)
      [] OTHER                -> Keep(p)

\* A segment for a pcb that is not CLOSED (to no pcb or a CLOSED one the code
\* only answers with an RST). Steps that change nothing are left out.
tcp_segment_arrives ==
    /\ ~hung
    /\ \E g \in Segments, iss \in ISS :
         LET s == tcp_pcb_select(Local, g.foreign)
             r == SegArrive(pcb[s], g, iss)
         IN /\ s # NoSlot
            /\ pcb[s].state # "CLOSED"
            /\ r.p # pcb[s] \/ r.wake
            /\ Len(r.p.queue) <= QueueLimit
            /\ CommitOne(s, r.p, ctx[s], r.wake, r.rel, blk)
    /\ UNCHANGED <<pc, slot, saved, sent, want>>
-----------------------------------------------------------------------------
(* User commands (tcp_open_rfc793, tcp_close, tcp_send, tcp_receive) and the *)
(* sched_sleep they call. A command that returns having changed nothing     *)
(* (tcp_pcb_get failing, a state the command refuses) is left out.          *)

ThreadVars == <<pc, slot, saved, sent, want>>

\* sched_sleep returns -1 at once when interrupted is set, and leaves it set.
\* Otherwise wc++ and the thread parks; when it is woken: wc--, and if
\* interrupted is set it is cleared by the last waiter only, and -1 returned.
AfterWait(c) == [interrupted |-> c.interrupted /\ c.wc - 1 # 0, wc |-> c.wc - 1]

\* Variant of Park without the wc++.
ParkUncounted(t, s, nc, cmd) ==
    /\ ctx' = nc
    /\ blk' = [blk EXCEPT ![t] = "parked"]
    /\ pc' = [pc EXCEPT ![t] = cmd]

\* The thread t parks on slot s in command cmd; the contexts are nc before
\* the wc++.
Park(t, s, nc, cmd) ==
    /\ ctx' = [nc EXCEPT ![s].wc = @ + 1]
    /\ blk' = [blk EXCEPT ![t] = "parked"]
    /\ pc' = [pc EXCEPT ![t] = cmd]

\* The thread t returns from its command.
Return(t) == pc' = [pc EXCEPT ![t] = "idle"] /\ blk' = [blk EXCEPT ![t] = "run"]

FreeSlots == {s \in Slots : pcb[s].state = "FREE"}

\* tcp_open_rfc793 up to its first sched_sleep (a fresh ctx is never
\* interrupted): tcp_pcb_alloc takes the first FREE pcb and makes it CLOSED.
tcp_open_rfc793(t) ==
    /\ ~hung /\ pc[t] = "idle" /\ FreeSlots # {}
    /\ LET s == Min(FreeSlots)
           base == [pcb[s] EXCEPT !.state = "CLOSED", !.start_time = 0]
           nc == [ctx EXCEPT ![s] = ZeroCtx]
           Opened(p) == /\ pcb' = [pcb EXCEPT ![s] = p]
                        /\ owner' = [owner EXCEPT ![s] = t]
                        /\ Park(t, s, nc, "opening")
                        /\ slot' = [slot EXCEPT ![t] = s]
                        /\ saved' = [saved EXCEPT ![t] = p.state]
                        /\ UNCHANGED <<sent, want, hung>>
       IN \/ \E f \in Foreigns, iss \in ISS :
               LET p == tcp_output([base EXCEPT !.active = TRUE, !.local = Local, !.foreign = f,
                                                !.rcv.wnd = BUF, !.iss = iss], {"SYN"}, 0)
               IN \/ Opened([p EXCEPT !.snd.una = iss, !.snd.nxt = iss + 1, !.state = "SYN_SENT"])
                  \/ /\ OutputMayFail
                     /\ Commit([pcb EXCEPT ![s] = p], nc, {}, {s}, blk)
                     /\ slot' = [slot EXCEPT ![t] = NoSlot]
                     /\ UNCHANGED <<pc, saved, sent, want>>
          \/ \E f \in Foreigns \cup {ANY} :
               Opened([base EXCEPT !.active = FALSE, !.local = Local, !.foreign = f,
                                   !.state = "LISTEN"])

\* tcp_open_rfc793 woken in its wait loop: EINTR closes and releases; the
\* same state waits again; ESTABLISHED returns the id; SYN-RECEIVED waits
\* for the next change (goto AGAIN); any other state closes and releases.
tcp_open_rfc793_wakeup(t) ==
    /\ ~hung /\ pc[t] = "opening" /\ blk[t] = "woken"
    /\ LET s == slot[t]
           c == AfterWait(ctx[s])
           Fail == /\ Commit([pcb EXCEPT ![s].state = "CLOSED"], [ctx EXCEPT ![s] = c], {}, {s},
                             [blk EXCEPT ![t] = "run"])
                   /\ pc' = [pc EXCEPT ![t] = "idle"]
                   /\ slot' = [slot EXCEPT ![t] = NoSlot]
                   /\ UNCHANGED <<saved, sent, want>>
       IN CASE ctx[s].interrupted -> Fail
            [] pcb[s].state \in {saved[t], "SYN_RECEIVED"} ->
                  /\ Park(t, s, [ctx EXCEPT ![s] = c], "opening")
                  /\ saved' = [saved EXCEPT ![t] = pcb[s].state]
                  /\ UNCHANGED <<pcb, owner, slot, sent, want, hung>>
            [] pcb[s].state = "ESTABLISHED" ->
                  /\ Return(t)
                  /\ ctx' = [ctx EXCEPT ![s] = c]
                  /\ UNCHANGED <<pcb, owner, slot, saved, sent, want, hung>>
            [] OTHER -> Fail

\* tcp_close: FIN+ACK from ESTABLISHED or CLOSE-WAIT, then a broadcast.
tcp_close(t) ==
    /\ ~hung /\ pc[t] = "idle" /\ slot[t] # NoSlot
    /\ LET s == slot[t]
           p == tcp_output(pcb[s], {"ACK", "FIN"}, 0)
       IN /\ pcb[s].state \in {"ESTABLISHED", "CLOSE_WAIT"}
          /\ Commit([pcb EXCEPT ![s] = [p EXCEPT !.snd.nxt = @ + 1,
                                 !.state = IF pcb[s].state = "ESTABLISHED" THEN "FIN_WAIT1" ELSE "LAST_ACK"]],
                    ctx, {s}, {}, blk)
    /\ UNCHANGED ThreadVars

\* The loop of tcp_send from `sent` = n: while n < len, cap = snd.wnd -
\* (snd.nxt - snd.una) in size_t; a zero cap stops the loop to sleep,
\* otherwise MIN(mss, len - sent, cap) octets are output and snd.nxt advances.
RECURSIVE SendLoop(_, _, _)
SendLoop(p, n, len) ==
    LET cap == SizeT(p.snd.wnd - (p.snd.nxt - p.snd.una))
        slen == Min({MSS, len - n, cap})
    IN IF n >= len \/ cap = 0
       THEN [p |-> p, sent |-> n, blocked |-> n < len]
       ELSE SendLoop([tcp_output(p, {"ACK", "PSH"}, slen) EXCEPT !.snd.nxt = @ + slen], n + slen, len)

\* tcp_send at RETRY, in ESTABLISHED or CLOSE-WAIT, with contexts nc and
\* thread states b: a tcp_output that fails closes and releases the pcb;
\* a zero cap sleeps, and an interrupted sleep returns (-1 or `sent`).
SendFrom(t, s, nc, n, len, b) ==
    LET r == SendLoop(pcb[s], n, len)
    IN \/ /\ OutputMayFail /\ r.sent > n
          /\ Commit([pcb EXCEPT ![s].state = "CLOSED"], nc, {}, {s}, b)
          /\ pc' = [pc EXCEPT ![t] = "idle"]
          /\ UNCHANGED <<slot, saved, sent, want>>
       \/ /\ ~r.blocked \/ nc[s].interrupted
          /\ pcb' = [pcb EXCEPT ![s] = r.p]
          /\ ctx' = nc /\ blk' = b /\ pc' = [pc EXCEPT ![t] = "idle"]
          /\ UNCHANGED <<owner, hung, slot, saved, sent, want>>
       \/ /\ r.blocked /\ ~nc[s].interrupted
          /\ pcb' = [pcb EXCEPT ![s] = r.p]
          /\ Park(t, s, nc, "sending")
          /\ sent' = [sent EXCEPT ![t] = r.sent]
          /\ want' = [want EXCEPT ![t] = len]
          /\ UNCHANGED <<owner, hung, slot, saved>>

tcp_send(t) ==
    /\ ~hung /\ pc[t] = "idle" /\ slot[t] # NoSlot
    /\ pcb[slot[t]].state \in {"ESTABLISHED", "CLOSE_WAIT"}
    /\ pcb[slot[t]].snd.nxt < SendLimit
    /\ \E len \in 1..MaxSend : SendFrom(t, slot[t], ctx, 0, len, blk)

\* tcp_send woken: EINTR returns; otherwise goto RETRY, where a state other
\* than ESTABLISHED and CLOSE-WAIT returns -1.
tcp_send_wakeup(t) ==
    /\ ~hung /\ pc[t] = "sending" /\ blk[t] = "woken"
    /\ LET s == slot[t]
           nc == [ctx EXCEPT ![s] = AfterWait(ctx[s])]
       IN IF ~ctx[s].interrupted /\ pcb[s].state \in {"ESTABLISHED", "CLOSE_WAIT"}
          THEN SendFrom(t, s, nc, sent[t], want[t], [blk EXCEPT ![t] = "run"])
          ELSE /\ ctx' = nc /\ Return(t)
               /\ UNCHANGED <<pcb, owner, hung, slot, saved, sent, want>>

\* tcp_receive at RETRY_RECEIVE with contexts nc: ESTABLISHED with an empty
\* buffer sleeps (EINTR returns -1); ESTABLISHED or CLOSE-WAIT with data
\* copies MIN(size, remain) octets out and grows rcv.wnd by as much; CLOSE-WAIT
\* with no data returns 0, and any other state -1.
RecvFrom(t, s, nc, size) ==
    LET p == pcb[s]
        remain == SizeT(BUF - p.rcv.wnd)
    IN CASE p.state = "ESTABLISHED" /\ remain = 0 /\ ~nc[s].interrupted ->
              /\ Park(t, s, nc, "receiving")
              /\ want' = [want EXCEPT ![t] = size]
              /\ UNCHANGED <<pcb, owner, hung, slot, saved, sent>>
         [] p.state \in {"ESTABLISHED", "CLOSE_WAIT"} /\ remain > 0 ->
              /\ pcb' = [pcb EXCEPT ![s].rcv.wnd = U16(@ + Min({size, remain}))]
              /\ ctx' = nc /\ Return(t)
              /\ UNCHANGED <<owner, hung, slot, saved, sent, want>>
         [] OTHER ->
              /\ ctx' = nc /\ Return(t)
              /\ UNCHANGED <<pcb, owner, hung, slot, saved, sent, want>>

tcp_receive(t) ==
    /\ ~hung /\ pc[t] = "idle" /\ slot[t] # NoSlot
    /\ pcb[slot[t]].state \in {"ESTABLISHED", "CLOSE_WAIT"}
    /\ \E size \in RecvSizes : RecvFrom(t, slot[t], ctx, size)

\* tcp_receive woken: EINTR returns -1, otherwise goto RETRY_RECEIVE.
tcp_receive_wakeup(t) ==
    /\ ~hung /\ pc[t] = "receiving" /\ blk[t] = "woken"
    /\ LET s == slot[t]
           nc == [ctx EXCEPT ![s] = AfterWait(ctx[s])]
       IN IF ctx[s].interrupted
          THEN /\ ctx' = nc /\ Return(t)
               /\ UNCHANGED <<pcb, owner, hung, slot, saved, sent, want>>
          ELSE RecvFrom(t, s, nc, want[t])
-----------------------------------------------------------------------------
(* Timers and the event handler, run by the worker. Each loops over all      *)
(* pcbs under the mutex, so each is one step on all the pcbs it touches.     *)

Closed(S) == [s \in Slots |-> IF s \in S THEN [pcb[s] EXCEPT !.state = "CLOSED"] ELSE pcb[s]]

\* tcp_retransmit_timer: emit_all on every pcb that is not FREE. Resending
\* changes nothing the model keeps; an entry past the deadline sets CLOSED and
\* broadcasts, without a release. Only the pcbs where that changes something
\* count as due.
RetransmitDue == {s \in Slots : /\ pcb[s].state # "FREE" /\ DeadlinePassed(pcb[s])
                                /\ (pcb[s].state # "CLOSED" \/ Parked(s) # {})}

tcp_retransmit_timer ==
    /\ ~hung /\ RetransmitDue # {}
    /\ Commit(Closed(RetransmitDue), ctx, RetransmitDue, {}, blk)
    /\ UNCHANGED ThreadVars

\* tcp_user_timeout: every pcb neither FREE nor TIME-WAIT opened at least
\* TCP_USER_TIMEOUT_TIME ago is flushed (emit_all), CLOSED and released.
UserTimeoutDue == {s \in Slots : /\ pcb[s].state \notin {"FREE", "TIME_WAIT"}
                                 /\ pcb[s].start_time >= TCP_USER_TIMEOUT_TIME}

tcp_user_timeout ==
    /\ ~hung /\ UserTimeoutDue # {}
    /\ Commit(Closed(UserTimeoutDue), ctx, {s \in UserTimeoutDue : DeadlinePassed(pcb[s])},
              UserTimeoutDue, blk)
    /\ UNCHANGED ThreadVars

\* tcp_time_wait_timeout: TIME-WAIT for 2 MSL is CLOSED and released.
TimeWaitDue == {s \in Slots : pcb[s].state = "TIME_WAIT" /\ pcb[s].time_wait >= TIME_WAIT_TIME}

tcp_time_wait_timeout ==
    /\ ~hung /\ TimeWaitDue # {}
    /\ Commit(Closed(TimeWaitDue), ctx, {}, TimeWaitDue, blk)
    /\ UNCHANGED ThreadVars

\* event_handler: sched_interrupt on every pcb that is not FREE.
event_handler ==
    LET S == {s \in Slots : pcb[s].state # "FREE"}
    IN /\ ~hung
       /\ \E s \in S : ~ctx[s].interrupted \/ Parked(s) # {}
       /\ Commit(pcb, [s \in Slots |-> IF s \in S THEN [ctx[s] EXCEPT !.interrupted = TRUE] ELSE ctx[s]],
                 S, {}, blk)
       /\ UNCHANGED ThreadVars

\* One unit of time passes for every pcb in use.
Older(x, bound) == IF x < bound THEN x + 1 ELSE x

Aged(p) ==
    IF p.state = "FREE" THEN p
    ELSE [p EXCEPT !.start_time = Older(@, TCP_USER_TIMEOUT_TIME),
                   !.time_wait = IF p.state = "TIME_WAIT" THEN Older(@, TIME_WAIT_TIME) ELSE @,
                   !.queue = [i \in DOMAIN @ |-> [@[i] EXCEPT !.first = Older(@, TCP_RETRANSMIT_DEADLINE)]]]

Tick ==
    /\ ~hung
    /\ RetransmitDue = {} /\ UserTimeoutDue = {} /\ TimeWaitDue = {}
    /\ \E s \in Slots : Aged(pcb[s]) # pcb[s]
    /\ pcb' = [s \in Slots |-> Aged(pcb[s])]
    /\ UNCHANGED <<ctx, blk, owner, hung, pc, slot, saved, sent, want>>

-----------------------------------------------------------------------------

Worker == tcp_segment_arrives \/ tcp_retransmit_timer \/ tcp_user_timeout
            \/ tcp_time_wait_timeout \/ event_handler

User(t) == tcp_open_rfc793(t) \/ tcp_close(t) \/ tcp_send(t) \/ tcp_receive(t)

\* What a thread does once a broadcast has woken it.
Wakeup(t) == tcp_open_rfc793_wakeup(t) \/ tcp_send_wakeup(t) \/ tcp_receive_wakeup(t)

Next == Worker \/ Tick \/ \E t \in Threads : User(t) \/ Wakeup(t)

\* The timers fire by themselves (SIGALRM every millisecond), time passes,
\* and a woken thread gets the mutex back (it is released at the end of every
\* critical section). The peer and the users owe nothing.
Fairness ==
    /\ WF_vars(tcp_retransmit_timer) /\ WF_vars(tcp_user_timeout)
    /\ WF_vars(tcp_time_wait_timeout) /\ WF_vars(Tick)
    /\ \A t \in Threads : WF_vars(Wakeup(t))

Spec == Init /\ [][Next]_vars /\ Fairness
-----------------------------------------------------------------------------
(* Properties                                                                *)

States == {"FREE", "CLOSED", "LISTEN", "SYN_SENT", "SYN_RECEIVED", "ESTABLISHED",
           "FIN_WAIT1", "FIN_WAIT2", "CLOSING", "TIME_WAIT", "CLOSE_WAIT", "LAST_ACK"}

\* States in which the pcb has sent a SYN that it still owns.
Connected == States \ {"FREE", "CLOSED", "LISTEN"}

Entries == [seq : Nat, flg : SUBSET {"SYN", "ACK", "FIN", "PSH"}, len : Nat, first : Nat]

TypeOK ==
    /\ \A s \in Slots :
         /\ pcb[s].state \in States /\ pcb[s].active \in BOOLEAN
         /\ pcb[s].local \in {Local, ANY} /\ pcb[s].foreign \in Foreigns \cup {ANY}
         /\ pcb[s].snd \in [nxt : Nat, una : Nat, wnd : PeerWnds \cup {0}, wl1 : Nat, wl2 : Nat]
         /\ pcb[s].iss \in Nat /\ pcb[s].rcv \in [nxt : Nat, wnd : 0..65535]
         /\ pcb[s].start_time \in 0..TCP_USER_TIMEOUT_TIME
         /\ pcb[s].time_wait \in 0..TIME_WAIT_TIME
         /\ pcb[s].queue \in Seq(Entries)
         /\ ctx[s] \in [interrupted : BOOLEAN, wc : -Cardinality(Threads)..Cardinality(Threads)]
    /\ pc \in [Threads -> {"idle", "opening", "sending", "receiving"}]
    /\ blk \in [Threads -> {"run", "parked", "woken"}]
    /\ \A t \in Threads : (pc[t] = "idle") = (blk[t] = "run")
    /\ slot \in [Threads -> Slots \cup {NoSlot}]
    /\ \A t \in Threads : pc[t] # "idle" => slot[t] # NoSlot
    /\ owner \in [Slots -> Threads \cup {NoThread}]
    /\ hung \in BOOLEAN

OpenReturnsOwnPcb ==
    [][\A t \in Threads :
         (pc[t] = "opening" /\ pc'[t] = "idle" /\ slot'[t] # NoSlot) => owner[slot[t]] = t]_vars

\* The receive buffer never holds more than sizeof(pcb->buf) octets: the
\* memcpy of the segment text at buf + (16 - rcv.wnd) stays inside buf.
RcvBufferBound == \A s \in Slots : pcb[s].rcv.wnd <= BUF

\* tcp_send never puts data beyond the window the peer offered: when a step
\* advances snd.nxt in ESTABLISHED or CLOSE-WAIT, the octets in flight stay
\* within snd.wnd.
SendWithinWindow ==
    [][\A s \in Slots :
         (/\ pcb[s].state \in {"ESTABLISHED", "CLOSE_WAIT"} /\ pcb'[s].state = pcb[s].state
          /\ pcb'[s].snd.nxt > pcb[s].snd.nxt)
         => pcb'[s].snd.nxt - pcb'[s].snd.una <= pcb'[s].snd.wnd]_vars

-----------------------------------------------------------------------------
(* Refinement: the engine implements the connection table of TcpConnection. *)
(* A FREE pcb holds no connection, so it is CLOSED there, and the send      *)
(* sequence of a CLOSED or LISTEN pcb, which the code leaves at whatever    *)
(* the last connection had, means nothing and is 0.                         *)

ConnState(s) == IF pcb[s].state = "FREE" THEN "CLOSED" ELSE pcb[s].state

Unsynced(s) == ConnState(s) \in {"CLOSED", "LISTEN"}

Conn == INSTANCE TcpConnection WITH
            conn <- [s \in Slots |-> ConnState(s)],
            una <- [s \in Slots |-> IF Unsynced(s) THEN 0 ELSE pcb[s].snd.una],
            nxt <- [s \in Slots |-> IF Unsynced(s) THEN 0 ELSE pcb[s].snd.nxt]

\* Every step of the engine (a segment, a user call up to a sleep, a timer
\* sweep, a release) moves each pcb along an edge of the RFC 793 diagram;
\* snd.una and snd.nxt never go back within a connection; an ACK never
\* moves snd.una past snd.nxt; and FIN-WAIT-2 and TIME-WAIT are entered
\* only once the FIN that tcp_close queued is acknowledged.
TcpConnectionSpec == Conn!Spec

====
