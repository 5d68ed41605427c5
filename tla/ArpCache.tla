------------------------------ MODULE ArpCache ------------------------------
(***************************************************************************)
(* The ARP cache of src/arp.c: the table caches[], arp_input, arp_resolve  *)
(* and arp_timer_handler, all under the ARP mutex.                         *)
(*                                                                         *)
(*  - arp_input runs on the intr thread (net_softirq_handler). It takes    *)
(*    the mutex twice: once to update the sender's entry, and once more,   *)
(*    when that found no entry and the request is for us, to insert one.   *)
(*    Between the two it holds the message in `pending`; another thread    *)
(*    may run arp_resolve there, the timer may not (same thread);          *)
(*  - arp_resolve runs on any thread that calls ip_output (user threads in *)
(*    udp_sendto and tcp_send, the intr thread in tcp_input). It is one    *)
(*    critical section followed by the output of a request, so one step;   *)
(*  - arp_timer_handler runs on the intr thread from net_timer_handler.    *)
(*                                                                         *)
(* Time is a coarse clock: Tick ages every entry by one unit and happens   *)
(* only when no entry has expired (the timer polls every second, a unit    *)
(* stands for ARP_CACHE_TIMEOUT seconds or less). The exact timestamps are *)
(* kept as their order: `order` lists the used entries from the oldest     *)
(* timestamp to the newest, which is what timercmp in arp_cache_alloc      *)
(* compares.                                                               *)
(***************************************************************************)
EXTENDS Integers, Sequences, FiniteSets, FiniteSetsExt

CONSTANTS
    Entries,            \* indices of caches[], 1..ARP_CACHE_SIZE
    Addrs,              \* protocol addresses of other hosts
    Self,               \* the unicast address of our IP interface
    HAs,                \* hardware addresses a message may carry
    NoAddr,             \* pa 0 of a deleted entry
    NoHA,               \* the ha of an entry that has none
    ARP_CACHE_TIMEOUT   \* in clock units

ASSUME
    /\ Entries = 1..Cardinality(Entries) /\ Entries # {}
    /\ Self \notin Addrs /\ NoAddr \notin Addrs /\ NoHA \notin HAs
    /\ ARP_CACHE_TIMEOUT \in Nat

VARIABLES
    cache,    \* caches[]: state, pa, ha and the age of the timestamp
    order,    \* the used entries by timestamp, oldest first
    pending,  \* the message arp_input holds between its two critical sections
    latest    \* ghost: the ha of the last message merged into the cache, per pa

vars == <<cache, order, pending, latest>>

None == 0

\* arp_cache_delete: state FREE, pa 0, timestamp cleared. ha[0] = 0 leaves a
\* garbled address that no path reads before it is set again.
FreeEntry == [state |-> "FREE", pa |-> NoAddr, ha |-> NoHA, age |-> 0]

NoMsg == [spa |-> NoAddr, sha |-> NoHA]

Init ==
    /\ cache = [e \in Entries |-> FreeEntry]
    /\ order = <<>>
    /\ pending = NoMsg
    /\ latest = [a \in Addrs |-> NoHA]

\* arp_cache_select: the first entry that is not FREE and has this pa.
arp_cache_select(a) ==
    LET m == {e \in Entries : cache[e].state # "FREE" /\ cache[e].pa = a}
    IN IF m = {} THEN None ELSE Min(m)

\* Variant of arp_cache_alloc with the timestamp comparison reversed: it
\* evicts the newest entry.
AllocNewest ==
    LET free == {e \in Entries : cache[e].state = "FREE"}
    IN IF free # {} THEN Min(free) ELSE order[Len(order)]

\* arp_cache_alloc: the first FREE entry; with none, the entry with the
\* oldest timestamp, deleted. It never returns NULL.
arp_cache_alloc ==
    LET free == {e \in Entries : cache[e].state = "FREE"}
    IN IF free # {} THEN Min(free) ELSE Head(order)

\* gettimeofday(&entry->timestamp): the entry becomes the newest.
Stamp(o, e) == Append(SelectSeq(o, LAMBDA x : x # e), e)

\* Set entry e (arp_cache_update, arp_cache_insert and the INCOMPLETE entry
\* of arp_resolve): every field and a new timestamp.
SetEntry(e, st, a, h) ==
    /\ cache' = [cache EXCEPT ![e] = [state |-> st, pa |-> a, ha |-> h, age |-> 0]]
    /\ order' = Stamp(order, e)

-----------------------------------------------------------------------------
(* arp_input: an ARP message from the sender spa/sha for the target tpa.   *)
(* Messages with a wrong hardware or protocol type or length return before *)
(* the lock and change nothing. The opcode only decides whether a reply is *)
(* output.                                                                 *)

\* First critical section: arp_cache_update(spa, sha) updates the entry
\* arp_cache_select finds. Without one, and with tpa our address, the
\* message is kept for the insert.
ArpInputUpdate(spa, sha, tpa) ==
    LET e == arp_cache_select(spa) IN
    /\ pending = NoMsg
    /\ IF e # None
       THEN /\ SetEntry(e, "RESOLVED", spa, sha)
            /\ latest' = [latest EXCEPT ![spa] = sha]
            /\ UNCHANGED pending
       ELSE /\ pending' = IF tpa = Self THEN [spa |-> spa, sha |-> sha] ELSE NoMsg
            /\ UNCHANGED <<cache, order, latest>>

\* Second critical section: arp_cache_insert, which allocates a new entry
\* without looking for one with this pa again.
ArpInputMerge ==
    /\ pending # NoMsg
    /\ SetEntry(arp_cache_alloc, "RESOLVED", pending.spa, pending.sha)
    /\ latest' = [latest EXCEPT ![pending.spa] = pending.sha]
    /\ pending' = NoMsg

-----------------------------------------------------------------------------
(* arp_resolve: with no entry for pa, an INCOMPLETE entry is allocated and *)
(* a request sent. With an INCOMPLETE entry the request is sent again and  *)
(* the timestamp left alone; with a RESOLVED one its ha is copied out.     *)
(* Those two change no state. The early return when arp_cache_alloc fails  *)
(* would keep the mutex locked, but arp_cache_alloc cannot fail.           *)

\* Variant in which a resend also refreshes the timestamp of the
\* INCOMPLETE entry.
ResolveRestamps(a) ==
    LET e == arp_cache_select(a) IN
    \/ /\ e = None
       /\ SetEntry(arp_cache_alloc, "INCOMPLETE", a, NoHA)
       /\ UNCHANGED <<pending, latest>>
    \/ /\ e # None /\ cache[e].state = "INCOMPLETE"
       /\ SetEntry(e, "INCOMPLETE", a, cache[e].ha)
       /\ UNCHANGED <<pending, latest>>

arp_resolve(a) ==
    /\ arp_cache_select(a) = None
    /\ SetEntry(arp_cache_alloc, "INCOMPLETE", a, NoHA)
    /\ UNCHANGED <<pending, latest>>

-----------------------------------------------------------------------------
(* Timer and clock                                                          *)

\* Variant of the expiry test that deletes an entry one unit later.
ExpiredLate == {e \in Entries : cache[e].state \notin {"FREE", "STATIC"}
                                /\ cache[e].age > ARP_CACHE_TIMEOUT + 1}

\* Entries whose timestamp is more than ARP_CACHE_TIMEOUT old. STATIC
\* entries would be skipped, but nothing creates one.
Expired == {e \in Entries : cache[e].state \notin {"FREE", "STATIC"}
                            /\ cache[e].age > ARP_CACHE_TIMEOUT}

\* arp_timer_handler deletes every entry expired at its `now`. Entries in
\* the same clock unit expire oldest first, so a run deletes a prefix of
\* `order` of expired entries. It runs on the intr thread, never inside
\* arp_input.
arp_timer_handler ==
    /\ pending = NoMsg
    /\ \E k \in 1..Len(order) :
          LET D == {order[i] : i \in 1..k} IN
          /\ D \subseteq Expired
          /\ cache' = [e \in Entries |-> IF e \in D THEN FreeEntry ELSE cache[e]]
          /\ order' = SubSeq(order, k + 1, Len(order))
    /\ UNCHANGED <<pending, latest>>

\* One unit of time passes: every used entry gets older.
Tick ==
    /\ Expired = {}
    /\ order # <<>>
    /\ cache' = [e \in Entries |-> IF cache[e].state = "FREE" THEN cache[e]
                                   ELSE [cache[e] EXCEPT !.age = @ + 1]]
    /\ UNCHANGED <<order, pending, latest>>

Next ==
    \/ \E spa \in Addrs, sha \in HAs, tpa \in Addrs \cup {Self} : ArpInputUpdate(spa, sha, tpa)
    \/ ArpInputMerge
    \/ \E a \in Addrs : arp_resolve(a)
    \/ arp_timer_handler
    \/ Tick

\* The intr thread finishes the arp_input it is in, the timer keeps
\* running and time passes. Users and the network owe nothing.
Fairness ==
    /\ WF_vars(ArpInputMerge)
    /\ WF_vars(arp_timer_handler)
    /\ WF_vars(Tick)

Spec == Init /\ [][Next]_vars /\ Fairness

-----------------------------------------------------------------------------
(* Properties                                                               *)

TypeOK ==
    /\ cache \in [Entries -> [state : {"FREE", "INCOMPLETE", "RESOLVED"},
                              pa : Addrs \cup {NoAddr}, ha : HAs \cup {NoHA},
                              age : 0..ARP_CACHE_TIMEOUT + 1]]
    /\ order \in Seq(Entries)
    /\ Len(order) = Cardinality({e \in Entries : cache[e].state # "FREE"})
    /\ \A i \in 1..Len(order) : cache[order[i]].state # "FREE"
    /\ pending \in [spa : Addrs, sha : HAs] \cup {NoMsg}
    /\ latest \in [Addrs -> HAs \cup {NoHA}]

\* What arp_resolve copies out for pa (the RESOLVED entry arp_cache_select
\* finds) is the hardware address of the last message arp_input merged for
\* pa, though a duplicate entry inserted by arp_input may hold an older one.
SelectReturnsLatest ==
    \A a \in Addrs :
        LET e == arp_cache_select(a) IN
        (e # None /\ cache[e].state = "RESOLVED") => cache[e].ha = latest[a]

\* An INCOMPLETE entry for pa does not stay INCOMPLETE for pa forever:
\* arp_resolve resends without refreshing its timestamp, so it is resolved,
\* evicted or deleted by arp_timer_handler.
IncompleteEventuallyLeaves ==
    \A e \in Entries, a \in Addrs :
        (cache[e].state = "INCOMPLETE" /\ cache[e].pa = a)
            ~> ~(cache[e].state = "INCOMPLETE" /\ cache[e].pa = a)

\* The cache holds at most one entry per protocol address. arp_input
\* unlocks between its update and its insert; an arp_resolve in between
\* allocates an INCOMPLETE entry for the same pa and the insert adds another.
NoDuplicateEntries ==
    \A e1, e2 \in Entries :
        (e1 # e2 /\ cache[e1].state # "FREE" /\ cache[e2].state # "FREE")
            => cache[e1].pa # cache[e2].pa

=============================================================================
