-------------------------------- MODULE Mesh --------------------------------
(***************************************************************************)
(* A mesh of BitChat nodes as the simulator (cli/main.c) runs them: on     *)
(* every node a mesh router over its dedup cache (DedupTable), the SQLite  *)
(* store of pending messages, and the UDP transport on the loopback        *)
(* interface.  One tick thread per node runs bc_router_tick in a loop; its *)
(* steps are separate actions because other nodes send, the user types     *)
(* /msg and time passes between them.                                      *)
(*                                                                         *)
(* A message is its UUID: sender and receiver follow from it (the 128-bit  *)
(* UUID is random), and only the ttl differs between copies.  Time is kept *)
(* as ages (now - seen_at, now - last_sf_tick) and remaining lifetimes     *)
(* (expires_at - now) that saturate where the code no longer tells values  *)
(* apart, so that seconds may pass without bound.                          *)
(***************************************************************************)
EXTENDS DedupTable, Sequences, FiniteSets

CONSTANTS Nodes,
          Links,         \* the peer ports each node is started with
          Sender,        \* the node that broadcasts each message
          Receiver,      \* whom each message is addressed to, a node or not
          Oversize,      \* messages longer on the wire than the 4096-byte recv buffer
          DefaultTtl,    \* BC_DEFAULT_TTL
          Fanout,        \* config.fanout
          MaxAge,        \* config.dedup_max_age, in seconds
          Retention,     \* STORAGE_DEFAULT_RETENTION_SEC
          SfInterval,    \* BC_SF_REBROADCAST_SEC
          Dist,          \* Dist[a][b] bounds from below the hops from a to b
          Lossy,         \* may datagrams get lost?
          StoreFails,    \* may SQLite refuse an insert?
          Prompt,        \* does every node finish a tick in every second?
          SockCap,       \* bound: datagrams a socket buffer holds
          MaxCrashes,    \* bound: crashes of nodes
          AgeCap         \* bound: seconds counted since a broadcast

ASSUME TopologyAssumption == /\ Links \in [Nodes -> SUBSET Nodes]
                             /\ Sender \in [Uuids -> Nodes]
                             /\ Oversize \subseteq Uuids

ASSUME ParameterAssumption == /\ DefaultTtl \in Nat \ {0}
                              /\ Fanout \in Nat
                              /\ MaxAge \in Nat
                              /\ Retention \in Nat
                              /\ SfInterval \in Nat \ {0}
                              /\ SockCap \in Nat
                              /\ MaxCrashes \in Nat
                              /\ AgeCap \in Nat /\ AgeCap > Retention
                              /\ {Lossy, StoreFails, Prompt} \subseteq BOOLEAN

\* Dist is a lower bound on hop counts: zero at the origin, and one link adds
\* at most one.
ASSUME DistAssumption == /\ Dist \in [Nodes -> [Nodes -> Nat]]
                         /\ \A o \in Nodes : Dist[o][o] = 0
                         /\ \A o, a \in Nodes : \A b \in Links[a] : Dist[o][b] <= Dist[o][a] + 1

VARIABLES
    dedup,      \* router->dedup_table of each node, with ages for time stamps
    store,      \* the rows of each node's pending_messages table
    sock,       \* the datagrams in each node's socket buffer
    phase,      \* where each node's tick thread is, or "down"
    todo,       \* what get_pending returned and the tick has yet to send
    sfAge,      \* seconds since last_sf_tick, up to SfInterval
    crashes,    \* crashes so far
    ticked,     \* nodes that finished a tick in this second (kept when Prompt)
    sent,       \* messages bc_router_broadcast has accepted
    sentAge,    \* seconds since then, up to AgeCap
    delivered   \* on_message calls for each message, up to 2

vars == <<dedup, store, sock, phase, todo, sfAge, crashes, ticked, sent, sentAge, delivered>>

Entry    == [occupied : BOOLEAN, uuid : Uuids \cup {"zero"}, age : 0..(MaxAge + 1)]
Datagram == [uuid : Uuids, ttl : 0..DefaultTtl]
Row      == [uuid : Uuids, ttl : 0..DefaultTtl, left : -1..Retention]

\* The type of every variable.
TypeOK == /\ dedup \in [Nodes -> [Slots -> Entry]]
          /\ store \in [Nodes -> SUBSET Row]
          /\ sock \in [Nodes -> Seq(Datagram)]
          /\ phase \in [Nodes -> {"down", "idle", "recv", "sf"}]
          /\ todo \in [Nodes -> SUBSET Datagram]
          /\ sfAge \in [Nodes -> 0..SfInterval]
          /\ crashes \in 0..MaxCrashes
          /\ ticked \in SUBSET Nodes
          /\ sent \in SUBSET Uuids
          /\ sentAge \in [Uuids -> 0..AgeCap]
          /\ delivered \in [Uuids -> 0..2]

-----------------------------------------------------------------------------
(* The router's parts on one node.                                         *)

\* A free slot, and the table calloc'd by bc_router_create.
Free == [occupied |-> FALSE, uuid |-> "zero", age |-> MaxAge + 1]
EmptyTable == [s \in Slots |-> Free]

\* The slots whose entry is older than dedup_max_age.
Stale(n) == {s \in Slots : dedup[n][s].age > MaxAge}

\* The tables dedup_insert can leave on n.
dedup_insert(n, u) ==
    {[dedup[n] EXCEPT ![s] = [occupied |-> TRUE, uuid |-> u, age |-> 0]] :
        s \in {r \in Slots : InsertsAt(dedup[n], u, Stale(n), r)}}

\* Mutant of store_message: INSERT OR REPLACE.
store_message_Replace(rows, u, t) ==
    {r \in rows : r.uuid # u} \cup {[uuid |-> u, ttl |-> t, left |-> Retention]}

\* INSERT OR IGNORE on the primary key uuid, with expires_at = now + 72 h.
store_message(rows, u, t) ==
    IF \E r \in rows : r.uuid = u
    THEN rows
    ELSE rows \cup {[uuid |-> u, ttl |-> t, left |-> Retention]}

\* The callers ignore store_message's result, so a failed insert just leaves
\* the table as it was.
StoreOutcomes(rows, u, t) ==
    {store_message(rows, u, t)} \cup (IF StoreFails THEN {rows} ELSE {})

\* SELECT ... WHERE expires_at >= now.
get_pending(rows) == {[uuid |-> r.uuid, ttl |-> r.ttl] : r \in {q \in rows : q.left >= 0}}

\* Mutant of evict_expired: what has been sent once is deleted.
evict_expired_Sent(rows) == {}

\* Mutant of evict_expired: nothing is ever deleted.
evict_expired_Never(rows) == rows

\* DELETE ... WHERE expires_at < now.
evict_expired(rows) == {r \in rows : r.left >= 0}

\* bc_message_serialize: of what goes over the wire, only the ttl tells two
\* copies of a message apart.
Wire(m, t) == [uuid |-> m, ttl |-> t]

\* bc_message_deserialize accepts a datagram whose payload length agrees with
\* its size: every message of this program but one cut off by recv's buffer.
Parses(m) == m \notin Oversize

\* Mutant of TtlExpired: the check is missing.
TtlExpired_Never(t) == FALSE

\* msg->ttl == 0.
TtlExpired(t) == t = 0

\* Mutant of HopTtl: the ttl is not counted down.
HopTtl_Kept(t) == t

\* msg->ttl--.
HopTtl(t) == t - 1

Smaller(a, b) == IF a < b THEN a ELSE b

\* How many times forward_to_peers calls send: once for each known peer, until
\* fanout of the calls have succeeded.
Calls(n) == Smaller(Cardinality(Links[n]), Fanout)

\* Every send call of the UDP transport goes to all configured ports, whatever
\* peer it is for, so each port gets up to Calls(n) copies; a socket that is
\* not bound or whose buffer is full drops them.
Arrivals(q, n, p) ==
    IF p \in Links[n] /\ phase[p] # "down"
    THEN Smaller(Calls(n), SockCap - Len(q[p]))
    ELSE 0

\* The socket buffers after n has forwarded d, starting from the buffers q.
forward_to_peers(q, n, d) ==
    {[p \in Nodes |-> q[p] \o [i \in 1..got[p] |-> d]] :
        got \in {g \in [Nodes -> 0..Fanout] :
                    \A p \in Nodes : IF Lossy THEN g[p] <= Arrivals(q, n, p)
                                              ELSE g[p] = Arrivals(q, n, p)}}

\* The socket buffers after udp_recv on n.
udp_recv(n) == [sock EXCEPT ![n] = Tail(@)]

-----------------------------------------------------------------------------
Init == /\ dedup = [n \in Nodes |-> EmptyTable]
        /\ store = [n \in Nodes |-> {}]
        /\ sock = [n \in Nodes |-> <<>>]
        /\ phase = [n \in Nodes |-> "idle"]
        /\ todo = [n \in Nodes |-> {}]
        /\ sfAge = [n \in Nodes |-> SfInterval]
        /\ crashes = 0
        /\ ticked = {}
        /\ sent = {}
        /\ sentAge = [m \in Uuids |-> 0]
        /\ delivered = [m \in Uuids |-> 0]

\* cmd_msg: the main thread creates a message and calls bc_router_broadcast.
\* It is marked as seen, forwarded, and stored whatever the sends returned.
Broadcast(m) ==
    LET n == Sender[m] IN
    /\ m \notin sent
    /\ phase[n] # "down"
    /\ \E t \in dedup_insert(n, m) : dedup' = [dedup EXCEPT ![n] = t]
    /\ sock' \in forward_to_peers(sock, n, Wire(m, DefaultTtl))
    /\ \E rows \in StoreOutcomes(store[n], m, DefaultTtl) : store' = [store EXCEPT ![n] = rows]
    /\ sent' = sent \cup {m}
    /\ UNCHANGED <<phase, todo, sfAge, crashes, ticked, sentAge, delivered>>

\* bc_router_tick, step 1.
TickBegin(n) ==
    /\ phase[n] = "idle"
    /\ phase' = [phase EXCEPT ![n] = "recv"]
    /\ dedup' = [dedup EXCEPT ![n] = dedup_evict(dedup[n], Stale(n), Free)]
    /\ UNCHANGED <<store, sock, todo, sfAge, crashes, ticked, sent, sentAge, delivered>>

\* bc_router_receive of the datagram d, with q the buffers it was taken from.
\* A truncated datagram does not parse, a known UUID is dropped; otherwise the
\* UUID is recorded before the ttl is looked at.
bc_router_receive(n, d, q) ==
    LET m == d.uuid IN
    \/ /\ ~Parses(m) \/ dedup_contains(dedup[n], m)
       /\ sock' = q
       /\ UNCHANGED <<dedup, store, delivered>>
    \/ /\ Parses(m) /\ ~dedup_contains(dedup[n], m)
       /\ \E t \in dedup_insert(n, m) : dedup' = [dedup EXCEPT ![n] = t]
       /\ \/ /\ TtlExpired(d.ttl)
             /\ sock' = q
             /\ UNCHANGED <<store, delivered>>
          \/ /\ ~TtlExpired(d.ttl) /\ Receiver[m] = n
             /\ delivered' = [delivered EXCEPT ![m] = IF @ < 2 THEN @ + 1 ELSE @]
             /\ sock' = q
             /\ UNCHANGED store
          \/ /\ ~TtlExpired(d.ttl) /\ Receiver[m] # n
             /\ \E rows \in StoreOutcomes(store[n], m, HopTtl(d.ttl)) :
                    store' = [store EXCEPT ![n] = rows]
             /\ sock' \in forward_to_peers(q, n, Wire(m, HopTtl(d.ttl)))
             /\ UNCHANGED delivered

\* bc_router_tick, step 2: one turn of the receive loop.
Receive(n) ==
    /\ phase[n] = "recv"
    /\ sock[n] # <<>>
    /\ bc_router_receive(n, Head(sock[n]), udp_recv(n))
    /\ UNCHANGED <<phase, todo, sfAge, crashes, ticked, sent, sentAge>>

\* Step 4, after which the tick thread sleeps.
FinishTick(n) ==
    /\ phase' = [phase EXCEPT ![n] = "idle"]
    /\ store' = [store EXCEPT ![n] = evict_expired(@)]
    /\ ticked' = IF Prompt THEN ticked \cup {n} ELSE ticked

\* The rate limit on rebroadcasts of stored messages.
RebroadcastDue(n) == Links[n] # {} /\ sfAge[n] >= SfInterval

\* The socket is drained, and step 3 queries the store if a rebroadcast is due.
QueryPending(n) ==
    /\ phase[n] = "recv"
    /\ sock[n] = <<>>
    /\ RebroadcastDue(n)
    /\ sfAge' = [sfAge EXCEPT ![n] = 0]
    /\ todo' = [todo EXCEPT ![n] = get_pending(store[n])]
    /\ IF todo'[n] = {}
       THEN FinishTick(n)
       ELSE phase' = [phase EXCEPT ![n] = "sf"] /\ UNCHANGED <<store, ticked>>
    /\ UNCHANGED <<dedup, sock, crashes, sent, sentAge, delivered>>

\* The socket is drained and no rebroadcast is due.
SkipPending(n) ==
    /\ phase[n] = "recv"
    /\ sock[n] = <<>>
    /\ ~RebroadcastDue(n)
    /\ FinishTick(n)
    /\ UNCHANGED <<dedup, sock, todo, sfAge, crashes, sent, sentAge, delivered>>

\* Step 3: one turn of the loop over the pending messages, in an order the
\* query leaves open; step 4 follows the last.
Rebroadcast(n) ==
    /\ phase[n] = "sf"
    /\ \E d \in todo[n] : /\ sock' \in forward_to_peers(sock, n, d)
                          /\ todo' = [todo EXCEPT ![n] = @ \ {d}]
    /\ IF todo'[n] = {} THEN FinishTick(n) ELSE UNCHANGED <<phase, store, ticked>>
    /\ UNCHANGED <<dedup, sfAge, crashes, sent, sentAge, delivered>>

\* The process dies: only the database file survives.
Crash(n) ==
    /\ phase[n] # "down"
    /\ crashes < MaxCrashes
    /\ crashes' = crashes + 1
    /\ phase' = [phase EXCEPT ![n] = "down"]
    /\ sock' = [sock EXCEPT ![n] = <<>>]
    /\ todo' = [todo EXCEPT ![n] = {}]
    /\ dedup' = [dedup EXCEPT ![n] = EmptyTable]
    /\ sfAge' = [sfAge EXCEPT ![n] = SfInterval]
    /\ ticked' = ticked \ {n}
    /\ UNCHANGED <<store, sent, sentAge, delivered>>

\* main starts the node again: same identity, a new router (last_sf_tick = 0),
\* the same configured peers.
Start(n) ==
    /\ phase[n] = "down"
    /\ phase' = [phase EXCEPT ![n] = "idle"]
    /\ UNCHANGED <<dedup, store, sock, todo, sfAge, crashes, ticked, sent, sentAge, delivered>>

\* The clock of the machine advances by one second.
Second ==
    /\ Prompt => ticked = Nodes
    /\ ticked' = {}
    /\ dedup' = [n \in Nodes |-> [s \in Slots |->
                    [dedup[n][s] EXCEPT !.age = IF @ <= MaxAge THEN @ + 1 ELSE @]]]
    /\ store' = [n \in Nodes |->
                    {[r EXCEPT !.left = IF @ >= 0 THEN @ - 1 ELSE @] : r \in store[n]}]
    /\ sfAge' = [n \in Nodes |-> IF sfAge[n] < SfInterval THEN sfAge[n] + 1 ELSE sfAge[n]]
    /\ sentAge' = [m \in Uuids |-> IF m \in sent /\ sentAge[m] < AgeCap
                                   THEN sentAge[m] + 1 ELSE sentAge[m]]
    /\ UNCHANGED <<sock, phase, todo, crashes, sent, delivered>>

\* The tick thread of n: exactly one of its steps is possible while n runs.
TickThread(n) ==
    TickBegin(n) \/ Receive(n) \/ QueryPending(n) \/ SkipPending(n) \/ Rebroadcast(n)

Next == \/ \E m \in Uuids : Broadcast(m)
        \/ \E n \in Nodes : TickThread(n) \/ Crash(n) \/ Start(n)
        \/ Second

Spec == Init /\ [][Next]_vars

\* The scheduler runs every tick thread, a node that died is started again, and
\* time passes.  Nothing makes a user send.
Fairness == /\ \A n \in Nodes : WF_vars(TickThread(n)) /\ WF_vars(Start(n))
            /\ WF_vars(Second)

FairSpec == Spec /\ Fairness

-----------------------------------------------------------------------------
(* Properties.                                                             *)

\* "Each hop decrements the TTL counter": a copy at hop distance h from its
\* origin, be it stored, about to be resent or in a socket buffer, carries a
\* ttl of at most DefaultTtl - h, through any mixture of relaying, storing,
\* rebroadcasting from the store, dedup expiry and restarts.  A datagram has
\* not been counted down for its last hop yet.
HopBound ==
    \A n \in Nodes :
        /\ \A r \in store[n] : r.ttl + Dist[Sender[r.uuid]][n] <= DefaultTtl
        /\ \A d \in todo[n] : d.ttl + Dist[Sender[d.uuid]][n] <= DefaultTtl
        /\ \A i \in 1..Len(sock[n]) :
              sock[n][i].ttl + Dist[Sender[sock[n][i].uuid]][n] <= DefaultTtl + 1

\* bc_router_broadcast's promise ("Every outgoing message goes into SQLite; the
\* rebroadcast tick will keep retrying until evict_expired() cleans it up"):
\* for the whole retention period its sender can retry the message with the
\* full ttl, even after a crash, and after copies of it with a lower ttl have
\* come back and been accepted because the dedup entry had expired.
OriginCustody ==
    \A m \in sent : sentAge[m] <= Retention =>
        [uuid |-> m, ttl |-> DefaultTtl, left |-> Retention - sentAge[m]] \in store[Sender[m]]

\* How long a copy with ttl t can be about: every relay that accepts a message
\* keeps it for a retention period of its own, and hands it on with a lower ttl.
Lifetime(t) == (DefaultTtl - t + 1) * (Retention + 1)

\* "The TTL mechanism prevents messages from circulating indefinitely", and says
\* when it is over: if every node finishes a tick in every second (one that
\* crashed is back in time for it), a copy with ttl t, be it stored, about to be
\* resent or in a socket buffer, exists only for Lifetime(t) seconds after the
\* broadcast, although relays that have forgotten a UUID store it anew.
DiesOut ==
    Prompt => \A n \in Nodes :
        /\ \A c \in store[n] \cup todo[n] : sentAge[c.uuid] <= Lifetime(c.ttl)
        /\ \A i \in 1..Len(sock[n]) : sentAge[sock[n][i].uuid] <= Lifetime(sock[n][i].ttl)

\* No copy of any message is on its way or can still be resent.
Quiet == \A n \in Nodes : sock[n] = <<>> /\ todo[n] = {} /\ get_pending(store[n]) = {}

\* "The TTL mechanism prevents messages from circulating indefinitely": although
\* a relay that has forgotten a UUID stores it again for another retention
\* period, all copies of all messages are gone eventually.
Drains == <>[]Quiet

\* Store-and-forward: a message that was broadcast is delivered, even if a node
\* on its way crashes, when nothing else gets lost and a crashed node is back
\* before the retention period is over.
Delivers ==
    \A m \in {u \in Uuids : Parses(u)} : m \in sent ~> delivered[m] > 0

=============================================================================
