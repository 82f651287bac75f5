--------------------------- MODULE PeerTableProofs ---------------------------
(***************************************************************************)
(* Proofs about the peer tables, for any lists of ports, any size of the   *)
(* tables and any fanout.                                                  *)
(***************************************************************************)
EXTENDS PeerTable, FiniteSetTheorems, TLAPS

\* A table within its array.
Table(t) == t \in Seq(Peer) /\ Len(t) <= BC_MAX_PEERS

\* u has the peers of t, in the same places, and perhaps more.
Grows(t, u) == /\ Len(u) >= Len(t)
               /\ \A j \in 1..Len(t) : u[j].pubkey = t[j].pubkey

\* A known peer has an index.
LEMMA Index == ASSUME NEW t \in Seq(Peer), NEW p \in Peer, Known(t, p)
               PROVE  IndexOf(t, p) \in 1..Len(t) /\ t[IndexOf(t, p)].pubkey = p.pubkey
  BY DEF Known, Keys, IndexOf

\* The tables' size.
LEMMA Size == BC_MAX_PEERS \in Nat
  BY PeerAssumption

\* t with q at index k.
Put(t, k, q) == [t EXCEPT ![k] = q]

\* Replacing an entry by one with the same key, as bc_peer_touch does, keeps the
\* table and its keys.
LEMMA Replace == ASSUME NEW t, Table(t), NEW k \in 1..Len(t), NEW q \in Peer, q.pubkey = t[k].pubkey
                 PROVE  /\ Table(Put(t, k, q))
                        /\ Len(Put(t, k, q)) = Len(t)
                        /\ \A j \in 1..Len(t) : Put(t, k, q)[j].pubkey = t[j].pubkey
<1> DEFINE u == Put(t, k, q)
<1>1. t \in Seq(Peer) /\ Len(t) <= BC_MAX_PEERS
  BY DEF Table
<1>2. u \in Seq(Peer) /\ Len(u) = Len(t)
  BY <1>1 DEF Put
<1>3. \A j \in 1..Len(t) : u[j] = IF j = k THEN q ELSE t[j]
  BY <1>1 DEF Put
<1> HIDE DEF u
<1>4. \A j \in 1..Len(t) : u[j].pubkey = t[j].pubkey
  BY <1>3
<1>5. Table(u)
  BY <1>1, <1>2 DEF Table
<1>6. QED
  BY <1>2, <1>4, <1>5 DEF u

\* bc_peer_touch.
LEMMA TouchedKeeps == ASSUME NEW t, Table(t), NEW p \in Peer, Known(t, p), now \in 0..MaxTime
                      PROVE  /\ Table(Touched(t, p))
                             /\ Len(Touched(t, p)) = Len(t)
                             /\ \A j \in 1..Len(t) : Touched(t, p)[j].pubkey = t[j].pubkey
<1> DEFINE k == IndexOf(t, p)
           q == [t[k] EXCEPT !.last_seen = now]
<1>1. k \in 1..Len(t)
  BY Index DEF Table
<1>2. t[k] \in Peer
  BY <1>1, SMTT(60) DEF Table
<1>3. q \in Peer /\ q.pubkey = t[k].pubkey
  BY <1>2 DEF Peer
<1>4. Touched(t, p) = Put(t, k, q)
  BY DEF Touched, Put
<1> HIDE DEF k, q
<1>5. QED
  BY <1>1, <1>3, <1>4, Replace, SMTT(60)

\* A new peer goes to the end.
LEMMA AppendKeeps == ASSUME NEW t, Table(t), NEW p \in Peer, ~Known(t, p), Room(t), NEW u, u = Append(t, p)
                     PROVE  /\ Table(u) /\ Grows(t, u) /\ Known(u, p)
                            /\ Len(u) = Len(t) + 1 /\ u[Len(u)] = p
                            /\ Distinct(t) => Distinct(u)
<1>0. t \in Seq(Peer) /\ Len(t) <= BC_MAX_PEERS /\ Len(t) < BC_MAX_PEERS
  BY DEF Table, Room
<1>a. u \in Seq(Peer) /\ Len(u) = Len(t) + 1 /\ u[Len(u)] = p
  BY <1>0
<1>1. Table(u) /\ Len(u) = Len(t) + 1 /\ u[Len(u)] = p
  BY <1>0, <1>a, Size DEF Table
<1>2. \A j \in 1..Len(t) : u[j] = t[j]
  BY <1>0
<1>3. Grows(t, u)
  BY <1>1, <1>2 DEF Grows, Table
<1>4. Known(u, p)
  BY <1>1 DEF Known, Keys, Table
<1>5. \A j \in 1..Len(t) : t[j].pubkey # p.pubkey
  BY DEF Known, Keys
<1>6. Distinct(t) => Distinct(u)
  BY <1>1, <1>2, <1>5 DEF Distinct, Table
<1>7. QED
  BY <1>1, <1>3, <1>4, <1>6

\* Peers in the same places are the same peers.
LEMMA SameKeys == ASSUME NEW t, NEW u, Len(t) = Len(u), \A j \in 1..Len(t) : u[j].pubkey = t[j].pubkey
                  PROVE  (Distinct(t) => Distinct(u)) /\ \A p : Known(u, p) <=> Known(t, p)
  BY DEF Distinct, Known, Keys

\* A table that grows forgets nobody.
LEMMA GrowsKnown == ASSUME NEW t, NEW u, Grows(t, u), NEW p, Known(t, p), Len(t) \in Nat, Len(u) \in Nat
                    PROVE  Known(u, p)
  BY SMTT(60) DEF Grows, Known, Keys

\* bc_router_add_peer keeps the table and its order, and the peer is in it
\* unless it was full.
LEMMA AddKeeps == ASSUME NEW t, Table(t), NEW p \in Peer, now \in 0..MaxTime, NEW u,
                         u = bc_router_add_peer(t, p)
                  PROVE  /\ Table(u) /\ Grows(t, u)
                         /\ Distinct(t) => Distinct(u)
                         /\ Known(u, p) \/ Len(u) = BC_MAX_PEERS
                         /\ Known(t, p) => Len(u) = Len(t)
                         /\ ~Known(t, p) /\ Room(t) => u = Append(t, p)
<1>1. CASE Known(t, p)
  <2> DEFINE k == IndexOf(t, p)
             q == [p EXCEPT !.last_seen = now]
  <2>1. k \in 1..Len(t) /\ t[k].pubkey = p.pubkey
    BY <1>1, Index DEF Table
  <2>2. q \in Peer /\ q.pubkey = t[k].pubkey
    BY <2>1, ZenonT(60) DEF Peer
  <2>3. u = Put(t, k, q)
    BY <1>1 DEF bc_router_add_peer, Put
  <2> HIDE DEF k, q
  <2>4. Table(u) /\ Len(u) = Len(t) /\ \A j \in 1..Len(t) : u[j].pubkey = t[j].pubkey
    BY <2>1, <2>2, <2>3, Replace, SMTT(60)
  <2>5. Grows(t, u)
    BY <2>4 DEF Grows, Table
  <2>6. QED
    BY <1>1, <2>4, <2>5, SameKeys, ZenonT(60)
<1>2. CASE ~Known(t, p) /\ Room(t)
  <2>1. u = Append(t, p)
    BY <1>2 DEF bc_router_add_peer
  <2>2. QED
    BY <1>2, <2>1, AppendKeeps, ZenonT(60)
<1>3. CASE ~Known(t, p) /\ ~Room(t)
  <2>1. u = t
    BY <1>3 DEF bc_router_add_peer
  <2>2. Len(u) = BC_MAX_PEERS
    BY <1>3, <2>1, Size DEF Room, Table
  <2>3. QED
    BY <1>3, <2>1, <2>2 DEF Grows, Table
<1>4. QED
  BY <1>1, <1>2, <1>3

-----------------------------------------------------------------------------
(* The invariant.                                                          *)

Types == /\ now \in 0..MaxTime
         /\ wiring \in {"direct", "callback", "none"}
         /\ before \in 0..BC_MAX_PEERS
         /\ transport \in {"udp", "ble", "wifi"}
         /\ peer_ports \in PortLists
         /\ phase \in {"idle", "scan", "add", "forward"}
         /\ found \in Seq(Peer)
         /\ i \in Nat \ {0}
         /\ sent \in Nat

Tables == Table(disc) /\ Table(router)

\* Each loop belongs to a wiring.
Loops == /\ phase = "add" => wiring = "direct"
         /\ phase = "scan" => wiring # "direct"

\* What forward_to_peers has sent: no neighbour has more copies than calls that
\* succeeded, for each of its entries in the list.
Forwarding ==
    phase = "forward" => /\ \A p \in Listed : copies[p] <= sent * Cardinality(Entries(p))
                         /\ sent <= Fanout

Copies == /\ \A p \in DOMAIN copies : copies[p] \in Nat
          /\ phase = "forward" => DOMAIN copies = Listed

Inv == Types /\ Tables /\ Loops /\ Copies /\ TablesAgree /\ ScanComplete /\ Forwarding

\* A port is a peer's key.
LEMMA PortPeer == ASSUME NEW port \in Port
                  PROVE  [pubkey |-> PortKey(port), last_seen |-> 0] \in Peer
<1>1. port % 256 \in 0..255
  BY DEF Port
<1>2. port \div 256 \in 0..255
  BY DEF Port
<1>3. 0 \in 0..MaxTime
  BY PeerAssumption
<1>4. QED
  BY <1>1, <1>2, <1>3 DEF PortKey, Peer

\* What the UDP transport reports are peers.
LEMMA DiscoverType == ASSUME peer_ports \in PortLists PROVE discover_peers \in Seq(Peer)
<1>1. peer_ports \in Seq(Port)
  BY PortAssumption
<1> DEFINE n == Smaller(Len(peer_ports), BC_MAX_PEERS)
           f(k) == [pubkey |-> PortKey(peer_ports[k]), last_seen |-> 0]
<1>4. n \in Nat /\ n <= Len(peer_ports)
  BY <1>1, Size DEF Smaller
<1>5. ASSUME NEW k \in 1..n PROVE f(k) \in Peer
  <2>1. k \in 1..Len(peer_ports)
    BY <1>1, <1>4
  <2>2. peer_ports[k] \in Port
    BY <1>1, <2>1
  <2>3. QED
    BY <2>2, PortPeer
<1> HIDE DEF n, f
<1>6. [k \in 1..n |-> f(k)] \in Seq(Peer)
  BY <1>4, <1>5
<1>7. udp_discover_peers(peer_ports) \in Seq(Peer)
  BY <1>6 DEF udp_discover_peers, n, f
<1>8. <<>> \in Seq(Peer)
  OBVIOUS
<1>9. QED
  BY <1>7, <1>8 DEF discover_peers, ble_discover, wifi_discover

\* Every step keeps the variables other than the tables in their types.
LEMMA TypesStep == Types /\ Tables /\ [Next]_vars => Types'
<1> SUFFICES ASSUME Types, Tables, [Next]_vars PROVE Types'
  OBVIOUS
<1> USE DEF Types
<1>0. MaxTime \in Nat
  BY PeerAssumption
<1>1. CASE Second
  BY <1>0, <1>1 DEF Second
<1>2. CASE Neighbours
  BY <1>2 DEF Neighbours
<1>a. CASE bc_discovery_on_peer_found
  <2>1. Len(disc) \in 0..BC_MAX_PEERS
    BY Size DEF Tables, Table
  <2>2. QED
    BY <1>a, <2>1 DEF bc_discovery_on_peer_found
<1>3. CASE bitchat_start_discovery
  BY <1>0, <1>3, DiscoverType DEF bitchat_start_discovery, bc_discovery_scan, Begin
<1>4. CASE ScanItem
  BY <1>4 DEF ScanItem
<1>5. CASE Discover
  BY <1>0, <1>5, DiscoverType DEF Discover, Begin
<1>6. CASE AddItem
  BY <1>6 DEF AddItem
<1>7. CASE forward_to_peers
  BY <1>7 DEF forward_to_peers, Begin
<1>8. CASE SendItem
  <2>1. sent' \in Nat /\ i' = i + 1
    BY <1>8 DEF SendItem
  <2>2. UNCHANGED <<now, wiring, before, transport, peer_ports, phase, found>>
    BY <1>8 DEF SendItem
  <2>3. QED
    BY <2>1, <2>2
<1>9. CASE LoopEnds
  BY <1>9 DEF LoopEnds, End
<1>10. CASE UNCHANGED vars
  BY <1>10 DEF vars
<1>11. QED
  BY <1>1, <1>2, <1>a, <1>3, <1>4, <1>5, <1>6, <1>7, <1>8, <1>9, <1>10 DEF Next

\* Every step keeps the wiring of the loop that runs.
LEMMA LoopsStep == Loops /\ [Next]_vars => Loops'
  BY DEF Loops, Next, vars, Second, Neighbours, bc_discovery_on_peer_found,
         bitchat_start_discovery, bc_discovery_scan, ScanItem, Discover, AddItem,
         forward_to_peers, SendItem, LoopEnds, Begin, End

\* Every step keeps the tables within their arrays, and no step forgets or moves
\* a peer.
LEMMA TablesStep == Types /\ Tables /\ [Next]_vars
                        => Tables' /\ Grows(disc, disc') /\ Grows(router, router')
<1> SUFFICES ASSUME Types, Tables, [Next]_vars
             PROVE  Tables' /\ Grows(disc, disc') /\ Grows(router, router')
  OBVIOUS
<1>0. /\ Table(disc) /\ Table(router) /\ now \in 0..MaxTime
      /\ found \in Seq(Peer) /\ i \in Nat \ {0}
  BY DEF Tables, Types
<1>a. Grows(disc, disc) /\ Grows(router, router)
  BY <1>0 DEF Grows, Table
<1>b. i <= Len(found) => found[i] \in Peer
  BY <1>0
<1>1. CASE UNCHANGED <<disc, router>>
  BY <1>0, <1>1, <1>a DEF Tables, Table
<1>2. CASE ScanItem
  <2> DEFINE p == found[i]
  <2>0. p \in Peer
    BY <1>2, <1>b DEF ScanItem
  <2>1. CASE Known(disc, p) /\ disc' = Touched(disc, p) /\ UNCHANGED router
    <3> HIDE DEF p
    <3>1. /\ Table(Touched(disc, p))
          /\ Len(Touched(disc, p)) = Len(disc)
          /\ \A j \in 1..Len(disc) : Touched(disc, p)[j].pubkey = disc[j].pubkey
      BY <1>0, <2>0, <2>1, TouchedKeeps
    <3>2. Len(disc) \in Nat
      BY <1>0 DEF Table
    <3>3. Grows(disc, disc') /\ Table(disc')
      BY <2>1, <3>1, <3>2 DEF Grows
    <3>4. QED
      BY <1>0, <1>a, <2>1, <3>3 DEF Tables
  <2>2. CASE /\ ~Known(disc, p) /\ Room(disc) /\ disc' = Append(disc, p)
             /\ router' = IF wiring = "callback" THEN bc_router_add_peer(router, p) ELSE router
    <3> HIDE DEF p
    <3>1. Table(disc') /\ Grows(disc, disc')
      BY <1>0, <2>0, <2>2, AppendKeeps, ZenonT(60)
    <3>2. Table(router') /\ Grows(router, router')
      BY <1>0, <1>a, <2>0, <2>2, AddKeeps
    <3>3. QED
      BY <3>1, <3>2 DEF Tables
  <2>3. CASE UNCHANGED <<disc, router>>
    BY <1>1, <2>3
  <2>4. QED
    BY <1>2, <2>1, <2>2, <2>3 DEF ScanItem
<1>3. CASE AddItem
  <2>1. found[i] \in Peer /\ router' = bc_router_add_peer(router, found[i]) /\ UNCHANGED disc
    BY <1>3, <1>b DEF AddItem
  <2>2. Table(router') /\ Grows(router, router')
    BY <1>0, <2>1, AddKeeps, ZenonT(60)
  <2>3. QED
    BY <1>0, <1>a, <2>1, <2>2 DEF Tables
<1>4. QED
  BY <1>1, <1>2, <1>3 DEF Next, vars, Second, Neighbours, bc_discovery_on_peer_found,
         bitchat_start_discovery, bc_discovery_scan, Discover,
                          forward_to_peers, SendItem, LoopEnds

\* Every step keeps the two tables in step.
LEMMA AgreeStep == Types /\ Tables /\ Loops /\ TablesAgree /\ [Next]_vars => TablesAgree'
<1> SUFFICES ASSUME Types, Tables, Loops, TablesAgree, [Next]_vars PROVE TablesAgree'
  OBVIOUS
<1>0. /\ Table(disc) /\ Table(router) /\ now \in 0..MaxTime
      /\ found \in Seq(Peer) /\ i \in Nat \ {0} /\ before \in Nat
  BY Size DEF Tables, Types
<1>b. i <= Len(found) => found[i] \in Peer
  BY <1>0
<1>c. Distinct(disc) /\ Distinct(router)
  BY DEF TablesAgree
<1>d. wiring = "callback" =>
          /\ Len(disc) = before + Len(router)
          /\ \A j \in 1..Len(router) : router[j].pubkey = disc[before + j].pubkey
  BY DEF TablesAgree
<1>e. wiring = "none" => router = <<>>
  BY DEF TablesAgree
<1>1. CASE UNCHANGED <<wiring, before, disc, router>>
  <2>1. Distinct(disc') /\ Distinct(router')
    BY <1>1, <1>c
  <2>2. QED
    BY <1>1, <1>d, <1>e, <2>1 DEF TablesAgree, Distinct
<1>2. CASE ScanItem
  <2> DEFINE p == found[i]
  <2>0. p \in Peer /\ UNCHANGED <<wiring, before>>
    BY <1>2, <1>b DEF ScanItem
  <2>1. CASE Known(disc, p) /\ disc' = Touched(disc, p) /\ UNCHANGED router
    <3> HIDE DEF p
    <3> DEFINE t == Touched(disc, p)
    <3>1. /\ Len(t) = Len(disc)
          /\ \A j \in 1..Len(disc) : t[j].pubkey = disc[j].pubkey
      BY <1>0, <2>0, <2>1, TouchedKeeps
    <3> HIDE DEF t
    <3>2. Distinct(t)
      BY <1>c, <3>1, SameKeys, ZenonT(60)
    <3>3. disc' = t /\ router' = router /\ wiring' = wiring /\ before' = before
      BY <2>0, <2>1 DEF t
    <3>4. wiring = "callback" =>
              /\ Len(t) = before + Len(router)
              /\ \A j \in 1..Len(router) : router[j].pubkey = t[before + j].pubkey
      <4>1. Len(router) \in Nat
        BY <1>0 DEF Table
      <4>2. QED
        BY <1>0, <1>d, <3>1, <4>1, SMTT(60)
    <3>5. QED
      BY <1>c, <1>e, <3>2, <3>3, <3>4 DEF TablesAgree, Distinct
  <2>2. CASE /\ ~Known(disc, p) /\ Room(disc) /\ disc' = Append(disc, p)
             /\ router' = IF wiring = "callback" THEN bc_router_add_peer(router, p) ELSE router
    <3> HIDE DEF p
    <3>1. Distinct(disc')
      BY <1>0, <1>c, <2>0, <2>2, AppendKeeps, ZenonT(60) DEF Distinct
    <3>2. CASE wiring = "callback"
      <4>5. /\ disc \in Seq(Peer) /\ router \in Seq(Peer)
            /\ Len(disc) \in Nat /\ Len(router) \in Nat
        BY <1>0 DEF Table
      <4>1. ~Known(router, p)
        <5>1. \A j \in 1..Len(router) : before + j \in 1..Len(disc)
          BY <1>0, <1>d, <3>2, <4>5
        <5>2. QED
          BY <1>d, <2>2, <3>2, <5>1, ZenonT(60) DEF Known, Keys
      <4>2. Room(router)
        BY <1>0, <1>d, <2>2, <3>2, <4>5, Size DEF Room
      <4>3. router' = Append(router, p)
        BY <1>0, <2>0, <2>2, <3>2, <4>1, <4>2, AddKeeps
      <4>4. Distinct(router')
        BY <1>0, <1>c, <2>0, <4>1, <4>2, <4>3, AppendKeeps, ZenonT(60) DEF Distinct
      <4>6. /\ Len(disc') = before + Len(router')
            /\ \A j \in 1..Len(router') : router'[j].pubkey = disc'[before + j].pubkey
        <5>1. /\ Len(disc') = Len(disc) + 1 /\ disc'[Len(disc) + 1] = p
              /\ \A j \in 1..Len(disc) : disc'[j] = disc[j]
          BY <2>0, <2>2, <4>5
        <5>2. /\ Len(router') = Len(router) + 1 /\ router'[Len(router) + 1] = p
              /\ \A j \in 1..Len(router) : router'[j] = router[j]
          BY <2>0, <4>3, <4>5
        <5>3. ASSUME NEW j \in 1..Len(router) PROVE router'[j].pubkey = disc'[before + j].pubkey
          <6>1. before + j \in 1..Len(disc)
            BY <1>0, <1>d, <3>2, <4>5
          <6>2. QED
            BY <1>d, <3>2, <5>1, <5>2, <6>1
        <5>4. before + (Len(router) + 1) = Len(disc) + 1
          <6>1. before \in Nat /\ Len(router) \in Nat /\ Len(disc) = before + Len(router)
            BY <1>0, <1>d, <3>2, <4>5
          <6>2. QED
            BY <6>1
        <5>5. \A j \in 1..Len(router') : j \in 1..Len(router) \/ j = Len(router) + 1
          BY <4>5, <5>2
        <5>6. QED
          BY <5>1, <5>2, <5>3, <5>4, <5>5
      <4>7. QED
        BY <2>0, <3>1, <3>2, <4>4, <4>6 DEF TablesAgree, Distinct
    <3>3. CASE wiring # "callback"
      <4>1. router' = router
        BY <2>2, <3>3
      <4>2. QED
        BY <1>c, <1>e, <2>0, <3>1, <3>3, <4>1 DEF TablesAgree, Distinct
    <3>4. QED
      BY <3>2, <3>3
  <2>3. CASE UNCHANGED <<disc, router>>
    BY <1>1, <2>0, <2>3
  <2>4. QED
    BY <1>2, <2>1, <2>2, <2>3 DEF ScanItem
<1>3. CASE AddItem
  <2>1. /\ found[i] \in Peer /\ router' = bc_router_add_peer(router, found[i])
        /\ UNCHANGED <<disc, wiring>> /\ wiring = "direct"
    BY <1>3, <1>b DEF AddItem, Loops
  <2>2. Distinct(router')
    BY <1>0, <1>c, <2>1, AddKeeps, ZenonT(60) DEF Distinct
  <2>3. QED
    BY <1>c, <2>1, <2>2 DEF TablesAgree, Distinct
<1>4. CASE bc_discovery_on_peer_found
  <2>1. /\ wiring = "none" /\ wiring' = "callback" /\ before' = Len(disc)
        /\ UNCHANGED <<disc, router>>
    BY <1>4 DEF bc_discovery_on_peer_found
  <2>2. router = <<>> /\ Len(disc) \in Nat
    BY <1>0, <1>e, <2>1 DEF Table
  <2>3. QED
    BY <1>c, <2>1, <2>2 DEF TablesAgree, Distinct
<1>5. QED
  BY <1>1, <1>2, <1>3, <1>4 DEF Next, vars, Second, Neighbours, bc_discovery_on_peer_found,
         bitchat_start_discovery, bc_discovery_scan, Discover,
                          forward_to_peers, SendItem, LoopEnds

\* A scan leaves no peer behind: the one at the index goes into the table, or the
\* table is full, and a table that grows keeps both.
LEMMA ScanStep == Types /\ Tables /\ ScanComplete /\ [Next]_vars => ScanComplete'
<1> SUFFICES ASSUME Types, Tables, ScanComplete, [Next]_vars PROVE ScanComplete'
  OBVIOUS
<1>0. /\ Table(disc) /\ Table(router) /\ now \in 0..MaxTime
      /\ found \in Seq(Peer) /\ i \in Nat \ {0}
  BY DEF Tables, Types
<1>b. i <= Len(found) => found[i] \in Peer
  BY <1>0
<1>c. Table(disc') /\ Table(router') /\ Grows(disc, disc') /\ Grows(router, router')
  BY TablesStep DEF Tables
<1>d. /\ Len(disc) \in Nat /\ Len(disc') \in Nat /\ Len(router) \in Nat /\ Len(router') \in Nat
      /\ Len(disc') <= BC_MAX_PEERS /\ Len(router') <= BC_MAX_PEERS
      /\ Len(disc') >= Len(disc) /\ Len(router') >= Len(router)
  BY <1>0, <1>c DEF Table, Grows
<1>1. CASE UNCHANGED <<phase, found, i, disc, router>>
  BY <1>1 DEF ScanComplete, Known, Keys
<1>2. CASE phase' \notin {"scan", "add"} \/ (phase' \in {"scan", "add"} /\ i' = 1)
  BY <1>2 DEF ScanComplete
<1>3. CASE ScanItem
  <2> DEFINE p == found[i]
  <2>1. p \in Peer /\ i' = i + 1 /\ found' = found /\ phase = "scan" /\ phase' = "scan"
    BY <1>3, <1>b DEF ScanItem
  <2>2. Known(disc', p) \/ Len(disc') = BC_MAX_PEERS
    <3>1. CASE Known(disc, p)
      BY <1>c, <1>d, <3>1, GrowsKnown
    <3>2. CASE ~Known(disc, p) /\ Room(disc)
      <4>1. disc' = Append(disc, p)
        BY <1>3, <3>2 DEF ScanItem
      <4> HIDE DEF p
      <4>2. QED
        BY <1>0, <2>1, <3>2, <4>1, AppendKeeps, ZenonT(60)
    <3>3. CASE ~Known(disc, p) /\ ~Room(disc)
      BY <1>d, <3>3, Size DEF Room
    <3>4. QED
      BY <3>1, <3>2, <3>3
  <2>3. \A j \in 1..(i - 1) : Known(disc', found[j]) \/ Len(disc') = BC_MAX_PEERS
    <3>1. \A j \in 1..(i - 1) : Known(disc, found[j]) \/ Len(disc) = BC_MAX_PEERS
      BY <2>1 DEF ScanComplete
    <3>2. Len(disc) = BC_MAX_PEERS => Len(disc') = BC_MAX_PEERS
      BY <1>d, Size
    <3>3. QED
      BY <1>c, <1>d, <3>1, <3>2, GrowsKnown
  <2>4. \A j \in 1..i : j \in 1..(i - 1) \/ j = i
    BY <1>0
  <2>5. \A j \in 1..i : Known(disc', found[j]) \/ Len(disc') = BC_MAX_PEERS
    BY <2>2, <2>3, <2>4
  <2>6. i' - 1 = i
    BY <1>0, <2>1
  <2>7. QED
    BY <2>1, <2>5, <2>6 DEF ScanComplete, Known
<1>4. CASE AddItem
  <2> DEFINE p == found[i]
  <2>1. p \in Peer /\ i' = i + 1 /\ found' = found /\ phase = "add" /\ phase' = "add"
    BY <1>4, <1>b DEF AddItem
  <2>2. Known(router', p) \/ Len(router') = BC_MAX_PEERS
    <3>1. router' = bc_router_add_peer(router, p)
      BY <1>4 DEF AddItem
    <3> HIDE DEF p
    <3>2. QED
      BY <1>0, <2>1, <3>1, AddKeeps
  <2>3. \A j \in 1..(i - 1) : Known(router', found[j]) \/ Len(router') = BC_MAX_PEERS
    <3>1. \A j \in 1..(i - 1) : Known(router, found[j]) \/ Len(router) = BC_MAX_PEERS
      BY <2>1 DEF ScanComplete
    <3>2. Len(router) = BC_MAX_PEERS => Len(router') = BC_MAX_PEERS
      BY <1>d, Size
    <3>3. QED
      BY <1>c, <1>d, <3>1, <3>2, GrowsKnown
  <2>4. \A j \in 1..i : j \in 1..(i - 1) \/ j = i
    BY <1>0
  <2>5. \A j \in 1..i : Known(router', found[j]) \/ Len(router') = BC_MAX_PEERS
    BY <2>2, <2>3, <2>4
  <2>6. i' - 1 = i
    BY <1>0, <2>1, SMTT(60)
  <2>7. QED
    BY <2>1, <2>5, <2>6 DEF ScanComplete, Known
<1>5. QED
  BY <1>1, <1>2, <1>3, <1>4 DEF Next, vars, Second, Neighbours, bc_discovery_on_peer_found,
         bitchat_start_discovery, bc_discovery_scan, Discover,
                                forward_to_peers, SendItem, LoopEnds, Begin, End

\* A list has finitely many entries of a port, and a call reaches some of them.
LEMMA EntriesFinite ==
    ASSUME peer_ports \in PortLists, NEW p, NEW reached
    PROVE  /\ Cardinality(Entries(p)) \in Nat
           /\ Cardinality(Entries(p) \cap reached) \in Nat
           /\ Cardinality(Entries(p) \cap reached) <= Cardinality(Entries(p))
           /\ reached = {} => Cardinality(Entries(p) \cap reached) = 0
<1>1. Len(peer_ports) \in Nat
  BY PortAssumption
<1>2. IsFiniteSet(1..Len(peer_ports))
  BY <1>1, FS_Interval
<1>3. Entries(p) \subseteq 1..Len(peer_ports)
  BY DEF Entries
<1>4. IsFiniteSet(Entries(p))
  BY <1>2, <1>3, FS_Subset
<1>5. Entries(p) \cap reached \subseteq Entries(p)
  OBVIOUS
<1>6. /\ IsFiniteSet(Entries(p) \cap reached)
      /\ Cardinality(Entries(p) \cap reached) <= Cardinality(Entries(p))
  BY <1>4, <1>5, FS_Subset
<1>7. Cardinality(Entries(p)) \in Nat /\ Cardinality(Entries(p) \cap reached) \in Nat
  BY <1>4, <1>6, FS_CardinalityType
<1>8. ASSUME reached = {} PROVE Cardinality(Entries(p) \cap reached) = 0
  <2>1. Entries(p) \cap reached = {}
    BY <1>8
  <2>2. QED
    BY <2>1, FS_EmptySet
<1>9. QED
  BY <1>6, <1>7, <1>8

\* Every step keeps a count for each neighbour.
LEMMA CopiesStep == Types /\ Copies /\ [Next]_vars => Copies'
<1> SUFFICES ASSUME Types, Copies, [Next]_vars PROVE Copies'
  OBVIOUS
<1>1. CASE UNCHANGED copies /\ (phase' = "forward" => phase = "forward" /\ UNCHANGED peer_ports)
  BY <1>1, Zenon DEF Copies, Listed
<1>2. CASE copies' = [p \in Listed |-> 0] /\ UNCHANGED peer_ports
  BY <1>2 DEF Copies, Listed
<1>3. CASE SendItem
  <2>1. PICK reached : copies' = [p \in Listed |-> copies[p] + Cardinality(Entries(p) \cap reached)]
    BY <1>3, Zenon DEF SendItem
  <2>2. phase = "forward" /\ UNCHANGED peer_ports
    BY <1>3, ZenonT(60) DEF SendItem
  <2>3. Listed' = Listed
    BY <2>2 DEF Listed
  <2>4. \A p \in Listed : copies[p] \in Nat /\ Cardinality(Entries(p) \cap reached) \in Nat
    BY <2>2, EntriesFinite, Zenon DEF Copies, Types
  <2>5. DOMAIN copies' = Listed /\ \A p \in Listed : copies'[p] \in Nat
    BY <2>1, <2>4
  <2>6. QED
    BY <2>3, <2>5, Zenon DEF Copies
<1>4. QED
  BY <1>1, <1>2, <1>3 DEF Next, vars, Second, Neighbours, bc_discovery_on_peer_found,
         bitchat_start_discovery, bc_discovery_scan, ScanItem, Discover,
                          AddItem, forward_to_peers, LoopEnds, Begin, End

\* One call more, and more calls, of n copies each.
LEMMA Multiples == /\ \A s, n \in Nat : s * n \in Nat /\ (s + 1) * n = s * n + n
                   /\ \A s, t, n \in Nat : s <= t => s * n <= t * n
<1>1. \A s, n \in Nat : s * n \in Nat /\ (s + 1) * n = s * n + n
  OBVIOUS
<1>2. ASSUME NEW s \in Nat, NEW t \in Nat, NEW n \in Nat, s <= t PROVE s * n <= t * n
  <2>1. PICK d \in Nat : t = s + d
    BY <1>2
  <2>2. t * n = s * n + d * n /\ d * n \in Nat /\ s * n \in Nat
    BY <2>1
  <2>3. QED
    BY <2>2
<1>3. QED
  BY <1>1, <1>2

\* A call of send that reaches somebody counts, and at most fanout calls count.
LEMMA ForwardingStep == Types /\ Copies /\ Forwarding /\ [Next]_vars => Forwarding'
<1> SUFFICES ASSUME Types, Copies, Forwarding, [Next]_vars PROVE Forwarding'
  OBVIOUS
<1>0. sent \in Nat /\ Fanout \in Nat
  BY PeerAssumption DEF Types
<1>a. ASSUME UNCHANGED peer_ports PROVE Listed' = Listed /\ \A p : Entries(p)' = Entries(p)
  BY <1>a DEF Listed, Entries
<1>1. CASE phase' = "forward" => phase = "forward" /\ UNCHANGED <<copies, sent, peer_ports>>
  BY <1>1, <1>a DEF Forwarding
<1>2. CASE copies' = [p \in Listed |-> 0] /\ sent' = 0 /\ UNCHANGED peer_ports
  <2>1. Listed' = Listed /\ sent' <= Fanout
    BY <1>0, <1>2, <1>a
  <2>2. ASSUME NEW p \in Listed PROVE copies'[p] <= sent' * Cardinality(Entries(p)')
    <3>1. Entries(p)' = Entries(p) /\ Cardinality(Entries(p)) \in Nat
      BY <1>2, <1>a, EntriesFinite DEF Types
    <3>2. 0 <= 0 * Cardinality(Entries(p))
      BY <3>1
    <3>3. QED
      BY <1>2, <3>1, <3>2
  <2>3. QED
    BY <2>1, <2>2 DEF Forwarding
<1>3. CASE SendItem
  <2>1. PICK reached :
           /\ sent' = IF udp_send(reached) THEN sent + 1 ELSE sent
           /\ copies' = [p \in Listed |-> copies[p] + Cardinality(Entries(p) \cap reached)]
    BY <1>3 DEF SendItem
  <2>2. phase = "forward" /\ sent < Fanout /\ UNCHANGED peer_ports
    BY <1>3 DEF SendItem, SendsMore
  <2>3. sent' <= Fanout
    BY <1>0, <2>1, <2>2
  <2>4. ASSUME NEW p \in Listed PROVE copies'[p] <= sent' * Cardinality(Entries(p))
    <3> DEFINE n == Cardinality(Entries(p))
               c == Cardinality(Entries(p) \cap reached)
    <3>1. n \in Nat /\ c \in Nat /\ c <= n /\ (reached = {} => c = 0)
      BY EntriesFinite DEF Types
    <3>2. copies[p] \in Nat /\ copies[p] <= sent * n
      BY <2>2 DEF Copies, Forwarding
    <3>3. copies'[p] = copies[p] + c
      BY <2>1
    <3> HIDE DEF n, c
    <3>4. sent * n \in Nat /\ (sent + 1) * n = sent * n + n
      BY <1>0, <3>1, Multiples
    <3>5. CASE reached = {}
      <4>1. sent' = sent /\ c = 0
        BY <2>1, <3>1, <3>5 DEF udp_send
      <4>2. QED
        BY <3>2, <3>3, <4>1 DEF n
    <3>6. CASE reached # {}
      <4>1. sent' = sent + 1
        BY <2>1, <3>6 DEF udp_send
      <4>2. copies'[p] <= (sent + 1) * n
        BY <3>1, <3>2, <3>3, <3>4
      <4>3. QED
        BY <4>1, <4>2 DEF n
    <3>7. QED
      BY <3>5, <3>6
  <2>5. QED
    BY <1>a, <2>2, <2>3, <2>4 DEF Forwarding
<1>4. QED
  BY <1>1, <1>2, <1>3 DEF Next, vars, Second, Neighbours, bc_discovery_on_peer_found,
         bitchat_start_discovery, bc_discovery_scan, ScanItem, Discover,
                          AddItem, forward_to_peers, LoopEnds, Begin, End

-----------------------------------------------------------------------------
\* Inv holds in every state.
LEMMA InvariantHolds == Spec => []Inv
<1>1. Init => Inv
  <2> SUFFICES ASSUME Init PROVE Inv
    OBVIOUS
  <2>1. Types
    BY Size DEF Init, Types
  <2>2. Tables
    BY Size DEF Init, Tables, Table
  <2>3. TablesAgree
    BY DEF Init, TablesAgree, Distinct
  <2>4. Loops /\ Copies /\ ScanComplete /\ Forwarding
    BY DEF Init, Loops, Copies, ScanComplete, Forwarding
  <2>5. QED
    BY <2>1, <2>2, <2>3, <2>4 DEF Inv
<1>2. Inv /\ [Next]_vars => Inv'
  BY TypesStep, TablesStep, LoopsStep, CopiesStep, AgreeStep, ScanStep, ForwardingStep DEF Inv
<1>3. QED
  BY <1>1, <1>2, PTL DEF Spec

\* Every variable keeps its type, and neither table outgrows its array of
\* BC_MAX_PEERS entries, whatever the transport reports.
THEOREM TypeCorrect == Spec => []TypeOK
<1>1. Inv => TypeOK
  BY DEF Inv, Types, Tables, Table, Copies, TypeOK
<1>2. QED
  BY <1>1, InvariantHolds, PTL

\* No table has a peer twice, and a router fed by bc_discovery_scan's callback
\* has the peers of the discovery manager in the same places.
THEOREM TablesAgreeHolds == Spec => []TablesAgree
<1>1. Inv => TablesAgree
  BY DEF Inv
<1>2. QED
  BY <1>1, InvariantHolds, PTL

\* A scan drops a reported peer only when the table is full.
THEOREM ScanCompleteHolds == Spec => []ScanComplete
<1>1. Inv => ScanComplete
  BY DEF Inv
<1>2. QED
  BY <1>1, InvariantHolds, PTL

\* One forward_to_peers gives no neighbour more than fanout copies for each time
\* its port is listed, for all lists and whichever sendto calls fail.
THEOREM FanoutBoundHolds == Spec => []FanoutBound
<1>1. Inv => FanoutBound
  <2> SUFFICES ASSUME Inv, phase = "forward", NEW p \in Listed
               PROVE  copies[p] <= Fanout * Cardinality(Entries(p))
    BY DEF FanoutBound
  <2> DEFINE n == Cardinality(Entries(p))
  <2>1. n \in Nat /\ sent \in Nat /\ Fanout \in Nat /\ sent <= Fanout
    BY EntriesFinite, PeerAssumption, Zenon DEF Inv, Types, Forwarding
  <2>2. copies[p] \in Nat /\ copies[p] <= sent * n
    BY DEF Inv, Copies, Forwarding
  <2> HIDE DEF n
  <2>3. sent * n \in Nat /\ Fanout * n \in Nat /\ sent * n <= Fanout * n
    BY <2>1, Multiples
  <2>4. QED
    BY <2>2, <2>3 DEF n
<1>2. QED
  BY <1>1, InvariantHolds, PTL

\* No step forgets a known peer or moves it.
THEOREM KnownStayHolds == Spec => KnownStay
<1> DEFINE Shows(t, max) == bc_discovery_get_peers(t, max)
           A == /\ Len(disc') >= Len(disc) /\ Len(router') >= Len(router)
                /\ \A max \in 0..BC_MAX_PEERS : \A j \in DOMAIN Shows(disc, max) :
                       /\ j \in DOMAIN Shows(disc', max)
                       /\ Shows(disc', max)[j].pubkey = Shows(disc, max)[j].pubkey
                /\ \A j \in 1..Len(router) : router'[j].pubkey = router[j].pubkey
<1>1. Inv /\ [Next]_vars => [A]_vars
  <2> SUFFICES ASSUME Inv, Next PROVE A
    OBVIOUS
  <2>1. Grows(disc, disc') /\ Grows(router, router')
    BY TablesStep DEF Inv, Grows
  <2>2. Len(disc) \in Nat /\ Len(disc') \in Nat
    BY TablesStep DEF Inv, Tables, Table
  <2>3. ASSUME NEW max \in 0..BC_MAX_PEERS, NEW j \in DOMAIN Shows(disc, max)
        PROVE  /\ j \in DOMAIN Shows(disc', max)
               /\ Shows(disc', max)[j].pubkey = Shows(disc, max)[j].pubkey
    BY <2>1, <2>2, <2>3, PeerAssumption DEF Grows, bc_discovery_get_peers
  <2>4. QED
    BY <2>1, <2>3 DEF Grows
<1>2. QED
  BY <1>1, InvariantHolds, PTL DEF Spec, KnownStay
=============================================================================
