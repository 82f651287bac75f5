------------------------------ MODULE PeerTable ------------------------------
(***************************************************************************)
(* The peers a node knows: discovery by a transport, the table of the      *)
(* discovery manager (node_discovery.c), the table of the mesh router, and *)
(* the loop that forwards a message to the peers of that table.            *)
(*                                                                         *)
(* The two tables are wired in one of three ways.  The simulator adds what *)
(* the transport reports to the router itself ("direct").  The bridge      *)
(* creates a discovery manager and registers no callback ("none").  Once a *)
(* callback is registered, the discovery manager gives the router each new *)
(* peer ("callback").  The transport is the UDP simulator, or one of the   *)
(* Bluetooth and Wi-Fi stubs.                                              *)
(***************************************************************************)
EXTENDS Integers, Sequences, FiniteSets

CONSTANTS PortLists,      \* the lists of peer ports a transport may have
          BC_MAX_PEERS,   \* 64 in the code
          Fanout,         \* config.fanout
          MaxTime         \* bound: seconds that pass

\* uint16_t.
Port == {p \in Nat : p < 65536}

ASSUME PortAssumption == PortLists \subseteq Seq(Port)

ASSUME PeerAssumption ==
    /\ BC_MAX_PEERS \in Nat \ {0}
    /\ Fanout \in Nat
    /\ MaxTime \in Nat

VARIABLES
    now,          \* time(NULL)
    wiring,       \* direct, callback or none
    before,       \* how many peers disc had when the callback was registered
    transport,    \* udp, ble or wifi
    peer_ports,   \* the ports of the transport's context
    disc,         \* disc->peers
    router,       \* router->peers
    phase,        \* idle, scan (bc_discovery_scan), add (main) or forward
    found,        \* what discover_peers returned
    i,            \* the index of the loop that runs
    sent,         \* forward_to_peers: successful calls of send
    copies        \* and the datagrams that left for each neighbour, by its port

vars == <<now, wiring, before, transport, peer_ports, disc, router, phase, found, i, sent, copies>>

-----------------------------------------------------------------------------
(* Transports.                                                             *)

Smaller(a, b) == IF a < b THEN a ELSE b

\* The synthetic public key of a port: its two bytes, the low one first.
PortKey(port) == <<port % 256, port \div 256>>

\* udp_discover_peers reports the first max_peers ports; a memset leaves
\* last_seen and rssi zero.
udp_discover_peers(ports) ==
    [k \in 1..Smaller(Len(ports), BC_MAX_PEERS) |-> [pubkey |-> PortKey(ports[k]), last_seen |-> 0]]

\* Those of the stubs fail and report nothing.
ble_discover  == <<>>
wifi_discover == <<>>

\* discover_peers of the transport, and whether it succeeds.
DiscoverOK     == transport = "udp"
discover_peers == CASE transport = "udp" -> udp_discover_peers(peer_ports)
                    [] transport = "ble" -> ble_discover
                    [] OTHER             -> wifi_discover

\* The entries of the list that a call of the transport's send is for: udp_send
\* has all of them, whoever the peer is, the stubs' functions none.
ble_send  == {}
wifi_send == {}
send == CASE transport = "udp" -> 1..Len(peer_ports)
          [] transport = "ble" -> ble_send
          [] OTHER             -> wifi_send

\* The neighbours of the list, and the entries of one: the list may name a port
\* more than once.
Listed     == {peer_ports[k] : k \in 1..Len(peer_ports)}
Entries(p) == {k \in 1..Len(peer_ports) : peer_ports[k] = p}

-----------------------------------------------------------------------------
(* Tables.                                                                 *)

Keys(table)       == {table[j].pubkey : j \in 1..Len(table)}
IndexOf(table, p) == CHOOSE j \in 1..Len(table) : table[j].pubkey = p.pubkey

\* bc_peer_touch on the entry of p.
Touched(table, p) == [table EXCEPT ![IndexOf(table, p)].last_seen = now]

\* Mutant of Known: the last entry of the table is not compared.
Known_OffByOne(table, p) == p.pubkey \in Keys(SubSeq(table, 1, Len(table) - 1))

Known(table, p) == p.pubkey \in Keys(table)

\* Mutant of Room: one entry more than the array has.
Room_OffByOne(table) == Len(table) <= BC_MAX_PEERS

\* Another: the last entry of the array is never used.
Room_Less(table) == Len(table) + 1 < BC_MAX_PEERS

Room(table) == Len(table) < BC_MAX_PEERS

\* Mutant of bc_router_add_peer: in a full table the first peer gives way.
bc_router_add_peer_Evicts(table, p) ==
    CASE Known(table, p) -> [table EXCEPT ![IndexOf(table, p)] = [p EXCEPT !.last_seen = now]]
      [] ~Known(table, p) /\ Room(table) -> Append(table, p)
      [] OTHER -> Append(Tail(table), p)

\* bc_router_add_peer: an entry is replaced and touched, a new one appended
\* while there is room.
bc_router_add_peer(table, p) ==
    CASE Known(table, p) -> [table EXCEPT ![IndexOf(table, p)] = [p EXCEPT !.last_seen = now]]
      [] ~Known(table, p) /\ Room(table) -> Append(table, p)
      [] OTHER -> table

-----------------------------------------------------------------------------
Init == /\ now \in 0..MaxTime
        /\ wiring \in {"direct", "none"}
        /\ before = 0
        /\ transport \in {"udp", "ble", "wifi"}
        /\ peer_ports \in PortLists
        /\ disc = <<>>
        /\ router = <<>>
        /\ phase = "idle"
        /\ found = <<>>
        /\ i = 1
        /\ sent = 0
        /\ copies = <<>>

Second == /\ now < MaxTime
          /\ now' = now + 1
          /\ UNCHANGED <<wiring, before, transport, peer_ports, disc, router, phase, found, i, sent, copies>>

\* Other peers are in reach: what the next scan reports changes.
Neighbours == /\ phase = "idle"
              /\ peer_ports' \in PortLists
              /\ UNCHANGED <<now, wiring, before, transport, disc, router, phase, found, i, sent, copies>>

Begin(ph, list) == /\ phase' = ph
                   /\ found' = list
                   /\ i' = 1
                   /\ sent' = 0
                   /\ copies' = [p \in Listed |-> 0]

End == /\ phase' = "idle"
       /\ UNCHANGED <<found, i, sent, copies>>

\* A callback that gives the router the peers found from now on.
bc_discovery_on_peer_found ==
    /\ phase = "idle"
    /\ wiring = "none"
    /\ wiring' = "callback"
    /\ before' = Len(disc)
    /\ UNCHANGED <<now, transport, peer_ports, disc, router, phase, found, i, sent, copies>>

\* A failed discover_peers ends the scan.
bc_discovery_scan ==
    /\ phase = "idle"
    /\ DiscoverOK
    /\ Begin("scan", discover_peers)
    /\ UNCHANGED <<now, wiring, before, transport, peer_ports, disc, router>>

\* The peers a caller with room for max of them is given.
bc_discovery_get_peers(peers, max) ==
    LET n == IF Len(peers) < max THEN Len(peers) ELSE max
    IN  [j \in 1..n |-> peers[j]]

\* The bridge, or another user of the discovery manager, scans.
bitchat_start_discovery == wiring # "direct" /\ bc_discovery_scan

\* One turn of its loop.  A known peer is touched; a new one is appended while
\* there is room, and only then reported.
ScanItem ==
    /\ phase = "scan"
    /\ i <= Len(found)
    /\ LET p == found[i]
       IN  \/ /\ Known(disc, p)
              /\ disc' = Touched(disc, p)
              /\ UNCHANGED router
           \/ /\ ~Known(disc, p)
              /\ Room(disc)
              /\ disc' = Append(disc, p)
              /\ router' = IF wiring = "callback" THEN bc_router_add_peer(router, p) ELSE router
           \/ /\ ~Known(disc, p)
              /\ ~Room(disc)
              /\ UNCHANGED <<disc, router>>
    /\ i' = i + 1
    /\ UNCHANGED <<now, wiring, before, transport, peer_ports, phase, found, sent, copies>>

\* Step 6 of main: discover_peers, and bc_router_add_peer for each peer.
Discover ==
    /\ phase = "idle"
    /\ wiring = "direct"
    /\ DiscoverOK
    /\ Begin("add", discover_peers)
    /\ UNCHANGED <<now, wiring, before, transport, peer_ports, disc, router>>

AddItem ==
    /\ phase = "add"
    /\ i <= Len(found)
    /\ router' = bc_router_add_peer(router, found[i])
    /\ i' = i + 1
    /\ UNCHANGED <<now, wiring, before, transport, peer_ports, disc, phase, found, sent, copies>>

\* forward_to_peers, for a message of bc_router_broadcast, _receive or _tick.
forward_to_peers ==
    /\ phase = "idle"
    /\ Begin("forward", <<>>)
    /\ UNCHANGED <<now, wiring, before, transport, peer_ports, disc, router>>

\* Mutant of udp_send: it succeeds only if every sendto does.
udp_send_All(reached) == reached = 1..Len(peer_ports)

\* udp_send succeeds if one of its sendto calls does.
udp_send(reached) == reached # {}

\* Another peer, and fewer than fanout successful calls.
SendsMore == i <= Len(router) /\ sent < Fanout

\* One turn of its loop: the datagram leaves for some of the entries send is for.
SendItem ==
    /\ phase = "forward"
    /\ SendsMore
    /\ \E reached \in SUBSET send :
        /\ sent' = IF udp_send(reached) THEN sent + 1 ELSE sent
        /\ copies' = [p \in Listed |-> copies[p] + Cardinality(Entries(p) \cap reached)]
    /\ i' = i + 1
    /\ UNCHANGED <<now, wiring, before, transport, peer_ports, disc, router, phase, found>>

\* The loop that runs ends.
LoopEnds == /\ \/ phase \in {"scan", "add"} /\ i > Len(found)
               \/ phase = "forward" /\ ~SendsMore
            /\ End
            /\ UNCHANGED <<now, wiring, before, transport, peer_ports, disc, router>>

Next == \/ Second \/ Neighbours
        \/ bc_discovery_on_peer_found \/ bitchat_start_discovery \/ ScanItem
        \/ Discover \/ AddItem
        \/ forward_to_peers \/ SendItem
        \/ LoopEnds

Spec == Init /\ [][Next]_vars

-----------------------------------------------------------------------------
(* Properties.                                                             *)

Peer == [pubkey : (0..255) \X (0..255), last_seen : 0..MaxTime]

\* The type of every variable; the tables stay within their arrays.
TypeOK == /\ now \in 0..MaxTime
          /\ wiring \in {"direct", "callback", "none"}
          /\ before \in 0..BC_MAX_PEERS
          /\ transport \in {"udp", "ble", "wifi"}
          /\ peer_ports \in PortLists
          /\ disc \in Seq(Peer) /\ Len(disc) <= BC_MAX_PEERS
          /\ router \in Seq(Peer) /\ Len(router) <= BC_MAX_PEERS
          /\ phase \in {"idle", "scan", "add", "forward"}
          /\ found \in Seq(Peer)
          /\ i \in Nat \ {0}
          /\ sent \in Nat
          /\ \A p \in DOMAIN copies : copies[p] \in Nat

Distinct(table) == \A j, k \in 1..Len(table) : table[j].pubkey = table[k].pubkey => j = k

\* Scans that repeat a peer, or find the tables full, never leave a peer
\* twice in a table, and the router of a discovery manager with a callback
\* knows exactly the peers found since the callback was registered, in the order
\* in which they were found; those found before are never given to it.  Without a
\* callback, as in the bridge, the router knows nobody.
TablesAgree ==
    /\ Distinct(disc) /\ Distinct(router)
    /\ wiring = "callback" =>
          /\ Len(disc) = before + Len(router)
          /\ \A j \in 1..Len(router) : router[j].pubkey = disc[before + j].pubkey
    /\ wiring = "none" => router = <<>>

\* A scan has dealt with the peers before the loop's index: each is in the
\* table, or the table is full.
ScanComplete ==
    /\ phase = "scan" => \A j \in 1..(i - 1) : Known(disc, found[j]) \/ Len(disc) = BC_MAX_PEERS
    /\ phase = "add"  => \A j \in 1..(i - 1) : Known(router, found[j]) \/ Len(router) = BC_MAX_PEERS

\* What a step may never do: forget a known peer or move it to another place.
\* What bc_discovery_get_peers has shown its caller stays in front of what it
\* shows later, however many peers the caller has room for.
KnownStay ==
    [][/\ Len(disc') >= Len(disc) /\ Len(router') >= Len(router)
       /\ \A max \in 0..BC_MAX_PEERS : \A j \in DOMAIN bc_discovery_get_peers(disc, max) :
              /\ j \in DOMAIN bc_discovery_get_peers(disc', max)
              /\ bc_discovery_get_peers(disc', max)[j].pubkey = bc_discovery_get_peers(disc, max)[j].pubkey
       /\ \A j \in 1..Len(router) : router'[j].pubkey = router[j].pubkey]_vars

\* What config.fanout does limit: a neighbour gets at most fanout copies of a
\* message from one forward_to_peers for each time the transport lists its port,
\* even when calls of send reach some of the ports and not others.  Every call
\* is for all ports, so how many neighbours get a copy is not limited.
FanoutBound ==
    phase = "forward" => \A p \in Listed : copies[p] <= Fanout * Cardinality(Entries(p))
=============================================================================
