----------------------------- MODULE MeshProofs -----------------------------
(***************************************************************************)
(* Type correctness, the hop bound and the sender's custody of the mesh,   *)
(* for any number of nodes, any topology and any messages.  Beside the     *)
(* types and the hop bound the invariant says that copies exist only of    *)
(* messages that were broadcast: a new message's INSERT OR IGNORE then     *)
(* never meets a row of its own UUID.                                      *)
(***************************************************************************)
EXTENDS Mesh, SequenceTheorems, TLAPS

\* The copies c held by n are of messages in S and within the hop bound.
CopiesOk(f, S) == \A n \in Nodes : \A c \in f[n] :
                      c.uuid \in S /\ c.ttl + Dist[Sender[c.uuid]][n] <= DefaultTtl

\* So are the datagrams in the buffers q.
SocksOk(q, S) ==
    \A n \in Nodes : \A i \in 1..Len(q[n]) :
        /\ q[n][i].uuid \in S
        /\ q[n][i].ttl + Dist[Sender[q[n][i].uuid]][n] <= DefaultTtl + 1

\* A message that was not broadcast has no age.
UnsentAge == \A m \in Uuids \ sent : sentAge[m] = 0

IInv == /\ TypeOK
        /\ UnsentAge
        /\ CopiesOk(store, sent)
        /\ CopiesOk(todo, sent)
        /\ SocksOk(sock, sent)

-----------------------------------------------------------------------------
(* Lemmas about the operators.                                             *)

\* What dedup_insert leaves is a table.
LEMMA InsertType ==
  ASSUME TypeOK, NEW n \in Nodes, NEW u \in Uuids, NEW t \in dedup_insert(n, u)
  PROVE  t \in [Slots -> Entry]
<1>1. [occupied |-> TRUE, uuid |-> u, age |-> 0] \in Entry
  BY ParameterAssumption DEF Entry
<1>2. dedup[n] \in [Slots -> Entry]
  BY DEF TypeOK
<1> QED  BY <1>1, <1>2, ZenonT(60) DEF dedup_insert

\* A free slot is an entry, and a table of free slots a table.
LEMMA FreeType == Free \in Entry /\ EmptyTable \in [Slots -> Entry]
  BY ParameterAssumption DEF Free, EmptyTable, Entry

\* So is what dedup_evict leaves.
LEMMA EvictType ==
  ASSUME TypeOK, NEW n \in Nodes
  PROVE  dedup_evict(dedup[n], Stale(n), Free) \in [Slots -> Entry]
  BY FreeType DEF TypeOK, dedup_evict

\* Storing adds at most the one row.
LEMMA StoreAdds ==
  ASSUME NEW rows, NEW u, NEW t, NEW rows2 \in StoreOutcomes(rows, u, t)
  PROVE  rows2 \subseteq rows \cup {[uuid |-> u, ttl |-> t, left |-> Retention]}
  BY DEF StoreOutcomes, store_message

\* k copies of a value form a sequence of length k.
LEMMA CopiesSeq ==
  ASSUME NEW S, NEW k \in Nat, NEW d \in S
  PROVE  /\ [i \in 1..k |-> d] \in Seq(S)
         /\ Len([i \in 1..k |-> d]) = k
         /\ \A i \in 1..k : [j \in 1..k |-> d][i] = d
  OBVIOUS

\* Forwarding appends copies of d to the buffers of n's peers.
LEMMA ForwardAppends ==
  ASSUME NEW q \in [Nodes -> Seq(Datagram)], NEW n \in Nodes, NEW d \in Datagram,
         NEW q2 \in forward_to_peers(q, n, d)
  PROVE  /\ q2 \in [Nodes -> Seq(Datagram)]
         /\ \A p \in Nodes : \A i \in 1..Len(q2[p]) :
               \/ i \in 1..Len(q[p]) /\ q2[p][i] = q[p][i]
               \/ p \in Links[n] /\ q2[p][i] = d
<1>1. PICK g \in [Nodes -> 0..Fanout] :
          /\ \A p \in Nodes : IF Lossy THEN g[p] <= Arrivals(q, n, p)
                                       ELSE g[p] = Arrivals(q, n, p)
          /\ q2 = [p \in Nodes |-> q[p] \o [i \in 1..g[p] |-> d]]
  BY ZenonT(60) DEF forward_to_peers
<1>2. ASSUME NEW p \in Nodes
      PROVE  /\ q2[p] \in Seq(Datagram)
             /\ \A i \in 1..Len(q2[p]) :
                   \/ i \in 1..Len(q[p]) /\ q2[p][i] = q[p][i]
                   \/ p \in Links[n] /\ q2[p][i] = d
  <2> DEFINE s == q[p]
             c == [i \in 1..g[p] |-> d]
  <2>1. g[p] \in Nat /\ s \in Seq(Datagram)
    BY <1>1, ParameterAssumption
  <2>2. c \in Seq(Datagram) /\ Len(c) = g[p] /\ \A i \in 1..g[p] : c[i] = d
    BY <2>1, CopiesSeq, ZenonT(60)
  <2>3. q2[p] = s \o c
    BY <1>1
  <2>4. /\ s \o c \in Seq(Datagram)
        /\ Len(s \o c) = Len(s) + Len(c)
        /\ \A i \in 1..(Len(s) + Len(c)) :
              (s \o c)[i] = IF i <= Len(s) THEN s[i] ELSE c[i - Len(s)]
    BY <2>1, <2>2, ConcatProperties
  <2>5. p \notin Links[n] => g[p] = 0
    <3>1. p \notin Links[n] => Arrivals(q, n, p) = 0
      BY DEF Arrivals
    <3> QED  BY <1>1, <2>1, <3>1, ParameterAssumption
  <2>6. Len(s) \in Nat
    BY <2>1
  <2> HIDE DEF s, c
  <2>7. ASSUME NEW i \in 1..Len(q2[p])
        PROVE  \/ i \in 1..Len(s) /\ q2[p][i] = s[i]
               \/ p \in Links[n] /\ q2[p][i] = d
    <3>1. i \in 1..(Len(s) + g[p])
      BY <2>2, <2>3, <2>4, ZenonT(60)
    <3>2. CASE i <= Len(s)
      BY <2>1, <2>2, <2>3, <2>4, <2>6, <3>1, <3>2, SMTT(60)
    <3>3. CASE ~(i <= Len(s))
      <4>1. i - Len(s) \in 1..g[p] /\ g[p] # 0
        BY <2>1, <2>6, <3>1, <3>3, SMTT(60)
      <4> QED  BY <2>2, <2>3, <2>4, <2>5, <3>1, <3>3, <4>1, ZenonT(60)
    <3> QED  BY <3>2, <3>3
  <2> QED  BY <2>3, <2>4, <2>7 DEF s
<1>3. q2 \in [Nodes -> Seq(Datagram)]
  <2>1. q2 = [p \in Nodes |-> q2[p]]
    BY <1>1, ZenonT(60)
  <2> QED  BY <1>2, <2>1
<1> QED  BY <1>2, <1>3

\* Taking the first datagram leaves the others, one place further on.
LEMMA PopType ==
  ASSUME NEW q \in [Nodes -> Seq(Datagram)], NEW n \in Nodes, q[n] # <<>>
  PROVE  LET q2 == [q EXCEPT ![n] = Tail(@)]
         IN  /\ Head(q[n]) \in Datagram
             /\ Head(q[n]) = q[n][1]
             /\ 1 \in 1..Len(q[n])
             /\ q2 \in [Nodes -> Seq(Datagram)]
             /\ \A p \in Nodes : \A i \in 1..Len(q2[p]) :
                   \E k \in 1..Len(q[p]) : q2[p][i] = q[p][k]
<1> DEFINE q2 == [q EXCEPT ![n] = Tail(@)]
<1>1. q[n] \in Seq(Datagram)
  OBVIOUS
<1>2. /\ Head(q[n]) \in Datagram
      /\ Head(q[n]) = q[n][1]
      /\ Tail(q[n]) \in Seq(Datagram)
      /\ Len(q[n]) \in Nat \ {0}
      /\ Len(Tail(q[n])) = Len(q[n]) - 1
      /\ \A i \in 1..Len(Tail(q[n])) : Tail(q[n])[i] = q[n][i + 1]
  BY <1>1, HeadTailProperties, EmptySeq
<1>3. q2 \in [Nodes -> Seq(Datagram)] /\ q2[n] = Tail(q[n])
  BY <1>2
<1>4. ASSUME NEW p \in Nodes, NEW i \in 1..Len(q2[p])
      PROVE  \E k \in 1..Len(q[p]) : q2[p][i] = q[p][k]
  <2>1. CASE p = n
    <3>1. i + 1 \in 1..Len(q[n])
      BY <1>2, <1>3, <2>1
    <3> QED  BY <1>2, <1>3, <2>1, <3>1
  <2>2. CASE p # n
    BY <2>2, ZenonT(60)
  <2> QED  BY <2>1, <2>2
<1> QED  BY <1>2, <1>3, <1>4

-----------------------------------------------------------------------------
(* Forwarding and receiving keep the buffers within the hop bound.         *)

\* One hop more costs at most one unit of the budget.
LEMMA OneHop ==
  ASSUME NEW a \in Nat, NEW b \in Nat, NEW c \in Nat, NEW T \in Nat,
         a + b <= T, c <= b + 1
  PROVE  a + c <= T + 1
OBVIOUS

\* A node may forward a copy it could hold itself.
LEMMA ForwardOk ==
  ASSUME NEW S \in SUBSET Uuids, NEW q \in [Nodes -> Seq(Datagram)], SocksOk(q, S),
         NEW n \in Nodes, NEW d \in Datagram, d.uuid \in S,
         d.ttl + Dist[Sender[d.uuid]][n] <= DefaultTtl,
         NEW q2 \in forward_to_peers(q, n, d)
  PROVE  q2 \in [Nodes -> Seq(Datagram)] /\ SocksOk(q2, S)
<1>1. /\ q2 \in [Nodes -> Seq(Datagram)]
      /\ \A p \in Nodes : \A i \in 1..Len(q2[p]) :
            \/ i \in 1..Len(q[p]) /\ q2[p][i] = q[p][i]
            \/ p \in Links[n] /\ q2[p][i] = d
  BY ForwardAppends, ZenonT(150)
<1>2. ASSUME NEW p \in Nodes, NEW i \in 1..Len(q2[p])
      PROVE  /\ q2[p][i].uuid \in S
             /\ q2[p][i].ttl + Dist[Sender[q2[p][i].uuid]][p] <= DefaultTtl + 1
  <2>1. CASE i \in 1..Len(q[p]) /\ q2[p][i] = q[p][i]
    BY <2>1 DEF SocksOk
  <2>2. CASE p \in Links[n] /\ q2[p][i] = d
    <3>1. Sender[d.uuid] \in Nodes
      BY TopologyAssumption
    <3>2. /\ Dist[Sender[d.uuid]][p] <= Dist[Sender[d.uuid]][n] + 1
          /\ Dist[Sender[d.uuid]][p] \in Nat
          /\ Dist[Sender[d.uuid]][n] \in Nat
      BY <2>2, <3>1, DistAssumption, ZenonT(60)
    <3>3. d.ttl \in Nat /\ DefaultTtl \in Nat
      BY ParameterAssumption DEF Datagram
    <3>4. d.ttl + Dist[Sender[d.uuid]][p] <= DefaultTtl + 1
      BY <3>2, <3>3, OneHop, ZenonT(60)
    <3> QED  BY <2>2, <3>4
  <2>3. \/ i \in 1..Len(q[p]) /\ q2[p][i] = q[p][i]
        \/ p \in Links[n] /\ q2[p][i] = d
    BY <1>1, ZenonT(60)
  <2> QED  BY <2>1, <2>2, <2>3, Zenon
<1> QED  BY <1>1, <1>2 DEF SocksOk

\* The buffers after the head of n's is taken, and that head.
LEMMA PopOk ==
  ASSUME NEW S \in SUBSET Uuids, NEW q \in [Nodes -> Seq(Datagram)], SocksOk(q, S),
         NEW n \in Nodes, q[n] # <<>>
  PROVE  /\ [q EXCEPT ![n] = Tail(@)] \in [Nodes -> Seq(Datagram)]
         /\ SocksOk([q EXCEPT ![n] = Tail(@)], S)
         /\ Head(q[n]) \in Datagram
         /\ Head(q[n]).uuid \in S
         /\ Head(q[n]).ttl + Dist[Sender[Head(q[n]).uuid]][n] <= DefaultTtl + 1
<1> DEFINE q2 == [q EXCEPT ![n] = Tail(@)]
<1>1. /\ Head(q[n]) \in Datagram
      /\ Head(q[n]) = q[n][1]
      /\ 1 \in 1..Len(q[n])
      /\ q2 \in [Nodes -> Seq(Datagram)]
      /\ \A p \in Nodes : \A i \in 1..Len(q2[p]) :
            \E k \in 1..Len(q[p]) : q2[p][i] = q[p][k]
  BY PopType
<1> HIDE DEF q2
<1>2. SocksOk(q2, S)
  BY <1>1, ZenonT(40) DEF SocksOk
<1> QED  BY <1>1, <1>2, ZenonT(60) DEF SocksOk, q2

\* Storing a copy within the bound keeps the rows typed and within the bound.
LEMMA StoreOk ==
  ASSUME NEW S \in SUBSET Uuids, NEW f \in [Nodes -> SUBSET Row], CopiesOk(f, S),
         NEW n \in Nodes, NEW u \in S, NEW t \in 0..DefaultTtl,
         t + Dist[Sender[u]][n] <= DefaultTtl,
         NEW rows \in StoreOutcomes(f[n], u, t)
  PROVE  /\ [f EXCEPT ![n] = rows] \in [Nodes -> SUBSET Row]
         /\ CopiesOk([f EXCEPT ![n] = rows], S)
<1> DEFINE new == [uuid |-> u, ttl |-> t, left |-> Retention]
<1>1. new \in Row /\ new.uuid = u /\ new.ttl = t
  BY ParameterAssumption DEF Row
<1>2. rows \subseteq f[n] \cup {new}
  BY StoreAdds
<1> HIDE DEF new
<1>3. rows \in SUBSET Row
  BY <1>1, <1>2
<1>4. CopiesOk([f EXCEPT ![n] = rows], S)
  BY <1>1, <1>2 DEF CopiesOk
<1> QED  BY <1>3, <1>4

-----------------------------------------------------------------------------
(* The invariant, action by action.                                        *)

\* Freshly started nodes satisfy the invariant.
LEMMA InitIInv == Init => IInv
<1> SUFFICES ASSUME Init PROVE IInv
  OBVIOUS
<1> USE ParameterAssumption
<1>1. dedup \in [Nodes -> [Slots -> Entry]]
  BY FreeType DEF Init
<1>2. sock \in [Nodes -> Seq(Datagram)] /\ \A n \in Nodes : Len(sock[n]) = 0
  BY EmptySeq DEF Init
<1>3. TypeOK
  BY <1>1, <1>2 DEF Init, TypeOK
<1>4. UnsentAge /\ CopiesOk(store, sent) /\ CopiesOk(todo, sent)
  BY DEF Init, UnsentAge, CopiesOk
<1>5. SocksOk(sock, sent)
  BY <1>2 DEF SocksOk
<1> QED  BY <1>3, <1>4, <1>5 DEF IInv

\* A broadcast starts at distance zero with the full ttl.
LEMMA BroadcastIInv ==
  ASSUME IInv, NEW m \in Uuids, Broadcast(m)
  PROVE  IInv'
<1> DEFINE n == Sender[m]
           d == [uuid |-> m, ttl |-> DefaultTtl]
<1>1. n \in Nodes /\ Dist[n][n] = 0
  BY TopologyAssumption, DistAssumption
<1>2. sent' = sent \cup {m} /\ sent' \in SUBSET Uuids
  BY ZenonT(60) DEF Broadcast, IInv, TypeOK
<1>3. /\ CopiesOk(store, sent')
      /\ CopiesOk(todo', sent')
      /\ SocksOk(sock, sent')
  BY <1>2 DEF IInv, CopiesOk, SocksOk, Broadcast
<1>4. d \in Datagram /\ d.uuid = m /\ d.ttl = DefaultTtl /\ DefaultTtl \in 0..DefaultTtl
  BY ParameterAssumption DEF Datagram
<1>5. DefaultTtl + Dist[n][n] <= DefaultTtl
  BY <1>1, ParameterAssumption
<1>6. sock' \in [Nodes -> Seq(Datagram)] /\ SocksOk(sock', sent')
  <2>1. sock' \in forward_to_peers(sock, n, d) /\ sock \in [Nodes -> Seq(Datagram)]
    BY DEF Broadcast, Wire, IInv, TypeOK
  <2> HIDE DEF d
  <2> QED  BY <1>1, <1>2, <1>3, <1>4, <1>5, <2>1, ForwardOk, ZenonT(60)
<1>7. store' \in [Nodes -> SUBSET Row] /\ CopiesOk(store', sent')
  <2>1. PICK rows \in StoreOutcomes(store[n], m, DefaultTtl) : store' = [store EXCEPT ![n] = rows]
    BY ZenonT(60) DEF Broadcast
  <2>2. store \in [Nodes -> SUBSET Row] /\ m \in sent'
    BY <1>2 DEF IInv, TypeOK
  <2> QED  BY <1>1, <1>2, <1>3, <1>4, <1>5, <2>1, <2>2, StoreOk, ZenonT(60)
<1>8. dedup' \in [Nodes -> [Slots -> Entry]]
  <2>1. PICK t \in dedup_insert(n, m) : dedup' = [dedup EXCEPT ![n] = t]
    BY ZenonT(60) DEF Broadcast
  <2>2. t \in [Slots -> Entry]
    BY <1>1, <2>1, InsertType DEF IInv
  <2> QED  BY <2>1, <2>2, ZenonT(60) DEF IInv, TypeOK
<1>9. TypeOK'
  BY <1>2, <1>6, <1>7, <1>8, ZenonT(60) DEF IInv, TypeOK, Broadcast
<1>10. UnsentAge'
  BY <1>2 DEF IInv, UnsentAge, Broadcast
<1> QED  BY <1>3, <1>6, <1>7, <1>9, <1>10 DEF IInv

\* Receiving counts a copy down before it is stored and forwarded.
LEMMA ReceiveIInv ==
  ASSUME IInv, NEW n \in Nodes, Receive(n)
  PROVE  IInv'
<1> DEFINE d == Head(sock[n])
           q == [sock EXCEPT ![n] = Tail(@)]
<1>1. bc_router_receive(n, d, q) /\ sock[n] # <<>>
  BY ZenonT(60) DEF Receive, udp_recv
<1>2. /\ q \in [Nodes -> Seq(Datagram)]
      /\ SocksOk(q, sent)
      /\ d \in Datagram
      /\ d.uuid \in sent
      /\ d.ttl + Dist[Sender[d.uuid]][n] <= DefaultTtl + 1
      /\ sent \in SUBSET Uuids
  BY <1>1, PopOk, ZenonT(60) DEF IInv, TypeOK
<1> HIDE DEF d, q
<1>3. d.uuid \in Uuids /\ Dist[Sender[d.uuid]][n] \in Nat
  BY <1>2, TopologyAssumption, DistAssumption, ZenonT(60)
<1>4. dedup' \in [Nodes -> [Slots -> Entry]]
  <2>1. CASE UNCHANGED dedup
    BY <2>1 DEF IInv, TypeOK
  <2>2. ASSUME NEW t \in dedup_insert(n, d.uuid), dedup' = [dedup EXCEPT ![n] = t]
        PROVE  dedup' \in [Nodes -> [Slots -> Entry]]
    <3>1. t \in [Slots -> Entry]
      BY <1>3, <2>2, InsertType, ZenonT(60) DEF IInv
    <3> QED  BY <2>2, <3>1 DEF IInv, TypeOK
  <2> QED  BY <1>1, <2>1, <2>2 DEF bc_router_receive
<1>5. delivered' \in [Uuids -> 0..2]
  <2>1. CASE UNCHANGED delivered
    BY <2>1 DEF IInv, TypeOK
  <2>2. CASE delivered' = [delivered EXCEPT ![d.uuid] = IF @ < 2 THEN @ + 1 ELSE @]
    BY <1>3, <2>2, SMTT(60) DEF IInv, TypeOK
  <2> QED  BY <1>1, <2>1, <2>2 DEF bc_router_receive
<1>6. /\ sock' \in [Nodes -> Seq(Datagram)] /\ SocksOk(sock', sent)
      /\ store' \in [Nodes -> SUBSET Row] /\ CopiesOk(store', sent)
  <2>1. CASE sock' = q /\ store' = store
    BY <1>2, <2>1 DEF IInv, TypeOK
  <2>2. CASE /\ ~TtlExpired(d.ttl)
             /\ \E rows \in StoreOutcomes(store[n], d.uuid, HopTtl(d.ttl)) :
                    store' = [store EXCEPT ![n] = rows]
             /\ sock' \in forward_to_peers(q, n, Wire(d.uuid, HopTtl(d.ttl)))
    <3> DEFINE t == HopTtl(d.ttl)
               c == [uuid |-> d.uuid, ttl |-> t]
    <3>1. d.ttl \in 0..DefaultTtl /\ d.ttl # 0 /\ DefaultTtl \in Nat
      BY <1>2, <2>2, ParameterAssumption DEF Datagram, TtlExpired
    <3>2. t \in 0..DefaultTtl /\ t + Dist[Sender[d.uuid]][n] <= DefaultTtl
      BY <1>2, <1>3, <3>1, SMTT(60) DEF HopTtl
    <3> HIDE DEF t
    <3>3. c \in Datagram /\ c.uuid = d.uuid /\ c.ttl = t
      BY <1>3, <3>2 DEF Datagram
    <3>4. sock' \in forward_to_peers(q, n, c)
      BY <2>2 DEF t, Wire
    <3> HIDE DEF c
    <3>5. sock' \in [Nodes -> Seq(Datagram)] /\ SocksOk(sock', sent)
      BY <1>2, <3>2, <3>3, <3>4, ForwardOk, ZenonT(60)
    <3>6. PICK rows \in StoreOutcomes(store[n], d.uuid, t) : store' = [store EXCEPT ![n] = rows]
      BY <2>2, ZenonT(60) DEF t
    <3>7. store \in [Nodes -> SUBSET Row] /\ CopiesOk(store, sent)
      BY DEF IInv, TypeOK
    <3>8. store' \in [Nodes -> SUBSET Row] /\ CopiesOk(store', sent)
      BY <1>2, <3>2, <3>6, <3>7, StoreOk, ZenonT(60)
    <3> QED  BY <3>5, <3>8
  <2> QED  BY <1>1, <2>1, <2>2, ZenonT(60) DEF bc_router_receive
<1> QED  BY <1>4, <1>5, <1>6 DEF Receive, IInv, TypeOK, UnsentAge, CopiesOk

\* Finishing a tick only removes rows.
LEMMA FinishTickOk ==
  ASSUME IInv, NEW n \in Nodes, FinishTick(n)
  PROVE  /\ store' \in [Nodes -> SUBSET Row] /\ CopiesOk(store', sent)
         /\ phase' \in [Nodes -> {"down", "idle", "recv", "sf"}]
         /\ ticked' \in SUBSET Nodes
<1>1. /\ store' \in [Nodes -> SUBSET Row]
      /\ \A p \in Nodes : store'[p] \subseteq store[p]
  BY DEF IInv, TypeOK, FinishTick, evict_expired
<1>2. CopiesOk(store', sent)
  BY <1>1 DEF IInv, CopiesOk
<1> QED  BY <1>1, <1>2 DEF IInv, TypeOK, FinishTick

\* What get_pending returns is within the bound because the rows are.
LEMMA QueryPendingIInv ==
  ASSUME IInv, NEW n \in Nodes, QueryPending(n)
  PROVE  IInv'
<1>0. ASSUME NEW d \in get_pending(store[n])
      PROVE  /\ d \in Datagram
             /\ d.uuid \in sent /\ d.ttl + Dist[Sender[d.uuid]][n] <= DefaultTtl
  <2>1. PICK r \in store[n] : d = [uuid |-> r.uuid, ttl |-> r.ttl]
    BY DEF get_pending
  <2>2. r \in Row
    BY DEF IInv, TypeOK
  <2>3. r.uuid \in sent /\ r.ttl + Dist[Sender[r.uuid]][n] <= DefaultTtl
    BY DEF IInv, CopiesOk
  <2>4. d.uuid = r.uuid /\ d.ttl = r.ttl
    BY <2>1
  <2>5. d \in Datagram
    BY <2>1, <2>2 DEF Row, Datagram
  <2> QED  BY <2>3, <2>4, <2>5
<1>1. get_pending(store[n]) \in SUBSET Datagram
  BY <1>0
<1>2. \A d \in get_pending(store[n]) :
          d.uuid \in sent /\ d.ttl + Dist[Sender[d.uuid]][n] <= DefaultTtl
  BY <1>0, ZenonT(60)
<1>3. todo' \in [Nodes -> SUBSET Datagram] /\ CopiesOk(todo', sent)
  BY <1>1, <1>2, ZenonT(60) DEF QueryPending, IInv, TypeOK, CopiesOk
<1>4. /\ store' \in [Nodes -> SUBSET Row] /\ CopiesOk(store', sent)
      /\ phase' \in [Nodes -> {"down", "idle", "recv", "sf"}]
      /\ ticked' \in SUBSET Nodes
  <2>1. CASE FinishTick(n)
    BY <2>1, FinishTickOk
  <2>2. CASE phase' = [phase EXCEPT ![n] = "sf"] /\ UNCHANGED <<store, ticked>>
    BY <2>2 DEF IInv, TypeOK
  <2> QED  BY <2>1, <2>2 DEF QueryPending
<1>5. sfAge' \in [Nodes -> 0..SfInterval]
  BY ParameterAssumption DEF QueryPending, IInv, TypeOK
<1> QED  BY <1>3, <1>4, <1>5 DEF QueryPending, IInv, TypeOK, UnsentAge

\* A rebroadcast sends a copy the node holds.
LEMMA RebroadcastIInv ==
  ASSUME IInv, NEW n \in Nodes, Rebroadcast(n)
  PROVE  IInv'
<1>1. PICK d \in todo[n] : /\ sock' \in forward_to_peers(sock, n, d)
                           /\ todo' = [todo EXCEPT ![n] = @ \ {d}]
  BY ZenonT(60) DEF Rebroadcast
<1>2. d \in Datagram /\ d.uuid \in sent /\ d.ttl + Dist[Sender[d.uuid]][n] <= DefaultTtl
  BY DEF IInv, TypeOK, CopiesOk
<1>3. sock' \in [Nodes -> Seq(Datagram)] /\ SocksOk(sock', sent)
  BY <1>1, <1>2, ForwardOk, ZenonT(60) DEF IInv, TypeOK
<1>4. todo' \in [Nodes -> SUBSET Datagram] /\ CopiesOk(todo', sent)
  BY <1>1 DEF IInv, TypeOK, CopiesOk
<1>5. /\ store' \in [Nodes -> SUBSET Row] /\ CopiesOk(store', sent)
      /\ phase' \in [Nodes -> {"down", "idle", "recv", "sf"}]
      /\ ticked' \in SUBSET Nodes
  <2>1. CASE FinishTick(n)
    BY <2>1, FinishTickOk
  <2>2. CASE UNCHANGED <<phase, store, ticked>>
    BY <2>2, ZenonT(60) DEF IInv, TypeOK
  <2> QED  BY <2>1, <2>2 DEF Rebroadcast
<1> QED  BY <1>3, <1>4, <1>5, ZenonT(60) DEF Rebroadcast, IInv, TypeOK, UnsentAge

\* A crash empties what the process held in memory.
LEMMA CrashIInv ==
  ASSUME IInv, NEW n \in Nodes, Crash(n)
  PROVE  IInv'
<1>1. dedup' \in [Nodes -> [Slots -> Entry]]
  BY FreeType DEF Crash, IInv, TypeOK
<1>2. /\ sock' \in [Nodes -> Seq(Datagram)]
      /\ sock'[n] = <<>>
      /\ \A p \in Nodes : p # n => sock'[p] = sock[p]
  BY EmptySeq, ZenonT(60) DEF Crash, IInv, TypeOK
<1>3. SocksOk(sock', sent)
  <2>1. Len(<<>>) = 0
    OBVIOUS
  <2> QED  BY <1>2, <2>1, SMTT(60) DEF IInv, SocksOk
<1>4. todo' \in [Nodes -> SUBSET Datagram] /\ CopiesOk(todo', sent)
  BY DEF Crash, IInv, TypeOK, CopiesOk
<1>5. sfAge' \in [Nodes -> 0..SfInterval] /\ crashes' \in 0..MaxCrashes
  BY ParameterAssumption DEF Crash, IInv, TypeOK
<1> QED  BY <1>1, <1>2, <1>3, <1>4, <1>5, ZenonT(60) DEF Crash, IInv, TypeOK, UnsentAge

\* Time changes ages and lifetimes only.
LEMMA SecondIInv ==
  ASSUME IInv, Second
  PROVE  IInv'
<1> USE ParameterAssumption
<1>1. dedup' \in [Nodes -> [Slots -> Entry]]
  <2>1. ASSUME NEW e \in Entry
        PROVE  [e EXCEPT !.age = IF @ <= MaxAge THEN @ + 1 ELSE @] \in Entry
    BY DEF Entry
  <2>2. \A n \in Nodes, s \in Slots : dedup[n][s] \in Entry
    BY DEF IInv, TypeOK
  <2> QED  BY <2>1, <2>2 DEF Second
<1>2. ASSUME NEW r \in Row
      PROVE  LET r2 == [r EXCEPT !.left = IF @ >= 0 THEN @ - 1 ELSE @]
             IN  r2 \in Row /\ r2.uuid = r.uuid /\ r2.ttl = r.ttl
  BY DEF Row
<1>3. store' \in [Nodes -> SUBSET Row]
  BY <1>2 DEF Second, IInv, TypeOK
<1>4. CopiesOk(store', sent)
  <2> SUFFICES ASSUME NEW n \in Nodes, NEW c \in store'[n]
               PROVE  c.uuid \in sent /\ c.ttl + Dist[Sender[c.uuid]][n] <= DefaultTtl
    BY DEF CopiesOk
  <2>1. PICK r \in store[n] : c = [r EXCEPT !.left = IF @ >= 0 THEN @ - 1 ELSE @]
    BY DEF Second
  <2>2. r \in Row
    BY DEF IInv, TypeOK
  <2>3. c.uuid = r.uuid /\ c.ttl = r.ttl
    BY <1>2, <2>1, <2>2
  <2> QED  BY <2>3 DEF IInv, CopiesOk
<1>5. sfAge' \in [Nodes -> 0..SfInterval]
  BY DEF Second, IInv, TypeOK
<1>6. sentAge' \in [Uuids -> 0..AgeCap]
  BY DEF Second, IInv, TypeOK
<1>7. UnsentAge'
  BY DEF Second, IInv, UnsentAge
<1> QED  BY <1>1, <1>3, <1>4, <1>5, <1>6, <1>7 DEF Second, IInv, TypeOK

\* Every step keeps the invariant.
LEMMA NextIInv == IInv /\ [Next]_vars => IInv'
<1> SUFFICES ASSUME IInv, [Next]_vars PROVE IInv'
  OBVIOUS
<1>1. ASSUME NEW m \in Uuids, Broadcast(m) PROVE IInv'
  BY <1>1, BroadcastIInv
<1>2. ASSUME NEW n \in Nodes, TickBegin(n) PROVE IInv'
  BY <1>2, EvictType, ZenonT(60) DEF TickBegin, IInv, TypeOK, UnsentAge
<1>3. ASSUME NEW n \in Nodes, Receive(n) PROVE IInv'
  BY <1>3, ReceiveIInv
<1>4. ASSUME NEW n \in Nodes, QueryPending(n) PROVE IInv'
  BY <1>4, QueryPendingIInv
<1>5. ASSUME NEW n \in Nodes, SkipPending(n) PROVE IInv'
  <2>1. FinishTick(n)
    BY <1>5 DEF SkipPending
  <2> QED  BY <1>5, <2>1, FinishTickOk DEF SkipPending, IInv, TypeOK, UnsentAge
<1>6. ASSUME NEW n \in Nodes, Rebroadcast(n) PROVE IInv'
  BY <1>6, RebroadcastIInv
<1>7. ASSUME NEW n \in Nodes, Crash(n) PROVE IInv'
  BY <1>7, CrashIInv
<1>8. ASSUME NEW n \in Nodes, Start(n) PROVE IInv'
  BY <1>8 DEF Start, IInv, TypeOK, UnsentAge
<1>9. CASE Second
  BY <1>9, SecondIInv
<1>10. CASE UNCHANGED vars
  BY <1>10 DEF vars, IInv, TypeOK, UnsentAge
<1> QED
  BY <1>1, <1>2, <1>3, <1>4, <1>5, <1>6, <1>7, <1>8, <1>9, <1>10 DEF Next, TickThread

\* The invariant holds in every reachable state.
THEOREM InvariantHolds == Spec => []IInv
  BY InitIInv, NextIInv, PTL DEF Spec

\* Type correctness of the mesh.
THEOREM TypeCorrect == Spec => []TypeOK
  BY InvariantHolds, PTL DEF IInv

\* In a mesh of any shape, no copy of a message has been through more hops
\* than its ttl has been counted down for.
THEOREM HopBoundHolds == Spec => []HopBound
<1>1. IInv => HopBound
  BY DEF IInv, HopBound, CopiesOk, SocksOk
<1> QED  BY <1>1, InvariantHolds, PTL

-----------------------------------------------------------------------------
(* Whom a message can reach.                                               *)

\* on_message is called only for messages that were broadcast and came over the
\* wire whole, and only where a chain of at most DefaultTtl links can lead from
\* the sender: a receiver further away is out of reach, however often relays
\* resend what they store.
DeliveredInReach ==
    \A m \in Uuids : delivered[m] > 0 =>
        /\ m \in sent /\ Parses(m)
        /\ Receiver[m] \in Nodes
        /\ Dist[Sender[m]][Receiver[m]] <= DefaultTtl

\* Only a receiver within reach of the sender's ttl is handed a message, in a
\* mesh of any shape and whatever is lost, stored, resent or forgotten.
THEOREM DeliveredInReachHolds == Spec => []DeliveredInReach
<1>1. Init => DeliveredInReach
  <2> SUFFICES ASSUME Init, NEW m \in Uuids PROVE ~(delivered[m] > 0)
    BY Zenon DEF DeliveredInReach
  <2>1. delivered[m] = 0
    BY Zenon DEF Init
  <2> QED  BY <2>1
<1>2. ASSUME IInv, DeliveredInReach, [Next]_vars PROVE DeliveredInReach'
  <2>1. CASE UNCHANGED delivered /\ sent \subseteq sent'
    BY <1>2, <2>1, ZenonT(60) DEF DeliveredInReach
  <2>2. ASSUME NEW n \in Nodes, Receive(n) PROVE DeliveredInReach'
    <3> DEFINE d == Head(sock[n])
    <3>1. /\ sock[n] # <<>> /\ bc_router_receive(n, d, udp_recv(n)) /\ sent' = sent
      BY <2>2, Zenon DEF Receive
    <3>2. /\ sock \in [Nodes -> Seq(Datagram)] /\ SocksOk(sock, sent) /\ sent \in SUBSET Uuids
          /\ delivered \in [Uuids -> 0..2]
      BY <1>2, Zenon DEF IInv, TypeOK
    <3>3. d \in Datagram /\ d.uuid \in sent /\ d.ttl + Dist[Sender[d.uuid]][n] <= DefaultTtl + 1
      BY <3>1, <3>2, PopOk, ZenonT(60)
    <3> HIDE DEF d
    <3>4. CASE UNCHANGED delivered
      BY <2>1, <3>1, <3>4, Zenon
    <3>5. CASE /\ Parses(d.uuid) /\ ~TtlExpired(d.ttl) /\ Receiver[d.uuid] = n
               /\ delivered' = [delivered EXCEPT ![d.uuid] = IF @ < 2 THEN @ + 1 ELSE @]
      <4>1. /\ d.uuid \in Uuids /\ d.ttl \in Nat /\ d.ttl # 0 /\ DefaultTtl \in Nat
            /\ Dist[Sender[d.uuid]][n] \in Nat
        <5>1. d.uuid \in Uuids /\ d.ttl \in Nat /\ d.ttl # 0 /\ DefaultTtl \in Nat
          BY <3>3, <3>5, ParameterAssumption DEF Datagram, TtlExpired
        <5>2. Sender[d.uuid] \in Nodes
          BY <5>1, TopologyAssumption, Zenon
        <5> QED  BY <5>1, <5>2, DistAssumption, Zenon
      <4>2. Dist[Sender[d.uuid]][n] <= DefaultTtl
        BY <3>3, <4>1
      <4>3. \A m \in Uuids : m # d.uuid => delivered'[m] = delivered[m]
        BY <3>2, <3>5, Zenon
      <4> QED  BY <1>2, <3>1, <3>3, <3>5, <4>2, <4>3, ZenonT(60) DEF DeliveredInReach
    <3> QED  BY <3>1, <3>4, <3>5, Zenon DEF bc_router_receive
  <2>3. CASE Next
    <3>1. ASSUME NEW m \in Uuids, Broadcast(m) PROVE DeliveredInReach'
      BY <2>1, <3>1, Zenon DEF Broadcast
    <3>2. ASSUME NEW n \in Nodes, \/ TickBegin(n) \/ QueryPending(n) \/ SkipPending(n)
                                  \/ Rebroadcast(n) \/ Crash(n) \/ Start(n)
          PROVE DeliveredInReach'
      BY <2>1, <3>2, Zenon
      DEF TickBegin, QueryPending, SkipPending, Rebroadcast, Crash, Start
    <3>3. CASE Second
      BY <2>1, <3>3, Zenon DEF Second
    <3> QED  BY <2>2, <2>3, <3>1, <3>2, <3>3, Zenon DEF Next, TickThread
  <2> QED  BY <1>2, <2>1, <2>3, Zenon DEF vars
<1> QED  BY <1>1, <1>2, InvariantHolds, PTL DEF Spec

-----------------------------------------------------------------------------
(* When a message can be delivered again.                                  *)

\* Node n takes a copy of u for a duplicate.
Knows(n, u) == dedup_contains(dedup[n], u)

\* Every slot of n's table holds an entry that has not expired.
Full(n) == \A r \in Slots : ~Writable(dedup[n], Stale(n), r)

\* t has n's entry of u overwritten by another UUID's: it had expired, or the
\* table was full.
Overwrites(n, u, t) ==
    \E s \in Slots : /\ dedup[n][s].occupied /\ dedup[n][s].uuid = u
                     /\ t[s].occupied /\ t[s].uuid # u
                     /\ s \in Stale(n) \/ Full(n)

\* "A message whose UUID is already in the set is dropped": on_message is called
\* only for a UUID the receiver does not know, and then it knows it.
DeliveryMarks ==
    [][\A m \in Uuids : delivered'[m] # delivered[m] =>
          /\ Receiver[m] \in Nodes
          /\ ~Knows(Receiver[m], m) /\ Knows(Receiver[m], m)']_vars

\* A node forgets a UUID only when its process dies, when an eviction frees a
\* slot, or when another UUID takes its place, expired or in a full table.
ForgetsOnly ==
    [][\A n \in Nodes, u \in Uuids : Knows(n, u) /\ ~Knows(n, u)' =>
          \/ Crash(n)
          \/ TickBegin(n) /\ \E s \in Stale(n) : dedup[n][s].occupied
          \/ Overwrites(n, u, dedup'[n])]_vars

\* Probes stay inside the table.
LEMMA ProbeSlots ==
  ASSUME NEW u \in Uuids, NEW i \in Slots
  PROVE  Slot(u, i) \in Slots /\ \A j \in 0..(i - 1) : Slot(u, j) \in Slots
<1>1. Hash[u] \in 0..(Cap - 1) /\ Cap \in Nat \ {0}
  BY CapAssumption, HashAssumption
<1> QED  BY <1>1 DEF Slot, Slots

\* They get to every slot.
LEMMA ProbeCovers ==
  ASSUME NEW u \in Uuids, NEW s \in Slots
  PROVE  \E i \in Slots : s = Slot(u, i)
<1>1. Hash[u] \in 0..(Cap - 1) /\ Cap \in Nat \ {0}
  BY CapAssumption, HashAssumption
<1>2. CASE s >= Hash[u]
  <2>1. s - Hash[u] \in Slots /\ s = Slot(u, s - Hash[u])
    BY <1>1, <1>2 DEF Slots, Slot
  <2> QED  BY <2>1
<1>3. CASE s < Hash[u]
  <2>1. s - Hash[u] + Cap \in Slots /\ s = Slot(u, s - Hash[u] + Cap)
    BY <1>1, <1>3 DEF Slots, Slot
  <2> QED  BY <2>1
<1> QED  BY <1>1, <1>2, <1>3 DEF Slots

\* What dedup_insert of v on n does to what n knows.
LEMMA InsertForgets ==
  ASSUME IInv, NEW n \in Nodes, NEW v \in Uuids, NEW t \in dedup_insert(n, v)
  PROVE  /\ dedup_contains(t, v)
         /\ \A u \in Uuids : Knows(n, u) /\ ~dedup_contains(t, u) => Overwrites(n, u, t)
<1> DEFINE e == [occupied |-> TRUE, uuid |-> v, age |-> 0]
           d == dedup[n]
<1>1. PICK s \in Slots : InsertsAt(d, v, Stale(n), s) /\ t = [d EXCEPT ![s] = e]
  BY ZenonT(60) DEF dedup_insert
<1>2. e.occupied /\ e.uuid = v
  OBVIOUS
<1>3. d \in [Slots -> Entry]
  BY Zenon DEF IInv, TypeOK
<1> HIDE DEF e
<1>4. t[s] = e /\ \A r \in Slots : r # s => t[r] = d[r]
  BY <1>1, <1>3, Zenon
<1>5. \A r \in Slots : d[r].occupied => t[r].occupied
  BY <1>2, <1>4, Zenon
<1>6. s \in Stale(n) \/ ~d[s].occupied \/ Full(n)
  <2>1. CASE \E i \in Slots : s = Slot(v, i) /\ Writable(d, Stale(n), s)
    BY <2>1, Zenon DEF Writable
  <2>2. CASE \A i \in Slots : ~Writable(d, Stale(n), Slot(v, i))
    BY <2>2, ProbeCovers, Zenon DEF Full
  <2> QED  BY <1>1, <2>1, <2>2, Zenon DEF InsertsAt
<1>7. PICK i \in Slots : s = Slot(v, i) /\ \A j \in 0..(i - 1) : d[Slot(v, j)].occupied
  <2>1. CASE \E i \in Slots : /\ s = Slot(v, i)
                              /\ \A j \in 0..(i - 1) : ~Writable(d, Stale(n), Slot(v, j))
    BY <2>1, Zenon DEF Writable
  <2>2. CASE s = Slot(v, 0)
    <3>1. 0 \in Slots /\ \A j \in 0..(0 - 1) : d[Slot(v, j)].occupied
      BY CapAssumption DEF Slots
    <3> QED  BY <2>2, <3>1
  <2> QED  BY <1>1, <2>1, <2>2, Zenon DEF InsertsAt
<1>8. dedup_contains(t, v)
  <2>1. \A j \in 0..(i - 1) : t[Slot(v, j)].occupied
    BY <1>5, <1>7, ProbeSlots, Zenon
  <2> QED  BY <1>2, <1>4, <1>7, <2>1, Zenon DEF dedup_contains
<1>9. ASSUME NEW u \in Uuids, Knows(n, u), ~dedup_contains(t, u) PROVE Overwrites(n, u, t)
  <2>1. PICK k \in Slots : /\ d[Slot(u, k)].occupied /\ d[Slot(u, k)].uuid = u
                           /\ \A j \in 0..(k - 1) : d[Slot(u, j)].occupied
    BY <1>9, Zenon DEF Knows, dedup_contains
  <2>2. Slot(u, k) \in Slots /\ \A j \in 0..(k - 1) : t[Slot(u, j)].occupied
    BY <1>5, <2>1, ProbeSlots, Zenon
  <2>3. t[Slot(u, k)] # d[Slot(u, k)]
    BY <1>9, <2>1, <2>2, Zenon DEF dedup_contains
  <2>4. Slot(u, k) = s
    BY <1>4, <2>2, <2>3, Zenon
  <2>5. t[s].occupied /\ t[s].uuid # u
    BY <1>2, <1>4, <1>8, <1>9, ZenonT(60)
  <2> QED  BY <1>6, <2>1, <2>2, <2>4, <2>5, ZenonT(60) DEF Overwrites
<1> QED  BY <1>8, <1>9, ZenonT(60)

\* Tables with the same UUIDs in the same places know the same.
LEMMA SameKnown ==
  ASSUME NEW t1, NEW t2, NEW u \in Uuids,
         \A s \in Slots : /\ t2[s].occupied <=> t1[s].occupied
                          /\ t1[s].occupied => t2[s].uuid = t1[s].uuid
  PROVE  dedup_contains(t1, u) => dedup_contains(t2, u)
<1> SUFFICES ASSUME dedup_contains(t1, u) PROVE dedup_contains(t2, u)
  OBVIOUS
<1>1. PICK i \in Slots : /\ t1[Slot(u, i)].occupied /\ t1[Slot(u, i)].uuid = u
                         /\ \A j \in 0..(i - 1) : t1[Slot(u, j)].occupied
  BY Zenon DEF dedup_contains
<1>2. Slot(u, i) \in Slots /\ \A j \in 0..(i - 1) : Slot(u, j) \in Slots
  BY ProbeSlots, Zenon
<1> QED  BY <1>1, <1>2, Zenon DEF dedup_contains

\* on_message is called again for a message only after its receiver has crashed,
\* an eviction there has freed a slot, or another UUID has taken its place,
\* expired or in a full table: copies that come before that, however many and
\* over whatever paths, are dropped.
THEOREM RedeliveryHolds == Spec => DeliveryMarks /\ ForgetsOnly
<1> DEFINE Marks == \A m \in Uuids : delivered'[m] # delivered[m] =>
                       /\ Receiver[m] \in Nodes
                       /\ ~Knows(Receiver[m], m) /\ Knows(Receiver[m], m)'
           Reason(n, u) == \/ Crash(n)
                           \/ TickBegin(n) /\ \E s \in Stale(n) : dedup[n][s].occupied
                           \/ Overwrites(n, u, dedup'[n])
           Forgetting == \A n \in Nodes, u \in Uuids :
                            Knows(n, u) /\ ~Knows(n, u)' => Reason(n, u)
<1>1. ASSUME IInv, Next PROVE Marks /\ Forgetting
  <2>1. ASSUME dedup' = dedup PROVE Forgetting
    BY <2>1, Zenon DEF Knows
  <2>2. ASSUME NEW n \in Nodes, NEW v \in Uuids,
               \E t \in dedup_insert(n, v) : dedup' = [dedup EXCEPT ![n] = t]
        PROVE  Forgetting /\ Knows(n, v)'
    <3>1. PICK t \in dedup_insert(n, v) : dedup' = [dedup EXCEPT ![n] = t]
      BY <2>2, Zenon
    <3>2. dedup'[n] = t /\ \A p \in Nodes : p # n => dedup'[p] = dedup[p]
      BY <1>1, <3>1, Zenon DEF IInv, TypeOK
    <3>3. /\ dedup_contains(t, v)
          /\ \A u \in Uuids : Knows(n, u) /\ ~dedup_contains(t, u) => Overwrites(n, u, t)
      BY <1>1, InsertForgets, Zenon
    <3>4. Knows(n, v)'
      BY <3>2, <3>3, Zenon DEF Knows
    <3>5. ASSUME NEW p \in Nodes, NEW u \in Uuids, Knows(p, u), ~Knows(p, u)'
          PROVE  Overwrites(p, u, dedup'[p])
      <4>1. p = n
        BY <3>2, <3>5, Zenon DEF Knows
      <4> QED  BY <3>2, <3>3, <3>5, <4>1, Zenon DEF Knows
    <3> QED  BY <3>4, <3>5, Zenon
  <2>3. ASSUME NEW m \in Uuids, Broadcast(m) PROVE Marks /\ Forgetting
    <3>1. Sender[m] \in Nodes
      BY TopologyAssumption, Zenon
    <3>2. /\ \E t \in dedup_insert(Sender[m], m) : dedup' = [dedup EXCEPT ![Sender[m]] = t]
          /\ delivered' = delivered
      BY <2>3, Zenon DEF Broadcast
    <3> QED  BY <2>2, <3>1, <3>2, Zenon
  <2>4. ASSUME NEW n \in Nodes, Receive(n) PROVE Marks /\ Forgetting
    <3> DEFINE d == Head(sock[n])
    <3>1. sock[n] # <<>> /\ bc_router_receive(n, d, udp_recv(n))
      BY <2>4, Zenon DEF Receive
    <3>2. PICK m \in Uuids : m = d.uuid
      <4>1. sock \in [Nodes -> Seq(Datagram)]
        BY <1>1, Zenon DEF IInv, TypeOK
      <4>2. d \in Datagram
        BY <3>1, <4>1, PopType, Zenon
      <4> HIDE DEF d
      <4> QED  BY <4>2 DEF Datagram
    <3>3. CASE UNCHANGED <<dedup, delivered>>
      BY <2>1, <3>3, Zenon
    <3>4. CASE /\ ~dedup_contains(dedup[n], m)
               /\ \E t \in dedup_insert(n, m) : dedup' = [dedup EXCEPT ![n] = t]
               /\ \/ delivered' = delivered
                  \/ Receiver[m] = n /\ \E k : delivered' = [delivered EXCEPT ![m] = k]
      <4>1. Forgetting /\ Knows(n, m)'
        BY <2>2, <3>4, Zenon
      <4>2. ~Knows(n, m)
        BY <3>4, Zenon DEF Knows
      <4>3. Marks
        <5>1. CASE delivered' = delivered
          BY <5>1, Zenon
        <5>2. CASE Receiver[m] = n /\ \E k : delivered' = [delivered EXCEPT ![m] = k]
          <6>1. \A x \in Uuids : x # m => delivered'[x] = delivered[x]
            BY <1>1, <5>2, ZenonT(60) DEF IInv, TypeOK
          <6> QED  BY <4>1, <4>2, <5>2, <6>1, Zenon
        <5> QED  BY <3>4, <5>1, <5>2, Zenon
      <4> QED  BY <4>1, <4>3, Zenon
    <3> QED  BY <3>1, <3>2, <3>3, <3>4, ZenonT(60) DEF bc_router_receive
  <2>5. ASSUME NEW n \in Nodes, TickBegin(n) PROVE Marks /\ Forgetting
    <3>1. /\ dedup' = [dedup EXCEPT ![n] = dedup_evict(dedup[n], Stale(n), Free)]
          /\ delivered' = delivered
      BY <2>5, Zenon DEF TickBegin
    <3>2. /\ dedup'[n] = dedup_evict(dedup[n], Stale(n), Free)
          /\ \A p \in Nodes : p # n => dedup'[p] = dedup[p]
      BY <1>1, <3>1, Zenon DEF IInv, TypeOK
    <3>3. ~Free.occupied
      BY DEF Free
    <3>4. ASSUME NEW u \in Uuids, \A s \in Stale(n) : ~dedup[n][s].occupied, Knows(n, u)
          PROVE  Knows(n, u)'
      <4>1. \A s \in Slots : dedup'[n][s] = IF s \in Stale(n) THEN Free ELSE dedup[n][s]
        BY <3>2, Zenon DEF dedup_evict
      <4>2. \A s \in Slots : /\ dedup'[n][s].occupied <=> dedup[n][s].occupied
                             /\ dedup[n][s].occupied => dedup'[n][s].uuid = dedup[n][s].uuid
        BY <3>3, <3>4, <4>1, Zenon
      <4>3. dedup_contains(dedup[n], u) => dedup_contains(dedup'[n], u)
        BY <4>2, SameKnown, Zenon
      <4> QED  BY <3>4, <4>3, Zenon DEF Knows
    <3>5. \A p \in Nodes, u \in Uuids : p # n /\ Knows(p, u) => Knows(p, u)'
      BY <3>2, Zenon DEF Knows
    <3> QED  BY <2>5, <3>1, <3>4, <3>5, Zenon
  <2>6. ASSUME NEW n \in Nodes, Crash(n) PROVE Marks /\ Forgetting
    <3>1. dedup' = [dedup EXCEPT ![n] = EmptyTable] /\ delivered' = delivered
      BY <2>6, Zenon DEF Crash
    <3>2. \A p \in Nodes : p # n => dedup'[p] = dedup[p]
      BY <1>1, <3>1, Zenon DEF IInv, TypeOK
    <3> QED  BY <2>6, <3>1, <3>2, Zenon DEF Knows
  <2>7. CASE Second
    <3>1. /\ dedup' = [n \in Nodes |-> [s \in Slots |->
                          [dedup[n][s] EXCEPT !.age = IF @ <= MaxAge THEN @ + 1 ELSE @]]]
          /\ delivered' = delivered
      BY <2>7, Zenon DEF Second
    <3>2. ASSUME NEW n \in Nodes, NEW u \in Uuids, Knows(n, u) PROVE Knows(n, u)'
      <4>1. ASSUME NEW s \in Slots
            PROVE  /\ dedup'[n][s].occupied <=> dedup[n][s].occupied
                   /\ dedup[n][s].occupied => dedup'[n][s].uuid = dedup[n][s].uuid
        <5> DEFINE x == dedup[n][s]
        <5>1. dedup'[n][s] = [x EXCEPT !.age = IF @ <= MaxAge THEN @ + 1 ELSE @]
          BY <3>1, Zenon
        <5>2. x \in Entry
          <6>1. dedup \in [Nodes -> [Slots -> Entry]]
            BY <1>1, ZenonT(60) DEF IInv, TypeOK
          <6> QED  BY <6>1, Zenon
        <5> HIDE DEF x
        <5>3. dedup'[n][s].occupied = x.occupied /\ dedup'[n][s].uuid = x.uuid
          BY <5>1, <5>2, SMTT(60) DEF Entry
        <5> QED  BY <5>3, Zenon DEF x
      <4>2. dedup_contains(dedup[n], u) => dedup_contains(dedup'[n], u)
        BY <4>1, SameKnown, Zenon
      <4> QED  BY <3>2, <4>2, Zenon DEF Knows
    <3> QED  BY <3>1, <3>2, Zenon
  <2>8. ASSUME NEW n \in Nodes, \/ QueryPending(n) \/ SkipPending(n) \/ Rebroadcast(n) \/ Start(n)
        PROVE  Marks /\ Forgetting
    BY <2>1, <2>8, Zenon DEF QueryPending, SkipPending, Rebroadcast, Start
  <2> QED
    BY <1>1, <2>3, <2>4, <2>5, <2>6, <2>7, <2>8, Zenon DEF Next, TickThread
<1>2. IInv /\ [Next]_vars => [Marks]_vars /\ [Forgetting]_vars
  BY <1>1, Zenon
<1> QED  BY <1>2, InvariantHolds, PTL DEF Spec, DeliveryMarks, ForgetsOnly

-----------------------------------------------------------------------------
(* The sender's custody of its messages.                                   *)

\* Every step but Second keeps the rows of messages that have not expired.
KeepsRows == \A n \in Nodes : \A r \in store[n] : r.left >= 0 => r \in store'[n]

\* Storing only adds.
LEMMA StoreKeeps ==
  ASSUME NEW rows, NEW u, NEW t, NEW rows2 \in StoreOutcomes(rows, u, t)
  PROVE  rows \subseteq rows2
  BY DEF StoreOutcomes, store_message

\* Evicting spares what has not expired.
LEMMA FinishTickKeeps ==
  ASSUME IInv, NEW n \in Nodes, FinishTick(n)
  PROVE  KeepsRows
  BY DEF FinishTick, evict_expired, KeepsRows, IInv, TypeOK

\* Every step of a node keeps the rows that have not expired.
LEMMA StepKeeps ==
  ASSUME IInv, [Next]_vars, ~Second
  PROVE  KeepsRows
<1>1. ASSUME NEW n \in Nodes, NEW u, NEW t, NEW rows \in StoreOutcomes(store[n], u, t),
             store' = [store EXCEPT ![n] = rows]
      PROVE  KeepsRows
  <2>1. store[n] \subseteq rows
    BY <1>1, StoreKeeps
  <2> QED  BY <1>1, <2>1 DEF KeepsRows, IInv, TypeOK
<1>2. CASE UNCHANGED store
  BY <1>2, ZenonT(60) DEF KeepsRows
<1>3. ASSUME NEW m \in Uuids, Broadcast(m) PROVE KeepsRows
  <2>1. Sender[m] \in Nodes
    BY TopologyAssumption
  <2> QED  BY <1>1, <1>3, <2>1, ZenonT(60) DEF Broadcast
<1>4. ASSUME NEW n \in Nodes, Receive(n) PROVE KeepsRows
  BY <1>1, <1>2, <1>4, ZenonT(60) DEF Receive, bc_router_receive
<1>5. ASSUME NEW n \in Nodes, QueryPending(n) PROVE KeepsRows
  BY <1>2, <1>5, FinishTickKeeps, ZenonT(60) DEF QueryPending
<1>6. ASSUME NEW n \in Nodes, SkipPending(n) PROVE KeepsRows
  BY <1>6, FinishTickKeeps, ZenonT(60) DEF SkipPending
<1>7. ASSUME NEW n \in Nodes, Rebroadcast(n) PROVE KeepsRows
  BY <1>2, <1>7, FinishTickKeeps DEF Rebroadcast
<1> QED
  BY <1>2, <1>3, <1>4, <1>5, <1>6, <1>7, ZenonT(60)
  DEF Next, TickThread, TickBegin, Crash, Start, vars

\* For the whole retention period the sender of a message can resend it with
\* its full ttl, unless SQLite refuses the insert.
THEOREM OriginCustodyHolds ==
  ASSUME ~StoreFails
  PROVE  Spec => []OriginCustody
<1> USE ParameterAssumption
<1>1. Init => OriginCustody
  BY DEF Init, OriginCustody
<1>2. ASSUME IInv, OriginCustody, [Next]_vars
      PROVE  OriginCustody'
  <2> DEFINE row(m, a) == [uuid |-> m, ttl |-> DefaultTtl, left |-> Retention - a]
  <2>1. \A m \in Uuids : Sender[m] \in Nodes /\ sentAge[m] \in 0..AgeCap
    BY <1>2, TopologyAssumption DEF IInv, TypeOK
  <2>2. CASE Second
    <3> SUFFICES ASSUME NEW m \in sent, sentAge'[m] <= Retention
                 PROVE  row(m, sentAge'[m]) \in store'[Sender[m]]
      BY <2>2, ZenonT(60) DEF Second, OriginCustody
    <3>1. m \in Uuids
      BY <1>2 DEF IInv, TypeOK
    <3>2. sentAge[m] < Retention /\ sentAge'[m] = sentAge[m] + 1
      BY <2>1, <2>2, <3>1, SMTT(60) DEF Second
    <3>3. row(m, sentAge[m]) \in store[Sender[m]]
      BY <1>2, <2>1, <3>1, <3>2 DEF OriginCustody
    <3>4. row(m, sentAge'[m]) =
             [row(m, sentAge[m]) EXCEPT !.left = IF @ >= 0 THEN @ - 1 ELSE @]
      BY <2>1, <3>1, <3>2, SMTT(60)
    <3> HIDE DEF row
    <3> QED  BY <2>1, <2>2, <3>1, <3>3, <3>4 DEF Second
  <2>3. CASE ~Second
    <3> SUFFICES ASSUME NEW m \in sent', sentAge'[m] <= Retention
                 PROVE  row(m, sentAge'[m]) \in store'[Sender[m]]
      BY DEF OriginCustody
    <3>1. KeepsRows /\ sentAge' = sentAge
      <4>1. sentAge' = sentAge
        BY <1>2, <2>3, ZenonT(60) DEF Next, TickThread, Broadcast, TickBegin, Receive, QueryPending,
                          SkipPending, Rebroadcast, Crash, Start, vars
      <4> QED  BY <1>2, <2>3, <4>1, StepKeeps, ZenonT(60)
    <3>2. CASE m \in sent
      <4>1. m \in Uuids /\ row(m, sentAge[m]) \in store[Sender[m]]
        BY <1>2, <3>1, <3>2 DEF OriginCustody, IInv, TypeOK
      <4>2. row(m, sentAge[m]).left >= 0
        BY <2>1, <3>1, <4>1
      <4> HIDE DEF row
      <4> QED  BY <2>1, <3>1, <4>1, <4>2, ZenonT(60) DEF KeepsRows
    <3>3. CASE m \notin sent
      <4>1. m \in Uuids /\ Broadcast(m)
        <5>1. (\A k \in Uuids : ~Broadcast(k)) => sent' = sent
          BY <1>2, <2>3, ZenonT(60) DEF Next, TickThread, TickBegin, Receive, QueryPending,
                            SkipPending, Rebroadcast, Crash, Start, vars
        <5>2. PICK k \in Uuids : Broadcast(k)
          BY <3>3, <5>1, ZenonT(60)
        <5>3. sent' = sent \cup {k}
          BY <5>2, ZenonT(60) DEF Broadcast
        <5>4. m = k
          BY <3>3, <5>3, ZenonT(60)
        <5> QED  BY <5>2, <5>4, ZenonT(60)
      <4>2. sentAge[m] = 0
        BY <1>2, <3>3, <4>1, ZenonT(60) DEF IInv, UnsentAge
      <4>3. \A r \in store[Sender[m]] : r.uuid # m
        BY <1>2, <2>1, <3>3, <4>1, ZenonT(60) DEF IInv, CopiesOk
      <4>4. store' = [store EXCEPT ![Sender[m]] = store_message(store[Sender[m]], m, DefaultTtl)]
        <5>1. StoreOutcomes(store[Sender[m]], m, DefaultTtl)
                 = {store_message(store[Sender[m]], m, DefaultTtl)}
          BY ZenonT(60) DEF StoreOutcomes
        <5> QED  BY <4>1, <5>1 DEF Broadcast
      <4>5. [uuid |-> m, ttl |-> DefaultTtl, left |-> Retention] \in store'[Sender[m]]
        <5>1. store'[Sender[m]] = store_message(store[Sender[m]], m, DefaultTtl)
          BY <1>2, <2>1, <4>1, <4>4 DEF IInv, TypeOK
        <5> QED  BY <4>3, <5>1, ZenonT(60) DEF store_message
      <4>6. row(m, sentAge'[m]) = [uuid |-> m, ttl |-> DefaultTtl, left |-> Retention]
        BY <3>1, <4>2
      <4> QED  BY <4>5, <4>6
    <3> QED  BY <3>2, <3>3
  <2> QED  BY <2>2, <2>3
<1>3. IInv /\ OriginCustody /\ [Next]_vars => OriginCustody'
  BY <1>2
<1> QED  BY <1>1, <1>3, InvariantHolds, PTL DEF Spec

-----------------------------------------------------------------------------
(* How long the copies of a message live.  If every node finishes a tick   *)
(* in every second, no tick is under way when a second passes, so a node   *)
(* resends a row only while it is valid, and reads a datagram at the       *)
(* latest in the second after it was sent.                                 *)

\* The rows in f have a valid time left that ends in time, and what a node
\* that has ticked still holds is valid.
RowsTimely(f, K) ==
    \A n \in Nodes : \A r \in f[n] : /\ sentAge[r.uuid] + r.left < Lifetime(r.ttl)
                                     /\ n \in K => r.left >= 0

\* So are the datagrams in the buffers q; those of the nodes in B came in this
\* second.
SocksTimely(q, B) ==
    \A n \in Nodes : \A i \in 1..Len(q[n]) :
        /\ sentAge[q[n][i].uuid] <= Lifetime(q[n][i].ttl)
        /\ n \in B => sentAge[q[n][i].uuid] < Lifetime(q[n][i].ttl)

\* The nodes that have finished a tick in this second, or have drained their
\* buffer in it and are at the rebroadcast.
Drained == ticked \cup {n \in Nodes : phase[n] = "sf"}

\* The rebroadcast of a node is over within the second in which it began, and
\* is not due again in that second.
SfInSecond ==
    \A n \in Nodes :
        /\ phase[n] = "sf" => n \notin ticked /\ sfAge[n] < SfInterval
        /\ n \in ticked => ~RebroadcastDue(n)
        /\ phase[n] # "sf" => todo[n] = {}
        /\ \A d \in todo[n] : sentAge[d.uuid] < Lifetime(d.ttl)

Timely == /\ SfInSecond
          /\ RowsTimely(store, ticked)
          /\ SocksTimely(sock, Drained)

\* A hop less to go means a retention period and a second more.
LEMMA LifetimeStep ==
  ASSUME NEW t \in 0..DefaultTtl
  PROVE  /\ Lifetime(t) \in Int
         /\ Lifetime(DefaultTtl) = Retention + 1
         /\ Lifetime(t - 1) = Lifetime(t) + Retention + 1
<1>1. DefaultTtl \in Nat /\ Retention \in Nat
  BY ParameterAssumption
<1>2. \A a, b \in Int : (a + 1) * b = a * b + b
  OBVIOUS
<1>3. DefaultTtl - (t - 1) + 1 = (DefaultTtl - t + 1) + 1 /\ DefaultTtl - t + 1 \in Int
  BY <1>1
<1>4. ((DefaultTtl - t + 1) + 1) * (Retention + 1) = (DefaultTtl - t + 1) * (Retention + 1) + (Retention + 1)
  BY <1>1, <1>2, <1>3
<1>5. Lifetime(DefaultTtl) = Retention + 1
  BY <1>1 DEF Lifetime
<1>6. Lifetime(t) \in Int /\ Lifetime(t - 1) = Lifetime(t) + (Retention + 1)
  BY <1>1, <1>3, <1>4 DEF Lifetime
<1> QED  BY <1>1, <1>5, <1>6

\* What may still be resent may be forwarded.
LEMMA ForwardTimely ==
  ASSUME NEW B, NEW q \in [Nodes -> Seq(Datagram)], SocksTimely(q, B),
         sentAge \in [Uuids -> 0..AgeCap],
         NEW n \in Nodes, NEW d \in Datagram, sentAge[d.uuid] < Lifetime(d.ttl),
         NEW q2 \in forward_to_peers(q, n, d)
  PROVE  SocksTimely(q2, B)
<1>1. sentAge[d.uuid] <= Lifetime(d.ttl)
  <2>1. d.uuid \in Uuids /\ d.ttl \in 0..DefaultTtl
    BY DEF Datagram
  <2>2. sentAge[d.uuid] \in 0..AgeCap /\ Lifetime(d.ttl) \in Int
    BY <2>1, LifetimeStep, Zenon
  <2>3. sentAge[d.uuid] \in Int
    BY <2>2, ParameterAssumption
  <2> QED  BY <2>2, <2>3
<1>2. /\ q2 \in [Nodes -> Seq(Datagram)]
      /\ \A p \in Nodes : \A i \in 1..Len(q2[p]) :
            \/ i \in 1..Len(q[p]) /\ q2[p][i] = q[p][i]
            \/ p \in Links[n] /\ q2[p][i] = d
  BY ForwardAppends, ZenonT(150)
<1>3. ASSUME NEW p \in Nodes, NEW i \in 1..Len(q2[p])
      PROVE  /\ sentAge[q2[p][i].uuid] <= Lifetime(q2[p][i].ttl)
             /\ p \in B => sentAge[q2[p][i].uuid] < Lifetime(q2[p][i].ttl)
  <2>1. CASE i \in 1..Len(q[p]) /\ q2[p][i] = q[p][i]
    BY <2>1, Zenon DEF SocksTimely
  <2>2. CASE p \in Links[n] /\ q2[p][i] = d
    BY <1>1, <2>2, Zenon
  <2>3. \/ i \in 1..Len(q[p]) /\ q2[p][i] = q[p][i]
        \/ p \in Links[n] /\ q2[p][i] = d
    BY <1>2, ZenonT(60)
  <2> QED  BY <2>1, <2>2, <2>3, Zenon
<1> QED  BY <1>3, Zenon DEF SocksTimely

\* Taking the first datagram off keeps the others in time.
LEMMA PopTimely ==
  ASSUME NEW B, NEW q \in [Nodes -> Seq(Datagram)], SocksTimely(q, B),
         NEW n \in Nodes, q[n] # <<>>
  PROVE  /\ SocksTimely([q EXCEPT ![n] = Tail(@)], B)
         /\ sentAge[Head(q[n]).uuid] <= Lifetime(Head(q[n]).ttl)
<1> DEFINE q2 == [q EXCEPT ![n] = Tail(@)]
<1>1. /\ Head(q[n]) = q[n][1]
      /\ 1 \in 1..Len(q[n])
      /\ \A p \in Nodes : \A i \in 1..Len(q2[p]) :
            \E k \in 1..Len(q[p]) : q2[p][i] = q[p][k]
  BY PopType, Zenon
<1> HIDE DEF q2
<1>2. SocksTimely(q2, B)
  BY <1>1, ZenonT(60) DEF SocksTimely
<1>3. sentAge[q[n][1].uuid] <= Lifetime(q[n][1].ttl)
  BY <1>1, Zenon DEF SocksTimely
<1> QED  BY <1>1, <1>2, <1>3, Zenon DEF q2

\* A new row ends in time if the message is young enough.
LEMMA StoreTimely ==
  ASSUME NEW K, NEW f \in [Nodes -> SUBSET Row], RowsTimely(f, K),
         NEW n \in Nodes, NEW u \in Uuids, NEW t \in 0..DefaultTtl,
         sentAge[u] + Retention < Lifetime(t),
         NEW rows \in StoreOutcomes(f[n], u, t)
  PROVE  RowsTimely([f EXCEPT ![n] = rows], K)
<1> DEFINE new == [uuid |-> u, ttl |-> t, left |-> Retention]
           g == [f EXCEPT ![n] = rows]
<1>1. new.uuid = u /\ new.ttl = t /\ new.left = Retention /\ Retention >= 0
  BY ParameterAssumption
<1>2. rows \subseteq f[n] \cup {new}
  BY StoreAdds, Zenon
<1>3. g[n] = rows /\ \A p \in Nodes : p # n => g[p] = f[p]
  OBVIOUS
<1> HIDE DEF new, g
<1>4. ASSUME NEW p \in Nodes, NEW r \in g[p]
      PROVE  sentAge[r.uuid] + r.left < Lifetime(r.ttl) /\ (p \in K => r.left >= 0)
  <2>1. CASE r \in f[p]
    BY <2>1, Zenon DEF RowsTimely
  <2>2. CASE r = new
    BY <1>1, <2>2, Zenon
  <2>3. r \in f[p] \/ r = new
    BY <1>2, <1>3, Zenon
  <2> QED  BY <2>1, <2>2, <2>3, Zenon
<1> QED  BY <1>4, Zenon DEF RowsTimely, g

\* Nothing has been sent when the nodes start.
LEMMA InitTimely == Init => Timely
<1> SUFFICES ASSUME Init PROVE Timely
  OBVIOUS
<1>1. SfInSecond /\ RowsTimely(store, ticked)
  BY DEF Init, SfInSecond, RowsTimely
<1>2. \A n \in Nodes : Len(sock[n]) = 0
  BY EmptySeq DEF Init
<1>3. SocksTimely(sock, Drained)
  BY <1>2 DEF SocksTimely
<1> QED  BY <1>1, <1>3, Zenon DEF Timely

\* A message is broadcast at age zero.
LEMMA BroadcastTimely ==
  ASSUME IInv, Timely, NEW m \in Uuids, Broadcast(m)
  PROVE  Timely'
<1> DEFINE n == Sender[m]
           d == [uuid |-> m, ttl |-> DefaultTtl]
<1>1. n \in Nodes /\ DefaultTtl \in 0..DefaultTtl /\ Retention \in Nat
  BY TopologyAssumption, ParameterAssumption
<1>2. sentAge[m] = 0 /\ UNCHANGED <<phase, todo, sfAge, ticked, sentAge>>
  BY Zenon DEF Broadcast, IInv, UnsentAge
<1>3. sentAge[m] + Retention < Lifetime(DefaultTtl) /\ sentAge[m] < Lifetime(DefaultTtl)
  <2>1. Lifetime(DefaultTtl) = Retention + 1
    BY <1>1, LifetimeStep, Zenon
  <2> QED  BY <1>1, <1>2, <2>1
<1>4. d \in Datagram /\ d.uuid = m /\ d.ttl = DefaultTtl
  BY <1>1 DEF Datagram
<1>5. /\ sock \in [Nodes -> Seq(Datagram)] /\ store \in [Nodes -> SUBSET Row]
      /\ sentAge \in [Uuids -> 0..AgeCap]
  BY Zenon DEF IInv, TypeOK
<1>6. SocksTimely(sock', Drained)
  <2>1. sock' \in forward_to_peers(sock, n, d)
    BY Zenon DEF Broadcast, Wire
  <2>2. SocksTimely(sock, Drained)
    BY Zenon DEF Timely
  <2> HIDE DEF d, n
  <2> QED  BY <1>1, <1>3, <1>4, <1>5, <2>1, <2>2, ForwardTimely, ZenonT(60)
<1>7. RowsTimely(store', ticked)
  <2>1. PICK rows \in StoreOutcomes(store[n], m, DefaultTtl) : store' = [store EXCEPT ![n] = rows]
    BY ZenonT(60) DEF Broadcast
  <2>2. RowsTimely(store, ticked)
    BY Zenon DEF Timely
  <2> HIDE DEF n
  <2> QED  BY <1>1, <1>3, <1>5, <2>1, <2>2, StoreTimely, ZenonT(60)
<1> QED  BY <1>2, <1>6, <1>7, ZenonT(60)
         DEF Timely, SfInSecond, RowsTimely, SocksTimely, Drained, RebroadcastDue

\* A copy that is read in time is kept and forwarded in time.
LEMMA ReceiveTimely ==
  ASSUME IInv, Timely, NEW n \in Nodes, Receive(n)
  PROVE  Timely'
<1> DEFINE d == Head(sock[n])
           q == [sock EXCEPT ![n] = Tail(@)]
<1>1. /\ bc_router_receive(n, d, q) /\ sock[n] # <<>>
      /\ UNCHANGED <<phase, todo, sfAge, ticked, sentAge>>
  BY ZenonT(60) DEF Receive, udp_recv
<1>2. /\ sock \in [Nodes -> Seq(Datagram)] /\ store \in [Nodes -> SUBSET Row]
      /\ sentAge \in [Uuids -> 0..AgeCap]
      /\ SocksTimely(sock, Drained) /\ RowsTimely(store, ticked)
  BY Zenon DEF IInv, TypeOK, Timely
<1>3. q \in [Nodes -> Seq(Datagram)] /\ d \in Datagram
  BY <1>1, <1>2, PopType, Zenon
<1>4. SocksTimely(q, Drained) /\ sentAge[d.uuid] <= Lifetime(d.ttl)
  BY <1>1, <1>2, PopTimely, Zenon
<1> HIDE DEF d, q
<1>5. d.uuid \in Uuids /\ d.ttl \in 0..DefaultTtl
  BY <1>3 DEF Datagram
<1>6. SocksTimely(sock', Drained) /\ RowsTimely(store', ticked)
  <2>1. CASE sock' = q /\ store' = store
    BY <1>2, <1>4, <2>1, Zenon
  <2>2. CASE /\ ~TtlExpired(d.ttl)
             /\ \E rows \in StoreOutcomes(store[n], d.uuid, HopTtl(d.ttl)) :
                    store' = [store EXCEPT ![n] = rows]
             /\ sock' \in forward_to_peers(q, n, Wire(d.uuid, HopTtl(d.ttl)))
    <3> DEFINE t == HopTtl(d.ttl)
               c == [uuid |-> d.uuid, ttl |-> t]
    <3>1. t = d.ttl - 1 /\ t \in 0..DefaultTtl
      BY <1>5, <2>2, ParameterAssumption DEF TtlExpired, HopTtl
    <3>2. sentAge[d.uuid] + Retention < Lifetime(t) /\ sentAge[d.uuid] < Lifetime(t)
      <4>1. Lifetime(d.ttl) \in Int /\ Lifetime(d.ttl - 1) = Lifetime(d.ttl) + Retention + 1
        BY <1>5, LifetimeStep, Zenon
      <4>2. Lifetime(t) = Lifetime(d.ttl) + Retention + 1
        BY <3>1, <4>1, Zenon
      <4>3. sentAge[d.uuid] \in 0..AgeCap
        BY <1>2, <1>5, Zenon
      <4>4. sentAge[d.uuid] \in Nat /\ Retention \in Nat
        BY <4>3, ParameterAssumption
      <4> HIDE DEF t
      <4> QED  BY <1>4, <4>1, <4>2, <4>4
    <3> HIDE DEF t
    <3>3. c \in Datagram /\ c.uuid = d.uuid /\ c.ttl = t
      BY <1>5, <3>1 DEF Datagram
    <3>4. sock' \in forward_to_peers(q, n, c)
      BY <2>2, Zenon DEF t, Wire
    <3> HIDE DEF c
    <3>5. SocksTimely(sock', Drained)
      BY <1>2, <1>3, <1>4, <3>2, <3>3, <3>4, ForwardTimely, ZenonT(60)
    <3>6. PICK rows \in StoreOutcomes(store[n], d.uuid, t) : store' = [store EXCEPT ![n] = rows]
      BY <2>2, ZenonT(60) DEF t
    <3>7. RowsTimely(store', ticked)
      BY <1>2, <1>5, <3>1, <3>2, <3>6, StoreTimely, ZenonT(60)
    <3> QED  BY <3>5, <3>7, Zenon
  <2> QED  BY <1>1, <2>1, <2>2, ZenonT(60) DEF bc_router_receive
<1> QED  BY <1>1, <1>6, ZenonT(60)
         DEF Timely, SfInSecond, RowsTimely, SocksTimely, Drained, RebroadcastDue

\* A node that finishes a tick keeps its valid rows only.
LEMMA FinishTickTimely ==
  ASSUME IInv, Timely, Prompt, NEW n \in Nodes, FinishTick(n)
  PROVE  /\ RowsTimely(store', ticked')
         /\ ticked' = ticked \cup {n}
         /\ phase' = [phase EXCEPT ![n] = "idle"]
<1>1. ticked' = ticked \cup {n} /\ phase' = [phase EXCEPT ![n] = "idle"]
  BY Zenon DEF FinishTick
<1>2. store' = [store EXCEPT ![n] = evict_expired(store[n])] /\ store \in [Nodes -> SUBSET Row]
  BY Zenon DEF FinishTick, IInv, TypeOK
<1>3. /\ \A r \in store'[n] : r \in store[n] /\ r.left >= 0
      /\ \A p \in Nodes : p # n => store'[p] = store[p]
  BY <1>2, ZenonT(60) DEF evict_expired
<1>4. RowsTimely(store, ticked)
  BY Zenon DEF Timely
<1>5. ASSUME NEW p \in Nodes, NEW r \in store'[p]
      PROVE  sentAge[r.uuid] + r.left < Lifetime(r.ttl) /\ (p \in ticked' => r.left >= 0)
  <2>1. CASE p = n
    BY <1>3, <1>4, <2>1, Zenon DEF RowsTimely
  <2>2. CASE p # n
    <3>1. r \in store[p] /\ (p \in ticked' => p \in ticked)
      BY <1>1, <1>3, <2>2, Zenon
    <3> QED  BY <1>4, <3>1, Zenon DEF RowsTimely
  <2> QED  BY <2>1, <2>2, Zenon
<1> QED  BY <1>1, <1>5, Zenon DEF RowsTimely

\* What get_pending returns is still valid.
LEMMA QueryTimely ==
  ASSUME IInv, Timely, NEW n \in Nodes, NEW d \in get_pending(store[n])
  PROVE  sentAge[d.uuid] < Lifetime(d.ttl)
<1>1. PICK r \in store[n] : d = [uuid |-> r.uuid, ttl |-> r.ttl] /\ r.left >= 0
  BY Zenon DEF get_pending
<1>2. r \in Row
  BY Zenon DEF IInv, TypeOK
<1>3. r.uuid \in Uuids /\ r.ttl \in 0..DefaultTtl /\ r.left \in Int
  BY <1>2, ParameterAssumption DEF Row
<1>4. sentAge[r.uuid] + r.left < Lifetime(r.ttl)
  BY Zenon DEF Timely, RowsTimely
<1>5. sentAge[r.uuid] \in 0..AgeCap /\ Lifetime(r.ttl) \in Int
  BY <1>3, LifetimeStep, Zenon DEF IInv, TypeOK
<1>6. sentAge[r.uuid] < Lifetime(r.ttl)
  <2>1. sentAge[r.uuid] \in Int
    BY <1>5, ParameterAssumption
  <2> QED  BY <1>1, <1>3, <1>4, <1>5, <2>1
<1>7. d.uuid = r.uuid /\ d.ttl = r.ttl
  BY <1>1
<1> QED  BY <1>6, <1>7, Zenon

\* A drained buffer is in time whoever has ticked.
LEMMA EmptyTimely ==
  ASSUME NEW B, NEW n \in Nodes, NEW q, SocksTimely(q, B), q[n] = <<>>
  PROVE  SocksTimely(q, B \cup {n})
<1>1. Len(q[n]) = 0
  BY EmptySeq
<1>2. \A i \in 1..Len(q[n]) : FALSE
  BY <1>1
<1> QED  BY <1>2, ZenonT(60) DEF SocksTimely

\* The buffers are as good for fewer nodes.
LEMMA FewerTimely ==
  ASSUME NEW B, NEW C, C \subseteq B, NEW q, SocksTimely(q, B)
  PROVE  SocksTimely(q, C)
  BY Zenon DEF SocksTimely

\* A node queries its table when its buffer is empty and a rebroadcast is due.
LEMMA QueryPendingTimely ==
  ASSUME IInv, Timely, Prompt, NEW n \in Nodes, QueryPending(n)
  PROVE  Timely'
<1>1. /\ phase[n] = "recv" /\ sock[n] = <<>> /\ RebroadcastDue(n)
      /\ sfAge' = [sfAge EXCEPT ![n] = 0]
      /\ todo' = [todo EXCEPT ![n] = get_pending(store[n])]
      /\ UNCHANGED <<sock, sentAge>>
      /\ \/ todo'[n] = {} /\ FinishTick(n)
         \/ /\ todo'[n] # {} /\ phase' = [phase EXCEPT ![n] = "sf"]
            /\ UNCHANGED <<store, ticked>>
  BY ZenonT(60) DEF QueryPending
<1>2. n \notin ticked
  BY <1>1, Zenon DEF Timely, SfInSecond
<1>3. /\ todo \in [Nodes -> SUBSET Datagram] /\ sfAge \in [Nodes -> 0..SfInterval]
      /\ phase \in [Nodes -> {"down", "idle", "recv", "sf"}]
  BY Zenon DEF IInv, TypeOK
<1>4. /\ sfAge'[n] < SfInterval
      /\ \A p \in Nodes : p # n => sfAge'[p] = sfAge[p] /\ todo'[p] = todo[p]
      /\ todo'[n] = get_pending(store[n])
  <2>1. sfAge'[n] = 0 /\ 0 < SfInterval
    BY <1>1, <1>3, ParameterAssumption
  <2> QED  BY <1>1, <1>3, <2>1, ZenonT(60)
<1>5. \A d \in todo'[n] : sentAge'[d.uuid] < Lifetime(d.ttl)
  BY <1>1, <1>4, QueryTimely, Zenon
<1>6. SocksTimely(sock, Drained \cup {n})
  BY <1>1, EmptyTimely, Zenon DEF Timely
<1>7. CASE todo'[n] = {} /\ FinishTick(n)
  <2>1. /\ RowsTimely(store', ticked')
        /\ ticked' = ticked \cup {n} /\ phase' = [phase EXCEPT ![n] = "idle"]
    BY <1>7, FinishTickTimely, Zenon
  <2>2. phase'[n] = "idle" /\ \A p \in Nodes : p # n => phase'[p] = phase[p]
    BY <1>3, <2>1, Zenon
  <2>3. Drained' \subseteq Drained \cup {n}
    BY <2>1, <2>2, ZenonT(60) DEF Drained
  <2>4. SocksTimely(sock, Drained')
    BY <1>6, <2>3, FewerTimely, Zenon
  <2>5. SfInSecond'
    <3>1. ~RebroadcastDue(n)'
      <4>1. sfAge'[n] = 0
        BY <1>1, <1>3, Zenon
      <4> QED  BY <4>1, ParameterAssumption DEF RebroadcastDue
    <3> QED  BY <1>1, <1>4, <1>5, <1>7, <2>1, <2>2, <3>1, ZenonT(60)
             DEF Timely, SfInSecond, RebroadcastDue
  <2> QED  BY <1>1, <2>1, <2>4, <2>5, Zenon DEF Timely, RowsTimely, SocksTimely
<1>8. CASE phase' = [phase EXCEPT ![n] = "sf"] /\ UNCHANGED <<store, ticked>>
  <2>1. phase'[n] = "sf" /\ \A p \in Nodes : p # n => phase'[p] = phase[p]
    BY <1>3, <1>8, Zenon
  <2>2. Drained' \subseteq Drained \cup {n}
    BY <1>8, <2>1, ZenonT(60) DEF Drained
  <2>3. SocksTimely(sock, Drained')
    BY <1>6, <2>2, FewerTimely, Zenon
  <2>4. SfInSecond'
    BY <1>1, <1>2, <1>4, <1>5, <1>8, <2>1, ZenonT(60) DEF Timely, SfInSecond, RebroadcastDue
  <2> QED  BY <1>1, <1>8, <2>3, <2>4, Zenon DEF Timely, RowsTimely, SocksTimely
<1> QED  BY <1>1, <1>7, <1>8, Zenon

\* A tick without rebroadcast ends with an empty buffer.
LEMMA SkipPendingTimely ==
  ASSUME IInv, Timely, Prompt, NEW n \in Nodes, SkipPending(n)
  PROVE  Timely'
<1>1. /\ phase[n] = "recv" /\ sock[n] = <<>> /\ ~RebroadcastDue(n) /\ FinishTick(n)
      /\ UNCHANGED <<sock, todo, sfAge, sentAge>>
  BY Zenon DEF SkipPending
<1>2. /\ RowsTimely(store', ticked')
      /\ ticked' = ticked \cup {n} /\ phase' = [phase EXCEPT ![n] = "idle"]
  BY <1>1, FinishTickTimely, Zenon
<1>3. phase'[n] = "idle" /\ \A p \in Nodes : p # n => phase'[p] = phase[p]
  BY <1>2, Zenon DEF IInv, TypeOK
<1>4. SocksTimely(sock, Drained \cup {n})
  BY <1>1, EmptyTimely, Zenon DEF Timely
<1>5. Drained' \subseteq Drained \cup {n}
  BY <1>2, <1>3, ZenonT(60) DEF Drained
<1>6. SocksTimely(sock, Drained')
  BY <1>4, <1>5, FewerTimely, Zenon
<1>7. "recv" # "sf"
  OBVIOUS
<1>8. SfInSecond'
  BY <1>1, <1>2, <1>3, <1>7, ZenonT(60) DEF Timely, SfInSecond, RebroadcastDue
<1> QED  BY <1>1, <1>2, <1>6, <1>8, Zenon DEF Timely, RowsTimely, SocksTimely

\* A rebroadcast is over in the second in which the rows were read.
LEMMA RebroadcastTimely ==
  ASSUME IInv, Timely, Prompt, NEW n \in Nodes, Rebroadcast(n)
  PROVE  Timely'
<1>1. PICK d \in todo[n] : /\ sock' \in forward_to_peers(sock, n, d)
                           /\ todo' = [todo EXCEPT ![n] = @ \ {d}]
  BY ZenonT(60) DEF Rebroadcast
<1>2. /\ phase[n] = "sf" /\ UNCHANGED <<sfAge, sentAge>>
      /\ \/ todo'[n] = {} /\ FinishTick(n)
         \/ todo'[n] # {} /\ UNCHANGED <<phase, store, ticked>>
  BY ZenonT(60) DEF Rebroadcast
<1>3. /\ todo \in [Nodes -> SUBSET Datagram] /\ sock \in [Nodes -> Seq(Datagram)]
      /\ phase \in [Nodes -> {"down", "idle", "recv", "sf"}]
      /\ sentAge \in [Uuids -> 0..AgeCap]
  BY Zenon DEF IInv, TypeOK
<1>4. d \in Datagram /\ sentAge[d.uuid] < Lifetime(d.ttl)
  BY <1>3, Zenon DEF Timely, SfInSecond
<1>5. SocksTimely(sock', Drained)
  BY <1>1, <1>3, <1>4, ForwardTimely, Zenon DEF Timely
<1>6. n \in Drained /\ ~RebroadcastDue(n)
  <2>1. sfAge[n] \in 0..SfInterval /\ sfAge[n] < SfInterval
    BY <1>2, Zenon DEF IInv, TypeOK, Timely, SfInSecond
  <2>2. ~(sfAge[n] >= SfInterval)
    BY <2>1, ParameterAssumption
  <2> QED  BY <1>2, <2>2, Zenon DEF Drained, RebroadcastDue
<1>7. todo'[n] \subseteq todo[n] /\ \A p \in Nodes : p # n => todo'[p] = todo[p]
  BY <1>1, <1>3, ZenonT(60)
<1>8. CASE todo'[n] = {} /\ FinishTick(n)
  <2>1. /\ RowsTimely(store', ticked')
        /\ ticked' = ticked \cup {n} /\ phase' = [phase EXCEPT ![n] = "idle"]
    BY <1>8, FinishTickTimely, Zenon
  <2>2. phase'[n] = "idle" /\ \A p \in Nodes : p # n => phase'[p] = phase[p]
    BY <1>3, <2>1, Zenon
  <2>3. Drained' \subseteq Drained
    BY <1>6, <2>1, <2>2, ZenonT(60) DEF Drained
  <2>4. SocksTimely(sock', Drained')
    BY <1>5, <2>3, FewerTimely, Zenon
  <2>5. "idle" # "sf"
    OBVIOUS
  <2>6. SfInSecond'
    BY <1>2, <1>6, <1>7, <1>8, <2>1, <2>2, <2>5, ZenonT(60) DEF Timely, SfInSecond, RebroadcastDue
  <2> QED  BY <1>2, <2>1, <2>4, <2>6, Zenon DEF Timely, RowsTimely, SocksTimely
<1>9. CASE UNCHANGED <<phase, store, ticked>>
  <2>1. SfInSecond'
    BY <1>2, <1>7, <1>9, ZenonT(60) DEF Timely, SfInSecond, RebroadcastDue
  <2>2. Drained' = Drained
    BY <1>9, Zenon DEF Drained
  <2> QED  BY <1>2, <1>5, <1>9, <2>1, <2>2, Zenon DEF Timely, RowsTimely, SocksTimely
<1> QED  BY <1>2, <1>8, <1>9, Zenon

\* A process that dies leaves its rows.
LEMMA CrashTimely ==
  ASSUME IInv, Timely, NEW n \in Nodes, Crash(n)
  PROVE  Timely'
<1>1. /\ phase' = [phase EXCEPT ![n] = "down"] /\ sock' = [sock EXCEPT ![n] = <<>>]
      /\ todo' = [todo EXCEPT ![n] = {}] /\ sfAge' = [sfAge EXCEPT ![n] = SfInterval]
      /\ ticked' = ticked \ {n} /\ UNCHANGED <<store, sentAge>>
  BY Zenon DEF Crash
<1>2. /\ phase'[n] = "down" /\ sock'[n] = <<>> /\ todo'[n] = {}
      /\ \A p \in Nodes : p # n => /\ phase'[p] = phase[p] /\ sock'[p] = sock[p]
                                   /\ todo'[p] = todo[p] /\ sfAge'[p] = sfAge[p]
  BY <1>1, ZenonT(60) DEF IInv, TypeOK
<1>3. "down" # "sf"
  OBVIOUS
<1>4. SfInSecond'
  BY <1>1, <1>2, <1>3, ZenonT(60) DEF Timely, SfInSecond, RebroadcastDue
<1>5. RowsTimely(store', ticked')
  BY <1>1, ZenonT(60) DEF Timely, RowsTimely
<1>6. \A i \in 1..Len(sock'[n]) : FALSE
  <2>1. Len(sock'[n]) = 0
    BY <1>2, EmptySeq
  <2> QED  BY <2>1
<1>7. \A p \in Nodes : p \in Drained' => p \in Drained
  BY <1>1, <1>2, <1>3, ZenonT(60) DEF Drained
<1>8. SocksTimely(sock', Drained')
  BY <1>2, <1>6, <1>7, ZenonT(60) DEF Timely, SocksTimely
<1> QED  BY <1>1, <1>4, <1>5, <1>8, Zenon DEF Timely, RowsTimely, SocksTimely

\* No tick is under way when a second passes.
LEMMA SecondTimely ==
  ASSUME IInv, Timely, Prompt, Second
  PROVE  Timely'
<1>1. /\ ticked = Nodes /\ ticked' = {} /\ UNCHANGED <<sock, phase, todo>>
      /\ store' = [n \in Nodes |->
                      {[r EXCEPT !.left = IF @ >= 0 THEN @ - 1 ELSE @] : r \in store[n]}]
      /\ sentAge' = [m \in Uuids |-> IF m \in sent /\ sentAge[m] < AgeCap
                                     THEN sentAge[m] + 1 ELSE sentAge[m]]
  BY Zenon DEF Second
<1>2. \A n \in Nodes : phase[n] # "sf" /\ todo[n] = {}
  BY <1>1, Zenon DEF Timely, SfInSecond
<1>3. SfInSecond'
  BY <1>1, <1>2, Zenon DEF SfInSecond
<1>4. ASSUME NEW m \in Uuids  PROVE sentAge[m] \in Int /\ sentAge'[m] \in Int /\ sentAge'[m] <= sentAge[m] + 1
  <2>1. sentAge[m] \in 0..AgeCap
    BY Zenon DEF IInv, TypeOK
  <2>2. sentAge'[m] = sentAge[m] + 1 \/ sentAge'[m] = sentAge[m]
    BY <1>1, ZenonT(60)
  <2> QED  BY <2>1, <2>2, ParameterAssumption
<1>5. ASSUME NEW n \in Nodes, NEW c \in store'[n]
      PROVE  sentAge'[c.uuid] + c.left < Lifetime(c.ttl)
  <2>1. PICK r \in store[n] : c = [r EXCEPT !.left = IF @ >= 0 THEN @ - 1 ELSE @]
    BY <1>1, ZenonT(60)
  <2>2. r \in Row
    BY Zenon DEF IInv, TypeOK
  <2>3. r.uuid \in Uuids /\ r.ttl \in 0..DefaultTtl /\ r.left \in Int
    BY <2>2, ParameterAssumption DEF Row
  <2>4. sentAge[r.uuid] + r.left < Lifetime(r.ttl) /\ r.left >= 0
    BY <1>1, Zenon DEF Timely, RowsTimely
  <2>5. c.uuid = r.uuid /\ c.ttl = r.ttl /\ c.left = r.left - 1
    BY <2>1, <2>2, <2>4 DEF Row
  <2>6. Lifetime(r.ttl) \in Int
    BY <2>3, LifetimeStep, Zenon
  <2>7. sentAge'[r.uuid] + (r.left - 1) < Lifetime(r.ttl)
    <3>1. /\ sentAge[r.uuid] \in Int /\ sentAge'[r.uuid] \in Int
          /\ sentAge'[r.uuid] <= sentAge[r.uuid] + 1
      BY <1>4, <2>3, Zenon
    <3> QED  BY <2>3, <2>4, <2>6, <3>1
  <2> QED  BY <2>5, <2>7, Zenon
<1>6. ASSUME NEW n \in Nodes, NEW i \in 1..Len(sock[n])
      PROVE  sentAge'[sock[n][i].uuid] <= Lifetime(sock[n][i].ttl)
  <2> DEFINE c == sock[n][i]
  <2>1. n \in Drained
    BY <1>1, Zenon DEF Drained
  <2>2. sentAge[c.uuid] < Lifetime(c.ttl)
    BY <2>1, Zenon DEF Timely, SocksTimely
  <2>3. c \in Datagram
    <3>1. sock[n] \in Seq(Datagram)
      BY Zenon DEF IInv, TypeOK
    <3> QED  BY <3>1
  <2> HIDE DEF c
  <2>4. c.uuid \in Uuids /\ c.ttl \in 0..DefaultTtl
    BY <2>3 DEF Datagram
  <2>5. Lifetime(c.ttl) \in Int
    BY <2>4, LifetimeStep, Zenon
  <2>6. sentAge'[c.uuid] <= Lifetime(c.ttl)
    <3>1. /\ sentAge[c.uuid] \in Int /\ sentAge'[c.uuid] \in Int
          /\ sentAge'[c.uuid] <= sentAge[c.uuid] + 1
      BY <1>4, <2>4, Zenon
    <3> QED  BY <2>2, <2>5, <3>1
  <2> QED  BY <2>6, Zenon DEF c
<1>7. \A n \in Nodes : n \notin Drained'
  BY <1>1, <1>2, Zenon DEF Drained
<1> QED  BY <1>1, <1>3, <1>5, <1>6, <1>7, ZenonT(60) DEF Timely, RowsTimely, SocksTimely

\* Every step keeps the copies in time.
LEMMA NextTimely == IInv /\ Timely /\ Prompt /\ [Next]_vars => Timely'
<1> SUFFICES ASSUME IInv, Timely, Prompt, [Next]_vars PROVE Timely'
  BY Zenon
<1>1. ASSUME NEW m \in Uuids, Broadcast(m) PROVE Timely'
  BY <1>1, BroadcastTimely, Zenon
<1>2. ASSUME NEW n \in Nodes, TickBegin(n) \/ Start(n) PROVE Timely'
  <2>1. /\ phase' = [phase EXCEPT ![n] = "recv"] \/ phase' = [phase EXCEPT ![n] = "idle"]
        /\ phase[n] = "idle" \/ phase[n] = "down"
        /\ UNCHANGED <<store, sock, todo, sfAge, ticked, sentAge>>
    BY <1>2, Zenon DEF TickBegin, Start
  <2>2. "recv" # "sf" /\ "idle" # "sf" /\ "down" # "sf"
    OBVIOUS
  <2>3. /\ \A p \in Nodes : phase'[p] = "sf" <=> phase[p] = "sf"
        /\ phase \in [Nodes -> {"down", "idle", "recv", "sf"}]
    BY <2>1, <2>2, ZenonT(60) DEF IInv, TypeOK
  <2>4. Drained' = Drained
    BY <2>1, <2>3, ZenonT(60) DEF Drained
  <2> QED  BY <2>1, <2>3, <2>4, ZenonT(60)
           DEF Timely, SfInSecond, RowsTimely, SocksTimely, RebroadcastDue
<1>3. ASSUME NEW n \in Nodes, Receive(n) PROVE Timely'
  BY <1>3, ReceiveTimely, Zenon
<1>4. ASSUME NEW n \in Nodes, QueryPending(n) PROVE Timely'
  BY <1>4, QueryPendingTimely, Zenon
<1>5. ASSUME NEW n \in Nodes, SkipPending(n) PROVE Timely'
  BY <1>5, SkipPendingTimely, Zenon
<1>6. ASSUME NEW n \in Nodes, Rebroadcast(n) PROVE Timely'
  BY <1>6, RebroadcastTimely, Zenon
<1>7. ASSUME NEW n \in Nodes, Crash(n) PROVE Timely'
  BY <1>7, CrashTimely, Zenon
<1>8. CASE Second
  BY <1>8, SecondTimely, Zenon
<1>9. CASE UNCHANGED vars
  BY <1>9, ZenonT(60)
  DEF vars, Timely, SfInSecond, RowsTimely, SocksTimely, Drained, RebroadcastDue
<1> QED
  BY <1>1, <1>2, <1>3, <1>4, <1>5, <1>6, <1>7, <1>8, <1>9, Zenon DEF Next, TickThread

\* If every node finishes a tick in every second, every copy of a message is
\* gone (DefaultTtl + 1) * (Retention + 1) seconds after its broadcast at the
\* latest, and the higher its ttl the sooner, in a mesh of any shape, with
\* losses, failing inserts, crashes and dedup tables of any size.
THEOREM DiesOutHolds == Spec => []DiesOut
<1> DEFINE T == Prompt => Timely
<1>1. Init => T
  BY InitTimely, Zenon
<1>2. IInv /\ T /\ [Next]_vars => T'
  BY NextTimely, Zenon
<1>3. ASSUME IInv, Prompt => Timely PROVE DiesOut
  <2> SUFFICES ASSUME Timely, NEW n \in Nodes
               PROVE  /\ \A c \in store[n] \cup todo[n] : sentAge[c.uuid] <= Lifetime(c.ttl)
                      /\ \A i \in 1..Len(sock[n]) :
                            sentAge[sock[n][i].uuid] <= Lifetime(sock[n][i].ttl)
    BY <1>3, Zenon DEF DiesOut
  <2>1. ASSUME NEW c \in store[n] \cup todo[n] PROVE sentAge[c.uuid] <= Lifetime(c.ttl)
    <3>1. CASE c \in store[n]
      <4>1. c \in Row
        BY <1>3, <3>1, Zenon DEF IInv, TypeOK
      <4>2. c.uuid \in Uuids /\ c.ttl \in 0..DefaultTtl /\ c.left \in Int /\ c.left >= -1
        BY <4>1, ParameterAssumption DEF Row
      <4>3. sentAge[c.uuid] + c.left < Lifetime(c.ttl)
        BY <3>1, Zenon DEF Timely, RowsTimely
      <4>4. sentAge[c.uuid] \in 0..AgeCap /\ Lifetime(c.ttl) \in Int
        BY <1>3, <4>2, LifetimeStep, Zenon DEF IInv, TypeOK
      <4>5. sentAge[c.uuid] \in Int
        BY <4>4, ParameterAssumption
      <4> QED  BY <4>2, <4>3, <4>4, <4>5
    <3>2. CASE c \in todo[n]
      <4>1. sentAge[c.uuid] < Lifetime(c.ttl) /\ c \in Datagram
        BY <1>3, <3>2, Zenon DEF Timely, SfInSecond, IInv, TypeOK
      <4>2. c.uuid \in Uuids /\ c.ttl \in 0..DefaultTtl
        BY <4>1 DEF Datagram
      <4>3. sentAge[c.uuid] \in 0..AgeCap /\ Lifetime(c.ttl) \in Int
        BY <1>3, <4>2, LifetimeStep, Zenon DEF IInv, TypeOK
      <4>4. sentAge[c.uuid] \in Int
        BY <4>3, ParameterAssumption
      <4> QED  BY <4>1, <4>3, <4>4
    <3> QED  BY <3>1, <3>2, Zenon
  <2>2. \A i \in 1..Len(sock[n]) : sentAge[sock[n][i].uuid] <= Lifetime(sock[n][i].ttl)
    BY Zenon DEF Timely, SocksTimely
  <2> QED  BY <2>1, <2>2, Zenon
<1>4. IInv /\ T => DiesOut
  BY <1>3, Zenon
<1> HIDE DEF T
<1> QED  BY <1>1, <1>2, <1>4, InvariantHolds, PTL DEF Spec

=============================================================================
