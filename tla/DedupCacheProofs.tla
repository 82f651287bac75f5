-------------------------- MODULE DedupCacheProofs --------------------------
(***************************************************************************)
(* What the dedup cache guarantees for every capacity, every hash function *)
(* and every age limit.  The invariant needed beside the types says that   *)
(* every occupied slot holds a UUID that was inserted, and, until an       *)
(* eviction frees a slot, that the slots before it in its probe sequence   *)
(* are occupied too.                                                       *)
(***************************************************************************)
EXTENDS DedupCache, TLAPS

\* s holds its UUID where the probe for that UUID gets to it.
Reachable(t, s) == \E i \in Slots : /\ s = Slot(t[s].uuid, i)
                                    /\ \A j \in 0..(i - 1) : t[Slot(t[s].uuid, j)].occupied

\* Every occupied slot holds a UUID that was inserted.
HoldsSeen == \A s \in Slots : table[s].occupied => table[s].uuid \in seen

\* Before the first freeing eviction every occupied slot is reachable.
Chains == ~freed => \A s \in Slots : table[s].occupied => Reachable(table, s)

IInv == TypeOK /\ HoldsSeen /\ Chains

\* A probe stays inside the table.
LEMMA SlotType == \A u \in Uuids, i \in Slots : Slot(u, i) \in Slots
  BY CapAssumption, HashAssumption DEF Slot, Slots

\* So do the probes before it.
LEMMA EarlierSlots == \A u \in Uuids, i \in Slots : \A j \in 0..(i - 1) : Slot(u, j) \in Slots
  BY CapAssumption, SlotType DEF Slots

\* The zeroth probe is in range.
LEMMA ZeroSlot == 0 \in Slots
  BY CapAssumption DEF Slots

\* A probe reaches every slot of the table.
LEMMA ProbeCovers == \A u \in Uuids, s \in Slots : \E i \in Slots : s = Slot(u, i)
<1> SUFFICES ASSUME NEW u \in Uuids, NEW s \in Slots
             PROVE  \E i \in Slots : s = Slot(u, i)
  OBVIOUS
<1>0. Hash[u] \in 0..(Cap - 1) /\ Cap \in Nat
  BY HashAssumption, CapAssumption
<1>1. CASE s >= Hash[u]
  <2>1. s - Hash[u] \in Slots /\ s = Slot(u, s - Hash[u])
    BY <1>0, <1>1 DEF Slots, Slot
  <2> QED  BY <2>1
<1>2. CASE s < Hash[u]
  <2>1. s - Hash[u] + Cap \in Slots /\ s = Slot(u, s - Hash[u] + Cap)
    BY <1>0, <1>2 DEF Slots, Slot
  <2> QED  BY <2>1
<1> QED  BY <1>0, <1>1, <1>2 DEF Slots

\* dedup_insert writes inside the table, at a slot the new UUID's probe gets to
\* over occupied slots.
LEMMA InsertSlot ==
  ASSUME NEW t, NEW u \in Uuids, NEW stale, NEW s \in Slots, InsertsAt(t, u, stale, s)
  PROVE  \E i \in Slots : /\ s = Slot(u, i)
                          /\ \A j \in 0..(i - 1) : t[Slot(u, j)].occupied
<1>1. CASE \E i \in Slots : /\ s = Slot(u, i)
                            /\ Writable(t, stale, s)
                            /\ \A j \in 0..(i - 1) : ~Writable(t, stale, Slot(u, j))
  BY <1>1 DEF Writable
<1>2. CASE s = Slot(u, 0)
  <2>1. \A j \in 0..(0 - 1) : t[Slot(u, j)].occupied
    OBVIOUS
  <2> QED  BY <1>2, <2>1, ZeroSlot
<1> QED  BY <1>1, <1>2 DEF InsertsAt

-----------------------------------------------------------------------------

\* A free slot is an entry that holds nothing.
LEMMA FreeType == Free \in Entry /\ ~Free.occupied /\ Free.seen_at = 0
  BY ClockAssumption DEF Free, Entry

\* The table bc_router_create allocates satisfies the invariant.
LEMMA InitIInv == Init => IInv
<1> SUFFICES ASSUME Init PROVE IInv
  OBVIOUS
<1>0. 1 \in 1..MaxNow
  BY ClockAssumption
<1>1. TypeOK
  BY <1>0, FreeType, ZenonT(60) DEF Init, TypeOK
<1>2. HoldsSeen /\ Chains
  BY FreeType DEF Init, HoldsSeen, Chains
<1> QED  BY <1>1, <1>2 DEF IInv

\* Inserting a UUID, by a broadcast or by a receive, keeps the invariant.
LEMMA InsertIInv ==
  ASSUME IInv, NEW u \in Uuids, dedup_insert(u), seen' = seen \cup {u},
         UNCHANGED <<now, freed>>
  PROVE  IInv'
<1>1. PICK s \in Slots :
          /\ InsertsAt(table, u, Stale, s)
          /\ table' = [table EXCEPT ![s] = [occupied |-> TRUE, uuid |-> u, seen_at |-> now]]
  BY ZenonT(60) DEF dedup_insert
<1> DEFINE e == [occupied |-> TRUE, uuid |-> u, seen_at |-> now]
<1>2. e \in Entry /\ e.occupied /\ e.uuid = u
  BY DEF IInv, TypeOK, Entry
<1>3. /\ table \in [Slots -> Entry]
      /\ table'[s] = e
      /\ \A r \in Slots : r # s => table'[r] = table[r]
      /\ table' \in [Slots -> Entry]
  BY <1>1, <1>2 DEF IInv, TypeOK
<1> HIDE DEF e
<1>4. TypeOK'
  BY <1>3 DEF IInv, TypeOK
<1>5. HoldsSeen'
  BY <1>2, <1>3 DEF IInv, HoldsSeen
<1>6. Chains'
  <2> SUFFICES ASSUME ~freed, NEW r \in Slots, table'[r].occupied
               PROVE  Reachable(table', r)
    BY DEF Chains
  <2>1. \A q \in Slots : table[q].occupied => table'[q].occupied
    BY <1>2, <1>3
  <2>2. CASE r = s
    <3>1. PICK i \in Slots : /\ s = Slot(u, i)
                             /\ \A j \in 0..(i - 1) : table[Slot(u, j)].occupied
      BY <1>1, InsertSlot
    <3>2. \A j \in 0..(i - 1) : Slot(u, j) \in Slots
      BY EarlierSlots
    <3> QED  BY <1>2, <1>3, <2>1, <2>2, <3>1, <3>2 DEF Reachable
  <2>3. CASE r # s
    <3>1. table'[r] = table[r] /\ table[r].uuid \in Uuids
      BY <1>3, <2>3 DEF IInv, HoldsSeen, TypeOK
    <3>2. PICK i \in Slots : /\ r = Slot(table[r].uuid, i)
                             /\ \A j \in 0..(i - 1) : table[Slot(table[r].uuid, j)].occupied
      BY <3>1 DEF IInv, Chains, Reachable
    <3>3. \A j \in 0..(i - 1) : Slot(table[r].uuid, j) \in Slots
      BY <3>1, EarlierSlots
    <3> QED  BY <2>1, <3>1, <3>2, <3>3 DEF Reachable
  <2> QED  BY <2>2, <2>3
<1> QED  BY <1>4, <1>5, <1>6 DEF IInv

\* Every step keeps the invariant.
LEMMA NextIInv == IInv /\ [Next]_vars => IInv'
<1> SUFFICES ASSUME IInv, [Next]_vars PROVE IInv'
  OBVIOUS
<1>1. ASSUME NEW u \in Uuids, Broadcast(u) PROVE IInv'
  BY <1>1, InsertIInv DEF Broadcast
<1>2. ASSUME NEW u \in Uuids, Receive(u) PROVE IInv'
  BY <1>2, InsertIInv DEF Receive
<1>3. CASE Evict
  <2>1. /\ table' \in [Slots -> Entry]
        /\ \A s \in Slots : /\ s \notin Stale => table'[s] = table[s]
                            /\ s \in Stale => ~table'[s].occupied
    BY <1>3, FreeType DEF Evict, dedup_evict, IInv, TypeOK
  <2>2. TypeOK'
    BY <1>3, <2>1 DEF Evict, IInv, TypeOK
  <2>3. HoldsSeen'
    BY <1>3, <2>1 DEF Evict, IInv, HoldsSeen
  <2>4. Chains'
    <3> SUFFICES ASSUME ~freed' PROVE Chains'
      BY DEF Chains
    <3>1. ~freed /\ \A s \in Stale : ~table[s].occupied
      BY <1>3, ZenonT(60) DEF Evict, IInv, TypeOK
    <3>2. \A s \in Slots : table'[s].occupied = table[s].occupied
      <4>1. \A s \in Slots : table[s].occupied \in BOOLEAN /\ table'[s].occupied \in BOOLEAN
        BY <2>1 DEF IInv, TypeOK, Entry
      <4> QED  BY <2>1, <3>1, <4>1
    <3> SUFFICES ASSUME NEW r \in Slots, table'[r].occupied
                 PROVE  Reachable(table', r)
      BY DEF Chains
    <3>3. table[r].occupied /\ table'[r].uuid = table[r].uuid /\ table[r].uuid \in Uuids
      BY <2>1 DEF IInv, HoldsSeen, TypeOK
    <3>4. PICK i \in Slots : /\ r = Slot(table[r].uuid, i)
                             /\ \A j \in 0..(i - 1) : table[Slot(table[r].uuid, j)].occupied
      BY <3>1, <3>3 DEF IInv, Chains, Reachable
    <3>5. \A j \in 0..(i - 1) : Slot(table[r].uuid, j) \in Slots
      BY <3>3, EarlierSlots
    <3> QED  BY <3>2, <3>3, <3>4, <3>5 DEF Reachable
  <2> QED  BY <2>2, <2>3, <2>4 DEF IInv
<1>4. CASE AdvanceClock
  BY <1>4, ClockAssumption DEF AdvanceClock, IInv, TypeOK, HoldsSeen, Chains, Reachable
<1>5. CASE StepClockBack
  BY <1>5, ClockAssumption DEF StepClockBack, IInv, TypeOK, HoldsSeen, Chains, Reachable
<1>6. CASE UNCHANGED vars
  BY <1>6 DEF vars, IInv, TypeOK, HoldsSeen, Chains, Reachable
<1> QED  BY <1>1, <1>2, <1>3, <1>4, <1>5, <1>6 DEF Next

\* The invariant holds in every reachable state.
THEOREM InvariantHolds == Spec => []IInv
  BY InitIInv, NextIInv, PTL DEF Spec

\* Type correctness of the cache.
THEOREM TypeCorrect == Spec => []TypeOK
  BY InvariantHolds, PTL DEF IInv

\* dedup_contains never reports a UUID that was not inserted.
THEOREM NeverInventedHolds == Spec => []NeverInvented
<1>1. IInv => NeverInvented
  BY SlotType DEF IInv, HoldsSeen, NeverInvented, dedup_contains
<1> QED  BY <1>1, InvariantHolds, PTL

\* Until an eviction frees a slot, dedup_contains finds everything in the table.
THEOREM FoundUntilEvictionHolds == Spec => []FoundUntilEviction
<1>1. IInv => FoundUntilEviction
  BY DEF IInv, Chains, Reachable, FoundUntilEviction, dedup_contains
<1> QED  BY <1>1, InvariantHolds, PTL

-----------------------------------------------------------------------------

\* A step that writes a UUID into a slot is a broadcast or a receive, and
\* writes it at the slot dedup_insert chooses.
LEMMA InsertStep ==
  ASSUME IInv, [Next]_vars, NEW u \in Uuids, Inserts(u)
  PROVE  \E s \in Slots :
            /\ InsertsAt(table, u, Stale, s)
            /\ table'[s].occupied
            /\ table'[s].uuid = u
            /\ \A r \in Slots : r # s => table'[r] = table[r]
<1>1. ASSUME NEW v \in Uuids, dedup_insert(v)
      PROVE  \E s \in Slots :
                /\ InsertsAt(table, u, Stale, s)
                /\ table'[s].occupied
                /\ table'[s].uuid = u
                /\ \A r \in Slots : r # s => table'[r] = table[r]
  <2>1. PICK s \in Slots :
            /\ InsertsAt(table, v, Stale, s)
            /\ table' = [table EXCEPT ![s] = [occupied |-> TRUE, uuid |-> v, seen_at |-> now]]
    BY <1>1, ZenonT(60) DEF dedup_insert
  <2>2. /\ table'[s] = [occupied |-> TRUE, uuid |-> v, seen_at |-> now]
        /\ \A r \in Slots : r # s => table'[r] = table[r]
    BY <2>1 DEF IInv, TypeOK
  <2>3. u = v
    BY <2>2 DEF Inserts
  <2> QED  BY <2>1, <2>2, <2>3
<1>2. ~Evict
  <2> SUFFICES ASSUME Evict PROVE FALSE
    OBVIOUS
  <2>1. PICK s \in Slots : table'[s] # table[s] /\ table'[s].occupied
    BY DEF Inserts
  <2> QED  BY <2>1, FreeType DEF Evict, dedup_evict
<1>3. table' # table
  BY DEF Inserts
<1> QED
  BY <1>1, <1>2, <1>3 DEF Next, vars, Broadcast, Receive, AdvanceClock, StepClockBack

\* The UUID that was just inserted is found.
THEOREM InsertRemembersHolds == Spec => InsertRemembers
<1>1. ASSUME IInv, [Next]_vars, NEW u \in Uuids, Inserts(u)
      PROVE  dedup_contains(table', u)
  <2>1. PICK s \in Slots : /\ InsertsAt(table, u, Stale, s)
                           /\ table'[s].occupied
                           /\ table'[s].uuid = u
                           /\ \A r \in Slots : r # s => table'[r] = table[r]
    BY <1>1, InsertStep
  <2>2. PICK i \in Slots : /\ s = Slot(u, i)
                           /\ \A j \in 0..(i - 1) : table[Slot(u, j)].occupied
    BY <2>1, InsertSlot
  <2>3. \A j \in 0..(i - 1) : table'[Slot(u, j)].occupied
    BY <2>1, <2>2, EarlierSlots
  <2> QED  BY <2>1, <2>2, <2>3 DEF dedup_contains
<1>2. IInv /\ [Next]_vars => \A u \in Uuids : Inserts(u) => dedup_contains(table', u)
  BY <1>1
<1> QED  BY <1>2, InvariantHolds, PTL DEF Spec, InsertRemembers

\* An insertion that finds a free or expired slot forgets nothing fresh.
THEOREM InsertKeepsFreshHolds == Spec => InsertKeepsFresh
<1>1. ASSUME IInv, [Next]_vars, NEW u \in Uuids, Inserts(u), HasRoom,
             NEW v \in Uuids, FreshlyHeld(v)
      PROVE  dedup_contains(table', v)
  <2>1. PICK s \in Slots : /\ InsertsAt(table, u, Stale, s)
                           /\ table'[s].occupied
                           /\ table'[s].uuid = u
                           /\ \A r \in Slots : r # s => table'[r] = table[r]
    BY <1>1, InsertStep
  <2>2. Writable(table, Stale, s)
    <3>1. \E i \in Slots : Writable(table, Stale, Slot(u, i))
      BY <1>1, ProbeCovers DEF HasRoom
    <3> QED  BY <2>1, <3>1 DEF InsertsAt
  <2>3. PICK i \in Slots : /\ table[Slot(v, i)].occupied
                           /\ table[Slot(v, i)].uuid = v
                           /\ Slot(v, i) \notin Stale
                           /\ \A j \in 0..(i - 1) : table[Slot(v, j)].occupied
    BY <1>1 DEF FreshlyHeld
  <2>4. Slot(v, i) \in Slots /\ Slot(v, i) # s
    BY <2>2, <2>3, SlotType DEF Writable
  <2>5. \A j \in 0..(i - 1) : table'[Slot(v, j)].occupied
    BY <2>1, <2>3, EarlierSlots
  <2> QED  BY <2>1, <2>3, <2>4, <2>5 DEF dedup_contains
<1>2. IInv /\ [Next]_vars =>
         ((\E u \in Uuids : Inserts(u)) /\ HasRoom
             => \A v \in Uuids : FreshlyHeld(v) => dedup_contains(table', v))
  BY <1>1
<1> QED  BY <1>2, InvariantHolds, PTL DEF Spec, InsertKeepsFresh

-----------------------------------------------------------------------------

\* A recent entry is not expired.
LEMMA RecentIsFresh ==
  ASSUME TypeOK, NEW s \in Slots, Recent(s)
  PROVE  s \notin Stale
<1>1. table[s].seen_at \in Int /\ now \in Int
  BY DEF TypeOK, Entry
<1> QED  BY <1>1, ClockAssumption DEF Recent, Stale, Elapsed

\* Recent entries stay, unless the table is full of fresh entries.
THEOREM RecentStaysHolds == Spec => RecentStays
<1>1. ASSUME IInv, [Next]_vars, NEW s \in Slots, Recent(s), table'[s] # table[s]
      PROVE  ~HasRoom /\ \E u \in Uuids : Inserts(u)
  <2>1. s \notin Stale /\ table[s].occupied
    BY <1>1, RecentIsFresh DEF IInv, Recent
  <2>2. ASSUME NEW u \in Uuids, dedup_insert(u)
        PROVE  ~HasRoom /\ Inserts(u)
    <3>1. PICK r \in Slots :
              /\ InsertsAt(table, u, Stale, r)
              /\ table' = [table EXCEPT ![r] = [occupied |-> TRUE, uuid |-> u, seen_at |-> now]]
      BY <2>2, ZenonT(60) DEF dedup_insert
    <3>2. r = s /\ table'[s] = [occupied |-> TRUE, uuid |-> u, seen_at |-> now]
      BY <1>1, <3>1 DEF IInv, TypeOK
    <3>3. ~Writable(table, Stale, s)
      BY <2>1 DEF Writable
    <3>4. \A i \in Slots : ~Writable(table, Stale, Slot(u, i))
      BY <3>1, <3>2, <3>3 DEF InsertsAt
    <3>5. ~HasRoom
      BY <3>4, ProbeCovers DEF HasRoom
    <3> QED  BY <1>1, <3>2, <3>5 DEF Inserts
  <2>3. ~Evict
    BY <1>1, <2>1 DEF Evict, dedup_evict
  <2> QED  BY <1>1, <2>2, <2>3 DEF Next, vars, Broadcast, Receive, AdvanceClock, StepClockBack
<1>2. IInv /\ [Next]_vars =>
         \A s \in Slots : Recent(s) => \/ table'[s] = table[s]
                                       \/ ~HasRoom /\ \E u \in Uuids : Inserts(u)
  BY <1>1
<1> QED  BY <1>2, InvariantHolds, PTL DEF Spec, RecentStays

=============================================================================
