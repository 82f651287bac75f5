----------------------------- MODULE DedupCache -----------------------------
(***************************************************************************)
(* The router's dedup cache under its wall clock: DedupTable's operators   *)
(* driven by the only code that uses them (bc_router_broadcast,            *)
(* bc_router_receive and the first step of bc_router_tick), with time(2)   *)
(* as the clock.  Ages are the unsigned 64-bit difference now - seen_at of *)
(* the code, with Word in place of 2^64.                                   *)
(***************************************************************************)
EXTENDS DedupTable

CONSTANTS MaxAge,         \* config.dedup_max_age, in clock units
          Word,           \* 2^64: where an unsigned difference wraps
          MaxNow,         \* bound: the largest clock reading
          ClockStepsBack  \* may the wall clock be set back?

ASSUME ClockAssumption == /\ MaxAge \in Nat
                          /\ MaxNow \in Nat \ {0}
                          /\ Word \in Nat
                          /\ MaxNow < Word
                          /\ ClockStepsBack \in BOOLEAN

VARIABLES table,   \* router->dedup_table
          now,     \* time(NULL)
          seen,    \* every UUID a broadcast or a receive has inserted
          freed    \* has an eviction freed a slot yet?

vars == <<table, now, seen, freed>>

Entry == [occupied : BOOLEAN, uuid : Uuids \cup {"zero"}, seen_at : 0..MaxNow]

\* The type of every variable.
TypeOK == /\ table \in [Slots -> Entry]
          /\ now \in 1..MaxNow
          /\ seen \in SUBSET Uuids
          /\ freed \in BOOLEAN

\* Unsigned subtraction of two clock readings below Word.
Elapsed(a, b) == IF b <= a THEN a - b ELSE a - b + Word

\* A free slot, as calloc leaves it in bc_router_create.
Free == [occupied |-> FALSE, uuid |-> "zero", seen_at |-> 0]

\* Mutant of Stale: entries expire one unit early.
Stale_Early == {s \in Slots : Elapsed(now, table[s].seen_at) >= MaxAge}

\* The slots whose entry is older than dedup_max_age.
Stale == {s \in Slots : Elapsed(now, table[s].seen_at) > MaxAge}

Init == /\ table = [s \in Slots |-> Free]
        /\ now = 1
        /\ seen = {}
        /\ freed = FALSE

\* Mutant of dedup_insert: the time stamp is one unit ahead of the clock.
dedup_insert_Ahead(u) ==
    \E s \in Slots :
        /\ InsertsAt(table, u, Stale, s)
        /\ table' = [table EXCEPT ![s] = [occupied |-> TRUE, uuid |-> u, seen_at |-> now + 1]]

dedup_insert(u) ==
    \E s \in Slots :
        /\ InsertsAt(table, u, Stale, s)
        /\ table' = [table EXCEPT ![s] = [occupied |-> TRUE, uuid |-> u, seen_at |-> now]]

\* bc_router_broadcast marks its own message, whose UUID is freshly drawn.
Broadcast(u) == /\ u \notin seen
                /\ dedup_insert(u)
                /\ seen' = seen \cup {u}
                /\ UNCHANGED <<now, freed>>

\* bc_router_receive: a known UUID is dropped (nothing changes), a new one is
\* inserted before anything else is looked at.
Receive(u) == /\ ~dedup_contains(table, u)
              /\ dedup_insert(u)
              /\ seen' = seen \cup {u}
              /\ UNCHANGED <<now, freed>>

\* bc_router_tick, step 1.
Evict == /\ table' = dedup_evict(table, Stale, Free)
         /\ freed' = (freed \/ \E s \in Stale : table[s].occupied)
         /\ UNCHANGED <<now, seen>>

AdvanceClock == /\ now < MaxNow
                /\ now' = now + 1
                /\ UNCHANGED <<table, seen, freed>>

\* The wall clock is corrected backwards (NTP, the user).
StepClockBack == /\ ClockStepsBack
                 /\ now > 1
                 /\ now' = now - 1
                 /\ UNCHANGED <<table, seen, freed>>

Next == \/ \E u \in Uuids : Broadcast(u) \/ Receive(u)
        \/ Evict
        \/ AdvanceClock
        \/ StepClockBack

Spec == Init /\ [][Next]_vars

-----------------------------------------------------------------------------
(* Properties.                                                             *)

\* dedup_contains reports only UUIDs that were inserted before: a message the
\* node has never handled is not dropped as a duplicate, whatever collisions,
\* overwritings and evictions the table has been through.
NeverInvented == \A u \in Uuids : dedup_contains(table, u) => u \in seen

\* As long as no eviction has freed a slot, every UUID in the table is found:
\* insertion alone, overwritings of expired entries and of a full table
\* included, never breaks a probe sequence.
FoundUntilEviction ==
    ~freed => \A s \in Slots : table[s].occupied => dedup_contains(table, table[s].uuid)

\* The step writes u into a slot.
Inserts(u) == \E s \in Slots : /\ table'[s] # table[s]
                               /\ table'[s].occupied
                               /\ table'[s].uuid = u

\* Whatever holes evictions have left, the UUID just inserted is found at once:
\* a second copy in the same burst of datagrams is recognised.
InsertRemembers ==
    [][\A u \in Uuids : Inserts(u) => dedup_contains(table', u)]_vars

\* v is found, in an entry that is not expired.
FreshlyHeld(v) ==
    \E i \in Slots :
        /\ table[Slot(v, i)].occupied
        /\ table[Slot(v, i)].uuid = v
        /\ Slot(v, i) \notin Stale
        /\ \A j \in 0..(i - 1) : table[Slot(v, j)].occupied

HasRoom == \E s \in Slots : Writable(table, Stale, s)

\* While the table has a free or an expired slot, inserting one UUID never
\* makes the router forget another that is found and fresh.
InsertKeepsFresh ==
    [][(\E u \in Uuids : Inserts(u)) /\ HasRoom
          => \A v \in Uuids : FreshlyHeld(v) => dedup_contains(table', v)]_vars

\* Stamped neither too long ago nor, since the clock was set back, in the future.
Recent(s) == /\ table[s].occupied
             /\ table[s].seen_at <= now
             /\ now - table[s].seen_at <= MaxAge

\* No step touches a recent entry, except that an insertion into a table full
\* of fresh entries overwrites one: "Evict entries older than dedup_max_age"
\* takes no others, apart from those that a clock set back makes look old.
RecentStays ==
    [][\A s \in Slots : Recent(s) => \/ table'[s] = table[s]
                                     \/ ~HasRoom /\ \E u \in Uuids : Inserts(u)]_vars

\* A UUID that sits in the table in an entry that is not expired is recognised
\* as a duplicate (README, "Message Deduplication": a message whose UUID is
\* already in the set is dropped).
NoForgetting ==
    \A s \in Slots :
        table[s].occupied /\ s \notin Stale => dedup_contains(table, table[s].uuid)

=============================================================================
