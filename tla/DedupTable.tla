----------------------------- MODULE DedupTable -----------------------------
(***************************************************************************)
(* The open-addressing hash set of message UUIDs kept by the mesh router   *)
(* (mesh_router.c, "dedup hash set internals").  This module holds only    *)
(* the probing logic, as operators on a table value: DedupCache gives it a *)
(* wall clock of its own, Mesh one table per node.                         *)
(*                                                                         *)
(* A table maps each slot to a record with at least the fields occupied    *)
(* and uuid.  How old an entry is depends on the clock, so the caller      *)
(* passes the set `stale' of the slots whose entry is older than           *)
(* dedup_max_age.                                                          *)
(***************************************************************************)
EXTENDS Integers

CONSTANTS Uuids,     \* message identifiers
          Cap,       \* router->dedup_cap
          Hash       \* the home slot of each UUID (FNV-1a modulo Cap)

ASSUME CapAssumption == Cap \in Nat \ {0}

\* dedup_hash: some function of the UUID into the table.
ASSUME HashAssumption == Hash \in [Uuids -> 0..(Cap - 1)]

Slots == 0..(Cap - 1)

\* (idx + i) % cap, the i-th slot probed for u; idx and i are both below cap.
Slot(u, i) == IF Hash[u] + i < Cap THEN Hash[u] + i ELSE Hash[u] + i - Cap

\* Mutant of dedup_contains: a collision counts as a hit.
dedup_contains_Collision(t, u) == t[Slot(u, 0)].occupied

\* The scan returns 1 at the first slot that holds u, and 0 at the first free
\* slot or after a full turn.  It never looks at an entry's age.
dedup_contains(t, u) ==
    \E i \in Slots :
        /\ t[Slot(u, i)].occupied
        /\ t[Slot(u, i)].uuid = u
        /\ \A j \in 0..(i - 1) : t[Slot(u, j)].occupied

\* A slot dedup_insert may take: free, or holding an expired entry.
Writable(t, stale, s) == ~t[s].occupied \/ s \in stale

\* Mutant of InsertsAt: expired and fresh entries are overwritten alike.
InsertsAt_IgnoreAge(t, u, stale, s) == s = Slot(u, 0)

\* Mutant of InsertsAt: the probe skips the home slot.
InsertsAt_SkipHome(t, u, stale, s) ==
    \E i \in Slots \ {0} :
        /\ s = Slot(u, i)
        /\ Writable(t, stale, s)
        /\ \A j \in 1..(i - 1) : ~Writable(t, stale, Slot(u, j))

\* s is the slot dedup_insert writes u to: the first writable one of its probe
\* sequence, or its home slot when the table is full of fresh entries.
InsertsAt(t, u, stale, s) ==
    \/ \E i \in Slots :
          /\ s = Slot(u, i)
          /\ Writable(t, stale, s)
          /\ \A j \in 0..(i - 1) : ~Writable(t, stale, Slot(u, j))
    \/ /\ \A i \in Slots : ~Writable(t, stale, Slot(u, i))
       /\ s = Slot(u, 0)

\* Expired entries become free where they stand; no tombstone is left and
\* nothing behind them is moved.  The code only clears the occupied flag; what
\* else a free entry holds is never read, and `free' stands for all of them.
dedup_evict(t, stale, free) == [s \in Slots |-> IF s \in stale THEN free ELSE t[s]]

=============================================================================
