------------------------- MODULE PreparedStatements -------------------------
(***************************************************************************)
(* The SQLite storage adapter (storage_sqlite.c), call by call: every      *)
(* operation of the port runs one of five prepared statements that all     *)
(* threads share.  The connection is opened with SQLITE_OPEN_FULLMUTEX, so *)
(* each SQLite call is atomic; the sequence of reset, clear, binds and     *)
(* steps is not, except for callers that hold a lock around it.  The       *)
(* bridge does (bitchat_send_message and bitchat_tick hold g_state.mutex), *)
(* the simulator's input and tick threads (cli/main.c) do not.             *)
(*                                                                         *)
(* The statements are SQLite's, external to this code: a bind on one that  *)
(* was stepped and not reset is refused; a step runs it with the bindings  *)
(* it has, a SELECT one row further.  A column's value is identified with  *)
(* the copy of the message it was taken from, expires_at is a time.        *)
(***************************************************************************)
EXTENDS Integers

CONSTANTS Threads,     \* the threads that use the storage
          Copies,      \* messages as given to store_message
          UuidOf,      \* the UUID of each
          ReceiverOf,  \* and its receiver
          Given,       \* the requests each thread may come to make
          Own,         \* the messages this node creates, each stored once
          Null,        \* an unbound parameter, SQL NULL
          Retention,   \* STORAGE_DEFAULT_RETENTION_SEC
          MaxAge,      \* max_age_sec as given to bc_store_create
          MaxTime,     \* bound on the clock
          Locked,      \* do callers hold a mutex?
          ReadErrors   \* may a SELECT fail half-way?

Stmts == {"insert", "all", "for", "delete", "evict"}
Queries == {"all", "for"}

Uuids == {UuidOf[c] : c \in Copies}
Receivers == {ReceiverOf[c] : c \in Copies}

\* The max_age_sec of a message store: 0 stands for the default of 72 hours.
bc_store_create == IF MaxAge > 0 THEN MaxAge ELSE Retention

\* The ages given to evict_expired, by the router and by the message store.
Ages == {Retention, bc_store_create}

\* A call of the port, named after the statement it runs.
Requests == [op : {"insert"}, copy : Copies]
       \cup [op : {"for"}, to : Receivers]
       \cup [op : {"delete"}, uuid : Uuids]
       \cup [op : {"evict"}, age : Ages]
       \cup [op : {"all"}]

ASSUME CopiesAssumption == Null \notin Copies /\ Copies \cap Int = {}

ASSUME KeysAssumption == \A c \in Copies : UuidOf[c] # Null /\ ReceiverOf[c] # Null

ASSUME GivenAssumption == Given \in [Threads -> SUBSET Requests]

ASSUME TimeAssumption == /\ Retention \in Nat /\ MaxAge \in Nat /\ MaxTime \in Nat
                         /\ Null \notin Int

ASSUME LockedAssumption == Locked \in BOOLEAN /\ ReadErrors \in BOOLEAN

VARIABLES ready,     \* the statements that accept binds
          bound,     \* the parameters bound to each
          seen,      \* the rows each has returned since its reset
          rows,      \* the pending_messages table
          now,       \* time(NULL)
          holder,    \* the threads that hold the mutex
          pc,        \* where each thread is in its call
          req,       \* the call
          since,     \* when it was made
          col,       \* the parameter bound next
          got,       \* the rows get_pending has read so far
          stored     \* messages stored and neither deleted nor expired since

vars == <<ready, bound, seen, rows, now, holder, pc, req, since, col, got, stored>>

\* uuid, sender_pubkey, receiver_pubkey, payload, ttl, expires_at.
Columns == 1..6
NotNull == {2, 3, 5, 6}

Times == 0..(MaxTime + Retention)

\* The row of message c that expires at e.
WholeRow(c, e) == [k \in Columns |-> IF k = 6 THEN e ELSE c]

Values == Copies \cup Uuids \cup Receivers \cup Times \cup {Null}
Params == [Columns -> Values]
RowType == {r \in Params : /\ \A k \in 1..5 : r[k] \in Copies \cup {Null}
                           /\ r[6] \in Times \cup {Null}}

Unbound == [k \in Columns |-> Null]

\* How many parameters a statement has.
ParamCount(s) == CASE s = "insert" -> 6 [] s = "for" -> 2 [] OTHER -> 1

\* The type of every variable.
TypeOK == /\ ready \in SUBSET Stmts
          /\ bound \in [Stmts -> Params]
          /\ seen \in [Stmts -> SUBSET RowType]
          /\ rows \in SUBSET {r \in RowType : \A k \in NotNull : r[k] # Null}
          /\ now \in 0..MaxTime
          /\ holder \in SUBSET Threads
          /\ pc \in [Threads -> {"idle", "reset", "clear", "bind", "step", "return", "failed"}]
          /\ req \in [Threads -> Requests \cup {Null}]
          /\ since \in [Threads -> 0..MaxTime]
          /\ col \in [Threads -> Columns]
          /\ got \in [Threads -> SUBSET RowType]
          /\ stored \in SUBSET Copies

Init == /\ ready = Stmts
        /\ bound = [s \in Stmts |-> Unbound]
        /\ seen = [s \in Stmts |-> {}]
        /\ rows = {}
        /\ now = 0
        /\ holder = {}
        /\ pc = [t \in Threads |-> "idle"]
        /\ req = [t \in Threads |-> Null]
        /\ since = [t \in Threads |-> 0]
        /\ col = [t \in Threads |-> 1]
        /\ got = [t \in Threads |-> {}]
        /\ stored = {}

\* Mutant of Free: the lock is not waited for.
Free_Ignored(t) == TRUE

\* LOCK() can be taken, or the caller takes none.
Free(t) == Locked => holder = {}

\* The router, or the message store use case, calls the port.
Call(t, q) == /\ pc[t] = "idle"
              /\ q \in Given[t]
              /\ q.op = "insert" /\ q.copy \in Own => q.copy \notin stored
              /\ Free(t)
              /\ holder' = IF Locked THEN {t} ELSE holder
              /\ pc' = [pc EXCEPT ![t] = "reset"]
              /\ req' = [req EXCEPT ![t] = q]
              /\ since' = [since EXCEPT ![t] = now]
              /\ UNCHANGED <<ready, bound, seen, rows, now, col, got, stored>>

\* bc_store_save, bc_store_get_for_peer, bc_store_delete and bc_store_cleanup
\* pass the call on to the port.
bc_store_save(t, c)         == Call(t, [op |-> "insert", copy |-> c])
bc_store_get_for_peer(t, p) == Call(t, [op |-> "for", to |-> p])
bc_store_delete(t, u)       == Call(t, [op |-> "delete", uuid |-> u])
bc_store_cleanup(t)         == Call(t, [op |-> "evict", age |-> bc_store_create])

\* The router's own calls in bc_router_tick: get_pending without a receiver, for
\* its gossip, and evict_expired with 72 hours.
get_all_pending(t) == Call(t, [op |-> "all"])
evict_expired(t)   == Call(t, [op |-> "evict", age |-> Retention])

\* Mutant of Reset: the statement is not reset before it is bound again.
Reset_Missing(t) == /\ pc[t] = "reset"
                    /\ pc' = [pc EXCEPT ![t] = "clear"]
                    /\ UNCHANGED <<ready, bound, seen, rows, now, holder, req, since, col, got, stored>>

\* sqlite3_reset: the statement accepts binds again and keeps its bindings.
Reset(t) == /\ pc[t] = "reset"
            /\ ready' = ready \cup {req[t].op}
            /\ seen' = [seen EXCEPT ![req[t].op] = {}]
            /\ pc' = [pc EXCEPT ![t] = "clear"]
            /\ UNCHANGED <<bound, rows, now, holder, req, since, col, got, stored>>

\* sqlite3_clear_bindings, whatever state the statement is in.
Clear(t) == /\ pc[t] = "clear"
            /\ bound' = [bound EXCEPT ![req[t].op] = Unbound]
            /\ pc' = [pc EXCEPT ![t] = "bind"]
            /\ col' = [col EXCEPT ![t] = 1]
            /\ UNCHANGED <<ready, seen, rows, now, holder, req, since, got, stored>>

\* The value bound to parameter k; a time is read from the clock just before.
\* The age given to evict_expired is bound to nothing.
Argument(q, k, time) ==
    CASE q.op = "insert" -> IF k = 6 THEN time + Retention ELSE q.copy
      [] q.op = "for"    -> IF k = 1 THEN q.to ELSE time
      [] q.op = "delete" -> q.uuid
      [] OTHER           -> time

\* Mutant of Bind: one bind too many.
Bind_PastEnd(t) ==
    /\ pc[t] = "bind"
    /\ bound' = [bound EXCEPT ![req[t].op][col[t]] = Argument(req[t], col[t], now)]
    /\ IF col[t] = ParamCount(req[t].op) + 1
       THEN pc' = [pc EXCEPT ![t] = "step"] /\ UNCHANGED col
       ELSE col' = [col EXCEPT ![t] = @ + 1] /\ UNCHANGED pc
    /\ UNCHANGED <<ready, seen, rows, now, holder, req, since, got, stored>>

\* One sqlite3_bind_*, whose result is ignored: it fails if the statement is
\* not ready.
Bind(t) ==
    /\ pc[t] = "bind"
    /\ bound' = IF req[t].op \in ready
                THEN [bound EXCEPT ![req[t].op][col[t]] = Argument(req[t], col[t], now)]
                ELSE bound
    /\ IF col[t] = ParamCount(req[t].op)
       THEN pc' = [pc EXCEPT ![t] = "step"] /\ UNCHANGED col
       ELSE col' = [col EXCEPT ![t] = @ + 1] /\ UNCHANGED pc
    /\ UNCHANGED <<ready, seen, rows, now, holder, req, since, got, stored>>

\* INSERT OR IGNORE skips a row that breaks NOT NULL or the primary key.  The
\* key is no rowid, so NULLs in it do not clash.
Ignored(b) == \/ \E k \in NotNull : b[k] = Null
              \/ b[1] # Null /\ \E r \in rows : r[1] # Null /\ UuidOf[r[1]] = UuidOf[b[1]]

\* Mutant of Selects: a message is taken to have expired one second early.
Selects_Early(s, b, r) ==
    CASE s = "all"    -> b[1] # Null /\ r[6] > b[1]
      [] s = "for"    -> b[1] # Null /\ b[2] # Null /\ ReceiverOf[r[3]] = b[1] /\ r[6] > b[2]
      [] s = "delete" -> r[1] # Null /\ b[1] # Null /\ UuidOf[r[1]] = b[1]
      [] s = "evict"  -> b[1] # Null /\ r[6] <= b[1]

\* The WHERE clauses; a comparison with NULL selects nothing.
Selects(s, b, r) ==
    CASE s = "all"    -> b[1] # Null /\ r[6] >= b[1]
      [] s = "for"    -> b[1] # Null /\ b[2] # Null /\ ReceiverOf[r[3]] = b[1] /\ r[6] >= b[2]
      [] s = "delete" -> r[1] # Null /\ b[1] # Null /\ UuidOf[r[1]] = b[1]
      [] s = "evict"  -> b[1] # Null /\ r[6] < b[1]

Selected(s) == {r \in rows : Selects(s, bound[s], r)}

\* sqlite3_step of a statement that writes; the result is SQLITE_DONE for a
\* row that is skipped too.
Step(t) == LET s == req[t].op
               b == bound[s]
           IN /\ pc[t] = "step" /\ s \notin Queries
              /\ rows' = IF s = "insert"
                         THEN IF Ignored(b) THEN rows ELSE rows \cup {b}
                         ELSE rows \ Selected(s)
              /\ stored' = CASE s = "insert" -> stored
                             [] s = "delete" -> {c \in stored : UuidOf[c] # req[t].uuid}
                             [] OTHER -> {c \in stored : \A r \in rows :
                                            r[1] # Null /\ UuidOf[r[1]] = UuidOf[c] => r[6] >= now}
              /\ ready' = ready \ {s}
              /\ pc' = [pc EXCEPT ![t] = "return"]
              /\ UNCHANGED <<bound, seen, now, holder, req, since, col, got>>

\* sqlite3_step of a SELECT returns SQLITE_ROW: a row it has not returned yet
\* is made a message and added to the array.
Fetch(t) == LET s == req[t].op
            IN /\ pc[t] = "step" /\ s \in Queries
               /\ \E r \in Selected(s) \ seen[s] :
                      /\ seen' = [seen EXCEPT ![s] = @ \cup {r}]
                      /\ got' = [got EXCEPT ![t] = @ \cup {r}]
               /\ ready' = ready \ {s}
               /\ UNCHANGED <<bound, rows, now, holder, pc, req, since, col, stored>>

\* It returns SQLITE_DONE, or, with ReadErrors, an error that ends the loop
\* and is not reported.  Another step would start over.
Finish(t) == LET s == req[t].op
             IN /\ pc[t] = "step" /\ s \in Queries
                /\ ReadErrors \/ Selected(s) \subseteq seen[s]
                /\ ready' = ready \ {s}
                /\ seen' = [seen EXCEPT ![s] = {}]
                /\ pc' = [pc EXCEPT ![t] = "return"]
                /\ UNCHANGED <<bound, rows, now, holder, req, since, col, got, stored>>

\* No memory for a row: what was read is freed, the statement is not reset.
FetchNoMemory(t) == LET s == req[t].op
                    IN /\ pc[t] = "step" /\ s \in Queries
                       /\ ~(Selected(s) \subseteq seen[s])
                       /\ ready' = ready \ {s}
                       /\ got' = [got EXCEPT ![t] = {}]
                       /\ pc' = [pc EXCEPT ![t] = "failed"]
                       /\ UNCHANGED <<bound, seen, rows, now, holder, req, since, col, stored>>

\* The database is busy, full or broken: nothing is written.
StepFails(t) == /\ pc[t] = "step" /\ req[t].op \notin Queries
                /\ ready' = ready \ {req[t].op}
                /\ pc' = [pc EXCEPT ![t] = "failed"]
                /\ UNCHANGED <<bound, seen, rows, now, holder, req, since, col, got, stored>>

\* The call's local variables are gone.
Forget(t) == /\ req' = [req EXCEPT ![t] = Null]
             /\ since' = [since EXCEPT ![t] = 0]
             /\ col' = [col EXCEPT ![t] = 1]
             /\ got' = [got EXCEPT ![t] = {}]

\* The call returns BC_OK, and the caller releases its lock.
Return(t) == /\ pc[t] = "return"
             /\ stored' = IF req[t].op = "insert" THEN stored \cup {req[t].copy} ELSE stored
             /\ pc' = [pc EXCEPT ![t] = "idle"]
             /\ holder' = holder \ {t}
             /\ Forget(t)
             /\ UNCHANGED <<ready, bound, seen, rows, now>>

\* The call returns BC_ERR_STORAGE or BC_ERR_NOMEM.
ReturnError(t) == /\ pc[t] = "failed"
                  /\ pc' = [pc EXCEPT ![t] = "idle"]
                  /\ holder' = holder \ {t}
                  /\ Forget(t)
                  /\ UNCHANGED <<ready, bound, seen, rows, now, stored>>

Second == /\ now < MaxTime
          /\ now' = now + 1
          /\ UNCHANGED <<ready, bound, seen, rows, holder, pc, req, since, col, got, stored>>

Next == \/ \E t \in Threads :
             \/ \E c \in Copies : bc_store_save(t, c)
             \/ \E p \in Receivers : bc_store_get_for_peer(t, p)
             \/ \E u \in Uuids : bc_store_delete(t, u)
             \/ bc_store_cleanup(t)
             \/ get_all_pending(t) \/ evict_expired(t)
             \/ Reset(t) \/ Clear(t) \/ Bind(t)
             \/ Step(t) \/ StepFails(t) \/ Fetch(t) \/ FetchNoMemory(t) \/ Finish(t)
             \/ Return(t) \/ ReturnError(t)
        \/ Second

Spec == Init /\ [][Next]_vars

-----------------------------------------------------------------------------
(* Properties.                                                             *)

\* The messages that rows stand for, with the times they expire at.
Kept(R) == {x \in [copy : Copies, expires : Times] : WholeRow(x.copy, x.expires) \in R}

\* The call a thread is in, as its caller sees it.
CallOf(t) ==
    CASE pc[t] = "idle"   -> [at |-> "idle"]
      [] pc[t] = "return" -> [at |-> "done", req |-> req[t], got |-> Kept(got[t])]
      [] OTHER            -> [at |-> "called", req |-> req[t], since |-> since[t]]

Port == INSTANCE MessageTable WITH table <- Kept(rows), calls <- [t \in Threads |-> CallOf(t)]

\* Under the callers' lock the calls on the shared statements implement the
\* storage port: every operation of storage.h is atomic, and get_pending
\* returns all messages that had not expired.
ImplementsPort == Port!Spec

\* Every row holds one message: no thread's parameters end up in the row of
\* another's message ("ensuring safe concurrent access from the UI thread and
\* the mesh-router tick thread without external locking").
RowIntegrity == \A r \in rows : \E c \in Copies, e \in Times : r = WholeRow(c, e)

\* A message for which store_message has returned BC_OK has a row, of some
\* copy with its UUID, until delete_message is called for it or its 72 hours
\* have passed ("Unconditionally persist for store-and-forward").
StoredIsThere ==
    \A c \in stored : \E r \in rows : r[1] # Null /\ UuidOf[r[1]] = UuidOf[c]

=============================================================================
