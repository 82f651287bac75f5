---------------------- MODULE PreparedStatementsProofs ----------------------
(***************************************************************************)
(* For any number of threads and messages: callers that hold a mutex       *)
(* around their calls see the storage port's atomic operations.  The       *)
(* invariant says that only the holder of the mutex is inside, what of its *)
(* request it has bound so far, and which rows its query has returned.     *)
(***************************************************************************)
EXTENDS PreparedStatements, TLAPS

\* A row of c's UUID is in the table.
Present(c) == \E r \in rows : r[1] # Null /\ UuidOf[r[1]] = UuidOf[c]

\* The values a call made at time `from' may have bound to parameter k.
Arguments(q, k, from) == {Argument(q, k, tm) : tm \in from..now}

\* A thread is inside a call only while it holds the mutex.
Exclusive == \A t \in Threads :
                 pc[t] # "idle" => holder = {t} /\ req[t] \in Requests /\ since[t] <= now

\* The parameters bound before parameter n are those of the request.
BoundTo(t, n) == \A k \in 1..(n - 1) : bound[req[t].op][k] \in Arguments(req[t], k, since[t])

\* What a thread has prepared, and read.
ReadyFor(t) ==
    /\ pc[t] \in {"idle", "reset", "clear", "bind"} => got[t] = {}
    /\ pc[t] \in {"clear", "bind"} => req[t].op \in ready /\ seen[req[t].op] = {}
    /\ pc[t] = "bind" => col[t] <= ParamCount(req[t].op) /\ BoundTo(t, col[t])
    /\ pc[t] = "step" => BoundTo(t, ParamCount(req[t].op) + 1)
    /\ pc[t] = "step" /\ req[t].op \in Queries =>
           /\ got[t] = seen[req[t].op]
           /\ seen[req[t].op] \subseteq Selected(req[t].op)
    /\ pc[t] = "step" /\ req[t].op \notin Queries => got[t] = {}
    /\ pc[t] = "return" /\ req[t].op = "insert" => Present(req[t].copy)

Prepared == \A t \in Threads : ReadyFor(t)

IInv == TypeOK /\ Exclusive /\ Prepared /\ RowIntegrity /\ StoredIsThere

-----------------------------------------------------------------------------
(* Requests and rows.                                                      *)

\* What a request carries, by its kind.
LEMMA RequestKinds ==
  ASSUME NEW q \in Requests
  PROVE  /\ q.op \in Stmts
         /\ q.op = "insert" => q.copy \in Copies
         /\ q.op = "for" => q.to \in Receivers
         /\ q.op = "delete" => q.uuid \in Uuids
  BY DEF Requests, Stmts

\* The row of a message is a row, none of it is NULL, and it determines the
\* message and the time.
LEMMA WholeRowType ==
  ASSUME NEW c \in Copies, NEW e \in Times
  PROVE  /\ WholeRow(c, e) \in RowType
         /\ \A k \in 1..5 : WholeRow(c, e)[k] = c
         /\ WholeRow(c, e)[6] = e
         /\ c # Null /\ e # Null
         /\ \A k \in NotNull : WholeRow(c, e)[k] # Null
<1>1. c # Null /\ e # Null /\ e \in Int
  BY CopiesAssumption, TimeAssumption DEF Times
<1>2. \A k \in Columns : WholeRow(c, e)[k] = IF k = 6 THEN e ELSE c
  BY DEF WholeRow
<1>3. WholeRow(c, e) \in Params
  BY DEF WholeRow, Params, Values
<1>4. /\ \A k \in 1..5 : WholeRow(c, e)[k] = c
      /\ WholeRow(c, e)[6] = e
  BY <1>2 DEF Columns
<1>5. \A k \in NotNull : WholeRow(c, e)[k] # Null
  BY <1>1, <1>2 DEF NotNull, Columns
<1> QED  BY <1>1, <1>3, <1>4, <1>5 DEF RowType

\* A bound argument is a value a parameter can have.
LEMMA ArgumentType ==
  ASSUME NEW q \in Requests, NEW k \in Columns, NEW tm \in 0..MaxTime
  PROVE  Argument(q, k, tm) \in Values
<1>1. tm \in Times /\ tm + Retention \in Times
  BY TimeAssumption DEF Times
<1> QED  BY <1>1, RequestKinds DEF Argument, Values, Stmts

\* An insert whose parameters are all bound is the row of its message.
LEMMA InsertBound ==
  ASSUME IInv, NEW t \in Threads, req[t] \in Requests, req[t].op = "insert",
         BoundTo(t, 7)
  PROVE  \E tm \in since[t]..now :
             /\ tm + Retention \in Times
             /\ bound["insert"] = WholeRow(req[t].copy, tm + Retention)
<1> DEFINE b == bound["insert"]
<1>1. \A k \in 1..6 : \E tm \in since[t]..now : b[k] = IF k = 6 THEN tm + Retention ELSE req[t].copy
  BY DEF BoundTo, Arguments, Argument
<1>2. PICK tm \in since[t]..now : b[6] = tm + Retention
  BY <1>1
<1>3. \A k \in 1..5 : b[k] = req[t].copy
  BY <1>1
<1>4. b \in Params
  BY DEF IInv, TypeOK, Stmts
<1>5. b = WholeRow(req[t].copy, tm + Retention)
  BY <1>2, <1>3, <1>4 DEF Params, WholeRow, Columns
<1>6. tm + Retention \in Times
  BY <1>2, TimeAssumption DEF Times, IInv, TypeOK
<1> QED  BY <1>2, <1>5, <1>6

\* Every row is the row of one message.
LEMMA RowsWhole ==
  ASSUME IInv, NEW r \in rows
  PROVE  \E c \in Copies, e \in Times :
             /\ r = WholeRow(c, e) /\ r[1] = c /\ r[3] = c /\ r[6] = e
             /\ r[1] # Null
<1>1. PICK c \in Copies, e \in Times : r = WholeRow(c, e)
  BY DEF IInv, RowIntegrity
<1>2. /\ \A k \in 1..5 : WholeRow(c, e)[k] = c
      /\ WholeRow(c, e)[6] = e
      /\ c # Null
  BY WholeRowType
<1> QED  BY <1>1, <1>2

\* Running the insert of c leaves a row of c's UUID.
LEMMA InsertWhole ==
  ASSUME IInv, NEW c \in Copies, NEW e \in Times
  PROVE  Ignored(WholeRow(c, e)) <=> Present(c)
<1>1. /\ WholeRow(c, e)[1] = c /\ c # Null
      /\ \A k \in NotNull : WholeRow(c, e)[k] # Null
  BY WholeRowType
<1> QED  BY <1>1 DEF Ignored, Present

-----------------------------------------------------------------------------
(* Every step keeps the invariant.                                         *)

\* The empty table satisfies the invariant.
LEMMA InitIInv == Init => IInv
<1> SUFFICES ASSUME Init PROVE IInv
  OBVIOUS
<1>1. Unbound \in Params
  BY DEF Unbound, Params, Values
<1>2. TypeOK
  BY <1>1, TimeAssumption DEF Init, TypeOK, Columns
<1>3. Exclusive /\ Prepared /\ RowIntegrity /\ StoredIsThere
  BY DEF Init, Exclusive, Prepared, ReadyFor, RowIntegrity, StoredIsThere
<1> QED  BY <1>2, <1>3 DEF IInv

\* Only one thread is inside.
LEMMA Alone ==
  ASSUME IInv, NEW t \in Threads, pc[t] # "idle"
  PROVE  /\ holder = {t} /\ req[t] \in Requests /\ req[t].op \in Stmts
         /\ since[t] \in 0..now /\ now \in 0..MaxTime
         /\ \A u \in Threads : u # t => pc[u] = "idle"
<1>1. holder = {t} /\ req[t] \in Requests /\ since[t] <= now
  BY DEF IInv, Exclusive
<1>2. \A u \in Threads : u # t => pc[u] = "idle"
  BY <1>1 DEF IInv, Exclusive
<1>3. since[t] \in 0..MaxTime /\ now \in 0..MaxTime
  BY DEF IInv, TypeOK
<1> QED  BY <1>1, <1>2, <1>3, RequestKinds

\* The threads that are outside before and after a step have prepared nothing.
LEMMA OthersReady ==
  ASSUME IInv, NEW t \in Threads,
         \A u \in Threads : u # t => pc[u] = "idle" /\ pc'[u] = "idle" /\ got'[u] = got[u],
         ReadyFor(t)'
  PROVE  Prepared'
<1>1. \A u \in Threads : u # t => got'[u] = {}
  BY ZenonT(60) DEF IInv, Prepared, ReadyFor
<1>2. \A u \in Threads : u # t => ReadyFor(u)'
  BY <1>1, ZenonT(60) DEF ReadyFor
<1> QED  BY <1>2 DEF Prepared

\* A call begins: nothing is prepared yet.
LEMMA CallIInv ==
  ASSUME Locked, IInv, NEW t \in Threads, NEW q, Call(t, q)
  PROVE  IInv'
<1>1. q \in Requests /\ holder = {}
  BY GivenAssumption DEF Call, Free
<1>2. \A u \in Threads : pc[u] = "idle"
  BY <1>1 DEF IInv, Exclusive
<1>3. TypeOK'
  BY <1>1, ZenonT(60) DEF Call, IInv, TypeOK
<1>4. Exclusive'
  BY <1>1, <1>2, SMTT(60) DEF Call, IInv, TypeOK, Exclusive
<1>5. pc'[t] = "reset" /\ got' = got /\ got[t] = {}
  BY <1>2 DEF Call, IInv, TypeOK, Prepared, ReadyFor
<1>6. ReadyFor(t)'
  BY <1>5, ZenonT(60) DEF ReadyFor
<1>7. \A u \in Threads : u # t => pc[u] = "idle" /\ pc'[u] = "idle" /\ got'[u] = got[u]
  BY <1>2 DEF Call, IInv, TypeOK
<1>8. Prepared'
  BY <1>6, <1>7, OthersReady, ZenonT(60)
<1> QED  BY <1>3, <1>4, <1>8 DEF Call, IInv, RowIntegrity, StoredIsThere

\* sqlite3_reset keeps the invariant.
LEMMA ResetIInv ==
  ASSUME IInv, NEW t \in Threads, Reset(t)
  PROVE  IInv'
<1> DEFINE s == req[t].op
<1>1. /\ s \in Stmts /\ holder = {t}
      /\ \A u \in Threads : u # t => pc[u] = "idle"
  BY Alone DEF Reset
<1>2. /\ s \in ready' /\ seen'[s] = {}
      /\ ready' \in SUBSET Stmts /\ seen' \in [Stmts -> SUBSET RowType]
  BY <1>1, ZenonT(60) DEF Reset, IInv, TypeOK
<1>3. TypeOK'
  BY <1>2 DEF Reset, IInv, TypeOK
<1>4. Exclusive'
  BY ZenonT(60) DEF Reset, IInv, TypeOK, Exclusive
<1>5. pc'[t] = "clear" /\ req'[t].op = s /\ got'[t] = {}
  BY ZenonT(60) DEF Reset, IInv, TypeOK, Prepared, ReadyFor
<1>6. ReadyFor(t)'
  BY <1>2, <1>5 DEF ReadyFor
<1>7. \A u \in Threads : u # t => pc[u] = "idle" /\ pc'[u] = "idle" /\ got'[u] = got[u]
  BY <1>1 DEF Reset, IInv, TypeOK
<1>8. Prepared'
  BY <1>6, <1>7, OthersReady, ZenonT(60)
<1> QED  BY <1>3, <1>4, <1>8 DEF Reset, IInv, RowIntegrity, StoredIsThere

\* sqlite3_clear_bindings keeps the invariant.
LEMMA ClearIInv ==
  ASSUME IInv, NEW t \in Threads, Clear(t)
  PROVE  IInv'
<1> DEFINE s == req[t].op
<1>1. /\ s \in Stmts /\ holder = {t}
      /\ \A u \in Threads : u # t => pc[u] = "idle"
  BY Alone DEF Clear
<1>2. Unbound \in Params /\ 1 \in Columns /\ ParamCount(s) \in Columns
  BY <1>1 DEF Unbound, Params, Values, Columns, ParamCount
<1>3. s \in ready /\ seen[s] = {} /\ got[t] = {}
  BY DEF Clear, IInv, Prepared, ReadyFor
<1>4. /\ s \in ready' /\ seen'[s] = {}
      /\ bound' \in [Stmts -> Params]
  BY <1>1, <1>2, <1>3, ZenonT(60) DEF Clear, IInv, TypeOK
<1>5. TypeOK'
  BY <1>2, <1>4 DEF Clear, IInv, TypeOK
<1>6. Exclusive'
  BY DEF Clear, IInv, TypeOK, Exclusive
<1>7. pc'[t] = "bind" /\ req'[t].op = s /\ got'[t] = {} /\ col'[t] = 1
  BY <1>3, ZenonT(60) DEF Clear, IInv, TypeOK
<1>8. ReadyFor(t)'
  BY <1>2, <1>4, <1>7, SMTT(60) DEF ReadyFor, BoundTo, Columns
<1>9. \A u \in Threads : u # t => pc[u] = "idle" /\ pc'[u] = "idle" /\ got'[u] = got[u]
  BY <1>1, ZenonT(60) DEF Clear, IInv, TypeOK
<1>10. Prepared'
  BY <1>8, <1>9, OthersReady, ZenonT(60)
<1> QED  BY <1>5, <1>6, <1>10, ZenonT(60) DEF Clear, IInv, RowIntegrity, StoredIsThere

\* Binding one parameter keeps the invariant.
LEMMA BindIInv ==
  ASSUME IInv, NEW t \in Threads, Bind(t)
  PROVE  IInv'
<1> DEFINE s == req[t].op
           n == ParamCount(s)
           v == Argument(req[t], col[t], now)
<1>1. /\ s \in Stmts /\ holder = {t} /\ req[t] \in Requests
      /\ since[t] \in 0..now /\ now \in 0..MaxTime
      /\ \A u \in Threads : u # t => pc[u] = "idle"
  BY Alone, ZenonT(60) DEF Bind
<1>2. /\ s \in ready /\ seen[s] = {} /\ got[t] = {}
      /\ col[t] \in Columns /\ col[t] <= n /\ BoundTo(t, col[t])
  BY DEF Bind, IInv, TypeOK, Prepared, ReadyFor
<1>3. n \in Columns
  BY <1>1 DEF ParamCount, Columns
<1>4. v \in Values /\ v \in Arguments(req[t], col[t], since[t])
  BY <1>1, <1>2, ArgumentType DEF Arguments
<1>5. bound \in [Stmts -> Params]
  BY ZenonT(60) DEF IInv, TypeOK
<1>6. bound' = [bound EXCEPT ![s] = [bound[s] EXCEPT ![col[t]] = v]]
  BY <1>1, <1>2, <1>5, ZenonT(60) DEF Bind
<1>7. [bound[s] EXCEPT ![col[t]] = v] \in Params
  BY <1>1, <1>2, <1>4, <1>5, ZenonT(60) DEF Params
<1>8. /\ bound' \in [Stmts -> Params]
      /\ s \in ready' /\ seen'[s] = {}
      /\ bound'[s] = [bound[s] EXCEPT ![col[t]] = v]
  BY <1>1, <1>2, <1>5, <1>6, <1>7, ZenonT(60) DEF Bind
<1>9. \A k \in 1..col[t] : bound'[s][k] \in Arguments(req[t], k, since[t])
  <2>1. \A k \in 1..col[t] : k \in Columns /\ (k # col[t] => k \in 1..(col[t] - 1))
    BY <1>2 DEF Columns
  <2> QED  BY <1>1, <1>2, <1>4, <1>5, <1>8, <2>1 DEF BoundTo, Params
<1>10. /\ UNCHANGED <<ready, seen, rows, now, holder, req, since, got, stored>>
       /\ IF col[t] = n THEN pc' = [pc EXCEPT ![t] = "step"] /\ col' = col
                        ELSE pc' = pc /\ col' = [col EXCEPT ![t] = col[t] + 1]
  BY ZenonT(60) DEF Bind
<1>11. TypeOK'
  <2>1. pc' \in [Threads -> {"idle", "reset", "clear", "bind", "step", "return", "failed"}]
    BY <1>10 DEF IInv, TypeOK
  <2>2. col' \in [Threads -> Columns]
    BY <1>2, <1>3, <1>10 DEF IInv, TypeOK, Columns
  <2> QED  BY <1>8, <1>10, <2>1, <2>2 DEF IInv, TypeOK
<1>12. Exclusive'
  BY <1>10 DEF Bind, IInv, TypeOK, Exclusive
<1>13. \A k : Arguments(req[t], k, since[t])' = Arguments(req[t], k, since[t])
  BY <1>10 DEF Arguments, Argument
<1>14. ReadyFor(t)'
  <2>1. CASE col[t] = n
    <3>1. pc'[t] = "step" /\ req'[t] = req[t] /\ got'[t] = {}
      BY <1>2, <1>10, <2>1, ZenonT(60) DEF IInv, TypeOK
    <3>2. BoundTo(t, n + 1)'
      BY <1>3, <1>9, <1>10, <1>13, <2>1, SMTT(60) DEF BoundTo, Columns
    <3> QED  BY <1>8, <1>10, <3>1, <3>2, ZenonT(60) DEF ReadyFor
  <2>2. CASE col[t] # n
    <3>1. pc'[t] = "bind" /\ req'[t] = req[t] /\ got'[t] = {} /\ col'[t] = col[t] + 1
      BY <1>2, <1>10, <2>2, ZenonT(60) DEF Bind, IInv, TypeOK
    <3>2. BoundTo(t, col[t])'
      BY <1>2, <1>9, <1>10, <1>13, <3>1, SMTT(60) DEF BoundTo, Columns
    <3>3. col'[t] <= n
      BY <1>2, <1>3, <2>2, <3>1 DEF Columns
    <3> QED  BY <1>8, <1>10, <3>1, <3>2, <3>3, ZenonT(60) DEF ReadyFor
  <2> QED  BY <2>1, <2>2, ZenonT(60)
<1>15. \A u \in Threads : u # t => pc[u] = "idle" /\ pc'[u] = "idle" /\ got'[u] = got[u]
  BY <1>1, <1>10 DEF IInv, TypeOK
<1>16. Prepared'
  BY <1>14, <1>15, OthersReady
<1> QED  BY <1>10, <1>11, <1>12, <1>16 DEF IInv, RowIntegrity, StoredIsThere

\* A write is run with the parameters of its request.
LEMMA StepIInv ==
  ASSUME IInv, NEW t \in Threads, Step(t)
  PROVE  IInv'
<1> DEFINE s == req[t].op
           b == bound[s]
<1>1. /\ s \in Stmts /\ holder = {t} /\ req[t] \in Requests /\ s \notin Queries
      /\ since[t] \in 0..now /\ now \in 0..MaxTime
      /\ \A u \in Threads : u # t => pc[u] = "idle"
  BY Alone DEF Step
<1>2. BoundTo(t, ParamCount(s) + 1)
  BY DEF Step, IInv, Prepared, ReadyFor
<1>3. /\ UNCHANGED <<bound, seen, now, holder, req, since, col, got>>
      /\ pc' = [pc EXCEPT ![t] = "return"]
      /\ ready' = ready \ {s}
      /\ rows' = IF s = "insert" THEN IF Ignored(b) THEN rows ELSE rows \cup {b}
                                 ELSE rows \ Selected(s)
      /\ stored' = CASE s = "insert" -> stored
                     [] s = "delete" -> {c \in stored : UuidOf[c] # req[t].uuid}
                     [] OTHER -> {c \in stored : \A r \in rows :
                                    r[1] # Null /\ UuidOf[r[1]] = UuidOf[c] => r[6] >= now}
  BY <1>1 DEF Step, IInv, TypeOK
<1>4. \A u \in Threads : u # t => pc[u] = "idle" /\ pc'[u] = "idle" /\ got'[u] = got[u]
  BY <1>1, <1>3 DEF IInv, TypeOK
<1>5. pc'[t] = "return" /\ req'[t] = req[t]
  BY <1>3 DEF IInv, TypeOK
<1>6. Exclusive'
  BY <1>3, ZenonT(60) DEF Step, IInv, TypeOK, Exclusive
<1>7. CASE s = "insert"
  <2>1. req[t].copy \in Copies /\ ParamCount(s) = 6
    BY <1>1, <1>7, RequestKinds DEF ParamCount
  <2>2. PICK e \in Times : b = WholeRow(req[t].copy, e)
    BY <1>1, <1>2, <1>7, <2>1, InsertBound
  <2>3. /\ WholeRow(req[t].copy, e) \in RowType
        /\ \A k \in NotNull : WholeRow(req[t].copy, e)[k] # Null
        /\ WholeRow(req[t].copy, e)[1] = req[t].copy /\ req[t].copy # Null
    BY <2>1, WholeRowType
  <2>4. rows' = IF Present(req[t].copy) THEN rows ELSE rows \cup {WholeRow(req[t].copy, e)}
    BY <1>3, <1>7, <2>1, <2>2, InsertWhole
  <2>5. Present(req[t].copy)' /\ rows \subseteq rows'
    BY <1>3, <2>3, <2>4 DEF Present
  <2>6. TypeOK'
    BY <1>1, <1>3, <1>6, <1>7, <2>3, <2>4, ZenonT(60) DEF IInv, TypeOK
  <2>7. ReadyFor(t)'
    BY <1>3, <1>5, <2>5 DEF ReadyFor, Present
  <2>8. RowIntegrity'
    BY <2>1, <2>4 DEF IInv, RowIntegrity
  <2>9. StoredIsThere'
    BY <1>3, <1>7, <2>5 DEF IInv, StoredIsThere
  <2> QED  BY <1>4, <1>6, <2>6, <2>7, <2>8, <2>9, OthersReady DEF IInv
<1>8. CASE s # "insert"
  <2>1. rows' = rows \ Selected(s) /\ rows' \subseteq rows
    BY <1>3, <1>8
  <2>2. stored' \subseteq stored
    BY <1>3, <1>8
  <2>3. TypeOK'
    BY <1>1, <1>3, <1>6, <2>1, <2>2 DEF IInv, TypeOK
  <2>4. ReadyFor(t)'
    BY <1>3, <1>5, <1>8 DEF ReadyFor
  <2>5. RowIntegrity'
    BY <2>1 DEF IInv, RowIntegrity
  <2>6. StoredIsThere'
    <3> SUFFICES ASSUME NEW c \in stored' PROVE \E r \in rows' : r[1] # Null /\ UuidOf[r[1]] = UuidOf[c]
      BY DEF StoredIsThere
    <3>1. PICK r \in rows : r[1] # Null /\ UuidOf[r[1]] = UuidOf[c]
      BY <2>2 DEF IInv, StoredIsThere
    <3>2. CASE s = "delete"
      <4>1. UuidOf[c] # req[t].uuid
        BY <1>3, <3>2
      <4>2. b[1] = req[t].uuid
        BY <1>2, <3>2 DEF BoundTo, Arguments, Argument, ParamCount
      <4>3. r \notin Selected(s)
        BY <3>1, <3>2, <4>1, <4>2 DEF Selected, Selects
      <4> QED  BY <2>1, <3>1, <4>3
    <3>3. CASE s = "evict"
      <4>1. r[6] >= now
        BY <1>3, <3>1, <3>3
      <4>2. PICK tm \in since[t]..now : b[1] = tm
        BY <1>2, <3>3 DEF BoundTo, Arguments, Argument, ParamCount
      <4>3. r[6] \in Times
        BY <3>1, RowsWhole
      <4>4. ~(r[6] < b[1])
        BY <1>1, <4>1, <4>2, <4>3, TimeAssumption DEF Times
      <4>5. r \notin Selected(s)
        BY <3>3, <4>4 DEF Selected, Selects
      <4> QED  BY <2>1, <3>1, <4>5
    <3> QED  BY <1>1, <1>8, <3>2, <3>3 DEF Stmts, Queries
  <2> QED  BY <1>4, <1>6, <2>3, <2>4, <2>5, <2>6, OthersReady DEF IInv
<1> QED  BY <1>7, <1>8

\* A query returns the rows its parameters select, one by one.
LEMMA FetchIInv ==
  ASSUME IInv, NEW t \in Threads, Fetch(t)
  PROVE  IInv'
<1> DEFINE s == req[t].op
<1>1. /\ s \in Stmts /\ holder = {t} /\ s \in Queries
      /\ \A u \in Threads : u # t => pc[u] = "idle"
  BY Alone, ZenonT(60) DEF Fetch
<1>2. PICK r \in Selected(s) \ seen[s] :
          /\ seen' = [seen EXCEPT ![s] = @ \cup {r}]
          /\ got' = [got EXCEPT ![t] = @ \cup {r}]
  BY ZenonT(60) DEF Fetch
<1>3. /\ UNCHANGED <<bound, rows, now, holder, pc, req, since, col, stored>>
      /\ pc[t] = "step" /\ ready' = ready \ {s}
  BY ZenonT(60) DEF Fetch
<1>5. r \in rows /\ r \in RowType
  BY <1>2 DEF Selected, IInv, TypeOK
<1>6. /\ seen' \in [Stmts -> SUBSET RowType]
      /\ bound'[s] = bound[s]
      /\ seen'[s] = seen[s] \cup {r}
  BY <1>1, <1>2, <1>3, <1>5 DEF IInv, TypeOK
<1>7. got' \in [Threads -> SUBSET RowType] /\ got'[t] = got[t] \cup {r}
  BY <1>2, <1>5 DEF IInv, TypeOK
<1>8. TypeOK'
  BY <1>3, <1>6, <1>7 DEF IInv, TypeOK
<1>9. Exclusive'
  BY <1>3, ZenonT(60) DEF IInv, Exclusive
<1>10. /\ got[t] = seen[s] /\ seen[s] \subseteq Selected(s)
       /\ BoundTo(t, ParamCount(s) + 1)
  BY <1>1, <1>3 DEF IInv, Prepared, ReadyFor
<1>11. Selected(s)' = Selected(s)
  BY <1>3, <1>6 DEF Selected, Selects
<1>12. BoundTo(t, ParamCount(s) + 1)'
  <2>1. \A k : Arguments(req[t], k, since[t])' = Arguments(req[t], k, since[t])
    BY <1>3, ZenonT(60) DEF Arguments, Argument
  <2> QED  BY <1>3, <1>6, <1>10, <2>1 DEF BoundTo, ParamCount
<1>13. ReadyFor(t)'
  BY <1>1, <1>2, <1>3, <1>6, <1>7, <1>10, <1>11, <1>12 DEF ReadyFor
<1>14. \A u \in Threads : u # t => pc[u] = "idle" /\ pc'[u] = "idle" /\ got'[u] = got[u]
  BY <1>1, <1>2, <1>3, ZenonT(60) DEF IInv, TypeOK
<1> QED  BY <1>3, <1>8, <1>9, <1>13, <1>14, OthersReady DEF IInv, RowIntegrity, StoredIsThere

\* A call that ends its steps without writing.
LEMMA EndIInv ==
  ASSUME IInv, NEW t \in Threads, Finish(t) \/ FetchNoMemory(t) \/ StepFails(t)
  PROVE  IInv'
<1> DEFINE s == req[t].op
<1>1. /\ s \in Stmts /\ holder = {t}
      /\ \A u \in Threads : u # t => pc[u] = "idle"
  BY Alone, ZenonT(60) DEF Finish, FetchNoMemory, StepFails
<1>2. /\ UNCHANGED <<bound, rows, now, holder, req, since, col, stored>>
      /\ pc[t] = "step" /\ ready' = ready \ {s}
  BY DEF Finish, FetchNoMemory, StepFails
<1>3. /\ pc' = [pc EXCEPT ![t] = pc'[t]]
      /\ pc'[t] = "failed" \/ (pc'[t] = "return" /\ s \in Queries)
  BY DEF Finish, FetchNoMemory, StepFails, IInv, TypeOK
<1>4. got' \in [Threads -> SUBSET RowType] /\ \A u \in Threads : u # t => got'[u] = got[u]
  BY DEF Finish, FetchNoMemory, StepFails, IInv, TypeOK
<1>5. seen' \in [Stmts -> SUBSET RowType]
  BY <1>1 DEF Finish, FetchNoMemory, StepFails, IInv, TypeOK
<1>6. pc' \in [Threads -> {"idle", "reset", "clear", "bind", "step", "return", "failed"}]
  BY <1>3 DEF IInv, TypeOK
<1>7. TypeOK'
  BY <1>2, <1>4, <1>5, <1>6 DEF IInv, TypeOK
<1>8. \A u \in Threads : u # t => pc[u] = "idle" /\ pc'[u] = "idle" /\ got'[u] = got[u]
  BY <1>1, <1>3, <1>4, ZenonT(60) DEF IInv, TypeOK
<1>9. Exclusive'
  BY <1>2, <1>8, ZenonT(60) DEF IInv, Exclusive
<1>10. ReadyFor(t)'
  BY <1>2, <1>3, ZenonT(60) DEF ReadyFor, Queries
<1> QED  BY <1>2, <1>7, <1>8, <1>9, <1>10, OthersReady, ZenonT(60) DEF IInv, RowIntegrity, StoredIsThere

\* A call returns; a stored message has its row.
LEMMA ReturnIInv ==
  ASSUME IInv, NEW t \in Threads, Return(t) \/ ReturnError(t)
  PROVE  IInv'
<1>1. /\ req[t] \in Requests /\ holder = {t}
      /\ \A u \in Threads : u # t => pc[u] = "idle"
  BY Alone DEF Return, ReturnError
<1>2. /\ UNCHANGED <<ready, bound, seen, rows, now>>
      /\ pc' = [pc EXCEPT ![t] = "idle"]
      /\ req' = [req EXCEPT ![t] = Null]
      /\ since' = [since EXCEPT ![t] = 0]
      /\ col' = [col EXCEPT ![t] = 1]
      /\ got' = [got EXCEPT ![t] = {}]
      /\ holder' = holder \ {t}
  BY DEF Return, ReturnError, Forget
<1>3. \A u \in Threads : pc'[u] = "idle"
  BY <1>1, <1>2 DEF IInv, TypeOK
<1>4. stored' \in SUBSET Copies /\ StoredIsThere'
  <2>1. CASE stored' = stored
    BY <1>2, <2>1, ZenonT(60) DEF IInv, TypeOK, StoredIsThere
  <2>2. CASE stored' # stored
    <3>1. /\ pc[t] = "return" /\ req[t].op = "insert"
          /\ stored' = stored \cup {req[t].copy}
      BY <2>2, ZenonT(60) DEF Return, ReturnError
    <3>2. req[t].copy \in Copies /\ Present(req[t].copy)
      BY <1>1, <3>1, RequestKinds DEF IInv, Prepared, ReadyFor
    <3> QED  BY <1>2, <3>1, <3>2 DEF IInv, TypeOK, StoredIsThere, Present
  <2> QED  BY <2>1, <2>2, ZenonT(60)
<1>5. TypeOK'
  <2>1. 0 \in 0..MaxTime /\ 1 \in Columns
    BY TimeAssumption DEF Columns
  <2> QED  BY <1>2, <1>4, <2>1 DEF IInv, TypeOK
<1>6. Exclusive'
  BY <1>3, ZenonT(60) DEF Exclusive
<1>7. ReadyFor(t)'
  BY <1>2, <1>3 DEF ReadyFor, IInv, TypeOK
<1>8. \A u \in Threads : u # t => pc[u] = "idle" /\ pc'[u] = "idle" /\ got'[u] = got[u]
  BY <1>1, <1>2, <1>3, ZenonT(60) DEF IInv, TypeOK
<1> QED  BY <1>2, <1>4, <1>5, <1>6, <1>7, <1>8, OthersReady DEF IInv, RowIntegrity

\* Time passes: what was bound earlier is still an earlier time.
LEMMA SecondIInv ==
  ASSUME IInv, Second
  PROVE  IInv'
<1>1. /\ UNCHANGED <<ready, bound, seen, rows, holder, pc, req, since, col, got, stored>>
      /\ now' = now + 1 /\ now \in 0..MaxTime /\ now' \in 0..MaxTime
  BY TimeAssumption DEF Second, IInv, TypeOK
<1>2. TypeOK'
  BY <1>1 DEF IInv, TypeOK
<1>3. Exclusive'
  BY <1>1 DEF IInv, TypeOK, Exclusive
<1>4. \A q, k : \A from \in Nat : Arguments(q, k, from) \subseteq Arguments(q, k, from)'
  <2> SUFFICES ASSUME NEW q, NEW k, NEW from \in Nat, NEW x \in Arguments(q, k, from)
               PROVE  x \in Arguments(q, k, from)'
    OBVIOUS
  <2>1. PICK tm \in from..now : x = Argument(q, k, tm)
    BY DEF Arguments
  <2>2. tm \in from..now'
    BY <1>1, SMTT(60)
  <2> QED  BY <2>1, <2>2 DEF Arguments, Argument
<1>5. ASSUME NEW t \in Threads PROVE ReadyFor(t)'
  <2>1. ReadyFor(t) /\ since[t] \in Nat /\ since' = since /\ req' = req
    BY <1>1, SMTT(60) DEF IInv, Prepared, TypeOK
  <2>2. \A n : BoundTo(t, n) => BoundTo(t, n)'
    BY <1>1, <1>4, <2>1 DEF BoundTo
  <2>3. \A st : Selected(st)' = Selected(st)
    BY <1>1 DEF Selected, Selects
  <2>4. Present(req[t].copy) => Present(req[t].copy)'
    BY <1>1 DEF Present
  <2> QED  BY <1>1, <2>1, <2>2, <2>3, <2>4 DEF ReadyFor
<1> QED  BY <1>1, <1>2, <1>3, <1>5 DEF IInv, Prepared, RowIntegrity, StoredIsThere

\* Every step keeps the invariant, provided callers take the lock.
LEMMA NextIInv ==
  ASSUME Locked, IInv, [Next]_vars
  PROVE  IInv'
<1>1. ASSUME NEW t \in Threads,
             \/ \E c \in Copies : bc_store_save(t, c)
             \/ \E p \in Receivers : bc_store_get_for_peer(t, p)
             \/ \E u \in Uuids : bc_store_delete(t, u)
             \/ bc_store_cleanup(t)
             \/ get_all_pending(t) \/ evict_expired(t)
      PROVE  IInv'
  BY <1>1, CallIInv, ZenonT(60) DEF bc_store_save, bc_store_get_for_peer, bc_store_delete,
                        bc_store_cleanup, get_all_pending, evict_expired
<1>2. CASE UNCHANGED vars
  <2>1. UNCHANGED <<ready, bound, seen, rows, now, holder, pc, req, since, col, got, stored>>
    BY <1>2 DEF vars
  <2>2. Prepared'
    <3>1. \A st : Selected(st)' = Selected(st)
      BY <2>1 DEF Selected, Selects
    <3>2. \A q, k, from : Arguments(q, k, from)' = Arguments(q, k, from)
      BY <2>1, ZenonT(60) DEF Arguments, Argument
    <3>3. ASSUME NEW t \in Threads PROVE ReadyFor(t)'
      <4>1. ReadyFor(t)
        BY ZenonT(60) DEF IInv, Prepared
      <4>2. \A n : BoundTo(t, n)' = BoundTo(t, n)
        BY <2>1, <3>2 DEF BoundTo
      <4>3. Present(req[t].copy)' = Present(req[t].copy)
        BY <2>1 DEF Present
      <4> QED  BY <2>1, <3>1, <4>1, <4>2, <4>3, ZenonT(60) DEF ReadyFor
    <3> QED  BY <3>3 DEF Prepared
  <2> QED  BY <2>1, <2>2 DEF IInv, TypeOK, Exclusive, RowIntegrity, StoredIsThere
<1> QED
  BY <1>1, <1>2, ResetIInv, ClearIInv, BindIInv, StepIInv, FetchIInv, EndIInv, ReturnIInv,
     SecondIInv DEF Next

\* The invariant holds in every reachable state, if callers take the lock.
THEOREM InvariantHolds == ASSUME Locked PROVE Spec => []IInv
<1>1. IInv /\ [Next]_vars => IInv'
  BY NextIInv
<1> QED  BY <1>1, InitIInv, PTL DEF Spec

\* Every variable keeps its type, if callers take the lock.
THEOREM TypeCorrect == ASSUME Locked PROVE Spec => []TypeOK
  BY InvariantHolds, PTL DEF IInv

\* Callers that take the lock never store a row mixed from two messages.
THEOREM RowIntegrityHolds == ASSUME Locked PROVE Spec => []RowIntegrity
  BY InvariantHolds, PTL DEF IInv

\* What store_message has accepted from such callers stays in the table until
\* it is deleted or has expired.
THEOREM StoredIsThereHolds == ASSUME Locked PROVE Spec => []StoredIsThere
  BY InvariantHolds, PTL DEF IInv

-----------------------------------------------------------------------------
(* Every step is a step of the port, or none.                              *)

Calls == [t \in Threads |-> CallOf(t)]

\* One thread's call changes.
LEMMA CallsUpdate ==
  ASSUME NEW t \in Threads, NEW x, CallOf(t)' = x,
         \A u \in Threads : u # t => CallOf(u)' = CallOf(u)
  PROVE  Calls' = [Calls EXCEPT ![t] = x]
  BY ZenonT(60) DEF Calls

\* A call that begins, as seen by its caller.
LEMMA PortCall ==
  ASSUME IInv, NEW t \in Threads, NEW q, Call(t, q)
  PROVE  Port!Next
<1>1. q \in Requests
  BY GivenAssumption DEF Call
<1>2. CallOf(t) = Port!Idle
  BY DEF Call, CallOf, Port!Idle
<1>3. CallOf(t)' = [at |-> "called", req |-> q, since |-> now]
  BY DEF Call, CallOf, IInv, TypeOK
<1>4. \A u \in Threads : u # t => CallOf(u)' = CallOf(u)
  BY DEF Call, CallOf, IInv, TypeOK
<1>5. Kept(rows)' = Kept(rows) /\ now' = now
  BY DEF Call, Kept
<1>6. Port!Call(t, q)
  BY <1>2, <1>3, <1>4, <1>5, CallsUpdate DEF Port!Call, Calls
<1> QED  BY <1>1, <1>6 DEF Port!Next

\* Calls on a statement that write nothing are not seen.
LEMMA PortStutter ==
  ASSUME IInv, NEW t \in Threads,
         \/ Reset(t) \/ Clear(t) \/ Bind(t) \/ Fetch(t) \/ FetchNoMemory(t) \/ StepFails(t)
  PROVE  UNCHANGED <<Kept(rows), Calls, now>>
<1>1. /\ UNCHANGED <<rows, now, req, since>>
      /\ pc[t] \in {"reset", "clear", "bind", "step"}
      /\ \/ pc' = pc
         \/ \E p \in {"clear", "bind", "step", "failed"} : pc' = [pc EXCEPT ![t] = p]
  BY DEF Reset, Clear, Bind, Fetch, FetchNoMemory, StepFails
<1>2. /\ pc'[t] \in {"reset", "clear", "bind", "step", "failed"}
      /\ \A u \in Threads : u # t => pc'[u] = pc[u]
  BY <1>1, ZenonT(60) DEF IInv, TypeOK
<1>3. \A u \in Threads : u # t => got'[u] = got[u]
  BY DEF Reset, Clear, Bind, Fetch, FetchNoMemory, StepFails, IInv, TypeOK
<1>4. CallOf(t)' = CallOf(t)
  BY <1>1, <1>2 DEF CallOf
<1>5. \A u \in Threads : u # t => CallOf(u)' = CallOf(u)
  BY <1>1, <1>2, <1>3, ZenonT(60) DEF CallOf, Kept
<1>6. Kept(rows)' = Kept(rows)
  BY <1>1 DEF Kept
<1> QED  BY <1>1, <1>4, <1>5, <1>6, ZenonT(60) DEF Calls

\* The fields of a call that has not taken effect.
LEMMA CalledFields ==
  ASSUME NEW c, NEW r, NEW s, c = [at |-> "called", req |-> r, since |-> s]
  PROVE  c.at = "called" /\ c.req = r /\ c.since = s
OBVIOUS

\* The call of t takes effect when its statement has run.
LEMMA PortEffect ==
  ASSUME IInv, NEW t \in Threads, pc[t] = "step", UNCHANGED <<now, req, got>>,
         pc' = [pc EXCEPT ![t] = "return"],
         NEW tm \in since[t]..now,
         Kept(rows)' = Port!Outcome(req[t], tm),
         Kept(got[t]) = IF req[t].op \in {"all", "for"} THEN Port!Pending(req[t], tm) ELSE {},
         UNCHANGED since
  PROVE  Port!Next
<1>1. req[t] \in Requests
  BY Alone
<1>2. CallOf(t) = [at |-> "called", req |-> req[t], since |-> since[t]]
  BY ZenonT(60) DEF CallOf
<1>3. pc'[t] = "return" /\ \A u \in Threads : u # t => pc'[u] = pc[u]
  BY DEF IInv, TypeOK
<1>4. CallOf(t)' = [at |-> "done", req |-> req[t], got |-> Kept(got[t])]
  <2>1. Kept(got[t])' = Kept(got[t])
    BY ZenonT(60) DEF Kept
  <2> QED  BY <1>3, <2>1, ZenonT(60) DEF CallOf
<1>5. \A u \in Threads : u # t => CallOf(u)' = CallOf(u)
  BY <1>3, ZenonT(60) DEF CallOf, Kept
<1>6. Calls' = [Calls EXCEPT ![t] = [at |-> "done", req |-> req[t], got |-> Kept(got[t])]]
  BY <1>4, <1>5, CallsUpdate, ZenonT(60)
<1>7. Calls[t].at = "called" /\ Calls[t].req = req[t] /\ Calls[t].since = since[t]
  <2> DEFINE c == Calls[t]
  <2>1. c = CallOf(t)
    BY Zenon DEF Calls
  <2>2. c = [at |-> "called", req |-> req[t], since |-> since[t]]
    BY <1>2, <2>1, Zenon
  <2> HIDE DEF c
  <2>3. c.at = "called" /\ c.req = req[t] /\ c.since = since[t]
    BY <2>2, CalledFields, Zenon
  <2> QED  BY <2>3, Zenon DEF c
<1>8. Port!TakeEffect(t, req[t])
  BY <1>6, <1>7, ZenonT(60) DEF Port!TakeEffect, Calls
<1> QED  BY <1>1, <1>8, ZenonT(60) DEF Port!Next

\* A message and its row.
LEMMA KeptIs ==
  ASSUME NEW c \in Copies, NEW e \in Times,
         NEW x \in [copy : Copies, expires : Times], WholeRow(x.copy, x.expires) = WholeRow(c, e)
  PROVE  x = [copy |-> c, expires |-> e]
<1>1. x.copy = c /\ x.expires = e
  <2>1. /\ WholeRow(c, e)[1] = c /\ WholeRow(c, e)[6] = e
        /\ WholeRow(x.copy, x.expires)[1] = x.copy /\ WholeRow(x.copy, x.expires)[6] = x.expires
    BY WholeRowType
  <2> QED  BY <2>1
<1> QED  BY <1>1

\* What is kept, in terms of rows.
LEMMA KeptRow ==
  ASSUME NEW R, NEW x \in Kept(R)
  PROVE  /\ x.copy \in Copies /\ x.expires \in Times
         /\ WholeRow(x.copy, x.expires) \in R
         /\ \A k \in 1..5 : WholeRow(x.copy, x.expires)[k] = x.copy
         /\ WholeRow(x.copy, x.expires)[6] = x.expires
         /\ x.copy # Null
  BY WholeRowType DEF Kept

\* An insert takes effect as store_message promises.
LEMMA PortInsert ==
  ASSUME IInv, NEW t \in Threads, Step(t), req[t].op = "insert"
  PROVE  Port!Next
<1>1. req[t] \in Requests /\ req[t].copy \in Copies /\ BoundTo(t, 7)
  BY Alone, RequestKinds, SMTT(60) DEF Step, IInv, Prepared, ReadyFor, ParamCount
<1>2. PICK tm \in since[t]..now :
          /\ tm + Retention \in Times
          /\ bound["insert"] = WholeRow(req[t].copy, tm + Retention)
  BY <1>1, InsertBound
<1> DEFINE c == req[t].copy
           e == tm + Retention
<1>3. rows' = IF Present(c) THEN rows ELSE rows \cup {WholeRow(c, e)}
  BY <1>1, <1>2, InsertWhole, ZenonT(60) DEF Step
<1>4. Present(c) <=> \E x \in Kept(rows) : UuidOf[x.copy] = UuidOf[c]
  <2>1. ASSUME NEW r \in rows, r[1] # Null, UuidOf[r[1]] = UuidOf[c]
        PROVE  \E x \in Kept(rows) : UuidOf[x.copy] = UuidOf[c]
    <3>1. PICK d \in Copies, f \in Times : r = WholeRow(d, f) /\ r[1] = d
      BY RowsWhole, ZenonT(60)
    <3>2. [copy |-> d, expires |-> f] \in Kept(rows)
      BY <3>1, ZenonT(60) DEF Kept
    <3> QED  BY <2>1, <3>1, <3>2
  <2>2. ASSUME NEW x \in Kept(rows), UuidOf[x.copy] = UuidOf[c] PROVE Present(c)
    <3>1. /\ WholeRow(x.copy, x.expires) \in rows
          /\ WholeRow(x.copy, x.expires)[1] = x.copy /\ x.copy # Null
      BY KeptRow, SMTT(60)
    <3> QED  BY <2>2, <3>1, ZenonT(60) DEF Present
  <2> QED  BY <2>1, <2>2, ZenonT(60) DEF Present
<1>5. Kept(rows \cup {WholeRow(c, e)}) = Kept(rows) \cup {[copy |-> c, expires |-> e]}
  <2>1. \A x \in [copy : Copies, expires : Times] :
            WholeRow(x.copy, x.expires) = WholeRow(c, e) <=> x = [copy |-> c, expires |-> e]
    BY <1>1, <1>2, KeptIs, SMTT(60)
  <2>2. [copy |-> c, expires |-> e] \in [copy : Copies, expires : Times]
    BY <1>1, <1>2
  <2> QED  BY <2>1, <2>2, ZenonT(60) DEF Kept
<1>6. Kept(rows)' = Port!Outcome(req[t], tm)
  <2>1. Kept(rows)' = Kept(rows')
    BY DEF Kept
  <2> QED  BY <1>3, <1>4, <1>5, <2>1, ZenonT(60) DEF Port!Outcome
<1>7. Kept(got[t]) = {}
  BY DEF Step, Queries, IInv, Prepared, ReadyFor, Kept
<1> QED  BY <1>6, <1>7, PortEffect, ZenonT(60) DEF Step

\* So does a delete or an eviction.
LEMMA PortRemove ==
  ASSUME IInv, NEW t \in Threads, Step(t), req[t].op # "insert"
  PROVE  Port!Next
<1> DEFINE s == req[t].op
<1>1. /\ req[t] \in Requests /\ s \in {"delete", "evict"} /\ BoundTo(t, ParamCount(s) + 1)
      /\ since[t] \in 0..now /\ now \in Nat
  <2>1. req[t] \in Requests /\ s \in Stmts /\ since[t] \in 0..now /\ now \in 0..MaxTime
    BY Alone DEF Step
  <2>2. BoundTo(t, ParamCount(s) + 1)
    BY DEF Step, IInv, Prepared, ReadyFor
  <2> QED  BY <2>1, <2>2, TimeAssumption DEF Step, Stmts, Queries
<1>2. rows' = rows \ Selected(s) /\ ParamCount(s) = 1
  BY <1>1 DEF Step, ParamCount
<1>3. PICK tm \in since[t]..now : bound[s][1] = Argument(req[t], 1, tm)
  BY <1>1, <1>2 DEF BoundTo, Arguments
<1>4. Kept(rows)' = {x \in Kept(rows) : WholeRow(x.copy, x.expires) \notin Selected(s)}
  BY <1>2, ZenonT(60) DEF Kept
<1>5. ASSUME NEW x \in Kept(rows)
      PROVE  WholeRow(x.copy, x.expires) \in Selected(s) <=>
                 IF s = "delete" THEN UuidOf[x.copy] = req[t].uuid ELSE ~(x.expires >= tm)
  <2>1. /\ WholeRow(x.copy, x.expires) \in rows
        /\ WholeRow(x.copy, x.expires)[1] = x.copy /\ x.copy # Null
        /\ WholeRow(x.copy, x.expires)[6] = x.expires /\ x.expires \in Times
    BY KeptRow
  <2>2. CASE s = "delete"
    <3>1. bound[s][1] = req[t].uuid /\ req[t].uuid # Null
      BY <1>1, <1>3, <2>2, RequestKinds, KeysAssumption DEF Argument, Uuids
    <3> QED  BY <2>1, <2>2, <3>1 DEF Selected, Selects
  <2>3. CASE s = "evict"
    <3>1. bound[s][1] = tm /\ tm # Null /\ tm \in Int /\ x.expires \in Int
      BY <1>1, <1>3, <2>1, <2>3, TimeAssumption DEF Argument, Times
    <3>2. WholeRow(x.copy, x.expires) \in Selected(s) <=> x.expires < tm
      BY <2>1, <2>3, <3>1 DEF Selected, Selects
    <3> QED  BY <2>3, <3>1, <3>2
  <2> QED  BY <1>1, <2>2, <2>3, ZenonT(60)
<1>6. Kept(rows)' = Port!Outcome(req[t], tm)
  BY <1>1, <1>4, <1>5 DEF Port!Outcome
<1>7. Kept(got[t]) = {}
  BY ZenonT(60) DEF Step, IInv, Prepared, ReadyFor, Kept
<1> QED  BY <1>1, <1>6, <1>7, PortEffect, ZenonT(60) DEF Step

\* The rows that a query selects are the messages the port says it is about.
LEMMA QuerySelects ==
  ASSUME IInv, NEW t \in Threads, pc[t] = "step", req[t].op \in Queries
  PROVE  \E tm \in since[t]..now : Kept(Selected(req[t].op)) = Port!Pending(req[t], tm)
<1> DEFINE s == req[t].op
<1>1. /\ req[t] \in Requests /\ s \in Queries /\ BoundTo(t, ParamCount(s) + 1)
      /\ since[t] \in 0..now /\ now \in Nat
  <2>1. req[t] \in Requests /\ since[t] \in 0..now /\ now \in 0..MaxTime
    BY Alone
  <2>2. BoundTo(t, ParamCount(s) + 1) /\ s \in Queries
    BY ZenonT(60) DEF IInv, Prepared, ReadyFor
  <2>3. now \in Nat
    BY <2>1, TimeAssumption
  <2> QED  BY <2>1, <2>2, <2>3, Zenon
<1>2. PICK tm \in since[t]..now : bound[s][ParamCount(s)] = tm
  <2>1. ParamCount(s) \in 1..(ParamCount(s) + 1 - 1)
    BY SMTT(60) DEF ParamCount
  <2>2. PICK tm \in since[t]..now : bound[s][ParamCount(s)] = Argument(req[t], ParamCount(s), tm)
    BY <1>1, <2>1, SMTT(60) DEF BoundTo, Arguments
  <2> QED  BY <1>1, <2>2 DEF Argument, ParamCount, Queries
<1>3. s = "for" => bound[s][1] = req[t].to /\ req[t].to # Null
  <2> SUFFICES ASSUME s = "for" PROVE bound[s][1] = req[t].to /\ req[t].to # Null
    OBVIOUS
  <2>1. ParamCount(s) + 1 = 3 /\ 1 \in 1..(3 - 1)
    BY SMTT(60) DEF ParamCount
  <2>2. PICK early \in since[t]..now : bound[s][1] = Argument(req[t], 1, early)
    <3>1. BoundTo(t, 3)
      BY <1>1, <2>1
    <3>2. bound[req[t].op][1] \in Arguments(req[t], 1, since[t])
      BY <2>1, <3>1 DEF BoundTo
    <3> QED  BY <3>2 DEF Arguments
  <2>3. bound[s][1] = req[t].to
    BY <2>2, ZenonT(60) DEF Argument
  <2> QED  BY <1>1, <2>3, RequestKinds, KeysAssumption, ZenonT(60) DEF Receivers
<1>4. tm # Null /\ tm \in Int
  BY <1>1, TimeAssumption
<1>5. ASSUME NEW x \in Kept(rows)
      PROVE  WholeRow(x.copy, x.expires) \in Selected(s) <=>
                 x.expires >= tm /\ (s = "for" => ReceiverOf[x.copy] = req[t].to)
  <2>1. /\ WholeRow(x.copy, x.expires) \in rows
        /\ WholeRow(x.copy, x.expires)[3] = x.copy
        /\ WholeRow(x.copy, x.expires)[6] = x.expires
    BY KeptRow, SMTT(60)
  <2> QED  BY <1>1, <1>2, <1>3, <1>4, <2>1, ZenonT(60) DEF Selected, Selects, Queries, ParamCount
<1>6. Kept(Selected(s)) = {x \in Kept(rows) : WholeRow(x.copy, x.expires) \in Selected(s)}
  BY DEF Kept, Selected
<1>7. Kept(Selected(s)) = Port!Pending(req[t], tm)
  BY <1>1, <1>5, <1>6, ZenonT(60) DEF Port!Pending
<1> QED  BY <1>2, <1>7, Zenon

\* A query that ends without an error has returned what the port promises.
LEMMA PortFinish ==
  ASSUME ~ReadErrors, IInv, NEW t \in Threads, Finish(t)
  PROVE  Port!Next
<1> DEFINE s == req[t].op
<1>1. s \in Queries /\ pc[t] = "step" /\ got[t] = Selected(s)
  <2>1. s \in Queries /\ pc[t] = "step" /\ Selected(s) \subseteq seen[s]
    BY Zenon DEF Finish
  <2>2. got[t] = seen[s] /\ seen[s] \subseteq Selected(s)
    BY <2>1, ZenonT(60) DEF IInv, Prepared, ReadyFor
  <2> QED  BY <2>1, <2>2, Zenon
<1>2. PICK tm \in since[t]..now : Kept(got[t]) = Port!Pending(req[t], tm)
  BY <1>1, QuerySelects, Zenon
<1>3. Kept(rows)' = Port!Outcome(req[t], tm)
  BY <1>1 DEF Finish, Kept, Port!Outcome, Queries
<1> QED  BY <1>1, <1>2, <1>3, PortEffect, ZenonT(60) DEF Finish, Queries

\* A call that returns.
LEMMA PortReturn ==
  ASSUME IInv, NEW t \in Threads, Return(t) \/ ReturnError(t)
  PROVE  Port!Next
<1>1. /\ UNCHANGED <<rows, now>> /\ pc' = [pc EXCEPT ![t] = "idle"]
      /\ req' = [req EXCEPT ![t] = Null] /\ since' = [since EXCEPT ![t] = 0]
      /\ got' = [got EXCEPT ![t] = {}]
      /\ pc[t] \in {"return", "failed"}
  BY DEF Return, ReturnError, Forget
<1>2. CallOf(t)' = Port!Idle
  BY <1>1 DEF CallOf, Port!Idle, IInv, TypeOK
<1>3. \A u \in Threads : u # t => CallOf(u)' = CallOf(u)
  <2> SUFFICES ASSUME NEW u \in Threads, u # t PROVE CallOf(u)' = CallOf(u)
    OBVIOUS
  <2>1. pc'[u] = pc[u] /\ req'[u] = req[u] /\ since'[u] = since[u] /\ got'[u] = got[u]
    BY <1>1 DEF IInv, TypeOK
  <2> QED  BY <2>1 DEF CallOf, Kept
<1>4. Calls' = [Calls EXCEPT ![t] = Port!Idle]
  BY <1>2, <1>3, CallsUpdate
<1>5. Kept(rows)' = Kept(rows)
  BY <1>1 DEF Kept
<1>6. CASE pc[t] = "return"
  <2>1. Calls[t].at = "done"
    BY <1>6 DEF Calls, CallOf
  <2>2. Port!Return(t)
    BY <1>1, <1>4, <1>5, <2>1 DEF Port!Return, Calls
  <2> QED  BY <2>2 DEF Port!Next
<1>7. CASE pc[t] = "failed"
  <2>1. Calls[t].at = "called"
    BY <1>7 DEF Calls, CallOf
  <2>2. Port!Fail(t)
    BY <1>1, <1>4, <1>5, <2>1 DEF Port!Fail, Calls
  <2> QED  BY <2>2 DEF Port!Next
<1> QED  BY <1>1, <1>6, <1>7, ZenonT(60)

\* Time passes for the port too.
LEMMA PortTick ==
  ASSUME IInv, Second
  PROVE  Port!Next
<1>1. \A t \in Threads : CallOf(t)' = CallOf(t)
  BY DEF Second, CallOf, Kept
<1>2. Kept(rows)' = Kept(rows) /\ Calls' = Calls /\ now' = now + 1
  BY <1>1 DEF Second, Kept, Calls
<1> QED  BY <1>2 DEF Port!Next, Port!Tick, Calls

\* Every step but the end of a query is a step of the port or none, whether or
\* not reads fail.
LEMMA PortStep ==
  ASSUME IInv, [Next]_vars
  PROVE  Port!Next \/ UNCHANGED Port!vars \/ \E t \in Threads : Finish(t)
<1>1. ASSUME NEW t \in Threads, NEW q, Call(t, q) PROVE Port!Next
  BY <1>1, PortCall
<1>2. ASSUME NEW t \in Threads,
             \/ Reset(t) \/ Clear(t) \/ Bind(t) \/ Fetch(t) \/ FetchNoMemory(t) \/ StepFails(t)
      PROVE  UNCHANGED Port!vars
  BY <1>2, PortStutter DEF Port!vars, Calls
<1>3. ASSUME NEW t \in Threads, Step(t) \/ Return(t) \/ ReturnError(t)
      PROVE  Port!Next
  BY <1>3, PortInsert, PortRemove, PortReturn
<1>4. ASSUME UNCHANGED vars PROVE UNCHANGED Port!vars
  <2>1. \A t \in Threads : CallOf(t)' = CallOf(t)
    BY <1>4 DEF vars, CallOf, Kept
  <2>2. Kept(rows)' = Kept(rows) /\ now' = now
    BY <1>4 DEF vars, Kept
  <2> QED  BY <2>1, <2>2 DEF Port!vars
<1>5. ASSUME Second PROVE Port!Next
  BY <1>5, PortTick
<1> QED
  BY <1>1, <1>2, <1>3, <1>4, <1>5, ZenonT(60)
  DEF Next, bc_store_save, bc_store_get_for_peer, bc_store_delete, bc_store_cleanup,
      get_all_pending, evict_expired

\* Callers that take the lock see the operations of storage.h: each call takes
\* effect as a whole at one moment between its start and its return, if no
\* SELECT fails half-way.
THEOREM ImplementsPortHolds == ASSUME Locked, ~ReadErrors PROVE Spec => ImplementsPort
<1>1. Init => Port!Init
  <2> SUFFICES ASSUME Init PROVE Port!Init
    OBVIOUS
  <2>1. Kept(rows) = {}
    BY DEF Init, Kept
  <2>2. \A t \in Threads : CallOf(t) = Port!Idle
    BY ZenonT(60) DEF Init, CallOf, Port!Idle
  <2> QED  BY <2>1, <2>2 DEF Init, Port!Init
<1>2. IInv /\ [Next]_vars => [Port!Next]_Port!vars
  BY PortStep, PortFinish, ZenonT(60)
<1> QED  BY <1>1, <1>2, InvariantHolds, PTL DEF Spec, ImplementsPort, Port!Spec

\* get_pending gives its caller some of the messages it is about, and leaves the
\* table alone.
ShortRead == \E t \in Threads :
    /\ Finish(t)
    /\ Kept(rows)' = Kept(rows)
    /\ \E tm \in since[t]..now : Kept(got[t]) \subseteq Port!Pending(req[t], tm)

\* If SELECTs may fail half-way, unreported, the only thing storage.h loses is
\* that get_pending is complete: what it returns is still in the table, has not
\* expired and is for the receiver asked for, and every other call takes effect
\* as promised.
THEOREM FallsShortInReads ==
  ASSUME Locked
  PROVE  Spec => [][Port!Next \/ UNCHANGED Port!vars \/ ShortRead]_vars
<1>1. ASSUME IInv, NEW t \in Threads, Finish(t) PROVE ShortRead
  <2> DEFINE s == req[t].op
  <2>1. s \in Queries /\ pc[t] = "step" /\ got[t] \subseteq Selected(s)
    BY <1>1, ZenonT(60) DEF Finish, IInv, Prepared, ReadyFor
  <2>2. PICK tm \in since[t]..now : Kept(Selected(s)) = Port!Pending(req[t], tm)
    BY <1>1, <2>1, QuerySelects, Zenon
  <2>3. Kept(got[t]) \subseteq Kept(Selected(s))
    BY <2>1, ZenonT(60) DEF Kept
  <2>4. Kept(rows)' = Kept(rows)
    BY <1>1 DEF Finish, Kept
  <2> QED  BY <1>1, <2>2, <2>3, <2>4, ZenonT(60) DEF ShortRead
<1>2. IInv /\ [Next]_vars => [Port!Next \/ UNCHANGED Port!vars \/ ShortRead]_vars
  BY <1>1, PortStep, ZenonT(60)
<1> QED  BY <1>2, InvariantHolds, PTL DEF Spec

=============================================================================
