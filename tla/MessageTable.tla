---------------------------- MODULE MessageTable ----------------------------
(***************************************************************************)
(* What the storage port promises its callers (port/storage.h).  A call    *)
(* takes effect as a whole at one moment between its start and its return, *)
(* and reads the clock once in between.  store_message keeps the row that  *)
(* is there when the UUID is known, get_pending finds the unexpired        *)
(* messages, all of them or those for one receiver, delete_message and     *)
(* evict_expired remove rows.  A call that fails has done nothing.         *)
(***************************************************************************)
EXTENDS Integers

CONSTANTS Threads,
          Requests,    \* calls of the port's functions, with their arguments
          UuidOf,      \* the primary key of each message
          ReceiverOf,  \* and its receiver
          Retention    \* STORAGE_DEFAULT_RETENTION_SEC

VARIABLES table,       \* the messages kept, each with its time of expiry
          calls,       \* the call each thread is in
          now          \* the wall clock

vars == <<table, calls, now>>

Idle == [at |-> "idle"]

Init == /\ table = {}
        /\ calls = [t \in Threads |-> Idle]
        /\ now = 0

Call(t, q) == /\ calls[t] = Idle
              /\ calls' = [calls EXCEPT ![t] = [at |-> "called", req |-> q, since |-> now]]
              /\ UNCHANGED <<table, now>>

\* The messages a get_pending at time tm is about.
Pending(q, tm) == {x \in table : x.expires >= tm /\ (q.op = "for" => ReceiverOf[x.copy] = q.to)}

\* The table after request q at time tm.  What expires was settled when it was
\* stored: the age evict_expired is given makes no difference.
Outcome(q, tm) ==
    CASE q.op = "insert" -> IF \E x \in table : UuidOf[x.copy] = UuidOf[q.copy]
                            THEN table
                            ELSE table \cup {[copy |-> q.copy, expires |-> tm + Retention]}
      [] q.op = "delete" -> {x \in table : UuidOf[x.copy] # q.uuid}
      [] q.op = "evict"  -> {x \in table : x.expires >= tm}
      [] OTHER           -> table

TakeEffect(t, q) ==
    /\ calls[t].at = "called" /\ calls[t].req = q
    /\ \E tm \in calls[t].since..now :
           /\ table' = Outcome(q, tm)
           /\ calls' = [calls EXCEPT ![t] =
                  [at |-> "done", req |-> q,
                   got |-> IF q.op \in {"all", "for"} THEN Pending(q, tm) ELSE {}]]
    /\ UNCHANGED now

Return(t) == /\ calls[t].at = "done"
             /\ calls' = [calls EXCEPT ![t] = Idle]
             /\ UNCHANGED <<table, now>>

\* BC_ERR_STORAGE or BC_ERR_NOMEM.
Fail(t) == /\ calls[t].at = "called"
           /\ calls' = [calls EXCEPT ![t] = Idle]
           /\ UNCHANGED <<table, now>>

Tick == now' = now + 1 /\ UNCHANGED <<table, calls>>

Next == \/ \E t \in Threads : \/ \E q \in Requests : Call(t, q) \/ TakeEffect(t, q)
                              \/ Return(t) \/ Fail(t)
        \/ Tick

Spec == Init /\ [][Next]_vars

=============================================================================
