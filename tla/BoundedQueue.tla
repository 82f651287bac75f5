---------------------------- MODULE BoundedQueue ----------------------------
(***************************************************************************)
(* What the inbox of the FFI promises its poller: between init and         *)
(* shutdown, a first-in first-out queue of at most Capacity messages, from *)
(* which messages go only one by one.  A message offered to a full queue   *)
(* is dropped, which here is no step at all.                               *)
(***************************************************************************)
EXTENDS Naturals, Sequences

CONSTANTS Messages,
          Capacity,
          Nothing       \* what `taken' is before anything was taken

VARIABLES open,         \* is the core initialised?
          queue,
          taken         \* what was taken out last

Init == ~open /\ queue = <<>> /\ taken = Nothing

\* The queue comes into use, empty.
Open == /\ ~open /\ open'
        /\ queue = <<>>
        /\ UNCHANGED <<queue, taken>>

\* A message is added at the end, if there is room.
Offer(m) == /\ open
            /\ Len(queue) < Capacity
            /\ queue' = Append(queue, m)
            /\ UNCHANGED <<open, taken>>

\* The oldest message is taken out.
Take == /\ open
        /\ queue # <<>>
        /\ taken' = Head(queue)
        /\ queue' = Tail(queue)
        /\ UNCHANGED open

\* What is left at the end is thrown away.
Close == /\ open /\ ~open'
         /\ queue' = <<>>
         /\ UNCHANGED taken

Next == Open \/ (\E m \in Messages : Offer(m)) \/ Take \/ Close

Spec == Init /\ [][Next]_<<open, queue, taken>>

=============================================================================
