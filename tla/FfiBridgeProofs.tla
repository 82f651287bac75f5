--------------------------- MODULE FfiBridgeProofs ---------------------------
(***************************************************************************)
(* Theorems about the FFI's global state, for a ring of any size and any   *)
(* identities and messages.                                                *)
(***************************************************************************)
EXTENDS FfiBridge, TLAPS

-----------------------------------------------------------------------------
(* The inductive invariant.                                                *)

\* The router was created for the key in use.
RouterOwnsKey == router # None => router = secret

\* Every queued slot points to a message that is alive.
QueueAlive == \A i \in 1..Count : Nth(i) \in Messages

IInv == TypeOK /\ NothingLeaks /\ RouterOwnsKey /\ QueueAlive

-----------------------------------------------------------------------------
(* Arithmetic of the ring.                                                 *)

\* The successor of a slot without the remainder.
LEMMA SuccSlot ==
  ASSUME NEW i \in Slots
  PROVE  Succ(i) = IF i = N - 1 THEN 0 ELSE i + 1
<1>1. CASE i = N - 1
  BY <1>1, RingAssumption DEF Succ, Slots
<1>2. CASE i # N - 1
  <2>1. i + 1 \in 0..(N - 1)
    BY <1>2, RingAssumption DEF Slots
  <2>2. (i + 1) % N = i + 1
    BY <2>1, RingAssumption
  <2> QED  BY <1>2, <2>2 DEF Succ
<1> QED  BY <1>1, <1>2

\* At most N - 1 messages are queued.
LEMMA CountType == TypeOK => Count \in 0..(N - 1)
  BY RingAssumption DEF TypeOK, Slots, Count

\* A message put into the head slot becomes the last one.
LEMMA EnqueueStep ==
  ASSUME TypeOK, NEW m, ~InboxFull, UNCHANGED tail,
         inbox' = [inbox EXCEPT ![head] = m], head' = Succ(head)
  PROVE  /\ Count < N - 1
         /\ Count' = Count + 1
         /\ \A i \in 1..Count : Nth(i)' = Nth(i)
         /\ Nth(Count)' = m
<1>1. head \in Slots /\ tail \in Slots /\ inbox \in [Slots -> Messages \cup {None, Dangling}]
  BY DEF TypeOK
<1>2. head' = IF head = N - 1 THEN 0 ELSE head + 1
  BY <1>1, SuccSlot
<1>3. head' # tail
  BY DEF InboxFull
<1>4. Count < N - 1 /\ Count' = Count + 1
  BY <1>1, <1>2, <1>3, RingAssumption DEF Count, Slots
<1>5. ASSUME NEW i \in 1..Count  PROVE Nth(i)' = Nth(i)
  BY <1>1, <1>4, <1>5, RingAssumption DEF Nth, Count, Slots
<1>6. Nth(Count)' = m
  <2>1. head = IF tail + Count' <= N THEN tail + Count' - 1 ELSE tail + Count' - 1 - N
    BY <1>1, <1>4, RingAssumption, SMTT(60) DEF Count, Slots
  <2>2. Nth(Count)' = inbox'[head]
    BY <2>1 DEF Nth
  <2> QED  BY <1>1, <2>2
<1> QED  BY <1>4, <1>5, <1>6

\* Advancing the tail drops the first message.
LEMMA DequeueStep ==
  ASSUME TypeOK, tail # head, UNCHANGED head,
         inbox' = [inbox EXCEPT ![tail] = Dangling], tail' = Succ(tail)
  PROVE  /\ Count > 0
         /\ Count' = Count - 1
         /\ inbox[tail] = Nth(1)
         /\ \A i \in 1..(Count - 1) : Nth(i)' = Nth(i + 1)
<1>1. head \in Slots /\ tail \in Slots /\ inbox \in [Slots -> Messages \cup {None, Dangling}]
  BY DEF TypeOK
<1>2. tail' = IF tail = N - 1 THEN 0 ELSE tail + 1
  BY <1>1, SuccSlot
<1>3. Count > 0 /\ Count' = Count - 1
  BY <1>1, <1>2, RingAssumption DEF Count, Slots
<1>4. inbox[tail] = Nth(1)
  BY <1>1, RingAssumption DEF Nth, Slots
<1>5. ASSUME NEW i \in 1..(Count - 1)  PROVE Nth(i)' = Nth(i + 1)
  BY <1>1, <1>2, <1>5, RingAssumption DEF Nth, Count, Slots
<1> QED  BY <1>3, <1>4, <1>5

\* Without a change of the ring the queue stays as it is.
LEMMA SameQueue ==
  ASSUME UNCHANGED <<inbox, head, tail>>
  PROVE  Count' = Count /\ \A i : Nth(i)' = Nth(i)
  BY DEF Count, Nth

-----------------------------------------------------------------------------
(* The invariant is inductive.                                             *)

\* The zeroed global state satisfies the invariant.
LEMMA InitIInv == Init => IInv
<1> SUFFICES ASSUME Init PROVE IInv
  OBVIOUS
<1>1. TypeOK
  <2>1. {initialized, transport, discovery, callback} \subseteq BOOLEAN
    BY ZenonT(60) DEF Init
  <2>2. inbox \in [Slots -> Messages \cup {None, Dangling}]
    BY DEF Init
  <2>3. head \in Slots /\ tail \in Slots
    BY RingAssumption DEF Init, Slots
  <2>4. heap \in [Kinds -> Nat]
    BY DEF Init
  <2>5. {secret, router, polled, pushed} = {None}
    BY DEF Init
  <2> QED  BY <2>1, <2>2, <2>3, <2>4, <2>5 DEF TypeOK
<1>2. Count = 0
  BY DEF Init, Count
<1>3. NothingLeaks
  BY <1>2 DEF Init, NothingLeaks, Kinds, One
<1>4. RouterOwnsKey /\ QueueAlive
  BY <1>2 DEF Init, RouterOwnsKey, QueueAlive
<1> QED  BY <1>1, <1>3, <1>4 DEF IInv

\* Setting up the core.
LEMMA InitCall == IInv /\ bitchat_init => IInv'
<1> SUFFICES ASSUME IInv, bitchat_init PROVE IInv'
  OBVIOUS
<1> USE DEF IInv
<1>1. Count' = Count /\ \A i : Nth(i)' = Nth(i)
  BY SameQueue DEF bitchat_init
<1>2. TypeOK'
  BY DEF TypeOK, bitchat_init, bc_transport_ble_create, Kinds, One
<1>3. NothingLeaks'
  BY <1>1 DEF TypeOK, NothingLeaks, bitchat_init, bc_transport_ble_create, Kinds, One
<1>4. RouterOwnsKey' /\ QueueAlive'
  BY <1>1 DEF RouterOwnsKey, QueueAlive, bitchat_init
<1> QED  BY <1>2, <1>3, <1>4

\* A new or a loaded identity.
LEMMA IdentityCall == ASSUME IInv, NEW k \in Keys, UseIdentity(k) PROVE IInv'
<1> USE DEF IInv
<1>1. Count' = Count /\ \A i : Nth(i)' = Nth(i)
  BY SameQueue DEF UseIdentity
<1>2. TypeOK'
  BY DEF TypeOK, NothingLeaks, UseIdentity, Kinds, One
<1>3. NothingLeaks'
  BY <1>1, MessageAssumption DEF TypeOK, NothingLeaks, UseIdentity, Kinds, One
<1>4. RouterOwnsKey' /\ QueueAlive'
  BY <1>1 DEF RouterOwnsKey, QueueAlive, UseIdentity
<1> QED  BY <1>2, <1>3, <1>4

\* A message for us.
LEMMA MessageCall ==
  ASSUME IInv, NEW m \in Messages, NEW memory \in BOOLEAN, on_message_received(m, memory)
  PROVE  IInv'
<1> USE DEF IInv
<1>0. pushed' \in Messages \cup {None}
  BY DEF TypeOK, on_message_received
<1>1. CASE UNCHANGED <<inbox, head, heap>>
  <2>1. Count' = Count /\ \A i : Nth(i)' = Nth(i)
    BY <1>1, SameQueue DEF on_message_received
  <2> QED  BY <1>0, <1>1, <2>1, ZenonT(60) DEF TypeOK, NothingLeaks, RouterOwnsKey, QueueAlive, on_message_received
<1>2. CASE /\ ~InboxFull
           /\ inbox' = [inbox EXCEPT ![head] = m]
           /\ head' = Succ(head)
           /\ heap' = [heap EXCEPT !["message"] = @ + 1]
  <2>1. UNCHANGED <<initialized, secret, router, transport, discovery, callback, tail, polled>> /\ initialized
    BY DEF on_message_received
  <2>2. /\ Count' = Count + 1
        /\ \A i \in 1..Count : Nth(i)' = Nth(i)
        /\ Nth(Count)' = m
    BY <1>2, <2>1, EnqueueStep, ZenonT(60)
  <2>3. head' \in Slots
    BY <1>2, SuccSlot, RingAssumption DEF TypeOK, Slots
  <2>4. TypeOK'
    BY <1>0, <1>2, <2>1, <2>3 DEF TypeOK, Kinds
  <2>5. NothingLeaks'
    BY <1>2, <2>1, <2>2, ZenonT(60) DEF TypeOK, NothingLeaks, Kinds
  <2>6. QueueAlive'
    BY <2>2, CountType DEF QueueAlive
  <2> QED  BY <2>1, <2>4, <2>5, <2>6 DEF RouterOwnsKey
<1> QED  BY <1>1, <1>2 DEF on_message_received

\* Taking out a message.
LEMMA PollCall == IInv /\ bitchat_poll_messages => IInv'
<1> SUFFICES ASSUME IInv, bitchat_poll_messages PROVE IInv'
  OBVIOUS
<1> USE DEF IInv
<1>1. /\ Count > 0
      /\ Count' = Count - 1
      /\ inbox[tail] = Nth(1)
      /\ \A i \in 1..(Count - 1) : Nth(i)' = Nth(i + 1)
  BY DequeueStep DEF bitchat_poll_messages
<1>2. tail' \in Slots
  BY SuccSlot, RingAssumption DEF TypeOK, Slots, bitchat_poll_messages
<1>3. polled' \in Messages
  BY <1>1, CountType DEF QueueAlive, bitchat_poll_messages
<1>4. heap["message"] = Count /\ Count \in Nat
  BY CountType DEF NothingLeaks
<1>5. TypeOK'
  BY <1>1, <1>2, <1>3, <1>4 DEF TypeOK, bitchat_poll_messages, Release, Kinds
<1>6. NothingLeaks'
  BY <1>1, <1>4, ZenonT(60) DEF TypeOK, NothingLeaks, bitchat_poll_messages, Release, Kinds
<1>7. RouterOwnsKey'
  BY DEF RouterOwnsKey, bitchat_poll_messages
<1>8. QueueAlive'
  BY <1>1, <1>4 DEF QueueAlive
<1> QED  BY <1>5, <1>6, <1>7, <1>8

\* Setting or clearing the callback.
LEMMA CallbackCall ==
  ASSUME IInv, NEW b \in BOOLEAN, bitchat_set_on_message_callback(b) PROVE IInv'
<1> USE DEF IInv, bitchat_set_on_message_callback
<1>1. Count' = Count /\ \A i : Nth(i)' = Nth(i)
  BY SameQueue
<1>2. TypeOK'
  BY DEF TypeOK
<1>3. NothingLeaks' /\ RouterOwnsKey' /\ QueueAlive'
  BY <1>1, ZenonT(60) DEF NothingLeaks, RouterOwnsKey, QueueAlive
<1> QED  BY <1>2, <1>3

\* The end.
LEMMA ShutdownCall == IInv /\ bitchat_shutdown => IInv'
<1> SUFFICES ASSUME IInv, bitchat_shutdown PROVE IInv'
  OBVIOUS
<1> USE DEF IInv
<1>1. Count' = 0
  BY DEF bitchat_shutdown, Count
<1>2. heap' = [k \in Kinds |-> 0]
  BY CountType DEF bitchat_shutdown, NothingLeaks, One, Kinds
<1>3. TypeOK'
  <2>1. inbox' \in [Slots -> Messages \cup {None, Dangling}]
    BY DEF TypeOK, bitchat_shutdown
  <2>2. head' \in Slots /\ tail' \in Slots
    BY RingAssumption DEF bitchat_shutdown, Slots
  <2>3. {initialized', transport', discovery', callback'} \subseteq BOOLEAN
    BY ZenonT(60) DEF bitchat_shutdown
  <2>4. heap' \in [Kinds -> Nat]
    BY <1>2
  <2>5. secret' = None /\ router' = None /\ UNCHANGED <<polled, pushed>>
    BY DEF bitchat_shutdown
  <2> QED  BY <2>1, <2>2, <2>3, <2>4, <2>5 DEF TypeOK
<1>4. NothingLeaks'
  BY <1>1, <1>2 DEF NothingLeaks, bitchat_shutdown, One, Kinds
<1>5. RouterOwnsKey' /\ QueueAlive'
  BY <1>1 DEF RouterOwnsKey, QueueAlive, bitchat_shutdown
<1> QED  BY <1>3, <1>4, <1>5

\* Every call keeps the invariant.
LEMMA NextIInv == IInv /\ [Next]_vars => IInv'
<1> SUFFICES ASSUME IInv, [Next]_vars PROVE IInv'
  OBVIOUS
<1>1. CASE UNCHANGED vars
  <2>1. Count' = Count /\ \A i : Nth(i)' = Nth(i)
    BY <1>1, SameQueue DEF vars
  <2> QED  BY <1>1, <2>1 DEF vars, IInv, TypeOK, NothingLeaks, RouterOwnsKey, QueueAlive
<1>2. CASE bitchat_generate_identity \/ bitchat_load_identity
  BY <1>2, IdentityCall DEF bitchat_generate_identity, bitchat_load_identity,
                           bc_identity_generate, bc_identity_deserialize
<1>3. CASE \E m \in Messages, memory \in BOOLEAN : on_message_received(m, memory)
  BY <1>3, MessageCall
<1>4. CASE \E b \in BOOLEAN : bitchat_set_on_message_callback(b)
  BY <1>4, CallbackCall
<1>5. CASE bitchat_init \/ bitchat_poll_messages \/ bitchat_shutdown
  BY <1>5, InitCall, PollCall, ShutdownCall
<1> QED  BY <1>1, <1>2, <1>3, <1>4, <1>5 DEF Next

\* The invariant holds in every reachable state.
THEOREM InvariantHolds == Spec => []IInv
  BY InitIInv, NextIInv, PTL DEF Spec

\* Type correctness of the bridge.
THEOREM TypeCorrect == Spec => []TypeOK
  BY InvariantHolds, PTL DEF IInv

\* g_state owns what is allocated: nothing is freed twice or forgotten, and
\* nothing is left after bitchat_shutdown.
THEOREM NothingLeaksHolds == Spec => []NothingLeaks
  BY InvariantHolds, PTL DEF IInv

\* No change of identity separates the key in use from the router's: what the
\* router hands up can be decrypted for the callback.
THEOREM PushedOnArrivalHolds == Spec => PushedOnArrival
<1> DEFINE A == \A m \in Genuine : on_message_received(m, TRUE) /\ callback => pushed' = m
<1>1. IInv => A
  BY DEF IInv, RouterOwnsKey, on_message_received
<1>2. Spec => [][A]_vars
  BY <1>1, InvariantHolds, PTL DEF Spec
<1> QED  BY <1>2 DEF PushedOnArrival

-----------------------------------------------------------------------------
(* The inbox is a bounded queue.                                           *)

\* The queue the ring stands for.
Content == [i \in 1..Count |-> Nth(i)]

\* The ring's content, read from tail to head, is a sequence of messages.
LEMMA ContentType ==
  ASSUME IInv
  PROVE  Content \in Seq(Messages) /\ Len(Content) = Count /\ Count \in 0..(N - 1)
<1>1. Count \in 0..(N - 1)
  BY CountType DEF IInv
<1>2. Content \in [1..Count -> Messages]
  BY DEF Content, IInv, QueueAlive
<1> QED  BY <1>1, <1>2, RingAssumption

\* A step of the bridge offers, takes, clears or leaves the queue alone.
LEMMA QueueStep ==
  IInv /\ [Next]_vars => [Inbox!Next]_<<initialized, Content, polled>>
<1> SUFFICES ASSUME IInv, [Next]_vars PROVE [Inbox!Next]_<<initialized, Content, polled>>
  OBVIOUS
<1>0. IInv'
  BY NextIInv
<1>1. ASSUME UNCHANGED <<initialized, inbox, head, tail, polled>>
      PROVE  UNCHANGED <<initialized, Content, polled>>
  BY <1>1, SameQueue DEF Content
<1>2. ASSUME NEW m \in Messages, NEW memory \in BOOLEAN, on_message_received(m, memory)
      PROVE  Inbox!Offer(m) \/ UNCHANGED <<initialized, Content, polled>>
  <2>1. CASE UNCHANGED <<inbox, head, heap>>
    BY <1>1, <1>2, <2>1 DEF on_message_received
  <2>2. CASE ~InboxFull /\ inbox' = [inbox EXCEPT ![head] = m] /\ head' = Succ(head)
    <3>1. /\ Count < N - 1
          /\ Count' = Count + 1
          /\ \A i \in 1..Count : Nth(i)' = Nth(i)
          /\ Nth(Count)' = m
      BY <1>2, <2>2, EnqueueStep, ZenonT(60) DEF IInv, on_message_received
    <3>2. Content' = Append(Content, m)
      BY <3>1, ContentType DEF Content
    <3> QED  BY <1>2, <3>1, <3>2, ContentType DEF Inbox!Offer, Content, on_message_received
  <2> QED  BY <1>2, <2>1, <2>2 DEF on_message_received
<1>3. ASSUME bitchat_poll_messages  PROVE Inbox!Take
  <2>1. /\ Count > 0
        /\ Count' = Count - 1
        /\ inbox[tail] = Nth(1)
        /\ \A i \in 1..(Count - 1) : Nth(i)' = Nth(i + 1)
    BY <1>3, DequeueStep DEF IInv, bitchat_poll_messages
  <2>2. Content # <<>> /\ polled' = Head(Content)
    BY <1>3, <2>1, ContentType DEF Content, bitchat_poll_messages
  <2>3. Content' = Tail(Content)
    BY <2>1, ContentType DEF Content
  <2> QED  BY <1>3, <2>2, <2>3, ZenonT(60) DEF Inbox!Take, Content, bitchat_poll_messages
<1>4. ASSUME bitchat_shutdown  PROVE Inbox!Close
  <2>1. Count' = 0 /\ polled' = polled /\ initialized /\ ~initialized'
    BY <1>4 DEF bitchat_shutdown, Count
  <2>2. Content' = <<>>
    BY <2>1 DEF Content
  <2> QED  BY <2>1, <2>2 DEF Inbox!Close, Content
<1>5. CASE UNCHANGED vars
  BY <1>1, <1>5 DEF vars
<1>6. CASE bitchat_generate_identity \/ bitchat_load_identity
           \/ \E b \in BOOLEAN : bitchat_set_on_message_callback(b)
  BY <1>1, <1>6 DEF bitchat_generate_identity, bitchat_load_identity, UseIdentity,
                    bitchat_set_on_message_callback
<1>7. ASSUME bitchat_init  PROVE Inbox!Open
  <2>1. Count' = Count /\ (\A i : Nth(i)' = Nth(i)) /\ polled' = polled
    BY <1>7, SameQueue DEF bitchat_init
  <2>2. Content' = Content
    BY <2>1 DEF Content
  <2>3. Count = 0
    BY <1>7, MessageAssumption, CountType DEF bitchat_init, IInv, NothingLeaks, Kinds
  <2>4. Content = <<>>
    BY <2>3 DEF Content
  <2> QED  BY <1>7, <2>1, <2>2, <2>4 DEF Inbox!Open, Content, bitchat_init
<1> QED  BY <1>2, <1>3, <1>4, <1>5, <1>6, <1>7 DEF Next, Inbox!Next, Content

\* The ring of N slots implements a queue of N - 1 messages.
THEOREM ImplementsQueueHolds == Spec => ImplementsQueue
<1>1. Init => Inbox!Init
  BY DEF Init, Inbox!Init, Count, Nth
<1>2. IInv /\ [Next]_vars => [Inbox!Next]_<<initialized, [i \in 1..Count |-> Nth(i)], polled>>
  BY QueueStep DEF Content
<1> QED  BY <1>1, <1>2, InvariantHolds, PTL DEF Spec, ImplementsQueue, Inbox!Spec

=============================================================================
