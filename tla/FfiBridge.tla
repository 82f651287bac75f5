------------------------------ MODULE FfiBridge ------------------------------
(***************************************************************************)
(* The global state behind the flat C interface (bitchat_ffi.c): identity, *)
(* router, push callback and the ring buffer of received messages.         *)
(*                                                                         *)
(* Every public function holds the recursive g_state.mutex from its first  *)
(* check to its return, so that a call is one action here; JniBridge is    *)
(* about the mutex itself.  A call that only returns an error changes      *)
(* nothing and has no action.  The router hands up a message addressed to  *)
(* its local_pubkey at any time and any number of times, as Mesh shows it  *)
(* may; bitchat_send_message, which works on the router's and the store's  *)
(* state alone, is Broadcast in Mesh.                                      *)
(***************************************************************************)
EXTENDS Integers, Sequences

CONSTANTS Keys,        \* identities
          Messages,
          Addressee,   \* receiver_pubkey of each message
          Genuine,     \* messages whose payload decrypts for their addressee
          N,           \* slots of the inbox (256)
          None,        \* a null pointer, a wiped key
          Dangling     \* a pointer to a message that was freed

ASSUME RingAssumption == N \in Nat /\ N > 1

ASSUME MessageAssumption == /\ Addressee \in [Messages -> Keys]
                            /\ Genuine \subseteq Messages
                            /\ {None, Dangling} \cap (Messages \cup Keys) = {}
                            /\ None # Dangling

VARIABLES
    initialized,
    secret,       \* identity.secret_key
    router,       \* local_pubkey of the router, or None
    transport,    \* is there a transport?
    discovery,    \* is there a discovery object?
    callback,     \* is user_callback set?
    inbox, head, tail,
    heap,         \* how many objects of each kind are allocated
    polled,       \* the message poll took out last
    pushed        \* the message the callback got last

vars == <<initialized, secret, router, transport, discovery, callback, inbox, head, tail, heap,
          polled, pushed>>

Kinds == {"storage", "transport", "router", "discovery", "message"}
Slots == 0..(N - 1)

\* The type of every variable.
TypeOK == /\ initialized \in BOOLEAN
          /\ secret \in Keys \cup {None}
          /\ router \in Keys \cup {None}
          /\ transport \in BOOLEAN
          /\ discovery \in BOOLEAN
          /\ callback \in BOOLEAN
          /\ inbox \in [Slots -> Messages \cup {None, Dangling}]
          /\ head \in Slots /\ tail \in Slots
          /\ heap \in [Kinds -> Nat]
          /\ polled \in Messages \cup {None}
          /\ pushed \in Messages \cup {None}

Init == /\ initialized = FALSE
        /\ secret = None
        /\ router = None
        /\ transport = FALSE
        /\ discovery = FALSE
        /\ callback = FALSE
        /\ inbox = [s \in Slots |-> None]
        /\ head = 0 /\ tail = 0
        /\ heap = [k \in Kinds |-> 0]
        /\ polled = None
        /\ pushed = None

-----------------------------------------------------------------------------
(* The ring.                                                               *)

\* (i + 1) % 256
Succ(i) == (i + 1) % N

\* Mutant of InboxFull: every slot may be used.
InboxFull_Never == FALSE

\* One slot stays empty to tell a full ring from an empty one.
InboxFull == Succ(head) = tail

\* How many messages are queued, and in which slots.
Count == IF tail <= head THEN head - tail ELSE head - tail + N
Queued == IF tail <= head THEN tail..(head - 1) ELSE Slots \ head..(tail - 1)

\* Mutant of Release: the message is freed on two paths.
Release_Twice(h) == [h EXCEPT !["message"] = @ - 2]

\* bc_message_destroy of one message of the inbox.
Release(h) == [h EXCEPT !["message"] = @ - 1]

\* What if (p) destroy(p) frees.
One(exists) == IF exists THEN 1 ELSE 0

-----------------------------------------------------------------------------
(* The calls.                                                              *)

\* Does the constructor return a transport?  Not when memory is short.
bc_transport_ble_create == BOOLEAN

\* The storage opened; the transport's constructor may still have failed, which
\* is not checked.
bitchat_init ==
    /\ ~initialized
    /\ initialized' = TRUE
    /\ transport' \in bc_transport_ble_create
    /\ heap' = [heap EXCEPT !["storage"] = @ + 1, !["transport"] = @ + One(transport')]
    /\ UNCHANGED <<secret, router, discovery, callback, inbox, head, tail, polled, pushed>>

\* Mutant of UseIdentity: a router that is there is kept.
UseIdentity_KeepRouter(k) ==
    /\ initialized
    /\ secret' = k
    /\ router' = IF router = None THEN k ELSE router
    /\ discovery' = TRUE
    /\ heap' = [heap EXCEPT !["router"] = 1, !["discovery"] = 1]
    /\ UNCHANGED <<initialized, transport, callback, inbox, head, tail, polled, pushed>>

\* The common end of bitchat_generate_identity and bitchat_load_identity: the
\* router is destroyed and created anew, then the discovery object.  Either
\* allocation may fail; without a router the old discovery object stays.
UseIdentity(k) ==
    /\ initialized
    /\ secret' = k
    /\ \/ /\ router' = None
          /\ heap' = [heap EXCEPT !["router"] = @ - One(router # None)]
          /\ UNCHANGED discovery
       \/ /\ router' = k
          /\ discovery' \in BOOLEAN
          /\ heap' = [heap EXCEPT !["router"] = @ - One(router # None) + 1,
                                  !["discovery"] = @ - One(discovery) + One(discovery')]
    /\ UNCHANGED <<initialized, transport, callback, inbox, head, tail, polled, pushed>>

\* The key pairs a call may make: one never seen before.
bc_identity_generate == Keys \ {secret}

\* The key pairs 64 bytes given to the call may hold: any pair saved earlier,
\* which may be the present one.
bc_identity_deserialize == Keys

bitchat_generate_identity == \E k \in bc_identity_generate : UseIdentity(k)

bitchat_load_identity == \E k \in bc_identity_deserialize : UseIdentity(k)

\* on_message_received, called by bc_router_receive in bitchat_tick.  The copy
\* is queued if there is room; then, queued or not, the message is decrypted
\* for the callback.  Short of memory, the copy or the plaintext may be missing.
on_message_received(m, memory) ==
    /\ initialized /\ router # None
    /\ Addressee[m] = router
    /\ \/ /\ ~InboxFull
          /\ inbox' = [inbox EXCEPT ![head] = m]
          /\ head' = Succ(head)
          /\ heap' = [heap EXCEPT !["message"] = @ + 1]
       \/ (InboxFull \/ ~memory) /\ UNCHANGED <<inbox, head, heap>>
    /\ \/ pushed' = IF callback /\ m \in Genuine /\ secret = Addressee[m] THEN m ELSE pushed
       \/ ~memory /\ UNCHANGED pushed
    /\ UNCHANGED <<initialized, secret, router, transport, discovery, callback, tail, polled>>

\* Whatever becomes of the message (written to the buffer, too short, not
\* decryptable, longer than the buffer), it has left the inbox.
bitchat_poll_messages ==
    /\ initialized
    /\ tail # head
    /\ polled' = inbox[tail]
    /\ inbox' = [inbox EXCEPT ![tail] = Dangling]
    /\ tail' = Succ(tail)
    /\ heap' = Release(heap)
    /\ UNCHANGED <<initialized, secret, router, transport, discovery, callback, head, pushed>>

bitchat_set_on_message_callback(b) ==
    /\ initialized
    /\ callback' = b
    /\ UNCHANGED <<initialized, secret, router, transport, discovery, inbox, head, tail, heap,
                   polled, pushed>>

\* Mutant of bitchat_shutdown: the inbox is reset but not drained.
bitchat_shutdown_NoDrain ==
    /\ initialized
    /\ initialized' = FALSE
    /\ heap' = [k \in Kinds |-> IF k = "message" THEN heap[k] ELSE 0]
    /\ secret' = None /\ router' = None /\ callback' = FALSE
    /\ transport' = FALSE /\ discovery' = FALSE
    /\ head' = 0 /\ tail' = 0
    /\ UNCHANGED <<inbox, polled, pushed>>

\* The callback is removed, the inbox drained, and discovery, router, storage
\* and transport are destroyed if they are there.
bitchat_shutdown ==
    /\ initialized
    /\ initialized' = FALSE
    /\ callback' = FALSE
    /\ inbox' = [s \in Slots |-> IF s \in Queued THEN Dangling ELSE inbox[s]]
    /\ heap' = [k \in Kinds |->
                   CASE k = "message"   -> heap[k] - Count
                     [] k = "discovery" -> heap[k] - One(discovery)
                     [] k = "router"    -> heap[k] - One(router # None)
                     [] k = "transport" -> heap[k] - One(transport)
                     [] k = "storage"   -> heap[k] - 1]
    /\ secret' = None /\ router' = None /\ transport' = FALSE /\ discovery' = FALSE
    /\ head' = 0 /\ tail' = 0
    /\ UNCHANGED <<polled, pushed>>

Next == \/ bitchat_init
        \/ bitchat_generate_identity
        \/ bitchat_load_identity
        \/ \E m \in Messages, memory \in BOOLEAN : on_message_received(m, memory)
        \/ bitchat_poll_messages
        \/ \E b \in BOOLEAN : bitchat_set_on_message_callback(b)
        \/ bitchat_shutdown

Spec == Init /\ [][Next]_vars

-----------------------------------------------------------------------------
(* Properties.                                                             *)

\* The i-th queued message.
Nth(i) == inbox[IF tail + i <= N THEN tail + i - 1 ELSE tail + i - 1 - N]

Inbox == INSTANCE BoundedQueue WITH Capacity <- N - 1, Nothing <- None,
            open <- initialized, queue <- [i \in 1..Count |-> Nth(i)], taken <- polled

\* Through any number of turns of the ring, restarts and changes of identity,
\* the inbox is a first-in first-out queue of at most 255 messages: poll returns
\* each queued message once, in the order of arrival, and never the pointer of
\* one that was freed; only shutdown discards what is queued.
ImplementsQueue == Inbox!Spec

\* No object is freed twice or lost: what the heap holds is what g_state points
\* to.  With bitchat_shutdown's promise ("Closes the database, frees all memory,
\* and wipes sensitive key material") nothing is left once it has run.
NothingLeaks ==
    /\ heap["message"] = Count
    /\ heap["router"] = One(router # None)
    /\ heap["discovery"] = One(discovery)
    /\ heap["transport"] = One(transport)
    /\ heap["storage"] = One(initialized)
    /\ ~initialized => secret = None /\ ~callback /\ \A k \in Kinds : heap[k] = 0

\* "every message addressed to us will be decrypted and delivered via the
\* callback": whichever identities were generated and loaded before, the key in
\* use opens what the router takes for its own, so no genuine message is
\* dropped on its way to the callback, not even when the inbox is full, unless
\* memory is short.
PushedOnArrival ==
    [][\A m \in Genuine : on_message_received(m, TRUE) /\ callback => pushed' = m]_vars

=============================================================================
