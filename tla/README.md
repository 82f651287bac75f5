# A TLA+ model of BitChat

BitChat is an offline messenger. Messages are encrypted for one receiver and
flooded through a mesh of nodes that relay them hop by hop, keep them in SQLite
and resend them for 72 hours. The repository has a C core (`src/src`,
`src/include`), a command-line simulator that runs one node per process over UDP
on the loopback interface, and an Android app that reaches the core through a
flat C interface (FFI) and JNI.

This directory holds TLA+ modules translated from that code, TLC
configurations that check them on small instances, and TLAPS proofs. Paths
below are relative to the repository root.

## 1. Inventory

| Part | Source | State | Operations | What is hard about it |
|---|---|---|---|---|
| Dedup cache | `src/usecase/mesh_router.c` 19-100 | open-addressing table of (uuid, seen_at, occupied) | contains, insert, evict | probe sequences with holes, full table, wall clock on unsigned integers |
| Mesh router | `src/usecase/mesh_router.c` 107-375 | dedup table, peers, `last_sf_tick`, callback | broadcast, receive, add_peer, tick, create, destroy | relaying, dedup expiry and resending from the store interact over many nodes |
| SQLite storage | `src/infra/storage_sqlite.c` | `pending_messages`, prepared statements | store, get_pending, delete, evict_expired, create, destroy | shared prepared statements, time stamps rebuilt per hop |
| UDP transport | `src/infra/transport_udp_sim.c` | socket, peer ports | create, send, recv, discover_peers, destroy | loss, buffers, one send call goes to all ports |
| BLE, Wi-Fi Direct | `src/infra/transport_ble.c`, `transport_wifi.c` | none | stubs | the bridge's transport does nothing |
| Message format | `src/domain/message.c` | none | create, serialize, deserialize | length fields, a 4096-byte receive buffer |
| CLI simulator | `src/cli/main.c` | key file, database, two threads | commands, tick thread, start, signals, stop | two threads without a lock; crash while the key file is written; order of shutdown; lines longer than a buffer |
| FFI bridge | `src/bridge/bitchat_ffi.c` | one global state, inbox ring, recursive mutex | init, identity, send, poll, tick, callback, shutdown | the mutex is created and destroyed at run time; ring limits; identity changes |
| JNI bridge | `src/bridge/bitchat_jni.c` | listener reference and mutex | load, set listener, callback, shutdown, unload | two mutexes, callbacks against unregistration and unloading |
| Discovery | `src/usecase/node_discovery.c`, `src/domain/peer.c` | peer table | scan, on_peer_found, get_peers | table limit; result is not given to the router |
| Message store use case | `src/usecase/message_store.c` | none | save, get_for_peer, delete, cleanup | shares the statements of the storage |
| Android | `android/app/src/main/java/com/bitchat` | service, coroutines, Room tables, preferences | start, destroy, identity, contacts, messages | coroutines and callbacks interleave; native calls are not cancelled |
| Crypto, identity | `src/usecase/crypto_manager.c`, `src/domain/identity.c` | key pair | generate, (de)serialize, encrypt, decrypt | results of libsodium that may fail |

How they interact. The tick of a router evicts from the dedup cache, reads the
transport until it is empty, hands each datagram to `bc_router_receive`,
resends what the storage returns, and evicts from the storage. In the
simulator a second thread reads the terminal and calls `bc_router_broadcast`
on the same router and storage. On Android a coroutine calls `bitchat_tick`
under the FFI's mutex; received messages go to the inbox ring and through JNI
to a Kotlin listener.

What ought to hold, per part: the cache finds what it holds and forgets only
what is old; ttls bound the hops of every copy; a sender keeps its message for
the retention period; a message reaches its receiver, once; copies do not
circulate for ever; a stored row is the row of one message; the inbox is a
bounded first-in first-out queue; no call uses a mutex that does not exist; the
listener is not called after it was removed; a node has one identity, whatever
happens to its process; a text is shown as it was typed, under the name of who
typed it; shutting down uses nothing that is freed and leaves nothing behind.
`PROJECT.json` lists the hazards with their lines.

## 2. Modules

| Module | Models | Extends |
|---|---|---|
| `DedupTable` | the table's probe sequences, as operators on a table | |
| `DedupCache` | the cache of one router with the wall clock | `DedupTable` |
| `Mesh` | routers, stores, sockets and tick threads of all nodes | `DedupTable` |
| `MessageTable` | what the storage port promises (abstract) | |
| `PreparedStatements` | `storage_sqlite.c` and `message_store.c`, SQLite call by SQLite call, by several threads | instance of `MessageTable` |
| `BoundedQueue` | what the inbox promises its poller (abstract) | |
| `FfiBridge` | the FFI's global state: identity, router, transport, callback, inbox ring | instance of `BoundedQueue` |
| `JniBridge` | threads in the native library, its two mutexes and the Kotlin listener | |
| `Wire` | wire format, hexadecimal keys, saved key pairs and sealed boxes, as operators on bytes | |
| `Envelope` | a text from the line typed to the line shown, over several nodes | `Wire` |
| `Simulator` | the process of `cli/main.c`: start, threads, commands, signals, shutdown, kills | |
| `PeerTable` | discovery, both peer tables, and the forwarding loop | |
| `MC*` | instances for TLC | |
| `*Proofs` | theorems | |

### DedupCache

`table` is `router->dedup_table`, `now` is what `time(NULL)` returns. The
actions are the three users of the cache: `Broadcast` inserts without a look-up,
`Receive` looks up and inserts what is new, `Evict` is step 1 of a tick. The loops of
`dedup_contains` and `dedup_insert` are stated declaratively in `DedupTable`:
an entry is found if no free slot comes before it on its probe sequence, and
an insertion goes to the first slot that is free or stale, or to the home slot
if there is none. `Elapsed` keeps the code's unsigned subtraction: ages are
taken modulo `Word`. `AdvanceClock` and `StepClockBack` are the machine's clock.

### Mesh

Every node has its dedup table, the rows of its database, its socket buffer,
and the place its tick thread has reached. The steps of `bc_router_tick` are
separate actions, because between two of them other nodes send, the user sends
and time passes: `TickBegin` (step 1), `Receive` (one turn of the loop of step
2, all of `bc_router_receive`), `QueryPending` or `SkipPending` and
`Rebroadcast` (step 3, a message at a time), with step 4 at the end of the last
of them (`FinishTick`). `Broadcast` is `/msg`. `Crash` is the end of a process
at any point, by `/quit` or otherwise: the database survives and nothing else
does; `Start` is `main`.

Data that is left out: payloads and keys, since a UUID determines them. Time is
kept as ages and remaining lifetimes that saturate where no comparison in the
code tells values apart, so seconds pass without a bound; the seconds since a
broadcast, which only properties read, are counted up to `AgeCap`. Also left out: a
crash inside `bc_router_broadcast` or `bc_router_receive` (between forwarding
and storing), and the races of the two threads inside these functions, which
`PreparedStatements` covers for the store. `bc_message_deserialize` is modelled on
datagrams that nodes running this program send: all parse, except those longer
than `recv`'s buffer (`Oversize`). A UDP send to a port nobody is bound to
reports success, as it does on the loopback interface for an unconnected
socket.

### MessageTable and PreparedStatements

`MessageTable` is the contract of `port/storage.h`: between call and return one
atomic step inserts the message's row unless its UUID is there, reads the
messages that have not expired, or deletes rows; or the call fails and changes
nothing. `PreparedStatements` is what the code does: `sqlite3_reset`,
`sqlite3_clear_bindings`, up to six binds and one or more `sqlite3_step` on one
of the five prepared statements of the process, each call atomic because the
database is opened with `SQLITE_OPEN_FULLMUTEX`. The callers are the router and
the functions of `message_store.c`. SQLite itself is external: binding a
statement that has run and was not reset fails and leaves the old value, a
step of a SELECT returns a row it has not returned yet and starts over after
the last, a row without a non-null column is ignored. `Locked` says whether callers hold a mutex around
the whole call, as the FFI does and the simulator does not; `ReadErrors`
whether a SELECT may fail half-way, which the loop takes for its end.

### BoundedQueue and FfiBridge

Each public function of `bitchat_ffi.c` that changes the global state is an
action. `inbox`, `head` and `tail` are the ring; `heap` counts the objects that
are allocated, of each kind, so that leaks and double frees show; a slot whose
message was freed keeps a `Dangling` pointer, as it does in the code.
`UseIdentity` is the common end of generating and loading an identity, with its
two allocations that may fail. The router calls `on_message_received` for any
message addressed to the key it was created with. A message is an address and
whether its payload decrypts. The refinement maps the slots from tail to head
to a sequence. The Bluetooth transport may or may not come into being; either
way the bridge runs. `bitchat_send_message` is in `Envelope`,
`bitchat_start_discovery` in `PeerTable`.

### JniBridge

One program counter per thread. `g_state.mutex` (G) has a life: `ensure_mutex`
tests a flag, initialises the mutex and sets the flag in three steps, and
`bitchat_shutdown` unlocks, destroys and clears the flag in three steps. What a
call does under G is one step, except that a tick may take the listener's mutex
(L) and run the listener. Calls overlap in any way, `init` and `shutdown`
included: the service launches an `init` for each start command, and shuts down
without waiting for calls that are under way. What becomes of a mutex that is
used outside its life is undefined; `LockG`, `MutexInit` and `UnlockG` take the
outcomes of the C libraries in question. A destroyed mutex refuses to be locked
and the call goes on without it, since `LOCK()` looks at no result; a mutex that
is initialised again is free, and the thread that had it unlocks nothing. An
abort, or a thread that is never woken, is a behaviour in which that thread takes
no further step. Calls that only lock,
work and unlock are ticks without a message. The listener calls nothing in the
library, as the header demands and as the app's one listener, which launches
a coroutine, does.
`JNI_OnLoad` and `JNI_OnUnload` are the virtual machine's: it unloads the
library while no thread is inside, which drops the listener and keeps the
registered C callback.

### Wire and Envelope

`Wire` has the conversions: big-endian integers, the layout of a message, its
length checks, hexadecimal keys, saved key pairs. The length check adds in 32
bits, as the code does (`Low32`). Bytes are numbers, except in a
sealed box: libsodium is ideal here, and a byte of a box tells which box it is
of and its place in it, so that a box opens only whole and with the right key and
nonce. The sizes of UUIDs, keys, nonces and tags are constants.

`Envelope` takes a text through these conversions. `Type` puts a line on a
node's standard input, `Command` is one turn of `main`'s loop (`fgets` with its
buffer of `LineSize`, stripping, `cmd_msg` with its early returns, sealing,
`bc_message_create`, `bc_router_broadcast`), `bitchat_send_message` the same
from the bridge. `Receive` is one datagram in `bc_router_tick` (cut to
`RecvSize`, parsed, ttl, delivered to `on_message_received` or stored and
relayed), `Rebroadcast` the rest of the tick. A datagram once sent may be received
at any later time, any number of times or never, which covers loss,
duplication, reordering and whatever the dedup cache does. `SetClock` gives
`time(NULL)` any value: time passes, a clock is set, or the next node's differs.

### Simulator

`pc` walks through `main`, one label for each call that may fail or be killed at;
`held` is the set of what the process has allocated or opened. Every
constructor may fail at each of its steps and leaves what the code leaves
(`StorageFailures`, `UdpFailures`, `RouterFailures`). The key file is `short`
between `fopen` and `fwrite`; `Kill` may come at any point and the file
survives. The tick thread tests `g_running`, ticks and sleeps. `fgets` waits for
the user and is not interrupted by a signal. What a tick or a command does to
tables and messages is in the other modules; here it matters what it needs.

### PeerTable

The discovery manager's table and the router's, filled by loops whose every turn
is a step, by one of three wirings: the simulator adds to the router directly,
the bridge registers no callback, and a user of the interface registers one.
A known peer is touched, a new one appended while there is room. `SendItem` is
one turn of `forward_to_peers`: the UDP transport sends to some or none of all
its ports and succeeds if one `sendto` does; the stubs never do. A port that is
on the command line twice is twice in the transport's list and once in the
router's table; `copies` counts what each port is sent.

## 3. Runs

| Run | Instance | Result |
|---|---|---|
| `dedup` | 4 UUIDs on 3 slots in 2 home slots, clock 0..3 modulo 64, may be set back | passes |
| `dedup_hidden` | the same, clock never set back | `NoForgetting` is violated |
| `mesh_circulation` | 2 nodes, ttl 3, losses, one crash, dedup age 1 s, retention 2 s | passes |
| `mesh_delivery` | chain of 3 nodes, ttl 2, one crash, no losses | passes |
| `statements_locked` | 2 threads, 2 messages, all five statements, retention 1 s, clock 0..2, `Locked` | passes |
| `statements_cli` | the same without the lock | `RowIntegrity` is violated |
| `ffi_bridge` | 2 identities, 3 messages, one of which does not decrypt, ring of 4 slots | passes |
| `jni_bridge` | 3 threads (two start commands and the main thread), 2 listeners | passes |
| `jni_shutdown` | the same | `MutexUsable` is violated |
| `envelope` | 3 nodes: one with a user, one headless, one behind the bridge; one-byte fields, a line typed and a text sent by the bridge, buffers of 13 and 21 bytes, a clock that shows 0 or 2 | passes |
| `simulator` | 2 key pairs, 3 starts | passes |
| `peers` | tables of 3, lists of up to 4 ports: port 0, a port given twice, two whose bytes are swapped; fanout 2, clock 0..1 | passes |

What the passing runs show:

* `dedup`: the cache never reports a UUID that was not inserted
  (`NeverInvented`); until an eviction frees a slot whatever is in the table is
  found (`FoundUntilEviction`); the UUID just inserted is found, whatever holes
  there are (`InsertRemembers`); an insertion while a slot is free or
  expired loses no fresh entry (`InsertKeepsFresh`); no step touches an entry
  stamped within the last `dedup_max_age` seconds, unless the table is full of
  fresh ones (`RecentStays`), also when the clock is set back.
* `mesh_circulation`: the ttl of a copy at distance h from its sender is at
  most the initial ttl less h (`HopBound`); the sender can resend its message
  with full ttl for the whole retention period, whatever comes back to it
  (`OriginCustody`); in the end all copies are gone (`Drains`), although the
  store outlives the dedup cache and relays store a message again.
* `mesh_delivery`: a message is delivered although a node on its way crashes
  (`Delivers`), and if every node ticks in every second, the copies of a
  message that have t hops to go are gone `(DefaultTtl - t + 1) * (Retention + 1)`
  seconds after the broadcast (`DiesOut`). The bound on the seconds counted
  (`AgeCap = 10`) is beyond the last of these times (9 s), so an excess would be
  seen.
* `statements_locked`: the statement-level code implements the port
  (`ImplementsPort`), rows are never mixed (`RowIntegrity`) and what was
  accepted is there until it is deleted or expires (`StoredIsThere`).
* `ffi_bridge`: over restarts, changes of identity and turns of the ring, the
  inbox is a first-in first-out queue (`ImplementsQueue`), nothing is leaked or
  freed twice (`NothingLeaks`), and a genuine message for us reaches the callback
  even when the inbox is full (`PushedOnArrival`).
* `jni_bridge`: a listener runs only while it is registered (`RunsRegistered`);
  the two mutexes do not deadlock (`NoDeadlock`); and mutual exclusion, which
  concurrent starts and shutdowns can break, is lost in two ways only: a call
  meets the destroyed mutex, or `ensure_mutex` initialises it while a thread is
  inside (`ExclusionLostOnly`).
* `envelope`: what is on the wire or in any table is the message its creator
  made (`Unaltered`), one too long for the receive buffer never leaves its
  sender and no other is cut (`OnlyWholeTravel`), and a text is shown under the
  name of the node it was typed at, whole if its line fits the input buffer
  (`ShownAsTyped`).
* `simulator`: through kills, failed writes and restarts a node is on the mesh
  under one key (`OneIdentity`); neither thread uses what shutdown has freed
  (`UsesLive`); every path out of `main` releases everything, except the handle of
  a database that cannot be opened (`Released`); after `/quit` or a signal the
  program ends, unless it waits in `fgets` (`StopEnds`).
* `peers`: no peer is twice in a table and the router has what was reported
  since its callback was registered, in order (`TablesAgree`); a peer is left
  out only when the table is full (`ScanComplete`); no step forgets or moves a
  peer (`KnownStay`); one `forward_to_peers` sends a neighbour at most fanout
  copies for each time its port is listed (`FanoutBound`).

Bounds. The dedup instance is small, but the table fills up, probe sequences
overlap and wrap around, and the clock passes the maximal age twice. In the
mesh, the dedup age is shorter than the retention period, as it is in the code
(600 s and 72 h), which is what makes forgotten UUIDs come back; ttl 3 on two
nodes lets a message return to its sender. One message suffices there because
messages interact only through a full dedup table, which `DedupCache` covers.
`SockCap` bounds a socket buffer; more datagrams are dropped, as by the kernel.
In the statements' run each thread's calls overlap with each other call of
the other thread, rows expire, and a message that expired is stored again.
The ring has 4 slots instead of 256: it fills up, wraps around and is drained in
every position, and the proofs cover every size. Three threads are those of two
start commands, each of which initialises, registers and ticks, and the main
thread, which shuts down; restarts are not bounded. In `envelope` one typed text
fits all buffers and another is read in two pieces, the first of which is too
long for the receive buffer and the second a command itself; one node's key is
another's with its digits swapped; the other lines take each early return of
`cmd_msg`. Two messages exist at most (`MCUuids`). Three starts are one that writes the key, one
that reads it, and one after whatever the second did. A table of three peers
fills up with a list of four.

Fairness (`Mesh!Fairness`). The scheduler runs each tick thread, which loops
without a condition; a node that ended is started again; time passes. Nothing
makes a user send. For `Delivers` two more assumptions are constants of the
run: no datagram is lost (`Lossy = FALSE`), and every node completes a tick in
every second (`Prompt`; the code ticks every 100 ms), which also means that a
crashed node is back within the second. Without the latter a
message may expire before anybody sends it, and with losses it may be lost
each time. `DiesOut` assumes `Prompt` too: it needs each node to delete its
expired rows in time, and holds with losses. `Simulator!Spec` has weak fairness
of the main thread and of the tick thread, which the scheduler provides; nobody promises a line, a signal or a new
start, and `fgets` is enabled only when there is input.

Deadlock is not checked in `simulator`: a process that ended may stay ended.

### Where code and documentation differ

1. `dedup_evict` frees slots in the middle of probe sequences, so entries
   behind them are not found any more and messages in the set are processed again
   (`dedup_hidden`; `README.md` 42-43).
2. The simulator's two threads share prepared statements, and
   `SQLITE_OPEN_FULLMUTEX` does not make a sequence of calls atomic
   (`statements_cli`; `storage_sqlite.c` 22-24).
3. `bitchat_shutdown` destroys the mutex that another call may be waiting for
   (`jni_shutdown`; `bitchat_ffi.h` 12 says "Thread-safe").
   `BitChatService.onDestroy` gets there: cancelling the tick coroutine does
   not wait for a tick that is in native code.

Others have no run of their own. They are assumptions of a run, or restated as
what does hold:

* `ensure_mutex` is not guarded itself, so two overlapping `init` calls, one for
  each start command, may both initialise the mutex (`bitchat_ffi.c` 8-9 says
  that every public function acquires it); `ExclusionLostOnly` names the step.
* The fanout does not limit the neighbours a message goes to (`README.md` 48-49,
  `mesh_router.h` 7-8, 30 and 46): `forward_to_peers` counts calls of `send`,
  and each call of `udp_send` goes to every port. Each neighbour gets up to
  fanout copies, and that is what `FanoutBound` says.
* A full dedup table does not evict the least recently used entry (`README.md`
  42): `dedup_insert` overwrites the home slot (`mesh_router.c` 81-84).
* A copy that arrives with ttl 0 is dropped but remembered, so that a later copy
  with hops to spare is dropped too (`mesh_router.c` 236). `mesh_router.h`
  131-132 can be read either way.
* While the inbox is full, messages go to the callback only, though they should
  go there "in addition to being queued" (`bitchat_ffi.h` 144-145).
  `PushedOnArrival` is about the callback alone.
* A message is resent for 72 hours and remembered for ten minutes, so a receiver
  gets it again and again (`mesh_router.h` 10-11). `RedeliveryHolds` says what
  must have happened in between.
* When the clock is set back, ages wrap around and the next tick evicts
  entries stamped in what is now the future (comment in `mesh_router.c` 88);
  `RecentStays` says which entries are safe.
* A key file that exists and cannot be opened is replaced by a new one.
  `Simulator` with `ReadFails = TRUE` violates `OneIdentity`.
* An error in the middle of a SELECT looks like its end. `PreparedStatements`
  with `ReadErrors = TRUE` violates `ImplementsPort`; `FallsShortInReads`
  proves that incomplete answers of `get_pending` are all it costs.
* `get_pending` does not "reconstruct the original timestamp"
  (`storage_sqlite.c` 213) but the time the row was stored on this node, so the
  field that should hold the "creation time" (`message.h` 41) changes from
  relay to relay. `Unaltered` is about the fields other than it and the ttl.
* The length check of `bc_message_deserialize` (`message.c` 173) adds in 32 bits;
  what is proved of it is about messages whose length on the wire is below 2^32.
* `evict_expired` ignores the age it is given, against `storage.h`, as its own
  comment says; `MessageTable` has it so.
* The simulator accepts texts of up to 4025 bytes, of which those longer than
  3963 never arrive (`mesh_router.c` 311).

## 4. Proofs

The proofs hold for every value of the constants that satisfies the named
assumptions in the modules: any capacity, hash function, topology, ttl, number
of threads and messages, any sizes of fields, buffers and tables.

* `DedupCacheProofs`. The inductive invariant is
  `IInv == TypeOK /\ HoldsSeen /\ Chains`: occupied slots hold inserted UUIDs,
  and while no eviction has freed a slot, no free slot lies on the way from an
  entry's home slot to the entry. `Chains` is needed because `FoundUntilEviction`
  speaks of look-ups, while an insertion preserves the probe sequences. The lemmas
  describe where an insertion goes. `RecentStaysHolds` rests on
  `RecentIsFresh`: without a wrap, an entry within its age is not stale.
* `MeshProofs`. `IInv` joins the type invariant, `UnsentAge`, and the hop bound for
  rows, for the list a tick is resending, and for datagrams, each with the fact
  that only sent messages have copies. The last two are needed because copies
  move between the three. The step to a neighbour uses the triangle condition
  `DistAssumption`; lemmas say what `forward_to_peers` may put into a buffer.
  `OriginCustodyHolds` assumes that inserts succeed. Its step is `KeepsRows`: only
  the passing of time changes a row that has not expired, and `INSERT OR IGNORE`
  leaves the sender's own row alone.
  `DeliveredInReachHolds`: `on_message` is called only for messages that were
  sent, and only where `DefaultTtl` links can lead; it follows from the hop bound
  of datagrams.
  `RedeliveryHolds` has two parts. A delivery is of a UUID its receiver does
  not find in its table, and finds afterwards (`DeliveryMarks`); and a node
  ceases to find a UUID only if its process dies, an eviction frees a slot, or
  another UUID takes its slot when it had expired or the table was full
  (`ForgetsOnly`). So a second delivery has one of these three between it and
  the first.
  `DiesOutHolds` bounds how long a message goes round, by induction on hops: a
  relay stores what it receives for a retention period of its own, with one hop
  less to go. Its invariant `Timely` says when in the second each copy can be
  where it is: a row's age and what is left of it stay below its `Lifetime`, and
  a node that has ticked in this second holds only valid rows; a datagram can be
  as old as its `Lifetime`, but is younger if its receiver has emptied its buffer in
  this second; a resend ends in the second it began in, and is not due again in
  that second (`SfInSecond`). It holds for every `AgeCap`, and says most for
  one above `Lifetime(0)`. With the code's constants (10 hops, 72 h) that
  is 11 times 72 h and a second.
* `PreparedStatementsProofs`. Under `Locked` the invariant says that a thread is
  inside a call only while it holds the lock (`Exclusive`), that the parameters
  bound so far are those of its request, read from the clock since the call
  began, and that a query has returned rows it selects and no others
  (`Prepared`). `ImplementsPortHolds` is the refinement of `MessageTable`: `Step`
  and the last step of a query map to `TakeEffect`, failures to `Fail`, and
  resetting, clearing, binding and fetching are stuttering steps. It assumes
  reads that do not fail. `FallsShortInReads` drops that assumption: every
  step is one of the port, a stuttering step, or the end of a `get_pending` that
  leaves the table alone and returns a part of what the port would.
* `FfiBridgeProofs`. `IInv` adds to the type invariant and `NothingLeaks` that a
  router belongs to the key in use (`RouterOwnsKey`), from which
  `PushedOnArrivalHolds` follows, and that every queued slot points to a live
  message (`QueueAlive`), which the refinement needs. `EnqueueStep` and
  `DequeueStep` state what advancing head and tail does to the n-th queued
  message, for every ring size.
* `JniBridgeProofs`. `IInv` says who holds the mutexes, as far as that holds
  while calls overlap; from it follow `RunsRegisteredHolds` and `NoDeadlockHolds`,
  without an assumption on callers. `ExclusionHolds` goes through the actions:
  each keeps `InsideOwns`, except the two steps `ExclusionLostOnly` names; and
  while `InsideOwns` holds, at most one thread is inside.
* `EnvelopeProofs`. First the conversions: `RoundTrip`, `CutDoesNotParse`,
  `IdentityRoundTrip` and `HexRoundTrip`, from lemmas on big-endian integers
  and on fields of concatenations. Then the invariant: `Core` says that every
  datagram is the serialization of a message like one that was made, with the
  time of some clock and of a length that 32 bits hold, that every row is such a
  message, stored elsewhere than at its sender only if it fits the receive
  buffer, and that what is shown was sealed
  in a message made by the node it is shown as coming from. `StdinInv` and
  `WrittenInv` tie messages to the typed line they were cut from: what waits on
  standard input is the end of a typed line, and it is the whole line unless a
  piece was read before.
* `SimulatorProofs`. The invariant gives `held` at every label of `main`
  (`HeldInv`), says that the tick thread works only between its start and the
  join (`TickInv`), and that there is an identity from its generation on.
  `OneIdentityHolds` assumes that an existing key file can be read, and
  adds what the key file holds at each label. `StopAdvancesHolds` is why the
  program ends: once `g_running` is reset it stays so, and every step of either
  thread lowers `StepsLeft`, which is at most 11, so no loop is entered again.
  It needs that nothing resets `g_running` before the handlers are installed
  (`StopInv`).
* `PeerTableProofs`. `Inv` joins the properties with the bounds of the loops'
  indices, and that each port's copies are at most the successful calls times
  its entries in the list. Lemmas say that touching, replacing and
  appending keep every known peer in its place and repeat none.

Only model-checked: liveness (`Drains`, `Delivers`, `StopEnds`), which is out of
the prover's reach. What two of them rest on is proved: `DiesOut` gives the time
by which a message has drained if nodes tick in every second, and `StopAdvances`
leaves to fairness only that the threads go on, and that `fgets` returns.

## 5. Hazards

`PROJECT.json` lists, by source line, what in this code could go wrong in a
way tests hardly reach, with the properties that would show it. The ones without
a property have a note. They are of three kinds: data races on plain memory
in the simulator, whose outcome nothing constrains; results that the code or its
interface discards, about which nothing is promised; and the Kotlin code.

## 6. Not modelled

* The Android app's Kotlin code: coroutine dispatch, Room and the encrypted
  preferences belong to the platform, and what the app does with them between
  two suspensions is not in this repository's control. `JniBridge` has the
  threads it brings into the library. Screens and view models are presentation.
* Conversions between Java arrays and C buffers in the JNI layer, and pending
  Java exceptions.
* Two simulators started with one port, and so with one key file and one
  database: nothing in the code provides for them, and `SO_REUSEADDR` may even
  let both bind.
* Memory-level races in the dedup table of the simulator.
* BLE and Wi-Fi Direct beyond their stubs: there is nothing behind them.
* Cryptography is libsodium's and SQL is SQLite's; both are modelled only as far
  as the code uses them. Logging, QR codes and printing are left out.
