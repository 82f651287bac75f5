----------------------------- MODULE Simulator -----------------------------
(***************************************************************************)
(* The life of a simulator node (cli/main.c): a process that starts, reads *)
(* or creates its key file, builds storage, transport and router, runs the *)
(* tick thread and the input loop, and shuts down; that may be killed at   *)
(* any point and started again; and whose every call into the system may   *)
(* fail.                                                                   *)
(*                                                                         *)
(* Resources are names in the set held.  What the messages hold is the     *)
(* subject of Envelope, what ticks and commands do to the router's tables  *)
(* of Mesh and PreparedStatements; here a tick and a command are what they *)
(* need to be alive.                                                       *)
(***************************************************************************)
EXTENDS Naturals, FiniteSets

CONSTANTS Keys,         \* the key pairs crypto_box_keypair may return
          ReadFails,    \* may fopen fail to read a key file that exists?
          MaxStarts     \* bound: times the process is started

ASSUME KeysAssumption == /\ Keys \cap {"absent", "short", "none"} = {}
                         /\ ReadFails \in BOOLEAN
                         /\ MaxStarts \in Nat

VARIABLES
    keyfile,    \* node_{port}.key: absent, short (corrupted), or a key
    pc,         \* where main is; down when there is no process
    g_identity, \* the key pair in memory, or none
    held,       \* the memory, handles and descriptors the process holds
    tick,       \* where the tick thread is
    g_running,
    input,      \* what waits on standard input: none, a line, or eof
    exit,       \* how the last process ended
    starts,     \* how often the process was started
    used        \* keys under which the node has been on the mesh

vars == <<keyfile, pc, g_identity, held, tick, g_running, input, exit, starts, used>>

Lines == {"/info", "/peers", "/msg", "/quit", "unknown", ""}

Statements == {"insert", "get_pending", "get_all_pending", "delete", "evict"}
StorageParts   == {"ctx", "db", "storage"} \cup Statements
TransportParts == {"udp_ctx", "ports", "socket", "transport"}
RouterParts    == {"router", "dedup_table"}
Resources      == {"peer_ports"} \cup StorageParts \cup TransportParts \cup RouterParts

Starting == {"crypto", "key", "keygen", "keywrite", "storage", "transport", "router",
             "peers", "signals", "thread"}
Stopping == {"join", "free_router", "free_transport", "free_storage", "wipe"}

-----------------------------------------------------------------------------
(* What is held after the constructors and destructors.                    *)

\* sqlite3_finalize on each statement.
Finalize(h) == h \ Statements

\* sqlite3_close refuses a connection with statements.
Close(h) == IF h \cap Statements = {} THEN h \ {"db"} ELSE h

\* What bc_storage_sqlite_create may leave when it fails: no ctx; a file that
\* cannot be opened, whose handle is not closed; a table or an index that
\* cannot be created; a statement that cannot be prepared after those in P; no
\* vtable.
StorageFailures(h) ==
    {h, h \cup {"db"}, Close(h \cup {"db"})}
      \cup {Close(Finalize(h \cup {"db"} \cup P)) : P \in SUBSET Statements}

\* Mutant of sqlite_destroy: the connection is closed before the statements
\* are finalized.
sqlite_destroy_CloseFirst(h) == Finalize(Close(h)) \ {"ctx", "storage"}

sqlite_destroy(h) == Close(Finalize(h)) \ {"ctx", "storage"}

\* What bc_transport_udp_create acquires before it fails, and frees then: no
\* ctx, no room for the ports, no socket, bind refused, no vtable.
UdpFailures(h) ==
    {(h \cup got) \ got : got \in {{}, {"udp_ctx"}, {"udp_ctx", "ports"},
                                   {"udp_ctx", "ports", "socket"}}}

\* udp_destroy frees what is behind the vtable, its caller the vtable.
udp_destroy(h) == h \ {"socket", "ports", "udp_ctx"}

\* bc_router_create: no router, or no dedup table and the router freed.
RouterFailures(h) == {h, (h \cup {"router"}) \ {"router"}}

bc_router_destroy(h) == h \ {"dedup_table", "router"}

\* bc_crypto_init fails if sodium_init does.
bc_crypto_init == {"ok", "failed"}

\* bc_identity_generate: a new key pair, or a failure.
bc_identity_generate == Keys \cup {"none"}

\* What the commands work with, besides the identity.
cmd_info  == {}
cmd_peers == {"router"}
cmd_msg   == RouterParts \cup TransportParts \cup StorageParts
Needs(line) == CASE line = "/peers" -> cmd_peers
                 [] line = "/msg"   -> cmd_msg
                 [] OTHER           -> cmd_info

-----------------------------------------------------------------------------
Init == /\ keyfile = "absent"
        /\ pc = "down"
        /\ g_identity = "none"
        /\ held = {}
        /\ tick = "none"
        /\ g_running = TRUE
        /\ input = "none"
        /\ exit = "none"
        /\ starts = 0
        /\ used = {}

\* main returns: status 0 or 1, with what is still held.
Exit(status, h) == /\ pc' = "down"
                   /\ exit' = status
                   /\ held' = h
                   /\ tick' = "none"
                   /\ g_identity' = "none"

Goto(label) == pc' = label /\ UNCHANGED exit

\* A process is started.  Wrong arguments, or no memory for the peer ports, end
\* it at once; without peers the list of ports is a null pointer, which is freed
\* like the others.
Start ==
    /\ pc = "down"
    /\ starts < MaxStarts
    /\ starts' = starts + 1
    /\ g_running' = TRUE
    /\ input' = "none"
    /\ tick' = "none"
    /\ g_identity' = "none"
    /\ \/ Goto("crypto") /\ held' = {"peer_ports"}
       \/ pc' = "down" /\ exit' = "error" /\ held' = {}
    /\ UNCHANGED <<keyfile, used>>

\* 1. bc_crypto_init.
InitCrypto ==
    /\ pc = "crypto"
    /\ \E rc \in bc_crypto_init :
        \/ /\ rc = "ok"
           /\ Goto("key")
           /\ UNCHANGED <<held, tick, g_identity>>
        \/ /\ rc # "ok"
           /\ Exit("error", held \ {"peer_ports"})
    /\ UNCHANGED <<keyfile, g_running, input, starts, used>>

\* Mutant of LoadKey: a file that is too short is taken for a missing one.
LoadKey_Lenient ==
    /\ pc = "key"
    /\ \/ /\ keyfile \in {"absent", "short"}
          /\ Goto("keygen")
          /\ UNCHANGED <<g_identity, held, tick>>
       \/ /\ keyfile \in Keys
          /\ Goto("storage")
          /\ g_identity' = keyfile
          /\ UNCHANGED <<held, tick>>
    /\ UNCHANGED <<keyfile, g_running, input, starts, used>>

\* 2. The key file is read.  A failed fopen is taken for a missing file.  A file
\* that is short, or a key whose public half cannot be computed, ends the
\* program.
LoadKey ==
    /\ pc = "key"
    /\ \/ /\ keyfile = "absent" \/ ReadFails
          /\ Goto("keygen")
          /\ UNCHANGED <<g_identity, held, tick>>
       \/ /\ keyfile \in Keys
          /\ Goto("storage")
          /\ g_identity' = keyfile
          /\ UNCHANGED <<held, tick>>
       \/ /\ keyfile # "absent"
          /\ Exit("error", held \ {"peer_ports"})
    /\ UNCHANGED <<keyfile, g_running, input, starts, used>>

\* Mutant of GenerateKey: the new pair is not kept in g_identity.
GenerateKey_Dropped ==
    /\ pc = "keygen"
    /\ Goto("keywrite")
    /\ keyfile' = "short"
    /\ UNCHANGED <<g_identity, held, tick, g_running, input, starts, used>>

\* There was none: a key pair is generated and the file opened for writing,
\* which creates it empty; either may fail.
GenerateKey ==
    /\ pc = "keygen"
    /\ \E k \in bc_identity_generate :
        \/ /\ k # "none"
           /\ g_identity' = k
           /\ Goto("keywrite")
           /\ keyfile' = "short"
           /\ UNCHANGED <<held, tick>>
        \/ Exit("error", held \ {"peer_ports"}) /\ UNCHANGED keyfile
    /\ UNCHANGED <<g_running, input, starts, used>>

\* fwrite and fclose: their results are not looked at.
WriteKey ==
    /\ pc = "keywrite"
    /\ \/ keyfile' = g_identity
       \/ UNCHANGED keyfile
    /\ Goto("storage")
    /\ UNCHANGED <<g_identity, held, tick, g_running, input, starts, used>>

\* 3. bc_storage_sqlite_create.
OpenStorage ==
    /\ pc = "storage"
    /\ \/ /\ Goto("transport")
          /\ held' = held \cup StorageParts
          /\ UNCHANGED <<tick, g_identity>>
       \/ \E h \in StorageFailures(held) : Exit("error", h \ {"peer_ports"})
    /\ UNCHANGED <<keyfile, g_running, input, starts, used>>

\* 4. bc_transport_udp_create; the ports were copied.
OpenTransport ==
    /\ pc = "transport"
    /\ \/ /\ Goto("router")
          /\ held' = (held \cup TransportParts) \ {"peer_ports"}
          /\ UNCHANGED <<tick, g_identity>>
       \/ \E h \in UdpFailures(held) : Exit("error", sqlite_destroy(h \ {"peer_ports"}))
    /\ UNCHANGED <<keyfile, g_running, input, starts, used>>

\* 5. bc_router_create and bc_router_set_on_message.
CreateRouter ==
    /\ pc = "router"
    /\ \/ /\ Goto("peers")
          /\ held' = held \cup RouterParts
          /\ UNCHANGED <<tick, g_identity>>
       \/ \E h \in RouterFailures(held) :
            Exit("error", sqlite_destroy(udp_destroy(h) \ {"transport"}))
    /\ UNCHANGED <<keyfile, g_running, input, starts, used>>

\* 6. discover_peers and bc_router_add_peer.  7. The signal handlers.
AddPeers ==
    /\ pc = "peers"
    /\ Goto("signals")
    /\ UNCHANGED <<keyfile, g_identity, held, tick, g_running, input, starts, used>>

InstallHandlers ==
    /\ pc = "signals"
    /\ Goto("thread")
    /\ UNCHANGED <<keyfile, g_identity, held, tick, g_running, input, starts, used>>

\* 8. The tick thread starts.  9. From here on the node is on the mesh.
StartThread ==
    /\ pc = "thread"
    /\ \/ /\ Goto("loop")
          /\ tick' = "check"
          /\ used' = used \cup {g_identity}
          /\ UNCHANGED <<held, g_identity>>
       \/ /\ Exit("error", sqlite_destroy(udp_destroy(bc_router_destroy(held)) \ {"transport"}))
          /\ UNCHANGED used
    /\ UNCHANGED <<keyfile, g_running, input, starts>>

-----------------------------------------------------------------------------
(* The input loop.                                                         *)

\* while (g_running), and the prompt.
Loop ==
    /\ pc = "loop"
    /\ Goto(IF g_running THEN "fgets" ELSE "join")
    /\ UNCHANGED <<keyfile, g_identity, held, tick, g_running, input, starts, used>>

\* fgets returns a line, or the end of the input.  A signal does not interrupt
\* it: signal() restarts system calls.
ReadLine ==
    /\ pc = "fgets"
    /\ input # "none"
    /\ Goto(CASE input = "eof" -> "headless"
              [] input = ""    -> "loop"
              [] OTHER         -> "command")
    /\ input' = IF input = "" THEN "none" ELSE input
    /\ UNCHANGED <<keyfile, g_identity, held, tick, g_running, starts, used>>

\* The command on the line.  cmd_info, cmd_peers and cmd_msg read the identity
\* and the router; an unknown one prints a hint.
RunCommand ==
    /\ pc = "command"
    /\ Goto("loop")
    /\ g_running' = (g_running /\ input # "/quit")
    /\ input' = "none"
    /\ UNCHANGED <<keyfile, g_identity, held, tick, starts, used>>

\* Mutant of Headless: the relay loop does not look at g_running.
Headless_Forever ==
    /\ pc = "headless"
    /\ FALSE
    /\ UNCHANGED vars

\* After the end of the input: sleep until a signal.
Headless ==
    /\ pc = "headless"
    /\ ~g_running
    /\ Goto("join")
    /\ UNCHANGED <<keyfile, g_identity, held, tick, g_running, input, starts, used>>

-----------------------------------------------------------------------------
(* 11. Shutdown.                                                           *)

\* Mutant of Join: the tick thread is not waited for.
Join_Missing ==
    /\ pc = "join"
    /\ g_running' = FALSE
    /\ Goto("free_router")
    /\ UNCHANGED <<keyfile, g_identity, held, tick, input, starts, used>>

\* g_running = 0 and pthread_join, which returns when the thread has ended.
Join ==
    /\ pc = "join"
    /\ g_running' = FALSE
    /\ IF tick = "done" THEN Goto("free_router") ELSE UNCHANGED <<pc, exit>>
    /\ UNCHANGED <<keyfile, g_identity, held, tick, input, starts, used>>

FreeRouter ==
    /\ pc = "free_router"
    /\ Goto("free_transport")
    /\ held' = bc_router_destroy(held)
    /\ UNCHANGED <<keyfile, g_identity, tick, g_running, input, starts, used>>

FreeTransport ==
    /\ pc = "free_transport"
    /\ Goto("free_storage")
    /\ held' = udp_destroy(held) \ {"transport"}
    /\ UNCHANGED <<keyfile, g_identity, tick, g_running, input, starts, used>>

FreeStorage ==
    /\ pc = "free_storage"
    /\ Goto("wipe")
    /\ held' = sqlite_destroy(held)
    /\ UNCHANGED <<keyfile, g_identity, tick, g_running, input, starts, used>>

\* bc_identity_wipe and the end of main.
Wipe ==
    /\ pc = "wipe"
    /\ Exit("ok", held)
    /\ UNCHANGED <<keyfile, g_running, input, starts, used>>

-----------------------------------------------------------------------------
(* The tick thread, the user and the outside.                              *)

\* tick_thread_func: test g_running, call bc_router_tick, sleep.
TickThread ==
    /\ \/ tick = "check" /\ tick' = IF g_running THEN "tick" ELSE "done"
       \/ tick = "tick"  /\ tick' = "sleep"
       \/ tick = "sleep" /\ tick' = "check"
    /\ UNCHANGED <<keyfile, pc, g_identity, held, g_running, input, exit, starts, used>>

\* The user types a line or closes the input.
Type ==
    /\ pc # "down"
    /\ input = "none"
    /\ input' \in Lines \cup {"eof"}
    /\ UNCHANGED <<keyfile, pc, g_identity, held, tick, g_running, exit, starts, used>>

\* SIGINT or SIGTERM once the handlers are installed.
signal_handler ==
    /\ pc \notin Starting \cup {"down"} \/ pc = "thread"
    /\ g_running' = FALSE
    /\ UNCHANGED <<keyfile, pc, g_identity, held, tick, input, exit, starts, used>>

\* The process is killed, by a signal before that or by anything later.
Kill ==
    /\ pc # "down"
    /\ pc' = "down"
    /\ exit' = "killed"
    /\ held' = {}
    /\ tick' = "none"
    /\ g_identity' = "none"
    /\ UNCHANGED <<keyfile, g_running, input, starts, used>>

Main == \/ InitCrypto \/ LoadKey \/ GenerateKey \/ WriteKey
        \/ OpenStorage \/ OpenTransport \/ CreateRouter
        \/ AddPeers \/ InstallHandlers \/ StartThread
        \/ Loop \/ ReadLine \/ RunCommand \/ Headless
        \/ Join \/ FreeRouter \/ FreeTransport \/ FreeStorage \/ Wipe

Next == Start \/ Main \/ TickThread \/ Type \/ signal_handler \/ Kill

\* Both threads are scheduled; nobody promises a line, a signal or a start.
Spec == Init /\ [][Next]_vars /\ WF_vars(Main) /\ WF_vars(TickThread)

-----------------------------------------------------------------------------
(* Properties.                                                             *)

\* The type of every variable.
TypeOK == /\ keyfile \in Keys \cup {"absent", "short"}
          /\ pc \in Starting \cup Stopping \cup {"down", "loop", "fgets", "command", "headless"}
          /\ g_identity \in Keys \cup {"none"}
          /\ held \subseteq Resources
          /\ tick \in {"none", "check", "tick", "sleep", "done"}
          /\ g_running \in BOOLEAN
          /\ input \in Lines \cup {"none", "eof"}
          /\ exit \in {"none", "ok", "error", "killed"}
          /\ starts \in 0..MaxStarts
          /\ used \subseteq Keys

\* A node is only ever on the mesh under one public key, the one in its key
\* file: restarts, kills at any point and failed writes included.  After a
\* failed write the file is short and the node no longer starts, but it never
\* comes back as somebody else, as long as a key file that exists can be read.
OneIdentity == \A k \in used : keyfile \in {k, "short"}

\* What a thread works with has not been freed: the tick thread has the router,
\* the transport and the storage while it ticks, and the main thread what the
\* command it runs needs, the identity included.
UsesLive ==
    /\ tick = "tick" => RouterParts \cup TransportParts \cup StorageParts \subseteq held
    /\ pc = "command" => Needs(input) \subseteq held /\ g_identity # "none"

\* main returns on whatever path with everything released, in an order SQLite
\* accepts.  The one exception is the handle of a database that could not be
\* opened, on the error path.
Released ==
    pc = "down" /\ exit \in {"ok", "error"}
        => held = {} \/ (held = {"db"} /\ exit = "error")

\* Once g_running is reset, by /quit or by a signal, the program ends, unless it
\* waits in fgets for a line: that line then ends it.
StopEnds == ~g_running /\ pc # "down" /\ (pc = "fgets" => input # "none") ~> pc = "down"
=============================================================================
