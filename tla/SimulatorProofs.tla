-------------------------- MODULE SimulatorProofs --------------------------
(***************************************************************************)
(* Proofs about the simulator's life cycle, for any set of key pairs and   *)
(* any number of starts.  The invariant says what is held at each label of *)
(* main, when the tick thread can run, and what the key file has to do     *)
(* with the identity in memory and with those used before.                 *)
(***************************************************************************)
EXTENDS Simulator, TLAPS

\* Labels at which everything is built, and the tick thread may run.
Running == {"loop", "fgets", "command", "headless", "join"}

\* What is held at each label.
HeldInv ==
    /\ pc \in {"crypto", "key", "keygen", "keywrite", "storage"} => held = {"peer_ports"}
    /\ pc = "transport" => held = {"peer_ports"} \cup StorageParts
    /\ pc = "router" => held = StorageParts \cup TransportParts
    /\ pc \in {"peers", "signals", "thread", "free_router"} \cup Running
            => held = StorageParts \cup TransportParts \cup RouterParts
    /\ pc = "free_transport" => held = StorageParts \cup TransportParts
    /\ pc = "free_storage" => held = StorageParts
    /\ pc = "wipe" => held = {}
    /\ pc = "down" => held = {} \/ (held = {"db"} /\ exit = "error")

\* The tick thread works only while main is at one of the labels of Running.
TickInv == tick \in {"check", "tick", "sleep"} => pc \in Running

\* From the generation of a key on there is one.
IdInv == pc \in (Starting \ {"crypto", "key", "keygen"}) \cup Running => g_identity \in Keys

\* Before the node joins the mesh under g_identity, the file holds that key, or
\* is short and no other key has been used.
KeyInv ==
    /\ OneIdentity
    /\ keyfile = "absent" => used = {}
    /\ pc \in {"keygen", "keywrite"} => used = {}
    /\ pc = "keywrite" => keyfile = "short"
    /\ pc \in (Starting \ {"crypto", "key", "keygen", "keywrite"})
            => \/ keyfile = g_identity
               \/ keyfile = "short" /\ used = {}

\* TypeOK without held, which HeldInv describes, and g_running.
TypeRest == /\ keyfile \in Keys \cup {"absent", "short"}
            /\ pc \in Starting \cup Stopping \cup {"down", "loop", "fgets", "command", "headless"}
            /\ g_identity \in Keys \cup {"none"}
            /\ tick \in {"none", "check", "tick", "sleep", "done"}
            /\ input \in Lines \cup {"none", "eof"}
            /\ exit \in {"none", "ok", "error", "killed"}
            /\ starts \in 0..MaxStarts
            /\ used \subseteq Keys

\* Every step keeps the variables in their types.
LEMMA TypeStep == TypeRest /\ IdInv /\ [Next]_vars => TypeRest'
<1> SUFFICES ASSUME TypeRest, IdInv, [Next]_vars PROVE TypeRest'
  OBVIOUS
<1> USE DEF TypeRest
<1>1. CASE Start
  <2>1. starts' \in 0..MaxStarts
    BY <1>1, KeysAssumption DEF Start
  <2>2. pc' \in {"crypto", "down"} /\ exit' \in {exit, "error"}
    BY <1>1 DEF Start, Goto
  <2>3. /\ input' = "none" /\ tick' = "none" /\ g_identity' = "none"
        /\ UNCHANGED <<keyfile, used>>
    BY <1>1 DEF Start
  <2>4. QED
    BY <2>1, <2>2, <2>3 DEF Starting
<1>2. CASE InitCrypto
  BY <1>2, ZenonT(60) DEF InitCrypto, bc_crypto_init, Exit, Goto, Starting, Stopping, Lines
<1>3. CASE LoadKey
  BY <1>3, ZenonT(60) DEF LoadKey, Exit, Goto, Starting, Stopping, Lines
<1>4. CASE GenerateKey
  BY <1>4, ZenonT(60) DEF GenerateKey, bc_identity_generate, Exit, Goto, Starting, Stopping, Lines
<1>5. CASE WriteKey
  BY <1>5 DEF WriteKey, Goto, IdInv, Starting, Stopping
<1>6. CASE OpenStorage
  BY <1>6, ZenonT(60) DEF OpenStorage, Exit, Goto, Starting, Stopping, Lines
<1>7. CASE OpenTransport
  BY <1>7, ZenonT(60) DEF OpenTransport, Exit, Goto, Starting, Stopping, Lines
<1>8. CASE CreateRouter
  BY <1>8, ZenonT(60) DEF CreateRouter, Exit, Goto, Starting, Stopping, Lines
<1>9. CASE AddPeers
  BY <1>9, ZenonT(60) DEF AddPeers, Goto, Starting, Stopping, Lines
<1>10. CASE InstallHandlers
  BY <1>10, ZenonT(60) DEF InstallHandlers, Goto, Starting, Stopping, Lines
<1>11. CASE StartThread
  BY <1>11 DEF StartThread, Exit, Goto, IdInv, Starting, Stopping
<1>12. CASE Loop
  BY <1>12, ZenonT(60) DEF Loop, Goto, Starting, Stopping, Lines
<1>13. CASE ReadLine
  BY <1>13, ZenonT(60) DEF ReadLine, Goto, Starting, Stopping, Lines
<1>14. CASE RunCommand
  BY <1>14, ZenonT(60) DEF RunCommand, Goto, Starting, Stopping, Lines
<1>15. CASE Headless
  BY <1>15, ZenonT(60) DEF Headless, Goto, Starting, Stopping, Lines
<1>16. CASE Join
  BY <1>16, ZenonT(60) DEF Join, Goto, Starting, Stopping, Lines
<1>17. CASE FreeRouter
  BY <1>17, ZenonT(60) DEF FreeRouter, Goto, Starting, Stopping, Lines
<1>18. CASE FreeTransport
  BY <1>18, ZenonT(60) DEF FreeTransport, Goto, Starting, Stopping, Lines
<1>19. CASE FreeStorage
  BY <1>19, ZenonT(60) DEF FreeStorage, Goto, Starting, Stopping, Lines
<1>20. CASE Wipe
  BY <1>20, ZenonT(60) DEF Wipe, Exit, Starting, Stopping, Lines
<1>21. CASE TickThread
  BY <1>21 DEF TickThread
<1>22. CASE Type
  BY <1>22 DEF Type
<1>23. CASE signal_handler
  BY <1>23 DEF signal_handler
<1>24. CASE Kill
  BY <1>24, ZenonT(60) DEF Kill, Starting, Stopping, Lines
<1>25. CASE UNCHANGED vars
  BY <1>25 DEF vars
<1>26. QED
  BY <1>1, <1>2, <1>3, <1>4, <1>5, <1>6, <1>7, <1>8, <1>9, <1>10, <1>11, <1>12, <1>13, <1>14, <1>15, <1>16, <1>17, <1>18, <1>19, <1>20, <1>21, <1>22, <1>23, <1>24, <1>25, ZenonT(60) DEF Next, Main

\* g_running stays a truth value.
LEMMA RunningStep == g_running \in BOOLEAN /\ [Next]_vars => g_running' \in BOOLEAN
<1> SUFFICES ASSUME g_running \in BOOLEAN, [Next]_vars PROVE g_running' \in BOOLEAN
  OBVIOUS
<1>1. CASE Start
  BY <1>1 DEF Start, Goto
<1>2. CASE InitCrypto
  BY <1>2 DEF InitCrypto, bc_crypto_init, Exit, Goto
<1>3. CASE LoadKey
  BY <1>3 DEF LoadKey, Exit, Goto
<1>4. CASE GenerateKey
  BY <1>4 DEF GenerateKey, bc_identity_generate, Exit, Goto
<1>5. CASE WriteKey
  BY <1>5 DEF WriteKey, Goto
<1>6. CASE OpenStorage
  BY <1>6 DEF OpenStorage, Exit, Goto
<1>7. CASE OpenTransport
  BY <1>7 DEF OpenTransport, Exit, Goto
<1>8. CASE CreateRouter
  BY <1>8 DEF CreateRouter, Exit, Goto
<1>9. CASE AddPeers
  BY <1>9 DEF AddPeers, Goto
<1>10. CASE InstallHandlers
  BY <1>10 DEF InstallHandlers, Goto
<1>11. CASE StartThread
  BY <1>11 DEF StartThread, Exit, Goto
<1>12. CASE Loop
  BY <1>12 DEF Loop, Goto
<1>13. CASE ReadLine
  BY <1>13, ZenonT(60) DEF ReadLine, Goto
<1>14. CASE RunCommand
  BY <1>14 DEF RunCommand, Goto
<1>15. CASE Headless
  BY <1>15 DEF Headless, Goto
<1>16. CASE Join
  BY <1>16, ZenonT(60) DEF Join, Goto
<1>17. CASE FreeRouter
  BY <1>17 DEF FreeRouter, Goto
<1>18. CASE FreeTransport
  BY <1>18 DEF FreeTransport, Goto
<1>19. CASE FreeStorage
  BY <1>19 DEF FreeStorage, Goto
<1>20. CASE Wipe
  BY <1>20 DEF Wipe, Exit
<1>21. CASE TickThread
  BY <1>21 DEF TickThread
<1>22. CASE Type
  BY <1>22 DEF Type
<1>23. CASE signal_handler
  BY <1>23, ZenonT(60) DEF signal_handler
<1>24. CASE Kill
  BY <1>24 DEF Kill
<1>25. CASE UNCHANGED vars
  BY <1>25 DEF vars
<1>26. QED
  BY <1>1, <1>2, <1>3, <1>4, <1>5, <1>6, <1>7, <1>8, <1>9, <1>10, <1>11, <1>12, <1>13, <1>14, <1>15, <1>16, <1>17, <1>18, <1>19, <1>20, <1>21, <1>22, <1>23, <1>24, <1>25 DEF Next, Main

\* Every step keeps what is held in step with the labels.
LEMMA HeldStep == TypeRest /\ HeldInv /\ [Next]_vars => HeldInv'
<1> SUFFICES ASSUME TypeRest, HeldInv, [Next]_vars PROVE HeldInv'
  OBVIOUS
<1> USE DEF HeldInv, Running
<1>1. CASE Start
  BY <1>1 DEF Start, Goto
<1>2. CASE InitCrypto
  BY <1>2 DEF InitCrypto, bc_crypto_init, Exit, Goto
<1>3. CASE LoadKey
  BY <1>3 DEF LoadKey, Exit, Goto
<1>4. CASE GenerateKey
  BY <1>4 DEF GenerateKey, bc_identity_generate, Exit, Goto
<1>5. CASE WriteKey
  BY <1>5 DEF WriteKey, Goto
<1>6. CASE OpenStorage
  BY <1>6 DEF OpenStorage, Exit, Goto, StorageFailures, Finalize, Close, StorageParts, TransportParts, RouterParts, Statements
<1>7. CASE OpenTransport
  BY <1>7 DEF OpenTransport, Exit, Goto, UdpFailures, sqlite_destroy, Finalize, Close, StorageParts, TransportParts, RouterParts, Statements
<1>8. CASE CreateRouter
  BY <1>8 DEF CreateRouter, Exit, Goto, RouterFailures, sqlite_destroy, udp_destroy, Finalize, Close, StorageParts, TransportParts, RouterParts, Statements
<1>9. CASE AddPeers
  BY <1>9 DEF AddPeers, Goto
<1>10. CASE InstallHandlers
  BY <1>10 DEF InstallHandlers, Goto
<1>11. CASE StartThread
  BY <1>11 DEF StartThread, Exit, Goto, sqlite_destroy, udp_destroy, bc_router_destroy, Finalize, Close, StorageParts, TransportParts, RouterParts, Statements
<1>12. CASE Loop
  BY <1>12 DEF Loop, Goto
<1>13. CASE ReadLine
  BY <1>13, ZenonT(60) DEF ReadLine, Goto
<1>14. CASE RunCommand
  BY <1>14 DEF RunCommand, Goto
<1>15. CASE Headless
  BY <1>15 DEF Headless, Goto
<1>16. CASE Join
  BY <1>16 DEF Join, Goto
<1>17. CASE FreeRouter
  BY <1>17 DEF FreeRouter, Goto, bc_router_destroy, StorageParts, TransportParts, RouterParts, Statements
<1>18. CASE FreeTransport
  BY <1>18 DEF FreeTransport, Goto, udp_destroy, StorageParts, TransportParts, RouterParts, Statements
<1>19. CASE FreeStorage
  BY <1>19 DEF FreeStorage, Goto, sqlite_destroy, Finalize, Close, StorageParts, TransportParts, RouterParts, Statements
<1>20. CASE Wipe
  BY <1>20 DEF Wipe, Exit
<1>21. CASE TickThread
  BY <1>21 DEF TickThread
<1>22. CASE Type
  BY <1>22 DEF Type
<1>23. CASE signal_handler
  BY <1>23 DEF signal_handler
<1>24. CASE Kill
  BY <1>24 DEF Kill
<1>25. CASE UNCHANGED vars
  BY <1>25 DEF vars
<1>26. QED
  BY <1>1, <1>2, <1>3, <1>4, <1>5, <1>6, <1>7, <1>8, <1>9, <1>10, <1>11, <1>12, <1>13, <1>14, <1>15, <1>16, <1>17, <1>18, <1>19, <1>20, <1>21, <1>22, <1>23, <1>24, <1>25, ZenonT(60) DEF Next, Main

\* Main leaves the labels of Running only when the tick thread has ended.
LEMMA TickStep == TypeRest /\ TickInv /\ [Next]_vars => TickInv'
<1> SUFFICES ASSUME TypeRest, TickInv, [Next]_vars PROVE TickInv'
  OBVIOUS
<1> USE DEF TickInv, Running, TypeRest
<1>1. CASE Start
  BY <1>1 DEF Start, Goto
<1>2. CASE InitCrypto
  BY <1>2 DEF InitCrypto, bc_crypto_init, Exit, Goto
<1>3. CASE LoadKey
  BY <1>3 DEF LoadKey, Exit, Goto
<1>4. CASE GenerateKey
  BY <1>4 DEF GenerateKey, bc_identity_generate, Exit, Goto
<1>5. CASE WriteKey
  BY <1>5 DEF WriteKey, Goto
<1>6. CASE OpenStorage
  BY <1>6 DEF OpenStorage, Exit, Goto
<1>7. CASE OpenTransport
  BY <1>7, ZenonT(60) DEF OpenTransport, Exit, Goto
<1>8. CASE CreateRouter
  BY <1>8, ZenonT(60) DEF CreateRouter, Exit, Goto
<1>9. CASE AddPeers
  BY <1>9 DEF AddPeers, Goto
<1>10. CASE InstallHandlers
  BY <1>10 DEF InstallHandlers, Goto
<1>11. CASE StartThread
  BY <1>11 DEF StartThread, Exit, Goto
<1>12. CASE Loop
  BY <1>12 DEF Loop, Goto
<1>13. CASE ReadLine
  BY <1>13, ZenonT(60) DEF ReadLine, Goto
<1>14. CASE RunCommand
  BY <1>14 DEF RunCommand, Goto
<1>15. CASE Headless
  BY <1>15 DEF Headless, Goto
<1>16. CASE Join
  BY <1>16 DEF Join, Goto
<1>17. CASE FreeRouter
  BY <1>17 DEF FreeRouter, Goto
<1>18. CASE FreeTransport
  BY <1>18 DEF FreeTransport, Goto
<1>19. CASE FreeStorage
  BY <1>19 DEF FreeStorage, Goto
<1>20. CASE Wipe
  BY <1>20 DEF Wipe, Exit
<1>21. CASE TickThread
  BY <1>21 DEF TickThread
<1>22. CASE Type
  BY <1>22 DEF Type
<1>23. CASE signal_handler
  BY <1>23 DEF signal_handler
<1>24. CASE Kill
  BY <1>24 DEF Kill
<1>25. CASE UNCHANGED vars
  BY <1>25 DEF vars
<1>26. QED
  BY <1>1, <1>2, <1>3, <1>4, <1>5, <1>6, <1>7, <1>8, <1>9, <1>10, <1>11, <1>12, <1>13, <1>14, <1>15, <1>16, <1>17, <1>18, <1>19, <1>20, <1>21, <1>22, <1>23, <1>24, <1>25 DEF Next, Main

\* Every step keeps a key in memory once there is one.
LEMMA IdStep == TypeRest /\ IdInv /\ [Next]_vars => IdInv'
<1> SUFFICES ASSUME TypeRest, IdInv, [Next]_vars PROVE IdInv'
  OBVIOUS
<1> USE DEF IdInv, Starting, Running
<1>1. CASE Start
  BY <1>1 DEF Start, Goto
<1>2. CASE InitCrypto
  BY <1>2 DEF InitCrypto, bc_crypto_init, Exit, Goto
<1>3. CASE LoadKey
  BY <1>3 DEF LoadKey, Exit, Goto, TypeRest
<1>4. CASE GenerateKey
  BY <1>4 DEF GenerateKey, bc_identity_generate, Exit, Goto
<1>5. CASE WriteKey
  BY <1>5 DEF WriteKey, Goto
<1>6. CASE OpenStorage
  BY <1>6 DEF OpenStorage, Exit, Goto
<1>7. CASE OpenTransport
  BY <1>7, ZenonT(60) DEF OpenTransport, Exit, Goto
<1>8. CASE CreateRouter
  BY <1>8, ZenonT(60) DEF CreateRouter, Exit, Goto
<1>9. CASE AddPeers
  BY <1>9 DEF AddPeers, Goto
<1>10. CASE InstallHandlers
  BY <1>10 DEF InstallHandlers, Goto
<1>11. CASE StartThread
  BY <1>11 DEF StartThread, Exit, Goto
<1>12. CASE Loop
  BY <1>12 DEF Loop, Goto
<1>13. CASE ReadLine
  BY <1>13, ZenonT(60) DEF ReadLine, Goto
<1>14. CASE RunCommand
  BY <1>14 DEF RunCommand, Goto
<1>15. CASE Headless
  BY <1>15 DEF Headless, Goto
<1>16. CASE Join
  BY <1>16 DEF Join, Goto
<1>17. CASE FreeRouter
  BY <1>17 DEF FreeRouter, Goto
<1>18. CASE FreeTransport
  BY <1>18 DEF FreeTransport, Goto
<1>19. CASE FreeStorage
  BY <1>19 DEF FreeStorage, Goto
<1>20. CASE Wipe
  BY <1>20 DEF Wipe, Exit
<1>21. CASE TickThread
  BY <1>21 DEF TickThread
<1>22. CASE Type
  BY <1>22 DEF Type
<1>23. CASE signal_handler
  BY <1>23 DEF signal_handler
<1>24. CASE Kill
  BY <1>24 DEF Kill
<1>25. CASE UNCHANGED vars
  BY <1>25, ZenonT(60) DEF vars
<1>26. QED
  BY <1>1, <1>2, <1>3, <1>4, <1>5, <1>6, <1>7, <1>8, <1>9, <1>10, <1>11, <1>12, <1>13, <1>14, <1>15, <1>16, <1>17, <1>18, <1>19, <1>20, <1>21, <1>22, <1>23, <1>24, <1>25 DEF Next, Main

\* If a failed fopen means there is no file, every step keeps the key file and
\* the keys used in step.
LEMMA KeyStep == ASSUME ~ReadFails PROVE TypeRest /\ IdInv /\ KeyInv /\ [Next]_vars => KeyInv'
<1> SUFFICES ASSUME TypeRest, IdInv, KeyInv, [Next]_vars PROVE KeyInv'
  OBVIOUS
<1> USE ~ReadFails, KeysAssumption DEF KeyInv, OneIdentity, IdInv, Starting, TypeRest
<1>1. CASE Start
  BY <1>1 DEF Start, Goto
<1>2. CASE InitCrypto
  BY <1>2 DEF InitCrypto, bc_crypto_init, Exit, Goto
<1>3. CASE LoadKey
  BY <1>3 DEF LoadKey, Exit, Goto
<1>4. CASE GenerateKey
  BY <1>4 DEF GenerateKey, bc_identity_generate, Exit, Goto
<1>5. CASE WriteKey
  BY <1>5 DEF WriteKey, Goto
<1>6. CASE OpenStorage
  BY <1>6 DEF OpenStorage, Exit, Goto
<1>7. CASE OpenTransport
  BY <1>7, ZenonT(60) DEF OpenTransport, Exit, Goto
<1>8. CASE CreateRouter
  BY <1>8, ZenonT(60) DEF CreateRouter, Exit, Goto
<1>9. CASE AddPeers
  BY <1>9 DEF AddPeers, Goto
<1>10. CASE InstallHandlers
  BY <1>10 DEF InstallHandlers, Goto
<1>11. CASE StartThread
  BY <1>11 DEF StartThread, Exit, Goto
<1>12. CASE Loop
  BY <1>12 DEF Loop, Goto
<1>13. CASE ReadLine
  BY <1>13, ZenonT(60) DEF ReadLine, Goto
<1>14. CASE RunCommand
  BY <1>14 DEF RunCommand, Goto
<1>15. CASE Headless
  BY <1>15 DEF Headless, Goto
<1>16. CASE Join
  BY <1>16 DEF Join, Goto
<1>17. CASE FreeRouter
  BY <1>17 DEF FreeRouter, Goto
<1>18. CASE FreeTransport
  BY <1>18 DEF FreeTransport, Goto
<1>19. CASE FreeStorage
  BY <1>19 DEF FreeStorage, Goto
<1>20. CASE Wipe
  BY <1>20 DEF Wipe, Exit
<1>21. CASE TickThread
  BY <1>21 DEF TickThread
<1>22. CASE Type
  BY <1>22 DEF Type
<1>23. CASE signal_handler
  BY <1>23 DEF signal_handler
<1>24. CASE Kill
  BY <1>24 DEF Kill
<1>25. CASE UNCHANGED vars
  BY <1>25 DEF vars
<1>26. QED
  BY <1>1, <1>2, <1>3, <1>4, <1>5, <1>6, <1>7, <1>8, <1>9, <1>10, <1>11, <1>12, <1>13, <1>14, <1>15, <1>16, <1>17, <1>18, <1>19, <1>20, <1>21, <1>22, <1>23, <1>24, <1>25 DEF Next, Main

-----------------------------------------------------------------------------
\* What holds whatever fopen does.
Inv == TypeRest /\ g_running \in BOOLEAN /\ HeldInv /\ TickInv /\ IdInv

\* Inv holds in every state of every run of the simulator.
LEMMA InvariantHolds == Spec => []Inv
<1>1. Init => Inv
  BY KeysAssumption DEF Init, Inv, TypeRest, HeldInv, TickInv, IdInv, Running, Starting
<1>2. Inv /\ [Next]_vars => Inv'
  BY TypeStep, RunningStep, HeldStep, TickStep, IdStep DEF Inv
<1>3. QED
  BY <1>1, <1>2, PTL DEF Spec

\* Every variable keeps its type: main, the tick thread, the user, signals and
\* kills included.
THEOREM TypeCorrect == Spec => []TypeOK
<1>1. Inv => held \subseteq Resources
  BY DEF Inv, TypeRest, HeldInv, Running, Starting, Stopping, Resources, StorageParts, TransportParts,
         RouterParts, Statements
<1>2. Inv => TypeOK
  BY <1>1, Zenon DEF Inv, TypeRest, TypeOK
<1>3. QED
  BY <1>2, InvariantHolds, PTL

\* Neither the tick thread nor a command works with what was freed: main joins
\* the thread before bc_router_destroy.
THEOREM UsesLiveHolds == Spec => []UsesLive
<1>1. Inv => (tick = "tick" => RouterParts \cup TransportParts \cup StorageParts \subseteq held)
  BY DEF Inv, HeldInv, TickInv, Running
<1>2. Inv => (pc = "command" => Needs(input) \subseteq held)
  BY DEF Inv, HeldInv, Running, Needs, cmd_info, cmd_peers, cmd_msg, RouterParts
<1>3. Inv => (pc = "command" => g_identity # "none")
  BY KeysAssumption DEF Inv, IdInv, Running
<1>4. QED
  BY <1>1, <1>2, <1>3, InvariantHolds, PTL DEF UsesLive

\* Whatever constructor fails, main returns with everything released but the
\* handle of a database that could not be opened.
THEOREM ReleasedHolds == Spec => []Released
<1>1. Inv => Released
  BY DEF Inv, HeldInv, Released
<1>2. QED
  BY <1>1, InvariantHolds, PTL

\* If an existing key file can be read, a node never comes back under another
\* key, however often it is killed and started.
THEOREM OneIdentityHolds == ASSUME ~ReadFails PROVE Spec => []OneIdentity
<1>1. Init => KeyInv
  BY DEF Init, KeyInv, OneIdentity, Starting
<1>2. Inv /\ KeyInv /\ [Next]_vars => KeyInv'
  BY ~ReadFails, KeyStep DEF Inv
<1>3. KeyInv => OneIdentity
  BY DEF KeyInv
<1>4. QED
  BY <1>1, <1>2, <1>3, InvariantHolds, PTL DEF Spec

-----------------------------------------------------------------------------
(* Why the program ends once it is told to.                                *)

\* Labels before the signal handlers are installed.
Early == Starting \ {"thread"}

\* Nobody resets g_running before the handlers are installed.
StopInv == ~g_running => pc \notin Early

\* Steps main takes at most from a label to its end once g_running is reset;
\* that of starting the tick thread counts for the thread's only one, too.
MainLeft(l) == CASE l = "thread"         -> 8
                 [] l = "fgets"          -> 8
                 [] l = "command"        -> 7
                 [] l = "loop"           -> 6
                 [] l = "headless"       -> 6
                 [] l = "join"           -> 5
                 [] l = "free_router"    -> 4
                 [] l = "free_transport" -> 3
                 [] l = "free_storage"   -> 2
                 [] l = "wipe"           -> 1
                 [] OTHER                -> 0

\* Steps of the tick thread, likewise.
TickLeft(l) == CASE l = "tick"  -> 3
                 [] l = "sleep" -> 2
                 [] l = "check" -> 1
                 [] OTHER       -> 0

StepsLeft == MainLeft(pc) + TickLeft(tick)

\* Once g_running is reset it stays so until the process is gone, and whenever
\* a thread moves on, fewer steps are left: neither the input loop, the relay
\* loop nor the tick thread's loop is entered again.
StopAdvances ==
    [][~g_running /\ pc # "down" =>
          \/ pc' = "down"
          \/ ~g_running' /\ (StepsLeft' < StepsLeft \/ UNCHANGED <<pc, tick>>)]_vars

\* The steps that are left are a number, at most eleven.
LEMMA StepsLeftType == MainLeft(pc) \in 0..8 /\ TickLeft(tick) \in 0..3
<1>1. MainLeft(pc) \in 0..8
  BY DEF MainLeft
<1>2. TickLeft(tick) \in 0..3
  BY DEF TickLeft
<1> QED  BY <1>1, <1>2

\* Nothing resets g_running while main is at an early label.
LEMMA StopInvStep == StopInv /\ [Next]_vars => StopInv'
<1> SUFFICES ASSUME StopInv, [Next]_vars, ~g_running' PROVE pc' \notin Early
  BY Zenon DEF StopInv
<1> USE DEF StopInv, Early, Starting
<1>1. CASE Start
  BY <1>1 DEF Start, Goto
<1>2. CASE InitCrypto \/ LoadKey \/ GenerateKey \/ WriteKey \/ OpenStorage
  BY <1>2 DEF InitCrypto, LoadKey, GenerateKey, WriteKey, OpenStorage
<1>3. CASE OpenTransport \/ CreateRouter \/ AddPeers \/ InstallHandlers
  BY <1>3 DEF OpenTransport, CreateRouter, AddPeers, InstallHandlers
<1>4. CASE StartThread
  BY <1>4 DEF StartThread, Goto, Exit
<1>5. CASE Loop \/ RunCommand \/ Headless
  BY <1>5 DEF Loop, RunCommand, Headless, Goto
<1>6. CASE ReadLine
  BY <1>6, ZenonT(60) DEF ReadLine, Goto
<1>7. CASE Join
  BY <1>7 DEF Join, Goto
<1>8. CASE FreeRouter \/ FreeTransport \/ FreeStorage \/ Wipe
  BY <1>8 DEF FreeRouter, FreeTransport, FreeStorage, Wipe, Goto, Exit
<1>9. CASE TickThread \/ Type
  BY <1>9 DEF TickThread, Type
<1>10. CASE signal_handler
  BY <1>10 DEF signal_handler
<1>11. CASE Kill
  BY <1>11 DEF Kill
<1>12. CASE UNCHANGED vars
  BY <1>12 DEF vars
<1> QED
  BY <1>1, <1>2, <1>3, <1>4, <1>5, <1>6, <1>7, <1>8, <1>9, <1>10, <1>11, <1>12, ZenonT(60)
  DEF Next, Main

\* What a step of either thread does to the number of steps left.
LEMMA StopStep ==
  ASSUME StopInv, Next, ~g_running, pc # "down", pc' # "down"
  PROVE  ~g_running' /\ (StepsLeft' < StepsLeft \/ UNCHANGED <<pc, tick>>)
<1>1. /\ MainLeft(pc) \in 0..8 /\ MainLeft(pc') \in 0..8
      /\ TickLeft(tick) \in 0..3 /\ TickLeft(tick') \in 0..3
  BY StepsLeftType DEF MainLeft, TickLeft
<1>2. ASSUME ~g_running', MainLeft(pc') < MainLeft(pc), tick' = tick
      PROVE  ~g_running' /\ StepsLeft' < StepsLeft
  BY <1>1, <1>2 DEF StepsLeft
<1>3. pc \notin Early
  BY DEF StopInv
<1>4. CASE StartThread
  <2>1. pc = "thread" /\ pc' = "loop" /\ tick' = "check" /\ g_running' = g_running
    BY <1>4 DEF StartThread, Goto, Exit
  <2>2. MainLeft(pc) = 8 /\ MainLeft(pc') = 6 /\ TickLeft(tick') = 1
    BY <2>1 DEF MainLeft, TickLeft
  <2> QED  BY <1>1, <2>1, <2>2 DEF StepsLeft
<1>5. CASE Loop
  <2>1. pc = "loop" /\ pc' = "join" /\ UNCHANGED <<tick, g_running>>
    BY <1>5 DEF Loop, Goto
  <2> QED  BY <1>2, <2>1 DEF MainLeft
<1>6. CASE ReadLine
  <2>1. pc = "fgets" /\ pc' \in {"headless", "loop", "command"} /\ UNCHANGED <<tick, g_running>>
    BY <1>6, ZenonT(60) DEF ReadLine, Goto
  <2> QED  BY <1>2, <2>1 DEF MainLeft
<1>7. CASE RunCommand
  <2>1. pc = "command" /\ pc' = "loop" /\ tick' = tick /\ ~g_running'
    BY <1>7, ZenonT(60) DEF RunCommand, Goto
  <2> QED  BY <1>2, <2>1 DEF MainLeft
<1>8. CASE Headless
  <2>1. pc = "headless" /\ pc' = "join" /\ UNCHANGED <<tick, g_running>>
    BY <1>8 DEF Headless, Goto
  <2> QED  BY <1>2, <2>1 DEF MainLeft
<1>9. CASE Join
  <2>1. pc = "join" /\ (pc' = "free_router" \/ pc' = pc) /\ tick' = tick /\ ~g_running'
    BY <1>9 DEF Join, Goto
  <2> QED  BY <1>2, <2>1 DEF MainLeft
<1>10. CASE FreeRouter
  <2>1. pc = "free_router" /\ pc' = "free_transport" /\ UNCHANGED <<tick, g_running>>
    BY <1>10 DEF FreeRouter, Goto
  <2> QED  BY <1>2, <2>1 DEF MainLeft
<1>11. CASE FreeTransport
  <2>1. pc = "free_transport" /\ pc' = "free_storage" /\ UNCHANGED <<tick, g_running>>
    BY <1>11 DEF FreeTransport, Goto
  <2> QED  BY <1>2, <2>1 DEF MainLeft
<1>12. CASE FreeStorage
  <2>1. pc = "free_storage" /\ pc' = "wipe" /\ UNCHANGED <<tick, g_running>>
    BY <1>12 DEF FreeStorage, Goto
  <2> QED  BY <1>2, <2>1 DEF MainLeft
<1>13. CASE TickThread
  <2>1. /\ UNCHANGED <<pc, g_running>>
        /\ \/ tick = "check" /\ tick' = "done"
           \/ tick = "tick" /\ tick' = "sleep"
           \/ tick = "sleep" /\ tick' = "check"
    BY <1>13 DEF TickThread
  <2>2. TickLeft(tick') < TickLeft(tick) /\ MainLeft(pc') = MainLeft(pc)
    BY <2>1 DEF TickLeft
  <2> QED  BY <1>1, <2>1, <2>2 DEF StepsLeft
<1>14. CASE Type \/ signal_handler
  BY <1>14 DEF Type, signal_handler
<1>15. ~(Wipe \/ Kill \/ Start)
  BY DEF Wipe, Exit, Kill, Start
<1>16. ~(InitCrypto \/ LoadKey \/ GenerateKey \/ WriteKey \/ OpenStorage)
  BY <1>3 DEF InitCrypto, LoadKey, GenerateKey, WriteKey, OpenStorage, Early, Starting
<1>17. ~(OpenTransport \/ CreateRouter \/ AddPeers \/ InstallHandlers)
  BY <1>3 DEF OpenTransport, CreateRouter, AddPeers, InstallHandlers, Early, Starting
<1> QED
  BY <1>4, <1>5, <1>6, <1>7, <1>8, <1>9, <1>10, <1>11, <1>12, <1>13, <1>14, <1>15, <1>16,
     <1>17, ZenonT(60) DEF Next, Main

\* After a stop the two threads together have at most eleven steps to go, and
\* with each there are fewer.  With both threads scheduled, this is why StopEnds
\* holds.
THEOREM StopAdvancesHolds == Spec => StopAdvances /\ [](StepsLeft \in 0..11)
<1>1. Init => StopInv
  BY DEF Init, StopInv
<1>2. StopInv /\ [Next]_vars =>
        [~g_running /\ pc # "down" =>
            \/ pc' = "down"
            \/ ~g_running' /\ (StepsLeft' < StepsLeft \/ UNCHANGED <<pc, tick>>)]_vars
  BY StopStep, ZenonT(60)
<1>3. StepsLeft \in 0..11
  BY StepsLeftType DEF StepsLeft
<1>4. Spec => []StopInv
  BY <1>1, StopInvStep, PTL DEF Spec
<1>5. Spec => StopAdvances
  BY <1>2, <1>4, PTL DEF Spec, StopAdvances
<1>6. [](StepsLeft \in 0..11)
  BY <1>3, PTL
<1> QED  BY <1>5, <1>6, PTL
=============================================================================
