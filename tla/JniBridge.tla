------------------------------ MODULE JniBridge ------------------------------
(***************************************************************************)
(* Threads of the Android app inside the native library: the two mutexes   *)
(* and the Kotlin listener behind them.  g_listener_mutex (L) is static;   *)
(* g_state.mutex (G) is created by the first bitchat_init and destroyed by *)
(* bitchat_shutdown, so that its life is part of the state.                *)
(*                                                                         *)
(* A thread makes one call at a time, and calls overlap in any way: each   *)
(* start command of BitChatService runs an init of its own, and onDestroy  *)
(* shuts the core down whatever other threads are doing.  What a call does *)
(* under G is one step, except that a tick may call back into the JNI      *)
(* layer, which takes L while G is held.  FfiBridge is about the state     *)
(* that G protects.                                                        *)
(*                                                                         *)
(* Using G outside its life is undefined.  What C libraries make of it:    *)
(* the zeroed mutex is an ordinary one; a destroyed one refuses to be      *)
(* locked, which LOCK() does not notice (glibc, and bionic before API 28), *)
(* or the process is aborted (bionic); a mutex that is initialised again   *)
(* is free, and a thread that was waiting may never be woken.  A thread or *)
(* process that stops is a behaviour that takes no further step.           *)
(***************************************************************************)
EXTENDS Naturals, FiniteSets

CONSTANTS Threads,
          Listeners,
          May,          \* the calls each thread makes
          Null

ASSUME JniAssumption == /\ May \in [Threads -> SUBSET {"init", "tick", "set", "shutdown"}]
                        /\ Null \notin Listeners \cup Threads

VARIABLES
    mutex,        \* G: "raw" static zeroes, "live" or "destroyed"
    flag,         \* g_state.mutex_initialized
    gowner,       \* who holds G
    lowner,       \* who holds L
    initialized,  \* g_state.initialized
    callback,     \* is g_state.user_callback set?
    ref,          \* g_listener_ref
    call, arg,    \* each thread's call, and the listener it sets
    pc,
    running,      \* the listener whose method the thread is executing
    g_jvm         \* is g_jvm set?

vars == <<mutex, flag, gowner, lowner, initialized, callback, ref, call, arg, pc, running, g_jvm>>

HoldsG == {"inG", "callback", "calling", "unlockG", "unlockD"}
HoldsL == {"inL", "calling"}
NeedsL == {"lockL", "callback"}

\* The type of every variable; a thread is inside CallVoidMethod exactly when
\* there is a listener it runs.
TypeOK == /\ mutex \in {"raw", "live", "destroyed"}
          /\ flag \in BOOLEAN
          /\ gowner \in Threads \cup {Null}
          /\ lowner \in Threads \cup {Null}
          /\ initialized \in BOOLEAN
          /\ callback \in BOOLEAN
          /\ ref \in Listeners \cup {Null}
          /\ call \in [Threads -> {"none", "init", "tick", "set", "shutdown"}]
          /\ arg \in [Threads -> Listeners \cup {Null}]
          /\ pc \in [Threads -> HoldsG \cup HoldsL \cup NeedsL \cup
                        {"idle", "ensure", "create", "flag", "lockG", "destroy", "unflag"}]
          /\ running \in [Threads -> Listeners \cup {Null}]
          /\ g_jvm \in BOOLEAN
          /\ \A t \in Threads : running[t] # Null <=> pc[t] = "calling"

Init == /\ mutex = "raw" /\ flag = FALSE
        /\ gowner = Null /\ lowner = Null
        /\ initialized = FALSE /\ callback = FALSE
        /\ ref = Null
        /\ call = [t \in Threads |-> "none"]
        /\ arg = [t \in Threads |-> Null]
        /\ pc = [t \in Threads |-> "idle"]
        /\ running = [t \in Threads |-> Null]
        /\ g_jvm = FALSE

Goto(t, p) == pc' = [pc EXCEPT ![t] = p]

-----------------------------------------------------------------------------
(* The calls.                                                              *)

\* The virtual machine loads the library,
JNI_OnLoad ==
    /\ ~g_jvm
    /\ g_jvm' = TRUE
    /\ UNCHANGED <<mutex, flag, gowner, lowner, initialized, callback, ref, call, arg, pc, running>>

\* and may unload it while no thread is inside.  Under L, the listener's
\* GlobalRef is deleted.  The state behind G stays, callback included.
JNI_OnUnload ==
    /\ g_jvm
    /\ \A t \in Threads : pc[t] = "idle"
    /\ lowner = Null
    /\ ref' = Null
    /\ g_jvm' = FALSE
    /\ UNCHANGED <<mutex, flag, gowner, lowner, initialized, callback, call, arg, pc, running>>

\* A JNI method is entered; bitchat_init begins with ensure_mutex, the methods
\* about the listener with L, all others with G.
Start(t, c, l) ==
    /\ g_jvm
    /\ pc[t] = "idle"
    /\ c # "set" => l = Null
    /\ call' = [call EXCEPT ![t] = c]
    /\ arg' = [arg EXCEPT ![t] = l]
    /\ Goto(t, CASE c = "init" -> "ensure" [] c = "tick" -> "lockG" [] OTHER -> "lockL")
    /\ UNCHANGED <<mutex, flag, gowner, lowner, initialized, callback, ref, running, g_jvm>>

\* ensure_mutex tests mutex_initialized,
EnsureMutex(t) ==
    /\ pc[t] = "ensure"
    /\ Goto(t, IF flag THEN "lockG" ELSE "create")
    /\ UNCHANGED <<mutex, flag, gowner, lowner, initialized, callback, ref, call, arg, running, g_jvm>>

\* pthread_mutex_init makes a mutex nobody holds, whatever it was, or fails, and
\* then bitchat_init does,
MutexInit(t) ==
    /\ pc[t] = "create"
    /\ \/ mutex' = "live" /\ gowner' = Null /\ Goto(t, "flag") /\ UNCHANGED call
       \/ /\ Goto(t, "idle")
          /\ call' = [call EXCEPT ![t] = "none"]
          /\ UNCHANGED <<mutex, gowner>>
    /\ UNCHANGED <<flag, lowner, initialized, callback, ref, arg, running, g_jvm>>

\* and the flag is set.
SetFlag(t) ==
    /\ pc[t] = "flag"
    /\ flag' = TRUE
    /\ Goto(t, "lockG")
    /\ UNCHANGED <<mutex, gowner, lowner, initialized, callback, ref, call, arg, running, g_jvm>>

\* Mutant of LockG: a function without LOCK().
LockG_Missing(t) ==
    /\ pc[t] = "lockG"
    /\ gowner' = t
    /\ Goto(t, "inG")
    /\ UNCHANGED <<mutex, flag, lowner, initialized, callback, ref, call, arg, running, g_jvm>>

\* LOCK() waits until nobody holds G.  A destroyed mutex cannot be locked, and
\* the call goes on without.
LockG(t) ==
    /\ pc[t] = "lockG"
    /\ \/ mutex # "destroyed" /\ gowner = Null /\ gowner' = t
       \/ mutex = "destroyed" /\ UNCHANGED gowner
    /\ Goto(t, "inG")
    /\ UNCHANGED <<mutex, flag, lowner, initialized, callback, ref, call, arg, running, g_jvm>>

\* bitchat_init opens the storage, or fails to.
bitchat_init(t) ==
    /\ pc[t] = "inG" /\ call[t] = "init"
    /\ initialized' \in {initialized, TRUE}
    /\ Goto(t, "unlockG")
    /\ UNCHANGED <<mutex, flag, gowner, lowner, callback, ref, call, arg, running, g_jvm>>

\* bitchat_tick: a message for us goes to the callback, if one is registered.
\* Every other call that only needs the lock is a tick without a message.
bitchat_tick(t) ==
    /\ pc[t] = "inG" /\ call[t] = "tick"
    /\ \/ Goto(t, "unlockG")
       \/ initialized /\ callback /\ Goto(t, "callback")
    /\ UNCHANGED <<mutex, flag, gowner, lowner, initialized, callback, ref, call, arg, running, g_jvm>>

\* bitchat_set_on_message_callback.
bitchat_set_callback(t) ==
    /\ pc[t] = "inG" /\ call[t] = "set"
    /\ callback' = IF initialized THEN arg[t] # Null ELSE callback
    /\ Goto(t, "unlockG")
    /\ UNCHANGED <<mutex, flag, gowner, lowner, initialized, ref, call, arg, running, g_jvm>>

\* bitchat_shutdown tears everything down, unless that has been done.
bitchat_shutdown(t) ==
    /\ pc[t] = "inG" /\ call[t] = "shutdown"
    /\ callback' = (callback /\ ~initialized)
    /\ initialized' = FALSE
    /\ Goto(t, IF initialized THEN "unlockD" ELSE "unlockG")
    /\ UNCHANGED <<mutex, flag, gowner, lowner, ref, call, arg, running, g_jvm>>

\* UNLOCK(), with which all calls but a real shutdown are over.  It fails for a
\* thread that does not own the mutex.
UnlockG(t) ==
    /\ pc[t] \in {"unlockG", "unlockD"}
    /\ gowner' = IF gowner = t THEN Null ELSE gowner
    /\ IF pc[t] = "unlockG"
       THEN Goto(t, "idle") /\ call' = [call EXCEPT ![t] = "none"]
       ELSE Goto(t, "destroy") /\ UNCHANGED call
    /\ UNCHANGED <<mutex, flag, lowner, initialized, callback, ref, arg, running, g_jvm>>

\* pthread_mutex_destroy refuses (EBUSY, which nobody looks at) while the mutex
\* is held, and does not know of threads that wait for it.
DestroyMutex(t) ==
    /\ pc[t] = "destroy"
    /\ mutex' = IF gowner = Null THEN "destroyed" ELSE mutex
    /\ Goto(t, "unflag")
    /\ UNCHANGED <<flag, gowner, lowner, initialized, callback, ref, call, arg, running, g_jvm>>

\* mutex_initialized = 0.
ClearFlag(t) ==
    /\ pc[t] = "unflag"
    /\ flag' = FALSE
    /\ Goto(t, "idle")
    /\ call' = [call EXCEPT ![t] = "none"]
    /\ UNCHANGED <<mutex, gowner, lowner, initialized, callback, ref, arg, running, g_jvm>>

-----------------------------------------------------------------------------
(* The listener.                                                           *)

\* nativeSetOnMessageCallback and shutdown take L.
LockL(t) ==
    /\ pc[t] = "lockL"
    /\ lowner = Null
    /\ lowner' = t
    /\ Goto(t, "inL")
    /\ UNCHANGED <<mutex, flag, gowner, initialized, callback, ref, call, arg, running, g_jvm>>

\* Mutant of ReplaceListener: an early return that leaves L locked.
ReplaceListener_NoUnlock(t) ==
    /\ pc[t] = "inL"
    /\ \/ ref' = arg[t] /\ Goto(t, "lockG") /\ lowner' = Null /\ UNCHANGED call
       \/ /\ arg[t] # Null
          /\ ref' = Null
          /\ Goto(t, "idle")
          /\ call' = [call EXCEPT ![t] = "none"]
          /\ UNCHANGED lowner
    /\ UNCHANGED <<mutex, flag, gowner, initialized, callback, arg, running, g_jvm>>

\* The old GlobalRef is deleted, the new one created, and L released before
\* the C callback is dealt with.  When the new reference or its method is not to
\* be had, the call returns at once.
ReplaceListener(t) ==
    /\ pc[t] = "inL"
    /\ lowner' = Null
    /\ \/ ref' = arg[t] /\ Goto(t, "lockG") /\ UNCHANGED call
       \/ /\ arg[t] # Null
          /\ ref' = Null
          /\ Goto(t, "idle")
          /\ call' = [call EXCEPT ![t] = "none"]
    /\ UNCHANGED <<mutex, flag, gowner, initialized, callback, arg, running, g_jvm>>

\* Mutant of EnterCallback: the listener is called after L was released.
EnterCallback_Unlocked(t) ==
    /\ pc[t] = "callback"
    /\ lowner = Null
    /\ UNCHANGED lowner
    /\ Goto(t, IF ref = Null THEN "unlockG" ELSE "calling")
    /\ running' = [running EXCEPT ![t] = ref]
    /\ UNCHANGED <<mutex, flag, gowner, initialized, callback, ref, call, arg, g_jvm>>

\* Mutant of EnterCallback: a listener that was removed meanwhile is called.
EnterCallback_NoCheck(t) ==
    /\ pc[t] = "callback"
    /\ lowner = Null
    /\ lowner' = t
    /\ running' = [running EXCEPT ![t] = ref]
    /\ Goto(t, "calling")
    /\ UNCHANGED <<mutex, flag, gowner, initialized, callback, ref, call, arg, g_jvm>>

\* jni_on_message_callback takes L, finds a listener and calls its method, or
\* finds none (or cannot attach the thread) and returns.
EnterCallback(t) ==
    /\ pc[t] = "callback"
    /\ lowner = Null
    /\ \/ /\ g_jvm /\ ref # Null
          /\ lowner' = t
          /\ running' = [running EXCEPT ![t] = ref]
          /\ Goto(t, "calling")
       \/ Goto(t, "unlockG") /\ UNCHANGED <<lowner, running>>
    /\ UNCHANGED <<mutex, flag, gowner, initialized, callback, ref, call, arg, g_jvm>>

\* CallVoidMethod returns; L is released.
LeaveCallback(t) ==
    /\ pc[t] = "calling"
    /\ lowner' = Null
    /\ running' = [running EXCEPT ![t] = Null]
    /\ Goto(t, "unlockG")
    /\ UNCHANGED <<mutex, flag, gowner, initialized, callback, ref, call, arg, g_jvm>>

Step(t) == \/ EnsureMutex(t) \/ MutexInit(t) \/ SetFlag(t)
           \/ LockG(t) \/ UnlockG(t) \/ DestroyMutex(t) \/ ClearFlag(t)
           \/ bitchat_init(t) \/ bitchat_tick(t) \/ bitchat_set_callback(t) \/ bitchat_shutdown(t)
           \/ LockL(t) \/ ReplaceListener(t) \/ EnterCallback(t) \/ LeaveCallback(t)

Next == \/ JNI_OnLoad
        \/ JNI_OnUnload
        \/ \E t \in Threads :
              \/ \E c \in May[t], l \in Listeners \cup {Null} : Start(t, c, l)
              \/ Step(t)

Spec == Init /\ [][Next]_vars

-----------------------------------------------------------------------------
(* Properties.                                                             *)

\* Whoever is between LOCK and UNLOCK owns G, and so is alone there.
InsideOwns == \A t \in Threads : pc[t] \in HoldsG => gowner = t

\* "every public function acquires g_state.mutex (recursive) before touching
\* shared state": however calls overlap, and over any number of shutdowns and
\* new starts, the lock excludes until a call runs into the mutex bitchat_shutdown
\* has destroyed, or ensure_mutex initialises it while a thread is inside.
ExclusionLostOnly ==
    [][InsideOwns /\ ~InsideOwns' =>
          \E t \in Threads :
              \/ LockG(t) /\ mutex = "destroyed"
              \/ MutexInit(t) /\ \E u \in Threads : pc[u] \in HoldsG]_vars

\* "Thread-safe": when bitchat_shutdown, which has not returned yet, has
\* destroyed the mutex, no other call is about to lock it.
MutexUsable == \A t, u \in Threads : pc[t] = "unflag" /\ pc[u] = "lockG" => mutex # "destroyed"

\* A listener is only ever running while it is the registered one, so that
\* none is called once setMessageListener or shutdown has replaced it, and none is
\* called through a GlobalRef that was deleted.
RunsRegistered == \A t \in Threads : running[t] # Null => running[t] = ref

\* A thread that waits for a mutex somebody else holds.
Blocked(t) == \/ pc[t] = "lockG" /\ gowner # Null
              \/ pc[t] \in NeedsL /\ lowner # Null

\* A tick takes L while it holds G, and registration takes both: still, the
\* holder of the mutex a thread waits for, or of the one that holder waits for,
\* is inside the library and can go on.
NoDeadlock == \A t \in Threads : Blocked(t) =>
                 \E u \in Threads : pc[u] \in HoldsG \cup HoldsL /\ ~Blocked(u)

=============================================================================
