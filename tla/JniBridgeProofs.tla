--------------------------- MODULE JniBridgeProofs ---------------------------
(***************************************************************************)
(* Theorems about the native library's mutexes and its listener, for any   *)
(* number of threads and listeners.                                        *)
(***************************************************************************)
EXTENDS JniBridge, TLAPS

-----------------------------------------------------------------------------
(* The invariant, whatever the callers do.                                 *)

\* L is held by the thread that is between locking and unlocking it.
ListenerLocked == \A t \in Threads : pc[t] \in HoldsL <=> lowner = t

\* G's owner is between LOCK and UNLOCK.
OwnerInside == \A t \in Threads : gowner = t => pc[t] \in HoldsG

IInv == TypeOK /\ ListenerLocked /\ OwnerInside /\ RunsRegistered

\* It holds initially.
LEMMA InitIInv == Init => IInv
<1> SUFFICES ASSUME Init PROVE IInv
  OBVIOUS
<1>1. TypeOK
  BY JniAssumption, ZenonT(60) DEF Init, TypeOK
<1>2. ListenerLocked /\ OwnerInside /\ RunsRegistered
  BY JniAssumption DEF Init, ListenerLocked, OwnerInside, RunsRegistered, HoldsL, HoldsG
<1> QED  BY <1>1, <1>2 DEF IInv

\* A call begins.
LEMMA StartIInv ==
  ASSUME IInv, NEW t \in Threads, NEW c \in May[t], NEW l \in Listeners \cup {Null}, Start(t, c, l)
  PROVE  IInv'
<1> USE DEF IInv, HoldsG, HoldsL, NeedsL
<1>1. TypeOK'
  <2>1. /\ pc' = [pc EXCEPT ![t] = pc'[t]]
        /\ pc'[t] \in {"ensure", "lockG", "lockL"} /\ pc[t] = "idle"
    BY DEF TypeOK, Start, Goto
  <2>2. c \in {"init", "tick", "set", "shutdown"}
    BY JniAssumption
  <2>3. /\ call' \in [Threads -> {"none", "init", "tick", "set", "shutdown"}]
        /\ arg' \in [Threads -> Listeners \cup {Null}]
    BY <2>2 DEF TypeOK, Start
  <2>4. UNCHANGED <<mutex, flag, gowner, lowner, initialized, callback, ref, running, g_jvm>>
    BY DEF Start
  <2>5. \A u \in Threads : running'[u] # Null <=> pc'[u] = "calling"
    BY <2>1, <2>4 DEF TypeOK
  <2>6. pc' \in [Threads -> HoldsG \cup HoldsL \cup NeedsL \cup
                    {"idle", "ensure", "create", "flag", "lockG", "destroy", "unflag"}]
    BY <2>1 DEF TypeOK
  <2> QED  BY <2>3, <2>4, <2>5, <2>6, Zenon DEF TypeOK
<1>2. ListenerLocked' /\ OwnerInside' /\ RunsRegistered'
  BY DEF TypeOK, Start, Goto, ListenerLocked, OwnerInside, RunsRegistered
<1> QED  BY <1>1, <1>2

\* A step on G.
LEMMA MutexStepIInv ==
  ASSUME IInv, NEW t \in Threads,
         \/ EnsureMutex(t) \/ MutexInit(t) \/ SetFlag(t)
         \/ LockG(t) \/ UnlockG(t) \/ DestroyMutex(t) \/ ClearFlag(t)
  PROVE  IInv'
<1> USE JniAssumption DEF IInv, HoldsG, HoldsL, NeedsL, Goto
<1>1. TypeOK'
  <2>1. CASE EnsureMutex(t)
    BY <2>1 DEF TypeOK, EnsureMutex
  <2>2. CASE MutexInit(t)
    BY <2>2 DEF TypeOK, MutexInit
  <2>3. CASE SetFlag(t)
    BY <2>3 DEF TypeOK, SetFlag
  <2>4. CASE LockG(t)
    BY <2>4 DEF TypeOK, LockG
  <2>5. CASE DestroyMutex(t)
    BY <2>5 DEF TypeOK, DestroyMutex
  <2>6. CASE ClearFlag(t)
    BY <2>6, ZenonT(60) DEF TypeOK, ClearFlag
  <2>7. CASE UnlockG(t)
    BY <2>7 DEF TypeOK, UnlockG
  <2> QED  BY <2>1, <2>2, <2>3, <2>4, <2>5, <2>6, <2>7
<1>2. ListenerLocked' /\ RunsRegistered'
  BY DEF TypeOK, ListenerLocked, RunsRegistered,
         EnsureMutex, MutexInit, SetFlag, LockG, UnlockG, DestroyMutex, ClearFlag
<1>3. OwnerInside'
  BY DEF TypeOK, OwnerInside,
         EnsureMutex, MutexInit, SetFlag, LockG, UnlockG, DestroyMutex, ClearFlag
<1> QED  BY <1>1, <1>2, <1>3

\* What a call does under G.
LEMMA BodyIInv ==
  ASSUME IInv, NEW t \in Threads,
         bitchat_init(t) \/ bitchat_tick(t) \/ bitchat_set_callback(t) \/ bitchat_shutdown(t)
  PROVE  IInv'
<1> USE DEF IInv, HoldsG, HoldsL, NeedsL, Goto
<1>1. TypeOK'
  <2>1. CASE bitchat_init(t)
    BY <2>1, ZenonT(60) DEF TypeOK, bitchat_init
  <2>2. CASE bitchat_tick(t)
    BY <2>2 DEF TypeOK, bitchat_tick
  <2>3. CASE bitchat_set_callback(t)
    BY <2>3, ZenonT(60) DEF TypeOK, bitchat_set_callback
  <2>4. CASE bitchat_shutdown(t)
    BY <2>4, ZenonT(60) DEF TypeOK, bitchat_shutdown
  <2> QED  BY <2>1, <2>2, <2>3, <2>4
<1>2. /\ pc' = [pc EXCEPT ![t] = pc'[t]]
      /\ pc[t] = "inG" /\ pc'[t] \in {"unlockG", "unlockD", "callback"}
      /\ UNCHANGED <<gowner, lowner, ref, running>>
  BY ZenonT(60) DEF TypeOK, bitchat_init, bitchat_tick, bitchat_set_callback, bitchat_shutdown
<1>3. ListenerLocked'
  BY <1>2 DEF TypeOK, ListenerLocked
<1>4. OwnerInside' /\ RunsRegistered'
  BY <1>2 DEF TypeOK, OwnerInside, RunsRegistered
<1> QED  BY <1>1, <1>3, <1>4

\* A step on the listener: only L's owner changes the reference, and then no
\* other thread is inside the listener.
LEMMA ListenerStepIInv ==
  ASSUME IInv, NEW t \in Threads,
         LockL(t) \/ ReplaceListener(t) \/ EnterCallback(t) \/ LeaveCallback(t)
  PROVE  IInv'
<1> USE JniAssumption DEF IInv, HoldsG, HoldsL, NeedsL, Goto
<1>1. TypeOK'
  BY DEF TypeOK, LockL, ReplaceListener, EnterCallback, LeaveCallback
<1>2. ListenerLocked'
  BY DEF TypeOK, ListenerLocked, LockL, ReplaceListener, EnterCallback, LeaveCallback
<1>3. OwnerInside'
  BY DEF TypeOK, OwnerInside, LockL, ReplaceListener, EnterCallback, LeaveCallback
<1>4. RunsRegistered'
  <2>1. CASE ReplaceListener(t)
    <3>1. \A u \in Threads : running[u] = Null
      BY <2>1 DEF TypeOK, ListenerLocked, ReplaceListener
    <3> QED  BY <2>1, <3>1 DEF RunsRegistered, ReplaceListener
  <2>2. CASE LockL(t) \/ EnterCallback(t) \/ LeaveCallback(t)
    BY <2>2 DEF TypeOK, RunsRegistered, LockL, EnterCallback, LeaveCallback
  <2> QED  BY <2>1, <2>2
<1> QED  BY <1>1, <1>2, <1>3, <1>4

\* Loading and unloading: no thread is inside a listener that is deleted.
LEMMA LoadIInv == ASSUME IInv, JNI_OnLoad \/ JNI_OnUnload  PROVE IInv'
<1> USE JniAssumption DEF IInv, HoldsG, HoldsL, NeedsL
<1>1. TypeOK'
  BY ZenonT(60) DEF TypeOK, JNI_OnLoad, JNI_OnUnload
<1>2. ListenerLocked' /\ OwnerInside'
  BY DEF TypeOK, ListenerLocked, OwnerInside, JNI_OnLoad, JNI_OnUnload
<1>3. RunsRegistered'
  BY DEF TypeOK, RunsRegistered, JNI_OnLoad, JNI_OnUnload
<1> QED  BY <1>1, <1>2, <1>3

\* Every step keeps the invariant.
LEMMA NextIInv == IInv /\ [Next]_vars => IInv'
<1> SUFFICES ASSUME IInv, [Next]_vars PROVE IInv'
  OBVIOUS
<1>1. CASE UNCHANGED vars
  BY <1>1 DEF vars, IInv, TypeOK, ListenerLocked, OwnerInside, RunsRegistered
<1>2. ASSUME NEW t \in Threads, NEW c \in May[t], NEW l \in Listeners \cup {Null}, Start(t, c, l)
      PROVE  IInv'
  BY <1>2, StartIInv
<1>3. ASSUME NEW t \in Threads, Step(t)  PROVE IInv'
  BY <1>3, MutexStepIInv, BodyIInv, ListenerStepIInv DEF Step
<1>4. CASE JNI_OnLoad \/ JNI_OnUnload
  BY <1>4, LoadIInv
<1> QED  BY <1>1, <1>2, <1>3, <1>4 DEF Next

\* The invariant holds in every reachable state.
THEOREM InvariantHolds == Spec => []IInv
  BY InitIInv, NextIInv, PTL DEF Spec

\* Type correctness of the library's threads.
THEOREM TypeCorrect == Spec => []TypeOK
  BY InvariantHolds, PTL DEF IInv

\* However calls overlap, a listener runs only while it is registered.
THEOREM RunsRegisteredHolds == Spec => []RunsRegistered
  BY InvariantHolds, PTL DEF IInv

\* However calls overlap, the two mutexes are never waited for in a circle, nor
\* for a thread that has left the library.
THEOREM NoDeadlockHolds == Spec => []NoDeadlock
<1>1. IInv => NoDeadlock
  <2> SUFFICES ASSUME IInv, NEW t \in Threads, Blocked(t)
               PROVE  \E u \in Threads : pc[u] \in HoldsG \cup HoldsL /\ ~Blocked(u)
    BY DEF NoDeadlock
  <2>1. CASE lowner # Null
    <3>1. lowner \in Threads /\ pc[lowner] \in HoldsL
      BY <2>1 DEF IInv, TypeOK, ListenerLocked
    <3>2. ~Blocked(lowner)
      BY <3>1 DEF HoldsL, NeedsL, Blocked
    <3> QED  BY <3>1, <3>2
  <2>2. CASE lowner = Null
    <3>1. gowner \in Threads /\ pc[gowner] \in HoldsG
      BY <2>2 DEF Blocked, IInv, TypeOK, OwnerInside
    <3>2. ~Blocked(gowner)
      BY <2>2, <3>1 DEF HoldsG, NeedsL, Blocked
    <3> QED  BY <3>1, <3>2
  <2> QED  BY <2>1, <2>2
<1> QED  BY <1>1, InvariantHolds, PTL

-----------------------------------------------------------------------------
(* How the lock ceases to exclude.                                         *)

\* The two ways in which a thread comes to be inside without owning G.
Breach == \E t \in Threads :
              \/ LockG(t) /\ mutex = "destroyed"
              \/ MutexInit(t) /\ \E u \in Threads : pc[u] \in HoldsG

\* A step that leaves G alone lets nobody in.
LEMMA OutsideStaysOut ==
  ASSUME InsideOwns, UNCHANGED gowner,
         \A u \in Threads : pc'[u] \in HoldsG => pc[u] \in HoldsG
  PROVE  InsideOwns'
  BY DEF InsideOwns

\* The steps on G, apart from the two.
LEMMA MutexStepOwns ==
  ASSUME IInv, InsideOwns, ~Breach, NEW t \in Threads,
         \/ EnsureMutex(t) \/ MutexInit(t) \/ SetFlag(t)
         \/ LockG(t) \/ UnlockG(t) \/ DestroyMutex(t) \/ ClearFlag(t)
  PROVE  InsideOwns'
<1> USE JniAssumption DEF HoldsG, HoldsL, NeedsL, Goto, IInv, TypeOK
<1>1. CASE EnsureMutex(t) \/ SetFlag(t) \/ DestroyMutex(t) \/ ClearFlag(t)
  BY <1>1, OutsideStaysOut DEF EnsureMutex, SetFlag, DestroyMutex, ClearFlag
<1>2. CASE MutexInit(t)
  <2>1. \A u \in Threads : pc[u] \notin HoldsG
    BY <1>2 DEF Breach
  <2>2. \A u \in Threads : pc'[u] \notin HoldsG
    BY <1>2, <2>1 DEF MutexInit
  <2> QED  BY <2>2 DEF InsideOwns
<1>3. CASE LockG(t)
  <2>1. gowner = Null /\ gowner' = t
    BY <1>3 DEF LockG, Breach
  <2>2. \A u \in Threads : pc[u] \notin HoldsG
    BY <2>1 DEF InsideOwns
  <2>3. pc' = [pc EXCEPT ![t] = "inG"]
    BY <1>3 DEF LockG
  <2> QED  BY <2>1, <2>2, <2>3 DEF InsideOwns
<1>4. CASE UnlockG(t)
  <2>1. gowner = t /\ \A u \in Threads \ {t} : pc[u] \notin HoldsG
    BY <1>4 DEF UnlockG, InsideOwns
  <2>2. \A u \in Threads : pc'[u] \notin HoldsG
    BY <1>4, <2>1 DEF UnlockG
  <2> QED  BY <2>2 DEF InsideOwns
<1> QED  BY <1>1, <1>2, <1>3, <1>4

\* All other steps of a thread.
LEMMA OtherStepOwns ==
  ASSUME IInv, InsideOwns, NEW t \in Threads,
         \/ bitchat_init(t) \/ bitchat_tick(t) \/ bitchat_set_callback(t) \/ bitchat_shutdown(t)
         \/ LockL(t) \/ ReplaceListener(t) \/ EnterCallback(t) \/ LeaveCallback(t)
  PROVE  InsideOwns'
<1> USE DEF HoldsG, HoldsL, NeedsL, Goto, IInv, TypeOK
<1>1. UNCHANGED gowner
  BY DEF bitchat_init, bitchat_tick, bitchat_set_callback, bitchat_shutdown,
         LockL, ReplaceListener, EnterCallback, LeaveCallback
<1>2. \A u \in Threads : pc'[u] \in HoldsG => pc[u] \in HoldsG
  <2>1. CASE bitchat_init(t) \/ bitchat_tick(t) \/ bitchat_set_callback(t) \/ bitchat_shutdown(t)
    BY <2>1 DEF bitchat_init, bitchat_tick, bitchat_set_callback, bitchat_shutdown
  <2>2. CASE LockL(t) \/ ReplaceListener(t) \/ EnterCallback(t) \/ LeaveCallback(t)
    BY <2>2 DEF LockL, ReplaceListener, EnterCallback, LeaveCallback
  <2> QED  BY <2>1, <2>2
<1> QED  BY <1>1, <1>2, OutsideStaysOut

\* Whatever the callers do, the threads inside own G, and are therefore at most
\* one, until one of the two breaches; nothing else makes the lock fail.
THEOREM ExclusionHolds ==
  Spec => ExclusionLostOnly /\ [](InsideOwns => \A t, u \in Threads :
                                     pc[t] \in HoldsG /\ pc[u] \in HoldsG => t = u)
<1>1. ASSUME IInv, [Next]_vars PROVE InsideOwns /\ ~InsideOwns' => Breach
  <2> SUFFICES ASSUME InsideOwns, ~Breach PROVE InsideOwns'
    OBVIOUS
  <2>1. CASE UNCHANGED vars
    BY <2>1 DEF vars, InsideOwns
  <2>2. ASSUME NEW t \in Threads, NEW c \in May[t], NEW l \in Listeners \cup {Null}, Start(t, c, l)
        PROVE  InsideOwns'
    <3>1. /\ UNCHANGED gowner
          /\ \A u \in Threads : pc'[u] \in HoldsG => pc[u] \in HoldsG
      BY <1>1, <2>2 DEF Start, Goto, HoldsG, IInv, TypeOK
    <3> QED  BY <3>1, OutsideStaysOut
  <2>3. ASSUME NEW t \in Threads, Step(t) PROVE InsideOwns'
    BY <1>1, <2>3, MutexStepOwns, OtherStepOwns DEF Step
  <2>4. CASE JNI_OnLoad \/ JNI_OnUnload
    BY <2>4, OutsideStaysOut DEF JNI_OnLoad, JNI_OnUnload
  <2> QED  BY <1>1, <2>1, <2>2, <2>3, <2>4 DEF Next
<1>2. IInv /\ [Next]_vars => [InsideOwns /\ ~InsideOwns' => Breach]_vars
  BY <1>1
<1>3. InsideOwns => \A t, u \in Threads : pc[t] \in HoldsG /\ pc[u] \in HoldsG => t = u
  BY DEF InsideOwns
<1> QED  BY <1>2, <1>3, InvariantHolds, PTL DEF Spec, ExclusionLostOnly, Breach

=============================================================================
