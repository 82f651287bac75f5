---------------------------- MODULE MCJniBridge ----------------------------
(* The threads of the service: the coroutines of two start commands, each of  *)
(* which initialises the core, registers a listener and ticks, and the main   *)
(* thread, which sends, removes the listener and shuts down.  A call that     *)
(* only needs the lock, such as sending, is a tick here.                      *)
EXTENDS JniBridge

MCThreads   == {"start1", "start2", "main"}
MCListeners == {"l1", "l2"}
MCMay       == [t \in MCThreads |-> IF t = "main" THEN {"set", "shutdown", "tick"}
                                                  ELSE {"init", "set", "tick"}]

=============================================================================
