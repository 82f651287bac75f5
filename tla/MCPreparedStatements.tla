------------------------ MODULE MCPreparedStatements ------------------------
(* The input thread stores a message of its own; the tick thread relays one   *)
(* that may reach it again later, reads the pending messages and evicts, as   *)
(* the router does and as a user of the message store could; the input thread *)
(* also deletes.                                                              *)
EXTENDS PreparedStatements

CONSTANTS own, relay, alice, bob

MCThreads == {"input", "tick"}
MCCopies == {own, relay}
MCUuidOf == [c \in MCCopies |-> c]
MCReceiverOf == [c \in MCCopies |-> IF c = own THEN alice ELSE bob]
MCGiven == [t \in MCThreads |->
               IF t = "input"
               THEN {[op |-> "insert", copy |-> own], [op |-> "delete", uuid |-> relay]}
               ELSE {[op |-> "insert", copy |-> relay], [op |-> "all"],
                     [op |-> "for", to |-> bob], [op |-> "evict", age |-> 1]}]

=============================================================================
