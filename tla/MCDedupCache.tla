---------------------------- MODULE MCDedupCache ----------------------------
(* Four UUIDs for a table of three slots, so that it fills up; two share a    *)
(* home slot and two the slot behind it, so that probe sequences overlap.    *)
EXTENDS DedupCache

MCUuids == {"u1", "u2", "u3", "u4"}
MCHash  == [u \in MCUuids |-> IF u \in {"u3", "u4"} THEN 1 ELSE 0]

=============================================================================
