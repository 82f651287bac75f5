------------------------------- MODULE MCMesh -------------------------------
(* Nodes for model checking: a chain a - b - c in which b relays, and a pair  *)
(* between which copies go to and fro.                                        *)
EXTENDS Mesh

MCNodes == {"a", "b", "c"}

ChainLinks == [n \in MCNodes |-> IF n = "b" THEN {"a", "c"} ELSE {"b"}]
ChainDist  == [o \in MCNodes |-> [n \in MCNodes |->
                  IF o = n THEN 0 ELSE IF "b" \in {o, n} THEN 1 ELSE 2]]

\* Two nodes and a receiver that never comes online.
PairNodes == {"a", "b"}
PairLinks == [n \in PairNodes |-> PairNodes \ {n}]
PairDist  == [o \in PairNodes |-> [n \in PairNodes |-> IF o = n THEN 0 ELSE 1]]

OneUuid   == {"m"}
FromA     == [m \in OneUuid |-> "a"]
ToC       == [m \in OneUuid |-> "c"]
ToNobody  == [m \in OneUuid |-> "x"]
AtZero    == [m \in OneUuid |-> 0]

=============================================================================
