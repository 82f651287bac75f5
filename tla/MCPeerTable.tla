---------------------------- MODULE MCPeerTable ----------------------------
(* PeerTable with room for three peers and lists of up to four ports, one   *)
(* with a port twice; 258 and 513 have the same two bytes in opposite order. *)
EXTENDS PeerTable

MCPortLists == {<<>>, <<513, 258>>, <<258, 258>>, <<0, 770, 513, 258>>}
=============================================================================
