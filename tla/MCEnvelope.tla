----------------------------- MODULE MCEnvelope -----------------------------
(* Envelope with one-byte uuids, keys, nonces and tags: a header of 16      *)
(* bytes, texts of up to 3 characters that fit the receive buffer, and of 4 *)
(* that the line buffer takes and the receive buffer does not.              *)
EXTENDS Envelope

CONSTANTS a, b, phone

MCNodes == {a, b, phone}

\* b's key is a's with the digits swapped; the third has letters for digits.
MCKey == [n \in MCNodes |-> CASE n = a -> <<18>> [] n = b -> <<33>> [] n = phone -> <<174>>]

MCUuids  == {<<1>>, <<2>>}
MCNonces == {<<7>>}

\* A text that fits, and one whose line is read in two pieces: the first makes
\* a message too long for the receive buffer, the second is a command itself.
MCTexts == {<<Space, 89, 88>>,
            <<88, 88, 88, 88>> \o MsgPrefix \o <<50, 49, Space, 90>>}

\* crypto_box_beforenm refuses the point zero.
MCWeakKeys == {<<0>>}

\* A short argument, a digit that is none, only spaces for a text, a key that
\* is refused, and another command.
MCOtherLines == {MsgPrefix \o <<65, 69>>,
                 MsgPrefix \o <<71, 69, Space, 88>>,
                 MsgPrefix \o <<65, 69, Space, Space>>,
                 MsgPrefix \o <<48, 48, Space, 88>>,
                 <<Slash, 113>>}

\* Saved key pairs, the bytes of one-byte keys in a larger buffer, and data that
\* is too short.
ASSUME SavedKeys ==
    \A k \in {0, 18, 255}, x \in {0, 33, 255}, rest \in {<<>>, <<7, 9>>} :
        LET id == [pubkey |-> <<k>>, secret_key |-> <<x>>]
            d  == bc_identity_serialize(id) \o rest
        IN  /\ id \in Identity
            /\ IdentityParses(d) /\ bc_identity_deserialize(d) = id
            /\ ~IdentityParses(SubSeq(bc_identity_serialize(id), 1, 1))
=============================================================================
