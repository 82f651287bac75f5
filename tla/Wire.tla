-------------------------------- MODULE Wire --------------------------------
(***************************************************************************)
(* The conversions a message goes through: the wire format of message.c,   *)
(* the hexadecimal public keys of the simulator's command line, the saved  *)
(* key pair of identity.c, and the sealed boxes of crypto_manager.c.       *)
(*                                                                         *)
(* A byte string is a sequence.  Its elements are the numbers 0..255,      *)
(* except those of a sealed text: libsodium's authenticated encryption is  *)
(* ideal here, and a byte of its output tells only which box it is of and  *)
(* its place in it.                                                        *)
(***************************************************************************)
EXTENDS Integers, Sequences

CONSTANTS BC_UUID_SIZE,     \* 16 in the code
          BC_PUBKEY_SIZE,   \* 32
          BC_NONCE_SIZE,    \* 24
          BC_TAG_SIZE,      \* 16
          WeakKeys          \* public keys crypto_box_beforenm refuses

ASSUME SizeAssumption == /\ BC_UUID_SIZE \in Nat \ {0}
                         /\ BC_PUBKEY_SIZE \in Nat \ {0}
                         /\ BC_NONCE_SIZE \in Nat \ {0}
                         /\ BC_TAG_SIZE \in Nat \ {0}

Byte    == 0..255
Uuid    == [1..BC_UUID_SIZE -> Byte]
Pubkey  == [1..BC_PUBKEY_SIZE -> Byte]
Nonce   == [1..BC_NONCE_SIZE -> Byte]

\* n bytes of d from offset o on (memcpy from d + o).
Field(d, o, n) == [i \in 1..n |-> d[o + i]]

-----------------------------------------------------------------------------
(* Integers on the wire, most significant byte first.                      *)

\* val >> 8, and the low byte a cast to uint8_t keeps.
Shift8(val) == val \div 256
Low8(val)   == val % 256

write_u32_be(val) ==
    LET v1 == Shift8(val)
        v2 == Shift8(v1)
        v3 == Shift8(v2)
    IN  <<Low8(v3), Low8(v2), Low8(v1), Low8(val)>>

read_u32_be(src) == ((src[1] * 256 + src[2]) * 256 + src[3]) * 256 + src[4]

\* What a uint32_t keeps of val: its low four bytes.
Low32(val) == read_u32_be(write_u32_be(val))

write_u64_be(val) == write_u32_be(Shift8(Shift8(Shift8(Shift8(val))))) \o write_u32_be(val)

\* The high word is shifted in four byte steps, so that a value below 2^31
\* needs no larger intermediate one.
read_u64_be(src) ==
    (((read_u32_be(Field(src, 0, 4)) * 256 + src[5]) * 256 + src[6]) * 256 + src[7]) * 256 + src[8]

-----------------------------------------------------------------------------
(* bc_message_t and its wire format.                                       *)

BC_MESSAGE_HEADER_SIZE == BC_UUID_SIZE + 1 + BC_PUBKEY_SIZE + BC_PUBKEY_SIZE + 8 + 4

\* Mutant of bc_message_serialize: the receiver's key is written first.
bc_message_serialize_Swapped(m) ==
    m.uuid \o <<m.ttl>> \o m.receiver_pubkey \o m.sender_pubkey
      \o write_u64_be(m.timestamp) \o write_u32_be(Len(m.payload)) \o m.payload

\* The callers pass a buffer of BC_MESSAGE_HEADER_SIZE + payload_len bytes, so
\* the buffer is never too small.
bc_message_serialize(m) ==
    m.uuid \o <<m.ttl>> \o m.sender_pubkey \o m.receiver_pubkey
      \o write_u64_be(m.timestamp) \o write_u32_be(Len(m.payload)) \o m.payload

\* Where the fields of the header start.
TtlAt       == BC_UUID_SIZE
SenderAt    == TtlAt + 1
ReceiverAt  == SenderAt + BC_PUBKEY_SIZE
TimestampAt == ReceiverAt + BC_PUBKEY_SIZE
LengthAt    == TimestampAt + 8

\* Mutant of PayloadLen: a length beyond the data is cut down to it.
PayloadLen_Clamped(d) ==
    LET len == read_u32_be(Field(d, LengthAt, 4))
    IN  IF BC_MESSAGE_HEADER_SIZE + len > Len(d) THEN Len(d) - BC_MESSAGE_HEADER_SIZE ELSE len

\* The payload length a datagram claims.
PayloadLen(d) == read_u32_be(Field(d, LengthAt, 4))

\* bc_message_deserialize accepts d: a whole header, and data for the payload.
\* The sum of the header's size and a uint32_t is a uint32_t.
Parses(d) == /\ Len(d) >= BC_MESSAGE_HEADER_SIZE
             /\ Len(d) >= Low32(BC_MESSAGE_HEADER_SIZE + PayloadLen(d))

\* The message it then returns.
bc_message_deserialize(d) ==
    [uuid            |-> Field(d, 0, BC_UUID_SIZE),
     ttl             |-> d[TtlAt + 1],
     sender_pubkey   |-> Field(d, SenderAt, BC_PUBKEY_SIZE),
     receiver_pubkey |-> Field(d, ReceiverAt, BC_PUBKEY_SIZE),
     timestamp       |-> read_u64_be(Field(d, TimestampAt, 8)),
     payload         |-> SubSeq(d, BC_MESSAGE_HEADER_SIZE + 1,
                                   BC_MESSAGE_HEADER_SIZE + PayloadLen(d))]

-----------------------------------------------------------------------------
(* Public keys in hexadecimal, as characters of the command line.          *)

\* "0123456789abcdef"[v].
hex_chars(v) == IF v < 10 THEN 48 + v ELSE 87 + v

bytes_to_hex(data) ==
    [i \in 1..(2 * Len(data)) |-> IF i % 2 = 1 THEN hex_chars(data[(i + 1) \div 2] \div 16)
                                              ELSE hex_chars(data[i \div 2] % 16)]

IsHexChar(c) == c \in 48..57 \/ c \in 97..102 \/ c \in 65..70

\* The digit sscanf's %02x reads from c.
HexValue(c) == CASE c \in 48..57  -> c - 48
                 [] c \in 97..102 -> c - 87
                 [] c \in 65..70  -> c - 55

\* hex_to_bytes succeeds: the expected length, and only hexadecimal digits.
IsHex(hex, out_len) == Len(hex) = 2 * out_len /\ \A i \in 1..Len(hex) : IsHexChar(hex[i])

\* Mutant of hex_to_bytes: the low digit is taken for the high one.
hex_to_bytes_Swapped(hex, out_len) ==
    [i \in 1..out_len |-> HexValue(hex[2 * i - 1]) + 16 * HexValue(hex[2 * i])]

hex_to_bytes(hex, out_len) ==
    [i \in 1..out_len |-> 16 * HexValue(hex[2 * i - 1]) + HexValue(hex[2 * i])]

-----------------------------------------------------------------------------
(* The key pair of a node, saved and loaded.                               *)

\* Both keys of X25519 have 32 bytes.
BC_SECRET_KEY_SIZE == BC_PUBKEY_SIZE

Identity == [pubkey : Pubkey, secret_key : [1..BC_SECRET_KEY_SIZE -> Byte]]

BC_IDENTITY_SERIALIZED_SIZE == BC_PUBKEY_SIZE + BC_SECRET_KEY_SIZE

\* Into a buffer that is large enough.
bc_identity_serialize(id) == id.pubkey \o id.secret_key

\* Data that is too short is refused; what follows the keys is ignored.
IdentityParses(d) == Len(d) >= BC_IDENTITY_SERIALIZED_SIZE

bc_identity_deserialize(d) == [pubkey     |-> Field(d, 0, BC_PUBKEY_SIZE),
                               secret_key |-> Field(d, BC_PUBKEY_SIZE, BC_SECRET_KEY_SIZE)]

-----------------------------------------------------------------------------
(* Keys and sealed boxes.                                                  *)

\* crypto_box_beforenm fails on a public key it refuses.
Derives(peer) == peer \notin WeakKeys

\* The key both ends derive, each from its own secret and the other's public
\* key: it depends on the two key pairs and not on the side.
bc_crypto_derive_shared(me, peer) == {me, peer}

\* XChaCha20-Poly1305: the text's length and a tag more.
bc_crypto_encrypt(text, key, nonce) ==
    [i \in 1..(Len(text) + BC_TAG_SIZE) |->
        [key |-> key, nonce |-> nonce, text |-> text, at |-> i]]

\* The text a sealed byte belongs to.
TextIn(ct) == ct[1].text

\* bc_crypto_decrypt succeeds: at least a tag, and ct is exactly what was
\* sealed with this key and nonce.
Decrypts(ct, key, nonce) == /\ Len(ct) >= BC_TAG_SIZE
                            /\ ct = bc_crypto_encrypt(TextIn(ct), key, nonce)
=============================================================================
