--------------------------- MODULE EnvelopeProofs ---------------------------
(***************************************************************************)
(* Proofs about the wire format and about the way of a message, for any    *)
(* sizes of the fields and buffers, any nodes, keys and texts.             *)
(***************************************************************************)
EXTENDS Envelope, TLAPS

-----------------------------------------------------------------------------
(* Sequences and their fields.                                             *)

\* Bytes are natural numbers.
LEMMA ByteNat == ASSUME NEW x \in Byte PROVE x \in Nat /\ x < 256
  BY DEF Byte

\* The sizes.
LEMMA Sizes == /\ BC_UUID_SIZE \in Nat /\ BC_PUBKEY_SIZE \in Nat
               /\ BC_NONCE_SIZE \in Nat /\ BC_TAG_SIZE \in Nat
               /\ BC_UUID_SIZE > 0 /\ BC_PUBKEY_SIZE > 0 /\ BC_NONCE_SIZE > 0 /\ BC_TAG_SIZE > 0
  BY SizeAssumption

\* d starts with p.
Starts(p, d) == Len(p) <= Len(d) /\ \A i \in 1..Len(p) : d[i] = p[i]

\* The elements of a concatenation.
LEMMA Concat == ASSUME NEW S, NEW s \in Seq(S), NEW t \in Seq(S)
                PROVE  /\ s \o t \in Seq(S)
                       /\ Len(s \o t) = Len(s) + Len(t)
                       /\ \A i \in 1..Len(s) : (s \o t)[i] = s[i]
                       /\ \A i \in 1..Len(t) : (s \o t)[Len(s) + i] = t[i]
  OBVIOUS

\* A sequence that starts with s \o t starts with s, and has t as the field
\* behind s.
LEMMA StartsField == ASSUME NEW S, NEW s \in Seq(S), NEW t \in Seq(S), NEW d \in Seq(S), Starts(s \o t, d)
                     PROVE  Starts(s, d) /\ Field(d, Len(s), Len(t)) = t
<1>1. /\ Len(s \o t) = Len(s) + Len(t)
      /\ \A i \in 1..Len(s) : (s \o t)[i] = s[i]
      /\ \A i \in 1..Len(t) : (s \o t)[Len(s) + i] = t[i]
  BY Concat
<1>2. Len(s) \in Nat /\ Len(t) \in Nat
  OBVIOUS
<1> DEFINE c == s \o t
<1>3. /\ Len(c) <= Len(d) /\ \A i \in 1..Len(c) : d[i] = c[i]
      /\ Len(c) = Len(s) + Len(t)
      /\ \A i \in 1..Len(s) : c[i] = s[i]
      /\ \A i \in 1..Len(t) : c[Len(s) + i] = t[i]
  BY <1>1 DEF Starts
<1> HIDE DEF c
<1>4. Starts(s, d)
  BY <1>2, <1>3 DEF Starts
<1>5. \A i \in 1..Len(t) : d[Len(s) + i] = t[i]
  BY <1>2, <1>3
<1>6. t = [i \in 1..Len(t) |-> t[i]]
  OBVIOUS
<1>7. Field(d, Len(s), Len(t)) = t
  BY <1>5, <1>6 DEF Field
<1>8. QED
  BY <1>4, <1>7

-----------------------------------------------------------------------------
(* Integers.                                                               *)

\* What a cast to uint8_t leaves, and what a shift by 8 leaves, make up the value.
LEMMA Split8 == ASSUME NEW v \in Nat
                PROVE  /\ Shift8(v) \in Nat /\ Low8(v) \in Nat /\ Low8(v) < 256
                       /\ v = 256 * Shift8(v) + Low8(v)
  BY DEF Shift8, Low8

\* A cast to uint8_t is a byte.
LEMMA LowByte == ASSUME NEW v \in Nat PROVE Low8(v) \in Byte
  BY DEF Low8, Byte

\* read_u32_be undoes write_u32_be on the low 32 bits of a value.
LEMMA ReadWrite32 ==
    ASSUME NEW v \in Nat
    PROVE  /\ write_u32_be(v) \in Seq(Byte) /\ Len(write_u32_be(v)) = 4
           /\ Shift8(Shift8(Shift8(Shift8(v)))) = 0 => read_u32_be(write_u32_be(v)) = v
<1> DEFINE v1 == Shift8(v)
           v2 == Shift8(v1)
           v3 == Shift8(v2)
           v4 == Shift8(v3)
           w == write_u32_be(v)
<1>1. v1 \in Nat /\ v = 256 * v1 + Low8(v)
  BY Split8
<1>2. v2 \in Nat /\ v1 = 256 * v2 + Low8(v1)
  BY <1>1, Split8
<1>3. v3 \in Nat /\ v2 = 256 * v3 + Low8(v2)
  BY <1>2, Split8
<1>4. v4 \in Nat /\ v3 = 256 * v4 + Low8(v3)
  BY <1>3, Split8
<1>5. Low8(v) \in Byte /\ Low8(v1) \in Byte /\ Low8(v2) \in Byte /\ Low8(v3) \in Byte
  BY <1>1, <1>2, <1>3, LowByte
<1>6. Low8(v) \in Nat /\ Low8(v1) \in Nat /\ Low8(v2) \in Nat /\ Low8(v3) \in Nat
  BY <1>5, ByteNat
<1>7. w = <<Low8(v3), Low8(v2), Low8(v1), Low8(v)>>
  BY DEF write_u32_be
<1> HIDE DEF v1, v2, v3, v4, w
<1>8. w \in Seq(Byte) /\ Len(w) = 4 /\ w[1] = Low8(v3) /\ w[2] = Low8(v2) /\ w[3] = Low8(v1) /\ w[4] = Low8(v)
  BY <1>5, <1>7
<1>9. v4 = 0 => read_u32_be(w) = v
  <2> DEFINE b == Low8(v)
             b1 == Low8(v1)
             b2 == Low8(v2)
             b3 == Low8(v3)
  <2>1. /\ b \in Nat /\ b1 \in Nat /\ b2 \in Nat /\ b3 \in Nat
        /\ v = 256 * v1 + b /\ v1 = 256 * v2 + b1 /\ v2 = 256 * v3 + b2 /\ v3 = 256 * v4 + b3
    BY <1>1, <1>2, <1>3, <1>4, <1>6
  <2>2. read_u32_be(w) = ((b3 * 256 + b2) * 256 + b1) * 256 + b
    BY <1>8 DEF read_u32_be
  <2> HIDE DEF b, b1, b2, b3
  <2>3. v4 = 0 => v3 = b3
    BY <1>4, <2>1
  <2>4. QED
    BY <1>1, <1>2, <1>3, <1>4, <2>1, <2>2, <2>3
<1>10. QED
  BY <1>8, <1>9 DEF w, v4, v3, v2, v1

\* read_u64_be undoes write_u64_be.
LEMMA ReadWrite64 ==
    ASSUME NEW v \in Nat
    PROVE  /\ write_u64_be(v) \in Seq(Byte) /\ Len(write_u64_be(v)) = 8
           /\ Shift8(Shift8(Shift8(Shift8(Shift8(Shift8(Shift8(v))))))) < 256
                => read_u64_be(write_u64_be(v)) = v
<1> DEFINE v1 == Shift8(v)
           v2 == Shift8(v1)
           v3 == Shift8(v2)
           h == Shift8(v3)
           hi == write_u32_be(h)
           lo == write_u32_be(v)
           w == hi \o lo
<1>1. v1 \in Nat /\ v = 256 * v1 + Low8(v)
  BY Split8
<1>2. v2 \in Nat /\ v1 = 256 * v2 + Low8(v1)
  BY <1>1, Split8
<1>3. v3 \in Nat /\ v2 = 256 * v3 + Low8(v2)
  BY <1>2, Split8
<1>4. h \in Nat /\ v3 = 256 * h + Low8(v3)
  BY <1>3, Split8
<1>5. Low8(v) \in Nat /\ Low8(v1) \in Nat /\ Low8(v2) \in Nat /\ Low8(v3) \in Nat
  BY <1>1, <1>2, <1>3, Split8
<1>6. /\ hi \in Seq(Byte) /\ Len(hi) = 4 /\ lo \in Seq(Byte) /\ Len(lo) = 4
      /\ Shift8(Shift8(Shift8(Shift8(h)))) = 0 => read_u32_be(hi) = h
  BY <1>4, ReadWrite32
<1>7. lo[1] = Low8(v3) /\ lo[2] = Low8(v2) /\ lo[3] = Low8(v1) /\ lo[4] = Low8(v)
  BY DEF write_u32_be
<1>8. w = write_u64_be(v)
  BY DEF write_u64_be
<1>9. Shift8(Shift8(Shift8(h))) < 256 => Shift8(Shift8(Shift8(Shift8(h)))) = 0
  <2>1. \A x \in Nat : x < 256 => Shift8(x) = 0
    BY DEF Shift8
  <2>2. Shift8(Shift8(Shift8(h))) \in Nat
    BY <1>4, Split8, ZenonT(60)
  <2>3. QED
    BY <2>1, <2>2
<1>a. Shift8(Shift8(Shift8(Shift8(Shift8(Shift8(Shift8(v))))))) = Shift8(Shift8(Shift8(h)))
  OBVIOUS
<1> HIDE DEF v1, v2, v3, h, hi, lo
<1>10. w \in Seq(Byte) /\ Len(w) = 8
  <2>1. w \in Seq(Byte) /\ Len(w) = Len(hi) + Len(lo)
    BY <1>6, Concat, ZenonT(60)
  <2>2. QED
    BY <1>6, <2>1
<1>b. \A i \in 1..4 : w[i] = hi[i] /\ w[4 + i] = lo[i]
  <2>0. hi \in Seq(Byte) /\ lo \in Seq(Byte)
    BY <1>6
  <2>1. /\ \A i \in 1..Len(hi) : w[i] = hi[i]
        /\ \A i \in 1..Len(lo) : w[Len(hi) + i] = lo[i]
    BY <2>0, Concat
  <2> HIDE DEF w
  <2>2. QED
    BY <1>6, <2>1
<1>11. w[5] = lo[1] /\ w[6] = lo[2] /\ w[7] = lo[3] /\ w[8] = lo[4]
  <2> HIDE DEF w
  <2>1. w[4 + 1] = lo[1] /\ w[4 + 2] = lo[2] /\ w[4 + 3] = lo[3] /\ w[4 + 4] = lo[4]
    BY <1>b
  <2>2. QED
    BY <2>1
<1>12. Field(w, 0, 4) = hi
  <2>1. hi = [i \in 1..4 |-> hi[i]]
    BY <1>6
  <2> HIDE DEF w
  <2>2. \A i \in 1..4 : w[0 + i] = hi[i]
    BY <1>b
  <2>3. QED
    BY <2>1, <2>2 DEF Field
<1> HIDE DEF w
<1>13. read_u32_be(hi) = h => read_u64_be(w) = v
  BY <1>1, <1>2, <1>3, <1>4, <1>5, <1>7, <1>11, <1>12 DEF read_u64_be
<1>14. QED
  BY <1>6, <1>8, <1>9, <1>a, <1>10, <1>13

-----------------------------------------------------------------------------
(* Messages.                                                               *)

\* Shifting keeps the order.
LEMMA ShiftMono == ASSUME NEW x \in Nat, NEW y \in Nat, x <= y
                   PROVE  Shift8(x) \in Nat /\ Shift8(y) \in Nat /\ Shift8(x) <= Shift8(y)
  BY DEF Shift8

\* A bc_message_t whose payload consists of elements of S, and whose length on
\* the wire fits 32 bits.
IsMessage(m, S) ==
    /\ m = [uuid |-> m.uuid, ttl |-> m.ttl, sender_pubkey |-> m.sender_pubkey,
            receiver_pubkey |-> m.receiver_pubkey, timestamp |-> m.timestamp, payload |-> m.payload]
    /\ m.uuid \in Uuid
    /\ m.ttl \in Byte
    /\ m.sender_pubkey \in Pubkey
    /\ m.receiver_pubkey \in Pubkey
    /\ m.timestamp \in Nat
    /\ Shift8(Shift8(Shift8(Shift8(Shift8(Shift8(Shift8(m.timestamp))))))) < 256
    /\ m.payload \in Seq(S)
    /\ Shift8(Shift8(Shift8(Shift8(BC_MESSAGE_HEADER_SIZE + Len(m.payload))))) = 0

\* Then the length of the payload fits 32 bits too, and adding the size of the
\* header to it does not wrap.
LEMMA LengthFits ==
    ASSUME NEW S, NEW m, IsMessage(m, S)
    PROVE  /\ BC_MESSAGE_HEADER_SIZE \in Nat /\ Len(m.payload) \in Nat
           /\ Shift8(Shift8(Shift8(Shift8(Len(m.payload))))) = 0
           /\ Low32(BC_MESSAGE_HEADER_SIZE + Len(m.payload)) = BC_MESSAGE_HEADER_SIZE + Len(m.payload)
<1> DEFINE x == Len(m.payload)
           y == BC_MESSAGE_HEADER_SIZE + x
           x1 == Shift8(x)  y1 == Shift8(y)
           x2 == Shift8(x1) y2 == Shift8(y1)
           x3 == Shift8(x2) y3 == Shift8(y2)
           x4 == Shift8(x3) y4 == Shift8(y3)
<1>1. BC_MESSAGE_HEADER_SIZE \in Nat
  BY Sizes DEF BC_MESSAGE_HEADER_SIZE
<1>2. x \in Nat /\ y4 = 0
  BY DEF IsMessage
<1>3. y \in Nat /\ x <= y
  <2> HIDE DEF x
  <2>1. QED
    BY <1>1, <1>2
<1>4. Low32(y) = y
  BY <1>2, <1>3, ReadWrite32 DEF Low32
<1> HIDE DEF x, y
<1>5. x1 \in Nat /\ y1 \in Nat /\ x1 <= y1
  BY <1>2, <1>3, ShiftMono
<1>6. x2 \in Nat /\ y2 \in Nat /\ x2 <= y2
  BY <1>5, ShiftMono
<1>7. x3 \in Nat /\ y3 \in Nat /\ x3 <= y3
  BY <1>6, ShiftMono
<1>8. x4 \in Nat /\ y4 \in Nat /\ x4 <= y4
  BY <1>7, ShiftMono
<1>9. x4 = 0
  <2> HIDE DEF x4, y4
  <2>1. QED
    BY <1>2, <1>8
<1>10. QED
  BY <1>1, <1>2, <1>4, <1>9 DEF x, y

\* The header of a message.
Header(m) ==
    m.uuid \o <<m.ttl>> \o m.sender_pubkey \o m.receiver_pubkey
      \o write_u64_be(m.timestamp) \o write_u32_be(Len(m.payload))

\* A fixed array is a sequence.
LEMMA ArraySeq == ASSUME NEW S, Byte \subseteq S, NEW n \in Nat, NEW f \in [1..n -> Byte]
                  PROVE  f \in Seq(S) /\ Len(f) = n
  OBVIOUS

\* Whatever starts with the header of a message has its fields where
\* bc_message_deserialize looks for them.
LEMMA HeaderFields ==
    ASSUME NEW S, Byte \subseteq S, NEW m, IsMessage(m, S), NEW d \in Seq(S), Starts(Header(m), d)
    PROVE  /\ Header(m) \in Seq(S) /\ Len(Header(m)) = BC_MESSAGE_HEADER_SIZE
           /\ Field(d, 0, BC_UUID_SIZE) = m.uuid
           /\ d[TtlAt + 1] = m.ttl
           /\ Field(d, SenderAt, BC_PUBKEY_SIZE) = m.sender_pubkey
           /\ Field(d, ReceiverAt, BC_PUBKEY_SIZE) = m.receiver_pubkey
           /\ read_u64_be(Field(d, TimestampAt, 8)) = m.timestamp
           /\ PayloadLen(d) = Len(m.payload)
<1> DEFINE u == m.uuid
           t == <<m.ttl>>
           s == m.sender_pubkey
           r == m.receiver_pubkey
           ts == write_u64_be(m.timestamp)
           ln == write_u32_be(Len(m.payload))
           p2 == u \o t
           p3 == p2 \o s
           p4 == p3 \o r
           p5 == p4 \o ts
           p6 == p5 \o ln
<1>0. Len(m.payload) \in Nat
  BY DEF IsMessage
<1>1. u \in Seq(S) /\ Len(u) = BC_UUID_SIZE
  BY ArraySeq, Sizes, ZenonT(60) DEF IsMessage, Uuid
<1>2. t \in Seq(S) /\ Len(t) = 1 /\ t[1] = m.ttl
  BY DEF IsMessage
<1>3. s \in Seq(S) /\ Len(s) = BC_PUBKEY_SIZE
  BY ArraySeq, Sizes, ZenonT(60) DEF IsMessage, Pubkey
<1>4. r \in Seq(S) /\ Len(r) = BC_PUBKEY_SIZE
  BY ArraySeq, Sizes, SMTT(60) DEF IsMessage, Pubkey
<1>5. ts \in Seq(S) /\ Len(ts) = 8 /\ read_u64_be(ts) = m.timestamp
  <2>1. ts \in Seq(Byte) /\ Len(ts) = 8 /\ read_u64_be(ts) = m.timestamp
    BY ReadWrite64 DEF IsMessage
  <2> HIDE DEF ts
  <2>2. QED
    BY <2>1
<1>6. ln \in Seq(S) /\ Len(ln) = 4 /\ read_u32_be(ln) = Len(m.payload)
  <2>1. ln \in Seq(Byte) /\ Len(ln) = 4 /\ read_u32_be(ln) = Len(m.payload)
    BY LengthFits, ReadWrite32
  <2> HIDE DEF ln
  <2>2. QED
    BY <2>1
<1>7. Starts(p6, d) /\ Header(m) = p6
  BY DEF Header
<1> HIDE DEF u, t, s, r, ts, ln
<1>8. p2 \in Seq(S) /\ Len(p2) = Len(u) + Len(t)
  BY <1>1, <1>2, Concat, ZenonT(60)
<1> HIDE DEF p2
<1>9. p3 \in Seq(S) /\ Len(p3) = Len(p2) + Len(s)
  BY <1>3, <1>8, Concat, ZenonT(60)
<1> HIDE DEF p3
<1>10. p4 \in Seq(S) /\ Len(p4) = Len(p3) + Len(r)
  BY <1>4, <1>9, Concat, ZenonT(60)
<1> HIDE DEF p4
<1>11. p5 \in Seq(S) /\ Len(p5) = Len(p4) + Len(ts)
  BY <1>5, <1>10, Concat, ZenonT(60)
<1> HIDE DEF p5
<1>12. p6 \in Seq(S) /\ Len(p6) = Len(p5) + Len(ln)
  BY <1>6, <1>11, Concat, ZenonT(60)
<1>13. Starts(p5, d) /\ Field(d, Len(p5), Len(ln)) = ln
  BY <1>6, <1>7, <1>11, StartsField, ZenonT(60)
<1>14. Starts(p4, d) /\ Field(d, Len(p4), Len(ts)) = ts
  BY <1>5, <1>10, <1>13, StartsField, ZenonT(60) DEF p5
<1>15. Starts(p3, d) /\ Field(d, Len(p3), Len(r)) = r
  BY <1>4, <1>9, <1>14, StartsField DEF p4
<1>16. Starts(p2, d) /\ Field(d, Len(p2), Len(s)) = s
  BY <1>3, <1>8, <1>15, StartsField, SMTT(60) DEF p3
<1>17. Starts(u, d) /\ Field(d, Len(u), Len(t)) = t
  BY <1>1, <1>2, <1>16, StartsField, ZenonT(60) DEF p2
<1>18. Field(d, 0, Len(u)) = u
  <2>1. u = [i \in 1..Len(u) |-> u[i]]
    BY <1>1
  <2>2. \A i \in 1..Len(u) : d[0 + i] = u[i]
    BY <1>17 DEF Starts
  <2>3. QED
    BY <2>1, <2>2 DEF Field
<1>19. d[Len(u) + 1] = t[1]
  <2>1. Field(d, Len(u), 1) = t
    BY <1>2, <1>17
  <2>2. QED
    BY <2>1 DEF Field
<1> HIDE DEF p6
<1>20. /\ Len(u) = TtlAt /\ Len(p2) = SenderAt /\ Len(p3) = ReceiverAt /\ Len(p4) = TimestampAt
       /\ Len(p5) = LengthAt /\ Len(p6) = BC_MESSAGE_HEADER_SIZE
  BY <1>1, <1>2, <1>3, <1>4, <1>5, <1>6, <1>8, <1>9, <1>10, <1>11, <1>12, Sizes
     DEF TtlAt, SenderAt, ReceiverAt, TimestampAt, LengthAt, BC_MESSAGE_HEADER_SIZE
<1>21. PayloadLen(d) = Len(m.payload)
  BY <1>6, <1>13, <1>20 DEF PayloadLen
<1>22. read_u64_be(Field(d, TimestampAt, 8)) = m.timestamp
  BY <1>5, <1>14, <1>20, ZenonT(60)
<1>23. /\ Field(d, 0, BC_UUID_SIZE) = m.uuid
       /\ d[TtlAt + 1] = m.ttl
  BY <1>1, <1>2, <1>18, <1>19, <1>20 DEF u
<1>24. /\ Field(d, SenderAt, BC_PUBKEY_SIZE) = m.sender_pubkey
       /\ Field(d, ReceiverAt, BC_PUBKEY_SIZE) = m.receiver_pubkey
  BY <1>3, <1>4, <1>15, <1>16, <1>20 DEF s, r
<1>25. QED
  BY <1>7, <1>12, <1>20, <1>21, <1>22, <1>23, <1>24, SMTT(60)

\* bc_message_deserialize undoes bc_message_serialize: every message whose
\* length on the wire fits 32 bits comes back from it as it was.
THEOREM RoundTrip ==
    ASSUME NEW S, Byte \subseteq S, NEW m, IsMessage(m, S)
    PROVE  LET d == bc_message_serialize(m)
           IN  /\ d \in Seq(S)
               /\ Len(d) = BC_MESSAGE_HEADER_SIZE + Len(m.payload)
               /\ Starts(Header(m), d)
               /\ Parses(d)
               /\ bc_message_deserialize(d) = m
<1> DEFINE h == Header(m)
           d == bc_message_serialize(m)
<1>1. d = h \o m.payload
  BY DEF bc_message_serialize, Header
<1>2. h \in Seq(S)
  <2>1. Len(m.payload) \in Nat
    BY DEF IsMessage
  <2> DEFINE u == m.uuid
             t == <<m.ttl>>
             s == m.sender_pubkey
             r == m.receiver_pubkey
             ts == write_u64_be(m.timestamp)
             ln == write_u32_be(Len(m.payload))
  <2>2. u \in Seq(S)
    BY ArraySeq, Sizes DEF IsMessage, Uuid
  <2>3. t \in Seq(S)
    BY DEF IsMessage
  <2>4. s \in Seq(S) /\ r \in Seq(S)
    BY ArraySeq, Sizes, SMTT(60) DEF IsMessage, Pubkey
  <2>5. ts \in Seq(Byte) /\ ln \in Seq(Byte)
    BY <2>1, ReadWrite32, ReadWrite64 DEF IsMessage
  <2>a. h = u \o t \o s \o r \o ts \o ln
    BY DEF Header
  <2> HIDE DEF u, t, s, r, ts, ln
  <2>6. ts \in Seq(S) /\ ln \in Seq(S)
    BY <2>5
  <2>7. u \o t \o s \in Seq(S)
    BY <2>2, <2>3, <2>4, Concat
  <2>8. u \o t \o s \o r \o ts \o ln \in Seq(S)
    BY <2>4, <2>6, <2>7, Concat
  <2>9. QED
    BY <2>a, <2>8
<1>3. m.payload \in Seq(S)
  BY DEF IsMessage
<1> HIDE DEF h, d
<1>4. /\ d \in Seq(S) /\ Len(d) = Len(h) + Len(m.payload)
      /\ \A i \in 1..Len(h) : d[i] = h[i]
  BY <1>1, <1>2, <1>3, Concat
<1>5. Starts(h, d)
  BY <1>2, <1>3, <1>4 DEF Starts
<1>6. /\ Len(h) = BC_MESSAGE_HEADER_SIZE
      /\ Field(d, 0, BC_UUID_SIZE) = m.uuid
      /\ d[TtlAt + 1] = m.ttl
      /\ Field(d, SenderAt, BC_PUBKEY_SIZE) = m.sender_pubkey
      /\ Field(d, ReceiverAt, BC_PUBKEY_SIZE) = m.receiver_pubkey
      /\ read_u64_be(Field(d, TimestampAt, 8)) = m.timestamp
      /\ PayloadLen(d) = Len(m.payload)
  BY <1>4, <1>5, HeaderFields DEF h
<1>7. Len(m.payload) \in Nat /\ Len(h) \in Nat
  BY <1>2, <1>3
<1>8. Parses(d)
  BY <1>4, <1>6, <1>7, LengthFits DEF Parses
<1>9. SubSeq(d, Len(h) + 1, Len(h) + Len(m.payload)) = m.payload
  BY <1>1, <1>2, <1>3, <1>4, <1>7
<1>10. bc_message_deserialize(d) = m
  BY <1>6, <1>9 DEF bc_message_deserialize, IsMessage
<1>11. QED
  BY <1>4, <1>5, <1>6, <1>8, <1>10 DEF d, h

\* A datagram that the buffer of bc_router_tick cuts does not parse: the length
\* in its header is still that of the whole payload, and below 2^32 with the
\* header's added.
THEOREM CutDoesNotParse ==
    ASSUME NEW S, Byte \subseteq S, NEW m, IsMessage(m, S), Len(bc_message_serialize(m)) > RecvSize
    PROVE  ~Parses(udp_recv(bc_message_serialize(m)))
<1> DEFINE d == bc_message_serialize(m)
           c == udp_recv(d)
           h == Header(m)
<1>1. d \in Seq(S) /\ Len(d) = BC_MESSAGE_HEADER_SIZE + Len(m.payload) /\ Starts(h, d)
  BY RoundTrip
<1>2. Len(h) = BC_MESSAGE_HEADER_SIZE
  BY <1>1, HeaderFields
<1>3. RecvSize \in Nat /\ Len(m.payload) \in Nat
  BY BoundAssumption DEF IsMessage
<1>a. Len(d) > RecvSize
  OBVIOUS
<1> HIDE DEF d, h
<1>4. c = SubSeq(d, 1, RecvSize)
  BY <1>1, <1>3, <1>a DEF udp_recv
<1>5. c \in Seq(S) /\ Len(c) = RecvSize /\ \A i \in 1..RecvSize : c[i] = d[i]
  BY <1>1, <1>3, <1>4, <1>a
<1> HIDE DEF c
<1>6. SUFFICES ASSUME Parses(c) PROVE FALSE
  BY DEF d, c
<1>7. Starts(h, c)
  BY <1>1, <1>2, <1>3, <1>5, <1>6, SMTT(60) DEF Parses, Starts
<1>8. PayloadLen(c) = Len(m.payload)
  BY <1>5, <1>7, HeaderFields DEF h
<1>9. BC_MESSAGE_HEADER_SIZE \in Nat
  BY Sizes DEF BC_MESSAGE_HEADER_SIZE
<1>10. QED
  BY <1>1, <1>3, <1>5, <1>6, <1>8, <1>9, <1>a, LengthFits DEF Parses

\* A datagram that fits is received whole.
LEMMA FitsWhole == ASSUME NEW S, NEW d \in Seq(S), Len(d) <= RecvSize PROVE udp_recv(d) = d
  BY BoundAssumption DEF udp_recv

-----------------------------------------------------------------------------
(* Sealed payloads.                                                        *)

\* The payload of a text: nonce || box.
Payload(text, k, nonce) == nonce \o bc_crypto_encrypt(text, k, nonce)

\* The elements of a payload, and the bytes of a header before it.
Elems(p) == Byte \cup {p[i] : i \in 1..Len(p)}

\* A payload has a nonce, then a box that is the text's length and a tag long.
LEMMA PayloadParts ==
    ASSUME NEW text \in Seq(Byte), Len(text) < Limit, NEW k, NEW nonce \in Nonces
    PROVE  LET p == Payload(text, k, nonce)
               box == bc_crypto_encrypt(text, k, nonce)
           IN  /\ p \in Seq(Elems(p))
               /\ Len(p) = BC_NONCE_SIZE + Len(text) + BC_TAG_SIZE
               /\ NonceOf(p) = nonce
               /\ BoxOf(p) = box
               /\ TextIn(box) = text
<1> DEFINE p == Payload(text, k, nonce)
           box == bc_crypto_encrypt(text, k, nonce)
           n == Len(text) + BC_TAG_SIZE
           f(i) == [key |-> k, nonce |-> nonce, text |-> text, at |-> i]
           B == {f(i) : i \in 1..n}
           S == Byte \cup B
<1>1. nonce \in Seq(Byte) /\ Len(nonce) = BC_NONCE_SIZE
  BY ArraySeq, Sizes, InputAssumption DEF Nonce
<1>2. n \in Nat /\ n > 0
  BY Sizes
<1>3. box = [i \in 1..n |-> f(i)]
  BY DEF bc_crypto_encrypt
<1>a. \A i \in 1..n : f(i) \in B
  OBVIOUS
<1>b. f(1).text = text
  OBVIOUS
<1> HIDE DEF f, B, box
<1>4. box \in Seq(B) /\ Len(box) = n
  BY <1>2, <1>3, <1>a
<1>5. TextIn(box) = text
  BY <1>2, <1>3, <1>b DEF TextIn
<1>6. nonce \in Seq(S) /\ box \in Seq(S)
  BY <1>1, <1>4
<1>7. p = nonce \o box
  BY DEF Payload, box
<1> HIDE DEF p, S, n
<1>8. p \in Seq(S) /\ Len(p) = Len(nonce) + Len(box)
  BY <1>6, <1>7, Concat
<1>9. p \in Seq(Elems(p))
  BY <1>8 DEF Elems
<1>10. NonceOf(p) = nonce
  BY <1>1, <1>6, <1>7, Sizes DEF NonceOf
<1>11. BoxOf(p) = box
  BY <1>1, <1>6, <1>7, <1>8, Sizes DEF BoxOf
<1>12. Len(p) = BC_NONCE_SIZE + Len(text) + BC_TAG_SIZE
  BY <1>1, <1>4, <1>8, Sizes DEF n
<1>13. QED
  BY <1>5, <1>9, <1>10, <1>11, <1>12 DEF p, box

\* A value below 2^32 has no byte above the fourth.
LEMMA Fits32 == ASSUME NEW v \in Nat, v < 7 * Limit PROVE Shift8(Shift8(Shift8(Shift8(v)))) = 0
<1> DEFINE v1 == Shift8(v)
           v2 == Shift8(v1)
           v3 == Shift8(v2)
<1>1. v1 \in Nat /\ v1 < 458752
  BY DEF Shift8, Limit
<1>2. v2 \in Nat /\ v2 < 1792
  BY <1>1 DEF Shift8
<1>3. v3 \in Nat /\ v3 < 7
  BY <1>2 DEF Shift8
<1>4. Shift8(v3) = 0
  BY <1>3 DEF Shift8
<1>5. QED
  BY <1>4

-----------------------------------------------------------------------------
(* The invariant: what is on the wire, in a table or on a screen comes     *)
(* from a message that was made.                                           *)

\* A message that was made.
MadeOK(m) ==
    /\ m.uuid \in Uuids
    /\ m.from \in Nodes
    /\ m.to \in Pubkey
    /\ m.text \in Seq(Byte)
    /\ Len(m.text) < Limit
    /\ \E nonce \in Nonces : m.payload = Payload(m.text, {key[m.from], m.to}, nonce)

\* What may travel of it: the ttl counts down, the time stamp is any clock's.
Copy(m, ttl, ts) ==
    [uuid |-> m.uuid, ttl |-> ttl, sender_pubkey |-> key[m.from], receiver_pubkey |-> m.to,
     timestamp |-> ts, payload |-> m.payload]

\* The row a copy is stored as at time ts.
CopyRow(m, ttl, ts) ==
    [uuid |-> m.uuid, sender_pubkey |-> key[m.from], receiver_pubkey |-> m.to,
     payload |-> m.payload, ttl |-> ttl, expires_at |-> ts + Retention]

Fits(m) == BC_MESSAGE_HEADER_SIZE + Len(m.payload) <= RecvSize

Clock   == now \in Times
MadeInv == \A m \in made : MadeOK(m)
Unique  == \A m, p \in made : m.uuid = p.uuid => m = p

\* d is a copy of a message in M.
CopyOf(d, M) ==
    \E m \in M : \E ttl \in 0..DefaultTtl, ts \in Times :
        d = bc_message_serialize(Copy(m, ttl, ts)) /\ m.from \notin Bridges

\* r is a row of n for a message in M.
RowOf(r, n, M) ==
    \E m \in M : \E ttl \in 0..DefaultTtl, ts \in Times :
        /\ r = CopyRow(m, ttl, ts)
        /\ n # m.from => Fits(m) /\ m.from \notin Bridges

\* s shows a message in M.
Shows(s, M) ==
    \E m \in M : /\ s.at \in Nodes
                 /\ s.from = key[m.from]
                 /\ m.to = key[s.at]
                 /\ s.text = m.text
                 /\ Fits(m)
                 /\ m.from \notin Bridges

NetInv   == \A d \in net : CopyOf(d, made)
RowInv   == DOMAIN rows = Nodes /\ \A n \in Nodes : \A r \in rows[n] : RowOf(r, n, made)
ShownInv == \A s \in shown : Shows(s, made)

\* A copy and a copy's row are the message, time to live and time stamp apart.
LEMMA SameCopy == \A m, ttl, ts : SameMessage(Copy(m, ttl, ts), m) /\ SameMessage(CopyRow(m, ttl, ts), m)
  BY DEF Copy, CopyRow, SameMessage

\* A copy is a message bc_message_serialize can take, and is as long as its
\* payload and a header.
LEMMA CopyMessage ==
    ASSUME NEW m, MadeOK(m), NEW ttl \in 0..DefaultTtl, NEW ts \in Times
    PROVE  /\ IsMessage(Copy(m, ttl, ts), Elems(m.payload))
           /\ Byte \subseteq Elems(m.payload)
           /\ Len(m.payload) = BC_NONCE_SIZE + Len(m.text) + BC_TAG_SIZE
<1> DEFINE c == Copy(m, ttl, ts)
           L == Len(m.payload)
<1>1. PICK nonce \in Nonces : m.payload = Payload(m.text, {key[m.from], m.to}, nonce)
  BY DEF MadeOK
<1>2. m.text \in Seq(Byte) /\ Len(m.text) < Limit
  BY DEF MadeOK
<1>3. m.payload \in Seq(Elems(m.payload)) /\ L = BC_NONCE_SIZE + Len(m.text) + BC_TAG_SIZE
  BY <1>1, <1>2, PayloadParts
<1>4. L \in Nat /\ L < 3 * Limit
  <2>1. BC_NONCE_SIZE \in Nat /\ BC_TAG_SIZE \in Nat /\ BC_NONCE_SIZE < Limit /\ BC_TAG_SIZE < Limit
    BY Sizes, BoundAssumption
  <2>2. Len(m.text) \in Nat
    BY <1>2
  <2> HIDE DEF L
  <2>3. QED
    BY <1>2, <1>3, <2>1, <2>2 DEF Limit
<1>5. Shift8(Shift8(Shift8(Shift8(BC_MESSAGE_HEADER_SIZE + L)))) = 0
  <2> HIDE DEF L
  <2>1. BC_MESSAGE_HEADER_SIZE \in Nat /\ BC_MESSAGE_HEADER_SIZE < 4 * Limit
    BY Sizes, BoundAssumption DEF BC_MESSAGE_HEADER_SIZE, Limit
  <2>2. BC_MESSAGE_HEADER_SIZE + L \in Nat /\ BC_MESSAGE_HEADER_SIZE + L < 7 * Limit
    BY <1>4, <2>1 DEF Limit
  <2>3. QED
    BY <2>2, Fits32
<1>6. ts \in Nat
  BY BoundAssumption
<1>7. Shift8(Shift8(Shift8(Shift8(Shift8(Shift8(Shift8(ts))))))) < 256
  BY BoundAssumption
<1>8. m.uuid \in Uuid /\ key[m.from] \in Pubkey /\ m.to \in Pubkey
  BY InputAssumption, KeyAssumption DEF MadeOK
<1>9. ttl \in Byte
  <2>1. DefaultTtl \in Byte
    BY BoundAssumption, ZenonT(60)
  <2>2. QED
    BY <2>1 DEF Byte
<1>10. /\ c.uuid = m.uuid /\ c.ttl = ttl /\ c.sender_pubkey = key[m.from] /\ c.receiver_pubkey = m.to
       /\ c.timestamp = ts /\ c.payload = m.payload
       /\ c = [uuid |-> c.uuid, ttl |-> c.ttl, sender_pubkey |-> c.sender_pubkey,
               receiver_pubkey |-> c.receiver_pubkey, timestamp |-> c.timestamp, payload |-> c.payload]
  BY DEF Copy
<1> HIDE DEF c
<1>11. IsMessage(c, Elems(m.payload))
  BY <1>3, <1>5, <1>6, <1>7, <1>8, <1>9, <1>10, SMTT(60) DEF IsMessage
<1>12. Byte \subseteq Elems(m.payload)
  BY SMTT(60) DEF Elems
<1>13. QED
  BY <1>3, <1>6, <1>11, <1>12 DEF c

\* What bc_message_deserialize makes of a copy.
LEMMA CopyParses ==
    ASSUME NEW m, MadeOK(m), NEW ttl \in 0..DefaultTtl, NEW ts \in Times,
           NEW d, d = bc_message_serialize(Copy(m, ttl, ts))
    PROVE  /\ d \in Seq(Elems(m.payload))
           /\ Len(d) = BC_MESSAGE_HEADER_SIZE + Len(m.payload)
           /\ Parses(d)
           /\ bc_message_deserialize(d) = Copy(m, ttl, ts)
           /\ Parses(udp_recv(d)) <=> Fits(m)
           /\ Fits(m) => udp_recv(d) = d
<1> DEFINE c == Copy(m, ttl, ts)
           S == Elems(m.payload)
<1>1. IsMessage(c, S) /\ Byte \subseteq S
  BY CopyMessage, SMTT(60)
<1>2. c.payload = m.payload
  BY DEF Copy
<1>3. Len(d) = BC_MESSAGE_HEADER_SIZE + Len(c.payload) /\ d \in Seq(S) /\ Parses(d) /\ bc_message_deserialize(d) = c
  BY <1>1, RoundTrip, SMTT(60)
<1>4. Len(d) > RecvSize => ~Parses(udp_recv(d))
  BY <1>1, CutDoesNotParse
<1>5. Len(d) <= RecvSize => udp_recv(d) = d
  BY <1>3, FitsWhole
<1>6. Len(d) \in Nat /\ RecvSize \in Nat
  BY <1>3, BoundAssumption
<1>7. Fits(m) <=> Len(d) <= RecvSize
  BY <1>2, <1>3 DEF Fits
<1> HIDE DEF c, S
<1>8. Parses(udp_recv(d)) <=> Fits(m)
  BY <1>3, <1>4, <1>5, <1>6, <1>7
<1>9. QED
  BY <1>2, <1>3, <1>5, <1>7, <1>8 DEF c, S

-----------------------------------------------------------------------------
(* The steps.                                                              *)

Core == Clock /\ MadeInv /\ Unique /\ NetInv /\ RowInv /\ ShownInv

\* More messages take nothing away.
LEMMA Monotone ==
    ASSUME NEW M, NEW N, M \subseteq N
    PROVE  /\ \A d : CopyOf(d, M) => CopyOf(d, N)
           /\ \A r, n : RowOf(r, n, M) => RowOf(r, n, N)
           /\ \A s : Shows(s, M) => Shows(s, N)
<1>2. ASSUME NEW d, CopyOf(d, M) PROVE CopyOf(d, N)
  BY <1>2 DEF CopyOf
<1>3. ASSUME NEW r, NEW n, RowOf(r, n, M) PROVE RowOf(r, n, N)
  BY <1>3 DEF RowOf
<1>4. ASSUME NEW s, Shows(s, M) PROVE Shows(s, N)
  BY <1>4 DEF Shows
<1>5. QED
  BY <1>2, <1>3, <1>4

\* A step that makes no message keeps the invariant when
\* what it sends, stores and shows comes from messages made.
LEMMA CoreFrame ==
    ASSUME Core, now' = now \/ now' \in Times, UNCHANGED made, DOMAIN rows' = Nodes,
           \A d \in net' : d \in net \/ CopyOf(d, made),
           \A n \in Nodes : \A r \in rows'[n] : r \in rows[n] \/ RowOf(r, n, made),
           \A s \in shown' : s \in shown \/ Shows(s, made)
    PROVE  Core'
<1>1. Clock' /\ MadeInv' /\ Unique'
  <2>1. Clock'
    BY Zenon DEF Core, Clock
  <2>2. MadeInv'
    BY Zenon DEF Core, MadeInv, MadeOK
  <2>3. Unique'
    BY Zenon DEF Core, Unique
  <2>4. QED
    BY <2>1, <2>2, <2>3, Zenon
<1>2. \A d \in net' : CopyOf(d, made)
  BY SMTT(60) DEF Core, NetInv
<1>3. \A n \in Nodes : \A r \in rows'[n] : RowOf(r, n, made)
  BY DEF Core, RowInv
<1>4. \A s \in shown' : Shows(s, made)
  BY DEF Core, ShownInv
<1>5. made' = made
  OBVIOUS
<1>6. NetInv'
  BY <1>2, <1>5 DEF NetInv
<1>7. RowInv'
  BY <1>3, <1>5, ZenonT(60) DEF RowInv
<1>8. ShownInv'
  BY <1>4, <1>5 DEF ShownInv
<1>9. QED
  BY <1>1, <1>6, <1>7, <1>8 DEF Core

\* The clock.
LEMMA SetClockStep == ASSUME Core, SetClock PROVE Core'
<1>1. now' \in Times /\ UNCHANGED <<made, net, rows, shown>>
  BY DEF SetClock
<1>2. DOMAIN rows' = Nodes
  BY <1>1 DEF Core, RowInv
<1>3. /\ \A d \in net' : d \in net
      /\ \A n \in Nodes : \A r \in rows'[n] : r \in rows[n]
      /\ \A s \in shown' : s \in shown
  BY <1>1
<1>4. QED
  BY <1>1, <1>2, <1>3, CoreFrame, Zenon

\* What a table holds after an insert that may fail.
LEMMA StoreOne == ASSUME NEW table, NEW m, NEW out \in StoreOutcomes(table, m)
                  PROVE  \A r \in out : r \in table \/ r = Row(m)
  BY ZenonT(60) DEF StoreOutcomes, store_message

\* What bc_message_create makes of x.
Created(x) == bc_message_create(x.uuid, key[x.from], x.to, x.payload)

\* It is the first copy of x, on the wire and in the table.
LEMMA FirstCopy ==
    ASSUME NEW x
    PROVE  Created(x) = Copy(x, DefaultTtl, now) /\ Row(Created(x)) = CopyRow(x, DefaultTtl, now)
  BY DEF Created, bc_message_create, Copy, CopyRow, Row

\* A message with a new uuid; what is sent and stored is a copy of it.
LEMMA NewMessage ==
    ASSUME Core, UNCHANGED <<now, shown>>, NEW n \in Nodes,
           NEW x, MadeOK(x), x.from = n, \A m \in made : m.uuid # x.uuid,
           made' = made \cup {x}, net' = net \cup Sent(n, Created(x)),
           NEW table \in StoreOutcomes(rows[n], Created(x)), rows' = [rows EXCEPT ![n] = table]
    PROVE  Core'
<1>0. now \in Times
  BY DEF Core, Clock
<1>1. MadeInv'
  BY Zenon DEF Core, MadeInv, MadeOK
<1>2. Unique'
  BY DEF Core, Unique
<1>3. Clock'
  BY Zenon DEF Core, Clock
<1>4. /\ \A d : CopyOf(d, made) => CopyOf(d, made')
      /\ \A r, k : RowOf(r, k, made) => RowOf(r, k, made')
      /\ \A s : Shows(s, made) => Shows(s, made')
  <2>1. made \subseteq made'
    OBVIOUS
  <2>2. QED
    BY <2>1, Monotone, ZenonT(60)
<1>5. DefaultTtl \in 0..DefaultTtl
  <2>1. DefaultTtl \in Byte
    BY BoundAssumption, Zenon
  <2>2. DefaultTtl \in Nat
    BY <2>1, ByteNat
  <2>3. QED
    BY <2>2
<1>6. x \in made'
  OBVIOUS
<1>7. ASSUME NEW d \in Sent(n, Created(x)) PROVE CopyOf(d, made')
  <2>1. d = bc_message_serialize(Copy(x, DefaultTtl, now)) /\ x.from \notin Bridges
    BY FirstCopy DEF Sent
  <2>2. QED
    BY <1>0, <1>5, <1>6, <2>1, Zenon DEF CopyOf
<1>8. NetInv'
  BY <1>4, <1>7, Zenon DEF Core, NetInv
<1>9. RowOf(Row(Created(x)), n, made')
  BY <1>0, <1>5, <1>6, FirstCopy, Zenon DEF RowOf
<1>10. RowInv'
  <2>1. \A r \in table : r \in rows[n] \/ r = Row(Created(x))
    BY StoreOne, Zenon
  <2>2. DOMAIN rows = Nodes
    BY Zenon DEF Core, RowInv
  <2>3. DOMAIN rows' = Nodes /\ \A k \in Nodes : rows'[k] = IF k = n THEN table ELSE rows[k]
    BY <2>2
  <2>4. \A k \in Nodes : \A r \in rows[k] : RowOf(r, k, made')
    BY <1>4, Zenon DEF Core, RowInv
  <2>5. QED
    BY <1>9, <2>1, <2>3, <2>4, Zenon DEF RowInv
<1>11. ShownInv'
  BY <1>4, Zenon DEF Core, ShownInv
<1>12. QED
  BY <1>1, <1>2, <1>3, <1>8, <1>10, <1>11, Zenon DEF Core

\* cmd_msg and bitchat_send_message.
LEMMA SendStep ==
    ASSUME Core, NEW n \in Nodes, NEW to \in Pubkey, NEW text \in Seq(Byte), Len(text) < Limit,
           SendText(n, to, text), UNCHANGED <<now, shown>>
    PROVE  Core'
<1> DEFINE pl(nonce) == Payload(text, {key[n], to}, nonce)
           x(u, nonce) == [uuid |-> u, from |-> n, to |-> to, text |-> text, payload |-> pl(nonce)]
<1>2. ASSUME NEW u \in Uuids \ {m.uuid : m \in made}, NEW nonce \in Nonces,
             made' = made \cup {x(u, nonce)},
             net' = net \cup Sent(n, bc_message_create(u, key[n], to, pl(nonce))),
             NEW table \in StoreOutcomes(rows[n], bc_message_create(u, key[n], to, pl(nonce))),
             rows' = [rows EXCEPT ![n] = table]
      PROVE  Core'
  <2> DEFINE y == x(u, nonce)
  <2>1. y.uuid = u /\ y.from = n /\ y.to = to /\ y.text = text /\ y.payload = pl(nonce)
    OBVIOUS
  <2>2. made' = made \cup {y}
    BY <1>2, Zenon
  <2> HIDE DEF y, x
  <2>3. Created(y) = bc_message_create(u, key[n], to, pl(nonce))
    BY <2>1, Zenon DEF Created
  <2> HIDE DEF pl
  <2>4. MadeOK(y)
    BY <2>1, Zenon DEF MadeOK, pl
  <2>5. \A m \in made : m.uuid # y.uuid
    BY <2>1
  <2>6. QED
    BY <1>2, <2>1, <2>2, <2>3, <2>4, <2>5, NewMessage, ZenonT(60)
<1>3. \E u \in Uuids \ {m.uuid : m \in made}, nonce \in Nonces :
        /\ made' = made \cup {x(u, nonce)}
        /\ net' = net \cup Sent(n, bc_message_create(u, key[n], to, pl(nonce)))
        /\ \E table \in StoreOutcomes(rows[n], bc_message_create(u, key[n], to, pl(nonce))) :
                rows' = [rows EXCEPT ![n] = table]
  BY Zenon DEF SendText, Payload, bc_crypto_derive_shared
<1> HIDE DEF x, pl
<1>4. QED
  BY <1>2, <1>3, Zenon

\* The text in the box of a message is the text it was made with.
LEMMA TextOfMade == ASSUME NEW m, MadeOK(m) PROVE TextIn(BoxOf(m.payload)) = m.text
  BY PayloadParts, SMTT(60) DEF MadeOK

\* A receiver that shows the text of a message for it.
LEMMA ShowStep ==
    ASSUME Core, UNCHANGED <<now, made, rows, net>>, NEW n \in Nodes, NEW m \in made,
           m.to = key[n], Fits(m), m.from \notin Bridges,
           NEW s, s.at = n, s.from = key[m.from], s.text = m.text, shown' = shown \cup {s}
    PROVE  Core'
<1>1. Shows(s, made)
  BY Zenon DEF Shows
<1>2. DOMAIN rows' = Nodes
  BY Zenon DEF Core, RowInv
<1>3. /\ \A d \in net' : d \in net
      /\ \A k \in Nodes : \A r \in rows'[k] : r \in rows[k]
      /\ \A x \in shown' : x \in shown \/ x = s
  BY SMT
<1>4. QED
  BY <1>1, <1>2, <1>3, CoreFrame, Zenon

\* A relay that stores a message, or fails to, and sends it on with one hop less.
LEMMA PassStep ==
    ASSUME Core, UNCHANGED <<now, made, shown>>, NEW n \in Nodes, NEW m \in made,
           NEW ttl \in 0..DefaultTtl, NEW ts \in Times,
           Fits(m), m.from \notin Bridges, NEW hop, hop = Copy(m, ttl, ts),
           NEW table \in StoreOutcomes(rows[n], hop), rows' = [rows EXCEPT ![n] = table],
           net' = net \cup Sent(n, hop)
    PROVE  Core'
<1>1. now \in Times
  BY DEF Core, Clock
<1>2. Row(hop) = CopyRow(m, ttl, now)
  BY DEF Copy, CopyRow, Row
<1>3. RowOf(Row(hop), n, made)
  BY <1>1, <1>2, Zenon DEF RowOf
<1>4. ASSUME NEW e \in Sent(n, hop) PROVE CopyOf(e, made)
  <2>1. e = bc_message_serialize(Copy(m, ttl, ts))
    BY DEF Sent
  <2>2. QED
    BY <2>1, Zenon DEF CopyOf
<1>5. \A r \in table : r \in rows[n] \/ r = Row(hop)
  BY StoreOne, Zenon
<1>6. DOMAIN rows' = Nodes /\ \A k \in Nodes : rows'[k] = IF k = n THEN table ELSE rows[k]
  BY DEF Core, RowInv
<1>7. \A k \in Nodes : \A r \in rows'[k] : r \in rows[k] \/ RowOf(r, k, made)
  BY <1>3, <1>5, <1>6, Zenon
<1>8. \A e \in net' : e \in net \/ CopyOf(e, made)
  BY <1>4, Zenon
<1>9. \A s \in shown' : s \in shown
  OBVIOUS
<1>10. QED
  BY <1>6, <1>7, <1>8, <1>9, CoreFrame, Zenon

\* A copy that is received whole is shown as it was made, or stored and sent on
\* with one hop less.
LEMMA ReceiveStep == ASSUME Core, NEW n \in Nodes, Receive(n) PROVE Core'
<1>0. PICK data \in recv(n) :
        LET msg  == bc_message_deserialize(data)
            hop  == [msg EXCEPT !.ttl = Low8(@ - 1)]
        IN  /\ Parses(data)
            /\ ~TtlExpired(msg)
            /\ IF msg.receiver_pubkey = key[n]
               THEN /\ CanShow(n, msg)
                    /\ shown' = shown \cup {[at |-> n, from |-> msg.sender_pubkey,
                                             text |-> TextIn(BoxOf(msg.payload))]}
                    /\ UNCHANGED <<rows, net>>
               ELSE /\ \E table \in StoreOutcomes(rows[n], hop) :
                            rows' = [rows EXCEPT ![n] = table]
                    /\ net' = net \cup Sent(n, hop)
                    /\ UNCHANGED shown
  BY DEF Receive
<1>1. n \notin Bridges /\ \E d \in net : data = udp_recv(d)
  BY DEF recv, ble_recv
<1>c. PICK d \in net : data = udp_recv(d)
  BY <1>1
<1>b. PICK m \in made : \E ttl \in 0..DefaultTtl, ts \in Times :
        d = bc_message_serialize(Copy(m, ttl, ts)) /\ m.from \notin Bridges
  BY DEF Core, NetInv, CopyOf
<1>2. PICK ttl \in 0..DefaultTtl, ts \in Times :
        d = bc_message_serialize(Copy(m, ttl, ts)) /\ m.from \notin Bridges
  BY <1>b
<1>3. MadeOK(m) /\ UNCHANGED <<now, made>> /\ n \notin Bridges
  BY <1>1 DEF Core, MadeInv, Receive
<1>d. Parses(udp_recv(d))
  BY <1>0, <1>c
<1>4. Fits(m) /\ udp_recv(d) = d /\ bc_message_deserialize(d) = Copy(m, ttl, ts)
  BY <1>d, <1>2, <1>3, CopyParses, ZenonT(60)
<1> DEFINE msg == Copy(m, ttl, ts)
           hop == [msg EXCEPT !.ttl = Low8(@ - 1)]
           text == TextIn(BoxOf(m.payload))
<1>a. /\ msg.ttl = ttl /\ msg.receiver_pubkey = m.to /\ msg.sender_pubkey = key[m.from]
      /\ msg.payload = m.payload
  BY SMTT(60) DEF Copy
<1>5. CASE /\ m.to = key[n]
           /\ shown' = shown \cup {[at |-> n, from |-> key[m.from], text |-> text]}
           /\ UNCHANGED <<rows, net>>
  <2>1. text = m.text
    BY <1>3, TextOfMade
  <2> DEFINE s == [at |-> n, from |-> key[m.from], text |-> text]
  <2> HIDE DEF text
  <2>2. s.at = n /\ s.from = key[m.from] /\ s.text = m.text
    BY <2>1
  <2>3. shown' = shown \cup {s} /\ UNCHANGED <<now, made, rows, net>>
    BY <1>3, <1>5, Zenon
  <2> HIDE DEF s
  <2>4. QED
    BY <1>2, <1>4, <1>5, <2>2, <2>3, ShowStep, ZenonT(60)
<1>6. CASE /\ ~TtlExpired(msg)
           /\ \E table \in StoreOutcomes(rows[n], hop) : rows' = [rows EXCEPT ![n] = table]
           /\ net' = net \cup Sent(n, hop)
           /\ UNCHANGED shown
  <2>1. ttl # 0
    BY <1>6, <1>a DEF TtlExpired
  <2>2. ttl - 1 \in 0..DefaultTtl /\ Low8(ttl - 1) = ttl - 1
    <3>1. DefaultTtl \in Byte
      BY BoundAssumption
    <3>2. DefaultTtl \in Nat /\ DefaultTtl < 256
      BY <3>1, ByteNat
    <3>3. QED
      BY <2>1, <3>2 DEF Low8
  <2>3. hop = Copy(m, ttl - 1, ts)
    BY <2>2 DEF Copy
  <2> HIDE DEF hop
  <2>4. UNCHANGED <<now, made, shown>>
    BY <1>3, <1>6, Zenon
  <2>5. QED
    BY <1>2, <1>4, <1>6, <2>2, <2>3, <2>4, PassStep, Zenon
<1>7. QED
  BY <1>0, <1>c, <1>4, <1>5, <1>6, <1>a

\* The message read back from a row is the copy that was stored.
LEMMA FromCopyRow ==
    ASSUME NEW m, NEW ttl, NEW ts \in Nat PROVE FromRow(CopyRow(m, ttl, ts)) = Copy(m, ttl, ts)
<1>1. Retention \in Nat
  BY BoundAssumption
<1>2. (ts + Retention) - Retention = ts
  BY <1>1, SMTT(60)
<1> DEFINE r == CopyRow(m, ttl, ts)
<1>3. /\ r.uuid = m.uuid /\ r.ttl = ttl /\ r.sender_pubkey = key[m.from] /\ r.receiver_pubkey = m.to
      /\ r.expires_at = ts + Retention /\ r.payload = m.payload
  BY DEF CopyRow
<1> HIDE DEF r
<1>4. r.expires_at - Retention = ts
  BY <1>2, <1>3, Zenon
<1>5. FromRow(r) = Copy(m, ttl, ts)
  BY <1>3, <1>4, Zenon DEF FromRow, Copy
<1>6. QED
  BY <1>5 DEF r

\* What is sent again from a table are copies of messages made.
LEMMA RebroadcastStep == ASSUME Core, NEW n \in Nodes, Rebroadcast(n) PROVE Core'
<1>1. UNCHANGED <<now, made, shown>> /\ rows' = [rows EXCEPT ![n] = evict_expired(rows[n])]
  BY DEF Rebroadcast
<1>2. DOMAIN rows' = Nodes /\ \A k \in Nodes : \A r \in rows'[k] : r \in rows[k]
  BY <1>1, SMTT(60) DEF Core, RowInv, evict_expired
<1>3. ASSUME NEW e \in net', e \notin net PROVE CopyOf(e, made)
  <2>1. PICK r \in rows[n] : e \in Sent(n, FromRow(r))
    BY <1>3, SMTT(60) DEF Rebroadcast, get_pending
  <2>a. PICK m \in made : \E ttl \in 0..DefaultTtl, ts \in Times :
            /\ r = CopyRow(m, ttl, ts)
            /\ n # m.from => Fits(m) /\ m.from \notin Bridges
    BY DEF Core, RowInv, RowOf
  <2>2. PICK ttl \in 0..DefaultTtl, ts \in Times :
            /\ r = CopyRow(m, ttl, ts)
            /\ n # m.from => Fits(m) /\ m.from \notin Bridges
    BY <2>a, SMTT(60)
  <2>3. ts \in Nat
    BY BoundAssumption
  <2>4. FromRow(r) = Copy(m, ttl, ts)
    BY <2>2, <2>3, FromCopyRow, SMTT(60)
  <2>5. n \notin Bridges /\ e = bc_message_serialize(Copy(m, ttl, ts))
    BY <2>1, <2>4 DEF Sent
  <2>6. m.from \notin Bridges
    BY <2>2, <2>5
  <2>7. QED
    BY <2>2, <2>5, <2>6, SMTT(60) DEF CopyOf
<1>4. QED
  BY <1>1, <1>2, <1>3, CoreFrame

-----------------------------------------------------------------------------
(* The command line.                                                       *)

\* A digit is below 16, and hex_chars and HexValue undo each other.
LEMMA Digit == /\ \A c : IsHexChar(c) => HexValue(c) \in Nat /\ HexValue(c) < 16
               /\ \A v \in Nat : v < 16 => IsHexChar(hex_chars(v)) /\ HexValue(hex_chars(v)) = v
<1>1. ASSUME NEW c, IsHexChar(c) PROVE HexValue(c) \in Nat /\ HexValue(c) < 16
  BY <1>1 DEF IsHexChar, HexValue
<1>2. ASSUME NEW v \in Nat, v < 16
      PROVE  IsHexChar(hex_chars(v)) /\ HexValue(hex_chars(v)) = v
  <2>1. CASE v < 10
    <3>1. hex_chars(v) = 48 + v /\ 48 + v \in 48..57
      BY <2>1 DEF hex_chars
    <3>2. QED
      BY <3>1 DEF IsHexChar, HexValue
  <2>2. CASE ~(v < 10)
    <3>1. hex_chars(v) = 87 + v /\ 87 + v \in 97..102
      BY <1>2, <2>2 DEF hex_chars
    <3>2. 87 + v \notin 48..57
      BY <1>2, <2>2
    <3>3. QED
      BY <3>1, <3>2 DEF IsHexChar, HexValue
  <2>3. QED
    BY <2>1, <2>2
<1>3. QED
  BY <1>1, <1>2

\* hex_to_bytes makes bytes of digits.
LEMMA HexBytes == ASSUME NEW n \in Nat, NEW hex, IsHex(hex, n)
                  PROVE  hex_to_bytes(hex, n) \in [1..n -> Byte]
<1>1. ASSUME NEW i \in 1..n PROVE 16 * HexValue(hex[2 * i - 1]) + HexValue(hex[2 * i]) \in Byte
  <2>1. IsHexChar(hex[2 * i - 1]) /\ IsHexChar(hex[2 * i])
    BY DEF IsHex
  <2> DEFINE h == HexValue(hex[2 * i - 1])
             l == HexValue(hex[2 * i])
  <2>2. h \in Nat /\ h < 16 /\ l \in Nat /\ l < 16
    BY <2>1, Digit
  <2> HIDE DEF h, l
  <2>3. 16 * h + l \in Byte
    BY <2>2 DEF Byte
  <2>4. QED
    BY <2>3 DEF h, l
<1>2. QED
  BY <1>1 DEF hex_to_bytes

\* The two digits of a byte.
LEMMA Nibbles == ASSUME NEW b \in Nat, b < 256
                 PROVE  /\ b \div 16 \in Nat /\ b \div 16 < 16 /\ b % 16 \in Nat /\ b % 16 < 16
                        /\ 16 * (b \div 16) + (b % 16) = b
  OBVIOUS

\* A key pair saved by bc_identity_serialize is read back by
\* bc_identity_deserialize, whatever follows it in the buffer; data cut short
\* is refused.
THEOREM IdentityRoundTrip ==
    ASSUME NEW id \in Identity, NEW rest \in Seq(Byte)
    PROVE  /\ IdentityParses(bc_identity_serialize(id) \o rest)
           /\ bc_identity_deserialize(bc_identity_serialize(id) \o rest) = id
           /\ \A n \in Nat : n < Len(bc_identity_serialize(id))
                  => ~IdentityParses(SubSeq(bc_identity_serialize(id), 1, n))
<1> DEFINE p == id.pubkey
           x == id.secret_key
           s == p \o x
           d == s \o rest
           P == BC_PUBKEY_SIZE
<1>1. P \in Nat /\ p \in [1..P -> Byte] /\ x \in [1..P -> Byte]
      /\ id = [pubkey |-> p, secret_key |-> x]
  BY Sizes DEF Identity, Pubkey, BC_SECRET_KEY_SIZE
<1> HIDE DEF p, x, P
<1>2. /\ p \in Seq(Byte) /\ Len(p) = P
      /\ x \in Seq(Byte) /\ Len(x) = P
  BY <1>1, ArraySeq
<1>3. /\ s \in Seq(Byte) /\ Len(s) = P + P
      /\ \A i \in 1..P : s[i] = p[i]
      /\ \A i \in 1..P : s[P + i] = x[i]
  <2>1. /\ s \in Seq(Byte)
        /\ Len(s) = Len(p) + Len(x)
        /\ \A i \in 1..Len(p) : s[i] = p[i]
        /\ \A i \in 1..Len(x) : s[Len(p) + i] = x[i]
    <3>1. p \in Seq(Byte) /\ x \in Seq(Byte)
      BY <1>2
    <3>2. QED
      BY ONLY <3>1, Concat
  <2> HIDE DEF s
  <2>2. QED
    BY <1>2, <2>1
<1> HIDE DEF s
<1>4. /\ d \in Seq(Byte) /\ Len(d) = P + P + Len(rest)
      /\ \A i \in 1..(P + P) : d[i] = s[i]
  <2>1. /\ d \in Seq(Byte)
        /\ Len(d) = Len(s) + Len(rest)
        /\ \A i \in 1..Len(s) : d[i] = s[i]
    <3>1. s \in Seq(Byte) /\ rest \in Seq(Byte)
      BY <1>3
    <3>2. QED
      BY ONLY <3>1, Concat
  <2> HIDE DEF d
  <2>2. QED
    BY <1>3, <2>1
<1> HIDE DEF d
<1>5. \A i \in 1..P : d[i] = p[i] /\ d[P + i] = x[i]
  <2> SUFFICES ASSUME NEW i \in 1..P PROVE d[i] = p[i] /\ d[P + i] = x[i]
    OBVIOUS
  <2>1. i \in 1..(P + P) /\ P + i \in 1..(P + P)
    BY <1>1
  <2>2. QED
    BY <1>3, <1>4, <2>1, SMTT(60)
<1>6. Field(d, 0, P) = p /\ Field(d, P, P) = x
  <2>1. \A i \in 1..P : 0 + i = i
    BY <1>1
  <2>2. QED
    BY <1>1, <1>5, <2>1 DEF Field
<1>7. bc_identity_serialize(id) = s
  BY DEF bc_identity_serialize, s, p, x
<1>8. bc_identity_deserialize(d) = id
  BY <1>1, <1>6, SMTT(60) DEF bc_identity_deserialize, BC_SECRET_KEY_SIZE, P
<1>9. IdentityParses(d)
  <2>1. Len(rest) \in Nat
    OBVIOUS
  <2>2. QED
    BY <1>1, <1>4, <2>1 DEF IdentityParses, BC_IDENTITY_SERIALIZED_SIZE, BC_SECRET_KEY_SIZE, P
<1>10. ASSUME NEW n \in Nat, n < Len(s) PROVE ~IdentityParses(SubSeq(s, 1, n))
  <2>1. Len(SubSeq(s, 1, n)) = n
    BY <1>3, <1>10
  <2>2. QED
    BY <1>1, <1>3, <1>10, <2>1 DEF IdentityParses, BC_IDENTITY_SERIALIZED_SIZE, BC_SECRET_KEY_SIZE, P
<1>11. QED
  BY <1>7, <1>8, <1>9, <1>10 DEF d

\* A public key printed by bytes_to_hex is read back by hex_to_bytes.
THEOREM HexRoundTrip ==
    ASSUME NEW n \in Nat, NEW k \in [1..n -> Byte]
    PROVE  /\ Len(bytes_to_hex(k)) = 2 * n
           /\ IsHex(bytes_to_hex(k), n)
           /\ hex_to_bytes(bytes_to_hex(k), n) = k
<1> DEFINE h == bytes_to_hex(k)
<1>0. Len(k) = n
  OBVIOUS
<1>1. h = [i \in 1..(2 * n) |-> IF i % 2 = 1 THEN hex_chars(k[(i + 1) \div 2] \div 16)
                                            ELSE hex_chars(k[i \div 2] % 16)]
  BY <1>0 DEF bytes_to_hex
<1> HIDE DEF h
<1>2. Len(h) = 2 * n
  <2> DEFINE g(i) == IF i % 2 = 1 THEN hex_chars(k[(i + 1) \div 2] \div 16)
                                  ELSE hex_chars(k[i \div 2] % 16)
             m == 2 * n
  <2>1. m \in Nat
    OBVIOUS
  <2>2. h = [i \in 1..m |-> g(i)]
    BY <1>1
  <2> HIDE DEF g, m
  <2>3. Len(h) = m
    BY <2>1, <2>2, SMTT(60)
  <2>4. QED
    BY <2>3 DEF m
<1>3. ASSUME NEW j \in 1..n
      PROVE  /\ h[2 * j - 1] = hex_chars(k[j] \div 16)
             /\ h[2 * j] = hex_chars(k[j] % 16)
  <2>1. 2 * j - 1 \in 1..(2 * n) /\ 2 * j \in 1..(2 * n)
    OBVIOUS
  <2>2. (2 * j - 1) % 2 = 1 /\ ((2 * j - 1) + 1) \div 2 = j /\ (2 * j) % 2 = 0 /\ (2 * j) \div 2 = j
    OBVIOUS
  <2>3. QED
    BY <1>1, <2>1, <2>2
<1>5. ASSUME NEW j \in 1..n
      PROVE  /\ IsHexChar(h[2 * j - 1]) /\ IsHexChar(h[2 * j])
             /\ 16 * HexValue(h[2 * j - 1]) + HexValue(h[2 * j]) = k[j]
  <2>1. k[j] \in Byte
    OBVIOUS
  <2> DEFINE q == k[j] \div 16
             r == k[j] % 16
  <2>2. q \in Nat /\ q < 16 /\ r \in Nat /\ r < 16 /\ 16 * q + r = k[j]
    <3>1. k[j] \in Nat /\ k[j] < 256
      BY <2>1, ByteNat
    <3>2. QED
      BY <3>1, Nibbles, ZenonT(60)
  <2>3. h[2 * j - 1] = hex_chars(q) /\ h[2 * j] = hex_chars(r)
    BY <1>3
  <2> HIDE DEF q, r
  <2>4. IsHexChar(hex_chars(q)) /\ HexValue(hex_chars(q)) = q /\ IsHexChar(hex_chars(r)) /\ HexValue(hex_chars(r)) = r
    BY <2>2, Digit
  <2>5. QED
    BY <2>2, <2>3, <2>4
<1>6. IsHex(h, n)
  <2>1. ASSUME NEW i \in 1..(2 * n) PROVE IsHexChar(h[i])
    <3>1. \E j \in 1..n : i = 2 * j - 1 \/ i = 2 * j
      <4>1. CASE i % 2 = 1
        <5>1. (i + 1) \div 2 \in 1..n /\ i = 2 * ((i + 1) \div 2) - 1
          BY <4>1
        <5>2. QED
          BY <5>1
      <4>2. CASE i % 2 # 1
        <5>1. i \div 2 \in 1..n /\ i = 2 * (i \div 2)
          BY <4>2
        <5>2. QED
          BY <5>1
      <4>3. QED
        BY <4>1, <4>2
    <3>2. QED
      BY <1>5, <3>1, ZenonT(60)
  <2>2. QED
    BY <1>2, <2>1 DEF IsHex
<1>7. hex_to_bytes(h, n) = k
  <2>1. k = [j \in 1..n |-> k[j]]
    OBVIOUS
  <2>2. QED
    BY <1>5, <2>1 DEF hex_to_bytes
<1>8. QED
  BY <1>2, <1>6, <1>7 DEF h

\* The characters a line can have.
Char == Byte \ {0, Newline}

\* The elements of a part.
LEMMA SubElem ==
    ASSUME NEW S, NEW s \in Seq(S), NEW a \in Nat, NEW b \in Nat, 1 <= a, b <= Len(s), a <= b + 1
    PROVE  /\ SubSeq(s, a, b) \in Seq(S) /\ Len(SubSeq(s, a, b)) = b + 1 - a
           /\ \A i \in 1..(b + 1 - a) : SubSeq(s, a, b)[i] = s[a + i - 1]
  BY SMTT(60)

\* A part of a part is a part.
LEMMA SubSub ==
    ASSUME NEW S, NEW s \in Seq(S), NEW a \in Nat, NEW b \in Nat, 1 <= a, b <= Len(s), a <= b + 1,
           NEW c \in Nat, NEW e \in Nat, 1 <= c, c <= e + 1, e <= b + 1 - a
    PROVE  /\ SubSeq(s, a, b) \in Seq(S) /\ Len(SubSeq(s, a, b)) = b + 1 - a
           /\ SubSeq(SubSeq(s, a, b), c, e) = SubSeq(s, a + c - 1, a + e - 1)
<1> DEFINE t == SubSeq(s, a, b)
<1>1. t \in Seq(S) /\ Len(t) = b + 1 - a /\ \A i \in 1..(b + 1 - a) : t[i] = s[a + i - 1]
  BY SubElem
<1> HIDE DEF t
<1> DEFINE l == SubSeq(t, c, e)
           r == SubSeq(s, a + c - 1, a + e - 1)
<1>2. l \in Seq(S) /\ Len(l) = e + 1 - c /\ \A i \in 1..(e + 1 - c) : l[i] = t[c + i - 1]
  BY <1>1, SubElem
<1>3. r \in Seq(S) /\ Len(r) = e + 1 - c /\ \A i \in 1..(e + 1 - c) : r[i] = s[(a + c - 1) + i - 1]
  <2>1. /\ a + c - 1 \in Nat /\ a + e - 1 \in Nat /\ 1 <= a + c - 1 /\ a + e - 1 <= Len(s)
        /\ a + c - 1 <= (a + e - 1) + 1 /\ (a + e - 1) + 1 - (a + c - 1) = e + 1 - c
    OBVIOUS
  <2> DEFINE f == a + c - 1
             g == a + e - 1
  <2>2. f \in Nat /\ g \in Nat /\ 1 <= f /\ g <= Len(s) /\ f <= g + 1
    BY <2>1
  <2> HIDE DEF f, g
  <2>3. /\ SubSeq(s, f, g) \in Seq(S) /\ Len(SubSeq(s, f, g)) = g + 1 - f
        /\ \A i \in 1..(g + 1 - f) : SubSeq(s, f, g)[i] = s[f + i - 1]
    BY <2>2, SubElem, SMTT(60)
  <2>4. QED
    BY <2>1, <2>3, Zenon DEF f, g
<1> HIDE DEF l, r
<1>4. \A i \in 1..(e + 1 - c) : l[i] = r[i]
  <2> SUFFICES ASSUME NEW i \in 1..(e + 1 - c) PROVE l[i] = r[i]
    OBVIOUS
  <2>1. c + i - 1 \in 1..(b + 1 - a) /\ a + (c + i - 1) - 1 = (a + c - 1) + i - 1
    OBVIOUS
  <2>2. QED
    BY <1>1, <1>2, <1>3, <2>1, ZenonT(60)
<1>5. l = r
  <2>1. l = [i \in 1..Len(l) |-> l[i]] /\ r = [i \in 1..Len(r) |-> r[i]]
    BY <1>2, <1>3
  <2>2. QED
    BY <1>2, <1>3, <1>4, <2>1, ZenonT(60)
<1>6. QED
  BY <1>1, <1>5 DEF t, l, r

\* There is one first character that is not a space.
LEMMA OneFirst ==
    ASSUME NEW s, NEW n \in Nat, NEW i \in 1..n, NEW j \in 1..n, FirstOther(s, i), FirstOther(s, j)
    PROVE  i = j
<1>1. /\ s[i] # Space /\ \A k \in 1..(i - 1) : s[k] = Space
      /\ s[j] # Space /\ \A k \in 1..(j - 1) : s[k] = Space
  BY DEF FirstOther
<1>2. j \notin 1..(i - 1) /\ i \notin 1..(j - 1)
  BY <1>1, Zenon
<1>3. QED
  BY <1>2

\* A space in front of a text is skipped like those the text starts with.
LEMMA SkipOneMore == ASSUME NEW s \in Seq(Char)
                     PROVE  SkipSpaces(<<Space>> \o s) = SkipSpaces(s)
<1> DEFINE p == <<Space>>
           t == p \o s
           N == Len(s)
<1>0. Space \in Char
  BY DEF Char, Byte, Space, Newline
<1>1. t \in Seq(Char) /\ Len(t) = 1 + N /\ t[1] = Space /\ \A i \in 1..N : t[1 + i] = s[i]
  <2>1. p \in Seq(Char) /\ Len(p) = 1 /\ p[1] = Space
    BY <1>0
  <2> HIDE DEF p
  <2>2. /\ t \in Seq(Char) /\ Len(t) = Len(p) + Len(s)
        /\ \A i \in 1..Len(p) : t[i] = p[i]
        /\ \A i \in 1..Len(s) : t[Len(p) + i] = s[i]
    BY <2>1, Concat, SMTT(60)
  <2> HIDE DEF t
  <2>3. QED
    BY <2>1, <2>2
<1> HIDE DEF t
<1>2. N \in Nat
  OBVIOUS
<1> HIDE DEF N
<1>3. ASSUME NEW i \in 1..N PROVE FirstOther(t, 1 + i) <=> FirstOther(s, i)
  <2>1. ASSUME FirstOther(t, 1 + i), NEW j \in 1..(i - 1) PROVE s[j] = Space
    <3>1. 1 + j \in 1..((1 + i) - 1) /\ j \in 1..N
      BY <1>2
    <3>2. QED
      BY <1>1, <2>1, <3>1, Zenon DEF FirstOther
  <2>2. ASSUME FirstOther(s, i), NEW j \in 1..((1 + i) - 1) PROVE t[j] = Space
    <3>1. CASE j = 1
      BY <1>1, <3>1
    <3>2. CASE j # 1
      <4>1. j - 1 \in 1..(i - 1) /\ j - 1 \in 1..N /\ 1 + (j - 1) = j
        BY <1>2, <3>2
      <4>2. QED
        BY <1>1, <2>2, <4>1, Zenon DEF FirstOther
    <3>3. QED
      BY <3>1, <3>2
  <2>3. t[1 + i] = s[i]
    BY <1>1
  <2>4. QED
    BY <2>1, <2>2, <2>3, Zenon DEF FirstOther
<1>4. ASSUME NEW i \in 1..Len(t), FirstOther(t, i) PROVE i - 1 \in 1..N /\ 1 + (i - 1) = i
  <2>1. i # 1
    BY <1>1, <1>4, Zenon DEF FirstOther
  <2>2. QED
    BY <1>1, <1>2, <2>1
<1>5. CASE \E i \in 1..N : FirstOther(s, i)
  <2> DEFINE a == CHOOSE i \in 1..N : FirstOther(s, i)
             b == CHOOSE i \in 1..Len(t) : FirstOther(t, i)
  <2>1. a \in 1..N /\ FirstOther(s, a)
    BY <1>5, Zenon
  <2> HIDE DEF a
  <2>2. 1 + a \in 1..Len(t) /\ FirstOther(t, 1 + a)
    <3>1. 1 + a \in 1..Len(t)
      BY <1>1, <1>2, <2>1
    <3>2. QED
      BY <1>3, <2>1, <3>1, Zenon
  <2>3. b \in 1..Len(t) /\ FirstOther(t, b)
    BY <2>2, Zenon
  <2> HIDE DEF b
  <2>4. b = 1 + a
    <3>1. Len(t) \in Nat
      BY <1>1
    <3>2. QED
      BY <2>2, <2>3, <3>1, OneFirst, Zenon
  <2>5. SubSeq(t, 1 + a, Len(t)) = SubSeq(s, a, N)
    <3> DEFINE l == SubSeq(t, 1 + a, Len(t))
               r == SubSeq(s, a, N)
               n == N + 1 - a
    <3>1. /\ a \in Nat /\ 1 + a \in Nat /\ 1 <= a /\ a <= N + 1 /\ N <= Len(s)
          /\ 1 <= 1 + a /\ 1 + a <= Len(t) + 1 /\ Len(t) \in Nat
          /\ Len(t) + 1 - (1 + a) = n /\ n \in Nat
      BY <1>1, <1>2, <2>1, SMTT(60) DEF N
    <3>2. l \in Seq(Char) /\ Len(l) = n /\ \A i \in 1..n : l[i] = t[(1 + a) + i - 1]
      BY <1>1, <3>1, SubElem
    <3>3. r \in Seq(Char) /\ Len(r) = n /\ \A i \in 1..n : r[i] = s[a + i - 1]
      BY <1>2, <3>1, SubElem
    <3> HIDE DEF l, r
    <3>4. \A i \in 1..n : l[i] = r[i]
      <4> SUFFICES ASSUME NEW i \in 1..n PROVE l[i] = r[i]
        OBVIOUS
      <4>1. a + i - 1 \in 1..N /\ (1 + a) + i - 1 = 1 + (a + i - 1)
        BY <1>2, <3>1
      <4>2. QED
        BY <1>1, <3>2, <3>3, <4>1, Zenon
    <3>5. l = [i \in 1..Len(l) |-> l[i]] /\ r = [i \in 1..Len(r) |-> r[i]]
      BY <3>2, <3>3
    <3>6. l = r
      BY <3>2, <3>3, <3>4, <3>5, Zenon
    <3>7. QED
      BY <3>6, Zenon DEF l, r
  <2>6. SkipSpaces(s) = SubSeq(s, a, N)
    BY <1>5, Zenon DEF SkipSpaces, N, a
  <2>7. SkipSpaces(t) = SubSeq(t, b, Len(t))
    BY <2>2, Zenon DEF SkipSpaces, b
  <2>8. QED
    BY <2>4, <2>5, <2>6, <2>7, Zenon DEF t, p
<1>6. CASE ~ \E i \in 1..N : FirstOther(s, i)
  <2>1. ASSUME NEW i \in 1..Len(t), FirstOther(t, i) PROVE FALSE
    <3>1. i - 1 \in 1..N /\ FirstOther(t, 1 + (i - 1))
      BY <1>4, <2>1, Zenon
    <3>2. QED
      BY <1>3, <1>6, <3>1, Zenon
  <2>2. SkipSpaces(s) = <<>> /\ SkipSpaces(t) = <<>>
    BY <1>6, <2>1, Zenon DEF SkipSpaces, N
  <2>3. QED
    BY <2>2, Zenon DEF t, p
<1>7. QED
  BY <1>5, <1>6, Zenon

\* Lines are characters without a newline.
LEMMA LineChars ==
    /\ \A p \in Nodes, text \in Texts :
            LET hex == bytes_to_hex(key[p])
            IN  /\ text \in Seq(Char) /\ hex \in Seq(Char) /\ Len(hex) = 2 * BC_PUBKEY_SIZE
                /\ MsgPrefix \in Seq(Char) /\ Len(MsgPrefix) = 5 /\ <<Space>> \in Seq(Char)
    /\ MsgLines \cup OtherLines \subseteq Seq(Char)
<1>1. MsgPrefix \in Seq(Char) /\ Len(MsgPrefix) = 5 /\ <<Space>> \in Seq(Char)
  <2>1. Slash \in Char /\ 109 \in Char /\ 115 \in Char /\ 103 \in Char /\ Space \in Char
    BY DEF Char, Byte, Slash, Space, Newline
  <2>2. QED
    BY <2>1 DEF MsgPrefix
<1>2. \A t \in Texts \cup OtherLines : t \in Seq(Char)
  BY InputAssumption DEF Char
<1>3. ASSUME NEW p \in Nodes
      PROVE  bytes_to_hex(key[p]) \in Seq(Char) /\ Len(bytes_to_hex(key[p])) = 2 * BC_PUBKEY_SIZE
  <2> DEFINE h == bytes_to_hex(key[p])
             n == 2 * BC_PUBKEY_SIZE
  <2>1. key[p] \in [1..BC_PUBKEY_SIZE -> Byte] /\ BC_PUBKEY_SIZE \in Nat
    BY KeyAssumption, Sizes DEF Pubkey
  <2>2. Len(h) = n /\ IsHex(h, BC_PUBKEY_SIZE)
    BY <2>1, HexRoundTrip
  <2>3. \A i \in 1..n : IsHexChar(h[i])
    BY <2>2 DEF IsHex
  <2>4. \A c : IsHexChar(c) => c \in Char
    BY DEF IsHexChar, Char, Byte, Newline
  <2>5. h = [i \in 1..n |-> h[i]] /\ n \in Nat
    <3>1. Len(key[p]) = BC_PUBKEY_SIZE
      BY <2>1
    <3> DEFINE k == key[p]
               g(i) == IF i % 2 = 1 THEN hex_chars(k[(i + 1) \div 2] \div 16)
                                    ELSE hex_chars(k[i \div 2] % 16)
    <3>2. h = [i \in 1..n |-> g(i)]
      BY <3>1 DEF bytes_to_hex
    <3>3. n \in Nat
      BY <2>1
    <3> HIDE DEF g, h, n
    <3>4. QED
      BY <3>2, <3>3
  <2> HIDE DEF h, n
  <2>6. h \in Seq(Char)
    BY <2>3, <2>4, <2>5
  <2>7. QED
    BY <2>2, <2>6 DEF h, n
<1>4. ASSUME NEW p \in Nodes, NEW text \in Texts PROVE LineFor(p, text) \in Seq(Char)
  <2> DEFINE h == bytes_to_hex(key[p])
  <2>1. h \in Seq(Char) /\ text \in Seq(Char)
    BY <1>2, <1>3
  <2> HIDE DEF h
  <2>2. MsgPrefix \o h \in Seq(Char)
    BY <1>1, <2>1, Concat
  <2>3. MsgPrefix \o h \o <<Space>> \in Seq(Char)
    BY <1>1, <2>2, Concat
  <2>4. MsgPrefix \o h \o <<Space>> \o text \in Seq(Char)
    BY <2>1, <2>3, Concat, SMTT(60)
  <2>5. QED
    BY <2>4 DEF LineFor, h
<1>5. QED
  BY <1>1, <1>2, <1>3, <1>4 DEF MsgLines

\* A line as it waits on standard input.
Entered(line) == line \o <<Newline>>

\* It is the line and a newline.
LEMMA EnteredProps ==
    ASSUME NEW line \in Seq(Char)
    PROVE  /\ Entered(line) \in Seq(Byte) /\ Len(Entered(line)) = Len(line) + 1
           /\ Entered(line)[Len(line) + 1] = Newline
           /\ \A a, b \in Nat : 1 <= a /\ a <= b + 1 /\ b <= Len(line)
                                    => SubSeq(Entered(line), a, b) = SubSeq(line, a, b)
<1> DEFINE L == Entered(line)
           nl == <<Newline>>
           N == Len(line)
<1>1. line \in Seq(Byte) /\ nl \in Seq(Byte) /\ Len(nl) = 1 /\ nl[1] = Newline /\ N \in Nat
  <2>1. Char \subseteq Byte /\ Newline \in Byte
    BY DEF Char, Newline, Byte
  <2>2. line \in Seq(Byte)
    BY <2>1
  <2>3. QED
    BY <2>1, <2>2
<1>2. L = line \o nl
  BY DEF Entered
<1> HIDE DEF L, nl
<1>3. L \in Seq(Byte) /\ Len(L) = N + Len(nl)
  BY <1>1, <1>2, Concat, ZenonT(60)
<1>4. (\A i \in 1..N : L[i] = line[i]) /\ (\A i \in 1..Len(nl) : L[N + i] = nl[i])
  <2>1. line \in Seq(Byte) /\ nl \in Seq(Byte)
    BY <1>1
  <2>2. QED
    BY <1>2, <2>1, Concat
<1> HIDE DEF N
<1>5. Len(L) = N + 1 /\ L[N + 1] = Newline
  BY <1>1, <1>3, <1>4
<1>6. ASSUME NEW a \in Nat, NEW b \in Nat, 1 <= a, a <= b + 1, b <= N
      PROVE  SubSeq(L, a, b) = SubSeq(line, a, b)
  <2> DEFINE l == SubSeq(L, a, b)
             r == SubSeq(line, a, b)
             n == b + 1 - a
  <2>0. n \in Nat
    BY <1>6
  <2>1. l \in Seq(Byte) /\ Len(l) = n /\ \A i \in 1..n : l[i] = L[a + i - 1]
    BY <1>1, <1>3, <1>5, <1>6
  <2>2. r \in Seq(Byte) /\ Len(r) = n /\ \A i \in 1..n : r[i] = line[a + i - 1]
    BY <1>1, <1>6 DEF N
  <2> HIDE DEF l, r
  <2>3. \A i \in 1..n : a + i - 1 \in 1..N
    BY <1>1, <1>6
  <2>4. \A i \in 1..n : l[i] = r[i]
    BY <1>4, <2>1, <2>2, <2>3, ZenonT(60)
  <2> HIDE DEF n
  <2>5. l = [i \in 1..Len(l) |-> l[i]] /\ r = [i \in 1..Len(r) |-> r[i]]
    BY <2>1, <2>2
  <2>6. l = r
    BY <2>1, <2>2, <2>4, <2>5
  <2>7. QED
    BY <2>6 DEF l, r
<1>7. QED
  BY <1>3, <1>5, <1>6 DEF L, N

\* in is the end of a line from k on: the whole line, or what is left behind
\* the buffer's size.
Left(line, k, in) == /\ k \in 1..(Len(line) + 1)
                     /\ k = 1 \/ k >= LineSize
                     /\ in = SubSeq(Entered(line), k, Len(line) + 1)

\* s is a part of a line, from k on, that fits the buffer; the whole line if it
\* fits.
Part(line, k, s) ==
    /\ \E e \in Nat : k <= e + 1 /\ e <= Len(line) /\ s = SubSeq(line, k, e) /\ e + 1 - k < LineSize
    /\ Len(line) < LineSize => IF k = 1 THEN s = line ELSE s = <<>>

\* What fgets takes from a line and what it leaves.
LEMMA ReadPart ==
    ASSUME NEW line \in Seq(Char), NEW k, NEW in, Left(line, k, in)
    PROVE  /\ Rest(in) = <<>> \/ \E j : Left(line, j, Rest(in))
           /\ Part(line, k, Stripped(Chunk(in)))
<1> DEFINE s == Stripped(Chunk(in))
<1> DEFINE L == Entered(line)
           N == Len(line)
           I == Len(in)
           q == IF I < LineSize THEN I ELSE LineSize - 1
           c == Chunk(in)
<1>0. /\ N \in Nat /\ k \in Nat /\ 1 <= k /\ k <= N + 1 /\ LineSize \in Nat /\ 1 < LineSize
      /\ k = 1 \/ k >= LineSize
  BY BoundAssumption DEF Left
<1>1. /\ L \in Seq(Byte) /\ Len(L) = N + 1 /\ L[N + 1] = Newline
      /\ \A a, b \in Nat : 1 <= a /\ a <= b + 1 /\ b <= N => SubSeq(L, a, b) = SubSeq(line, a, b)
  BY EnteredProps, SMTT(60)
<1> HIDE DEF L
<1>a. in = SubSeq(L, k, N + 1)
  BY DEF L, Left
<1>c. s = Stripped(Chunk(in))
  OBVIOUS
<1> HIDE DEF s
<1>b. \A i \in 1..N : line[i] # Newline
  BY DEF Char
<1> HIDE DEF N
<1>2. in \in Seq(Byte) /\ I = N + 2 - k
  BY <1>0, <1>1, <1>a
<1>3. q \in Nat /\ 1 <= q /\ q <= I /\ q < LineSize /\ (q = I \/ q = LineSize - 1) /\ k + q - 1 \in Nat
  BY <1>0, <1>2
<1>4. c = SubSeq(in, 1, q)
  BY DEF Chunk
<1> HIDE DEF c, q, I
<1>5. c = SubSeq(L, k, k + q - 1)
  <2>1. SubSeq(SubSeq(L, k, N + 1), 1, q) = SubSeq(L, k + 1 - 1, k + q - 1)
    BY <1>0, <1>1, <1>2, <1>3, SubSub
  <2>2. k + 1 - 1 = k
    BY <1>0
  <2>3. QED
    BY <1>4, <1>a, <2>1, <2>2, ZenonT(60)
<1>6. c \in Seq(Byte) /\ Len(c) = q /\ c[q] = L[k + q - 1] /\ c # <<>>
  <2> DEFINE e == k + q - 1
  <2>1. e \in Nat /\ e <= Len(L) /\ k <= e + 1 /\ e + 1 - k = q /\ q \in 1..q
    BY <1>0, <1>1, <1>2, <1>3, SMTT(60)
  <2> HIDE DEF e
  <2>2. /\ SubSeq(L, k, e) \in Seq(Byte) /\ Len(SubSeq(L, k, e)) = e + 1 - k
        /\ \A i \in 1..(e + 1 - k) : SubSeq(L, k, e)[i] = L[k + i - 1]
    BY <1>0, <1>1, <2>1, SubElem, SMTT(60)
  <2>3. c = SubSeq(L, k, e)
    BY <1>5 DEF e
  <2>4. c \in Seq(Byte) /\ Len(c) = q /\ c[q] = L[k + q - 1]
    BY <2>1, <2>2, <2>3, ZenonT(60)
  <2>5. QED
    BY <1>3, <2>4
<1>7. \/ Rest(in) = <<>>
      \/ \E j \in 1..(N + 1) : j >= LineSize /\ Rest(in) = SubSeq(L, j, N + 1)
  <2>1. Rest(in) = SubSeq(in, q + 1, I)
    BY <1>6 DEF Rest, c, I
  <2>2. CASE q = I
    BY <1>2, <1>3, <2>1, <2>2, SMTT(60) DEF I
  <2>3. CASE q # I
    <3>1. q = LineSize - 1 /\ q < I /\ k + q \in 1..(N + 1) /\ k + q >= LineSize
      BY <1>0, <1>2, <1>3, <2>3, SMTT(60)
    <3>2. SubSeq(SubSeq(L, k, N + 1), q + 1, I) = SubSeq(L, k + (q + 1) - 1, k + I - 1)
      BY <1>0, <1>1, <1>2, <1>3, <3>1, SubSub
    <3>3. k + (q + 1) - 1 = k + q /\ k + I - 1 = N + 1
      BY <1>0, <1>2, <1>3
    <3>4. QED
      BY <1>a, <2>1, <3>1, <3>2, <3>3, ZenonT(60)
  <2>4. QED
    BY <2>2, <2>3
<1>d. Rest(in) = <<>> \/ \E j : Left(line, j, Rest(in))
  BY <1>0, <1>7, ZenonT(60) DEF L, N, Left
<1>8. CASE k + q - 1 = N + 1
  <2>1. s = SubSeq(c, 1, q - 1)
    BY <1>1, <1>6, <1>8, <1>c, ZenonT(60) DEF Stripped, c
  <2>2. SubSeq(SubSeq(L, k, k + q - 1), 1, q - 1) = SubSeq(L, k + 1 - 1, k + (q - 1) - 1)
    BY <1>0, <1>1, <1>3, <1>8, SubSub, SMTT(60)
  <2>3. k + 1 - 1 = k /\ k + (q - 1) - 1 = N
    BY <1>0, <1>3, <1>8
  <2>z. k \in Nat /\ N \in Nat /\ 1 <= k /\ k <= N + 1 /\ N <= N
    BY <1>0
  <2>a. SubSeq(L, k, N) = SubSeq(line, k, N)
    BY <1>1, <2>z, Zenon
  <2>4. s = SubSeq(line, k, N)
    BY <1>5, <2>1, <2>2, <2>3, <2>a, Zenon
  <2>5. N + 1 - k < LineSize
    BY <1>0, <1>3, <1>8, SMTT(60)
  <2>6. N < LineSize => IF k = 1 THEN s = line ELSE s = <<>>
    <3>1. CASE k = 1
      BY <2>4, <3>1, SMTT(60) DEF N
    <3>2. CASE k # 1 /\ N < LineSize
      <4>1. k = N + 1
        BY <1>0, <3>2
      <4>2. QED
        BY <1>0, <2>4, <3>2, <4>1, SMTT(60)
    <3>3. QED
      BY <3>1, <3>2
  <2>7. \E e \in Nat : k <= e + 1 /\ e <= N /\ s = SubSeq(line, k, e) /\ e + 1 - k < LineSize
    BY <2>z, <2>4, <2>5, Zenon
  <2>8. Part(line, k, s)
    BY <2>6, <2>7, ZenonT(60) DEF N, Part
  <2>9. QED
    BY <1>d, <2>8 DEF s
<1>9. CASE k + q - 1 # N + 1
  <2>1. k + q - 1 <= N /\ k + q - 1 >= 1 /\ k <= (k + q - 1) + 1 /\ q # I
    BY <1>0, <1>2, <1>3, <1>9
  <2>2. c = SubSeq(line, k, k + q - 1)
    BY <1>0, <1>1, <1>3, <1>5, <2>1, ZenonT(60)
  <2>3. c[q] = line[k + q - 1]
    <3> DEFINE e == k + q - 1
    <3>1. e \in Nat /\ e <= Len(line) /\ k <= e + 1 /\ e + 1 - k = q /\ q \in 1..q
      BY <1>0, <1>3, <2>1 DEF N
    <3>2. c = SubSeq(line, k, e)
      BY <2>2
    <3> HIDE DEF e
    <3>3. \A i \in 1..(e + 1 - k) : SubSeq(line, k, e)[i] = line[k + i - 1]
      BY <1>0, <3>1, SubElem, SMTT(60)
    <3>4. QED
      BY <3>1, <3>2, <3>3, ZenonT(60)
  <2>4. s = c
    BY <1>3, <1>6, <1>b, <1>c, <2>1, <2>3, SMTT(60) DEF Stripped, c
  <2>5. (k + q - 1) + 1 - k < LineSize
    BY <1>0, <1>3
  <2>6. N < LineSize => IF k = 1 THEN s = line ELSE s = <<>>
    <3>1. CASE k = 1 /\ N < LineSize
      <4>1. k + q - 1 = N
        BY <1>0, <1>2, <1>3, <2>1, <3>1, SMTT(60)
      <4>2. QED
        BY <2>2, <2>4, <3>1, <4>1, SMTT(60) DEF N
    <3>2. CASE k # 1 /\ N < LineSize
      BY <1>0, <1>3, <2>1, <3>2, SMTT(60)
    <3>3. QED
      BY <3>1, <3>2
  <2>7. \E e \in Nat : k <= e + 1 /\ e <= N /\ s = SubSeq(line, k, e) /\ e + 1 - k < LineSize
    BY <1>3, <2>1, <2>2, <2>4, <2>5, ZenonT(60)
  <2>8. Part(line, k, s)
    BY <2>6, <2>7, ZenonT(60) DEF N, Part
  <2>9. QED
    BY <1>d, <2>8 DEF s
<1>10. QED
  BY <1>8, <1>9

\* cmd_msg's argument: a key of bytes, and a text that is the end of the line.
LEMMA ArgsParts ==
    ASSUME NEW s \in Seq(Char), IsMsg(s), ArgsOK(Args(s))
    PROVE  /\ hex_to_bytes(HexArg(Args(s)), BC_PUBKEY_SIZE) \in Pubkey
           /\ \E b \in 1..Len(s) : TextArg(Args(s)) = SubSeq(s, b, Len(s))
<1> DEFINE a == Args(s)
           N == Len(s)
           P == 2 * BC_PUBKEY_SIZE
           R == SubSeq(a, P + 1, Len(a))
           c == CHOOSE i \in 1..Len(R) : FirstOther(R, i)
<1>0. N \in Nat /\ N >= 5 /\ P \in Nat
  BY Sizes DEF IsMsg
<1>1. hex_to_bytes(HexArg(a), BC_PUBKEY_SIZE) \in Pubkey
  BY HexBytes, Sizes DEF ArgsOK, Pubkey
<1>a. a = SubSeq(s, 6, N) /\ Len(a) >= P + 2 /\ SkipSpaces(R) # <<>>
  BY DEF Args, ArgsOK, TextArg
<1>b. TextArg(a) = SkipSpaces(R)
  BY Zenon DEF TextArg
<1> HIDE DEF a, N, P
<1>2. a \in Seq(Char) /\ Len(a) = N - 5
  <2>1. 6 <= N + 1 /\ N <= Len(s) /\ N + 1 - 6 = N - 5
    BY <1>0 DEF N
  <2>2. SubSeq(s, 6, N) \in Seq(Char) /\ Len(SubSeq(s, 6, N)) = N + 1 - 6
    BY <1>0, <2>1, SubElem
  <2>3. QED
    BY <1>a, <2>1, <2>2
<1>3. R = SubSeq(s, 6 + P, N) /\ R \in Seq(Char) /\ Len(R) = N - 5 - P
  <2>1. /\ N <= Len(s) /\ 6 <= N + 1 /\ P + 1 \in Nat /\ N - 5 \in Nat
        /\ 1 <= P + 1 /\ P + 1 <= (N - 5) + 1 /\ N - 5 <= N + 1 - 6
    BY <1>0, <1>2, <1>a DEF N
  <2>2. SubSeq(SubSeq(s, 6, N), P + 1, N - 5) = SubSeq(s, 6 + (P + 1) - 1, 6 + (N - 5) - 1)
    BY <1>0, <2>1, SubSub
  <2>3. 6 + (P + 1) - 1 = 6 + P /\ 6 + (N - 5) - 1 = N
    BY <1>0
  <2>4. R = SubSeq(s, 6 + P, N)
    BY <1>2, <1>a, <2>2, <2>3, ZenonT(60)
  <2>5. 6 + P \in Nat /\ 6 + P <= N + 1 /\ 1 <= 6 + P /\ N + 1 - (6 + P) = N - 5 - P
    BY <1>0, <1>2, <1>a, SMTT(60)
  <2>6. SubSeq(s, 6 + P, N) \in Seq(Char) /\ Len(SubSeq(s, 6 + P, N)) = N + 1 - (6 + P)
    BY <1>0, <2>1, <2>5, SubElem
  <2>7. QED
    BY <2>4, <2>5, <2>6, ZenonT(60)
<1> HIDE DEF R
<1>4. c \in 1..Len(R) /\ SkipSpaces(R) = SubSeq(R, c, Len(R))
  <2>1. \E i \in 1..Len(R) : FirstOther(R, i)
    BY <1>a, Zenon DEF SkipSpaces
  <2>2. QED
    BY <2>1, Zenon DEF SkipSpaces
<1> HIDE DEF c
<1>5. /\ 6 + P \in Nat /\ 1 <= 6 + P /\ 6 + P <= N + 1 /\ N <= Len(s)
      /\ c \in Nat /\ Len(R) \in Nat /\ 1 <= c /\ c <= Len(R) + 1
      /\ Len(R) <= N + 1 - (6 + P)
  BY <1>0, <1>2, <1>3, <1>4, <1>a, SMTT(60) DEF N
<1>6. SubSeq(R, c, Len(R)) = SubSeq(s, 6 + P + c - 1, N)
  <2> DEFINE f == 6 + P
             r == Len(R)
  <2>1. /\ f \in Nat /\ 1 <= f /\ f <= N + 1 /\ N <= Len(s) /\ N \in Nat
        /\ c \in Nat /\ r \in Nat /\ 1 <= c /\ c <= r + 1 /\ r <= N + 1 - f
    BY <1>0, <1>5
  <2>2. f + r - 1 = N
    BY <1>0, <1>3
  <2> HIDE DEF f, r
  <2>3. SubSeq(SubSeq(s, f, N), c, r) = SubSeq(s, f + c - 1, f + r - 1)
    BY <2>1, SubSub
  <2>4. QED
    BY <1>3, <2>2, <2>3, Zenon DEF f, r
<1>7. 6 + P + c - 1 \in 1..N
  BY <1>0, <1>3, <1>4
<1>8. QED
  BY <1>1, <1>4, <1>6, <1>7, <1>b, ZenonT(60) DEF a, N

\* The end of a concatenation.
LEMMA TailPart == ASSUME NEW S, NEW x \in Seq(S), NEW y \in Seq(S)
                  PROVE  SubSeq(x \o y, Len(x) + 1, Len(x) + Len(y)) = y
  OBVIOUS

\* And a part in the middle.
LEMMA MiddlePart == ASSUME NEW S, NEW x \in Seq(S), NEW y \in Seq(S), NEW z \in Seq(S)
                    PROVE  /\ SubSeq((x \o y) \o z, Len(x) + 1, Len(x) + Len(y)) = y
                           /\ (x \o y) \o z = x \o (y \o z)
  BY SMTT(60)

\* A line "/msg <key> <text>" has that key and that text, leading spaces apart.
LEMMA LineParts ==
    ASSUME NEW p \in Nodes, NEW text \in Texts, NEW line, line = LineFor(p, text)
    PROVE  /\ hex_to_bytes(HexArg(Args(line)), BC_PUBKEY_SIZE) = key[p]
           /\ TextArg(Args(line)) = SkipSpaces(text)
<1> DEFINE h == bytes_to_hex(key[p])
           P == 2 * BC_PUBKEY_SIZE
           m == MsgPrefix
           sp == <<Space>>
           t == sp \o text
           a == h \o t
<1>0. /\ h \in Seq(Char) /\ Len(h) = P /\ m \in Seq(Char) /\ Len(m) = 5
      /\ sp \in Seq(Char) /\ text \in Seq(Char) /\ P \in Nat
  BY LineChars, Sizes, SMTT(60)
<1>1. hex_to_bytes(h, BC_PUBKEY_SIZE) = key[p]
  BY HexRoundTrip, KeyAssumption, Sizes DEF Pubkey
<1>2. line = ((m \o h) \o sp) \o text
  BY DEF LineFor
<1>a. SkipSpaces(t) = SkipSpaces(text)
  BY <1>0, SkipOneMore
<1>b. m = MsgPrefix
  BY SMTT(60)
<1> HIDE DEF h, P, m, sp
<1>3. t \in Seq(Char) /\ m \o h \in Seq(Char)
  BY <1>0, Concat
<1>4. line = (m \o h) \o t
  <2> DEFINE x == m \o h
  <2>1. x \in Seq(Char) /\ sp \in Seq(Char) /\ text \in Seq(Char) /\ line = (x \o sp) \o text
    BY <1>0, <1>2, <1>3, SMTT(60)
  <2> HIDE DEF x
  <2>2. (x \o sp) \o text = x \o (sp \o text)
    BY <2>1, MiddlePart, SMTT(60)
  <2>3. line = x \o t
    BY <2>1, <2>2 DEF t
  <2>4. QED
    BY <2>3 DEF x
<1> HIDE DEF t
<1>d. h \in Seq(Char) /\ t \in Seq(Char) /\ m \in Seq(Char)
  BY <1>0, <1>3
<1>5. a \in Seq(Char) /\ Len(a) = Len(h) + Len(t) /\ line = m \o a
  <2>1. a \in Seq(Char) /\ Len(a) = Len(h) + Len(t)
    BY <1>d, Concat
  <2>2. (m \o h) \o t = m \o (h \o t)
    BY <1>d, MiddlePart, SMTT(60)
  <2>3. QED
    BY <1>4, <2>1, <2>2
<1>c. a = h \o t
  OBVIOUS
<1> HIDE DEF a
<1>6. Args(line) = a
  <2>1. Len(line) = Len(m) + Len(a) /\ SubSeq(line, Len(m) + 1, Len(m) + Len(a)) = a
    <3>1. m \in Seq(Char) /\ a \in Seq(Char)
      BY <1>d, <1>5, ZenonT(60)
    <3>2. Len(m \o a) = Len(m) + Len(a) /\ SubSeq(m \o a, Len(m) + 1, Len(m) + Len(a)) = a
      BY <3>1, Concat, TailPart
    <3>3. QED
      BY <1>5, <3>2
  <2>2. Len(m) + 1 = 6
    BY <1>0
  <2>3. QED
    BY <2>1, <2>2, Zenon DEF Args
<1>7. HexArg(a) = h
  <2>1. HexArg(a) = SubSeq(a, 1, Len(h))
    BY <1>0 DEF HexArg, P
  <2>2. SubSeq(h \o t, 1, Len(h)) = h
    BY <1>0, <1>3
  <2>3. QED
    BY <1>c, <2>1, <2>2
<1>8. SubSeq(a, P + 1, Len(a)) = t
  BY <1>0, <1>3, <1>5, <1>c, TailPart, ZenonT(60)
<1>9. TextArg(a) = SkipSpaces(t)
  BY <1>8, ZenonT(60) DEF TextArg, P
<1>10. QED
  BY <1>1, <1>6, <1>7, <1>9, <1>a

-----------------------------------------------------------------------------
(* The user's lines.                                                       *)

\* in is what fgets has left of a line of n in T.
Waiting(n, in, T) == \E t \in T : t.from = n /\ \E k : Left(t.line, k, in)

\* A message from n for the key to is what the line t says.
Written(n, to, text, t) ==
    /\ t.from = n
    /\ \E i, j \in 1..Len(t.line) : text = SubSeq(t.line, i, j)
    /\ \A p \in Nodes, x \in Texts : t.line = LineFor(p, x) /\ Len(t.line) < LineSize
            => to = key[p] /\ text = SkipSpaces(x)

TypedInv   == \A t \in typed : t.from \in Nodes /\ t.line \in MsgLines \cup OtherLines
StdinInv   == /\ DOMAIN stdin = Nodes
              /\ \A n \in Nodes : stdin[n] = <<>> \/ Waiting(n, stdin[n], typed)
WrittenInv == \A m \in made : \/ m.from \in Bridges
                              \/ \E t \in typed : Written(m.from, m.to, m.text, t)

\* What has a length is not empty.
LEMMA NotEmpty == ASSUME NEW s, Len(s) # 0 PROVE s # <<>>
  OBVIOUS

\* The part of a line between two positions, which fits the buffer.
PartUpTo(line, k, e, s) == /\ k \in Nat /\ 1 <= k /\ e \in Nat /\ k <= e + 1 /\ e <= Len(line)
                           /\ e + 1 - k < LineSize
                           /\ s = SubSeq(line, k, e)

Within(line, text) == /\ text \in Seq(Char) /\ Len(text) < LineSize
                      /\ \E i, j \in 1..Len(line) : text = SubSeq(line, i, j)

\* The end of such a part is itself a part of the line.
LEMMA EndOfPart ==
    ASSUME NEW line \in Seq(Char), NEW k, NEW e, NEW s, PartUpTo(line, k, e, s), NEW b \in 1..Len(s)
    PROVE  s # <<>> /\ Within(line, SubSeq(s, b, Len(s)))
<1> DEFINE text == SubSeq(s, b, Len(s))
           l == Len(s)
           i == k + b - 1
           j == k + l - 1
<1>0. /\ k \in Nat /\ 1 <= k /\ e \in Nat /\ k <= e + 1 /\ e <= Len(line)
      /\ e + 1 - k < LineSize /\ s = SubSeq(line, k, e)
  BY Zenon DEF PartUpTo
<1>1. s \in Seq(Char) /\ l = e + 1 - k
  BY <1>0, SubElem, ZenonT(60)
<1>2. /\ b \in Nat /\ 1 <= b /\ b <= l /\ l \in Nat /\ b <= l + 1 /\ l <= e + 1 - k
      /\ i \in 1..Len(line) /\ j \in 1..Len(line) /\ l <= Len(s) /\ LineSize \in Nat
      /\ l + 1 - b < LineSize
  BY <1>0, <1>1, BoundAssumption, SMTT(60)
<1> HIDE DEF l
<1>a. l # 0
  BY <1>2
<1>3. s # <<>>
  BY <1>a, NotEmpty, Zenon DEF l
<1>4. text = SubSeq(s, b, l)
  BY Zenon DEF l
<1> HIDE DEF text
<1>5. text \in Seq(Char) /\ Len(text) = l + 1 - b
  BY <1>1, <1>2, <1>4, SubElem, ZenonT(60)
<1>6. SubSeq(SubSeq(line, k, e), b, l) = SubSeq(line, k + b - 1, k + l - 1)
  BY <1>0, <1>2, SubSub
<1>7. text = SubSeq(line, i, j)
  BY <1>0, <1>4, <1>6, Zenon
<1> HIDE DEF i, j
<1>8. Len(text) < LineSize
  BY <1>2, <1>5, Zenon
<1>9. QED
  BY <1>2, <1>3, <1>5, <1>7, <1>8, Zenon DEF Within, text

\* What cmd_msg takes from a line that waits at standard input.
LEMMA TextOfLine ==
    ASSUME NEW line \in Seq(Char), NEW k, NEW in, Left(line, k, in),
           NEW s, s = Stripped(Chunk(in)), IsMsg(s), ArgsOK(Args(s)),
           NEW text, text = TextArg(Args(s))
    PROVE  s \in Seq(Char) /\ Within(line, text) /\ (Len(line) < LineSize => s = line)
<1>1. Part(line, k, s)
  BY ReadPart, Zenon
<1>2. k \in Nat /\ 1 <= k
  BY DEF Left
<1>3. ASSUME NEW e, PartUpTo(line, k, e, s) PROVE s \in Seq(Char) /\ s # <<>> /\ Within(line, text)
  <2>1. s \in Seq(Char)
    BY <1>3, SubElem DEF PartUpTo
  <2>2. \E b \in 1..Len(s) : text = SubSeq(s, b, Len(s))
    BY <2>1, ArgsParts, Zenon
  <2>3. QED
    BY <1>3, <2>1, <2>2, EndOfPart, ZenonT(60)
<1>4. \E e : PartUpTo(line, k, e, s)
  BY <1>1, <1>2, Zenon DEF Part, PartUpTo
<1>5. s \in Seq(Char) /\ s # <<>> /\ Within(line, text)
  BY <1>3, <1>4, Zenon
<1>6. Len(line) < LineSize => s = line
  BY <1>1, <1>5, Zenon DEF Part
<1>7. QED
  BY <1>5, <1>6, Zenon

\* A buffer is shorter than the limit.
LEMMA BufferLimit == ASSUME NEW text \in Seq(Char), Len(text) < LineSize
                     PROVE  text \in Seq(Byte) /\ Len(text) < Limit
<1>1. LineSize \in Nat /\ LineSize < Limit /\ Limit \in Nat
  BY BoundAssumption DEF Limit
<1>2. Char \subseteq Byte
  BY DEF Char
<1>3. Len(text) \in Nat
  OBVIOUS
<1>4. Len(text) < Limit
  BY <1>1, <1>3
<1>5. QED
  BY <1>2, <1>4, SMTT(60)

\* The message cmd_msg makes of a line is what the line says.
LEMMA TextWritten ==
    ASSUME NEW n, NEW t, t.from = n, t.line \in Seq(Char), NEW k, NEW in, Left(t.line, k, in),
           NEW s, s = Stripped(Chunk(in)), IsMsg(s), ArgsOK(Args(s)),
           NEW to, to = hex_to_bytes(HexArg(Args(s)), BC_PUBKEY_SIZE),
           NEW text, text = TextArg(Args(s))
    PROVE  /\ to \in Pubkey
           /\ text \in Seq(Byte) /\ Len(text) < Limit
           /\ Written(n, to, text, t)
<1>1. s \in Seq(Char) /\ Within(t.line, text) /\ (Len(t.line) < LineSize => s = t.line)
  <2> DEFINE line == t.line
  <2>1. line \in Seq(Char) /\ Left(line, k, in)
    BY ZenonT(60)
  <2> HIDE DEF line
  <2>2. s \in Seq(Char) /\ Within(line, text) /\ (Len(line) < LineSize => s = line)
    BY <2>1, TextOfLine
  <2>3. QED
    BY <2>2, Zenon DEF line
<1>2. to \in Pubkey
  BY <1>1, ArgsParts, Zenon
<1>3. text \in Seq(Byte) /\ Len(text) < Limit
  BY <1>1, BufferLimit, Zenon DEF Within
<1>4. ASSUME NEW p \in Nodes, NEW x \in Texts, t.line = LineFor(p, x), Len(t.line) < LineSize
      PROVE  to = key[p] /\ text = SkipSpaces(x)
  <2>1. s = LineFor(p, x)
    BY <1>1, <1>4, Zenon
  <2>2. QED
    BY <2>1, LineParts, Zenon
<1>5. Written(n, to, text, t)
  BY <1>1, <1>4, Zenon DEF Within, Written
<1>6. QED
  BY <1>2, <1>3, <1>5, Zenon

\* So every message cmd_msg makes is part of a line typed at its node.
LEMMA CommandText ==
    ASSUME TypedInv, StdinInv, NEW n \in Nodes, stdin[n] # <<>>,
           NEW s, s = Stripped(Chunk(stdin[n])), IsMsg(s), ArgsOK(Args(s)),
           NEW to, to = hex_to_bytes(HexArg(Args(s)), BC_PUBKEY_SIZE),
           NEW text, text = TextArg(Args(s))
    PROVE  /\ to \in Pubkey
           /\ text \in Seq(Byte) /\ Len(text) < Limit
           /\ \E t \in typed : Written(n, to, text, t)
<1>1. \E t \in typed : t.from = n /\ \E k : Left(t.line, k, stdin[n])
  BY Zenon DEF StdinInv, Waiting
<1>2. ASSUME NEW t \in typed, t.from = n, NEW k, Left(t.line, k, stdin[n])
      PROVE  /\ to \in Pubkey
             /\ text \in Seq(Byte) /\ Len(text) < Limit
             /\ Written(n, to, text, t)
  <2>1. t.line \in Seq(Char)
    BY LineChars, Zenon DEF TypedInv
  <2>2. QED
    BY <1>2, <2>1, TextWritten, Zenon
<1>3. QED
  BY <1>1, <1>2, Zenon

Inv == Core /\ TypedInv /\ StdinInv /\ WrittenInv /\ lines \in 0..MaxLines

\* A step that leaves the users' lines and the messages alone.
LEMMA LineFrame == ASSUME Inv, UNCHANGED <<lines, stdin, typed, made>>
                   PROVE  (TypedInv /\ StdinInv /\ WrittenInv /\ lines \in 0..MaxLines)'
<1>1. TypedInv'
  BY ZenonT(60) DEF Inv, TypedInv
<1>2. StdinInv'
  BY DEF Inv, StdinInv
<1>3. WrittenInv'
  BY DEF Inv, WrittenInv
<1>4. QED
  BY <1>1, <1>2, <1>3 DEF Inv

\* A typed line waits whole.
LEMMA TypeStep == ASSUME Inv, NEW n \in Nodes, Type(n) PROVE Inv'
<1>1. PICK line \in MsgLines \cup OtherLines :
            /\ stdin' = [stdin EXCEPT ![n] = line \o <<Newline>>]
            /\ typed' = typed \cup {[from |-> n, line |-> line]}
  BY ZenonT(60) DEF Type
<1>2. UNCHANGED <<now, made, net, rows, shown>> /\ lines < MaxLines /\ lines' = lines + 1
  BY ZenonT(60) DEF Type
<1> DEFINE t == [from |-> n, line |-> line]
<1>3. t.from = n /\ t.line = line /\ typed' = typed \cup {t}
  BY <1>1
<1> HIDE DEF t
<1>4. Core'
  BY <1>2, CoreFrame, Zenon DEF Inv, Core, RowInv
<1>5. TypedInv'
  BY <1>3, ZenonT(60) DEF Inv, TypedInv
<1>6. StdinInv'
  <2>1. DOMAIN stdin = Nodes
    BY DEF Inv, StdinInv
  <2>2. DOMAIN stdin' = Nodes /\ \A k \in Nodes : stdin'[k] = IF k = n THEN Entered(line) ELSE stdin[k]
    BY <1>1, <2>1 DEF Entered
  <2>3. Left(line, 1, Entered(line))
    <3>1. line \in Seq(Char)
      BY LineChars
    <3>2. /\ Entered(line) \in Seq(Byte)
          /\ Len(Entered(line)) = Len(line) + 1
      BY <3>1, EnteredProps
    <3>3. SubSeq(Entered(line), 1, Len(Entered(line))) = Entered(line)
      BY <3>2
    <3>4. Len(line) \in Nat
      BY <3>1
    <3>5. QED
      BY <3>2, <3>3, <3>4, SMTT(60) DEF Left
  <2>4. Waiting(n, Entered(line), typed')
    BY <1>3, <2>3, ZenonT(60) DEF Waiting
  <2>5. \A k \in Nodes : Waiting(k, stdin[k], typed) => Waiting(k, stdin[k], typed')
    BY <1>3, ZenonT(60) DEF Waiting
  <2>6. QED
    BY <2>2, <2>4, <2>5, ZenonT(60) DEF Inv, StdinInv
<1>7. WrittenInv'
  BY <1>2, <1>3 DEF Inv, WrittenInv
<1>8. lines' \in 0..MaxLines
  BY <1>2, BoundAssumption DEF Inv
<1>9. QED
  BY <1>4, <1>5, <1>6, <1>7, <1>8 DEF Inv

\* The message SendText makes.
LEMMA SendMakes ==
    ASSUME NEW n, NEW to, NEW text, SendText(n, to, text)
    PROVE  \E x : /\ made' = made \cup {x}
                  /\ x.from = n /\ x.to = to /\ x.text = text
<1>1. PICK u, pl : made' = made \cup {[uuid |-> u, from |-> n, to |-> to, text |-> text,
                                       payload |-> pl]}
  BY Zenon DEF SendText
<1> DEFINE x == [uuid |-> u, from |-> n, to |-> to, text |-> text, payload |-> pl]
<1>2. x.from = n /\ x.to = to /\ x.text = text /\ made' = made \cup {x}
  BY <1>1, ZenonT(60)
<1> HIDE DEF x
<1>3. QED
  BY <1>2

\* Reading a line and running it.
LEMMA CommandStep == ASSUME Inv, NEW n \in Nodes, Command(n) PROVE Inv'
<1> DEFINE s == Stripped(Chunk(stdin[n]))
           to == hex_to_bytes(HexArg(Args(s)), BC_PUBKEY_SIZE)
           text == TextArg(Args(s))
<1>1. /\ stdin[n] # <<>>
      /\ UNCHANGED <<now, lines, typed, shown>>
      /\ stdin' = [stdin EXCEPT ![n] = Rest(stdin[n])]
  BY DEF Command
<1>2. \/ IsMsg(s) /\ ArgsOK(Args(s)) /\ SendText(n, to, text)
      \/ UNCHANGED <<made, net, rows>>
  BY Zenon DEF Command, cmd_msg
<1>3. StdinInv'
  <2>1. DOMAIN stdin = Nodes /\ Waiting(n, stdin[n], typed)
    BY <1>1 DEF Inv, StdinInv
  <2>2. PICK t \in typed : t.from = n /\ \E k : Left(t.line, k, stdin[n])
    BY <2>1, Zenon DEF Waiting
  <2>3. t.line \in Seq(Char)
    BY LineChars, Zenon DEF Inv, TypedInv
  <2>4. Rest(stdin[n]) = <<>> \/ \E j : Left(t.line, j, Rest(stdin[n]))
    BY <2>2, <2>3, ReadPart, ZenonT(60)
  <2>5. Rest(stdin[n]) = <<>> \/ Waiting(n, Rest(stdin[n]), typed)
    BY <2>2, <2>4, ZenonT(60) DEF Waiting
  <2>6. DOMAIN stdin' = Nodes /\ \A k \in Nodes : stdin'[k] = IF k = n THEN Rest(stdin[n]) ELSE stdin[k]
    BY <1>1, <2>1, ZenonT(60)
  <2>7. typed' = typed
    BY <1>1
  <2>8. QED
    BY <2>5, <2>6, <2>7, ZenonT(60) DEF Inv, StdinInv
<1>4. TypedInv' /\ lines' \in 0..MaxLines
  BY <1>1 DEF Inv, TypedInv
<1>5. CASE UNCHANGED <<made, net, rows>>
  <2>1. Core'
    BY <1>1, <1>5, CoreFrame, ZenonT(60) DEF Inv, Core, RowInv
  <2>2. WrittenInv'
    BY <1>1, <1>5, Zenon DEF Inv, WrittenInv
  <2>3. QED
    BY <1>3, <1>4, <2>1, <2>2, Zenon DEF Inv
<1>6. CASE IsMsg(s) /\ ArgsOK(Args(s)) /\ SendText(n, to, text)
  <2>1. /\ to \in Pubkey
        /\ text \in Seq(Byte) /\ Len(text) < Limit
        /\ \E t \in typed : Written(n, to, text, t)
    BY <1>1, <1>6, CommandText, ZenonT(60) DEF Inv
  <2>2. SendText(n, to, text)
    BY <1>6
  <2> HIDE DEF to, text, s
  <2>3. Core'
    BY <1>1, <2>1, <2>2, SendStep, ZenonT(60) DEF Inv
  <2>4. PICK x : made' = made \cup {x} /\ x.from = n /\ x.to = to /\ x.text = text
    BY <2>2, SendMakes
  <2>5. typed' = typed
    BY <1>1, Zenon
  <2>6. WrittenInv'
    BY <2>1, <2>4, <2>5, Zenon DEF Inv, WrittenInv
  <2>7. QED
    BY <1>3, <1>4, <2>3, <2>6, ZenonT(60) DEF Inv
<1>7. QED
  BY <1>2, <1>5, <1>6, ZenonT(60)

\* The bridge's send.
LEMMA BridgeStep == ASSUME Inv, NEW n \in Nodes, bitchat_send_message(n) PROVE Inv'
<1>1. PICK p \in Nodes, text \in Texts : SendText(n, key[p], text)
  BY DEF bitchat_send_message
<1>2. n \in Bridges /\ UNCHANGED <<now, lines, stdin, typed, shown>>
  BY DEF bitchat_send_message
<1>3. key[p] \in Pubkey /\ text \in Seq(Byte) /\ Len(text) < Limit
  <2>1. text \in Seq(Char) /\ Len(text) < Limit
    BY InputAssumption DEF Char
  <2>2. Char \subseteq Byte
    BY DEF Char
  <2>3. key[p] \in Pubkey
    BY KeyAssumption
  <2>4. QED
    BY <2>1, <2>2, <2>3
<1>4. Core'
  BY <1>1, <1>2, <1>3, SendStep, ZenonT(60) DEF Inv
<1>5. PICK x : made' = made \cup {x} /\ x.from = n
  BY <1>1, SendMakes
<1>6. typed' = typed
  BY <1>2
<1>7. WrittenInv'
  BY <1>2, <1>5, <1>6, ZenonT(60) DEF Inv, WrittenInv
<1>8. StdinInv' /\ TypedInv' /\ lines' \in 0..MaxLines
  BY <1>2 DEF Inv, StdinInv, TypedInv
<1>9. QED
  BY <1>4, <1>7, <1>8, ZenonT(60) DEF Inv

\* The invariant behind the theorems below: everything on the wire and in a
\* table is a copy of one message made, and every message of a simulator is
\* what a line typed there says.
THEOREM InvariantHolds == Spec => []Inv
<1>1. Init => Inv
  <2> SUFFICES ASSUME Init PROVE Inv
    BY ZenonT(60)
  <2>1. Core
    BY BoundAssumption, SMTT(60) DEF Init, Core, Clock, MadeInv, Unique, NetInv, RowInv, ShownInv
  <2>2. TypedInv /\ StdinInv /\ WrittenInv /\ lines \in 0..MaxLines
    BY BoundAssumption, SMTT(60) DEF Init, TypedInv, StdinInv, WrittenInv
  <2>3. QED
    BY <2>1, <2>2 DEF Inv
<1>2. Inv /\ [Next]_vars => Inv'
  <2> SUFFICES ASSUME Inv, [Next]_vars PROVE Inv'
    OBVIOUS
  <2>1. CASE SetClock
    <3>1. Core'
      BY <2>1, SetClockStep DEF Inv
    <3>2. UNCHANGED <<lines, stdin, typed, made>>
      BY <2>1 DEF SetClock
    <3>3. QED
      BY <3>1, <3>2, LineFrame DEF Inv
  <2>2. ASSUME NEW n \in Nodes, Type(n) PROVE Inv'
    BY <2>2, TypeStep
  <2>3. ASSUME NEW n \in Nodes, Command(n) PROVE Inv'
    BY <2>3, CommandStep, ZenonT(60)
  <2>4. ASSUME NEW n \in Nodes, bitchat_send_message(n) PROVE Inv'
    BY <2>4, BridgeStep
  <2>5. ASSUME NEW n \in Nodes, Receive(n) PROVE Inv'
    <3>1. Core'
      BY <2>5, ReceiveStep DEF Inv
    <3>2. UNCHANGED <<lines, stdin, typed, made>>
      BY <2>5, ZenonT(60) DEF Receive
    <3>3. QED
      BY <3>1, <3>2, LineFrame DEF Inv
  <2>6. ASSUME NEW n \in Nodes, Rebroadcast(n) PROVE Inv'
    <3>1. Core'
      BY <2>6, RebroadcastStep DEF Inv
    <3>2. UNCHANGED <<lines, stdin, typed, made>>
      BY <2>6, Zenon DEF Rebroadcast
    <3>3. QED
      BY <3>1, <3>2, LineFrame DEF Inv
  <2>7. CASE UNCHANGED vars
    <3>1. Core'
      BY <2>7, CoreFrame, Zenon DEF Inv, Core, RowInv, vars
    <3>2. UNCHANGED <<lines, stdin, typed, made>>
      BY <2>7 DEF vars
    <3>3. QED
      BY <3>1, <3>2, LineFrame DEF Inv
  <2>8. QED
    BY <2>1, <2>2, <2>3, <2>4, <2>5, <2>6, <2>7 DEF Next
<1>3. QED
  BY <1>1, <1>2, PTL DEF Spec

-----------------------------------------------------------------------------
(* The properties.                                                         *)

\* The types of the variables.
THEOREM TypeCorrect == Spec => []TypeOK
<1>1. Inv => TypeOK
  <2> SUFFICES ASSUME Inv PROVE TypeOK
    OBVIOUS
  <2>1. now \in Times /\ lines \in 0..MaxLines /\ DOMAIN stdin = Nodes
    BY DEF Inv, Core, Clock, StdinInv
  <2>2. \A t \in typed : t.from \in Nodes /\ t.line \in MsgLines \cup OtherLines
    BY DEF Inv, TypedInv
  <2>3. \A m \in made : m.uuid \in Uuids /\ m.from \in Nodes /\ m.to \in Pubkey
    BY ZenonT(60) DEF Inv, Core, MadeInv, MadeOK
  <2>4. \A n \in Nodes : \A r \in rows[n] : r.ttl \in 0..DefaultTtl
    <3>1. \A m, ttl, ts : CopyRow(m, ttl, ts).ttl = ttl
      BY ZenonT(60) DEF CopyRow
    <3>2. QED
      BY <3>1, SMTT(60) DEF Inv, Core, RowInv, RowOf
  <2>5. \A s \in shown : s.at \in Nodes
    BY DEF Inv, Core, ShownInv, Shows
  <2>6. QED
    BY <2>1, <2>2, <2>3, <2>4, <2>5 DEF TypeOK
<1>2. QED
  BY <1>1, InvariantHolds, PTL

\* What a datagram of the network holds.
LEMMA OnWire ==
    ASSUME Core, NEW d \in net
    PROVE  \E m \in made : \E ttl \in 0..DefaultTtl, ts \in Times :
                /\ d \in Seq(Elems(m.payload))
                /\ Parses(d)
                /\ bc_message_deserialize(d) = Copy(m, ttl, ts)
<1>1. PICK m \in made : \E ttl \in 0..DefaultTtl, ts \in Times :
        d = bc_message_serialize(Copy(m, ttl, ts))
  <2>1. CopyOf(d, made)
    BY Zenon DEF Core, NetInv
  <2>2. QED
    BY <2>1 DEF CopyOf
<1>2. PICK ttl \in 0..DefaultTtl, ts \in Times : d = bc_message_serialize(Copy(m, ttl, ts))
  BY <1>1
<1>3. MadeOK(m)
  BY DEF Core, MadeInv
<1>4. d \in Seq(Elems(m.payload)) /\ Parses(d) /\ bc_message_deserialize(d) = Copy(m, ttl, ts)
  BY <1>2, <1>3, CopyParses, ZenonT(60)
<1>5. QED
  BY <1>4

\* Serialising, the receive buffer, parsing, the table and the hops change
\* nothing but the time to live and the time stamp, for every message, any
\* number of nodes and every size of the buffers.
THEOREM UnalteredHolds == Spec => []Unaltered
<1>1. Inv => Unaltered
  <2> SUFFICES ASSUME Inv PROVE Unaltered
    OBVIOUS
  <2>1. \A m, ttl, ts : SameMessage(Copy(m, ttl, ts), m) /\ SameMessage(CopyRow(m, ttl, ts), m)
    BY SameCopy, Zenon
  <2>2. ASSUME NEW d \in net
        PROVE  Parses(d) /\ \E m \in made : SameMessage(bc_message_deserialize(d), m)
    <3>1. PICK m \in made : \E ttl \in 0..DefaultTtl, ts \in Times :
                Parses(d) /\ bc_message_deserialize(d) = Copy(m, ttl, ts)
      BY OnWire, ZenonT(60) DEF Inv
    <3>2. QED
      BY <2>1, <3>1
  <2>3. \A n \in Nodes : \A r \in rows[n] : \E m \in made : SameMessage(r, m)
    <3>1. ASSUME NEW n \in Nodes, NEW r \in rows[n] PROVE \E m \in made : SameMessage(r, m)
      <4>1. RowOf(r, n, made)
        BY Zenon DEF Inv, Core, RowInv
      <4>2. PICK m \in made : \E ttl, ts : r = CopyRow(m, ttl, ts)
        BY <4>1, Zenon DEF RowOf
      <4>3. QED
        BY <2>1, <4>2, Zenon
    <3>2. QED
      BY <3>1, Zenon
  <2>4. QED
    BY <2>2, <2>3, Zenon DEF Unaltered
<1>2. QED
  BY <1>1, InvariantHolds, PTL

\* A message the receive buffer cuts reaches nobody, whatever its size and the
\* buffer's; one that fits is received whole.
THEOREM OnlyWholeTravelHolds == Spec => []OnlyWholeTravel
<1>1. Inv => OnlyWholeTravel
  <2> SUFFICES ASSUME Inv PROVE OnlyWholeTravel
    OBVIOUS
  <2>1. \A m \in made : /\ Len(m.payload) = BC_NONCE_SIZE + Len(m.text) + BC_TAG_SIZE
                        /\ Len(m.text) \in Nat
    <3>1. ASSUME NEW m \in made PROVE Len(m.payload) = BC_NONCE_SIZE + Len(m.text) + BC_TAG_SIZE /\ Len(m.text) \in Nat
      <4>1. MadeOK(m)
        BY ZenonT(60) DEF Inv, Core, MadeInv
      <4>2. m.text \in Seq(Byte)
        BY <4>1, ZenonT(60) DEF MadeOK
      <4>3. QED
        BY <4>1, <4>2, PayloadParts DEF MadeOK
    <3>2. QED
      BY <3>1, ZenonT(60)
  <2>2. BC_NONCE_SIZE \in Nat /\ BC_TAG_SIZE \in Nat /\ BC_MESSAGE_HEADER_SIZE \in Nat /\ RecvSize \in Nat
    BY Sizes, BoundAssumption DEF BC_MESSAGE_HEADER_SIZE
  <2>3. \A m \in made : BC_MESSAGE_HEADER_SIZE + Len(m.payload) > RecvSize => ~Fits(m)
    BY <2>1, <2>2, SMTT(60) DEF Fits
  <2>4. ASSUME NEW m \in made, ~Fits(m), NEW n \in Nodes \ {m.from}, NEW r \in rows[n]
        PROVE  r.uuid # m.uuid
    <3>1. PICK p \in made : /\ \E ttl, ts : r = CopyRow(p, ttl, ts)
                            /\ n # p.from => Fits(p)
      <4>1. RowOf(r, n, made)
        BY Zenon DEF Inv, Core, RowInv
      <4>2. QED
        BY <4>1, Zenon DEF RowOf
    <3>2. r.uuid = p.uuid
      BY <3>1, SMTT(60) DEF CopyRow
    <3>3. p.uuid = m.uuid => p = m
      BY DEF Inv, Core, Unique
    <3>4. QED
      BY <2>4, <3>1, <3>2, <3>3
  <2>5. ASSUME NEW s \in shown
        PROVE  BC_MESSAGE_HEADER_SIZE + BC_NONCE_SIZE + Len(s.text) + BC_TAG_SIZE <= RecvSize
    <3>1. PICK m \in made : s.text = m.text /\ Fits(m)
      BY ZenonT(60) DEF Inv, Core, ShownInv, Shows
    <3>2. Len(s.text) \in Nat /\ Len(m.payload) = BC_NONCE_SIZE + Len(s.text) + BC_TAG_SIZE
      BY <2>1, <3>1
    <3>3. BC_MESSAGE_HEADER_SIZE + Len(m.payload) <= RecvSize
      BY <3>1 DEF Fits
    <3> DEFINE l == Len(s.text)
               h == BC_MESSAGE_HEADER_SIZE
    <3>4. l \in Nat /\ h \in Nat /\ h + (BC_NONCE_SIZE + l + BC_TAG_SIZE) <= RecvSize
      BY <2>2, <3>2, <3>3
    <3> HIDE DEF l, h
    <3>5. h + BC_NONCE_SIZE + l + BC_TAG_SIZE <= RecvSize
      BY <2>2, <3>4
    <3>6. QED
      BY <3>5, ZenonT(60) DEF l, h
  <2>6. ASSUME NEW d \in net, Len(d) <= RecvSize PROVE Parses(udp_recv(d)) /\ udp_recv(d) = d
    <3>1. PICK m \in made : d \in Seq(Elems(m.payload)) /\ Parses(d)
      BY OnWire DEF Inv
    <3>2. udp_recv(d) = d
      BY <2>6, <3>1, FitsWhole, Zenon
    <3>3. QED
      BY <3>1, <3>2, ZenonT(60)
  <2>7. QED
    BY <2>3, <2>4, <2>5, <2>6 DEF OnlyWholeTravel
<1>2. QED
  BY <1>1, InvariantHolds, PTL

\* What a user reads is what a user typed, for all lines, keys and buffer sizes.
THEOREM ShownAsTypedHolds == Spec => []ShownAsTyped
<1>1. Inv => ShownAsTyped
  <2> SUFFICES ASSUME Inv, NEW s \in shown
               PROVE  \E t \in typed :
                        /\ s.from = key[t.from]
                        /\ \E i, j \in 1..Len(t.line) : s.text = SubSeq(t.line, i, j)
                        /\ \A p \in Nodes, text \in Texts :
                              t.line = LineFor(p, text) /\ Len(t.line) < LineSize
                                => s.at = p /\ s.text = SkipSpaces(text)
    BY ZenonT(60) DEF ShownAsTyped
  <2>1. PICK m \in made : /\ s.at \in Nodes
                          /\ s.from = key[m.from]
                          /\ m.to = key[s.at]
                          /\ s.text = m.text
                          /\ m.from \notin Bridges
    BY DEF Inv, Core, ShownInv, Shows
  <2>2. PICK t \in typed : Written(m.from, m.to, m.text, t)
    BY <2>1, Zenon DEF Inv, WrittenInv
  <2>3. s.from = key[t.from]
    BY <2>1, <2>2, Zenon DEF Written
  <2>4. \E i, j \in 1..Len(t.line) : s.text = SubSeq(t.line, i, j)
    BY <2>1, <2>2, Zenon DEF Written
  <2>5. ASSUME NEW p \in Nodes, NEW text \in Texts, t.line = LineFor(p, text), Len(t.line) < LineSize
        PROVE  s.at = p /\ s.text = SkipSpaces(text)
    <3>1. m.to = key[p] /\ m.text = SkipSpaces(text)
      BY <2>2, <2>5 DEF Written
    <3>2. QED
      BY <2>1, <3>1, KeyAssumption, ZenonT(60)
  <2>6. QED
    BY <2>3, <2>4, <2>5, ZenonT(60)
<1>2. QED
  BY <1>1, InvariantHolds, PTL
=============================================================================
