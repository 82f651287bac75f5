------------------------------ MODULE Envelope ------------------------------
(***************************************************************************)
(* A text from the line a user types to the line another user reads: the   *)
(* simulator's input loop and cmd_msg (or the bridge's                     *)
(* bitchat_send_message), sealing, bc_message_create, the wire format,     *)
(* the receive buffer of bc_router_tick, relays that keep the message in   *)
(* SQLite and send it again from there, and on_message_received.           *)
(*                                                                         *)
(* Which copies arrive, how often and in which order is Mesh's subject.    *)
(* Here every datagram once sent may be received by any node at any later  *)
(* time, any number of times or never; a copy the dedup cache drops is one *)
(* that was never received.                                                *)
(***************************************************************************)
EXTENDS Wire

CONSTANTS Nodes,           \* the nodes, each with a key pair
          Bridges,         \* those behind the bridge, on the Bluetooth transport
          Headless,        \* those whose standard input is closed
          key,             \* the public key of each node
          Uuids,           \* bound: what randombytes_buf returns for UUIDs
          Nonces,          \* bound: and for nonces
          Texts,           \* bound: the texts users send
          OtherLines,      \* bound: other lines users type
          LineSize,        \* sizeof(line) in main
          RecvSize,        \* sizeof(buf) in bc_router_tick
          DefaultTtl,      \* BC_DEFAULT_TTL
          Retention,       \* STORAGE_DEFAULT_RETENTION_SEC
          Times,           \* bound: what time(NULL) returns
          MaxLines         \* bound: lines users type

\* Characters of the command line.
Space   == 32
Newline == 10
Slash   == 47

\* No line, text, nonce or tag is this long.
Limit == 16777216

ASSUME KeyAssumption == /\ key \in [Nodes -> Pubkey]
                        /\ \A n, p \in Nodes : key[n] = key[p] => n = p
                        /\ Bridges \subseteq Nodes
                        /\ Headless \subseteq Nodes

ASSUME InputAssumption ==
    /\ Uuids \subseteq Uuid
    /\ Nonces \subseteq Nonce
    /\ \A t \in Texts \cup OtherLines : t \in Seq(Byte \ {0, Newline}) /\ Len(t) < Limit

\* A time fits 64 bits.
ASSUME BoundAssumption ==
    /\ LineSize \in Nat /\ 1 < LineSize /\ LineSize < Limit
    /\ BC_UUID_SIZE < Limit /\ BC_PUBKEY_SIZE < Limit
    /\ BC_NONCE_SIZE < Limit /\ BC_TAG_SIZE < Limit
    /\ RecvSize \in Nat
    /\ DefaultTtl \in Byte
    /\ Retention \in Nat
    /\ Times \subseteq Nat
    /\ \A t \in Times : Shift8(Shift8(Shift8(Shift8(Shift8(Shift8(Shift8(t))))))) < 256
    /\ MaxLines \in Nat

VARIABLES
    now,      \* time(NULL) at the node that acts next
    lines,    \* how many lines have been typed
    stdin,    \* what each node's user has typed and fgets has not read
    typed,    \* the lines typed so far, and where
    made,     \* the messages created, with the text sealed in them
    net,      \* the datagrams sent
    rows,     \* the pending_messages table of each node
    shown     \* the texts shown to users

vars == <<now, lines, stdin, typed, made, net, rows, shown>>

-----------------------------------------------------------------------------
(* The user's line.                                                        *)

\* "/msg ".
MsgPrefix == <<Slash, 109, 115, 103, Space>>

\* The line for a text to node p, with the key as p's /info prints it.
LineFor(p, text) == MsgPrefix \o bytes_to_hex(key[p]) \o <<Space>> \o text
MsgLines == {LineFor(p, text) : p \in Nodes, text \in Texts}

\* What fgets returns of the characters waiting: up to the newline, and at
\* most LineSize - 1 of them.
Chunk(in) == SubSeq(in, 1, IF Len(in) < LineSize THEN Len(in) ELSE LineSize - 1)
Rest(in)  == SubSeq(in, Len(Chunk(in)) + 1, Len(in))

\* The newline is stripped.
Stripped(s) == IF s # <<>> /\ s[Len(s)] = Newline THEN SubSeq(s, 1, Len(s) - 1) ELSE s

\* strncmp(line, "/msg ", 5) == 0, and line + 5.
IsMsg(s) == Len(s) >= 5 /\ SubSeq(s, 1, 5) = MsgPrefix
Args(s)  == SubSeq(s, 6, Len(s))

\* while (*text == ' ') text++.
FirstOther(s, i) == s[i] # Space /\ \A j \in 1..(i - 1) : s[j] = Space
SkipSpaces(s) == IF \E i \in 1..Len(s) : FirstOther(s, i)
                 THEN SubSeq(s, CHOOSE i \in 1..Len(s) : FirstOther(s, i), Len(s))
                 ELSE <<>>

\* The two halves of cmd_msg's argument.
HexArg(args)  == SubSeq(args, 1, 2 * BC_PUBKEY_SIZE)
TextArg(args) == SkipSpaces(SubSeq(args, 2 * BC_PUBKEY_SIZE + 1, Len(args)))

\* None of cmd_msg's early returns on its argument.
ArgsOK(args) == /\ Len(args) >= 2 * BC_PUBKEY_SIZE + 2
                /\ IsHex(HexArg(args), BC_PUBKEY_SIZE)
                /\ TextArg(args) # <<>>

-----------------------------------------------------------------------------
(* Messages, rows and datagrams.                                           *)

\* bc_message_create with the payload nonce || box.
bc_message_create(u, from, to, payload) ==
    [uuid |-> u, ttl |-> DefaultTtl, sender_pubkey |-> from, receiver_pubkey |-> to,
     timestamp |-> now, payload |-> payload]

\* sqlite_store_message: INSERT OR IGNORE on the uuid.
Row(m) == [uuid |-> m.uuid, sender_pubkey |-> m.sender_pubkey,
           receiver_pubkey |-> m.receiver_pubkey, payload |-> m.payload,
           ttl |-> m.ttl, expires_at |-> now + Retention]

store_message(table, m) ==
    IF \E r \in table : r.uuid = m.uuid THEN table ELSE table \cup {Row(m)}

\* The routers ignore its result: a failed insert leaves the table as it was.
StoreOutcomes(table, m) == {store_message(table, m), table}

\* The message sqlite_get_pending builds from a row.  The row has no time
\* stamp: what it "reconstructs" is the time the row was stored.
FromRow(r) ==
    [uuid |-> r.uuid, ttl |-> r.ttl, sender_pubkey |-> r.sender_pubkey,
     receiver_pubkey |-> r.receiver_pubkey, timestamp |-> r.expires_at - Retention,
     payload |-> r.payload]

get_pending(table) == {FromRow(r) : r \in {q \in table : q.expires_at >= now}}

evict_expired(table) == {r \in table : r.expires_at >= now}

\* The Bluetooth transport's send is a stub: nothing leaves a bridge.
Sent(n, m) == IF n \in Bridges THEN {} ELSE {bc_message_serialize(m)}

\* recvfrom into the router's buffer: the rest of a longer datagram is lost.
udp_recv(d) == SubSeq(d, 1, IF Len(d) <= RecvSize THEN Len(d) ELSE RecvSize)

\* The Bluetooth transport's recv is a stub too.
ble_recv == {}

\* What the transport of node n may hand to its router; a datagram may be
\* delivered any number of times.
recv(n) == IF n \in Bridges THEN ble_recv ELSE {udp_recv(d) : d \in net}

\* Mutant of TtlExpired: the check is missing.
TtlExpired_Never(m) == FALSE

\* msg->ttl == 0.
TtlExpired(m) == m.ttl = 0

NonceOf(payload) == SubSeq(payload, 1, BC_NONCE_SIZE)
BoxOf(payload)   == SubSeq(payload, BC_NONCE_SIZE + 1, Len(payload))

\* None of on_message_received's early returns, and the box opens.
CanShow(n, m) ==
    /\ Len(m.payload) >= BC_NONCE_SIZE + BC_TAG_SIZE
    /\ Derives(m.sender_pubkey)
    /\ Decrypts(BoxOf(m.payload), bc_crypto_derive_shared(key[n], m.sender_pubkey),
                NonceOf(m.payload))

-----------------------------------------------------------------------------
Init == /\ now \in Times
        /\ lines = 0
        /\ stdin = [n \in Nodes |-> <<>>]
        /\ typed = {}
        /\ made = {}
        /\ net = {}
        /\ rows = [n \in Nodes |-> {}]
        /\ shown = {}

\* The clock goes on or is set, or the node that acts next has another one: no
\* two calls of time(NULL) agree on anything.
SetClock == /\ now' \in Times
            /\ UNCHANGED <<lines, stdin, typed, made, net, rows, shown>>

\* The user of n types a line, to send a text or with anything else on it.
Type(n) ==
    /\ n \notin Bridges \cup Headless
    /\ stdin[n] = <<>>
    /\ lines < MaxLines
    /\ lines' = lines + 1
    /\ \E line \in MsgLines \cup OtherLines :
            /\ stdin' = [stdin EXCEPT ![n] = line \o <<Newline>>]
            /\ typed' = typed \cup {[from |-> n, line |-> line]}
    /\ UNCHANGED <<now, made, net, rows, shown>>

\* Sealing a text for a public key, bc_message_create and bc_router_broadcast:
\* the message is sent, and then stored.  Running out of memory on the way, or
\* a key that derives nothing, ends the command with nothing done.
SendText(n, to, text) ==
    /\ Derives(to)
    /\ \E u \in Uuids \ {m.uuid : m \in made}, nonce \in Nonces :
        LET box == bc_crypto_encrypt(text, bc_crypto_derive_shared(key[n], to), nonce)
            msg == bc_message_create(u, key[n], to, nonce \o box)
        IN  /\ made' = made \cup {[uuid |-> u, from |-> n, to |-> to, text |-> text,
                                   payload |-> nonce \o box]}
            /\ net' = net \cup Sent(n, msg)
            /\ \E table \in StoreOutcomes(rows[n], msg) : rows' = [rows EXCEPT ![n] = table]

cmd_msg(n, args) ==
    \/ /\ ArgsOK(args)
       /\ SendText(n, hex_to_bytes(HexArg(args), BC_PUBKEY_SIZE), TextArg(args))
    \/ UNCHANGED <<made, net, rows>>

\* The input loop reads a line and runs the command on it.
Command(n) ==
    /\ stdin[n] # <<>>
    /\ LET line == Stripped(Chunk(stdin[n]))
       IN  IF IsMsg(line) THEN cmd_msg(n, Args(line)) ELSE UNCHANGED <<made, net, rows>>
    /\ stdin' = [stdin EXCEPT ![n] = Rest(stdin[n])]
    /\ UNCHANGED <<now, lines, typed, shown>>

\* The bridge sends any bytes to any key.
bitchat_send_message(n) ==
    /\ n \in Bridges
    /\ \E p \in Nodes, text \in Texts : SendText(n, key[p], text)
    /\ UNCHANGED <<now, lines, stdin, typed, shown>>

\* Step 2 of bc_router_tick and bc_router_receive, for one datagram the dedup
\* cache does not know.  The relayed copy is stored, then sent.
Receive(n) ==
    /\ \E data \in recv(n) :
        LET msg  == bc_message_deserialize(data)
            hop  == [msg EXCEPT !.ttl = Low8(@ - 1)]
        IN  /\ Parses(data)
            /\ ~TtlExpired(msg)
            /\ IF msg.receiver_pubkey = key[n]
               THEN /\ CanShow(n, msg)
                    /\ shown' = shown \cup {[at |-> n, from |-> msg.sender_pubkey,
                                             text |-> TextIn(BoxOf(msg.payload))]}
                    /\ UNCHANGED <<rows, net>>
               ELSE /\ \E table \in StoreOutcomes(rows[n], hop) :
                            rows' = [rows EXCEPT ![n] = table]
                    /\ net' = net \cup Sent(n, hop)
                    /\ UNCHANGED shown
    /\ UNCHANGED <<now, lines, stdin, typed, made>>

\* The rest of the tick: every stored message is sent when
\* BC_SF_REBROADCAST_SEC have passed and there are peers (a bridge has none),
\* then the expired ones are deleted.  That others act in between makes no
\* difference here: a datagram may be received at any later time.
Rebroadcast(n) ==
    /\ \/ net' = net \cup UNION {Sent(n, m) : m \in get_pending(rows[n])}
       \/ UNCHANGED net
    /\ rows' = [rows EXCEPT ![n] = evict_expired(@)]
    /\ UNCHANGED <<now, lines, stdin, typed, made, shown>>

Next == \/ SetClock
        \/ \E n \in Nodes : \/ Type(n)
                            \/ Command(n)
                            \/ bitchat_send_message(n)
                            \/ Receive(n)
                            \/ Rebroadcast(n)

Spec == Init /\ [][Next]_vars

-----------------------------------------------------------------------------
(* Properties.                                                             *)

\* The type of every variable; the tables are described by Unaltered.
TypeOK == /\ now \in Times
          /\ lines \in 0..MaxLines
          /\ DOMAIN stdin = Nodes
          /\ \A t \in typed : t.from \in Nodes /\ t.line \in MsgLines \cup OtherLines
          /\ \A m \in made : /\ m.uuid \in Uuids
                             /\ m.from \in Nodes
                             /\ m.to \in Pubkey
          /\ \A n \in Nodes : \A r \in rows[n] : r.ttl \in 0..DefaultTtl
          /\ \A s \in shown : s.at \in Nodes

\* x has the identity, the addresses and the payload its creator gave it.
SameMessage(x, m) == /\ x.uuid = m.uuid
                     /\ x.sender_pubkey = key[m.from]
                     /\ x.receiver_pubkey = m.to
                     /\ x.payload = m.payload

\* Whatever hops, tables and buffers a message has been through, what is on the
\* wire or in a table is still the message bc_message_create made: its uuid,
\* both keys and the payload come back from serialize, recv, deserialize,
\* SQLite and serialize unchanged.
Unaltered ==
    /\ \A d \in net : /\ Parses(d)
                      /\ \E m \in made : SameMessage(bc_message_deserialize(d), m)
    /\ \A n \in Nodes : \A r \in rows[n] : \E m \in made : SameMessage(r, m)

\* A message too long for the receive buffer of bc_router_tick is cut, does not
\* parse, and so stays with its sender: nobody relays or shows it.  The other
\* messages parse whole.
OnlyWholeTravel ==
    /\ \A m \in made : BC_MESSAGE_HEADER_SIZE + Len(m.payload) > RecvSize =>
            \A n \in Nodes \ {m.from} : \A r \in rows[n] : r.uuid # m.uuid
    /\ \A s \in shown : BC_MESSAGE_HEADER_SIZE + BC_NONCE_SIZE + Len(s.text) + BC_TAG_SIZE
                            <= RecvSize
    /\ \A d \in net : Len(d) <= RecvSize => Parses(udp_recv(d)) /\ udp_recv(d) = d

\* A text that on_message_received shows is part of a line typed at the node it
\* is shown as coming from.  If that line is "/msg <key> <text>" and fits main's
\* buffer, the key is this node's and the text is whole, leading spaces apart.
ShownAsTyped ==
    \A s \in shown : \E t \in typed :
        /\ s.from = key[t.from]
        /\ \E i, j \in 1..Len(t.line) : s.text = SubSeq(t.line, i, j)
        /\ \A p \in Nodes, text \in Texts :
                t.line = LineFor(p, text) /\ Len(t.line) < LineSize
                    => s.at = p /\ s.text = SkipSpaces(text)
=============================================================================
