----------------------------- MODULE UpdateFraming -----------------------------
(***************************************************************************)
(* A binary WebSocket update: the envelopes of the signed formats          *)
(* (message.rs), the frame that carries several of them behind length      *)
(* headers (binary_update.rs), and the two readers of such frames, the     *)
(* protocol crate and the listener of the JavaScript client (client.ts),   *)
(* which keeps one slice per format and tells the two EVM formats apart by *)
(* the magic of the payload inside.                                        *)
(***************************************************************************)
EXTENDS WireBytes, FiniteSets

CONSTANTS W16, W32, W64,    \* bytes of a word
          SigSize, KeySize, \* bytes of a signature and of a public key
          UpdateMagic,      \* BINARY_UPDATE_FORMAT_MAGIC
          PayloadMagic, PackedMagic, \* first word of a payload, big-endian
          SubscriptionIds,
          Bodies,           \* what follows the magic of a payload
          MaxMessages       \* messages in one update

VARIABLES stage, ws_update, wire, cut, rust, js

vars == <<stage, ws_update, wire, cut, rust, js>>

U16Max == Base ^ W16 - 1

(* format_magics_le; the same numbers in FORMAT_MAGICS_LE of protocol.ts. *)
EVM == 21
SOLANA == 52
LE_ECDSA == 83
LE_UNSIGNED == 114
JSON == 145
Formats == {EVM, SOLANA, LE_ECDSA, LE_UNSIGNED, JSON}

(* What the sizes and magics have to be. *)
FramingAssumption ==
  /\ {W16, W32, W64, SigSize, KeySize} \subseteq Nat \ {0}
  /\ Formats \subseteq 0..(Base ^ W32 - 1)
  /\ {UpdateMagic, PayloadMagic, PackedMagic} \subseteq 0..(Base ^ W32 - 1)
  /\ PayloadMagic # PackedMagic

(* The fixed part between magic and payload length, by format. *)
FixedSize(format) ==
  CASE format \in {EVM, LE_ECDSA} -> SigSize + 1
    [] format = SOLANA -> SigSize + KeySize
    [] format = LE_UNSIGNED -> 0

LengthOrder(format) == IF format = EVM THEN BE ELSE LE

(* Message::serialize, or <<>> when the payload has no u16 length.  A      *)
(* parsed payload (JSON) is its text, without a length of its own. *)
MessageSerialize(m) ==
  IF m.format = JSON THEN Put(JSON, W32, LE) \o m.payload
  ELSE IF Len(m.payload) > U16Max THEN <<>>
  ELSE Put(m.format, W32, LE) \o m.fixed
       \o Put(Len(m.payload), W16, LengthOrder(m.format)) \o m.payload

(* serde_json reads the text whole or not at all. *)
JsonParses(text) == text \in Bodies /\ text # <<>>

(* A message from the fields behind its magic. *)
AsMessage(format, fixed, payload) ==
  IF payload.ok
  THEN [payload EXCEPT !.val = [format |-> format, fixed |-> fixed.val, payload |-> @]]
  ELSE Failed

ReadEnvelope(data, magic) ==
  LET fixed == Take(data, magic, FixedSize(magic.val))
      length == Read(data, fixed, W16, LengthOrder(magic.val)) IN
  AsMessage(magic.val, fixed, Take(data, length, length.val))

ReadText(data, text) ==
  IF JsonParses(text)
  THEN [ok |-> TRUE, pos |-> Len(data), val |-> [format |-> JSON, fixed |-> <<>>, payload |-> text]]
  ELSE Failed

(* Message::deserialize_slice; what follows the payload is not looked at. *)
MessageDeserialize(data) ==
  LET magic == Read(data, Start, W32, LE) IN
  IF ~magic.ok \/ magic.val \notin Formats THEN Failed
  ELSE IF magic.val = JSON THEN ReadText(data, SubSeq(data, magic.pos + 1, Len(data)))
  ELSE ReadEnvelope(data, magic)

(* Mutant: the length header counts itself. *)
WithLenHeaderIncluded(data) == Put(Len(data) + W16, W16, BE) \o data

write_with_len_header(data) == Put(Len(data), W16, BE) \o data

(* BinaryWsUpdate::serialize, or <<>> when a length is no u16. *)
UpdateSerialize(u) ==
  LET parts == [i \in DOMAIN u.messages |-> MessageSerialize(u.messages[i])] IN
  IF \E i \in DOMAIN parts : parts[i] = <<>> \/ Len(parts[i]) > U16Max THEN <<>>
  ELSE Put(UpdateMagic, W32, LE) \o Put(u.id, W64, BE)
       \o FlattenSeq([i \in DOMAIN parts |-> write_with_len_header(parts[i])])

(* One turn of the loop: a length, and as many bytes that are a message. *)
NextMessage(data, acc, length) ==
  LET bytes == Take(data, length, length.val)
      message == MessageDeserialize(bytes.val) IN
  IF bytes.ok /\ message.ok
  THEN [ok |-> TRUE, pos |-> bytes.pos, val |-> Append(acc.val, message.val)]
  ELSE Failed

(* BinaryWsUpdate::deserialize_slice.  The loop ends at the end of the data. *)
UpdateDeserialize(data) ==
  LET magic == Read(data, Start, W32, LE)
      id    == Read(data, magic, W64, BE)
      end   == Repeat([id EXCEPT !.val = <<>>],
                      LAMBDA acc : NextMessage(data, acc, Read(data, acc, W16, BE)),
                      LAMBDA acc : ~acc.ok \/ acc.pos >= Len(data)) IN
  IF id.ok /\ magic.val = UpdateMagic /\ end.ok
  THEN [ok |-> TRUE, id |-> id.val, messages |-> end.val]
  ELSE [ok |-> FALSE]

-----------------------------------------------------------------------------
(* The JavaScript listener.                                                *)

(* Buffer.subarray: never fails, it clamps. *)
subarray(data, from, to) == SubSeq(data, from + 1, IF to < Len(data) THEN to ELSE Len(data))

Fields == {"evm", "packedEvmEcdsa", "solana", "leEcdsa", "leUnsigned", "parsed"}
FieldOf == [m \in {SOLANA, LE_ECDSA, LE_UNSIGNED} |->
  CASE m = SOLANA -> "solana" [] m = LE_ECDSA -> "leEcdsa" [] m = LE_UNSIGNED -> "leUnsigned"]

(* Where the payload starts in an EVM envelope: magic, signature, recovery *)
(* id and payload length. *)
EvmPayloadAt == W32 + SigSize + 1 + W16

(* readPayloadMagicBE, and the field it selects; "throw" for none. *)
EvmField(message) ==
  LET magic == Read(message, [Start EXCEPT !.pos = EvmPayloadAt], W32, BE) IN
  IF ~magic.ok THEN "throw"
  ELSE IF magic.val = PackedMagic THEN "packedEvmEcdsa"
  ELSE IF magic.val = PayloadMagic THEN "evm"
  ELSE "throw"

(* The field a message goes to. *)
JsField(format, message) ==
  CASE format = EVM -> EvmField(message)
    [] format = JSON -> IF JsonParses(SubSeq(message, W32 + 1, Len(message))) THEN "parsed" ELSE "throw"
    [] format \in DOMAIN FieldOf -> FieldOf[format]
    [] OTHER -> "throw"

JsStore(acc, end, field, message) ==
  IF field = "throw" THEN Failed ELSE [ok |-> TRUE, pos |-> end, val |-> [acc.val EXCEPT ![field] = message]]

(* One turn of its loop. *)
JsNext(data, acc, length) ==
  LET format  == Read(data, length, W32, LE)
      message == subarray(data, length.pos, length.pos + length.val) IN
  IF ~format.ok THEN Failed
  ELSE JsStore(acc, length.pos + length.val, JsField(format.val, message), message)

(* The listener's callback; reading a word from too few bytes throws. *)
JsListener(data) ==
  LET magic == Read(data, Start, W32, LE)
      id    == Read(data, magic, W64, BE)
      end   == Repeat([id EXCEPT !.val = [f \in Fields |-> <<>>]],
                      LAMBDA acc : JsNext(data, acc, Read(data, acc, W16, BE)),
                      LAMBDA acc : ~acc.ok \/ acc.pos >= Len(data)) IN
  IF id.ok /\ magic.val = UpdateMagic /\ end.ok
  THEN [ok |-> TRUE, id |-> AsSigned(id.val, W64), fields |-> end.val]
  ELSE [ok |-> FALSE]

-----------------------------------------------------------------------------
(* The fixed parts are told apart by their first byte. *)
Fixed(format, first) == [i \in 1..FixedSize(format) |-> IF i = 1 THEN first ELSE 0]

PayloadsOf(format) ==
  IF format = JSON THEN Bodies \ {<<>>}
  ELSE {Put(magic, W32, LengthOrder(format)) \o b : magic \in {PayloadMagic, PackedMagic}, b \in Bodies}

Messages == UNION {{[format |-> f, fixed |-> IF f = JSON THEN <<>> ELSE Fixed(f, 7), payload |-> p]
                      : p \in PayloadsOf(f)} : f \in Formats}

(* The formats of a request are distinct, so an update has one message of  *)
(* each at most. *)
Updates ==
  {u \in [id : SubscriptionIds, messages : UNION {[1..n -> Messages] : n \in 0..MaxMessages}] :
     \A i, j \in DOMAIN u.messages : i # j => u.messages[i].format # u.messages[j].format}

Init ==
  /\ stage = "new" /\ ws_update = <<>> /\ wire = <<>> /\ cut = FALSE /\ rust = <<>> /\ js = <<>>

Send(u) ==
  /\ stage' = "sent"
  /\ ws_update' = u /\ wire' = UpdateSerialize(u)
  /\ UNCHANGED <<cut, rust, js>>

(* The frame is cut before a reader gets it. *)
CutShort(n) ==
  /\ stage = "sent" /\ ~cut /\ n < Len(wire)
  /\ cut' = TRUE /\ wire' = SubSeq(wire, 1, n)
  /\ UNCHANGED <<stage, ws_update, rust, js>>

Receive ==
  /\ stage = "sent" /\ stage' = "received"
  /\ rust' = UpdateDeserialize(wire) /\ js' = JsListener(wire)
  /\ UNCHANGED <<ws_update, wire, cut>>

Next ==
  \/ stage = "new" /\ \E u \in Updates : Send(u)
  \/ \E n \in 0..Len(wire) : CutShort(n)
  \/ Receive

Spec == Init /\ [][Next]_vars

-----------------------------------------------------------------------------
(* Properties                                                              *)

(* BinaryWsUpdate::deserialize_slice returns the messages that were        *)
(* serialized, with their payloads and signatures, whatever their formats  *)
(* and order; an update is not sent only when a length is no u16.  A frame *)
(* that was cut gives the messages before the cut or an error, never a     *)
(* message with a part missing. *)
FramesComeBack ==
  stage = "received" =>
    IF cut THEN rust.ok => IsPrefix(rust.messages, ws_update.messages)
    ELSE IF wire = <<>>
    THEN \E i \in DOMAIN ws_update.messages :
           Len(ws_update.messages[i].payload) > U16Max - SigSize - KeySize - W32 - W16
    ELSE rust = [ok |-> TRUE, id |-> ws_update.id, messages |-> ws_update.messages]

(* The JavaScript listener hands on every message of a whole update, under *)
(* the field of its format and with exactly its bytes, a packed EVM update *)
(* never as a standard one; and the subscription id it was sent under, as  *)
(* long as a signed word holds it. *)
JsSeesEveryFormat ==
  stage = "received" /\ ~cut /\ wire # <<>> =>
    LET Expected(f) == CHOOSE v \in {<<>>} \cup {MessageSerialize(ws_update.messages[i]) : i \in DOMAIN ws_update.messages} :
          LET at == {i \in DOMAIN ws_update.messages :
                LET m == ws_update.messages[i] IN
                CASE f = "evm" -> m.format = EVM /\ IsPrefix(Put(PayloadMagic, W32, BE), m.payload)
                  [] f = "packedEvmEcdsa" -> m.format = EVM /\ IsPrefix(Put(PackedMagic, W32, BE), m.payload)
                  [] f = "parsed" -> m.format = JSON
                  [] OTHER -> m.format \in DOMAIN FieldOf /\ FieldOf[m.format] = f} IN
          IF at = {} THEN v = <<>> ELSE \E i \in at : v = MessageSerialize(ws_update.messages[i]) IN
    /\ js.ok /\ js.fields = [f \in Fields |-> Expected(f)]
    /\ 2 * ws_update.id < Base ^ W64 => js.id = ws_update.id

=============================================================================
