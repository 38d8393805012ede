----------------------------- MODULE MCProtocol -----------------------------
(* What is computed in one call, or stored by one contract: nine parts that   *)
(* do not interact, each on its own small words.  A behaviour is a behaviour  *)
(* of one of them, part, while the others stay in their initial states.       *)
EXTENDS PackPrice, LazerArithmetic, PythLazerSolana, Ed25519Layout, RequestValidation, Sequences,
        SequencesExt

VARIABLES
    part,                                           \* the part that runs
    stage, rust,                                    \* PayloadCodec, UpdateFraming, with wire
    source, damage, stellar,                        \* PayloadCodec
    ws_update, cut, js,                             \* UpdateFraming
    request, payload, data, read,                   \* PackedEvm
    call, result                                    \* PublisherConversions

-----------------------------------------------------------------------------
(* Prices of up to five digits for PackPrice: mantissas up to 63 and three    *)
(* decimals can be packed.                                                    *)

MCMantissas == -1..1300 \cup 6340..6360 \cup 63440..63560 \cup {99500, 99949, 99951}
MCExponents == -7..1
MCTimes == 0..2

-----------------------------------------------------------------------------
(* LazerArithmetic on small words with 4 for 1000 and 3 for 10.               *)

MCALL == <<4, 8, 16>>

-----------------------------------------------------------------------------
(* PayloadCodec with bytes of 16 values, requests that have every property    *)
(* first or last, and feeds whose values are absent, small, or at the edges  *)
(* of their words of 2, 3 and 4 bytes.                                        *)

Properties == 0..12
Required == {3, 4, 9}
OptionalTimes == {7, 8, 12}

AllAbsent == [p \in Properties |-> IF p \in Required THEN 0 ELSE <<>>]
AllSmall == [p \in Properties |-> IF p = 4 THEN -2 ELSE IF p \in Required THEN 3 ELSE <<p + 1>>]
AtTheEdge ==
    [p \in Properties |->
        CASE p \in {0, 1, 2, 5, 10, 11} -> <<IF p = 0 THEN -(16 ^ 4 \div 2) ELSE -p>>
          [] p = 6 -> <<0>>
          [] p \in OptionalTimes -> <<16 ^ 4 - p>>
          [] p = 3 -> 16 ^ 2 - 1
          [] p = 4 -> -(16 ^ 2 \div 2)
          [] p = 9 -> 4]

Feed(id, values) == [feed_id |-> id, data |-> values]

SomeAggregates ==
    {<<Feed(1, d)>> : d \in {AllAbsent, AllSmall, AtTheEdge}}
        \cup {<<>>, <<Feed(16 ^ 3 - 1, AtTheEdge), Feed(2, AllAbsent)>>}
        \cup {[f \in 1..16 |-> Feed(f, AllSmall)]}

Codec == INSTANCE PayloadCodec WITH
    Base <- 16, W16 <- 2, W32 <- 3, W64 <- 4, Magic <- 1234,
    Timestamps <- {16 ^ 4 - 2}, Channels <- {4, 7},
    Requests <- {<<p, (p + 7) % 13>> : p \in 0..6},
    Aggregates <- SomeAggregates

ASSUME Codec!CodecAssumption /\ Codec!BaseAssumption

-----------------------------------------------------------------------------
(* UpdateFraming with a u16 of one byte, so that payloads too long for a      *)
(* length header are reached.                                                 *)

Framing == INSTANCE UpdateFraming WITH
    Base <- 16, W16 <- 1, W32 <- 2, W64 <- 2, SigSize <- 2, KeySize <- 3,
    UpdateMagic <- 230, PayloadMagic <- 201, PackedMagic <- 77, SubscriptionIds <- {1, 200},
    Bodies <- {<<>>, <<5, 1>>, [i \in 1..10 |-> 1]}, MaxMessages <- 2

ASSUME Framing!FramingAssumption

-----------------------------------------------------------------------------
(* PackedEvm with two feeds in a block and the packed prices of PackPrice; up *)
(* to three feeds asked for, and once as many as the count cannot hold.       *)

Absent == -1

QuoteOf(p, confidence, e, updated) ==
    [price |-> p, confidence |-> confidence, exponent |-> e, updated |-> updated]

SomeQuotes ==
    {QuoteOf(p, c, e, u) : p \in {Absent, -2, 3, 63, 645, 6451, 63500},
                         c \in {Absent, 11, 47}, e \in {-5, -3, 0, 1},
                         u \in {Absent, 17}}

Entry(id, quote) == [id |-> id, data |-> quote]

SomeFeedLists ==
    {<<Entry(1, q)>> : q \in SomeQuotes}
        \cup {<<Entry(3, QuoteOf(50, 3, -1, 37)), Entry(1, QuoteOf(p, 1, -3, 32)),
                Entry(2, QuoteOf(63, 48, -3, u)), Entry(1, QuoteOf(9, Absent, 0, 1))>>
                : p \in {63, 631}, u \in {20, 24, 25, 28, 29, 36, 39, 40, 41}}

Packed == INSTANCE PackedEvm WITH
    Base <- 16, NUM_FEEDS <- 2, PriceSize <- 2, TimeSize <- 2, HUNDREDTHS_BPS_PER_UNIT <- 20,
    Second <- 3, Magic <- 9, Timestamps <- {40, 256}, ChannelIds <- {1},
    FeedIdLists <- {<<>>, <<1>>, <<2, 1>>, <<3, 1, 2>>, [i \in 1..16 |-> i]},
    FeedLists <- SomeFeedLists, Alterations <- {0, 1, 2, 9, 15}

ASSUME Packed!PackedEvmAssumption

-----------------------------------------------------------------------------
(* RequestValidation with lists of at most two elements; numbers in the JSON  *)
(* reach every id, every rate and one past a byte.                            *)

MCIdLists == {<<>>, <<7>>, <<7, 8>>, <<7, 7>>}
MCSymbolLists == {<<>>, <<"a">>, <<"a", "a">>}
MCPropertyLists == {<<>>, <<"price">>, <<"exponent", "price">>, <<"price", "price">>}
MCFormatLists == {<<>>, <<"evm">>, <<"leUnsigned", "evm">>, <<"evm", "evm">>, <<"packedEvmEcdsa">>,
                  <<"packedEvmEcdsa", "evm">>, <<"packedEvmEcdsa", "packedEvmEcdsa">>}
MCRates == <<50, 200, 1000>>

-----------------------------------------------------------------------------
(* PublisherConversions with seconds of twenty microseconds (the rates are    *)
(* 50, 200 and 1000 milliseconds in units of 50) and microseconds of two      *)
(* nanoseconds; dynamic values nest twice.                                    *)

Leaf(tag, n) == [tag |-> tag, num |-> n, items |-> <<>>]
Node(tag, items) == [tag |-> tag, num |-> 0, items |-> items]
Item(key, value) == [key |-> key, value |-> value]

Lists(S) ==
    {<<>>} \cup {<<Item(Absent, v)>> : v \in S} \cup {<<Item(Absent, v), Item(Absent, w)>> : v, w \in S}

Sent == {Leaf("U64", 1), Leaf("Timestamp", 23), Leaf("Duration", 7)}

SentMaps(S) ==
    {<<>>} \cup {<<Item(k, v)>> : k \in {1, 2}, v \in S} \cup {<<Item(1, v), Item(2, w)>> : v, w \in S}

Nested(S) == S \cup {Node("List", l) : l \in Lists(S)} \cup {Node("Map", m) : m \in SentMaps(S)}

SomeNatives ==
    {Leaf(tag, 0) : tag \in {"String", "F64", "U64", "I64", "Bool", "Bytes"}}
        \cup {Leaf("Timestamp", t) : t \in {0, 1, 19, 20, 99}} \cup Nested(Nested(Sent))

Proto(seconds, nanos) == [seconds |-> seconds, nanos |-> nanos]

Received ==
    {Leaf("none", 0), Leaf("U64", 1), Leaf("Timestamp", Proto(1, 7)), Leaf("Duration", Proto(-1, 0)),
     Leaf("Duration", Proto(4, 39)), Leaf("Timestamp", Proto(5, 0)), Leaf("Duration", Proto(0, -1))}

MapItems(S) == {Item(k, v) : k \in {Absent, 1, 2}, v \in S}

ReceivedOnce ==
    Received \cup {Node("List", l) : l \in Lists(Received)}
        \cup {Node("Map", <<a, b>>) : a, b \in MapItems(Received)}

SomeProtos ==
    ReceivedOnce \cup {Node("List", <<Item(Absent, v)>>) : v \in ReceivedOnce}
        \cup {Node("Map", <<a, Item(1, Leaf("U64", 1))>>) : a \in MapItems(ReceivedOnce)}

Conversions == INSTANCE PublisherConversions WITH
    Mega <- 20, Kilo <- 2, MaxTime <- 99, Times <- {0, 19, 20, 99}, Prices <- {1, 30},
    Rates <- {1, 4, 20}, Natives <- SomeNatives, Protos <- SomeProtos

ASSUME Conversions!ConversionsAssumption

-----------------------------------------------------------------------------
(* Ed25519Layout: magic, signature and key are one byte long, sizes two.  7   *)
(* is the magic, 8 another one, 5 and 6 signatures, 3 and 4 keys (4 is not    *)
(* trusted), and sizes and payloads are small numbers.                        *)

MCSigned == {<<<<5>>, <<3>>, <<1>>>>, <<<<6>>, <<3>>, <<>>>>, <<<<5>>, <<4>>, <<1>>>>,
               <<<<5>>, <<3>>, <<1, 1>>>>}

\* Messages: signed ones, one with another magic, ones with a wrong size or key.
SomeMessages ==
    {<<7>> \o s[1] \o s[2] \o <<Len(s[3]), 0>> \o s[3] : s \in MCSigned}
        \cup {<<8, 5, 3, 1, 0, 1>>, <<7, 5, 3, 0, 0, 1>>, <<7, 5, 3, 0, 1, 1>>, <<7, 6, 3, 1, 0, 1>>,
              <<7, 5>>}

SomeData == {p \o m \o q : p \in {<<>>, <<0>>}, m \in SomeMessages, q \in {<<>>, <<1>>}}

\* The offsets of a message with a payload of one letter, as the SDK makes
\* them, and with one field changed.
Offsets(i, start) ==
    [signature_offset |-> start + 1, signature_instruction_index |-> i,
     public_key_offset |-> start + 2, public_key_instruction_index |-> i,
     message_data_offset |-> start + 5, message_data_size |-> 1, message_instruction_index |-> i]

Changes(o) ==
    {o} \cup {[o EXCEPT ![f] = IF @ = 0 THEN 1 ELSE @ - 1] : f \in DOMAIN o}
        \cup {[o EXCEPT ![f] = @ + 1] : f \in DOMAIN o}

SomeOffsets == {Offsets(2, 0)} \cup UNION {Changes(Offsets(1, start)) : start \in {0, 1}}

SomeArgs ==
    {<<o>> : o \in SomeOffsets} \cup {<<Offsets(2, 0), o>> : o \in Changes(Offsets(1, 0))}

\* The third instruction holds a message that verifies.
MCTransactions ==
    {<<[program |-> "ed25519", num |-> n, args |-> a], [program |-> "lazer", data |-> d],
       [program |-> "other", data |-> <<7, 5, 3, 1, 0, 1>>]>> : n \in 0..2, a \in SomeArgs, d \in SomeData}

MCSOLANA_FORMAT_MAGIC == <<7>>
MCTrusted == {<<3>>}
MCCalls == [message_data : SomeMessages, ed25519_instruction_index : {0, 1}, signature_index : {0, 1},
            self : {1}]

-----------------------------------------------------------------------------
(* One part runs *)

bytes == <<stage, wire, rust>>
codec == <<source, damage, stellar>>
framing == <<ws_update, cut, js>>
evm == <<request, payload, data, read>>
asking == <<held, intact, served>>
converting == <<call, result>>
solana == <<vars, tx, args, out>>
all == <<part, last, bytes, codec, framing, evm, asking, converting, packvars, solana>>

MCInit ==
    /\ part \in {"arithmetic", "codec", "framing", "evm", "request", "conversions", "pack",
                 "layout", "storage"}
    /\ part # "pack" => price = [mantissa |-> 0, exponent |-> 0]
    /\ part # "storage" => now = 0
    /\ ArithmeticInit /\ Codec!Init /\ Framing!Init /\ Packed!Init /\ RequestInit
    /\ Conversions!Init /\ LayoutInit /\ PackInit /\ Init

MCNext ==
    /\ part' = part
    /\ \/ /\ part = "arithmetic" /\ ArithmeticNext
          /\ UNCHANGED <<bytes, codec, framing, evm, asking, converting, packvars, solana>>
       \/ /\ part = "codec" /\ Codec!Next
          /\ UNCHANGED <<last, framing, evm, asking, converting, packvars, solana>>
       \/ /\ part = "framing" /\ Framing!Next
          /\ UNCHANGED <<last, codec, evm, asking, converting, packvars, solana>>
       \/ /\ part = "evm" /\ Packed!Next
          /\ UNCHANGED <<last, bytes, codec, framing, asking, converting, packvars, solana>>
       \/ /\ part = "request" /\ RequestNext
          /\ UNCHANGED <<last, stage, rust, codec, framing, evm, converting, packvars, solana>>
       \/ /\ part = "conversions" /\ Conversions!Next
          /\ UNCHANGED <<last, bytes, codec, framing, evm, asking, packvars, solana>>
       \/ /\ part = "pack" /\ PackNext
          /\ UNCHANGED <<last, bytes, codec, framing, evm, asking, converting, solana>>
       \/ /\ part = "layout" /\ LayoutNext
          /\ UNCHANGED <<last, bytes, codec, framing, evm, asking, converting, packvars, vars>>
       \/ /\ part = "storage" /\ Next
          /\ UNCHANGED <<last, bytes, codec, framing, evm, asking, converting, packvars, tx, args, out>>

MCSpec == MCInit /\ [][MCNext]_all

-----------------------------------------------------------------------------
(* Properties of the parts; those of the modules that are extended are        *)
(* checked as they are, since their initial states satisfy them.              *)

\* Every request comes back: a payload that reaches a reader whole is decoded by
\* PayloadData::deserialize, and a little-endian one by the Stellar SDK with its
\* own list of property ids and widths, to the value of each requested property
\* of each feed, absent and negative ones included.  One cut short is refused by
\* both, and whatever happened to the bytes, what both accept without a property
\* that comes twice they read alike.
PayloadsComeBack ==
    part = "codec" =>
        /\ Codec!RustReadsWhatWasAsked
        /\ Codec!StellarReadsWhatWasAsked
        /\ Codec!OnlyWholeIsRead
        /\ Codec!ParsersAgree

\* BinaryWsUpdate::deserialize_slice returns the messages that were serialized,
\* whatever their formats and order; an update is not sent only when a length is
\* no u16, and a cut frame gives the messages before the cut or an error.  The
\* JavaScript listener hands on every message of a whole update under the field
\* of its format, and its subscription id as long as a signed word holds it.
FramesComeBack == part = "framing" => Framing!FramesComeBack /\ Framing!JsSeesEveryFormat

\* A packed payload has the requested feeds in the order requested, prices off by
\* half a unit of the last digit and confidences by half a hundredth of a basis
\* point at most, and no marker that makes a feed look fresher than it is.
\* Undamaged bytes are read back as written, and bytes that are accepted are the
\* only ones for what they are read as.
PackedFaithful ==
    part = "evm" =>
        /\ Packed!QuotesFaithful
        /\ Packed!MarkersHonest
        /\ Packed!PackedRoundTrip
        /\ Packed!AcceptedIsCanonical

\* What a publisher sends arrives: the same data gives the same FeedUpdate by
\* JSON-RPC and in either binary format, a dynamic value of any shape and a
\* channel come back from their messages, and a message is accepted whole, no item
\* of a list or map lost at any depth and no channel without an id.
UpdatesSurvive ==
    part = "conversions" =>
        /\ Conversions!PathsAgree
        /\ Conversions!DynamicRoundTrip
        /\ Conversions!AcceptedMeansWhole
        /\ Conversions!ChannelsSurvive
=============================================================================
