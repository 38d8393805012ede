----------------------------- MODULE PayloadCodec -----------------------------
(***************************************************************************)
(* The standard payload: how the protocol crate builds it from aggregated  *)
(* feed data and the requested properties, writes it and reads it back     *)
(* (payload/standard.rs, ParsedFeedPayload of api.rs), and how the Stellar *)
(* SDK reads it inside a contract (payload.rs, client.rs).                 *)
(*                                                                         *)
(* A payload is built, written, possibly damaged on its way (cut short,    *)
(* continued, or altered in one byte), and read by both parsers.           *)
(***************************************************************************)
EXTENDS WireBytes, FiniteSets

CONSTANTS W16, W32, W64,   \* bytes of a u16, u32, u64; a u8 is one byte
          Magic,           \* PAYLOAD_FORMAT_MAGIC
          Timestamps, Channels,
          Requests,        \* sequences of requested properties
          Aggregates       \* sequences of feed data, property -> value

VARIABLES stage,           \* "new", "written", "read"
          source,          \* what the payload was made of
          wire,            \* the bytes, or <<>> when writing failed
          damage,          \* what happened to them on the way
          rust, stellar    \* what each parser returned

vars == <<stage, source, wire, damage, rust, stellar>>

(* PriceFeedProperty: Price = 0 ... FeedUpdateTimestamp = 12. *)
Properties == 0..12
Prices == {0, 1, 2, 5, 10, 11}
PublisherCount == 3
Exponent == 4
FundingRate == 6
Flagged == {7, 8, 12}       \* FundingTimestamp, FundingRateInterval, FeedUpdateTimestamp
MarketSession == 9
Required == {PublisherCount, Exponent, MarketSession}
Sessions == 0..4
U8Max == Base - 1

(* What the sizes have to be. *)
CodecAssumption ==
  /\ {W16, W32, W64} \subseteq Nat \ {0} /\ Magic \in 1..(Base ^ W32 - 1)
  /\ U8Max >= 12
  /\ Requests \subseteq Seq(Properties)

None == <<>>
Some(v) == <<v>>

-----------------------------------------------------------------------------
(* Building.                                                               *)

(* PayloadData::new: the requested properties of every feed, in order. *)
PayloadDataNew(timestamp, channel, feeds, props) ==
  [timestamp |-> timestamp, channel |-> channel,
   feeds |-> [f \in DOMAIN feeds |->
     [feed_id |-> feeds[f].feed_id,
      properties |-> [i \in DOMAIN props |->
        [property |-> props[i], value |-> feeds[f].data[props[i]]]]]]]

(* ParsedFeedPayload::new, every field an option; new_full leaves out no   *)
(* field but the exponent, which its caller gives or not. *)
ParsedFeedPayloadNew(data, props) ==
  [p \in Properties |->
     IF p \notin ToSet(props) THEN None
     ELSE IF p \in Required THEN Some(data[p]) ELSE data[p]]

ParsedFeedPayloadFull(data, exponent) ==
  [p \in Properties |->
     IF p = Exponent THEN exponent
     ELSE IF p \in Required THEN Some(data[p]) ELSE data[p]]

(* TryFrom<(PriceFeedProperty, &ParsedFeedPayload)>: a required property   *)
(* that is missing is an error. *)
Convertible(parsed, props) == \A i \in DOMAIN props :
  props[i] \in Required => parsed[props[i]] # None

PayloadPropertyValue(property, parsed) ==
  IF property \in Required THEN parsed[property][1] ELSE parsed[property]

-----------------------------------------------------------------------------
(* Writing.                                                                *)

WriteOptionPrice(v, order) == Put(IF v = None THEN 0 ELSE v[1], W64, order)

WriteOption(v, order) ==
  IF v = None THEN Put(0, 1, order) ELSE Put(1, 1, order) \o Put(v[1], W64, order)

WriteProperty(p, order) ==
  Put(p.property, 1, order) \o
  CASE p.property \in Prices -> WriteOptionPrice(p.value, order)
    [] p.property \in Flagged \cup {FundingRate} -> WriteOption(p.value, order)
    [] OTHER -> Put(p.value, W16, order)

(* PayloadData::serialize; nothing when a length is no u8. *)
serialize(payload, order) ==
  LET Feed(f) ==
        Put(f.feed_id, W32, order) \o Put(Len(f.properties), 1, order) \o
        FlattenSeq([i \in DOMAIN f.properties |-> WriteProperty(f.properties[i], order)]) IN
  IF \/ Len(payload.feeds) > U8Max
     \/ \E f \in DOMAIN payload.feeds : Len(payload.feeds[f].properties) > U8Max
  THEN <<>>
  ELSE Put(Magic, W32, order) \o Put(payload.timestamp, W64, order) \o
       Put(payload.channel, 1, order) \o Put(Len(payload.feeds), 1, order) \o
       FlattenSeq([f \in DOMAIN payload.feeds |-> Feed(payload.feeds[f])])

-----------------------------------------------------------------------------
(* Reading, protocol crate.                                                *)

AsOptionPrice(word) ==
  IF word.ok THEN [word EXCEPT !.val = IF @ = 0 THEN None ELSE Some(AsSigned(@, W64))] ELSE Failed

ReadOptionPrice(data, c, order) == AsOptionPrice(Read(data, c, W64, order))

(* Mutant: the presence byte of an absent value is followed by the value. *)
AsOptionAlways(flag, word, signed) ==
  IF ~word.ok THEN Failed
  ELSE IF flag.val = 0 THEN [word EXCEPT !.val = None]
  ELSE [word EXCEPT !.val = Some(IF signed THEN AsSigned(@, W64) ELSE @)]

(* A presence byte, and the word behind it when the byte is not 0. *)
AsOption(flag, word, signed) ==
  IF ~flag.ok THEN Failed
  ELSE IF flag.val = 0 THEN [flag EXCEPT !.val = None]
  ELSE IF ~word.ok THEN Failed
  ELSE [word EXCEPT !.val = Some(IF signed THEN AsSigned(@, W64) ELSE @)]

(* read_option_rate is signed, read_option_timestamp and _interval are not. *)
ReadOption(data, c, signed, order) ==
  LET flag == Read(data, c, 1, order) IN
  AsOption(flag, Read(data, flag, W64, order), signed)

(* A required property, from its word. *)
AsRequired(id, short) ==
  IF ~short.ok \/ (id = MarketSession /\ short.val \notin Sessions) THEN Failed
  ELSE [short EXCEPT !.val = IF id = Exponent THEN AsSigned(@, W16) ELSE @]

(* The value behind a property's id. *)
ReadValue(data, id, order) ==
  CASE id.val \in Prices -> ReadOptionPrice(data, id, order)
    [] id.val \in Flagged \cup {FundingRate} -> ReadOption(data, id, id.val = FundingRate, order)
    [] id.val \in Required -> AsRequired(id.val, Read(data, id, W16, order))
    [] OTHER -> Failed

AsProperty(id, value) ==
  IF id.ok /\ value.ok THEN [value EXCEPT !.val = [property |-> id.val, value |-> @]] ELSE Failed

ReadProperty(data, c, order) ==
  LET id == Read(data, c, 1, order) IN AsProperty(id, ReadValue(data, id, order))

AsFeed(head, props) ==
  IF head.ok /\ props.ok
  THEN [props EXCEPT !.val = [feed_id |-> head.val[1], properties |-> @]]
  ELSE Failed

(* The feed id and the number of properties, and the properties. *)
ReadFeed(data, c, order) ==
  LET head == ReadWords(data, c, <<W32, 1>>, order) IN
  AsFeed(head, ReadMany(head.val[2], head, LAMBDA at : ReadProperty(data, at, order)))

(* Magic, timestamp, channel and number of feeds. *)
PayloadHead == <<W32, W64, 1, 1>>

AsPayload(head, feeds) ==
  IF ~head.ok \/ head.val[1] # Magic \/ ~feeds.ok THEN [ok |-> FALSE]
  ELSE [ok |-> TRUE, timestamp |-> head.val[2], channel |-> head.val[3], feeds |-> feeds.val]

(* PayloadData::deserialize; bytes behind the last feed are not looked at. *)
deserialize(data, order) ==
  LET head == ReadWords(data, Start, PayloadHead, order) IN
  AsPayload(head, ReadMany(head.val[4], head, LAMBDA at : ReadFeed(data, at, order)))

-----------------------------------------------------------------------------
(* Reading, Stellar SDK.  Every field of a feed is an option; all words    *)
(* are little-endian. *)

StellarChannels == 1..4

read_optional_i64(raw) == IF raw = 0 THEN None ELSE Some(AsSigned(raw, W64))

(* The feed c with what r read in field p, or the failure. *)
SetField(c, p, r, v) ==
  IF r.ok THEN [c EXCEPT !.at = r, !.feed[p] = v] ELSE [c EXCEPT !.at = Failed]

SetPrice(c, p, word) == SetField(c, p, word, read_optional_i64(word.val))

SetShort(c, p, short) ==
  IF p = MarketSession /\ short.val \notin Sessions THEN [c EXCEPT !.at = Failed]
  ELSE SetField(c, p, short, Some(IF p = Exponent THEN AsSigned(short.val, W16) ELSE short.val))

SetFlagged(c, p, flag, word) ==
  IF flag.ok /\ flag.val = 0 THEN [c EXCEPT !.at = flag]
  ELSE SetField(c, p, word, Some(IF p = FundingRate THEN AsSigned(word.val, W64) ELSE word.val))

ParseValue(data, c, id) ==
  CASE ~id.ok -> [c EXCEPT !.at = Failed]
    [] id.ok /\ id.val \in Prices -> SetPrice(c, id.val, Read(data, id, W64, LE))
    [] id.ok /\ id.val \in Required -> SetShort(c, id.val, Read(data, id, W16, LE))
    [] id.ok /\ id.val \in Flagged \cup {FundingRate} ->
         LET flag == Read(data, id, 1, LE) IN SetFlagged(c, id.val, flag, Read(data, flag, W64, LE))
    [] OTHER -> [c EXCEPT !.at = Failed]

ParseProperty(data, c) == ParseValue(data, c, Read(data, c.at, 1, LE))

AsStellarFeed(head, end) ==
  IF head.ok /\ end.at.ok
  THEN [end.at EXCEPT !.val = [feed_id |-> head.val[1], fields |-> end.feed]]
  ELSE Failed

parse_feed(data, c) ==
  LET head == ReadWords(data, c, <<W32, 1>>, LE) IN
  IF ~head.ok THEN Failed
  ELSE AsStellarFeed(head,
         Repeat([at |-> head, feed |-> [p \in Properties |-> None], left |-> head.val[2]],
                LAMBDA acc : [ParseProperty(data, acc) EXCEPT !.left = @ - 1],
                LAMBDA acc : ~acc.at.ok \/ acc.left = 0))

AsStellarPayload(data, head, feeds) ==
  IF head.ok /\ head.val[3] \in StellarChannels /\ feeds.ok /\ feeds.pos = Len(data)
  THEN AsPayload(head, feeds) ELSE [ok |-> FALSE]

parse_payload(data) ==
  LET head == ReadWords(data, Start, PayloadHead, LE) IN
  AsStellarPayload(data, head, ReadMany(head.val[4], head, LAMBDA at : parse_feed(data, at)))

-----------------------------------------------------------------------------
Init ==
  /\ stage = "new" /\ source = <<>> /\ wire = <<>> /\ damage = "none"
  /\ rust = <<>> /\ stellar = <<>>

(* A payload of aggregated data, or of the parsed update made of it. *)
Write(timestamp, channel, feeds, props, order, path) ==
  LET Parsed(f) == IF path = "full" THEN ParsedFeedPayloadFull(feeds[f].data, None)
                   ELSE ParsedFeedPayloadNew(feeds[f].data, props)
      payload == IF path = "aggregate" THEN PayloadDataNew(timestamp, channel, feeds, props)
                 ELSE PayloadDataNew(timestamp, channel,
                        [f \in DOMAIN feeds |->
                           [feed_id |-> feeds[f].feed_id,
                            data |-> [p \in ToSet(props) |-> PayloadPropertyValue(p, Parsed(f))]]],
                        props) IN
  /\ stage = "new" /\ stage' = "written"
  /\ path = "aggregate" \/ \A f \in DOMAIN feeds : Convertible(Parsed(f), props)
  /\ source' = [timestamp |-> timestamp, channel |-> channel, feeds |-> feeds,
                props |-> props, order |-> order]
  /\ wire' = serialize(payload, order)
  /\ UNCHANGED <<damage, rust, stellar>>

Cut == \E n \in 0..(Len(wire) - 1) :
  damage' = "cut" /\ wire' = SubSeq(wire, 1, n)

Continue == \E b \in {0, 1} :
  damage' = "continued" /\ wire' = Append(wire, b)

Alter == \E i \in DOMAIN wire, b \in {0, 1, 12, Base - 1} :
  wire[i] # b /\ damage' = "altered" /\ wire' = [wire EXCEPT ![i] = b]

Damage ==
  /\ stage = "written" /\ damage = "none" /\ wire # <<>>
  /\ Cut \/ Continue \/ Alter
  /\ UNCHANGED <<stage, source, rust, stellar>>

(* deserialize_slice_le or _be, and parse_payload of a verified update. *)
ReadBoth ==
  /\ stage = "written" /\ stage' = "read"
  /\ rust' = deserialize(wire, source.order)
  /\ stellar' = parse_payload(wire)
  /\ UNCHANGED <<source, wire, damage>>

Next ==
  \/ \E t \in Timestamps, ch \in Channels, feeds \in Aggregates, props \in Requests,
        order \in {LE, BE}, path \in {"aggregate", "parsed", "full"} :
       Write(t, ch, feeds, props, order, path)
  \/ Damage
  \/ ReadBoth

Spec == Init /\ [][Next]_vars

-----------------------------------------------------------------------------
(* Properties                                                              *)

(* What was asked for, by property. *)
Asked(f, p) == IF p \notin ToSet(source.props) THEN None
               ELSE IF p \in Required THEN Some(source.feeds[f].data[p])
               ELSE source.feeds[f].data[p]

(* The last value a parsed list of properties gives for p. *)
Given(feed, p) ==
  LET at == {i \in DOMAIN feed.properties : feed.properties[i].property = p} IN
  IF at = {} THEN None
  ELSE LET v == feed.properties[CHOOSE i \in at : \A j \in at : j <= i].value IN
       IF p \in Required THEN Some(v) ELSE v

(* What the parsed payload says, against what the feeds held. *)
SaysWhatWasAsked(result, Field(_, _)) ==
  /\ result.timestamp = source.timestamp /\ result.channel = source.channel
  /\ Len(result.feeds) = Len(source.feeds)
  /\ \A f \in DOMAIN source.feeds :
       /\ result.feeds[f].feed_id = source.feeds[f].feed_id
       /\ \A p \in Properties : Field(result.feeds[f], p) = Asked(f, p)

(* Every request comes back: a payload that reaches a reader whole is      *)
(* decoded by PayloadData::deserialize, in the byte order it was written   *)
(* in, to the value of each requested property of each feed, absent values *)
(* and negative ones included, whether it was built from the aggregate or  *)
(* from its parsed form; only a count that is no u8 keeps it from being    *)
(* written. *)
RustReadsWhatWasAsked ==
  stage = "read" /\ damage = "none" =>
    IF wire = <<>> THEN Len(source.feeds) > U8Max
    ELSE rust.ok /\ SaysWhatWasAsked(rust, Given)

(* The Stellar SDK, which keeps its own list of property ids and widths,   *)
(* decodes a little-endian payload to the same values, and refuses a       *)
(* big-endian one and one on a channel it does not know. *)
StellarReadsWhatWasAsked ==
  stage = "read" /\ damage = "none" /\ wire # <<>> =>
    IF source.order = LE /\ source.channel \in 1..4
    THEN stellar.ok /\ SaysWhatWasAsked(stellar, LAMBDA feed, p : feed.fields[p])
    ELSE ~stellar.ok

(* A payload cut short is refused by both parsers wherever the cut falls.  *)
(* One with bytes behind it is refused on Stellar. *)
OnlyWholeIsRead ==
  stage = "read" =>
    /\ damage = "cut" => ~rust.ok /\ ~stellar.ok
    /\ damage = "continued" => ~stellar.ok

(* Whatever happened to the bytes, when both parsers accept them and no    *)
(* property comes twice, they give the same values: none of the lengths,   *)
(* presence bytes or ids is understood differently. *)
ParsersAgree ==
  stage = "read" /\ source.order = LE /\ rust.ok /\ stellar.ok =>
    /\ rust.timestamp = stellar.timestamp /\ rust.channel = stellar.channel
    /\ Len(rust.feeds) = Len(stellar.feeds)
    /\ \A f \in DOMAIN rust.feeds :
         LET props == rust.feeds[f].properties IN
         Cardinality({props[i].property : i \in DOMAIN props}) = Len(props) =>
           /\ rust.feeds[f].feed_id = stellar.feeds[f].feed_id
           /\ \A p \in Properties : Given(rust.feeds[f], p) = stellar.feeds[f].fields[p]

=============================================================================
