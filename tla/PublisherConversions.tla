------------------------- MODULE PublisherConversions -------------------------
(***************************************************************************)
(* Between the protocol crate's types and the protobuf messages            *)
(* (publisher_sdk/rust): the three ways a publisher's update becomes a     *)
(* FeedUpdate, dynamic values and channels.  None is an absent optional    *)
(* field; an enum on the wire is its number in types.proto.                *)
(***************************************************************************)
EXTENDS Integers, SequencesExt

CONSTANTS Mega, Kilo,    \* microseconds of a second, nanoseconds of a microsecond
          MaxTime,       \* u64::MAX, in microseconds
          Times,         \* timestamps and durations in microseconds
          Prices,        \* mantissas of prices and rates; a price is never zero
          Natives, Protos,   \* dynamic values to be sent, and received ones of any shape
          Rates          \* FixedRate::ALL, in microseconds

(* What the units and values have to be. *)
ConversionsAssumption ==
  /\ {Mega, Kilo} \subseteq Nat \ {0} /\ Times \cup Rates \subseteq 0..MaxTime
  /\ 0 \notin Prices

VARIABLES call, result    \* the last conversion and what it gave

None == -1
NoName == "none"    \* an absent enum
Error == [error |-> TRUE]
Option(S) == S \cup {None}

(* DurationUs and TimestampUs to seconds and nanoseconds, and back. *)
time_into_proto(us) == [seconds |-> us \div Mega, nanos |-> (us % Mega) * Kilo]

TimeFits(p) == p.seconds >= 0 /\ p.nanos >= 0 /\ p.seconds * Mega + p.nanos \div Kilo <= MaxTime

time_from_proto(p) == p.seconds * Mega + p.nanos \div Kilo

-----------------------------------------------------------------------------
(* Updates                                                                 *)

PriceUpdate(price, bid, ask, status, session) ==
  [kind |-> "price", price |-> price, bid |-> bid, ask |-> ask, status |-> status,
   session |-> session, rate |-> None, interval |-> None]

FundingRateUpdate(price, rate, interval) ==
  [kind |-> "funding_rate", price |-> price, bid |-> None, ask |-> None, status |-> None,
   session |-> None, rate |-> rate, interval |-> interval]

FeedUpdate(id, us, update) == [feed_id |-> id, source_timestamp |-> time_into_proto(us), update |-> update]

SessionToWire == [Regular |-> 0, PreMarket |-> 1, PostMarket |-> 2, OverNight |-> 3, Closed |-> 4]
StatusToWire == [Open |-> 0, Closed |-> 1, Halted |-> 2, CorpAction |-> 3]

Wire(table, v) == IF v \in DOMAIN table THEN table[v] ELSE None

(* The JSON-RPC call's update. *)
UpdateFromParams(p) ==
  IF p.type = "price"
  THEN PriceUpdate(p.price, p.bid, p.ask, Wire(StatusToWire, p.status), Wire(SessionToWire, p.session))
  ELSE FundingRateUpdate(p.price, p.rate, p.interval)

(* The second binary format: one with a funding rate has no bid and ask. *)
UpdateFromV2(d) ==
  IF d.rate # None THEN FundingRateUpdate(d.price, d.rate, None)
  ELSE PriceUpdate(d.price, d.bid, d.ask, None, None)

(* The first binary format writes an absent price as zero. *)
price_as_i64(price) == IF price = None THEN 0 ELSE price
price_from_i64(n) == IF n = 0 THEN None ELSE n

V1Wire(d) == [id |-> d.id, us |-> d.us, price |-> price_as_i64(d.price),
              bid |-> price_as_i64(d.bid), ask |-> price_as_i64(d.ask)]

V2FromV1(w) == [id |-> w.id, us |-> w.us, price |-> price_from_i64(w.price),
                bid |-> price_from_i64(w.bid), ask |-> price_from_i64(w.ask), rate |-> None]

-----------------------------------------------------------------------------
(* Dynamic values: a tag, a number that stands for the content of the     *)
(* simple ones, and the items of lists and maps; a map's are in the order *)
(* of its keys.                                                           *)

Leaf(tag, n) == [tag |-> tag, num |-> n, items |-> <<>>]
Node(tag, items) == [tag |-> tag, num |-> 0, items |-> items]
Item(key, value) == [key |-> key, value |-> value]

Scalars == {"String", "F64", "U64", "I64", "Bool", "Bytes"}

RECURSIVE IntoProto(_)
IntoProto(v) ==
  CASE v.tag \in Scalars -> v
    [] v.tag \in {"Timestamp", "Duration"} -> [v EXCEPT !.num = time_into_proto(@)]
    [] v.tag \in {"List", "Map"} ->
         [v EXCEPT !.items = [i \in DOMAIN @ |-> Item(@[i].key, IntoProto(@[i].value))]]

(* Mutant: the last of two equal keys stays. *)
MapFromProtoLastWins(items) ==
  LET keys == {items[i].key : i \in DOMAIN items}
      last(k) == CHOOSE i \in DOMAIN items : items[i].key = k /\ \A j \in DOMAIN items : items[j].key = k => j <= i IN
  IF None \in keys THEN Error
  ELSE Node("Map", [i \in 1..Cardinality(keys) |-> items[last(SetToSortSeq(keys, <)[i])]])

(* The items of a map by key; a missing or repeated key is an error. *)
MapFromProto(items) ==
  LET keys == [i \in DOMAIN items |-> items[i].key] IN
  IF None \in Range(keys) \/ ~IsInjective(keys) THEN Error
  ELSE Node("Map", SortSeq(items, LAMBDA a, b : a.key < b.key))

RECURSIVE FromProto(_)
FromProto(p) ==
  LET items == [i \in DOMAIN p.items |-> Item(p.items[i].key, FromProto(p.items[i].value))] IN
  CASE p.tag = "none" -> Error
    [] p.tag \in Scalars -> p
    [] p.tag \in {"Timestamp", "Duration"} ->
         IF TimeFits(p.num) THEN [p EXCEPT !.num = time_from_proto(@)] ELSE Error
    [] p.tag \in {"List", "Map"} ->
         IF \E i \in DOMAIN items : items[i].value = Error THEN Error
         ELSE IF p.tag = "List" THEN Node("List", items) ELSE MapFromProto(items)

-----------------------------------------------------------------------------
(* Channels                                                                *)

RealTime == [kind |-> "RealTime", us |-> 0]
FixedRate(us) == [kind |-> "FixedRate", us |-> us]
MinRate == CHOOSE r \in Rates : \A s \in Rates : r <= s

ChannelIntoProto(c) ==
  IF c = RealTime THEN [kind |-> "real_time", rate |-> time_into_proto(0)]
  ELSE [kind |-> "rate", rate |-> time_into_proto(c.us)]

ChannelFromProto(p) ==
  CASE p.kind = "real_time" -> RealTime
    [] p.kind = "none" -> FixedRate(MinRate)
    [] p.kind = "rate" -> IF TimeFits(p.rate) /\ time_from_proto(p.rate) \in Rates
                          THEN FixedRate(time_from_proto(p.rate)) ELSE Error

-----------------------------------------------------------------------------
Init == call = [op |-> "none"] /\ result = Error

Call(op, arg, res) == call' = [op |-> op, arg |-> arg] /\ result' = res

(* A publisher sends one feed's data by JSON-RPC, in the second binary     *)
(* format and, without a rate, in the first. *)
Update ==
  \E us \in Times, price, bid, ask, rate \in Option(Prices),
     status \in {NoName} \cup DOMAIN StatusToWire,
     session \in {NoName} \cup DOMAIN SessionToWire,
     interval \in Option(Times) :
    LET d == [id |-> 1, us |-> us, price |-> price, bid |-> bid, ask |-> ask, rate |-> rate]
        p == [type |-> IF rate = None THEN "price" ELSE "funding_rate", price |-> price, bid |-> bid,
              ask |-> ask, rate |-> rate, status |-> status, session |-> session, interval |-> interval]
    IN Call("update", [data |-> d, params |-> p],
            [jrpc |-> FeedUpdate(1, us, UpdateFromParams(p)),
             v2   |-> FeedUpdate(1, us, UpdateFromV2(d)),
             v1   |-> FeedUpdate(1, us, UpdateFromV2(V2FromV1(V1Wire(d))))])

SendDynamic == \E v \in Natives : Call("send", v, FromProto(IntoProto(v)))
ReceiveDynamic == \E p \in Protos : Call("receive", p, FromProto(p))

SendChannel ==
  \E c \in {RealTime} \cup {FixedRate(us) : us \in Rates} :
    Call("send_channel", c, ChannelFromProto(ChannelIntoProto(c)))

ReceiveChannel ==
  \E kind \in {"real_time", "none", "rate"}, seconds \in -1..2, nanos \in -1..(Mega * Kilo - 1) :
    LET p == [kind |-> kind, rate |-> [seconds |-> seconds, nanos |-> nanos]] IN
    Call("receive_channel", p, ChannelFromProto(p))

Next ==
  /\ call.op = "none"
  /\ Update \/ SendDynamic \/ ReceiveDynamic \/ SendChannel \/ ReceiveChannel

Spec == Init /\ [][Next]_<<call, result>>

-----------------------------------------------------------------------------
(* Properties                                                              *)

(* It does not matter how a publisher sends an update: the same data gives *)
(* the same FeedUpdate by JSON-RPC and in either binary format, as far as  *)
(* the format has the fields.  An absent price stays absent, although the  *)
(* first format writes it as zero. *)
PathsAgree ==
  call.op = "update" =>
    LET d == call.arg.data
        p == call.arg.params IN
    /\ result.jrpc.update.price = d.price
    /\ p.status = NoName /\ p.session = NoName /\ p.interval = None => result.v2 = result.jrpc
    /\ d.rate = None => result.v1 = result.v2
    /\ d.rate = None => result.v1.update.bid = d.bid /\ result.v1.update.ask = d.ask

(* A dynamic value of any shape comes back from its message as it was. *)
DynamicRoundTrip == call.op = "send" => result = call.arg

(* A message that is accepted is accepted whole: every item of a list or   *)
(* map, at any depth, is in the value, none replaced by another with the   *)
(* same key, and a time loses less than a microsecond. *)
AcceptedMeansWhole ==
  call.op = "receive" /\ result # Error =>
    LET p == call.arg IN
    /\ Len(result.items) = Len(p.items)
    /\ \A i \in DOMAIN p.items : \E j \in DOMAIN result.items :
         /\ result.items[j].key = p.items[i].key
         /\ result.items[j].value = FromProto(p.items[i].value)
         /\ p.tag = "List" => i = j
    /\ p.tag \in {"Timestamp", "Duration"} =>
         (p.num.seconds * Mega * Kilo + p.num.nanos) - result.num * Kilo \in 0..(Kilo - 1)

(* A channel comes back from its message, and a message is never read as a *)
(* channel without an id: Channel::id panics on a rate it does not know. *)
ChannelsSurvive ==
  /\ call.op = "send_channel" => result = call.arg
  /\ call.op = "receive_channel" /\ result # Error => result = RealTime \/ result.us \in Rates

=============================================================================
