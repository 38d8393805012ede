------------------------------- MODULE PackedEvm -------------------------------
(***************************************************************************)
(* The packed EVM payload (payload/packed_evm): what it keeps of a feed's  *)
(* quote, its header and blocks as bytes, and reading them back.  What a   *)
(* packed price is comes from PackedPrice.  Words are narrower than the    *)
(* real ones and a block holds NUM_FEEDS feeds, but a price still fills    *)
(* its bytes with exponent and mantissa, and the markers fill theirs.      *)
(***************************************************************************)
EXTENDS PackedPrice, WireBytes

CONSTANTS NUM_FEEDS,             \* feeds in a block and markers in a byte
          PriceSize,             \* bytes of a packed price
          TimeSize,              \* TimestampUs56::SIZE
          HUNDREDTHS_BPS_PER_UNIT,
          Second,                \* microseconds of a second
          Magic,                 \* PACKED_EVM_PAYLOAD_FORMAT_MAGIC
          Timestamps, ChannelIds, FeedIdLists, FeedLists,   \* arguments of from_aggregated
          Alterations            \* what a byte may be changed to on the way

(* A price fills its bytes, and the markers theirs. *)
PackedEvmAssumption ==
  /\ Base = 4 ^ NUM_FEEDS
  /\ Base ^ PriceSize = (MaxNegExponent + 1) * (MaxMantissa + 1)
  /\ Magic \in 0..(Base - 1)

VARIABLES request,    \* the arguments of from_aggregated, or NoCall
          payload,    \* what it built
          data,       \* the bytes sent, after any damage
          read        \* what deserialize_slice gave

vars == <<request, payload, data, read>>

NoCall == [called |-> FALSE]
Error == [error |-> TRUE]
NoBytes == <<>>      \* before the first call, and when serialize fails
NoData == [data |-> FALSE]
None == -1

(* Confidence::new; -1 is Confidence::Unavailable. *)
Confidence(bps) == IF bps = Base - 1 THEN None ELSE bps

(* The result has to fit u16, here one byte. *)
relative_hundredths_bps(part, price) ==
  LET scaled == (part * HUNDREDTHS_BPS_PER_UNIT + price \div 2) \div price IN
  IF price <= 0 \/ part < 0 \/ scaled >= Base THEN None ELSE scaled

UNAVAILABLE == [price |-> Unavailable, confidence |-> None]

encode(quote) ==
  [price      |-> RoundedPrice(quote.price, quote.exponent),
   confidence |-> IF quote.confidence = None THEN None
                  ELSE LET bps == relative_hundredths_bps(quote.confidence, quote.price) IN
                       IF bps = None THEN None ELSE Confidence(bps)]

lane_for(d) == IF d = NoData \/ d.price = None THEN UNAVAILABLE ELSE encode(d)

(* Markers are their two bits. *)
max_age(marker) == CASE marker = 0 -> 0 [] marker = 1 -> Second [] marker = 2 -> 5 * Second

from_age(age) ==
  CASE age = 0 -> 0 [] age \in 1..Second -> 1 [] age \in (Second + 1)..(5 * Second) -> 2
    [] age > 5 * Second -> 3

staleness_marker_for(d, timestamp) ==
  IF d = NoData \/ d.updated = None THEN 3
  ELSE from_age(IF timestamp > d.updated THEN timestamp - d.updated ELSE 0)

(* The first entry of feeds for the id. *)
DataOf(id, feeds) ==
  LET at == {i \in DOMAIN feeds : feeds[i].id = id} IN
  IF at = {} THEN NoData ELSE feeds[CHOOSE i \in at : \A j \in at : i <= j].data

from_aggregated(timestamp, channel_id, feed_ids, feeds) ==
  IF feed_ids = <<>> \/ timestamp >= Base ^ TimeSize THEN Error
  ELSE [timestamp |-> timestamp, channel_id |-> channel_id,
        feeds |-> [i \in DOMAIN feed_ids |->
                     LET d == DataOf(feed_ids[i], feeds) IN
                     [feed_id |-> feed_ids[i], lane |-> lane_for(d),
                      marker |-> staleness_marker_for(d, timestamp)]]]

-----------------------------------------------------------------------------
(* Bytes                                                                   *)

LaneBytes(lane) ==
  Put(lane.price.neg * (MaxMantissa + 1) + lane.price.mantissa, PriceSize, BE)
    \o <<IF lane.confidence = None THEN Base - 1 ELSE lane.confidence>>

LaneSize == PriceSize + 1

LaneFromBytes(bytes) ==
  LET packed == Unsigned(SubSeq(bytes, 1, PriceSize), BE) IN
  [price      |-> [neg |-> packed \div (MaxMantissa + 1), mantissa |-> packed % (MaxMantissa + 1)],
   confidence |-> Confidence(bytes[LaneSize])]

Zeros(n) == [i \in 1..n |-> 0]

(* The first marker in the highest bits. *)
pack(markers) == FoldLeft(LAMBDA byte, m : byte * 4 + m, 0, markers)

unpack(byte) == [i \in 1..NUM_FEEDS |-> (byte \div 4 ^ (NUM_FEEDS - i)) % 4]

BlockSerialize(feeds, timestamp) ==
  LET padding == NUM_FEEDS - Len(feeds) IN
  FlattenSeq([i \in DOMAIN feeds |-> <<feeds[i].feed_id>>]) \o Zeros(padding)
    \o FlattenSeq([i \in DOMAIN feeds |-> LaneBytes(feeds[i].lane)]) \o Zeros(padding * LaneSize)
    \o Put(timestamp, TimeSize, BE)
    \o <<pack([i \in DOMAIN feeds |-> feeds[i].marker] \o Zeros(padding))>>

Min2(a, b) == IF a < b THEN a ELSE b

(* The feeds of the block that follows the first n feeds. *)
BlockLen(total, n) == Min2(NUM_FEEDS, total - n)

Blocks(total) == [b \in 1..((total + NUM_FEEDS - 1) \div NUM_FEEDS) |-> BlockLen(total, (b - 1) * NUM_FEEDS)]

serialize(p) ==
  IF Len(p.feeds) >= Base THEN NoBytes
  ELSE <<Magic, p.channel_id, Len(p.feeds)>>
         \o FlattenSeq([b \in DOMAIN Blocks(Len(p.feeds)) |->
              BlockSerialize(SubSeq(p.feeds, (b - 1) * NUM_FEEDS + 1, (b - 1) * NUM_FEEDS + Blocks(Len(p.feeds))[b]),
                             p.timestamp)])

(* Mutant: what fills the last block is not looked at. *)
BlockDeserializeLax(bytes, c, expected) ==
  LET ids   == Take(bytes, c, NUM_FEEDS)
      lanes == Take(bytes, ids, NUM_FEEDS * LaneSize)
      time  == Read(bytes, lanes, TimeSize, BE)
      mark  == Read(bytes, time, 1, BE) IN
  IF ~mark.ok THEN Failed
  ELSE [mark EXCEPT !.val =
         [timestamp |-> time.val,
          feeds |-> [i \in 1..expected |->
            [feed_id |-> ids.val[i],
             lane    |-> LaneFromBytes(SubSeq(lanes.val, (i - 1) * LaneSize + 1, i * LaneSize)),
             marker  |-> unpack(mark.val)[i]]]]]

(* Block::deserialize: the slots behind the expected ones must be zero. *)
BlockDeserialize(bytes, c, expected) ==
  LET ids   == Take(bytes, c, NUM_FEEDS)
      lanes == Take(bytes, ids, NUM_FEEDS * LaneSize)
      time  == Read(bytes, lanes, TimeSize, BE)
      mark  == Read(bytes, time, 1, BE) IN
  IF \/ ~mark.ok
     \/ \E i \in (expected + 1)..NUM_FEEDS :
          \/ ids.val[i] # 0 \/ unpack(mark.val)[i] # 0
          \/ SubSeq(lanes.val, (i - 1) * LaneSize + 1, i * LaneSize) # Zeros(LaneSize)
  THEN Failed
  ELSE [mark EXCEPT !.val =
         [timestamp |-> time.val,
          feeds |-> [i \in 1..expected |->
            [feed_id |-> ids.val[i],
             lane    |-> LaneFromBytes(SubSeq(lanes.val, (i - 1) * LaneSize + 1, i * LaneSize)),
             marker  |-> unpack(mark.val)[i]]]]]

HEADER_SIZE == 3

deserialize_slice(bytes) ==
  IF Len(bytes) < HEADER_SIZE \/ bytes[1] # Magic THEN Error
  ELSE
    LET blocks == Blocks(bytes[3])
        end == ReadMany(Len(blocks), [Start EXCEPT !.pos = HEADER_SIZE],
                        LAMBDA acc : BlockDeserialize(bytes, acc, blocks[Len(acc.val) + 1])) IN
    IF \/ ~end.ok
       \/ \E b \in DOMAIN end.val : end.val[b].timestamp # end.val[1].timestamp
       \/ end.val = <<>> \/ end.pos # Len(bytes)
    THEN Error
    ELSE [timestamp |-> end.val[1].timestamp, channel_id |-> bytes[2],
          feeds |-> FlattenSeq([b \in DOMAIN end.val |-> end.val[b].feeds])]

-----------------------------------------------------------------------------
Init == request = NoCall /\ payload = NoCall /\ data = NoBytes /\ read = NoCall

(* The server builds a payload and writes it. *)
Publish ==
  /\ request = NoCall
  /\ \E timestamp \in Timestamps, channel_id \in ChannelIds,
        feed_ids \in FeedIdLists, feeds \in FeedLists :
       /\ request' = [timestamp |-> timestamp, channel_id |-> channel_id,
                      feed_ids |-> feed_ids, feeds |-> feeds]
       /\ payload' = from_aggregated(timestamp, channel_id, feed_ids, feeds)
  /\ data' = IF payload' = Error THEN NoBytes ELSE serialize(payload')
  /\ read' = NoCall

(* A consumer reads the bytes, whole or damaged in one place. *)
Receive ==
  /\ data # NoBytes /\ read = NoCall
  /\ \/ data' = data
     \/ \E n \in 0..(Len(data) - 1) : data' = SubSeq(data, 1, n)
     \/ data' = data \o <<0>>
     \/ \E i \in DOMAIN data, b \in Alterations : data' = [data EXCEPT ![i] = b]
  /\ read' = deserialize_slice(data')
  /\ UNCHANGED <<request, payload>>

Next == Publish \/ Receive

Spec == Init /\ [][Next]_vars

-----------------------------------------------------------------------------
(* Properties                                                              *)

(* The quote that the request holds for a feed. *)
Asked(i) == DataOf(request.feed_ids[i], request.feeds)

(* Every payload has the requested feeds in the order requested, whatever  *)
(* order the server's data is in; a price is off by half a unit of its     *)
(* last digit at most, a confidence by half a hundredth of a basis point;  *)
(* and a feed without data says nothing but that. *)
QuotesFaithful ==
  payload \notin {NoCall, Error} =>
    /\ Len(payload.feeds) = Len(request.feed_ids)
    /\ \A i \in DOMAIN payload.feeds :
         LET f == payload.feeds[i]
             d == Asked(i) IN
         /\ f.feed_id = request.feed_ids[i]
         /\ d = NoData => f.lane = UNAVAILABLE
         /\ f.lane.price # Unavailable =>
              LET unit  == 10 ^ (-d.exponent - f.lane.price.neg)
                  error == f.lane.price.mantissa * unit - d.price IN
              -unit <= 2 * error /\ 2 * error <= unit
         /\ f.lane.confidence # None =>
              LET error == f.lane.confidence * d.price
                             - d.confidence * HUNDREDTHS_BPS_PER_UNIT IN
              -d.price <= 2 * error /\ 2 * error <= d.price

(* A staleness marker never makes a feed look fresher than it is: the      *)
(* feed's last update is within the marker's max_age of the payload's      *)
(* timestamp, and a feed that cannot be dated has the last marker. *)
MarkersHonest ==
  payload \notin {NoCall, Error} =>
    \A i \in DOMAIN payload.feeds :
      LET marker == payload.feeds[i].marker
          d      == Asked(i) IN
      marker # 3 => d # NoData /\ d.updated # None
                      /\ payload.timestamp - d.updated <= max_age(marker)

(* Undamaged bytes are read back as the payload that was written: no       *)
(* available price or confidence has the reserved pattern. *)
PackedRoundTrip ==
  read # NoCall /\ data = serialize(payload) => read = payload

(* Bytes that are accepted are the only bytes for what they are read as:   *)
(* a changed padding, a second timestamp or a byte behind the blocks is    *)
(* always refused. *)
AcceptedIsCanonical == read \notin {NoCall, Error} => serialize(read) = data

=============================================================================
