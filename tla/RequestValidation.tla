--------------------------- MODULE RequestValidation ---------------------------
(***************************************************************************)
(* A price request or subscription on its way to the server (api.rs): it   *)
(* is validated when it is built and when it is read from JSON, and can be *)
(* changed in between, since the validated types hand out their fields.    *)
(* The three request types validate alike.  An optional field is a         *)
(* sequence of at most one value.                                          *)
(***************************************************************************)
EXTENDS Integers, Sequences, Functions

CONSTANTS IdLists, SymbolLists,          \* lists of feed ids and of symbols
          PropertyLists, FormatLists,    \* lists of properties and of formats
          Rates,                         \* FixedRate::ALL in milliseconds, in order
          Numbers                        \* numbers in a channel's JSON

(* Feed ids are numbers; symbols, properties and formats are names. *)
ASSUME RequestAssumption ==
  /\ IdLists \subseteq Seq(Nat)
  /\ SymbolLists \cup PropertyLists \cup FormatLists \subseteq Seq(STRING)
  /\ Rates \in Seq(Nat) /\ Numbers \subseteq Nat

VARIABLES held,       \* the client's validated request, if it has one
          wire,       \* the JSON sent
          intact,     \* whether the request is as it was built
          served      \* what the server made of the JSON

requestvars == <<held, wire, intact, served>>

None == <<>>
Some(x) == <<x>>
PackedEvmEcdsa == "packedEvmEcdsa"
PackedProperties == <<"price", "confidence", "exponent", "feedUpdateTimestamp">>

-----------------------------------------------------------------------------
(* Channels: 0 is RealTime, another number the rate in milliseconds.       *)

RealTime == 0
Channels == {RealTime} \cup Range(Rates)

(* Channel::id; the ids are 1, 2, 3 and 4, and 0 is its panic. *)
ChannelId(channel) ==
  LET at == {i \in DOMAIN Rates : Rates[i] = channel} IN
  IF channel = RealTime THEN 1 ELSE IF at = {} THEN 0 ELSE 1 + (CHOOSE i \in at : TRUE)

(* TryFrom<ChannelId>. *)
ChannelFromId(id) ==
  IF id = 1 THEN Some(RealTime) ELSE IF id - 1 \in DOMAIN Rates THEN Some(Rates[id - 1]) ELSE None

(* Serialize and Display. *)
ChannelName(channel) ==
  IF channel = RealTime THEN [form |-> "real_time", n |-> 0] ELSE [form |-> "fixed_rate@ms", n |-> channel]

(* parse_channel and the visitor: a name, an id in digits, or a number. *)
ChannelFromJson(json) ==
  CASE json.form = "real_time" -> Some(RealTime)
    [] json.form = "fixed_rate@ms" -> IF json.n \in Range(Rates) THEN Some(json.n) ELSE None
    [] json.form \in {"digits", "number"} -> IF json.n < 256 THEN ChannelFromId(json.n) ELSE None
    [] json.form = "other" -> None

ChannelJsons == [form : {"real_time", "fixed_rate@ms", "digits", "number", "other"}, n : Numbers]

-----------------------------------------------------------------------------
(* Validation                                                              *)

validate_price_feed_ids_or_symbols(ids, symbols) == (ids = None) # (symbols = None)

validate_optional_nonempty_vec_has_unique_elements(option) ==
  option # None => option[1] # <<>> /\ IsInjective(option[1])

validate_requested_payload(properties, formats) ==
  /\ IsInjective(formats)
  /\ IF PackedEvmEcdsa \in Range(formats) THEN Len(formats) = 1 /\ properties = <<>>
     ELSE properties # <<>> /\ IsInjective(properties)

validate_price_request(r) ==
  /\ validate_price_feed_ids_or_symbols(r.ids, r.symbols)
  /\ validate_optional_nonempty_vec_has_unique_elements(r.ids)
  /\ validate_optional_nonempty_vec_has_unique_elements(r.symbols)
  /\ validate_requested_payload(r.properties, r.formats)

(* new of the three request types. *)
RequestNew(r) == IF validate_price_request(r) THEN Some(r) ELSE None

(* Mutant: read without validation, as a derived Deserialize would. *)
DeserializeDerived(json) ==
  LET channel == ChannelFromJson(json.channel) IN
  IF channel = None THEN None ELSE Some([json EXCEPT !.channel = channel[1]])

(* Deserialize of the three request types. *)
Deserialize(json) ==
  LET channel == ChannelFromJson(json.channel) IN
  IF channel = None THEN None ELSE RequestNew([json EXCEPT !.channel = channel[1]])

(* payload_layout, with its properties and formats. *)
payload_layout(r) ==
  IF PackedEvmEcdsa \in Range(r.formats)
  THEN [layout |-> "PackedEvm", properties |-> PackedProperties, formats |-> <<PackedEvmEcdsa>>]
  ELSE [layout |-> "Standard", properties |-> r.properties, formats |-> r.formats]

-----------------------------------------------------------------------------
PriceRequests(channels) ==
  [ids : {None} \cup {Some(l) : l \in IdLists}, symbols : {None} \cup {Some(l) : l \in SymbolLists},
   properties : PropertyLists, formats : FormatLists, channel : channels]

RequestInit == held = None /\ wire = None /\ intact = FALSE /\ served = None

(* The program that uses the client builds a request. *)
Build ==
  /\ held = None /\ wire = None
  /\ \E r \in PriceRequests(Channels) : held' = RequestNew(r)
  /\ intact' = TRUE
  /\ UNCHANGED <<wire, served>>

(* It changes a field of a request it has built, through DerefMut. *)
DerefMut ==
  /\ held # None /\ wire = None /\ intact
  /\ \/ \E l \in IdLists : held' = Some([held[1] EXCEPT !.ids = Some(l)])
     \/ \E l \in SymbolLists : held' = Some([held[1] EXCEPT !.symbols = Some(l)])
     \/ \E l \in PropertyLists : held' = Some([held[1] EXCEPT !.properties = l])
     \/ \E l \in FormatLists : held' = Some([held[1] EXCEPT !.formats = l])
  /\ intact' = FALSE
  /\ UNCHANGED <<wire, served>>

Send ==
  /\ held # None /\ wire = None
  /\ wire' = Some([held[1] EXCEPT !.channel = ChannelName(@)])
  /\ UNCHANGED <<held, intact, served>>

(* Another client sends any JSON of the right shape. *)
SendRaw ==
  /\ held = None /\ wire = None /\ ~intact
  /\ \E r \in PriceRequests(ChannelJsons) : wire' = Some(r)
  /\ UNCHANGED <<held, intact, served>>

Serve ==
  /\ wire # None /\ served = None
  /\ LET r == Deserialize(wire[1]) IN
     served' = IF r = None THEN Some([ok |-> FALSE])
               ELSE Some([ok |-> TRUE, request |-> r[1], layout |-> payload_layout(r[1]),
                          channel_id |-> ChannelId(r[1].channel)])
  /\ UNCHANGED <<held, wire, intact>>

RequestNext == Build \/ DerefMut \/ Send \/ SendRaw \/ Serve

RequestSpec == RequestInit /\ [][RequestNext]_requestvars

-----------------------------------------------------------------------------
(* Properties                                                              *)

Accepted == served # None /\ served[1].ok

(* Whatever a client does to a request, one that is served names its feeds *)
(* in exactly one way and each of them once, and is answered with exactly  *)
(* the formats and, but for the packed format, the properties asked for,   *)
(* none of them twice. *)
OnlyValidServed ==
  Accepted =>
    LET r == served[1].request
        l == served[1].layout IN
    /\ \E list \in {r.ids \o r.symbols} : Len(list) = 1 /\ list[1] # <<>> /\ IsInjective(list[1])
    /\ l.formats = r.formats /\ l.formats = wire[1].formats /\ IsInjective(l.formats)
    /\ l.properties # <<>> /\ IsInjective(l.properties)
    /\ l.properties = r.properties \/ (r.formats = <<PackedEvmEcdsa>> /\ r.properties = <<>>)

(* A request that was built and not changed since is served, and as what   *)
(* it was: the server's validation is the client's, and the channel        *)
(* survives its name. *)
BuiltIsServed ==
  intact /\ served # None => served[1].ok /\ served[1].request = held[1]

(* A served request has a channel with an id, which names that channel     *)
(* again: the id in a payload's header tells the channel asked for. *)
ChannelIdNamesIt ==
  Accepted => /\ served[1].request.channel \in Channels
              /\ ChannelFromId(served[1].channel_id) = Some(served[1].request.channel)

(* What is served is what was asked: nothing invalid, all that was built,  *)
(* on the channel named. *)
ServedAsAsked == OnlyValidServed /\ BuiltIsServed /\ ChannelIdNamesIt
=============================================================================
