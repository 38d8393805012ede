--------------------------- MODULE ResilientHttp ---------------------------
(***************************************************************************)
(* The HTTP clients of the Rust SDK (resilient_http_client.rs, used by     *)
(* api_client.rs and state_client.rs, and arc_swap.rs at the user's end):  *)
(* the first fetch with its fallback to the cache file, the polling        *)
(* stream, and the atomic save of the cache file, under crashes.           *)
(*                                                                         *)
(* Data are versions.  A file is an inode: a name may be moved or opened   *)
(* while another task still writes to the inode.                           *)
(***************************************************************************)
EXTENDS Naturals, FiniteSets

CONSTANTS
    Tasks,          \* streams that share one cache file
    Urls,           \* configured urls
    ForState,       \* the state is requested (state_client.rs), or the symbols
    UpdateTicks,    \* update_interval, the limit of a limited fetch
    DefaultTicks,   \* the default max_elapsed_time of a backoff
    Inodes, NoInode,
    MaxVersion,     \* bound: versions of the data
    MaxCrashes      \* bound: crashes

ASSUME HttpAssumption ==
    /\ UpdateTicks \in Nat /\ DefaultTicks \in Nat /\ UpdateTicks < DefaultTicks
    /\ IsFiniteSet(Tasks) /\ IsFiniteSet(Inodes) /\ Cardinality(Inodes) > Cardinality(Tasks) + 1
    /\ NoInode \notin Inodes /\ MaxVersion \in Nat \ {0} /\ MaxCrashes \in Nat

VARIABLES
    pc,         \* where each task is
    first,      \* it has not sent its first value
    trying,     \* urls its fetch has not given up on
    spent,      \* ticks spent on this fetch, at most DefaultTicks
    value,      \* the data it has in hand
    previous,   \* previous_data
    channel,    \* values sent and not received
    handle,     \* the value in the user's handle
    dropped,    \* the user dropped the stream
    fd,         \* the inode the task writes to
    content,    \* content of each inode: a version, Empty or Torn
    synced,     \* inodes that survive a crash
    tmp, path,  \* inodes the temporary and the cache file name
    saved,      \* history: the version saved last
    served,     \* the version each url has
    crashes

filevars == <<fd, content, synced, tmp, path, saved>>
uservars == <<channel, handle, dropped>>
httpvars == <<pc, first, trying, spent, value, previous, uservars, filevars, served, crashes>>

Empty == 0
Torn == MaxVersion + 1

Limit(t) == IF pc[t] = "refetch" THEN DefaultTicks ELSE UpdateTicks

Fresh == [t \in Tasks |-> TRUE]

HttpInit ==
    /\ pc = [t \in Tasks |-> "fetch"] /\ first = Fresh
    /\ trying = [t \in Tasks |-> Urls] /\ spent = [t \in Tasks |-> 0]
    /\ value = [t \in Tasks |-> 0] /\ previous = [t \in Tasks |-> 0]
    /\ channel = [t \in Tasks |-> {}] /\ handle = [t \in Tasks |-> 0]
    /\ dropped = [t \in Tasks |-> FALSE]
    /\ fd = [t \in Tasks |-> NoInode]
    /\ content = [i \in Inodes |-> Empty] /\ synced = {}
    /\ tmp = NoInode /\ path = NoInode /\ saved = 0
    /\ served = [u \in Urls |-> 1] /\ crashes = 0

Goto(t, to) == pc' = [pc EXCEPT ![t] = to]

\* fetch_from_all_urls starts: every url is tried.
BeginFetch(t, to) ==
    /\ Goto(t, to)
    /\ trying' = [trying EXCEPT ![t] = Urls]
    /\ spent' = [spent EXCEPT ![t] = 0]

-----------------------------------------------------------------------------
(* Fetching *)

\* Where the data of a successful fetch go: into the cache file when they are
\* new (fetch_or_cache, keep_stream_updated), not when the first, limited fetch
\* had failed.
AfterFetch(t, v) ==
    IF pc[t] = "refetch" THEN "send"
    ELSE IF first[t] \/ v # previous[t] THEN "create" ELSE "sleep"

\* The first url to answer decides; the other requests are dropped.
FetchSucceeds(t, u) ==
    /\ pc[t] \in {"fetch", "refetch"} /\ u \in trying[t]
    /\ value' = [value EXCEPT ![t] = served[u]]
    /\ Goto(t, AfterFetch(t, served[u]))
    /\ UNCHANGED <<first, trying, spent, previous, uservars, filevars, served, crashes>>

\* What the backoff does not retry: the status of an answer that is an error but
\* not the server's, ...
PermanentStatus(failure) == failure = "client_error_status"

\* ... of a request for symbols, a url that cannot be built, ...
PermanentForSymbols(failure) == failure = "url" \/ PermanentStatus(failure)

\* ... and of a request for the state also a missing token and a text that is
\* not UTF-8 or not a State.
PermanentForState(failure) ==
    failure \in {"url", "no_token", "not_utf8", "does_not_parse"} \/ PermanentStatus(failure)

Permanent(failure) ==
    IF ForState THEN PermanentForState(failure) ELSE PermanentForSymbols(failure)

Failures == {"url", "no_token", "send", "client_error_status", "server_error_status", "body",
             "not_utf8", "does_not_parse"}

\* fetch_from_single_url_with_retry: a permanent error, or one that comes when
\* the time is used up, is final for the url; another one is retried.
RequestFails(t, u, failure) ==
    /\ pc[t] \in {"fetch", "refetch"} /\ u \in trying[t]
    /\ Permanent(failure) \/ spent[t] >= Limit(t)
    /\ trying' = [trying EXCEPT ![t] = @ \ {u}]
    /\ UNCHANGED <<pc, first, spent, value, previous, uservars, filevars, served, crashes>>

\* No url is left: the cache file, the error of the second fetch, or the next poll.
FetchFails(t) ==
    /\ pc[t] \in {"fetch", "refetch"} /\ trying[t] = {}
    /\ Goto(t, IF pc[t] = "refetch" THEN "failed" ELSE IF first[t] THEN "load" ELSE "sleep")
    /\ UNCHANGED <<first, trying, spent, value, previous, uservars, filevars, served, crashes>>

-----------------------------------------------------------------------------
(* The cache file *)

\* load_file: a file that is there and parses.
LoadFile(t) ==
    /\ pc[t] = "load"
    /\ IF path # NoInode /\ content[path] \in 1..MaxVersion
       THEN /\ value' = [value EXCEPT ![t] = content[path]]
            /\ Goto(t, "send") /\ UNCHANGED <<trying, spent>>
       ELSE BeginFetch(t, "refetch") /\ UNCHANGED value
    /\ UNCHANGED <<first, previous, uservars, filevars, served, crashes>>

\* File::create: the inode of the temporary file is emptied, or a new one made.
FileCreate(t) ==
    /\ pc[t] = "create"
    /\ LET free == Inodes \ ({tmp, path} \cup {fd[s] : s \in Tasks})
           i == IF tmp # NoInode THEN tmp ELSE CHOOSE j \in free : TRUE
       IN  /\ fd' = [fd EXCEPT ![t] = i] /\ tmp' = i
           /\ content' = [content EXCEPT ![i] = Empty] /\ synced' = synced \ {i}
    /\ Goto(t, "write")
    /\ UNCHANGED <<first, trying, spent, value, previous, uservars, path, saved, served, crashes>>

\* write_all: over what another task has written, the result may be a mixture.
FileWrite(t) ==
    /\ pc[t] = "write"
    /\ \E c \in {value[t]} \cup (IF content[fd[t]] = Empty THEN {} ELSE {Torn}) :
          content' = [content EXCEPT ![fd[t]] = c]
    /\ synced' = synced \ {fd[t]}
    /\ Goto(t, "sync")
    /\ UNCHANGED <<first, trying, spent, value, previous, uservars, fd, tmp, path, saved, served,
                   crashes>>

\* Mutant: sync_all is left out.
NoSync(t) ==
    /\ pc[t] = "sync" /\ Goto(t, "replace")
    /\ UNCHANGED <<first, trying, spent, value, previous, uservars, filevars, served, crashes>>

FileSync(t) ==
    /\ pc[t] = "sync" /\ Goto(t, "replace")
    /\ synced' = synced \cup {fd[t]}
    /\ UNCHANGED <<first, trying, spent, value, previous, uservars, fd, content, tmp, path, saved,
                   served, crashes>>

\* replace_atomic: the temporary name is moved, if it is still there.
FileReplace(t) ==
    /\ pc[t] = "replace" /\ Goto(t, "send")
    /\ fd' = [fd EXCEPT ![t] = NoInode]
    /\ \/ tmp # NoInode /\ path' = tmp /\ tmp' = NoInode /\ saved' = value[t]
       \/ tmp = NoInode /\ UNCHANGED <<path, tmp, saved>>
    /\ UNCHANGED <<first, trying, spent, value, previous, uservars, content, synced, served, crashes>>

\* Any step of the save may fail; it is reported, and the data are sent.
SaveFails(t) ==
    /\ pc[t] \in {"create", "write", "sync", "replace"} /\ Goto(t, "send")
    /\ fd' = [fd EXCEPT ![t] = NoInode]
    /\ UNCHANGED <<first, trying, spent, value, previous, uservars, content, synced, tmp, path,
                   saved, served, crashes>>

-----------------------------------------------------------------------------
(* The stream *)

\* Mutant: a value that finds no room is not sent.
TrySend(t) ==
    /\ pc[t] = "send"
    /\ previous' = [previous EXCEPT ![t] = value[t]]
    /\ first' = [first EXCEPT ![t] = FALSE]
    /\ \/ /\ ~dropped[t] /\ channel' = [channel EXCEPT ![t] = IF @ = {} THEN {value[t]} ELSE @]
          /\ Goto(t, "sleep")
       \/ dropped[t] /\ Goto(t, "done") /\ UNCHANGED channel
    /\ UNCHANGED <<trying, spent, value, handle, dropped, filevars, served, crashes>>

\* The first value goes into the new channel; a changed value waits for room
\* (capacity 1), or ends the task when the stream is dropped.
Send(t) ==
    /\ pc[t] = "send"
    /\ previous' = [previous EXCEPT ![t] = value[t]]
    /\ first' = [first EXCEPT ![t] = FALSE]
    /\ \/ /\ ~dropped[t] /\ channel[t] = {}
          /\ channel' = [channel EXCEPT ![t] = {value[t]}]
          /\ Goto(t, "sleep")
       \/ dropped[t] /\ Goto(t, "done") /\ UNCHANGED channel
    /\ UNCHANGED <<trying, spent, value, handle, dropped, filevars, served, crashes>>

\* After the update interval the task polls again or ends.
Wake(t) ==
    /\ pc[t] = "sleep"
    /\ IF dropped[t] THEN Goto(t, "done") /\ UNCHANGED <<trying, spent>>
                     ELSE BeginFetch(t, "fetch")
    /\ UNCHANGED <<first, value, previous, uservars, filevars, served, crashes>>

\* The task of into_auto_updated_handle stores what the stream yields.
HandleStores(t) ==
    /\ channel[t] # {}
    /\ \E v \in channel[t] : handle' = [handle EXCEPT ![t] = v]
    /\ channel' = [channel EXCEPT ![t] = {}]
    /\ UNCHANGED <<pc, first, trying, spent, value, previous, dropped, filevars, served, crashes>>

UserDrops(t) ==
    /\ ~dropped[t] /\ ~first[t]
    /\ dropped' = [dropped EXCEPT ![t] = TRUE]
    /\ channel' = [channel EXCEPT ![t] = {}]
    /\ UNCHANGED <<pc, first, trying, spent, value, previous, handle, filevars, served, crashes>>

-----------------------------------------------------------------------------
(* The world *)

\* A server gets the next version; the others may lag one behind.
ServerChanges(u) ==
    /\ served[u] < MaxVersion
    /\ \A w \in Urls : served[u] <= served[w]
    /\ served' = [served EXCEPT ![u] = @ + 1]
    /\ UNCHANGED <<pc, first, trying, spent, value, previous, uservars, filevars, crashes>>

Tick(t) ==
    /\ pc[t] \in {"fetch", "refetch"} /\ spent[t] < Limit(t)
    /\ spent' = [spent EXCEPT ![t] = @ + 1]
    /\ UNCHANGED <<pc, first, trying, value, previous, uservars, filevars, served, crashes>>

\* The machine goes down and comes back: what was not synced may be anything,
\* and the tasks start from the beginning.
Crash ==
    /\ crashes < MaxCrashes /\ crashes' = crashes + 1
    /\ content' = [i \in Inodes |-> IF i \in synced THEN content[i] ELSE Torn]
    /\ pc' = [t \in Tasks |-> "fetch"] /\ first' = Fresh
    /\ trying' = [t \in Tasks |-> Urls] /\ spent' = [t \in Tasks |-> 0]
    /\ value' = [t \in Tasks |-> 0] /\ previous' = [t \in Tasks |-> 0]
    /\ channel' = [t \in Tasks |-> {}] /\ handle' = [t \in Tasks |-> 0]
    /\ fd' = [t \in Tasks |-> NoInode] /\ dropped' = [t \in Tasks |-> FALSE]
    /\ UNCHANGED <<synced, tmp, path, saved, served>>

Save(t) == FileCreate(t) \/ FileWrite(t) \/ FileSync(t) \/ FileReplace(t)

HttpNext ==
    \/ \E t \in Tasks :
          \/ \E u \in Urls : FetchSucceeds(t, u) \/ \E f \in Failures : RequestFails(t, u, f)
          \/ FetchFails(t) \/ LoadFile(t) \/ Save(t) \/ SaveFails(t)
          \/ Send(t) \/ Wake(t) \/ HandleStores(t) \/ UserDrops(t) \/ Tick(t)
    \/ \E u \in Urls : ServerChanges(u)
    \/ Crash

HttpSpec == HttpInit /\ [][HttpNext]_httpvars

\* Tasks run, time passes, every server catches up, each fetch ends and the
\* poll of a stream succeeds with every url again and again.
HttpFairness ==
    /\ \A u \in Urls : WF_httpvars(ServerChanges(u))
    /\ \A t \in Tasks :
          /\ WF_httpvars(FetchFails(t)) /\ WF_httpvars(LoadFile(t)) /\ WF_httpvars(Save(t))
          /\ WF_httpvars(Send(t)) /\ WF_httpvars(Wake(t)) /\ WF_httpvars(HandleStores(t)) /\ WF_httpvars(Tick(t))
          /\ \A u \in Urls : SF_httpvars(FetchSucceeds(t, u))

HttpFairSpec == HttpSpec /\ HttpFairness

-----------------------------------------------------------------------------
(* Properties *)

HttpTypeOK ==
    /\ pc \in [Tasks -> {"fetch", "create", "write", "sync", "replace", "load", "refetch", "send",
                         "sleep", "done", "failed"}]
    /\ first \in [Tasks -> BOOLEAN] /\ dropped \in [Tasks -> BOOLEAN]
    /\ trying \in [Tasks -> SUBSET Urls] /\ spent \in [Tasks -> 0..DefaultTicks]
    /\ value \in [Tasks -> 0..MaxVersion] /\ previous \in [Tasks -> 0..MaxVersion]
    /\ handle \in [Tasks -> 0..MaxVersion]
    /\ channel \in [Tasks -> {{}} \cup {{v} : v \in 1..MaxVersion}]
    /\ fd \in [Tasks -> Inodes \cup {NoInode}]
    /\ tmp \in Inodes \cup {NoInode} /\ path \in Inodes \cup {NoInode}
    /\ content \in [Inodes -> Empty..Torn] /\ synced \in SUBSET Inodes
    /\ saved \in 0..MaxVersion /\ served \in [Urls -> 1..MaxVersion]

\* The cache file, once there is one, always holds the version saved last, whole:
\* between any two steps of atomic_save_file, through its failures and through
\* a crash at any point (one task per cache file).
CacheWhole == path # NoInode => content[path] = saved

\* The user's handle comes to hold the newest data, although urls that lag are
\* as likely to answer a poll as the others, and values are sent only on change.
HandleConverges ==
    \A t \in Tasks : <>[](dropped[t] \/ pc[t] = "failed" \/ handle[t] = MaxVersion)

\* The polling task of a dropped stream ends, whatever it was doing: it does not
\* poll and save for a user who is gone (keep_stream_updated), or it is gone with
\* its process.
DroppedStreamEnds == \A t \in Tasks : dropped[t] ~> (pc[t] = "done" \/ ~dropped[t])

\* A polling task serves its user to the end: the handle comes to hold the newest
\* data, and the task ends once its stream is dropped (keep_stream_updated).
StreamServes == HandleConverges /\ DroppedStreamEnds
=============================================================================
