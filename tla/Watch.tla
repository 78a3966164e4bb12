------------------------------- MODULE Watch -------------------------------
(***************************************************************************)
(* One node's watches: src/src/watch/mod.rs (WatchHub), the stream tasks   *)
(* of src/src/api/watch_service.rs, and the writers that notify the hub:   *)
(* KvService, process_apply_channel, process_lease_expiries, lease_revoke.  *)
(*                                                                         *)
(* The two maps of the hub have no common lock: each access to one of them *)
(* is a step of its own, and streams, writers and forwarding tasks         *)
(* interleave.  notify collects what to send in one step and then sends    *)
(* to one watcher per step, in any order.  A range of keys is a set of     *)
(* keys.  The store is its revision counter and the mod_revision of each   *)
(* key; a write to it is one step (MvccStore.tla looks inside).  Back      *)
(* pressure of the gRPC stream only delays forwarding, and forwarding may  *)
(* be late anyway.                                                         *)
(*                                                                         *)
(* The definitions whose name ends in Broken are plausible errors in the   *)
(* definition after them; no action uses them.                             *)
(***************************************************************************)
EXTENDS Integers, Sequences, FiniteSets

CONSTANTS
  Stream, Writer, Key,
  KeyRange,         \* the ranges clients watch and delete: sets of keys
  Filter,           \* the filters clients ask for: sets of kinds left out
  Requested,        \* the start revisions clients ask for, 0 for none
  Capacity,         \* of a watch's channel (256 in the code)
  MaxWatches,       \* bound: watches created
  MaxRevision,      \* bound: revisions handed out
  None

ASSUME WatchAssumption ==
  /\ KeyRange \subseteq SUBSET Key
  /\ Filter \subseteq SUBSET {"put", "delete"}
  /\ Requested \subseteq 0..MaxRevision
  /\ Capacity \in Nat \ {0} /\ MaxWatches \in Nat /\ MaxRevision \in Nat \ {0}

\* None is a value of its own.
ASSUME NoneAssumption ==
  /\ None \notin Stream
  /\ None \notin [1..MaxWatches -> Nat]
  /\ \A wr \in [range : KeyRange, start : 1..(MaxRevision + 1),
                 filters : SUBSET {"put", "delete"}] : wr # None

VARIABLES
  current_revision,
  mod,              \* mod_revision of each key in the store, 0 when it has none
  watchers,         \* WatchHub.watchers
  key_watchers,     \* WatchHub.key_watchers: how often the Vec of each range
                    \* holds each id, None where the map has no entry
  next_watch_id,
  stream,           \* the stream tasks: program counter, locals, active_watches
  gone,             \* the streams whose client no longer takes responses
  writer,           \* the writing tasks
  chan,             \* the mpsc channel of each watch
  forward,          \* the forwarding task of each watch
  out,              \* what each gRPC stream has been sent, answers to cancel and
                    \* progress requests left out
  changes,          \* history: what each revision changed
  acked,            \* history: the revision at which each watch was acknowledged
  dropped           \* history: the changes refused by a full or closed channel

hubVars == <<watchers, key_watchers, next_watch_id>>
histVars == <<changes, acked, dropped>>
vars == <<current_revision, mod, hubVars, stream, gone, writer, chan, forward, out,
          histVars>>

WatchId == 1..MaxWatches
Revision == 0..MaxRevision
Kind == {"put", "delete"}

\* rev is the revision of the change, mod the mod_revision the event carries.
\* A batch is a Vec of events, in no order: the set of its elements, where copy
\* numbers those that are equal.
Event == [kind : Kind, key : Key, rev : Revision, mod : Revision, copy : Nat \ {0}]
Batch == SUBSET Event

Watcher == [range : KeyRange, start : 1..(MaxRevision + 1), filters : SUBSET Kind]

Idle == [pc |-> "idle", watch |-> None, id |-> 0, active |-> {}, closing |-> FALSE]

\* The record of a stream whose task waits for a request, or goes on closing.
Waiting(task, active) ==
  [Idle EXCEPT !.pc = IF task.closing THEN "cancel" ELSE "idle",
               !.closing = task.closing, !.active = active]

\* An empty Vec of ids.
NoIds == [id \in WatchId |-> 0]

NoForward == [pc |-> "none", to |-> None, held |-> {}, aborted |-> FALSE]
NoWrite == [pc |-> "idle", events |-> {}, notify |-> [id \in WatchId |-> {}]]

TypeOK ==
  /\ current_revision \in Revision
  /\ mod \in [Key -> Revision]
  /\ watchers \in [WatchId -> Watcher \cup {None}]
  /\ key_watchers \in [KeyRange -> [WatchId -> Nat] \cup {None}]
  /\ next_watch_id \in 1..(MaxWatches + 1)
  /\ \A s \in Stream :
       /\ stream[s].pc \in {"idle", "insert", "index", "ack", "cancel", "unlist",
                            "prune", "abort", "ended", "broken"}
       /\ stream[s].watch \in Watcher \cup {None}
       /\ stream[s].id \in 0..MaxWatches
       /\ stream[s].active \subseteq WatchId
  /\ gone \subseteq Stream
  /\ \A w \in Writer :
       /\ writer[w].pc \in {"idle", "collect", "send"}
       /\ writer[w].events \in Batch
       /\ writer[w].notify \in [WatchId -> Batch]
  /\ \A id \in WatchId :
       /\ chan[id] \in Seq(Batch) /\ Len(chan[id]) <= Capacity
       /\ forward[id].pc \in {"none", "waiting", "holding", "dead"}
       /\ forward[id].held \in Batch
  /\ \A s \in Stream : \A n \in DOMAIN out[s] :
       out[s][n].id \in WatchId /\ out[s][n].events \in Batch

Init ==
  /\ current_revision = 1
  /\ mod = [k \in Key |-> 0]
  /\ watchers = [id \in WatchId |-> None]
  /\ key_watchers = [r \in KeyRange |-> None]
  /\ next_watch_id = 1
  /\ stream = [s \in Stream |-> Idle]
  /\ gone = {}
  /\ writer = [w \in Writer |-> NoWrite]
  /\ chan = [id \in WatchId |-> <<>>]
  /\ forward = [id \in WatchId |-> NoForward]
  /\ out = [s \in Stream |-> <<>>]
  /\ changes = {}
  /\ acked = [id \in WatchId |-> None]
  /\ dropped = [id \in WatchId |-> {}]

-----------------------------------------------------------------------------
(***************************************************************************)
(* Writers: a write to the store, then WatchHub::notify.                   *)
(***************************************************************************)

\* A write to the store and the events its caller builds from the result.
Writes(w, newMod, events) ==
  /\ writer[w].pc = "idle"
  /\ current_revision < MaxRevision
  /\ current_revision' = current_revision + 1
  /\ mod' = newMod
  /\ changes' = changes \cup events
  /\ writer' = [writer EXCEPT ![w] =
                  IF events = {} THEN @ ELSE [@ EXCEPT !.pc = "collect", !.events = events]]
  /\ UNCHANGED <<hubVars, stream, gone, chan, forward, out, acked, dropped>>

Put(w, k) ==
  LET r == current_revision + 1
  IN Writes(w, [mod EXCEPT ![k] = r],
            {[kind |-> "put", key |-> k, rev |-> r, mod |-> r, copy |-> 1]})

Deleted(ks) == {k \in ks : mod[k] # 0}

WithoutKeys(ks) == [k \in Key |-> IF k \in ks THEN 0 ELSE mod[k]]

\* KvService's delete_range and txn report the key values as they were, with
\* the mod_revision of the last put.
KvDelete(w, ks) ==
  Writes(w, WithoutKeys(ks),
         {[kind |-> "delete", key |-> k, rev |-> current_revision + 1,
           mod |-> mod[k], copy |-> 1] : k \in Deleted(ks)})

\* process_apply_channel, process_lease_expiries and lease_revoke report the
\* revision of the deletion (the latter two for one key after the other).
BackgroundDelete(w, ks) ==
  Writes(w, WithoutKeys(ks),
         {[kind |-> "delete", key |-> k, rev |-> current_revision + 1,
           mod |-> current_revision + 1, copy |-> 1] : k \in Deleted(ks)})

\* The event passes the watcher's range, filters and start_revision.
WantsBroken(wr, e) == e.key \in wr.range /\ e.mod > wr.start
Wants(wr, e) ==
  e.key \in wr.range /\ e.kind \notin wr.filters /\ e.mod >= wr.start

\* Where key_watchers holds the id: under which ranges, and how often.
Listings(id) ==
  UNION {{r} \X (1..key_watchers[r][id]) : r \in {q \in KeyRange : key_watchers[q] # None}}

\* What notify collects for a watcher: an event it wants is pushed once for
\* every time it meets the id.
Collected(id, events) ==
  {[e EXCEPT !.copy = n] : e \in {x \in events : Wants(watchers[id], x)},
                           n \in 1..Cardinality(Listings(id))}

\* The writer after it has nothing but the batches of notify left to send.
Sending(events, notify) ==
  IF \A id \in WatchId : notify[id] = {} THEN NoWrite
  ELSE [pc |-> "send", events |-> events, notify |-> notify]

Collect(w) ==
  /\ writer[w].pc = "collect"
  /\ writer' = [writer EXCEPT ![w] = Sending(@.events,
       [id \in WatchId |->
          IF watchers[id] # None THEN Collected(id, @.events) ELSE {}])]
  /\ UNCHANGED <<current_revision, mod, hubVars, stream, gone, chan, forward, out, histVars>>

HasRoomBroken(id) == Len(chan[id]) <= Capacity
HasRoom(id) == Len(chan[id]) < Capacity

\* try_send, while the watcher is registered: a full channel, or one whose
\* receiver is gone, refuses the batch.
Send(w, id) ==
  LET batch == writer[w].notify[id]
      accepts == forward[id].pc # "dead" /\ HasRoom(id)
  IN /\ writer[w].pc = "send" /\ batch # {}
     /\ writer' = [writer EXCEPT ![w] = Sending(@.events, [@.notify EXCEPT ![id] = {}])]
     /\ \/ /\ watchers[id] # None /\ accepts
           /\ chan' = [chan EXCEPT ![id] = Append(@, batch)]
           /\ UNCHANGED dropped
        \/ /\ watchers[id] # None /\ ~accepts
           /\ dropped' = [dropped EXCEPT ![id] = @ \cup batch]
           /\ UNCHANGED chan
        \/ watchers[id] = None /\ UNCHANGED <<chan, dropped>>
     /\ UNCHANGED <<current_revision, mod, hubVars, stream, gone, forward, out, changes, acked>>

-----------------------------------------------------------------------------
(***************************************************************************)
(* Creating a watch.                                                       *)
(***************************************************************************)

\* requested is 0 when the client names no revision.
StartRevision(requested) == IF requested > 0 THEN requested ELSE current_revision + 1

CreateRequest(s, range, filters, requested) ==
  /\ stream[s].pc = "idle"
  /\ next_watch_id <= MaxWatches
  /\ stream' = [stream EXCEPT ![s].pc = "insert",
       ![s].watch = [range |-> range, start |-> StartRevision(requested), filters |-> filters]]
  /\ UNCHANGED <<current_revision, mod, hubVars, gone, writer, chan, forward, out, histVars>>

\* fetch_add
FollowingIdBroken == next_watch_id
FollowingId == next_watch_id + 1

\* create_watch: the watcher first, then its entry under the range.
CreateInsert(s) ==
  /\ stream[s].pc = "insert"
  /\ next_watch_id <= MaxWatches
  /\ next_watch_id' = FollowingId
  /\ watchers' = [watchers EXCEPT ![next_watch_id] = stream[s].watch]
  /\ stream' = [stream EXCEPT ![s].pc = "index", ![s].id = next_watch_id]
  /\ UNCHANGED <<current_revision, mod, key_watchers, gone, writer, chan, forward, out, histVars>>

\* or_insert_with(Vec::new).push
Pushed(ids, id) == IF ids = None THEN [NoIds EXCEPT ![id] = 1] ELSE [ids EXCEPT ![id] = @ + 1]

CreateIndex(s) ==
  /\ stream[s].pc = "index"
  /\ key_watchers' = [key_watchers EXCEPT ![stream[s].watch.range] = Pushed(@, stream[s].id)]
  /\ stream' = [stream EXCEPT ![s].pc = "ack"]
  /\ UNCHANGED <<current_revision, mod, watchers, next_watch_id, gone, writer, chan, forward,
                 out, histVars>>

\* The acknowledgement, the forwarding task, and its entry in active_watches.
AcknowledgedBroken(sent, id) == sent
Acknowledged(sent, id) == Append(sent, [kind |-> "created", id |-> id, events |-> {}])

ActivatedBroken(active, id) == active
Activated(active, id) == active \cup {id}

CreateAck(s) ==
  LET id == stream[s].id
  IN /\ stream[s].pc = "ack"
     /\ s \notin gone
     /\ out' = [out EXCEPT ![s] = Acknowledged(@, id)]
     /\ forward' = [forward EXCEPT ![id] = [NoForward EXCEPT !.pc = "waiting", !.to = s]]
     /\ acked' = [acked EXCEPT ![id] = current_revision]
     /\ stream' = [stream EXCEPT ![s] = Waiting(@, Activated(@.active, id))]
     /\ UNCHANGED <<current_revision, mod, hubVars, gone, writer, chan, changes, dropped>>

\* The client is gone and cannot be sent the acknowledgement: the task breaks
\* out of its loop.  The receiver of the new watch is dropped; the watches it
\* had stay in the hub, and their forwarding tasks run on.
CreateAckFails(s) ==
  /\ stream[s].pc = "ack"
  /\ s \in gone
  /\ forward' = [forward EXCEPT ![stream[s].id].pc = "dead"]
  /\ stream' = [stream EXCEPT ![s].pc = "broken"]
  /\ UNCHANGED <<current_revision, mod, hubVars, gone, writer, chan, out, histVars>>

\* The receiver of the response stream is dropped.  The task notices when it
\* next sends, or when message() says that the request stream has ended too.
ClientGone(s) ==
  /\ s \notin gone
  /\ stream[s].pc \notin {"ended", "broken"}
  /\ gone' = gone \cup {s}
  /\ UNCHANGED <<current_revision, mod, hubVars, stream, writer, chan, forward, out,
                 histVars>>

-----------------------------------------------------------------------------
(***************************************************************************)
(* Canceling watches: one by one on request, or all when the stream ends.  *)
(***************************************************************************)

\* cancel_watch takes the watcher out of its map, if it is there.
RemoveWatcher(s, id) ==
  /\ watchers' = [watchers EXCEPT ![id] = None]
  /\ stream' = [stream EXCEPT
       ![s].pc = IF watchers[id] = None THEN "abort" ELSE "unlist",
       ![s].id = id, ![s].watch = watchers[id]]
  /\ UNCHANGED <<current_revision, mod, key_watchers, next_watch_id, gone, writer, chan,
                 forward, out, histVars>>

\* A cancel request names any watch; the hub does not ask whose it is.
CancelRequest(s, id) ==
  /\ stream[s].pc = "idle"
  /\ id < next_watch_id
  /\ RemoveWatcher(s, id)

\* The stream ends, in order or with an error.
Close(s) ==
  /\ stream[s].pc = "idle"
  /\ stream' = [stream EXCEPT ![s].pc = "cancel", ![s].closing = TRUE]
  /\ UNCHANGED <<current_revision, mod, hubVars, gone, writer, chan, forward, out, histVars>>

CloseNext(s, id) ==
  /\ stream[s].pc = "cancel"
  /\ id \in stream[s].active
  /\ RemoveWatcher(s, id)

CloseDone(s) ==
  /\ stream[s].pc = "cancel"
  /\ stream[s].active = {}
  /\ stream' = [stream EXCEPT ![s].pc = "ended"]
  /\ UNCHANGED <<current_revision, mod, hubVars, gone, writer, chan, forward, out, histVars>>

\* What cancel_watch leaves of the list of a range, if there is one.
Unlisted(ids, id) == IF ids = None THEN None ELSE [ids EXCEPT ![id] = 0]

\* cancel_watch takes the id out of its range's list and, when that leaves the
\* list empty, lets go of the entry before it removes it.
CancelUnlist(s) ==
  LET range == stream[s].watch.range
      rest == Unlisted(key_watchers[range], stream[s].id)
  IN /\ stream[s].pc = "unlist"
     /\ key_watchers' = [key_watchers EXCEPT ![range] = rest]
     /\ stream' = [stream EXCEPT ![s].pc = IF rest = NoIds THEN "prune" ELSE "abort"]
     /\ UNCHANGED <<current_revision, mod, watchers, next_watch_id, gone, writer, chan,
                    forward, out, histVars>>

CancelPrune(s) ==
  /\ stream[s].pc = "prune"
  /\ key_watchers' = [key_watchers EXCEPT ![stream[s].watch.range] = None]
  /\ stream' = [stream EXCEPT ![s].pc = "abort"]
  /\ UNCHANGED <<current_revision, mod, watchers, next_watch_id, gone, writer, chan, forward,
                 out, histVars>>

\* abort stops a forwarding task where it awaits; one that is running goes on
\* until it does.
Aborted(f) == IF f.pc = "waiting" THEN [f EXCEPT !.pc = "dead"] ELSE [f EXCEPT !.aborted = TRUE]

\* Abort the forwarding task if it is the stream's own; go on closing, or
\* answer the request.
CancelAbort(s) ==
  LET id == stream[s].id
  IN /\ stream[s].pc = "abort"
     /\ forward' = IF id \in stream[s].active
                   THEN [forward EXCEPT ![id] = Aborted(@)] ELSE forward
     /\ stream' = [stream EXCEPT ![s] = Waiting(@, @.active \ {id})]
     /\ UNCHANGED <<current_revision, mod, hubVars, gone, writer, chan, out, histVars>>

-----------------------------------------------------------------------------
(***************************************************************************)
(* The forwarding task of a watch.                                         *)
(***************************************************************************)

ForwardTake(id) ==
  /\ forward[id].pc = "waiting"
  /\ chan[id] # <<>>
  /\ forward' = [forward EXCEPT ![id].pc = "holding", ![id].held = Head(chan[id])]
  /\ chan' = [chan EXCEPT ![id] = Tail(@)]
  /\ UNCHANGED <<current_revision, mod, hubVars, stream, gone, writer, out, histVars>>

Events(id, batch) == [kind |-> "events", id |-> id, events |-> batch]

\* The task ends when the client is gone.
ForwardSend(id) ==
  LET s == forward[id].to
  IN /\ forward[id].pc = "holding"
     /\ \/ /\ s \notin gone
           /\ out' = [out EXCEPT ![s] =
                Append(@, Events(id, forward[id].held))]
           /\ forward' = [forward EXCEPT ![id] = [@ EXCEPT !.pc = "waiting", !.held = {}]]
        \/ /\ s \in gone
           /\ forward' = [forward EXCEPT ![id].pc = "dead"]
           /\ UNCHANGED out
     /\ UNCHANGED <<current_revision, mod, hubVars, stream, gone, writer, chan, histVars>>

ForwardStops(id) ==
  /\ forward[id].aborted /\ forward[id].pc # "dead"
  /\ forward' = [forward EXCEPT ![id].pc = "dead"]
  /\ UNCHANGED <<current_revision, mod, hubVars, stream, gone, writer, chan, out, histVars>>

-----------------------------------------------------------------------------
WriterNext(w) ==
  \/ \E k \in Key : Put(w, k)
  \/ \E ks \in KeyRange : KvDelete(w, ks)
  \/ \E ks \in KeyRange : BackgroundDelete(w, ks)
  \/ Collect(w)
  \/ \E id \in WatchId : Send(w, id)

StreamNext(s) ==
  \/ \E range \in KeyRange, filters \in Filter, requested \in Requested :
       CreateRequest(s, range, filters, requested)
  \/ CreateInsert(s) \/ CreateIndex(s) \/ CreateAck(s) \/ CreateAckFails(s)
  \/ ClientGone(s)
  \/ \E id \in WatchId : CancelRequest(s, id)
  \/ Close(s)
  \/ \E id \in WatchId : CloseNext(s, id)
  \/ CloseDone(s) \/ CancelUnlist(s) \/ CancelPrune(s) \/ CancelAbort(s)

ForwardNext(id) == ForwardTake(id) \/ ForwardSend(id) \/ ForwardStops(id)

Next ==
  \/ \E w \in Writer : WriterNext(w)
  \/ \E s \in Stream : StreamNext(s)
  \/ \E id \in WatchId : ForwardNext(id)

Spec == Init /\ [][Next]_vars

-----------------------------------------------------------------------------
\* The batches of a watch, in the order its client gets them: sent, held by
\* the forwarding task, queued.
Trail(id) ==
  LET sent == IF forward[id].to = None THEN <<>> ELSE out[forward[id].to]
      queued == [n \in DOMAIN chan[id] |-> Events(id, chan[id][n])]
      line == Append(sent, Events(id, forward[id].held)) \o queued
  IN [n \in {m \in DOMAIN line : line[m].id = id /\ line[m].kind = "events"} |->
        line[n].events]

Seen(id) == UNION {Trail(id)[n] : n \in DOMAIN Trail(id)}

\* The change e was written after watch id was acknowledged, the watch is
\* registered, and the writer of e has finished notifying.
Owed(id, e) ==
  /\ watchers[id] # None /\ acked[id] # None
  /\ e.rev > acked[id]
  /\ e.key \in watchers[id].range /\ e.kind \notin watchers[id].filters
  /\ \A w \in Writer : e \notin writer[w].events

\* d and e report the same change.
SameChange(d, e) == d = [e EXCEPT !.copy = d.copy]

\* No change reaches a watch twice, in one batch or in two: notify pushes an
\* event for every id it meets in every list, but an id is handed out once and
\* stands in one list only, however writers, creation and cancellation
\* interleave.
EventsOnce ==
  \A id \in WatchId : \A m, n \in DOMAIN Trail(id) :
    \A d \in Trail(id)[m], e \in Trail(id)[n] : SameChange(d, e) => m = n /\ d = e

\* On a stream the events of a watch follow its acknowledgement: what notify
\* queues between create_watch and the acknowledgement waits in the channel.
CreatedFirst ==
  \A s \in Stream : \A n \in DOMAIN out[s] :
    out[s][n].kind = "events" =>
      \E m \in 1..(n - 1) : out[s][m].kind = "created" /\ out[s][m].id = out[s][n].id

\* notify finds every watcher that create_watch has finished registering:
\* cancelling others of the same range does not hide it.
Reachable ==
  \A id \in WatchId :
    watchers[id] # None /\ (\A s \in Stream : stream[s].pc = "index" => stream[s].id # id)
      => Listings(id) # {}

\* A change made after a watch was acknowledged, whose event carries a
\* mod_revision not below the watch's start_revision, is on its way to the
\* client unless its channel was full (notify: "Non-blocking send; if channel
\* is full, log warning") or closed because the client was gone.
NoSilentLoss ==
  \A id \in WatchId : \A e \in changes :
    Owed(id, e) /\ e.mod >= watchers[id].start => e \in Seen(id) \cup dropped[id]

\* Once a stream has ended none of its watches is left in the hub
\* (watch_service.rs: "Client closed the stream - cancel all active watches").
ClosedReleased ==
  \A id \in WatchId :
    forward[id].to # None /\ stream[forward[id].to].pc = "ended" => watchers[id] = None

\* A client hears of every change of its keys after the acknowledgement, puts
\* and deletions (docs/test-report.md: "PUT and DELETE events with prev_kv").
EveryChangeSeen ==
  \A id \in WatchId : \A e \in changes :
    Owed(id, e) /\ e.rev >= watchers[id].start => e \in Seen(id) \cup dropped[id]

\* Changes reach a watch in the order of their revisions.
InOrder ==
  \A id \in WatchId : \A m, n \in DOMAIN Trail(id) :
    m < n => \A d \in Trail(id)[m], e \in Trail(id)[n] : d.rev < e.rev

\* A watch created with a start revision in the past is sent the changes since
\* (docs/architecture.md: "For catchup (start_revision < current), events are
\* read from `kv_rev` tree").
CaughtUp ==
  \A id \in WatchId : \A e \in changes :
    watchers[id] # None /\ acked[id] # None /\ e.rev \in watchers[id].start..acked[id]
    /\ e.key \in watchers[id].range /\ e.kind \notin watchers[id].filters
    /\ (\A w \in Writer : writer[w].pc = "idle")
      => e \in Seen(id) \cup dropped[id]

\* No watch outlives its client (the same comment as ClosedReleased).
GoneReleased ==
  \A id \in WatchId :
    forward[id].to # None /\ stream[forward[id].to].pc = "broken" => watchers[id] = None
=============================================================================
