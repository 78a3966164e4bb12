----------------------------- MODULE WatchProof -----------------------------
(***************************************************************************)
(* Proofs about the watches of a node, for any number of streams, writers, *)
(* watches, keys and revisions and any capacity: types, the order of the   *)
(* acknowledgement and the events, no event twice, what a stream leaves    *)
(* behind, and what it takes for no change to be lost silently.            *)
(***************************************************************************)
EXTENDS Watch, FiniteSetTheorems, TLAPS

\* The batches there really are: no event is in one twice.
Batches == SUBSET {e \in Event : e.copy = 1}

StreamTask ==
  [pc : {"idle", "insert", "index", "ack", "cancel", "unlist", "prune", "abort", "ended",
         "broken"},
   watch : Watcher \cup {None}, id : 0..MaxWatches, active : SUBSET WatchId,
   closing : BOOLEAN]

WriterTask ==
  [pc : {"idle", "collect", "send"}, events : Batches, notify : [WatchId -> Batches]]

ForwardTask ==
  [pc : {"none", "waiting", "holding", "dead"}, to : Stream \cup {None}, held : Batches,
   aborted : BOOLEAN]

Message == [kind : {"created", "events"}, id : WatchId, events : Batches]

TypeInv ==
  /\ current_revision \in Revision
  /\ mod \in [Key -> Revision]
  /\ watchers \in [WatchId -> Watcher \cup {None}]
  /\ key_watchers \in [KeyRange -> [WatchId -> Nat] \cup {None}]
  /\ next_watch_id \in 1..(MaxWatches + 1)
  /\ stream \in [Stream -> StreamTask]
  /\ gone \subseteq Stream
  /\ writer \in [Writer -> WriterTask]
  /\ chan \in [WatchId -> Seq(Batches)]
  /\ \A id \in WatchId : Len(chan[id]) <= Capacity
  /\ forward \in [WatchId -> ForwardTask]
  /\ out \in [Stream -> Seq(Message)]
  /\ changes \in Batches
  /\ acked \in [WatchId -> Revision \cup {None}]
  /\ dropped \in [WatchId -> Batches]

\* A stream is between create_watch and the acknowledgement of its watch.
Creating(s) == stream[s].pc \in {"index", "ack"}

\* cancel_watch has taken the watcher of the stream's local id out of its map.
Canceling(s) == stream[s].pc \in {"unlist", "prune", "abort"}

\* What the locals of a stream say of the hub.
Locals(s) ==
  /\ stream[s].pc \in {"insert", "index", "unlist", "prune"} => stream[s].watch \in Watcher
  /\ Creating(s) \/ Canceling(s) =>
       stream[s].id \in WatchId /\ stream[s].id < next_watch_id
  /\ Creating(s) => forward[stream[s].id] = NoForward /\ acked[stream[s].id] = None
  /\ stream[s].pc = "index" => watchers[stream[s].id] \in {None, stream[s].watch}
  /\ Canceling(s) => watchers[stream[s].id] = None
  /\ \A id \in stream[s].active : forward[id].to = s

\* No two streams create a watch of the same id.
Apart ==
  \A s, t \in Stream : s # t /\ Creating(s) /\ Creating(t) => stream[s].id # stream[t].id

\* Nothing is known of an id that is not handed out yet.
Unused ==
  \A id \in WatchId :
    id >= next_watch_id =>
      watchers[id] = None /\ forward[id] = NoForward /\ acked[id] = None

\* An id stands in at most one list, and there once; before create_watch lists
\* it, it stands in none.
ListsInv ==
  /\ \A id \in WatchId : \A a, b \in Listings(id) : a = b
  /\ \A id \in WatchId : id >= next_watch_id => Listings(id) = {}
  /\ \A s \in Stream : stream[s].pc = "index" => Listings(stream[s].id) = {}

IdInv == (\A s \in Stream : Locals(s)) /\ Apart /\ Unused

\* Stream s has been sent the acknowledgement of watch id.
Acks(id, s) == \E m \in DOMAIN out[s] : out[s][m].kind = "created" /\ out[s][m].id = id

\* What a forwarding task knows of its stream.
ForwardOK(id) ==
  /\ forward[id].pc \in {"waiting", "holding"} => forward[id].to # None
  /\ forward[id].pc = "waiting" => forward[id].held = {}
  /\ forward[id].to # None => Acks(id, forward[id].to)

ForwardInv == \A id \in WatchId : ForwardOK(id)

\* A watch that a stream no longer counts as active is out of the hub.
ReleaseInv ==
  /\ \A id \in WatchId :
       forward[id].to # None =>
         id \in stream[forward[id].to].active \/ watchers[id] = None
  /\ \A s \in Stream : stream[s].pc = "ended" => stream[s].active = {}

\* The n-th message of stream s carries events of watch id.
Carries(s, n, id) == out[s][n].kind = "events" /\ out[s][n].id = id

\* What writer w has still to queue for watch id, or to find it does not want.
Due(w, id) == IF writer[w].pc = "collect" THEN writer[w].events ELSE writer[w].notify[id]

\* e has come as far as the channel of watch id.
Got(id, e) ==
  \/ e \in forward[id].held
  \/ \E i \in DOMAIN chan[id] : e \in chan[id][i]
  \/ \E s \in Stream : \E n \in DOMAIN out[s] : Carries(s, n, id) /\ e \in out[s][n].events

\* What is true of one writer.
WriterOK(w) ==
  /\ writer[w].pc \in {"idle", "collect"} => writer[w].notify = NoWrite.notify
  /\ writer[w].pc = "idle" => writer[w].events = {}
  /\ \A id \in WatchId : writer[w].notify[id] \subseteq writer[w].events
  /\ \A e \in writer[w].events : e.rev <= current_revision

\* The writers' events are their own, and in no channel before they are sent.
WriterInv ==
  /\ \A w \in Writer : WriterOK(w)
  /\ \A v, w \in Writer : v # w => writer[v].events \cap writer[w].events = {}
  /\ \A e \in changes : e.rev <= current_revision
  /\ \A id \in WatchId, e \in Event : Got(id, e) => e.rev <= current_revision
  /\ \A id \in WatchId, e \in Event, w \in Writer : Got(id, e) => e \notin Due(w, id)

\* The batches on the way of a watch have no event in common.
Once(id) ==
  /\ \A s \in Stream : \A m, n \in DOMAIN out[s] :
       m # n /\ Carries(s, m, id) /\ Carries(s, n, id) =>
         out[s][m].events \cap out[s][n].events = {}
  /\ \A s \in Stream : \A n \in DOMAIN out[s] :
       Carries(s, n, id) =>
         /\ out[s][n].events \cap forward[id].held = {}
         /\ \A i \in DOMAIN chan[id] : out[s][n].events \cap chan[id][i] = {}
  /\ \A i \in DOMAIN chan[id] : forward[id].held \cap chan[id][i] = {}
  /\ \A i, j \in DOMAIN chan[id] : i # j => chan[id][i] \cap chan[id][j] = {}

\* The events of a watch go to its own stream.
ToOwner ==
  \A s \in Stream : \A n \in DOMAIN out[s] :
    out[s][n].kind = "events" => forward[out[s][n].id].to = s

OnceInv == ToOwner /\ \A id \in WatchId : Once(id)

WatchInv ==
  /\ TypeInv /\ IdInv /\ ListsInv /\ ForwardInv /\ CreatedFirst /\ ReleaseInv
  /\ WriterInv /\ OnceInv

\* Watch id is listed under its range.
IsListed(id) ==
  key_watchers[watchers[id].range] # None /\ key_watchers[watchers[id].range][id] # 0

\* Every registered watcher is listed, unless create_watch has still to list
\* it, and a list about to be pruned is empty.
ListedInv ==
  /\ \A id \in WatchId :
       watchers[id] # None =>
         IsListed(id) \/ \E s \in Stream : stream[s].pc = "index" /\ stream[s].id = id
  /\ \A s \in Stream : stream[s].pc = "prune" => key_watchers[stream[s].watch.range] = NoIds

\* e is of the kind that watch id was created for, and later than its
\* acknowledgement.
Meant(id, e) ==
  /\ watchers[id] # None /\ acked[id] # None
  /\ e.rev > acked[id]
  /\ Wants(watchers[id], e)

\* What was meant for a watch has come to its channel, was refused by it, or
\* some writer is still at it.
LossInv ==
  \A id \in WatchId : \A e \in changes :
    Meant(id, e) =>
      Got(id, e) \/ e \in dropped[id] \/ \E w \in Writer : e \in Due(w, id)

-----------------------------------------------------------------------------
(***************************************************************************)
(* Types.                                                                  *)
(***************************************************************************)

LEMMA WatcherNotNone == ASSUME NEW wr \in Watcher PROVE wr # None
  BY NoneAssumption DEF Watcher, Kind

LEMMA IdsNotNone == ASSUME NEW ids \in [WatchId -> Nat] PROVE ids # None
  BY NoneAssumption DEF WatchId

LEMMA PushedType ==
  ASSUME NEW ids \in [WatchId -> Nat] \cup {None}, NEW id \in WatchId
  PROVE  /\ Pushed(ids, id) \in [WatchId -> Nat]
         /\ Pushed(ids, id)[id] = (IF ids = None THEN 1 ELSE ids[id] + 1)
         /\ \A i \in WatchId : i # id => Pushed(ids, id)[i] = IF ids = None THEN 0 ELSE ids[i]
  BY DEF Pushed, NoIds

LEMMA UnlistedType ==
  ASSUME NEW ids \in [WatchId -> Nat] \cup {None}, NEW id \in WatchId
  PROVE  /\ Unlisted(ids, id) \in [WatchId -> Nat] \cup {None}
         /\ ids = None => Unlisted(ids, id) = None
         /\ ids # None => /\ Unlisted(ids, id) \in [WatchId -> Nat]
                         /\ Unlisted(ids, id)[id] = 0
                         /\ \A i \in WatchId : i # id => Unlisted(ids, id)[i] = ids[i]
  BY DEF Unlisted

LEMMA IdRange == ASSUME NEW id \in WatchId PROVE id \in 0..MaxWatches
  BY WatchAssumption DEF WatchId

LEMMA TypesImply == TypeInv => TypeOK
  <1> SUFFICES ASSUME TypeInv PROVE TypeOK
    OBVIOUS
  <1>1. ASSUME NEW s \in Stream, NEW n \in DOMAIN out[s]
        PROVE  out[s][n] \in Message
    BY <1>1 DEF TypeInv
  <1>2. Batches \subseteq Batch
    BY DEF Batches, Batch
  <1>3. ASSUME NEW w \in Writer
        PROVE  /\ writer[w].pc \in {"idle", "collect", "send"}
               /\ writer[w].events \in Batch /\ writer[w].notify \in [WatchId -> Batch]
    <2>1. writer[w] \in WriterTask
      BY DEF TypeInv
    <2> QED
      BY <1>2, <2>1 DEF WriterTask
  <1>4. ASSUME NEW id \in WatchId
        PROVE  /\ chan[id] \in Seq(Batch) /\ Len(chan[id]) <= Capacity
               /\ forward[id].pc \in {"none", "waiting", "holding", "dead"}
               /\ forward[id].held \in Batch
    <2>1. chan[id] \in Seq(Batches) /\ forward[id] \in ForwardTask /\ Len(chan[id]) <= Capacity
      BY DEF TypeInv
    <2> QED
      BY <1>2, <2>1 DEF ForwardTask
  <1>5. ASSUME NEW s \in Stream, NEW n \in DOMAIN out[s]
        PROVE  out[s][n].id \in WatchId /\ out[s][n].events \in Batch
    BY <1>1, <1>2 DEF Message
  <1> QED
    BY <1>3, <1>4, <1>5 DEF TypeInv, TypeOK, StreamTask

LEMMA IdleType == Idle \in StreamTask
  BY WatchAssumption DEF Idle, StreamTask

LEMMA WaitingType ==
  ASSUME NEW task \in StreamTask, NEW active \in SUBSET WatchId
  PROVE  /\ Waiting(task, active) \in StreamTask
         /\ Waiting(task, active).pc \in {"idle", "cancel"}
         /\ Waiting(task, active).active = active
  BY IdleType DEF Waiting, StreamTask, Idle

LEMMA NoWriteType ==
  NoWrite \in WriterTask /\ \A id \in WatchId : NoWrite.notify[id] = {}
  BY DEF NoWrite, WriterTask, Batches

LEMMA NoForwardType == NoForward \in ForwardTask
  BY DEF NoForward, ForwardTask, Batches

\* The writer after notify has collected, or has sent a batch.
LEMMA SendingShape ==
  ASSUME NEW events \in Batches, NEW notify \in [WatchId -> Batches]
  PROVE  LET after == Sending(events, notify)
         IN /\ after \in WriterTask
            /\ after.pc \in {"idle", "send"}
            /\ after.notify = notify
            /\ after.events \in {{}, events}
            /\ after.pc = "idle" => after = NoWrite
            /\ after.pc = "send" => after.events = events
  <1>1. CASE \A id \in WatchId : notify[id] = {}
    <2>1. notify = [id \in WatchId |-> {}]
      BY <1>1
    <2> QED
      BY <1>1, <2>1, NoWriteType DEF Sending, NoWrite
  <1>2. CASE ~ \A id \in WatchId : notify[id] = {}
    BY <1>2 DEF Sending, WriterTask
  <1> QED
    BY <1>1, <1>2

\* What a write to the store may report.
Fresh(events) == \A e \in events : e.rev = current_revision + 1

LEMMA Writers ==
  ASSUME TypeInv, NEW w \in Writer,
         \/ \E k \in Key : Put(w, k)
         \/ \E ks \in KeyRange : KvDelete(w, ks)
         \/ \E ks \in KeyRange : BackgroundDelete(w, ks)
  PROVE  \E newMod \in [Key -> Revision], events \in Batches :
           Fresh(events) /\ Writes(w, newMod, events)
  <1> DEFINE r == current_revision + 1
  <1>1. current_revision < MaxRevision
    BY DEF Put, KvDelete, BackgroundDelete, Writes
  <1>2. r \in Revision /\ 0 \in Revision
    BY <1>1, WatchAssumption DEF TypeInv, Revision
  <1>3. ASSUME NEW k \in Key, Put(w, k)
        PROVE  \E newMod \in [Key -> Revision], events \in Batches :
                 Fresh(events) /\ Writes(w, newMod, events)
    <2> DEFINE nm == [mod EXCEPT ![k] = r]
               ev == {[kind |-> "put", key |-> k, rev |-> r, mod |-> r, copy |-> 1]}
    <2>1. nm \in [Key -> Revision]
      BY <1>2 DEF TypeInv
    <2>2. ev \in Batches
      BY <1>2 DEF Batches, Event, Kind
    <2>3. Fresh(ev)
      BY DEF Fresh
    <2>4. Writes(w, nm, ev)
      BY <1>3 DEF Put
    <2> QED
      BY <2>1, <2>2, <2>3, <2>4
  <1>4. ASSUME NEW ks \in KeyRange
        PROVE  WithoutKeys(ks) \in [Key -> Revision]
    BY <1>2 DEF WithoutKeys, TypeInv
  <1>5. ASSUME NEW ks \in KeyRange, KvDelete(w, ks)
        PROVE  \E newMod \in [Key -> Revision], events \in Batches :
                 Fresh(events) /\ Writes(w, newMod, events)
    <2> DEFINE ev == {[kind |-> "delete", key |-> k, rev |-> r, mod |-> mod[k], copy |-> 1] :
                        k \in Deleted(ks)}
    <2>1. Deleted(ks) \subseteq Key
      BY <1>5, WatchAssumption DEF Deleted
    <2>2. ev \in Batches
      <3>1. ASSUME NEW k \in Deleted(ks)
            PROVE  [kind |-> "delete", key |-> k, rev |-> r, mod |-> mod[k], copy |-> 1] \in Event
        BY <1>2, <2>1 DEF Event, Kind, TypeInv
      <3> QED
        BY <3>1 DEF Batches
    <2>3. Fresh(ev)
      BY DEF Fresh
    <2>4. Writes(w, WithoutKeys(ks), ev)
      BY <1>5 DEF KvDelete
    <2> QED
      BY <1>4, <1>5, <2>2, <2>3, <2>4
  <1>6. ASSUME NEW ks \in KeyRange, BackgroundDelete(w, ks)
        PROVE  \E newMod \in [Key -> Revision], events \in Batches :
                 Fresh(events) /\ Writes(w, newMod, events)
    <2> DEFINE ev == {[kind |-> "delete", key |-> k, rev |-> r, mod |-> r, copy |-> 1] :
                        k \in Deleted(ks)}
    <2>1. Deleted(ks) \subseteq Key
      BY <1>6, WatchAssumption DEF Deleted
    <2>2. ev \in Batches
      <3>1. ASSUME NEW k \in Deleted(ks)
            PROVE  [kind |-> "delete", key |-> k, rev |-> r, mod |-> r, copy |-> 1] \in Event
        BY <1>2, <2>1 DEF Event, Kind, TypeInv
      <3> QED
        BY <3>1 DEF Batches
    <2>3. Fresh(ev)
      BY DEF Fresh
    <2>4. Writes(w, WithoutKeys(ks), ev)
      BY <1>6 DEF BackgroundDelete
    <2> QED
      BY <1>4, <1>6, <2>2, <2>3, <2>4
  <1> QED
    BY <1>3, <1>5, <1>6

\* notify collects an event at most once for a watch.
LEMMA CollectedOnce ==
  ASSUME ListsInv, NEW id \in WatchId, NEW events \in Batches
  PROVE  /\ Collected(id, events) \subseteq events
         /\ Listings(id) # {} =>
              Collected(id, events) = {x \in events : Wants(watchers[id], x)}
  <1>1. ASSUME NEW e \in events PROVE [e EXCEPT !.copy = 1] = e
    BY DEF Batches, Event
  <1>2. CASE Listings(id) = {}
    <2>1. 1..Cardinality(Listings(id)) = {}
      BY <1>2, FS_EmptySet
    <2> QED
      BY <1>2, <2>1 DEF Collected
  <1>3. CASE Listings(id) # {}
    <2>1. PICK a : a \in Listings(id)
      BY <1>3
    <2>2. Listings(id) = {a}
      BY <2>1 DEF ListsInv
    <2>3. Cardinality(Listings(id)) = 1
      BY <2>2, FS_Singleton
    <2>4. 1..Cardinality(Listings(id)) = {1}
      BY <2>3
    <2>5. Collected(id, events) = {[e EXCEPT !.copy = 1] :
                                     e \in {x \in events : Wants(watchers[id], x)}}
      BY <2>4 DEF Collected
    <2> QED
      BY <1>1, <2>5
  <1> QED
    BY <1>2, <1>3

\* Each step keeps the types; where a stream's locals index the hub, IdInv
\* says that they are ids.
LEMMA WriterTypes ==
  ASSUME TypeInv, ListsInv, NEW w \in Writer, WriterNext(w)
  PROVE  TypeInv'
  <1> USE DEF hubVars, histVars
  <1>1. ASSUME NEW newMod \in [Key -> Revision], NEW events \in Batches,
               Writes(w, newMod, events)
        PROVE  TypeInv'
    <2>1. current_revision' \in Revision
      BY <1>1, WatchAssumption DEF Writes, TypeInv, Revision
    <2>2. changes' \in Batches
      BY <1>1 DEF Writes, TypeInv, Batches
    <2>3. writer' \in [Writer -> WriterTask]
      <3>1. [writer[w] EXCEPT !.pc = "collect", !.events = events] \in WriterTask
        BY <1>1 DEF TypeInv, WriterTask
      <3>2. writer \in [Writer -> WriterTask]
        BY DEF TypeInv
      <3> QED
        BY <1>1, <3>1, <3>2 DEF Writes
    <2> QED
      BY <1>1, <2>1, <2>2, <2>3 DEF Writes, TypeInv
  <1>2. CASE Collect(w)
    <2> DEFINE notify == [id \in WatchId |->
                 IF watchers[id] # None THEN Collected(id, writer[w].events) ELSE {}]
    <2>1. writer[w].events \in Batches
      BY DEF TypeInv, WriterTask
    <2>2. notify \in [WatchId -> Batches]
      <3>1. \A id \in WatchId : Collected(id, writer[w].events) \subseteq writer[w].events
        BY <2>1, CollectedOnce
      <3> QED
        BY <2>1, <3>1 DEF Batches
    <2>3. writer' = [writer EXCEPT ![w] = Sending(writer[w].events, notify)]
      BY <1>2 DEF Collect, TypeInv
    <2> HIDE DEF notify
    <2>4. Sending(writer[w].events, notify) \in WriterTask
      BY <2>1, <2>2, SendingShape
    <2> QED
      BY <1>2, <2>3, <2>4 DEF Collect, TypeInv
  <1>3. ASSUME NEW id \in WatchId, Send(w, id)
        PROVE  TypeInv'
    <2> DEFINE batch == writer[w].notify[id]
               notify == [writer[w].notify EXCEPT ![id] = {}]
    <2>1. writer[w].events \in Batches /\ batch \in Batches
      BY DEF TypeInv, WriterTask
    <2>2. notify \in [WatchId -> Batches]
      BY DEF TypeInv, WriterTask, Batches
    <2>3. writer' = [writer EXCEPT ![w] = Sending(writer[w].events, notify)]
      BY <1>3 DEF Send, TypeInv
    <2>4. Sending(writer[w].events, notify) \in WriterTask
      <3> HIDE DEF notify
      <3> QED
        BY <2>1, <2>2, SendingShape
    <2>5. \/ chan' = chan
          \/ chan' = [chan EXCEPT ![id] = Append(chan[id], batch)] /\ HasRoom(id)
      BY <1>3 DEF Send
    <2>6. chan' \in [WatchId -> Seq(Batches)] /\ \A i \in WatchId : Len(chan'[i]) <= Capacity
      <3>1. CASE chan' = chan
        BY <3>1 DEF TypeInv
      <3>2. CASE chan' = [chan EXCEPT ![id] = Append(chan[id], batch)] /\ HasRoom(id)
        <4>1. chan[id] \in Seq(Batches) /\ Len(chan[id]) < Capacity
          BY <3>2 DEF TypeInv, HasRoom
        <4>a. ASSUME NEW b \in Batches, NEW c \in Seq(Batches)
              PROVE  Append(c, b) \in Seq(Batches) /\ Len(Append(c, b)) = Len(c) + 1
          OBVIOUS
        <4>2. PICK q \in Seq(Batches) :
                q = Append(chan[id], batch) /\ Len(q) = Len(chan[id]) + 1
          BY <2>1, <4>1, <4>a
        <4>3. Len(q) <= Capacity
          BY <4>1, <4>2, WatchAssumption
        <4>4. chan' = [chan EXCEPT ![id] = q]
          BY <3>2, <4>2
        <4> QED
          BY <4>3, <4>4 DEF TypeInv
      <3> QED
        BY <2>5, <3>1, <3>2
    <2>7. dropped' \in [WatchId -> Batches]
      <3>1. dropped \in [WatchId -> Batches]
        BY DEF TypeInv
      <3>2. dropped[id] \cup batch \in Batches
        BY <2>1, <3>1 DEF Batches
      <3>3. dropped' = dropped \/ dropped' = [dropped EXCEPT ![id] = dropped[id] \cup batch]
        BY <1>3 DEF Send
      <3> QED
        BY <3>1, <3>2, <3>3
    <2> QED
      BY <1>3, <2>3, <2>4, <2>6, <2>7 DEF Send, TypeInv
  <1>4. ASSUME \/ \E k \in Key : Put(w, k)
               \/ \E ks \in KeyRange : KvDelete(w, ks)
               \/ \E ks \in KeyRange : BackgroundDelete(w, ks)
        PROVE  TypeInv'
    BY <1>1, <1>4, Writers
  <1> QED
    BY <1>2, <1>3, <1>4 DEF WriterNext

LEMMA StreamTypes ==
  ASSUME TypeInv, IdInv, NEW s \in Stream, StreamNext(s)
  PROVE  TypeInv'
  <1> USE DEF hubVars, histVars
  <1>0. stream[s] \in StreamTask
    BY DEF TypeInv
  <1>1. ASSUME NEW range \in KeyRange, NEW filters \in Filter, NEW requested \in Requested,
               CreateRequest(s, range, filters, requested)
        PROVE  TypeInv'
    <2>1. StartRevision(requested) \in 1..(MaxRevision + 1)
      BY WatchAssumption DEF StartRevision, TypeInv, Revision
    <2>2. PICK wr \in Watcher :
            wr = [range |-> range, start |-> StartRevision(requested), filters |-> filters]
      BY <2>1, WatchAssumption DEF Watcher, Kind
    <2>3. stream' = [stream EXCEPT ![s].pc = "insert", ![s].watch = wr]
      BY <1>1, <2>2 DEF CreateRequest
    <2>4. stream' \in [Stream -> StreamTask]
      <3>1. [stream[s] EXCEPT !.pc = "insert", !.watch = wr] \in StreamTask
        BY <1>0 DEF StreamTask
      <3> QED
        BY <2>3, <3>1 DEF TypeInv
    <2> QED
      BY <1>1, <2>4 DEF CreateRequest, TypeInv
  <1>2. CASE CreateInsert(s)
    <2>1. stream[s].watch \in Watcher
      BY <1>2 DEF CreateInsert, FollowingId, IdInv, Locals
    <2>2. next_watch_id \in WatchId /\ next_watch_id' \in 1..(MaxWatches + 1)
      BY <1>2, WatchAssumption DEF CreateInsert, FollowingId, TypeInv, WatchId
    <2>3. watchers' \in [WatchId -> Watcher \cup {None}]
      BY <1>2, <2>1, <2>2 DEF CreateInsert, FollowingId, TypeInv
    <2>4. stream' \in [Stream -> StreamTask]
      <3>1. [stream[s] EXCEPT !.pc = "index", !.id = next_watch_id] \in StreamTask
        BY <1>0, <2>2, IdRange DEF StreamTask
      <3> QED
        BY <1>2, <3>1 DEF CreateInsert, FollowingId, TypeInv
    <2> QED
      BY <1>2, <2>2, <2>3, <2>4 DEF CreateInsert, FollowingId, TypeInv
  <1>3. CASE CreateIndex(s)
    <2>1. stream[s].id \in WatchId /\ stream[s].watch \in Watcher
      BY <1>3 DEF CreateIndex, IdInv, Locals, Creating
    <2>2. stream[s].watch.range \in KeyRange
      BY <2>1 DEF Watcher
    <2>3. key_watchers' \in [KeyRange -> [WatchId -> Nat] \cup {None}]
      <3>1. Pushed(key_watchers[stream[s].watch.range], stream[s].id) \in [WatchId -> Nat]
        BY <2>1, <2>2, PushedType DEF TypeInv
      <3> QED
        BY <1>3, <2>2, <3>1 DEF CreateIndex, TypeInv
    <2>4. stream' \in [Stream -> StreamTask]
      <3>1. [stream[s] EXCEPT !.pc = "ack"] \in StreamTask
        BY <1>0 DEF StreamTask
      <3> QED
        BY <1>3, <3>1 DEF CreateIndex, TypeInv
    <2> QED
      BY <1>3, <2>3, <2>4 DEF CreateIndex, TypeInv
  <1>4. CASE CreateAck(s)
    <2>1. stream[s].id \in WatchId /\ stream[s].active \subseteq WatchId
      BY <1>0, <1>4 DEF CreateAck, IdInv, Locals, Creating, StreamTask
    <2>2. Waiting(stream[s], Activated(stream[s].active, stream[s].id)) \in StreamTask
      BY <1>0, <2>1, WaitingType DEF Activated
    <2>3. stream' \in [Stream -> StreamTask]
      BY <1>4, <2>2 DEF CreateAck, TypeInv
    <2>4. Acknowledged(out[s], stream[s].id) \in Seq(Message)
      <3>1. PICK m \in Message : m = [kind |-> "created", id |-> stream[s].id, events |-> {}]
        BY <2>1 DEF Message, Batches
      <3>2. out[s] \in Seq(Message)
        BY DEF TypeInv
      <3> QED
        BY <3>1, <3>2 DEF Acknowledged
    <2>5. out' \in [Stream -> Seq(Message)]
      BY <1>4, <2>4 DEF CreateAck, TypeInv
    <2>6. [NoForward EXCEPT !.pc = "waiting", !.to = s] \in ForwardTask
      BY NoForwardType DEF ForwardTask
    <2>7. forward' \in [WatchId -> ForwardTask]
      BY <1>4, <2>1, <2>6 DEF CreateAck, TypeInv
    <2>8. acked' \in [WatchId -> Revision \cup {None}]
      BY <1>4, <2>1 DEF CreateAck, TypeInv
    <2> QED
      BY <1>4, <2>3, <2>5, <2>7, <2>8 DEF CreateAck, TypeInv
  <1>5. CASE CreateAckFails(s)
    <2>1. stream[s].id \in WatchId
      BY <1>5 DEF CreateAckFails, IdInv, Locals, Creating
    <2>2. forward' \in [WatchId -> ForwardTask]
      <3>1. [forward[stream[s].id] EXCEPT !.pc = "dead"] \in ForwardTask
        <4>1. forward[stream[s].id] \in ForwardTask
          BY <2>1 DEF TypeInv
        <4> QED
          BY <4>1 DEF ForwardTask
      <3>2. forward' = [forward EXCEPT ![stream[s].id] =
                          [forward[stream[s].id] EXCEPT !.pc = "dead"]]
        BY <1>5 DEF CreateAckFails
      <3> QED
        BY <2>1, <3>1, <3>2 DEF TypeInv
    <2>3. stream' \in [Stream -> StreamTask]
      <3>1. [stream[s] EXCEPT !.pc = "broken"] \in StreamTask
        BY <1>0 DEF StreamTask
      <3> QED
        BY <1>5, <3>1 DEF CreateAckFails, TypeInv
    <2> QED
      BY <1>5, <2>2, <2>3 DEF CreateAckFails, TypeInv
  <1>6. CASE ClientGone(s)
    BY <1>6 DEF ClientGone, TypeInv
  <1>7. ASSUME NEW id \in WatchId, RemoveWatcher(s, id)
        PROVE  TypeInv'
    <2>1. watchers' \in [WatchId -> Watcher \cup {None}]
      BY <1>7 DEF RemoveWatcher, TypeInv
    <2>2. watchers[id] \in Watcher \cup {None}
      BY DEF TypeInv
    <2>3. stream' \in [Stream -> StreamTask]
      <3>1. ASSUME NEW pc \in {"abort", "unlist"}
            PROVE  [stream[s] EXCEPT !.pc = pc, !.id = id, !.watch = watchers[id]] \in StreamTask
        BY <1>0, <2>2, IdRange DEF StreamTask
      <3> QED
        BY <1>7, <3>1 DEF RemoveWatcher, TypeInv
    <2> QED
      BY <1>7, <2>1, <2>3 DEF RemoveWatcher, TypeInv
  <1>8. CASE Close(s) \/ CloseDone(s)
    <2>1. stream' \in [Stream -> StreamTask]
      <3>1. /\ [stream[s] EXCEPT !.pc = "cancel", !.closing = TRUE] \in StreamTask
            /\ [stream[s] EXCEPT !.pc = "ended"] \in StreamTask
        BY <1>0 DEF StreamTask
      <3>2. stream \in [Stream -> StreamTask]
        BY DEF TypeInv
      <3> QED
        BY <1>8, <3>1, <3>2 DEF Close, CloseDone
    <2> QED
      BY <1>8, <2>1 DEF Close, CloseDone, TypeInv
  <1>9. CASE CancelUnlist(s) \/ CancelPrune(s)
    <2>1. stream[s].id \in WatchId /\ stream[s].watch \in Watcher
      BY <1>9 DEF CancelUnlist, CancelPrune, IdInv, Locals, Canceling
    <2>2. stream[s].watch.range \in KeyRange
      BY <2>1 DEF Watcher
    <2>3. key_watchers' \in [KeyRange -> [WatchId -> Nat] \cup {None}]
      <3>1. Unlisted(key_watchers[stream[s].watch.range], stream[s].id)
              \in [WatchId -> Nat] \cup {None}
        BY <2>1, <2>2, UnlistedType DEF TypeInv
      <3> QED
        BY <1>9, <3>1 DEF CancelUnlist, CancelPrune, TypeInv
    <2>4. stream' \in [Stream -> StreamTask]
      <3>1. ASSUME NEW pc \in {"abort", "prune"}
            PROVE  [stream[s] EXCEPT !.pc = pc] \in StreamTask
        BY <1>0 DEF StreamTask
      <3> QED
        BY <1>9, <3>1 DEF CancelUnlist, CancelPrune, TypeInv
    <2> QED
      BY <1>9, <2>3, <2>4 DEF CancelUnlist, CancelPrune, TypeInv
  <1>10. CASE CancelAbort(s)
    <2>1. stream[s].id \in WatchId /\ stream[s].active \subseteq WatchId
      BY <1>0, <1>10 DEF CancelAbort, IdInv, Locals, Canceling, StreamTask
    <2>2. Waiting(stream[s], stream[s].active \ {stream[s].id}) \in StreamTask
      BY <1>0, <2>1, WaitingType
    <2>3. stream' \in [Stream -> StreamTask]
      BY <1>10, <2>2 DEF CancelAbort, TypeInv
    <2>4. Aborted(forward[stream[s].id]) \in ForwardTask
      <3>1. forward[stream[s].id] \in ForwardTask
        BY <2>1 DEF TypeInv
      <3> QED
        BY <3>1 DEF Aborted, ForwardTask
    <2>5. forward' \in [WatchId -> ForwardTask]
      BY <1>10, <2>1, <2>4 DEF CancelAbort, TypeInv
    <2> QED
      BY <1>10, <2>3, <2>5 DEF CancelAbort, TypeInv
  <1> QED
    BY <1>1, <1>2, <1>3, <1>4, <1>5, <1>6, <1>7, <1>8, <1>9, <1>10
       DEF StreamNext, CancelRequest, CloseNext

LEMMA ForwardTypes ==
  ASSUME TypeInv, IdInv, ForwardInv, NEW id \in WatchId, ForwardNext(id)
  PROVE  TypeInv'
  <1> USE DEF hubVars, histVars
  <1>0. forward[id] \in ForwardTask
    BY DEF TypeInv
  <1>1. CASE ForwardTake(id)
    <2>1. chan[id] \in Seq(Batches) /\ chan[id] # <<>>
      BY <1>1 DEF ForwardTake, TypeInv
    <2>2. Head(chan[id]) \in Batches /\ Tail(chan[id]) \in Seq(Batches)
          /\ Len(Tail(chan[id])) = Len(chan[id]) - 1
      BY <2>1
    <2>3. forward' \in [WatchId -> ForwardTask]
      <3>1. [forward[id] EXCEPT !.pc = "holding", !.held = Head(chan[id])] \in ForwardTask
        BY <1>0, <2>2 DEF ForwardTask
      <3> QED
        BY <1>1, <3>1 DEF ForwardTake, TypeInv
    <2>4. chan' \in [WatchId -> Seq(Batches)] /\ \A i \in WatchId : Len(chan'[i]) <= Capacity
      BY <1>1, <2>1, <2>2, WatchAssumption DEF ForwardTake, TypeInv
    <2> QED
      BY <1>1, <2>3, <2>4 DEF ForwardTake, TypeInv
  <1>2. CASE ForwardSend(id)
    <2>1. forward[id].to \in Stream /\ forward[id].held \in Batches
      BY <1>2 DEF ForwardSend, ForwardInv, ForwardOK, TypeInv, ForwardTask
    <2>2. out' \in [Stream -> Seq(Message)]
      <3>1. PICK m \in Message : m = Events(id, forward[id].held)
        BY <2>1 DEF Events, Message
      <3>2. Append(out[forward[id].to], m) \in Seq(Message)
        BY <2>1 DEF TypeInv
      <3> QED
        BY <1>2, <3>1, <3>2 DEF ForwardSend, TypeInv
    <2>3. forward' \in [WatchId -> ForwardTask]
      <3>1. /\ [forward[id] EXCEPT !.pc = "waiting", !.held = {}] \in ForwardTask
            /\ [forward[id] EXCEPT !.pc = "dead"] \in ForwardTask
        BY <1>0 DEF ForwardTask, Batches
      <3> QED
        BY <1>2, <3>1 DEF ForwardSend, TypeInv
    <2> QED
      BY <1>2, <2>2, <2>3 DEF ForwardSend, TypeInv
  <1>3. CASE ForwardStops(id)
    <2>1. forward' \in [WatchId -> ForwardTask]
      <3>1. [forward[id] EXCEPT !.pc = "dead"] \in ForwardTask
        BY <1>0 DEF ForwardTask
      <3> QED
        BY <1>3, <3>1 DEF ForwardStops, TypeInv
    <2> QED
      BY <1>3, <2>1 DEF ForwardStops, TypeInv
  <1> QED
    BY <1>1, <1>2, <1>3 DEF ForwardNext

-----------------------------------------------------------------------------
(***************************************************************************)
(* The ids.                                                                *)
(***************************************************************************)

\* A step that changes the task of one stream, and no forwarding task.
LEMMA LocalsOfOthers ==
  ASSUME IdInv, TypeInv, TypeInv', NEW s \in Stream,
         \A t \in Stream \ {s} : stream'[t] = stream[t],
         next_watch_id' \in {next_watch_id, next_watch_id + 1},
         \A id \in WatchId : id < next_watch_id => watchers'[id] \in {None, watchers[id]},
         UNCHANGED <<forward, acked>>
  PROVE  \A t \in Stream \ {s} : Locals(t)'
  <1> SUFFICES ASSUME NEW t \in Stream, t # s PROVE Locals(t)'
    OBVIOUS
  <1>1. Locals(t) /\ stream'[t] = stream[t]
    BY DEF IdInv
  <1>2. next_watch_id \in Nat /\ next_watch_id' \in Nat
    BY WatchAssumption DEF TypeInv
  <1>3. WatchId \subseteq Nat
    BY WatchAssumption DEF WatchId
  <1>4. ASSUME NEW id \in WatchId, id < next_watch_id
        PROVE  id < next_watch_id'
    <2>1. id \in Nat
      BY <1>3
    <2>2. next_watch_id' = next_watch_id \/ next_watch_id' = next_watch_id + 1
      OBVIOUS
    <2> QED
      BY <1>2, <1>4, <2>1, <2>2
  <1>5. stream[t].id \in WatchId /\ stream[t].id < next_watch_id =>
          watchers'[stream[t].id] \in {None, watchers[stream[t].id]}
    OBVIOUS
  <1> QED
    BY <1>1, <1>4, <1>5 DEF Locals, Creating, Canceling

LEMMA IdFrame ==
  ASSUME IdInv, UNCHANGED <<watchers, next_watch_id, stream, forward, acked>>
  PROVE  IdInv'
  BY DEF IdInv, Locals, Apart, Unused, Creating, Canceling

LEMMA StreamIds ==
  ASSUME IdInv, TypeInv, TypeInv', NEW s \in Stream, StreamNext(s)
  PROVE  IdInv'
  <1> USE DEF hubVars, histVars
  <1>0. /\ stream[s] \in StreamTask /\ Locals(s) /\ Apart /\ Unused
        /\ \A t \in Stream : Locals(t)
        /\ next_watch_id \in Nat /\ WatchId \subseteq Nat
    BY WatchAssumption DEF TypeInv, IdInv, WatchId
  <1>a. ASSUME \A t \in Stream \ {s} : stream'[t] = stream[t],
               UNCHANGED <<watchers, next_watch_id, forward, acked>>,
               Locals(s)',
               Creating(s)' => Creating(s) /\ stream'[s].id = stream[s].id
        PROVE  IdInv'
    <2>1. \A t \in Stream \ {s} : Locals(t)'
      BY <1>a, LocalsOfOthers
    <2>2. Apart'
      BY <1>0, <1>a DEF Apart, Creating
    <2>3. Unused'
      BY <1>0, <1>a DEF Unused
    <2> QED
      BY <1>a, <2>1, <2>2, <2>3 DEF IdInv
  <1>1. ASSUME NEW range \in KeyRange, NEW filters \in Filter, NEW requested \in Requested,
               CreateRequest(s, range, filters, requested)
        PROVE  IdInv'
    <2>1. StartRevision(requested) \in 1..(MaxRevision + 1)
      BY WatchAssumption DEF StartRevision, TypeInv, Revision
    <2>2. [range |-> range, start |-> StartRevision(requested), filters |-> filters] \in Watcher
      BY <2>1, WatchAssumption DEF Watcher, Kind
    <2>3. /\ stream'[s].pc = "insert" /\ stream'[s].watch \in Watcher
          /\ stream'[s].active = stream[s].active
      BY <1>0, <1>1, <2>2 DEF CreateRequest, TypeInv, StreamTask
    <2>4. /\ UNCHANGED <<watchers, next_watch_id, forward, acked>>
          /\ \A t \in Stream \ {s} : stream'[t] = stream[t]
      BY <1>1 DEF CreateRequest, TypeInv
    <2>5. Locals(s)'
      BY <1>0, <2>3, <2>4 DEF Locals, Creating, Canceling
    <2> QED
      BY <1>a, <2>3, <2>4, <2>5 DEF Creating
  <1>2. CASE CreateInsert(s)
    <2> DEFINE id == next_watch_id
    <2>1. /\ stream'[s].pc = "index" /\ stream'[s].id = id
          /\ stream'[s].watch = stream[s].watch /\ stream'[s].active = stream[s].active
          /\ stream[s].watch \in Watcher
      BY <1>0, <1>2 DEF CreateInsert, FollowingId, TypeInv, StreamTask, Locals
    <2>2. id \in WatchId /\ next_watch_id' = id + 1
      BY <1>2, WatchAssumption DEF CreateInsert, FollowingId, TypeInv, WatchId
    <2>3. /\ UNCHANGED <<forward, acked>>
          /\ \A t \in Stream \ {s} : stream'[t] = stream[t]
          /\ watchers'[id] = stream[s].watch
          /\ \A i \in WatchId \ {id} : watchers'[i] = watchers[i]
      BY <1>2, <2>2 DEF CreateInsert, FollowingId, TypeInv
    <2>4. \A t \in Stream \ {s} : Locals(t)'
      BY <1>0, <2>2, <2>3, LocalsOfOthers
    <2>5. Locals(s)'
      BY <1>0, <2>1, <2>2, <2>3 DEF Locals, Creating, Canceling, Unused
    <2>6. \A t \in Stream \ {s} : Creating(t)' => stream'[t].id < id
      BY <1>0, <2>3 DEF Creating, Locals
    <2>7. Apart'
      BY <1>0, <2>1, <2>3, <2>6 DEF Apart, Creating
    <2>8. Unused'
      BY <1>0, <2>2, <2>3 DEF Unused
    <2> QED
      BY <2>4, <2>5, <2>7, <2>8 DEF IdInv
  <1>3. CASE CreateIndex(s)
    <2>1. /\ stream[s].pc = "index" /\ stream'[s].pc = "ack" /\ stream'[s].id = stream[s].id
          /\ stream'[s].watch = stream[s].watch /\ stream'[s].active = stream[s].active
      BY <1>0, <1>3 DEF CreateIndex, TypeInv, StreamTask
    <2>2. /\ UNCHANGED <<watchers, next_watch_id, forward, acked>>
          /\ \A t \in Stream \ {s} : stream'[t] = stream[t]
      BY <1>3 DEF CreateIndex, TypeInv
    <2>3. Locals(s)'
      BY <1>0, <2>1, <2>2 DEF Locals, Creating, Canceling
    <2> QED
      BY <1>a, <2>1, <2>2, <2>3 DEF Creating
  <1>5. CASE ClientGone(s)
    BY <1>5, IdFrame DEF ClientGone
  <1>6. ASSUME NEW id \in WatchId, id < next_watch_id, RemoveWatcher(s, id)
        PROVE  IdInv'
    <2>1. /\ stream'[s].id = id /\ stream'[s].active = stream[s].active
          /\ stream'[s].watch = watchers[id]
          /\ stream'[s].pc = IF watchers[id] = None THEN "abort" ELSE "unlist"
      BY <1>0, <1>6 DEF RemoveWatcher, TypeInv, StreamTask
    <2>2. /\ UNCHANGED <<forward, acked, next_watch_id>>
          /\ \A t \in Stream \ {s} : stream'[t] = stream[t]
          /\ watchers'[id] = None
          /\ \A i \in WatchId \ {id} : watchers'[i] = watchers[i]
      BY <1>6 DEF RemoveWatcher, TypeInv
    <2>3. \A t \in Stream \ {s} : Locals(t)'
      BY <2>2, LocalsOfOthers
    <2>4. watchers[id] \in Watcher \cup {None}
      BY DEF TypeInv
    <2>5. Locals(s)'
      BY <1>0, <1>6, <2>1, <2>2, <2>4 DEF Locals, Creating, Canceling
    <2>6. Apart'
      BY <1>0, <2>1, <2>2 DEF Apart, Creating
    <2>7. Unused'
      BY <1>0, <2>2 DEF Unused
    <2> QED
      BY <2>3, <2>5, <2>6, <2>7 DEF IdInv
  <1>7. CASE Close(s) \/ CloseDone(s)
    <2>1. stream'[s].pc \in {"cancel", "ended"} /\ stream'[s].active = stream[s].active
      BY <1>0, <1>7 DEF Close, CloseDone, TypeInv, StreamTask
    <2>2. /\ UNCHANGED <<watchers, next_watch_id, forward, acked>>
          /\ \A t \in Stream \ {s} : stream'[t] = stream[t]
      BY <1>7 DEF Close, CloseDone, TypeInv
    <2>3. Locals(s)'
      BY <1>0, <2>1, <2>2 DEF Locals, Creating, Canceling
    <2> QED
      BY <1>a, <2>1, <2>2, <2>3 DEF Creating
  <1>8. CASE CancelUnlist(s) \/ CancelPrune(s)
    <2>1. /\ stream[s].pc \in {"unlist", "prune"} /\ stream'[s].pc \in {"prune", "abort"}
          /\ stream'[s].watch = stream[s].watch
          /\ stream'[s].active = stream[s].active /\ stream'[s].id = stream[s].id
      BY <1>0, <1>8 DEF CancelUnlist, CancelPrune, TypeInv, StreamTask
    <2>2. /\ UNCHANGED <<watchers, next_watch_id, forward, acked>>
          /\ \A t \in Stream \ {s} : stream'[t] = stream[t]
      BY <1>8 DEF CancelUnlist, CancelPrune, TypeInv
    <2>3. Locals(s)'
      BY <1>0, <2>1, <2>2 DEF Locals, Creating, Canceling
    <2> QED
      BY <1>a, <2>1, <2>2, <2>3 DEF Creating
  <1>9. CASE CreateAck(s) \/ CreateAckFails(s)
    <2> DEFINE id == stream[s].id
    <2>1. /\ Creating(s) /\ id \in WatchId /\ id < next_watch_id
          /\ forward[id] = NoForward
      BY <1>0, <1>9 DEF CreateAck, CreateAckFails, Locals, Creating
    <2>2. /\ UNCHANGED <<watchers, next_watch_id>>
          /\ \A t \in Stream \ {s} : stream'[t] = stream[t]
          /\ \A i \in WatchId \ {id} : forward'[i] = forward[i] /\ acked'[i] = acked[i]
      BY <1>9, <2>1 DEF CreateAck, CreateAckFails, TypeInv
    <2>3. \A t \in Stream : id \notin stream[t].active
      BY <1>0, <2>1, NoneAssumption DEF Locals, NoForward
    <2>4. Locals(s)' /\ ~ Creating(s)'
      <3>1. CASE CreateAck(s)
        <4>1. stream'[s] = Waiting(stream[s], stream[s].active \cup {id})
          BY <3>1 DEF CreateAck, TypeInv, Activated
        <4>2. stream[s].active \cup {id} \in SUBSET WatchId
          BY <1>0, <2>1 DEF StreamTask
        <4>3. /\ stream'[s].pc \in {"idle", "cancel"}
              /\ stream'[s].active = stream[s].active \cup {id}
          BY <1>0, <4>1, <4>2, WaitingType
        <4>4. forward'[id].to = s
          BY <2>1, <3>1 DEF CreateAck, TypeInv, NoForward
        <4> QED
          BY <1>0, <2>2, <4>2, <4>3, <4>4 DEF Locals, Creating, Canceling
      <3>2. CASE CreateAckFails(s)
        <4>1. stream'[s].pc = "broken" /\ stream'[s].active = stream[s].active
          <5>1. stream'[s] = [stream[s] EXCEPT !.pc = "broken"]
            BY <3>2 DEF CreateAckFails, TypeInv
          <5> QED
            BY <1>0, <5>1 DEF StreamTask
        <4>2. stream[s].active \in SUBSET WatchId
          BY <1>0 DEF StreamTask
        <4>3. ASSUME NEW i \in stream[s].active
              PROVE  forward'[i].to = s
          <5>1. i \in WatchId \ {id}
            BY <2>3, <4>2, <4>3
          <5>2. forward[i].to = s
            BY <1>0, <4>3 DEF Locals
          <5> QED
            BY <2>2, <5>1, <5>2
        <4> QED
          BY <4>1, <4>3 DEF Locals, Creating, Canceling
      <3> QED
        BY <1>9, <3>1, <3>2
    <2>5. ASSUME NEW t \in Stream, t # s
          PROVE  Locals(t)'
      <3>1. Locals(t) /\ stream'[t] = stream[t] /\ stream[t].active \in SUBSET WatchId
        BY <1>0, <2>2, <2>5 DEF TypeInv, StreamTask
      <3>2. Creating(t) => stream[t].id # id
        BY <1>0, <2>1, <2>5 DEF Apart
      <3> QED
        BY <2>2, <2>3, <3>1, <3>2 DEF Locals, Creating, Canceling
    <2>6. Apart'
      <3>1. \A t \in Stream : Creating(t)' => t # s /\ Creating(t) /\ stream'[t] = stream[t]
        BY <2>2, <2>4 DEF Creating
      <3>2. ASSUME NEW t \in Stream, NEW u \in Stream, t # u, Creating(t)', Creating(u)'
            PROVE  stream'[t].id # stream'[u].id
        <4>1. Creating(t) /\ Creating(u) /\ stream'[t] = stream[t] /\ stream'[u] = stream[u]
          BY <3>1, <3>2
        <4>2. stream[t].id # stream[u].id
          BY <1>0, <3>2, <4>1 DEF Apart
        <4> QED
          BY <4>1, <4>2
      <3> QED
        BY <3>2 DEF Apart
    <2>7. Unused'
      BY <1>0, <2>1, <2>2 DEF Unused
    <2> QED
      BY <2>4, <2>5, <2>6, <2>7 DEF IdInv
  <1>10. CASE CancelAbort(s)
    <2> DEFINE id == stream[s].id
    <2>1. id \in WatchId /\ id < next_watch_id
      BY <1>0, <1>10 DEF CancelAbort, Locals, Canceling
    <2>2. /\ UNCHANGED <<watchers, next_watch_id, acked>>
          /\ \A t \in Stream \ {s} : stream'[t] = stream[t]
      BY <1>10, <2>1 DEF CancelAbort, TypeInv
    <2>3. \A i \in WatchId :
            forward'[i].to = forward[i].to /\ (forward[i] = NoForward => forward'[i] = NoForward)
      <3>1. CASE id \in stream[s].active
        <4>1. forward' = [forward EXCEPT ![id] = Aborted(forward[id])]
          BY <1>10, <3>1 DEF CancelAbort
        <4>2. forward[id].to = s /\ forward[id] \in ForwardTask
          BY <1>0, <2>1, <3>1 DEF Locals, TypeInv
        <4>3. Aborted(forward[id]).to = s /\ forward[id] # NoForward
          BY <4>2, NoneAssumption DEF Aborted, ForwardTask, NoForward
        <4> QED
          BY <4>1, <4>2, <4>3 DEF TypeInv
      <3>2. CASE id \notin stream[s].active
        BY <1>10, <3>2 DEF CancelAbort
      <3> QED
        BY <3>1, <3>2
    <2>4. /\ stream'[s].pc \in {"idle", "cancel"}
          /\ stream'[s].active = stream[s].active \ {id}
          /\ stream[s].active \in SUBSET WatchId
      <3>1. stream[s].active \in SUBSET WatchId
        BY <1>0 DEF StreamTask
      <3>2. stream'[s] = Waiting(stream[s], stream[s].active \ {id})
        BY <1>10 DEF CancelAbort, TypeInv
      <3> QED
        BY <1>0, <3>1, <3>2, WaitingType
    <2>5. Locals(s)'
      BY <1>0, <2>3, <2>4 DEF Locals, Creating, Canceling
    <2>6. ASSUME NEW t \in Stream, t # s
          PROVE  Locals(t)'
      <3>1. Locals(t) /\ stream'[t] = stream[t] /\ stream[t].active \in SUBSET WatchId
        BY <1>0, <2>2, <2>6 DEF TypeInv, StreamTask
      <3> QED
        BY <2>2, <2>3, <3>1 DEF Locals, Creating, Canceling
    <2>7. Apart'
      BY <1>0, <2>2, <2>4 DEF Apart, Creating
    <2>8. Unused'
      BY <1>0, <2>2, <2>3 DEF Unused
    <2> QED
      BY <2>5, <2>6, <2>7, <2>8 DEF IdInv
  <1>11. \A id \in WatchId : id \in stream[s].active => id < next_watch_id
    BY <1>0, NoneAssumption DEF Locals, Unused, NoForward
  <1> QED
    BY <1>1, <1>2, <1>3, <1>5, <1>6, <1>7, <1>8, <1>9, <1>10, <1>11
       DEF StreamNext, CancelRequest, CloseNext

\* A forwarding task keeps its stream.
LEMMA ForwardTo ==
  ASSUME TypeInv, NEW id \in WatchId, ForwardNext(id)
  PROVE  forward'[id].to = forward[id].to /\ \A i \in WatchId \ {id} : forward'[i] = forward[i]
  <1>1. \A i \in WatchId \ {id} : forward'[i] = forward[i]
    BY DEF ForwardNext, ForwardTake, ForwardSend, ForwardStops, TypeInv
  <1>2. forward[id] \in ForwardTask /\ DOMAIN forward = WatchId
    BY DEF TypeInv
  <1>3. ASSUME NEW pc, NEW held
        PROVE  /\ [forward[id] EXCEPT !.pc = pc].to = forward[id].to
               /\ [forward[id] EXCEPT !.pc = pc, !.held = held].to = forward[id].to
    BY <1>2 DEF ForwardTask
  <1>4. CASE ForwardTake(id)
    BY <1>2, <1>3, <1>4 DEF ForwardTake
  <1>5. CASE ForwardSend(id)
    <2>1. \/ forward' = [forward EXCEPT ![id] = [forward[id] EXCEPT !.pc = "waiting", !.held = {}]]
          \/ forward' = [forward EXCEPT ![id] = [forward[id] EXCEPT !.pc = "dead"]]
      BY <1>5 DEF ForwardSend
    <2>2. /\ [forward[id] EXCEPT !.pc = "waiting", !.held = {}].to = forward[id].to
          /\ [forward[id] EXCEPT !.pc = "dead"].to = forward[id].to
      BY <1>2 DEF ForwardTask
    <2> QED
      BY <1>2, <2>1, <2>2
  <1>6. CASE ForwardStops(id)
    BY <1>2, <1>3, <1>6 DEF ForwardStops
  <1> QED
    BY <1>1, <1>4, <1>5, <1>6 DEF ForwardNext

LEMMA ForwardIds ==
  ASSUME IdInv, ForwardInv, TypeInv, TypeInv', NEW id \in WatchId, ForwardNext(id)
  PROVE  IdInv'
  <1> USE DEF hubVars, histVars
  <1>1. UNCHANGED <<watchers, next_watch_id, stream, acked>>
    BY DEF ForwardNext, ForwardTake, ForwardSend, ForwardStops
  <1>2. forward[id] # NoForward
    BY DEF ForwardNext, ForwardTake, ForwardSend, ForwardStops, NoForward
  <1>3. forward'[id].to = forward[id].to /\ \A i \in WatchId \ {id} : forward'[i] = forward[i]
    BY ForwardTo
  <1>5. ASSUME NEW s \in Stream
        PROVE  Locals(s)'
    <2>1. Locals(s) /\ stream[s].active \in SUBSET WatchId
      BY DEF IdInv, TypeInv, StreamTask
    <2>2. Creating(s) => stream[s].id \in WatchId \ {id}
      BY <1>2, <2>1 DEF Locals
    <2> QED
      BY <1>1, <1>3, <2>1, <2>2 DEF Locals, Creating, Canceling
  <1>6. Apart'
    BY <1>1 DEF Apart, Creating, IdInv
  <1>7. Unused'
    BY <1>1, <1>2, <1>3 DEF Unused, IdInv
  <1> QED
    BY <1>5, <1>6, <1>7 DEF IdInv

LEMMA WriterIds ==
  ASSUME IdInv, NEW w \in Writer, WriterNext(w)
  PROVE  IdInv'
  BY IdFrame
     DEF WriterNext, Put, KvDelete, BackgroundDelete, Writes, Collect, Send, hubVars, histVars

\* The lists.
LEMMA ListsFrame ==
  ASSUME ListsInv, UNCHANGED <<key_watchers, next_watch_id, stream>>
  PROVE  ListsInv'
  BY DEF ListsInv, Listings

LEMMA WriterLists ==
  ASSUME ListsInv, NEW w \in Writer, WriterNext(w)
  PROVE  ListsInv'
  BY ListsFrame DEF WriterNext, Put, KvDelete, BackgroundDelete, Writes, Collect, Send, hubVars

LEMMA ForwardLists ==
  ASSUME ListsInv, NEW id \in WatchId, ForwardNext(id)
  PROVE  ListsInv'
  BY ListsFrame DEF ForwardNext, ForwardTake, ForwardSend, ForwardStops, hubVars

\* No listing is added, and no stream comes to list a watch that is listed.
LEMMA FewerListings ==
  ASSUME ListsInv, TypeInv, NEW s \in Stream,
         \A id \in WatchId : Listings(id)' \subseteq Listings(id),
         \A t \in Stream \ {s} : stream'[t] = stream[t],
         \A t \in Stream : stream[t].pc = "index" => stream[t].id \in WatchId,
         next_watch_id' \in {next_watch_id, next_watch_id + 1},
         stream'[s].pc = "index" =>
           /\ stream'[s].id \in WatchId
           /\ \/ stream'[s].id = stream[s].id /\ stream[s].pc = "index"
              \/ stream'[s].id >= next_watch_id
  PROVE  ListsInv'
  <1>1. next_watch_id \in Nat /\ WatchId \subseteq Nat
    BY WatchAssumption DEF TypeInv, WatchId
  <1>2. \A id \in WatchId : id >= next_watch_id' => id >= next_watch_id
    BY <1>1
  <1>3. ASSUME NEW t \in Stream, stream'[t].pc = "index" PROVE Listings(stream[t].id)' = {}
    <2>1. CASE t = s
      BY <1>3, <2>1 DEF ListsInv
    <2>2. CASE t # s
      BY <1>3, <2>2 DEF ListsInv
    <2> QED
      BY <2>1, <2>2
  <1> QED
    BY <1>2, <1>3 DEF ListsInv

LEMMA StreamListsOnce ==
  ASSUME ListsInv, IdInv, TypeInv, NEW s \in Stream, StreamNext(s)
  PROVE  ListsInv'
  <1> USE DEF hubVars, histVars
  <1>0. /\ stream[s] \in StreamTask /\ Locals(s)
        /\ \A t \in Stream : stream[t].pc = "index" => stream[t].id \in WatchId
        /\ \A r \in KeyRange : key_watchers[r] \in [WatchId -> Nat] \cup {None}
        /\ DOMAIN stream = Stream /\ DOMAIN key_watchers = KeyRange
        /\ next_watch_id \in Nat /\ WatchId \subseteq Nat
    BY WatchAssumption DEF TypeInv, IdInv, Locals, Creating, WatchId
  <1>a. ASSUME UNCHANGED <<key_watchers, next_watch_id>>,
               \A t \in Stream \ {s} : stream'[t] = stream[t],
               stream'[s].pc = "index" => stream[s].pc = "index" /\ stream'[s].id = stream[s].id
        PROVE  ListsInv'
    <2>1. \A id \in WatchId : Listings(id)' = Listings(id)
      BY <1>a DEF Listings
    <2>2. stream'[s].pc = "index" => stream'[s].id \in WatchId
      BY <1>0, <1>a
    <2> QED
      BY <1>0, <1>a, <2>1, <2>2, FewerListings
  <1>1. CASE \/ \E range \in KeyRange, filters \in Filter, requested \in Requested :
                  CreateRequest(s, range, filters, requested)
             \/ CreateAckFails(s) \/ Close(s) \/ CloseDone(s)
    BY <1>0, <1>1, <1>a DEF CreateRequest, CreateAckFails, Close, CloseDone, StreamTask
  <1>2. CASE ClientGone(s)
    BY <1>2, <1>a DEF ClientGone
  <1>3. CASE CreateAck(s)
    <2>1. Activated(stream[s].active, stream[s].id) \in SUBSET WatchId
      BY <1>0, <1>3 DEF CreateAck, Locals, Creating, StreamTask, Activated
    <2>2. stream'[s].pc \in {"idle", "cancel"}
      BY <1>0, <1>3, <2>1, WaitingType DEF CreateAck
    <2> QED
      BY <1>0, <1>3, <1>a, <2>2 DEF CreateAck
  <1>4. CASE CancelAbort(s)
    <2>1. stream[s].active \ {stream[s].id} \in SUBSET WatchId
      BY <1>0 DEF StreamTask
    <2>2. stream'[s].pc \in {"idle", "cancel"}
      BY <1>0, <1>4, <2>1, WaitingType DEF CancelAbort
    <2> QED
      BY <1>0, <1>4, <1>a, <2>2 DEF CancelAbort
  <1>5. ASSUME NEW id \in WatchId, RemoveWatcher(s, id) PROVE ListsInv'
    BY <1>0, <1>5, <1>a DEF RemoveWatcher, StreamTask
  <1>6. CASE \E id \in WatchId : CancelRequest(s, id) \/ CloseNext(s, id)
    BY <1>5, <1>6 DEF CancelRequest, CloseNext
  <1>7. CASE CreateInsert(s)
    <2>1. /\ UNCHANGED key_watchers /\ next_watch_id' = next_watch_id + 1
          /\ next_watch_id \in WatchId /\ stream'[s].id = next_watch_id
          /\ \A t \in Stream \ {s} : stream'[t] = stream[t]
      BY <1>0, <1>7, WatchAssumption DEF CreateInsert, FollowingId, StreamTask, WatchId, TypeInv
    <2>2. \A id \in WatchId : Listings(id)' = Listings(id)
      BY <2>1 DEF Listings
    <2>3. stream'[s].id \in WatchId /\ stream'[s].id >= next_watch_id
      BY <1>0, <2>1
    <2> QED
      BY <1>0, <2>1, <2>2, <2>3, FewerListings
  <1>8. CASE CreateIndex(s)
    <2>1. PICK id \in WatchId : id = stream[s].id /\ id < next_watch_id
      BY <1>0, <1>8 DEF CreateIndex, Locals, Creating
    <2>2. PICK r \in KeyRange : r = stream[s].watch.range
      BY <1>0, <1>8 DEF CreateIndex, Locals, Watcher
    <2>3. /\ UNCHANGED next_watch_id /\ stream'[s].pc = "ack" /\ stream[s].pc = "index"
          /\ \A t \in Stream \ {s} : stream'[t] = stream[t]
          /\ key_watchers' = [key_watchers EXCEPT ![r] = Pushed(key_watchers[r], id)]
      BY <1>0, <1>8, <2>1, <2>2 DEF CreateIndex, StreamTask
    <2>4. Listings(id) = {}
      BY <2>1, <2>3 DEF ListsInv
    <2>5. PICK ids \in [WatchId -> Nat] \cup {None} : ids = key_watchers[r]
      BY <1>0
    <2>6. PICK new \in [WatchId -> Nat] : new = Pushed(ids, id)
      BY PushedType
    <2>7. /\ new[id] = (IF ids = None THEN 1 ELSE ids[id] + 1)
          /\ \A i \in WatchId : i # id => new[i] = IF ids = None THEN 0 ELSE ids[i]
      BY <2>6, PushedType
    <2>8. /\ key_watchers'[r] = new /\ new # None
          /\ \A q \in KeyRange \ {r} : key_watchers'[q] = key_watchers[q]
      BY <1>0, <2>3, <2>5, <2>6, IdsNotNone
    <2>9. \A q \in KeyRange : key_watchers[q] # None => key_watchers[q][id] = 0
      <3> SUFFICES ASSUME NEW q \in KeyRange, key_watchers[q] # None, key_watchers[q][id] # 0
                   PROVE  FALSE
        OBVIOUS
      <3>1. key_watchers[q][id] \in Nat \ {0}
        BY <1>0
      <3>2. <<q, 1>> \in {q} \X (1..key_watchers[q][id])
        BY <3>1
      <3> QED
        BY <2>4, <3>2 DEF Listings
    <2>10. new[id] = 1
      BY <2>5, <2>7, <2>9
    <2>11. ASSUME NEW a \in Listings(id)' PROVE a = <<r, 1>>
      <3>1. PICK q \in KeyRange : key_watchers'[q] # None /\ a \in {q} \X (1..key_watchers'[q][id])
        BY DEF Listings
      <3>2. CASE q = r
        BY <2>8, <2>10, <3>1, <3>2
      <3>3. CASE q # r
        BY <2>8, <2>9, <3>1, <3>3
      <3> QED
        BY <3>2, <3>3
    <2>12. ASSUME NEW i \in WatchId, i # id, NEW a \in Listings(i)' PROVE a \in Listings(i)
      <3>1. PICK q \in KeyRange : key_watchers'[q] # None /\ a \in {q} \X (1..key_watchers'[q][i])
        BY DEF Listings
      <3>2. CASE q = r
        <4>1. ids # None /\ new[i] = ids[i]
          BY <2>7, <2>8, <2>12, <3>1, <3>2
        <4> QED
          BY <2>5, <2>8, <3>1, <3>2, <4>1 DEF Listings
      <3>3. CASE q # r
        BY <2>8, <3>1, <3>3 DEF Listings
      <3> QED
        BY <3>2, <3>3
    <2>13. \A i \in WatchId : \A a, b \in Listings(i)' : a = b
      BY <2>11, <2>12 DEF ListsInv
    <2>14. ASSUME NEW i \in WatchId, i >= next_watch_id' PROVE Listings(i)' = {}
      <3>1. i # id /\ Listings(i) = {}
        BY <1>0, <2>1, <2>3, <2>14 DEF ListsInv
      <3> QED
        BY <2>12, <3>1
    <2>15. ASSUME NEW t \in Stream, stream'[t].pc = "index" PROVE Listings(stream[t].id)' = {}
      <3>1. t # s /\ stream'[t] = stream[t]
        BY <2>3, <2>15
      <3>2. stream[t].id \in WatchId /\ stream[t].id # id /\ Listings(stream[t].id) = {}
        BY <1>0, <2>1, <2>3, <2>15, <3>1 DEF ListsInv, IdInv, Apart, Creating
      <3> QED
        BY <2>12, <3>1, <3>2
    <2> QED
      BY <2>13, <2>14, <2>15 DEF ListsInv
  <1>9. CASE CancelUnlist(s) \/ CancelPrune(s)
    <2>1. PICK id \in WatchId : id = stream[s].id
      BY <1>0, <1>9 DEF CancelUnlist, CancelPrune, Locals, Canceling
    <2>2. PICK r \in KeyRange : r = stream[s].watch.range
      BY <1>0, <1>9 DEF CancelUnlist, CancelPrune, Locals, Watcher
    <2>3. /\ UNCHANGED next_watch_id /\ stream'[s].pc \in {"prune", "abort"}
          /\ \A t \in Stream \ {s} : stream'[t] = stream[t]
          /\ \/ key_watchers' = [key_watchers EXCEPT ![r] = Unlisted(key_watchers[r], id)]
             \/ key_watchers' = [key_watchers EXCEPT ![r] = None]
      BY <1>0, <1>9, <2>1, <2>2 DEF CancelUnlist, CancelPrune, StreamTask
    <2>4. ASSUME NEW i \in WatchId, NEW a \in Listings(i)' PROVE a \in Listings(i)
      <3>1. PICK q \in KeyRange : key_watchers'[q] # None /\ a \in {q} \X (1..key_watchers'[q][i])
        BY DEF Listings
      <3>2. key_watchers[q] # None /\ key_watchers'[q][i] \in {0, key_watchers[q][i]}
        <4>1. CASE q # r
          BY <1>0, <2>3, <3>1, <4>1
        <4>2. CASE q = r
          <5>1. key_watchers'[r] = Unlisted(key_watchers[r], id)
            BY <1>0, <2>3, <3>1, <4>2
          <5>2. PICK ids \in [WatchId -> Nat] \cup {None} : ids = key_watchers[r]
            BY <1>0
          <5>3. PICK new : new = Unlisted(ids, id)
            OBVIOUS
          <5>4. /\ ids = None => new = None
                /\ ids # None => new[id] = 0 /\ \A j \in WatchId : j # id => new[j] = ids[j]
            BY <5>3, UnlistedType
          <5> QED
            BY <3>1, <4>2, <5>1, <5>2, <5>3, <5>4
        <4> QED
          BY <4>1, <4>2
      <3>3. a \in {q} \X (1..key_watchers[q][i])
        BY <3>1, <3>2
      <3> QED
        BY <3>2, <3>3 DEF Listings
    <2> QED
      BY <1>0, <2>3, <2>4, FewerListings
  <1> QED
    BY <1>1, <1>2, <1>3, <1>4, <1>6, <1>7, <1>8, <1>9 DEF StreamNext

-----------------------------------------------------------------------------
(***************************************************************************)
(* Messages, forwarding tasks and what a stream has released.              *)
(***************************************************************************)

\* One more message on a stream.
LEMMA OneMore ==
  ASSUME TypeInv, NEW s \in Stream, NEW msg \in Message,
         out' = [out EXCEPT ![s] = Append(out[s], msg)]
  PROVE  /\ \A t \in Stream : \A n \in DOMAIN out[t] :
              n \in DOMAIN out'[t] /\ out'[t][n] = out[t][n]
         /\ \A t \in Stream : \A n \in DOMAIN out'[t] :
              n \in DOMAIN out[t] \/ (t = s /\ n = Len(out[s]) + 1)
         /\ Len(out[s]) + 1 \in DOMAIN out'[s]
         /\ out'[s][Len(out[s]) + 1] = msg
  <1>1. out[s] \in Seq(Message) /\ out'[s] = Append(out[s], msg)
    BY DEF TypeInv
  <1>2. \A t \in Stream \ {s} : out'[t] = out[t]
    BY DEF TypeInv
  <1>3. ASSUME NEW q \in Seq(Message)
        PROVE  /\ DOMAIN q = 1..Len(q) /\ Len(q) \in Nat
               /\ DOMAIN Append(q, msg) = 1..(Len(q) + 1)
               /\ Append(q, msg)[Len(q) + 1] = msg
               /\ \A n \in 1..Len(q) : Append(q, msg)[n] = q[n]
    OBVIOUS
  <1>4. /\ DOMAIN out[s] = 1..Len(out[s]) /\ Len(out[s]) \in Nat
        /\ DOMAIN out'[s] = 1..(Len(out[s]) + 1)
        /\ out'[s][Len(out[s]) + 1] = msg
        /\ \A n \in 1..Len(out[s]) : out'[s][n] = out[s][n]
    BY <1>1, <1>3
  <1>5. ASSUME NEW n \in 1..(Len(out[s]) + 1)
        PROVE  n \in 1..Len(out[s]) \/ n = Len(out[s]) + 1
    BY <1>4
  <1>6. 1..Len(out[s]) \subseteq 1..(Len(out[s]) + 1)
        /\ Len(out[s]) + 1 \in 1..(Len(out[s]) + 1)
    BY <1>4
  <1> QED
    BY <1>2, <1>4, <1>5, <1>6

LEMMA IndexNat ==
  ASSUME TypeInv, NEW s \in Stream
  PROVE  /\ Len(out[s]) \in Nat /\ DOMAIN out[s] = 1..Len(out[s])
         /\ \A n \in DOMAIN out[s] : out[s][n] \in Message
  <1>1. out[s] \in Seq(Message)
    BY DEF TypeInv
  <1> QED
    BY <1>1

\* A step that only adds to the streams, and adds events of a watch only after
\* its acknowledgement.
LEMMA CreatedKept ==
  ASSUME TypeInv, CreatedFirst, NEW s \in Stream, NEW msg \in Message,
         out' = [out EXCEPT ![s] = Append(out[s], msg)],
         msg.kind = "events" =>
           \E m \in DOMAIN out[s] : out[s][m].kind = "created" /\ out[s][m].id = msg.id
  PROVE  CreatedFirst'
  <1> SUFFICES ASSUME NEW t \in Stream, NEW n \in DOMAIN out'[t],
                      out'[t][n].kind = "events"
               PROVE  \E m \in 1..(n - 1) :
                        out'[t][m].kind = "created" /\ out'[t][m].id = out'[t][n].id
    BY DEF CreatedFirst
  <1>1. CASE n \in DOMAIN out[t]
    <2>1. out'[t][n] = out[t][n]
      BY <1>1, OneMore
    <2>2. PICK m \in 1..(n - 1) : out[t][m].kind = "created" /\ out[t][m].id = out[t][n].id
      BY <1>1, <2>1 DEF CreatedFirst
    <2>3. m \in DOMAIN out[t]
      BY <1>1, IndexNat
    <2>4. out'[t][m] = out[t][m]
      BY <2>3, OneMore
    <2> QED
      BY <2>1, <2>2, <2>4
  <1>2. CASE n \notin DOMAIN out[t]
    <2>1. t = s /\ n = Len(out[s]) + 1 /\ out'[t][n] = msg
      BY <1>2, OneMore
    <2>2. PICK m \in DOMAIN out[s] : out[s][m].kind = "created" /\ out[s][m].id = msg.id
      BY <2>1
    <2>3. m \in 1..(n - 1)
      BY <2>1, IndexNat
    <2>4. out'[s][m] = out[s][m]
      BY OneMore
    <2> QED
      BY <2>1, <2>2, <2>3, <2>4
  <1> QED
    BY <1>1, <1>2

LEMMA AcksKept ==
  ASSUME TypeInv, NEW s \in Stream, NEW msg \in Message,
         out' = [out EXCEPT ![s] = Append(out[s], msg)]
  PROVE  \A t \in Stream, id \in WatchId : Acks(id, t) => Acks(id, t)'
  <1> SUFFICES ASSUME NEW t \in Stream, NEW id \in WatchId, Acks(id, t)
               PROVE  Acks(id, t)'
    OBVIOUS
  <1>1. PICK m \in DOMAIN out[t] : out[t][m].kind = "created" /\ out[t][m].id = id
    BY DEF Acks
  <1>2. m \in DOMAIN out'[t] /\ out'[t][m] = out[t][m]
    BY OneMore
  <1> QED
    BY <1>1, <1>2 DEF Acks

LEMMA ForwardFrame ==
  ASSUME ForwardInv, UNCHANGED <<forward, out>> PROVE ForwardInv'
  BY DEF ForwardInv, ForwardOK, Acks

LEMMA CreatedFrame == ASSUME CreatedFirst, UNCHANGED out PROVE CreatedFirst'
  BY DEF CreatedFirst

\* The steps of streams and forwarding tasks on forward and out.
LEMMA StreamForwards ==
  ASSUME TypeInv, IdInv, ForwardInv, CreatedFirst, NEW s \in Stream, StreamNext(s)
  PROVE  ForwardInv' /\ CreatedFirst'
  <1> USE DEF hubVars, histVars
  <1>0. /\ stream[s] \in StreamTask /\ Locals(s)
        /\ \A id \in WatchId : forward[id] \in ForwardTask /\ ForwardOK(id)
    BY DEF TypeInv, IdInv, ForwardInv
  <1>1. CASE CreateAck(s)
    <2>1. PICK id \in WatchId : id = stream[s].id
      BY <1>0, <1>1 DEF CreateAck, Locals, Creating
    <2>2. PICK msg \in Message : msg = [kind |-> "created", id |-> id, events |-> {}]
      BY <2>1 DEF Message, Batches
    <2>3. out' = [out EXCEPT ![s] = Append(out[s], msg)]
      BY <1>1, <2>1, <2>2 DEF CreateAck, Acknowledged
    <2>4. CreatedFirst'
      BY <2>2, <2>3, CreatedKept
    <2>5. Acks(id, s)'
      <3>1. /\ Len(out[s]) + 1 \in DOMAIN out'[s]
            /\ out'[s][Len(out[s]) + 1] = msg
        BY <2>3, OneMore
      <3>2. msg.kind = "created" /\ msg.id = id
        BY <2>2
      <3> QED
        BY <3>1, <3>2 DEF Acks
    <2>6. /\ forward'[id] = [NoForward EXCEPT !.pc = "waiting", !.to = s]
          /\ \A i \in WatchId \ {id} : forward'[i] = forward[i]
      BY <1>1, <2>1 DEF CreateAck, TypeInv
    <2>7. /\ forward'[id].pc = "waiting" /\ forward'[id].to = s /\ forward'[id].held = {}
      BY <2>6 DEF NoForward
    <2>8. ForwardOK(id)'
      BY <2>5, <2>7, NoneAssumption DEF ForwardOK
    <2>9. ASSUME NEW i \in WatchId \ {id}
          PROVE  ForwardOK(i)'
      <3>1. forward'[i] = forward[i] /\ ForwardOK(i) /\ forward[i] \in ForwardTask
        BY <1>0, <2>6
      <3>2. forward[i].to # None => Acks(i, forward[i].to)'
        BY <2>3, <3>1, AcksKept DEF ForwardOK, ForwardTask
      <3> QED
        BY <3>1, <3>2 DEF ForwardOK
    <2>10. \A i \in WatchId : ForwardOK(i)'
      BY <2>8, <2>9
    <2> QED
      BY <2>4, <2>10 DEF ForwardInv
  <1>2. CASE CreateAckFails(s)
    <2>1. PICK id \in WatchId : id = stream[s].id
      BY <1>0, <1>2 DEF CreateAckFails, Locals, Creating
    <2>2. /\ forward'[id] = [forward[id] EXCEPT !.pc = "dead"] /\ UNCHANGED out
          /\ \A i \in WatchId \ {id} : forward'[i] = forward[i]
      BY <1>2, <2>1 DEF CreateAckFails, TypeInv
    <2>3. forward'[id].pc = "dead" /\ forward'[id].to = forward[id].to
      BY <1>0, <2>1, <2>2 DEF ForwardTask
    <2>4. ForwardOK(id)' /\ \A i \in WatchId \ {id} : ForwardOK(i)'
      BY <1>0, <2>2, <2>3 DEF ForwardOK, Acks
    <2> QED
      BY <2>2, <2>4, CreatedFrame DEF ForwardInv
  <1>3. CASE CancelAbort(s)
    <2>1. PICK id \in WatchId : id = stream[s].id
      BY <1>0, <1>3 DEF CancelAbort, Locals, Canceling
    <2>2. UNCHANGED out
      BY <1>3 DEF CancelAbort
    <2>3. forward' = forward \/ forward' = [forward EXCEPT ![id] = Aborted(forward[id])]
      BY <1>3, <2>1 DEF CancelAbort
    <2>4. CASE forward' = [forward EXCEPT ![id] = Aborted(forward[id])]
      <3>1. /\ forward'[id] = Aborted(forward[id]) /\ forward[id] \in ForwardTask
            /\ \A i \in WatchId \ {id} : forward'[i] = forward[i]
        BY <1>0, <2>1, <2>4 DEF TypeInv
      <3>2. /\ forward'[id].pc = "dead"
               \/ (forward'[id].pc = forward[id].pc /\ forward[id].pc # "waiting")
            /\ forward'[id].to = forward[id].to
        BY <3>1 DEF Aborted, ForwardTask
      <3>3. \A i \in WatchId : ForwardOK(i)'
        BY <1>0, <2>2, <3>1, <3>2 DEF ForwardOK, Acks
      <3> QED
        BY <2>2, <3>3, CreatedFrame DEF ForwardInv
    <2> QED
      BY <2>2, <2>3, <2>4, CreatedFrame, ForwardFrame
  <1>4. CASE UNCHANGED <<forward, out>>
    BY <1>4, CreatedFrame, ForwardFrame
  <1> QED
    BY <1>1, <1>2, <1>3, <1>4
       DEF StreamNext, CreateRequest, CreateInsert, FollowingId,
       CreateIndex, ClientGone, CancelRequest, Close,
           CloseNext, RemoveWatcher, CloseDone, CancelUnlist, CancelPrune

LEMMA ForwardForwards ==
  ASSUME TypeInv, ForwardInv, CreatedFirst, NEW id \in WatchId, ForwardNext(id)
  PROVE  ForwardInv' /\ CreatedFirst'
  <1> USE DEF hubVars, histVars
  <1>0. /\ forward[id] \in ForwardTask /\ ForwardOK(id)
        /\ \A i \in WatchId : forward[i] \in ForwardTask /\ ForwardOK(i)
    BY DEF TypeInv, ForwardInv
  <1>1. ASSUME UNCHANGED out, \A i \in WatchId \ {id} : forward'[i] = forward[i], ForwardOK(id)'
        PROVE  ForwardInv' /\ CreatedFirst'
    BY <1>0, <1>1, CreatedFrame DEF ForwardInv, ForwardOK, Acks
  <1>2. CASE ForwardTake(id)
    <2>1. /\ forward'[id] = [forward[id] EXCEPT !.pc = "holding", !.held = Head(chan[id])]
          /\ forward[id].pc = "waiting" /\ UNCHANGED out
          /\ \A i \in WatchId \ {id} : forward'[i] = forward[i]
      BY <1>2 DEF ForwardTake, TypeInv
    <2>2. forward'[id].pc = "holding" /\ forward'[id].to = forward[id].to
      BY <1>0, <2>1 DEF ForwardTask
    <2>3. ForwardOK(id)'
      BY <1>0, <2>1, <2>2 DEF ForwardOK, Acks
    <2> QED
      BY <1>1, <2>1, <2>3
  <1>3. ASSUME UNCHANGED out, forward' = [forward EXCEPT ![id].pc = "dead"]
        PROVE  ForwardInv' /\ CreatedFirst'
    <2>1. /\ forward'[id] = [forward[id] EXCEPT !.pc = "dead"]
          /\ \A i \in WatchId \ {id} : forward'[i] = forward[i]
      BY <1>3 DEF TypeInv
    <2>2. forward'[id].pc = "dead" /\ forward'[id].to = forward[id].to
      BY <1>0, <2>1 DEF ForwardTask
    <2>3. ForwardOK(id)'
      BY <1>0, <1>3, <2>2 DEF ForwardOK, Acks
    <2> QED
      BY <1>1, <1>3, <2>1, <2>3
  <1>4. ASSUME forward[id].pc = "holding",
               out' = [out EXCEPT ![forward[id].to] =
                         Append(out[forward[id].to], Events(id, forward[id].held))],
               forward' = [forward EXCEPT ![id] =
                             [forward[id] EXCEPT !.pc = "waiting", !.held = {}]]
        PROVE  ForwardInv' /\ CreatedFirst'
    <2> DEFINE s == forward[id].to
    <2>1. s \in Stream /\ Acks(id, s) /\ forward[id].held \in Batches
      BY <1>0, <1>4 DEF ForwardOK, ForwardTask
    <2>2. PICK msg \in Message : msg = Events(id, forward[id].held)
      BY <2>1 DEF Message, Events
    <2>3. out' = [out EXCEPT ![s] = Append(out[s], msg)] /\ msg.id = id
      BY <1>4, <2>2 DEF Events
    <2> HIDE DEF s
    <2>4. CreatedFirst'
      BY <2>1, <2>3, CreatedKept DEF Acks
    <2>5. /\ forward'[id] = [forward[id] EXCEPT !.pc = "waiting", !.held = {}]
          /\ \A i \in WatchId \ {id} : forward'[i] = forward[i]
      BY <1>4 DEF TypeInv
    <2>6. forward'[id].pc = "waiting" /\ forward'[id].to = s /\ forward'[id].held = {}
      BY <1>0, <2>5 DEF ForwardTask, s
    <2>7. ForwardOK(id)'
      BY <2>1, <2>3, <2>6, AcksKept, NoneAssumption DEF ForwardOK
    <2>8. ASSUME NEW i \in WatchId \ {id}
          PROVE  ForwardOK(i)'
      <3>1. forward'[i] = forward[i] /\ ForwardOK(i) /\ forward[i] \in ForwardTask
        BY <1>0, <2>5
      <3>2. forward[i].to # None => Acks(i, forward[i].to)'
        BY <2>1, <2>3, <3>1, AcksKept DEF ForwardOK, ForwardTask
      <3> QED
        BY <3>1, <3>2 DEF ForwardOK
    <2> QED
      BY <2>4, <2>7, <2>8 DEF ForwardInv
  <1> QED
    BY <1>2, <1>3, <1>4 DEF ForwardNext, ForwardSend, ForwardStops

LEMMA ReleaseFrame ==
  ASSUME TypeInv, ReleaseInv,
         \A id \in WatchId :
           forward'[id].to = forward[id].to /\ watchers'[id] \in {None, watchers[id]},
         \A s \in Stream :
           /\ stream'[s].active = stream[s].active
           /\ stream'[s].pc = "ended" => stream[s].active = {}
  PROVE  ReleaseInv'
  <1>1. \A id \in WatchId : forward[id].to # None => forward[id].to \in Stream
    BY DEF TypeInv, ForwardTask
  <1> QED
    BY <1>1 DEF ReleaseInv

LEMMA StreamReleases ==
  ASSUME TypeInv, IdInv, ReleaseInv, NEW s \in Stream, StreamNext(s)
  PROVE  ReleaseInv'
  <1> USE DEF hubVars, histVars
  <1>0. /\ stream[s] \in StreamTask /\ Locals(s) /\ Unused
        /\ \A id \in WatchId : forward[id] \in ForwardTask
        /\ \A t \in Stream : stream[t].pc = "ended" => stream[t].active = {}
        /\ next_watch_id \in Nat
    BY WatchAssumption DEF TypeInv, IdInv, ReleaseInv
  <1>1. CASE CreateInsert(s)
    <2>1. /\ stream'[s].pc = "index" /\ stream'[s].active = stream[s].active
          /\ \A t \in Stream \ {s} : stream'[t] = stream[t]
      BY <1>0, <1>1 DEF CreateInsert, FollowingId, TypeInv, StreamTask
    <2>2. next_watch_id \in WatchId /\ forward[next_watch_id].to = None
      BY <1>0, <1>1, WatchAssumption
      DEF CreateInsert, FollowingId, TypeInv, WatchId, Unused, NoForward
    <2>3. UNCHANGED forward /\ \A i \in WatchId \ {next_watch_id} : watchers'[i] = watchers[i]
      BY <1>1 DEF CreateInsert, FollowingId, TypeInv
    <2>4. ASSUME NEW id \in WatchId, forward'[id].to # None
          PROVE  id \in stream'[forward'[id].to].active \/ watchers'[id] = None
      <3>1. id # next_watch_id /\ forward[id].to \in Stream
        BY <1>0, <2>2, <2>3, <2>4 DEF ForwardTask
      <3>2. id \in stream[forward[id].to].active \/ watchers[id] = None
        BY <2>3, <2>4 DEF ReleaseInv
      <3> QED
        BY <2>1, <2>3, <3>1, <3>2
    <2>5. \A t \in Stream : stream'[t].pc = "ended" => stream'[t].active = {}
      BY <1>0, <2>1
    <2> QED
      BY <2>4, <2>5 DEF ReleaseInv
  <1>2. CASE CreateAck(s)
    <2>1. PICK id \in WatchId : id = stream[s].id
      BY <1>0, <1>2 DEF CreateAck, Locals, Creating
    <2>2. stream[s].active \cup {id} \in SUBSET WatchId
      BY <1>0 DEF StreamTask
    <2>3. /\ stream'[s] = Waiting(stream[s], stream[s].active \cup {id})
          /\ \A t \in Stream \ {s} : stream'[t] = stream[t]
      BY <1>2, <2>1 DEF CreateAck, TypeInv, Activated
    <2>4. stream'[s].pc # "ended" /\ stream'[s].active = stream[s].active \cup {id}
      BY <1>0, <2>2, <2>3, WaitingType
    <2>5. /\ forward'[id].to = s /\ UNCHANGED watchers
          /\ \A i \in WatchId \ {id} : forward'[i] = forward[i]
      BY <1>2, <2>1 DEF CreateAck, TypeInv, NoForward
    <2>6. ASSUME NEW i \in WatchId, forward'[i].to # None
          PROVE  i \in stream'[forward'[i].to].active \/ watchers'[i] = None
      <3>1. CASE i = id
        BY <2>4, <2>5, <3>1
      <3>2. CASE i # id
        <4>1. forward[i].to \in Stream /\ forward'[i] = forward[i]
          BY <1>0, <2>5, <2>6, <3>2 DEF ForwardTask
        <4>2. i \in stream[forward[i].to].active \/ watchers[i] = None
          BY <2>6, <4>1 DEF ReleaseInv
        <4> QED
          BY <2>3, <2>4, <2>5, <4>1, <4>2
      <3> QED
        BY <3>1, <3>2
    <2>7. \A t \in Stream : stream'[t].pc = "ended" => stream'[t].active = {}
      BY <1>0, <2>3, <2>4
    <2> QED
      BY <2>6, <2>7 DEF ReleaseInv
  <1>3. CASE CancelAbort(s)
    <2>1. PICK id \in WatchId : id = stream[s].id
      BY <1>0, <1>3 DEF CancelAbort, Locals, Canceling
    <2>2. watchers[id] = None /\ UNCHANGED watchers
      BY <1>0, <1>3, <2>1 DEF CancelAbort, Locals, Canceling
    <2>3. stream[s].active \ {id} \in SUBSET WatchId
      BY <1>0 DEF StreamTask
    <2>4. /\ stream'[s] = Waiting(stream[s], stream[s].active \ {id})
          /\ \A t \in Stream \ {s} : stream'[t] = stream[t]
      BY <1>3, <2>1 DEF CancelAbort, TypeInv
    <2>5. stream'[s].pc # "ended" /\ stream'[s].active = stream[s].active \ {id}
      BY <1>0, <2>3, <2>4, WaitingType
    <2>6. \A i \in WatchId : forward'[i].to = forward[i].to
      <3>1. forward' = forward \/ forward' = [forward EXCEPT ![id] = Aborted(forward[id])]
        BY <1>3, <2>1 DEF CancelAbort
      <3>2. Aborted(forward[id]).to = forward[id].to
        BY <1>0 DEF Aborted, ForwardTask
      <3> QED
        BY <3>1, <3>2 DEF TypeInv
    <2>7. ASSUME NEW i \in WatchId, forward'[i].to # None
          PROVE  i \in stream'[forward'[i].to].active \/ watchers'[i] = None
      <3>1. forward[i].to \in Stream /\ forward'[i].to = forward[i].to
        BY <1>0, <2>6, <2>7 DEF ForwardTask
      <3>2. i \in stream[forward[i].to].active \/ watchers[i] = None
        BY <2>7, <3>1 DEF ReleaseInv
      <3> QED
        BY <2>2, <2>4, <2>5, <3>1, <3>2
    <2>8. \A t \in Stream : stream'[t].pc = "ended" => stream'[t].active = {}
      BY <1>0, <2>4, <2>5
    <2> QED
      BY <2>7, <2>8 DEF ReleaseInv
  <1>4. ASSUME \A id \in WatchId :
                 forward'[id].to = forward[id].to /\ watchers'[id] \in {None, watchers[id]},
               \A t \in Stream \ {s} : stream'[t] = stream[t],
               stream'[s].active = stream[s].active,
               stream'[s].pc = "ended" => stream[s].active = {}
        PROVE  ReleaseInv'
    BY <1>0, <1>4, ReleaseFrame
  <1>5. CASE CreateAckFails(s)
    <2>1. /\ stream'[s].active = stream[s].active /\ stream'[s].pc = "broken"
          /\ \A t \in Stream \ {s} : stream'[t] = stream[t]
      BY <1>0, <1>5 DEF CreateAckFails, TypeInv, StreamTask
    <2>2. \A id \in WatchId : forward'[id].to = forward[id].to
      BY <1>0, <1>5 DEF CreateAckFails, TypeInv, ForwardTask
    <2> QED
      BY <1>4, <1>5, <2>1, <2>2 DEF CreateAckFails
  <1>6. CASE ClientGone(s)
    BY <1>0, <1>4, <1>6 DEF ClientGone
  <1>7. ASSUME NEW id \in WatchId, RemoveWatcher(s, id)
        PROVE  ReleaseInv'
    <2>1. /\ stream'[s].active = stream[s].active /\ stream'[s].pc # "ended"
          /\ \A t \in Stream \ {s} : stream'[t] = stream[t]
      BY <1>0, <1>7 DEF RemoveWatcher, TypeInv, StreamTask
    <2>2. UNCHANGED forward /\ \A i \in WatchId : watchers'[i] \in {None, watchers[i]}
      BY <1>7 DEF RemoveWatcher, TypeInv
    <2> QED
      BY <1>4, <2>1, <2>2
  <1>8. CASE \/ \E range \in KeyRange, filters \in Filter, requested \in Requested :
                  CreateRequest(s, range, filters, requested)
             \/ CreateIndex(s) \/ Close(s) \/ CloseDone(s) \/ CancelUnlist(s) \/ CancelPrune(s)
    <2>1. /\ stream'[s].active = stream[s].active
          /\ \A t \in Stream \ {s} : stream'[t] = stream[t]
          /\ stream'[s].pc = "ended" => stream[s].active = {}
      BY <1>0, <1>8 DEF CreateRequest, CreateIndex, Close, CloseDone, CancelUnlist, CancelPrune,
                        TypeInv, StreamTask
    <2>2. UNCHANGED <<forward, watchers>>
      BY <1>8 DEF CreateRequest, CreateIndex, Close, CloseDone, CancelUnlist, CancelPrune
    <2> QED
      BY <1>4, <2>1, <2>2
  <1> QED
    BY <1>1, <1>2, <1>3, <1>5, <1>6, <1>7, <1>8 DEF StreamNext, CancelRequest, CloseNext

LEMMA ForwardReleases ==
  ASSUME TypeInv, ReleaseInv, NEW id \in WatchId, ForwardNext(id)
  PROVE  ReleaseInv'
  <1>1. UNCHANGED <<stream, watchers>>
    BY DEF ForwardNext, ForwardTake, ForwardSend, ForwardStops, hubVars
  <1>2. \A s \in Stream : stream[s].pc = "ended" => stream[s].active = {}
    BY DEF ReleaseInv
  <1> QED
    BY <1>1, <1>2, ForwardTo, ReleaseFrame

-----------------------------------------------------------------------------
(***************************************************************************)
(* No event twice.                                                         *)
(***************************************************************************)

LEMMA DueIsOwn ==
  ASSUME TypeInv, WriterInv, NEW w \in Writer, NEW id \in WatchId
  PROVE  Due(w, id) \subseteq writer[w].events /\ Due(w, id) \in Batches
  <1>1. WriterOK(w) /\ writer[w].events \in Batches /\ writer[w].notify[id] \in Batches
    BY DEF WriterInv, TypeInv, WriterTask
  <1> QED
    BY <1>1 DEF Due, WriterOK

LEMMA WriterFrame ==
  ASSUME WriterInv, UNCHANGED <<writer, changes, current_revision>>,
         \A id \in WatchId, e \in Event : Got(id, e)' => Got(id, e)
  PROVE  WriterInv'
  <1>1. \A w \in Writer : WriterOK(w)'
    BY DEF WriterInv, WriterOK
  <1>2. \A w \in Writer, id \in WatchId : Due(w, id)' = Due(w, id)
    BY DEF Due
  <1>3. /\ \A id \in WatchId, e \in Event : Got(id, e)' => e.rev <= current_revision'
        /\ \A id \in WatchId, e \in Event, w \in Writer : Got(id, e)' => e \notin Due(w, id)'
    BY <1>2 DEF WriterInv
  <1>4. /\ \A v, w \in Writer : v # w => writer'[v].events \cap writer'[w].events = {}
        /\ \A e \in changes' : e.rev <= current_revision'
    BY DEF WriterInv
  <1> QED
    BY <1>1, <1>3, <1>4 DEF WriterInv

LEMMA GotFrame ==
  ASSUME UNCHANGED <<chan, out>>, \A id \in WatchId : forward'[id].held = forward[id].held
  PROVE  \A id \in WatchId, e \in Event : Got(id, e)' <=> Got(id, e)
  BY DEF Got, Carries

LEMMA OnceFrame ==
  ASSUME OnceInv, TypeInv, UNCHANGED <<chan, out>>,
         \A id \in WatchId :
           forward'[id].held = forward[id].held /\ forward'[id].to = forward[id].to
  PROVE  OnceInv'
  <1>1. ToOwner'
    BY IndexNat DEF OnceInv, ToOwner, Message
  <1>2. ASSUME NEW id \in WatchId
        PROVE  Once(id)'
    <2>1. Once(id)
      BY DEF OnceInv
    <2> QED
      BY <2>1 DEF Once, Carries
  <1> QED
    BY <1>1, <1>2 DEF OnceInv

LEMMA WritesOnce ==
  ASSUME TypeInv, WriterInv, NEW w \in Writer, NEW newMod, NEW events \in Batches,
         Fresh(events), Writes(w, newMod, events)
  PROVE  WriterInv'
  <1> USE DEF hubVars, histVars
  <1>0. writer[w] \in WriterTask /\ current_revision \in Nat /\ \A e \in Event : e.rev \in Nat
    BY WatchAssumption DEF TypeInv, Revision, Event
  <1>1. /\ UNCHANGED <<chan, out, forward>> /\ changes' = changes \cup events
        /\ current_revision' = current_revision + 1
        /\ \A v \in Writer \ {w} : writer'[v] = writer[v]
    BY DEF Writes, TypeInv
  <1>2. /\ writer'[w].events = events /\ writer'[w].notify = writer[w].notify
        /\ writer'[w].pc \in {"idle", "collect"}
        /\ writer'[w].pc = "idle" => events = {}
        /\ writer[w].events = {} /\ writer[w].notify = NoWrite.notify
    <2>1. writer[w].pc = "idle" /\ writer[w].events = {} /\ writer[w].notify = NoWrite.notify
      BY DEF Writes, WriterInv, WriterOK
    <2>2. writer'[w] = IF events = {} THEN writer[w]
                       ELSE [writer[w] EXCEPT !.pc = "collect", !.events = events]
      BY DEF Writes, TypeInv
    <2> QED
      BY <1>0, <2>1, <2>2 DEF WriterTask
  <1>3. \A e \in events : e \in Event /\ e.rev = current_revision + 1
    BY DEF Fresh, Batches
  <1>4. \A v \in Writer : WriterOK(v)'
    <2>1. WriterOK(w)'
      BY <1>0, <1>1, <1>2, <1>3, NoWriteType DEF WriterOK
    <2>2. ASSUME NEW v \in Writer \ {w}
          PROVE  WriterOK(v)'
      <3>1. WriterOK(v) /\ writer[v].events \in SUBSET Event
        BY DEF WriterInv, TypeInv, WriterTask, Batches
      <3>2. \A e \in writer[v].events : e.rev <= current_revision + 1
        BY <1>0, <3>1 DEF WriterOK
      <3> QED
        BY <1>1, <3>1, <3>2 DEF WriterOK
    <2> QED
      BY <2>1, <2>2
  <1>5. \A v \in Writer \ {w} : writer[v].events \cap events = {}
    <2>1. ASSUME NEW v \in Writer \ {w}, NEW e \in events
          PROVE  e \notin writer[v].events
      BY <1>0, <1>3, <2>1 DEF WriterInv, WriterOK
    <2> QED
      BY <2>1
  <1>6. \A u, v \in Writer : u # v => writer'[u].events \cap writer'[v].events = {}
    <2>1. \A u, v \in Writer \ {w} : u # v => writer'[u].events \cap writer'[v].events = {}
      BY <1>1 DEF WriterInv
    <2> QED
      BY <1>1, <1>2, <1>5, <2>1
  <1>7. \A e \in changes' : e.rev <= current_revision'
    BY <1>0, <1>1, <1>3 DEF WriterInv, TypeInv, Batches
  <1>8. \A id \in WatchId, e \in Event : Got(id, e)' => Got(id, e)
    BY <1>1, GotFrame
  <1>9. ASSUME NEW id \in WatchId, NEW e \in Event, Got(id, e)'
        PROVE  e.rev <= current_revision' /\ \A v \in Writer : e \notin Due(v, id)'
    <2>1. Got(id, e) /\ e.rev <= current_revision
      BY <1>8, <1>9 DEF WriterInv
    <2>2. e \notin events
      BY <1>0, <1>3, <2>1
    <2>3. Due(w, id)' \subseteq events
      BY <1>2, NoWriteType DEF Due
    <2>4. \A v \in Writer \ {w} : Due(v, id)' = Due(v, id)
      BY <1>1 DEF Due
    <2>5. \A v \in Writer \ {w} : e \notin Due(v, id)
      BY <2>1 DEF WriterInv
    <2> QED
      BY <1>0, <1>1, <2>1, <2>2, <2>3, <2>4, <2>5
  <1> QED
    BY <1>4, <1>6, <1>7, <1>9 DEF WriterInv

\* A writer has less to do, and what it has dealt with may have come to the
\* channel of one watch.
LEMMA WriterMoves ==
  ASSUME TypeInv, WriterInv, NEW w \in Writer, NEW moved \in SUBSET Event, NEW to \in WatchId,
         NEW notify \in [WatchId -> Batches],
         \A id \in WatchId : notify[id] \subseteq Due(w, id),
         writer' = [writer EXCEPT ![w] = Sending(writer[w].events, notify)],
         UNCHANGED <<changes, current_revision>>,
         moved \subseteq Due(w, to), moved \cap notify[to] = {},
         \A id \in WatchId, e \in Event : Got(id, e)' => Got(id, e) \/ (id = to /\ e \in moved)
  PROVE  WriterInv'
  <1> DEFINE after == Sending(writer[w].events, notify)
  <1>1. writer[w].events \in Batches
    BY DEF TypeInv, WriterTask
  <1>2. /\ after.pc \in {"idle", "send"} /\ after.notify = notify
        /\ after.events \subseteq writer[w].events
        /\ after.pc = "idle" => after = NoWrite
        /\ after.pc = "send" => after.events = writer[w].events
    BY <1>1, SendingShape
  <1>3. /\ writer'[w] = after
        /\ \A v \in Writer \ {w} : writer'[v] = writer[v]
    BY DEF TypeInv
  <1> HIDE DEF after
  <1>4. \A id \in WatchId : Due(w, id)' = notify[id]
    BY <1>2, <1>3 DEF Due
  <1>5. \A v \in Writer \ {w}, id \in WatchId : Due(v, id)' = Due(v, id)
    BY <1>3 DEF Due
  <1>6. WriterOK(w)'
    <2>1. \A id \in WatchId : notify[id] \subseteq writer[w].events
      BY DueIsOwn
    <2>2. CASE after.pc = "idle"
      <3>1. writer'[w] = NoWrite
        BY <1>2, <1>3, <2>2
      <3>2. NoWrite.events = {}
        BY DEF NoWrite
      <3> QED
        BY <3>1, <3>2, NoWriteType DEF WriterOK
    <2>3. CASE after.pc = "send"
      BY <1>2, <1>3, <2>1, <2>3 DEF WriterOK, WriterInv
    <2> QED
      BY <1>2, <2>2, <2>3
  <1>7. \A v \in Writer \ {w} : WriterOK(v)'
    BY <1>3 DEF WriterOK, WriterInv
  <1>8. \A u, v \in Writer : u # v => writer'[u].events \cap writer'[v].events = {}
    <2>1. \A u \in Writer : writer'[u].events \subseteq writer[u].events
      BY <1>2, <1>3
    <2> QED
      BY <2>1 DEF WriterInv
  <1>9. ASSUME NEW id \in WatchId, NEW e \in Event, Got(id, e)'
        PROVE  e.rev <= current_revision' /\ \A v \in Writer : e \notin Due(v, id)'
    <2>1. CASE Got(id, e)
      <3>1. e.rev <= current_revision /\ \A v \in Writer : e \notin Due(v, id)
        BY <2>1 DEF WriterInv
      <3> QED
        BY <1>4, <1>5, <3>1
    <2>2. CASE id = to /\ e \in moved
      <3>1. e \in Due(w, id) /\ e \in writer[w].events /\ e \notin notify[id]
        BY <2>2, DueIsOwn
      <3>2. e.rev <= current_revision
        BY <3>1 DEF WriterInv, WriterOK
      <3>3. ASSUME NEW v \in Writer \ {w}
            PROVE  e \notin Due(v, id)
        BY <3>1, DueIsOwn DEF WriterInv
      <3> QED
        BY <1>4, <1>5, <3>1, <3>2, <3>3
    <2> QED
      BY <1>9, <2>1, <2>2
  <1>10. \A e \in changes' : e.rev <= current_revision'
    BY DEF WriterInv
  <1> QED
    BY <1>6, <1>7, <1>8, <1>9, <1>10 DEF WriterInv

LEMMA CollectOnce ==
  ASSUME TypeInv, ListsInv, WriterInv, NEW w \in Writer, Collect(w)
  PROVE  WriterInv'
  <1> USE DEF hubVars, histVars
  <1> DEFINE notify == [id \in WatchId |->
               IF watchers[id] # None THEN Collected(id, writer[w].events) ELSE {}]
  <1>1. writer[w].events \in Batches /\ \A id \in WatchId : Due(w, id) = writer[w].events
    BY DEF TypeInv, WriterTask, Collect, Due
  <1>2. notify \in [WatchId -> Batches] /\ \A id \in WatchId : notify[id] \subseteq Due(w, id)
    <2>1. \A id \in WatchId : Collected(id, writer[w].events) \subseteq writer[w].events
      BY <1>1, CollectedOnce
    <2> QED
      BY <1>1, <2>1 DEF Batches
  <1>3. /\ writer' = [writer EXCEPT ![w] = Sending(writer[w].events, notify)]
        /\ UNCHANGED <<changes, current_revision, chan, out, forward>>
    BY DEF Collect, TypeInv
  <1>4. \A id \in WatchId, e \in Event : Got(id, e)' => Got(id, e)
    BY <1>3, GotFrame
  <1> HIDE DEF notify
  <1>5. CASE WatchId = {}
    <2>1. \A v \in Writer : writer[v].notify \in [{} -> Batches]
      BY <1>5 DEF TypeInv, WriterTask
    <2>2. Sending(writer[w].events, notify) = NoWrite
      BY <1>5 DEF Sending
    <2>3. writer'[w] = NoWrite /\ \A v \in Writer \ {w} : writer'[v] = writer[v]
      BY <1>3, <2>2 DEF TypeInv
    <2> QED
      BY <1>3, <1>5, <2>3 DEF WriterInv, WriterOK, NoWrite
  <1>6. CASE WatchId # {}
    <2>1. PICK to \in WatchId : TRUE
      BY <1>6
    <2>2. PICK moved \in SUBSET Event : moved = {}
      OBVIOUS
    <2>3. /\ moved \subseteq Due(w, to) /\ moved \cap notify[to] = {}
          /\ \A id \in WatchId, e \in Event :
               Got(id, e)' => Got(id, e) \/ (id = to /\ e \in moved)
      BY <1>4, <2>2
    <2> QED
      BY <1>2, <1>3, <2>3, WriterMoves
  <1> QED
    BY <1>5, <1>6

\* One more batch in a channel.
LEMMA OneMoreQueued ==
  ASSUME TypeInv, NEW id \in WatchId, NEW batch \in Batches,
         chan' = [chan EXCEPT ![id] = Append(chan[id], batch)]
  PROVE  /\ \A i \in WatchId \ {id} : chan'[i] = chan[i]
         /\ \A n \in DOMAIN chan[id] : n \in DOMAIN chan'[id] /\ chan'[id][n] = chan[id][n]
         /\ \A n \in DOMAIN chan'[id] : n \in DOMAIN chan[id] \/ n = Len(chan[id]) + 1
         /\ Len(chan[id]) + 1 \in DOMAIN chan'[id]
         /\ chan'[id][Len(chan[id]) + 1] = batch
  <1>1. chan[id] \in Seq(Batches) /\ chan'[id] = Append(chan[id], batch)
    BY DEF TypeInv
  <1>2. \A i \in WatchId \ {id} : chan'[i] = chan[i]
    BY DEF TypeInv
  <1>3. ASSUME NEW q \in Seq(Batches)
        PROVE  /\ DOMAIN q = 1..Len(q) /\ Len(q) \in Nat
               /\ DOMAIN Append(q, batch) = 1..(Len(q) + 1)
               /\ Append(q, batch)[Len(q) + 1] = batch
               /\ \A n \in 1..Len(q) : Append(q, batch)[n] = q[n]
    OBVIOUS
  <1>4. /\ DOMAIN chan[id] = 1..Len(chan[id]) /\ Len(chan[id]) \in Nat
        /\ DOMAIN chan'[id] = 1..(Len(chan[id]) + 1)
        /\ chan'[id][Len(chan[id]) + 1] = batch
        /\ \A n \in 1..Len(chan[id]) : chan'[id][n] = chan[id][n]
    BY <1>1, <1>3
  <1>5. ASSUME NEW n \in 1..(Len(chan[id]) + 1)
        PROVE  n \in 1..Len(chan[id]) \/ n = Len(chan[id]) + 1
    BY <1>4
  <1>6. 1..Len(chan[id]) \subseteq 1..(Len(chan[id]) + 1)
        /\ Len(chan[id]) + 1 \in 1..(Len(chan[id]) + 1)
    BY <1>4
  <1> QED
    BY <1>2, <1>4, <1>5, <1>6

LEMMA SendOnce ==
  ASSUME TypeInv, WriterInv, OnceInv, NEW w \in Writer, NEW id \in WatchId, Send(w, id)
  PROVE  WriterInv' /\ OnceInv'
  <1> USE DEF hubVars, histVars
  <1>1. PICK batch \in Batches : batch = writer[w].notify[id]
    BY DEF TypeInv, WriterTask
  <1> DEFINE notify == [writer[w].notify EXCEPT ![id] = {}]
  <1>2. notify \in [WatchId -> Batches]
    BY DEF TypeInv, WriterTask, Batches
  <1>3. /\ writer' = [writer EXCEPT ![w] = Sending(writer[w].events, notify)]
        /\ UNCHANGED <<changes, current_revision, out, forward>>
    BY DEF Send, TypeInv
  <1>4. /\ writer[w].notify \in [WatchId -> Batches]
        /\ \A i \in WatchId : Due(w, i) = writer[w].notify[i]
    BY DEF Send, Due, TypeInv, WriterTask
  <1>5. \A i \in WatchId : notify[i] \subseteq Due(w, i)
    BY <1>4
  <1>6. batch \subseteq Due(w, id) /\ batch \cap notify[id] = {} /\ batch \in SUBSET Event
    BY <1>1, <1>4 DEF Batches
  <1> HIDE DEF notify
  <1>7. CASE UNCHANGED chan
    <2>1. \A i \in WatchId, e \in Event : Got(i, e)' => Got(i, e) \/ (i = id /\ e \in batch)
      BY <1>3, <1>7, GotFrame
    <2>2. WriterInv'
      BY <1>2, <1>3, <1>5, <1>6, <2>1, WriterMoves
    <2>3. OnceInv'
      BY <1>3, <1>7, OnceFrame
    <2> QED
      BY <2>2, <2>3
  <1>8. CASE chan' = [chan EXCEPT ![id] = Append(chan[id], batch)]
    <2> DEFINE N == Len(chan[id]) + 1
    <2>1. /\ \A i \in WatchId \ {id} : chan'[i] = chan[i]
          /\ \A n \in DOMAIN chan[id] : n \in DOMAIN chan'[id] /\ chan'[id][n] = chan[id][n]
          /\ \A n \in DOMAIN chan'[id] : n \in DOMAIN chan[id] \/ n = N
          /\ N \in DOMAIN chan'[id] /\ chan'[id][N] = batch
      BY <1>8, OneMoreQueued
    <2> HIDE DEF N
    <2>2. \A i \in WatchId, e \in Event : Got(i, e)' => Got(i, e) \/ (i = id /\ e \in batch)
      BY <1>3, <2>1 DEF Got, Carries
    <2>3. WriterInv'
      BY <1>2, <1>3, <1>5, <1>6, <2>2, WriterMoves
    <2>4. \A e \in batch : ~ Got(id, e)
      BY <1>6 DEF WriterInv
    <2>5. /\ \A s \in Stream : \A n \in DOMAIN out[s] :
               Carries(s, n, id) => out[s][n].events \cap batch = {}
          /\ forward[id].held \cap batch = {}
          /\ \A i \in DOMAIN chan[id] : chan[id][i] \cap batch = {}
      BY <2>4 DEF Got
    <2>6. Once(id)'
      <3>1. Once(id)
        BY DEF OnceInv
      <3>2. /\ \A s \in Stream : \A m, n \in DOMAIN out'[s] :
                 m # n /\ Carries(s, m, id)' /\ Carries(s, n, id)' =>
                   out'[s][m].events \cap out'[s][n].events = {}
            /\ \A s \in Stream : \A n \in DOMAIN out'[s] :
                 Carries(s, n, id)' => out'[s][n].events \cap forward'[id].held = {}
        BY <1>3, <3>1 DEF Once, Carries
      <3>3. ASSUME NEW s \in Stream, NEW n \in DOMAIN out'[s], Carries(s, n, id)',
                   NEW i \in DOMAIN chan'[id]
            PROVE  out'[s][n].events \cap chan'[id][i] = {}
        <4>1. n \in DOMAIN out[s] /\ Carries(s, n, id) /\ out'[s][n] = out[s][n]
          BY <1>3, <3>3 DEF Carries
        <4> QED
          BY <2>1, <2>5, <3>1, <4>1 DEF Once
      <3>4. \A i \in DOMAIN chan'[id] : forward'[id].held \cap chan'[id][i] = {}
        BY <1>3, <2>1, <2>5, <3>1 DEF Once
      <3>5. \A i, j \in DOMAIN chan'[id] : i # j => chan'[id][i] \cap chan'[id][j] = {}
        <4>1. \A i, j \in DOMAIN chan[id] : i # j => chan[id][i] \cap chan[id][j] = {}
          BY <3>1 DEF Once
        <4> QED
          BY <2>1, <2>5, <4>1
      <3> QED
        BY <3>2, <3>3, <3>4, <3>5 DEF Once
    <2>7. ASSUME NEW i \in WatchId \ {id}
          PROVE  Once(i)'
      <3>1. Once(i) /\ chan'[i] = chan[i]
        BY <2>1 DEF OnceInv
      <3> QED
        BY <1>3, <3>1 DEF Once, Carries
    <2>8. ToOwner'
      BY <1>3 DEF OnceInv, ToOwner
    <2> QED
      BY <2>3, <2>6, <2>7, <2>8 DEF OnceInv
  <1> QED
    BY <1>1, <1>7, <1>8 DEF Send

LEMMA StreamOnce ==
  ASSUME TypeInv, IdInv, WriterInv, OnceInv, NEW s \in Stream, StreamNext(s)
  PROVE  WriterInv' /\ OnceInv'
  <1> USE DEF hubVars, histVars
  <1>0. /\ Locals(s) /\ \A id \in WatchId : forward[id] \in ForwardTask
        /\ UNCHANGED <<writer, changes, current_revision, chan>>
    BY DEF TypeInv, IdInv, StreamNext, CreateRequest, CreateInsert, FollowingId,
       CreateIndex, CreateAck,
           CreateAckFails, ClientGone, CancelRequest, Close, CloseNext, RemoveWatcher, CloseDone,
           CancelUnlist, CancelPrune, CancelAbort
  <1>1. ASSUME UNCHANGED out,
               \A id \in WatchId :
                 forward'[id].held = forward[id].held /\ forward'[id].to = forward[id].to
        PROVE  WriterInv' /\ OnceInv'
    <2>1. \A id \in WatchId, e \in Event : Got(id, e)' => Got(id, e)
      BY <1>0, <1>1, GotFrame
    <2> QED
      BY <1>0, <1>1, <2>1, WriterFrame, OnceFrame
  <1>2. CASE CreateAck(s)
    <2>1. PICK id \in WatchId : id = stream[s].id /\ forward[id] = NoForward
      BY <1>0, <1>2 DEF CreateAck, Locals, Creating
    <2>2. PICK msg \in Message : msg = [kind |-> "created", id |-> id, events |-> {}]
      BY <2>1 DEF Message, Batches
    <2>3. out' = [out EXCEPT ![s] = Append(out[s], msg)]
      BY <1>2, <2>1, <2>2 DEF CreateAck, Acknowledged
    <2>4. /\ forward'[id].to = s /\ forward'[id].held = forward[id].held
          /\ \A i \in WatchId \ {id} : forward'[i] = forward[i]
      BY <1>2, <2>1 DEF CreateAck, TypeInv, NoForward
    <2>5. \A t \in Stream : \A n \in DOMAIN out[t] :
            n \in DOMAIN out'[t] /\ out'[t][n] = out[t][n]
      BY <2>3, OneMore
    <2>6. ASSUME NEW t \in Stream, NEW n \in DOMAIN out'[t], out'[t][n].kind = "events"
          PROVE  n \in DOMAIN out[t] /\ out'[t][n] = out[t][n]
      <3>1. n \in DOMAIN out[t] \/ out'[t][n] = msg
        BY <2>3, OneMore
      <3> QED
        BY <2>2, <2>5, <2>6, <3>1
    <2>7. \A t \in Stream, i \in WatchId : \A n \in DOMAIN out'[t] :
            Carries(t, n, i)' =>
              n \in DOMAIN out[t] /\ Carries(t, n, i) /\ out'[t][n] = out[t][n]
      BY <2>6 DEF Carries
    <2>8. \A i \in WatchId : forward'[i].held = forward[i].held
      BY <2>4
    <2>9. \A i \in WatchId, e \in Event : Got(i, e)' => Got(i, e)
      BY <1>0, <2>7, <2>8 DEF Got
    <2>10. ASSUME NEW i \in WatchId
           PROVE  Once(i)'
      <3>1. Once(i)
        BY DEF OnceInv
      <3> QED
        BY <1>0, <2>7, <2>8, <3>1 DEF Once
    <2>11. ToOwner'
      <3>1. ASSUME NEW t \in Stream, NEW n \in DOMAIN out'[t], out'[t][n].kind = "events"
            PROVE  forward'[out'[t][n].id].to = t
        <4>1. n \in DOMAIN out[t] /\ out'[t][n] = out[t][n]
          BY <2>6, <3>1
        <4>2. out[t][n].id \in WatchId /\ forward[out[t][n].id].to = t
          BY <3>1, <4>1, IndexNat DEF OnceInv, ToOwner, Message
        <4>3. out[t][n].id # id
          BY <2>1, <4>2, NoneAssumption DEF NoForward
        <4> QED
          BY <2>4, <4>1, <4>2, <4>3
      <3> QED
        BY <3>1 DEF ToOwner
    <2> QED
      BY <1>0, <2>9, <2>10, <2>11, WriterFrame DEF OnceInv
  <1>3. CASE CreateAckFails(s)
    <2>1. PICK id \in WatchId : id = stream[s].id
      BY <1>0, <1>3 DEF CreateAckFails, Locals, Creating
    <2>2. /\ UNCHANGED out
          /\ forward' = [forward EXCEPT ![id] = [forward[id] EXCEPT !.pc = "dead"]]
      BY <1>3, <2>1 DEF CreateAckFails
    <2>3. LET f == [forward[id] EXCEPT !.pc = "dead"]
          IN f.held = forward[id].held /\ f.to = forward[id].to
      BY <1>0 DEF ForwardTask
    <2> QED
      BY <1>1, <2>2, <2>3 DEF TypeInv
  <1>4. CASE CancelAbort(s)
    <2>1. PICK id \in WatchId : id = stream[s].id
      BY <1>0, <1>4 DEF CancelAbort, Locals, Canceling
    <2>2. /\ UNCHANGED out
          /\ forward' = forward \/ forward' = [forward EXCEPT ![id] = Aborted(forward[id])]
      BY <1>4, <2>1 DEF CancelAbort
    <2>3. /\ Aborted(forward[id]).held = forward[id].held
          /\ Aborted(forward[id]).to = forward[id].to
      BY <1>0 DEF ForwardTask, Aborted
    <2> QED
      BY <1>1, <2>2, <2>3 DEF TypeInv
  <1>5. CASE UNCHANGED <<forward, out>>
    BY <1>1, <1>5
  <1> QED
    BY <1>2, <1>3, <1>4, <1>5
       DEF StreamNext, CreateRequest, CreateInsert, FollowingId,
       CreateIndex, ClientGone, CancelRequest, Close,
           CloseNext, RemoveWatcher, CloseDone, CancelUnlist, CancelPrune

LEMMA TakeOnce ==
  ASSUME TypeInv, ForwardInv, WriterInv, OnceInv, NEW id \in WatchId, ForwardTake(id)
  PROVE  WriterInv' /\ OnceInv'
  <1> USE DEF hubVars, histVars
  <1>1. /\ UNCHANGED <<writer, changes, current_revision, out>>
        /\ forward[id].held = {} /\ forward[id] \in ForwardTask
        /\ chan[id] \in Seq(Batches) /\ chan[id] # <<>>
    BY DEF ForwardTake, TypeInv, ForwardInv, ForwardOK
  <1>2. /\ forward'[id] = [forward[id] EXCEPT !.pc = "holding", !.held = Head(chan[id])]
        /\ \A i \in WatchId \ {id} : forward'[i] = forward[i] /\ chan'[i] = chan[i]
        /\ chan'[id] = Tail(chan[id])
    BY DEF ForwardTake, TypeInv
  <1>3. forward'[id].held = chan[id][1] /\ forward'[id].to = forward[id].to
    BY <1>1, <1>2 DEF ForwardTask
  <1>4. /\ 1 \in DOMAIN chan[id]
        /\ \A n \in DOMAIN chan'[id] :
             /\ n \in Nat /\ n # 0
             /\ n + 1 \in DOMAIN chan[id] /\ chan'[id][n] = chan[id][n + 1]
    <2>1. ASSUME NEW q \in Seq(Batches), q # <<>>
          PROVE  /\ 1 \in DOMAIN q
                 /\ \A n \in DOMAIN Tail(q) :
                      n \in Nat /\ n # 0 /\ n + 1 \in DOMAIN q /\ Tail(q)[n] = q[n + 1]
      BY <2>1
    <2> QED
      BY <1>1, <1>2, <2>1
  <1>5. ASSUME NEW i \in WatchId, NEW e \in Event, Got(i, e)'
        PROVE  Got(i, e)
    <2>1. CASE i = id
      BY <1>1, <1>3, <1>4, <1>5, <2>1 DEF Got, Carries
    <2>2. CASE i # id
      <3>1. forward'[i] = forward[i] /\ chan'[i] = chan[i]
        BY <1>2, <2>2
      <3> QED
        BY <1>1, <1>5, <3>1 DEF Got, Carries
    <2> QED
      BY <2>1, <2>2
  <1>6. Once(id)'
    <2>1. Once(id)
      BY DEF OnceInv
    <2>2. \A t \in Stream : \A m, n \in DOMAIN out'[t] :
            m # n /\ Carries(t, m, id)' /\ Carries(t, n, id)' =>
              out'[t][m].events \cap out'[t][n].events = {}
      BY <1>1, <2>1 DEF Once, Carries
    <2>3. ASSUME NEW t \in Stream, NEW n \in DOMAIN out'[t], Carries(t, n, id)'
          PROVE  /\ out'[t][n].events \cap forward'[id].held = {}
                 /\ \A i \in DOMAIN chan'[id] : out'[t][n].events \cap chan'[id][i] = {}
      <3>1. n \in DOMAIN out[t] /\ Carries(t, n, id) /\ out'[t][n] = out[t][n]
        BY <1>1, <2>3 DEF Carries
      <3> QED
        BY <1>3, <1>4, <2>1, <3>1 DEF Once
    <2>4. \A i, j \in DOMAIN chan[id] : i # j => chan[id][i] \cap chan[id][j] = {}
      BY <2>1 DEF Once
    <2>5. ASSUME NEW i \in DOMAIN chan'[id]
          PROVE  forward'[id].held \cap chan'[id][i] = {}
      BY <1>3, <1>4, <2>4
    <2>6. ASSUME NEW i \in DOMAIN chan'[id], NEW j \in DOMAIN chan'[id], i # j
          PROVE  chan'[id][i] \cap chan'[id][j] = {}
      BY <1>4, <2>4, <2>6
    <2> QED
      BY <2>2, <2>3, <2>5, <2>6 DEF Once
  <1>7. ASSUME NEW i \in WatchId \ {id}
        PROVE  Once(i)'
    <2>1. Once(i)
      BY DEF OnceInv
    <2> QED
      BY <1>1, <1>2, <2>1 DEF Once, Carries
  <1>8. ToOwner'
    <2>1. \A i \in WatchId : forward'[i].to = forward[i].to
      BY <1>2, <1>3
    <2> QED
      BY <1>1, <2>1, IndexNat DEF OnceInv, ToOwner, Message
  <1> QED
    BY <1>1, <1>5, <1>6, <1>7, <1>8, WriterFrame DEF OnceInv

LEMMA PassOnce ==
  ASSUME TypeInv, ForwardInv, WriterInv, OnceInv, NEW id \in WatchId, ForwardSend(id)
  PROVE  WriterInv' /\ OnceInv'
  <1> USE DEF hubVars, histVars
  <1>1. /\ UNCHANGED <<writer, changes, current_revision, chan>>
        /\ forward[id] \in ForwardTask /\ forward[id].pc = "holding"
        /\ \A i \in WatchId \ {id} : forward'[i] = forward[i]
    BY DEF ForwardSend, TypeInv
  <1>2. CASE UNCHANGED out /\ forward' = [forward EXCEPT ![id].pc = "dead"]
    <2>1. forward'[id].held = forward[id].held /\ forward'[id].to = forward[id].to
      BY <1>1, <1>2 DEF ForwardTask, TypeInv
    <2>2. \A i \in WatchId, e \in Event : Got(i, e)' => Got(i, e)
      BY <1>1, <1>2, <2>1, GotFrame
    <2> QED
      BY <1>1, <1>2, <2>1, <2>2, WriterFrame, OnceFrame
  <1>3. ASSUME out' = [out EXCEPT ![forward[id].to] =
                         Append(out[forward[id].to], Events(id, forward[id].held))],
               forward' = [forward EXCEPT ![id] =
                             [forward[id] EXCEPT !.pc = "waiting", !.held = {}]]
        PROVE  WriterInv' /\ OnceInv'
    <2>1. PICK s \in Stream : s = forward[id].to
      BY <1>1 DEF ForwardInv, ForwardOK, ForwardTask
    <2>2. PICK held \in Batches : held = forward[id].held
      BY <1>1 DEF ForwardTask
    <2>3. PICK msg \in Message : msg = Events(id, held)
      BY DEF Message, Events
    <2>4. msg.id = id /\ msg.kind = "events" /\ msg.events = held
      BY <2>3 DEF Events
    <2>5. out' = [out EXCEPT ![s] = Append(out[s], msg)]
      BY <1>3, <2>1, <2>2, <2>3
    <2>6. forward'[id].held = {} /\ forward'[id].to = s
      BY <1>1, <1>3, <2>1 DEF ForwardTask, TypeInv
    <2> DEFINE N == Len(out[s]) + 1
    <2>7. /\ \A t \in Stream : \A n \in DOMAIN out[t] :
               n \in DOMAIN out'[t] /\ out'[t][n] = out[t][n]
          /\ \A t \in Stream : \A n \in DOMAIN out'[t] : n \in DOMAIN out[t] \/ (t = s /\ n = N)
          /\ out'[s][N] = msg
      BY <2>5, OneMore
    <2> HIDE DEF N
    <2>8. \A t \in Stream, i \in WatchId : \A n \in DOMAIN out'[t] :
            Carries(t, n, i)' =>
              \/ n \in DOMAIN out[t] /\ Carries(t, n, i) /\ out'[t][n] = out[t][n]
              \/ t = s /\ n = N /\ i = id /\ out'[t][n].events = held
      BY <2>4, <2>7 DEF Carries
    <2>9. \A i \in WatchId, e \in Event : Got(i, e)' => Got(i, e)
      <3>1. \A i \in WatchId : forward'[i].held \subseteq forward[i].held
        BY <1>1, <2>6
      <3> QED
        BY <1>1, <2>2, <2>8, <3>1 DEF Got
    <2>10. Once(id)'
      <3>1. Once(id)
        BY DEF OnceInv
      <3>2. ASSUME NEW t \in Stream, NEW m \in DOMAIN out'[t], NEW n \in DOMAIN out'[t],
                   m # n, Carries(t, m, id)', Carries(t, n, id)'
            PROVE  out'[t][m].events \cap out'[t][n].events = {}
        BY <2>2, <2>8, <3>1, <3>2 DEF Once
      <3>3. ASSUME NEW t \in Stream, NEW n \in DOMAIN out'[t], Carries(t, n, id)'
            PROVE  \A i \in DOMAIN chan'[id] : out'[t][n].events \cap chan'[id][i] = {}
        BY <1>1, <2>2, <2>8, <3>1, <3>3 DEF Once
      <3>4. \A i, j \in DOMAIN chan'[id] : i # j => chan'[id][i] \cap chan'[id][j] = {}
        BY <1>1, <3>1 DEF Once
      <3> QED
        BY <2>6, <3>2, <3>3, <3>4 DEF Once
    <2>11. ASSUME NEW i \in WatchId \ {id}
           PROVE  Once(i)'
      <3>1. Once(i) /\ forward'[i] = forward[i]
        BY <1>1 DEF OnceInv
      <3> QED
        BY <1>1, <2>8, <3>1 DEF Once
    <2>12. ToOwner'
      <3>1. ASSUME NEW t \in Stream, NEW n \in DOMAIN out'[t], out'[t][n].kind = "events"
            PROVE  forward'[out'[t][n].id].to = t
        <4>1. CASE n \in DOMAIN out[t] /\ out'[t][n] = out[t][n]
          <5>1. out[t][n].id \in WatchId /\ forward[out[t][n].id].to = t
            BY <3>1, <4>1, IndexNat DEF OnceInv, ToOwner, Message
          <5> QED
            BY <1>1, <2>1, <2>6, <4>1, <5>1
        <4>2. CASE t = s /\ n = N
          BY <2>4, <2>6, <2>7, <4>2
        <4> QED
          BY <2>7, <4>1, <4>2
      <3> QED
        BY <3>1 DEF ToOwner
    <2> QED
      BY <1>1, <2>9, <2>10, <2>11, <2>12, WriterFrame DEF OnceInv
  <1> QED
    BY <1>2, <1>3 DEF ForwardSend

LEMMA StopOnce ==
  ASSUME TypeInv, WriterInv, OnceInv, NEW id \in WatchId, ForwardStops(id)
  PROVE  WriterInv' /\ OnceInv'
  <1> USE DEF hubVars, histVars
  <1>1. /\ UNCHANGED <<writer, changes, current_revision, chan, out>>
        /\ forward[id] \in ForwardTask
        /\ \A i \in WatchId \ {id} : forward'[i] = forward[i]
        /\ forward'[id] = [forward[id] EXCEPT !.pc = "dead"]
    BY DEF ForwardStops, TypeInv
  <1>2. forward'[id].held = forward[id].held /\ forward'[id].to = forward[id].to
    BY <1>1 DEF ForwardTask
  <1>3. \A i \in WatchId, e \in Event : Got(i, e)' => Got(i, e)
    BY <1>1, <1>2, GotFrame
  <1> QED
    BY <1>1, <1>2, <1>3, WriterFrame, OnceFrame

-----------------------------------------------------------------------------
(***************************************************************************)
(* The invariant, and what follows from it.                                *)
(***************************************************************************)

LEMMA InitInv == Init => WatchInv
  <1> SUFFICES ASSUME Init PROVE WatchInv
    OBVIOUS
  <1>1. TypeInv
    <2>1. 0 \in Revision /\ 1 \in Revision /\ 1 \in 1..(MaxWatches + 1)
      BY WatchAssumption DEF Revision
    <2>2. stream \in [Stream -> StreamTask] /\ writer \in [Writer -> WriterTask]
          /\ forward \in [WatchId -> ForwardTask]
      BY IdleType, NoWriteType, NoForwardType DEF Init
    <2>3. chan \in [WatchId -> Seq(Batches)] /\ \A id \in WatchId : Len(chan[id]) <= Capacity
      BY WatchAssumption DEF Init
    <2>4. out \in [Stream -> Seq(Message)]
      BY DEF Init
    <2> QED
      BY <2>1, <2>2, <2>3, <2>4 DEF Init, TypeInv, Batches
  <1>2. IdInv
    BY DEF Init, IdInv, Locals, Apart, Unused, Creating, Canceling, Idle
  <1>a. ListsInv
    BY DEF Init, ListsInv, Listings, Idle
  <1>3. ForwardInv /\ ReleaseInv
    BY DEF Init, ForwardInv, ForwardOK, ReleaseInv, NoForward, Idle
  <1>4. \A s \in Stream : DOMAIN out[s] = {}
    BY DEF Init
  <1>5. \A id \in WatchId : DOMAIN chan[id] = {} /\ forward[id].held = {}
    BY DEF Init, NoForward
  <1>6. CreatedFirst /\ OnceInv
    BY <1>4, <1>5 DEF CreatedFirst, OnceInv, Once, ToOwner
  <1>7. \A id \in WatchId, e \in Event : ~ Got(id, e)
    BY <1>4, <1>5 DEF Got
  <1>8. WriterInv
    BY <1>7, NoWriteType DEF Init, WriterInv, WriterOK, NoWrite
  <1> QED
    BY <1>1, <1>2, <1>3, <1>6, <1>8, <1>a DEF WatchInv

\* One step of one of the tasks.
LEMMA StepInv == WatchInv /\ [Next]_vars => WatchInv'
  <1> SUFFICES ASSUME WatchInv, [Next]_vars PROVE WatchInv'
    OBVIOUS
  <1> USE DEF WatchInv
  <1>1. ASSUME NEW w \in Writer, WriterNext(w)
        PROVE  WatchInv'
    <2>1. TypeInv' /\ IdInv' /\ ListsInv'
      BY <1>1, WriterTypes, WriterIds, WriterLists
    <2>2. UNCHANGED <<stream, watchers, forward, out>>
      BY <1>1 DEF WriterNext, Put, KvDelete, BackgroundDelete, Writes, Collect, Send, hubVars
    <2>3. ForwardInv' /\ CreatedFirst' /\ ReleaseInv'
      BY <2>2, ForwardFrame, CreatedFrame DEF ReleaseInv
    <2>4. CASE \/ \E k \in Key : Put(w, k)
               \/ \E ks \in KeyRange : KvDelete(w, ks)
               \/ \E ks \in KeyRange : BackgroundDelete(w, ks)
      <3>1. PICK newMod \in [Key -> Revision], events \in Batches :
              Fresh(events) /\ Writes(w, newMod, events)
        BY <2>4, Writers
      <3>2. WriterInv'
        BY <3>1, WritesOnce
      <3>3. UNCHANGED <<chan, out, forward>>
        BY <3>1 DEF Writes
      <3> QED
        BY <2>1, <2>3, <3>2, <3>3, OnceFrame
    <2>5. CASE Collect(w)
      <3>1. UNCHANGED <<chan, out, forward>>
        BY <2>5 DEF Collect
      <3> QED
        BY <2>1, <2>3, <2>5, <3>1, CollectOnce, OnceFrame
    <2>6. CASE \E id \in WatchId : Send(w, id)
      BY <2>1, <2>3, <2>6, SendOnce
    <2> QED
      BY <1>1, <2>4, <2>5, <2>6 DEF WriterNext
  <1>2. ASSUME NEW s \in Stream, StreamNext(s)
        PROVE  WatchInv'
    BY <1>2, StreamTypes, StreamIds, StreamListsOnce, StreamForwards, StreamReleases, StreamOnce
  <1>3. ASSUME NEW id \in WatchId, ForwardNext(id)
        PROVE  WatchInv'
    <2>1. TypeInv' /\ IdInv' /\ ListsInv' /\ ForwardInv' /\ CreatedFirst' /\ ReleaseInv'
      BY <1>3, ForwardTypes, ForwardIds, ForwardLists, ForwardForwards, ForwardReleases
    <2>2. WriterInv' /\ OnceInv'
      BY <1>3, TakeOnce, PassOnce, StopOnce DEF ForwardNext
    <2> QED
      BY <2>1, <2>2
  <1>4. CASE UNCHANGED vars
    <2>1. UNCHANGED <<current_revision, mod, watchers, key_watchers, next_watch_id, stream, gone,
                      writer, chan, forward, out, changes, acked, dropped>>
      BY <1>4 DEF vars, hubVars, histVars
    <2>2. TypeInv'
      BY <2>1 DEF TypeInv
    <2>3. IdInv' /\ ListsInv' /\ ForwardInv' /\ CreatedFirst' /\ ReleaseInv'
      BY <2>1, IdFrame, ListsFrame, ForwardFrame, CreatedFrame DEF ReleaseInv
    <2>4. \A id \in WatchId, e \in Event : Got(id, e)' => Got(id, e)
      BY <2>1, GotFrame
    <2>5. WriterInv' /\ OnceInv'
      BY <2>1, <2>4, WriterFrame, OnceFrame
    <2> QED
      BY <2>2, <2>3, <2>5
  <1> QED
    BY <1>1, <1>2, <1>3, <1>4 DEF Next

LEMMA Invariant == Spec => []WatchInv
  BY InitInv, StepInv, PTL DEF Spec

\* The sequence of which Trail takes the batches.
LEMMA LineShape ==
  ASSUME NEW sent \in Seq(Message), NEW msg \in Message, NEW queued \in Seq(Message)
  PROVE  LET line == Append(sent, msg) \o queued
         IN /\ Len(sent) \in Nat /\ DOMAIN sent = 1..Len(sent)
            /\ Len(queued) \in Nat /\ DOMAIN queued = 1..Len(queued)
            /\ DOMAIN line = 1..(Len(sent) + 1 + Len(queued))
            /\ \A n \in 1..Len(sent) : line[n] = sent[n]
            /\ line[Len(sent) + 1] = msg
            /\ \A n \in 1..Len(queued) : line[Len(sent) + 1 + n] = queued[n]
  OBVIOUS

Sent(id) == IF forward[id].to = None THEN <<>> ELSE out[forward[id].to]
Queued(id) == [n \in DOMAIN chan[id] |-> Events(id, chan[id][n])]

LEMMA LineParts ==
  ASSUME TypeInv, NEW id \in WatchId
  PROVE  /\ Sent(id) \in Seq(Message) /\ Queued(id) \in Seq(Message)
         /\ Len(Queued(id)) = Len(chan[id]) /\ Len(chan[id]) \in Nat
         /\ DOMAIN chan[id] = 1..Len(chan[id])
         /\ \A n \in DOMAIN chan[id] : Queued(id)[n] = Events(id, chan[id][n])
         /\ Events(id, forward[id].held) \in Message
  <1>1. forward[id] \in ForwardTask /\ chan[id] \in Seq(Batches)
    BY DEF TypeInv
  <1>2. Sent(id) \in Seq(Message)
    BY <1>1 DEF Sent, TypeInv, ForwardTask
  <1>3. Events(id, forward[id].held) \in Message
    BY <1>1 DEF Events, Message, ForwardTask
  <1>4. \A n \in DOMAIN chan[id] : Events(id, chan[id][n]) \in Message
    BY <1>1 DEF Events, Message
  <1>5. Len(chan[id]) \in Nat /\ DOMAIN chan[id] = 1..Len(chan[id])
    BY <1>1
  <1>6. Queued(id) \in [1..Len(chan[id]) -> Message]
    BY <1>4, <1>5 DEF Queued
  <1>7. Queued(id) \in Seq(Message) /\ Len(Queued(id)) = Len(chan[id])
    BY <1>5, <1>6
  <1> QED
    BY <1>2, <1>3, <1>5, <1>7 DEF Queued

LEMMA TrailShape ==
  ASSUME TypeInv, NEW id \in WatchId
  PROVE  /\ \A n \in DOMAIN Trail(id) :
              \/ /\ forward[id].to \in Stream /\ n \in DOMAIN out[forward[id].to]
                 /\ n \in 1..Len(Sent(id))
                 /\ Carries(forward[id].to, n, id)
                 /\ Trail(id)[n] = out[forward[id].to][n].events
              \/ n = Len(Sent(id)) + 1 /\ Trail(id)[n] = forward[id].held
              \/ \E i \in DOMAIN chan[id] :
                   n = Len(Sent(id)) + 1 + i /\ Trail(id)[n] = chan[id][i]
         /\ forward[id].to \in Stream =>
              \A n \in DOMAIN out[forward[id].to] :
                Carries(forward[id].to, n, id) =>
                  n \in DOMAIN Trail(id) /\ Trail(id)[n] = out[forward[id].to][n].events
         /\ Len(Sent(id)) + 1 \in DOMAIN Trail(id)
         /\ Trail(id)[Len(Sent(id)) + 1] = forward[id].held
         /\ \A i \in DOMAIN chan[id] :
              /\ Len(Sent(id)) + 1 + i \in DOMAIN Trail(id)
              /\ Trail(id)[Len(Sent(id)) + 1 + i] = chan[id][i]
         /\ Len(Sent(id)) \in Nat
  <1>0. /\ Sent(id) \in Seq(Message) /\ Queued(id) \in Seq(Message)
        /\ Events(id, forward[id].held) \in Message
        /\ Len(Queued(id)) = Len(chan[id]) /\ Len(chan[id]) \in Nat
        /\ DOMAIN chan[id] = 1..Len(chan[id])
        /\ \A n \in DOMAIN chan[id] : Queued(id)[n] = Events(id, chan[id][n])
    BY LineParts
  <1>a. PICK sent \in Seq(Message), held \in Message, queued \in Seq(Message) :
          sent = Sent(id) /\ held = Events(id, forward[id].held) /\ queued = Queued(id)
    BY <1>0
  <1>b. PICK line : line = Append(sent, held) \o queued
    OBVIOUS
  <1>c. PICK L \in Nat, Q \in Nat : L = Len(sent) /\ Q = Len(queued)
    OBVIOUS
  <1>d. L = Len(Sent(id)) /\ Q = Len(chan[id])
    BY <1>0, <1>a, <1>c
  <1> DEFINE at == {m \in DOMAIN line : line[m].id = id /\ line[m].kind = "events"}
  <1>1. Trail(id) = [n \in at |-> line[n].events]
    BY <1>a, <1>b DEF Trail, Sent, Queued
  <1>2. /\ DOMAIN Sent(id) = 1..L /\ DOMAIN chan[id] = 1..Q
        /\ DOMAIN line = 1..(L + 1 + Q)
        /\ \A n \in 1..L : line[n] = Sent(id)[n]
        /\ line[L + 1] = held
        /\ \A i \in 1..Q : line[L + 1 + i] = Events(id, chan[id][i])
    <2>1. /\ DOMAIN sent = 1..L /\ DOMAIN line = 1..(L + 1 + Q)
          /\ \A n \in 1..L : line[n] = sent[n]
          /\ line[L + 1] = held
          /\ \A n \in 1..Q : line[L + 1 + n] = queued[n]
      BY <1>b, <1>c, LineShape
    <2> QED
      BY <1>0, <1>a, <1>d, <2>1
  <1>3. \A n \in 1..(L + 1 + Q) : n \in 1..L \/ n = L + 1 \/ \E i \in 1..Q : n = L + 1 + i
    <2>1. ASSUME NEW n \in 1..(L + 1 + Q), ~(n \in 1..L), n # L + 1
          PROVE  \E i \in 1..Q : n = L + 1 + i
      <3>1. n - L - 1 \in 1..Q /\ n = L + 1 + (n - L - 1)
        BY <2>1
      <3> QED
        BY <3>1
    <2> QED
      BY <2>1
  <1>4. /\ 1..L \subseteq DOMAIN line /\ L + 1 \in DOMAIN line
        /\ \A i \in 1..Q : L + 1 + i \in DOMAIN line
    BY <1>2
  <1>5. \A b : Events(id, b).kind = "events" /\ Events(id, b).id = id /\ Events(id, b).events = b
    BY DEF Events
  <1>6. ASSUME NEW n \in 1..L
        PROVE  forward[id].to \in Stream /\ Sent(id) = out[forward[id].to]
    <2>1. forward[id].to \in Stream \cup {None}
      BY DEF TypeInv, ForwardTask
    <2>2. forward[id].to # None
      <3>1. SUFFICES ASSUME forward[id].to = None PROVE FALSE
        OBVIOUS
      <3>2. L = 0
        BY <1>d, <3>1 DEF Sent
      <3> QED
        BY <1>6, <3>2
    <2> QED
      BY <2>1, <2>2 DEF Sent
  <1>7. forward[id].to \in Stream => Sent(id) = out[forward[id].to]
    BY NoneAssumption DEF Sent
  <1>8. \A n \in at :
          \/ n \in 1..L /\ line[n] = Sent(id)[n]
          \/ n = L + 1 /\ line[n] = held
          \/ \E i \in 1..Q : n = L + 1 + i /\ line[n] = Events(id, chan[id][i])
    <2> SUFFICES ASSUME NEW n \in at
                 PROVE  \/ n \in 1..L /\ line[n] = Sent(id)[n]
                        \/ n = L + 1 /\ line[n] = held
                        \/ \E i \in 1..Q : n = L + 1 + i /\ line[n] = Events(id, chan[id][i])
      OBVIOUS
    <2>1. n \in 1..(L + 1 + Q)
      BY <1>2
    <2>2. CASE n \in 1..L
      BY <1>2, <2>2
    <2>3. CASE n = L + 1
      BY <1>2, <2>3
    <2>4. CASE \E i \in 1..Q : n = L + 1 + i
      <3>1. PICK i \in 1..Q : n = L + 1 + i
        BY <2>4
      <3>2. line[n] = Events(id, chan[id][i])
        BY <1>2, <3>1
      <3> QED
        BY <3>1, <3>2
    <2> QED
      BY <1>3, <2>1, <2>2, <2>3, <2>4
  <1>9. /\ L + 1 \in at
        /\ \A i \in 1..Q : L + 1 + i \in at
        /\ \A n \in 1..L :
             Carries(forward[id].to, n, id) /\ Sent(id) = out[forward[id].to] => n \in at
    <2>1. L + 1 \in at
      BY <1>2, <1>4, <1>5, <1>a
    <2>2. ASSUME NEW i \in 1..Q
          PROVE  L + 1 + i \in at
      <3>1. L + 1 + i \in DOMAIN line /\ line[L + 1 + i] = Events(id, chan[id][i])
        BY <1>2, <1>4
      <3> QED
        BY <1>5, <3>1
    <2>3. ASSUME NEW n \in 1..L, Carries(forward[id].to, n, id), Sent(id) = out[forward[id].to]
          PROVE  n \in at
      <3>1. n \in DOMAIN line /\ line[n] = out[forward[id].to][n]
        BY <1>2, <1>4, <2>3
      <3> QED
        BY <2>3, <3>1 DEF Carries
    <2> QED
      BY <2>1, <2>2, <2>3
  <1>10. \A n \in at :
              \/ /\ forward[id].to \in Stream /\ n \in DOMAIN out[forward[id].to]
                 /\ n \in 1..L
                 /\ Carries(forward[id].to, n, id)
                 /\ line[n].events = out[forward[id].to][n].events
              \/ n = L + 1 /\ line[n].events = forward[id].held
              \/ \E i \in DOMAIN chan[id] :
                   n = L + 1 + i /\ line[n].events = chan[id][i]
    <2>1. ASSUME NEW n \in at, n \in 1..L, line[n] = Sent(id)[n]
          PROVE  /\ forward[id].to \in Stream /\ n \in DOMAIN out[forward[id].to]
                 /\ Carries(forward[id].to, n, id)
                 /\ line[n].events = out[forward[id].to][n].events
      <3>1. forward[id].to \in Stream /\ Sent(id) = out[forward[id].to]
        BY <1>6, <2>1
      <3>2. line[n].id = id /\ line[n].kind = "events"
        BY <2>1
      <3> QED
        BY <1>2, <2>1, <3>1, <3>2 DEF Carries
    <2>2. ASSUME NEW n \in at, line[n] = held
          PROVE  line[n].events = forward[id].held
      BY <1>5, <1>a, <2>2
    <2>3. ASSUME NEW n \in at, NEW i \in 1..Q, line[n] = Events(id, chan[id][i])
          PROVE  line[n].events = chan[id][i]
      BY <1>5, <2>3
    <2> HIDE DEF at
    <2> QED
      BY <1>2, <1>8, <2>1, <2>2, <2>3
  <1>11. ASSUME forward[id].to \in Stream, NEW n \in DOMAIN out[forward[id].to],
                Carries(forward[id].to, n, id)
         PROVE  n \in at /\ line[n].events = out[forward[id].to][n].events
    <2>1. Sent(id) = out[forward[id].to] /\ n \in 1..L
      BY <1>2, <1>7, <1>11
    <2>2. line[n] = out[forward[id].to][n]
      BY <1>2, <2>1
    <2> QED
      BY <1>9, <1>11, <2>1, <2>2
  <1>12. /\ L + 1 \in at /\ line[L + 1].events = forward[id].held
         /\ \A i \in DOMAIN chan[id] : L + 1 + i \in at /\ line[L + 1 + i].events = chan[id][i]
    <2>1. L + 1 \in at /\ line[L + 1].events = forward[id].held
      BY <1>2, <1>5, <1>9, <1>a
    <2>2. ASSUME NEW i \in DOMAIN chan[id]
          PROVE  L + 1 + i \in at /\ line[L + 1 + i].events = chan[id][i]
      <3>1. i \in 1..Q
        BY <1>2, <2>2
      <3>2. line[L + 1 + i] = Events(id, chan[id][i])
        BY <1>2, <3>1
      <3> QED
        BY <1>5, <1>9, <3>1, <3>2
    <2> QED
      BY <2>1, <2>2
  <1> HIDE DEF at
  <1>13. DOMAIN Trail(id) = at /\ \A n \in at : Trail(id)[n] = line[n].events
    BY <1>1
  <1>14. \A n \in DOMAIN Trail(id) :
              \/ /\ forward[id].to \in Stream /\ n \in DOMAIN out[forward[id].to]
                 /\ n \in 1..L
                 /\ Carries(forward[id].to, n, id)
                 /\ Trail(id)[n] = out[forward[id].to][n].events
              \/ n = L + 1 /\ Trail(id)[n] = forward[id].held
              \/ \E i \in DOMAIN chan[id] :
                   n = L + 1 + i /\ Trail(id)[n] = chan[id][i]
    BY <1>10, <1>13
  <1>15. /\ L + 1 \in DOMAIN Trail(id) /\ Trail(id)[L + 1] = forward[id].held
         /\ \A i \in DOMAIN chan[id] : /\ L + 1 + i \in DOMAIN Trail(id)
                                       /\ Trail(id)[L + 1 + i] = chan[id][i]
    BY <1>12, <1>13
  <1> QED
    BY <1>d, <1>11, <1>13, <1>14, <1>15

\* Two events of which both have copy number 1 and report the same change are
\* the same.
LEMMA OnceImplies == TypeInv /\ OnceInv => EventsOnce
  <1> SUFFICES ASSUME TypeInv, OnceInv, NEW id \in WatchId,
                      NEW m \in DOMAIN Trail(id), NEW n \in DOMAIN Trail(id),
                      NEW d \in Trail(id)[m], NEW e \in Trail(id)[n], SameChange(d, e)
               PROVE  m = n /\ d = e
    BY DEF EventsOnce
  <1>1. Once(id)
    BY DEF OnceInv
  <1> DEFINE s == forward[id].to
             L == Len(Sent(id))
             Passed(k) == /\ s \in Stream /\ k \in DOMAIN out[s] /\ Carries(s, k, id)
                          /\ Trail(id)[k] = out[s][k].events
             InHand(k) == k = L + 1 /\ Trail(id)[k] = forward[id].held
             Waits(k) == \E i \in DOMAIN chan[id] : k = L + 1 + i /\ Trail(id)[k] = chan[id][i]
  <1>2. \A k \in DOMAIN Trail(id) : Passed(k) \/ InHand(k) \/ Waits(k)
    BY TrailShape
  <1> HIDE DEF L
  <1>3. ASSUME NEW j \in DOMAIN Trail(id), NEW k \in DOMAIN Trail(id), j # k, Passed(j)
        PROVE  Trail(id)[j] \cap Trail(id)[k] = {}
    <2>1. CASE Passed(k)
      BY <1>1, <1>3, <2>1 DEF Once
    <2>2. CASE InHand(k)
      BY <1>1, <1>3, <2>2 DEF Once
    <2>3. CASE Waits(k)
      BY <1>1, <1>3, <2>3 DEF Once
    <2> QED
      BY <1>2, <2>1, <2>2, <2>3
  <1>4. ASSUME NEW j \in DOMAIN Trail(id), NEW k \in DOMAIN Trail(id), InHand(j), Waits(k)
        PROVE  Trail(id)[j] \cap Trail(id)[k] = {}
    BY <1>1, <1>4 DEF Once
  <1>5. ASSUME NEW j \in DOMAIN Trail(id), NEW k \in DOMAIN Trail(id), j # k, Waits(j), Waits(k)
        PROVE  Trail(id)[j] \cap Trail(id)[k] = {}
    <2>1. PICK i \in DOMAIN chan[id] : j = L + 1 + i /\ Trail(id)[j] = chan[id][i]
      BY <1>5
    <2>2. PICK h \in DOMAIN chan[id] : k = L + 1 + h /\ Trail(id)[k] = chan[id][h]
      BY <1>5
    <2>3. i # h
      BY <1>5, <2>1, <2>2
    <2> QED
      BY <1>1, <2>1, <2>2, <2>3 DEF Once
  <1>6. ~ (m # n /\ InHand(m) /\ InHand(n))
    OBVIOUS
  <1>7. \A k \in DOMAIN Trail(id) : Trail(id)[k] \in Batches
    <2>1. forward[id].held \in Batches /\ \A i \in DOMAIN chan[id] : chan[id][i] \in Batches
      BY DEF TypeInv, ForwardTask
    <2>2. ASSUME NEW t \in Stream, NEW k \in DOMAIN out[t] PROVE out[t][k].events \in Batches
      <3>1. out[t] \in Seq(Message)
        BY DEF TypeInv
      <3>2. out[t][k] \in Message
        BY <3>1
      <3> QED
        BY <3>2 DEF Message
    <2> SUFFICES ASSUME NEW k \in DOMAIN Trail(id) PROVE Trail(id)[k] \in Batches
      OBVIOUS
    <2>3. CASE Passed(k)
      BY <2>2, <2>3
    <2>4. CASE InHand(k)
      BY <2>1, <2>4
    <2>5. CASE Waits(k)
      <3>1. PICK i \in DOMAIN chan[id] : Trail(id)[k] = chan[id][i]
        BY <2>5
      <3> QED
        BY <2>1, <3>1, Zenon
    <2> QED
      BY <1>2, <2>3, <2>4, <2>5
  <1> HIDE DEF Passed, InHand, Waits
  <1>8. m # n => Trail(id)[m] \cap Trail(id)[n] = {}
    BY <1>2, <1>3, <1>4, <1>5, <1>6
  <1>9. d \in Event /\ e \in Event /\ d.copy = 1 /\ e.copy = 1
    BY <1>7 DEF Batches
  <1>10. d = e
    BY <1>9 DEF SameChange, Event
  <1> QED
    BY <1>8, <1>10

LEMMA ReleaseImplies == TypeInv /\ ReleaseInv => ClosedReleased
  <1> SUFFICES ASSUME TypeInv, ReleaseInv, NEW id \in WatchId, forward[id].to # None,
                      stream[forward[id].to].pc = "ended"
               PROVE  watchers[id] = None
    BY DEF ClosedReleased
  <1>1. forward[id].to \in Stream
    BY DEF TypeInv, ForwardTask
  <1>2. stream[forward[id].to].active = {}
    BY <1>1 DEF ReleaseInv
  <1> QED
    BY <1>2 DEF ReleaseInv

\* Watches, channels, tasks and messages have their types, and no channel
\* holds more than its capacity, whatever the tasks do in whatever order.
THEOREM TypeCorrect == Spec => []TypeOK
  BY Invariant, TypesImply, PTL DEF WatchInv

\* On every stream the events of a watch follow its acknowledgement: what
\* notify queues for it earlier stays in its channel.
THEOREM AckedFirst == Spec => []CreatedFirst
  BY Invariant, PTL DEF WatchInv

\* No change comes to a watch twice, in one batch or in two, for any number of
\* writers notifying while streams create and cancel watches: notify pushes an
\* event once for every id in every list, and the proof is that create_watch,
\* with its three separate accesses to the hub, and cancel_watch of other
\* streams never put an id into a list a second time.
THEOREM NeverTwice == Spec => []EventsOnce
  BY Invariant, OnceImplies, PTL DEF WatchInv

\* A stream that has ended has none of its watches left in the hub.
THEOREM EndReleases == Spec => []ClosedReleased
  BY Invariant, ReleaseImplies, PTL DEF WatchInv

-----------------------------------------------------------------------------
(***************************************************************************)
(* One stream: notify finds every watcher.  With two streams it may not    *)
(* (WatchPrune.cfg): cancel_watch of one prunes the list that create_watch *)
(* of the other has just added to.                                         *)
(***************************************************************************)

OneStream == \A s, t \in Stream : s = t

\* The step of the only stream leaves every watcher listed.
LEMMA StreamLists ==
  ASSUME OneStream, TypeInv, IdInv, ListedInv, NEW s \in Stream, StreamNext(s)
  PROVE  ListedInv'
  <1> USE DEF hubVars, histVars
  <1>0. /\ stream[s] \in StreamTask /\ Locals(s) /\ \A t \in Stream : t = s
        /\ \A id \in WatchId : watchers[id] \in Watcher \cup {None}
        /\ \A r \in KeyRange : key_watchers[r] \in [WatchId -> Nat] \cup {None}
        /\ DOMAIN stream = Stream /\ DOMAIN watchers = WatchId /\ DOMAIN key_watchers = KeyRange
    BY DEF TypeInv, IdInv, OneStream
  <1>1. /\ \A id \in WatchId :
             watchers[id] # None =>
               IsListed(id) \/ (stream[s].pc = "index" /\ stream[s].id = id)
        /\ stream[s].pc = "prune" => key_watchers[stream[s].watch.range] = NoIds
    BY <1>0 DEF ListedInv
  <1>2. ASSUME \A id \in WatchId :
                 watchers'[id] # None =>
                   IsListed(id)' \/ (stream'[s].pc = "index" /\ stream'[s].id = id),
               stream'[s].pc = "prune" => key_watchers'[stream'[s].watch.range] = NoIds
        PROVE  ListedInv'
    BY <1>0, <1>2 DEF ListedInv
  <1>3. \A id \in WatchId : watchers[id] # None => watchers[id].range \in KeyRange
    BY <1>0 DEF Watcher
  <1>4. CASE \/ \E range \in KeyRange, filters \in Filter, requested \in Requested :
                  CreateRequest(s, range, filters, requested)
             \/ CreateAck(s) \/ CreateAckFails(s) \/ Close(s) \/ CloseDone(s) \/ CancelAbort(s)
    <2>1. UNCHANGED <<watchers, key_watchers>> /\ stream[s].pc # "index"
      BY <1>4 DEF CreateRequest, CreateAck, CreateAckFails, Close, CloseDone, CancelAbort
    <2>2. stream'[s].pc # "prune"
      <3>1. CASE CreateAck(s)
        <4>1. Activated(stream[s].active, stream[s].id) \in SUBSET WatchId
          BY <1>0, <3>1 DEF CreateAck, Locals, Creating, StreamTask, Activated
        <4> QED
          BY <1>0, <3>1, <4>1, WaitingType DEF CreateAck
      <3>2. CASE CancelAbort(s)
        <4>1. stream[s].active \ {stream[s].id} \in SUBSET WatchId
          BY <1>0 DEF StreamTask
        <4> QED
          BY <1>0, <3>2, <4>1, WaitingType DEF CancelAbort
      <3>3. CASE \/ \E range \in KeyRange, filters \in Filter, requested \in Requested :
                      CreateRequest(s, range, filters, requested)
                 \/ CreateAckFails(s) \/ Close(s) \/ CloseDone(s)
        BY <1>0, <3>3 DEF CreateRequest, CreateAckFails, Close, CloseDone, StreamTask
      <3> QED
        BY <1>4, <3>1, <3>2, <3>3
    <2> QED
      BY <1>1, <1>2, <2>1, <2>2 DEF IsListed
  <1>5. CASE ClientGone(s)
    <2>1. UNCHANGED <<watchers, key_watchers, stream>>
      BY <1>5 DEF ClientGone
    <2> QED
      BY <1>1, <1>2, <2>1 DEF IsListed
  <1>6. CASE CreateInsert(s)
    <2>1. /\ UNCHANGED key_watchers /\ stream[s].pc # "index" /\ stream'[s].pc = "index"
          /\ stream'[s].id = next_watch_id
          /\ \A id \in WatchId : id # next_watch_id => watchers'[id] = watchers[id]
      BY <1>0, <1>6 DEF CreateInsert, FollowingId, StreamTask
    <2> QED
      BY <1>1, <1>2, <2>1 DEF IsListed
  <1>7. CASE CreateIndex(s)
    <2>1. PICK id \in WatchId : id = stream[s].id
      BY <1>0, <1>7 DEF CreateIndex, Locals, Creating
    <2>2. PICK r \in KeyRange : r = stream[s].watch.range
      BY <1>0, <1>7 DEF CreateIndex, Locals, Watcher
    <2>3. watchers[id] # None => watchers[id].range = r
      BY <1>0, <1>7, <2>1, <2>2 DEF CreateIndex, Locals
    <2>4. /\ UNCHANGED watchers /\ stream'[s].pc = "ack"
          /\ key_watchers' = [key_watchers EXCEPT ![r] = Pushed(key_watchers[r], id)]
      BY <1>0, <1>7, <2>1, <2>2 DEF CreateIndex, StreamTask
    <2>5. /\ key_watchers'[r] # None /\ key_watchers'[r][id] # 0
          /\ key_watchers[r] # None =>
               \A i \in WatchId : i # id => key_watchers'[r][i] = key_watchers[r][i]
          /\ \A q \in KeyRange \ {r} : key_watchers'[q] = key_watchers[q]
      <3>1. PICK ids \in [WatchId -> Nat] \cup {None} : ids = key_watchers[r]
        BY <1>0
      <3>2. PICK new \in [WatchId -> Nat] : new = Pushed(ids, id)
        BY PushedType
      <3>3. /\ new[id] = (IF ids = None THEN 1 ELSE ids[id] + 1)
            /\ \A i \in WatchId : i # id => new[i] = IF ids = None THEN 0 ELSE ids[i]
        BY <3>2, PushedType
      <3>4. new[id] # 0
        BY <3>1, <3>3
      <3>5. new # None
        BY IdsNotNone
      <3> QED
        BY <1>0, <2>4, <3>1, <3>2, <3>3, <3>4, <3>5
    <2>6. ASSUME NEW i \in WatchId, watchers'[i] # None
          PROVE  IsListed(i)'
      <3>1. CASE i = id
        BY <2>3, <2>4, <2>5, <2>6, <3>1 DEF IsListed
      <3>2. CASE i # id
        <4>1. IsListed(i) /\ watchers[i].range \in KeyRange
          BY <1>1, <1>3, <2>1, <2>4, <2>6, <3>2
        <4> QED
          BY <2>4, <2>5, <4>1 DEF IsListed
      <3> QED
        BY <3>1, <3>2
    <2> QED
      BY <1>2, <2>4, <2>6
  <1>8. ASSUME NEW id \in WatchId, stream[s].pc # "index", RemoveWatcher(s, id)
        PROVE  ListedInv'
    <2>1. /\ UNCHANGED key_watchers /\ stream'[s].pc # "prune"
          /\ \A i \in WatchId : watchers'[i] # None => watchers'[i] = watchers[i]
      BY <1>0, <1>8 DEF RemoveWatcher, StreamTask
    <2> QED
      BY <1>1, <1>2, <1>8, <2>1 DEF IsListed
  <1>9. CASE CancelUnlist(s)
    <2>1. PICK id \in WatchId : id = stream[s].id /\ watchers[id] = None
      BY <1>0, <1>9 DEF CancelUnlist, Locals, Canceling
    <2>2. PICK r \in KeyRange : r = stream[s].watch.range
      BY <1>0, <1>9 DEF CancelUnlist, Locals, Watcher
    <2> DEFINE rest == Unlisted(key_watchers[r], id)
    <2>3. /\ UNCHANGED watchers /\ stream[s].pc = "unlist"
          /\ key_watchers' = [key_watchers EXCEPT ![r] = rest]
          /\ stream'[s].pc = (IF rest = NoIds THEN "prune" ELSE "abort")
          /\ stream'[s].watch = stream[s].watch
      BY <1>0, <1>9, <2>1, <2>2 DEF CancelUnlist, StreamTask
    <2>4. /\ key_watchers'[r] = rest
          /\ \A q \in KeyRange \ {r} : key_watchers'[q] = key_watchers[q]
      BY <1>0, <2>3
    <2>5. key_watchers[r] # None =>
            rest # None /\ \A i \in WatchId : i # id => rest[i] = key_watchers[r][i]
      BY <1>0, IdsNotNone, UnlistedType
    <2> HIDE DEF rest
    <2>6. ASSUME NEW i \in WatchId, watchers'[i] # None
          PROVE  IsListed(i)'
      <3>1. IsListed(i) /\ watchers[i].range \in KeyRange /\ i # id
        BY <1>1, <1>3, <2>1, <2>3, <2>6
      <3> QED
        BY <2>3, <2>4, <2>5, <3>1 DEF IsListed
    <2>7. stream'[s].pc = "prune" => key_watchers'[stream'[s].watch.range] = NoIds
      BY <2>2, <2>3, <2>4
    <2> QED
      BY <1>2, <2>6, <2>7
  <1>10. CASE CancelPrune(s)
    <2>1. PICK r \in KeyRange : r = stream[s].watch.range
      BY <1>0, <1>10 DEF CancelPrune, Locals, Watcher
    <2>2. /\ UNCHANGED watchers /\ stream[s].pc = "prune" /\ stream'[s].pc = "abort"
          /\ key_watchers' = [key_watchers EXCEPT ![r] = None]
      BY <1>0, <1>10, <2>1 DEF CancelPrune, StreamTask
    <2>3. key_watchers[r] = NoIds /\ \A q \in KeyRange \ {r} : key_watchers'[q] = key_watchers[q]
      BY <1>0, <1>1, <2>1, <2>2
    <2>4. ASSUME NEW i \in WatchId, watchers'[i] # None
          PROVE  IsListed(i)'
      <3>1. IsListed(i) /\ watchers[i].range \in KeyRange
        BY <1>1, <1>3, <2>2, <2>4
      <3>2. watchers[i].range # r
        BY <2>3, <3>1 DEF IsListed, NoIds
      <3> QED
        BY <2>2, <2>3, <3>1, <3>2 DEF IsListed
    <2> QED
      BY <1>2, <2>2, <2>4
  <1>11. ASSUME NEW id \in WatchId, CancelRequest(s, id) \/ CloseNext(s, id)
         PROVE  ListedInv'
    BY <1>8, <1>11 DEF CancelRequest, CloseNext
  <1> QED
    BY <1>4, <1>5, <1>6, <1>7, <1>9, <1>10, <1>11 DEF StreamNext

LEMMA ListedImplies == TypeInv /\ ListedInv => Reachable
  <1> SUFFICES ASSUME TypeInv, ListedInv, NEW id \in WatchId, watchers[id] # None,
                      \A s \in Stream : stream[s].pc = "index" => stream[s].id # id
               PROVE  Listings(id) # {}
    BY DEF Reachable
  <1>1. IsListed(id)
    BY DEF ListedInv
  <1>2. watchers[id].range \in KeyRange
    BY DEF TypeInv, Watcher
  <1> DEFINE r == watchers[id].range
  <1>3. key_watchers[r] # None /\ key_watchers[r][id] \in Nat \ {0}
    BY <1>1, <1>2 DEF IsListed, TypeInv
  <1> HIDE DEF r
  <1>4. <<r, 1>> \in {r} \X (1..key_watchers[r][id])
    BY <1>3
  <1> QED
    BY <1>2, <1>3, <1>4 DEF Listings, r

\* With one stream, notify finds every watcher that create_watch has
\* registered: the hypothesis is needed, WatchPrune.cfg violates Reachable
\* with two.
LEMMA OneStreamReachable == ASSUME OneStream PROVE Spec => []Reachable
  <1>1. Init => ListedInv
    BY DEF Init, ListedInv, Idle
  <1>2. WatchInv /\ ListedInv /\ [Next]_vars => ListedInv'
    <2> SUFFICES ASSUME WatchInv, ListedInv, [Next]_vars PROVE ListedInv'
      OBVIOUS
    <2>1. ASSUME UNCHANGED <<watchers, key_watchers, stream>> PROVE ListedInv'
      BY <2>1 DEF ListedInv, IsListed
    <2>2. ASSUME NEW w \in Writer, WriterNext(w) PROVE ListedInv'
      BY <2>1, <2>2
         DEF WriterNext, Put, KvDelete, BackgroundDelete, Writes, Collect, Send, hubVars
    <2>3. ASSUME NEW s \in Stream, StreamNext(s) PROVE ListedInv'
      BY <2>3, StreamLists DEF WatchInv
    <2>4. ASSUME NEW id \in WatchId, ForwardNext(id) PROVE ListedInv'
      BY <2>1, <2>4 DEF ForwardNext, ForwardTake, ForwardSend, ForwardStops, hubVars
    <2>5. CASE UNCHANGED vars
      BY <2>1, <2>5 DEF vars, hubVars
    <2> QED
      BY <2>2, <2>3, <2>4, <2>5 DEF Next
  <1>3. WatchInv => TypeInv
    BY DEF WatchInv
  <1> QED
    BY <1>1, <1>2, <1>3, Invariant, ListedImplies, PTL DEF Spec

-----------------------------------------------------------------------------
(***************************************************************************)
(* Nothing is lost silently, as long as notify finds the watchers.         *)
(***************************************************************************)

\* What has come to a watch's channel stays on its way.
LEMMA StreamGot ==
  ASSUME TypeInv, IdInv, NEW s \in Stream, StreamNext(s), NEW i \in WatchId, NEW e \in Event,
         Got(i, e)
  PROVE  Got(i, e)'
  <1> USE DEF hubVars, histVars
  <1>0. Locals(s) /\ UNCHANGED chan /\ \A id \in WatchId : forward[id] \in ForwardTask
    BY DEF TypeInv, IdInv, StreamNext, CreateRequest, CreateInsert, FollowingId,
       CreateIndex, CreateAck,
           CreateAckFails, ClientGone, CancelRequest, Close, CloseNext, RemoveWatcher, CloseDone,
           CancelUnlist, CancelPrune, CancelAbort
  <1>1. ASSUME \A id \in WatchId : forward'[id].held = forward[id].held, UNCHANGED out
        PROVE  Got(i, e)'
    BY <1>0, <1>1, GotFrame
  <1>2. CASE CreateAck(s)
    <2>1. PICK id \in WatchId : id = stream[s].id /\ forward[id] = NoForward
      BY <1>0, <1>2 DEF CreateAck, Locals, Creating
    <2>2. PICK msg \in Message : msg = [kind |-> "created", id |-> id, events |-> {}]
      BY <2>1 DEF Message, Batches
    <2>3. out' = [out EXCEPT ![s] = Append(out[s], msg)]
      BY <1>2, <2>1, <2>2 DEF CreateAck, Acknowledged
    <2>4. forward'[i].held = forward[i].held
      BY <1>2, <2>1 DEF CreateAck, TypeInv, NoForward
    <2>5. \A t \in Stream : \A n \in DOMAIN out[t] :
            n \in DOMAIN out'[t] /\ out'[t][n] = out[t][n]
      BY <2>3, OneMore
    <2> QED
      BY <1>0, <2>4, <2>5 DEF Got, Carries
  <1>3. CASE CreateAckFails(s)
    <2>1. PICK id \in WatchId : id = stream[s].id
      BY <1>0, <1>3 DEF CreateAckFails, Locals, Creating
    <2>2. /\ UNCHANGED out
          /\ forward' = [forward EXCEPT ![id] = [forward[id] EXCEPT !.pc = "dead"]]
      BY <1>3, <2>1 DEF CreateAckFails
    <2>3. [forward[id] EXCEPT !.pc = "dead"].held = forward[id].held
      BY <1>0 DEF ForwardTask
    <2> QED
      BY <1>1, <2>2, <2>3 DEF TypeInv
  <1>4. CASE CancelAbort(s)
    <2>1. PICK id \in WatchId : id = stream[s].id
      BY <1>0, <1>4 DEF CancelAbort, Locals, Canceling
    <2>2. /\ UNCHANGED out
          /\ forward' = forward \/ forward' = [forward EXCEPT ![id] = Aborted(forward[id])]
      BY <1>4, <2>1 DEF CancelAbort
    <2>3. Aborted(forward[id]).held = forward[id].held
      BY <1>0 DEF ForwardTask, Aborted
    <2> QED
      BY <1>1, <2>2, <2>3 DEF TypeInv
  <1>5. CASE UNCHANGED <<forward, out>>
    BY <1>1, <1>5
  <1> QED
    BY <1>2, <1>3, <1>4, <1>5
       DEF StreamNext, CreateRequest, CreateInsert, FollowingId,
       CreateIndex, ClientGone, CancelRequest, Close,
           CloseNext, RemoveWatcher, CloseDone, CancelUnlist, CancelPrune

LEMMA ForwardGot ==
  ASSUME TypeInv, ForwardInv, NEW id \in WatchId, ForwardNext(id), NEW i \in WatchId,
         NEW e \in Event, Got(i, e)
  PROVE  Got(i, e)'
  <1> USE DEF hubVars, histVars
  <1>1. CASE ForwardTake(id)
    <2>1. /\ UNCHANGED out /\ forward[id].held = {} /\ forward[id] \in ForwardTask
          /\ chan[id] \in Seq(Batches) /\ chan[id] # <<>>
      BY <1>1 DEF ForwardTake, TypeInv, ForwardInv, ForwardOK
    <2>2. /\ forward'[id] = [forward[id] EXCEPT !.pc = "holding", !.held = Head(chan[id])]
          /\ \A k \in WatchId \ {id} : forward'[k] = forward[k] /\ chan'[k] = chan[k]
          /\ chan'[id] = Tail(chan[id])
      BY <1>1 DEF ForwardTake, TypeInv
    <2>3. forward'[id].held = chan[id][1]
      BY <2>1, <2>2 DEF ForwardTask
    <2>4. \A n \in DOMAIN chan[id] :
            n = 1 \/ (n - 1 \in DOMAIN chan'[id] /\ chan'[id][n - 1] = chan[id][n])
      <3>1. ASSUME NEW q \in Seq(Batches), q # <<>>, NEW n \in DOMAIN q, n # 1
            PROVE  n - 1 \in DOMAIN Tail(q) /\ Tail(q)[n - 1] = q[n]
        BY <3>1
      <3> QED
        BY <2>1, <2>2, <3>1
    <2>5. CASE i = id
      BY <2>1, <2>3, <2>4, <2>5 DEF Got, Carries
    <2>6. CASE i # id
      <3>1. forward'[i] = forward[i] /\ chan'[i] = chan[i]
        BY <2>2, <2>6
      <3> QED
        BY <2>1, <3>1 DEF Got, Carries
    <2> QED
      BY <2>5, <2>6
  <1>2. ASSUME UNCHANGED <<chan, out>>, forward' = [forward EXCEPT ![id].pc = "dead"]
        PROVE  Got(i, e)'
    <2>1. \A k \in WatchId : forward'[k].held = forward[k].held
      BY <1>2 DEF TypeInv, ForwardTask
    <2> QED
      BY <1>2, <2>1, GotFrame
  <1>3. ASSUME forward[id].pc = "holding", UNCHANGED chan,
               out' = [out EXCEPT ![forward[id].to] =
                         Append(out[forward[id].to], Events(id, forward[id].held))],
               forward' = [forward EXCEPT ![id] =
                             [forward[id] EXCEPT !.pc = "waiting", !.held = {}]]
        PROVE  Got(i, e)'
    <2>0. forward[id] \in ForwardTask
      BY DEF TypeInv
    <2>1. PICK s \in Stream : s = forward[id].to
      BY <1>3, <2>0 DEF ForwardInv, ForwardOK, ForwardTask
    <2>2. PICK msg \in Message : msg = Events(id, forward[id].held)
      BY <2>0 DEF Message, Events, ForwardTask
    <2>3. msg.id = id /\ msg.kind = "events" /\ msg.events = forward[id].held
      BY <2>2 DEF Events
    <2>4. out' = [out EXCEPT ![s] = Append(out[s], msg)]
      BY <1>3, <2>1, <2>2
    <2>a. Len(out[s]) + 1 \in DOMAIN out'[s] /\ out'[s][Len(out[s]) + 1] = msg
      BY <2>4, OneMore, Zenon
    <2>5. PICK N : N \in DOMAIN out'[s] /\ out'[s][N] = msg
      BY <2>a
    <2>6. \A t \in Stream : \A n \in DOMAIN out[t] :
            n \in DOMAIN out'[t] /\ out'[t][n] = out[t][n]
      BY <2>4, OneMore, Zenon
    <2>7. CASE i = id /\ e \in forward[id].held
      BY <2>3, <2>5, <2>7 DEF Got, Carries
    <2>8. CASE i # id \/ e \notin forward[id].held
      <3>1. i # id => forward'[i] = forward[i]
        BY <1>3 DEF TypeInv
      <3>2. CASE \E j \in DOMAIN chan[i] : e \in chan[i][j]
        BY <1>3, <3>2 DEF Got
      <3>3. CASE e \in forward[i].held
        BY <2>8, <3>1, <3>3 DEF Got
      <3>4. CASE \E t \in Stream : \E n \in DOMAIN out[t] :
                   Carries(t, n, i) /\ e \in out[t][n].events
        <4>0. PICK t \in Stream : \E n \in DOMAIN out[t] :
                Carries(t, n, i) /\ e \in out[t][n].events
          BY <3>4
        <4>1. PICK n \in DOMAIN out[t] : Carries(t, n, i) /\ e \in out[t][n].events
          BY <4>0
        <4>2. n \in DOMAIN out'[t] /\ out'[t][n] = out[t][n]
          BY <2>6, <4>1
        <4> QED
          BY <4>1, <4>2 DEF Got, Carries
      <3> QED
        BY <3>2, <3>3, <3>4 DEF Got
    <2> QED
      BY <2>7, <2>8
  <1> QED
    BY <1>1, <1>2, <1>3 DEF ForwardNext, ForwardSend, ForwardStops

\* Some task answers for e: it is on its way to watch id, was refused, or has
\* still to be sent.
Answered(id, e) == Got(id, e) \/ e \in dropped[id] \/ \E w \in Writer : e \in Due(w, id)

LEMMA WriterLoss ==
  ASSUME WatchInv, LossInv, Reachable, NEW w \in Writer, WriterNext(w)
  PROVE  LossInv'
  <1> USE DEF hubVars, histVars
  <1> SUFFICES ASSUME NEW id \in WatchId, NEW e \in changes', Meant(id, e)'
               PROVE  Answered(id, e)'
    BY DEF LossInv, Answered
  <1>0. /\ TypeInv /\ IdInv /\ ListsInv /\ WriterInv
        /\ UNCHANGED <<watchers, key_watchers, acked, stream, out, forward>>
    BY DEF WatchInv, WriterNext, Put, KvDelete, BackgroundDelete, Writes, Collect, Send
  <1>1. Meant(id, e)
    BY <1>0 DEF Meant, Wants
  <1>2. e \in changes => e \in Event /\ Answered(id, e)
    BY <1>0, <1>1 DEF LossInv, Answered, TypeInv, Batches
  <1>3. CASE \/ \E k \in Key : Put(w, k)
             \/ \E ks \in KeyRange : KvDelete(w, ks)
             \/ \E ks \in KeyRange : BackgroundDelete(w, ks)
    <2>1. PICK newMod \in [Key -> Revision], events \in Batches :
            Fresh(events) /\ Writes(w, newMod, events)
      BY <1>0, <1>3, Writers
    <2>2. /\ changes' = changes \cup events /\ UNCHANGED <<chan, dropped>>
          /\ \A v \in Writer \ {w} : writer'[v] = writer[v]
          /\ writer'[w] = (IF events = {} THEN writer[w]
                           ELSE [writer[w] EXCEPT !.pc = "collect", !.events = events])
          /\ writer[w].pc = "idle"
      BY <1>0, <2>1 DEF Writes, TypeInv
    <2>3. CASE e \in events
      <3>1. writer[w] \in WriterTask
        BY <1>0 DEF TypeInv
      <3>2. writer'[w].pc = "collect" /\ writer'[w].events = events
        BY <2>2, <2>3, <3>1 DEF WriterTask
      <3>3. e \in Due(w, id)'
        BY <2>3, <3>2 DEF Due
      <3> QED
        BY <3>3 DEF Answered
    <2>4. CASE e \in changes
      <3>1. Due(w, id) = {}
        BY <1>0, <2>2, NoWriteType DEF WriterInv, WriterOK, Due
      <3>2. \A v \in Writer \ {w} : Due(v, id)' = Due(v, id)
        BY <2>2 DEF Due
      <3>3. Got(id, e) => Got(id, e)'
        BY <1>0, <1>2, <2>2, <2>4, GotFrame
      <3> QED
        BY <1>2, <2>2, <2>4, <3>1, <3>2, <3>3 DEF Answered
    <2> QED
      BY <2>2, <2>3, <2>4
  <1>4. CASE Collect(w)
    <2> DEFINE notify == [i \in WatchId |->
                 IF watchers[i] # None THEN Collected(i, writer[w].events) ELSE {}]
    <2>1. /\ UNCHANGED <<changes, chan, dropped>> /\ writer[w].pc = "collect"
          /\ writer' = [writer EXCEPT ![w] = Sending(writer[w].events, notify)]
          /\ writer[w].events \in Batches
      BY <1>0, <1>4 DEF Collect, TypeInv, WriterTask
    <2>2. Listings(id) # {}
      <3>1. \A s \in Stream : stream[s].pc = "index" => stream[s].id # id
        BY <1>0, <1>1 DEF Meant, IdInv, Locals, Creating
      <3> QED
        BY <1>1, <3>1 DEF Reachable, Meant
    <2>3. e \in writer[w].events => e \in notify[id]
      <3>1. Collected(id, writer[w].events)
              = {x \in writer[w].events : Wants(watchers[id], x)}
        BY <1>0, <2>1, <2>2, CollectedOnce
      <3> QED
        BY <1>1, <3>1 DEF Meant
    <2>4. notify \in [WatchId -> Batches]
      <3>1. \A i \in WatchId : Collected(i, writer[w].events) \subseteq writer[w].events
        BY <1>0, <2>1, CollectedOnce
      <3> QED
        BY <2>1, <3>1 DEF Batches
    <2> HIDE DEF notify
    <2>5. /\ \A v \in Writer \ {w} : Due(v, id)' = Due(v, id)
          /\ Due(w, id) = writer[w].events /\ Due(w, id)' = notify[id]
      <3>1. \A v \in Writer \ {w} : writer'[v] = writer[v]
        BY <1>0, <2>1 DEF TypeInv
      <3>2. writer'[w] = Sending(writer[w].events, notify)
        BY <1>0, <2>1 DEF TypeInv
      <3>3. writer'[w].pc \in {"idle", "send"} /\ writer'[w].notify = notify
        BY <2>1, <2>4, <3>2, SendingShape
      <3> QED
        BY <2>1, <3>1, <3>3 DEF Due
    <2>6. Got(id, e) => Got(id, e)'
      BY <1>0, <1>2, <2>1, GotFrame
    <2> QED
      BY <1>2, <2>1, <2>3, <2>5, <2>6 DEF Answered
  <1>5. ASSUME NEW to \in WatchId, Send(w, to)
        PROVE  Answered(id, e)'
    <2>1. PICK batch \in Batches : batch = writer[w].notify[to]
      BY <1>0 DEF TypeInv, WriterTask
    <2> DEFINE notify == [writer[w].notify EXCEPT ![to] = {}]
    <2>2. /\ UNCHANGED changes /\ writer[w].pc = "send"
          /\ writer' = [writer EXCEPT ![w] = Sending(writer[w].events, notify)]
          /\ writer[w].events \in Batches /\ writer[w].notify \in [WatchId -> Batches]
      BY <1>0, <1>5 DEF Send, TypeInv, WriterTask
    <2>3. notify \in [WatchId -> Batches]
      BY <2>2 DEF Batches
    <2>4. id # to => notify[id] = writer[w].notify[id]
      BY <2>2
    <2> HIDE DEF notify
    <2>5. /\ \A v \in Writer \ {w} : Due(v, id)' = Due(v, id)
          /\ Due(w, id) = writer[w].notify[id] /\ Due(w, id)' = notify[id]
      <3>1. \A v \in Writer \ {w} : writer'[v] = writer[v]
        BY <1>0, <2>2 DEF TypeInv
      <3>2. writer'[w] = Sending(writer[w].events, notify)
        BY <1>0, <2>2 DEF TypeInv
      <3>3. writer'[w].pc \in {"idle", "send"} /\ writer'[w].notify = notify
        BY <2>2, <2>3, <3>2, SendingShape
      <3> QED
        BY <2>2, <3>1, <3>3 DEF Due
    <2>6. CASE watchers[to] # None /\ chan' = [chan EXCEPT ![to] = Append(chan[to], batch)]
               /\ UNCHANGED dropped
      <3>1. /\ \A i \in WatchId \ {to} : chan'[i] = chan[i]
            /\ \A n \in DOMAIN chan[to] : n \in DOMAIN chan'[to] /\ chan'[to][n] = chan[to][n]
            /\ \E n \in DOMAIN chan'[to] : chan'[to][n] = batch
        BY <1>0, <2>6, OneMoreQueued
      <3>2. Got(id, e) => Got(id, e)'
        BY <1>0, <3>1 DEF Got, Carries
      <3>3. id = to /\ e \in batch => Got(id, e)'
        BY <3>1 DEF Got
      <3> QED
        BY <1>2, <2>1, <2>2, <2>4, <2>5, <2>6, <3>2, <3>3 DEF Answered
    <2>7. CASE watchers[to] # None /\ UNCHANGED chan
               /\ dropped' = [dropped EXCEPT ![to] = dropped[to] \cup batch]
      <3>1. Got(id, e) => Got(id, e)'
        BY <1>0, <1>2, <2>2, <2>7, GotFrame
      <3>2. /\ e \in dropped[id] => e \in dropped'[id]
            /\ id = to /\ e \in batch => e \in dropped'[id]
        BY <1>0, <2>7 DEF TypeInv
      <3> QED
        BY <1>2, <2>1, <2>2, <2>4, <2>5, <3>1, <3>2 DEF Answered
    <2>8. CASE watchers[to] = None /\ UNCHANGED <<chan, dropped>>
      <3>1. Got(id, e) => Got(id, e)'
        BY <1>0, <1>2, <2>2, <2>8, GotFrame
      <3>2. id # to
        BY <1>1, <2>8 DEF Meant
      <3> QED
        BY <1>2, <2>2, <2>4, <2>5, <2>8, <3>1, <3>2 DEF Answered
    <2> QED
      BY <1>5, <2>1, <2>6, <2>7, <2>8 DEF Send
  <1> QED
    BY <1>3, <1>4, <1>5 DEF WriterNext

LEMMA StreamLoss ==
  ASSUME WatchInv, LossInv, NEW s \in Stream, StreamNext(s)
  PROVE  LossInv'
  <1> USE DEF hubVars, histVars
  <1> SUFFICES ASSUME NEW id \in WatchId, NEW e \in changes', Meant(id, e)'
               PROVE  Answered(id, e)'
    BY DEF LossInv, Answered
  <1>0. TypeInv /\ IdInv /\ WriterInv /\ UNCHANGED <<changes, writer, dropped, current_revision>>
    BY DEF WatchInv, StreamNext, CreateRequest, CreateInsert, FollowingId,
       CreateIndex, CreateAck,
           CreateAckFails, ClientGone, CancelRequest, Close, CloseNext, RemoveWatcher, CloseDone,
           CancelUnlist, CancelPrune, CancelAbort
  <1>1. e \in Event /\ e.rev \in Nat /\ current_revision \in Nat /\ e.rev <= current_revision
    BY <1>0, WatchAssumption DEF TypeInv, Batches, Event, Revision, WriterInv
  <1>2. acked'[id] = acked[id]
    <2>1. CASE CreateAck(s)
      <3>1. acked' = [acked EXCEPT ![stream[s].id] = current_revision]
        BY <2>1 DEF CreateAck
      <3>2. acked'[id] # current_revision
        BY <1>1 DEF Meant
      <3> QED
        BY <1>0, <3>1, <3>2 DEF TypeInv
    <2>2. CASE UNCHANGED acked
      BY <2>2
    <2> QED
      BY <2>1, <2>2
         DEF StreamNext, CreateRequest, CreateInsert, FollowingId,
       CreateIndex, CreateAckFails, ClientGone,
             CancelRequest, Close, CloseNext, RemoveWatcher, CloseDone, CancelUnlist, CancelPrune,
             CancelAbort
  <1>3. watchers'[id] = watchers[id]
    <2>1. CASE CreateInsert(s)
      <3>1. watchers' = [watchers EXCEPT ![next_watch_id] = stream[s].watch]
        BY <2>1 DEF CreateInsert, FollowingId
      <3>2. id # next_watch_id
        <4>1. acked[id] # None
          BY <1>2 DEF Meant
        <4>2. next_watch_id \in Nat
          BY <1>0, WatchAssumption DEF TypeInv
        <4> QED
          BY <1>0, <4>1, <4>2 DEF IdInv, Unused
      <3> QED
        BY <1>0, <3>1, <3>2 DEF TypeInv
    <2>2. ASSUME NEW i \in WatchId, RemoveWatcher(s, i)
          PROVE  watchers'[id] = watchers[id]
      BY <1>0, <2>2 DEF RemoveWatcher, TypeInv, Meant
    <2>3. CASE UNCHANGED watchers
      BY <2>3
    <2> QED
      BY <2>1, <2>2, <2>3
         DEF StreamNext, CreateRequest, CreateIndex, CreateAck, CreateAckFails, ClientGone,
             CancelRequest, Close, CloseNext, CloseDone, CancelUnlist, CancelPrune, CancelAbort
  <1>4. Meant(id, e)
    BY <1>2, <1>3 DEF Meant
  <1>5. Answered(id, e)
    BY <1>0, <1>4 DEF LossInv, Answered
  <1>6. Got(id, e) => Got(id, e)'
    BY <1>0, <1>1, StreamGot
  <1>7. \A w \in Writer : Due(w, id)' = Due(w, id)
    BY <1>0 DEF Due
  <1> QED
    BY <1>0, <1>5, <1>6, <1>7 DEF Answered

LEMMA ForwardLoss ==
  ASSUME WatchInv, LossInv, NEW f \in WatchId, ForwardNext(f)
  PROVE  LossInv'
  <1> USE DEF hubVars, histVars
  <1> SUFFICES ASSUME NEW id \in WatchId, NEW e \in changes', Meant(id, e)'
               PROVE  Answered(id, e)'
    BY DEF LossInv, Answered
  <1>1. TypeInv /\ ForwardInv /\ UNCHANGED <<changes, writer, dropped, watchers, acked>>
    BY DEF WatchInv, ForwardNext, ForwardTake, ForwardSend, ForwardStops
  <1>2. Meant(id, e) /\ e \in Event
    BY <1>1 DEF Meant, TypeInv, Batches
  <1>3. Answered(id, e)
    BY <1>1, <1>2 DEF LossInv, Answered
  <1>4. Got(id, e) => Got(id, e)'
    BY <1>1, <1>2, ForwardGot
  <1>5. \A w \in Writer : Due(w, id)' = Due(w, id)
    BY <1>1 DEF Due
  <1> QED
    BY <1>1, <1>3, <1>4, <1>5 DEF Answered

\* What is on its way is in the trail.
LEMMA GotIsSeen ==
  ASSUME TypeInv, OnceInv, NEW id \in WatchId, NEW e \in Event, Got(id, e)
  PROVE  e \in Seen(id)
  <1>1. \E n \in DOMAIN Trail(id) : e \in Trail(id)[n]
    <2>1. CASE e \in forward[id].held
      BY <2>1, TrailShape
    <2>2. CASE \E i \in DOMAIN chan[id] : e \in chan[id][i]
      BY <2>2, TrailShape
    <2>3. ASSUME NEW s \in Stream, NEW n \in DOMAIN out[s], Carries(s, n, id),
                 e \in out[s][n].events
          PROVE  \E m \in DOMAIN Trail(id) : e \in Trail(id)[m]
      <3>1. forward[id].to = s
        BY <2>3 DEF Carries, OnceInv, ToOwner
      <3>2. n \in DOMAIN Trail(id) /\ Trail(id)[n] = out[s][n].events
        BY <2>3, <3>1, TrailShape
      <3> QED
        BY <2>3, <3>2
    <2> QED
      BY <2>1, <2>2, <2>3 DEF Got
  <1> QED
    BY <1>1 DEF Seen

LEMMA LossImplies == WatchInv /\ LossInv => NoSilentLoss
  <1> SUFFICES ASSUME WatchInv, LossInv, NEW id \in WatchId, NEW e \in changes,
                      Owed(id, e), e.mod >= watchers[id].start
               PROVE  e \in Seen(id) \cup dropped[id]
    BY DEF NoSilentLoss
  <1>1. TypeInv /\ WriterInv /\ OnceInv /\ e \in Event
    BY DEF WatchInv, TypeInv, Batches
  <1>2. Meant(id, e)
    BY DEF Owed, Meant, Wants
  <1>3. \A w \in Writer : e \notin Due(w, id)
    BY <1>1, DueIsOwn DEF Owed
  <1>4. Got(id, e) \/ e \in dropped[id]
    BY <1>2, <1>3 DEF LossInv
  <1> QED
    BY <1>1, <1>4, GotIsSeen

\* For any number of streams: as long as notify finds the watchers, a change
\* made after a watch was acknowledged is on its way to the client or was
\* refused by the channel.
THEOREM FoundNotLost == Spec /\ []Reachable => []NoSilentLoss
  <1>1. Init => LossInv
    BY DEF Init, LossInv
  <1>2. WatchInv /\ LossInv /\ Reachable /\ [Next]_vars => LossInv'
    <2> SUFFICES ASSUME WatchInv, LossInv, Reachable, [Next]_vars PROVE LossInv'
      OBVIOUS
    <2>1. CASE UNCHANGED vars
      <3>1. UNCHANGED <<watchers, acked, changes, dropped, writer, chan, out, forward>>
        BY <2>1 DEF vars, hubVars, histVars
      <3> QED
        BY <3>1 DEF LossInv, Meant, Got, Due, Carries
    <2> QED
      BY <2>1, WriterLoss, StreamLoss, ForwardLoss DEF Next
  <1> QED
    BY <1>1, <1>2, Invariant, LossImplies, PTL DEF Spec

\* With one stream nothing is lost silently.  With two Reachable may fail
\* (WatchPrune.cfg).
THEOREM OneStreamNotLost == ASSUME OneStream PROVE Spec => []NoSilentLoss
  BY OneStreamReachable, FoundNotLost, PTL
=============================================================================
