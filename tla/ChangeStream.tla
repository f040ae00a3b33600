---------------------------- MODULE ChangeStream ----------------------------
(***************************************************************************)
(* The change stream of one table: commits append records to               *)
(* change_stream_t inside their transaction, UpdateTable enables and       *)
(* disables the stream, maintenance enforces its retention, and a consumer *)
(* reads it with ReadChangeStream, is cut off, and resumes from the tokens *)
(* it has received (localcloud_change_stream.go).                          *)
(*                                                                         *)
(* Readers do not affect each other, so there is one, with one             *)
(* subscription.  A record is its row key and commit time; record ids come *)
(* from one AUTOINCREMENT column.                                          *)
(***************************************************************************)
EXTENDS Integers, Sequences, FiniteSetsExt

CONSTANTS
    Keys,           \* row keys
    Ranges,         \* partitions a reader may ask for, as sets of keys
    EndTimes,       \* end times it may ask for, 0 for none
    BatchSize,      \* changeStreamBatchSize
    Retentions,     \* retention periods UpdateTable may set
    MaxId,          \* bound on the records ever appended
    MaxTime,        \* bound on the clock
    MaxSent,        \* bound on the messages in flight
    MaxPurging,     \* bound on the UpdateTable calls that still have to purge
    Faults          \* subset of {"crash", "disconnect"}

ASSUME StreamAssumption ==
    /\ BatchSize \in Nat \ {0} /\ Retentions \subseteq Nat \ {0}
    /\ MaxId \in Nat /\ MaxTime \in Nat /\ MaxSent \in Nat /\ MaxPurging \in Nat
    /\ Ranges \subseteq SUBSET Keys /\ EndTimes \subseteq 0 .. MaxTime

VARIABLES
    clock,
    log,            \* change_stream_t: id -> [key, at]
    lastId,         \* the largest id ever assigned
    retention,      \* retention period of the table's stream, 0 if disabled
    purging,        \* UpdateTable calls that have disabled it and not yet purged it
    cut,            \* the retention maintenance has read, 0 between passes
    pend,           \* commit time of the write that holds tbl.mu, -1 for none
    pc,             \* where ReadChangeStream is
    rng,            \* the reader's partition
    end,            \* its end time, 0 for none
    pos,            \* nextAfterID
    over,           \* the watermark is after the end time
    batch,          \* records listed and not yet handled: id -> [key, at]
    full,           \* the listing had BatchSize records
    chan,           \* messages sent and not yet received
    tokens,         \* tokens the consumer has received
    got,            \* ids of the changes the consumer holds
    inOrder,        \* each came after all the ones it then held
    origin,         \* how the subscription started: [after, rng]
    listed          \* the largest id assigned when the watermark was read

store == <<log, lastId, retention, purging, cut, pend>>
server == <<pc, rng, end, pos, over, batch, full, listed>>
consumer == <<tokens, got, inOrder, origin>>
vars == <<clock, store, server, chan, consumer>>

Ids == 1 .. MaxId
Keep(ids) == [id \in ids |-> log[id]]
enabled == retention # 0
Largest(S) == IF S = {} THEN 0 ELSE Max(S)

-----------------------------------------------------------------------------
(* Writers, administration and maintenance.                                 *)

\* A write takes its commit time under tbl.mu, before its transaction.
BeginCommit ==
    /\ pend = -1
    /\ pend' = clock
    /\ UNCHANGED <<clock, log, lastId, retention, purging, cut, server, chan, consumer>>

\* writeCommits: a USER record and, if cells were collected, a second one.
Commit(key, n) ==
    /\ pend # -1
    /\ lastId + n <= MaxId
    /\ LET new == IF enabled THEN (lastId + 1) .. (lastId + n) ELSE {}
       IN /\ log' = [id \in DOMAIN log \cup new |->
                       IF id \in new THEN [key |-> key, at |-> pend] ELSE log[id]]
          /\ lastId' = IF enabled THEN lastId + n ELSE lastId
    /\ pend' = -1
    /\ UNCHANGED <<clock, retention, purging, cut, server, chan, consumer>>

Abort ==
    /\ pend # -1
    /\ pend' = -1
    /\ UNCHANGED <<clock, log, lastId, retention, purging, cut, server, chan, consumer>>

\* UpdateTable under tbl.mu: a retention, or 0 to disable the stream.
UpdateTable(r) ==
    /\ pend = -1
    /\ IF enabled /\ r = 0 THEN purging < MaxPurging /\ purging' = purging + 1
                           ELSE UNCHANGED purging
    /\ retention' = r
    /\ UNCHANGED <<clock, log, lastId, cut, pend, server, chan, consumer>>

\* A call that disabled the stream purges it after the unlock, whatever other
\* calls have made of the stream since.  The statement may fail.
purgeTable ==
    /\ purging > 0
    /\ purging' = purging - 1
    /\ \/ log' = << >>
       \/ UNCHANGED log
    /\ UNCHANGED <<clock, lastId, retention, cut, pend, server, chan, consumer>>

\* purgeExpiredChangeRecords reads the retention under tbl.mu ...
readRetention ==
    /\ pend = -1 /\ cut = 0 /\ enabled
    /\ cut' = retention
    /\ UNCHANGED <<clock, log, lastId, retention, purging, pend, server, chan, consumer>>

purgeBeforeSwapped ==
    /\ cut > 0
    /\ log' = Keep({id \in DOMAIN log : log[id].at < clock - cut})
    /\ cut' = 0
    /\ UNCHANGED <<clock, lastId, retention, purging, pend, server, chan, consumer>>

\* ... and deletes after the unlock, whatever has happened to the stream since.
purgeBefore ==
    /\ cut > 0
    /\ log' = Keep({id \in DOMAIN log : log[id].at >= clock - cut})
    /\ cut' = 0
    /\ UNCHANGED <<clock, lastId, retention, purging, pend, server, chan, consumer>>

-----------------------------------------------------------------------------
(* ReadChangeStream.                                                        *)

Idle(r, e, ps, w, b, f, l) ==
    /\ r = {} /\ e = 0 /\ ps = 0 /\ w = FALSE
    /\ b = << >> /\ f = FALSE /\ l = 0

\* The call has returned and its locals are gone.
Returned(p) ==
    /\ pc' = p
    /\ Idle(rng', end', pos', over', batch', full', listed')

\* changeStreamTable: the stream must be enabled when the request arrives.
OpenStream(range, et) ==
    /\ pc = "off" /\ enabled
    /\ pc' = "opened"
    /\ rng' = range
    /\ end' = et
    /\ UNCHANGED <<clock, store, pos, over, batch, full, listed, chan, consumer>>

Opened(p) ==
    /\ pc = "opened"
    /\ pc' = "poll"
    /\ pos' = p
    /\ UNCHANGED <<clock, store, rng, end, over, batch, full, listed, chan>>

\* "Resume after the earliest token so no change is skipped."
resumeAfter(toks) == Min(toks)

\* changeStreamStart with continuation tokens: the consumer goes on from the
\* changes it holds up to that position.
StartAtTokens(toks) ==
    /\ toks # {} /\ toks \subseteq tokens /\ rng = origin.rng
    /\ Opened(resumeAfter(toks))
    /\ tokens' = {t \in tokens : t <= Min(toks)}
    /\ got' = {id \in got : id <= Min(toks)}
    /\ UNCHANGED <<inOrder, origin>>

\* A consumer without a token starts afresh.
NewSubscription(p) ==
    /\ tokens = {}
    /\ Opened(p)
    /\ UNCHANGED <<tokens, got, inOrder>>
    /\ origin' = [after |-> p, rng |-> rng]

lastIDBeforeOrAt(at) == Largest({id \in DOMAIN log : log[id].at <= at})

lastIDBefore(at) == Largest({id \in DOMAIN log : log[id].at < at})

\* changeStreamStart with a start time inside the retention period.
StartAtTime(at) ==
    /\ clock - retention <= at /\ at <= clock
    /\ NewSubscription(lastIDBefore(at))

\* changeStreamStart without a position: from now.
StartNow == NewSubscription(Largest(DOMAIN log))

Past(at) == end # 0 /\ at > end

\* "Read the high-water mark before listing".
ReadWatermark ==
    /\ pc = "poll"
    /\ pc' = "list"
    /\ over' = Past(clock)
    /\ listed' = lastId
    /\ UNCHANGED <<clock, store, rng, end, pos, batch, full, chan, consumer>>

listAfterNeverFull ==
    /\ pc = "list"
    /\ pc' = "send"
    /\ batch' = Keep({id \in DOMAIN log :
                       /\ id > pos
                       /\ Cardinality({i \in DOMAIN log : pos < i /\ i < id}) < BatchSize})
    /\ full' = FALSE
    /\ UNCHANGED <<clock, store, rng, end, pos, over, listed, chan, consumer>>

\* The first BatchSize records after nextAfterID.
listAfter ==
    /\ pc = "list"
    /\ pc' = "send"
    /\ LET ids == {id \in DOMAIN log :
                     /\ id > pos
                     /\ Cardinality({i \in DOMAIN log : pos < i /\ i < id}) < BatchSize}
       IN /\ batch' = Keep(ids)
          /\ full' = (Cardinality(ids) = BatchSize)
    /\ UNCHANGED <<clock, store, rng, end, pos, over, listed, chan, consumer>>

\* A record after the end time closes the stream.
CloseAtRecord ==
    /\ pc = "send" /\ DOMAIN batch # {}
    /\ Past(batch[Min(DOMAIN batch)].at)
    /\ Returned("closed")
    /\ UNCHANGED <<clock, store, chan, consumer>>

\* The next record of the batch; one of another partition is passed over.
SendChange ==
    /\ pc = "send" /\ DOMAIN batch # {}
    /\ LET id == Min(DOMAIN batch)
       IN /\ ~ Past(batch[id].at)
          /\ pos' = id
          /\ batch' = [i \in DOMAIN batch \ {id} |-> batch[i]]
          /\ \/ batch[id].key \notin rng /\ chan' = chan
             \/ /\ batch[id].key \in rng /\ Len(chan) < MaxSent
                /\ chan' = Append(chan, <<"change", id>>)
    /\ UNCHANGED <<clock, store, pc, rng, end, over, full, listed, consumer>>

EndBatchWaits ==
    /\ pc = "send" /\ DOMAIN batch = {} /\ ~ full /\ ~ over
    /\ pc' = "poll"
    /\ listed' = 0
    /\ UNCHANGED <<clock, store, rng, end, pos, over, batch, full, chan, consumer>>

\* A full batch is followed by another at once; after a short one a heartbeat
\* may be due, and the reader waits for the poll interval.
EndBatch ==
    /\ pc = "send" /\ DOMAIN batch = {}
    /\ \/ /\ full
          /\ UNCHANGED chan
       \/ /\ ~ full /\ ~ over
          /\ \/ chan' = chan
             \/ Len(chan) < MaxSent /\ chan' = Append(chan, <<"heartbeat", pos>>)
    /\ pc' = "poll"
    /\ over' = FALSE /\ full' = FALSE /\ listed' = 0
    /\ UNCHANGED <<clock, store, rng, end, pos, batch, consumer>>

\* The stream closes once the watermark is after the end time.
CloseAtEnd ==
    /\ pc = "send" /\ DOMAIN batch = {} /\ ~ full /\ over
    /\ Returned("closed")
    /\ UNCHANGED <<clock, store, chan, consumer>>

\* A request for a position outside the retention period, or with tokens of
\* another partition, is refused.
RefuseStart ==
    /\ pc = "opened"
    /\ Returned("off")
    /\ UNCHANGED <<clock, store, chan, consumer>>

\* The consumer takes the next message and keeps its token.
Receive ==
    /\ chan # << >>
    /\ LET kind == Head(chan)[1]
           id == Head(chan)[2]
       IN /\ got' = IF kind = "change" THEN got \cup {id} ELSE got
          /\ inOrder' = (inOrder /\ (kind = "change" => \A held \in got : held < id))
          /\ tokens' = tokens \cup {id}
    /\ chan' = Tail(chan)
    /\ UNCHANGED <<clock, store, server, origin>>

ReceiveClose ==
    /\ pc = "closed" /\ chan = << >>
    /\ Returned("off")
    /\ UNCHANGED <<clock, store, chan, consumer>>

\* The call is cancelled, or the server shuts down: messages on their way are
\* lost.
CutOff ==
    /\ Returned("off")
    /\ chan' = << >>
    /\ UNCHANGED consumer

Disconnect ==
    /\ "disconnect" \in Faults
    /\ pc \in {"poll", "list", "send", "closed"}
    /\ CutOff
    /\ UNCHANGED <<clock, store>>

\* A crash also loses an open commit and a purge that was still to run.
Crash ==
    /\ "crash" \in Faults
    /\ pend' = -1 /\ purging' = 0 /\ cut' = 0
    /\ CutOff
    /\ UNCHANGED <<clock, log, lastId, retention>>

Tick ==
    /\ clock < MaxTime
    /\ clock' = clock + 1
    /\ UNCHANGED <<store, server, chan, consumer>>

-----------------------------------------------------------------------------
Init ==
    /\ clock = 0
    /\ log = << >> /\ lastId = 0 /\ retention = 0
    /\ purging = 0 /\ cut = 0 /\ pend = -1
    /\ pc = "off" /\ Idle(rng, end, pos, over, batch, full, listed)
    /\ chan = << >>
    /\ tokens = {} /\ got = {} /\ inOrder = TRUE /\ origin = [after |-> 0, rng |-> Keys]

Admin ==
    \/ \E r \in Retentions \cup {0} : UpdateTable(r)
    \/ purgeTable
    \/ readRetention
    \/ purgeBefore
    \/ Tick

Writer ==
    \/ BeginCommit
    \/ \E key \in Keys, n \in 1 .. 2 : Commit(key, n)
    \/ Abort

Open ==
    \/ \E range \in Ranges, et \in EndTimes : OpenStream(range, et)
    \/ \E toks \in SUBSET tokens : StartAtTokens(toks)
    \/ \E at \in 0 .. MaxTime : StartAtTime(at)
    \/ StartNow
    \/ RefuseStart

Serve ==
    \/ ReadWatermark
    \/ listAfter
    \/ CloseAtRecord
    \/ SendChange
    \/ EndBatch
    \/ CloseAtEnd

Next ==
    \/ Admin \/ Writer
    \/ Open \/ Serve \/ Receive \/ ReceiveClose
    \/ Disconnect \/ Crash

Spec == Init /\ [][Next]_vars

\* The server's loop and the transport make progress; nothing makes a client
\* write or open a stream.
Fairness == WF_vars(Serve) /\ WF_vars(Receive)

FairSpec == Spec /\ Fairness

-----------------------------------------------------------------------------
\* The values the state can take.
TypeOK ==
    /\ clock \in 0 .. MaxTime
    /\ DOMAIN log \subseteq 1 .. lastId /\ lastId \in 0 .. MaxId
    /\ \A id \in DOMAIN log : log[id] \in [key : Keys, at : 0 .. MaxTime]
    /\ retention \in Retentions \cup {0} /\ cut \in Retentions \cup {0}
    /\ purging \in 0 .. MaxPurging /\ full \in BOOLEAN
    /\ pend \in -1 .. MaxTime
    /\ pc \in {"off", "opened", "poll", "list", "send", "closed"}
    /\ rng \subseteq Keys /\ end \in 0 .. MaxTime
    /\ pos \in 0 .. MaxId /\ listed \in 0 .. MaxId /\ over \in BOOLEAN
    /\ Len(chan) <= MaxSent
    /\ tokens \subseteq 0 .. MaxId
    /\ origin.after \in 0 .. MaxId /\ origin.rng \subseteq Keys

Position == IF tokens = {} THEN origin.after ELSE Max(tokens)

\* "Resume after disconnect yields every later commit exactly once": wherever
\* the connection was cut and whichever tokens it resumed from, the consumer
\* holds the changes of its partition in commit order, each once, and has
\* passed over none that is still stored; and a start time skips no record
\* with that or a later commit time.
ExactlyOnce ==
    /\ inOrder
    /\ \A id \in DOMAIN log :
         log[id].key \in origin.rng /\ origin.after < id /\ id <= Position => id \in got
    /\ \A id \in DOMAIN log : lastIDBefore(log[id].at) < id

Sent == got \cup {id \in Ids : \E i \in DOMAIN chan : chan[i] = <<"change", id>>}

\* "so the low watermark never passes a record that has not been delivered":
\* when a heartbeat may be sent, every record of the partition that was
\* committed before the watermark was read and is still stored has been sent.
\* (A commit in progress may still carry an earlier commit time.)
HeartbeatCoversCommitted ==
    pc = "send" /\ DOMAIN batch = {} /\ ~ full =>
        \A id \in DOMAIN log :
            id <= listed /\ id > origin.after /\ log[id].key \in rng => id \in Sent

\* Records leave the log oldest first: what is stored are always the newest
\* records, without a hole, whichever retention a maintenance pass goes by and
\* whenever the purge of a disabled stream comes.  So a consumer that was away
\* too long misses records at its own position only, and none further on.
RecordsLeaveOldestFirst == \A id \in DOMAIN log : id .. lastId \subseteq DOMAIN log

\* A connected consumer gets every record of its partition up to its end time,
\* unless the record is purged or the connection ends first.
RecordsDelivered ==
    \A id \in Ids :
        (/\ pc \in {"poll", "list", "send"} /\ id \in DOMAIN log
         /\ id > pos /\ log[id].key \in rng)
            ~> (id \in Sent \/ id \notin DOMAIN log \/ pc \in {"off", "closed"})
=============================================================================
