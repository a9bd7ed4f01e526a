--------------------------- MODULE AuditPipeline ---------------------------
(***************************************************************************)
(* MemoryAuditPipeline and its sinks (src/audit/impl): emit fills a buffer, *)
(* a full buffer, the timer or stop hands it to every sink as one batch,    *)
(* and the sinks write it at their own pace.  A flush does not wait for the *)
(* one before it and ignores how the sinks end, so the batches of several   *)
(* flushes are written at the same time.                                    *)
(***************************************************************************)
EXTENDS Naturals, SequencesExt

CONSTANTS
    MaxEvents,      \* bound: events ever emitted, numbered in their order
    TenantOf,       \* the tenant of each event
    SinkSets,       \* the sets of sinks that may be registered
    BatchSize,      \* the constructor's batchSize
    MaxSendRetries  \* maxRetries of the webhook

Events == 1 .. MaxEvents
AllSinks == {"storage", "log", "bus", "webhook"}

ASSUME AuditAssumption ==
    /\ MaxEvents \in Nat /\ SinkSets \subseteq SUBSET AllSinks /\ BatchSize \in Nat \ {0} /\ MaxSendRetries \in Nat
    /\ DOMAIN TenantOf = Events

VARIABLES
    sinks,      \* the registered sinks
    emitted,    \* totalEmitted; allEvents are the events so far
    buffer,     \* the buffer
    timers,     \* the intervals that run: that of flushInterval ("current"), and
                \* those a later start has put out of reach ("leaked")
    writes,     \* the writeBatch calls that have not ended
    got,        \* how often each sink's receiver has got each event
    auditRows,  \* the rows of audit_events: <<tenant, event>>
    lines,      \* what logFn was given
    gaveUp      \* auxiliary: <<sink, event>> whose writeBatch threw, or that a
                \* crash cut short

auditvars == <<sinks, emitted, buffer, timers, writes, got, auditRows, lines, gaveUp>>

\* A call of writeBatch: what is left to write, and the attempts made.
Write == [sink : sinks \ {"log"}, batch : Seq(Events), tries : 0 .. MaxSendRetries]

AuditTypeOK ==
    /\ sinks \in SinkSets
    /\ emitted \in 0 .. MaxEvents /\ timers \subseteq {"current", "leaked"}
    /\ buffer \in Seq(1 .. emitted) /\ Len(buffer) < BatchSize
    /\ writes \subseteq Write /\ \A w \in writes : w.batch # <<>>
    /\ got \in [sinks -> [Events -> Nat]]
    /\ auditRows \subseteq Range(TenantOf) \X Events
    /\ lines \in Seq(1 .. emitted)
    /\ gaveUp \subseteq sinks \X Events

AuditInit ==
    /\ sinks \in SinkSets
    /\ emitted = 0 /\ buffer = <<>> /\ timers = {} /\ writes = {} /\ auditRows = {} /\ lines = <<>>
    /\ got = [s \in sinks |-> [e \in Events |-> 0]] /\ gaveUp = {}

----------------------------------------------------------------------------
\* The sink has got the events of S once more.
Receives(s, S) == got' = [got EXCEPT ![s] = [e \in Events |-> IF e \in S THEN @[e] + 1 ELSE @[e]]]

\* The call w throws: what is left of its batch is not written.
Throw(w) ==
    /\ writes' = writes \ {w}
    /\ gaveUp' = gaveUp \cup ({w.sink} \X Range(w.batch))

\* LogAuditSink.writeBatch has no await: it is done with the flush, or up to
\* the line where logFn throws.
WriteLines(batch) ==
    IF "log" \notin sinks THEN UNCHANGED <<got, lines, gaveUp>>
    ELSE \E n \in 0 .. Len(batch) :
            /\ lines' = lines \o SubSeq(batch, 1, n)
            /\ Receives("log", Range(SubSeq(batch, 1, n)))
            /\ gaveUp' = gaveUp \cup ({"log"} \X Range(SubSeq(batch, n + 1, Len(batch))))

\* flush: the buffer is taken and every sink called, in one turn.
Flush(batch) ==
    IF batch = <<>> THEN UNCHANGED <<buffer, writes, got, lines, gaveUp>>
    ELSE /\ buffer' = <<>>
         /\ writes' = writes \cup [sink : sinks \ {"log"}, batch : {batch}, tries : {0}]
         /\ WriteLines(batch)

Buffered(e) == Append(buffer, e)

\* Mutant: the event that fills the buffer is left out.
EmitUnlessFull ==
    /\ emitted < MaxEvents /\ emitted' = emitted + 1
    /\ IF Len(Buffered(emitted + 1)) >= BatchSize THEN Flush(buffer)
       ELSE buffer' = Buffered(emitted + 1) /\ UNCHANGED <<writes, got, lines, gaveUp>>
    /\ UNCHANGED <<sinks, timers, auditRows>>

Emit ==
    /\ emitted < MaxEvents /\ emitted' = emitted + 1
    /\ IF Len(Buffered(emitted + 1)) >= BatchSize THEN Flush(Buffered(emitted + 1))
       ELSE buffer' = Buffered(emitted + 1) /\ UNCHANGED <<writes, got, lines, gaveUp>>
    /\ UNCHANGED <<sinks, timers, auditRows>>

\* start: called again, it forgets the interval of the first call.
StartTimer ==
    /\ timers' = {"current"} \cup (IF timers = {} THEN {} ELSE {"leaked"})
    /\ UNCHANGED <<sinks, emitted, buffer, writes, got, auditRows, lines, gaveUp>>

TimerFlush ==
    /\ timers # {} /\ Flush(buffer)
    /\ UNCHANGED <<sinks, emitted, timers, auditRows>>

\* stop: the last flush is not awaited.
StopPipeline ==
    /\ timers' = timers \ {"current"} /\ Flush(buffer)
    /\ UNCHANGED <<sinks, emitted, auditRows>>

----------------------------------------------------------------------------
\* StorageAuditSink: one batchSet under the tenant of the first event.
StoreBatch(w) ==
    /\ w.sink = "storage"
    /\ \/ /\ auditRows' = auditRows \cup ({TenantOf[Head(w.batch)]} \X Range(w.batch))
          /\ Receives("storage", Range(w.batch))
          /\ writes' = writes \ {w} /\ UNCHANGED gaveUp
       \/ Throw(w) /\ UNCHANGED <<auditRows, got>>
    /\ UNCHANGED <<sinks, emitted, buffer, timers, lines>>

\* EventBusAuditSink: one publish after the other.
PublishNext(w) ==
    /\ w.sink = "bus"
    /\ \/ /\ Receives("bus", {Head(w.batch)}) /\ UNCHANGED gaveUp
          /\ writes' = (writes \ {w}) \cup
               (IF Len(w.batch) = 1 THEN {} ELSE {[w EXCEPT !.batch = Tail(@)]})
       \/ Throw(w) /\ UNCHANGED got
    /\ UNCHANGED <<sinks, emitted, buffer, timers, auditRows, lines>>

\* After a failed attempt: the next one, or send throws.
Again(w) ==
    \/ /\ w.tries < MaxSendRetries
       /\ writes' = (writes \ {w}) \cup {[w EXCEPT !.tries = @ + 1]} /\ UNCHANGED gaveUp
    \/ w.tries = MaxSendRetries /\ Throw(w)

\* WebhookAuditSink: one attempt of send.  The endpoint may have got the batch
\* and the answer be lost, not ok or too late.
Post(w) ==
    /\ w.sink = "webhook"
    /\ \/ Receives("webhook", Range(w.batch)) /\ writes' = writes \ {w} /\ UNCHANGED gaveUp
       \/ Receives("webhook", Range(w.batch)) /\ Again(w)
       \/ UNCHANGED got /\ Again(w)
    /\ UNCHANGED <<sinks, emitted, buffer, timers, auditRows, lines>>

\* The process crashes: the buffer and all that is not yet written is lost.
CrashAudit ==
    /\ writes' = {} /\ buffer' = <<>> /\ timers' = {}
    /\ gaveUp' = gaveUp \cup (UNION {{w.sink} \X Range(w.batch) : w \in writes})
                        \cup (sinks \X Range(buffer))
    /\ UNCHANGED <<sinks, emitted, got, auditRows, lines>>

AuditNext ==
    \/ Emit \/ StartTimer \/ TimerFlush \/ StopPipeline \/ CrashAudit
    \/ \E w \in writes : StoreBatch(w) \/ PublishNext(w) \/ Post(w)

AuditSpec == AuditInit /\ [][AuditNext]_auditvars

AuditFairness ==
    /\ WF_auditvars(TimerFlush)
    /\ WF_auditvars(\E w \in writes : StoreBatch(w) \/ PublishNext(w) \/ Post(w))

----------------------------------------------------------------------------
Pending(s, e) == \E w \in writes : w.sink = s /\ e \in Range(w.batch)

\* However flushes overlap, an event goes to each sink in one batch: no receiver
\* gets it twice, but for the endpoint of the webhook, which gets it at most
\* once for each attempt.
NoDuplicates ==
    \A e \in Events : \A s \in sinks :
        got[s][e] <= IF s = "webhook" THEN 1 + MaxSendRetries ELSE 1

\* Every event that was emitted is in the buffer, on its way to a sink, or there,
\* unless that sink's writeBatch threw or the process crashed: nothing is dropped
\* between two flushes, and one sink's failure takes nothing from another.  The
\* exception of a sink that threw is there because the retries audit-sink.ts:5 asks
\* of every sink are made by the webhook only, and flush drops what has failed.
Accounted ==
    \A e \in 1 .. emitted : \A s \in sinks :
        \/ e \in Range(buffer) \/ Pending(s, e) \/ got[s][e] > 0 \/ <<s, e>> \in gaveUp

\* The lines of the log are in the order of emit, across flushes.
LogInOrder == \A i, j \in 1 .. Len(lines) : i < j => lines[i] < lines[j]

\* A batch is stored under one tenant: an event is stored under another's only
\* if one of that tenant's began the batch, among the last before it, and then
\* they are stored together.
MovedToEarlier ==
    \A r \in auditRows : r[1] # TenantOf[r[2]] =>
        \E e \in 1 .. r[2] - 1 :
            r[2] - e < BatchSize /\ TenantOf[e] = r[1] /\ <<r[1], e>> \in auditRows

\* While an interval runs every event leaves the buffer.
FlushedWhenStarted ==
    \A e \in Events : []<>~(e \in Range(buffer) /\ timers # {})

\* An event is where it was sent, once, in order and, if alone, under its tenant.
EventsKept == NoDuplicates /\ Accounted /\ LogInOrder /\ MovedToEarlier
=============================================================================
