--------------------------- MODULE OutboxPipeline ---------------------------
(***************************************************************************)
(* cmd/worker: how a committed outbox row becomes an audit record.  Every  *)
(* worker process runs a relay (internal/platform/outbox) that publishes   *)
(* unsent rows to RabbitMQ, and a consumer (internal/consumer) that        *)
(* records each delivered event in processed_events.                       *)
(*                                                                         *)
(* The broker keeps what it has confirmed and hands out again what is not  *)
(* acknowledged when a connection ends.  A message waiting in a worker's   *)
(* prefetch buffer comes back in the same way, so it counts as queued.     *)
(***************************************************************************)
EXTENDS Integers, FiniteSets, FiniteSetsExt

CONSTANTS
  Events,          \* outbox rows, by id
  Poison,          \* those whose payload the consumer cannot decode
  Foreign,         \* messages of other publishers whose MessageId is no UUID
  Workers,         \* worker processes
  Batch,           \* the relay's LIMIT
  MaxFaults,       \* bound on the failures of one behaviour
  Outages          \* whether connections to the broker break

ASSUME PipelineAssumption ==
  /\ Events \subseteq Nat /\ IsFiniteSet(Events)
  /\ Poison \subseteq Events
  /\ Foreign \intersect Events = {}
  /\ Batch \in Nat \ {0} /\ MaxFaults \in Nat /\ Outages \in BOOLEAN

Messages == Events \union Foreign

VARIABLES
  row,        \* column published_at of outbox_events: absent, unsent, sent
  bound,      \* whether the broker has the queue ledger.audit-log and its binding
  sends,      \* how often the broker took an event in
  queue,      \* copies waiting in ledger.audit-log
  dlq,        \* messages in ledger.audit-log.dlq
  processed,  \* table processed_events
  logged,     \* how often the audit line of an event was written
  up,         \* the process: up, stopping (its context cancelled), down
  conn,       \* whether the process's broker connection is open
  relay,      \* its relay: rows locked, rows still to publish, rows marked
  handler,    \* its consumer: where it is, the delivery, and what to answer
  faults

broker  == <<bound, sends, queue, dlq>>
tables  == <<row, processed>>
vars    == <<tables, broker, logged, up, conn, relay, handler, faults>>

IdleRelay   == [at |-> "idle", batch |-> {}, todo |-> {}, marked |-> {}]
NoMessage   == 0
IdleHandler == [at |-> "idle", msg |-> NoMessage, live |-> FALSE, verdict |-> "ack"]

Fault == faults < MaxFaults /\ faults' = faults + 1

Running(w) == up[w] = "up"

----------------------------------------------------------------------------
(* Producers.                                                              *)

\* LedgerRepo.Post commits with the row of its event.
Write(e) ==
  /\ row[e] = "absent"
  /\ row' = [row EXCEPT ![e] = "unsent"]
  /\ UNCHANGED <<broker, processed, logged, up, conn, relay, handler, faults>>

ForeignPublish(m) ==
  /\ bound
  /\ queue[m] = 0 /\ m \notin dlq
  /\ \A w \in Workers : handler[w].msg # m
  /\ queue' = [queue EXCEPT ![m] = 1]
  /\ UNCHANGED <<tables, bound, sends, dlq, logged, up, conn, relay, handler, faults>>

----------------------------------------------------------------------------
(* Relay.PollOnce: one database transaction around a batch.                *)

\* The rows another instance has locked are not skipped but read anyway.
SelectableShared(w) == {e \in Events : row[e] = "unsent"}

\* FOR UPDATE SKIP LOCKED.
Selectable(w) ==
  {e \in Events : row[e] = "unsent" /\ \A v \in Workers : e \notin relay[v].batch}

\* ORDER BY id LIMIT $1.
FirstOf(rows) == {e \in rows : Cardinality({f \in rows : f < e}) < Batch}

Select(w) ==
  /\ Running(w) /\ relay[w].at = "idle"
  /\ Selectable(w) # {}
  /\ relay' = [relay EXCEPT ![w] = [at |-> "publish", batch |-> FirstOf(Selectable(w)),
                                    todo |-> FirstOf(Selectable(w)), marked |-> {}]]
  /\ UNCHANGED <<tables, broker, logged, up, conn, handler, faults>>

This(w) == Min(relay[w].todo)

Publishing(w) == up[w] # "down" /\ relay[w].at = "publish" /\ relay[w].todo # {}

\* The broker confirms an event no queue is bound for as well: it returns it first,
\* as mandatory asks, and nobody listens to returns.
TakenIn(e) ==
  /\ queue' = IF bound THEN [queue EXCEPT ![e] = @ + 1] ELSE queue
  /\ sends' = [sends EXCEPT ![e] = @ + 1]
  /\ UNCHANGED <<bound, dlq>>

\* The row stays unsent; only attempts and last_error change.
Skip(w) == relay' = [relay EXCEPT ![w].todo = @ \ {This(w)}]

\* The broker takes the event in, the confirm arrives, the row is marked.
Publish(w) ==
  /\ Publishing(w) /\ Running(w) /\ conn[w]
  /\ TakenIn(This(w))
  /\ relay' = [relay EXCEPT ![w].todo = @ \ {This(w)}, ![w].marked = @ \union {This(w)}]
  /\ UNCHANGED <<tables, logged, up, conn, handler, faults>>

\* publish fails: the channel is closed, or the broker refuses.
PublishFails(w) ==
  /\ Publishing(w) /\ Running(w)
  /\ IF conn[w] THEN Fault ELSE UNCHANGED faults
  /\ Skip(w)
  /\ UNCHANGED <<tables, broker, logged, up, conn, handler>>

\* The broker takes the event in, and the wait for the confirm fails.
PublishUnconfirmed(w) ==
  /\ Publishing(w) /\ Running(w) /\ conn[w]
  /\ Fault
  /\ TakenIn(This(w))
  /\ Skip(w)
  /\ UNCHANGED <<tables, logged, up, conn, handler>>

\* The rows are marked before they are published.
MarksOfBatch(w) == relay[w].batch

Marks(w) == relay[w].marked

CommitBatch(w) ==
  /\ Running(w) /\ relay[w].at = "publish" /\ relay[w].todo = {}
  /\ row' = [e \in Events |-> IF e \in Marks(w) THEN "sent" ELSE row[e]]
  /\ relay' = [relay EXCEPT ![w] = IdleRelay]
  /\ UNCHANGED <<broker, processed, logged, up, conn, handler, faults>>

\* A statement or the COMMIT fails, and everything marked is rolled back.  Once the
\* context is cancelled the next statement is bound to.
RollbackBatch(w) ==
  /\ up[w] # "down" /\ relay[w].at = "publish"
  /\ IF Running(w) THEN Fault ELSE UNCHANGED faults
  /\ relay' = [relay EXCEPT ![w] = IdleRelay]
  /\ UNCHANGED <<tables, broker, logged, up, conn, handler>>

----------------------------------------------------------------------------
(* AuditLog.Run and handle.                                                *)

Take(w, m) ==
  /\ Running(w) /\ conn[w] /\ handler[w].at = "idle"
  /\ queue[m] > 0
  /\ queue' = [queue EXCEPT ![m] = @ - 1]
  /\ handler' = [handler EXCEPT ![w] = [at |-> "record", msg |-> m, live |-> TRUE,
                                        verdict |-> "ack"]]
  /\ UNCHANGED <<tables, bound, sends, dlq, logged, up, conn, relay, faults>>

HandlerAt(w, l) == up[w] # "down" /\ handler[w].at = l

Decide(w, v) == handler' = [handler EXCEPT ![w].at = "settle", ![w].verdict = v]

\* A duplicate is not told from a first delivery.
FirstDeliveryAlways(m) == TRUE

FirstDelivery(m) == m \notin processed

BadMessageId(m) == m \in Foreign

\* uuid.Parse, then INSERT ... ON CONFLICT DO NOTHING.
Record(w) ==
  /\ HandlerAt(w, "record")
  /\ Running(w) \/ BadMessageId(handler[w].msg)
  /\ LET m == handler[w].msg
     IN  IF BadMessageId(m) THEN Decide(w, "dlq") /\ UNCHANGED processed
         ELSE IF ~FirstDelivery(m) THEN Decide(w, "ack") /\ UNCHANGED processed
         ELSE /\ processed' = processed \union {m}
              /\ handler' = [handler EXCEPT ![w].at = "decode"]
  /\ UNCHANGED <<row, broker, logged, up, conn, relay, faults>>

\* The INSERT answers an error; it may have been carried out all the same.
RecordFails(w) ==
  /\ HandlerAt(w, "record") /\ handler[w].msg \in Events
  /\ IF Running(w) THEN Fault ELSE UNCHANGED faults
  /\ processed' \in {processed, processed \union {handler[w].msg}}
  /\ Decide(w, "requeue")
  /\ UNCHANGED <<row, broker, logged, up, conn, relay>>

Decode(w) ==
  /\ HandlerAt(w, "decode")
  /\ LET m == handler[w].msg
     IN  IF m \in Poison THEN Decide(w, "dlq") /\ UNCHANGED logged
         ELSE Decide(w, "ack") /\ logged' = [logged EXCEPT ![m] = @ + 1]
  /\ UNCHANGED <<tables, broker, up, conn, relay, faults>>

\* Ack or Nack, whose error nobody looks at: it has no effect on a delivery whose
\* connection is gone.
Settle(w) ==
  /\ HandlerAt(w, "settle")
  /\ LET h == handler[w]
     IN  /\ queue' = IF h.live /\ h.verdict = "requeue"
                     THEN [queue EXCEPT ![h.msg] = @ + 1] ELSE queue
         /\ dlq' = IF h.live /\ h.verdict = "dlq" THEN dlq \union {h.msg} ELSE dlq
  /\ handler' = [handler EXCEPT ![w] = IdleHandler]
  /\ UNCHANGED <<tables, bound, sends, logged, up, conn, relay, faults>>

----------------------------------------------------------------------------
(* cmd/worker run: the process and its connection.                         *)

\* The broker hands out again what was delivered and not acknowledged.
Disconnect(w) ==
  /\ conn' = [conn EXCEPT ![w] = FALSE]
  /\ queue' = IF handler[w].live THEN [queue EXCEPT ![handler[w].msg] = @ + 1] ELSE queue

Orphan(w) == handler' = [handler EXCEPT ![w].live = FALSE]

\* The connection breaks under a running process.  Run returns nil once the handler
\* is done, nothing reaches errCh, and run waits on: there is no way back but a new
\* process.
LoseConnection(w) ==
  /\ Outages
  /\ Running(w) /\ conn[w]
  /\ Fault
  /\ Disconnect(w) /\ Orphan(w)
  /\ UNCHANGED <<tables, bound, sends, dlq, logged, up, relay>>

\* SIGTERM cancels the context every statement and every publish carries.
Signal(w) ==
  /\ Running(w)
  /\ Fault
  /\ up' = [up EXCEPT ![w] = "stopping"]
  /\ UNCHANGED <<tables, broker, logged, conn, relay, handler>>

\* run returns at once: the deferred calls close both channels and the connection,
CloseConnection(w) ==
  /\ up[w] = "stopping" /\ conn[w]
  /\ Disconnect(w) /\ Orphan(w)
  /\ UNCHANGED <<tables, bound, sends, dlq, logged, up, relay, faults>>

\* then the pool, which waits for the relay to give its connection back.
Exit(w) ==
  /\ up[w] = "stopping" /\ ~conn[w] /\ relay[w].at = "idle"
  /\ up' = [up EXCEPT ![w] = "down"]
  /\ handler' = [handler EXCEPT ![w] = IdleHandler]
  /\ UNCHANGED <<tables, broker, logged, conn, relay, faults>>

Crash(w) ==
  /\ up[w] # "down"
  /\ Fault
  /\ up' = [up EXCEPT ![w] = "down"]
  /\ Disconnect(w)
  /\ relay' = [relay EXCEPT ![w] = IdleRelay]
  /\ handler' = [handler EXCEPT ![w] = IdleHandler]
  /\ UNCHANGED <<tables, bound, sends, dlq, logged>>

\* The relay is started and the topology is left to whoever consumes.
DeclareTopologyLater == UNCHANGED bound

\* Exchange, dead letter queue, queue and binding, all durable.
DeclareTopology == bound' = TRUE

\* The supervisor starts the process, for the first time or again.  The relay and the
\* consumer run only once Dial and DeclareTopology have succeeded; when one of them
\* fails the process ends, and nothing but the topology may have changed.
Restart(w) ==
  /\ up[w] = "down"
  /\ up' = [up EXCEPT ![w] = "up"]
  /\ conn' = [conn EXCEPT ![w] = TRUE]
  /\ DeclareTopology
  /\ UNCHANGED <<tables, sends, queue, dlq, logged, relay, handler, faults>>

----------------------------------------------------------------------------

Init ==
  /\ row = [e \in Events |-> "absent"]
  /\ sends = [e \in Events |-> 0]
  /\ queue = [m \in Messages |-> 0]
  /\ dlq = {} /\ processed = {}
  /\ logged = [e \in Events |-> 0]
  /\ bound = FALSE
  /\ up = [w \in Workers |-> "down"]
  /\ conn = [w \in Workers |-> FALSE]
  /\ relay = [w \in Workers |-> IdleRelay]
  /\ handler = [w \in Workers |-> IdleHandler]
  /\ faults = 0

Relaying(w) == Select(w) \/ Publish(w) \/ PublishFails(w) \/ CommitBatch(w)

Consuming(w) == (\E m \in Messages : Take(w, m)) \/ Record(w) \/ Decode(w) \/ Settle(w)

Stopping(w) == CloseConnection(w) \/ Exit(w)

Next ==
  \/ \E e \in Events : Write(e)
  \/ \E m \in Foreign : ForeignPublish(m)
  \/ \E w \in Workers :
       \/ Relaying(w) \/ PublishUnconfirmed(w) \/ RollbackBatch(w)
       \/ Consuming(w) \/ RecordFails(w)
       \/ LoseConnection(w) \/ Signal(w) \/ Crash(w) \/ Stopping(w) \/ Restart(w)

Spec == Init /\ [][Next]_vars

\* The ticker fires again and again, goroutines are scheduled, the database answers,
\* a stopping process ends and the supervisor restarts it.  Failures are not fair, but
\* for those that are bound to happen: a publish on a closed channel, a statement
\* under a cancelled context.
Fairness ==
  \A w \in Workers :
    /\ WF_vars(\/ Select(w) \/ Publish(w) \/ CommitBatch(w)
               \/ (~conn[w] /\ PublishFails(w)) \/ (~Running(w) /\ RollbackBatch(w)))
    /\ WF_vars(Consuming(w) \/ (~Running(w) /\ RecordFails(w)))
    /\ WF_vars(Stopping(w) \/ Restart(w))

FairSpec == Spec /\ Fairness

----------------------------------------------------------------------------
(* Properties.                                                             *)

InHand(m) == \E w \in Workers : handler[w].at # "idle" /\ handler[w].live /\ handler[w].msg = m

(* An event marked as sent is not lost, whatever fails and wherever: the broker still
   has it, or a consumer holds it unacknowledged, or it is recorded
   (outbox/relay.go PollOnce, consumer/auditlog.go handle).                  *)
SentIsNotLost ==
  \A e \in Events : row[e] = "sent" => queue[e] > 0 \/ InHand(e) \/ e \in processed

(* Several relays side by side send nothing twice: a second copy of an event is always
   the trace of a failure or a shutdown (outbox/relay.go Relay, PollOnce).   *)
DuplicatesHaveACause == \A e \in Events : sends[e] <= 1 + faults

(* However often an event is sent and delivered, and to however many consumers, its
   audit line is written at most once (consumer/auditlog.go handle).         *)
AuditedAtMostOnce == \A e \in Events : logged[e] <= 1

(* Every committed event is eventually recorded, through crashes, shutdowns, failed
   publishes and failed inserts, unless the broker connection of a running process
   breaks (cmd/worker run, outbox/relay.go Run, consumer/auditlog.go Run).    *)
EveryEventRecorded ==
  \/ <>(\E w \in Workers : Running(w) /\ ~conn[w])
  \/ \A e \in Events : row[e] # "absent" ~> e \in processed

(* What consumer/auditlog.go handle says of a payload that cannot be decoded: it is
   recorded as processed and goes to the DLQ, it is not dropped.             *)
PoisonEndsInDLQ ==
  \A e \in Poison : (e \in processed /\ queue[e] = 0 /\ ~InHand(e)) => e \in dlq

(* What consumer/auditlog.go Run says when its channel is closed: the worker's main
   deals with reconnecting.                                                  *)
Reconnects == \A w \in Workers : (Running(w) /\ ~conn[w]) ~> conn[w]
============================================================================
