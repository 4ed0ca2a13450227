---------------------------- MODULE OutboxProofs ----------------------------
(***************************************************************************)
(* OutboxPipeline for any number of events, workers and failures.  Its     *)
(* invariant has a part for each piece of the pipeline: the batches of the *)
(* relays, the deliveries of the consumers, the events on the way between  *)
(* them, and the account of what was sent.                                 *)
(***************************************************************************)
EXTENDS OutboxPipeline, CollectionProofs

Relays == [at : {"idle", "publish"}, batch : SUBSET Events, todo : SUBSET Events,
           marked : SUBSET Events]

Deliveries == [at : {"idle", "record", "decode", "settle"}, msg : Messages \union {NoMessage},
               live : BOOLEAN, verdict : {"ack", "requeue", "dlq"}]

PipelineTypes ==
  /\ row \in [Events -> {"absent", "unsent", "sent"}]
  /\ sends \in [Events -> Nat] /\ logged \in [Events -> Nat]
  /\ queue \in [Messages -> Nat]
  /\ relay \in [Workers -> Relays]
  /\ handler \in [Workers -> Deliveries]
  /\ up \in [Workers -> {"up", "stopping", "down"}] /\ conn \in [Workers -> BOOLEAN]
  /\ faults \in Nat

\* FOR UPDATE SKIP LOCKED: batches share no row, and their rows are not yet sent.
RelayOK(w) ==
  LET r == relay[w]
  IN  /\ r.todo \subseteq r.batch /\ r.marked \subseteq r.batch
      /\ r.todo \intersect r.marked = {} /\ (r.at = "idle" => r.batch = {})
      /\ \A e \in r.batch : row[e] = "unsent"
      /\ \A v \in Workers : v # w => relay[v].batch \intersect r.batch = {}

\* Nobody relays before there is a queue.
BoundOK == \A w \in Workers : up[w] # "down" => bound

\* The broker takes deliveries back when their connection ends.
ConnOK == \A w \in Workers : handler[w].live => conn[w]

\* Between the INSERT and the audit line an event is in one consumer's hands, and a
\* delivery that is answered for good was recorded.
DeliveryOK(w) ==
  LET h == handler[w]
  IN  /\ h.live => h.at # "idle"
      /\ h.at # "idle" => h.msg \in Messages
      /\ (h.at = "settle" /\ h.verdict # "requeue") => h.msg \in processed \union Foreign
      /\ h.at = "decode" =>
           /\ h.msg \in Events /\ h.msg \in processed /\ logged[h.msg] = 0
           /\ \A v \in Workers : (handler[v].at = "decode" /\ handler[v].msg = h.msg) => v = w

LoggedOK == \A e \in Events : logged[e] <= 1 /\ (logged[e] # 0 => e \in processed)

Marked(e) == \E w \in Workers : e \in relay[w].marked

Kept(e) == queue[e] > 0 \/ InHand(e) \/ e \in processed

\* Already the mark, before its COMMIT, says that the broker has the event.
KeptOK == \A e \in Events : (row[e] = "sent" \/ Marked(e)) => Kept(e)

\* What was sent counts as one; what was sent in vain has cost a fault.
Counted(e) == row[e] = "sent" \/ \E w \in Workers : Running(w) /\ e \in relay[w].marked

SendsOK == \A e \in Events : sends[e] <= faults + (IF Counted(e) THEN 1 ELSE 0)

PipelineInv ==
  /\ PipelineTypes /\ BoundOK /\ ConnOK /\ LoggedOK /\ KeptOK /\ SendsOK
  /\ \A w \in Workers : RelayOK(w)
  /\ \A w \in Workers : DeliveryOK(w)

----------------------------------------------------------------------------
(* The parts of the invariant, by what a step does to their variables.     *)

(* What a relay may do to its batch: take rows that no relay has, work on them, and
   let them go.  Rows that stay in a batch stay unsent.                      *)
LEMMA BatchChanges ==
  ASSUME PipelineTypes, \A v \in Workers : RelayOK(v), NEW w \in Workers, NEW r \in Relays,
         relay' = [relay EXCEPT ![w] = r],
         r.todo \subseteq r.batch, r.marked \subseteq r.batch, r.todo \intersect r.marked = {},
         r.at = "idle" => r.batch = {},
         r.batch \subseteq relay[w].batch \/ r.batch \subseteq Selectable(w),
         \A e \in r.batch : row'[e] = "unsent",
         \A e \in Events : row[e] = "unsent" => row'[e] = "unsent" \/ e \in relay[w].batch
  PROVE  \A v \in Workers : RelayOK(v)'
<1>1. \A v \in Workers : relay'[v] = IF v = w THEN r ELSE relay[v]
  BY DEF PipelineTypes
<1>2. \A v \in Workers : relay[v] \in Relays
  BY DEF PipelineTypes
<1>3. \A v \in Workers \ {w} : relay[v].batch \intersect r.batch = {}
  <2>1. CASE r.batch \subseteq relay[w].batch
    BY <2>1 DEF RelayOK
  <2>2. CASE r.batch \subseteq Selectable(w)
    BY <2>2 DEF Selectable
  <2> QED
    BY <2>1, <2>2
<1>4. \A v \in Workers \ {w} : \A e \in relay[v].batch : row'[e] = "unsent"
  <2> SUFFICES ASSUME NEW v \in Workers \ {w}, NEW e \in relay[v].batch
               PROVE  row'[e] = "unsent"
    OBVIOUS
  <2>1. RelayOK(v) /\ RelayOK(w) /\ e \in Events
    BY <1>2 DEF Relays
  <2>2. row[e] = "unsent" /\ e \notin relay[w].batch
    BY <2>1 DEF RelayOK
  <2> QED
    BY <2>1, <2>2
<1> SUFFICES ASSUME NEW v \in Workers PROVE RelayOK(v)'
  OBVIOUS
<1>5. CASE v = w
  <2>1. \A u \in Workers : u # v => relay'[u].batch \intersect relay'[v].batch = {}
    BY <1>1, <1>3, <1>5
  <2> QED
    BY <2>1, <1>1, <1>5 DEF RelayOK
<1>6. CASE v # w
  <2>1. RelayOK(v) /\ relay'[v] = relay[v]
    BY <1>1, <1>6
  <2>2. \A u \in Workers : u # v => relay'[u].batch \intersect relay'[v].batch = {}
    BY <2>1, <1>1, <1>3, <1>6 DEF RelayOK
  <2> QED
    BY <2>1, <2>2, <1>4, <1>6 DEF RelayOK
<1> QED
  BY <1>5, <1>6

(* What a consumer may do with its delivery, short of the audit line.      *)
LEMMA DeliveryChanges ==
  ASSUME PipelineTypes, LoggedOK, \A v \in Workers : DeliveryOK(v),
         NEW w \in Workers, NEW h \in Deliveries,
         handler' = [handler EXCEPT ![w] = h],
         processed \subseteq processed', logged' = logged,
         h.live => h.at # "idle",
         h.at # "idle" => h.msg \in Messages,
         (h.at = "settle" /\ h.verdict # "requeue") => h.msg \in processed' \union Foreign,
         h.at = "decode" =>
           /\ h.msg \in Events /\ h.msg \in processed' /\ logged[h.msg] = 0
           /\ \A v \in Workers \ {w} : ~(handler[v].at = "decode" /\ handler[v].msg = h.msg)
  PROVE  LoggedOK' /\ \A v \in Workers : DeliveryOK(v)'
<1>1. \A v \in Workers : handler'[v] = IF v = w THEN h ELSE handler[v]
  BY DEF PipelineTypes
<1>2. LoggedOK'
  BY DEF LoggedOK
<1>3. ASSUME NEW v \in Workers PROVE DeliveryOK(v)'
  <2>1. CASE v = w
    BY <2>1, <1>1 DEF DeliveryOK
  <2>2. CASE v # w
    <3>1. DeliveryOK(v) /\ handler'[v] = handler[v]
      BY <2>2, <1>1
    <3>2. handler[v].at = "decode" =>
            \A u \in Workers : (handler'[u].at = "decode" /\ handler'[u].msg = handler[v].msg) => u = v
      BY <2>2, <3>1, <1>1 DEF DeliveryOK
    <3> QED
      BY <3>1, <3>2 DEF DeliveryOK
  <2> QED
    BY <2>1, <2>2
<1> QED
  BY <1>2, <1>3

(* What is left alone stays as it is.                                      *)
LEMMA Frames ==
  ASSUME PipelineInv
  PROVE  /\ UNCHANGED <<bound, up>> => BoundOK'
         /\ UNCHANGED <<handler, conn>> => ConnOK'
         /\ UNCHANGED <<row, relay>> => \A w \in Workers : RelayOK(w)'
         /\ UNCHANGED <<handler, processed, logged>>
              => LoggedOK' /\ \A w \in Workers : DeliveryOK(w)'
<1>1. BoundOK /\ ConnOK /\ LoggedOK /\ \A w \in Workers : RelayOK(w) /\ DeliveryOK(w)
  BY DEF PipelineInv
<1>2. /\ UNCHANGED <<bound, up>> => BoundOK'
      /\ UNCHANGED <<handler, conn>> => ConnOK'
  BY <1>1 DEF BoundOK, ConnOK
<1>3. UNCHANGED <<row, relay>> => \A w \in Workers : RelayOK(w)'
  BY <1>1 DEF RelayOK
<1>4. UNCHANGED <<handler, processed, logged>>
              => LoggedOK' /\ \A w \in Workers : DeliveryOK(w)'
  BY <1>1 DEF LoggedOK, DeliveryOK
<1> QED
  BY <1>2, <1>3, <1>4

(* No event is lost as long as none that is marked anew is, and each stays kept.  *)
LEMMA KeptChanges ==
  ASSUME KeptOK,
         \A e \in Events : (row'[e] = "sent" \/ Marked(e)')
            => Kept(e)' \/ row[e] = "sent" \/ Marked(e),
         \A e \in Events : Kept(e) => Kept(e)'
  PROVE  KeptOK'
BY DEF KeptOK

(* The account of what was sent: what counted still counts, or cost a fault.  *)
LEMMA SendsChange ==
  ASSUME PipelineTypes, SendsOK, sends' = sends, faults' \in {faults, faults + 1},
         \A e \in Events : Counted(e) => Counted(e)' \/ faults' = faults + 1
  PROVE  SendsOK'
<1> SUFFICES ASSUME NEW e \in Events
             PROVE  sends'[e] <= faults' + (IF Counted(e)' THEN 1 ELSE 0)
  BY DEF SendsOK
<1>1. sends[e] \in Nat /\ faults \in Nat /\ sends[e] <= faults + (IF Counted(e) THEN 1 ELSE 0)
  BY DEF SendsOK, PipelineTypes
<1> QED
  BY <1>1

Holds(h, e) == h.at # "idle" /\ h.live /\ h.msg = e

(* An event that leaves the queue is in a consumer's hands; one that leaves them is in
   the queue again, or recorded.                                             *)
LEMMA KeptMoves ==
  ASSUME PipelineTypes, NEW w \in Workers, NEW h \in Deliveries,
         handler' = [handler EXCEPT ![w] = h], processed \subseteq processed',
         \A e \in Events : queue[e] > 0 => queue'[e] > 0 \/ Holds(h, e),
         \A e \in Events : Holds(handler[w], e) => queue'[e] > 0 \/ e \in processed' \/ Holds(h, e)
  PROVE  \A e \in Events : Kept(e) => Kept(e)'
<1>1. \A v \in Workers : handler'[v] = IF v = w THEN h ELSE handler[v]
  BY DEF PipelineTypes
<1>2. \A e : InHand(e) <=> \E v \in Workers : Holds(handler[v], e)
  BY DEF InHand, Holds
<1>3. \A e : InHand(e)' <=> \E v \in Workers : Holds(handler'[v], e)
  BY DEF InHand, Holds
<1> SUFFICES ASSUME NEW e \in Events, Kept(e) PROVE Kept(e)'
  OBVIOUS
<1>4. CASE queue[e] > 0
  BY <1>1, <1>3, <1>4 DEF Kept
<1>5. CASE e \in processed
  BY <1>5 DEF Kept
<1>6. CASE InHand(e)
  <2>1. PICK v \in Workers : Holds(handler[v], e)
    BY <1>2, <1>6
  <2> QED
    BY <2>1, <1>1, <1>3 DEF Kept
<1> QED
  BY <1>4, <1>5, <1>6 DEF Kept

(* The parts, taken apart once.                                            *)
LEMMA PartsOf ==
  ASSUME PipelineInv
  PROVE  /\ PipelineTypes /\ BoundOK /\ ConnOK /\ LoggedOK /\ KeptOK /\ SendsOK
         /\ \A w \in Workers : RelayOK(w)
         /\ \A w \in Workers : DeliveryOK(w)
         /\ \A w \in Workers : relay[w] \in Relays /\ handler[w] \in Deliveries
         /\ IdleRelay \in Relays /\ IdleHandler \in Deliveries
BY DEF PipelineInv, PipelineTypes, IdleRelay, IdleHandler, Relays, Deliveries

----------------------------------------------------------------------------
(* Producers and relays.                                                   *)

(* A row is written, or a foreign message arrives.                         *)
LEMMA ProducerStep ==
  ASSUME PipelineInv,
         (\E e \in Events : Write(e)) \/ (\E m \in Foreign : ForeignPublish(m))
  PROVE  PipelineInv'
<1>1. /\ PipelineTypes /\ KeptOK /\ SendsOK
      /\ \A w \in Workers : RelayOK(w) /\ relay[w] \in Relays
  BY PartsOf
<1>2. UNCHANGED <<bound, up>> /\ UNCHANGED <<handler, processed, logged, conn>>
      /\ UNCHANGED <<relay, sends, faults>>
  BY DEF Write, ForeignPublish, broker, tables
<1>3. ASSUME NEW x \in Events, Write(x) PROVE PipelineInv'
  <2>1. /\ row[x] = "absent" /\ queue' = queue /\ row' \in [Events -> {"absent", "unsent", "sent"}]
        /\ \A e \in Events : row'[e] = IF e = x THEN "unsent" ELSE row[e]
    BY <1>1, <1>3 DEF Write, broker, PipelineTypes
  <2>2. PipelineTypes'
    BY <1>1, <1>2, <2>1 DEF PipelineTypes
  <2>3. \A w \in Workers : RelayOK(w)'
    <3> SUFFICES ASSUME NEW w \in Workers PROVE RelayOK(w)'
      OBVIOUS
    <3>1. \A e \in relay[w].batch : row'[e] = "unsent"
      BY <1>1, <2>1 DEF RelayOK, Relays
    <3> QED
      BY <3>1, <1>1, <1>2 DEF RelayOK
  <2>4. KeptOK'
    <3>1. \A e \in Events : (row'[e] = "sent" \/ Marked(e)') => row[e] = "sent" \/ Marked(e)
      BY <1>2, <2>1 DEF Marked
    <3>2. \A e \in Events : Kept(e) => Kept(e)'
      BY <1>2, <2>1 DEF Kept, InHand
    <3> QED
      BY <3>1, <3>2, <1>1, KeptChanges
  <2>5. SendsOK'
    <3>1. \A e \in Events : Counted(e) => Counted(e)'
      BY <1>2, <2>1 DEF Counted, Running
    <3> QED
      BY <3>1, <1>1, <1>2, SendsChange
  <2> QED
    BY <2>2, <2>3, <2>4, <2>5, <1>2, Frames DEF PipelineInv
<1>4. ASSUME NEW m \in Foreign, ForeignPublish(m) PROVE PipelineInv'
  <2>1. row' = row /\ m \in Messages /\ queue' = [queue EXCEPT ![m] = 1]
    BY <1>4 DEF ForeignPublish, tables, Messages
  <2>2. queue' \in [Messages -> Nat] /\ \A k \in Messages : queue[k] > 0 => queue'[k] > 0
    BY <1>1, <2>1 DEF PipelineTypes
  <2>3. PipelineTypes'
    BY <1>1, <1>2, <2>1, <2>2 DEF PipelineTypes
  <2>4. KeptOK'
    <3>1. \A e \in Events : (row'[e] = "sent" \/ Marked(e)') => row[e] = "sent" \/ Marked(e)
      BY <1>2, <2>1 DEF Marked
    <3>2. \A e \in Events : Kept(e) => Kept(e)'
      BY <1>2, <2>2 DEF Kept, InHand, Messages
    <3> QED
      BY <3>1, <3>2, <1>1, KeptChanges
  <2>5. SendsOK'
    <3>1. \A e \in Events : Counted(e) => Counted(e)'
      BY <1>2, <2>1 DEF Counted, Running
    <3> QED
      BY <3>1, <1>1, <1>2, SendsChange
  <2> QED
    BY <2>1, <2>3, <2>4, <2>5, <1>2, Frames DEF PipelineInv
<1> QED
  BY <1>3, <1>4

(* FOR UPDATE SKIP LOCKED takes rows that nobody has.                      *)
LEMMA SelectStep ==
  ASSUME PipelineInv, NEW w \in Workers, Select(w)
  PROVE  PipelineInv'
<1>1. /\ PipelineTypes /\ KeptOK /\ SendsOK
      /\ \A v \in Workers : RelayOK(v) /\ relay[v] \in Relays
  BY PartsOf
<1>2. PICK B : B = FirstOf(Selectable(w))
  OBVIOUS
<1>3. B \subseteq Selectable(w) /\ B \subseteq Events /\ \A e \in B : row[e] = "unsent"
  BY <1>2 DEF FirstOf, Selectable
<1>4. PICK r : r = [at |-> "publish", batch |-> B, todo |-> B, marked |-> {}]
  OBVIOUS
<1>5. r \in Relays /\ r.at = "publish" /\ r.batch = B /\ r.todo = B /\ r.marked = {}
  BY <1>3, <1>4 DEF Relays
<1>6. /\ relay' = [relay EXCEPT ![w] = r] /\ UNCHANGED <<row, queue, sends, faults>>
      /\ UNCHANGED <<bound, up>> /\ UNCHANGED <<handler, processed, logged, conn>>
  BY <1>2, <1>4 DEF Select, tables, broker
<1>7. \A v \in Workers : relay'[v] = IF v = w THEN r ELSE relay[v]
  BY <1>1, <1>6 DEF PipelineTypes
<1>8. PipelineTypes'
  BY <1>1, <1>5, <1>6 DEF PipelineTypes
<1>9. \A v \in Workers : RelayOK(v)'
  BY <1>1, <1>3, <1>5, <1>6, BatchChanges
<1>10. KeptOK'
  <2>1. \A e \in Events : (row'[e] = "sent" \/ Marked(e)') => row[e] = "sent" \/ Marked(e)
    BY <1>5, <1>6, <1>7 DEF Marked
  <2>2. \A e \in Events : Kept(e) => Kept(e)'
    BY <1>6 DEF Kept, InHand
  <2> QED
    BY <2>1, <2>2, <1>1, KeptChanges
<1>11. SendsOK'
  <2>1. relay[w].marked = {}
    BY <1>1 DEF Select, RelayOK
  <2>2. \A e \in Events : Counted(e) => Counted(e)'
    BY <2>1, <1>6, <1>7 DEF Counted, Running
  <2> QED
    BY <2>2, <1>1, <1>6, SendsChange
<1> QED
  BY <1>6, <1>8, <1>9, <1>10, <1>11, Frames DEF PipelineInv

(* The event a relay publishes is one it has selected and neither sent nor marked.  *)
LEMMA ThisIsTodo ==
  ASSUME PipelineInv, NEW w \in Workers, Publishing(w)
  PROVE  /\ This(w) \in relay[w].todo /\ This(w) \in relay[w].batch /\ This(w) \in Events
         /\ row[This(w)] = "unsent" /\ ~Marked(This(w)) /\ ~Counted(This(w))
<1>1. RelayOK(w) /\ relay[w] \in Relays /\ \A v \in Workers : RelayOK(v)
  BY PartsOf
<1>2. relay[w].todo \in SUBSET Nat /\ relay[w].todo # {}
  BY <1>1, PipelineAssumption DEF Relays, Publishing
<1>3. This(w) \in relay[w].todo
  BY <1>2, MinOfNats DEF This
<1>4. /\ This(w) \in relay[w].batch /\ This(w) \in Events /\ row[This(w)] = "unsent"
      /\ This(w) \notin relay[w].marked
  BY <1>1, <1>3 DEF RelayOK, Relays
<1>5. \A v \in Workers : This(w) \notin relay[v].marked
  <2> SUFFICES ASSUME NEW v \in Workers, v # w PROVE This(w) \notin relay[v].marked
    BY <1>4
  <2>1. relay[v].marked \subseteq relay[v].batch /\ relay[v].batch \intersect relay[w].batch = {}
    BY <1>1 DEF RelayOK
  <2> QED
    BY <2>1, <1>4
<1> QED
  BY <1>3, <1>4, <1>5 DEF Marked, Counted

(* publish, whether its confirm arrives, is lost or is refused.            *)
LEMMA PublishStep ==
  ASSUME PipelineInv, NEW w \in Workers,
         Publish(w) \/ PublishFails(w) \/ PublishUnconfirmed(w)
  PROVE  PipelineInv'
<1>1. /\ PipelineTypes /\ KeptOK /\ SendsOK /\ BoundOK
      /\ \A v \in Workers : RelayOK(v) /\ relay[v] \in Relays
  BY PartsOf
<1>2. Publishing(w) /\ Running(w)
  BY DEF Publish, PublishFails, PublishUnconfirmed
<1>3. PICK x : x = This(w)
  OBVIOUS
<1>4. /\ x \in relay[w].todo /\ x \in relay[w].batch /\ x \in Events
      /\ row[x] = "unsent" /\ ~Marked(x) /\ ~Counted(x)
  BY <1>2, <1>3, ThisIsTodo
<1>5. bound
  BY <1>1, <1>2 DEF BoundOK, Running
<1>6. x \in Messages
  BY <1>4 DEF Messages
<1>7. PICK M : M = IF Publish(w) THEN {x} ELSE {}
  OBVIOUS
<1>8. PICK r : r = [relay[w] EXCEPT !.todo = relay[w].todo \ {x}, !.marked = relay[w].marked \union M]
  OBVIOUS
<1>9. /\ r \in Relays /\ r.at = "publish" /\ r.batch = relay[w].batch
      /\ r.todo = relay[w].todo \ {x} /\ r.marked = relay[w].marked \union M
  BY <1>1, <1>2, <1>4, <1>7, <1>8 DEF Relays, Publishing
<1>10. /\ UNCHANGED <<bound, up>> /\ UNCHANGED <<handler, processed, logged, conn>> /\ row' = row
  BY DEF Publish, PublishFails, PublishUnconfirmed, TakenIn, tables, broker
<1>11. relay' = [relay EXCEPT ![w] = r]
  <2>1. CASE Publish(w)
    BY <2>1, <1>3, <1>7, <1>8 DEF Publish
  <2>2. CASE ~Publish(w)
    <3>1. relay' = [relay EXCEPT ![w] = [relay[w] EXCEPT !.todo = relay[w].todo \ {x}]]
      BY <2>2, <1>3 DEF PublishFails, PublishUnconfirmed, Skip
    <3>2. [relay[w] EXCEPT !.todo = relay[w].todo \ {x}] = r
      BY <2>2, <1>1, <1>7, <1>8 DEF Relays
    <3> QED
      BY <3>1, <3>2
  <2> QED
    BY <2>1, <2>2
<1>12. \A v \in Workers : relay'[v] = IF v = w THEN r ELSE relay[v]
  BY <1>1, <1>11 DEF PipelineTypes
<1>13. /\ faults' \in {faults, faults + 1} /\ faults' \in Nat
       /\ PublishUnconfirmed(w) => faults' = faults + 1
  BY <1>1 DEF Publish, PublishFails, PublishUnconfirmed, Fault, PipelineTypes
<1>14. \/ /\ Publish(w) \/ PublishUnconfirmed(w)
          /\ queue' = [queue EXCEPT ![x] = queue[x] + 1] /\ sends' = [sends EXCEPT ![x] = sends[x] + 1]
       \/ /\ ~Publish(w) /\ ~PublishUnconfirmed(w)
          /\ queue' = queue /\ sends' = sends
  BY <1>3, <1>5 DEF Publish, PublishFails, PublishUnconfirmed, TakenIn, broker
<1>15. /\ queue' \in [Messages -> Nat] /\ \A m \in Messages : queue[m] > 0 => queue'[m] > 0
       /\ Publish(w) => queue'[x] > 0
       /\ sends' \in [Events -> Nat] /\ \A e \in Events \ {x} : sends'[e] = sends[e]
       /\ sends'[x] = sends[x] \/ (sends'[x] = sends[x] + 1 /\ (Publish(w) \/ PublishUnconfirmed(w)))
  BY <1>1, <1>4, <1>6, <1>14 DEF PipelineTypes
<1>16. PipelineTypes'
  BY <1>1, <1>9, <1>10, <1>11, <1>13, <1>15 DEF PipelineTypes
<1>17. \A v \in Workers : RelayOK(v)'
  <2>1. RelayOK(w)
    BY <1>1
  <2>2. /\ r.todo \subseteq r.batch /\ r.marked \subseteq r.batch /\ r.todo \intersect r.marked = {}
        /\ \A e \in r.batch : row'[e] = "unsent"
    BY <2>1, <1>4, <1>7, <1>9, <1>10 DEF RelayOK
  <2> QED
    BY <2>2, <1>1, <1>9, <1>10, <1>11, BatchChanges
<1>18. KeptOK'
  <2>1. \A e \in Events : Kept(e) => Kept(e)'
    BY <1>10, <1>15 DEF Kept, InHand, Messages
  <2>2. \A e \in Events : Marked(e)' => Marked(e) \/ (e = x /\ Publish(w))
    BY <1>7, <1>9, <1>12 DEF Marked
  <2>3. Publish(w) => Kept(x)'
    BY <1>15 DEF Kept
  <2> QED
    BY <2>1, <2>2, <2>3, <1>1, <1>10, KeptChanges
<1>19. SendsOK'
  <2> SUFFICES ASSUME NEW e \in Events
               PROVE  sends'[e] <= faults' + (IF Counted(e)' THEN 1 ELSE 0)
    BY DEF SendsOK
  <2>1. sends[e] \in Nat /\ faults \in Nat /\ sends[e] <= faults + (IF Counted(e) THEN 1 ELSE 0)
    BY <1>1 DEF SendsOK, PipelineTypes
  <2>2. CASE e # x
    <3>1. Counted(e) => Counted(e)'
      BY <1>9, <1>10, <1>12 DEF Counted, Running
    <3> QED
      BY <3>1, <2>1, <2>2, <1>13, <1>15
  <2>3. CASE e = x
    <3>1. Publish(w) => Counted(x)'
      BY <1>2, <1>7, <1>9, <1>10, <1>12 DEF Counted, Running
    <3> QED
      BY <3>1, <2>1, <2>3, <1>4, <1>13, <1>15
  <2> QED
    BY <2>2, <2>3
<1> QED
  BY <1>10, <1>16, <1>17, <1>18, <1>19, Frames DEF PipelineInv

(* The transaction around the batch ends: what was marked is sent, or everything is
   rolled back, which costs a fault or follows a signal.                     *)
LEMMA BatchEnds ==
  ASSUME PipelineInv, NEW w \in Workers, CommitBatch(w) \/ RollbackBatch(w)
  PROVE  PipelineInv'
<1>1. /\ PipelineTypes /\ KeptOK /\ SendsOK
      /\ \A v \in Workers : RelayOK(v) /\ relay[v] \in Relays
      /\ IdleRelay \in Relays
  BY PartsOf
<1>2. /\ relay' = [relay EXCEPT ![w] = IdleRelay] /\ UNCHANGED <<queue, sends>>
      /\ UNCHANGED <<bound, up>> /\ UNCHANGED <<handler, processed, logged, conn>>
  BY DEF CommitBatch, RollbackBatch, tables, broker
<1>3. IdleRelay.batch = {} /\ IdleRelay.todo = {} /\ IdleRelay.marked = {}
  BY DEF IdleRelay
<1>4. \A v \in Workers : relay'[v] = IF v = w THEN IdleRelay ELSE relay[v]
  BY <1>1, <1>2 DEF PipelineTypes
<1>5. /\ row' \in [Events -> {"absent", "unsent", "sent"}]
      /\ \A e \in Events : row'[e] = row[e] \/ (row'[e] = "sent" /\ e \in relay[w].marked)
      /\ \A e \in relay[w].marked : Running(w) => row'[e] = "sent" \/ faults' = faults + 1
      /\ faults' \in {faults, faults + 1}
  <2>1. CASE CommitBatch(w)
    <3>1. faults' = faults /\ row' = [e \in Events |-> IF e \in relay[w].marked THEN "sent" ELSE row[e]]
      BY <2>1 DEF CommitBatch, Marks
    <3>2. relay[w].marked \subseteq Events
      BY <1>1 DEF Relays
    <3> QED
      BY <3>1, <3>2, <1>1 DEF PipelineTypes
  <2>2. CASE RollbackBatch(w)
    <3>1. row' = row /\ faults' \in {faults, faults + 1} /\ (Running(w) => faults' = faults + 1)
      BY <2>2 DEF RollbackBatch, Fault, tables
    <3> QED
      BY <3>1, <1>1 DEF PipelineTypes
  <2> QED
    BY <2>1, <2>2
<1>6. PipelineTypes'
  BY <1>1, <1>2, <1>5 DEF PipelineTypes
<1>7. \A v \in Workers : RelayOK(v)'
  <2>1. \A e \in Events : row[e] = "unsent" => row'[e] = "unsent" \/ e \in relay[w].batch
    BY <1>1, <1>5 DEF RelayOK
  <2> QED
    BY <2>1, <1>1, <1>2, <1>3, BatchChanges
<1>8. KeptOK'
  <2>1. \A e \in Events : (row'[e] = "sent" \/ Marked(e)') => row[e] = "sent" \/ Marked(e)
    BY <1>3, <1>4, <1>5 DEF Marked
  <2>2. \A e \in Events : Kept(e) => Kept(e)'
    BY <1>2 DEF Kept, InHand
  <2> QED
    BY <2>1, <2>2, <1>1, KeptChanges
<1>9. SendsOK'
  <2>1. \A e \in Events : Counted(e) => Counted(e)' \/ faults' = faults + 1
    BY <1>2, <1>4, <1>5 DEF Counted, Running
  <2> QED
    BY <2>1, <1>1, <1>2, <1>5, SendsChange
<1> QED
  BY <1>2, <1>6, <1>7, <1>8, <1>9, Frames DEF PipelineInv

----------------------------------------------------------------------------
(* Consumers.                                                              *)

(* One statement of handle.                                                *)
LEMMA ConsumerStep ==
  ASSUME PipelineInv, NEW w \in Workers, Consuming(w) \/ RecordFails(w)
  PROVE  PipelineInv'
<1>1. /\ PipelineTypes /\ KeptOK /\ SendsOK /\ ConnOK /\ LoggedOK
      /\ \A v \in Workers : DeliveryOK(v) /\ handler[v] \in Deliveries
      /\ IdleHandler \in Deliveries
  BY PartsOf
<1>2. /\ UNCHANGED <<bound, up>> /\ UNCHANGED <<row, relay>> /\ UNCHANGED <<sends, conn>>
      /\ faults' \in {faults, faults + 1}
  BY DEF Consuming, Take, Record, RecordFails, Decode, Settle, Fault, tables, broker
<1>3. SendsOK'
  <2>1. \A e \in Events : Counted(e) => Counted(e)'
    BY <1>2 DEF Counted, Running
  <2> QED
    BY <2>1, <1>1, <1>2, SendsChange
<1>4. ASSUME \A e \in Events : Kept(e) => Kept(e)' PROVE KeptOK'
  <2>1. \A e \in Events : (row'[e] = "sent" \/ Marked(e)') => row[e] = "sent" \/ Marked(e)
    BY <1>2 DEF Marked
  <2> QED
    BY <2>1, <1>1, <1>4, KeptChanges
<1>5. ASSUME NEW h \in Deliveries, handler' = [handler EXCEPT ![w] = h], h.live => conn[w]
      PROVE  ConnOK' /\ \A v \in Workers : handler'[v] = IF v = w THEN h ELSE handler[v]
  BY <1>1, <1>2, <1>5 DEF ConnOK, PipelineTypes
<1>6. ASSUME NEW m \in Messages, Take(w, m) PROVE PipelineInv'
  <2>1. PICK h : h = [at |-> "record", msg |-> m, live |-> TRUE, verdict |-> "ack"]
    OBVIOUS
  <2>2. h \in Deliveries /\ h.at = "record" /\ h.msg = m /\ h.live
    BY <2>1 DEF Deliveries
  <2>3. /\ handler' = [handler EXCEPT ![w] = h] /\ conn[w] /\ handler[w].at = "idle"
        /\ processed' = processed /\ logged' = logged
        /\ queue[m] > 0 /\ queue' = [queue EXCEPT ![m] = queue[m] - 1]
    BY <2>1, <1>6 DEF Take, tables
  <2>4. queue' \in [Messages -> Nat] /\ \A e \in Events \ {m} : queue'[e] = queue[e]
    BY <2>3, <1>1 DEF PipelineTypes, Messages
  <2>5. PipelineTypes'
    BY <2>2, <2>3, <2>4, <1>1, <1>2 DEF PipelineTypes
  <2>6. LoggedOK' /\ \A v \in Workers : DeliveryOK(v)'
    BY <2>2, <2>3, <1>1, DeliveryChanges
  <2>7. \A e \in Events : Kept(e) => Kept(e)'
    BY <2>2, <2>3, <2>4, <1>1, KeptMoves DEF Holds
  <2> QED
    BY <2>2, <2>3, <2>5, <2>6, <2>7, <1>2, <1>3, <1>4, <1>5, Frames DEF PipelineInv
<1>7. CASE Decode(w)
  <2>1. PICK m : m = handler[w].msg
    OBVIOUS
  <2>2. /\ handler[w].at = "decode" /\ m \in Events /\ m \in processed /\ logged[m] = 0
        /\ \A v \in Workers : (handler[v].at = "decode" /\ handler[v].msg = m) => v = w
    BY <2>1, <1>1, <1>7 DEF DeliveryOK, Decode, HandlerAt
  <2>3. PICK h : handler' = [handler EXCEPT ![w] = h]
                 /\ h \in Deliveries /\ h.at = "settle" /\ h.msg = m /\ h.live = handler[w].live
    <3>1. PICK c \in {"ack", "dlq"} : Decide(w, c)
      BY <1>7 DEF Decode
    <3>2. PICK h : h = [handler[w] EXCEPT !.at = "settle", !.verdict = c]
      OBVIOUS
    <3>3. handler' = [handler EXCEPT ![w] = h]
      BY <3>1, <3>2 DEF Decide
    <3>4. h \in Deliveries /\ h.at = "settle" /\ h.msg = m /\ h.live = handler[w].live
      BY <3>1, <3>2, <2>1, <1>1 DEF Deliveries
    <3> QED
      BY <3>3, <3>4
  <2>4. UNCHANGED <<processed, queue>> /\ logged' \in {logged, [logged EXCEPT ![m] = logged[m] + 1]}
    BY <2>1, <1>7 DEF Decode, tables, broker
  <2>5. /\ logged' \in [Events -> Nat] /\ \A e \in Events \ {m} : logged'[e] = logged[e]
        /\ logged'[m] <= 1
    BY <2>2, <2>4, <1>1 DEF PipelineTypes
  <2>6. PipelineTypes'
    BY <2>3, <2>4, <2>5, <1>1, <1>2 DEF PipelineTypes
  <2>7. LoggedOK'
    BY <2>2, <2>4, <2>5, <1>1 DEF LoggedOK
  <2>8. ConnOK' /\ \A v \in Workers : handler'[v] = IF v = w THEN h ELSE handler[v]
    BY <2>3, <1>1, <1>5 DEF ConnOK
  <2>9. ASSUME NEW v \in Workers PROVE DeliveryOK(v)'
    <3>1. CASE v = w
      BY <3>1, <2>2, <2>3, <2>4, <2>8 DEF DeliveryOK, Messages
    <3>2. CASE v # w
      <4>1. DeliveryOK(v) /\ handler'[v] = handler[v]
        BY <3>2, <2>8, <1>1
      <4>2. handler[v].at = "decode" =>
              /\ handler[v].msg # m /\ logged'[handler[v].msg] = 0
              /\ \A u \in Workers : (handler'[u].at = "decode" /\ handler'[u].msg = handler[v].msg) => u = v
        BY <4>1, <3>2, <2>2, <2>3, <2>5, <2>8 DEF DeliveryOK
      <4> QED
        BY <4>1, <4>2, <2>4 DEF DeliveryOK
    <3> QED
      BY <3>1, <3>2
  <2>10. \A e \in Events : Kept(e) => Kept(e)'
    <3>1. \A e \in Events : Holds(handler[w], e) => Holds(h, e)
      BY <2>1, <2>3 DEF Holds
    <3> QED
      BY <3>1, <2>3, <2>4, <1>1, KeptMoves
  <2> QED
    BY <2>6, <2>7, <2>8, <2>9, <2>10, <1>2, <1>3, <1>4, Frames DEF PipelineInv
<1>8. CASE Record(w) \/ RecordFails(w)
  <2>1. PICK m : m = handler[w].msg
    OBVIOUS
  <2>2. handler[w].at = "record" /\ m \in Messages /\ UNCHANGED <<queue, logged>>
    BY <2>1, <1>1, <1>8 DEF DeliveryOK, Record, RecordFails, HandlerAt, broker
  <2>3. PICK h : /\ handler' = [handler EXCEPT ![w] = h]
                 /\ h \in Deliveries /\ h.at \in {"settle", "decode"}
                 /\ h.msg = m /\ h.live = handler[w].live
                 /\ (h.at = "settle" /\ h.verdict # "requeue") => m \in processed \union Foreign
                 /\ h.at = "decode" => m \in Events /\ m \in processed' /\ m \notin processed
    <3>1. CASE Record(w) => BadMessageId(m) \/ ~FirstDelivery(m)
      <4>1. PICK c \in {"ack", "requeue", "dlq"} :
              Decide(w, c) /\ (c # "requeue" => m \in processed \union Foreign)
        <5>1. CASE RecordFails(w)
          <6>1. Decide(w, "requeue")
            BY <5>1 DEF RecordFails
          <6> QED
            BY <6>1
        <5>2. CASE Record(w)
          <6>1. (Decide(w, "dlq") /\ m \in Foreign) \/ (Decide(w, "ack") /\ m \in processed)
            BY <5>2, <3>1, <2>1 DEF Record, BadMessageId, FirstDelivery
          <6> QED
            BY <6>1
        <5> QED
          BY <5>1, <5>2, <1>8
      <4>2. PICK h : h = [handler[w] EXCEPT !.at = "settle", !.verdict = c]
        OBVIOUS
      <4>3. handler' = [handler EXCEPT ![w] = h]
        BY <4>1, <4>2 DEF Decide
      <4>4. h \in Deliveries /\ h.at = "settle" /\ h.verdict = c /\ h.msg = m /\ h.live = handler[w].live
        BY <4>2, <2>1, <1>1 DEF Deliveries
      <4> QED
        BY <4>1, <4>3, <4>4
    <3>2. CASE Record(w) /\ ~BadMessageId(m) /\ FirstDelivery(m)
      <4>1. PICK h : h = [handler[w] EXCEPT !.at = "decode"]
        OBVIOUS
      <4>2. handler' = [handler EXCEPT ![w] = h] /\ processed' = processed \union {m}
        BY <3>2, <4>1, <2>1 DEF Record
      <4>3. h \in Deliveries /\ h.at = "decode" /\ h.msg = m /\ h.live = handler[w].live
        BY <4>1, <2>1, <1>1 DEF Deliveries
      <4>4. m \in Events /\ m \notin processed
        BY <3>2, <2>2 DEF Messages, BadMessageId, FirstDelivery
      <4> QED
        BY <4>2, <4>3, <4>4
    <3> QED
      BY <3>1, <3>2
  <2>4. processed \subseteq processed'
    BY <1>8 DEF Record, RecordFails
  <2>5. PipelineTypes'
    BY <2>2, <2>3, <1>1, <1>2 DEF PipelineTypes
  <2>6. ConnOK'
    BY <2>3, <1>1, <1>5 DEF ConnOK
  <2>7. h.at = "decode" =>
           /\ m \in Events /\ m \in processed' /\ logged[m] = 0
           /\ \A v \in Workers \ {w} : ~(handler[v].at = "decode" /\ handler[v].msg = m)
    BY <2>3, <1>1 DEF LoggedOK, DeliveryOK
  <2>8. LoggedOK' /\ \A v \in Workers : DeliveryOK(v)'
    BY <2>2, <2>3, <2>4, <2>7, <1>1, DeliveryChanges
  <2>9. \A e \in Events : Kept(e) => Kept(e)'
    BY <2>1, <2>2, <2>3, <2>4, <1>1, KeptMoves DEF Holds
  <2> QED
    BY <2>5, <2>6, <2>8, <2>9, <1>2, <1>3, <1>4, Frames DEF PipelineInv
<1>9. CASE Settle(w)
  <2>1. PICK m : m = handler[w].msg
    OBVIOUS
  <2>2. /\ handler[w].at = "settle" /\ m \in Messages /\ UNCHANGED <<processed, logged>>
        /\ handler' = [handler EXCEPT ![w] = IdleHandler]
        /\ queue' = IF handler[w].live /\ handler[w].verdict = "requeue"
                    THEN [queue EXCEPT ![m] = queue[m] + 1] ELSE queue
    BY <2>1, <1>1, <1>9 DEF DeliveryOK, Settle, HandlerAt, tables
  <2>3. IdleHandler.at = "idle" /\ ~IdleHandler.live
    BY DEF IdleHandler
  <2>4. /\ queue' \in [Messages -> Nat] /\ \A k \in Messages : queue[k] > 0 => queue'[k] > 0
        /\ (handler[w].live /\ handler[w].verdict = "requeue") => queue'[m] > 0
    BY <2>2, <1>1 DEF PipelineTypes
  <2>5. PipelineTypes'
    BY <2>2, <2>4, <1>1, <1>2 DEF PipelineTypes
  <2>6. ConnOK'
    BY <2>2, <2>3, <1>1, <1>5
  <2>7. LoggedOK' /\ \A v \in Workers : DeliveryOK(v)'
    BY <2>2, <2>3, <1>1, DeliveryChanges
  <2>8. \A e \in Events : Kept(e) => Kept(e)'
    <3>1. handler[w].verdict # "requeue" => m \in processed \union Foreign
      BY <2>1, <2>2, <1>1 DEF DeliveryOK
    <3>2. \A e \in Events : e \notin Foreign /\ e \in Messages
      BY PipelineAssumption DEF Messages
    <3>3. \A e \in Events : Holds(handler[w], e) => queue'[e] > 0 \/ e \in processed'
      BY <3>1, <3>2, <2>1, <2>2, <2>4 DEF Holds
    <3> QED
      BY <3>2, <3>3, <2>2, <2>4, <1>1, KeptMoves
  <2> QED
    BY <2>5, <2>6, <2>7, <2>8, <1>2, <1>3, <1>4, Frames DEF PipelineInv
<1> QED
  BY <1>6, <1>7, <1>8, <1>9 DEF Consuming

----------------------------------------------------------------------------
(* Processes and connections.                                              *)

(* A process ends or loses its connection: the broker has the delivery again.  *)
LEMMA ConnectionEnds ==
  ASSUME PipelineInv, NEW w \in Workers, LoseConnection(w) \/ CloseConnection(w) \/ Crash(w)
  PROVE  PipelineInv'
<1>1. /\ PipelineTypes /\ KeptOK /\ SendsOK /\ ConnOK /\ LoggedOK /\ BoundOK
      /\ \A v \in Workers : RelayOK(v) /\ relay[v] \in Relays
      /\ \A v \in Workers : DeliveryOK(v) /\ handler[v] \in Deliveries
      /\ IdleRelay \in Relays /\ IdleHandler \in Deliveries
  BY PartsOf
<1>2. Disconnect(w) /\ UNCHANGED <<row, processed, bound, sends, logged>>
  BY DEF LoseConnection, CloseConnection, Crash, tables
<1>3. PICK h : /\ h \in Deliveries /\ handler' = [handler EXCEPT ![w] = h] /\ ~h.live
               /\ \/ h.at = "idle"
                  \/ h.at = handler[w].at /\ h.msg = handler[w].msg /\ h.verdict = handler[w].verdict
  <2>1. CASE Crash(w)
    <3>1. ~IdleHandler.live /\ IdleHandler.at = "idle"
      BY DEF IdleHandler
    <3> QED
      BY <2>1, <3>1, <1>1 DEF Crash
  <2>2. CASE Orphan(w)
    <3>1. PICK h : h = [handler[w] EXCEPT !.live = FALSE]
      OBVIOUS
    <3>2. handler' = [handler EXCEPT ![w] = h]
      BY <2>2, <3>1 DEF Orphan
    <3>3. /\ h \in Deliveries /\ ~h.live
          /\ h.at = handler[w].at /\ h.msg = handler[w].msg /\ h.verdict = handler[w].verdict
      BY <3>1, <1>1 DEF Deliveries
    <3> QED
      BY <3>2, <3>3
  <2> QED
    BY <2>1, <2>2 DEF LoseConnection, CloseConnection
<1>4. PICK r \in {relay[w], IdleRelay} : relay' = [relay EXCEPT ![w] = r] /\ (r = IdleRelay \/ ~Crash(w))
  <2>1. relay' = [relay EXCEPT ![w] = IdleRelay] \/ (~Crash(w) /\ relay' = relay)
    BY DEF LoseConnection, CloseConnection, Crash
  <2>2. relay = [relay EXCEPT ![w] = relay[w]]
    BY <1>1 DEF PipelineTypes
  <2> QED
    BY <2>1, <2>2
<1>5. /\ conn' = [conn EXCEPT ![w] = FALSE]
      /\ queue' = IF handler[w].live THEN [queue EXCEPT ![handler[w].msg] = queue[handler[w].msg] + 1]
                  ELSE queue
  BY <1>2 DEF Disconnect
<1>6. handler[w].live => handler[w].msg \in Messages
  BY <1>1 DEF DeliveryOK
<1>7. /\ queue' \in [Messages -> Nat] /\ \A m \in Messages : queue[m] > 0 => queue'[m] > 0
      /\ handler[w].live => queue'[handler[w].msg] > 0
  BY <1>1, <1>5, <1>6 DEF PipelineTypes
<1>8. /\ faults' \in {faults, faults + 1}
      /\ up' = up \/ (Crash(w) /\ faults' = faults + 1 /\ up' = [up EXCEPT ![w] = "down"])
  BY DEF LoseConnection, CloseConnection, Crash, Fault
<1>9. PipelineTypes'
  BY <1>1, <1>2, <1>3, <1>4, <1>5, <1>7, <1>8 DEF PipelineTypes
<1>10. BoundOK'
  BY <1>1, <1>2, <1>8 DEF BoundOK, PipelineTypes
<1>11. ConnOK'
  <2>1. /\ \A v \in Workers : handler'[v] = IF v = w THEN h ELSE handler[v]
        /\ \A v \in Workers : conn'[v] = IF v = w THEN FALSE ELSE conn[v]
    BY <1>1, <1>3, <1>5 DEF PipelineTypes
  <2> QED
    BY <2>1, <1>1, <1>3 DEF ConnOK
<1>12. LoggedOK' /\ \A v \in Workers : DeliveryOK(v)'
  <2>1. DeliveryOK(w)
    BY <1>1
  <2>2. /\ h.at # "idle" => h.msg \in Messages
        /\ (h.at = "settle" /\ h.verdict # "requeue") => h.msg \in processed' \union Foreign
        /\ h.at = "decode" =>
             /\ h.msg \in Events /\ h.msg \in processed' /\ logged[h.msg] = 0
             /\ \A v \in Workers \ {w} : ~(handler[v].at = "decode" /\ handler[v].msg = h.msg)
    BY <2>1, <1>2, <1>3 DEF DeliveryOK
  <2> QED
    BY <2>2, <1>1, <1>2, <1>3, DeliveryChanges
<1>13. IdleRelay.batch = {} /\ IdleRelay.todo = {} /\ IdleRelay.marked = {}
  BY DEF IdleRelay
<1>14. \A v \in Workers : RelayOK(v)'
  <2>1. RelayOK(w)
    BY <1>1
  <2>2. /\ r \in Relays /\ r.todo \subseteq r.batch /\ r.marked \subseteq r.batch
        /\ r.todo \intersect r.marked = {} /\ (r.at = "idle" => r.batch = {})
        /\ r.batch \subseteq relay[w].batch /\ \A e \in r.batch : row'[e] = "unsent"
    BY <2>1, <1>1, <1>2, <1>4, <1>13 DEF RelayOK
  <2> QED
    BY <2>2, <1>1, <1>2, <1>4, BatchChanges
<1>15. \A v \in Workers : relay'[v] = IF v = w THEN r ELSE relay[v]
  BY <1>1, <1>4 DEF PipelineTypes
<1>16. KeptOK'
  <2>1. \A e \in Events : e \in Messages
    BY DEF Messages
  <2>2. \A e \in Events : Holds(handler[w], e) => queue'[e] > 0
    BY <1>7 DEF Holds
  <2>3. \A e \in Events : Kept(e) => Kept(e)'
    BY <2>1, <2>2, <1>1, <1>2, <1>3, <1>7, KeptMoves
  <2>4. \A e \in Events : (row'[e] = "sent" \/ Marked(e)') => row[e] = "sent" \/ Marked(e)
    BY <1>2, <1>4, <1>13, <1>15 DEF Marked
  <2> QED
    BY <2>3, <2>4, <1>1, KeptChanges
<1>17. SendsOK'
  <2>1. \A e \in Events : Counted(e) => Counted(e)' \/ faults' = faults + 1
    <3>1. CASE faults' = faults + 1
      BY <3>1
    <3>2. CASE faults' # faults + 1
      <4>1. up' = up /\ relay' = relay
        BY <3>2, <1>8 DEF LoseConnection, CloseConnection, Crash, Fault
      <4> QED
        BY <4>1, <1>2 DEF Counted, Running
    <3> QED
      BY <3>1, <3>2
  <2> QED
    BY <2>1, <1>1, <1>2, <1>8, SendsChange
<1> QED
  BY <1>9, <1>10, <1>11, <1>12, <1>14, <1>16, <1>17 DEF PipelineInv

(* SIGTERM, the end of the process after it, and a new start.              *)
LEMMA ProcessStep ==
  ASSUME PipelineInv, NEW w \in Workers, Signal(w) \/ Exit(w) \/ Restart(w)
  PROVE  PipelineInv'
<1>1. /\ PipelineTypes /\ KeptOK /\ SendsOK /\ ConnOK /\ LoggedOK /\ BoundOK
      /\ \A v \in Workers : DeliveryOK(v) /\ handler[v] \in Deliveries
      /\ IdleHandler \in Deliveries
  BY PartsOf
<1>2. /\ UNCHANGED <<row, relay>> /\ UNCHANGED <<sends, queue, processed, logged>>
      /\ faults' \in {faults, faults + 1}
  BY DEF Signal, Exit, Restart, Fault, tables, broker
<1>3. PICK h : /\ h \in Deliveries /\ handler' = [handler EXCEPT ![w] = h]
               /\ h = handler[w] \/ (h = IdleHandler /\ ~conn[w] /\ conn' = conn)
  <2>1. handler = [handler EXCEPT ![w] = handler[w]]
    BY <1>1 DEF PipelineTypes
  <2>2. CASE Exit(w)
    BY <2>2, <1>1 DEF Exit
  <2>3. CASE Signal(w) \/ Restart(w)
    BY <2>1, <2>3, <1>1 DEF Signal, Restart
  <2> QED
    BY <2>2, <2>3
<1>4. ~IdleHandler.live /\ IdleHandler.at = "idle"
  BY DEF IdleHandler
<1>5. \A v \in Workers : handler'[v] = IF v = w THEN h ELSE handler[v]
  BY <1>1, <1>3 DEF PipelineTypes
<1>6. /\ up' \in [Workers -> {"up", "stopping", "down"}]
      /\ conn' \in [Workers -> BOOLEAN] /\ \A v \in Workers : conn[v] => conn'[v]
  BY <1>1 DEF Signal, Exit, Restart, PipelineTypes
<1>7. PipelineTypes'
  <2>1. handler' \in [Workers -> Deliveries] /\ faults' \in Nat
    BY <1>1, <1>2, <1>3 DEF PipelineTypes
  <2>2. up' \in [Workers -> {"up", "stopping", "down"}] /\ conn' \in [Workers -> BOOLEAN]
    BY <1>6
  <2> QED
    BY <2>1, <2>2, <1>1, <1>2 DEF PipelineTypes
<1>8. BoundOK'
  BY <1>1 DEF BoundOK, Signal, Exit, Restart, DeclareTopology, broker, Running, PipelineTypes
<1>9. ConnOK'
  BY <1>1, <1>3, <1>4, <1>5, <1>6 DEF ConnOK
<1>10. LoggedOK' /\ \A v \in Workers : DeliveryOK(v)'
  <2>1. DeliveryOK(w)
    BY <1>1
  <2>2. /\ h.live => h.at # "idle"
        /\ h.at # "idle" => h.msg \in Messages
        /\ (h.at = "settle" /\ h.verdict # "requeue") => h.msg \in processed' \union Foreign
        /\ h.at = "decode" =>
             /\ h.msg \in Events /\ h.msg \in processed' /\ logged[h.msg] = 0
             /\ \A v \in Workers \ {w} : ~(handler[v].at = "decode" /\ handler[v].msg = h.msg)
    BY <2>1, <1>2, <1>3, <1>4 DEF DeliveryOK
  <2> QED
    BY <2>2, <1>1, <1>2, <1>3, DeliveryChanges
<1>11. KeptOK'
  <2>1. \A e \in Events : Holds(handler[w], e) => Holds(h, e)
    BY <1>1, <1>3 DEF Holds, ConnOK
  <2>2. \A e \in Events : Kept(e) => Kept(e)'
    BY <2>1, <1>1, <1>2, <1>3, KeptMoves
  <2>3. \A e \in Events : (row'[e] = "sent" \/ Marked(e)') => row[e] = "sent" \/ Marked(e)
    BY <1>2 DEF Marked
  <2> QED
    BY <2>2, <2>3, <1>1, KeptChanges
<1>12. SendsOK'
  <2>1. \A v \in Workers : Running(v) => Running(v)' \/ faults' = faults + 1
    BY <1>1 DEF Signal, Exit, Restart, Running, Fault, PipelineTypes
  <2>2. \A e \in Events : Counted(e) => Counted(e)' \/ faults' = faults + 1
    BY <2>1, <1>2 DEF Counted
  <2> QED
    BY <2>2, <1>1, <1>2, SendsChange
<1> QED
  BY <1>2, <1>7, <1>8, <1>9, <1>10, <1>11, <1>12, Frames DEF PipelineInv

----------------------------------------------------------------------------
(* The theorems.                                                           *)

(* The inductive invariant of the pipeline.                                *)
THEOREM PipelineInvariance == Spec => []PipelineInv
<1>1. Init => PipelineInv
  <2> SUFFICES ASSUME Init PROVE PipelineInv
    OBVIOUS
  <2>1. IdleRelay \in Relays /\ IdleHandler \in Deliveries
    BY DEF IdleRelay, IdleHandler, Relays, Deliveries
  <2>2. /\ IdleRelay.batch = {} /\ IdleRelay.todo = {} /\ IdleRelay.marked = {}
        /\ IdleHandler.at = "idle" /\ ~IdleHandler.live
    BY DEF IdleRelay, IdleHandler
  <2>3. \A w \in Workers : relay[w] = IdleRelay /\ handler[w] = IdleHandler /\ up[w] = "down"
    BY DEF Init
  <2>4. PipelineTypes
    BY <2>1 DEF Init, PipelineTypes
  <2>5. BoundOK /\ ConnOK /\ LoggedOK
    BY <2>2, <2>3 DEF Init, BoundOK, ConnOK, LoggedOK
  <2>6. KeptOK
    BY <2>2, <2>3 DEF Init, KeptOK, Marked
  <2>7. SendsOK
    BY <2>2, <2>3 DEF Init, SendsOK
  <2>8. \A w \in Workers : RelayOK(w) /\ DeliveryOK(w)
    BY <2>2, <2>3 DEF RelayOK, DeliveryOK
  <2> QED
    BY <2>4, <2>5, <2>6, <2>7, <2>8 DEF PipelineInv
<1>2. PipelineInv /\ [Next]_vars => PipelineInv'
  <2> SUFFICES ASSUME PipelineInv, [Next]_vars PROVE PipelineInv'
    OBVIOUS
  <2>1. CASE Next
    BY <2>1, ProducerStep, SelectStep, PublishStep, BatchEnds, ConsumerStep, ConnectionEnds,
       ProcessStep DEF Next, Relaying, Stopping
  <2>2. CASE UNCHANGED vars
    <3>1. /\ UNCHANGED <<bound, up>> /\ UNCHANGED <<row, relay>> /\ UNCHANGED <<handler, conn>>
          /\ UNCHANGED <<handler, processed, logged>> /\ UNCHANGED <<sends, queue, faults>>
      BY <2>2 DEF vars, tables, broker
    <3>2. PipelineTypes' /\ KeptOK' /\ SendsOK'
      BY <3>1 DEF PipelineInv, PipelineTypes, KeptOK, SendsOK, Marked, Kept, InHand, Counted, Running
    <3> QED
      BY <3>1, <3>2, Frames DEF PipelineInv
  <2> QED
    BY <2>1, <2>2
<1> QED
  BY <1>1, <1>2, PTL DEF Spec

(* Crashes, shutdowns and broken connections lose no event that is marked as sent
   (outbox/relay.go PollOnce, consumer/auditlog.go handle).                  *)
THEOREM NothingSentIsLost == Spec => []SentIsNotLost
<1>1. PipelineInv => SentIsNotLost
  BY DEF PipelineInv, KeptOK, Kept, SentIsNotLost
<1> QED
  BY <1>1, PipelineInvariance, PTL

(* However many relays run, a second copy of an event was paid for by a fault
   (outbox/relay.go PollOnce, FOR UPDATE SKIP LOCKED).                       *)
THEOREM CopiesHaveACause == Spec => []DuplicatesHaveACause
<1>1. PipelineInv => DuplicatesHaveACause
  <2> SUFFICES ASSUME PipelineInv, NEW e \in Events PROVE sends[e] <= 1 + faults
    BY DEF DuplicatesHaveACause
  <2>1. sends[e] \in Nat /\ faults \in Nat /\ sends[e] <= faults + (IF Counted(e) THEN 1 ELSE 0)
    BY DEF PipelineInv, PipelineTypes, SendsOK
  <2> QED
    BY <2>1
<1> QED
  BY <1>1, PipelineInvariance, PTL

(* However often an event is delivered and to however many consumers, its audit line is
   written at most once (consumer/auditlog.go handle).                       *)
THEOREM OneAuditLine == Spec => []AuditedAtMostOnce
<1>1. PipelineInv => AuditedAtMostOnce
  BY DEF PipelineInv, LoggedOK, AuditedAtMostOnce
<1> QED
  BY <1>1, PipelineInvariance, PTL
=============================================================================
