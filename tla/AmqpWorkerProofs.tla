--------------------------- MODULE AmqpWorkerProofs ---------------------------
(***************************************************************************)
(* No job is lost and no attempt is invented, for any number of jobs,      *)
(* workers, overlapping deliveries and broken connections.                 *)
(*                                                                         *)
(* What makes the two invariants inductive is a claim about every handler  *)
(* (HandlerAt): the attempts it holds in memory were made, or are about to *)
(* be, and the acknowledgement it is about to send is justified.  These    *)
(* claims cannot be broken by others, because runs, seen and invalid only  *)
(* grow and a published message keeps its queue (Grows).                   *)
(*                                                                         *)
(* While no process has died, more is true (Peaceful): a job has one open  *)
(* delivery at most, the others have failed and only wait to save (Calm),  *)
(* and where failures wait in a retry queue there are no others (Cool).    *)
(***************************************************************************)
EXTENDS AmqpWorker, TLAPS

Excused(j) ==
    IF queue[j] \in WithMeta
    THEN seen[j] # {} \/ runs[j] >= MaxAttempts
    ELSE invalid[j] > 0

JobOK(j) ==
    /\ tasks[j].attempts <= runs[j]
    /\ broker[j].at = "new" => broker[j].answer = "none"
    /\ broker[j].at = "gone" \/ broker[j].answer = "ack" => Excused(j)

HandlerAt(l, g) ==
    IF l = "idle" THEN g = NoDelivery ELSE
    /\ g.job \in Jobs
    /\ g.worker \in Workers
    /\ broker[g.job].at # "new"
    /\ l \in {"invalid", "ackInvalid"} <=> queue[g.job] \notin WithMeta
    /\ l = "ackInvalid" => invalid[g.job] > 0
    /\ l = "dispatch" => g.attempts <= runs[g.job] + 1
    /\ l \in {"answer", "save"} => g.attempts <= runs[g.job]
    /\ l = "answer" /\ g.status # "FAIL" => Excused(g.job)

IInv ==
    /\ TypeOK
    /\ \A j \in Jobs : JobOK(j)
    /\ \A h \in Handlers : HandlerAt(pc[h], task[h])

(* What a step may do to the facts handlers rely on. *)
Grows ==
    \A j \in Jobs :
        /\ runs[j] <= runs'[j]
        /\ seen[j] \subseteq seen'[j]
        /\ invalid[j] <= invalid'[j]
        /\ broker[j].at # "new" => broker'[j].at # "new" /\ queue'[j] = queue[j]

-----------------------------------------------------------------------------
LEMMA NoDeliveryOK == NoDelivery \in HandlerState
  BY DEF NoDelivery, Delivery, HandlerState, MessageStatus

LEMMA InOK ==
  ASSUME NEW place \in {"new", "ready", "retry", "gone"}
  PROVE  /\ In(place) \in BrokerState
         /\ In(place).at = place
         /\ In(place).answer = "none"
         /\ In(place).by = None
  BY DEF In, BrokerState

(* What was excused stays excused. *)
LEMMA ExcusedStays ==
  ASSUME WorkerAssumption, TypeOK, TypeOK', Grows, NEW j \in Jobs,
         broker[j].at # "new", Excused(j)
  PROVE  Excused(j)'
<1>1. /\ queue'[j] = queue[j] /\ seen[j] \subseteq seen'[j]
      /\ runs[j] \in Nat /\ runs'[j] \in Nat /\ runs[j] <= runs'[j]
      /\ invalid[j] \in Nat /\ invalid'[j] \in Nat /\ invalid[j] <= invalid'[j]
  BY DEF Grows, TypeOK
<1>2. QED
  BY <1>1 DEF Excused, WorkerAssumption

(* A handler that does not move keeps its claim. *)
LEMMA HandlerStays ==
  ASSUME WorkerAssumption, TypeOK, TypeOK', Grows,
         NEW l \in Labels, NEW g \in HandlerState, HandlerAt(l, g)
  PROVE  (HandlerAt(l, g))'
<1>1. CASE l = "idle"
  BY <1>1 DEF HandlerAt
<1>2. CASE l # "idle"
  <2>1. /\ g.job \in Jobs /\ broker[g.job].at # "new"
    BY <1>2 DEF HandlerAt
  <2>2. /\ broker'[g.job].at # "new" /\ queue'[g.job] = queue[g.job]
        /\ runs[g.job] \in Nat /\ runs'[g.job] \in Nat /\ runs[g.job] <= runs'[g.job]
        /\ invalid[g.job] \in Nat /\ invalid'[g.job] \in Nat
        /\ invalid[g.job] <= invalid'[g.job]
        /\ g.attempts \in Nat
    BY <2>1 DEF Grows, TypeOK, HandlerState
  <2>3. l = "answer" /\ g.status # "FAIL" => Excused(g.job)'
    BY <1>2, <2>1, ExcusedStays DEF HandlerAt
  <2>4. /\ l \in {"answer", "save"} => g.attempts <= runs'[g.job]
        /\ l = "dispatch" => g.attempts <= runs'[g.job] + 1
        /\ l = "ackInvalid" => invalid'[g.job] > 0
    BY <1>2, <2>2 DEF HandlerAt
  <2>5. QED
    BY <1>2, <2>1, <2>2, <2>3, <2>4 DEF HandlerAt
<1>3. QED
  BY <1>1, <1>2

(* One handler moves, to a place where its claim holds. *)
LEMMA GoKeepsHandlers ==
  ASSUME WorkerAssumption, IInv, TypeOK', Grows,
         NEW h \in Handlers, NEW l \in Labels, NEW g \in HandlerState,
         Go(h, l, g), (HandlerAt(l, g))'
  PROVE  (\A k \in Handlers : HandlerAt(pc[k], task[k]))'
<1>1. SUFFICES ASSUME NEW k \in Handlers
               PROVE  (HandlerAt(pc[k], task[k]))'
  OBVIOUS
<1>2. /\ pc'[k] = (IF k = h THEN l ELSE pc[k])
      /\ task'[k] = (IF k = h THEN g ELSE task[k])
      /\ pc[k] \in Labels /\ task[k] \in HandlerState
  BY DEF Go, IInv, TypeOK
<1>3. k # h => (HandlerAt(pc[k], task[k]))'
  <2>1. SUFFICES ASSUME k # h PROVE (HandlerAt(pc[k], task[k]))'
    OBVIOUS
  <2>2. HandlerAt(pc[k], task[k])
    BY DEF IInv
  <2>3. pc'[k] = pc[k] /\ task'[k] = task[k]
    BY <1>2, <2>1
  <2>4. ASSUME NEW m \in Labels, NEW d \in HandlerState, HandlerAt(m, d)
        PROVE  (HandlerAt(m, d))'
    BY <2>4, HandlerStays DEF IInv
  <2>5. QED
    BY <1>2, <2>2, <2>3, <2>4 DEF HandlerAt
<1>4. QED
  BY <1>2, <1>3 DEF HandlerAt

LEMMA GoTypes ==
  ASSUME TypeOK, NEW h \in Handlers, NEW l \in Labels, NEW g \in HandlerState,
         Go(h, l, g)
  PROVE  pc' \in [Handlers -> Labels] /\ task' \in [Handlers -> HandlerState]
  BY DEF TypeOK, Go

(* A job whose message stays, or goes back to a queue, keeps its claim. *)
LEMMA JobStays ==
  ASSUME WorkerAssumption, TypeOK, TypeOK', Grows, NEW j \in Jobs, JobOK(j),
         tasks'[j].attempts <= runs'[j],
         broker'[j] \in {broker[j], In("ready"), In("retry")}
  PROVE  JobOK(j)'
<1>1. CASE broker'[j] = broker[j]
  <2>1. (broker[j].at = "gone" \/ broker[j].answer = "ack") => broker[j].at # "new"
    BY DEF JobOK
  <2>2. QED
    BY <1>1, <2>1, ExcusedStays DEF JobOK
<1>2. CASE broker'[j] = In("ready") \/ broker'[j] = In("retry")
  BY <1>2, InOK DEF JobOK
<1>3. QED
  BY <1>1, <1>2

(* Losing a worker moves messages back to their queues and nothing else. *)
LEMMA RequeueFacts ==
  ASSUME TypeOK, NEW w \in Workers, Requeue(w)
  PROVE  /\ broker' \in [Jobs -> BrokerState]
         /\ \A j \in Jobs : /\ broker'[j] \in {broker[j], In("ready"), In("retry")}
                            /\ broker[j].at # "new" => broker'[j].at # "new"
<1>1. \A j \in Jobs : broker'[j] = IF broker[j].by = w THEN In("ready") ELSE broker[j]
  BY DEF Requeue
<1>2. \A j \in Jobs : broker[j] \in BrokerState /\ In("ready") \in BrokerState
                     /\ In("ready").at # "new"
  BY InOK DEF TypeOK
<1>3. broker' = [j \in Jobs |-> broker'[j]]
  BY DEF Requeue
<1>4. QED
  BY <1>1, <1>2, <1>3

(* A process that ends leaves every claim in place. *)
LEMMA DieKeeps ==
  ASSUME WorkerAssumption, IInv, NEW w \in Workers, Die(w),
         UNCHANGED <<database, ofJobs>>
  PROVE  IInv'
<1> USE DEF database, ofJobs
<1>1. /\ pc' \in [Handlers -> Labels]
      /\ task' \in [Handlers -> HandlerState]
  BY NoDeliveryOK DEF Die, IInv, TypeOK, Labels
<1>2. TypeOK'
  BY <1>1, RequeueFacts DEF IInv, TypeOK, Die
<1>3. Grows
  BY RequeueFacts DEF Grows, IInv, TypeOK, Die
<1>4. ASSUME NEW j \in Jobs PROVE JobOK(j)'
  <2>1. JobOK(j) /\ tasks'[j].attempts <= runs'[j]
    BY DEF IInv, JobOK
  <2>2. broker'[j] \in {broker[j], In("ready"), In("retry")}
    BY RequeueFacts DEF IInv, Die
  <2>3. QED
    BY <1>2, <1>3, <2>1, <2>2, JobStays DEF IInv
<1>5. ASSUME NEW h \in Handlers PROVE (HandlerAt(pc[h], task[h]))'
  <2>1. CASE task[h].worker = w
    <3>1. pc'[h] = "idle" /\ task'[h] = NoDelivery
      BY <2>1 DEF Die
    <3>2. QED
      BY <3>1 DEF HandlerAt
  <2>2. CASE task[h].worker # w
    <3>1. pc'[h] = pc[h] /\ task'[h] = task[h]
      BY <2>2 DEF Die
    <3>2. pc[h] \in Labels /\ task[h] \in HandlerState /\ HandlerAt(pc[h], task[h])
      BY DEF IInv, TypeOK
    <3>3. ASSUME NEW m \in Labels, NEW d \in HandlerState, HandlerAt(m, d)
          PROVE  (HandlerAt(m, d))'
      BY <1>2, <1>3, <3>3, HandlerStays DEF IInv
    <3>4. QED
      BY <3>1, <3>2, <3>3 DEF HandlerAt
  <2>3. QED
    BY <2>1, <2>2
<1>6. QED
  BY <1>2, <1>4, <1>5 DEF IInv

(* Answering the broker, by a handler whose acknowledgement is justified. *)
LEMMA ReplyKeeps ==
  ASSUME WorkerAssumption, IInv, NEW h \in Handlers, pc[h] # "idle",
         NEW answer \in {"ack", "nack"}, NEW l \in Labels, NEW g \in HandlerState,
         answer = "ack" => Excused(task[h].job),
         HandlerAt(l, g),
         Reply(h, answer, l, g), UNCHANGED <<database, ofJobs>>
  PROVE  IInv'
<1> USE DEF database, ofJobs
<1> DEFINE j == task[h].job
           w == task[h].worker
<1>1. /\ j \in Jobs /\ w \in Workers /\ broker[j].at # "new"
      /\ task[h] \in HandlerState
  BY DEF IInv, HandlerAt, TypeOK
<1>2. CASE Die(w)
  BY <1>1, <1>2, DieKeeps
<1>3. CASE /\ Go(h, l, g)
           /\ UNCHANGED faults
           /\ \/ broker' = broker
              \/ broker' = [broker EXCEPT ![j].answer = answer]
  <2> DEFINE b == [broker[j] EXCEPT !.answer = answer]
  <2>1. broker \in [Jobs -> BrokerState] /\ (broker' = broker \/ broker' = [broker EXCEPT ![j] = b])
    BY <1>3 DEF IInv, TypeOK
  <2>2. b \in BrokerState /\ b.at = broker[j].at
    BY <1>1, <2>1 DEF BrokerState
  <2> HIDE DEF b
  <2>3. broker' \in [Jobs -> BrokerState]
    BY <1>1, <2>1, <2>2
  <2>4. TypeOK'
    BY <1>3, <2>3, GoTypes DEF IInv, TypeOK, faults
  <2>5. \A i \in Jobs : broker'[i].at = broker[i].at
    BY <1>1, <2>1, <2>2
  <2>6. Grows
    BY <2>5 DEF Grows, IInv, TypeOK
  <2>7. ASSUME NEW i \in Jobs PROVE JobOK(i)'
    <3>1. JobOK(i) /\ tasks'[i].attempts <= runs'[i]
      BY DEF IInv, JobOK
    <3>2. CASE broker'[i] = broker[i]
      BY <2>4, <2>6, <3>1, <3>2, JobStays DEF IInv
    <3>3. CASE i = j /\ broker' = [broker EXCEPT ![j].answer = answer]
      <4>1. broker'[i].answer = answer /\ broker'[i].at = broker[i].at
        BY <1>1, <3>3 DEF IInv, TypeOK, BrokerState
      <4>2. Excused(i) => Excused(i)'
        BY <1>1, <2>4, <2>6, <3>3, ExcusedStays DEF IInv
      <4>3. QED
        BY <1>1, <3>1, <3>3, <4>1, <4>2 DEF JobOK
    <3>4. QED
      BY <1>1, <1>3, <3>2, <3>3 DEF IInv, TypeOK
  <2>8. (HandlerAt(l, g))'
    BY <2>4, <2>6, HandlerStays DEF IInv
  <2>9. (\A k \in Handlers : HandlerAt(pc[k], task[k]))'
    BY <1>3, <2>4, <2>6, <2>8, GoKeepsHandlers
  <2>10. QED
    BY <2>4, <2>7, <2>9 DEF IInv
<1>4. QED
  BY <1>2, <1>3 DEF Reply, faults

-----------------------------------------------------------------------------
(* The steps of the broker, one by one. *)

LEMMA PublishKeeps ==
  ASSUME WorkerAssumption, IInv, NEW i \in Jobs, NEW q \in Queues, Publish(i, q)
  PROVE  IInv'
<1> USE DEF database, ofJobs, faults
<1>1. TypeOK'
  BY InOK DEF Publish, IInv, TypeOK
<1>2. Grows
  BY DEF Publish, Grows, IInv, TypeOK
<1>3. ASSUME NEW j \in Jobs PROVE JobOK(j)'
  <2>1. JobOK(j) /\ tasks'[j].attempts <= runs'[j]
    BY DEF IInv, JobOK, Publish
  <2>2. broker'[j] \in {broker[j], In("ready"), In("retry")}
    BY DEF IInv, TypeOK, Publish
  <2>3. QED
    BY <1>1, <1>2, <2>1, <2>2, JobStays DEF IInv
<1>4. (\A h \in Handlers : HandlerAt(pc[h], task[h]))'
  BY <1>1, <1>2, HandlerStays DEF IInv, TypeOK, Publish, HandlerAt
<1>5. QED
  BY <1>1, <1>3, <1>4 DEF IInv

LEMMA SettleKeeps ==
  ASSUME WorkerAssumption, IInv, NEW i \in Jobs, SettleAnswer(i)
  PROVE  IInv'
<1> USE DEF database, ofJobs, faults
<1>1. PICK place \in {"gone", "ready", "retry"} :
         /\ broker' = [broker EXCEPT ![i] = In(place)]
         /\ place = "gone" => broker[i].answer = "ack"
  BY DEF SettleAnswer
<1>2. TypeOK'
  BY <1>1, InOK DEF SettleAnswer, IInv, TypeOK
<1>3. \A j \in Jobs : broker'[j] = IF j = i THEN In(place) ELSE broker[j]
  BY <1>1 DEF IInv, TypeOK
<1>4. Grows
  BY <1>3, InOK DEF SettleAnswer, Grows, IInv, TypeOK
<1>5. ASSUME NEW j \in Jobs PROVE JobOK(j)'
  <2>1. JobOK(j) /\ tasks'[j].attempts <= runs'[j]
    BY DEF IInv, JobOK, SettleAnswer
  <2>2. CASE j = i /\ place = "gone"
    <3>1. broker'[j].at = "gone" /\ broker'[j].answer = "none"
      BY <1>3, <2>2, InOK
    <3>2. Excused(j) /\ broker[j].at # "new"
      BY <1>1, <2>1, <2>2 DEF JobOK
    <3>3. QED
      BY <1>2, <1>4, <2>1, <3>1, <3>2, ExcusedStays DEF JobOK, IInv
  <2>3. CASE ~(j = i /\ place = "gone")
    BY <1>2, <1>3, <1>4, <2>1, <2>3, JobStays DEF IInv
  <2>4. QED
    BY <2>2, <2>3
<1>6. (\A h \in Handlers : HandlerAt(pc[h], task[h]))'
  BY <1>2, <1>4, HandlerStays DEF IInv, TypeOK, SettleAnswer, HandlerAt
<1>7. QED
  BY <1>2, <1>5, <1>6 DEF IInv

LEMMA RetryKeeps ==
  ASSUME WorkerAssumption, IInv, NEW i \in Jobs, RetryExpires(i)
  PROVE  IInv'
<1> USE DEF database, ofJobs, faults
<1>1. TypeOK'
  BY InOK DEF RetryExpires, IInv, TypeOK
<1>2. \A j \in Jobs : broker'[j] = IF j = i THEN In("ready") ELSE broker[j]
  BY DEF IInv, TypeOK, RetryExpires
<1>3. Grows
  BY <1>2, InOK DEF RetryExpires, Grows, IInv, TypeOK
<1>4. ASSUME NEW j \in Jobs PROVE JobOK(j)'
  <2>1. JobOK(j) /\ tasks'[j].attempts <= runs'[j]
    BY DEF IInv, JobOK, RetryExpires
  <2>2. QED
    BY <1>1, <1>2, <1>3, <2>1, JobStays DEF IInv
<1>5. (\A h \in Handlers : HandlerAt(pc[h], task[h]))'
  BY <1>1, <1>3, HandlerStays DEF IInv, TypeOK, RetryExpires, HandlerAt
<1>6. QED
  BY <1>1, <1>4, <1>5 DEF IInv

LEMMA DisconnectKeeps ==
  ASSUME WorkerAssumption, IInv, NEW w \in Workers, Disconnect(w)
  PROVE  IInv'
<1> USE DEF database, ofJobs
<1>1. TypeOK'
  BY RequeueFacts DEF Disconnect, IInv, TypeOK
<1>2. Grows
  BY RequeueFacts DEF Disconnect, Grows, IInv, TypeOK
<1>3. ASSUME NEW j \in Jobs PROVE JobOK(j)'
  <2>1. JobOK(j) /\ tasks'[j].attempts <= runs'[j]
    BY DEF IInv, JobOK, Disconnect
  <2>2. broker'[j] \in {broker[j], In("ready"), In("retry")}
    BY RequeueFacts DEF IInv, Disconnect
  <2>3. QED
    BY <1>1, <1>2, <2>1, <2>2, JobStays DEF IInv
<1>4. (\A h \in Handlers : HandlerAt(pc[h], task[h]))'
  BY <1>1, <1>2, HandlerStays DEF IInv, TypeOK, Disconnect, HandlerAt
<1>5. QED
  BY <1>1, <1>3, <1>4 DEF IInv

LEMMA DeliverKeeps ==
  ASSUME WorkerAssumption, IInv,
         NEW i \in Jobs, NEW w \in Workers, NEW h \in Handlers, Deliver(i, w, h)
  PROVE  IInv'
<1> USE DEF database, ofJobs, faults
<1>1. PICK l \in Labels, g \in HandlerState :
         /\ l = (IF queue[i] \in WithMeta THEN "find" ELSE "invalid")
         /\ g = Delivery(i, w) /\ g.job = i /\ g.worker = w
  <2>1. (IF queue[i] \in WithMeta THEN "find" ELSE "invalid") \in Labels
    BY DEF Labels
  <2>2. Delivery(i, w) \in HandlerState /\ Delivery(i, w).job = i /\ Delivery(i, w).worker = w
    BY DEF Delivery, HandlerState, MessageStatus
  <2>3. QED
    BY <2>1, <2>2
<1>2. Go(h, l, g)
  BY <1>1 DEF Deliver
<1>3. \A j \in Jobs : broker'[j] = IF j = i THEN [at |-> "unacked", by |-> w, answer |-> "none"]
                                  ELSE broker[j]
  BY DEF IInv, TypeOK, Deliver
<1>4. TypeOK'
  <2>1. broker' \in [Jobs -> BrokerState]
    BY DEF IInv, TypeOK, Deliver, BrokerState
  <2>2. QED
    BY <1>2, <2>1, GoTypes DEF IInv, TypeOK, Deliver
<1>5. Grows
  BY <1>3 DEF Deliver, Grows, IInv, TypeOK
<1>6. ASSUME NEW j \in Jobs PROVE JobOK(j)'
  <2>1. JobOK(j) /\ tasks'[j].attempts <= runs'[j]
    BY DEF IInv, JobOK, Deliver
  <2>2. CASE j = i
    BY <1>3, <2>1, <2>2 DEF JobOK
  <2>3. CASE j # i
    BY <1>3, <1>4, <1>5, <2>1, <2>3, JobStays DEF IInv
  <2>4. QED
    BY <2>2, <2>3
<1>7. (HandlerAt(l, g))'
  BY <1>1, <1>3 DEF HandlerAt, Deliver
<1>8. (\A k \in Handlers : HandlerAt(pc[k], task[k]))'
  BY <1>2, <1>4, <1>5, <1>7, GoKeepsHandlers
<1>9. QED
  BY <1>4, <1>6, <1>8 DEF IInv

-----------------------------------------------------------------------------
(* The steps of a handler. *)

(* A handler moves on, and nothing that concerns the broker changes. *)
LEMMA GoKeeps ==
  ASSUME WorkerAssumption, IInv, NEW h \in Handlers,
         NEW l \in Labels, NEW g \in HandlerState, Go(h, l, g),
         tasks' \in [Jobs -> TaskRow], invalid' \in [Jobs -> Nat],
         runs' \in [Jobs -> Nat], seen' \in [Jobs -> SUBSET {"ok", "invalid"}],
         Grows, UNCHANGED <<broker, queue, faults>>,
         \A j \in Jobs : tasks'[j].attempts <= runs'[j],
         (HandlerAt(l, g))'
  PROVE  IInv'
<1>1. TypeOK'
  BY GoTypes DEF IInv, TypeOK, faults
<1>2. \A j \in Jobs : JobOK(j)'
  BY <1>1, JobStays DEF IInv
<1>3. (\A k \in Handlers : HandlerAt(pc[k], task[k]))'
  BY <1>1, GoKeepsHandlers
<1>4. QED
  BY <1>1, <1>2, <1>3 DEF IInv

LEMMA SaveAsInvalidKeeps ==
  ASSUME WorkerAssumption, IInv, NEW h \in Handlers, SaveAsInvalid(h)
  PROVE  IInv'
<1> USE DEF ofJobs, faults
<1>1. PICK g \in HandlerState : g = task[h]
  BY DEF IInv, TypeOK
<1>2. Go(h, "ackInvalid", g) /\ HandlerAt("invalid", g)
  BY <1>1 DEF SaveAsInvalid, IInv
<1>3. /\ g.job \in Jobs
      /\ invalid' = [invalid EXCEPT ![g.job] = @ + 1]
  BY <1>1, <1>2 DEF SaveAsInvalid, HandlerAt
<1>4. invalid' \in [Jobs -> Nat] /\ invalid'[g.job] = invalid[g.job] + 1
  BY <1>3 DEF IInv, TypeOK
<1>5. Grows
  BY <1>3 DEF SaveAsInvalid, Grows, IInv, TypeOK
<1>6. invalid'[g.job] > 0
  BY <1>3, <1>4 DEF IInv, TypeOK
<1>7. (HandlerAt("ackInvalid", g))'
  BY <1>2, <1>6 DEF SaveAsInvalid, HandlerAt
<1>8. \A j \in Jobs : tasks'[j].attempts <= runs'[j]
  BY DEF SaveAsInvalid, IInv, JobOK
<1>9. "ackInvalid" \in Labels
  BY DEF Labels
<1>10. QED
  BY <1>2, <1>4, <1>5, <1>7, <1>8, <1>9, GoKeeps DEF SaveAsInvalid, IInv, TypeOK

LEMMA AckInvalidKeeps ==
  ASSUME WorkerAssumption, IInv, NEW h \in Handlers, AckInvalid(h)
  PROVE  IInv'
<1>1. pc[h] = "ackInvalid" /\ HandlerAt(pc[h], task[h])
  BY DEF AckInvalid, IInv
<1>2. Excused(task[h].job) /\ pc[h] # "idle"
  BY <1>1 DEF HandlerAt, Excused
<1>3. HandlerAt("idle", NoDelivery) /\ "idle" \in Labels
  BY DEF HandlerAt, Labels
<1>4. QED
  BY <1>2, <1>3, NoDeliveryOK, ReplyKeeps DEF AckInvalid

LEMMA FindTaskKeeps ==
  ASSUME WorkerAssumption, IInv, NEW h \in Handlers, FindTask(h)
  PROVE  IInv'
<1> USE DEF database, ofJobs, faults
<1> DEFINE j == task[h].job
<1>1. HandlerAt("find", task[h]) /\ task[h] \in HandlerState
  BY DEF FindTask, IInv, TypeOK
<1>2. j \in Jobs /\ tasks[j] \in TaskRow /\ tasks[j].attempts <= runs[j] /\ runs[j] \in Nat
  BY <1>1 DEF HandlerAt, IInv, TypeOK, JobOK
<1>3. PICK read \in MessageStatus \cup {"absent"}, attempts \in Nat :
         /\ read = tasks[j].status
         /\ attempts = NextAttempt(tasks[j])
         /\ attempts <= runs[j] + 1
  <2>1. tasks[j].attempts + 1 \in Nat /\ tasks[j].attempts + 1 <= runs[j] + 1
    BY <1>2 DEF TaskRow
  <2>2. tasks[j].status \in MessageStatus \cup {"absent"}
    BY <1>2 DEF TaskRow
  <2>3. QED
    BY <2>1, <2>2 DEF NextAttempt
<1>4. PICK g \in HandlerState :
         /\ g = [task[h] EXCEPT !.read = read, !.attempts = attempts]
         /\ g.job = j /\ g.worker = task[h].worker /\ g.attempts = attempts
  <2> DEFINE e == [task[h] EXCEPT !.read = read, !.attempts = attempts]
  <2>1. e \in HandlerState
    BY <1>1, <1>3 DEF HandlerState
  <2>2. e.job = j /\ e.worker = task[h].worker /\ e.attempts = attempts
    BY <1>1, <1>3 DEF HandlerState
  <2>3. QED
    BY <2>1, <2>2
<1>5. Go(h, "dispatch", g)
  BY <1>3, <1>4 DEF FindTask
<1>6. (HandlerAt("dispatch", g))'
  BY <1>1, <1>3, <1>4 DEF HandlerAt, FindTask
<1>7. Grows
  BY DEF FindTask, Grows, IInv, TypeOK
<1>8. \A i \in Jobs : tasks'[i].attempts <= runs'[i]
  BY DEF FindTask, IInv, JobOK
<1>9. "dispatch" \in Labels
  BY DEF Labels
<1>10. QED
  BY <1>5, <1>6, <1>7, <1>8, <1>9, GoKeeps DEF FindTask, IInv, TypeOK

(* What the verdict is good for: a delivery is acknowledged only when its
   job may leave the broker.                                               *)
LEMMA VerdictJustified ==
  ASSUME WorkerAssumption, NEW outcome \in Outcomes, NEW attempts \in Nat,
         NEW n \in Nat, attempts <= n
  PROVE  /\ Verdict(outcome, attempts) \in MessageStatus
         /\ Verdict(outcome, attempts) # "FAIL" =>
              outcome \in {"ok", "invalid"} \/ n >= MaxAttempts
  BY DEF WorkerAssumption, Outcomes, Verdict, MessageStatus, MaxAttemptsReached

LEMMA DispatchKeeps ==
  ASSUME WorkerAssumption, IInv, NEW h \in Handlers, Dispatch(h)
  PROVE  IInv'
<1> USE DEF database, faults
<1>1. PICK old \in HandlerState, j \in Jobs :
         /\ old = task[h] /\ old.job = j
         /\ HandlerAt("dispatch", old)
  BY DEF Dispatch, IInv, TypeOK, HandlerAt
<1>2. /\ old.attempts \in Nat /\ old.attempts <= runs[j] + 1
      /\ runs[j] \in Nat /\ runs[j] + 1 \in Nat
      /\ old.worker \in Workers /\ broker[j].at # "new" /\ queue[j] \in WithMeta
  BY <1>1 DEF HandlerAt, IInv, TypeOK, HandlerState
<1>3. PICK outcome \in Outcomes :
         /\ Go(h, "answer", [task[h] EXCEPT !.status = Verdict(outcome, task[h].attempts)])
         /\ seen' = [seen EXCEPT ![j] = @ \cup ({outcome} \ {"error"})]
         /\ runs' = [runs EXCEPT ![j] = @ + 1]
  BY <1>1 DEF Dispatch
<1>4. PICK status \in MessageStatus :
         /\ status = Verdict(outcome, task[h].attempts)
         /\ status # "FAIL" => outcome \in {"ok", "invalid"} \/ runs[j] + 1 >= MaxAttempts
  BY <1>1, <1>2, VerdictJustified
<1>5. PICK g \in HandlerState :
         /\ g = [task[h] EXCEPT !.status = status]
         /\ g.job = j /\ g.worker = old.worker /\ g.attempts = old.attempts
         /\ g.status = status
  <2> DEFINE e == [task[h] EXCEPT !.status = status]
  <2>1. e \in HandlerState /\ e.job = j /\ e.worker = old.worker
        /\ e.attempts = old.attempts /\ e.status = status
    BY <1>1, <1>4 DEF HandlerState
  <2>2. QED
    BY <2>1
<1>6. Go(h, "answer", g)
  BY <1>3, <1>4, <1>5
<1>7. /\ runs' \in [Jobs -> Nat] /\ runs'[j] = runs[j] + 1
      /\ \A i \in Jobs : runs[i] <= runs'[i]
  BY <1>3 DEF IInv, TypeOK
<1>8. /\ seen' \in [Jobs -> SUBSET {"ok", "invalid"}]
      /\ outcome \in {"ok", "invalid"} => seen'[j] # {}
      /\ \A i \in Jobs : seen[i] \subseteq seen'[i]
  BY <1>3 DEF IInv, TypeOK, Outcomes
<1>9. Grows
  BY <1>7, <1>8 DEF Dispatch, Grows, IInv, TypeOK
<1>10. (HandlerAt("answer", g))'
  <2>1. g.attempts <= runs'[j]
    BY <1>2, <1>5, <1>7
  <2>2. g.status # "FAIL" => seen'[j] # {} \/ runs'[j] >= MaxAttempts
    BY <1>4, <1>5, <1>7, <1>8
  <2>3. QED
    BY <1>2, <1>5, <2>1, <2>2 DEF HandlerAt, Excused, Dispatch
<1>11. \A i \in Jobs : tasks'[i].attempts <= runs'[i]
  <2>1. SUFFICES ASSUME NEW i \in Jobs PROVE tasks'[i].attempts <= runs'[i]
    OBVIOUS
  <2>2. tasks'[i] = tasks[i] /\ tasks[i].attempts \in Nat /\ tasks[i].attempts <= runs[i]
    BY DEF Dispatch, IInv, JobOK, TypeOK, TaskRow
  <2>3. runs[i] \in Nat /\ runs'[i] \in Nat /\ runs[i] <= runs'[i]
    BY <1>7 DEF IInv, TypeOK
  <2>4. QED
    BY <2>2, <2>3
<1>12. "answer" \in Labels
  BY DEF Labels
<1>13. QED
  BY <1>6, <1>7, <1>8, <1>9, <1>10, <1>11, <1>12, GoKeeps DEF Dispatch, IInv, TypeOK

LEMMA AnswerKeeps ==
  ASSUME WorkerAssumption, IInv, NEW h \in Handlers, AnswerBroker(h)
  PROVE  IInv'
<1>1. pc[h] = "answer" /\ HandlerAt("answer", task[h]) /\ task[h] \in HandlerState
  BY DEF AnswerBroker, IInv, TypeOK
<1>2. HandlerAt("save", task[h]) /\ "save" \in Labels
  BY <1>1 DEF HandlerAt, Labels
<1>3. PICK answer \in {"ack", "nack"} :
         /\ answer = (IF task[h].status = "FAIL" THEN "nack" ELSE "ack")
         /\ answer = "ack" => Excused(task[h].job)
  BY <1>1 DEF HandlerAt
<1>4. Reply(h, answer, "save", task[h])
  BY <1>3 DEF AnswerBroker
<1>5. QED
  BY <1>1, <1>2, <1>3, <1>4, ReplyKeeps DEF AnswerBroker

LEMMA SaveTaskKeeps ==
  ASSUME WorkerAssumption, IInv, NEW h \in Handlers, SaveTask(h)
  PROVE  IInv'
<1> USE DEF database, ofJobs, faults
<1>1. PICK g \in HandlerState, j \in Jobs :
         /\ g = task[h] /\ g.job = j
         /\ HandlerAt("save", g)
  BY DEF SaveTask, IInv, TypeOK, HandlerAt
<1>2. g.worker \in Workers /\ g.attempts <= runs[j] /\ g.attempts \in Nat
  BY <1>1 DEF HandlerAt, HandlerState
<1>3. CASE Die(g.worker) /\ UNCHANGED tasks
  BY <1>2, <1>3, DieKeeps DEF SaveTask
<1>4. CASE \E new \in TaskRow :
             /\ new.attempts = g.attempts
             /\ tasks' = [tasks EXCEPT ![j] = new]
             /\ Go(h, "idle", NoDelivery)
             /\ UNCHANGED <<broker, faults>>
  <2>1. PICK new \in TaskRow :
             /\ new.attempts = g.attempts
             /\ tasks' = [tasks EXCEPT ![j] = new]
             /\ Go(h, "idle", NoDelivery)
             /\ UNCHANGED <<broker, faults>>
    BY <1>4
  <2>2. tasks' \in [Jobs -> TaskRow]
    BY <2>1 DEF IInv, TypeOK
  <2>3. \A i \in Jobs : tasks'[i].attempts <= runs'[i]
    BY <1>2, <2>1 DEF SaveTask, IInv, TypeOK, JobOK
  <2>4. Grows
    BY <2>1 DEF SaveTask, Grows, IInv, TypeOK
  <2>5. (HandlerAt("idle", NoDelivery))' /\ "idle" \in Labels
    BY DEF HandlerAt, Labels
  <2>6. QED
    BY <2>1, <2>2, <2>3, <2>4, <2>5, NoDeliveryOK, GoKeeps DEF SaveTask, IInv, TypeOK
<1>5. SUFFICES ASSUME ~(Die(g.worker) /\ UNCHANGED tasks) PROVE <1>4!1
  BY <1>3, <1>4
<1>6. [status |-> g.status, attempts |-> g.attempts] \in TaskRow
  BY <1>2 DEF TaskRow, HandlerState
<1>7. Update(tasks[j], g) \in TaskRow /\ Update(tasks[j], g).attempts = g.attempts
  BY <1>2 DEF Update, TaskRow, HandlerState, IInv, TypeOK
<1>8. CASE g.read = "absent" /\ tasks[j].status = "absent"
  BY <1>1, <1>6, <1>8 DEF SaveTask
<1>9. CASE g.read # "absent"
  BY <1>1, <1>7, <1>9 DEF SaveTask
<1>10. QED
  BY <1>1, <1>5, <1>8, <1>9 DEF SaveTask

-----------------------------------------------------------------------------
LEMMA InitIInv == ASSUME WorkerAssumption PROVE Init => IInv
<1> SUFFICES ASSUME Init PROVE IInv
  OBVIOUS
<1>1. TypeOK
  BY InOK, NoDeliveryOK DEF Init, TypeOK, TaskRow, MessageStatus, Labels, WorkerAssumption
<1>2. \A j \in Jobs : JobOK(j)
  BY InOK DEF Init, JobOK
<1>3. \A h \in Handlers : HandlerAt(pc[h], task[h])
  BY DEF Init, HandlerAt
<1>4. QED
  BY <1>1, <1>2, <1>3 DEF IInv

LEMMA NextIInv == ASSUME WorkerAssumption, IInv, [Next]_vars PROVE IInv'
<1>1. CASE UNCHANGED vars
  BY <1>1 DEF vars, IInv, TypeOK, JobOK, HandlerAt, Excused
<1>2. ASSUME NEW j \in Jobs, NEW q \in Queues, Publish(j, q) PROVE IInv'
  BY <1>2, PublishKeeps
<1>3. ASSUME NEW j \in Jobs, SettleAnswer(j) \/ RetryExpires(j) PROVE IInv'
  BY <1>3, SettleKeeps, RetryKeeps
<1>4. ASSUME NEW j \in Jobs, NEW w \in Workers, NEW h \in Handlers, Deliver(j, w, h)
      PROVE  IInv'
  BY <1>4, DeliverKeeps
<1>5. ASSUME NEW h \in Handlers, Handle(h) PROVE IInv'
  BY <1>5, SaveAsInvalidKeeps, AckInvalidKeeps, FindTaskKeeps, DispatchKeeps,
     AnswerKeeps, SaveTaskKeeps DEF Handle
<1>6. ASSUME NEW w \in Workers, Disconnect(w) \/ Restart(w) PROVE IInv'
  BY <1>6, DisconnectKeeps, DieKeeps DEF Restart
<1>7. QED
  BY <1>1, <1>2, <1>3, <1>4, <1>5, <1>6 DEF Next

(* createMqWorker never acknowledges a job that has not run, as often as it
   may, and never saves an attempt that was not made, in any interleaving of
   deliveries, broken connections and processes that end.                  *)
THEOREM JobsSurvive ==
  ASSUME WorkerAssumption
  PROVE  Spec => [](TypeOK /\ NeverLost /\ AttemptsHonest)
<1>1. Init => IInv
  BY InitIInv
<1>2. IInv /\ [Next]_vars => IInv'
  BY NextIInv
<1>3. IInv => TypeOK /\ NeverLost /\ AttemptsHonest
  BY DEF IInv, JobOK, Excused, NeverLost, AttemptsHonest
<1>4. QED
  BY <1>1, <1>2, <1>3, PTL DEF Spec

-----------------------------------------------------------------------------
(* While no process has died *)

Active == {"find", "dispatch", "answer", "invalid", "ackInvalid"}

(* A delivery is open until it has failed or its outcome is in the row. *)
Open(l, g) == l \in Active \/ (l = "save" /\ g.status # "FAIL")

Over(b) == b.at = "gone" \/ b.answer = "ack"

Final(row) == row.status \notin {"absent", "FAIL"}

CalmHandler(l, g) ==
    /\ l # "idle" => g.read \in {"absent", "FAIL"}
    /\ l \in Active => broker[g.job].at = "unacked" /\ broker[g.job].answer = "none"
    /\ l = "save" /\ g.status # "FAIL" => Over(broker[g.job])
    /\ Open(l, g) => ~Final(tasks[g.job])
    /\ l \in Active \ {"answer"} => "ok" \notin seen[g.job]
    /\ Open(l, g) /\ l \in {"answer", "save"} =>
          ("ok" \in seen[g.job] <=> g.status = "SUCCESS")

CalmJob(j) ==
    /\ broker[j].answer # "none" => broker[j].at = "unacked"
    /\ Final(tasks[j]) => /\ Over(broker[j])
                          /\ "ok" \in seen[j] <=> tasks[j].status = "SUCCESS"
    /\ Over(broker[j]) /\ queue[j] \in WithMeta /\ ~Final(tasks[j]) =>
          \E h \in Handlers : pc[h] = "save" /\ task[h].job = j /\ task[h].status # "FAIL"
    /\ broker[j].at \in {"new", "ready", "retry"} \/ broker[j].answer = "nack" =>
          "ok" \notin seen[j]

CalmPair(h, k) ==
    h # k /\ Open(pc[h], task[h]) /\ Open(pc[k], task[k]) => task[h].job # task[k].job

Calm ==
    /\ \A w \in Workers : up[w]
    /\ \A h \in Handlers : CalmHandler(pc[h], task[h])
    /\ \A j \in Jobs : CalmJob(j)
    /\ \A h, k \in Handlers : CalmPair(h, k)

(* Jobs whose failures wait in a retry queue *)
Cools(j) == broker[j].at # "new" /\ RetryConfig[queue[j]] = "enabled"

CoolHandler(l, g) ==
    /\ l \in {"find", "dispatch"} \/ (l = "answer" /\ g.status = "FAIL") =>
          runs[g.job] < MaxAttempts
    /\ l \in {"find", "invalid", "ackInvalid"} => tasks[g.job].attempts = runs[g.job]
    /\ l = "dispatch" => g.attempts = runs[g.job] + 1
    /\ l \in {"answer", "save"} => g.attempts = runs[g.job]

CoolJob(j) ==
    /\ runs[j] <= MaxAttempts
    /\ broker[j].at \in {"ready", "retry"} \/ broker[j].answer = "nack" => runs[j] < MaxAttempts
    /\ \/ \E h \in Handlers : task[h].job = j
       \/ tasks[j].attempts = runs[j]
    /\ broker[j].at = "ready" => \A h \in Handlers : task[h].job # j

CoolPair(h, k) ==
    h # k /\ pc[h] # "idle" /\ pc[k] # "idle" /\ Cools(task[h].job) =>
        task[h].job # task[k].job

Cool ==
    /\ \A j \in Jobs : broker[j].at = "new" => tasks[j].attempts = 0 /\ runs[j] = 0
    /\ \A j \in Jobs : Cools(j) => CoolJob(j)
    /\ \A h \in Handlers : pc[h] # "idle" /\ Cools(task[h].job) => CoolHandler(pc[h], task[h])
    /\ \A h, k \in Handlers : CoolPair(h, k)

Peaceful == ~mishap => Calm /\ Cool

-----------------------------------------------------------------------------
(* The kinds of steps that leave every process alive *)

Still(i) ==
    /\ broker'[i] = broker[i] /\ queue'[i] = queue[i] /\ tasks'[i] = tasks[i]
    /\ runs'[i] = runs[i] /\ seen'[i] = seen[i]

OthersStill(j) == \A i \in Jobs \ {j} : Still(i)

Rests(k) == pc'[k] = pc[k] /\ task'[k] = task[k]

OthersRest(h) == \A k \in Handlers \ {h} : Rests(k)

(* The broker moves a message. *)
Relays(j) ==
    /\ \A k \in Handlers : Rests(k)
    /\ OthersStill(j)
    /\ tasks'[j] = tasks[j] /\ runs'[j] = runs[j] /\ seen'[j] = seen[j]
    /\ \/ /\ broker[j].at = "new" /\ broker'[j] = In("ready")
       \/ /\ queue'[j] = queue[j]
          /\ broker[j].answer = "ack" /\ broker'[j] = In("gone")
       \/ /\ queue'[j] = queue[j]
          /\ broker[j].answer = "nack" /\ broker'[j] \in {In("ready"), In("retry")}
          /\ RetryConfig[queue[j]] = "enabled" => broker'[j] = In("retry")
       \/ /\ queue'[j] = queue[j]
          /\ broker[j].at = "retry" /\ broker'[j] = In("ready")
          /\ \A h \in Handlers : task[h].job # j

Receives(h, j) ==
    /\ OthersRest(h) /\ OthersStill(j)
    /\ pc[h] = "idle" /\ broker[j].at = "ready"
    /\ pc'[h] = IF queue[j] \in WithMeta THEN "find" ELSE "invalid"
    /\ task'[h].job = j /\ task'[h].read = "absent"
    /\ broker'[j].at = "unacked" /\ broker'[j].answer = "none"
    /\ queue'[j] = queue[j] /\ tasks'[j] = tasks[j]
    /\ runs'[j] = runs[j] /\ seen'[j] = seen[j]

(* The task is looked up, the job runs, or the delivery is recorded as
   unreadable.                                                             *)
Looks(h, j) ==
    /\ pc[h] = "find" /\ pc'[h] = "dispatch"
    /\ task'[h].read = tasks[j].status /\ task'[h].attempts = tasks[j].attempts + 1
    /\ Still(j)

Runs(h, j) ==
    /\ pc[h] = "dispatch" /\ pc'[h] = "answer"
    /\ task'[h].read = task[h].read /\ task'[h].attempts = task[h].attempts
    /\ broker'[j] = broker[j] /\ queue'[j] = queue[j] /\ tasks'[j] = tasks[j]
    /\ runs'[j] = runs[j] + 1
    /\ \/ seen'[j] = seen[j] \cup {"ok"} /\ task'[h].status = "SUCCESS"
       \/ /\ "ok" \in seen'[j] <=> "ok" \in seen[j]
          /\ task'[h].status \in {"FAIL", "DEAD", "INVALID_PAYLOAD"}
          /\ task'[h].status = "FAIL" => task[h].attempts < MaxAttempts

Notes(h, j) ==
    /\ pc[h] = "invalid" /\ pc'[h] = "ackInvalid"
    /\ task'[h] = task[h]
    /\ Still(j)

Works(h, j) ==
    /\ OthersRest(h) /\ OthersStill(j)
    /\ task[h].job = j /\ task'[h].job = j
    /\ Looks(h, j) \/ Runs(h, j) \/ Notes(h, j)

(* The broker is answered. *)
Replies(h, j) ==
    /\ OthersRest(h) /\ OthersStill(j)
    /\ task[h].job = j
    /\ \/ /\ pc[h] = "answer" /\ pc'[h] = "save" /\ task'[h] = task[h]
          /\ broker'[j].answer = IF task[h].status = "FAIL" THEN "nack" ELSE "ack"
       \/ /\ pc[h] = "ackInvalid" /\ pc'[h] = "idle" /\ task'[h] = NoDelivery
          /\ broker'[j].answer = "ack"
    /\ broker'[j].at = broker[j].at
    /\ queue'[j] = queue[j] /\ tasks'[j] = tasks[j]
    /\ runs'[j] = runs[j] /\ seen'[j] = seen[j]

(* The row is saved. *)
Saves(h, j) ==
    /\ OthersRest(h) /\ OthersStill(j)
    /\ task[h].job = j /\ pc[h] = "save"
    /\ pc'[h] = "idle" /\ task'[h] = NoDelivery
    /\ tasks'[j].attempts = task[h].attempts
    /\ \/ task[h].read = "absent" /\ tasks[j].status = "absent"
          /\ tasks'[j].status = task[h].status
       \/ task[h].read # "absent"
          /\ tasks'[j].status = IF task[h].status = task[h].read
                                THEN tasks[j].status ELSE task[h].status
    /\ broker'[j] = broker[j] /\ queue'[j] = queue[j]
    /\ runs'[j] = runs[j] /\ seen'[j] = seen[j]

PeacefulStep ==
    \/ \E j \in Jobs : Relays(j)
    \/ \E h \in Handlers, j \in Jobs :
          Receives(h, j) \/ Works(h, j) \/ Replies(h, j) \/ Saves(h, j)

-----------------------------------------------------------------------------
LEMMA Typed ==
  ASSUME IInv, NEW j \in Jobs
  PROVE  /\ broker[j] \in BrokerState /\ tasks[j] \in TaskRow /\ runs[j] \in Nat
         /\ seen[j] \in SUBSET {"ok", "invalid"} /\ queue[j] \in Queues \cup {None}
  BY DEF IInv, TypeOK

LEMMA HandlerTyped ==
  ASSUME IInv, NEW h \in Handlers
  PROVE  /\ pc[h] \in Labels /\ task[h] \in HandlerState
         /\ pc[h] # "idle" => /\ task[h].job \in Jobs /\ task[h].worker \in Workers
                              /\ broker[task[h].job].at # "new"
         /\ pc[h] = "idle" => task[h].job = None
  BY DEF IInv, TypeOK, HandlerAt, NoDelivery, Delivery

LEMMA GoRests ==
  ASSUME IInv, NEW h \in Handlers, NEW l, NEW g, Go(h, l, g)
  PROVE  /\ pc'[h] = l /\ task'[h] = g /\ OthersRest(h)
  BY DEF Go, IInv, TypeOK, OthersRest, Rests

LEMMA PublishRelays ==
  ASSUME IInv, NEW j \in Jobs, NEW q \in Queues, Publish(j, q)
  PROVE  Relays(j)
  BY DEF Publish, Relays, OthersStill, Still, Rests, IInv, TypeOK, database

LEMMA SettleRelays ==
  ASSUME WorkerAssumption, IInv, NEW j \in Jobs, SettleAnswer(j), broker[j].at # "new"
  PROVE  Relays(j)
<1>1. broker[j].answer \in {"ack", "nack"} /\ broker \in [Jobs -> BrokerState]
  BY DEF SettleAnswer, IInv, TypeOK, BrokerState
<1>2. /\ \A i \in Jobs \ {j} : broker'[i] = broker[i]
      /\ broker'[j] = In(IF broker[j].answer = "ack" THEN "gone"
                         ELSE IF DisableRetry(queue[j]) THEN "ready" ELSE "retry")
  BY <1>1 DEF SettleAnswer
<1>3. UNCHANGED <<queue, tasks, runs, seen, pc, task>>
  BY DEF SettleAnswer, database, ofJobs
<1>4. RetryConfig[queue[j]] = "enabled" => ~DisableRetry(queue[j])
  BY DEF DisableRetry
<1>5. CASE broker[j].answer = "ack"
  BY <1>2, <1>3, <1>5 DEF Relays, OthersStill, Still, Rests
<1>6. CASE broker[j].answer = "nack"
  BY <1>2, <1>3, <1>4, <1>6 DEF Relays, OthersStill, Still, Rests
<1>7. QED
  BY <1>1, <1>5, <1>6

LEMMA RetryRelays ==
  ASSUME IInv, NEW j \in Jobs, RetryExpires(j)
  PROVE  Relays(j)
  BY DEF RetryExpires, Relays, OthersStill, Still, Rests, IInv, TypeOK, database, ofJobs

LEMMA DeliverReceives ==
  ASSUME IInv, NEW j \in Jobs, NEW w \in Workers, NEW h \in Handlers, Deliver(j, w, h)
  PROVE  Receives(h, j)
<1>1. /\ pc'[h] = IF queue[j] \in WithMeta THEN "find" ELSE "invalid"
      /\ task'[h] = Delivery(j, w) /\ OthersRest(h)
  BY GoRests DEF Deliver
<1>2. Delivery(j, w).job = j /\ Delivery(j, w).read = "absent"
  BY DEF Delivery
<1>3. broker' = [broker EXCEPT ![j] = [at |-> "unacked", by |-> w, answer |-> "none"]]
  BY DEF Deliver
<1>4. /\ \A i \in Jobs \ {j} : broker'[i] = broker[i]
      /\ broker'[j].at = "unacked" /\ broker'[j].answer = "none"
  BY <1>3 DEF IInv, TypeOK
<1>5. UNCHANGED <<queue, tasks, runs, seen>>
  BY DEF Deliver, database, ofJobs
<1>6. QED
  BY <1>1, <1>2, <1>4, <1>5 DEF Receives, Deliver, OthersStill, Still

LEMMA FindTaskWorks ==
  ASSUME IInv, NEW h \in Handlers, NEW j \in Jobs, task[h].job = j, FindTask(h)
  PROVE  Works(h, j)
<1> DEFINE read == tasks[j].status
           attempts == tasks[j].attempts + 1
           g == [task[h] EXCEPT !.read = read, !.attempts = attempts]
<1>1. Go(h, "dispatch", g)
  BY DEF FindTask, NextAttempt
<1>2. g.job = j /\ g.read = read /\ g.attempts = attempts
  <2> HIDE DEF read, attempts
  <2>1. task[h] \in HandlerState
    BY HandlerTyped
  <2>2. QED
    BY <2>1 DEF HandlerState
<1> HIDE DEF read, attempts, g
<1>3. /\ pc'[h] = "dispatch" /\ OthersRest(h)
      /\ task'[h].job = j /\ task'[h].read = read /\ task'[h].attempts = attempts
  BY <1>1, <1>2, GoRests
<1>4. \A i \in Jobs : Still(i)
  BY DEF FindTask, Still, database, ofJobs
<1>5. QED
  BY <1>3, <1>4 DEF Works, Looks, OthersStill, FindTask, read, attempts

LEMMA DispatchWorks ==
  ASSUME IInv, NEW h \in Handlers, NEW j \in Jobs, task[h].job = j, Dispatch(h)
  PROVE  Works(h, j)
<1>1. PICK outcome \in Outcomes :
         /\ Go(h, "answer", [task[h] EXCEPT !.status = Verdict(outcome, task[h].attempts)])
         /\ seen' = [seen EXCEPT ![j] = @ \cup ({outcome} \ {"error"})]
  BY DEF Dispatch
<1> DEFINE status == Verdict(outcome, task[h].attempts)
<1>2. task[h] \in HandlerState /\ task[h].attempts \in Nat
  BY HandlerTyped DEF HandlerState
<1>3. /\ outcome = "ok" => status = "SUCCESS"
      /\ outcome # "ok" => /\ status \in {"FAIL", "DEAD", "INVALID_PAYLOAD"}
                           /\ status = "FAIL" => ~MaxAttemptsReached(task[h].attempts)
  BY DEF Verdict, Outcomes
<1> HIDE DEF status
<1>4. /\ pc'[h] = "answer" /\ OthersRest(h)
      /\ task'[h].job = j /\ task'[h].read = task[h].read
      /\ task'[h].attempts = task[h].attempts /\ task'[h].status = status
  BY <1>1, <1>2, GoRests DEF HandlerState, status
<1>5. /\ runs'[j] = runs[j] + 1 /\ \A i \in Jobs \ {j} : runs'[i] = runs[i]
      /\ seen'[j] = seen[j] \cup ({outcome} \ {"error"})
      /\ \A i \in Jobs \ {j} : seen'[i] = seen[i]
  BY <1>1 DEF Dispatch, IInv, TypeOK
<1>6. UNCHANGED <<broker, queue, tasks>> /\ pc[h] = "dispatch"
  BY DEF Dispatch, database
<1>7. OthersStill(j)
  BY <1>5, <1>6 DEF OthersStill, Still
<1>8. CASE outcome = "ok"
  <2>1. seen'[j] = seen[j] \cup {"ok"}
    BY <1>5, <1>8
  <2>2. Runs(h, j)
    BY <1>3, <1>4, <1>5, <1>6, <1>8, <2>1 DEF Runs
  <2>3. QED
    BY <1>4, <1>7, <2>2 DEF Works
<1>9. CASE outcome # "ok"
  <2>1. "ok" \in seen'[j] <=> "ok" \in seen[j]
    BY <1>5, <1>9
  <2>2. task'[h].status = "FAIL" => task[h].attempts < MaxAttempts
    BY <1>2, <1>3, <1>4, <1>9, WorkerAssumption DEF MaxAttemptsReached, WorkerAssumption
  <2>3. Runs(h, j)
    BY <1>3, <1>4, <1>5, <1>6, <1>9, <2>1, <2>2 DEF Runs
  <2>4. QED
    BY <1>4, <1>7, <2>3 DEF Works
<1>10. QED
  BY <1>8, <1>9

LEMMA SaveAsInvalidWorks ==
  ASSUME IInv, NEW h \in Handlers, NEW j \in Jobs, task[h].job = j, SaveAsInvalid(h)
  PROVE  Works(h, j)
<1>1. pc'[h] = "ackInvalid" /\ task'[h] = task[h] /\ OthersRest(h)
  BY GoRests DEF SaveAsInvalid
<1>2. \A i \in Jobs : Still(i)
  BY DEF SaveAsInvalid, Still, ofJobs
<1>3. QED
  BY <1>1, <1>2 DEF Works, Notes, OthersStill, SaveAsInvalid

(* On a connection that is alive, an answer reaches the broker. *)
LEMMA ReplyArrives ==
  ASSUME IInv, NEW h \in Handlers, NEW j \in Jobs, task[h].job = j,
         NEW answer, NEW l, NEW g, Reply(h, answer, l, g), up[task[h].worker],
         UNCHANGED <<database, ofJobs>>
  PROVE  /\ pc'[h] = l /\ task'[h] = g /\ OthersRest(h) /\ OthersStill(j)
         /\ broker'[j].answer = answer /\ broker'[j].at = broker[j].at
         /\ queue'[j] = queue[j] /\ tasks'[j] = tasks[j]
         /\ runs'[j] = runs[j] /\ seen'[j] = seen[j]
<1>1. Go(h, l, g) /\ broker' = [broker EXCEPT ![j].answer = answer]
  BY DEF Reply
<1>2. broker[j] \in BrokerState /\ broker \in [Jobs -> BrokerState]
  BY DEF IInv, TypeOK
<1>3. /\ broker'[j].answer = answer /\ broker'[j].at = broker[j].at
      /\ \A i \in Jobs \ {j} : broker'[i] = broker[i]
  BY <1>1, <1>2 DEF BrokerState
<1>4. QED
  BY <1>1, <1>3, GoRests DEF OthersStill, Still, database, ofJobs

LEMMA AnswerReplies ==
  ASSUME IInv, NEW h \in Handlers, NEW j \in Jobs, task[h].job = j,
         up[task[h].worker], AnswerBroker(h) \/ AckInvalid(h)
  PROVE  Replies(h, j)
<1>1. CASE AnswerBroker(h)
  BY <1>1, ReplyArrives DEF AnswerBroker, Replies
<1>2. CASE AckInvalid(h)
  BY <1>2, ReplyArrives DEF AckInvalid, Replies
<1>3. QED
  BY <1>1, <1>2

LEMMA SaveTaskSaves ==
  ASSUME IInv, NEW h \in Handlers, NEW j \in Jobs, task[h].job = j, SaveTask(h), ~mishap'
  PROVE  Saves(h, j)
<1> DEFINE g   == task[h]
           row == tasks[j]
<1>1. PICK new :
         /\ tasks' = [tasks EXCEPT ![j] = new] /\ Go(h, "idle", NoDelivery)
         /\ \/ /\ g.read = "absent" /\ row.status = "absent"
               /\ new = [status |-> g.status, attempts |-> g.attempts]
            \/ /\ g.read # "absent"
               /\ new = Update(row, g)
  BY DEF SaveTask, Die
<1>2. tasks'[j] = new /\ \A i \in Jobs \ {j} : tasks'[i] = tasks[i]
  BY <1>1 DEF IInv, TypeOK
<1>3. UNCHANGED <<broker, queue, runs, seen>> /\ pc[h] = "save"
  BY DEF SaveTask, Die, ofJobs
<1>4. pc'[h] = "idle" /\ task'[h] = NoDelivery /\ OthersRest(h)
  BY <1>1, GoRests
<1>5. OthersStill(j)
  BY <1>2, <1>3 DEF OthersStill, Still
<1>6. /\ new.attempts = g.attempts
      /\ \/ g.read = "absent" /\ row.status = "absent" /\ new.status = g.status
         \/ /\ g.read # "absent"
            /\ new.status = IF g.status = g.read THEN row.status ELSE g.status
  BY <1>1 DEF Update
<1>7. QED
  BY <1>2, <1>3, <1>4, <1>5, <1>6 DEF Saves

LEMMA PeacefulKinds ==
  ASSUME WorkerAssumption, IInv, Peaceful, Next, ~mishap'
  PROVE  ~mishap /\ UNCHANGED up /\ PeacefulStep
<1>1. ASSUME mishap PROVE mishap'
  BY <1>1 DEF Next, Handle, Publish, SettleAnswer, RetryExpires, Deliver, SaveAsInvalid,
     AckInvalid, FindTask, Dispatch, AnswerBroker, SaveTask, Reply, Die, Disconnect,
     Restart, faults
<1>2. Calm
  BY <1>1 DEF Peaceful
<1>3. ASSUME NEW j \in Jobs, NEW q \in Queues, Publish(j, q)
      PROVE  UNCHANGED up /\ PeacefulStep
  BY <1>3, PublishRelays DEF PeacefulStep, Publish, faults
<1>4. ASSUME NEW j \in Jobs, SettleAnswer(j)
      PROVE  UNCHANGED up /\ PeacefulStep
  <2>1. broker[j].at # "new"
    BY <1>4 DEF SettleAnswer, IInv, JobOK
  <2>2. QED
    BY <1>4, <2>1, SettleRelays DEF PeacefulStep, SettleAnswer, faults
<1>5. ASSUME NEW j \in Jobs, RetryExpires(j)
      PROVE  UNCHANGED up /\ PeacefulStep
  BY <1>5, RetryRelays DEF PeacefulStep, RetryExpires, faults
<1>6. ASSUME NEW j \in Jobs, NEW w \in Workers, NEW h \in Handlers, Deliver(j, w, h)
      PROVE  UNCHANGED up /\ PeacefulStep
  BY <1>6, DeliverReceives DEF PeacefulStep, Deliver, faults
<1>7. ASSUME NEW h \in Handlers, Handle(h)
      PROVE  UNCHANGED up /\ PeacefulStep
  <2>1. pc[h] # "idle"
    BY <1>7 DEF Handle, SaveAsInvalid, AckInvalid, FindTask, Dispatch, AnswerBroker, SaveTask
  <2>2. PICK j \in Jobs : task[h].job = j
    BY <2>1, HandlerTyped
  <2>3. up[task[h].worker]
    BY <1>2, <2>1, HandlerTyped DEF Calm
  <2>4. CASE SaveAsInvalid(h)
    BY <2>2, <2>4, SaveAsInvalidWorks DEF PeacefulStep, SaveAsInvalid, faults
  <2>5. CASE FindTask(h)
    BY <2>2, <2>5, FindTaskWorks DEF PeacefulStep, FindTask, faults
  <2>6. CASE Dispatch(h)
    BY <2>2, <2>6, DispatchWorks DEF PeacefulStep, Dispatch, faults
  <2>7. CASE AnswerBroker(h) \/ AckInvalid(h)
    <3>1. Replies(h, task[h].job)
      BY <2>2, <2>3, <2>7, AnswerReplies
    <3>2. UNCHANGED up
      BY <2>3, <2>7 DEF AnswerBroker, AckInvalid, Reply, faults
    <3>3. QED
      BY <2>2, <3>1, <3>2 DEF PeacefulStep
  <2>8. CASE SaveTask(h)
    <3>1. Saves(h, task[h].job)
      BY <2>2, <2>8, SaveTaskSaves
    <3>2. UNCHANGED up
      BY <2>8 DEF SaveTask, Die, faults
    <3>3. QED
      BY <2>2, <3>1, <3>2 DEF PeacefulStep
  <2>9. QED
    BY <1>7, <2>4, <2>5, <2>6, <2>7, <2>8 DEF Handle
<1>8. ASSUME NEW w \in Workers, Disconnect(w) \/ Restart(w)
      PROVE  FALSE
  BY <1>8 DEF Disconnect, Restart, Die
<1>9. QED
  BY <1>1, <1>3, <1>4, <1>5, <1>6, <1>7, <1>8 DEF Next

-----------------------------------------------------------------------------
(* Calm steps *)

LEMMA RestingStaysCalm ==
  ASSUME NEW k \in Handlers, Rests(k), CalmHandler(pc[k], task[k]),
         NEW j, task[k].job = j,
         Open(pc[k], task[k]) =>
            /\ broker'[j] = broker[j] \/ (pc[k] = "save" /\ Over(broker'[j]))
            /\ seen'[j] = seen[j] /\ ~Final(tasks'[j])
  PROVE  CalmHandler(pc[k], task[k])'
<1>1. pc'[k] = pc[k] /\ task'[k] = task[k]
  BY DEF Rests
<1>2. CASE Open(pc[k], task[k])
  BY <1>1, <1>2 DEF CalmHandler, Open, Active, Over, Final
<1>3. CASE ~Open(pc[k], task[k])
  BY <1>1, <1>3 DEF CalmHandler, Open, Active
<1>4. QED
  BY <1>2, <1>3

LEMMA StillStaysCalm ==
  ASSUME NEW i \in Jobs, Still(i), CalmJob(i),
         \A k \in Handlers : task[k].job = i => Rests(k)
  PROVE  CalmJob(i)'
<1>1. CASE Over(broker[i]) /\ queue[i] \in WithMeta /\ ~Final(tasks[i])
  <2>1. PICK k \in Handlers : pc[k] = "save" /\ task[k].job = i /\ task[k].status # "FAIL"
    BY <1>1 DEF CalmJob
  <2>2. pc'[k] = "save" /\ task'[k].job = i /\ task'[k].status # "FAIL"
    BY <2>1 DEF Rests
  <2>3. QED
    BY <2>2 DEF Still, CalmJob, Over, Final
<1>2. CASE ~(Over(broker[i]) /\ queue[i] \in WithMeta /\ ~Final(tasks[i]))
  BY <1>2 DEF Still, CalmJob, Over, Final
<1>3. QED
  BY <1>1, <1>2

LEMMA PairsStayCalm ==
  ASSUME \A h, k \in Handlers : CalmPair(h, k),
         \A k \in Handlers : Open(pc'[k], task'[k]) =>
            Open(pc[k], task[k]) /\ task'[k].job = task[k].job
  PROVE  (\A h, k \in Handlers : CalmPair(h, k))'
  BY DEF CalmPair, Open

(* The handlers but the one that moves. *)
LEMMA OthersStayCalm ==
  ASSUME Calm, NEW h \in Handlers, NEW j \in Jobs, OthersRest(h), OthersStill(j),
         NEW k \in Handlers \ {h},
         task[k].job = j => ~Open(pc[k], task[k]),
         Open(pc[k], task[k]) => task[k].job \in Jobs
  PROVE  CalmHandler(pc[k], task[k])'
<1>1. Rests(k) /\ CalmHandler(pc[k], task[k])
  BY DEF OthersRest, Calm
<1>2. Open(pc[k], task[k]) => Still(task[k].job) /\ ~Final(tasks[task[k].job])
  BY <1>1 DEF OthersStill, CalmHandler
<1>3. QED
  BY <1>1, <1>2, RestingStaysCalm DEF Still

LEMMA OtherJobsStayCalm ==
  ASSUME IInv, Calm, NEW h \in Handlers, NEW j \in Jobs, OthersRest(h), OthersStill(j),
         task[h].job = j \/ pc[h] = "idle", None \notin Jobs, NEW i \in Jobs \ {j}
  PROVE  CalmJob(i)'
<1>1. task[h].job # i
  BY HandlerTyped
<1>2. \A k \in Handlers : task[k].job = i => Rests(k)
  BY <1>1 DEF OthersRest
<1>3. Still(i) /\ CalmJob(i)
  BY DEF OthersStill, Calm
<1>4. QED
  BY <1>2, <1>3, StillStaysCalm

LEMMA RelaysCalm ==
  ASSUME WorkerAssumption, IInv, Calm, NEW j \in Jobs, Relays(j), UNCHANGED up
  PROVE  Calm'
<1>1. ASSUME NEW k \in Handlers PROVE CalmHandler(pc[k], task[k])'
  <2>1. Rests(k) /\ CalmHandler(pc[k], task[k]) /\ CalmJob(j)
    BY DEF Relays, Calm
  <2>2. CASE task[k].job = j /\ Open(pc[k], task[k])
    <3>1. pc[k] = "save" /\ Over(broker'[j])
      <4>1. pc[k] \notin Active
        BY <2>1, <2>2, HandlerTyped DEF Relays, CalmHandler
      <4>2. pc[k] = "save" /\ Over(broker[j]) /\ broker[j].at # "new"
        BY <2>1, <2>2, <4>1, HandlerTyped DEF Open, CalmHandler
      <4>3. broker[j].answer = "ack"
        BY <2>1, <4>2, InOK DEF Relays, CalmJob, Over
      <4>4. broker'[j] = In("gone")
        BY <2>1, <4>2, <4>3 DEF Relays, CalmJob
      <4>5. QED
        BY <4>2, <4>4, InOK DEF Over
    <3>2. seen'[j] = seen[j] /\ ~Final(tasks'[j])
      BY <2>1, <2>2 DEF Relays, CalmHandler
    <3>3. QED
      BY <2>1, <2>2, <3>1, <3>2, RestingStaysCalm
  <2>3. CASE task[k].job # j /\ Open(pc[k], task[k])
    <3>1. task[k].job \in Jobs
      BY <2>3, HandlerTyped DEF Open, Active
    <3>2. Still(task[k].job) /\ ~Final(tasks[task[k].job])
      BY <2>1, <2>3, <3>1 DEF Relays, OthersStill, CalmHandler
    <3>3. QED
      BY <2>1, <3>2, RestingStaysCalm DEF Still
  <2>4. CASE ~Open(pc[k], task[k])
    BY <2>1, <2>4, RestingStaysCalm
  <2>5. QED
    BY <2>2, <2>3, <2>4
<1>2. ASSUME NEW i \in Jobs PROVE CalmJob(i)'
  <2>1. CASE i # j
    BY <2>1, StillStaysCalm DEF Relays, OthersStill, Calm
  <2>2. CASE i = j
    <3>1. CalmJob(j) /\ tasks'[j] = tasks[j] /\ seen'[j] = seen[j]
          /\ \A k \in Handlers : Rests(k)
      BY DEF Relays, Calm
    <3>2. CASE broker[j].answer = "ack" /\ broker'[j] = In("gone") /\ queue'[j] = queue[j]
      <4>1. Over(broker[j]) /\ broker'[j].at = "gone" /\ broker'[j].answer = "none"
        BY <3>2, InOK DEF Over
      <4>2. queue'[j] \in WithMeta /\ ~Final(tasks'[j]) =>
               \E k \in Handlers :
                  pc'[k] = "save" /\ task'[k].job = j /\ task'[k].status # "FAIL"
        BY <3>1, <3>2, <4>1 DEF CalmJob, Rests
      <4>3. QED
        BY <2>2, <3>1, <4>1, <4>2 DEF CalmJob, Over
    <3>3. CASE broker'[j] \in {In("ready"), In("retry")}
      <4>1. broker'[j].at \in {"ready", "retry"} /\ broker'[j].answer = "none"
        BY <3>3, InOK
      <4>2. ~Over(broker[j]) /\ "ok" \notin seen[j]
        BY <3>1, <3>3, InOK DEF Relays, CalmJob, Over
      <4>3. QED
        BY <2>2, <3>1, <4>1, <4>2 DEF CalmJob, Over
    <3>4. QED
      BY <3>2, <3>3 DEF Relays
  <2>3. QED
    BY <2>1, <2>2
<1>3. (\A h, k \in Handlers : CalmPair(h, k))'
  BY PairsStayCalm DEF Relays, Rests, Calm
<1>4. QED
  BY <1>1, <1>2, <1>3 DEF Calm

LEMMA ReceivesCalm ==
  ASSUME WorkerAssumption, IInv, Calm, NEW h \in Handlers, NEW j \in Jobs,
         Receives(h, j), UNCHANGED up
  PROVE  Calm'
<1>1. /\ OthersRest(h) /\ OthersStill(j) /\ pc[h] = "idle" /\ broker[j].at = "ready"
      /\ pc'[h] \in {"find", "invalid"}
      /\ task'[h].job = j /\ task'[h].read = "absent"
      /\ broker'[j].at = "unacked" /\ broker'[j].answer = "none"
      /\ queue'[j] = queue[j] /\ tasks'[j] = tasks[j] /\ seen'[j] = seen[j]
  BY DEF Receives
<1>2. CalmJob(j)
  BY DEF Calm
<1>3. ~Over(broker[j]) /\ ~Final(tasks[j]) /\ "ok" \notin seen[j]
  BY <1>1, <1>2 DEF CalmJob, Over
<1>4. ASSUME NEW k \in Handlers, task[k].job = j PROVE ~Open(pc[k], task[k])
  <2>1. CalmHandler(pc[k], task[k])
    BY DEF Calm
  <2>2. QED
    BY <1>1, <1>3, <1>4, <2>1 DEF CalmHandler, Open
<1>5. ASSUME NEW k \in Handlers PROVE CalmHandler(pc[k], task[k])'
  <2>1. CASE k = h
    BY <1>1, <1>3, <2>1 DEF CalmHandler, Open, Active
  <2>2. CASE k # h
    BY <1>1, <1>4, <2>2, OthersStayCalm, HandlerTyped DEF Open, Active
  <2>3. QED
    BY <2>1, <2>2
<1>6. ASSUME NEW i \in Jobs PROVE CalmJob(i)'
  <2>1. CASE i = j
    BY <1>1, <1>3, <2>1 DEF CalmJob, Over
  <2>2. CASE i # j
    BY <1>1, <2>2, OtherJobsStayCalm DEF WorkerAssumption
  <2>3. QED
    BY <2>1, <2>2
<1>7. (\A m, k \in Handlers : CalmPair(m, k))'
  <2> SUFFICES ASSUME NEW m \in Handlers, NEW k \in Handlers, m # k,
                      Open(pc'[m], task'[m]), Open(pc'[k], task'[k])
               PROVE  task'[m].job # task'[k].job
    BY DEF CalmPair
  <2>1. ASSUME NEW n \in Handlers, n # h PROVE pc'[n] = pc[n] /\ task'[n] = task[n]
    BY <1>1, <2>1 DEF OthersRest, Rests
  <2>2. CASE m # h /\ k # h
    BY <2>1, <2>2 DEF Calm, CalmPair
  <2>3. CASE m = h
    BY <1>1, <1>4, <2>1, <2>3
  <2>4. CASE k = h
    BY <1>1, <1>4, <2>1, <2>4
  <2>5. QED
    BY <2>2, <2>3, <2>4
<1>8. QED
  BY <1>5, <1>6, <1>7 DEF Calm

(* The job of an open delivery has no other. *)
LEMMA OpenAlone ==
  ASSUME Calm, NEW h \in Handlers, Open(pc[h], task[h]), NEW k \in Handlers \ {h},
         task[k].job = task[h].job
  PROVE  ~Open(pc[k], task[k])
  BY DEF Calm, CalmPair

LEMMA WorksCalm ==
  ASSUME WorkerAssumption, IInv, Calm, NEW h \in Handlers, NEW j \in Jobs,
         Works(h, j), UNCHANGED up
  PROVE  Calm'
<1>1. /\ OthersRest(h) /\ OthersStill(j) /\ task[h].job = j /\ task'[h].job = j
      /\ broker'[j] = broker[j] /\ queue'[j] = queue[j] /\ tasks'[j] = tasks[j]
      /\ pc[h] \in Active \ {"answer"} /\ pc'[h] \in Active
  BY DEF Works, Looks, Runs, Notes, Still, Active
<1>2. CalmJob(j) /\ CalmHandler(pc[h], task[h]) /\ Open(pc[h], task[h])
  BY <1>1 DEF Calm, Open
<1>3. /\ ~Final(tasks[j]) /\ "ok" \notin seen[j]
      /\ broker[j].at = "unacked" /\ broker[j].answer = "none"
      /\ task[h].read \in {"absent", "FAIL"}
  BY <1>1, <1>2 DEF CalmHandler, Active
<1>4. CalmHandler(pc[h], task[h])'
  <2>1. tasks[j].status \in {"absent", "FAIL"}
    BY <1>3 DEF Final
  <2>2. CASE Looks(h, j) \/ Notes(h, j)
    BY <1>1, <1>3, <2>1, <2>2 DEF Looks, Notes, Still, CalmHandler, Open, Active
  <2>3. CASE Runs(h, j)
    BY <1>1, <1>3, <2>3 DEF Runs, CalmHandler, Open, Active
  <2>4. QED
    BY <2>2, <2>3 DEF Works
<1>5. ASSUME NEW k \in Handlers, k # h PROVE CalmHandler(pc[k], task[k])'
  BY <1>1, <1>2, <1>5, OpenAlone, OthersStayCalm, HandlerTyped DEF Open, Active
<1>6. ASSUME NEW i \in Jobs PROVE CalmJob(i)'
  <2>1. CASE i = j
    BY <1>1, <1>3, <2>1 DEF CalmJob, Over
  <2>2. CASE i # j
    BY <1>1, <2>2, OtherJobsStayCalm DEF WorkerAssumption
  <2>3. QED
    BY <2>1, <2>2
<1>7. (\A m, k \in Handlers : CalmPair(m, k))'
  BY <1>1, <1>2, PairsStayCalm DEF Calm, OthersRest, Rests
<1>8. QED
  BY <1>4, <1>5, <1>6, <1>7 DEF Calm

LEMMA RepliesCalm ==
  ASSUME WorkerAssumption, IInv, Calm, NEW h \in Handlers, NEW j \in Jobs,
         Replies(h, j), UNCHANGED up
  PROVE  Calm'
<1>1. /\ OthersRest(h) /\ OthersStill(j) /\ task[h].job = j
      /\ broker'[j].at = broker[j].at
      /\ queue'[j] = queue[j] /\ tasks'[j] = tasks[j] /\ seen'[j] = seen[j]
      /\ pc[h] \in Active
  BY DEF Replies, Active
<1>2. CalmJob(j) /\ CalmHandler(pc[h], task[h]) /\ Open(pc[h], task[h])
  BY <1>1 DEF Calm, Open
<1>3. ~Final(tasks[j]) /\ broker[j].at = "unacked" /\ task[h].read \in {"absent", "FAIL"}
  BY <1>1, <1>2 DEF CalmHandler, Active
<1>4. ASSUME pc[h] = "answer"
      PROVE  /\ CalmHandler(pc[h], task[h])' /\ CalmJob(j)'
             /\ Open(pc'[h], task'[h]) => task'[h].job = j
  <2>1. /\ pc'[h] = "save" /\ task'[h] = task[h]
        /\ broker'[j].answer = IF task[h].status = "FAIL" THEN "nack" ELSE "ack"
        /\ "ok" \in seen[j] <=> task[h].status = "SUCCESS"
    BY <1>1, <1>2, <1>4 DEF Replies, CalmHandler
  <2>2. CalmHandler(pc[h], task[h])'
    BY <1>1, <1>3, <2>1 DEF CalmHandler, Open, Active, Over
  <2>3. CalmJob(j)'
    BY <1>1, <1>3, <2>1 DEF CalmJob, Over
  <2>4. Open(pc'[h], task'[h]) => task'[h].job = j
    BY <1>1, <2>1
  <2>5. QED
    BY <2>2, <2>3, <2>4
<1>5. ASSUME pc[h] = "ackInvalid"
      PROVE  /\ CalmHandler(pc[h], task[h])' /\ CalmJob(j)'
             /\ Open(pc'[h], task'[h]) => task'[h].job = j
  <2>1. /\ pc'[h] = "idle" /\ broker'[j].answer = "ack"
        /\ queue[j] \notin WithMeta
    BY <1>1, <1>5 DEF Replies, IInv, HandlerAt
  <2>2. CalmHandler(pc[h], task[h])' /\ ~Open(pc'[h], task'[h])
    BY <2>1 DEF CalmHandler, Open, Active
  <2>3. CalmJob(j)'
    BY <1>1, <1>3, <2>1 DEF CalmJob, Over
  <2>4. QED
    BY <2>2, <2>3
<1>6. /\ CalmHandler(pc[h], task[h])' /\ CalmJob(j)'
      /\ Open(pc'[h], task'[h]) => task'[h].job = j
  BY <1>4, <1>5 DEF Replies
<1>7. ASSUME NEW k \in Handlers, k # h PROVE CalmHandler(pc[k], task[k])'
  BY <1>1, <1>2, <1>7, OpenAlone, OthersStayCalm, HandlerTyped DEF Open, Active
<1>8. ASSUME NEW i \in Jobs, i # j PROVE CalmJob(i)'
  BY <1>1, <1>8, OtherJobsStayCalm DEF WorkerAssumption
<1>9. (\A m, k \in Handlers : CalmPair(m, k))'
  BY <1>1, <1>2, <1>6, PairsStayCalm DEF Calm, OthersRest, Rests
<1>10. QED
  BY <1>6, <1>7, <1>8, <1>9 DEF Calm

LEMMA SavesCalm ==
  ASSUME WorkerAssumption, IInv, Calm, NEW h \in Handlers, NEW j \in Jobs,
         Saves(h, j), UNCHANGED up
  PROVE  Calm'
<1> DEFINE g == task[h]
<1>1. /\ OthersRest(h) /\ OthersStill(j) /\ g.job = j /\ pc[h] = "save" /\ pc'[h] = "idle"
      /\ broker'[j] = broker[j] /\ queue'[j] = queue[j] /\ seen'[j] = seen[j]
      /\ \/ g.read = "absent" /\ tasks[j].status = "absent" /\ tasks'[j].status = g.status
         \/ /\ g.read # "absent"
            /\ tasks'[j].status = IF g.status = g.read THEN tasks[j].status ELSE g.status
  BY DEF Saves
<1>2. CalmJob(j) /\ CalmHandler("save", g) /\ g.status \in MessageStatus
  BY <1>1, HandlerTyped DEF Calm, HandlerState
<1>3. g.read \in {"absent", "FAIL"}
  BY <1>2 DEF CalmHandler
<1>4. CalmHandler(pc[h], task[h])' /\ ~Open(pc'[h], task'[h])
  BY <1>1 DEF CalmHandler, Open, Active
<1>5. ASSUME g.status # "FAIL"
      PROVE  CalmJob(j)' /\ \A k \in Handlers \ {h} : CalmHandler(pc[k], task[k])'
  <2>1. /\ Open("save", g) /\ Over(broker[j])
        /\ "ok" \in seen[j] <=> g.status = "SUCCESS"
    BY <1>1, <1>2, <1>5 DEF CalmHandler, Open
  <2>2. tasks'[j].status = g.status /\ Final(tasks'[j])
    BY <1>1, <1>2, <1>3, <1>5 DEF Final, MessageStatus
  <2>3. CalmJob(j)'
    BY <1>1, <1>2, <2>1, <2>2 DEF CalmJob, Over, Final
  <2>4. ASSUME NEW k \in Handlers, k # h PROVE CalmHandler(pc[k], task[k])'
    BY <1>1, <2>1, <2>4, OpenAlone, OthersStayCalm, HandlerTyped DEF Open, Active
  <2>5. QED
    BY <2>3, <2>4
<1>6. ASSUME g.status = "FAIL"
      PROVE  CalmJob(j)' /\ \A k \in Handlers \ {h} : CalmHandler(pc[k], task[k])'
  <2>1. /\ Final(tasks'[j]) <=> Final(tasks[j])
        /\ Final(tasks[j]) => tasks'[j].status = tasks[j].status
    BY <1>1, <1>3, <1>6 DEF Final
  <2>2. CalmJob(j)'
    <3>1. CASE Over(broker[j]) /\ queue[j] \in WithMeta /\ ~Final(tasks[j])
      <4>1. PICK k \in Handlers : pc[k] = "save" /\ task[k].job = j /\ task[k].status # "FAIL"
        BY <1>2, <3>1 DEF CalmJob
      <4>2. k # h
        BY <1>6, <4>1
      <4>3. pc'[k] = "save" /\ task'[k].job = j /\ task'[k].status # "FAIL"
        BY <1>1, <4>1, <4>2 DEF OthersRest, Rests
      <4>4. QED
        BY <1>1, <1>2, <2>1, <4>3 DEF CalmJob, Over
    <3>2. CASE ~(Over(broker[j]) /\ queue[j] \in WithMeta /\ ~Final(tasks[j]))
      BY <1>1, <1>2, <2>1, <3>2 DEF CalmJob, Over
    <3>3. QED
      BY <3>1, <3>2
  <2>3. ASSUME NEW k \in Handlers, k # h PROVE CalmHandler(pc[k], task[k])'
    <3>1. Rests(k) /\ CalmHandler(pc[k], task[k])
      BY <1>1, <2>3 DEF OthersRest, Calm
    <3>2. CASE task[k].job = j
      BY <1>1, <2>1, <3>1, <3>2, RestingStaysCalm DEF CalmHandler
    <3>3. CASE task[k].job # j
      BY <1>1, <2>3, <3>3, OthersStayCalm, HandlerTyped DEF Open, Active
    <3>4. QED
      BY <3>2, <3>3
  <2>4. QED
    BY <2>2, <2>3
<1>7. CalmJob(j)' /\ \A k \in Handlers \ {h} : CalmHandler(pc[k], task[k])'
  BY <1>5, <1>6
<1>8. ASSUME NEW i \in Jobs, i # j PROVE CalmJob(i)'
  BY <1>1, <1>8, OtherJobsStayCalm DEF WorkerAssumption
<1>9. (\A m, k \in Handlers : CalmPair(m, k))'
  BY <1>1, <1>4, PairsStayCalm DEF Calm, OthersRest, Rests
<1>10. QED
  BY <1>4, <1>7, <1>8, <1>9 DEF Calm

-----------------------------------------------------------------------------
(* Jobs that wait before they run again *)

(* A job that a step does not touch. *)
LEMMA StillStaysCool ==
  ASSUME IInv, Cool, NEW i \in Jobs, Still(i),
         \A k \in Handlers : task[k].job = i => Rests(k),
         \A k \in Handlers : task'[k].job = i => Rests(k)
  PROVE  /\ broker'[i].at = "new" => tasks'[i].attempts = 0 /\ runs'[i] = 0
         /\ Cools(i)' => CoolJob(i)'
<1>1. broker'[i].at = "new" => tasks'[i].attempts = 0 /\ runs'[i] = 0
  BY DEF Cool, Still
<1>2. ASSUME Cools(i)' PROVE CoolJob(i)'
  <2>1. CoolJob(i)
    BY <1>2 DEF Cool, Cools, Still
  <2>2. \A k \in Handlers : task[k].job = i <=> task'[k].job = i
    BY DEF Rests
  <2>3. QED
    BY <2>1, <2>2 DEF CoolJob, Still
<1>3. QED
  BY <1>1, <1>2

LEMMA RestingStaysCool ==
  ASSUME IInv, Cool, NEW k \in Handlers, Rests(k), pc[k] # "idle",
         Still(task[k].job) \/ /\ queue'[task[k].job] = queue[task[k].job]
                               /\ runs'[task[k].job] = runs[task[k].job]
                               /\ tasks'[task[k].job] = tasks[task[k].job],
         Cools(task[k].job)'
  PROVE  CoolHandler(pc[k], task[k])'
<1>1. task[k].job \in Jobs /\ broker[task[k].job].at # "new"
  BY HandlerTyped
<1>2. pc'[k] = pc[k] /\ task'[k] = task[k]
  BY DEF Rests
<1>3. /\ queue'[task[k].job] = queue[task[k].job] /\ runs'[task[k].job] = runs[task[k].job]
      /\ tasks'[task[k].job] = tasks[task[k].job]
  BY DEF Still
<1>4. CoolHandler(pc[k], task[k])
  BY <1>1, <1>2, <1>3 DEF Cool, Cools
<1>5. QED
  BY <1>2, <1>3, <1>4 DEF CoolHandler

(* What is left to show of a step of one handler: its own claim and its
   job's.                                                                  *)
LEMMA OneStaysCool ==
  ASSUME WorkerAssumption, IInv, Cool, NEW h \in Handlers, NEW j \in Jobs,
         OthersRest(h), OthersStill(j), queue'[j] = queue[j],
         broker[j].at # "new", broker'[j].at # "new",
         task[h].job = j \/ pc[h] = "idle",
         task'[h].job \in {j, None},
         Cools(j) => \A k \in Handlers \ {h} : task[k].job # j,
         Cools(j) => /\ CoolJob(j)'
                     /\ pc'[h] # "idle" => CoolHandler(pc[h], task[h])',
         pc'[h] # "idle" => task'[h].job = j
  PROVE  Cool'
<1>1. \A k \in Handlers \ {h} : Rests(k)
  BY DEF OthersRest
<1>2. Cools(j)' <=> Cools(j)
  BY DEF Cools
<1>3. ASSUME NEW i \in Jobs
      PROVE  /\ broker'[i].at = "new" => tasks'[i].attempts = 0 /\ runs'[i] = 0
             /\ Cools(i)' => CoolJob(i)'
  <2>1. CASE i = j
    BY <1>2, <2>1
  <2>2. CASE i # j
    <3>1. task[h].job # i /\ task'[h].job # i
      BY <2>2, HandlerTyped DEF WorkerAssumption
    <3>2. QED
      BY <1>1, <2>2, <3>1, StillStaysCool DEF OthersStill
  <2>3. QED
    BY <2>1, <2>2
<1>4. ASSUME NEW k \in Handlers, pc'[k] # "idle", Cools(task[k].job)'
      PROVE  CoolHandler(pc[k], task[k])'
  <2>1. CASE k = h
    BY <1>2, <1>4, <2>1
  <2>2. CASE k # h
    <3>1. Rests(k) /\ pc[k] # "idle" /\ task[k].job \in Jobs /\ task'[k] = task[k]
      BY <1>1, <1>4, <2>2, HandlerTyped DEF Rests
    <3>2. task[k].job # j
      BY <1>2, <1>4, <2>2, <3>1
    <3>3. QED
      BY <1>4, <3>1, <3>2, RestingStaysCool DEF OthersStill
  <2>3. QED
    BY <2>1, <2>2
<1>5. ASSUME NEW m \in Handlers, NEW k \in Handlers PROVE CoolPair(m, k)'
  <2> SUFFICES ASSUME m # k, pc'[m] # "idle", pc'[k] # "idle", Cools(task[m].job)'
               PROVE  task'[m].job # task'[k].job
    BY DEF CoolPair
  <2>1. ASSUME NEW n \in Handlers, n # h PROVE pc'[n] = pc[n] /\ task'[n] = task[n]
    BY <1>1, <2>1 DEF Rests
  <2>2. CASE m # h /\ k # h
    <3>1. task[m].job \in Jobs /\ broker[task[m].job].at # "new" /\ pc[m] # "idle"
          /\ pc[k] # "idle"
      BY <2>1, <2>2, HandlerTyped
    <3>2. Cools(task[m].job)
      BY <1>2, <2>1, <2>2, <3>1 DEF Cools, OthersStill, Still
    <3>3. QED
      BY <2>1, <2>2, <3>1, <3>2 DEF Cool, CoolPair
  <2>3. CASE m = h
    BY <1>2, <2>1, <2>3
  <2>4. CASE k = h
    <3>1. SUFFICES ASSUME task'[m].job = j PROVE FALSE
      BY <2>4
    <3>2. QED
      BY <1>2, <2>1, <2>4, <3>1
  <2>5. QED
    BY <2>2, <2>3, <2>4
<1>6. QED
  BY <1>3, <1>4, <1>5 DEF Cool

(* A handler at work on a job that cools is alone with it. *)
LEMMA CoolAlone ==
  ASSUME WorkerAssumption, IInv, Cool, NEW h \in Handlers, pc[h] # "idle",
         Cools(task[h].job), NEW k \in Handlers \ {h}
  PROVE  task[k].job # task[h].job
<1>1. CASE pc[k] = "idle"
  BY <1>1, HandlerTyped DEF WorkerAssumption
<1>2. CASE pc[k] # "idle"
  BY <1>2 DEF Cool, CoolPair
<1>3. QED
  BY <1>1, <1>2

LEMMA RelaysCool ==
  ASSUME WorkerAssumption, IInv, Calm, Cool, NEW j \in Jobs, Relays(j)
  PROVE  Cool'
<1>1. /\ \A k \in Handlers : pc'[k] = pc[k] /\ task'[k] = task[k]
      /\ OthersStill(j) /\ CalmJob(j)
      /\ tasks'[j] = tasks[j] /\ runs'[j] = runs[j]
      /\ broker'[j].at # "new"
  BY InOK DEF Relays, Rests, Calm
<1>2. runs[j] \in Nat /\ MaxAttempts \in Nat \ {0}
  BY Typed DEF WorkerAssumption
<1>3. broker[j].at = "new" => /\ \A h \in Handlers : task[h].job # j
                              /\ tasks[j].attempts = 0 /\ runs[j] = 0
                              /\ broker'[j] = In("ready")
  <2>1. ASSUME broker[j].at = "new", NEW h \in Handlers PROVE task[h].job # j
    BY <2>1, HandlerTyped DEF WorkerAssumption
  <2>2. broker[j].at = "new" => broker[j].answer = "none"
    BY DEF IInv, JobOK
  <2>3. QED
    BY <2>1, <2>2 DEF Cool, Relays
<1>4. broker[j].at # "new" => queue'[j] = queue[j]
  BY DEF Relays
<1>5. ASSUME Cools(j)' PROVE CoolJob(j)'
  <2>1. CASE broker[j].at = "new"
    <3>1. broker'[j].at = "ready" /\ broker'[j].answer = "none"
      BY <1>3, <2>1, InOK
    <3>2. QED
      BY <1>1, <1>2, <1>3, <2>1, <3>1 DEF CoolJob
  <2>2. CASE broker[j].at # "new"
    <3>1. CoolJob(j) /\ RetryConfig[queue[j]] = "enabled"
      BY <1>4, <1>5, <2>2 DEF Cool, Cools
    <3>2. CASE broker'[j] = In("gone")
      <4>1. broker'[j].at = "gone" /\ broker'[j].answer = "none"
        BY <3>2, InOK
      <4>2. QED
        BY <1>1, <3>1, <4>1 DEF CoolJob
    <3>3. CASE broker[j].answer = "nack" /\ broker'[j] = In("retry")
      <4>1. broker'[j].at = "retry" /\ broker'[j].answer = "none"
        BY <3>3, InOK
      <4>2. QED
        BY <1>1, <3>1, <3>3, <4>1 DEF CoolJob
    <3>4. CASE /\ broker[j].at = "retry" /\ broker'[j] = In("ready")
               /\ \A h \in Handlers : task[h].job # j
      <4>1. broker'[j].at = "ready" /\ broker'[j].answer = "none"
        BY <3>4, InOK
      <4>2. QED
        BY <1>1, <3>1, <3>4, <4>1 DEF CoolJob
    <3>5. QED
      BY <2>2, <3>1, <3>2, <3>3, <3>4 DEF Relays
  <2>3. QED
    BY <2>1, <2>2
<1>6. ASSUME NEW i \in Jobs
      PROVE  /\ broker'[i].at = "new" => tasks'[i].attempts = 0 /\ runs'[i] = 0
             /\ Cools(i)' => CoolJob(i)'
  <2>1. CASE i = j
    BY <1>1, <1>5, <2>1
  <2>2. CASE i # j
    BY <1>1, <2>2, StillStaysCool DEF OthersStill, Rests
  <2>3. QED
    BY <2>1, <2>2
<1>7. ASSUME NEW k \in Handlers, pc'[k] # "idle", Cools(task[k].job)'
      PROVE  CoolHandler(pc[k], task[k])'
  <2>1. Rests(k) /\ pc[k] # "idle" /\ task[k].job \in Jobs /\ broker[task[k].job].at # "new"
    BY <1>1, <1>7, HandlerTyped DEF Rests
  <2>2. CASE task[k].job = j
    BY <1>1, <1>4, <1>7, <2>1, <2>2, RestingStaysCool
  <2>3. CASE task[k].job # j
    BY <1>1, <1>7, <2>1, <2>3, RestingStaysCool DEF OthersStill
  <2>4. QED
    BY <2>2, <2>3
<1>8. ASSUME NEW m \in Handlers, NEW k \in Handlers PROVE CoolPair(m, k)'
  <2> SUFFICES ASSUME m # k, pc'[m] # "idle", pc'[k] # "idle", Cools(task[m].job)'
               PROVE  task'[m].job # task'[k].job
    BY DEF CoolPair
  <2>1. task[m].job \in Jobs /\ broker[task[m].job].at # "new" /\ pc[m] # "idle"
    BY <1>1, HandlerTyped
  <2>2. Cools(task[m].job)
    BY <1>1, <1>4, <2>1 DEF Cools, OthersStill, Still
  <2>3. QED
    BY <1>1, <2>1, <2>2 DEF Cool, CoolPair
<1>9. QED
  BY <1>6, <1>7, <1>8 DEF Cool

LEMMA ReceivesCool ==
  ASSUME WorkerAssumption, IInv, Cool, NEW h \in Handlers, NEW j \in Jobs, Receives(h, j)
  PROVE  Cool'
<1>1. /\ OthersRest(h) /\ OthersStill(j) /\ pc[h] = "idle" /\ broker[j].at = "ready"
      /\ pc'[h] \in {"find", "invalid"}
      /\ task'[h].job = j
      /\ broker'[j].at = "unacked" /\ broker'[j].answer = "none"
      /\ queue'[j] = queue[j] /\ tasks'[j] = tasks[j] /\ runs'[j] = runs[j]
  BY DEF Receives
<1>2. Cools(j) => CoolJob(j)
  BY DEF Cool
<1>3. Cools(j) => /\ \A k \in Handlers : task[k].job # j
                  /\ runs[j] < MaxAttempts /\ tasks[j].attempts = runs[j]
  BY <1>1, <1>2 DEF CoolJob
<1>4. Cools(j) => CoolJob(j)'
  BY <1>1, <1>2 DEF CoolJob
<1>5. Cools(j) => CoolHandler(pc[h], task[h])'
  BY <1>1, <1>3 DEF CoolHandler
<1>6. QED
  BY <1>1, <1>3, <1>4, <1>5, OneStaysCool

LEMMA WorksCool ==
  ASSUME WorkerAssumption, IInv, Calm, Cool, NEW h \in Handlers, NEW j \in Jobs, Works(h, j)
  PROVE  Cool'
<1>1. /\ OthersRest(h) /\ OthersStill(j) /\ task[h].job = j /\ task'[h].job = j
      /\ broker'[j] = broker[j] /\ queue'[j] = queue[j] /\ tasks'[j] = tasks[j]
      /\ pc[h] \in Active \ {"answer"} /\ pc'[h] \in Active
  BY DEF Works, Looks, Runs, Notes, Still, Active
<1>2. pc[h] # "idle" /\ broker[j].at # "new" /\ CalmHandler(pc[h], task[h])
  BY <1>1, HandlerTyped DEF Active, Calm
<1>3. broker[j].at = "unacked" /\ broker[j].answer = "none"
  BY <1>1, <1>2 DEF CalmHandler
<1>4. ASSUME Cools(j)
      PROVE  /\ CoolJob(j)' /\ CoolHandler(pc[h], task[h])'
             /\ \A k \in Handlers \ {h} : task[k].job # j
  <2>1. CoolJob(j) /\ CoolHandler(pc[h], task[h])
    BY <1>1, <1>2, <1>4 DEF Cool
  <2>2. \A k \in Handlers \ {h} : task[k].job # j
    BY <1>1, <1>2, <1>4, CoolAlone
  <2>3. runs[j] \in Nat /\ MaxAttempts \in Nat /\ tasks[j].attempts \in Nat
    BY Typed DEF TaskRow, WorkerAssumption
  <2>4. CASE Looks(h, j)
    BY <1>1, <1>3, <2>1, <2>2, <2>4 DEF Looks, Still, CoolJob, CoolHandler
  <2>5. CASE Runs(h, j)
    <3>1. runs[j] < MaxAttempts /\ task[h].attempts = runs[j] + 1
      BY <1>1, <2>1, <2>5 DEF Runs, CoolHandler
    <3>2. /\ pc'[h] = "answer" /\ task'[h].attempts = runs'[j] /\ runs'[j] = runs[j] + 1
          /\ task'[h].status = "FAIL" => task[h].attempts < MaxAttempts
      BY <2>5, <3>1 DEF Runs
    <3>3. CoolHandler(pc[h], task[h])'
      BY <1>1, <3>1, <3>2 DEF CoolHandler
    <3>4. runs'[j] <= MaxAttempts
      BY <2>3, <3>1, <3>2
    <3>5. CoolJob(j)'
      BY <1>1, <1>3, <3>4 DEF CoolJob
    <3>6. QED
      BY <2>2, <3>3, <3>5
  <2>6. CASE Notes(h, j)
    BY <1>1, <1>3, <2>1, <2>2, <2>6 DEF Notes, Still, CoolJob, CoolHandler
  <2>7. QED
    BY <2>4, <2>5, <2>6 DEF Works
<1>5. pc'[h] # "idle"
  BY <1>1 DEF Active
<1>6. QED
  BY <1>1, <1>2, <1>3, <1>4, <1>5, OneStaysCool

LEMMA RepliesCool ==
  ASSUME WorkerAssumption, IInv, Calm, Cool, NEW h \in Handlers, NEW j \in Jobs, Replies(h, j)
  PROVE  Cool'
<1>1. /\ OthersRest(h) /\ OthersStill(j) /\ task[h].job = j
      /\ broker'[j].at = broker[j].at
      /\ queue'[j] = queue[j] /\ tasks'[j] = tasks[j] /\ runs'[j] = runs[j]
      /\ pc[h] \in Active
  BY DEF Replies, Active
<1>2. pc[h] # "idle" /\ broker[j].at # "new" /\ CalmHandler(pc[h], task[h])
  BY <1>1, HandlerTyped DEF Active, Calm
<1>3. broker[j].at = "unacked"
  BY <1>1, <1>2 DEF CalmHandler
<1>4. task'[h].job \in {j, None} /\ (pc'[h] # "idle" => task'[h].job = j)
  BY <1>1 DEF Replies, NoDelivery, Delivery
<1>5. ASSUME Cools(j)
      PROVE  /\ CoolJob(j)'
             /\ pc'[h] # "idle" => CoolHandler(pc[h], task[h])'
             /\ \A k \in Handlers \ {h} : task[k].job # j
  <2>1. CoolJob(j) /\ CoolHandler(pc[h], task[h])
    BY <1>1, <1>2, <1>5 DEF Cool
  <2>2. \A k \in Handlers \ {h} : task[k].job # j
    BY <1>1, <1>2, <1>5, CoolAlone
  <2>3. CASE pc[h] = "answer"
    <3>1. /\ pc'[h] = "save" /\ task'[h] = task[h]
          /\ broker'[j].answer = IF task[h].status = "FAIL" THEN "nack" ELSE "ack"
      BY <2>3 DEF Replies
    <3>2. /\ task[h].attempts = runs[j]
          /\ task[h].status = "FAIL" => runs[j] < MaxAttempts
      BY <1>1, <2>1, <2>3 DEF CoolHandler
    <3>3. CoolHandler(pc[h], task[h])'
      BY <1>1, <3>1, <3>2 DEF CoolHandler
    <3>4. CoolJob(j)'
      BY <1>1, <1>3, <2>1, <3>1, <3>2 DEF CoolJob
    <3>5. QED
      BY <2>2, <3>3, <3>4
  <2>4. CASE pc[h] = "ackInvalid"
    <3>1. pc'[h] = "idle" /\ broker'[j].answer = "ack"
      BY <2>4 DEF Replies
    <3>2. tasks[j].attempts = runs[j]
      BY <1>1, <2>1, <2>4 DEF CoolHandler
    <3>3. CoolJob(j)'
      BY <1>1, <1>3, <2>1, <3>1, <3>2 DEF CoolJob
    <3>4. QED
      BY <2>2, <3>1, <3>3
  <2>5. QED
    BY <2>3, <2>4 DEF Replies
<1>6. broker'[j].at # "new"
  BY <1>1, <1>2
<1>7. QED
  BY <1>1, <1>2, <1>4, <1>5, <1>6, OneStaysCool

LEMMA SavesCool ==
  ASSUME WorkerAssumption, IInv, Cool, NEW h \in Handlers, NEW j \in Jobs, Saves(h, j)
  PROVE  Cool'
<1>1. /\ OthersRest(h) /\ OthersStill(j) /\ task[h].job = j
      /\ pc[h] = "save" /\ pc'[h] = "idle" /\ task'[h] = NoDelivery
      /\ broker'[j] = broker[j] /\ queue'[j] = queue[j] /\ runs'[j] = runs[j]
      /\ tasks'[j].attempts = task[h].attempts
  BY DEF Saves
<1>2. broker[j].at # "new" /\ NoDelivery.job = None
  BY <1>1, HandlerTyped DEF NoDelivery, Delivery
<1>3. ASSUME Cools(j)
      PROVE  CoolJob(j)' /\ \A k \in Handlers \ {h} : task[k].job # j
  <2>1. CoolJob(j) /\ CoolHandler(pc[h], task[h])
    BY <1>1, <1>3 DEF Cool
  <2>2. \A k \in Handlers \ {h} : task[k].job # j
    BY <1>1, <1>3, CoolAlone
  <2>3. \A k \in Handlers : task'[k].job # j
    BY <1>1, <1>2, <2>2 DEF OthersRest, Rests, WorkerAssumption
  <2>4. tasks'[j].attempts = runs'[j]
    BY <1>1, <2>1 DEF CoolHandler
  <2>5. CoolJob(j)'
    BY <1>1, <2>1, <2>3, <2>4 DEF CoolJob
  <2>6. QED
    BY <2>2, <2>5
<1>4. task'[h].job \in {j, None} /\ broker'[j].at # "new"
  BY <1>1, <1>2
<1>5. QED
  BY <1>1, <1>2, <1>3, <1>4, OneStaysCool

-----------------------------------------------------------------------------
LEMMA InitPeaceful == ASSUME WorkerAssumption, Init PROVE Peaceful
<1>1. /\ \A h \in Handlers : pc[h] = "idle" /\ task[h].job = None
      /\ \A w \in Workers : up[w]
      /\ \A j \in Jobs : /\ broker[j] = In("new")
                         /\ tasks[j] = [status |-> "absent", attempts |-> 0]
                         /\ runs[j] = 0 /\ seen[j] = {}
  BY DEF Init, NoDelivery, Delivery
<1>2. \A j \in Jobs : broker[j].at = "new" /\ broker[j].answer = "none"
  BY <1>1, InOK
<1>3. Calm
  BY <1>1, <1>2 DEF Calm, CalmHandler, CalmJob, CalmPair, Open, Active, Over, Final
<1>4. Cool
  BY <1>1, <1>2 DEF Cool, Cools, CoolPair
<1>5. QED
  BY <1>3, <1>4 DEF Peaceful

LEMMA NextPeaceful ==
  ASSUME WorkerAssumption, IInv, Peaceful, [Next]_vars
  PROVE  Peaceful'
<1>1. CASE UNCHANGED vars
  BY <1>1 DEF vars, Peaceful, Calm, CalmHandler, CalmJob, CalmPair, Open, Active, Over,
     Final, Cool, Cools, CoolJob, CoolHandler, CoolPair
<1>2. ASSUME Next, ~mishap' PROVE Calm' /\ Cool'
  <2>1. ~mishap /\ UNCHANGED up /\ PeacefulStep
    BY <1>2, PeacefulKinds
  <2>2. Calm /\ Cool
    BY <2>1 DEF Peaceful
  <2>3. QED
    BY <2>1, <2>2, RelaysCalm, ReceivesCalm, WorksCalm, RepliesCalm, SavesCalm,
       RelaysCool, ReceivesCool, WorksCool, RepliesCool, SavesCool DEF PeacefulStep
<1>3. QED
  BY <1>1, <1>2 DEF Peaceful

LEMMA SpecPeaceful == Spec => [](IInv /\ Peaceful)
<1>1. Init => IInv /\ Peaceful
  BY WorkerAssumption, InitIInv, InitPeaceful
<1>2. IInv /\ Peaceful /\ [Next]_vars => IInv' /\ Peaceful'
  BY WorkerAssumption, NextIInv, NextPeaceful
<1>3. QED
  BY <1>1, <1>2, PTL DEF Spec

(* Whatever order overlapping deliveries save a job's row in: unless a
   process died, the row of a job that is through says SUCCESS if and only
   if the job has succeeded, and no row ever counts an attempt that was not
   made.  A failed delivery that saves late writes only what it changed.   *)
THEOREM RecordsAreTrue == Spec => []RecordTruth
<1>1. ASSUME IInv, Peaceful, NEW j \in Jobs, Settled(j), queue[j] \in WithMeta, ~mishap
      PROVE  /\ tasks[j].status \in MessageStatus \ {"FAIL"}
             /\ tasks[j].status = "SUCCESS" <=> "ok" \in seen[j]
  <2>1. CalmJob(j) /\ Over(broker[j]) /\ \A h \in Handlers : task[h].job # j
    BY <1>1 DEF Peaceful, Calm, Settled, Over
  <2>2. Final(tasks[j]) /\ tasks[j].status \in MessageStatus \cup {"absent"}
    BY <1>1, <2>1, Typed DEF CalmJob, TaskRow
  <2>3. QED
    BY <2>1, <2>2 DEF CalmJob, Final
<1>2. IInv /\ Peaceful => RecordTruth
  BY <1>1 DEF RecordTruth, AttemptsHonest, IInv, JobOK
<1>3. QED
  BY <1>2, SpecPeaceful, PTL

(* On a queue with a retry queue no job runs more than max_attempts times,
   unless a process died: it is never delivered again before the row of the
   delivery that failed is saved.                                          *)
THEOREM RunsAreBounded == Spec => []RunsBounded
<1>1. IInv /\ Peaceful => RunsBounded
  BY DEF Peaceful, Cool, Cools, CoolJob, RunsBounded
<1>2. QED
  BY <1>1, SpecPeaceful, PTL
=============================================================================
