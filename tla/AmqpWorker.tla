----------------------------- MODULE AmqpWorker -----------------------------
(***************************************************************************)
(* Jobs from RabbitMQ to the message_tasks table.                          *)
(*                                                                         *)
(* createMqWorker (shared/common/common.worker.ts) consumes every main     *)
(* queue without a prefetch limit, so a worker runs any number of          *)
(* deliveries at once.  A delivery reads the job's row, dispatches the     *)
(* job, answers the broker, and only then saves the row.  The broker may   *)
(* have delivered the job again before that save.                          *)
(*                                                                         *)
(* A handler is one run of the consumer callback; its program counter      *)
(* names the await it is suspended at.  Nothing catches what the callback  *)
(* rejects with, so a failing query ends the worker's process.             *)
(***************************************************************************)
EXTENDS Integers, FiniteSets

CONSTANTS
    Jobs,         \* messages, one per job published
    Queues,       \* the main queues of worker.constant.ts
    WithMeta,     \* those whose jobs are published through wrapJobMeta
    RetryConfig,  \* queue.config.retry.disable of each
    Workers,      \* worker processes
    Handlers,     \* slots for callbacks in progress
    None,         \* no job, no worker
    MaxAttempts,  \* max_attempts of a new row: 5 in the code
    MaxCuts       \* bound: connections that break

ASSUME WorkerAssumption ==
    /\ WithMeta \subseteq Queues
    /\ RetryConfig \in [Queues -> {"unset", "enabled", "disabled"}]
    /\ None \notin Jobs \cup Workers \cup Queues
    /\ MaxAttempts \in Nat \ {0}
    /\ MaxCuts \in Nat

VARIABLES
    queue,      \* RabbitMQ: the queue each job was published to
    broker,     \* RabbitMQ: where its message is
    tasks,      \* Postgres: message_tasks, by the id in the job's meta
    invalid,    \* Postgres: rows saved under a new id, per job
    up,         \* the worker's connection is alive
    pc,         \* where each handler is suspended
    task,       \* the handler's delivery and its MessageTask
    runs,       \* dispatches of each job (history)
    seen,       \* whether one succeeded or refused its payload (history)
    cuts,       \* broken connections so far (history)
    mishap      \* a process has died (history)

vars == <<queue, broker, tasks, invalid, up, pc, task, runs, seen, cuts, mishap>>

database == <<tasks, invalid>>
ofJobs   == <<queue, runs, seen>>
faults   == <<up, cuts, mishap>>

-----------------------------------------------------------------------------
MessageStatus == {"SUCCESS", "FAIL", "DEAD", "INVALID_PAYLOAD"}
Outcomes      == {"ok", "error", "invalid"}

TaskRow == [status : MessageStatus \cup {"absent"}, attempts : Nat]

(* A message unacked by a worker may have an answer of it under way. *)
BrokerState ==
    [at : {"new", "ready", "retry", "unacked", "gone"},
     by : Workers \cup {None}, answer : {"none", "ack", "nack"}]

Labels == {"idle", "find", "dispatch", "answer", "save", "invalid", "ackInvalid"}

(* read is the status in the row when it was read: its pgState. *)
HandlerState ==
    [job : Jobs \cup {None}, worker : Workers \cup {None},
     read : MessageStatus \cup {"absent"}, attempts : Nat,
     status : MessageStatus]

In(place) == [at |-> place, by |-> None, answer |-> "none"]

Delivery(j, w) ==
    [job |-> j, worker |-> w, read |-> "absent", attempts |-> 0,
     status |-> "SUCCESS"]

NoDelivery == Delivery(None, None)

Init ==
    /\ queue = [j \in Jobs |-> None]
    /\ broker = [j \in Jobs |-> In("new")]
    /\ tasks = [j \in Jobs |-> [status |-> "absent", attempts |-> 0]]
    /\ invalid = [j \in Jobs |-> 0]
    /\ up = [w \in Workers |-> TRUE]
    /\ pc = [h \in Handlers |-> "idle"]
    /\ task = [h \in Handlers |-> NoDelivery]
    /\ runs = [j \in Jobs |-> 0]
    /\ seen = [j \in Jobs |-> {}]
    /\ cuts = 0
    /\ mishap = FALSE

Go(h, l, g) ==
    /\ pc' = [pc EXCEPT ![h] = l]
    /\ task' = [task EXCEPT ![h] = g]

(* What the broker holds for a worker it has lost, it delivers again,
   whatever answer was under way.                                          *)
Requeue(w) ==
    broker' = [j \in Jobs |-> IF broker[j].by = w THEN In("ready") ELSE broker[j]]

(* An unhandled rejection ends the process; the platform starts a new one. *)
Die(w) ==
    /\ Requeue(w)
    /\ pc' = [h \in Handlers |-> IF task[h].worker = w THEN "idle" ELSE pc[h]]
    /\ task' = [h \in Handlers |-> IF task[h].worker = w THEN NoDelivery ELSE task[h]]
    /\ up' = [up EXCEPT ![w] = TRUE]
    /\ mishap' = TRUE
    /\ UNCHANGED cuts

-----------------------------------------------------------------------------
(* Publishing and the broker *)

Publish(j, q) ==
    /\ broker[j].at = "new"
    /\ queue' = [queue EXCEPT ![j] = q]
    /\ broker' = [broker EXCEPT ![j] = In("ready")]
    /\ UNCHANGED <<database, pc, task, runs, seen, faults>>

(* The callback parses the message's meta before its first await. *)
Deliver(j, w, h) ==
    /\ broker[j].at = "ready"
    /\ up[w]
    /\ pc[h] = "idle"
    /\ broker' = [broker EXCEPT ![j] = [at |-> "unacked", by |-> w, answer |-> "none"]]
    /\ Go(h, IF queue[j] \in WithMeta THEN "find" ELSE "invalid", Delivery(j, w))
    /\ UNCHANGED <<database, ofJobs, faults>>

(* A mutant of DisableRetry: the option is ignored. *)
DisableRetry_Always(q) == TRUE

(* queue.config?.retry?.disable ?? true *)
DisableRetry(q) ==
    IF RetryConfig[q] = "unset" THEN TRUE ELSE RetryConfig[q] = "disabled"

(* A message rejected on a queue without a retry queue is dead-lettered with
   its own routing key, which leads back to the main queue.                *)
SettleAnswer(j) ==
    /\ broker[j].answer # "none"
    /\ broker' = [broker EXCEPT ![j] =
          In(IF broker[j].answer = "ack" THEN "gone"
             ELSE IF DisableRetry(queue[j]) THEN "ready" ELSE "retry")]
    /\ UNCHANGED <<database, pc, task, ofJobs, faults>>

(* The retry queue's messageTtl, a minute by default, outlasts the save of
   the delivery that failed.                                               *)
RetryExpires(j) ==
    /\ broker[j].at = "retry"
    /\ \A h \in Handlers : task[h].job # j
    /\ broker' = [broker EXCEPT ![j] = In("ready")]
    /\ UNCHANGED <<database, pc, task, ofJobs, faults>>

(* A connection breaks.  The broker notices first: until the worker does,
   its handlers go on.                                                     *)
Disconnect(w) ==
    /\ up[w]
    /\ cuts < MaxCuts
    /\ Requeue(w)
    /\ up' = [up EXCEPT ![w] = FALSE]
    /\ cuts' = cuts + 1
    /\ mishap' = TRUE
    /\ UNCHANGED <<database, pc, task, ofJobs>>

(* The error event nobody listens to ends the process.  A process that ends
   of itself, because a query of its failed, is a Disconnect and a Restart.  *)
Restart(w) ==
    /\ ~up[w]
    /\ Die(w)
    /\ UNCHANGED <<database, ofJobs>>

(* ack and nack are written to the channel.  On a broken connection the
   call throws, from the catch block too, or the bytes go nowhere.         *)
Reply(h, answer, l, g) ==
    LET w == task[h].worker IN
    \/ /\ up[w]
       /\ broker' = [broker EXCEPT ![task[h].job].answer = answer]
       /\ Go(h, l, g)
       /\ UNCHANGED faults
    \/ ~up[w] /\ Die(w)
    \/ /\ ~up[w]
       /\ Go(h, l, g)
       /\ UNCHANGED <<broker, faults>>

-----------------------------------------------------------------------------
(* The consumer callback *)

(* No meta: a DEAD row under a new id. *)
SaveAsInvalid(h) ==
    /\ pc[h] = "invalid"
    /\ invalid' = [invalid EXCEPT ![task[h].job] = @ + 1]
    /\ Go(h, "ackInvalid", task[h])
    /\ UNCHANGED <<broker, tasks, ofJobs, faults>>

AckInvalid(h) ==
    /\ pc[h] = "ackInvalid"
    /\ Reply(h, "ack", "idle", NoDelivery)
    /\ UNCHANGED <<database, ofJobs>>

(* 1 in a new task, one more in one that was found. *)
NextAttempt(row) == row.attempts + 1

(* process: findOne, and a task for this attempt, in memory only. *)
FindTask(h) ==
    LET row == tasks[task[h].job] IN
    /\ pc[h] = "find"
    /\ Go(h, "dispatch", [task[h] EXCEPT !.read = row.status,
                                         !.attempts = NextAttempt(row)])
    /\ UNCHANGED <<broker, database, ofJobs, faults>>

(* A mutant of MaxAttemptsReached: off by one. *)
MaxAttemptsReached_Early(attempts) == attempts + 1 >= MaxAttempts

MaxAttemptsReached(attempts) == attempts >= MaxAttempts

(* What the task is marked as: success, or what the catch block decides. *)
Verdict(outcome, attempts) ==
    CASE outcome = "ok" -> "SUCCESS"
      [] outcome # "ok" /\ MaxAttemptsReached(attempts) -> "DEAD"
      [] outcome = "invalid" /\ ~MaxAttemptsReached(attempts) -> "INVALID_PAYLOAD"
      [] OTHER -> "FAIL"

(* The job runs: it succeeds, throws, or refuses its payload. *)
Dispatch(h) ==
    LET g == task[h] IN
    /\ pc[h] = "dispatch"
    /\ \E outcome \in Outcomes :
          /\ Go(h, "answer", [g EXCEPT !.status = Verdict(outcome, g.attempts)])
          /\ seen' = [seen EXCEPT ![g.job] = @ \cup ({outcome} \ {"error"})]
    /\ runs' = [runs EXCEPT ![g.job] = @ + 1]
    /\ UNCHANGED <<broker, database, queue, faults>>

(* A mutant of AnswerBroker: a failure is not answered. *)
AnswerBroker_Silent(h) ==
    /\ pc[h] = "answer"
    /\ Reply(h, IF task[h].status = "FAIL" THEN "none" ELSE "ack", "save", task[h])
    /\ UNCHANGED <<database, ofJobs>>

(* handleSuccess and handleDead acknowledge, handleFail rejects. *)
AnswerBroker(h) ==
    /\ pc[h] = "answer"
    /\ Reply(h, IF task[h].status = "FAIL" THEN "nack" ELSE "ack", "save", task[h])
    /\ UNCHANGED <<database, ofJobs>>

(* A mutant of Update: the whole row is written. *)
Update_Whole(row, g) == [status |-> g.status, attempts |-> g.attempts]

(* UPDATE with what differs from the row as it was read. *)
Update(row, g) ==
    [status   |-> IF g.status = g.read THEN row.status ELSE g.status,
     attempts |-> g.attempts]

(* INSERT for a task that was not found, and a duplicate key if somebody
   else has inserted it since.                                             *)
SaveTask(h) ==
    LET g == task[h]
        row == tasks[g.job]
        Saved(new) == /\ tasks' = [tasks EXCEPT ![g.job] = new]
                      /\ Go(h, "idle", NoDelivery)
                      /\ UNCHANGED <<broker, faults>>
    IN
    /\ pc[h] = "save"
    /\ \/ /\ g.read = "absent" /\ row.status = "absent"
          /\ Saved([status |-> g.status, attempts |-> g.attempts])
       \/ /\ g.read = "absent" /\ row.status # "absent"
          /\ Die(g.worker)
          /\ UNCHANGED tasks
       \/ /\ g.read # "absent"
          /\ Saved(Update(row, g))
    /\ UNCHANGED <<invalid, ofJobs>>

-----------------------------------------------------------------------------
Handle(h) == \/ SaveAsInvalid(h) \/ AckInvalid(h)
             \/ FindTask(h) \/ Dispatch(h) \/ AnswerBroker(h) \/ SaveTask(h)

Next ==
    \/ \E j \in Jobs, q \in Queues : Publish(j, q)
    \/ \E j \in Jobs : SettleAnswer(j) \/ RetryExpires(j)
    \/ \E j \in Jobs, w \in Workers, h \in Handlers : Deliver(j, w, h)
    \/ \E h \in Handlers : Handle(h)
    \/ \E w \in Workers : Disconnect(w) \/ Restart(w)

Spec == Init /\ [][Next]_vars

(* RabbitMQ delivers to whoever listens and expires messages in time, jobs
   and queries end, and a process that has lost its connection is replaced. *)
Fairness ==
    /\ \A j \in Jobs :
          /\ WF_vars(\E w \in Workers, h \in Handlers : Deliver(j, w, h))
          /\ WF_vars(SettleAnswer(j))
          /\ WF_vars(RetryExpires(j))
    /\ \A h \in Handlers : WF_vars(Handle(h))
    /\ \A w \in Workers : WF_vars(Restart(w))

FairSpec == Spec /\ Fairness

-----------------------------------------------------------------------------
TypeOK ==
    /\ queue \in [Jobs -> Queues \cup {None}]
    /\ broker \in [Jobs -> BrokerState]
    /\ tasks \in [Jobs -> TaskRow]
    /\ invalid \in [Jobs -> Nat]
    /\ up \in [Workers -> BOOLEAN]
    /\ pc \in [Handlers -> Labels]
    /\ task \in [Handlers -> HandlerState]
    /\ runs \in [Jobs -> Nat]
    /\ seen \in [Jobs -> SUBSET {"ok", "invalid"}]
    /\ cuts \in Nat
    /\ mishap \in BOOLEAN

Settled(j) == broker[j].at = "gone" /\ \A h \in Handlers : task[h].job # j

(* A message leaves the broker only when its job has succeeded, has refused
   its payload, has been tried as often as it may, or is on record as
   unreadable: the broker is answered last, whatever breaks.               *)
NeverLost ==
    \A j \in Jobs : broker[j].at = "gone" =>
        IF queue[j] \in WithMeta
        THEN seen[j] # {} \/ runs[j] >= MaxAttempts
        ELSE invalid[j] > 0

(* No attempt is recorded that was not made. *)
AttemptsHonest == \A j \in Jobs : tasks[j].attempts <= runs[j]

(* The row of a job counts no attempt that was not made; and unless a process
   died, the row of a job that is through says SUCCESS if and only if the job
   has succeeded, and nothing calls for a retry.  Attempts are counted in
   memory and saved late, and with immediate redelivery several deliveries
   may save the row in any order.                                          *)
RecordTruth ==
    /\ AttemptsHonest
    /\ \A j \in Jobs : Settled(j) /\ queue[j] \in WithMeta /\ ~mishap =>
        /\ tasks[j].status \in MessageStatus \ {"FAIL"}
        /\ tasks[j].status = "SUCCESS" <=> "ok" \in seen[j]

(* Where failed jobs wait in a retry queue, and unless a process died, no
   job runs more often than it may.                                        *)
RunsBounded ==
    \A j \in Jobs :
        ~mishap /\ broker[j].at # "new" /\ RetryConfig[queue[j]] = "enabled"
        => runs[j] <= MaxAttempts

(* Every job published is dealt with, though overlapping deliveries may set
   its attempts back.                                                      *)
JobsSettle == \A j \in Jobs : broker[j].at = "ready" ~> Settled(j)

(* retry.disable is false by default, says worker.constant.ts: a job that
   fails on a queue without configuration waits before it runs again.       *)
BacksOff ==
    [][\A j \in Jobs :
         broker[j].answer = "nack" /\ RetryConfig[queue[j]] = "unset"
         => broker'[j].at # "ready"]_vars
=============================================================================
