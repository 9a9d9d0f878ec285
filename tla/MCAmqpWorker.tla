---------------------------- MODULE MCAmqpWorker ----------------------------
(* AmqpWorker for TLC.  hot is a queue like those of worker.constant.ts,
   which leave retry alone; cool enables it; jobs on cron are published by
   app.cron.ts, without meta.  Jobs, workers and handlers are
   interchangeable.                                                         *)
EXTENDS AmqpWorker, TLC

CONSTANTS hot, cool, cron

RetryConfigs == [q \in Queues |-> IF q = cool THEN "enabled" ELSE "unset"]

Symmetry == Permutations(Jobs) \cup Permutations(Workers) \cup Permutations(Handlers)
=============================================================================
