------------------------------- MODULE WorkQueue -------------------------------
(***************************************************************************)
(* One BullMQ job as queue-producer.ts adds it and handlers.ts processes   *)
(* it: it waits, a worker takes it, and it ends or waits for a retry.  The *)
(* queue believes that a worker holds a job until it finishes it or the    *)
(* job's lock expires (a stall).                                           *)
(***************************************************************************)
EXTENDS Naturals

CONSTANTS
    MaxAttempts, \* the attempts option the job is added with
    MaxStalls,   \* stalls after which the queue gives a job up (BullMQ: 1)
    None         \* no holder

Jobs(workers) ==
    [state : {"none", "waiting", "active"}, made : 0..MaxAttempts,
     stalls : 0..MaxStalls, holder : workers \cup {None}]

\* A job that is over is removed: removeOnComplete and removeOnFail.
NoJob == [state |-> "none", made |-> 0, stalls |-> 0, holder |-> None]

\* enqueue: a job that still waits or runs under the same id is kept.
Enqueued(job) == IF job.state = "none" THEN [job EXCEPT !.state = "waiting"] ELSE job

Taken(job, worker) == [job EXCEPT !.state = "active", !.holder = worker]

\* isFinalJobAttempt, when the job is taken
FinalAttempt(job) == job.made + 1 >= MaxAttempts

\* The holder finished the job, or failed and has it retried.
Ended(job, retry) ==
    IF retry THEN [job EXCEPT !.state = "waiting", !.made = @ + 1, !.holder = None]
             ELSE NoJob

\* The lock expired: the queue hands the job out again, or gives it up.
AfterStall(job) ==
    IF job.stalls >= MaxStalls
        THEN NoJob
        ELSE [job EXCEPT !.state = "waiting", !.stalls = @ + 1, !.holder = None]
================================================================================
