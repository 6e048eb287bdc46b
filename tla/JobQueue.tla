------------------------------ MODULE JobQueue ------------------------------
(***************************************************************************)
(* What nest-forge relies on of a BullMQ queue (external): the log queue   *)
(* and the mail queue are instances of it.                                 *)
(*                                                                         *)
(* A worker takes a waiting job under a lock.  A failed attempt is retried *)
(* after a backoff, until the attempts are used up.  A lock that expires,  *)
(* because its process died or was too slow, puts the job back once, and   *)
(* the slow worker may still be at it: delivery is at least once.  Its     *)
(* late answer changes nothing, since it no longer holds the lock.         *)
(*                                                                         *)
(* Left out: the order of waiting jobs (a worker takes any of them), the   *)
(* length of a backoff, and the removal of ended jobs: nothing reads them. *)
(***************************************************************************)
EXTENDS Naturals

CONSTANTS Jobs, Workers, Attempts, None

VARIABLE job  \* job[j]: state of j, its failed attempts, whether it stalled,
              \* and the worker that has its lock

JobStates == {"unused", "waiting", "active", "delayed", "completed", "failed"}

Unused == [state |-> "unused", failures |-> 0, stalled |-> FALSE, lock |-> None]

TypeOK == job \in [Jobs -> [state : JobStates, failures : 0 .. Attempts,
                            stalled : BOOLEAN, lock : Workers \cup {None}]]

Init == job = [j \in Jobs |-> Unused]

Is(j, state) == job[j].state = state
Ended(j)     == job[j].state \in {"completed", "failed"}
Locked(j, w) == Is(j, "active") /\ job[j].lock = w

Put(j, state, failures, stalled, lock) ==
    job' = [job EXCEPT ![j] = [state |-> state, failures |-> failures,
                               stalled |-> stalled, lock |-> lock]]

Add(j) ==
    /\ Is(j, "unused")
    /\ Put(j, "waiting", 0, FALSE, None)

Take(j, w) ==
    /\ Is(j, "waiting")
    /\ Put(j, "active", job[j].failures, job[j].stalled, w)

Complete(j, w) ==
    IF Locked(j, w)
    THEN Put(j, "completed", job[j].failures, job[j].stalled, None)
    ELSE UNCHANGED job

Retry(j, w) ==
    IF Locked(j, w)
    THEN Put(j, IF job[j].failures + 1 >= Attempts THEN "failed" ELSE "delayed",
             job[j].failures + 1, job[j].stalled, None)
    ELSE UNCHANGED job

BackoffEnds(j) ==
    /\ Is(j, "delayed")
    /\ Put(j, "waiting", job[j].failures, job[j].stalled, None)

\* Mutant: a job may stall again and again.
StallAgain(j) ==
    /\ Is(j, "active")
    /\ Put(j, "waiting", job[j].failures, TRUE, None)

\* The default maxStalledCount of a worker is one.
Stall(j) ==
    /\ Is(j, "active")
    /\ Put(j, IF job[j].stalled THEN "failed" ELSE "waiting",
           job[j].failures, TRUE, None)

=============================================================================
