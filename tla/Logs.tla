-------------------------------- MODULE Logs --------------------------------
(***************************************************************************)
(* The activity and audit logs of nest-forge: LogQueueService, LogProcessor*)
(* and the two log services.                                               *)
(*                                                                         *)
(* A service enqueues a job and goes on whether or not that succeeds.  The *)
(* worker of some process inserts the row; the acknowledgement is a        *)
(* separate step, so a job may be inserted and run again.                  *)
(*                                                                         *)
(* Faults (a statement or a call that fails, a process that dies, a lock   *)
(* that expires under a live worker) are counted by faults, at most        *)
(* MaxFaults of them.  Left out: the columns of a row, and the queries.    *)
(***************************************************************************)
EXTENDS Naturals, FiniteSets

CONSTANTS
    AuditJobs, ActivityJobs,  \* log entries, each with its job
    UnknownUsers,  \* activity entries with the user id 'unknown'
    Processes,     \* application processes, each with a worker per queue
    Attempts,      \* LOG_JOB_ATTEMPTS and EMAIL_NOTIFICATION_JOB_ATTEMPTS, 3
    MaxFaults,     \* bound on the faults
    None

LogJobs == AuditJobs \cup ActivityJobs

ASSUME UnknownUsersAreActivity == UnknownUsers \subseteq ActivityJobs
ASSUME NoneIsNoEntry == None \notin LogJobs
ASSUME AttemptsPositive == Attempts \in Nat \ {0}
ASSUME MaxFaultsNatural == MaxFaults \in Nat
ASSUME ProcessesAreFinite == IsFiniteSet(Processes)

VARIABLES
    logQueue,   \* the jobs of LOG_QUEUE
    logWorker,  \* logWorker[p]: the job the worker of p runs, and how far
    logRow,     \* logRow[j]: rows inserted for entry j, and whether they are
                \* past the retention
    faults,
    \* History variable: no action of the code reads it.
    unsure      \* jobs that stalled, or whose worker lost the answer

logVars == <<logQueue, logWorker, logRow, faults, unsure>>

LogQueue == INSTANCE JobQueue WITH
    job <- logQueue, Jobs <- LogJobs, Workers <- Processes

LogIdle == [pc |-> "idle", job |-> None]

LogTypeOK ==
    /\ LogQueue!TypeOK
    /\ logWorker \in [Processes -> [pc : {"idle", "insert", "ack", "error"},
                                    job : LogJobs \cup {None}]]
    /\ \A p \in Processes : logWorker[p].pc = "idle" <=> logWorker[p].job = None
    /\ logRow \in [LogJobs -> [rows : Nat, old : BOOLEAN]]
    /\ faults \in 0 .. MaxFaults

LogInit ==
    /\ LogQueue!Init
    /\ logWorker = [p \in Processes |-> LogIdle]
    /\ logRow = [j \in LogJobs |-> [rows |-> 0, old |-> FALSE]]
    /\ faults = 0

Fault == faults < MaxFaults /\ faults' = faults + 1

-----------------------------------------------------------------------------
(* Enqueueing. *)

\* enqueueActivityLog, enqueueAuditLog: a failure is caught and logged.
Enqueue(j) ==
    \/ LogQueue!Add(j) /\ UNCHANGED faults
    \/ Fault /\ UNCHANGED logQueue

\* userLogin refuses a phone it does not know, or a wrong password.
LoginFails(j) ==
    /\ LogQueue!Is(j, "unused")
    /\ Enqueue(j)
    /\ UNCHANGED <<logWorker, logRow, unsure>>

-----------------------------------------------------------------------------
(* The worker of process p. *)

TakeLog(p, j) ==
    /\ logWorker[p].pc = "idle"
    /\ LogQueue!Take(j, p)
    /\ logWorker' = [logWorker EXCEPT ![p] = [pc |-> "insert", job |-> j]]
    /\ UNCHANGED <<logRow, faults, unsure>>

\* Mutant: no break after the first case, the entry is inserted twice.
SaveTwice(j) == logRow' = [logRow EXCEPT ![j].rows = @ + 2]

\* create: one INSERT into the table of the entry.
Save(j) == logRow' = [logRow EXCEPT ![j].rows = @ + 1]

\* Mutant: create is not awaited, a refused insert is acknowledged.
ProcessUnawaited(p) == "ack"

\* process throws what create throws.
ProcessRefused(p) == "error"

\* user_id is a uuid that references users: 'unknown' is refused.  An INSERT
\* whose connection breaks has either happened or not.
Process(p) ==
    LET j == logWorker[p].job
        Goto(pc) == logWorker' = [logWorker EXCEPT ![p].pc = pc]
    IN  /\ logWorker[p].pc = "insert"
        /\ \/ j \notin UnknownUsers /\ Save(j) /\ Goto("ack")
              /\ UNCHANGED <<faults, unsure>>
           \/ j \in UnknownUsers /\ Goto(ProcessRefused(p))
              /\ UNCHANGED <<logRow, faults, unsure>>
           \/ Fault /\ Goto(ProcessRefused(p)) /\ UNCHANGED <<logRow, unsure>>
           \/ j \notin UnknownUsers /\ Fault /\ Save(j) /\ Goto("error")
              /\ unsure' = unsure \cup {j}
        /\ UNCHANGED logQueue

\* The attempt ends: the job is done, or it failed once more.
EndLog(p) ==
    /\ \/ logWorker[p].pc = "ack"   /\ LogQueue!Complete(logWorker[p].job, p)
       \/ logWorker[p].pc = "error" /\ LogQueue!Retry(logWorker[p].job, p)
    /\ logWorker' = [logWorker EXCEPT ![p] = LogIdle]
    /\ UNCHANGED <<logRow, faults, unsure>>

BackoffLog(j) ==
    /\ LogQueue!BackoffEnds(j)
    /\ UNCHANGED <<logWorker, logRow, faults, unsure>>

LogHeld(j) == \E p \in Processes : logWorker[p].job = j

\* The lock of j expires; nobody is at a job whose process died.
StallLog(j) ==
    /\ LogQueue!Stall(j)
    /\ IF LogHeld(j) THEN Fault ELSE UNCHANGED faults
    /\ unsure' = unsure \cup {j}
    /\ UNCHANGED <<logWorker, logRow>>

-----------------------------------------------------------------------------
(* Retention. *)

\* LOG_RETENTION_DAYS pass, long after every attempt at j.
AgeLog(j) ==
    /\ logRow[j].rows > 0 /\ ~LogHeld(j) /\ LogQueue!Ended(j)
    /\ logRow' = [logRow EXCEPT ![j].old = TRUE]
    /\ UNCHANGED <<logQueue, logWorker, faults, unsure>>

\* The DELETE both purges run, on the table of their service.
PurgeOldLogs(table) ==
    /\ logRow' = [j \in LogJobs |-> IF j \in table /\ logRow[j].old
                                    THEN [logRow[j] EXCEPT !.rows = 0]
                                    ELSE logRow[j]]
    /\ UNCHANGED <<logQueue, logWorker, faults, unsure>>

PurgeActivityLogs == PurgeOldLogs(ActivityJobs)
PurgeAuditLogs    == PurgeOldLogs(AuditJobs)

LogNext ==
    \/ \E j \in ActivityJobs : LoginFails(j)
    \/ \E p \in Processes, j \in LogJobs : TakeLog(p, j)
    \/ \E p \in Processes : Process(p) \/ EndLog(p)
    \/ \E j \in LogJobs : BackoffLog(j) \/ StallLog(j) \/ AgeLog(j)
    \/ PurgeActivityLogs \/ PurgeAuditLogs

=============================================================================
