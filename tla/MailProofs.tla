----------------------------- MODULE MailProofs -----------------------------
(***************************************************************************)
(* What holds of Mail, and of Logs in it, for every number of processes,   *)
(* jobs, writers, rows, attempts and faults: type correctness, that a job  *)
(* that is acknowledged was done and is done twice only after a stall or a *)
(* lost answer, and never more often than it has attempts and one stall,   *)
(* that the audit entry of a save nobody disturbed is true, and that mails *)
(* follow settings that were left alone.                                   *)
(***************************************************************************)
EXTENDS Mail, FiniteSetTheorems, TLAPS

JobRow == [state : {"unused", "waiting", "active", "delayed", "completed", "failed"},
           failures : 0 .. Attempts, stalled : BOOLEAN,
           lock : Processes \cup {None}]

LogWorkerRow == [pc : {"idle", "insert", "ack", "error"}, job : LogJobs \cup {None}]

MailWorkerRow ==
    [pc : {"idle", "config", "select", "resume", "send", "ack", "error"},
     job : MailJobs \cup {None}, stage : {"transporter", "from"},
     asked : 0 .. TTL, rows : Rows, transporter : Rows]

WriterRow == [pc : {"ready", "find", "save", "result", "failed", "done"},
              key : Keys, exists : BOOLEAN, old : Rows]

AuditRow == [status : {"NONE", "SUCCESS", "FAILURE"}, old : Rows, new : Rows]
CacheRow == [filled : BOOLEAN, rows : Rows, age : 0 .. TTL]

\* A job that has not ended has attempts left.
Trying(q) == q.state \in {"completed", "failed"} \/ q.failures < Attempts

Shaped(h) == /\ h.pc = "idle" <=> h.job = None
             /\ h.stage = "from" => Enabled(h.transporter)

LogInv ==
    /\ logQueue \in [LogJobs -> JobRow]
    /\ \A j \in LogJobs : Trying(logQueue[j])
    /\ logWorker \in [Processes -> LogWorkerRow]
    /\ \A p \in Processes : logWorker[p].pc = "idle" <=> logWorker[p].job = None
    /\ logRow \in [LogJobs -> [rows : Nat, old : BOOLEAN]]
    /\ faults \in 0 .. MaxFaults

MailInv ==
    /\ mailQueue \in [MailJobs -> JobRow]
    /\ \A m \in MailJobs : Trying(mailQueue[m])
    /\ mailWorker \in [Processes -> MailWorkerRow]
    /\ \A p \in Processes : Shaped(mailWorker[p])
    /\ cache \in [Processes -> CacheRow]
    /\ sent \in [MailJobs -> Nat]

WriterInv ==
    /\ setting \in Rows
    /\ writer \in [Writers -> WriterRow]
    /\ audit \in [AuditJobs -> AuditRow]
    /\ alone \subseteq Writers
    /\ before \in [AuditJobs -> Rows]
    /\ settled \in [version : Versions \cup {None}, age : 0 .. TTL]

TypeInv == LogInv /\ MailInv /\ WriterInv /\ unsure \subseteq LogJobs \cup MailJobs

USE DEF Versions, Writers

LEMMA TypeInvIsTypeOK == TypeInv => TypeOK
  BY DEF TypeInv, LogInv, MailInv, WriterInv, TypeOK, LogTypeOK, LogQueue!TypeOK,
         MailQueue!TypeOK, LogQueue!JobStates, MailQueue!JobStates, JobRow,
         LogWorkerRow, MailWorkerRow, WriterRow, AuditRow, CacheRow, Shaped

-----------------------------------------------------------------------------
(* Type correctness. *)

LEMMA Numbers == /\ KeyCount \in Nat /\ KeyCount > 0 /\ TTL \in Nat /\ TTL > 0
                 /\ Attempts \in Nat /\ Attempts > 0 /\ MaxFaults \in Nat
                 /\ 1 \in Keys /\ KeyCount \in Keys /\ 0 \in 0 .. TTL
  BY KeyCountPositive, TTLPositive, AttemptsPositive, MaxFaultsNatural DEF Keys

LEMMA Nones == None \notin LogJobs /\ None \notin MailJobs /\ None \notin Versions
  BY NoneIsNoEntry, NoneIsNoMail, NoneIsNoVersion

LEMMA RowFacts == /\ NoRows \in Rows /\ ~Enabled(NoRows)
                  /\ \A v \in Versions \cup {None} : All(v) \in Rows
                  /\ \A v : \A k \in Keys : All(v)[k] = v
                  /\ \A rows \in Rows : Auditable(rows) \in Rows
                  /\ Auditable(NoRows) = NoRows
  BY Numbers, NoneIsNoVersion, EnablingAreVersions DEF NoRows, Rows, All, Enabled, Auditable

LEMMA IdleRows ==
    /\ Ready \in WriterRow /\ Done \in WriterRow
    /\ MailIdle \in MailWorkerRow /\ Shaped(MailIdle) /\ MailIdle.pc = "idle"
    /\ NoCache \in CacheRow
    /\ LogIdle \in LogWorkerRow
<1>1. NoRows \in Rows /\ 1 \in Keys /\ 0 \in 0 .. TTL
  BY Numbers, RowFacts
<1>2. Ready \in WriterRow /\ Done \in WriterRow
  BY <1>1 DEF Ready, Done, WriterRow
<1>3. MailIdle \in MailWorkerRow /\ Shaped(MailIdle) /\ MailIdle.pc = "idle"
  BY <1>1 DEF MailIdle, MailWorkerRow, Shaped
<1>4. NoCache \in CacheRow
  BY <1>1 DEF NoCache, CacheRow
<1>5. LogIdle \in LogWorkerRow
  BY DEF LogIdle, LogWorkerRow
<1> QED
  BY <1>2, <1>3, <1>4, <1>5

LEMMA TypeInit == Init => TypeInv
<1> SUFFICES ASSUME Init PROVE TypeInv
  OBVIOUS
<1>1. LogInv
  BY Numbers, IdleRows DEF Init, LogInit, LogInv, LogQueue!Init, LogQueue!Unused,
                           JobRow, Trying, LogIdle
<1>2. MailInv
  BY Numbers, IdleRows DEF Init, MailInv, MailQueue!Init, MailQueue!Unused, JobRow, Trying
<1>3. WriterInv
  <2>1. NoRows \in Rows /\ All(Seeded) \in Rows /\ 0 \in 0 .. TTL
    BY Numbers, RowFacts
  <2>2. audit \in [AuditJobs -> AuditRow]
    BY <2>1 DEF Init, AuditRow
  <2>3. settled \in [version : Versions \cup {None}, age : 0 .. TTL]
    BY <2>1 DEF Init, Unsettled
  <2> QED
    BY <2>1, <2>2, <2>3, IdleRows DEF Init, WriterInv
<1> QED
  BY <1>1, <1>2, <1>3 DEF Init, TypeInv

-----------------------------------------------------------------------------
\* What every call on a queue leaves behind.
LogQueueOK  == /\ logQueue' \in [LogJobs -> JobRow]
               /\ \A x \in LogJobs : Trying(logQueue'[x])
MailQueueOK == /\ mailQueue' \in [MailJobs -> JobRow]
               /\ \A x \in MailJobs : Trying(mailQueue'[x])

States == {"unused", "waiting", "active", "delayed", "completed", "failed"}

LEMMA LogPut ==
    ASSUME LogInv, NEW j \in LogJobs, NEW state \in States, NEW failures \in 0 .. Attempts,
           NEW stalled \in BOOLEAN, NEW lock \in Processes \cup {None},
           state \in {"completed", "failed"} \/ failures < Attempts,
           LogQueue!Put(j, state, failures, stalled, lock)
    PROVE  LogQueueOK
<1> DEFINE q == [state |-> state, failures |-> failures, stalled |-> stalled, lock |-> lock]
<1>1. q \in JobRow /\ Trying(q)
  BY DEF JobRow, States, Trying
<1>2. logQueue' = [logQueue EXCEPT ![j] = q]
  BY DEF LogQueue!Put
<1> QED
  BY <1>1, <1>2 DEF LogInv, LogQueueOK

LEMMA LogQueueSteps ==
    ASSUME LogInv, NEW j \in LogJobs, NEW p,
           \/ LogQueue!Add(j) \/ (p \in Processes /\ LogQueue!Take(j, p))
           \/ LogQueue!Complete(j, p)
           \/ LogQueue!Retry(j, p) \/ LogQueue!BackoffEnds(j) \/ LogQueue!Stall(j)
    PROVE  LogQueueOK
<1>1. /\ logQueue[j].failures \in 0 .. Attempts /\ logQueue[j].stalled \in BOOLEAN
      /\ logQueue[j].state \in {"completed", "failed"} \/ logQueue[j].failures < Attempts
  BY DEF LogInv, JobRow, Trying
<1>2. CASE LogQueue!Add(j)
  <2>1. 0 \in 0 .. Attempts /\ 0 < Attempts
    BY Numbers
  <2>2. LogQueue!Put(j, "waiting", 0, FALSE, None)
    BY <1>2 DEF LogQueue!Add
  <2> QED
    BY <2>1, <2>2, LogPut DEF States
<1>3. CASE p \in Processes /\ LogQueue!Take(j, p)
  BY <1>1, <1>3, LogPut DEF LogQueue!Take, LogQueue!Is, States
<1>4. CASE LogQueue!Complete(j, p)
  BY <1>1, <1>4, LogPut DEF LogQueue!Complete, States, LogInv, LogQueueOK
<1>5. CASE LogQueue!Retry(j, p)
  <2>1. CASE LogQueue!Locked(j, p)
    <3> DEFINE n == logQueue[j].failures + 1
    <3> DEFINE state == IF n >= Attempts THEN "failed" ELSE "delayed"
    <3>1. n \in 0 .. Attempts /\ (n >= Attempts \/ n < Attempts)
      BY <1>1, <2>1, Numbers DEF LogQueue!Locked, LogQueue!Is
    <3>2. LogQueue!Put(j, state, n, logQueue[j].stalled, None)
      BY <1>5, <2>1 DEF LogQueue!Retry
    <3>3. state \in States /\ (state \in {"completed", "failed"} \/ n < Attempts)
      BY <3>1 DEF States
    <3> HIDE DEF n, state
    <3> QED
      BY <1>1, <3>1, <3>2, <3>3, LogPut
  <2> QED
    BY <1>5, <2>1 DEF LogQueue!Retry, LogInv, LogQueueOK
<1>6. CASE LogQueue!BackoffEnds(j)
  BY <1>1, <1>6, LogPut DEF LogQueue!BackoffEnds, LogQueue!Is, States
<1>7. CASE LogQueue!Stall(j)
  BY <1>1, <1>7, LogPut DEF LogQueue!Stall, LogQueue!Is, States
<1> QED
  BY <1>2, <1>3, <1>4, <1>5, <1>6, <1>7

LEMMA MailPut ==
    ASSUME MailInv, NEW m \in MailJobs, NEW state \in States, NEW failures \in 0 .. Attempts,
           NEW stalled \in BOOLEAN, NEW lock \in Processes \cup {None},
           state \in {"completed", "failed"} \/ failures < Attempts,
           MailQueue!Put(m, state, failures, stalled, lock)
    PROVE  MailQueueOK
<1> DEFINE q == [state |-> state, failures |-> failures, stalled |-> stalled, lock |-> lock]
<1>1. q \in JobRow /\ Trying(q)
  BY DEF JobRow, States, Trying
<1>2. mailQueue' = [mailQueue EXCEPT ![m] = q]
  BY DEF MailQueue!Put
<1> QED
  BY <1>1, <1>2 DEF MailInv, MailQueueOK

LEMMA MailQueueSteps ==
    ASSUME MailInv, NEW m \in MailJobs, NEW p,
           \/ MailQueue!Add(m) \/ (p \in Processes /\ MailQueue!Take(m, p))
           \/ MailQueue!Complete(m, p)
           \/ MailQueue!Retry(m, p) \/ MailQueue!BackoffEnds(m) \/ MailQueue!Stall(m)
    PROVE  MailQueueOK
<1>1. /\ mailQueue[m].failures \in 0 .. Attempts /\ mailQueue[m].stalled \in BOOLEAN
      /\ mailQueue[m].state \in {"completed", "failed"} \/ mailQueue[m].failures < Attempts
  BY DEF MailInv, JobRow, Trying
<1>2. CASE MailQueue!Add(m)
  <2>1. 0 \in 0 .. Attempts /\ 0 < Attempts
    BY Numbers
  <2>2. MailQueue!Put(m, "waiting", 0, FALSE, None)
    BY <1>2 DEF MailQueue!Add
  <2> QED
    BY <2>1, <2>2, MailPut DEF States
<1>3. CASE p \in Processes /\ MailQueue!Take(m, p)
  BY <1>1, <1>3, MailPut DEF MailQueue!Take, MailQueue!Is, States
<1>4. CASE MailQueue!Complete(m, p)
  BY <1>1, <1>4, MailPut DEF MailQueue!Complete, States, MailInv, MailQueueOK
<1>5. CASE MailQueue!Retry(m, p)
  <2>1. CASE MailQueue!Locked(m, p)
    <3> DEFINE n == mailQueue[m].failures + 1
    <3> DEFINE state == IF n >= Attempts THEN "failed" ELSE "delayed"
    <3>1. n \in 0 .. Attempts /\ (n >= Attempts \/ n < Attempts)
      BY <1>1, <2>1, Numbers DEF MailQueue!Locked, MailQueue!Is
    <3>2. MailQueue!Put(m, state, n, mailQueue[m].stalled, None)
      BY <1>5, <2>1 DEF MailQueue!Retry
    <3>3. state \in States /\ (state \in {"completed", "failed"} \/ n < Attempts)
      BY <3>1 DEF States
    <3> HIDE DEF n, state
    <3> QED
      BY <1>1, <3>1, <3>2, <3>3, MailPut
  <2> QED
    BY <1>5, <2>1 DEF MailQueue!Retry, MailInv, MailQueueOK
<1>6. CASE MailQueue!BackoffEnds(m)
  BY <1>1, <1>6, MailPut DEF MailQueue!BackoffEnds, MailQueue!Is, States
<1>7. CASE MailQueue!Stall(m)
  BY <1>1, <1>7, MailPut DEF MailQueue!Stall, MailQueue!Is, States
<1> QED
  BY <1>2, <1>3, <1>4, <1>5, <1>6, <1>7

-----------------------------------------------------------------------------
\* The steps of the log queue.

LEMMA FaultCounts ==
    ASSUME faults \in 0 .. MaxFaults, Fault \/ UNCHANGED faults
    PROVE  faults' \in 0 .. MaxFaults /\ faults' >= faults
  BY Numbers DEF Fault

LEMMA EnqueueTyped ==
    ASSUME LogInv, NEW j \in LogJobs, Enqueue(j)
    PROVE  LogQueueOK /\ faults' \in 0 .. MaxFaults /\ faults' >= faults
<1>1. CASE LogQueue!Add(j) /\ UNCHANGED faults
  BY <1>1, LogQueueSteps, FaultCounts DEF LogInv
<1>2. CASE Fault /\ UNCHANGED logQueue
  BY <1>2, FaultCounts DEF LogInv, LogQueueOK
<1> QED
  BY <1>1, <1>2 DEF Enqueue

Unsure == unsure \subseteq LogJobs \cup MailJobs

LEMMA LogSteps ==
    ASSUME LogInv, Unsure, LogNext
    PROVE  LogInv' /\ Unsure' /\ faults' >= faults
<1> USE DEF LogJobs
<1>1. ASSUME NEW j \in ActivityJobs, LoginFails(j)
      PROVE  LogInv' /\ Unsure' /\ faults' >= faults
  BY <1>1, EnqueueTyped DEF LoginFails, LogInv, LogQueueOK, Unsure
<1>2. ASSUME NEW p \in Processes, NEW j \in LogJobs, TakeLog(p, j)
      PROVE  LogInv' /\ Unsure' /\ faults' >= faults
  <2>1. LogQueueOK
    BY <1>2, LogQueueSteps DEF TakeLog
  <2>2. [pc |-> "insert", job |-> j] \in LogWorkerRow
    BY DEF LogWorkerRow
  <2>3. /\ logWorker' \in [Processes -> LogWorkerRow]
        /\ \A x \in Processes : logWorker'[x].pc = "idle" <=> logWorker'[x].job = None
    BY <1>2, <2>2, Nones DEF TakeLog, LogInv
  <2> QED
    BY <1>2, <2>1, <2>3 DEF TakeLog, LogInv, LogQueueOK, Unsure
<1>3. ASSUME NEW p \in Processes, Process(p)
      PROVE  LogInv' /\ Unsure' /\ faults' >= faults
  <2> DEFINE j == logWorker[p].job
  <2>1. j \in LogJobs /\ logWorker[p] \in LogWorkerRow /\ logWorker[p].pc = "insert"
    BY <1>3 DEF Process, LogInv, LogWorkerRow
  <2>2. PICK pc \in {"ack", "error"} : logWorker' = [logWorker EXCEPT ![p].pc = pc]
    BY <1>3 DEF Process, ProcessRefused
  <2>3. /\ logWorker' \in [Processes -> LogWorkerRow]
        /\ \A x \in Processes : logWorker'[x].pc = "idle" <=> logWorker'[x].job = None
    BY <2>1, <2>2 DEF LogInv, LogWorkerRow
  <2>4. logRow' \in [LogJobs -> [rows : Nat, old : BOOLEAN]]
    BY <1>3, <2>1 DEF Process, Save, LogInv
  <2>5. faults' \in 0 .. MaxFaults /\ faults' >= faults
    BY <1>3, FaultCounts DEF Process, LogInv
  <2>6. Unsure'
    BY <1>3, <2>1 DEF Process, Unsure
  <2>7. UNCHANGED logQueue
    BY <1>3 DEF Process
  <2> QED
    BY <2>3, <2>4, <2>5, <2>6, <2>7 DEF LogInv
<1>4. ASSUME NEW p \in Processes, EndLog(p)
      PROVE  LogInv' /\ Unsure' /\ faults' >= faults
  <2>1. logWorker[p].job \in LogJobs
    BY <1>4 DEF EndLog, LogInv, LogWorkerRow
  <2>2. LogQueueOK
    BY <1>4, <2>1, LogQueueSteps DEF EndLog
  <2>3. /\ logWorker' \in [Processes -> LogWorkerRow]
        /\ \A x \in Processes : logWorker'[x].pc = "idle" <=> logWorker'[x].job = None
    BY <1>4, IdleRows DEF EndLog, LogInv, LogIdle
  <2> QED
    BY <1>4, <2>2, <2>3 DEF EndLog, LogInv, LogQueueOK, Unsure
<1>5. ASSUME NEW j \in LogJobs, BackoffLog(j) \/ StallLog(j)
      PROVE  LogInv' /\ Unsure' /\ faults' >= faults
  <2>1. LogQueueOK
    BY <1>5, LogQueueSteps DEF BackoffLog, StallLog
  <2>2. faults' \in 0 .. MaxFaults /\ faults' >= faults
    BY <1>5, FaultCounts DEF BackoffLog, StallLog, LogInv
  <2> QED
    BY <1>5, <2>1, <2>2 DEF BackoffLog, StallLog, LogInv, LogQueueOK, Unsure
<1>6. ASSUME NEW j \in LogJobs, AgeLog(j)
      PROVE  LogInv' /\ Unsure' /\ faults' >= faults
  BY <1>6, FaultCounts DEF AgeLog, LogInv, Unsure
<1>7. ASSUME NEW table, PurgeOldLogs(table)
      PROVE  LogInv' /\ Unsure' /\ faults' >= faults
  <2>1. \A j \in LogJobs : [logRow[j] EXCEPT !.rows = 0] \in [rows : Nat, old : BOOLEAN]
    BY DEF LogInv
  <2>2. logRow' \in [LogJobs -> [rows : Nat, old : BOOLEAN]]
    BY <1>7, <2>1 DEF PurgeOldLogs, LogInv
  <2> QED
    BY <1>7, <2>2, FaultCounts DEF PurgeOldLogs, LogInv, Unsure
<1> QED
  BY <1>1, <1>2, <1>3, <1>4, <1>5, <1>6, <1>7
     DEF LogNext, PurgeActivityLogs, PurgeAuditLogs

-----------------------------------------------------------------------------
\* The steps of the writers.

LEMMA NextRowTyped ==
    ASSUME WriterInv, NEW w \in Writers, NextRow(w)
    PROVE  /\ writer' \in [Writers -> WriterRow]
           /\ settled' \in [version : Versions \cup {None}, age : 0 .. TTL]
<1>1. writer[w] \in WriterRow /\ writer[w].key \in Keys
  BY DEF WriterInv, WriterRow
<1>2. CASE writer[w].key < KeyCount
  <2>1. writer[w].key + 1 \in Keys
    BY <1>1, <1>2, Numbers DEF Keys
  <2>2. [writer[w] EXCEPT !.pc = "find", !.key = @ + 1] \in WriterRow
    BY <1>1, <2>1 DEF WriterRow
  <2> QED
    BY <1>2, <2>2 DEF NextRow, Hold, WriterInv
<1>3. CASE ~(writer[w].key < KeyCount) /\ w \in Seeds
  <2>1. VersionOf(w) \in Versions /\ 0 \in 0 .. TTL
    BY <1>3, Numbers DEF VersionOf
  <2> QED
    BY <1>3, <2>1, IdleRows DEF NextRow, Hold, Settle, WriterInv
<1>4. CASE ~(writer[w].key < KeyCount) /\ w \notin Seeds
  <2>1. [writer[w] EXCEPT !.pc = "result"] \in WriterRow
    BY <1>1 DEF WriterRow
  <2> QED
    BY <1>4, <2>1 DEF NextRow, Hold, WriterInv
<1> QED
  BY <1>2, <1>3, <1>4

LEMMA GivesUpTyped ==
    ASSUME WriterInv, NEW w \in Writers, GivesUp(w)
    PROVE  writer' \in [Writers -> WriterRow]
<1>1. [writer[w] EXCEPT !.pc = "failed"] \in WriterRow
  BY DEF WriterInv, WriterRow
<1> QED
  BY <1>1, IdleRows DEF GivesUp, Hold, WriterInv

\* A step of one writer.
WriterStep(w) ==
    \/ w \in AuditJobs /\ (CreateSMTPSettings(w) \/ ReadResult(w) \/ AuditFailure(w))
    \/ w \in Seeds /\ Seed(w)
    \/ FindSetting(w) \/ SaveSetting(w) \/ StatementFails(w) \/ Abort(w)

LEMMA WriterSteps ==
    ASSUME LogInv, WriterInv, Unsure, NEW w \in Writers, WriterStep(w)
    PROVE  LogInv' /\ WriterInv' /\ Unsure' /\ faults' >= faults
<1>1. CASE w \in AuditJobs /\ CreateSMTPSettings(w)
  <2>1. /\ [Ready EXCEPT !.pc = "find", !.old = setting] \in WriterRow
        /\ [Ready EXCEPT !.pc = "find"] \in WriterRow
    BY IdleRows DEF WriterInv, WriterRow
  <2>2. writer' \in [Writers -> WriterRow]
    BY <1>1, <2>1 DEF CreateSMTPSettings, Hold, WriterInv
  <2>3. Unsettled \in [version : Versions \cup {None}, age : 0 .. TTL]
    BY Numbers DEF Unsettled
  <2>4. faults' \in 0 .. MaxFaults /\ faults' >= faults
    BY <1>1, FaultCounts DEF CreateSMTPSettings, LogInv
  <2> QED
    BY <1>1, <2>2, <2>3, <2>4 DEF CreateSMTPSettings, Starts, WriterInv, LogInv, Unsure
<1>2. CASE w \in AuditJobs /\ ReadResult(w)
  <2>1. [status |-> "SUCCESS", old |-> Auditable(writer[w].old), new |-> Auditable(setting)]
          \in AuditRow
    BY <1>2, RowFacts DEF WriterInv, WriterRow, AuditRow
  <2>2. VersionOf(w) \in Versions /\ 0 \in 0 .. TTL /\ w \in LogJobs
    BY <1>2, Numbers DEF VersionOf, LogJobs
  <2>3. LogQueueOK /\ faults' \in 0 .. MaxFaults /\ faults' >= faults
    BY <1>2, <2>2, EnqueueTyped DEF ReadResult, AuditEntry
  <2>4. settled' \in [version : Versions \cup {None}, age : 0 .. TTL]
    BY <1>2, <2>2 DEF ReadResult, Settle, WriterInv
  <2> QED
    BY <1>2, <2>1, <2>3, <2>4, IdleRows
       DEF ReadResult, AuditEntry, Hold, WriterInv, LogInv, LogQueueOK, Unsure
<1>3. CASE w \in AuditJobs /\ AuditFailure(w)
  <2>1. [status |-> "FAILURE", old |-> NoRows, new |-> NoRows] \in AuditRow
    BY RowFacts DEF AuditRow
  <2>2. LogQueueOK /\ faults' \in 0 .. MaxFaults /\ faults' >= faults
    BY <1>3, EnqueueTyped DEF AuditFailure, AuditEntry, LogJobs
  <2> QED
    BY <1>3, <2>1, <2>2, IdleRows
       DEF AuditFailure, AuditEntry, Hold, WriterInv, LogInv, LogQueueOK, Unsure
<1>4. CASE w \in Seeds /\ Seed(w)
  <2>1. [Ready EXCEPT !.pc = "find"] \in WriterRow
    BY IdleRows DEF WriterRow
  <2>2. Unsettled \in [version : Versions \cup {None}, age : 0 .. TTL]
    BY Numbers DEF Unsettled
  <2>3. faults' >= faults /\ LogInv' /\ Unsure'
    BY <1>4, FaultCounts DEF Seed, logVars, LogInv, Unsure
  <2> QED
    BY <1>4, <2>1, <2>2, <2>3 DEF Seed, Starts, Hold, WriterInv
<1>5. CASE FindSetting(w)
  <2>1. [writer[w] EXCEPT !.pc = "save", !.exists = setting[writer[w].key] # None] \in WriterRow
    BY DEF WriterInv, WriterRow
  <2>2. /\ writer' \in [Writers -> WriterRow]
        /\ settled' \in [version : Versions \cup {None}, age : 0 .. TTL]
    BY <1>5, <2>1, NextRowTyped DEF FindSetting, Hold, WriterInv
  <2>3. faults' >= faults /\ LogInv' /\ Unsure'
    BY <1>5, FaultCounts DEF FindSetting, logVars, LogInv, Unsure
  <2> QED
    BY <1>5, <2>2, <2>3 DEF FindSetting, WriterInv
<1>6. CASE SaveSetting(w)
  <2>1. writer[w].key \in Keys /\ VersionOf(w) \in Versions
    BY DEF WriterInv, WriterRow, VersionOf
  <2>2. setting' \in Rows
    BY <1>6, <2>1 DEF SaveSetting, WriterInv, Rows
  <2>3. /\ writer' \in [Writers -> WriterRow]
        /\ settled' \in [version : Versions \cup {None}, age : 0 .. TTL]
    BY <1>6, NextRowTyped, GivesUpTyped DEF SaveSetting, WriterInv
  <2>4. faults' >= faults /\ LogInv' /\ Unsure'
    BY <1>6, FaultCounts DEF SaveSetting, logVars, LogInv, Unsure
  <2> QED
    BY <1>6, <2>2, <2>3, <2>4 DEF SaveSetting, WriterInv
<1>7. CASE StatementFails(w)
  BY <1>7, GivesUpTyped, FaultCounts DEF StatementFails, WriterInv, LogInv, Unsure
<1>8. CASE Abort(w)
  BY <1>8, IdleRows, FaultCounts DEF Abort, Hold, WriterInv, LogInv, Unsure
<1> QED
  BY <1>1, <1>2, <1>3, <1>4, <1>5, <1>6, <1>7, <1>8 DEF WriterStep

-----------------------------------------------------------------------------
\* The steps of the mail workers.

LEMMA HoldingTyped ==
    ASSUME NEW m \in MailJobs, NEW pc \in {"config", "ack", "error"}
    PROVE  Holding(m, pc) \in MailWorkerRow /\ Shaped(Holding(m, pc))
  BY Nones, IdleRows DEF Holding, MailIdle, MailWorkerRow, Shaped

LEMMA ConfigureTyped ==
    ASSUME NEW held \in MailWorkerRow, NEW rows \in Rows, Shaped(held),
           held.job \in MailJobs
    PROVE  Configure(held, rows) \in MailWorkerRow /\ Shaped(Configure(held, rows))
<1>1. CASE held.stage = "from"
  BY <1>1, Numbers, Nones DEF Configure, MailWorkerRow, Shaped
<1>2. CASE held.stage # "from" /\ Enabled(rows)
  <2> DEFINE h == Holding(held.job, "config")
  <2>1. h \in MailWorkerRow /\ Shaped(h) /\ h.pc = "config" /\ h.job = held.job
    BY HoldingTyped, IdleRows DEF Holding, MailWorkerRow
  <2>2. Configure(held, rows) = [h EXCEPT !.stage = "from", !.transporter = rows]
    BY <1>2 DEF Configure
  <2> HIDE DEF h
  <2> QED
    BY <1>2, <2>1, <2>2, Nones DEF MailWorkerRow, Shaped
<1>3. CASE held.stage # "from" /\ ~Enabled(rows)
  BY <1>3, HoldingTyped DEF Configure
<1> QED
  BY <1>1, <1>2, <1>3

\* The worker of p becomes h.
LEMMA WorkerTyped ==
    ASSUME MailInv, NEW p \in Processes, NEW h \in MailWorkerRow, Shaped(h),
           mailWorker' = [mailWorker EXCEPT ![p] = h]
    PROVE  /\ mailWorker' \in [Processes -> MailWorkerRow]
           /\ \A x \in Processes : Shaped(mailWorker'[x])
  BY DEF MailInv

\* A worker that holds a job changes one thing of it.
LEMMA HeldTyped ==
    ASSUME NEW h \in MailWorkerRow, Shaped(h), h.pc # "idle", NEW rows \in Rows,
           NEW a \in 0 .. TTL
    PROVE  /\ h.job \in MailJobs /\ h.rows \in Rows /\ h.asked \in 0 .. TTL
           /\ [h EXCEPT !.pc = "select", !.asked = a] \in MailWorkerRow
           /\ Shaped([h EXCEPT !.pc = "select", !.asked = a])
           /\ [h EXCEPT !.pc = "resume", !.rows = rows] \in MailWorkerRow
           /\ Shaped([h EXCEPT !.pc = "resume", !.rows = rows])
<1>1. h.job \in MailJobs /\ h.rows \in Rows /\ h.asked \in 0 .. TTL
  BY DEF MailWorkerRow, Shaped
<1>2. /\ [h EXCEPT !.pc = "select", !.asked = a] \in MailWorkerRow
      /\ [h EXCEPT !.pc = "resume", !.rows = rows] \in MailWorkerRow
  BY DEF MailWorkerRow
<1>3. Shaped([h EXCEPT !.pc = "select", !.asked = a])
  BY <1>1, Nones DEF Shaped, MailWorkerRow
<1>4. Shaped([h EXCEPT !.pc = "resume", !.rows = rows])
  BY <1>1, Nones DEF Shaped, MailWorkerRow
<1> QED
  BY <1>1, <1>2, <1>3, <1>4

MailStep ==
    \/ \E m \in MailJobs : \/ SendForgotPasswordResetCode(m)
                           \/ BackoffMail(m) \/ StallMail(m)
    \/ \E p \in Processes, m \in MailJobs : TakeMail(p, m)
    \/ \E p \in Processes : \/ GetSMTPSettings(p) \/ SelectSettings(p) \/ FillCache(p)
                            \/ SendMail(p) \/ EndMail(p)

\* What no step of a mail worker changes.
Rest == UNCHANGED <<logQueue, logWorker, logRow, setting, writer, audit, alone,
                    before, settled>>

LEMMA MailSteps ==
    ASSUME TypeInv, MailStep
    PROVE  Rest /\ MailInv' /\ Unsure' /\ faults' \in 0 .. MaxFaults /\ faults' >= faults
<1> USE DEF Unsure, WorkerOnly, Rest
<1>0. MailInv /\ Unsure /\ faults \in 0 .. MaxFaults /\ setting \in Rows /\ 0 \in 0 .. TTL
  BY Numbers DEF TypeInv, LogInv, WriterInv
<1>1. ASSUME NEW m \in MailJobs, \/ SendForgotPasswordResetCode(m)
                                \/ BackoffMail(m) \/ StallMail(m)
      PROVE  Rest /\ MailInv' /\ Unsure' /\ faults' \in 0 .. MaxFaults /\ faults' >= faults
  <2>1. CASE SendForgotPasswordResetCode(m)
    <3>1. MailQueueOK
      BY <1>0, <2>1, MailQueueSteps DEF SendForgotPasswordResetCode, MailInv, MailQueueOK
    <3> QED
      BY <1>0, <2>1, <3>1, FaultCounts DEF SendForgotPasswordResetCode, MailInv, MailQueueOK
  <2>2. CASE BackoffMail(m)
    <3>1. MailQueueOK
      BY <1>0, <2>2, MailQueueSteps DEF BackoffMail
    <3> QED
      BY <1>0, <2>2, <3>1, FaultCounts DEF BackoffMail, MailInv, MailQueueOK
  <2>3. CASE StallMail(m)
    <3>1. MailQueueOK
      BY <1>0, <2>3, MailQueueSteps DEF StallMail
    <3> QED
      BY <1>0, <2>3, <3>1, FaultCounts DEF StallMail, MailInv, MailQueueOK
  <2> QED
    BY <1>1, <2>1, <2>2, <2>3
<1>2. ASSUME NEW p \in Processes, NEW m \in MailJobs, TakeMail(p, m)
      PROVE  Rest /\ MailInv' /\ Unsure' /\ faults' \in 0 .. MaxFaults /\ faults' >= faults
  <2>1. MailQueueOK
    BY <1>0, <1>2, MailQueueSteps DEF TakeMail
  <2>2. /\ mailWorker' \in [Processes -> MailWorkerRow]
        /\ \A x \in Processes : Shaped(mailWorker'[x])
    BY <1>0, <1>2, HoldingTyped, WorkerTyped DEF TakeMail
  <2> QED
    BY <1>0, <1>2, <2>1, <2>2, FaultCounts DEF TakeMail, MailInv, MailQueueOK
<1>3. ASSUME NEW p \in Processes, GetSMTPSettings(p)
      PROVE  Rest /\ MailInv' /\ Unsure' /\ faults' \in 0 .. MaxFaults /\ faults' >= faults
  <2> DEFINE h == mailWorker[p]
  <2>0. h \in MailWorkerRow /\ Shaped(h) /\ h.pc # "idle" /\ p \in DOMAIN mailWorker
    BY <1>0, <1>3 DEF MailInv, GetSMTPSettings
  <2>1. cache[p].rows \in Rows /\ h.job \in MailJobs
    BY <1>0, <2>0, HeldTyped DEF MailInv, CacheRow
  <2>2. PICK g \in {Configure(h, cache[p].rows), [h EXCEPT !.pc = "select", !.asked = 0]} :
            mailWorker' = [mailWorker EXCEPT ![p] = g]
    BY <1>3, <2>0 DEF GetSMTPSettings
  <2> HIDE DEF h
  <2>3. g \in MailWorkerRow /\ Shaped(g)
    BY <1>0, <2>0, <2>1, ConfigureTyped, HeldTyped
  <2>4. /\ mailWorker' \in [Processes -> MailWorkerRow]
        /\ \A x \in Processes : Shaped(mailWorker'[x])
    BY <1>0, <2>2, <2>3, WorkerTyped
  <2> QED
    BY <1>0, <1>3, <2>4, FaultCounts DEF GetSMTPSettings, MailInv
<1>4. ASSUME NEW p \in Processes, SelectSettings(p)
      PROVE  Rest /\ MailInv' /\ Unsure' /\ faults' \in 0 .. MaxFaults /\ faults' >= faults
  <2> DEFINE h == mailWorker[p]
  <2>0. h \in MailWorkerRow /\ Shaped(h) /\ h.pc # "idle" /\ p \in DOMAIN mailWorker
    BY <1>0, <1>4 DEF MailInv, SelectSettings
  <2>1. h.job \in MailJobs
    BY <1>0, <2>0, HeldTyped
  <2>2. PICK g \in {[h EXCEPT !.pc = "resume", !.rows = setting], Holding(h.job, "error")} :
            mailWorker' = [mailWorker EXCEPT ![p] = g]
    BY <1>4, <2>0 DEF SelectSettings
  <2> HIDE DEF h
  <2>3. g \in MailWorkerRow /\ Shaped(g)
    BY <1>0, <2>0, <2>1, HoldingTyped, HeldTyped
  <2>4. /\ mailWorker' \in [Processes -> MailWorkerRow]
        /\ \A x \in Processes : Shaped(mailWorker'[x])
    BY <1>0, <2>2, <2>3, WorkerTyped
  <2> QED
    BY <1>0, <1>4, <2>4, FaultCounts DEF SelectSettings, MailInv
<1>5. ASSUME NEW p \in Processes, FillCache(p)
      PROVE  Rest /\ MailInv' /\ Unsure' /\ faults' \in 0 .. MaxFaults /\ faults' >= faults
  <2> DEFINE h == mailWorker[p]
  <2>0. h \in MailWorkerRow /\ Shaped(h) /\ h.pc # "idle" /\ p \in DOMAIN mailWorker
    BY <1>0, <1>5 DEF MailInv, FillCache
  <2>1. h.job \in MailJobs /\ h.rows \in Rows /\ h.asked \in 0 .. TTL
    BY <1>0, <2>0, HeldTyped
  <2>2. mailWorker' = [mailWorker EXCEPT ![p] = Configure(h, h.rows)]
    BY <1>5, <2>0 DEF FillCache
  <2>3. [filled |-> TRUE, rows |-> h.rows, age |-> CachedAt(p)] \in CacheRow
    BY <2>1 DEF CachedAt, CacheRow
  <2>4. cache' \in [Processes -> CacheRow]
    BY <1>0, <1>5, <2>3 DEF FillCache, MailInv
  <2> HIDE DEF h
  <2>5. Configure(h, h.rows) \in MailWorkerRow /\ Shaped(Configure(h, h.rows))
    BY <2>0, <2>1, ConfigureTyped
  <2>6. /\ mailWorker' \in [Processes -> MailWorkerRow]
        /\ \A x \in Processes : Shaped(mailWorker'[x])
    BY <1>0, <2>2, <2>5, WorkerTyped
  <2> QED
    BY <1>0, <1>5, <2>4, <2>6, FaultCounts DEF FillCache, MailInv
<1>6. ASSUME NEW p \in Processes, SendMail(p)
      PROVE  Rest /\ MailInv' /\ Unsure' /\ faults' \in 0 .. MaxFaults /\ faults' >= faults
  <2> DEFINE h == mailWorker[p]
  <2>0. h \in MailWorkerRow /\ Shaped(h) /\ h.pc # "idle" /\ p \in DOMAIN mailWorker
    BY <1>0, <1>6 DEF MailInv, SendMail
  <2>1. h.job \in MailJobs
    BY <1>0, <2>0, HeldTyped
  <2>2. PICK pc \in {"ack", "error"} : mailWorker' = [mailWorker EXCEPT ![p] = Holding(h.job, pc)]
    BY <1>6 DEF SendMail
  <2>3. /\ mailWorker' \in [Processes -> MailWorkerRow]
        /\ \A x \in Processes : Shaped(mailWorker'[x])
    BY <1>0, <2>1, <2>2, WorkerTyped, HoldingTyped
  <2>4. sent' \in [MailJobs -> Nat]
    BY <1>0, <1>6, <2>1 DEF SendMail, MailInv
  <2>5. Unsure' /\ faults' \in 0 .. MaxFaults /\ faults' >= faults
    BY <1>0, <1>6, <2>1, FaultCounts DEF SendMail
  <2> QED
    BY <1>0, <1>6, <2>3, <2>4, <2>5 DEF SendMail, MailInv
<1>7. ASSUME NEW p \in Processes, EndMail(p)
      PROVE  Rest /\ MailInv' /\ Unsure' /\ faults' \in 0 .. MaxFaults /\ faults' >= faults
  <2> DEFINE h == mailWorker[p]
  <2>0. h \in MailWorkerRow /\ Shaped(h) /\ h.pc # "idle" /\ p \in DOMAIN mailWorker
    BY <1>0, <1>7 DEF MailInv, EndMail
  <2>1. h.job \in MailJobs
    BY <1>0, <2>0, HeldTyped
  <2>2. MailQueueOK
    BY <1>0, <1>7, <2>1, MailQueueSteps DEF EndMail
  <2>3. /\ mailWorker' \in [Processes -> MailWorkerRow]
        /\ \A x \in Processes : Shaped(mailWorker'[x])
    BY <1>0, <1>7, WorkerTyped, IdleRows DEF EndMail
  <2> QED
    BY <1>0, <1>7, <2>2, <2>3, FaultCounts DEF EndMail, MailInv, MailQueueOK
<1> QED
  BY <1>1, <1>2, <1>3, <1>4, <1>5, <1>6, <1>7 DEF MailStep

LEMMA CrashStep ==
    ASSUME TypeInv, NEW p \in Processes, Crash(p)
    PROVE  TypeInv' /\ faults' >= faults
<1>1. LogInv' /\ faults' >= faults
  BY IdleRows, FaultCounts DEF TypeInv, LogInv, Crash, LogIdle
<1>2. MailInv'
  BY IdleRows DEF TypeInv, MailInv, Crash
<1> QED
  BY <1>1, <1>2 DEF TypeInv, WriterInv, Crash

LEMMA OlderTyped ==
    ASSUME NEW a \in 0 .. TTL
    PROVE  Older(a) \in 0 .. TTL
  BY Numbers DEF Older

LEMMA TickStep ==
    ASSUME TypeInv, Tick
    PROVE  TypeInv' /\ faults' >= faults
<1>1. LogInv' /\ faults' >= faults /\ Unsure'
  BY FaultCounts DEF TypeInv, LogInv, Tick, logVars, Unsure
<1>2. \A p \in Processes : [cache[p] EXCEPT !.age = Older(@)] \in CacheRow
  BY OlderTyped DEF TypeInv, MailInv, CacheRow
<1>3. \A p \in Processes : /\ [mailWorker[p] EXCEPT !.asked = Older(@)] \in MailWorkerRow
                          /\ Shaped([mailWorker[p] EXCEPT !.asked = Older(@)])
  BY OlderTyped DEF TypeInv, MailInv, MailWorkerRow, Shaped
<1>4. MailInv'
  BY <1>2, <1>3 DEF TypeInv, MailInv, Tick
<1>5. WriterInv'
  BY OlderTyped DEF TypeInv, WriterInv, Tick
<1> QED
  BY <1>1, <1>4, <1>5 DEF TypeInv, Unsure

\* Every step is one of these.
LEMMA Steps ==
    ASSUME Next
    PROVE  \/ LogNext /\ UNCHANGED mailVars
           \/ \E w \in Writers : WriterStep(w)
           \/ MailStep
           \/ \E p \in Processes : Crash(p)
           \/ Tick
  BY DEF Next, WriterStep, MailStep

LEMMA WriterFrame ==
    ASSUME NEW w \in Writers, WriterStep(w)
    PROVE  UNCHANGED <<logWorker, logRow, unsure, cache, mailQueue, mailWorker, sent>>
  BY DEF WriterStep, CreateSMTPSettings, ReadResult, AuditFailure, Seed, FindSetting,
         SaveSetting, StatementFails, Abort, logVars

LEMMA TypeStep ==
    ASSUME TypeInv, [Next]_vars
    PROVE  TypeInv' /\ faults' >= faults
<1>1. CASE LogNext /\ UNCHANGED mailVars
  BY <1>1, LogSteps DEF TypeInv, Unsure, MailInv, WriterInv, mailVars
<1>2. ASSUME NEW w \in Writers, WriterStep(w) PROVE TypeInv' /\ faults' >= faults
  BY <1>2, WriterSteps, WriterFrame DEF TypeInv, Unsure, MailInv
<1>3. CASE MailStep
  BY <1>3, MailSteps DEF TypeInv, Unsure, Rest, LogInv, WriterInv
<1>4. CASE UNCHANGED vars
  BY <1>4, FaultCounts DEF TypeInv, LogInv, MailInv, WriterInv, vars, logVars, mailVars
<1> QED
  BY <1>1, <1>2, <1>3, <1>4, Steps, CrashStep, TickStep

\* Every variable stays in its range, a worker that is idle holds no job, and a
\* sender is only read once the connection has settings that are enabled.
THEOREM TypeCorrect == Spec => []TypeOK
<1>1. Spec => []TypeInv
  BY TypeInit, TypeStep, PTL DEF Spec
<1> QED
  BY <1>1, TypeInvIsTypeOK, PTL

-----------------------------------------------------------------------------
(* A job that is acknowledged was done, and done twice only when unsure.   *)

Inserted(j) == logRow[j].old \/ logRow[j].rows > 0

\* A worker that will acknowledge has done its job.
LogDone == /\ \A p \in Processes : logWorker[p].pc = "ack" => Inserted(logWorker[p].job)
           /\ \A j \in LogJobs : logQueue[j].state = "completed" => Inserted(j)

Undone == {"unused", "waiting", "delayed", "failed"}

\* A job that never stalled is held by the worker that has its lock, and was not
\* done while an attempt at it may still come or is under way.
LogOnce(j) ==
    /\ \A p \in Processes : logWorker[p].job = j =>
          /\ logQueue[j].state = "active" /\ logQueue[j].lock = p
          /\ logWorker[p].pc # "ack" => logRow[j].rows = 0
    /\ logQueue[j].state \in Undone => logRow[j].rows = 0
    /\ logRow[j].rows <= 1

LogDelivery == LogDone /\ \A j \in LogJobs \ unsure : LogOnce(j)

\* What a step does to the row of job j.
LogPutJob(j, state, lock) ==
    /\ logQueue' = [logQueue EXCEPT ![j] = logQueue'[j]]
    /\ logQueue'[j].state = state /\ logQueue'[j].lock = lock

LEMMA LogCalls ==
    ASSUME LogInv, NEW j \in LogJobs, NEW p
    PROVE  /\ LogQueue!Add(j) => logQueue[j].state = "unused" /\ LogPutJob(j, "waiting", None)
           /\ LogQueue!Take(j, p) => logQueue[j].state = "waiting" /\ LogPutJob(j, "active", p)
           /\ LogQueue!Complete(j, p) =>
                \/ logQueue[j].state = "active" /\ logQueue[j].lock = p
                   /\ LogPutJob(j, "completed", None)
                \/ ~(logQueue[j].state = "active" /\ logQueue[j].lock = p) /\ UNCHANGED logQueue
           /\ LogQueue!Retry(j, p) =>
                \/ /\ logQueue[j].state = "active" /\ logQueue[j].lock = p
                   /\ LogPutJob(j, "failed", None) \/ LogPutJob(j, "delayed", None)
                \/ ~(logQueue[j].state = "active" /\ logQueue[j].lock = p) /\ UNCHANGED logQueue
           /\ LogQueue!BackoffEnds(j) =>
                logQueue[j].state = "delayed" /\ LogPutJob(j, "waiting", None)
           /\ LogQueue!Stall(j) => LogPutJob(j, "failed", None) \/ LogPutJob(j, "waiting", None)
<1>1. ASSUME NEW state, NEW failures, NEW stalled, NEW lock,
             LogQueue!Put(j, state, failures, stalled, lock)
      PROVE  LogPutJob(j, state, lock)
  <2> DEFINE q == [state |-> state, failures |-> failures, stalled |-> stalled, lock |-> lock]
  <2>1. logQueue' = [logQueue EXCEPT ![j] = q]
    BY <1>1 DEF LogQueue!Put
  <2>2. logQueue'[j] = q
    BY <2>1 DEF LogInv
  <2>3. q.state = state /\ q.lock = lock
    OBVIOUS
  <2> HIDE DEF q
  <2> QED
    BY <2>1, <2>2, <2>3 DEF LogPutJob
<1> QED
  BY <1>1 DEF LogQueue!Add, LogQueue!Take, LogQueue!Complete, LogQueue!Retry, LogQueue!Is,
              LogQueue!BackoffEnds, LogQueue!Stall, LogQueue!Locked

\* A job that waits again or ended otherwise keeps what is known of the others.
LEMMA EnqueueDelivers ==
    ASSUME LogInv, LogDelivery, NEW j \in LogJobs, Enqueue(j),
           UNCHANGED <<logWorker, logRow, unsure>>
    PROVE  LogDelivery'
<1>1. CASE LogQueue!Add(j)
  <2>1. logQueue[j].state = "unused" /\ LogPutJob(j, "waiting", None)
    BY <1>1, LogCalls
  <2> QED
    BY <2>1 DEF LogInv, LogDelivery, LogDone, LogOnce, Inserted, LogPutJob, Undone
<1>2. CASE UNCHANGED logQueue
  BY <1>2 DEF LogDelivery, LogDone, LogOnce, Inserted
<1> QED
  BY <1>1, <1>2 DEF Enqueue

LEMMA LogStepsDeliver ==
    ASSUME LogInv, LogDelivery, LogNext
    PROVE  LogDelivery'
<1> USE DEF LogJobs
<1>1. ASSUME NEW j \in ActivityJobs, LoginFails(j) PROVE LogDelivery'
  BY <1>1, EnqueueDelivers DEF LoginFails
<1>2. ASSUME NEW p \in Processes, NEW j \in LogJobs, TakeLog(p, j) PROVE LogDelivery'
  <2>1. logQueue[j].state = "waiting" /\ LogPutJob(j, "active", p)
    BY <1>2, LogCalls DEF TakeLog
  <2>2. /\ logWorker' = [logWorker EXCEPT ![p] = [pc |-> "insert", job |-> j]]
        /\ UNCHANGED <<logRow, unsure>>
    BY <1>2 DEF TakeLog
  <2>3. LogDone'
    BY <2>1, <2>2 DEF LogInv, LogDelivery, LogDone, Inserted, LogPutJob
  <2>4. ASSUME NEW x \in LogJobs \ unsure' PROVE LogOnce(x)'
    BY <2>1, <2>2 DEF LogInv, LogDelivery, LogOnce, LogPutJob, Undone
  <2> QED
    BY <2>3, <2>4 DEF LogDelivery
<1>3. ASSUME NEW p \in Processes, Process(p) PROVE LogDelivery'
  <2>1. PICK j \in LogJobs :
             /\ logWorker[p].job = j /\ logWorker[p].pc = "insert" /\ UNCHANGED logQueue
             /\ \A x \in Processes : logWorker[x].pc = "ack" => logWorker[x].job \in LogJobs
    BY <1>3 DEF Process, LogInv, LogWorkerRow
  <2>2. PICK pc \in {"ack", "error"} :
             /\ logWorker' = [logWorker EXCEPT ![p].pc = pc]
             /\ \/ Save(j) /\ pc = "ack" /\ UNCHANGED unsure
                \/ Save(j) /\ pc = "error" /\ unsure' = unsure \cup {j}
                \/ UNCHANGED logRow /\ pc = "error" /\ UNCHANGED unsure
    BY <1>3, <2>1 DEF Process, ProcessRefused
  <2>3. /\ \A x \in Processes : logWorker'[x].job = logWorker[x].job
        /\ \A x \in Processes : x # p => logWorker'[x] = logWorker[x]
        /\ logWorker'[p].pc = pc /\ logWorker'[p].job = j
    BY <2>1, <2>2 DEF LogInv, LogWorkerRow
  <2>4. /\ \A x \in LogJobs : x # j => logRow'[x] = logRow[x]
        /\ logRow'[j].old = logRow[j].old /\ logRow[j].rows \in Nat
        /\ \/ logRow'[j] = logRow[j] /\ pc = "error" /\ UNCHANGED unsure
           \/ /\ logRow'[j].rows = logRow[j].rows + 1
              /\ (pc = "ack" /\ UNCHANGED unsure) \/ unsure' = unsure \cup {j}
    BY <2>1, <2>2 DEF Save, LogInv
  <2> HIDE DEF LogJobs
  <2>5. LogDone'
    <3>1. ASSUME NEW x \in LogJobs, Inserted(x) PROVE Inserted(x)'
      <4>1. CASE x = j
        BY <2>4, <3>1, <4>1 DEF Inserted
      <4>2. CASE x # j
        BY <2>4, <3>1, <4>2 DEF Inserted
      <4> QED
        BY <4>1, <4>2
    <3>2. pc = "ack" => Inserted(j)'
      BY <2>4 DEF Inserted
    <3>3. ASSUME NEW x \in Processes, logWorker'[x].pc = "ack"
          PROVE  Inserted(logWorker[x].job)'
      <4>1. CASE x = p
        BY <2>3, <3>2, <3>3, <4>1 DEF Inserted
      <4>2. CASE x # p
        <5>1. logWorker[x].job \in LogJobs /\ Inserted(logWorker[x].job)
          BY <2>1, <2>3, <3>3, <4>2 DEF LogDelivery, LogDone
        <5>2. PICK i \in LogJobs : i = logWorker[x].job /\ Inserted(i)
          BY <5>1
        <5> QED
          BY <2>3, <3>1, <4>2, <5>2 DEF Inserted
      <4> QED
        BY <4>1, <4>2
    <3> QED
      BY <2>1, <3>1, <3>3 DEF LogDelivery, LogDone, Inserted
  <2>6. ASSUME NEW x \in LogJobs \ unsure' PROVE LogOnce(x)'
    <3>1. x \in LogJobs \ unsure /\ LogOnce(x)
      BY <2>4 DEF LogDelivery
    <3>2. CASE x = j
      <4>1. /\ logRow[j].rows = 0 /\ logQueue[j].state = "active" /\ logQueue[j].lock = p
            /\ \A y \in Processes : logWorker[y].job = j => y = p
        BY <2>1, <3>1, <3>2 DEF LogOnce
      <4>2. logRow'[j].rows <= 1 /\ (pc # "ack" => logRow'[j].rows = 0)
        BY <2>4, <2>6, <3>2, <4>1
      <4> QED
        BY <2>1, <2>3, <3>2, <4>1, <4>2 DEF LogOnce, Undone
    <3>3. CASE x # j
      <4>1. \A y \in Processes : logWorker'[y].job = x => logWorker'[y] = logWorker[y]
        BY <2>3, <3>3
      <4> QED
        BY <2>1, <2>4, <3>1, <3>3, <4>1 DEF LogOnce
    <3> QED
      BY <3>2, <3>3
  <2> QED
    BY <2>5, <2>6 DEF LogDelivery
<1>4. ASSUME NEW p \in Processes, EndLog(p) PROVE LogDelivery'
  <2> DEFINE j == logWorker[p].job
  <2>1. j \in LogJobs
    BY <1>4 DEF EndLog, LogInv, LogWorkerRow
  <2>2. logWorker' = [logWorker EXCEPT ![p] = LogIdle] /\ UNCHANGED <<logRow, unsure>>
    BY <1>4 DEF EndLog
  <2>3. \/ /\ ~(logQueue[j].state = "active" /\ logQueue[j].lock = p)
           /\ UNCHANGED logQueue
        \/ /\ logQueue[j].state = "active" /\ logQueue[j].lock = p
           /\ \/ logWorker[p].pc = "ack" /\ LogPutJob(j, "completed", None)
              \/ /\ logWorker[p].pc = "error"
                 /\ LogPutJob(j, "failed", None) \/ LogPutJob(j, "delayed", None)
    <3>1. CASE logWorker[p].pc = "ack" /\ LogQueue!Complete(j, p)
      BY <2>1, <3>1, LogCalls
    <3>2. CASE logWorker[p].pc = "error" /\ LogQueue!Retry(j, p)
      BY <2>1, <3>2, LogCalls
    <3> QED
      BY <1>4, <3>1, <3>2 DEF EndLog
  <2>4. \A x \in Processes : logWorker'[x] = IF x = p THEN LogIdle ELSE logWorker[x]
    BY <2>2 DEF LogInv
  <2>5. LogIdle.pc # "ack" /\ LogIdle.job = None
    BY DEF LogIdle
  <2>6. LogDone'
    BY <2>1, <2>2, <2>3, <2>4, <2>5 DEF LogInv, LogDelivery, LogDone, Inserted, LogPutJob
  <2>7. ASSUME NEW x \in LogJobs \ unsure' PROVE LogOnce(x)'
    BY <2>1, <2>2, <2>3, <2>4, <2>5, <2>7, Nones
       DEF LogInv, LogDelivery, LogOnce, LogPutJob, Undone
  <2> QED
    BY <2>6, <2>7 DEF LogDelivery
<1>5. ASSUME NEW j \in LogJobs, BackoffLog(j) PROVE LogDelivery'
  <2>1. /\ logQueue[j].state = "delayed" /\ LogPutJob(j, "waiting", None)
        /\ UNCHANGED <<logWorker, logRow, unsure>>
    BY <1>5, LogCalls DEF BackoffLog
  <2> QED
    BY <2>1 DEF LogInv, LogDelivery, LogDone, LogOnce, Inserted, LogPutJob, Undone
<1>6. ASSUME NEW j \in LogJobs, StallLog(j) PROVE LogDelivery'
  <2>1. /\ LogPutJob(j, "failed", None) \/ LogPutJob(j, "waiting", None)
        /\ unsure' = unsure \cup {j} /\ UNCHANGED <<logWorker, logRow>>
    BY <1>6, LogCalls DEF StallLog
  <2>2. LogDone'
    BY <2>1 DEF LogInv, LogDelivery, LogDone, Inserted, LogPutJob
  <2>3. ASSUME NEW x \in LogJobs \ unsure' PROVE LogOnce(x)'
    BY <2>1 DEF LogInv, LogDelivery, LogOnce, LogPutJob, Undone
  <2> QED
    BY <2>2, <2>3 DEF LogDelivery
<1>7. ASSUME NEW j \in LogJobs, AgeLog(j) PROVE LogDelivery'
  <2>1. /\ \A x \in LogJobs : logRow'[x].rows = logRow[x].rows
                             /\ (logRow[x].old => logRow'[x].old)
        /\ UNCHANGED <<logQueue, logWorker, unsure>>
    BY <1>7 DEF AgeLog, LogInv
  <2> QED
    BY <2>1 DEF LogInv, LogWorkerRow, LogDelivery, LogDone, LogOnce, Inserted
<1>8. ASSUME NEW table, PurgeOldLogs(table) PROVE LogDelivery'
  <2>1. /\ \A x \in LogJobs :
             \/ logRow'[x] = logRow[x]
             \/ logRow[x].old /\ logRow'[x].rows = 0 /\ logRow'[x].old
        /\ UNCHANGED <<logQueue, logWorker, unsure>>
    BY <1>8 DEF PurgeOldLogs, LogInv
  <2> QED
    BY <2>1 DEF LogInv, LogWorkerRow, LogDelivery, LogDone, LogOnce, Inserted
<1> QED
  BY <1>1, <1>2, <1>3, <1>4, <1>5, <1>6, <1>7, <1>8
     DEF LogNext, PurgeActivityLogs, PurgeAuditLogs

\* The same of the mails.
MailDone == /\ \A p \in Processes : mailWorker[p].pc = "ack" => sent[mailWorker[p].job] > 0
            /\ \A m \in MailJobs : mailQueue[m].state = "completed" => sent[m] > 0

MailOnce(m) ==
    /\ \A p \in Processes : mailWorker[p].job = m =>
          /\ mailQueue[m].state = "active" /\ mailQueue[m].lock = p
          /\ mailWorker[p].pc # "ack" => sent[m] = 0
    /\ mailQueue[m].state \in Undone => sent[m] = 0
    /\ sent[m] <= 1

MailDelivery == MailDone /\ \A m \in MailJobs \ unsure : MailOnce(m)

MailPutJob(m, state, lock) ==
    /\ mailQueue' = [mailQueue EXCEPT ![m] = mailQueue'[m]]
    /\ mailQueue'[m].state = state /\ mailQueue'[m].lock = lock

LEMMA MailCalls ==
    ASSUME MailInv, NEW m \in MailJobs, NEW p
    PROVE  /\ MailQueue!Add(m) => mailQueue[m].state = "unused" /\ MailPutJob(m, "waiting", None)
           /\ MailQueue!Take(m, p) =>
                mailQueue[m].state = "waiting" /\ MailPutJob(m, "active", p)
           /\ MailQueue!Complete(m, p) =>
                \/ mailQueue[m].state = "active" /\ mailQueue[m].lock = p
                   /\ MailPutJob(m, "completed", None)
                \/ ~(mailQueue[m].state = "active" /\ mailQueue[m].lock = p) /\ UNCHANGED mailQueue
           /\ MailQueue!Retry(m, p) =>
                \/ /\ mailQueue[m].state = "active" /\ mailQueue[m].lock = p
                   /\ MailPutJob(m, "failed", None) \/ MailPutJob(m, "delayed", None)
                \/ ~(mailQueue[m].state = "active" /\ mailQueue[m].lock = p) /\ UNCHANGED mailQueue
           /\ MailQueue!BackoffEnds(m) =>
                mailQueue[m].state = "delayed" /\ MailPutJob(m, "waiting", None)
           /\ MailQueue!Stall(m) => MailPutJob(m, "failed", None) \/ MailPutJob(m, "waiting", None)
<1>1. ASSUME NEW state, NEW failures, NEW stalled, NEW lock,
             MailQueue!Put(m, state, failures, stalled, lock)
      PROVE  MailPutJob(m, state, lock)
  <2> DEFINE q == [state |-> state, failures |-> failures, stalled |-> stalled, lock |-> lock]
  <2>1. mailQueue' = [mailQueue EXCEPT ![m] = q]
    BY <1>1 DEF MailQueue!Put
  <2>2. mailQueue'[m] = q
    BY <2>1 DEF MailInv
  <2>3. q.state = state /\ q.lock = lock
    OBVIOUS
  <2> HIDE DEF q
  <2> QED
    BY <2>1, <2>2, <2>3 DEF MailPutJob
<1> QED
  BY <1>1 DEF MailQueue!Add, MailQueue!Take, MailQueue!Complete, MailQueue!Retry, MailQueue!Is,
              MailQueue!BackoffEnds, MailQueue!Stall, MailQueue!Locked

\* A worker that holds a job is left with it by all but the end of the attempt.
LEMMA HoldingIs ==
    ASSUME NEW m, NEW pc
    PROVE  Holding(m, pc).job = m /\ Holding(m, pc).pc = pc
  BY DEF Holding, MailIdle

LEMMA ConfigureIs ==
    ASSUME NEW held \in MailWorkerRow, NEW rows
    PROVE  /\ Configure(held, rows).job = held.job
           /\ Configure(held, rows).pc \in {"send", "config", "error"}
<1>1. CASE held.stage = "from"
  BY <1>1 DEF Configure, MailWorkerRow
<1>2. CASE held.stage # "from"
  BY <1>2 DEF Configure, Holding, MailIdle
<1> QED
  BY <1>1, <1>2

\* Worker p goes on with its job and has not done it; a step that is not its end.
LEMMA GoesOn ==
    ASSUME MailInv, MailDelivery, NEW p \in Processes,
           mailWorker[p].pc \in {"config", "select", "resume", "send"},
           \A x \in Processes : x # p => mailWorker'[x] = mailWorker[x],
           mailWorker'[p].job = mailWorker[p].job, mailWorker'[p].pc # "ack",
           UNCHANGED <<mailQueue, sent, unsure>>
    PROVE  MailDelivery'
<1>1. \A x \in Processes : mailWorker'[x].job = mailWorker[x].job
  OBVIOUS
<1>2. MailDone'
  BY <1>1 DEF MailDelivery, MailDone
<1>3. ASSUME NEW m \in MailJobs \ unsure' PROVE MailOnce(m)'
  <2>1. MailOnce(m)
    BY <1>3 DEF MailDelivery
  <2>2. \A x \in Processes : mailWorker'[x].pc # "ack" => mailWorker[x].pc # "ack"
    OBVIOUS
  <2> QED
    BY <1>1, <2>1, <2>2 DEF MailOnce
<1> QED
  BY <1>2, <1>3 DEF MailDelivery

LEMMA SendMailDelivers ==
    ASSUME MailInv, MailDelivery, NEW p \in Processes, SendMail(p)
    PROVE  MailDelivery'
<1>1. PICK m \in MailJobs :
           /\ mailWorker[p].job = m /\ mailWorker[p].pc = "send" /\ UNCHANGED mailQueue
           /\ \A x \in Processes : mailWorker[x].pc = "ack" => mailWorker[x].job \in MailJobs
  BY DEF SendMail, MailInv, MailWorkerRow, Shaped
<1>2. PICK pc \in {"ack", "error"} :
           /\ mailWorker' = [mailWorker EXCEPT ![p] = Holding(m, pc)]
           /\ \/ /\ sent' = [sent EXCEPT ![m] = @ + 1]
                 /\ (pc = "ack" /\ UNCHANGED unsure) \/ (pc = "error" /\ unsure' = unsure \cup {m})
              \/ UNCHANGED sent /\ pc = "error" /\ UNCHANGED unsure
  BY <1>1 DEF SendMail
<1>3. /\ \A x \in Processes : mailWorker'[x].job = mailWorker[x].job
      /\ \A x \in Processes : x # p => mailWorker'[x] = mailWorker[x]
      /\ mailWorker'[p].pc = pc /\ mailWorker'[p].job = m
  BY <1>1, <1>2, HoldingIs DEF MailInv
<1>4. /\ \A x \in MailJobs : x # m => sent'[x] = sent[x]
      /\ sent[m] \in Nat
      /\ \/ sent'[m] = sent[m] /\ pc = "error" /\ UNCHANGED unsure
         \/ /\ sent'[m] = sent[m] + 1
            /\ (pc = "ack" /\ UNCHANGED unsure) \/ unsure' = unsure \cup {m}
  BY <1>1, <1>2 DEF MailInv
<1>5. MailDone'
  <2>1. ASSUME NEW x \in MailJobs, sent[x] > 0 PROVE sent'[x] > 0
    <3>1. CASE x = m
      BY <1>4, <2>1, <3>1
    <3>2. CASE x # m
      BY <1>4, <2>1, <3>2
    <3> QED
      BY <3>1, <3>2
  <2>2. pc = "ack" => sent'[m] > 0
    BY <1>4
  <2>3. ASSUME NEW x \in Processes, mailWorker'[x].pc = "ack"
        PROVE  sent'[mailWorker'[x].job] > 0
    <3>1. CASE x = p
      BY <1>3, <2>2, <2>3, <3>1
    <3>2. CASE x # p
      BY <1>1, <1>3, <2>1, <2>3, <3>2 DEF MailDelivery, MailDone
    <3> QED
      BY <3>1, <3>2
  <2> QED
    BY <1>1, <2>1, <2>3 DEF MailDelivery, MailDone
<1>6. ASSUME NEW x \in MailJobs \ unsure' PROVE MailOnce(x)'
  <2>1. x \in MailJobs \ unsure /\ MailOnce(x)
    BY <1>4 DEF MailDelivery
  <2>2. CASE x = m
    <3>1. /\ sent[m] = 0 /\ mailQueue[m].state = "active" /\ mailQueue[m].lock = p
          /\ \A y \in Processes : mailWorker[y].job = m => y = p
      BY <1>1, <2>1, <2>2 DEF MailOnce
    <3>2. sent'[m] <= 1 /\ (pc # "ack" => sent'[m] = 0)
      BY <1>4, <1>6, <2>2, <3>1
    <3> QED
      BY <1>1, <1>3, <2>2, <3>1, <3>2 DEF MailOnce, Undone
  <2>3. CASE x # m
    <3>1. \A y \in Processes : mailWorker'[y].job = x => mailWorker'[y] = mailWorker[y]
      BY <1>3, <2>3
    <3> QED
      BY <1>1, <1>4, <2>1, <2>3, <3>1 DEF MailOnce
  <2> QED
    BY <2>2, <2>3
<1> QED
  BY <1>5, <1>6 DEF MailDelivery

LEMMA MailStepsDeliver ==
    ASSUME MailInv, MailDelivery, MailStep
    PROVE  MailDelivery'
<1>1. ASSUME NEW m \in MailJobs, SendForgotPasswordResetCode(m) PROVE MailDelivery'
  <2>1. CASE MailQueue!Add(m)
    <3>1. mailQueue[m].state = "unused" /\ MailPutJob(m, "waiting", None)
      BY <2>1, MailCalls
    <3> QED
      BY <1>1, <3>1 DEF SendForgotPasswordResetCode, MailInv, MailDelivery, MailDone, MailOnce,
                        MailPutJob, Undone
  <2>2. CASE UNCHANGED mailQueue
    BY <1>1, <2>2 DEF SendForgotPasswordResetCode, MailDelivery, MailDone, MailOnce
  <2> QED
    BY <1>1, <2>1, <2>2 DEF SendForgotPasswordResetCode
<1>2. ASSUME NEW m \in MailJobs, BackoffMail(m) PROVE MailDelivery'
  <2>1. /\ mailQueue[m].state = "delayed" /\ MailPutJob(m, "waiting", None)
        /\ UNCHANGED <<mailWorker, sent, unsure>>
    BY <1>2, MailCalls DEF BackoffMail
  <2> QED
    BY <2>1 DEF MailInv, MailDelivery, MailDone, MailOnce, MailPutJob, Undone
<1>3. ASSUME NEW m \in MailJobs, StallMail(m) PROVE MailDelivery'
  <2>1. /\ MailPutJob(m, "failed", None) \/ MailPutJob(m, "waiting", None)
        /\ unsure' = unsure \cup {m} /\ UNCHANGED <<mailWorker, sent>>
    BY <1>3, MailCalls DEF StallMail
  <2>2. MailDone'
    BY <2>1 DEF MailInv, MailDelivery, MailDone, MailPutJob
  <2>3. ASSUME NEW x \in MailJobs \ unsure' PROVE MailOnce(x)'
    BY <2>1 DEF MailInv, MailDelivery, MailOnce, MailPutJob, Undone
  <2> QED
    BY <2>2, <2>3 DEF MailDelivery
<1>4. ASSUME NEW p \in Processes, NEW m \in MailJobs, TakeMail(p, m) PROVE MailDelivery'
  <2>1. mailQueue[m].state = "waiting" /\ MailPutJob(m, "active", p)
    BY <1>4, MailCalls DEF TakeMail
  <2>2. /\ \A x \in Processes : x # p => mailWorker'[x] = mailWorker[x]
        /\ mailWorker'[p].pc = "config" /\ mailWorker'[p].job = m
        /\ UNCHANGED <<sent, unsure>>
    BY <1>4, HoldingIs DEF TakeMail, MailInv
  <2>3. MailDone'
    BY <2>1, <2>2 DEF MailInv, MailDelivery, MailDone, MailPutJob
  <2>4. ASSUME NEW x \in MailJobs \ unsure' PROVE MailOnce(x)'
    <3>1. MailOnce(x)
      BY <2>2 DEF MailDelivery
    <3>2. CASE x = m
      BY <2>1, <2>2, <3>1, <3>2 DEF MailInv, MailOnce, MailPutJob, Undone
    <3>3. CASE x # m
      <4>1. mailQueue'[x] = mailQueue[x]
        BY <2>1, <3>3 DEF MailPutJob, MailInv
      <4>2. \A y \in Processes : mailWorker'[y].job = x => mailWorker'[y] = mailWorker[y]
        BY <2>2, <3>3
      <4> QED
        BY <2>2, <3>1, <4>1, <4>2 DEF MailOnce
    <3> QED
      BY <3>2, <3>3
  <2> QED
    BY <2>3, <2>4 DEF MailDelivery
<1>5. ASSUME NEW p \in Processes, GetSMTPSettings(p) \/ SelectSettings(p) \/ FillCache(p)
      PROVE  MailDelivery'
  <2> DEFINE h == mailWorker[p]
  <2>1. h \in MailWorkerRow /\ p \in DOMAIN mailWorker
    BY DEF MailInv
  <2>2. \E g : mailWorker' = [mailWorker EXCEPT ![p] = g] /\ g.job = h.job /\ g.pc # "ack"
    <3>1. CASE GetSMTPSettings(p)
      <4> DEFINE g == IF Fresh(p) THEN Configure(h, cache[p].rows)
                                  ELSE [h EXCEPT !.pc = "select", !.asked = 0]
      <4>1. mailWorker' = [mailWorker EXCEPT ![p] = g]
        BY <2>1, <3>1 DEF GetSMTPSettings
      <4>2. g.job = h.job /\ g.pc # "ack"
        BY <2>1, ConfigureIs DEF MailWorkerRow
      <4> QED
        BY <4>1, <4>2
    <3>2. CASE SelectSettings(p)
      <4> DEFINE g == [h EXCEPT !.pc = "resume", !.rows = setting]
      <4>1. \/ mailWorker' = [mailWorker EXCEPT ![p] = g]
            \/ mailWorker' = [mailWorker EXCEPT ![p] = Holding(h.job, "error")]
        BY <2>1, <3>2 DEF SelectSettings
      <4>2. g.job = h.job /\ g.pc # "ack"
        BY <2>1 DEF MailWorkerRow
      <4>3. /\ Holding(h.job, "error").job = h.job
            /\ Holding(h.job, "error").pc # "ack"
        BY HoldingIs
      <4> HIDE DEF g
      <4> QED
        BY <4>1, <4>2, <4>3
    <3>3. CASE FillCache(p)
      BY <2>1, <3>3, ConfigureIs DEF FillCache
    <3> QED
      BY <1>5, <3>1, <3>2, <3>3
  <2>3. /\ h.pc \in {"config", "select", "resume", "send"}
        /\ UNCHANGED <<mailQueue, sent, unsure>>
    BY <1>5 DEF GetSMTPSettings, SelectSettings, FillCache
  <2>4. PICK g : mailWorker' = [mailWorker EXCEPT ![p] = g] /\ g.job = h.job /\ g.pc # "ack"
    BY <2>2
  <2>5. /\ \A x \in Processes : x # p => mailWorker'[x] = mailWorker[x]
        /\ mailWorker'[p].job = mailWorker[p].job /\ mailWorker'[p].pc # "ack"
    BY <2>1, <2>4 DEF MailInv
  <2> QED
    BY <2>3, <2>5, GoesOn
<1>6. ASSUME NEW p \in Processes, EndMail(p) PROVE MailDelivery'
  <2>1. PICK m \in MailJobs : mailWorker[p].job = m
    BY <1>6 DEF EndMail, MailInv, MailWorkerRow, Shaped
  <2>2. mailWorker' = [mailWorker EXCEPT ![p] = MailIdle] /\ UNCHANGED <<sent, unsure>>
    BY <1>6 DEF EndMail
  <2>3. \/ /\ ~(mailQueue[m].state = "active" /\ mailQueue[m].lock = p)
           /\ UNCHANGED mailQueue
        \/ /\ mailQueue[m].state = "active" /\ mailQueue[m].lock = p
           /\ \/ mailWorker[p].pc = "ack" /\ MailPutJob(m, "completed", None)
              \/ /\ mailWorker[p].pc = "error"
                 /\ MailPutJob(m, "failed", None) \/ MailPutJob(m, "delayed", None)
    <3>1. CASE mailWorker[p].pc = "ack" /\ MailQueue!Complete(m, p)
      BY <3>1, MailCalls
    <3>2. CASE mailWorker[p].pc = "error" /\ MailQueue!Retry(m, p)
      BY <3>2, MailCalls
    <3> QED
      BY <1>6, <2>1, <3>1, <3>2 DEF EndMail
  <2>4. \A x \in Processes : mailWorker'[x] = IF x = p THEN MailIdle ELSE mailWorker[x]
    BY <2>2 DEF MailInv
  <2>5. MailIdle.pc # "ack" /\ MailIdle.job = None
    BY DEF MailIdle
  <2>6. MailDone'
    BY <2>1, <2>2, <2>3, <2>4, <2>5 DEF MailInv, MailDelivery, MailDone, MailPutJob
  <2>7. ASSUME NEW x \in MailJobs \ unsure' PROVE MailOnce(x)'
    BY <2>1, <2>2, <2>3, <2>4, <2>5, <2>7, Nones
       DEF MailInv, MailDelivery, MailOnce, MailPutJob, Undone
  <2> QED
    BY <2>6, <2>7 DEF MailDelivery
<1> QED
  BY <1>1, <1>2, <1>3, <1>4, <1>5, <1>6, SendMailDelivers DEF MailStep

Delivery == LogDelivery /\ MailDelivery

LEMMA DeliveryInit == Init => Delivery
<1> SUFFICES ASSUME Init PROVE Delivery
  OBVIOUS
<1>1. LogDelivery
  BY Nones DEF Init, LogInit, LogQueue!Init, LogQueue!Unused, LogDelivery, LogDone, LogOnce,
               LogIdle, Undone
<1>2. MailDelivery
  BY Nones DEF Init, MailQueue!Init, MailQueue!Unused, MailDelivery, MailDone, MailOnce,
               MailIdle, Undone
<1> QED
  BY <1>1, <1>2 DEF Delivery

LEMMA CrashDelivers ==
    ASSUME TypeInv, Delivery, NEW p \in Processes, Crash(p)
    PROVE  Delivery'
<1>1. /\ \A x \in Processes : logWorker'[x] = IF x = p THEN LogIdle ELSE logWorker[x]
      /\ \A x \in Processes : mailWorker'[x] = IF x = p THEN MailIdle ELSE mailWorker[x]
      /\ UNCHANGED <<logQueue, logRow, unsure, mailQueue, sent>>
  BY DEF Crash, TypeInv, LogInv, MailInv
<1>2. /\ MailIdle.pc # "ack" /\ MailIdle.job = None
      /\ LogIdle.pc # "ack" /\ LogIdle.job = None
  BY DEF MailIdle, LogIdle
<1>3. LogDelivery'
  BY <1>1, <1>2, Nones DEF Delivery, LogDelivery, LogDone, LogOnce, Inserted
<1>4. MailDelivery'
  BY <1>1, <1>2, Nones DEF Delivery, MailDelivery, MailDone, MailOnce
<1> QED
  BY <1>3, <1>4 DEF Delivery

LEMMA DeliveryStep ==
    ASSUME TypeInv, Delivery, [Next]_vars
    PROVE  Delivery'
<1>1. CASE LogNext /\ UNCHANGED mailVars
  <2>1. LogDelivery'
    BY <1>1, LogStepsDeliver DEF TypeInv, Delivery
  <2>2. \A m \in MailJobs : m \in unsure => m \in unsure'
    BY <1>1 DEF LogNext, LoginFails, TakeLog, Process, EndLog, BackoffLog, StallLog, AgeLog,
                PurgeOldLogs, PurgeActivityLogs, PurgeAuditLogs
  <2>3. MailDelivery'
    BY <1>1, <2>2 DEF Delivery, MailDelivery, MailDone, MailOnce, mailVars
  <2> QED
    BY <2>1, <2>3 DEF Delivery
<1>2. ASSUME NEW w \in Writers, WriterStep(w) PROVE Delivery'
  <2>1. UNCHANGED <<logWorker, logRow, unsure, mailQueue, mailWorker, sent>>
    BY <1>2, WriterFrame
  <2>2. (w \in LogJobs /\ Enqueue(w)) \/ UNCHANGED logQueue
    BY <1>2 DEF WriterStep, CreateSMTPSettings, ReadResult, AuditFailure, AuditEntry, Seed,
                FindSetting, SaveSetting, StatementFails, Abort, logVars, LogJobs
  <2>3. LogDelivery'
    BY <2>1, <2>2, EnqueueDelivers
       DEF TypeInv, Delivery, LogDelivery, LogDone, LogOnce, Inserted
  <2> QED
    BY <2>1, <2>3 DEF Delivery, MailDelivery, MailDone, MailOnce
<1>3. CASE MailStep
  <2>1. MailDelivery'
    BY <1>3, MailStepsDeliver DEF TypeInv, Delivery
  <2>2. UNCHANGED <<logQueue, logWorker, logRow>>
    BY <1>3, MailSteps DEF Rest
  <2>3. unsure \subseteq unsure'
    BY <1>3 DEF MailStep, SendForgotPasswordResetCode, BackoffMail, StallMail, TakeMail,
                GetSMTPSettings, SelectSettings, FillCache, SendMail, EndMail
  <2>4. LogDelivery'
    BY <2>2, <2>3 DEF Delivery, LogDelivery, LogDone, LogOnce, Inserted
  <2> QED
    BY <2>1, <2>4 DEF Delivery
<1>4. CASE Tick
  <2>1. /\ \A p \in Processes : /\ mailWorker'[p].pc = mailWorker[p].pc
                               /\ mailWorker'[p].job = mailWorker[p].job
        /\ UNCHANGED <<logVars, mailQueue, sent>>
    BY <1>4 DEF Tick, TypeInv, MailInv, MailWorkerRow
  <2> QED
    BY <2>1 DEF Delivery, LogDelivery, LogDone, LogOnce, Inserted, MailDelivery, MailDone,
                MailOnce, logVars
<1>5. CASE UNCHANGED vars
  BY <1>5 DEF Delivery, LogDelivery, LogDone, LogOnce, Inserted, MailDelivery, MailDone,
              MailOnce, vars, logVars, mailVars
<1> QED
  BY <1>1, <1>2, <1>3, <1>4, <1>5, Steps, CrashDelivers

LEMMA DeliveryHolds == Spec => [](TypeInv /\ Delivery)
<1>1. Init => TypeInv /\ Delivery
  BY TypeInit, DeliveryInit
<1>2. TypeInv /\ Delivery /\ [Next]_vars => (TypeInv /\ Delivery)'
  BY TypeStep, DeliveryStep
<1> QED
  BY <1>1, <1>2, PTL DEF Spec

\* A job that is acknowledged was done: its row inserted, its mail sent.
THEOREM AcknowledgedJobsAreDone == Spec => []AcknowledgedIsDone
<1>1. Delivery => AcknowledgedIsDone
  BY DEF Delivery, LogDelivery, LogDone, Inserted, MailDelivery, MailDone, AcknowledgedIsDone,
         LogQueue!Is, MailQueue!Is
<1> QED
  BY <1>1, DeliveryHolds, PTL

\* A job is done twice only when an attempt stalled or its answer was lost.
THEOREM JobsAreDoneOnce == Spec => []OnceUnlessUnsure
<1>1. Delivery => OnceUnlessUnsure
  BY DEF Delivery, LogDelivery, LogOnce, MailDelivery, MailOnce, OnceUnlessUnsure
<1> QED
  BY <1>1, DeliveryHolds, PTL

-----------------------------------------------------------------------------
(* What a writer that ran alone leaves behind.                             *)

\* The rows behind writer w have its version.
Written(w) ==
    /\ writer[w].pc \in {"find", "save"} =>
         \A k \in Keys : k < writer[w].key => setting[k] = VersionOf(w)
    /\ writer[w].pc = "result" => \A k \in Keys : setting[k] = VersionOf(w)

\* What request s took for the old rows, and what its entry has of it.
Told(s, old)    == old = before[s] \/ (old = NoRows /\ faults > 0)
Entered(s, old) == old = Auditable(before[s]) \/ (old = NoRows /\ faults > 0)

AloneInv ==
    /\ \A w \in alone : /\ writer[w].pc # "ready" /\ Written(w)
                        /\ \A x \in Writers : Running(w) /\ Running(x) => x = w
    /\ \A s \in AuditJobs : writer[s].pc # "done" => audit[s].status = "NONE"
    /\ \A s \in AuditJobs \cap alone : Running(s) => Told(s, writer[s].old)
    /\ \A s \in AuditJobs \cap alone :
         audit[s].status = "SUCCESS" => audit[s].new = Auditable(All(s)) /\ Entered(s, audit[s].old)
    /\ settled.version # None => /\ \A k \in Keys : setting[k] = settled.version
                                 /\ \A x \in Writers : ~Running(x)

LEMMA AloneInit == Init => AloneInv
<1> SUFFICES ASSUME Init PROVE AloneInv
  OBVIOUS
<1>1. alone = {} /\ settled.version = None
  BY DEF Init, Unsettled
<1>2. \A s \in AuditJobs : audit[s].status = "NONE"
  BY DEF Init
<1>3. \A w : w \notin alone /\ w \notin AuditJobs \cap alone
  BY <1>1
<1> QED
  BY <1>1, <1>2, <1>3, Zenon DEF AloneInv

\* Told stays true of an entry: faults are only counted up.
LEMMA ToldStays ==
    ASSUME LogInv, LogInv', faults' >= faults, NEW s, NEW old, before'[s] = before[s]
    PROVE  /\ Told(s, old) => Told(s, old)'
           /\ Entered(s, old) => Entered(s, old)'
<1>1. NoRows' = NoRows /\ Auditable(before[s])' = Auditable(before[s])
  BY DEF NoRows, Auditable, Keys
<1> QED
  BY <1>1, MaxFaultsNatural DEF LogInv, Told, Entered

\* Writer w starts.
LEMMA Started ==
    ASSUME TypeInv, TypeInv', AloneInv, faults' >= faults, NEW w \in Writers,
           writer[w].pc = "ready", Starts(w), UNCHANGED <<setting, audit>>,
           \A x \in Writers : x # w => writer'[x] = writer[x],
           writer'[w].pc = "find", writer'[w].key = 1,
           \A s \in AuditJobs : s # w => before'[s] = before[s],
           w \in AuditJobs => Told(w, writer[w].old)'
    PROVE  AloneInv'
<1>1. alone \subseteq Writers /\ w \notin alone /\ LogInv /\ LogInv'
  BY DEF TypeInv, WriterInv, AloneInv
<1>2. ASSUME NEW x \in alone', x # w
      PROVE  x \in alone /\ ~Running(x) /\ writer'[x] = writer[x]
  BY <1>1, <1>2 DEF Starts
<1>3. ASSUME w \in alone' PROVE \A x \in Writers : ~Running(x)
  BY <1>1, <1>3 DEF Starts
<1>4. settled'.version = None
  BY DEF Starts, Unsettled
<1>5. ASSUME NEW x \in alone'
      PROVE  /\ writer'[x].pc # "ready" /\ Written(x)'
             /\ \A y \in Writers : Running(x)' /\ Running(y)' => y = x
  <2>1. CASE x = w
    <3>1. Written(w)'
      <4>1. \A k \in Keys : ~(k < writer'[w].key)
        BY DEF Keys
      <4> QED
        BY <4>1 DEF Written
    <3> QED
      BY <1>3, <1>5, <2>1, <3>1 DEF Running
  <2>2. CASE x # w
    <3>1. x \in alone /\ writer[x].pc = "done" /\ writer'[x] = writer[x]
      BY <1>2, <1>5, <2>2 DEF Running, AloneInv
    <3> QED
      BY <3>1 DEF Written, Running
  <2> QED
    BY <2>1, <2>2
<1>6. \A s \in AuditJobs : writer'[s].pc # "done" => audit'[s].status = "NONE"
  BY DEF AloneInv
<1>7. ASSUME NEW s \in AuditJobs \cap alone', Running(s)' PROVE Told(s, writer[s].old)'
  BY <1>2, <1>7 DEF Running
<1>8. ASSUME NEW s \in AuditJobs \cap alone', audit'[s].status = "SUCCESS"
      PROVE  audit'[s].new = Auditable(All(s)) /\ Entered(s, audit[s].old)'
  <2>1. s # w
    BY <1>8 DEF AloneInv
  <2>2. s \in AuditJobs \cap alone /\ before'[s] = before[s] /\ audit'[s] = audit[s]
    BY <1>2, <1>8, <2>1
  <2>3. audit[s].new = Auditable(All(s)) /\ Entered(s, audit[s].old)
    BY <1>8, <2>2 DEF AloneInv
  <2>4. PICK old : old = audit[s].old
    OBVIOUS
  <2>5. Entered(s, old)'
    BY <1>1, <2>2, <2>3, <2>4, ToldStays
  <2> QED
    BY <2>2, <2>3, <2>4, <2>5 DEF Entered
<1>9. \A s : Auditable(All(s))' = Auditable(All(s))
  BY DEF All, Auditable, Keys
<1> QED
  BY <1>4, <1>5, <1>6, <1>7, <1>8, <1>9 DEF AloneInv

\* Writer w, which had started, takes a step.
LEMMA WentOn ==
    ASSUME TypeInv, TypeInv', AloneInv, faults' >= faults, NEW w \in Writers,
           Running(w), UNCHANGED <<alone, before>>,
           \A x \in Writers : x # w => writer'[x] = writer[x],
           writer'[w].pc # "ready",
           writer'[w].pc # "done" => writer'[w].old = writer[w].old,
           w \in alone => Written(w)',
           \A s \in AuditJobs : s # w => audit'[s] = audit[s],
           w \in AuditJobs =>
             \/ audit'[w] = audit[w]
             \/ /\ writer'[w].pc = "done"
                /\ w \in alone /\ audit'[w].status = "SUCCESS" =>
                     audit'[w].new = Auditable(All(w)) /\ Entered(w, audit'[w].old),
           \/ UNCHANGED settled
           \/ /\ w \in alone /\ writer'[w].pc = "done"
              /\ \A k \in Keys : setting'[k] = settled'.version
    PROVE  AloneInv'
<1>1. alone \subseteq Writers /\ LogInv /\ LogInv'
  BY DEF TypeInv, WriterInv
<1>2. writer[w].pc # "done" /\ writer[w].pc # "ready"
  BY DEF Running
<1>3. ASSUME NEW x \in alone, x # w PROVE writer'[x].pc = "done" /\ writer[x].pc = "done"
  BY <1>1, <1>3 DEF AloneInv, Running
<1>4. ASSUME NEW x \in alone'
      PROVE  /\ writer'[x].pc # "ready" /\ Written(x)'
             /\ \A y \in Writers : Running(x)' /\ Running(y)' => y = x
  <2>1. CASE x = w
    BY <1>4, <2>1 DEF AloneInv, Running
  <2>2. CASE x # w
    BY <1>3, <1>4, <2>2 DEF Written, Running
  <2> QED
    BY <2>1, <2>2
<1>5. ASSUME NEW s \in AuditJobs, writer'[s].pc # "done" PROVE audit'[s].status = "NONE"
  <2>1. CASE s = w
    BY <1>2, <1>5, <2>1 DEF AloneInv
  <2>2. CASE s # w
    BY <1>5, <2>2 DEF AloneInv
  <2> QED
    BY <2>1, <2>2
<1>6. ASSUME NEW s \in AuditJobs \cap alone', Running(s)' PROVE Told(s, writer[s].old)'
  <2>1. s = w
    BY <1>3, <1>6 DEF Running
  <2>2. Told(w, writer[w].old) /\ writer'[w].old = writer[w].old /\ before'[w] = before[w]
    BY <1>6, <2>1 DEF AloneInv, Running
  <2>3. PICK old : old = writer[w].old
    OBVIOUS
  <2>4. Told(w, old)'
    BY <1>1, <2>2, <2>3, ToldStays
  <2> QED
    BY <2>1, <2>2, <2>3, <2>4 DEF Told
<1>7. ASSUME NEW s \in AuditJobs \cap alone', audit'[s].status = "SUCCESS"
      PROVE  audit'[s].new = Auditable(All(s)) /\ Entered(s, audit[s].old)'
  <2>1. audit'[s].new = Auditable(All(s)) /\ Entered(s, audit'[s].old)
    <3>1. CASE audit'[s] = audit[s]
      BY <1>7, <3>1 DEF AloneInv
    <3>2. CASE audit'[s] # audit[s]
      BY <1>7, <3>2
    <3> QED
      BY <3>1, <3>2
  <2>2. before'[s] = before[s]
    OBVIOUS
  <2>3. PICK old : old = audit'[s].old /\ Entered(s, old)
    BY <2>1
  <2>4. Entered(s, old)'
    BY <1>1, <2>2, <2>3, ToldStays
  <2> QED
    BY <2>1, <2>3, <2>4 DEF Entered
<1>8. ASSUME settled'.version # None
      PROVE  /\ \A k \in Keys : setting'[k] = settled'.version
             /\ \A x \in Writers : ~Running(x)'
  <2>1. ~UNCHANGED settled
    BY <1>8 DEF AloneInv
  <2> QED
    BY <2>1 DEF AloneInv, Running
<1>9. \A s : Auditable(All(s))' = Auditable(All(s))
  BY DEF All, Auditable, Keys
<1> QED
  BY <1>4, <1>5, <1>6, <1>7, <1>8, <1>9 DEF AloneInv

LEMMA StepIsToOthers ==
    ASSUME WriterInv, NEW w \in Writers, NEW h, Hold(w, h)
    PROVE  writer'[w] = h /\ \A x \in Writers : x # w => writer'[x] = writer[x]
  BY DEF WriterInv, Hold

\* What NextRow does once the row of w has its version.
LEMMA NextRowWrites ==
    ASSUME TypeInv, AloneInv, NEW w \in Writers, NextRow(w),
           writer[w].pc \in {"find", "save"},
           w \in alone => /\ \A k \in Keys : k < writer[w].key => setting'[k] = VersionOf(w)
                          /\ setting'[writer[w].key] = VersionOf(w)
    PROVE  /\ \A x \in Writers : x # w => writer'[x] = writer[x]
           /\ writer'[w].pc # "ready"
           /\ writer'[w].pc # "done" => writer'[w].old = writer[w].old
           /\ w \in alone => Written(w)'
           /\ \/ UNCHANGED settled
              \/ /\ w \in alone /\ writer'[w].pc = "done"
                 /\ \A k \in Keys : setting'[k] = settled'.version
<1>1. writer[w] \in WriterRow /\ writer[w].key \in Keys /\ WriterInv
  BY DEF TypeInv, WriterInv, WriterRow
<1>2. CASE writer[w].key < KeyCount
  <2> DEFINE h == [writer[w] EXCEPT !.pc = "find", !.key = @ + 1]
  <2>1. h.pc = "find" /\ h.key = writer[w].key + 1 /\ h.old = writer[w].old
    BY <1>1 DEF WriterRow
  <2>2. Hold(w, h) /\ UNCHANGED settled
    BY <1>2 DEF NextRow
  <2> HIDE DEF h
  <2>3. writer'[w] = h /\ \A x \in Writers : x # w => writer'[x] = writer[x]
    BY <1>1, <2>2, StepIsToOthers
  <2>4. \A k \in Keys : k < writer[w].key + 1 => k < writer[w].key \/ k = writer[w].key
    BY <1>1, Numbers DEF Keys
  <2>5. w \in alone => Written(w)'
    BY <2>1, <2>3, <2>4 DEF Written, VersionOf
  <2> QED
    BY <2>1, <2>2, <2>3, <2>5
<1>3. CASE ~(writer[w].key < KeyCount)
  <2>1. w \in alone => \A k \in Keys : setting'[k] = VersionOf(w)
    <3>1. \A k \in Keys : k < writer[w].key \/ k = writer[w].key
      BY <1>1, <1>3, Numbers DEF Keys
    <3> QED
      BY <3>1
  <2>2. CASE w \in Seeds
    <3>1. Hold(w, Done) /\ Settle(w)
      BY <1>3, <2>2 DEF NextRow
    <3>2. writer'[w] = Done /\ \A x \in Writers : x # w => writer'[x] = writer[x]
      BY <1>1, <3>1, StepIsToOthers
    <3>3. Done.pc = "done"
      BY DEF Done, Ready
    <3>4. IF w \in alone THEN settled'.version = VersionOf(w) ELSE UNCHANGED settled
      BY <3>1 DEF Settle
    <3> QED
      BY <2>1, <3>2, <3>3, <3>4 DEF Written
  <2>3. CASE w \notin Seeds
    <3> DEFINE h == [writer[w] EXCEPT !.pc = "result"]
    <3>1. h.pc = "result" /\ h.old = writer[w].old
      BY <1>1 DEF WriterRow
    <3>2. Hold(w, h) /\ UNCHANGED settled
      BY <1>3, <2>3 DEF NextRow
    <3> HIDE DEF h
    <3>3. writer'[w] = h /\ \A x \in Writers : x # w => writer'[x] = writer[x]
      BY <1>1, <3>2, StepIsToOthers
    <3>4. w \in alone => Written(w)'
      BY <2>1, <3>1, <3>3 DEF Written, VersionOf
    <3> QED
      BY <3>1, <3>2, <3>3, <3>4
  <2> QED
    BY <2>2, <2>3
<1> QED
  BY <1>2, <1>3

LEMMA GivesUpIs ==
    ASSUME WriterInv, NEW w \in Writers, GivesUp(w)
    PROVE  /\ \A x \in Writers : x # w => writer'[x] = writer[x]
           /\ writer'[w].pc \in {"failed", "done"}
           /\ writer'[w].pc # "done" => writer'[w].old = writer[w].old
<1> DEFINE h == [writer[w] EXCEPT !.pc = "failed"]
<1>1. h.pc = "failed" /\ h.old = writer[w].old /\ Done.pc = "done"
  BY DEF WriterInv, WriterRow, Done, Ready
<1>2. CASE w \in Seeds
  BY <1>1, <1>2, StepIsToOthers DEF GivesUp
<1>3. CASE w \notin Seeds
  <2>1. Hold(w, h)
    BY <1>3 DEF GivesUp
  <2> HIDE DEF h
  <2> QED
    BY <1>1, <2>1, StepIsToOthers
<1> QED
  BY <1>2, <1>3

LEMMA WriterStepsAlone ==
    ASSUME TypeInv, TypeInv', AloneInv, faults' >= faults, NEW w \in Writers, WriterStep(w)
    PROVE  AloneInv'
<1>1. WriterInv /\ LogInv /\ LogInv'
  BY DEF TypeInv
<1>2. CASE w \in AuditJobs /\ CreateSMTPSettings(w)
  <2>1. PICK h \in {[Ready EXCEPT !.pc = "find", !.old = setting], [Ready EXCEPT !.pc = "find"]} :
             /\ Hold(w, h)
             /\ h.old = setting \/ (h.old = NoRows /\ Fault)
    BY <1>2 DEF CreateSMTPSettings, Ready
  <2>2. h.pc = "find" /\ h.key = 1
    BY <2>1 DEF Ready
  <2>3. h.old = setting \/ (h.old = NoRows /\ faults' > 0)
    BY <1>1, <2>1, MaxFaultsNatural DEF LogInv, Fault
  <2>4. writer'[w] = h /\ \A x \in Writers : x # w => writer'[x] = writer[x]
    BY <1>1, <2>1, StepIsToOthers
  <2>5. before'[w] = setting /\ \A s \in AuditJobs : s # w => before'[s] = before[s]
    BY <1>1, <1>2 DEF CreateSMTPSettings, WriterInv
  <2>6. NoRows' = NoRows
    BY DEF NoRows, Keys
  <2>7. Told(w, writer[w].old)'
    BY <2>3, <2>4, <2>5, <2>6 DEF Told
  <2>8. /\ writer[w].pc = "ready" /\ Starts(w) /\ UNCHANGED <<setting, audit>>
        /\ writer'[w].pc = "find" /\ writer'[w].key = 1
    BY <1>2, <2>2, <2>4 DEF CreateSMTPSettings
  <2>9. /\ \A x \in Writers : x # w => writer'[x] = writer[x]
        /\ \A s \in AuditJobs : s # w => before'[s] = before[s]
    BY <2>4, <2>5
  <2> QED
    BY <2>7, <2>8, <2>9, Started
<1>3. CASE w \in Seeds /\ Seed(w)
  <2>1. Hold(w, [Ready EXCEPT !.pc = "find"])
    BY <1>3 DEF Seed
  <2>2. writer'[w].pc = "find" /\ writer'[w].key = 1
    BY <1>1, <2>1, StepIsToOthers DEF Ready
  <2>3. \A x \in Writers : x # w => writer'[x] = writer[x]
    BY <1>1, <2>1, StepIsToOthers
  <2>4. w \notin AuditJobs
    BY <1>3, SeedsAreNotRequests
  <2> QED
    BY <1>3, <2>2, <2>3, <2>4, Started DEF Seed
<1>4. CASE FindSetting(w)
  <2>1. writer[w].pc = "find" /\ Running(w) /\ UNCHANGED <<setting, audit, alone, before>>
    BY <1>4 DEF FindSetting, Running
  <2>2. CASE w \in Seeds /\ setting[writer[w].key] = Seeded
    <3>1. NextRow(w)
      BY <1>4, <2>2 DEF FindSetting
    <3>2. w \in alone => /\ \A k \in Keys : k < writer[w].key => setting'[k] = VersionOf(w)
                         /\ setting'[writer[w].key] = VersionOf(w)
      BY <2>1, <2>2 DEF AloneInv, Written, VersionOf
    <3> QED
      BY <2>1, <3>1, <3>2, NextRowWrites, WentOn
  <2>3. CASE ~(w \in Seeds /\ setting[writer[w].key] = Seeded)
    <3> DEFINE h == [writer[w] EXCEPT !.pc = "save", !.exists = setting[writer[w].key] # None]
    <3>1. Hold(w, h) /\ UNCHANGED settled
      BY <1>4, <2>3 DEF FindSetting
    <3>2. h.pc = "save" /\ h.key = writer[w].key /\ h.old = writer[w].old
      BY <1>1 DEF WriterInv, WriterRow
    <3> HIDE DEF h
    <3>3. writer'[w] = h /\ \A x \in Writers : x # w => writer'[x] = writer[x]
      BY <1>1, <3>1, StepIsToOthers
    <3>4. w \in alone => Written(w)'
      BY <2>1, <3>2, <3>3 DEF AloneInv, Written, VersionOf
    <3> QED
      BY <2>1, <3>1, <3>2, <3>3, <3>4, WentOn
  <2> QED
    BY <2>2, <2>3
<1>5. CASE SaveSetting(w)
  <2> DEFINE k == writer[w].key
  <2>1. writer[w].pc = "save" /\ Running(w) /\ UNCHANGED <<audit, alone, before>>
    BY <1>5 DEF SaveSetting, Running
  <2>2. CASE writer[w].exists \/ setting[k] = None
    <3>1. setting' = [setting EXCEPT ![k] = VersionOf(w)] /\ NextRow(w)
      BY <1>5, <2>2 DEF SaveSetting
    <3>2. w \in alone => /\ \A i \in Keys : i < k => setting'[i] = VersionOf(w)
                         /\ setting'[k] = VersionOf(w)
      BY <1>1, <2>1, <3>1 DEF AloneInv, Written, WriterInv, WriterRow, Rows
    <3> QED
      BY <2>1, <3>1, <3>2, NextRowWrites, WentOn
  <2>3. CASE ~(writer[w].exists \/ setting[k] = None)
    <3>1. GivesUp(w) /\ UNCHANGED <<setting, settled>>
      BY <1>5, <2>3 DEF SaveSetting
    <3>2. w \in alone => Written(w)'
      BY <1>1, <3>1, GivesUpIs DEF Written
    <3> QED
      BY <1>1, <2>1, <3>1, <3>2, GivesUpIs, WentOn
  <2> QED
    BY <2>2, <2>3
<1>6. CASE StatementFails(w)
  <2>1. Running(w) /\ GivesUp(w) /\ UNCHANGED <<setting, audit, alone, before, settled>>
    BY <1>6 DEF StatementFails, Running
  <2>2. w \in alone => Written(w)'
    BY <1>1, <2>1, GivesUpIs DEF Written
  <2> QED
    BY <1>1, <2>1, <2>2, GivesUpIs, WentOn
<1>7. CASE Abort(w) \/ (w \in AuditJobs /\ (ReadResult(w) \/ AuditFailure(w)))
  <2>1. Running(w) /\ Hold(w, Done) /\ UNCHANGED <<setting, alone, before>>
    BY <1>7 DEF Abort, ReadResult, AuditFailure, Running
  <2>2. writer'[w].pc = "done" /\ \A x \in Writers : x # w => writer'[x] = writer[x]
    BY <1>1, <2>1, StepIsToOthers DEF Done, Ready
  <2>3. w \in alone => Written(w)'
    BY <2>2 DEF Written
  <2>4. CASE Abort(w)
    <3>1. UNCHANGED <<audit, settled>>
      BY <2>4 DEF Abort
    <3> QED
      BY <2>1, <2>2, <2>3, <3>1, WentOn
  <2>5. CASE w \in AuditJobs /\ AuditFailure(w)
    <3>1. /\ \A s \in AuditJobs : s # w => audit'[s] = audit[s]
          /\ audit'[w].status = "FAILURE" /\ UNCHANGED settled
      BY <1>1, <2>5 DEF AuditFailure, AuditEntry, WriterInv
    <3> QED
      BY <2>1, <2>2, <2>3, <3>1, WentOn
  <2>6. CASE w \in AuditJobs /\ ReadResult(w)
    <3>1. /\ \A s \in AuditJobs : s # w => audit'[s] = audit[s]
          /\ audit'[w].new = Auditable(setting) /\ audit'[w].old = Auditable(writer[w].old)
          /\ writer[w].pc = "result" /\ Settle(w)
      BY <1>1, <2>6 DEF ReadResult, AuditEntry, WriterInv
    <3>2. VersionOf(w) = w
      BY <2>6, SeedsAreNotRequests DEF VersionOf
    <3>3. ASSUME w \in alone PROVE \A k \in Keys : setting[k] = w
      BY <3>1, <3>2, <3>3 DEF AloneInv, Written
    <3>4. ASSUME w \in alone PROVE setting = All(w) /\ Told(w, writer[w].old)
      <4>1. setting = All(w)
        BY <1>1, <3>3, <3>4 DEF WriterInv, Rows, All
      <4> QED
        BY <2>1, <2>6, <3>4, <4>1 DEF AloneInv
    <3>6. ASSUME w \in alone
          PROVE  audit'[w].new = Auditable(All(w)) /\ Entered(w, audit'[w].old)
      BY <3>1, <3>4, <3>6, RowFacts DEF Told, Entered
    <3>5. \/ UNCHANGED settled
          \/ w \in alone /\ \A k \in Keys : setting'[k] = settled'.version
      BY <2>1, <3>1, <3>2, <3>3 DEF Settle
    <3> QED
      BY <2>1, <2>2, <2>3, <3>1, <3>5, <3>6, WentOn
  <2> QED
    BY <1>7, <2>4, <2>5, <2>6
<1> QED
  BY <1>2, <1>3, <1>4, <1>5, <1>6, <1>7 DEF WriterStep

\* Whatever else happens changes none of it.
LEMMA OthersLeaveWriters ==
    ASSUME TypeInv, TypeInv', AloneInv, faults' >= faults,
           UNCHANGED <<setting, writer, audit, alone, before>>,
           settled'.version = settled.version
    PROVE  AloneInv'
<1>1. LogInv /\ LogInv'
  BY DEF TypeInv
<1>3. \A s : Auditable(All(s))' = Auditable(All(s))
  BY DEF All, Auditable, Keys
<1>4. \A w \in Writers : (Running(w)' <=> Running(w)) /\ (Written(w)' <=> Written(w))
  BY DEF Running, Written
<1>5. ASSUME NEW s \in AuditJobs \cap alone
      PROVE  /\ Running(s)' => Told(s, writer[s].old)'
             /\ audit'[s].status = "SUCCESS" =>
                  audit'[s].new = Auditable(All(s))' /\ Entered(s, audit[s].old)'
  <2>1. PICK o, e : o = writer[s].old /\ e = audit[s].old
    OBVIOUS
  <2>2. /\ Running(s) => Told(s, o)
        /\ audit[s].status = "SUCCESS" => audit[s].new = Auditable(All(s)) /\ Entered(s, e)
    BY <2>1 DEF AloneInv
  <2>3. (Told(s, o) => Told(s, o)') /\ (Entered(s, e) => Entered(s, e)')
    BY <1>1, ToldStays
  <2>4. /\ Running(s)' => Told(s, o)'
        /\ audit[s].status = "SUCCESS" => audit[s].new = Auditable(All(s))' /\ Entered(s, e)'
    BY <1>3, <2>2, <2>3 DEF Running
  <2> QED
    BY <2>1, <2>4 DEF Told, Entered
<1> QED
  BY <1>4, <1>5 DEF AloneInv, TypeInv, WriterInv

LEMMA AloneStep ==
    ASSUME TypeInv, TypeInv', AloneInv, [Next]_vars
    PROVE  AloneInv'
<1>0. faults' >= faults
  BY TypeStep
<1>1. CASE UNCHANGED <<setting, writer, audit, alone, before, settled>>
  BY <1>0, <1>1, OthersLeaveWriters
<1>2. CASE Tick
  <2>1. settled'.version = settled.version
    BY <1>2 DEF Tick, TypeInv, WriterInv
  <2> QED
    BY <1>0, <1>2, <2>1, OthersLeaveWriters DEF Tick
<1>3. ASSUME NEW w \in Writers, WriterStep(w) PROVE AloneInv'
  BY <1>0, <1>3, WriterStepsAlone
<1>4. CASE (LogNext /\ UNCHANGED mailVars) \/ UNCHANGED vars
  BY <1>1, <1>4 DEF mailVars, vars
<1>5. CASE MailStep
  BY <1>1, <1>5, MailSteps DEF Rest
<1>6. CASE \E p \in Processes : Crash(p)
  BY <1>1, <1>6 DEF Crash
<1> QED
  BY <1>2, <1>3, <1>4, <1>5, <1>6, Steps

LEMMA AloneHolds == Spec => [](TypeInv /\ AloneInv)
<1>1. Init => TypeInv /\ AloneInv
  BY TypeInit, AloneInit
<1>2. TypeInv /\ AloneInv /\ [Next]_vars => (TypeInv /\ AloneInv)'
  BY TypeStep, AloneStep
<1> QED
  BY <1>1, <1>2, PTL DEF Spec

\* The audit entry of a save that no other writer overlapped is true.
THEOREM AuditIsTrue == Spec => []AuditTellsTheChange
<1>1. AloneInv => AuditTellsTheChange
  BY DEF AloneInv, AuditTellsTheChange, Entered
<1> QED
  BY <1>1, AloneHolds, PTL

-----------------------------------------------------------------------------
(* Mails follow settings that were left alone.                             *)

\* A cache that is younger than the settings has their rows, and so does a
\* worker that asked for them later than they were left.
FollowInv ==
    settled.version # None =>
      \A p \in Processes :
        /\ cache[p].filled /\ cache[p].age < settled.age =>
             cache[p].rows = All(settled.version)
        /\ mailWorker[p].pc = "resume" /\ mailWorker[p].asked < settled.age =>
             mailWorker[p].rows = All(settled.version)

LEMMA OlderGrows ==
    ASSUME NEW a \in 0 .. TTL, NEW b \in 0 .. TTL, Older(a) < Older(b)
    PROVE  a < b
  BY Numbers DEF Older

LEMMA SettledRows ==
    ASSUME TypeInv, AloneInv, settled.version # None
    PROVE  setting = All(settled.version)
  BY DEF TypeInv, WriterInv, AloneInv, Rows, All

\* A writer touches no cache and no worker; settings that it leaves are new.
LEMMA WriterStepsFollow ==
    ASSUME TypeInv, FollowInv, NEW w \in Writers, WriterStep(w)
    PROVE  FollowInv'
<1>1. UNCHANGED <<cache, mailWorker>>
  BY WriterFrame
<1>2. settled' = settled \/ settled'.age = 0 \/ settled'.version = None
  BY DEF WriterStep, CreateSMTPSettings, ReadResult, AuditFailure, Seed, FindSetting,
         SaveSetting, StatementFails, Abort, NextRow, Settle, Starts, Unsettled
<1>3. \A a \in 0 .. TTL : ~(a < 0)
  OBVIOUS
<1>4. \A p \in Processes : cache[p].age \in 0 .. TTL /\ mailWorker[p].asked \in 0 .. TTL
  BY DEF TypeInv, MailInv, CacheRow, MailWorkerRow
<1>5. \A v : All(v)' = All(v)
  BY DEF All, Keys
<1> QED
  BY <1>1, <1>2, <1>3, <1>4, <1>5 DEF FollowInv

LEMMA TickFollows ==
    ASSUME TypeInv, FollowInv, Tick
    PROVE  FollowInv'
<1> SUFFICES ASSUME settled'.version # None, NEW p \in Processes
             PROVE  /\ cache'[p].filled /\ cache'[p].age < settled'.age =>
                         cache'[p].rows = All(settled.version)'
                    /\ mailWorker'[p].pc = "resume" /\ mailWorker'[p].asked < settled'.age =>
                         mailWorker'[p].rows = All(settled.version)'
  BY DEF FollowInv
<1>1. /\ settled.version # None /\ settled'.version = settled.version
      /\ settled'.age = Older(settled.age) /\ settled.age \in 0 .. TTL
  BY DEF Tick, TypeInv, WriterInv
<1>2. /\ cache[p] \in CacheRow /\ mailWorker[p] \in MailWorkerRow
      /\ cache[p].age \in 0 .. TTL /\ mailWorker[p].asked \in 0 .. TTL
  BY DEF TypeInv, MailInv, CacheRow, MailWorkerRow
<1>3. All(settled.version)' = All(settled.version)
  BY <1>1 DEF All, Keys
<1>4. ASSUME cache'[p].filled, cache'[p].age < settled'.age
      PROVE  cache'[p].rows = All(settled.version)
  <2>1. /\ cache[p].filled /\ cache'[p].age = Older(cache[p].age)
        /\ cache'[p].rows = cache[p].rows
    BY <1>2, <1>4 DEF Tick, CacheRow
  <2>2. cache[p].age < settled.age
    BY <1>1, <1>2, <1>4, <2>1, OlderGrows
  <2> QED
    BY <1>1, <2>1, <2>2 DEF FollowInv
<1>5. ASSUME mailWorker'[p].pc = "resume", mailWorker'[p].asked < settled'.age
      PROVE  mailWorker'[p].rows = All(settled.version)
  <2>1. /\ mailWorker[p].pc = "resume" /\ mailWorker'[p].asked = Older(mailWorker[p].asked)
        /\ mailWorker'[p].rows = mailWorker[p].rows
    BY <1>2, <1>5 DEF Tick, MailWorkerRow
  <2>2. mailWorker[p].asked < settled.age
    BY <1>1, <1>2, <1>5, <2>1, OlderGrows
  <2> QED
    BY <1>1, <2>1, <2>2 DEF FollowInv
<1> QED
  BY <1>3, <1>4, <1>5

\* A step that leaves every cache, and every worker that waits for nothing new.
LEMMA FollowKept ==
    ASSUME TypeInv, FollowInv, UNCHANGED <<cache, settled>>,
           \A p \in Processes : mailWorker'[p].pc = "resume" => mailWorker'[p] = mailWorker[p]
    PROVE  FollowInv'
<1>1. \A v : All(v)' = All(v)
  BY DEF All, Keys
<1> QED
  BY <1>1 DEF FollowInv

LEMMA MailStepsFollow ==
    ASSUME TypeInv, AloneInv, FollowInv, MailStep
    PROVE  FollowInv'
<1>0. /\ UNCHANGED settled /\ \A v : All(v)' = All(v)
      /\ \A p \in Processes : mailWorker[p] \in MailWorkerRow /\ p \in DOMAIN mailWorker
      /\ \A p \in Processes : p \in DOMAIN cache
  BY MailSteps DEF Rest, All, Keys, TypeInv, MailInv
<1>1. ASSUME NEW m \in MailJobs, \/ SendForgotPasswordResetCode(m)
                                \/ BackoffMail(m) \/ StallMail(m)
      PROVE  FollowInv'
  BY <1>0, <1>1, FollowKept DEF SendForgotPasswordResetCode, BackoffMail, StallMail
<1>2. ASSUME NEW p \in Processes, NEW h, h.pc # "resume", UNCHANGED cache,
             mailWorker' = [mailWorker EXCEPT ![p] = h]
      PROVE  FollowInv'
  <2>1. \A x \in Processes : mailWorker'[x] = IF x = p THEN h ELSE mailWorker[x]
    BY <1>0, <1>2
  <2> QED
    BY <1>0, <1>2, <2>1, FollowKept
<1>3. ASSUME NEW p \in Processes, NEW m \in MailJobs, TakeMail(p, m) PROVE FollowInv'
  <2>1. Holding(m, "config").pc # "resume" /\ UNCHANGED cache
    BY <1>3, HoldingIs DEF TakeMail
  <2> QED
    BY <1>2, <1>3, <2>1 DEF TakeMail
<1>4. ASSUME NEW p \in Processes, GetSMTPSettings(p) PROVE FollowInv'
  <2> DEFINE h == IF Fresh(p) THEN Configure(mailWorker[p], cache[p].rows)
                              ELSE [mailWorker[p] EXCEPT !.pc = "select", !.asked = 0]
  <2>1. mailWorker' = [mailWorker EXCEPT ![p] = h] /\ UNCHANGED cache
    BY <1>0, <1>4 DEF GetSMTPSettings
  <2>2. h.pc # "resume"
    BY <1>0, ConfigureIs DEF MailWorkerRow
  <2> HIDE DEF h
  <2>3. \A x \in Processes : mailWorker'[x] = IF x = p THEN h ELSE mailWorker[x]
    BY <1>0, <2>1
  <2> QED
    BY <1>0, <2>1, <2>2, <2>3, FollowKept
<1>5. ASSUME NEW p \in Processes, SelectSettings(p) PROVE FollowInv'
  <2>1. CASE mailWorker' = [mailWorker EXCEPT ![p] = Holding(mailWorker[p].job, "error")]
    <3>1. Holding(mailWorker[p].job, "error").pc # "resume" /\ UNCHANGED cache
      BY <1>5, HoldingIs DEF SelectSettings
    <3> QED
      BY <1>2, <2>1, <3>1
  <2>2. CASE mailWorker' = [mailWorker EXCEPT ![p].pc = "resume", ![p].rows = setting]
    <3>1. /\ mailWorker'[p].rows = setting
          /\ \A x \in Processes : x # p => mailWorker'[x] = mailWorker[x]
      BY <1>0, <2>2 DEF MailWorkerRow
    <3>2. UNCHANGED cache
      BY <1>5 DEF SelectSettings
    <3>3. settled.version # None => mailWorker'[p].rows = All(settled.version)
      BY <3>1, SettledRows
    <3> QED
      BY <1>0, <3>1, <3>2, <3>3 DEF FollowInv
  <2> QED
    BY <1>0, <1>5, <2>1, <2>2 DEF SelectSettings
<1>6. ASSUME NEW p \in Processes, FillCache(p) PROVE FollowInv'
  <2> DEFINE h == Configure(mailWorker[p], mailWorker[p].rows)
  <2>1. /\ cache'[p] = [filled |-> TRUE, rows |-> mailWorker[p].rows, age |-> mailWorker[p].asked]
        /\ \A x \in Processes : x # p => cache'[x] = cache[x]
        /\ mailWorker[p].pc = "resume"
    BY <1>0, <1>6 DEF FillCache, CachedAt
  <2>2. mailWorker' = [mailWorker EXCEPT ![p] = h]
    BY <1>0, <1>6 DEF FillCache
  <2>3. h.pc # "resume"
    BY <1>0, ConfigureIs
  <2> HIDE DEF h
  <2>4. mailWorker'[p].pc # "resume" /\ \A x \in Processes : x # p => mailWorker'[x] = mailWorker[x]
    BY <1>0, <2>2, <2>3
  <2> QED
    BY <1>0, <2>1, <2>4 DEF FollowInv
<1>7. ASSUME NEW p \in Processes, SendMail(p) PROVE FollowInv'
  <2>1. PICK pc \in {"ack", "error"} :
             mailWorker' = [mailWorker EXCEPT ![p] = Holding(mailWorker[p].job, pc)]
    BY <1>7 DEF SendMail
  <2>2. Holding(mailWorker[p].job, pc).pc # "resume" /\ UNCHANGED cache
    BY <1>7, HoldingIs DEF SendMail
  <2> QED
    BY <1>2, <2>1, <2>2
<1>8. ASSUME NEW p \in Processes, EndMail(p) PROVE FollowInv'
  <2>1. MailIdle.pc # "resume"
    BY DEF MailIdle
  <2> QED
    BY <1>2, <1>8, <2>1 DEF EndMail
<1> QED
  BY <1>1, <1>3, <1>4, <1>5, <1>6, <1>7, <1>8 DEF MailStep

LEMMA CrashFollows ==
    ASSUME TypeInv, FollowInv, NEW p \in Processes, Crash(p)
    PROVE  FollowInv'
<1>1. /\ \A x \in Processes : mailWorker'[x] = IF x = p THEN MailIdle ELSE mailWorker[x]
      /\ \A x \in Processes : cache'[x] = IF x = p THEN NoCache ELSE cache[x]
      /\ UNCHANGED settled
  BY DEF Crash, TypeInv, MailInv
<1>2. MailIdle.pc # "resume" /\ ~NoCache.filled
  BY DEF MailIdle, NoCache
<1>3. \A v : All(v)' = All(v)
  BY DEF All, Keys
<1> QED
  BY <1>1, <1>2, <1>3 DEF FollowInv

LEMMA FollowStep ==
    ASSUME TypeInv, AloneInv, FollowInv, [Next]_vars
    PROVE  FollowInv'
<1>1. CASE (LogNext /\ UNCHANGED mailVars) \/ UNCHANGED vars
  BY <1>1, FollowKept DEF mailVars, vars
<1> QED
  BY <1>1, Steps, WriterStepsFollow, TickFollows, MailStepsFollow, CrashFollows

\* The step that configures a mail.
LEMMA ConfiguredFollows ==
    ASSUME TypeInv, AloneInv, FollowInv, [Next]_vars, NEW p \in Processes, Configured(p),
           settled.version # None, settled.age = TTL,
           mailWorker[p].pc = "resume" => mailWorker[p].asked < TTL
    PROVE  Chosen(p) = All(settled.version)
<1>0. /\ \A x \in Processes : mailWorker[x] \in MailWorkerRow /\ x \in DOMAIN mailWorker
      /\ \A x \in Processes : cache[x].age \in 0 .. TTL
  BY DEF TypeInv, MailInv, CacheRow
<1>1. ASSUME NEW rows, rows = All(settled.version),
             mailWorker'[p] = Configure(mailWorker[p], rows)
      PROVE  Chosen(p) = All(settled.version)
  <2> DEFINE h == mailWorker[p]
  <2>1. CASE h.stage = "from"
    <3>1. Configure(h, rows).pc = "send" /\ Configure(h, rows).rows = rows
      BY <1>0, <2>1 DEF Configure, MailWorkerRow
    <3> QED
      BY <1>1, <3>1 DEF Chosen
  <2>2. CASE h.stage # "from" /\ Enabled(rows)
    <3>1. Configure(h, rows).pc = "config" /\ Configure(h, rows).transporter = rows
      BY <2>2 DEF Configure, Holding, MailIdle
    <3> QED
      BY <1>1, <3>1 DEF Chosen
  <2>3. CASE h.stage # "from" /\ ~Enabled(rows)
    <3>1. Configure(h, rows).pc = "error" /\ Configure(h, rows).stage = "transporter"
      BY <2>3 DEF Configure, Holding, MailIdle
    <3> QED
      BY <1>1, <3>1 DEF Configured
  <2> QED
    BY <2>1, <2>2, <2>3
<1>3. ASSUME NEW h, mailWorker'[p] = h, h.stage \in {mailWorker[p].stage, "transporter"},
             h.pc # "send"
      PROVE  FALSE
  BY <1>3 DEF Configured
<1>4. ASSUME UNCHANGED mailWorker PROVE FALSE
  BY <1>4 DEF Configured
<1>5. \A m, pc : Holding(m, pc).stage = "transporter" /\ Holding(m, pc).pc = pc
  BY DEF Holding, MailIdle
<1>6. CASE MailStep
  <2>1. ASSUME NEW m \in MailJobs, \/ SendForgotPasswordResetCode(m)
                                  \/ BackoffMail(m) \/ StallMail(m)
        PROVE  FALSE
    BY <1>4, <2>1 DEF SendForgotPasswordResetCode, BackoffMail, StallMail
  <2>2. ASSUME NEW x \in Processes, \/ \E m \in MailJobs : TakeMail(x, m)
                                    \/ GetSMTPSettings(x) \/ SelectSettings(x)
                                    \/ FillCache(x) \/ SendMail(x) \/ EndMail(x)
        PROVE  x = p
    <3>1. \A y \in Processes : y # x => mailWorker'[y] = mailWorker[y]
      BY <1>0, <2>2 DEF TakeMail, GetSMTPSettings, SelectSettings, FillCache, SendMail, EndMail
    <3> QED
      BY <3>1 DEF Configured
  <2>3. ASSUME NEW m \in MailJobs, TakeMail(p, m) PROVE FALSE
    BY <1>0, <1>3, <1>5, <2>3 DEF TakeMail
  <2>4. CASE GetSMTPSettings(p)
    <3>1. CASE Fresh(p)
      <4>1. mailWorker'[p] = Configure(mailWorker[p], cache[p].rows)
        BY <1>0, <2>4, <3>1 DEF GetSMTPSettings
      <4>2. cache[p].rows = All(settled.version)
        BY <3>1 DEF Fresh, FollowInv
      <4> QED
        BY <1>1, <4>1, <4>2
    <3>2. CASE ~Fresh(p)
      <4>1. /\ mailWorker'[p].stage = mailWorker[p].stage
            /\ mailWorker'[p].pc = "select"
        BY <1>0, <2>4, <3>2 DEF GetSMTPSettings, MailWorkerRow
      <4> QED
        BY <4>1 DEF Configured
    <3> QED
      BY <3>1, <3>2
  <2>5. CASE SelectSettings(p)
    <3>1. /\ mailWorker'[p].stage \in {mailWorker[p].stage, "transporter"}
          /\ mailWorker'[p].pc # "send"
      <4>1. CASE mailWorker' = [mailWorker EXCEPT ![p] = Holding(mailWorker[p].job, "error")]
        BY <1>0, <1>5, <4>1
      <4>2. CASE mailWorker' = [mailWorker EXCEPT ![p].pc = "resume", ![p].rows = setting]
        BY <1>0, <4>2 DEF MailWorkerRow
      <4> QED
        BY <1>0, <2>5, <4>1, <4>2 DEF SelectSettings
    <3> QED
      BY <1>3, <3>1
  <2>6. CASE FillCache(p)
    <3>1. /\ mailWorker[p].pc = "resume"
          /\ mailWorker'[p] = Configure(mailWorker[p], mailWorker[p].rows)
      BY <1>0, <2>6 DEF FillCache
    <3>2. mailWorker[p].rows = All(settled.version)
      BY <3>1 DEF FollowInv
    <3> QED
      BY <1>1, <3>1, <3>2
  <2>7. CASE SendMail(p)
    <3>1. PICK pc \in {"ack", "error"} :
               mailWorker' = [mailWorker EXCEPT ![p] = Holding(mailWorker[p].job, pc)]
      BY <2>7 DEF SendMail
    <3>2. mailWorker'[p].stage = "transporter" /\ mailWorker'[p].pc = pc
      BY <1>0, <1>5, <3>1
    <3> QED
      BY <1>3, <3>2
  <2>8. CASE EndMail(p)
    <3>1. mailWorker'[p] = MailIdle
      BY <1>0, <2>8 DEF EndMail
    <3> QED
      BY <1>3, <3>1 DEF MailIdle
  <2> QED
    BY <1>6, <2>1, <2>2, <2>3, <2>4, <2>5, <2>6, <2>7, <2>8 DEF MailStep
<1>7. CASE Tick
  <2>1. mailWorker'[p].stage = mailWorker[p].stage /\ mailWorker'[p].pc = mailWorker[p].pc
    BY <1>0, <1>7 DEF Tick, MailWorkerRow
  <2> QED
    BY <2>1 DEF Configured
<1>8. ASSUME NEW x \in Processes, Crash(x) PROVE FALSE
  <2>1. mailWorker'[p] = MailIdle \/ mailWorker'[p] = mailWorker[p]
    BY <1>0, <1>8 DEF Crash
  <2> QED
    BY <2>1 DEF Configured, MailIdle
<1>9. CASE (LogNext /\ UNCHANGED mailVars) \/ UNCHANGED vars
  BY <1>4, <1>9 DEF mailVars, vars
<1>10. ASSUME NEW w \in Writers, WriterStep(w) PROVE FALSE
  BY <1>4, <1>10, WriterFrame
<1> QED
  BY <1>6, <1>7, <1>8, <1>9, <1>10, Steps

\* Every mail is configured with the settings that were left alone TTL ago.
THEOREM MailsFollow == Spec => MailsFollowSettings
<1>1. Init => TypeInv /\ AloneInv /\ FollowInv
  <2>1. Init => FollowInv
    BY DEF Init, Unsettled, FollowInv
  <2> QED
    BY <2>1, TypeInit, AloneInit
<1>2. TypeInv /\ AloneInv /\ FollowInv /\ [Next]_vars => (TypeInv /\ AloneInv /\ FollowInv)'
  BY TypeStep, AloneStep, FollowStep
<1>3. ASSUME TypeInv, AloneInv, FollowInv, [Next]_vars
      PROVE  [\A p \in Processes :
                /\ Configured(p)
                /\ settled.version # None /\ settled.age = TTL
                /\ mailWorker[p].pc = "resume" => mailWorker[p].asked < TTL
                => Chosen(p) = All(settled.version)]_vars
  BY <1>3, ConfiguredFollows
<1> QED
  BY <1>1, <1>2, <1>3, PTL DEF Spec, MailsFollowSettings

-----------------------------------------------------------------------------
(* A job is run once per attempt and once more for a stall.                *)

\* The runs a queue has given out for a job, all of them when it has ended.
Given(q) ==
    IF q.state = "unused" THEN 0
    ELSE IF q.state \in {"completed", "failed"} THEN Attempts + 1
    ELSE q.failures + (IF q.stalled THEN 1 ELSE 0) + (IF q.state = "active" THEN 1 ELSE 0)

\* The workers that have a job and have not done it yet.
LogAt(j) == {p \in Processes : logWorker[p].pc = "insert" /\ logWorker[p].job = j}

Underway == {"config", "select", "resume", "send"}
MailAt(m) == {p \in Processes : mailWorker[p].pc \in Underway /\ mailWorker[p].job = m}

\* Work done and work underway are runs that were given out.
BoundInv ==
    /\ \A j \in LogJobs : logRow[j].rows + Cardinality(LogAt(j)) <= Given(logQueue[j])
    /\ \A m \in MailJobs : sent[m] + Cardinality(MailAt(m)) <= Given(mailQueue[m])

LEMMA GivenTyped ==
    ASSUME NEW q \in JobRow, Trying(q)
    PROVE  Given(q) \in Nat /\ Given(q) <= Attempts + 1
  BY Numbers DEF Given, JobRow, Trying

\* What a call leaves of a job.
Called(q, r) ==
    \/ r = q
    \/ q.state = "unused" /\ r.state = "waiting" /\ r.failures = 0 /\ ~r.stalled
    \/ q.state = "delayed" /\ r.state = "waiting" /\ r.failures = q.failures /\ r.stalled = q.stalled
    \/ /\ q.state = "active"
       /\ \/ r.state \in {"completed", "failed"}
          \/ r.state = "delayed" /\ r.failures = q.failures + 1 /\ r.stalled = q.stalled
          \/ r.state = "waiting" /\ r.failures = q.failures /\ ~q.stalled /\ r.stalled

\* What a worker that takes it does.
Taken(q, r) ==
    q.state = "waiting" /\ r.state = "active" /\ r.failures = q.failures /\ r.stalled = q.stalled

LEMMA GivenGrows ==
    ASSUME NEW q \in JobRow, NEW r \in JobRow, Trying(q), Trying(r)
    PROVE  /\ Called(q, r) => Given(q) <= Given(r)
           /\ Taken(q, r) => Given(q) + 1 <= Given(r)
<1>1. ASSUME Called(q, r) PROVE Given(q) <= Given(r)
  BY <1>1, Numbers DEF Called, Given, JobRow, Trying
<1>2. ASSUME Taken(q, r) PROVE Given(q) + 1 <= Given(r)
  BY <1>2, Numbers DEF Taken, Given, JobRow, Trying
<1> QED
  BY <1>1, <1>2

\* n pieces of work are done, S are at it, g runs given out; then n2, T and g2:
\* somebody stops, somebody has done it, or somebody takes it.
Moves(n, n2, S, T, g, g2) ==
    \/ n2 <= n /\ T \subseteq S /\ g <= g2
    \/ \E p \in S : n2 <= n + 1 /\ T = S \ {p} /\ g <= g2
    \/ \E p : n2 = n /\ T \subseteq S \cup {p} /\ g + 1 <= g2

LEMMA MovesBounded ==
    ASSUME NEW S \in SUBSET Processes, NEW T \in SUBSET Processes,
           NEW n \in Nat, NEW n2 \in Nat, NEW g \in Nat, NEW g2 \in Nat,
           n + Cardinality(S) <= g, Moves(n, n2, S, T, g, g2)
    PROVE  n2 + Cardinality(T) <= g2
<1>1. IsFiniteSet(S) /\ Cardinality(S) \in Nat /\ IsFiniteSet(T) /\ Cardinality(T) \in Nat
  BY ProcessesAreFinite, FS_Subset, FS_CardinalityType
<1>2. CASE n2 <= n /\ T \subseteq S /\ g <= g2
  <2>1. Cardinality(T) <= Cardinality(S)
    BY <1>1, <1>2, FS_Subset
  <2> QED
    BY <1>1, <1>2, <2>1
<1>3. CASE \E p \in S : n2 <= n + 1 /\ T = S \ {p} /\ g <= g2
  <2>1. Cardinality(T) = Cardinality(S) - 1
    BY <1>1, <1>3, FS_RemoveElement
  <2> QED
    BY <1>1, <1>3, <2>1
<1>4. CASE \E p : n2 = n /\ T \subseteq S \cup {p} /\ g + 1 <= g2
  <2>1. PICK p : T \subseteq S \cup {p}
    BY <1>4
  <2>2. /\ IsFiniteSet(S \cup {p})
        /\ Cardinality(S \cup {p}) \in {Cardinality(S), Cardinality(S) + 1}
    BY <1>1, FS_AddElement
  <2>3. Cardinality(T) <= Cardinality(S \cup {p})
    BY <2>1, <2>2, FS_Subset
  <2> QED
    BY <1>1, <1>4, <2>2, <2>3
<1> QED
  BY <1>2, <1>3, <1>4 DEF Moves
LEMMA LogCalled ==
    ASSUME LogInv, NEW j \in LogJobs, NEW p
    PROVE  /\ \/ LogQueue!Add(j) \/ LogQueue!Complete(j, p) \/ LogQueue!Retry(j, p)
              \/ LogQueue!BackoffEnds(j) \/ LogQueue!Stall(j)
              => \A x \in LogJobs : Called(logQueue[x], logQueue'[x])
           /\ LogQueue!Take(j, p) =>
                /\ Taken(logQueue[j], logQueue'[j])
                /\ \A x \in LogJobs : x # j => logQueue'[x] = logQueue[x]
<1>1. ASSUME NEW state, NEW failures, NEW stalled, NEW lock,
             LogQueue!Put(j, state, failures, stalled, lock)
      PROVE  /\ logQueue'[j].state = state /\ logQueue'[j].failures = failures
             /\ logQueue'[j].stalled = stalled
             /\ \A x \in LogJobs : x # j => logQueue'[x] = logQueue[x]
  <2> DEFINE q == [state |-> state, failures |-> failures, stalled |-> stalled, lock |-> lock]
  <2>1. logQueue' = [logQueue EXCEPT ![j] = q]
    BY <1>1 DEF LogQueue!Put
  <2>2. q.state = state /\ q.failures = failures /\ q.stalled = stalled
    OBVIOUS
  <2> HIDE DEF q
  <2> QED
    BY <2>1, <2>2 DEF LogInv
<1>2. logQueue[j].stalled \in BOOLEAN
  BY DEF LogInv, JobRow
<1>3. ASSUME LogQueue!Add(j) PROVE \A x \in LogJobs : Called(logQueue[x], logQueue'[x])
  BY <1>1, <1>3 DEF LogQueue!Add, LogQueue!Is, Called
<1>4. ASSUME LogQueue!Complete(j, p) PROVE \A x \in LogJobs : Called(logQueue[x], logQueue'[x])
  BY <1>1, <1>4 DEF LogQueue!Complete, LogQueue!Locked, LogQueue!Is, Called
<1>5. ASSUME LogQueue!Retry(j, p) PROVE \A x \in LogJobs : Called(logQueue[x], logQueue'[x])
  BY <1>1, <1>5 DEF LogQueue!Retry, LogQueue!Locked, LogQueue!Is, Called
<1>6. ASSUME LogQueue!BackoffEnds(j) PROVE \A x \in LogJobs : Called(logQueue[x], logQueue'[x])
  BY <1>1, <1>6 DEF LogQueue!BackoffEnds, LogQueue!Is, Called
<1>7. ASSUME LogQueue!Stall(j) PROVE \A x \in LogJobs : Called(logQueue[x], logQueue'[x])
  BY <1>1, <1>2, <1>7 DEF LogQueue!Stall, LogQueue!Is, Called
<1>8. ASSUME LogQueue!Take(j, p)
      PROVE  /\ Taken(logQueue[j], logQueue'[j])
             /\ \A x \in LogJobs : x # j => logQueue'[x] = logQueue[x]
  BY <1>1, <1>8 DEF LogQueue!Take, LogQueue!Is, Taken
<1> QED
  BY <1>3, <1>4, <1>5, <1>6, <1>7, <1>8

\* The runs given out for job x do not become fewer.
LogGives(x) == Given(logQueue[x]) <= Given(logQueue[x])'

LEMMA LogCallsGive ==
    ASSUME LogInv, NEW j \in LogJobs, NEW p
    PROVE  /\ \/ LogQueue!Add(j) \/ LogQueue!Complete(j, p) \/ LogQueue!Retry(j, p)
              \/ LogQueue!BackoffEnds(j) \/ LogQueue!Stall(j) \/ UNCHANGED logQueue
              => \A x \in LogJobs : LogGives(x)
           /\ p \in Processes /\ LogQueue!Take(j, p) =>
                /\ \A x \in LogJobs : LogGives(x)
                /\ Given(logQueue[j]) + 1 <= Given(logQueue[j])'
<1>1. \A x \in LogJobs : logQueue[x] \in JobRow /\ Trying(logQueue[x])
  BY DEF LogInv
<1>2. \A x \in LogJobs : logQueue'[x] = logQueue[x] => LogGives(x)
  BY <1>1, GivenTyped DEF LogGives, Given
<1>3. ASSUME \/ LogQueue!Add(j) \/ LogQueue!Complete(j, p) \/ LogQueue!Retry(j, p)
             \/ LogQueue!BackoffEnds(j) \/ LogQueue!Stall(j)
      PROVE  \A x \in LogJobs : LogGives(x)
  <2>1. \A x \in LogJobs : logQueue'[x] \in JobRow /\ Trying(logQueue'[x])
    BY <1>3, LogQueueSteps DEF LogQueueOK
  <2>2. \A x \in LogJobs : Called(logQueue[x], logQueue'[x])
    BY <1>3, LogCalled
  <2>3. \A x \in LogJobs : Given(logQueue[x]) <= Given(logQueue'[x])
    BY <1>1, <2>1, <2>2, GivenGrows
  <2> QED
    BY <2>3 DEF LogGives, Given
<1>4. ASSUME p \in Processes, LogQueue!Take(j, p)
      PROVE  /\ \A x \in LogJobs : LogGives(x)
             /\ Given(logQueue[j]) + 1 <= Given(logQueue[j])'
  <2>1. logQueue'[j] \in JobRow /\ Trying(logQueue'[j])
    BY <1>4, LogQueueSteps DEF LogQueueOK
  <2>2. Given(logQueue[j]) + 1 <= Given(logQueue'[j])
    BY <1>1, <1>4, <2>1, LogCalled, GivenGrows
  <2>3. Given(logQueue[j]) + 1 <= Given(logQueue[j])'
    BY <2>2 DEF Given
  <2>4. \A x \in LogJobs : x # j => LogGives(x)
    BY <1>2, <1>4, LogCalled
  <2>5. Given(logQueue[j]) \in Nat /\ Given(logQueue'[j]) \in Nat
    BY <1>1, <2>1, GivenTyped
  <2>6. Given(logQueue[j])' = Given(logQueue'[j])
    BY DEF Given
  <2>7. LogGives(j)
    BY <2>2, <2>5, <2>6 DEF LogGives
  <2> QED
    BY <2>3, <2>4, <2>7
<1> QED
  BY <1>2, <1>3, <1>4

LEMMA MailCalled ==
    ASSUME MailInv, NEW j \in MailJobs, NEW p
    PROVE  /\ \/ MailQueue!Add(j) \/ MailQueue!Complete(j, p) \/ MailQueue!Retry(j, p)
              \/ MailQueue!BackoffEnds(j) \/ MailQueue!Stall(j)
              => \A x \in MailJobs : Called(mailQueue[x], mailQueue'[x])
           /\ MailQueue!Take(j, p) =>
                /\ Taken(mailQueue[j], mailQueue'[j])
                /\ \A x \in MailJobs : x # j => mailQueue'[x] = mailQueue[x]
<1>1. ASSUME NEW state, NEW failures, NEW stalled, NEW lock,
             MailQueue!Put(j, state, failures, stalled, lock)
      PROVE  /\ mailQueue'[j].state = state /\ mailQueue'[j].failures = failures
             /\ mailQueue'[j].stalled = stalled
             /\ \A x \in MailJobs : x # j => mailQueue'[x] = mailQueue[x]
  <2> DEFINE q == [state |-> state, failures |-> failures, stalled |-> stalled, lock |-> lock]
  <2>1. mailQueue' = [mailQueue EXCEPT ![j] = q]
    BY <1>1 DEF MailQueue!Put
  <2>2. q.state = state /\ q.failures = failures /\ q.stalled = stalled
    OBVIOUS
  <2> HIDE DEF q
  <2> QED
    BY <2>1, <2>2 DEF MailInv
<1>2. mailQueue[j].stalled \in BOOLEAN
  BY DEF MailInv, JobRow
<1>3. ASSUME MailQueue!Add(j) PROVE \A x \in MailJobs : Called(mailQueue[x], mailQueue'[x])
  BY <1>1, <1>3 DEF MailQueue!Add, MailQueue!Is, Called
<1>4. ASSUME MailQueue!Complete(j, p) PROVE \A x \in MailJobs : Called(mailQueue[x], mailQueue'[x])
  BY <1>1, <1>4 DEF MailQueue!Complete, MailQueue!Locked, MailQueue!Is, Called
<1>5. ASSUME MailQueue!Retry(j, p) PROVE \A x \in MailJobs : Called(mailQueue[x], mailQueue'[x])
  BY <1>1, <1>5 DEF MailQueue!Retry, MailQueue!Locked, MailQueue!Is, Called
<1>6. ASSUME MailQueue!BackoffEnds(j) PROVE \A x \in MailJobs : Called(mailQueue[x], mailQueue'[x])
  BY <1>1, <1>6 DEF MailQueue!BackoffEnds, MailQueue!Is, Called
<1>7. ASSUME MailQueue!Stall(j) PROVE \A x \in MailJobs : Called(mailQueue[x], mailQueue'[x])
  BY <1>1, <1>2, <1>7 DEF MailQueue!Stall, MailQueue!Is, Called
<1>8. ASSUME MailQueue!Take(j, p)
      PROVE  /\ Taken(mailQueue[j], mailQueue'[j])
             /\ \A x \in MailJobs : x # j => mailQueue'[x] = mailQueue[x]
  BY <1>1, <1>8 DEF MailQueue!Take, MailQueue!Is, Taken
<1> QED
  BY <1>3, <1>4, <1>5, <1>6, <1>7, <1>8

\* The runs given out for job x do not become fewer.
MailGives(x) == Given(mailQueue[x]) <= Given(mailQueue[x])'

LEMMA MailCallsGive ==
    ASSUME MailInv, NEW j \in MailJobs, NEW p
    PROVE  /\ \/ MailQueue!Add(j) \/ MailQueue!Complete(j, p) \/ MailQueue!Retry(j, p)
              \/ MailQueue!BackoffEnds(j) \/ MailQueue!Stall(j) \/ UNCHANGED mailQueue
              => \A x \in MailJobs : MailGives(x)
           /\ p \in Processes /\ MailQueue!Take(j, p) =>
                /\ \A x \in MailJobs : MailGives(x)
                /\ Given(mailQueue[j]) + 1 <= Given(mailQueue[j])'
<1>1. \A x \in MailJobs : mailQueue[x] \in JobRow /\ Trying(mailQueue[x])
  BY DEF MailInv
<1>2. \A x \in MailJobs : mailQueue'[x] = mailQueue[x] => MailGives(x)
  BY <1>1, GivenTyped DEF MailGives, Given
<1>3. ASSUME \/ MailQueue!Add(j) \/ MailQueue!Complete(j, p) \/ MailQueue!Retry(j, p)
             \/ MailQueue!BackoffEnds(j) \/ MailQueue!Stall(j)
      PROVE  \A x \in MailJobs : MailGives(x)
  <2>1. \A x \in MailJobs : mailQueue'[x] \in JobRow /\ Trying(mailQueue'[x])
    BY <1>3, MailQueueSteps DEF MailQueueOK
  <2>2. \A x \in MailJobs : Called(mailQueue[x], mailQueue'[x])
    BY <1>3, MailCalled
  <2>3. \A x \in MailJobs : Given(mailQueue[x]) <= Given(mailQueue'[x])
    BY <1>1, <2>1, <2>2, GivenGrows
  <2> QED
    BY <2>3 DEF MailGives, Given
<1>4. ASSUME p \in Processes, MailQueue!Take(j, p)
      PROVE  /\ \A x \in MailJobs : MailGives(x)
             /\ Given(mailQueue[j]) + 1 <= Given(mailQueue[j])'
  <2>1. mailQueue'[j] \in JobRow /\ Trying(mailQueue'[j])
    BY <1>4, MailQueueSteps DEF MailQueueOK
  <2>2. Given(mailQueue[j]) + 1 <= Given(mailQueue'[j])
    BY <1>1, <1>4, <2>1, MailCalled, GivenGrows
  <2>3. Given(mailQueue[j]) + 1 <= Given(mailQueue[j])'
    BY <2>2 DEF Given
  <2>4. \A x \in MailJobs : x # j => MailGives(x)
    BY <1>2, <1>4, MailCalled
  <2>5. Given(mailQueue[j]) \in Nat /\ Given(mailQueue'[j]) \in Nat
    BY <1>1, <2>1, GivenTyped
  <2>6. Given(mailQueue[j])' = Given(mailQueue'[j])
    BY DEF Given
  <2>7. MailGives(j)
    BY <2>2, <2>5, <2>6 DEF MailGives
  <2> QED
    BY <2>3, <2>4, <2>7
<1> QED
  BY <1>2, <1>3, <1>4
LogMoves(x) == Moves(logRow[x].rows, logRow'[x].rows, LogAt(x), LogAt(x)',
                     Given(logQueue[x]), Given(logQueue[x])')

\* Nobody takes a job or does one.
LEMMA LogRests ==
    ASSUME NEW x \in LogJobs, LogGives(x), logRow'[x].rows <= logRow[x].rows,
           \A p \in Processes : \/ logWorker'[p] = logWorker[p]
                               \/ logWorker'[p].pc # "insert"
    PROVE  LogMoves(x)
  BY DEF LogMoves, Moves, LogGives, LogAt

LEMMA LogStepsMove ==
    ASSUME LogInv, LogNext
    PROVE  \A x \in LogJobs : LogMoves(x)
<1> USE DEF LogJobs
<1>0. \A x \in LogJobs : /\ logRow[x].rows \in Nat /\ logRow[x].rows <= logRow[x].rows
                         /\ UNCHANGED logQueue => LogGives(x)
  <2>1. \A x \in LogJobs : logRow[x].rows \in Nat
    BY DEF LogInv
  <2> QED
    BY <2>1, LogCallsGive
<1>1. ASSUME NEW j \in LogJobs, Enqueue(j) \/ LogQueue!BackoffEnds(j) \/ LogQueue!Stall(j),
             UNCHANGED <<logWorker, logRow>>
      PROVE  \A x \in LogJobs : LogMoves(x)
  <2>1. \A x \in LogJobs : LogGives(x)
    BY <1>1, LogCallsGive DEF Enqueue
  <2> QED
    BY <1>0, <1>1, <2>1, LogRests
<1>2. ASSUME NEW p \in Processes, NEW j \in LogJobs, TakeLog(p, j)
      PROVE  \A x \in LogJobs : LogMoves(x)
  <2>1. /\ \A x \in LogJobs : LogGives(x)
        /\ Given(logQueue[j]) + 1 <= Given(logQueue[j])'
    BY <1>2, LogCallsGive DEF TakeLog
  <2>2. /\ logWorker' = [logWorker EXCEPT ![p] = [pc |-> "insert", job |-> j]]
        /\ UNCHANGED logRow
    BY <1>2 DEF TakeLog
  <2>3. LogMoves(j)
    <3>1. LogAt(j)' \subseteq LogAt(j) \cup {p}
      BY <2>2 DEF LogAt, LogInv
    <3> QED
      BY <2>1, <2>2, <3>1 DEF LogMoves, Moves
  <2>4. ASSUME NEW x \in LogJobs, x # j PROVE LogMoves(x)
    <3>1. LogAt(x)' \subseteq LogAt(x)
      BY <2>2, <2>4 DEF LogAt, LogInv
    <3> QED
      BY <1>0, <2>1, <2>2, <3>1 DEF LogMoves, Moves, LogGives
  <2> QED
    BY <2>3, <2>4
<1>3. ASSUME NEW p \in Processes, Process(p) PROVE \A x \in LogJobs : LogMoves(x)
  <2>0. PICK j \in LogJobs : j = logWorker[p].job
    BY <1>3 DEF Process, LogInv, LogWorkerRow
  <2>1. PICK pc \in {"ack", "error"} : logWorker' = [logWorker EXCEPT ![p].pc = pc]
    BY <1>3 DEF Process, ProcessRefused
  <2>2. logWorker[p].pc = "insert" /\ UNCHANGED logQueue
    BY <1>3 DEF Process
  <2>3. \A x \in LogJobs : LogGives(x)
    BY <1>0, <2>2
  <2>4. Save(j) \/ UNCHANGED logRow
    BY <1>3, <2>0 DEF Process
  <2>5. /\ logRow'[j].rows <= logRow[j].rows + 1
        /\ \A x \in LogJobs : x # j => logRow'[x] = logRow[x]
    BY <1>0, <2>2, <2>4 DEF Save, LogInv
  <2>6. p \in LogAt(j) /\ LogAt(j)' = LogAt(j) \ {p}
    BY <2>0, <2>1, <2>2 DEF LogAt, LogInv
  <2>7. LogMoves(j)
    BY <2>2, <2>3, <2>5, <2>6 DEF LogMoves, Moves, LogGives
  <2>8. ASSUME NEW x \in LogJobs, x # j PROVE LogMoves(x)
    <3>1. logWorker'[p].pc # "insert" /\ \A q \in Processes : q # p => logWorker'[q] = logWorker[q]
      BY <2>1 DEF LogInv, LogWorkerRow
    <3> QED
      BY <1>0, <2>3, <2>5, <2>8, <3>1, LogRests
  <2> QED
    BY <2>7, <2>8
<1>4. ASSUME NEW p \in Processes, EndLog(p) PROVE \A x \in LogJobs : LogMoves(x)
  <2>1. logWorker[p].job \in LogJobs
    BY <1>4 DEF EndLog, LogInv, LogWorkerRow
  <2>2. \A x \in LogJobs : LogGives(x)
    BY <1>4, <2>1, LogCallsGive DEF EndLog
  <2>3. /\ UNCHANGED logRow
        /\ \A q \in Processes : logWorker'[q] = logWorker[q] \/ logWorker'[q].pc # "insert"
    BY <1>4 DEF EndLog, LogInv, LogIdle
  <2> QED
    BY <1>0, <2>2, <2>3, LogRests
<1>5. ASSUME NEW j \in LogJobs, AgeLog(j) PROVE \A x \in LogJobs : LogMoves(x)
  <2>1. \A x \in LogJobs : logRow'[x].rows = logRow[x].rows
    BY <1>5 DEF AgeLog, LogInv
  <2> QED
    BY <1>0, <1>5, <2>1, LogRests DEF AgeLog
<1>6. ASSUME NEW table, PurgeOldLogs(table) PROVE \A x \in LogJobs : LogMoves(x)
  <2>1. \A x \in LogJobs : logRow'[x].rows \in {0, logRow[x].rows}
    BY <1>6 DEF PurgeOldLogs, LogInv
  <2>2. \A x \in LogJobs : logRow'[x].rows <= logRow[x].rows
    BY <1>0, <2>1
  <2> QED
    BY <1>0, <1>6, <2>2, LogRests DEF PurgeOldLogs
<1> QED
  BY <1>1, <1>2, <1>3, <1>4, <1>5, <1>6
     DEF LogNext, LoginFails, BackoffLog, StallLog, PurgeActivityLogs, PurgeAuditLogs
MailMoves(x) == Moves(sent[x], sent'[x], MailAt(x), MailAt(x)',
                      Given(mailQueue[x]), Given(mailQueue[x])')

LEMMA MailRests ==
    ASSUME NEW x \in MailJobs, MailGives(x), sent'[x] <= sent[x],
           \A p \in Processes : mailWorker'[p].pc \in Underway =>
               mailWorker[p].pc \in Underway /\ mailWorker'[p].job = mailWorker[p].job
    PROVE  MailMoves(x)
  BY DEF MailMoves, Moves, MailGives, MailAt

\* A worker goes on with its job, or leaves it.
LEMMA MailGoesOn ==
    ASSUME MailInv, NEW p \in Processes, NEW g,
           mailWorker' = [mailWorker EXCEPT ![p] = g],
           g.pc \in Underway => mailWorker[p].pc \in Underway /\ g.job = mailWorker[p].job,
           \A x \in MailJobs : MailGives(x), UNCHANGED sent
    PROVE  \A x \in MailJobs : MailMoves(x)
<1>1. \A q \in Processes : mailWorker'[q].pc \in Underway =>
          mailWorker[q].pc \in Underway /\ mailWorker'[q].job = mailWorker[q].job
  BY DEF MailInv
<1>2. \A x \in MailJobs : sent'[x] <= sent[x]
  BY DEF MailInv
<1> QED
  BY <1>1, <1>2, MailRests

LEMMA MailStepsMove ==
    ASSUME MailInv, MailStep
    PROVE  \A x \in MailJobs : MailMoves(x)
<1>0. \A x \in MailJobs : /\ sent[x] \in Nat /\ sent[x] <= sent[x]
                          /\ UNCHANGED mailQueue => MailGives(x)
  <2>1. \A x \in MailJobs : sent[x] \in Nat
    BY DEF MailInv
  <2> QED
    BY <2>1, MailCallsGive
<1>1. ASSUME NEW m \in MailJobs, SendForgotPasswordResetCode(m) \/ BackoffMail(m) \/ StallMail(m)
      PROVE  \A x \in MailJobs : MailMoves(x)
  <2>1. \A x \in MailJobs : MailGives(x)
    BY <1>1, MailCallsGive DEF SendForgotPasswordResetCode, BackoffMail, StallMail
  <2>2. UNCHANGED <<mailWorker, sent>>
    BY <1>1 DEF SendForgotPasswordResetCode, BackoffMail, StallMail
  <2> QED
    BY <1>0, <2>1, <2>2, MailRests
<1>2. ASSUME NEW p \in Processes, NEW m \in MailJobs, TakeMail(p, m)
      PROVE  \A x \in MailJobs : MailMoves(x)
  <2>1. /\ \A x \in MailJobs : MailGives(x)
        /\ Given(mailQueue[m]) + 1 <= Given(mailQueue[m])'
    BY <1>2, MailCallsGive DEF TakeMail
  <2>2. /\ mailWorker' = [mailWorker EXCEPT ![p] = Holding(m, "config")]
        /\ UNCHANGED sent
    BY <1>2 DEF TakeMail
  <2>3. MailMoves(m)
    <3>1. MailAt(m)' \subseteq MailAt(m) \cup {p}
      BY <2>2 DEF MailAt, MailInv
    <3> QED
      BY <2>1, <2>2, <3>1 DEF MailMoves, Moves
  <2>4. ASSUME NEW x \in MailJobs, x # m PROVE MailMoves(x)
    <3>1. MailAt(x)' \subseteq MailAt(x)
      BY <2>2, <2>4, HoldingIs DEF MailAt, MailInv
    <3> QED
      BY <1>0, <2>1, <2>2, <3>1 DEF MailMoves, Moves, MailGives
  <2> QED
    BY <2>3, <2>4
<1>3. ASSUME NEW p \in Processes, GetSMTPSettings(p) \/ SelectSettings(p) \/ FillCache(p)
      PROVE  \A x \in MailJobs : MailMoves(x)
  <2> DEFINE h == mailWorker[p]
  <2>1. h \in MailWorkerRow /\ h.pc \in Underway
    BY <1>3 DEF MailInv, GetSMTPSettings, SelectSettings, FillCache, Underway
  <2>2. PICK g \in {Configure(h, cache[p].rows), Configure(h, h.rows), Holding(h.job, "error"),
                    [h EXCEPT !.pc = "select", !.asked = 0],
                    [h EXCEPT !.pc = "resume", !.rows = setting]} :
            mailWorker' = [mailWorker EXCEPT ![p] = g]
    BY <1>3 DEF MailInv, GetSMTPSettings, SelectSettings, FillCache
  <2>3. UNCHANGED <<mailQueue, sent>>
    BY <1>3 DEF GetSMTPSettings, SelectSettings, FillCache
  <2>4. g.job = h.job
    <3> HIDE DEF h
    <3>1. \A r : Configure(h, r).job = h.job
      BY <2>1, ConfigureIs
    <3>2. Holding(h.job, "error").job = h.job
      BY HoldingIs
    <3>3. /\ [h EXCEPT !.pc = "select", !.asked = 0].job = h.job
          /\ [h EXCEPT !.pc = "resume", !.rows = setting].job = h.job
      BY <2>1 DEF MailWorkerRow
    <3> QED
      BY <3>1, <3>2, <3>3
  <2> QED
    BY <1>0, <2>1, <2>2, <2>3, <2>4, MailGoesOn
<1>4. ASSUME NEW p \in Processes, SendMail(p) PROVE \A x \in MailJobs : MailMoves(x)
  <2>0. PICK m \in MailJobs : m = mailWorker[p].job
    BY <1>4 DEF SendMail, MailInv, MailWorkerRow, Shaped
  <2>1. PICK pc \in {"ack", "error"} : mailWorker' = [mailWorker EXCEPT ![p] = Holding(m, pc)]
    BY <1>4, <2>0 DEF SendMail
  <2>2. mailWorker[p].pc = "send" /\ UNCHANGED mailQueue
    BY <1>4 DEF SendMail
  <2>3. \A x \in MailJobs : MailGives(x)
    BY <1>0, <2>2
  <2>4. sent' = [sent EXCEPT ![m] = @ + 1] \/ UNCHANGED sent
    BY <1>4, <2>0 DEF SendMail
  <2>5. sent'[m] <= sent[m] + 1 /\ \A x \in MailJobs : x # m => sent'[x] = sent[x]
    BY <1>0, <2>4 DEF MailInv
  <2>6. mailWorker'[p].pc \notin Underway
    BY <2>1, HoldingIs DEF MailInv, Underway
  <2>7. p \in MailAt(m) /\ MailAt(m)' = MailAt(m) \ {p}
    BY <2>0, <2>1, <2>2, <2>6 DEF MailAt, MailInv, Underway
  <2>8. MailMoves(m)
    BY <2>2, <2>3, <2>5, <2>7 DEF MailMoves, Moves, MailGives
  <2>9. ASSUME NEW x \in MailJobs, x # m PROVE MailMoves(x)
    <3>1. \A q \in Processes : q # p => mailWorker'[q] = mailWorker[q]
      BY <2>1 DEF MailInv
    <3> QED
      BY <1>0, <2>3, <2>5, <2>6, <2>9, <3>1, MailRests
  <2> QED
    BY <2>8, <2>9
<1>5. ASSUME NEW p \in Processes, EndMail(p) PROVE \A x \in MailJobs : MailMoves(x)
  <2>1. mailWorker[p].job \in MailJobs
    BY <1>5 DEF EndMail, MailInv, MailWorkerRow, Shaped
  <2>2. \A x \in MailJobs : MailGives(x)
    BY <1>5, <2>1, MailCallsGive DEF EndMail
  <2>3. UNCHANGED sent /\ mailWorker' = [mailWorker EXCEPT ![p] = MailIdle]
    BY <1>5 DEF EndMail
  <2> QED
    BY <2>2, <2>3, MailGoesOn DEF MailIdle, Underway
<1> QED
  BY <1>1, <1>2, <1>3, <1>4, <1>5 DEF MailStep

\* Crashes and time give out nothing and do nothing.
LEMMA OthersMove ==
    ASSUME LogInv, MailInv, (\E p \in Processes : Crash(p)) \/ Tick
    PROVE  /\ \A j \in LogJobs : LogMoves(j)
           /\ \A m \in MailJobs : MailMoves(m)
<1>1. UNCHANGED <<logQueue, logRow, mailQueue, sent>>
  BY DEF Crash, Tick, logVars
<1>2. \A p \in Processes : logWorker'[p] = logWorker[p] \/ logWorker'[p].pc # "insert"
  BY DEF Crash, Tick, logVars, LogInv, LogIdle
<1>3. \A p \in Processes : mailWorker'[p].pc \in Underway =>
          mailWorker[p].pc \in Underway /\ mailWorker'[p].job = mailWorker[p].job
  <2>1. CASE \E p \in Processes : Crash(p)
    BY <2>1 DEF Crash, MailInv, MailIdle, Underway
  <2>2. CASE Tick
    BY <2>2 DEF Tick, MailInv, MailWorkerRow, Underway
  <2> QED
    BY <2>1, <2>2
<1>4. ASSUME NEW j \in LogJobs PROVE LogMoves(j)
  <2>1. logRow'[j].rows <= logRow[j].rows
    BY <1>1 DEF LogInv
  <2> QED
    BY <1>1, <1>2, <2>1, LogCallsGive, LogRests
<1>5. ASSUME NEW m \in MailJobs PROVE MailMoves(m)
  <2>1. sent'[m] <= sent[m]
    BY <1>1 DEF MailInv
  <2> QED
    BY <1>1, <1>3, <2>1, MailCallsGive, MailRests
<1> QED
  BY <1>4, <1>5

\* A save may enqueue its entry.
LEMMA WritersMove ==
    ASSUME LogInv, MailInv, NEW w \in Writers, WriterStep(w)
    PROVE  /\ \A j \in LogJobs : LogMoves(j)
           /\ \A m \in MailJobs : MailMoves(m)
<1>1. UNCHANGED <<logWorker, logRow, mailQueue, mailWorker, sent>>
  BY WriterFrame
<1>2. (w \in LogJobs /\ Enqueue(w)) \/ UNCHANGED logQueue
  BY DEF WriterStep, CreateSMTPSettings, ReadResult, AuditFailure, AuditEntry, Seed,
         FindSetting, SaveSetting, StatementFails, Abort, logVars, LogJobs
<1>3. ASSUME NEW j \in LogJobs PROVE LogMoves(j)
  <2>1. logRow'[j].rows <= logRow[j].rows
    BY <1>1 DEF LogInv
  <2>2. LogGives(j)
    BY <1>2, LogCallsGive DEF Enqueue
  <2> QED
    BY <1>1, <2>1, <2>2, LogRests
<1>4. ASSUME NEW m \in MailJobs PROVE MailMoves(m)
  <2>1. sent'[m] <= sent[m]
    BY <1>1 DEF MailInv
  <2> QED
    BY <1>1, <2>1, MailCallsGive, MailRests
<1> QED
  BY <1>3, <1>4

LEMMA BoundInit == Init => BoundInv
<1> SUFFICES ASSUME Init PROVE BoundInv
  OBVIOUS
<1>1. \A j \in LogJobs : LogAt(j) = {} /\ Given(logQueue[j]) = 0 /\ logRow[j].rows = 0
  BY DEF Init, LogInit, LogIdle, LogAt, Given, LogQueue!Init, LogQueue!Unused
<1>2. \A m \in MailJobs : MailAt(m) = {} /\ Given(mailQueue[m]) = 0 /\ sent[m] = 0
  BY DEF Init, MailIdle, MailAt, Underway, Given, MailQueue!Init, MailQueue!Unused
<1>3. Cardinality({}) = 0
  BY FS_EmptySet
<1>4. \A j \in LogJobs : logRow[j].rows + Cardinality(LogAt(j)) <= Given(logQueue[j])
  BY <1>1, <1>3
<1>5. \A m \in MailJobs : sent[m] + Cardinality(MailAt(m)) <= Given(mailQueue[m])
  BY <1>2, <1>3
<1> QED
  BY <1>4, <1>5 DEF BoundInv

LEMMA BoundStep ==
    ASSUME TypeInv, TypeInv', BoundInv, [Next]_vars
    PROVE  BoundInv'
<1>1. ASSUME \A j \in LogJobs : LogMoves(j), \A m \in MailJobs : MailMoves(m)
      PROVE  BoundInv'
  <2>1. ASSUME NEW j \in LogJobs
        PROVE  (logRow[j].rows + Cardinality(LogAt(j)) <= Given(logQueue[j]))'
    <3>1. /\ logRow[j].rows \in Nat /\ logRow'[j].rows \in Nat
          /\ Given(logQueue[j]) \in Nat /\ Given(logQueue[j])' \in Nat
      <4>1. Given(logQueue'[j]) \in Nat
        BY GivenTyped DEF TypeInv, LogInv
      <4> QED
        BY <4>1, GivenTyped DEF TypeInv, LogInv, Given
    <3>2. LogAt(j) \in SUBSET Processes /\ LogAt(j)' \in SUBSET Processes
      BY DEF LogAt
    <3> QED
      BY <1>1, <3>1, <3>2, MovesBounded DEF BoundInv, LogMoves
  <2>2. ASSUME NEW m \in MailJobs
        PROVE  (sent[m] + Cardinality(MailAt(m)) <= Given(mailQueue[m]))'
    <3>1. /\ sent[m] \in Nat /\ sent'[m] \in Nat
          /\ Given(mailQueue[m]) \in Nat /\ Given(mailQueue[m])' \in Nat
      <4>1. Given(mailQueue'[m]) \in Nat
        BY GivenTyped DEF TypeInv, MailInv
      <4> QED
        BY <4>1, GivenTyped DEF TypeInv, MailInv, Given
    <3>2. MailAt(m) \in SUBSET Processes /\ MailAt(m)' \in SUBSET Processes
      BY DEF MailAt
    <3> QED
      BY <1>1, <3>1, <3>2, MovesBounded DEF BoundInv, MailMoves
  <2> QED
    BY <2>1, <2>2 DEF BoundInv
<1>2. CASE LogNext /\ UNCHANGED mailVars
  <2>1. ASSUME NEW m \in MailJobs PROVE MailMoves(m)
    <3>1. sent'[m] <= sent[m] /\ UNCHANGED <<mailQueue, mailWorker>>
      BY <1>2 DEF TypeInv, MailInv, mailVars
    <3> QED
      BY <3>1, MailCallsGive, MailRests DEF TypeInv
  <2> QED
    BY <1>1, <1>2, <2>1, LogStepsMove DEF TypeInv
<1>3. CASE MailStep
  <2>1. ASSUME NEW j \in LogJobs PROVE LogMoves(j)
    <3>1. logRow'[j].rows <= logRow[j].rows /\ UNCHANGED <<logQueue, logWorker>>
      BY <1>3, MailSteps DEF TypeInv, LogInv, Rest
    <3> QED
      BY <3>1, LogCallsGive, LogRests DEF TypeInv
  <2> QED
    BY <1>1, <1>3, <2>1, MailStepsMove DEF TypeInv
<1>4. CASE UNCHANGED vars
  BY <1>4 DEF BoundInv, LogAt, MailAt, Given, vars, logVars, mailVars
<1> QED
  BY <1>1, <1>2, <1>3, <1>4, Steps, WritersMove, OthersMove DEF TypeInv

\* However often workers are late, die or lose an answer, a job does its work once
\* per attempt and once more at most.
THEOREM JobsRunBounded == Spec => []WorkIsBounded
<1>1. TypeInv /\ BoundInv => WorkIsBounded
  <2> SUFFICES ASSUME TypeInv, BoundInv PROVE WorkIsBounded
    OBVIOUS
  <2>1. ASSUME NEW j \in LogJobs PROVE logRow[j].rows <= Attempts + 1
    <3>1. Cardinality(LogAt(j)) \in Nat
      BY ProcessesAreFinite, FS_Subset, FS_CardinalityType DEF LogAt
    <3>2. Given(logQueue[j]) \in Nat /\ Given(logQueue[j]) <= Attempts + 1
      BY GivenTyped DEF TypeInv, LogInv
    <3> QED
      BY <3>1, <3>2, Numbers DEF BoundInv, TypeInv, LogInv
  <2>2. ASSUME NEW m \in MailJobs PROVE sent[m] <= Attempts + 1
    <3>1. Cardinality(MailAt(m)) \in Nat
      BY ProcessesAreFinite, FS_Subset, FS_CardinalityType DEF MailAt
    <3>2. Given(mailQueue[m]) \in Nat /\ Given(mailQueue[m]) <= Attempts + 1
      BY GivenTyped DEF TypeInv, MailInv
    <3> QED
      BY <3>1, <3>2, Numbers DEF BoundInv, TypeInv, MailInv
  <2> QED
    BY <2>1, <2>2 DEF WorkIsBounded
<1>2. Init => TypeInv /\ BoundInv
  BY TypeInit, BoundInit
<1>3. TypeInv /\ BoundInv /\ [Next]_vars => (TypeInv /\ BoundInv)'
  BY TypeStep, BoundStep
<1> QED
  BY <1>1, <1>2, <1>3, PTL DEF Spec

=============================================================================
