-------------------------------- MODULE Mail --------------------------------
(***************************************************************************)
(* The SMTP settings of nest-forge and the mails sent with them:           *)
(* SettingService, SettingSeeder, EmailService and the mail queue.         *)
(*                                                                         *)
(* The settings are rows of settings, found and saved one by one with no   *)
(* transaction.  A process keeps them in a cache that nothing invalidates: *)
(* it is used until it is TTL old.  A mail reads them twice, once for the  *)
(* connection and once for the sender.                                     *)
(*                                                                         *)
(* A row holds the version that wrote it: the request, or Seeded.  Left    *)
(* out: the values, the text of the mail, and the mock mode, which sends   *)
(* nothing.                                                                *)
(***************************************************************************)
EXTENDS Logs

CONSTANTS
    Seeds,     \* runs of SettingSeeder; requests are named by their audit job
    Seeded,    \* the version that every run of it writes
    KeyCount,  \* the rows, in the order they are written; smtp_enabled is last
    Sensitive, \* the row smtp_password, which is kept out of the audit
    Enabling,  \* versions with smtp_enabled
    MailJobs,  \* reset codes to be mailed
    TTL        \* SMTP_CACHE_TTL_MS, in ticks

ASSUME KeyCountPositive == KeyCount \in Nat \ {0}
ASSUME TTLPositive == TTL \in Nat \ {0}
ASSUME SeedsAreNotRequests == Seeds \cap AuditJobs = {} /\ Seeded \notin AuditJobs
ASSUME EnablingAreVersions == Enabling \subseteq AuditJobs \cup {Seeded}
ASSUME NoneIsNoVersion == None \notin AuditJobs \cup {Seeded}
ASSUME NoneIsNoMail == None \notin MailJobs

VARIABLES
    setting,     \* setting[k]: the version of row k, None when it is missing
    writer,      \* writer[w]: what a request or a seeder holds
    audit,       \* audit[s]: the audit entry that request s enqueued
    cache,       \* cache[p]: smtpConfigCache of process p
    mailQueue,   \* the jobs of EMAIL_NOTIFICATION_QUEUE
    mailWorker,  \* mailWorker[p]: the job the worker of p runs, and how far
    sent,        \* sent[m]: mails sent for code m
    \* History variables: no action of the code reads them.
    alone,       \* writers that never ran at the same time as another
    before,      \* before[s]: the rows when request s started
    settled      \* the version that a writer left, alone, and for how long;
                 \* None once another has started

mailVars == <<setting, writer, audit, cache, mailQueue, mailWorker, sent,
              alone, before, settled>>
vars == <<logVars, mailVars>>

Keys     == 1 .. KeyCount
Versions == AuditJobs \cup {Seeded}
Writers  == AuditJobs \cup Seeds
Rows     == [Keys -> Versions \cup {None}]
NoRows   == [k \in Keys |-> None]
All(v)   == [k \in Keys |-> v]

\* diffAuditValues: no sensitive field; that it also leaves out what did not
\* change is not told apart here.
Auditable(rows) == [k \in Keys |-> IF k \in Sensitive THEN None ELSE rows[k]]

Enabled(rows) == rows[KeyCount] \in Enabling

MailQueue == INSTANCE JobQueue WITH
    job <- mailQueue, Jobs <- MailJobs, Workers <- Processes

Ready     == [pc |-> "ready", key |-> 1, exists |-> FALSE, old |-> NoRows]
Done      == [Ready EXCEPT !.pc = "done"]
NoCache   == [filled |-> FALSE, rows |-> NoRows, age |-> 0]
MailIdle  == [pc |-> "idle", job |-> None, stage |-> "transporter",
              asked |-> 0, rows |-> NoRows, transporter |-> NoRows]
Unsettled == [version |-> None, age |-> 0]

Running(w)  == writer[w].pc \notin {"ready", "done"}
MailHeld(m) == \E p \in Processes : mailWorker[p].job = m

TypeOK ==
    /\ LogTypeOK
    /\ MailQueue!TypeOK
    /\ unsure \subseteq LogJobs \cup MailJobs
    /\ setting \in Rows
    /\ writer \in [Writers -> [pc : {"ready", "find", "save", "result", "failed", "done"},
                               key : Keys, exists : BOOLEAN, old : Rows]]
    /\ audit \in [AuditJobs -> [status : {"NONE", "SUCCESS", "FAILURE"},
                                old : Rows, new : Rows]]
    /\ cache \in [Processes -> [filled : BOOLEAN, rows : Rows, age : 0 .. TTL]]
    /\ mailWorker \in
         [Processes -> [pc : {"idle", "config", "select", "resume", "send", "ack", "error"},
                        job : MailJobs \cup {None},
                        stage : {"transporter", "from"},
                        asked : 0 .. TTL, rows : Rows, transporter : Rows]]
    /\ \A p \in Processes :
         /\ mailWorker[p].pc = "idle" <=> mailWorker[p].job = None
         /\ mailWorker[p].stage = "from" => Enabled(mailWorker[p].transporter)
    /\ sent \in [MailJobs -> Nat]
    /\ alone \subseteq Writers
    /\ before \in [AuditJobs -> Rows]
    /\ settled \in [version : Versions \cup {None}, age : 0 .. TTL]

\* A new database, or a seeded one.
Init ==
    /\ LogInit
    /\ MailQueue!Init
    /\ unsure = {}
    /\ setting \in {NoRows, All(Seeded)}
    /\ writer = [w \in Writers |-> Ready]
    /\ audit = [s \in AuditJobs |-> [status |-> "NONE", old |-> NoRows, new |-> NoRows]]
    /\ cache = [p \in Processes |-> NoCache]
    /\ mailWorker = [p \in Processes |-> MailIdle]
    /\ sent = [m \in MailJobs |-> 0]
    /\ alone = {}
    /\ before = [s \in AuditJobs |-> NoRows]
    /\ settled = Unsettled

-----------------------------------------------------------------------------
(* Saving the settings: SettingService.createSMTPSettings, SettingSeeder.  *)

VersionOf(w) == IF w \in Seeds THEN Seeded ELSE w

\* History: w starts; from now on the settings are on the move.
Starts(w) ==
    /\ alone' = IF \E x \in Writers : Running(x)
                THEN {x \in alone : ~Running(x)} ELSE alone \cup {w}
    /\ settled' = Unsettled

Settle(w) == settled' = IF w \in alone THEN [version |-> VersionOf(w), age |-> 0]
                                       ELSE settled

Hold(w, held) == writer' = [writer EXCEPT ![w] = held]

\* The old settings are read for the audit; when that fails there are none.
CreateSMTPSettings(s) ==
    /\ writer[s].pc = "ready"
    /\ \/ Hold(s, [Ready EXCEPT !.pc = "find", !.old = setting]) /\ UNCHANGED faults
       \/ Hold(s, [Ready EXCEPT !.pc = "find"]) /\ Fault
    /\ Starts(s)
    /\ before' = [before EXCEPT ![s] = setting]
    /\ UNCHANGED <<logQueue, logWorker, logRow, unsure, setting, audit, cache,
                   mailQueue, mailWorker, sent>>

Seed(d) ==
    /\ writer[d].pc = "ready"
    /\ Hold(d, [Ready EXCEPT !.pc = "find"])
    /\ Starts(d)
    /\ UNCHANGED <<logVars, setting, audit, cache, mailQueue, mailWorker, sent,
                   before>>

\* Mutant: the loop is a forEach, nobody waits for the other rows.
NextRowUnawaited(w) ==
    /\ Hold(w, [writer[w] EXCEPT !.pc = "result"])
    /\ UNCHANGED settled

\* The loop goes on, or ends: a request reads the rows again, a seeder is done.
NextRow(w) ==
    IF writer[w].key < KeyCount
    THEN /\ Hold(w, [writer[w] EXCEPT !.pc = "find", !.key = @ + 1])
         /\ UNCHANGED settled
    ELSE IF w \in Seeds
    THEN Hold(w, Done) /\ Settle(w)
    ELSE /\ Hold(w, [writer[w] EXCEPT !.pc = "result"])
         /\ UNCHANGED settled

\* A seeder leaves alone a row that has its value.
FindSetting(w) ==
    LET found == setting[writer[w].key]
    IN  /\ writer[w].pc = "find"
        /\ IF w \in Seeds /\ found = Seeded
           THEN NextRow(w)
           ELSE /\ Hold(w, [writer[w] EXCEPT !.pc = "save", !.exists = found # None])
                /\ UNCHANGED settled
        /\ UNCHANGED <<logVars, setting, audit, cache, mailQueue, mailWorker,
                       sent, alone, before>>

\* A request goes on to its catch block, a seeder exits.
GivesUp(w) == Hold(w, IF w \in Seeds THEN Done ELSE [writer[w] EXCEPT !.pc = "failed"])

\* An UPDATE of a row that was found, or the INSERT of one that was not: the
\* unique index on key refuses it when another writer was first.
SaveSetting(w) ==
    LET k == writer[w].key
    IN  /\ writer[w].pc = "save"
        /\ IF writer[w].exists \/ setting[k] = None
           THEN setting' = [setting EXCEPT ![k] = VersionOf(w)] /\ NextRow(w)
           ELSE GivesUp(w) /\ UNCHANGED <<setting, settled>>
        /\ UNCHANGED <<logVars, audit, cache, mailQueue, mailWorker, sent,
                       alone, before>>

\* A statement fails; the rows saved before it stay.
StatementFails(w) ==
    /\ writer[w].pc \in {"find", "save", "result"}
    /\ GivesUp(w)
    /\ Fault
    /\ UNCHANGED <<logQueue, logWorker, logRow, unsure, setting, audit, cache,
                   mailQueue, mailWorker, sent, alone, before, settled>>

AuditEntry(s, entry) == Enqueue(s) /\ audit' = [audit EXCEPT ![s] = entry]

\* The rows are read again, compared with the old ones and enqueued with them.
\* Nobody reads what s holds between the two, they are one step.
ReadResult(s) ==
    /\ writer[s].pc = "result"
    /\ AuditEntry(s, [status |-> "SUCCESS", old |-> Auditable(writer[s].old),
                      new |-> Auditable(setting)])
    /\ Hold(s, Done)
    /\ Settle(s)
    /\ UNCHANGED <<logWorker, logRow, unsure, setting, cache, mailQueue,
                   mailWorker, sent, alone, before>>

AuditFailure(s) ==
    /\ writer[s].pc = "failed"
    /\ AuditEntry(s, [status |-> "FAILURE", old |-> NoRows, new |-> NoRows])
    /\ Hold(s, Done)
    /\ UNCHANGED <<logWorker, logRow, unsure, setting, cache, mailQueue,
                   mailWorker, sent, alone, before, settled>>

\* The process of w dies.
Abort(w) ==
    /\ Running(w)
    /\ Hold(w, Done)
    /\ Fault
    /\ UNCHANGED <<logQueue, logWorker, logRow, unsure, setting, audit, cache,
                   mailQueue, mailWorker, sent, alone, before, settled>>

-----------------------------------------------------------------------------
(* Sending a mail: ForgotPasswordCodeListener, EmailProcessor, EmailService. *)

\* The listener runs after the request: a rejected add is only logged.
SendForgotPasswordResetCode(m) ==
    /\ MailQueue!Is(m, "unused")
    /\ \/ MailQueue!Add(m) /\ UNCHANGED faults
       \/ Fault /\ UNCHANGED mailQueue
    /\ UNCHANGED <<logQueue, logWorker, logRow, unsure, setting, writer, audit,
                   cache, mailWorker, sent, alone, before, settled>>

\* A step of the worker of p that touches nothing but its job.
WorkerOnly ==
    UNCHANGED <<logQueue, logWorker, logRow, setting, writer, audit, alone,
                before, settled>>

\* What a worker holds of job m before the first reading and after the last.
Holding(m, pc) == [MailIdle EXCEPT !.pc = pc, !.job = m]

TakeMail(p, m) ==
    /\ mailWorker[p].pc = "idle"
    /\ MailQueue!Take(m, p)
    /\ mailWorker' = [mailWorker EXCEPT ![p] = Holding(m, "config")]
    /\ WorkerOnly /\ UNCHANGED <<cache, sent, faults, unsure>>

\* Mutant: smtpEnabled is not looked at.
ConfigureAlways(held, rows) ==
    IF held.stage = "from"
    THEN [held EXCEPT !.pc = "send", !.rows = rows]
    ELSE [Holding(held.job, "config") EXCEPT !.stage = "from", !.transporter = rows]

\* getTransporter refuses settings that are not enabled; the second reading
\* gives the sender.
Configure(held, rows) ==
    IF held.stage = "from"
    THEN [held EXCEPT !.pc = "send", !.asked = 0, !.rows = rows]
    ELSE IF Enabled(rows)
    THEN [Holding(held.job, "config") EXCEPT !.stage = "from", !.transporter = rows]
    ELSE Holding(held.job, "error")

Fresh(p) == cache[p].filled /\ cache[p].age < TTL

\* getSMTPSettings: the cache answers, or the rows are asked for.
GetSMTPSettings(p) ==
    /\ mailWorker[p].pc = "config"
    /\ mailWorker' = [mailWorker EXCEPT ![p] =
                          IF Fresh(p) THEN Configure(@, cache[p].rows)
                                      ELSE [@ EXCEPT !.pc = "select", !.asked = 0]]
    /\ WorkerOnly /\ UNCHANGED <<mailQueue, cache, sent, faults, unsure>>

\* The database answers, or the statement fails.
SelectSettings(p) ==
    /\ mailWorker[p].pc = "select"
    /\ \/ /\ mailWorker' = [mailWorker EXCEPT ![p].pc = "resume", ![p].rows = setting]
          /\ UNCHANGED faults
       \/ mailWorker' = [mailWorker EXCEPT ![p] = Holding(@.job, "error")] /\ Fault
    /\ WorkerOnly /\ UNCHANGED <<mailQueue, cache, sent, unsure>>

\* Mutant: the cache is dated when the answer arrives.
CachedOnAnswer(p) == 0

\* smtpConfigCachedAt is the time before the SELECT.
CachedAt(p) == mailWorker[p].asked

FillCache(p) ==
    /\ mailWorker[p].pc = "resume"
    /\ cache' = [cache EXCEPT ![p] =
                     [filled |-> TRUE, rows |-> mailWorker[p].rows, age |-> CachedAt(p)]]
    /\ mailWorker' = [mailWorker EXCEPT ![p] = Configure(@, @.rows)]
    /\ WorkerOnly /\ UNCHANGED <<mailQueue, sent, faults, unsure>>

\* sendMail: sent, refused, or sent with the answer lost.
SendMail(p) ==
    LET m == mailWorker[p].job
        Goto(pc) == mailWorker' = [mailWorker EXCEPT ![p] = Holding(m, pc)]
        Sent == sent' = [sent EXCEPT ![m] = @ + 1]
    IN  /\ mailWorker[p].pc = "send"
        /\ \/ Sent /\ Goto("ack") /\ UNCHANGED <<faults, unsure>>
           \/ Fault /\ Goto("error") /\ UNCHANGED <<sent, unsure>>
           \/ Fault /\ Goto("error") /\ Sent /\ unsure' = unsure \cup {m}
        /\ WorkerOnly /\ UNCHANGED <<mailQueue, cache>>

\* Mutant: an attempt that throws is never answered.
EndMailSent(p) ==
    /\ mailWorker[p].pc = "ack"
    /\ MailQueue!Complete(mailWorker[p].job, p)
    /\ mailWorker' = [mailWorker EXCEPT ![p] = MailIdle]
    /\ WorkerOnly /\ UNCHANGED <<cache, sent, faults, unsure>>

EndMail(p) ==
    /\ \/ mailWorker[p].pc = "ack"   /\ MailQueue!Complete(mailWorker[p].job, p)
       \/ mailWorker[p].pc = "error" /\ MailQueue!Retry(mailWorker[p].job, p)
    /\ mailWorker' = [mailWorker EXCEPT ![p] = MailIdle]
    /\ WorkerOnly /\ UNCHANGED <<cache, sent, faults, unsure>>

BackoffMail(m) ==
    /\ MailQueue!BackoffEnds(m)
    /\ WorkerOnly /\ UNCHANGED <<mailWorker, cache, sent, faults, unsure>>

StallMail(m) ==
    /\ MailQueue!Stall(m)
    /\ IF MailHeld(m) THEN Fault ELSE UNCHANGED faults
    /\ unsure' = unsure \cup {m}
    /\ WorkerOnly /\ UNCHANGED <<mailWorker, cache, sent>>

-----------------------------------------------------------------------------
\* Process p dies and starts again: its workers are idle, its cache is empty.
Crash(p) ==
    /\ Fault
    /\ logWorker' = [logWorker EXCEPT ![p] = LogIdle]
    /\ mailWorker' = [mailWorker EXCEPT ![p] = MailIdle]
    /\ cache' = [cache EXCEPT ![p] = NoCache]
    /\ UNCHANGED <<logQueue, logRow, unsure, setting, writer, audit, mailQueue,
                   sent, alone, before, settled>>

Older(age) == IF age < TTL THEN age + 1 ELSE age

\* Time passes; ages are counted up to TTL.
Tick ==
    /\ cache' = [p \in Processes |-> IF cache[p].filled
                     THEN [cache[p] EXCEPT !.age = Older(@)] ELSE cache[p]]
    /\ mailWorker' = [p \in Processes |-> IF mailWorker[p].pc \in {"select", "resume"}
                          THEN [mailWorker[p] EXCEPT !.asked = Older(@)] ELSE mailWorker[p]]
    /\ settled' = IF settled.version # None
                  THEN [settled EXCEPT !.age = Older(@)] ELSE settled
    /\ UNCHANGED <<logVars, setting, writer, audit, mailQueue, sent, alone, before>>

Next ==
    \/ LogNext /\ UNCHANGED mailVars
    \/ \E s \in AuditJobs : CreateSMTPSettings(s) \/ ReadResult(s) \/ AuditFailure(s)
    \/ \E d \in Seeds : Seed(d)
    \/ \E w \in Writers : \/ FindSetting(w) \/ SaveSetting(w)
                          \/ StatementFails(w) \/ Abort(w)
    \/ \E m \in MailJobs : \/ SendForgotPasswordResetCode(m)
                           \/ BackoffMail(m) \/ StallMail(m)
    \/ \E p \in Processes, m \in MailJobs : TakeMail(p, m)
    \/ \E p \in Processes : \/ GetSMTPSettings(p) \/ SelectSettings(p) \/ FillCache(p)
                            \/ SendMail(p) \/ EndMail(p) \/ Crash(p)
    \/ Tick

Spec == Init /\ [][Next]_vars

RunLog(p) == (\E j \in LogJobs : TakeLog(p, j)) \/ Process(p) \/ EndLog(p)
WakeLog(j) == BackoffLog(j) \/ (StallLog(j) /\ ~LogHeld(j))
RunMail(p) == \/ \E m \in MailJobs : TakeMail(p, m)
              \/ GetSMTPSettings(p) \/ SelectSettings(p) \/ FillCache(p)
              \/ SendMail(p) \/ EndMail(p)
WakeMail(m) == BackoffMail(m) \/ (StallMail(m) /\ ~MailHeld(m))

\* The workers go on, a backoff ends, and a job whose worker died is found.
Fairness ==
    /\ \A p \in Processes : /\ WF_vars(RunLog(p) /\ UNCHANGED mailVars)
                           /\ WF_vars(RunMail(p))
    /\ \A j \in LogJobs : WF_vars(WakeLog(j) /\ UNCHANGED mailVars)
    /\ \A m \in MailJobs : WF_vars(WakeMail(m))

FairSpec == Spec /\ Fairness

-----------------------------------------------------------------------------
(* Properties. *)

\* A job that its worker acknowledged did its work, whatever failed, stalled or
\* ran twice before: the log row was inserted (and is there until the retention
\* ends), the mail was handed to the SMTP server.
AcknowledgedIsDone ==
    /\ \A j \in LogJobs :
         LogQueue!Is(j, "completed") => logRow[j].old \/ logRow[j].rows > 0
    /\ \A m \in MailJobs : MailQueue!Is(m, "completed") => sent[m] > 0

\* Retries alone duplicate nothing: an entry has two rows, or a code two mails,
\* only when a lock expired during an attempt or its answer was lost.
OnceUnlessUnsure ==
    /\ \A j \in LogJobs \ unsure : logRow[j].rows <= 1
    /\ \A m \in MailJobs \ unsure : sent[m] <= 1

\* A job does its work once per attempt and once more for a stall, and no more
\* often, whatever workers are late, die or lose an answer meanwhile.
WorkIsBounded ==
    /\ \A j \in LogJobs : logRow[j].rows <= Attempts + 1
    /\ \A m \in MailJobs : sent[m] <= Attempts + 1

\* The audit entry of a save that ran alone and succeeded has what the save
\* found, unless that read failed, and what it wrote, every row that it may show.
AuditTellsTheChange ==
    \A s \in AuditJobs \cap alone :
        audit[s].status = "SUCCESS" =>
            /\ audit[s].new = Auditable(All(s))
            /\ \/ audit[s].old = Auditable(before[s])
               \/ audit[s].old = NoRows /\ faults > 0

\* Settings that one writer left, alone, TTL ago or earlier are those that every
\* mail is configured with from then on, in all rows, for the connection and
\* for the sender, unless the SELECT of the mail itself took that long.
Configured(p) ==
    \/ mailWorker[p].stage = "transporter" /\ mailWorker'[p].stage = "from"
    \/ mailWorker[p].pc # "send" /\ mailWorker'[p].pc = "send"

Chosen(p) == IF mailWorker'[p].pc = "send" THEN mailWorker'[p].rows
                                           ELSE mailWorker'[p].transporter

MailsFollowSettings ==
    [][\A p \in Processes :
          /\ Configured(p)
          /\ settled.version # None /\ settled.age = TTL
          /\ mailWorker[p].pc = "resume" => mailWorker[p].asked < TTL
          => Chosen(p) = All(settled.version)]_vars

\* Every job a queue took ends, completed or failed: no fault, wait or retry
\* leaves one behind.
AcceptedJobsEnd ==
    /\ \A j \in LogJobs : LogQueue!Is(j, "waiting") ~> LogQueue!Ended(j)
    /\ \A m \in MailJobs : MailQueue!Is(m, "waiting") ~> MailQueue!Ended(m)

\* docs/security-standards.md names login failures among the events that are
\* logged.  A failed login of a phone nobody has is enqueued, but no attempt
\* can insert it.
NoLogEntryIsDropped == \A j \in LogJobs : ~LogQueue!Is(j, "failed")

=============================================================================
