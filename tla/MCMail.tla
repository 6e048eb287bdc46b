------------------------------- MODULE MCMail -------------------------------
(* A small instance of Mail, and with it of Logs, for TLC. *)
EXTENDS Mail, Integers, FiniteSets

Started == {w \in Writers : writer[w].pc # "ready"}
Mailer  == CHOOSE p \in Processes : TRUE
Busy    == {p \in Processes : \/ logWorker[p].pc # "idle"
                              \/ mailWorker[p].pc # "idle" \/ cache[p].filled
                              \/ \E m \in MailJobs : mailQueue[m].lock = p}
NoMail  == \A m \in MailJobs : MailQueue!Is(m, "unused")
NoLog   == \A j \in LogJobs : logQueue[j].state \in {"unused", "waiting"}

\* Four slices: log entries run by two processes, one of them from a save; two
\* writers and what they enqueue; the mails of one process with a save or a
\* seeder; and, with a third fault, the entry of a save that is over.
LogSlice    == NoMail /\ Cardinality(Started) <= 1
WriterSlice == NoMail /\ NoLog /\ Cardinality(Started) <= 2
MailSlice   == /\ NoLog /\ \A j \in ActivityJobs : LogQueue!Is(j, "unused")
               /\ Cardinality(Started) <= 1 /\ Busy \subseteq {Mailer}

FaultSlice  == /\ NoMail /\ \A j \in ActivityJobs : LogQueue!Is(j, "unused")
               /\ Cardinality(Started) <= 1 /\ Started \subseteq AuditJobs
               /\ \A w \in Started : ~Running(w) /\ setting # NoRows

ThirdFault == faults' > 2 => FaultSlice'

Slices == \/ faults <= 2 /\ (LogSlice \/ WriterSlice \/ MailSlice)
          \/ FaultSlice

=============================================================================
