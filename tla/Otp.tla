-------------------------------- MODULE Otp --------------------------------
(***************************************************************************)
(* One-time codes of nest-forge: OtpService and the send and verify        *)
(* handlers of PasswordResetService.                                       *)
(*                                                                         *)
(* A verification reads a record, decides on what it read and saves the    *)
(* whole record, for a user after a call to the SMS provider.  Nothing     *)
(* locks the record in between.  save is an upsert: it puts a row that the *)
(* nightly cron deleted meanwhile back into the table.                     *)
(*                                                                         *)
(* Left out: the code itself (a guess is right or wrong for the record that*)
(* is read), the mail and SMS texts, the JWT a verification answers with,  *)
(* and the service methods no handler calls.  A send always returns a      *)
(* requestId or fails, so every user record has one.                       *)
(***************************************************************************)
EXTENDS Naturals

CONSTANTS
    Users, Admins,   \* owners of records
    Requests,        \* concurrent verify handlers
    MaxRecords,      \* bound on the codes ever sent
    MaxAttempts,     \* default of maxAttempts, 3 in the code
    None

Subjects == Users \cup Admins

ASSUME BoundsAreNaturals == MaxRecords \in Nat /\ MaxAttempts \in Nat
ASSUME NoneIsNoSubject == None \notin Subjects

\* Records are numbered by createdAt.
Records == 1 .. MaxRecords

VARIABLES
    otpRecord,  \* otpRecord[o]: the row of record o
    request,    \* request[r]: the record handler r holds, as it will save it
    \* History variables: no action of the code reads them.
    contended,  \* records two handlers held at the same time
    guesses,    \* guesses[o]: codes compared with o, as long as o is not contended
    answered    \* answered[o]: verifications of o that succeeded, likewise

vars == <<otpRecord, request, contended, guesses, answered>>

\* markUsed has no caller: no record becomes USED.
OtpStatus == {"PENDING", "VERIFIED", "EXPIRED", "USED"}

Unused == [state |-> "unused", subject |-> None, status |-> "PENDING",
           attempts |-> 0, age |-> "fresh"]
Idle   == [pc |-> "idle", record |-> 0, status |-> "PENDING", attempts |-> 0]

Stored(o)   == otpRecord[o].state = "stored"
Holds(r, o) == request[r].pc # "idle" /\ request[r].record = o

TypeOK ==
    /\ otpRecord \in
         [Records -> [state : {"unused", "stored", "purged"},
                      subject : Subjects \cup {None},
                      status : OtpStatus,
                      attempts : 0 .. MaxAttempts,
                      age : {"fresh", "expired", "week"}]]
    /\ request \in
         [Requests -> [pc : {"idle", "provider", "save"},
                       record : Records \cup {0},
                       status : OtpStatus,
                       attempts : 0 .. MaxAttempts]]
    /\ contended \in SUBSET Records
    /\ guesses \in [Records -> Nat]
    /\ answered \in [Records -> Nat]

Init ==
    /\ otpRecord = [o \in Records |-> Unused]
    /\ request = [r \in Requests |-> Idle]
    /\ contended = {}
    /\ guesses = [o \in Records |-> 0]
    /\ answered = [o \in Records |-> 0]

-----------------------------------------------------------------------------
(* Sending a code. *)

\* The INSERT of the next record; createdAt is the database's clock.
Create(s) ==
    \E o \in Records :
        /\ otpRecord[o].state = "unused"
        /\ \A x \in Records : x < o => otpRecord[x].state # "unused"
        /\ otpRecord' = [otpRecord EXCEPT ![o] =
               [Unused EXCEPT !.state = "stored", !.subject = s]]
        /\ UNCHANGED <<request, contended, guesses, answered>>

\* Earlier pending records stay pending; the mail is queued afterwards.
PasswordResetOTPSend == \E a \in Admins : Create(a)

\* The SMS is sent first; when that fails nothing is stored.
UserPasswordResetOTPSend == \E u \in Users : Create(u)

-----------------------------------------------------------------------------
(* Verifying a code. *)

Pending(s) == {o \in Records : /\ Stored(o)
                               /\ otpRecord[o].subject = s
                               /\ otpRecord[o].status = "PENDING"}

\* findPending, findPendingOTPByAnySubject: the newest pending record of s.
IsNewestPending(o, s) == o \in Pending(s) /\ \A x \in Pending(s) : x <= o

\* Mutant: the limit is tested with > instead of >=.
RefusedAbove(o) ==
    otpRecord[o].age # "fresh" \/ otpRecord[o].attempts > MaxAttempts

\* Mutant: the time of the code is not looked at.
RefusedSpent(o) == otpRecord[o].attempts >= MaxAttempts

\* Expired or out of attempts: the record is saved as EXPIRED, the code is
\* not compared.
Refused(o) == otpRecord[o].age # "fresh" \/ otpRecord[o].attempts >= MaxAttempts

Counted(count, o) ==
    [count EXCEPT ![o] = IF o \in contended' THEN 0 ELSE @ + 1]

\* r has read o and will save it with this status and this many attempts.
Take(r, o, pc, status, attempts) ==
    /\ request[r].pc = "idle"
    /\ request' = [request EXCEPT ![r] =
           [pc |-> pc, record |-> o, status |-> status, attempts |-> attempts]]
    /\ contended' = IF \E q \in Requests : Holds(q, o)
                    THEN contended \cup {o} ELSE contended
    /\ UNCHANGED <<otpRecord, answered>>

Refuse(r, o) ==
    /\ Refused(o)
    /\ Take(r, o, "save", "EXPIRED", otpRecord[o].attempts)
    /\ UNCHANGED guesses

Guess(r, o, pc, status) ==
    /\ ~Refused(o)
    /\ Take(r, o, pc, status, otpRecord[o].attempts + 1)
    /\ guesses' = Counted(guesses, o)

\* The hash is compared in the same step, there is no await before the save.
VerifyPasswordResetOTPCode(r, s, right) ==
    \E o \in Records :
        /\ IsNewestPending(o, s)
        /\ \/ Refuse(r, o)
           \/ Guess(r, o, "save", IF right THEN "VERIFIED" ELSE "PENDING")

UserVerifyPasswordResetOTPCode(r, u) ==
    \E o \in Records :
        /\ IsNewestPending(o, u)
        /\ Refuse(r, o) \/ Guess(r, o, "provider", "PENDING")

\* The provider accepts the code, or it rejects it, fails or times out.
VerifyFn(r, accepted) ==
    /\ request[r].pc = "provider"
    /\ request' = [request EXCEPT ![r].pc = "save",
                       ![r].status = IF accepted THEN "VERIFIED" ELSE @]
    /\ UNCHANGED <<otpRecord, contended, guesses, answered>>

\* Mutant: a wrong code saves nothing.
SaveWhenVerified(r) ==
    LET o == request[r].record
    IN  /\ request[r].pc = "save"
        /\ otpRecord' = IF request[r].status = "PENDING" THEN otpRecord
               ELSE [otpRecord EXCEPT ![o].state = "stored",
                        ![o].status = request[r].status,
                        ![o].attempts = request[r].attempts]
        /\ request' = [request EXCEPT ![r] = Idle]
        /\ answered' = IF request[r].status = "VERIFIED"
                       THEN Counted(answered, o) ELSE answered
        /\ UNCHANGED <<contended, guesses>>

\* Mutant: the attempts are saved, the new status is not.
SaveAttempts(r) ==
    LET o == request[r].record
    IN  /\ request[r].pc = "save"
        /\ otpRecord' = [otpRecord EXCEPT ![o].state = "stored",
                             ![o].attempts = request[r].attempts]
        /\ request' = [request EXCEPT ![r] = Idle]
        /\ contended' = contended
        /\ answered' = IF request[r].status = "VERIFIED"
                       THEN Counted(answered, o) ELSE answered
        /\ UNCHANGED guesses

\* save(record), and the answer.
Save(r) ==
    LET o == request[r].record
    IN  /\ request[r].pc = "save"
        /\ otpRecord' = [otpRecord EXCEPT ![o] =
               [@ EXCEPT !.state = "stored", !.status = request[r].status,
                         !.attempts = request[r].attempts]]
        /\ request' = [request EXCEPT ![r] = Idle]
        /\ contended' = contended
        /\ answered' = IF request[r].status = "VERIFIED"
                       THEN Counted(answered, o) ELSE answered
        /\ UNCHANGED guesses

-----------------------------------------------------------------------------
(* Time and the nightly cron. *)

\* Ten minutes to expiresAt, seven days to the cron's cutoff.
GrowOld(o) ==
    /\ Stored(o)
    /\ otpRecord[o].age # "week"
    /\ otpRecord' = [otpRecord EXCEPT ![o].age =
                         IF @ = "fresh" THEN "expired" ELSE "week"]
    /\ UNCHANGED <<request, contended, guesses, answered>>

\* Mutant: only used records are deleted.
CleansUsed(o) ==
    /\ Stored(o)
    /\ otpRecord[o].status = "USED"
    /\ otpRecord[o].age = "week"

Cleans(o) ==
    /\ Stored(o)
    /\ otpRecord[o].status \in {"EXPIRED", "USED"}
    /\ otpRecord[o].age = "week"

CleanupExpiredOtpRecords ==
    /\ \E o \in Records : Cleans(o)
    /\ otpRecord' = [o \in Records |->
           IF Cleans(o) THEN [otpRecord[o] EXCEPT !.state = "purged"]
           ELSE otpRecord[o]]
    /\ UNCHANGED <<request, contended, guesses, answered>>

-----------------------------------------------------------------------------
Verify(r) ==
    \/ \E s \in Subjects, right \in BOOLEAN :
         VerifyPasswordResetOTPCode(r, s, right)
    \/ \E u \in Users : UserVerifyPasswordResetOTPCode(r, u)

Finish(r) == Save(r) \/ \E accepted \in BOOLEAN : VerifyFn(r, accepted)

Next ==
    \/ PasswordResetOTPSend
    \/ UserPasswordResetOTPSend
    \/ \E r \in Requests : Verify(r) \/ Finish(r)
    \/ \E o \in Records : GrowOld(o)
    \/ CleanupExpiredOtpRecords

Spec == Init /\ [][Next]_vars

\* Time passes, the cron fires every night, and an await of the runtime ends.
\* Nobody has to ask for a code or to verify one.
Fairness ==
    /\ \A o \in Records : WF_vars(GrowOld(o))
    /\ \A r \in Requests : WF_vars(Finish(r))
    /\ WF_vars(CleanupExpiredOtpRecords)

FairSpec == Spec /\ Fairness

-----------------------------------------------------------------------------
(* Properties. *)

\* attempts never passes maxAttempts, and while no two verifications of a
\* record overlap it counts every code that was compared with it: a handler
\* that holds the record has counted its own guess, a save loses none.
GuessesCounted ==
    \A o \in Records \ contended :
        /\ guesses[o] <= MaxAttempts
        /\ \A r \in Requests : Holds(r, o) => request[r].attempts = guesses[o]
        /\ (\A r \in Requests : ~Holds(r, o)) => otpRecord[o].attempts = guesses[o]

\* A record whose verifications never overlapped answers once, and the answer
\* leaves it VERIFIED in the table: no later save, no cron and no newer code
\* reopens it.
AnsweredOnce ==
    \A o \in Records \ contended :
        /\ answered[o] <= 1
        /\ answered[o] = 1 => Stored(o) /\ otpRecord[o].status = "VERIFIED"

\* OtpService keeps the promises of OneTimeCodes: whatever verifications of other
\* records, time, the provider and the cron do meanwhile, a code is compared while
\* it is in time and the newest that is open, and once it closed it stays closed.
Phase(o) ==
    IF ~Stored(o) THEN (IF otpRecord[o].state = "unused" THEN "unsent" ELSE "purged")
    ELSE IF otpRecord[o].status = "PENDING" THEN "open"
    ELSE IF otpRecord[o].status = "VERIFIED" THEN "verified"
    ELSE "refused"

Codes == INSTANCE OneTimeCodes WITH
    Codes <- Records, Owners <- Subjects, Limit <- MaxAttempts,
    code <- [o \in Records |-> Phase(o)],
    owner <- [o \in Records |-> otpRecord[o].subject],
    tries <- [o \in Records |-> IF o \in contended THEN 0 ELSE guesses[o]],
    late <- {o \in Records : otpRecord[o].age # "fresh"},
    overlapped <- contended

CodesAreOneTime == Codes!Spec

\* cleanupExpiredOtpRecords gets rid of every record that a verification
\* found expired or used up, unless an overlapping verification of the record
\* is left to write it back.
ExpiredIsDeleted ==
    \A o \in Records :
        (Stored(o) /\ otpRecord[o].status = "EXPIRED" /\ o \notin contended)
            ~> otpRecord[o].state = "purged"

\* security-standards.md: "OTP flows enforce expiry, attempt limits,
\* single-use transitions".  A record that was verified is never pending
\* again.
VerifiedIsFinal ==
    [][\A o \in Records :
         otpRecord[o].status = "VERIFIED" => otpRecord'[o].status # "PENDING"]_vars

=============================================================================
