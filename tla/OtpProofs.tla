----------------------------- MODULE OtpProofs -----------------------------
(***************************************************************************)
(* What holds of Otp for every number of records, attempts and handlers:   *)
(* type correctness with the attempt limit, that verifications which do    *)
(* not overlap count every guess and answer once, and that Otp implements  *)
(* OneTimeCodes.                                                           *)
(***************************************************************************)
EXTENDS Otp, TLAPS

RecordRow == [state : {"unused", "stored", "purged"},
              subject : Subjects \cup {None},
              status : OtpStatus,
              attempts : 0 .. MaxAttempts,
              age : {"fresh", "expired", "week"}]

RequestRecord == [pc : {"idle", "provider", "save"},
                  record : Records \cup {0},
                  status : OtpStatus,
                  attempts : 0 .. MaxAttempts]

\* A handler holds a record that was created.
HoldsCreated ==
    \A r \in Requests : request[r].pc # "idle" =>
        /\ request[r].record \in Records
        /\ otpRecord[request[r].record].state # "unused"

TypeInv ==
    /\ otpRecord \in [Records -> RecordRow]
    /\ request \in [Requests -> RequestRecord]
    /\ contended \in SUBSET Records
    /\ guesses \in [Records -> Nat]
    /\ answered \in [Records -> Nat]
    /\ HoldsCreated
    /\ \A o \in Records : otpRecord[o].state = "unused" => otpRecord[o].attempts = 0

\* No two handlers hold o, and the one that does found it pending.
Exclusive(o) ==
    /\ \A q, r \in Requests : Holds(q, o) /\ Holds(r, o) => q = r
    /\ \A r \in Requests : Holds(r, o) => Stored(o) /\ otpRecord[o].status = "PENDING"

\* The guesses on o are in its holder's copy, or in the row.
Accounted(o) ==
    /\ guesses[o] <= MaxAttempts
    /\ \A r \in Requests : Holds(r, o) => request[r].attempts = guesses[o]
    /\ (\A r \in Requests : ~Holds(r, o)) => otpRecord[o].attempts = guesses[o]

Answered(o) ==
    /\ answered[o] <= 1
    /\ answered[o] = 1 => Stored(o) /\ otpRecord[o].status = "VERIFIED"

\* The inductive invariant of GuessesCounted and AnsweredOnce.
QuietInv ==
    \A o \in Records \ contended : Exclusive(o) /\ Accounted(o) /\ Answered(o)

-----------------------------------------------------------------------------
(* Type correctness. *)

LEMMA UnusedIsRow == Unused \in RecordRow
  BY BoundsAreNaturals DEF Unused, RecordRow, OtpStatus

LEMMA IdleIsRequest == Idle \in RequestRecord
  BY BoundsAreNaturals DEF Idle, RequestRecord, OtpStatus

LEMMA TypeInit == Init => TypeInv
<1> SUFFICES ASSUME Init PROVE TypeInv
  OBVIOUS
<1>1. otpRecord \in [Records -> RecordRow] /\ request \in [Requests -> RequestRecord]
  BY UnusedIsRow, IdleIsRequest DEF Init
<1>2. /\ \A r \in Requests : request[r].pc = "idle"
      /\ \A o \in Records : otpRecord[o].attempts = 0
  BY DEF Init, Idle, Unused
<1> QED
  BY <1>1, <1>2 DEF Init, TypeInv, HoldsCreated

\* What a handler takes up when it has read record o.
Taken(r, o, q) ==
    /\ request[r].pc = "idle"
    /\ q \in RequestRecord
    /\ q.pc # "idle"
    /\ q.record = o
    /\ Stored(o)
    /\ otpRecord[o].status = "PENDING"
    /\ IsNewestPending(o, otpRecord[o].subject)
    /\ request' = [request EXCEPT ![r] = q]
    /\ contended' = IF \E x \in Requests : Holds(x, o)
                    THEN contended \cup {o} ELSE contended
    /\ UNCHANGED <<otpRecord, answered>>
    /\ \/ /\ Refused(o)
          /\ q.pc = "save" /\ q.status = "EXPIRED"
          /\ q.attempts = otpRecord[o].attempts /\ guesses' = guesses
       \/ /\ ~Refused(o)
          /\ q.status \in {"PENDING", "VERIFIED"}
          /\ q.attempts = otpRecord[o].attempts + 1
          /\ guesses' = Counted(guesses, o)

\* A verification starts by taking the newest pending record as it is.
LEMMA VerifyTakes ==
    ASSUME TypeInv, NEW r \in Requests, Verify(r)
    PROVE  \E o \in Records, q \in RequestRecord : Taken(r, o, q)
<1>1. PICK o \in Records, s \in Subjects :
           /\ IsNewestPending(o, s)
           /\ \/ Refuse(r, o)
              \/ \E pc \in {"save", "provider"}, status \in {"PENDING", "VERIFIED"} :
                   Guess(r, o, pc, status)
  BY DEF Verify, VerifyPasswordResetOTPCode, UserVerifyPasswordResetOTPCode, Subjects
<1>2. /\ Stored(o) /\ otpRecord[o].status = "PENDING"
      /\ IsNewestPending(o, otpRecord[o].subject)
      /\ otpRecord[o].attempts \in 0 .. MaxAttempts
  BY <1>1 DEF IsNewestPending, Pending, TypeInv, RecordRow
<1>3. CASE Refuse(r, o)
  <2> DEFINE q == [pc |-> "save", record |-> o, status |-> "EXPIRED",
                   attempts |-> otpRecord[o].attempts]
  <2>1. q \in RequestRecord
    BY <1>2 DEF RequestRecord, OtpStatus
  <2>2. Taken(r, o, q)
    BY <1>2, <1>3, <2>1 DEF Refuse, Take, Taken
  <2> QED
    BY <2>1, <2>2
<1>4. ASSUME NEW pc \in {"save", "provider"}, NEW status \in {"PENDING", "VERIFIED"},
             Guess(r, o, pc, status)
      PROVE  \E q \in RequestRecord : Taken(r, o, q)
  <2> DEFINE q == [pc |-> pc, record |-> o, status |-> status,
                   attempts |-> otpRecord[o].attempts + 1]
  <2>1. otpRecord[o].attempts + 1 \in 0 .. MaxAttempts
    BY <1>2, <1>4, BoundsAreNaturals DEF Guess, Refused
  <2>2. q \in RequestRecord
    BY <2>1 DEF RequestRecord, OtpStatus
  <2>3. Taken(r, o, q)
    BY <1>2, <1>4, <2>2 DEF Guess, Take, Taken
  <2> QED
    BY <2>2, <2>3
<1> QED
  BY <1>1, <1>3, <1>4

LEMMA CountedIsTyped ==
    ASSUME NEW count \in [Records -> Nat], NEW o \in Records
    PROVE  Counted(count, o) \in [Records -> Nat]
  BY DEF Counted

\* What a save reads is typed.
LEMMA SaveReads ==
    ASSUME TypeInv, NEW r \in Requests, Save(r)
    PROVE  /\ request[r].record \in Records
           /\ request[r].status \in OtpStatus
           /\ request[r].attempts \in 0 .. MaxAttempts
           /\ otpRecord[request[r].record].state # "unused"
           /\ Holds(r, request[r].record)
  BY DEF TypeInv, HoldsCreated, Save, RequestRecord, Holds

\* The row that r's save leaves behind.
Saved(r) ==
    [otpRecord[request[r].record] EXCEPT !.state = "stored",
         !.status = request[r].status, !.attempts = request[r].attempts]

LEMMA SaveWrites ==
    ASSUME TypeInv, NEW r \in Requests, Save(r)
    PROVE  /\ otpRecord' = [otpRecord EXCEPT ![request[r].record] = Saved(r)]
           /\ Saved(r) \in RecordRow
           /\ Saved(r).state = "stored"
           /\ Saved(r).status = request[r].status
           /\ Saved(r).attempts = request[r].attempts
           /\ Saved(r).subject = otpRecord[request[r].record].subject
           /\ Saved(r).age = otpRecord[request[r].record].age
           /\ request' = [request EXCEPT ![r] = Idle]
           /\ UNCHANGED <<contended, guesses>>
<1>1. otpRecord[request[r].record] \in RecordRow
  BY SaveReads DEF TypeInv
<1>2. otpRecord' = [otpRecord EXCEPT ![request[r].record] = Saved(r)]
  BY SaveReads DEF TypeInv, Save, Saved
<1>3. /\ Saved(r) \in RecordRow
      /\ Saved(r).state = "stored"
      /\ Saved(r).status = request[r].status
      /\ Saved(r).attempts = request[r].attempts
      /\ Saved(r).subject = otpRecord[request[r].record].subject
      /\ Saved(r).age = otpRecord[request[r].record].age
  BY <1>1, SaveReads DEF RecordRow, Saved
<1> QED
  BY <1>2, <1>3 DEF Save

LEMMA TypeNext == TypeInv /\ [Next]_vars => TypeInv'
<1> SUFFICES ASSUME TypeInv, [Next]_vars PROVE TypeInv'
  OBVIOUS
<1>1. ASSUME NEW s \in Subjects, Create(s) PROVE TypeInv'
  <2>1. [Unused EXCEPT !.state = "stored", !.subject = s] \in RecordRow
    BY UnusedIsRow DEF RecordRow
  <2> QED
    BY <1>1, <2>1 DEF Create, TypeInv, HoldsCreated, Unused
<1>2. ASSUME NEW r \in Requests, Verify(r) PROVE TypeInv'
  <2>1. PICK o \in Records, q \in RequestRecord : Taken(r, o, q)
    BY <1>2, VerifyTakes
  <2>2. contended' \in SUBSET Records /\ guesses' \in [Records -> Nat]
    BY <2>1, CountedIsTyped DEF Taken, TypeInv
  <2> QED
    BY <2>1, <2>2 DEF Taken, TypeInv, HoldsCreated, Stored
<1>3. ASSUME NEW r \in Requests, NEW accepted \in BOOLEAN, VerifyFn(r, accepted)
      PROVE  TypeInv'
  BY <1>3 DEF VerifyFn, TypeInv, HoldsCreated, RequestRecord, OtpStatus
<1>4. ASSUME NEW r \in Requests, Save(r) PROVE TypeInv'
  <2> DEFINE o == request[r].record
  <2>1. /\ o \in Records
        /\ otpRecord' = [otpRecord EXCEPT ![o] = Saved(r)]
        /\ request' = [request EXCEPT ![r] = Idle]
        /\ UNCHANGED <<contended, guesses>>
    BY <1>4, SaveReads, SaveWrites
  <2>2. otpRecord' \in [Records -> RecordRow]
    BY <1>4, <2>1, SaveReads, SaveWrites DEF TypeInv
  <2>3. answered' \in [Records -> Nat]
    BY <1>4, <2>1, CountedIsTyped DEF Save, TypeInv
  <2>4. HoldsCreated'
    BY <1>4, <2>1, SaveWrites DEF TypeInv, HoldsCreated, Idle
  <2>5. \A x \in Records : otpRecord'[x].state = "unused" => otpRecord'[x].attempts = 0
    BY <1>4, <2>1, SaveWrites DEF TypeInv
  <2> QED
    BY <2>1, <2>2, <2>3, <2>4, <2>5, IdleIsRequest DEF TypeInv
<1>5. ASSUME NEW o \in Records, GrowOld(o) PROVE TypeInv'
  BY <1>5 DEF GrowOld, TypeInv, HoldsCreated, RecordRow
<1>6. ASSUME CleanupExpiredOtpRecords PROVE TypeInv'
  BY <1>6 DEF CleanupExpiredOtpRecords, TypeInv, HoldsCreated, RecordRow
<1>7. CASE UNCHANGED vars
  BY <1>7 DEF vars, TypeInv, HoldsCreated
<1> QED
  BY <1>1, <1>2, <1>3, <1>4, <1>5, <1>6, <1>7
     DEF Next, Finish, PasswordResetOTPSend, UserPasswordResetOTPSend, Subjects

LEMMA TypeAlways == Spec => []TypeInv
  BY TypeInit, TypeNext, PTL DEF Spec

\* Rows and handlers keep their types, attempts stays within maxAttempts in
\* the row and in every copy, however verifications interleave.
THEOREM TypeCorrect == Spec => []TypeOK
<1>1. TypeInv => TypeOK
  BY DEF TypeInv, TypeOK, RecordRow, RequestRecord
<1> QED
  BY <1>1, TypeAlways, PTL

-----------------------------------------------------------------------------
(* Verifications that do not overlap. *)

\* A step that leaves o's holders, guesses and answers alone and changes of
\* its row at most the age.
LEMMA QuietUntouched ==
    ASSUME NEW o, Exclusive(o), Accounted(o), Answered(o),
           \A r \in Requests : Holds(r, o)'
               => Holds(r, o) /\ request'[r].attempts = request[r].attempts,
           \A r \in Requests : Holds(r, o) => Holds(r, o)',
           /\ otpRecord'[o].state = otpRecord[o].state
           /\ otpRecord'[o].status = otpRecord[o].status
           /\ otpRecord'[o].attempts = otpRecord[o].attempts,
           guesses'[o] = guesses[o],
           answered'[o] = answered[o]
    PROVE  (Exclusive(o) /\ Accounted(o) /\ Answered(o))'
  BY DEF Exclusive, Accounted, Answered, Stored

\* Taking a record nobody holds.
LEMMA QuietTake ==
    ASSUME TypeInv, QuietInv, NEW r \in Requests, NEW o \in Records, NEW q,
           Taken(r, o, q), NEW x \in Records \ contended'
    PROVE  (Exclusive(x) /\ Accounted(x) /\ Answered(x))'
<1>1. x \notin contended /\ Exclusive(x) /\ Accounted(x) /\ Answered(x)
  BY DEF QuietInv, Taken
<1>2. \A y \in Requests : request'[y] = IF y = r THEN q ELSE request[y]
  BY DEF Taken, TypeInv
<1>3. ~Holds(r, x) /\ otpRecord' = otpRecord /\ answered' = answered
  BY DEF Taken, Holds
<1>4. CASE x # o
  <2>1. guesses'[x] = guesses[x]
    BY <1>4 DEF Taken, Counted, TypeInv
  <2>2. \A y \in Requests : Holds(y, x)' <=> Holds(y, x)
    BY <1>2, <1>3, <1>4 DEF Holds, Taken
  <2>3. \A y \in Requests : Holds(y, x)' => request'[y].attempts = request[y].attempts
    BY <1>2, <1>3, <2>2
  <2> QED
    BY <1>1, <1>3, <2>1, <2>2, <2>3, QuietUntouched
<1>5. CASE x = o
  <2>1. \A y \in Requests : ~Holds(y, o)
    BY <1>5 DEF Taken
  <2>2. guesses[o] = otpRecord[o].attempts /\ o \notin contended'
    BY <1>1, <1>5, <2>1 DEF Accounted
  <2>3. \A y \in Requests : Holds(y, o)' <=> y = r
    BY <1>2, <2>1 DEF Holds, Taken
  <2>4. q.attempts = guesses'[o]
    BY <2>2 DEF Taken, Counted, TypeInv
  <2>5. q.attempts <= MaxAttempts
    BY BoundsAreNaturals DEF Taken, RequestRecord
  <2>6. Stored(o) /\ otpRecord[o].status = "PENDING"
    BY DEF Taken
  <2>7. Exclusive(o)'
    BY <1>3, <2>3, <2>6 DEF Exclusive, Stored
  <2>8. Accounted(o)'
    BY <1>2, <2>3, <2>4, <2>5 DEF Accounted
  <2>9. Answered(o)'
    BY <1>1, <1>3, <1>5 DEF Answered, Stored
  <2> QED
    BY <1>5, <2>7, <2>8, <2>9
<1> QED
  BY <1>4, <1>5

\* Saving the record of an only holder moves its count into the row.
LEMMA QuietSave ==
    ASSUME TypeInv, QuietInv, NEW r \in Requests, Save(r),
           NEW x \in Records \ contended'
    PROVE  (Exclusive(x) /\ Accounted(x) /\ Answered(x))'
<1> DEFINE o == request[r].record
<1>1. /\ x \notin contended
      /\ Exclusive(x) /\ Accounted(x) /\ Answered(x)
      /\ otpRecord' = [otpRecord EXCEPT ![o] = Saved(r)]
      /\ guesses' = guesses
      /\ o \in Records
      /\ Holds(r, o)
  BY SaveReads, SaveWrites DEF QuietInv
<1>2. \A y \in Requests : request'[y] = IF y = r THEN Idle ELSE request[y]
  BY SaveWrites DEF TypeInv
<1>3. CASE x # o
  <2>1. \A y \in Requests : Holds(y, x)' <=> Holds(y, x)
    BY <1>2, <1>3 DEF Holds, Idle
  <2>2. \A y \in Requests : Holds(y, x)' => request'[y].attempts = request[y].attempts
    BY <1>2 DEF Holds, Idle
  <2>3. answered'[x] = answered[x]
    BY <1>3 DEF Save, Counted, TypeInv
  <2>4. otpRecord'[x] = otpRecord[x]
    BY <1>1, <1>3 DEF TypeInv
  <2> QED
    BY <1>1, <2>1, <2>2, <2>3, <2>4, QuietUntouched
<1>4. CASE x = o
  <2>1. \A y \in Requests : ~Holds(y, x)'
    BY <1>1, <1>2, <1>4 DEF Exclusive, Holds, Idle
  <2>2. otpRecord'[x] = Saved(r)
    BY <1>1, <1>4 DEF TypeInv
  <2>3. otpRecord'[x].attempts = guesses'[x] /\ guesses'[x] <= MaxAttempts
    BY <1>1, <1>4, <2>2, SaveWrites DEF Accounted
  <2>4. Exclusive(x)' /\ Accounted(x)'
    BY <2>1, <2>3 DEF Exclusive, Accounted
  <2>5. answered[x] = 0
    BY <1>1, <1>4 DEF Exclusive, Answered, TypeInv
  <2>6. answered'[x] = IF request[r].status = "VERIFIED" THEN 1 ELSE 0
    BY <1>1, <1>4, <2>5 DEF Save, Counted, TypeInv
  <2>7. Answered(x)'
    BY <2>2, <2>6, SaveWrites DEF Answered, Stored
  <2> QED
    BY <2>4, <2>7
<1> QED
  BY <1>3, <1>4

LEMMA QuietNext == TypeInv /\ QuietInv /\ [Next]_vars => QuietInv'
<1> SUFFICES ASSUME TypeInv, QuietInv, [Next]_vars, NEW x \in Records \ contended'
             PROVE  (Exclusive(x) /\ Accounted(x) /\ Answered(x))'
  BY DEF QuietInv
<1>a. x \notin contended => Exclusive(x) /\ Accounted(x) /\ Answered(x)
  BY DEF QuietInv
<1>1. ASSUME NEW s \in Subjects, Create(s)
      PROVE  (Exclusive(x) /\ Accounted(x) /\ Answered(x))'
  <2>1. PICK o \in Records :
            /\ otpRecord[o].state = "unused"
            /\ otpRecord' = [otpRecord EXCEPT ![o] =
                   [Unused EXCEPT !.state = "stored", !.subject = s]]
    BY <1>1 DEF Create
  <2>2. /\ UNCHANGED <<request, contended, guesses, answered>>
        /\ Exclusive(x) /\ Accounted(x) /\ Answered(x)
    BY <1>1, <1>a DEF Create
  <2>3. CASE x = o
    <3>1. \A r \in Requests : ~Holds(r, o)
      BY <2>1 DEF TypeInv, HoldsCreated, Holds
    <3>2. guesses[o] = 0 /\ answered[o] = 0
      BY <2>1, <2>2, <2>3, <3>1 DEF Accounted, Answered, Stored, TypeInv
    <3>3. otpRecord'[o].attempts = 0
      BY <2>1 DEF TypeInv, Unused
    <3> QED
      BY <2>2, <2>3, <3>1, <3>2, <3>3, BoundsAreNaturals
         DEF Exclusive, Accounted, Answered, Holds
  <2>4. CASE x # o
    BY <2>1, <2>2, <2>4, QuietUntouched DEF Holds, TypeInv
  <2> QED
    BY <2>3, <2>4
<1>2. ASSUME NEW r \in Requests, Verify(r)
      PROVE  (Exclusive(x) /\ Accounted(x) /\ Answered(x))'
  BY <1>2, VerifyTakes, QuietTake
<1>3. ASSUME NEW r \in Requests, NEW accepted \in BOOLEAN, VerifyFn(r, accepted)
      PROVE  (Exclusive(x) /\ Accounted(x) /\ Answered(x))'
  <2>1. \A y \in Requests : /\ Holds(y, x)' <=> Holds(y, x)
                            /\ request'[y].attempts = request[y].attempts
    BY <1>3 DEF VerifyFn, Holds, TypeInv, RequestRecord
  <2> QED
    BY <1>3, <1>a, <2>1, QuietUntouched DEF VerifyFn
<1>4. ASSUME NEW r \in Requests, Save(r)
      PROVE  (Exclusive(x) /\ Accounted(x) /\ Answered(x))'
  BY <1>4, QuietSave
<1>5. ASSUME NEW o \in Records, GrowOld(o)
      PROVE  (Exclusive(x) /\ Accounted(x) /\ Answered(x))'
  <2>1. /\ otpRecord'[x].state = otpRecord[x].state
        /\ otpRecord'[x].status = otpRecord[x].status
        /\ otpRecord'[x].attempts = otpRecord[x].attempts
    BY <1>5 DEF GrowOld, TypeInv, RecordRow
  <2> QED
    BY <1>5, <1>a, <2>1, QuietUntouched DEF GrowOld, Holds
<1>6. ASSUME CleanupExpiredOtpRecords
      PROVE  (Exclusive(x) /\ Accounted(x) /\ Answered(x))'
  <2>1. CASE Cleans(x)
    <3>1. \A r \in Requests : ~Holds(r, x)
      BY <1>6, <1>a, <2>1 DEF CleanupExpiredOtpRecords, Cleans, Exclusive
    <3>2. otpRecord'[x].attempts = otpRecord[x].attempts
      BY <1>6, <2>1 DEF CleanupExpiredOtpRecords, TypeInv, RecordRow
    <3>3. answered[x] # 1
      BY <1>6, <1>a, <2>1 DEF CleanupExpiredOtpRecords, Cleans, Answered
    <3> QED
      BY <1>6, <1>a, <3>1, <3>2, <3>3
         DEF CleanupExpiredOtpRecords, Exclusive, Accounted, Answered, Holds
  <2>2. CASE ~Cleans(x)
    BY <1>6, <1>a, <2>2, QuietUntouched DEF CleanupExpiredOtpRecords, Holds
  <2> QED
    BY <2>1, <2>2
<1>7. CASE UNCHANGED vars
  BY <1>7, <1>a, QuietUntouched DEF vars, Holds
<1> QED
  BY <1>1, <1>2, <1>3, <1>4, <1>5, <1>6, <1>7
     DEF Next, Finish, PasswordResetOTPSend, UserPasswordResetOTPSend, Subjects

LEMMA QuietAlways == Spec => []QuietInv
<1>1. Init => QuietInv
  BY BoundsAreNaturals
     DEF Init, QuietInv, Exclusive, Accounted, Answered, Holds, Idle, Unused
<1> QED
  BY <1>1, TypeInit, TypeNext, QuietNext, PTL DEF Spec

\* As long as no two verifications of a record overlap, every code that was
\* compared with it is counted, so at most maxAttempts are.
THEOREM EveryGuessCounts == Spec => []GuessesCounted
<1>1. QuietInv => GuessesCounted
  BY DEF QuietInv, Accounted, GuessesCounted
<1> QED
  BY <1>1, QuietAlways, PTL

\* As long as no two verifications of a record overlap, it answers once and
\* stays VERIFIED.
THEOREM OneAnswerPerRecord == Spec => []AnsweredOnce
<1>1. QuietInv => AnsweredOnce
  BY DEF QuietInv, Answered, AnsweredOnce
<1> QED
  BY <1>1, QuietAlways, PTL

-----------------------------------------------------------------------------
(* A code is a one-time code. *)

\* What a handler is about to save has a reason that lasts: the code was compared,
\* or its time is over or its guesses are used up.  A row to come is a new one.
Reasoned(q) ==
    \/ q.status \in {"PENDING", "VERIFIED"} /\ q.attempts > 0
    \/ /\ q.pc = "save" /\ q.status \notin {"PENDING", "VERIFIED"}
       /\ otpRecord[q.record].age # "fresh" \/ q.attempts >= MaxAttempts

ReasonInv ==
    /\ \A r \in Requests : request[r].pc # "idle" => Reasoned(request[r])
    /\ \A o \in Records : otpRecord[o].state = "unused" => otpRecord[o] = Unused

\* Steps that leave the handlers alone and no row younger.
LEMMA ReasonLasts ==
    ASSUME TypeInv, ReasonInv, UNCHANGED request,
           \A o \in Records : otpRecord[o].state # "unused" =>
               /\ otpRecord[o].age # "fresh" => otpRecord'[o].age # "fresh"
               /\ otpRecord'[o].state # "unused",
           \A o \in Records : otpRecord'[o].state = "unused" => otpRecord'[o] = otpRecord[o]
    PROVE  ReasonInv'
<1>1. ASSUME NEW r \in Requests, request[r].pc # "idle" PROVE Reasoned(request[r])'
  BY <1>1 DEF ReasonInv, Reasoned, TypeInv, HoldsCreated
<1>2. \A o \in Records : otpRecord'[o].state = "unused" => otpRecord'[o] = Unused
  BY DEF ReasonInv
<1> QED
  BY <1>1, <1>2 DEF ReasonInv

LEMMA ReasonNext == TypeInv /\ ReasonInv /\ [Next]_vars => ReasonInv'
<1> SUFFICES ASSUME TypeInv, ReasonInv, [Next]_vars PROVE ReasonInv'
  OBVIOUS
<1>1. ASSUME NEW s \in Subjects, Create(s) PROVE ReasonInv'
  <2>1. PICK o \in Records :
            /\ otpRecord[o].state = "unused"
            /\ otpRecord' = [otpRecord EXCEPT ![o] =
                   [Unused EXCEPT !.state = "stored", !.subject = s]]
    BY <1>1 DEF Create
  <2>2. otpRecord'[o].state = "stored"
    BY <2>1 DEF TypeInv, Unused
  <2>3. \A x \in Records : x # o => otpRecord'[x] = otpRecord[x]
    BY <2>1 DEF TypeInv
  <2> QED
    BY <1>1, <2>1, <2>2, <2>3, ReasonLasts DEF Create
<1>2. ASSUME NEW r \in Requests, Verify(r) PROVE ReasonInv'
  <2>1. PICK o \in Records, q \in RequestRecord : Taken(r, o, q)
    BY <1>2, VerifyTakes
  <2>2. Reasoned(q)
    <3>1. CASE /\ Refused(o) /\ q.pc = "save"
               /\ q.status = "EXPIRED" /\ q.attempts = otpRecord[o].attempts
      BY <2>1, <3>1 DEF Reasoned, Refused, Taken
    <3>2. CASE q.status \in {"PENDING", "VERIFIED"} /\ q.attempts = otpRecord[o].attempts + 1
      BY <3>2 DEF Reasoned, TypeInv, RecordRow
    <3> QED
      BY <2>1, <3>1, <3>2 DEF Taken
  <2>3. \A x \in Requests : request'[x] = IF x = r THEN q ELSE request[x]
    BY <2>1 DEF Taken, TypeInv
  <2> QED
    BY <2>1, <2>2, <2>3 DEF ReasonInv, Reasoned, Taken
<1>3. ASSUME NEW r \in Requests, NEW accepted \in BOOLEAN, VerifyFn(r, accepted)
      PROVE  ReasonInv'
  <2>1. ASSUME NEW x \in Requests, request'[x].pc # "idle" PROVE Reasoned(request[x])'
    <3>1. CASE x = r
      <4>1. /\ request'[r].attempts = request[r].attempts
            /\ request'[r].record = request[r].record
        BY <1>3 DEF VerifyFn, TypeInv, RequestRecord
      <4>2. request[r].attempts > 0 /\ request[r].status \in {"PENDING", "VERIFIED"}
        BY <1>3 DEF ReasonInv, Reasoned, VerifyFn
      <4>3. request'[r].status \in {"VERIFIED", request[r].status}
        BY <1>3 DEF VerifyFn, TypeInv, RequestRecord
      <4> QED
        BY <3>1, <4>1, <4>2, <4>3 DEF Reasoned
    <3>2. CASE x # r
      <4>1. request'[x] = request[x] /\ request[x].pc # "idle"
        BY <1>3, <2>1, <3>2 DEF VerifyFn, TypeInv
      <4> QED
        BY <1>3, <4>1 DEF ReasonInv, Reasoned, VerifyFn
    <3> QED
      BY <3>1, <3>2
  <2> QED
    BY <1>3, <2>1 DEF ReasonInv, VerifyFn
<1>4. ASSUME NEW r \in Requests, Save(r) PROVE ReasonInv'
  <2> DEFINE o == request[r].record
  <2>1. /\ o \in Records
        /\ otpRecord' = [otpRecord EXCEPT ![o] = Saved(r)]
        /\ Saved(r).state = "stored" /\ Saved(r).age = otpRecord[o].age
    BY <1>4, SaveReads, SaveWrites
  <2>2. /\ \A x \in Records : otpRecord'[x].age = otpRecord[x].age
        /\ \A x \in Records : otpRecord'[x].state = "unused" => otpRecord'[x] = otpRecord[x]
    BY <2>1 DEF TypeInv
  <2>3. \A x \in Requests : request'[x] = IF x = r THEN Idle ELSE request[x]
    BY <1>4, SaveWrites DEF TypeInv
  <2>4. \A x \in Requests : request'[x].pc # "idle" =>
            /\ request'[x] = request[x]
            /\ request[x].record \in Records
    BY <2>3 DEF Idle, TypeInv, HoldsCreated
  <2> QED
    BY <2>2, <2>4 DEF ReasonInv, Reasoned
<1>5. ASSUME NEW o \in Records, GrowOld(o) PROVE ReasonInv'
  <2>1. \A x \in Records : otpRecord[x].state # "unused" =>
               /\ otpRecord[x].age # "fresh" => otpRecord'[x].age # "fresh"
               /\ otpRecord'[x].state # "unused"
    BY <1>5 DEF GrowOld, TypeInv, RecordRow
  <2>2. \A x \in Records : otpRecord'[x].state = "unused" => otpRecord'[x] = otpRecord[x]
    BY <1>5 DEF GrowOld, Stored, TypeInv, RecordRow
  <2> QED
    BY <1>5, <2>1, <2>2, ReasonLasts DEF GrowOld
<1>6. ASSUME CleanupExpiredOtpRecords PROVE ReasonInv'
  <2>1. \A x \in Records :
          /\ otpRecord'[x].age = otpRecord[x].age
          /\ otpRecord'[x] = otpRecord[x] \/ otpRecord'[x].state = "purged"
    BY <1>6 DEF CleanupExpiredOtpRecords, TypeInv, RecordRow
  <2> QED
    BY <1>6, <2>1, ReasonLasts DEF CleanupExpiredOtpRecords
<1>7. CASE UNCHANGED vars
  BY <1>7, ReasonLasts DEF vars
<1> QED
  BY <1>1, <1>2, <1>3, <1>4, <1>5, <1>6, <1>7
     DEF Next, Finish, PasswordResetOTPSend, UserPasswordResetOTPSend, Subjects

\* The step of OneTimeCodes that a step of Otp takes.
CodeVars == <<[o \in Records |-> Phase(o)], [o \in Records |-> otpRecord[o].subject],
              [o \in Records |-> IF o \in contended THEN 0 ELSE guesses[o]],
              {o \in Records : otpRecord[o].age # "fresh"}, contended>>

\* A step that leaves the rows alone, and the guesses but those on contended records.
LEMMA CodesRest ==
    ASSUME UNCHANGED <<otpRecord, contended, guesses>>
    PROVE  UNCHANGED CodeVars
  BY DEF CodeVars, Phase, Stored

LEMMA CreateSends ==
    ASSUME TypeInv, ReasonInv, NEW s \in Subjects, Create(s)
    PROVE  \E o \in Records : Codes!Send(o)
<1>1. PICK o \in Records :
          /\ otpRecord[o].state = "unused"
          /\ \A x \in Records : x < o => otpRecord[x].state # "unused"
          /\ otpRecord' = [otpRecord EXCEPT ![o] =
                 [Unused EXCEPT !.state = "stored", !.subject = s]]
  BY DEF Create
<1>2. /\ otpRecord'[o].state = "stored" /\ otpRecord'[o].status = "PENDING"
      /\ otpRecord'[o].subject = s /\ otpRecord'[o].age = otpRecord[o].age
  BY <1>1 DEF TypeInv, ReasonInv, Unused
<1>3. \A x \in Records : x # o => otpRecord'[x] = otpRecord[x]
  BY <1>1 DEF TypeInv
<1>4. UNCHANGED <<contended, guesses>>
  BY DEF Create
<1>5. \A x \in Records : Phase(x)' = IF x = o THEN "open" ELSE Phase(x)
  BY <1>2, <1>3 DEF Phase, Stored
<1>6. \A x \in Records : otpRecord'[x].subject = IF x = o THEN s ELSE otpRecord[x].subject
  BY <1>2, <1>3
<1>7. \A x \in Records : Phase(x) = "unsent" <=> otpRecord[x].state = "unused"
  BY DEF Phase, Stored, TypeInv, RecordRow
<1>8. \A x \in Records : otpRecord'[x].age = otpRecord[x].age
  BY <1>2, <1>3
<1> QED
  BY <1>1, <1>4, <1>5, <1>6, <1>7, <1>8 DEF Codes!Send

LEMMA VerifyIsGuess ==
    ASSUME TypeInv, QuietInv, NEW r \in Requests, NEW o \in Records,
           NEW q \in RequestRecord, Taken(r, o, q)
    PROVE  Codes!Guess(o) \/ Codes!Overlap(o) \/ UNCHANGED CodeVars
<1>1. /\ Phase(o) = "open" /\ otpRecord' = otpRecord
      /\ \A x \in Records : Phase(x)' = Phase(x)
  BY DEF Taken, Phase, Stored
<1>2. CASE \E x \in Requests : Holds(x, o)
  <2>1. contended' = contended \cup {o}
    BY <1>2 DEF Taken
  <2>2. \A x \in Records : x # o => guesses'[x] = guesses[x]
    BY DEF Taken, Counted, TypeInv
  <2> QED
    BY <1>1, <2>1, <2>2 DEF Codes!Overlap
<1>3. CASE ~ \E x \in Requests : Holds(x, o)
  <2>1. contended' = contended
    BY <1>3 DEF Taken
  <2>2. CASE Refused(o) /\ guesses' = guesses
    BY <1>1, <2>1, <2>2, CodesRest
  <2>3. CASE ~Refused(o) /\ guesses' = Counted(guesses, o)
    <3>1. guesses' = [guesses EXCEPT ![o] = IF o \in contended THEN 0 ELSE @ + 1]
      BY <2>1, <2>3 DEF Counted
    <3>2. CASE o \in contended
      <4>1. \A x \in Records \ contended : guesses'[x] = guesses[x]
        BY <3>1, <3>2 DEF TypeInv
      <4> QED
        BY <1>1, <2>1, <4>1 DEF CodeVars
    <3>3. CASE o \notin contended
      <4>1. guesses[o] = otpRecord[o].attempts /\ guesses[o] < MaxAttempts
        <5>1. guesses[o] = otpRecord[o].attempts
          BY <1>3, <3>3 DEF QuietInv, Accounted
        <5>2. otpRecord[o].attempts \in 0 .. MaxAttempts
          BY DEF TypeInv, RecordRow
        <5> QED
          BY <2>3, <5>1, <5>2, BoundsAreNaturals DEF Refused
      <4>2. otpRecord[o].age = "fresh"
        BY <2>3 DEF Refused
      <4>3. \A x \in Records :
              Phase(x) = "open" /\ otpRecord[x].subject = otpRecord[o].subject => x <= o
        <5>1. \A x \in Records :
                Phase(x) = "open" => Stored(x) /\ otpRecord[x].status = "PENDING"
          BY DEF Phase
        <5> QED
          BY <5>1 DEF Taken, IsNewestPending, Pending
      <4>4. \A x \in Records : guesses'[x] = IF x = o THEN guesses[o] + 1 ELSE guesses[x]
        BY <3>1, <3>3 DEF TypeInv
      <4> QED
        BY <1>1, <2>1, <3>3, <4>1, <4>2, <4>3, <4>4 DEF Codes!Guess, Codes!Newest
    <3> QED
      BY <3>2, <3>3
  <2> QED
    BY <2>2, <2>3 DEF Taken
<1> QED
  BY <1>2, <1>3

LEMMA SaveCloses ==
    ASSUME TypeInv, QuietInv, ReasonInv, NEW r \in Requests, Save(r)
    PROVE  \/ \E o \in Records : Codes!Accept(o) \/ Codes!Refuse(o) \/ Codes!Drift(o)
           \/ UNCHANGED CodeVars
<1>0. PICK o \in Records : o = request[r].record
  BY SaveReads
<1>1. /\ Holds(r, o)
      /\ request[r].status \in OtpStatus
      /\ request[r].attempts \in 0 .. MaxAttempts
  BY <1>0, SaveReads
<1>2. \A x \in Records : x # o => otpRecord'[x] = otpRecord[x]
  BY <1>0, SaveWrites DEF TypeInv
<1>3. /\ otpRecord'[o].state = "stored" /\ otpRecord'[o].status = request[r].status
      /\ otpRecord'[o].subject = otpRecord[o].subject
      /\ otpRecord'[o].age = otpRecord[o].age
      /\ UNCHANGED <<contended, guesses>>
  BY <1>0, SaveWrites DEF TypeInv
<1>4. \A x \in Records : /\ otpRecord'[x].subject = otpRecord[x].subject
                         /\ otpRecord'[x].age = otpRecord[x].age
                         /\ x # o => Phase(x)' = Phase(x)
  BY <1>2, <1>3 DEF Phase, Stored
<1>5. Phase(o)' = IF request[r].status = "PENDING" THEN "open"
                  ELSE IF request[r].status = "VERIFIED" THEN "verified" ELSE "refused"
  BY <1>3 DEF Phase, Stored
<1>6. UNCHANGED <<[x \in Records |-> otpRecord[x].subject],
                  [x \in Records |-> IF x \in contended THEN 0 ELSE guesses[x]],
                  {x \in Records : otpRecord[x].age # "fresh"}, contended>>
  BY <1>3, <1>4
<1>7. \A x \in Records : Phase(x)' = IF x = o THEN Phase(o)' ELSE Phase(x)
  BY <1>4
<1>8. /\ Reasoned(request[r]) /\ request[r].pc = "save"
      /\ request[r].record = o
  BY <1>0 DEF ReasonInv, Save
<1>9. CASE o \in contended
  <2>1. PICK how \in {"open", "verified", "refused"} : Phase(o)' = how
    BY <1>5
  <2>2. [x \in Records |-> Phase(x)]' = [[x \in Records |-> Phase(x)] EXCEPT ![o] = how]
    BY <1>7, <2>1
  <2> QED
    BY <1>6, <1>9, <2>2 DEF Codes!Drift
<1>10. CASE o \notin contended
  <2>1. Phase(o) = "open" /\ guesses[o] = request[r].attempts
    BY <1>1, <1>10 DEF QuietInv, Exclusive, Accounted, Phase
  <2>2. CASE request[r].status = "PENDING"
    <3>1. \A x \in Records : Phase(x)' = Phase(x)
      BY <1>5, <1>7, <2>1, <2>2
    <3> QED
      BY <1>6, <3>1 DEF CodeVars
  <2>3. CASE request[r].status = "VERIFIED"
    <3>1. guesses[o] > 0
      BY <1>8, <2>1, <2>3 DEF Reasoned
    <3> QED
      BY <1>1, <1>5, <1>6, <1>7, <1>10, <2>1, <2>3, <3>1 DEF Codes!Accept, Codes!Close
  <2>4. CASE request[r].status \notin {"PENDING", "VERIFIED"}
    <3>1. otpRecord[o].age # "fresh" \/ guesses[o] = MaxAttempts
      BY <1>1, <1>8, <2>1, <2>4, BoundsAreNaturals DEF Reasoned
    <3> QED
      BY <1>1, <1>5, <1>6, <1>7, <1>10, <2>1, <2>4, <3>1 DEF Codes!Refuse, Codes!Close
  <2> QED
    BY <2>2, <2>3, <2>4
<1> QED
  BY <1>9, <1>10

LEMMA CleanupPurges ==
    ASSUME TypeInv, CleanupExpiredOtpRecords
    PROVE  \E S \in SUBSET Records : Codes!Purge(S)
<1> DEFINE S == {o \in Records : Cleans(o)}
<1>1. \A x \in Records : /\ otpRecord'[x].subject = otpRecord[x].subject
                         /\ otpRecord'[x].age = otpRecord[x].age
                         /\ ~Cleans(x) => otpRecord'[x] = otpRecord[x]
                         /\ Cleans(x) => otpRecord'[x].state = "purged"
  BY DEF CleanupExpiredOtpRecords, TypeInv, RecordRow
<1>2. \A x \in Records : Phase(x)' = IF Cleans(x) THEN "purged" ELSE Phase(x)
  BY <1>1 DEF Phase, Stored
<1>3. \A x \in Records : Cleans(x) => Phase(x) = "refused" /\ otpRecord[x].age # "fresh"
  BY DEF Cleans, Phase
<1>4. UNCHANGED <<contended, guesses>>
  BY DEF CleanupExpiredOtpRecords
<1>5. Codes!Purge(S)
  <2>1. [x \in Records |-> Phase(x)]'
            = [x \in Records |-> IF x \in S THEN "purged" ELSE [y \in Records |-> Phase(y)][x]]
    BY <1>2
  <2> QED
    BY <1>1, <1>3, <1>4, <2>1 DEF Codes!Purge
<1> QED
  BY <1>5

LEMMA GrowingExpires ==
    ASSUME TypeInv, NEW o \in Records, GrowOld(o)
    PROVE  Codes!Expire(o)
<1>1. \A x \in Records : /\ otpRecord'[x].subject = otpRecord[x].subject
                         /\ otpRecord'[x].state = otpRecord[x].state
                         /\ otpRecord'[x].status = otpRecord[x].status
                         /\ x # o => otpRecord'[x].age = otpRecord[x].age
  BY DEF GrowOld, TypeInv, RecordRow
<1>2. otpRecord'[o].age # "fresh"
  BY DEF GrowOld, TypeInv, RecordRow
<1>3. \A x \in Records : Phase(x)' = Phase(x)
  BY <1>1 DEF Phase, Stored
<1>4. Phase(o) # "unsent"
  BY DEF GrowOld, Phase
<1>5. UNCHANGED <<contended, guesses>>
  BY DEF GrowOld
<1> QED
  BY <1>1, <1>2, <1>3, <1>4, <1>5 DEF Codes!Expire

LEMMA StepIsOneTime ==
    ASSUME TypeInv, QuietInv, ReasonInv, [Next]_vars
    PROVE  [Codes!Next]_CodeVars
<1>1. ASSUME NEW s \in Subjects, Create(s) PROVE Codes!Next
  BY <1>1, CreateSends DEF Codes!Next
<1>2. ASSUME NEW r \in Requests, Verify(r) PROVE [Codes!Next]_CodeVars
  BY <1>2, VerifyTakes, VerifyIsGuess DEF Codes!Next
<1>3. ASSUME NEW r \in Requests, NEW accepted \in BOOLEAN, VerifyFn(r, accepted)
      PROVE  UNCHANGED CodeVars
  BY <1>3, CodesRest DEF VerifyFn
<1>4. ASSUME NEW r \in Requests, Save(r) PROVE [Codes!Next]_CodeVars
  BY <1>4, SaveCloses DEF Codes!Next
<1>5. ASSUME NEW o \in Records, GrowOld(o) PROVE Codes!Next
  BY <1>5, GrowingExpires DEF Codes!Next
<1>6. CASE CleanupExpiredOtpRecords
  BY <1>6, CleanupPurges DEF Codes!Next
<1>7. CASE UNCHANGED vars
  BY <1>7, CodesRest DEF vars
<1> QED
  BY <1>1, <1>2, <1>3, <1>4, <1>5, <1>6, <1>7
     DEF Next, Finish, PasswordResetOTPSend, UserPasswordResetOTPSend, Subjects

\* OtpService implements OneTimeCodes: as long as no two verifications of a code
\* overlap, it is compared in time, as the newest open code of its owner and
\* at most maxAttempts times, closes for one of the two reasons there are, and stays
\* closed, whatever the other codes, the provider and the cron do.
THEOREM CodesRefine == Spec => CodesAreOneTime
<1>1. Init => Codes!Init
  BY DEF Init, Codes!Init, Phase, Stored, Unused
<1>2. Init => ReasonInv
  BY DEF Init, ReasonInv, Idle
<1>3. TypeInv /\ QuietInv /\ ReasonInv /\ [Next]_vars => [Codes!Next]_(Codes!vars)
  BY StepIsOneTime DEF CodeVars, Codes!vars
<1> QED
  BY <1>1, <1>2, <1>3, TypeAlways, QuietAlways, ReasonNext, PTL
     DEF Spec, CodesAreOneTime, Codes!Spec

=============================================================================
