------------------------- MODULE RegistrationProofs -------------------------
(***************************************************************************)
(* What holds of Registration for every number of phones, codes and        *)
(* handlers.                                                               *)
(***************************************************************************)
EXTENDS Registration, TLAPS

-----------------------------------------------------------------------------
(* Type correctness. *)

\* Handler r goes on with q, and no other handler moves.
Moves(r, q) ==
    /\ q \in RequestRow
    /\ Shaped(q)
    /\ request' = [request EXCEPT ![r] = q]

\* It writes nothing else.
Quiet(r) == \/ Call(r) \/ GetSession(r) \/ MarkVerified(r)
            \/ GetVerifiedSession(r) \/ Fail(r)

LEMMA IdleIsTyped == Idle \in RequestRow /\ Shaped(Idle)
  BY DEF Idle, RequestRow, Shaped, Pcs, Verifying, Redeeming

LEMMA CallMoves ==
    ASSUME TypeOK, NEW r \in Requests, Call(r)
    PROVE  \E q : Moves(r, q)
<1> USE NoneIsNothing DEF Moves, Begin, Idle, RequestRow, Pcs, Verifying, Redeeming, Shaped
<1>1. ASSUME NEW p \in Phones, RegisterOtpRequest(r, p) PROVE \E q : Moves(r, q)
  BY <1>1 DEF RegisterOtpRequest
<1>2. ASSUME NEW p \in Phones, NEW c \in RequestIds, RegisterOtpVerify(r, p, c)
      PROVE  \E q : Moves(r, q)
  BY <1>2 DEF RegisterOtpVerify
<1>3. ASSUME NEW p \in Phones, RegisterPasswordSetup(r, p) PROVE \E q : Moves(r, q)
  BY <1>3 DEF RegisterPasswordSetup
<1> QED
  BY <1>1, <1>2, <1>3 DEF Call

LEMMA StepMoves ==
    ASSUME TypeOK, NEW r \in Requests, Step(r)
    PROVE  \E q : Moves(r, q)
<1> USE NoneIsNothing, IdleIsTyped DEF Moves, Goto, RequestRow, Pcs, Verifying, Redeeming, Shaped
<1>0. /\ request[r] \in RequestRow
      /\ Shaped(request[r])
      /\ request[r].phone # None => session[request[r].phone] \in {None} \cup Session
  BY DEF TypeOK
<1>1. CASE SendOtp(r)
  BY <1>0, <1>1 DEF SendOtp
<1>2. CASE CreateSession(r)
  BY <1>0, <1>2 DEF CreateSession
<1>3. CASE GetSession(r)
  BY <1>0, <1>3 DEF GetSession
<1>4. CASE VerifyOtp(r)
  BY <1>0, <1>4 DEF VerifyOtp
<1>5. CASE MarkVerified(r)
  BY <1>0, <1>5 DEF MarkVerified
<1>6. CASE WriteVerified(r)
  BY <1>0, <1>6 DEF WriteVerified
<1>7. CASE GetVerifiedSession(r)
  BY <1>0, <1>7 DEF GetVerifiedSession
<1>8. CASE CreateEntity(r)
  BY <1>0, <1>8 DEF CreateEntity, Insert
<1>9. CASE DeleteSession(r)
  BY <1>0, <1>9 DEF DeleteSession
<1>10. CASE Fail(r)
  BY <1>0, <1>10 DEF Fail
<1> QED
  BY <1>1, <1>2, <1>3, <1>4, <1>5, <1>6, <1>7, <1>8, <1>9, <1>10 DEF Step

\* What the tables, the cache and the provider hold after a step.
DataOK ==
    /\ user \in [Phones -> {"none", "sms", "oauth"}]
    /\ session \in [Phones -> {None} \cup Session]
    /\ sent \in [RequestIds -> Phones \cup {None}]
    /\ accepted \in SUBSET RequestIds
    /\ registered \in SUBSET RequestIds

LEMMA StepData ==
    ASSUME TypeOK, NEW r \in Requests, Step(r)
    PROVE  DataOK'
<1> USE NoneIsNothing DEF DataOK, Store, Goto, RequestRow, Verifying, Redeeming, Shaped, Session
<1>0. /\ DataOK
      /\ request[r] \in RequestRow
      /\ Shaped(request[r])
  BY DEF TypeOK
<1>1. CASE SendOtp(r)
  BY <1>0, <1>1 DEF SendOtp
<1>2. CASE CreateSession(r)
  BY <1>0, <1>2 DEF CreateSession
<1>3. CASE VerifyOtp(r)
  BY <1>0, <1>3 DEF VerifyOtp
<1>4. CASE WriteVerified(r)
  <2>1. [request[r].session EXCEPT !.otpVerified = TRUE] \in Session
    BY <1>0, <1>4 DEF WriteVerified
  <2> QED
    BY <1>0, <1>4, <2>1 DEF WriteVerified
<1>5. CASE CreateEntity(r)
  BY <1>0, <1>5 DEF CreateEntity, Insert
<1>6. CASE DeleteSession(r)
  BY <1>0, <1>6 DEF DeleteSession
<1>7. CASE GetSession(r) \/ MarkVerified(r) \/ GetVerifiedSession(r) \/ Fail(r)
  BY <1>0, <1>7 DEF GetSession, MarkVerified, GetVerifiedSession, Fail
<1> QED
  BY <1>1, <1>2, <1>3, <1>4, <1>5, <1>6, <1>7 DEF Step

LEMMA TypeNext == TypeOK /\ [Next]_vars => TypeOK'
<1> SUFFICES ASSUME TypeOK, [Next]_vars PROVE TypeOK'
  OBVIOUS
<1>0. DataOK
  BY DEF TypeOK, DataOK
<1>1. ASSUME Observe PROVE disturbed' \in SUBSET Phones
  BY <1>1 DEF Observe, TypeOK
<1>2. ASSUME NEW r \in Requests, NEW q, Moves(r, q)
      PROVE  request' \in [Requests -> RequestRow] /\ \A s \in Requests : Shaped(request'[s])
  BY <1>2 DEF Moves, TypeOK
<1>3. ASSUME NEW r \in Requests, Call(r), Observe PROVE TypeOK'
  <2>1. PICK q : Moves(r, q)
    BY <1>3, CallMoves
  <2>2. DataOK'
    BY <1>0, <1>3 DEF DataOK, Call, RegisterOtpRequest, RegisterOtpVerify,
                      RegisterPasswordSetup, Begin
  <2> QED
    BY <1>1, <1>2, <1>3, <2>1, <2>2 DEF TypeOK, DataOK
<1>4. ASSUME NEW r \in Requests, Step(r), Observe PROVE TypeOK'
  <2>1. PICK q : Moves(r, q)
    BY <1>4, StepMoves
  <2>2. DataOK'
    BY <1>4, StepData
  <2> QED
    BY <1>1, <1>2, <1>4, <2>1, <2>2 DEF TypeOK, DataOK
<1>5. ASSUME Environment, Observe PROVE TypeOK'
  <2>1. UNCHANGED request
    BY <1>5 DEF Environment, Expire, WriteUser
  <2>2. DataOK'
    BY <1>0, <1>5 DEF DataOK, Environment, Expire, Store, WriteUser, Users!Write,
                      Users!Kinds, Users!AddUser, Users!ChangeUser, Users!RemoveUser
  <2> QED
    BY <1>1, <1>5, <2>1, <2>2 DEF TypeOK, DataOK
<1>6. CASE UNCHANGED vars
  BY <1>6 DEF TypeOK, vars
<1> QED
  BY <1>3, <1>4, <1>5, <1>6 DEF Next

LEMMA TypeInit == Init => TypeOK
  BY IdleIsTyped DEF Init, TypeOK

\* Every reachable state is well typed, and a suspended handler holds what its
\* await needs.
THEOREM TypeCorrect == Spec => []TypeOK
  BY TypeInit, TypeNext, PTL DEF Spec

-----------------------------------------------------------------------------
(* Only a phone that answered a code is registered. *)

\* Session s belongs to phone p.
Addressed(s, p) == s # None => sent[s.requestId] = p

\* The code a handler holds went to its phone, and one of the phone's codes was
\* confirmed before a handler writes or redeems a verified session.
Honest(q) ==
    /\ q.pc \in {"createSession"} \cup Verifying => sent[q.requestId] = q.phone
    /\ Addressed(q.session, q.phone)
    /\ q.pc \in {"markVerified", "writeVerified"} \cup Redeeming => Proven(q.phone)

PhoneInv ==
    /\ \A p \in Phones : Addressed(session[p], p)
    /\ \A p \in Phones : session[p] # None /\ session[p].otpVerified => Proven(p)
    /\ \A q \in registered : sent[q] # None /\ Proven(sent[q])
    /\ \A r \in Requests : Honest(request[r])

\* Codes keep their phone, and confirmations are not taken back.
LEMMA SentGrows ==
    ASSUME TypeOK, NEW r \in Requests, Call(r) \/ Step(r)
    PROVE  /\ \A q \in RequestIds : sent[q] # None => sent'[q] = sent[q]
           /\ accepted \subseteq accepted'
           /\ \A p \in Phones : Proven(p) => Proven(p)'
<1>1. \A q \in RequestIds : sent[q] # None => sent'[q] = sent[q]
  BY DEF Call, Step, RegisterOtpRequest, RegisterOtpVerify, RegisterPasswordSetup, Begin,
         SendOtp, CreateSession, GetSession, VerifyOtp, MarkVerified, WriteVerified,
         GetVerifiedSession, CreateEntity, Insert, DeleteSession, Fail, Goto, Store, TypeOK
<1>2. accepted \subseteq accepted'
  BY DEF Call, Step, RegisterOtpRequest, RegisterOtpVerify, RegisterPasswordSetup, Begin,
         SendOtp, CreateSession, GetSession, VerifyOtp, MarkVerified, WriteVerified,
         GetVerifiedSession, CreateEntity, Insert, DeleteSession, Fail, Goto, Store
<1> QED
  BY <1>1, <1>2, NoneIsNothing DEF Proven, TypeOK

\* What handler r does to its own record and to the session of its phone.
LEMMA StepHonest ==
    ASSUME TypeOK, PhoneInv, NEW r \in Requests, Step(r)
    PROVE  /\ Honest(request[r])'
           /\ \A p \in Phones : Addressed(session[p], p)'
           /\ \A p \in Phones : session'[p] # None /\ session'[p].otpVerified => Proven(p)'
           /\ \A q \in registered' : sent'[q] # None /\ Proven(sent[q])'
<1> USE NoneIsNothing DEF Goto, Store, Idle, RequestRow, Session, Verifying, Redeeming, Shaped
<1>0. /\ request[r] \in RequestRow
      /\ Shaped(request[r])
      /\ Honest(request[r])
      /\ session \in [Phones -> {None} \cup Session]
      /\ r \in DOMAIN request
  BY DEF TypeOK, PhoneInv
\* What held of the sessions and accounts there were still holds.
<1>k. /\ \A p \in Phones : session[p] # None => sent'[session[p].requestId] = p
      /\ \A p \in Phones : session[p] # None /\ session[p].otpVerified => Proven(p)'
      /\ \A q \in registered : sent'[q] # None /\ Proven(sent[q])'
  BY <1>0, SentGrows DEF TypeOK, PhoneInv, Addressed
<1>1. CASE SendOtp(r)
  <2>1. PICK c \in RequestIds :
          /\ sent' = [sent EXCEPT ![c] = request[r].phone]
          /\ request' = [request EXCEPT ![r] =
                 [request[r] EXCEPT !.pc = "createSession", !.requestId = c]]
    BY <1>1 DEF SendOtp
  <2>2. UNCHANGED <<session, registered>>
    BY <1>1 DEF SendOtp
  <2>3. /\ request'[r].pc = "createSession"
        /\ request'[r].requestId = c
        /\ request'[r].phone = request[r].phone
        /\ request'[r].session = request[r].session
    BY <1>0, <2>1
  <2>4. request[r].session = None
    BY <1>0, <1>1 DEF SendOtp
  <2>5. sent'[c] = request[r].phone
    BY <2>1 DEF TypeOK
  <2>6. Honest(request[r])'
    BY <2>3, <2>4, <2>5 DEF Honest, Addressed
  <2> QED
    BY <1>k, <2>2, <2>6 DEF Addressed
<1>2. CASE CreateSession(r)
  BY <1>0, <1>2, SentGrows DEF CreateSession, TypeOK, PhoneInv, Honest, Addressed
<1>3. CASE GetSession(r)
  <2>1. UNCHANGED <<session, registered, sent>>
    BY <1>3 DEF GetSession
  <2>2. ASSUME request'[r] = Idle PROVE Honest(request[r])'
    BY <2>2 DEF Honest, Addressed
  <2>3. ASSUME request'[r] # Idle PROVE Honest(request[r])'
    <3>1. /\ session[request[r].phone] =
                 [requestId |-> request[r].requestId, otpVerified |-> FALSE]
          /\ request'[r] = [request[r] EXCEPT !.pc = "verifyOtp"]
      BY <1>0, <1>3, <2>3 DEF GetSession
    <3>2. /\ request'[r].pc = "verifyOtp"
          /\ request'[r].requestId = request[r].requestId
          /\ request'[r].phone = request[r].phone
          /\ request'[r].session = request[r].session
      BY <1>0, <3>1
    <3>3. /\ request[r].requestId \in RequestIds
          /\ request[r].phone \in Phones
          /\ request[r].session = None
      BY <1>0, <1>3 DEF GetSession
    <3>4. session[request[r].phone] \in Session
      BY <3>1, <3>3
    <3>5. session[request[r].phone].requestId = request[r].requestId
      BY <3>1
    <3>6. session[request[r].phone] # None
      BY <3>4
    <3>7. sent'[request[r].requestId] = request[r].phone
      BY <1>k, <3>3, <3>5, <3>6
    <3> QED
      BY <3>2, <3>3, <3>7 DEF Honest, Addressed
  <2> QED
    BY <1>k, <2>1, <2>2, <2>3 DEF Addressed
<1>4. CASE VerifyOtp(r)
  BY <1>0, <1>4, SentGrows DEF VerifyOtp, TypeOK, PhoneInv, Honest, Addressed, Proven
<1>5. CASE MarkVerified(r)
  BY <1>0, <1>5, SentGrows DEF MarkVerified, TypeOK, PhoneInv, Honest, Addressed
<1>6. CASE WriteVerified(r)
  BY <1>0, <1>6, SentGrows DEF WriteVerified, TypeOK, PhoneInv, Honest, Addressed
<1>7. CASE GetVerifiedSession(r)
  BY <1>0, <1>7, SentGrows DEF GetVerifiedSession, TypeOK, PhoneInv, Honest, Addressed
<1>8. CASE CreateEntity(r)
  BY <1>0, <1>8, SentGrows DEF CreateEntity, Insert, TypeOK, PhoneInv, Honest, Addressed
<1>9. CASE DeleteSession(r)
  BY <1>0, <1>9, SentGrows DEF DeleteSession, TypeOK, PhoneInv, Honest, Addressed
<1>10. CASE Fail(r)
  BY <1>0, <1>10, SentGrows DEF Fail, TypeOK, PhoneInv, Honest, Addressed
<1> QED
  BY <1>1, <1>2, <1>3, <1>4, <1>5, <1>6, <1>7, <1>8, <1>9, <1>10 DEF Step

\* The others' records stay honest, since what they hold is not taken back.
LEMMA OthersHonest ==
    ASSUME TypeOK, PhoneInv, NEW r \in Requests, Call(r) \/ Step(r),
           NEW s \in Requests, request'[s] = request[s]
    PROVE  Honest(request[s])'
<1>1. /\ request[s] \in RequestRow
      /\ Shaped(request[s])
      /\ Honest(request[s])
  BY DEF TypeOK, PhoneInv
<1> QED
  BY <1>1, SentGrows, NoneIsNothing
     DEF Honest, Addressed, RequestRow, Session, Verifying, Redeeming, Shaped

LEMMA PhoneNext == TypeOK /\ PhoneInv /\ [Next]_vars => PhoneInv'
<1> SUFFICES ASSUME TypeOK, PhoneInv, [Next]_vars PROVE PhoneInv'
  OBVIOUS
<1>1. ASSUME NEW r \in Requests, Call(r) PROVE PhoneInv'
  <2>1. PICK q : Moves(r, q)
    BY <1>1, CallMoves
  <2>2. UNCHANGED <<session, sent, accepted, registered>>
    BY <1>1 DEF Call, RegisterOtpRequest, RegisterOtpVerify, RegisterPasswordSetup, Begin
  <2>3. /\ request'[r].pc \in {"sendOtp", "getSession", "getVerified"}
        /\ request'[r].session = None
    BY <1>1 DEF Call, RegisterOtpRequest, RegisterOtpVerify, RegisterPasswordSetup, Begin,
                TypeOK, Idle
  <2>5. Honest(request[r])'
    BY <2>3 DEF Honest, Addressed, Verifying, Redeeming
  <2>4. \A s \in Requests \ {r} : Honest(request[s])'
    BY <1>1, <2>1, OthersHonest DEF Moves, TypeOK
  <2> QED
    BY <2>2, <2>4, <2>5 DEF PhoneInv, Addressed, Proven
<1>2. ASSUME NEW r \in Requests, Step(r) PROVE PhoneInv'
  <2>1. PICK q : Moves(r, q)
    BY <1>2, StepMoves
  <2>2. \A s \in Requests \ {r} : Honest(request[s])'
    BY <1>2, <2>1, OthersHonest DEF Moves, TypeOK
  <2> QED
    BY <1>2, <2>2, StepHonest DEF PhoneInv
<1>3. CASE Environment
  <2>1. UNCHANGED <<sent, accepted, registered, request>>
    BY <1>3 DEF Environment, Expire, Store, WriteUser
  <2>2. \A p \in Phones : session'[p] \in {None, session[p]}
    BY <1>3 DEF Environment, Expire, Store, WriteUser, TypeOK
  <2> QED
    BY <2>1, <2>2 DEF PhoneInv, Honest, Addressed, Proven
<1>4. CASE UNCHANGED vars
  BY <1>4 DEF vars, PhoneInv, Honest, Addressed, Proven
<1> QED
  BY <1>1, <1>2, <1>3, <1>4 DEF Next

LEMMA PhoneInit == Init => PhoneInv
  BY DEF Init, PhoneInv, Honest, Addressed, Idle, Verifying, Redeeming

\* A verified session, and an account made from one, belongs to a phone that
\* answered a code sent to it.
THEOREM OnlyProvenPhones == Spec => []PhoneProven
<1>1. PhoneInv => PhoneProven
  BY DEF PhoneInv, PhoneProven
<1> QED
  BY <1>1, PhoneInit, PhoneNext, TypeCorrect, PTL DEF Spec

-----------------------------------------------------------------------------
(* A code that was just sent is nowhere else. *)

Used(q) ==
    \/ q \in registered
    \/ \E p \in Phones : session[p] # None /\ session[p].requestId = q
    \/ \E r \in Requests : request[r].session # None /\ request[r].session.requestId = q

FreshInv ==
    /\ \A r \in Requests :
         request[r].pc = "createSession" => ~Used(request[r].requestId)
    /\ \A r1, r2 \in Requests :
         /\ request[r1].pc = "createSession"
         /\ request[r2].pc = "createSession"
         /\ request[r1].requestId = request[r2].requestId
         => r1 = r2

\* A code that no phone was sent is not used.
LEMMA UnsentUnused ==
    ASSUME TypeOK, PhoneInv, NEW q \in RequestIds, sent[q] = None
    PROVE  /\ ~Used(q)
           /\ \A r \in Requests : request[r].pc = "createSession" => request[r].requestId # q
<1>1. q \notin registered
  BY DEF PhoneInv
<1>2. \A p \in Phones : session[p] # None => session[p].requestId # q
  BY NoneIsNothing DEF PhoneInv, Addressed
<1>3. ASSUME NEW r \in Requests, request[r].session # None
      PROVE  request[r].session.requestId # q
  <2>1. request[r].phone \in Phones
    BY <1>3 DEF TypeOK, RequestRow, Shaped, Redeeming
  <2> QED
    BY <1>3, <2>1, NoneIsNothing DEF PhoneInv, Honest, Addressed
<1>4. ASSUME NEW r \in Requests, request[r].pc = "createSession"
      PROVE  request[r].requestId # q
  <2>1. request[r].phone \in Phones
    BY <1>4 DEF TypeOK, RequestRow, Shaped
  <2> QED
    BY <1>4, <2>1, NoneIsNothing DEF PhoneInv, Honest
<1> QED
  BY <1>1, <1>2, <1>3, <1>4 DEF Used

\* Only SendOtp takes a new code; what else a handler stores, carries or
\* registers was used already, or is the code it was about to store.
LEMMA StepUses ==
    ASSUME TypeOK, NEW r \in Requests, Step(r), ~SendOtp(r)
    PROVE  /\ \A q : Used(q)' => \/ Used(q)
                                 \/ request[r].pc = "createSession" /\ request[r].requestId = q
           /\ request'[r].pc # "createSession"
<1> USE NoneIsNothing DEF Goto, Store, Idle, RequestRow, Session, Verifying, Redeeming, Shaped
<1>0. /\ request[r] \in RequestRow
      /\ Shaped(request[r])
      /\ session \in [Phones -> {None} \cup Session]
      /\ r \in DOMAIN request
  BY DEF TypeOK
<1>2. CASE CreateSession(r)
  BY <1>0, <1>2 DEF CreateSession, Used
<1>3. CASE GetSession(r)
  BY <1>0, <1>3 DEF GetSession, Used
<1>4. CASE VerifyOtp(r)
  BY <1>0, <1>4 DEF VerifyOtp, Used
<1>5. CASE MarkVerified(r)
  BY <1>0, <1>5 DEF MarkVerified, Used
<1>6. CASE WriteVerified(r)
  BY <1>0, <1>6 DEF WriteVerified, Used
<1>7. CASE GetVerifiedSession(r)
  BY <1>0, <1>7 DEF GetVerifiedSession, Used
<1>8. CASE CreateEntity(r)
  <2>1. /\ request'[r].session \in {None, request[r].session}
        /\ request'[r].pc # "createSession"
        /\ \A s \in Requests \ {r} : request'[s] = request[s]
    BY <1>0, <1>8 DEF CreateEntity, Insert, TypeOK
  <2>2. /\ registered' \subseteq registered \cup {request[r].session.requestId}
        /\ request[r].session # None
        /\ UNCHANGED session
    BY <1>0, <1>8 DEF CreateEntity, Insert
  <2> QED
    BY <2>1, <2>2 DEF Used
<1>9. CASE DeleteSession(r)
  BY <1>0, <1>9 DEF DeleteSession, Used
<1>10. CASE Fail(r)
  BY <1>0, <1>10 DEF Fail, Used
<1> QED
  BY <1>2, <1>3, <1>4, <1>5, <1>6, <1>7, <1>8, <1>9, <1>10 DEF Step

LEMMA FreshNext == TypeOK /\ PhoneInv /\ FreshInv /\ [Next]_vars => FreshInv'
<1> SUFFICES ASSUME TypeOK, PhoneInv, FreshInv, [Next]_vars PROVE FreshInv'
  OBVIOUS
<1>1. ASSUME NEW r \in Requests, Call(r) PROVE FreshInv'
  <2>1. PICK q : Moves(r, q)
    BY <1>1, CallMoves
  <2>2. UNCHANGED <<session, registered>>
    BY <1>1 DEF Call, RegisterOtpRequest, RegisterOtpVerify, RegisterPasswordSetup, Begin
  <2>3. request'[r].session = None /\ request'[r].pc # "createSession"
    BY <1>1 DEF Call, RegisterOtpRequest, RegisterOtpVerify, RegisterPasswordSetup, Begin,
                TypeOK, Idle
  <2>4. \A s \in Requests \ {r} : request'[s] = request[s]
    BY <2>1 DEF Moves, TypeOK
  <2> QED
    BY <2>2, <2>3, <2>4 DEF FreshInv, Used
<1>2. ASSUME NEW r \in Requests, SendOtp(r) PROVE FreshInv'
  <2>1. PICK q \in RequestIds :
          /\ sent[q] = None
          /\ request' = [request EXCEPT ![r] =
                 [request[r] EXCEPT !.pc = "createSession", !.requestId = q]]
    BY <1>2 DEF SendOtp
  <2>2. r \in DOMAIN request /\ request[r] \in RequestRow
    BY DEF TypeOK
  <2>3. /\ request'[r].pc = "createSession"
        /\ request'[r].requestId = q
        /\ request'[r].session = request[r].session
    BY <2>1, <2>2 DEF RequestRow
  <2>4. \A s \in Requests \ {r} : request'[s] = request[s]
    BY <2>1 DEF TypeOK
  <2>5. UNCHANGED <<session, registered>>
    BY <1>2 DEF SendOtp
  <2>6. \A c : Used(c)' <=> Used(c)
    BY <2>3, <2>4, <2>5 DEF Used
  <2> QED
    BY <2>1, <2>3, <2>4, <2>6, UnsentUnused DEF FreshInv
<1>3. ASSUME NEW r \in Requests, Step(r), ~SendOtp(r) PROVE FreshInv'
  <2>1. PICK q : Moves(r, q)
    BY <1>3, StepMoves
  <2>2. \A s \in Requests \ {r} : request'[s] = request[s]
    BY <2>1 DEF Moves, TypeOK
  <2> QED
    BY <1>3, <2>2, StepUses DEF FreshInv
<1>4. CASE Environment
  <2>1. UNCHANGED <<registered, request>>
    BY <1>4 DEF Environment, Expire, Store, WriteUser
  <2>2. \A p \in Phones : session'[p] \in {None, session[p]}
    BY <1>4 DEF Environment, Expire, Store, WriteUser, TypeOK
  <2> QED
    BY <2>1, <2>2 DEF FreshInv, Used
<1>5. CASE UNCHANGED vars
  BY <1>5 DEF vars, FreshInv, Used
<1> QED
  BY <1>1, <1>2, <1>3, <1>4, <1>5 DEF Next

-----------------------------------------------------------------------------
(* Undisturbed phones. *)

\* What a handler of an undisturbed phone knows of its code.
Current(q) ==
    q.phone \notin disturbed =>
      /\ q.pc \in {"verifyOtp", "markVerified"} /\ session[q.phone] # None
            => session[q.phone].requestId = q.requestId
      /\ q.pc = "writeVerified" => q.session.requestId = q.requestId
      /\ q.pc \in {"markVerified", "writeVerified"} => q.requestId \in accepted
      /\ q.pc \in Redeeming => q.session.requestId \in accepted
      /\ q.pc \in Verifying => q.requestId \notin registered
      /\ q.pc = "createEntity" => q.session.requestId \notin registered

\* Some handler is about to delete the session of p.
Leaving(p) == \E r \in Requests : request[r].pc = "deleteSession" /\ request[r].phone = p

\* A verified session has a confirmed code, and one that became an account is
\* on its way out.
Good(p) ==
    session[p] # None =>
        /\ session[p].otpVerified => session[p].requestId \in accepted
        /\ session[p].requestId \in registered => Leaving(p)

CodeInv ==
    /\ \A r \in Requests : Current(request[r])
    /\ \A p \in Phones \ disturbed : Good(p)
    /\ \A q \in registered : sent[q] \in disturbed \/ q \in accepted
    /\ \A p \in Phones \ disturbed, r1, r2 \in Requests :
         r1 # r2 => ~Meet(request[r1], request[r2], p)

\* What Observe leaves undisturbed.
LEMMA ObserveMeets ==
    ASSUME Observe
    PROVE  /\ disturbed \subseteq disturbed'
           /\ \A p \in Phones \ disturbed', r1, r2 \in Requests :
                r1 # r2 => ~Meet(request'[r1], request'[r2], p)
           /\ \A p \in Phones \ disturbed', r \in Requests : ~Abandoned(r, p)
  BY DEF Observe

\* r is the only handler that verifies or redeems on its phone.
LEMMA Alone ==
    ASSUME TypeOK, CodeInv, NEW r \in Requests, NEW s \in Requests \ {r},
           request[r].phone \notin disturbed,
           request[r].pc \in Verifying \cup Redeeming \cup {"createSession"},
           request[s].phone = request[r].phone
    PROVE  /\ request[s].pc \notin Verifying
           /\ request[r].pc # "createSession" => request[s].pc \notin Redeeming
<1>1. request[r].phone \in Phones
  BY DEF TypeOK, RequestRow, Shaped, Verifying, Redeeming
<1>2. ~Meet(request[r], request[s], request[r].phone) /\ ~Meet(request[s], request[r], request[r].phone)
  BY <1>1 DEF CodeInv
<1> QED
  BY <1>2 DEF Meet

\* The steps that change nothing but their handler's record and, maybe, what
\* the provider knows.
LEMMA OthersCurrent ==
    ASSUME CodeInv, UNCHANGED <<session, registered>>, accepted \subseteq accepted',
           disturbed \subseteq disturbed', NEW s \in Requests, request'[s] = request[s]
    PROVE  Current(request[s])'
  BY DEF CodeInv, Current

\* They keep the invariant if their own handler stays current.
LEMMA QuietCode ==
    ASSUME TypeOK, PhoneInv, CodeInv, Observe, NEW r \in Requests, Call(r) \/ Step(r),
           UNCHANGED <<session, registered>>,
           request[r].pc # "deleteSession", Current(request[r])',
           \A s \in Requests \ {r} : request'[s] = request[s]
    PROVE  CodeInv'
<1>1. \A s \in Requests : Current(request[s])'
  BY OthersCurrent, SentGrows, ObserveMeets
<1>2. ASSUME NEW p \in Phones \ disturbed' PROVE Good(p)'
  <2>1. Good(p)
    BY ObserveMeets DEF CodeInv
  <2>2. Leaving(p) => Leaving(p)'
    BY DEF Leaving
  <2> QED
    BY <2>1, <2>2, SentGrows DEF Good
<1>3. \A q \in registered' : sent'[q] \in disturbed' \/ q \in accepted'
  BY SentGrows, ObserveMeets DEF CodeInv, PhoneInv, TypeOK
<1> QED
  BY <1>1, <1>2, <1>3, ObserveMeets DEF CodeInv

LEMMA OthersStay ==
    ASSUME TypeOK, NEW r \in Requests, Call(r) \/ Step(r)
    PROVE  /\ \A s \in Requests \ {r} : request'[s] = request[s]
           /\ request'[r] \in RequestRow
           /\ Shaped(request'[r])
<1>1. PICK q : Moves(r, q)
  BY CallMoves, StepMoves
<1> QED
  BY <1>1 DEF Moves, TypeOK

LEMMA CallCode ==
    ASSUME TypeOK, PhoneInv, CodeInv, Observe, NEW r \in Requests, Call(r)
    PROVE  CodeInv'
<1>1. /\ UNCHANGED <<session, registered>>
      /\ request[r].pc = "idle"
      /\ request'[r].pc \in {"sendOtp", "getSession", "getVerified"}
  BY DEF Call, RegisterOtpRequest, RegisterOtpVerify, RegisterPasswordSetup, Begin, TypeOK, Idle
<1>2. Current(request[r])'
  BY <1>1 DEF Current, Verifying, Redeeming
<1> QED
  BY <1>1, <1>2, QuietCode, OthersStay

\* What a handler may take from the session of an undisturbed phone: it would
\* meet one that is about to delete the session of a registered code.
LEMMA TakeSession ==
    ASSUME TypeOK, CodeInv, Observe, NEW r \in Requests,
           \A s \in Requests \ {r} : request'[s] = request[s],
           request'[r].pc \in {"verifyOtp", "createEntity"},
           request[r].pc # "deleteSession",
           request'[r].phone = request[r].phone,
           request[r].phone \in Phones \ disturbed',
           session[request[r].phone] # None
    PROVE  session[request[r].phone].requestId \notin registered
<1> DEFINE p == request[r].phone
<1>1. SUFFICES ASSUME Leaving(p) PROVE FALSE
  BY ObserveMeets DEF CodeInv, Good
<1>2. PICK s \in Requests : request[s].pc = "deleteSession" /\ request[s].phone = p
  BY <1>1 DEF Leaving
<1>3. s # r /\ request'[s] = request[s]
  BY <1>2
<1>4. Meet(request'[r], request'[s], p)
  BY <1>2, <1>3 DEF Meet, Verifying, Redeeming
<1> QED
  BY <1>3, <1>4, ObserveMeets

LEMMA GetSessionCode ==
    ASSUME TypeOK, PhoneInv, CodeInv, Observe, NEW r \in Requests, GetSession(r)
    PROVE  CodeInv'
<1>0. /\ request[r] \in RequestRow
      /\ Shaped(request[r])
      /\ session \in [Phones -> {None} \cup Session]
      /\ r \in DOMAIN request
  BY DEF TypeOK
<1>1. Step(r) /\ UNCHANGED <<session, registered>> /\ request[r].pc = "getSession"
  BY DEF Step, GetSession, Goto
<1>2. ASSUME request'[r] = Idle PROVE Current(request[r])'
  BY <1>2 DEF Current, Idle, Verifying, Redeeming
<1>3. ASSUME request'[r] # Idle PROVE Current(request[r])'
  <2>1. /\ session[request[r].phone] =
               [requestId |-> request[r].requestId, otpVerified |-> FALSE]
        /\ request'[r] = [request[r] EXCEPT !.pc = "verifyOtp"]
    BY <1>0, <1>3 DEF GetSession, Goto
  <2>2. /\ request'[r].pc = "verifyOtp"
        /\ request'[r].requestId = request[r].requestId
        /\ request'[r].phone = request[r].phone
    BY <1>0, <2>1 DEF RequestRow
  <2>3. /\ request[r].requestId \in RequestIds
        /\ request[r].phone \in Phones
    BY <1>0, <1>1 DEF RequestRow, Shaped
  <2>4. session[request[r].phone] \in Session
    BY <2>1, <2>3 DEF Session
  <2>5. session[request[r].phone].requestId = request[r].requestId
    BY <2>1
  <2>6. session[request[r].phone] # None
    BY <2>4, NoneIsNothing DEF Session
  <2>7. request[r].phone \notin disturbed' => request[r].requestId \notin registered
    BY <1>1, <2>2, <2>3, <2>5, <2>6, TakeSession, OthersStay
  <2> QED
    BY <1>1, <2>2, <2>5, <2>7 DEF Current, Verifying, Redeeming
<1> QED
  BY <1>1, <1>2, <1>3, QuietCode, OthersStay

LEMMA GetVerifiedSessionCode ==
    ASSUME TypeOK, PhoneInv, CodeInv, Observe, NEW r \in Requests, GetVerifiedSession(r)
    PROVE  CodeInv'
<1>0. /\ request[r] \in RequestRow
      /\ Shaped(request[r])
      /\ r \in DOMAIN request
  BY DEF TypeOK
<1>1. Step(r) /\ UNCHANGED <<session, registered, accepted>> /\ request[r].pc = "getVerified"
  BY DEF Step, GetVerifiedSession, Goto
<1>2. ASSUME request'[r] = Idle PROVE Current(request[r])'
  BY <1>2 DEF Current, Idle, Verifying, Redeeming
<1>3. ASSUME request'[r] # Idle PROVE Current(request[r])'
  <2>1. /\ session[request[r].phone] # None
        /\ session[request[r].phone].otpVerified
        /\ request'[r] = [request[r] EXCEPT !.pc = "createEntity",
                                            !.session = session[request[r].phone]]
    BY <1>0, <1>3 DEF GetVerifiedSession, Goto
  <2>2. /\ request'[r].pc = "createEntity"
        /\ request'[r].session = session[request[r].phone]
        /\ request'[r].phone = request[r].phone
    BY <1>0, <2>1 DEF RequestRow
  <2>3. request[r].phone \in Phones
    BY <1>0, <1>1 DEF RequestRow, Shaped
  <2>4. request[r].phone \notin disturbed' =>
            session[request[r].phone].requestId \notin registered
    BY <1>1, <2>1, <2>2, <2>3, TakeSession, OthersStay
  <2>5. request[r].phone \notin disturbed' =>
            session[request[r].phone].requestId \in accepted
    BY <2>1, <2>3, ObserveMeets DEF CodeInv, Good
  <2> QED
    BY <1>1, <2>2, <2>4, <2>5 DEF Current, Verifying, Redeeming
<1> QED
  BY <1>1, <1>2, <1>3, QuietCode, OthersStay

LEMMA VerifyCode ==
    ASSUME TypeOK, PhoneInv, CodeInv, Observe, NEW r \in Requests,
           SendOtp(r) \/ VerifyOtp(r) \/ MarkVerified(r)
    PROVE  CodeInv'
<1>0. /\ request[r] \in RequestRow
      /\ Shaped(request[r])
      /\ r \in DOMAIN request
      /\ Current(request[r])
  BY DEF TypeOK, CodeInv
<1>1. Step(r) /\ UNCHANGED <<session, registered>> /\ request[r].pc # "deleteSession"
  BY DEF Step, SendOtp, VerifyOtp, MarkVerified, Goto
<1>2. CASE SendOtp(r)
  <2>1. request'[r].pc = "createSession"
    BY <1>0, <1>2 DEF SendOtp, RequestRow
  <2>2. Current(request[r])'
    BY <2>1 DEF Current, Verifying, Redeeming
  <2> QED
    BY <1>1, <2>2, QuietCode, OthersStay
<1>3. CASE VerifyOtp(r)
  <2>1. /\ request'[r] = [request[r] EXCEPT !.pc = "markVerified"]
        /\ accepted' = accepted \cup {request[r].requestId}
        /\ request[r].pc = "verifyOtp"
    BY <1>0, <1>3 DEF VerifyOtp
  <2>2. /\ request'[r].pc = "markVerified"
        /\ request'[r].requestId = request[r].requestId
        /\ request'[r].phone = request[r].phone
    BY <1>0, <2>1 DEF RequestRow
  <2>3. Current(request[r])'
    BY <1>0, <1>1, <2>1, <2>2, ObserveMeets DEF Current, Verifying, Redeeming
  <2> QED
    BY <1>1, <2>3, QuietCode, OthersStay
<1>4. CASE MarkVerified(r)
  <2>1. UNCHANGED accepted /\ request[r].pc = "markVerified"
    BY <1>4 DEF MarkVerified, Goto
  <2>2. ASSUME request'[r] = Idle PROVE Current(request[r])'
    BY <2>2 DEF Current, Idle, Verifying, Redeeming
  <2>3. ASSUME request'[r] # Idle PROVE Current(request[r])'
    <3>1. /\ session[request[r].phone] # None
          /\ request'[r] = [request[r] EXCEPT !.pc = "writeVerified",
                                              !.session = session[request[r].phone]]
      BY <1>0, <1>4, <2>3 DEF MarkVerified, Goto
    <3>2. /\ request'[r].pc = "writeVerified"
          /\ request'[r].session = session[request[r].phone]
          /\ request'[r].requestId = request[r].requestId
          /\ request'[r].phone = request[r].phone
      BY <1>0, <3>1 DEF RequestRow
    <3> QED
      BY <1>0, <1>1, <2>1, <3>1, <3>2, ObserveMeets DEF Current, Verifying, Redeeming
  <2> QED
    BY <1>1, <2>2, <2>3, QuietCode, OthersStay
<1> QED
  BY <1>2, <1>3, <1>4

LEMMA CreateSessionCode ==
    ASSUME TypeOK, FreshInv, CodeInv, Observe, NEW r \in Requests, CreateSession(r)
    PROVE  CodeInv'
<1> DEFINE p == request[r].phone
<1> DEFINE new == [requestId |-> request[r].requestId, otpVerified |-> FALSE]
<1>0. /\ request[r].pc = "createSession"
      /\ p \in Phones
      /\ request' = [request EXCEPT ![r] = Idle]
      /\ session' = [session EXCEPT ![p] = new]
      /\ UNCHANGED <<sent, accepted, registered>>
  BY DEF CreateSession, Store, TypeOK, RequestRow, Shaped
<1>1. request'[r] = Idle /\ \A s \in Requests \ {r} : request'[s] = request[s]
  BY <1>0 DEF TypeOK
<1>2. Current(request[r])'
  BY <1>1 DEF Current, Idle, Verifying, Redeeming
<1>3. ASSUME NEW s \in Requests \ {r} PROVE Current(request[s])'
  <2>1. Current(request[s])
    BY DEF CodeInv
  <2>2. request[s].phone \notin disturbed' /\ request[s].pc \in Verifying
            => request[s].phone # p
    BY <1>0, Alone, ObserveMeets
  <2>3. request[s].phone # p => session'[request[s].phone] = session[request[s].phone]
    BY <1>0, <2>1 DEF TypeOK
  <2> QED
    BY <1>0, <1>1, <2>1, <2>2, <2>3, ObserveMeets DEF Current, Verifying
<1>4. ASSUME NEW x \in Phones \ disturbed' PROVE Good(x)'
  <2>1. CASE x = p
    <3>1. session'[x] = new /\ new.requestId = request[r].requestId /\ ~new.otpVerified
      BY <1>0, <2>1 DEF TypeOK
    <3>2. request[r].requestId \notin registered
      BY <1>0 DEF FreshInv, Used
    <3> QED
      BY <1>0, <3>1, <3>2 DEF Good
  <2>2. CASE x # p
    <3>1. session'[x] = session[x] /\ Good(x)
      BY <1>0, <2>2, ObserveMeets DEF TypeOK, CodeInv
    <3>2. Leaving(x) => Leaving(x)'
      BY <1>0, <1>1 DEF Leaving
    <3> QED
      BY <1>0, <3>1, <3>2 DEF Good
  <2> QED
    BY <2>1, <2>2
<1> QED
  BY <1>0, <1>2, <1>3, <1>4, ObserveMeets DEF CodeInv

LEMMA WriteVerifiedCode ==
    ASSUME TypeOK, CodeInv, Observe, NEW r \in Requests, WriteVerified(r)
    PROVE  CodeInv'
<1> DEFINE p == request[r].phone
<1> DEFINE new == [request[r].session EXCEPT !.otpVerified = TRUE]
<1>0. /\ request[r].pc = "writeVerified"
      /\ p \in Phones
      /\ request[r].session \in Session
      /\ request' = [request EXCEPT ![r] = Idle]
      /\ session' = [session EXCEPT ![p] = new]
      /\ UNCHANGED <<sent, accepted, registered>>
  BY DEF WriteVerified, Store, TypeOK, RequestRow, Shaped
<1>k. UNCHANGED <<sent, accepted, registered>>
  BY <1>0
<1>1. request'[r] = Idle /\ \A s \in Requests \ {r} : request'[s] = request[s]
  BY <1>0 DEF TypeOK
<1>2. Current(request[r])'
  BY <1>1 DEF Current, Idle, Verifying, Redeeming
<1>3. ASSUME NEW s \in Requests \ {r} PROVE Current(request[s])'
  <2>1. Current(request[s])
    BY DEF CodeInv
  <2>2. request[s].phone \notin disturbed' /\ request[s].pc \in Verifying
            => request[s].phone # p
    BY <1>0, Alone, ObserveMeets DEF Verifying
  <2>3. request[s].phone # p => session'[request[s].phone] = session[request[s].phone]
    BY <1>0, <2>1 DEF TypeOK
  <2> QED
    BY <1>0, <1>1, <2>1, <2>2, <2>3, ObserveMeets DEF Current, Verifying
<1>4. ASSUME NEW x \in Phones \ disturbed' PROVE Good(x)'
  <2>1. CASE x = p
    <3>1. session'[x].requestId = request[r].session.requestId
      BY <1>0, <2>1 DEF TypeOK, Session
    <3>2. Current(request[r]) /\ p \notin disturbed
      BY <2>1, ObserveMeets DEF CodeInv
    <3>3. /\ request[r].session.requestId \in accepted
          /\ request[r].session.requestId \notin registered
      BY <1>0, <3>2 DEF Current, Verifying
    <3> QED
      BY <1>k, <3>1, <3>3 DEF Good
  <2>2. CASE x # p
    <3>1. session'[x] = session[x] /\ Good(x)
      BY <1>0, <2>2, ObserveMeets DEF TypeOK, CodeInv
    <3>2. Leaving(x) => Leaving(x)'
      BY <1>0, <1>1 DEF Leaving
    <3> QED
      BY <1>k, <3>1, <3>2 DEF Good
  <2> QED
    BY <2>1, <2>2
<1> QED
  BY <1>0, <1>2, <1>3, <1>4, ObserveMeets DEF CodeInv

LEMMA CreateEntityCode ==
    ASSUME TypeOK, PhoneInv, CodeInv, Observe, NEW r \in Requests, CreateEntity(r)
    PROVE  CodeInv'
<1> DEFINE p == request[r].phone
<1> DEFINE c == request[r].session.requestId
<1>0. /\ request[r].pc = "createEntity"
      /\ p \in Phones
      /\ request[r].session \in Session
      /\ request[r] \in RequestRow
      /\ Honest(request[r])
      /\ UNCHANGED <<session, sent, accepted>>
  BY DEF CreateEntity, Insert, TypeOK, RequestRow, Shaped, Redeeming, PhoneInv
<1>1. sent[c] = p
  BY <1>0, NoneIsNothing DEF Honest, Addressed, Session
<1>2. Step(r) /\ \A s \in Requests \ {r} : request'[s] = request[s]
  BY OthersStay DEF Step
<1>3. ASSUME user[p] # "none" PROVE CodeInv'
  <2>1. request'[r] = Idle /\ UNCHANGED registered
    BY <1>3 DEF CreateEntity, Insert, TypeOK
  <2>2. Current(request[r])'
    BY <2>1 DEF Current, Idle, Verifying, Redeeming
  <2> QED
    BY <1>0, <1>2, <2>1, <2>2, QuietCode
<1>4. ASSUME user[p] = "none" PROVE CodeInv'
  <2>1. /\ request' = [request EXCEPT ![r] = [request[r] EXCEPT !.pc = "deleteSession"]]
        /\ registered' = registered \cup {c}
    BY <1>4 DEF CreateEntity, Insert
  <2>2. /\ request'[r].pc = "deleteSession"
        /\ request'[r].phone = p
        /\ request'[r].session = request[r].session
    BY <1>0, <2>1 DEF RequestRow, TypeOK
  <2>3. Current(request[r])
    BY DEF CodeInv
  <2>4. Current(request[r])'
    BY <1>0, <2>2, <2>3, ObserveMeets DEF Current, Verifying, Redeeming
  <2>5. ASSUME NEW s \in Requests \ {r} PROVE Current(request[s])'
    <3>1. Current(request[s]) /\ Honest(request[s])
      BY DEF CodeInv, PhoneInv
    <3>2. request[s].phone \notin disturbed' /\ request[s].phone = p
              => request[s].pc \notin Verifying \cup Redeeming
      BY <1>0, Alone, ObserveMeets DEF Redeeming
    <3>3. request[s].pc \in Verifying /\ request[s].phone # p => request[s].requestId # c
      BY <1>1, <3>1 DEF Honest
    <3>4. request[s].pc = "createEntity" /\ request[s].phone # p
              => request[s].session.requestId # c
      BY <1>1, <3>1 DEF Honest, Addressed, TypeOK, Shaped, Redeeming
    <3> QED
      BY <1>0, <1>2, <2>1, <3>1, <3>2, <3>3, <3>4, ObserveMeets
         DEF Current, Verifying, Redeeming
  <2>6. ASSUME NEW x \in Phones \ disturbed' PROVE Good(x)'
    <3>1. Good(x)
      BY ObserveMeets DEF CodeInv
    <3>2. Leaving(p)'
      BY <2>2 DEF Leaving
    <3>3. Leaving(x) => Leaving(x)'
      BY <1>0, <1>2 DEF Leaving
    <3>4. x # p /\ session[x] # None => session[x].requestId # c
      BY <1>1 DEF PhoneInv, Addressed
    <3> QED
      BY <1>0, <2>1, <3>1, <3>2, <3>3, <3>4 DEF Good
  <2>7. sent[c] \in disturbed' \/ c \in accepted
    BY <1>0, <1>1, <2>3, ObserveMeets DEF Current, Redeeming
  <2>8. \A q \in registered' : sent'[q] \in disturbed' \/ q \in accepted'
    BY <1>0, <2>1, <2>7, ObserveMeets DEF CodeInv
  <2> QED
    BY <2>4, <2>5, <2>6, <2>8, ObserveMeets DEF CodeInv
<1> QED
  BY <1>3, <1>4

LEMMA DeleteSessionCode ==
    ASSUME TypeOK, CodeInv, Observe, NEW r \in Requests, DeleteSession(r)
    PROVE  CodeInv'
<1> DEFINE p == request[r].phone
<1>0. /\ request[r].pc = "deleteSession"
      /\ p \in Phones
      /\ request' = [request EXCEPT ![r] = Idle]
      /\ session' = [session EXCEPT ![p] = None]
      /\ UNCHANGED <<sent, accepted, registered>>
  BY DEF DeleteSession, Store, TypeOK, RequestRow, Shaped
<1>1. request'[r] = Idle /\ \A s \in Requests \ {r} : request'[s] = request[s]
  BY <1>0 DEF TypeOK
<1>2. \A x \in Phones : session'[x] = IF x = p THEN None ELSE session[x]
  BY <1>0 DEF TypeOK
<1>3. Current(request[r])'
  BY <1>1 DEF Current, Idle, Verifying, Redeeming
<1>4. ASSUME NEW s \in Requests \ {r} PROVE Current(request[s])'
  <2>1. /\ Current(request[s])
        /\ request[s].pc \in Verifying => request[s].phone \in Phones
    BY DEF CodeInv, TypeOK, RequestRow, Shaped, Verifying
  <2> QED
    BY <1>0, <1>1, <1>2, <2>1, ObserveMeets DEF Current, Verifying
<1>5. ASSUME NEW x \in Phones \ disturbed' PROVE Good(x)'
  <2>1. Good(x)
    BY ObserveMeets DEF CodeInv
  <2>2. x # p => (Leaving(x) => Leaving(x)')
    BY <1>0, <1>1 DEF Leaving
  <2> QED
    BY <1>0, <1>2, <2>1, <2>2 DEF Good
<1> QED
  BY <1>0, <1>3, <1>4, <1>5, ObserveMeets DEF CodeInv

\* A handler that fails before it deletes the session disturbs the phone.
LEMMA FailCode ==
    ASSUME TypeOK, PhoneInv, CodeInv, Observe, NEW r \in Requests, Fail(r)
    PROVE  CodeInv'
<1>1. /\ request'[r] = Idle
      /\ \A s \in Requests \ {r} : request'[s] = request[s]
      /\ UNCHANGED <<session, sent, accepted, registered>>
      /\ Step(r)
  BY DEF Fail, Goto, TypeOK, Step
<1>2. Current(request[r])'
  BY <1>1 DEF Current, Idle, Verifying, Redeeming
<1>3. \A s \in Requests : Current(request[s])'
  BY <1>1, <1>2, OthersCurrent, ObserveMeets
<1>4. ASSUME NEW x \in Phones \ disturbed' PROVE Good(x)'
  <2>1. Good(x) /\ ~Abandoned(r, x)
    BY ObserveMeets DEF CodeInv
  <2>2. session[x] # None => (Leaving(x) => Leaving(x)')
    BY <1>1, <2>1 DEF Leaving, Abandoned
  <2> QED
    BY <1>1, <2>1, <2>2 DEF Good
<1> QED
  BY <1>1, <1>3, <1>4, ObserveMeets DEF CodeInv

LEMMA EnvironmentCode ==
    ASSUME TypeOK, CodeInv, Environment, Observe
    PROVE  CodeInv'
<1>1. UNCHANGED <<sent, accepted, registered, request>>
  BY DEF Environment, Expire, Store, WriteUser
<1>2. \A p \in Phones : session'[p] \in {None, session[p]}
  BY DEF Environment, Expire, Store, WriteUser, TypeOK
<1>3. ASSUME NEW s \in Requests PROVE Current(request[s])'
  <2>1. /\ Current(request[s])
        /\ request[s].pc \in Verifying => request[s].phone \in Phones
    BY DEF CodeInv, TypeOK, RequestRow, Shaped, Verifying
  <2> QED
    BY <1>1, <1>2, <2>1, ObserveMeets DEF Current, Verifying
<1>4. ASSUME NEW x \in Phones \ disturbed' PROVE Good(x)'
  <2>1. Good(x)
    BY ObserveMeets DEF CodeInv
  <2> QED
    BY <1>1, <1>2, <2>1 DEF Good, Leaving
<1> QED
  BY <1>1, <1>3, <1>4, ObserveMeets DEF CodeInv

LEMMA CodeNext ==
    TypeOK /\ PhoneInv /\ FreshInv /\ CodeInv /\ [Next]_vars => CodeInv'
<1> SUFFICES ASSUME TypeOK, PhoneInv, FreshInv, CodeInv, [Next]_vars PROVE CodeInv'
  OBVIOUS
<1>1. ASSUME NEW r \in Requests, Step(r), Observe PROVE CodeInv'
  BY <1>1, VerifyCode, CreateSessionCode, GetSessionCode, WriteVerifiedCode,
     GetVerifiedSessionCode, CreateEntityCode, DeleteSessionCode, FailCode DEF Step
<1>2. CASE UNCHANGED vars
  BY <1>2 DEF vars, CodeInv, Current, Good, Leaving, Meet
<1> QED
  BY <1>1, <1>2, CallCode, EnvironmentCode DEF Next

LEMMA CodeInit == Init => FreshInv /\ CodeInv
  BY DEF Init, FreshInv, CodeInv, Current, Good, Meet, Idle, Verifying, Redeeming

LEMMA CodeAlways == Spec => [](TypeOK /\ PhoneInv /\ FreshInv /\ CodeInv)
  BY TypeInit, TypeNext, PhoneInit, PhoneNext, FreshNext, CodeInit, CodeNext, PTL DEF Spec

\* On a phone where no two requests were in each other's way, the session that
\* is verified or registered is the one whose code the provider confirmed.
THEOREM TheCodeIsProven == Spec => []CodeProven
<1>1. CodeInv => CodeProven
  BY DEF CodeInv, CodeProven, Good
<1> QED
  BY <1>1, CodeAlways, PTL

\* On such a phone a confirmed code makes one account.
THEOREM CodesAreSpent == Spec => OneAccountPerCode
<1>1. TypeOK /\ CodeInv /\ [Next]_vars =>
          [\A r \in Requests :
              request[r].pc = "createEntity" /\ request'[r] # request[r] /\ user' # user
                  => \/ request[r].phone \in disturbed
                     \/ request[r].session.requestId \notin registered]_vars
  BY DEF CodeInv, Current
<1> QED
  BY <1>1, CodeAlways, PTL DEF Spec, OneAccountPerCode

=============================================================================
