---------------------------- MODULE Registration ----------------------------
(***************************************************************************)
(* Registration of a user by phone: UserAuthService asks the SMS provider  *)
(* to send a code, checks the code with it and creates the account, one    *)
(* request each.  What they share is a session in the cache, one per       *)
(* phone, which is read in one await and written in another.               *)
(*                                                                         *)
(* The session's fullName is identified with the request id it came with.  *)
(* Left out: the password itself, the login that follows (module           *)
(* Sessions) and the code's own expiry: the provider may refuse any code   *)
(* at any time.                                                            *)
(***************************************************************************)
CONSTANTS
    Phones,
    RequestIds,   \* ids the provider gives to the codes it sends
    Requests,     \* concurrent handlers
    None          \* undefined

ASSUME NoneIsNothing ==
    /\ None \notin Phones \cup RequestIds
    /\ None \notin [requestId : RequestIds, otpVerified : BOOLEAN]

VARIABLES
    user,       \* user[p]: how the active users row of phone p logs in, if any
    session,    \* session[p]: the cached registration session of phone p
    sent,       \* sent[q]: the phone the provider sent code q to
    accepted,   \* the codes the provider has confirmed
    request,    \* request[r]: what handler r holds across its awaits
    \* History variables: no action of the code reads them.
    registered, \* the request ids whose session has become an account
    disturbed   \* phones on which two handlers were in each other's way, or
                \* one stopped between the account and the session's removal

vars == <<user, session, sent, accepted, request, registered, disturbed>>

-----------------------------------------------------------------------------
Session == [requestId : RequestIds, otpVerified : BOOLEAN]

Verifying == {"verifyOtp", "markVerified", "writeVerified"}
Redeeming == {"createEntity", "deleteSession"}
Pcs == {"idle", "sendOtp", "createSession", "getSession", "getVerified"}
           \cup Verifying \cup Redeeming

Idle == [pc |-> "idle", phone |-> None, requestId |-> None, session |-> None]

RequestRow == [pc : Pcs, phone : Phones \cup {None},
               requestId : RequestIds \cup {None}, session : {None} \cup Session]

\* What a handler is sure to hold at each of its awaits.
Shaped(q) ==
    /\ q.pc # "idle" => q.phone # None
    /\ q.pc \in {"createSession", "getSession"} \cup Verifying => q.requestId # None
    /\ IF q.pc \in {"writeVerified"} \cup Redeeming THEN q.session # None
                                                    ELSE q.session = None

TypeOK ==
    /\ user \in [Phones -> {"none", "sms", "oauth"}]
    /\ session \in [Phones -> {None} \cup Session]
    /\ sent \in [RequestIds -> Phones \cup {None}]
    /\ accepted \in SUBSET RequestIds
    /\ request \in [Requests -> RequestRow]
    /\ \A r \in Requests : Shaped(request[r])
    /\ registered \in SUBSET RequestIds
    /\ disturbed \in SUBSET Phones

\* A cache without sessions, and users that exist already.
Init ==
    /\ user \in [Phones -> {"none", "sms", "oauth"}]
    /\ session = [p \in Phones |-> None]
    /\ sent = [q \in RequestIds |-> None]
    /\ accepted = {}
    /\ request = [r \in Requests |-> Idle]
    /\ registered = {}
    /\ disturbed = {}

Begin(r, q) ==
    /\ request[r].pc = "idle"
    /\ request' = [request EXCEPT ![r] = q]
    /\ UNCHANGED <<user, session, sent, accepted, registered>>

Goto(r, q) ==
    /\ request' = [request EXCEPT ![r] = q]
    /\ UNCHANGED <<user, session, sent, accepted, registered>>

Store(p, s) ==
    /\ session' = [session EXCEPT ![p] = s]
    /\ UNCHANGED <<user, sent, accepted, registered>>

\* findOne selects no password, so the row of a password user counts as free.
IsPhoneRegistered(p) == user[p] = "oauth"

-----------------------------------------------------------------------------
(* Asking for a code. *)

RegisterOtpRequest(r, p) ==
    /\ ~IsPhoneRegistered(p)
    /\ Begin(r, [Idle EXCEPT !.pc = "sendOtp", !.phone = p])

SendOtp(r) ==
    /\ request[r].pc = "sendOtp"
    /\ \E q \in RequestIds :
         /\ sent[q] = None
         /\ sent' = [sent EXCEPT ![q] = request[r].phone]
         /\ request' = [request EXCEPT ![r] =
                [request[r] EXCEPT !.pc = "createSession", !.requestId = q]]
    /\ UNCHANGED <<user, session, accepted, registered>>

\* Mutant: the new session keeps what the old one had proved.
CreateSessionOver(r) ==
    LET p == request[r].phone
    IN  /\ request[r].pc = "createSession"
        /\ request' = [request EXCEPT ![r] = Idle]
        /\ Store(p, [requestId |-> request[r].requestId,
                     otpVerified |-> session[p] # None /\ session[p].otpVerified])

\* Over whatever session the phone had.
CreateSession(r) ==
    /\ request[r].pc = "createSession"
    /\ request' = [request EXCEPT ![r] = Idle]
    /\ Store(request[r].phone,
             [requestId |-> request[r].requestId, otpVerified |-> FALSE])

-----------------------------------------------------------------------------
(* Verifying it. *)

RegisterOtpVerify(r, p, q) ==
    /\ ~IsPhoneRegistered(p)
    /\ sent[q] # None
    /\ Begin(r, [Idle EXCEPT !.pc = "getSession", !.phone = p, !.requestId = q])

\* Mutant: any request id will do.
GetAnySession(r) ==
    LET s == session[request[r].phone]
    IN  /\ request[r].pc = "getSession"
        /\ Goto(r, IF s # None /\ ~s.otpVerified
                   THEN [request[r] EXCEPT !.pc = "verifyOtp"] ELSE Idle)

\* The session must name the request id, and not be verified yet.
GetSession(r) ==
    /\ request[r].pc = "getSession"
    /\ Goto(r, IF session[request[r].phone] =
                     [requestId |-> request[r].requestId, otpVerified |-> FALSE]
               THEN [request[r] EXCEPT !.pc = "verifyOtp"] ELSE Idle)

\* The provider accepts the code; a refusal is a failed await.
VerifyOtp(r) ==
    /\ request[r].pc = "verifyOtp"
    /\ accepted' = accepted \cup {request[r].requestId}
    /\ request' = [request EXCEPT ![r] = [request[r] EXCEPT !.pc = "markVerified"]]
    /\ UNCHANGED <<user, session, sent, registered>>

\* Mutant: a missing session is not an error.
MarkVerifiedOrNull(r) ==
    /\ request[r].pc = "markVerified"
    /\ Goto(r, [request[r] EXCEPT !.pc = "writeVerified",
                                  !.session = session[request[r].phone]])

\* Reads the session a second time ...
MarkVerified(r) ==
    LET s == session[request[r].phone]
    IN  /\ request[r].pc = "markVerified"
        /\ Goto(r, IF s = None THEN Idle
                   ELSE [request[r] EXCEPT !.pc = "writeVerified", !.session = s])

\* ... and writes it back.
WriteVerified(r) ==
    /\ request[r].pc = "writeVerified"
    /\ request' = [request EXCEPT ![r] = Idle]
    /\ Store(request[r].phone, [request[r].session EXCEPT !.otpVerified = TRUE])

-----------------------------------------------------------------------------
(* Setting a password, which creates the account. *)

RegisterPasswordSetup(r, p) ==
    /\ ~IsPhoneRegistered(p)
    /\ Begin(r, [Idle EXCEPT !.pc = "getVerified", !.phone = p])

GetVerifiedSession(r) ==
    LET s == session[request[r].phone]
    IN  /\ request[r].pc = "getVerified"
        /\ Goto(r, IF s # None /\ s.otpVerified
                   THEN [request[r] EXCEPT !.pc = "createEntity", !.session = s]
                   ELSE Idle)

\* Inserts the row of p, unless the unique index has one.
Insert(r, next) ==
    LET p == request[r].phone
    IN  /\ request[r].pc = "createEntity"
        /\ IF user[p] = "none"
           THEN /\ user' = [user EXCEPT ![p] = "sms"]
                /\ registered' = registered \cup {request[r].session.requestId}
                /\ request' = [request EXCEPT ![r] = next]
           ELSE /\ request' = [request EXCEPT ![r] = Idle]
                /\ UNCHANGED <<user, registered>>
        /\ UNCHANGED <<session, sent, accepted>>

\* Mutant: the session is left to its time to live.
CreateEntityOnly(r) == Insert(r, Idle)

CreateEntity(r) == Insert(r, [request[r] EXCEPT !.pc = "deleteSession"])

DeleteSession(r) ==
    /\ request[r].pc = "deleteSession"
    /\ request' = [request EXCEPT ![r] = Idle]
    /\ Store(request[r].phone, None)

-----------------------------------------------------------------------------
(* Around it. *)

\* The provider, the cache or the database fails or says no.
Fail(r) ==
    /\ request[r].pc # "idle"
    /\ Goto(r, Idle)

\* The session's time to live is over.
Expire(p) ==
    /\ session[p] # None
    /\ Store(p, None)
    /\ UNCHANGED request

\* The users table as the rest of the application writes it (Identities).
Users == INSTANCE PhoneBook

WriteUser ==
    /\ Users!Write
    /\ UNCHANGED <<session, sent, accepted, request, registered>>

-----------------------------------------------------------------------------
Call(r) ==
    \E p \in Phones :
        \/ RegisterOtpRequest(r, p)
        \/ \E q \in RequestIds : RegisterOtpVerify(r, p, q)
        \/ RegisterPasswordSetup(r, p)

Step(r) ==
    \/ SendOtp(r)
    \/ CreateSession(r)
    \/ GetSession(r)
    \/ VerifyOtp(r)
    \/ MarkVerified(r)
    \/ WriteVerified(r)
    \/ GetVerifiedSession(r)
    \/ CreateEntity(r)
    \/ DeleteSession(r)
    \/ Fail(r)

Environment ==
    \/ \E p \in Phones : Expire(p)
    \/ WriteUser

\* History.  A verification is disturbed by another handler that verifies,
\* redeems or replaces the session meanwhile, and a redemption by one that
\* verifies or redeems it.
Meet(q1, q2, p) ==
    /\ q1.phone = p
    /\ q2.phone = p
    /\ \/ q1.pc \in Verifying \cup Redeeming /\ q2.pc \in Verifying \cup Redeeming
       \/ q1.pc \in Verifying /\ q2.pc = "createSession"

Abandoned(r, p) ==
    /\ request[r].pc = "deleteSession"
    /\ request[r].phone = p
    /\ Fail(r)
    /\ session[p] # None

Observe ==
    disturbed' = disturbed \cup
        {p \in Phones :
            \/ \E r1, r2 \in Requests : r1 # r2 /\ Meet(request'[r1], request'[r2], p)
            \/ \E r \in Requests : Abandoned(r, p)}

Next ==
    /\ (\E r \in Requests : Call(r) \/ Step(r)) \/ Environment
    /\ Observe

Spec == Init /\ [][Next]_vars

-----------------------------------------------------------------------------
(* Properties. *)

\* The provider confirmed a code that it had sent to p.
Proven(p) == \E q \in accepted : sent[q] = p

\* A phone is registered, or may be, only after a code sent to that phone was
\* confirmed (userRegisterOTPVerify, requireOtpVerified), however requests,
\* expiry and replaced sessions interleave.
PhoneProven ==
    /\ \A p \in Phones : session[p] # None /\ session[p].otpVerified => Proven(p)
    /\ \A q \in registered : Proven(sent[q])

\* On an undisturbed phone it is the very code of the session that was
\* confirmed, so the account gets the name that was sent with it.
CodeProven ==
    /\ \A p \in Phones \ disturbed :
         session[p] # None /\ session[p].otpVerified => session[p].requestId \in accepted
    /\ \A q \in registered : sent[q] \in disturbed \/ q \in accepted

\* On an undisturbed phone a confirmed code makes one account, even if that
\* account is removed while the session could still live
\* (userRegisterPasswordSetup deletes it).
OneAccountPerCode ==
    [][\A r \in Requests :
        request[r].pc = "createEntity" /\ request'[r] # request[r] /\ user' # user
            => \/ request[r].phone \in disturbed
               \/ request[r].session.requestId \notin registered]_vars

\* src/CONTEXT.md:32: a registered user exists for the registration guards.
RegisteredRefused ==
    [][\A r \in Requests :
        request[r].pc = "idle" /\ request'[r].pc # "idle"
            => user[request'[r].phone] = "none"]_vars

=============================================================================
