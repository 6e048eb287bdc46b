----------------------------- MODULE TokenTexts -----------------------------
(***************************************************************************)
(* Sessions with the texts of refresh tokens.                              *)
(*                                                                         *)
(* A text is a JWT of the account and the second it was signed in, and     *)
(* refresh_tokens is searched for its hash, which is not unique: what two  *)
(* logins of an account sign within a second is one text in two rows, and  *)
(* revokeToken revokes whichever of them it finds (Logout of Sessions).    *)
(***************************************************************************)
EXTENDS Sessions

VARIABLES
    now,        \* the clock, in seconds
    tokenText,  \* tokenText[t]: the text row t holds the hash of
    carried,    \* carried[r]: the text login r has signed, or the one of the
                \* caller that logout r was sent
    loggedOut   \* history: texts their owner logged out with and was not given again

textVars == <<vars, now, tokenText, carried, loggedOut>>

Text == [sub : Subjects, iat : Nat]

ASSUME NoneIsNoText == None \notin Text

TextInit ==
    /\ Init
    /\ now = 0
    /\ tokenText = [t \in Tokens |-> None]
    /\ carried = [r \in Requests |-> None]
    /\ loggedOut = {}

-----------------------------------------------------------------------------
\* jwtService.sign({ sub }), before the row is saved.
Signs(r)  == request[r].pc # "issue" /\ request'[r].pc = "issue"
Signed(r) == [sub |-> request[r].subject, iat |-> now]

\* The text of the body; somebody else's, or one no row has, is of no interest.
Presents(r) == request[r].op # "logout" /\ request'[r].op = "logout"
Presented(r) ==
    LET t == request'[r].token
    IN  IF t # None /\ tokenText[t].sub = request'[r].subject
        THEN tokenText[t] ELSE None

Carry(r) ==
    carried' = [carried EXCEPT ![r] =
        IF Signs(r) THEN Signed(r)
        ELSE IF Presents(r) THEN Presented(r)
        ELSE IF request'[r].pc = "idle" THEN None ELSE @]

Issued == {t \in Tokens : refreshToken[t].state = "unused" /\ Stored(t)'}

StoreText(r) ==
    tokenText' = [t \in Tokens |-> IF t \in Issued THEN carried[r] ELSE tokenText[t]]

\* The logout answers; it does not when the row was gone under its save.
LogsOut(r) ==
    /\ request[r].op = "logout"
    /\ request'[r] = Idle
    /\ request[r].pc = "saveToken" => Stored(request[r].token)

Observe(r) ==
    loggedOut' = (loggedOut \ {carried[r] : t \in Issued})
                     \cup (IF LogsOut(r) THEN {carried[r]} \ {None} ELSE {})

Tick == now' = now + 1 /\ UNCHANGED <<vars, tokenText, carried, loggedOut>>

TextNext ==
    \/ \E r \in Requests : /\ Call(r) \/ Step(r)
                           /\ Carry(r) /\ StoreText(r) /\ Observe(r)
                           /\ UNCHANGED now
    \/ /\ \/ \E t \in Tokens : GrowOld(t) /\ tokenText[t].iat < now
          \/ CleanupExpiredRefreshTokens
       /\ UNCHANGED <<now, tokenText, carried, loggedOut>>
    \/ Tick

TextSpec == TextInit /\ [][TextNext]_textVars

-----------------------------------------------------------------------------
\* Whoever logs out with his own refresh token is not refreshed with it again, in
\* whichever row its hash is, unless a login of the same second gives it out
\* once more.  logout revokes the row it finds and then all of the user's; it
\* revokes none of an admin's, so that an admin's second row may live on, and none
\* that a deletion of the account took from the user.
LoggedOutIsDead ==
    \A t \in Tokens : Refreshable(t) /\ tokenText[t] \in loggedOut =>
        /\ refreshToken[t].owner \in Admins \cup removed
        /\ \E twin \in Tokens \ {t} : tokenText[twin] = tokenText[t]

=============================================================================
