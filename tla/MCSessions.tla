----------------------------- MODULE MCSessions -----------------------------
(***************************************************************************)
(* A small instance of Sessions and TokenTexts for TLC.  A behaviour       *)
(* chooses when it starts: it takes every step of Sessions, without the    *)
(* texts and with one token, or those of all handlers but the updates with *)
(* the texts of two tokens.                                                *)
(***************************************************************************)
EXTENDS TokenTexts, TLC

VARIABLE part

\* Handlers, tokens and password hashes are interchangeable.
Symmetry == Permutations(Requests) \cup Permutations(Tokens)
                \cup Permutations(Passwords)

\* Users and admins share no row: one account is alive, of either kind.
MCInit ==
    /\ TextInit
    /\ \A s, x \in Subjects : account[s]["password"] = account[x]["password"]
    /\ \E s \in Subjects : \A x \in Subjects : Exists(x) <=> x = s
    /\ part \in {"rows", "texts"}

\* Bound: a DTO decides on one column, never on two.
OneDecision ==
    \A r \in Requests : request[r].dto["isBanned"] = None
                           \/ request[r].dto["password"] = None

\* Bounds: one token beside the updates; no update, and two seconds, beside two.
OneToken ==
    part = "rows" => Cardinality({t \in Tokens : refreshToken[t].state # "unused"}) <= 1
TwoSeconds == now <= 1
NoUpdate ==
    part = "texts" => \A r \in Requests : request[r].op \notin {"update", "appUpdate"}

MCNext ==
    /\ \/ part = "rows" /\ Next /\ UNCHANGED <<now, tokenText, carried, loggedOut>>
       \/ part = "texts" /\ TextNext
    /\ UNCHANGED part

MCSpec == MCInit /\ [][MCNext]_<<textVars, part>>

=============================================================================
