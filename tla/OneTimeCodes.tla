---------------------------- MODULE OneTimeCodes ----------------------------
(***************************************************************************)
(* What OtpService promises of the codes it sends.  A code is guessed in   *)
(* time, as the newest open code of its owner and at most Limit times; it  *)
(* closes once, with a guess that was right or with none left or too late, *)
(* and then for good; only a code that was refused leaves the table, late. *)
(* A code of which two verifications overlapped is promised nothing any    *)
(* more, except that it was sent once and belongs to whom it was sent to.  *)
(***************************************************************************)
EXTENDS Naturals

CONSTANTS Codes,   \* numbered in the order in which they are sent
          Owners, Limit, None

VARIABLES
    code,        \* code[c]: how far code c got
    owner,       \* owner[c]: whom it was sent to
    tries,       \* tries[c]: the guesses compared with it
    late,        \* the codes whose time is over
    overlapped   \* the codes nothing is promised of

vars == <<code, owner, tries, late, overlapped>>

Init ==
    /\ code = [c \in Codes |-> "unsent"]
    /\ owner = [c \in Codes |-> None]
    /\ tries = [c \in Codes |-> 0]
    /\ late = {}
    /\ overlapped = {}

Send(c) ==
    /\ code[c] = "unsent"
    /\ \A x \in Codes : x < c => code[x] # "unsent"
    /\ code' = [code EXCEPT ![c] = "open"]
    /\ \E s \in Owners : owner' = [owner EXCEPT ![c] = s]
    /\ UNCHANGED <<tries, late, overlapped>>

Newest(c) == \A x \in Codes : code[x] = "open" /\ owner[x] = owner[c] => x <= c

Guess(c) ==
    /\ c \notin overlapped \cup late
    /\ code[c] = "open" /\ Newest(c)
    /\ tries[c] < Limit
    /\ tries' = [tries EXCEPT ![c] = @ + 1]
    /\ UNCHANGED <<code, owner, late, overlapped>>

Close(c, how) ==
    /\ c \notin overlapped
    /\ code[c] = "open"
    /\ code' = [code EXCEPT ![c] = how]
    /\ UNCHANGED <<owner, tries, late, overlapped>>

\* The answer may come when the time of the code is over.
Accept(c) == tries[c] > 0 /\ Close(c, "verified")

Refuse(c) == (c \in late \/ tries[c] = Limit) /\ Close(c, "refused")

Expire(c) ==
    /\ code[c] # "unsent"
    /\ late' = late \cup {c}
    /\ UNCHANGED <<code, owner, tries, overlapped>>

Purge(S) ==
    /\ S \subseteq late /\ \A c \in S : code[c] = "refused"
    /\ code' = [c \in Codes |-> IF c \in S THEN "purged" ELSE code[c]]
    /\ UNCHANGED <<owner, tries, late, overlapped>>

\* A second verification takes up a code of which the first is not over.
Overlap(c) ==
    /\ code[c] = "open"
    /\ overlapped' = overlapped \cup {c}
    /\ tries' = [tries EXCEPT ![c] = 0]
    /\ UNCHANGED <<code, owner, late>>

\* It then closes, opens and comes back as the last save says.
Drift(c) ==
    /\ c \in overlapped
    /\ \E how \in {"open", "verified", "refused"} : code' = [code EXCEPT ![c] = how]
    /\ UNCHANGED <<owner, tries, late, overlapped>>

Next ==
    \/ \E c \in Codes : \/ Send(c) \/ Guess(c) \/ Accept(c) \/ Refuse(c)
                        \/ Expire(c) \/ Overlap(c) \/ Drift(c)
    \/ \E S \in SUBSET Codes : Purge(S)

Spec == Init /\ [][Next]_vars

=============================================================================
