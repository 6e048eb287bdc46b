---------------------------- MODULE MCIdentities ----------------------------
(***************************************************************************)
(* Instance of Identities for TLC: one person with a phone, an e-mail and  *)
(* an identity at each provider, and another one who shares the e-mail.    *)
(***************************************************************************)
EXTENDS Identities, TLC

CONSTANTS mail, phone1, phone2, google1, google2, apple

Payload(m, p, g, a) == [email |-> m, phone |-> p, googleId |-> g, appleId |-> a]

\* Apple gives name and e-mail at the first login only.
MCPayloads == {Payload(mail, phone1, google1, Null), Payload(mail, phone2, google2, Null),
               Payload(mail, phone1, Null, apple), Payload(Null, Null, Null, apple)}
MCNewUsers == {Payload(mail, phone2, Null, Null)}
MCChanges  == {Payload(mail, phone1, Null, Null)}

=============================================================================
