--------------------------- MODULE SessionsProofs ---------------------------
(***************************************************************************)
(* What holds of Sessions for every set of accounts, tokens, handlers and  *)
(* passwords: type correctness, whose tokens the rows are, that neither a  *)
(* revoked session nor a settled account decision is undone, and that a    *)
(* session ends by its own account only.  Of TokenTexts: that it allows    *)
(* what Sessions does, and that a text is dead once its owner logged out.  *)
(***************************************************************************)
EXTENDS TokenTexts, TLAPS

RequestRecord == [op : Ops, pc : Pcs, subject : Subjects \cup {None},
                  row : [Columns -> Value] \cup {None},
                  dto : [Columns -> Value],
                  token : Tokens \cup {None},
                  owner : Subjects \cup {None},
                  joined : BOOLEAN,
                  collection : SUBSET Tokens,
                  ended : SUBSET Tokens]

USE DEF history

\* The entities and the DTOs that handlers hold; no find returns a soft-deleted
\* row.
Entity == {row \in [Columns -> Value] :
             /\ row["deleted"] = FALSE
             /\ row["isBanned"] \in BOOLEAN
             /\ row["password"] \in Passwords \cup {None}}

DtoValue == {dto \in [Columns -> Value] :
               /\ dto["deleted"] = None
               /\ dto["isBanned"] \in BOOLEAN \cup {None}
               /\ dto["password"] \in Passwords \cup {None}}

\* A handler holds what its next step uses, and an entity only until it is
\* saved; the entity already carries the DTO.
WellFormed(q) ==
    /\ q \in RequestRecord
    /\ q.pc \notin {"idle", "saveToken"} => q.subject \in Subjects
    /\ q.pc = "saveToken" => q.token \in Tokens
    /\ q.op = "logout" => q.subject \in Subjects
    /\ q.pc = "save" => q.row \in Entity
    /\ q.row # None => q.pc = "save"
    /\ q.dto \in DtoValue
    /\ q.pc = "save" => \A c \in Columns : q.dto[c] # None => q.row[c] = q.dto[c]

TokenRecord == [state : {"unused", "stored", "purged"},
                owner : Subjects \cup {None},
                isRevoked : BOOLEAN,
                age : {"fresh", "week", "expired"}]

\* The table of refresh tokens is well typed.
TokensOK == refreshToken \in [Tokens -> TokenRecord]

\* The accounts, the settled decisions and the sets of tokens are well typed.
AccountsOK ==
    /\ account \in [Subjects -> [Columns -> Value]]
    /\ \A s \in Subjects : /\ account[s]["deleted"] \in BOOLEAN
                           /\ account[s]["isBanned"] \in BOOLEAN
                           /\ account[s]["password"] \in Passwords
    /\ settled \in [Subjects -> [Columns -> Value]]

RequestsOK ==
    /\ request \in [Requests -> RequestRecord]
    /\ \A q \in Requests : WellFormed(request[q])

SetsOK ==
    /\ ended \in SUBSET Tokens
    /\ predecessors \in [Tokens -> SUBSET Tokens]
    /\ issuedTo \in [Tokens -> Subjects \cup {None}]
    /\ removed \in SUBSET Subjects

\* The inductive invariant of type correctness.
TypeInv == TokensOK /\ AccountsOK /\ RequestsOK /\ SetsOK

LEMMA TypeInvTypes == TypeInv => TypeOK
  BY DEF TypeInv, TypeOK, TokensOK, AccountsOK, RequestsOK, SetsOK, TokenRecord,
         RequestRecord, WellFormed

\* A handler that has just read: its entity is the row of this moment under
\* the DTO.
Fresh(q) ==
    q.row # None => \A c \in Columns :
        q.row[c] # None /\ q.dto[c] = None => q.row[c] = account[q.subject][c]

Opened(r, q) ==
    /\ WellFormed(q)
    /\ Fresh(q)
    /\ q.ended = {}
    /\ request' = [request EXCEPT ![r] = q]
    /\ UNCHANGED <<account, refreshToken, history>>

-----------------------------------------------------------------------------
(* Reads. *)

LEMMA NoneIsNotStored ==
    /\ None \notin BOOLEAN
    /\ None \notin Passwords
    /\ None \notin Subjects
    /\ None \notin Tokens
  BY NoneIsNoValue

\* What a find returns of a typed row, with or without the password.
LEMMA LoadedIsEntity ==
    ASSUME TypeOK, NEW s \in Subjects, Exists(s), NEW cols \in {Default, Columns}
    PROVE  /\ Loaded(s, cols) \in Entity
           /\ \A c \in Columns : Loaded(s, cols)[c] # None
                => Loaded(s, cols)[c] = account[s][c]
  BY DEF TypeOK, Exists, Loaded, Entity, Columns, Default, Value

\* Overlaying a DTO on an entity gives an entity that carries the DTO.
LEMMA OverlayIsEntity ==
    ASSUME NEW row \in Entity, NEW dto \in DtoValue
    PROVE  /\ Overlay(row, dto) \in Entity
           /\ \A c \in Columns :
                Overlay(row, dto)[c] = IF dto[c] # None THEN dto[c] ELSE row[c]
  BY DEF Overlay, Entity, DtoValue, Columns, Value

LEMMA DtosAreDtoValues ==
    /\ Nothing \in DtoValue
    /\ Dto(BOOLEAN, Passwords) \subseteq DtoValue
    /\ \A h \in Passwords : NewPassword(h) \in DtoValue
<1>1. Nothing \in DtoValue
  BY DEF Nothing, DtoValue, Columns, Value
<1>2. ASSUME NEW dto \in Dto(BOOLEAN, Passwords) PROVE dto \in DtoValue
  BY <1>2 DEF Dto, DtoValue, Columns, Value
<1>3. ASSUME NEW h \in Passwords PROVE NewPassword(h) \in DtoValue
  BY DEF NewPassword, Nothing, DtoValue, Columns, Value
<1> QED
  BY <1>1, <1>2, <1>3

LEMMA IdleIsWellFormed == WellFormed(Idle)
  BY DtosAreDtoValues
     DEF Idle, WellFormed, RequestRecord, Ops, Pcs, DtoValue

\* A first step that holds no account entity.
LEMMA OpenWithoutRow ==
    ASSUME NEW r \in Requests, NEW q \in RequestRecord, Open(r, q),
           q.row = None, q.dto \in DtoValue, q.ended = {},
           q.pc \notin {"idle", "save"},
           q.pc # "saveToken" => q.subject \in Subjects,
           q.op = "logout" => q.subject \in Subjects,
           q.pc = "saveToken" => q.token \in Tokens
    PROVE  \E x : Opened(r, x)
<1>1. WellFormed(q) /\ Fresh(q)
  BY DEF WellFormed, Fresh
<1> QED
  BY <1>1 DEF Open, Opened

LEMMA BeginWithoutRow ==
    ASSUME NEW r \in Requests, NEW op \in Ops, NEW pc \in Pcs,
           NEW s \in Subjects, NEW dto \in DtoValue,
           Begin(r, op, pc, s, None, dto),
           pc \notin {"idle", "save", "saveToken"}
    PROVE  \E q : Opened(r, q)
<1> DEFINE q == [Idle EXCEPT !.op = op, !.pc = pc, !.subject = s, !.row = None,
                             !.dto = dto]
<1>1. q \in RequestRecord
  BY DEF RequestRecord, DtoValue, Idle
<1> QED
  BY <1>1, OpenWithoutRow DEF Begin, Idle

\* A first step that holds the row it read under its DTO.
LEMMA BeginWithRow ==
    ASSUME TypeOK, NEW r \in Requests, NEW op \in Ops, NEW s \in Subjects, Exists(s),
           NEW cols \in {Default, Columns}, NEW dto \in DtoValue,
           NEW row, row = Overlay(Loaded(s, cols), dto),
           op # "logout",
           Begin(r, op, "save", s, row, dto)
    PROVE  \E q : Opened(r, q)
<1> DEFINE q == [Idle EXCEPT !.op = op, !.pc = "save", !.subject = s, !.row = row,
                             !.dto = dto]
<1>1. /\ row \in Entity
      /\ \A c \in Columns : dto[c] # None => row[c] = dto[c]
      /\ \A c \in Columns : row[c] # None /\ dto[c] = None => row[c] = account[s][c]
  BY LoadedIsEntity, OverlayIsEntity
<1>2. q \in RequestRecord
  BY <1>1 DEF RequestRecord, DtoValue, Entity, Pcs, Idle
<1>3. WellFormed(q)
  BY <1>1, <1>2 DEF WellFormed, Idle
<1>4. Fresh(q) /\ q.ended = {}
  BY <1>1 DEF Fresh, Idle
<1> QED
  BY <1>3, <1>4 DEF Begin, Open, Opened

\* UserLogin holds its entity without a DTO.
LEMMA OverlayOfNothing ==
    ASSUME NEW row \in Entity
    PROVE  Overlay(row, Nothing) = row
  BY DEF Overlay, Nothing, Entity, Columns

\* Every handler opens with a well-formed record of what it has read.
LEMMA CallOpens ==
    ASSUME TypeOK, NEW r \in Requests, Call(r)
    PROVE  \E q : Opened(r, q)
<1> USE DtosAreDtoValues, SubjectsAreDistinct
<1>a. \A u \in Users : u \in Subjects
  BY DEF Subjects
<1>b. \A a \in Admins : a \in Subjects
  BY DEF Subjects
<1>1. ASSUME NEW u \in Users, UserLogin(r, u) PROVE \E q : Opened(r, q)
  <2>1. Overlay(Loaded(u, Columns), Nothing) = Loaded(u, Columns)
    BY <1>1, <1>a, LoadedIsEntity, OverlayOfNothing DEF UserLogin
  <2> QED
    BY <1>1, <1>a, <2>1, BeginWithRow DEF UserLogin, Ops
<1>2. ASSUME NEW u \in Users, HandleOAuthLogin(r, u) PROVE \E q : Opened(r, q)
  BY <1>2, <1>a, BeginWithoutRow DEF HandleOAuthLogin, Ops, Pcs
<1>3. ASSUME NEW u \in Users, AppUpdate(r, u) PROVE \E q : Opened(r, q)
  BY <1>3, <1>a, BeginWithoutRow DEF AppUpdate, Ops, Pcs
<1>4. ASSUME NEW u \in Users, DeleteProfile(r, u) PROVE \E q : Opened(r, q)
  <2> DEFINE q == [Idle EXCEPT !.op = "deleteProfile", !.pc = "revokeAll",
                               !.subject = u, !.collection = TokensOf(u)]
  <2>1. q \in RequestRecord
    BY <1>a, DtosAreDtoValues DEF RequestRecord, DtoValue, Idle, Ops, Pcs, TokensOf
  <2> QED
    BY <1>4, <1>a, <2>1, DtosAreDtoValues, OpenWithoutRow DEF DeleteProfile, Idle
<1>5. ASSUME NEW u \in Users, NEW h \in Passwords, UserResetPassword(r, u, h)
      PROVE  \E q : Opened(r, q)
  BY <1>5, <1>a, BeginWithRow DEF UserResetPassword, Ops
<1>6. ASSUME NEW a \in Admins, AdminLogin(r, a) PROVE \E q : Opened(r, q)
  BY <1>6, <1>b, BeginWithoutRow DEF AdminLogin, Ops, Pcs
<1>7. ASSUME NEW s \in Subjects, NEW h \in Passwords, ChangePassword(r, s, h)
      PROVE  \E q : Opened(r, q)
  BY <1>7, BeginWithRow DEF ChangePassword, Ops
<1>8. ASSUME NEW s \in Subjects, NEW h \in Passwords, ResetPassword(r, s, h)
      PROVE  \E q : Opened(r, q)
  BY <1>8, BeginWithRow DEF ResetPassword, Ops
<1>9. ASSUME NEW s \in Subjects, NEW dto \in Dto(BOOLEAN, Passwords),
             Update(r, s, dto)
      PROVE  \E q : Opened(r, q)
  BY <1>9, BeginWithoutRow DEF Update, Ops, Pcs
<1>10. ASSUME NEW s \in Subjects, NEW dto \in Dto(BOOLEAN, Passwords),
              UpdateProfile(r, s, dto)
       PROVE  \E q : Opened(r, q)
  BY <1>10, BeginWithoutRow DEF UpdateProfile, Ops, Pcs
<1>11. ASSUME NEW s \in Subjects, Remove(r, s) PROVE \E q : Opened(r, q)
  BY <1>11, BeginWithoutRow DEF Remove, Ops, Pcs
<1>12. ASSUME NEW s \in Subjects, NEW t \in Tokens, Logout(r, s, t)
       PROVE  \E q : Opened(r, q)
  <2> DEFINE q == [Idle EXCEPT !.op = "logout", !.pc = "saveToken", !.subject = s,
                      !.token = t, !.owner = refreshToken[t].owner, !.joined = TRUE]
  <2>1. CASE Stored(t) /\ Open(r, q)
    <3>1. q \in RequestRecord
      BY DtosAreDtoValues DEF RequestRecord, DtoValue, Idle, Ops, Pcs, TypeOK
    <3> QED
      BY <2>1, <3>1, DtosAreDtoValues, OpenWithoutRow DEF Idle
  <2>2. CASE Begin(r, "logout", "revokeAll", s, None, Nothing)
    BY <2>2, BeginWithoutRow DEF Ops, Pcs
  <2> QED
    BY <1>12, <2>1, <2>2 DEF Logout
<1>13. ASSUME NEW t \in Tokens, RefreshExpired(r, t) PROVE \E q : Opened(r, q)
  <2> DEFINE q == [Idle EXCEPT !.op = "refresh", !.pc = "saveToken", !.token = t,
                      !.owner = refreshToken[t].owner, !.joined = OwnerExists(t)]
  <2>1. OwnerExists(t) \in BOOLEAN
    BY DEF OwnerExists
  <2>2. q \in RequestRecord
    BY <2>1, DtosAreDtoValues DEF RequestRecord, DtoValue, Idle, Ops, Pcs, TypeOK
  <2> QED
    BY <1>13, <2>2, DtosAreDtoValues, OpenWithoutRow DEF RefreshExpired, Idle
<1> QED
  BY <1>1, <1>2, <1>3, <1>4, <1>5, <1>6, <1>7, <1>8, <1>9, <1>10, <1>11, <1>12,
     <1>13 DEF Call

-----------------------------------------------------------------------------
(* Type correctness. *)

\* Continue keeps requests well-formed when the next step needs no entity and
\* no token.
LEMMA ContinueIsWellFormed ==
    ASSUME TypeInv, NEW r \in Requests, NEW pc \in Pcs,
           pc \notin {"save", "saveToken"},
           pc # "idle" => request[r].subject \in Subjects,
           Continue(r, pc)
    PROVE  /\ request' \in [Requests -> RequestRecord]
           /\ \A q \in Requests : WellFormed(request'[q])
<1> DEFINE new == IF pc = "idle" THEN Idle
                  ELSE [request[r] EXCEPT !.pc = pc, !.row = None,
                                          !.dto = Nothing, !.token = None,
                                          !.owner = None, !.joined = FALSE]
<1>1. request' = [request EXCEPT ![r] = new]
  BY DEF Continue
<1>2. request \in [Requests -> RequestRecord] /\ WellFormed(request[r])
  BY DEF TypeInv, RequestsOK
<1>3. WellFormed(new)
  <2>1. CASE pc = "idle"
    BY <2>1, IdleIsWellFormed
  <2>2. CASE pc # "idle"
    BY <1>2, <2>2, DtosAreDtoValues DEF WellFormed, RequestRecord, DtoValue
  <2> QED
    BY <2>1, <2>2
<1> QED
  BY <1>1, <1>2, <1>3 DEF TypeInv, RequestsOK, WellFormed

LEMMA RowIsTokenRecord ==
    ASSUME NEW state \in {"unused", "stored", "purged"},
           NEW owner \in Subjects \cup {None}
    PROVE  Row(state, owner) \in TokenRecord
  BY DEF Row, TokenRecord

LEMMA TypeInit == Init => TypeInv
<1> SUFFICES ASSUME Init PROVE TypeInv
  OBVIOUS
<1>1. TokensOK
  BY RowIsTokenRecord DEF Init, TokensOK, Stored, Row
<1>2. AccountsOK
  <2>1. ASSUME NEW h \in Passwords, NEW d \in BOOLEAN
        PROVE  /\ SeededRow(h, d) \in [Columns -> Value]
               /\ SeededRow(h, d)["deleted"] \in BOOLEAN
               /\ SeededRow(h, d)["isBanned"] \in BOOLEAN
               /\ SeededRow(h, d)["password"] \in Passwords
    BY DEF SeededRow, Columns, Value
  <2>2. ASSUME NEW s \in Subjects
        PROVE  \E h \in Passwords, d \in BOOLEAN : account[s] = SeededRow(h, d)
    BY DEF Init
  <2>3. account \in [Subjects -> [Columns -> Value]] /\ settled = account
    BY <2>1 DEF Init
  <2> QED
    BY <2>1, <2>2, <2>3 DEF AccountsOK
<1>3. RequestsOK
  BY IdleIsWellFormed DEF Init, RequestsOK, WellFormed
<1>4. SetsOK
  BY DEF Init, SetsOK
<1> QED
  BY <1>1, <1>2, <1>3, <1>4 DEF TypeInv

\* Settling keeps the history variable typed.
LEMMA SettleIsTyped ==
    ASSUME TypeInv, NEW r \in Requests, NEW s \in Subjects,
           NEW decision \in [Columns -> Value],
           Settle(r, s, decision)
    PROVE  settled' \in [Subjects -> [Columns -> Value]]
  BY DEF TypeInv, AccountsOK, Settle, Value

LEMMA EndingIsRecord ==
    ASSUME NEW q \in RequestRecord, NEW pc \in Pcs, NEW left \in SUBSET Tokens
    PROVE  [q EXCEPT !.pc = pc, !.ended = left] \in RequestRecord
  BY DEF RequestRecord

\* RevokeAll leaves every token row typed and its handler well-formed.
LEMMA RevokeAllIsTyped ==
    ASSUME TypeInv, NEW r \in Requests, NEW toks \in SUBSET Tokens,
           request[r].pc = "revokeAll", RevokeAll(r, toks)
    PROVE  TypeInv'
<1>1. TokensOK'
  BY DEF TypeInv, TokensOK, RevokeAll, Stored, TokenRecord
<1>2. AccountsOK'
  BY DEF TypeInv, AccountsOK, RevokeAll
<1>3. RequestsOK'
  <2> DEFINE pc == AfterRevokeAll(request[r].op)
             left == IF pc = "issue" THEN TokensOf(request[r].subject) ELSE {}
             new == IF pc = "idle" THEN Idle
                    ELSE [request[r] EXCEPT !.pc = pc, !.ended = left]
  <2>1. request' = [request EXCEPT ![r] = new]
    BY DEF RevokeAll
  <2>2. request \in [Requests -> RequestRecord] /\ WellFormed(request[r])
    BY DEF TypeInv, RequestsOK
  <2>3. pc \in {"issue", "softDelete", "idle"} /\ left \in SUBSET Tokens
    BY DEF AfterRevokeAll, TokensOf
  <2>4. WellFormed(new)
    <3>1. CASE pc = "idle"
      BY <3>1, IdleIsWellFormed
    <3>2. CASE pc # "idle"
      <4>1. new = [request[r] EXCEPT !.pc = pc, !.ended = left]
        BY <3>2
      <4>2. new \in RequestRecord
        <5>1. request[r] \in RequestRecord /\ pc \in Pcs /\ left \in SUBSET Tokens
          BY <2>2, <2>3 DEF Pcs
        <5> HIDE DEF new, pc, left
        <5> QED
          BY <4>1, <5>1, EndingIsRecord
      <4> QED
        BY <4>1, <4>2, <2>2, <2>3 DEF WellFormed, RequestRecord
    <3> QED
      BY <3>1, <3>2
  <2> QED
    BY <2>1, <2>2, <2>4 DEF TypeInv, RequestsOK, WellFormed
<1>4. SetsOK'
  BY DEF TypeInv, SetsOK, RevokeAll
<1> QED
  BY <1>1, <1>2, <1>3, <1>4 DEF TypeInv

\* Every step keeps the types.
LEMMA TypeNext == TypeInv /\ [Next]_vars => TypeInv'
<1> SUFFICES ASSUME TypeInv, [Next]_vars PROVE TypeInv'
  OBVIOUS
<1>a. TokensOK /\ AccountsOK /\ RequestsOK /\ SetsOK
  BY DEF TypeInv
<1>b. ASSUME NEW r \in Requests
      PROVE  request[r] \in RequestRecord /\ WellFormed(request[r])
  BY <1>a DEF RequestsOK
<1>c. \A s \in Subjects : s # None
  BY NoneIsNotStored
<1>1. ASSUME NEW r \in Requests, Call(r) PROVE TypeInv'
  <2>1. PICK q : Opened(r, q)
    BY <1>1, CallOpens, TypeInvTypes
  <2>2. RequestsOK'
    BY <1>a, <2>1 DEF Opened, RequestsOK, WellFormed
  <2>3. TokensOK' /\ AccountsOK' /\ SetsOK'
    BY <1>a, <2>1 DEF Opened, TokensOK, Stored, AccountsOK, SetsOK
  <2> QED
    BY <2>2, <2>3 DEF TypeInv
<1>2. ASSUME NEW r \in Requests, Reread(r) PROVE TypeInv'
  <2> DEFINE pc == IF Exists(request[r].subject) THEN "revokeAll" ELSE "idle"
  <2>1. Continue(r, pc) /\ request[r].subject \in Subjects
    BY <1>2, <1>b DEF Reread, WellFormed
  <2>2. RequestsOK'
    BY <2>1, ContinueIsWellFormed DEF RequestsOK, Pcs
  <2>3. TokensOK' /\ AccountsOK' /\ SetsOK'
    BY <1>a, <1>2 DEF Reread, TokensOK, Stored, AccountsOK, SetsOK
  <2> QED
    BY <2>2, <2>3 DEF TypeInv
<1>3. ASSUME NEW r \in Requests, PreloadEntity(r) PROVE TypeInv'
  <2> DEFINE s == request[r].subject
  <2>1. s \in Subjects
    BY <1>3, <1>b DEF PreloadEntity, WellFormed
  <2>2. RequestsOK'
    <3>1. CASE Exists(s)
      <4> DEFINE row == Overlay(Loaded(s, Default), request[r].dto)
                 new == [request[r] EXCEPT !.pc = "save", !.row = row]
      <4>1. request' = [request EXCEPT ![r] = new]
        BY <1>3, <1>a, <3>1 DEF PreloadEntity, RequestsOK
      <4>2. /\ row \in Entity
            /\ \A c \in Columns : request[r].dto[c] # None
                                     => row[c] = request[r].dto[c]
        BY <1>b, <2>1, <3>1, TypeInvTypes, LoadedIsEntity, OverlayIsEntity DEF WellFormed
      <4>3. new \in RequestRecord
        BY <1>b, <4>2 DEF RequestRecord, Pcs, Entity
      <4>4. WellFormed(new)
        BY <1>b, <2>1, <4>2, <4>3 DEF WellFormed, RequestRecord
      <4> QED
        BY <1>a, <4>1, <4>4 DEF RequestsOK, WellFormed
    <3>2. CASE ~Exists(s)
      <4> DEFINE pc == IF request[r].op = "login" THEN "revokeAll" ELSE "idle"
      <4>1. Continue(r, pc)
        BY <1>3, <3>2 DEF PreloadEntity
      <4> QED
        BY <4>1, <2>1, ContinueIsWellFormed DEF RequestsOK, Pcs
    <3> QED
      BY <3>1, <3>2
  <2>3. TokensOK' /\ AccountsOK' /\ SetsOK'
    BY <1>a, <1>3 DEF PreloadEntity, TokensOK, Stored, AccountsOK, SetsOK
  <2> QED
    BY <2>2, <2>3 DEF TypeInv
<1>4. ASSUME NEW r \in Requests, SaveEntity(r) PROVE TypeInv'
  <2> DEFINE s == request[r].subject
  <2>1. s \in Subjects /\ request[r].row \in Entity /\ request[r].dto \in DtoValue
    BY <1>4, <1>b DEF SaveEntity, WellFormed
  <2>2. RequestsOK'
    <3>1. Continue(r, AfterSave(request[r].op))
      BY <1>4 DEF SaveEntity
    <3> QED
      BY <2>1, <3>1, ContinueIsWellFormed DEF RequestsOK, AfterSave, Pcs
  <2>3. AccountsOK'
    <3> DEFINE new == Overlay(account[s], request[r].row)
    <3>1. account' = [account EXCEPT ![s] = new]
      BY <1>4 DEF SaveEntity
    <3>2. /\ new \in [Columns -> Value]
          /\ new["deleted"] \in BOOLEAN
          /\ new["isBanned"] \in BOOLEAN
          /\ new["password"] \in Passwords
      BY <1>a, <2>1 DEF Overlay, Entity, AccountsOK, Columns, Value
    <3>3. settled' \in [Subjects -> [Columns -> Value]]
      BY <1>4, <2>1, SettleIsTyped DEF SaveEntity, DtoValue
    <3> QED
      BY <1>a, <2>1, <3>1, <3>2, <3>3 DEF AccountsOK
  <2>4. TokensOK' /\ SetsOK'
    BY <1>a, <1>4 DEF SaveEntity, TokensOK, Stored, SetsOK
  <2> QED
    BY <2>2, <2>3, <2>4 DEF TypeInv
<1>5. ASSUME NEW r \in Requests, RevokeAllUserTokens(r) PROVE TypeInv'
  BY <1>5, RevokeAllIsTyped DEF RevokeAllUserTokens, TokensOf
<1>6. ASSUME NEW r \in Requests, RevokeAllAdminTokens(r) PROVE TypeInv'
  BY <1>6, RevokeAllIsTyped DEF RevokeAllAdminTokens, TokensOf
<1>7. ASSUME NEW r \in Requests, NEW t \in Tokens, GenerateRefreshToken(r, t)
      PROVE  TypeInv'
  <2>1. request[r].subject \in Subjects /\ request[r].ended \in SUBSET Tokens
    BY <1>7, <1>b DEF GenerateRefreshToken, WellFormed, RequestRecord
  <2>2. RequestsOK'
    BY <1>7, ContinueIsWellFormed DEF GenerateRefreshToken, RequestsOK, Pcs
  <2>3. TokensOK'
    BY <1>7, <1>a, <2>1, RowIsTokenRecord DEF GenerateRefreshToken, TokensOK
  <2>4. AccountsOK' /\ SetsOK'
    BY <1>7, <1>a, <2>1 DEF GenerateRefreshToken, AccountsOK, SetsOK
  <2> QED
    BY <2>2, <2>3, <2>4 DEF TypeInv
<1>8. ASSUME NEW r \in Requests, SaveRevoked(r) PROVE TypeInv'
  <2> DEFINE t == request[r].token
             pc == IF Stored(t) /\ request[r].op = "logout" THEN "revokeAll"
                   ELSE "idle"
  <2>1. t \in Tokens /\ Continue(r, pc)
    BY <1>8, <1>b DEF SaveRevoked, WellFormed
  <2>2. RequestsOK'
    BY <2>1, <1>b, ContinueIsWellFormed DEF RequestsOK, WellFormed, Pcs
  <2>3. TokensOK'
    <3>1. CASE Stored(t)
      <4>1. refreshToken' = [refreshToken EXCEPT ![t].isRevoked = TRUE,
                                                 ![t].owner = SavedOwner(r)]
        BY <1>8, <3>1 DEF SaveRevoked
      <4>2. SavedOwner(r) \in Subjects \cup {None}
        BY <1>b DEF SavedOwner, RequestRecord
      <4> QED
        BY <4>1, <4>2, <1>a, <2>1 DEF TokensOK, TokenRecord
    <3>2. CASE ~Stored(t)
      <4>1. refreshToken' = refreshToken
        BY <1>8, <3>2 DEF SaveRevoked
      <4> QED
        BY <4>1, <1>a DEF TokensOK, Stored
    <3> QED
      BY <3>1, <3>2
  <2>4. AccountsOK' /\ SetsOK'
    BY <1>8, <1>a, <2>1 DEF SaveRevoked, AccountsOK, SetsOK
  <2> QED
    BY <2>2, <2>3, <2>4 DEF TypeInv
<1>9. ASSUME NEW r \in Requests, SoftDeleteEntity(r) PROVE TypeInv'
  <2> DEFINE s == request[r].subject
             decision == [Nothing EXCEPT !["deleted"] = TRUE]
  <2>1. s \in Subjects
    BY <1>9, <1>b DEF SoftDeleteEntity, WellFormed
  <2>2. RequestsOK'
    BY <1>9, ContinueIsWellFormed DEF SoftDeleteEntity, RequestsOK, Pcs
  <2>3. AccountsOK'
    <3>1. decision \in [Columns -> Value]
      BY DEF Nothing, Columns, Value
    <3>2. settled' \in [Subjects -> [Columns -> Value]]
      BY <1>9, <2>1, <3>1, SettleIsTyped DEF SoftDeleteEntity
    <3> QED
      BY <1>9, <1>a, <2>1, <3>2 DEF SoftDeleteEntity, AccountsOK, Columns, Value
  <2>4. TokensOK'
    <3>1. \A t \in Tokens : SyncedOwner(r, t) \in Subjects \cup {None}
      BY <1>a, <2>1 DEF SyncedOwner, TokensOK, TokenRecord
    <3> QED
      BY <1>9, <1>a, <3>1 DEF SoftDeleteEntity, TokensOK, TokenRecord
  <2>5. SetsOK'
    BY <1>9, <1>a, <2>1 DEF SoftDeleteEntity, SetsOK
  <2> QED
    BY <2>2, <2>3, <2>4, <2>5 DEF TypeInv
<1>10. ASSUME NEW t \in Tokens, GrowOld(t) PROVE TypeInv'
  <2>1. TokensOK'
    BY <1>10, <1>a DEF GrowOld, TokensOK, Stored, TokenRecord
  <2>2. AccountsOK' /\ RequestsOK' /\ SetsOK'
    BY <1>10, <1>a DEF GrowOld, AccountsOK, RequestsOK, SetsOK, WellFormed
  <2> QED
    BY <2>1, <2>2 DEF TypeInv
<1>11. ASSUME CleanupExpiredRefreshTokens PROVE TypeInv'
  <2>1. TokensOK'
    BY <1>11, <1>a, RowIsTokenRecord
       DEF CleanupExpiredRefreshTokens, TokensOK, Stored, Row
  <2>2. AccountsOK' /\ RequestsOK' /\ SetsOK'
    BY <1>11, <1>a
       DEF CleanupExpiredRefreshTokens, AccountsOK, RequestsOK, SetsOK, WellFormed
  <2> QED
    BY <2>1, <2>2 DEF TypeInv
<1>12. CASE UNCHANGED vars
  BY <1>12 DEF vars, TypeInv, TokensOK, AccountsOK, RequestsOK, SetsOK, WellFormed,
               Stored
<1> QED
  BY <1>1, <1>2, <1>3, <1>4, <1>5, <1>6, <1>7, <1>8, <1>9, <1>10, <1>11, <1>12
     DEF Next, Step

\* Every row, handler and history variable keeps its type: no save of an entity
\* that was loaded in part, however late, leaves a column without a value.
THEOREM TypeCorrect == Spec => []TypeOK
<1>1. Spec => []TypeInv
  BY TypeInit, TypeNext, PTL DEF Spec
<1> QED
  BY <1>1, TypeInvTypes, PTL
-----------------------------------------------------------------------------
(* Ended sessions. *)

\* What makes EndedStaysEnded and SessionsOverlap inductive: an ended token is
\* revoked or gone for good, and what a login replaced is among the ended.
EndedInv ==
    /\ \A t \in ended : /\ refreshToken[t].state # "unused"
                        /\ Stored(t) => refreshToken[t].isRevoked
    /\ \A t \in Tokens : predecessors[t] \subseteq ended
    /\ \A q \in Requests : request[q].ended \subseteq ended

\* A step that revokes toks ends every one of them.
LEMMA RevokeAllEnds ==
    ASSUME TypeInv, EndedInv, NEW r \in Requests, NEW toks \in SUBSET Tokens,
           \A t \in toks : Stored(t),
           AfterRevokeAll(request[r].op) = "issue"
               => toks = TokensOf(request[r].subject),
           RevokeAll(r, toks)
    PROVE  EndedInv'
<1>1. request \in [Requests -> RequestRecord] /\ SetsOK /\ TokensOK
  BY DEF TypeInv, RequestsOK
<1>2. ASSUME NEW t \in ended'
      PROVE  /\ refreshToken'[t].state # "unused"
             /\ Stored(t)' => refreshToken'[t].isRevoked
  <2>1. t \in Tokens
    BY <1>1, <1>2 DEF RevokeAll, SetsOK
  <2>2. CASE t \in toks
    BY <2>1, <2>2, <1>1 DEF RevokeAll, Stored, TokensOK, TokenRecord
  <2>3. CASE t \notin toks
    BY <2>1, <2>3, <1>2 DEF RevokeAll, Stored, EndedInv
  <2> QED
    BY <2>2, <2>3
<1>3. ASSUME NEW q \in Requests PROVE request'[q].ended \subseteq ended'
  <2>1. CASE q = r
    BY <2>1, <1>1 DEF RevokeAll, Idle, RequestRecord
  <2>2. CASE q # r
    BY <2>2, <1>1 DEF RevokeAll, EndedInv
  <2> QED
    BY <2>1, <2>2
<1>4. \A t \in Tokens : predecessors'[t] \subseteq ended'
  BY DEF RevokeAll, EndedInv
<1> QED
  BY <1>2, <1>3, <1>4 DEF EndedInv

\* A step that issues, revokes and deletes no token, and gives its handler no
\* ended token it did not have.
LEMMA EndedUntouched ==
    ASSUME TypeInv, EndedInv, UNCHANGED <<ended, predecessors>>,
           \A t \in Tokens : /\ refreshToken'[t].state = refreshToken[t].state
                             /\ refreshToken'[t].isRevoked = refreshToken[t].isRevoked,
           \A q \in Requests : request'[q].ended \subseteq request[q].ended
    PROVE  EndedInv'
  BY DEF TypeInv, SetsOK, EndedInv, Stored

\* Continue keeps or clears what its handler ended.
LEMMA ContinueKeepsEnded ==
    ASSUME TypeInv, NEW r \in Requests, NEW pc, Continue(r, pc)
    PROVE  \A q \in Requests : request'[q].ended \subseteq request[q].ended
  BY DEF Continue, Idle, TypeInv, RequestsOK, RequestRecord

LEMMA EndedNext == TypeInv /\ EndedInv /\ [Next]_vars => EndedInv'
<1> SUFFICES ASSUME TypeInv, EndedInv, [Next]_vars PROVE EndedInv'
  OBVIOUS
<1>a. TokensOK /\ RequestsOK /\ SetsOK
  BY DEF TypeInv
<1>b. ASSUME NEW r \in Requests
      PROVE  request[r] \in RequestRecord /\ WellFormed(request[r])
  BY <1>a DEF RequestsOK
<1>1. ASSUME NEW r \in Requests, Call(r) PROVE EndedInv'
  <2>1. PICK q : Opened(r, q)
    BY <1>1, CallOpens, TypeInvTypes
  <2> QED
    BY <2>1, <1>a, EndedUntouched DEF Opened, RequestsOK
<1>2. ASSUME NEW r \in Requests, Reread(r) PROVE EndedInv'
  BY <1>2, ContinueKeepsEnded, EndedUntouched DEF Reread
<1>3. ASSUME NEW r \in Requests, PreloadEntity(r) PROVE EndedInv'
  <2>1. \A q \in Requests : request'[q].ended \subseteq request[q].ended
    BY <1>3, <1>a, ContinueKeepsEnded DEF PreloadEntity, RequestsOK, RequestRecord
  <2> QED
    BY <1>3, <2>1, EndedUntouched DEF PreloadEntity
<1>4. ASSUME NEW r \in Requests, SaveEntity(r) PROVE EndedInv'
  BY <1>4, ContinueKeepsEnded, EndedUntouched DEF SaveEntity
<1>5. ASSUME NEW r \in Requests, RevokeAllUserTokens(r) PROVE EndedInv'
  <2>1. CASE request[r].subject \in Users
    BY <1>5, <2>1, RevokeAllEnds DEF RevokeAllUserTokens, TokensOf
  <2>2. CASE request[r].subject \notin Users
    <3>1. RevokeAll(r, {}) /\ AfterRevokeAll(request[r].op) # "issue"
      BY <1>5, <2>2 DEF RevokeAllUserTokens, AfterRevokeAll
    <3> QED
      BY <3>1, RevokeAllEnds
  <2> QED
    BY <2>1, <2>2
<1>6. ASSUME NEW r \in Requests, RevokeAllAdminTokens(r) PROVE EndedInv'
  BY <1>6, RevokeAllEnds DEF RevokeAllAdminTokens, TokensOf
<1>7. ASSUME NEW r \in Requests, NEW t \in Tokens, GenerateRefreshToken(r, t)
      PROVE  EndedInv'
  <2>1. t \notin ended /\ ended' = ended
    BY <1>7 DEF GenerateRefreshToken, EndedInv
  <2>2. \A q \in Requests : request'[q].ended \subseteq ended
    BY <1>7, ContinueKeepsEnded DEF GenerateRefreshToken, EndedInv
  <2>3. \A x \in Tokens : predecessors'[x] \subseteq ended
    BY <1>7, <1>a DEF GenerateRefreshToken, EndedInv, SetsOK
  <2>4. \A x \in ended : refreshToken'[x] = refreshToken[x]
    BY <1>7, <1>a, <2>1 DEF GenerateRefreshToken, TokensOK, SetsOK
  <2> QED
    BY <2>1, <2>2, <2>3, <2>4 DEF EndedInv, Stored
<1>8. ASSUME NEW r \in Requests, SaveRevoked(r) PROVE EndedInv'
  <2> DEFINE t == request[r].token
  <2>1. t \in Tokens
    BY <1>8, <1>b DEF SaveRevoked, WellFormed
  <2>2. \A q \in Requests : request'[q].ended \subseteq request[q].ended
    BY <1>8, ContinueKeepsEnded DEF SaveRevoked
  <2>3. CASE Stored(t)
    <3>1. /\ refreshToken' = [refreshToken EXCEPT ![t].isRevoked = TRUE,
                                                 ![t].owner = SavedOwner(r)]
          /\ ended' = ended \cup {t}
          /\ predecessors' = predecessors
      BY <1>8, <2>3 DEF SaveRevoked
    <3>2. ASSUME NEW x \in ended'
          PROVE  /\ refreshToken'[x].state # "unused"
                 /\ Stored(x)' => refreshToken'[x].isRevoked
      <4>1. x \in Tokens
        BY <1>a, <2>1, <3>1, <3>2 DEF SetsOK
      <4>2. CASE x = t
        BY <4>2, <1>a, <2>1, <2>3, <3>1 DEF TokensOK, TokenRecord, Stored
      <4>3. CASE x # t
        BY <4>1, <4>3, <1>a, <3>1, <3>2 DEF TokensOK, EndedInv, Stored
      <4> QED
        BY <4>2, <4>3
    <3> QED
      BY <2>2, <3>1, <3>2 DEF EndedInv
  <2>4. CASE ~Stored(t)
    BY <1>8, <2>2, <2>4, EndedUntouched DEF SaveRevoked
  <2> QED
    BY <2>3, <2>4
<1>9. ASSUME NEW r \in Requests, SoftDeleteEntity(r) PROVE EndedInv'
  <2>1. \A t \in Tokens : /\ refreshToken'[t].state = refreshToken[t].state
                          /\ refreshToken'[t].isRevoked = refreshToken[t].isRevoked
    BY <1>9, <1>a DEF SoftDeleteEntity, TokensOK, TokenRecord
  <2> QED
    BY <1>9, <2>1, ContinueKeepsEnded, EndedUntouched DEF SoftDeleteEntity
<1>10. ASSUME NEW t \in Tokens, GrowOld(t) PROVE EndedInv'
  BY <1>10, <1>a DEF GrowOld, EndedInv, TokensOK, TokenRecord, SetsOK, Stored
<1>11. ASSUME CleanupExpiredRefreshTokens PROVE EndedInv'
  BY <1>11, <1>a
     DEF CleanupExpiredRefreshTokens, EndedInv, SetsOK, Stored, Row
<1>12. CASE UNCHANGED vars
  BY <1>12, EndedUntouched DEF vars
<1> QED
  BY <1>1, <1>2, <1>3, <1>4, <1>5, <1>6, <1>7, <1>8, <1>9, <1>10, <1>11, <1>12
     DEF Next, Step

LEMMA EndedAlways == Spec => []EndedInv
<1>1. Init => EndedInv
  BY DEF Init, EndedInv, Idle
<1> QED
  BY <1>1, TypeInit, TypeNext, EndedNext, PTL DEF Spec

\* A session that a logout, a login, a password change or an expired refresh
\* ended is never refreshable again.
THEOREM EndedForGood == Spec => []EndedStaysEnded
<1>1. EndedInv => EndedStaysEnded
  BY DEF EndedInv, EndedStaysEnded, Refreshable
<1> QED
  BY <1>1, EndedAlways, PTL

\* An account has two live sessions only when the logins that issued them
\* overlapped.
THEOREM OneSessionPerLogin == Spec => []SessionsOverlap
<1>1. EndedInv => SessionsOverlap
  BY DEF EndedInv, SessionsOverlap, Refreshable
<1> QED
  BY <1>1, EndedAlways, PTL

-----------------------------------------------------------------------------
(* Settled decisions. *)

\* What makes SettledWritesHold inductive: an entity that is still held agrees
\* with every settled column its own DTO does not set, so writing it back
\* changes none of them.
SettledInv ==
    \A s \in Subjects, c \in Columns : settled[s][c] # None =>
        /\ account[s][c] = settled[s][c]
        /\ \A q \in Requests : Holds(q, s, c) /\ request[q].dto[c] = None
                                => request[q].row[c] = settled[s][c]

\* A step that writes no account and loads no entity.
LEMMA SettledUntouched ==
    ASSUME SettledInv, UNCHANGED <<account, settled>>,
           \A q \in Requests : request'[q].row = None \/ request'[q] = request[q]
    PROVE  SettledInv'
  BY DEF SettledInv, Holds

\* Continue drops the entity of its handler.
LEMMA ContinueDrops ==
    ASSUME TypeInv, NEW r \in Requests, NEW pc, Continue(r, pc)
    PROVE  /\ request'[r].row = None
           /\ \A q \in Requests \ {r} : request'[q] = request[q]
  BY DEF Continue, Idle, TypeInv, RequestsOK, RequestRecord

\* A handler that has just read an entity holds the settled values.
LEMMA SettledAfterRead ==
    ASSUME SettledInv, NEW r \in Requests, NEW q, Fresh(q),
           request' = [request EXCEPT ![r] = q],
           DOMAIN request = Requests,
           UNCHANGED <<account, settled>>
    PROVE  SettledInv'
<1> SUFFICES ASSUME NEW s \in Subjects, NEW c \in Columns, settled[s][c] # None,
                    NEW x \in Requests, Holds(x, s, c)', request'[x].dto[c] = None
             PROVE  request'[x].row[c] = settled[s][c]
  BY DEF SettledInv
<1>1. CASE x = r
  BY <1>1 DEF Fresh, Holds, SettledInv
<1>2. CASE x # r
  BY <1>2 DEF Holds, SettledInv
<1> QED
  BY <1>1, <1>2

\* r writes row, which carries its decision and what was settled elsewhere,
\* and drops its entity.
Decides(r, s, decision, row) ==
    /\ decision \in [Columns -> Value]
    /\ account' = [account EXCEPT ![s] = row]
    /\ \A c \in Columns : decision[c] # None => row[c] = decision[c]
    /\ \A c \in Columns : decision[c] = None /\ settled[s][c] # None
                            => row[c] = settled[s][c]
    /\ Settle(r, s, decision)
    /\ request'[r].row = None
    /\ \A q \in Requests \ {r} : request'[q] = request[q]

LEMMA SettledAfterWrite ==
    ASSUME TypeInv, SettledInv, NEW r \in Requests, NEW s \in Subjects,
           NEW decision, NEW row, Decides(r, s, decision, row)
    PROVE  SettledInv'
<1> SUFFICES ASSUME NEW x \in Subjects, NEW c \in Columns, settled'[x][c] # None
             PROVE  /\ account'[x][c] = settled'[x][c]
                    /\ \A q \in Requests :
                         Holds(q, x, c)' /\ request'[q].dto[c] = None
                            => request'[q].row[c] = settled'[x][c]
  BY DEF SettledInv
<1>1. account \in [Subjects -> [Columns -> Value]]
      /\ settled \in [Subjects -> [Columns -> Value]]
  BY DEF TypeInv, AccountsOK
<1>2. \A q \in Requests : Holds(q, x, c)'
         => q # r /\ Holds(q, x, c) /\ request'[q] = request[q]
  BY DEF Holds, Decides
<1>3. CASE x = s /\ decision[c] # None
  <2>1. settled'[x][c] = decision[c]
        /\ ~ \E q \in Requests \ {r} : Holds(q, x, c)
    BY <1>1, <1>3 DEF Decides, Settle
  <2> QED
    BY <1>1, <1>2, <1>3, <2>1 DEF Decides
<1>4. CASE x = s /\ decision[c] = None
  <2>1. settled'[x][c] = settled[x][c]
    BY <1>1, <1>4 DEF Decides, Settle
  <2> QED
    BY <1>1, <1>2, <1>4, <2>1 DEF Decides, SettledInv
<1>5. CASE x # s
  <2>1. settled'[x] = settled[x] /\ account'[x] = account[x]
    BY <1>1, <1>5 DEF Decides, Settle
  <2> QED
    BY <1>2, <2>1 DEF SettledInv
<1> QED
  BY <1>3, <1>4, <1>5

\* An entity is not null.
LEMMA NoneIsNotRow ==
    ASSUME TypeInv, NEW r \in Requests, request[r].pc = "save",
           NEW c \in Columns, request[r].row[c] # None
    PROVE  request[r].row # None
  BY NoneIsNoEntity DEF TypeInv, RequestsOK, WellFormed, Entity

\* A handler about to revoke holds no entity, nor does it afterwards.
LEMMA RevokeAllHoldsNothing ==
    ASSUME TypeInv, NEW r \in Requests, NEW toks, request[r].pc = "revokeAll",
           RevokeAll(r, toks)
    PROVE  \A q \in Requests : request'[q].row = None \/ request'[q] = request[q]
  BY DEF TypeInv, RequestsOK, RequestRecord, WellFormed, RevokeAll, Idle

LEMMA SettledNext == TypeInv /\ SettledInv /\ [Next]_vars => SettledInv'
<1> SUFFICES ASSUME TypeInv, SettledInv, [Next]_vars PROVE SettledInv'
  OBVIOUS
<1>a. AccountsOK /\ RequestsOK
  BY DEF TypeInv
<1>b. ASSUME NEW r \in Requests
      PROVE  request[r] \in RequestRecord /\ WellFormed(request[r])
  BY <1>a DEF RequestsOK
<1>1. ASSUME NEW r \in Requests, Call(r) PROVE SettledInv'
  <2>1. PICK q : Opened(r, q)
    BY <1>1, CallOpens, TypeInvTypes
  <2> QED
    BY <2>1, <1>a, SettledAfterRead DEF Opened, RequestsOK
<1>2. ASSUME NEW r \in Requests, Reread(r) PROVE SettledInv'
  BY <1>2, ContinueDrops, SettledUntouched DEF Reread
<1>3. ASSUME NEW r \in Requests, PreloadEntity(r) PROVE SettledInv'
  <2> DEFINE s == request[r].subject
  <2>1. s \in Subjects
    BY <1>3, <1>b DEF PreloadEntity, WellFormed
  <2>2. CASE Exists(s)
    <3> DEFINE row == Overlay(Loaded(s, Default), request[r].dto)
               new == [request[r] EXCEPT !.pc = "save", !.row = row]
    <3>1. request' = [request EXCEPT ![r] = new]
      BY <1>3, <1>a, <2>2 DEF PreloadEntity, RequestsOK
    <3>2. \A c \in Columns : row[c] # None /\ request[r].dto[c] = None
                               => row[c] = account[s][c]
      BY <1>b, <2>1, <2>2, TypeInvTypes, LoadedIsEntity, OverlayIsEntity DEF WellFormed
    <3>3. Fresh(new)
      BY <1>b, <3>2 DEF Fresh, RequestRecord
    <3> QED
      BY <1>3, <1>a, <3>1, <3>3, SettledAfterRead DEF PreloadEntity, RequestsOK
  <2>3. CASE ~Exists(s)
    BY <1>3, <2>3, ContinueDrops, SettledUntouched DEF PreloadEntity
  <2> QED
    BY <2>2, <2>3
<1>4. ASSUME NEW r \in Requests, SaveEntity(r) PROVE SettledInv'
  <2> DEFINE s == request[r].subject
             dto == request[r].dto
             row == Overlay(account[s], request[r].row)
  <2>1. /\ s \in Subjects
        /\ request[r].row \in Entity
        /\ dto \in [Columns -> Value]
        /\ \A c \in Columns : dto[c] # None => request[r].row[c] = dto[c]
    BY <1>4, <1>b DEF SaveEntity, WellFormed, DtoValue
  <2>2. row \in [Columns -> Value]
    BY <1>a, <2>1 DEF Overlay, Entity, AccountsOK
  <2>3. \A c \in Columns : dto[c] # None => row[c] = dto[c]
    BY <2>1 DEF Overlay
  <2>4. ASSUME NEW c \in Columns, dto[c] = None, settled[s][c] # None
        PROVE  row[c] = settled[s][c]
    <3>1. CASE request[r].row[c] = None
      BY <2>1, <2>4, <3>1 DEF Overlay, SettledInv
    <3>2. CASE request[r].row[c] # None
      <4>1. Holds(r, s, c)
        BY <1>4, <2>1, <3>2, NoneIsNotRow DEF Holds, SaveEntity
      <4> QED
        BY <2>1, <2>4, <3>2, <4>1 DEF Overlay, SettledInv
    <3> QED
      BY <3>1, <3>2
  <2>5. request'[r].row = None /\ \A q \in Requests \ {r} : request'[q] = request[q]
    BY <1>4, ContinueDrops DEF SaveEntity
  <2>6. account' = [account EXCEPT ![s] = row] /\ Settle(r, s, dto)
    BY <1>4 DEF SaveEntity
  <2>7. Decides(r, s, dto, row)
    BY <2>1, <2>2, <2>3, <2>4, <2>5, <2>6 DEF Decides
  <2> QED
    BY <2>1, <2>7, SettledAfterWrite
<1>5. ASSUME NEW r \in Requests, RevokeAllUserTokens(r) PROVE SettledInv'
  BY <1>5, RevokeAllHoldsNothing, SettledUntouched DEF RevokeAllUserTokens, RevokeAll
<1>6. ASSUME NEW r \in Requests, RevokeAllAdminTokens(r) PROVE SettledInv'
  BY <1>6, RevokeAllHoldsNothing, SettledUntouched DEF RevokeAllAdminTokens, RevokeAll
<1>7. ASSUME NEW r \in Requests, NEW t \in Tokens, GenerateRefreshToken(r, t)
      PROVE  SettledInv'
  BY <1>7, ContinueDrops, SettledUntouched DEF GenerateRefreshToken
<1>8. ASSUME NEW r \in Requests, SaveRevoked(r) PROVE SettledInv'
  <2>1. \E pc : Continue(r, pc)
    BY <1>8 DEF SaveRevoked
  <2> QED
    BY <1>8, <2>1, ContinueDrops, SettledUntouched DEF SaveRevoked
<1>9. ASSUME NEW r \in Requests, SoftDeleteEntity(r) PROVE SettledInv'
  <2> DEFINE s == request[r].subject
             decision == [Nothing EXCEPT !["deleted"] = TRUE]
             row == [account[s] EXCEPT !["deleted"] = TRUE]
  <2>1. s \in Subjects
    BY <1>9, <1>b DEF SoftDeleteEntity, WellFormed
  <2>2. decision \in [Columns -> Value] /\ row \in [Columns -> Value]
    BY <1>a, <2>1 DEF Nothing, Columns, Value, AccountsOK
  <2>3. \A c \in Columns : decision[c] # None => row[c] = decision[c]
    BY <1>a, <2>1 DEF Nothing, Columns, AccountsOK
  <2>4. \A c \in Columns : decision[c] = None /\ settled[s][c] # None
                             => row[c] = settled[s][c]
    <3>1. decision["deleted"] # None
      BY NoneIsNotStored DEF Nothing, Columns
    <3>2. \A c \in Columns \ {"deleted"} : row[c] = account[s][c]
      BY <1>a, <2>1 DEF AccountsOK
    <3> QED
      BY <2>1, <3>1, <3>2 DEF SettledInv
  <2>5. request'[r].row = None /\ \A q \in Requests \ {r} : request'[q] = request[q]
    BY <1>9, ContinueDrops DEF SoftDeleteEntity
  <2>6. account' = [account EXCEPT ![s] = row] /\ Settle(r, s, decision)
    BY <1>9, <1>a, <2>1 DEF SoftDeleteEntity, AccountsOK
  <2>7. Decides(r, s, decision, row)
    BY <2>1, <2>2, <2>3, <2>4, <2>5, <2>6 DEF Decides
  <2> QED
    BY <2>1, <2>7, SettledAfterWrite
<1>10. ASSUME NEW t \in Tokens, GrowOld(t) PROVE SettledInv'
  BY <1>10, SettledUntouched DEF GrowOld
<1>11. ASSUME CleanupExpiredRefreshTokens PROVE SettledInv'
  BY <1>11, SettledUntouched DEF CleanupExpiredRefreshTokens
<1>12. CASE UNCHANGED vars
  BY <1>12, SettledUntouched DEF vars
<1> QED
  BY <1>1, <1>2, <1>3, <1>4, <1>5, <1>6, <1>7, <1>8, <1>9, <1>10, <1>11, <1>12
     DEF Next, Step

\* A decision on a column that no other handler held when it was saved stays
\* in the row until the next decision on that column.
THEOREM SettledDecisionsHold == Spec => []SettledWritesHold
<1>1. Init => SettledInv
  BY DEF Init, SettledInv, Holds, Idle
<1>2. SettledInv => SettledWritesHold
  BY DEF SettledInv, SettledWritesHold
<1> QED
  BY <1>1, <1>2, TypeInit, TypeNext, SettledNext, PTL DEF Spec

\* Nobody is refreshed for an account whose deletion no overlapping handler can
\* undo, whenever the token was issued.
THEOREM DeletedForGood == Spec => []DeletedAreSignedOut
<1>1. Init => SettledInv
  BY DEF Init, SettledInv, Holds, Idle
<1>2. TypeInv /\ SettledInv => DeletedAreSignedOut
  <2> SUFFICES ASSUME TypeInv, SettledInv, NEW t \in Tokens, Refreshable(t)
               PROVE  settled[refreshToken[t].owner]["deleted"] # TRUE
    BY DEF DeletedAreSignedOut
  <2> DEFINE s == refreshToken[t].owner
  <2>1. s \in Subjects /\ account[s]["deleted"] = FALSE
    BY DEF TypeInv, TokensOK, TokenRecord, AccountsOK, Refreshable, OwnerExists, Exists
  <2> QED
    BY <2>1, NoneIsNotStored DEF SettledInv, Columns
<1> QED
  BY <1>1, <1>2, TypeInit, TypeNext, SettledNext, PTL DEF Spec

-----------------------------------------------------------------------------
(* Owners. *)

\* s may be read or written as the owner of t.
Belongs(s, t) == s = issuedTo[t] \/ (s = None /\ issuedTo[t] \in removed)

\* What makes TokensKeepOwners inductive: the token entities and the collections
\* that handlers hold are of the account that logged in, and a relation that was
\* null is of an account that was deleted.
OwnersInv ==
    /\ \A t \in Tokens : Stored(t) =>
         issuedTo[t] \in Subjects /\ Belongs(refreshToken[t].owner, t)
    /\ \A q \in Requests : request[q].pc = "saveToken" =>
         LET t == request[q].token
         IN  /\ refreshToken[t].state # "unused"
             /\ Belongs(request[q].owner, t)
             /\ request[q].joined \/ issuedTo[t] \in removed
    /\ \A q \in Requests : \A t \in request[q].collection :
         refreshToken[t].state # "unused" /\ issuedTo[t] = request[q].subject
    /\ \A s \in Subjects : ~Exists(s) => s \in removed

\* What a handler holds of tokens is as it was, or what they are now.
HoldsOwners(q) ==
    /\ q.pc = "saveToken" =>
         /\ Stored(q.token)
         /\ q.owner = refreshToken[q.token].owner
         /\ q.joined \/ ~OwnerExists(q.token)
    /\ \A t \in q.collection : Stored(t) /\ refreshToken[t].owner = q.subject
    /\ q.collection # {} => q.subject \in Subjects

LEMMA CallHoldsOwners ==
    ASSUME TypeInv, NEW r \in Requests, Call(r)
    PROVE  HoldsOwners(request'[r])
<1>0. r \in DOMAIN request
  BY DEF TypeInv, RequestsOK
<1>a. ASSUME NEW op, NEW pc, pc # "saveToken", NEW s, NEW row, NEW dto,
             Begin(r, op, pc, s, row, dto)
      PROVE  HoldsOwners(request'[r])
  BY <1>0, <1>a DEF Begin, Open, HoldsOwners, Idle
<1>1. ASSUME NEW u \in Users,
             \/ UserLogin(r, u) \/ HandleOAuthLogin(r, u) \/ AppUpdate(r, u)
             \/ \E h \in Passwords : UserResetPassword(r, u, h)
      PROVE  HoldsOwners(request'[r])
  BY <1>1, <1>a DEF UserLogin, HandleOAuthLogin, AppUpdate, UserResetPassword
<1>2. ASSUME NEW u \in Users, DeleteProfile(r, u) PROVE HoldsOwners(request'[r])
  BY <1>0, <1>2 DEF DeleteProfile, TokensOf, Open, HoldsOwners, Idle, Subjects
<1>3. ASSUME NEW a \in Admins, AdminLogin(r, a) PROVE HoldsOwners(request'[r])
  BY <1>3, <1>a DEF AdminLogin
<1>4. ASSUME NEW s \in Subjects,
             \E h \in Passwords : ChangePassword(r, s, h) \/ ResetPassword(r, s, h)
      PROVE  HoldsOwners(request'[r])
  BY <1>4, <1>a DEF ChangePassword, ResetPassword
<1>5. ASSUME NEW s \in Subjects, NEW dto, Update(r, s, dto) \/ UpdateProfile(r, s, dto)
      PROVE  HoldsOwners(request'[r])
  BY <1>5, <1>a DEF Update, UpdateProfile
<1>6. ASSUME NEW s \in Subjects, Remove(r, s) PROVE HoldsOwners(request'[r])
  BY <1>6, <1>a DEF Remove
<1>7. ASSUME NEW s \in Subjects, NEW t \in Tokens, Logout(r, s, t)
      PROVE  HoldsOwners(request'[r])
  <2> DEFINE q == [Idle EXCEPT !.op = "logout", !.pc = "saveToken", !.subject = s,
                      !.token = t, !.owner = refreshToken[t].owner, !.joined = TRUE]
  <2>1. CASE Begin(r, "logout", "revokeAll", s, None, Nothing)
    BY <2>1, <1>a
  <2>2. CASE Stored(t) /\ Open(r, q)
    <3>1. request'[r] = q
      BY <1>0, <2>2 DEF Open
    <3>2. /\ q.token = t /\ q.owner = refreshToken[t].owner
          /\ q.joined = TRUE /\ q.collection = {}
      BY DEF Idle
    <3> QED
      BY <2>2, <3>1, <3>2 DEF HoldsOwners
  <2> QED
    BY <1>7, <2>1, <2>2 DEF Logout
<1>8. ASSUME NEW t \in Tokens, RefreshExpired(r, t) PROVE HoldsOwners(request'[r])
  BY <1>0, <1>8 DEF RefreshExpired, Open, HoldsOwners, Idle
<1> QED
  BY <1>1, <1>2, <1>3, <1>4, <1>5, <1>6, <1>7, <1>8 DEF Call

\* A step that issues no token, leaves each with an owner it may have, brings no
\* account back, and lets its handler hold no more of tokens than before.
LEMMA OwnersKept ==
    ASSUME TypeInv, OwnersInv, issuedTo' = issuedTo, removed \subseteq removed',
           \A t \in Tokens : /\ refreshToken[t].state # "unused" => refreshToken'[t].state # "unused"
                             /\ Stored(t)' => Stored(t) /\ Belongs(refreshToken[t].owner, t)',
           \A q \in Requests :
               /\ \/ request'[q] = request[q]
                  \/ request'[q].pc # "saveToken"
               /\ \/ request'[q].collection = {}
                  \/ /\ request'[q].collection = request[q].collection
                     /\ request'[q].subject = request[q].subject,
           \A s \in Subjects : ~Exists(s)' => s \in removed'
    PROVE  OwnersInv'
<1>1. \A q \in Requests : /\ request[q].pc = "saveToken" => request[q].token \in Tokens
                          /\ request[q].collection \subseteq Tokens
  BY DEF TypeInv, RequestsOK, WellFormed, RequestRecord
<1>2. ASSUME NEW t \in Tokens, Stored(t)'
      PROVE  issuedTo'[t] \in Subjects /\ Belongs(refreshToken[t].owner, t)'
  BY <1>2 DEF OwnersInv
<1>3. ASSUME NEW q \in Requests, request'[q].pc = "saveToken"
      PROVE  /\ refreshToken'[request'[q].token].state # "unused"
             /\ Belongs(request[q].owner, request[q].token)'
             /\ request'[q].joined \/ issuedTo'[request'[q].token] \in removed'
  <2>1. request'[q] = request[q] /\ request[q].token \in Tokens
    BY <1>1, <1>3
  <2> QED
    BY <1>3, <2>1 DEF OwnersInv, Belongs
<1>4. ASSUME NEW q \in Requests, NEW t \in request'[q].collection
      PROVE  refreshToken'[t].state # "unused" /\ issuedTo'[t] = request'[q].subject
  <2>1. request'[q].collection = request[q].collection
        /\ request'[q].subject = request[q].subject
    BY <1>4
  <2>2. t \in Tokens
    BY <1>1, <1>4, <2>1
  <2> QED
    BY <1>4, <2>1, <2>2 DEF OwnersInv
<1> QED
  BY <1>2, <1>3, <1>4 DEF OwnersInv

\* A step that writes neither accounts nor owners and moves one handler on.
LEMMA OwnersUntouched ==
    ASSUME TypeInv, OwnersInv, UNCHANGED <<account, issuedTo, removed>>,
           \A t \in Tokens : /\ refreshToken'[t].state = refreshToken[t].state
                             /\ refreshToken'[t].owner = refreshToken[t].owner,
           \A q \in Requests :
               /\ \/ request'[q] = request[q]
                  \/ request'[q].pc # "saveToken"
               /\ \/ request'[q].collection = {}
                  \/ /\ request'[q].collection = request[q].collection
                     /\ request'[q].subject = request[q].subject
    PROVE  OwnersInv'
<1>1. \A t \in Tokens : Stored(t)' => Stored(t) /\ Belongs(refreshToken[t].owner, t)'
  BY DEF Stored, Belongs, OwnersInv
<1>2. \A s \in Subjects : ~Exists(s)' => s \in removed'
  BY DEF Exists, OwnersInv
<1> QED
  BY <1>1, <1>2, OwnersKept

\* Where Continue and RevokeAll leave their handler.
MovesOn(r) ==
    \A q \in Requests :
        /\ \/ request'[q] = request[q]
           \/ request'[q].pc # "saveToken"
        /\ \/ request'[q].collection = {}
           \/ /\ request'[q].collection = request[q].collection
              /\ request'[q].subject = request[q].subject

LEMMA ContinueMovesOn ==
    ASSUME TypeInv, NEW r \in Requests, NEW pc, pc # "saveToken", Continue(r, pc)
    PROVE  MovesOn(r)
<1>1. request \in [Requests -> RequestRecord]
  BY DEF TypeInv, RequestsOK
<1> QED
  BY <1>1 DEF Continue, Idle, RequestRecord, MovesOn

LEMMA RevokeAllMovesOn ==
    ASSUME TypeInv, NEW r \in Requests, NEW toks, RevokeAll(r, toks)
    PROVE  MovesOn(r)
<1>1. request \in [Requests -> RequestRecord]
  BY DEF TypeInv, RequestsOK
<1> QED
  BY <1>1 DEF RevokeAll, AfterRevokeAll, Idle, RequestRecord, MovesOn

LEMMA OwnersNext == TypeInv /\ OwnersInv /\ [Next]_vars => OwnersInv'
<1> SUFFICES ASSUME TypeInv, OwnersInv, [Next]_vars PROVE OwnersInv'
  OBVIOUS
<1>a. /\ request \in [Requests -> RequestRecord]
      /\ refreshToken \in [Tokens -> TokenRecord]
      /\ account \in [Subjects -> [Columns -> Value]]
      /\ AccountsOK /\ SetsOK
  BY DEF TypeInv, RequestsOK, TokensOK, AccountsOK
<1>b. ASSUME NEW r \in Requests
      PROVE  request[r] \in RequestRecord /\ WellFormed(request[r])
  BY DEF TypeInv, RequestsOK
<1>1. ASSUME NEW r \in Requests, Call(r) PROVE OwnersInv'
  <2>1. PICK q : Opened(r, q)
    BY <1>1, CallOpens, TypeInvTypes
  <2>2. /\ request'[r] = q
        /\ \A p \in Requests \ {r} : request'[p] = request[p]
        /\ UNCHANGED <<account, refreshToken, issuedTo, removed>>
    BY <1>a, <2>1 DEF Opened
  <2>3. HoldsOwners(q)
    BY <1>1, <2>2, CallHoldsOwners
  <2>4. WellFormed(q)
    BY <2>1 DEF Opened
  <2>5. q.pc = "saveToken" =>
          /\ refreshToken[q.token].state # "unused"
          /\ Belongs(q.owner, q.token)
          /\ q.joined \/ issuedTo[q.token] \in removed
    <3> SUFFICES ASSUME q.pc = "saveToken"
                 PROVE  /\ refreshToken[q.token].state # "unused"
                        /\ Belongs(q.owner, q.token)
                        /\ q.joined \/ issuedTo[q.token] \in removed
      OBVIOUS
    <3> DEFINE t == q.token
    <3>1. /\ t \in Tokens /\ Stored(t)
          /\ q.owner = refreshToken[t].owner
          /\ q.joined \/ ~OwnerExists(t)
      BY <2>3, <2>4 DEF HoldsOwners, WellFormed
    <3>2. issuedTo[t] \in Subjects /\ Belongs(q.owner, t)
      BY <3>1 DEF OwnersInv
    <3>3. ~OwnerExists(t) => issuedTo[t] \in removed
      BY <3>1, <3>2, NoneIsNotStored DEF OwnerExists, Belongs, OwnersInv
    <3> QED
      BY <3>1, <3>2, <3>3 DEF Stored
  <2>6. \A t \in q.collection : refreshToken[t].state # "unused" /\ issuedTo[t] = q.subject
    <3>1. q.collection \subseteq Tokens
      BY <2>4 DEF WellFormed, RequestRecord
    <3>2. q.collection # {} => q.subject # None
      BY <2>3, NoneIsNotStored DEF HoldsOwners
    <3> QED
      BY <2>3, <3>1, <3>2 DEF HoldsOwners, OwnersInv, Belongs, Stored
  <2> QED
    BY <2>2, <2>5, <2>6 DEF OwnersInv, Belongs, Stored, Exists
<1>2. ASSUME NEW r \in Requests, Reread(r) PROVE OwnersInv'
  BY <1>2, ContinueMovesOn, OwnersUntouched DEF Reread, MovesOn
<1>3. ASSUME NEW r \in Requests, PreloadEntity(r) PROVE OwnersInv'
  <2>1. CASE Exists(request[r].subject)
    BY <1>3, <1>a, <2>1, OwnersUntouched DEF PreloadEntity, RequestRecord
  <2>2. CASE ~Exists(request[r].subject)
    BY <1>3, <2>2, ContinueMovesOn, OwnersUntouched DEF PreloadEntity, MovesOn
  <2> QED
    BY <2>1, <2>2
<1>4. ASSUME NEW r \in Requests, SaveEntity(r) PROVE OwnersInv'
  <2> DEFINE s == request[r].subject
  <2>1. s \in Subjects /\ request[r].row["deleted"] = FALSE
    BY <1>4, <1>b DEF SaveEntity, WellFormed, Entity
  <2>2. account'[s]["deleted"] = FALSE
    BY <1>4, <1>a, <2>1, NoneIsNotStored DEF SaveEntity, Overlay, Columns
  <2>3. \A x \in Subjects : ~Exists(x)' => x \in removed'
    BY <1>4, <1>a, <2>1, <2>2 DEF SaveEntity, Exists, OwnersInv
  <2>4. MovesOn(r)
    BY <1>4, ContinueMovesOn DEF SaveEntity, AfterSave
  <2>5. \A t \in Tokens : Stored(t)' => Stored(t) /\ Belongs(refreshToken[t].owner, t)'
    BY <1>4 DEF SaveEntity, Stored, Belongs, OwnersInv
  <2> QED
    BY <1>4, <2>3, <2>4, <2>5, OwnersKept DEF SaveEntity, MovesOn
<1>5. ASSUME NEW r \in Requests, RevokeAllUserTokens(r) \/ RevokeAllAdminTokens(r)
      PROVE  OwnersInv'
  <2>1. PICK toks : RevokeAll(r, toks)
    BY <1>5 DEF RevokeAllUserTokens, RevokeAllAdminTokens
  <2>2. /\ \A t \in Tokens : /\ refreshToken'[t].state = refreshToken[t].state
                             /\ refreshToken'[t].owner = refreshToken[t].owner
        /\ UNCHANGED <<account, issuedTo, removed>>
    BY <1>a, <2>1 DEF RevokeAll, TokenRecord
  <2> QED
    BY <2>1, <2>2, RevokeAllMovesOn, OwnersUntouched DEF MovesOn
<1>6. ASSUME NEW r \in Requests, NEW t \in Tokens, GenerateRefreshToken(r, t)
      PROVE  OwnersInv'
  <2>1. /\ refreshToken[t].state = "unused"
        /\ refreshToken'[t].state = "stored"
        /\ refreshToken'[t].owner = request[r].subject
        /\ issuedTo'[t] = request[r].subject
        /\ request[r].subject \in Subjects
    BY <1>6, <1>a, <1>b DEF GenerateRefreshToken, Row, SetsOK, WellFormed
  <2>2. \A x \in Tokens \ {t} : /\ refreshToken'[x] = refreshToken[x]
                                /\ issuedTo'[x] = issuedTo[x]
    BY <1>6, <1>a DEF GenerateRefreshToken, SetsOK
  <2>3. UNCHANGED <<account, removed>> /\ MovesOn(r)
    BY <1>6, ContinueMovesOn DEF GenerateRefreshToken
  <2>4. \A q \in Requests : /\ request[q].pc = "saveToken" => request[q].token \in Tokens
                            /\ request[q].collection \subseteq Tokens
    BY <1>b DEF WellFormed, RequestRecord
  <2>5. ASSUME NEW x \in Tokens, Stored(x)'
        PROVE  issuedTo'[x] \in Subjects /\ Belongs(refreshToken[x].owner, x)'
    <3>1. CASE x = t
      BY <2>1, <3>1 DEF Belongs
    <3>2. CASE x # t
      <4>1. refreshToken'[x] = refreshToken[x] /\ issuedTo'[x] = issuedTo[x] /\ Stored(x)
        BY <2>2, <2>5, <3>2 DEF Stored
      <4> QED
        BY <2>3, <4>1 DEF OwnersInv, Belongs
    <3> QED
      BY <3>1, <3>2
  <2>6. ASSUME NEW q \in Requests, request'[q].pc = "saveToken"
        PROVE  /\ refreshToken'[request'[q].token].state # "unused"
               /\ Belongs(request[q].owner, request[q].token)'
               /\ request'[q].joined \/ issuedTo'[request'[q].token] \in removed'
    <3>1. request'[q] = request[q] /\ request[q].token \in Tokens \ {t}
      BY <2>1, <2>3, <2>4, <2>6 DEF MovesOn, OwnersInv
    <3> QED
      BY <2>2, <2>3, <2>6, <3>1 DEF OwnersInv, Belongs
  <2>7. ASSUME NEW q \in Requests, NEW x \in request'[q].collection
        PROVE  refreshToken'[x].state # "unused" /\ issuedTo'[x] = request'[q].subject
    <3>1. /\ request'[q].collection = request[q].collection
          /\ request'[q].subject = request[q].subject
      BY <2>3, <2>7 DEF MovesOn
    <3>2. x \in Tokens \ {t}
      BY <2>1, <2>4, <2>7, <3>1 DEF OwnersInv
    <3> QED
      BY <2>2, <2>7, <3>1, <3>2 DEF OwnersInv
  <2> QED
    BY <2>3, <2>5, <2>6, <2>7 DEF OwnersInv, Exists
<1>7. ASSUME NEW r \in Requests, SaveRevoked(r) PROVE OwnersInv'
  <2> DEFINE t == request[r].token
  <2>1. t \in Tokens /\ request[r].pc = "saveToken"
    BY <1>7, <1>b DEF SaveRevoked, WellFormed
  <2>2. /\ UNCHANGED <<account, issuedTo, removed>>
        /\ MovesOn(r)
    BY <1>7, ContinueMovesOn DEF SaveRevoked
  <2>3. CASE Stored(t)
    <3>1. Belongs(SavedOwner(r), t)
      BY <2>1, <2>3 DEF SavedOwner, OwnersInv, Belongs
    <3>2. \A x \in Tokens :
            /\ refreshToken'[x].state = refreshToken[x].state
            /\ refreshToken'[x].owner = IF x = t THEN SavedOwner(r) ELSE refreshToken[x].owner
      BY <1>7, <1>a, <2>1, <2>3 DEF SaveRevoked, TokenRecord
    <3>3. \A x \in Tokens : Stored(x)' => Stored(x) /\ Belongs(refreshToken[x].owner, x)'
      BY <2>2, <3>1, <3>2 DEF Stored, Belongs, OwnersInv
    <3>4. \A s \in Subjects : ~Exists(s)' => s \in removed'
      BY <2>2 DEF Exists, OwnersInv
    <3> QED
      BY <2>2, <3>2, <3>3, <3>4, OwnersKept DEF MovesOn
  <2>4. CASE ~Stored(t)
    BY <1>7, <2>2, <2>4, OwnersUntouched DEF SaveRevoked, MovesOn
  <2> QED
    BY <2>3, <2>4
<1>8. ASSUME NEW r \in Requests, SoftDeleteEntity(r) PROVE OwnersInv'
  <2> DEFINE s == request[r].subject
  <2>1. /\ s \in Subjects
        /\ removed' = removed \cup {s}
        /\ issuedTo' = issuedTo
        /\ MovesOn(r)
    BY <1>8, <1>b, ContinueMovesOn DEF SoftDeleteEntity, WellFormed
  <2>2. \A t \in Tokens :
          /\ refreshToken'[t].state = refreshToken[t].state
          /\ Stored(t) => refreshToken'[t].owner = SyncedOwner(r, t)
    BY <1>8, <1>a DEF SoftDeleteEntity, TokenRecord
  <2>3. ASSUME NEW t \in Tokens, Stored(t)
        PROVE  SyncedOwner(r, t) = issuedTo[t]
                 \/ (SyncedOwner(r, t) = None /\ issuedTo[t] \in removed \cup {s})
    <3>1. issuedTo[t] \in Subjects /\ Belongs(refreshToken[t].owner, t)
      BY <2>3 DEF OwnersInv
    <3>2. t \in request[r].collection => issuedTo[t] = s
      BY DEF OwnersInv
    <3> QED
      BY <2>1, <3>1, <3>2, NoneIsNotStored DEF SyncedOwner, Belongs
  <2>4. \A t \in Tokens : Stored(t)' => Stored(t) /\ Belongs(refreshToken[t].owner, t)'
    BY <2>1, <2>2, <2>3 DEF Stored, Belongs
  <2>5. \A x \in Subjects : ~Exists(x)' => x \in removed'
    BY <1>8, <1>a, <2>1 DEF SoftDeleteEntity, Exists, OwnersInv
  <2> QED
    BY <2>1, <2>2, <2>4, <2>5, OwnersKept DEF MovesOn
<1>9. ASSUME NEW t \in Tokens, GrowOld(t) PROVE OwnersInv'
  BY <1>9, <1>a, OwnersUntouched DEF GrowOld, TokenRecord
<1>10. ASSUME CleanupExpiredRefreshTokens PROVE OwnersInv'
  <2>1. \A t \in Tokens :
          /\ refreshToken[t].state # "unused" => refreshToken'[t].state # "unused"
          /\ Stored(t)' => Stored(t) /\ refreshToken'[t] = refreshToken[t]
    BY <1>10, <1>a DEF CleanupExpiredRefreshTokens, Stored, Row
  <2>2. \A t \in Tokens : Stored(t)' => Stored(t) /\ Belongs(refreshToken[t].owner, t)'
    BY <1>10, <2>1 DEF CleanupExpiredRefreshTokens, Belongs, OwnersInv
  <2>3. \A s \in Subjects : ~Exists(s)' => s \in removed'
    BY <1>10 DEF CleanupExpiredRefreshTokens, Exists, OwnersInv
  <2> QED
    BY <1>10, <2>1, <2>2, <2>3, OwnersKept DEF CleanupExpiredRefreshTokens
<1>11. CASE UNCHANGED vars
  BY <1>11, OwnersUntouched DEF vars
<1> QED
  BY <1>1, <1>2, <1>3, <1>4, <1>5, <1>6, <1>7, <1>8, <1>9, <1>10, <1>11 DEF Next, Step

LEMMA OwnersAlways == Spec => []OwnersInv
<1>1. Init => OwnersInv
  BY DEF Init, OwnersInv, Idle, Stored, Row
<1> QED
  BY <1>1, TypeInit, TypeNext, OwnersNext, PTL DEF Spec

\* A token is its login's account's, or nobody's once that account was deleted.
THEOREM OwnersAreKept == Spec => []TokensKeepOwners
<1>1. OwnersInv => TokensKeepOwners
  BY DEF OwnersInv, TokensKeepOwners, Belongs
<1> QED
  BY <1>1, OwnersAlways, PTL

-----------------------------------------------------------------------------
(* How sessions end. *)

\* r moves, called for the account of t or with t.
MovesFor(r, t) ==
    /\ request'[r] # request[r]
    /\ request[r].subject = refreshToken[t].owner \/ request[r].token = t

\* A token keeps whether it is refreshable with its row and its owner's.
LEMMA RefreshableStays ==
    ASSUME NEW t, Refreshable(t), refreshToken'[t] = refreshToken[t],
           account'[refreshToken[t].owner] = account[refreshToken[t].owner]
    PROVE  Refreshable(t)'
  BY DEF Refreshable, Stored, OwnerExists, Exists

LEMMA SessionEnds ==
    ASSUME TypeInv, OwnersInv, [Next]_vars, NEW t \in Tokens, Refreshable(t),
           ~Refreshable(t)'
    PROVE  refreshToken'[t].age = "expired" \/ \E r \in Requests : MovesFor(r, t)
<1> DEFINE s == refreshToken[t].owner
<1>a. /\ request \in [Requests -> RequestRecord]
      /\ refreshToken \in [Tokens -> TokenRecord]
      /\ account \in [Subjects -> [Columns -> Value]]
      /\ Stored(t) /\ s \in Subjects /\ s # None
  BY DEF TypeInv, RequestsOK, TokensOK, AccountsOK, Refreshable, OwnerExists, TokenRecord
<1>b. refreshToken'[t] # refreshToken[t] \/ account'[s] # account[s]
  BY RefreshableStays
<1>1. ASSUME NEW r \in Requests, Call(r) PROVE FALSE
  BY <1>1, <1>b, CallOpens, TypeInvTypes DEF Opened
<1>2. ASSUME NEW r \in Requests, Reread(r) \/ PreloadEntity(r) PROVE FALSE
  BY <1>2, <1>b DEF Reread, PreloadEntity
<1>c. ASSUME NEW r \in Requests, NEW pc, Continue(r, pc), pc # request[r].pc
      PROVE  request'[r] # request[r]
  <2>1. request'[r].pc = pc
    BY <1>a, <1>c DEF Continue, Idle, RequestRecord
  <2> QED
    BY <1>c, <2>1
<1>3. ASSUME NEW r \in Requests, SaveEntity(r) PROVE MovesFor(r, t)
  <2>1. request[r].subject = s
    BY <1>3, <1>a, <1>b DEF SaveEntity
  <2>2. request'[r] # request[r]
    BY <1>3, <1>c DEF SaveEntity, AfterSave
  <2> QED
    BY <2>1, <2>2 DEF MovesFor
<1>4. ASSUME NEW r \in Requests, NEW toks \in SUBSET TokensOf(request[r].subject),
             request[r].pc = "revokeAll", RevokeAll(r, toks)
      PROVE  MovesFor(r, t)
  <2>1. account' = account /\ (t \notin toks => refreshToken'[t] = refreshToken[t])
    BY <1>4 DEF RevokeAll
  <2>2. t \in TokensOf(request[r].subject)
    BY <1>4, <1>b, <2>1
  <2>3. request[r].subject = s
    BY <2>2 DEF TokensOf
  <2>4. request'[r] # request[r]
    <3>1. CASE AfterRevokeAll(request[r].op) = "idle"
      BY <1>4, <1>a, <3>1 DEF RevokeAll, Idle
    <3>2. CASE AfterRevokeAll(request[r].op) # "idle"
      <4>1. request'[r].pc = AfterRevokeAll(request[r].op)
        BY <1>4, <1>a, <3>2 DEF RevokeAll, RequestRecord
      <4> QED
        BY <1>4, <4>1 DEF AfterRevokeAll
    <3> QED
      BY <3>1, <3>2
  <2> QED
    BY <2>3, <2>4 DEF MovesFor
<1>5. ASSUME NEW r \in Requests, RevokeAllUserTokens(r) \/ RevokeAllAdminTokens(r)
      PROVE  MovesFor(r, t)
  BY <1>4, <1>5 DEF RevokeAllUserTokens, RevokeAllAdminTokens
<1>6. ASSUME NEW r \in Requests, NEW x \in Tokens, GenerateRefreshToken(r, x) PROVE FALSE
  BY <1>6, <1>a, <1>b DEF GenerateRefreshToken, Stored
<1>7. ASSUME NEW r \in Requests, SaveRevoked(r) PROVE MovesFor(r, t)
  <2>1. request[r].token = t
    BY <1>7, <1>a, <1>b DEF SaveRevoked
  <2>2. request'[r] # request[r]
    BY <1>7, <1>c DEF SaveRevoked
  <2> QED
    BY <2>1, <2>2 DEF MovesFor
<1>8. ASSUME NEW r \in Requests, SoftDeleteEntity(r) PROVE MovesFor(r, t)
  <2>1. request[r].subject = s
    <3> SUFFICES ASSUME request[r].subject # s PROVE FALSE
      OBVIOUS
    <3>1. account'[s] = account[s]
      BY <1>8, <1>a DEF SoftDeleteEntity
    <3>2. SyncedOwner(r, t) = s
      BY <1>a DEF SyncedOwner, OwnersInv, Belongs
    <3>3. refreshToken'[t] = refreshToken[t]
      BY <1>8, <1>a, <3>2 DEF SoftDeleteEntity, TokenRecord
    <3> QED
      BY <1>b, <3>1, <3>3
  <2>2. request'[r] # request[r]
    BY <1>8, <1>c DEF SoftDeleteEntity
  <2> QED
    BY <2>1, <2>2 DEF MovesFor
<1>9. ASSUME NEW x \in Tokens, GrowOld(x) PROVE refreshToken'[t].age = "expired"
  <2>1. CASE refreshToken[x].age = "fresh"
    <3>1. Refreshable(t)'
      BY <1>9, <1>a, <2>1 DEF GrowOld, Refreshable, Stored, OwnerExists, Exists, TokenRecord
    <3> QED
      BY <3>1
  <2>2. CASE refreshToken[x].age # "fresh"
    BY <1>9, <1>a, <1>b, <2>2 DEF GrowOld, TokenRecord
  <2> QED
    BY <2>1, <2>2
<1>10. ASSUME CleanupExpiredRefreshTokens PROVE FALSE
  BY <1>10, <1>a, <1>b DEF CleanupExpiredRefreshTokens, Purgeable, Refreshable
<1>11. CASE UNCHANGED vars
  BY <1>11, <1>b DEF vars
<1> QED
  BY <1>1, <1>2, <1>3, <1>5, <1>6, <1>7, <1>8, <1>9, <1>10, <1>11 DEF Next, Step

\* Whoever is signed in stays so until the session expires or a handler moves that
\* was called for his account or with his token; the cron is no such handler.
THEOREM SessionsEndByTheirOwn == Spec => SessionsEndForAReason
<1>1. TypeInv /\ OwnersInv /\ [Next]_vars
        => [\A t \in Tokens : Refreshable(t) /\ ~Refreshable(t)' =>
              \/ refreshToken'[t].age = "expired"
              \/ \E r \in Requests :
                   /\ request'[r] # request[r]
                   /\ \/ request[r].subject = refreshToken[t].owner
                      \/ request[r].token = t]_vars
  BY SessionEnds DEF MovesFor
<1> QED
  BY <1>1, TypeInit, TypeNext, OwnersAlways, PTL DEF Spec, SessionsEndForAReason

-----------------------------------------------------------------------------
(* The texts of tokens. *)

\* What a handler carries: a login the text of its account; a logout one of its
\* caller, which the row it is about to revoke has, or one that it has revoked.
Claim(r) ==
    /\ request[r].pc = "issue" =>
         carried[r] \in Text /\ carried[r].sub = request[r].subject
    /\ request[r].op = "logout" =>
         /\ request[r].pc \in {"saveToken", "revokeAll"}
         /\ carried[r] # None =>
              /\ carried[r].sub = request[r].subject
              /\ request[r].pc = "saveToken" =>
                   /\ refreshToken[request[r].token].state # "unused"
                   /\ tokenText[request[r].token] = carried[r]
              /\ request[r].pc = "revokeAll" =>
                   \E t \in ended : tokenText[t] = carried[r]

\* A row holds a text of the account it was issued to, and a text that account
\* logged out with is dead in it, or has another row.
RowText(t) ==
    /\ refreshToken[t].state = "unused" => tokenText[t] = None
    /\ Stored(t) => tokenText[t] \in Text /\ tokenText[t].sub = issuedTo[t]
    /\ Stored(t) /\ ~refreshToken[t].isRevoked /\ tokenText[t] \in loggedOut =>
         /\ issuedTo[t] \in Admins \cup removed
         /\ \E twin \in Tokens \ {t} : tokenText[twin] = tokenText[t]

TextTypeInv ==
    /\ now \in Nat
    /\ tokenText \in [Tokens -> Text \cup {None}]
    /\ carried \in [Requests -> Text \cup {None}]

TextInv ==
    /\ TextTypeInv
    /\ \A r \in Requests : Claim(r)
    /\ \A t \in Tokens : RowText(t)

\* A step that revokes or deletes rows, if any, and issues none.
Spares ==
    /\ \A t \in Tokens : Stored(t)' =>
         /\ Stored(t)
         /\ refreshToken[t].isRevoked => refreshToken'[t].isRevoked
    /\ issuedTo' = issuedTo /\ removed \subseteq removed'
    /\ \A t \in Tokens : refreshToken[t].state # "unused" => refreshToken'[t].state # "unused"
    /\ ended \subseteq ended'

LEMMA RowTextKept ==
    ASSUME TextInv, Spares, tokenText' = tokenText, loggedOut' = loggedOut,
           NEW t \in Tokens
    PROVE  RowText(t)'
  BY DEF TextInv, RowText, Spares

\* A handler that takes no step.
LEMMA ClaimKept ==
    ASSUME NEW r \in Requests, TypeInv, Claim(r),
           request'[r] = request[r], carried'[r] = carried[r],
           \A t \in Tokens : refreshToken[t].state # "unused" =>
               refreshToken'[t].state # "unused" /\ tokenText'[t] = tokenText[t],
           \A t \in ended : refreshToken[t].state # "unused",
           ended \subseteq ended'
    PROVE  Claim(r)'
<1>1. /\ request[r].pc = "saveToken" => request[r].token \in Tokens
      /\ ended \subseteq Tokens
  BY DEF TypeInv, RequestsOK, WellFormed, SetsOK
<1> QED
  BY <1>1 DEF Claim

LEMMA TextsTyped ==
    ASSUME TypeInv, TextTypeInv, NEW r \in Requests, Carry(r), StoreText(r),
           request[r].pc # "issue" /\ request'[r].pc = "issue"
               => request[r].subject \in Subjects,
           request'[r].token \in Tokens \cup {None}
    PROVE  /\ tokenText' \in [Tokens -> Text \cup {None}]
           /\ carried' \in [Requests -> Text \cup {None}]
           /\ \A q \in Requests \ {r} : carried'[q] = carried[q]
           /\ \A t \in Tokens : refreshToken[t].state # "unused" => tokenText'[t] = tokenText[t]
<1>1. tokenText' \in [Tokens -> Text \cup {None}]
  BY DEF TextTypeInv, StoreText
<1>2. Signs(r) => Signed(r) \in Text
  BY DEF TextTypeInv, Signs, Signed, Text
<1>3. Presented(r) \in Text \cup {None}
  BY DEF TextTypeInv, Presented
<1>4. carried' \in [Requests -> Text \cup {None}]
  BY <1>2, <1>3 DEF TextTypeInv, Carry
<1> QED
  BY <1>1, <1>4 DEF TextTypeInv, Carry, StoreText, Issued

\* A step of r that issues no token and ends no logout.
LEMMA TextMove ==
    ASSUME TypeInv, EndedInv, TextInv, NEW r \in Requests, Carry(r), StoreText(r),
           Observe(r), now' = now, Spares, Issued = {}, ~LogsOut(r),
           \A q \in Requests \ {r} : request'[q] = request[q],
           request[r].pc # "issue" /\ request'[r].pc = "issue"
               => request[r].subject \in Subjects,
           request'[r].token \in Tokens \cup {None},
           Claim(r)'
    PROVE  TextInv'
<1>1. tokenText' = tokenText /\ loggedOut' = loggedOut
  BY DEF StoreText, Observe, TextInv, TextTypeInv
<1>2. /\ TextTypeInv'
      /\ \A q \in Requests \ {r} : carried'[q] = carried[q]
  BY TextsTyped DEF TextInv, TextTypeInv
<1>3. \A t \in Tokens : RowText(t)'
  BY <1>1, RowTextKept
<1>4. ASSUME NEW q \in Requests PROVE Claim(q)'
  <2>1. CASE q = r
    BY <2>1
  <2>2. CASE q # r
    BY <1>1, <1>2, <2>2, ClaimKept DEF TextInv, EndedInv, Spares
  <2> QED
    BY <2>1, <2>2
<1> QED
  BY <1>2, <1>3, <1>4 DEF TextInv

\* How a handler starts.
Starts(r) ==
    /\ request[r].pc = "idle"
    /\ request'[r].pc # "issue"
    /\ request'[r].op = "logout" =>
         /\ request'[r].pc \in {"saveToken", "revokeAll"}
         /\ request'[r].pc = "saveToken" =>
              request'[r].token \in Tokens /\ Stored(request'[r].token)
         /\ request'[r].pc = "revokeAll" => request'[r].token = None

LEMMA CallStarts ==
    ASSUME TypeInv, NEW r \in Requests, Call(r)
    PROVE  Starts(r)
<1>0. r \in DOMAIN request
  BY DEF TypeInv, RequestsOK
<1>a. ASSUME NEW op, NEW pc, pc # "issue", op = "logout" => pc = "revokeAll",
             NEW s, NEW row, NEW dto, Begin(r, op, pc, s, row, dto)
      PROVE  Starts(r)
  BY <1>0, <1>a DEF Begin, Open, Idle, Starts
<1>1. ASSUME NEW u \in Users,
             \/ UserLogin(r, u) \/ HandleOAuthLogin(r, u) \/ AppUpdate(r, u)
             \/ \E h \in Passwords : UserResetPassword(r, u, h)
      PROVE  Starts(r)
  BY <1>1, <1>a DEF UserLogin, HandleOAuthLogin, AppUpdate, UserResetPassword
<1>8. ASSUME NEW u \in Users, DeleteProfile(r, u) PROVE Starts(r)
  BY <1>0, <1>8 DEF DeleteProfile, Open, Idle, Starts
<1>2. ASSUME NEW a \in Admins, AdminLogin(r, a) PROVE Starts(r)
  BY <1>2, <1>a DEF AdminLogin
<1>3. ASSUME NEW s \in Subjects,
             \E h \in Passwords : ChangePassword(r, s, h) \/ ResetPassword(r, s, h)
      PROVE  Starts(r)
  BY <1>3, <1>a DEF ChangePassword, ResetPassword
<1>4. ASSUME NEW s \in Subjects, NEW dto, Update(r, s, dto) \/ UpdateProfile(r, s, dto)
      PROVE  Starts(r)
  BY <1>4, <1>a DEF Update, UpdateProfile
<1>5. ASSUME NEW s \in Subjects, Remove(r, s) PROVE Starts(r)
  BY <1>5, <1>a DEF Remove
<1>6. ASSUME NEW s \in Subjects, NEW t \in Tokens, Logout(r, s, t) PROVE Starts(r)
  <2>1. CASE Begin(r, "logout", "revokeAll", s, None, Nothing)
    BY <2>1, <1>a
  <2>2. CASE ~Begin(r, "logout", "revokeAll", s, None, Nothing)
    BY <1>0, <1>6, <2>2 DEF Logout, Open, Idle, Starts
  <2> QED
    BY <2>1, <2>2
<1>7. ASSUME NEW t \in Tokens, RefreshExpired(r, t) PROVE Starts(r)
  BY <1>0, <1>7 DEF RefreshExpired, Open, Idle, Starts
<1> QED
  BY <1>1, <1>2, <1>3, <1>4, <1>5, <1>6, <1>7, <1>8 DEF Call

LEMMA TextCall ==
    ASSUME TypeInv, TypeInv', EndedInv, TextInv, NEW r \in Requests, Call(r),
           Carry(r), StoreText(r), Observe(r), now' = now
    PROVE  TextInv'
<1>1. PICK q : Opened(r, q)
  BY CallOpens, TypeInvTypes
<1>2. /\ \A p \in Requests \ {r} : request'[p] = request[p]
      /\ refreshToken' = refreshToken /\ ended' = ended
  BY <1>1 DEF Opened, TypeInv, RequestsOK
<1>3. Starts(r)
  BY CallStarts
<1>4. /\ Issued = {}
      /\ Spares
  BY <1>1, <1>2 DEF Opened, Issued, Spares, Stored
<1>5. request[r].op # "logout"
  BY <1>3 DEF Starts, TextInv, Claim
<1>6. request'[r].token \in Tokens \cup {None} /\ request'[r].subject \in Subjects \cup {None}
  BY DEF TypeInv, RequestsOK, RequestRecord
<1>7. Claim(r)'
  <2>1. CASE request'[r].op = "logout"
    <3>1. carried'[r] = Presented(r)
      BY <1>3, <1>5, <2>1 DEF Carry, Signs, Presents, Starts, TextInv, TextTypeInv
    <3>2. CASE request'[r].pc = "saveToken"
      <4> DEFINE t == request'[r].token
      <4>1. /\ t \in Tokens /\ t # None
            /\ Stored(t)
        BY <1>3, <2>1, <3>2, NoneIsNotStored DEF Starts
      <4>2. carried'[r] # None =>
              carried'[r] = tokenText[t] /\ tokenText[t].sub = request'[r].subject
        BY <3>1, <4>1 DEF Presented
      <4>3. tokenText' = tokenText
        BY <1>4 DEF StoreText, TextInv, TextTypeInv
      <4> QED
        BY <1>2, <3>2, <4>1, <4>2, <4>3 DEF Claim, Stored
    <3>3. CASE request'[r].pc = "revokeAll"
      BY <1>3, <2>1, <3>1, <3>3 DEF Claim, Presented, Starts
    <3> QED
      BY <1>3, <2>1, <3>2, <3>3 DEF Starts
  <2>2. CASE request'[r].op # "logout"
    BY <1>3, <2>2 DEF Claim, Starts
  <2> QED
    BY <2>1, <2>2
<1> QED
  BY <1>2, <1>3, <1>4, <1>5, <1>6, <1>7, TextMove DEF LogsOut, Starts

LEMMA ContinueText ==
    ASSUME TypeInv, NEW r \in Requests, NEW pc, Continue(r, pc)
    PROVE  /\ \A p \in Requests \ {r} : request'[p] = request[p]
           /\ pc = "idle" => request'[r] = Idle
           /\ pc # "idle" => /\ request'[r].pc = pc
                             /\ request'[r].op = request[r].op
                             /\ request'[r].subject = request[r].subject
<1>1. request \in [Requests -> RequestRecord]
  BY DEF TypeInv, RequestsOK
<1>2. CASE pc = "idle"
  BY <1>1, <1>2 DEF Continue
<1>3. CASE pc # "idle"
  <2>1. request' = [request EXCEPT ![r] =
            [@ EXCEPT !.pc = pc, !.row = None, !.dto = Nothing, !.token = None,
                      !.owner = None, !.joined = FALSE]]
    BY <1>3 DEF Continue
  <2> QED
    BY <1>1, <1>3, <2>1 DEF RequestRecord
<1> QED
  BY <1>2, <1>3

\* The steps that issue and revoke no token.
LEMMA TextAccount ==
    ASSUME TypeInv, TypeInv', EndedInv, TextInv, NEW r \in Requests,
           Reread(r) \/ PreloadEntity(r) \/ SaveEntity(r) \/ SoftDeleteEntity(r),
           Carry(r), StoreText(r), Observe(r), now' = now
    PROVE  TextInv'
<1>0. request \in [Requests -> RequestRecord]
  BY DEF TypeInv, RequestsOK
<1>1. /\ \A p \in Requests \ {r} : request'[p] = request[p]
      /\ request[r].pc \in {"reread", "preload", "save", "softDelete"}
      /\ request'[r].pc \in {"idle", "save", "revokeAll"}
      /\ request'[r].op \in {request[r].op, "none"}
  <2>1. CASE Reread(r)
    BY <2>1, ContinueText DEF Reread, Idle
  <2>2. CASE PreloadEntity(r)
    <3>1. CASE Exists(request[r].subject)
      BY <1>0, <2>2, <3>1 DEF PreloadEntity, RequestRecord
    <3>2. CASE ~Exists(request[r].subject)
      BY <2>2, <3>2, ContinueText DEF PreloadEntity, Idle
    <3> QED
      BY <3>1, <3>2
  <2>3. CASE SaveEntity(r)
    BY <2>3, ContinueText DEF SaveEntity, AfterSave, Idle
  <2>4. CASE SoftDeleteEntity(r)
    BY <2>4, ContinueText DEF SoftDeleteEntity, Idle
  <2> QED
    BY <2>1, <2>2, <2>3, <2>4
<1>2. Issued = {} /\ Spares
  <2>1. \A t \in Tokens : /\ refreshToken'[t].state = refreshToken[t].state
                          /\ refreshToken'[t].isRevoked = refreshToken[t].isRevoked
    BY DEF Reread, PreloadEntity, SaveEntity, SoftDeleteEntity, TypeInv, TokensOK, TokenRecord
  <2>2. UNCHANGED <<ended, issuedTo>> /\ removed \subseteq removed'
    BY DEF Reread, PreloadEntity, SaveEntity, SoftDeleteEntity
  <2> QED
    BY <2>1, <2>2 DEF Issued, Spares, Stored
<1>3. request[r].op # "logout"
  BY <1>1 DEF TextInv, Claim
<1>4. Claim(r)'
  BY <1>1, <1>3 DEF Claim
<1>5. request'[r].token \in Tokens \cup {None}
  BY DEF TypeInv, RequestsOK, RequestRecord
<1> QED
  BY <1>1, <1>2, <1>3, <1>4, <1>5, TextMove DEF LogsOut

LEMMA TextSaveRevoked ==
    ASSUME TypeInv, TypeInv', EndedInv, TextInv, NEW r \in Requests, SaveRevoked(r),
           Carry(r), StoreText(r), Observe(r), now' = now
    PROVE  TextInv'
<1> DEFINE t == request[r].token
<1>0. /\ request \in [Requests -> RequestRecord]
      /\ refreshToken \in [Tokens -> TokenRecord]
      /\ request[r].pc = "saveToken" /\ t \in Tokens
  BY DEF TypeInv, RequestsOK, TokensOK, WellFormed, SaveRevoked
<1>1. /\ \A p \in Requests \ {r} : request'[p] = request[p]
      /\ request'[r].pc \in {"idle", "revokeAll"}
      /\ request'[r].op \in {request[r].op, "none"}
      /\ request'[r].op # "none" => request'[r].subject = request[r].subject
  BY <1>0, ContinueText DEF SaveRevoked, Idle
<1>2. /\ \A x \in Tokens : /\ refreshToken'[x].state = refreshToken[x].state
                           /\ refreshToken[x].isRevoked => refreshToken'[x].isRevoked
      /\ UNCHANGED <<issuedTo, removed>>
      /\ ended \subseteq ended'
      /\ Stored(t) => t \in ended'
  BY <1>0 DEF SaveRevoked, TokenRecord
<1>3. Issued = {} /\ Spares
  BY <1>2 DEF Issued, Spares, Stored
<1>4. tokenText' = tokenText
  BY <1>3 DEF StoreText, TextInv, TextTypeInv
<1>5. ~LogsOut(r)
  <2>1. CASE Stored(t) /\ request[r].op = "logout"
    <3>1. request'[r].pc = "revokeAll"
      BY <1>0, <2>1, ContinueText DEF SaveRevoked
    <3> QED
      BY <3>1 DEF LogsOut, Idle
  <2> QED
    BY <1>0, <2>1 DEF LogsOut
<1>6. Claim(r)'
  <2> SUFFICES ASSUME request'[r].op = "logout" PROVE Claim(r)'
    BY <1>1 DEF Claim
  <2>1. /\ request[r].op = "logout"
        /\ request'[r].pc = "revokeAll"
        /\ Stored(t)
        /\ request'[r].subject = request[r].subject
    BY <1>0, <1>1, ContinueText DEF SaveRevoked, Idle
  <2>2. carried'[r] = carried[r]
    BY <1>0, <2>1 DEF Carry, Signs, Presents, TextInv, TextTypeInv
  <2>3. carried[r] # None =>
          carried[r].sub = request[r].subject /\ tokenText[t] = carried[r]
    BY <1>0, <2>1 DEF TextInv, Claim
  <2> QED
    BY <1>2, <1>4, <2>1, <2>2, <2>3 DEF Claim
<1>7. request'[r].token \in Tokens \cup {None}
  BY DEF TypeInv, RequestsOK, RequestRecord
<1> QED
  BY <1>1, <1>3, <1>5, <1>6, <1>7, TextMove

LEMMA TextGenerate ==
    ASSUME TypeInv, TypeInv', EndedInv, TextInv, NEW r \in Requests, NEW t \in Tokens,
           GenerateRefreshToken(r, t),
           Carry(r), StoreText(r), Observe(r), now' = now
    PROVE  TextInv'
<1>0. /\ request \in [Requests -> RequestRecord]
      /\ refreshToken \in [Tokens -> TokenRecord]
      /\ request[r].pc = "issue" /\ request[r].subject \in Subjects
      /\ carried[r] \in Text /\ carried[r].sub = request[r].subject
  BY DEF TypeInv, RequestsOK, TokensOK, WellFormed, GenerateRefreshToken, TextInv, Claim
<1>1. /\ \A p \in Requests \ {r} : request'[p] = request[p]
      /\ request'[r] = Idle
      /\ ended' = ended
  BY <1>0 DEF GenerateRefreshToken, Continue
<1>2. /\ refreshToken[t].state = "unused"
      /\ refreshToken'[t] = Row("stored", request[r].subject)
      /\ \A x \in Tokens \ {t} : refreshToken'[x] = refreshToken[x]
      /\ issuedTo' = [issuedTo EXCEPT ![t] = request[r].subject]
      /\ removed' = removed
  BY <1>0 DEF GenerateRefreshToken
<1>3. Issued = {t}
  BY <1>2 DEF Issued, Stored, Row
<1>4. /\ tokenText' = [tokenText EXCEPT ![t] = carried[r]]
      /\ loggedOut' = loggedOut \ {carried[r]}
  <2>1. request[r].op # "logout"
    BY <1>0 DEF TextInv, Claim
  <2> QED
    BY <1>3, <2>1 DEF StoreText, Observe, LogsOut, TextInv, TextTypeInv
<1>5. /\ TextTypeInv'
      /\ \A q \in Requests \ {r} : carried'[q] = carried[q]
      /\ \A x \in Tokens : refreshToken[x].state # "unused" => tokenText'[x] = tokenText[x]
  BY <1>1, TextsTyped DEF TextInv, TextTypeInv, Idle
<1>6. ASSUME NEW q \in Requests PROVE Claim(q)'
  <2>1. CASE q = r
    BY <1>1, <2>1 DEF Claim, Idle
  <2>2. CASE q # r
    BY <1>1, <1>2, <1>5, <2>2, ClaimKept DEF TextInv, EndedInv
  <2> QED
    BY <2>1, <2>2
<1>7. ASSUME NEW x \in Tokens PROVE RowText(x)'
  <2>1. CASE x = t
    <3>1. tokenText'[x] = carried[r]
      BY <1>4, <2>1 DEF TextInv, TextTypeInv
    <3> QED
      BY <1>0, <1>2, <1>4, <2>1, <3>1 DEF RowText, Row, TypeInv, SetsOK
  <2>2. CASE x # t
    <3>1. /\ refreshToken'[x] = refreshToken[x]
          /\ tokenText'[x] = tokenText[x]
          /\ issuedTo'[x] = issuedTo[x]
          /\ RowText(x)
      BY <1>2, <1>4, <2>2 DEF TextInv, TextTypeInv, TypeInv, SetsOK
    <3>2. tokenText[t] = None
      BY <1>2 DEF TextInv, RowText
    <3>3. ASSUME NEW twin \in Tokens \ {x}, Stored(x), tokenText[twin] = tokenText[x]
          PROVE  tokenText'[twin] = tokenText'[x]
      BY <1>4, <3>1, <3>2, <3>3, NoneIsNoText DEF TextInv, TextTypeInv, RowText
    <3>4. loggedOut' \subseteq loggedOut
      BY <1>4
    <3> QED
      BY <1>2, <3>1, <3>3, <3>4 DEF RowText, Stored
  <2> QED
    BY <2>1, <2>2
<1> QED
  BY <1>5, <1>6, <1>7 DEF TextInv

\* What revokeAllUserTokens and revokeAllAdminTokens do to the rows.
LEMMA RevokeAllSpares ==
    ASSUME TypeInv, NEW r \in Requests, NEW toks, RevokeAll(r, toks)
    PROVE  /\ Spares
           /\ Issued = {}
           /\ \A t \in toks \cap Tokens : refreshToken'[t].isRevoked
           /\ \A p \in Requests \ {r} : request'[p] = request[p]
           /\ LET pc == AfterRevokeAll(request[r].op)
              IN  IF pc = "idle" THEN request'[r] = Idle
                  ELSE /\ request'[r].pc = pc
                       /\ request'[r].op = request[r].op
                       /\ request'[r].subject = request[r].subject
<1>1. /\ refreshToken \in [Tokens -> TokenRecord]
      /\ request \in [Requests -> RequestRecord]
  BY DEF TypeInv, TokensOK, RequestsOK
<1>2. \A t \in Tokens : /\ refreshToken'[t].state = refreshToken[t].state
                        /\ refreshToken[t].isRevoked => refreshToken'[t].isRevoked
                        /\ t \in toks => refreshToken'[t].isRevoked
  BY <1>1 DEF RevokeAll, TokenRecord
<1>3. ended \subseteq ended' /\ UNCHANGED <<issuedTo, removed>>
  BY DEF RevokeAll
<1>4. AfterRevokeAll(request[r].op) = "idle" => request'[r] = Idle
  BY <1>1 DEF RevokeAll
<1>5. AfterRevokeAll(request[r].op) # "idle" =>
         /\ request'[r].pc = AfterRevokeAll(request[r].op)
         /\ request'[r].op = request[r].op
         /\ request'[r].subject = request[r].subject
  BY <1>1 DEF RevokeAll, RequestRecord
<1>6. \A p \in Requests \ {r} : request'[p] = request[p]
  BY <1>1 DEF RevokeAll
<1> QED
  BY <1>2, <1>3, <1>4, <1>5, <1>6 DEF Spares, Issued, Stored

\* A logout ends: the text it was sent is dead in the rows of a user, and, if it
\* is an admin's, in one row at least.
LEMMA TextLogout ==
    ASSUME TypeInv, TypeInv', EndedInv, OwnersInv, TextInv, NEW r \in Requests,
           RevokeAllUserTokens(r), request[r].op = "logout",
           Carry(r), StoreText(r), Observe(r), now' = now
    PROVE  TextInv'
<1> DEFINE s == request[r].subject
           toks == IF s \in Users THEN TokensOf(s) ELSE {}
<1>1. RevokeAll(r, toks) /\ s \in Subjects /\ request[r].pc = "revokeAll"
  BY DEF RevokeAllUserTokens, TypeInv, RequestsOK, WellFormed
<1>2. /\ request'[r] = Idle
      /\ \A p \in Requests \ {r} : request'[p] = request[p]
      /\ Spares
      /\ Issued = {}
      /\ \A t \in toks \cap Tokens : refreshToken'[t].isRevoked
  BY <1>1, RevokeAllSpares DEF AfterRevokeAll
<1>3. /\ tokenText' = tokenText
      /\ loggedOut' = loggedOut \cup ({carried[r]} \ {None})
  BY <1>1, <1>2 DEF StoreText, Observe, LogsOut, TextInv, TextTypeInv
<1>4. /\ TextTypeInv'
      /\ \A q \in Requests \ {r} : carried'[q] = carried[q]
  BY <1>2, TextsTyped DEF TextInv, TextTypeInv, Idle
<1>5. ASSUME NEW q \in Requests PROVE Claim(q)'
  <2>1. CASE q = r
    BY <1>2, <2>1 DEF Claim, Idle
  <2>2. CASE q # r
    BY <1>2, <1>3, <1>4, <2>2, ClaimKept DEF TextInv, EndedInv, Spares
  <2> QED
    BY <2>1, <2>2
<1>6. ASSUME NEW t \in Tokens PROVE RowText(t)'
  <2>1. /\ RowText(t)
        /\ refreshToken[t].state # "unused" => refreshToken'[t].state # "unused"
        /\ Stored(t)' => /\ Stored(t)
                         /\ refreshToken[t].isRevoked => refreshToken'[t].isRevoked
        /\ issuedTo' = issuedTo /\ removed \subseteq removed'
    BY <1>2 DEF Spares, TextInv
  <2>2. ASSUME Stored(t)', ~refreshToken'[t].isRevoked, tokenText[t] = carried[r],
               carried[r] # None
        PROVE  /\ issuedTo[t] \in Admins \cup removed
               /\ \E twin \in Tokens \ {t} : tokenText[twin] = tokenText[t]
    <3>1. issuedTo[t] = s
      BY <1>1, <2>1, <2>2 DEF TextInv, Claim, RowText
    <3>2. s \in Admins \cup removed
      <4>1. t \notin toks
        BY <1>2, <2>2
      <4>2. refreshToken[t].owner = s \/ s \in removed
        BY <2>1, <2>2, <3>1 DEF OwnersInv, Belongs
      <4> QED
        BY <1>1, <2>1, <2>2, <4>1, <4>2 DEF TokensOf, Subjects
    <3>3. PICK twin \in ended : tokenText[twin] = carried[r]
      BY <1>1, <2>2 DEF TextInv, Claim
    <3>4. twin \in Tokens /\ twin # t
      BY <2>1, <2>2 DEF TypeInv, SetsOK, EndedInv
    <3> QED
      BY <2>2, <3>1, <3>2, <3>3, <3>4
  <2> QED
    BY <1>3, <2>1, <2>2 DEF RowText
<1> QED
  BY <1>4, <1>5, <1>6 DEF TextInv

LEMMA TextRevokeAll ==
    ASSUME TypeInv, TypeInv', EndedInv, TextInv, NEW r \in Requests,
           RevokeAllUserTokens(r) \/ RevokeAllAdminTokens(r), request[r].op # "logout",
           Carry(r), StoreText(r), Observe(r), now' = now
    PROVE  TextInv'
<1>1. PICK toks : RevokeAll(r, toks)
  BY DEF RevokeAllUserTokens, RevokeAllAdminTokens
<1>2. request[r].pc = "revokeAll" /\ request[r].subject \in Subjects
  BY DEF RevokeAllUserTokens, RevokeAllAdminTokens, TypeInv, RequestsOK, WellFormed
<1>3. /\ Spares
      /\ Issued = {}
      /\ \A p \in Requests \ {r} : request'[p] = request[p]
      /\ request'[r].op # "logout"
      /\ request'[r].pc = "issue" => request'[r].subject = request[r].subject
  BY <1>1, RevokeAllSpares DEF Idle
<1>4. Claim(r)'
  <2>1. ASSUME request'[r].pc = "issue"
        PROVE  carried'[r] \in Text /\ carried'[r].sub = request'[r].subject
    <3>1. carried'[r] = [sub |-> request[r].subject, iat |-> now]
      BY <1>2, <2>1 DEF Carry, Signs, Signed, TextInv, TextTypeInv
    <3> QED
      BY <1>2, <1>3, <2>1, <3>1 DEF Text, TextInv, TextTypeInv
  <2> QED
    BY <1>3, <2>1 DEF Claim
<1>5. request'[r].token \in Tokens \cup {None}
  BY DEF TypeInv, RequestsOK, RequestRecord
<1> QED
  BY <1>2, <1>3, <1>4, <1>5, TextMove DEF LogsOut

\* Time passes, or the cron deletes rows.
LEMMA TextTime ==
    ASSUME TypeInv, EndedInv, TextInv, Spares, now' \in Nat,
           UNCHANGED <<request, tokenText, carried, loggedOut>>
    PROVE  TextInv'
<1>1. \A t \in Tokens : RowText(t)'
  BY RowTextKept
<1>2. \A r \in Requests : Claim(r)'
  BY ClaimKept DEF TextInv, EndedInv, Spares
<1> QED
  BY <1>1, <1>2 DEF TextInv, TextTypeInv

LEMMA TextNextIsNext == [TextNext]_textVars => [Next]_vars
  BY DEF TextNext, textVars, Tick, Next, vars

LEMMA TextInvNext ==
    TypeInv /\ EndedInv /\ OwnersInv /\ TextInv /\ [TextNext]_textVars => TextInv'
<1> SUFFICES ASSUME TypeInv, EndedInv, OwnersInv, TextInv, [TextNext]_textVars PROVE TextInv'
  OBVIOUS
<1>0. TypeInv'
  BY TextNextIsNext, TypeNext
<1>1. ASSUME NEW r \in Requests, Call(r) \/ Step(r), Carry(r), StoreText(r),
             Observe(r), now' = now
      PROVE  TextInv'
  BY <1>0, <1>1, TextCall, TextAccount, TextSaveRevoked, TextGenerate, TextLogout,
     TextRevokeAll DEF Step, RevokeAllAdminTokens
<1>2. ASSUME UNCHANGED <<now, tokenText, carried, loggedOut>>,
             (\E t \in Tokens : GrowOld(t)) \/ CleanupExpiredRefreshTokens
      PROVE  TextInv'
  <2>1. UNCHANGED <<request, ended, issuedTo, removed>>
    BY <1>2 DEF GrowOld, CleanupExpiredRefreshTokens
  <2>2. refreshToken \in [Tokens -> TokenRecord]
    BY DEF TypeInv, TokensOK
  <2>3. ASSUME NEW t \in Tokens
        PROVE  /\ Stored(t)' => /\ Stored(t)
                                /\ refreshToken[t].isRevoked => refreshToken'[t].isRevoked
               /\ refreshToken[t].state # "unused" => refreshToken'[t].state # "unused"
    <3>1. CASE \E x \in Tokens : GrowOld(x)
      BY <2>2, <3>1 DEF GrowOld, Stored, TokenRecord
    <3>2. CASE CleanupExpiredRefreshTokens
      BY <2>2, <3>2 DEF CleanupExpiredRefreshTokens, Stored, Row
    <3> QED
      BY <1>2, <3>1, <3>2
  <2> QED
    BY <1>2, <2>1, <2>3, TextTime DEF Spares, TextInv, TextTypeInv
<1>3. CASE Tick
  <2>1. Spares
    BY <1>3 DEF Tick, vars, Spares, Stored
  <2> QED
    BY <1>3, <2>1, TextTime DEF Tick, vars, TextInv, TextTypeInv
<1>4. CASE UNCHANGED textVars
  <2>1. Spares
    BY <1>4 DEF textVars, vars, Spares, Stored
  <2> QED
    BY <1>4, <2>1, TextTime DEF textVars, vars, TextInv, TextTypeInv
<1> QED
  BY <1>1, <1>2, <1>3, <1>4 DEF TextNext

\* With the texts nothing happens to rows and accounts that Sessions does not
\* allow, so that every theorem about Spec is one about TextSpec.
THEOREM TextsAreSessions == TextSpec => Spec
<1>1. TextInit => Init
  BY DEF TextInit
<1> QED
  BY <1>1, TextNextIsNext, PTL DEF TextSpec, Spec

\* A text its owner has logged out with is refused in all its rows until it is
\* given out again, unless it has two and is an admin's or of an account that was
\* deleted once.
THEOREM LoggedOutForGood == TextSpec => []LoggedOutIsDead
<1>1. TextInit => TextInv
  BY DEF TextInit, Init, TextInv, TextTypeInv, Claim, RowText, Idle, Row, Stored
<1>2. TextInv /\ OwnersInv => LoggedOutIsDead
  BY DEF TextInv, RowText, OwnersInv, Belongs, LoggedOutIsDead, Refreshable, OwnerExists
<1>3. TextSpec => []TypeInv /\ []EndedInv /\ []OwnersInv
  BY TextsAreSessions, TypeInit, TypeNext, EndedAlways, OwnersAlways, PTL DEF Spec
<1> QED
  BY <1>1, <1>2, <1>3, TextInvNext, PTL DEF TextSpec

=============================================================================
