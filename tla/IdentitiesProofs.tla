-------------------------- MODULE IdentitiesProofs --------------------------
(***************************************************************************)
(* What holds of Identities for every set of accounts, handlers, phones,   *)
(* e-mails and provider ids: type correctness, that a linked identity is   *)
(* found in its account and nowhere else, and that a login which is about  *)
(* to create an account found its e-mail free.                             *)
(***************************************************************************)
EXTENDS Identities, TLAPS

-----------------------------------------------------------------------------
(* Columns, entities and payloads. *)

LEMMA ColumnOfId ==
    ASSUME NEW i \in Ids
    PROVE  /\ Column(i) \in {"googleId", "appleId"}
           /\ Column(i) \in UniqueColumns
           /\ i # Null
  BY NullIsNothing DEF Column, UniqueColumns, Ids

LEMMA NothingIsEntity == Nothing \in Entity /\ \A c \in Columns : Nothing[c] = Null
  BY DEF Nothing, Entity, Columns

LEMMA EntityIsNotNull == Null \notin Entity /\ Null \notin Accounts
  BY NullIsNothing

LEMMA OverlayIsEntity ==
    ASSUME NEW under \in Entity, NEW over \in Entity
    PROVE  /\ Overlay(under, over) \in Entity
           /\ \A c \in Columns :
                Overlay(under, over)[c] = IF over[c] # Null THEN over[c] ELSE under[c]
<1> DEFINE e == Overlay(under, over)
           v(c) == IF over[c] # Null THEN over[c] ELSE under[c]
<1>1. e = [c \in Columns |-> v(c)]
  BY DEF Overlay
<1>2. v("email") \in Emails \cup {Null} /\ v("phone") \in PhoneNumbers \cup {Null}
  BY DEF Entity
<1>3. v("googleId") \in GoogleIds \cup {Null} /\ v("appleId") \in AppleIds \cup {Null}
  BY DEF Entity
<1>4. e = [email |-> v("email"), phone |-> v("phone"),
           googleId |-> v("googleId"), appleId |-> v("appleId")]
  BY <1>1 DEF Columns
<1>5. e \in Entity
  BY <1>2, <1>3, <1>4 DEF Entity
<1> QED
  BY <1>1, <1>5

LEMMA IdentityTyped ==
    ASSUME NEW p \in Entity
    PROVE  IdentityOf(p) \in Ids \cup {Null}
  BY DEF IdentityOf, Entity, Ids

-----------------------------------------------------------------------------
(* Types, and what a handler is sure to hold. *)

OnAccount == {"checkPhone", "preload", "save", "softRemove"}

Shaped(q) ==
    /\ q \in HandlerRow
    /\ q.pc \in OnAccount => q.account \in Accounts /\ row[q.account] # Null
    /\ q.pc = "save" => q.entity \in Entity
    /\ q.pc = "checkPhone" =>
         q.op = "update" /\ q.dto.googleId = Null /\ q.dto.appleId = Null

TypeInv == IdentityTypeOK /\ \A q \in Handlers : Shaped(handler[q])

\* Whoever has the account of a linked identity will leave the link there.
Harmless(q) ==
    \A i \in Ids : home[i] # Null /\ q.account = home[i] =>
        /\ q.pc = "save" => q.entity[Column(i)] = i
        /\ q.pc = "preload" => q.dto[Column(i)] \in {Null, i}

\* A login that is about to insert has looked for its e-mail.
Looked(q, w) ==
    q.op = "oauth" /\ q.pc = "insert" => Having("email", q.dto.email) \subseteq w

\* The rows that are alive share no value of a unique column.
Unique ==
    \A a, b \in alive, c \in UniqueColumns :
        row[a][c] = row[b][c] /\ row[a][c] # Null => a = b

HomesHold ==
    \A i \in Ids : home[i] # Null => home[i] \in alive /\ row[home[i]][Column(i)] = i

Inv ==
    /\ TypeInv
    /\ Unique
    /\ HomesHold
    /\ \A q \in Handlers : Harmless(handler[q])
    /\ \A q \in Handlers : Looked(handler[q], written[q])

LEMMA InitInv == IdentityInit => Inv
<1> SUFFICES ASSUME IdentityInit PROVE Inv
  OBVIOUS
<1>1. AtRest \in HandlerRow /\ AtRest.pc = "idle" /\ AtRest.op = "none"
  BY NothingIsEntity DEF AtRest, HandlerRow, Ops, Awaits
<1>2. TypeInv
  BY <1>1 DEF IdentityInit, TypeInv, IdentityTypeOK, Shaped, OnAccount
<1> QED
  BY <1>1, <1>2 DEF IdentityInit, Inv, Unique, HomesHold, Harmless, Looked

-----------------------------------------------------------------------------
(* Steps that only move a handler. *)

LEMMA MovesKeepInv ==
    ASSUME Inv, NEW r \in Handlers, NEW q,
           Shaped(q), Harmless(q), q.op = "oauth" /\ q.pc = "insert" => Having("email", q.dto.email) = {},
           Continue(r, q)
    PROVE  Inv'
<1>1. UNCHANGED <<row, alive, home, written>> /\ handler' = [handler EXCEPT ![r] = q]
  BY DEF Continue
<1>2. handler \in [Handlers -> HandlerRow]
  BY DEF Inv, TypeInv, IdentityTypeOK
<1>3. \A x \in Handlers : handler'[x] = IF x = r THEN q ELSE handler[x]
  BY <1>1, <1>2
<1>4. handler' \in [Handlers -> HandlerRow]
  BY <1>1, <1>2 DEF Shaped
<1>5. TypeInv'
  BY <1>1, <1>3, <1>4 DEF Inv, TypeInv, IdentityTypeOK, Shaped
<1>6. Unique' /\ HomesHold'
  BY <1>1 DEF Inv, Unique, HomesHold, Column
<1>7. \A x \in Handlers : Harmless(handler[x])'
  BY <1>1, <1>3 DEF Inv, Harmless, Column
<1>8. \A x \in Handlers : Looked(handler[x], written[x])'
  BY <1>1, <1>3 DEF Inv, Looked, Having
<1> QED
  BY <1>5, <1>6, <1>7, <1>8 DEF Inv

LEMMA IdleIsHarmless == Shaped(AtRest) /\ Harmless(AtRest) /\ AtRest.pc = "idle" /\ AtRest.op = "none"
  BY NothingIsEntity, EntityIsNotNull DEF AtRest, Shaped, HandlerRow, Ops, Awaits, OnAccount, Harmless

LEMMA LinkIsHarmless ==
    ASSUME Inv, NEW a \in alive, NEW p \in Entity
    PROVE  /\ Link(a, p) \in Entity
           /\ \A i \in Ids : home[i] = a => Link(a, p)[Column(i)] = Null
<1>2. Link(a, p) \in Entity
  BY DEF Link, Nothing, Entity
<1>3. ASSUME NEW i \in Ids, home[i] = a PROVE Link(a, p)[Column(i)] = Null
  <2>1. row[a][Column(i)] = i /\ i # Null
    BY <1>3, ColumnOfId, EntityIsNotNull DEF Inv, HomesHold, TypeInv, IdentityTypeOK
  <2> QED
    BY <2>1, ColumnOfId DEF Link, Nothing
<1> QED
  BY <1>2, <1>3

LEMMA FoundIsFine ==
    ASSUME Inv, NEW a \in alive, NEW p \in Entity
    PROVE  Shaped(FoundUser(a, p)) /\ Harmless(FoundUser(a, p)) /\ FoundUser(a, p).pc = "preload"
<1>1. a \in Accounts /\ row[a] # Null
  BY DEF Inv, TypeInv, IdentityTypeOK
<1>2. FoundUser(a, p) \in HandlerRow
  BY <1>1, LinkIsHarmless, IdentityTyped DEF FoundUser, HandlerRow, Ops, Awaits
<1>3. Harmless(FoundUser(a, p))
  BY LinkIsHarmless DEF FoundUser, Harmless
<1> QED
  BY <1>1, <1>2, <1>3 DEF Shaped, OnAccount, FoundUser

LEMMA NotFoundIsFine ==
    ASSUME NEW p \in Entity, NEW pc \in {"insert", "findByEmail"}
    PROVE  Shaped(NoUserFound(pc, p)) /\ Harmless(NoUserFound(pc, p))
  BY EntityIsNotNull, IdentityTyped DEF NoUserFound, Shaped, Harmless, HandlerRow, Ops, Awaits, OnAccount

LEMMA BeginMoves ==
    ASSUME NEW r, NEW q, BeginHandler(r, q)
    PROVE  Continue(r, q)
  BY DEF BeginHandler

\* The first reads of a login.
LEMMA LoginKeepsInv ==
    ASSUME Inv, NEW r \in Handlers, NEW p \in Payloads, HandleOAuthLogin(r, p)
    PROVE  Inv'
<1> DEFINE found == Having("googleId", p.googleId) \cup Having("appleId", p.appleId)
<1>1. CASE \E a \in found : BeginHandler(r, FoundUser(a, p))
  <2>1. PICK a \in found : BeginHandler(r, FoundUser(a, p))
    BY <1>1
  <2>2. a \in alive
    BY DEF Having
  <2> QED
    BY <2>1, <2>2, BeginMoves, FoundIsFine, IdentityTyped, PayloadsAreTyped, MovesKeepInv
<1>2. CASE BeginHandler(r, NoUserFound(IF p.email = Null THEN "insert" ELSE "findByEmail", p))
  <2> DEFINE pc == IF p.email = Null THEN "insert" ELSE "findByEmail"
             q  == NoUserFound(pc, p)
  <2>1. Shaped(q) /\ Harmless(q)
    BY NotFoundIsFine, IdentityTyped, PayloadsAreTyped
  <2>2. q.pc = pc /\ q.dto = p
    BY DEF NoUserFound
  <2>3. q.pc = "insert" => Having("email", q.dto.email) = {}
    BY <2>2 DEF Having
  <2>4. Continue(r, q)
    BY <1>2, BeginMoves
  <2> HIDE DEF q
  <2> QED
    BY <2>1, <2>3, <2>4, MovesKeepInv
<1> QED
  BY <1>1, <1>2 DEF HandleOAuthLogin

\* A handler holds its payload until it has found an account.
LEMMA FindByEmailKeepsInv ==
    ASSUME Inv, NEW r \in Handlers, FindByEmail(r)
    PROVE  Inv'
<1> DEFINE p == handler[r].dto
<1>1. p \in Entity
  BY DEF Inv, TypeInv, IdentityTypeOK, HandlerRow
<1>2. CASE \E a \in Having("email", p.email) : Continue(r, FoundUser(a, p))
  <2>1. PICK a \in Having("email", p.email) : Continue(r, FoundUser(a, p))
    BY <1>2
  <2>2. a \in alive
    BY DEF Having
  <2> QED
    BY <1>1, <2>1, <2>2, FoundIsFine, MovesKeepInv
<1>3. CASE Having("email", p.email) = {} /\ Continue(r, NoUserFound("insert", p))
  <2>1. NoUserFound("insert", p).dto = p
    BY DEF NoUserFound
  <2> QED
    BY <1>1, <1>3, <2>1, NotFoundIsFine, MovesKeepInv
<1> QED
  BY <1>2, <1>3 DEF FindByEmail

\* The calls that hold no row yet, and no id of a provider.
LEMMA PlainIsFine ==
    ASSUME Inv, NEW q \in HandlerRow, q.op # "oauth", q.pc # "save",
           q.pc \in OnAccount => q.account \in Accounts /\ row[q.account] # Null,
           q.pc \in {"checkPhone", "preload"} =>
               q.op = "update" /\ q.dto.googleId = Null /\ q.dto.appleId = Null
    PROVE  Shaped(q) /\ Harmless(q)
<1>1. ASSUME NEW i \in Ids, q.pc = "preload" PROVE q.dto[Column(i)] = Null
  BY <1>1, ColumnOfId
<1> QED
  BY <1>1 DEF Shaped, Harmless

LEMMA CreateKeepsInv ==
    ASSUME Inv, NEW r \in Handlers, NEW d \in NewUsers, Create(r, d) \/ Register(r, d)
    PROVE  Inv'
<1> DEFINE e == [Nothing EXCEPT !.phone = d.phone]
           q == IF Create(r, d)
                THEN [AtRest EXCEPT !.op = "create", !.pc = "insert", !.dto = d]
                ELSE [AtRest EXCEPT !.op = "create", !.pc = "insert", !.dto = e]
<1>1. d \in Entity /\ e \in Entity
  BY DtosAreTyped DEF Nothing, Entity
<1>2. q \in HandlerRow /\ q.op = "create" /\ q.pc = "insert"
  BY <1>1 DEF AtRest, HandlerRow, Ops, Awaits
<1>3. BeginHandler(r, q)
  BY DEF Create, Register
<1> HIDE DEF q
<1>4. Shaped(q) /\ Harmless(q)
  BY <1>2, PlainIsFine DEF OnAccount
<1> QED
  BY <1>2, <1>3, <1>4, BeginMoves, MovesKeepInv

LEMMA UpdateKeepsInv ==
    ASSUME Inv, NEW r \in Handlers, NEW a \in Accounts, NEW d \in Changes, Update(r, a, d)
    PROVE  Inv'
<1>1. PICK pc \in {"checkPhone", "preload"} :
          BeginHandler(r, [AtRest EXCEPT !.op = "update", !.pc = pc, !.account = a, !.dto = d])
  BY DEF Update
<1> DEFINE q == [AtRest EXCEPT !.op = "update", !.pc = pc, !.account = a, !.dto = d]
<1>2. d \in Entity /\ d.googleId = Null /\ d.appleId = Null
  BY DtosAreTyped
<1>3. /\ q \in HandlerRow /\ q.op = "update" /\ q.pc \in {"checkPhone", "preload"}
      /\ q.account = a /\ q.dto = d
  BY <1>2, NothingIsEntity DEF AtRest, HandlerRow, Ops, Awaits
<1>4. row[a] # Null
  BY DEF Update, Inv, TypeInv, IdentityTypeOK
<1>5. BeginHandler(r, q)
  BY <1>1
<1> HIDE DEF q
<1>6. Shaped(q) /\ Harmless(q)
  BY <1>2, <1>3, <1>4, PlainIsFine
<1> QED
  BY <1>3, <1>5, <1>6, BeginMoves, MovesKeepInv

LEMMA RewriteKeepsInv ==
    ASSUME Inv, NEW r \in Handlers, NEW a \in Accounts, Rewrite(r, a)
    PROVE  Inv'
<1> DEFINE q == [AtRest EXCEPT !.op = "update", !.pc = "save", !.account = a, !.entity = row[a]]
<1>1. row[a] \in Entity /\ row[a] # Null
  BY EntityIsNotNull DEF Rewrite, Inv, TypeInv, IdentityTypeOK
<1>2. /\ q \in HandlerRow /\ q.op = "update" /\ q.pc = "save"
      /\ q.account = a /\ q.entity = row[a]
  BY <1>1, NothingIsEntity DEF AtRest, HandlerRow, Ops, Awaits
<1>3. BeginHandler(r, q)
  BY DEF Rewrite
<1> HIDE DEF q
<1>4. Shaped(q)
  BY <1>1, <1>2 DEF Shaped
<1>5. Harmless(q)
  BY <1>2 DEF Harmless, Inv, HomesHold
<1> QED
  BY <1>2, <1>3, <1>4, <1>5, BeginMoves, MovesKeepInv

LEMMA RemoveKeepsInv ==
    ASSUME Inv, NEW r \in Handlers, NEW a \in Accounts, Remove(r, a)
    PROVE  Inv'
<1> DEFINE q == [AtRest EXCEPT !.op = "remove", !.pc = "softRemove", !.account = a]
<1>1. row[a] # Null
  BY DEF Remove, Inv, TypeInv, IdentityTypeOK
<1>2. q \in HandlerRow /\ q.op = "remove" /\ q.pc = "softRemove" /\ q.account = a
  BY NothingIsEntity DEF AtRest, HandlerRow, Ops, Awaits
<1>3. BeginHandler(r, q)
  BY DEF Remove
<1> HIDE DEF q
<1>4. Shaped(q) /\ Harmless(q)
  BY <1>1, <1>2, PlainIsFine
<1> QED
  BY <1>2, <1>3, <1>4, BeginMoves, MovesKeepInv

LEMMA CheckPhoneKeepsInv ==
    ASSUME Inv, NEW r \in Handlers, CheckPhone(r)
    PROVE  Inv'
<1> DEFINE q == [handler[r] EXCEPT !.pc = "preload"]
<1>1. handler[r] \in HandlerRow /\ handler[r].pc = "checkPhone" /\ Shaped(handler[r])
  BY DEF CheckPhone, Inv, TypeInv, IdentityTypeOK
<1>2. /\ q \in HandlerRow /\ q.op = handler[r].op /\ q.pc = "preload"
      /\ q.account = handler[r].account /\ q.dto = handler[r].dto
  BY <1>1 DEF HandlerRow, Awaits
<1>3. q.op = "update" /\ q.dto.googleId = Null /\ q.dto.appleId = Null
  BY <1>1, <1>2 DEF Shaped
<1>4. q.account \in Accounts /\ row[q.account] # Null
  BY <1>1, <1>2 DEF Shaped, OnAccount
<1>5. Continue(r, q) \/ Continue(r, AtRest)
  BY DEF CheckPhone
<1> HIDE DEF q
<1>6. Shaped(q) /\ Harmless(q)
  BY <1>2, <1>3, <1>4, PlainIsFine
<1> QED
  BY <1>2, <1>5, <1>6, IdleIsHarmless, MovesKeepInv

\* The entity has the link of a handler that was harmless with its DTO.
LEMMA PreloadKeepsInv ==
    ASSUME Inv, NEW r \in Handlers, Preload(r)
    PROVE  Inv'
<1> DEFINE a == handler[r].account
           e == Overlay(row[a], handler[r].dto)
           q == [handler[r] EXCEPT !.pc = "save", !.entity = e]
<1>1. /\ handler[r] \in HandlerRow /\ Shaped(handler[r]) /\ Harmless(handler[r])
      /\ handler[r].pc = "preload"
  BY DEF Preload, Inv, TypeInv, IdentityTypeOK
<1>2. a \in Accounts /\ row[a] \in Entity /\ row[a] # Null /\ handler[r].dto \in Entity
  BY <1>1 DEF Shaped, OnAccount, Inv, TypeInv, IdentityTypeOK, HandlerRow
<1>3. /\ e \in Entity
      /\ \A c \in Columns : e[c] = IF handler[r].dto[c] # Null THEN handler[r].dto[c]
                                                               ELSE row[a][c]
  BY <1>2, OverlayIsEntity
<1>4. q \in HandlerRow /\ q.pc = "save" /\ q.account = a /\ q.entity = e
  <2> HIDE DEF e
  <2> QED
    BY <1>1, <1>3 DEF HandlerRow, Awaits
<1>5. Shaped(q)
  <2> HIDE DEF q, e
  <2> QED
    BY <1>2, <1>3, <1>4 DEF Shaped
<1>6. Harmless(q)
  <2> SUFFICES ASSUME NEW i \in Ids, home[i] # Null, a = home[i] PROVE e[Column(i)] = i
    BY <1>4 DEF Harmless
  <2>1. handler[r].dto[Column(i)] \in {Null, i}
    BY <1>1 DEF Harmless
  <2>2. row[a][Column(i)] = i
    BY DEF Inv, HomesHold
  <2>3. Column(i) \in Columns
    BY ColumnOfId DEF Columns
  <2> HIDE DEF e
  <2> QED
    BY <1>3, <2>1, <2>2, <2>3
<1>7. Continue(r, q) \/ Continue(r, AtRest)
  BY DEF Preload
<1> HIDE DEF q
<1> QED
  BY <1>4, <1>5, <1>6, <1>7, IdleIsHarmless, MovesKeepInv

-----------------------------------------------------------------------------
(* Steps that write the table. *)

\* A handler that becomes idle leaves the others as they are.
LEMMA OthersStay ==
    ASSUME TypeInv, NEW r \in Handlers, handler' = [handler EXCEPT ![r] = AtRest]
    PROVE  /\ handler' \in [Handlers -> HandlerRow]
           /\ handler'[r] = AtRest
           /\ \A q \in Handlers : q # r => handler'[q] = handler[q]
  BY IdleIsHarmless DEF TypeInv, IdentityTypeOK, Shaped

\* A row once inserted stays one: what was shaped stays so.
LEMMA ShapesStay ==
    ASSUME TypeInv, NEW r \in Handlers, handler' = [handler EXCEPT ![r] = AtRest],
           \A b \in Accounts : row[b] # Null => row'[b] # Null
    PROVE  \A q \in Handlers : Shaped(handler[q])'
<1>1. \A q \in Handlers : q # r => handler'[q] = handler[q]
  BY OthersStay
<1>2. handler'[r] = AtRest /\ AtRest \in HandlerRow /\ AtRest.pc = "idle"
  BY OthersStay, IdleIsHarmless DEF Shaped
<1>3. \A q \in Handlers : handler'[q] \in HandlerRow
  BY OthersStay
<1> QED
  BY <1>1, <1>2, <1>3 DEF TypeInv, Shaped, OnAccount

\* A refused write.
LEMMA RefusedKeepsInv ==
    ASSUME Inv, NEW r \in Handlers, handler' = [handler EXCEPT ![r] = AtRest],
           Written({}), UNCHANGED <<row, alive, home>>
    PROVE  Inv'
<1>1. /\ handler' \in [Handlers -> HandlerRow] /\ handler'[r] = AtRest
      /\ \A q \in Handlers : q # r => handler'[q] = handler[q]
  BY OthersStay DEF Inv
<1>2. written' \in [Handlers -> SUBSET Accounts]
  BY DEF Written, Inv, TypeInv, IdentityTypeOK
<1>3. TypeInv'
  BY <1>1, <1>2, ShapesStay DEF Inv, TypeInv, IdentityTypeOK
<1>4. Unique' /\ HomesHold'
  BY DEF Inv, Unique, HomesHold, Column
<1>5. \A q \in Handlers : Harmless(handler[q])'
  BY <1>1, IdleIsHarmless DEF Inv, Harmless, Column
<1>6. \A q \in Handlers : Looked(handler[q], written[q])'
  BY <1>1, IdleIsHarmless DEF Inv, Looked, Having, Written
<1> QED
  BY <1>3, <1>4, <1>5, <1>6 DEF Inv

\* A permitted write of entity e to row a, which keeps the links of row a.
LEMMA PermittedKeepsInv ==
    ASSUME Inv, NEW r \in Handlers, NEW a \in Accounts, NEW e \in Entity, Permitted(a, e),
           \A i \in Ids : home[i] = a => e[Column(i)] = i,
           handler' = [handler EXCEPT ![r] = AtRest],
           row' = [row EXCEPT ![a] = e], alive' = alive \cup {a},
           Home(r, a, e), Written({a})
    PROVE  Inv'
<1>1. /\ handler' \in [Handlers -> HandlerRow] /\ handler'[r] = AtRest
      /\ \A q \in Handlers : q # r => handler'[q] = handler[q]
  BY OthersStay DEF Inv
<1>2. /\ row' \in [Accounts -> Entity \cup {Null}]
      /\ row'[a] = e
      /\ \A b \in Accounts : b # a => row'[b] = row[b]
  BY DEF Inv, TypeInv, IdentityTypeOK
<1>3. e # Null /\ e.phone # Null
  BY EntityIsNotNull DEF Permitted
<1>4. \A i \in Ids : home'[i] = IF i = handler[r].identity /\ e[Column(i)] = i
                        THEN IF \E q \in Handlers \ {r} : Opposes(q, a, i) THEN Null ELSE a
                        ELSE home[i]
  BY DEF Home
<1>5. TypeInv'
  <2>1. home' \in [Ids -> Accounts \cup {Null}]
    BY DEF Home, Inv, TypeInv, IdentityTypeOK
  <2>2. written' \in [Handlers -> SUBSET Accounts]
    BY DEF Written, Inv, TypeInv, IdentityTypeOK
  <2>3. alive' \in SUBSET Accounts /\ \A b \in alive' : row'[b] # Null /\ row'[b].phone # Null
    BY <1>2, <1>3 DEF Inv, TypeInv, IdentityTypeOK
  <2>4. \A q \in Handlers : Shaped(handler[q])'
    BY <1>2, <1>3, ShapesStay DEF Inv
  <2> QED
    BY <1>1, <1>2, <2>1, <2>2, <2>3, <2>4 DEF TypeInv, IdentityTypeOK
<1>6. Unique'
  <2>1. ASSUME NEW b \in alive, b # a, NEW c \in UniqueColumns, e[c] # Null
        PROVE  row[b][c] # e[c]
    BY <2>1 DEF Permitted, Having
  <2>2. \A b \in alive : b \in Accounts
    BY DEF Inv, TypeInv, IdentityTypeOK
  <2> QED
    BY <1>2, <2>1, <2>2 DEF Inv, Unique
<1>7. ASSUME NEW i \in Ids, home'[i] # Null
      PROVE  \/ /\ home'[i] = a /\ e[Column(i)] = i
                /\ \A q \in Handlers \ {r} : ~Opposes(q, a, i)
             \/ home'[i] = home[i]
  BY <1>4, <1>7
<1>8. HomesHold'
  <2> SUFFICES ASSUME NEW i \in Ids, home'[i] # Null
               PROVE  home'[i] \in alive' /\ row'[home'[i]][Column(i)] = i
    BY DEF HomesHold, Column
  <2>1. CASE home'[i] = a /\ e[Column(i)] = i
    BY <1>2, <2>1
  <2>2. CASE home'[i] = home[i]
    <3>1. home[i] \in alive /\ row[home[i]][Column(i)] = i /\ home[i] \in Accounts
      BY <2>2 DEF Inv, HomesHold, TypeInv, IdentityTypeOK
    <3> QED
      BY <1>2, <2>2, <3>1
  <2> QED
    BY <1>7, <2>1, <2>2
<1>9. ASSUME NEW q \in Handlers PROVE Harmless(handler[q])'
  <2>1. CASE q = r
    BY <1>1, <2>1, IdleIsHarmless, <1>5, EntityIsNotNull DEF Harmless, AtRest
  <2>2. CASE q # r
    <3> SUFFICES ASSUME NEW i \in Ids, home'[i] # Null, handler[q].account = home'[i]
                 PROVE  /\ handler[q].pc = "save" => handler[q].entity[Column(i)] = i
                        /\ handler[q].pc = "preload" => handler[q].dto[Column(i)] \in {Null, i}
      BY <1>1, <2>2 DEF Harmless, Column
    <3>1. CASE home'[i] = a /\ ~Opposes(q, a, i)
      BY <3>1 DEF Opposes
    <3>2. CASE home'[i] = home[i]
      BY <3>2 DEF Inv, Harmless
    <3> QED
      BY <1>7, <2>2, <3>1, <3>2
  <2> QED
    BY <2>1, <2>2
<1>10. ASSUME NEW q \in Handlers PROVE Looked(handler[q], written[q])'
  <2>1. CASE q = r
    BY <1>1, <2>1, IdleIsHarmless DEF Looked
  <2>2. CASE q # r
    <3> SUFFICES ASSUME handler[q].op = "oauth", handler[q].pc = "insert"
                 PROVE  Having("email", handler[q].dto.email)' \subseteq written'[q]
      BY <1>1, <2>2 DEF Looked, Having
    <3>1. written'[q] = written[q] \cup {a}
      BY <1>1, <2>2 DEF Written
    <3>2. Having("email", handler[q].dto.email) \subseteq written[q]
      BY DEF Inv, Looked
    <3>3. Having("email", handler[q].dto.email)'
              \subseteq Having("email", handler[q].dto.email) \cup {a}
      <4> SUFFICES ASSUME NEW b \in alive, b # a, handler'[q].dto.email # Null,
                          row'[b]["email"] = handler'[q].dto.email
                   PROVE  b \in Having("email", handler[q].dto.email)
        BY DEF Having
      <4>1. b \in Accounts
        BY DEF Inv, TypeInv, IdentityTypeOK
      <4> QED
        BY <1>1, <1>2, <2>2, <4>1 DEF Having
    <3> QED
      BY <3>1, <3>2, <3>3
  <2> QED
    BY <2>1, <2>2
<1> QED
  BY <1>5, <1>6, <1>8, <1>9, <1>10 DEF Inv

\* A write either happens or is refused.
LEMMA WriteKeepsInv ==
    ASSUME Inv, NEW r \in Handlers, NEW a \in Accounts, NEW e \in Entity,
           \A i \in Ids : home[i] = a => e[Column(i)] = i,
           WriteRow(r, a, e)
    PROVE  Inv'
  BY PermittedKeepsInv, RefusedKeepsInv DEF WriteRow

LEMMA InsertKeepsInv ==
    ASSUME Inv, NEW r \in Handlers, NEW a \in Accounts, InsertUser(r, a)
    PROVE  Inv'
<1>1. handler[r].dto \in Entity
  BY DEF Inv, TypeInv, IdentityTypeOK, HandlerRow
<1>2. a # Null /\ a \notin alive
  BY EntityIsNotNull DEF InsertUser, Inv, TypeInv, IdentityTypeOK
<1>3. \A i \in Ids : home[i] # a
  BY <1>2 DEF Inv, HomesHold
<1> QED
  BY <1>1, <1>3, WriteKeepsInv DEF InsertUser

LEMMA SaveKeepsInv ==
    ASSUME Inv, NEW r \in Handlers, Save(r)
    PROVE  Inv'
<1>1. handler[r].pc = "save" /\ Shaped(handler[r]) /\ Harmless(handler[r])
  BY DEF Save, Inv, TypeInv
<1>2. handler[r].account \in Accounts /\ handler[r].entity \in Entity
  BY <1>1 DEF Shaped, OnAccount
<1>3. \A i \in Ids : home[i] = handler[r].account => handler[r].entity[Column(i)] = i
  BY <1>1, <1>2, EntityIsNotNull DEF Harmless
<1> QED
  BY <1>2, <1>3, WriteKeepsInv DEF Save

LEMMA SoftRemoveKeepsInv ==
    ASSUME Inv, NEW r \in Handlers, SoftRemove(r)
    PROVE  Inv'
<1> DEFINE a == handler[r].account
<1>1. /\ handler' = [handler EXCEPT ![r] = AtRest] /\ UNCHANGED <<row, written>>
      /\ alive' = alive \ {a}
      /\ home' = [i \in Ids |-> IF home[i] = a THEN Null ELSE home[i]]
  BY DEF SoftRemove
<1>2. /\ handler' \in [Handlers -> HandlerRow] /\ handler'[r] = AtRest
      /\ \A q \in Handlers : q # r => handler'[q] = handler[q]
  BY <1>1, OthersStay DEF Inv
<1>3. \A i \in Ids : home'[i] # Null => home'[i] = home[i] /\ home[i] # a
  BY <1>1
<1>4. home' \in [Ids -> Accounts \cup {Null}]
  BY <1>1 DEF Inv, TypeInv, IdentityTypeOK
<1>5. TypeInv'
  BY <1>1, <1>2, <1>4, ShapesStay DEF Inv, TypeInv, IdentityTypeOK
<1>6. Unique'
  BY <1>1 DEF Inv, Unique
<1>7. HomesHold'
  BY <1>1, <1>3 DEF Inv, HomesHold, Column
<1>8. \A q \in Handlers : Harmless(handler[q])'
  BY <1>2, <1>3, <1>4, IdleIsHarmless, EntityIsNotNull DEF Inv, Harmless, Column, AtRest
<1>9. \A q \in Handlers : Looked(handler[q], written[q])'
  BY <1>1, <1>2, IdleIsHarmless DEF Inv, Looked, Having
<1> QED
  BY <1>5, <1>6, <1>7, <1>8, <1>9 DEF Inv

-----------------------------------------------------------------------------
(* What the rows are to those who know accounts by their phones. *)

Listed ==
    /\ PhoneUser \in [PhoneNumbers -> {"none", "sms", "oauth"}]
    /\ \A a \in alive :
        /\ row[a].phone \in PhoneNumbers
        /\ PhoneUser[row[a].phone] = LoginKind(row[a])
    /\ \A p \in PhoneNumbers : PhoneUser[p] = "none" <=> \A a \in alive : row[a].phone # p

\* Of the rows alive one at most has the phone.
LEMMA InvListed == Inv => Listed
<1> SUFFICES ASSUME Inv PROVE Listed
  OBVIOUS
<1>1. PhoneUser \in [PhoneNumbers -> {"none", "sms", "oauth"}]
  BY DEF PhoneUser
<1>2. ASSUME NEW p \in PhoneNumbers
      PROVE  PhoneUser[p] = IF Having("phone", p) = {} THEN "none"
                            ELSE IF \E a \in Having("phone", p) : LoginKind(row[a]) = "oauth"
                            THEN "oauth" ELSE "sms"
  BY DEF PhoneUser
<1>3. \A p \in PhoneNumbers : \A a : a \in Having("phone", p) <=> a \in alive /\ row[a].phone = p
  BY NullIsNothing DEF Having
<1>4. ASSUME NEW a \in alive
      PROVE  row[a].phone \in PhoneNumbers /\ PhoneUser[row[a].phone] = LoginKind(row[a])
  <2> DEFINE p == row[a].phone
  <2>1. p \in PhoneNumbers /\ p # Null
    BY NullIsNothing DEF Inv, TypeInv, IdentityTypeOK, Entity
  <2>2. Having("phone", p) = {a}
    BY <1>3, <2>1 DEF Inv, Unique, UniqueColumns
  <2>3. LoginKind(row[a]) \in {"sms", "oauth"}
    BY DEF LoginKind
  <2> QED
    BY <1>2, <2>1, <2>2, <2>3
<1>5. ASSUME NEW p \in PhoneNumbers
      PROVE  PhoneUser[p] = "none" <=> \A a \in alive : row[a].phone # p
  BY <1>2, <1>3
<1> QED
  BY <1>1, <1>4, <1>5 DEF Listed

\* A row that is written appears at its phone, and leaves the one it had.
LEMMA WriteIsListed ==
    ASSUME Inv, Listed, Listed', NEW a \in Accounts, NEW e \in Entity, Permitted(a, e),
           row' = [row EXCEPT ![a] = e], alive' = alive \cup {a}
    PROVE  Book!Write
<1> DEFINE p2 == e.phone
           k  == LoginKind(e)
<1>1. row'[a] = e /\ \A b \in alive : b # a => row'[b] = row[b]
  BY DEF Inv, TypeInv, IdentityTypeOK
<1>2. p2 \in PhoneNumbers /\ k \in Book!Kinds
  BY DEF Permitted, Entity, LoginKind, Book!Kinds
<1>3. PhoneUser'[p2] = k
  BY <1>1 DEF Listed, LoginKind
<1>4. \A b \in alive : b # a => row[b].phone # p2
  BY DEF Permitted, Having, UniqueColumns
<1>5. ASSUME NEW p \in PhoneNumbers, p # p2, a \in alive => p # row[a].phone
      PROVE  PhoneUser'[p] = PhoneUser[p]
  <2>1. CASE \E b \in alive : row[b].phone = p
    <3>1. PICK b \in alive : row[b].phone = p
      BY <2>1
    <3>2. b # a /\ row'[b] = row[b] /\ b \in alive'
      BY <1>1, <1>5, <3>1
    <3>3. PhoneUser'[p] = LoginKind(row[b])
      BY <3>1, <3>2 DEF Listed, LoginKind
    <3> QED
      BY <3>1, <3>3 DEF Listed
  <2>2. CASE \A b \in alive : row[b].phone # p
    <3>1. \A b \in alive' : row'[b].phone # p
      BY <1>1, <1>5, <2>2
    <3> QED
      BY <2>2, <3>1 DEF Listed
  <2> QED
    BY <2>1, <2>2
<1>6. CASE a \notin alive
  <2>1. PhoneUser[p2] = "none"
    BY <1>2, <1>4, <1>6 DEF Listed
  <2>2. PhoneUser' = [PhoneUser EXCEPT ![p2] = k]
    BY <1>2, <1>3, <1>5, <1>6 DEF Listed
  <2> QED
    BY <1>2, <2>1, <2>2 DEF Book!Write, Book!AddUser
<1>7. CASE a \in alive
  <2> DEFINE p1 == row[a].phone
  <2>1. p1 \in PhoneNumbers /\ PhoneUser[p1] # "none"
    BY <1>7 DEF Listed
  <2>2. p2 = p1 \/ PhoneUser[p2] = "none"
    BY <1>2, <1>4 DEF Listed
  <2>3. p1 # p2 => PhoneUser'[p1] = "none"
    <3> SUFFICES ASSUME p1 # p2, NEW b \in alive' PROVE row'[b].phone # p1
      BY <2>1 DEF Listed
    <3>1. CASE b = a
      BY <1>1, <3>1
    <3>2. CASE b # a
      BY <1>1, <1>7, <2>1, <3>2, NullIsNothing DEF Inv, Unique, UniqueColumns
    <3> QED
      BY <3>1, <3>2
  <2>4. PhoneUser' = [PhoneUser EXCEPT ![p1] = "none", ![p2] = k]
    <3>1. \A p \in PhoneNumbers : PhoneUser'[p] = IF p = p2 THEN k
                                    ELSE IF p = p1 THEN "none" ELSE PhoneUser[p]
      BY <1>3, <1>5, <2>3
    <3>2. /\ PhoneUser \in [PhoneNumbers -> {"none", "sms", "oauth"}]
          /\ PhoneUser' \in [PhoneNumbers -> {"none", "sms", "oauth"}]
      BY DEF Listed
    <3> HIDE DEF p1, p2, k
    <3> QED
      BY <1>2, <2>1, <3>1, <3>2
  <2> QED
    BY <1>2, <2>1, <2>2, <2>4 DEF Book!Write, Book!ChangeUser
<1> QED
  BY <1>6, <1>7

\* A row that is removed leaves its phone, and no other row a phone.
LEMMA RemovalIsListed ==
    ASSUME Inv, Listed, Listed', NEW a \in alive, row' = row, alive' = alive \ {a}
    PROVE  Book!Write
<1> DEFINE p1 == row[a].phone
<1>1. p1 \in PhoneNumbers /\ PhoneUser[p1] # "none"
  BY DEF Listed, LoginKind
<1>2. PhoneUser'[p1] = "none"
  <2>1. \A b \in alive' : row'[b].phone # p1
    BY <1>1, NullIsNothing DEF Inv, Unique, UniqueColumns
  <2> QED
    BY <1>1, <2>1 DEF Listed
<1>3. ASSUME NEW p \in PhoneNumbers, p # p1 PROVE PhoneUser'[p] = PhoneUser[p]
  <2>1. CASE \E b \in alive : row[b].phone = p
    <3>1. PICK b \in alive : row[b].phone = p
      BY <2>1
    <3>2. b # a /\ b \in alive'
      BY <1>3, <3>1
    <3>3. PhoneUser'[p] = LoginKind(row[b])
      BY <3>1, <3>2 DEF Listed, LoginKind
    <3> QED
      BY <3>1, <3>3 DEF Listed
  <2>2. CASE \A b \in alive : row[b].phone # p
    BY <2>2 DEF Listed
  <2> QED
    BY <2>1, <2>2
<1>4. PhoneUser' = [PhoneUser EXCEPT ![p1] = "none"]
  BY <1>1, <1>2, <1>3 DEF Listed
<1> QED
  BY <1>1, <1>4 DEF Book!Write, Book!RemoveUser

-----------------------------------------------------------------------------
(* The theorems. *)

LEMMA StepKeepsInv == Inv /\ [IdentityNext]_identityVars => Inv'
<1> SUFFICES ASSUME Inv, [IdentityNext]_identityVars PROVE Inv'
  OBVIOUS
<1>1. CASE UNCHANGED identityVars
  BY <1>1 DEF identityVars, Inv, TypeInv, IdentityTypeOK, Shaped, Unique, HomesHold, Harmless, Looked,
              Having, Column
<1>2. ASSUME NEW r \in Handlers, UserCall(r) PROVE Inv'
  <2>1. ASSUME NEW p \in Payloads, HandleOAuthLogin(r, p) PROVE Inv'
    BY <2>1, LoginKeepsInv
  <2>2. ASSUME NEW d \in NewUsers, Create(r, d) \/ Register(r, d) PROVE Inv'
    BY <2>2, CreateKeepsInv
  <2>3. ASSUME NEW a \in Accounts, NEW d \in Changes, Update(r, a, d) PROVE Inv'
    BY <2>3, UpdateKeepsInv
  <2>4. ASSUME NEW a \in Accounts, Rewrite(r, a) PROVE Inv'
    BY <2>4, RewriteKeepsInv
  <2>5. ASSUME NEW a \in Accounts, Remove(r, a) PROVE Inv'
    BY <2>5, RemoveKeepsInv
  <2> QED
    BY <1>2, <2>1, <2>2, <2>3, <2>4, <2>5 DEF UserCall
<1>3. ASSUME NEW r \in Handlers, UserStep(r) PROVE Inv'
  <2>1. CASE FindByEmail(r)
    BY <2>1, FindByEmailKeepsInv
  <2>2. CASE CheckPhone(r)
    BY <2>2, CheckPhoneKeepsInv
  <2>3. ASSUME NEW a \in Accounts, InsertUser(r, a) PROVE Inv'
    BY <2>3, InsertKeepsInv
  <2>4. CASE Preload(r)
    BY <2>4, PreloadKeepsInv
  <2>5. CASE Save(r)
    BY <2>5, SaveKeepsInv
  <2>6. CASE SoftRemove(r)
    BY <2>6, SoftRemoveKeepsInv
  <2> QED
    BY <1>3, <2>1, <2>2, <2>3, <2>4, <2>5, <2>6 DEF UserStep
<1> QED
  BY <1>1, <1>2, <1>3 DEF IdentityNext

LEMMA InvHolds == IdentitySpec => []Inv
  BY InitInv, StepKeepsInv, PTL DEF IdentitySpec

\* Types of the table, of what the handlers hold, and of the history.
THEOREM TypeCorrect == IdentitySpec => []IdentityTypeOK
<1>1. Inv => IdentityTypeOK
  BY DEF Inv, TypeInv
<1> QED
  BY <1>1, InvHolds, PTL

\* An identity that a login linked is found in that account only, for every
\* number of concurrent handlers (handleOAuthLogin and the partial indexes).
THEOREM LinksAreFound == IdentitySpec => []LinkedIsFound
<1>1. Inv => LinkedIsFound
  <2> SUFFICES ASSUME Inv, NEW i \in Ids, home[i] # Null
               PROVE  Having(Column(i), i) = {home[i]}
    BY DEF LinkedIsFound
  <2>1. home[i] \in alive /\ row[home[i]][Column(i)] = i
    BY DEF Inv, HomesHold
  <2>2. Column(i) \in UniqueColumns /\ i # Null
    BY ColumnOfId
  <2> QED
    BY <2>1, <2>2 DEF Inv, Unique, Having
<1> QED
  BY <1>1, InvHolds, PTL

\* A login creates a second account of an e-mail only if the first took it
\* behind the login's back (handleOAuthLogin).
THEOREM EmailsWereFree == IdentitySpec => []EmailWasFree
<1>1. Inv => EmailWasFree
  BY DEF Inv, Looked, EmailWasFree
<1> QED
  BY <1>1, InvHolds, PTL

\* A step of a handler writes one row, removes one, or leaves the table.
LEMMA StepIsListed ==
    Inv /\ Listed /\ Listed' /\ [IdentityNext]_identityVars => [Book!Next]_PhoneUser
<1> SUFFICES ASSUME Inv, Listed, Listed', [IdentityNext]_identityVars
             PROVE  Book!Next
  BY DEF Book!Next
<1>1. UNCHANGED <<row, alive>> => Book!Next
  BY DEF Book!Next, PhoneUser, Having, LoginKind
<1>2. ASSUME NEW r \in Handlers, NEW a \in Accounts, NEW e \in Entity, WriteRow(r, a, e)
      PROVE  Book!Next
  BY <1>1, <1>2, WriteIsListed DEF WriteRow, Book!Next
<1>3. ASSUME NEW r \in Handlers, UserCall(r) PROVE UNCHANGED <<row, alive>>
  BY <1>3 DEF UserCall, HandleOAuthLogin, Create, Register, Update, Rewrite, Remove,
              BeginHandler, Continue
<1>4. ASSUME NEW r \in Handlers, UserStep(r) PROVE Book!Next
  <2>1. CASE FindByEmail(r) \/ CheckPhone(r) \/ Preload(r)
    BY <1>1, <2>1 DEF FindByEmail, CheckPhone, Preload, Continue
  <2>2. ASSUME NEW a \in Accounts, InsertUser(r, a) PROVE Book!Next
    <3>1. handler[r].dto \in Entity
      BY DEF Inv, TypeInv, IdentityTypeOK, HandlerRow
    <3> QED
      BY <1>2, <2>2, <3>1 DEF InsertUser
  <2>3. CASE Save(r)
    <3>1. handler[r].account \in Accounts /\ handler[r].entity \in Entity
      BY <2>3 DEF Save, Inv, TypeInv, Shaped, OnAccount
    <3> QED
      BY <1>2, <2>3, <3>1 DEF Save
  <2>4. CASE SoftRemove(r)
    <3>1. row' = row /\ alive' = alive \ {handler[r].account}
      BY <2>4 DEF SoftRemove
    <3>2. CASE handler[r].account \in alive
      BY <3>1, <3>2, RemovalIsListed DEF Book!Next
    <3>3. CASE handler[r].account \notin alive
      BY <1>1, <3>1, <3>3
    <3> QED
      BY <3>2, <3>3
  <2> QED
    BY <1>4, <2>1, <2>2, <2>3, <2>4 DEF UserStep
<1> QED
  BY <1>1, <1>3, <1>4 DEF IdentityNext, identityVars

\* The handlers of users implement PhoneBook, the table as Registration takes
\* the rest of the application to write it: whatever handlers interleave and
\* whatever rows their saves write back, an account appears on a free phone,
\* goes, or becomes another one whose phone is its own or free.
THEOREM PhoneBookRefined == IdentitySpec => WritesFollowPhoneBook
<1>1. IdentityInit => Book!Init
  <2> SUFFICES ASSUME IdentityInit PROVE Book!Init
    OBVIOUS
  <2>1. Listed
    BY InitInv, InvListed
  <2> QED
    BY <2>1 DEF Listed, Book!Init, Book!Kinds
<1> QED
  BY <1>1, InvHolds, InvListed, StepIsListed, PTL
     DEF IdentitySpec, WritesFollowPhoneBook, Book!Spec

=============================================================================
