------------------------- MODULE ProfileImagesProofs -------------------------
(***************************************************************************)
(* Proofs about ProfileImages, for any number of accounts, keys and        *)
(* concurrent handlers.                                                    *)
(*                                                                         *)
(* The argument has two layers.  Ownership holds whatever overlaps: a row  *)
(* or a handler only ever holds keys uploaded for its own account, since a *)
(* fresh key is held by nobody, and keys that a body named.  Settled is    *)
(* about accounts whose image handlers never overlapped: the running       *)
(* handler still finds in the row what it read there, which is what the    *)
(* order of its steps relies on.                                           *)
(***************************************************************************)
EXTENDS ProfileImages, TLAPS

Acct(r) == request[r].account
Op(r)   == request[r].op
Pc(r)   == request[r].pc

-----------------------------------------------------------------------------
(* Types. *)

LEMMA IdleIsHandler == Idle \in Handlers
  BY DEF Idle, Handlers, Ops, Pcs, Values

LEMMA GotoType ==
    ASSUME TypeOK, NEW r \in Requests, NEW pc \in Pcs, Goto(r, pc)
    PROVE  request' \in [Requests -> Handlers]
  BY DEF TypeOK, Goto, Handlers

LEMMA DoneType ==
    ASSUME TypeOK, NEW r \in Requests, Done(r)
    PROVE  request' \in [Requests -> Handlers]
  BY IdleIsHandler DEF TypeOK, Done

LEMMA ResolvedType ==
    ASSUME TypeOK, NEW r \in Requests, NEW image \in Values, Resolved(r, image)
    PROVE  request' \in [Requests -> Handlers]
<1>1. PICK pc \in Pcs : request' = [request EXCEPT ![r].image = image, ![r].pc = pc]
  BY DEF Resolved, Pcs
<1> QED
  BY <1>1 DEF TypeOK, Handlers

LEMMA BeginType ==
    ASSUME TypeOK, NEW r \in Requests, NEW op \in Ops, NEW pc \in Pcs,
           NEW a \in Accounts, NEW found \in Values, Begin(r, op, pc, a, found)
    PROVE  pasted' \in SUBSET Keys => TypeOK'
<1>1. request' \in [Requests -> Handlers]
  BY DEF TypeOK, Begin, Handlers
<1>2. contested' \in SUBSET Accounts
  BY DEF TypeOK, Begin
<1>3. UNCHANGED <<row, object, halfRemoved, dropped>>
  BY DEF Begin
<1> QED
  BY <1>1, <1>2, <1>3 DEF TypeOK

LEMMA TextsAreValues == Texts \subseteq Values
  BY DEF Texts, Values

LEMMA DeleteObjectType ==
    ASSUME TypeOK, NEW r \in Requests, DeleteObject(r)
    PROVE  /\ object' \in [Keys -> [state : {"unused", "stored", "gone"},
                                   owner : Accounts \cup {None}]]
           /\ dropped' \in SUBSET Keys
  BY DEF TypeOK, DeleteObject, Lose, Own

\* What upload hands to the row is the new key, or what was there.
LEMMA UploadedValue ==
    ASSUME NEW k \in Keys, NEW success \in BOOLEAN, NEW found \in Values
    PROVE  OrExisting(UploadedKey(success, k), found) = IF success THEN k ELSE found
  BY NoneIsNothing DEF OrExisting, UploadedKey, Values

LEMMA TypeStep == TypeOK /\ [Next]_vars => TypeOK'
<1> SUFFICES ASSUME TypeOK, [Next]_vars PROVE TypeOK'
  OBVIOUS
<1>0. \A r \in Requests : request[r] \in Handlers
  BY DEF TypeOK
<1>1. ASSUME NEW r \in Requests, NEW a \in Accounts, NEW text \in Texts,
             Create(r, a, text)
      PROVE  TypeOK'
  <2>1. pasted' \in SUBSET Keys
    BY <1>1 DEF Create, TypeOK
  <2> QED
    BY <1>1, <2>1, BeginType, TextsAreValues DEF Create, Ops, Pcs
<1>2. ASSUME NEW r \in Requests, NEW a \in Accounts,
             Update(r, a) \/ Remove(r, a) \/ Rewrite(r, a)
      PROVE  TypeOK'
  <2>1. row[a].image \in Values
    BY DEF TypeOK
  <2>2. pasted' \in SUBSET Keys
    BY <1>2 DEF Update, Remove, Rewrite, TypeOK
  <2> QED
    BY <1>2, <2>1, <2>2, BeginType DEF Update, Remove, Rewrite, Ops, Pcs
<1>3. ASSUME NEW a \in Accounts, Register(a) PROVE TypeOK'
  BY <1>3 DEF Register, TypeOK
<1>4. ASSUME NEW r \in Requests, NEW k \in Keys, Upload(r, k) PROVE TypeOK'
  <2>1. request[r].found \in Values
    BY <1>0 DEF Handlers
  <2>2. PICK image \in Values : Resolved(r, image)
    BY <1>4, <2>1, UploadedValue DEF Upload, Values
  <2>3. request' \in [Requests -> Handlers]
    BY <2>2, ResolvedType
  <2>4. request[r].account \in Accounts \cup {None}
    BY <1>0 DEF Handlers
  <2>5. object' \in [Keys -> [state : {"unused", "stored", "gone"},
                             owner : Accounts \cup {None}]]
    BY <1>4, <2>4 DEF Upload, Put, Lose, TypeOK
  <2>6. dropped' \in SUBSET Keys /\ UNCHANGED <<row, contested, halfRemoved, pasted>>
    BY <1>4 DEF Upload, TypeOK
  <2> QED
    BY <2>3, <2>5, <2>6 DEF TypeOK
<1>5. ASSUME NEW r \in Requests, NEW image \in Texts \cup {request[r].found},
             ResolveText(r, image)
      PROVE  TypeOK'
  <2>1. image \in Values
    BY <1>0, TextsAreValues DEF Handlers
  <2>2. request' \in [Requests -> Handlers]
    BY <1>5, <2>1, ResolvedType DEF ResolveText
  <2> QED
    BY <1>5, <2>2 DEF ResolveText, TypeOK
<1>6. ASSUME NEW r \in Requests, Preload(r) PROVE TypeOK'
  <2>1. request' \in [Requests -> Handlers]
    BY <1>6, GotoType DEF Preload, Pcs
  <2> QED
    BY <1>6, <2>1 DEF Preload, TypeOK
<1>7. ASSUME NEW r \in Requests, Save(r) PROVE TypeOK'
  <2>1. request' \in [Requests -> Handlers]
    BY <1>7, GotoType, DoneType DEF Save, Pcs
  <2>2. request[r].image \in Values
    BY <1>0 DEF Handlers
  <2>3. row' \in [Accounts -> [state : {"unused", "alive", "deleted"}, image : Values]]
    BY <1>7, <2>2 DEF Save, TypeOK
  <2> QED
    BY <1>7, <2>1, <2>3 DEF Save, TypeOK
<1>8. ASSUME NEW r \in Requests, Replace(r) PROVE TypeOK'
  <2>1. request' \in [Requests -> Handlers]
    BY <1>8, DoneType DEF Replace
  <2> QED
    BY <1>8, <2>1, DeleteObjectType DEF Replace, TypeOK
<1>9. ASSUME NEW r \in Requests, RemoveObject(r) PROVE TypeOK'
  <2>1. request' \in [Requests -> Handlers]
    BY <1>9, GotoType DEF RemoveObject, Pcs
  <2> QED
    BY <1>9, <2>1, DeleteObjectType DEF RemoveObject, TypeOK
<1>10. ASSUME NEW r \in Requests, SoftRemove(r) PROVE TypeOK'
  <2>1. request' \in [Requests -> Handlers]
    BY <1>10, DoneType DEF SoftRemove
  <2>2. row' \in [Accounts -> [state : {"unused", "alive", "deleted"}, image : Values]]
    BY <1>10 DEF SoftRemove, TypeOK
  <2> QED
    BY <1>10, <2>1, <2>2 DEF SoftRemove, TypeOK
<1>11. ASSUME NEW r \in Requests, Fail(r) PROVE TypeOK'
  <2>1. request' \in [Requests -> Handlers]
    BY <1>11, DoneType DEF Fail
  <2>2. halfRemoved' \in SUBSET Accounts /\ dropped' \in SUBSET Keys
    BY <1>11 DEF Fail, Owes, Own, TypeOK
  <2> QED
    BY <1>11, <2>1, <2>2 DEF Fail, TypeOK
<1>12. CASE UNCHANGED vars
  BY <1>12 DEF vars, TypeOK
<1> QED
  BY <1>1, <1>2, <1>3, <1>4, <1>5, <1>6, <1>7, <1>8, <1>9, <1>10, <1>11, <1>12
     DEF Next, Step

\* Every variable keeps its type in every behaviour of the handlers.
THEOREM TypeCorrect == Spec => []TypeOK
<1>1. Init => TypeOK
  BY IdleIsHandler DEF Init, TypeOK, Values
<1> QED
  BY <1>1, TypeStep, PTL DEF Spec

-----------------------------------------------------------------------------
(* The inductive invariant. *)

\* The steps each kind of handler goes through.
Shape(r) ==
    \/ request[r] = Idle
    \/ /\ Acct(r) \in Accounts
       /\ \/ /\ Op(r) = "create" /\ Pc(r) \in {"resolve", "save"}
             /\ request[r].found \in {Empty, Url} \cup pasted
          \/ Op(r) = "update" /\ Pc(r) \in {"resolve", "preload", "save", "replace"}
          \/ Op(r) = "remove" /\ Pc(r) \in {"delete", "softRemove"}
          \/ Op(r) = "rewrite" /\ Pc(r) = "save" /\ request[r].image = request[r].found
       /\ Pc(r) = "resolve" => request[r].image = request[r].found

Shapes == \A r \in Requests : Shape(r)

\* Account a may name key k: it was issued, for this account if no body named it.
MayName(k, a) == object[k].state # "unused" /\ (object[k].owner = a \/ k \in pasted)

RowsOwn == \A a \in Accounts, k \in Keys : row[a].image = k => MayName(k, a)

HandlersOwn == \A r \in Requests, k \in Keys :
    k \in {request[r].found, request[r].image} => MayName(k, Acct(r))

UnusedAreEmpty == \A a \in Accounts : row[a].state = "unused" => row[a].image = Empty

\* An account being created is not there yet, and no other handler knows it.
Creating == \A r \in Requests : Op(r) = "create" =>
    /\ row[Acct(r)].state = "unused"
    /\ \A q \in Requests \ {r} : Acct(q) # Acct(r)

Settled(r) == Acct(r) \in Accounts \ contested

Alone == \A r, q \in Requests :
    r # q /\ Acct(r) = Acct(q) /\ Settled(r) => Op(r) = "rewrite"

\* What the row holds is what the handler read, until it saved.
Current == \A r \in Requests : Settled(r) /\ Op(r) # "create" =>
    /\ Alive(Acct(r))
    /\ row[Acct(r)].image = IF Pc(r) = "replace" THEN request[r].image
                                                 ELSE request[r].found

\* What the handler is about to save is there.
Pending == \A r \in Requests, k \in Keys :
    /\ Settled(r) /\ Pc(r) \in {"preload", "save"}
    /\ k = request[r].image /\ k # request[r].found
    => Stored(k) \/ k \in pasted

\* What a removal was to delete is gone, or the call failed.
Removing == \A r \in Requests : \A k \in Own(r) :
    Settled(r) /\ Pc(r) = "softRemove" /\ k = request[r].found
    => ~Stored(k) \/ k \in dropped

Ownership == TypeOK /\ Shapes /\ RowsOwn /\ HandlersOwn /\ UnusedAreEmpty /\ Creating

SettledInv == Ownership /\ Alone /\ Current /\ Pending /\ Removing

-----------------------------------------------------------------------------
(* What a step of a running handler leaves alone. *)

LEMMA RunningHandler ==
    ASSUME Shapes, NEW r \in Requests, Step(r)
    PROVE  /\ request[r] # Idle
           /\ Acct(r) \in Accounts
           /\ Shape(r)
<1>1. request[r] # Idle
  BY DEF Step, Upload, ResolveText, Preload, Save, Replace, RemoveObject, SoftRemove,
         Fail, Idle
<1> QED
  BY <1>1 DEF Shapes, Shape

\* Only the handler itself moves, and it stays with its account or ends.
LEMMA HandlerFrame ==
    ASSUME TypeOK, NEW r \in Requests, Step(r)
    PROVE  /\ \A q \in Requests : q # r => request'[q] = request[q]
           /\ \/ request'[r] = Idle
              \/ /\ request'[r].account = request[r].account
                 /\ request'[r].op = request[r].op
                 /\ request'[r].found = request[r].found
           /\ contested' = contested
<1> USE DEF TypeOK
<1>1. ASSUME NEW image, Resolved(r, image)
      PROVE  /\ \A q \in Requests : q # r => request'[q] = request[q]
             /\ request'[r].account = request[r].account
             /\ request'[r].op = request[r].op
             /\ request'[r].found = request[r].found
  BY <1>1 DEF Resolved
<1>2. ASSUME NEW pc, Goto(r, pc)
      PROVE  /\ \A q \in Requests : q # r => request'[q] = request[q]
             /\ request'[r].account = request[r].account
             /\ request'[r].op = request[r].op
             /\ request'[r].found = request[r].found
  BY <1>2 DEF Goto
<1>3. ASSUME Done(r)
      PROVE  /\ \A q \in Requests : q # r => request'[q] = request[q]
             /\ request'[r] = Idle
  BY <1>3 DEF Done
<1>4. (\E image : Resolved(r, image)) \/ (\E pc : Goto(r, pc)) \/ Done(r)
  BY DEF Step, Upload, ResolveText, Preload, Save, Replace, RemoveObject, SoftRemove, Fail
<1>5. contested' = contested
  BY DEF Step, Upload, ResolveText, Preload, Save, Replace, RemoveObject, SoftRemove, Fail
<1> QED
  BY <1>1, <1>2, <1>3, <1>4, <1>5

\* Only the row of its account changes.
LEMMA RowFrame ==
    ASSUME TypeOK, NEW r \in Requests, Step(r), NEW a \in Accounts, a # Acct(r)
    PROVE  row'[a] = row[a]
  BY DEF TypeOK, Acct, Step, Upload, ResolveText, Preload, Save, Replace, RemoveObject,
         SoftRemove, Fail

\* A deletion is of the object the handler found.
LEMMA DeletionFrame ==
    ASSUME TypeOK, NEW r \in Requests, DeleteObject(r), NEW k \in Keys
    PROVE  /\ \/ object'[k] = object[k]
              \/ /\ k = request[r].found
                 /\ object'[k] = [object[k] EXCEPT !.state = "gone"]
           /\ k \in dropped => k \in dropped' \/ object'[k].state = "gone"
           /\ k = request[r].found /\ k \in Own(r)
              => object'[k].state = "gone" \/ k \in dropped'
  BY DEF TypeOK, DeleteObject, Lose

\* What a body named once stays named.
LEMMA PastedGrows == ASSUME [Next]_vars PROVE pasted \subseteq pasted'
  BY DEF Next, vars, Create, Update, Remove, Rewrite, Register, Step, Upload, ResolveText,
         Preload, Save, Replace, RemoveObject, SoftRemove, Fail

\* An upload takes a key nobody has.
LEMMA UploadFrame ==
    ASSUME TypeOK, NEW r \in Requests, NEW u \in Keys, Upload(r, u), NEW k \in Keys
    PROVE  /\ k # u => object'[k] = object[k]
           /\ object[u].state = "unused"
           /\ k \in dropped => k \in dropped'
  BY DEF TypeOK, Upload, Put, Lose, Fresh

\* An issued key stays with its account, and while no body named it only a
\* handler of that account deletes the object.
LEMMA ObjectFrame ==
    ASSUME Ownership, NEW r \in Requests, Step(r), NEW k \in Keys,
           object[k].state # "unused"
    PROVE  /\ object'[k].state # "unused"
           /\ object'[k].owner = object[k].owner
           /\ object[k].owner # Acct(r) /\ k \notin pasted => object'[k] = object[k]
           /\ object'[k] # object[k] => k = request[r].found /\ Pc(r) \in {"replace", "delete"}
           /\ k \in dropped => k \in dropped' \/ ~Stored(k)'
           /\ Stored(k)' => Stored(k)
<1> USE DEF Ownership
<1>0. request[r].found \in Values /\ object[k] \in [state : {"unused", "stored", "gone"},
                                                   owner : Accounts \cup {None}]
  BY DEF TypeOK, Handlers
<1>1. ASSUME NEW u \in Keys, Upload(r, u)
      PROVE  object'[k] = object[k] /\ (k \in dropped => k \in dropped')
  BY <1>1, UploadFrame
<1>2. ASSUME DeleteObject(r), Pc(r) \in {"replace", "delete"}
      PROVE  /\ object'[k].state # "unused"
             /\ object'[k].owner = object[k].owner
             /\ object[k].owner # Acct(r) /\ k \notin pasted => object'[k] = object[k]
             /\ object'[k] # object[k] => k = request[r].found /\ Pc(r) \in {"replace", "delete"}
             /\ k \in dropped => k \in dropped' \/ ~Stored(k)'
             /\ Stored(k)' => Stored(k)
  <2>1. k = request[r].found => object[k].owner = Acct(r) \/ k \in pasted
    BY DEF HandlersOwn, MayName
  <2> QED
    BY <1>0, <1>2, <2>1, DeletionFrame DEF Stored
<1>3. \/ \E u \in Keys : Upload(r, u)
      \/ DeleteObject(r) /\ Pc(r) \in {"replace", "delete"}
      \/ UNCHANGED object /\ dropped \subseteq dropped'
  BY DEF Step, ResolveText, Preload, Save, Replace, RemoveObject, SoftRemove, Fail, Pc
<1> QED
  BY <1>1, <1>2, <1>3 DEF Stored

-----------------------------------------------------------------------------
(* Ownership is inductive. *)

LEMMA BeginFrame ==
    ASSUME TypeOK, NEW r \in Requests, NEW a \in Accounts,
           NEW op, NEW pc, NEW found, Begin(r, op, pc, a, found)
    PROVE  /\ request[r] = Idle
           /\ request'[r] = [op |-> op, pc |-> pc, account |-> a, found |-> found,
                             image |-> found]
           /\ \A q \in Requests : q # r => request'[q] = request[q]
           /\ UNCHANGED <<row, object, halfRemoved, dropped>>
           /\ contested \subseteq contested'
  BY DEF TypeOK, Begin

\* The ways a handler begins.
Begins(r, a) ==
    \/ \E text \in Texts : Create(r, a, text)
    \/ Update(r, a) \/ Remove(r, a) \/ Rewrite(r, a)

LEMMA BeginsFrame ==
    ASSUME TypeOK, NEW r \in Requests, NEW a \in Accounts, Begins(r, a)
    PROVE  /\ request[r] = Idle
           /\ Shape(r)'
           /\ request'[r].account = a /\ request'[r].image = request'[r].found
           /\ \/ request'[r].op = "create"
                 /\ request'[r].found \in Texts \cap ({Empty, Url} \cup pasted')
                 /\ row[a].state = "unused" /\ ~Busy(a)
              \/ request'[r].op # "create" /\ request'[r].found = row[a].image /\ Alive(a)
           /\ request'[r].pc \in {"resolve", "delete", "save"}
           /\ \A q \in Requests : q # r => request'[q] = request[q]
           /\ UNCHANGED <<row, object, halfRemoved, dropped>>
           /\ contested \subseteq contested'
<1>1. PICK op \in Ops, pc \in Pcs, found \in Values :
          /\ Begin(r, op, pc, a, found)
          /\ \/ op = "create" /\ pc = "resolve"
                /\ found \in Texts \cap ({Empty, Url} \cup pasted')
                /\ row[a].state = "unused" /\ ~Busy(a)
             \/ found = row[a].image /\ Alive(a)
                /\ <<op, pc>> \in {<<"update", "resolve">>, <<"remove", "delete">>,
                                   <<"rewrite", "save">>}
  <2>1. ASSUME NEW text \in Texts, Create(r, a, text)
        PROVE  /\ text \in Values /\ text \in {Empty, Url} \cup pasted'
               /\ Begin(r, "create", "resolve", a, text)
               /\ row[a].state = "unused" /\ ~Busy(a)
    BY <2>1 DEF Create, Texts, Values
  <2>2. ASSUME Update(r, a) \/ Remove(r, a) \/ Rewrite(r, a)
        PROVE  /\ row[a].image \in Values /\ Alive(a)
               /\ \/ Begin(r, "update", "resolve", a, row[a].image)
                  \/ Begin(r, "remove", "delete", a, row[a].image)
                  \/ Begin(r, "rewrite", "save", a, row[a].image)
    BY <2>2 DEF Update, Remove, Rewrite, TypeOK
  <2> QED
    BY <2>1, <2>2 DEF Begins, Ops, Pcs
<1>2. /\ request[r] = Idle
      /\ request'[r] = [op |-> op, pc |-> pc, account |-> a, found |-> found,
                        image |-> found]
      /\ \A q \in Requests : q # r => request'[q] = request[q]
      /\ UNCHANGED <<row, object, halfRemoved, dropped>>
      /\ contested \subseteq contested'
  BY <1>1, BeginFrame
<1>3. Shape(r)'
  BY <1>1, <1>2 DEF Shape, Acct, Op, Pc
<1> QED
  BY <1>1, <1>2, <1>3

LEMMA NextSteps ==
    ASSUME [Next]_vars
    PROVE  \/ \E r \in Requests, a \in Accounts : Begins(r, a)
           \/ \E a \in Accounts : Register(a)
           \/ \E r \in Requests : Step(r)
           \/ UNCHANGED vars
  BY DEF Next, Begins

\* The step a handler goes on to.
LEMMA NextPc ==
    ASSUME TypeOK, Shapes, NEW r \in Requests, Step(r)
    PROVE  \/ request'[r] = Idle
           \/ /\ Pc(r) = "resolve" /\ Op(r) = "create" /\ request'[r].pc = "save"
           \/ /\ Pc(r) = "resolve" /\ Op(r) = "update" /\ request'[r].pc = "preload"
           \/ /\ Pc(r) = "preload" /\ request'[r].pc = "save"
              /\ request'[r].image = request[r].image
           \/ /\ Pc(r) = "save" /\ Op(r) = "update" /\ request'[r].pc = "replace"
              /\ request'[r].image = request[r].image
           \/ /\ Pc(r) = "delete" /\ request'[r].pc = "softRemove"
              /\ request'[r].image = request[r].image
<1> USE DEF TypeOK
<1>0. Shape(r) /\ request[r] # Idle
  BY RunningHandler DEF Shapes
<1>1. ASSUME NEW image, Resolved(r, image), Pc(r) = "resolve"
      PROVE  \/ /\ Pc(r) = "resolve" /\ Op(r) = "create" /\ request'[r].pc = "save"
             \/ /\ Pc(r) = "resolve" /\ Op(r) = "update" /\ request'[r].pc = "preload"
  BY <1>0, <1>1 DEF Resolved, Shape, Op, Pc
<1>2. ASSUME NEW pc, Goto(r, pc)
      PROVE  request'[r].pc = pc /\ request'[r].image = request[r].image
  BY <1>2 DEF Goto
<1>3. ASSUME Done(r) PROVE request'[r] = Idle
  BY <1>3 DEF Done
<1>4. \/ \E image : Resolved(r, image) /\ Pc(r) = "resolve"
      \/ Pc(r) = "preload" /\ Goto(r, "save")
      \/ Pc(r) = "save" /\ Op(r) = "update" /\ Goto(r, "replace")
      \/ Pc(r) = "delete" /\ Goto(r, "softRemove")
      \/ Done(r)
  BY DEF Step, Upload, ResolveText, Preload, Save, Replace, RemoveObject, SoftRemove,
         Fail, Op, Pc
<1> QED
  BY <1>1, <1>2, <1>3, <1>4

LEMMA ShapesStep == ASSUME Ownership, [Next]_vars PROVE Shapes'
<1> SUFFICES ASSUME NEW q \in Requests PROVE Shape(q)'
  BY DEF Shapes
<1> USE DEF Ownership
<1>0. Shape(q)
  BY DEF Shapes
<1>a. pasted \subseteq pasted'
  BY PastedGrows
<1>1. request'[q] = request[q] => Shape(q)'
  BY <1>0, <1>a DEF Shape, Acct, Op, Pc
<1>2. ASSUME NEW r \in Requests, NEW a \in Accounts, Begins(r, a) PROVE Shape(q)'
  BY <1>1, <1>2, BeginsFrame
<1>3. ASSUME NEW r \in Requests, Step(r) PROVE Shape(q)'
  <2>1. CASE q # r
    BY <1>1, <1>3, <2>1, HandlerFrame
  <2>2. CASE q = r
    <3>1. CASE request'[r] = Idle
      BY <2>2, <3>1 DEF Shape, Idle
    <3>2. CASE request'[r] # Idle
      <4>1. /\ request'[r].account = request[r].account
            /\ request'[r].op = request[r].op
            /\ request'[r].found = request[r].found
        BY <1>3, <3>2, HandlerFrame
      <4>2. Acct(r) \in Accounts /\ Shape(r) /\ request[r] # Idle
        BY <1>3, RunningHandler
      <4>3. \/ Pc(r) = "resolve" /\ Op(r) = "create" /\ request'[r].pc = "save"
            \/ Pc(r) = "resolve" /\ Op(r) = "update" /\ request'[r].pc = "preload"
            \/ Pc(r) = "preload" /\ request'[r].pc = "save"
            \/ Pc(r) = "save" /\ Op(r) = "update" /\ request'[r].pc = "replace"
            \/ Pc(r) = "delete" /\ request'[r].pc = "softRemove"
        BY <1>3, <3>2, NextPc
      <4>4. Shape(r)'
        BY <1>a, <4>1, <4>2, <4>3 DEF Shape, Acct, Op, Pc
      <4> QED
        BY <2>2, <4>4
    <3> QED
      BY <3>1, <3>2
  <2> QED
    BY <2>1, <2>2
<1>4. CASE (\E a \in Accounts : Register(a)) \/ UNCHANGED vars
  BY <1>1, <1>4 DEF Register, vars
<1> QED
  BY <1>2, <1>3, <1>4, NextSteps

\* A step puts into the row what was there or what the handler holds.
LEMMA RowStep ==
    ASSUME TypeOK, Shapes, NEW r \in Requests, Step(r)
    PROVE  LET a == Acct(r) IN
           \/ row'[a] = row[a] /\ Pc(r) # "softRemove" /\ Pc(r) # "save"
           \/ Pc(r) = "save" /\ row'[a] = [state |-> "alive", image |-> request[r].image]
           \/ Pc(r) = "softRemove" /\ row'[a] = [row[a] EXCEPT !.state = "deleted"]
           \/ Fail(r) /\ row'[a] = row[a]
<1>1. Acct(r) \in Accounts
  BY RunningHandler
<1> QED
  BY <1>1 DEF TypeOK, Acct, Pc, Step, Upload, ResolveText, Preload, Save, Replace,
              RemoveObject, SoftRemove, Fail

LEMMA RowsOwnStep == ASSUME Ownership, [Next]_vars PROVE RowsOwn'
<1> SUFFICES ASSUME NEW a \in Accounts, NEW k \in Keys, row'[a].image = k
             PROVE  MayName(k, a)'
  BY DEF RowsOwn
<1> USE DEF Ownership
<1>a. pasted \subseteq pasted'
  BY PastedGrows
<1>1. ASSUME MayName(k, a), object'[k] = object[k] PROVE MayName(k, a)'
  BY <1>a, <1>1 DEF MayName
<1>2. row[a].image = k => MayName(k, a)
  BY DEF RowsOwn
<1>3. ASSUME NEW r \in Requests, NEW b \in Accounts, Begins(r, b)
      PROVE  MayName(k, a)'
  BY <1>1, <1>2, <1>3, BeginsFrame
<1>4. ASSUME NEW r \in Requests, Step(r) PROVE MayName(k, a)'
  <2>1. MayName(k, a)
    <3>1. CASE a # Acct(r)
      BY <1>2, <1>4, <3>1, RowFrame
    <3>2. CASE a = Acct(r)
      <4>1. row[a].image = k \/ request[r].image = k
        <5>1. row[a] \in [state : {"unused", "alive", "deleted"}, image : Values]
          BY DEF TypeOK
        <5>2. \/ row'[a] = row[a]
              \/ row'[a] = [state |-> "alive", image |-> request[r].image]
              \/ row'[a] = [row[a] EXCEPT !.state = "deleted"]
          BY <1>4, <3>2, RowStep
        <5> QED
          BY <5>1, <5>2
      <4> QED
        BY <1>2, <3>2, <4>1 DEF HandlersOwn
    <3> QED
      BY <3>1, <3>2
  <2> QED
    BY <1>a, <1>4, <2>1, ObjectFrame DEF MayName
<1>5. ASSUME NEW b \in Accounts, Register(b) PROVE MayName(k, a)'
  <2>1. row'[a].image = row[a].image
    BY <1>5 DEF Register, TypeOK
  <2> QED
    BY <1>1, <1>2, <1>5, <2>1 DEF Register
<1>6. CASE UNCHANGED vars
  BY <1>1, <1>2, <1>6 DEF vars
<1> QED
  BY <1>3, <1>4, <1>5, <1>6, NextSteps

\* What a handler holds after its step: what it held, or its new upload.
LEMMA HeldStep ==
    ASSUME TypeOK, Shapes, NEW r \in Requests, Step(r),
           NEW k \in Keys, k \in {request'[r].found, request'[r].image}
    PROVE  \/ k \in {request[r].found, request[r].image}
           \/ /\ Upload(r, k) /\ Put(r, k) /\ k = request'[r].image
           \/ /\ k \in pasted' /\ object[k].state # "unused"
<1>0. request[r].found \in Values /\ request \in [Requests -> Handlers]
  BY DEF TypeOK, Handlers
<1>1. ASSUME NEW u \in Keys, Upload(r, u)
      PROVE  k \in {request[r].found, request[r].image} \/ (Put(r, k) /\ k = u)
  <2>1. PICK success \in BOOLEAN :
            /\ Resolved(r, OrExisting(UploadedKey(success, u), request[r].found))
            /\ success => Put(r, u)
    BY <1>1 DEF Upload
  <2>2. Resolved(r, IF success THEN u ELSE request[r].found)
    BY <1>0, <2>1, UploadedValue
  <2> QED
    <3>1. request'[r].found = request[r].found
      BY <1>0, <2>2 DEF Resolved
    <3>2. CASE success
      <4>1. Resolved(r, u)
        BY <2>2, <3>2
      <4>2. request'[r].image = u
        BY <1>0, <4>1 DEF Resolved
      <4>3. k = u => Put(r, k)
        BY <2>1, <3>2
      <4> QED
        BY <3>1, <4>2, <4>3
    <3>3. CASE ~success
      <4>1. Resolved(r, request[r].found)
        BY <2>2, <3>3
      <4>2. request'[r].image = request[r].found
        BY <1>0, <4>1 DEF Resolved
      <4> QED
        BY <3>1, <4>2
    <3> QED
      BY <3>2, <3>3
<1>2. ASSUME NEW image \in Texts \cup {request[r].found}, ResolveText(r, image),
             k \notin {request[r].found, request[r].image}
      PROVE  k \in pasted' /\ object[k].state # "unused"
  <2>1. request'[r].found = request[r].found /\ request'[r].image = image
    BY <1>0, <1>2 DEF ResolveText, Resolved
  <2>2. k = image
    BY <1>2, <2>1
  <2> QED
    BY <1>2, <2>2, NoKeys DEF ResolveText, Texts
<1>3. CASE Preload(r) \/ Save(r) \/ Replace(r) \/ RemoveObject(r) \/ SoftRemove(r) \/ Fail(r)
  <2>1. ASSUME NEW pc, Goto(r, pc)
        PROVE  request'[r].found = request[r].found /\ request'[r].image = request[r].image
    BY <1>0, <2>1 DEF Goto
  <2>2. ASSUME Done(r) PROVE request'[r].found = Empty /\ request'[r].image = Empty
    BY <1>0, <2>2 DEF Done, Idle
  <2>3. (\E pc : Goto(r, pc)) \/ Done(r)
    BY <1>3 DEF Preload, Save, Replace, RemoveObject, SoftRemove, Fail
  <2> QED
    BY <2>1, <2>2, <2>3, NoKeys
<1>4. ASSUME NEW u \in Keys, Upload(r, u), k \notin {request[r].found, request[r].image}
      PROVE  k = request'[r].image
  BY <1>0, <1>4, HandlerFrame, NoKeys DEF Idle, Step
<1> QED
  BY <1>1, <1>2, <1>3, <1>4 DEF Step

LEMMA HandlersOwnStep == ASSUME Ownership, [Next]_vars PROVE HandlersOwn'
<1> SUFFICES ASSUME NEW q \in Requests, NEW k \in Keys,
                    k \in {request'[q].found, request'[q].image}
             PROVE  MayName(k, request[q].account)'
  BY DEF HandlersOwn, Acct
<1> USE DEF Ownership
<1>a. pasted \subseteq pasted'
  BY PastedGrows
<1>2. ASSUME k \in {request[q].found, request[q].image}
      PROVE  MayName(k, request[q].account)
  BY <1>2 DEF HandlersOwn, Acct
<1>3. ASSUME NEW r \in Requests, NEW b \in Accounts, Begins(r, b)
      PROVE  MayName(k, request[q].account)'
  <2>1. object'[k] = object[k]
    BY <1>3, BeginsFrame
  <2>2. CASE q # r
    BY <1>a, <1>2, <1>3, <2>1, <2>2, BeginsFrame DEF MayName
  <2>3. CASE q = r
    <3>1. request'[q].account = b /\ k = request'[q].found
      BY <1>3, <2>3, BeginsFrame
    <3>2. CASE k \in Texts /\ k \in pasted'
      BY <2>1, <3>2, NoKeys DEF MayName, Texts
    <3>3. CASE k = row[b].image
      <4>1. MayName(k, b)
        BY <3>3 DEF RowsOwn
      <4> QED
        BY <1>a, <2>1, <3>1, <4>1 DEF MayName
    <3> QED
      BY <1>3, <2>3, <3>1, <3>2, <3>3, BeginsFrame, NoKeys
  <2> QED
    BY <2>2, <2>3
<1>4. ASSUME NEW r \in Requests, Step(r)
      PROVE  MayName(k, request[q].account)'
  <2>1. object[k].state # "unused" =>
            object'[k].state # "unused" /\ object'[k].owner = object[k].owner
    BY <1>4, ObjectFrame
  <2>2. CASE q # r
    BY <1>a, <1>2, <1>4, <2>1, <2>2, HandlerFrame DEF MayName
  <2>3. CASE q = r
    <3>1. request'[r].account = request[r].account
      BY <1>4, <2>3, HandlerFrame, NoKeys DEF Idle
    <3>2. CASE k \in {request[r].found, request[r].image}
      BY <1>a, <1>2, <2>1, <2>3, <3>1, <3>2 DEF MayName
    <3>3. CASE Put(r, k)
      BY <2>3, <3>1, <3>3 DEF Put, TypeOK, MayName
    <3>4. CASE k \in pasted' /\ object[k].state # "unused"
      BY <2>1, <3>4 DEF MayName
    <3> QED
      BY <1>4, <2>3, <3>2, <3>3, <3>4, HeldStep
  <2> QED
    BY <2>2, <2>3
<1>5. CASE (\E a \in Accounts : Register(a)) \/ UNCHANGED vars
  BY <1>a, <1>2, <1>5 DEF Register, vars, MayName
<1> QED
  BY <1>3, <1>4, <1>5, NextSteps

LEMMA UnusedAreEmptyStep == ASSUME Ownership, [Next]_vars PROVE UnusedAreEmpty'
<1> SUFFICES ASSUME NEW a \in Accounts, row'[a].state = "unused"
             PROVE  row'[a].image = Empty
  BY DEF UnusedAreEmpty
<1> USE DEF Ownership
<1>0. row[a] \in [state : {"unused", "alive", "deleted"}, image : Values]
  BY DEF TypeOK
<1>1. row'[a] = row[a] => row'[a].image = Empty
  BY DEF UnusedAreEmpty
<1>2. ASSUME NEW r \in Requests, NEW b \in Accounts, Begins(r, b) PROVE row'[a] = row[a]
  BY <1>2, BeginsFrame
<1>3. ASSUME NEW r \in Requests, Step(r) PROVE row'[a] = row[a]
  <2>1. CASE a # Acct(r)
    BY <1>3, <2>1, RowFrame
  <2>2. CASE a = Acct(r)
    <3>1. \/ row'[a] = row[a]
          \/ row'[a] = [state |-> "alive", image |-> request[r].image]
          \/ row'[a] = [row[a] EXCEPT !.state = "deleted"]
      BY <1>3, <2>2, RowStep
    <3> QED
      BY <1>0, <3>1
  <2> QED
    BY <2>1, <2>2
<1>4. ASSUME NEW b \in Accounts, Register(b) PROVE row'[a] = row[a]
  <2>1. a = b => row'[a].state = "alive"
    BY <1>4 DEF Register, TypeOK
  <2>2. a # b => row'[a] = row[a]
    BY <1>4 DEF Register, TypeOK
  <2> QED
    BY <2>1, <2>2
<1>5. UNCHANGED vars => row'[a] = row[a]
  BY DEF vars
<1> QED
  BY <1>1, <1>2, <1>3, <1>4, <1>5, NextSteps

LEMMA CreatingStep == ASSUME Ownership, [Next]_vars PROVE Creating'
<1> SUFFICES ASSUME NEW p \in Requests, request'[p].op = "create"
             PROVE  /\ row'[request'[p].account].state = "unused"
                    /\ \A q \in Requests \ {p} : request'[q].account # request'[p].account
  BY DEF Creating, Acct, Op
<1> USE DEF Ownership
<1>1. request[p].op = "create" =>
        /\ row[request[p].account].state = "unused"
        /\ \A q \in Requests \ {p} : request[q].account # request[p].account
        /\ request[p].account \in Accounts
  BY DEF Creating, Acct, Op, Shapes, Shape, Idle
<1>2. ASSUME NEW r \in Requests, NEW b \in Accounts, Begins(r, b)
      PROVE  /\ row'[request'[p].account].state = "unused"
             /\ \A q \in Requests \ {p} : request'[q].account # request'[p].account
  <2>1. CASE p = r
    <3>1. /\ request'[p].account = b /\ row[b].state = "unused" /\ ~Busy(b)
          /\ row' = row /\ \A q \in Requests \ {p} : request'[q] = request[q]
      BY <1>2, <2>1, BeginsFrame
    <3> QED
      BY <3>1 DEF Busy
  <2>2. CASE p # r
    <3>1. /\ request'[p] = request[p] /\ row' = row
          /\ \A q \in Requests : q # r => request'[q] = request[q]
          /\ request'[r].account = b
          /\ ~Busy(b) \/ Alive(b)
      BY <1>2, <2>2, BeginsFrame
    <3>2. b # request[p].account
      BY <1>1, <3>1 DEF Busy, Alive
    <3> QED
      BY <1>1, <3>1, <3>2
  <2> QED
    BY <2>1, <2>2
<1>3. ASSUME NEW r \in Requests, Step(r)
      PROVE  /\ row'[request'[p].account].state = "unused"
             /\ \A q \in Requests \ {p} : request'[q].account # request'[p].account
  <2>1. \A q \in Requests : \/ request'[q].account = request[q].account
                            \/ q = r /\ request'[q] = Idle
    BY <1>3, HandlerFrame
  <2>2. Acct(r) \in Accounts
    BY <1>3, RunningHandler
  <2>3. /\ request[p].op = "create" /\ request'[p].account = request[p].account
        /\ request'[p] # Idle
    <3>1. request'[p] # Idle
      BY DEF Idle
    <3> QED
      BY <1>3, <3>1, HandlerFrame
  <2>4. \A q \in Requests \ {p} : request'[q].account # request'[p].account
    BY <1>1, <2>1, <2>3, NoneIsNothing DEF Idle
  <2>5. row'[request[p].account] = row[request[p].account]
    <3>1. CASE p # r
      BY <1>1, <1>3, <2>3, <3>1, RowFrame DEF Acct
    <3>2. CASE p = r
      <4>1. Pc(r) # "softRemove" /\ Pc(r) # "save"
        <5>1. Shape(r)
          BY DEF Shapes
        <5> QED
          BY <1>3, <2>3, <3>2, <5>1, NextPc DEF Shape, Op, Pc, Idle
      <4> QED
        BY <1>3, <3>2, <4>1, RowStep DEF Acct
    <3> QED
      BY <3>1, <3>2
  <2> QED
    BY <1>1, <2>3, <2>4, <2>5
<1>4. ASSUME NEW a \in Accounts, Register(a)
      PROVE  /\ row'[request'[p].account].state = "unused"
             /\ \A q \in Requests \ {p} : request'[q].account # request'[p].account
  <2>1. a # request[p].account
    BY <1>4 DEF Register, Busy
  <2> QED
    BY <1>1, <1>4, <2>1 DEF Register, TypeOK
<1>5. CASE UNCHANGED vars
  BY <1>1, <1>5 DEF vars
<1> QED
  BY <1>2, <1>3, <1>4, <1>5, NextSteps

LEMMA OwnershipInit == ASSUME Init PROVE Ownership
<1>1. TypeOK
  BY IdleIsHandler DEF Init, TypeOK, Values
<1>2. Shapes /\ HandlersOwn /\ Creating
  BY NoKeys DEF Init, Shapes, Shape, HandlersOwn, Creating, Idle, Op
<1>3. RowsOwn /\ UnusedAreEmpty
  BY NoKeys DEF Init, RowsOwn, UnusedAreEmpty
<1> QED
  BY <1>1, <1>2, <1>3 DEF Ownership

LEMMA OwnershipStep == ASSUME Ownership, [Next]_vars PROVE Ownership'
<1>1. TypeOK'
  BY TypeStep DEF Ownership
<1> QED
  BY <1>1, ShapesStep, RowsOwnStep, HandlersOwnStep, UnusedAreEmptyStep, CreatingStep
     DEF Ownership

\* However the handlers of any accounts overlap, two accounts come to name the
\* same object only by the body of a request: while no body names its key, an
\* object is out of the reach of every other account's handlers.
THEOREM KeysAreSharedByBodies == Spec => []ObjectsAreNotShared
<1>1. Init => Ownership
  BY OwnershipInit
<1>2. Ownership /\ [Next]_vars => Ownership'
  BY OwnershipStep
<1>3. Ownership => ObjectsAreNotShared
  BY DEF Ownership, RowsOwn, MayName, ObjectsAreNotShared
<1> QED
  BY <1>1, <1>2, <1>3, PTL DEF Spec

-----------------------------------------------------------------------------
(* Accounts whose handlers do not overlap. *)

\* A handler that begins on a settled account is alone there, but for
\* handlers that only write back what they read.
LEMMA BeginsAlone ==
    ASSUME TypeOK, NEW r \in Requests, NEW a \in Accounts, Begins(r, a), a \notin contested',
           NEW q \in Requests, request[q].account = a
    PROVE  request[q].op = "rewrite" /\ request'[r].op = "rewrite"
<1>1. PICK op, pc, found : Begin(r, op, pc, a, found)
  BY DEF Begins, Create, Update, Remove, Rewrite
<1>2. request'[r].op = op
  BY <1>1 DEF Begin, TypeOK
<1>3. {op, request[q].op} = {"rewrite"}
  BY <1>1 DEF Begin
<1> QED
  BY <1>2, <1>3

LEMMA AloneStep == ASSUME SettledInv, [Next]_vars PROVE Alone'
<1> SUFFICES ASSUME NEW p \in Requests, NEW q \in Requests, p # q,
                    request'[p].account = request'[q].account,
                    request'[p].account \in Accounts, request'[p].account \notin contested'
             PROVE  request'[p].op = "rewrite"
  BY DEF Alone, Settled, Acct, Op
<1> USE DEF SettledInv, Ownership
<1>1. ASSUME request[p].account = request[q].account, request[p].account \in Accounts,
             request[p].account \notin contested
      PROVE  request[p].op = "rewrite"
  BY <1>1 DEF Alone, Settled, Acct, Op
<1>2. ASSUME NEW r \in Requests, NEW a \in Accounts, Begins(r, a)
      PROVE  request'[p].op = "rewrite"
  <2>0. /\ request'[r].account = a /\ contested \subseteq contested'
        /\ \A x \in Requests : x # r => request'[x] = request[x]
    BY <1>2, BeginsFrame
  <2>1. CASE p = r
    BY <1>2, <2>0, <2>1, BeginsAlone
  <2>2. CASE q = r
    BY <1>2, <2>0, <2>2, BeginsAlone
  <2>3. CASE p # r /\ q # r
    BY <1>1, <2>0, <2>3
  <2> QED
    BY <2>1, <2>2, <2>3
<1>3. ASSUME NEW r \in Requests, Step(r) PROVE request'[p].op = "rewrite"
  <2>1. \A x \in Requests : request'[x].account \in Accounts =>
            request'[x].account = request[x].account /\ request'[x].op = request[x].op
    BY <1>3, HandlerFrame, NoneIsNothing DEF Idle
  <2> QED
    BY <1>1, <1>3, <2>1, HandlerFrame
<1>4. CASE (\E a \in Accounts : Register(a)) \/ UNCHANGED vars
  BY <1>1, <1>4 DEF Register, vars
<1> QED
  BY <1>2, <1>3, <1>4, NextSteps

\* Two different handlers of one settled account only write back.
LEMMA Together ==
    ASSUME SettledInv, NEW r \in Requests, NEW q \in Requests, r # q,
           Acct(r) = Acct(q), Settled(r)
    PROVE  /\ Op(r) = "rewrite" /\ Pc(r) = "save"
           /\ request[r].image = request[r].found
  BY NoneIsNothing DEF SettledInv, Ownership, Alone, Shapes, Shape, Settled, Acct, Op, Pc, Idle

LEMMA CurrentStep == ASSUME SettledInv, [Next]_vars PROVE Current'
<1> SUFFICES ASSUME NEW q \in Requests, request'[q].account \in Accounts,
                    request'[q].account \notin contested', request'[q].op # "create"
             PROVE  /\ row'[request'[q].account].state = "alive"
                    /\ row'[request'[q].account].image =
                           IF request'[q].pc = "replace" THEN request'[q].image
                                                         ELSE request'[q].found
  BY DEF Current, Settled, Acct, Op, Pc, Alive
<1> DEFINE a == request[q].account
<1> USE DEF SettledInv, Ownership
<1>1. ASSUME a \in Accounts, a \notin contested, request[q].op # "create"
      PROVE  /\ row[a].state = "alive"
             /\ row[a].image = IF request[q].pc = "replace" THEN request[q].image
                                                            ELSE request[q].found
  BY <1>1 DEF Current, Settled, Acct, Op, Pc, Alive
<1>2. ASSUME NEW r \in Requests, NEW b \in Accounts, Begins(r, b)
      PROVE  /\ row'[request'[q].account].state = "alive"
             /\ row'[request'[q].account].image =
                    IF request'[q].pc = "replace" THEN request'[q].image
                                                  ELSE request'[q].found
  <2>0. /\ row' = row /\ contested \subseteq contested'
        /\ q # r => request'[q] = request[q]
    BY <1>2, BeginsFrame
  <2>1. CASE q = r
    BY <1>2, <2>0, <2>1, BeginsFrame DEF Alive
  <2>2. CASE q # r
    BY <1>1, <2>0, <2>2
  <2> QED
    BY <2>1, <2>2
<1>3. ASSUME NEW r \in Requests, Step(r)
      PROVE  /\ row'[request'[q].account].state = "alive"
             /\ row'[request'[q].account].image =
                    IF request'[q].pc = "replace" THEN request'[q].image
                                                  ELSE request'[q].found
  <2>0. request'[q].account = a /\ request'[q].op = request[q].op
        /\ request'[q].found = request[q].found /\ contested' = contested
        /\ request'[q] # Idle
    BY <1>3, HandlerFrame, NoneIsNothing DEF Idle
  <2>1. a \in Accounts /\ a \notin contested
    BY <2>0
  <2>2. /\ row[a].state = "alive"
        /\ row[a].image = IF request[q].pc = "replace" THEN request[q].image
                                                       ELSE request[q].found
    BY <1>1, <2>0, <2>1
  <2>3. CASE q # r
    <3>1. request'[q] = request[q]
      BY <1>3, <2>3, HandlerFrame
    <3>2. row'[a] = row[a]
      <4>1. CASE a # Acct(r)
        BY <1>3, <2>1, <4>1, RowFrame
      <4>2. CASE a = Acct(r)
        <5>1. Op(r) = "rewrite" /\ Pc(r) = "save" /\ request[r].image = request[r].found
          BY <2>1, <2>3, <4>2, Together DEF Settled, Acct
        <5>2. row[a].image = request[r].found
          BY <2>1, <4>2, <5>1 DEF Current, Settled
        <5>3. row'[a] = row[a] \/ row'[a] = [state |-> "alive", image |-> request[r].image]
          BY <1>3, <4>2, <5>1, RowStep
        <5>4. row[a] \in [state : {"unused", "alive", "deleted"}, image : Values]
          BY <2>1 DEF TypeOK
        <5>5. row[a] = [state |-> "alive", image |-> request[r].image]
          BY <2>2, <5>1, <5>2, <5>4
        <5> QED
          BY <5>3, <5>5
      <4> QED
        BY <4>1, <4>2
    <3> QED
      BY <2>2, <3>1, <3>2
  <2>4. CASE q = r
    <3>1. Pc(r) # "save" /\ Pc(r) # "softRemove" => row'[a] = row[a]
      BY <1>3, <2>4, RowStep DEF Acct
    <3>2. CASE Pc(r) = "resolve" \/ Pc(r) = "preload" \/ Pc(r) = "delete"
      <4>1. request'[r].pc # "replace"
        BY <1>3, <2>0, <2>4, <3>2, NextPc
      <4> QED
        BY <2>0, <2>2, <2>4, <3>1, <3>2, <4>1 DEF Pc
    <3>3. CASE Pc(r) = "save"
      <4>1. request'[r].pc = "replace" /\ request'[r].image = request[r].image
        BY <1>3, <2>0, <2>4, <3>3, NextPc
      <4>2. ~Fail(r)
        BY <2>0, <2>4 DEF Fail, Done, TypeOK
      <4>3. row'[a] = [state |-> "alive", image |-> request[r].image]
        BY <1>3, <2>4, <3>3, <4>2, RowStep DEF Acct
      <4> QED
        BY <2>0, <2>4, <4>1, <4>3
    <3> QED
      BY <1>3, <2>0, <2>4, <3>2, <3>3, NextPc
  <2> QED
    BY <2>3, <2>4
<1>4. ASSUME NEW b \in Accounts, Register(b)
      PROVE  /\ row'[request'[q].account].state = "alive"
             /\ row'[request'[q].account].image =
                    IF request'[q].pc = "replace" THEN request'[q].image
                                                  ELSE request'[q].found
  <2>1. a # b /\ request' = request /\ contested' = contested
    BY <1>4 DEF Register, Busy
  <2>2. row'[a] = row[a]
    BY <1>4, <2>1 DEF Register, TypeOK
  <2> QED
    BY <1>1, <2>1, <2>2
<1>5. CASE UNCHANGED vars
  BY <1>1, <1>5 DEF vars
<1> QED
  BY <1>2, <1>3, <1>4, <1>5, NextSteps

LEMMA PendingStep == ASSUME SettledInv, [Next]_vars PROVE Pending'
<1> SUFFICES ASSUME NEW q \in Requests, NEW k \in Keys,
                    request'[q].account \in Accounts, request'[q].account \notin contested',
                    request'[q].pc \in {"preload", "save"},
                    k = request'[q].image, k # request'[q].found, k \notin pasted'
             PROVE  object'[k].state = "stored"
  BY DEF Pending, Settled, Acct, Pc, Stored
<1> USE DEF SettledInv, Ownership
<1>a. k \notin pasted
  BY PastedGrows
<1>1. ASSUME request[q].account \in Accounts, request[q].account \notin contested,
             request[q].pc \in {"preload", "save"},
             k = request[q].image, k # request[q].found
      PROVE  object[k].state = "stored"
  BY <1>a, <1>1 DEF Pending, Settled, Acct, Pc, Stored
<1>2. ASSUME NEW r \in Requests, NEW b \in Accounts, Begins(r, b)
      PROVE  object'[k].state = "stored"
  <2>1. /\ object' = object /\ contested \subseteq contested'
        /\ q # r => request'[q] = request[q]
        /\ q = r => request'[q].image = request'[q].found
    BY <1>2, BeginsFrame
  <2> QED
    BY <1>1, <2>1
<1>3. ASSUME NEW r \in Requests, Step(r) PROVE object'[k].state = "stored"
  <2>0. /\ request'[q].account = request[q].account /\ request'[q].found = request[q].found
        /\ contested' = contested /\ request'[q] # Idle
    BY <1>3, HandlerFrame, NoneIsNothing DEF Idle
  <2>1. ASSUME object[k].state = "stored",
               k # request[r].found \/ Pc(r) \notin {"replace", "delete"}
        PROVE  object'[k].state = "stored"
    BY <1>3, <2>1, ObjectFrame
  <2>2. CASE q # r
    <3>1. request'[q] = request[q]
      BY <1>3, <2>2, HandlerFrame
    <3>2. object[k].state = "stored"
      BY <1>1, <2>0, <3>1
    <3>3. k # request[r].found \/ Pc(r) \notin {"replace", "delete"}
      <4>1. SUFFICES ASSUME k = request[r].found, Pc(r) \in {"replace", "delete"}
                     PROVE  FALSE
        OBVIOUS
      <4>2. object[k].owner = Acct(r) /\ object[k].owner = Acct(q)
        BY <1>a, <3>1, <4>1 DEF HandlersOwn, MayName
      <4>3. Settled(r)
        BY <2>0, <4>2 DEF Settled, Acct
      <4> QED
        BY <2>2, <4>1, <4>2, <4>3, Together
    <3> QED
      BY <2>1, <3>2, <3>3
  <2>3. CASE q = r
    <3>1. \/ Pc(r) = "resolve"
          \/ Pc(r) = "preload" /\ request'[r].image = request[r].image
      BY <1>3, <2>0, <2>3, NextPc
    <3>2. CASE Pc(r) = "preload" /\ request'[r].image = request[r].image
      <4>1. object[k].state = "stored"
        BY <1>1, <2>0, <2>3, <3>2 DEF Pc
      <4> QED
        BY <2>1, <3>2, <4>1
    <3>3. CASE Pc(r) = "resolve"
      <4>1. request[r].image = request[r].found
        BY <1>3, <3>3, RunningHandler DEF Shape
      <4>2. Put(r, k)
        BY <1>3, <2>0, <2>3, <4>1, HeldStep
      <4> QED
        BY <4>2 DEF Put, TypeOK
    <3> QED
      BY <3>1, <3>2, <3>3
  <2> QED
    BY <2>2, <2>3
<1>4. CASE (\E a \in Accounts : Register(a)) \/ UNCHANGED vars
  BY <1>1, <1>4 DEF Register, vars
<1> QED
  BY <1>2, <1>3, <1>4, NextSteps

LEMMA RemovingStep == ASSUME SettledInv, [Next]_vars PROVE Removing'
<1> SUFFICES ASSUME NEW q \in Requests, NEW k \in Keys,
                    request'[q].account \in Accounts, request'[q].account \notin contested',
                    request'[q].pc = "softRemove", k = request'[q].found,
                    object'[k].owner = request'[q].account
             PROVE  object'[k].state # "stored" \/ k \in dropped'
  BY DEF Removing, Settled, Acct, Pc, Stored, Own
<1> USE DEF SettledInv, Ownership
<1>1. ASSUME request[q].account \in Accounts, request[q].account \notin contested,
             request[q].pc = "softRemove", k = request[q].found,
             object[k].owner = request[q].account
      PROVE  object[k].state # "stored" \/ k \in dropped
  BY <1>1 DEF Removing, Settled, Acct, Pc, Stored, Own
<1>2. ASSUME NEW r \in Requests, NEW b \in Accounts, Begins(r, b)
      PROVE  object'[k].state # "stored" \/ k \in dropped'
  <2>1. /\ object' = object /\ dropped' = dropped /\ contested \subseteq contested'
        /\ q # r => request'[q] = request[q]
        /\ q = r => request'[q].pc # "softRemove"
    BY <1>2, BeginsFrame
  <2> QED
    BY <1>1, <2>1
<1>3. ASSUME NEW r \in Requests, Step(r)
      PROVE  object'[k].state # "stored" \/ k \in dropped'
  <2>0. /\ request'[q].account = request[q].account /\ request'[q].found = request[q].found
        /\ contested' = contested /\ request'[q] # Idle
    BY <1>3, HandlerFrame, NoneIsNothing DEF Idle
  <2>1. CASE q # r
    <3>1. request'[q] = request[q]
      BY <1>3, <2>1, HandlerFrame
    <3>2. object[k].state # "unused"
      BY <3>1 DEF HandlersOwn, MayName
    <3>4. object'[k].owner = object[k].owner
      BY <1>3, <3>2, ObjectFrame
    <3>3. object[k].state # "stored" \/ k \in dropped
      BY <1>1, <2>0, <3>1, <3>4
    <3> QED
      BY <1>3, <3>2, <3>3, ObjectFrame DEF Stored
  <2>2. CASE q = r
    <3>1. Pc(r) = "delete"
      BY <1>3, <2>0, <2>2, NextPc
    <3>2. DeleteObject(r)
      BY <1>3, <2>0, <2>2, <3>1
         DEF Step, Upload, ResolveText, Preload, Save, Replace, RemoveObject, SoftRemove,
             Fail, Done, Pc, TypeOK
    <3>3. k \in Own(r)
      <4>1. object[k].state # "unused"
        BY <2>0, <2>2 DEF HandlersOwn, MayName
      <4> QED
        BY <1>3, <2>0, <2>2, <4>1, ObjectFrame DEF Own
    <3> QED
      BY <2>0, <2>2, <3>2, <3>3, DeletionFrame
  <2> QED
    BY <2>1, <2>2
<1>4. CASE (\E a \in Accounts : Register(a)) \/ UNCHANGED vars
  BY <1>1, <1>4 DEF Register, vars
<1> QED
  BY <1>2, <1>3, <1>4, NextSteps

LEMMA SettledInit == ASSUME Init PROVE SettledInv
<1>1. Alone /\ Current /\ Pending /\ Removing
  BY NoneIsNothing DEF Init, Alone, Current, Pending, Removing, Settled, Acct, Idle
<1> QED
  BY <1>1, OwnershipInit DEF SettledInv

LEMMA SettledStep == ASSUME SettledInv, [Next]_vars PROVE SettledInv'
<1>1. Ownership'
  BY OwnershipStep DEF SettledInv
<1> QED
  BY <1>1, AloneStep, CurrentStep, PendingStep, RemovingStep DEF SettledInv

-----------------------------------------------------------------------------
(* The objects that are named are there. *)

LEMMA NamedStep ==
    ASSUME SettledInv, NamedObjectsAreStored, [Next]_vars PROVE NamedObjectsAreStored'
<1> SUFFICES ASSUME NEW a \in Accounts, NEW k \in Keys,
                    row'[a].state = "alive", row'[a].image = k,
                    k \notin pasted',
                    a \notin contested', a \notin halfRemoved',
                    \A q \in Requests : ~(request'[q].account = a /\ request'[q].pc = "softRemove")
             PROVE  object'[k].state = "stored"
  BY DEF NamedObjectsAreStored, Names, Alive, Stored
<1> USE DEF SettledInv, Ownership
<1>a. k \notin pasted
  BY PastedGrows
<1>1. ASSUME row[a].state = "alive", row[a].image = k,
             a \notin contested, a \notin halfRemoved,
             \A q \in Requests : ~(request[q].account = a /\ request[q].pc = "softRemove")
      PROVE  object[k].state = "stored"
  BY <1>a, <1>1 DEF NamedObjectsAreStored, Names, Alive, Stored
<1>2. ASSUME NEW r \in Requests, NEW b \in Accounts, Begins(r, b)
      PROVE  object'[k].state = "stored"
  <2>1. /\ UNCHANGED <<row, object, halfRemoved>> /\ contested \subseteq contested'
        /\ \A q \in Requests : q # r => request'[q] = request[q]
        /\ request[r] = Idle
    BY <1>2, BeginsFrame
  <2>2. request[r].pc # "softRemove"
    BY <2>1 DEF Idle
  <2> QED
    BY <1>1, <2>1, <2>2
<1>3. ASSUME NEW b \in Accounts, Register(b) PROVE object'[k].state = "stored"
  <2>1. a = b => row'[a].image = Empty
    BY <1>3 DEF Register, TypeOK, UnusedAreEmpty
  <2>2. a # b
    BY <2>1, NoKeys
  <2>3. row'[a] = row[a]
    BY <1>3, <2>2 DEF Register, TypeOK
  <2> QED
    BY <1>1, <1>3, <2>3 DEF Register
<1>4. ASSUME NEW r \in Requests, Step(r) PROVE object'[k].state = "stored"
  <2>0. /\ contested' = contested
        /\ \A q \in Requests : q # r => request'[q] = request[q]
        /\ halfRemoved \subseteq halfRemoved'
    BY <1>4, HandlerFrame DEF Step, Upload, ResolveText, Preload, Save, Replace,
                              RemoveObject, SoftRemove, Fail
  <2>1. CASE a # Acct(r)
    <3>1. row'[a] = row[a]
      BY <1>4, <2>1, RowFrame
    <3>2. object[k].state = "stored"
      BY <1>1, <2>0, <2>1, <3>1 DEF Acct
    <3>3. object[k].owner = a
      BY <1>a, <3>1 DEF RowsOwn, MayName
    <3> QED
      BY <1>a, <1>4, <2>1, <3>2, <3>3, ObjectFrame
  <2>2. CASE a = Acct(r)
    <3>0. Settled(r) /\ Shape(r) /\ request[r] # Idle
      BY <1>4, <2>0, <2>2, RunningHandler DEF Settled
    <3>1. ASSUME row'[a] = row[a], Pc(r) # "softRemove",
                 k # request[r].found \/ Pc(r) \notin {"replace", "delete"}
          PROVE  object'[k].state = "stored"
      <4>1. object[k].state = "stored"
        BY <1>1, <2>0, <3>1 DEF Pc
      <4> QED
        BY <1>4, <3>1, <4>1, ObjectFrame
    <3>2. CASE Pc(r) \in {"resolve", "preload"}
      BY <1>4, <2>2, <3>1, <3>2, RowStep
    <3>3. CASE Fail(r)
      <4>1. Pc(r) # "softRemove"
        BY <2>2, <3>3 DEF Fail, Acct, Pc
      <4>2. row'[a] = row[a] /\ object' = object
        BY <3>3 DEF Fail
      <4>3. object[k].state = "stored"
        BY <1>1, <2>0, <4>1, <4>2 DEF Pc
      <4> QED
        BY <4>2, <4>3
    <3>4. CASE Pc(r) = "save" /\ ~Fail(r)
      <4>1. row'[a].image = request[r].image
        <5>1. row'[a] = [state |-> "alive", image |-> request[r].image]
          BY <1>4, <2>2, <3>4, RowStep
        <5> QED
          BY <5>1
      <4>2. object[k].state = "stored"
        <5>1. CASE k # request[r].found
          BY <1>a, <3>0, <3>4, <4>1, <5>1 DEF Pending, Stored, Pc
        <5>2. CASE k = request[r].found
          <6>1. Op(r) # "create"
            BY <1>a, <3>0, <5>2, NoKeys DEF Shape
          <6>2. row[a].state = "alive" /\ row[a].image = k
            BY <2>2, <3>0, <3>4, <5>2, <6>1 DEF Current, Alive
          <6> QED
            BY <1>1, <2>0, <3>4, <6>2 DEF Pc
        <5> QED
          BY <5>1, <5>2
      <4> QED
        BY <1>4, <3>4, <4>2, ObjectFrame
    <3>5. CASE Pc(r) = "replace" /\ ~Fail(r)
      <4>1. Replace(r)
        BY <1>4, <3>5 DEF Step, Upload, ResolveText, Preload, Save, RemoveObject,
                          SoftRemove, Pc
      <4>2. row'[a] = row[a]
        BY <4>1 DEF Replace
      <4>3. object[k].state = "stored"
        BY <1>1, <2>0, <3>5, <4>2 DEF Pc
      <4>4. Op(r) = "update" /\ row[a].image = request[r].image
        BY <2>2, <3>0, <3>5 DEF Shape, Current
      <4>5. CASE k = request[r].found
        BY <4>1, <4>2, <4>3, <4>4, <4>5 DEF Replace, Replaced
      <4>6. CASE k # request[r].found
        BY <3>1, <3>5, <4>2, <4>6
      <4> QED
        BY <4>5, <4>6
    <3>6. CASE Pc(r) = "delete" /\ ~Fail(r)
      <4>1. RemoveObject(r)
        BY <1>4, <3>6 DEF Step, Upload, ResolveText, Preload, Save, Replace,
                          SoftRemove, Pc
      <4>2. request'[r].account = a /\ request'[r].pc = "softRemove"
        BY <2>2, <4>1 DEF RemoveObject, Goto, TypeOK, Acct
      <4> QED
        BY <4>2
    <3>7. CASE Pc(r) = "softRemove" /\ ~Fail(r)
      <4>1. row'[a] = [row[a] EXCEPT !.state = "deleted"]
        BY <1>4, <2>2, <3>7, RowStep
      <4>2. row[a] \in [state : {"unused", "alive", "deleted"}, image : Values]
        BY DEF TypeOK
      <4> QED
        BY <4>1, <4>2
    <3> QED
      BY <3>0, <3>2, <3>3, <3>4, <3>5, <3>6, <3>7 DEF Shape
  <2> QED
    BY <2>1, <2>2
<1>5. CASE UNCHANGED vars
  BY <1>1, <1>5 DEF vars
<1> QED
  BY <1>2, <1>3, <1>4, <1>5, NextSteps

\* An account whose image handlers never overlapped names an object that is
\* there, whichever of its handlers failed half-way, or one whose key a body
\* named where it was not.
THEOREM NamedAreStored == Spec => []NamedObjectsAreStored
<1>1. Init => SettledInv /\ NamedObjectsAreStored
  BY SettledInit DEF Init, NamedObjectsAreStored, Names, Alive
<1>2. SettledInv /\ NamedObjectsAreStored /\ [Next]_vars
      => SettledInv' /\ NamedObjectsAreStored'
  BY SettledStep, NamedStep
<1> QED
  BY <1>1, <1>2, PTL DEF Spec

-----------------------------------------------------------------------------
(* No object stays behind. *)

LEMMA OrphanStep == ASSUME SettledInv, NoOrphans, Next PROVE NoOrphans'
<1> SUFFICES ASSUME NEW k \in Keys, object'[k].state = "stored", k \notin dropped',
                    \A a \in Accounts : object'[k].owner = a =>
                        /\ ~(row'[a].state = "alive" /\ row'[a].image = k)
                        /\ a \notin contested'
             PROVE  \E q \in Requests : k \in Owes(q)'
  BY DEF NoOrphans, Names, Alive, Stored
<1> USE DEF SettledInv, Ownership
<1>1. ASSUME object[k].state = "stored", k \notin dropped,
             \A a \in Accounts : object[k].owner = a =>
                 /\ ~(row[a].state = "alive" /\ row[a].image = k)
                 /\ a \notin contested
      PROVE  \E q \in Requests : k \in Owes(q)
  BY <1>1 DEF NoOrphans, Names, Alive, Stored
<1>2. ASSUME NEW q \in Requests, request'[q] = request[q], k \in Owes(q),
             object'[k].owner = object[k].owner
      PROVE  k \in Owes(q)'
  BY <1>2 DEF Owes, Own
<1>3. ASSUME NEW r \in Requests, NEW b \in Accounts, Begins(r, b)
      PROVE  \E q \in Requests : k \in Owes(q)'
  <2>1. /\ UNCHANGED <<row, object, dropped>> /\ contested \subseteq contested'
        /\ \A q \in Requests : q # r => request'[q] = request[q]
        /\ request[r] = Idle
    BY <1>3, BeginsFrame
  <2>2. PICK q \in Requests : k \in Owes(q)
    BY <1>1, <2>1
  <2>3. q # r
    BY <2>1, <2>2 DEF Owes, Idle
  <2> QED
    BY <1>2, <2>1, <2>2, <2>3
<1>4. ASSUME NEW b \in Accounts, Register(b)
      PROVE  \E q \in Requests : k \in Owes(q)'
  <2>1. UNCHANGED <<request, object, contested, dropped>>
    BY <1>4 DEF Register
  <2>2. \A a \in Accounts : row[a].state = "alive" => row'[a] = row[a]
    BY <1>4 DEF Register, TypeOK
  <2>3. PICK q \in Requests : k \in Owes(q)
    BY <1>1, <2>1, <2>2
  <2> QED
    BY <1>2, <2>1, <2>3
<1>5. ASSUME NEW r \in Requests, Step(r)
      PROVE  \E q \in Requests : k \in Owes(q)'
  <2>0. /\ contested' = contested
        /\ \A q \in Requests : q # r => request'[q] = request[q]
    BY <1>5, HandlerFrame
  <2>a. Acct(r) \in Accounts /\ Shape(r) /\ request[r] # Idle
    BY <1>5, RunningHandler
  <2>1. CASE \E u \in Keys : Upload(r, u)
    <3>1. PICK u \in Keys : Upload(r, u)
      BY <2>1
    <3>2. CASE k = u
      <4>1. PICK success \in BOOLEAN :
                /\ Resolved(r, OrExisting(UploadedKey(success, u), request[r].found))
                /\ \/ Put(r, u) /\ dropped' = IF success THEN dropped ELSE dropped \cup {u}
                   \/ ~success /\ Lose(u) /\ UNCHANGED dropped
        BY <3>1 DEF Upload
      <4>2. success
        BY <3>2, <4>1 DEF Lose, TypeOK
      <4>3. request[r].found \in Values
        BY DEF TypeOK, Handlers
      <4>4. Resolved(r, u)
        BY <4>1, <4>2, <4>3, UploadedValue
      <4>5. /\ request'[r].image = u /\ request'[r].found = request[r].found
            /\ request'[r].pc \in {"preload", "save"}
        BY <4>4 DEF Resolved, TypeOK
      <4>6. u # request[r].found
        BY <3>1, UploadFrame DEF HandlersOwn, MayName
      <4>8. object'[u].owner = request'[r].account
        BY <4>1, <4>2, <4>4 DEF Put, Lose, Resolved, TypeOK
      <4>7. k \in Owes(r)'
        BY <3>2, <4>5, <4>6, <4>8 DEF Owes, Own
      <4> QED
        BY <4>7
    <3>3. CASE k # u
      <4>1. object'[k] = object[k] /\ k \notin dropped /\ row' = row
        BY <3>1, <3>3, UploadFrame DEF Upload
      <4>2. PICK q \in Requests : k \in Owes(q)
        BY <1>1, <2>0, <4>1
      <4>3. q # r
        BY <3>1, <4>2 DEF Upload, Owes
      <4> QED
        BY <1>2, <2>0, <4>1, <4>2, <4>3
    <3> QED
      BY <3>2, <3>3
  <2>2. CASE (\E image \in Texts \cup {request[r].found} : ResolveText(r, image))
    <3>1. UNCHANGED <<row, object, dropped>> /\ request[r].pc = "resolve"
      BY <2>2 DEF ResolveText
    <3>2. PICK q \in Requests : k \in Owes(q)
      BY <1>1, <2>0, <3>1
    <3>3. q # r
      BY <3>1, <3>2 DEF Owes
    <3> QED
      BY <1>2, <2>0, <3>1, <3>2, <3>3
  <2>3. CASE Preload(r)
    <3>1. UNCHANGED <<row, object, dropped>>
      BY <2>3 DEF Preload
    <3>2. PICK q \in Requests : k \in Owes(q)
      BY <1>1, <2>0, <3>1
    <3>3. CASE q # r
      BY <1>2, <2>0, <3>1, <3>2, <3>3
    <3>4. CASE q = r
      <4>1. /\ request'[r].image = request[r].image /\ request'[r].found = request[r].found
            /\ request'[r].pc = "save" /\ request[r].pc = "preload"
            /\ request'[r].account = request[r].account
        BY <2>3 DEF Preload, Goto, TypeOK
      <4>2. k \in Owes(r)'
        BY <3>1, <3>2, <3>4, <4>1 DEF Owes, Own
      <4> QED
        BY <4>2
    <3> QED
      BY <3>3, <3>4
  <2>4. CASE Save(r)
    <3> DEFINE a == Acct(r)
    <3>1. /\ row'[a] = [state |-> "alive", image |-> request[r].image]
          /\ UNCHANGED <<object, dropped>> /\ request[r].pc = "save"
      BY <2>4, <2>a DEF Save, TypeOK, Acct
    <3>2. object[k].owner = a => k # request[r].image
      BY <2>a, <3>1
    <3>3. CASE object[k].owner = a /\ row[a].state = "alive" /\ row[a].image = k
      <4>1. Settled(r)
        BY <2>0, <2>a, <3>1, <3>3 DEF Settled
      <4>2. Op(r) # "create"
        BY <3>3 DEF Creating
      <4>3. k = request[r].found
        BY <3>1, <3>3, <4>1, <4>2 DEF Current, Pc
      <4>4. Op(r) = "update"
        BY <2>a, <3>1, <3>2, <3>3, <4>2, <4>3 DEF Shape, Pc
      <4>5. /\ request'[r].pc = "replace" /\ request'[r].image = request[r].image
            /\ request'[r].found = request[r].found
            /\ request'[r].account = request[r].account
        <5>1. Goto(r, "replace")
          BY <2>4, <4>4 DEF Save, Op
        <5> QED
          BY <5>1 DEF Goto, TypeOK
      <4>6. k \in Owes(r)'
        BY <3>1, <3>2, <3>3, <4>3, <4>5 DEF Owes, Own, Acct
      <4> QED
        BY <4>6
    <3>4. CASE ~(object[k].owner = a /\ row[a].state = "alive" /\ row[a].image = k)
      <4>1. \A b \in Accounts :
                object[k].owner = b => ~(row[b].state = "alive" /\ row[b].image = k)
        BY <1>5, <3>1, <3>4, RowFrame
      <4>2. PICK q \in Requests : k \in Owes(q)
        BY <1>1, <2>0, <3>1, <4>1
      <4>3. q # r
        BY <3>1, <3>2, <4>2 DEF Owes, Own, Acct
      <4> QED
        BY <1>2, <2>0, <3>1, <4>2, <4>3
    <3> QED
      BY <3>3, <3>4
  <2>5. CASE Replace(r) \/ RemoveObject(r)
    <3>1. \/ DeleteObject(r)
          \/ UNCHANGED <<object, dropped>> /\ ~Replaced(r) /\ request[r].pc = "replace"
      BY <2>5 DEF Replace, RemoveObject
    <3>2. row' = row /\ request[r].pc \in {"replace", "delete"}
      BY <2>5 DEF Replace, RemoveObject
    <3>3. k \notin Owes(r)
      BY <3>1, <3>2, DeletionFrame DEF Owes, Replaced
    <3>4. object[k].state = "stored" /\ k \notin dropped /\ object'[k].owner = object[k].owner
      <4>1. object[k] \in [state : {"unused", "stored", "gone"}, owner : Accounts \cup {None}]
        BY DEF TypeOK
      <4> QED
        BY <3>1, <4>1, DeletionFrame
    <3>5. PICK q \in Requests : k \in Owes(q)
      BY <1>1, <2>0, <3>2, <3>4
    <3> QED
      BY <1>2, <2>0, <3>3, <3>4, <3>5
  <2>6. CASE SoftRemove(r)
    <3> DEFINE a == Acct(r)
    <3>1. /\ UNCHANGED <<object, dropped>> /\ request[r].pc = "softRemove"
      BY <2>6 DEF SoftRemove
    <3>2. ~(object[k].owner = a /\ row[a].state = "alive" /\ row[a].image = k)
      <4>1. SUFFICES ASSUME object[k].owner = a, row[a].state = "alive", row[a].image = k
                     PROVE  FALSE
        OBVIOUS
      <4>2. Settled(r)
        BY <2>0, <2>a, <3>1, <4>1 DEF Settled
      <4>3. Op(r) # "create"
        BY <4>1 DEF Creating
      <4>4. k = request[r].found
        BY <3>1, <4>1, <4>2, <4>3 DEF Current, Pc
      <4> QED
        BY <3>1, <4>1, <4>2, <4>4 DEF Removing, Pc, Stored, Own, Acct
    <3>3. \A b \in Accounts :
              object[k].owner = b => ~(row[b].state = "alive" /\ row[b].image = k)
      BY <1>5, <3>1, <3>2, RowFrame
    <3>4. PICK q \in Requests : k \in Owes(q)
      BY <1>1, <2>0, <3>1, <3>3
    <3>5. q # r
      BY <3>1, <3>4 DEF Owes
    <3> QED
      BY <1>2, <2>0, <3>1, <3>4, <3>5
  <2>7. CASE Fail(r)
    <3>1. UNCHANGED <<row, object>> /\ dropped' = dropped \cup Owes(r)
      BY <2>7 DEF Fail
    <3>2. PICK q \in Requests : k \in Owes(q)
      BY <1>1, <2>0, <3>1
    <3> QED
      BY <1>2, <2>0, <3>1, <3>2
  <2> QED
    BY <1>5, <2>1, <2>2, <2>3, <2>4, <2>5, <2>6, <2>7 DEF Step
<1> QED
  BY <1>3, <1>4, <1>5 DEF Next, Begins

\* While the handlers of its account do not overlap, an object is named by that
\* account, in the hands of its running handler, or left by a call or handler of
\* it that failed, whatever the bodies of requests named.
THEOREM NothingIsOrphaned == Spec => []NoOrphans
<1>1. Init => SettledInv /\ NoOrphans
  BY SettledInit DEF Init, NoOrphans, Stored
<1>2. SettledInv /\ NoOrphans /\ [Next]_vars => SettledInv' /\ NoOrphans'
  <2>1. ASSUME UNCHANGED vars, NoOrphans PROVE NoOrphans'
    BY <2>1 DEF vars, NoOrphans, Stored, Names, Alive, Owes, Own
  <2> QED
    BY <2>1, SettledStep, OrphanStep
<1> QED
  BY <1>1, <1>2, PTL DEF Spec

=============================================================================
