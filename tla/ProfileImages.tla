--------------------------- MODULE ProfileImages ---------------------------
(***************************************************************************)
(* Profile images of nest-forge: FileUploadService and S3ClientService, as *)
(* the account handlers of UserService, AdminService, UserAuthService and  *)
(* AdminAuthService use them.                                              *)
(*                                                                         *)
(* The image is an object in S3, its key a column of the account row.      *)
(* Nothing joins the two: a handler uploads, writes the row and deletes    *)
(* the old object in separate steps, and may fail between any two of them. *)
(* No S3 call throws: a failed one returns, with or without its effect.    *)
(*                                                                         *)
(* Left out: the other columns (Sessions), and the checks that refuse a    *)
(* request before its first upload.                                        *)
(***************************************************************************)
CONSTANTS
    Accounts,  \* ids of rows of tables users and admins
    Keys,      \* object keys; bounds the uploads
    Requests,  \* concurrent handlers
    Empty,     \* profile_image_key is null or ''
    Url,       \* a text that is the key of no object, such as the presigned
               \* URL a client was given
    None

Values == Keys \cup {Empty, Url}

ASSUME NoKeys         == Empty \notin Keys /\ Url \notin Keys
ASSUME NoneIsNothing  == None \notin Values \cup Accounts

VARIABLES
    row,      \* row[a]: the account row
    object,   \* object[k]: the object with key k; its owner, the account it was
              \* uploaded for, is history
    request,  \* request[r]: what handler r holds across its awaits
    \* History variables: no action of the code reads them.
    contested,    \* accounts of which two handlers overlapped, one of them a
                  \* handler that changes the image
    halfRemoved,  \* accounts whose removal failed after the object was deleted
    dropped,      \* objects left behind by a call or a handler of their
                  \* account that failed
    pasted        \* keys that the body of a request named, in a place where
                  \* the row did not name them

vars == <<row, object, request, contested, halfRemoved, dropped, pasted>>

Ops == {"none", "create", "update", "remove", "rewrite"}
Pcs == {"idle", "resolve", "preload", "save", "replace", "delete", "softRemove"}

Handlers == [op : Ops, pc : Pcs, account : Accounts \cup {None},
             found : Values, image : Values]

Idle == [op |-> "none", pc |-> "idle", account |-> None,
         found |-> Empty, image |-> Empty]

TypeOK ==
    /\ row \in [Accounts -> [state : {"unused", "alive", "deleted"},
                             image : Values]]
    /\ object \in [Keys -> [state : {"unused", "stored", "gone"},
                            owner : Accounts \cup {None}]]
    /\ request \in [Requests -> Handlers]
    /\ contested \in SUBSET Accounts
    /\ halfRemoved \in SUBSET Accounts
    /\ dropped \in SUBSET Keys /\ pasted \in SUBSET Keys

Init ==
    /\ row = [a \in Accounts |-> [state |-> "unused", image |-> Empty]]
    /\ object = [k \in Keys |-> [state |-> "unused", owner |-> None]]
    /\ request = [r \in Requests |-> Idle]
    /\ contested = {} /\ halfRemoved = {} /\ dropped = {} /\ pasted = {}

Alive(a)  == row[a].state = "alive"
Stored(k) == object[k].state = "stored"
Busy(a)   == \E r \in Requests : request[r].account = a

\* What the body of a request may hold in profileImageUrl: any string, the key
\* of whichever object included. A UUID nobody was given yet is not guessed.
Texts == {Empty, Url} \cup {k \in Keys : object[k].state # "unused"}

\* The objects uploaded for the account of handler r.
Own(r) == {k \in Keys : object[k].owner = request[r].account}

-----------------------------------------------------------------------------
(* The first step of each handler: its first read. *)

Begin(r, op, pc, a, found) ==
    /\ request[r] = Idle
    /\ request' = [request EXCEPT ![r] = [op |-> op, pc |-> pc, account |-> a,
                                          found |-> found, image |-> found]]
    /\ contested' = contested \cup
           {b \in {a} : \E q \in Requests : /\ request[q].account = b
                                            /\ {op, request[q].op} # {"rewrite"}}
    /\ UNCHANGED <<row, object, halfRemoved, dropped>>

\* create: without an upload UserService stores the text of the DTO, also
\* when the upload fails; AdminService stores that text or ''.
Create(r, a, text) ==
    /\ row[a].state = "unused" /\ ~Busy(a)
    /\ Begin(r, "create", "resolve", a, text)
    /\ pasted' = pasted \cup (Keys \cap {text})

\* update, updateProfile.
Update(r, a) ==
    Alive(a) /\ Begin(r, "update", "resolve", a, row[a].image) /\ UNCHANGED pasted

\* remove, deleteProfile.
Remove(r, a) ==
    Alive(a) /\ Begin(r, "remove", "delete", a, row[a].image) /\ UNCHANGED pasted

\* The handlers that load the whole entity and save it with another change:
\* logins, logout, password changes, bans.
Rewrite(r, a) ==
    Alive(a) /\ Begin(r, "rewrite", "save", a, row[a].image) /\ UNCHANGED pasted

\* createEntity: registration and OAuth logins insert a row without image.
Register(a) ==
    /\ row[a].state = "unused" /\ ~Busy(a)
    /\ row' = [row EXCEPT ![a].state = "alive"]
    /\ UNCHANGED <<object, request, contested, halfRemoved, dropped, pasted>>

-----------------------------------------------------------------------------
(* FileUploadService. *)

Goto(r, pc) == request' = [request EXCEPT ![r].pc = pc]
Done(r)     == request' = [request EXCEPT ![r] = Idle]

Resolved(r, image) ==
    request' = [request EXCEPT ![r].image = image,
                    ![r].pc = IF request[r].op = "create" THEN "save" ELSE "preload"]

\* Mutant: the key is the sanitized name of the file, without a UUID.
FreshByName(k) == object[k].state \in {"unused", "stored"}

\* randomUUID: nobody has this key.
Fresh(k) == object[k].state = "unused"

\* Mutant: upload does not look at res.success, and res.key is always there.
UploadedKeyAlways(success, k) == k

\* What upload returns: the key, or null.
UploadedKey(success, k) == IF success THEN k ELSE None

\* Mutant: resolveUrl returns the null of a failed upload.
OrExistingNull(uploaded, existing) == uploaded

\* uploaded ?? existingUrl.
OrExisting(uploaded, existing) == IF uploaded # None THEN uploaded ELSE existing

Put(r, k) == object' = [object EXCEPT
                 ![k] = [state |-> "stored", owner |-> request[r].account]]
Lose(k)   == object' = [object EXCEPT ![k].state = "gone"]

\* upload: a failed PutObject may have stored the object nevertheless.
Upload(r, k) ==
    /\ request[r].pc = "resolve" /\ Fresh(k)
    /\ \E success \in BOOLEAN :
           /\ Resolved(r, OrExisting(UploadedKey(success, k), request[r].found))
           /\ \/ Put(r, k) /\ dropped' = IF success THEN dropped ELSE dropped \cup {k}
              \/ ~success /\ Lose(k) /\ UNCHANGED dropped
    /\ UNCHANGED <<row, contested, halfRemoved, pasted>>

\* resolveUrl without a file: the text of the body, or what there was.
ResolveText(r, image) ==
    /\ request[r].pc = "resolve"
    /\ image # request[r].found => request[r].op = "update"
    /\ Resolved(r, image)
    /\ pasted' = pasted \cup {k \in Keys : k = image /\ k # request[r].found}
    /\ UNCHANGED <<row, object, contested, halfRemoved, dropped>>

\* deleteObject: of the key the row had, whomever the object was uploaded for,
\* and the answer is not looked at.
DeleteObject(r) ==
    \/ /\ request[r].found \in Keys
       /\ Lose(request[r].found)
       /\ dropped' = dropped \ {request[r].found}
    \/ /\ dropped' = dropped \cup ({request[r].found} \cap Own(r))
       /\ UNCHANGED object

\* Mutant: replace does not compare the new value with the old one.
ReplacedAlways(r) == TRUE

\* Mutant: clearing the image is not taken for a replacement.
ReplacedUnlessCleared(r) ==
    request[r].image # Empty /\ request[r].image # request[r].found

\* replace: the old object goes when the row has got another value.
Replaced(r) == request[r].image # request[r].found

Replace(r) ==
    /\ request[r].pc = "replace"
    /\ IF Replaced(r) THEN DeleteObject(r)
                      ELSE UNCHANGED <<object, dropped>>
    /\ Done(r)
    /\ UNCHANGED <<row, contested, halfRemoved, pasted>>

-----------------------------------------------------------------------------
(* The writes of the account. *)

\* preload reads the row once more; a row deleted meanwhile is a 404.
Preload(r) ==
    /\ request[r].pc = "preload" /\ Alive(request[r].account)
    /\ Goto(r, "save")
    /\ UNCHANGED <<row, object, contested, halfRemoved, dropped, pasted>>

\* save: the image the handler decided on or loaded, and deletedAt, which was
\* null when it was loaded.
Save(r) ==
    /\ request[r].pc = "save"
    /\ row' = [row EXCEPT ![request[r].account] =
                   [state |-> "alive", image |-> request[r].image]]
    /\ IF request[r].op = "update" THEN Goto(r, "replace") ELSE Done(r)
    /\ UNCHANGED <<object, contested, halfRemoved, dropped, pasted>>

\* remove: the object first, then the row.
RemoveObject(r) ==
    /\ request[r].pc = "delete"
    /\ DeleteObject(r)
    /\ Goto(r, "softRemove")
    /\ UNCHANGED <<row, contested, halfRemoved, pasted>>

SoftRemove(r) ==
    /\ request[r].pc = "softRemove"
    /\ row' = [row EXCEPT ![request[r].account].state = "deleted"]
    /\ Done(r)
    /\ UNCHANGED <<object, contested, halfRemoved, dropped, pasted>>

\* The objects of its account handler r has yet to name in the row, or to delete.
Owes(r) ==
    {k \in Own(r) : /\ request[r].image # request[r].found
                    /\ \/ k = request[r].image /\ request[r].pc \in {"preload", "save"}
                       \/ k = request[r].found /\ request[r].pc = "replace"}

\* A statement fails (a refused insert, a 404 or 409, a broken connection), or
\* the process dies: the handler ends and cleans up nothing.
Fail(r) ==
    /\ request[r] # Idle
    /\ dropped' = dropped \cup Owes(r)
    /\ halfRemoved' = halfRemoved \cup
           {a \in Accounts : request[r].account = a /\ request[r].pc = "softRemove"}
    /\ Done(r)
    /\ UNCHANGED <<row, object, contested, pasted>>

Step(r) ==
    \/ \E k \in Keys : Upload(r, k)
    \/ \E image \in Texts \cup {request[r].found} : ResolveText(r, image)
    \/ Preload(r) \/ Save(r) \/ Replace(r)
    \/ RemoveObject(r) \/ SoftRemove(r)
    \/ Fail(r)

Next ==
    \/ \E r \in Requests, a \in Accounts :
           \/ \E text \in Texts : Create(r, a, text)
           \/ Update(r, a) \/ Remove(r, a) \/ Rewrite(r, a)
    \/ \E a \in Accounts : Register(a)
    \/ \E r \in Requests : Step(r)

Spec == Init /\ [][Next]_vars

-----------------------------------------------------------------------------
(* Properties. *)

Names(a, k) == Alive(a) /\ row[a].image = k

\* An account whose image handlers never overlapped names an object that is
\* there, however often its handlers failed: an update deletes the old object
\* only after the row names another, and a removal that failed between the
\* object and the row is one exception. The other is an object whose key a body
\* named where it was not: the next change of that row deletes it as its own.
NamedObjectsAreStored ==
    \A a \in Accounts, k \in Keys :
        \/ ~Names(a, k) \/ Stored(k)
        \/ a \in contested \cup halfRemoved \/ k \in pasted
        \/ \E r \in Requests : /\ request[r].account = a
                               /\ request[r].pc = "softRemove"

\* No object stays behind: while the handlers of the account it was uploaded
\* for do not overlap, an object is named by that account, about to be named or
\* deleted by a handler of it still running, or left by a call or a handler of
\* it that failed. Naming the key in other bodies does not change that.
NoOrphans ==
    \A k \in Keys :
        \/ ~Stored(k) \/ k \in dropped
        \/ \E a \in Accounts : object[k].owner = a /\ (Names(a, k) \/ a \in contested)
        \/ \E r \in Requests : k \in Owes(r)

\* However handlers overlap, two accounts come to name one object only by a body
\* that names its key: no upload, stale save or failed call mixes up keys, so
\* that replacing or removing one account's image spares the others.
ObjectsAreNotShared ==
    \A a, b \in Accounts, k \in Keys :
        a # b /\ row[a].image = k /\ row[b].image = k => k \in pasted
=============================================================================
