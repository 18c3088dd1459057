--------------------------------- MODULE Avatar ---------------------------------
(***************************************************************************)
(* An avatar is a key in a row of the database and an object in a bucket,  *)
(* and no transaction covers the two.  The client uploads straight to the  *)
(* bucket under a grant, then asks for its upload to be promoted.          *)
(*                                                                         *)
(* A user, an organization and an app differ in the route and in the table *)
(* and are all owners here.                                                *)
(***************************************************************************)
EXTENDS Naturals, Sequences

CONSTANTS
  Owners,
  Keys,         \* what NewPendingKey may give: owner, version and extension
  OwnerOf,      \* the owner in the path of a key
  Files,
  Fits,         \* the files of the size and the type that a key is granted for
  Handlers,
  NoKey, NoFile

ASSUME KeysAssumption == OwnerOf \in [Keys -> Owners] /\ Fits \subseteq Keys \X Files
ASSUME NothingAssumption == NoKey \notin Keys /\ NoFile \notin Files

VARIABLES
  rows,         \* avatar_key, of each owner
  bucket,       \* the objects, pending and promoted
  grants,       \* of each key: not yet drawn, signed, or past its expiry
  handlers,
  copied,       \* history: keys that were promoted once, or more often
  unanswered,   \* history: keys written by a statement whose answer was lost
  orphans       \* history: promoted keys that a failure or a race left behind

vars == <<rows, bucket, grants, handlers, copied, unanswered, orphans>>
history == <<copied, unanswered, orphans>>

Pending(k) == <<"pending", k>>
Promoted(k) == <<"avatar", k>>
Objects == {"pending", "avatar"} \X Keys

Idle == [pc |-> "idle"]

Init ==
  /\ rows = [o \in Owners |-> NoKey]
  /\ bucket = [object \in Objects |-> NoFile]
  /\ grants = [k \in Keys |-> "unused"]
  /\ handlers = [h \in Handlers |-> Idle]
  /\ copied = [k \in Keys |-> 0]
  /\ unanswered = {}
  /\ orphans = {}

-----------------------------------------------------------------------------
(* The grant and the upload *)

\* A key never repeats.
Grant(o) ==
  /\ \E k \in Keys : OwnerOf[k] = o /\ grants[k] = "unused" /\ grants' = [grants EXCEPT ![k] = "signed"]
  /\ UNCHANGED <<rows, bucket, handlers, history>>

\* Without its conditions, a signature holds for the key.
SignedForAnything(k, file) == TRUE

\* The conditions of the presigned POST, which the bucket enforces.
Signed(k, file) == <<k, file>> \in Fits

\* As often as the client likes, until the grant expires.
Upload(k) ==
  /\ grants[k] = "signed"
  /\ \E file \in Files : Signed(k, file) /\ bucket' = [bucket EXCEPT ![Pending(k)] = file]
  /\ UNCHANGED <<rows, grants, handlers, history>>

Expire(k) ==
  /\ grants[k] = "signed" /\ grants' = [grants EXCEPT ![k] = "expired"]
  /\ UNCHANGED <<rows, bucket, handlers, history>>

\* The rule of the bucket that empties pending/, a day after an upload.
Sweep(k) ==
  /\ grants[k] = "expired" /\ bucket' = [bucket EXCEPT ![Pending(k)] = NoFile]
  /\ UNCHANGED <<rows, grants, handlers, history>>

-----------------------------------------------------------------------------
(* Confirming and removing *)

\* Of the path, only that it is one of pending/.
AnyPendingKey(o, object) == object[1] = "pending"

OwnsPendingKey(o, object) == object[1] = "pending" /\ OwnerOf[object[2]] = o

Accepts(k, file) == file # NoFile /\ <<k, file>> \in Fits

Goes(h, state) == handlers' = [handlers EXCEPT ![h] = state]

\* The guards read the row of a user and of an organization, FindById that of an app,
\* and a caller reaches no other; the client names any object.
ConfirmCalled(h, o) ==
  /\ handlers[h] = Idle
  /\ \E object \in Objects :
       /\ OwnsPendingKey(o, object)
       /\ Goes(h, [pc |-> "head", owner |-> o, old |-> rows[o], key |-> object[2]])
  /\ UNCHANGED <<rows, bucket, grants, history>>

\* Without the early return of an owner that has none.
RemoveNothing(h, o) ==
  /\ handlers[h] = Idle
  /\ Goes(h, [pc |-> "write", owner |-> o, old |-> rows[o], key |-> NoKey])
  /\ UNCHANGED <<rows, bucket, grants, history>>

RemoveCalled(h, o) ==
  /\ handlers[h] = Idle /\ rows[o] # NoKey
  /\ Goes(h, [pc |-> "write", owner |-> o, old |-> rows[o], key |-> NoKey])
  /\ UNCHANGED <<rows, bucket, grants, history>>

\* A refusal, or an error, ends the request.
Inspect(h) ==
  /\ handlers[h].pc = "head"
  /\ \/ /\ Accepts(handlers[h].key, bucket[Pending(handlers[h].key)])
        /\ Goes(h, [handlers[h] EXCEPT !.pc = "copy"])
     \/ Goes(h, Idle)
  /\ UNCHANGED <<rows, bucket, grants, history>>

\* The object as it is by now, whatever Head has seen.
Promote(k) ==
  /\ bucket[Pending(k)] # NoFile
  /\ bucket' = [bucket EXCEPT ![Promoted(k)] = bucket[Pending(k)]]
  /\ copied' = [copied EXCEPT ![k] = IF @ = 0 THEN 1 ELSE 2]

Copy(h) ==
  /\ handlers[h].pc = "copy" /\ Promote(handlers[h].key)
  /\ Goes(h, [handlers[h] EXCEPT !.pc = "write"])
  /\ UNCHANGED <<rows, grants, unanswered, orphans>>

\* An object that is gone, an error, or a timeout that comes after the copy.
CopyFails(h) ==
  /\ handlers[h].pc = "copy" /\ Goes(h, Idle)
  /\ \/ UNCHANGED <<bucket, copied, orphans>>
     \/ Promote(handlers[h].key) /\ orphans' = orphans \union {handlers[h].key}
  /\ UNCHANGED <<rows, grants, unanswered>>

Discarding(h, trash) == IF trash = << >> THEN Goes(h, Idle) ELSE Goes(h, [pc |-> "discard", trash |-> trash])

\* Nothing but the upload.
UploadAlone(h) == IF handlers[h].key = NoKey THEN << >> ELSE <<Pending(handlers[h].key)>>

\* What the row no longer names, and the upload.
Superseded(h) ==
  LET old == handlers[h].old  key == handlers[h].key
  IN  (IF key = NoKey THEN << >> ELSE <<Pending(key)>>)
        \o (IF old \in {NoKey, key} THEN << >> ELSE <<Promoted(old)>>)

\* The statement has no condition on what the row names by now.
Write(h) ==
  LET o == handlers[h].owner
  IN  /\ handlers[h].pc = "write"
      /\ rows' = [rows EXCEPT ![o] = handlers[h].key]
      /\ orphans' = orphans \union ({rows[o]} \ {NoKey, handlers[h].old, handlers[h].key})
      /\ Discarding(h, Superseded(h))
      /\ UNCHANGED <<bucket, grants, copied, unanswered>>

\* The same on both paths.
PromotedAndOld(h) == (IF handlers[h].key = NoKey THEN << >> ELSE <<Promoted(handlers[h].key)>>) \o Superseded(h)

\* What was promoted for nothing.
PromotedAlone(h) == IF handlers[h].key = NoKey THEN << >> ELSE <<Promoted(handlers[h].key)>>

\* Nothing is written, or it is and the answer is lost.
WriteFails(h) ==
  LET o == handlers[h].owner
  IN  /\ handlers[h].pc = "write" /\ Discarding(h, PromotedAlone(h))
      /\ \/ UNCHANGED <<rows, unanswered, orphans>>
         \/ /\ rows' = [rows EXCEPT ![o] = handlers[h].key]
            /\ unanswered' = unanswered \union ({handlers[h].key} \ {NoKey})
            /\ orphans' = orphans \union ({rows[o]} \ {NoKey})
      /\ UNCHANGED <<bucket, grants, copied>>

\* It never fails the request.
Discard(h) ==
  /\ handlers[h].pc = "discard" /\ Discarding(h, Tail(handlers[h].trash))
  /\ LET object == Head(handlers[h].trash)
     IN  \/ bucket' = [bucket EXCEPT ![object] = NoFile] /\ UNCHANGED orphans
         \/ UNCHANGED bucket /\ orphans' = orphans \union {k \in Keys : Promoted(k) = object}
  /\ UNCHANGED <<rows, grants, copied, unanswered>>

\* The promoted objects that a handler has yet to name, or to delete.
Holds(h) ==
  {k \in Keys :
     \/ handlers[h].pc = "write" /\ handlers[h].key = k
     \/ handlers[h].pc = "discard" /\ \E i \in 1..Len(handlers[h].trash) : handlers[h].trash[i] = Promoted(k)}

Crash ==
  /\ \E h \in Handlers : handlers[h] # Idle
  /\ handlers' = [h \in Handlers |-> Idle]
  /\ orphans' = orphans \union UNION {Holds(h) : h \in Handlers}
  /\ UNCHANGED <<rows, bucket, grants, copied, unanswered>>

-----------------------------------------------------------------------------
\* The three routes of an owner.
Routes(o) == Grant(o) \/ \E h \in Handlers : ConfirmCalled(h, o) \/ RemoveCalled(h, o)

Next ==
  \/ \E o \in Owners : Routes(o)
  \/ \E k \in Keys : Upload(k) \/ Expire(k) \/ Sweep(k)
  \/ \E h \in Handlers :
       \/ Inspect(h) \/ Copy(h) \/ CopyFails(h)
       \/ Write(h) \/ WriteFails(h) \/ Discard(h)
  \/ Crash

Spec == Init /\ [][Next]_vars

-----------------------------------------------------------------------------
(* Properties *)

HandlerStates ==
  {Idle}
    \union [pc : {"head", "copy", "write"}, owner : Owners, old : Keys \union {NoKey}, key : Keys \union {NoKey}]
    \union {state \in [pc : {"discard"}, trash : Seq(Objects)] : Len(state.trash) \in 1..2}

\* Every variable has its shape; a handler goes without a key only to write, and then it
\* has an old one to read (remove dereferences it).
TypeOK ==
  /\ rows \in [Owners -> Keys \union {NoKey}]
  /\ bucket \in [Objects -> Files \union {NoFile}]
  /\ grants \in [Keys -> {"unused", "signed", "expired"}]
  /\ handlers \in [Handlers -> HandlerStates]
  /\ \A h \in Handlers :
       /\ (handlers[h].pc \in {"head", "copy"}) => handlers[h].key # NoKey
       /\ handlers[h].pc = "write" /\ handlers[h].key = NoKey => handlers[h].old # NoKey
  /\ copied \in [Keys -> 0..2]
  /\ unanswered \subseteq Keys /\ orphans \subseteq Keys

\* "A key under the prefix makes the next change of the caller delete the avatar of
\* somebody else" (OwnsPendingKey): a row names keys of its own owner, and nothing of
\* one owner is held, or about to be deleted, by a request for another.
RowsNameTheirOwn ==
  /\ \A o \in Owners : rows[o] # NoKey => OwnerOf[rows[o]] = o
  /\ \A h \in Handlers : handlers[h].pc = "write" =>
       \A k \in {handlers[h].old, handlers[h].key} \ {NoKey} : OwnerOf[k] = handlers[h].owner

\* "It has to be what the policy signed for" (confirm): no object of another size or type
\* is ever public, even one that takes the place of the object Head has seen.
NothingElseIsPublic ==
  \A k \in Keys : bucket[Promoted(k)] # NoFile => <<k, bucket[Promoted(k)]>> \in Fits

\* "The database already says what is current" (discard): a row names an object that is
\* there, whatever fails or dies in between, unless its key was promoted more than once
\* or the database wrote it without saying so.
RowNamesStoredObject ==
  \A o \in Owners :
    \/ rows[o] = NoKey \/ bucket[Promoted(rows[o])] # NoFile
    \/ copied[rows[o]] > 1 \/ rows[o] \in unanswered

\* "An object left behind costs cents" (discard): what no row names is still in the hands
\* of a request, unless a failure, a crash or a race of two writes left it behind.
NothingIsLeftBehind ==
  \A k \in Keys :
    \/ bucket[Promoted(k)] = NoFile \/ k \in orphans
    \/ \E o \in Owners : rows[o] = k
    \/ \E h \in Handlers : k \in Holds(h)

-----------------------------------------------------------------------------
(* What a visitor sees *)

VisiblePicture == [o \in Owners |-> IF rows[o] = NoKey THEN NoKey ELSE bucket[Promoted(rows[o])]]

WelcomeFiles ==
  [o \in Owners |->
     {file \in Files : \E k \in Keys : OwnerOf[k] = o /\ grants[k] # "unused" /\ <<k, file>> \in Fits}]

\* Owners of keys that were promoted again, or written with no answer.
StumbledOwners == {OwnerOf[k] : k \in {l \in Keys : copied[l] > 1 \/ l \in unanswered}}

Visible == INSTANCE Gallery
             WITH Nothing <- NoKey, Broken <- NoFile,
                  shown <- VisiblePicture, welcome <- WelcomeFiles, stumbled <- StumbledOwners

\* "The database already says what is current" (discard): although a row, two objects
\* and two requests change one after the other, a visitor sees one welcome picture
\* replaced by another in one step, by its own owner, and no dead link in between, short
\* of owners that stumbled.
ImplementsGallery == Visible!GallerySpec
=============================================================================
