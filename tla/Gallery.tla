-------------------------------- MODULE Gallery --------------------------------
(***************************************************************************)
(* What a visitor sees of the avatars, without keys, grants, requests or   *)
(* two stores to keep together: every owner shows one picture, or none, or *)
(* a link that leads nowhere.                                              *)
(*                                                                         *)
(* A picture is replaced in one step by another that was welcome, never by *)
(* a gap, and by its owner alone.  Only an owner that has stumbled - it    *)
(* confirmed one upload twice, or a write of its row got no answer - may   *)
(* lose what it shows.                                                     *)
(*                                                                         *)
(* Avatar implements this gallery; see Avatar!Visible.                     *)
(***************************************************************************)
CONSTANTS
  Owners, Files,
  Nothing,      \* no picture
  Broken        \* the name of a picture that is not there

VARIABLES
  shown,        \* what each owner shows
  welcome,      \* the files each owner was invited to show
  stumbled      \* owners that may lose their picture

galleryVars == <<shown, welcome, stumbled>>

GalleryInit ==
  /\ shown = [o \in Owners |-> Nothing]
  /\ welcome = [o \in Owners |-> {}]
  /\ stumbled = {}

\* A grant names a size and a type.
Invite(o, files) ==
  /\ welcome' = [welcome EXCEPT ![o] = @ \union files]
  /\ UNCHANGED <<shown, stumbled>>

\* What o shows becomes `what`, and o may stumble on the way.
Becomes(o, what) ==
  /\ shown' = [shown EXCEPT ![o] = what]
  /\ stumbled' \in {stumbled, stumbled \union {o}}
  /\ UNCHANGED welcome

Show(o, file) == file \in welcome[o] /\ Becomes(o, file)
TakeDown(o) == Becomes(o, Nothing)
Lose(o) == Becomes(o, Broken) /\ o \in stumbled'

\* A stumble nobody sees.
Stumble(o) == Becomes(o, shown[o])

GalleryNext ==
  \E o \in Owners :
    \/ \E files \in SUBSET Files : Invite(o, files)
    \/ \E file \in Files : Show(o, file)
    \/ TakeDown(o) \/ Lose(o) \/ Stumble(o)

GallerySpec == GalleryInit /\ [][GalleryNext]_galleryVars
=============================================================================
