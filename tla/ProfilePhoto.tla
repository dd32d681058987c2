---------------------------- MODULE ProfilePhoto ----------------------------
(***************************************************************************)
(* The teacher's identity photo (web/faculty.py profile_photo_upload over  *)
(* accounts/photos.py).  An upload is read with the user row, re-encoded,  *)
(* stored under a free name, pointed to by a save of the whole row, and    *)
(* then the file the row named before is deleted.  The request may be cut  *)
(* between any two of these, and another one may run beside it.            *)
(***************************************************************************)
EXTENDS Integers, FiniteSets

CONSTANTS
  PhotoTabs,      \* browser tabs a teacher uploads from
  NameSuffixes,       \* the random suffixes storage may append to a taken name
  MaxUploads      \* bound on the uploads begun

NoPhoto == "none"
BaseName == "pk"                         \* <pk>.jpg
PhotoNames == {BaseName} \union NameSuffixes

ASSUME PhotoConstants == NoPhoto \notin NameSuffixes

VARIABLES
  userRow,     \* the User row: the photo's name and is_active
  photoFiles,  \* names that exist under profile_photos/
  uploads,     \* each tab's request: step, its copy of the row, the name it stored
  phist        \* uploads begun; whether two overlapped; whether one was cut

photoVars == <<userRow, photoFiles, uploads, phist>>

NoPhotoUpload == [step |-> "idle", row |-> [photo |-> NoPhoto, active |-> TRUE], name |-> NoPhoto]

PhotoInit ==
  /\ userRow = [photo |-> NoPhoto, active |-> TRUE] /\ photoFiles = {}
  /\ uploads = [t \in PhotoTabs |-> NoPhotoUpload]
  /\ phist = [begun |-> 0, overlapped |-> FALSE, cut |-> FALSE]

InFlight == {t \in PhotoTabs : uploads[t].step # "idle"}

-----------------------------------------------------------------------------
\* The request is authenticated: the user row is read, once.
photo_upload_start(t) ==
  /\ uploads[t].step = "idle" /\ phist.begun < MaxUploads
  /\ uploads' = [uploads EXCEPT ![t] = [step |-> "read", row |-> userRow, name |-> NoPhoto]]
  /\ phist' = [phist EXCEPT !.begun = @ + 1, !.overlapped = @ \/ InFlight # {}]
  /\ UNCHANGED <<userRow, photoFiles>>

\* No file, too large, too many pixels, not a JPEG or PNG, undecodable: refused.
photo_refused(t) ==
  /\ uploads[t].step = "read"
  /\ uploads' = [uploads EXCEPT ![t] = NoPhotoUpload]
  /\ UNCHANGED <<userRow, photoFiles, phist>>

\* get_available_name: the plain name, or the name with a free suffix.
AvailableNames == IF BaseName \notin photoFiles THEN {BaseName} ELSE NameSuffixes \ photoFiles

photo_store(t, n) ==
  /\ uploads[t].step = "read" /\ n \in AvailableNames
  /\ photoFiles' = photoFiles \union {n}
  /\ uploads' = [uploads EXCEPT ![t].step = "stored", ![t].name = n]
  /\ UNCHANGED <<userRow, phist>>

\* The row is saved whole, as the request read it, with the new name.
photo_save(t) ==
  /\ uploads[t].step = "stored"
  /\ userRow' = [uploads[t].row EXCEPT !.photo = uploads[t].name]
  /\ uploads' = [uploads EXCEPT ![t].step = "saved"]
  /\ UNCHANGED <<photoFiles, phist>>

\* Mutant: the old name is read only after the save.
photo_delete_old_late(t) ==
  /\ uploads[t].step = "saved"
  /\ photoFiles' = photoFiles \ ({userRow.photo} \ {uploads[t].name})
  /\ uploads' = [uploads EXCEPT ![t] = NoPhotoUpload]
  /\ UNCHANGED <<userRow, phist>>

\* The file named before is deleted unless it is the one just stored.
photo_delete_old(t) ==
  /\ uploads[t].step = "saved"
  /\ photoFiles' = photoFiles \ ({uploads[t].row.photo} \ {uploads[t].name})
  /\ uploads' = [uploads EXCEPT ![t] = NoPhotoUpload]
  /\ UNCHANGED <<userRow, phist>>

\* The worker dies.
photo_cut(t) ==
  /\ uploads[t].step # "idle"
  /\ uploads' = [uploads EXCEPT ![t] = NoPhotoUpload] /\ phist' = [phist EXCEPT !.cut = TRUE]
  /\ UNCHANGED <<userRow, photoFiles>>

\* The administrator disables or enables the account meanwhile.
account_switch ==
  /\ userRow' = [userRow EXCEPT !.active = ~@]
  /\ UNCHANGED <<photoFiles, uploads, phist>>

PhotoNext ==
  \/ \E t \in PhotoTabs :
       \/ photo_upload_start(t) \/ photo_refused(t) \/ (\E n \in PhotoNames : photo_store(t, n))
       \/ photo_save(t) \/ photo_delete_old(t) \/ photo_cut(t)
  \/ account_switch

-----------------------------------------------------------------------------
\* The row's photo: what the profile page and a checker's card show.
profile_photo == IF userRow.photo \in photoFiles THEN userRow.photo ELSE NoPhoto

\* Uploads one after another, wherever they are cut, never leave the row without the
\* photo it names, and an account that had one keeps one; and if none was cut, no other
\* file is left behind once they are over.  (Overlapping uploads may reuse a name the
\* other is about to delete.)
PhotoThere ==
  ~phist.overlapped =>
    /\ profile_photo = userRow.photo
    /\ InFlight = {} /\ ~phist.cut => photoFiles = {profile_photo} \ {NoPhoto}
=============================================================================
