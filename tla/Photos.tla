-------------------------------- MODULE Photos --------------------------------
(***************************************************************************)
(* The photos of a listing (EVYSelectPhoto.swift): picking one starts a    *)
(* task that prepares and uploads it, removing one starts a task that      *)
(* deletes its file, and the ids of the tiles are written to the draft     *)
(* whenever they change.  The n-th pick is photo n, uploaded as file n.    *)
(*                                                                         *)
(* The view shows one button while it has no tile and another one beside   *)
(* its tiles; each time it changes over, a new button with a selection of  *)
(* its own appears.                                                        *)
(***************************************************************************)
EXTENDS Naturals, SequencesExt

CONSTANTS
    MaxPicks,    \* bound: photos picked
    MaxFailures, \* bound: requests that fail and did nothing
    MaxLosses    \* bound: requests that were done and report a failure

PhotosAssumption == {MaxPicks, MaxFailures, MaxLosses} \subseteq Nat

NoPhoto == 0
Photo   == 1 .. MaxPicks
Nowhere == [at |-> "none", photo |-> NoPhoto, button |-> 0]

VARIABLES
    tiles,       \* photoTiles: sequence of [photo, hasId, status]
    button,      \* which button is shown, counted
    selected,    \* its selectedItem
    picks,
    uploads,     \* pick -> [at, photo, button]: the task of a pick
    deleting,    \* the photos a task deletes
    committed,   \* the ids in the draft
    files,       \* the files at the api
    failures,
    losses

vars == <<tiles, button, selected, picks, uploads, deleting, committed, files,
          failures, losses>>

Init ==
    /\ tiles = << >>
    /\ button = 1 /\ selected = NoPhoto
    /\ picks = 0
    /\ uploads = [n \in Photo |-> Nowhere]
    /\ deleting = {} /\ committed = << >>
    /\ files = {}
    /\ failures = 0 /\ losses = 0

Ids(ts) == [i \in 1 .. Len(SelectSeq(ts, LAMBDA t : t.hasId)) |->
               SelectSeq(ts, LAMBDA t : t.hasId)[i].photo]

\* The tiles become ts; onChange writes their ids to the draft.
Show(ts) ==
    /\ tiles' = ts
    /\ committed' = Ids(ts)
    /\ button' = IF (ts = << >>) = (tiles = << >>) THEN button ELSE button + 1

\* selectedItem of a button, if it is still there, becomes nil.
Deselect(b) ==
    selected' = IF b = button /\ button' = button THEN NoPhoto
                ELSE IF button' # button THEN NoPhoto ELSE selected

WithoutPhoto(ts, p) == SelectSeq(ts, LAMBDA t : t.photo # p)
Set(ts, p, tile)    == [i \in DOMAIN ts |-> IF ts[i].photo = p THEN tile ELSE ts[i]]
Tile(p, hasId, status) == [photo |-> p, hasId |-> hasId, status |-> status]

Fails  == failures < MaxFailures /\ failures' = failures + 1 /\ UNCHANGED losses
Loses  == losses < MaxLosses /\ losses' = losses + 1 /\ UNCHANGED failures
Faultless == UNCHANGED <<failures, losses>>

-----------------------------------------------------------------------------
(* Uploading. *)

\* The picker selects a photo, and the row's actions start a task.  Nobody opens
\* the picker and picks again before the task of his last pick has started.
Pick ==
    /\ picks < MaxPicks
    /\ \A n \in Photo : uploads[n].at # "queued"
    /\ picks' = picks + 1
    /\ selected' = picks + 1
    /\ uploads' = [uploads EXCEPT ![picks + 1] =
                      [at |-> "queued", photo |-> NoPhoto, button |-> button]]
    /\ UNCHANGED <<tiles, button, deleting, committed, files, failures, losses>>

\* uploadSelectedItem starts with whatever is selected by then.
Begin(n) ==
    /\ uploads[n].at = "queued"
    /\ uploads' = IF selected = NoPhoto \/ uploads[n].button # button
                  THEN [uploads EXCEPT ![n] = Nowhere]
                  ELSE [uploads EXCEPT ![n].at = "preparing", ![n].photo = selected]
    /\ UNCHANGED <<tiles, button, selected, picks, deleting, committed, files, failures, losses>>

\* The photo cannot be read: there is no tile yet.
CannotPrepare(n) ==
    /\ uploads[n].at = "preparing"
    /\ Fails
    /\ uploads' = [uploads EXCEPT ![n] = Nowhere]
    /\ Show(tiles) /\ Deselect(uploads[n].button)
    /\ UNCHANGED <<picks, deleting, files>>

Prepare(n) ==
    /\ uploads[n].at = "preparing"
    /\ uploads' = [uploads EXCEPT ![n].at = "uploading"]
    /\ Show(Append(tiles, Tile(uploads[n].photo, FALSE, "uploading")))
    /\ selected' = IF button' = button THEN selected ELSE NoPhoto
    /\ UNCHANGED <<picks, deleting, files, failures, losses>>

\* uploadFile has its answer; what is left is at least a second of waiting.
Uploaded(n) ==
    /\ uploads[n].at = "uploading"
    /\ files' = files \cup {uploads[n].photo}
    /\ uploads' = [uploads EXCEPT ![n].at = "uploaded"]
    /\ UNCHANGED <<tiles, button, selected, picks, deleting, committed, failures, losses>>

\* A mutant: the tile stays when its upload fails.
NotUploadedKeepingTile(n) ==
    /\ uploads[n].at = "uploading"
    /\ \/ Fails /\ UNCHANGED files
       \/ Loses /\ files' = files \cup {uploads[n].photo}
    /\ uploads' = [uploads EXCEPT ![n] = Nowhere]
    /\ Show(Set(tiles, uploads[n].photo, Tile(uploads[n].photo, TRUE, "ready")))
    /\ Deselect(uploads[n].button)
    /\ UNCHANGED <<picks, deleting>>

\* uploadFile throws, or writing the local copy does: the tile goes.
NotUploaded(n) ==
    /\ uploads[n].at = "uploading"
    /\ \/ Fails /\ UNCHANGED files
       \/ Loses /\ files' = files \cup {uploads[n].photo}
    /\ uploads' = [uploads EXCEPT ![n] = Nowhere]
    /\ Show(WithoutPhoto(tiles, uploads[n].photo))
    /\ Deselect(uploads[n].button)
    /\ UNCHANGED <<picks, deleting>>

EndUpload(n) ==
    /\ uploads[n].at = "uploaded"
    /\ uploads' = [uploads EXCEPT ![n] = Nowhere]
    /\ Show(Set(tiles, uploads[n].photo, Tile(uploads[n].photo, TRUE, "ready")))
    /\ Deselect(uploads[n].button)
    /\ UNCHANGED <<picks, deleting, files, failures, losses>>

-----------------------------------------------------------------------------
(* Deleting: only a tile that is ready has the button. *)

RemovePhoto(p) ==
    /\ \E i \in DOMAIN tiles : tiles[i] = Tile(p, TRUE, "ready")
    /\ Show(Set(tiles, p, Tile(p, TRUE, "deleting")))
    /\ deleting' = deleting \cup {p}
    /\ UNCHANGED <<selected, picks, uploads, files, failures, losses>>

DeleteEnds(p) ==
    /\ p \in deleting
    /\ deleting' = deleting \ {p}
    /\ \/ /\ Faultless /\ files' = files \ {p}
          /\ Show(WithoutPhoto(tiles, p))
       \/ /\ Fails /\ UNCHANGED files
          /\ Show(Set(tiles, p, Tile(p, TRUE, "ready")))
       \/ /\ Loses /\ files' = files \ {p}
          /\ Show(Set(tiles, p, Tile(p, TRUE, "ready")))
    /\ selected' = IF button' = button THEN selected ELSE NoPhoto
    /\ UNCHANGED <<picks, uploads>>

Next ==
    \/ Pick
    \/ \E n \in Photo :
          \/ Begin(n) \/ CannotPrepare(n) \/ Prepare(n)
          \/ Uploaded(n) \/ NotUploaded(n) \/ EndUpload(n)
          \/ RemovePhoto(n) \/ DeleteEnds(n)

Spec == Init /\ [][Next]_vars

-----------------------------------------------------------------------------
(* Properties. *)

Idle == deleting = {} /\ \A n \in Photo : uploads[n] = Nowhere

\* When nothing is under way and no answer was lost, the ids of the draft are
\* those of the files at the api, each once: no listing shows a file that is
\* gone and no file is left that no listing shows, whichever uploads and deletes
\* overlapped or failed (EVYSelectPhoto.swift).
CommittedIsStored ==
    (Idle /\ losses = 0) => IsInjective(committed) /\ Range(committed) = files

\* Every photo the user picked gets a task that uploads it.  The code breaks
\* this: an upload that ends deselects the photo picked meanwhile.
EveryPickIsUploaded ==
    \A n \in Photo :
        (n <= picks /\ uploads[n].at = "queued") => selected = n

=============================================================================
