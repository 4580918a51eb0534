------------------------------- MODULE Files -------------------------------
(***************************************************************************)
(* api/src/data/resources/files.ts and fileStorage.ts, shared/             *)
(* uploadSessions.ts and procedures/uploads.ts, with the upload of         *)
(* ios/evy/Data/EVYAPIManager.swift: files, whose metadata is a row and    *)
(* whose content is a binary on disk.                                      *)
(*                                                                         *)
(* A device sends a file in chunks and then creates its row; the chunks    *)
(* gather in a session in the api's memory.  Chunks are handled in one     *)
(* turn of the event loop each, creates and deletes are cut at every await *)
(* of the disk and the database.  A chunk is its index; its offset follows *)
(* from it, as all but the last have one size.                             *)
(*                                                                         *)
(* A chunk may be lost without an error when the socket is replaced during *)
(* an upload; a query or a write may fail; the api may restart.            *)
(***************************************************************************)
EXTENDS Naturals, Sequences

CONSTANTS
    File,           \* file ids
    Request,        \* creates and deletes in progress at one time
    Size,           \* [File -> the number of its chunks]
    MaxChunks,      \* MAX_UPLOAD_BYTES, in chunks
    MaxFaults,      \* bound on lost chunks, failures and restarts
    Shared          \* whether another client creates the same ids

FilesAssumption ==
    /\ Size \in [File -> Nat \ {0}]
    /\ MaxChunks \in Nat \ {0} /\ MaxFaults \in Nat
    /\ Shared \in BOOLEAN

VARIABLES
    session,        \* uploadSessions: [File -> the chunks received]
    tmp,            \* the temporary file of an id, << >> if there is none
    binary,         \* the stored file of an id, << >> if there is none
    row,            \* the row of an id: "none", "live" or "deleted"
    req,            \* [Request -> where a create or delete is]
    upload,         \* [File -> where its uploader is]
    unlinked,       \* the files whose binary a delete request has removed
    shortened,      \* the files of which a chunk was lost on the way
    faults          \* faults so far

vars == <<session, tmp, binary, row, req, upload, unlinked, shortened, faults>>

disk  == <<tmp, binary>>
ghost == <<unlinked, shortened>>

Idle == [op |-> "none", pc |-> "idle", file |-> "none", bytes |-> << >>]

Content == {chunks \in Seq(Nat) : Len(chunks) <= MaxChunks}

TypeOK ==
    /\ \A f \in File : /\ session[f] \in Content /\ tmp[f] \in Content /\ binary[f] \in Content
                       /\ row[f] \in {"none", "live", "deleted"}
                       /\ upload[f].next \in 0 .. Size[f]
                       /\ upload[f].pc \in {"sending", "waiting", "failed", "ended"}
    /\ \A r \in Request :
           /\ req[r].pc \in {"idle", "write", "rename", "insert", "drop", "undo", "undoTmp",
                             "unlink", "tombstone"}
           /\ req[r].op \in {"none", "create", "delete"}
           /\ req[r].file \in File \cup {"none"} /\ req[r].bytes \in Content
    /\ unlinked \subseteq File /\ shortened \subseteq File
    /\ faults \in 0 .. MaxFaults

Init ==
    /\ session = [f \in File |-> << >>]
    /\ tmp = [f \in File |-> << >>] /\ binary = [f \in File |-> << >>]
    /\ row = [f \in File |-> "none"]
    /\ req = [r \in Request |-> Idle]
    /\ upload = [f \in File |-> [pc |-> "sending", next |-> 0]]
    /\ unlinked = {} /\ shortened = {} /\ faults = 0

Fault == faults < MaxFaults /\ faults' = faults + 1

-----------------------------------------------------------------------------
(* Upload sessions *)

\* Mutant: any chunk of a known upload is appended.
HandleUploadChunkAny(f, index) ==
    IF Len(session[f]) < MaxChunks
    THEN session' = [session EXCEPT ![f] = Append(@, index)]
    ELSE UNCHANGED session

\* Mutant: one chunk more than the limit is kept.
HandleUploadChunkOverLimit(f, index) ==
    IF index = Len(session[f]) /\ Len(session[f]) <= MaxChunks
    THEN session' = [session EXCEPT ![f] = Append(@, index)]
    ELSE UNCHANGED session

\* Mutant: the chunk that reaches the limit is refused.
HandleUploadChunkBelowLimit(f, index) ==
    IF index = Len(session[f]) /\ Len(session[f]) + 1 < MaxChunks
    THEN session' = [session EXCEPT ![f] = Append(@, index)]
    ELSE UNCHANGED session

\* handleUploadChunk: the next chunk in order, within the limit, is kept; any
\* other is refused, which only the api's log tells.
HandleUploadChunk(f, index) ==
    IF index = Len(session[f]) /\ Len(session[f]) < MaxChunks
    THEN session' = [session EXCEPT ![f] = Append(@, index)]
    ELSE UNCHANGED session

\* uploadFile: the device sends its chunks in order.
SendFrame(f) ==
    /\ upload[f].pc = "sending" /\ upload[f].next < Size[f]
    /\ upload' = [upload EXCEPT ![f].next = @ + 1]
    /\ HandleUploadChunk(f, upload[f].next)
    /\ UNCHANGED <<disk, row, req, ghost, faults>>

\* The chunk was handed to a socket that is lost, and that another request
\* has replaced by the next chunk.
LoseFrame(f) ==
    /\ upload[f].pc = "sending" /\ upload[f].next < Size[f]
    /\ Fault
    /\ upload' = [upload EXCEPT ![f].next = @ + 1]
    /\ shortened' = shortened \cup {f}
    /\ UNCHANGED <<session, disk, row, req, unlinked>>

\* Sending throws, or the answer to the create does not come.
FailUpload(f) ==
    /\ upload[f].pc \in {"sending", "waiting"}
    /\ Fault
    /\ upload' = [upload EXCEPT ![f].pc = "failed"]
    /\ UNCHANGED <<session, disk, row, req, ghost>>

\* cancel_upload, whose own failure is ignored.
CancelUpload(f) ==
    /\ upload[f].pc = "failed"
    /\ upload' = [upload EXCEPT ![f].pc = "ended"]
    /\ \/ session' = [session EXCEPT ![f] = << >>] /\ UNCHANGED faults
       \/ Fault /\ UNCHANGED session
    /\ UNCHANGED <<disk, row, req, ghost>>

-----------------------------------------------------------------------------
(* create *)

Goto(r, place) == req' = [req EXCEPT ![r].pc = place]

\* The request is answered, and the uploader of the file told, if it waits.
Answer(r, pc) ==
    /\ req' = [req EXCEPT ![r] = Idle]
    /\ upload' = [f \in File |-> IF f = req[r].file /\ upload[f].pc = "waiting"
                                 THEN [upload[f] EXCEPT !.pc = pc] ELSE upload[f]]

\* A create arrives: the session's chunks so far become the buffer.
BeginCreate(r, f) ==
    /\ req[r] = Idle
    /\ \/ /\ upload[f].pc = "sending" /\ upload[f].next = Size[f]
          /\ upload' = [upload EXCEPT ![f].pc = IF session[f] = << >> THEN "failed" ELSE "waiting"]
       \/ Shared /\ UNCHANGED upload
    /\ req' = IF session[f] = << >> THEN req
              ELSE [req EXCEPT ![r] = [op |-> "create", pc |-> "write", file |-> f,
                                       bytes |-> session[f]]]
    /\ UNCHANGED <<session, disk, row, ghost, faults>>

\* writeFileBinary: the buffer goes to a temporary file named for the id,
WriteTmp(r) ==
    LET f == req[r].file
    IN  /\ req[r].pc = "write"
        /\ \/ tmp' = [tmp EXCEPT ![f] = req[r].bytes] /\ Goto(r, "rename") /\ UNCHANGED faults
           \/ Fault /\ Goto(r, "undo") /\ UNCHANGED tmp
        /\ UNCHANGED <<session, binary, row, upload, ghost>>

\* Mutant: a rename that fails is ignored.
RenameTmpUnchecked(r) ==
    LET f == req[r].file
    IN  /\ req[r].pc = "rename"
        /\ \/ /\ binary' = [binary EXCEPT ![f] = tmp[f]]
              /\ tmp' = [tmp EXCEPT ![f] = << >>]
              /\ UNCHANGED faults
           \/ Fault /\ UNCHANGED disk
        /\ session' = [session EXCEPT ![f] = << >>]
        /\ Goto(r, "insert")
        /\ UNCHANGED <<row, upload, ghost>>

\* which is renamed to the stored file.  The session ends.  A temporary file
\* that is gone is an error.
RenameTmp(r) ==
    LET f == req[r].file
    IN  /\ req[r].pc = "rename"
        /\ \/ /\ tmp[f] # << >>
              /\ binary' = [binary EXCEPT ![f] = tmp[f]]
              /\ tmp' = [tmp EXCEPT ![f] = << >>]
              /\ session' = [session EXCEPT ![f] = << >>]
              /\ Goto(r, "insert")
              /\ UNCHANGED faults
           \/ /\ (tmp[f] = << >> /\ UNCHANGED faults) \/ (tmp[f] # << >> /\ Fault)
              /\ Goto(r, "undo")
              /\ UNCHANGED <<session, disk>>
        /\ UNCHANGED <<row, upload, ghost>>

\* The catch of writeFileBinary deletes the stored file and the temporary one.
UndoWrite(r) ==
    LET f == req[r].file
    IN  /\ \/ /\ req[r].pc = "undo"
              /\ binary' = [binary EXCEPT ![f] = << >>]
              /\ Goto(r, "undoTmp")
              /\ UNCHANGED <<tmp, upload>>
           \/ /\ req[r].pc = "undoTmp"
              /\ tmp' = [tmp EXCEPT ![f] = << >>]
              /\ Answer(r, "failed")
              /\ UNCHANGED binary
        /\ UNCHANGED <<session, row, ghost, faults>>

\* insertFileMetadata: an id is taken once, deleted rows included.
InsertMetadata(r) ==
    LET f == req[r].file
    IN  /\ req[r].pc = "insert"
        /\ \/ /\ row[f] = "none"
              /\ row' = [row EXCEPT ![f] = "live"]
              /\ Answer(r, "ended")
              /\ UNCHANGED faults
           \/ row[f] # "none" /\ Goto(r, "drop") /\ UNCHANGED <<row, upload, faults>>
           \/ Fault /\ Goto(r, "drop") /\ UNCHANGED <<row, upload>>
        /\ UNCHANGED <<session, disk, ghost>>

\* Mutant: the binary of a create that fails is left behind.
DropBinaryNot(r) ==
    /\ req[r].pc = "drop"
    /\ Answer(r, "failed")
    /\ UNCHANGED <<session, disk, row, ghost, faults>>

\* The insert failed: the binary of that id is deleted.
DropBinary(r) ==
    /\ req[r].pc = "drop"
    /\ binary' = [binary EXCEPT ![req[r].file] = << >>]
    /\ Answer(r, "failed")
    /\ UNCHANGED <<session, tmp, row, ghost, faults>>

-----------------------------------------------------------------------------
(* delete, and the process *)

\* deleteFileResource selects the row, a deleted one as well,
BeginDelete(r, f) ==
    /\ req[r] = Idle /\ row[f] # "none"
    /\ req' = [req EXCEPT ![r] = [op |-> "delete", pc |-> "unlink", file |-> f, bytes |-> << >>]]
    /\ UNCHANGED <<session, disk, row, upload, ghost, faults>>

\* deletes the binary,
UnlinkBinary(r) ==
    /\ req[r].pc = "unlink"
    /\ binary' = [binary EXCEPT ![req[r].file] = << >>]
    /\ unlinked' = unlinked \cup {req[r].file}
    /\ Goto(r, "tombstone")
    /\ UNCHANGED <<session, tmp, row, upload, shortened, faults>>

\* and then tombstones the row, if it still is a live one.
Tombstone(r) ==
    LET f == req[r].file
    IN  /\ req[r].pc = "tombstone"
        /\ \/ row' = [row EXCEPT ![f] = IF @ = "live" THEN "deleted" ELSE @] /\ UNCHANGED faults
           \/ Fault /\ UNCHANGED row
        /\ req' = [req EXCEPT ![r] = Idle]
        /\ UNCHANGED <<session, disk, upload, ghost>>

\* The api restarts: sessions and requests are gone, the disk and the rows stay.
Restart ==
    /\ Fault
    /\ session' = [f \in File |-> << >>]
    /\ req' = [r \in Request |-> Idle]
    /\ upload' = [f \in File |-> IF upload[f].pc = "waiting"
                                 THEN [upload[f] EXCEPT !.pc = "failed"] ELSE upload[f]]
    /\ shortened' = shortened \cup {f \in File : session[f] # << >>}
    /\ UNCHANGED <<disk, row, unlinked>>

Next ==
    \/ \E f \in File : SendFrame(f) \/ LoseFrame(f) \/ FailUpload(f) \/ CancelUpload(f)
    \/ \E r \in Request, f \in File : BeginCreate(r, f) \/ BeginDelete(r, f)
    \/ \E r \in Request : \/ WriteTmp(r) \/ RenameTmp(r) \/ UndoWrite(r)
                          \/ InsertMetadata(r) \/ DropBinary(r)
                          \/ UnlinkBinary(r) \/ Tombstone(r)
    \/ Restart

Spec == Init /\ [][Next]_vars

-----------------------------------------------------------------------------
(* Properties *)

\* A live row has its binary, whatever failed, was lost or restarted, unless
\* a delete has already removed it: the binary is written before the row, and
\* a create that fails takes back only what it wrote.
LiveFileHasItsBinary ==
    \A f \in File : row[f] = "live" => binary[f] # << >> \/ f \in unlinked

\* A stored binary is a beginning of its file, no chunk twice and none left out
\* between two others; and it is the whole file unless a chunk was lost on the
\* way or the file exceeds the limit.
StoredAsSent ==
    \A f \in File :
        /\ \A i \in DOMAIN binary[f] : binary[f][i] = i - 1
        /\ binary[f] # << >> /\ f \notin shortened /\ Size[f] <= MaxChunks
               => Len(binary[f]) = Size[f]

\* Without a failure or a restart, a binary that no request is working on
\* belongs to a live row: a deleted file is gone from disk, and a create that
\* is refused leaves nothing behind.
NoOrphanBinary ==
    \A f \in File :
        faults = 0 /\ binary[f] # << >> /\ (\A r \in Request : req[r].file # f)
            => row[f] = "live"

\* An upload that is accepted is within the maximum size (api/README.md:167):
\* one that exceeds it is refused, not stored in part.
OversizeIsRefused == \A f \in File : Size[f] > MaxChunks => row[f] = "none"

=============================================================================
