--------------------------------- MODULE Media ---------------------------------
(***************************************************************************)
(* Media of the albums: the file lies in an object storage, the row in the    *)
(* database, and no transaction spans the two.  An upload stores the file      *)
(* before it commits the row; a deletion removes the file before it commits      *)
(* the row's.  The calls to the storage are synchronous; a request may end        *)
(* with an error, or the process with it, after either of its two halves.          *)
(***************************************************************************)
EXTENDS Integers, FiniteSets, School

CONSTANTS MaxUploads,     \* bound: uploads; their paths are 1 .. MaxUploads
          MaxRemovals     \* bound: deletions that are asked for

ASSUME MediaAssumption == MaxUploads \in Nat /\ MaxRemovals \in Nat

VARIABLES files,      \* paths the storage holds
          media,      \* paths that rows of media_items name
          given,      \* uuids given out so far
          removals,   \* deletions so far
          torn        \* history: paths whose request ended between its two halves

mediaVars == <<files, media, given, removals, torn>>

Paths == 1 .. MaxUploads

-----------------------------------------------------------------------------
MediaInit == files = {} /\ media = {} /\ given = 0 /\ removals = 0 /\ torn = {} /\ JobInit

\* Mutant: the upload goes on when the storage refuses the file.
UploadStoreAnyway(s) ==
  /\ given < MaxUploads /\ given' = given + 1
  /\ Begin(s, [kind |-> "upload", path |-> given']) /\ files' \in {files, files \cup {given'}}
  /\ UNCHANGED <<media, removals, torn>>

\* upload_media_item up to the call of the storage, which overwrites nothing: the
\* path is a new uuid.  When the storage refuses there is no request left.
UploadStore(s) ==
  /\ given < MaxUploads /\ given' = given + 1
  /\ Begin(s, [kind |-> "upload", path |-> given']) /\ files' = files \cup {given'}
  /\ UNCHANGED <<media, removals, torn>>

UploadCommit(s) ==
  /\ Working(s, "upload") /\ media' = media \cup {job[s].path}
  /\ EndJob(s) /\ UNCHANGED <<files, given, removals, torn>>

\* delete_media_item reads the row and, in a SELECT of its own, the album.
RemoveRead(s, p) ==
  /\ removals < MaxRemovals /\ removals' = removals + 1 /\ p \in media
  /\ Begin(s, [kind |-> "remove", path |-> p, reached |-> FALSE])
  /\ UNCHANGED <<files, media, given, torn>>

\* Removing a file that is gone is no error.
RemoveFile(s) ==
  /\ Working(s, "remove") /\ ~job[s].reached
  /\ job' = [job EXCEPT ![s].reached = TRUE] /\ files' = files \ {job[s].path}
  /\ UNCHANGED <<media, given, removals, torn>>

\* Deleting a row that is gone is only a warning.
RemoveCommit(s) ==
  /\ Working(s, "remove") /\ job[s].reached /\ media' = media \ {job[s].path}
  /\ EndJob(s) /\ UNCHANGED <<files, given, removals, torn>>

\* The rollback knows nothing of the storage.
MediaFails(s) ==
  /\ Working(s, "upload") \/ Working(s, "remove")
  /\ torn' = torn \cup {p \in Paths : p = job[s].path /\ (Working(s, "upload") \/ job[s].reached)}
  /\ EndJob(s) /\ UNCHANGED <<files, media, given, removals>>

\* generate_signed_url succeeds: the row is found and the storage has its file.
Served == media \cap files

MediaNext ==
  /\ \E s \in Sessions :
       \/ UploadStore(s) \/ UploadCommit(s) \/ RemoveFile(s) \/ RemoveCommit(s) \/ MediaFails(s)
       \/ \E p \in Paths : RemoveRead(s, p)
  /\ UNCHANGED alone

MediaSpec == MediaInit /\ [][MediaNext]_<<job, alone, mediaVars>>

-----------------------------------------------------------------------------
(* What the two stores promise each other. *)

\* The tables and the requests have their types.
MediaTypeOK ==
  /\ files \subseteq Paths /\ media \subseteq Paths /\ torn \subseteq Paths
  /\ given \in 0 .. MaxUploads /\ removals \in 0 .. MaxRemovals
  /\ \A s \in Sessions :
       \/ job[s] = NoJob
       \/ Working(s, "upload") /\ job[s].path \in Paths
       \/ Working(s, "remove") /\ job[s].path \in Paths /\ job[s].reached \in BOOLEAN

\* The paths that a request between its two halves works on.
HalfWay == {p \in Paths : \E s \in Sessions :
              \/ Working(s, "upload") /\ job[s].path = p
              \/ Working(s, "remove") /\ job[s].path = p /\ job[s].reached}

\* The two stores differ only where a request is between its halves or ended there:
\* deletions that run together, or are asked again, leave neither a file without
\* a row nor a row without its file.
StoresAgree == (files \ media) \cup (media \ files) \subseteq HalfWay \cup torn
=============================================================================
