----------------------------- MODULE FileStore -----------------------------
(***************************************************************************)
(* The file handlers of class VeriFS (packages/core/src/index.ts): write   *)
(* and upload, delete, read, ingest and extract.  Node runs one            *)
(* synchronous segment at a time, so an action is the code between two     *)
(* awaits; whatever another request does while this one is suspended       *)
(* happens between two actions.  No handler takes a lock or opens a        *)
(* transaction.                                                            *)
(*                                                                         *)
(* A file lives in three places: its row of the files table, the blob its  *)
(* row names (a row of the blobs table and a file named by its hash), and  *)
(* a copy in the workspace directory.  Every change is also announced in   *)
(* the sync_events table, by its history and audit rows (objects           *)
(* "file_events" and "audit_events": path and hash) and by a "files" event *)
(* with the bytes.  Only the last is modelled: it alone is what syncPull   *)
(* applies to a replica.                                                   *)
(***************************************************************************)
EXTENDS Naturals, Sequences, SequencesExt

CONSTANTS
  Path,         \* workspace paths, normalised
  Content,      \* file contents; a content stands for its SHA-256 too
  Binary,       \* contents whose blobs row has content_text = NULL
  Task,         \* requests that may be in flight together
  MaxRequests,  \* bound on requests per behaviour
  MaxFaults,    \* bound on crashes and failed I/O calls per behaviour
  CascadeOn,    \* does SQLite enforce ON DELETE CASCADE on this connection?
  NoFile, NoContent, Empty, Torn

ASSUME FileStoreAssumption ==
  /\ Binary \subseteq Content
  /\ MaxRequests \in Nat
  /\ MaxFaults \in Nat
  /\ CascadeOn \in BOOLEAN
  /\ {NoContent, Empty, Torn} \cap Content = {}
  /\ NoFile \notin [id : Nat \ {0}, sha : Content]

VARIABLES
  file,      \* the files table, by path
  blobRow,   \* contents with a row in the blobs table
  blobDisk,  \* what data/blobs holds of each content
  disk,      \* the copies in the workspace directory
  opened,    \* path -> requests with a descriptor on the copy's current inode
  outbox,    \* sync_events rows of object type "files", oldest first
  node,      \* <<file id, blob sha>> each memory node cites
  pc,        \* request -> where it is suspended
  req,       \* request -> what it asks for
  seen,      \* request -> the files row it looked up
  result,    \* request -> what it answers
  nextId,    \* next random file id
  used,      \* requests submitted so far
  faults,    \* crashes and failed I/O calls so far
  clean,     \* history: paths whose changes never overlapped or broke off
  cut        \* history: contents whose blob write broke off

store == <<file, blobRow, blobDisk, disk, opened, outbox, node, nextId>>
history == <<used, faults, clean, cut>>
vars == <<store, pc, req, seen, result, history>>

FileId == Nat \ {0}
FileRow == [id : FileId, sha : Content]

WriteRequest ==
  [op : {"write"}, path : Path, content : Content, run : BOOLEAN, ingest : BOOLEAN]
OtherRequest ==
  [op : {"delete", "read", "ingest"}, path : Path, content : {NoContent},
   run : {FALSE}, ingest : {FALSE}]
Request == WriteRequest \cup OtherRequest
NoRequest == [op |-> "none"]

Suspended ==
  {"idle", "begin", "blobopen", "blobwrite", "blobinsert", "open", "write", "commit",
   "runlog", "ingest", "embed", "link", "rm", "drop", "readblob", "reply"}

SyncEvent ==
  [op : {"upsert"}, path : Path, sha : Content] \cup [op : {"delete"}, path : Path, sha : Content]

Mutates(t) == pc[t] # "idle" /\ req[t].op \in {"write", "delete"}

Writing(t, c) ==
  pc[t] \in {"blobopen", "blobwrite"} /\ req[t].content = c

InTable(p) == IF file[p] = NoFile THEN NoContent ELSE file[p].sha

Goto(t, label) == pc' = [pc EXCEPT ![t] = label]
Answer(t, value) ==
  /\ Goto(t, "reply")
  /\ result' = [result EXCEPT ![t] = value]

-----------------------------------------------------------------------------
(* Nothing is stored, or one file was written before. *)
Init ==
  /\ \/ /\ file = [p \in Path |-> NoFile]
        /\ blobRow = {} /\ outbox = <<>> /\ nextId = 1
     \/ \E h \in Path : \E c \in Content :
          /\ file = [p \in Path |-> IF p = h THEN [id |-> 1, sha |-> c] ELSE NoFile]
          /\ blobRow = {c} /\ outbox = <<[op |-> "upsert", path |-> h, sha |-> c]>> /\ nextId = 2
  /\ blobDisk = [c \in Content |-> IF c \in blobRow THEN "full" ELSE "absent"]
  /\ disk = [p \in Path |-> InTable(p)]
  /\ opened = [p \in Path |-> {}]
  /\ node = {}
  /\ pc = [t \in Task |-> "idle"]
  /\ req = [t \in Task |-> NoRequest]
  /\ seen = [t \in Task |-> NoFile]
  /\ result = [t \in Task |-> "none"]
  /\ used = 0
  /\ faults = 0
  /\ clean = [p \in Path |-> TRUE]
  /\ cut = {}

(* A request arrives.  History: its path stops being clean when another    *)
(* change of the same path is still in flight.                             *)
Submit(t, r) ==
  /\ pc[t] = "idle"
  /\ used < MaxRequests
  /\ used' = used + 1
  /\ Goto(t, "begin")
  /\ req' = [req EXCEPT ![t] = r]
  /\ seen' = [seen EXCEPT ![t] = NoFile]
  /\ result' = [result EXCEPT ![t] = "none"]
  /\ clean' = [clean EXCEPT ![r.path] =
       @ /\ ~ (r.op \in {"write", "delete"} /\ \E u \in Task : Mutates(u) /\ req[u].path = r.path)]
  /\ UNCHANGED <<store, faults, cut>>

(* The early throws: no such workspace, the root, a role without the       *)
(* permission, a protected path.  At most an audit row is left behind.     *)
Refuse(t) ==
  /\ pc[t] = "begin" /\ req[t].op # "ingest"
  /\ Answer(t, "refused")
  /\ UNCHANGED <<store, req, seen, history>>

(* Variant: storeBlob takes bytes on disk for a stored blob.               *)
WriteBeginTrustsDisk(t) ==
  /\ pc[t] = "begin" /\ req[t].op = "write"
  /\ Goto(t, IF blobDisk[req[t].content] = "absent" THEN "blobopen" ELSE "open")
  /\ UNCHANGED <<store, req, seen, result, history>>

(* storeBlob up to its first await: the blobs row is looked up, then the   *)
(* disk.  With the bytes on disk already, storeBlob returns or inserts the *)
(* row without suspending.                                                 *)
WriteBegin(t) ==
  LET c == req[t].content IN
  /\ pc[t] = "begin" /\ req[t].op = "write"
  /\ seen' = [seen EXCEPT ![t] = NoFile]
  /\ IF blobDisk[c] = "absent"
     THEN Goto(t, "blobopen") /\ UNCHANGED blobRow
     ELSE Goto(t, "open") /\ blobRow' = blobRow \cup {c}
  /\ UNCHANGED <<file, blobDisk, disk, opened, outbox, node, nextId, req, result, history>>

(* Variant: the write of the blob is not awaited and fails.                *)
BlobOpenNotAwaited(t) ==
  /\ pc[t] = "blobopen"
  /\ blobDisk' = [blobDisk EXCEPT ![req[t].content] = "partial"]
  /\ Goto(t, "blobinsert")
  /\ UNCHANGED <<file, blobRow, disk, opened, outbox, node, nextId, req, seen, result, history>>

(* fs.writeFile of the blob: open with truncation, then the bytes.         *)
BlobOpen(t) ==
  /\ pc[t] = "blobopen"
  /\ blobDisk' = [blobDisk EXCEPT ![req[t].content] = "partial"]
  /\ Goto(t, "blobwrite")
  /\ UNCHANGED <<file, blobRow, disk, opened, outbox, node, nextId, req, seen, result, history>>

BlobWrite(t) ==
  /\ pc[t] = "blobwrite"
  /\ blobDisk' = [blobDisk EXCEPT ![req[t].content] = "full"]
  /\ Goto(t, "blobinsert")
  /\ UNCHANGED <<file, blobRow, disk, opened, outbox, node, nextId, req, seen, result, history>>

(* The rest of storeBlob.  No row was there when the handler looked, since *)
(* the bytes were not on disk; if another writer of the same content has   *)
(* inserted it meanwhile, this INSERT breaks the primary key and throws.   *)
BlobInsert(t) ==
  LET c == req[t].content IN
  /\ pc[t] = "blobinsert"
  /\ IF c \in blobRow
     THEN Answer(t, "failed") /\ UNCHANGED blobRow
     ELSE blobRow' = blobRow \cup {c} /\ Goto(t, "open") /\ UNCHANGED result
  /\ UNCHANGED <<file, blobDisk, disk, opened, outbox, node, nextId, req, seen, history>>

(* writeWorkspaceFile: open with truncation, then the bytes.               *)
CopyOpen(t) ==
  LET p == req[t].path IN
  /\ pc[t] = "open"
  /\ disk' = [disk EXCEPT ![p] = Empty]
  /\ opened' = [opened EXCEPT ![p] = @ \cup {t}]
  /\ Goto(t, "write")
  /\ UNCHANGED <<file, blobRow, blobDisk, outbox, node, nextId, req, seen, result, history>>

(* Two descriptors on one inode overlay their bytes; a descriptor whose    *)
(* file was unlinked writes where nobody looks.                            *)
CopyWrite(t) ==
  LET p == req[t].path
      c == req[t].content IN
  /\ pc[t] = "write"
  /\ IF t \in opened[p]
     THEN \E d \in IF disk[p] \in {Empty, c} THEN {c} ELSE {c, Torn} :
            disk' = [disk EXCEPT ![p] = d]
     ELSE UNCHANGED disk
  /\ opened' = [opened EXCEPT ![p] = @ \ {t}]
  /\ Goto(t, "commit")
  /\ UNCHANGED <<file, blobRow, blobDisk, outbox, node, nextId, req, seen, result, history>>

Announce(op, p, c) == outbox' = Append(outbox, [op |-> op, path |-> p, sha |-> c])

AfterWrite(t) == IF req[t].ingest THEN Goto(t, "ingest") /\ UNCHANGED result
                                  ELSE Answer(t, "ok")

(* Variant: the row is replaced instead of updated.                        *)
UpsertReplaces(t) ==
  /\ file' = [file EXCEPT ![req[t].path] = [id |-> nextId, sha |-> req[t].content]]
  /\ nextId' = nextId + 1

(* The synchronous segment of persistFileBytes that selects the row by     *)
(* path and updates or inserts it.                                         *)
UpsertRow(t) ==
  LET p == req[t].path
      new == file[p] = NoFile IN
  /\ file' = [file EXCEPT ![p] =
       [id |-> IF new THEN nextId ELSE @.id, sha |-> req[t].content]]
  /\ nextId' = IF new THEN nextId + 1 ELSE nextId

(* With a run_id the handler suspends in appendRunArtifact before it       *)
(* announces the change; without one, it announces it in the same segment. *)
Commit(t) ==
  /\ pc[t] = "commit"
  /\ UpsertRow(t)
  /\ IF req[t].run
     THEN Goto(t, "runlog") /\ UNCHANGED <<outbox, result>>
     ELSE Announce("upsert", req[t].path, req[t].content) /\ AfterWrite(t)
  /\ UNCHANGED <<blobRow, blobDisk, disk, opened, node, req, seen, history>>

(* logRunEvent throws when there is no such run: the row has changed, its  *)
(* history and audit rows are written, the caller is told that the write   *)
(* failed, and no event carries the bytes.                                 *)
CommitUnannounced(t) ==
  /\ pc[t] = "commit" /\ req[t].run
  /\ UpsertRow(t)
  /\ Answer(t, "failed")
  /\ clean' = [clean EXCEPT ![req[t].path] = FALSE]
  /\ UNCHANGED <<blobRow, blobDisk, disk, opened, outbox, node, req, seen, used, faults, cut>>

(* Variant: a write with a run_id returns from appendRunArtifact.          *)
RunLoggedUnannounced(t) ==
  /\ pc[t] = "runlog"
  /\ AfterWrite(t)
  /\ UNCHANGED <<store, req, seen, history>>

RunLogged(t) ==
  /\ pc[t] = "runlog"
  /\ Announce("upsert", req[t].path, req[t].content)
  /\ AfterWrite(t)
  /\ UNCHANGED <<file, blobRow, blobDisk, disk, opened, node, nextId, req, seen, history>>

(* ingestFile, after a write or on its own: the files row and its blob row *)
(* are looked up, then the bytes are read and a model extracts the nodes.  *)
IngestBegin(t) ==
  LET row == file[req[t].path] IN
  /\ \/ pc[t] = "ingest"
     \/ pc[t] = "begin" /\ req[t].op = "ingest"
  /\ IF row = NoFile \/ row.sha \notin blobRow
     THEN Answer(t, "failed") /\ UNCHANGED seen
     ELSE Goto(t, "embed") /\ seen' = [seen EXCEPT ![t] = row] /\ UNCHANGED result
  /\ UNCHANGED <<store, req, history>>

(* A node is inserted with the row looked up before the awaits.  SQLite    *)
(* refuses it when foreign keys are enforced and the file has gone.        *)
InsertNode(t) ==
  /\ pc[t] = "embed"
  /\ IF CascadeOn /\ ~ \E p \in Path : file[p] # NoFile /\ file[p].id = seen[t].id
     THEN Answer(t, "failed") /\ UNCHANGED node
     ELSE node' = node \cup {seen[t]} /\ Goto(t, "link") /\ UNCHANGED result
  /\ UNCHANGED <<file, blobRow, blobDisk, disk, opened, outbox, nextId, req, seen, history>>

(* After the embeddings: getMemoryNode joins the files table and throws    *)
(* when the file has gone, leaving the node.  Otherwise the next node of   *)
(* the file is extracted or the handler ends.                              *)
LinkNode(t) ==
  /\ pc[t] = "link"
  /\ IF \E p \in Path : file[p] # NoFile /\ file[p].id = seen[t].id
     THEN Goto(t, "embed") /\ UNCHANGED result
     ELSE Answer(t, "failed")
  /\ UNCHANGED <<store, req, seen, history>>

IngestEnd(t) ==
  /\ pc[t] = "embed"
  /\ Answer(t, "ok")
  /\ UNCHANGED <<store, req, seen, history>>

(* deleteFile: the row is looked up and the delete event written; then the *)
(* copy is removed; then the row that was looked up is deleted by id and   *)
(* the deletion of the path announced.                                     *)
DeleteBegin(t) ==
  LET row == file[req[t].path] IN
  /\ pc[t] = "begin" /\ req[t].op = "delete"
  /\ IF row = NoFile
     THEN Answer(t, "failed") /\ UNCHANGED seen
     ELSE Goto(t, "rm") /\ seen' = [seen EXCEPT ![t] = row] /\ UNCHANGED result
  /\ UNCHANGED <<store, req, history>>

RemoveCopy(t) ==
  LET p == req[t].path IN
  /\ pc[t] = "rm"
  /\ disk' = [disk EXCEPT ![p] = NoContent]
  /\ opened' = [opened EXCEPT ![p] = {}]
  /\ Goto(t, "drop")
  /\ UNCHANGED <<file, blobRow, blobDisk, outbox, node, nextId, req, seen, result, history>>

(* Variants: the row is deleted by its path; it is kept as a tombstone.    *)
DropRowByPath(t) ==
  /\ file' = [file EXCEPT ![req[t].path] = NoFile]
  /\ UNCHANGED node

DropRowTombstone(t) ==
  /\ file' = [file EXCEPT ![req[t].path] = [id |-> seen[t].id, sha |-> NoContent]]
  /\ UNCHANGED node

DropRow(t) ==
  /\ file' = [p \in Path |->
       IF file[p] # NoFile /\ file[p].id = seen[t].id THEN NoFile ELSE file[p]]
  /\ node' = IF CascadeOn THEN {n \in node : n.id # seen[t].id} ELSE node

Drop(t) ==
  /\ pc[t] = "drop"
  /\ DropRow(t)
  /\ Announce("delete", req[t].path, seen[t].sha)
  /\ Answer(t, "ok")
  /\ UNCHANGED <<blobRow, blobDisk, disk, opened, nextId, req, seen, history>>

(* Variant: the copy in the workspace directory is read instead.           *)
ReadBeginFromCopy(t) ==
  LET row == file[req[t].path] IN
  /\ pc[t] = "begin" /\ req[t].op = "read"
  /\ Answer(t, IF row = NoFile THEN "failed" ELSE disk[req[t].path])
  /\ UNCHANGED <<store, req, seen, history>>

(* readFile: the rows are looked up; a text blob is answered from its row, *)
(* another is read from disk.                                              *)
ReadBegin(t) ==
  LET row == file[req[t].path] IN
  /\ pc[t] = "begin" /\ req[t].op = "read"
  /\ IF row = NoFile \/ row.sha \notin blobRow
     THEN Answer(t, "failed") /\ UNCHANGED seen
     ELSE /\ seen' = [seen EXCEPT ![t] = row]
          /\ IF row.sha \in Binary THEN Goto(t, "readblob") /\ UNCHANGED result
                                   ELSE Answer(t, row.sha)
  /\ UNCHANGED <<store, req, history>>

ReadBlob(t) ==
  /\ pc[t] = "readblob"
  /\ Answer(t, IF blobDisk[seen[t].sha] = "full" THEN seen[t].sha ELSE Torn)
  /\ UNCHANGED <<store, req, seen, history>>

Reply(t) ==
  /\ pc[t] = "reply"
  /\ Goto(t, "idle")
  /\ req' = [req EXCEPT ![t] = NoRequest]
  /\ seen' = [seen EXCEPT ![t] = NoFile]
  /\ result' = [result EXCEPT ![t] = "none"]
  /\ UNCHANGED <<store, history>>

-----------------------------------------------------------------------------
(* An await of the handler rejects: the disk, the model or the embedding   *)
(* service fails.  What was done stays done, and the error is the answer.  *)
AwaitFails(t) ==
  LET p == req[t].path IN
  /\ pc[t] \in {"blobopen", "blobwrite", "open", "write", "runlog", "embed", "link", "rm", "readblob"}
  /\ faults < MaxFaults
  /\ faults' = faults + 1
  /\ Answer(t, "error")
  /\ opened' = [opened EXCEPT ![p] = @ \ {t}]
  /\ clean' = [clean EXCEPT ![p] = @ /\ pc[t] \notin {"write", "runlog"}]
  /\ cut' = IF pc[t] = "blobwrite" THEN cut \cup {req[t].content} ELSE cut
  /\ UNCHANGED <<file, blobRow, blobDisk, disk, outbox, node, nextId, req, seen, used>>

(* The process dies and restarts.  SqliteDatabase.run rewrites the         *)
(* database file after every statement, so a statement that ran survives;  *)
(* a file that was being written stays as it is.                           *)
Restart ==
  /\ faults < MaxFaults
  /\ faults' = faults + 1
  /\ pc' = [t \in Task |-> "idle"]
  /\ req' = [t \in Task |-> NoRequest]
  /\ seen' = [t \in Task |-> NoFile]
  /\ result' = [t \in Task |-> "none"]
  /\ opened' = [p \in Path |-> {}]
  /\ clean' = [p \in Path |-> clean[p] /\ ~ \E t \in Task : Mutates(t) /\ req[t].path = p]
  /\ cut' = cut \cup {c \in Content : blobDisk[c] = "partial"}
  /\ UNCHANGED <<blobRow, blobDisk, disk, used>>

Crash ==
  /\ Restart
  /\ UNCHANGED <<file, outbox, node, nextId>>

(* It dies between two statements of one segment: the files row has        *)
(* changed and no sync event says so.                                      *)
CrashInCommit(t) ==
  /\ pc[t] = "commit"
  /\ UpsertRow(t)
  /\ Restart
  /\ UNCHANGED <<outbox, node>>

CrashInDrop(t) ==
  /\ pc[t] = "drop"
  /\ DropRow(t)
  /\ Restart
  /\ UNCHANGED <<outbox, nextId>>

WriteStep(t) ==
  \/ WriteBegin(t) \/ BlobOpen(t) \/ BlobWrite(t) \/ BlobInsert(t)
  \/ CopyOpen(t) \/ CopyWrite(t) \/ Commit(t) \/ CommitUnannounced(t) \/ RunLogged(t)
IngestStep(t) == IngestBegin(t) \/ InsertNode(t) \/ LinkNode(t) \/ IngestEnd(t)
DeleteStep(t) == DeleteBegin(t) \/ RemoveCopy(t) \/ Drop(t)
ReadStep(t) == ReadBegin(t) \/ ReadBlob(t)

Next ==
  \/ \E t \in Task : \E r \in Request : Submit(t, r)
  \/ \E t \in Task : Refuse(t) \/ AwaitFails(t) \/ Reply(t)
  \/ \E t \in Task : WriteStep(t) \/ IngestStep(t) \/ DeleteStep(t) \/ ReadStep(t)
  \/ Crash
  \/ \E t \in Task : CrashInCommit(t) \/ CrashInDrop(t)

Spec == Init /\ [][Next]_vars

-----------------------------------------------------------------------------
TypeOK ==
  /\ file \in [Path -> FileRow \cup {NoFile}]
  /\ blobRow \subseteq Content
  /\ blobDisk \in [Content -> {"absent", "partial", "full"}]
  /\ disk \in [Path -> Content \cup {NoContent, Empty, Torn}]
  /\ opened \in [Path -> SUBSET Task]
  /\ outbox \in Seq(SyncEvent)
  /\ node \subseteq FileRow
  /\ pc \in [Task -> Suspended]
  /\ req \in [Task -> Request \cup {NoRequest}]
  /\ seen \in [Task -> FileRow \cup {NoFile}]
  /\ result \in [Task -> Content \cup {Torn, "none", "ok", "failed", "refused", "error"}]
  /\ nextId \in FileId
  /\ used \in 0..MaxRequests
  /\ faults \in 0..MaxFaults
  /\ clean \in [Path -> BOOLEAN]
  /\ cut \subseteq Content

(* Nothing names a blob the store cannot find: every files row, every      *)
(* memory node's source reference, every announced change and every row a  *)
(* suspended handler still holds has a blobs row.  No foreign key says so  *)
(* (files.current_blob_sha256 has none); the order of persistFileBytes     *)
(* does, in every interleaving and after every crash.                      *)
NothingNamesALostBlob ==
  /\ \A p \in Path : file[p] # NoFile => file[p].sha \in blobRow
  /\ \A n \in node : n.sha \in blobRow
  /\ \A i \in 1..Len(outbox) : outbox[i].sha \in blobRow
  /\ \A t \in Task : seen[t] # NoFile => seen[t].sha \in blobRow

(* A blob with a row has all its bytes on disk, unless a request is        *)
(* writing them right now or their write once broke off.                   *)
BlobsAreWhole ==
  \A c \in blobRow \ cut :
    (\A t \in Task : ~ Writing(t, c)) => blobDisk[c] = "full"

(* What a replica that applies the announced changes in order would hold   *)
(* at path p.                                                              *)
Replayed(p) ==
  LET i == SelectLastInSeq(outbox, LAMBDA e : e.path = p) IN
  IF i = 0 \/ outbox[i].op = "delete" THEN NoContent ELSE outbox[i].sha

AtRest(p) == \A t \in Task : pc[t] # "idle" => req[t].path # p

(* Where no two changes of a path ever overlapped and none broke off       *)
(* halfway, the three places agree whenever the path is at rest: the files *)
(* table, the copy in the workspace directory, and the announced changes.  *)
(* Requests for other paths, and those that fail before or after they      *)
(* change the path, do not disturb them.                                   *)
CleanPathsAgree ==
  \A p \in Path : clean[p] /\ AtRest(p) =>
    disk[p] = InTable(p) /\ Replayed(p) = InTable(p)

(* docs/memory-model.md:13: "Blobs preserve the source bytes used by files *)
(* and memory nodes."  The content of a binary file is on disk only.       *)
BlobsPreserveBytes ==
  \A p \in Path :
    /\ file[p] # NoFile
    /\ file[p].sha \in Binary
    /\ \A t \in Task : ~ Writing(t, file[p].sha)
    => blobDisk[file[p].sha] = "full"

(* docs/architecture.md:116: "File, blob, [...] and audit operations emit  *)
(* sync events."  The content of every file at rest was announced by the   *)
(* "files" event that a pull applies (recordSyncEvent in persistFileBytes, *)
(* together with the one of the blob).                                     *)
ContentsAreAnnounced ==
  \A p \in Path : file[p] # NoFile /\ AtRest(p) =>
    \E i \in 1..Len(outbox) : outbox[i] = [op |-> "upsert", path |-> p, sha |-> file[p].sha]

(* A row disappears only under a delete request that looked up this very   *)
(* file: a file created while a delete was suspended survives it.          *)
OnlyTheFileSeenIsDropped ==
  [][\A p \in Path : file[p] # NoFile /\ file'[p] = NoFile =>
       \E t \in Task : pc[t] = "drop" /\ req[t].path = p /\ seen[t].id = file[p].id]_vars

(* A path keeps its file id as long as it has a row, so the nodes derived  *)
(* from it keep their file; and no id ever moves to another path.          *)
FileIdsAreStable ==
  [][\A p, q \in Path : file[p] # NoFile /\ file'[q] # NoFile =>
       (p = q <=> file'[q].id = file[p].id)]_vars

-----------------------------------------------------------------------------
(* The refinement of AtomicFiles: a write takes effect when its row is     *)
(* upserted, a delete when the row is deleted, a read when it looks the    *)
(* row up.                                                                 *)
Progress(t) ==
  CASE pc[t] = "idle" -> "idle"
    [] pc[t] = "reply" -> "done"
    [] pc[t] \in {"runlog", "ingest", "readblob"} -> "taken"
    [] pc[t] \in {"embed", "link"} /\ req[t].op = "write" -> "taken"
    [] OTHER -> "pending"

Late(t) ==
  pc[t] \in {"rm", "drop"} /\ (file[req[t].path] = NoFile \/ file[req[t].path].id # seen[t].id)

AbstractCall(t) ==
  [st |-> Progress(t), req |-> req[t],
   ans |-> IF pc[t] = "readblob" THEN seen[t].sha ELSE result[t], late |-> Late(t)]

Atomic == INSTANCE AtomicFiles WITH
  table <- [p \in Path |-> InTable(p)], call <- [t \in Task |-> AbstractCall(t)]

(* Every request appears to take effect at one instant between its arrival *)
(* and its answer, whatever the interleaving and whenever the process      *)
(* dies; AtomicFiles says what each may do to the table and answer.        *)
ImplementsAtomicFiles == Atomic!Spec

=============================================================================
