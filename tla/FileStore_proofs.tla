-------------------------- MODULE FileStore_proofs --------------------------
(***************************************************************************)
(* What holds of FileStore for every set of paths, contents and requests,  *)
(* every number of requests in flight and every number of faults.          *)
(***************************************************************************)
EXTENDS FileStore, TLAPS, WellFoundedInduction

(* What a suspended handler holds at each place it waits.                  *)
WritePc ==
  {"blobopen", "blobwrite", "blobinsert", "open", "write", "commit", "runlog", "ingest"}

Control ==
  \A t \in Task :
    /\ pc[t] # "idle" => req[t] \in Request
    /\ pc[t] \in WritePc => req[t] \in WriteRequest
    /\ pc[t] \in {"rm", "drop", "embed", "link", "readblob"} => seen[t] \in FileRow

-----------------------------------------------------------------------------
LEMMA Sentinels ==
  /\ NoFile \notin FileRow
  /\ NoContent \notin Content /\ Empty \notin Content /\ Torn \notin Content
  /\ Binary \subseteq Content
BY FileStoreAssumption DEF FileRow, FileId

(* The fields of requests.                                                 *)
LEMMA RequestFields ==
  ASSUME NEW r \in Request
  PROVE  /\ r.path \in Path
         /\ r.op \in {"write", "delete", "read", "ingest"}
         /\ r.op = "write" => r \in WriteRequest
BY DEF Request, WriteRequest, OtherRequest

LEMMA WriteRequestFields ==
  ASSUME NEW r \in WriteRequest
  PROVE  /\ r.path \in Path /\ r.content \in Content /\ r.op = "write"
         /\ r.run \in BOOLEAN /\ r.ingest \in BOOLEAN /\ r \in Request
BY DEF Request, WriteRequest

(* The initial tables: empty, or one file with its blob and its event.     *)
LEMMA InitTables ==
  ASSUME Init
  PROVE  /\ file \in [Path -> FileRow \cup {NoFile}]
         /\ blobRow \subseteq Content
         /\ outbox \in Seq(SyncEvent) /\ \A i \in 1..Len(outbox) : outbox[i].sha \in blobRow
         /\ nextId \in FileId
         /\ \A p \in Path : file[p] # NoFile => file[p].sha \in blobRow /\ file[p].id < nextId
         /\ \A p, q \in Path : file[p] # NoFile /\ file[q] # NoFile => p = q
<1>1. CASE file = [p \in Path |-> NoFile] /\ blobRow = {} /\ outbox = <<>> /\ nextId = 1
  BY <1>1 DEF FileId
<1>2. ASSUME NEW h \in Path, NEW c \in Content, blobRow = {c}, nextId = 2,
             file = [p \in Path |-> IF p = h THEN [id |-> 1, sha |-> c] ELSE NoFile],
             outbox = <<[op |-> "upsert", path |-> h, sha |-> c]>>
      PROVE  /\ file \in [Path -> FileRow \cup {NoFile}]
             /\ blobRow \subseteq Content
             /\ outbox \in Seq(SyncEvent) /\ \A i \in 1..Len(outbox) : outbox[i].sha \in blobRow
             /\ nextId \in FileId
             /\ \A p \in Path : file[p] # NoFile => file[p].sha \in blobRow /\ file[p].id < nextId
             /\ \A p, q \in Path : file[p] # NoFile /\ file[q] # NoFile => p = q
  <2>1. [id |-> 1, sha |-> c] \in FileRow
    BY DEF FileRow, FileId
  <2>2. [op |-> "upsert", path |-> h, sha |-> c] \in SyncEvent
    BY DEF SyncEvent
  <2>3. \A p \in Path : file[p] # NoFile => p = h /\ file[p].id = 1 /\ file[p].sha = c
    BY <1>2
  <2>4. outbox \in Seq(SyncEvent) /\ \A i \in 1..Len(outbox) : outbox[i].sha = c
    BY <1>2, <2>2
  <2> QED
    BY <1>2, <2>1, <2>3, <2>4 DEF FileId
<1> QED
  BY <1>1, <1>2 DEF Init

LEMMA InitTyped == Init => TypeOK /\ Control
<1> SUFFICES ASSUME Init PROVE TypeOK /\ Control
  OBVIOUS
<1>1. disk \in [Path -> Content \cup {NoContent, Empty, Torn}]
  BY InitTables DEF Init, InTable, FileRow
<1>2. TypeOK
  BY <1>1, InitTables, FileStoreAssumption DEF Init, TypeOK, FileId, Suspended
<1>3. Control
  BY DEF Init, Control, WritePc
<1> QED
  BY <1>2, <1>3

(* Every row the tables get is well typed: the contents come from requests *)
(* still in flight or from rows looked up before.                          *)
LEMMA UpsertTyped ==
  ASSUME TypeOK, Control, NEW t \in Task, pc[t] = "commit", UpsertRow(t)
  PROVE  file' \in [Path -> FileRow \cup {NoFile}] /\ nextId' \in FileId
<1>1. req[t].path \in Path /\ req[t].content \in Content
  BY WriteRequestFields DEF Control, WritePc
<1>2. nextId \in FileId /\ nextId + 1 \in FileId
  BY DEF TypeOK, FileId
<1>3. file[req[t].path] # NoFile => file[req[t].path].id \in FileId
  BY <1>1 DEF TypeOK, FileRow
<1> QED
  BY <1>1, <1>2, <1>3 DEF UpsertRow, TypeOK, FileRow

LEMMA DropTyped ==
  ASSUME TypeOK, Control, NEW t \in Task, pc[t] = "drop", DropRow(t)
  PROVE  file' \in [Path -> FileRow \cup {NoFile}] /\ node' \subseteq FileRow
BY DEF DropRow, TypeOK

LEMMA AnnounceTyped ==
  ASSUME TypeOK, NEW op \in {"upsert", "delete"}, NEW p \in Path, NEW c \in Content,
         Announce(op, p, c)
  PROVE  outbox' \in Seq(SyncEvent)
<1>1. [op |-> op, path |-> p, sha |-> c] \in SyncEvent
  BY DEF SyncEvent
<1> QED
  BY <1>1 DEF Announce, TypeOK

LEMMA WriteTyped ==
  ASSUME TypeOK, Control, NEW t \in Task, WriteStep(t)
  PROVE  TypeOK' /\ Control'
<1> USE DEF Goto, Answer, AfterWrite, store, history
<1>1. CASE WriteBegin(t)
  <2>1. req[t] \in WriteRequest /\ req[t].content \in Content
    BY <1>1, RequestFields, WriteRequestFields DEF WriteBegin, Control
  <2>2. TypeOK'
    BY <1>1, <2>1 DEF WriteBegin, TypeOK, Suspended
  <2>3. Control'
    BY <1>1, <2>1 DEF WriteBegin, Control, WritePc, TypeOK
  <2> QED
    BY <2>2, <2>3
<1>2. CASE BlobOpen(t)
  BY <1>2 DEF BlobOpen, TypeOK, Control, WritePc, Suspended
<1>3. CASE BlobWrite(t)
  BY <1>3 DEF BlobWrite, TypeOK, Control, WritePc, Suspended
<1>4. CASE BlobInsert(t)
  <2>1. req[t].content \in Content
    BY <1>4, WriteRequestFields DEF BlobInsert, Control, WritePc
  <2>2. TypeOK'
    BY <1>4, <2>1 DEF BlobInsert, TypeOK, Suspended
  <2>3. Control'
    BY <1>4 DEF BlobInsert, Control, WritePc, TypeOK
  <2> QED
    BY <2>2, <2>3
<1>5. CASE CopyOpen(t)
  BY <1>5 DEF CopyOpen, TypeOK, Control, WritePc, Suspended
<1>6. CASE CopyWrite(t)
  <2>1. req[t].path \in Path /\ req[t].content \in Content
    BY <1>6, WriteRequestFields DEF CopyWrite, Control, WritePc
  <2>2. disk' \in [Path -> Content \cup {NoContent, Empty, Torn}]
    BY <1>6, <2>1 DEF CopyWrite, TypeOK
  <2>3. TypeOK'
    BY <1>6, <2>1, <2>2 DEF CopyWrite, TypeOK, Suspended
  <2>4. Control'
    BY <1>6 DEF CopyWrite, Control, WritePc, TypeOK
  <2> QED
    BY <2>3, <2>4
<1>7. CASE Commit(t)
  <2>1. req[t].path \in Path /\ req[t].content \in Content
    BY <1>7, WriteRequestFields DEF Commit, Control, WritePc
  <2>2. file' \in [Path -> FileRow \cup {NoFile}] /\ nextId' \in FileId
    BY <1>7, UpsertTyped DEF Commit
  <2>3. outbox' \in Seq(SyncEvent)
    BY <1>7, <2>1, AnnounceTyped DEF Commit, TypeOK
  <2>4. TypeOK'
    BY <1>7, <2>2, <2>3 DEF Commit, TypeOK, Suspended
  <2>5. Control'
    BY <1>7 DEF Commit, Control, WritePc, TypeOK
  <2> QED
    BY <2>4, <2>5
<1>8. CASE RunLogged(t)
  <2>1. req[t].path \in Path /\ req[t].content \in Content
    BY <1>8, WriteRequestFields DEF RunLogged, Control, WritePc
  <2>2. outbox' \in Seq(SyncEvent)
    BY <1>8, <2>1, AnnounceTyped DEF RunLogged
  <2>3. TypeOK'
    BY <1>8, <2>2 DEF RunLogged, TypeOK, Suspended
  <2>4. Control'
    BY <1>8 DEF RunLogged, Control, WritePc, TypeOK
  <2> QED
    BY <2>3, <2>4
<1>9. CASE CommitUnannounced(t)
  <2>1. file' \in [Path -> FileRow \cup {NoFile}] /\ nextId' \in FileId
    BY <1>9, UpsertTyped DEF CommitUnannounced
  <2>2. TypeOK'
    BY <1>9, <2>1 DEF CommitUnannounced, TypeOK, Suspended
  <2>3. Control'
    BY <1>9 DEF CommitUnannounced, Control, WritePc, TypeOK
  <2> QED
    BY <2>2, <2>3
<1> QED
  BY <1>1, <1>2, <1>3, <1>4, <1>5, <1>6, <1>7, <1>8, <1>9 DEF WriteStep

LEMMA IngestTyped ==
  ASSUME TypeOK, Control, NEW t \in Task, IngestStep(t)
  PROVE  TypeOK' /\ Control'
<1> USE DEF Goto, Answer, store, history
<1>1. CASE IngestBegin(t)
  <2>1. req[t].path \in Path
    BY <1>1, RequestFields, WriteRequestFields DEF IngestBegin, Control, WritePc
  <2>2. TypeOK'
    BY <1>1, <2>1 DEF IngestBegin, TypeOK, Suspended
  <2>3. Control'
    BY <1>1, <2>1 DEF IngestBegin, Control, WritePc, TypeOK
  <2> QED
    BY <2>2, <2>3
<1>2. CASE InsertNode(t)
  <2>1. seen[t] \in FileRow
    BY <1>2 DEF InsertNode, Control
  <2> QED
    BY <1>2, <2>1 DEF InsertNode, TypeOK, Control, WritePc, Suspended
<1>3. CASE LinkNode(t)
  BY <1>3 DEF LinkNode, TypeOK, Control, WritePc, Suspended
<1>4. CASE IngestEnd(t)
  BY <1>4 DEF IngestEnd, TypeOK, Control, WritePc, Suspended
<1> QED
  BY <1>1, <1>2, <1>3, <1>4 DEF IngestStep

LEMMA DeleteTyped ==
  ASSUME TypeOK, Control, NEW t \in Task, DeleteStep(t)
  PROVE  TypeOK' /\ Control'
<1> USE DEF Goto, Answer, store, history
<1>1. CASE DeleteBegin(t)
  <2>1. req[t].path \in Path
    BY <1>1, RequestFields DEF DeleteBegin, Control
  <2>2. TypeOK'
    BY <1>1, <2>1 DEF DeleteBegin, TypeOK, Suspended
  <2>3. Control'
    BY <1>1, <2>1 DEF DeleteBegin, Control, WritePc, TypeOK
  <2> QED
    BY <2>2, <2>3
<1>2. CASE RemoveCopy(t)
  BY <1>2 DEF RemoveCopy, TypeOK, Control, WritePc, Suspended
<1>3. CASE Drop(t)
  <2>1. req[t].path \in Path /\ seen[t].sha \in Content
    BY <1>3, RequestFields DEF Drop, Control, FileRow
  <2>2. outbox' \in Seq(SyncEvent)
    BY <1>3, <2>1, AnnounceTyped DEF Drop
  <2>3. file' \in [Path -> FileRow \cup {NoFile}] /\ node' \subseteq FileRow
    BY <1>3, DropTyped DEF Drop
  <2>4. TypeOK'
    BY <1>3, <2>2, <2>3 DEF Drop, TypeOK, Suspended
  <2>5. Control'
    BY <1>3 DEF Drop, Control, WritePc, TypeOK
  <2> QED
    BY <2>4, <2>5
<1> QED
  BY <1>1, <1>2, <1>3 DEF DeleteStep

LEMMA ReadTyped ==
  ASSUME TypeOK, Control, NEW t \in Task, ReadStep(t)
  PROVE  TypeOK' /\ Control'
<1> USE DEF Goto, Answer, store, history
<1>1. CASE ReadBegin(t)
  <2>1. req[t].path \in Path
    BY <1>1, RequestFields DEF ReadBegin, Control
  <2>2. file[req[t].path] # NoFile => file[req[t].path].sha \in Content
    BY <2>1 DEF TypeOK, FileRow
  <2>3. TypeOK'
    BY <1>1, <2>1, <2>2 DEF ReadBegin, TypeOK, Suspended
  <2>4. Control'
    BY <1>1, <2>1 DEF ReadBegin, Control, WritePc, TypeOK
  <2> QED
    BY <2>3, <2>4
<1>2. CASE ReadBlob(t)
  <2>1. seen[t].sha \in Content
    BY <1>2 DEF ReadBlob, Control, FileRow
  <2> QED
    BY <1>2, <2>1 DEF ReadBlob, TypeOK, Control, WritePc, Suspended
<1> QED
  BY <1>1, <1>2 DEF ReadStep

(* A restart empties every slot. *)
LEMMA RestartTyped ==
  ASSUME TypeOK, Restart, file' \in [Path -> FileRow \cup {NoFile}], nextId' \in FileId,
         node' \subseteq FileRow, outbox' = outbox
  PROVE  TypeOK' /\ Control'
<1>1. faults' \in 0..MaxFaults
  BY FileStoreAssumption DEF Restart, TypeOK
<1>2. clean' \in [Path -> BOOLEAN]
  BY DEF Restart, TypeOK
<1>3. TypeOK'
  BY <1>1, <1>2 DEF Restart, TypeOK, Suspended
<1>4. Control'
  BY DEF Restart, Control, WritePc
<1> QED
  BY <1>3, <1>4

LEMMA AwaitFailsTyped ==
  ASSUME TypeOK, Control, NEW t \in Task, AwaitFails(t)
  PROVE  TypeOK' /\ Control'
<1>1. faults' \in 0..MaxFaults
  BY FileStoreAssumption DEF AwaitFails, TypeOK
<1>2. pc[t] = "blobwrite" => req[t].content \in Content
  BY WriteRequestFields DEF Control, WritePc
<1>3. clean' \in [Path -> BOOLEAN] /\ opened' \in [Path -> SUBSET Task] /\ cut' \subseteq Content
  BY <1>2 DEF AwaitFails, TypeOK
<1>4. TypeOK'
  BY <1>1, <1>3 DEF AwaitFails, Answer, Goto, TypeOK, Suspended
<1>5. Control'
  BY DEF AwaitFails, Answer, Goto, TypeOK, Control, WritePc
<1> QED
  BY <1>4, <1>5

LEMMA NextTyped == TypeOK /\ Control /\ [Next]_vars => TypeOK' /\ Control'
<1> SUFFICES ASSUME TypeOK, Control, [Next]_vars PROVE TypeOK' /\ Control'
  OBVIOUS
<1>1. ASSUME NEW t \in Task, NEW r \in Request, Submit(t, r) PROVE TypeOK' /\ Control'
  <2>1. r.path \in Path /\ (r.op = "write" => r \in WriteRequest)
    BY RequestFields
  <2>2. used' \in 0..MaxRequests
    BY <1>1, FileStoreAssumption DEF Submit, TypeOK
  <2>3. clean' \in [Path -> BOOLEAN]
    BY <1>1, <2>1 DEF Submit, TypeOK
  <2>4. TypeOK'
    BY <1>1, <2>2, <2>3 DEF Submit, Goto, TypeOK, Suspended, store
  <2>5. Control'
    BY <1>1 DEF Submit, Goto, TypeOK, Control, WritePc
  <2> QED
    BY <2>4, <2>5
<1>2. ASSUME NEW t \in Task, Refuse(t) PROVE TypeOK' /\ Control'
  BY <1>2 DEF Refuse, Answer, Goto, TypeOK, Control, WritePc, Suspended, store, history
<1>3. ASSUME NEW t \in Task, Reply(t) PROVE TypeOK' /\ Control'
  BY <1>3 DEF Reply, Goto, TypeOK, Control, WritePc, Suspended, store, history
<1>4. CASE Crash
  BY <1>4, RestartTyped DEF Crash, TypeOK
<1>5. ASSUME NEW t \in Task, CrashInCommit(t) PROVE TypeOK' /\ Control'
  <2>1. file' \in [Path -> FileRow \cup {NoFile}] /\ nextId' \in FileId
    BY <1>5, UpsertTyped DEF CrashInCommit
  <2> QED
    BY <1>5, <2>1, RestartTyped DEF CrashInCommit, TypeOK
<1>6. ASSUME NEW t \in Task, CrashInDrop(t) PROVE TypeOK' /\ Control'
  <2>1. file' \in [Path -> FileRow \cup {NoFile}] /\ node' \subseteq FileRow
    BY <1>6, DropTyped DEF CrashInDrop
  <2> QED
    BY <1>6, <2>1, RestartTyped DEF CrashInDrop, TypeOK
<1>7. CASE UNCHANGED vars
  BY <1>7 DEF vars, store, history, TypeOK, Control
<1>8. ASSUME NEW t \in Task, AwaitFails(t) PROVE TypeOK' /\ Control'
  BY <1>8, AwaitFailsTyped
<1> QED
  BY <1>1, <1>2, <1>3, <1>4, <1>5, <1>6, <1>7, <1>8, WriteTyped, IngestTyped, DeleteTyped, ReadTyped DEF Next

(* Every table, request in flight and counter keeps its type. *)
THEOREM Typed == Spec => []TypeOK
<1>1. Spec => [](TypeOK /\ Control)
  BY InitTyped, NextTyped, PTL DEF Spec
<1> QED
  BY <1>1, PTL

-----------------------------------------------------------------------------
(* File ids: every id in use is below nextId, no two paths share one, and  *)
(* the row a handler holds is gone or still under the path it asked for.   *)
Ids ==
  /\ \A p \in Path : file[p] # NoFile => file[p].id < nextId
  /\ \A p, q \in Path : file[p] # NoFile /\ file[q] # NoFile /\ file[p].id = file[q].id => p = q
  /\ \A t \in Task : seen[t] # NoFile =>
       /\ seen[t].id < nextId
       /\ \A p \in Path : file[p] # NoFile /\ file[p].id = seen[t].id => req[t].path = p

LEMMA UpsertIds ==
  ASSUME TypeOK, Control, Ids, NEW t \in Task, pc[t] = "commit", UpsertRow(t)
  PROVE  /\ \A p \in Path : file'[p] # NoFile => file'[p].id < nextId'
         /\ \A p, q \in Path :
              file'[p] # NoFile /\ file'[q] # NoFile /\ file'[p].id = file'[q].id => p = q
         /\ \A u \in Task : seen[u] # NoFile =>
              /\ seen[u].id < nextId'
              /\ \A p \in Path : file'[p] # NoFile /\ file'[p].id = seen[u].id => req[u].path = p
         /\ \A p, q \in Path :
              file[p] # NoFile /\ file'[q] # NoFile => (p = q <=> file'[q].id = file[p].id)
<1> DEFINE r == req[t].path
<1>1. r \in Path
  BY WriteRequestFields DEF Control, WritePc
<1>2. nextId \in Nat
  BY DEF TypeOK, FileId
<1>3. \A p \in Path : file[p] # NoFile => file[p].id \in Nat
  BY DEF TypeOK, FileRow, FileId
<1>4. \A u \in Task : seen[u] # NoFile => seen[u].id \in Nat
  BY DEF TypeOK, FileRow, FileId
<1>5. \A p \in Path \ {r} : file'[p] = file[p]
  BY DEF UpsertRow, TypeOK
<1>6. CASE file[r] = NoFile
  <2>1. file'[r].id = nextId /\ nextId' = nextId + 1
    BY <1>1, <1>6 DEF UpsertRow, TypeOK
  <2>2. \A p \in Path : file'[p] # NoFile => p = r \/ file[p] # NoFile
    BY <1>5
  <2> QED
    BY <1>1, <1>2, <1>3, <1>4, <1>5, <1>6, <2>1, <2>2 DEF Ids
<1>7. CASE file[r] # NoFile
  <2>1. file'[r].id = file[r].id /\ nextId' = nextId
    BY <1>1, <1>7 DEF UpsertRow, TypeOK
  <2> QED
    BY <1>1, <1>2, <1>3, <1>4, <1>5, <1>7, <2>1 DEF Ids
<1> QED
  BY <1>6, <1>7

LEMMA InitIds == Init => Ids
BY InitTables DEF Init, Ids

LEMMA NextIds == TypeOK /\ Control /\ Ids /\ [Next]_vars => Ids'
<1> SUFFICES ASSUME TypeOK, Control, Ids, [Next]_vars PROVE Ids'
  OBVIOUS
<1> USE DEF Goto, Answer, AfterWrite, store, history
<1>1. ASSUME UNCHANGED <<file, nextId, seen, req>> PROVE Ids'
  BY <1>1 DEF Ids
<1>2. ASSUME NEW t \in Task, UNCHANGED <<file, nextId, req>>, seen' = [seen EXCEPT ![t] = NoFile]
      PROVE Ids'
  BY <1>2 DEF Ids, TypeOK
<1>3. ASSUME NEW t \in Task, UNCHANGED <<file, nextId, req>>, req[t].path \in Path,
             file[req[t].path] # NoFile, seen' = [seen EXCEPT ![t] = file[req[t].path]]
      PROVE Ids'
  BY <1>3 DEF Ids, TypeOK
<1>4. ASSUME NEW t \in Task, NEW r \in Request, Submit(t, r) PROVE Ids'
  BY <1>4 DEF Submit, Ids, TypeOK
<1>5. ASSUME NEW t \in Task, Reply(t) PROVE Ids'
  BY <1>5 DEF Reply, Ids, TypeOK
<1>6. ASSUME NEW t \in Task, WriteStep(t) PROVE Ids'
  <2>1. CASE WriteBegin(t)
    BY <2>1, <1>2 DEF WriteBegin
  <2>2. CASE Commit(t) \/ CommitUnannounced(t)
    <3>1. pc[t] = "commit" /\ UpsertRow(t) /\ UNCHANGED <<req, seen>>
      BY <2>2 DEF Commit, CommitUnannounced
    <3> QED
      BY <3>1, UpsertIds DEF Ids
  <2>3. CASE BlobOpen(t) \/ BlobWrite(t) \/ BlobInsert(t) \/ CopyOpen(t) \/ CopyWrite(t) \/ RunLogged(t)
    BY <2>3, <1>1 DEF BlobOpen, BlobWrite, BlobInsert, CopyOpen, CopyWrite, RunLogged
  <2> QED
    BY <1>6, <2>1, <2>2, <2>3 DEF WriteStep
<1>7. ASSUME NEW t \in Task, IngestStep(t) PROVE Ids'
  <2>1. CASE IngestBegin(t)
    <3>1. req[t].path \in Path
      BY <2>1, RequestFields, WriteRequestFields DEF IngestBegin, Control, WritePc
    <3> QED
      BY <2>1, <3>1, <1>1, <1>3 DEF IngestBegin
  <2>2. CASE InsertNode(t) \/ LinkNode(t) \/ IngestEnd(t)
    BY <2>2, <1>1 DEF InsertNode, LinkNode, IngestEnd
  <2> QED
    BY <1>7, <2>1, <2>2 DEF IngestStep
<1>8. ASSUME NEW t \in Task, DeleteStep(t) PROVE Ids'
  <2>1. CASE DeleteBegin(t)
    <3>1. req[t].path \in Path
      BY <2>1, RequestFields DEF DeleteBegin, Control
    <3> QED
      BY <2>1, <3>1, <1>1, <1>3 DEF DeleteBegin
  <2>2. CASE RemoveCopy(t)
    BY <2>2, <1>1 DEF RemoveCopy
  <2>3. CASE Drop(t)
    BY <2>3 DEF Drop, DropRow, Ids, TypeOK
  <2> QED
    BY <1>8, <2>1, <2>2, <2>3 DEF DeleteStep
<1>9. ASSUME NEW t \in Task, ReadStep(t) PROVE Ids'
  <2>1. CASE ReadBegin(t)
    <3>1. req[t].path \in Path
      BY <2>1, RequestFields DEF ReadBegin, Control
    <3> QED
      BY <2>1, <3>1, <1>1, <1>3 DEF ReadBegin
  <2>2. CASE ReadBlob(t)
    BY <2>2, <1>1 DEF ReadBlob
  <2> QED
    BY <1>9, <2>1, <2>2 DEF ReadStep
<1>10. CASE Crash
  BY <1>10 DEF Crash, Restart, Ids
<1>11. ASSUME NEW t \in Task, CrashInCommit(t) PROVE Ids'
  BY <1>11, UpsertIds DEF CrashInCommit, Restart, Ids
<1>12. ASSUME NEW t \in Task, CrashInDrop(t) PROVE Ids'
  BY <1>12 DEF CrashInDrop, DropRow, Restart, Ids, TypeOK
<1>13. CASE UNCHANGED vars
  BY <1>13, <1>1 DEF vars
<1>14. ASSUME NEW t \in Task, Refuse(t) \/ AwaitFails(t) PROVE Ids'
  BY <1>14, <1>1 DEF Refuse, AwaitFails
<1> QED
  BY <1>4, <1>5, <1>6, <1>7, <1>8, <1>9, <1>10, <1>11, <1>12, <1>13, <1>14 DEF Next

-----------------------------------------------------------------------------
(* What a writer is about to name is stored: past storeBlob its content    *)
(* has a row.                                                              *)
Named ==
  /\ NothingNamesALostBlob
  /\ \A t \in Task : pc[t] \in {"open", "write", "commit", "runlog"} => req[t].content \in blobRow

(* Bytes on disk are missing only for blobs without a row, and partial only*)
(* under a writer or after its write broke off.                            *)
Bytes ==
  /\ \A c \in Content : blobDisk[c] = "partial" =>
       c \in cut \/ \E t \in Task : pc[t] = "blobwrite" /\ req[t].content = c
  /\ \A c \in blobRow : blobDisk[c] # "absent"
  /\ \A t \in Task : pc[t] = "blobinsert" => blobDisk[req[t].content] # "absent"

LEMMA AppendNamed ==
  ASSUME TypeOK, Named, NEW op, NEW p, NEW c \in blobRow, Announce(op, p, c),
         blobRow \subseteq blobRow'
  PROVE  \A i \in 1..Len(outbox') : outbox'[i].sha \in blobRow'
<1> DEFINE e == [op |-> op, path |-> p, sha |-> c]
<1>1. outbox \in Seq(SyncEvent) /\ outbox' = Append(outbox, e)
  BY DEF Announce, TypeOK
<1>2. Len(outbox') = Len(outbox) + 1
  BY <1>1
<1>3. \A i \in 1..Len(outbox) : outbox'[i] = outbox[i]
  BY <1>1
<1>4. outbox'[Len(outbox) + 1] = e
  BY <1>1
<1>5. e.sha = c
  OBVIOUS
<1> HIDE DEF e
<1> QED
  BY <1>1, <1>2, <1>3, <1>4, <1>5 DEF Named, NothingNamesALostBlob

LEMMA InitNamed == Init => Named /\ Bytes
BY InitTables DEF Init, Named, NothingNamesALostBlob, Bytes

LEMMA NextNamed == TypeOK /\ Control /\ Named /\ [Next]_vars => Named'
<1> SUFFICES ASSUME TypeOK, Control, Named, [Next]_vars PROVE Named'
  OBVIOUS
<1> USE DEF Goto, Answer, AfterWrite, store, history
<1>1. ASSUME NEW t \in Task, NEW label \in Suspended \ {"open", "write", "commit", "runlog"},
             Goto(t, label), UNCHANGED <<file, blobRow, outbox, node, req, seen>>
      PROVE Named'
  BY <1>1 DEF Named, NothingNamesALostBlob, TypeOK
<1>2. ASSUME NEW t \in Task, NEW r \in Request, Submit(t, r) PROVE Named'
  BY <1>2 DEF Submit, Named, NothingNamesALostBlob, TypeOK
<1>3. ASSUME NEW t \in Task, Reply(t) PROVE Named'
  BY <1>3 DEF Reply, Named, NothingNamesALostBlob, TypeOK
<1>4. ASSUME NEW t \in Task, Refuse(t) \/ AwaitFails(t) PROVE Named'
  BY <1>4, <1>1 DEF Refuse, AwaitFails, Suspended
<1>5. ASSUME NEW t \in Task, WriteStep(t) PROVE Named'
  <2>1. CASE WriteBegin(t)
    BY <2>1 DEF WriteBegin, Named, NothingNamesALostBlob, TypeOK
  <2>2. CASE BlobOpen(t) \/ BlobWrite(t)
    BY <2>2, <1>1 DEF BlobOpen, BlobWrite, Suspended
  <2>3. CASE BlobInsert(t)
    BY <2>3 DEF BlobInsert, Named, NothingNamesALostBlob, TypeOK
  <2>4. CASE CopyOpen(t) \/ CopyWrite(t)
    BY <2>4 DEF CopyOpen, CopyWrite, Named, NothingNamesALostBlob, TypeOK
  <2>5. CASE Commit(t)
    <3>1. req[t].path \in Path /\ req[t].content \in blobRow
      BY <2>5, WriteRequestFields DEF Commit, Control, WritePc, Named
    <3>2. \A p \in Path : file'[p] # NoFile => file'[p].sha \in blobRow
      BY <2>5, <3>1 DEF Commit, UpsertRow, Named, NothingNamesALostBlob, TypeOK
    <3>3. \A i \in 1..Len(outbox') : outbox'[i].sha \in blobRow'
      BY <2>5, <3>1, AppendNamed DEF Commit, Named, NothingNamesALostBlob
    <3>4. \A u \in Task : pc'[u] \in {"open", "write", "commit", "runlog"} =>
            pc[u] \in {"open", "write", "commit", "runlog"}
      BY <2>5 DEF Commit, TypeOK
    <3> QED
      BY <2>5, <3>2, <3>3, <3>4 DEF Commit, Named, NothingNamesALostBlob
  <2>6. CASE RunLogged(t)
    <3>1. req[t].path \in Path /\ req[t].content \in blobRow
      BY <2>6, WriteRequestFields DEF RunLogged, Control, WritePc, Named
    <3>2. \A i \in 1..Len(outbox') : outbox'[i].sha \in blobRow'
      BY <2>6, <3>1, AppendNamed DEF RunLogged
    <3>3. \A u \in Task : pc'[u] \in {"open", "write", "commit", "runlog"} =>
            pc[u] \in {"open", "write", "commit", "runlog"}
      BY <2>6 DEF RunLogged, TypeOK
    <3> QED
      BY <2>6, <3>2, <3>3 DEF RunLogged, Named, NothingNamesALostBlob
  <2>7. CASE CommitUnannounced(t)
    <3>1. req[t].path \in Path /\ req[t].content \in blobRow
      BY <2>7, WriteRequestFields DEF CommitUnannounced, Control, WritePc, Named
    <3>2. \A p \in Path : file'[p] # NoFile => file'[p].sha \in blobRow
      BY <2>7, <3>1 DEF CommitUnannounced, UpsertRow, Named, NothingNamesALostBlob, TypeOK
    <3> QED
      BY <2>7, <3>2 DEF CommitUnannounced, Named, NothingNamesALostBlob, TypeOK
  <2> QED
    BY <1>5, <2>1, <2>2, <2>3, <2>4, <2>5, <2>6, <2>7 DEF WriteStep
<1>6. ASSUME NEW t \in Task, IngestStep(t) PROVE Named'
  <2>1. CASE IngestBegin(t)
    <3>1. req[t].path \in Path
      BY <2>1, RequestFields, WriteRequestFields DEF IngestBegin, Control, WritePc
    <3> QED
      BY <2>1, <3>1 DEF IngestBegin, Named, NothingNamesALostBlob, TypeOK
  <2>2. CASE InsertNode(t)
    <3>1. seen[t].sha \in blobRow
      BY <2>2, Sentinels DEF InsertNode, Control, Named, NothingNamesALostBlob
    <3> QED
      BY <2>2, <3>1 DEF InsertNode, Named, NothingNamesALostBlob, TypeOK
  <2>3. CASE LinkNode(t) \/ IngestEnd(t)
    BY <2>3, <1>1 DEF LinkNode, IngestEnd, Suspended
  <2> QED
    BY <1>6, <2>1, <2>2, <2>3 DEF IngestStep
<1>7. ASSUME NEW t \in Task, DeleteStep(t) PROVE Named'
  <2>1. CASE DeleteBegin(t)
    <3>1. req[t].path \in Path
      BY <2>1, RequestFields DEF DeleteBegin, Control
    <3> QED
      BY <2>1, <3>1 DEF DeleteBegin, Named, NothingNamesALostBlob, TypeOK
  <2>2. CASE RemoveCopy(t)
    BY <2>2, <1>1 DEF RemoveCopy, Suspended
  <2>3. CASE Drop(t)
    <3>1. seen[t].sha \in blobRow
      BY <2>3, Sentinels DEF Drop, Control, Named, NothingNamesALostBlob
    <3>2. \A i \in 1..Len(outbox') : outbox'[i].sha \in blobRow'
      BY <2>3, <3>1, AppendNamed DEF Drop
    <3>3. \A p \in Path : file'[p] # NoFile => file'[p].sha \in blobRow'
      BY <2>3 DEF Drop, DropRow, Named, NothingNamesALostBlob
    <3>4. node' \subseteq node
      BY <2>3 DEF Drop, DropRow
    <3> QED
      BY <2>3, <3>2, <3>3, <3>4 DEF Drop, Named, NothingNamesALostBlob, TypeOK
  <2> QED
    BY <1>7, <2>1, <2>2, <2>3 DEF DeleteStep
<1>8. ASSUME NEW t \in Task, ReadStep(t) PROVE Named'
  <2>1. CASE ReadBegin(t)
    <3>1. req[t].path \in Path
      BY <2>1, RequestFields DEF ReadBegin, Control
    <3> QED
      BY <2>1, <3>1 DEF ReadBegin, Named, NothingNamesALostBlob, TypeOK
  <2>2. CASE ReadBlob(t)
    BY <2>2, <1>1 DEF ReadBlob, Suspended
  <2> QED
    BY <1>8, <2>1, <2>2 DEF ReadStep
<1>9. CASE Crash
  BY <1>9 DEF Crash, Restart, Named, NothingNamesALostBlob
<1>10. ASSUME NEW t \in Task, CrashInCommit(t) PROVE Named'
  <2>1. req[t].path \in Path /\ req[t].content \in blobRow
    BY <1>10, WriteRequestFields DEF CrashInCommit, Control, WritePc, Named
  <2> QED
    BY <1>10, <2>1 DEF CrashInCommit, UpsertRow, Restart, Named, NothingNamesALostBlob, TypeOK
<1>11. ASSUME NEW t \in Task, CrashInDrop(t) PROVE Named'
  BY <1>11 DEF CrashInDrop, DropRow, Restart, Named, NothingNamesALostBlob, TypeOK
<1>12. CASE UNCHANGED vars
  BY <1>12 DEF vars, Named, NothingNamesALostBlob
<1> QED
  BY <1>2, <1>3, <1>4, <1>5, <1>6, <1>7, <1>8, <1>9, <1>10, <1>11, <1>12 DEF Next

LEMMA NextBytes == TypeOK /\ Control /\ Bytes /\ [Next]_vars => Bytes'
<1> SUFFICES ASSUME TypeOK, Control, Bytes, [Next]_vars PROVE Bytes'
  OBVIOUS
<1> USE DEF Goto, Answer, AfterWrite, store, history
<1>1. ASSUME NEW t \in Task, NEW label \in Suspended \ {"blobwrite", "blobinsert"},
             Goto(t, label), pc[t] # "blobwrite",
             UNCHANGED <<blobRow, blobDisk, cut>>, \A u \in Task \ {t} : req'[u] = req[u]
      PROVE Bytes'
  BY <1>1 DEF Bytes, TypeOK
<1>2. ASSUME NEW t \in Task, NEW r \in Request, Submit(t, r) PROVE Bytes'
  BY <1>2, <1>1 DEF Submit, Suspended, TypeOK
<1>3. ASSUME NEW t \in Task, Reply(t) PROVE Bytes'
  BY <1>3, <1>1 DEF Reply, Suspended, TypeOK
<1>4. ASSUME NEW t \in Task, Refuse(t) PROVE Bytes'
  BY <1>4, <1>1 DEF Refuse, Suspended
<1>5. ASSUME NEW t \in Task, WriteStep(t) PROVE Bytes'
  <2>1. CASE WriteBegin(t)
    <3>1. req[t].content \in Content
      BY <2>1, RequestFields, WriteRequestFields DEF WriteBegin, Control
    <3> QED
      BY <2>1, <3>1 DEF WriteBegin, Bytes, TypeOK
  <2>2. CASE BlobOpen(t)
    BY <2>2 DEF BlobOpen, Bytes, TypeOK
  <2>3. CASE BlobWrite(t)
    <3>1. \A c \in Content : blobDisk'[c] = "partial" => blobDisk[c] = "partial" /\ c # req[t].content
      BY <2>3 DEF BlobWrite, TypeOK
    <3>2. \A u \in Task \ {t} : pc'[u] = pc[u]
      BY <2>3 DEF BlobWrite, TypeOK
    <3>3. \A c \in Content : blobDisk[c] # "absent" => blobDisk'[c] # "absent"
      BY <2>3 DEF BlobWrite, TypeOK
    <3>4. req[t].content \in Content
      BY <2>3, WriteRequestFields DEF BlobWrite, Control, WritePc
    <3>5. blobDisk'[req[t].content] = "full"
      BY <2>3, <3>4 DEF BlobWrite, TypeOK
    <3>6. \A c \in Content : blobDisk'[c] = "partial" =>
            c \in cut' \/ \E u \in Task : pc'[u] = "blobwrite" /\ req'[u].content = c
      BY <2>3, <3>1, <3>2 DEF BlobWrite, Bytes
    <3>7. \A u \in Task : pc'[u] = "blobinsert" => blobDisk'[req'[u].content] # "absent"
      <4>1. ASSUME NEW u \in Task \ {t}, pc[u] = "blobinsert"
            PROVE  req[u].content \in Content /\ blobDisk[req[u].content] # "absent"
        BY <4>1, WriteRequestFields DEF Bytes, Control, WritePc
      <4> QED
        BY <2>3, <3>2, <3>3, <3>5, <4>1 DEF BlobWrite
    <3> QED
      BY <2>3, <3>3, <3>6, <3>7 DEF BlobWrite, Bytes, TypeOK
  <2>4. CASE BlobInsert(t)
    BY <2>4 DEF BlobInsert, Bytes, TypeOK
  <2>5. CASE CopyOpen(t) \/ CopyWrite(t) \/ Commit(t) \/ CommitUnannounced(t) \/ RunLogged(t)
    BY <2>5, <1>1 DEF CopyOpen, CopyWrite, Commit, CommitUnannounced, RunLogged, Suspended
  <2> QED
    BY <1>5, <2>1, <2>2, <2>3, <2>4, <2>5 DEF WriteStep
<1>6. ASSUME NEW t \in Task, IngestStep(t) PROVE Bytes'
  BY <1>6, <1>1 DEF IngestStep, IngestBegin, InsertNode, LinkNode, IngestEnd, Suspended
<1>7. ASSUME NEW t \in Task, DeleteStep(t) PROVE Bytes'
  BY <1>7, <1>1 DEF DeleteStep, DeleteBegin, RemoveCopy, Drop, Suspended
<1>8. ASSUME NEW t \in Task, ReadStep(t) PROVE Bytes'
  BY <1>8, <1>1 DEF ReadStep, ReadBegin, ReadBlob, Suspended
<1>9. CASE Restart
  BY <1>9 DEF Restart, Bytes
<1>10. CASE UNCHANGED vars
  BY <1>10 DEF vars, Bytes
<1>11. ASSUME NEW t \in Task, AwaitFails(t) PROVE Bytes'
  <2>1. \A u \in Task : pc'[u] = pc[u] \/ (u = t /\ pc'[u] = "reply")
    BY <1>11 DEF AwaitFails, TypeOK
  <2>2. UNCHANGED <<req, blobRow, blobDisk>> /\ cut \subseteq cut'
    BY <1>11 DEF AwaitFails
  <2>3. pc[t] = "blobwrite" => req[t].content \in cut'
    BY <1>11 DEF AwaitFails
  <2> QED
    BY <2>1, <2>2, <2>3 DEF Bytes
<1> QED
  BY <1>2, <1>3, <1>4, <1>5, <1>6, <1>7, <1>8, <1>9, <1>10, <1>11
     DEF Next, Crash, CrashInCommit, CrashInDrop

-----------------------------------------------------------------------------
Inv == TypeOK /\ Control /\ Ids /\ Named /\ Bytes

LEMMA Invariance == Spec => []Inv
<1>1. Init => Inv
  BY InitTyped, InitIds, InitNamed DEF Inv
<1>2. Inv /\ [Next]_vars => Inv'
  BY NextTyped, NextIds, NextNamed, NextBytes DEF Inv
<1> QED
  BY <1>1, <1>2, PTL DEF Spec

(* Nothing names a blob without a row: persistFileBytes stores the blob    *)
(* before the row that names it, and no handler deletes a blob.            *)
THEOREM NothingLost == Spec => []NothingNamesALostBlob
<1>1. Inv => NothingNamesALostBlob
  BY DEF Inv, Named
<1> QED
  BY <1>1, Invariance, PTL

(* A blob with a row is whole on disk, but for one a request is rewriting  *)
(* or whose write broke off.                                               *)
THEOREM Whole == Spec => []BlobsAreWhole
<1>1. Inv => BlobsAreWhole
  <2> SUFFICES ASSUME Inv, NEW c \in blobRow \ cut, \A t \in Task : ~ Writing(t, c)
               PROVE  blobDisk[c] = "full"
    BY DEF BlobsAreWhole
  <2>1. c \in Content /\ blobDisk[c] \in {"absent", "partial", "full"}
    BY DEF Inv, TypeOK
  <2>2. blobDisk[c] # "absent"
    BY DEF Inv, Bytes
  <2>3. blobDisk[c] # "partial"
    BY <2>1 DEF Inv, Bytes, Writing
  <2> QED
    BY <2>1, <2>2, <2>3
<1> QED
  BY <1>1, Invariance, PTL

(* The steps that touch the files table: a row is upserted by a committing *)
(* write, or deleted by a request that looked it up.                       *)
LEMMA FileSteps ==
  ASSUME [Next]_vars
  PROVE  \/ \E t \in Task : pc[t] = "commit" /\ UpsertRow(t)
         \/ \E t \in Task : pc[t] = "drop" /\ DropRow(t)
         \/ UNCHANGED file
<1> USE DEF store, history
<1>1. ASSUME NEW t \in Task, WriteStep(t)
      PROVE  (pc[t] = "commit" /\ UpsertRow(t)) \/ UNCHANGED file
  BY <1>1 DEF WriteStep, WriteBegin, BlobOpen, BlobWrite, BlobInsert, CopyOpen, CopyWrite,
     Commit, CommitUnannounced, RunLogged
<1>2. ASSUME NEW t \in Task, DeleteStep(t)
      PROVE  (pc[t] = "drop" /\ DropRow(t)) \/ UNCHANGED file
  BY <1>2 DEF DeleteStep, DeleteBegin, RemoveCopy, Drop
<1>3. ASSUME NEW t \in Task, IngestStep(t) \/ ReadStep(t) \/ Refuse(t) \/ AwaitFails(t) \/ Reply(t)
      PROVE  UNCHANGED file
  BY <1>3 DEF IngestStep, IngestBegin, InsertNode, LinkNode, IngestEnd, ReadStep, ReadBegin,
     ReadBlob, Refuse, AwaitFails, Reply
<1>4. ASSUME NEW t \in Task, NEW r \in Request, Submit(t, r) PROVE UNCHANGED file
  BY <1>4 DEF Submit
<1>5. Crash => UNCHANGED file
  BY DEF Crash
<1>6. ASSUME NEW t \in Task, CrashInCommit(t) PROVE pc[t] = "commit" /\ UpsertRow(t)
  BY <1>6 DEF CrashInCommit
<1>7. ASSUME NEW t \in Task, CrashInDrop(t) PROVE pc[t] = "drop" /\ DropRow(t)
  BY <1>7 DEF CrashInDrop
<1> QED
  BY <1>1, <1>2, <1>3, <1>4, <1>5, <1>6, <1>7 DEF Next, vars

(* A row disappears only under the delete request that looked it up, for   *)
(* the path it is under.                                                   *)
THEOREM DropsWhatItSaw == Spec => OnlyTheFileSeenIsDropped
<1>1. ASSUME Inv, [Next]_vars, NEW p \in Path, file[p] # NoFile, file'[p] = NoFile
      PROVE  \E t \in Task : pc[t] = "drop" /\ req[t].path = p /\ seen[t].id = file[p].id
  <2>1. ~ UNCHANGED file
    BY <1>1
  <2>2. ASSUME NEW t \in Task, pc[t] = "commit", UpsertRow(t) PROVE FALSE
    <3>1. req[t].path \in Path /\ req[t].content \in Content
      BY <1>1, <2>2, WriteRequestFields DEF Inv, Control, WritePc
    <3>2. file'[p] \in FileRow \/ file'[p] = file[p]
      BY <1>1, <2>2, <3>1 DEF UpsertRow, Inv, TypeOK, FileRow
    <3> QED
      BY <1>1, <3>2, Sentinels
  <2>3. ASSUME NEW t \in Task, pc[t] = "drop", DropRow(t)
        PROVE  req[t].path = p /\ seen[t].id = file[p].id
    <3>1. seen[t].id = file[p].id
      BY <1>1, <2>3 DEF DropRow
    <3>2. seen[t] # NoFile
      BY <1>1, <2>3, Sentinels DEF Inv, Control
    <3> QED
      BY <1>1, <3>1, <3>2 DEF Inv, Ids
  <2> QED
    BY <1>1, <2>1, <2>2, <2>3, FileSteps
<1>2. Inv /\ [Next]_vars =>
        [\A p \in Path : file[p] # NoFile /\ file'[p] = NoFile =>
           \E t \in Task : pc[t] = "drop" /\ req[t].path = p /\ seen[t].id = file[p].id]_vars
  BY <1>1
<1> QED
  BY <1>2, Invariance, PTL DEF Spec, OnlyTheFileSeenIsDropped

(* A path keeps its id while it has a row, and no id moves to another path.*)
THEOREM StableIds == Spec => FileIdsAreStable
<1>1. ASSUME Inv, [Next]_vars, NEW p \in Path, NEW q \in Path, file[p] # NoFile, file'[q] # NoFile
      PROVE  p = q <=> file'[q].id = file[p].id
  <2>1. CASE UNCHANGED file
    BY <1>1, <2>1 DEF Inv, Ids
  <2>2. ASSUME NEW t \in Task, pc[t] = "commit", UpsertRow(t)
        PROVE  p = q <=> file'[q].id = file[p].id
    BY <1>1, <2>2, UpsertIds DEF Inv
  <2>3. ASSUME NEW t \in Task, pc[t] = "drop", DropRow(t)
        PROVE  p = q <=> file'[q].id = file[p].id
    <3>1. file'[q] = file[q]
      BY <1>1, <2>3 DEF DropRow
    <3> QED
      BY <1>1, <3>1 DEF Inv, Ids
  <2> QED
    BY <1>1, <2>1, <2>2, <2>3, FileSteps
<1>2. Inv /\ [Next]_vars =>
        [\A p, q \in Path : file[p] # NoFile /\ file'[q] # NoFile =>
           (p = q <=> file'[q].id = file[p].id)]_vars
  BY <1>1
<1> QED
  BY <1>2, Invariance, PTL DEF Spec, FileIdsAreStable

-----------------------------------------------------------------------------
(* What a request asks for where its handler waits, and that it has no     *)
(* answer before it has come to one.                                       *)
Calls ==
  \A t \in Task :
    /\ pc[t] = "idle" => req[t] = NoRequest
    /\ pc[t] # "reply" => result[t] = "none"
    /\ pc[t] \in {"rm", "drop"} => req[t].op = "delete"
    /\ pc[t] = "readblob" => req[t].op = "read" /\ seen[t].sha \in Binary
    /\ pc[t] \in {"embed", "link"} => req[t].op \in {"write", "ingest"}
    /\ pc[t] \in {"ingest", "embed", "link"} /\ req[t].op = "write" => req[t].ingest

(* No handler changes what it was asked for, nor answers before its end.   *)
LEMMA NextCalls == TypeOK /\ Control /\ Calls /\ [Next]_vars => Calls'
<1> SUFFICES ASSUME TypeOK, Control, Calls, [Next]_vars PROVE Calls'
  OBVIOUS
<1> USE DEF Goto, Answer, AfterWrite, store, history
<1>1. ASSUME NEW t \in Task, NEW r \in Request, Submit(t, r) PROVE Calls'
  BY <1>1 DEF Submit, Calls, TypeOK
<1>2. ASSUME NEW t \in Task, Refuse(t) PROVE Calls'
  BY <1>2 DEF Refuse, Calls, TypeOK
<1>3. ASSUME NEW t \in Task, AwaitFails(t) PROVE Calls'
  BY <1>3 DEF AwaitFails, Calls, TypeOK
<1>4. ASSUME NEW t \in Task, Reply(t) PROVE Calls'
  BY <1>4 DEF Reply, Calls, TypeOK
<1>5. ASSUME NEW t \in Task, WriteStep(t) PROVE Calls'
  <2>1. CASE WriteBegin(t)
    BY <2>1 DEF WriteBegin, Calls, TypeOK
  <2>2. CASE BlobOpen(t) \/ BlobWrite(t) \/ BlobInsert(t)
    BY <2>2 DEF BlobOpen, BlobWrite, BlobInsert, Calls, TypeOK
  <2>3. CASE CopyOpen(t) \/ CopyWrite(t)
    BY <2>3 DEF CopyOpen, CopyWrite, Calls, TypeOK
  <2>4. CASE Commit(t)
    BY <2>4 DEF Commit, Calls, TypeOK
  <2>5. CASE CommitUnannounced(t) \/ RunLogged(t)
    BY <2>5 DEF CommitUnannounced, RunLogged, Calls, TypeOK
  <2> QED
    BY <1>5, <2>1, <2>2, <2>3, <2>4, <2>5 DEF WriteStep
<1>6. ASSUME NEW t \in Task, IngestStep(t) PROVE Calls'
  <2>1. CASE IngestBegin(t)
    <3>1. pc[t] = "ingest" => req[t].op = "write"
      BY WriteRequestFields DEF Control, WritePc
    <3> QED
      BY <2>1, <3>1 DEF IngestBegin, Calls, TypeOK
  <2>2. CASE InsertNode(t) \/ LinkNode(t) \/ IngestEnd(t)
    BY <2>2 DEF InsertNode, LinkNode, IngestEnd, Calls, TypeOK
  <2> QED
    BY <1>6, <2>1, <2>2 DEF IngestStep
<1>7. ASSUME NEW t \in Task, DeleteStep(t) PROVE Calls'
  BY <1>7 DEF DeleteStep, DeleteBegin, RemoveCopy, Drop, Calls, TypeOK
<1>8. ASSUME NEW t \in Task, ReadStep(t) PROVE Calls'
  BY <1>8 DEF ReadStep, ReadBegin, ReadBlob, Calls, TypeOK
<1>9. CASE Restart
  BY <1>9 DEF Restart, Calls
<1>10. CASE UNCHANGED vars
  BY <1>10 DEF vars, Calls
<1> QED
  BY <1>1, <1>2, <1>3, <1>4, <1>5, <1>6, <1>7, <1>8, <1>9, <1>10
     DEF Next, Crash, CrashInCommit, CrashInDrop

(* The refinement mapping, by name.                                        *)
Table == [p \in Path |-> InTable(p)]
Call == [t \in Task |-> AbstractCall(t)]

(* The inductive invariant of the refinement.                              *)
RefInv == Inv /\ Calls

(* What one call becomes is what the table of calls becomes, the other     *)
(* calls left as they are.                                                 *)
LEMMA OneCall ==
  ASSUME NEW t \in Task, NEW c, AbstractCall(t)' = c,
         \A u \in Task \ {t} : AbstractCall(u)' = AbstractCall(u)
  PROVE  Call' = [Call EXCEPT ![t] = c]
BY DEF Call

(* A step of one request that leaves the files table alone leaves the      *)
(* abstract table alone, and the other requests' calls.                    *)
LEMMA Alone ==
  ASSUME RefInv, NEW t \in Task, UNCHANGED file,
         \A u \in Task \ {t} : UNCHANGED <<pc[u], req[u], seen[u], result[u]>>
  PROVE  /\ UNCHANGED Table
         /\ \A u \in Task \ {t} : AbstractCall(u)' = AbstractCall(u)
BY DEF Table, InTable, AbstractCall, Progress, Late

(* Where a request stands, as the abstract specification sees it.          *)
Stands(t) ==
  /\ pc[t] = "idle" =>
       AbstractCall(t) = [st |-> "idle", req |-> NoRequest, ans |-> "none", late |-> FALSE]
  /\ pc[t] = "reply" =>
       AbstractCall(t) = [st |-> "done", req |-> req[t], ans |-> result[t], late |-> FALSE]
  /\ pc[t] \in {"runlog", "ingest"} =>
       AbstractCall(t) = [st |-> "taken", req |-> req[t], ans |-> "none", late |-> FALSE]
  /\ pc[t] = "readblob" =>
       AbstractCall(t) = [st |-> "taken", req |-> req[t], ans |-> seen[t].sha, late |-> FALSE]
  /\ pc[t] \in {"embed", "link"} =>
       AbstractCall(t) = [st |-> IF req[t].op = "write" THEN "taken" ELSE "pending",
                          req |-> req[t], ans |-> "none", late |-> FALSE]
  /\ pc[t] \in {"begin", "blobopen", "blobwrite", "blobinsert", "open", "write", "commit"} =>
       AbstractCall(t) = [st |-> "pending", req |-> req[t], ans |-> "none", late |-> FALSE]
  /\ pc[t] \in {"rm", "drop"} =>
       AbstractCall(t) = [st |-> "pending", req |-> req[t], ans |-> "none", late |-> Late(t)]

(* The invariant says where every request stands, in a state and in the    *)
(* next.                                                                   *)
LEMMA CallsStand == RefInv => \A t \in Task : Stands(t)
<1> SUFFICES ASSUME RefInv, NEW t \in Task PROVE Stands(t)
  OBVIOUS
<1>1. pc[t] \in Suspended /\ (pc[t] # "reply" => result[t] = "none")
  BY DEF RefInv, Inv, TypeOK, Calls
<1>2. pc[t] = "idle" => req[t] = NoRequest
  BY DEF RefInv, Calls
<1>3. pc[t] \notin {"rm", "drop"} => Late(t) = FALSE
  BY DEF Late
<1> QED
  BY <1>1, <1>2, <1>3 DEF Stands, AbstractCall, Progress

LEMMA CallsStandNext == RefInv' => \A t \in Task : Stands(t)'
<1>1. RefInv' => (\A t \in Task : Stands(t))'
  BY CallsStand, PTL
<1> QED
  BY <1>1

(* Each step of a handler is a step of the abstract table, or none.        *)
LEMMA SubmitInvokes ==
  ASSUME RefInv, RefInv', NEW t \in Task, NEW r \in Request, Submit(t, r)
  PROVE  Atomic!Invoke(t, r)
<1> DEFINE c == [st |-> "pending", req |-> r, ans |-> "none", late |-> FALSE]
<1>1. UNCHANGED Table /\ \A u \in Task \ {t} : AbstractCall(u)' = AbstractCall(u)
  BY Alone DEF Submit, Goto, store, RefInv, Inv, TypeOK
<1>2. pc'[t] = "begin" /\ req'[t] = r /\ pc[t] = "idle"
  BY DEF Submit, Goto, RefInv, Inv, TypeOK
<1>3. AbstractCall(t)' = c
  BY <1>2, CallsStandNext DEF Stands
<1>4. Call' = [Call EXCEPT ![t] = c]
  BY <1>1, <1>3, OneCall
<1>5. Call[t].st = "idle"
  BY <1>2, CallsStand DEF Call, Stands
<1> QED
  BY <1>1, <1>4, <1>5 DEF Atomic!Invoke, Atomic!Pending, Table, Call

(* The records that end a call, or note that it took effect.              *)
LEMMA Outcomes ==
  ASSUME NEW t \in Task, NEW a
  PROVE  /\ Atomic!Done(t, a) = [st |-> "done", req |-> req[t], ans |-> a, late |-> FALSE]
         /\ Atomic!Taken(t, a) = [st |-> "taken", req |-> req[t], ans |-> a, late |-> FALSE]
<1>1. Call[t].req = req[t]
  BY DEF Call, AbstractCall
<1> QED
  BY <1>1 DEF Atomic!Done, Atomic!Taken, Call

(* The step that answers a request ends its call, and does nothing else    *)
(* where it leaves the files table alone.                                  *)
LEMMA AnswerEnds ==
  ASSUME RefInv, RefInv', NEW t \in Task, UNCHANGED <<file, req>>,
         \A u \in Task \ {t} : seen'[u] = seen[u],
         pc' = [pc EXCEPT ![t] = "reply"], NEW a, result' = [result EXCEPT ![t] = a]
  PROVE  UNCHANGED Table /\ Call' = [Call EXCEPT ![t] = Atomic!Done(t, a)]
<1> DEFINE c == [st |-> "done", req |-> req[t], ans |-> a, late |-> FALSE]
<1>1. UNCHANGED Table /\ \A u \in Task \ {t} : AbstractCall(u)' = AbstractCall(u)
  BY Alone DEF RefInv, Inv, TypeOK
<1>2. AbstractCall(t)' = c
  BY CallsStandNext DEF Stands, RefInv, Inv, TypeOK
<1>3. Atomic!Done(t, a) = c
  BY Outcomes
<1> QED
  BY <1>1, <1>2, <1>3, OneCall

(* A step that leaves a request's call as it is.                           *)
LEMMA Unseen ==
  ASSUME RefInv, RefInv', NEW t \in Task, UNCHANGED <<file, req, result>>,
         \A u \in Task \ {t} : seen'[u] = seen[u],
         NEW label, pc' = [pc EXCEPT ![t] = label],
         AbstractCall(t)' = AbstractCall(t)
  PROVE  UNCHANGED <<Table, Call>>
<1>1. UNCHANGED Table /\ \A u \in Task \ {t} : AbstractCall(u)' = AbstractCall(u)
  BY Alone DEF RefInv, Inv, TypeOK
<1> QED
  BY <1>1 DEF Call

LEMMA ReplyReturns ==
  ASSUME RefInv, RefInv', NEW t \in Task, Reply(t)
  PROVE  Atomic!Return(t)
<1> DEFINE c == [st |-> "idle", req |-> NoRequest, ans |-> "none", late |-> FALSE]
<1>1. UNCHANGED Table /\ \A u \in Task \ {t} : AbstractCall(u)' = AbstractCall(u)
  BY Alone DEF Reply, Goto, store, RefInv, Inv, TypeOK
<1>2. pc[t] = "reply" /\ pc'[t] = "idle"
  BY DEF Reply, Goto, RefInv, Inv, TypeOK
<1>3. Call' = [Call EXCEPT ![t] = c]
  BY <1>1, <1>2, CallsStandNext, OneCall DEF Stands
<1>4. Call[t].st = "done"
  BY <1>2, CallsStand DEF Call, Stands
<1> QED
  BY <1>1, <1>3, <1>4 DEF Atomic!Return, Atomic!Idle, Table, Call

LEMMA RefuseFails ==
  ASSUME RefInv, RefInv', NEW t \in Task, Refuse(t)
  PROVE  Atomic!Fail(t)
<1>1. UNCHANGED Table /\ Call' = [Call EXCEPT ![t] = Atomic!Done(t, "refused")]
  BY AnswerEnds DEF Refuse, Answer, Goto, store
<1>2. Call[t].st = "pending"
  BY CallsStand DEF Refuse, Call, Stands
<1> QED
  BY <1>1, <1>2 DEF Atomic!Fail, Table, Call

(* A rejected await fails a request that did not take effect yet, and ends *)
(* one that did.                                                           *)
LEMMA AwaitFailsRefines ==
  ASSUME RefInv, RefInv', NEW t \in Task, AwaitFails(t)
  PROVE  Atomic!Fail(t) \/ Atomic!Finish(t)
<1>1. UNCHANGED Table /\ Call' = [Call EXCEPT ![t] = Atomic!Done(t, "error")]
  BY AnswerEnds DEF AwaitFails, Answer, Goto
<1>2. CASE Call[t].st = "pending"
  BY <1>1, <1>2 DEF Atomic!Fail, Table, Call
<1>3. CASE Call[t].st # "pending"
  <2>1. /\ Call[t].st = "taken" /\ Call[t].req = req[t]
        /\ req[t].op \in {"read", "write"}
    BY <1>3, CallsStand, WriteRequestFields DEF AwaitFails, Call, Stands, RefInv, Calls, Inv, Control, WritePc
  <2> QED
    BY <1>1, <2>1 DEF Atomic!Finish, Atomic!Is, Table, Call
<1> QED
  BY <1>2, <1>3

(* A write takes effect when its row is upserted; a deletion under way may *)
(* be late for the path already, and stays as late as it was.              *)
LEMMA UpsertWrites ==
  ASSUME RefInv, RefInv', NEW t \in Task, pc[t] = "commit", UpsertRow(t), UNCHANGED <<req, seen>>,
         NEW label, pc' = [pc EXCEPT ![t] = label],
         \A u \in Task \ {t} : result'[u] = result[u]
  PROVE  /\ Atomic!Is(t, "pending", "write") /\ Call[t].req = req[t]
         /\ Table' = [Table EXCEPT ![req[t].path] = req[t].content]
         /\ Call' = [Call EXCEPT ![t] = AbstractCall(t)']
<1> DEFINE p == req[t].path
<1>1. p \in Path /\ req[t].content \in Content /\ req[t].op = "write"
  BY WriteRequestFields DEF RefInv, Inv, Control, WritePc
<1>2. Atomic!Is(t, "pending", "write") /\ Call[t].req = req[t]
  BY <1>1, CallsStand DEF Stands, Atomic!Is, Call
<1>3. file' \in [Path -> FileRow \cup {NoFile}]
  BY UpsertTyped DEF RefInv, Inv
<1>4. /\ file'[p].sha = req[t].content
      /\ file'[p].id = IF file[p] = NoFile THEN nextId ELSE file[p].id
      /\ file'[p] # NoFile
      /\ \A q \in Path \ {p} : file'[q] = file[q]
  BY <1>1, <1>3, Sentinels DEF UpsertRow, RefInv, Inv, TypeOK, FileRow
<1>5. Table' = [Table EXCEPT ![p] = req[t].content]
  BY <1>1, <1>4 DEF Table, InTable
<1>6. ASSUME NEW u \in Task \ {t} PROVE AbstractCall(u)' = AbstractCall(u)
  <2>1. UNCHANGED <<pc[u], req[u], seen[u], result[u]>>
    BY DEF RefInv, Inv, TypeOK
  <2>2. Late(u)' = Late(u)
    <3>1. CASE pc[u] \in {"rm", "drop"}
      <4>1. seen[u] \in FileRow /\ seen[u].id < nextId /\ req[u].path \in Path
        BY <3>1, RequestFields, Sentinels DEF RefInv, Inv, Control, Ids
      <4>2. seen[u].id # nextId
        BY <4>1 DEF RefInv, Inv, TypeOK, FileRow, FileId
      <4> QED
        BY <2>1, <4>1, <4>2, <1>4 DEF Late
    <3> QED
      BY <2>1, <3>1 DEF Late
  <2> QED
    BY <2>1, <2>2 DEF AbstractCall, Progress
<1> QED
  BY <1>2, <1>5, <1>6 DEF Call

(* The steps of a write.                                                   *)
LEMMA WriteRefines ==
  ASSUME RefInv, RefInv', NEW t \in Task, WriteStep(t)
  PROVE  Atomic!Next \/ UNCHANGED <<Table, Call>>
<1> USE DEF Goto, Answer, AfterWrite, store, history
<1>1. CASE WriteBegin(t) \/ BlobOpen(t) \/ BlobWrite(t) \/ CopyOpen(t) \/ CopyWrite(t)
  <2>1. PICK label \in {"blobopen", "blobwrite", "blobinsert", "open", "write", "commit"} :
          /\ pc' = [pc EXCEPT ![t] = label]
          /\ pc[t] \in {"begin", "blobopen", "blobwrite", "open", "write"}
          /\ UNCHANGED <<file, req, result>> /\ \A u \in Task \ {t} : seen'[u] = seen[u]
    BY <1>1 DEF WriteBegin, BlobOpen, BlobWrite, CopyOpen, CopyWrite, RefInv, Inv, TypeOK
  <2>2. AbstractCall(t)' = AbstractCall(t)
    BY <2>1, CallsStand, CallsStandNext, ZenonT(60) DEF Stands, RefInv, Inv, TypeOK
  <2> QED
    BY <2>1, <2>2, Unseen
<1>2. CASE BlobInsert(t)
  <2>1. Call[t].st = "pending" /\ Call[t].req = req[t] /\ req[t].op = "write"
    BY <1>2, CallsStand, WriteRequestFields DEF BlobInsert, Stands, Call, RefInv, Inv, Control, WritePc
  <2>2. CASE req[t].content \in blobRow
    <3>1. UNCHANGED Table /\ Call' = [Call EXCEPT ![t] = Atomic!Done(t, "failed")]
      BY <1>2, <2>2, AnswerEnds DEF BlobInsert
    <3>2. Atomic!Fail(t)
      BY <2>1, <3>1 DEF Atomic!Fail, Table, Call
    <3> QED
      BY <3>2 DEF Atomic!Next
  <2>3. CASE req[t].content \notin blobRow
    <3>1. AbstractCall(t)' = AbstractCall(t)
      BY <1>2, <2>3, CallsStand, CallsStandNext DEF BlobInsert, Stands, RefInv, Inv, TypeOK
    <3> QED
      BY <1>2, <2>3, <3>1, Unseen DEF BlobInsert
  <2> QED
    BY <2>2, <2>3
<1>3. CASE Commit(t)
  <2>1. PICK label \in {"runlog", "ingest", "reply"} :
          /\ pc' = [pc EXCEPT ![t] = label]
          /\ label = "reply" => result'[t] = "ok"
          /\ pc[t] = "commit" /\ UpsertRow(t) /\ UNCHANGED <<req, seen>>
          /\ \A u \in Task \ {t} : result'[u] = result[u]
    BY <1>3 DEF Commit, RefInv, Inv, TypeOK
  <2>2. /\ Atomic!Is(t, "pending", "write") /\ Call[t].req = req[t]
        /\ Table' = [Table EXCEPT ![req[t].path] = req[t].content]
        /\ Call' = [Call EXCEPT ![t] = AbstractCall(t)']
    BY <2>1, UpsertWrites
  <2>3. AbstractCall(t)' \in {Atomic!Done(t, "ok"), Atomic!Taken(t, "none")}
    <3>1. pc'[t] = label /\ req'[t] = req[t]
      BY <2>1 DEF RefInv, Inv, TypeOK
    <3>2. Stands(t)'
      BY CallsStandNext
    <3>3. CASE label = "reply"
      BY <2>1, <3>1, <3>2, <3>3, Outcomes DEF Stands
    <3>4. CASE label # "reply"
      BY <2>1, <3>1, <3>2, <3>4, Outcomes DEF Stands
    <3> QED
      BY <3>3, <3>4
  <2>4. Atomic!Done(t, "ok").ans = "ok" /\ Atomic!Taken(t, "none").ans = "none"
    BY Outcomes
  <2>5. Atomic!Write(t)
    BY <2>2, <2>3, <2>4 DEF Atomic!Write, Table, Call
  <2> QED
    BY <2>5 DEF Atomic!Next
<1>4. CASE CommitUnannounced(t)
  <2>1. /\ pc[t] = "commit" /\ UpsertRow(t) /\ UNCHANGED <<req, seen>> /\ req[t].run
        /\ pc' = [pc EXCEPT ![t] = "reply"] /\ pc'[t] = "reply" /\ result'[t] = "failed"
        /\ \A u \in Task \ {t} : result'[u] = result[u]
    BY <1>4 DEF CommitUnannounced, RefInv, Inv, TypeOK
  <2>2. /\ Atomic!Is(t, "pending", "write") /\ Call[t].req = req[t]
        /\ Table' = [Table EXCEPT ![req[t].path] = req[t].content]
        /\ Call' = [Call EXCEPT ![t] = AbstractCall(t)']
    BY <2>1, UpsertWrites
  <2>3. AbstractCall(t)' = Atomic!Done(t, "failed")
    <3>1. Stands(t)' /\ req'[t] = req[t]
      BY <2>1, CallsStandNext
    <3> QED
      BY <2>1, <3>1, Outcomes DEF Stands
  <2>4. Atomic!Write(t)
    BY <2>1, <2>2, <2>3 DEF Atomic!Write, Table, Call
  <2> QED
    BY <2>4 DEF Atomic!Next
<1>5. CASE RunLogged(t)
  <2>1. Call[t].st = "taken" /\ Call[t].req = req[t] /\ req[t].op = "write"
    BY <1>5, CallsStand, WriteRequestFields DEF RunLogged, Stands, Call, RefInv, Inv, Control, WritePc
  <2>2. CASE req[t].ingest
    <3>1. AbstractCall(t)' = AbstractCall(t)
      BY <1>5, <2>2, CallsStand, CallsStandNext DEF RunLogged, Stands, RefInv, Inv, TypeOK
    <3> QED
      BY <1>5, <2>2, <3>1, Unseen DEF RunLogged
  <2>3. CASE ~ req[t].ingest
    <3>1. UNCHANGED Table /\ Call' = [Call EXCEPT ![t] = Atomic!Done(t, "ok")]
      BY <1>5, <2>3, AnswerEnds DEF RunLogged
    <3>2. Atomic!Finish(t)
      BY <2>1, <3>1 DEF Atomic!Finish, Atomic!Is, Table, Call
    <3> QED
      BY <3>2 DEF Atomic!Next
  <2> QED
    BY <2>2, <2>3
<1> QED
  BY <1>1, <1>2, <1>3, <1>4, <1>5 DEF WriteStep

(* The steps of an extraction, of a write or on its own: no abstract       *)
(* change.                                                                 *)
LEMMA IngestRefines ==
  ASSUME RefInv, RefInv', NEW t \in Task, IngestStep(t)
  PROVE  Atomic!Next \/ UNCHANGED <<Table, Call>>
<1>1. ASSUME pc[t] \in {"ingest", "embed", "link"} \/ (pc[t] = "begin" /\ req[t].op = "ingest"),
             NEW a \in {"ok", "failed"}, UNCHANGED <<file, req, seen>>, Answer(t, a)
      PROVE  Atomic!Next
  <2>1. UNCHANGED Table /\ Call' = [Call EXCEPT ![t] = Atomic!Done(t, a)]
    BY <1>1, AnswerEnds DEF Answer, Goto
  <2>2. CASE req[t].op = "write"
    <3>1. Call[t].st = "taken" /\ Call[t].req = req[t] /\ req[t].ingest
      BY <1>1, <2>2, CallsStand DEF Stands, Call, RefInv, Calls
    <3>2. Atomic!Finish(t)
      BY <2>1, <2>2, <3>1 DEF Atomic!Finish, Atomic!Is, Table, Call
    <3> QED
      BY <3>2 DEF Atomic!Next
  <2>3. CASE req[t].op # "write"
    <3>1. req[t].op = "ingest"
      BY <1>1, <2>3, WriteRequestFields DEF RefInv, Calls, Inv, Control, WritePc
    <3>2. Call[t].st = "pending" /\ Call[t].req = req[t]
      BY <1>1, <2>3, <3>1, CallsStand, WriteRequestFields DEF Stands, Call, RefInv, Inv, Control, WritePc
    <3>3. Atomic!Ingest(t)
      BY <2>1, <3>1, <3>2 DEF Atomic!Ingest, Atomic!Is, Table, Call
    <3> QED
      BY <3>3 DEF Atomic!Next
  <2> QED
    BY <2>2, <2>3
<1>2. ASSUME pc[t] \in {"ingest", "embed", "link"} \/ (pc[t] = "begin" /\ req[t].op = "ingest"),
             NEW label \in {"embed", "link"}, UNCHANGED <<file, req, result>>, Goto(t, label),
             \A u \in Task \ {t} : seen'[u] = seen[u]
      PROVE  UNCHANGED <<Table, Call>>
  <2>1. pc'[t] \in {"embed", "link"} /\ req'[t] = req[t] /\ (pc[t] = "ingest" => req[t].op = "write")
    BY <1>2, WriteRequestFields DEF Goto, RefInv, Inv, TypeOK, Control, WritePc
  <2>2. AbstractCall(t)' = AbstractCall(t)
    BY <1>2, <2>1, CallsStand, CallsStandNext DEF Stands
  <2> QED
    BY <1>2, <2>2, Unseen DEF Goto
<1>3. CASE IngestBegin(t)
  BY <1>1, <1>2, <1>3 DEF IngestBegin, store, RefInv, Inv, TypeOK
<1>4. CASE InsertNode(t) \/ LinkNode(t) \/ IngestEnd(t)
  BY <1>1, <1>2, <1>4 DEF InsertNode, LinkNode, IngestEnd, store
<1> QED
  BY <1>3, <1>4 DEF IngestStep

(* A read takes effect when it looks the row up.                           *)
LEMMA ReadRefines ==
  ASSUME RefInv, RefInv', NEW t \in Task, ReadStep(t)
  PROVE  Atomic!Next
<1> DEFINE p == req[t].path
<1>1. CASE ReadBegin(t)
  <2>1. /\ Call[t].st = "pending" /\ Call[t].req = req[t] /\ req[t].op = "read" /\ p \in Path
        /\ Table[p] = InTable(p)
    BY <1>1, CallsStand, RequestFields DEF ReadBegin, Stands, Call, Table, RefInv, Inv, Control
  <2>2. CASE file[p] = NoFile
    <3>1. UNCHANGED Table /\ Call' = [Call EXCEPT ![t] = Atomic!Done(t, "failed")]
      BY <1>1, <2>2, AnswerEnds DEF ReadBegin, Answer, Goto, store
    <3>2. InTable(p) = NoContent
      BY <2>2 DEF InTable
    <3>3. Atomic!Fail(t)
      BY <2>1, <3>1, <3>2 DEF Atomic!Fail, Table, Call
    <3> QED
      BY <3>3 DEF Atomic!Next
  <2>3. CASE file[p] # NoFile
    <3>1. file[p].sha \in blobRow /\ InTable(p) = file[p].sha /\ InTable(p) # NoContent
      BY <2>1, <2>3, Sentinels DEF RefInv, Inv, TypeOK, Named, NothingNamesALostBlob, InTable, FileRow
    <3>2. CASE file[p].sha \in Binary
      <4>1. /\ pc'[t] = "readblob" /\ req'[t] = req[t] /\ seen'[t] = file[p] /\ UNCHANGED file
            /\ \A u \in Task \ {t} : UNCHANGED <<pc[u], req[u], seen[u], result[u]>>
        BY <1>1, <2>3, <3>1, <3>2 DEF ReadBegin, Goto, store, RefInv, Inv, TypeOK
      <4>2. AbstractCall(t)' = [st |-> "taken", req |-> req[t], ans |-> file[p].sha, late |-> FALSE]
        BY <4>1, CallsStandNext DEF Stands
      <4>3. UNCHANGED Table /\ Call' = [Call EXCEPT ![t] = Atomic!Taken(t, file[p].sha)]
        <5>1. UNCHANGED Table /\ \A u \in Task \ {t} : AbstractCall(u)' = AbstractCall(u)
          BY <4>1, Alone
        <5>2. Atomic!Taken(t, file[p].sha) = AbstractCall(t)'
          BY <4>2, Outcomes
        <5> QED
          BY <5>1, <5>2, OneCall
      <4>4. Atomic!Read(t)
        BY <2>1, <3>1, <3>2, <4>3 DEF Atomic!Read, Atomic!Is, Table, Call
      <4> QED
        BY <4>4 DEF Atomic!Next
    <3>3. CASE file[p].sha \notin Binary
      <4>1. UNCHANGED Table /\ Call' = [Call EXCEPT ![t] = Atomic!Done(t, file[p].sha)]
        BY <1>1, <2>3, <3>1, <3>3, AnswerEnds DEF ReadBegin, Answer, Goto, store, RefInv, Inv, TypeOK
      <4>2. Atomic!Read(t)
        BY <2>1, <3>1, <3>3, <4>1 DEF Atomic!Read, Atomic!Is, Table, Call
      <4> QED
        BY <4>2 DEF Atomic!Next
    <3> QED
      BY <3>2, <3>3
  <2> QED
    BY <2>2, <2>3
<1>2. CASE ReadBlob(t)
  <2>1. /\ Call[t].st = "taken" /\ Call[t].req = req[t] /\ req[t].op = "read"
        /\ Call[t].ans = seen[t].sha
    BY <1>2, CallsStand DEF ReadBlob, Stands, Call, RefInv, Calls
  <2>2. PICK a \in {seen[t].sha, Torn} : Answer(t, a)
    BY <1>2 DEF ReadBlob
  <2>3. UNCHANGED Table /\ Call' = [Call EXCEPT ![t] = Atomic!Done(t, a)]
    BY <1>2, <2>2, AnswerEnds DEF ReadBlob, Answer, Goto, store
  <2>4. Atomic!Finish(t)
    BY <2>1, <2>3 DEF Atomic!Finish, Atomic!Is, Table, Call
  <2> QED
    BY <2>4 DEF Atomic!Next
<1> QED
  BY <1>1, <1>2 DEF ReadStep

(* A delete takes effect when its row goes.  The other deletions under way *)
(* that found a row under the path are late from then on; a late one finds *)
(* its row gone and drops none.                                            *)
LEMMA DropDeletes ==
  ASSUME RefInv, NEW t \in Task, pc[t] = "drop", DropRow(t)
  PROVE  LET p == req[t].path IN
         /\ Late(t) => file' = file
         /\ ~ Late(t) => file[p] # NoFile /\ file' = [file EXCEPT ![p] = NoFile]
<1> DEFINE p == req[t].path
<1>1. p \in Path /\ seen[t] # NoFile
  BY RequestFields, Sentinels DEF RefInv, Inv, Control
<1>2. \A q \in Path : file[q] # NoFile /\ file[q].id = seen[t].id => q = p
  BY <1>1 DEF RefInv, Inv, Ids
<1>3. file \in [Path -> FileRow \cup {NoFile}]
  BY DEF RefInv, Inv, TypeOK
<1>4. \A q \in Path \ {p} : file'[q] = file[q]
  BY <1>2 DEF DropRow
<1>5. file' = [q \in Path |-> file'[q]]
  BY DEF DropRow
<1>6. CASE Late(t)
  <2>1. file'[p] = file[p]
    BY <1>1, <1>6 DEF Late, DropRow
  <2>2. file' = file
    BY <1>3, <1>4, <1>5, <2>1
  <2> QED
    BY <1>6, <2>2
<1>7. CASE ~ Late(t)
  <2>1. file[p] # NoFile /\ file[p].id = seen[t].id
    BY <1>7 DEF Late
  <2>2. file'[p] = NoFile
    BY <1>1, <2>1 DEF DropRow
  <2>3. file' = [file EXCEPT ![p] = NoFile]
    BY <1>3, <1>4, <1>5, <2>2
  <2> QED
    BY <1>7, <2>1, <2>3
<1> QED
  BY <1>6, <1>7

(* The steps of a delete.                                                  *)
LEMMA DeleteRefines ==
  ASSUME RefInv, RefInv', NEW t \in Task, DeleteStep(t)
  PROVE  Atomic!Next \/ UNCHANGED <<Table, Call>>
<1> DEFINE p == req[t].path
<1>1. CASE DeleteBegin(t)
  <2>1. /\ Call[t].st = "pending" /\ Call[t].req = req[t] /\ req[t].op = "delete" /\ p \in Path
        /\ Table[p] = InTable(p)
    BY <1>1, CallsStand, RequestFields DEF DeleteBegin, Stands, Call, Table, RefInv, Inv, Control
  <2>2. CASE file[p] = NoFile
    <3>1. UNCHANGED Table /\ Call' = [Call EXCEPT ![t] = Atomic!Done(t, "failed")]
      BY <1>1, <2>2, AnswerEnds DEF DeleteBegin, Answer, Goto, store
    <3>2. InTable(p) = NoContent
      BY <2>2 DEF InTable
    <3>3. Atomic!Fail(t)
      BY <2>1, <3>1, <3>2 DEF Atomic!Fail, Table, Call
    <3> QED
      BY <3>3 DEF Atomic!Next
  <2>3. CASE file[p] # NoFile
    <3>1. /\ pc'[t] = "rm" /\ req'[t] = req[t] /\ seen'[t] = file[p] /\ UNCHANGED file
          /\ \A u \in Task \ {t} : seen'[u] = seen[u]
      BY <1>1, <2>3 DEF DeleteBegin, Goto, store, RefInv, Inv, TypeOK
    <3>2. Late(t)' = FALSE
      BY <2>3, <3>1 DEF Late
    <3>3. AbstractCall(t)' = AbstractCall(t)
      BY <1>1, <3>1, <3>2, CallsStand, CallsStandNext DEF DeleteBegin, Stands
    <3> QED
      BY <1>1, <2>3, <3>1, <3>3, Unseen DEF DeleteBegin, Goto, store
  <2> QED
    BY <2>2, <2>3
<1>2. CASE RemoveCopy(t)
  <2>1. pc[t] = "rm" /\ pc'[t] = "drop" /\ UNCHANGED <<file, req, seen, result>>
    BY <1>2 DEF RemoveCopy, Goto, RefInv, Inv, TypeOK
  <2>2. Late(t)' = Late(t)
    BY <2>1 DEF Late
  <2>3. AbstractCall(t)' = AbstractCall(t)
    BY <2>1, <2>2, CallsStand, CallsStandNext DEF Stands
  <2> QED
    BY <1>2, <2>1, <2>3, Unseen DEF RemoveCopy, Goto
<1>3. CASE Drop(t)
  <2>1. /\ Call[t].st = "pending" /\ Call[t].req = req[t] /\ req[t].op = "delete" /\ p \in Path
        /\ Call[t].late = Late(t)
    BY <1>3, CallsStand, RequestFields DEF Drop, Stands, Call, RefInv, Inv, Control, Calls
  <2>2. CASE Late(t)
    <3>1. UNCHANGED file
      BY <1>3, <2>2, DropDeletes DEF Drop
    <3>2. UNCHANGED Table /\ Call' = [Call EXCEPT ![t] = Atomic!Done(t, "ok")]
      BY <1>3, <3>1, AnswerEnds DEF Drop, Answer, Goto
    <3>3. Atomic!Delete(t)
      BY <2>1, <2>2, <3>2 DEF Atomic!Delete, Atomic!Is, Table, Call
    <3> QED
      BY <3>3 DEF Atomic!Next
  <2>3. CASE ~ Late(t)
    <3> DEFINE late == {u \in Task \ {t} : pc[u] \in {"rm", "drop"} /\ req[u].path = p}
    <3>1. file[p] # NoFile /\ file' = [file EXCEPT ![p] = NoFile] /\ file'[p] = NoFile
      BY <1>3, <2>1, <2>3, DropDeletes DEF Drop, RefInv, Inv, TypeOK
    <3>2. Table' = [Table EXCEPT ![p] = NoContent]
      BY <2>1, <3>1 DEF Table, InTable, RefInv, Inv, TypeOK
    <3>3. AbstractCall(t)' = Atomic!Done(t, "ok")
      <4>1. Stands(t)' /\ pc'[t] = "reply" /\ req'[t] = req[t] /\ result'[t] = "ok"
        BY <1>3, CallsStandNext DEF Drop, Answer, Goto, RefInv, Inv, TypeOK
      <4> QED
        BY <4>1, Outcomes DEF Stands
    <3>4. ASSUME NEW u \in Task \ {t}
          PROVE  UNCHANGED <<pc[u], req[u], seen[u], result[u]>>
      BY <1>3 DEF Drop, Answer, Goto, RefInv, Inv, TypeOK
    <3>5. ASSUME NEW u \in late
          PROVE  /\ AbstractCall(u)' = Atomic!Pending(Call[u].req, TRUE)
                 /\ Atomic!Is(u, "pending", "delete") /\ Call[u].req.path = p
      <4>1. Late(u)' = TRUE
        BY <3>1, <3>4 DEF Late
      <4>2. Stands(u) /\ Stands(u)' /\ req[u].op = "delete"
        BY CallsStand, CallsStandNext DEF RefInv, Calls
      <4>3. AbstractCall(u)' = [st |-> "pending", req |-> req[u], ans |-> "none", late |-> TRUE]
        BY <3>4, <4>1, <4>2 DEF Stands
      <4>4. Call[u].st = "pending" /\ Call[u].req = req[u]
        BY <4>2 DEF Stands, Call
      <4> QED
        BY <4>2, <4>3, <4>4 DEF Atomic!Is, Atomic!Pending, Call
    <3>6. ASSUME NEW u \in Task \ {t}, u \notin late
          PROVE  AbstractCall(u)' = Call[u]
      <4>1. Late(u)' = Late(u)
        <5>1. CASE pc[u] \in {"rm", "drop"}
          <6>1. req[u].path \in Path /\ req[u].path # p
            BY <3>6, <5>1, RequestFields DEF RefInv, Inv, Control
          <6> QED
            BY <3>1, <3>4, <6>1 DEF Late, RefInv, Inv, TypeOK
        <5> QED
          BY <3>4, <5>1 DEF Late
      <4> QED
        BY <3>4, <4>1 DEF Call, AbstractCall, Progress
    <3>7. Call' = [u \in Task |->
            IF u = t THEN Atomic!Done(t, "ok")
            ELSE IF u \in late THEN Atomic!Pending(Call[u].req, TRUE) ELSE Call[u]]
      BY <3>3, <3>5, <3>6 DEF Call
    <3>8. Atomic!Delete(t)
      <4> HIDE DEF late
      <4>1. late \in SUBSET {u \in Task \ {t} : Atomic!Is(u, "pending", "delete") /\ Call[u].req.path = p}
        BY <3>5 DEF late
      <4>2. \E l \in SUBSET {u \in Task \ {t} : Atomic!Is(u, "pending", "delete") /\ Call[u].req.path = p} :
              Call' = [u \in Task |->
                IF u = t THEN Atomic!Done(t, "ok")
                ELSE IF u \in l THEN Atomic!Pending(Call[u].req, TRUE) ELSE Call[u]]
        BY <3>7, <4>1
      <4>3. Atomic!Is(t, "pending", "delete") /\ ~ Call[t].late /\ Call[t].req.path = p
        BY <2>1, <2>3 DEF Atomic!Is, Call
      <4> HIDE DEF p
      <4> QED
        BY <3>2, <4>2, <4>3 DEF Atomic!Delete, Table, Call
    <3> QED
      BY <3>8 DEF Atomic!Next
  <2> QED
    BY <2>2, <2>3
<1> QED
  BY <1>1, <1>2, <1>3 DEF DeleteStep

(* A restart empties every call; at most the write or the deletion it cut  *)
(* short has taken effect.                                                 *)
LEMMA RestartCrashes ==
  ASSUME RefInv, RefInv', Restart
  PROVE  Call' = [t \in Task |-> Atomic!Idle]
<1>1. ASSUME NEW t \in Task PROVE AbstractCall(t)' = Atomic!Idle
  BY CallsStandNext DEF Restart, Stands, Atomic!Idle
<1> QED
  BY <1>1 DEF Call

LEMMA CrashRefines ==
  ASSUME RefInv, RefInv',
         Crash \/ \E t \in Task : CrashInCommit(t) \/ CrashInDrop(t)
  PROVE  Atomic!Crash
<1>1. CASE Crash
  <2>1. UNCHANGED Table
    BY <1>1 DEF Crash, Table, InTable
  <2> QED
    BY <1>1, <2>1, RestartCrashes DEF Crash, Atomic!Crash, Call, Table
<1>2. ASSUME NEW t \in Task, CrashInCommit(t) PROVE Atomic!Crash
  <2>1. req[t].path \in Path /\ req[t].op = "write" /\ Call[t].st = "pending" /\ Call[t].req = req[t]
    BY <1>2, CallsStand, WriteRequestFields DEF CrashInCommit, Stands, Call, RefInv, Inv, Control, WritePc
  <2>2. Table' = [Table EXCEPT ![req[t].path] = req[t].content]
    <3>1. /\ file'[req[t].path].sha = req[t].content /\ file'[req[t].path] # NoFile
          /\ \A q \in Path \ {req[t].path} : file'[q] = file[q]
      <4>1. file' \in [Path -> FileRow \cup {NoFile}]
        BY <1>2, UpsertTyped DEF CrashInCommit, RefInv, Inv
      <4>2. req[t].content \in Content
        BY <1>2, WriteRequestFields DEF CrashInCommit, RefInv, Inv, Control, WritePc
      <4> QED
        BY <1>2, <2>1, <4>1, <4>2, Sentinels DEF CrashInCommit, UpsertRow, RefInv, Inv, TypeOK, FileRow
    <3> QED
      BY <2>1, <3>1 DEF Table, InTable
  <2> QED
    BY <1>2, <2>1, <2>2, RestartCrashes DEF CrashInCommit, Atomic!Crash, Call, Table
<1>3. ASSUME NEW t \in Task, CrashInDrop(t) PROVE Atomic!Crash
  <2>1. req[t].path \in Path /\ req[t].op = "delete" /\ Call[t].st = "pending" /\ Call[t].req = req[t]
    BY <1>3, CallsStand, RequestFields DEF CrashInDrop, Stands, Call, RefInv, Inv, Control, Calls
  <2>2. UNCHANGED Table \/ Table' = [Table EXCEPT ![req[t].path] = NoContent]
    <3>1. UNCHANGED file \/ file' = [file EXCEPT ![req[t].path] = NoFile]
      BY <1>3, DropDeletes DEF CrashInDrop
    <3>2. CASE UNCHANGED file
      BY <3>2 DEF Table, InTable
    <3>3. CASE file' = [file EXCEPT ![req[t].path] = NoFile]
      BY <2>1, <3>3 DEF Table, InTable, RefInv, Inv, TypeOK
    <3> QED
      BY <3>1, <3>2, <3>3
  <2> QED
    BY <1>3, <2>1, <2>2, RestartCrashes DEF CrashInDrop, Atomic!Crash, Call, Table
<1> QED
  BY <1>1, <1>2, <1>3

(* The invariant the refinement needs. *)
LEMMA CallInvariance == Spec => []RefInv
<1>1. Init => Calls
  BY DEF Init, Calls
<1>2. RefInv /\ [Next]_vars => RefInv'
  BY NextTyped, NextIds, NextNamed, NextBytes, NextCalls DEF RefInv, Inv
<1>3. Init => Inv
  BY InitTyped, InitIds, InitNamed DEF Inv
<1> QED
  BY <1>1, <1>2, <1>3, PTL DEF RefInv, Spec

(* The handlers implement the atomic table: every request takes effect at  *)
(* one instant between its arrival and its answer.                         *)
THEOREM Refinement == Spec => ImplementsAtomicFiles
<1>1. Init => Atomic!Init
  <2> SUFFICES ASSUME Init PROVE Atomic!Init
    OBVIOUS
  <2>1. Table \in [Path -> Content \cup {NoContent}]
    BY InitTables DEF Table, InTable, FileRow
  <2>2. ASSUME NEW t \in Task PROVE AbstractCall(t) = Atomic!Idle
    BY DEF Init, AbstractCall, Progress, Late, Atomic!Idle
  <2> QED
    BY <2>1, <2>2 DEF Atomic!Init, Table
<1>2. RefInv /\ RefInv' /\ [Next]_vars => [Atomic!Next]_<<Table, Call>>
  <2> SUFFICES ASSUME RefInv, RefInv', [Next]_vars PROVE Atomic!Next \/ UNCHANGED <<Table, Call>>
    OBVIOUS
  <2>1. ASSUME NEW t \in Task, NEW r \in Request, Submit(t, r) PROVE Atomic!Next
    BY <2>1, SubmitInvokes DEF Atomic!Next
  <2>2. ASSUME NEW t \in Task, Refuse(t) \/ AwaitFails(t) \/ Reply(t) PROVE Atomic!Next
    BY <2>2, RefuseFails, AwaitFailsRefines, ReplyReturns DEF Atomic!Next
  <2>3. CASE Crash \/ \E t \in Task : CrashInCommit(t) \/ CrashInDrop(t)
    BY <2>3, CrashRefines DEF Atomic!Next
  <2>4. CASE UNCHANGED vars
    BY <2>4 DEF vars, store, Table, Call, InTable, AbstractCall, Progress, Late
  <2> QED
    BY <2>1, <2>2, <2>3, <2>4, WriteRefines, IngestRefines, DeleteRefines, ReadRefines DEF Next
<1> QED
  BY <1>1, <1>2, CallInvariance, PTL DEF Spec, ImplementsAtomicFiles, Atomic!Spec, Table, Call

-----------------------------------------------------------------------------
(* What a replica holds at a path after a sequence of announced changes.   *)
Changes(s, p) == {i \in 1..Len(s) : s[i].path = p}
LastChange(s, p) == IF Changes(s, p) # {} THEN Max(Changes(s, p)) ELSE 0
Effect(e) == IF e.op = "delete" THEN NoContent ELSE e.sha
ReplayOf(s, p) == IF LastChange(s, p) = 0 THEN NoContent ELSE Effect(s[LastChange(s, p)])

(* The replay of the model, as a function of the sequence it replays.      *)
LEMMA ReplayedIs == \A p \in Path : Replayed(p) = ReplayOf(outbox, p)
<1> SUFFICES ASSUME NEW p \in Path PROVE Replayed(p) = ReplayOf(outbox, p)
  OBVIOUS
<1>1. LastChange(outbox, p) = SelectLastInSeq(outbox, LAMBDA e : e.path = p)
  BY DEF SelectLastInSeq, LastChange, Changes
<1> QED
  BY <1>1 DEF Replayed, ReplayOf, Effect

LEMMA ReplayedIsNext == \A p \in Path : Replayed(p)' = ReplayOf(outbox', p)
<1>1. (\A p \in Path : Replayed(p) = ReplayOf(outbox, p))'
  BY ReplayedIs, PTL
<1> QED
  BY <1>1

(* The maximum of a set of numbers, known and found.                       *)
LEMMA MaxIs ==
  ASSUME NEW S \in SUBSET Nat, NEW m \in S, \A x \in S : m >= x
  PROVE Max(S) = m
<1>1. Max(S) \in S /\ \A x \in S : Max(S) >= x
  BY DEF Max
<1>2. Max(S) \in Nat /\ m \in Nat /\ Max(S) >= m /\ m >= Max(S)
  BY <1>1
<1> QED
  BY <1>2

LEMMA HasMax ==
  ASSUME NEW n \in Nat, NEW S \in SUBSET (1..n), S # {}
  PROVE  Max(S) \in S
<1> DEFINE T == {n - i : i \in S}
           R == OpToRel(<, Nat)
<1>1. T \subseteq Nat /\ T # {}
  OBVIOUS
<1>2. IsWellFoundedOn(R, Nat)
  BY NatLessThanWellFounded
<1>3. \E m \in T : \A y \in T : ~ (<<y, m>> \in R)
  <2> HIDE DEF T, R
  <2> QED
    BY <1>1, <1>2, WFMin
<1>4. PICK m \in T : \A y \in T : ~ (y < m)
  BY <1>1, <1>3 DEF OpToRel
<1>5. PICK k \in S : m = n - k
  BY <1>4
<1>6. ASSUME NEW i \in S PROVE k >= i
  <2>1. n - i \in T /\ ~ (n - i < n - k)
    BY <1>4, <1>5
  <2> QED
    BY <2>1
<1>7. \E x \in S : \A y \in S : x >= y
  BY <1>6
<1> QED
  BY <1>7 DEF Max

(* One more change is the last of its path, and leaves the last change of  *)
(* every other path where it was.                                          *)
LEMMA ReplayAppend ==
  ASSUME NEW s \in Seq(SyncEvent), NEW e \in SyncEvent, NEW p \in Path
  PROVE  ReplayOf(Append(s, e), p) = IF e.path = p THEN Effect(e) ELSE ReplayOf(s, p)
<1> DEFINE n == Len(s)
           r == Append(s, e)
<1>1. n \in Nat /\ Len(r) = n + 1 /\ r[n + 1] = e /\ \A i \in 1..n : r[i] = s[i]
  OBVIOUS
<1> HIDE DEF n, r
<1>2. n = Len(s)
  BY DEF n
<1>3. CASE e.path = p
  <2>1. Changes(r, p) \in SUBSET Nat /\ n + 1 \in Changes(r, p) /\ \A i \in Changes(r, p) : n + 1 >= i
    BY <1>1, <1>3 DEF Changes
  <2>2. Max(Changes(r, p)) = n + 1
    BY <2>1, MaxIs
  <2>3. LastChange(r, p) = n + 1
    BY <2>1, <2>2 DEF LastChange
  <2> QED
    BY <1>1, <1>3, <2>3 DEF ReplayOf, r
<1>4. CASE e.path # p
  <2>1. Changes(r, p) = Changes(s, p)
    <3>1. ASSUME NEW i PROVE i \in Changes(r, p) <=> i \in Changes(s, p)
      BY <1>1, <1>2, <1>4 DEF Changes
    <3> QED
      BY <3>1
  <2>2. LastChange(r, p) = LastChange(s, p)
    BY <2>1 DEF LastChange
  <2>3. LastChange(s, p) # 0 => LastChange(s, p) \in 1..n
    <3>1. Changes(s, p) \in SUBSET (1..n)
      BY <1>2 DEF Changes
    <3>2. Changes(s, p) # {} => Max(Changes(s, p)) \in Changes(s, p)
      BY <1>1, <3>1, HasMax
    <3> QED
      BY <3>1, <3>2 DEF LastChange
  <2> QED
    BY <1>1, <1>4, <2>2, <2>3 DEF ReplayOf, r
<1> QED
  BY <1>3, <1>4

(* The places where a change is half done, or holds the row it will drop. *)
Loud == {"write", "commit", "runlog", "rm", "drop"}

Held(p, at) == \E t \in Task : pc[t] \in at /\ req[t].path = p

(* A path whose changes never overlapped has one change in flight at most, *)
(* and the three places agree but for what that one change has half done.  *)
Agreeing(p) ==
  /\ \A t, u \in Task : Mutates(t) /\ Mutates(u) /\ req[t].path = p /\ req[u].path = p => t = u
  /\ ~ Held(p, {"write", "commit", "drop"}) => disk[p] = InTable(p)
  /\ ~ Held(p, {"runlog"}) => Replayed(p) = InTable(p)
  /\ \A t \in Task : pc[t] # "idle" /\ req[t].path = p =>
       /\ pc[t] = "write" => disk[p] = Empty /\ t \in opened[p]
       /\ pc[t] = "commit" => disk[p] = req[t].content
       /\ pc[t] = "runlog" => InTable(p) = req[t].content
       /\ pc[t] = "drop" => disk[p] = NoContent
       /\ pc[t] \in {"rm", "drop"} => seen[t] = file[p]

CleanAgree == \A p \in Path : clean[p] => Agreeing(p)

(* Only changes wait where a change is half done. *)
LEMMA LoudMutates ==
  ASSUME Control, Calls, NEW t \in Task, pc[t] \in Loud
  PROVE  Mutates(t) /\ req[t].path \in Path
BY WriteRequestFields, RequestFields DEF Control, Calls, Loud, WritePc, Mutates

(* A step that leaves a path's three places alone, by a request for        *)
(* another path or one between quiet places.                               *)
LEMMA StillAgreeing ==
  ASSUME TypeOK, NEW p \in Path, Agreeing(p), NEW t \in Task, UNCHANGED req,
         pc[t] # "idle", pc'[t] # "idle",
         file'[p] = file[p], disk'[p] = disk[p], Replayed(p)' = Replayed(p),
         \A u \in Task \ {t} : u \in opened[p] => u \in opened'[p],
         req[t].path # p => opened'[p] = opened[p],
         \A u \in Task \ {t} : pc'[u] = pc[u] /\ seen'[u] = seen[u],
         req[t].path # p \/ (pc[t] \notin Loud \ {"rm"} /\ pc'[t] \notin Loud)
  PROVE  Agreeing(p)'
<1>1. InTable(p)' = InTable(p)
  BY DEF InTable
<1>2. \A at \in {{"write", "commit", "drop"}, {"runlog"}} : Held(p, at)' = Held(p, at)
  BY DEF Held, Loud
<1>3. \A u, v \in Task : Mutates(u)' /\ Mutates(v)' /\ req'[u].path = p /\ req'[v].path = p => u = v
  BY DEF Agreeing, Mutates
<1>4. ASSUME NEW u \in Task, pc'[u] # "idle", req'[u].path = p
      PROVE  /\ pc'[u] = "write" => disk'[p] = Empty /\ u \in opened'[p]
             /\ pc'[u] = "commit" => disk'[p] = req'[u].content
             /\ pc'[u] = "runlog" => InTable(p)' = req'[u].content
             /\ pc'[u] = "drop" => disk'[p] = NoContent
             /\ pc'[u] \in {"rm", "drop"} => seen'[u] = file'[p]
  BY <1>1, <1>4 DEF Agreeing, Loud
<1> QED
  BY <1>1, <1>2, <1>3, <1>4 DEF Agreeing

(* A step of the one change in flight.                                     *)
LEMMA SoleAgreeing ==
  ASSUME TypeOK, Control, Calls, NEW t \in Task, Mutates(t),
         NEW p \in Path, p = req[t].path, Agreeing(p), UNCHANGED req, pc'[t] # "idle",
         \A u \in Task \ {t} : pc'[u] = pc[u] /\ seen'[u] = seen[u],
         pc'[t] \notin {"write", "commit", "drop"} => disk'[p] = InTable(p)',
         pc'[t] # "runlog" => Replayed(p)' = InTable(p)',
         pc'[t] = "write" => disk'[p] = Empty /\ t \in opened'[p],
         pc'[t] = "commit" => disk'[p] = req[t].content,
         pc'[t] = "runlog" => InTable(p)' = req[t].content,
         pc'[t] = "drop" => disk'[p] = NoContent,
         pc'[t] \in {"rm", "drop"} => seen'[t] = file'[p]
  PROVE  Agreeing(p)'
<1>1. ASSUME NEW u \in Task \ {t}, pc[u] # "idle", req[u].path = p PROVE pc[u] \notin Loud
  BY <1>1, LoudMutates DEF Agreeing
<1>2. \A u, v \in Task : Mutates(u)' /\ Mutates(v)' /\ req'[u].path = p /\ req'[v].path = p => u = v
  BY DEF Agreeing, Mutates
<1>3. Held(p, {"write", "commit", "drop"})' <=> pc'[t] \in {"write", "commit", "drop"}
  BY <1>1 DEF Held, Loud
<1>4. Held(p, {"runlog"})' <=> pc'[t] = "runlog"
  BY <1>1 DEF Held, Loud
<1>5. ASSUME NEW u \in Task, pc'[u] # "idle", req'[u].path = p
      PROVE  /\ pc'[u] = "write" => disk'[p] = Empty /\ u \in opened'[p]
             /\ pc'[u] = "commit" => disk'[p] = req'[u].content
             /\ pc'[u] = "runlog" => InTable(p)' = req'[u].content
             /\ pc'[u] = "drop" => disk'[p] = NoContent
             /\ pc'[u] \in {"rm", "drop"} => seen'[u] = file'[p]
  BY <1>1, <1>5 DEF Loud
<1> QED
  BY <1>2, <1>3, <1>4, <1>5 DEF Agreeing

(* What the places of the path hold when no change of it is half done.     *)
LEMMA SoleHolds ==
  ASSUME Control, Calls, NEW t \in Task, Mutates(t),
         NEW p \in Path, p = req[t].path, Agreeing(p)
  PROVE  /\ pc[t] \notin {"write", "commit", "drop"} => disk[p] = InTable(p)
         /\ pc[t] # "runlog" => Replayed(p) = InTable(p)
<1>1. ASSUME NEW u \in Task \ {t}, pc[u] # "idle", req[u].path = p PROVE pc[u] \notin Loud
  BY <1>1, LoudMutates DEF Agreeing
<1>2. pc[t] \notin {"write", "commit", "drop"} => ~ Held(p, {"write", "commit", "drop"})
  BY <1>1 DEF Held, Loud
<1>3. pc[t] # "runlog" => ~ Held(p, {"runlog"})
  BY <1>1 DEF Held, Loud
<1> QED
  BY <1>2, <1>3 DEF Agreeing

(* What a replica holds after an announcement, and after a step without    *)
(* one.                                                                    *)
LEMMA AnnounceReplays ==
  ASSUME TypeOK, NEW op \in {"upsert", "delete"}, NEW q \in Path, NEW c \in Content,
         Announce(op, q, c), NEW p \in Path
  PROVE  Replayed(p)' = IF p # q THEN Replayed(p) ELSE IF op = "delete" THEN NoContent ELSE c
<1> DEFINE e == [op |-> op, path |-> q, sha |-> c]
<1>1. e \in SyncEvent /\ e.path = q /\ e.op = op /\ e.sha = c
  BY DEF SyncEvent
<1>2. outbox' = Append(outbox, e) /\ outbox \in Seq(SyncEvent)
  BY DEF Announce, TypeOK
<1> HIDE DEF e
<1>3. ReplayOf(outbox', p) = IF e.path = p THEN Effect(e) ELSE ReplayOf(outbox, p)
  BY <1>1, <1>2, ReplayAppend
<1> QED
  BY <1>1, <1>3, ReplayedIs, ReplayedIsNext DEF Effect

LEMMA SilentReplays ==
  ASSUME UNCHANGED outbox, NEW p \in Path
  PROVE  Replayed(p)' = Replayed(p)
BY ReplayedIs, ReplayedIsNext

(* A row upserted has the content of the request.                          *)
LEMMA UpsertRowTyped ==
  ASSUME TypeOK, NEW t \in Task, req[t].path \in Path, req[t].content \in Content, UpsertRow(t)
  PROVE  LET p == req[t].path IN file'[p] \in FileRow /\ file'[p].sha = req[t].content
<1>1. nextId \in FileId /\ (file[req[t].path] # NoFile => file[req[t].path].id \in FileId)
  BY DEF TypeOK, FileRow
<1> QED
  BY <1>1 DEF UpsertRow, TypeOK, FileRow

(* The steps of a write, on a clean path.                                  *)
LEMMA WriteAgrees ==
  ASSUME TypeOK, Control, Calls, NEW t \in Task, WriteStep(t),
         NEW p \in Path, clean'[p], CleanAgree
  PROVE  Agreeing(p)'
<1> DEFINE q == req[t].path
<1> USE DEF Goto, Answer, AfterWrite, store, history
<1>1. /\ Mutates(t) /\ q \in Path /\ req[t].content \in Content
      /\ \A u \in Task \ {t} : pc'[u] = pc[u] /\ seen'[u] = seen[u]
      /\ UNCHANGED req /\ pc[t] # "idle" /\ pc'[t] # "idle"
  <2>1. req[t] \in WriteRequest
    BY RequestFields DEF WriteStep, WriteBegin, BlobOpen, BlobWrite, BlobInsert, CopyOpen, CopyWrite,
       Commit, CommitUnannounced, RunLogged, Control, WritePc
  <2> QED
    BY <2>1, WriteRequestFields DEF Mutates, WriteStep, WriteBegin, BlobOpen, BlobWrite, BlobInsert,
       CopyOpen, CopyWrite, Commit, CommitUnannounced, RunLogged, TypeOK
<1>2. clean[p] /\ Agreeing(p)
  BY <1>1 DEF CleanAgree, WriteStep, WriteBegin, BlobOpen, BlobWrite, BlobInsert, CopyOpen, CopyWrite,
     Commit, CommitUnannounced, RunLogged, TypeOK
<1>3. CASE WriteBegin(t) \/ BlobOpen(t) \/ BlobWrite(t) \/ BlobInsert(t)
  <2>1. /\ UNCHANGED <<file, disk, outbox, opened>>
        /\ pc[t] \notin Loud /\ pc'[t] \notin Loud
    BY <1>3 DEF WriteBegin, BlobOpen, BlobWrite, BlobInsert, Loud, TypeOK
  <2> QED
    BY <1>1, <1>2, <2>1, SilentReplays, StillAgreeing
<1>4. CASE q # p
  <2>1. /\ file'[p] = file[p] /\ disk'[p] = disk[p] /\ opened'[p] = opened[p]
    BY <1>1, <1>4 DEF WriteStep, WriteBegin, BlobOpen, BlobWrite, BlobInsert, CopyOpen, CopyWrite,
       Commit, CommitUnannounced, RunLogged, UpsertRow, TypeOK
  <2>2. UNCHANGED outbox \/ Announce("upsert", q, req[t].content)
    BY DEF WriteStep, WriteBegin, BlobOpen, BlobWrite, BlobInsert, CopyOpen, CopyWrite,
       Commit, CommitUnannounced, RunLogged
  <2>3. Replayed(p)' = Replayed(p)
    BY <1>1, <1>4, <2>2, SilentReplays, AnnounceReplays
  <2> QED
    BY <1>1, <1>2, <1>4, <2>1, <2>3, StillAgreeing
<1>5. CASE q = p /\ CopyOpen(t)
  <2>1. /\ pc[t] = "open" /\ pc'[t] = "write" /\ disk'[p] = Empty /\ t \in opened'[p]
        /\ UNCHANGED <<file, outbox>>
    BY <1>1, <1>5 DEF CopyOpen, TypeOK
  <2>2. Replayed(p)' = InTable(p)'
    BY <1>1, <1>2, <1>5, <2>1, SoleHolds, SilentReplays DEF InTable
  <2> QED
    BY <1>1, <1>2, <1>5, <2>1, <2>2, SoleAgreeing
<1>6. CASE q = p /\ CopyWrite(t)
  <2>1. disk[p] = Empty /\ t \in opened[p]
    BY <1>1, <1>2, <1>6 DEF CopyWrite, Agreeing
  <2>2. /\ pc[t] = "write" /\ pc'[t] = "commit" /\ disk'[p] = req[t].content
        /\ UNCHANGED <<file, outbox>>
    BY <1>1, <1>6, <2>1 DEF CopyWrite, TypeOK
  <2>3. Replayed(p)' = InTable(p)'
    BY <1>1, <1>2, <1>6, <2>2, SoleHolds, SilentReplays DEF InTable
  <2> QED
    BY <1>1, <1>2, <1>6, <2>2, <2>3, SoleAgreeing
<1>7. CASE q = p /\ Commit(t)
  <2>1. disk[p] = req[t].content /\ UNCHANGED disk /\ pc'[t] \in {"runlog", "ingest", "reply"}
    BY <1>1, <1>2, <1>7 DEF Commit, Agreeing, TypeOK
  <2>2. InTable(p)' = req[t].content
    <3>1. file'[p].sha = req[t].content /\ file'[p] \in FileRow
      BY <1>1, <1>7, UpsertRowTyped DEF Commit
    <3> QED
      BY <3>1, Sentinels DEF InTable
  <2>3. pc'[t] # "runlog" => Replayed(p)' = req[t].content
    BY <1>1, <1>7, AnnounceReplays DEF Commit, TypeOK
  <2> QED
    BY <1>1, <1>2, <1>7, <2>1, <2>2, <2>3, SoleAgreeing
<1>8. CASE q = p /\ RunLogged(t)
  <2>1. disk[p] = InTable(p) /\ InTable(p) = req[t].content
    BY <1>1, <1>2, <1>8, SoleHolds DEF RunLogged, Agreeing
  <2>2. UNCHANGED <<file, disk>> /\ pc'[t] \in {"ingest", "reply"}
    BY <1>8 DEF RunLogged, TypeOK
  <2>3. Replayed(p)' = req[t].content /\ InTable(p)' = InTable(p)
    BY <1>1, <1>8, <2>2, AnnounceReplays DEF RunLogged, InTable
  <2> QED
    BY <1>1, <1>2, <1>8, <2>1, <2>2, <2>3, SoleAgreeing
<1>9. CASE q = p /\ CommitUnannounced(t)
  BY <1>1, <1>9 DEF CommitUnannounced, TypeOK
<1> QED
  BY <1>3, <1>4, <1>5, <1>6, <1>7, <1>8, <1>9 DEF WriteStep

(* The row a delete drops is the one under its path, if any.               *)
LEMMA DropElsewhere ==
  ASSUME Control, Ids, NEW t \in Task, pc[t] = "drop", DropRow(t), NEW p \in Path, req[t].path # p
  PROVE  file'[p] = file[p]
<1>1. seen[t] # NoFile
  BY Sentinels DEF Control
<1> QED
  BY <1>1 DEF DropRow, Ids

LEMMA DeleteAgrees ==
  ASSUME TypeOK, Control, Calls, Ids, NEW t \in Task, DeleteStep(t),
         NEW p \in Path, clean'[p], CleanAgree
  PROVE  Agreeing(p)'
<1> DEFINE q == req[t].path
<1> USE DEF Goto, Answer, store, history
<1>1. /\ Mutates(t) /\ q \in Path /\ clean[p]
      /\ \A u \in Task \ {t} : pc'[u] = pc[u] /\ seen'[u] = seen[u]
      /\ UNCHANGED req /\ pc[t] # "idle" /\ pc'[t] # "idle"
  <2>1. req[t] \in Request /\ req[t].op = "delete"
    BY DEF DeleteStep, DeleteBegin, RemoveCopy, Drop, Control, Calls
  <2> QED
    BY <2>1, RequestFields DEF Mutates, DeleteStep, DeleteBegin, RemoveCopy, Drop, TypeOK
<1>2. Agreeing(p)
  BY <1>1 DEF CleanAgree
<1>3. CASE q # p
  <2>1. file'[p] = file[p] /\ disk'[p] = disk[p] /\ opened'[p] = opened[p]
    BY <1>1, <1>3, DropElsewhere DEF DeleteStep, DeleteBegin, RemoveCopy, Drop, TypeOK
  <2>2. seen[t].sha \in Content \/ UNCHANGED outbox
    BY DEF DeleteStep, DeleteBegin, RemoveCopy, Drop, Control, FileRow
  <2>3. UNCHANGED outbox \/ Announce("delete", q, seen[t].sha)
    BY DEF DeleteStep, DeleteBegin, RemoveCopy, Drop
  <2>4. Replayed(p)' = Replayed(p)
    BY <1>1, <1>3, <2>2, <2>3, SilentReplays, AnnounceReplays
  <2> QED
    BY <1>1, <1>2, <1>3, <2>1, <2>4, StillAgreeing
<1>4. CASE q = p /\ DeleteBegin(t)
  <2>1. /\ disk[p] = InTable(p) /\ Replayed(p) = InTable(p)
        /\ UNCHANGED <<file, disk, outbox>> /\ pc'[t] \in {"reply", "rm"}
        /\ pc'[t] = "rm" => seen'[t] = file[p]
    BY <1>1, <1>2, <1>4, SoleHolds DEF DeleteBegin, TypeOK
  <2>2. Replayed(p)' = InTable(p)' /\ disk'[p] = InTable(p)'
    BY <2>1, SilentReplays DEF InTable
  <2> QED
    BY <1>1, <1>2, <1>4, <2>1, <2>2, SoleAgreeing
<1>5. CASE q = p /\ RemoveCopy(t)
  <2>1. /\ Replayed(p) = InTable(p) /\ UNCHANGED <<file, outbox>>
        /\ pc'[t] = "drop" /\ disk'[p] = NoContent
        /\ seen'[t] = file[p]
    BY <1>1, <1>2, <1>5, SoleHolds DEF RemoveCopy, TypeOK, Agreeing
  <2>2. Replayed(p)' = InTable(p)'
    BY <2>1, SilentReplays DEF InTable
  <2> QED
    BY <1>1, <1>2, <1>5, <2>1, <2>2, SoleAgreeing
<1>6. CASE q = p /\ Drop(t)
  <2>1. seen[t] = file[p] /\ disk[p] = NoContent /\ seen[t] # NoFile /\ seen[t].sha \in Content
    BY <1>1, <1>2, <1>6, Sentinels DEF Drop, Agreeing, Control, FileRow
  <2>2. file'[p] = NoFile /\ UNCHANGED disk /\ pc'[t] = "reply"
    BY <1>6, <2>1 DEF Drop, DropRow, TypeOK
  <2>3. Replayed(p)' = NoContent /\ InTable(p)' = NoContent
    BY <1>1, <1>6, <2>1, <2>2, AnnounceReplays DEF Drop, InTable
  <2> QED
    BY <1>1, <1>2, <1>6, <2>1, <2>2, <2>3, SoleAgreeing
<1> QED
  BY <1>3, <1>4, <1>5, <1>6 DEF DeleteStep

(* A restart leaves a clean path with no change of it in flight.           *)
LEMMA RestartAgrees ==
  ASSUME TypeOK, Control, Calls, Restart, UNCHANGED outbox, NEW p \in Path, clean'[p],
         CleanAgree, file'[p] = file[p]
  PROVE  Agreeing(p)'
<1>1. clean[p] /\ ~ \E t \in Task : Mutates(t) /\ req[t].path = p
  BY DEF Restart
<1>2. ~ Held(p, {"write", "commit", "drop"}) /\ ~ Held(p, {"runlog"})
  BY <1>1, LoudMutates DEF Held, Loud
<1>3. disk[p] = InTable(p) /\ Replayed(p) = InTable(p)
  BY <1>1, <1>2 DEF CleanAgree, Agreeing
<1>4. disk'[p] = InTable(p)' /\ Replayed(p)' = InTable(p)'
  BY <1>3, SilentReplays DEF Restart, InTable
<1> QED
  BY <1>4 DEF Restart, Agreeing, Mutates

(* Every step keeps the clean paths agreeing.                              *)
LEMMA NextAgrees == TypeOK /\ Control /\ Calls /\ Ids /\ CleanAgree /\ [Next]_vars => CleanAgree'
<1> SUFFICES ASSUME TypeOK, Control, Calls, Ids, CleanAgree, [Next]_vars, NEW p \in Path, clean'[p]
             PROVE  Agreeing(p)'
  BY DEF CleanAgree
<1> USE DEF Goto, Answer, store, history
<1>1. ASSUME UNCHANGED <<file, disk, outbox>>, clean[p],
             NEW t \in Task, UNCHANGED opened, UNCHANGED req, pc[t] # "idle",
             pc[t] \notin Loud, NEW label \in Suspended \ Loud, label # "idle",
             pc' = [pc EXCEPT ![t] = label], \A u \in Task \ {t} : seen'[u] = seen[u]
      PROVE  Agreeing(p)'
  <2>1. Agreeing(p)
    BY <1>1 DEF CleanAgree
  <2>2. pc'[t] = label /\ \A u \in Task \ {t} : pc'[u] = pc[u]
    BY <1>1 DEF TypeOK
  <2> QED
    BY <1>1, <2>1, <2>2, SilentReplays, StillAgreeing
<1>2. ASSUME NEW t \in Task, NEW r \in Request, Submit(t, r) PROVE Agreeing(p)'
  <2>1. /\ clean[p] /\ Agreeing(p) /\ pc[t] = "idle" /\ pc'[t] = "begin" /\ req'[t] = r
        /\ \A u \in Task \ {t} : pc'[u] = pc[u] /\ seen'[u] = seen[u] /\ req'[u] = req[u]
        /\ UNCHANGED <<file, disk, opened, outbox>>
        /\ r.path = p /\ r.op \in {"write", "delete"} => ~ \E u \in Task : Mutates(u) /\ req[u].path = p
    BY <1>2 DEF Submit, CleanAgree, TypeOK
  <2>2. \A u, v \in Task : Mutates(u)' /\ Mutates(v)' /\ req'[u].path = p /\ req'[v].path = p => u = v
    BY <2>1 DEF Agreeing, Mutates
  <2>3. /\ Held(p, {"write", "commit", "drop"})' = Held(p, {"write", "commit", "drop"})
        /\ Held(p, {"runlog"})' = Held(p, {"runlog"})
    BY <2>1 DEF Held
  <2>4. Replayed(p)' = Replayed(p) /\ InTable(p)' = InTable(p)
    BY <2>1, SilentReplays DEF InTable
  <2> QED
    BY <2>1, <2>2, <2>3, <2>4 DEF Agreeing
<1>3. ASSUME NEW t \in Task, Reply(t) PROVE Agreeing(p)'
  <2>1. /\ clean[p] /\ Agreeing(p) /\ pc[t] = "reply" /\ pc'[t] = "idle"
        /\ \A u \in Task \ {t} : pc'[u] = pc[u] /\ seen'[u] = seen[u] /\ req'[u] = req[u]
        /\ UNCHANGED <<file, disk, opened, outbox>>
    BY <1>3 DEF Reply, CleanAgree, TypeOK
  <2>2. \A u, v \in Task : Mutates(u)' /\ Mutates(v)' /\ req'[u].path = p /\ req'[v].path = p => u = v
    BY <2>1 DEF Agreeing, Mutates
  <2>3. /\ Held(p, {"write", "commit", "drop"})' = Held(p, {"write", "commit", "drop"})
        /\ Held(p, {"runlog"})' = Held(p, {"runlog"})
    BY <2>1 DEF Held
  <2>4. Replayed(p)' = Replayed(p) /\ InTable(p)' = InTable(p)
    BY <2>1, SilentReplays DEF InTable
  <2> QED
    BY <2>1, <2>2, <2>3, <2>4 DEF Agreeing
<1>4. ASSUME NEW t \in Task, Refuse(t) PROVE Agreeing(p)'
  BY <1>1, <1>4 DEF Refuse, Suspended, Loud
<1>5. ASSUME NEW t \in Task, AwaitFails(t) PROVE Agreeing(p)'
  <2>1. /\ clean[p] /\ pc[t] # "idle" /\ pc'[t] = "reply" /\ req[t].path \in Path
        /\ \A u \in Task \ {t} : pc'[u] = pc[u]
        /\ UNCHANGED <<file, disk, outbox, req, seen>>
        /\ req[t].path # p \/ pc[t] \notin Loud \ {"rm"}
    BY <1>5, RequestFields DEF AwaitFails, Control, Loud, TypeOK
  <2>2. /\ \A u \in Task \ {t} : u \in opened[p] => u \in opened'[p]
        /\ req[t].path # p => opened'[p] = opened[p]
    BY <1>5, <2>1 DEF AwaitFails, TypeOK
  <2> QED
    BY <2>1, <2>2, SilentReplays, StillAgreeing DEF CleanAgree, Loud
<1>6. ASSUME NEW t \in Task, IngestStep(t) PROVE Agreeing(p)'
  BY <1>1, <1>6 DEF IngestStep, IngestBegin, InsertNode, LinkNode, IngestEnd, Suspended, Loud, TypeOK
<1>7. ASSUME NEW t \in Task, ReadStep(t) PROVE Agreeing(p)'
  BY <1>1, <1>7 DEF ReadStep, ReadBegin, ReadBlob, Suspended, Loud, TypeOK
<1>8. CASE Crash
  BY <1>8, RestartAgrees DEF Crash
<1>9. ASSUME NEW t \in Task, CrashInCommit(t) PROVE Agreeing(p)'
  <2>1. req[t].path # p
    BY <1>9, LoudMutates DEF CrashInCommit, Restart, Loud
  <2>2. file'[p] = file[p]
    BY <1>9, <2>1 DEF CrashInCommit, UpsertRow, TypeOK
  <2> QED
    BY <1>9, <2>2, RestartAgrees DEF CrashInCommit
<1>10. ASSUME NEW t \in Task, CrashInDrop(t) PROVE Agreeing(p)'
  <2>1. req[t].path # p
    BY <1>10, LoudMutates DEF CrashInDrop, Restart, Loud
  <2>2. file'[p] = file[p]
    BY <1>10, <2>1, DropElsewhere DEF CrashInDrop
  <2> QED
    BY <1>10, <2>2, RestartAgrees DEF CrashInDrop
<1>11. CASE UNCHANGED vars
  <2>1. Replayed(p)' = Replayed(p)
    BY <1>11, SilentReplays DEF vars
  <2> QED
    BY <1>11, <2>1 DEF vars, CleanAgree, Agreeing, Held, Mutates, InTable
<1> QED
  BY <1>2, <1>3, <1>4, <1>5, <1>6, <1>7, <1>8, <1>9, <1>10, <1>11, WriteAgrees, DeleteAgrees DEF Next

(* Where no two changes of a path overlapped and none broke off halfway,   *)
(* table, copy and announced changes agree whenever the path is at rest.   *)
THEOREM PathsAgree == Spec => []CleanPathsAgree
<1>1. Init => CleanAgree
  <2> SUFFICES ASSUME Init, NEW p \in Path PROVE Agreeing(p)
    BY DEF CleanAgree
  <2>1. disk[p] = InTable(p) /\ \A t \in Task : pc[t] = "idle"
    BY DEF Init
  <2>2. Replayed(p) = InTable(p)
    <3>1. CASE file = [q \in Path |-> NoFile] /\ outbox = <<>>
      <4>1. LastChange(outbox, p) = 0
        BY <3>1 DEF LastChange, Changes
      <4> QED
        BY <3>1, <4>1, ReplayedIs DEF ReplayOf, InTable
    <3>2. ASSUME NEW h \in Path, NEW c \in Content,
                 file = [q \in Path |-> IF q = h THEN [id |-> 1, sha |-> c] ELSE NoFile],
                 outbox = <<[op |-> "upsert", path |-> h, sha |-> c]>>
          PROVE  Replayed(p) = InTable(p)
      <4> DEFINE e == [op |-> "upsert", path |-> h, sha |-> c]
      <4>1. e \in SyncEvent /\ e.path = h /\ Effect(e) = c
        BY DEF SyncEvent, Effect
      <4>2. outbox = Append(<<>>, e) /\ <<>> \in Seq(SyncEvent)
        BY <3>2
      <4>3. ReplayOf(<<>>, p) = NoContent
        BY DEF ReplayOf, LastChange, Changes
      <4> HIDE DEF e
      <4>4. ReplayOf(outbox, p) = IF h = p THEN c ELSE NoContent
        BY <4>1, <4>2, <4>3, ReplayAppend
      <4>5. [id |-> 1, sha |-> c] \in FileRow
        BY DEF FileRow, FileId
      <4> QED
        BY <3>2, <4>4, <4>5, ReplayedIs, Sentinels DEF InTable
    <3> QED
      BY <3>1, <3>2 DEF Init
  <2> QED
    BY <2>1, <2>2 DEF Agreeing, Mutates
<1>2. RefInv /\ CleanAgree /\ [Next]_vars => CleanAgree'
  BY NextAgrees DEF RefInv, Inv
<1>3. CleanAgree => CleanPathsAgree
  <2> SUFFICES ASSUME NEW p \in Path, AtRest(p), Agreeing(p)
               PROVE  disk[p] = InTable(p) /\ Replayed(p) = InTable(p)
    BY DEF CleanAgree, CleanPathsAgree
  <2> QED
    BY DEF Agreeing, AtRest, Held
<1> QED
  BY <1>1, <1>2, <1>3, CallInvariance, PTL DEF Spec

=============================================================================
