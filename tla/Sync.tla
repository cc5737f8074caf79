-------------------------------- MODULE Sync --------------------------------
(***************************************************************************)
(* Replication of files between replicas of one workspace (class VeriFS,   *)
(* packages/core/src/index.ts).  Each replica logs its changes in its      *)
(* sync_events table, pushes the oldest rows to a shared store, and pulls  *)
(* everything the store holds, its own events included.  A pulled event is *)
(* applied, or becomes a conflict record that somebody resolves later.     *)
(*                                                                         *)
(* Only the rows about files matter to a pull.  What a handler does        *)
(* between two awaits is one action; the steps of one write are those of   *)
(* module FileStore, and only its last await, before the row changes, is   *)
(* kept here.                                                              *)
(***************************************************************************)
EXTENDS Naturals, Sequences, SequencesExt

CONSTANTS
  Replica,      \* copies of the workspace, each with its own database
  Name,         \* file paths, normalised
  Text,         \* file texts; a text stands for its SHA-256 too
  Guarded,      \* protected paths: those of createWorkspace
  Blank,        \* the empty text
  HashText,     \* a text that spells a SHA-256
  Task,         \* pulls and resolutions that may be in flight together
  PushLimit,    \* rows one push sends (1000 in the code)
  MaxRequests,  \* bound on requests, of whatever kind
  NoRow

ASSUME SyncAssumption ==
  /\ Guarded \subseteq Name
  /\ {Blank, HashText} \subseteq Text /\ Blank # HashText
  /\ PushLimit \in Nat \ {0}
  /\ MaxRequests \in Nat
  /\ NoRow \notin [id : Nat \ {0}, text : Text]

VARIABLES
  table,      \* replica -> path -> the files row
  events,     \* replica -> rows of sync_events about files, oldest first
  hub,        \* what the replicas pushed to the SyncStore
  conflicts,  \* replica -> rows of conflict_records, oldest first
  copies,     \* replica -> texts kept under /conflicts
  cursor,     \* replica -> the dates its sync_cursors row carries
  job,        \* task -> the pull or resolution it runs
  fresh,      \* next random file id
  requests    \* requests so far

syncVars == <<table, events, hub, conflicts, copies, cursor, job, fresh, requests>>
world == <<hub, fresh, requests>>

Row == [id : Nat \ {0}, text : Text]
\* "full" tells whether the payload carries a content_base64 that is not "".
Event == [op : {"upsert", "remote_applied", "delete"}, id : Nat \ {0}, name : Name,
          text : Text, full : BOOLEAN]
Conflict == [event : Event,
             kind : {"protected_path_conflict", "same_file_changed"},
             status : {"unresolved", "resolved_local", "resolved_remote", "resolved_manual"}]

Resting == [op |-> "rest"]
Pulling == [op : {"pull"}, at : {"next", "uploading", "removing"}, r : Replica,
            todo : Seq(Event), found : Row \cup {NoRow}]
Resolving == [op : {"resolve"}, r : Replica, n : Nat \ {0},
              mode : {"keep_remote", "keep_both", "manual_merge"}, merged : Text]

SyncTypeOK ==
  /\ table \in [Replica -> [Name -> Row \cup {NoRow}]]
  /\ events \in [Replica -> Seq(Event)]
  /\ hub \in Seq(Event)
  /\ conflicts \in [Replica -> Seq(Conflict)]
  /\ copies \in [Replica -> SUBSET (Name \X Text)]
  /\ cursor \in [Replica -> SUBSET {"pushed", "pulled"}]
  /\ job \in [Task -> {Resting} \cup Pulling \cup Resolving]
  /\ fresh \in Nat \ {0} /\ requests \in 0 .. MaxRequests

---------------------------------------------------------------------------
(* What a write and a delete do to the row and to the log.                 *)

ProtectsNothing(p) == FALSE

Protects(p) == p \in Guarded

Stored(r, p, s) == [id |-> IF table[r][p] = NoRow THEN fresh ELSE table[r][p].id, text |-> s]

\* The event a change of the row is logged as.
Logged(op, row, p) ==
  [op |-> op, id |-> row.id, name |-> p, text |-> row.text,
   full |-> op = "upsert" /\ row.text # Blank]

\* The store may hold an event of a replica that is not modelled.
SyncInit ==
  /\ table = [r \in Replica |-> [p \in Name |-> NoRow]]
  /\ events = [r \in Replica |-> <<>>]
  /\ \/ hub = <<>>
     \/ \E op \in {"upsert", "delete"}, s \in Text, p \in Name :
          hub = <<Logged(op, [id |-> 1, text |-> s], p)>>
  /\ conflicts = [r \in Replica |-> <<>>]
  /\ copies = [r \in Replica |-> {}]
  /\ cursor = [r \in Replica |-> {}]
  /\ job = [t \in Task |-> Resting]
  /\ fresh = 2 /\ requests = 0

\* The row at p takes the text; the log gets its event, then the events given.
Put(r, p, s, more) ==
  /\ table' = [table EXCEPT ![r][p] = Stored(r, p, s)]
  /\ events' = [events EXCEPT ![r] = Append(@, Logged("upsert", Stored(r, p, s), p)) \o more]
  /\ fresh' = IF table[r][p] = NoRow THEN fresh + 1 ELSE fresh

Drop(r, p, row) ==
  /\ table' = [table EXCEPT ![r][p] = IF @ = NoRow \/ @.id # row.id THEN @ ELSE NoRow]
  /\ events' = [events EXCEPT ![r] = Append(@, Logged("delete", row, p))]

\* A caller with the allow flag may write, or delete, protected paths.
Write(r, p, s, allow) ==
  /\ requests < MaxRequests
  /\ Protects(p) => allow
  /\ Put(r, p, s, <<>>)
  /\ requests' = requests + 1
  /\ UNCHANGED <<hub, conflicts, copies, cursor, job>>

Erase(r, p, allow) ==
  /\ requests < MaxRequests
  /\ table[r][p] # NoRow
  /\ Protects(p) => allow
  /\ Drop(r, p, table[r][p])
  /\ requests' = requests + 1
  /\ UNCHANGED <<hub, conflicts, copies, cursor, job, fresh>>

---------------------------------------------------------------------------
ListSyncEvents(r, limit) ==
  SubSeq(events[r], 1, IF Len(events[r]) < limit THEN Len(events[r]) ELSE limit)

(* syncPush sends the oldest rows again each time: nothing records what    *)
(* was sent before, and the rows after the limit are never sent.           *)
Push(r) ==
  /\ requests < MaxRequests
  /\ requests' = requests + 1
  /\ hub' = hub \o ListSyncEvents(r, PushLimit)
  /\ cursor' = [cursor EXCEPT ![r] = @ \cup {"pushed"}]
  /\ UNCHANGED <<table, events, conflicts, copies, job, fresh>>

\* syncPull asks the store for every event it holds.
Pull(t, r) ==
  /\ requests < MaxRequests
  /\ job[t] = Resting
  /\ requests' = requests + 1
  /\ job' = [job EXCEPT ![t] = [op |-> "pull", at |-> "next", r |-> r, todo |-> hub, found |-> NoRow]]
  /\ UNCHANGED <<table, events, hub, conflicts, copies, cursor, fresh>>

At(t, place) == job[t].op = "pull" /\ job[t].at = place

OpenOrResolved(r, id) == \E c \in ToSet(conflicts[r]) : c.event.id = id

Open(r, id) == \E c \in ToSet(conflicts[r]) : c.status = "unresolved" /\ c.event.id = id

CreateAlways(r, e, kind) ==
  conflicts' = [conflicts EXCEPT ![r] =
    Append(@, [event |-> e, kind |-> kind, status |-> "unresolved"])]

\* createConflict: an unresolved record of the same object stands for the
\* new event too, and keeps the event it has.
CreateConflict(r, e, kind) ==
  conflicts' = [conflicts EXCEPT ![r] =
    IF Open(r, e.id) THEN @ ELSE Append(@, [event |-> e, kind |-> kind, status |-> "unresolved"])]

ConflictOfProtectedOnly(r, e) ==
  {kind \in {"protected_path_conflict"} :
     Protects(e.name) /\ (e.op = "delete" => table[r][e.name] # NoRow)}

\* conflictForRemoteFile, and the check syncPull makes of a delete.
ConflictKinds(r, e) ==
  LET local == table[r][e.name] IN
  {kind \in {"protected_path_conflict", "same_file_changed"} :
     CASE Protects(e.name) -> kind = "protected_path_conflict" /\ (e.op = "delete" => local # NoRow)
       [] OTHER -> kind = "same_file_changed" /\ e.op # "delete" /\ local # NoRow /\ local.text # e.text}

NextEvent(t) == [job EXCEPT ![t].todo = Tail(@), ![t].at = "next", ![t].found = NoRow]

\* The next event is in conflict with the local file: it is put aside.
PutAside(t) ==
  /\ At(t, "next") /\ job[t].todo # <<>>
  /\ LET e == Head(job[t].todo) IN
       \E kind \in ConflictKinds(job[t].r, e) : CreateConflict(job[t].r, e, kind)
  /\ job' = NextEvent(t)
  /\ UNCHANGED <<table, events, copies, cursor, world>>

\* Otherwise it is applied: the upload or the removal is awaited.  The row
\* found is what the pull has seen of the file.  A delete of a file that is
\* not there is skipped.
Apply(t) ==
  /\ At(t, "next") /\ job[t].todo # <<>>
  /\ LET e == Head(job[t].todo)
         local == table[job[t].r][e.name] IN
       /\ ConflictKinds(job[t].r, e) = {}
       /\ job' = IF e.op # "delete" THEN [job EXCEPT ![t].at = "uploading", ![t].found = local]
                 ELSE IF local # NoRow THEN [job EXCEPT ![t].at = "removing", ![t].found = local]
                 ELSE NextEvent(t)
  /\ UNCHANGED <<table, events, conflicts, copies, cursor, world>>

\* applyRemoteFileEvent writes the bytes of content_base64 and, where that is
\* missing (a delete) or "" (an empty file), the text of the hash.
Received(e) == IF e.full THEN e.text ELSE HashText

\* The upload ends; a second event repeats the remote one under its own id,
\* with the payload it came with.
FinishUpload(t) ==
  /\ At(t, "uploading")
  /\ LET e == Head(job[t].todo) IN
       Put(job[t].r, e.name, Received(e), <<[e EXCEPT !.op = "remote_applied"]>>)
  /\ job' = NextEvent(t)
  /\ UNCHANGED <<hub, conflicts, copies, cursor, requests>>

FinishRemoval(t) ==
  /\ At(t, "removing")
  /\ Drop(job[t].r, Head(job[t].todo).name, job[t].found)
  /\ job' = NextEvent(t)
  /\ UNCHANGED <<conflicts, copies, cursor, world>>

EndPull(t) ==
  /\ At(t, "next") /\ job[t].todo = <<>>
  /\ cursor' = [cursor EXCEPT ![job[t].r] = @ \cup {"pulled"}]
  /\ job' = [job EXCEPT ![t] = Resting]
  /\ UNCHANGED <<table, events, conflicts, copies, world>>

\* A write that fails ends the handler; what it did before stays done.
Abort(t) ==
  /\ \/ At(t, "uploading") \/ At(t, "removing") \/ job[t].op = "resolve"
  /\ job' = [job EXCEPT ![t] = Resting]
  /\ UNCHANGED <<table, events, conflicts, copies, cursor, world>>

---------------------------------------------------------------------------
(* resolveConflict looks at the status before its await and sets it after. *)

SettleAsAsked(r, n, status) ==
  conflicts' = [conflicts EXCEPT ![r][n].status = IF status = "resolved_local" THEN "keep_local" ELSE status]

Settle(r, n, status) == conflicts' = [conflicts EXCEPT ![r][n].status = status]

KeepLocal(r, n) ==
  /\ requests < MaxRequests
  /\ n \in DOMAIN conflicts[r] /\ conflicts[r][n].status = "unresolved"
  /\ requests' = requests + 1
  /\ Settle(r, n, "resolved_local")
  /\ UNCHANGED <<table, events, hub, copies, cursor, job, fresh>>

\* keep_remote, keep_both and manual_merge await a write first; manual_merge
\* is given its text.
Resolve(t, r, n, mode, merged) ==
  /\ requests < MaxRequests
  /\ job[t] = Resting
  /\ n \in DOMAIN conflicts[r] /\ conflicts[r][n].status = "unresolved"
  /\ mode # "manual_merge" => merged = Blank
  /\ requests' = requests + 1
  /\ job' = [job EXCEPT ![t] = [op |-> "resolve", r |-> r, n |-> n, mode |-> mode, merged |-> merged]]
  /\ UNCHANGED <<table, events, hub, conflicts, copies, cursor, fresh>>

FinishResolve(t) ==
  /\ job[t].op = "resolve"
  /\ LET r == job[t].r
         e == conflicts[r][job[t].n].event IN
       \/ /\ job[t].mode = "keep_remote"
          /\ Put(r, e.name, Received(e), <<[e EXCEPT !.op = "remote_applied"]>>)
          /\ Settle(r, job[t].n, "resolved_remote")
          /\ UNCHANGED copies
       \/ /\ job[t].mode = "keep_both"
          /\ copies' = [copies EXCEPT ![r] = @ \cup {<<e.name, Received(e)>>}]
          /\ Settle(r, job[t].n, "resolved_manual")
          /\ UNCHANGED <<table, events, fresh>>
       \/ /\ job[t].mode = "manual_merge"
          /\ Put(r, e.name, job[t].merged, <<>>)
          /\ Settle(r, job[t].n, "resolved_manual")
          /\ UNCHANGED copies
  /\ job' = [job EXCEPT ![t] = Resting]
  /\ UNCHANGED <<hub, cursor, requests>>

---------------------------------------------------------------------------
Continue(t) ==
  PutAside(t) \/ Apply(t) \/ FinishUpload(t) \/ FinishRemoval(t) \/ EndPull(t)

SyncNext ==
  \/ \E r \in Replica, p \in Name, s \in Text, allow \in BOOLEAN : Write(r, p, s, allow)
  \/ \E r \in Replica, p \in Name, allow \in BOOLEAN : Erase(r, p, allow)
  \/ \E r \in Replica : Push(r) \/ \E n \in DOMAIN conflicts[r] : KeepLocal(r, n)
  \/ \E t \in Task, r \in Replica : Pull(t, r)
  \/ \E t \in Task, r \in Replica, mode \in {"keep_remote", "keep_both", "manual_merge"}, s \in Text :
       \E n \in DOMAIN conflicts[r] : Resolve(t, r, n, mode, s)
  \/ \E t \in Task : Continue(t) \/ Abort(t) \/ FinishResolve(t)

---------------------------------------------------------------------------
\* The step is the one with which the pull t is done with its next event.
Passes(t) ==
  /\ job[t].op = "pull" /\ job[t].todo # <<>>
  /\ job'[t].op = "pull" /\ job'[t].todo = Tail(job[t].todo)

(* At most one unresolved conflict record stands for one object, however   *)
(* many pulls and resolutions run together (createConflict).               *)
OneOpenConflict ==
  \A r \in Replica : \A m, n \in DOMAIN conflicts[r] :
    /\ conflicts[r][m].status = "unresolved" /\ conflicts[r][n].status = "unresolved"
    /\ conflicts[r][m].event.id = conflicts[r][n].event.id
    => m = n

\* The pull's upload put no other text in place of one that it had seen and
\* that nobody changed since.
Spares(t) ==
  LET r == job[t].r
      p == Head(job[t].todo).name IN
  \/ table[r][p] = NoRow
  \/ table[r][p] # job[t].found
  \/ table'[r][p].text = table[r][p].text

(* A pull of an event that carries its text replaces a local text by       *)
(* another only if the file changed while the pull was writing: what       *)
(* conflictForRemoteFile saw is never overwritten without a conflict       *)
(* record.  An event that carries none, of an empty file or of a removal   *)
(* that a resolution applied, is outside: see AppliedWhenSafe.             *)
NoSilentOverwrite ==
  [][\A t \in Task :
       At(t, "uploading") /\ Passes(t) => Spares(t) \/ ~Head(job[t].todo).full]_syncVars

(* "Pull applies remote events when safe" (docs/architecture.md): what the *)
(* pull saw is never overwritten without a conflict record, whatever the   *)
(* event.  applyRemoteFileEvent breaks it: it takes the "" of an empty     *)
(* file for a missing content and writes the text of the hash.             *)
AppliedWhenSafe ==
  [][\A t \in Task : At(t, "uploading") /\ Passes(t) => Spares(t)]_syncVars

(* Protected paths are not applied automatically (docs/sync.md): no step   *)
(* of a pull changes the row of one.                                       *)
ProtectedNotApplied ==
  [][\A t \in Task :
       job[t].op = "pull" /\ job'[t] # job[t] =>
         \A p \in Guarded : table'[job[t].r][p] = table[job[t].r][p]]_syncVars

(* A pull is never done with an event that left no trace: the file has     *)
(* what the pull writes for the event, its text or, for an event without   *)
(* content, the text of its hash; the deleted row is gone; or an           *)
(* unresolved conflict record stands for the object.                       *)
EveryEventAccounted ==
  [][\A t \in Task :
       Passes(t) =>
         LET e == Head(job[t].todo)
             r == job[t].r
             after == table'[r][e.name] IN
         \/ \E c \in ToSet(conflicts'[r]) : c.status = "unresolved" /\ c.event.id = e.id
         \/ e.op = "delete" /\ (after = NoRow \/ after # job[t].found)
         \/ e.op # "delete" /\ after # NoRow /\ after.text = Received(e)]_syncVars
=============================================================================
