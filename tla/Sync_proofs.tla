---------------------------- MODULE Sync_proofs ----------------------------
(***************************************************************************)
(* Theorems about replication, for any replicas, paths, texts, concurrent  *)
(* pulls and resolutions, and numbers of rows.                             *)
(***************************************************************************)
EXTENDS Sync, SequenceTheorems, TLAPS

SyncSpec == SyncInit /\ [][SyncNext]_syncVars

\* What a pull that awaits a write has checked: of its event, and of the row
\* it saw before the await.
Checked(j) ==
  j.op = "pull" /\ j.at # "next" =>
    /\ j.todo # <<>>
    /\ ~Protects(Head(j.todo).name)
    /\ IF j.at = "uploading"
       THEN /\ Head(j.todo).op # "delete"
            /\ j.found = NoRow \/ j.found.text = Head(j.todo).text
       ELSE Head(j.todo).op = "delete" /\ j.found # NoRow

\* A resolution is of a record that is there.
Grounded(j) == j.op = "resolve" => j.n \in DOMAIN conflicts[j.r]

SyncInv ==
  /\ SyncTypeOK
  /\ OneOpenConflict
  /\ \A t \in Task : Checked(job[t]) /\ Grounded(job[t])

-----------------------------------------------------------------------------
(* A task that pulls, or resolves, has the row of one.                     *)
LEMMA JobKinds ==
  ASSUME SyncTypeOK, NEW t \in Task
  PROVE  /\ job[t].op = "pull" => job[t] \in Pulling
         /\ job[t].op = "resolve" => job[t] \in Resolving
         /\ job[t].op = "rest" => job[t] = Resting
         /\ job[t].op \in {"pull", "resolve", "rest"}
<1>1. job[t] \in {Resting} \cup Pulling \cup Resolving
  BY DEF SyncTypeOK
<1>2. CASE job[t] = Resting
  BY <1>2 DEF Resting
<1>3. CASE job[t] \in Pulling
  BY <1>3 DEF Pulling
<1>4. CASE job[t] \in Resolving
  BY <1>4 DEF Resolving
<1> QED BY <1>1, <1>2, <1>3, <1>4

(* The row a path has, and the rows and events made from it.               *)
LEMMA RowsMade ==
  ASSUME SyncTypeOK
  PROVE  /\ \A r \in Replica, p \in Name, s \in Text : Stored(r, p, s) \in Row
         /\ \A op \in {"upsert", "delete"}, row \in Row, p \in Name : Logged(op, row, p) \in Event
         /\ \A e \in Event : [e EXCEPT !.op = "remote_applied"] \in Event
         /\ \A e \in Event : Received(e) \in Text
<1>1. ASSUME NEW r \in Replica, NEW p \in Name, NEW s \in Text PROVE Stored(r, p, s) \in Row
  <2>1. table[r][p] \in Row \cup {NoRow}
    BY DEF SyncTypeOK
  <2>2. CASE table[r][p] = NoRow
    BY <2>2 DEF Stored, Row, SyncTypeOK
  <2>3. CASE table[r][p] # NoRow
    <3>1. table[r][p].id \in Nat \ {0}
      BY <2>1, <2>3 DEF Row
    <3> QED BY <3>1, <2>3 DEF Stored, Row
  <2> QED BY <2>2, <2>3
<1>2. ASSUME NEW op \in {"upsert", "delete"}, NEW row \in Row, NEW p \in Name
      PROVE  Logged(op, row, p) \in Event
  <2>1. row.id \in Nat \ {0} /\ row.text \in Text
    BY DEF Row
  <2>2. (op = "upsert" /\ row.text # Blank) \in BOOLEAN
    OBVIOUS
  <2> QED BY <2>1, <2>2 DEF Logged, Event
<1>3. \A e \in Event : [e EXCEPT !.op = "remote_applied"] \in Event
  BY DEF Event
<1>4. \A e \in Event : Received(e) \in Text
  BY SyncAssumption DEF Received, Event
<1> QED BY <1>1, <1>2, <1>3, <1>4

(* Put writes a row of its path and no other, and events.                  *)
LEMMA PutTyped ==
  ASSUME SyncTypeOK, NEW r \in Replica, NEW p \in Name, NEW s \in Text,
         NEW more \in Seq(Event), Put(r, p, s, more)
  PROVE  /\ table' \in [Replica -> [Name -> Row \cup {NoRow}]]
         /\ events' \in [Replica -> Seq(Event)]
         /\ fresh' \in Nat \ {0}
         /\ table'[r][p] # NoRow /\ table'[r][p].text = s
         /\ \A q \in Name : q # p => table'[r][q] = table[r][q]
<1> DEFINE row == Stored(r, p, s)
           event == Logged("upsert", row, p)
<1>1. row \in Row /\ event \in Event
  BY RowsMade
<1>2. row.text = s
  BY DEF Stored
<1> HIDE DEF row, event
<1>3. table' = [table EXCEPT ![r][p] = row] /\ events' = [events EXCEPT ![r] = Append(events[r], event) \o more]
  BY DEF Put, row, event
<1>4. Append(events[r], event) \o more \in Seq(Event)
  <2>1. Append(events[r], event) \in Seq(Event)
    BY <1>1, AppendProperties DEF SyncTypeOK
  <2> QED BY <2>1, ConcatProperties
<1>5. fresh' \in Nat \ {0}
  BY DEF Put, SyncTypeOK
<1>6. table'[r][p] = row /\ \A q \in Name : q # p => table'[r][q] = table[r][q]
  BY <1>3 DEF SyncTypeOK
<1>7. table' \in [Replica -> [Name -> Row \cup {NoRow}]]
  BY <1>1, <1>3 DEF SyncTypeOK
<1>8. row # NoRow
  BY <1>1, SyncAssumption DEF Row
<1>9. events' \in [Replica -> Seq(Event)]
  BY <1>3, <1>4 DEF SyncTypeOK
<1> QED BY <1>2, <1>5, <1>6, <1>7, <1>8, <1>9

(* Drop removes at most the row it was given.                              *)
LEMMA DropTyped ==
  ASSUME SyncTypeOK, NEW r \in Replica, NEW p \in Name, NEW row \in Row, Drop(r, p, row)
  PROVE  /\ table' \in [Replica -> [Name -> Row \cup {NoRow}]]
         /\ events' \in [Replica -> Seq(Event)]
         /\ table'[r][p] = NoRow \/ table'[r][p].id # row.id
         /\ \A q \in Name : q # p => table'[r][q] = table[r][q]
<1> DEFINE after == IF table[r][p] = NoRow \/ table[r][p].id # row.id THEN table[r][p] ELSE NoRow
<1>1. after \in Row \cup {NoRow} /\ (after = NoRow \/ after.id # row.id)
  BY DEF SyncTypeOK
<1>2. table' = [table EXCEPT ![r][p] = after]
  BY DEF Drop
<1> HIDE DEF after
<1>3. Append(events[r], Logged("delete", row, p)) \in Seq(Event)
  BY RowsMade, AppendProperties DEF SyncTypeOK
<1>4. events' = [events EXCEPT ![r] = Append(events[r], Logged("delete", row, p))]
  BY DEF Drop
<1>5. events' \in [Replica -> Seq(Event)]
  BY <1>3, <1>4 DEF SyncTypeOK
<1>6. table'[r][p] = after /\ \A q \in Name : q # p => table'[r][q] = table[r][q]
  BY <1>2 DEF SyncTypeOK
<1>7. table' \in [Replica -> [Name -> Row \cup {NoRow}]]
  BY <1>1, <1>2 DEF SyncTypeOK
<1> QED BY <1>1, <1>5, <1>6, <1>7

-----------------------------------------------------------------------------
(* A new record is the only open one of its object: createConflict looked. *)
LEMMA CreateKeeps ==
  ASSUME SyncTypeOK, OneOpenConflict, NEW r \in Replica, NEW e \in Event,
         NEW kind \in {"protected_path_conflict", "same_file_changed"},
         CreateConflict(r, e, kind)
  PROVE  /\ conflicts' \in [Replica -> Seq(Conflict)]
         /\ OneOpenConflict'
         /\ \A q \in Replica : DOMAIN conflicts[q] \subseteq DOMAIN conflicts'[q]
         /\ \E c \in ToSet(conflicts'[r]) : c.status = "unresolved" /\ c.event.id = e.id
<1> DEFINE old == conflicts[r]
           new == [event |-> e, kind |-> kind, status |-> "unresolved"]
<1>1. old \in Seq(Conflict) /\ new \in Conflict
  BY DEF SyncTypeOK, Conflict
<1>2. CASE Open(r, e.id)
  <2>1. conflicts' = conflicts
    BY <1>2 DEF CreateConflict, SyncTypeOK
  <2> QED BY <1>2, <2>1 DEF OneOpenConflict, Open, SyncTypeOK
<1>3. CASE ~Open(r, e.id)
  <2>1. conflicts' = [conflicts EXCEPT ![r] = Append(old, new)]
    BY <1>3 DEF CreateConflict
  <2>2. /\ Append(old, new) \in Seq(Conflict)
        /\ Len(Append(old, new)) = Len(old) + 1
        /\ \A i \in 1 .. Len(old) : Append(old, new)[i] = old[i]
        /\ Append(old, new)[Len(old) + 1] = new
    BY <1>1, AppendProperties
  <2>3. new.status = "unresolved" /\ new.event = e
    OBVIOUS
  <2>4. \A i \in 1 .. Len(old) : ~(old[i].status = "unresolved" /\ old[i].event.id = e.id)
    BY <1>1, <1>3 DEF Open, ToSet
  <2> HIDE DEF new
  <2>5. /\ conflicts'[r] = Append(old, new)
        /\ \A q \in Replica : q # r => conflicts'[q] = conflicts[q]
        /\ conflicts' \in [Replica -> Seq(Conflict)]
    BY <2>1, <2>2 DEF SyncTypeOK
  <2>6. /\ DOMAIN old = 1 .. Len(old) /\ Len(old) \in Nat
        /\ DOMAIN conflicts'[r] = 1 .. Len(old) + 1
    BY <1>1, <2>2, <2>5, LenProperties
  <2>7. ASSUME NEW m \in DOMAIN conflicts'[r], NEW n \in DOMAIN conflicts'[r],
               conflicts'[r][m].status = "unresolved", conflicts'[r][n].status = "unresolved",
               conflicts'[r][m].event.id = conflicts'[r][n].event.id
        PROVE  m = n
    <3>1. CASE m \in 1 .. Len(old) /\ n \in 1 .. Len(old)
      BY <2>2, <2>5, <2>6, <2>7, <3>1 DEF OneOpenConflict
    <3>2. CASE m = Len(old) + 1 \/ n = Len(old) + 1
      BY <2>2, <2>3, <2>4, <2>5, <2>6, <2>7, <3>2
    <3> QED BY <2>6, <3>1, <3>2
  <2>8. OneOpenConflict'
    BY <2>5, <2>7 DEF OneOpenConflict
  <2>9. new \in ToSet(conflicts'[r])
    BY <2>2, <2>5, <2>6 DEF ToSet
  <2>10. DOMAIN old \subseteq DOMAIN conflicts'[r]
    BY <2>6
  <2>11. \A q \in Replica : DOMAIN conflicts[q] \subseteq DOMAIN conflicts'[q]
    BY <2>5, <2>10
  <2>12. \E c \in ToSet(conflicts'[r]) : c.status = "unresolved" /\ c.event.id = e.id
    BY <2>3, <2>9
  <2> QED BY <2>5, <2>8, <2>11, <2>12
<1> QED BY <1>2, <1>3

(* Settling a record leaves fewer open ones.                               *)
LEMMA SettleKeeps ==
  ASSUME SyncTypeOK, OneOpenConflict, NEW r \in Replica, NEW n \in DOMAIN conflicts[r],
         NEW status \in {"resolved_local", "resolved_remote", "resolved_manual"},
         Settle(r, n, status)
  PROVE  /\ conflicts' \in [Replica -> Seq(Conflict)]
         /\ OneOpenConflict'
         /\ \A q \in Replica : DOMAIN conflicts'[q] = DOMAIN conflicts[q]
<1> DEFINE old == conflicts[r]
           settled == [old[n] EXCEPT !.status = status]
<1>1. old \in Seq(Conflict) /\ old[n] \in Conflict
  BY DEF SyncTypeOK
<1>2. settled \in Conflict /\ settled.status = status
  BY <1>1 DEF Conflict
<1>3. conflicts' = [conflicts EXCEPT ![r] = [old EXCEPT ![n] = settled]]
  BY DEF Settle
<1> HIDE DEF settled
<1>4. [old EXCEPT ![n] = settled] \in Seq(Conflict) /\ DOMAIN [old EXCEPT ![n] = settled] = DOMAIN old
  BY <1>1, <1>2
<1>5. /\ \A m \in DOMAIN old : m # n => conflicts'[r][m] = old[m]
      /\ conflicts'[r][n].status # "unresolved"
      /\ DOMAIN conflicts'[r] = DOMAIN old
      /\ \A q \in Replica : q # r => conflicts'[q] = conflicts[q]
  BY <1>1, <1>2, <1>3 DEF SyncTypeOK
<1>6. conflicts' \in [Replica -> Seq(Conflict)]
  BY <1>3, <1>4 DEF SyncTypeOK
<1>7. OneOpenConflict'
  BY <1>5 DEF OneOpenConflict
<1> QED BY <1>5, <1>6, <1>7

-----------------------------------------------------------------------------
(* A task takes a new row that is well formed: the others keep theirs.     *)
LEMMA JobTaken ==
  ASSUME SyncInv, NEW t \in Task, NEW j \in {Resting} \cup Pulling \cup Resolving,
         job' = [job EXCEPT ![t] = j],
         Checked(j), (Grounded(j))',
         \A q \in Replica : DOMAIN conflicts[q] \subseteq DOMAIN conflicts'[q]
  PROVE  /\ job' \in [Task -> {Resting} \cup Pulling \cup Resolving]
         /\ \A u \in Task : (Checked(job[u]))' /\ (Grounded(job[u]))'
         /\ \A u \in Task : u # t => job'[u] = job[u]
         /\ job'[t] = j
<1>1. /\ job' \in [Task -> {Resting} \cup Pulling \cup Resolving]
      /\ \A u \in Task : u # t => job'[u] = job[u]
      /\ job'[t] = j
  BY DEF SyncInv, SyncTypeOK
<1>2. \A u \in Task : Checked(job'[u])
  BY <1>1 DEF SyncInv
<1>3. ASSUME NEW u \in Task PROVE (Grounded(job[u]))'
  <2>1. CASE u = t
    BY <1>1, <2>1 DEF Grounded
  <2>2. CASE u # t
    <3>1. Grounded(job[u]) /\ job'[u] = job[u]
      BY <1>1, <2>2 DEF SyncInv
    <3>2. job[u].op = "resolve" => job[u].r \in Replica
      BY JobKinds DEF SyncInv, Resolving
    <3> QED BY <3>1, <3>2 DEF Grounded
  <2> QED BY <2>1, <2>2
<1> QED BY <1>1, <1>2, <1>3 DEF Checked

(* A pull goes on to its next event.                                       *)
LEMMA NextEventRow ==
  ASSUME SyncTypeOK, NEW t \in Task, job[t] \in Pulling, job[t].todo # <<>>
  PROVE  \E j \in Pulling :
           /\ NextEvent(t) = [job EXCEPT ![t] = j]
           /\ j.op = "pull" /\ j.at = "next" /\ j.todo = Tail(job[t].todo)
<1> DEFINE j == [job[t] EXCEPT !.todo = Tail(job[t].todo), !.at = "next", !.found = NoRow]
<1>1. Tail(job[t].todo) \in Seq(Event)
  BY HeadTailProperties DEF Pulling
<1>2. j \in Pulling /\ j.op = "pull" /\ j.at = "next" /\ j.todo = Tail(job[t].todo)
  BY <1>1 DEF Pulling
<1>3. NextEvent(t) = [job EXCEPT ![t] = j]
  BY DEF NextEvent, SyncTypeOK
<1> QED BY <1>2, <1>3

(* Steps that leave the tasks alone.                                       *)
LEMMA JobsStay ==
  ASSUME SyncInv, UNCHANGED job,
         \A q \in Replica : DOMAIN conflicts[q] \subseteq DOMAIN conflicts'[q]
  PROVE  /\ job' \in [Task -> {Resting} \cup Pulling \cup Resolving]
         /\ \A u \in Task : (Checked(job[u]))' /\ (Grounded(job[u]))'
<1>1. ASSUME NEW u \in Task PROVE (Grounded(job[u]))'
  <2>1. Grounded(job[u]) /\ job'[u] = job[u]
    BY DEF SyncInv
  <2>2. job[u].op = "resolve" => job[u].r \in Replica
    BY JobKinds DEF SyncInv, Resolving
  <2> QED BY <2>1, <2>2 DEF Grounded
<1> QED BY <1>1 DEF SyncInv, SyncTypeOK, Checked

(* The variables a step may leave alone keep their types.                  *)
LEMMA Untouched ==
  ASSUME SyncTypeOK
  PROVE  /\ UNCHANGED table => table' \in [Replica -> [Name -> Row \cup {NoRow}]]
         /\ UNCHANGED events => events' \in [Replica -> Seq(Event)]
         /\ UNCHANGED hub => hub' \in Seq(Event)
         /\ UNCHANGED copies => copies' \in [Replica -> SUBSET (Name \X Text)]
         /\ UNCHANGED cursor => cursor' \in [Replica -> SUBSET {"pushed", "pulled"}]
         /\ UNCHANGED fresh => fresh' \in Nat \ {0}
         /\ UNCHANGED requests => requests' \in 0 .. MaxRequests
         /\ UNCHANGED conflicts => conflicts' \in [Replica -> Seq(Conflict)]
         /\ requests < MaxRequests /\ requests' = requests + 1 => requests' \in 0 .. MaxRequests
BY SyncAssumption DEF SyncTypeOK

LEMMA ConflictsStay ==
  ASSUME OneOpenConflict, UNCHANGED conflicts
  PROVE  OneOpenConflict' /\ \A q \in Replica : DOMAIN conflicts[q] \subseteq DOMAIN conflicts'[q]
BY DEF OneOpenConflict

-----------------------------------------------------------------------------
(* Requests of callers.                                                    *)
LEMMA RequestKeeps ==
  ASSUME SyncInv
  PROVE  /\ \A r \in Replica, p \in Name, s \in Text, allow \in BOOLEAN :
              Write(r, p, s, allow) => SyncInv'
         /\ \A r \in Replica, p \in Name, allow \in BOOLEAN : Erase(r, p, allow) => SyncInv'
         /\ \A r \in Replica : Push(r) => SyncInv'
         /\ \A r \in Replica : \A n \in DOMAIN conflicts[r] : KeepLocal(r, n) => SyncInv'
<1> USE DEF SyncInv
<1>1. ASSUME NEW r \in Replica, NEW p \in Name, NEW s \in Text, NEW allow \in BOOLEAN,
             Write(r, p, s, allow)
      PROVE  SyncInv'
  <2>1. Put(r, p, s, <<>>) /\ UNCHANGED <<hub, conflicts, copies, cursor, job>>
        /\ requests < MaxRequests /\ requests' = requests + 1
    BY <1>1 DEF Write
  <2>2. <<>> \in Seq(Event)
    OBVIOUS
  <2>3. SyncTypeOK'
    BY <2>1, <2>2, PutTyped, Untouched, JobsStay, ConflictsStay DEF SyncTypeOK
  <2> QED BY <2>1, <2>3, JobsStay, ConflictsStay
<1>2. ASSUME NEW r \in Replica, NEW p \in Name, NEW allow \in BOOLEAN, Erase(r, p, allow)
      PROVE  SyncInv'
  <2>1. table[r][p] \in Row
    BY <1>2 DEF Erase, SyncTypeOK
  <2>2. SyncTypeOK'
    BY <1>2, <2>1, DropTyped, Untouched, JobsStay, ConflictsStay DEF Erase, SyncTypeOK
  <2> QED BY <1>2, <2>2, JobsStay, ConflictsStay DEF Erase
<1>3. ASSUME NEW r \in Replica, Push(r) PROVE SyncInv'
  <2>1. ListSyncEvents(r, PushLimit) \in Seq(Event)
    <3>1. events[r] \in Seq(Event) /\ Len(events[r]) \in Nat
      BY DEF SyncTypeOK
    <3>2. \A m \in Int : m <= Len(events[r]) =>
             \A i \in 1 .. m : events[r][i] \in Event
      BY <3>1
    <3> QED BY <3>1, <3>2, SubSeqProperties, SyncAssumption DEF ListSyncEvents
  <2>2. hub' \in Seq(Event)
    BY <1>3, <2>1, ConcatProperties DEF Push, SyncTypeOK
  <2>3. cursor' \in [Replica -> SUBSET {"pushed", "pulled"}]
    BY <1>3 DEF Push, SyncTypeOK
  <2>4. SyncTypeOK'
    BY <1>3, <2>2, <2>3, Untouched, JobsStay, ConflictsStay DEF Push, SyncTypeOK
  <2> QED BY <1>3, <2>4, JobsStay, ConflictsStay DEF Push
<1>4. ASSUME NEW r \in Replica, NEW n \in DOMAIN conflicts[r], KeepLocal(r, n) PROVE SyncInv'
  <2>1. Settle(r, n, "resolved_local")
    BY <1>4 DEF KeepLocal
  <2>2. /\ conflicts' \in [Replica -> Seq(Conflict)] /\ OneOpenConflict'
        /\ \A q \in Replica : DOMAIN conflicts[q] \subseteq DOMAIN conflicts'[q]
    BY <2>1, SettleKeeps
  <2>3. SyncTypeOK'
    BY <1>4, <2>2, Untouched, JobsStay DEF KeepLocal, SyncTypeOK
  <2> QED BY <1>4, <2>2, <2>3, JobsStay DEF KeepLocal
<1> QED BY <1>1, <1>2, <1>3, <1>4
-----------------------------------------------------------------------------
(* A pull that is about to handle an event, and the event.                 *)
LEMMA NextOfPull ==
  ASSUME SyncTypeOK, NEW t \in Task, job[t].op = "pull", job[t].todo # <<>>
  PROVE  /\ job[t] \in Pulling /\ job[t].r \in Replica
         /\ Head(job[t].todo) \in Event /\ Head(job[t].todo).name \in Name
         /\ table[job[t].r][Head(job[t].todo).name] \in Row \cup {NoRow}
<1>1. job[t] \in Pulling
  BY JobKinds
<1>2. job[t].r \in Replica /\ job[t].todo \in Seq(Event)
  BY <1>1 DEF Pulling
<1>3. Head(job[t].todo) \in Event
  BY <1>2, HeadTailProperties
<1> QED BY <1>1, <1>2, <1>3 DEF Event, SyncTypeOK

(* An event put aside leaves an open record of its object.                 *)
LEMMA PutAsideKeeps ==
  ASSUME SyncInv, NEW t \in Task, PutAside(t)
  PROVE  /\ SyncInv'
         /\ UNCHANGED table
         /\ \E c \in ToSet(conflicts'[job[t].r]) :
              c.status = "unresolved" /\ c.event.id = Head(job[t].todo).id
<1> USE DEF SyncInv
<1> DEFINE e == Head(job[t].todo)
           r == job[t].r
<1>1. job[t].op = "pull" /\ job[t].todo # <<>> /\ UNCHANGED <<table, events, copies, cursor, world>>
  BY DEF PutAside, At
<1>2. job[t] \in Pulling /\ r \in Replica /\ e \in Event
  BY <1>1, NextOfPull
<1>3. PICK kind \in {"protected_path_conflict", "same_file_changed"} : CreateConflict(r, e, kind)
  BY DEF PutAside, ConflictKinds
<1>4. /\ conflicts' \in [Replica -> Seq(Conflict)] /\ OneOpenConflict'
      /\ \A q \in Replica : DOMAIN conflicts[q] \subseteq DOMAIN conflicts'[q]
      /\ \E c \in ToSet(conflicts'[r]) : c.status = "unresolved" /\ c.event.id = e.id
  BY <1>2, <1>3, CreateKeeps
<1>5. PICK j \in Pulling : job' = [job EXCEPT ![t] = j] /\ j.op = "pull" /\ j.at = "next"
  BY <1>1, <1>2, NextEventRow DEF PutAside
<1>6. Checked(j) /\ (Grounded(j))'
  BY <1>5 DEF Checked, Grounded
<1>7. /\ job' \in [Task -> {Resting} \cup Pulling \cup Resolving]
      /\ \A u \in Task : (Checked(job[u]))' /\ (Grounded(job[u]))'
  BY <1>4, <1>5, <1>6, JobTaken
<1>8. SyncTypeOK'
  BY <1>1, <1>4, <1>7, Untouched DEF SyncTypeOK, world
<1> QED BY <1>1, <1>4, <1>7, <1>8

(* What an event without a conflict lets the pull rely on.                 *)
LEMMA NoConflict ==
  ASSUME NEW r, NEW e \in Event, ConflictKinds(r, e) = {}
  PROVE  /\ e.op # "delete" => ~Protects(e.name)
         /\ e.op = "delete" /\ table[r][e.name] # NoRow => ~Protects(e.name)
         /\ e.op # "delete" => table[r][e.name] = NoRow \/ table[r][e.name].text = e.text
<1> DEFINE local == table[r][e.name]
<1>1. CASE Protects(e.name)
  <2>1. ~(e.op = "delete" => local # NoRow)
    <3>1. SUFFICES ASSUME e.op = "delete" => local # NoRow PROVE FALSE
      OBVIOUS
    <3>2. "protected_path_conflict" \in ConflictKinds(r, e)
      BY <1>1, <3>1 DEF ConflictKinds
    <3> QED BY <3>2
  <2> QED BY <2>1
<1>2. CASE ~Protects(e.name)
  <2>1. ~(e.op # "delete" /\ local # NoRow /\ local.text # e.text)
    <3>1. SUFFICES ASSUME e.op # "delete" /\ local # NoRow /\ local.text # e.text PROVE FALSE
      OBVIOUS
    <3>2. "same_file_changed" \in ConflictKinds(r, e)
      BY <1>2, <3>1 DEF ConflictKinds
    <3> QED BY <3>2
  <2> QED BY <1>2, <2>1
<1> QED BY <1>1, <1>2

(* A pull starts to apply an event, or skips a delete of nothing.          *)
LEMMA ApplyKeeps ==
  ASSUME SyncInv, NEW t \in Task, Apply(t)
  PROVE  /\ SyncInv'
         /\ UNCHANGED <<table, conflicts>>
         /\ job'[t].todo # job[t].todo =>
              Head(job[t].todo).op = "delete" /\ table[job[t].r][Head(job[t].todo).name] = NoRow
<1> USE DEF SyncInv
<1> DEFINE e == Head(job[t].todo)
           r == job[t].r
           local == table[r][e.name]
<1>1. /\ job[t].op = "pull" /\ job[t].todo # <<>> /\ ConflictKinds(r, e) = {}
      /\ UNCHANGED <<table, events, conflicts, copies, cursor, world>>
  BY DEF Apply, At
<1>2. job[t] \in Pulling /\ r \in Replica /\ e \in Event /\ local \in Row \cup {NoRow}
  BY <1>1, NextOfPull
<1>3. /\ e.op # "delete" => ~Protects(e.name) /\ (local = NoRow \/ local.text = e.text)
      /\ e.op = "delete" /\ local # NoRow => ~Protects(e.name)
  BY <1>1, <1>2, NoConflict
<1>4. PICK j \in Pulling :
        /\ job' = [job EXCEPT ![t] = j] /\ Checked(j) /\ j.op = "pull"
        /\ j.todo # job[t].todo => e.op = "delete" /\ local = NoRow
  <2>1. CASE e.op # "delete"
    <3> DEFINE j == [job[t] EXCEPT !.at = "uploading", !.found = local]
    <3>1. j \in Pulling /\ j.op = "pull" /\ j.at = "uploading" /\ j.found = local /\ j.todo = job[t].todo
      BY <1>2 DEF Pulling
    <3>2. job' = [job EXCEPT ![t] = j]
      BY <2>1 DEF Apply, SyncTypeOK
    <3> HIDE DEF j
    <3>3. Checked(j)
      BY <1>1, <1>3, <2>1, <3>1 DEF Checked
    <3> QED BY <3>1, <3>2, <3>3
  <2>2. CASE e.op = "delete" /\ local # NoRow
    <3> DEFINE j == [job[t] EXCEPT !.at = "removing", !.found = local]
    <3>1. j \in Pulling /\ j.op = "pull" /\ j.at = "removing" /\ j.found = local /\ j.todo = job[t].todo
      BY <1>2 DEF Pulling
    <3>2. job' = [job EXCEPT ![t] = j]
      BY <2>2 DEF Apply, SyncTypeOK
    <3> HIDE DEF j
    <3>3. Checked(j)
      BY <1>1, <1>3, <2>2, <3>1 DEF Checked
    <3> QED BY <3>1, <3>2, <3>3
  <2>3. CASE e.op = "delete" /\ local = NoRow
    <3>1. job' = NextEvent(t)
      BY <2>3 DEF Apply
    <3>2. PICK j \in Pulling : job' = [job EXCEPT ![t] = j] /\ j.op = "pull" /\ j.at = "next"
      BY <1>1, <1>2, <3>1, NextEventRow
    <3> QED BY <2>3, <3>2 DEF Checked
  <2> QED BY <2>1, <2>2, <2>3
<1>5. (Grounded(j))'
  BY <1>4 DEF Grounded
<1>6. OneOpenConflict' /\ \A q \in Replica : DOMAIN conflicts[q] \subseteq DOMAIN conflicts'[q]
  BY <1>1, ConflictsStay
<1>7. /\ job' \in [Task -> {Resting} \cup Pulling \cup Resolving]
      /\ \A u \in Task : (Checked(job[u]))' /\ (Grounded(job[u]))'
      /\ job'[t] = j
  BY <1>4, <1>5, <1>6, JobTaken
<1>8. SyncTypeOK'
  BY <1>1, <1>7, Untouched DEF SyncTypeOK, world
<1> QED BY <1>1, <1>4, <1>6, <1>7, <1>8
(* A pull whose upload ends: a path no rule protects has the text.         *)
LEMMA UploadKeeps ==
  ASSUME SyncInv, NEW t \in Task, FinishUpload(t)
  PROVE  /\ SyncInv'
         /\ table'[job[t].r][Head(job[t].todo).name] # NoRow
         /\ table'[job[t].r][Head(job[t].todo).name].text = Received(Head(job[t].todo))
         /\ \A p \in Guarded : table'[job[t].r][p] = table[job[t].r][p]
<1> USE DEF SyncInv
<1> DEFINE e == Head(job[t].todo)
           r == job[t].r
           more == <<[e EXCEPT !.op = "remote_applied"]>>
<1>1. /\ job[t].op = "pull" /\ job[t].at = "uploading" /\ job' = NextEvent(t)
      /\ UNCHANGED <<hub, conflicts, copies, cursor, requests>>
  BY DEF FinishUpload, At
<1>2. job[t].todo # <<>> /\ ~Protects(e.name) /\ e.op # "delete"
  BY <1>1 DEF Checked
<1>3. job[t] \in Pulling /\ r \in Replica /\ e \in Event /\ e.name \in Name
  BY <1>1, <1>2, NextOfPull
<1>4. Put(r, e.name, Received(e), more)
  BY DEF FinishUpload
<1>5. more \in Seq(Event) /\ Received(e) \in Text
  <2>1. [e EXCEPT !.op = "remote_applied"] \in Event
    BY <1>3, RowsMade
  <2>2. Received(e) \in Text
    BY <1>3, RowsMade
  <2> QED BY <2>1, <2>2
<1> HIDE DEF more
<1>6. /\ table' \in [Replica -> [Name -> Row \cup {NoRow}]]
      /\ events' \in [Replica -> Seq(Event)]
      /\ fresh' \in Nat \ {0}
      /\ table'[r][e.name] # NoRow /\ table'[r][e.name].text = Received(e)
      /\ \A q \in Name : q # e.name => table'[r][q] = table[r][q]
  BY <1>3, <1>4, <1>5, PutTyped
<1>7. PICK j \in Pulling : job' = [job EXCEPT ![t] = j] /\ j.op = "pull" /\ j.at = "next"
  BY <1>1, <1>2, <1>3, NextEventRow
<1>8. Checked(j) /\ (Grounded(j))'
  BY <1>7 DEF Checked, Grounded
<1>9. OneOpenConflict' /\ \A q \in Replica : DOMAIN conflicts[q] \subseteq DOMAIN conflicts'[q]
  BY <1>1, ConflictsStay
<1>10. /\ job' \in [Task -> {Resting} \cup Pulling \cup Resolving]
       /\ \A u \in Task : (Checked(job[u]))' /\ (Grounded(job[u]))'
  BY <1>7, <1>8, <1>9, JobTaken
<1>11. SyncTypeOK'
  BY <1>1, <1>6, <1>10, Untouched DEF SyncTypeOK
<1>12. \A p \in Guarded : p # e.name /\ p \in Name
  BY <1>2, SyncAssumption DEF Protects
<1> QED BY <1>6, <1>9, <1>10, <1>11, <1>12

(* A pull whose removal ends: the row it saw is gone.                      *)
LEMMA RemovalKeeps ==
  ASSUME SyncInv, NEW t \in Task, FinishRemoval(t)
  PROVE  /\ SyncInv'
         /\ Head(job[t].todo).op = "delete"
         /\ \/ table'[job[t].r][Head(job[t].todo).name] = NoRow
            \/ table'[job[t].r][Head(job[t].todo).name] # job[t].found
         /\ \A p \in Guarded : table'[job[t].r][p] = table[job[t].r][p]
<1> USE DEF SyncInv
<1> DEFINE e == Head(job[t].todo)
           r == job[t].r
           row == job[t].found
<1>1. /\ job[t].op = "pull" /\ job[t].at = "removing" /\ job' = NextEvent(t)
      /\ Drop(r, e.name, row)
      /\ UNCHANGED <<conflicts, copies, cursor, world>>
  BY DEF FinishRemoval, At
<1>2. job[t].todo # <<>> /\ ~Protects(e.name) /\ e.op = "delete" /\ row # NoRow
  BY <1>1 DEF Checked
<1>3. job[t] \in Pulling /\ r \in Replica /\ e.name \in Name
  BY <1>1, <1>2, NextOfPull
<1>4. row \in Row
  BY <1>2, <1>3 DEF Pulling
<1>5. /\ table' \in [Replica -> [Name -> Row \cup {NoRow}]]
      /\ events' \in [Replica -> Seq(Event)]
      /\ table'[r][e.name] = NoRow \/ table'[r][e.name].id # row.id
      /\ \A q \in Name : q # e.name => table'[r][q] = table[r][q]
  BY <1>1, <1>3, <1>4, DropTyped
<1>6. PICK j \in Pulling : job' = [job EXCEPT ![t] = j] /\ j.op = "pull" /\ j.at = "next"
  BY <1>1, <1>2, <1>3, NextEventRow
<1>7. Checked(j) /\ (Grounded(j))'
  BY <1>6 DEF Checked, Grounded
<1>8. OneOpenConflict' /\ \A q \in Replica : DOMAIN conflicts[q] \subseteq DOMAIN conflicts'[q]
  BY <1>1, ConflictsStay
<1>9. /\ job' \in [Task -> {Resting} \cup Pulling \cup Resolving]
      /\ \A u \in Task : (Checked(job[u]))' /\ (Grounded(job[u]))'
  BY <1>6, <1>7, <1>8, JobTaken
<1>10. SyncTypeOK'
  BY <1>1, <1>5, <1>9, Untouched DEF SyncTypeOK, world
<1>11. \A p \in Guarded : p # e.name /\ p \in Name
  BY <1>2, SyncAssumption DEF Protects
<1> QED BY <1>2, <1>5, <1>8, <1>9, <1>10, <1>11

(* Tasks that start or end, and leave the files alone.                     *)
LEMMA TaskKeeps ==
  ASSUME SyncInv, NEW t \in Task
  PROVE  /\ EndPull(t) => SyncInv'
         /\ Abort(t) => SyncInv'
         /\ \A r \in Replica : Pull(t, r) => SyncInv'
         /\ \A r \in Replica, mode \in {"keep_remote", "keep_both", "manual_merge"}, s \in Text :
              \A n \in DOMAIN conflicts[r] : Resolve(t, r, n, mode, s) => SyncInv'
<1> USE DEF SyncInv
<1>1. Checked(Resting) /\ (Grounded(Resting))'
  BY DEF Checked, Grounded, Resting
<1>2. ASSUME EndPull(t) PROVE SyncInv'
  <2>1. /\ cursor' = [cursor EXCEPT ![job[t].r] = cursor[job[t].r] \cup {"pulled"}]
        /\ job' = [job EXCEPT ![t] = Resting] /\ job[t].op = "pull"
        /\ UNCHANGED <<table, events, conflicts, copies, world>>
    BY <1>2 DEF EndPull, At
  <2>2. cursor' \in [Replica -> SUBSET {"pushed", "pulled"}]
    <3>1. job[t].r \in Replica
      BY <2>1, JobKinds DEF Pulling
    <3> QED BY <2>1, <3>1 DEF SyncTypeOK
  <2>3. OneOpenConflict' /\ \A q \in Replica : DOMAIN conflicts[q] \subseteq DOMAIN conflicts'[q]
    BY <2>1, ConflictsStay
  <2>4. /\ job' \in [Task -> {Resting} \cup Pulling \cup Resolving]
        /\ \A u \in Task : (Checked(job[u]))' /\ (Grounded(job[u]))'
    BY <1>1, <2>1, <2>3, JobTaken
  <2>5. SyncTypeOK'
    BY <2>1, <2>2, <2>4, Untouched DEF SyncTypeOK, world
  <2> QED BY <2>3, <2>4, <2>5
<1>3. ASSUME Abort(t) PROVE SyncInv'
  <2>1. job' = [job EXCEPT ![t] = Resting]
        /\ UNCHANGED <<table, events, conflicts, copies, cursor, world>>
    BY <1>3 DEF Abort
  <2>2. OneOpenConflict' /\ \A q \in Replica : DOMAIN conflicts[q] \subseteq DOMAIN conflicts'[q]
    BY <2>1, ConflictsStay
  <2>3. /\ job' \in [Task -> {Resting} \cup Pulling \cup Resolving]
        /\ \A u \in Task : (Checked(job[u]))' /\ (Grounded(job[u]))'
    BY <1>1, <2>1, <2>2, JobTaken
  <2>4. SyncTypeOK'
    BY <2>1, <2>3, Untouched DEF SyncTypeOK, world
  <2> QED BY <2>2, <2>3, <2>4
<1>4. ASSUME NEW r \in Replica, Pull(t, r) PROVE SyncInv'
  <2>1. PICK j \in Pulling :
          j.op = "pull" /\ j.at = "next" /\ job' = [job EXCEPT ![t] = j]
    <3>1. [op |-> "pull", at |-> "next", r |-> r, todo |-> hub, found |-> NoRow] \in Pulling
      BY DEF Pulling, SyncTypeOK
    <3> QED BY <1>4, <3>1 DEF Pull
  <2>2. /\ requests < MaxRequests /\ requests' = requests + 1
        /\ UNCHANGED <<table, events, hub, conflicts, copies, cursor, fresh>>
        /\ Checked(j) /\ (Grounded(j))'
    BY <1>4, <2>1 DEF Pull, Checked, Grounded
  <2>3. OneOpenConflict' /\ \A q \in Replica : DOMAIN conflicts[q] \subseteq DOMAIN conflicts'[q]
    BY <2>2, ConflictsStay
  <2>4. /\ job' \in [Task -> {Resting} \cup Pulling \cup Resolving]
        /\ \A u \in Task : (Checked(job[u]))' /\ (Grounded(job[u]))'
    BY <2>1, <2>2, <2>3, JobTaken
  <2>5. SyncTypeOK'
    BY <2>2, <2>4, Untouched DEF SyncTypeOK
  <2> QED BY <2>3, <2>4, <2>5
<1>5. ASSUME NEW r \in Replica, NEW mode \in {"keep_remote", "keep_both", "manual_merge"},
             NEW s \in Text, NEW n \in DOMAIN conflicts[r], Resolve(t, r, n, mode, s)
      PROVE  SyncInv'
  <2> DEFINE j == [op |-> "resolve", r |-> r, n |-> n, mode |-> mode, merged |-> s]
  <2>1. /\ job' = [job EXCEPT ![t] = j] /\ requests < MaxRequests /\ requests' = requests + 1
        /\ UNCHANGED <<table, events, hub, conflicts, copies, cursor, fresh>>
    BY <1>5 DEF Resolve
  <2>2. n \in Nat \ {0}
    <3>1. conflicts[r] \in Seq(Conflict)
      BY DEF SyncTypeOK
    <3> QED BY <3>1
  <2>3. j \in Resolving /\ Checked(j) /\ (Grounded(j))'
    BY <2>1, <2>2 DEF Resolving, Checked, Grounded
  <2> HIDE DEF j
  <2>4. OneOpenConflict' /\ \A q \in Replica : DOMAIN conflicts[q] \subseteq DOMAIN conflicts'[q]
    BY <2>1, ConflictsStay
  <2>5. /\ job' \in [Task -> {Resting} \cup Pulling \cup Resolving]
        /\ \A u \in Task : (Checked(job[u]))' /\ (Grounded(job[u]))'
    BY <2>1, <2>3, <2>4, JobTaken
  <2>6. SyncTypeOK'
    BY <2>1, <2>5, Untouched DEF SyncTypeOK
  <2> QED BY <2>4, <2>5, <2>6
<1> QED BY <1>2, <1>3, <1>4, <1>5

(* A resolution ends: its record is still there, and becomes settled.      *)
LEMMA ResolveKeeps ==
  ASSUME SyncInv, NEW t \in Task, FinishResolve(t)
  PROVE  SyncInv'
<1> USE DEF SyncInv
<1> DEFINE r == job[t].r
           n == job[t].n
           e == conflicts[r][n].event
           more == <<[e EXCEPT !.op = "remote_applied"]>>
<1>1. job[t].op = "resolve" /\ job' = [job EXCEPT ![t] = Resting] /\ UNCHANGED <<hub, cursor, requests>>
  BY DEF FinishResolve
<1>2. job[t] \in Resolving /\ n \in DOMAIN conflicts[r] /\ r \in Replica /\ job[t].merged \in Text
  BY <1>1, JobKinds DEF Grounded, Resolving
<1>3. e \in Event /\ e.name \in Name
  <2>1. conflicts[r] \in Seq(Conflict)
    BY <1>2 DEF SyncTypeOK
  <2>2. conflicts[r][n] \in Conflict
    BY <1>2, <2>1
  <2> QED BY <2>2 DEF Conflict, Event
<1>4. Received(e) \in Text /\ more \in Seq(Event) /\ <<>> \in Seq(Event)
  <2>1. [e EXCEPT !.op = "remote_applied"] \in Event /\ Received(e) \in Text
    BY <1>3, RowsMade
  <2> QED BY <2>1
<1>5. \E status \in {"resolved_remote", "resolved_manual"} : Settle(r, n, status)
  BY DEF FinishResolve
<1>6. /\ conflicts' \in [Replica -> Seq(Conflict)] /\ OneOpenConflict'
      /\ \A q \in Replica : DOMAIN conflicts[q] \subseteq DOMAIN conflicts'[q]
  BY <1>2, <1>5, SettleKeeps
<1>7. \/ Put(r, e.name, Received(e), more) /\ UNCHANGED copies
      \/ copies' = [copies EXCEPT ![r] = copies[r] \cup {<<e.name, Received(e)>>}] /\ UNCHANGED <<table, events, fresh>>
      \/ Put(r, e.name, job[t].merged, <<>>) /\ UNCHANGED copies
  BY DEF FinishResolve
<1> HIDE DEF more, e
<1>8. /\ table' \in [Replica -> [Name -> Row \cup {NoRow}]]
      /\ events' \in [Replica -> Seq(Event)]
      /\ copies' \in [Replica -> SUBSET (Name \X Text)]
      /\ fresh' \in Nat \ {0}
  <2>1. CASE Put(r, e.name, Received(e), more) /\ UNCHANGED copies
    BY <1>2, <1>3, <1>4, <2>1, PutTyped, Untouched
  <2>2. CASE copies' = [copies EXCEPT ![r] = copies[r] \cup {<<e.name, Received(e)>>}] /\ UNCHANGED <<table, events, fresh>>
    <3>1. copies' \in [Replica -> SUBSET (Name \X Text)]
      BY <1>2, <1>3, <1>4, <2>2 DEF SyncTypeOK
    <3> QED BY <2>2, <3>1, Untouched
  <2>3. CASE Put(r, e.name, job[t].merged, <<>>) /\ UNCHANGED copies
    BY <1>2, <1>3, <1>4, <2>3, PutTyped, Untouched
  <2> QED BY <1>7, <2>1, <2>2, <2>3
<1>9. Checked(Resting) /\ (Grounded(Resting))'
  BY DEF Checked, Grounded, Resting
<1>10. /\ job' \in [Task -> {Resting} \cup Pulling \cup Resolving]
       /\ \A u \in Task : (Checked(job[u]))' /\ (Grounded(job[u]))'
  BY <1>1, <1>6, <1>9, JobTaken
<1>11. SyncTypeOK'
  BY <1>1, <1>6, <1>8, <1>10, Untouched DEF SyncTypeOK
<1> QED BY <1>6, <1>10, <1>11
-----------------------------------------------------------------------------
(* Every step keeps the invariant.                                         *)
LEMMA SyncStep ==
  ASSUME SyncInv, SyncNext
  PROVE  SyncInv'
BY RequestKeeps, PutAsideKeeps, ApplyKeeps, UploadKeeps, RemovalKeeps, TaskKeeps, ResolveKeeps
   DEF SyncNext, Continue

LEMMA SyncInvariant == SyncSpec => []SyncInv
<1>1. SyncInit => SyncInv
  <2> SUFFICES ASSUME SyncInit PROVE SyncInv
    OBVIOUS
  <2>1. <<>> \in Seq(Event) /\ <<>> \in Seq(Conflict) /\ DOMAIN <<>> = {}
    OBVIOUS
  <2>2. hub \in Seq(Event)
    <3>1. \A op \in {"upsert", "delete"}, s \in Text, p \in Name :
             Logged(op, [id |-> 1, text |-> s], p) \in Event
      BY DEF Logged, Event
    <3>2. \A e \in Event : <<e>> \in Seq(Event)
      OBVIOUS
    <3>3. CASE hub = <<>>
      BY <2>1, <3>3
    <3>4. CASE hub # <<>>
      <4>1. PICK op \in {"upsert", "delete"}, s \in Text, p \in Name :
              hub = <<Logged(op, [id |-> 1, text |-> s], p)>>
        BY <3>4 DEF SyncInit
      <4>2. Logged(op, [id |-> 1, text |-> s], p) \in Event
        BY <3>1
      <4> QED BY <3>2, <4>1, <4>2
    <3> QED BY <3>3, <3>4
  <2>3. \A r \in Replica : conflicts[r] = <<>>
    BY DEF SyncInit
  <2>4. OneOpenConflict
    BY <2>1, <2>3 DEF OneOpenConflict
  <2>5. \A t \in Task : Checked(job[t]) /\ Grounded(job[t])
    BY DEF SyncInit, Resting, Checked, Grounded
  <2>6. SyncTypeOK
    BY <2>1, <2>2, SyncAssumption DEF SyncInit, SyncTypeOK
  <2> QED BY <2>4, <2>5, <2>6 DEF SyncInv
<1>2. SyncInv /\ [SyncNext]_syncVars => SyncInv'
  <2>1. SyncInv /\ UNCHANGED syncVars => SyncInv'
    BY DEF syncVars, SyncInv, SyncTypeOK, OneOpenConflict, Checked, Grounded
  <2> QED BY <2>1, SyncStep
<1> QED BY <1>1, <1>2, PTL DEF SyncSpec

(* Rows, events, records and jobs keep their form (class VeriFS, sync).    *)
THEOREM SyncTyped == SyncSpec => []SyncTypeOK
<1>1. SyncInv => SyncTypeOK
  BY DEF SyncInv
<1> QED BY <1>1, SyncInvariant, PTL

(* At most one open conflict record stands for an object, however many     *)
(* pulls and resolutions run together (createConflict).                    *)
THEOREM OneOpen == SyncSpec => []OneOpenConflict
<1>1. SyncInv => OneOpenConflict
  BY DEF SyncInv
<1> QED BY <1>1, SyncInvariant, PTL

-----------------------------------------------------------------------------
(* The row of a task that pulls changes by steps of that pull alone.       *)
LEMMA OwnStep ==
  ASSUME SyncInv, SyncNext, NEW t \in Task, job[t].op = "pull", job'[t] # job[t]
  PROVE  PutAside(t) \/ Apply(t) \/ FinishUpload(t) \/ FinishRemoval(t) \/ EndPull(t) \/ Abort(t)
<1> USE DEF SyncInv
<1>1. job \in [Task -> {Resting} \cup Pulling \cup Resolving]
  BY DEF SyncTypeOK
<1>2. \A u \in Task : NextEvent(u) = [job EXCEPT ![u] = NextEvent(u)[u]]
  BY <1>1 DEF NextEvent
<1>3. ASSUME NEW u \in Task, PutAside(u) \/ FinishUpload(u) \/ FinishRemoval(u) PROVE u = t
  BY <1>1, <1>2, <1>3 DEF PutAside, FinishUpload, FinishRemoval
<1>4. ASSUME NEW u \in Task, Apply(u) PROVE u = t
  <2>1. \/ job' = NextEvent(u)
        \/ \E at, found : job' = [job EXCEPT ![u].at = at, ![u].found = found]
    BY <1>4 DEF Apply
  <2> QED BY <1>1, <1>2, <2>1
<1>5. ASSUME NEW u \in Task, EndPull(u) \/ Abort(u) \/ FinishResolve(u) PROVE u = t
  BY <1>1, <1>5 DEF EndPull, Abort, FinishResolve
<1>6. ASSUME NEW u \in Task, NEW r \in Replica, Pull(u, r) PROVE FALSE
  BY <1>1, <1>6 DEF Pull, Resting
<1>7. ASSUME NEW u \in Task, NEW r \in Replica, NEW n, NEW mode, NEW s, Resolve(u, r, n, mode, s)
      PROVE  FALSE
  BY <1>1, <1>7 DEF Resolve, Resting
<1>8. ~FinishResolve(t)
  BY DEF FinishResolve
<1>9. ASSUME \/ \E r \in Replica, p \in Name, s \in Text, allow \in BOOLEAN : Write(r, p, s, allow)
             \/ \E r \in Replica, p \in Name, allow \in BOOLEAN : Erase(r, p, allow)
             \/ \E r \in Replica : Push(r) \/ \E n \in DOMAIN conflicts[r] : KeepLocal(r, n)
      PROVE  FALSE
  BY <1>9 DEF Write, Erase, Push, KeepLocal
<1> QED BY <1>3, <1>4, <1>5, <1>6, <1>7, <1>8, <1>9 DEF SyncNext, Continue

(* A pull passes an event by putting it aside, skipping it, uploading or   *)
(* removing.                                                               *)
LEMMA PassingStep ==
  ASSUME SyncInv, SyncNext, NEW t \in Task, Passes(t)
  PROVE  \/ PutAside(t)
         \/ Apply(t) /\ job'[t].todo # job[t].todo
         \/ FinishUpload(t)
         \/ FinishRemoval(t)
<1>1. job[t].op = "pull" /\ job[t].todo # <<>> /\ job'[t].op = "pull"
      /\ job'[t].todo = Tail(job[t].todo)
  BY DEF Passes
<1>2. job'[t].todo # job[t].todo
  <2>1. job[t].todo \in Seq(Event)
    BY <1>1, JobKinds DEF SyncInv, Pulling
  <2>2. Len(Tail(job[t].todo)) = Len(job[t].todo) - 1 /\ Len(job[t].todo) \in Nat
    BY <1>1, <2>1, HeadTailProperties, LenProperties
  <2>3. Len(Tail(job[t].todo)) # Len(job[t].todo)
    BY <2>2
  <2>4. Tail(job[t].todo) # job[t].todo
    BY <2>3
  <2> QED BY <1>1, <2>4
<1>3. ~EndPull(t) /\ ~Abort(t)
  <2>1. job'[t] # Resting
    BY <1>1 DEF Resting
  <2>2. job \in [Task -> {Resting} \cup Pulling \cup Resolving]
    BY DEF SyncInv, SyncTypeOK
  <2> QED BY <2>1, <2>2 DEF EndPull, Abort
<1> QED BY <1>1, <1>2, <1>3, OwnStep

(* A pull of an event that carries its text replaces a local text by       *)
(* another only if the file changed while it was writing: what             *)
(* conflictForRemoteFile compared is the text that the upload writes.      *)
THEOREM OverwritesWhatItSaw == SyncSpec => NoSilentOverwrite
<1> DEFINE Kept(t) ==
      At(t, "uploading") /\ Passes(t) => Spares(t) \/ ~Head(job[t].todo).full
<1>1. ASSUME SyncInv, SyncNext, NEW t \in Task PROVE Kept(t)
  <2> DEFINE e == Head(job[t].todo)
             before == table[job[t].r][e.name]
  <2>1. SUFFICES ASSUME At(t, "uploading"), Passes(t), e.full, before # NoRow, before = job[t].found
                 PROVE  table'[job[t].r][e.name].text = before.text
    BY DEF Spares
  <2>2. before.text = e.text
    BY <1>1, <2>1 DEF SyncInv, Checked, At
  <2>3. FinishUpload(t)
    <3>1. job[t].op = "pull" /\ job[t].at = "uploading"
      BY <2>1 DEF At
    <3>2. ~PutAside(t) /\ ~Apply(t) /\ ~FinishRemoval(t)
      BY <3>1 DEF PutAside, Apply, FinishRemoval, At
    <3> QED BY <1>1, <2>1, <3>2, PassingStep
  <2>4. table'[job[t].r][e.name].text = Received(e)
    BY <1>1, <2>3, UploadKeeps
  <2> QED BY <2>1, <2>2, <2>4 DEF Received
<1>2. SyncInv /\ [SyncNext]_syncVars => [\A t \in Task : Kept(t)]_syncVars
  BY <1>1
<1> QED BY <1>2, SyncInvariant, PTL DEF SyncSpec, NoSilentOverwrite

(* No step of a pull changes the row of a protected path (docs/sync.md).   *)
THEOREM ProtectedStay == SyncSpec => ProtectedNotApplied
<1> DEFINE Kept(t) ==
      job[t].op = "pull" /\ job'[t] # job[t] =>
        \A p \in Guarded : table'[job[t].r][p] = table[job[t].r][p]
<1>1. ASSUME SyncInv, SyncNext, NEW t \in Task PROVE Kept(t)
  <2> SUFFICES ASSUME job[t].op = "pull", job'[t] # job[t]
               PROVE  \A p \in Guarded : table'[job[t].r][p] = table[job[t].r][p]
    OBVIOUS
  <2>1. \/ PutAside(t) \/ Apply(t) \/ FinishUpload(t) \/ FinishRemoval(t)
        \/ EndPull(t) \/ Abort(t)
    BY <1>1, OwnStep
  <2>2. CASE FinishUpload(t) \/ FinishRemoval(t)
    BY <1>1, <2>2, UploadKeeps, RemovalKeeps
  <2>3. CASE PutAside(t) \/ Apply(t) \/ EndPull(t) \/ Abort(t)
    <3>1. UNCHANGED table
      BY <2>3 DEF PutAside, Apply, EndPull, Abort
    <3> QED BY <3>1
  <2> QED BY <2>1, <2>2, <2>3
<1>2. SyncInv /\ [SyncNext]_syncVars => [\A t \in Task : Kept(t)]_syncVars
  BY <1>1
<1> QED BY <1>2, SyncInvariant, PTL DEF SyncSpec, ProtectedNotApplied

(* A pull is never done with an event that left no trace (syncPull).       *)
THEOREM Accounted == SyncSpec => EveryEventAccounted
<1> DEFINE Traced(t) ==
      LET e == Head(job[t].todo)
          r == job[t].r
          after == table'[r][e.name] IN
      \/ \E c \in ToSet(conflicts'[r]) : c.status = "unresolved" /\ c.event.id = e.id
      \/ e.op = "delete" /\ (after = NoRow \/ after # job[t].found)
      \/ e.op # "delete" /\ after # NoRow /\ after.text = Received(e)
<1>1. ASSUME SyncInv, SyncNext, NEW t \in Task, Passes(t) PROVE Traced(t)
  <2>1. CASE PutAside(t)
    BY <1>1, <2>1, PutAsideKeeps
  <2>2. CASE Apply(t) /\ job'[t].todo # job[t].todo
    <3>1. Head(job[t].todo).op = "delete" /\ table[job[t].r][Head(job[t].todo).name] = NoRow
      BY <1>1, <2>2, ApplyKeeps
    <3>2. UNCHANGED table
      BY <2>2 DEF Apply
    <3> QED BY <3>1, <3>2
  <2>3. CASE FinishUpload(t)
    <3>1. Head(job[t].todo).op # "delete"
      BY <1>1, <2>3 DEF FinishUpload, At, SyncInv, Checked
    <3> QED BY <1>1, <2>3, <3>1, UploadKeeps
  <2>4. CASE FinishRemoval(t)
    BY <1>1, <2>4, RemovalKeeps
  <2> QED BY <1>1, <2>1, <2>2, <2>3, <2>4, PassingStep
<1>2. SyncInv /\ [SyncNext]_syncVars => [\A t \in Task : Passes(t) => Traced(t)]_syncVars
  BY <1>1
<1> QED BY <1>2, SyncInvariant, PTL DEF SyncSpec, EveryEventAccounted
=============================================================================
