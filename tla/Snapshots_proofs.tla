-------------------------- MODULE Snapshots_proofs --------------------------
(***************************************************************************)
(* Theorems about snapshots, for any files, rules, memories, snapshots and *)
(* rollbacks under way at once, with foreign keys enforced or not.  That a *)
(* rollback restores its snapshot needs, of each of its awaits, how far it *)
(* has come: Restoring says so of the rollback that is alone.              *)
(***************************************************************************)
EXTENDS Snapshots, TLAPS

SnapshotsSpec == SnapInit /\ [][SnapNext]_snapVars

RollbackRow == {NoRollback} \cup InRollback

-----------------------------------------------------------------------------
(* Rollbacks and those who disturb them. *)

(* A rollback of another is no longer alone, and otherwise the same.       *)
LEMMA DisturbedIs ==
  ASSUME SnapTypeOK, NEW who
  PROVE  /\ Disturbed(who) \in [Roller -> RollbackRow]
         /\ \A u \in Roller :
              /\ Disturbed(who)[u].at = rollback[u].at
              /\ u = who => Disturbed(who)[u] = rollback[u]
              /\ u # who => Disturbed(who)[u] = NoRollback \/ Disturbed(who)[u].alone = FALSE
<1>1. ASSUME NEW u \in Roller
      PROVE  /\ Disturbed(who)[u] \in RollbackRow
             /\ Disturbed(who)[u].at = rollback[u].at
             /\ u = who => Disturbed(who)[u] = rollback[u]
             /\ u # who => Disturbed(who)[u] = NoRollback \/ Disturbed(who)[u].alone = FALSE
  <2>1. CASE rollback[u] = NoRollback
    BY <2>1 DEF Disturbed, Living, NoRollback, RollbackRow
  <2>2. CASE rollback[u] # NoRollback
    <3>1. PICK row \in InRollback : row = rollback[u]
      BY <2>2 DEF SnapTypeOK
    <3>2. PICK other : other = [row EXCEPT !.alone = FALSE] OBVIOUS
    <3>3. other \in InRollback /\ other.at = row.at /\ other.alone = FALSE /\ row.at # "none"
      BY <3>1, <3>2 DEF InRollback
    <3>4. Disturbed(who)[u] = IF u # who THEN other ELSE row
      BY <3>1, <3>2, <3>3 DEF Disturbed, Living
    <3> QED BY <3>1, <3>3, <3>4 DEF RollbackRow
  <2> QED BY <2>1, <2>2
<1>2. Disturbed(who) \in [Roller -> RollbackRow]
  BY <1>1 DEF Disturbed
<1> QED BY <1>1, <1>2

(* A rollback that goes on, or ends. *)
LEMMA MoveIs ==
  ASSUME SnapTypeOK, NEW t \in Roller, NEW row \in RollbackRow, Move(t, row)
  PROVE  /\ rollback' \in [Roller -> RollbackRow] /\ rollback'[t] = row
         /\ \A u \in Roller : u # t =>
              /\ rollback'[u].at = rollback[u].at
              /\ rollback'[u] = NoRollback \/ rollback'[u].alone = FALSE
BY DisturbedIs DEF Move

-----------------------------------------------------------------------------
(* Types. *)

ItemsTyped == SnapTypeOK => CurrentItems \in Items

(* What createSnapshot copies are items. *)
LEMMA CurrentTyped == ItemsTyped
BY DEF ItemsTyped, SnapTypeOK, CurrentItems, Items

(* The rows of a snapshot. *)
LEMMA OldRows ==
  ASSUME SnapTypeOK, NEW n \in DOMAIN snapshots
  PROVE  /\ snapshots[n].rows \in [Place -> FileOf \cup {Nothing}]
         /\ snapshots[n].memos \in [Memo -> NodeOf \cup {Nothing}]
         /\ snapshots[n].links \subseteq Memo \X Memo
         /\ snapshots[n].rules \subseteq Place
<1>1. snapshots[n] \in Items
  BY DEF SnapTypeOK
<1> QED BY <1>1 DEF Items

(* A node as a rollback restores it. *)
LEMMA NodeRestored ==
  ASSUME SnapTypeOK, NEW n \in DOMAIN snapshots, NEW m \in Present(snapshots[n].memos)
  PROVE  /\ m \in Memo /\ RestoredNode(m, n) \in NodeOf /\ RestoredNode(m, n) # Nothing
         /\ ~ snapshots[n].memos[m].scoped => RestoredNode(m, n) = snapshots[n].memos[m]
<1>1. m \in Memo /\ snapshots[n].memos[m] \in NodeOf
  BY OldRows DEF Present
<1> QED BY <1>1, SnapshotsAssumption DEF RestoredNode, NodeOf

\* A rollback under way knows its snapshot and what is left of it.
KnownRow(row) ==
  row # NoRollback =>
    /\ row.n \in DOMAIN snapshots
    /\ row.places \subseteq Present(snapshots[row.n].rows)
    /\ row.nodes \subseteq Present(snapshots[row.n].memos)
    /\ row.at = "copying" => row.place \in Present(snapshots[row.n].rows)
    /\ row.at = "embedding" => row.node \in Present(snapshots[row.n].memos)

SnapInv == SnapTypeOK /\ \A t \in Roller : KnownRow(rollback[t])

(* Being disturbed makes no rollback forget. *)
LEMMA DisturbedKnown ==
  ASSUME SnapInv, NEW who, NEW u \in Roller
  PROVE  KnownRow(Disturbed(who)[u])
<1>1. CASE rollback[u] = NoRollback
  BY <1>1 DEF Disturbed, Living, NoRollback, KnownRow
<1>2. CASE rollback[u] # NoRollback
  <2>1. PICK row \in InRollback : row = rollback[u]
    BY <1>2 DEF SnapInv, SnapTypeOK
  <2>2. PICK other : other = [row EXCEPT !.alone = FALSE] OBVIOUS
  <2>3. other \in InRollback /\ other.at = row.at /\ other.n = row.n /\ other.places = row.places
        /\ other.nodes = row.nodes /\ other.place = row.place /\ other.node = row.node
    BY <2>1, <2>2 DEF InRollback
  <2>4. Disturbed(who)[u] = other \/ Disturbed(who)[u] = row
    BY <2>1, <2>2 DEF Disturbed
  <2> QED BY <1>2, <2>1, <2>3, <2>4 DEF SnapInv, KnownRow
<1> QED BY <1>1, <1>2

\* A rollback goes on with a row that says what is left.
Advances(t, row, place, node, label, places, nodes) ==
  /\ row \in InRollback /\ Move(t, row)
  /\ row.at = label /\ row.n = rollback[t].n /\ row.alone = rollback[t].alone
  /\ row.place = place /\ row.node = node /\ row.places = places /\ row.nodes = nodes

(* What becomes of the rows when the next file is restored.                *)
RowStep(t) ==
  /\ UNCHANGED <<memos, vectors, links, rules>>
  /\ \/ Move(t, NoRollback) /\ UNCHANGED rows
     \/ \E p \in rollback[t].places, row \in InRollback :
          /\ rows' = [rows EXCEPT ![p] = snapshots[rollback[t].n].rows[p]]
          /\ Advances(t, row, p, rollback[t].node, "copying", rollback[t].places \ {p}, rollback[t].nodes)

(* The INSERT of a file does this. *)
LEMMA RestoreRowIs ==
  ASSUME SnapInv, NEW t \in Roller, rollback[t] # NoRollback, RestoreRow(t)
  PROVE  RowStep(t)
<1>1. rollback[t] \in InRollback /\ rollback[t].places \subseteq Place
  BY OldRows DEF SnapInv, SnapTypeOK, InRollback
<1>2. PICK p \in rollback[t].places :
        \/ Move(t, NoRollback) /\ UNCHANGED rows
        \/ /\ rows' = [rows EXCEPT ![p] = snapshots[rollback[t].n].rows[p]]
           /\ Move(t, [rollback[t] EXCEPT !.at = "copying", !.place = p, !.places = @ \ {p}])
  BY DEF RestoreRow, Break
<1>3. PICK row : row = [rollback[t] EXCEPT !.at = "copying", !.place = p, !.places = @ \ {p}] OBVIOUS
<1>4. /\ row \in InRollback /\ row.at = "copying" /\ row.n = rollback[t].n /\ row.alone = rollback[t].alone
      /\ row.place = p /\ row.node = rollback[t].node /\ row.places = rollback[t].places \ {p}
      /\ row.nodes = rollback[t].nodes
  BY <1>1, <1>3 DEF InRollback
<1>5. Move(t, row) =>
        Advances(t, row, p, rollback[t].node, "copying", rollback[t].places \ {p}, rollback[t].nodes)
  BY <1>4 DEF Advances
<1> QED BY <1>2, <1>3, <1>4, <1>5 DEF RestoreRow, RowStep

(* ... and when the next node is, or the links are.                        *)
NodeStep(t) ==
  \/ Move(t, NoRollback) /\ UNCHANGED <<memos, links>>
  \/ /\ UNCHANGED links
     /\ \E m \in rollback[t].nodes, row \in InRollback :
          /\ memos' = [memos EXCEPT ![m] = RestoredNode(m, rollback[t].n)]
          /\ Advances(t, row, rollback[t].place, m, "embedding", rollback[t].places, rollback[t].nodes \ {m})
  \/ /\ UNCHANGED memos /\ rollback[t].nodes = {}
     /\ links' = links \cup snapshots[rollback[t].n].links
     /\ \E row \in InRollback :
           Advances(t, row, rollback[t].place, rollback[t].node, "restored", rollback[t].places, rollback[t].nodes)

(* The INSERT of a node does, or that of the links. *)
LEMMA RestoreNodesIs ==
  ASSUME SnapInv, NEW t \in Roller, rollback[t] # NoRollback, RestoreNodesThenLinks(t)
  PROVE  NodeStep(t)
<1>1. rollback[t] \in InRollback
  BY DEF SnapInv, SnapTypeOK
<1>2. CASE rollback[t].nodes # {}
  <2>1. PICK m \in rollback[t].nodes :
          \/ Move(t, NoRollback) /\ UNCHANGED memos
          \/ /\ memos' = [memos EXCEPT ![m] = RestoredNode(m, rollback[t].n)]
             /\ Move(t, [rollback[t] EXCEPT !.at = "embedding", !.node = m, !.nodes = @ \ {m}])
    BY <1>2 DEF RestoreNodesThenLinks, RestoreNode, Break
  <2>2. PICK row : row = [rollback[t] EXCEPT !.at = "embedding", !.node = m, !.nodes = @ \ {m}] OBVIOUS
  <2>3. /\ row \in InRollback /\ row.at = "embedding" /\ row.n = rollback[t].n /\ row.alone = rollback[t].alone
        /\ row.place = rollback[t].place /\ row.node = m /\ row.places = rollback[t].places
        /\ row.nodes = rollback[t].nodes \ {m}
    BY <1>1, <2>2 DEF InRollback
  <2>4. Move(t, row) =>
          Advances(t, row, rollback[t].place, m, "embedding", rollback[t].places, rollback[t].nodes \ {m})
    BY <2>3 DEF Advances
  <2>5. UNCHANGED links
    BY <1>2 DEF RestoreNodesThenLinks, RestoreNode
  <2> QED BY <2>1, <2>2, <2>3, <2>4, <2>5 DEF NodeStep
<1>3. CASE rollback[t].nodes = {}
  <2>1. \/ Move(t, NoRollback) /\ UNCHANGED <<memos, links>>
        \/ /\ links' = links \cup snapshots[rollback[t].n].links /\ UNCHANGED memos
           /\ Move(t, [rollback[t] EXCEPT !.at = "restored"])
    BY <1>3 DEF RestoreNodesThenLinks, RestoreLinks, Break
  <2>2. PICK row : row = [rollback[t] EXCEPT !.at = "restored"] OBVIOUS
  <2>3. /\ row \in InRollback /\ row.at = "restored" /\ row.n = rollback[t].n /\ row.alone = rollback[t].alone
        /\ row.place = rollback[t].place /\ row.node = rollback[t].node /\ row.places = rollback[t].places
        /\ row.nodes = rollback[t].nodes
    BY <1>1, <2>2 DEF InRollback
  <2>4. Move(t, row) =>
          Advances(t, row, rollback[t].place, rollback[t].node, "restored", rollback[t].places, rollback[t].nodes)
    BY <2>3 DEF Advances
  <2> QED BY <1>3, <2>1, <2>2, <2>3, <2>4 DEF NodeStep
<1> QED BY <1>2, <1>3

(* ... and when the rules are: they all come, or the rollback breaks off.  *)
RulesStep(t) ==
  /\ UNCHANGED <<rows, vectors>>
  /\ \/ Move(t, NoRollback) /\ rules' \subseteq Place /\ UNCHANGED <<memos, links>>
     \/ rules' = rules \cup snapshots[rollback[t].n].rules /\ NodeStep(t)

(* The INSERTs of the rules, with what follows at once. *)
LEMMA RestoreRulesIs ==
  ASSUME SnapInv, NEW t \in Roller, rollback[t] # NoRollback, RestoreRules(t)
  PROVE  RulesStep(t)
<1>1. rules \subseteq Place /\ snapshots[rollback[t].n].rules \subseteq Place
  BY OldRows DEF SnapInv, SnapTypeOK, KnownRow
<1> QED BY <1>1, RestoreNodesIs DEF RestoreRules, RulesStep, Break

(* What a rollback does after a copy is written. *)
LEMMA RestoreIs ==
  ASSUME SnapInv, NEW t \in Roller, rollback[t] # NoRollback, RestoreRowsThenRules(t)
  PROVE  \/ RowStep(t)
         \/ rollback[t].places = {} /\ RulesStep(t)
BY RestoreRowIs, RestoreRulesIs DEF RestoreRowsThenRules

-----------------------------------------------------------------------------
(* The tables and the rollbacks keep their types. *)

Tables ==
  /\ rows \in [Place -> FileOf \cup {Nothing}]
  /\ disk \in [Place -> Word \cup {Mangled, Nothing}]
  /\ memos \in [Memo -> NodeOf \cup {Nothing}]
  /\ vectors \subseteq Memo
  /\ links \subseteq Memo \X Memo
  /\ rules \subseteq Place

Rollbacks ==
  /\ rollback \in [Roller -> RollbackRow]
  /\ \A t \in Roller : KnownRow(rollback[t])

\* What a rollback does to the tables is typed, and it knows where it is.
MovesOn(t) == \E row \in RollbackRow : KnownRow(row) /\ Move(t, row)

(* A rollback that moves leaves the others what they know. *)
LEMMA MovedRollbacks ==
  ASSUME SnapInv, NEW t \in Roller, MovesOn(t), UNCHANGED snapshots
  PROVE  Rollbacks'
<1>1. PICK row \in RollbackRow : KnownRow(row) /\ Move(t, row)
  BY DEF MovesOn
<1>2. rollback' \in [Roller -> RollbackRow] /\ rollback'[t] = row
  BY <1>1, MoveIs DEF SnapInv
<1>3. \A u \in Roller : KnownRow(rollback'[u])
  BY <1>1, DisturbedKnown, DisturbedIs DEF Move, SnapInv
<1> QED BY <1>2, <1>3 DEF Rollbacks, KnownRow

(* So does a request that changes the tables. *)
LEMMA DisturbedRollbacks ==
  ASSUME SnapInv, NEW who, rollback' = Disturbed(who), UNCHANGED snapshots
  PROVE  Rollbacks'
<1>1. rollback' \in [Roller -> RollbackRow]
  BY DisturbedIs DEF SnapInv
<1>2. \A u \in Roller : KnownRow(rollback'[u])
  BY DisturbedKnown
<1> QED BY <1>1, <1>2 DEF Rollbacks, KnownRow

(* To break off is to move, too. *)
LEMMA StopMovesOn ==
  ASSUME NEW t \in Roller, Move(t, NoRollback)
  PROVE  MovesOn(t)
BY DEF MovesOn, KnownRow, RollbackRow

(* Nodes and links are restored as they were stored. *)
LEMMA NodeStepTyped ==
  ASSUME SnapInv, NEW t \in Roller, rollback[t] # NoRollback, NodeStep(t)
  PROVE  /\ MovesOn(t)
         /\ memos' \in [Memo -> NodeOf \cup {Nothing}] /\ links' \subseteq Memo \X Memo
<1>1. KnownRow(rollback[t]) /\ SnapTypeOK
  BY DEF SnapInv
<1>2. CASE Move(t, NoRollback) /\ UNCHANGED <<memos, links>>
  BY <1>1, <1>2, StopMovesOn DEF SnapTypeOK
<1>3. CASE UNCHANGED links /\ \E m \in rollback[t].nodes, row \in InRollback :
            /\ memos' = [memos EXCEPT ![m] = RestoredNode(m, rollback[t].n)]
            /\ Advances(t, row, rollback[t].place, m, "embedding", rollback[t].places, rollback[t].nodes \ {m})
  <2>1. PICK m \in rollback[t].nodes, row \in InRollback :
            /\ memos' = [memos EXCEPT ![m] = RestoredNode(m, rollback[t].n)]
            /\ Advances(t, row, rollback[t].place, m, "embedding", rollback[t].places, rollback[t].nodes \ {m})
    BY <1>3
  <2>2. RestoredNode(m, rollback[t].n) \in NodeOf
    BY <1>1, NodeRestored DEF KnownRow
  <2>3. MovesOn(t)
    BY <1>1, <2>1 DEF MovesOn, Advances, KnownRow, RollbackRow
  <2> QED BY <1>1, <1>3, <2>1, <2>2, <2>3 DEF SnapTypeOK
<1>4. CASE /\ UNCHANGED memos /\ links' = links \cup snapshots[rollback[t].n].links
           /\ \E row \in InRollback :
               Advances(t, row, rollback[t].place, rollback[t].node, "restored", rollback[t].places, rollback[t].nodes)
  <2>1. MovesOn(t)
    BY <1>1, <1>4 DEF MovesOn, Advances, KnownRow, RollbackRow
  <2>2. snapshots[rollback[t].n].links \subseteq Memo \X Memo
    BY <1>1, OldRows DEF KnownRow
  <2> QED BY <1>1, <1>4, <2>1, <2>2 DEF SnapTypeOK
<1> QED BY <1>2, <1>3, <1>4 DEF NodeStep

(* Files and rules, too. *)
LEMMA RestoreTyped ==
  ASSUME SnapInv, NEW t \in Roller, rollback[t] # NoRollback,
         RowStep(t) \/ (rollback[t].places = {} /\ RulesStep(t))
  PROVE  /\ MovesOn(t)
         /\ rows' \in [Place -> FileOf \cup {Nothing}]
         /\ memos' \in [Memo -> NodeOf \cup {Nothing}]
         /\ UNCHANGED vectors /\ links' \subseteq Memo \X Memo /\ rules' \subseteq Place
<1>1. KnownRow(rollback[t]) /\ SnapTypeOK
  BY DEF SnapInv
<1>2. CASE RowStep(t)
  <2>1. CASE Move(t, NoRollback) /\ UNCHANGED rows
    BY <1>1, <1>2, <2>1, StopMovesOn DEF SnapTypeOK, RowStep
  <2>2. CASE ~ (Move(t, NoRollback) /\ UNCHANGED rows)
    <3>1. PICK p \in rollback[t].places, row \in InRollback :
            /\ rows' = [rows EXCEPT ![p] = snapshots[rollback[t].n].rows[p]]
            /\ Advances(t, row, p, rollback[t].node, "copying", rollback[t].places \ {p}, rollback[t].nodes)
      BY <1>2, <2>2 DEF RowStep
    <3>2. MovesOn(t)
      BY <1>1, <3>1 DEF MovesOn, Advances, KnownRow, RollbackRow
    <3>3. p \in Place /\ snapshots[rollback[t].n].rows[p] \in FileOf \cup {Nothing}
      BY <1>1, <3>1, OldRows DEF KnownRow, Present
    <3> QED BY <1>1, <1>2, <3>1, <3>2, <3>3 DEF SnapTypeOK, RowStep
  <2> QED BY <2>1, <2>2
<1>3. CASE RulesStep(t)
  <2>1. snapshots[rollback[t].n].rules \subseteq Place
    BY <1>1, OldRows DEF KnownRow
  <2>2. rows' \in [Place -> FileOf \cup {Nothing}] /\ UNCHANGED vectors /\ rules' \subseteq Place
    BY <1>1, <1>3, <2>1 DEF RulesStep, SnapTypeOK
  <2>3. CASE NodeStep(t)
    BY <2>2, <2>3, NodeStepTyped
  <2>4. CASE ~ NodeStep(t)
    BY <1>1, <1>3, <2>2, <2>4, StopMovesOn DEF RulesStep, SnapTypeOK
  <2> QED BY <2>3, <2>4
<1> QED BY <1>2, <1>3

(* Another request comes in between. *)
LEMMA EditTyped ==
  ASSUME SnapInv, Edit
  PROVE  Rollbacks' /\ UNCHANGED <<snapshots, rollbacks>> /\ edits' \in 0 .. MaxEdits
BY DisturbedRollbacks, SnapshotsAssumption DEF Edit, SnapInv, SnapTypeOK

(* What the other requests write is typed. *)
LEMMA EditsKeep ==
  ASSUME SnapInv,
         \/ \E p \in Place, allow \in BOOLEAN : DropFile(p, allow) \/ \E w \in Word : SaveFile(p, w, allow)
         \/ OpenWorkspace
         \/ \E m \in Memo, p \in Place, scoped \in BOOLEAN : Remember(m, p, scoped)
  PROVE  Edit /\ Tables' /\ nextRow' \in Nat
<1>1. SnapTypeOK
  BY DEF SnapInv
<1>2. ASSUME NEW p \in Place, NEW allow, DropFile(p, allow) PROVE Edit /\ Tables' /\ nextRow' \in Nat
  <2>1. PICK gone : gone = Orphans(rows[p].id) OBVIOUS
  <2>2. /\ memos' = [m \in Memo |-> IF m \in gone THEN Nothing ELSE memos[m]]
        /\ vectors' = vectors \ gone
        /\ links' = {l \in links : l[1] \notin gone /\ l[2] \notin gone}
        /\ rows' = [rows EXCEPT ![p] = Nothing] /\ disk' = [disk EXCEPT ![p] = Nothing]
        /\ UNCHANGED <<rules, nextRow>>
    BY <1>2, <2>1 DEF DropFile
  <2> QED BY <1>1, <1>2, <2>2 DEF DropFile, Tables, SnapTypeOK
<1>3. ASSUME NEW p \in Place, NEW allow, NEW w \in Word, SaveFile(p, w, allow)
      PROVE  Edit /\ Tables' /\ nextRow' \in Nat
  <2>1. PICK row : row = [id |-> IF rows[p] = Nothing THEN nextRow ELSE rows[p].id, word |-> w]
    OBVIOUS
  <2>2. row \in FileOf
    BY <1>1, <2>1 DEF SnapTypeOK, FileOf
  <2>3. rows' = [rows EXCEPT ![p] = row] /\ disk' = [disk EXCEPT ![p] = w]
    BY <1>1, <1>3, <2>1 DEF SaveFile, SnapTypeOK
  <2> QED BY <1>1, <1>3, <2>2, <2>3 DEF SaveFile, Tables, SnapTypeOK
<1>4. CASE OpenWorkspace
  BY <1>1, <1>4, SnapshotsAssumption DEF OpenWorkspace, Tables, SnapTypeOK
<1>5. ASSUME NEW m \in Memo, NEW p \in Place, NEW scoped \in BOOLEAN, Remember(m, p, scoped)
      PROVE  Edit /\ Tables' /\ nextRow' \in Nat
  <2>1. [home |-> rows[p].id, scoped |-> scoped] \in NodeOf
    BY <1>1, <1>5 DEF Remember, SnapTypeOK, FileOf, NodeOf
  <2> QED BY <1>1, <1>5, <2>1 DEF Remember, Tables, SnapTypeOK
<1> QED BY <1>2, <1>3, <1>4, <1>5

(* A rollback begins. *)
LEMMA StartIs ==
  ASSUME SnapInv, NEW t \in Roller, NEW n \in DOMAIN snapshots, StartRollback(t, n)
  PROVE  /\ Rollbacks' /\ Tables' /\ rollbacks' \in 0 .. MaxRollbacks
         /\ rollback'[t].at = "blobs" /\ rollback'[t].n = n
         /\ rollback'[t].places = Present(snapshots[n].rows)
         /\ rollback'[t].nodes = Present(snapshots[n].memos)
         /\ rollback'[t].alone => \A u \in Roller : ~ Living(u)
         /\ \A u \in Roller : u # t =>
              /\ rollback'[u].at = rollback[u].at
              /\ rollback'[u] = NoRollback \/ rollback'[u].alone = FALSE
<1>1. SnapTypeOK
  BY DEF SnapInv
<1>2. PICK row : row = [at |-> "blobs", n |-> n, places |-> Present(snapshots[n].rows),
                        nodes |-> Present(snapshots[n].memos), place |-> Nothing, node |-> Nothing,
                        alone |-> \A u \in Roller : ~Living(u)]
  OBVIOUS
<1>3. Present(snapshots[n].rows) \subseteq Place /\ Present(snapshots[n].memos) \subseteq Memo
  BY <1>1, OldRows DEF Present
<1>4. row \in InRollback
  BY <1>1, <1>2, <1>3 DEF InRollback, SnapTypeOK
<1>5. Move(t, row) /\ UNCHANGED snapshots
  BY <1>2 DEF StartRollback, Move
<1>6. row \in RollbackRow /\ KnownRow(row)
  BY <1>2, <1>4 DEF KnownRow, RollbackRow
<1>7. Rollbacks'
  BY <1>5, <1>6, MovedRollbacks DEF MovesOn
<1>8. rollback'[t] = row /\ \A u \in Roller : u # t =>
              /\ rollback'[u].at = rollback[u].at
              /\ rollback'[u] = NoRollback \/ rollback'[u].alone = FALSE
  BY <1>1, <1>5, <1>6, MoveIs
<1>9. Tables' /\ rollbacks' \in 0 .. MaxRollbacks
  BY <1>1, SnapshotsAssumption DEF StartRollback, Tables, SnapTypeOK
<1> QED BY <1>2, <1>7, <1>8, <1>9

(* A rollback under way writes a copy, a file, a node or what comes after. *)
LEMMA WorksIs ==
  ASSUME SnapInv, NEW t \in Roller, Wiped(t) \/ Copied(t) \/ Embedded(t)
  PROVE  /\ MovesOn(t) /\ Tables'
         /\ UNCHANGED <<snapshots, nextRow, edits, rollbacks>>
<1>1. SnapTypeOK /\ KnownRow(rollback[t]) /\ rollback[t] # NoRollback
  BY DEF SnapInv, Wiped, Copied, Embedded, NoRollback
<1>2. CASE Wiped(t)
  BY <1>1, <1>2, RestoreIs, RestoreTyped DEF Wiped, Tables, SnapTypeOK
<1>3. CASE Copied(t)
  <2>1. rollback[t].place \in Place
        /\ Recoded(snapshots[rollback[t].n].rows[rollback[t].place].word) \in Word \cup {Mangled, Nothing}
    <3>1. rollback[t].place \in Present(snapshots[rollback[t].n].rows)
      BY <1>1, <1>3 DEF KnownRow, Copied
    <3>2. PICK p \in Place : p = rollback[t].place /\ snapshots[rollback[t].n].rows[p] \in FileOf
      BY <1>1, <3>1, OldRows DEF KnownRow, Present
    <3>3. snapshots[rollback[t].n].rows[p].word \in Word
      BY <3>2 DEF FileOf
    <3> QED BY <3>2, <3>3 DEF Recoded
  <2> QED BY <1>1, <1>3, <2>1, RestoreIs, RestoreTyped DEF Copied, Tables, SnapTypeOK
<1>4. CASE Embedded(t)
  <2>1. rollback[t].node \in Memo
    BY <1>1, <1>4, OldRows DEF KnownRow, Embedded, Present
  <2>2. CASE Break(t) /\ UNCHANGED <<memos, vectors, links>>
    BY <1>1, <1>4, <2>2, StopMovesOn DEF Break, Embedded, Tables, SnapTypeOK
  <2>3. CASE vectors' = vectors \cup {rollback[t].node} /\ RestoreNodesThenLinks(t)
    <3>1. vectors' \subseteq Memo
      BY <1>1, <2>1, <2>3 DEF SnapTypeOK
    <3> QED BY <1>1, <1>4, <2>3, <3>1, RestoreNodesIs, NodeStepTyped DEF Embedded, Tables, SnapTypeOK
  <2> QED BY <1>4, <2>2, <2>3 DEF Embedded
<1> QED BY <1>2, <1>3, <1>4

(* A rollback that only changes its own row. *)
LEMMA AlsoIs ==
  ASSUME SnapInv, NEW t \in Roller, BlobsWritten(t) \/ Fails(t) \/ Answer(t)
  PROVE  /\ Rollbacks' /\ UNCHANGED <<tables, snapshots, nextRow, edits, rollbacks>>
         /\ \A u \in Roller : u # t => rollback'[u] = rollback[u]
         /\ rollback[t] # NoRollback
         /\ \/ rollback'[t] = NoRollback
            \/ /\ rollback[t].at = "blobs" /\ rollback'[t].at = "wiping"
               /\ rollback'[t].n = rollback[t].n /\ rollback'[t].alone = rollback[t].alone
               /\ rollback'[t].places = rollback[t].places /\ rollback'[t].nodes = rollback[t].nodes
<1>1. SnapTypeOK /\ KnownRow(rollback[t]) /\ rollback[t] # NoRollback
  BY DEF SnapInv, BlobsWritten, Fails, Answer, NoRollback
<1>2. rollback[t] \in InRollback
  BY <1>1 DEF SnapTypeOK
<1>3. UNCHANGED <<tables, snapshots, nextRow, edits, rollbacks>>
  BY DEF BlobsWritten, Fails, Answer
<1>4. CASE BlobsWritten(t)
  <2>1. PICK row : row = [rollback[t] EXCEPT !.at = "wiping"] OBVIOUS
  <2>2. /\ row \in InRollback /\ row.at = "wiping" /\ row.n = rollback[t].n /\ row.alone = rollback[t].alone
        /\ row.places = rollback[t].places /\ row.nodes = rollback[t].nodes
    BY <1>2, <2>1 DEF InRollback
  <2>3. rollback' = [rollback EXCEPT ![t] = row] /\ rollback[t].at = "blobs"
    BY <1>1, <1>4, <2>1 DEF BlobsWritten, SnapTypeOK
  <2>4. KnownRow(row)
    BY <1>1, <2>2 DEF KnownRow
  <2>5. rollback' \in [Roller -> RollbackRow] /\ rollback'[t] = row
        /\ \A u \in Roller : u # t => rollback'[u] = rollback[u]
    BY <1>1, <2>2, <2>3 DEF SnapTypeOK, RollbackRow
  <2>6. \A u \in Roller : KnownRow(rollback'[u])
    BY <2>4, <2>5 DEF SnapInv
  <2> QED BY <1>1, <1>3, <2>2, <2>3, <2>5, <2>6 DEF Rollbacks, KnownRow
<1>5. CASE Fails(t) \/ Answer(t)
  <2>1. rollback' = [rollback EXCEPT ![t] = NoRollback]
    BY <1>5 DEF Fails, Answer
  <2>2. rollback' \in [Roller -> RollbackRow] /\ rollback'[t] = NoRollback
        /\ \A u \in Roller : u # t => rollback'[u] = rollback[u]
    BY <1>1, <2>1 DEF SnapTypeOK, RollbackRow
  <2>3. \A u \in Roller : KnownRow(rollback'[u])
    BY <2>2 DEF SnapInv, KnownRow
  <2> QED BY <1>1, <1>3, <2>2, <2>3 DEF Rollbacks, KnownRow
<1> QED BY <1>4, <1>5

\* A snapshot is made; those there are stay as they are.
LEMMA SnapshotIs ==
  ASSUME SnapInv, CreateSnapshot
  PROVE  /\ snapshots' \in Seq(Items) /\ DOMAIN snapshots \subseteq DOMAIN snapshots'
         /\ \A n \in DOMAIN snapshots : snapshots'[n] = snapshots[n]
<1>1. CurrentItems \in Items /\ snapshots \in Seq(Items)
  BY CurrentTyped DEF ItemsTyped, SnapInv, SnapTypeOK
<1> QED BY <1>1 DEF CreateSnapshot

Parts ==
  /\ Tables /\ Rollbacks /\ snapshots \in Seq(Items)
  /\ nextRow \in Nat /\ edits \in 0 .. MaxEdits /\ rollbacks \in 0 .. MaxRollbacks

(* The invariant, table by table. *)
LEMMA InvParts == SnapInv <=> Parts
BY DEF Parts, SnapInv, SnapTypeOK, Tables, Rollbacks, RollbackRow

(* Every step keeps the types and what the rollbacks know. *)
LEMMA InvStep == SnapInv /\ [SnapNext]_snapVars => SnapInv'
<1> SUFFICES ASSUME SnapInv, [SnapNext]_snapVars PROVE SnapInv'
  OBVIOUS
<1>1. Parts' => SnapInv'
  BY InvParts, PTL
<1>2. Parts
  BY InvParts
<1>3. UNCHANGED tables => Tables'
  BY <1>2 DEF tables, Tables, Parts
<1>4. UNCHANGED <<rollback, snapshots>> => Rollbacks'
  BY <1>2 DEF Rollbacks, KnownRow, Parts
<1>5. CASE UNCHANGED snapVars
  BY <1>1, <1>2, <1>3, <1>4, <1>5 DEF snapVars, Parts
<1>6. CASE \/ \E p \in Place, allow \in BOOLEAN : DropFile(p, allow) \/ \E w \in Word : SaveFile(p, w, allow)
           \/ OpenWorkspace
           \/ \E m \in Memo, p \in Place, scoped \in BOOLEAN : Remember(m, p, scoped)
  BY <1>1, <1>2, <1>6, EditsKeep, EditTyped DEF Parts
<1>7. CASE CreateSnapshot
  <2>1. Rollbacks'
    BY <1>2, <1>7, SnapshotIs DEF CreateSnapshot, Parts, Rollbacks, KnownRow
  <2> QED BY <1>1, <1>2, <1>3, <1>7, <2>1, SnapshotIs DEF CreateSnapshot, Parts
<1>8. ASSUME NEW t \in Roller, NEW n \in DOMAIN snapshots, StartRollback(t, n)
      PROVE  Parts'
  BY <1>2, <1>8, StartIs DEF StartRollback, Parts
<1>9. ASSUME NEW t \in Roller, Wiped(t) \/ Copied(t) \/ Embedded(t)
      PROVE  Parts'
  BY <1>2, <1>9, WorksIs, MovedRollbacks DEF Parts
<1>10. ASSUME NEW t \in Roller, BlobsWritten(t) \/ Fails(t) \/ Answer(t)
      PROVE  Parts'
  BY <1>2, <1>3, <1>10, AlsoIs DEF Parts
<1>11. CASE Killed
  <2>1. Rollbacks'
    BY <1>11 DEF Killed, Parts, Rollbacks, RollbackRow, KnownRow
  <2> QED BY <1>1, <1>2, <1>3, <1>11, <2>1 DEF Killed, Parts
<1> QED BY <1>1, <1>5, <1>6, <1>7, <1>8, <1>9, <1>10, <1>11 DEF SnapNext

(* The tables, the snapshots and the rollbacks under way keep their types, *)
(* whatever comes in between of the awaits of a rollback                   *)
(* (createSnapshot, rollbackSnapshot).                                     *)
THEOREM SnapshotsTyped == SnapshotsSpec => []SnapTypeOK
<1>1. SnapInit => SnapInv
  <2> SUFFICES ASSUME SnapInit PROVE SnapInv
    OBVIOUS
  <2>1. snapshots \in Seq(Items)
    BY DEF SnapInit
  <2> QED BY <2>1, SnapshotsAssumption DEF SnapInit, SnapInv, SnapTypeOK, KnownRow
<1>2. SnapInv => SnapTypeOK
  BY DEF SnapInv
<1> QED BY <1>1, <1>2, InvStep, PTL DEF SnapshotsSpec

-----------------------------------------------------------------------------
(* What a rollback that is alone has restored when it awaits. *)

RowsUpTo(n, rest) ==
  \A p \in Place : rows[p] = IF p \in rest THEN Nothing ELSE snapshots[n].rows[p]

CopiesUpTo(n, rest) ==
  \A p \in Place : disk[p] = IF p \in rest \/ snapshots[n].rows[p] = Nothing THEN Nothing
                             ELSE Recoded(snapshots[n].rows[p].word)

NodesUpTo(n, rest) ==
  \A m \in Memo : memos[m] = IF m \in Present(snapshots[n].memos) \ rest THEN RestoredNode(m, n)
                             ELSE Nothing

\* Until the last file is copied, nothing but files is restored.
NoRulesYet(n, nodes) ==
  nodes = Present(snapshots[n].memos) /\ rules = {} /\ links = {} /\ vectors = {}

\* From then on, the files are complete, with their copies and the rules.
FilesDone(n, places) ==
  places = {} /\ rules = snapshots[n].rules /\ CopiesUpTo(n, {})

RestoredTo(row) ==
  /\ RowsUpTo(row.n, row.places) /\ NodesUpTo(row.n, row.nodes)
  /\ row.at \in {"blobs", "wiping"} =>
       row.places = Present(snapshots[row.n].rows) /\ NoRulesYet(row.n, row.nodes)
  /\ row.at = "copying" =>
       /\ NoRulesYet(row.n, row.nodes)
       /\ row.place \in Present(snapshots[row.n].rows) \ row.places
       /\ CopiesUpTo(row.n, row.places \cup {row.place})
  /\ row.at = "embedding" =>
       /\ FilesDone(row.n, row.places) /\ links = {}
       /\ row.node \in Present(snapshots[row.n].memos) \ row.nodes
       /\ vectors = Present(snapshots[row.n].memos) \ (row.nodes \cup {row.node})
  /\ row.at = "restored" =>
       /\ FilesDone(row.n, row.places) /\ links = snapshots[row.n].links
       /\ row.nodes = {} /\ vectors = Present(snapshots[row.n].memos)

Alone(t) == rollback[t] # NoRollback /\ rollback[t].alone

\* A rollback that is alone is the only one, and is as far as its row says.
Restoring ==
  \A t \in Roller : Alone(t) =>
    /\ \A u \in Roller : u # t => ~ Living(u)
    /\ RestoredTo(rollback[t])

(* The next node is restored, or the links are. *)
LEMMA NodeRestores ==
  ASSUME SnapInv, NEW t \in Roller, rollback[t] # NoRollback, UNCHANGED <<snapshots, rows>>,
         NEW n, n = rollback[t].n, NEW nodes, nodes = rollback[t].nodes,
         rollback[t].places = {}, RowsUpTo(n, {}), NodesUpTo(n, nodes), links = {},
         rules' = snapshots[n].rules, CopiesUpTo(n, {})',
         vectors' = Present(snapshots[n].memos) \ nodes,
         NEW row \in InRollback, Move(t, row), NodeStep(t)
  PROVE  RestoredTo(row)'
<1>1. SnapTypeOK /\ KnownRow(rollback[t])
  BY DEF SnapInv
<1>2. rollback'[t] = row /\ row # NoRollback
      /\ n \in DOMAIN snapshots /\ nodes \subseteq Present(snapshots[n].memos)
  <2>1. row # NoRollback
    BY DEF InRollback, NoRollback
  <2>2. row \in RollbackRow
    BY DEF RollbackRow
  <2>3. rollback'[t] = row
    BY <1>1, <2>2, MoveIs
  <2> QED BY <1>1, <2>1, <2>3 DEF KnownRow
<1>3. FilesDone(n, {})'
  BY DEF FilesDone
<1>4. RowsUpTo(n, {})'
  BY DEF RowsUpTo
<1>5. CASE Move(t, NoRollback)
  BY <1>1, <1>2, <1>5, MoveIs DEF RollbackRow
<1>6. ASSUME NEW m \in nodes, NEW next \in InRollback,
             UNCHANGED links, memos' = [memos EXCEPT ![m] = RestoredNode(m, n)],
             Advances(t, next, rollback[t].place, m, "embedding", {}, nodes \ {m})
      PROVE  RestoredTo(row)'
  <2>1. next = row
    BY <1>1, <1>2, <1>6, MoveIs DEF Advances, RollbackRow
  <2>2. /\ row.at = "embedding" /\ row.n = n /\ row.places = {} /\ row.node = m /\ row.nodes = nodes \ {m}
    BY <1>6, <2>1 DEF Advances
  <2>3. m \in Memo /\ m \in Present(snapshots[n].memos)
    BY <1>1, <1>2, NodeRestored
  <2>4. \A k \in Memo : memos'[k] = IF k = m THEN RestoredNode(m, n) ELSE memos[k]
    BY <1>1, <1>6, <2>3 DEF SnapTypeOK
  <2>5. NodesUpTo(n, nodes \ {m})'
    BY <2>3, <2>4 DEF NodesUpTo, Present, RestoredNode
  <2>6. vectors' = Present(snapshots[n].memos) \ (row.nodes \cup {row.node})
    BY <2>2
  <2> QED BY <1>3, <1>4, <1>6, <2>2, <2>3, <2>5, <2>6 DEF RestoredTo, Present
<1>7. ASSUME NEW next \in InRollback, nodes = {}, UNCHANGED memos, links' = links \cup snapshots[n].links,
             Advances(t, next, rollback[t].place, rollback[t].node, "restored", {}, nodes)
      PROVE  RestoredTo(row)'
  <2>1. next = row
    BY <1>1, <1>2, <1>7, MoveIs DEF Advances, RollbackRow
  <2>2. row.at = "restored" /\ row.n = n /\ row.places = {} /\ row.nodes = {}
    BY <1>7, <2>1 DEF Advances
  <2>3. NodesUpTo(n, {})'
    BY <1>7 DEF NodesUpTo, Present, RestoredNode
  <2>4. links' = snapshots[n].links /\ vectors' = Present(snapshots[n].memos)
    BY <1>7
  <2> QED BY <1>3, <1>4, <2>2, <2>3, <2>4 DEF RestoredTo, Present
<1> QED BY <1>5, <1>6, <1>7 DEF NodeStep

(* The next file is restored, or the rules are and what follows.           *)
LEMMA FileRestores ==
  ASSUME SnapInv, NEW t \in Roller, rollback[t] # NoRollback, UNCHANGED snapshots,
         NEW n, n = rollback[t].n, NEW places, places = rollback[t].places,
         RowsUpTo(n, places), NodesUpTo(n, rollback[t].nodes),
         NoRulesYet(n, rollback[t].nodes), CopiesUpTo(n, places)',
         NEW row \in InRollback, Move(t, row),
         RowStep(t) \/ (places = {} /\ RulesStep(t))
  PROVE  RestoredTo(row)'
<1>1. SnapTypeOK /\ KnownRow(rollback[t])
  BY DEF SnapInv
<1>2. rollback'[t] = row /\ row # NoRollback
      /\ n \in DOMAIN snapshots /\ places \subseteq Present(snapshots[n].rows)
  <2>1. row # NoRollback
    BY DEF InRollback, NoRollback
  <2>2. row \in RollbackRow
    BY DEF RollbackRow
  <2>3. rollback'[t] = row
    BY <1>1, <2>2, MoveIs
  <2> QED BY <1>1, <2>1, <2>3 DEF KnownRow
<1>3. CASE Move(t, NoRollback)
  BY <1>1, <1>2, <1>3, MoveIs DEF RollbackRow
<1>4. CASE RowStep(t) /\ ~ Move(t, NoRollback)
  <2>1. PICK p \in places, next \in InRollback :
          /\ rows' = [rows EXCEPT ![p] = snapshots[n].rows[p]]
          /\ Advances(t, next, p, rollback[t].node, "copying", places \ {p}, rollback[t].nodes)
    BY <1>4 DEF RowStep
  <2>2. next = row
    BY <1>1, <1>2, <2>1, MoveIs DEF Advances, RollbackRow
  <2>3. /\ row.at = "copying" /\ row.n = n /\ row.place = p /\ row.places = places \ {p}
        /\ row.nodes = rollback[t].nodes
    BY <2>1, <2>2 DEF Advances
  <2>4. UNCHANGED <<memos, vectors, links, rules>>
    BY <1>4 DEF RowStep
  <2>5. p \in Place /\ \A q \in Place : rows'[q] = IF q = p THEN snapshots[n].rows[p] ELSE rows[q]
    BY <1>1, <1>2, <2>1, OldRows DEF SnapTypeOK, Present
  <2>6. RowsUpTo(n, places \ {p})'
    BY <2>5 DEF RowsUpTo
  <2>7. NodesUpTo(n, row.nodes)' /\ NoRulesYet(n, row.nodes)'
    BY <2>3, <2>4 DEF NodesUpTo, NoRulesYet, Present, RestoredNode
  <2>8. places = row.places \cup {p} /\ p \in Present(snapshots[n].rows) \ row.places
    BY <1>2, <2>1, <2>3
  <2>9. CopiesUpTo(n, row.places \cup {p})'
    BY <2>8
  <2> QED BY <2>3, <2>6, <2>7, <2>8, <2>9 DEF RestoredTo, Present
<1>5. CASE places = {} /\ RulesStep(t) /\ ~ Move(t, NoRollback)
  <2>1. rules' = snapshots[n].rules /\ NodeStep(t) /\ UNCHANGED <<rows, vectors>>
    BY <1>5 DEF RulesStep, NoRulesYet
  <2>2. vectors' = Present(snapshots[n].memos) \ rollback[t].nodes
    BY <2>1 DEF NoRulesYet
  <2>3. links = {} /\ RowsUpTo(n, {}) /\ CopiesUpTo(n, {})'
    BY <1>5 DEF NoRulesYet
  <2> QED BY <1>5, <2>1, <2>2, <2>3, NodeRestores
<1> QED BY <1>3, <1>4, <1>5

(* Who moves, others are no longer alone. *)
LEMMA MoveKeeps ==
  ASSUME SnapInv, Restoring, NEW t \in Roller, NEW row \in RollbackRow, Move(t, row),
         rollback[t] # NoRollback, row # NoRollback => row.alone = rollback[t].alone,
         row # NoRollback /\ row.alone => RestoredTo(row)'
  PROVE  Restoring'
<1>1. SnapTypeOK
  BY DEF SnapInv
<1>2. rollback'[t] = row /\ \A u \in Roller : u # t =>
        rollback'[u].at = rollback[u].at /\ (rollback'[u] = NoRollback \/ rollback'[u].alone = FALSE)
  BY <1>1, MoveIs
<1>3. ASSUME NEW u \in Roller, Alone(u)' PROVE u = t /\ row.alone /\ row # NoRollback /\ Alone(t)
  BY <1>2, <1>3 DEF Alone
<1>4. ASSUME NEW u \in Roller, Alone(u)'
      PROVE  (\A v \in Roller : v # u => ~ Living(v)') /\ RestoredTo(rollback[u])'
  <2>1. u = t /\ row.alone /\ row # NoRollback /\ Alone(t) /\ RestoredTo(row)'
    BY <1>3, <1>4
  <2>2. \A v \in Roller : v # t => ~ Living(v)
    BY <2>1 DEF Restoring
  <2>3. \A v \in Roller : v # u => ~ Living(v)'
    BY <1>2, <2>1, <2>2 DEF Living
  <2> QED BY <1>2, <2>1, <2>3
<1> QED BY <1>4 DEF Restoring

(* Every step keeps what the rollback that is alone has restored. *)
LEMMA RestoringStep == SnapInv /\ Restoring /\ [SnapNext]_snapVars => Restoring'
<1> SUFFICES ASSUME SnapInv, Restoring, [SnapNext]_snapVars PROVE Restoring'
  OBVIOUS
<1>1. SnapTypeOK
  BY DEF SnapInv
<1>2. CASE UNCHANGED snapVars
  BY <1>2 DEF snapVars, tables, Restoring, Alone, Living, RestoredTo, RowsUpTo, NodesUpTo, CopiesUpTo,
              NoRulesYet, FilesDone, RestoredNode
<1>3. ASSUME Edit PROVE Restoring'
  <2>1. \A u \in Roller : ~ Alone(u)'
    <3>1. rollback' = Disturbed(Nothing) /\ Nothing \notin Roller
      BY <1>3, SnapshotsAssumption DEF Edit
    <3> QED BY <1>1, <3>1, DisturbedIs DEF Alone
  <2> QED BY <2>1 DEF Restoring
<1>4. CASE CreateSnapshot
  <2>1. UNCHANGED <<tables, rollback>> /\ \A n \in DOMAIN snapshots : snapshots'[n] = snapshots[n]
    BY <1>4, SnapshotIs DEF CreateSnapshot
  <2>2. ASSUME NEW u \in Roller, Alone(u)'
        PROVE  RestoredTo(rollback[u])' /\ \A v \in Roller : v # u => ~ Living(v)'
    <3>1. PICK row : row = rollback[u] OBVIOUS
    <3>2. Alone(u) /\ RestoredTo(row) /\ (\A v \in Roller : v # u => ~ Living(v)) /\ row.n \in DOMAIN snapshots
      BY <2>1, <2>2, <3>1 DEF Restoring, Alone, SnapInv, KnownRow
    <3>3. RestoredTo(row)'
      BY <2>1, <3>2 DEF tables, RestoredTo, RowsUpTo, NodesUpTo, CopiesUpTo, NoRulesYet, FilesDone,
                                RestoredNode, Present
    <3> QED BY <2>1, <3>1, <3>2, <3>3 DEF Living
  <2> QED BY <2>2 DEF Restoring
<1>5. ASSUME NEW t \in Roller, NEW n \in DOMAIN snapshots, StartRollback(t, n) PROVE Restoring'
  <2>1. PICK row : row = rollback'[t] OBVIOUS
  <2>2. /\ row.at = "blobs" /\ row.n = n /\ row.places = Present(snapshots[n].rows)
        /\ row.nodes = Present(snapshots[n].memos)
        /\ row.alone => \A u \in Roller : ~ Living(u)
        /\ \A u \in Roller : u # t =>
              rollback'[u].at = rollback[u].at /\ (rollback'[u] = NoRollback \/ rollback'[u].alone = FALSE)
    BY <1>5, <2>1, StartIs
  <2>3. RowsUpTo(n, row.places)'
    BY <1>1, <1>5, <2>2, OldRows DEF StartRollback, RowsUpTo, Present
  <2>4. NodesUpTo(n, row.nodes)' /\ NoRulesYet(n, row.nodes)'
    BY <1>5, <2>2 DEF StartRollback, NodesUpTo, NoRulesYet, Present
  <2>5. RestoredTo(row)'
    BY <1>5, <2>2, <2>3, <2>4 DEF StartRollback, RestoredTo, Present
  <2>6. ASSUME NEW u \in Roller, Alone(u)'
        PROVE  RestoredTo(rollback[u])' /\ \A v \in Roller : v # u => ~ Living(v)'
    <3>1. u = t /\ row.alone
      BY <2>1, <2>2, <2>6 DEF Alone
    <3>2. \A v \in Roller : v # u => ~ Living(v)'
      BY <2>2, <3>1 DEF Living
    <3> QED BY <2>1, <2>5, <3>1, <3>2
  <2> QED BY <2>6 DEF Restoring
<1>6. ASSUME NEW t \in Roller, Wiped(t) \/ Copied(t) PROVE Restoring'
  <2>1. UNCHANGED snapshots /\ rollback[t] # NoRollback /\ RestoreRowsThenRules(t)
    BY <1>6 DEF Wiped, Copied, NoRollback
  <2>2. RowStep(t) \/ (rollback[t].places = {} /\ RulesStep(t))
    BY <2>1, RestoreIs
  <2>3. PICK row \in RollbackRow :
          /\ Move(t, row)
          /\ row # NoRollback => row \in InRollback /\ row.alone = rollback[t].alone
    BY <2>2 DEF RowStep, RulesStep, NodeStep, Advances, RollbackRow
  <2>4. ASSUME row # NoRollback, row.alone PROVE RestoredTo(row)'
    <3>1. PICK n, places, nodes : n = rollback[t].n /\ places = rollback[t].places /\ nodes = rollback[t].nodes
      OBVIOUS
    <3>2. Alone(t) /\ RestoredTo(rollback[t])
          /\ n \in DOMAIN snapshots /\ places \subseteq Present(snapshots[n].rows)
      BY <2>1, <2>3, <2>4, <3>1 DEF Alone, Restoring, SnapInv, KnownRow
    <3>3. RowsUpTo(n, places) /\ NodesUpTo(n, nodes) /\ NoRulesYet(n, nodes)
      BY <1>6, <3>1, <3>2 DEF RestoredTo, Wiped, Copied
    <3>4. CopiesUpTo(n, places)'
      <4>1. CASE Wiped(t)
        <5>1. places = Present(snapshots[n].rows) /\ DOMAIN snapshots[n].rows = Place
          BY <1>1, <3>1, <3>2, <4>1, OldRows DEF Wiped, RestoredTo
        <5> QED BY <2>1, <4>1, <5>1 DEF Wiped, CopiesUpTo, Present
      <4>2. CASE Copied(t)
        <5>1. PICK p : p = rollback[t].place OBVIOUS
        <5>2. p \in Present(snapshots[n].rows) \ places /\ CopiesUpTo(n, places \cup {p})
          BY <3>1, <3>2, <4>2, <5>1 DEF Copied, RestoredTo
        <5>3. p \in Place
          BY <1>1, <3>2, <5>2, OldRows DEF Present
        <5>4. \A q \in Place : disk'[q] = IF q = p THEN Recoded(snapshots[n].rows[p].word) ELSE disk[q]
          BY <1>1, <3>1, <4>2, <5>1, <5>3 DEF Copied, SnapTypeOK
        <5>5. p \notin places /\ snapshots[n].rows[p] # Nothing
          BY <5>2 DEF Present
        <5>6. \A q \in Place : disk[q] = IF q \in places \cup {p} \/ snapshots[n].rows[q] = Nothing THEN Nothing
                                         ELSE Recoded(snapshots[n].rows[q].word)
          BY <5>2 DEF CopiesUpTo
        <5>7. ASSUME NEW q \in Place
              PROVE  disk'[q] = IF q \in places \/ snapshots[n].rows[q] = Nothing THEN Nothing
                                ELSE Recoded(snapshots[n].rows[q].word)
          BY <5>4, <5>5, <5>6
        <5> QED BY <2>1, <5>7 DEF CopiesUpTo
      <4> QED BY <1>6, <4>1, <4>2
    <3> QED BY <2>1, <2>2, <2>3, <2>4, <3>1, <3>3, <3>4, FileRestores
  <2> QED BY <2>1, <2>3, <2>4, MoveKeeps
<1>7. ASSUME NEW t \in Roller, Embedded(t) PROVE Restoring'
  <2>1. UNCHANGED <<rows, disk, rules, snapshots>> /\ rollback[t] # NoRollback
    BY <1>7 DEF Embedded, NoRollback
  <2>2. \/ Move(t, NoRollback)
        \/ vectors' = vectors \cup {rollback[t].node} /\ NodeStep(t)
    BY <1>7, <2>1, RestoreNodesIs DEF Embedded, Break
  <2>3. PICK row \in RollbackRow :
          /\ Move(t, row)
          /\ row # NoRollback => row \in InRollback /\ row.alone = rollback[t].alone
    BY <2>2 DEF NodeStep, Advances, RollbackRow
  <2>4. ASSUME row # NoRollback, row.alone PROVE RestoredTo(row)'
    <3>1. PICK n, nodes, m : n = rollback[t].n /\ nodes = rollback[t].nodes /\ m = rollback[t].node
      OBVIOUS
    <3>2. Alone(t) /\ RestoredTo(rollback[t])
      BY <2>1, <2>3, <2>4 DEF Alone, Restoring
    <3>3. /\ rollback[t].places = {} /\ RowsUpTo(n, {}) /\ NodesUpTo(n, nodes) /\ FilesDone(n, {}) /\ links = {}
          /\ m \in Present(snapshots[n].memos) \ nodes
          /\ vectors = Present(snapshots[n].memos) \ (nodes \cup {m})
      BY <1>7, <3>1, <3>2 DEF Embedded, RestoredTo, FilesDone
    <3>4. rules' = snapshots[n].rules /\ CopiesUpTo(n, {})'
      BY <2>1, <3>3 DEF FilesDone, CopiesUpTo
    <3>5. rollback'[t] = row
      BY <1>1, <2>3, MoveIs
    <3>6. ~ Move(t, NoRollback)
      BY <1>1, <2>4, <3>5, MoveIs DEF RollbackRow
    <3>7. vectors' = Present(snapshots[n].memos) \ nodes /\ NodeStep(t)
      BY <2>2, <3>1, <3>3, <3>6
    <3> QED BY <2>1, <2>3, <2>4, <3>1, <3>3, <3>4, <3>7, NodeRestores
  <2> QED BY <2>1, <2>3, <2>4, MoveKeeps
<1>8. ASSUME NEW t \in Roller, BlobsWritten(t) \/ Fails(t) \/ Answer(t) PROVE Restoring'
  <2>1. /\ UNCHANGED <<tables, snapshots>> /\ rollback[t] # NoRollback
        /\ \A u \in Roller : u # t => rollback'[u] = rollback[u]
        /\ \/ rollback'[t] = NoRollback
           \/ /\ rollback[t].at = "blobs" /\ rollback'[t].at = "wiping"
              /\ rollback'[t].n = rollback[t].n /\ rollback'[t].alone = rollback[t].alone
              /\ rollback'[t].places = rollback[t].places /\ rollback'[t].nodes = rollback[t].nodes
    BY <1>8, AlsoIs
  <2>2. \A u \in Roller : Living(u)' => Living(u)
    BY <1>1, <2>1 DEF Living, NoRollback, SnapTypeOK, InRollback
  <2>3. ASSUME NEW u \in Roller, Alone(u)'
        PROVE  RestoredTo(rollback[u])' /\ \A v \in Roller : v # u => ~ Living(v)'
    <3>1. Alone(u)
      BY <2>1, <2>3 DEF Alone
    <3>2. PICK old, new : old = rollback[u] /\ new = rollback'[u]
      OBVIOUS
    <3>3. RestoredTo(old) /\ \A v \in Roller : v # u => ~ Living(v)
      BY <3>1, <3>2 DEF Restoring
    <3>4. RestoredTo(new)
      BY <2>1, <2>3, <3>2, <3>3 DEF RestoredTo, Alone
    <3>5. RestoredTo(new)'
      BY <2>1, <3>4 DEF tables, RestoredTo, RowsUpTo, NodesUpTo, CopiesUpTo, NoRulesYet, FilesDone,
                                RestoredNode, Present
    <3> QED BY <2>2, <3>2, <3>3, <3>5
  <2> QED BY <2>3 DEF Restoring
<1>9. CASE Killed
  BY <1>9 DEF Killed, Restoring, Alone
<1> QED BY <1>2, <1>3, <1>4, <1>5, <1>6, <1>7, <1>8, <1>9, EditsKeep DEF SnapNext

(* A rollback that answers, and that nothing came in between of, has       *)
(* restored the snapshot: files, rules, links and nodes, but for what it   *)
(* does not write, and copies and embeddings with them (rollbackSnapshot). *)
THEOREM Restores == SnapshotsSpec => []RollbackRestores
<1>1. SnapInit => SnapInv /\ Restoring
  <2> SUFFICES ASSUME SnapInit PROVE SnapInv /\ Restoring
    OBVIOUS
  <2>1. snapshots \in Seq(Items)
    BY DEF SnapInit
  <2> QED BY <2>1, SnapshotsAssumption DEF SnapInit, SnapInv, SnapTypeOK, KnownRow, Restoring, Alone
<1>2. SnapInv /\ Restoring => RollbackRestores
  <2> SUFFICES ASSUME SnapInv, Restoring, NEW t \in Roller, rollback[t].at = "restored", rollback[t].alone,
                      NEW n, n = rollback[t].n
               PROVE  /\ DiffItems(snapshots[n], CurrentItems).places = {}
                      /\ DiffItems(snapshots[n], CurrentItems).rules = {}
                      /\ DiffItems(snapshots[n], CurrentItems).links = {}
                      /\ \A m \in DiffItems(snapshots[n], CurrentItems).nodes :
                           /\ snapshots[n].memos[m] # Nothing /\ snapshots[n].memos[m].scoped
                           /\ memos[m] = RestoredNode(m, n)
                      /\ vectors = Present(memos)
                      /\ \A p \in Place :
                           IF rows[p] = Nothing THEN disk[p] = Nothing
                           ELSE rows[p].word \notin Raw => disk[p] = rows[p].word
    BY DEF RollbackRestores
  <2>1. Alone(t) /\ SnapTypeOK /\ KnownRow(rollback[t])
    BY DEF SnapInv, Alone, NoRollback
  <2>2. /\ RowsUpTo(n, {}) /\ NodesUpTo(n, {}) /\ rules = snapshots[n].rules /\ CopiesUpTo(n, {})
        /\ links = snapshots[n].links /\ vectors = Present(snapshots[n].memos)
        /\ n \in DOMAIN snapshots
    BY <2>1 DEF Restoring, RestoredTo, FilesDone, KnownRow, Alone
  <2>3. \A p \in Place : rows[p] = snapshots[n].rows[p]
    BY <2>2 DEF RowsUpTo
  <2>4. \A m \in Memo : IF m \in Present(snapshots[n].memos)
                        THEN memos[m] = RestoredNode(m, n) /\ memos[m] # Nothing
                        ELSE memos[m] = Nothing /\ snapshots[n].memos[m] = Nothing
    BY <2>1, <2>2, NodeRestored, OldRows DEF NodesUpTo, Present
  <2>5. vectors = Present(memos)
    BY <2>1, <2>2, <2>4, OldRows DEF Present, SnapTypeOK
  <2>6. \A p \in Place : IF rows[p] = Nothing THEN disk[p] = Nothing
                         ELSE rows[p].word \notin Raw => disk[p] = rows[p].word
    BY <2>2, <2>3 DEF CopiesUpTo, Recoded
  <2>7. ASSUME NEW m \in Memo, snapshots[n].memos[m] # memos[m]
        PROVE  /\ snapshots[n].memos[m] # Nothing /\ snapshots[n].memos[m].scoped
               /\ memos[m] = RestoredNode(m, n)
    BY <2>1, <2>2, <2>4, <2>7, NodeRestored DEF Present
  <2> QED BY <2>2, <2>3, <2>5, <2>6, <2>7 DEF DiffItems, CurrentItems
<1> QED BY <1>1, <1>2, InvStep, RestoringStep, PTL DEF SnapshotsSpec
=============================================================================
