----------------------------- MODULE Snapshots -----------------------------
(***************************************************************************)
(* Snapshots of a workspace and the rollback to one (class VeriFS,         *)
(* packages/core/src/index.ts).  createSnapshot copies the tables in one   *)
(* synchronous segment.  rollbackSnapshot empties them in another, and     *)
(* then restores blobs, files, rules, memories and links one by one, with  *)
(* an await after each and no transaction: other requests, another         *)
(* rollback or the end of the process may come in between.                 *)
(*                                                                         *)
(* Extracted sources, artifacts and graph edges are restored as the links  *)
(* are and are not kept apart.  Blobs are never deleted, so that restoring *)
(* them is an await that changes nothing the model holds.                  *)
(***************************************************************************)
EXTENDS Naturals, Sequences

CONSTANTS
  Place,          \* file paths, normalised
  Word,           \* file contents; a content stands for its SHA-256 too
  Defaults,       \* the paths createWorkspace protects
  Raw,            \* contents that are not UTF-8
  Mangled,        \* what decoding and encoding makes of them
  Memo,           \* ids of memory nodes
  Roller,         \* rollbacks that may be in flight together
  Cascades,       \* does SQLite enforce foreign keys on this connection?
  MaxSnapshots,   \* bound on snapshots
  MaxEdits,       \* bound on requests other than snapshots and rollbacks
  MaxRollbacks,   \* bound on rollbacks
  Nothing

ASSUME SnapshotsAssumption ==
  /\ Defaults \subseteq Place
  /\ Raw \subseteq Word /\ Mangled \notin Word
  /\ Cascades \in BOOLEAN
  /\ MaxSnapshots \in Nat /\ MaxEdits \in Nat /\ MaxRollbacks \in Nat
  /\ Nothing \notin [id : Nat, word : Word] \cup [home : Nat, scoped : BOOLEAN] \cup Word \cup {Mangled}
  /\ Nothing \notin Roller

VARIABLES
  rows,       \* the files table: path -> row
  disk,       \* the copies in the workspace directory
  memos,      \* the memory_nodes table: id -> row
  vectors,    \* nodes whose embeddings are stored
  links,      \* memory_links: pairs of nodes
  rules,      \* protected_paths
  snapshots,  \* the snapshots and their items, oldest first
  rollback,   \* roller -> the rollback it runs
  nextRow,    \* next random file id
  edits, rollbacks

tables == <<rows, disk, memos, vectors, links, rules>>
snapVars == <<tables, snapshots, rollback, nextRow, edits, rollbacks>>

FileOf == [id : Nat, word : Word]
\* "home" is the source_file_id; a scoped node has a value in a column that
\* the rollback does not write (validity, conflict and scope columns).
NodeOf == [home : Nat, scoped : BOOLEAN]
Items == [rows : [Place -> FileOf \cup {Nothing}], memos : [Memo -> NodeOf \cup {Nothing}],
          links : SUBSET (Memo \X Memo), rules : SUBSET Place]

NoRollback == [at |-> "none"]
InRollback == [at : {"blobs", "wiping", "copying", "embedding", "restored"}, n : Nat,
               places : SUBSET Place, nodes : SUBSET Memo,
               place : Place \cup {Nothing}, node : Memo \cup {Nothing},
               alone : BOOLEAN]   \* history: nothing else changed the tables since

SnapTypeOK ==
  /\ rows \in [Place -> FileOf \cup {Nothing}]
  /\ disk \in [Place -> Word \cup {Mangled, Nothing}]
  /\ memos \in [Memo -> NodeOf \cup {Nothing}]
  /\ vectors \subseteq Memo
  /\ links \subseteq Memo \X Memo
  /\ rules \subseteq Place
  /\ snapshots \in Seq(Items)
  /\ rollback \in [Roller -> {NoRollback} \cup InRollback]
  /\ nextRow \in Nat /\ edits \in 0 .. MaxEdits /\ rollbacks \in 0 .. MaxRollbacks

SnapInit ==
  /\ rows = [p \in Place |-> Nothing] /\ disk = [p \in Place |-> Nothing]
  /\ memos = [m \in Memo |-> Nothing]
  /\ vectors = {} /\ links = {} /\ rules = Defaults
  /\ snapshots = <<>>
  /\ rollback = [t \in Roller |-> NoRollback]
  /\ nextRow = 0 /\ edits = 0 /\ rollbacks = 0

---------------------------------------------------------------------------
(* Other requests, each as one step: their own awaits are FileStore's.     *)

Living(t) == rollback[t].at # "none"

\* The rollbacks under way, once somebody else has changed the tables.
Disturbed(who) ==
  [t \in Roller |-> IF Living(t) /\ t # who THEN [rollback[t] EXCEPT !.alone = FALSE] ELSE rollback[t]]

Edit ==
  /\ edits < MaxEdits
  /\ edits' = edits + 1
  /\ rollback' = Disturbed(Nothing)
  /\ UNCHANGED <<snapshots, rollbacks>>

SaveFile(p, w, allow) ==
  /\ Edit
  /\ p \in rules => allow
  /\ rows' = [rows EXCEPT ![p] = [id |-> IF @ = Nothing THEN nextRow ELSE @.id, word |-> w]]
  /\ nextRow' = IF rows[p] = Nothing THEN nextRow + 1 ELSE nextRow
  /\ disk' = [disk EXCEPT ![p] = w]
  /\ UNCHANGED <<memos, vectors, links, rules>>

\* Nodes of a deleted file go with it where foreign keys are enforced.
Orphans(id) == IF Cascades THEN {m \in Memo : memos[m] # Nothing /\ memos[m].home = id} ELSE {}

DropFile(p, allow) ==
  /\ Edit
  /\ rows[p] # Nothing /\ (p \in rules => allow)
  /\ LET gone == Orphans(rows[p].id) IN
       /\ memos' = [m \in Memo |-> IF m \in gone THEN Nothing ELSE memos[m]]
       /\ vectors' = vectors \ gone
       /\ links' = {l \in links : l[1] \notin gone /\ l[2] \notin gone}
  /\ rows' = [rows EXCEPT ![p] = Nothing]
  /\ disk' = [disk EXCEPT ![p] = Nothing]
  /\ UNCHANGED <<rules, nextRow>>

\* A memory is extracted from a file, and linked with the ones there are.
Remember(m, p, scoped) ==
  /\ Edit
  /\ rows[p] # Nothing /\ memos[m] = Nothing
  /\ memos' = [memos EXCEPT ![m] = [home |-> rows[p].id, scoped |-> scoped]]
  /\ vectors' = vectors \cup {m}
  /\ links' = links \cup {<<m, n>> : n \in {k \in Memo : memos[k] # Nothing}}
  /\ UNCHANGED <<rows, disk, rules, nextRow>>

\* createWorkspace, called again with the name the workspace has, adds the
\* default rules that are missing.
OpenWorkspace ==
  /\ Edit
  /\ rules' = rules \cup Defaults
  /\ UNCHANGED <<rows, disk, memos, vectors, links, nextRow>>

---------------------------------------------------------------------------
CurrentItems == [rows |-> rows, memos |-> memos, links |-> links, rules |-> rules]

CreateSnapshot ==
  /\ Len(snapshots) < MaxSnapshots
  /\ snapshots' = Append(snapshots, CurrentItems)
  /\ UNCHANGED <<tables, rollback, nextRow, edits, rollbacks>>

(* diffSnapshot: the items that were added, removed or changed since.      *)
DiffItems(old, new) ==
  [places |-> {p \in Place : old.rows[p] # new.rows[p]},
   nodes |-> {m \in Memo : old.memos[m] # new.memos[m]},
   links |-> (old.links \ new.links) \cup (new.links \ old.links),
   rules |-> (old.rules \ new.rules) \cup (new.rules \ old.rules)]

Present(f) == {x \in DOMAIN f : f[x] # Nothing}

(* rollbackSnapshot empties the tables; a dry run would end here, with the *)
(* diff.  Then it writes the blobs.                                        *)
StartRollback(t, n) ==
  /\ rollbacks < MaxRollbacks
  /\ rollback[t] = NoRollback /\ n \in DOMAIN snapshots
  /\ rollbacks' = rollbacks + 1
  /\ links' = {} /\ vectors' = {} /\ memos' = [m \in Memo |-> Nothing]
  /\ rows' = [p \in Place |-> Nothing]
  /\ rules' = {}
  /\ rollback' = [Disturbed(t) EXCEPT ![t] =
       [at |-> "blobs", n |-> n, places |-> Present(snapshots[n].rows), nodes |-> Present(snapshots[n].memos),
        place |-> Nothing, node |-> Nothing, alone |-> \A u \in Roller : ~Living(u)]]
  /\ UNCHANGED <<disk, snapshots, nextRow, edits>>

Move(t, fields) == rollback' = [Disturbed(t) EXCEPT ![t] = fields]

\* A failed INSERT throws, and the rollback ends as it is.
Break(t) == Move(t, NoRollback)

\* The INSERT of a files row: both the id and the path are unique.
RestoreRow(t) ==
  /\ \E p \in rollback[t].places :
       LET row == snapshots[rollback[t].n].rows[p] IN
       IF rows[p] # Nothing \/ \E q \in Place : rows[q] # Nothing /\ rows[q].id = row.id
       THEN Break(t) /\ UNCHANGED rows
       ELSE /\ rows' = [rows EXCEPT ![p] = row]
            /\ Move(t, [rollback[t] EXCEPT !.at = "copying", !.place = p, !.places = @ \ {p}])
  /\ UNCHANGED <<memos, vectors, links, rules>>

RestoredNode(m, n) == [snapshots[n].memos[m] EXCEPT !.scoped = FALSE]

HasHome(row) == \E p \in Place : rows[p] # Nothing /\ rows[p].id = row.home

\* The INSERT of a node, whose embeddings are then awaited.
RestoreNode(t) ==
  /\ \E m \in rollback[t].nodes :
       LET row == RestoredNode(m, rollback[t].n) IN
       IF memos[m] # Nothing \/ (Cascades /\ ~HasHome(row))
       THEN Break(t) /\ UNCHANGED memos
       ELSE /\ memos' = [memos EXCEPT ![m] = row]
            /\ Move(t, [rollback[t] EXCEPT !.at = "embedding", !.node = m, !.nodes = @ \ {m}])
  /\ UNCHANGED links

\* The links come last.
RestoreLinks(t) ==
  LET old == snapshots[rollback[t].n].links IN
  /\ IF old \cap links # {} \/ (Cascades /\ \E l \in old : Nothing \in {memos[l[1]], memos[l[2]]})
     THEN Break(t) /\ UNCHANGED links
     ELSE /\ links' = links \cup old
          /\ Move(t, [rollback[t] EXCEPT !.at = "restored"])
  /\ UNCHANGED memos

RestoreNodesThenLinks(t) ==
  IF rollback[t].nodes # {} THEN RestoreNode(t) ELSE RestoreLinks(t)

\* After the files, the rules: one that was added again stops it.
RestoreRules(t) ==
  LET old == snapshots[rollback[t].n].rules IN
  /\ IF old \cap rules # {}
     THEN /\ \E some \in SUBSET (old \ rules) : rules' = rules \cup some
          /\ Break(t) /\ UNCHANGED <<memos, links>>
     ELSE /\ rules' = rules \cup old
          /\ RestoreNodesThenLinks(t)
  /\ UNCHANGED <<rows, vectors>>

RestoreRowsThenRules(t) ==
  IF rollback[t].places # {} THEN RestoreRow(t) ELSE RestoreRules(t)

BlobsWritten(t) ==
  /\ rollback[t].at = "blobs"
  /\ rollback' = [rollback EXCEPT ![t].at = "wiping"]
  /\ UNCHANGED <<tables, snapshots, nextRow, edits, rollbacks>>

KeepsCopies(t) ==
  /\ rollback[t].at = "wiping"
  /\ RestoreRowsThenRules(t)
  /\ UNCHANGED <<disk, snapshots, nextRow, edits, rollbacks>>

\* The workspace directory is gone.
Wiped(t) ==
  /\ rollback[t].at = "wiping"
  /\ disk' = [p \in Place |-> Nothing]
  /\ RestoreRowsThenRules(t)
  /\ UNCHANGED <<snapshots, nextRow, edits, rollbacks>>

\* The copy is written from the text of the blob: decoded and encoded.
Recoded(w) == IF w \in Raw THEN Mangled ELSE w

Copied(t) ==
  /\ rollback[t].at = "copying"
  /\ LET p == rollback[t].place IN
       disk' = [disk EXCEPT ![p] = Recoded(snapshots[rollback[t].n].rows[p].word)]
  /\ RestoreRowsThenRules(t)
  /\ UNCHANGED <<snapshots, nextRow, edits, rollbacks>>

\* The embeddings are stored, unless the node is gone.
Embedded(t) ==
  /\ rollback[t].at = "embedding"
  /\ LET m == rollback[t].node IN
       IF Cascades /\ memos[m] = Nothing
       THEN Break(t) /\ UNCHANGED <<memos, vectors, links>>
       ELSE vectors' = vectors \cup {m} /\ RestoreNodesThenLinks(t)
  /\ UNCHANGED <<rows, disk, rules, snapshots, nextRow, edits, rollbacks>>

\* A disk write or the embedding service fails.
Fails(t) ==
  /\ rollback[t].at \in {"blobs", "wiping", "copying", "embedding"}
  /\ rollback' = [rollback EXCEPT ![t] = NoRollback]
  /\ UNCHANGED <<tables, snapshots, nextRow, edits, rollbacks>>

Answer(t) ==
  /\ rollback[t].at = "restored"
  /\ rollback' = [rollback EXCEPT ![t] = NoRollback]
  /\ UNCHANGED <<tables, snapshots, nextRow, edits, rollbacks>>

\* The process ends; nothing finds out at the next start that a rollback was
\* under way.
Killed ==
  /\ rollback' = [t \in Roller |-> NoRollback]
  /\ UNCHANGED <<tables, snapshots, nextRow, edits, rollbacks>>

SnapNext ==
  \/ \E p \in Place, allow \in BOOLEAN : DropFile(p, allow) \/ \E w \in Word : SaveFile(p, w, allow)
  \/ OpenWorkspace
  \/ \E m \in Memo, p \in Place, scoped \in BOOLEAN : Remember(m, p, scoped)
  \/ CreateSnapshot
  \/ \E t \in Roller, n \in DOMAIN snapshots : StartRollback(t, n)
  \/ \E t \in Roller :
       BlobsWritten(t) \/ Wiped(t) \/ Copied(t) \/ Embedded(t) \/ Fails(t) \/ Answer(t)
  \/ Killed

---------------------------------------------------------------------------
(* A rollback that says it restored the snapshot, and that nothing came in *)
(* between of, leaves no difference to it but in the columns it does not   *)
(* write; every node can be found by its embeddings and every copy of a    *)
(* text holds it.  This is so whatever it starts from, the half-restored   *)
(* tables a broken rollback leaves included.                               *)
RollbackRestores ==
  \A t \in Roller :
    rollback[t].at = "restored" /\ rollback[t].alone =>
      LET old == snapshots[rollback[t].n]
          diff == DiffItems(old, CurrentItems) IN
      /\ diff.places = {} /\ diff.rules = {} /\ diff.links = {}
      /\ \A m \in diff.nodes : old.memos[m] # Nothing /\ old.memos[m].scoped /\ memos[m] = RestoredNode(m, rollback[t].n)
      /\ vectors = Present(memos)
      /\ \A p \in Place :
           IF rows[p] = Nothing THEN disk[p] = Nothing
           ELSE rows[p].word \notin Raw => disk[p] = rows[p].word

=============================================================================
