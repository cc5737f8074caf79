---------------------------- MODULE MCServices ----------------------------
(***************************************************************************)
(* The components beside the file store, the review and the mount, for     *)
(* TLC.  They share no state; a behaviour is one of one of them, so that   *)
(* their states add up instead of multiplying.                             *)
(***************************************************************************)
EXTENDS Sync, Snapshots, Runs, Recall, Models, Chunks, Team, Archive, Schema, Curation, TLC

CONSTANT Spare   \* memories only the graph searches have

VARIABLE part    \* the component whose behaviour this is

OverGraph == {"graph", "recall", "health"}

(* Graphs to start with, up to renaming of memories and files, which are   *)
(* numbers here, and up to the direction of their links, which no search   *)
(* heeds: the searches have every memory, the spare ones in a file of      *)
(* their own; recalls have no spare ones.                                  *)
GraphShape ==
  /\ \A i \in DOMAIN edges : edges[i].from < edges[i].to
  /\ CASE part = "graph"  -> \A n \in GNode : gnode[n] # NoNode /\
                               gnode[n].home = (IF n \in Spare THEN 2 ELSE 1)
       [] part = "recall" -> /\ \A n \in GNode : (gnode[n] = NoNode) = (n \in Spare)
                             /\ gnode[1].home = 1 /\ Len(edges) = 1
       [] part = "health" -> edges = <<>> /\ \A n \in Spare : gnode[n] = NoNode
       [] OTHER           -> \A n \in GNode : gnode[n] = NoNode

Fits ==
  IF part = "graph" THEN gmoves <= 1
  ELSE Len(edges) <= 2 /\ \A n \in Spare : gnode[n] = NoNode

(* The text of a delete, and the provider of a team that is not secured,   *)
(* make no difference: one is enough.                                      *)
MCInit ==
  /\ part \in OverGraph \cup {"sync", "snapshots", "runs", "models", "chunks", "team", "archive",
                         "schema", "replies", "candidates"}
  /\ SyncInit /\ (part # "sync" => hub = <<>>)
  /\ \A i \in DOMAIN hub : hub[i].op = "delete" => hub[i].text = Blank
  /\ SnapInit /\ RunInit /\ ModelsInit /\ ChunksInit /\ ArchiveInit
  /\ TeamInit /\ (part # "team" => ~secured) /\ (~secured => provider = "none")
  /\ RecallInit /\ GraphShape /\ Fits
  /\ SchemaInit(IF part = "schema" THEN Databases ELSE {Empty})
  /\ CurationInit(IF part = "replies" THEN Reply ELSE {NoReply})

MCNext ==
  /\ UNCHANGED part
  /\ IF part = "sync" THEN SyncNext ELSE UNCHANGED syncVars
  /\ IF part = "snapshots" THEN SnapNext ELSE UNCHANGED snapVars
  /\ IF part = "runs" THEN RunNext ELSE UNCHANGED runVars
  /\ IF part = "models" THEN ModelsNext ELSE UNCHANGED modelVars
  /\ IF part = "chunks" THEN ChunksNext ELSE UNCHANGED chunkVars
  /\ IF part = "team" THEN TeamNext ELSE UNCHANGED teamVars
  /\ IF part = "archive" THEN ArchiveNext ELSE UNCHANGED archiveVars
  /\ IF part = "schema" THEN SchemaNext ELSE UNCHANGED schemaVars
  /\ CASE part = "replies"    -> Validate
       [] part = "candidates" -> CandidateNext
       [] OTHER               -> UNCHANGED curationVars
  /\ CASE part = "graph"  -> GraphNext /\ UNCHANGED <<asks, since, health, asked>>
       [] part = "recall" -> RecallNext /\ \E a \in Asker : asks[a].at \notin {"answered", "failed"}
       [] part = "health" -> HealthNext
       [] OTHER           -> UNCHANGED recallVars
  /\ Fits'

Spec ==
  MCInit /\ [][MCNext]_<<syncVars, snapVars, runVars, modelVars, chunkVars, teamVars,
                         archiveVars, schemaVars, curationVars, recallVars, part>>

(* Every variable of the components keeps its type: rows, events, records  *)
(* and requests are of the shapes the tables and handlers have.            *)
TypeOK ==
  /\ SyncTypeOK /\ SnapTypeOK /\ RunTypeOK
  /\ RecallTypeOK
  /\ ModelsTypeOK /\ ChunksTypeOK /\ TeamTypeOK /\ ArchiveTypeOK
  /\ SchemaTypeOK /\ CurationTypeOK

===========================================================================
