------------------------------- MODULE Models -------------------------------
(***************************************************************************)
(* The model calls of the memory package: extraction by a remote chat      *)
(* model, and embedding by a remote model, then a local pipeline that is   *)
(* loaded once and shared, then the deterministic vector.                  *)
(*                                                                         *)
(* A vector is the space it lies in; prompts and texts are left out.  The  *)
(* network and the pipeline's library answer, fail, or never answer.       *)
(***************************************************************************)
EXTENDS Naturals, Sequences, FiniteSets

CONSTANTS
  Model,       \* local embedding models that options name
  Caller,      \* concurrent calls
  MaxLoads     \* bound: pipeline loads

VARIABLES
  calls,       \* caller -> its call
  pipelines,   \* localEmbeddingPipelines: model -> load or NoLoad
  loads        \* the loads so far, oldest first: model and how it stands
modelVars == <<calls, pipelines, loads>>

ASSUME ModelsAssumption == MaxLoads \in Nat

NoLoad == 0

\* MemoryModelOptions and the environment, as far as they choose the way.
CallOptions == [remote : BOOLEAN, local : BOOLEAN, strict : BOOLEAN, model : Model]

NoCall == [at |-> "idle", kind |-> "none", options |-> {}, load |-> NoLoad, answer |-> "none"]

Update(c, at) == calls' = [calls EXCEPT ![c].at = at]

Give(c, answer) ==
  calls' = [calls EXCEPT ![c] = [NoCall EXCEPT !.at = "answered", !.kind = calls[c].kind,
                                               !.answer = answer]]

\* requestLocalOnnxEmbedding up to its await: a load under way or done is
\* shared, else one starts and is kept for the others at once.
JoinPipeline(c, o) ==
  IF pipelines[o.model] # NoLoad
  THEN /\ calls' = [calls EXCEPT ![c].at = "pipeline", ![c].options = {o},
                                 ![c].kind = "embed", ![c].load = pipelines[o.model]]
       /\ UNCHANGED <<pipelines, loads>>
  ELSE /\ Len(loads) < MaxLoads
       /\ loads' = Append(loads, [model |-> o.model, state |-> "loading"])
       /\ pipelines' = [pipelines EXCEPT ![o.model] = Len(loads')]
       /\ calls' = [calls EXCEPT ![c].at = "pipeline", ![c].options = {o},
                                 ![c].kind = "embed", ![c].load = Len(loads')]

\* embedText once the remote model is out of the question.
EmbedLocally(c, o) ==
  IF o.local THEN JoinPipeline(c, o)
  ELSE /\ calls' = [calls EXCEPT ![c] = [NoCall EXCEPT
                      !.at = "answered", !.kind = "embed", !.answer = "lexical"]]
       /\ UNCHANGED <<pipelines, loads>>

EmbedText(c, o) ==
  /\ calls[c].at = "idle"
  /\ IF o.remote
     THEN /\ calls' = [calls EXCEPT ![c] = [NoCall EXCEPT
                         !.at = "headers", !.kind = "embed", !.options = {o}]]
          /\ UNCHANGED <<pipelines, loads>>
     ELSE EmbedLocally(c, o)

\* extractMemoryNodesFromContent, which without a remote model falls back at once.
ExtractNodes(c, o) ==
  /\ calls[c].at = "idle"
  /\ calls' = [calls EXCEPT ![c] = [NoCall EXCEPT
                 !.at = IF o.remote THEN "headers" ELSE "answered", !.kind = "extract",
                 !.options = IF o.remote THEN {o} ELSE {}, !.answer = IF o.remote THEN "none" ELSE "lexical"]]
  /\ UNCHANGED <<pipelines, loads>>

\* fetchWithTimeout answers with the headers, fails or is aborted; its timer
\* ends there, so the body may never come.
Headers(c) ==
  /\ calls[c].at = "headers"
  /\ Update(c, "body")
  /\ UNCHANGED <<pipelines, loads>>

\* A body with a vector, or with nodes that all validate.
Body(c) ==
  /\ calls[c].at = "body"
  /\ Give(c, "remote")
  /\ UNCHANGED <<pipelines, loads>>

\* A timeout, a status, a body without the answer, or one invalid node.
RemoteFails(c) ==
  /\ calls[c].at \in {"headers", "body"}
  /\ IF calls[c].kind = "extract"
     THEN Give(c, "lexical") /\ UNCHANGED <<pipelines, loads>>
     ELSE \E o \in calls[c].options : EmbedLocally(c, o)

\* In error: a load that failed stays in the map.
LoadEndsKept(l, works) ==
  /\ loads[l].state = "loading"
  /\ loads' = [loads EXCEPT ![l].state = IF works THEN "ready" ELSE "failed"]
  /\ UNCHANGED <<calls, pipelines>>

\* createLocalEmbeddingPipeline ends; a failure takes the load out of the
\* map before any caller that waits for it goes on.
LoadEnds(l, works) ==
  /\ loads[l].state = "loading"
  /\ loads' = [loads EXCEPT ![l].state = IF works THEN "ready" ELSE "failed"]
  /\ pipelines' = IF ~works /\ pipelines[loads[l].model] = l
                  THEN [pipelines EXCEPT ![loads[l].model] = NoLoad]
                  ELSE pipelines
  /\ UNCHANGED calls

\* The caller goes on with the extractor: it answers, or fails, or gives an
\* empty vector.  Without a local vector only a strict call fails.
UsePipeline(c, works) ==
  /\ calls[c].at = "pipeline"
  /\ loads[calls[c].load].state \in {"ready", "failed"}
  /\ works => loads[calls[c].load].state = "ready"
  /\ \E o \in calls[c].options :
       IF works THEN Give(c, "local")
       ELSE IF o.strict THEN Update(c, "failed")
       ELSE Give(c, "lexical")
  /\ UNCHANGED <<pipelines, loads>>

Forget(c) ==
  /\ calls[c].at \in {"answered", "failed"}
  /\ calls' = [calls EXCEPT ![c] = NoCall]
  /\ UNCHANGED <<pipelines, loads>>

ModelsInit ==
  /\ calls = [c \in Caller |-> NoCall]
  /\ pipelines = [m \in Model |-> NoLoad]
  /\ loads = <<>>

ModelsNext ==
  \/ \E c \in Caller, o \in CallOptions : EmbedText(c, o) \/ ExtractNodes(c, o)
  \/ \E c \in Caller : Headers(c) \/ Body(c) \/ RemoteFails(c) \/ Forget(c)
  \/ \E l \in DOMAIN loads, works \in BOOLEAN : LoadEnds(l, works)
  \/ \E c \in Caller, works \in BOOLEAN : UsePipeline(c, works)

ModelsTypeOK ==
  /\ \A c \in Caller :
       /\ calls[c].at \in {"idle", "headers", "body", "pipeline", "answered", "failed"}
       /\ calls[c].kind \in {"none", "embed", "extract"}
       /\ calls[c].options \subseteq CallOptions /\ Cardinality(calls[c].options) <= 1
       /\ calls[c].load \in {NoLoad} \cup DOMAIN loads
       /\ calls[c].answer \in {"none", "remote", "local", "lexical"}
  /\ pipelines \in [Model -> {NoLoad} \cup DOMAIN loads]
  /\ loads \in Seq([model : Model, state : {"loading", "ready", "failed"}])

Live(m) == {l \in DOMAIN loads : loads[l].model = m /\ loads[l].state \in {"loading", "ready"}}

\* However calls and failures interleave, a model is loaded once: its load is
\* the one the map holds until it fails, and no later caller is handed a load
\* that failed (requestLocalOnnxEmbedding).
OnePipelinePerModel ==
  \A m \in Model : Live(m) = {pipelines[m]} \ {NoLoad}
=============================================================================
