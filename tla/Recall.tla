------------------------------- MODULE Recall -------------------------------
(***************************************************************************)
(* Reading memory: recallMemory (and search), grepMemory and createBrief,  *)
(* the stale-memory list and the health report, over the graph of Graph.   *)
(* Between the awaits of an ask (embedding the query, reading a file or a  *)
(* raw source) memories are withdrawn, confirmed and linked, and files are *)
(* deleted.                                                                *)
(*                                                                         *)
(* Scores, scopes and trust levels decide which of the memories an ask may *)
(* answer it does answer, and in which order: any choice.  Every ask asks  *)
(* for detail and links, which is when related memories are answered too.  *)
(***************************************************************************)
EXTENDS Graph

CONSTANTS Asker, MaxAsks, MaxAnswers   \* bounds: asks made, options.limit

VARIABLES
  asks,     \* asker -> its ask
  since,    \* history: asker -> what was withdrawn throughout its ask
  health,   \* rows of memory_health_reports, oldest first
  asked     \* asks so far
recallVars == <<graphVars, asks, since, health, asked>>

ASSUME RecallAssumption == MaxAsks \in Nat /\ MaxAnswers \in Nat

Options == [raw : BOOLEAN, stale : BOOLEAN, rejected : BOOLEAN, contradictions : BOOLEAN]

NoAsk == [at |-> "idle", kind |-> "none", options |-> NoNode, results |-> <<>>,
          taken |-> 0, related |-> {}, left |-> {}, grepped |-> {}, avoid |-> {}]

\* isCandidateLikeStatus
IsCandidateLike(n) == gnode[n].status \in {"candidate", "observed", "duplicate"}

\* In error: only the status tells stale memory.
RecallableByStatus(n, o) ==
  IF IsRejected(n) THEN o.rejected
  ELSE (IsCandidateLike(n) => o.rejected) /\ (gnode[n].status = "stale" => o.stale)

\* recallMemory's filter.
Recallable(n, o) ==
  IF IsRejected(n) THEN o.rejected
  ELSE (IsCandidateLike(n) => o.rejected) /\ (IsStaleLike(n) => o.stale)

\* pathHasOnlyStaleMemory
OnlyStale(f) ==
  LET here == {n \in Shown : gnode[n].home = f}
  IN  here # {} /\ \A n \in here : IsStaleLike(n)

\* What an ask may not answer unless it asks for it.
Withheld ==
  [rejected  |-> {n \in Shown : IsRejected(n)},
   stale     |-> {n \in Shown : IsStaleLike(n) /\ ~IsRejected(n)},
   candidate |-> {n \in Shown : IsCandidateLike(n)},
   files     |-> {f \in sources : OnlyStale(f)}]

SetAsk(a, r) == asks' = [asks EXCEPT ![a] = r]

Fail(a) == SetAsk(a, [asks[a] EXCEPT !.at = "failed"])

-----------------------------------------------------------------------------
(* An ask starts: recall and brief await the query's embedding, grep lists *)
(* the files first.                                                        *)
Starting(kind, o) ==
  [NoAsk EXCEPT !.kind = kind, !.options = o,
                !.at = IF kind \in {"grep", "hybrid"} THEN "files" ELSE "embed",
                !.left = IF kind \in {"grep", "hybrid"} THEN sources ELSE {}]

\* What createBrief and grepMemory ask recallMemory for.  Of briefs, those
\* with raw text or rejected memory but not both are left out.
BriefOptions(o) == ~o.stale /\ o.contradictions /\ o.raw = o.rejected

GrepOptions(o) == ~o.raw /\ ~o.rejected /\ ~o.contradictions

\* Of recalls, those with contradictions and without raw text, or the other
\* way round, are left out.
Allowed(kind, o) ==
  CASE kind = "recall" -> o.raw = o.contradictions
    [] kind = "brief"  -> BriefOptions(o)
    [] OTHER           -> GrepOptions(o)

Ask(a, kind, o) ==
  /\ asked < MaxAsks /\ asked' = asked + 1
  /\ asks[a].at \in {"idle", "answered", "failed"}
  /\ Allowed(kind, o)
  /\ SetAsk(a, Starting(kind, o))

\* One round of grepMemory's loop: a file deleted since it was listed has no
\* memories left that could skip it, and fails to be read.
GrepFile(a, f) ==
  /\ asks[a].at = "files" /\ f \in asks[a].left
  /\ IF OnlyStale(f) /\ ~asks[a].options.stale
     THEN SetAsk(a, [asks[a] EXCEPT !.left = @ \ {f}])
     ELSE IF f \notin sources THEN Fail(a)
     ELSE SetAsk(a, [asks[a] EXCEPT !.left = @ \ {f}, !.grepped = @ \cup {f}])
  /\ UNCHANGED asked

\* The extracted texts, each with the file it was taken from: one whose file
\* is gone fails the grep.
GrepExtracted(a) ==
  /\ asks[a].at = "files" /\ asks[a].left = {}
  /\ IF ~(extracted \subseteq sources) THEN Fail(a)
     ELSE SetAsk(a, [asks[a] EXCEPT
            !.grepped = @ \cup {f \in extracted : asks[a].options.stale \/ ~OnlyStale(f)},
            !.at = IF asks[a].kind = "hybrid" THEN "embed" ELSE "answered"])
  /\ UNCHANGED asked

\* The query is embedded: recallMemory lists, filters and ranks.  A brief
\* leaves rejected memory out whatever it asks for, by the trust levels it
\* names and shouldIncludeInBriefMainResults.
Score(a) ==
  LET open == {n \in Shown : /\ Recallable(n, asks[a].options)
                             /\ asks[a].kind = "brief" => ~IsRejected(n)}
      size == IF Cardinality(open) < MaxAnswers THEN Cardinality(open) ELSE MaxAnswers
  IN  /\ asks[a].at = "embed"
      /\ \E ranked \in [1..size -> open] :
           /\ \A i, j \in 1..size : ranked[i] = ranked[j] => i = j
           /\ SetAsk(a, [asks[a] EXCEPT !.at = "results", !.results = ranked])
      /\ UNCHANGED asked

Neighbours(n, o) ==
  FindRelatedMemories(n, [relations |-> AnyRelation, depth |-> 1, limit |-> 8, stale |-> o.stale])

\* A result: its related memories and edges, and its raw text where asked for,
\* which awaits.
Gather(r, n) ==
  LET s == Neighbours(n, r.options)
  IN  IF r.at = "failed" THEN r
      ELSE IF ~Visible(n) \/ s.over = "missing" THEN [r EXCEPT !.at = "failed"]
      ELSE [r EXCEPT !.taken = @ + 1, !.related = @ \cup {Last(p) : p \in Range(s.found)}]

\* The next results of an ask, one after the other.
GatherNext(r, count) ==
  LET upto[k \in 0..count] ==
        IF k = 0 THEN r ELSE Gather(upto[k-1], r.results[r.taken + k])
  IN  upto[count]

CollectResults(a) ==
  LET r == asks[a]
  IN  /\ r.at = "results" /\ r.taken < Len(r.results)
      /\ SetAsk(a, GatherNext(r, IF r.options.raw THEN 1 ELSE Len(r.results) - r.taken))
      /\ UNCHANGED asked

\* recallMemory answers: its contradictions are looked up last.
FinishRecall(a) ==
  LET r == asks[a]
  IN  /\ r.at = "results" /\ r.taken = Len(r.results)
      /\ IF r.options.contradictions /\ ContradictionsFail THEN Fail(a)
         ELSE IF r.kind = "brief" THEN SetAsk(a, [r EXCEPT !.at = "risky"])
         ELSE SetAsk(a, [r EXCEPT !.at = "answered"])
      /\ UNCHANGED asked

\* isRiskyBriefNode: an expired memory that was confirmed is not risky.
IsRisky(n) ==
  {gnode[n].status, gnode[n].trust}
    \cap {"stale", "conflicted", "duplicate", "superseded", "rejected"} # {}

\* relevantRiskyBriefItems embeds the task again, then lists; likeness to it
\* decides which of them it names.
RelevantRiskyBriefItems == SUBSET {n \in Shown : IsRisky(n)}

Brief(a) ==
  /\ asks[a].at = "risky"
  /\ IF ContradictionsFail THEN Fail(a)
     ELSE \E avoid \in RelevantRiskyBriefItems :
            SetAsk(a, [asks[a] EXCEPT !.at = "answered", !.avoid = avoid])
  /\ UNCHANGED asked

-----------------------------------------------------------------------------
(* The stale list and the health report *)

\* withTemporalLinks
SupersededBy(n) == {e.from : e \in {x \in Range(edges) : /\ x.kind = "link" /\ x.to = n
                                                        /\ x.relation = "supersedes"}}

\* staleReasonsForNode, of the reasons that are about status and validity.
StaleReasons(n) ==
  {reason \in {"rejected", "stale", "conflicted", "duplicate", "superseded", "valid_until_elapsed"} :
     CASE reason = "rejected"            -> IsRejected(n)
       [] reason = "superseded"          -> \/ "superseded" \in {gnode[n].status, gnode[n].trust}
                                            \/ SupersededBy(n) # {}
       [] reason = "valid_until_elapsed" -> gnode[n].expired
       [] OTHER                          -> gnode[n].status = reason}

ListStaleMemory == {n \in Shown : StaleReasons(n) # {}}

Report ==
  LET all == {n \in GNode : gnode[n] # NoNode}
  IN  [total    |-> Cardinality(all),
       orphans  |-> Cardinality({n \in all : ~Visible(n)}),
       stale    |-> Cardinality({n \in all : IsStaleLike(n)}),
       rejected |-> Cardinality({n \in all : IsRejected(n)})]

\* recomputeMemoryHealth
RecomputeHealth ==
  /\ health = <<>>
  /\ ~ContradictionsFail
  /\ health' = <<Report>>
  /\ UNCHANGED <<graphVars, asks, since, asked>>

-----------------------------------------------------------------------------
RecallInit ==
  /\ GraphInit
  /\ asks = [a \in Asker |-> NoAsk]
  /\ since = [a \in Asker |-> Withheld]
  /\ health = <<>>
  /\ asked = 0

AskStep ==
  \E a \in Asker :
    \/ \E kind \in {"recall", "brief", "grep", "hybrid"}, o \in Options : Ask(a, kind, o)
    \/ \E f \in Source : GrepFile(a, f)
    \/ GrepExtracted(a) \/ Score(a) \/ CollectResults(a) \/ FinishRecall(a) \/ Brief(a)

\* What stays withheld through the ask; an ask that starts begins anew.
KeepHistory ==
  since' = [a \in Asker |->
    IF asks'[a].at = "idle" \/ (asked' # asked /\ asks'[a] # asks[a]) THEN Withheld'
    ELSE [k \in DOMAIN since[a] |-> since[a][k] \cap Withheld'[k]]]

RecallNext ==
  /\ \/ AskStep /\ UNCHANGED graphVars
     \/ GraphNext /\ UNCHANGED <<asks, asked>>
  /\ KeepHistory
  /\ UNCHANGED health

\* The health report reads the graph alone, in one step.
HealthNext ==
  \/ GraphNext /\ UNCHANGED <<asks, since, health, asked>>
  \/ RecomputeHealth

RecallTypeOK ==
  /\ GraphTypeOK
  /\ \A a \in Asker :
       /\ asks[a].at \in {"idle", "files", "embed", "results", "risky", "answered", "failed"}
       /\ asks[a].kind \in {"none", "recall", "brief", "grep", "hybrid"}
       /\ Range(asks[a].results) \cup asks[a].related \cup asks[a].avoid \subseteq GNode
       /\ asks[a].taken \in 0..Len(asks[a].results)
       /\ asks[a].left \cup asks[a].grepped \subseteq Source
  /\ Len(health) <= 1 /\ asked \in 0..MaxAsks

Answered == {a \in Asker : asks[a].at = "answered"}

\* Nothing that was withdrawn when an ask began, and stayed so, is in its
\* answer, be it a result, a memory related to one or a grepped file, unless
\* the ask wants such memory (recallMemory, grepMemory, createBrief).
WithdrawnIsNotRecalled ==
  \A a \in Answered :
    LET r == asks[a]  gone == since[a]
    IN  /\ ~r.options.rejected => Range(r.results) \cap (gone.rejected \cup gone.candidate) = {}
        /\ r.kind = "brief" => Range(r.results) \cap gone.rejected = {}
        /\ ~r.options.stale => /\ Range(r.results) \cap gone.stale = {}
                               /\ r.related \cap (gone.rejected \cup gone.stale) = {}
                               /\ r.grepped \cap gone.files = {}

\* A memory that another one supersedes is withheld from every plain ask.
\* The stale list and withTemporalLinks read memory_links, recall reads the
\* row alone, and edits, confirmations and approvals write the row's status
\* and trust and leave the links; what keeps the two together is valid_until,
\* which each of them keeps and only a rollback loses.
SupersededIsWithheld ==
  \A n \in Shown :
    SupersededBy(n) # {} /\ ~gnode[n].restored =>
      \A o \in Options : ~o.stale /\ ~o.rejected => ~Recallable(n, o)
=============================================================================
