------------------------------ MODULE Curation ------------------------------
(***************************************************************************)
(* What stands between a text and a memory: the checks on a curator        *)
(* model's reply and on a verifier's, and the flags a proposed candidate   *)
(* is stored and shown with.  A text is the set of things the detectors'   *)
(* patterns find in it.                                                    *)
(***************************************************************************)
EXTENDS Naturals, Sequences

CONSTANTS
  Wording,     \* texts, sets of traits
  Malformed    \* an item of a reply without the fields the schema requires

VARIABLES
  reply,       \* the reply of a model, as it came, or none
  verdict,     \* what validation made of it
  card,        \* a candidate memory of the workspace, or none
  proposed     \* a history: the text the candidate was proposed with
curationVars == <<reply, verdict, card, proposed>>

Trait == {"secret", "sensitive", "prompt_injection", "orders", "explicit"}

ASSUME CurationAssumption == Wording \subseteq SUBSET Trait /\ Malformed \notin Wording

RiskFlag == {"secret", "sensitive", "prompt_injection", "unverified", "external_instruction"}

SourceKind == {"none", "user_message", "agent_run", "webpage"}

\* A candidate as a model may write it: its flags without "none"; "text" is
\* what the fields that make its text hold together, and the trigger is not
\* one of them.
Draft == [text : Wording, trigger : {{}, {"secret"}}, type : {"preference", "fact"}, scope : {"global", "workspace"},
          kind : {"none", "user_message", "webpage"}, flags : {{}, {"unverified"}},
          status : {"candidate", "approved"}, review : BOOLEAN]

\* A lesson: "lists" is what applies_to, preconditions and anti_patterns hold,
\* which are no part of its text; "inside", its source is its run.
ReasoningDraft == [text : Wording, lists : {{}, {"secret"}}, inside : BOOLEAN,
            status : {"candidate", "approved"}, flags : {{}, {"sensitive"}}, review : BOOLEAN]

Judgement == [decision : {"approve", "needs_review", "reject"}, flags : {{}, {"secret"}},
              review : BOOLEAN, safe : BOOLEAN]

\* What the caller says of the source the model read; whether the text is an
\* explicit request to remember is left to the patterns.
Setting == [text : Wording, kind : SourceKind]

-----------------------------------------------------------------------------
IsExternalSourceKind(kind) == kind \in {"archive", "file", "webpage"}

\* firstSourceKind stands in for a kind the caller does not give.
SourceKindOf(draft, setting) == IF setting.kind = "none" THEN draft.kind ELSE setting.kind

\* riskFlagsForText and its detectors: orders from outside count as such only
\* there.
RiskFlagsForText(text, kind) ==
  (text \cap {"secret", "sensitive", "prompt_injection"}) \cup
  {flag \in {"external_instruction"} :
     IsExternalSourceKind(kind) /\ text \cap {"prompt_injection", "orders"} # {}}

\* In error: what a flag added late is worth is settled before it is added.
ApplySafetyEarly(draft, setting) ==
  LET text  == draft.text \cup setting.text
      found == draft.flags \cup RiskFlagsForText(text, SourceKindOf(draft, setting))
      late  == {flag \in {"unverified"} : draft.type = "preference" /\ draft.scope = "global"
                                            /\ "explicit" \notin text}
  IN  [draft EXCEPT !.flags = found \cup late, !.review = @ \/ found # {},
                    !.status = IF found # {} THEN "candidate" ELSE @]

ApplyDeterministicSafety(draft, setting) ==
  LET text     == draft.text \cup setting.text
      kind     == SourceKindOf(draft, setting)
      inferred == draft.type = "preference" /\ draft.scope = "global" /\ "explicit" \notin text
      outside  == draft.type = "preference" /\ IsExternalSourceKind(kind)
      flags    == draft.flags \cup RiskFlagsForText(text, kind)
                    \cup {flag \in {"unverified"} : inferred \/ outside}
                    \cup {flag \in {"external_instruction"} : outside}
  IN  [draft EXCEPT !.flags = flags, !.review = @ \/ flags # {},
                    !.status = IF flags # {} /\ @ = "approved" THEN "candidate" ELSE @]

\* validation.ts: an item that lacks a field or has one of another type fails.
HasFields(item) == item # Malformed

\* validateMemoryCandidate, of a reply whose items name their sources
ValidCandidate(item) == HasFields(item)

\* validateReasoningMemoryCandidate: only candidates, from inside their run.
ValidLesson(item) == HasFields(item) /\ item.status = "candidate" /\ item.inside

SaferLesson(lesson, setting) ==
  LET kind  == IF setting.kind = "none" THEN "agent_run" ELSE setting.kind
      flags == lesson.flags \cup RiskFlagsForText(lesson.text, kind)
  IN  [lesson EXCEPT !.flags = flags, !.review = @ \/ flags # {}]

\* validateCuratorResponse: one item that fails fails the reply.
ValidResponse(response) ==
  /\ \A i \in DOMAIN response.candidates : ValidCandidate(response.candidates[i])
  /\ \A i \in DOMAIN response.lessons : ValidLesson(response.lessons[i])

CuratorResponse(response) ==
  [response EXCEPT
     !.candidates = [i \in DOMAIN @ |-> ApplyDeterministicSafety(@[i], response.setting)],
     !.lessons    = [i \in DOMAIN @ |-> SaferLesson(@[i], response.setting)]]

\* validateVerifierResponse
ValidJudgement(judgement) ==
  /\ judgement.decision # "approve" => ~judgement.safe
  /\ judgement.flags # {} /\ judgement.decision = "approve" => judgement.review

Reply ==
  [from : {"curator"}, setting : Setting, lessons : {<<>>},
   candidates : {<<d>> : d \in Draft} \cup {<<Malformed>>}]
  \cup [from : {"curator"}, setting : Setting, candidates : {<<>>},
        lessons : {<<l>> : l \in ReasoningDraft} \cup {<<Malformed>>}]
  \cup [from : {"verifier"}, judgement : Judgement]

NoReply == [from |-> "nobody"]

Validate ==
  /\ reply # NoReply /\ verdict.is = "none"
  /\ verdict' =
       IF reply.from = "curator"
       THEN IF ValidResponse(reply) THEN [is |-> "curator", of |-> CuratorResponse(reply)]
            ELSE [is |-> "invalid", of |-> NoReply]
       ELSE IF ValidJudgement(reply.judgement) THEN [is |-> "verifier", of |-> reply]
            ELSE [is |-> "invalid", of |-> NoReply]
  /\ UNCHANGED <<reply, card, proposed>>

-----------------------------------------------------------------------------
(* Candidates of a workspace *)

\* candidateSourceKindForPath: what is proposed without a source is written
\* under /scratch/candidates and counts as the user's.
CandidateSourceKindForPath(place) ==
  CASE place = "archive" -> "archive"
    [] place = "run"     -> "agent_run"
    [] place = "scratch" -> "user_message"
    [] place = "file"    -> "file"

Origin == {"archive", "run", "scratch", "file"}

\* In error: flags of the caller stand for those of the text.
GivenFlags(given, text, place) ==
  IF given # {} THEN given ELSE RiskFlagsForText(text, CandidateSourceKindForPath(place))

CandidateInputRiskFlags(given, text, place) ==
  given \cup RiskFlagsForText(text, CandidateSourceKindForPath(place))

NoCard == [status |-> "none"]

\* proposeMemoryCandidate: the text is a source's or the caller's; comparing
\* it with the memories may make it a duplicate or a conflict.
ProposeMemoryCandidate(text, given, place, low, target, match) ==
  /\ card = NoCard
  /\ card' = [text |-> text, place |-> place, low |-> low, target |-> target,
              flags |-> CandidateInputRiskFlags(given, text, place), status |-> match,
              duplicate |-> match = "duplicate", conflict |-> match = "conflicted", gone |-> FALSE]
  /\ proposed' = [text |-> text, place |-> place]
  /\ UNCHANGED <<reply, verdict>>

\* updateCandidate: the flags stored with the candidate stay what they were,
\* and so do the memory it duplicates and the reason it conflicts.
UpdateCandidate(text, status, low, reason) ==
  /\ card # NoCard
  /\ card' = [card EXCEPT !.text = text, !.status = status, !.low = low,
                          !.conflict = @ \/ (status = "conflicted" /\ reason)]
  /\ UNCHANGED <<reply, verdict, proposed>>

DeleteCandidateSource ==
  /\ card # NoCard /\ ~card.gone
  /\ card' = [card EXCEPT !.gone = TRUE]
  /\ UNCHANGED <<reply, verdict, proposed>>

\* riskFlagsForCandidate
RiskFlagsForCandidate(c) ==
  c.flags \cup {flag \in {"low_confidence", "source_missing", "protected_target", "duplicate",
                          "conflicted", "conflict", "stale"} :
    CASE flag = "low_confidence"   -> c.low
      [] flag = "source_missing"   -> c.gone
      [] flag = "protected_target" -> c.target = "protected"
      [] flag = "duplicate"        -> c.status = "duplicate" \/ c.duplicate
      [] flag = "conflict"         -> c.status = "conflicted" \/ c.conflict
      [] OTHER                     -> c.status = flag}

\* memoryCandidateFromNode
MemoryCandidateFromNode(c) == [c EXCEPT !.flags = RiskFlagsForCandidate(c)]

-----------------------------------------------------------------------------
CurationInit(replies) ==
  /\ reply \in replies
  /\ verdict = [is |-> "none", of |-> NoReply]
  /\ card = NoCard
  /\ proposed = NoCard

CandidateNext ==
  \/ \E text \in Wording, given \in {{}, {"unverified"}}, place \in Origin, low \in BOOLEAN :
       \E target \in {"none", "protected"}, match \in {"candidate", "duplicate", "conflicted"} :
         ProposeMemoryCandidate(text, given, place, low, target, match)
  \/ \E text \in Wording, status \in {"candidate", "stale", "conflicted"}, low, reason \in BOOLEAN :
       UpdateCandidate(text, status, low, reason)
  \/ DeleteCandidateSource

CurationNext == Validate \/ CandidateNext

CurationTypeOK ==
  /\ verdict.is \in {"none", "invalid", "curator", "verifier"}
  /\ verdict.of = NoReply \/ verdict.of.from = verdict.is
  /\ card = NoCard \/ (card.text \in Wording /\ card.flags \subseteq RiskFlag)
  /\ proposed = NoCard \/ (proposed.text \in Wording /\ proposed.place \in Origin)

-----------------------------------------------------------------------------
FlagsTell(flags, text, kind) ==
  /\ text \cap {"secret", "sensitive", "prompt_injection"} \subseteq flags
  /\ "orders" \in text /\ IsExternalSourceKind(kind) => "external_instruction" \in flags

\* A reply that passes approves nothing that a flag stands against and flags
\* what its texts show, orders from a source outside and a preference nobody
\* asked for or that such a source brought included
\* (applyDeterministicSafety, "cannot approve a materially risky candidate
\* without review" of validateVerifierResponse).  It says nothing of a
\* candidate's trigger and a lesson's lists, which no detector reads.
RepliesAreSafe ==
  /\ verdict.is = "curator" =>
       /\ \A i \in DOMAIN verdict.of.candidates :
            LET made == verdict.of.candidates[i]  given == reply.candidates[i]
                text == given.text \cup reply.setting.text
                kind == SourceKindOf(given, reply.setting)
            IN  /\ made.flags # {} => made.review /\ made.status # "approved"
                /\ FlagsTell(made.flags, text, kind)
                /\ made.flags = {} /\ made.type = "preference" =>
                     /\ made.scope = "global" => "explicit" \in text
                     /\ ~IsExternalSourceKind(kind)
       /\ \A i \in DOMAIN verdict.of.lessons :
            LET made == verdict.of.lessons[i]
            IN  /\ made.flags # {} => made.review
                /\ FlagsTell(made.flags, reply.lessons[i].text, reply.setting.kind)
  /\ verdict.is = "verifier" =>
       LET j == verdict.of.judgement
       IN  /\ j.safe => j.decision = "approve"
           /\ j.decision = "approve" /\ j.flags # {} => j.review

\* The risks of the text a candidate was proposed with, which is all its
\* fields here, are shown to its reviewer, whatever flags came with it and
\* whatever is edited since; what an edit brings in is not looked through
\* (candidateInputRiskFlags, riskFlagsForCandidate).
RisksStayShown ==
  card # NoCard =>
    RiskFlagsForText(proposed.text, CandidateSourceKindForPath(proposed.place))
      \subseteq MemoryCandidateFromNode(card).flags

\* A risk in a field that the detectors read is flagged when the item passes
\* them and stays so: a model's, past validation, and a proposed one's,
\* before its reviewer.  A candidate's trigger and a lesson's lists in a
\* model's reply, and the text of an edit, are read by none.
ReadRisksAreFlagged == RepliesAreSafe /\ RisksStayShown
=============================================================================
