---------------------------- MODULE MemoryReview ----------------------------
(***************************************************************************)
(* The trust layer of class VeriFS (packages/core/src/index.ts): memory    *)
(* nodes and their lifecycle, candidates, promotions, reviews.  An action  *)
(* is the code between two suspensions on I/O (an embedding, a model call, *)
(* a blob or a workspace file); the reviewer's synchronous handlers are    *)
(* one action each.  Nothing is locked between a check and the write it    *)
(* guards when an await stands between them.                               *)
(*                                                                         *)
(* What two memories say is left out: whether detection finds a duplicate, *)
(* a conflict or an update is a choice among the nodes the code compares   *)
(* with.                                                                   *)
(***************************************************************************)
EXTENDS Naturals, FiniteSets

CONSTANTS
  Node,          \* pool of memory-node ids
  MaxPromos,     \* bound on promotions per behaviour; ids are 1..MaxPromos
  File,          \* source files and promotion targets
  Scratch,       \* the files under /scratch/
  Runs,          \* the files under /runs/
  Drafts,        \* the files named candidates.md
  Protected,     \* the files a protected path matches
  Task,          \* suspended requests that may be in flight together
  MaxRequests,   \* bound on requests per behaviour
  MaxCrashes,    \* bound on crashes per behaviour
  Handlers,      \* the handlers callers use in a behaviour
  ReviewOptional,\* may promoteMemory be asked not to require review?
  Absent, NoNode, NoFile

Promo == 1..MaxPromos
NoPromo == 0

Status ==
  {"active", "candidate", "observed", "duplicate", "approved", "rejected",
   "superseded", "stale", "conflicted"}
Trust == {"unreviewed", "generated", "reviewed", "trusted", "superseded", "rejected"}

(* One row of memory_nodes: expired says valid_until is set, dup that      *)
(* duplicate_of is, why that conflict_reason is; against is conflicts_with.*)
(* "generated" is agent_generated; the other trust levels below "reviewed" *)
(* are one level here.                                                     *)
NodeRow ==
  [file : File, status : Status, trust : Trust, expired : BOOLEAN,
   dup : BOOLEAN, why : BOOLEAN, against : SUBSET Node]

PromoRow ==
  [cand : Node, target : File, append : BOOLEAN,
   status : {"pending", "approved", "rejected", "applied"}]

ASSUME MemoryReviewAssumption ==
  /\ Scratch \subseteq File /\ Runs \subseteq File \ Scratch /\ Drafts \subseteq File
  /\ Protected \subseteq File
  /\ MaxPromos \in Nat /\ MaxRequests \in Nat /\ MaxCrashes \in Nat
  /\ Handlers \subseteq {"propose", "promote", "approve", "apply", "ingest", "edit",
                         "resolve", "reject", "stale", "confirm", "supersede"}
  /\ ReviewOptional \in BOOLEAN
  /\ NoNode \notin Node /\ NoFile \notin File
  /\ Absent \notin NodeRow \cup PromoRow

VARIABLES
  node,     \* the memory_nodes table
  promo,    \* the memory_promotions table, in order of creation
  text,     \* file -> promotion -> how often the file holds its block
  pc,       \* request -> where it is suspended
  loc,      \* request -> its locals
  used,     \* requests so far
  crashes,  \* crashes so far
  retired,  \* history: nodes a reviewer rejected or a newer memory superseded
  vetted,   \* history: promotions a review approved
  waived,   \* history: promotions created approved, without review
  settled,  \* history: request -> promotions rejected all the time it ran
  crossed   \* history: files two requests were waiting to write at once

tables == <<node, promo, text>>
history == <<used, crashes, retired, vetted, waived>>
overlaps == <<settled, crossed>>
vars == <<tables, pc, loc, history, overlaps>>

Suspended ==
  {"idle", "detect", "embed", "review", "decide", "write", "ingest", "link", "edit"}

Locals ==
  [op : {"none", "propose", "promote", "approve", "apply", "ingest", "edit"},
   node : Node \cup {NoNode}, promo : Promo \cup {NoPromo}, target : File \cup {NoFile},
   file : File \cup {NoFile}, old : Node \cup {NoNode}, excluded : SUBSET Node,
   base : [Promo -> Nat], append : BOOLEAN, cleared : BOOLEAN, apply : BOOLEAN,
   review : BOOLEAN]

Blank ==
  [op |-> "none", node |-> NoNode, promo |-> NoPromo, target |-> NoFile, file |-> NoFile,
   old |-> NoNode, excluded |-> {}, base |-> [p \in Promo |-> 0], append |-> TRUE,
   cleared |-> FALSE, apply |-> FALSE, review |-> TRUE]

Live == {n \in Node : node[n] # Absent}
Promos == {p \in Promo : promo[p] # Absent}
PromosOf(n) == {p \in Promos : promo[p].cand = n}
Latest(n) == IF PromosOf(n) = {} THEN NoPromo
             ELSE CHOOSE p \in PromosOf(n) : \A q \in PromosOf(n) : q <= p

(* The promotions a candidate can be asked for by: getCandidate takes its  *)
(* id, or that of one of its promotions.                                   *)
Found(n) == IF PromosOf(n) = {} THEN {NoPromo} ELSE PromosOf(n)

(* A memory extracted from a file is trusted by the file's zone; a         *)
(* candidate is agent_generated wherever its source is.                    *)
TrustFor(f) == IF f \in Runs THEN "generated" ELSE "unreviewed"

Fresh(f) ==
  [file |-> f, status |-> "active", trust |-> TrustFor(f), expired |-> FALSE,
   dup |-> FALSE, why |-> FALSE, against |-> {}]

FreshCandidate(f) ==
  [file |-> f, status |-> "candidate", trust |-> "generated", expired |-> FALSE,
   dup |-> FALSE, why |-> FALSE, against |-> {}]

Duplicate(f) == [FreshCandidate(f) EXCEPT !.status = "duplicate", !.dup = TRUE]

-----------------------------------------------------------------------------
(* isRejectedMemory, isCandidateLikeStatus and isStaleLikeMemory: what     *)
(* recall, grep and search return unless asked for more.                   *)
Recallable(r) ==
  /\ r.status \in {"active", "approved"}
  /\ r.trust \notin {"rejected", "superseded"}
  /\ ~ r.expired

IsCandidate(n) ==
  \/ PromosOf(n) # {}
  \/ node[n].status \notin {"active", "approved"}
  \/ node[n].trust = "generated" /\ node[n].file \in Drafts

IsDurable(n) ==
  /\ node[n].status \in {"active", "approved", "stale"}
  /\ node[n].trust \notin {"rejected", "superseded"}
  /\ node[n].file \notin Scratch

(* What a new candidate may duplicate.                                     *)
Comparable(n) ==
  /\ node[n].status # "rejected" /\ node[n].trust # "rejected"
  /\ IsCandidate(n) \/ IsDurable(n)

(* normalizeCandidateStatus. *)
CandidateStatus(r, p) ==
  CASE r.status \notin {"candidate", "active"} -> r.status
    [] p # NoPromo /\ promo[p].status = "rejected" -> "rejected"
    [] p # NoPromo /\ promo[p].status \in {"approved", "applied"} -> "approved"
    [] p # NoPromo /\ promo[p].status = "pending" -> "candidate"
    [] OTHER -> CASE r.trust \in {"rejected", "superseded"} -> r.trust
                  [] r.trust \in {"reviewed", "trusted"} -> "approved"
                  [] OTHER -> "candidate"

(* Variant: valid_until is only set by the handlers that mark stale.       *)
MarkTrustOnly(r, trust, status) == [r EXCEPT !.trust = trust, !.status = status]

(* markMemoryNodeTrust: valid_until is set on the way out, never cleared.  *)
MarkTrust(r, trust, status) ==
  [r EXCEPT !.trust = trust, !.status = status,
            !.expired = @ \/ status \in {"rejected", "superseded"}]

Rejected(r) == MarkTrust(r, "rejected", "rejected")
Superseded(r) == MarkTrust(r, "superseded", "superseded")

(* markCandidateConflict. *)
MarkConflict(r, S) == [r EXCEPT !.status = "conflicted", !.why = TRUE, !.against = S]

(* Variant: only the status of a duplicate is looked at.                   *)
BlockedByStatus(r) == r.status \in {"duplicate", "conflicted"} \/ r.why

(* Either check of approveCandidate and approvePromotion. *)
Blocked(r) == r.status \in {"duplicate", "conflicted"} \/ r.dup \/ r.why

-----------------------------------------------------------------------------
(* Some files were ingested before, some memories proposed, and one of them*)
(* may have a pending promotion.                                           *)
Init ==
  /\ node \in [Node -> {Absent} \cup {Fresh(f) : f \in File}
                \cup {FreshCandidate(f) : f \in File} \cup {Duplicate(f) : f \in File}]
  /\ \E n \in Node : \E f \in File :
       promo \in {[p \in Promo |-> Absent],
                 [p \in Promo |-> IF p = 1 /\ node[n] \notin {Absent} \cup {Fresh(g) : g \in File}
                                 THEN [cand |-> n, target |-> f, append |-> TRUE, status |-> "pending"]
                                 ELSE Absent]}
  /\ text = [f \in File |-> [p \in Promo |-> 0]]
  /\ pc = [t \in Task |-> "idle"]
  /\ loc = [t \in Task |-> Blank]
  /\ used = 0 /\ crashes = 0
  /\ retired = {} /\ vetted = {} /\ waived = {}
  /\ settled = [t \in Task |-> {}] /\ crossed = {}

Suspend(t, label, l) ==
  /\ pc' = [pc EXCEPT ![t] = label]
  /\ loc' = [loc EXCEPT ![t] = l]

End(t) == Suspend(t, "idle", Blank)

(* A request arrives at a free slot. *)
Arrive(t, handler) ==
  /\ handler \in Handlers
  /\ pc[t] = "idle"
  /\ used < MaxRequests
  /\ used' = used + 1
  /\ UNCHANGED <<crashes, waived>>

(* A synchronous handler runs between two segments of the others. *)
Now(handler) ==
  /\ handler \in Handlers
  /\ \E t \in Task : pc[t] = "idle"
  /\ used < MaxRequests
  /\ used' = used + 1
  /\ UNCHANGED <<pc, loc, crashes, waived>>

NextPromo == Cardinality(Promos) + 1

NewPromo(p, n, f, append, status) ==
  /\ p = NextPromo /\ p \in Promo
  /\ promo' = [promo EXCEPT ![p] = [cand |-> n, target |-> f, append |-> append, status |-> status]]

(* applyPromotion up to its first await, for promotion p in row r: it      *)
(* throws, returns at once, or suspends holding r and, when it appends,    *)
(* the text the target has now.                                            *)
StartApply(t, p, r) ==
  IF r.status \in {"rejected", "applied"} \/ (r.target \in Protected /\ r.status = "pending")
  THEN End(t)
  ELSE Suspend(t, "write",
         [Blank EXCEPT !.op = "apply", !.promo = p, !.target = r.target, !.node = r.cand,
            !.append = r.append, !.base = IF r.append THEN text[r.target] ELSE @])

-----------------------------------------------------------------------------
(* proposeMemoryCandidate and promoteMemory: the source is read or         *)
(* written, then the candidate is compared and inserted, then its          *)
(* promotion.                                                              *)
Propose(t, f, target) ==
  /\ Arrive(t, "propose")
  /\ Suspend(t, "detect", [Blank EXCEPT !.op = "propose", !.file = f, !.target = target])
  /\ UNCHANGED <<tables, retired, vetted>>

Promote(t, f, target, append, review) ==
  /\ Arrive(t, "promote")
  /\ review \/ ReviewOptional
  /\ Suspend(t, "detect", [Blank EXCEPT !.op = "promote", !.file = f, !.target = target,
                                        !.append = append, !.review = review])
  /\ UNCHANGED <<tables, retired, vetted>>

InsertCandidate(t) ==
  LET new == FreshCandidate(loc[t].file) IN
  /\ pc[t] = "detect"
  /\ \E n \in Node \ Live :
       /\ \/ node' = [node EXCEPT ![n] = new]
          \/ /\ \E m \in Live : Comparable(m)
             /\ node' = [node EXCEPT ![n] = Duplicate(loc[t].file)]
          \/ \E S \in SUBSET {m \in Live : IsDurable(m)} \ {{}} :
               node' = [node EXCEPT ![n] = MarkConflict(new, S)]
       /\ Suspend(t, "embed", [loc[t] EXCEPT !.node = n])
  /\ UNCHANGED <<promo, text, history>>

(* createPromotionForCandidateNode: the latest promotion is redirected, or *)
(* a pending one is created.                                               *)
EnsurePromo(n, f) ==
  IF Latest(n) # NoPromo
  THEN promo' = [promo EXCEPT ![Latest(n)].target = f]
  ELSE NewPromo(NextPromo, n, f, TRUE, "pending")

Proposed(t) ==
  /\ pc[t] = "embed" /\ loc[t].op = "propose"
  /\ IF loc[t].target = NoFile THEN UNCHANGED promo ELSE EnsurePromo(loc[t].node, loc[t].target)
  /\ End(t)
  /\ UNCHANGED <<node, text, history>>

(* promoteMemory does not look for a promotion of its candidate.           *)
Promoted(t) ==
  LET l == loc[t] IN
  /\ pc[t] = "embed" /\ l.op = "promote"
  /\ NewPromo(NextPromo, l.node, l.target, l.append, IF l.review THEN "pending" ELSE "approved")
  /\ IF l.review
     THEN End(t) /\ UNCHANGED waived
     ELSE StartApply(t, NextPromo, promo'[NextPromo]) /\ waived' = waived \cup {NextPromo}
  /\ UNCHANGED <<node, text, used, crashes, retired, vetted>>

-----------------------------------------------------------------------------
(* approveCandidate up to its await: p is the promotion the candidate was  *)
(* found through, if any.  Blocked candidates are refused.                 *)
ApproveCandidate(t, n, p, target, apply) ==
  LET r == node[n] IN
  /\ Arrive(t, "approve")
  /\ IsCandidate(n)
  /\ ~ Blocked(r)
  /\ Suspend(t, "review",
       [Blank EXCEPT !.op = "approve", !.node = n, !.promo = p, !.target = target,
          !.apply = apply, !.excluded = r.against \cup {n}, !.cleared = r.against # {}])
  /\ UNCHANGED <<tables, retired, vetted>>

(* detectApprovalConflicts: nothing for a candidate whose conflicts were   *)
(* resolved, else some of the durable memories it is not yet known to      *)
(* contradict.                                                             *)
Conflicts(l) ==
  IF l.cleared THEN {{}} ELSE SUBSET ({m \in Live : IsDurable(m)} \ l.excluded)

ApprovalBlocked(t) ==
  /\ pc[t] \in {"review", "decide"}
  /\ \E S \in Conflicts(loc[t]) \ {{}} :
       node' = [node EXCEPT ![loc[t].node] = MarkConflict(@, S)]
  /\ End(t)
  /\ UNCHANGED <<promo, text, history>>

(* Variant: approvePromotion does not look at the promotion's status.      *)
StartApprovalOfRejected(t, p, r, apply) ==
  LET n == r.cand IN
  IF Blocked(node[n])
  THEN End(t)
  ELSE Suspend(t, "decide",
         [Blank EXCEPT !.op = "approve", !.node = n, !.promo = p, !.apply = apply,
            !.excluded = node[n].against \cup {n}, !.cleared = node[n].against # {}])

(* approvePromotion up to its await, for promotion p in row r. *)
StartApproval(t, p, r, apply) ==
  LET n == r.cand IN
  IF r.status = "rejected" \/ Blocked(node[n])
  THEN End(t)
  ELSE Suspend(t, "decide",
         [Blank EXCEPT !.op = "approve", !.node = n, !.promo = p, !.apply = apply,
            !.excluded = node[n].against \cup {n}, !.cleared = node[n].against # {}])

ApprovalReviewed(t) ==
  LET l == loc[t] IN
  /\ pc[t] = "review"
  /\ IF l.promo # NoPromo
     THEN UNCHANGED promo /\ StartApproval(t, l.promo, promo[l.promo], l.apply)
     ELSE IF l.target = NoFile
     THEN UNCHANGED promo /\ End(t)
     ELSE /\ EnsurePromo(l.node, l.target)
          /\ LET p == IF Latest(l.node) # NoPromo THEN Latest(l.node) ELSE NextPromo
             IN StartApproval(t, p, promo'[p], l.apply)
  /\ UNCHANGED <<node, text, history>>

ApprovePromotion(t, p, apply) ==
  /\ Arrive(t, "approve")
  /\ promo[p].status # "rejected" /\ ~ Blocked(node[promo[p].cand])
  /\ StartApproval(t, p, promo[p], apply)
  /\ UNCHANGED <<tables, retired, vetted>>

(* The end of approvePromotion: the promotion and its node are approved    *)
(* whatever has become of them since they were read.                       *)
Decide(t) ==
  LET l == loc[t] IN
  /\ pc[t] = "decide"
  /\ promo' = [promo EXCEPT ![l.promo].status = "approved"]
  /\ node' = [node EXCEPT ![l.node] = MarkTrust(@, "reviewed", "approved")]
  /\ vetted' = vetted \cup {l.promo}
  /\ IF l.apply THEN StartApply(t, l.promo, promo'[l.promo]) ELSE End(t)
  /\ UNCHANGED <<text, used, crashes, retired, waived>>

ApplyPromotion(t, p) ==
  /\ Arrive(t, "apply")
  /\ promo[p].status \in {"pending", "approved"}
  /\ promo[p].target \in Protected => promo[p].status = "approved"
  /\ StartApply(t, p, promo[p])
  /\ UNCHANGED <<tables, retired, vetted>>

Applying(l, f) ==
  [Blank EXCEPT !.op = "apply", !.promo = l.promo, !.node = l.node, !.target = f, !.file = f]

(* Variant: the target is read again after the await.                      *)
WriteTargetRereads(t) ==
  LET l == loc[t] IN
  /\ pc[t] = "write"
  /\ text' = [text EXCEPT ![promo[l.promo].target] = [l.base EXCEPT ![l.promo] = @ + 1]]
  /\ Suspend(t, "ingest", Applying(l, promo[l.promo].target))
  /\ UNCHANGED <<node, promo, history>>

(* writeFile of the target: the text read before the awaits plus the block.*)
WriteTarget(t) ==
  LET l == loc[t] IN
  /\ pc[t] = "write"
  /\ text' = [text EXCEPT ![l.target] = [l.base EXCEPT ![l.promo] = @ + 1]]
  /\ Suspend(t, "ingest", Applying(l, l.target))
  /\ UNCHANGED <<node, promo, history>>

-----------------------------------------------------------------------------
(* writeFile with ingest, and ingestFile: each memory extracted from the   *)
(* file is compared with every node and inserted as active; after its      *)
(* embeddings are stored it supersedes the node it was found to update.    *)
Ingest(t, f) ==
  /\ Arrive(t, "ingest")
  /\ Suspend(t, "ingest", [Blank EXCEPT !.op = "ingest", !.file = f])
  /\ UNCHANGED <<tables, retired, vetted>>

InsertExtracted(t) ==
  /\ pc[t] = "ingest"
  /\ \E n \in Node \ Live : \E m \in Live \cup {NoNode} :
       /\ node' = [node EXCEPT ![n] = Fresh(loc[t].file)]
       /\ Suspend(t, "link", [loc[t] EXCEPT !.old = m])
  /\ UNCHANGED <<promo, text, history>>

LinkExtracted(t) ==
  LET m == loc[t].old IN
  /\ pc[t] = "link"
  /\ IF m = NoNode
     THEN UNCHANGED <<node, retired>>
     ELSE node' = [node EXCEPT ![m] = Superseded(@)] /\ retired' = retired \cup {m}
  /\ Suspend(t, "ingest", [loc[t] EXCEPT !.old = NoNode])
  /\ UNCHANGED <<promo, text, used, crashes, vetted, waived>>

(* The end of ingestFile, and for applyPromotion of that handler: every    *)
(* node of the target file is approved, then the candidate, then the       *)
(* promotion is applied.                                                   *)
IngestEnd(t) ==
  LET l == loc[t] IN
  /\ pc[t] = "ingest"
  /\ IF l.op # "apply"
     THEN UNCHANGED <<node, promo>>
     ELSE /\ node' = [n \in Node |->
               IF n \in Live /\ (node[n].file = l.target \/ n = l.node)
               THEN MarkTrust(node[n], "trusted", "approved") ELSE node[n]]
          /\ promo' = [promo EXCEPT ![l.promo].status = "applied"]
  /\ End(t)
  /\ UNCHANGED <<text, history>>

-----------------------------------------------------------------------------
(* Variant: the status is written as the trust level.                      *)
EditedNodeMixedUp(r, s, reason) ==
  [r EXCEPT !.status = s, !.trust = s, !.why = @ \/ (s = "conflicted" /\ reason)]

(* updateCandidate writes the node, awaits the embeddings, then writes the *)
(* promotion.  s is the status asked for, or "keep".                       *)
EditedNode(r, s, reason) ==
  [r EXCEPT
    !.status = s,
    !.trust = CASE s = "superseded" -> "superseded"
                [] s \in {"candidate", "duplicate", "conflicted"} -> "generated"
                [] s = "observed" /\ @ = "generated" -> "unreviewed"
                [] OTHER -> @,
    !.why = @ \/ (s = "conflicted" /\ reason)]

EditStatus == {"observed", "candidate", "duplicate", "superseded", "stale", "conflicted"}

UpdateCandidate(t, n, p, s, target) ==
  LET next == IF s = "keep" THEN CandidateStatus(node[n], p) ELSE s IN
  /\ Arrive(t, "edit")
  /\ IsCandidate(n)
  /\ next \in EditStatus
  /\ \E reason \in (IF next = "conflicted" THEN BOOLEAN ELSE {FALSE}) :
       node' = [node EXCEPT ![n] = EditedNode(@, next, reason)]
  /\ Suspend(t, "edit", [Blank EXCEPT !.op = "edit", !.node = n, !.promo = p, !.target = target])
  /\ UNCHANGED <<promo, text, retired, vetted>>

EditPromo(t) ==
  LET l == loc[t] IN
  /\ pc[t] = "edit"
  /\ IF l.target = NoFile
     THEN UNCHANGED promo
     ELSE IF l.promo # NoPromo
     THEN promo' = [promo EXCEPT ![l.promo].target = l.target]
     ELSE EnsurePromo(l.node, l.target)
  /\ End(t)
  /\ UNCHANGED <<node, text, history>>

(* rejectCandidate and rejectPromotion. *)
Reject(n, p) ==
  /\ p # NoPromo => promo[p].status # "applied"
  /\ promo' = IF p = NoPromo THEN promo ELSE [promo EXCEPT ![p].status = "rejected"]
  /\ node' = [node EXCEPT ![n] = Rejected(@)]
  /\ retired' = retired \cup {n}
  /\ UNCHANGED <<text, vetted>>

RejectCandidate(n, p) ==
  /\ Now("reject")
  /\ IsCandidate(n)
  /\ Reject(n, p)

(* resolveCandidateConflict. *)
Conflicted(n) ==
  /\ IsCandidate(n)
  /\ node[n].status = "conflicted" \/ node[n].why \/ node[n].against # {}

KeepOld(n) ==
  /\ Now("resolve")
  /\ Conflicted(n)
  /\ Reject(n, Latest(n))

Resolved(n, supersede) ==
  [m \in Node |->
    IF m = n THEN [node[n] EXCEPT !.status = "candidate", !.why = FALSE]
    ELSE IF supersede /\ m \in node[n].against THEN Superseded(node[m]) ELSE node[m]]

Retire(n, supersede) ==
  retired' = IF supersede THEN retired \cup (node[n].against \ {n}) ELSE retired

ResolveConflict(n, supersede) ==
  /\ Now("resolve")
  /\ Conflicted(n)
  /\ node' = Resolved(n, supersede)
  /\ Retire(n, supersede)
  /\ UNCHANGED <<promo, text, vetted>>

Restart ==
  /\ pc' = [t \in Task |-> "idle"]
  /\ loc' = [t \in Task |-> Blank]

(* With a target path updateCandidate is called and not awaited: it goes   *)
(* on by itself, or it throws where nobody listens and Node ends the       *)
(* process.                                                                *)
ResolveWithTarget(t, n, supersede, target) ==
  LET rows == Resolved(n, supersede)
      next == CandidateStatus(rows[n], Latest(n)) IN
  /\ Arrive(t, "resolve")
  /\ Conflicted(n)
  /\ Retire(n, supersede)
  /\ IF next \in EditStatus
     THEN /\ node' = [rows EXCEPT ![n] = EditedNode(@, next, TRUE)]
          /\ Suspend(t, "edit", [Blank EXCEPT !.op = "edit", !.node = n,
                                              !.promo = Latest(n), !.target = target])
     ELSE node' = rows /\ Restart
  /\ UNCHANGED <<promo, text, vetted>>

-----------------------------------------------------------------------------
MarkStale(n) ==
  /\ Now("stale")
  /\ node' = [node EXCEPT ![n].status = "stale", ![n].expired = TRUE]
  /\ UNCHANGED <<promo, text, retired, vetted>>

(* confirmMemory: valid_until and conflict_reason stay. *)
Confirmed(r) ==
  [r EXCEPT !.status = IF @ \in {"stale", "conflicted"} THEN "active" ELSE @]

ConfirmMemory(n) ==
  /\ Now("confirm")
  /\ node' = [node EXCEPT ![n] = Confirmed(@)]
  /\ UNCHANGED <<promo, text, retired, vetted>>

(* supersedeMemory, and a "supersedes" link made by hand. *)
SupersedeMemory(old, new) ==
  /\ old # new
  /\ Now("supersede")
  /\ node' = [node EXCEPT ![old] = Superseded(@)]
  /\ retired' = retired \cup {old}
  /\ UNCHANGED <<promo, text, vetted>>

-----------------------------------------------------------------------------
(* Variant: an application whose ingestion fails puts its target back to   *)
(* the text it holds in its locals.                                        *)
FailPutsBack(t) ==
  /\ pc[t] # "idle"
  /\ text' = IF pc[t] = "ingest" /\ loc[t].op = "apply"
             THEN [text EXCEPT ![loc[t].target] = loc[t].base] ELSE text
  /\ End(t)
  /\ UNCHANGED <<node, promo, history>>

(* An await throws: the embedding service, the model or the disk fails.    *)
Fail(t) ==
  /\ pc[t] # "idle"
  /\ End(t)
  /\ UNCHANGED <<tables, history>>

(* The process dies and restarts; every statement that ran is on disk, so a*)
(* crash while no request is suspended changes nothing.                    *)
Crash ==
  /\ crashes < MaxCrashes
  /\ \E t \in Task : pc[t] # "idle"
  /\ crashes' = crashes + 1
  /\ Restart
  /\ UNCHANGED <<tables, used, retired, vetted, waived>>

Candidates == \E t \in Task :
  \/ \E f \in File : \E target \in File \cup {NoFile} : Propose(t, f, target)
  \/ \E f, target \in File : \E append, review \in BOOLEAN : Promote(t, f, target, append, review)
  \/ InsertCandidate(t) \/ Proposed(t) \/ Promoted(t)
  \/ \E n \in Live : \E p \in Found(n) : \E target \in File \cup {NoFile} :
       \E s \in EditStatus \cup {"keep"} : UpdateCandidate(t, n, p, s, target)
  \/ EditPromo(t)
  \/ \E n \in Live : \E supersede \in BOOLEAN : \E target \in File :
       ResolveWithTarget(t, n, supersede, target)

Approvals == \E t \in Task :
  \/ \E n \in Live : \E p \in Found(n) : \E target \in File \cup {NoFile} :
       \E apply \in BOOLEAN : ApproveCandidate(t, n, p, target, apply)
  \/ \E p \in Promos : \E apply \in BOOLEAN : ApprovePromotion(t, p, apply)
  \/ ApprovalBlocked(t) \/ ApprovalReviewed(t) \/ Decide(t)
  \/ \E p \in Promos : ApplyPromotion(t, p)
  \/ WriteTarget(t)

Ingestion == \E t \in Task :
  \/ \E f \in File : Ingest(t, f)
  \/ InsertExtracted(t) \/ LinkExtracted(t) \/ IngestEnd(t)

Reviews == \E n \in Live :
  \/ \E p \in Found(n) : RejectCandidate(n, p)
  \/ KeepOld(n)
  \/ \E supersede \in BOOLEAN : ResolveConflict(n, supersede)
  \/ MarkStale(n) \/ ConfirmMemory(n)
  \/ \E new \in Live : SupersedeMemory(n, new)

Steps ==
  \/ Candidates \/ Approvals \/ Ingestion \/ Reviews
  \/ \E t \in Task : Fail(t)
  \/ Crash

RejectedPromos == {p \in Promos : promo[p].status = "rejected"}

WritersOf(f) == {t \in Task : pc[t] = "write" /\ loc[t].target = f}

(* What the two history variables of overlapping requests record.          *)
KeepHistory ==
  /\ settled' = [t \in Task |->
       IF pc[t] = "idle" THEN RejectedPromos' ELSE settled[t] \cap RejectedPromos']
  /\ crossed' = crossed \cup {f \in File : \E t, u \in WritersOf(f)' : t # u}

Next == Steps /\ KeepHistory

Spec == Init /\ [][Next]_vars

-----------------------------------------------------------------------------
TypeOK ==
  /\ node \in [Node -> NodeRow \cup {Absent}]
  /\ promo \in [Promo -> PromoRow \cup {Absent}]
  /\ text \in [File -> [Promo -> Nat]]
  /\ pc \in [Task -> Suspended]
  /\ loc \in [Task -> Locals]
  /\ used \in 0..MaxRequests
  /\ crashes \in 0..MaxCrashes
  /\ retired \subseteq Node
  /\ vetted \subseteq Promo
  /\ waived \subseteq Promo
  /\ settled \in [Task -> SUBSET Promo]
  /\ crossed \subseteq File

(* docs/promotions.md: "Rejected candidates do not appear in normal        *)
(* recall."  A memory a reviewer rejected, or a newer one superseded, never*)
(* returns to normal recall: not when it is edited, resolved, approved by a*)
(* later request or by one already in flight, nor when a promotion into    *)
(* its file approves every node there.                                     *)
RetiredStaysOut ==
  \A n \in retired : ~ Recallable(node[n])

(* The text of a protected file holds the block of a promotion only if a   *)
(* review approved that promotion, or its author waived the review,        *)
(* however its target was changed in the meantime.                         *)
ProtectedTextWasApproved ==
  \A f \in Protected : \A p \in Promo : text[f][p] > 0 => p \in vetted \cup waived

(* No review approves a promotion whose candidate duplicates another       *)
(* memory, however the candidate's status was edited before or during the  *)
(* review.                                                                 *)
DuplicatesAreNotVetted ==
  \A p \in vetted : ~ node[promo[p].cand].dup

(* index.ts:4008 "Rejected promotions cannot be approved.", index.ts:4096   *)
(* "Rejected promotions cannot be applied."  It fails when a rejection     *)
(* overtakes an approval that is already past its check.                   *)
RejectedIsFinal ==
  [][\A p \in Promos : promo[p].status = "rejected" => promo'[p].status = "rejected"]_vars

(* What is left of that promise when requests overlap: a rejection is      *)
(* overturned only by a review or an application of that promotion that was*)
(* under way when it was made.  No request that began after it does, nor   *)
(* an edit, a resolution, a crash or an application of another promotion.  *)
RejectionsStand ==
  [][\A p \in RejectedPromos : promo'[p].status # "rejected" =>
       \E t \in Task : /\ pc[t] \in {"decide", "ingest"}
                       /\ loc[t].promo = p /\ p \notin settled[t]]_vars

(* A block written to a target is lost only to a promotion that replaces   *)
(* the target, or where two applications were waiting to write it at once: *)
(* an append writes the text it read before its await.  However often      *)
(* applications fail, are cut off or run side by side elsewhere.           *)
AppendKeepsBlocks ==
  [][\A f \in File \ crossed : \A p \in Promo : text'[f][p] < text[f][p] =>
       \E t \in WritersOf(f) : ~ loc[t].append]_vars

(* docs/conflicts.md: "VeriFS does not silently approve duplicates or      *)
(* conflicts."                                                             *)
NoSilentApproval ==
  [][\A n \in Live : node[n].status \in {"duplicate", "conflicted"} =>
       node'[n].status # "approved"]_vars

(* index.ts:3434, the review that confirmMemory records: "Memory confirmed *)
(* as current."  Confirming a stale memory that nobody rejected or         *)
(* superseded makes it recallable.                                         *)
ConfirmedIsCurrent ==
  [][\A n \in Live \ retired :
       node[n].status = "stale" /\ node'[n].status = "active" => Recallable(node'[n])]_vars

=============================================================================
