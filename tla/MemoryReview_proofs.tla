------------------------ MODULE MemoryReview_proofs ------------------------
(***************************************************************************)
(* What holds of MemoryReview for every set of memories, files and         *)
(* requests, however many are in flight and however often the process dies.*)
(***************************************************************************)
EXTENDS MemoryReview, FiniteSetTheorems, WellFoundedInduction, TLAPS

(* What the properties need of the tables beyond their types: promotions   *)
(* are numbered without gaps and belong to a memory, and conflicts name    *)
(* memories.                                                               *)
Tables ==
  /\ node \in [Node -> NodeRow \cup {Absent}]
  /\ promo \in [Promo -> PromoRow \cup {Absent}]
  /\ \A n \in Live : node[n].against \subseteq Live
  /\ \A p \in Promos : promo[p].cand \in Live
  /\ \E k \in 0..MaxPromos : Promos = 1..k

-----------------------------------------------------------------------------
(* One row at a time: what each change of a memory keeps.                  *)
Keeps(r, s) ==
  /\ s \in NodeRow
  /\ s.dup = r.dup
  /\ r.expired => s.expired

LEMMA MarkTrustRow ==
  ASSUME NEW r \in NodeRow, NEW trust \in Trust, NEW status \in Status
  PROVE  /\ Keeps(r, MarkTrust(r, trust, status))
         /\ MarkTrust(r, trust, status).against = r.against
         /\ status \in {"rejected", "superseded"} => MarkTrust(r, trust, status).expired
BY DEF MarkTrust, NodeRow, Keeps

LEMMA RetiredRow ==
  ASSUME NEW r \in NodeRow
  PROVE  /\ Keeps(r, Rejected(r)) /\ Rejected(r).expired /\ Rejected(r).against = r.against
         /\ Keeps(r, Superseded(r)) /\ Superseded(r).expired /\ Superseded(r).against = r.against
BY MarkTrustRow DEF Rejected, Superseded, Trust, Status

LEMMA MarkConflictRow ==
  ASSUME NEW r \in NodeRow, NEW S \in SUBSET Node
  PROVE  Keeps(r, MarkConflict(r, S)) /\ MarkConflict(r, S).against = S
BY DEF MarkConflict, NodeRow, Keeps, Status

LEMMA EditedRow ==
  ASSUME NEW r \in NodeRow, NEW s \in EditStatus, NEW reason \in BOOLEAN
  PROVE  Keeps(r, EditedNode(r, s, reason)) /\ EditedNode(r, s, reason).against = r.against
<1> DEFINE trust == CASE s = "superseded" -> "superseded"
                      [] s \in {"candidate", "duplicate", "conflicted"} -> "generated"
                      [] s = "observed" /\ r.trust = "generated" -> "unreviewed"
                      [] OTHER -> r.trust
<1>1. trust \in Trust
  BY DEF Trust, NodeRow
<1>2. (r.why \/ (s = "conflicted" /\ reason)) \in BOOLEAN
  OBVIOUS
<1>3. s \in Status
  BY DEF EditStatus, Status
<1>4. EditedNode(r, s, reason) =
        [r EXCEPT !.status = s, !.trust = trust, !.why = r.why \/ (s = "conflicted" /\ reason)]
  BY DEF EditedNode, NodeRow
<1> HIDE DEF trust
<1> QED
  BY <1>1, <1>2, <1>3, <1>4 DEF Keeps, NodeRow

LEMMA ConfirmedRow ==
  ASSUME NEW r \in NodeRow
  PROVE  Keeps(r, Confirmed(r)) /\ Confirmed(r).against = r.against
BY DEF Confirmed, NodeRow, Keeps, Status

LEMMA FreshRows ==
  ASSUME NEW f \in File
  PROVE  /\ Fresh(f) \in NodeRow /\ Fresh(f).against = {}
         /\ FreshCandidate(f) \in NodeRow /\ FreshCandidate(f).against = {}
         /\ Duplicate(f) \in NodeRow /\ Duplicate(f).against = {}
BY DEF Fresh, FreshCandidate, Duplicate, TrustFor, NodeRow, Status, Trust

LEMMA AbsentIsNoRow == Absent \notin NodeRow /\ Absent \notin PromoRow
BY MemoryReviewAssumption

-----------------------------------------------------------------------------
(* Promotions are numbered in order, so the next number is free and a      *)
(* candidate with a promotion has a latest one.                            *)
LEMMA NextPromoIsNext ==
  ASSUME Tables, NEW k \in 0..MaxPromos, Promos = 1..k
  PROVE  NextPromo = k + 1
<1>1. Cardinality(1..k) = k
  BY FS_Interval
<1> QED
  BY <1>1 DEF NextPromo

LEMMA LatestIsOne ==
  ASSUME Tables, NEW n, PromosOf(n) # {}
  PROVE  Latest(n) \in PromosOf(n)
<1>1. PromosOf(n) \subseteq 1..MaxPromos
  BY DEF PromosOf, Promos, Promo
<1> DEFINE T == {MaxPromos - p : p \in PromosOf(n)}
<1>2. T \subseteq Nat /\ T # {}
  BY <1>1, MemoryReviewAssumption
<1> DEFINE R == {ss \in Nat \X Nat : ss[1] < ss[2]}
<1>3. PICK x \in T : \A y \in T : ~ (<<y, x>> \in R)
  <2>1. IsWellFoundedOn(R, Nat)
    BY NatLessThanWellFounded DEF OpToRel
  <2> HIDE DEF R, T
  <2> QED
    BY <1>2, <2>1, WFMin
<1>4. ASSUME NEW y \in T PROVE x <= y
  <2>1. x \in Nat /\ y \in Nat
    BY <1>2
  <2>2. y < x => <<y, x>> \in R
    BY <2>1
  <2>3. ~ (y < x)
    BY <1>3, <2>2
  <2> QED
    BY <2>1, <2>3
<1>5. PICK p \in PromosOf(n) : x = MaxPromos - p
  OBVIOUS
<1>6. \A q \in PromosOf(n) : q <= p
  BY <1>1, <1>4, <1>5, MemoryReviewAssumption
<1> QED
  BY <1>6 DEF Latest

-----------------------------------------------------------------------------
(* How the tables may change.                                              *)
NodesEvolve ==
  /\ node' \in [Node -> NodeRow \cup {Absent}]
  /\ \A n \in Live :
       n \in Live' /\ node'[n].dup = node[n].dup /\ (node[n].expired => node'[n].expired)
  /\ \A n \in Live' : node'[n].against \subseteq Live'

PromosEvolve ==
  /\ promo' \in [Promo -> PromoRow \cup {Absent}]
  /\ \A p \in Promos : p \in Promos' /\ promo'[p].cand = promo[p].cand
  /\ \A p \in Promos' \ Promos : promo'[p].cand \in Live
  /\ \E k \in 0..MaxPromos : Promos' = 1..k

LEMMA TablesEvolve ==
  ASSUME Tables, NodesEvolve, PromosEvolve
  PROVE  Tables'
<1>1. \A p \in Promos' : promo'[p].cand \in Live'
  BY DEF Tables, NodesEvolve, PromosEvolve
<1> QED
  BY <1>1 DEF Tables, NodesEvolve, PromosEvolve

(* Memories change row by row, or one is inserted. *)
LEMMA NodesChange ==
  ASSUME Tables, node' \in [Node -> NodeRow \cup {Absent}],
         \A n \in Live : Keeps(node[n], node'[n]) /\ node'[n].against \subseteq Live,
         \A n \in Node \ Live : node'[n] = node[n]
  PROVE  NodesEvolve
<1>1. \A n \in Live : node'[n] # Absent
  BY AbsentIsNoRow DEF Keeps
<1>2. Live' = Live
  BY <1>1 DEF Live
<1> QED
  BY <1>2 DEF NodesEvolve, Keeps

LEMMA OneNodeChanges ==
  ASSUME Tables, NEW n \in Live, NEW s, node' = [node EXCEPT ![n] = s],
         Keeps(node[n], s), s.against \subseteq Live
  PROVE  NodesEvolve
<1>1. n \in Node /\ s \in NodeRow
  BY DEF Live, Keeps
<1>2. \A m \in Live : m # n => Keeps(node[m], node'[m]) /\ node'[m].against \subseteq Live
  BY DEF Live, Tables, Keeps
<1>3. node'[n] = s
  BY <1>1 DEF Tables
<1>4. node' \in [Node -> NodeRow \cup {Absent}] /\ \A m \in Node \ Live : node'[m] = node[m]
  BY <1>1 DEF Tables
<1> QED
  BY <1>2, <1>3, <1>4, NodesChange

LEMMA OneNodeAppears ==
  ASSUME Tables, NEW n \in Node \ Live, NEW s \in NodeRow, node' = [node EXCEPT ![n] = s],
         s.against \subseteq Live
  PROVE  NodesEvolve /\ n \in Live'
<1>1. s # Absent
  BY AbsentIsNoRow
<1>2. node'[n] = s /\ \A m \in Node \ {n} : node'[m] = node[m]
  BY DEF Tables
<1>3. Live' = Live \cup {n}
  BY <1>1, <1>2 DEF Live
<1> QED
  BY <1>2, <1>3 DEF NodesEvolve, Tables, Live

LEMMA NodesStay ==
  ASSUME Tables, UNCHANGED node
  PROVE  NodesEvolve
BY DEF Tables, NodesEvolve, Live

(* Promotions change row by row, or one is created. *)
LEMMA PromosStay ==
  ASSUME Tables, UNCHANGED promo
  PROVE  PromosEvolve /\ Promos' = Promos
BY DEF Tables, PromosEvolve, Promos

LEMMA OnePromoChanges ==
  ASSUME Tables, NEW p \in Promos, NEW s \in PromoRow, promo' = [promo EXCEPT ![p] = s],
         s.cand = promo[p].cand
  PROVE  PromosEvolve /\ Promos' = Promos /\ promo'[p] = s
<1>1. p \in Promo /\ s # Absent
  BY AbsentIsNoRow DEF Promos
<1>2. promo'[p] = s /\ \A q \in Promo \ {p} : promo'[q] = promo[q]
  BY <1>1 DEF Tables
<1>3. Promos' = Promos
  BY <1>1, <1>2 DEF Promos
<1> QED
  BY <1>1, <1>2, <1>3 DEF PromosEvolve, Tables, Promos

(* One row more, at the next number. *)
LEMMA OneRowAppears ==
  ASSUME Tables, NEW p, p = NextPromo, p \in Promo, NEW s \in PromoRow, s.cand \in Live,
         promo' = [promo EXCEPT ![p] = s]
  PROVE  PromosEvolve /\ Promos' = Promos \cup {p} /\ p \notin Promos /\ promo'[p] = s
<1>1. PICK k \in 0..MaxPromos : Promos = 1..k
  BY DEF Tables
<1>2. p = k + 1 /\ p \in 1..MaxPromos
  BY <1>1, NextPromoIsNext DEF Promo
<1>3. s # Absent /\ s.cand \in Live
  BY AbsentIsNoRow
<1>5. promo'[p] = s /\ \A q \in Promo \ {p} : promo'[q] = promo[q]
  BY <1>2 DEF Tables, Promo
<1>6. p \notin Promos /\ k \in Nat /\ p \in Promo
  BY <1>1, <1>2, MemoryReviewAssumption DEF Promo
<1>7. Promos' = Promos \cup {p}
  BY <1>3, <1>5, <1>6 DEF Promos
<1>8. Promos' = 1..(k + 1) /\ k + 1 \in 0..MaxPromos
  BY <1>1, <1>2, <1>6, <1>7, MemoryReviewAssumption
<1>9. promo' \in [Promo -> PromoRow \cup {Absent}]
  BY DEF Tables
<1>10. \A q \in Promos : q \in Promos' /\ promo'[q] = promo[q]
  BY <1>5, <1>6, <1>7 DEF Promos
<1>11. PromosEvolve
  BY <1>3, <1>5, <1>7, <1>8, <1>9, <1>10 DEF PromosEvolve
<1> QED
  BY <1>5, <1>6, <1>7, <1>11

(* A new promotion is a row of its own.                                    *)
LEMMA OnePromoAppears ==
  ASSUME Tables, NEW p, NEW n \in Live, NEW f \in File, NEW append \in BOOLEAN,
         NEW status \in {"pending", "approved"}, NewPromo(p, n, f, append, status)
  PROVE  /\ PromosEvolve
         /\ Promos' = Promos \cup {p} /\ p \notin Promos
         /\ promo'[p] = [cand |-> n, target |-> f, append |-> append, status |-> status]
<1>1. PICK s : s = [cand |-> n, target |-> f, append |-> append, status |-> status]
  OBVIOUS
<1>2. s \in PromoRow /\ s.cand \in Live
  BY <1>1 DEF PromoRow, Live
<1>3. p = NextPromo /\ p \in Promo /\ promo' = [promo EXCEPT ![p] = s]
  BY <1>1 DEF NewPromo
<1> QED
  BY <1>1, <1>2, <1>3, OneRowAppears

LEMMA EnsuredPromo ==
  ASSUME Tables, NEW n \in Live, NEW f \in File, EnsurePromo(n, f),
         NEW p, p = IF Latest(n) # NoPromo THEN Latest(n) ELSE NextPromo
  PROVE  /\ PromosEvolve
         /\ p \in Promos' /\ promo'[p].cand = n
         /\ \A q \in Promos' : promo'[q].status = "approved" =>
              q \in Promos /\ promo[q].status = "approved"
<1>1. CASE Latest(n) # NoPromo
  <2>1. p \in PromosOf(n)
    BY <1>1, LatestIsOne DEF Latest
  <2>2. p \in Promos /\ promo[p].cand = n /\ promo[p] \in PromoRow
    BY <2>1 DEF PromosOf, Promos, Tables
  <2> DEFINE s == [promo[p] EXCEPT !.target = f]
  <2>3. s \in PromoRow /\ s.cand = promo[p].cand /\ s.status = promo[p].status
    BY <2>2 DEF PromoRow
  <2>4. promo' = [promo EXCEPT ![p] = s]
    BY <1>1, <2>2 DEF EnsurePromo
  <2> HIDE DEF s
  <2>5. PromosEvolve /\ Promos' = Promos /\ promo'[p] = s
    BY <2>2, <2>3, <2>4, OnePromoChanges
  <2>6. \A q \in Promos : q # p => promo'[q] = promo[q]
    BY <2>4 DEF Tables, Promos
  <2> QED
    BY <2>2, <2>3, <2>5, <2>6
<1>2. CASE Latest(n) = NoPromo
  <2>1. NewPromo(p, n, f, TRUE, "pending")
    BY <1>2 DEF EnsurePromo
  <2>2. /\ PromosEvolve /\ Promos' = Promos \cup {p} /\ p \notin Promos
        /\ promo'[p] = [cand |-> n, target |-> f, append |-> TRUE, status |-> "pending"]
    BY <2>1, OnePromoAppears
  <2>3. \A q \in Promos : promo'[q] = promo[q]
    BY <2>1, <2>2 DEF NewPromo, Tables, Promos
  <2> QED
    BY <2>2, <2>3
<1> QED
  BY <1>1, <1>2

-----------------------------------------------------------------------------
(* What a request holds at each place it waits.  A review that passed its  *)
(* first check holds a candidate that is no duplicate; a writer of a       *)
(* protected file holds a promotion, and the blocks it keeps, that were    *)
(* approved.                                                               *)
Passed == vetted \cup waived

HeldBy(label, l) ==
  /\ label \in Suspended
  /\ l \in Locals
  /\ l.node \in Live \cup {NoNode} /\ l.promo \in Promos \cup {NoPromo} /\ l.old \in Live \cup {NoNode}
  /\ label = "detect" => l.file \in File
  /\ label \in {"detect", "embed"} /\ l.op = "promote" => l.target \in File
  /\ label \in {"embed", "review", "decide", "edit"} => l.node \in Live
  /\ label \in {"decide", "write"} => l.promo \in Promos
  /\ label = "decide" => promo[l.promo].cand = l.node /\ ~ node[l.node].dup
  /\ label = "write" => l.target \in File
  /\ label = "write" /\ l.target \in Protected =>
       l.promo \in Passed /\ \A q \in Promo : l.base[q] > 0 => q \in Passed
  /\ label \in {"ingest", "link"} => l.file \in File
  /\ label \in {"ingest", "link"} /\ l.op = "apply" => l.promo \in Promos

Held ==
  /\ pc \in [Task -> Suspended]
  /\ loc \in [Task -> Locals]
  /\ \A t \in Task : HeldBy(pc[t], loc[t])

(* A promotion is approved only after a review passed it or its author     *)
(* waived one, and a review passes no duplicate.                           *)
Approved ==
  /\ \A p \in Promos : promo[p].status = "approved" => p \in Passed
  /\ \A p \in vetted : p \in Promos /\ ~ node[promo[p].cand].dup
  /\ waived \subseteq Promo

Texts ==
  /\ text \in [File -> [Promo -> Nat]]
  /\ ProtectedTextWasApproved

Retired == \A n \in retired : n \in Live /\ node[n].expired

Consistent == Tables /\ Held /\ Approved /\ Texts /\ Retired

(* What a step does to the tables and the histories, whichever it is.      *)
Progress ==
  /\ NodesEvolve /\ PromosEvolve
  /\ vetted \subseteq vetted' /\ waived \subseteq waived' /\ waived' \subseteq Promo
  /\ \A p \in vetted' \ vetted : p \in Promos /\ ~ node[promo[p].cand].dup
  /\ \A p \in Promos' : promo'[p].status = "approved" =>
       (p \in Promos /\ promo[p].status = "approved") \/ p \in vetted' \cup waived'
  /\ \A n \in retired' \ retired : n \in Live /\ node'[n].expired

LEMMA CandIsLive ==
  ASSUME Tables, NEW p \in Promos
  PROVE  promo[p].cand \in Live /\ promo[p] \in PromoRow /\ p \in Promo
BY DEF Tables, Promos

LEMMA ProgressKeeps ==
  ASSUME Consistent, Progress
  PROVE  Tables' /\ Approved' /\ Retired'
<1>1. Tables'
  BY TablesEvolve DEF Consistent, Progress
<1>2. Retired'
  BY DEF Consistent, Progress, Retired, NodesEvolve
<1>3. ASSUME NEW p \in vetted' PROVE p \in Promos' /\ ~ node'[promo'[p].cand].dup
  <2>1. p \in Promos /\ ~ node[promo[p].cand].dup
    BY <1>3 DEF Consistent, Progress, Approved
  <2>2. promo[p].cand \in Live
    BY <2>1, CandIsLive DEF Consistent
  <2> QED
    BY <2>1, <2>2 DEF Progress, NodesEvolve, PromosEvolve
<1>4. ASSUME NEW p \in Promos', promo'[p].status = "approved" PROVE p \in Passed'
  BY <1>4 DEF Consistent, Progress, Approved, Passed
<1> QED
  BY <1>1, <1>2, <1>3, <1>4 DEF Approved, Progress

(* What a request holds stays good while others move. *)
LEMMA OthersHold ==
  ASSUME Consistent, Progress, NEW label, NEW l, HeldBy(label, l)
  PROVE  HeldBy(label, l)'
<1>1. l.node \in Live \cup {NoNode} => l.node \in Live' \cup {NoNode}
  BY DEF Progress, NodesEvolve
<1>2. l.old \in Live \cup {NoNode} => l.old \in Live' \cup {NoNode}
  BY DEF Progress, NodesEvolve
<1>3. l.promo \in Promos => l.promo \in Promos' /\ promo'[l.promo].cand = promo[l.promo].cand
  BY DEF Progress, PromosEvolve
<1>4. l.node \in Live => l.node \in Live' /\ node'[l.node].dup = node[l.node].dup
  BY DEF Progress, NodesEvolve
<1>5. Passed \subseteq Passed'
  BY DEF Progress, Passed
<1>6. l \in Locals' <=> l \in Locals
  BY DEF Locals
<1> QED
  BY <1>1, <1>2, <1>3, <1>4, <1>5, <1>6 DEF HeldBy

LEMMA HeldStays ==
  ASSUME Consistent, Progress, NEW t \in Task, NEW label, NEW l, Suspend(t, label, l),
         HeldBy(label, l)'
  PROVE  Held'
<1>1. label \in Suspended /\ l \in Locals
  BY DEF HeldBy
<1>2. pc' \in [Task -> Suspended] /\ loc' \in [Task -> Locals]
  BY <1>1 DEF Suspend, Consistent, Held
<1>3. pc'[t] = label /\ loc'[t] = l
  BY DEF Suspend, Consistent, Held
<1>4. ASSUME NEW u \in Task, u # t PROVE HeldBy(pc[u], loc[u])' 
  <2>1. pc'[u] = pc[u] /\ loc'[u] = loc[u]
    BY <1>4 DEF Suspend, Consistent, Held
  <2>2. HeldBy(pc[u], loc[u])
    BY DEF Consistent, Held
  <2>3. ASSUME NEW x, NEW y, HeldBy(x, y) PROVE HeldBy(x, y)'
    BY <2>3, OthersHold
  <2> QED
    BY <2>1, <2>2, <2>3 DEF HeldBy
<1> QED
  BY <1>2, <1>3, <1>4 DEF Held, HeldBy

LEMMA BlankHeld ==
  ASSUME Tables
  PROVE  Blank \in Locals /\ HeldBy("idle", Blank)'
<1>1. Blank \in Locals
  BY MemoryReviewAssumption DEF Blank, Locals, NoPromo
<1>2. /\ Blank.node = NoNode /\ Blank.promo = NoPromo /\ Blank.old = NoNode
  BY DEF Blank
<1> QED
  BY <1>1, <1>2 DEF HeldBy, Suspended

LEMMA EndHeld ==
  ASSUME Consistent, Progress, NEW t \in Task, End(t)
  PROVE  Held'
BY HeldStays, BlankHeld DEF End, Consistent

LEMMA NowHeld ==
  ASSUME Consistent, Progress, UNCHANGED <<pc, loc>>
  PROVE  Held'
<1>1. ASSUME NEW x, NEW y, HeldBy(x, y) PROVE HeldBy(x, y)'
  BY <1>1, OthersHold
<1> QED
  BY <1>1 DEF Consistent, Held, HeldBy

LEMMA RestartHeld ==
  ASSUME Consistent, Restart
  PROVE  Held'
<1>1. Blank \in Locals /\ HeldBy("idle", Blank)'
  BY BlankHeld DEF Consistent
<1> QED
  BY <1>1 DEF Restart, Held, HeldBy, Suspended

LEMMA Quiet ==
  ASSUME Consistent, UNCHANGED <<node, promo, retired, vetted, waived>>
  PROVE  Progress
BY NodesStay, PromosStay DEF Consistent, Progress, Promos, Approved

LEMMA TextsStay ==
  ASSUME Consistent, Progress, UNCHANGED text
  PROVE  Texts'
BY DEF Consistent, Progress, Texts, ProtectedTextWasApproved

LEMMA Kept ==
  ASSUME Consistent, Progress, Held', UNCHANGED text
  PROVE  Consistent'
BY ProgressKeeps, TextsStay DEF Consistent

(* A step that only moves memories. *)
LEMMA NodesOnly ==
  ASSUME Consistent, NodesEvolve, UNCHANGED <<promo, vetted, waived>>,
         \A n \in retired' \ retired : n \in Live /\ node'[n].expired
  PROVE  Progress
BY PromosStay DEF Consistent, Progress, Promos, Approved

(* applyPromotion holds what it may write. *)
LEMMA ApplyHeld ==
  ASSUME Consistent, Progress, NEW t \in Task, NEW p \in Promos', NEW r, r = promo'[p],
         StartApply(t, p, r)
  PROVE  Held'
<1>1. CASE End(t)
  BY <1>1, EndHeld
<1>2. CASE /\ r.target \in Protected => r.status \notin {"pending", "rejected", "applied"}
           /\ Suspend(t, "write",
                [Blank EXCEPT !.op = "apply", !.promo = p, !.target = r.target, !.node = r.cand,
                   !.append = r.append, !.base = IF r.append THEN text[r.target] ELSE @])
  <2>1. Tables' /\ Approved'
    BY ProgressKeeps
  <2>2. r \in PromoRow /\ p \in Promo /\ r.cand \in Live'
    BY <2>1 DEF Tables, Promos
  <2>3. /\ r.target \in File /\ r.cand \in Node /\ r.append \in BOOLEAN
        /\ r.status \in {"pending", "approved", "rejected", "applied"}
    BY <2>2 DEF PromoRow
  <2>4. r.target \in Protected => p \in Passed'
    BY <1>2, <2>1, <2>3 DEF Approved
  <2>5. text[r.target] \in [Promo -> Nat]
    BY <2>3 DEF Consistent, Texts
  <2>6. r.target \in Protected => \A q \in Promo : text[r.target][q] > 0 => q \in Passed'
    BY DEF Consistent, Texts, ProtectedTextWasApproved, Progress, Passed
  <2>7. PICK b : b = IF r.append THEN text[r.target] ELSE [q \in Promo |-> 0]
    OBVIOUS
  <2>8. /\ b \in [Promo -> Nat]
        /\ r.target \in Protected => \A q \in Promo : b[q] > 0 => q \in Passed'
    BY <2>5, <2>6, <2>7
  <2>9. PICK l : l = [Blank EXCEPT !.op = "apply", !.promo = p, !.target = r.target,
                        !.node = r.cand, !.append = r.append, !.base = b]
    OBVIOUS
  <2>10. l = [Blank EXCEPT !.op = "apply", !.promo = p, !.target = r.target, !.node = r.cand,
               !.append = r.append, !.base = IF r.append THEN text[r.target] ELSE @]
    BY <2>7, <2>9 DEF Blank
  <2>11. Suspend(t, "write", l)
    BY <1>2, <2>10
  <2>12. l \in Locals
    <3>1. Blank \in Locals
      BY BlankHeld DEF Consistent
    <3> QED
      BY <2>2, <2>3, <2>8, <2>9, <3>1 DEF Locals
  <2>13. l.node = r.cand /\ l.promo = p /\ l.target = r.target /\ l.old = NoNode /\ l.base = b
    BY <2>9 DEF Blank
  <2>14. HeldBy("write", l)'
    BY <2>2, <2>3, <2>4, <2>8, <2>12, <2>13 DEF HeldBy, Suspended
  <2> QED
    BY <2>11, <2>14, HeldStays
<1> QED
  BY <1>1, <1>2 DEF StartApply

(* approvePromotion holds the candidate it looked at. *)
LEMMA ApprovalHeld ==
  ASSUME Consistent, Progress, UNCHANGED node, NEW t \in Task, NEW p \in Promos',
         NEW r, r = promo'[p], NEW apply \in BOOLEAN, StartApproval(t, p, r, apply)
  PROVE  Held'
<1>1. CASE End(t)
  BY <1>1, EndHeld
<1>2. CASE /\ ~ Blocked(node[r.cand])
           /\ Suspend(t, "decide",
                [Blank EXCEPT !.op = "approve", !.node = r.cand, !.promo = p, !.apply = apply,
                   !.excluded = node[r.cand].against \cup {r.cand},
                   !.cleared = node[r.cand].against # {}])
  <2>1. Tables'
    BY ProgressKeeps
  <2>2. p \in Promo /\ r.cand \in Live' /\ r.cand \in Node
    BY <2>1 DEF Tables, Promos, Live
  <2>3. ~ node'[r.cand].dup
    BY <1>2 DEF Blocked
  <2>4. node[r.cand] \in NodeRow
    BY <2>2 DEF Consistent, Tables, Live
  <2>5. PICK excluded : excluded = node[r.cand].against \cup {r.cand}
    OBVIOUS
  <2>6. excluded \in SUBSET Node
    BY <2>2, <2>4, <2>5 DEF NodeRow
  <2>7. PICK cleared \in BOOLEAN : cleared = (node[r.cand].against # {})
    OBVIOUS
  <2>8. PICK l : l = [Blank EXCEPT !.op = "approve", !.node = r.cand, !.promo = p, !.apply = apply,
                        !.excluded = excluded, !.cleared = cleared]
    OBVIOUS
  <2>9. Suspend(t, "decide", l)
    BY <1>2, <2>5, <2>7, <2>8
  <2>10. l \in Locals
    <3>1. Blank \in Locals
      BY BlankHeld DEF Consistent
    <3> QED
      BY <2>2, <2>6, <2>8, <3>1 DEF Locals
  <2>11. l.node = r.cand /\ l.promo = p /\ l.old = NoNode
    BY <2>8 DEF Blank
  <2>12. HeldBy("decide", l)'
    BY <2>2, <2>3, <2>10, <2>11 DEF HeldBy, Suspended
  <2> QED
    BY <2>9, <2>12, HeldStays
<1> QED
  BY <1>1, <1>2 DEF StartApproval

-----------------------------------------------------------------------------
(* Each request, step by step. *)
LEMMA CandidateRequests ==
  ASSUME Consistent, NEW t \in Task, NEW f \in File, NEW target \in File \cup {NoFile},
         NEW append \in BOOLEAN, NEW review \in BOOLEAN,
         \/ Propose(t, f, target)
         \/ target \in File /\ Promote(t, f, target, append, review)
         \/ Ingest(t, f)
  PROVE  Consistent'
<1>1. Progress /\ UNCHANGED text
  BY Quiet DEF Propose, Promote, Ingest, Arrive, tables
<1>2. Blank \in Locals
  BY BlankHeld DEF Consistent
<1>3. CASE Propose(t, f, target)
  <2>1. PICK l : l = [Blank EXCEPT !.op = "propose", !.file = f, !.target = target]
    OBVIOUS
  <2>2. l \in Locals /\ l.node = NoNode /\ l.old = NoNode /\ l.promo = NoPromo /\ l.file = f
        /\ l.op = "propose"
    BY <1>2, <2>1 DEF Locals, Blank
  <2>3. HeldBy("detect", l)'
    BY <2>2 DEF HeldBy, Suspended
  <2> QED
    BY <1>1, <1>3, <2>1, <2>3, HeldStays, Kept DEF Propose
<1>4. CASE target \in File /\ Promote(t, f, target, append, review)
  <2>1. PICK l : l = [Blank EXCEPT !.op = "promote", !.file = f, !.target = target,
                        !.append = append, !.review = review]
    OBVIOUS
  <2>2. l \in Locals /\ l.node = NoNode /\ l.old = NoNode /\ l.promo = NoPromo /\ l.file = f
        /\ l.target = target
    BY <1>2, <2>1 DEF Locals, Blank
  <2>3. HeldBy("detect", l)'
    BY <1>4, <2>2 DEF HeldBy, Suspended
  <2> QED
    BY <1>1, <1>4, <2>1, <2>3, HeldStays, Kept DEF Promote
<1>5. CASE Ingest(t, f)
  <2>1. PICK l : l = [Blank EXCEPT !.op = "ingest", !.file = f]
    OBVIOUS
  <2>2. l \in Locals /\ l.node = NoNode /\ l.old = NoNode /\ l.promo = NoPromo /\ l.file = f
        /\ l.op = "ingest"
    BY <1>2, <2>1 DEF Locals, Blank
  <2>3. HeldBy("ingest", l)'
    BY <2>2 DEF HeldBy, Suspended
  <2> QED
    BY <1>1, <1>5, <2>1, <2>3, HeldStays, Kept DEF Ingest
<1> QED
  BY <1>3, <1>4, <1>5

LEMMA InsertCandidateKeeps ==
  ASSUME Consistent, NEW t \in Task, InsertCandidate(t)
  PROVE  Consistent'
<1> DEFINE f == loc[t].file
<1>1. pc[t] = "detect" /\ UNCHANGED <<promo, text, retired, vetted, waived>>
  BY DEF InsertCandidate, history
<1>2. HeldBy("detect", loc[t]) /\ f \in File
  BY <1>1 DEF Consistent, Held, HeldBy
<1>3. PICK n \in Node \ Live :
        /\ \/ node' = [node EXCEPT ![n] = FreshCandidate(f)]
           \/ node' = [node EXCEPT ![n] = Duplicate(f)]
           \/ \E S \in SUBSET {m \in Live : IsDurable(m)} :
                node' = [node EXCEPT ![n] = MarkConflict(FreshCandidate(f), S)]
        /\ Suspend(t, "embed", [loc[t] EXCEPT !.node = n])
  BY DEF InsertCandidate
<1>4. PICK s \in NodeRow : node' = [node EXCEPT ![n] = s] /\ s.against \subseteq Live
  <2>1. CASE node' = [node EXCEPT ![n] = FreshCandidate(f)]
    BY <1>2, <2>1, FreshRows
  <2>2. CASE node' = [node EXCEPT ![n] = Duplicate(f)]
    BY <1>2, <2>2, FreshRows
  <2>3. ASSUME NEW S \in SUBSET {m \in Live : IsDurable(m)},
               node' = [node EXCEPT ![n] = MarkConflict(FreshCandidate(f), S)]
        PROVE  \E s \in NodeRow : node' = [node EXCEPT ![n] = s] /\ s.against \subseteq Live
    <3>1. S \in SUBSET Node
      BY DEF Live
    <3>2. FreshCandidate(f) \in NodeRow
      BY <1>2, FreshRows
    <3>3. MarkConflict(FreshCandidate(f), S) \in NodeRow
          /\ MarkConflict(FreshCandidate(f), S).against = S
      BY <3>1, <3>2, MarkConflictRow DEF Keeps
    <3> QED
      BY <2>3, <3>3
  <2> QED
    BY <1>3, <2>1, <2>2, <2>3
<1>5. NodesEvolve /\ n \in Live'
  BY <1>4, OneNodeAppears DEF Consistent
<1>6. Progress
  BY <1>1, <1>5, NodesOnly
<1>7. PICK m : m = loc[t]
  OBVIOUS
<1>8. PICK l : l = [m EXCEPT !.node = n]
  OBVIOUS
<1>9. HeldBy("embed", l)'
  <2>1. HeldBy("detect", m)'
    BY <1>2, <1>6, <1>7, OthersHold
  <2>2. m \in Locals
    BY <1>2, <1>7 DEF HeldBy
  <2>3. l \in Locals /\ l.node = n /\ l.op = m.op /\ l.target = m.target /\ l.promo = m.promo
        /\ l.old = m.old
    BY <1>8, <2>2 DEF Locals
  <2> QED
    BY <1>5, <2>1, <2>3 DEF HeldBy, Suspended
<1> QED
  BY <1>1, <1>3, <1>6, <1>7, <1>8, <1>9, HeldStays, Kept

LEMMA ProposedKeeps ==
  ASSUME Consistent, NEW t \in Task, Proposed(t)
  PROVE  Consistent'
<1>1. HeldBy("embed", loc[t]) /\ loc[t].node \in Live /\ loc[t].target \in File \cup {NoFile}
  BY DEF Proposed, Consistent, Held, HeldBy, Locals
<1>2. UNCHANGED <<node, text, retired, vetted, waived>> /\ End(t)
  BY DEF Proposed, history
<1>3. PromosEvolve /\ \A q \in Promos' : promo'[q].status = "approved" =>
        q \in Promos /\ promo[q].status = "approved"
  <2>1. CASE UNCHANGED promo
    BY <2>1, PromosStay DEF Consistent, Promos
  <2>2. CASE loc[t].target # NoFile /\ EnsurePromo(loc[t].node, loc[t].target)
    <3>1. PICK p : p = IF Latest(loc[t].node) # NoPromo THEN Latest(loc[t].node) ELSE NextPromo
      OBVIOUS
    <3> QED
      BY <1>1, <2>2, <3>1, EnsuredPromo DEF Consistent
  <2> QED
    BY <2>1, <2>2 DEF Proposed
<1>4. Progress
  BY <1>2, <1>3, NodesStay DEF Consistent, Progress, Approved
<1> QED
  BY <1>2, <1>4, EndHeld, Kept

LEMMA PromotedKeeps ==
  ASSUME Consistent, NEW t \in Task, Promoted(t)
  PROVE  Consistent'
<1> DEFINE l == loc[t]
<1>1. HeldBy("embed", l) /\ l.node \in Live /\ l.target \in File /\ l.append \in BOOLEAN
      /\ l.review \in BOOLEAN
  BY DEF Promoted, Consistent, Held, HeldBy, Locals
<1>2. PICK p, status : p = NextPromo /\ status = IF l.review THEN "pending" ELSE "approved"
  OBVIOUS
<1>3. NewPromo(p, l.node, l.target, l.append, status) /\ UNCHANGED <<node, text, retired, vetted>>
  BY <1>2 DEF Promoted
<1>4. PICK s : s = [cand |-> l.node, target |-> l.target, append |-> l.append, status |-> status]
  OBVIOUS
<1>5. PromosEvolve /\ Promos' = Promos \cup {p} /\ p \notin Promos /\ promo'[p] = s
  <2>1. s \in PromoRow /\ s.cand \in Live
    BY <1>1, <1>2, <1>4 DEF PromoRow, Live
  <2>2. p = NextPromo /\ p \in Promo /\ promo' = [promo EXCEPT ![p] = s]
    BY <1>3, <1>4 DEF NewPromo
  <2> QED
    BY <2>1, <2>2, OneRowAppears DEF Consistent
<1>6. \A q \in Promos : promo'[q] = promo[q]
  BY <1>3, <1>5 DEF NewPromo, Consistent, Tables, Promos
<1>7. p \in Promo
  BY <1>3 DEF NewPromo
<1>8. CASE l.review
  <2>1. End(t) /\ UNCHANGED waived /\ s.status = "pending"
    BY <1>2, <1>4, <1>8 DEF Promoted
  <2>2. Progress
    BY <1>3, <1>5, <1>6, <2>1, NodesStay DEF Consistent, Progress, Approved
  <2> QED
    BY <1>3, <2>1, <2>2, EndHeld, Kept
<1>9. CASE ~ l.review
  <2>1. StartApply(t, p, promo'[p]) /\ waived' = waived \cup {p}
    BY <1>2, <1>9 DEF Promoted
  <2>2. Progress
    BY <1>3, <1>5, <1>6, <1>7, <2>1, NodesStay DEF Consistent, Progress, Approved
  <2>3. StartApply(t, p, s)
    BY <1>5, <2>1
  <2> QED
    BY <1>3, <1>5, <2>2, <2>3, ApplyHeld, Kept
<1> QED
  BY <1>1, <1>8, <1>9

LEMMA ApproveCandidateKeeps ==
  ASSUME Consistent, NEW t \in Task, NEW n \in Live, NEW p \in Found(n),
         NEW target \in File \cup {NoFile}, NEW apply \in BOOLEAN,
         ApproveCandidate(t, n, p, target, apply)
  PROVE  Consistent'
<1>1. Progress /\ UNCHANGED text
  BY Quiet DEF ApproveCandidate, Arrive, tables
<1>2. Blank \in Locals
  BY BlankHeld DEF Consistent
<1>3. p \in Promos \cup {NoPromo} /\ p \in Promo \cup {NoPromo}
  BY DEF Found, PromosOf, Promos
<1>4. n \in Node /\ node[n] \in NodeRow
  BY DEF Consistent, Tables, Live
<1>5. PICK excluded : excluded = node[n].against \cup {n}
  OBVIOUS
<1>6. excluded \in SUBSET Node
  BY <1>4, <1>5 DEF NodeRow
<1>7. PICK cleared \in BOOLEAN : cleared = (node[n].against # {})
  OBVIOUS
<1>8. PICK l : l = [Blank EXCEPT !.op = "approve", !.node = n, !.promo = p, !.target = target,
                      !.apply = apply, !.excluded = excluded, !.cleared = cleared]
  OBVIOUS
<1>9. Suspend(t, "review", l)
  BY <1>5, <1>7, <1>8 DEF ApproveCandidate
<1>10. l \in Locals
  BY <1>2, <1>3, <1>4, <1>6, <1>8 DEF Locals
<1>11. l.node = n /\ l.promo = p /\ l.old = NoNode
  BY <1>8 DEF Blank
<1>12. HeldBy("review", l)
  BY <1>3, <1>10, <1>11 DEF HeldBy, Suspended
<1> QED
  BY <1>1, <1>9, <1>12, OthersHold, HeldStays, Kept

LEMMA ApprovalBlockedKeeps ==
  ASSUME Consistent, NEW t \in Task, ApprovalBlocked(t)
  PROVE  Consistent'
<1>1. HeldBy(pc[t], loc[t]) /\ loc[t].node \in Live
  BY DEF ApprovalBlocked, Consistent, Held, HeldBy
<1>2. PICK n, S : /\ n = loc[t].node /\ S \in Conflicts(loc[t])
                  /\ node' = [node EXCEPT ![n] = MarkConflict(@, S)]
  BY DEF ApprovalBlocked
<1>3. UNCHANGED <<promo, text, retired, vetted, waived>> /\ End(t)
  BY DEF ApprovalBlocked, history
<1>4. S \subseteq Live /\ S \in SUBSET Node
  BY <1>2 DEF Conflicts, Live
<1>5. n \in Live /\ n \in Node /\ node[n] \in NodeRow
  BY <1>1, <1>2 DEF Consistent, Tables, Live
<1>6. PICK s : s = MarkConflict(node[n], S)
  OBVIOUS
<1>7. Keeps(node[n], s) /\ s.against = S
  BY <1>4, <1>5, <1>6, MarkConflictRow
<1>8. node' = [node EXCEPT ![n] = s]
  BY <1>2, <1>6
<1>9. NodesEvolve
  BY <1>4, <1>5, <1>7, <1>8, OneNodeChanges DEF Consistent
<1>10. Progress
  BY <1>3, <1>9, NodesOnly
<1> QED
  BY <1>3, <1>10, EndHeld, Kept

LEMMA ApprovalReviewedKeeps ==
  ASSUME Consistent, NEW t \in Task, ApprovalReviewed(t)
  PROVE  Consistent'
<1>1. PICK l : l = loc[t]
  OBVIOUS
<1>2. /\ l.node \in Live /\ l.promo \in Promos \cup {NoPromo}
      /\ l.target \in File \cup {NoFile} /\ l.apply \in BOOLEAN
  BY <1>1 DEF ApprovalReviewed, Consistent, Held, HeldBy, Locals
<1>3. UNCHANGED <<node, text, retired, vetted, waived>>
  BY DEF ApprovalReviewed, history
<1>4. CASE l.promo # NoPromo
  <2>1. UNCHANGED promo /\ StartApproval(t, l.promo, promo[l.promo], l.apply)
    BY <1>1, <1>4 DEF ApprovalReviewed
  <2>2. Progress
    BY <1>3, <2>1, Quiet
  <2>3. PICK r : r = promo[l.promo]
    OBVIOUS
  <2>4. l.promo \in Promos' /\ r = promo'[l.promo]
    BY <1>2, <1>4, <2>1, <2>3, PromosStay DEF Consistent
  <2> QED
    BY <1>2, <1>3, <2>1, <2>2, <2>3, <2>4, ApprovalHeld, Kept
<1>5. CASE l.promo = NoPromo /\ l.target = NoFile
  <2>1. UNCHANGED promo /\ End(t)
    BY <1>1, <1>5 DEF ApprovalReviewed
  <2> QED
    BY <1>3, <2>1, Quiet, EndHeld, Kept
<1>6. CASE l.promo = NoPromo /\ l.target # NoFile
  <2>1. PICK p : p = IF Latest(l.node) # NoPromo THEN Latest(l.node) ELSE NextPromo
    OBVIOUS
  <2>2. EnsurePromo(l.node, l.target) /\ StartApproval(t, p, promo'[p], l.apply)
    BY <1>1, <1>6, <2>1 DEF ApprovalReviewed
  <2>3. /\ PromosEvolve /\ p \in Promos'
        /\ \A q \in Promos' : promo'[q].status = "approved" =>
              q \in Promos /\ promo[q].status = "approved"
    <3>1. PICK n, f : n = l.node /\ f = l.target
      OBVIOUS
    <3>2. n \in Live /\ f \in File /\ EnsurePromo(n, f) /\ Tables
      BY <1>2, <1>6, <2>2, <3>1 DEF Consistent
    <3>3. p = IF Latest(n) # NoPromo THEN Latest(n) ELSE NextPromo
      BY <2>1, <3>1
    <3> QED
      BY <3>2, <3>3, EnsuredPromo
  <2>4. Progress
    BY <1>3, <2>3, NodesStay DEF Consistent, Progress, Approved
  <2>5. PICK r : r = promo'[p]
    OBVIOUS
  <2> QED
    BY <1>2, <1>3, <2>2, <2>3, <2>4, <2>5, ApprovalHeld, Kept
<1> QED
  BY <1>4, <1>5, <1>6

LEMMA ApprovePromotionKeeps ==
  ASSUME Consistent, NEW t \in Task, NEW p \in Promos, NEW apply \in BOOLEAN,
         ApprovePromotion(t, p, apply) \/ ApplyPromotion(t, p)
  PROVE  Consistent'
<1>1. Progress /\ UNCHANGED <<node, promo, text>>
  BY Quiet DEF ApprovePromotion, ApplyPromotion, Arrive, tables
<1>2. PICK r : r = promo[p]
  OBVIOUS
<1>3. p \in Promos' /\ r = promo'[p]
  BY <1>1, <1>2, PromosStay DEF Consistent
<1>4. CASE ApprovePromotion(t, p, apply)
  <2>1. StartApproval(t, p, r, apply)
    BY <1>2, <1>4 DEF ApprovePromotion
  <2> QED
    BY <1>1, <1>3, <2>1, ApprovalHeld, Kept
<1>5. CASE ApplyPromotion(t, p)
  <2>1. StartApply(t, p, r)
    BY <1>2, <1>5 DEF ApplyPromotion
  <2> QED
    BY <1>1, <1>3, <2>1, ApplyHeld, Kept
<1> QED
  BY <1>4, <1>5

LEMMA DecideKeeps ==
  ASSUME Consistent, NEW t \in Task, Decide(t)
  PROVE  Consistent'
<1>1. PICK l : l = loc[t]
  OBVIOUS
<1>2. PICK p, n : p = l.promo /\ n = l.node
  OBVIOUS
<1>3. /\ n \in Live /\ p \in Promos
      /\ promo[p].cand = n /\ ~ node[n].dup
  BY <1>1, <1>2 DEF Decide, Consistent, Held, HeldBy
<1>4. /\ promo' = [promo EXCEPT ![p].status = "approved"]
      /\ node' = [node EXCEPT ![n] = MarkTrust(@, "reviewed", "approved")]
      /\ vetted' = vetted \cup {p} /\ UNCHANGED <<text, retired, waived>>
      /\ StartApply(t, p, promo'[p]) \/ End(t)
  BY <1>1, <1>2 DEF Decide
<1>5. NodesEvolve
  <2>1. PICK s : s = MarkTrust(node[n], "reviewed", "approved")
    OBVIOUS
  <2>2. n \in Node /\ node[n] \in NodeRow
    BY <1>3 DEF Consistent, Tables, Live
  <2>3. Keeps(node[n], s) /\ s.against = node[n].against
    BY <2>1, <2>2, MarkTrustRow DEF Trust, Status
  <2>4. node' = [node EXCEPT ![n] = s] /\ s.against \subseteq Live
    BY <1>3, <1>4, <2>1, <2>3 DEF Consistent, Tables
  <2> QED
    BY <1>3, <2>3, <2>4, OneNodeChanges DEF Consistent
<1>6. PICK s : s = [promo[p] EXCEPT !.status = "approved"]
  OBVIOUS
<1>7. s \in PromoRow /\ s.cand = promo[p].cand
  BY <1>3, <1>6, CandIsLive DEF Consistent, PromoRow
<1>8. PromosEvolve /\ Promos' = Promos /\ promo'[p] = s
  BY <1>3, <1>4, <1>6, <1>7, OnePromoChanges DEF Consistent
<1>9. \A q \in Promos : q # p => promo'[q] = promo[q]
  BY <1>4 DEF Consistent, Tables, Promos
<1>10. Progress
  BY <1>3, <1>4, <1>5, <1>8, <1>9 DEF Progress, Consistent, Approved
<1>11. CASE End(t)
  BY <1>4, <1>10, <1>11, EndHeld, Kept
<1>12. CASE StartApply(t, p, promo'[p])
  <2>1. StartApply(t, p, s) /\ p \in Promos'
    BY <1>3, <1>8, <1>12
  <2> QED
    BY <1>4, <1>8, <1>10, <2>1, ApplyHeld, Kept
<1> QED
  BY <1>4, <1>11, <1>12

LEMMA WriteTargetKeeps ==
  ASSUME Consistent, NEW t \in Task, WriteTarget(t)
  PROVE  Consistent'
<1>1. PICK l : l = loc[t]
  OBVIOUS
<1>2. HeldBy("write", l)
  BY <1>1 DEF WriteTarget, Consistent, Held
<1>3. /\ l \in Locals /\ l.promo \in Promos /\ l.target \in File /\ l.promo \in Promo
      /\ l.base \in [Promo -> Nat] /\ l.node \in Live \cup {NoNode}
      /\ l.target \in Protected =>
           l.promo \in Passed /\ \A q \in Promo : l.base[q] > 0 => q \in Passed
  BY <1>2 DEF HeldBy, Locals, Promos
<1>4. /\ text' = [text EXCEPT ![l.target] = [l.base EXCEPT ![l.promo] = @ + 1]]
      /\ Suspend(t, "ingest", Applying(l, l.target)) /\ UNCHANGED <<node, promo, retired, vetted, waived>>
  BY <1>1 DEF WriteTarget, history
<1>5. Progress
  BY <1>4, Quiet
<1>6. Texts'
  <2>1. PICK b : b = [l.base EXCEPT ![l.promo] = @ + 1]
    OBVIOUS
  <2>2. b \in [Promo -> Nat] /\ l.base[l.promo] \in Nat
    BY <1>3, <2>1
  <2>3. \A q \in Promo : b[q] > 0 => q = l.promo \/ l.base[q] > 0
    BY <1>3, <2>1
  <2>4. text' = [text EXCEPT ![l.target] = b]
    BY <1>4, <2>1
  <2>5. text' \in [File -> [Promo -> Nat]]
    BY <1>3, <2>2, <2>4 DEF Consistent, Texts
  <2>6. text'[l.target] = b /\ \A f \in File \ {l.target} : text'[f] = text[f]
    BY <1>3, <2>4 DEF Consistent, Texts
  <2>7. ASSUME NEW f \in Protected, NEW q \in Promo, text'[f][q] > 0 PROVE q \in Passed
    <3>1. CASE f = l.target
      BY <1>3, <2>3, <2>6, <2>7, <3>1
    <3>2. CASE f # l.target
      BY <2>6, <2>7, <3>2, MemoryReviewAssumption
         DEF Consistent, Texts, ProtectedTextWasApproved, Passed
    <3> QED
      BY <3>1, <3>2
  <2> QED
    BY <1>4, <2>5, <2>7 DEF Texts, ProtectedTextWasApproved, Passed
<1>7. Held'
  <2>1. PICK k : k = Applying(l, l.target)
    OBVIOUS
  <2>2. Blank \in Locals
    BY BlankHeld DEF Consistent
  <2>3. l.node \in Node \cup {NoNode}
    BY <1>3 DEF Live
  <2>4. k \in Locals /\ k.node = l.node /\ k.promo = l.promo /\ k.old = NoNode /\ k.file = l.target
    BY <1>3, <2>1, <2>2, <2>3 DEF Applying, Locals, Blank
  <2>5. HeldBy("ingest", k)
    BY <1>3, <2>4 DEF HeldBy, Suspended
  <2>6. Suspend(t, "ingest", k)
    BY <1>4, <2>1
  <2> QED
    BY <1>5, <2>5, <2>6, OthersHold, HeldStays
<1> QED
  BY <1>5, <1>6, <1>7, ProgressKeeps DEF Consistent

LEMMA InsertExtractedKeeps ==
  ASSUME Consistent, NEW t \in Task, InsertExtracted(t)
  PROVE  Consistent'
<1>1. PICK l : l = loc[t]
  OBVIOUS
<1>2. pc[t] = "ingest" /\ HeldBy("ingest", l) /\ l \in Locals /\ l.file \in File
  BY <1>1 DEF InsertExtracted, Consistent, Held, HeldBy
<1>3. PICK n \in Node \ Live, m \in Live \cup {NoNode} :
        /\ node' = [node EXCEPT ![n] = Fresh(l.file)]
        /\ Suspend(t, "link", [l EXCEPT !.old = m])
  BY <1>1 DEF InsertExtracted
<1>4. UNCHANGED <<promo, text, retired, vetted, waived>>
  BY DEF InsertExtracted, history
<1>5. PICK s : s = Fresh(l.file)
  OBVIOUS
<1>6. s \in NodeRow /\ s.against \subseteq Live /\ node' = [node EXCEPT ![n] = s]
  BY <1>2, <1>3, <1>5, FreshRows
<1>7. NodesEvolve
  BY <1>6, OneNodeAppears DEF Consistent
<1>8. Progress
  BY <1>4, <1>7, NodesOnly
<1>9. PICK k : k = [l EXCEPT !.old = m]
  OBVIOUS
<1>10. k \in Locals /\ k.old = m /\ k.node = l.node /\ k.promo = l.promo /\ k.file = l.file
       /\ k.op = l.op
  BY <1>2, <1>3, <1>9 DEF Locals, Live
<1>11. HeldBy("link", k)
  BY <1>2, <1>3, <1>10 DEF HeldBy, Suspended
<1> QED
  BY <1>3, <1>4, <1>8, <1>9, <1>11, OthersHold, HeldStays, Kept

LEMMA LinkExtractedKeeps ==
  ASSUME Consistent, NEW t \in Task, LinkExtracted(t)
  PROVE  Consistent'
<1>1. PICK l, m : l = loc[t] /\ m = l.old
  OBVIOUS
<1>2. pc[t] = "link" /\ HeldBy("link", l) /\ l \in Locals /\ m \in Live \cup {NoNode}
  BY <1>1 DEF LinkExtracted, Consistent, Held, HeldBy
<1>3. UNCHANGED <<promo, text, vetted, waived>> /\ Suspend(t, "ingest", [l EXCEPT !.old = NoNode])
  BY <1>1 DEF LinkExtracted
<1>4. Progress
  <2>1. CASE m = NoNode
    BY <1>1, <1>3, <2>1, Quiet DEF LinkExtracted
  <2>2. CASE m # NoNode
    <3>1. node' = [node EXCEPT ![m] = Superseded(@)] /\ retired' = retired \cup {m}
      BY <1>1, <2>2 DEF LinkExtracted
    <3>2. m \in Live /\ m \in Node /\ node[m] \in NodeRow /\ node[m].against \subseteq Live
      BY <1>2, <2>2 DEF Consistent, Tables, Live
    <3>3. PICK s : s = Superseded(node[m])
      OBVIOUS
    <3>4. Keeps(node[m], s) /\ s.against = node[m].against /\ s.expired
      BY <3>2, <3>3, RetiredRow
    <3>5. NodesEvolve
      BY <3>1, <3>2, <3>3, <3>4, OneNodeChanges DEF Consistent
    <3>6. node'[m] = s
      BY <3>1, <3>2, <3>3 DEF Consistent, Tables
    <3> QED
      BY <1>3, <3>1, <3>2, <3>4, <3>5, <3>6, NodesOnly
  <2> QED
    BY <2>1, <2>2
<1>5. PICK k : k = [l EXCEPT !.old = NoNode]
  OBVIOUS
<1>6. k \in Locals /\ k.old = NoNode /\ k.node = l.node /\ k.promo = l.promo /\ k.file = l.file
      /\ k.op = l.op
  BY <1>2, <1>5 DEF Locals
<1>7. HeldBy("ingest", k)
  BY <1>2, <1>6 DEF HeldBy, Suspended
<1> QED
  BY <1>3, <1>4, <1>5, <1>7, OthersHold, HeldStays, Kept

LEMMA IngestEndKeeps ==
  ASSUME Consistent, NEW t \in Task, IngestEnd(t)
  PROVE  Consistent'
<1>1. PICK l : l = loc[t]
  OBVIOUS
<1>2. pc[t] = "ingest" /\ HeldBy("ingest", l)
  BY <1>1 DEF IngestEnd, Consistent, Held
<1>3. UNCHANGED <<text, retired, vetted, waived>> /\ End(t)
  BY DEF IngestEnd, history
<1>4. CASE l.op # "apply"
  <2>1. UNCHANGED <<node, promo>>
    BY <1>1, <1>4 DEF IngestEnd
  <2> QED
    BY <1>3, <2>1, Quiet, EndHeld, Kept
<1>5. CASE l.op = "apply"
  <2>1. PICK p, S : p = l.promo /\ S = {n \in Live : node[n].file = l.target \/ n = l.node}
    OBVIOUS
  <2>2. /\ node' = [n \in Node |-> IF n \in S THEN MarkTrust(node[n], "trusted", "approved")
                                              ELSE node[n]]
        /\ promo' = [promo EXCEPT ![p].status = "applied"]
    BY <1>1, <1>5, <2>1 DEF IngestEnd
  <2>3. p \in Promos /\ promo[p] \in PromoRow
    BY <1>2, <1>5, <2>1, CandIsLive DEF Consistent, HeldBy
  <2>4. NodesEvolve
    <3>1. ASSUME NEW n \in Live
          PROVE  Keeps(node[n], node'[n]) /\ node'[n].against \subseteq Live /\ node'[n] \in NodeRow
      <4>1. n \in Node /\ node[n] \in NodeRow /\ node[n].against \subseteq Live
        BY DEF Consistent, Tables, Live
      <4>2. CASE n \in S
        <5>1. node'[n] = MarkTrust(node[n], "trusted", "approved")
          BY <2>2, <4>1, <4>2
        <5> QED
          BY <4>1, <5>1, MarkTrustRow DEF Trust, Status, Keeps
      <4>3. CASE n \notin S
        <5>1. node'[n] = node[n]
          BY <2>2, <4>1, <4>3
        <5> QED
          BY <4>1, <5>1 DEF Keeps
      <4> QED
        BY <4>2, <4>3
    <3>2. \A n \in Node \ Live : node'[n] = node[n]
      BY <2>1, <2>2
    <3>3. \A n \in Node \ Live : node[n] = Absent
      BY DEF Live
    <3>4. node' \in [Node -> NodeRow \cup {Absent}]
      <4>1. \A n \in Node : node'[n] \in NodeRow \cup {Absent}
        BY <3>1, <3>2, <3>3
      <4>2. node' = [n \in Node |-> node'[n]]
        BY <2>2
      <4> QED
        BY <4>1, <4>2
    <3> QED
      BY <3>1, <3>2, <3>4, NodesChange DEF Consistent
  <2>5. PICK s : s = [promo[p] EXCEPT !.status = "applied"]
    OBVIOUS
  <2>6. s \in PromoRow /\ s.cand = promo[p].cand /\ s.status # "approved"
    BY <2>3, <2>5 DEF PromoRow
  <2>7. PromosEvolve /\ Promos' = Promos /\ promo'[p] = s
    BY <2>2, <2>3, <2>5, <2>6, OnePromoChanges DEF Consistent
  <2>8. \A q \in Promos : q # p => promo'[q] = promo[q]
    BY <2>2 DEF Consistent, Tables, Promos
  <2>9. Progress
    BY <1>3, <2>4, <2>6, <2>7, <2>8 DEF Progress, Consistent, Approved
  <2> QED
    BY <1>3, <2>9, EndHeld, Kept
<1> QED
  BY <1>4, <1>5

-----------------------------------------------------------------------------
LEMMA UpdateCandidateKeeps ==
  ASSUME Consistent, NEW t \in Task, NEW n \in Live, NEW p \in Found(n),
         NEW s \in EditStatus \cup {"keep"}, NEW target \in File \cup {NoFile},
         UpdateCandidate(t, n, p, s, target)
  PROVE  Consistent'
<1>1. PICK next \in EditStatus, reason \in BOOLEAN : node' = [node EXCEPT ![n] = EditedNode(@, next, reason)]
  BY DEF UpdateCandidate
<1>2. UNCHANGED <<promo, text, retired, vetted, waived>>
  BY DEF UpdateCandidate, Arrive
<1>3. n \in Node /\ node[n] \in NodeRow /\ node[n].against \subseteq Live
  BY DEF Consistent, Tables, Live
<1>4. PICK r : r = EditedNode(node[n], next, reason)
  OBVIOUS
<1>5. Keeps(node[n], r) /\ r.against = node[n].against
  BY <1>3, <1>4, EditedRow
<1>6. NodesEvolve
  BY <1>1, <1>3, <1>4, <1>5, OneNodeChanges DEF Consistent
<1>7. Progress
  BY <1>2, <1>6, NodesOnly
<1>8. PICK l : l = [Blank EXCEPT !.op = "edit", !.node = n, !.promo = p, !.target = target]
  OBVIOUS
<1>9. Blank \in Locals
  BY BlankHeld DEF Consistent
<1>10. p \in Promos \cup {NoPromo} /\ p \in Promo \cup {NoPromo}
  BY DEF Found, PromosOf, Promos
<1>11. l \in Locals /\ l.node = n /\ l.promo = p /\ l.old = NoNode
  BY <1>3, <1>8, <1>9, <1>10 DEF Locals, Blank
<1>12. HeldBy("edit", l)
  BY <1>10, <1>11 DEF HeldBy, Suspended
<1> QED
  BY <1>2, <1>7, <1>8, <1>12, OthersHold, HeldStays, Kept DEF UpdateCandidate

LEMMA EditPromoKeeps ==
  ASSUME Consistent, NEW t \in Task, EditPromo(t)
  PROVE  Consistent'
<1>1. PICK n, p, f : n = loc[t].node /\ p = loc[t].promo /\ f = loc[t].target
  OBVIOUS
<1>2. n \in Live /\ p \in Promos \cup {NoPromo} /\ f \in File \cup {NoFile}
  BY <1>1 DEF EditPromo, Consistent, Held, HeldBy, Locals
<1>3. UNCHANGED <<node, text, retired, vetted, waived>> /\ End(t)
  BY DEF EditPromo, history
<1>4. PromosEvolve /\ \A q \in Promos' : promo'[q].status = "approved" =>
        q \in Promos /\ promo[q].status = "approved"
  <2>1. CASE UNCHANGED promo
    BY <2>1, PromosStay DEF Consistent, Promos
  <2>2. CASE f # NoFile /\ p # NoPromo /\ promo' = [promo EXCEPT ![p].target = f]
    <3>1. p \in Promos /\ promo[p] \in PromoRow
      BY <1>2, <2>2, CandIsLive DEF Consistent
    <3>2. PICK s : s = [promo[p] EXCEPT !.target = f]
      OBVIOUS
    <3>3. s \in PromoRow /\ s.cand = promo[p].cand /\ s.status = promo[p].status
      BY <1>2, <2>2, <3>1, <3>2 DEF PromoRow
    <3>4. promo' = [promo EXCEPT ![p] = s]
      BY <2>2, <3>2
    <3>5. PromosEvolve /\ Promos' = Promos /\ promo'[p] = s
      BY <3>1, <3>3, <3>4, OnePromoChanges DEF Consistent
    <3>6. \A q \in Promos : q # p => promo'[q] = promo[q]
      BY <3>4 DEF Consistent, Tables, Promos
    <3> QED
      BY <3>1, <3>3, <3>5, <3>6
  <2>3. CASE f # NoFile /\ EnsurePromo(n, f)
    <3>1. PICK q : q = IF Latest(n) # NoPromo THEN Latest(n) ELSE NextPromo
      OBVIOUS
    <3> QED
      BY <1>2, <2>3, <3>1, EnsuredPromo DEF Consistent
  <2> QED
    BY <1>1, <2>1, <2>2, <2>3 DEF EditPromo
<1>5. Progress
  BY <1>3, <1>4, NodesStay DEF Consistent, Progress, Approved
<1> QED
  BY <1>3, <1>5, EndHeld, Kept

-----------------------------------------------------------------------------
(* The reviewer's synchronous requests. *)
LEMMA RejectKeeps ==
  ASSUME Consistent, NEW n \in Live, NEW p \in Promos \cup {NoPromo}, Reject(n, p),
         UNCHANGED <<pc, loc, waived>>
  PROVE  Consistent'
<1>1. node' = [node EXCEPT ![n] = Rejected(@)] /\ retired' = retired \cup {n}
      /\ UNCHANGED <<text, vetted>>
  BY DEF Reject
<1>2. n \in Node /\ node[n] \in NodeRow /\ node[n].against \subseteq Live
  BY DEF Consistent, Tables, Live
<1>3. PICK s : s = Rejected(node[n])
  OBVIOUS
<1>4. Keeps(node[n], s) /\ s.against = node[n].against /\ s.expired
  BY <1>2, <1>3, RetiredRow
<1>5. NodesEvolve /\ node'[n].expired
  <2>1. NodesEvolve
    BY <1>1, <1>2, <1>3, <1>4, OneNodeChanges DEF Consistent
  <2>2. node'[n] = s
    BY <1>1, <1>2, <1>3 DEF Consistent, Tables
  <2> QED
    BY <1>4, <2>1, <2>2
<1>6. PromosEvolve /\ \A q \in Promos' : promo'[q].status = "approved" =>
        q \in Promos /\ promo[q].status = "approved"
  <2>1. CASE UNCHANGED promo
    BY <2>1, PromosStay DEF Consistent, Promos
  <2>2. CASE p # NoPromo /\ promo' = [promo EXCEPT ![p].status = "rejected"]
    <3>1. p \in Promos /\ promo[p] \in PromoRow
      BY <2>2, CandIsLive DEF Consistent
    <3>2. PICK r : r = [promo[p] EXCEPT !.status = "rejected"]
      OBVIOUS
    <3>3. r \in PromoRow /\ r.cand = promo[p].cand /\ r.status # "approved"
      BY <3>1, <3>2 DEF PromoRow
    <3>4. PromosEvolve /\ Promos' = Promos /\ promo'[p] = r
      BY <2>2, <3>1, <3>2, <3>3, OnePromoChanges DEF Consistent
    <3>5. \A q \in Promos : q # p => promo'[q] = promo[q]
      BY <2>2 DEF Consistent, Tables, Promos
    <3> QED
      BY <3>1, <3>3, <3>4, <3>5
  <2> QED
    BY <2>1, <2>2 DEF Reject
<1>7. Progress
  BY <1>1, <1>5, <1>6 DEF Consistent, Progress, Approved
<1> QED
  BY <1>1, <1>7, NowHeld, Kept

LEMMA LatestOrNone ==
  ASSUME Tables, NEW n
  PROVE  Latest(n) \in Promos \cup {NoPromo}
<1>1. CASE PromosOf(n) = {}
  BY <1>1 DEF Latest
<1>2. CASE PromosOf(n) # {}
  BY <1>2, LatestIsOne DEF PromosOf
<1> QED
  BY <1>1, <1>2

LEMMA ResolvedRows ==
  ASSUME Consistent, NEW n \in Live, NEW supersede \in BOOLEAN
  PROVE  /\ Resolved(n, supersede) \in [Node -> NodeRow \cup {Absent}]
         /\ \A m \in Live : /\ Keeps(node[m], Resolved(n, supersede)[m])
                            /\ Resolved(n, supersede)[m].against = node[m].against
         /\ \A m \in Node \ Live : Resolved(n, supersede)[m] = node[m]
         /\ supersede => \A m \in node[n].against \ {n} :
              m \in Live /\ Resolved(n, supersede)[m].expired
<1> DEFINE R == Resolved(n, supersede)
<1>1. \A m \in Live : m \in Node /\ node[m] \in NodeRow /\ node[m].against \subseteq Live
  BY DEF Consistent, Tables, Live
<1>2. /\ R[n] = [node[n] EXCEPT !.status = "candidate", !.why = FALSE]
      /\ \A m \in Node \ {n} :
           R[m] = IF supersede /\ m \in node[n].against THEN Superseded(node[m]) ELSE node[m]
      /\ R = [m \in Node |-> R[m]]
  BY <1>1 DEF Resolved
<1> HIDE DEF R
<1>3. Keeps(node[n], R[n]) /\ R[n].against = node[n].against
  BY <1>1, <1>2 DEF Keeps, NodeRow, Status
<1>4. ASSUME NEW m \in Live, m # n PROVE Keeps(node[m], R[m]) /\ R[m].against = node[m].against
  <2>1. CASE supersede /\ m \in node[n].against
    BY <1>1, <1>2, <1>4, <2>1, RetiredRow
  <2>2. CASE ~ (supersede /\ m \in node[n].against)
    BY <1>1, <1>2, <1>4, <2>2 DEF Keeps
  <2> QED
    BY <2>1, <2>2
<1>5. \A m \in Node \ Live : R[m] = node[m] /\ node[m] = Absent
  <2>1. \A m \in Node \ Live : m # n /\ m \notin node[n].against
    BY <1>1
  <2> QED
    BY <1>2, <2>1 DEF Live
<1>6. \A m \in Node : R[m] \in NodeRow \cup {Absent}
  BY <1>3, <1>4, <1>5 DEF Keeps
<1>7. R \in [Node -> NodeRow \cup {Absent}]
  BY <1>2, <1>6
<1>8. ASSUME supersede, NEW m \in node[n].against \ {n} PROVE m \in Live /\ R[m].expired
  <2>1. m \in Live /\ m \in Node /\ node[m] \in NodeRow
    BY <1>1
  <2>2. R[m] = Superseded(node[m])
    BY <1>2, <1>8, <2>1
  <2> QED
    BY <2>1, <2>2, RetiredRow
<1> QED
  BY <1>3, <1>4, <1>5, <1>7, <1>8 DEF R

LEMMA ResolveKeeps ==
  ASSUME Consistent, NEW n \in Live, NEW supersede \in BOOLEAN, ResolveConflict(n, supersede)
  PROVE  Consistent'
<1>1. node' = Resolved(n, supersede) /\ UNCHANGED <<promo, text, vetted, pc, loc, waived>>
  BY DEF ResolveConflict, Now
<1>2. \A m \in Live : node[m].against \subseteq Live
  BY DEF Consistent, Tables
<1>3. NodesEvolve
  BY <1>1, <1>2, ResolvedRows, NodesChange DEF Consistent
<1>4. retired' = IF supersede THEN retired \cup (node[n].against \ {n}) ELSE retired
  BY DEF ResolveConflict, Retire
<1>5. Progress
  BY <1>1, <1>3, <1>4, ResolvedRows, NodesOnly
<1> QED
  BY <1>1, <1>5, NowHeld, Kept

LEMMA ResolveWithTargetKeeps ==
  ASSUME Consistent, NEW t \in Task, NEW n \in Live, NEW supersede \in BOOLEAN, NEW target \in File,
         ResolveWithTarget(t, n, supersede, target)
  PROVE  Consistent'
<1>1. PICK R : R = Resolved(n, supersede)
  OBVIOUS
<1>2. /\ R \in [Node -> NodeRow \cup {Absent}]
      /\ \A m \in Live : Keeps(node[m], R[m]) /\ R[m].against = node[m].against
      /\ \A m \in Node \ Live : R[m] = node[m]
      /\ supersede => \A m \in node[n].against \ {n} : m \in Live /\ R[m].expired
  BY <1>1, ResolvedRows
<1>3. \A m \in Live : m \in Node /\ node[m] \in NodeRow /\ node[m].against \subseteq Live
  BY DEF Consistent, Tables, Live
<1>4. retired' = IF supersede THEN retired \cup (node[n].against \ {n}) ELSE retired
  BY DEF ResolveWithTarget, Retire
<1>5. UNCHANGED <<promo, text, vetted, waived>>
  BY DEF ResolveWithTarget, Arrive
<1>6. CASE node' = R /\ Restart
  <2>1. NodesEvolve
    BY <1>2, <1>3, <1>6, NodesChange DEF Consistent
  <2>2. Progress
    BY <1>2, <1>4, <1>5, <1>6, <2>1, NodesOnly
  <2> QED
    BY <1>5, <1>6, <2>2, RestartHeld, Kept
<1>7. ASSUME NEW next \in EditStatus, node' = [R EXCEPT ![n] = EditedNode(@, next, TRUE)],
             Suspend(t, "edit", [Blank EXCEPT !.op = "edit", !.node = n,
                                              !.promo = Latest(n), !.target = target])
      PROVE  Consistent'
  <2>2. PICK s : s = EditedNode(R[n], next, TRUE)
    OBVIOUS
  <2>3. Keeps(R[n], s) /\ s.against = R[n].against
    BY <1>2, <2>2, EditedRow DEF Keeps
  <2>4. Keeps(node[n], s) /\ s.against = node[n].against
    BY <1>2, <2>3 DEF Keeps
  <2>5. node' = [R EXCEPT ![n] = s]
    BY <1>7, <2>2
  <2>6. node'[n] = s /\ \A m \in Node \ {n} : node'[m] = R[m]
    BY <1>2, <1>3, <2>5
  <2>7. node' \in [Node -> NodeRow \cup {Absent}]
    BY <1>2, <2>4, <2>5 DEF Keeps
  <2>8. NodesEvolve
    BY <1>2, <1>3, <2>4, <2>6, <2>7, NodesChange DEF Consistent
  <2>9. supersede => \A m \in node[n].against \ {n} : m \in Live /\ node'[m].expired
    BY <1>2, <1>3, <2>6
  <2>10. Progress
    BY <1>4, <1>5, <2>8, <2>9, NodesOnly
  <2>11. PICK l : l = [Blank EXCEPT !.op = "edit", !.node = n, !.promo = Latest(n), !.target = target]
    OBVIOUS
  <2>12. Blank \in Locals /\ Latest(n) \in Promos \cup {NoPromo}
    BY BlankHeld, LatestOrNone DEF Consistent
  <2>13. l \in Locals /\ l.node = n /\ l.promo = Latest(n) /\ l.old = NoNode
    BY <1>3, <2>11, <2>12 DEF Locals, Blank, Promos
  <2>14. HeldBy("edit", l)
    BY <2>12, <2>13 DEF HeldBy, Suspended
  <2> QED
    BY <1>5, <1>7, <2>10, <2>11, <2>14, OthersHold, HeldStays, Kept
<1> QED
  BY <1>1, <1>6, <1>7 DEF ResolveWithTarget

LEMMA ConfirmKeeps ==
  ASSUME Consistent, NEW n \in Live, NEW new \in Live,
         MarkStale(n) \/ ConfirmMemory(n) \/ SupersedeMemory(n, new)
  PROVE  Consistent'
<1>1. UNCHANGED <<pc, loc, promo, text, vetted, waived>>
  BY DEF MarkStale, ConfirmMemory, SupersedeMemory, Now
<1>2. n \in Node /\ node[n] \in NodeRow /\ node[n].against \subseteq Live
  BY DEF Consistent, Tables, Live
<1>3. PICK s : /\ node' = [node EXCEPT ![n] = s] /\ Keeps(node[n], s) /\ s.against = node[n].against
               /\ retired' = retired \/ (retired' = retired \cup {n} /\ s.expired)
  <2>1. CASE MarkStale(n)
    <3>1. PICK s : s = [node[n] EXCEPT !.status = "stale", !.expired = TRUE]
      OBVIOUS
    <3>2. Keeps(node[n], s) /\ s.against = node[n].against
      BY <1>2, <3>1 DEF Keeps, NodeRow, Status
    <3>3. node' = [node EXCEPT ![n] = s]
      BY <1>2, <2>1, <3>1 DEF MarkStale, Consistent, Tables
    <3> QED
      BY <2>1, <3>2, <3>3 DEF MarkStale
  <2>2. CASE ConfirmMemory(n)
    BY <1>2, <2>2, ConfirmedRow DEF ConfirmMemory
  <2>3. CASE SupersedeMemory(n, new)
    BY <1>2, <2>3, RetiredRow DEF SupersedeMemory
  <2> QED
    BY <2>1, <2>2, <2>3
<1>4. NodesEvolve /\ node'[n] = s
  BY <1>2, <1>3, OneNodeChanges DEF Consistent, Tables
<1>5. Progress
  BY <1>1, <1>3, <1>4, NodesOnly
<1> QED
  BY <1>1, <1>5, NowHeld, Kept

LEMMA FailKeeps ==
  ASSUME Consistent, NEW t \in Task, Fail(t)
  PROVE  Consistent'
BY Quiet, EndHeld, Kept DEF Fail, tables, history

LEMMA CrashKeeps ==
  ASSUME Consistent, Crash
  PROVE  Consistent'
BY Quiet, RestartHeld, Kept DEF Crash, tables

-----------------------------------------------------------------------------
LEMMA InitConsistent == Init => Consistent
<1> SUFFICES ASSUME Init PROVE Consistent
  OBVIOUS
<1>1. \A n \in Node : node[n] # Absent => node[n] \in NodeRow /\ node[n].against = {}
  BY FreshRows DEF Init
<1>2. node \in [Node -> NodeRow \cup {Absent}]
  BY FreshRows DEF Init
<1>3. PICK n \in Node, f \in File, append \in BOOLEAN :
        \/ promo = [p \in Promo |-> Absent]
        \/ /\ node[n] \notin {Absent}
           /\ promo = [p \in Promo |->
                IF p = 1 THEN [cand |-> n, target |-> f, append |-> append, status |-> "pending"]
                ELSE Absent]
  BY DEF Init
<1>4. PICK r : r = [cand |-> n, target |-> f, append |-> append, status |-> "pending"]
  OBVIOUS
<1>5. r \in PromoRow /\ r # Absent /\ r.cand = n /\ r.status = "pending"
  BY <1>4, AbsentIsNoRow DEF PromoRow
<1>6. Tables /\ \A p \in Promos : promo[p].status # "approved"
  <2>1. CASE promo = [p \in Promo |-> Absent]
    <3>1. Promos = {} /\ Promos = 1..0 /\ 0 \in 0..MaxPromos
      BY <2>1, MemoryReviewAssumption DEF Promos
    <3> QED
      BY <1>1, <1>2, <2>1, <3>1 DEF Tables, Live
  <2>2. CASE /\ node[n] \notin {Absent}
             /\ promo = [p \in Promo |-> IF p = 1 THEN r ELSE Absent]
    <3>1. promo \in [Promo -> PromoRow \cup {Absent}]
      BY <1>5, <2>2
    <3>2. \A p \in Promos : p = 1 /\ promo[p] = r
      BY <2>2 DEF Promos
    <3>3. \E k \in 0..MaxPromos : Promos = 1..k
      <4>1. CASE MaxPromos = 0
        <5>1. Promos = 1..0 /\ 0 \in 0..MaxPromos
          BY <4>1 DEF Promos, Promo
        <5> QED
          BY <5>1
      <4>2. CASE MaxPromos # 0
        <5>1. 1 \in Promo
          BY <4>2, MemoryReviewAssumption DEF Promo
        <5>2. Promos = 1..1 /\ 1 \in 0..MaxPromos
          BY <1>5, <2>2, <3>2, <4>2, <5>1, MemoryReviewAssumption DEF Promos
        <5> QED
          BY <5>2
      <4> QED
        BY <4>1, <4>2
    <3> QED
      BY <1>1, <1>2, <1>5, <2>2, <3>1, <3>2, <3>3 DEF Tables, Live
  <2> QED
    BY <1>3, <1>4, <2>1, <2>2
<1>7. Held
  <2>1. Blank \in Locals
    BY <1>6, BlankHeld
  <2>2. Blank.node = NoNode /\ Blank.promo = NoPromo /\ Blank.old = NoNode
    BY DEF Blank
  <2> QED
    BY <2>1, <2>2 DEF Init, Held, HeldBy, Suspended
<1>8. Texts
  BY MemoryReviewAssumption DEF Init, Texts, ProtectedTextWasApproved
<1>9. Approved /\ Retired
  BY <1>6 DEF Init, Approved, Retired
<1> QED
  BY <1>6, <1>7, <1>8, <1>9 DEF Consistent

LEMMA NextConsistent == Consistent /\ [Next]_vars => Consistent'
<1> SUFFICES ASSUME Consistent, [Next]_vars PROVE Consistent'
  OBVIOUS
<1>1. ASSUME NEW t \in Task, NEW n \in Live, NEW p \in Found(n), NEW target \in File \cup {NoFile},
             NEW s \in EditStatus \cup {"keep"}, UpdateCandidate(t, n, p, s, target)
      PROVE  Consistent'
  BY <1>1, UpdateCandidateKeeps
<1>2. ASSUME NEW t \in Task, NEW n \in Live, NEW supersede \in BOOLEAN, NEW target \in File,
             ResolveWithTarget(t, n, supersede, target)
      PROVE  Consistent'
  BY <1>2, ResolveWithTargetKeeps
<1>3. CASE Candidates
  <2>1. ASSUME NEW t \in Task, NEW f \in File, NEW target \in File \cup {NoFile}, Propose(t, f, target)
        PROVE  Consistent'
    BY <2>1, CandidateRequests
  <2>2. ASSUME NEW t \in Task, NEW f \in File, NEW target \in File, NEW append \in BOOLEAN,
               NEW review \in BOOLEAN, Promote(t, f, target, append, review)
        PROVE  Consistent'
    BY <2>2, CandidateRequests
  <2> QED
    BY <1>1, <1>2, <1>3, <2>1, <2>2, InsertCandidateKeeps, ProposedKeeps, PromotedKeeps, EditPromoKeeps
       DEF Candidates
<1>4. CASE Approvals
  <2>1. ASSUME NEW t \in Task, NEW n \in Live, NEW p \in Found(n),
               NEW target \in File \cup {NoFile}, NEW apply \in BOOLEAN,
               ApproveCandidate(t, n, p, target, apply)
        PROVE  Consistent'
    BY <2>1, ApproveCandidateKeeps
  <2>2. ASSUME NEW t \in Task, NEW p \in Promos, NEW apply \in BOOLEAN,
               ApprovePromotion(t, p, apply) \/ ApplyPromotion(t, p)
        PROVE  Consistent'
    BY <2>2, ApprovePromotionKeeps
  <2> QED
    BY <1>4, <2>1, <2>2, ApprovalBlockedKeeps, ApprovalReviewedKeeps, DecideKeeps, WriteTargetKeeps
       DEF Approvals
<1>5. CASE Ingestion
  <2>1. ASSUME NEW t \in Task, NEW f \in File, Ingest(t, f) PROVE Consistent'
    BY <2>1, CandidateRequests
  <2> QED
    BY <1>5, <2>1, InsertExtractedKeeps, LinkExtractedKeeps, IngestEndKeeps DEF Ingestion
<1>6. CASE Reviews
  <2>1. ASSUME NEW n \in Live, NEW p \in Found(n), RejectCandidate(n, p) PROVE Consistent'
    <3>1. p \in Promos \cup {NoPromo}
      BY DEF Found, PromosOf
    <3> QED
      BY <2>1, <3>1, RejectKeeps DEF RejectCandidate, Now
  <2>2. ASSUME NEW n \in Live, KeepOld(n) PROVE Consistent'
    <3>1. Latest(n) \in Promos \cup {NoPromo}
      BY LatestOrNone DEF Consistent
    <3>2. PICK p : p = Latest(n)
      OBVIOUS
    <3> QED
      BY <2>2, <3>1, <3>2, RejectKeeps DEF KeepOld, Now
  <2>3. ASSUME NEW n \in Live, NEW supersede \in BOOLEAN, ResolveConflict(n, supersede) PROVE Consistent'
    BY <2>3, ResolveKeeps
  <2>4. ASSUME NEW n \in Live, NEW new \in Live, MarkStale(n) \/ ConfirmMemory(n) \/ SupersedeMemory(n, new)
        PROVE  Consistent'
    BY <2>4, ConfirmKeeps
  <2> QED
    BY <1>6, <2>1, <2>2, <2>3, <2>4 DEF Reviews
<1>7. CASE UNCHANGED vars
  BY <1>7, Quiet, NowHeld, Kept DEF vars, tables, history
<1> QED
  BY <1>3, <1>4, <1>5, <1>6, <1>7, FailKeeps, CrashKeeps DEF Next, Steps

-----------------------------------------------------------------------------
(* The counters stay within their bounds. *)
Counted == used \in 0..MaxRequests /\ crashes \in 0..MaxCrashes

LEMMA NextCounted == Counted /\ [Next]_vars => Counted'
<1> SUFFICES ASSUME Counted, [Next]_vars PROVE Counted'
  OBVIOUS
<1>1. ASSUME used < MaxRequests, used' = used + 1, crashes' = crashes PROVE Counted'
  BY <1>1, MemoryReviewAssumption DEF Counted
<1>2. ASSUME UNCHANGED <<used, crashes>> PROVE Counted'
  BY <1>2 DEF Counted
<1>3. CASE Candidates
  <2>1. ASSUME NEW t \in Task, NEW n, NEW s, NEW b, NEW f, NEW target, NEW append, NEW p,
               \/ Propose(t, f, target) \/ Promote(t, f, target, append, b)
               \/ UpdateCandidate(t, n, p, s, target) \/ ResolveWithTarget(t, n, b, target)
        PROVE  Counted'
    <3>1. \E handler : Arrive(t, handler)
      BY <2>1 DEF Propose, Promote, UpdateCandidate, ResolveWithTarget
    <3> QED
      BY <1>1, <3>1 DEF Arrive
  <2>2. ASSUME NEW t \in Task, InsertCandidate(t) \/ Proposed(t) \/ Promoted(t) \/ EditPromo(t)
        PROVE  UNCHANGED <<used, crashes>>
    BY <2>2 DEF InsertCandidate, Proposed, Promoted, EditPromo, history
  <2> QED
    BY <1>2, <1>3, <2>1, <2>2 DEF Candidates
<1>4. CASE Approvals
  BY <1>1, <1>2, <1>4 DEF Approvals, ApproveCandidate, ApprovePromotion, ApprovalBlocked,
     ApprovalReviewed, Decide, ApplyPromotion, WriteTarget, Arrive, history
<1>5. CASE Ingestion
  BY <1>1, <1>2, <1>5 DEF Ingestion, Ingest, InsertExtracted, LinkExtracted, IngestEnd, Arrive, history
<1>6. CASE Reviews
  BY <1>1, <1>6 DEF Reviews, RejectCandidate, KeepOld, ResolveConflict, MarkStale, ConfirmMemory,
     SupersedeMemory, Now
<1>7. ASSUME NEW t \in Task, Fail(t) PROVE Counted'
  BY <1>2, <1>7 DEF Fail, history
<1>8. CASE Crash
  BY <1>8, MemoryReviewAssumption DEF Crash, Counted
<1> QED
  BY <1>2, <1>3, <1>4, <1>5, <1>6, <1>7, <1>8 DEF Next, Steps, vars, history

-----------------------------------------------------------------------------
(* Requests that overlap: what one step does to any of them.               *)

\* The review or the application of a promotion is past its check.
Begun(t) ==
  \/ pc[t] \in {"decide", "write"}
  \/ pc[t] \in {"ingest", "link"} /\ loc[t].op = "apply"

(* It stands still, is not past its check, goes on with its promotion, or  *)
(* has just made the check, and read the text when it appends.             *)
Moved(t) ==
  \/ pc'[t] = pc[t] /\ loc'[t] = loc[t]
  \/ ~ Begun(t)'
  \/ Begun(t) /\ pc'[t] # "write" /\ loc'[t].promo = loc[t].promo
  \/ /\ promo'[loc'[t].promo].status # "rejected"
     /\ pc'[t] = "write" /\ loc'[t].append =>
          UNCHANGED text /\ loc'[t].base = text[loc'[t].target]

LEMMA OneMoves ==
  ASSUME Consistent, NEW t \in Task, NEW label, NEW l, Suspend(t, label, l), Moved(t)
  PROVE  \A u \in Task : Moved(u)
<1>1. ASSUME NEW u \in Task, u # t PROVE pc'[u] = pc[u] /\ loc'[u] = loc[u]
  BY <1>1 DEF Suspend, Consistent, Held
<1> QED BY <1>1 DEF Moved

LEMMA OneBegins ==
  ASSUME Consistent, NEW t \in Task, NEW label, NEW l, Suspend(t, label, l),
         \/ label \in {"idle", "detect", "embed", "review", "edit"}
         \/ label = "ingest" /\ l.op # "apply"
  PROVE  \A u \in Task : Moved(u)
<1>1. pc'[t] = label /\ loc'[t] = l
  BY DEF Suspend, Consistent, Held
<1>2. Moved(t)
  BY <1>1 DEF Moved, Begun
<1> QED BY <1>2, OneMoves

LEMMA OneEnds ==
  ASSUME Consistent, NEW t \in Task, End(t)
  PROVE  \A u \in Task : Moved(u)
<1>1. PICK label, l : Suspend(t, label, l) /\ label = "idle"
  BY DEF End
<1> QED BY <1>1, OneBegins

LEMMA OneApplies ==
  ASSUME Consistent, NEW t \in Task, NEW p \in Promo, NEW r, r = promo'[p], StartApply(t, p, r),
         UNCHANGED text
  PROVE  \A u \in Task : Moved(u)
<1>1. CASE End(t)
  BY <1>1, OneEnds
<1>2. CASE ~ End(t)
  <2>1. r.status # "rejected" /\ Suspend(t, "write",
          [Blank EXCEPT !.op = "apply", !.promo = p, !.target = r.target, !.node = r.cand,
             !.append = r.append, !.base = IF r.append THEN text[r.target] ELSE @])
    BY <1>2 DEF StartApply
  <2>2. PICK l : l = [Blank EXCEPT !.op = "apply", !.promo = p, !.target = r.target, !.node = r.cand,
                        !.append = r.append, !.base = IF r.append THEN text[r.target] ELSE @]
    OBVIOUS
  <2>3. /\ l.promo = p /\ l.target = r.target /\ l.append = r.append
        /\ r.append => l.base = text[r.target]
    BY <2>2 DEF Blank
  <2>4. pc'[t] = "write" /\ loc'[t] = l
    BY <2>1, <2>2 DEF Suspend, Consistent, Held
  <2>5. Moved(t)
    BY <2>1, <2>3, <2>4 DEF Moved
  <2> QED BY <2>1, <2>2, <2>5, OneMoves
<1> QED BY <1>1, <1>2

LEMMA OneReviews ==
  ASSUME Consistent, NEW t \in Task, NEW p, NEW r, r = promo'[p], NEW apply,
         StartApproval(t, p, r, apply)
  PROVE  \A u \in Task : Moved(u)
<1>1. CASE End(t)
  BY <1>1, OneEnds
<1>2. CASE ~ End(t)
  <2>1. r.status # "rejected"
    BY <1>2 DEF StartApproval
  <2> PICK l : /\ Suspend(t, "decide", l)
               /\ l = [Blank EXCEPT !.op = "approve", !.node = r.cand, !.promo = p, !.apply = apply,
                         !.excluded = node[r.cand].against \cup {r.cand}, !.cleared = node[r.cand].against # {}]
    BY <1>2 DEF StartApproval
  <2>2. pc'[t] = "decide" /\ loc'[t].promo = p
    BY DEF Suspend, Blank, Consistent, Held
  <2>3. Moved(t)
    BY <2>1, <2>2 DEF Moved
  <2> QED BY <2>3, OneMoves
<1> QED BY <1>1, <1>2

LEMMA AllMove ==
  ASSUME Consistent, Steps
  PROVE  \A u \in Task : Moved(u)
<1> DEFINE Goal == \A u \in Task : Moved(u)
<1>1. ASSUME NEW t \in Task, NEW f, NEW target, NEW append, NEW review,
             Propose(t, f, target) \/ Promote(t, f, target, append, review) \/ Ingest(t, f)
      PROVE  Goal
  <2>1. PICK label, l : /\ Suspend(t, label, l) /\ l.op # "apply"
                        /\ label \in {"detect", "ingest"}
    BY <1>1 DEF Propose, Promote, Ingest, Blank
  <2> QED BY <2>1, OneBegins
<1>2. ASSUME NEW t \in Task, NEW n, NEW p, NEW s, NEW target, NEW apply,
             \/ UpdateCandidate(t, n, p, s, target) \/ ApproveCandidate(t, n, p, target, apply)
             \/ InsertCandidate(t)
      PROVE  Goal
  <2>1. PICK label, l : Suspend(t, label, l) /\ label \in {"edit", "review", "embed"}
    BY <1>2 DEF UpdateCandidate, ApproveCandidate, InsertCandidate
  <2> QED BY <2>1, OneBegins
<1>3. ASSUME NEW t \in Task,
             Proposed(t) \/ EditPromo(t) \/ ApprovalBlocked(t) \/ IngestEnd(t) \/ Fail(t)
      PROVE  Goal
  BY <1>3, OneEnds DEF Proposed, EditPromo, ApprovalBlocked, IngestEnd, Fail
<1>4. ASSUME NEW t \in Task, Promoted(t) PROVE Goal
  <2>1. CASE End(t)
    BY <2>1, OneEnds
  <2>2. CASE ~ End(t)
    <3>1. PICK p, r : p = NextPromo /\ r = promo'[p]
      OBVIOUS
    <3>2. StartApply(t, p, r) /\ p \in Promo /\ UNCHANGED text
      BY <1>4, <2>2, <3>1 DEF Promoted, NewPromo
    <3> QED BY <3>1, <3>2, OneApplies
  <2> QED BY <2>1, <2>2
<1>5. ASSUME NEW t \in Task, ApprovalReviewed(t) PROVE Goal
  <2>1. CASE End(t)
    BY <2>1, OneEnds
  <2>2. CASE ~ End(t)
    <3>1. PICK p, r, apply : r = promo'[p] /\ StartApproval(t, p, r, apply)
      BY <1>5, <2>2 DEF ApprovalReviewed
    <3> QED BY <3>1, OneReviews
  <2> QED BY <2>1, <2>2
<1>6. ASSUME NEW t \in Task, NEW p \in Promos, NEW apply, ApprovePromotion(t, p, apply) \/ ApplyPromotion(t, p)
      PROVE  Goal
  <2>1. PICK r : r = promo'[p]
    OBVIOUS
  <2>2. p \in Promo /\ UNCHANGED <<promo, text>> /\ (StartApproval(t, p, r, apply) \/ StartApply(t, p, r))
    BY <1>6, <2>1 DEF ApprovePromotion, ApplyPromotion, tables, Promos
  <2> QED BY <2>1, <2>2, OneReviews, OneApplies
<1>7. ASSUME NEW t \in Task, Decide(t) PROVE Goal
  <2>1. CASE End(t)
    BY <2>1, OneEnds
  <2>2. CASE ~ End(t)
    <3>1. PICK p, r : p = loc[t].promo /\ r = promo'[p]
      OBVIOUS
    <3>2. StartApply(t, p, r) /\ p \in Promo /\ UNCHANGED text
      BY <1>7, <2>2, <3>1 DEF Decide, Consistent, Held, HeldBy, Promos
    <3> QED BY <3>1, <3>2, OneApplies
  <2> QED BY <2>1, <2>2
<1>8. ASSUME NEW t \in Task, WriteTarget(t) \/ InsertExtracted(t) \/ LinkExtracted(t) PROVE Goal
  <2>1. \E label, l : Suspend(t, label, l)
    BY <1>8 DEF WriteTarget, InsertExtracted, LinkExtracted
  <2>2. /\ pc'[t] \in {"ingest", "link"} /\ loc'[t].promo = loc[t].promo
        /\ \/ pc[t] = "write"
           \/ pc[t] \in {"ingest", "link"} /\ loc'[t].op = loc[t].op
    <3>1. PICK m : m = loc[t]
      OBVIOUS
    <3>2. m \in Locals
      BY <3>1 DEF Consistent, Held
    <3> USE <3>1, <3>2 DEF Suspend, Consistent, Held
    <3>3. CASE WriteTarget(t)
      BY <3>3 DEF WriteTarget, Applying, Blank
    <3>4. CASE InsertExtracted(t)
      <4>1. PICK o : pc[t] = "ingest" /\ pc'[t] = "link" /\ loc'[t] = [m EXCEPT !.old = o]
        BY <3>4 DEF InsertExtracted
      <4> QED BY <4>1 DEF Locals
    <3>5. CASE LinkExtracted(t)
      <4>1. pc[t] = "link" /\ pc'[t] = "ingest" /\ loc'[t] = [m EXCEPT !.old = NoNode]
        BY <3>5 DEF LinkExtracted
      <4> QED BY <4>1 DEF Locals
    <3> QED BY <1>8, <3>3, <3>4, <3>5
  <2>3. Moved(t)
    BY <2>2 DEF Moved, Begun
  <2> QED BY <2>1, <2>3, OneMoves
<1>9. ASSUME NEW t \in Task, NEW n, NEW supersede, NEW target, ResolveWithTarget(t, n, supersede, target)
      PROVE  Goal
  <2>1. CASE Restart
    BY <2>1 DEF Restart, Moved, Begun
  <2>2. CASE ~ Restart
    <3>1. \E l : Suspend(t, "edit", l)
      BY <1>9, <2>2 DEF ResolveWithTarget
    <3> QED BY <3>1, OneBegins
  <2> QED BY <2>1, <2>2
<1>10. CASE Crash
  BY <1>10 DEF Crash, Restart, Moved, Begun
<1>11. CASE Candidates
  BY <1>1, <1>2, <1>3, <1>4, <1>9, <1>11 DEF Candidates
<1>12. CASE Approvals
  BY <1>2, <1>3, <1>5, <1>6, <1>7, <1>8, <1>12 DEF Approvals
<1>13. CASE Ingestion
  BY <1>1, <1>3, <1>8, <1>13 DEF Ingestion
<1>14. CASE Reviews
  <2>1. UNCHANGED <<pc, loc>>
    BY <1>14 DEF Reviews, RejectCandidate, KeepOld, ResolveConflict, MarkStale, ConfirmMemory,
                 SupersedeMemory, Now
  <2> QED BY <2>1 DEF Moved
<1> QED BY <1>3, <1>10, <1>11, <1>12, <1>13, <1>14 DEF Steps

(* Only writeFile of a target writes a text.                               *)
LEMMA TextSteps ==
  ASSUME Steps
  PROVE  UNCHANGED text \/ \E t \in Task : WriteTarget(t)
<1>1. CASE Candidates
  BY <1>1, ZenonT(60) DEF Candidates, Propose, Promote, InsertCandidate, Proposed, Promoted, UpdateCandidate,
                          EditPromo, ResolveWithTarget, tables
<1>2. CASE Approvals \/ Ingestion
  BY <1>2 DEF Approvals, Ingestion, ApproveCandidate, ApprovePromotion, ApprovalBlocked, ApprovalReviewed,
              Decide, ApplyPromotion, Ingest, InsertExtracted, LinkExtracted, IngestEnd, tables
<1>3. CASE Reviews
  BY <1>3 DEF Reviews, RejectCandidate, KeepOld, Reject, ResolveConflict, MarkStale, ConfirmMemory,
              SupersedeMemory
<1>4. CASE (\E t \in Task : Fail(t)) \/ Crash
  BY <1>4 DEF Fail, Crash, tables
<1> QED BY <1>1, <1>2, <1>3, <1>4 DEF Steps

LEMMA OneText ==
  ASSUME Consistent, NEW t \in Task, WriteTarget(t), NEW f \in File
  PROVE  /\ f # loc[t].target => text'[f] = text[f]
         /\ f = loc[t].target /\ loc[t].base = text[f] => \A p \in Promo : text'[f][p] >= text[f][p]
<1>1. PICK g, b, q : g = loc[t].target /\ b = loc[t].base /\ q = loc[t].promo
  OBVIOUS
<1>2. text' = [text EXCEPT ![g] = [b EXCEPT ![q] = @ + 1]] /\ text \in [File -> [Promo -> Nat]]
  BY <1>1 DEF WriteTarget, Consistent, Texts
<1>3. ASSUME f = g, b = text[f], NEW p \in Promo PROVE text'[f][p] >= text[f][p]
  BY <1>2, <1>3
<1> QED BY <1>1, <1>2, <1>3

-----------------------------------------------------------------------------
(* What the histories of the overlaps say: whoever is past its check works *)
(* on a promotion that was not rejected all along, and holds the text of a *)
(* target nobody else is waiting to write.                                 *)
Undisturbed ==
  /\ settled \in [Task -> SUBSET Promo] /\ crossed \subseteq File
  /\ \A t \in Task : Begun(t) => loc[t].promo \notin settled[t]
  /\ \A t \in Task : pc[t] = "write" /\ loc[t].append /\ loc[t].target \notin crossed =>
       loc[t].base = text[loc[t].target]
  /\ \A t, u \in Task : t # u /\ pc[t] = "write" /\ pc[u] = "write" /\ loc[t].target = loc[u].target =>
       loc[t].target \in crossed

LEMMA InitUndisturbed == Init => Undisturbed
BY DEF Init, Undisturbed, Begun

LEMMA UndisturbedKept ==
  ASSUME Consistent, Consistent', Undisturbed, Next
  PROVE  Undisturbed'
<1>1. KeepHistory /\ Steps /\ \A t \in Task : Moved(t)
  BY AllMove DEF Next
<1>2. RejectedPromos' \subseteq Promo
  BY DEF RejectedPromos, Promos
<1>3. settled' \in [Task -> SUBSET Promo] /\ crossed' \subseteq File /\ crossed \subseteq crossed'
  BY <1>1, <1>2 DEF KeepHistory, Undisturbed
<1>4. ASSUME NEW t \in Task, Begun(t)' PROVE loc'[t].promo \notin settled'[t]
  <2>1. /\ settled'[t] \subseteq RejectedPromos'
        /\ pc[t] # "idle" => settled'[t] \subseteq settled[t]
    BY <1>1 DEF KeepHistory, Undisturbed
  <2>2. CASE Begun(t) /\ loc'[t].promo = loc[t].promo
    BY <2>1, <2>2 DEF Undisturbed, Begun
  <2>3. CASE promo'[loc'[t].promo].status # "rejected"
    BY <2>1, <2>3 DEF RejectedPromos
  <2>4. CASE pc'[t] = pc[t] /\ loc'[t] = loc[t]
    BY <1>4, <2>2, <2>4 DEF Begun
  <2> QED BY <1>1, <1>4, <2>2, <2>3, <2>4 DEF Moved
<1>5. ASSUME NEW t \in Task, pc'[t] = "write", loc'[t].append, loc'[t].target \notin crossed'
      PROVE  loc'[t].base = text'[loc'[t].target]
  <2>1. CASE pc'[t] = pc[t] /\ loc'[t] = loc[t]
    <3>1. loc[t].target \in File /\ loc[t].target \notin crossed /\ loc[t].base = text[loc[t].target]
      BY <1>3, <1>5, <2>1 DEF Undisturbed, Consistent, Held, HeldBy
    <3>2. ASSUME NEW u \in Task, WriteTarget(u) PROVE loc[u].target # loc[t].target
      <4>1. pc[u] = "write" /\ pc'[u] = "ingest"
        BY <3>2 DEF WriteTarget, Suspend, Consistent, Held
      <4> QED BY <1>5, <2>1, <3>1, <4>1 DEF Undisturbed
    <3> QED BY <1>1, <2>1, <3>1, <3>2, TextSteps, OneText
  <2>2. CASE UNCHANGED text /\ loc'[t].base = text[loc'[t].target]
    BY <2>2
  <2> QED BY <1>1, <1>5, <2>1, <2>2 DEF Moved, Begun
<1>6. ASSUME NEW t \in Task, NEW u \in Task, t # u, pc'[t] = "write", pc'[u] = "write",
             loc'[t].target = loc'[u].target
      PROVE  loc'[t].target \in crossed'
  <2>1. loc'[t].target \in File
    BY <1>6 DEF Consistent, Held, HeldBy
  <2> QED BY <1>1, <1>6, <2>1 DEF KeepHistory, WritersOf
<1> QED BY <1>3, <1>4, <1>5, <1>6 DEF Undisturbed, Begun

-----------------------------------------------------------------------------
LEMMA Invariance == Spec => [](Consistent /\ Counted /\ Undisturbed)
<1>1. Init => Counted
  BY MemoryReviewAssumption DEF Init, Counted
<1>2. Undisturbed /\ UNCHANGED vars => Undisturbed'
  BY DEF Undisturbed, Begun, vars, tables, overlaps
<1>3. (Consistent /\ Counted /\ Undisturbed) /\ [Next]_vars => (Consistent /\ Counted /\ Undisturbed)'
  BY <1>2, NextConsistent, NextCounted, UndisturbedKept
<1> QED
  BY <1>1, <1>3, InitConsistent, InitUndisturbed, PTL DEF Spec

(* Every row, every request's locals and every counter keep their type.    *)
THEOREM Typed == Spec => []TypeOK
<1>1. Consistent /\ Counted /\ Undisturbed => TypeOK
  <2> SUFFICES ASSUME Consistent, Counted, Undisturbed PROVE TypeOK
    OBVIOUS
  <2>1. retired \subseteq Node
    BY DEF Consistent, Retired, Live
  <2>2. vetted \subseteq Promo /\ waived \subseteq Promo
    BY DEF Consistent, Approved, Promos
  <2>3. node \in [Node -> NodeRow \cup {Absent}] /\ promo \in [Promo -> PromoRow \cup {Absent}]
    BY DEF Consistent, Tables
  <2>4. text \in [File -> [Promo -> Nat]]
    BY DEF Consistent, Texts
  <2>5. pc \in [Task -> Suspended] /\ loc \in [Task -> Locals]
    BY DEF Consistent, Held
  <2> QED
    BY <2>1, <2>2, <2>3, <2>4, <2>5 DEF TypeOK, Counted, Undisturbed
<1> QED
  BY <1>1, Invariance, PTL

(* A memory that was rejected or superseded never returns to recall:       *)
(* whoever retires it sets valid_until, and no handler clears it.          *)
THEOREM RetiredForGood == Spec => []RetiredStaysOut
<1>1. Consistent => RetiredStaysOut
  BY DEF Consistent, Retired, RetiredStaysOut, Recallable
<1> QED
  BY <1>1, Invariance, PTL

(* No unapproved block reaches a protected file: applyPromotion takes the  *)
(* target and the status in one segment and never reads the target again.  *)
THEOREM ProtectedTextApproved == Spec => []ProtectedTextWasApproved
<1>1. Consistent => ProtectedTextWasApproved
  BY DEF Consistent, Texts
<1> QED
  BY <1>1, Invariance, PTL

(* No review approves a duplicate: duplicate_of never changes after the    *)
(* candidate is inserted, so the check before the await still holds after. *)
THEOREM NoDuplicateVetted == Spec => []DuplicatesAreNotVetted
<1>1. Consistent => DuplicatesAreNotVetted
  BY DEF Consistent, Approved, DuplicatesAreNotVetted
<1> QED
  BY <1>1, Invariance, PTL

-----------------------------------------------------------------------------
(* Making sure of a promotion, and redirecting one, decide none.           *)
LEMMA StatusesStay ==
  ASSUME Consistent, NEW p \in Promos,
         \/ UNCHANGED promo
         \/ \E n \in Live, f \in File : EnsurePromo(n, f)
         \/ \E q \in Promos, f \in File : promo' = [promo EXCEPT ![q].target = f]
         \/ \E n \in Live, f \in File : \E append \in BOOLEAN, status \in {"pending", "approved"} :
              NewPromo(NextPromo, n, f, append, status)
  PROVE  promo'[p].status = promo[p].status
<1>1. p \in Promo /\ promo[p] \in PromoRow
  BY CandIsLive DEF Consistent
<1>2. CASE \E q \in Promos, f \in File : promo' = [promo EXCEPT ![q].target = f]
  BY <1>1, <1>2 DEF Consistent, Tables, PromoRow
<1>3. ASSUME NEW n \in Live, NEW f \in File, NEW append \in BOOLEAN, NEW status \in {"pending", "approved"},
             NewPromo(NextPromo, n, f, append, status)
      PROVE  promo'[p] = promo[p]
  <2>1. PICK q : q = NextPromo
    OBVIOUS
  <2>2. q \notin Promos
    BY <1>3, <2>1, OnePromoAppears DEF Consistent
  <2> QED BY <1>1, <1>3, <2>1, <2>2 DEF NewPromo, Consistent, Tables
<1>4. CASE \E n \in Live, f \in File : EnsurePromo(n, f)
  <2> PICK n \in Live, f \in File : EnsurePromo(n, f)
    BY <1>4
  <2>1. CASE Latest(n) # NoPromo
    BY <1>2, <2>1, LatestOrNone DEF EnsurePromo, Consistent
  <2>2. CASE Latest(n) = NoPromo
    BY <1>3, <2>2 DEF EnsurePromo
  <2> QED BY <2>1, <2>2
<1> QED BY <1>1, <1>2, <1>3, <1>4

(* A rejection is overturned only by a review or an application that was   *)
(* past its check, or on the way to it, when the rejection was made        *)
(* (approvePromotion, applyPromotion).                                     *)
THEOREM RejectionsHold == Spec => RejectionsStand
<1>1. Consistent /\ Undisturbed /\ [Next]_vars =>
        [\A p \in RejectedPromos : promo'[p].status # "rejected" =>
           \E t \in Task : /\ pc[t] \in {"decide", "ingest"}
                           /\ loc[t].promo = p /\ p \notin settled[t]]_vars
  <2> SUFFICES ASSUME Consistent, Undisturbed, Next, NEW p \in RejectedPromos,
                      \A t \in Task : pc[t] \in {"decide", "ingest"} /\ loc[t].promo = p => p \in settled[t]
               PROVE  promo'[p].status = "rejected"
    BY DEF vars
  <2>1. p \in Promos /\ p \in Promo /\ promo[p] \in PromoRow /\ promo[p].status = "rejected"
    BY CandIsLive DEF Consistent, RejectedPromos
  <2>2. ASSUME NEW t \in Task PROVE HeldBy(pc[t], loc[t])
    BY DEF Consistent, Held
  <2>3. ASSUME NEW t \in Task, Proposed(t) \/ ApprovalReviewed(t)
        PROVE  UNCHANGED promo \/ \E n \in Live, f \in File : EnsurePromo(n, f)
    BY <2>2, <2>3 DEF Proposed, ApprovalReviewed, HeldBy, Locals
  <2>4. ASSUME NEW t \in Task, EditPromo(t)
        PROVE  \/ UNCHANGED promo
               \/ \E n \in Live, f \in File : EnsurePromo(n, f)
               \/ \E q \in Promos, f \in File : promo' = [promo EXCEPT ![q].target = f]
    BY <2>2, <2>4 DEF EditPromo, HeldBy, Locals
  <2>5. ASSUME NEW t \in Task, Promoted(t)
        PROVE  \E n \in Live, f \in File : \E append \in BOOLEAN, status \in {"pending", "approved"} :
                 NewPromo(NextPromo, n, f, append, status)
    <3>1. /\ loc[t].node \in Live /\ loc[t].target \in File /\ loc[t].append \in BOOLEAN
          /\ NewPromo(NextPromo, loc[t].node, loc[t].target, loc[t].append,
                      IF loc[t].review THEN "pending" ELSE "approved")
      BY <2>2, <2>5 DEF Promoted, HeldBy, Locals
    <3> QED BY <3>1
  <2>6. ASSUME NEW t \in Task, Decide(t) \/ IngestEnd(t)
        PROVE  promo'[p] = promo[p]
    <3>1. pc[t] \in {"decide", "ingest"} /\ (promo' = promo \/ Begun(t))
      BY <2>6 DEF Decide, IngestEnd, Begun
    <3>2. promo' = promo \/ loc[t].promo # p
      BY <3>1 DEF Undisturbed
    <3> QED BY <2>1, <2>6, <3>2 DEF Decide, IngestEnd, Consistent, Tables
  <2>7. ASSUME NEW n \in Live, KeepOld(n) \/ \E q \in Found(n) : RejectCandidate(n, q)
        PROVE  promo'[p].status = "rejected"
    BY <2>1, <2>7 DEF KeepOld, RejectCandidate, Reject, Consistent, Tables, PromoRow
  <2>8. CASE Candidates
    <3>1. \/ UNCHANGED promo
          \/ \E t \in Task : Proposed(t) \/ EditPromo(t) \/ Promoted(t)
      BY <2>8, ZenonT(60) DEF Candidates, Propose, Promote, InsertCandidate, UpdateCandidate, ResolveWithTarget, tables
    <3> QED BY <2>1, <2>3, <2>4, <2>5, <3>1, StatusesStay
  <2>9. CASE Approvals \/ Ingestion
    <3>1. \/ UNCHANGED promo
          \/ \E t \in Task : ApprovalReviewed(t) \/ Decide(t) \/ IngestEnd(t)
      BY <2>9 DEF Approvals, Ingestion, ApproveCandidate, ApprovePromotion, ApprovalBlocked, ApplyPromotion,
                  WriteTarget, Ingest, InsertExtracted, LinkExtracted, tables
    <3> QED BY <2>1, <2>3, <2>6, <3>1, StatusesStay
  <2>10. CASE Reviews
    <3>1. \/ UNCHANGED promo
          \/ \E n \in Live : KeepOld(n) \/ \E q \in Found(n) : RejectCandidate(n, q)
      BY <2>10 DEF Reviews, ResolveConflict, MarkStale, ConfirmMemory, SupersedeMemory
    <3> QED BY <2>1, <2>7, <3>1
  <2>11. CASE (\E t \in Task : Fail(t)) \/ Crash
    BY <2>1, <2>11 DEF Fail, Crash, tables
  <2> QED BY <2>8, <2>9, <2>10, <2>11 DEF Next, Steps
<1> QED BY <1>1, Invariance, PTL DEF Spec, RejectionsStand

(* A block is lost only to a promotion that replaces its target, or where  *)
(* two applications were waiting to write the target at once               *)
(* (applyPromotion).                                                       *)
THEOREM BlocksKept == Spec => AppendKeepsBlocks
<1>1. Consistent /\ Undisturbed /\ [Next]_vars =>
        [\A f \in File \ crossed : \A p \in Promo : text'[f][p] < text[f][p] =>
           \E t \in WritersOf(f) : ~ loc[t].append]_vars
  <2> SUFFICES ASSUME Consistent, Undisturbed, Next, NEW f \in File \ crossed, NEW p \in Promo,
                      \A t \in WritersOf(f) : loc[t].append
               PROVE  ~ (text'[f][p] < text[f][p])
    BY DEF vars
  <2>1. text[f][p] \in Nat
    BY DEF Consistent, Texts
  <2>2. CASE UNCHANGED text
    BY <2>1, <2>2
  <2>3. ASSUME NEW t \in Task, WriteTarget(t) PROVE ~ (text'[f][p] < text[f][p])
    <3>1. CASE f # loc[t].target
      BY <2>1, <2>3, <3>1, OneText
    <3>2. CASE f = loc[t].target
      <4>1. pc[t] = "write" /\ loc[t].append
        BY <2>3, <3>2 DEF WriteTarget, WritersOf
      <4>2. loc[t].base = text[f]
        BY <3>2, <4>1 DEF Undisturbed
      <4>3. text'[f][p] >= text[f][p] /\ text'[f][p] \in Int
        <5>1. PICK b, q : b = loc[t].base /\ q = loc[t].promo
          OBVIOUS
        <5>2. text' = [text EXCEPT ![f] = [b EXCEPT ![q] = @ + 1]] /\ b \in [Promo -> Nat]
          BY <2>3, <3>2, <4>2, <5>1 DEF WriteTarget, Consistent, Texts
        <5>3. text'[f] = [b EXCEPT ![q] = @ + 1]
          BY <5>2 DEF Consistent, Texts
        <5>4. text'[f][p] \in Int
          <6>1. p \in Promo /\ b[p] \in Nat
            BY <5>2
          <6>2. text'[f][p] = IF p = q THEN b[p] + 1 ELSE b[p]
            BY <5>2, <5>3, <6>1
          <6> QED BY <6>1, <6>2
        <5>5. text'[f][p] >= text[f][p]
          BY <2>3, <3>2, <4>2, OneText
        <5> QED BY <5>4, <5>5
      <4> QED BY <2>1, <4>3
    <3> QED BY <3>1, <3>2
  <2> QED BY <2>2, <2>3, TextSteps DEF Next
<1> QED BY <1>1, Invariance, PTL DEF Spec, AppendKeepsBlocks
=============================================================================
