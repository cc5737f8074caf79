---------------------------- MODULE Recall_proofs ----------------------------
(***************************************************************************)
(* Theorems about the memory graph and recall, for every number of         *)
(* memories, links, asks and changes: rows keep their types, both          *)
(* breadth-first searches are exact, withdrawn memory is not recalled, and *)
(* superseded memory stays withheld.  And about chunkMarkdown, for every   *)
(* text: its chunks keep the text.                                         *)
(*                                                                         *)
(* The searches are loops.  What a loop computes is shown by induction on  *)
(* its rounds (Steps, StepsTo), which rests on < being well-founded, and   *)
(* that it computes anything at all is shown by Recursion.  The invariant  *)
(* of a search is Layered: its queue is of two neighbouring layers, the    *)
(* nearer first, each path as long as its end is far (Exact), and what is  *)
(* beyond a visited memory that no longer waits has been visited too.      *)
(***************************************************************************)
EXTENDS Recall, Chunks, WellFoundedInduction, FiniteSetTheorems, SequenceTheorems, TLAPS

-----------------------------------------------------------------------------
(* Induction and recursion over naturals, as facts about sets and          *)
(* functions.                                                              *)

(* A set with zero, and with the successor of each member, has every       *)
(* natural number.                                                         *)
LEMMA Steps ==
  ASSUME NEW T, 0 \in T, \A k \in Nat : k \in T => k + 1 \in T
  PROVE  Nat \subseteq T
<1> DEFINE R == OpToRel(<, Nat)
           U == Nat \ T
<1>1. \A x, y \in Nat : x < y => <<x, y>> \in R
  BY DEF OpToRel
<1>2. IsWellFoundedOn(R, Nat)
  BY NatLessThanWellFounded
<1>3. ASSUME U # {} PROVE FALSE
  <2> HIDE DEF R
  <2>1. PICK x \in U : \A y \in U : ~ (<<y, x>> \in R)
    BY <1>2, <1>3, WFMin
  <2>2. x # 0 /\ x - 1 \in Nat /\ x - 1 < x
    BY SMT
  <2>3. x - 1 \in T
    BY <1>1, <2>1, <2>2
  <2>4. x - 1 + 1 = x
    BY <2>2
  <2> QED BY <2>2, <2>3, <2>4
<1> QED BY <1>3

(* The same up to a bound. *)
LEMMA StepsTo ==
  ASSUME NEW n \in Nat, NEW T, 0 \in T, \A k \in 1..n : k - 1 \in T => k \in T
  PROVE  0..n \subseteq T
<1> DEFINE U == {k \in Nat : k <= n => k \in T}
<1>1. \A k \in Nat : k \in U => k + 1 \in U
  <2> SUFFICES ASSUME NEW k \in Nat, k \in U, k + 1 <= n PROVE k + 1 \in T
    OBVIOUS
  <2>1. k + 1 \in 1..n /\ (k + 1) - 1 = k /\ k \in T
    OBVIOUS
  <2> QED BY <2>1
<1>2. 0 \in U
  OBVIOUS
<1> HIDE DEF U
<1>3. Nat \subseteq U
  BY <1>1, <1>2, Steps
<1> QED BY <1>3 DEF U

Unrolls(f, n, base, G) == f = [k \in 0..n |-> IF k = 0 THEN base ELSE G[<<k, f[k-1]>>]]

StepMaps(n, A) == [(1..n) \X A -> A]

(* A function on 0..n that is given by its first value and by what each    *)
(* value makes of the one before it exists, if the values stay in a set.   *)
LEMMA Recursion ==
  ASSUME NEW n \in Nat, NEW A, NEW base \in A, NEW G \in StepMaps(n, A)
  PROVE  \E f \in [0..n -> A] : Unrolls(f, n, base, G)
<1> DEFINE Gives(m, f) == f = [k \in 0..m |-> IF k = 0 THEN base ELSE G[<<k, f[k-1]>>]]
           T == {m \in 0..n : \E f \in [0..m -> A] : Gives(m, f)}
<1>1. 0 \in T
  <2> DEFINE f == [k \in 0..0 |-> base]
  <2>1. f \in [0..0 -> A] /\ Gives(0, f)
    OBVIOUS
  <2> HIDE DEF f, Gives
  <2> QED BY <2>1
<1>2. ASSUME NEW m \in 1..n, m - 1 \in T PROVE m \in T
  <2>1. PICK g \in [0..(m - 1) -> A] : Gives(m - 1, g)
    <3> HIDE DEF Gives
    <3> QED BY <1>2
  <2> DEFINE f == [k \in 0..m |-> IF k = m THEN G[<<k, g[m-1]>>] ELSE g[k]]
  <2>2. G[<<m, g[m-1]>>] \in A
    BY DEF StepMaps
  <2>3. f \in [0..m -> A]
    BY <2>2
  <2>4. ASSUME NEW k \in 0..m
        PROVE  f[k] = IF k = 0 THEN base ELSE G[<<k, f[k-1]>>]
    <3>1. CASE k = m
      BY <3>1
    <3>2. CASE k \in 0..(m - 1)
      <4>1. k # m /\ f[k] = g[k] /\ (k # 0 => k - 1 \in 0..m /\ k - 1 # m /\ f[k-1] = g[k-1])
        BY <3>2
      <4>2. g[k] = IF k = 0 THEN base ELSE G[<<k, g[k-1]>>]
        BY <2>1, <3>2
      <4> QED BY <4>1, <4>2
    <3> QED BY <3>1, <3>2
  <2>5. Gives(m, f)
    BY <2>4
  <2> HIDE DEF f, Gives
  <2> QED BY <2>3, <2>5
<1> HIDE DEF T
<1>3. n \in T
  BY <1>1, <1>2, StepsTo
<1> QED BY <1>3 DEF T, Unrolls

(***************************************************************************)
(* The graph.                                                              *)
(***************************************************************************)

Graphs == [edges : Seq(GEdge), nodes : [GNode -> NodeRow \cup {NoNode}]]

GraphInv ==
  /\ gnode \in [GNode -> NodeRow \cup {NoNode}]
  /\ sources \subseteq Source /\ extracted \subseteq Source
  /\ edges \in Seq(GEdge) /\ Len(edges) <= MaxEdges
  /\ joining \in [GNode -> Seq(Match)] /\ \A n \in GNode : Len(joining[n]) <= 1
  /\ gmoves \in 0..MaxGraphMoves

(* A finite set makes a sequence of its members. *)
LEMMA SequenceOfSet ==
  ASSUME NEW S, NEW T, S \subseteq T, IsFiniteSet(S)
  PROVE  SetToSeq(S) \in Seq(T)
<1>1. Cardinality(S) \in Nat /\ ExistsBijection(1..Cardinality(S), S)
  BY FS_CardinalityType
<1>2. PICK f \in [1..Cardinality(S) -> S] : IsInjective(f)
  BY <1>1 DEF ExistsBijection, Bijection, Injection
<1>3. SetToSeq(S) \in [1..Cardinality(S) -> S]
  BY <1>2 DEF SetToSeq
<1> QED BY <1>1, <1>3

(* Links to some memories are finitely many. *)
LEMMA FewLinks ==
  ASSUME NEW n \in GNode, NEW to \in SUBSET GNode, NEW relation \in [to -> AnyRelation]
  PROVE  /\ IsFiniteSet({Link(n, m, relation[m]) : m \in to})
         /\ {Link(n, m, relation[m]) : m \in to} \subseteq GEdge
<1> DEFINE links == {Link(n, m, relation[m]) : m \in to}
           f == [m \in to |-> Link(n, m, relation[m])]
<1>1. IsFiniteSet(to)
  BY FS_Subset, GraphAssumption
<1>2. f \in Surjection(to, links)
  BY DEF Surjection
<1>3. IsFiniteSet(links)
  <2> HIDE DEF f, links
  <2> QED BY <1>1, <1>2, FS_Surjection
<1>4. links \subseteq GEdge
  BY DEF Link, GEdge
<1> QED BY <1>3, <1>4

(* A row that is marked is a row. *)
LEMMA MarkedTyped ==
  ASSUME NEW row \in NodeRow, NEW mark \in {"superseded", "rejected"}
  PROVE  Marked(row, mark) \in NodeRow
BY DEF Marked, NodeRow, GStatus

(* A row that a review rewrites is a row. *)
LEMMA ReviewedTyped ==
  ASSUME NEW row \in NodeRow
  PROVE  /\ \A status \in GStatus : InStatus(row, status) \in NodeRow
         /\ Outdated(row) \in NodeRow
         /\ \A status \in EditedTo : Edited(row, status) \in NodeRow
         /\ Approved(row) \in NodeRow /\ Restored(row) \in NodeRow
<1>1. /\ \A status \in GStatus : InStatus(row, status) \in NodeRow
      /\ Outdated(row) \in NodeRow
  BY DEF InStatus, Outdated, NodeRow, GStatus
<1>2. ASSUME NEW status \in EditedTo PROVE Edited(row, status) \in NodeRow
  <2>1. status \in GStatus
    BY GraphAssumption DEF GStatus
  <2>2. row.trust \in {"plain", "superseded", "rejected"}
    BY DEF NodeRow
  <2>3. PICK trust \in {"plain", "superseded", "rejected"} :
          Edited(row, status) = [row EXCEPT !.status = status, !.trust = trust]
    BY <2>2 DEF Edited
  <2> QED BY <2>1, <2>3 DEF NodeRow
<1>3. Approved(row) \in NodeRow /\ Restored(row) \in NodeRow
  BY DEF Approved, Restored, NodeRow, GStatus
<1> QED BY <1>1, <1>2, <1>3

(* Linking makes a graph of a graph. *)
LEMMA LinkedTyped ==
  ASSUME NEW g \in Graphs, NEW links, IsFiniteSet(links), links \subseteq GEdge,
         \A e \in links : g.nodes[e.to] \in NodeRow
  PROVE  /\ Linked(g, links) \in Graphs
         /\ \A m \in GNode : g.nodes[m] \in NodeRow => Linked(g, links).nodes[m] \in NodeRow
<1> DEFINE made == links \ Range(g.edges)
           new == [m \in GNode |-> IF \E e \in made : e.to = m /\ e.relation = "supersedes"
                                 THEN Marked(g.nodes[m], "superseded")
                                 ELSE g.nodes[m]]
<1>1. IsFiniteSet(made) /\ made \subseteq GEdge
  BY FS_Subset
<1>2. SetToSeq(made) \in Seq(GEdge)
  <2> HIDE DEF made
  <2> QED BY <1>1, SequenceOfSet
<1>3. g.edges \o SetToSeq(made) \in Seq(GEdge)
  <2> HIDE DEF made
  <2> QED BY <1>2 DEF Graphs
<1>4. \A m \in GNode : /\ new[m] \in NodeRow \cup {NoNode}
                       /\ g.nodes[m] \in NodeRow => new[m] \in NodeRow
  BY <1>1, MarkedTyped DEF Graphs
<1>5. Linked(g, links) = [edges |-> g.edges \o SetToSeq(made), nodes |-> new]
  BY DEF Linked
<1> HIDE DEF made
<1> QED BY <1>3, <1>4, <1>5 DEF Graphs

(* After a row is written, every id still has a row or none. *)
LEMMA RowChanged ==
  ASSUME gnode \in [GNode -> NodeRow \cup {NoNode}], NEW n \in GNode,
         NEW row \in NodeRow, gnode' = [gnode EXCEPT ![n] = row]
  PROVE  gnode' \in [GNode -> NodeRow \cup {NoNode}]
OBVIOUS

(* A graph that is stored is of nodes and edges within the bound.          *)
LEMMA StoreTyped ==
  ASSUME NEW g \in Graphs, StoreGraph(g)
  PROVE  gnode' \in [GNode -> NodeRow \cup {NoNode}] /\ edges' \in Seq(GEdge) /\ Len(edges') <= MaxEdges
BY DEF StoreGraph, Graphs

(* The stored graph is one. *)
LEMMA GraphTyped == GraphInv => [edges |-> edges, nodes |-> gnode] \in Graphs
BY DEF GraphInv, Graphs

(* A memory that is listed has a row. *)
LEMMA VisibleRow == GraphInv => \A n \in GNode : Visible(n) => gnode[n] \in NodeRow
BY DEF GraphInv, Visible

(* Relating two memories, by a link or an object edge. *)
LEMMA EdgesKeep ==
  ASSUME GraphInv, NEW n \in GNode, NEW m \in GNode, NEW r \in Relation,
         CreateGraphEdge(n, m, r)
  PROVE  GraphInv'
<1>0. r \in AnyRelation
  BY GraphAssumption
<1>1. CASE LinkMemoryNodes(n, m, r)
  <2> DEFINE g == [edges |-> edges, nodes |-> gnode]
             links == {Link(n, m, r)}
  <2>1. IsFiniteSet(links) /\ links \subseteq GEdge
    <3>1. IsFiniteSet(links)
      BY FS_Singleton
    <3> QED BY <1>0, <3>1 DEF Link, GEdge
  <2>2. g \in Graphs /\ gnode[m] \in NodeRow
    BY <1>1, GraphTyped, VisibleRow DEF LinkMemoryNodes
  <2>3. \A e \in links : g.nodes[e.to] \in NodeRow
    BY <2>2 DEF Link
  <2>4. StoreGraph(Linked(g, links)) /\ MoveGraph /\ UNCHANGED <<sources, extracted, joining>>
    BY <1>1 DEF LinkMemoryNodes
  <2>5. Linked(g, links) \in Graphs
    <3> HIDE DEF g, links
    <3> QED BY <2>1, <2>2, <2>3, LinkedTyped
  <2>6. gnode' \in [GNode -> NodeRow \cup {NoNode}] /\ edges' \in Seq(GEdge) /\ Len(edges') <= MaxEdges
    BY <2>4, <2>5, StoreTyped
  <2> QED BY <2>4, <2>6, GraphAssumption DEF GraphInv, MoveGraph
<1>2. CASE CreateGraphObjectEdge(n, m, r)
  <2> DEFINE edge == [kind |-> "object", from |-> n, to |-> m, relation |-> r]
             g == [edges |-> Append(edges, edge), nodes |-> gnode]
  <2>1. edge \in GEdge
    BY <1>0 DEF GEdge
  <2>2. g \in Graphs
    BY <2>1 DEF GraphInv, Graphs
  <2>3. StoreGraph(g) /\ MoveGraph /\ UNCHANGED <<sources, extracted, joining>>
    BY <1>2 DEF CreateGraphObjectEdge
  <2>4. gnode' \in [GNode -> NodeRow \cup {NoNode}] /\ edges' \in Seq(GEdge) /\ Len(edges') <= MaxEdges
    <3> HIDE DEF g
    <3> QED BY <2>2, <2>3, StoreTyped
  <2> QED BY <2>3, <2>4, GraphAssumption DEF GraphInv, MoveGraph
<1> QED BY <1>1, <1>2 DEF CreateGraphEdge

(* A memory that is inserted is still to be linked. *)
LEMMA JoiningKeeps ==
  ASSUME GraphInv, NEW n \in GNode, NEW row \in NodeRow, NEW match \in Match, MoveGraph,
         gnode' = [gnode EXCEPT ![n] = row], joining' = [joining EXCEPT ![n] = <<match>>],
         UNCHANGED <<sources, extracted, edges>>
  PROVE  GraphInv'
<1>1. gnode' \in [GNode -> NodeRow \cup {NoNode}]
  BY RowChanged DEF GraphInv
<1>2. <<match>> \in Seq(Match) /\ Len(<<match>>) = 1
  OBVIOUS
<1>3. joining' \in [GNode -> Seq(Match)] /\ \A m \in GNode : Len(joining'[m]) <= 1
  BY <1>2 DEF GraphInv
<1> QED BY <1>1, <1>3, GraphAssumption DEF GraphInv, MoveGraph

(* A new row is one. *)
LEMMA NewTyped == \A f \in Source, status \in GStatus : NewRow(f, status) \in NodeRow
BY DEF NewRow, NodeRow

(* Inserting an extracted memory. *)
LEMMA InsertKeeps ==
  ASSUME GraphInv, NEW n \in GNode, NEW f \in Source, NEW match \in Match, Insert(n, f, match)
  PROVE  GraphInv'
<1>1. Fresh(f) \in NodeRow
  BY NewTyped DEF Fresh, GStatus
<1> QED BY <1>1, JoiningKeeps DEF Insert

(* Inserting a candidate. *)
LEMMA ProposeKeeps ==
  ASSUME GraphInv, NEW n \in GNode, NEW f \in Source, NEW match \in Match, Propose(n, f, match)
  PROVE  GraphInv'
<1>1. PICK status \in GStatus : gnode' = [gnode EXCEPT ![n] = NewRow(f, status)]
  BY DEF Propose, GStatus
<1>2. NewRow(f, status) \in NodeRow
  BY NewTyped
<1> QED BY <1>1, <1>2, JoiningKeeps DEF Propose

(* The links that join a memory to others are to memories with rows. *)
LEMMA RelationsTyped ==
  ASSUME GraphInv, NEW n \in GNode, NEW match \in Match,
         match.relation \in Alone \/ Visible(match.node), NEW relations \in Relations(n, match),
         NEW links, links = {Link(n, m, relations[m]) : m \in {x \in DOMAIN relations : relations[x] # "new"}}
  PROVE  IsFiniteSet(links) /\ links \subseteq GEdge /\ \A e \in links : gnode[e.to] \in NodeRow
<1> DEFINE to == {x \in DOMAIN relations : relations[x] # "new"}
           relation == [x \in to |-> relations[x]]
<1>1. match.relation \notin Alone =>
        match.node \in GNode /\ Visible(match.node) /\ match.relation \in AnyRelation
  BY DEF Match, AnyRelation
<1>2. /\ DOMAIN relations \subseteq Shown
      /\ \A x \in DOMAIN relations : relations[x] # "new" => relations[x] \in AnyRelation
  <2>1. CASE match.relation = "new"
    <3>1. relations \in [Shown \ {n} -> Relation \cup {"new"}]
      BY <2>1 DEF Relations, Inferences
    <3> QED BY <3>1, GraphAssumption
  <2>2. CASE match.relation = "candidate"
    <3>1. relations = [x \in {} |-> "new"]
      BY <2>2 DEF Relations
    <3> QED BY <3>1
  <2>3. CASE match.relation \notin Alone
    <3>1. relations = [x \in {match.node} |-> match.relation]
      BY <2>3 DEF Relations, Alone
    <3> QED BY <1>1, <2>3, <3>1 DEF Shown
  <2> QED BY <2>1, <2>2, <2>3 DEF Alone
<1>3. to \subseteq GNode /\ relation \in [to -> AnyRelation] /\ \A m \in to : gnode[m] \in NodeRow
  BY <1>2, VisibleRow DEF Shown
<1>4. links = {Link(n, m, relation[m]) : m \in to}
  OBVIOUS
<1>5. \A e \in links : gnode[e.to] \in NodeRow
  BY <1>3 DEF Link
<1>6. to \in SUBSET GNode
  BY <1>3
<1> HIDE DEF to, relation
<1>7. /\ IsFiniteSet({Link(n, m, relation[m]) : m \in to})
      /\ {Link(n, m, relation[m]) : m \in to} \subseteq GEdge
  BY <1>3, <1>6, FewLinks
<1> QED BY <1>4, <1>5, <1>7

(* And so are those that join it to others of its file. *)
LEMMA SiblingsTyped ==
  ASSUME GraphInv, NEW n \in GNode, NEW siblings \in Siblings(n),
         NEW kin, kin = {Link(n, m, "derived_from") : m \in siblings}
  PROVE  IsFiniteSet(kin) /\ kin \subseteq GEdge /\ \A e \in kin : gnode[e.to] \in NodeRow
<1> DEFINE derived == [m \in siblings |-> "derived_from"]
<1>1. siblings \subseteq GNode /\ \A m \in siblings : gnode[m] \in NodeRow
  BY DEF Siblings, GraphInv
<1>2. kin = {Link(n, m, derived[m]) : m \in siblings} /\ derived \in [siblings -> AnyRelation]
  BY DEF AnyRelation
<1>3. \A e \in kin : gnode[e.to] \in NodeRow
  BY <1>1 DEF Link
<1>4. siblings \in SUBSET GNode
  BY <1>1
<1> HIDE DEF derived
<1> QED BY <1>2, <1>3, <1>4, FewLinks

(* The links of an inserted memory, whether all are made or none.          *)
LEMMA ConnectKeeps ==
  ASSUME GraphInv, NEW n \in GNode, Connect(n)
  PROVE  GraphInv'
<1> DEFINE match == joining[n][1]
           g == [edges |-> edges, nodes |-> gnode]
<1>1. joining' \in [GNode -> Seq(Match)] /\ \A m \in GNode : Len(joining'[m]) <= 1
  BY DEF Connect, GraphInv
<1>2. match \in Match
  <2>1. joining[n] \in Seq(Match) /\ joining[n] # <<>>
    BY DEF GraphInv, Connect
  <2> QED BY <2>1
<1>3. CASE UNCHANGED <<gnode, edges>>
  BY <1>1, <1>3 DEF GraphInv, Connect
<1>4. CASE ~UNCHANGED <<gnode, edges>>
  <2>1. PICK relations \in Relations(n, match), siblings \in Siblings(n) :
          StoreGraph(WithSiblings(LinkedTo(g, n, relations), n, siblings))
    BY <1>4 DEF Connect
  <2> DEFINE to == {x \in DOMAIN relations : relations[x] # "new"}
             links == {Link(n, m, relations[m]) : m \in to}
             linked == LinkedTo(g, n, relations)
             kin == {Link(n, m, "derived_from") : m \in siblings}
  <2>2. /\ IsFiniteSet(links) /\ links \subseteq GEdge /\ \A e \in links : gnode[e.to] \in NodeRow
        /\ IsFiniteSet(kin) /\ kin \subseteq GEdge /\ \A e \in kin : gnode[e.to] \in NodeRow
    BY <1>2, <1>4, <2>1, RelationsTyped, SiblingsTyped DEF Connect
  <2>3. linked = Linked(g, links) /\ WithSiblings(linked, n, siblings) = Linked(linked, kin)
    BY DEF LinkedTo, WithSiblings
  <2>4. g \in Graphs /\ g.nodes = gnode
    BY GraphTyped
  <2> HIDE DEF links, kin, linked, g
  <2>5. linked \in Graphs /\ \A m \in GNode : gnode[m] \in NodeRow => linked.nodes[m] \in NodeRow
    BY <2>2, <2>3, <2>4, LinkedTyped
  <2>6. \A e \in kin : linked.nodes[e.to] \in NodeRow
    BY <2>2, <2>5 DEF GEdge
  <2>7. Linked(linked, kin) \in Graphs
    BY <2>2, <2>5, <2>6, LinkedTyped
  <2>8. StoreGraph(Linked(linked, kin))
    BY <2>1, <2>3 DEF linked
  <2>9. gnode' \in [GNode -> NodeRow \cup {NoNode}] /\ edges' \in Seq(GEdge) /\ Len(edges') <= MaxEdges
    BY <2>7, <2>8, StoreTyped
  <2> QED BY <1>1, <2>9 DEF GraphInv, Connect
<1> QED BY <1>3, <1>4

(* A review rewrites the row of one memory. *)
LEMMA RewriteKeeps ==
  ASSUME GraphInv, NEW n \in GNode, NEW row, gnode[n] \in NodeRow => row \in NodeRow, Rewrite(n, row)
  PROVE  GraphInv'
<1>1. row \in NodeRow
  BY VisibleRow DEF Rewrite
<1>2. gnode' \in [GNode -> NodeRow \cup {NoNode}]
  BY <1>1, RowChanged DEF Rewrite, GraphInv
<1> QED BY <1>2, GraphAssumption DEF Rewrite, GraphInv, MoveGraph

(* A link between two memories, and rows of either, make a graph. *)
LEMMA LinkKeeps ==
  ASSUME GraphInv, NEW nodes \in [GNode -> NodeRow \cup {NoNode}], NEW n \in GNode, NEW m \in GNode,
         nodes[m] \in NodeRow, NEW r \in AnyRelation
  PROVE  /\ Linked([edges |-> edges, nodes |-> nodes], {Link(n, m, r)}) \in Graphs
         /\ Linked([edges |-> edges, nodes |-> nodes], {Link(n, m, r)}).nodes[m] \in NodeRow
<1> DEFINE g == [edges |-> edges, nodes |-> nodes]
           links == {Link(n, m, r)}
<1>1. IsFiniteSet(links)
  BY FS_Singleton
<1>2. links \subseteq GEdge /\ \A e \in links : e.to = m
  BY DEF Link, GEdge
<1>3. g \in Graphs /\ g.nodes[m] \in NodeRow
  BY DEF Graphs, GraphInv
<1> HIDE DEF g, links
<1>4. \A e \in links : g.nodes[e.to] \in NodeRow
  BY <1>2, <1>3
<1>5. Linked(g, links) \in Graphs /\ Linked(g, links).nodes[m] \in NodeRow
  BY <1>1, <1>2, <1>3, <1>4, LinkedTyped
<1> QED BY <1>5 DEF g, links

(* Reviews keep the graph in its types. *)
LEMMA ReviewKeeps ==
  ASSUME GraphInv, ReviewNext
  PROVE  GraphInv'
<1>1. ASSUME NEW n \in GNode, RejectNode(n) PROVE GraphInv'
  BY <1>1, RewriteKeeps, MarkedTyped DEF RejectNode
<1>2. ASSUME NEW n \in GNode, MarkStale(n) PROVE GraphInv'
  <2> DEFINE row == Outdated(gnode[n])
  <2>1. gnode[n] \in NodeRow => row \in NodeRow
    BY ReviewedTyped DEF GStatus
  <2>2. Rewrite(n, row)
    BY <1>2 DEF MarkStale
  <2> HIDE DEF row
  <2> QED BY <2>1, <2>2, RewriteKeeps
<1>3. ASSUME NEW n \in GNode, Confirm(n) PROVE GraphInv'
  <2> DEFINE row == InStatus(gnode[n], "active")
  <2>1. gnode[n] \in NodeRow => row \in NodeRow
    BY ReviewedTyped DEF GStatus
  <2>2. Rewrite(n, row)
    BY <1>3 DEF Confirm
  <2> HIDE DEF row
  <2> QED BY <2>1, <2>2, RewriteKeeps
<1>4. ASSUME NEW n \in GNode, ResolveConflict(n) PROVE GraphInv'
  <2> DEFINE row == InStatus(gnode[n], "candidate")
  <2>1. gnode[n] \in NodeRow => row \in NodeRow
    BY ReviewedTyped DEF GStatus
  <2>2. Rewrite(n, row)
    BY <1>4 DEF ResolveConflict
  <2> HIDE DEF row
  <2> QED BY <2>1, <2>2, RewriteKeeps
<1>9. ASSUME NEW n \in GNode, NEW status \in EditedTo, EditCandidate(n, status) PROVE GraphInv'
  <2> DEFINE row == Edited(gnode[n], status)
  <2>1. gnode[n] \in NodeRow => row \in NodeRow
    BY ReviewedTyped DEF GStatus
  <2>2. Rewrite(n, row)
    BY <1>9 DEF EditCandidate
  <2> HIDE DEF row
  <2> QED BY <2>1, <2>2, RewriteKeeps
<1>5. ASSUME NEW some, Approve(some) PROVE GraphInv'
  <2>1. \A m \in some : m \in GNode => gnode[m] \in NodeRow
    BY <1>5, VisibleRow DEF Approve, Shown
  <2>2. gnode' \in [GNode -> NodeRow \cup {NoNode}]
    BY <1>5, <2>1, ReviewedTyped DEF Approve, GraphInv
  <2> QED BY <1>5, <2>2, GraphAssumption DEF Approve, GraphInv, MoveGraph
<1>6. ASSUME NEW n \in GNode, NEW m \in GNode, SupersedeMemory(n, m) PROVE GraphInv'
  <2> DEFINE g == Linked([edges |-> edges, nodes |-> gnode], {Link(m, n, "supersedes")})
             marked == [g EXCEPT !.nodes[n] = Marked(@, "superseded")]
  <2>0. gnode \in [GNode -> NodeRow \cup {NoNode}] /\ gnode[n] \in NodeRow /\ "supersedes" \in AnyRelation
    BY <1>6, VisibleRow DEF SupersedeMemory, AnyRelation, GraphInv
  <2>1. g \in Graphs /\ g.nodes[n] \in NodeRow
    BY <2>0, LinkKeeps
  <2>2. StoreGraph(marked) /\ MoveGraph /\ UNCHANGED <<sources, extracted, joining>>
    <3> HIDE DEF g
    <3> QED BY <1>6 DEF SupersedeMemory, g
  <2>3. marked \in Graphs
    <3> HIDE DEF g
    <3> QED BY <2>1, MarkedTyped DEF Graphs
  <2>4. gnode' \in [GNode -> NodeRow \cup {NoNode}] /\ edges' \in Seq(GEdge) /\ Len(edges') <= MaxEdges
    <3> HIDE DEF marked
    <3> QED BY <2>2, <2>3, StoreTyped
  <2> QED BY <2>2, <2>4, GraphAssumption DEF GraphInv, MoveGraph
<1>7. ASSUME NEW n \in GNode, NEW m \in GNode, MarkConflict(n, m) PROVE GraphInv'
  <2> DEFINE nodes == [gnode EXCEPT ![n] = InStatus(@, "conflicted")]
             g == Linked([edges |-> edges, nodes |-> nodes], {Link(n, m, "contradicts")})
  <2>1. gnode[n] \in NodeRow /\ gnode[m] \in NodeRow /\ n # m
    BY <1>7, VisibleRow DEF MarkConflict
  <2>2. InStatus(gnode[n], "conflicted") \in NodeRow
    BY <2>1, ReviewedTyped DEF GStatus
  <2>3. nodes \in [GNode -> NodeRow \cup {NoNode}] /\ nodes[m] \in NodeRow
    <3>1. PICK row \in NodeRow : nodes = [gnode EXCEPT ![n] = row]
      BY <2>2
    <3> HIDE DEF nodes
    <3> QED BY <2>1, <3>1 DEF GraphInv
  <2>4. g \in Graphs
    <3>1. "contradicts" \in AnyRelation
      BY DEF AnyRelation
    <3> HIDE DEF nodes
    <3> QED BY <2>3, <3>1, LinkKeeps
  <2>5. StoreGraph(g) /\ MoveGraph /\ UNCHANGED <<sources, extracted, joining>>
    BY <1>7 DEF MarkConflict
  <2>6. gnode' \in [GNode -> NodeRow \cup {NoNode}] /\ edges' \in Seq(GEdge) /\ Len(edges') <= MaxEdges
    <3> HIDE DEF g
    <3> QED BY <2>4, <2>5, StoreTyped
  <2> QED BY <2>5, <2>6, GraphAssumption DEF GraphInv, MoveGraph
<1>8. ASSUME RollBack PROVE GraphInv'
  <2>1. gnode' \in [GNode -> NodeRow \cup {NoNode}]
    BY <1>8, ReviewedTyped DEF RollBack, GraphInv
  <2> QED BY <1>8, <2>1, GraphAssumption DEF RollBack, GraphInv, MoveGraph
<1> QED BY <1>1, <1>2, <1>3, <1>4, <1>5, <1>6, <1>7, <1>8, <1>9 DEF ReviewNext

(* Every step keeps the graph in its types. *)
LEMMA GraphKeeps ==
  ASSUME GraphInv, GraphNext \/ UNCHANGED graphVars
  PROVE  GraphInv'
<1>1. CASE UNCHANGED graphVars
  BY <1>1 DEF graphVars, GraphInv
<1>2. ASSUME NEW n \in GNode, NEW m \in GNode, NEW r \in Relation, CreateGraphEdge(n, m, r) PROVE GraphInv'
  BY <1>2, EdgesKeep
<1>3. ASSUME NEW i \in DOMAIN edges, DeleteGraphEdge(i) PROVE GraphInv'
  <2>1. SubSeq(edges, 1, i-1) \in Seq(GEdge) /\ SubSeq(edges, i+1, Len(edges)) \in Seq(GEdge)
    BY DEF GraphInv
  <2>2. Len(SubSeq(edges, 1, i-1)) = i - 1 /\ Len(SubSeq(edges, i+1, Len(edges))) = Len(edges) - i
    BY DEF GraphInv
  <2>3. edges' \in Seq(GEdge) /\ Len(edges') <= MaxEdges
    BY <1>3, <2>1, <2>2, GraphAssumption DEF DeleteGraphEdge, RemoveAt, GraphInv
  <2> QED BY <1>3, <2>3, GraphAssumption DEF DeleteGraphEdge, GraphInv, MoveGraph
<1>4. ASSUME NEW f \in Source, ExtractSource(f) \/ DeleteSource(f) PROVE GraphInv'
  BY <1>4, GraphAssumption DEF ExtractSource, DeleteSource, GraphInv, MoveGraph
<1>5. ReviewNext => GraphInv'
  BY ReviewKeeps
<1> QED BY <1>1, <1>2, <1>3, <1>4, <1>5, InsertKeeps, ProposeKeeps, ConnectKeeps DEF GraphNext

(* Memories somebody related are a graph. *)
LEMMA GraphStarts == GraphInit => GraphInv
<1> SUFFICES ASSUME GraphInit PROVE GraphInv
  OBVIOUS
<1>1. \A f \in Source : Fresh(f) \in NodeRow
  BY NewTyped DEF Fresh, GStatus
<1>2. gnode \in [GNode -> NodeRow \cup {NoNode}]
  <2>1. \A n \in GNode : gnode[n] \in {NoNode} \cup {Fresh(f) : f \in Source}
    BY DEF GraphInit
  <2> QED BY <1>1, <2>1 DEF GraphInit
<1>3. extracted \subseteq Source
  <2>1. \A n \in GNode : gnode[n] # NoNode => gnode[n].home \in Source
    BY <1>2 DEF NodeRow
  <2> QED BY <2>1 DEF GraphInit
<1>4. edges \in Seq(GEdge) /\ Len(edges) <= MaxEdges
  <2>1. PICK k \in 0..MaxStart : \E made \in SUBSET GEdge : edges \in [1..k -> made]
    <3>1. {e \in {[kind |-> "link", from |-> n, to |-> m, relation |-> "related_to"] :
                    n \in Shown, m \in Shown} : e.from # e.to} \in SUBSET GEdge
      BY DEF GEdge, Shown, AnyRelation
    <3> QED BY <3>1 DEF GraphInit, Starts
  <2>2. edges \in [1..k -> GEdge] /\ k \in Nat /\ k <= MaxEdges
    BY <2>1, GraphAssumption
  <2> QED BY <2>2, GraphAssumption
<1>5. \A n \in GNode : joining[n] = <<>>
  BY DEF GraphInit
<1> QED BY <1>2, <1>3, <1>4, <1>5, GraphAssumption DEF GraphInit, GraphInv

(* The invariant of the graph implies its types. *)
LEMMA GraphInvTypes == GraphInv => GraphTypeOK
<1> SUFFICES ASSUME GraphInv PROVE GraphTypeOK
  OBVIOUS
<1>1. Range(edges) \subseteq GEdge
  BY RangeOfSeq DEF GraphInv
<1>2. \A n \in GNode : Range(joining[n]) \subseteq Match
  BY RangeOfSeq DEF GraphInv
<1> QED BY <1>1, <1>2 DEF GraphInv, GraphTypeOK

(***************************************************************************)
(* Distances, and what a breadth-first search keeps.                       *)
(***************************************************************************)

Balls(ask, n, open, d, f) ==
  /\ f[0] = {n}
  /\ \A k \in 1..d : f[k] = Outward(ask, n, open, f[k-1])
  /\ Within(ask, n, open, d) = f[d]

(* The balls around a memory grow by what is beyond them. *)
LEMMA WithinIs ==
  ASSUME NEW ask, NEW n \in GNode, NEW open, NEW d \in Nat
  PROVE  \E f \in [0..d -> SUBSET GNode] : Balls(ask, n, open, d, f)
<1> DEFINE S == SUBSET GNode
           G == [x \in (1..d) \X S |-> Outward(ask, n, open, x[2])]
<1>1. \A set \in S : Outward(ask, n, open, set) \in S
  BY DEF Outward, Beyond
<1>2. G \in StepMaps(d, S) /\ {n} \in S
  BY <1>1 DEF StepMaps
<1>3. PICK f \in [0..d -> S] : f = [k \in 0..d |-> IF k = 0 THEN {n} ELSE G[<<k, f[k-1]>>]]
  <2> HIDE DEF G, S
  <2>1. \E f \in [0..d -> S] : Unrolls(f, d, {n}, G)
    BY <1>2, Recursion
  <2> QED BY <2>1 DEF Unrolls
<1>4. ASSUME NEW k \in 0..d, k # 0
      PROVE  G[<<k, f[k-1]>>] = Outward(ask, n, open, f[k-1])
  <2>1. k \in 1..d /\ f[k-1] \in S
    BY <1>4
  <2> QED BY <2>1
<1>5. f = [k \in 0..d |-> IF k = 0 THEN {n}
             ELSE Outward(ask, n, open, f[k-1])]
  <2> HIDE DEF G
  <2> QED BY <1>3, <1>4
<1>6. PICK g : /\ g = [k \in 0..d |-> IF k = 0 THEN {n}
                         ELSE Outward(ask, n, open, g[k-1])]
               /\ Within(ask, n, open, d) = g[d]
  BY <1>5 DEF Within
<1>7. /\ g[0] = {n}
      /\ \A k \in 1..d : g[k] = Outward(ask, n, open, g[k-1])
  <2>1. 0 \in 0..d
    OBVIOUS
  <2>2. g[0] = {n}
    BY <1>6, <2>1, Zenon
  <2>3. ASSUME NEW k \in 1..d PROVE g[k] = Outward(ask, n, open, g[k-1])
    <3>1. k \in 0..d /\ k # 0
      OBVIOUS
    <3> QED BY <1>6, <3>1, Zenon
  <2> QED BY <2>2, <2>3
<1>8. \A k \in 0..d : g[k] \in S
  <2> DEFINE T == {k \in 0..d : g[k] \in S}
  <2>1. 0 \in T
    BY <1>7
  <2>2. \A k \in 1..d : k - 1 \in T => k \in T
    BY <1>7, <1>1
  <2> HIDE DEF T
  <2>3. 0..d \subseteq T
    BY <2>1, <2>2, StepsTo
  <2> QED BY <2>3 DEF T
<1>9. g \in [0..d -> S]
  BY <1>6, <1>8
<1> QED BY <1>6, <1>7, <1>9 DEF Balls

(* What is within d + 1 edges is what is within d, and one edge on.        *)
LEMMA WithinNext ==
  ASSUME NEW ask, NEW n \in GNode, NEW open
  PROVE  /\ Within(ask, n, open, 0) = {n}
         /\ \A d \in Nat : /\ Within(ask, n, open, d) \in SUBSET GNode
                           /\ Within(ask, n, open, d + 1) = Outward(ask, n, open, Within(ask, n, open, d))
<1>1. Within(ask, n, open, 0) = {n}
  <2>1. PICK f \in [0..0 -> SUBSET GNode] : Balls(ask, n, open, 0, f)
    BY WithinIs
  <2> QED BY <2>1 DEF Balls
<1>2. ASSUME NEW d \in Nat
      PROVE  /\ Within(ask, n, open, d) \in SUBSET GNode
             /\ Within(ask, n, open, d + 1) = Outward(ask, n, open, Within(ask, n, open, d))
  <2>1. PICK f \in [0..d -> SUBSET GNode] : Balls(ask, n, open, d, f)
    BY WithinIs
  <2>2. PICK g \in [0..(d + 1) -> SUBSET GNode] : Balls(ask, n, open, d + 1, g)
    <3> DEFINE e == d + 1
    <3>1. e \in Nat
      OBVIOUS
    <3> HIDE DEF e
    <3>2. \E g \in [0..e -> SUBSET GNode] : Balls(ask, n, open, e, g)
      BY <3>1, WithinIs
    <3> QED BY <3>2 DEF e
  <2> DEFINE T == {k \in 0..d : f[k] = g[k]}
  <2>3. 0 \in T
    <3>1. f[0] = g[0] /\ 0 \in 0..d
      BY <2>1, <2>2 DEF Balls
    <3> QED BY <3>1
  <2>4. \A k \in 1..d : k - 1 \in T => k \in T
    BY <2>1, <2>2 DEF Balls
  <2>5. 0..d \subseteq T
    <3> HIDE DEF T
    <3> QED BY <2>3, <2>4, StepsTo
  <2>6. f[d] = g[d] /\ d + 1 \in 1..(d + 1) /\ (d + 1) - 1 = d
    BY <2>5
  <2>7. g[d + 1] = Outward(ask, n, open, g[d])
    BY <2>2, <2>6 DEF Balls
  <2> QED BY <2>1, <2>2, <2>6, <2>7 DEF Balls
<1> QED BY <1>1, <1>2

(* The memories a search can have visited after some edges. *)
Ball(ask, n, open, d) == IF d < 0 THEN {} ELSE Passed(n, open, Within(ask, n, open, d))

(* The same for the memories in force within d edges. *)
LEMMA BallGrows ==
  ASSUME NEW ask, NEW n \in GNode, NEW open
  PROVE  /\ Ball(ask, n, open, 0) = {n}
         /\ \A d \in Nat : /\ Ball(ask, n, open, d) \in SUBSET GNode
                           /\ n \in Ball(ask, n, open, d)
                           /\ Ball(ask, n, open, d + 1) = Ball(ask, n, open, d)
                                \cup (Beyond(ask, Ball(ask, n, open, d)) \cap open)
<1> DEFINE W(d) == Within(ask, n, open, d)
           B(d) == Ball(ask, n, open, d)
<1>1. W(0) = {n} /\ \A d \in Nat : W(d) \in SUBSET GNode /\ W(d + 1) = W(d) \cup Beyond(ask, B(d))
  BY WithinNext DEF Outward, Ball
<1>2. B(0) = {n}
  BY <1>1 DEF Ball, Passed
<1>3. \A d \in Nat : n \in W(d)
  <2> DEFINE T == {d \in Nat : n \in W(d)}
  <2>1. 0 \in T /\ \A d \in Nat : d \in T => d + 1 \in T
    <3> HIDE DEF W, B
    <3> QED BY <1>1
  <2> HIDE DEF T
  <2>2. Nat \subseteq T
    BY <2>1, Steps
  <2> QED BY <2>2 DEF T
<1>4. \A d \in Nat : B(d) = {m \in W(d) : m = n \/ m \in open}
  BY DEF Ball, Passed
<1> HIDE DEF W, B
<1>5. \A d \in Nat : B(d + 1) = B(d) \cup (Beyond(ask, B(d)) \cap open)
  BY <1>1, <1>3, <1>4
<1>6. \A d \in Nat : B(d) \in SUBSET GNode /\ n \in B(d)
  BY <1>1, <1>3, <1>4
<1> QED BY <1>2, <1>5, <1>6 DEF B

(* Smaller balls are in larger ones. *)
LEMMA BallMonotone ==
  ASSUME NEW ask, NEW n \in GNode, NEW open, NEW d \in Int, NEW c \in Int, c <= d
  PROVE  Ball(ask, n, open, c) \subseteq Ball(ask, n, open, d)
<1> DEFINE B(k) == Ball(ask, n, open, k)
<1>1. CASE c < 0
  BY <1>1 DEF Ball
<1>2. CASE c \in Nat
  <2> DEFINE T == {k \in Nat : B(c) \subseteq B(c + k)}
  <2>1. \A k \in Nat : B(k) \subseteq B(k + 1)
    BY BallGrows
  <2> HIDE DEF B
  <2>2. 0 \in T
    BY <1>2
  <2>3. \A k \in Nat : k \in T => k + 1 \in T
    <3> SUFFICES ASSUME NEW k \in Nat, B(c) \subseteq B(c + k) PROVE B(c) \subseteq B(c + (k + 1))
      OBVIOUS
    <3>1. c + k \in Nat /\ c + (k + 1) = (c + k) + 1
      BY <1>2
    <3> QED BY <2>1, <3>1
  <2>4. Nat \subseteq T
    <3> HIDE DEF T
    <3> QED BY <2>2, <2>3, Steps
  <2>5. d - c \in Nat /\ c + (d - c) = d
    BY <1>2
  <2> QED BY <2>4, <2>5 DEF B
<1> QED BY <1>1, <1>2

(* Further away there is no less. *)
LEMMA WithinMonotone ==
  ASSUME NEW ask, NEW n \in GNode, NEW open, NEW c \in Nat, NEW d \in Nat, c <= d
  PROVE  Within(ask, n, open, c) \subseteq Within(ask, n, open, d)
<1> DEFINE W(k) == Within(ask, n, open, k)
           T == {k \in Nat : W(c) \subseteq W(c + k)}
<1>1. \A k \in Nat : W(k) \subseteq W(k + 1)
  BY WithinNext DEF Outward
<1> HIDE DEF W
<1>2. 0 \in T
  OBVIOUS
<1>3. \A k \in Nat : k \in T => k + 1 \in T
  <2> SUFFICES ASSUME NEW k \in Nat, W(c) \subseteq W(c + k) PROVE W(c) \subseteq W(c + (k + 1))
    OBVIOUS
  <2>1. c + k \in Nat /\ c + (k + 1) = (c + k) + 1
    OBVIOUS
  <2> QED BY <1>1, <2>1
<1>4. Nat \subseteq T
  <2> HIDE DEF T
  <2> QED BY <1>2, <1>3, Steps
<1>5. d - c \in Nat /\ c + (d - c) = d
  OBVIOUS
<1> QED BY <1>4, <1>5 DEF W

(* What is one edge beyond a ball. *)
LEMMA BeyondBall ==
  ASSUME NEW ask, NEW n \in GNode, NEW open, NEW d \in Nat,
         NEW x \in Ball(ask, n, open, d), NEW y \in Beyond(ask, {x})
  PROVE  /\ y \in Within(ask, n, open, d + 1)
         /\ y \in open => y \in Ball(ask, n, open, d + 1)
<1>1. Ball(ask, n, open, d) = Passed(n, open, Within(ask, n, open, d))
  BY DEF Ball
<1>2. y \in Beyond(ask, Ball(ask, n, open, d))
  BY DEF Beyond
<1>3. y \in Within(ask, n, open, d + 1)
  <2>1. Within(ask, n, open, d + 1) = Outward(ask, n, open, Within(ask, n, open, d))
    <3>1. \A c \in Nat : Within(ask, n, open, c + 1) = Outward(ask, n, open, Within(ask, n, open, c))
      BY WithinNext DEF Outward
    <3> QED BY <3>1
  <2> QED BY <1>1, <1>2, <2>1 DEF Outward
<1>4. y \in open => y \in Ball(ask, n, open, d + 1)
  BY <1>2, BallGrows
<1> QED BY <1>3, <1>4

Way == {p \in Seq(GNode) : p # <<>>}

(* What an edge leads to from one memory. *)
LEMMA BeyondEach ==
  ASSUME NEW ask, NEW set \in SUBSET GNode, NEW y
  PROVE  y \in Beyond(ask, set) <=> \E x \in set : y \in Beyond(ask, {x})
BY DEF Beyond

(* A way ends at a memory. *)
LEMMA WayEnd == \A p \in Way : Last(p) \in GNode /\ Len(p) \in Nat \ {0} /\ p \in Seq(GNode)
BY DEF Way, Last

(* A way that is followed further is a way. *)
LEMMA WayLonger ==
  ASSUME NEW p \in Way, NEW y \in GNode
  PROVE  Append(p, y) \in Way /\ Last(Append(p, y)) = y /\ Len(Append(p, y)) = Len(p) + 1
BY DEF Way, Last

(* An edge that a search follows leads to a memory beyond. *)
LEMMA FollowedIsBeyond ==
  ASSUME edges \in Seq(GEdge), NEW ask, NEW p \in Way, NEW i \in 1..Len(edges),
         Follows(ask, p, edges[i]), OtherEnd(edges[i], Last(p)) # Last(p)
  PROVE  OtherEnd(edges[i], Last(p)) \in Beyond(ask, {Last(p)})
<1>1. PICK e \in GEdge : e = edges[i]
  OBVIOUS
<1>2. e \in Range(edges)
  BY <1>1 DEF Range
<1> DEFINE y == OtherEnd(e, Last(p))
<1>3. y \in GNode /\ {Last(p), y} = {e.from, e.to}
  BY <1>1 DEF OtherEnd, GEdge, Follows, IsEdgeOf
<1>4. e.relation \in ask.relations /\ (e.kind = "link" => Visible(y))
  BY <1>1 DEF Follows, IsEdgeOf
<1>5. y # Last(p)
  BY <1>1
<1> HIDE DEF y
<1>6. y \in Beyond(ask, {Last(p)})
  BY <1>2, <1>3, <1>4, <1>5 DEF Beyond
<1> QED BY <1>1, <1>6 DEF y

(* A search follows an edge to every memory beyond. *)
LEMMA BeyondIsFollowed ==
  ASSUME edges \in Seq(GEdge), NEW ask, NEW p \in Way, NEW y \in Beyond(ask, {Last(p)})
  PROVE  \E i \in 1..Len(edges) : Follows(ask, p, edges[i]) /\ OtherEnd(edges[i], Last(p)) = y
<1>1. PICK e \in Range(edges) : /\ {Last(p), y} = {e.from, e.to} /\ Last(p) # y
                                /\ e.relation \in ask.relations
                                /\ e.kind = "link" => Visible(y)
  BY DEF Beyond
<1>2. OtherEnd(e, Last(p)) = y /\ Last(p) \in {e.from, e.to}
  BY <1>1 DEF OtherEnd
<1>3. Follows(ask, p, e)
  BY <1>1, <1>2 DEF Follows, IsEdgeOf
<1>4. \E i \in 1..Len(edges) : e = edges[i]
  BY DEF Range
<1> QED BY <1>2, <1>3, <1>4

(* A way whose end is exactly as far from the start as the way is long. *)
Exact(ask, n, open, p) ==
  /\ Last(p) \in Ball(ask, n, open, Len(p) - 1)
  /\ Last(p) \notin Ball(ask, n, open, Len(p) - 2)

(* A memory from which nothing is left to visit. *)
Settled(ask, open, s, x) == Beyond(ask, {x}) \cap open \subseteq s.visited

Waits(s, x) == \E i \in DOMAIN s.queue : x = Last(s.queue[i])

(* The queue of a breadth-first search: its ways are exact, of two lengths *)
(* at most and the shorter ones first; a memory that was visited still     *)
(* waits, or is the one looked at now, or nothing is left to visit from    *)
(* it, or it is too far to be followed.                                    *)
Layered(ask, n, open, h, now, s) ==
  /\ s.queue \in Seq(Way) /\ s.visited \in SUBSET GNode /\ n \in s.visited
  /\ \A i \in DOMAIN s.queue :
       /\ Exact(ask, n, open, s.queue[i]) /\ Last(s.queue[i]) \in s.visited
       /\ Len(s.queue[i]) \in h..(h + 1) /\ Len(s.queue[i]) <= ask.depth + 1
  /\ \A i, j \in DOMAIN s.queue : i <= j => Len(s.queue[i]) <= Len(s.queue[j])
  /\ \A x \in s.visited : \/ x \in now \/ Waits(s, x) \/ Settled(ask, open, s, x)
                          \/ x \notin Ball(ask, n, open, ask.depth - 1)

(* Whatever is nearer than the waiting memories was visited. *)
LEMMA Reached ==
  ASSUME NEW ask, ask.depth \in Nat, NEW n \in GNode, NEW open, NEW h \in Nat, NEW s,
         Layered(ask, n, open, h, {}, s), NEW d \in 0..ask.depth,
         \A i \in DOMAIN s.queue : Len(s.queue[i]) - 1 >= d
  PROVE  Ball(ask, n, open, d) \subseteq s.visited
<1> DEFINE B(k) == Ball(ask, n, open, k)
           T == {k \in 0..d : B(k) \subseteq s.visited}
<1>0. d \in Nat
  OBVIOUS
<1>1. 0 \in T
  <2>1. Ball(ask, n, open, 0) = {n}
    BY BallGrows
  <2>2. n \in s.visited
    BY DEF Layered
  <2> QED BY <2>1, <2>2
<1>2. ASSUME NEW k \in 1..d, k - 1 \in T PROVE k \in T
  <2>1. k - 1 \in Nat /\ (k - 1) + 1 = k
    OBVIOUS
  <2>2. B(k) = B(k-1) \cup (Beyond(ask, B(k-1)) \cap open) /\ B(k-1) \in SUBSET GNode
    <3>1. PICK c \in Nat : c = k - 1 /\ c + 1 = k
      BY <2>1
    <3>2. B(c + 1) = B(c) \cup (Beyond(ask, B(c)) \cap open) /\ B(c) \in SUBSET GNode
      BY BallGrows
    <3> HIDE DEF B
    <3> QED BY <3>1, <3>2
  <2>3. B(k-1) \subseteq s.visited
    BY <1>2
  <2>4. ASSUME NEW y \in Beyond(ask, B(k-1)) \cap open PROVE y \in s.visited
    <3>1. PICK x \in B(k-1) : y \in Beyond(ask, {x})
      BY <2>2, <2>4, BeyondEach
    <3>2. ~Waits(s, x)
      <4> SUFFICES ASSUME NEW i \in DOMAIN s.queue, x = Last(s.queue[i]) PROVE FALSE
        BY DEF Waits
      <4>1. PICK l \in Nat : l = Len(s.queue[i]) /\ l - 1 >= d
        BY WayEnd DEF Layered
      <4>2. x \notin B(l - 2)
        BY <4>1 DEF Layered, Exact
      <4>3. B(k-1) \subseteq B(l - 2)
        <5>1. k - 1 <= l - 2 /\ l - 2 \in Int /\ k - 1 \in Int
          BY <4>1
        <5> QED BY <5>1, BallMonotone
      <4> HIDE DEF B
      <4> QED BY <4>2, <4>3
    <3>3. x \in B(ask.depth - 1)
      <4>1. k - 1 <= ask.depth - 1 /\ k - 1 \in Int /\ ask.depth - 1 \in Int
        OBVIOUS
      <4> QED BY <4>1, BallMonotone
    <3>4. Settled(ask, open, s, x)
      BY <2>3, <3>2, <3>3 DEF Layered
    <3> QED BY <2>4, <3>1, <3>4 DEF Settled
  <2> HIDE DEF B
  <2> QED BY <2>2, <2>3, <2>4
<1> HIDE DEF T
<1>3. 0..d \subseteq T
  BY <1>0, <1>1, <1>2, StepsTo
<1> QED BY <1>3 DEF T

(* The first way is taken from the queue. *)
LEMMA Popped ==
  ASSUME NEW ask, ask.depth \in Nat, NEW n \in GNode, NEW open, NEW h \in Nat, NEW s,
         Layered(ask, n, open, h, {}, s), s.queue # <<>>,
         NEW rest, rest.queue = Tail(s.queue), rest.visited = s.visited
  PROVE  LET p == Head(s.queue)
         IN  /\ p \in Way /\ Exact(ask, n, open, p) /\ Last(p) \in s.visited
             /\ Len(p) <= ask.depth + 1
             /\ Ball(ask, n, open, Len(p) - 1) \subseteq s.visited
             /\ Layered(ask, n, open, Len(p), {Last(p)}, rest)
<1>1. PICK q \in Seq(Way) : q = s.queue
  BY DEF Layered
<1>2. PICK p \in Way : p = q[1] /\ p = Head(q)
  BY <1>1
<1>3. 1 \in DOMAIN q
  BY <1>1
<1>4. Exact(ask, n, open, p) /\ Last(p) \in s.visited /\ Len(p) \in h..(h + 1) /\ Len(p) <= ask.depth + 1
  BY <1>1, <1>2, <1>3 DEF Layered
<1>5. \A i \in DOMAIN q : Len(p) <= Len(q[i]) /\ Len(q[i]) \in h..(h + 1)
  BY <1>1, <1>2, <1>3 DEF Layered
<1>6. Ball(ask, n, open, Len(p) - 1) \subseteq s.visited
  <2>1. PICK d : d = Len(p) - 1
    OBVIOUS
  <2>2. d \in 0..ask.depth
    BY <1>4, <2>1, WayEnd
  <2>3. \A i \in DOMAIN s.queue : Len(s.queue[i]) - 1 >= d
    BY <1>1, <1>4, <1>5, <2>1
  <2> QED BY <2>1, <2>2, <2>3, Reached
<1>7. /\ Tail(q) \in Seq(Way) /\ DOMAIN Tail(q) = 1..(Len(q) - 1)
      /\ \A i \in DOMAIN Tail(q) : Tail(q)[i] = q[i + 1] /\ i + 1 \in DOMAIN q
  BY <1>1
<1>8. ASSUME NEW i \in DOMAIN Tail(q)
      PROVE  /\ Exact(ask, n, open, Tail(q)[i]) /\ Last(Tail(q)[i]) \in s.visited
             /\ Len(Tail(q)[i]) \in Len(p)..(Len(p) + 1) /\ Len(Tail(q)[i]) <= ask.depth + 1
  <2>1. Exact(ask, n, open, q[i + 1]) /\ Last(q[i + 1]) \in s.visited /\ Len(q[i + 1]) <= ask.depth + 1
    BY <1>1, <1>7 DEF Layered
  <2>2. Len(q[i + 1]) \in Len(p)..(Len(p) + 1)
    BY <1>4, <1>5, <1>7
  <2> QED BY <1>7, <2>1, <2>2
<1>9. \A i, j \in DOMAIN Tail(q) : i <= j => Len(Tail(q)[i]) <= Len(Tail(q)[j])
  BY <1>1, <1>7 DEF Layered
<1>10. ASSUME NEW x \in s.visited
       PROVE  \/ x \in {Last(p)} \/ Waits(rest, x) \/ Settled(ask, open, rest, x)
              \/ x \notin Ball(ask, n, open, ask.depth - 1)
  <2>1. CASE Waits(s, x)
    <3>1. PICK i \in DOMAIN q : x = Last(q[i])
      BY <1>1, <2>1 DEF Waits
    <3>2. CASE i = 1
      BY <1>2, <3>1, <3>2
    <3>3. CASE i # 1
      <4>1. i - 1 \in DOMAIN Tail(q) /\ Tail(q)[i - 1] = q[i]
        BY <1>1, <1>7, <3>3
      <4> QED BY <1>1, <3>1, <4>1 DEF Waits
    <3> QED BY <3>2, <3>3
  <2>2. CASE Settled(ask, open, s, x)
    BY <2>2 DEF Settled
  <2> QED BY <2>1, <2>2 DEF Layered
<1>11. Layered(ask, n, open, Len(p), {Last(p)}, rest)
  <2>1. s.visited \in SUBSET GNode /\ n \in s.visited
    BY DEF Layered
  <2> QED BY <1>1, <1>7, <1>8, <1>9, <1>10, <2>1 DEF Layered
<1> QED BY <1>1, <1>2, <1>4, <1>6, <1>11

(* A memory is taken: it waits at the end of the queue. *)
LEMMA TakeKeeps ==
  ASSUME NEW ask, ask.depth \in Nat, NEW n \in GNode, NEW open, NEW s, NEW p \in Way,
         Len(p) <= ask.depth, Layered(ask, n, open, Len(p), {Last(p)}, s),
         Last(p) \in Ball(ask, n, open, Len(p) - 1),
         Ball(ask, n, open, Len(p) - 1) \subseteq s.visited,
         NEW y \in Beyond(ask, {Last(p)}), y \in open, y \notin s.visited,
         NEW t, t.queue = Append(s.queue, Append(p, y)), t.visited = s.visited \cup {y}
  PROVE  Exact(ask, n, open, Append(p, y)) /\ Layered(ask, n, open, Len(p), {Last(p)}, t)
<1>1. PICK q \in Seq(Way) : q = s.queue
  BY DEF Layered
<1>2. PICK longer \in Way : longer = Append(p, y) /\ Last(longer) = y /\ Len(longer) = Len(p) + 1
  <2>1. y \in GNode
    BY DEF Beyond
  <2> QED BY <2>1, WayLonger
<1>3. PICK l \in Nat \ {0} : l = Len(p)
  BY WayEnd
<1>4. Exact(ask, n, open, longer)
  <2>1. y \in Ball(ask, n, open, l)
    <3>0. l - 1 \in Nat /\ (l - 1) + 1 = l
      OBVIOUS
    <3>1. PICK c \in Nat : c = l - 1 /\ c + 1 = l
      BY <3>0
    <3>2. Last(p) \in Ball(ask, n, open, c)
      BY <1>3, <3>1
    <3>3. y \in Ball(ask, n, open, c + 1)
      BY <3>2, BeyondBall
    <3> QED BY <3>1, <3>3
  <2>2. y \notin Ball(ask, n, open, l - 1)
    BY <1>3
  <2>3. Len(longer) - 1 = l /\ Len(longer) - 2 = l - 1
    BY <1>2, <1>3
  <2> QED BY <1>2, <2>1, <2>2, <2>3 DEF Exact
<1>5. /\ t.queue \in Seq(Way) /\ DOMAIN t.queue = 1..(Len(q) + 1)
      /\ \A i \in DOMAIN q : i \in DOMAIN t.queue /\ t.queue[i] = q[i]
      /\ t.queue[Len(q) + 1] = longer
  BY <1>1, <1>2
<1>6. DOMAIN q = 1..Len(q) /\ Len(q) \in Nat
  BY <1>1
<1>7. ASSUME NEW i \in DOMAIN t.queue
      PROVE  /\ Exact(ask, n, open, t.queue[i]) /\ Last(t.queue[i]) \in t.visited
             /\ Len(t.queue[i]) \in l..(l + 1) /\ Len(t.queue[i]) <= ask.depth + 1
  <2>1. CASE i \in DOMAIN q
    <3>1. /\ Exact(ask, n, open, q[i]) /\ Last(q[i]) \in s.visited
          /\ Len(q[i]) \in l..(l + 1) /\ Len(q[i]) <= ask.depth + 1
      BY <1>1, <1>3, <2>1 DEF Layered
    <3> QED BY <1>5, <2>1, <3>1
  <2>2. CASE i = Len(q) + 1
    BY <1>2, <1>3, <1>4, <1>5, <2>2
  <2> QED BY <1>5, <1>6, <2>1, <2>2
<1>8. ASSUME NEW i \in DOMAIN t.queue, NEW j \in DOMAIN t.queue, i <= j
      PROVE  Len(t.queue[i]) <= Len(t.queue[j])
  <2>1. CASE j \in DOMAIN q
    <3>1. i \in DOMAIN q
      BY <1>5, <1>6, <1>8, <2>1
    <3>2. Len(q[i]) <= Len(q[j])
      BY <1>1, <1>8, <2>1, <3>1 DEF Layered
    <3> QED BY <1>5, <2>1, <3>1, <3>2
  <2>2. CASE j = Len(q) + 1
    <3>1. Len(t.queue[j]) = l + 1
      BY <1>2, <1>3, <1>5, <2>2
    <3> QED BY <1>3, <1>7, <3>1
  <2> QED BY <1>5, <1>6, <2>1, <2>2
<1>9. ASSUME NEW x \in t.visited
      PROVE  \/ x \in {Last(p)} \/ Waits(t, x) \/ Settled(ask, open, t, x)
             \/ x \notin Ball(ask, n, open, ask.depth - 1)
  <2>1. CASE x = y
    <3>1. Len(q) + 1 \in DOMAIN t.queue
      BY <1>5, <1>6
    <3> QED BY <1>2, <1>5, <2>1, <3>1 DEF Waits
  <2>2. CASE x \in s.visited /\ Waits(s, x)
    BY <1>1, <1>5, <2>2 DEF Waits
  <2>3. CASE x \in s.visited /\ Settled(ask, open, s, x)
    BY <2>3 DEF Settled
  <2> QED BY <2>1, <2>2, <2>3 DEF Layered
<1>10. t.visited \in SUBSET GNode /\ n \in t.visited
  BY DEF Layered, Beyond
<1>11. Layered(ask, n, open, l, {Last(p)}, t)
  BY <1>5, <1>7, <1>8, <1>9, <1>10 DEF Layered
<1> QED BY <1>2, <1>3, <1>4, <1>11

(* A memory was looked at: its edges are followed, or it was too far. *)
LEMMA NothingNow ==
  ASSUME NEW ask, NEW n \in GNode, NEW open, NEW h, NEW u, NEW s,
         Layered(ask, n, open, h, {u}, s),
         Settled(ask, open, s, u) \/ u \notin Ball(ask, n, open, ask.depth - 1)
  PROVE  Layered(ask, n, open, h, {}, s)
BY DEF Layered

(* The search starts at its memory. *)
LEMMA SearchStarts ==
  ASSUME NEW ask, ask.depth \in Nat, NEW n \in GNode, NEW open
  PROVE  Layered(ask, n, open, 1, {}, Search(n))
<1>1. PICK s : s = Search(n)
  OBVIOUS
<1>2. s.queue = <<<<n>>>> /\ s.visited = {n}
  BY <1>1 DEF Search
<1>3. <<n>> \in Way /\ Len(<<n>>) = 1 /\ Last(<<n>>) = n
  BY DEF Way, Last
<1>4. Exact(ask, n, open, <<n>>)
  <2>1. Ball(ask, n, open, 0) = {n} /\ Ball(ask, n, open, -1) = {}
    BY BallGrows DEF Ball
  <2>2. Len(<<n>>) - 1 = 0 /\ Len(<<n>>) - 2 = -1
    BY <1>3
  <2> QED BY <1>3, <2>1, <2>2 DEF Exact
<1>5. /\ s.queue \in Seq(Way) /\ DOMAIN s.queue = {1} /\ s.queue[1] = <<n>>
  BY <1>2, <1>3
<1>6. \A x \in s.visited : Waits(s, x)
  BY <1>2, <1>3, <1>5 DEF Waits
<1>7. \A i \in DOMAIN s.queue :
         /\ Exact(ask, n, open, s.queue[i]) /\ Last(s.queue[i]) \in s.visited
         /\ Len(s.queue[i]) \in 1..(1 + 1) /\ Len(s.queue[i]) <= ask.depth + 1
  <2> SUFFICES ASSUME NEW i \in DOMAIN s.queue
               PROVE  /\ Exact(ask, n, open, s.queue[i]) /\ Last(s.queue[i]) \in s.visited
                      /\ Len(s.queue[i]) \in 1..(1 + 1) /\ Len(s.queue[i]) <= ask.depth + 1
    OBVIOUS
  <2>1. s.queue[i] = <<n>>
    BY <1>5
  <2>2. 1 \in 1..(1 + 1) /\ 1 <= ask.depth + 1
    OBVIOUS
  <2> QED BY <1>2, <1>3, <1>4, <2>1, <2>2
<1>8. \A i, j \in DOMAIN s.queue : i <= j => Len(s.queue[i]) <= Len(s.queue[j])
  BY <1>3, <1>5
<1>9. s.visited \in SUBSET GNode /\ n \in s.visited
  BY <1>2
<1> HIDE DEF Way
<1>10. Layered(ask, n, open, 1, {}, s)
  BY <1>5, <1>6, <1>7, <1>8, <1>9 DEF Layered
<1> QED BY <1>1, <1>10

-----------------------------------------------------------------------------
(* findRelatedMemories. *)

SearchState == [queue : Seq(Way), visited : SUBSET GNode, found : Seq(Way),
                over : {"no", "missing", "found"}]

(* What a search for related memories passes. *)
InForce(ask) == {m \in Shown : ask.stale \/ ~Withdrawn(m)}

(* What has been found: each visited memory but the first, once, as near   *)
(* as it is, and none before the nearer ones.                              *)
FoundEach(ask, n, open, s) ==
  /\ s.visited = {n} \cup {Last(s.found[i]) : i \in DOMAIN s.found}
  /\ \A i \in DOMAIN s.found :
       /\ Exact(ask, n, open, s.found[i]) /\ Last(s.found[i]) # n /\ Last(s.found[i]) \in open
       /\ Len(s.found[i]) \in 2..(ask.depth + 1)
       /\ Ball(ask, n, open, Len(s.found[i]) - 2) \subseteq s.visited
  /\ \A i, j \in DOMAIN s.found : Last(s.found[i]) = Last(s.found[j]) => i = j

Gone(ask, n, open, s) ==
  s.over = "missing" /\ \E x \in Within(ask, n, open, ask.depth) : ~Visible(x)

(* An edge from a memory leads to nothing that is still to be visited. *)
Handled(ask, open, p, s, e) ==
  Follows(ask, p, e) => OtherEnd(e, Last(p)) \in s.visited \/ OtherEnd(e, Last(p)) \notin open

(* A search looks at the end of a way. *)
LooksAt(ask, n, open, p, s) ==
  /\ s \in SearchState /\ s.over = "no" /\ Last(p) \in s.visited
  /\ Ball(ask, n, open, Len(p) - 1) \subseteq s.visited
  /\ Layered(ask, n, open, Len(p), {Last(p)}, s) /\ FoundEach(ask, n, open, s)

Balance(s) == Cardinality(s.visited) - Len(s.queue)

(* One edge leaves a search of its type. *)
LEMMA RelateTyped ==
  ASSUME NEW ask, NEW path \in Way, NEW s \in SearchState, NEW e \in GEdge
  PROVE  Relate(ask, path, s, e) \in SearchState
<1> DEFINE next == OtherEnd(e, Last(path))
           longer == Append(path, next)
<1>1. next \in GNode
  BY DEF OtherEnd, GEdge
<1>2. longer \in Way /\ Last(longer) = next
  BY <1>1, WayLonger
<1> HIDE DEF longer, next
<1>3. [s EXCEPT !.over = "missing"] \in SearchState
  BY DEF SearchState
<1>4. Append(s.queue, longer) \in Seq(Way) /\ Append(s.found, longer) \in Seq(Way)
  BY <1>2 DEF SearchState
<1>5. Take(s, longer) \in SearchState /\ Take(s, longer).found = s.found
  BY <1>1, <1>2, <1>4 DEF SearchState, Take
<1>6. [Take(s, longer) EXCEPT !.found = Append(@, longer)] \in SearchState
  BY <1>4, <1>5 DEF SearchState
<1> QED BY <1>3, <1>6 DEF Relate, longer, next

(* What a way found adds to those found. *)
LEMMA FoundAdds ==
  ASSUME NEW ask, NEW n \in GNode, NEW open, NEW s \in SearchState, NEW t \in SearchState,
         FoundEach(ask, n, open, s), NEW p \in Way, Exact(ask, n, open, p),
         Last(p) \in open, Last(p) \notin s.visited, Len(p) \in 2..(ask.depth + 1),
         Ball(ask, n, open, Len(p) - 2) \subseteq s.visited,
         t.visited = s.visited \cup {Last(p)}, t.found = Append(s.found, p)
  PROVE  FoundEach(ask, n, open, t)
<1>1. PICK f \in Seq(Way) : f = s.found
  BY DEF SearchState
<1>2. /\ t.found \in Seq(Way) /\ DOMAIN t.found = 1..(Len(f) + 1)
      /\ DOMAIN f = 1..Len(f) /\ Len(f) \in Nat
      /\ \A i \in DOMAIN f : i \in DOMAIN t.found /\ t.found[i] = f[i]
      /\ t.found[Len(f) + 1] = p
  BY <1>1
<1>3. \A i \in DOMAIN t.found : i \in DOMAIN f \/ i = Len(f) + 1
  BY <1>2
<1>4. {Last(t.found[i]) : i \in DOMAIN t.found} = {Last(f[i]) : i \in DOMAIN f} \cup {Last(p)}
  <2>1. Len(f) + 1 \in DOMAIN t.found
    BY <1>2
  <2> HIDE DEF Last
  <2> QED BY <1>2, <1>3, <2>1
<1>5. \A i \in DOMAIN f : /\ Exact(ask, n, open, f[i]) /\ Last(f[i]) # n /\ Last(f[i]) \in open
                          /\ Len(f[i]) \in 2..(ask.depth + 1)
                          /\ Ball(ask, n, open, Len(f[i]) - 2) \subseteq s.visited
                          /\ Last(f[i]) \in s.visited
  BY <1>1 DEF FoundEach
<1>6. n \in s.visited /\ Last(p) # n
  BY DEF FoundEach
<1>7. ASSUME NEW i \in DOMAIN t.found
      PROVE  /\ Exact(ask, n, open, t.found[i]) /\ Last(t.found[i]) # n /\ Last(t.found[i]) \in open
             /\ Len(t.found[i]) \in 2..(ask.depth + 1)
             /\ Ball(ask, n, open, Len(t.found[i]) - 2) \subseteq t.visited
  <2>1. CASE i \in DOMAIN f
    BY <1>2, <1>5, <2>1
  <2>2. CASE i = Len(f) + 1
    BY <1>2, <1>6, <2>2
  <2> QED BY <1>3, <2>1, <2>2
<1>8. ASSUME NEW i \in DOMAIN t.found, NEW j \in DOMAIN t.found, Last(t.found[i]) = Last(t.found[j])
      PROVE  i = j
  <2>1. CASE i \in DOMAIN f /\ j \in DOMAIN f
    BY <1>1, <1>2, <1>8, <2>1 DEF FoundEach
  <2>2. CASE i \in DOMAIN f /\ j = Len(f) + 1
    BY <1>2, <1>5, <1>8, <2>2
  <2>3. CASE i = Len(f) + 1 /\ j \in DOMAIN f
    BY <1>2, <1>5, <1>8, <2>3
  <2> QED BY <1>3, <2>1, <2>2, <2>3
<1>9. t.visited = {n} \cup {Last(t.found[i]) : i \in DOMAIN t.found}
  BY <1>1, <1>4 DEF FoundEach
<1> QED BY <1>7, <1>8, <1>9 DEF FoundEach

(* What one edge does to a search that goes on. *)
LEMMA RelateStep ==
  ASSUME edges \in Seq(GEdge), NEW ask, ask.depth \in Nat, NEW n \in GNode,
         NEW open, open = InForce(ask), NEW p \in Way, Len(p) <= ask.depth,
         Last(p) \in Ball(ask, n, open, Len(p) - 1),
         NEW s, LooksAt(ask, n, open, p, s),
         NEW i \in 1..Len(edges), NEW t, t = Relate(ask, p, s, edges[i])
  PROVE  \/ Gone(ask, n, open, t)
         \/ /\ LooksAt(ask, n, open, p, t) /\ s.visited \subseteq t.visited
            /\ Balance(t) = Balance(s)
            /\ Handled(ask, open, p, t, edges[i])
<1> DEFINE y == OtherEnd(edges[i], Last(p))
<1> USE DEF LooksAt
<1>1. t \in SearchState
  BY RelateTyped
<1>2. CASE t = s
  <2>1. Follows(ask, p, edges[i]) => y \in s.visited \/ y \notin open
    <3> SUFFICES ASSUME Follows(ask, p, edges[i]), y \notin s.visited, y \in open PROVE FALSE
      OBVIOUS
    <3> DEFINE longer == Append(p, y)
    <3>1. Visible(y) /\ (ask.stale \/ ~Withdrawn(y)) /\ y \in GNode
      BY DEF InForce, Shown
    <3>2. t = [Take(s, longer) EXCEPT !.found = Append(@, longer)]
      BY <3>1 DEF Relate
    <3>3. Last(longer) = y
      BY <3>1, WayLonger
    <3> HIDE DEF longer, y
    <3>4. y \in t.visited
      BY <3>2, <3>3 DEF Take, SearchState
    <3> QED BY <1>2, <3>4
  <2> QED BY <1>1, <1>2, <2>1 DEF Handled
<1>3. CASE t # s
  <2>1. Follows(ask, p, edges[i]) /\ y \notin s.visited
    BY <1>3 DEF Relate
  <2>2. y \in Beyond(ask, {Last(p)})
    <3>1. y # Last(p)
      BY <2>1
    <3> QED BY <2>1, <3>1, FollowedIsBeyond
  <2>3. PICK l \in Nat \ {0} : l = Len(p)
    BY WayEnd
  <2>4. PICK c \in Nat : c = l - 1 /\ c + 1 = l
    <3>1. l - 1 \in Nat /\ (l - 1) + 1 = l
      OBVIOUS
    <3> QED BY <3>1
  <2>5. y \in Within(ask, n, open, l)
    <3>1. Last(p) \in Ball(ask, n, open, c)
      BY <2>3, <2>4
    <3>2. y \in Within(ask, n, open, c + 1)
      BY <2>2, <3>1, BeyondBall
    <3> QED BY <2>4, <3>2
  <2> HIDE DEF y
  <2>6. CASE ~Visible(y)
    <3>1. t.over = "missing"
      BY <1>3, <2>1, <2>6 DEF Relate, SearchState, y
    <3>2. y \in Within(ask, n, open, ask.depth)
      BY <2>3, <2>5, WithinMonotone
    <3> QED BY <1>1, <2>6, <3>1, <3>2 DEF Gone
  <2>7. CASE Visible(y)
    <3> DEFINE longer == Append(p, y)
    <3>1. y \in GNode
      BY <2>2 DEF Beyond
    <3>2. longer \in Way /\ Last(longer) = y /\ Len(longer) = Len(p) + 1
      BY <3>1, WayLonger
    <3> HIDE DEF longer
    <3>3. y \in open /\ t = [Take(s, longer) EXCEPT !.found = Append(@, longer)]
      BY <1>3, <2>1, <2>7, <3>1 DEF Relate, InForce, Shown, y, longer
    <3>4. /\ t.queue = Append(s.queue, longer) /\ t.visited = s.visited \cup {y}
          /\ t.found = Append(s.found, longer) /\ t.over = "no"
      BY <3>2, <3>3 DEF Take, SearchState
    <3>5. Exact(ask, n, open, longer) /\ Layered(ask, n, open, Len(p), {Last(p)}, t)
      BY <2>1, <2>2, <3>3, <3>4, TakeKeeps DEF longer
    <3>6. FoundEach(ask, n, open, t)
      <4>1. Len(longer) \in 2..(ask.depth + 1) /\ Len(longer) - 2 = Len(p) - 1
        BY <2>3, <3>2
      <4> QED BY <1>1, <2>1, <3>2, <3>3, <3>4, <3>5, <4>1, FoundAdds
    <3>7. Balance(t) = Balance(s)
      <4>1. IsFiniteSet(s.visited)
        <5>1. s.visited \in SUBSET GNode
          BY DEF SearchState
        <5> QED BY <5>1, FS_Subset, GraphAssumption
      <4>2. Cardinality(t.visited) = Cardinality(s.visited) + 1
        <5>1. PICK old : old = s.visited
          OBVIOUS
        <5>2. Cardinality(old \cup {y}) = IF y \in old THEN Cardinality(old) ELSE Cardinality(old) + 1
          BY <4>1, <5>1, FS_AddElement
        <5> QED BY <2>1, <3>4, <5>1, <5>2
      <4>3. Len(t.queue) = Len(s.queue) + 1 /\ Len(s.queue) \in Nat
        BY <3>2, <3>4 DEF SearchState
      <4>4. Cardinality(s.visited) \in Nat
        BY <4>1, FS_CardinalityType
      <4> QED BY <4>2, <4>3, <4>4 DEF Balance
    <3> QED BY <1>1, <3>4, <3>5, <3>6, <3>7 DEF y, Handled
  <2> QED BY <2>6, <2>7
<1> QED BY <1>2, <1>3

RelateEach(ask, p, s, f) ==
  /\ f[0] = s
  /\ \A k \in 1..Len(edges) : f[k] = Relate(ask, p, f[k-1], edges[Len(edges) + 1 - k])
  /\ RelateAll(ask, p, s) = f[Len(edges)]

(* The inner loop, edge by edge. *)
LEMMA RelateAllIs ==
  ASSUME edges \in Seq(GEdge), NEW ask, NEW path \in Way, NEW s \in SearchState
  PROVE  \E f \in [0..Len(edges) -> SearchState] : RelateEach(ask, path, s, f)
<1> DEFINE n == Len(edges)
           G == [x \in (1..n) \X SearchState |-> Relate(ask, path, x[2], edges[n + 1 - x[1]])]
<1>1. n \in Nat /\ \A k \in 1..n : edges[n + 1 - k] \in GEdge
  OBVIOUS
<1>2. G \in StepMaps(n, SearchState)
  BY <1>1, RelateTyped DEF StepMaps
<1>3. PICK f \in [0..n -> SearchState] : f = [k \in 0..n |-> IF k = 0 THEN s ELSE G[<<k, f[k-1]>>]]
  <2> DEFINE S == SearchState
  <2>1. n \in Nat /\ s \in S /\ G \in StepMaps(n, S)
    BY <1>1, <1>2
  <2> HIDE DEF G, n, S
  <2>2. \E f \in [0..n -> S] : Unrolls(f, n, s, G)
    BY <2>1, Recursion
  <2> QED BY <2>2 DEF S, Unrolls
<1>4. ASSUME NEW k \in 0..n, k # 0
      PROVE  G[<<k, f[k-1]>>] = Relate(ask, path, f[k-1], edges[n + 1 - k])
  <2>1. k \in 1..n /\ f[k-1] \in SearchState
    BY <1>1, <1>4
  <2> QED BY <2>1
<1>5. f = [k \in 0..n |-> IF k = 0 THEN s ELSE Relate(ask, path, f[k-1], edges[n + 1 - k])]
  <2> HIDE DEF G
  <2> QED BY <1>3, <1>4
<1>6. PICK g : /\ g = [k \in 0..n |-> IF k = 0 THEN s ELSE Relate(ask, path, g[k-1], edges[n + 1 - k])]
               /\ RelateAll(ask, path, s) = g[n]
  BY <1>5 DEF RelateAll
<1>7. /\ g[0] = s
      /\ \A k \in 1..n : g[k] = Relate(ask, path, g[k-1], edges[n + 1 - k])
  <2> HIDE DEF n
  <2> QED BY <1>1, <1>6
<1>8. \A k \in 0..n : g[k] \in SearchState
  <2> DEFINE T == {k \in 0..n : g[k] \in SearchState}
  <2>1. 0 \in T
    BY <1>1, <1>7
  <2>2. \A k \in 1..n : k - 1 \in T => k \in T
    BY <1>1, <1>7, RelateTyped
  <2> HIDE DEF T, n
  <2>3. 0..n \subseteq T
    BY <1>1, <2>1, <2>2, StepsTo
  <2> QED BY <2>3 DEF T
<1>9. g \in [0..n -> SearchState]
  <2> HIDE DEF n
  <2> QED BY <1>6, <1>8
<1> QED BY <1>6, <1>7, <1>9 DEF RelateEach

(* A memory is looked at: all its edges are followed, or the search ends. *)
LEMMA RelateAllKeeps ==
  ASSUME edges \in Seq(GEdge), NEW ask, ask.depth \in Nat, NEW n \in GNode,
         NEW open, open = InForce(ask), NEW p \in Way, Len(p) <= ask.depth,
         Last(p) \in Ball(ask, n, open, Len(p) - 1),
         NEW s, LooksAt(ask, n, open, p, s), NEW t, t = RelateAll(ask, p, s)
  PROVE  /\ t \in SearchState
         /\ \/ Gone(ask, n, open, t)
            \/ /\ t.over = "no" /\ Layered(ask, n, open, Len(p), {}, t)
               /\ FoundEach(ask, n, open, t) /\ Balance(t) = Balance(s)
<1> DEFINE size == Len(edges)
           Goes(x) == LooksAt(ask, n, open, p, x) /\ Balance(x) = Balance(s)
           Upto(x, k) == \A j \in 1..k : Handled(ask, open, p, x, edges[size + 1 - j])
<1>0. size \in Nat
  OBVIOUS
<1>1. PICK f \in [0..size -> SearchState] : RelateEach(ask, p, s, f)
  BY RelateAllIs DEF LooksAt
<1> DEFINE T == {k \in 0..size : Gone(ask, n, open, f[k]) \/ (Goes(f[k]) /\ Upto(f[k], k))}
<1>2. 0 \in T
  BY <1>0, <1>1 DEF RelateEach
<1>3. ASSUME NEW k \in 1..size, k - 1 \in T PROVE k \in T
  <2>1. PICK x \in SearchState : x = f[k-1]
    BY <1>1
  <2>2. PICK y : y = f[k] /\ y = Relate(ask, p, x, edges[size + 1 - k])
    BY <1>1, <2>1 DEF RelateEach
  <2>3. CASE Gone(ask, n, open, x)
    <3>1. y = x
      BY <2>2, <2>3 DEF Gone, Relate
    <3> HIDE DEF Goes, Upto
    <3> QED BY <2>1, <2>2, <2>3, <3>1
  <2>4. CASE Goes(x) /\ Upto(x, k - 1)
    <3>0. size + 1 - k \in 1..size
      BY <1>0
    <3>1. PICK i \in 1..size : i = size + 1 - k
      BY <3>0
    <3>3. \/ Gone(ask, n, open, y)
          \/ /\ LooksAt(ask, n, open, p, y) /\ x.visited \subseteq y.visited
             /\ Balance(y) = Balance(x)
             /\ Handled(ask, open, p, y, edges[i])
      <4>1. y = Relate(ask, p, x, edges[i]) /\ i \in 1..Len(edges) /\ LooksAt(ask, n, open, p, x)
        BY <2>2, <2>4, <3>1
      <4> HIDE DEF size, Goes, Upto
      <4> QED BY <4>1, RelateStep
    <3>4. ASSUME ~Gone(ask, n, open, y) PROVE Goes(y) /\ Upto(y, k)
      <4>1. Goes(y)
        BY <2>4, <3>3, <3>4
      <4>2. ASSUME NEW j \in 1..k PROVE Handled(ask, open, p, y, edges[size + 1 - j])
        <5>1. CASE j = k
          BY <3>1, <3>3, <3>4, <5>1
        <5>2. CASE j \in 1..(k - 1)
          <6>1. Handled(ask, open, p, x, edges[size + 1 - j])
            BY <2>4, <5>2
          <6> QED BY <3>3, <3>4, <6>1 DEF Handled
        <5> QED BY <5>1, <5>2
      <4> QED BY <4>1, <4>2
    <3> HIDE DEF Goes, Upto
    <3> QED BY <2>2, <3>4
  <2> QED BY <1>3, <2>1, <2>3, <2>4
<1>4. size \in T
  <2> HIDE DEF T, size
  <2>1. 0..size \subseteq T
    BY <1>0, <1>2, <1>3, StepsTo
  <2> QED BY <1>0, <2>1
<1>5. t = f[size] /\ t \in SearchState
  BY <1>0, <1>1 DEF RelateEach
<1>6. ASSUME Goes(t), Upto(t, size) PROVE Layered(ask, n, open, Len(p), {}, t)
  <2>1. ASSUME NEW y \in Beyond(ask, {Last(p)}), y \in open PROVE y \in t.visited
    <3>1. PICK i \in 1..size : Follows(ask, p, edges[i]) /\ OtherEnd(edges[i], Last(p)) = y
      BY BeyondIsFollowed
    <3>2. size + 1 - i \in 1..size /\ size + 1 - (size + 1 - i) = i
      BY <1>0
    <3>3. Handled(ask, open, p, t, edges[i])
      BY <1>6, <3>2
    <3> QED BY <2>1, <3>1, <3>3 DEF Handled
  <2>2. Settled(ask, open, t, Last(p))
    BY <2>1 DEF Settled
  <2> QED BY <1>6, <2>2, NothingNow DEF LooksAt
<1> QED BY <1>4, <1>5, <1>6 DEF LooksAt

(* Between two rounds of the outer loop. *)
Running(ask, n, open, s) ==
  /\ s \in SearchState /\ s.over = "no" /\ FoundEach(ask, n, open, s)
  /\ \E h \in Nat : Layered(ask, n, open, h, {}, s)

Ended(ask, s) == s.queue = <<>> \/ Enough(ask, s)

(* The inner loop makes a search of a search. *)
LEMMA RelateAllTyped ==
  ASSUME edges \in Seq(GEdge), NEW ask, NEW path \in Way, NEW s \in SearchState
  PROVE  RelateAll(ask, path, s) \in SearchState
<1>1. PICK f \in [0..Len(edges) -> SearchState] : RelateEach(ask, path, s, f)
  BY RelateAllIs
<1> QED BY <1>1 DEF RelateEach

(* So does a round of the outer loop. *)
LEMMA RelateNextTyped ==
  ASSUME edges \in Seq(GEdge), NEW ask, NEW s \in SearchState
  PROVE  RelateNext(ask, s) \in SearchState
<1> DEFINE rest == [s EXCEPT !.queue = Tail(@)]
<1>1. CASE s.queue = <<>>
  BY <1>1 DEF RelateNext
<1>2. CASE s.queue # <<>>
  <2>1. Head(s.queue) \in Way /\ Tail(s.queue) \in Seq(Way)
    BY <1>2 DEF SearchState
  <2>2. rest \in SearchState
    BY <2>1 DEF SearchState
  <2>3. RelateAll(ask, Head(s.queue), rest) \in SearchState
    BY <2>1, <2>2, RelateAllTyped
  <2> QED BY <2>2, <2>3 DEF RelateNext
<1> QED BY <1>1, <1>2

(* What was found does not depend on what is queued. *)
LEMMA FoundSame ==
  ASSUME NEW ask, NEW n, NEW open, NEW s, FoundEach(ask, n, open, s),
         NEW t, t.visited = s.visited, t.found = s.found
  PROVE  FoundEach(ask, n, open, t)
BY DEF FoundEach

(* A round ends the search, or keeps its layers and takes a path off.      *)
LEMMA RelateNextKeeps ==
  ASSUME edges \in Seq(GEdge), NEW ask, ask.depth \in Nat, NEW n \in GNode,
         NEW open, open = InForce(ask), NEW s, Running(ask, n, open, s), ~Ended(ask, s),
         NEW t, t = RelateNext(ask, s)
  PROVE  \/ Gone(ask, n, open, t)
         \/ Running(ask, n, open, t) /\ Balance(t) = Balance(s) + 1
<1>1. PICK h \in Nat : Layered(ask, n, open, h, {}, s)
  BY DEF Running
<1>2. PICK p : p = Head(s.queue)
  OBVIOUS
<1>3. PICK rest : rest = [s EXCEPT !.queue = Tail(@)]
  OBVIOUS
<1>4. s.queue \in Seq(Way) /\ s.queue # <<>> /\ s \in SearchState /\ s.over = "no"
  BY DEF Running, SearchState, Ended
<1>5. /\ rest \in SearchState /\ rest.queue = Tail(s.queue) /\ rest.visited = s.visited
      /\ rest.over = "no" /\ rest.found = s.found
  <2>1. Tail(s.queue) \in Seq(Way)
    BY <1>4
  <2> QED BY <1>3, <1>4, <2>1 DEF SearchState
<1>6. /\ p \in Way /\ Exact(ask, n, open, p) /\ Last(p) \in s.visited /\ Len(p) <= ask.depth + 1
      /\ Ball(ask, n, open, Len(p) - 1) \subseteq s.visited
      /\ Layered(ask, n, open, Len(p), {Last(p)}, rest)
  BY <1>1, <1>2, <1>4, <1>5, Popped
<1>7. PICK l \in Nat \ {0} : l = Len(p)
  BY <1>6, WayEnd
<1>8. FoundEach(ask, n, open, rest)
  <2>1. FoundEach(ask, n, open, s)
    BY DEF Running
  <2> QED BY <1>5, <2>1, FoundSame
<1>9. Balance(rest) = Balance(s) + 1
  <2>1. Len(rest.queue) = Len(s.queue) - 1 /\ Len(s.queue) \in Nat
    BY <1>4, <1>5
  <2>2. Cardinality(s.visited) \in Nat
    BY <1>4, FS_Subset, FS_CardinalityType, GraphAssumption DEF SearchState
  <2> QED BY <1>5, <2>1, <2>2 DEF Balance
<1>10. CASE Len(p) > ask.depth
  <2>1. t = rest
    BY <1>2, <1>3, <1>4, <1>10 DEF RelateNext, Ended
  <2>2. Len(p) - 2 = ask.depth - 1
    BY <1>6, <1>7, <1>10
  <2>3. Last(p) \notin Ball(ask, n, open, ask.depth - 1)
    BY <1>6, <2>2 DEF Exact
  <2>4. Layered(ask, n, open, Len(p), {}, t)
    BY <1>6, <2>1, <2>3, NothingNow
  <2> QED BY <1>5, <1>7, <1>8, <1>9, <2>1, <2>4 DEF Running
<1>11. CASE Len(p) <= ask.depth
  <2>1. t = RelateAll(ask, p, rest)
    BY <1>2, <1>3, <1>4, <1>7, <1>11 DEF RelateNext, Ended
  <2>2. LooksAt(ask, n, open, p, rest)
    BY <1>5, <1>6, <1>8 DEF LooksAt
  <2>3. Last(p) \in Ball(ask, n, open, Len(p) - 1)
    BY <1>6 DEF Exact
  <2>4. /\ t \in SearchState
        /\ \/ Gone(ask, n, open, t)
           \/ /\ t.over = "no" /\ Layered(ask, n, open, Len(p), {}, t)
              /\ FoundEach(ask, n, open, t) /\ Balance(t) = Balance(rest)
    BY <1>6, <1>11, <2>1, <2>2, <2>3, RelateAllKeeps
  <2> QED BY <1>7, <1>9, <2>4 DEF Running
<1> QED BY <1>6, <1>7, <1>10, <1>11

RelatedRounds(n, ask, f) ==
  /\ f[0] = Search(n)
  /\ \A k \in 1..Cardinality(GNode) : f[k] = RelateNext(ask, f[k-1])
  /\ FindRelatedMemories(n, ask) = f[Cardinality(GNode)]

(* A search starts as one. *)
LEMMA SearchTyped == \A n \in GNode : Search(n) \in SearchState
BY DEF Search, SearchState, Way

(* There are finitely many memories. *)
LEMMA NodeCount == Cardinality(GNode) \in Nat
BY FS_CardinalityType, GraphAssumption

(* The outer loop, round by round. *)
LEMMA RelatedRoundsAre ==
  ASSUME edges \in Seq(GEdge), NEW n \in GNode, NEW ask
  PROVE  \E f \in [0..Cardinality(GNode) -> SearchState] : RelatedRounds(n, ask, f)
<1> DEFINE size == Cardinality(GNode)
           G == [x \in (1..size) \X SearchState |-> RelateNext(ask, x[2])]
<1>1. size \in Nat /\ Search(n) \in SearchState
  BY NodeCount, SearchTyped
<1>2. G \in StepMaps(size, SearchState)
  BY RelateNextTyped DEF StepMaps
<1>3. PICK f \in [0..size -> SearchState] :
        f = [k \in 0..size |-> IF k = 0 THEN Search(n) ELSE G[<<k, f[k-1]>>]]
  <2> DEFINE S == SearchState
             s == Search(n)
  <2>1. size \in Nat /\ s \in S /\ G \in StepMaps(size, S)
    BY <1>1, <1>2
  <2> HIDE DEF G, size, S, s
  <2>2. \E f \in [0..size -> S] : Unrolls(f, size, s, G)
    BY <2>1, Recursion
  <2> QED BY <2>2 DEF S, s, Unrolls
<1> HIDE DEF size
<1>4. ASSUME NEW k \in 0..size, k # 0 PROVE G[<<k, f[k-1]>>] = RelateNext(ask, f[k-1])
  <2>1. k \in 1..size /\ f[k-1] \in SearchState
    BY <1>1, <1>4
  <2> QED BY <2>1
<1>5. f = [k \in 0..size |-> IF k = 0 THEN Search(n) ELSE RelateNext(ask, f[k-1])]
  <2> HIDE DEF G
  <2> QED BY <1>3, <1>4
<1>6. PICK g : /\ g = [k \in 0..size |-> IF k = 0 THEN Search(n) ELSE RelateNext(ask, g[k-1])]
               /\ FindRelatedMemories(n, ask) = g[size]
  BY <1>5 DEF FindRelatedMemories, size
<1>7. /\ g[0] = Search(n)
      /\ \A k \in 1..size : g[k] = RelateNext(ask, g[k-1])
  BY <1>1, <1>6
<1>8. \A k \in 0..size : g[k] \in SearchState
  <2> DEFINE T == {k \in 0..size : g[k] \in SearchState}
  <2>1. 0 \in T
    BY <1>1, <1>7
  <2>2. \A k \in 1..size : k - 1 \in T => k \in T
    BY <1>1, <1>7, RelateNextTyped
  <2> HIDE DEF T
  <2>3. 0..size \subseteq T
    BY <1>1, <2>1, <2>2, StepsTo
  <2> QED BY <2>3 DEF T
<1>9. g \in [0..size -> SearchState]
  BY <1>6, <1>8
<1> QED BY <1>6, <1>7, <1>9 DEF RelatedRounds, size

(* What findRelatedMemories returns: it fails at a memory that is gone and *)
(* near, or has found exact ways, and all of them unless it has enough.    *)
LEMMA RelatedFound ==
  ASSUME edges \in Seq(GEdge), NEW ask, ask.depth \in Nat, NEW n \in GNode,
         NEW open, open = InForce(ask), NEW s, s = FindRelatedMemories(n, ask)
  PROVE  /\ s \in SearchState
         /\ \/ Gone(ask, n, open, s)
            \/ /\ s.over = "no" /\ FoundEach(ask, n, open, s)
               /\ ~Enough(ask, s) => Ball(ask, n, open, ask.depth) \subseteq s.visited
<1> DEFINE size == Cardinality(GNode)
           Counted(x, k) == Ended(ask, x) \/ Balance(x) = k
<1>0. size \in Nat
  BY NodeCount
<1>1. PICK f \in [0..size -> SearchState] : RelatedRounds(n, ask, f)
  BY RelatedRoundsAre
<1> DEFINE T == {k \in 0..size : \/ Gone(ask, n, open, f[k])
                                 \/ Running(ask, n, open, f[k]) /\ Counted(f[k], k)}
<1> HIDE DEF size
<1>2. 0 \in T
  <2>1. PICK x : x = Search(n) /\ x = f[0]
    BY <1>1 DEF RelatedRounds
  <2>2. x.queue = <<<<n>>>> /\ x.visited = {n} /\ x.found = <<>> /\ x.over = "no"
    BY <2>1 DEF Search
  <2>3. Balance(x) = 0
    <3>1. Cardinality({n}) = 1 /\ Len(<<<<n>>>>) = 1
      BY FS_Singleton
    <3> QED BY <2>2, <3>1 DEF Balance
  <2>4. FoundEach(ask, n, open, x)
    BY <2>2 DEF FoundEach
  <2>5. Layered(ask, n, open, 1, {}, x)
    BY <2>1, SearchStarts
  <2>6. Running(ask, n, open, x)
    BY <2>1, <2>2, <2>4, <2>5, SearchTyped DEF Running
  <2> QED BY <1>0, <2>1, <2>3, <2>6
<1>3. ASSUME NEW k \in 1..size, k - 1 \in T PROVE k \in T
  <2>0. k - 1 \in 0..size /\ k \in 0..size
    BY <1>0
  <2>1. PICK x \in SearchState : x = f[k-1]
    BY <1>1, <2>0
  <2>2. PICK y : y = f[k] /\ y = RelateNext(ask, x)
    BY <1>1, <2>1 DEF RelatedRounds, size
  <2>3. CASE Gone(ask, n, open, x)
    <3>1. y = x
      BY <2>2, <2>3 DEF Gone, RelateNext
    <3> QED BY <2>0, <2>1, <2>2, <2>3, <3>1
  <2>4. CASE Running(ask, n, open, x) /\ Ended(ask, x)
    <3>1. y = x
      BY <2>2, <2>4 DEF Ended, RelateNext
    <3> QED BY <2>0, <2>1, <2>2, <2>4, <3>1
  <2>5. CASE Running(ask, n, open, x) /\ ~Ended(ask, x) /\ Balance(x) = k - 1
    <3>1. \/ Gone(ask, n, open, y)
          \/ Running(ask, n, open, y) /\ Balance(y) = Balance(x) + 1
      BY <2>2, <2>5, RelateNextKeeps
    <3>2. Balance(x) + 1 = k
      BY <1>0, <2>5
    <3> HIDE DEF Balance
    <3> QED BY <2>0, <2>2, <3>1, <3>2
  <2> QED BY <1>3, <2>1, <2>3, <2>4, <2>5
<1>4. size \in T
  <2> HIDE DEF T, size
  <2>1. 0..size \subseteq T
    BY <1>0, <1>2, <1>3, StepsTo
  <2> QED BY <1>0, <2>1
<1>5. s = f[size] /\ s \in SearchState
  BY <1>0, <1>1 DEF RelatedRounds, size
<1>6. ASSUME Running(ask, n, open, s), Counted(s, size), ~Enough(ask, s)
      PROVE  Ball(ask, n, open, ask.depth) \subseteq s.visited
  <2>1. PICK h \in Nat : Layered(ask, n, open, h, {}, s)
    BY <1>6 DEF Running
  <2>2. s.queue = <<>>
    <3>1. CASE Balance(s) = size
      <4>1. Cardinality(s.visited) <= size /\ Cardinality(s.visited) \in Nat
        BY <1>5, FS_Subset, FS_CardinalityType, GraphAssumption DEF SearchState, size
      <4>2. Len(s.queue) \in Nat /\ s.queue \in Seq(Way)
        BY <1>5 DEF SearchState
      <4>3. Len(s.queue) = 0
        BY <1>0, <3>1, <4>1, <4>2 DEF Balance
      <4> QED BY <4>2, <4>3
    <3> QED BY <1>6, <3>1 DEF Ended
  <2>3. \A i \in DOMAIN s.queue : Len(s.queue[i]) - 1 >= ask.depth
    BY <2>2
  <2>4. PICK d \in 0..ask.depth : d = ask.depth
    OBVIOUS
  <2> QED BY <2>1, <2>3, <2>4, Reached
<1> QED BY <1>4, <1>5, <1>6 DEF Running

(* The memories findRelatedMemories relates are the nearest ones. *)
LEMMA RelatedNearest == GraphInv => RelatedAreNearest
<1> SUFFICES ASSUME GraphInv, NEW n \in Shown, NEW ask \in RelatedAsks
             PROVE  LET s      == FindRelatedMemories(n, ask)
                        open   == {m \in Shown : ask.stale \/ ~Withdrawn(m)}
                        met    == {Last(path) : path \in Range(s.found)}
                        at(d)  == (Within(ask, n, open, d) \cap open) \ {n}
                    IN  IF s.over = "missing" THEN \E x \in Within(ask, n, open, ask.depth) : ~Visible(x)
                        ELSE /\ Cardinality(met) = Len(s.found) /\ met \subseteq at(ask.depth)
                             /\ \A path \in Range(s.found) :
                                  LET d == Len(path) - 1
                                  IN  Last(path) \notin at(d - 1) /\ at(d - 1) \subseteq met
                             /\ ~Enough(ask, s) => met = at(ask.depth)
  BY DEF RelatedAreNearest
<1>1. PICK s : s = FindRelatedMemories(n, ask)
  OBVIOUS
<1>2. PICK open : open = InForce(ask) /\ open = {m \in Shown : ask.stale \/ ~Withdrawn(m)}
  BY DEF InForce
<1>3. PICK found : found = s.found
  OBVIOUS
<1> DEFINE met == {Last(path) : path \in Range(found)}
           at(d) == (Within(ask, n, open, d) \cap open) \ {n}
           B(d) == Ball(ask, n, open, d)
<1>4. n \in GNode /\ edges \in Seq(GEdge) /\ ask.depth \in Nat
  BY GraphAssumption DEF Shown, GraphInv, RelatedAsks
<1>5. /\ s \in SearchState
      /\ \/ Gone(ask, n, open, s)
         \/ /\ s.over = "no" /\ FoundEach(ask, n, open, s)
            /\ ~Enough(ask, s) => B(ask.depth) \subseteq s.visited
  BY <1>1, <1>2, <1>4, RelatedFound
<1>6. CASE s.over = "missing"
  BY <1>1, <1>2, <1>5, <1>6 DEF Gone
<1>7. CASE s.over # "missing"
  <2>1. /\ FoundEach(ask, n, open, s)
        /\ ~Enough(ask, s) => B(ask.depth) \subseteq s.visited
    BY <1>5, <1>7 DEF Gone
  <2>2. found \in Seq(Way) /\ DOMAIN found = 1..Len(found) /\ Len(found) \in Nat
    BY <1>3, <1>5 DEF SearchState
  <2>3. met = {Last(found[i]) : i \in DOMAIN found}
    BY <2>2 DEF Range
  <2>4. /\ s.visited = {n} \cup met
        /\ \A i \in DOMAIN found :
             /\ Exact(ask, n, open, found[i]) /\ Last(found[i]) # n
             /\ Len(found[i]) \in 2..(ask.depth + 1)
             /\ B(Len(found[i]) - 2) \subseteq s.visited
        /\ \A i, j \in DOMAIN found : Last(found[i]) = Last(found[j]) => i = j
    BY <1>3, <2>1, <2>3 DEF FoundEach
  <2>5. \A d \in Nat : B(d) = at(d) \cup {n}
    <3>1. \A d \in Nat : B(d) = Passed(n, open, Within(ask, n, open, d)) /\ n \in B(d)
      BY <1>4, BallGrows DEF Ball
    <3> HIDE DEF B
    <3> QED BY <3>1 DEF Passed
  <2>6. n \notin met
    BY <2>3, <2>4
  <2>7. Cardinality(met) = Len(found)
    <3> DEFINE g == [i \in 1..Len(found) |-> Last(found[i])]
    <3>1. g \in Bijection(1..Len(found), met)
      BY <2>2, <2>3, <2>4 DEF Bijection, Injection, Surjection, IsInjective
    <3>2. ExistsBijection(1..Len(found), met)
      BY <3>1 DEF ExistsBijection
    <3>3. IsFiniteSet(1..Len(found)) /\ Cardinality(1..Len(found)) = Len(found)
      BY <2>2, FS_Interval
    <3> HIDE DEF met
    <3> QED BY <3>2, <3>3, FS_Bijection
  <2>8. ASSUME NEW i \in DOMAIN found
        PROVE  /\ Last(found[i]) \in at(ask.depth)
               /\ Last(found[i]) \notin at(Len(found[i]) - 1 - 1)
               /\ at(Len(found[i]) - 1 - 1) \subseteq met
    <3>1. PICK l \in 2..(ask.depth + 1) : l = Len(found[i])
      BY <2>4
    <3>2. Last(found[i]) \in B(l - 1) /\ Last(found[i]) \notin B(l - 2) /\ Last(found[i]) # n
      BY <2>4, <3>1 DEF Exact
    <3>3. PICK c \in Nat : c = l - 2
      <4>1. l - 2 \in Nat
        BY <1>4
      <4> QED BY <4>1
    <3>4. B(l - 1) \subseteq B(ask.depth)
      <4>1. l - 1 \in Int /\ ask.depth \in Int /\ l - 1 <= ask.depth
        BY <1>4
      <4> QED BY <1>4, <4>1, BallMonotone
    <3>5. Last(found[i]) \in at(ask.depth)
      <4> HIDE DEF B, at
      <4> QED BY <1>4, <2>5, <3>2, <3>4
    <3>6. Last(found[i]) \notin at(c) /\ at(c) \subseteq met
      <4>1. B(c) = at(c) \cup {n} /\ B(c) \subseteq {n} \cup met /\ Last(found[i]) \notin B(c)
        BY <2>4, <2>5, <3>1, <3>2, <3>3
      <4>2. n \notin at(c)
        OBVIOUS
      <4> HIDE DEF B, at, met
      <4> QED BY <4>1, <4>2
    <3>7. Len(found[i]) - 1 - 1 = c
      BY <3>1, <3>3
    <3> QED BY <3>5, <3>6, <3>7
  <2>9. met \subseteq at(ask.depth)
    <3> HIDE DEF at
    <3> QED BY <2>3, <2>8
  <2>10. \A path \in Range(found) :
           Last(path) \notin at(Len(path) - 1 - 1) /\ at(Len(path) - 1 - 1) \subseteq met
    <3>1. \A path \in Range(found) : \E i \in DOMAIN found : path = found[i]
      BY DEF Range
    <3> HIDE DEF at, met
    <3> QED BY <2>8, <3>1
  <2>11. ~Enough(ask, s) => met = at(ask.depth)
    <3>1. B(ask.depth) = at(ask.depth) \cup {n} /\ n \notin at(ask.depth)
      BY <1>4, <2>5
    <3> HIDE DEF at, met, B
    <3> QED BY <2>1, <2>4, <2>9, <3>1
  <2> QED BY <1>1, <1>2, <1>3, <1>7, <2>7, <2>9, <2>10, <2>11
<1> QED BY <1>6, <1>7

-----------------------------------------------------------------------------
(* explainRelationshipPath. *)

(* The goal is reached, on a way that is exact. *)
GoalFound(ask, n, s) ==
  /\ s.over = "found" /\ s.found \in Seq(Way) /\ Len(s.found) = 1
  /\ Len(s.found[1]) \in 2..(ask.depth + 1)
  /\ ask.goal \in Within(ask, n, GNode, ask.depth)
  /\ ask.goal \notin Within(ask, n, GNode, Len(s.found[1]) - 2)

(* A search for a goal looks at the end of a way. *)
LooksFor(ask, n, p, s) ==
  /\ s \in SearchState /\ s.over = "no" /\ Last(p) \in s.visited
  /\ Ball(ask, n, GNode, Len(p) - 1) \subseteq s.visited
  /\ Layered(ask, n, GNode, Len(p), {Last(p)}, s) /\ ask.goal \notin s.visited

(* One edge leaves a search of its type. *)
LEMMA ExtendTyped ==
  ASSUME NEW ask, NEW path \in Way, NEW s \in SearchState, NEW e \in GEdge
  PROVE  Extend(ask, path, s, e) \in SearchState
<1> DEFINE next == OtherEnd(e, Last(path))
           longer == Append(path, next)
<1>1. next \in GNode
  BY DEF OtherEnd, GEdge
<1>2. longer \in Way /\ Last(longer) = next
  BY <1>1, WayLonger
<1> HIDE DEF longer, next
<1>3. [s EXCEPT !.found = <<longer>>, !.over = "found"] \in SearchState
  <2>1. <<longer>> \in Seq(Way)
    BY <1>2
  <2> QED BY <2>1 DEF SearchState
<1>4. Append(s.queue, longer) \in Seq(Way)
  BY <1>2 DEF SearchState
<1>5. Take(s, longer) \in SearchState
  BY <1>1, <1>2, <1>4 DEF SearchState, Take
<1> QED BY <1>3, <1>5 DEF Extend, longer, next

(* What one edge does to a search for a goal that goes on. *)
LEMMA ExtendStep ==
  ASSUME edges \in Seq(GEdge), NEW ask, ask.depth \in Nat, NEW n \in GNode,
         NEW p \in Way, Len(p) <= ask.depth,
         Last(p) \in Ball(ask, n, GNode, Len(p) - 1),
         NEW s, LooksFor(ask, n, p, s),
         NEW i \in 1..Len(edges), NEW t, t = Extend(ask, p, s, edges[i])
  PROVE  \/ GoalFound(ask, n, t)
         \/ /\ LooksFor(ask, n, p, t) /\ s.visited \subseteq t.visited
            /\ Balance(t) = Balance(s)
            /\ Handled(ask, GNode, p, t, edges[i])
<1> DEFINE y == OtherEnd(edges[i], Last(p))
<1> USE DEF LooksFor
<1>1. t \in SearchState
  BY ExtendTyped
<1>2. CASE ~Follows(ask, p, edges[i]) \/ y \in s.visited
  <2>1. t = s
    BY <1>2 DEF Extend
  <2> QED BY <1>2, <2>1 DEF Handled
<1>3. CASE Follows(ask, p, edges[i]) /\ y \notin s.visited
  <2>1. y \in Beyond(ask, {Last(p)}) /\ y \in GNode
    <3>1. y # Last(p)
      BY <1>3
    <3>2. y \in Beyond(ask, {Last(p)})
      BY <1>3, <3>1, FollowedIsBeyond
    <3> QED BY <3>2 DEF Beyond
  <2> DEFINE longer == Append(p, y)
  <2>2. longer \in Way /\ Last(longer) = y /\ Len(longer) = Len(p) + 1
    BY <2>1, WayLonger
  <2>3. PICK l \in Nat \ {0} : l = Len(p)
    BY WayEnd
  <2>4. PICK c \in Nat : c = l - 1 /\ c + 1 = l
    <3>1. l - 1 \in Nat /\ (l - 1) + 1 = l
      OBVIOUS
    <3> QED BY <3>1
  <2> HIDE DEF y
  <2>5. CASE y = ask.goal
    <3>1. t = [s EXCEPT !.found = <<longer>>, !.over = "found"]
      BY <1>3, <2>5 DEF Extend, y
    <3> HIDE DEF longer
    <3>2. t.over = "found" /\ t.found = <<longer>> /\ Len(t.found) = 1 /\ t.found[1] = longer
      BY <3>1 DEF SearchState
    <3>3. <<longer>> \in Seq(Way)
      BY <2>2
    <3>4. y \in Within(ask, n, GNode, ask.depth)
      <4>1. Last(p) \in Ball(ask, n, GNode, c)
        BY <2>3, <2>4
      <4>2. y \in Within(ask, n, GNode, c + 1)
        BY <2>1, <4>1, BeyondBall
      <4> QED BY <2>3, <2>4, <4>2, WithinMonotone
    <3>5. y \notin Within(ask, n, GNode, c)
      <4>1. Ball(ask, n, GNode, c) = Passed(n, GNode, Within(ask, n, GNode, c))
        BY DEF Ball
      <4>2. Ball(ask, n, GNode, c) \subseteq s.visited
        BY <2>3, <2>4
      <4> QED BY <1>3, <2>1, <4>1, <4>2 DEF Passed
    <3>6. Len(longer) - 2 = c /\ Len(longer) \in 2..(ask.depth + 1)
      BY <2>2, <2>3, <2>4
    <3> QED BY <2>5, <3>2, <3>3, <3>4, <3>5, <3>6 DEF GoalFound
  <2>6. CASE y # ask.goal
    <3>1. t = Take(s, longer)
      BY <1>3, <2>6 DEF Extend, y
    <3> HIDE DEF longer
    <3>2. t.queue = Append(s.queue, longer) /\ t.visited = s.visited \cup {y} /\ t.over = "no"
      BY <2>2, <3>1 DEF Take, SearchState
    <3>3. Layered(ask, n, GNode, Len(p), {Last(p)}, t)
      BY <1>3, <2>1, <3>2, TakeKeeps DEF longer
    <3>4. Balance(t) = Balance(s)
      <4>1. IsFiniteSet(s.visited)
        <5>1. s.visited \in SUBSET GNode
          BY DEF SearchState
        <5> QED BY <5>1, FS_Subset, GraphAssumption
      <4>2. Cardinality(t.visited) = Cardinality(s.visited) + 1
        <5>1. PICK old : old = s.visited
          OBVIOUS
        <5>2. Cardinality(old \cup {y}) = IF y \in old THEN Cardinality(old) ELSE Cardinality(old) + 1
          BY <4>1, <5>1, FS_AddElement
        <5> QED BY <1>3, <3>2, <5>1, <5>2
      <4>3. Len(t.queue) = Len(s.queue) + 1 /\ Len(s.queue) \in Nat
        BY <2>2, <3>2 DEF SearchState
      <4>4. Cardinality(s.visited) \in Nat
        BY <4>1, FS_CardinalityType
      <4> QED BY <4>2, <4>3, <4>4 DEF Balance
    <3> QED BY <1>1, <2>6, <3>2, <3>3, <3>4 DEF y, Handled
  <2> QED BY <2>5, <2>6
<1> QED BY <1>2, <1>3

ExtendEach(ask, p, s, f) ==
  /\ f[0] = s
  /\ \A k \in 1..Len(edges) : f[k] = Extend(ask, p, f[k-1], edges[Len(edges) + 1 - k])
  /\ ExtendAll(ask, p, s) = f[Len(edges)]

(* The inner loop, edge by edge. *)
LEMMA ExtendAllIs ==
  ASSUME edges \in Seq(GEdge), NEW ask, NEW path \in Way, NEW s \in SearchState
  PROVE  \E f \in [0..Len(edges) -> SearchState] : ExtendEach(ask, path, s, f)
<1> DEFINE n == Len(edges)
           G == [x \in (1..n) \X SearchState |-> Extend(ask, path, x[2], edges[n + 1 - x[1]])]
<1>1. n \in Nat /\ \A k \in 1..n : edges[n + 1 - k] \in GEdge
  OBVIOUS
<1>2. G \in StepMaps(n, SearchState)
  BY <1>1, ExtendTyped DEF StepMaps
<1>3. PICK f \in [0..n -> SearchState] : f = [k \in 0..n |-> IF k = 0 THEN s ELSE G[<<k, f[k-1]>>]]
  <2> DEFINE S == SearchState
  <2>1. n \in Nat /\ s \in S /\ G \in StepMaps(n, S)
    BY <1>1, <1>2
  <2> HIDE DEF G, n, S
  <2>2. \E f \in [0..n -> S] : Unrolls(f, n, s, G)
    BY <2>1, Recursion
  <2> QED BY <2>2 DEF S, Unrolls
<1>4. ASSUME NEW k \in 0..n, k # 0
      PROVE  G[<<k, f[k-1]>>] = Extend(ask, path, f[k-1], edges[n + 1 - k])
  <2>1. k \in 1..n /\ f[k-1] \in SearchState
    BY <1>1, <1>4
  <2> QED BY <2>1
<1>5. f = [k \in 0..n |-> IF k = 0 THEN s ELSE Extend(ask, path, f[k-1], edges[n + 1 - k])]
  <2> HIDE DEF G
  <2> QED BY <1>3, <1>4
<1>6. PICK g : /\ g = [k \in 0..n |-> IF k = 0 THEN s ELSE Extend(ask, path, g[k-1], edges[n + 1 - k])]
               /\ ExtendAll(ask, path, s) = g[n]
  BY <1>5 DEF ExtendAll
<1>7. /\ g[0] = s
      /\ \A k \in 1..n : g[k] = Extend(ask, path, g[k-1], edges[n + 1 - k])
  <2> HIDE DEF n
  <2> QED BY <1>1, <1>6
<1>8. \A k \in 0..n : g[k] \in SearchState
  <2> DEFINE T == {k \in 0..n : g[k] \in SearchState}
  <2>1. 0 \in T
    BY <1>1, <1>7
  <2>2. \A k \in 1..n : k - 1 \in T => k \in T
    BY <1>1, <1>7, ExtendTyped
  <2> HIDE DEF T, n
  <2>3. 0..n \subseteq T
    BY <1>1, <2>1, <2>2, StepsTo
  <2> QED BY <2>3 DEF T
<1>9. g \in [0..n -> SearchState]
  <2> HIDE DEF n
  <2> QED BY <1>6, <1>8
<1> QED BY <1>6, <1>7, <1>9 DEF ExtendEach

(* A memory is looked at: all its edges are followed, or the goal is found. *)
LEMMA ExtendAllKeeps ==
  ASSUME edges \in Seq(GEdge), NEW ask, ask.depth \in Nat, NEW n \in GNode,
         NEW p \in Way, Len(p) <= ask.depth,
         Last(p) \in Ball(ask, n, GNode, Len(p) - 1),
         NEW s, LooksFor(ask, n, p, s), NEW t, t = ExtendAll(ask, p, s)
  PROVE  /\ t \in SearchState
         /\ \/ GoalFound(ask, n, t)
            \/ /\ t.over = "no" /\ Layered(ask, n, GNode, Len(p), {}, t)
               /\ ask.goal \notin t.visited /\ Balance(t) = Balance(s)
<1> DEFINE size == Len(edges)
           Goes(x) == LooksFor(ask, n, p, x) /\ Balance(x) = Balance(s)
           Upto(x, k) == \A j \in 1..k : Handled(ask, GNode, p, x, edges[size + 1 - j])
<1>0. size \in Nat
  OBVIOUS
<1>1. PICK f \in [0..size -> SearchState] : ExtendEach(ask, p, s, f)
  BY ExtendAllIs DEF LooksFor
<1> DEFINE T == {k \in 0..size : GoalFound(ask, n, f[k]) \/ (Goes(f[k]) /\ Upto(f[k], k))}
<1>2. 0 \in T
  BY <1>0, <1>1 DEF ExtendEach
<1>3. ASSUME NEW k \in 1..size, k - 1 \in T PROVE k \in T
  <2>1. PICK x \in SearchState : x = f[k-1]
    BY <1>1
  <2>2. PICK y : y = f[k] /\ y = Extend(ask, p, x, edges[size + 1 - k])
    BY <1>1, <2>1 DEF ExtendEach
  <2>3. CASE GoalFound(ask, n, x)
    <3>1. y = x
      BY <2>2, <2>3 DEF GoalFound, Extend
    <3>2. k \in 0..size /\ f[k] = x
      BY <1>0, <2>1, <2>2, <3>1
    <3> HIDE DEF Goes, Upto
    <3> QED BY <2>3, <3>2
  <2>4. CASE Goes(x) /\ Upto(x, k - 1)
    <3>0. size + 1 - k \in 1..size
      BY <1>0
    <3>1. PICK i \in 1..size : i = size + 1 - k
      BY <3>0
    <3>3. \/ GoalFound(ask, n, y)
          \/ /\ LooksFor(ask, n, p, y) /\ x.visited \subseteq y.visited
             /\ Balance(y) = Balance(x)
             /\ Handled(ask, GNode, p, y, edges[i])
      <4>1. y = Extend(ask, p, x, edges[i]) /\ i \in 1..Len(edges) /\ LooksFor(ask, n, p, x)
        BY <2>2, <2>4, <3>1
      <4> HIDE DEF size, Goes, Upto
      <4> QED BY <4>1, ExtendStep
    <3>4. ASSUME ~GoalFound(ask, n, y) PROVE Goes(y) /\ Upto(y, k)
      <4>1. Goes(y)
        BY <2>4, <3>3, <3>4
      <4>2. ASSUME NEW j \in 1..k PROVE Handled(ask, GNode, p, y, edges[size + 1 - j])
        <5>1. CASE j = k
          BY <3>1, <3>3, <3>4, <5>1
        <5>2. CASE j \in 1..(k - 1)
          <6>1. Handled(ask, GNode, p, x, edges[size + 1 - j])
            BY <2>4, <5>2
          <6> QED BY <3>3, <3>4, <6>1 DEF Handled
        <5> QED BY <5>1, <5>2
      <4> QED BY <4>1, <4>2
    <3> HIDE DEF Goes, Upto
    <3> QED BY <2>2, <3>4
  <2> QED BY <1>3, <2>1, <2>3, <2>4
<1>4. size \in T
  <2> HIDE DEF T, size
  <2>1. 0..size \subseteq T
    BY <1>0, <1>2, <1>3, StepsTo
  <2> QED BY <1>0, <2>1
<1>5. t = f[size] /\ t \in SearchState
  BY <1>0, <1>1 DEF ExtendEach
<1>6. ASSUME Goes(t), Upto(t, size) PROVE Layered(ask, n, GNode, Len(p), {}, t)
  <2>1. ASSUME NEW y \in Beyond(ask, {Last(p)}) PROVE y \in t.visited
    <3>1. PICK i \in 1..size : Follows(ask, p, edges[i]) /\ OtherEnd(edges[i], Last(p)) = y
      BY BeyondIsFollowed
    <3>2. size + 1 - i \in 1..size /\ size + 1 - (size + 1 - i) = i
      BY <1>0
    <3>3. Handled(ask, GNode, p, t, edges[i])
      BY <1>6, <3>2
    <3>4. y \in GNode
      BY <2>1 DEF Beyond
    <3> QED BY <3>1, <3>3, <3>4 DEF Handled
  <2>2. Settled(ask, GNode, t, Last(p))
    BY <2>1 DEF Settled
  <2> QED BY <1>6, <2>2, NothingNow DEF LooksFor
<1> QED BY <1>4, <1>5, <1>6 DEF LooksFor

(* Between two rounds of the outer loop. *)
Seeking(ask, n, s) ==
  /\ s \in SearchState /\ s.over = "no" /\ ask.goal \notin s.visited
  /\ \E h \in Nat : Layered(ask, n, GNode, h, {}, s)

(* The inner loop makes a search of a search. *)
LEMMA ExtendAllTyped ==
  ASSUME edges \in Seq(GEdge), NEW ask, NEW path \in Way, NEW s \in SearchState
  PROVE  ExtendAll(ask, path, s) \in SearchState
<1>1. PICK f \in [0..Len(edges) -> SearchState] : ExtendEach(ask, path, s, f)
  BY ExtendAllIs
<1> QED BY <1>1 DEF ExtendEach

(* So does a round of the outer loop. *)
LEMMA ExtendNextTyped ==
  ASSUME edges \in Seq(GEdge), NEW ask, NEW s \in SearchState
  PROVE  ExtendNext(ask, s) \in SearchState
<1> DEFINE rest == [s EXCEPT !.queue = Tail(@)]
<1>1. CASE s.queue = <<>>
  BY <1>1 DEF ExtendNext
<1>2. CASE s.queue # <<>>
  <2>1. Head(s.queue) \in Way /\ Tail(s.queue) \in Seq(Way)
    BY <1>2 DEF SearchState
  <2>2. rest \in SearchState /\ [s EXCEPT !.over = "missing"] \in SearchState
    BY <2>1 DEF SearchState
  <2>3. ExtendAll(ask, Head(s.queue), rest) \in SearchState
    BY <2>1, <2>2, ExtendAllTyped
  <2> QED BY <2>2, <2>3 DEF ExtendNext
<1> QED BY <1>1, <1>2

(* How a search for a goal ends before it has looked everywhere. *)
Stopped(ask, n, s) == Gone(ask, n, GNode, s) \/ GoalFound(ask, n, s)

(* A round ends the search, or keeps its layers and takes a path off.      *)
LEMMA ExtendNextKeeps ==
  ASSUME edges \in Seq(GEdge), NEW ask, ask.depth \in Nat, NEW n \in GNode,
         NEW s, Seeking(ask, n, s), s.queue # <<>>,
         NEW t, t = ExtendNext(ask, s)
  PROVE  \/ Stopped(ask, n, t)
         \/ Seeking(ask, n, t) /\ Balance(t) = Balance(s) + 1
<1>1. PICK h \in Nat : Layered(ask, n, GNode, h, {}, s)
  BY DEF Seeking
<1>2. PICK p : p = Head(s.queue)
  OBVIOUS
<1>3. PICK rest : rest = [s EXCEPT !.queue = Tail(@)]
  OBVIOUS
<1>4. s.queue \in Seq(Way) /\ s.queue # <<>> /\ s \in SearchState /\ s.over = "no"
  BY DEF Seeking, SearchState
<1>5. /\ rest \in SearchState /\ rest.queue = Tail(s.queue) /\ rest.visited = s.visited
      /\ rest.over = "no" /\ rest.found = s.found
  <2>1. Tail(s.queue) \in Seq(Way)
    BY <1>4
  <2> QED BY <1>3, <1>4, <2>1 DEF SearchState
<1>6. /\ p \in Way /\ Exact(ask, n, GNode, p) /\ Last(p) \in s.visited /\ Len(p) <= ask.depth + 1
      /\ Ball(ask, n, GNode, Len(p) - 1) \subseteq s.visited
      /\ Layered(ask, n, GNode, Len(p), {Last(p)}, rest)
  BY <1>1, <1>2, <1>4, <1>5, Popped
<1>7. PICK l \in Nat \ {0} : l = Len(p)
  BY <1>6, WayEnd
<1>8. ask.goal \notin rest.visited
  BY <1>5 DEF Seeking
<1>9. Balance(rest) = Balance(s) + 1
  <2>1. Len(rest.queue) = Len(s.queue) - 1 /\ Len(s.queue) \in Nat
    BY <1>4, <1>5
  <2>2. Cardinality(s.visited) \in Nat
    BY <1>4, FS_Subset, FS_CardinalityType, GraphAssumption DEF SearchState
  <2> QED BY <1>5, <2>1, <2>2 DEF Balance
<1>10. CASE Len(p) > ask.depth
  <2>1. t = rest
    BY <1>2, <1>3, <1>4, <1>10 DEF ExtendNext
  <2>2. Len(p) - 2 = ask.depth - 1
    BY <1>6, <1>7, <1>10
  <2>3. Last(p) \notin Ball(ask, n, GNode, ask.depth - 1)
    BY <1>6, <2>2 DEF Exact
  <2>4. Layered(ask, n, GNode, Len(p), {}, t)
    BY <1>6, <2>1, <2>3, NothingNow
  <2> QED BY <1>5, <1>7, <1>8, <1>9, <2>1, <2>4 DEF Seeking
<1>11. CASE Len(p) <= ask.depth /\ ~Visible(Last(p))
  <2>1. t.over = "missing"
    BY <1>2, <1>3, <1>4, <1>7, <1>11 DEF ExtendNext, SearchState
  <2>2. Last(p) \in Within(ask, n, GNode, ask.depth)
    <3>1. PICK c \in Nat : c = l - 1 /\ c <= ask.depth
      <4>1. l - 1 \in Nat /\ l - 1 <= ask.depth
        BY <1>7, <1>11
      <4> QED BY <4>1
    <3>2. Last(p) \in Ball(ask, n, GNode, c)
      BY <1>6, <1>7, <3>1 DEF Exact
    <3>3. Last(p) \in Within(ask, n, GNode, c)
      BY <3>2 DEF Ball, Passed
    <3> QED BY <3>1, <3>3, WithinMonotone
  <2> QED BY <1>11, <2>1, <2>2 DEF Stopped, Gone
<1>12. CASE Len(p) <= ask.depth /\ Visible(Last(p))
  <2>1. t = ExtendAll(ask, p, rest)
    BY <1>2, <1>3, <1>4, <1>7, <1>12 DEF ExtendNext
  <2>2. LooksFor(ask, n, p, rest)
    BY <1>5, <1>6, <1>8 DEF LooksFor
  <2>3. Last(p) \in Ball(ask, n, GNode, Len(p) - 1)
    BY <1>6 DEF Exact
  <2>4. /\ t \in SearchState
        /\ \/ GoalFound(ask, n, t)
           \/ /\ t.over = "no" /\ Layered(ask, n, GNode, Len(p), {}, t)
              /\ ask.goal \notin t.visited /\ Balance(t) = Balance(rest)
    BY <1>6, <1>12, <2>1, <2>2, <2>3, ExtendAllKeeps
  <2> QED BY <1>7, <1>9, <2>4 DEF Seeking, Stopped
<1> QED BY <1>6, <1>7, <1>10, <1>11, <1>12

ExplainRounds(n, ask, f) ==
  /\ f[0] = Search(n)
  /\ \A k \in 1..Cardinality(GNode) : f[k] = ExtendNext(ask, f[k-1])
  /\ ExplainRelationshipPath(n, ask) = f[Cardinality(GNode)]

(* The outer loop, round by round. *)
LEMMA ExplainRoundsAre ==
  ASSUME edges \in Seq(GEdge), NEW n \in GNode, NEW ask
  PROVE  \E f \in [0..Cardinality(GNode) -> SearchState] : ExplainRounds(n, ask, f)
<1> DEFINE size == Cardinality(GNode)
           G == [x \in (1..size) \X SearchState |-> ExtendNext(ask, x[2])]
<1>1. size \in Nat /\ Search(n) \in SearchState
  BY NodeCount, SearchTyped
<1>2. G \in StepMaps(size, SearchState)
  BY ExtendNextTyped DEF StepMaps
<1>3. PICK f \in [0..size -> SearchState] :
        f = [k \in 0..size |-> IF k = 0 THEN Search(n) ELSE G[<<k, f[k-1]>>]]
  <2> DEFINE S == SearchState
             s == Search(n)
  <2>1. size \in Nat /\ s \in S /\ G \in StepMaps(size, S)
    BY <1>1, <1>2
  <2> HIDE DEF G, size, S, s
  <2>2. \E f \in [0..size -> S] : Unrolls(f, size, s, G)
    BY <2>1, Recursion
  <2> QED BY <2>2 DEF S, s, Unrolls
<1> HIDE DEF size
<1>4. ASSUME NEW k \in 0..size, k # 0 PROVE G[<<k, f[k-1]>>] = ExtendNext(ask, f[k-1])
  <2>1. k \in 1..size /\ f[k-1] \in SearchState
    BY <1>1, <1>4
  <2> QED BY <2>1
<1>5. f = [k \in 0..size |-> IF k = 0 THEN Search(n) ELSE ExtendNext(ask, f[k-1])]
  <2> HIDE DEF G
  <2> QED BY <1>3, <1>4
<1>6. PICK g : /\ g = [k \in 0..size |-> IF k = 0 THEN Search(n) ELSE ExtendNext(ask, g[k-1])]
               /\ ExplainRelationshipPath(n, ask) = g[size]
  BY <1>5 DEF ExplainRelationshipPath, size
<1>7. /\ g[0] = Search(n)
      /\ \A k \in 1..size : g[k] = ExtendNext(ask, g[k-1])
  BY <1>1, <1>6
<1>8. \A k \in 0..size : g[k] \in SearchState
  <2> DEFINE T == {k \in 0..size : g[k] \in SearchState}
  <2>1. 0 \in T
    BY <1>1, <1>7
  <2>2. \A k \in 1..size : k - 1 \in T => k \in T
    BY <1>1, <1>7, ExtendNextTyped
  <2> HIDE DEF T
  <2>3. 0..size \subseteq T
    BY <1>1, <2>1, <2>2, StepsTo
  <2> QED BY <2>3 DEF T
<1>9. g \in [0..size -> SearchState]
  BY <1>6, <1>8
<1> QED BY <1>6, <1>7, <1>9 DEF ExplainRounds, size

(* What explainRelationshipPath returns: it fails at a memory that is gone *)
(* and near, or finds its goal on an exact way, or has looked everywhere.  *)
LEMMA PathFound ==
  ASSUME edges \in Seq(GEdge), NEW ask, ask.depth \in Nat, NEW n \in GNode,
         ask.goal # n, NEW s, s = ExplainRelationshipPath(n, ask)
  PROVE  /\ s \in SearchState
         /\ \/ Stopped(ask, n, s)
            \/ /\ s.over = "no" /\ ask.goal \notin s.visited
               /\ Ball(ask, n, GNode, ask.depth) \subseteq s.visited
<1> DEFINE size == Cardinality(GNode)
           Counted(x, k) == x.queue = <<>> \/ Balance(x) = k
<1>0. size \in Nat
  BY NodeCount
<1>1. PICK f \in [0..size -> SearchState] : ExplainRounds(n, ask, f)
  BY ExplainRoundsAre
<1> DEFINE T == {k \in 0..size : \/ Stopped(ask, n, f[k])
                                 \/ Seeking(ask, n, f[k]) /\ Counted(f[k], k)}
<1> HIDE DEF size
<1>2. 0 \in T
  <2>1. PICK x : x = Search(n) /\ x = f[0]
    BY <1>1 DEF ExplainRounds
  <2>2. x.queue = <<<<n>>>> /\ x.visited = {n} /\ x.found = <<>> /\ x.over = "no"
    BY <2>1 DEF Search
  <2>3. Balance(x) = 0
    <3>1. Cardinality({n}) = 1 /\ Len(<<<<n>>>>) = 1
      BY FS_Singleton
    <3> QED BY <2>2, <3>1 DEF Balance
  <2>4. ask.goal \notin x.visited
    BY <2>2
  <2>5. Layered(ask, n, GNode, 1, {}, x)
    BY <2>1, SearchStarts
  <2>6. Seeking(ask, n, x)
    BY <2>1, <2>2, <2>4, <2>5, SearchTyped DEF Seeking
  <2> QED BY <1>0, <2>1, <2>3, <2>6
<1>3. ASSUME NEW k \in 1..size, k - 1 \in T PROVE k \in T
  <2>0. k - 1 \in 0..size /\ k \in 0..size
    BY <1>0
  <2>1. PICK x \in SearchState : x = f[k-1]
    BY <1>1, <2>0
  <2>2. PICK y : y = f[k] /\ y = ExtendNext(ask, x)
    BY <1>1, <2>1 DEF ExplainRounds, size
  <2>3. CASE Stopped(ask, n, x)
    <3>1. y = x
      BY <2>2, <2>3 DEF Stopped, Gone, GoalFound, ExtendNext
    <3> QED BY <2>0, <2>1, <2>2, <2>3, <3>1
  <2>4. CASE Seeking(ask, n, x) /\ x.queue = <<>>
    <3>1. y = x
      BY <2>2, <2>4 DEF ExtendNext
    <3> QED BY <2>0, <2>1, <2>2, <2>4, <3>1
  <2>5. CASE Seeking(ask, n, x) /\ x.queue # <<>> /\ Balance(x) = k - 1
    <3>1. \/ Stopped(ask, n, y)
          \/ Seeking(ask, n, y) /\ Balance(y) = Balance(x) + 1
      BY <2>2, <2>5, ExtendNextKeeps
    <3>2. Balance(x) + 1 = k
      BY <1>0, <2>5
    <3> HIDE DEF Balance
    <3> QED BY <2>0, <2>2, <3>1, <3>2
  <2> QED BY <1>3, <2>1, <2>3, <2>4, <2>5
<1>4. size \in T
  <2> HIDE DEF T, size
  <2>1. 0..size \subseteq T
    BY <1>0, <1>2, <1>3, StepsTo
  <2> QED BY <1>0, <2>1
<1>5. s = f[size] /\ s \in SearchState
  BY <1>0, <1>1 DEF ExplainRounds, size
<1>6. ASSUME Seeking(ask, n, s), Counted(s, size)
      PROVE  Ball(ask, n, GNode, ask.depth) \subseteq s.visited
  <2>1. PICK h \in Nat : Layered(ask, n, GNode, h, {}, s)
    BY <1>6 DEF Seeking
  <2>2. s.queue = <<>>
    <3>1. CASE Balance(s) = size
      <4>1. Cardinality(s.visited) <= size /\ Cardinality(s.visited) \in Nat
        BY <1>5, FS_Subset, FS_CardinalityType, GraphAssumption DEF SearchState, size
      <4>2. Len(s.queue) \in Nat /\ s.queue \in Seq(Way)
        BY <1>5 DEF SearchState
      <4>3. Len(s.queue) = 0
        BY <1>0, <3>1, <4>1, <4>2 DEF Balance
      <4> QED BY <4>2, <4>3
    <3> QED BY <1>6, <3>1
  <2>3. \A i \in DOMAIN s.queue : Len(s.queue[i]) - 1 >= ask.depth
    BY <2>2
  <2>4. PICK d \in 0..ask.depth : d = ask.depth
    OBVIOUS
  <2> QED BY <2>1, <2>3, <2>4, Reached
<1> QED BY <1>4, <1>5, <1>6 DEF Seeking

(* A path explainRelationshipPath finds is a shortest one, and it finds    *)
(* one when there is one.                                                  *)
LEMMA PathsShortest == GraphInv => PathsAreShortest
<1> SUFFICES ASSUME GraphInv, NEW n \in Shown, NEW m \in Shown, NEW a \in PathAsks, n # m,
                    NEW ask, ask = [relations |-> a.relations, depth |-> a.depth, goal |-> m],
                    NEW s, s = ExplainRelationshipPath(n, ask)
             PROVE  LET near == Within(ask, n, GNode, ask.depth)
                    IN  /\ s.over = "found" => /\ m \in near
                                               /\ m \notin Within(ask, n, GNode, Len(s.found[1]) - 2)
                        /\ s.over = "no" => m \notin near
                        /\ s.over = "missing" => \E x \in near : ~Visible(x)
  BY DEF PathsAreShortest
<1>1. n \in GNode /\ m \in GNode /\ edges \in Seq(GEdge) /\ ask.depth \in Nat /\ ask.goal = m
  BY GraphAssumption DEF Shown, GraphInv, PathAsks
<1>2. \/ Stopped(ask, n, s)
      \/ /\ s.over = "no" /\ m \notin s.visited
         /\ Ball(ask, n, GNode, ask.depth) \subseteq s.visited
  BY <1>1, PathFound
<1>3. m \notin s.visited /\ Ball(ask, n, GNode, ask.depth) \subseteq s.visited
        => m \notin Within(ask, n, GNode, ask.depth)
  BY <1>1 DEF Ball, Passed
<1> QED BY <1>1, <1>2, <1>3 DEF Stopped, Gone, GoalFound

(***************************************************************************)
(* Recall.                                                                 *)
(***************************************************************************)

RecallSpec == RecallInit /\ [][RecallNext]_recallVars

AskRow == [at : {"idle", "files", "embed", "results", "risky", "answered", "failed"},
           kind : {"none", "recall", "brief", "grep", "hybrid"},
           options : Options \cup {NoNode}, results : Seq(GNode), taken : Nat,
           related : SUBSET GNode, left : SUBSET Source, grepped : SUBSET Source,
           avoid : SUBSET GNode]

(* An ask has gathered no more results than it has, and none before it has *)
(* scored.                                                                 *)
AskOK(r) ==
  /\ r \in AskRow /\ r.taken <= Len(r.results)
  /\ r.at = "idle" => r = NoAsk
  /\ r.at \in {"files", "embed"} => r.taken = 0

WithheldRow == [rejected : SUBSET GNode, stale : SUBSET GNode, candidate : SUBSET GNode,
                files : SUBSET Source]

NoMoreThan(x, y) == /\ x.rejected \subseteq y.rejected /\ x.stale \subseteq y.stale
                 /\ x.candidate \subseteq y.candidate /\ x.files \subseteq y.files

(* What WithdrawnIsNotRecalled says of one ask, answered or not. *)
Clean(r, gone) ==
  /\ ~r.options.rejected => Range(r.results) \cap (gone.rejected \cup gone.candidate) = {}
  /\ r.kind = "brief" => Range(r.results) \cap gone.rejected = {}
  /\ ~r.options.stale => /\ Range(r.results) \cap gone.stale = {}
                         /\ r.related \cap (gone.rejected \cup gone.stale) = {}
                         /\ r.grepped \cap gone.files = {}

RecallInv ==
  /\ GraphInv
  /\ asks \in [Asker -> AskRow] /\ \A a \in Asker : AskOK(asks[a])
  /\ asked \in 0..MaxAsks /\ Len(health) <= 1
  /\ since \in [Asker -> WithheldRow] /\ \A a \in Asker : NoMoreThan(since[a], Withheld)

AllClean == \A a \in Asker : Clean(asks[a], since[a])

(* What is withheld are memories and files. *)
LEMMA WithheldTyped == sources \subseteq Source => Withheld \in WithheldRow
BY DEF Withheld, WithheldRow, Shown

(* An ask with nothing to answer is clean, and so is one for which less is *)
(* withheld.                                                               *)
LEMMA BlankClean ==
  ASSUME NEW r, r.results = <<>>, r.related = {}, r.grepped = {}, NEW gone
  PROVE  Clean(r, gone)
<1>1. Range(<<>>) = {}
  BY DEF Range
<1> QED BY <1>1 DEF Clean

(* An ask is clean of less if it is clean of more. *)
LEMMA FewerClean ==
  ASSUME NEW r, NEW gone, Clean(r, gone), NEW less, NoMoreThan(less, gone)
  PROVE  Clean(r, less)
<1>1. Range(r.results) \cap (gone.rejected \cup gone.candidate) = {}
        => Range(r.results) \cap (less.rejected \cup less.candidate) = {}
  BY DEF NoMoreThan
<1>2. Range(r.results) \cap gone.rejected = {} => Range(r.results) \cap less.rejected = {}
  BY DEF NoMoreThan
<1>3. Range(r.results) \cap gone.stale = {} => Range(r.results) \cap less.stale = {}
  BY DEF NoMoreThan
<1>4. r.related \cap (gone.rejected \cup gone.stale) = {} => r.related \cap (less.rejected \cup less.stale) = {}
  BY DEF NoMoreThan
<1>5. r.grepped \cap gone.files = {} => r.grepped \cap less.files = {}
  BY DEF NoMoreThan
<1> QED BY <1>1, <1>2, <1>3, <1>4, <1>5 DEF Clean

(* What KeepHistory makes of what was withheld from an ask. *)
LEMMA HistoryFewer ==
  ASSUME NEW old \in WithheldRow, NEW new \in WithheldRow,
         NEW kept, kept = [k \in DOMAIN old |-> old[k] \cap new[k]]
  PROVE  kept \in WithheldRow /\ NoMoreThan(kept, old) /\ NoMoreThan(kept, new)
<1>1. DOMAIN old = {"rejected", "stale", "candidate", "files"}
  BY DEF WithheldRow
<1>2. /\ kept.rejected = old.rejected \cap new.rejected /\ kept.stale = old.stale \cap new.stale
      /\ kept.candidate = old.candidate \cap new.candidate /\ kept.files = old.files \cap new.files
  BY <1>1
<1>3. kept = [rejected |-> old.rejected \cap new.rejected, stale |-> old.stale \cap new.stale,
              candidate |-> old.candidate \cap new.candidate, files |-> old.files \cap new.files]
  BY <1>1
<1>4. kept \in WithheldRow
  <2>1. PICK a \in SUBSET GNode, b \in SUBSET GNode, c \in SUBSET GNode, d \in SUBSET Source :
          kept = [rejected |-> a, stale |-> b, candidate |-> c, files |-> d]
    BY <1>3 DEF WithheldRow
  <2> QED BY <2>1 DEF WithheldRow
<1> QED BY <1>2, <1>4 DEF NoMoreThan

(* The memories around a result are in force, or the ask wants stale ones. *)
LEMMA NeighboursInForce ==
  ASSUME GraphInv, NEW n \in GNode, NEW o, NEW s, s = Neighbours(n, o)
  PROVE  /\ s \in SearchState
         /\ s.over # "missing" =>
              \A x \in {Last(p) : p \in Range(s.found)} :
                 x \in Shown /\ (o.stale \/ ~Withdrawn(x))
<1>1. PICK ask : ask = [relations |-> AnyRelation, depth |-> 1, limit |-> 8, stale |-> o.stale]
  OBVIOUS
<1>2. ask.depth \in Nat /\ ask.stale = o.stale /\ edges \in Seq(GEdge)
  BY <1>1 DEF GraphInv
<1>3. PICK open : open = InForce(ask)
  OBVIOUS
<1>4. /\ s \in SearchState
      /\ Gone(ask, n, open, s) \/ FoundEach(ask, n, open, s)
  <2>1. s = FindRelatedMemories(n, ask)
    BY <1>1 DEF Neighbours
  <2> QED BY <1>2, <1>3, <2>1, RelatedFound
<1>5. s.over # "missing" => \A i \in DOMAIN s.found : Last(s.found[i]) \in InForce(ask)
  BY <1>3, <1>4 DEF Gone, FoundEach
<1>6. \A p \in Range(s.found) : \E i \in DOMAIN s.found : p = s.found[i]
  BY DEF Range
<1> HIDE DEF Last
<1> QED BY <1>2, <1>4, <1>5, <1>6 DEF InForce

(* What gathering results leaves of an ask. *)
Gathered(r, x, k) ==
  /\ x \in AskRow /\ x.at \in {r.at, "failed"}
  /\ x.kind = r.kind /\ x.options = r.options /\ x.results = r.results
  /\ x.left = r.left /\ x.grepped = r.grepped /\ x.avoid = r.avoid
  /\ x.taken \in r.taken..(r.taken + k)
  /\ \A m \in x.related \ r.related : m \in Shown /\ (r.options.stale \/ ~Withdrawn(m))

(* Gathering a result makes an ask of an ask. *)
LEMMA GatherTyped ==
  ASSUME GraphInv, NEW x \in AskRow, NEW n \in GNode
  PROVE  Gather(x, n) \in AskRow
<1>1. PICK s : s = Neighbours(n, x.options)
  OBVIOUS
<1>2. [x EXCEPT !.at = "failed"] \in AskRow
  BY DEF AskRow
<1>3. CASE s.over # "missing"
  <2>1. {Last(p) : p \in Range(s.found)} \subseteq GNode
    BY <1>1, <1>3, NeighboursInForce DEF Shown
  <2>2. PICK more \in SUBSET GNode : more = {Last(p) : p \in Range(s.found)}
    BY <2>1
  <2>3. [x EXCEPT !.taken = @ + 1, !.related = @ \cup more] \in AskRow
    <3>1. x.related \cup more \in SUBSET GNode /\ x.taken + 1 \in Nat
      BY DEF AskRow
    <3> QED BY <3>1 DEF AskRow
  <2> QED BY <1>1, <1>2, <2>2, <2>3 DEF Gather
<1>4. CASE s.over = "missing"
  BY <1>1, <1>2, <1>4 DEF Gather
<1> QED BY <1>3, <1>4

(* One more result gathered. *)
LEMMA GatherOne ==
  ASSUME GraphInv, NEW r \in AskRow, NEW k \in Nat, NEW x, Gathered(r, x, k), NEW n \in GNode,
         NEW y, y = Gather(x, n)
  PROVE  Gathered(r, y, k + 1)
<1>1. PICK s : s = Neighbours(n, x.options)
  OBVIOUS
<1>2. y \in AskRow /\ x \in AskRow
  BY GatherTyped DEF Gathered
<1>3. x.taken \in r.taken..(r.taken + (k + 1))
  BY DEF Gathered, AskRow
<1>4. CASE y = x
  BY <1>3, <1>4 DEF Gathered
<1>6. CASE y = [x EXCEPT !.at = "failed"]
  <2>1. /\ y.taken = x.taken /\ y.related = x.related /\ y.at = "failed"
        /\ y.kind = x.kind /\ y.options = x.options /\ y.results = x.results
        /\ y.left = x.left /\ y.grepped = x.grepped /\ y.avoid = x.avoid
    BY <1>2, <1>6 DEF AskRow
  <2> QED BY <1>2, <1>3, <2>1 DEF Gathered
<1>5. CASE s.over # "missing" /\ y = [x EXCEPT !.taken = @ + 1, !.related = @ \cup {Last(p) : p \in Range(s.found)}]
  <2>1. PICK more : /\ more = {Last(p) : p \in Range(s.found)}
                    /\ \A m \in more : m \in Shown /\ (x.options.stale \/ ~Withdrawn(m))
    BY <1>1, <1>5, NeighboursInForce
  <2>2. /\ y.taken = x.taken + 1 /\ y.related = x.related \cup more
        /\ y.at = x.at /\ y.kind = x.kind /\ y.options = x.options /\ y.results = x.results
        /\ y.left = x.left /\ y.grepped = x.grepped /\ y.avoid = x.avoid
    BY <1>2, <1>5, <2>1 DEF AskRow
  <2>3. r.taken \in Nat /\ y.taken \in r.taken..(r.taken + (k + 1))
    BY <2>2 DEF Gathered, AskRow
  <2>4. \A m \in y.related \ r.related : m \in Shown /\ (r.options.stale \/ ~Withdrawn(m))
    BY <2>1, <2>2 DEF Gathered
  <2> QED BY <1>2, <2>2, <2>3, <2>4 DEF Gathered
<1> QED BY <1>1, <1>4, <1>5, <1>6 DEF Gather

GatherEach(r, count, f) ==
  /\ f[0] = r
  /\ \A k \in 1..count : f[k] = Gather(f[k-1], r.results[r.taken + k])
  /\ GatherNext(r, count) = f[count]

(* The results that are gathered, one after the other. *)
LEMMA GatherNextIs ==
  ASSUME GraphInv, NEW r \in AskRow, NEW count \in Nat, r.taken + count <= Len(r.results)
  PROVE  \E f \in [0..count -> AskRow] : GatherEach(r, count, f)
<1> DEFINE G == [x \in (1..count) \X AskRow |-> Gather(x[2], r.results[r.taken + x[1]])]
<1>1. \A k \in 1..count : r.results[r.taken + k] \in GNode
  <2>1. r.results \in Seq(GNode) /\ r.taken \in Nat
    BY DEF AskRow
  <2> QED BY <2>1
<1>2. G \in StepMaps(count, AskRow)
  BY <1>1, GatherTyped DEF StepMaps
<1>3. PICK f \in [0..count -> AskRow] : f = [k \in 0..count |-> IF k = 0 THEN r ELSE G[<<k, f[k-1]>>]]
  <2> DEFINE S == AskRow
  <2>1. r \in S /\ G \in StepMaps(count, S)
    BY <1>2
  <2> HIDE DEF G, S
  <2>2. \E f \in [0..count -> S] : Unrolls(f, count, r, G)
    BY <2>1, Recursion
  <2> QED BY <2>2 DEF S, Unrolls
<1>4. ASSUME NEW k \in 0..count, k # 0
      PROVE  G[<<k, f[k-1]>>] = Gather(f[k-1], r.results[r.taken + k])
  <2>1. k \in 1..count /\ f[k-1] \in AskRow
    BY <1>4
  <2> QED BY <2>1
<1>5. f = [k \in 0..count |-> IF k = 0 THEN r ELSE Gather(f[k-1], r.results[r.taken + k])]
  <2> HIDE DEF G
  <2> QED BY <1>3, <1>4
<1>6. PICK g : /\ g = [k \in 0..count |-> IF k = 0 THEN r ELSE Gather(g[k-1], r.results[r.taken + k])]
               /\ GatherNext(r, count) = g[count]
  BY <1>5 DEF GatherNext
<1>7. /\ g[0] = r
      /\ \A k \in 1..count : g[k] = Gather(g[k-1], r.results[r.taken + k])
  BY <1>6
<1>8. \A k \in 0..count : g[k] \in AskRow
  <2> DEFINE T == {k \in 0..count : g[k] \in AskRow}
  <2>1. 0 \in T
    BY <1>7
  <2>2. \A k \in 1..count : k - 1 \in T => k \in T
    BY <1>1, <1>7, GatherTyped
  <2> HIDE DEF T
  <2>3. 0..count \subseteq T
    BY <2>1, <2>2, StepsTo
  <2> QED BY <2>3 DEF T
<1>9. g \in [0..count -> AskRow]
  BY <1>6, <1>8
<1> QED BY <1>6, <1>7, <1>9 DEF GatherEach

(* Any number of results gathered. *)
LEMMA GatherSome ==
  ASSUME GraphInv, NEW r \in AskRow, NEW count \in Nat, r.taken + count <= Len(r.results)
  PROVE  Gathered(r, GatherNext(r, count), count)
<1>1. PICK f \in [0..count -> AskRow] : GatherEach(r, count, f)
  BY GatherNextIs
<1> DEFINE T == {k \in 0..count : Gathered(r, f[k], k)}
<1>2. 0 \in T
  <2>1. Gathered(r, r, 0)
    BY DEF Gathered, AskRow
  <2> QED BY <1>1, <2>1 DEF GatherEach
<1>3. ASSUME NEW k \in 1..count, k - 1 \in T PROVE k \in T
  <2>1. PICK c \in Nat : c = k - 1 /\ c + 1 = k
    <3>1. k - 1 \in Nat /\ (k - 1) + 1 = k
      OBVIOUS
    <3> QED BY <3>1
  <2>2. PICK n \in GNode : n = r.results[r.taken + k]
    <3>1. r.results \in Seq(GNode) /\ r.taken \in Nat
      BY DEF AskRow
    <3> QED BY <3>1
  <2>3. f[k] = Gather(f[c], n) /\ Gathered(r, f[c], c)
    BY <1>1, <1>3, <2>1, <2>2 DEF GatherEach
  <2>4. Gathered(r, f[k], c + 1)
    BY <2>3, GatherOne
  <2> QED BY <2>1, <2>4
<1>4. 0..count \subseteq T
  <2> HIDE DEF T
  <2> QED BY <1>2, <1>3, StepsTo
<1> QED BY <1>1, <1>4 DEF GatherEach

(* What one ask's step makes of it: a new ask is blank, and what another   *)
(* step adds is clean.                                                     *)
Continues(a) == asks'[a].at # "idle" /\ asked' = asked /\ Clean(asks'[a], since[a])

Begins(a) == /\ asked' = asked + 1 /\ asked < MaxAsks
             /\ asks'[a].results = <<>> /\ asks'[a].related = {} /\ asks'[a].grepped = {}

(* An ask starts blank. *)
LEMMA AskKeeps ==
  ASSUME RecallInv, NEW a \in Asker, NEW kind \in {"recall", "brief", "grep", "hybrid"},
         NEW o \in Options, Ask(a, kind, o)
  PROVE  Begins(a) /\ AskOK(asks'[a]) /\ asks' = [asks EXCEPT ![a] = asks'[a]]
<1>1. NoAsk \in AskRow
  BY DEF NoAsk, AskRow
<1>2. PICK r : r = Starting(kind, o) /\ asks' = [asks EXCEPT ![a] = r]
  BY DEF Ask, SetAsk
<1>3. /\ r \in AskRow /\ r.results = <<>> /\ r.taken = 0 /\ r.related = {} /\ r.grepped = {}
      /\ r.at # "idle"
  BY <1>1, <1>2 DEF Starting, AskRow, NoAsk, RecallInv, GraphInv
<1>4. asks'[a] = r
  BY <1>2 DEF RecallInv
<1>5. Begins(a)
  BY <1>3, <1>4 DEF Begins, Ask
<1>6. AskOK(r)
  <2>1. Len(<<>>) = 0
    OBVIOUS
  <2> QED BY <1>3, <2>1 DEF AskOK
<1> QED BY <1>2, <1>4, <1>5, <1>6

(* An ask that fails answers nothing more. *)
LEMMA FailKeeps ==
  ASSUME RecallInv, AllClean, NEW a \in Asker, Fail(a), asked' = asked
  PROVE  Continues(a) /\ AskOK(asks'[a]) /\ asks' = [asks EXCEPT ![a] = asks'[a]]
<1>1. PICK r \in AskRow : r = asks[a] /\ AskOK(r) /\ Clean(r, since[a])
  BY DEF RecallInv, AllClean
<1>2. PICK x : x = [r EXCEPT !.at = "failed"]
  OBVIOUS
<1>3. asks' = [asks EXCEPT ![a] = x] /\ asks'[a] = x
  BY <1>1, <1>2 DEF Fail, SetAsk, RecallInv
<1>4. /\ x \in AskRow /\ x.at = "failed" /\ x.results = r.results /\ x.related = r.related
      /\ x.grepped = r.grepped /\ x.options = r.options /\ x.kind = r.kind /\ x.taken = r.taken
  BY <1>2 DEF AskRow
<1>5. Clean(x, since[a])
  BY <1>1, <1>4 DEF Clean
<1> QED BY <1>1, <1>3, <1>4, <1>5 DEF Continues, AskOK

(* The same for a step that changes nothing an ask answers. *)
LEMMA SameAnswer ==
  ASSUME NEW r, NEW x, NEW gone, Clean(r, gone), x.results = r.results, x.related = r.related,
         x.grepped = r.grepped, x.options = r.options, x.kind = r.kind
  PROVE  Clean(x, gone)
BY DEF Clean

(* A grep adds files to an ask, and nothing else that it answers. *)
Grepped(r, x, more) ==
  /\ r.at = "files" /\ x \in AskRow /\ x.at # "idle"
  /\ x.results = r.results /\ x.related = r.related /\ x.options = r.options
  /\ x.kind = r.kind /\ x.taken = r.taken /\ x.grepped = r.grepped \cup more

(* Files added that are not stale keep it clean. *)
LEMMA GreppedKeeps ==
  ASSUME RecallInv, AllClean, NEW a \in Asker, NEW x, NEW more, Grepped(asks[a], x, more),
         SetAsk(a, x), asked' = asked,
         more \subseteq sources, ~asks[a].options.stale => \A f \in more : ~OnlyStale(f)
  PROVE  Continues(a) /\ AskOK(asks'[a]) /\ asks' = [asks EXCEPT ![a] = asks'[a]]
<1>1. PICK r \in AskRow : r = asks[a] /\ AskOK(r) /\ Clean(r, since[a])
  BY DEF RecallInv, AllClean
<1>2. Grepped(r, x, more)
  BY <1>1
<1>3. ~r.options.stale => more \cap since[a].files = {}
  <2>1. since[a].files \subseteq Withheld.files
    BY DEF RecallInv, NoMoreThan
  <2>2. Withheld.files = {f \in sources : OnlyStale(f)}
    BY DEF Withheld
  <2> QED BY <1>1, <2>1, <2>2
<1>4. Clean(x, since[a])
  <2>1. ~x.options.stale => x.grepped \cap since[a].files = {}
    BY <1>1, <1>2, <1>3 DEF Clean, Grepped
  <2> QED BY <1>1, <1>2, <2>1 DEF Clean, Grepped
<1>5. asks' = [asks EXCEPT ![a] = x] /\ asks'[a] = x
  BY DEF SetAsk, RecallInv
<1>6. AskOK(x)
  BY <1>1, <1>2 DEF AskOK, Grepped
<1>7. x.at # "idle"
  BY <1>2 DEF Grepped
<1> QED BY <1>4, <1>5, <1>6, <1>7 DEF Continues

(* Grepping adds no such file. *)
LEMMA GrepKeeps ==
  ASSUME RecallInv, AllClean, NEW a \in Asker,
         (\E f \in Source : GrepFile(a, f)) \/ GrepExtracted(a)
  PROVE  Continues(a) /\ AskOK(asks'[a]) /\ asks' = [asks EXCEPT ![a] = asks'[a]]
<1>1. PICK r \in AskRow : r = asks[a]
  BY DEF RecallInv
<1>2. asked' = asked
  BY DEF GrepFile, GrepExtracted
<1>3. CASE Fail(a)
  BY <1>2, <1>3, FailKeeps
<1>4. ASSUME NEW f \in Source, GrepFile(a, f), OnlyStale(f) /\ ~r.options.stale
      PROVE  Continues(a) /\ AskOK(asks'[a]) /\ asks' = [asks EXCEPT ![a] = asks'[a]]
  <2>1. PICK x : x = [r EXCEPT !.left = @ \ {f}] /\ SetAsk(a, x)
    BY <1>1, <1>4 DEF GrepFile
  <2>2. r.at = "files" /\ r.left \ {f} \in SUBSET Source
    BY <1>1, <1>4 DEF AskRow, GrepFile
  <2>3. PICK more : more = {}
    OBVIOUS
  <2>4. Grepped(r, x, more)
    BY <2>1, <2>2, <2>3 DEF AskRow, Grepped
  <2>5. more \subseteq sources /\ (~asks[a].options.stale => \A g \in more : ~OnlyStale(g))
    BY <2>3
  <2> QED BY <1>1, <1>2, <2>1, <2>4, <2>5, GreppedKeeps
<1>5. ASSUME NEW f \in Source, GrepFile(a, f), ~(OnlyStale(f) /\ ~r.options.stale), f \in sources
      PROVE  Continues(a) /\ AskOK(asks'[a]) /\ asks' = [asks EXCEPT ![a] = asks'[a]]
  <2>1. PICK x : x = [r EXCEPT !.left = @ \ {f}, !.grepped = @ \cup {f}] /\ SetAsk(a, x)
    BY <1>1, <1>5 DEF GrepFile
  <2>2. r.at = "files" /\ r.left \ {f} \in SUBSET Source /\ r.grepped \cup {f} \in SUBSET Source
    BY <1>1, <1>5 DEF AskRow, GrepFile
  <2>3. PICK more : more = {f}
    OBVIOUS
  <2>4. Grepped(r, x, more)
    BY <2>1, <2>2, <2>3 DEF AskRow, Grepped
  <2>5. more \subseteq sources /\ (~asks[a].options.stale => \A g \in more : ~OnlyStale(g))
    BY <1>1, <1>5, <2>3
  <2> QED BY <1>1, <1>2, <2>1, <2>4, <2>5, GreppedKeeps
<1>6. ASSUME GrepExtracted(a), extracted \subseteq sources, r.at = "files"
      PROVE  Continues(a) /\ AskOK(asks'[a]) /\ asks' = [asks EXCEPT ![a] = asks'[a]]
  <2>1. PICK more, at : /\ more = {f \in extracted : r.options.stale \/ ~OnlyStale(f)}
                        /\ at = IF r.kind = "hybrid" THEN "embed" ELSE "answered"
    OBVIOUS
  <2>2. PICK x : x = [r EXCEPT !.grepped = @ \cup more, !.at = at] /\ SetAsk(a, x)
    BY <1>1, <1>6, <2>1 DEF GrepExtracted
  <2>3. more \subseteq sources /\ r.grepped \cup more \in SUBSET Source
    BY <1>6, <2>1 DEF RecallInv, GraphInv, AskRow
  <2>4. Grepped(r, x, more)
    BY <1>6, <2>1, <2>2, <2>3 DEF AskRow, Grepped
  <2>5. ~asks[a].options.stale => \A f \in more : ~OnlyStale(f)
    BY <1>1, <2>1
  <2> QED BY <1>1, <1>2, <2>2, <2>3, <2>4, <2>5, GreppedKeeps
<1>7. CASE GrepExtracted(a)
  BY <1>1, <1>3, <1>6, <1>7 DEF GrepExtracted
<1>8. CASE \E f \in Source : GrepFile(a, f)
  <2>1. PICK f \in Source : GrepFile(a, f)
    BY <1>8
  <2>2. Fail(a) \/ (OnlyStale(f) /\ ~r.options.stale) \/ f \in sources
    BY <1>1, <2>1 DEF GrepFile
  <2> QED BY <1>3, <1>4, <1>5, <2>1, <2>2
<1> QED BY <1>7, <1>8

(* Scoring answers only memories that the ask may recall. *)
LEMMA ScoreKeeps ==
  ASSUME RecallInv, AllClean, NEW a \in Asker, Score(a)
  PROVE  Continues(a) /\ AskOK(asks'[a]) /\ asks' = [asks EXCEPT ![a] = asks'[a]]
<1>1. PICK r \in AskRow : r = asks[a] /\ AskOK(r) /\ Clean(r, since[a])
  BY DEF RecallInv, AllClean
<1>2. PICK open : open = {n \in Shown : /\ Recallable(n, r.options)
                                        /\ r.kind = "brief" => ~IsRejected(n)}
  OBVIOUS
<1>3. PICK size : size = IF Cardinality(open) < MaxAnswers THEN Cardinality(open) ELSE MaxAnswers
  OBVIOUS
<1>4. PICK ranked \in [1..size -> open] : SetAsk(a, [r EXCEPT !.at = "results", !.results = ranked])
  BY <1>1, <1>2, <1>3 DEF Score
<1>5. size \in Nat
  <2>1. open \subseteq GNode
    BY <1>2 DEF Shown
  <2>2. Cardinality(open) \in Nat
    BY <2>1, GraphAssumption, FS_Subset, FS_CardinalityType
  <2> QED BY <1>3, <2>2, RecallAssumption
<1>6. /\ ranked \in Seq(GNode) /\ Range(ranked) \subseteq open
  <2>1. ranked \in [1..size -> GNode]
    BY <1>2, <1>4 DEF Shown
  <2> QED BY <1>4, <1>5, <2>1 DEF Range
<1>7. PICK x : x = [r EXCEPT !.at = "results", !.results = ranked]
  OBVIOUS
<1>8. /\ x \in AskRow /\ x.at = "results" /\ x.results = ranked /\ x.related = r.related
      /\ x.grepped = r.grepped /\ x.options = r.options /\ x.kind = r.kind /\ x.taken = r.taken
  BY <1>6, <1>7 DEF AskRow
<1>9. asks' = [asks EXCEPT ![a] = x] /\ asks'[a] = x
  BY <1>1, <1>4, <1>7 DEF SetAsk, RecallInv
<1>10. NoMoreThan(since[a], Withheld)
  BY DEF RecallInv
<1>11. /\ ~r.options.rejected => open \cap (Withheld.rejected \cup Withheld.candidate) = {}
       /\ r.kind = "brief" => open \cap Withheld.rejected = {}
       /\ ~r.options.stale => open \cap Withheld.stale = {}
  BY <1>2 DEF Withheld, Recallable
<1>12. Clean(x, since[a])
  BY <1>1, <1>6, <1>8, <1>10, <1>11 DEF Clean, NoMoreThan
<1>13. x.taken = 0 /\ 0 <= Len(x.results)
  BY <1>1, <1>6, <1>8 DEF AskOK, Score
<1>14. asked' = asked
  BY DEF Score
<1>15. AskOK(x)
  BY <1>8, <1>13 DEF AskOK
<1>16. x.at # "idle"
  BY <1>8
<1> QED BY <1>9, <1>12, <1>14, <1>15, <1>16 DEF Continues

(* Gathering relates only memories in force. *)
LEMMA CollectKeeps ==
  ASSUME RecallInv, AllClean, NEW a \in Asker, CollectResults(a)
  PROVE  Continues(a) /\ AskOK(asks'[a]) /\ asks' = [asks EXCEPT ![a] = asks'[a]]
<1>1. PICK r \in AskRow : r = asks[a] /\ AskOK(r) /\ Clean(r, since[a])
  BY DEF RecallInv, AllClean
<1>2. r.at = "results" /\ r.taken < Len(r.results) /\ asked' = asked
  BY <1>1 DEF CollectResults
<1>3. PICK count : count = IF r.options.raw THEN 1 ELSE Len(r.results) - r.taken
  OBVIOUS
<1>4. count \in Nat /\ r.taken + count <= Len(r.results)
  <2>1. r.taken \in Nat /\ Len(r.results) \in Nat
    BY DEF AskRow
  <2> QED BY <1>2, <1>3, <2>1
<1>5. PICK x : x = GatherNext(r, count)
  OBVIOUS
<1>6. SetAsk(a, x)
  BY <1>1, <1>3, <1>5 DEF CollectResults
<1>7. asks' = [asks EXCEPT ![a] = x] /\ asks'[a] = x
  BY <1>6 DEF SetAsk, RecallInv
<1>8. Gathered(r, x, count)
  <2>1. GraphInv
    BY DEF RecallInv
  <2> QED BY <1>4, <1>5, <2>1, GatherSome
<1>9. AskOK(x) /\ x.at # "idle"
  <2>1. /\ x \in AskRow /\ x.at \in {"results", "failed"} /\ x.results = r.results
        /\ x.taken \in r.taken..(r.taken + count)
    BY <1>2, <1>8 DEF Gathered
  <2>2. x.taken <= Len(x.results)
    <3>1. r.taken \in Nat /\ Len(r.results) \in Nat
      BY DEF AskRow
    <3> QED BY <1>4, <2>1, <3>1
  <2> QED BY <2>1, <2>2 DEF AskOK
<1>10. ~r.options.stale => x.related \cap (since[a].rejected \cup since[a].stale) = {}
  <2>1. SUFFICES ASSUME ~r.options.stale, NEW m \in x.related,
                        m \in since[a].rejected \cup since[a].stale
                 PROVE  FALSE
    OBVIOUS
  <2>2. m \notin r.related
    BY <1>1, <2>1 DEF Clean
  <2>3. m \in Shown /\ ~Withdrawn(m)
    BY <1>8, <2>1, <2>2 DEF Gathered
  <2>4. m \in Withheld.rejected \cup Withheld.stale
    BY <2>1 DEF RecallInv, NoMoreThan
  <2> QED BY <2>3, <2>4 DEF Withheld, Withdrawn
<1>11. Clean(x, since[a])
  BY <1>1, <1>8, <1>10 DEF Clean, Gathered
<1> QED BY <1>2, <1>7, <1>9, <1>11 DEF Continues

(* A step that only moves an ask on keeps its answer. *)
LEMMA MoveOnKeeps ==
  ASSUME RecallInv, AllClean, NEW a \in Asker, asked' = asked,
         NEW r \in AskRow, r = asks[a], NEW x \in AskRow, SetAsk(a, x),
         x.at \in {"risky", "answered"}, x.results = r.results, x.related = r.related,
         x.grepped = r.grepped, x.options = r.options, x.kind = r.kind, x.taken = r.taken
  PROVE  Continues(a) /\ AskOK(asks'[a]) /\ asks' = [asks EXCEPT ![a] = asks'[a]]
<1>1. AskOK(r) /\ Clean(r, since[a])
  BY DEF RecallInv, AllClean
<1>2. asks' = [asks EXCEPT ![a] = x] /\ asks'[a] = x
  BY DEF SetAsk, RecallInv
<1>3. Clean(x, since[a])
  BY <1>1, SameAnswer
<1>4. AskOK(x)
  BY <1>1 DEF AskOK
<1> QED BY <1>2, <1>3, <1>4 DEF Continues

(* Answering adds nothing to an answer. *)
LEMMA FinishKeeps ==
  ASSUME RecallInv, AllClean, NEW a \in Asker, FinishRecall(a)
  PROVE  Continues(a) /\ AskOK(asks'[a]) /\ asks' = [asks EXCEPT ![a] = asks'[a]]
<1>1. PICK r \in AskRow : r = asks[a]
  BY DEF RecallInv
<1>2. asked' = asked
  BY DEF FinishRecall
<1>3. CASE Fail(a)
  BY <1>2, <1>3, FailKeeps
<1>4. ASSUME NEW at \in {"risky", "answered"}, SetAsk(a, [r EXCEPT !.at = at])
      PROVE  Continues(a) /\ AskOK(asks'[a]) /\ asks' = [asks EXCEPT ![a] = asks'[a]]
  <2>1. PICK x : x = [r EXCEPT !.at = at] /\ SetAsk(a, x)
    BY <1>4
  <2>2. /\ x \in AskRow /\ x.at = at /\ x.results = r.results /\ x.related = r.related
        /\ x.grepped = r.grepped /\ x.options = r.options /\ x.kind = r.kind /\ x.taken = r.taken
    BY <2>1 DEF AskRow
  <2> QED BY <1>1, <1>2, <2>1, <2>2, MoveOnKeeps
<1>5. Fail(a) \/ \E at \in {"risky", "answered"} : SetAsk(a, [r EXCEPT !.at = at])
  BY <1>1 DEF FinishRecall
<1> QED BY <1>3, <1>4, <1>5

(* Naming what to avoid adds nothing to a brief. *)
LEMMA BriefKeeps ==
  ASSUME RecallInv, AllClean, NEW a \in Asker, Brief(a)
  PROVE  Continues(a) /\ AskOK(asks'[a]) /\ asks' = [asks EXCEPT ![a] = asks'[a]]
<1>1. PICK r \in AskRow : r = asks[a]
  BY DEF RecallInv
<1>2. asked' = asked
  BY DEF Brief
<1>3. CASE Fail(a)
  BY <1>2, <1>3, FailKeeps
<1>4. ASSUME NEW avoid \in SUBSET GNode, SetAsk(a, [r EXCEPT !.at = "answered", !.avoid = avoid])
      PROVE  Continues(a) /\ AskOK(asks'[a]) /\ asks' = [asks EXCEPT ![a] = asks'[a]]
  <2>1. PICK x : x = [r EXCEPT !.at = "answered", !.avoid = avoid] /\ SetAsk(a, x)
    BY <1>4
  <2>2. /\ x \in AskRow /\ x.at = "answered" /\ x.results = r.results /\ x.related = r.related
        /\ x.grepped = r.grepped /\ x.options = r.options /\ x.kind = r.kind /\ x.taken = r.taken
    BY <2>1 DEF AskRow
  <2> QED BY <1>1, <1>2, <2>1, <2>2, MoveOnKeeps
<1>5. RelevantRiskyBriefItems \subseteq SUBSET GNode
  BY DEF RelevantRiskyBriefItems, Shown
<1>6. Fail(a) \/ \E avoid \in SUBSET GNode : SetAsk(a, [r EXCEPT !.at = "answered", !.avoid = avoid])
  BY <1>1, <1>5 DEF Brief
<1> QED BY <1>3, <1>4, <1>6

(* What a step of an ask does, whichever it is. *)
LEMMA AskStepKeeps ==
  ASSUME RecallInv, AllClean, AskStep
  PROVE  \E a \in Asker : /\ Begins(a) \/ Continues(a)
                          /\ AskOK(asks'[a]) /\ asks' = [asks EXCEPT ![a] = asks'[a]]
<1>1. PICK a \in Asker :
        \/ \E kind \in {"recall", "brief", "grep", "hybrid"}, o \in Options : Ask(a, kind, o)
        \/ \E f \in Source : GrepFile(a, f)
        \/ GrepExtracted(a) \/ Score(a) \/ CollectResults(a) \/ FinishRecall(a) \/ Brief(a)
  BY DEF AskStep
<1>2. /\ Begins(a) \/ Continues(a)
      /\ AskOK(asks'[a]) /\ asks' = [asks EXCEPT ![a] = asks'[a]]
  <2>1. CASE \E kind \in {"recall", "brief", "grep", "hybrid"}, o \in Options : Ask(a, kind, o)
    BY <2>1, AskKeeps
  <2>2. CASE (\E f \in Source : GrepFile(a, f)) \/ GrepExtracted(a)
    BY <2>2, GrepKeeps
  <2>3. CASE Score(a)
    BY <2>3, ScoreKeeps
  <2>4. CASE CollectResults(a)
    BY <2>4, CollectKeeps
  <2>5. CASE FinishRecall(a)
    BY <2>5, FinishKeeps
  <2>6. CASE Brief(a)
    BY <2>6, BriefKeeps
  <2> QED BY <1>1, <2>1, <2>2, <2>3, <2>4, <2>5, <2>6
<1> QED BY <1>2

(* What is kept of what was withheld is still withheld, and an ask that    *)
(* goes on stays clean of it.                                              *)
LEMMA HistoryKeeps ==
  ASSUME RecallInv, KeepHistory, Withheld' \in WithheldRow
  PROVE  /\ since' \in [Asker -> WithheldRow]
         /\ \A a \in Asker :
              \/ since'[a] = Withheld' /\ (asks'[a].at = "idle" \/ (asked' # asked /\ asks'[a] # asks[a]))
              \/ /\ NoMoreThan(since'[a], since[a]) /\ NoMoreThan(since'[a], Withheld')
                 /\ ~(asked' # asked /\ asks'[a] # asks[a])
<1>1. PICK new \in WithheldRow : new = Withheld'
  OBVIOUS
<1>2. ASSUME NEW a \in Asker
      PROVE  /\ since'[a] \in WithheldRow
             /\ \/ since'[a] = Withheld' /\ (asks'[a].at = "idle" \/ (asked' # asked /\ asks'[a] # asks[a]))
                \/ /\ NoMoreThan(since'[a], since[a]) /\ NoMoreThan(since'[a], Withheld')
                   /\ ~(asked' # asked /\ asks'[a] # asks[a])
  <2>1. PICK old \in WithheldRow : old = since[a]
    BY DEF RecallInv
  <2>2. CASE asks'[a].at = "idle" \/ (asked' # asked /\ asks'[a] # asks[a])
    <3>1. since'[a] = Withheld'
      BY <2>2 DEF KeepHistory
    <3> QED BY <2>2, <3>1
  <2>3. CASE ~(asks'[a].at = "idle" \/ (asked' # asked /\ asks'[a] # asks[a]))
    <3>1. since'[a] = [k \in DOMAIN since[a] |-> since[a][k] \cap Withheld'[k]]
      BY <2>3 DEF KeepHistory
    <3>2. PICK kept : kept = since'[a] /\ kept = [k \in DOMAIN old |-> old[k] \cap new[k]]
      BY <1>1, <2>1, <3>1
    <3>3. kept \in WithheldRow /\ NoMoreThan(kept, old) /\ NoMoreThan(kept, new)
      BY <3>2, HistoryFewer
    <3> QED BY <1>1, <2>1, <2>3, <3>2, <3>3
  <2> QED BY <2>2, <2>3
<1>3. since' \in [Asker -> WithheldRow]
  BY <1>2 DEF KeepHistory
<1> QED BY <1>2, <1>3

(* Every step keeps the types of asks and of what is withheld from them,   *)
(* and keeps every ask clean of what stayed withheld since it began.       *)
LEMMA RecallStep ==
  ASSUME RecallInv, AllClean, [RecallNext]_recallVars
  PROVE  RecallInv' /\ AllClean'
<1>1. CASE UNCHANGED recallVars
  <2>1. UNCHANGED <<gnode, sources, extracted, edges, joining, gmoves, asks, since, health, asked>>
    BY <1>1 DEF recallVars, graphVars
  <2>2. Withheld' = Withheld
    BY <2>1 DEF Withheld, Shown, Visible, OnlyStale, IsRejected, IsStaleLike, IsCandidateLike
  <2>3. GraphInv'
    BY <2>1, GraphKeeps DEF graphVars, RecallInv
  <2>4. RecallInv'
    BY <2>1, <2>2, <2>3 DEF RecallInv
  <2>5. AllClean'
    BY <2>1 DEF AllClean
  <2> QED BY <2>4, <2>5
<1>2. CASE RecallNext
  <2>1. GraphInv' /\ Withheld' \in WithheldRow
    <3>1. GraphInv'
      BY <1>2, GraphKeeps DEF RecallNext, RecallInv
    <3>2. sources' \subseteq Source
      BY <3>1 DEF GraphInv
    <3>3. Withheld' \in WithheldRow
      BY <3>2 DEF Withheld, WithheldRow, Shown
    <3> QED BY <3>1, <3>3
  <2>2. /\ since' \in [Asker -> WithheldRow]
        /\ \A a \in Asker :
             \/ since'[a] = Withheld' /\ (asks'[a].at = "idle" \/ (asked' # asked /\ asks'[a] # asks[a]))
             \/ /\ NoMoreThan(since'[a], since[a]) /\ NoMoreThan(since'[a], Withheld')
                /\ ~(asked' # asked /\ asks'[a] # asks[a])
    BY <1>2, <2>1, HistoryKeeps DEF RecallNext
  <2>3. \A a \in Asker : NoMoreThan(since'[a], Withheld')
    BY <2>2 DEF NoMoreThan
  <2>4. Len(health') <= 1
    BY <1>2 DEF RecallNext, RecallInv
  <2>5. \A a \in Asker : Clean(asks[a], since[a]) /\ AskOK(asks[a])
    BY DEF AllClean, RecallInv
  <2>6. \A a \in Asker : asks[a].at = "idle" =>
          asks[a].results = <<>> /\ asks[a].related = {} /\ asks[a].grepped = {}
    BY <2>5 DEF AskOK, NoAsk
  <2>7. ASSUME NEW b \in Asker, asks'[b] = asks[b]
        PROVE  Clean(asks'[b], since'[b])
    <3>1. CASE asks[b].at = "idle"
      BY <2>6, <2>7, <3>1, BlankClean
    <3>2. CASE asks[b].at # "idle"
      <4>1. NoMoreThan(since'[b], since[b])
        BY <2>2, <2>7, <3>2
      <4> QED BY <2>5, <2>7, <4>1, FewerClean
    <3> QED BY <3>1, <3>2
  <2>8. CASE AskStep
    <3>1. PICK a \in Asker : /\ Begins(a) \/ Continues(a)
                             /\ AskOK(asks'[a]) /\ asks' = [asks EXCEPT ![a] = asks'[a]]
      BY <2>8, AskStepKeeps
    <3>2. \A b \in Asker : b # a => asks'[b] = asks[b]
      <4>1. PICK x : x = asks'[a] /\ asks' = [asks EXCEPT ![a] = x]
        BY <3>1
      <4> QED BY <4>1 DEF RecallInv
    <3>3. asks' \in [Asker -> AskRow] /\ \A b \in Asker : AskOK(asks'[b])
      <4>1. PICK x : x = asks'[a] /\ asks' = [asks EXCEPT ![a] = x] /\ AskOK(x)
        BY <3>1
      <4>2. x \in AskRow
        BY <4>1 DEF AskOK
      <4> QED BY <2>5, <3>1, <3>2, <4>1, <4>2 DEF RecallInv
    <3>4. asked' \in 0..MaxAsks
      BY <3>1, RecallAssumption DEF Begins, Continues, RecallInv
    <3>5. Clean(asks'[a], since'[a])
      <4>1. CASE Begins(a)
        <5>1. asks'[a].results = <<>> /\ asks'[a].related = {} /\ asks'[a].grepped = {}
          BY <4>1 DEF Begins
        <5> QED BY <5>1, BlankClean
      <4>2. CASE Continues(a)
        <5>1. asks'[a].at # "idle" /\ asked' = asked /\ Clean(asks'[a], since[a])
          BY <4>2 DEF Continues
        <5>2. NoMoreThan(since'[a], since[a])
          BY <2>2, <5>1
        <5> QED BY <5>1, <5>2, FewerClean
      <4> QED BY <3>1, <4>1, <4>2
    <3>6. AllClean'
      BY <2>7, <3>2, <3>5 DEF AllClean
    <3> QED BY <2>1, <2>2, <2>3, <2>4, <3>3, <3>4, <3>6 DEF RecallInv
  <2>9. CASE UNCHANGED <<asks, asked>>
    <3>1. AllClean'
      BY <2>7, <2>9 DEF AllClean
    <3>2. asks' \in [Asker -> AskRow] /\ (\A a \in Asker : AskOK(asks'[a])) /\ asked' \in 0..MaxAsks
      BY <2>9 DEF RecallInv
    <3> QED BY <2>1, <2>2, <2>3, <2>4, <3>1, <3>2 DEF RecallInv
  <2> QED BY <1>2, <2>8, <2>9 DEF RecallNext
<1> QED BY <1>1, <1>2

(* At first there are no asks. *)
LEMMA RecallStarts == RecallInit => RecallInv /\ AllClean
<1> SUFFICES ASSUME RecallInit PROVE RecallInv /\ AllClean
  OBVIOUS
<1>1. GraphInv
  BY GraphStarts DEF RecallInit
<1>2. /\ NoAsk \in AskRow /\ NoAsk.results = <<>> /\ NoAsk.related = {} /\ NoAsk.grepped = {}
      /\ NoAsk.taken = 0 /\ 0 <= Len(NoAsk.results)
  BY DEF NoAsk, AskRow
<1>3. AskOK(NoAsk)
  BY <1>2 DEF AskOK
<1>4. Withheld \in WithheldRow
  BY <1>1, WithheldTyped DEF GraphInv
<1>5. asks \in [Asker -> AskRow] /\ \A a \in Asker : AskOK(asks[a])
  BY <1>2, <1>3 DEF RecallInit
<1>6. since \in [Asker -> WithheldRow] /\ \A a \in Asker : NoMoreThan(since[a], Withheld)
  <2>1. NoMoreThan(Withheld, Withheld)
    BY DEF NoMoreThan
  <2> QED BY <1>4, <2>1 DEF RecallInit
<1>7. asked \in 0..MaxAsks /\ Len(health) <= 1
  BY RecallAssumption DEF RecallInit
<1>8. AllClean
  BY <1>2, BlankClean DEF AllClean, RecallInit
<1> QED BY <1>1, <1>5, <1>6, <1>7, <1>8 DEF RecallInv

(* The rows of asks are of the shapes recallMemory and grepMemory have. *)
LEMMA RecallInvTypes == RecallInv => RecallTypeOK
<1> SUFFICES ASSUME RecallInv PROVE RecallTypeOK
  OBVIOUS
<1>1. ASSUME NEW a \in Asker
      PROVE  /\ asks[a].at \in {"idle", "files", "embed", "results", "risky", "answered", "failed"}
             /\ asks[a].kind \in {"none", "recall", "brief", "grep", "hybrid"}
             /\ Range(asks[a].results) \cup asks[a].related \cup asks[a].avoid \subseteq GNode
             /\ asks[a].taken \in 0..Len(asks[a].results)
             /\ asks[a].left \cup asks[a].grepped \subseteq Source
  <2>1. PICK r \in AskRow : r = asks[a] /\ r.taken <= Len(r.results)
    BY DEF RecallInv, AskOK
  <2>2. Range(r.results) \subseteq GNode
    BY RangeOfSeq DEF AskRow
  <2>3. r.taken \in 0..Len(r.results)
    BY <2>1 DEF AskRow
  <2> QED BY <2>1, <2>2, <2>3 DEF AskRow
<1>2. GraphTypeOK
  BY GraphInvTypes DEF RecallInv
<1> QED BY <1>1, <1>2 DEF RecallTypeOK, RecallInv

(* The invariant of recalls, and cleanness, hold throughout. *)
LEMMA RecallAlways == RecallSpec => [](RecallInv /\ AllClean)
<1>1. RecallInit => RecallInv /\ AllClean
  BY RecallStarts
<1>2. RecallInv /\ AllClean /\ [RecallNext]_recallVars => RecallInv' /\ AllClean'
  BY RecallStep
<1> QED BY <1>1, <1>2, PTL DEF RecallSpec

(* The rows of the graph, of asks and of health reports keep their types:  *)
(* every link is between memories, every memory is of a file, an ask never *)
(* gathers more results than it ranked.                                    *)
THEOREM RecallTyped == RecallSpec => []RecallTypeOK
BY RecallInvTypes, RecallAlways, PTL

(* Memory that was withdrawn when an ask began, and stayed so, is in no    *)
(* answer, whatever is written, linked, confirmed and deleted meanwhile    *)
(* (recallMemory, grepMemory, createBrief).                                *)
THEOREM NotRecalled == RecallSpec => []WithdrawnIsNotRecalled
<1>1. AllClean => WithdrawnIsNotRecalled
  BY DEF AllClean, Clean, WithdrawnIsNotRecalled, Answered
<1> QED BY <1>1, RecallAlways, PTL

(* In every graph that the handlers can write, over any number of          *)
(* memories, the path explainRelationshipPath finds is a shortest one, and *)
(* what findRelatedMemories finds are the nearest memories in force.       *)
THEOREM SearchedExactly == RecallSpec => []SearchesAreExact
<1>1. RecallInv => SearchesAreExact
  <2> SUFFICES ASSUME RecallInv PROVE SearchesAreExact
    OBVIOUS
  <2>1. GraphInv
    BY DEF RecallInv
  <2> QED BY <2>1, PathsShortest, RelatedNearest DEF SearchesAreExact
<1> QED BY <1>1, RecallAlways, PTL

(***************************************************************************)
(* Supersession: what a link supersedes has a valid_until, or a rollback   *)
(* inserted it anew.                                                       *)
(***************************************************************************)

Down(row) == row.expired \/ row.restored

Superseding(e) == e.kind = "link" /\ e.relation = "supersedes"

HeldDown(nodes, list) ==
  \A i \in DOMAIN list :
    Superseding(list[i]) => nodes[list[i].to] \in NodeRow /\ Down(nodes[list[i].to])

(* A row that is gone stays so when it is marked or reviewed. *)
LEMMA StaysGone ==
  ASSUME NEW row \in NodeRow, Down(row)
  PROVE  /\ \A status \in GStatus : Down(InStatus(row, status))
         /\ Down(Outdated(row))
         /\ \A status \in EditedTo : Down(Edited(row, status))
         /\ Down(Approved(row)) /\ Down(Restored(row))
         /\ Down(Marked(row, "superseded")) /\ Down(Marked(row, "rejected"))
BY DEF NodeRow, Down, InStatus, Outdated, Edited, Approved, Restored, Marked

(* Withdrawing a row makes it gone. *)
LEMMA MarkedGone ==
  \A row \in NodeRow : Marked(row, "superseded") \in NodeRow /\ Down(Marked(row, "superseded"))
<1> SUFFICES ASSUME NEW row \in NodeRow
             PROVE  Marked(row, "superseded") \in NodeRow /\ Down(Marked(row, "superseded"))
  OBVIOUS
<1>1. Marked(row, "superseded") \in NodeRow
  BY MarkedTyped
<1>2. Marked(row, "superseded").expired = TRUE
  BY DEF Marked, NodeRow
<1> QED BY <1>1, <1>2 DEF Down

\* What a review of one memory may make of its row.
MarkedRows(row) ==
  {Marked(row, "rejected"), Outdated(row), InStatus(row, "active"), InStatus(row, "candidate")}
    \cup {Edited(row, status) : status \in EditedTo}

(* Linking withdraws what the new links supersede. *)
LEMMA LinkedHeld ==
  ASSUME NEW g \in Graphs, NEW links, IsFiniteSet(links), links \subseteq GEdge,
         \A e \in links : g.nodes[e.to] \in NodeRow, HeldDown(g.nodes, g.edges)
  PROVE  HeldDown(Linked(g, links).nodes, Linked(g, links).edges)
<1> DEFINE made == links \ Range(g.edges)
           new == [m \in GNode |-> IF \E e \in made : e.to = m /\ e.relation = "supersedes"
                                 THEN Marked(g.nodes[m], "superseded")
                                 ELSE g.nodes[m]]
           list == g.edges \o SetToSeq(made)
<1>1. Linked(g, links) = [edges |-> list, nodes |-> new]
  BY DEF Linked
<1>2. IsFiniteSet(made) /\ made \subseteq GEdge
  BY FS_Subset
<1>3. SetToSeq(made) \in Seq(made)
  <2> HIDE DEF made
  <2> QED BY <1>2, SequenceOfSet
<1>4. \A m \in GNode : g.nodes[m] \in NodeRow => new[m] \in NodeRow /\ (Down(g.nodes[m]) => Down(new[m]))
  <2>1. \A row \in NodeRow : Marked(row, "superseded") \in NodeRow /\ Down(Marked(row, "superseded"))
    BY MarkedGone
  <2> DEFINE hit(m) == \E e \in made : e.to = m /\ e.relation = "supersedes"
  <2>2. \A m \in GNode : new[m] = IF hit(m) THEN Marked(g.nodes[m], "superseded") ELSE g.nodes[m]
    OBVIOUS
  <2> HIDE DEF new, hit
  <2> QED BY <2>1, <2>2
<1>5. ASSUME NEW i \in DOMAIN list, Superseding(list[i])
      PROVE  new[list[i].to] \in NodeRow /\ Down(new[list[i].to])
  <2>1. g.edges \in Seq(GEdge)
    BY DEF Graphs
  <2>2. CASE i \in 1..Len(g.edges)
    <3>1. list[i] = g.edges[i] /\ g.edges[i] \in GEdge /\ i \in DOMAIN g.edges
      <4> HIDE DEF made
      <4> QED BY <1>3, <2>1, <2>2
    <3>2. list[i].to \in GNode
      BY <3>1 DEF GEdge
    <3>3. g.nodes[list[i].to] \in NodeRow /\ Down(g.nodes[list[i].to])
      BY <1>5, <3>1 DEF HeldDown
    <3> HIDE DEF new, list
    <3> QED BY <1>4, <3>2, <3>3
  <2>3. CASE i \notin 1..Len(g.edges)
    <3>1. list[i] \in made
      <4> HIDE DEF made
      <4> QED BY <1>3, <2>1, <2>3
    <3>2. PICK e \in made : e = list[i]
      BY <3>1
    <3>3. e.to \in GNode /\ e.relation = "supersedes" /\ g.nodes[e.to] \in NodeRow
      BY <1>2, <1>5, <3>2 DEF GEdge, Superseding
    <3>4. new[e.to] = Marked(g.nodes[e.to], "superseded")
      <4> HIDE DEF made
      <4> QED BY <3>2, <3>3
    <3>5. Marked(g.nodes[e.to], "superseded") \in NodeRow /\ Down(Marked(g.nodes[e.to], "superseded"))
      BY <3>3, MarkedGone
    <3> HIDE DEF new, list, made
    <3> QED BY <3>2, <3>4, <3>5
  <2> QED BY <2>2, <2>3
<1> HIDE DEF new, list
<1>6. HeldDown(new, list)
  BY <1>5 DEF HeldDown
<1> QED BY <1>1, <1>6

(* One link more, likewise. *)
LEMMA LinkHeld ==
  ASSUME GraphInv, NEW nodes \in [GNode -> NodeRow \cup {NoNode}], HeldDown(nodes, edges),
         NEW n \in GNode, NEW m \in GNode, nodes[m] \in NodeRow, NEW r \in AnyRelation,
         NEW g, g = Linked([edges |-> edges, nodes |-> nodes], {Link(n, m, r)})
  PROVE  HeldDown(g.nodes, g.edges)
<1> DEFINE old == [edges |-> edges, nodes |-> nodes]
           links == {Link(n, m, r)}
<1>1. IsFiniteSet(links)
  BY FS_Singleton
<1>2. links \subseteq GEdge /\ \A e \in links : e.to = m
  BY DEF Link, GEdge
<1>3. old \in Graphs /\ old.nodes = nodes /\ old.edges = edges
  BY DEF Graphs, GraphInv
<1>4. g = Linked(old, links)
  OBVIOUS
<1> HIDE DEF old, links
<1>5. \A e \in links : old.nodes[e.to] \in NodeRow
  BY <1>2, <1>3
<1> QED BY <1>1, <1>2, <1>3, <1>4, <1>5, LinkedHeld

(* Rows that change keep down what was, while the edges stay. *)
LEMMA RowsHeld ==
  ASSUME GraphInv, HeldDown(gnode, edges),
         NEW nodes, \A m \in GNode : gnode[m] \in NodeRow /\ Down(gnode[m]) =>
                                       nodes[m] \in NodeRow /\ Down(nodes[m])
  PROVE  HeldDown(nodes, edges)
<1>1. \A i \in DOMAIN edges : edges[i] \in GEdge
  BY DEF GraphInv
<1>2. \A i \in DOMAIN edges : edges[i].to \in GNode
  BY <1>1 DEF GEdge
<1> QED BY <1>2 DEF HeldDown

(* A row that a review rewrites stays gone. *)
LEMMA RewriteHeld ==
  ASSUME GraphInv, HeldDown(gnode, edges), NEW n \in GNode, NEW row, Rewrite(n, row),
         gnode[n] \in NodeRow /\ Down(gnode[n]) => row \in NodeRow /\ Down(row)
  PROVE  HeldDown(gnode, edges)'
<1>1. \A m \in GNode : gnode[m] \in NodeRow /\ Down(gnode[m]) => gnode'[m] \in NodeRow /\ Down(gnode'[m])
  BY DEF Rewrite, GraphInv
<1>2. HeldDown(gnode', edges)
  BY <1>1, RowsHeld
<1> QED BY <1>2 DEF Rewrite, HeldDown

(* A review undoes no supersession. *)
LEMMA ReviewHeld ==
  ASSUME GraphInv, HeldDown(gnode, edges), ReviewNext
  PROVE  HeldDown(gnode, edges)'
<1>1. \A row \in NodeRow : /\ MarkedRows(row) \subseteq NodeRow
                           /\ Down(row) => \A new \in MarkedRows(row) : Down(new)
  BY MarkedTyped, ReviewedTyped, StaysGone DEF MarkedRows, GStatus
<1>2. ASSUME NEW n \in GNode, NEW row \in MarkedRows(gnode[n]), Rewrite(n, row)
      PROVE  HeldDown(gnode, edges)'
  BY <1>1, <1>2, RewriteHeld
<1>3. ASSUME NEW n \in GNode, \/ RejectNode(n) \/ MarkStale(n) \/ Confirm(n) \/ ResolveConflict(n)
                               \/ \E status \in EditedTo : EditCandidate(n, status)
      PROVE  HeldDown(gnode, edges)'
  BY <1>2, <1>3 DEF RejectNode, MarkStale, Confirm, ResolveConflict, EditCandidate, MarkedRows
<1>4. ASSUME NEW some, Approve(some) PROVE HeldDown(gnode, edges)'
  <2>1. \A m \in GNode : gnode[m] \in NodeRow /\ Down(gnode[m]) => gnode'[m] \in NodeRow /\ Down(gnode'[m])
    BY <1>4, ReviewedTyped, StaysGone DEF Approve
  <2>2. HeldDown(gnode', edges)
    BY <2>1, RowsHeld
  <2> QED BY <1>4, <2>2 DEF Approve, HeldDown
<1>5. ASSUME NEW n \in GNode, NEW m \in GNode, SupersedeMemory(n, m) PROVE HeldDown(gnode, edges)'
  <2> DEFINE g == Linked([edges |-> edges, nodes |-> gnode], {Link(m, n, "supersedes")})
             marked == [g EXCEPT !.nodes[n] = Marked(@, "superseded")]
  <2>0. gnode \in [GNode -> NodeRow \cup {NoNode}] /\ gnode[n] \in NodeRow /\ "supersedes" \in AnyRelation
    BY <1>5, VisibleRow DEF SupersedeMemory, AnyRelation, GraphInv
  <2>1. g \in Graphs /\ g.nodes[n] \in NodeRow
    BY <2>0, LinkKeeps
  <2>2. HeldDown(g.nodes, g.edges)
    <3> HIDE DEF g
    <3> QED BY <2>0, LinkHeld DEF g
  <2>3. edges' = marked.edges /\ gnode' = marked.nodes
    <3>1. StoreGraph(marked)
      <4> HIDE DEF g
      <4> QED BY <1>5 DEF SupersedeMemory, g
    <3> HIDE DEF marked
    <3> QED BY <3>1 DEF StoreGraph
  <2>4. Marked(g.nodes[n], "superseded") \in NodeRow /\ Down(Marked(g.nodes[n], "superseded"))
    <3> HIDE DEF g
    <3> QED BY <2>1, MarkedGone
  <2>5. edges' = g.edges /\ gnode' = [g.nodes EXCEPT ![n] = Marked(@, "superseded")]
    <3> HIDE DEF g
    <3> QED BY <2>1, <2>3 DEF Graphs
  <2> HIDE DEF g, marked
  <2>6. \A i \in DOMAIN g.edges : g.edges[i].to \in GNode
    <3>1. \A i \in DOMAIN g.edges : g.edges[i] \in GEdge
      BY <2>1 DEF Graphs
    <3> QED BY <3>1 DEF GEdge
  <2> QED BY <2>1, <2>2, <2>4, <2>5, <2>6 DEF HeldDown, Graphs
<1>6. ASSUME NEW n \in GNode, NEW m \in GNode, MarkConflict(n, m) PROVE HeldDown(gnode, edges)'
  <2> DEFINE nodes == [gnode EXCEPT ![n] = InStatus(@, "conflicted")]
             g == Linked([edges |-> edges, nodes |-> nodes], {Link(n, m, "contradicts")})
  <2>1. gnode[n] \in NodeRow /\ gnode[m] \in NodeRow /\ n # m /\ "contradicts" \in AnyRelation
    BY <1>6, VisibleRow DEF MarkConflict, AnyRelation
  <2>2. InStatus(gnode[n], "conflicted") \in NodeRow
        /\ (Down(gnode[n]) => Down(InStatus(gnode[n], "conflicted")))
    BY <2>1, ReviewedTyped, StaysGone DEF GStatus
  <2>3. nodes \in [GNode -> NodeRow \cup {NoNode}] /\ nodes[m] \in NodeRow
    BY <2>1, <2>2 DEF GraphInv
  <2>4. \A x \in GNode : gnode[x] \in NodeRow /\ Down(gnode[x]) => nodes[x] \in NodeRow /\ Down(nodes[x])
    BY <2>2 DEF GraphInv
  <2>5. HeldDown(nodes, edges)
    <3> HIDE DEF nodes
    <3> QED BY <2>4, RowsHeld
  <2>6. HeldDown(g.nodes, g.edges)
    <3> HIDE DEF nodes
    <3> QED BY <2>1, <2>3, <2>5, LinkHeld
  <2>7. edges' = g.edges /\ gnode' = g.nodes
    BY <1>6 DEF MarkConflict, StoreGraph
  <2> HIDE DEF g
  <2> QED BY <2>6, <2>7 DEF HeldDown
<1>7. ASSUME RollBack PROVE HeldDown(gnode, edges)'
  <2>1. \A m \in GNode : gnode[m] \in NodeRow /\ Down(gnode[m]) => gnode'[m] \in NodeRow /\ Down(gnode'[m])
    BY <1>7, ReviewedTyped, StaysGone, NoNodeAssumption DEF RollBack
  <2>2. HeldDown(gnode', edges)
    BY <2>1, RowsHeld
  <2> QED BY <1>7, <2>2 DEF RollBack, HeldDown
<1> QED BY <1>3, <1>4, <1>5, <1>6, <1>7 DEF ReviewNext

(* Joining a memory to the graph undoes no supersession. *)
LEMMA ConnectHeld ==
  ASSUME GraphInv, HeldDown(gnode, edges), NEW n \in GNode, Connect(n)
  PROVE  HeldDown(gnode, edges)'
<1> DEFINE match == joining[n][1]
           g == [edges |-> edges, nodes |-> gnode]
<1>1. match \in Match
  <2>1. joining[n] \in Seq(Match) /\ joining[n] # <<>>
    BY DEF GraphInv, Connect
  <2> QED BY <2>1
<1>2. CASE UNCHANGED <<gnode, edges>>
  BY <1>2 DEF HeldDown
<1>3. CASE ~UNCHANGED <<gnode, edges>>
  <2>1. PICK relations \in Relations(n, match), siblings \in Siblings(n) :
          StoreGraph(WithSiblings(LinkedTo(g, n, relations), n, siblings))
    BY <1>3 DEF Connect
  <2> DEFINE to == {x \in DOMAIN relations : relations[x] # "new"}
             links == {Link(n, m, relations[m]) : m \in to}
             linked == LinkedTo(g, n, relations)
             kin == {Link(n, m, "derived_from") : m \in siblings}
  <2>2. /\ IsFiniteSet(links) /\ links \subseteq GEdge /\ \A e \in links : g.nodes[e.to] \in NodeRow
        /\ IsFiniteSet(kin) /\ kin \subseteq GEdge /\ \A e \in kin : gnode[e.to] \in NodeRow
    BY <1>1, <1>3, <2>1, RelationsTyped, SiblingsTyped DEF Connect
  <2>3. linked = Linked(g, links) /\ WithSiblings(linked, n, siblings) = Linked(linked, kin)
    BY DEF LinkedTo, WithSiblings
  <2>4. g \in Graphs /\ HeldDown(g.nodes, g.edges) /\ g.nodes = gnode
    BY GraphTyped
  <2> HIDE DEF links, kin, linked, g
  <2>5. /\ linked \in Graphs /\ \A m \in GNode : gnode[m] \in NodeRow => linked.nodes[m] \in NodeRow
        /\ HeldDown(linked.nodes, linked.edges)
    BY <2>2, <2>3, <2>4, LinkedTyped, LinkedHeld
  <2>6. \A e \in kin : linked.nodes[e.to] \in NodeRow
    BY <2>2, <2>5 DEF GEdge
  <2>7. HeldDown(Linked(linked, kin).nodes, Linked(linked, kin).edges)
    BY <2>2, <2>5, <2>6, LinkedHeld
  <2>8. StoreGraph(Linked(linked, kin))
    BY <2>1, <2>3 DEF linked
  <2> QED BY <2>7, <2>8 DEF StoreGraph, HeldDown
<1> QED BY <1>2, <1>3

(* No step undoes a supersession, but by a rollback. *)
LEMMA GraphHeld ==
  ASSUME GraphInv, HeldDown(gnode, edges), GraphNext \/ UNCHANGED graphVars
  PROVE  HeldDown(gnode, edges)'
<1>1. CASE UNCHANGED graphVars
  BY <1>1 DEF graphVars, HeldDown
<1>2. ASSUME NEW n \in GNode, NEW m \in GNode, NEW r \in Relation, CreateGraphEdge(n, m, r)
      PROVE  HeldDown(gnode, edges)'
  <2>1. gnode \in [GNode -> NodeRow \cup {NoNode}] /\ r \in AnyRelation
    BY GraphAssumption DEF GraphInv
  <2>2. CASE LinkMemoryNodes(n, m, r)
    <3>1. PICK g : g = Linked([edges |-> edges, nodes |-> gnode], {Link(n, m, r)}) /\ StoreGraph(g)
      BY <2>2 DEF LinkMemoryNodes
    <3>2. gnode[m] \in NodeRow
      BY <2>2, VisibleRow DEF LinkMemoryNodes
    <3>3. HeldDown(g.nodes, g.edges)
      BY <2>1, <3>1, <3>2, LinkHeld
    <3> QED BY <3>1, <3>3 DEF StoreGraph, HeldDown
  <2>3. CASE CreateGraphObjectEdge(n, m, r)
    <3>1. PICK edge : edge.kind = "object" /\ edges' = Append(edges, edge) /\ gnode' = gnode
      BY <2>3 DEF CreateGraphObjectEdge, StoreGraph
    <3>2. \A i \in DOMAIN edges' : (i \in DOMAIN edges /\ edges'[i] = edges[i]) \/ edges'[i] = edge
      BY <3>1 DEF GraphInv
    <3> QED BY <3>1, <3>2 DEF HeldDown, Superseding
  <2> QED BY <1>2, <2>2, <2>3 DEF CreateGraphEdge
<1>3. ASSUME NEW i \in DOMAIN edges, DeleteGraphEdge(i) PROVE HeldDown(gnode, edges)'
  <2>1. gnode' = gnode /\ edges' = RemoveAt(edges, i)
    BY <1>3 DEF DeleteGraphEdge
  <2>2. \A k \in DOMAIN edges' : \E j \in DOMAIN edges : edges'[k] = edges[j]
    <3>1. edges \in Seq(GEdge) /\ i \in 1..Len(edges)
      BY DEF GraphInv
    <3>2. edges' = SubSeq(edges, 1, i-1) \o SubSeq(edges, i+1, Len(edges))
      BY <2>1 DEF RemoveAt
    <3>3. /\ Len(SubSeq(edges, 1, i-1)) = i - 1
          /\ Len(SubSeq(edges, i+1, Len(edges))) = Len(edges) - i
      BY <3>1
    <3>4. /\ SubSeq(edges, 1, i-1) \in Seq(GEdge) /\ SubSeq(edges, i+1, Len(edges)) \in Seq(GEdge)
          /\ \A k \in 1..(i - 1) : SubSeq(edges, 1, i-1)[k] = edges[k]
          /\ \A k \in 1..(Len(edges) - i) : SubSeq(edges, i+1, Len(edges))[k] = edges[i + k]
      BY <3>1
    <3>5. PICK a \in Seq(GEdge), b \in Seq(GEdge) :
            /\ edges' = a \o b /\ Len(a) = i - 1 /\ Len(b) = Len(edges) - i
            /\ \A k \in 1..(i - 1) : a[k] = edges[k]
            /\ \A k \in 1..(Len(edges) - i) : b[k] = edges[i + k]
      BY <3>2, <3>3, <3>4
    <3>6. ASSUME NEW k \in DOMAIN edges' PROVE \E j \in DOMAIN edges : edges'[k] = edges[j]
      <4>1. k \in 1..(Len(edges) - 1)
        BY <3>1, <3>5
      <4>2. CASE k <= i - 1
        BY <3>1, <3>5, <4>1, <4>2
      <4>3. CASE k > i - 1
        <5>1. PICK x \in 1..(Len(edges) - i) : x = k - (i - 1)
          BY <3>1, <4>1, <4>3
        <5>2. edges'[k] = b[x]
          <6>0. i \in Int /\ Len(edges) \in Int /\ k \in Int /\ Len(a) = i - 1 /\ Len(b) = Len(edges) - i
            BY <3>1, <3>5, <4>1
          <6>1. k \in 1..(Len(a) + Len(b)) /\ ~(k <= Len(a)) /\ k - Len(a) = x
            BY <4>1, <4>3, <5>1, <6>0
          <6>2. (a \o b)[k] = b[k - Len(a)]
            BY <6>1
          <6> QED BY <3>5, <6>1, <6>2
        <5>3. b[x] = edges[i + x] /\ i + x \in DOMAIN edges
          <6>1. b[x] = edges[i + x]
            BY <3>5
          <6>2. Len(edges) \in Nat /\ i \in 1..Len(edges) /\ x \in 1..(Len(edges) - i)
            BY <3>1
          <6>3. i + x \in 1..Len(edges)
            BY <6>2
          <6>4. DOMAIN edges = 1..Len(edges)
            BY <3>1
          <6> QED BY <6>1, <6>3, <6>4
        <5> QED BY <5>2, <5>3
      <4> QED BY <3>1, <4>1, <4>2, <4>3
    <3> QED BY <3>6
  <2> QED BY <2>1, <2>2 DEF HeldDown
<1>4. ASSUME NEW f \in Source, ExtractSource(f) \/ DeleteSource(f) PROVE HeldDown(gnode, edges)'
  BY <1>4 DEF ExtractSource, DeleteSource, HeldDown
<1>5. ASSUME NEW n \in GNode, NEW f \in Source, NEW match \in Match,
             Insert(n, f, match) \/ Propose(n, f, match)
      PROVE  HeldDown(gnode, edges)'
  <2>1. gnode[n] \notin NodeRow /\ edges' = edges /\ \A m \in GNode \ {n} : gnode'[m] = gnode[m]
    BY <1>5, NoNodeAssumption DEF Insert, Propose, GraphInv
  <2>2. HeldDown(gnode', edges)
    BY <2>1, RowsHeld
  <2> QED BY <2>1, <2>2 DEF HeldDown
<1> QED BY <1>1, <1>2, <1>3, <1>4, <1>5, ConnectHeld, ReviewHeld DEF GraphNext

(* A memory that another one supersedes stays withheld from plain asks, in *)
(* graphs of any size and through any number of edits, confirmations,      *)
(* approvals and links, unless a rollback has inserted its row anew.       *)
THEOREM SupersededStays == RecallSpec => []SupersededIsWithheld
<1>1. RecallInit => HeldDown(gnode, edges)
  <2> SUFFICES ASSUME RecallInit, NEW i \in DOMAIN edges PROVE edges[i].relation = "related_to"
    BY DEF HeldDown, Superseding
  <2>1. PICK k \in 0..MaxStart :
          edges \in [1..k -> {e \in {[kind |-> "link", from |-> n, to |-> m, relation |-> "related_to"] :
                                        n \in Shown, m \in Shown} : e.from # e.to}]
    BY DEF RecallInit, GraphInit, Starts
  <2> QED BY <2>1
<1>2. RecallInv /\ HeldDown(gnode, edges) /\ [RecallNext]_recallVars => HeldDown(gnode, edges)'
  BY GraphHeld DEF RecallInv, RecallNext, recallVars, graphVars
<1>3. RecallInv /\ HeldDown(gnode, edges) => SupersededIsWithheld
  <2> SUFFICES ASSUME RecallInv, HeldDown(gnode, edges),
                      NEW n \in Shown, SupersededBy(n) # {}, ~gnode[n].restored,
                      NEW o \in Options, ~o.stale, ~o.rejected
               PROVE  ~Recallable(n, o)
    BY DEF SupersededIsWithheld
  <2>1. PICK i \in DOMAIN edges : Superseding(edges[i]) /\ edges[i].to = n
    BY DEF SupersededBy, Range, Superseding
  <2>2. gnode[n].expired
    BY <2>1 DEF HeldDown, Down
  <2> QED BY <2>2 DEF Recallable, IsStaleLike
<1> QED BY <1>1, <1>2, <1>3, RecallAlways, PTL DEF RecallSpec

(***************************************************************************)
(* Chunks.                                                                 *)
(***************************************************************************)

ChunksSpec == ChunksInit /\ [][ChunksNext]_chunkVars

Texts == Seq(TextLine)

(* Facts about texts that the proofs below cite together. *)
LEMMA TextIs ==
  ASSUME NEW t \in Texts
  PROVE  Len(t) \in Nat /\ DOMAIN t = 1..Len(t) /\ \A k \in 1..Len(t) : t[k] \in TextLine
BY LenProperties, ElementOfSeq DEF Texts

(* Texts joined are a text. *)
LEMMA TextConcat == \A s, t \in Texts : s \o t \in Texts
BY ConcatProperties DEF Texts

(* A text and one more line. *)
LEMMA TextAppend ==
  ASSUME NEW t \in Texts, NEW x \in TextLine
  PROVE  /\ Append(t, x) \in Texts /\ Len(Append(t, x)) = Len(t) + 1
         /\ Append(t, x)[Len(t) + 1] = x /\ \A k \in 1..Len(t) : Append(t, x)[k] = t[k]
         /\ Append(t, x) = t \o <<x>> /\ <<x>> \in Texts
BY AppendProperties, AppendIsConcat DEF Texts

(* Keeping a line makes a text. *)
LEMMA KeptTyped == \A s \in Texts, x \in TextLine : Kept(s, x) \in Texts
BY TextAppend DEF Kept

(* Joining texts is associative. *)
LEMMA TextAssociative == \A s, t, u \in Texts : (s \o t) \o u = s \o (t \o u)
BY ConcatAssociative DEF Texts

(* The loop of FullLines, line by line. *)
FullEach(t, f) ==
  /\ f[0] = <<>>
  /\ \A k \in 1..Len(t) : f[k] = Kept(f[k-1], t[k])
  /\ FullLines(t) = f[Len(t)]

(* FullLines computes. *)
LEMMA FullLinesIs ==
  ASSUME NEW t \in Texts
  PROVE  \E f \in [0..Len(t) -> Texts] : FullEach(t, f)
<1> DEFINE n == Len(t)
           S == Texts
           G == [x \in (1..n) \X S |-> Kept(x[2], t[x[1]])]
<1>1. n \in Nat /\ \A k \in 1..n : t[k] \in TextLine
  BY TextIs
<1>2. \A a \in S, k \in 1..n : Kept(a, t[k]) \in S
  BY <1>1, KeptTyped
<1>3. G \in StepMaps(n, S) /\ <<>> \in S
  <2>1. <<>> \in S
    BY EmptySeq DEF Texts
  <2> HIDE DEF n, S
  <2> QED BY <1>1, <1>2, <2>1 DEF StepMaps
<1>4. PICK f \in [0..n -> S] : f = [k \in 0..n |-> IF k = 0 THEN <<>> ELSE G[<<k, f[k-1]>>]]
  <2> HIDE DEF G, n, S
  <2>1. \E f \in [0..n -> S] : Unrolls(f, n, <<>>, G)
    BY <1>1, <1>3, Recursion
  <2> QED BY <2>1 DEF Unrolls
<1>5. ASSUME NEW k \in 0..n, k # 0
      PROVE  G[<<k, f[k-1]>>] = Kept(f[k-1], t[k])
  <2> HIDE DEF n, S
  <2>1. k \in 1..n /\ f[k-1] \in S
    BY <1>1, <1>5
  <2> QED BY <2>1
<1>6. f = [k \in 0..n |-> IF k = 0 THEN <<>> ELSE Kept(f[k-1], t[k])]
  <2> HIDE DEF G, n, S
  <2> QED BY <1>4, <1>5
<1>7. PICK g : /\ g = [k \in 0..n |-> IF k = 0 THEN <<>> ELSE Kept(g[k-1], t[k])]
               /\ FullLines(t) = g[n]
  BY <1>6 DEF FullLines
<1>8. g[0] = <<>> /\ \A k \in 1..n : g[k] = Kept(g[k-1], t[k])
  <2> HIDE DEF n, S
  <2> QED BY <1>1, <1>7
<1>9. \A k \in 0..n : g[k] \in S
  <2> DEFINE T == {k \in 0..n : g[k] \in S}
  <2> HIDE DEF n, S
  <2>1. 0 \in T
    BY <1>1, <1>3, <1>8
  <2>2. ASSUME NEW k \in 1..n, k - 1 \in T PROVE k \in T
    <3>1. g[k] \in S
      BY <1>2, <1>8, <2>2
    <3> QED BY <3>1
  <2> HIDE DEF T
  <2>3. 0..n \subseteq T
    BY <1>1, <2>1, <2>2, StepsTo
  <2> QED BY <2>3 DEF T
<1>10. g \in [0..n -> S]
  <2> HIDE DEF n, S
  <2> QED BY <1>7, <1>9
<1> QED BY <1>7, <1>8, <1>10 DEF FullEach

(* A line more is one more full line, or none. *)
LEMMA FullAppend ==
  ASSUME NEW t \in Texts, NEW x \in TextLine
  PROVE  FullLines(Append(t, x)) = Kept(FullLines(t), x)
<1>1. PICK f \in [0..Len(t) -> Texts] : FullEach(t, f)
  BY FullLinesIs
<1>2. PICK u \in Texts : u = Append(t, x) /\ Len(u) = Len(t) + 1
                                 /\ u[Len(t) + 1] = x /\ \A k \in 1..Len(t) : u[k] = t[k]
  BY TextAppend
<1>3. PICK g \in [0..Len(u) -> Texts] : FullEach(u, g)
  BY FullLinesIs
<1>4. PICK n \in Nat : n = Len(t) /\ Len(u) = n + 1
  BY <1>2, TextIs
<1>5. 0..n \subseteq {k \in 0..n : f[k] = g[k]}
  <2> DEFINE T == {k \in 0..n : f[k] = g[k]}
  <2>1. 0 \in T
    BY <1>1, <1>3 DEF FullEach
  <2>2. ASSUME NEW k \in 1..n, k - 1 \in T PROVE k \in T
    <3>1. k \in 1..Len(u) /\ k \in 1..Len(t) /\ u[k] = t[k]
      BY <1>2, <1>4
    <3> QED BY <1>1, <1>3, <2>2, <3>1 DEF FullEach
  <2> HIDE DEF T
  <2>3. 0..n \subseteq T
    BY <2>1, <2>2, StepsTo
  <2> QED BY <2>3 DEF T
<1>6. g[n] = f[n] /\ f[n] = FullLines(t)
  BY <1>1, <1>4, <1>5 DEF FullEach
<1>7. FullLines(u) = g[n + 1] /\ g[n + 1] = Kept(g[n], x)
  <2>1. n + 1 \in 1..Len(u) /\ (n + 1) - 1 = n /\ u[n + 1] = x
    BY <1>2, <1>4
  <2> QED BY <1>3, <1>4, <2>1 DEF FullEach
<1> QED BY <1>2, <1>6, <1>7

(* The full lines of a text are a text. *)
LEMMA FullTyped == \A t \in Texts : FullLines(t) \in Texts
<1> SUFFICES ASSUME NEW t \in Texts PROVE FullLines(t) \in Texts
  OBVIOUS
<1>1. PICK f \in [0..Len(t) -> Texts] : FullEach(t, f)
  BY FullLinesIs
<1> QED BY <1>1, TextIs DEF FullEach

(* An empty text has none. *)
LEMMA FullEmpty == FullLines(<<>>) = <<>>
<1>1. PICK t \in Texts : t = <<>> /\ Len(t) = 0
  BY EmptySeq DEF Texts
<1>2. PICK f \in [0..Len(t) -> Texts] : FullEach(t, f)
  BY FullLinesIs
<1> QED BY <1>1, <1>2 DEF FullEach

(* Texts are built line by line. *)
LEMMA TextInduction ==
  ASSUME NEW P, P \subseteq Texts, <<>> \in P,
         \A t \in Texts, x \in TextLine : t \in P => Append(t, x) \in P
  PROVE  P = Texts
<1> DEFINE T == {n \in Nat : \A u \in Texts : Len(u) = n => u \in P}
<1>1. 0 \in T
  BY EmptySeq DEF Texts
<1>2. ASSUME NEW n \in Nat, n \in T PROVE n + 1 \in T
  <2> SUFFICES ASSUME NEW u \in Texts, Len(u) = n + 1 PROVE u \in P
    OBVIOUS
  <2>1. PICK v \in Texts, x \in TextLine : u = Append(v, x)
    <3>1. u # <<>>
      BY EmptySeq DEF Texts
    <3> QED BY <3>1, SequenceEmptyOrAppend DEF Texts
  <2>2. Len(v) \in Nat /\ Len(u) = Len(v) + 1
    BY <2>1, TextAppend, TextIs
  <2>3. Len(v) = n
    BY <2>2
  <2> QED BY <1>2, <2>1, <2>3
<1>3. Nat \subseteq T
  <2> HIDE DEF T
  <2> QED BY <1>1, <1>2, Steps
<1> QED BY <1>3, TextIs

(* The full lines of two texts, one after the other. *)
LEMMA FullConcat ==
  \A s, u \in Texts : FullLines(s \o u) = FullLines(s) \o FullLines(u)
<1> SUFFICES ASSUME NEW s \in Texts
             PROVE  \A u \in Texts : FullLines(s \o u) = FullLines(s) \o FullLines(u)
  OBVIOUS
<1> DEFINE P == {u \in Texts : FullLines(s \o u) = FullLines(s) \o FullLines(u)}
<1>1. <<>> \in P
  <2>1. <<>> \in Texts /\ s \o <<>> = s /\ FullLines(s) \o <<>> = FullLines(s)
    BY FullTyped, EmptySeq, ConcatEmptySeq DEF Texts
  <2> QED BY <2>1, FullEmpty
<1>2. ASSUME NEW v \in Texts, NEW x \in TextLine, v \in P PROVE Append(v, x) \in P
  <2>1. s \o Append(v, x) = Append(s \o v, x) /\ s \o v \in Texts /\ Append(v, x) \in Texts
    <3>1. (s \o v) \o <<x>> = s \o (v \o <<x>>)
      BY TextAppend, ConcatAssociative DEF Texts
    <3> QED BY <3>1, TextAppend, TextConcat
  <2>2. FullLines(s \o Append(v, x)) = Kept(FullLines(s) \o FullLines(v), x)
    BY <1>2, <2>1, FullAppend
  <2>3. PICK a \in Texts, b \in Texts : a = FullLines(s) /\ b = FullLines(v)
    BY FullTyped
  <2>4. Kept(a \o b, x) = a \o Kept(b, x)
    <3>1. (a \o b) \o <<x>> = a \o (b \o <<x>>)
      BY TextAppend, ConcatAssociative DEF Texts
    <3> QED BY <3>1, TextAppend, TextConcat DEF Kept
  <2>5. FullLines(Append(v, x)) = Kept(b, x)
    BY <2>3, FullAppend
  <2> QED BY <2>1, <2>2, <2>3, <2>4, <2>5
<1> HIDE DEF P
<1>3. P = Texts
  <2>1. P \subseteq Texts
    BY DEF P
  <2> QED BY <1>1, <1>2, <2>1, TextInduction
<1> QED BY <1>3 DEF P

(* The loop of FullLinesOf, text by text. *)
OfEach(p, f) ==
  /\ f[0] = <<>>
  /\ \A k \in 1..Len(p) : f[k] = f[k-1] \o FullLines(p[k])
  /\ FullLinesOf(p) = f[Len(p)]

(* FullLinesOf computes. *)
LEMMA FullLinesOfIs ==
  ASSUME NEW p \in Seq(Texts)
  PROVE  \E f \in [0..Len(p) -> Texts] : OfEach(p, f)
<1> DEFINE n == Len(p)
           S == Texts
           G == [x \in (1..n) \X S |-> x[2] \o FullLines(p[x[1]])]
<1>1. n \in Nat /\ \A k \in 1..n : p[k] \in Texts
  BY LenProperties, ElementOfSeq
<1>2. \A a \in S, k \in 1..n : a \o FullLines(p[k]) \in S
  BY <1>1, FullTyped, TextConcat
<1>3. G \in StepMaps(n, S) /\ <<>> \in S
  <2>1. <<>> \in S
    BY EmptySeq DEF Texts
  <2> HIDE DEF n, S
  <2> QED BY <1>1, <1>2, <2>1 DEF StepMaps
<1>4. PICK f \in [0..n -> S] : f = [k \in 0..n |-> IF k = 0 THEN <<>> ELSE G[<<k, f[k-1]>>]]
  <2> HIDE DEF G, n, S
  <2>1. \E f \in [0..n -> S] : Unrolls(f, n, <<>>, G)
    BY <1>1, <1>3, Recursion
  <2> QED BY <2>1 DEF Unrolls
<1>5. ASSUME NEW k \in 0..n, k # 0
      PROVE  G[<<k, f[k-1]>>] = f[k-1] \o FullLines(p[k])
  <2> HIDE DEF n, S
  <2>1. k \in 1..n /\ f[k-1] \in S
    BY <1>1, <1>5
  <2> QED BY <2>1
<1>6. f = [k \in 0..n |-> IF k = 0 THEN <<>> ELSE f[k-1] \o FullLines(p[k])]
  <2> HIDE DEF G, n, S
  <2> QED BY <1>4, <1>5
<1>7. PICK g : /\ g = [k \in 0..n |-> IF k = 0 THEN <<>> ELSE g[k-1] \o FullLines(p[k])]
               /\ FullLinesOf(p) = g[n]
  BY <1>6 DEF FullLinesOf
<1>8. g[0] = <<>> /\ \A k \in 1..n : g[k] = g[k-1] \o FullLines(p[k])
  <2> HIDE DEF n, S
  <2> QED BY <1>1, <1>7
<1>9. \A k \in 0..n : g[k] \in S
  <2> DEFINE T == {k \in 0..n : g[k] \in S}
  <2> HIDE DEF n, S
  <2>1. 0 \in T
    BY <1>1, <1>3, <1>8
  <2>2. ASSUME NEW k \in 1..n, k - 1 \in T PROVE k \in T
    <3>1. g[k] \in S
      BY <1>2, <1>8, <2>2
    <3> QED BY <3>1
  <2> HIDE DEF T
  <2>3. 0..n \subseteq T
    BY <1>1, <2>1, <2>2, StepsTo
  <2> QED BY <2>3 DEF T
<1>10. g \in [0..n -> S]
  <2> HIDE DEF n, S
  <2> QED BY <1>7, <1>9
<1> QED BY <1>7, <1>8, <1>10 DEF OfEach

(* The full lines of some texts, and of one more. *)
LEMMA OfAppend ==
  ASSUME NEW p \in Seq(Texts), NEW x \in Texts
  PROVE  FullLinesOf(Append(p, x)) = FullLinesOf(p) \o FullLines(x)
<1>1. PICK f \in [0..Len(p) -> Texts] : OfEach(p, f)
  BY FullLinesOfIs
<1>2. PICK u \in Seq(Texts) : u = Append(p, x) /\ Len(u) = Len(p) + 1
                              /\ u[Len(p) + 1] = x /\ \A k \in 1..Len(p) : u[k] = p[k]
  BY AppendProperties
<1>3. PICK g \in [0..Len(u) -> Texts] : OfEach(u, g)
  BY FullLinesOfIs
<1>4. PICK n \in Nat : n = Len(p) /\ Len(u) = n + 1
  BY <1>2, LenProperties
<1>5. 0..n \subseteq {k \in 0..n : f[k] = g[k]}
  <2> DEFINE T == {k \in 0..n : f[k] = g[k]}
  <2>1. 0 \in T
    BY <1>1, <1>3 DEF OfEach
  <2>2. ASSUME NEW k \in 1..n, k - 1 \in T PROVE k \in T
    <3>1. k \in 1..Len(u) /\ k \in 1..Len(p) /\ u[k] = p[k]
      BY <1>2, <1>4
    <3> QED BY <1>1, <1>3, <2>2, <3>1 DEF OfEach
  <2> HIDE DEF T
  <2>3. 0..n \subseteq T
    BY <2>1, <2>2, StepsTo
  <2> QED BY <2>3 DEF T
<1>6. g[n] = f[n] /\ f[n] = FullLinesOf(p)
  BY <1>1, <1>4, <1>5 DEF OfEach
<1>7. FullLinesOf(u) = g[n + 1] /\ g[n + 1] = g[n] \o FullLines(x)
  <2>1. n + 1 \in 1..Len(u) /\ (n + 1) - 1 = n /\ u[n + 1] = x
    BY <1>2, <1>4
  <2> QED BY <1>3, <1>4, <2>1 DEF OfEach
<1> QED BY <1>2, <1>6, <1>7

(* The full lines of some texts are a text. *)
LEMMA OfTyped == \A p \in Seq(Texts) : FullLinesOf(p) \in Texts
<1> SUFFICES ASSUME NEW p \in Seq(Texts) PROVE FullLinesOf(p) \in Texts
  OBVIOUS
<1>1. PICK f \in [0..Len(p) -> Texts] : OfEach(p, f)
  BY FullLinesOfIs
<1>2. Len(p) \in 0..Len(p)
  BY LenProperties
<1> QED BY <1>1, <1>2 DEF OfEach

(* No texts have none. *)
LEMMA OfEmpty == FullLinesOf(<<>>) = <<>> /\ <<>> \in Seq(Texts)
<1>1. PICK p \in Seq(Texts) : p = <<>> /\ Len(p) = 0
  BY EmptySeq
<1>2. PICK f \in [0..Len(p) -> Texts] : OfEach(p, f)
  BY FullLinesOfIs
<1> QED BY <1>1, <1>2 DEF OfEach

(* One text has its own. *)
LEMMA OfOne == \A x \in Texts : FullLinesOf(<<x>>) = FullLines(x) /\ <<x>> \in Seq(Texts)
<1> SUFFICES ASSUME NEW x \in Texts
             PROVE  FullLinesOf(<<x>>) = FullLines(x) /\ <<x>> \in Seq(Texts)
  OBVIOUS
<1>1. <<x>> = Append(<<>>, x) /\ <<x>> \in Seq(Texts)
  OBVIOUS
<1>2. <<>> \o FullLines(x) = FullLines(x)
  BY FullTyped, ConcatEmptySeq DEF Texts
<1> QED BY <1>1, <1>2, OfEmpty, OfAppend

(* Sequences of texts are built text by text. *)
LEMMA TextsInduction ==
  ASSUME NEW P, P \subseteq Seq(Texts), <<>> \in P,
         \A p \in Seq(Texts), x \in Texts : p \in P => Append(p, x) \in P
  PROVE  P = Seq(Texts)
<1> DEFINE T == {n \in Nat : \A u \in Seq(Texts) : Len(u) = n => u \in P}
<1>1. 0 \in T
  BY EmptySeq
<1>2. ASSUME NEW n \in Nat, n \in T PROVE n + 1 \in T
  <2> SUFFICES ASSUME NEW u \in Seq(Texts), Len(u) = n + 1 PROVE u \in P
    OBVIOUS
  <2>1. PICK v \in Seq(Texts), x \in Texts : u = Append(v, x)
    <3>1. u # <<>>
      BY EmptySeq
    <3> QED BY <3>1, SequenceEmptyOrAppend
  <2>2. Len(v) \in Nat /\ Len(u) = Len(v) + 1
    BY <2>1, AppendProperties, LenProperties
  <2>3. Len(v) = n
    BY <2>2
  <2> QED BY <1>2, <2>1, <2>3
<1>3. Nat \subseteq T
  <2> HIDE DEF T
  <2> QED BY <1>1, <1>2, Steps
<1> QED BY <1>3, LenProperties

(* The full lines of two sequences of texts, one after the other. *)
LEMMA OfConcat ==
  \A p, q \in Seq(Texts) : FullLinesOf(p \o q) = FullLinesOf(p) \o FullLinesOf(q)
<1> SUFFICES ASSUME NEW p \in Seq(Texts)
             PROVE  \A q \in Seq(Texts) : FullLinesOf(p \o q) = FullLinesOf(p) \o FullLinesOf(q)
  OBVIOUS
<1> DEFINE P == {q \in Seq(Texts) : FullLinesOf(p \o q) = FullLinesOf(p) \o FullLinesOf(q)}
<1>1. <<>> \in P
  <2>1. p \o <<>> = p /\ FullLinesOf(p) \o <<>> = FullLinesOf(p)
    BY OfTyped, ConcatEmptySeq DEF Texts
  <2> QED BY <2>1, OfEmpty
<1>2. ASSUME NEW v \in Seq(Texts), NEW x \in Texts, v \in P PROVE Append(v, x) \in P
  <2>1. p \o Append(v, x) = Append(p \o v, x) /\ p \o v \in Seq(Texts) /\ Append(v, x) \in Seq(Texts)
    <3> DEFINE B == Texts
    <3>1. <<x>> \in Seq(B)
      OBVIOUS
    <3> HIDE DEF B
    <3>2. p \in Seq(B) /\ v \in Seq(B) /\ x \in B
      BY DEF B
    <3>3. (p \o v) \o <<x>> = p \o (v \o <<x>>)
      BY <3>1, <3>2, ConcatAssociative
    <3>4. p \o v \in Seq(B)
      BY <3>2, ConcatProperties
    <3>5. Append(p \o v, x) = (p \o v) \o <<x>> /\ Append(v, x) = v \o <<x>> /\ Append(v, x) \in Seq(B)
      BY <3>2, <3>4, AppendIsConcat, AppendProperties
    <3> QED BY <3>3, <3>4, <3>5 DEF B
  <2>2. FullLinesOf(p \o Append(v, x)) = (FullLinesOf(p) \o FullLinesOf(v)) \o FullLines(x)
    BY <1>2, <2>1, OfAppend
  <2>3. @ = FullLinesOf(p) \o (FullLinesOf(v) \o FullLines(x))
    BY OfTyped, FullTyped, ConcatAssociative DEF Texts
  <2> QED BY <2>1, <2>2, <2>3, OfAppend
<1> HIDE DEF P
<1>3. P = Seq(Texts)
  <2>1. P \subseteq Seq(Texts)
    BY DEF P
  <2> QED BY <1>1, <1>2, <2>1, TextsInduction
<1> QED BY <1>3 DEF P

(* Keeping a line after joining is keeping it before. *)
LEMMA KeptConcat ==
  ASSUME NEW a \in Texts, NEW b \in Texts, NEW x \in TextLine
  PROVE  Kept(a \o b, x) = a \o Kept(b, x) /\ Kept(a, x) = a \o FullLines(<<x>>)
<1>1. (a \o b) \o <<x>> = a \o (b \o <<x>>)
  BY TextAppend, ConcatAssociative DEF Texts
<1>2. Kept(a \o b, x) = a \o Kept(b, x)
  BY <1>1, TextAppend, TextConcat DEF Kept
<1>3. <<>> \in Texts /\ a \o <<>> = a
  BY EmptySeq, ConcatEmptySeq DEF Texts
<1>4. Append(<<>>, x) = <<x>>
  BY <1>3, TextAppend DEF Texts
<1>5. FullLines(<<x>>) = Kept(<<>>, x)
  BY <1>3, <1>4, FullAppend, FullEmpty
<1>6. Kept(a, x) = a \o Kept(<<>>, x)
  BY <1>3, <1>4, TextAppend DEF Kept
<1> QED BY <1>2, <1>5, <1>6

(* A line that joins the last of some texts is added to that text. *)
LEMMA ExtendedIs ==
  ASSUME NEW groups \in Seq(Texts), groups # <<>>, NEW x \in TextLine
  PROVE  \E h \in Seq(Texts), p \in Texts :
           /\ groups = Append(h, p) /\ p = groups[Len(groups)]
           /\ Extended(groups, x) = Append(h, Append(p, x))
<1>1. PICK h \in Seq(Texts), p \in Texts : groups = Append(h, p)
  BY SequenceEmptyOrAppend
<1>2. PICK n \in Nat : n = Len(h) /\ Len(groups) = n + 1 /\ groups[n + 1] = p
                       /\ \A k \in 1..n : groups[k] = h[k]
  BY <1>1, AppendProperties, LenProperties
<1>3. PICK q \in Texts : q = Append(p, x)
  BY TextAppend
<1>4. PICK u \in Seq(Texts) : u = Append(h, q) /\ Len(u) = n + 1
                              /\ u[n + 1] = q /\ \A k \in 1..n : u[k] = h[k]
  <2>1. /\ Append(h, q) \in Seq(Texts) /\ Len(Append(h, q)) = n + 1
        /\ \A k \in 1..n : Append(h, q)[k] = h[k]
    BY <1>2, AppendProperties
  <2>2. Append(h, q)[Len(h) + 1] = q
    BY AppendProperties
  <2> QED BY <1>2, <2>1, <2>2
<1>5. PICK v \in Seq(Texts) : v = Extended(groups, x) /\ Len(v) = n + 1
                              /\ \A k \in 1..(n + 1) : v[k] = IF k = n + 1 THEN q ELSE groups[k]
  <2>1. n + 1 \in 1..Len(groups)
    BY <1>2
  <2>2. Extended(groups, x) = [groups EXCEPT ![n + 1] = q]
    BY <1>2, <1>3 DEF Extended
  <2>3. /\ [groups EXCEPT ![n + 1] = q] \in Seq(Texts)
        /\ Len([groups EXCEPT ![n + 1] = q]) = n + 1
        /\ \A k \in 1..(n + 1) : [groups EXCEPT ![n + 1] = q][k] = IF k = n + 1 THEN q ELSE groups[k]
    BY <1>2, <2>1, ExceptSeq
  <2> QED BY <2>2, <2>3
<1>6. ASSUME NEW k \in 1..(n + 1) PROVE v[k] = u[k]
  <2>1. CASE k = n + 1
    BY <1>4, <1>5, <2>1
  <2>2. CASE k # n + 1
    <3>1. k \in 1..n
      BY <2>2
    <3> QED BY <1>2, <1>4, <1>5, <2>2, <3>1
  <2> QED BY <2>1, <2>2
<1>7. u = v
  BY <1>4, <1>5, <1>6, SeqEqual
<1> QED BY <1>1, <1>2, <1>3, <1>4, <1>5, <1>7

(* So its full lines are kept. *)
LEMMA OfExtended ==
  ASSUME NEW groups \in Seq(Texts), groups # <<>>, NEW x \in TextLine
  PROVE  FullLinesOf(Extended(groups, x)) = Kept(FullLinesOf(groups), x)
<1>1. PICK h \in Seq(Texts), p \in Texts :
        groups = Append(h, p) /\ Extended(groups, x) = Append(h, Append(p, x))
  BY ExtendedIs
<1>2. FullLinesOf(groups) = FullLinesOf(h) \o FullLines(p)
  BY <1>1, OfAppend
<1>3. FullLinesOf(Extended(groups, x)) = FullLinesOf(h) \o Kept(FullLines(p), x)
  <2>1. PICK q \in Texts : q = Append(p, x)
    BY TextAppend
  <2>2. FullLinesOf(Append(h, q)) = FullLinesOf(h) \o FullLines(q)
    BY OfAppend
  <2>3. FullLines(q) = Kept(FullLines(p), x)
    BY <2>1, FullAppend
  <2> QED BY <1>1, <2>1, <2>2, <2>3
<1>4. PICK a \in Texts, b \in Texts : a = FullLinesOf(h) /\ b = FullLines(p)
  BY OfTyped, FullTyped
<1>5. Kept(a \o b, x) = a \o Kept(b, x)
  BY KeptConcat
<1> QED BY <1>2, <1>3, <1>4, <1>5

(* And so are those of a line that begins a text. *)
LEMMA OfAnother ==
  ASSUME NEW groups \in Seq(Texts), NEW x \in TextLine
  PROVE  FullLinesOf(Append(groups, <<x>>)) = Kept(FullLinesOf(groups), x)
<1>1. <<x>> \in Texts
  BY EmptySeq, TextAppend DEF Texts
<1> QED BY <1>1, OfAppend, KeptConcat, OfTyped

-----------------------------------------------------------------------------
(* Sections: none is empty, and a heading only begins one. *)
Pieces == {s \in Texts : s # <<>> /\ \A j \in 2..Len(s) : s[j] # "h"}

(* Sections are texts. *)
LEMMA PiecesAreTexts == \A p \in Seq(Pieces) : p \in Seq(Texts)
<1>1. Pieces \subseteq Texts
  BY DEF Pieces
<1> QED BY <1>1, SeqMonotonic

(* One line of Sections: it is kept, and heads only begin sections. *)
LEMMA SectionedTyped ==
  ASSUME NEW s \in Seq(Pieces), NEW x \in TextLine
  PROVE  /\ Sectioned(s, x) \in Seq(Pieces)
         /\ FullLinesOf(Sectioned(s, x)) = Kept(FullLinesOf(s), x)
<1>1. CASE s = <<>> \/ x = "h"
  <2>1. <<x>> \in Pieces
    <3>1. <<x>> \in Texts /\ Len(<<x>>) = 1 /\ <<x>> # <<>>
      BY EmptySeq, TextAppend DEF Texts
    <3> QED BY <3>1 DEF Pieces
  <2>2. Append(s, <<x>>) \in Seq(Pieces)
    BY <2>1, AppendProperties
  <2> QED BY <1>1, <2>2, PiecesAreTexts, OfAnother DEF Sectioned
<1>2. CASE s # <<>> /\ x # "h"
  <2>1. Sectioned(s, x) = Extended(s, x) /\ s \in Seq(Texts)
    BY <1>2, PiecesAreTexts DEF Sectioned
  <2>2. PICK n \in Nat \ {0} : n = Len(s) /\ s[n] \in Pieces
    <3>1. Len(s) \in Nat \ {0}
      BY <1>2, EmptySeq
    <3>2. Len(s) \in 1..Len(s)
      BY <3>1
    <3> QED BY <3>1, <3>2, ElementOfSeq
  <2>3. Append(s[n], x) \in Pieces
    <3>1. PICK p \in Texts : p = s[n] /\ p # <<>> /\ \A j \in 2..Len(p) : p[j] # "h"
      BY <2>2 DEF Pieces
    <3>2. PICK u \in Texts : u = Append(p, x) /\ Len(u) = Len(p) + 1 /\ u[Len(p) + 1] = x
                             /\ \A k \in 1..Len(p) : u[k] = p[k]
      BY TextAppend
    <3>3. Len(p) \in Nat
      BY TextIs
    <3>4. u # <<>>
      BY <3>2, <3>3, EmptySeq
    <3>5. ASSUME NEW j \in 2..Len(u) PROVE u[j] # "h"
      <4>1. CASE j = Len(p) + 1
        BY <1>2, <3>2, <4>1
      <4>2. CASE j # Len(p) + 1
        <5>1. j \in 1..Len(p) /\ j \in 2..Len(p)
          BY <3>2, <3>3, <4>2
        <5> QED BY <3>1, <3>2, <5>1
      <4> QED BY <4>1, <4>2
    <3> QED BY <3>1, <3>2, <3>4, <3>5 DEF Pieces
  <2>4. Extended(s, x) \in Seq(Pieces)
    <3>1. n \in 1..Len(s)
      BY <2>2
    <3> QED BY <2>2, <2>3, <3>1, ExceptSeq DEF Extended
  <2> QED BY <1>2, <2>1, <2>4, OfExtended
<1> QED BY <1>1, <1>2

(* The loop of Sections, line by line. *)
SectionEach(t, f) ==
  /\ f[0] = <<>>
  /\ \A k \in 1..Len(t) : f[k] = Sectioned(f[k-1], t[k])
  /\ Sections(t) = f[Len(t)]

(* Sections computes. *)
LEMMA SectionsIs ==
  ASSUME NEW t \in Texts
  PROVE  \E f \in [0..Len(t) -> Seq(Pieces)] : SectionEach(t, f)
<1> DEFINE n == Len(t)
           S == Seq(Pieces)
           G == [x \in (1..n) \X S |-> Sectioned(x[2], t[x[1]])]
<1>1. n \in Nat /\ \A k \in 1..n : t[k] \in TextLine
  BY TextIs
<1>2. \A a \in S, k \in 1..n : Sectioned(a, t[k]) \in S
  BY <1>1, SectionedTyped
<1>3. G \in StepMaps(n, S) /\ <<>> \in S
  <2>1. <<>> \in S
    BY EmptySeq
  <2> HIDE DEF n, S
  <2> QED BY <1>1, <1>2, <2>1 DEF StepMaps
<1>4. PICK f \in [0..n -> S] : f = [k \in 0..n |-> IF k = 0 THEN <<>> ELSE G[<<k, f[k-1]>>]]
  <2> HIDE DEF G, n, S
  <2>1. \E f \in [0..n -> S] : Unrolls(f, n, <<>>, G)
    BY <1>1, <1>3, Recursion
  <2> QED BY <2>1 DEF Unrolls
<1>5. ASSUME NEW k \in 0..n, k # 0
      PROVE  G[<<k, f[k-1]>>] = Sectioned(f[k-1], t[k])
  <2> HIDE DEF n, S
  <2>1. k \in 1..n /\ f[k-1] \in S
    BY <1>1, <1>5
  <2> QED BY <2>1
<1>6. f = [k \in 0..n |-> IF k = 0 THEN <<>> ELSE Sectioned(f[k-1], t[k])]
  <2> HIDE DEF G, n, S
  <2> QED BY <1>4, <1>5
<1>7. PICK g : /\ g = [k \in 0..n |-> IF k = 0 THEN <<>> ELSE Sectioned(g[k-1], t[k])]
               /\ Sections(t) = g[n]
  BY <1>6 DEF Sections
<1>8. g[0] = <<>> /\ \A k \in 1..n : g[k] = Sectioned(g[k-1], t[k])
  <2> HIDE DEF n, S
  <2> QED BY <1>1, <1>7
<1>9. \A k \in 0..n : g[k] \in S
  <2> DEFINE T == {k \in 0..n : g[k] \in S}
  <2> HIDE DEF n, S
  <2>1. 0 \in T
    BY <1>1, <1>3, <1>8
  <2>2. ASSUME NEW k \in 1..n, k - 1 \in T PROVE k \in T
    <3>1. g[k] \in S
      BY <1>2, <1>8, <2>2
    <3> QED BY <3>1
  <2> HIDE DEF T
  <2>3. 0..n \subseteq T
    BY <1>1, <2>1, <2>2, StepsTo
  <2> QED BY <2>3 DEF T
<1>10. g \in [0..n -> S]
  <2> HIDE DEF n, S
  <2> QED BY <1>7, <1>9
<1> QED BY <1>7, <1>8, <1>10 DEF SectionEach

(* The sections have the text's full lines. *)
LEMMA SectionsKeep ==
  ASSUME NEW t \in Texts
  PROVE  Sections(t) \in Seq(Pieces) /\ FullLinesOf(Sections(t)) = FullLines(t)
<1>1. PICK f \in [0..Len(t) -> Seq(Pieces)] : SectionEach(t, f)
  BY SectionsIs
<1>2. PICK g \in [0..Len(t) -> Texts] : FullEach(t, g)
  BY FullLinesIs
<1>3. PICK n \in Nat : n = Len(t)
  BY TextIs
<1> DEFINE T == {k \in 0..n : FullLinesOf(f[k]) = g[k]}
<1>4. 0 \in T
  BY <1>1, <1>2, OfEmpty DEF SectionEach, FullEach
<1>5. ASSUME NEW k \in 1..n, k - 1 \in T PROVE k \in T
  <2>1. k \in 1..Len(t) /\ t[k] \in TextLine /\ k - 1 \in 0..Len(t) /\ k \in 0..n
    BY <1>3, TextIs
  <2>2. f[k-1] \in Seq(Pieces) /\ f[k] = Sectioned(f[k-1], t[k]) /\ g[k] = Kept(g[k-1], t[k])
    BY <1>1, <1>2, <2>1 DEF SectionEach, FullEach
  <2>3. FullLinesOf(f[k]) = Kept(FullLinesOf(f[k-1]), t[k])
    BY <2>1, <2>2, SectionedTyped
  <2> QED BY <1>5, <2>1, <2>2, <2>3
<1> HIDE DEF T
<1>6. n \in T
  <2>1. 0..n \subseteq T
    BY <1>4, <1>5, StepsTo
  <2> QED BY <2>1
<1> QED BY <1>1, <1>2, <1>3, <1>6 DEF T, SectionEach, FullEach

-----------------------------------------------------------------------------
(* Trim takes blank lines alone. *)

(* A set of places in a text has a first one. *)
LEMMA MinIs ==
  ASSUME NEW n \in Nat, NEW S, S \subseteq 1..n, S # {}
  PROVE  Min(S) \in S /\ \A y \in S : Min(S) <= y
<1> DEFINE U == {k \in 0..n : \A y \in S : y > k}
<1>1. ASSUME \A x \in S : \E y \in S : ~(x =< y) PROVE FALSE
  <2>1. 0 \in U
    OBVIOUS
  <2>2. ASSUME NEW k \in 1..n, k - 1 \in U PROVE k \in U
    <3>1. \A y \in S : y >= k
      BY <2>2
    <3>2. k \notin S
      BY <1>1, <3>1
    <3>3. \A y \in S : y > k
      BY <3>1, <3>2
    <3> QED BY <3>3
  <2> HIDE DEF U
  <2>3. n \in U
    BY <2>1, <2>2, StepsTo
  <2>4. PICK y \in S : y \in 1..n
    OBVIOUS
  <2> QED BY <2>3, <2>4 DEF U
<1>2. PICK x \in S : \A y \in S : x =< y
  BY <1>1
<1> QED BY <1>2 DEF Min

(* And a last one. *)
LEMMA MaxIs ==
  ASSUME NEW n \in Nat, NEW S, S \subseteq 1..n, S # {}
  PROVE  Max(S) \in S /\ \A y \in S : Max(S) >= y
<1> DEFINE U == {k \in 0..n : \A y \in S : y <= n - k}
<1>1. ASSUME \A x \in S : \E y \in S : ~(x >= y) PROVE FALSE
  <2>1. 0 \in U
    OBVIOUS
  <2>2. ASSUME NEW k \in 1..n, k - 1 \in U PROVE k \in U
    <3>1. \A y \in S : y <= n - k + 1
      BY <2>2
    <3>2. n - k + 1 \notin S
      BY <1>1, <3>1
    <3>3. \A y \in S : y <= n - k
      BY <3>1, <3>2
    <3> QED BY <3>3
  <2> HIDE DEF U
  <2>3. n \in U
    BY <2>1, <2>2, StepsTo
  <2>4. PICK y \in S : y \in 1..n
    OBVIOUS
  <2> QED BY <2>3, <2>4 DEF U
<1>2. PICK x \in S : \A y \in S : x >= y
  BY <1>1
<1> QED BY <1>2 DEF Max

Blanks == {t \in Texts : \A j \in 1..Len(t) : ~IsFull(t[j])}

(* Blank lines have no full line among them. *)
LEMMA BlanksAreNone == \A t \in Blanks : FullLines(t) = <<>>
<1> DEFINE P == {t \in Texts : t \in Blanks => FullLines(t) = <<>>}
<1>1. <<>> \in P
  BY FullEmpty, EmptySeq DEF Texts
<1>2. ASSUME NEW t \in Texts, NEW x \in TextLine, t \in P PROVE Append(t, x) \in P
  <2>1. PICK u \in Texts : u = Append(t, x) /\ Len(u) = Len(t) + 1
                           /\ u[Len(t) + 1] = x /\ \A k \in 1..Len(t) : u[k] = t[k]
    BY TextAppend
  <2>2. ASSUME u \in Blanks PROVE FullLines(u) = <<>>
    <3>1. PICK n \in Nat : n = Len(t)
      BY TextIs
    <3>2. \A k \in 1..n : k \in 1..Len(u)
      BY <2>1, <3>1
    <3>3. n + 1 \in 1..Len(u)
      BY <2>1, <3>1
    <3>4. t \in Blanks /\ ~IsFull(x)
      BY <2>1, <2>2, <3>1, <3>2, <3>3 DEF Blanks
    <3> QED BY <1>2, <2>1, <3>4, FullAppend DEF Kept
  <2> QED BY <2>1, <2>2
<1> HIDE DEF P
<1>3. P = Texts
  <2>1. P \subseteq Texts
    BY DEF P
  <2> QED BY <1>1, <1>2, <2>1, TextInduction
<1> QED BY <1>3 DEF P, Blanks

(* What Trim cuts off is blank, before and after. *)
LEMMA TrimKeeps ==
  ASSUME NEW t \in Texts
  PROVE  /\ Trim(t) \in Texts /\ FullLines(Trim(t)) = FullLines(t)
         /\ (\A j \in 2..Len(t) : t[j] # "h") => \A j \in 2..Len(Trim(t)) : Trim(t)[j] # "h"
<1> DEFINE full == {i \in 1..Len(t) : IsFull(t[i])}
<1>0. DOMAIN t = 1..Len(t)
  BY TextIs
<1>1. CASE full = {}
  <2>1. Trim(t) = <<>> /\ <<>> \in Texts /\ Len(<<>>) = 0
    BY <1>0, <1>1, EmptySeq DEF Trim, Texts
  <2>2. t \in Blanks
    BY <1>1 DEF Blanks
  <2> QED BY <2>1, <2>2, BlanksAreNone, FullEmpty
<1>2. CASE full # {}
  <2>1. PICK n \in Nat : n = Len(t)
    BY TextIs
  <2>2. PICK a, b \in full : /\ a = Min(full) /\ \A y \in full : a <= y
                             /\ b = Max(full) /\ \A y \in full : b >= y
    <3> DEFINE F == full
    <3>1. F \subseteq 1..n /\ F # {}
      BY <1>2, <2>1
    <3> HIDE DEF full, F
    <3>2. /\ Min(F) \in F /\ \A y \in F : Min(F) <= y
          /\ Max(F) \in F /\ \A y \in F : Max(F) >= y
      BY <3>1, MinIs, MaxIs
    <3> QED BY <3>2 DEF F
  <2>3. a \in 1..n /\ b \in a..n /\ \A i \in 1..n : i < a \/ i > b => ~IsFull(t[i])
    <3>1. a \in 1..n /\ b \in 1..n /\ a <= b
      BY <2>1, <2>2
    <3>2. ASSUME NEW i \in 1..n, IsFull(t[i]) PROVE ~(i < a \/ i > b)
      <4>1. i \in full
        BY <2>1, <3>2
      <4>2. a <= i /\ b >= i
        BY <2>2, <4>1
      <4> QED BY <3>1, <4>2
    <3> QED BY <3>1, <3>2
  <2>4. Trim(t) = SubSeq(t, a, b)
    BY <1>0, <1>2, <2>2 DEF Trim
  <2> HIDE DEF full
  <2>5. PICK u : u = SubSeq(t, a, b) /\ u \in Texts /\ Len(u) = b - a + 1
                 /\ \A i \in 1..(b - a + 1) : u[i] = t[a + i - 1]
    <3>1. \A i \in a..b : t[i] \in TextLine
      BY <2>1, <2>3, TextIs
    <3>2. a \in Int /\ b \in Int /\ a <= b
      BY <2>3
    <3>3. /\ SubSeq(t, a, b) \in Texts
          /\ Len(SubSeq(t, a, b)) = IF a <= b THEN b - a + 1 ELSE 0
          /\ \A i \in 1..(b - a + 1) : SubSeq(t, a, b)[i] = t[a + i - 1]
      BY <3>1, <3>2, SubSeqProperties DEF Texts
    <3> QED BY <3>2, <3>3
  <2>6. PICK v : v = SubSeq(t, 1, a - 1) /\ v \in Blanks
    <3>1. \A i \in 1..(a - 1) : t[i] \in TextLine /\ ~IsFull(t[i])
      BY <2>1, <2>3, TextIs
    <3>2. 1 \in Int /\ a - 1 \in Int /\ (a - 1) - 1 + 1 = a - 1 /\ \A i \in Int : 1 + i - 1 = i
      BY <2>3
    <3>3. /\ SubSeq(t, 1, a - 1) \in Texts
          /\ Len(SubSeq(t, 1, a - 1)) = IF 1 <= a - 1 THEN (a - 1) - 1 + 1 ELSE 0
          /\ \A i \in 1..(a - 1) : SubSeq(t, 1, a - 1)[i] = t[i]
      BY <3>1, <3>2, SubSeqProperties DEF Texts
    <3>4. Len(SubSeq(t, 1, a - 1)) = a - 1
      BY <2>3, <3>3
    <3> QED BY <3>1, <3>3, <3>4 DEF Blanks
  <2>7. PICK w : w = SubSeq(t, b + 1, n) /\ w \in Blanks
    <3>1. \A i \in (b + 1)..n : t[i] \in TextLine /\ ~IsFull(t[i])
      BY <2>1, <2>3, TextIs
    <3>2. b + 1 \in Int /\ n \in Int
      BY <2>3
    <3>3. /\ SubSeq(t, b + 1, n) \in Texts
          /\ Len(SubSeq(t, b + 1, n)) = IF b + 1 <= n THEN n - (b + 1) + 1 ELSE 0
          /\ \A i \in 1..(n - (b + 1) + 1) : SubSeq(t, b + 1, n)[i] = t[b + 1 + i - 1]
      BY <3>1, <3>2, SubSeqProperties DEF Texts
    <3>4. ASSUME NEW i \in 1..Len(SubSeq(t, b + 1, n)) PROVE ~IsFull(SubSeq(t, b + 1, n)[i])
      <4>1. i \in 1..(n - (b + 1) + 1) /\ b + 1 + i - 1 \in (b + 1)..n
        BY <2>3, <3>3
      <4> QED BY <3>1, <3>3, <4>1
    <3> QED BY <3>3, <3>4 DEF Blanks
  <2>8. t = (v \o u) \o w
    <3>1. v \o u = SubSeq(t, 1, b)
      <4>1. 1 \in 1..(Len(t) + 1) /\ a - 1 \in (1 - 1)..Len(t) /\ b \in (a - 1)..Len(t) /\ (a - 1) + 1 = a
        BY <2>1, <2>3
      <4>2. SubSeq(t, 1, a - 1) \o SubSeq(t, (a - 1) + 1, b) = SubSeq(t, 1, b)
        BY <4>1, ConcatAdjacentSubSeq DEF Texts
      <4> QED BY <2>5, <2>6, <4>1, <4>2
    <3>2. SubSeq(t, 1, b) \o w = SubSeq(t, 1, n)
      <4>1. 1 \in 1..(Len(t) + 1) /\ b \in (1 - 1)..Len(t) /\ n \in b..Len(t)
        BY <2>1, <2>3
      <4> QED BY <2>7, <4>1, ConcatAdjacentSubSeq DEF Texts
    <3> QED BY <2>1, <3>1, <3>2, SubSeqFull DEF Texts
  <2>9. FullLines(t) = FullLines(u)
    <3>1. v \in Texts /\ w \in Texts /\ FullLines(v) = <<>> /\ FullLines(w) = <<>>
      BY <2>6, <2>7, BlanksAreNone DEF Blanks
    <3>2. FullLines(t) = (<<>> \o FullLines(u)) \o <<>>
      <4>1. v \o u \in Texts /\ u \in Texts
        BY <2>5, <3>1, TextConcat
      <4>2. FullLines(v \o u) = <<>> \o FullLines(u)
        BY <3>1, <4>1, FullConcat
      <4>3. FullLines((v \o u) \o w) = FullLines(v \o u) \o <<>>
        <5>1. PICK x \in Texts : x = v \o u
          BY <4>1
        <5>2. FullLines(x \o w) = FullLines(x) \o FullLines(w)
          BY <3>1, FullConcat
        <5> QED BY <3>1, <5>1, <5>2
      <4> QED BY <2>8, <4>2, <4>3
    <3> QED BY <2>5, <3>2, FullTyped, ConcatEmptySeq DEF Texts
  <2>10. ASSUME \A j \in 2..Len(t) : t[j] # "h", NEW j \in 2..Len(u) PROVE u[j] # "h"
    <3>1. j \in 1..(b - a + 1) /\ a + j - 1 \in 2..Len(t)
      BY <2>1, <2>3, <2>5
    <3> QED BY <2>5, <2>10, <3>1
  <2> QED BY <2>4, <2>5, <2>9, <2>10
<1> QED BY <1>1, <1>2

-----------------------------------------------------------------------------
(* Paragraphs: of full lines alone, with a heading only at the very start. *)
Paras == {p \in Texts : p # <<>> /\ \A j \in 1..Len(p) : IsFull(p[j])}

HeadsFirst(c) == \A j \in 1..Len(c) : c[j] = "h" => j = 1

OneHead(groups) ==
  \A i \in 1..Len(groups) : \A j \in 1..Len(groups[i]) : groups[i][j] = "h" => i = 1 /\ j = 1

(* Paragraphs are texts. *)
LEMMA ParasAreTexts == \A p \in Seq(Paras) : p \in Seq(Texts)
<1>1. Paras \subseteq Texts
  BY DEF Paras
<1> QED BY <1>1, SeqMonotonic

(* A line is a text. *)
LEMMA OneLine ==
  ASSUME NEW x \in TextLine
  PROVE  <<x>> \in Texts /\ Len(<<x>>) = 1 /\ <<x>>[1] = x /\ <<x>> # <<>>
BY EmptySeq, TextAppend DEF Texts

(* One line of Paragraphs. *)
LEMMA ParagraphedTyped ==
  ASSUME NEW t \in Texts, NEW s \in Seq(Paras), NEW k \in 1..Len(t)
  PROVE  Paragraphed(s, t, k) \in Seq(Paras)
<1>1. PICK x \in TextLine : x = t[k]
  BY TextIs
<1>2. CASE ~IsFull(x)
  BY <1>1, <1>2 DEF Paragraphed
<1>3. CASE IsFull(x) /\ ~(k > 1 /\ IsFull(t[k-1]))
  <2>1. <<x>> \in Paras
    BY <1>3, OneLine DEF Paras
  <2>2. Append(s, <<x>>) \in Seq(Paras)
    BY <2>1, AppendProperties
  <2> QED BY <1>1, <1>3, <2>2 DEF Paragraphed
<1>4. CASE IsFull(x) /\ k > 1 /\ IsFull(t[k-1])
  <2>1. Paragraphed(s, t, k) = Extended(s, x)
    BY <1>1, <1>4 DEF Paragraphed
  <2>2. CASE s = <<>>
    <3>1. Extended(s, x) = s
      BY <2>2 DEF Extended
    <3> QED BY <2>1, <3>1
  <2>3. CASE s # <<>>
    <3>1. PICK n \in Nat \ {0} : n = Len(s)
      BY <2>3, EmptySeq
    <3>2. n \in 1..Len(s)
      BY <3>1
    <3>3. PICK p \in Paras : p = s[n]
      BY <3>2, ElementOfSeq
    <3>4. p \in Texts /\ \A j \in 1..Len(p) : IsFull(p[j])
      BY DEF Paras
    <3>5. PICK u \in Texts : u = Append(p, x) /\ Len(u) = Len(p) + 1
                             /\ u[Len(p) + 1] = x /\ \A j \in 1..Len(p) : u[j] = p[j]
      BY <3>4, TextAppend
    <3>6. ASSUME NEW j \in 1..Len(u) PROVE IsFull(u[j])
      <4>1. PICK m \in Nat : m = Len(p)
        BY <3>4, TextIs
      <4>2. j = m + 1 \/ j \in 1..m
        BY <3>5, <4>1
      <4> QED BY <1>4, <3>4, <3>5, <4>1, <4>2
    <3>7. u # <<>>
      <4>1. Len(p) \in Nat
        BY <3>4, TextIs
      <4> QED BY <3>5, <4>1, EmptySeq
    <3>8. u \in Paras
      BY <3>6, <3>7 DEF Paras
    <3>9. [s EXCEPT ![n] = u] \in Seq(Paras)
      BY <3>2, <3>8, ExceptSeq
    <3> QED BY <2>1, <3>1, <3>3, <3>5, <3>9 DEF Extended
  <2> QED BY <2>2, <2>3
<1> QED BY <1>2, <1>3, <1>4

(* A heading that is the first line of all stays so. *)
LEMMA OneHeadAppend ==
  ASSUME NEW s \in Seq(Texts), OneHead(s), NEW p \in Texts,
         \A j \in 1..Len(p) : p[j] = "h" => s = <<>> /\ j = 1
  PROVE  OneHead(Append(s, p))
<1>1. PICK u \in Seq(Texts) : u = Append(s, p) /\ Len(u) = Len(s) + 1
                              /\ u[Len(s) + 1] = p /\ \A i \in 1..Len(s) : u[i] = s[i]
  <2>1. /\ Append(s, p) \in Seq(Texts) /\ Len(Append(s, p)) = Len(s) + 1
        /\ \A i \in 1..Len(s) : Append(s, p)[i] = s[i]
    BY AppendProperties
  <2>2. Append(s, p)[Len(s) + 1] = p
    BY AppendProperties
  <2> QED BY <2>1, <2>2
<1>2. PICK n \in Nat : n = Len(s)
  BY LenProperties
<1>3. ASSUME NEW i \in 1..Len(u), NEW j \in 1..Len(u[i]), u[i][j] = "h" PROVE i = 1 /\ j = 1
  <2>1. i \in 1..n \/ i = n + 1
    BY <1>1, <1>2
  <2>2. CASE i \in 1..n
    BY <1>1, <1>2, <1>3, <2>2 DEF OneHead
  <2>3. CASE i = n + 1
    <3>1. s = <<>> /\ j = 1
      BY <1>1, <1>2, <1>3, <2>3
    <3>2. n = 0
      BY <1>2, <3>1, EmptySeq
    <3> QED BY <2>3, <3>1, <3>2
  <2> QED BY <2>1, <2>2, <2>3
<1> QED BY <1>1, <1>3 DEF OneHead

(* The same where a line joins the last paragraph. *)
LEMMA OneHeadExtended ==
  ASSUME NEW s \in Seq(Texts), s # <<>>, OneHead(s), NEW x \in TextLine, x # "h"
  PROVE  OneHead(Extended(s, x))
<1>1. PICK h \in Seq(Texts), p \in Texts :
        s = Append(h, p) /\ Extended(s, x) = Append(h, Append(p, x))
  BY ExtendedIs
<1>2. PICK n \in Nat : /\ n = Len(h) /\ Len(s) = n + 1 /\ s[n + 1] = p
                       /\ \A i \in 1..n : s[i] = h[i]
  BY <1>1, AppendProperties, LenProperties
<1>3. OneHead(h)
  <2>1. \A i \in 1..n : i \in 1..Len(s)
    BY <1>2
  <2> QED BY <1>2, <2>1 DEF OneHead
<1>4. PICK q \in Texts : q = Append(p, x) /\ Len(q) = Len(p) + 1
                         /\ q[Len(p) + 1] = x /\ \A j \in 1..Len(p) : q[j] = p[j]
  BY TextAppend
<1>5. ASSUME NEW j \in 1..Len(q), q[j] = "h" PROVE h = <<>> /\ j = 1
  <2>1. PICK m \in Nat : m = Len(p)
    BY TextIs
  <2>2. j \in 1..m
    BY <1>4, <1>5, <2>1
  <2>3. p[j] = "h" /\ n + 1 \in 1..Len(s)
    BY <1>2, <1>4, <1>5, <2>1, <2>2
  <2>4. n + 1 = 1 /\ j = 1
    BY <1>2, <2>1, <2>2, <2>3 DEF OneHead
  <2> QED BY <1>2, <2>4, EmptySeq
<1> QED BY <1>1, <1>3, <1>4, <1>5, OneHeadAppend

(* The loop of Paragraphs, line by line. *)
ParagraphEach(t, f) ==
  /\ f[0] = <<>>
  /\ \A k \in 1..Len(t) : f[k] = Paragraphed(f[k-1], t, k)
  /\ Paragraphs(t) = f[Len(t)]

(* Paragraphs computes. *)
LEMMA ParagraphsIs ==
  ASSUME NEW t \in Texts
  PROVE  \E f \in [0..Len(t) -> Seq(Paras)] : ParagraphEach(t, f)
<1> DEFINE n == Len(t)
           S == Seq(Paras)
           G == [x \in (1..n) \X S |-> Paragraphed(x[2], t, x[1])]
<1>1. n \in Nat /\ \A k \in 1..n : t[k] \in TextLine
  BY TextIs
<1>2. \A a \in S, k \in 1..n : Paragraphed(a, t, k) \in S
  BY <1>1, ParagraphedTyped
<1>3. G \in StepMaps(n, S) /\ <<>> \in S
  <2>1. <<>> \in S
    BY EmptySeq
  <2> HIDE DEF n, S
  <2> QED BY <1>1, <1>2, <2>1 DEF StepMaps
<1>4. PICK f \in [0..n -> S] : f = [k \in 0..n |-> IF k = 0 THEN <<>> ELSE G[<<k, f[k-1]>>]]
  <2> HIDE DEF G, n, S
  <2>1. \E f \in [0..n -> S] : Unrolls(f, n, <<>>, G)
    BY <1>1, <1>3, Recursion
  <2> QED BY <2>1 DEF Unrolls
<1>5. ASSUME NEW k \in 0..n, k # 0
      PROVE  G[<<k, f[k-1]>>] = Paragraphed(f[k-1], t, k)
  <2> HIDE DEF n, S
  <2>1. k \in 1..n /\ f[k-1] \in S
    BY <1>1, <1>5
  <2> QED BY <2>1
<1>6. f = [k \in 0..n |-> IF k = 0 THEN <<>> ELSE Paragraphed(f[k-1], t, k)]
  <2> HIDE DEF G, n, S
  <2> QED BY <1>4, <1>5
<1>7. PICK g : /\ g = [k \in 0..n |-> IF k = 0 THEN <<>> ELSE Paragraphed(g[k-1], t, k)]
               /\ Paragraphs(t) = g[n]
  BY <1>6 DEF Paragraphs
<1>8. g[0] = <<>> /\ \A k \in 1..n : g[k] = Paragraphed(g[k-1], t, k)
  <2> HIDE DEF n, S
  <2> QED BY <1>1, <1>7
<1>9. \A k \in 0..n : g[k] \in S
  <2> DEFINE T == {k \in 0..n : g[k] \in S}
  <2> HIDE DEF n, S
  <2>1. 0 \in T
    BY <1>1, <1>3, <1>8
  <2>2. ASSUME NEW k \in 1..n, k - 1 \in T PROVE k \in T
    <3>1. g[k] \in S
      BY <1>2, <1>8, <2>2
    <3> QED BY <3>1
  <2> HIDE DEF T
  <2>3. 0..n \subseteq T
    BY <1>1, <2>1, <2>2, StepsTo
  <2> QED BY <2>3 DEF T
<1>10. g \in [0..n -> S]
  <2> HIDE DEF n, S
  <2> QED BY <1>7, <1>9
<1> QED BY <1>7, <1>8, <1>10 DEF ParagraphEach

(* The paragraphs have the full lines, in order. *)
LEMMA ParagraphsKeep ==
  ASSUME NEW t \in Texts, \A j \in 2..Len(t) : t[j] # "h"
  PROVE  /\ Paragraphs(t) \in Seq(Paras) /\ FullLinesOf(Paragraphs(t)) = FullLines(t)
         /\ OneHead(Paragraphs(t))
<1>1. PICK f \in [0..Len(t) -> Seq(Paras)] : ParagraphEach(t, f)
  BY ParagraphsIs
<1>2. PICK g \in [0..Len(t) -> Texts] : FullEach(t, g)
  BY FullLinesIs
<1>3. PICK n \in Nat : n = Len(t)
  BY TextIs
<1> DEFINE T == {k \in 0..n : /\ FullLinesOf(f[k]) = g[k] /\ OneHead(f[k])
                              /\ k = 0 => f[k] = <<>>
                              /\ k # 0 /\ IsFull(t[k]) => f[k] # <<>>}
<1>4. 0 \in T
  <2>1. f[0] = <<>> /\ g[0] = <<>>
    BY <1>1, <1>2 DEF ParagraphEach, FullEach
  <2>2. OneHead(<<>>)
    BY EmptySeq DEF OneHead
  <2> QED BY <2>1, <2>2, OfEmpty
<1>5. ASSUME NEW k \in 1..n, k - 1 \in T PROVE k \in T
  <2>1. k \in 1..Len(t) /\ k - 1 \in 0..Len(t) /\ k \in 0..n /\ k # 0
    BY <1>3
  <2>2. PICK x \in TextLine : x = t[k]
    BY <2>1, TextIs
  <2>3. PICK s \in Seq(Paras) : s = f[k-1] /\ f[k] = Paragraphed(s, t, k) /\ g[k] = Kept(g[k-1], x)
    BY <1>1, <1>2, <2>1, <2>2 DEF ParagraphEach, FullEach
  <2>4. /\ FullLinesOf(s) = g[k-1] /\ OneHead(s) /\ (k = 1 => s = <<>>)
        /\ k > 1 /\ IsFull(t[k-1]) => s # <<>>
    BY <1>5, <2>3
  <2>5. s \in Seq(Texts) /\ (x = "h" => k = 1)
    BY <1>3, <2>1, <2>2, ParasAreTexts
  <2>6. CASE ~IsFull(x)
    <3>1. f[k] = s /\ g[k] = g[k-1]
      BY <2>2, <2>3, <2>6 DEF Paragraphed, Kept
    <3> QED BY <2>1, <2>2, <2>4, <2>6, <3>1
  <2>7. CASE IsFull(x) /\ ~(k > 1 /\ IsFull(t[k-1]))
    <3>1. f[k] = Append(s, <<x>>)
      BY <2>2, <2>3, <2>7 DEF Paragraphed
    <3>2. \A j \in 1..Len(<<x>>) : <<x>>[j] = "h" => s = <<>> /\ j = 1
      BY <2>4, <2>5, OneLine
    <3>3. OneHead(f[k])
      BY <2>4, <2>5, <3>1, <3>2, OneLine, OneHeadAppend
    <3>4. f[k] # <<>>
      BY <2>5, <3>1, OneLine, AppendProperties
    <3> QED BY <2>1, <2>3, <2>4, <2>5, <3>1, <3>3, <3>4, OfAnother
  <2>8. CASE IsFull(x) /\ k > 1 /\ IsFull(t[k-1])
    <3>1. f[k] = Extended(s, x) /\ s # <<>> /\ x # "h"
      BY <2>2, <2>3, <2>4, <2>5, <2>8 DEF Paragraphed
    <3>2. OneHead(f[k])
      BY <2>4, <2>5, <3>1, OneHeadExtended
    <3>3. FullLinesOf(f[k]) = g[k]
      BY <2>3, <2>4, <2>5, <3>1, OfExtended
    <3>4. f[k] # <<>>
      <4>1. PICK h \in Seq(Texts), p \in Texts : Extended(s, x) = Append(h, Append(p, x))
        BY <2>5, <3>1, ExtendedIs
      <4>2. PICK q \in Texts : q = Append(p, x)
        BY TextAppend
      <4>3. Append(h, q) # <<>>
        BY AppendProperties
      <4> QED BY <3>1, <4>1, <4>2, <4>3
    <3> QED BY <2>1, <3>2, <3>3, <3>4
  <2> QED BY <2>6, <2>7, <2>8
<1> HIDE DEF T
<1>6. n \in T
  <2>1. 0..n \subseteq T
    BY <1>4, <1>5, StepsTo
  <2> QED BY <2>1
<1> QED BY <1>1, <1>2, <1>3, <1>6 DEF T, ParagraphEach, FullEach

-----------------------------------------------------------------------------
(* Splitting a long section between its paragraphs. *)
AllFull(c) == \A j \in 1..Len(c) : IsFull(c[j])

Good == {c \in Texts : HeadsFirst(c) /\ (Size(c) > Limit => AllFull(c))}

Splits == [chunks : Seq(Texts), current : Texts]

(* Good chunks are texts. *)
LEMMA GoodAreTexts == \A p \in Seq(Good) : p \in Seq(Texts)
<1>1. Good \subseteq Texts
  BY DEF Good
<1> QED BY <1>1, SeqMonotonic

(* The empty chunk is good. *)
LEMMA NoChunk == <<>> \in Good /\ <<>> \in Texts /\ Len(<<>>) = 0
BY EmptySeq DEF Good, Texts, HeadsFirst, AllFull

(* Joining adds the full lines of the paragraph, and none else. *)
LEMMA JoinIs ==
  ASSUME NEW c \in Texts, NEW p \in Texts
  PROVE  /\ Join(c, p) \in Texts
         /\ FullLines(Join(c, p)) = FullLines(c) \o FullLines(p)
         /\ (c # <<>> /\ HeadsFirst(c) /\ \A j \in 1..Len(p) : p[j] # "h") => HeadsFirst(Join(c, p))
<1>1. CASE c = <<>>
  BY <1>1, FullEmpty, FullTyped, ConcatEmptySeq DEF Join, Texts
<1>2. CASE c # <<>>
  <2>1. PICK b \in Texts : b = <<"b">> /\ Len(b) = 1 /\ b[1] = "b"
    BY OneLine DEF TextLine
  <2>2. PICK u \in Texts : u = c \o b
    BY TextConcat
  <2>3. PICK v \in Texts : v = u \o p /\ v = Join(c, p)
    BY <1>2, <2>1, <2>2, TextConcat DEF Join
  <2>4. FullLines(b) = <<>>
    <3>1. b \in Blanks
      BY <2>1 DEF Blanks, IsFull
    <3> QED BY <3>1, BlanksAreNone
  <2>5. FullLines(u) = FullLines(c)
    <3>1. FullLines(u) = FullLines(c) \o <<>>
      BY <2>2, <2>4, FullConcat
    <3> QED BY <3>1, FullTyped, ConcatEmptySeq DEF Texts
  <2>6. FullLines(v) = FullLines(c) \o FullLines(p)
    BY <2>3, <2>5, FullConcat
  <2>7. ASSUME HeadsFirst(c), \A j \in 1..Len(p) : p[j] # "h", NEW j \in 1..Len(v), v[j] = "h"
        PROVE  j = 1
    <3>1. PICK n \in Nat, m \in Nat : n = Len(c) /\ m = Len(p)
      BY TextIs
    <3>2. /\ Len(u) = n + 1
          /\ \A i \in 1..(n + 1) : u[i] = IF i <= n THEN c[i] ELSE b[i - n]
      <4>1. /\ Len(c \o b) = Len(c) + Len(b)
            /\ \A i \in 1..(Len(c) + Len(b)) : (c \o b)[i] = IF i <= Len(c) THEN c[i] ELSE b[i - Len(c)]
        BY ConcatProperties DEF Texts
      <4> QED BY <2>1, <2>2, <3>1, <4>1
    <3>3. /\ Len(v) = (n + 1) + m
          /\ \A i \in 1..((n + 1) + m) : v[i] = IF i <= n + 1 THEN u[i] ELSE p[i - (n + 1)]
      <4>1. /\ Len(u \o p) = Len(u) + Len(p)
            /\ \A i \in 1..(Len(u) + Len(p)) : (u \o p)[i] = IF i <= Len(u) THEN u[i] ELSE p[i - Len(u)]
        BY ConcatProperties DEF Texts
      <4> QED BY <2>3, <3>1, <3>2, <4>1
    <3>4. CASE j <= n
      <4>1. v[j] = c[j] /\ j \in 1..Len(c)
        BY <3>1, <3>2, <3>3, <3>4
      <4> QED BY <2>7, <4>1 DEF HeadsFirst
    <3>5. CASE j = n + 1
      <4>1. v[j] = u[j] /\ u[j] = b[1]
        BY <3>2, <3>3, <3>5
      <4> QED BY <2>1, <2>7, <4>1
    <3>6. CASE j > n + 1
      <4>1. v[j] = p[j - (n + 1)] /\ j - (n + 1) \in 1..Len(p)
        BY <3>1, <3>3, <3>6
      <4> QED BY <2>7, <4>1
    <3> QED BY <3>1, <3>4, <3>5, <3>6
  <2> QED BY <2>3, <2>6, <2>7 DEF HeadsFirst
<1> QED BY <1>1, <1>2

Held(s) == FullLinesOf(s.chunks) \o FullLines(s.current)

(* One paragraph of the loop: its full lines are added to what is held. *)
LEMMA FitIs ==
  ASSUME NEW s \in Splits, NEW p \in Texts
  PROVE  /\ Fit(s, p) \in Splits
         /\ Held(Fit(s, p)) = Held(s) \o FullLines(p)
<1>1. PICK a \in Seq(Texts), c \in Texts : a = s.chunks /\ c = s.current
  BY DEF Splits
<1>2. PICK A \in Texts, C \in Texts, P \in Texts :
        A = FullLinesOf(a) /\ C = FullLines(c) /\ P = FullLines(p)
  BY OfTyped, FullTyped
<1>3. (A \o C) \o P = A \o (C \o P)
  BY TextAssociative
<1>4. CASE Size(Join(c, p)) > Limit /\ c # <<>>
  <2>1. Fit(s, p) = [chunks |-> Append(a, c), current |-> p]
    BY <1>1, <1>4 DEF Fit
  <2>2. Append(a, c) \in Seq(Texts) /\ FullLinesOf(Append(a, c)) = A \o C
    BY <1>2, AppendProperties, OfAppend
  <2>3. Held(s) = A \o C /\ Held(Fit(s, p)) = (A \o C) \o P
    <3>1. Fit(s, p).chunks = Append(a, c) /\ Fit(s, p).current = p
      BY <2>1
    <3> QED BY <1>1, <1>2, <2>2, <3>1 DEF Held
  <2>4. Fit(s, p) \in Splits
    BY <2>1, <2>2 DEF Splits
  <2> QED BY <1>2, <2>3, <2>4
<1>5. CASE ~(Size(Join(c, p)) > Limit /\ c # <<>>)
  <2>1. Fit(s, p) = [chunks |-> a, current |-> Join(c, p)]
    BY <1>1, <1>5 DEF Fit, Splits
  <2>2. Join(c, p) \in Texts /\ FullLines(Join(c, p)) = C \o P
    BY <1>2, JoinIs
  <2>3. Held(s) = A \o C /\ Held(Fit(s, p)) = A \o (C \o P)
    BY <1>1, <1>2, <2>1, <2>2 DEF Held
  <2>4. Fit(s, p) \in Splits
    BY <2>1, <2>2 DEF Splits
  <2> QED BY <1>2, <1>3, <2>3, <2>4
<1> QED BY <1>4, <1>5

(* And the chunks stay good. *)
LEMMA FitGood ==
  ASSUME NEW s \in Splits, s.chunks \in Seq(Good), s.current \in Good, NEW p \in Paras,
         \A j \in 1..Len(p) : p[j] = "h" => s.current = <<>> /\ j = 1
  PROVE  Fit(s, p).chunks \in Seq(Good) /\ Fit(s, p).current \in Good
<1>1. PICK a \in Seq(Good), c \in Good : a = s.chunks /\ c = s.current
  OBVIOUS
<1>2. p \in Good /\ p \in Texts /\ c \in Texts
  BY DEF Good, Paras, HeadsFirst, AllFull
<1>3. CASE Size(Join(c, p)) > Limit /\ c # <<>>
  <2>1. Fit(s, p) = [chunks |-> Append(a, c), current |-> p]
    BY <1>1, <1>3 DEF Fit
  <2>2. Append(a, c) \in Seq(Good)
    BY AppendProperties
  <2> QED BY <1>2, <2>1, <2>2
<1>4. CASE ~(Size(Join(c, p)) > Limit /\ c # <<>>)
  <2>1. Fit(s, p).chunks = a /\ Fit(s, p).current = Join(c, p)
    BY <1>1, <1>4 DEF Fit, Splits
  <2>2. Join(c, p) \in Good
    <3>1. CASE c = <<>>
      BY <1>2, <3>1 DEF Join
    <3>2. CASE c # <<>>
      <4>1. ~(Size(Join(c, p)) > Limit) /\ HeadsFirst(c) /\ \A j \in 1..Len(p) : p[j] # "h"
        BY <1>1, <1>4, <3>2 DEF Good
      <4> QED BY <1>2, <3>2, <4>1, JoinIs DEF Good
    <3> QED BY <3>1, <3>2
  <2> QED BY <2>1, <2>2
<1> QED BY <1>3, <1>4

(* The loop of Splitting, paragraph by paragraph. *)
SplitEach(p, f) ==
  /\ f[0] = NoSplit
  /\ \A k \in 1..Len(p) : f[k] = Fit(f[k-1], p[k])
  /\ Splitting(p) = f[Len(p)]

(* Splitting computes. *)
LEMMA SplitsIs ==
  ASSUME NEW p \in Seq(Texts)
  PROVE  \E f \in [0..Len(p) -> Splits] : SplitEach(p, f)
<1> DEFINE n == Len(p)
           S == Splits
           G == [x \in (1..n) \X S |-> Fit(x[2], p[x[1]])]
<1>1. n \in Nat /\ \A k \in 1..n : p[k] \in Texts
  BY LenProperties, ElementOfSeq
<1>2. \A a \in S, k \in 1..n : Fit(a, p[k]) \in S
  BY <1>1, FitIs
<1>3. G \in StepMaps(n, S) /\ NoSplit \in S
  <2>1. NoSplit \in S
    BY EmptySeq, NoChunk DEF NoSplit, Splits
  <2> HIDE DEF n, S
  <2> QED BY <1>1, <1>2, <2>1 DEF StepMaps
<1>4. PICK f \in [0..n -> S] : f = [k \in 0..n |-> IF k = 0 THEN NoSplit ELSE G[<<k, f[k-1]>>]]
  <2> HIDE DEF G, n, S
  <2>1. \E f \in [0..n -> S] : Unrolls(f, n, NoSplit, G)
    BY <1>1, <1>3, Recursion
  <2> QED BY <2>1 DEF Unrolls
<1>5. ASSUME NEW k \in 0..n, k # 0
      PROVE  G[<<k, f[k-1]>>] = Fit(f[k-1], p[k])
  <2> HIDE DEF n, S
  <2>1. k \in 1..n /\ f[k-1] \in S
    BY <1>1, <1>5
  <2> QED BY <2>1
<1>6. f = [k \in 0..n |-> IF k = 0 THEN NoSplit ELSE Fit(f[k-1], p[k])]
  <2> HIDE DEF G, n, S
  <2> QED BY <1>4, <1>5
<1>7. PICK g : /\ g = [k \in 0..n |-> IF k = 0 THEN NoSplit ELSE Fit(g[k-1], p[k])]
               /\ Splitting(p) = g[n]
  BY <1>6 DEF Splitting
<1>8. g[0] = NoSplit /\ \A k \in 1..n : g[k] = Fit(g[k-1], p[k])
  <2> HIDE DEF n, S
  <2> QED BY <1>1, <1>7
<1>9. \A k \in 0..n : g[k] \in S
  <2> DEFINE T == {k \in 0..n : g[k] \in S}
  <2> HIDE DEF n, S
  <2>1. 0 \in T
    BY <1>1, <1>3, <1>8
  <2>2. ASSUME NEW k \in 1..n, k - 1 \in T PROVE k \in T
    <3>1. g[k] \in S
      BY <1>2, <1>8, <2>2
    <3> QED BY <3>1
  <2> HIDE DEF T
  <2>3. 0..n \subseteq T
    BY <1>1, <2>1, <2>2, StepsTo
  <2> QED BY <2>3 DEF T
<1>10. g \in [0..n -> S]
  <2> HIDE DEF n, S
  <2> QED BY <1>7, <1>9
<1> QED BY <1>7, <1>8, <1>10 DEF SplitEach

(* The loop holds the full lines of the paragraphs, in good chunks. *)
LEMMA SplittingIs ==
  ASSUME NEW p \in Seq(Paras), OneHead(p)
  PROVE  /\ Splitting(p) \in Splits /\ Held(Splitting(p)) = FullLinesOf(p)
         /\ Splitting(p).chunks \in Seq(Good) /\ Splitting(p).current \in Good
<1>0. p \in Seq(Texts)
  BY ParasAreTexts
<1>1. PICK f \in [0..Len(p) -> Splits] : SplitEach(p, f)
  BY <1>0, SplitsIs
<1>2. PICK g \in [0..Len(p) -> Texts] : OfEach(p, g)
  BY <1>0, FullLinesOfIs
<1>3. PICK n \in Nat : n = Len(p)
  BY LenProperties
<1> DEFINE T == {k \in 0..n : /\ Held(f[k]) = g[k] /\ (k = 0 => f[k].current = <<>>)
                              /\ f[k].chunks \in Seq(Good) /\ f[k].current \in Good}
<1>4. 0 \in T
  <2>1. f[0].chunks = <<>> /\ f[0].current = <<>> /\ g[0] = <<>>
    BY <1>1, <1>2 DEF SplitEach, OfEach, NoSplit
  <2>2. Held(f[0]) = <<>> \o <<>> /\ <<>> \o <<>> = <<>>
    BY <2>1, OfEmpty, FullEmpty, NoChunk, ConcatEmptySeq DEF Held, Texts
  <2> QED BY <2>1, <2>2, NoChunk, EmptySeq
<1>5. ASSUME NEW k \in 1..n, k - 1 \in T PROVE k \in T
  <2>1. k \in 1..Len(p) /\ k - 1 \in 0..Len(p) /\ k \in 0..n /\ k # 0
    BY <1>3
  <2>2. PICK x \in Paras : x = p[k]
    BY <2>1, ElementOfSeq
  <2>3. x \in Texts
    BY DEF Paras
  <2>4. PICK s \in Splits : s = f[k-1] /\ f[k] = Fit(s, x) /\ g[k] = g[k-1] \o FullLines(x)
    BY <1>1, <1>2, <2>1, <2>2 DEF SplitEach, OfEach
  <2>5. Held(s) = g[k-1] /\ s.chunks \in Seq(Good) /\ s.current \in Good /\ (k = 1 => s.current = <<>>)
    BY <1>5, <2>4
  <2>6. \A j \in 1..Len(x) : x[j] = "h" => s.current = <<>> /\ j = 1
    BY <2>1, <2>2, <2>5 DEF OneHead
  <2>7. f[k].chunks \in Seq(Good) /\ f[k].current \in Good
    BY <2>4, <2>5, <2>6, FitGood
  <2>8. Held(f[k]) = g[k]
    BY <2>3, <2>4, <2>5, FitIs
  <2> QED BY <2>1, <2>7, <2>8
<1> HIDE DEF T
<1>6. n \in T
  <2>1. 0..n \subseteq T
    BY <1>4, <1>5, StepsTo
  <2> QED BY <2>1
<1> QED BY <1>1, <1>2, <1>3, <1>6 DEF T, SplitEach, OfEach

(* The chunks of a section are good, and have its full lines. *)
LEMMA ChunkedIs ==
  ASSUME NEW c \in Texts, \A j \in 2..Len(c) : c[j] # "h"
  PROVE  Chunked(c) \in Seq(Good) /\ FullLinesOf(Chunked(c)) = FullLines(c)
<1>1. CASE c = <<>>
  BY <1>1, OfEmpty, FullEmpty, EmptySeq DEF Chunked
<1>2. CASE c # <<>> /\ Size(c) <= Limit
  <2>1. Chunked(c) = <<c>>
    BY <1>2 DEF Chunked, SplitLongChunk
  <2>2. Size(c) \in Int
    <3>1. Len(FullLines(c)) \in Int /\ Len(c) \in Int
      BY FullTyped, TextIs
    <3> QED BY <3>1 DEF Size
  <2>3. HeadsFirst(c)
    <3>1. Len(c) \in Nat
      BY TextIs
    <3>2. \A j \in 1..Len(c) : j = 1 \/ j \in 2..Len(c)
      BY <3>1
    <3> QED BY <3>2 DEF HeadsFirst
  <2>4. c \in Good
    BY <1>2, <2>2, <2>3, ChunksAssumption DEF Good
  <2>5. <<c>> \in Seq(Good)
    BY <2>4
  <2> QED BY <2>1, <2>5, OfOne
<1>3. CASE c # <<>> /\ ~(Size(c) <= Limit)
  <2>1. PICK p \in Seq(Paras) : p = Paragraphs(c) /\ FullLinesOf(p) = FullLines(c) /\ OneHead(p)
    BY ParagraphsKeep
  <2>2. PICK s \in Splits : /\ s = Splitting(p) /\ Held(s) = FullLines(c)
                            /\ s.chunks \in Seq(Good) /\ s.current \in Good
    BY <2>1, SplittingIs
  <2>3. Chunked(c) = IF s.current = <<>> THEN s.chunks ELSE Append(s.chunks, s.current)
    BY <1>3, <2>1, <2>2 DEF Chunked, SplitLongChunk
  <2>4. s.chunks \in Seq(Texts) /\ s.current \in Texts
    BY DEF Splits
  <2>5. CASE s.current = <<>>
    <3>1. FullLinesOf(s.chunks) \o <<>> = FullLinesOf(s.chunks)
      BY <2>4, OfTyped, ConcatEmptySeq DEF Texts
    <3> QED BY <2>2, <2>3, <2>5, <3>1, FullEmpty DEF Held
  <2>6. CASE s.current # <<>>
    <3>1. Append(s.chunks, s.current) \in Seq(Good)
      BY <2>2, AppendProperties
    <3> QED BY <2>2, <2>3, <2>4, <2>6, <3>1, OfAppend DEF Held
  <2> QED BY <2>5, <2>6
<1> QED BY <1>2, <1>1, <1>3

(* One section of chunkMarkdown. *)
LEMMA ChunkStep ==
  ASSUME NEW t \in Texts, NEW k \in 1..Len(Sections(Trim(t))), NEW a \in Seq(Good)
  PROVE  /\ a \o Chunked(Trim(Sections(Trim(t))[k])) \in Seq(Good)
         /\ FullLinesOf(a \o Chunked(Trim(Sections(Trim(t))[k]))) =
              FullLinesOf(a) \o FullLines(Sections(Trim(t))[k])
<1>1. PICK p \in Pieces : p = Sections(Trim(t))[k]
  BY TrimKeeps, SectionsKeep, ElementOfSeq
<1>2. p \in Texts /\ \A j \in 2..Len(p) : p[j] # "h"
  BY DEF Pieces
<1>3. PICK c \in Texts : c = Trim(p) /\ FullLines(c) = FullLines(p) /\ \A j \in 2..Len(c) : c[j] # "h"
  BY <1>2, TrimKeeps
<1>4. PICK q \in Seq(Good) : q = Chunked(c) /\ FullLinesOf(q) = FullLines(c)
  BY <1>3, ChunkedIs
<1>5. a \o q \in Seq(Good)
  BY ConcatProperties
<1>6. FullLinesOf(a \o q) = FullLinesOf(a) \o FullLinesOf(q)
  BY GoodAreTexts, OfConcat
<1> QED BY <1>1, <1>3, <1>4, <1>5, <1>6

(* The loop of chunkMarkdown, section by section. *)
ChunkEach(t, f) ==
  /\ f[0] = <<>>
  /\ \A k \in 1..Len(Sections(Trim(t))) : f[k] = f[k-1] \o Chunked(Trim(Sections(Trim(t))[k]))
  /\ ChunkMarkdown(t) = f[Len(Sections(Trim(t)))]

(* ChunkMarkdown computes. *)
LEMMA ChunkMarkdownIs ==
  ASSUME NEW t \in Texts
  PROVE  \E f \in [0..Len(Sections(Trim(t))) -> Seq(Good)] : ChunkEach(t, f)
<1> DEFINE n == Len(Sections(Trim(t)))
           S == Seq(Good)
           G == [x \in (1..n) \X S |-> x[2] \o Chunked(Trim(Sections(Trim(t))[x[1]]))]
<1>1. n \in Nat /\ t \in Texts
  BY TrimKeeps, SectionsKeep, LenProperties
<1>2. \A a \in S, k \in 1..n : a \o Chunked(Trim(Sections(Trim(t))[k])) \in S
  BY <1>1, ChunkStep
<1>3. G \in StepMaps(n, S) /\ <<>> \in S
  <2>1. <<>> \in S
    BY EmptySeq
  <2> HIDE DEF n, S
  <2> QED BY <1>1, <1>2, <2>1 DEF StepMaps
<1>4. PICK f \in [0..n -> S] : f = [k \in 0..n |-> IF k = 0 THEN <<>> ELSE G[<<k, f[k-1]>>]]
  <2> HIDE DEF G, n, S
  <2>1. \E f \in [0..n -> S] : Unrolls(f, n, <<>>, G)
    BY <1>1, <1>3, Recursion
  <2> QED BY <2>1 DEF Unrolls
<1>5. ASSUME NEW k \in 0..n, k # 0
      PROVE  G[<<k, f[k-1]>>] = f[k-1] \o Chunked(Trim(Sections(Trim(t))[k]))
  <2> HIDE DEF n, S
  <2>1. k \in 1..n /\ f[k-1] \in S
    BY <1>1, <1>5
  <2> QED BY <2>1
<1>6. f = [k \in 0..n |-> IF k = 0 THEN <<>> ELSE f[k-1] \o Chunked(Trim(Sections(Trim(t))[k]))]
  <2> HIDE DEF G, n, S
  <2> QED BY <1>4, <1>5
<1>7. PICK g : /\ g = [k \in 0..n |-> IF k = 0 THEN <<>> ELSE g[k-1] \o Chunked(Trim(Sections(Trim(t))[k]))]
               /\ ChunkMarkdown(t) = g[n]
  BY <1>6 DEF ChunkMarkdown
<1>8. g[0] = <<>> /\ \A k \in 1..n : g[k] = g[k-1] \o Chunked(Trim(Sections(Trim(t))[k]))
  <2> HIDE DEF n, S
  <2> QED BY <1>1, <1>7
<1>9. \A k \in 0..n : g[k] \in S
  <2> DEFINE T == {k \in 0..n : g[k] \in S}
  <2> HIDE DEF n, S
  <2>1. 0 \in T
    BY <1>1, <1>3, <1>8
  <2>2. ASSUME NEW k \in 1..n, k - 1 \in T PROVE k \in T
    <3>1. g[k] \in S
      BY <1>2, <1>8, <2>2
    <3> QED BY <3>1
  <2> HIDE DEF T
  <2>3. 0..n \subseteq T
    BY <1>1, <2>1, <2>2, StepsTo
  <2> QED BY <2>3 DEF T
<1>10. g \in [0..n -> S]
  <2> HIDE DEF n, S
  <2> QED BY <1>7, <1>9
<1> QED BY <1>7, <1>8, <1>10 DEF ChunkEach

(* chunkMarkdown keeps the full lines, in good chunks. *)
LEMMA ChunkMarkdownKeeps ==
  ASSUME NEW t \in Texts
  PROVE  ChunkMarkdown(t) \in Seq(Good) /\ FullLinesOf(ChunkMarkdown(t)) = FullLines(t)
<1>1. PICK p \in Seq(Pieces) : p = Sections(Trim(t)) /\ FullLinesOf(p) = FullLines(t)
  BY TrimKeeps, SectionsKeep
<1>2. p \in Seq(Texts)
  BY PiecesAreTexts
<1>3. PICK f \in [0..Len(p) -> Seq(Good)] : ChunkEach(t, f)
  BY <1>1, ChunkMarkdownIs
<1>4. PICK g \in [0..Len(p) -> Texts] : OfEach(p, g)
  BY <1>2, FullLinesOfIs
<1>5. PICK n \in Nat : n = Len(p)
  BY LenProperties
<1> DEFINE T == {k \in 0..n : FullLinesOf(f[k]) = g[k]}
<1>6. 0 \in T
  BY <1>3, <1>4, OfEmpty DEF ChunkEach, OfEach
<1>7. ASSUME NEW k \in 1..n, k - 1 \in T PROVE k \in T
  <2>1. k \in 1..Len(p) /\ k - 1 \in 0..Len(p) /\ k \in 0..n
    BY <1>5
  <2>2. f[k] = f[k-1] \o Chunked(Trim(p[k])) /\ f[k-1] \in Seq(Good)
    BY <1>1, <1>3, <2>1 DEF ChunkEach
  <2>3. g[k] = g[k-1] \o FullLines(p[k])
    BY <1>4, <2>1 DEF OfEach
  <2>4. FullLinesOf(f[k]) = FullLinesOf(f[k-1]) \o FullLines(p[k])
    BY <1>1, <2>1, <2>2, ChunkStep
  <2> QED BY <1>7, <2>1, <2>3, <2>4
<1> HIDE DEF T
<1>8. n \in T
  <2>1. 0..n \subseteq T
    BY <1>6, <1>7, StepsTo
  <2> QED BY <2>1
<1>9. ChunkMarkdown(t) = f[n] /\ f[n] \in Seq(Good)
  BY <1>1, <1>3, <1>5 DEF ChunkEach
<1>10. FullLinesOf(p) = g[n]
  BY <1>4, <1>5 DEF OfEach
<1> QED BY <1>1, <1>8, <1>9, <1>10 DEF T

\* The inductive invariant.
ChunksInv == text \in Texts /\ chunks \in Seq(Good) /\ FullLinesOf(chunks) = FullLines(text)

(* Whatever the text, and however long, its chunks are its full lines in   *)
(* order, begin at headings and are short or one paragraph (chunkMarkdown, *)
(* splitLongChunk).                                                        *)
THEOREM TextKept == ChunksSpec => []ChunksKeepText
<1>1. ChunksInit => ChunksInv
  BY NoChunk, OfEmpty, FullEmpty, EmptySeq DEF ChunksInit, ChunksInv
<1>2. ASSUME ChunksInv, [ChunksNext]_chunkVars PROVE ChunksInv'
  <2>1. CASE ChunksNext
    <3>1. text' \in Texts /\ chunks' = ChunkMarkdown(text')
      BY <1>2, <2>1, TextAppend DEF ChunksNext, ChunksInv
    <3> QED BY <3>1, ChunkMarkdownKeeps DEF ChunksInv
  <2>2. CASE UNCHANGED chunkVars
    BY <1>2, <2>2 DEF ChunksInv, chunkVars
  <2> QED BY <1>2, <2>1, <2>2
<1>3. ASSUME ChunksInv PROVE ChunksKeepText
  <2>1. ASSUME NEW i \in DOMAIN chunks
        PROVE  /\ \A j \in DOMAIN chunks[i] : chunks[i][j] = "h" => j = 1
               /\ Size(chunks[i]) > Limit => \A j \in DOMAIN chunks[i] : IsFull(chunks[i][j])
    <3>1. chunks[i] \in Good
      BY <1>3, LenProperties, ElementOfSeq DEF ChunksInv
    <3>2. chunks[i] \in Texts /\ DOMAIN chunks[i] = 1..Len(chunks[i])
      BY <3>1, TextIs DEF Good
    <3> QED BY <3>1, <3>2 DEF Good, HeadsFirst, AllFull
  <2> QED BY <1>3, <2>1 DEF ChunksInv, ChunksKeepText
<1> QED BY <1>1, <1>2, <1>3, PTL DEF ChunksSpec

=============================================================================
