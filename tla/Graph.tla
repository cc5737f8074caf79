------------------------------- MODULE Graph -------------------------------
(***************************************************************************)
(* The memory graph of one workspace: memory_nodes, memory_links and       *)
(* memory_graph_edges, the two breadth-first searches over them, and what  *)
(* deleting a source file leaves behind.  Handlers without an await are    *)
(* one step; only the insertion of an extracted memory awaits (it embeds   *)
(* its texts), between the choice of the memory it duplicates, updates or  *)
(* contradicts and the links it then makes.                                *)
(*                                                                         *)
(* Edges between memories and files or runs are left out: no search        *)
(* follows them.  A memory's score, text and confidence are left out, so   *)
(* what they decide (which memories an insertion relates, the order of     *)
(* results equally far) is any choice.                                     *)
(***************************************************************************)
EXTENDS Naturals, Sequences, FiniteSets, SequencesExt

CONSTANTS
  GNode,       \* memory ids
  Relation,    \* relations that requests ask for
  EditedTo,    \* statuses that edits of a candidate ask for
  Source,      \* file ids
  Overscan,    \* a search stops after limit * Overscan memories (3 in the code)
  RelationFilter, \* relations a search is asked to follow: sets of them
  SearchDepth, \* how far a search is asked to go
  SearchLimit, \* how many memories a search is asked for
  MaxEdges,    \* bound: links and edges of the graph
  MaxStart,    \* bound: links of the graph a behaviour starts with
  MaxGraphMoves,\* bound: steps that change the graph
  NoNode       \* no row

VARIABLES
  gnode,       \* memory_nodes: id -> row or NoNode
  sources,     \* files with a row
  extracted,   \* files with rows in extracted_sources
  edges,       \* memory_links ("link") and memory_graph_edges ("object"), oldest first
  joining,     \* inserted memories still to be linked: id -> what it was taken for
  gmoves
graphVars == <<gnode, sources, extracted, edges, joining, gmoves>>

AnyRelation == {"related_to", "contradicts", "supersedes", "duplicates", "derived_from"}

ASSUME GraphAssumption ==
  /\ Overscan \in Nat \ {0} /\ MaxEdges \in Nat /\ MaxStart \in 0..MaxEdges
  /\ MaxGraphMoves \in Nat /\ IsFiniteSet(GNode)
  /\ EditedTo \subseteq {"observed", "candidate", "duplicate", "conflicted", "stale", "superseded"}
  /\ Relation \subseteq AnyRelation /\ RelationFilter \subseteq SUBSET AnyRelation
  /\ SearchDepth \subseteq Nat \ {0} /\ SearchLimit \subseteq Nat \ {0}

\* No handler writes "pending".
GStatus == {"active", "approved", "observed", "candidate", "duplicate", "conflicted",
            "stale", "superseded", "rejected"}

\* "expired" is a valid_until that is set: a handler only ever sets it to now.
NodeRow == [home : Source, status : GStatus,
            trust : {"plain", "superseded", "rejected"}, expired : BOOLEAN,
            restored : BOOLEAN]   \* history: a rollback inserted the row anew

ASSUME NoNodeAssumption == NoNode \notin NodeRow

GEdge == [kind : {"link", "object"}, from : GNode, to : GNode, relation : AnyRelation]

NewRow(f, status) ==
  [home |-> f, status |-> status, trust |-> "plain", expired |-> FALSE, restored |-> FALSE]

Fresh(f) == NewRow(f, "active")

\* getMemoryNode and listMemoryNodes join the files table.
Visible(n) == gnode[n] # NoNode /\ gnode[n].home \in sources

Shown == {n \in GNode : Visible(n)}

IsRejected(n) == "rejected" \in {gnode[n].status, gnode[n].trust}

\* isStaleLikeMemory: confirming keeps valid_until, so an expired memory stays one.
IsStaleLike(n) ==
  \/ gnode[n].status \in {"stale", "conflicted", "duplicate", "superseded"}
  \/ gnode[n].trust = "superseded"
  \/ gnode[n].expired

Withdrawn(n) == IsRejected(n) \/ IsStaleLike(n)

-----------------------------------------------------------------------------
(* Writing the graph *)

\* markMemoryNodeTrust(..., "superseded", "superseded") and its like.
Marked(row, mark) == [row EXCEPT !.status = mark, !.trust = mark, !.expired = TRUE]

MoveGraph == gmoves < MaxGraphMoves /\ gmoves' = gmoves + 1

Link(from, to, relation) == [kind |-> "link", from |-> from, to |-> to, relation |-> relation]

(* linkMemoryNodes for each of some links, on a graph g of edges and       *)
(* nodes: a link that exists is at most updated; a new "supersedes" link   *)
(* withdraws what it points to.                                            *)
Linked(g, links) ==
  LET made == links \ Range(g.edges)
  IN  [edges |-> g.edges \o SetToSeq(made),
       nodes |-> [m \in GNode |-> IF \E e \in made : e.to = m /\ e.relation = "supersedes"
                                 THEN Marked(g.nodes[m], "superseded")
                                 ELSE g.nodes[m]]]

StoreGraph(g) ==
  /\ Len(g.edges) <= MaxEdges
  /\ edges' = g.edges
  /\ gnode' = g.nodes

LinkMemoryNodes(from, to, relation) ==
  /\ MoveGraph
  /\ Visible(from) /\ Visible(to) /\ from # to
  /\ StoreGraph(Linked([edges |-> edges, nodes |-> gnode], {Link(from, to, relation)}))
  /\ UNCHANGED <<sources, extracted, joining>>

\* createGraphEdge with an endpoint the caller calls a candidate or a
\* reasoning memory; the endpoints may be the same.
CreateGraphObjectEdge(from, to, relation) ==
  LET edge == [kind |-> "object", from |-> from, to |-> to, relation |-> relation]
  IN  /\ MoveGraph
      /\ Visible(from) /\ Visible(to)
      /\ edge \notin Range(edges)
      /\ StoreGraph([edges |-> Append(edges, edge), nodes |-> gnode])
      /\ UNCHANGED <<sources, extracted, joining>>

\* createGraphEdge: an edge between two memory nodes is a link.
CreateGraphEdge(from, to, relation) ==
  LinkMemoryNodes(from, to, relation) \/ CreateGraphObjectEdge(from, to, relation)

\* Describing a link reads both its memories, and fails without them;
\* describing an object edge (describeGraphEndpoint) never fails.
Describable(e) == e.kind = "link" => Visible(e.from) /\ Visible(e.to)

DeleteGraphEdge(i) ==
  /\ MoveGraph
  /\ Describable(edges[i])
  /\ edges' = RemoveAt(edges, i)
  /\ UNCHANGED <<gnode, sources, extracted, joining>>

\* extractAndStoreSource, once it has read the file.
ExtractSource(f) ==
  /\ MoveGraph
  /\ f \in sources \ extracted
  /\ extracted' = extracted \cup {f}
  /\ UNCHANGED <<gnode, sources, edges, joining>>

\* An extracted memory, or a candidate, that was taken for no other.
Alone == {"new", "candidate"}

(* insertExtractedMemoryNode up to its first await after the insert: what  *)
(* classifyDedupe found is any memory listed then.  The file record was    *)
(* read before, and its row may be gone.                                   *)
Insert(n, f, match) ==
  /\ MoveGraph
  /\ gnode[n] = NoNode /\ f \in extracted
  /\ match.relation # "candidate"
  /\ match.relation # "new" => Visible(match.node)
  /\ gnode' = [gnode EXCEPT ![n] = Fresh(f)]
  /\ joining' = [joining EXCEPT ![n] = <<match>>]
  /\ UNCHANGED <<sources, extracted, edges>>

Match == [relation : {"duplicates", "supersedes", "contradicts"}, node : GNode]
           \cup [relation : Alone, node : {NoNode}]

(* insertCandidateMemoryNode likewise, in a file of candidates: what       *)
(* detectCandidateReview found makes it a duplicate or a conflicted one.   *)
(* Of several memories it conflicts with, one is kept.                     *)
Propose(n, f, match) ==
  /\ MoveGraph
  /\ gnode[n] = NoNode /\ f \in sources
  /\ match.relation \in {"candidate", "duplicates", "contradicts"}
  /\ match.relation # "candidate" => Visible(match.node)
  /\ gnode' = [gnode EXCEPT ![n] = NewRow(f, CASE match.relation = "duplicates"  -> "duplicate"
                                            [] match.relation = "contradicts" -> "conflicted"
                                            [] OTHER                          -> "candidate")]
  /\ joining' = [joining EXCEPT ![n] = <<match>>]
  /\ UNCHANGED <<sources, extracted, edges>>

\* inferMemoryLinksForNewNode: any relation, or none, to each other memory.
Inferences(n) == [Shown \ {n} -> Relation \cup {"new"}]

LinkedTo(g, n, relations) ==
  Linked(g, {Link(n, m, relations[m]) : m \in {x \in DOMAIN relations : relations[x] # "new"}})

\* linkNodeToSourceContext: other memories of the file, eight at most.
Siblings(n) ==
  LET same == {m \in GNode \ {n} : gnode[m] # NoNode /\ gnode[m].home = gnode[n].home}
  IN  {some \in SUBSET same : IF Cardinality(same) <= 8 THEN some = same ELSE Cardinality(some) = 8}

WithSiblings(g, n, siblings) == Linked(g, {Link(n, m, "derived_from") : m \in siblings})

\* The relations a memory is linked by: those inferred for one that is new,
\* none for a new candidate, and the one it was taken for otherwise.
Relations(n, match) ==
  CASE match.relation = "new"       -> Inferences(n)
    [] match.relation = "candidate" -> {[m \in {} |-> "new"]}
    [] OTHER                        -> {[m \in {match.node} |-> match.relation]}

(* The rest of insertExtractedMemoryNode or insertCandidateMemoryNode.  A  *)
(* file or a matched memory that went meanwhile fails it, and leaves the   *)
(* memory without its links.                                               *)
Connect(n) ==
  /\ joining[n] # <<>>
  /\ joining' = [joining EXCEPT ![n] = <<>>]
  /\ LET match == joining[n][1]
         graph == [edges |-> edges, nodes |-> gnode]
     IN  IF ~Visible(n) \/ (match.relation \notin Alone /\ ~Visible(match.node))
         THEN UNCHANGED <<gnode, edges>>
         ELSE \E relations \in Relations(n, match), siblings \in Siblings(n) :
                StoreGraph(WithSiblings(LinkedTo(graph, n, relations), n, siblings))
  /\ UNCHANGED <<sources, extracted, gmoves>>

InStatus(row, status) == [row EXCEPT !.status = status]

Outdated(row) == [row EXCEPT !.status = "stale", !.expired = TRUE]

(* Reviewing memory, as far as recall reads it.  A memory with a promotion *)
(* is a candidate whatever its status; promotions are MemoryReview's, and  *)
(* any memory may have one here.                                           *)
Rewrite(n, row) ==
  /\ MoveGraph /\ Visible(n)
  /\ gnode' = [gnode EXCEPT ![n] = row]
  /\ UNCHANGED <<sources, extracted, edges, joining>>

RejectNode(n) == Rewrite(n, Marked(gnode[n], "rejected"))

MarkStale(n) == Rewrite(n, Outdated(gnode[n]))

Confirm(n) ==
  /\ gnode[n] # NoNode => gnode[n].status \in {"stale", "conflicted"}
  /\ Rewrite(n, InStatus(gnode[n], "active"))

\* updateCandidate with a status, and trustLevelForCandidateStatus.
Edited(row, status) ==
  [row EXCEPT !.status = status,
              !.trust = CASE status = "superseded"                             -> "superseded"
                          [] status \in {"candidate", "duplicate", "conflicted"} -> "plain"
                          [] OTHER                                              -> @]

EditCandidate(n, status) == Rewrite(n, Edited(gnode[n], status))

\* resolveCandidateConflict, when it keeps the candidate.
ResolveConflict(n) ==
  /\ gnode[n] # NoNode => gnode[n].status = "conflicted"
  /\ Rewrite(n, InStatus(gnode[n], "candidate"))

\* In error: an approval makes a memory valid again.
ApprovedAnew(row) == [row EXCEPT !.status = "approved", !.trust = "plain", !.expired = FALSE]

Approved(row) == [row EXCEPT !.status = "approved", !.trust = "plain"]

\* approvePromotion approves the candidate; applyPromotion approves every
\* memory of the file it writes.
Approve(some) ==
  /\ MoveGraph /\ some # {} /\ some \subseteq Shown
  /\ gnode' = [m \in GNode |-> IF m \in some THEN Approved(gnode[m]) ELSE gnode[m]]
  /\ UNCHANGED <<sources, extracted, edges, joining>>

Of(f) == {n \in Shown : gnode[n].home = f}

\* supersedeMemory withdraws the older memory also if the link is there.
SupersedeMemory(older, newer) ==
  LET g == Linked([edges |-> edges, nodes |-> gnode], {Link(newer, older, "supersedes")})
  IN  /\ MoveGraph
      /\ Visible(older) /\ Visible(newer) /\ older # newer
      /\ StoreGraph([g EXCEPT !.nodes[older] = Marked(@, "superseded")])
      /\ UNCHANGED <<sources, extracted, joining>>

\* approveCandidate, when it finds a conflict (markCandidateConflict).
MarkConflict(n, m) ==
  LET marked == [gnode EXCEPT ![n] = InStatus(@, "conflicted")]
  IN  /\ MoveGraph
      /\ Visible(n) /\ Visible(m) /\ n # m
      /\ StoreGraph(Linked([edges |-> edges, nodes |-> marked], {Link(n, m, "contradicts")}))
      /\ UNCHANGED <<sources, extracted, joining>>

\* rollbackSnapshot to a snapshot of the graph as it is: the rows are inserted
\* anew without their valid_until.  (Module Snapshots has the rest of it.)
Restored(row) == [row EXCEPT !.expired = FALSE, !.restored = TRUE]

RollBack ==
  /\ MoveGraph
  /\ gnode' = [n \in GNode |-> IF gnode[n] = NoNode THEN NoNode ELSE Restored(gnode[n])]
  /\ UNCHANGED <<sources, extracted, edges, joining>>

\* deleteFile: nodes, links, edges and extracted sources keep their rows.
DeleteSource(f) ==
  /\ MoveGraph /\ f \in sources
  /\ sources' = sources \ {f}
  /\ UNCHANGED <<gnode, extracted, edges, joining>>

-----------------------------------------------------------------------------
(* Searching the graph *)

OtherEnd(e, n) == IF e.from = n THEN e.to ELSE e.from

\* getMemoryNodeLinks: the join of files hides a link whose other memory is not
\* listed.  listGraphEdgesForNode: an object edge is not hidden.
IsEdgeOf(e, n) == n \in {e.from, e.to} /\ (e.kind = "link" => Visible(OtherEnd(e, n)))

\* A search: paths still to follow, memories reached, paths found, and
\* whether it goes on, found its goal, or met a memory that is gone.
Search(n) == [queue |-> <<<<n>>>>, visited |-> {n}, found |-> <<>>, over |-> "no"]

Take(s, path) == [s EXCEPT !.visited = @ \cup {Last(path)}, !.queue = Append(@, path)]

\* The edges that a search follows from the end of a path.
Follows(ask, path, e) == IsEdgeOf(e, Last(path)) /\ e.relation \in ask.relations

\* In error: withdrawn memory is not shown, but followed.
RelateThrough(ask, path, s, e) ==
  LET next == OtherEnd(e, Last(path))
  IN  IF s.over # "no" \/ ~Follows(ask, path, e) \/ next \in s.visited THEN s
      ELSE IF ~Visible(next) THEN [s EXCEPT !.over = "missing"]
      ELSE IF Withdrawn(next) /\ ~ask.stale THEN Take(s, Append(path, next))
      ELSE [Take(s, Append(path, next)) EXCEPT !.found = Append(@, Append(path, next))]

\* One edge of the inner loop of findRelatedMemories.
Relate(ask, path, s, e) ==
  LET next == OtherEnd(e, Last(path))
  IN  IF s.over # "no" \/ ~Follows(ask, path, e) \/ next \in s.visited THEN s
      ELSE IF ~Visible(next) THEN [s EXCEPT !.over = "missing"]
      ELSE IF Withdrawn(next) /\ ~ask.stale THEN s
      ELSE [Take(s, Append(path, next)) EXCEPT !.found = Append(@, Append(path, next))]

\* The inner loop: the edges of a memory, newest first.
RelateAll(ask, path, s) ==
  LET upto[k \in 0..Len(edges)] ==
        IF k = 0 THEN s ELSE Relate(ask, path, upto[k-1], edges[Len(edges) + 1 - k])
  IN  upto[Len(edges)]

Enough(ask, s) == Len(s.found) >= ask.limit * Overscan

RelateNext(ask, s) ==
  IF s.over # "no" \/ s.queue = <<>> \/ Enough(ask, s) THEN s
  ELSE LET path == Head(s.queue)
           rest == [s EXCEPT !.queue = Tail(@)]
       IN  IF Len(path) > ask.depth THEN rest
           ELSE RelateAll(ask, path, rest)

\* Every memory enters the queue at most once.
FindRelatedMemories(n, ask) ==
  LET round[k \in 0..Cardinality(GNode)] ==
        IF k = 0 THEN Search(n) ELSE RelateNext(ask, round[k-1])
  IN  round[Cardinality(GNode)]

\* One edge of explainRelationshipPath's inner loop: memories on the way are
\* not looked up before their own edges are.
Extend(ask, path, s, e) ==
  LET next == OtherEnd(e, Last(path))
  IN  IF s.over # "no" \/ ~Follows(ask, path, e) \/ next \in s.visited THEN s
      ELSE IF next = ask.goal
           THEN [s EXCEPT !.found = <<Append(path, next)>>, !.over = "found"]
      ELSE Take(s, Append(path, next))

ExtendAll(ask, path, s) ==
  LET upto[k \in 0..Len(edges)] ==
        IF k = 0 THEN s ELSE Extend(ask, path, upto[k-1], edges[Len(edges) + 1 - k])
  IN  upto[Len(edges)]

ExtendNext(ask, s) ==
  IF s.over # "no" \/ s.queue = <<>> THEN s
  ELSE LET path == Head(s.queue)
           rest == [s EXCEPT !.queue = Tail(@)]
       IN  IF Len(path) > ask.depth THEN rest
           ELSE IF ~Visible(Last(path)) THEN [s EXCEPT !.over = "missing"]
           ELSE ExtendAll(ask, path, rest)

ExplainRelationshipPath(n, ask) ==
  LET round[k \in 0..Cardinality(GNode)] ==
        IF k = 0 THEN Search(n) ELSE ExtendNext(ask, round[k-1])
  IN  round[Cardinality(GNode)]

\* linksByRelation: the links whose target is listed.
LinksByRelation(relation) ==
  {e \in Range(edges) : e.kind = "link" /\ e.relation = relation /\ Visible(e.to)}

\* findContradictions reads both memories of every such link.
ContradictionsFail == \E e \in LinksByRelation("contradicts") : ~Visible(e.from)

-----------------------------------------------------------------------------
\* Graphs a behaviour starts with: memories somebody related.
Starts ==
  LET related == {[kind |-> "link", from |-> n, to |-> m, relation |-> "related_to"] :
                    n \in Shown, m \in Shown}
      made    == {e \in related : e.from # e.to}
  IN  UNION {{s \in [1..k -> made] : IsInjective(s)} : k \in 0..MaxStart}

GraphInit ==
  /\ gnode \in [GNode -> {NoNode} \cup {Fresh(f) : f \in Source}]
  /\ sources = Source
  /\ extracted = {gnode[n].home : n \in {m \in GNode : gnode[m] # NoNode}}
  /\ edges \in Starts
  /\ joining = [n \in GNode |-> <<>>]
  /\ gmoves = 0

ReviewNext ==
  \/ \E n \in GNode :
       \/ RejectNode(n) \/ MarkStale(n) \/ Confirm(n) \/ ResolveConflict(n)
       \/ \E status \in EditedTo : EditCandidate(n, status)
       \/ Approve({n})
       \/ \E m \in GNode : SupersedeMemory(n, m) \/ MarkConflict(n, m)
  \/ \E f \in Source : Approve(Of(f))
  \/ RollBack

GraphNext ==
  \/ \E n, m \in GNode, r \in Relation :
       CreateGraphEdge(n, m, r)
  \/ \E i \in DOMAIN edges : DeleteGraphEdge(i)
  \/ \E f \in Source : ExtractSource(f) \/ DeleteSource(f)
  \/ \E n \in GNode, f \in Source, match \in Match : Insert(n, f, match) \/ Propose(n, f, match)
  \/ \E n \in GNode : Connect(n)
  \/ ReviewNext

GraphTypeOK ==
  /\ gnode \in [GNode -> NodeRow \cup {NoNode}]
  /\ sources \subseteq Source /\ extracted \subseteq Source
  /\ Range(edges) \subseteq GEdge /\ Len(edges) <= MaxEdges
  /\ \A n \in GNode : Range(joining[n]) \subseteq Match /\ Len(joining[n]) <= 1
  /\ gmoves \in 0..MaxGraphMoves

-----------------------------------------------------------------------------
(* What the searches promise, against the graph's own distances *)

\* Memories an edge leads to from those in a set, as listGraphEdgesForNode
\* tells it: a link only to a memory that is listed.
Beyond(ask, set) ==
  {m \in GNode : \E n \in set, e \in Range(edges) :
     /\ {n, m} = {e.from, e.to} /\ n # m
     /\ e.relation \in ask.relations
     /\ e.kind = "link" => Visible(m)}

\* The memories at most d edges from n, on ways whose inner memories satisfy
\* the ask.
Passed(n, open, set) == {m \in set : m = n \/ m \in open}

Outward(ask, n, open, set) == set \cup Beyond(ask, Passed(n, open, set))

Within(ask, n, open, d) ==
  LET ball[k \in 0..d] == IF k = 0 THEN {n} ELSE Outward(ask, n, open, ball[k-1])
  IN  ball[d]

PathAsks == [relations : RelationFilter, depth : SearchDepth]
RelatedAsks == [relations : RelationFilter, depth : SearchDepth, limit : SearchLimit,
                stale : BOOLEAN]

\* A relationship path is found exactly when the two memories are connected
\* within the depth, and none is shorter; only an edge to a memory that is
\* gone can end a search early (explainRelationshipPath).
PathsAreShortest ==
  \A n, m \in Shown, a \in PathAsks :
    LET ask  == [relations |-> a.relations, depth |-> a.depth, goal |-> m]
        s    == ExplainRelationshipPath(n, ask)
        near == Within(ask, n, GNode, ask.depth)
    IN  n # m =>
          /\ s.over = "found" => /\ m \in near
                                 /\ m \notin Within(ask, n, GNode, Len(s.found[1]) - 2)
          /\ s.over = "no" => m \notin near
          /\ s.over = "missing" => \E x \in near : ~Visible(x)

\* The memories a search relates are those nearest over memories in force: it
\* relates none that is further, and stops early only with enough nearer ones
\* (findRelatedMemories).
RelatedAreNearest ==
  \A n \in Shown, ask \in RelatedAsks :
    LET s      == FindRelatedMemories(n, ask)
        open   == {m \in Shown : ask.stale \/ ~Withdrawn(m)}
        met    == {Last(path) : path \in Range(s.found)}
        at(d)  == (Within(ask, n, open, d) \cap open) \ {n}
    IN  IF s.over = "missing" THEN \E x \in Within(ask, n, open, ask.depth) : ~Visible(x)
        ELSE /\ Cardinality(met) = Len(s.found) /\ met \subseteq at(ask.depth)
             /\ \A path \in Range(s.found) :
                  LET d == Len(path) - 1
                  IN  Last(path) \notin at(d - 1) /\ at(d - 1) \subseteq met
             /\ ~Enough(ask, s) => met = at(ask.depth)

\* In every graph a path that is found is a shortest one and the memories
\* found related are the nearest (explainRelationshipPath,
\* findRelatedMemories).
SearchesAreExact == PathsAreShortest /\ RelatedAreNearest
=============================================================================
