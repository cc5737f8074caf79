---------------------------- MODULE Runs_proofs ----------------------------
(***************************************************************************)
(* Theorems about agent runs, for any runs, lines, lessons, requests in    *)
(* flight and failures: the tables keep their types, events tell the       *)
(* status, a run compiled again learns nothing twice, and an append keeps  *)
(* what it has read.                                                       *)
(***************************************************************************)
EXTENDS Runs, TLAPS

RunsSpec == RunInit /\ [][RunNext]_runVars

(* The artifacts createRun writes, and those compileRun reads.             *)
LEMMA Names ==
  /\ ArtifactNames \in Seq(Artifact) /\ Compiled \in Seq(Artifact)
  /\ <<>> \in Seq(Artifact) /\ <<"result.md">> \in Seq(Artifact)
  /\ {"actions.md", "result.md", "candidates.md", "reasoning-memories.json", "handoff.md"}
       \subseteq Artifact
<1>1. ArtifactNames[1] = "actions.md" /\ ArtifactNames[2] = "result.md"
      /\ ArtifactNames[3] = "candidates.md" /\ ArtifactNames[4] = "reasoning-memories.json"
      /\ DOMAIN ArtifactNames = 1 .. 4
  BY DEF ArtifactNames
<1>2. {"actions.md", "result.md", "candidates.md", "reasoning-memories.json", "handoff.md"}
        \subseteq Artifact
  <2>1. ToSet(ArtifactNames) = {ArtifactNames[i] : i \in 1 .. 4}
    BY <1>1 DEF ToSet
  <2>2. {ArtifactNames[i] : i \in 1 .. 4} =
          {ArtifactNames[1], ArtifactNames[2], ArtifactNames[3], ArtifactNames[4]}
    OBVIOUS
  <2> QED BY <1>1, <2>1, <2>2 DEF Artifact
<1> QED BY <1>2 DEF ArtifactNames, Compiled

Phase == {"writing", "reading", "inserting", "promoting", "lessons", "keeping"}
(* Some worker is given a request, or what remains of the one it has. *)
Takes(w, q) == q \in InWork /\ work' = [work EXCEPT ![w] = q]

Accepts(w, r) ==
  /\ work[w] = Free /\ jobs' \in 0 .. MaxJobs
  /\ UNCHANGED <<folder, runEvents, found, used, handoffs, breaks>>
  /\ \E q \in InWork :
       /\ Takes(w, q) /\ q.run = r
       /\ q.op = "compile" => mixed' = (IF Compiling(r) = {} THEN mixed ELSE mixed \cup {r})
       /\ q.op # "compile" => mixed' = mixed
       /\ q.op = "compile" => q.at = "reading"
       /\ q.op = "append" => q.at = "reading"
       /\ IF q.op = "create" THEN status[r] = "none" /\ status' = [status EXCEPT ![r] = "created"]
                             ELSE status' = status

(* The requests that are accepted. *)
LEMMA Accepted ==
  ASSUME RunTypeOK, NEW w \in Worker, NEW r \in Run,
         \/ CreateRun(w, r)
         \/ \E todo \in {<<>>, <<"result.md">>}, failed \in BOOLEAN, line \in Line :
               CompleteRun(w, r, todo, {line}, failed)
         \/ \E line \in Line : AppendRunArtifact(w, r, line) \/ CreateHandoff(w, r, line)
         \/ \E promote, reasoning \in BOOLEAN : CompileRun(w, r, promote, reasoning)
  PROVE  Accepts(w, r)
<1>1. MaxJobs \in Nat /\ jobs \in Nat
  BY RunsAssumption DEF RunTypeOK
<1>2. CASE CreateRun(w, r)
  <2>1. PICK q : q = Asked(w, r, "create", "writing", ArtifactNames, {}) OBVIOUS
  <2>2. q \in InWork /\ q.run = r /\ q.op = "create"
    BY <2>1, Names DEF Asked, InWork
  <2>8. work[w] = Free /\ jobs' \in 0 .. MaxJobs /\ work' = [work EXCEPT ![w] = q]
    BY <1>1, <1>2, <2>1 DEF CreateRun, Accept
  <2>9. /\ UNCHANGED <<folder, runEvents, found, used, handoffs, breaks>>
        /\ mixed' = mixed
        /\ status[r] = "none" /\ status' = [status EXCEPT ![r] = "created"]
    BY <1>2 DEF CreateRun
  <2> QED BY <2>2, <2>8, <2>9 DEF Takes, Accepts
<1>3. ASSUME NEW todo \in {<<>>, <<"result.md">>}, NEW failed \in BOOLEAN, NEW line \in Line,
             CompleteRun(w, r, todo, {line}, failed)
      PROVE  Accepts(w, r)
  <2>1. PICK q : q = [Asked(w, r, "complete", "writing", todo, {line}) EXCEPT !.failed = failed] OBVIOUS
  <2>2. todo \in Seq(Artifact)
    BY Names
  <2>3. q \in InWork /\ q.run = r /\ q.op = "complete"
    BY <2>1, <2>2 DEF Asked, InWork
  <2>8. work[w] = Free /\ jobs' \in 0 .. MaxJobs /\ work' = [work EXCEPT ![w] = q]
    BY <1>1, <1>3, <2>1 DEF CompleteRun, Accept
  <2>9. /\ UNCHANGED <<folder, runEvents, found, used, handoffs, breaks>>
        /\ mixed' = mixed
        /\ status' = status
    BY <1>3 DEF CompleteRun
  <2> QED BY <2>3, <2>8, <2>9 DEF Takes, Accepts
<1>4. ASSUME NEW line \in Line, AppendRunArtifact(w, r, line)
      PROVE  Accepts(w, r)
  <2>1. PICK q : q = Asked(w, r, "append", "reading", <<>>, {line}) OBVIOUS
  <2>2. q \in InWork /\ q.run = r /\ q.op = "append" /\ q.at = "reading"
    BY <2>1, Names DEF Asked, InWork
  <2>8. work[w] = Free /\ jobs' \in 0 .. MaxJobs /\ work' = [work EXCEPT ![w] = q]
    BY <1>1, <1>4, <2>1 DEF AppendRunArtifact, Accept
  <2>9. /\ UNCHANGED <<folder, runEvents, found, used, handoffs, breaks>>
        /\ mixed' = mixed
        /\ status' = status
    BY <1>4 DEF AppendRunArtifact
  <2> QED BY <2>2, <2>8, <2>9 DEF Takes, Accepts
<1>5. ASSUME NEW line \in Line, CreateHandoff(w, r, line)
      PROVE  Accepts(w, r)
  <2>1. PICK q : q = Asked(w, r, "handoff", "reading", <<>>, {line}) OBVIOUS
  <2>2. q \in InWork /\ q.run = r /\ q.op = "handoff"
    BY <2>1, Names DEF Asked, InWork
  <2>8. work[w] = Free /\ jobs' \in 0 .. MaxJobs /\ work' = [work EXCEPT ![w] = q]
    BY <1>1, <1>5, <2>1 DEF CreateHandoff, Accept
  <2>9. /\ UNCHANGED <<folder, runEvents, found, used, handoffs, breaks>>
        /\ mixed' = mixed
        /\ status' = status
    BY <1>5 DEF CreateHandoff
  <2> QED BY <2>2, <2>8, <2>9 DEF Takes, Accepts
<1>6. ASSUME NEW promote \in BOOLEAN, NEW reasoning \in BOOLEAN, CompileRun(w, r, promote, reasoning)
      PROVE  Accepts(w, r)
  <2>1. PICK q : q = [Asked(w, r, "compile", "reading", Compiled, {}) EXCEPT
                        !.promote = promote, !.reasoning = reasoning] OBVIOUS
  <2>2. q \in InWork /\ q.run = r /\ q.op = "compile" /\ q.at = "reading"
    BY <2>1, Names DEF Asked, InWork
  <2>8. work[w] = Free /\ jobs' \in 0 .. MaxJobs /\ work' = [work EXCEPT ![w] = q]
    <3>1. Accept(w, q)
      BY <1>6, <2>1, Zenon DEF CompileRun
    <3> QED BY <1>1, <3>1 DEF Accept
  <2>9. /\ UNCHANGED <<folder, runEvents, found, used, handoffs, breaks>>
        /\ mixed' = (IF Compiling(r) = {} THEN mixed ELSE mixed \cup {r})
        /\ status' = status
    BY <1>6 DEF CompileRun
  <2> QED BY <2>2, <2>8, <2>9 DEF Takes, Accepts
<1> QED BY <1>2, <1>3, <1>4, <1>5, <1>6

(* A request goes on.  The keys it still has to insert become fewer, and   *)
(* an append adds to the lines it has read.                                *)
GoesOn(w) ==
  \E q \in InWork :
    /\ Takes(w, q) /\ q.op = work[w].op /\ q.run = work[w].run
    /\ q.op = "append" /\ q.at = "writing" => q.base \subseteq q.lines
    /\ q.op = "compile" /\ q.at \in {"lessons", "keeping"} =>
         work[w].at \in {"lessons", "keeping"} /\ q.keys \subseteq work[w].keys

(* The steps between the first of a request and its last. *)
LEMMA StepsGoOn ==
  ASSUME RunTypeOK, NEW w \in Worker,
         \/ WriteNext(w) \/ ReadExisting(w) \/ WriteHandoff(w) \/ ReadNext(w)
         \/ WriteCandidates(w) \/ InsertCandidate(w) \/ Promote(w)
         \/ WriteLessons(w) \/ InsertLesson(w)
  PROVE  GoesOn(w)
<1>1. work[w] \in InWork
  <2>1. work[w].op # "free"
    BY DEF Busy, WriteNext, ReadExisting, WriteHandoff, ReadNext,
           WriteCandidates, InsertCandidate, Promote, WriteLessons, InsertLesson
  <2> QED BY <2>1 DEF RunTypeOK, Free
<1>2. \A a \in Artifact : folder[work[w].run][a] \subseteq Line
  BY <1>1 DEF RunTypeOK, InWork
<1>3. ASSUME NEW at \in Phase, Go(w, at), work[w].op = "append" => at # "writing",
             work[w].op = "compile" /\ at \in {"lessons", "keeping"} => work[w].at \in {"lessons", "keeping"}
      PROVE  GoesOn(w)
  <2>1. PICK q : q = [work[w] EXCEPT !.at = at] OBVIOUS
  <2>2. q \in InWork /\ q.op = work[w].op /\ q.run = work[w].run /\ q.keys = work[w].keys /\ q.at = at
    BY <1>1, <2>1 DEF InWork, Phase
  <2>3. work' = [work EXCEPT ![w] = q]
    BY <1>1, <1>3, <2>1 DEF Go, RunTypeOK
  <2> QED BY <1>3, <2>2, <2>3 DEF GoesOn, Takes
<1>4. CASE WriteNext(w)
  <2>1. PICK q : q = [work[w] EXCEPT !.todo = Tail(@)] OBVIOUS
  <2>2. q \in InWork /\ q.op \in {"create", "complete"} /\ q.op = work[w].op /\ q.run = work[w].run
    <3>1. Tail(work[w].todo) \in Seq(Artifact)
      BY <1>1, <1>4 DEF InWork, WriteNext
    <3>2. work[w].op \in {"create", "complete"}
      BY <1>4 DEF WriteNext, Busy
    <3> QED BY <1>1, <2>1, <3>1, <3>2 DEF InWork
  <2>3. work' = [work EXCEPT ![w] = q]
    BY <1>1, <1>4, <2>1 DEF WriteNext, RunTypeOK
  <2> QED BY <2>2, <2>3 DEF GoesOn, Takes
<1>5. CASE ReadExisting(w)
  <2>1. PICK old : old = folder[work[w].run]["actions.md"] OBVIOUS
  <2>2. old \subseteq Line
    BY <1>2, <2>1, Names
  <2>3. PICK q : q = [work[w] EXCEPT !.at = "writing", !.lines = @ \cup old, !.base = old] OBVIOUS
  <2>4. q \in InWork /\ q.op = "append" /\ q.op = work[w].op /\ q.run = work[w].run /\ q.base \subseteq q.lines
    BY <1>1, <1>5, <2>2, <2>3 DEF InWork, ReadExisting, Busy
  <2>5. work' = [work EXCEPT ![w] = q]
    BY <1>1, <1>5, <2>1, <2>3 DEF ReadExisting, RunTypeOK
  <2> QED BY <2>4, <2>5 DEF GoesOn, Takes
<1>6. CASE WriteHandoff(w)
  BY <1>3, <1>6 DEF WriteHandoff, Busy, Phase
<1>7. CASE ReadNext(w)
  <2>1. Head(work[w].todo) \in Artifact
    BY <1>1, <1>7 DEF InWork, ReadNext
  <2>2. PICK more : more = folder[work[w].run][Head(work[w].todo)] OBVIOUS
  <2>3. more \subseteq Line
    BY <1>2, <2>1, <2>2
  <2>4. PICK q : q = [work[w] EXCEPT !.todo = Tail(@), !.lines = @ \cup more] OBVIOUS
  <2>5. q \in InWork /\ q.op = "compile" /\ q.at = "reading" /\ q.op = work[w].op /\ q.run = work[w].run
    <3>1. Tail(work[w].todo) \in Seq(Artifact)
      BY <1>1, <1>7 DEF InWork, ReadNext
    <3> QED BY <1>1, <1>7, <2>3, <2>4, <3>1 DEF InWork, ReadNext, Busy
  <2>6. work' = [work EXCEPT ![w] = q]
    BY <1>1, <1>7, <2>2, <2>4 DEF ReadNext, RunTypeOK
  <2> QED BY <2>5, <2>6 DEF GoesOn, Takes
<1>8. CASE WriteCandidates(w)
  BY <1>3, <1>8 DEF WriteCandidates, Busy, Phase
<1>9. CASE InsertCandidate(w)
  <2>1. PICK line \in work[w].lines :
          work' = [work EXCEPT ![w].lines = @ \ {line}, ![w].node = Len(found) + 1,
                     ![w].at = IF work[w].promote /\ line \in Durable THEN "promoting" ELSE @]
    BY <1>9 DEF InsertCandidate
  <2>2. PICK at : at = IF work[w].promote /\ line \in Durable THEN "promoting" ELSE work[w].at OBVIOUS
  <2>3. PICK node : node = Len(found) + 1 OBVIOUS
  <2>4. at \in {"inserting", "promoting"} /\ node \in Nat
    <3>1. found \in Seq(NodeMade) /\ work[w].at = "inserting"
      BY <1>9 DEF InsertCandidate, Busy, RunTypeOK
    <3> QED BY <2>2, <2>3, <3>1
  <2>5. PICK q : q = [work[w] EXCEPT !.lines = @ \ {line}, !.node = node, !.at = at] OBVIOUS
  <2>6. q \in InWork /\ q.op = "compile" /\ q.at = at /\ q.op = work[w].op /\ q.run = work[w].run
    BY <1>1, <1>9, <2>4, <2>5 DEF InWork, InsertCandidate, Busy
  <2>7. work' = [work EXCEPT ![w] = q]
    BY <1>1, <2>1, <2>2, <2>3, <2>5 DEF RunTypeOK
  <2> QED BY <2>4, <2>6, <2>7 DEF GoesOn, Takes
<1>10. CASE Promote(w)
  BY <1>3, <1>10 DEF Promote, Busy, Phase
<1>11. CASE WriteLessons(w)
  BY <1>3, <1>11 DEF WriteLessons, Busy, Phase
<1>12. CASE InsertLesson(w)
  <2>1. PICK key \in work[w].keys : work' = [work EXCEPT ![w].keys = @ \ {key}]
    BY <1>12 DEF InsertLesson
  <2>2. PICK q : q = [work[w] EXCEPT !.keys = @ \ {key}] OBVIOUS
  <2>3. q \in InWork /\ q.op = "compile" /\ q.op = work[w].op /\ q.run = work[w].run
        /\ q.keys \subseteq work[w].keys /\ work[w].at = "keeping"
    BY <1>1, <1>12, <2>2 DEF InWork, InsertLesson, Busy
  <2>4. work' = [work EXCEPT ![w] = q]
    BY <1>1, <2>1, <2>2 DEF RunTypeOK
  <2> QED BY <2>3, <2>4 DEF GoesOn, Takes
<1> QED BY <1>4, <1>5, <1>6, <1>7, <1>8, <1>9, <1>10, <1>11, <1>12

-----------------------------------------------------------------------------
(* What the steps do to the other tables. *)

\* Artifacts of known names get lines.
Filed == folder' \in [Run -> [Artifact -> SUBSET Line]]

(* writeRunArtifact. *)
LEMMA WritesFile ==
  ASSUME RunTypeOK, NEW r \in Run, NEW a \in Artifact, NEW lines \in SUBSET Line,
         WriteArtifact(r, a, lines)
  PROVE  Filed
<1>1. folder[r] \in [Artifact -> SUBSET Line]
  BY DEF RunTypeOK
<1>2. [folder[r] EXCEPT ![a] = lines] \in [Artifact -> SUBSET Line]
  BY <1>1
<1> QED BY <1>1, <1>2 DEF RunTypeOK, WriteArtifact, Filed

\* What compileRun made before stays, but that a candidate may be promoted.
Keeps ==
  /\ found' \in Seq(NodeMade) /\ Len(found') >= Len(found)
  /\ \A i \in DOMAIN found : /\ found'[i].kind = found[i].kind
                             /\ found'[i].run = found[i].run /\ found'[i].key = found[i].key

(* Nodes are made and promoted, never taken away or renamed. *)
LEMMA KeepsNodes ==
  ASSUME RunTypeOK, NEW w \in Worker
  PROVE  /\ UNCHANGED found => Keeps
         /\ \A r \in Run, kind \in {"candidate", "reasoning"}, key \in Line \cup Lesson :
              found' = Append(found, Made(r, kind, key)) => Keeps
         /\ Promote(w) => Keeps
<1>1. found \in Seq(NodeMade)
  BY DEF RunTypeOK
<1>2. ASSUME NEW r \in Run, NEW kind \in {"candidate", "reasoning"}, NEW key \in Line \cup Lesson,
             found' = Append(found, Made(r, kind, key))
      PROVE  Keeps
  <2>1. Made(r, kind, key) \in NodeMade
    BY DEF Made, NodeMade
  <2> QED BY <1>1, <1>2, <2>1 DEF Keeps
<1>3. ASSUME Promote(w) PROVE Keeps
  <2>1. PICK i : i = work[w].node OBVIOUS
  <2>2. found' = [found EXCEPT ![i].promoted = TRUE]
    BY <1>3, <2>1 DEF Promote
  <2>3. CASE i \in DOMAIN found
    <3>1. PICK n : n = [found[i] EXCEPT !.promoted = TRUE] OBVIOUS
    <3>2. found[i] \in NodeMade
      BY <1>1, <2>3
    <3>3. n \in NodeMade /\ n.kind = found[i].kind /\ n.run = found[i].run /\ n.key = found[i].key
      BY <3>1, <3>2 DEF NodeMade
    <3>4. found' = [found EXCEPT ![i] = n]
      BY <2>2, <2>3, <3>1
    <3> QED BY <1>1, <2>3, <3>3, <3>4 DEF Keeps
  <2>4. CASE i \notin DOMAIN found
    <3>1. found' = found
      BY <1>1, <2>2, <2>4
    <3> QED BY <1>1, <3>1 DEF Keeps
  <2> QED BY <2>3, <2>4
<1> QED BY <1>1, <1>2, <1>3 DEF Keeps

(* The steps of one worker that do not log an event. *)
Quietly == UNCHANGED <<status, runEvents, jobs, breaks, mixed>>

Tabled ==
  /\ Filed /\ Keeps
  /\ used' = used /\ handoffs' \in [Run -> Nat]

(* They leave statuses and events alone, and the tables typed. *)
LEMMA StepsTable ==
  ASSUME RunTypeOK, NEW w \in Worker,
         \/ WriteNext(w) \/ ReadExisting(w) \/ WriteHandoff(w) \/ ReadNext(w)
         \/ WriteCandidates(w) \/ InsertCandidate(w) \/ Promote(w)
         \/ WriteLessons(w) \/ InsertLesson(w)
         \/ Reason(w) \/ WriteAppended(w) \/ KeepHandoff(w)
  PROVE  Quietly /\ Tabled
<1>1. work[w] \in InWork
  <2>1. work[w].op # "free"
    BY DEF Busy, WriteNext, ReadExisting, WriteHandoff, ReadNext, WriteCandidates,
           InsertCandidate, Promote, WriteLessons, InsertLesson, Reason,
           WriteAppended, KeepHandoff
  <2> QED BY <2>1 DEF RunTypeOK, Free
<1>2. work[w].run \in Run /\ work[w].lines \in SUBSET Line /\ work[w].keys \in SUBSET Lesson
      /\ work[w].todo \in Seq(Artifact)
  BY <1>1 DEF InWork
<1>3. UNCHANGED folder => Filed
  BY DEF RunTypeOK, Filed
<1>4. UNCHANGED used /\ UNCHANGED handoffs => used' = used /\ handoffs' \in [Run -> Nat]
  BY DEF RunTypeOK
<1>5. CASE WriteNext(w)
  <2>1. Head(work[w].todo) \in Artifact
    BY <1>2, <1>5 DEF WriteNext
  <2> QED BY <1>2, <1>4, <1>5, <2>1, WritesFile, KeepsNodes DEF WriteNext, Quietly, Tabled
<1>6. CASE ReadExisting(w) \/ ReadNext(w) \/ Reason(w)
  BY <1>3, <1>4, <1>6, KeepsNodes DEF ReadExisting, ReadNext, Reason, Quietly, Tabled
<1>7. CASE WriteHandoff(w)
  BY <1>2, <1>4, <1>7, Names, WritesFile, KeepsNodes DEF WriteHandoff, Quietly, Tabled
<1>8. CASE WriteCandidates(w)
  BY <1>2, <1>4, <1>8, Names, WritesFile, KeepsNodes DEF WriteCandidates, Quietly, Tabled
<1>9. CASE InsertCandidate(w)
  <2>1. PICK line \in work[w].lines : found' = Append(found, Made(work[w].run, "candidate", line))
    BY <1>9 DEF InsertCandidate
  <2>2. Keeps
    BY <1>2, <2>1, KeepsNodes
  <2> QED BY <1>3, <1>4, <1>9, <2>2 DEF InsertCandidate, Quietly, Tabled
<1>10. CASE Promote(w)
  BY <1>3, <1>4, <1>10, KeepsNodes DEF Promote, Quietly, Tabled
<1>11. CASE WriteLessons(w)
  <2>1. {} \in SUBSET Line
    OBVIOUS
  <2> QED BY <1>2, <1>4, <1>11, <2>1, Names, WritesFile, KeepsNodes DEF WriteLessons, Quietly, Tabled
<1>12. CASE InsertLesson(w)
  <2>1. PICK key \in work[w].keys : found' = Append(found, Made(work[w].run, "reasoning", key))
    BY <1>12 DEF InsertLesson
  <2>2. Keeps
    BY <1>2, <2>1, KeepsNodes
  <2> QED BY <1>3, <1>4, <1>12, <2>2 DEF InsertLesson, Quietly, Tabled
<1>13. CASE WriteAppended(w)
  BY <1>2, <1>4, <1>13, Names, WritesFile, KeepsNodes DEF WriteAppended, Quietly, Tabled
<1>14. CASE KeepHandoff(w)
  <2>1. handoffs' \in [Run -> Nat]
    BY <1>2, <1>14 DEF KeepHandoff, RunTypeOK
  <2> QED BY <1>3, <1>14, <2>1, KeepsNodes DEF KeepHandoff, Quietly, Tabled
<1> QED BY <1>5, <1>6, <1>7, <1>8, <1>9, <1>10, <1>11, <1>12, <1>13, <1>14

(* Reasoning memories of a run are kept only if it has none of the key.    *)
LEMMA ReasonTakes ==
  ASSUME RunTypeOK, NEW w \in Worker, Reason(w)
  PROVE  \E q \in InWork :
           /\ Takes(w, q) /\ q.op = "compile" /\ q.run = work[w].run /\ q.at = "lessons"
           /\ q.keys \cap KeysOf(work[w].run) = {}
<1>1. work[w] \in InWork
  BY DEF RunTypeOK, Reason, Busy, Free
<1>2. PICK kept \in SUBSET Lesson :
        /\ kept \cap KeysOf(work[w].run) = {}
        /\ work' = [work EXCEPT ![w].at = "lessons", ![w].keys = kept]
  BY DEF Reason, DedupeReasoningMemories
<1>3. PICK q : q = [work[w] EXCEPT !.at = "lessons", !.keys = kept] OBVIOUS
<1>4. q \in InWork /\ q.op = "compile" /\ q.run = work[w].run /\ q.at = "lessons" /\ q.keys = kept
  BY <1>1, <1>3 DEF InWork, Reason, Busy
<1>5. work' = [work EXCEPT ![w] = q]
  BY <1>1, <1>2, <1>3 DEF RunTypeOK
<1> QED BY <1>2, <1>4, <1>5 DEF Takes

(* A request ends. *)
LEMMA EndsFree ==
  ASSUME RunTypeOK, NEW w \in Worker,
         EndCreate(w) \/ EndComplete(w) \/ WriteAppended(w) \/ KeepHandoff(w) \/ EndCompile(w)
  PROVE  Finish(w)
BY DEF EndCreate, EndComplete, WriteAppended, KeepHandoff, EndCompile

\* The row of a run after an event is told of it: run_created changes none.
Sets(r, s) == status' = IF s = "created" THEN status ELSE [status EXCEPT ![r] = s]

(* A run ends, or its folder is there: the row and the event change        *)
(* together, if the row does.                                              *)
LEMMA EndsTell ==
  ASSUME RunTypeOK, NEW w \in Worker, EndCreate(w) \/ EndComplete(w) \/ EndCompile(w)
  PROVE  /\ \E r \in Run, s \in {"created", "completed", "failed", "compiled"} :
              /\ Sets(r, s) /\ LogRunEvent(r, s)
              /\ s = "created" => work[w].op = "create" /\ work[w].run = r
         /\ UNCHANGED <<folder, found, used, handoffs, jobs, breaks, mixed>>
<1>1. work[w] \in InWork
  <2>1. work[w].op # "free"
    BY DEF Busy, EndCreate, EndComplete, EndCompile
  <2> QED BY <2>1 DEF RunTypeOK, Free
<1>2. work[w].run \in Run
  BY <1>1 DEF InWork
<1>3. CASE EndComplete(w)
  BY <1>2, <1>3 DEF EndComplete, Outcome, Sets
<1>4. CASE EndCompile(w)
  BY <1>2, <1>4 DEF EndCompile, Sets
<1>5. CASE EndCreate(w)
  BY <1>2, <1>5 DEF EndCreate, Sets, Busy
<1> QED BY <1>3, <1>4, <1>5

-----------------------------------------------------------------------------
(* The kinds of steps. *)

Works(w) ==
  /\ Quietly /\ Tabled
  /\ \/ GoesOn(w) /\ (UNCHANGED found \/ InsertCandidate(w) \/ Promote(w) \/ InsertLesson(w))
     \/ Reason(w) /\ UNCHANGED found
     \/ /\ Finish(w) /\ UNCHANGED found
        /\ Busy(w, "append", "writing") => WriteArtifact(work[w].run, "actions.md", work[w].lines)

\* A run starts, or is over for the worker that made, completes or compiles it.
Tells(r, s) ==
  /\ Sets(r, s) /\ LogRunEvent(r, s)
  /\ UNCHANGED <<folder, found, used, handoffs, breaks, mixed>>
  /\ jobs' \in 0 .. MaxJobs
  /\ \/ work' = work /\ s # "created"
     \/ \E w \in Worker :
          /\ Finish(w) /\ work[w].op # "append"
          /\ s = "created" => work[w].op = "create" /\ work[w].run = r

Tellable == {"created", "running", "completed", "failed", "compiled"}

Asides ==
  /\ UNCHANGED <<status, folder, runEvents, found, handoffs, mixed>>
  /\ used' \subseteq Run \X (Nat \ {0})
  /\ jobs' \in 0 .. MaxJobs /\ breaks' \in 0 .. MaxBreaks
  /\ \/ work' = work
     \/ /\ breaks' # breaks
        /\ \E ws \in SUBSET Worker : work' = [w \in Worker |-> IF w \in ws THEN Free ELSE work[w]]

(* Every step is of one of these kinds. *)
LEMMA StepKinds ==
  ASSUME RunTypeOK, [RunNext]_runVars
  PROVE  \/ \E w \in Worker, r \in Run : Accepts(w, r)
         \/ \E w \in Worker : Works(w)
         \/ \E r \in Run, s \in Tellable : Tells(r, s)
         \/ Asides
<1>2. ASSUME NEW r \in Run, StartRun(r) PROVE "running" \in Tellable /\ Tells(r, "running")
  BY <1>2, RunsAssumption DEF StartRun, Tells, Sets, Tellable, RunTypeOK
<1>3. ASSUME NEW r \in Run, NEW n \in DOMAIN found, LogMemoryUsage(r, n) PROVE Asides
  <2>1. n \in Nat \ {0}
    BY DEF RunTypeOK
  <2> QED BY <1>3, <2>1, RunsAssumption DEF LogMemoryUsage, Asides, RunTypeOK
<1>4. ASSUME NEW w \in Worker,
             \/ WriteNext(w) \/ ReadExisting(w) \/ WriteHandoff(w) \/ ReadNext(w)
             \/ WriteCandidates(w) \/ WriteLessons(w)
      PROVE  Works(w)
  BY <1>4, StepsGoOn, StepsTable
     DEF Works, WriteNext, ReadExisting, WriteHandoff, ReadNext, WriteCandidates, WriteLessons
<1>5. ASSUME NEW w \in Worker, InsertCandidate(w) \/ Promote(w) \/ InsertLesson(w) PROVE Works(w)
  BY <1>5, StepsGoOn, StepsTable DEF Works
<1>6. ASSUME NEW w \in Worker, Reason(w) PROVE Works(w)
  BY <1>6, StepsTable DEF Works, Reason
<1>7. ASSUME NEW w \in Worker, WriteAppended(w) \/ KeepHandoff(w) PROVE Works(w)
  BY <1>7, EndsFree, StepsTable DEF Works, WriteAppended, KeepHandoff, Busy
<1>8. ASSUME NEW w \in Worker, EndCreate(w) \/ EndComplete(w) \/ EndCompile(w)
      PROVE  \E r \in Run, s \in Tellable : Tells(r, s)
  <2>1. jobs \in 0 .. MaxJobs
    BY DEF RunTypeOK
  <2>2. work[w].op # "append"
    BY <1>8 DEF EndCreate, EndComplete, EndCompile, Busy
  <2>3. Finish(w)
    BY <1>8, EndsFree
  <2>4. PICK r \in Run, s \in {"created", "completed", "failed", "compiled"} :
          /\ Sets(r, s) /\ LogRunEvent(r, s)
          /\ s = "created" => work[w].op = "create" /\ work[w].run = r
    BY <1>8, EndsTell
  <2>5. UNCHANGED <<folder, found, used, handoffs, jobs, breaks, mixed>>
    BY <1>8, EndsTell
  <2>6. Tells(r, s)
    BY <2>1, <2>2, <2>3, <2>4, <2>5 DEF Tells
  <2> QED BY <2>6 DEF Tellable
<1>9. ASSUME NEW ws \in SUBSET Worker, BreakOff(ws) PROVE Asides
  <2>1. work' = [w \in Worker |-> IF w \in ws THEN Free ELSE work[w]]
    BY <1>9 DEF BreakOff
  <2>2. /\ UNCHANGED <<status, folder, runEvents, found, used, handoffs, jobs, mixed>>
        /\ breaks' \in 0 .. MaxBreaks /\ breaks' # breaks
    BY <1>9, RunsAssumption DEF BreakOff, RunTypeOK
  <2> QED BY <2>1, <2>2 DEF Asides, RunTypeOK
<1>10. CASE UNCHANGED runVars
  BY <1>10 DEF runVars, Asides, RunTypeOK
<1>11. CASE RunNext
  <2>1. CASE \E w \in Worker, r \in Run :
               \/ CreateRun(w, r)
               \/ \E todo \in {<<>>, <<"result.md">>}, failed \in BOOLEAN, line \in Line :
                    CompleteRun(w, r, todo, {line}, failed)
               \/ \E line \in Line : AppendRunArtifact(w, r, line) \/ CreateHandoff(w, r, line)
               \/ \E promote, reasoning \in BOOLEAN : CompileRun(w, r, promote, reasoning)
    BY <2>1, Accepted
  <2>2. CASE \E r \in Run : StartRun(r) \/ \E n \in DOMAIN found : LogMemoryUsage(r, n)
    BY <2>2, <1>2, <1>3
  <2>3. CASE \E w \in Worker :
               \/ WriteNext(w) \/ EndCreate(w) \/ EndComplete(w)
               \/ ReadExisting(w) \/ WriteAppended(w) \/ WriteHandoff(w) \/ KeepHandoff(w)
               \/ ReadNext(w) \/ WriteCandidates(w) \/ InsertCandidate(w) \/ Promote(w) \/ Reason(w)
               \/ WriteLessons(w) \/ InsertLesson(w) \/ EndCompile(w)
    BY <2>3, <1>4, <1>5, <1>6, <1>7, <1>8
  <2>4. CASE (\E w \in Worker : work[w] # Free /\ BreakOff({w})) \/ BreakOff(Worker)
    BY <2>4, <1>9
  <2> QED BY <1>11, <2>1, <2>2, <2>3, <2>4 DEF RunNext
<1> QED BY <1>10, <1>11

-----------------------------------------------------------------------------
(* The tables, the artifacts and the requests in work keep the shapes they *)
(* have, whatever requests come and wherever they break off (createRun,    *)
(* completeRun, appendRunArtifact, createHandoff, compileRun).             *)
THEOREM RunsTyped == RunsSpec => []RunTypeOK
<1>1. RunInit => RunTypeOK
  <2> SUFFICES ASSUME RunInit PROVE RunTypeOK
    OBVIOUS
  <2>1. <<>> \in Seq(Status) /\ <<>> \in Seq(NodeMade)
    OBVIOUS
  <2> QED BY <2>1, RunsAssumption DEF RunInit, RunTypeOK, Status
<1>2. RunTypeOK /\ [RunNext]_runVars => RunTypeOK'
  <2> SUFFICES ASSUME RunTypeOK, [RunNext]_runVars PROVE RunTypeOK'
    OBVIOUS
  <2>1. ASSUME NEW w \in Worker, NEW r \in Run, Accepts(w, r) PROVE RunTypeOK'
    <3>1. work' \in [Worker -> {Free} \cup InWork]
      BY <2>1 DEF Accepts, Takes, RunTypeOK
    <3>2. mixed' \subseteq Run
      BY <2>1 DEF Accepts, RunTypeOK
    <3>3. status' \in [Run -> Status]
      BY <2>1 DEF Accepts, RunTypeOK, Status
    <3> QED BY <2>1, <3>1, <3>2, <3>3 DEF Accepts, RunTypeOK
  <2>2. ASSUME NEW w \in Worker, Works(w) PROVE RunTypeOK'
    <3>1. work' \in [Worker -> {Free} \cup InWork]
      BY <2>2, ReasonTakes DEF Works, GoesOn, Takes, Finish, RunTypeOK
    <3> QED BY <2>2, <3>1 DEF Works, Quietly, Tabled, Filed, Keeps, RunTypeOK
  <2>3. ASSUME NEW r \in Run, NEW s \in Tellable, Tells(r, s)
        PROVE  RunTypeOK'
    <3>1. work' \in [Worker -> {Free} \cup InWork]
      BY <2>3 DEF Tells, Finish, RunTypeOK
    <3>2. status' \in [Run -> Status] /\ runEvents' \in [Run -> Seq(Status)]
      BY <2>3 DEF Tells, Sets, Tellable, LogRunEvent, RunTypeOK, Status
    <3> QED BY <2>3, <3>1, <3>2 DEF Tells, RunTypeOK
  <2>4. ASSUME Asides PROVE RunTypeOK'
    <3>1. work' \in [Worker -> {Free} \cup InWork]
      BY <2>4 DEF Asides, RunTypeOK
    <3> QED BY <2>4, <3>1 DEF Asides, RunTypeOK
  <2> QED BY <2>1, <2>2, <2>3, <2>4, StepKinds
<1> QED BY <1>1, <1>2, PTL DEF RunsSpec

-----------------------------------------------------------------------------
\* A run that is not there has no events; the event of its creation is told
\* by the one request that creates it, when it has not been told.
Unborn == \A r \in Run : status[r] = "none" => runEvents[r] = <<>>

Creation ==
  \A w \in Worker : work[w].op = "create" =>
    /\ status[work[w].run] # "none"
    /\ \A i \in DOMAIN runEvents[work[w].run] : runEvents[work[w].run][i] # "created"
    /\ \A v \in Worker : work[v].op = "create" /\ work[v].run = work[w].run => v = w

(* No request begins to create a run while another creates it.             *)
LEMMA CreatesOnce ==
  ASSUME RunTypeOK, Creation, Unborn, [RunNext]_runVars
  PROVE  Creation' /\ Unborn'
<1>1. ASSUME NEW w \in Worker, NEW r \in Run, Accepts(w, r) PROVE Creation' /\ Unborn'
  <2>1. PICK q \in InWork :
          /\ work' = [work EXCEPT ![w] = q] /\ q.run = r
          /\ IF q.op = "create" THEN status[r] = "none" /\ status' = [status EXCEPT ![r] = "created"]
                                ELSE status' = status
    BY <1>1 DEF Accepts, Takes
  <2>2. runEvents' = runEvents
    BY <1>1 DEF Accepts
  <2>3. CASE q.op = "create"
    <3>1. runEvents[r] = <<>> /\ \A v \in Worker : work[v].op = "create" => work[v].run # r
      BY <2>1, <2>3 DEF Unborn, Creation
    <3>2. runEvents'[r] = <<>> /\ status'[r] = "created"
          /\ \A p \in Run : p # r => status'[p] = status[p]
      BY <2>1, <2>2, <2>3, <3>1 DEF RunTypeOK
    <3>3. \A v \in Worker : work'[v] = IF v = w THEN q ELSE work[v]
      BY <2>1 DEF RunTypeOK
    <3>4. \A v \in Worker : work[v].op = "create" => work[v].run \in Run
      BY DEF RunTypeOK, InWork, Free
    <3>5. Unborn'
      BY <2>2, <3>2 DEF Unborn
    <3>6. Creation'
      BY <2>1, <2>2, <3>1, <3>2, <3>3, <3>4 DEF Creation
    <3> QED BY <3>5, <3>6
  <2>4. CASE q.op # "create"
    <3>1. status' = status
      BY <2>1, <2>4
    <3> QED BY <2>1, <2>2, <2>4, <3>1 DEF Creation, Unborn, RunTypeOK
  <2> QED BY <2>3, <2>4
<1>2. ASSUME NEW w \in Worker, Works(w) PROVE Creation' /\ Unborn'
  <2>1. UNCHANGED <<status, runEvents>>
    BY <1>2 DEF Works, Quietly
  <2>2. \A v \in Worker : work'[v].op = "create" =>
          work[v].op = "create" /\ work'[v].run = work[v].run
    <3>1. CASE GoesOn(w)
      <4>1. PICK q \in InWork :
              work' = [work EXCEPT ![w] = q] /\ q.op = work[w].op /\ q.run = work[w].run
        BY <3>1 DEF GoesOn, Takes
      <4> QED BY <4>1 DEF RunTypeOK
    <3>2. CASE Reason(w)
      <4>1. PICK q \in InWork : work' = [work EXCEPT ![w] = q] /\ q.op = "compile"
        BY <3>2, ReasonTakes DEF Takes
      <4> QED BY <4>1 DEF RunTypeOK
    <3>3. CASE Finish(w)
      BY <3>3 DEF Finish, Free, RunTypeOK
    <3> QED BY <1>2, <3>1, <3>2, <3>3 DEF Works
  <2> QED BY <2>1, <2>2 DEF Creation, Unborn
<1>3. ASSUME NEW r \in Run, NEW s \in Tellable, Tells(r, s) PROVE Creation' /\ Unborn'
  <2>1. runEvents[r] \in Seq(Status) /\ runEvents' = [runEvents EXCEPT ![r] = Append(@, s)]
        /\ s # "none" /\ (status' = status \/ status' = [status EXCEPT ![r] = s])
    BY <1>3 DEF Tells, Sets, LogRunEvent, RunTypeOK, Tellable
  <2>2. PICK more : more = Append(runEvents[r], s)
    OBVIOUS
  <2>3. \A i \in DOMAIN more : (i \in DOMAIN runEvents[r] /\ more[i] = runEvents[r][i]) \/ more[i] = s
    BY <2>1, <2>2
  <2>4. runEvents'[r] = more /\ \A q \in Run : q # r => runEvents'[q] = runEvents[q] /\ status'[q] = status[q]
    BY <2>1, <2>2 DEF RunTypeOK
  <2>5. status'[r] # "none"
    <3>1. CASE s = "created"
      <4>1. PICK w \in Worker : work[w].op = "create" /\ work[w].run = r
        BY <1>3, <3>1 DEF Tells
      <4> QED BY <1>3, <3>1, <4>1 DEF Tells, Sets, Creation
    <3>2. CASE s # "created"
      BY <1>3, <2>1, <3>2 DEF Tells, Sets, RunTypeOK
    <3> QED BY <3>1, <3>2
  <2>6. Unborn'
    BY <2>4, <2>5 DEF Unborn
  <2>7. \A v \in Worker : work'[v].op = "create" =>
          /\ work[v].op = "create" /\ work'[v].run = work[v].run /\ work[v].run \in Run
          /\ s = "created" => work[v].run # r
    <3> SUFFICES ASSUME NEW v \in Worker, work'[v].op = "create"
                 PROVE  /\ work[v].op = "create" /\ work'[v].run = work[v].run /\ work[v].run \in Run
                        /\ s = "created" => work[v].run # r
      OBVIOUS
    <3>1. work'[v] = work[v] \/ work'[v] = Free
      BY <1>3 DEF Tells, Finish, RunTypeOK
    <3>2. work'[v] = work[v]
      BY <3>1 DEF Free
    <3>3. work[v] \in InWork
      BY <3>2 DEF Free, RunTypeOK
    <3>4. work[v].run \in Run
      BY <3>3 DEF InWork
    <3>5. ASSUME s = "created", work[v].run = r PROVE FALSE
      <4>1. PICK w \in Worker : Finish(w) /\ work[w].op = "create" /\ work[w].run = r
        BY <1>3, <3>5 DEF Tells
      <4>2. v = w
        BY <3>2, <3>5, <4>1 DEF Creation
      <4>3. work'[w] = Free
        BY <4>1 DEF Finish, RunTypeOK
      <4> QED BY <4>2, <4>3 DEF Free
    <3> QED BY <3>2, <3>4, <3>5
  <2>8. Creation'
    BY <2>3, <2>4, <2>5, <2>7 DEF Creation
  <2> QED BY <2>6, <2>8
<1>4. ASSUME Asides PROVE Creation' /\ Unborn'
  <2>1. UNCHANGED <<status, runEvents>> /\ \A v \in Worker : work'[v] = work[v] \/ work'[v] = Free
    BY <1>4 DEF Asides
  <2> QED BY <2>1 DEF Creation, Unborn, Free
<1> QED BY <1>1, <1>2, <1>3, <1>4, StepKinds

(* The last event of a run but run_created tells what its row says, and    *)
(* run_created is told once, after any interleaving of creations, starts,  *)
(* completions, compilations and failures (createRun, startRun,            *)
(* completeRun, compileRun).                                               *)
THEOREM EventsTell == RunsSpec => []EventsTellStatus
<1> DEFINE Told == Creation /\ Unborn /\ EventsTellStatus
<1>1. RunInit => Told
  BY DEF RunInit, Creation, Unborn, EventsTellStatus, Free
<1>2. RunTypeOK /\ Told /\ [RunNext]_runVars => Told'
  <2> SUFFICES ASSUME RunTypeOK, Told, [RunNext]_runVars PROVE EventsTellStatus'
    BY CreatesOnce
  <2>1. ASSUME NEW w \in Worker, NEW r \in Run, Accepts(w, r) PROVE EventsTellStatus'
    <3>1. CASE status' = status
      BY <2>1, <3>1 DEF Accepts, EventsTellStatus
    <3>2. CASE status[r] = "none" /\ status' = [status EXCEPT ![r] = "created"]
      <4>1. runEvents' = runEvents /\ runEvents[r] = <<>>
        BY <2>1, <3>2 DEF Accepts, Unborn
      <4>2. status'[r] = "created" /\ \A q \in Run : q # r => status'[q] = status[q]
        BY <3>2 DEF RunTypeOK
      <4> QED BY <4>1, <4>2 DEF EventsTellStatus
    <3> QED BY <2>1, <3>1, <3>2 DEF Accepts
  <2>2. ASSUME NEW r \in Run, NEW s \in Tellable, Tells(r, s)
        PROVE  EventsTellStatus'
    <3>1. runEvents[r] \in Seq(Status) /\ runEvents' = [runEvents EXCEPT ![r] = Append(@, s)]
          /\ Sets(r, s) /\ s \in Status
      BY <2>2 DEF Tells, LogRunEvent, RunTypeOK, Tellable, Status
    <3>2. PICK more : more = Append(runEvents[r], s)
      OBVIOUS
    <3>3. PICK n \in Nat : n = Len(runEvents[r])
      BY <3>1
    <3>4. /\ more \in Seq(Status) /\ Len(more) = n + 1 /\ more[n + 1] = s
          /\ DOMAIN more = 1 .. n + 1 /\ DOMAIN runEvents[r] = 1 .. n
          /\ \A i \in 1 .. n : more[i] = runEvents[r][i]
      BY <3>1, <3>2, <3>3
    <3>5. runEvents'[r] = more
          /\ \A q \in Run : q # r => runEvents'[q] = runEvents[q] /\ status'[q] = status[q]
      BY <3>1, <3>2 DEF RunTypeOK, Sets
    <3>6. CASE s = "created"
      <4>1. status' = status /\ \A i \in 1 .. n : runEvents[r][i] # "created"
        <5>1. PICK w \in Worker : work[w].op = "create" /\ work[w].run = r
          BY <2>2, <3>6 DEF Tells
        <5> QED BY <3>1, <3>4, <3>6, <5>1 DEF Sets, Creation
      <4>2. PICK i \in 0 .. n :
              /\ \A j \in 1 .. n : j > i => runEvents[r][j] = "created"
              /\ IF i = 0 THEN status[r] \in {"none", "created"}
                          ELSE runEvents[r][i] = status[r] /\ runEvents[r][i] # "created"
        BY <3>3, <3>4 DEF EventsTellStatus
      <4>3. i \in 0 .. Len(more)
            /\ (\A j \in DOMAIN more : j > i => more[j] = "created")
            /\ IF i = 0 THEN status'[r] \in {"none", "created"}
                        ELSE more[i] = status'[r] /\ more[i] # "created"
        BY <3>4, <3>6, <4>1, <4>2
      <4>4. \A k, j \in DOMAIN more : more[k] = "created" /\ more[j] = "created" => k = j
        BY <3>4, <4>1
      <4> QED BY <3>5, <4>3, <4>4 DEF EventsTellStatus
    <3>7. CASE s # "created"
      <4>1. status'[r] = s
        BY <3>1, <3>7 DEF Sets, RunTypeOK
      <4>2. n + 1 \in 0 .. Len(more) /\ (\A j \in DOMAIN more : ~(j > n + 1))
            /\ n + 1 # 0 /\ more[n + 1] = status'[r] /\ more[n + 1] # "created"
        BY <3>4, <3>7, <4>1
      <4>3. \A k, j \in DOMAIN runEvents[r] :
              runEvents[r][k] = "created" /\ runEvents[r][j] = "created" => k = j
        BY DEF EventsTellStatus
      <4>4. \A k, j \in DOMAIN more : more[k] = "created" /\ more[j] = "created" => k = j
        BY <3>4, <3>7, <4>3
      <4> QED BY <3>5, <4>2, <4>4 DEF EventsTellStatus
    <3> QED BY <3>6, <3>7
  <2>3. CASE UNCHANGED <<status, runEvents>>
    BY <2>3 DEF EventsTellStatus
  <2> QED BY <2>1, <2>2, <2>3, StepKinds DEF Works, Quietly, Asides
<1> QED BY <1>1, <1>2, RunsTyped, PTL DEF RunsSpec

-----------------------------------------------------------------------------
\* What a compilation is about to insert is of no key the run has.
Fresh(w) ==
  /\ work[w].op = "compile" /\ work[w].at \in {"lessons", "keeping"} /\ work[w].run \notin mixed
  => work[w].keys \cap KeysOf(work[w].run) = {}

Lessons ==
  /\ \A v, w \in Worker :
       /\ work[v].op = "compile" /\ work[w].op = "compile"
       /\ work[v].run = work[w].run /\ work[v].run \notin mixed
       => v = w
  /\ \A w \in Worker : Fresh(w)
  /\ OneLessonPerKey

\* What was kept may be fewer keys.
Narrows(w) ==
  \/ work'[w] = Free
  \/ /\ work'[w].op = work[w].op /\ work'[w].run = work[w].run
     /\ work'[w].op = "compile" /\ work'[w].at \in {"lessons", "keeping"} =>
          work[w].at \in {"lessons", "keeping"} /\ work'[w].keys \subseteq work[w].keys

(* The keys of a run, by the nodes that have them. *)
LEMMA KeysAre ==
  ASSUME NEW r \in Run, NEW key
  PROVE  key \in KeysOf(r) <=>
           \E i \in DOMAIN found : found[i].kind = "reasoning" /\ found[i].run = r /\ found[i].key = key
BY DEF KeysOf, ToSet

(* ... and after a step. *)
LEMMA KeysAreNext ==
  \A r \in Run : \A key :
    key \in KeysOf(r)' <=>
      \E i \in DOMAIN found' : found'[i].kind = "reasoning" /\ found'[i].run = r /\ found'[i].key = key
BY DEF KeysOf, ToSet

(* A step that makes no reasoning memory. *)
NoLessonMade == Keeps /\ \A i \in DOMAIN found' : found'[i].kind = "reasoning" => i \in DOMAIN found

(* It gives no run another key. *)
LEMMA NoLessonKeeps ==
  ASSUME RunTypeOK, NoLessonMade
  PROVE  /\ \A r \in Run : KeysOf(r)' \subseteq KeysOf(r)
         /\ OneLessonPerKey /\ mixed \subseteq mixed' => OneLessonPerKey'
<1>1. ASSUME NEW r \in Run, NEW key, key \in KeysOf(r)' PROVE key \in KeysOf(r)
  BY <1>1, KeysAre, KeysAreNext DEF NoLessonMade, Keeps
<1>2. OneLessonPerKey /\ mixed \subseteq mixed' => OneLessonPerKey'
  BY DEF OneLessonPerKey, NoLessonMade, Keeps
<1> QED BY <1>1, <1>2

(* Nor does a step that hands nobody a key break what is known of keys. *)
LEMMA NarrowKeeps ==
  ASSUME RunTypeOK, Lessons, NoLessonMade, mixed' = mixed,
         \A w \in Worker : Narrows(w)
  PROVE  Lessons'
<1>1. OneLessonPerKey'
  BY NoLessonKeeps DEF Lessons
<1>2. ASSUME NEW v \in Worker, NEW w \in Worker,
             work'[v].op = "compile", work'[w].op = "compile",
             work'[v].run = work'[w].run, work'[v].run \notin mixed
      PROVE  v = w
  BY <1>2 DEF Lessons, Narrows, Free
<1>3. ASSUME NEW w \in Worker, work'[w].op = "compile", work'[w].at \in {"lessons", "keeping"},
             work'[w].run \notin mixed
      PROVE  work'[w].keys \cap KeysOf(work[w].run)' = {}
  <2>1. /\ work[w].op = "compile" /\ work'[w].run = work[w].run
        /\ work[w].at \in {"lessons", "keeping"} /\ work'[w].keys \subseteq work[w].keys
    BY <1>3 DEF Narrows, Free
  <2>2. work[w].keys \cap KeysOf(work[w].run) = {}
    BY <1>3, <2>1 DEF Lessons, Fresh
  <2>3. work[w].run \in Run
    BY <2>1 DEF RunTypeOK, Free, InWork
  <2>4. PICK r \in Run : r = work[w].run
    BY <2>3
  <2>5. KeysOf(r)' \subseteq KeysOf(r)
    BY NoLessonKeeps
  <2>6. KeysOf(r)' = KeysOf(work[w].run)'
    BY <2>1, <2>4 DEF KeysOf
  <2> QED BY <2>1, <2>2, <2>4, <2>5, <2>6
<1>4. \A w \in Worker : Fresh(w)'
  BY <1>3 DEF Fresh, KeysOf
<1> QED BY <1>1, <1>2, <1>4 DEF Lessons

(* A request is accepted: another compilation of the run makes it mixed.   *)
LEMMA AcceptedKeeps ==
  ASSUME RunTypeOK, Lessons, NEW w \in Worker, NEW r \in Run, Accepts(w, r)
  PROVE  Lessons'
<1>1. PICK q \in InWork :
        /\ work' = [work EXCEPT ![w] = q] /\ q.run = r
        /\ q.op = "compile" => mixed' = (IF Compiling(r) = {} THEN mixed ELSE mixed \cup {r})
        /\ q.op # "compile" => mixed' = mixed
        /\ q.op = "compile" => q.at = "reading"
  BY DEF Accepts, Takes
<1>2. found' = found /\ mixed \subseteq mixed' /\ work'[w] = q
      /\ \A u \in Worker : u # w => work'[u] = work[u]
  BY <1>1 DEF Accepts, RunTypeOK
<1>3. OneLessonPerKey'
  BY <1>2 DEF Lessons, OneLessonPerKey
<1>4. ASSUME NEW u \in Worker, NEW v \in Worker,
             work'[u].op = "compile", work'[v].op = "compile",
             work'[u].run = work'[v].run, work'[u].run \notin mixed'
      PROVE  u = v
  <2>1. CASE u # w /\ v # w
    BY <1>2, <1>4, <2>1 DEF Lessons
  <2>2. ASSUME NEW x \in Worker, x # w, work'[x].op = "compile", work'[x].run = r, q.op = "compile"
        PROVE  r \in mixed'
    BY <1>1, <1>2, <2>2 DEF Compiling
  <2> QED BY <1>1, <1>2, <1>4, <2>1, <2>2
<1>5. \A u \in Worker : Fresh(u)'
  BY <1>1, <1>2 DEF Lessons, Fresh, KeysOf
<1> QED BY <1>3, <1>4, <1>5 DEF Lessons

(* A reasoning memory is inserted, of a key the run has none of.           *)
LEMMA InsertKeeps ==
  ASSUME RunTypeOK, Lessons, NEW w \in Worker, InsertLesson(w)
  PROVE  Lessons'
<1>1. work[w] \in InWork /\ work[w].op = "compile" /\ work[w].at = "keeping"
  BY DEF RunTypeOK, InsertLesson, Busy, Free
<1>2. PICK r \in Run : r = work[w].run
  BY <1>1 DEF InWork
<1>3. PICK key \in work[w].keys :
        found' = Append(found, Made(r, "reasoning", key)) /\ work' = [work EXCEPT ![w].keys = @ \ {key}]
  BY <1>2 DEF InsertLesson
<1>4. found \in Seq(NodeMade) /\ Made(r, "reasoning", key) \in NodeMade
  BY <1>1 DEF RunTypeOK, Made, NodeMade, InWork
<1>5. /\ DOMAIN found' = DOMAIN found \cup {Len(found) + 1}
      /\ \A i \in DOMAIN found : found'[i] = found[i]
      /\ found'[Len(found) + 1] = Made(r, "reasoning", key)
  BY <1>3, <1>4
<1>6. /\ work'[w].op = "compile" /\ work'[w].run = r /\ work'[w].keys = work[w].keys \ {key}
      /\ \A u \in Worker : u # w => work'[u] = work[u]
      /\ mixed' = mixed
  <2>1. PICK q : q = [work[w] EXCEPT !.keys = @ \ {key}] OBVIOUS
  <2>2. q.op = "compile" /\ q.run = r /\ q.keys = work[w].keys \ {key}
    BY <1>1, <1>2, <2>1 DEF InWork
  <2>3. work' = [work EXCEPT ![w] = q]
    BY <1>1, <1>3, <2>1 DEF RunTypeOK
  <2> QED BY <2>2, <2>3 DEF RunTypeOK, InsertLesson
<1>7. ASSUME NEW u \in Worker, NEW v \in Worker,
             work'[u].op = "compile", work'[v].op = "compile",
             work'[u].run = work'[v].run, work'[u].run \notin mixed
      PROVE  u = v
  BY <1>1, <1>2, <1>6, <1>7 DEF Lessons
<1>8. KeysOf(r)' \subseteq KeysOf(r) \cup {key} /\ \A s \in Run : s # r => KeysOf(s)' \subseteq KeysOf(s)
  <2>1. \A i \in DOMAIN found' :
          (i \in DOMAIN found /\ found'[i] = found[i]) \/ found'[i] = Made(r, "reasoning", key)
    BY <1>5
  <2>2. ASSUME NEW s \in Run, NEW k, k \in KeysOf(s)'
        PROVE  k \in KeysOf(s) \/ (s = r /\ k = key)
    <3>1. PICK i \in DOMAIN found' : found'[i].kind = "reasoning" /\ found'[i].run = s /\ found'[i].key = k
      BY <2>2, KeysAreNext
    <3> QED BY <2>1, <3>1, KeysAre DEF Made
  <2> QED BY <2>2
<1>9. r \notin mixed => key \notin KeysOf(r)
  BY <1>1, <1>2 DEF Lessons, Fresh
<1>10. ASSUME NEW u \in Worker PROVE Fresh(u)'
  <2> SUFFICES ASSUME work'[u].op = "compile", work'[u].at \in {"lessons", "keeping"}, work'[u].run \notin mixed
               PROVE  work'[u].keys \cap KeysOf(work[u].run)' = {}
    BY <1>6 DEF Fresh, KeysOf
  <2>1. CASE u = w
    <3>1. work[w].keys \cap KeysOf(r) = {}
      BY <1>1, <1>2, <1>6, <2>1 DEF Lessons, Fresh
    <3>2. KeysOf(work[u].run)' = KeysOf(r)'
      BY <1>6, <2>1 DEF KeysOf
    <3> QED BY <1>6, <1>8, <2>1, <3>1, <3>2
  <2>2. CASE u # w
    <3>1. work'[u] = work[u] /\ work[u].run # r
      BY <1>1, <1>2, <1>6, <2>2 DEF Lessons
    <3>2. work[u].keys \cap KeysOf(work[u].run) = {}
      BY <2>2, <3>1 DEF Lessons, Fresh
    <3>3. work[u].run \in Run
      BY <3>1 DEF RunTypeOK, Free, InWork
    <3>4. PICK s \in Run : s = work[u].run
      BY <3>3
    <3>5. KeysOf(work[u].run)' = KeysOf(s)'
      BY <3>1, <3>4 DEF KeysOf
    <3> QED BY <1>8, <3>1, <3>2, <3>4, <3>5
  <2> QED BY <2>1, <2>2
<1>11. OneLessonPerKey'
  <2> SUFFICES ASSUME NEW m \in DOMAIN found', NEW n \in DOMAIN found',
                      found'[m].kind = "reasoning", found'[n].kind = "reasoning",
                      found'[n].run = found'[m].run, found'[n].key = found'[m].key,
                      found'[m].run \notin mixed, m # n
               PROVE  FALSE
    BY <1>6 DEF OneLessonPerKey
  <2>1. CASE m \in DOMAIN found /\ n \in DOMAIN found
    BY <1>5, <2>1 DEF Lessons, OneLessonPerKey
  <2>2. PICK i \in DOMAIN found :
          found[i].kind = "reasoning" /\ found[i].run = r /\ found[i].key = key /\ r \notin mixed
    BY <1>5, <2>1 DEF Made
  <2> QED BY <1>9, <2>2, KeysAre
<1> QED BY <1>6, <1>7, <1>10, <1>11 DEF Lessons

(* Compiling a run again makes no lesson twice (compileRun,                *)
(* dedupeReasoningMemories).                                               *)
THEOREM OneLesson == RunsSpec => []OneLessonPerKey
<1>1. RunInit => Lessons
  BY DEF RunInit, Lessons, Fresh, OneLessonPerKey, Free
<1>2. RunTypeOK /\ Lessons /\ [RunNext]_runVars => Lessons'
  <2> SUFFICES ASSUME RunTypeOK, Lessons, [RunNext]_runVars PROVE Lessons'
    OBVIOUS
  <2>1. ASSUME NEW w \in Worker, Works(w) PROVE Lessons'
    <3>1. mixed' = mixed /\ Keeps
      BY <2>1 DEF Works, Quietly, Tabled
    <3>2. CASE Finish(w) /\ UNCHANGED found
      <4>1. \A u \in Worker : Narrows(u)
        BY <3>2 DEF Finish, Narrows, RunTypeOK
      <4> QED BY <3>1, <3>2, <4>1, NarrowKeeps DEF NoLessonMade
    <3>3. CASE Reason(w) /\ UNCHANGED found
      <4>1. PICK q \in InWork :
              /\ work' = [work EXCEPT ![w] = q] /\ q.op = "compile" /\ q.run = work[w].run
              /\ q.keys \cap KeysOf(work[w].run) = {}
        BY <3>3, ReasonTakes DEF Takes
      <4>2. work[w].op = "compile" /\ work'[w] = q /\ \A u \in Worker : u # w => work'[u] = work[u]
        BY <3>3, <4>1 DEF Reason, Busy, RunTypeOK
      <4>3. \A u, v \in Worker :
              /\ work'[u].op = "compile" /\ work'[v].op = "compile"
              /\ work'[u].run = work'[v].run /\ work'[u].run \notin mixed
              => u = v
        BY <4>1, <4>2 DEF Lessons
      <4>4. \A u \in Worker : Fresh(u)'
        BY <3>1, <3>3, <4>1, <4>2 DEF Lessons, Fresh, KeysOf
      <4>5. OneLessonPerKey'
        BY <3>1, <3>3 DEF Lessons, OneLessonPerKey
      <4> QED BY <3>1, <4>3, <4>4, <4>5 DEF Lessons
    <3>4. CASE InsertLesson(w)
      BY <3>4, InsertKeeps
    <3>5. CASE GoesOn(w) /\ (UNCHANGED found \/ InsertCandidate(w) \/ Promote(w))
      <4>1. \A u \in Worker : Narrows(u)
        <5>1. PICK q \in InWork :
                /\ work' = [work EXCEPT ![w] = q] /\ q.op = work[w].op /\ q.run = work[w].run
                /\ q.op = "compile" /\ q.at \in {"lessons", "keeping"} =>
                     work[w].at \in {"lessons", "keeping"} /\ q.keys \subseteq work[w].keys
          BY <3>5 DEF GoesOn, Takes
        <5>2. work'[w] = q /\ \A u \in Worker : u # w => work'[u] = work[u]
          BY <5>1 DEF RunTypeOK
        <5> QED BY <5>1, <5>2 DEF Narrows
      <4>2. NoLessonMade
        <5>1. CASE UNCHANGED found
          BY <3>1, <5>1 DEF NoLessonMade
        <5>2. CASE InsertCandidate(w)
          <6>1. PICK line : found' = Append(found, Made(work[w].run, "candidate", line))
            BY <5>2 DEF InsertCandidate
          <6>2. found \in Seq(NodeMade) /\ Made(work[w].run, "candidate", line).kind = "candidate"
            BY DEF RunTypeOK, Made
          <6> QED BY <3>1, <6>1, <6>2 DEF NoLessonMade
        <5>3. CASE Promote(w)
          <6>1. DOMAIN found' = DOMAIN found
            BY <5>3 DEF Promote, RunTypeOK
          <6> QED BY <3>1, <6>1 DEF NoLessonMade
        <5> QED BY <3>5, <5>1, <5>2, <5>3
      <4> QED BY <3>1, <4>1, <4>2, NarrowKeeps
    <3> QED BY <2>1, <3>2, <3>3, <3>4, <3>5 DEF Works
  <2>2. CASE /\ UNCHANGED <<found, mixed>>
             /\ \/ work' = work \/ \E w \in Worker : Finish(w)
                \/ \E ws \in SUBSET Worker : work' = [w \in Worker |-> IF w \in ws THEN Free ELSE work[w]]
    <3>1. \A u \in Worker : Narrows(u)
      BY <2>2 DEF Finish, Narrows, RunTypeOK
    <3>2. NoLessonMade
      BY <2>2 DEF NoLessonMade, Keeps, RunTypeOK
    <3> QED BY <2>2, <3>1, <3>2, NarrowKeeps
  <2> QED BY <2>1, <2>2, AcceptedKeeps, StepKinds DEF Tells, Asides
<1>3. Lessons => OneLessonPerKey
  BY DEF Lessons
<1> QED BY <1>1, <1>2, <1>3, RunsTyped, PTL DEF RunsSpec

-----------------------------------------------------------------------------
\* An append about to write has the lines it read.
Appending == \A w \in Worker : Busy(w, "append", "writing") => work[w].base \subseteq work[w].lines

(* An append keeps the lines the artifact has, unless somebody wrote it    *)
(* after the append has read it (appendRunArtifact).                       *)
THEOREM AppendKeeps == RunsSpec => AppendKeepsLines
<1>1. RunInit => Appending
  BY DEF RunInit, Appending, Busy, Free
<1>2. RunTypeOK /\ Appending /\ [RunNext]_runVars => Appending'
  <2> SUFFICES ASSUME RunTypeOK, Appending, [RunNext]_runVars PROVE Appending'
    OBVIOUS
  <2>1. ASSUME NEW w \in Worker, NEW q \in InWork, Takes(w, q),
               q.op = "append" /\ q.at = "writing" => q.base \subseteq q.lines
        PROVE  Appending'
    BY <2>1 DEF Appending, Busy, Takes, RunTypeOK
  <2>2. ASSUME NEW w \in Worker, NEW r \in Run, Accepts(w, r) PROVE Appending'
    BY <2>1, <2>2 DEF Accepts
  <2>3. ASSUME NEW w \in Worker, GoesOn(w) PROVE Appending'
    BY <2>1, <2>3 DEF GoesOn
  <2>4. ASSUME NEW w \in Worker, Reason(w) PROVE Appending'
    BY <2>1, <2>4, ReasonTakes
  <2>5. CASE \/ work' = work \/ \E w \in Worker : Finish(w)
             \/ \E ws \in SUBSET Worker : work' = [w \in Worker |-> IF w \in ws THEN Free ELSE work[w]]
    <3>1. \A u \in Worker : work'[u] = work[u] \/ work'[u].op = "free"
      BY <2>5 DEF Finish, Free, RunTypeOK
    <3> QED BY <3>1 DEF Appending, Busy
  <2> QED BY <2>2, <2>3, <2>4, <2>5, StepKinds DEF Works, Tells, Asides
<1>3. RunTypeOK /\ Appending /\ [RunNext]_runVars =>
        [\A w \in Worker :
           LET old == folder[work[w].run]["actions.md"] IN
           Busy(w, "append", "writing") /\ work'[w] = Free /\ breaks' = breaks /\ old = work[w].base
             => old \subseteq folder'[work[w].run]["actions.md"]]_runVars
  <2> SUFFICES ASSUME RunTypeOK, Appending, RunNext, NEW w \in Worker,
                      Busy(w, "append", "writing"), work'[w] = Free, breaks' = breaks,
                      folder[work[w].run]["actions.md"] = work[w].base
               PROVE  folder[work[w].run]["actions.md"] \subseteq folder'[work[w].run]["actions.md"]
    OBVIOUS
  <2>1. work[w] # Free /\ work[w].op = "append"
    BY DEF Busy, Free
  <2>2. ASSUME NEW v \in Worker, NEW q \in InWork, Takes(v, q) PROVE FALSE
    <3>1. q # Free
      BY DEF InWork, Free
    <3> QED BY <2>1, <2>2, <3>1 DEF Takes, RunTypeOK
  <2>3. ASSUME NEW v \in Worker, Finish(v) PROVE v = w
    BY <2>1, <2>3 DEF Finish, RunTypeOK
  <2>4. ASSUME NEW v \in Worker, NEW r \in Run, Accepts(v, r) PROVE FALSE
    BY <2>2, <2>4 DEF Accepts
  <2>5. ~ Asides /\ \A r \in Run, s \in Tellable : ~ Tells(r, s)
    BY <2>1, <2>3 DEF Asides, Tells
  <2>6. PICK v \in Worker : Works(v)
    BY <2>4, <2>5, StepKinds
  <2>7. WriteArtifact(work[w].run, "actions.md", work[w].lines)
    BY <2>2, <2>3, <2>6, ReasonTakes DEF Works, GoesOn
  <2>8. work[w].run \in Run
    BY <2>1 DEF RunTypeOK, InWork
  <2>9. folder'[work[w].run]["actions.md"] = work[w].lines
    BY <2>7, <2>8, Names DEF WriteArtifact, RunTypeOK
  <2> QED BY <2>9 DEF Appending
<1> QED BY <1>1, <1>2, <1>3, RunsTyped, PTL DEF RunsSpec, AppendKeepsLines
=============================================================================
