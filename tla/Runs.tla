-------------------------------- MODULE Runs --------------------------------
(***************************************************************************)
(* Agent runs (class VeriFS, packages/core/src/index.ts): the row of       *)
(* agent_runs, its events, the artifacts in the run's folder, what         *)
(* compileRun makes of them, and handoffs.  Nothing checks the status a    *)
(* run has: each call sets its own.  Artifacts are files, written with an  *)
(* await; an append reads the file, and writes it back after that.         *)
(*                                                                         *)
(* A text is the set of its lines, and a missing file reads as no lines.   *)
(* The review of a candidate and its promotion are those of module         *)
(* MemoryReview; here only that one is made.                               *)
(***************************************************************************)
EXTENDS Naturals, Sequences, SequencesExt

CONSTANTS
  Run,           \* run ids, one for each createRun
  Line,          \* lines of artifacts; a line is also the memory found in it
  Durable,       \* lines whose memory is of a durable type
  Lesson,        \* keys of reasoning memories
  Worker,        \* requests that may be in flight together
  MaxJobs,       \* bound on requests
  MaxBreaks      \* bound on failed calls and restarts

ASSUME RunsAssumption ==
  /\ Durable \subseteq Line
  /\ MaxJobs \in Nat /\ MaxBreaks \in Nat

(* The artifacts the handlers tell apart, in the order createRun writes    *)
(* them; prompt, brief, plan, files-read and memory-used are like actions. *)
ArtifactNames == <<"actions.md", "result.md", "candidates.md", "reasoning-memories.json">>
Artifact == ToSet(ArtifactNames) \cup {"handoff.md"}
\* What compileRun looks for memories in; errors and followups are like result.
Compiled == <<"actions.md", "result.md">>

VARIABLES
  status,     \* agent_runs.status
  folder,     \* run -> artifact -> its lines
  runEvents,  \* run -> the statuses its lifecycle events tell, oldest first
  found,      \* memory nodes compileRun made: run, kind, key, promoted
  used,       \* run_memory_usages: pairs of a run and a node
  handoffs,   \* rows of handoff_summaries, by run
  work,       \* worker -> the request it runs
  jobs, breaks,
  mixed       \* history: runs compiled by two requests at once

runVars == <<status, folder, runEvents, found, used, handoffs, work, jobs, breaks, mixed>>

Status == {"none", "created", "running", "completed", "failed", "compiled"}
NodeMade == [run : Run, kind : {"candidate", "reasoning"}, key : Line \cup Lesson, promoted : BOOLEAN]
Free == [op |-> "free"]
InWork ==
  [op : {"create", "complete", "append", "handoff", "compile"}, run : Run,
   at : {"writing", "reading", "inserting", "promoting", "lessons", "keeping"},
   todo : Seq(Artifact),          \* artifacts to read or to write
   lines : SUBSET Line,           \* what it read, found or was given
   base : SUBSET Line,            \* history: what an append has read
   keys : SUBSET Lesson,          \* reasoning memories to insert
   node : Nat,                    \* the candidate to promote
   failed : BOOLEAN, promote : BOOLEAN, reasoning : BOOLEAN]

RunTypeOK ==
  /\ status \in [Run -> Status]
  /\ folder \in [Run -> [Artifact -> SUBSET Line]]
  /\ runEvents \in [Run -> Seq(Status)]
  /\ found \in Seq(NodeMade)
  /\ used \subseteq Run \X (Nat \ {0})
  /\ handoffs \in [Run -> Nat]
  /\ work \in [Worker -> {Free} \cup InWork]
  /\ jobs \in 0 .. MaxJobs /\ breaks \in 0 .. MaxBreaks
  /\ mixed \subseteq Run

RunInit ==
  /\ status = [r \in Run |-> "none"]
  /\ folder = [r \in Run |-> [a \in Artifact |-> {}]]
  /\ runEvents = [r \in Run |-> <<>>]
  /\ found = <<>> /\ used = {}
  /\ handoffs = [r \in Run |-> 0]
  /\ work = [w \in Worker |-> Free]
  /\ jobs = 0 /\ breaks = 0 /\ mixed = {}

---------------------------------------------------------------------------
Known(r) == status[r] # "none"

Busy(w, op, at) == work[w].op = op /\ work[w].at = at

Asked(w, r, op, at, todo, lines) ==
  [op |-> op, run |-> r, at |-> at, todo |-> todo, lines |-> lines, base |-> {},
   keys |-> {}, node |-> 0, failed |-> FALSE, promote |-> FALSE, reasoning |-> FALSE]

Accept(w, request) ==
  /\ jobs < MaxJobs /\ work[w] = Free
  /\ jobs' = jobs + 1
  /\ work' = [work EXCEPT ![w] = request]

Go(w, at) == work' = [work EXCEPT ![w].at = at]
Finish(w) == work' = [work EXCEPT ![w] = Free]

WriteArtifact(r, a, lines) == folder' = [folder EXCEPT ![r][a] = lines]

LogRunEvent(r, what) == runEvents' = [runEvents EXCEPT ![r] = Append(@, what)]

\* createRun inserts the row and then writes the folder.
CreateRun(w, r) ==
  /\ status[r] = "none"
  /\ Accept(w, Asked(w, r, "create", "writing", ArtifactNames, {}))
  /\ status' = [status EXCEPT ![r] = "created"]
  /\ UNCHANGED <<folder, runEvents, found, used, handoffs, breaks, mixed>>

StartRun(r) ==
  /\ jobs < MaxJobs /\ Known(r)
  /\ jobs' = jobs + 1
  /\ status' = [status EXCEPT ![r] = "running"]
  /\ LogRunEvent(r, "running")
  /\ UNCHANGED <<folder, found, used, handoffs, work, breaks, mixed>>

CompletesAtOnce(w, r, todo, lines, failed) ==
  /\ Known(r)
  /\ Accept(w, [Asked(w, r, "complete", "writing", todo, lines) EXCEPT !.failed = failed])
  /\ status' = [status EXCEPT ![r] = IF failed THEN "failed" ELSE "completed"]
  /\ UNCHANGED <<folder, runEvents, found, used, handoffs, breaks, mixed>>

\* completeRun writes the artifacts it was given a text for.
CompleteRun(w, r, todo, lines, failed) ==
  /\ Known(r)
  /\ Accept(w, [Asked(w, r, "complete", "writing", todo, lines) EXCEPT !.failed = failed])
  /\ UNCHANGED <<status, folder, runEvents, found, used, handoffs, breaks, mixed>>

Outcome(w) == IF work[w].failed THEN "failed" ELSE "completed"

\* The next artifact of createRun or completeRun is written.
WriteNext(w) ==
  /\ Busy(w, "create", "writing") \/ Busy(w, "complete", "writing")
  /\ work[w].todo # <<>>
  /\ WriteArtifact(work[w].run, Head(work[w].todo), work[w].lines)
  /\ work' = [work EXCEPT ![w].todo = Tail(@)]
  /\ UNCHANGED <<status, runEvents, found, used, handoffs, jobs, breaks, mixed>>

\* The event of createRun comes after its awaits; the row stays as it is.
EndCreate(w) ==
  /\ Busy(w, "create", "writing") /\ work[w].todo = <<>>
  /\ LogRunEvent(work[w].run, "created")
  /\ Finish(w)
  /\ UNCHANGED <<status, folder, found, used, handoffs, jobs, breaks, mixed>>

EndComplete(w) ==
  /\ Busy(w, "complete", "writing") /\ work[w].todo = <<>>
  /\ status' = [status EXCEPT ![work[w].run] = Outcome(w)]
  /\ LogRunEvent(work[w].run, Outcome(w))
  /\ Finish(w)
  /\ UNCHANGED <<folder, found, used, handoffs, jobs, breaks, mixed>>

---------------------------------------------------------------------------
(* appendRunArtifact, called by the handlers that are given a run_id.      *)

AppendRunArtifact(w, r, line) ==
  /\ Known(r)
  /\ Accept(w, Asked(w, r, "append", "reading", <<>>, {line}))
  /\ UNCHANGED <<status, folder, runEvents, found, used, handoffs, breaks, mixed>>

ForgetsExisting(w) ==
  /\ Busy(w, "append", "reading")
  /\ work' = [work EXCEPT ![w].at = "writing", ![w].base = folder[work[w].run]["actions.md"]]
  /\ UNCHANGED <<status, folder, runEvents, found, used, handoffs, jobs, breaks, mixed>>

ReadExisting(w) ==
  /\ Busy(w, "append", "reading")
  /\ LET old == folder[work[w].run]["actions.md"] IN
       work' = [work EXCEPT ![w].at = "writing", ![w].lines = @ \cup old, ![w].base = old]
  /\ UNCHANGED <<status, folder, runEvents, found, used, handoffs, jobs, breaks, mixed>>

WriteAppended(w) ==
  /\ Busy(w, "append", "writing")
  /\ WriteArtifact(work[w].run, "actions.md", work[w].lines)
  /\ Finish(w)
  /\ UNCHANGED <<status, runEvents, found, used, handoffs, jobs, breaks, mixed>>

---------------------------------------------------------------------------
(* createHandoff recalls, writes handoff.md and inserts a summary.         *)

CreateHandoff(w, r, line) ==
  /\ Known(r)
  /\ Accept(w, Asked(w, r, "handoff", "reading", <<>>, {line}))
  /\ UNCHANGED <<status, folder, runEvents, found, used, handoffs, breaks, mixed>>

WriteHandoff(w) ==
  /\ Busy(w, "handoff", "reading")
  /\ WriteArtifact(work[w].run, "handoff.md", work[w].lines)
  /\ Go(w, "keeping")
  /\ UNCHANGED <<status, runEvents, found, used, handoffs, jobs, breaks, mixed>>

KeepHandoff(w) ==
  /\ Busy(w, "handoff", "keeping")
  /\ handoffs' = [handoffs EXCEPT ![work[w].run] = @ + 1]
  /\ Finish(w)
  /\ UNCHANGED <<status, folder, runEvents, found, used, jobs, breaks, mixed>>

---------------------------------------------------------------------------
(* compileRun.                                                             *)

Compiling(r) == {w \in Worker : work[w].op = "compile" /\ work[w].run = r}

CompileRun(w, r, promote, reasoning) ==
  /\ Known(r)
  /\ Accept(w, [Asked(w, r, "compile", "reading", Compiled, {}) EXCEPT
                  !.promote = promote, !.reasoning = reasoning])
  /\ mixed' = IF Compiling(r) = {} THEN mixed ELSE mixed \cup {r}
  /\ UNCHANGED <<status, folder, runEvents, found, used, handoffs, breaks>>

\* readRunArtifacts awaits one file after the other.
ReadNext(w) ==
  /\ Busy(w, "compile", "reading") /\ work[w].todo # <<>>
  /\ work' = [work EXCEPT ![w].todo = Tail(@), ![w].lines = @ \cup folder[work[w].run][Head(work[w].todo)]]
  /\ UNCHANGED <<status, folder, runEvents, found, used, handoffs, jobs, breaks, mixed>>

\* The memories found in them are listed in candidates.md.
WriteCandidates(w) ==
  /\ Busy(w, "compile", "reading") /\ work[w].todo = <<>>
  /\ WriteArtifact(work[w].run, "candidates.md", work[w].lines)
  /\ Go(w, "inserting")
  /\ UNCHANGED <<status, runEvents, found, used, handoffs, jobs, breaks, mixed>>

\* A candidate node is inserted for each; a durable one is then promoted.
Made(r, kind, key) == [run |-> r, kind |-> kind, key |-> key, promoted |-> FALSE]

InsertCandidate(w) ==
  /\ Busy(w, "compile", "inserting")
  /\ \E line \in work[w].lines :
       /\ found' = Append(found, Made(work[w].run, "candidate", line))
       /\ work' = [work EXCEPT ![w].lines = @ \ {line}, ![w].node = Len(found) + 1,
                     ![w].at = IF work[w].promote /\ line \in Durable THEN "promoting" ELSE @]
  /\ UNCHANGED <<status, folder, runEvents, used, handoffs, jobs, breaks, mixed>>

Promote(w) ==
  /\ Busy(w, "compile", "promoting")
  /\ found' = [found EXCEPT ![work[w].node].promoted = TRUE]
  /\ Go(w, "inserting")
  /\ UNCHANGED <<status, folder, runEvents, used, handoffs, jobs, breaks, mixed>>

\* With the candidates inserted, reasoning memories are extracted from what
\* the run left, and those found before are dropped: dedupeReasoningMemories
\* drops every key the run has, and may drop others by similarity.
KeysOf(r) == {n.key : n \in {m \in ToSet(found) : m.kind = "reasoning" /\ m.run = r}}

ForgetsEarlier(r, extracted) == SUBSET extracted

DedupeReasoningMemories(r, extracted) == SUBSET (extracted \ KeysOf(r))

Reason(w) ==
  /\ Busy(w, "compile", "inserting") /\ work[w].lines = {} /\ work[w].reasoning
  /\ \E extracted \in SUBSET Lesson :
       \E kept \in DedupeReasoningMemories(work[w].run, extracted) :
         work' = [work EXCEPT ![w].at = "lessons", ![w].keys = kept]
  /\ UNCHANGED <<status, folder, runEvents, found, used, handoffs, jobs, breaks, mixed>>

\* reasoning-memories.json lists what was kept; a node is made for each.
WriteLessons(w) ==
  /\ Busy(w, "compile", "lessons")
  /\ WriteArtifact(work[w].run, "reasoning-memories.json", {})
  /\ Go(w, "keeping")
  /\ UNCHANGED <<status, runEvents, found, used, handoffs, jobs, breaks, mixed>>

InsertLesson(w) ==
  /\ Busy(w, "compile", "keeping")
  /\ \E key \in work[w].keys :
       /\ found' = Append(found, Made(work[w].run, "reasoning", key))
       /\ work' = [work EXCEPT ![w].keys = @ \ {key}]
  /\ UNCHANGED <<status, folder, runEvents, used, handoffs, jobs, breaks, mixed>>

EndCompile(w) ==
  /\ \/ Busy(w, "compile", "inserting") /\ work[w].lines = {} /\ ~work[w].reasoning
     \/ Busy(w, "compile", "keeping") /\ work[w].keys = {}
  /\ status' = [status EXCEPT ![work[w].run] = "compiled"]
  /\ LogRunEvent(work[w].run, "compiled")
  /\ Finish(w)
  /\ UNCHANGED <<folder, found, used, handoffs, jobs, breaks, mixed>>

LogMemoryUsage(r, n) ==
  /\ jobs < MaxJobs /\ Known(r)
  /\ jobs' = jobs + 1
  /\ used' = used \cup {<<r, n>>}
  /\ UNCHANGED <<status, folder, runEvents, found, handoffs, work, breaks, mixed>>

---------------------------------------------------------------------------
\* An await fails and the call with it, or the process is restarted.
BreakOff(ws) ==
  /\ breaks < MaxBreaks
  /\ breaks' = breaks + 1
  /\ work' = [w \in Worker |-> IF w \in ws THEN Free ELSE work[w]]
  /\ UNCHANGED <<status, folder, runEvents, found, used, handoffs, jobs, mixed>>

RunNext ==
  \/ \E w \in Worker, r \in Run :
       \/ CreateRun(w, r)
       \/ \E todo \in {<<>>, <<"result.md">>}, failed \in BOOLEAN, line \in Line : CompleteRun(w, r, todo, {line}, failed)
       \/ \E line \in Line : AppendRunArtifact(w, r, line) \/ CreateHandoff(w, r, line)
       \/ \E promote, reasoning \in BOOLEAN : CompileRun(w, r, promote, reasoning)
  \/ \E r \in Run : StartRun(r) \/ \E n \in DOMAIN found : LogMemoryUsage(r, n)
  \/ \E w \in Worker :
       \/ WriteNext(w) \/ EndCreate(w) \/ EndComplete(w)
       \/ ReadExisting(w) \/ WriteAppended(w) \/ WriteHandoff(w) \/ KeepHandoff(w)
       \/ ReadNext(w) \/ WriteCandidates(w) \/ InsertCandidate(w) \/ Promote(w) \/ Reason(w) \/ WriteLessons(w)
       \/ InsertLesson(w) \/ EndCompile(w)
  \/ \E w \in Worker : work[w] # Free /\ BreakOff({w})
  \/ BreakOff(Worker)

---------------------------------------------------------------------------
(* The last event of a run that is not run_created tells its status,       *)
(* although nothing orders the calls that set it: the row changes with the *)
(* event, after the last await.  run_created is told once, but it may come *)
(* late: createRun awaits its folder after the row is inserted, and a run  *)
(* already started or completed may then be told as created (3027).        *)
EventsTellStatus ==
  \A r \in Run :
    LET told == runEvents[r] IN
    /\ \E i \in 0 .. Len(told) :
         /\ \A j \in DOMAIN told : j > i => told[j] = "created"
         /\ IF i = 0 THEN status[r] \in {"none", "created"}
                     ELSE told[i] = status[r] /\ told[i] # "created"
    /\ \A i, j \in DOMAIN told : told[i] = "created" /\ told[j] = "created" => i = j

(* An append to an artifact keeps the lines it has, unless another request *)
(* writes the artifact between its read and its write.                     *)
AppendKeepsLines ==
  [][\A w \in Worker :
       LET old == folder[work[w].run]["actions.md"] IN
       Busy(w, "append", "writing") /\ work'[w] = Free /\ breaks' = breaks /\ old = work[w].base
         => old \subseteq folder'[work[w].run]["actions.md"]]_runVars

(* However often a run is compiled, and wherever a compilation broke off,  *)
(* it has one reasoning memory of a key, unless two compilations of it     *)
(* overlap.                                                                *)
OneLessonPerKey ==
  \A m, n \in DOMAIN found :
    /\ found[m].kind = "reasoning" /\ found[n].kind = "reasoning"
    /\ found[n].run = found[m].run /\ found[n].key = found[m].key
    /\ found[m].run \notin mixed
    => m = n
=============================================================================
