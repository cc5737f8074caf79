---------------------------- MODULE AtomicFiles ----------------------------
(***************************************************************************)
(* What the file handlers of VeriFS promise their callers: a table from    *)
(* paths to contents on which every request takes effect at one instant    *)
(* between its arrival and its answer.                                     *)
(***************************************************************************)
CONSTANTS Path, Content, Binary, Task, Request, NoRequest, NoContent, Torn

VARIABLES
  table,  \* path -> content, or NoContent
  call    \* request in flight -> its state

Idle == [st |-> "idle", req |-> NoRequest, ans |-> "none", late |-> FALSE]

Is(t, st, op) == call[t].st = st /\ call[t].req.op = op

Pending(r, late) == [st |-> "pending", req |-> r, ans |-> "none", late |-> late]
Done(t, ans) == [st |-> "done", req |-> call[t].req, ans |-> ans, late |-> FALSE]
Taken(t, ans) == [st |-> "taken", req |-> call[t].req, ans |-> ans, late |-> FALSE]

Init ==
  /\ table \in [Path -> Content \cup {NoContent}]
  /\ call = [t \in Task |-> Idle]

Invoke(t, r) ==
  /\ call[t].st = "idle"
  /\ call' = [call EXCEPT ![t] = Pending(r, FALSE)]
  /\ UNCHANGED table

(* A write replaces the content; its answer may wait for the memories to   *)
(* be extracted.  A write on behalf of a run that does not exist replaces  *)
(* the content and fails.                                                  *)
Write(t) ==
  LET r == call[t].req IN
  /\ Is(t, "pending", "write")
  /\ table' = [table EXCEPT ![r.path] = r.content]
  /\ \E c \in {Done(t, "ok"), Done(t, "failed"), Taken(t, "none")} :
       /\ c.ans = "failed" => r.run
       /\ call' = [call EXCEPT ![t] = c]

(* A delete removes the file.  It may come late for the file it found: if  *)
(* another delete removed it first, this one answers "ok" and does nothing.*)
Delete(t) ==
  LET p == call[t].req.path
      rivals == {u \in Task \ {t} : Is(u, "pending", "delete") /\ call[u].req.path = p} IN
  /\ Is(t, "pending", "delete")
  /\ IF call[t].late
     THEN /\ call' = [call EXCEPT ![t] = Done(t, "ok")]
          /\ UNCHANGED table
     ELSE /\ table' = [table EXCEPT ![p] = NoContent]
          /\ \E late \in SUBSET rivals :
               call' = [u \in Task |->
                 IF u = t THEN Done(t, "ok")
                 ELSE IF u \in late THEN Pending(call[u].req, TRUE) ELSE call[u]]

(* A read answers what the table held; the content of a binary file is     *)
(* fetched afterwards.                                                     *)
Read(t) ==
  LET c == table[call[t].req.path] IN
  /\ Is(t, "pending", "read")
  /\ c # NoContent
  /\ call' = [call EXCEPT ![t] = IF c \in Binary THEN Taken(t, c) ELSE Done(t, c)]
  /\ UNCHANGED table

Ingest(t) ==
  /\ Is(t, "pending", "ingest")
  /\ \E ans \in {"ok", "failed"} : call' = [call EXCEPT ![t] = Done(t, ans)]
  /\ UNCHANGED table

(* The end of a request that took effect.  A write whose extraction failed *)
(* answers "failed" though the file was written; a binary read may find    *)
(* its bytes half written; the service behind either may fail.             *)
Finish(t) ==
  /\ call[t].st = "taken"
  /\ \/ Is(t, "taken", "read") /\ \E ans \in {call[t].ans, Torn, "error"} :
          call' = [call EXCEPT ![t] = Done(t, ans)]
     \/ Is(t, "taken", "write") /\ \E ans \in {"ok", "failed", "error"} :
          /\ ans = "failed" => call[t].req.ingest
          /\ call' = [call EXCEPT ![t] = Done(t, ans)]
  /\ UNCHANGED table

(* A request that fails changes nothing.  A read or a delete fails only    *)
(* where there is no file, unless a service fails it; a write may.         *)
Fail(t) ==
  /\ call[t].st = "pending"
  /\ \E ans \in {"failed", "refused", "error"} :
       /\ ans = "failed" /\ call[t].req.op \in {"read", "delete"} =>
            table[call[t].req.path] = NoContent
       /\ call' = [call EXCEPT ![t] = Done(t, ans)]
  /\ UNCHANGED table

Return(t) ==
  /\ call[t].st = "done"
  /\ call' = [call EXCEPT ![t] = Idle]
  /\ UNCHANGED table

(* A crash answers nobody; at most one request takes effect as it happens. *)
Crash ==
  /\ call' = [t \in Task |-> Idle]
  /\ \/ UNCHANGED table
     \/ \E t \in Task :
          LET r == call[t].req IN
          /\ call[t].st = "pending" /\ r.op \in {"write", "delete"}
          /\ table' = [table EXCEPT ![r.path] = IF r.op = "write" THEN r.content ELSE NoContent]

Next ==
  \/ \E t \in Task : \E r \in Request : Invoke(t, r)
  \/ \E t \in Task :
       Write(t) \/ Delete(t) \/ Read(t) \/ Ingest(t) \/ Finish(t) \/ Fail(t) \/ Return(t)
  \/ Crash

Spec == Init /\ [][Next]_<<table, call>>
=============================================================================
