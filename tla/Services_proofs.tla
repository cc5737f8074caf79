--------------------------- MODULE Services_proofs ---------------------------
(***************************************************************************)
(* Theorems about the services beside the files, the review, the mount,    *)
(* the runs, the snapshots and recall: models, teams, the database's       *)
(* schema, curation and the archive.  No module here builds on another;    *)
(* each part is about one of them, for every value of its constants.       *)
(***************************************************************************)
EXTENDS Models, Team, Schema, Curation, Archive, Integers, TLAPS

-----------------------------------------------------------------------------
(* Models.  However calls, loads and failures interleave, a model has one  *)
(* live load.                                                              *)

ModelsSpec == ModelsInit /\ [][ModelsNext]_modelVars

Load == [model : Model, state : {"loading", "ready", "failed"}]

LoadsTyped ==
  /\ loads \in Seq(Load)
  /\ pipelines \in [Model -> {NoLoad} \cup DOMAIN loads]

\* What every step keeps: the types, and the property itself.
LoadsInv == LoadsTyped /\ OnePipelinePerModel

-----------------------------------------------------------------------------
(* Starting a load, when the map holds none of the model.                  *)
Started(m) ==
  /\ pipelines[m] = NoLoad
  /\ loads' = Append(loads, [model |-> m, state |-> "loading"])
  /\ pipelines' = [pipelines EXCEPT ![m] = Len(loads')]

(* Starting a load keeps the types and adds one load.                     *)
LEMMA StartedTyped ==
  ASSUME LoadsTyped, NEW m \in Model, Started(m)
  PROVE  LoadsTyped' /\ Len(loads') = Len(loads) + 1
<1>1. [model |-> m, state |-> "loading"] \in Load
  BY DEF Load
<1>2. loads' \in Seq(Load) /\ Len(loads') = Len(loads) + 1
  BY <1>1 DEF LoadsTyped, Started
<1>3. DOMAIN loads = 1..Len(loads) /\ DOMAIN loads' = 1..Len(loads')
  BY <1>2 DEF LoadsTyped
<1>4. Len(loads) \in Nat
  BY DEF LoadsTyped
<1> QED BY <1>2, <1>3, <1>4 DEF LoadsTyped, Started, NoLoad

(* The new load is the only live one of its model: the map held none.      *)
LEMMA StartedKeeps ==
  ASSUME LoadsInv, NEW m \in Model, Started(m)
  PROVE  LoadsInv'
<1> DEFINE new == Len(loads) + 1
<1>1. LoadsTyped' /\ Len(loads') = new
  BY StartedTyped DEF LoadsInv
<1>2. /\ loads \in Seq(Load) /\ Len(loads) \in Nat
      /\ DOMAIN loads = 1..Len(loads) /\ DOMAIN loads' = 1..new
  BY <1>1 DEF LoadsInv, LoadsTyped
<1>3. /\ \A l \in DOMAIN loads : loads'[l] = loads[l]
      /\ loads'[new] = [model |-> m, state |-> "loading"]
  BY <1>2 DEF Started
<1>4. \A x \in Model : Live(x)' = IF x = m THEN Live(x) \cup {new} ELSE Live(x)
  BY <1>2, <1>3 DEF Live
<1>5. \A x \in Model : Live(x) = {pipelines[x]} \ {NoLoad}
  BY DEF LoadsInv, OnePipelinePerModel
<1>6. pipelines' = [pipelines EXCEPT ![m] = new] /\ pipelines[m] = NoLoad
  BY <1>1 DEF Started
<1>7. \A x \in Model : pipelines'[x] = IF x = m THEN new ELSE pipelines[x]
  BY <1>6 DEF LoadsInv, LoadsTyped
<1>8. new # NoLoad
  BY <1>2 DEF NoLoad
<1>9. ASSUME NEW x \in Model PROVE Live(x)' = {pipelines'[x]} \ {NoLoad}
  <2>1. CASE x = m
    BY <2>1, <1>4, <1>5, <1>6, <1>7, <1>8
  <2>2. CASE x # m
    BY <2>2, <1>4, <1>5, <1>7
  <2> QED BY <2>1, <2>2
<1> QED BY <1>1, <1>9 DEF LoadsInv, OnePipelinePerModel

-----------------------------------------------------------------------------
(* The end of a load writes one of two states into it.                     *)
LEMMA EndState ==
  ASSUME NEW l \in DOMAIN loads, NEW works \in BOOLEAN, LoadEnds(l, works)
  PROVE  \E st \in {"ready", "failed"} :
           /\ loads' = [loads EXCEPT ![l].state = st]
           /\ st = "ready" <=> works
<1>1. CASE works
  BY <1>1 DEF LoadEnds
<1>2. CASE ~works
  BY <1>2 DEF LoadEnds
<1> QED BY <1>1, <1>2

(* The end of a load, ready or failed, keeps the types.                    *)
LEMMA EndedTyped ==
  ASSUME LoadsTyped, NEW l \in DOMAIN loads, NEW works \in BOOLEAN, LoadEnds(l, works)
  PROVE  LoadsTyped' /\ DOMAIN loads' = DOMAIN loads
<1>1. loads[l] \in Load
  BY DEF LoadsTyped
<1>2. \A st \in {"ready", "failed"} : [loads[l] EXCEPT !.state = st] \in Load
  BY <1>1 DEF Load
<1>3. PICK st \in {"ready", "failed"} : loads' = [loads EXCEPT ![l].state = st]
  BY EndState
<1>4. loads' \in Seq(Load) /\ DOMAIN loads' = DOMAIN loads
  BY <1>2, <1>3 DEF LoadsTyped
<1>5. pipelines' \in [Model -> {NoLoad} \cup DOMAIN loads]
  <2>1. CASE pipelines' = pipelines
    BY <2>1 DEF LoadsTyped
  <2>2. CASE pipelines' = [pipelines EXCEPT ![loads[l].model] = NoLoad]
    BY <2>2 DEF LoadsTyped
  <2> QED BY <2>1, <2>2 DEF LoadEnds
<1> QED BY <1>4, <1>5 DEF LoadsTyped

(* A load that fails leaves the map and its live loads together.           *)
LEMMA EndedKeeps ==
  ASSUME LoadsInv, NEW l \in DOMAIN loads, NEW works \in BOOLEAN, LoadEnds(l, works)
  PROVE  LoadsInv'
<1> DEFINE m == loads[l].model
<1>1. LoadsTyped' /\ DOMAIN loads' = DOMAIN loads
  BY EndedTyped DEF LoadsInv
<1>2. m \in Model /\ loads[l] \in Load
  <2>1. loads \in Seq(Load)
    BY DEF LoadsInv, LoadsTyped
  <2>2. loads[l] \in Load
    BY <2>1
  <2> QED BY <2>2 DEF Load
<1>3. PICK st \in {"ready", "failed"} :
        loads' = [loads EXCEPT ![l].state = st] /\ (st = "ready" <=> works)
  BY EndState
<1>4. /\ \A k \in DOMAIN loads : k # l => loads'[k] = loads[k]
      /\ loads'[l].model = m
      /\ loads'[l].state = st
  BY <1>2, <1>3 DEF LoadsInv, LoadsTyped, Load
<1>5. \A x \in Model : Live(x) = {pipelines[x]} \ {NoLoad}
  BY DEF LoadsInv, OnePipelinePerModel
<1>6. l \in Live(m)
  BY <1>2 DEF Live, LoadEnds
<1>7. pipelines[m] = l
  BY <1>2, <1>5, <1>6
<1>8. \A x \in Model : Live(x)' = IF works THEN Live(x) ELSE Live(x) \ {l}
  <2> SUFFICES ASSUME NEW x \in Model PROVE Live(x)' = IF works THEN Live(x) ELSE Live(x) \ {l}
    OBVIOUS
  <2>1. ASSUME NEW k \in DOMAIN loads
        PROVE  k \in Live(x)' <=> k \in Live(x) /\ (k = l => works)
    <3>1. CASE k # l
      BY <3>1, <1>1, <1>4 DEF Live
    <3>2. CASE k = l
      <4>1. loads[l].state = "loading"
        BY DEF LoadEnds
      <4> QED BY <3>2, <4>1, <1>1, <1>3, <1>4 DEF Live
    <3> QED BY <3>1, <3>2
  <2>2. Live(x)' \subseteq DOMAIN loads /\ Live(x) \subseteq DOMAIN loads
    BY <1>1 DEF Live
  <2> QED BY <2>1, <2>2
<1>9. pipelines' = IF works THEN pipelines ELSE [pipelines EXCEPT ![m] = NoLoad]
  BY <1>7 DEF LoadEnds
<1>10. ASSUME NEW x \in Model PROVE Live(x)' = {pipelines'[x]} \ {NoLoad}
  <2>1. CASE works
    BY <2>1, <1>5, <1>8, <1>9
  <2>2. CASE ~works /\ x = m
    <3>1. pipelines'[x] = NoLoad
      BY <2>2, <1>2, <1>9 DEF LoadsInv, LoadsTyped
    <3> QED BY <3>1, <2>2, <1>5, <1>7, <1>8
  <2>3. CASE ~works /\ x # m
    <3>1. pipelines'[x] = pipelines[x]
      BY <2>3, <1>2, <1>9 DEF LoadsInv, LoadsTyped
    <3>2. l \notin Live(x)
      BY <2>3 DEF Live
    <3> QED BY <3>1, <3>2, <2>3, <1>5, <1>8
  <2> QED BY <2>1, <2>2, <2>3
<1> QED BY <1>1, <1>10 DEF LoadsInv, OnePipelinePerModel

-----------------------------------------------------------------------------
(* Steps that touch neither the map nor the loads.                         *)
LEMMA QuietKeeps ==
  ASSUME LoadsInv, UNCHANGED <<pipelines, loads>>
  PROVE  LoadsInv'
BY DEF LoadsInv, LoadsTyped, OnePipelinePerModel, Live

(* A call's row: the only options it carries are those it was made with.   *)
CallRow == [at : {"idle", "headers", "body", "pipeline", "answered", "failed"},
            kind : {"none", "embed", "extract"}, options : SUBSET CallOptions,
            load : Nat, answer : {"none", "remote", "local", "lexical"}]

Called == calls \in [Caller -> CallRow]

ModelsInv == Called /\ LoadsInv

(* Rows stay rows when a call moves on.                                    *)
LEMMA CallRows ==
  /\ NoCall \in CallRow
  /\ \A r \in CallRow :
       /\ \A at \in {"headers", "body", "pipeline", "answered", "failed"} :
            [r EXCEPT !.at = at] \in CallRow
       /\ r.options \subseteq CallOptions
BY DEF NoCall, CallRow, NoLoad

(* Answers take the call out of the models' hands.                         *)
LEMMA GiveKeeps ==
  ASSUME ModelsInv, NEW c \in Caller, NEW answer \in {"remote", "local", "lexical"},
         Give(c, answer), UNCHANGED <<pipelines, loads>>
  PROVE  ModelsInv'
<1>1. calls[c].kind \in {"none", "embed", "extract"}
  BY DEF ModelsInv, Called, CallRow
<1>2. [NoCall EXCEPT !.at = "answered", !.kind = calls[c].kind, !.answer = answer] \in CallRow
  BY <1>1 DEF NoCall, CallRow, NoLoad
<1>3. Called'
  BY <1>2 DEF Give, Called, ModelsInv
<1> QED BY <1>3, QuietKeeps DEF ModelsInv

(* A call that moves on without an answer.                                 *)
LEMMA UpdateKeeps ==
  ASSUME ModelsInv, NEW c \in Caller,
         NEW at \in {"headers", "body", "pipeline", "answered", "failed"},
         Update(c, at), UNCHANGED <<pipelines, loads>>
  PROVE  ModelsInv'
<1>1. calls' = [calls EXCEPT ![c] = [calls[c] EXCEPT !.at = at]]
  BY DEF Update
<1>2. calls[c] \in CallRow
  BY DEF ModelsInv, Called
<1>3. Called'
  BY <1>1, <1>2, CallRows DEF Called, ModelsInv
<1> QED BY <1>3, QuietKeeps DEF ModelsInv

(* Of the handlers, only requestLocalOnnxEmbedding starts a load.          *)
LEMMA EmbedKeeps ==
  ASSUME ModelsInv, NEW c \in Caller, NEW o \in CallOptions, EmbedLocally(c, o)
  PROVE  ModelsInv'
<1>1. o.model \in Model
  BY DEF CallOptions
<1>2. UNCHANGED <<pipelines, loads>> \/ Started(o.model)
  BY DEF EmbedLocally, JoinPipeline, Started
<1>3. LoadsInv'
  BY <1>1, <1>2, StartedKeeps, QuietKeeps DEF ModelsInv
<1>4. ASSUME NEW load \in Nat,
             calls' = [calls EXCEPT ![c].at = "pipeline", ![c].options = {o},
                                    ![c].kind = "embed", ![c].load = load]
      PROVE  Called'
  <2>1. calls[c] \in CallRow
    BY DEF ModelsInv, Called
  <2>2. [calls[c] EXCEPT !.at = "pipeline", !.options = {o}, !.kind = "embed", !.load = load]
          \in CallRow
    BY <2>1 DEF CallRow
  <2>3. calls' = [calls EXCEPT ![c] = [calls[c] EXCEPT !.at = "pipeline", !.options = {o},
                                                       !.kind = "embed", !.load = load]]
    BY <1>4 DEF ModelsInv, Called
  <2> QED BY <2>2, <2>3 DEF ModelsInv, Called
<1>5. Called'
  <2>1. CASE ~o.local
    <3>1. [NoCall EXCEPT !.at = "answered", !.kind = "embed", !.answer = "lexical"] \in CallRow
      BY DEF NoCall, CallRow, NoLoad
    <3> QED BY <2>1, <3>1 DEF EmbedLocally, ModelsInv, Called
  <2>2. CASE o.local /\ pipelines[o.model] # NoLoad
    <3>1. pipelines[o.model] \in Nat
      BY <1>1 DEF ModelsInv, LoadsInv, LoadsTyped, NoLoad
    <3> QED BY <2>2, <3>1, <1>4 DEF EmbedLocally, JoinPipeline
  <2>3. CASE o.local /\ pipelines[o.model] = NoLoad
    <3>1. Started(o.model)
      BY <2>3 DEF EmbedLocally, JoinPipeline, Started
    <3>2. Len(loads') \in Nat
      BY <3>1, <1>1, StartedTyped DEF ModelsInv, LoadsInv, LoadsTyped
    <3> QED BY <2>3, <3>2, <1>4 DEF EmbedLocally, JoinPipeline
  <2> QED BY <2>1, <2>2, <2>3
<1> QED BY <1>3, <1>5 DEF ModelsInv

(* Every step keeps the invariant.                                         *)
LEMMA StepKeeps ==
  ASSUME ModelsInv, ModelsNext
  PROVE  ModelsInv'
<1>1. ASSUME NEW c \in Caller, NEW o \in CallOptions, EmbedText(c, o) PROVE ModelsInv'
  <2>1. CASE o.remote
    <3>1. [NoCall EXCEPT !.at = "headers", !.kind = "embed", !.options = {o}] \in CallRow
      BY DEF NoCall, CallRow, NoLoad
    <3> QED BY <1>1, <2>1, <3>1, QuietKeeps DEF EmbedText, ModelsInv, Called
  <2>2. CASE ~o.remote
    BY <1>1, <2>2, EmbedKeeps DEF EmbedText
  <2> QED BY <2>1, <2>2
<1>2. ASSUME NEW c \in Caller, NEW o \in CallOptions, ExtractNodes(c, o) PROVE ModelsInv'
  <2>1. PICK row \in CallRow : calls' = [calls EXCEPT ![c] = row]
    <3>1. CASE o.remote
      <4>1. calls' = [calls EXCEPT ![c] = [NoCall EXCEPT !.at = "headers", !.kind = "extract",
                                             !.options = {o}, !.answer = "none"]]
        BY <1>2, <3>1 DEF ExtractNodes
      <4>2. [NoCall EXCEPT !.at = "headers", !.kind = "extract",
                           !.options = {o}, !.answer = "none"] \in CallRow
        BY DEF NoCall, CallRow, NoLoad
      <4> QED BY <4>1, <4>2
    <3>2. CASE ~o.remote
      <4>1. calls' = [calls EXCEPT ![c] = [NoCall EXCEPT !.at = "answered", !.kind = "extract",
                                             !.options = {}, !.answer = "lexical"]]
        BY <1>2, <3>2 DEF ExtractNodes
      <4>2. [NoCall EXCEPT !.at = "answered", !.kind = "extract",
                           !.options = {}, !.answer = "lexical"] \in CallRow
        BY DEF NoCall, CallRow, NoLoad
      <4> QED BY <4>1, <4>2
    <3> QED BY <3>1, <3>2
  <2> QED BY <1>2, <2>1, QuietKeeps DEF ExtractNodes, ModelsInv, Called
<1>3. ASSUME NEW c \in Caller, Headers(c) PROVE ModelsInv'
  BY <1>3, UpdateKeeps DEF Headers
<1>4. ASSUME NEW c \in Caller, Body(c) PROVE ModelsInv'
  BY <1>4, GiveKeeps DEF Body
<1>5. ASSUME NEW c \in Caller, RemoteFails(c) PROVE ModelsInv'
  <2>1. calls[c].options \subseteq CallOptions
    BY CallRows DEF ModelsInv, Called
  <2>2. CASE calls[c].kind = "extract"
    BY <1>5, <2>2, GiveKeeps DEF RemoteFails
  <2>3. CASE calls[c].kind # "extract"
    BY <1>5, <2>1, <2>3, EmbedKeeps DEF RemoteFails
  <2> QED BY <2>2, <2>3
<1>6. ASSUME NEW c \in Caller, Forget(c) PROVE ModelsInv'
  BY <1>6, CallRows, QuietKeeps DEF Forget, ModelsInv, Called
<1>7. ASSUME NEW l \in DOMAIN loads, NEW works \in BOOLEAN, LoadEnds(l, works)
      PROVE  ModelsInv'
  BY <1>7, EndedKeeps DEF LoadEnds, ModelsInv, Called
<1>8. ASSUME NEW c \in Caller, NEW works \in BOOLEAN, UsePipeline(c, works) PROVE ModelsInv'
  BY <1>8, GiveKeeps, UpdateKeeps DEF UsePipeline
<1> QED BY <1>1, <1>2, <1>3, <1>4, <1>5, <1>6, <1>7, <1>8 DEF ModelsNext

(* Each model has one live load, the one localEmbeddingPipelines holds,    *)
(* however calls, loads and failures interleave.                           *)
THEOREM OneLoad == ModelsSpec => []OnePipelinePerModel
<1>1. ModelsInit => ModelsInv
  <2> SUFFICES ASSUME ModelsInit PROVE ModelsInv
    OBVIOUS
  <2>1. Called
    BY CallRows DEF ModelsInit, Called
  <2>2. loads = <<>> /\ DOMAIN loads = {} /\ loads \in Seq(Load)
    BY DEF ModelsInit
  <2>3. LoadsTyped
    BY <2>2 DEF ModelsInit, LoadsTyped
  <2>4. OnePipelinePerModel
    BY <2>2 DEF ModelsInit, OnePipelinePerModel, Live
  <2> QED BY <2>1, <2>3, <2>4 DEF ModelsInv, LoadsInv
<1>2. ModelsInv /\ [ModelsNext]_modelVars => ModelsInv'
  <2>1. ModelsInv /\ UNCHANGED modelVars => ModelsInv'
    BY QuietKeeps DEF modelVars, ModelsInv, Called
  <2> QED BY <2>1, StepKeeps
<1>3. ModelsInv => OnePipelinePerModel
  BY DEF ModelsInv, LoadsInv
<1> QED BY <1>1, <1>2, <1>3, PTL DEF ModelsSpec

-----------------------------------------------------------------------------
(* Teams of any size and files of any text.                                *)

TeamSpec == TeamInit /\ [][TeamNext]_teamVars

\* What the proofs use of TeamTypeOK: members have roles.
Roled == members \in [Handle -> Role \cup {NoRole}]

-----------------------------------------------------------------------------
(* Every handler that changes the members gives one of them a role.        *)
LEMMA ChangeOfRole ==
  ASSUME Roled, NEW handle \in Handle, NEW role \in Role,
         members' = [members EXCEPT ![handle] = role]
  PROVE  Roled'
BY DEF Roled

(* Steps that leave the members alone.                                     *)
Quiet == UNCHANGED <<secured, provider, members>>

(* ... which are all steps but adding a member and setting a role. *)
LEMMA StepsAboutFiles ==
  ASSUME TeamNext,
         ~ \E actor, handle \in Handle, role \in Role :
             AddWorkspaceMember(actor, handle, role) \/ SetWorkspaceMemberRole(actor, handle, role)
  PROVE  Quiet
BY DEF TeamNext, Quiet, WriteText, DeleteText, ReadForAppend, WriteAppend, RefuseAppend

(* Members change by a manager, one at a time. *)
LEMMA MemberSteps ==
  ASSUME TeamNext, members' # members
  PROVE  \E actor, handle \in Handle, role \in Role :
           /\ CanManage(actor)
           /\ members' = [members EXCEPT ![handle] = role]
<1>1. CASE \E actor, handle \in Handle, role \in Role :
             AddWorkspaceMember(actor, handle, role) \/ SetWorkspaceMemberRole(actor, handle, role)
  BY <1>1 DEF AddWorkspaceMember, SetWorkspaceMemberRole
<1>2. CASE ~ \E actor, handle \in Handle, role \in Role :
             AddWorkspaceMember(actor, handle, role) \/ SetWorkspaceMemberRole(actor, handle, role)
  BY <1>2, StepsAboutFiles DEF Quiet
<1> QED BY <1>1, <1>2

(* The member table of a team holds roles, whoever is added or changed     *)
(* (addWorkspaceMember, setWorkspaceMemberRole).                           *)
THEOREM RolesTyped == TeamSpec => []Roled
<1>1. TeamInit => Roled
  BY DEF TeamInit, Roled
<1>2. Roled /\ [TeamNext]_teamVars => Roled'
  <2> SUFFICES ASSUME Roled, [TeamNext]_teamVars PROVE Roled'
    OBVIOUS
  <2>1. CASE members' = members
    BY <2>1 DEF Roled
  <2>2. CASE members' # members
    <3>1. TeamNext
      BY <2>2 DEF teamVars
    <3>2. PICK handle \in Handle, role \in Role :
            members' = [members EXCEPT ![handle] = role]
      BY <3>1, <2>2, MemberSteps
    <3> QED BY <3>2, ChangeOfRole
  <2> QED BY <2>1, <2>2
<1> QED BY <1>1, <1>2, PTL DEF TeamSpec

\* What the append of a client has read, and the tables it is about.
Faithful(a) ==
  /\ a.file \in File
  /\ a.at = "read" /\ (a.kind = "remote" \/ ~secured) /\ a.seen # NoFile => a.read = a.seen

ReadsKept ==
  /\ appends = [c \in Client |-> appends[c]]
  /\ texts = [f \in File |-> texts[f]]
  /\ \A c \in Client : Faithful(appends[c])

(* One client's append takes a new row, the others keep theirs.            *)
LEMMA AppendTaken ==
  ASSUME ReadsKept, NEW c \in Client, NEW row, Faithful(row), UNCHANGED secured,
         appends' = [appends EXCEPT ![c] = row], texts' = [f \in File |-> texts'[f]]
  PROVE  ReadsKept'
<1>1. appends' = [d \in Client |-> IF d = c THEN row ELSE appends[d]]
  BY DEF ReadsKept
<1>2. \A d \in Client : Faithful(appends'[d])
  BY <1>1 DEF ReadsKept
<1>3. \A d \in Client : Faithful(appends[d])'
  BY <1>2 DEF Faithful
<1> QED BY <1>1, <1>3 DEF ReadsKept

(* A file takes a text, or goes.                                           *)
LEMMA ChangeOfText ==
  ASSUME ReadsKept, NEW file \in File, NEW text, Change(file, text)
  PROVE  texts' = [f \in File |-> texts'[f]] /\ texts'[file] = text
<1>1. texts' = [f \in File |-> IF f = file THEN text ELSE texts[f]]
  BY DEF ReadsKept, Change
<1> QED BY <1>1

(* A read keeps the text, unless it was refused and the client goes on.    *)
LEMMA ReadForAppendKeeps ==
  ASSUME ReadsKept, NEW c \in Client, NEW actor \in Handle, NEW kind \in Kind, NEW file \in File,
         ReadForAppend(c, actor, kind, file)
  PROVE  ReadsKept'
<1>1. PICK allowed \in BOOLEAN : allowed = Authorized(Reader(kind, actor), "file.read", file)
  BY DEF Authorized
<1>2. PICK read : read = IF allowed /\ texts[file] # NoFile THEN texts[file] ELSE <<>>
  OBVIOUS
<1>3. PICK row : row = [at |-> "read", actor |-> actor, kind |-> kind, file |-> file,
                        read |-> read, seen |-> texts[file]]
  OBVIOUS
<1>4. /\ appends' = [appends EXCEPT ![c] = row]
      /\ allowed \/ GoesOn(kind)
      /\ UNCHANGED <<secured, provider, members, texts, writes>>
  BY <1>1, <1>2, <1>3, Zenon DEF ReadForAppend
<1>5. kind = "remote" \/ ~secured => allowed
  BY <1>1, <1>4 DEF GoesOn, Authorized
<1>6. Faithful(row)
  BY <1>2, <1>3, <1>5 DEF Faithful
<1> QED BY <1>4, <1>6, AppendTaken DEF ReadsKept

(* Every step keeps what the appends have read.                            *)
LEMMA ReadingStep ==
  ASSUME ReadsKept, [TeamNext]_teamVars
  PROVE  ReadsKept'
<1>1. Faithful(NoAppend)
  BY DEF Faithful, NoAppend, File
<1>2. ASSUME NEW actor \in Handle, NEW handle \in Handle, NEW role \in Role,
             \/ AddWorkspaceMember(actor, handle, role)
             \/ SetWorkspaceMemberRole(actor, handle, role)
      PROVE  ReadsKept'
  BY <1>2 DEF AddWorkspaceMember, SetWorkspaceMemberRole, ReadsKept, Faithful
<1>3. ASSUME NEW actor \in Handle, NEW file \in File, NEW flag \in BOOLEAN,
             (\E line \in Note : WriteText(actor, file, flag, line)) \/ DeleteText(actor, file, flag)
      PROVE  ReadsKept'
  <2>1. UNCHANGED <<secured, appends>> /\ \E text : Change(file, text)
    BY <1>3 DEF WriteText, DeleteText
  <2>2. texts' = [f \in File |-> texts'[f]]
    BY <2>1, ChangeOfText
  <2> QED BY <2>1, <2>2 DEF ReadsKept, Faithful
<1>4. ASSUME NEW c \in Client, NEW flag \in BOOLEAN, NEW line \in Note, WriteAppend(c, flag, line)
      PROVE  ReadsKept'
  <2>1. /\ Change(appends[c].file, Append(appends[c].read, line)) /\ UNCHANGED secured
        /\ appends' = [appends EXCEPT ![c] = NoAppend] /\ appends[c].file \in File
    BY <1>4 DEF WriteAppend, ReadsKept, Faithful
  <2> QED BY <1>1, <2>1, ChangeOfText, AppendTaken
<1>5. ASSUME NEW c \in Client, NEW flag \in BOOLEAN, RefuseAppend(c, flag)
      PROVE  ReadsKept'
  BY <1>1, <1>5, AppendTaken DEF RefuseAppend, ReadsKept
<1>6. CASE UNCHANGED teamVars
  BY <1>6 DEF teamVars, ReadsKept, Faithful
<1> QED BY <1>2, <1>3, <1>4, <1>5, <1>6, ReadForAppendKeeps DEF TeamNext

(* An append of the CLI or the SDK adds to a file that held something when *)
(* it read it and that nobody touched since, however the roles of its      *)
(* actor change in between; so does every append where no read is refused  *)
(* (readExistingContent, readFileIfPresent).                               *)
THEOREM RemoteAppendsAdd == TeamSpec => RemoteAppendsKeepText
<1> DEFINE Adding(c) ==
      Appended(c) /\ (appends[c].kind = "remote" \/ ~secured) => Adds(appends[c])
<1>1. TeamInit => ReadsKept
  BY DEF TeamInit, ReadsKept, Faithful, NoAppend, File
<1>2. ASSUME ReadsKept, TeamNext, NEW c \in Client PROVE Adding(c)
  <2>1. SUFFICES ASSUME Appended(c), appends[c].kind = "remote" \/ ~secured,
                        texts[appends[c].file] = appends[c].seen, appends[c].seen # NoFile
                 PROVE  \E line \in Note : texts'[appends[c].file] = Append(appends[c].seen, line)
    BY DEF Adds
  <2>2. appends[c].read = appends[c].seen /\ appends[c].file \in File
    BY <1>2, <2>1 DEF ReadsKept, Faithful, Appended
  <2>3. PICK d \in Client, flag \in BOOLEAN, line \in Note : WriteAppend(d, flag, line)
    BY <1>2, <2>1 DEF TeamNext, Appended, AddWorkspaceMember, SetWorkspaceMemberRole, WriteText,
                      DeleteText, ReadForAppend, RefuseAppend
  <2>4. d = c
    <3>1. d # c => appends'[c] = appends[c]
      BY <1>2, <2>3 DEF WriteAppend, ReadsKept
    <3> QED BY <2>1, <3>1 DEF Appended
  <2>5. texts'[appends[c].file] = Append(appends[c].read, line)
    <3>1. Change(appends[c].file, Append(appends[c].read, line))
      BY <2>3, <2>4 DEF WriteAppend
    <3>2. PICK text : text = Append(appends[c].read, line)
      OBVIOUS
    <3>3. PICK file \in File : file = appends[c].file
      BY <2>2
    <3>4. texts'[file] = text
      BY <1>2, <3>1, <3>2, <3>3, ChangeOfText
    <3> QED BY <3>2, <3>3, <3>4
  <2> QED BY <2>2, <2>5
<1>3. ReadsKept /\ [TeamNext]_teamVars => [\A c \in Client : Adding(c)]_teamVars
  BY <1>2
<1>4. ReadsKept /\ [TeamNext]_teamVars => ReadsKept'
  BY ReadingStep
<1> QED BY <1>1, <1>3, <1>4, PTL DEF TeamSpec, RemoteAppendsKeepText

-----------------------------------------------------------------------------
(* What a role may do, every higher role may do too.                       *)
Rank == [viewer |-> 1, agent |-> 2, editor |-> 3, admin |-> 4, owner |-> 5]

(* By the table of permissions and its exceptions. *)
LEMMA RightsGrow ==
  ASSUME NEW g \in Role, NEW h \in Role, Rank[g] <= Rank[h],
         NEW action \in PermissionAction, NEW file \in File, RoleCan(g, action, file)
  PROVE  RoleCan(h, action, file)
BY DEF Role, Rank, RoleCan, Permissions, PermissionAction, Changing, File

(* Roles are ordered, in every team that can come about, for every action  *)
(* and file (defaultRolePermissions with the exceptions of roleCan, behind *)
(* ensureAuthorized).                                                      *)
THEOREM RolesOrdered == TeamSpec => []RolesAreOrdered
<1>1. Roled => RolesAreOrdered
  <2> SUFFICES ASSUME Roled, NEW g \in Team, NEW h \in Team, Rank[members[g]] <= Rank[members[h]],
                      NEW action \in PermissionAction, NEW file \in File,
                      Authorized(g, action, file)
               PROVE  Authorized(h, action, file)
    BY DEF RolesAreOrdered, Rank
  <2>1. members[g] \in Role /\ members[h] \in Role
    BY DEF Roled, Team
  <2>2. RoleCan(members[g], action, file) => RoleCan(members[h], action, file)
    BY <2>1, RightsGrow
  <2> QED BY <2>2 DEF Authorized
<1> QED BY <1>1, RolesTyped, PTL

-----------------------------------------------------------------------------
(* The schema.                                                             *)

SchemaSpec(files) == SchemaInit(files) /\ [][SchemaNext]_schemaVars

\* What the script leaves: every table and index; columns may be missing.
Prepared(shape) == shape \in Shape /\ shape.tables = Tables /\ shape.indexes = Indexes

-----------------------------------------------------------------------------
(* An index over later columns or over none is one of this version's.      *)
LEMMA NodeIndexesKnown == NodeIndexes \subseteq Indexes
BY DEF Indexes

(* ... and so are the others. *)
LEMMA PlainIndexesKnown ==
  ASSUME NEW tables \in SUBSET PlainlyIndexed
  PROVE  {Index(t, {}) : t \in tables} \subseteq Indexes
BY DEF Indexes

(* Once all tables are there, creating some changes nothing.               *)
LEMMA CreateNone ==
  ASSUME NEW s, Prepared(s), NEW tables \in SUBSET Tables, NEW columns
  PROVE  CreateTables(s, tables, columns) = s
<1>1. s.tables \cup tables = s.tables /\ tables \ s.tables = {}
  BY DEF Prepared
<1>2. {c \in columns : c[1] \in tables \ s.tables} = {}
  BY <1>1
<1> QED BY <1>1, <1>2 DEF CreateTables, Prepared, Shape

(* Once all indexes are there, creating some changes nothing.              *)
LEMMA IndexNone ==
  ASSUME NEW s, Prepared(s), NEW indexes \in SUBSET Indexes
  PROVE  TryIndexes(s, indexes) = s
<1>1. s.indexes \cup {i \in indexes : Indexable(s, i)} = s.indexes
  BY DEF Prepared
<1> QED BY <1>1 DEF TryIndexes, Prepared, Shape

(* The columns that came later belong to tables of this version.           *)
LEMMA ColumnsOfTables == \A c \in Columns : c[1] \in Tables
<1>1. \A c \in NodeColumns : c[1] = "memory_nodes"
  BY DEF NodeColumns
<1>2. \A c \in LinkColumns : c[1] = "memory_links"
  BY DEF LinkColumns
<1>3. \A c \in PromotionColumns : c[1] = "memory_promotions"
  BY DEF PromotionColumns
<1>4. {"memory_nodes", "memory_links", "memory_promotions"} \subseteq Tables
  BY DEF Tables, MemoryTables, ReviewTables
<1> QED BY <1>1, <1>2, <1>3, <1>4 DEF Columns

(* Once all tables are there, every column that is missing can be added.   *)
LEMMA AlterAll ==
  ASSUME NEW s, Prepared(s), NEW columns \in SUBSET Columns
  PROVE  /\ Prepared(TryColumns(s, columns))
         /\ TryColumns(s, columns).columns = s.columns \cup columns
<1>1. {c \in columns : c[1] \in s.tables} = columns
  BY ColumnsOfTables DEF Prepared
<1>2. TryColumns(s, columns) = [s EXCEPT !.columns = s.columns \cup columns]
  BY <1>1 DEF TryColumns
<1>3. s.columns \cup columns \in SUBSET Columns
  BY DEF Prepared, Shape
<1> QED BY <1>2, <1>3 DEF Prepared, Shape

(* A schema with everything is the current one.                            *)
LEMMA Complete ==
  ASSUME NEW s, Prepared(s), s.columns = Columns
  PROVE  s = Current
BY DEF Prepared, Shape, Current

(* A database of this version is one the statements leave alone. *)
LEMMA CurrentPrepared == Prepared(Current) /\ Current.columns = Columns
BY DEF Prepared, Shape, Current

-----------------------------------------------------------------------------
(* applyCompatibilityMigrations, part by part, after the script.           *)
LEMMA MemoryPart ==
  ASSUME NEW s, Prepared(s)
  PROVE  /\ Prepared(CompatMemory(s))
         /\ CompatMemory(s).columns = s.columns \cup NodeColumns \cup LinkColumns
<1> DEFINE altered == TryColumns(s, NodeColumns \cup LinkColumns)
<1>1. Prepared(altered) /\ altered.columns = s.columns \cup NodeColumns \cup LinkColumns
  <2>1. NodeColumns \cup LinkColumns \in SUBSET Columns
    BY DEF Columns
  <2> QED BY <2>1, AlterAll
<1> HIDE DEF altered
<1>2. {"memory_graph_edges", "recall_traces", "extracted_sources", "file_artifacts"} \in SUBSET Tables
  BY DEF Tables, MemoryTables, FileTables
<1>3. CreateTables(altered, {"memory_graph_edges", "recall_traces", "extracted_sources",
                             "file_artifacts"}, {}) = altered
  BY <1>1, <1>2, CreateNone
<1>4. {"memory_links", "extracted_sources", "file_artifacts", "recall_traces"} \in SUBSET PlainlyIndexed
  BY DEF PlainlyIndexed, Tables, MemoryTables, FileTables
<1>5. CompatMemory(s) = altered
  BY <1>1, <1>3, <1>4, PlainIndexesKnown, IndexNone DEF CompatMemory, altered
<1> QED BY <1>1, <1>5

(* The columns of promotions, and the tables of reviews and snapshots.     *)
LEMMA ReviewPart ==
  ASSUME NEW s, Prepared(s)
  PROVE  /\ Prepared(CompatReview(s))
         /\ CompatReview(s).columns = s.columns \cup PromotionColumns
<1> DEFINE altered == TryColumns(s, PromotionColumns)
<1>1. CreateTables(s, {"memory_promotions", "memory_reviews"}, {}) = s
  <2>1. {"memory_promotions", "memory_reviews"} \in SUBSET Tables
    BY DEF Tables, ReviewTables
  <2> QED BY <2>1, CreateNone
<1>2. Prepared(altered) /\ altered.columns = s.columns \cup PromotionColumns
  <2>1. PromotionColumns \in SUBSET Columns
    BY DEF Columns
  <2> QED BY <2>1, AlterAll
<1> HIDE DEF altered
<1>3. CreateTables(altered, {"snapshots", "snapshot_items", "memory_health_reports"}, {}) = altered
  <2>1. {"snapshots", "snapshot_items", "memory_health_reports"} \in SUBSET Tables
    BY DEF Tables, ReviewTables
  <2> QED BY <2>1, <1>2, CreateNone
<1>4. NodeIndexes \cup {Index(t, {}) : t \in {"memory_graph_edges", "memory_promotions",
        "memory_reviews", "snapshots", "snapshot_items", "memory_health_reports"}} \in SUBSET Indexes
  <2>1. {"memory_graph_edges", "memory_promotions", "memory_reviews", "snapshots",
         "snapshot_items", "memory_health_reports"} \in SUBSET PlainlyIndexed
    BY DEF PlainlyIndexed, Tables, MemoryTables, ReviewTables
  <2> QED BY <2>1, NodeIndexesKnown, PlainIndexesKnown
<1>5. CompatReview(s) = altered
  BY <1>1, <1>2, <1>3, <1>4, IndexNone DEF CompatReview, altered
<1> QED BY <1>2, <1>5

(* The tables of runs, archive, team and sync.                             *)
LEMMA RestPart ==
  ASSUME NEW s, Prepared(s)
  PROVE  CompatTeam(CompatRuns(s)) = s
<1>1. RunTables \in SUBSET Tables /\ TeamTables \in SUBSET Tables
  BY DEF Tables
<1>2. RunTables \in SUBSET PlainlyIndexed
  BY DEF PlainlyIndexed, Tables, RunTables
<1>3. {"workspace_members", "sync_events", "conflict_records"} \in SUBSET PlainlyIndexed
  BY DEF PlainlyIndexed, Tables, TeamTables
<1>4. CompatRuns(s) = s
  BY <1>1, <1>2, CreateNone, PlainIndexesKnown, IndexNone DEF CompatRuns
<1>5. CompatTeam(s) = s
  BY <1>1, <1>3, CreateNone, PlainIndexesKnown, IndexNone DEF CompatTeam
<1> QED BY <1>4, <1>5

(* After the script, the compatibility migrations complete any schema.     *)
LEMMA CompatibleCompletes ==
  ASSUME NEW s, Prepared(s)
  PROVE  Compatible(s) = Current
<1> DEFINE memory == CompatMemory(s)
           review == CompatReview(memory)
<1>1. Prepared(memory) /\ memory.columns = s.columns \cup NodeColumns \cup LinkColumns
  BY MemoryPart
<1>2. Prepared(review) /\ review.columns = memory.columns \cup PromotionColumns
  BY <1>1, ReviewPart
<1>3. review.columns = Columns
  BY <1>1, <1>2 DEF Columns, Prepared, Shape
<1>4. review = Current
  BY <1>2, <1>3, Complete
<1>5. Compatible(s) = review
  BY <1>2, RestPart DEF Compatible
<1> QED BY <1>4, <1>5

(* The script leaves every table and index, and a schema that has them as  *)
(* it was; it cannot fail on the current one.                              *)
LEMMA ScriptPrepares ==
  /\ \A s \in Shape : Prepared(Scripted(s))
  /\ Scripted(Current) = Current
  /\ ~ScriptFails(Current)
<1>1. ASSUME NEW s \in Shape PROVE Prepared(Scripted(s))
  <2> DEFINE made == CreateTables(s, Tables, Columns)
  <2>1. made \in Shape /\ made.tables = Tables
    BY DEF CreateTables, Shape
  <2>2. made.indexes \cup Indexes = Indexes
    BY <2>1 DEF Shape
  <2>3. Scripted(s) = [made EXCEPT !.indexes = Indexes]
    BY <2>2 DEF Scripted
  <2> HIDE DEF made
  <2> QED BY <2>1, <2>3 DEF Prepared, Shape
<1>2. Scripted(Current) = Current
  <2>1. CreateTables(Current, Tables, Columns) = Current
    BY CurrentPrepared, CreateNone
  <2>2. Scripted(Current) = [Current EXCEPT !.indexes = Current.indexes \cup Indexes]
    BY <2>1 DEF Scripted
  <2> QED BY <2>2 DEF Current
<1>3. ~ScriptFails(Current)
  BY DEF ScriptFails, Current
<1> QED BY <1>1, <1>2, <1>3

-----------------------------------------------------------------------------
FileTyped ==
  /\ dbFile \in Database \cup {Torn}
  /\ dbMemory \in Database
  /\ dbAt \in {"closed", "writing", "script", "compatibility", "open", "failed"}
  /\ dbNext \in {"closed", "script", "compatibility", "open", "failed"}
  /\ everOpened \in BOOLEAN /\ cutShort \in BOOLEAN

\* Where the process goes on once nothing is being written.
Goes == IF dbAt = "writing" THEN dbNext ELSE dbAt

\* What a step of opening can rely on, while the file is written and after.
Staged ==
  /\ Goes = "compatibility" => Prepared(dbMemory.shape)
  /\ Goes = "open" => dbMemory.shape = Current
  /\ dbAt = "writing" /\ dbNext = "closed" => dbMemory.shape = Current
  /\ dbAt = "writing" => dbNext # "failed"

\* What is kept while no write was cut short.
Kept ==
  ~cutShort =>
    /\ dbFile # Torn
    /\ dbKept \subseteq dbFile.rows
    /\ dbAt \notin {"closed", "failed"} => dbFile.rows \subseteq dbMemory.rows
    /\ everOpened =>
         /\ dbFile.shape = Current
         /\ dbAt # "failed"
         /\ dbAt # "closed" => dbMemory.shape = Current

SchemaInv == FileTyped /\ Staged /\ Kept

(* A file without tables is a database. *)
LEMMA EmptyTyped == Empty \in Database
BY DEF Empty, Database, NoShape, Shape

(* Another schema for the database in memory, with the rows it has.        *)
LEMMA Reshaped ==
  ASSUME NEW db \in Database, NEW s \in Shape
  PROVE  /\ [db EXCEPT !.shape = s] \in Database
         /\ [db EXCEPT !.shape = s].shape = s
         /\ [db EXCEPT !.shape = s].rows = db.rows
BY DEF Database

(* Every step keeps the invariant.                                         *)
LEMMA FileStep ==
  ASSUME SchemaInv, SchemaNext
  PROVE  SchemaInv'
<1> USE DEF SchemaInv, FileTyped, Staged, Goes, Kept
<1>1. ASSUME Written PROVE SchemaInv'
  <2>1. FileTyped'
    BY <1>1 DEF Written
  <2>2. Staged'
    BY <1>1 DEF Written
  <2>3. ASSUME ~cutShort PROVE Kept'
    <3>1. dbMemory # Torn
      BY SchemaAssumption
    <3>2. CASE dbNext = "open"
      BY <1>1, <2>3, <3>1, <3>2 DEF Written
    <3>3. CASE dbNext # "open"
      BY <1>1, <2>3, <3>1, <3>3 DEF Written
    <3> QED BY <3>2, <3>3
  <2> QED BY <1>1, <2>1, <2>2, <2>3 DEF Written
<1>2. ASSUME OpenMemoryDatabase PROVE SchemaInv'
  <2>1. CASE dbFile = Torn
    BY <1>2, <2>1, EmptyTyped DEF OpenMemoryDatabase, Refuse
  <2>2. CASE dbFile # Torn
    BY <1>2, <2>2 DEF OpenMemoryDatabase, Persist
  <2> QED BY <2>1, <2>2
<1>3. ASSUME RunScript PROVE SchemaInv'
  <2>1. CASE ScriptFails(dbMemory.shape)
    <3>1. dbMemory.shape # Current
      BY <2>1, ScriptPrepares
    <3> QED BY <1>3, <2>1, <3>1, EmptyTyped DEF RunScript, Refuse
  <2>2. CASE ~ScriptFails(dbMemory.shape)
    <3> DEFINE s == Scripted(dbMemory.shape)
    <3>1. dbMemory.shape \in Shape
      BY DEF Database
    <3>2. Prepared(s) /\ s \in Shape
      BY <3>1, ScriptPrepares DEF Prepared
    <3>3. dbMemory.shape = Current => s = Current
      BY ScriptPrepares
    <3>4. /\ dbMemory' = [dbMemory EXCEPT !.shape = s]
          /\ dbAt = "script" /\ dbAt' = "writing" /\ dbNext' = "compatibility"
          /\ UNCHANGED <<dbFile, dbKept, everOpened, cutShort, dbStops>>
      BY <1>3, <2>2 DEF RunScript, Persist
    <3> HIDE DEF s
    <3>5. dbMemory' \in Database /\ dbMemory'.shape = s /\ dbMemory'.rows = dbMemory.rows
      BY <3>2, <3>4, Reshaped
    <3> QED BY <3>2, <3>3, <3>4, <3>5
  <2> QED BY <2>1, <2>2
<1>4. ASSUME ApplyCompatibilityMigrations PROVE SchemaInv'
  <2>1. Compatible(dbMemory.shape) = Current
    BY <1>4, CompatibleCompletes DEF ApplyCompatibilityMigrations
  <2>2. Current \in Shape
    BY CurrentPrepared DEF Prepared
  <2>3. dbMemory' = [dbMemory EXCEPT !.shape = Current]
    BY <1>4, <2>1 DEF ApplyCompatibilityMigrations
  <2>4. dbMemory' \in Database /\ dbMemory'.shape = Current /\ dbMemory'.rows = dbMemory.rows
    BY <2>2, <2>3, Reshaped
  <2> QED BY <1>4, <2>4 DEF ApplyCompatibilityMigrations, Persist
<1>5. ASSUME NEW r \in Record, RunStatement(r) PROVE SchemaInv'
  <2>1. dbMemory' = [dbMemory EXCEPT !.rows = dbMemory.rows \cup {r}]
    BY <1>5 DEF RunStatement
  <2>2. /\ dbMemory' \in Database /\ dbMemory'.shape = dbMemory.shape
        /\ dbMemory'.rows = dbMemory.rows \cup {r}
    BY <2>1 DEF Database
  <2>3. dbAt = "open" /\ dbAt' = "writing" /\ dbNext' = "open" /\ dbKept' = dbKept
    BY <1>5 DEF RunStatement, AfterRun, Persist
  <2> QED BY <1>5, <2>2, <2>3 DEF RunStatement
<1>6. ASSUME Close PROVE SchemaInv'
  BY <1>6 DEF Close, Persist
<1>7. ASSUME Stop PROVE SchemaInv'
  <2>1. CASE dbAt = "writing"
    <3>1. dbFile' \in {dbFile, Empty, Torn, dbMemory} /\ dbMemory' = Empty
      BY <1>7, <2>1 DEF Stop
    <3>2. FileTyped'
      BY <1>7, <3>1, EmptyTyped DEF Stop
    <3>3. ~cutShort' => ~cutShort /\ dbFile' \in {dbFile, dbMemory}
      BY <1>7, <2>1 DEF Stop
    <3>4. dbMemory # Torn
      BY SchemaAssumption
    <3>5. Kept'
      BY <1>7, <2>1, <3>3, <3>4 DEF Stop
    <3> QED BY <1>7, <3>2, <3>5 DEF Stop
  <2>2. CASE dbAt # "writing"
    BY <1>7, <2>2, EmptyTyped DEF Stop
  <2> QED BY <2>1, <2>2
<1> QED BY <1>1, <1>2, <1>3, <1>4, <1>5, <1>6, <1>7 DEF SchemaNext

(* The invariant holds of every file there may be, and is kept.            *)
LEMMA FileInvariant ==
  ASSUME NEW files \in SUBSET Database
  PROVE  SchemaSpec(files) => []SchemaInv
<1>1. SchemaInit(files) => SchemaInv
  <2> SUFFICES ASSUME SchemaInit(files) PROVE SchemaInv
    OBVIOUS
  <2>1. dbFile \in Database /\ dbFile # Torn
    BY SchemaAssumption DEF SchemaInit
  <2> QED BY <2>1, EmptyTyped DEF SchemaInit, SchemaInv, FileTyped, Staged, Goes, Kept
<1>2. SchemaInv /\ [SchemaNext]_schemaVars => SchemaInv'
  <2>1. SchemaInv /\ UNCHANGED schemaVars => SchemaInv'
    BY DEF schemaVars, SchemaInv, FileTyped, Staged, Goes, Kept
  <2> QED BY <2>1, FileStep
<1> QED BY <1>1, <1>2, PTL DEF SchemaSpec

(* A database of any earlier version that opens has the schema of this     *)
(* one, however often opening it was cut short (openMemoryDatabase).       *)
THEOREM OpensCurrent ==
  ASSUME NEW files \in SUBSET Database
  PROVE  SchemaSpec(files) => []OpenedIsCurrent
<1>1. SchemaInv => OpenedIsCurrent
  BY DEF SchemaInv, Staged, Goes, OpenedIsCurrent
<1> QED BY <1>1, FileInvariant, PTL

(* Unless a write of the file was cut short, a database this version has   *)
(* opened opens again with all it ever stored (SqliteDatabase.persist).    *)
THEOREM StoredSurvive ==
  ASSUME NEW files \in SUBSET Database
  PROVE  SchemaSpec(files) => []AcknowledgedSurvive
<1>1. SchemaInv => AcknowledgedSurvive
  BY DEF SchemaInv, Kept, AcknowledgedSurvive
<1> QED BY <1>1, FileInvariant, PTL

-----------------------------------------------------------------------------
(* Curation.  Flags of a model's reply and of a proposed candidate.        *)

CurationSpec == CurationInit(Reply \cup {NoReply}) /\ [][CurationNext]_curationVars

\* Flagged, it is for review and not approved; its flags tell what its
\* texts show.
SafeCandidate(made, given, setting) ==
  LET text == given.text \cup setting.text
  IN  /\ made.flags # {} => made.review /\ made.status # "approved"
      /\ FlagsTell(made.flags, text, SourceKindOf(given, setting))
      /\ made.flags = {} /\ made.type = "preference" =>
           /\ made.scope = "global" => "explicit" \in text
           /\ ~IsExternalSourceKind(SourceKindOf(given, setting))

(* Flags with those that a text's patterns give tell what the text shows.  *)
LEMMA TextRisks ==
  ASSUME NEW flags, NEW text, NEW kind, RiskFlagsForText(text, kind) \subseteq flags
  PROVE  FlagsTell(flags, text, kind)
<1>1. text \cap {"secret", "sensitive", "prompt_injection"} \subseteq flags
  BY DEF RiskFlagsForText
<1>2. ASSUME "orders" \in text, IsExternalSourceKind(kind) PROVE "external_instruction" \in flags
  <2>1. text \cap {"prompt_injection", "orders"} # {}
    BY <1>2
  <2> QED BY <1>2, <2>1, Zenon DEF RiskFlagsForText
<1> QED BY <1>1, <1>2 DEF FlagsTell

(* What applyDeterministicSafety makes of a candidate is safe.             *)
LEMMA SafetyFlags ==
  ASSUME NEW draft \in Draft, NEW setting \in Setting
  PROVE  SafeCandidate(ApplyDeterministicSafety(draft, setting), draft, setting)
<1>0. PICK made, text : made = ApplyDeterministicSafety(draft, setting) /\ text = draft.text \cup setting.text
  OBVIOUS
<1>1. PICK kind : kind = SourceKindOf(draft, setting) OBVIOUS
<1>2. PICK inferred \in BOOLEAN :
        inferred = (draft.type = "preference" /\ draft.scope = "global" /\ "explicit" \notin text)
  OBVIOUS
<1>3. PICK outside \in BOOLEAN : outside = (draft.type = "preference" /\ IsExternalSourceKind(kind))
  OBVIOUS
<1>4. PICK flags : flags = draft.flags \cup RiskFlagsForText(text, kind)
                    \cup {flag \in {"unverified"} : inferred \/ outside}
                    \cup {flag \in {"external_instruction"} : outside}
  OBVIOUS
<1>5. made = [draft EXCEPT !.flags = flags, !.review = @ \/ flags # {},
                    !.status = IF flags # {} /\ @ = "approved" THEN "candidate" ELSE @]
  BY <1>0, <1>1, <1>2, <1>3, <1>4, Zenon DEF ApplyDeterministicSafety
<1>6. PICK review, status : review \in BOOLEAN /\ review = (draft.review \/ flags # {})
        /\ status = IF flags # {} /\ draft.status = "approved" THEN "candidate" ELSE draft.status
  OBVIOUS
<1>7. made.flags = flags /\ made.review = review /\ made.status = status
      /\ made.type = draft.type /\ made.scope = draft.scope
  BY <1>5, <1>6 DEF Draft
<1>8. FlagsTell(flags, text, kind)
  BY <1>4, TextRisks
<1>9. flags # {} => review /\ status # "approved"
  BY <1>6
<1>10. flags = {} => ~inferred /\ ~outside
  <2>1. inferred \/ outside => "unverified" \in flags
    BY <1>4
  <2> QED BY <2>1
<1> QED BY <1>0, <1>1, <1>2, <1>3, <1>7, <1>8, <1>9, <1>10 DEF SafeCandidate

\* Flagged, it is for review; its flags tell what its text shows.
SafeLesson(made, given, setting) ==
  /\ made.flags # {} => made.review
  /\ FlagsTell(made.flags, given.text, setting.kind)

(* What is made of a lesson is safe. *)
LEMMA LessonFlags ==
  ASSUME NEW lesson \in ReasoningDraft, NEW setting,
         NEW made, made = SaferLesson(lesson, setting)
  PROVE  SafeLesson(made, lesson, setting)
<1>1. PICK kind : kind = IF setting.kind = "none" THEN "agent_run" ELSE setting.kind
  OBVIOUS
<1>2. PICK flags : flags = lesson.flags \cup RiskFlagsForText(lesson.text, kind)
  OBVIOUS
<1>3. made = [lesson EXCEPT !.flags = flags, !.review = @ \/ flags # {}]
  BY <1>1, <1>2, Zenon DEF SaferLesson
<1>4. made.flags = flags /\ made.review = (lesson.review \/ flags # {})
  BY <1>3 DEF ReasoningDraft
<1>5. FlagsTell(flags, lesson.text, kind)
  BY <1>2, TextRisks
<1>6. FlagsTell(flags, lesson.text, setting.kind)
  <2>1. IsExternalSourceKind(setting.kind) => kind = setting.kind
    BY <1>1 DEF IsExternalSourceKind
  <2> QED BY <1>5, <2>1 DEF FlagsTell
<1> QED BY <1>4, <1>6 DEF SafeLesson

\* The verdict is what validation made of the reply, or that it is invalid.
Curated ==
  /\ reply \in Reply \cup {NoReply}
  /\ verdict.is = "curator" => /\ reply.from = "curator" /\ ValidResponse(reply)
                               /\ verdict.of = CuratorResponse(reply)
  /\ verdict.is = "verifier" => /\ reply.from = "verifier" /\ ValidJudgement(reply.judgement)
                                /\ verdict.of = reply

\* A candidate keeps the risks of the text it was proposed with.
Card == [text : Wording, place : Origin, low : BOOLEAN, target : {"none", "protected"},
         flags : SUBSET RiskFlag, status : {"candidate", "duplicate", "conflicted", "stale"},
         duplicate : BOOLEAN, conflict : BOOLEAN, gone : BOOLEAN]

Carded ==
  /\ card \in Card \cup {NoCard}
  /\ card # NoCard =>
       RiskFlagsForText(proposed.text, CandidateSourceKindForPath(proposed.place)) \subseteq card.flags

(* A curator's reply that validates: all its items have the fields, and    *)
(* what is made of them is made of each.                                   *)
LEMMA CuratorMakes ==
  ASSUME NEW response \in Reply, response.from = "curator", ValidResponse(response)
  PROVE  /\ response.setting \in Setting
         /\ \A i \in DOMAIN response.candidates : response.candidates[i] \in Draft
         /\ \A i \in DOMAIN response.lessons : response.lessons[i] \in ReasoningDraft
         /\ CuratorResponse(response).candidates =
              [i \in DOMAIN response.candidates |->
                 ApplyDeterministicSafety(response.candidates[i], response.setting)]
         /\ CuratorResponse(response).lessons =
              [i \in DOMAIN response.lessons |-> SaferLesson(response.lessons[i], response.setting)]
<1>1. PICK drafts, lessons, setting :
        /\ drafts = response.candidates /\ lessons = response.lessons /\ setting = response.setting
  OBVIOUS
<1>2. setting \in Setting
  BY <1>1 DEF Reply
<1>3. /\ \A i \in DOMAIN drafts : i = 1 /\ drafts[1] \in Draft \cup {Malformed}
      /\ \A i \in DOMAIN lessons : i = 1 /\ lessons[1] \in ReasoningDraft \cup {Malformed}
  BY <1>1 DEF Reply
<1>4. /\ \A i \in DOMAIN drafts : drafts[i] # Malformed
      /\ \A i \in DOMAIN lessons : lessons[i] # Malformed
  BY <1>1 DEF ValidResponse, ValidCandidate, ValidLesson, HasFields
<1>5. PICK safe, safer :
        /\ safe = [i \in DOMAIN drafts |-> ApplyDeterministicSafety(drafts[i], setting)]
        /\ safer = [i \in DOMAIN lessons |-> SaferLesson(lessons[i], setting)]
  OBVIOUS
<1>6. CuratorResponse(response) = [response EXCEPT !.candidates = safe, !.lessons = safer]
  BY <1>1, <1>5, Zenon DEF CuratorResponse
<1>7. CuratorResponse(response).candidates = safe /\ CuratorResponse(response).lessons = safer
  BY <1>6 DEF Reply
<1> QED BY <1>1, <1>2, <1>3, <1>4, <1>5, <1>7

(* What is made of a reply that validates is safe. *)
LEMMA ReplySafe ==
  ASSUME Curated PROVE RepliesAreSafe
<1>1. CASE verdict.is = "curator"
  <2>1. /\ reply \in Reply /\ reply.from = "curator" /\ ValidResponse(reply)
        /\ verdict.of = CuratorResponse(reply)
    BY <1>1 DEF Curated, NoReply
  <2>2. /\ reply.setting \in Setting
        /\ \A i \in DOMAIN reply.candidates : reply.candidates[i] \in Draft
        /\ \A i \in DOMAIN reply.lessons : reply.lessons[i] \in ReasoningDraft
        /\ verdict.of.candidates =
              [i \in DOMAIN reply.candidates |-> ApplyDeterministicSafety(reply.candidates[i], reply.setting)]
        /\ verdict.of.lessons = [i \in DOMAIN reply.lessons |-> SaferLesson(reply.lessons[i], reply.setting)]
    BY <2>1, CuratorMakes
  <2>3. ASSUME NEW i \in DOMAIN verdict.of.candidates
        PROVE  SafeCandidate(verdict.of.candidates[i], reply.candidates[i], reply.setting)
    <3>1. reply.candidates[i] \in Draft
          /\ verdict.of.candidates[i] = ApplyDeterministicSafety(reply.candidates[i], reply.setting)
      BY <2>2
    <3> QED BY <2>2, <3>1, SafetyFlags
  <2>4. ASSUME NEW i \in DOMAIN verdict.of.lessons
        PROVE  SafeLesson(verdict.of.lessons[i], reply.lessons[i], reply.setting)
    <3>1. reply.lessons[i] \in ReasoningDraft
          /\ verdict.of.lessons[i] = SaferLesson(reply.lessons[i], reply.setting)
      BY <2>2
    <3> QED BY <3>1, LessonFlags
  <2> QED BY <1>1, <2>3, <2>4 DEF RepliesAreSafe, SafeCandidate, SafeLesson
<1>2. CASE verdict.is = "verifier"
  BY <1>2 DEF Curated, RepliesAreSafe, ValidJudgement
<1> QED BY <1>1, <1>2 DEF RepliesAreSafe

(* What a candidate is shown with holds the flags it is stored with.       *)
LEMMA CardKeeps ==
  ASSUME Carded, CandidateNext
  PROVE  Carded' /\ UNCHANGED <<reply, verdict>>
<1>1. ASSUME NEW text \in Wording, NEW given \in {{}, {"unverified"}}, NEW place \in Origin,
             NEW low \in BOOLEAN,
             NEW target \in {"none", "protected"}, NEW match \in {"candidate", "duplicate", "conflicted"},
             ProposeMemoryCandidate(text, given, place, low, target, match)
      PROVE  Carded' /\ UNCHANGED <<reply, verdict>>
  <2>1. PICK flags : flags = CandidateInputRiskFlags(given, text, place)
    OBVIOUS
  <2>2. flags \subseteq RiskFlag /\ RiskFlagsForText(text, CandidateSourceKindForPath(place)) \subseteq flags
    BY <2>1 DEF CandidateInputRiskFlags, RiskFlagsForText, RiskFlag
  <2>3. PICK duplicate \in BOOLEAN, conflict \in BOOLEAN :
          duplicate = (match = "duplicate") /\ conflict = (match = "conflicted")
    OBVIOUS
  <2>4. card' = [text |-> text, place |-> place, low |-> low, target |-> target, flags |-> flags,
                 status |-> match, duplicate |-> duplicate, conflict |-> conflict, gone |-> FALSE]
        /\ proposed' = [text |-> text, place |-> place]
    BY <1>1, <2>1, <2>3, Zenon DEF ProposeMemoryCandidate
  <2>5. card' \in Card /\ card'.flags = flags /\ proposed'.text = text /\ proposed'.place = place
    BY <2>2, <2>4 DEF Card
  <2> QED BY <1>1, <2>2, <2>5 DEF Carded, ProposeMemoryCandidate
<1>2. ASSUME NEW text \in Wording, NEW status \in {"candidate", "stale", "conflicted"}, NEW low \in BOOLEAN,
             NEW reason \in BOOLEAN, UpdateCandidate(text, status, low, reason)
      PROVE  Carded' /\ UNCHANGED <<reply, verdict>>
  <2>1. PICK old \in Card : old = card
    BY <1>2 DEF Carded, UpdateCandidate
  <2>2. PICK conflict \in BOOLEAN : conflict = (old.conflict \/ (status = "conflicted" /\ reason))
    BY Zenon
  <2>3. PICK new : new = [old EXCEPT !.text = text, !.status = status, !.low = low, !.conflict = conflict]
    OBVIOUS
  <2>4. new \in Card /\ new.flags = old.flags
    BY <2>3 DEF Card
  <2>5. card' = new
    BY <1>2, <2>1, <2>2, <2>3 DEF UpdateCandidate
  <2> QED BY <1>2, <2>1, <2>4, <2>5 DEF Carded, UpdateCandidate
<1>3. ASSUME DeleteCandidateSource
      PROVE  Carded' /\ UNCHANGED <<reply, verdict>>
  <2>1. PICK old \in Card : old = card
    BY <1>3 DEF Carded, DeleteCandidateSource
  <2>2. [old EXCEPT !.gone = TRUE] \in Card /\ [old EXCEPT !.gone = TRUE].flags = old.flags
    BY DEF Card
  <2> QED BY <1>3, <2>1, <2>2 DEF Carded, DeleteCandidateSource
<1> QED BY <1>1, <1>2, <1>3 DEF CandidateNext

(* A risk in a field that the detectors read is flagged: a model's         *)
(* candidate or lesson, past validation, and a proposed candidate, whose   *)
(* flags no edit takes away.  It does not cover a candidate's trigger, a   *)
(* lesson's lists and an edit's text, which no detector reads              *)
(* (applyDeterministicSafety, reasoningCandidateText, updateCandidate).    *)
THEOREM Flagged == CurationSpec => []ReadRisksAreFlagged
<1>1. CurationInit(Reply \cup {NoReply}) => Curated /\ Carded
  BY DEF CurationInit, Curated, Carded
<1>2. Curated /\ Carded /\ [CurationNext]_curationVars => (Curated /\ Carded)'
  <2> SUFFICES ASSUME Curated, Carded, [CurationNext]_curationVars PROVE (Curated /\ Carded)'
    OBVIOUS
  <2>1. CASE UNCHANGED <<reply, verdict>>
    <3>1. Curated'
      BY <2>1 DEF Curated
    <3>2. CASE CandidateNext
      BY <3>1, <3>2, CardKeeps
    <3>3. CASE UNCHANGED curationVars \/ Validate
      BY <3>1, <3>3 DEF curationVars, Carded, Validate
    <3> QED BY <3>2, <3>3 DEF CurationNext
  <2>2. CASE Validate
    <3>1. Carded'
      BY <2>2 DEF Validate, Carded
    <3>2. reply \in Reply /\ reply' = reply
      BY <2>2 DEF Validate, Curated
    <3>3. \/ /\ reply.from = "curator" /\ ValidResponse(reply)
             /\ verdict' = [is |-> "curator", of |-> CuratorResponse(reply)]
          \/ /\ reply.from # "curator" /\ ValidJudgement(reply.judgement)
             /\ verdict' = [is |-> "verifier", of |-> reply]
          \/ verdict' = [is |-> "invalid", of |-> NoReply]
      BY <2>2 DEF Validate
    <3>4. reply.from \in {"curator", "verifier"}
      BY <3>2 DEF Reply
    <3>5. Curated'
      BY <3>2, <3>3, <3>4 DEF Curated
    <3> QED BY <3>1, <3>5
  <2> QED BY <2>1, <2>2, CardKeeps DEF CurationNext, curationVars
<1>3. Carded => RisksStayShown
  <2> SUFFICES ASSUME Carded, card # NoCard PROVE card.flags \subseteq MemoryCandidateFromNode(card).flags
    BY DEF Carded, RisksStayShown
  <2>1. PICK flags : flags = RiskFlagsForCandidate(card)
    OBVIOUS
  <2>2. card.flags \subseteq flags
    BY <2>1 DEF RiskFlagsForCandidate
  <2>3. [card EXCEPT !.flags = flags].flags = flags
    BY DEF Carded, Card
  <2> QED BY <2>1, <2>2, <2>3 DEF MemoryCandidateFromNode
<1> QED BY <1>1, <1>2, <1>3, ReplySafe, PTL DEF CurationSpec, ReadRisksAreFlagged

-----------------------------------------------------------------------------
(* The archive.  An entry's reference is the text it was given, and so is  *)
(* a candidate's source the text it was extracted from, for archives of    *)
(* any size, any texts and any number of requests.                         *)

ArchiveSpec == ArchiveInit /\ [][ArchiveNext]_archiveVars

Writing == {"guide", "file", "entry"}
Reading == {"model", "next", "review"}

-----------------------------------------------------------------------------
(* The inductive invariant. *)

Job == [at : {"idle"} \cup Writing \cup Reading, paper : Paper \cup {NoPaper},
        text : Speech \cup {NoPaper}, blob : Speech \cup {NoPaper}, left : Int,
        disturbed : BOOLEAN]

Quote == [text : Speech \cup {NoPaper}, blob : Speech \cup {NoPaper}, disturbed : BOOLEAN]

Rows ==
  /\ shelf \in [Paper -> Speech \cup {NoPaper}]
  /\ DOMAIN entries = Paper
  /\ quotes \in Seq(Quote)
  /\ desk \in [Archivist -> Job]

(* A request that stores an entry has a text without a secret, and no      *)
(* other request is about the same entry.                                  *)
WritersAlone ==
  \A a \in Archivist : desk[a].at \in Writing =>
    /\ desk[a].paper \in Paper /\ entries[desk[a].paper] = NoPaper
    /\ desk[a].text \notin Secret
    /\ desk[a].at = "entry" => desk[a].blob = desk[a].text
    /\ \A b \in Archivist : b # a => desk[b].paper # desk[a].paper

(* A request that makes candidates has the text of the file, and its       *)
(* source, unless the file was changed.                                    *)
ReadersQuote ==
  \A a \in Archivist : desk[a].at \in Reading =>
    /\ desk[a].paper \in Paper
    /\ ~ desk[a].disturbed =>
         /\ desk[a].text = shelf[desk[a].paper]
         /\ desk[a].at = "review" => desk[a].blob = desk[a].text

ArchiveInv ==
  Rows /\ WritersAlone /\ ReadersQuote /\ ArchiveIsVerbatim /\ CandidatesQuoteTheirSource

-----------------------------------------------------------------------------
(* Each action keeps the invariant. *)

(* Candidates that quote their source. *)
GoodQuotes(q) ==
  q \in Seq(Quote) /\ \A i \in DOMAIN q : ~ q[i].disturbed => q[i].blob = q[i].text

LEMMA QuotesStay ==
  ASSUME ArchiveInv, UNCHANGED quotes
  PROVE  GoodQuotes(quotes')
BY DEF ArchiveInv, Rows, CandidatesQuoteTheirSource, GoodQuotes

(* The handlers that only move a request on: r is what becomes of it. *)
LEMMA MoveKeeps ==
  ASSUME ArchiveInv, NEW a \in Archivist, NEW r \in Job, SetDesk(a, r),
         UNCHANGED <<shelf, entries>>, GoodQuotes(quotes'),
         r.at \in Writing =>
           /\ r.paper \in Paper /\ entries[r.paper] = NoPaper
           /\ r.text \notin Secret
           /\ r.at = "entry" => r.blob = r.text
           /\ \A b \in Archivist : b # a => desk[b].paper # r.paper,
         \A b \in Archivist : b # a /\ desk[b].at \in Writing => desk[b].paper # r.paper,
         r.at \in Reading =>
           /\ r.paper \in Paper
           /\ ~ r.disturbed => r.text = shelf[r.paper] /\ (r.at = "review" => r.blob = r.text)
  PROVE  ArchiveInv'
<1>1. /\ desk' \in [Archivist -> Job] /\ desk'[a] = r
      /\ \A b \in Archivist : b # a => desk'[b] = desk[b]
  BY DEF SetDesk, ArchiveInv, Rows
<1>2. Rows' /\ ArchiveIsVerbatim' /\ CandidatesQuoteTheirSource'
  BY <1>1 DEF ArchiveInv, Rows, ArchiveIsVerbatim, CandidatesQuoteTheirSource, GoodQuotes
<1>3. WritersAlone'
  <2> SUFFICES ASSUME NEW b \in Archivist, desk'[b].at \in Writing
               PROVE  /\ desk'[b].paper \in Paper /\ entries'[desk'[b].paper] = NoPaper
                      /\ desk'[b].text \notin Secret
                      /\ desk'[b].at = "entry" => desk'[b].blob = desk'[b].text
                      /\ \A c \in Archivist : c # b => desk'[c].paper # desk'[b].paper
    BY DEF WritersAlone
  <2>1. CASE b = a
    BY <2>1, <1>1
  <2>2. CASE b # a
    BY <2>2, <1>1 DEF ArchiveInv, WritersAlone
  <2> QED BY <2>1, <2>2
<1>4. ReadersQuote'
  BY <1>1 DEF ArchiveInv, ReadersQuote
<1> QED BY <1>2, <1>3, <1>4 DEF ArchiveInv

(* A request that ends, keeping what it made. *)
LEMMA NoWorkIsJob == NoWork \in Job
BY DEF NoWork, Job, Writing, Reading

(* writeArchiveEntry, up to the storing of the file. *)
LEMMA WriteKeeps ==
  ASSUME ArchiveInv, NEW a \in Archivist, NEW p \in Paper, NEW t \in Speech,
         WriteArchiveEntry(a, p, t)
  PROVE  ArchiveInv'
<1>1. PICK stage \in {"guide", "file"} :
        SetDesk(a, [NoWork EXCEPT !.at = stage, !.paper = p, !.text = t])
  <2>1. (IF guide = NoPaper THEN "guide" ELSE "file") \in {"guide", "file"}
    OBVIOUS
  <2> QED BY <2>1 DEF WriteArchiveEntry
<1>2. PICK r : r = [NoWork EXCEPT !.at = stage, !.paper = p, !.text = t]
  OBVIOUS
<1>3. SetDesk(a, r)
  BY <1>1, <1>2
<1>4. /\ r \in Job /\ r.at \in Writing /\ r.at \notin Reading /\ r.at # "entry"
      /\ r.paper = p /\ r.text = t
  BY <1>2, NoWorkIsJob DEF Job, Writing, Reading
<1>5. /\ t \notin Secret /\ entries[p] = NoPaper /\ UNCHANGED <<shelf, entries, quotes>>
      /\ \A b \in Archivist : desk[b].paper # p
  BY DEF WriteArchiveEntry
<1> QED BY <1>3, <1>4, <1>5, MoveKeeps, QuotesStay

(* ensureArchiveReadme. *)
LEMMA GuideKeeps ==
  ASSUME ArchiveInv, NEW a \in Archivist, EnsureArchiveReadme(a)
  PROVE  ArchiveInv'
<1>1. desk[a] \in Job /\ desk[a].at = "guide" /\ UNCHANGED <<shelf, entries, quotes>>
  BY DEF EnsureArchiveReadme, ArchiveInv, Rows
<1>2. PICK r : r = [desk[a] EXCEPT !.at = "file"]
  OBVIOUS
<1>3. SetDesk(a, r)
  BY <1>2 DEF EnsureArchiveReadme
<1>4. /\ desk[a].paper \in Paper /\ entries[desk[a].paper] = NoPaper /\ desk[a].text \notin Secret
      /\ \A b \in Archivist : b # a => desk[b].paper # desk[a].paper
  BY <1>1 DEF ArchiveInv, WritersAlone, Writing
<1>5. /\ r \in Job /\ r.at \notin Reading /\ r.at # "entry"
      /\ r.paper = desk[a].paper /\ r.text = desk[a].text
  BY <1>1, <1>2 DEF Job, Writing, Reading
<1> QED BY <1>1, <1>3, <1>4, <1>5, MoveKeeps, QuotesStay

(* The file of an entry is stored. *)
LEMMA StoreKeeps ==
  ASSUME ArchiveInv, NEW a \in Archivist, StoreArchiveFile(a)
  PROVE  ArchiveInv'
<1>1. /\ desk[a] \in Job /\ desk[a].at = "file" /\ UNCHANGED <<entries, quotes>>
      /\ shelf' = [shelf EXCEPT ![desk[a].paper] = desk[a].text]
      /\ desk' = [desk EXCEPT ![a] = [desk[a] EXCEPT !.at = "entry", !.blob = desk[a].text]]
  BY DEF StoreArchiveFile, SetDesk, ArchiveInv, Rows
<1>2. PICK r \in Job : /\ r = [desk[a] EXCEPT !.at = "entry", !.blob = desk[a].text]
                       /\ r.at = "entry" /\ r.paper = desk[a].paper /\ r.text = desk[a].text
                       /\ r.blob = desk[a].text
  <2>1. PICK r : r = [desk[a] EXCEPT !.at = "entry", !.blob = desk[a].text]
    OBVIOUS
  <2>2. /\ r \in Job /\ r.at = "entry" /\ r.paper = desk[a].paper /\ r.text = desk[a].text
        /\ r.blob = desk[a].text
    BY <1>1, <2>1 DEF Job, Writing
  <2> QED BY <2>1, <2>2
<1>3. /\ desk' \in [Archivist -> Job] /\ desk'[a] = r
      /\ \A b \in Archivist : b # a => desk'[b] = desk[b]
  BY <1>1, <1>2 DEF ArchiveInv, Rows
<1>4. /\ desk[a].paper \in Paper /\ entries[desk[a].paper] = NoPaper /\ desk[a].text \notin Secret
      /\ \A b \in Archivist : b # a => desk[b].paper # desk[a].paper
  BY <1>1 DEF ArchiveInv, WritersAlone, Writing
<1>5. /\ shelf' \in [Paper -> Speech \cup {NoPaper}]
      /\ \A p \in Paper : p # desk[a].paper => shelf'[p] = shelf[p]
  <2>1. desk[a].text \in Speech \cup {NoPaper}
    BY <1>1 DEF Job
  <2> QED BY <1>1, <1>4, <2>1 DEF ArchiveInv, Rows
<1>6. Rows' /\ ArchiveIsVerbatim' /\ CandidatesQuoteTheirSource'
  BY <1>1, <1>3, <1>5 DEF ArchiveInv, Rows, ArchiveIsVerbatim, CandidatesQuoteTheirSource
<1>7. WritersAlone'
  <2> SUFFICES ASSUME NEW b \in Archivist, desk'[b].at \in Writing
               PROVE  /\ desk'[b].paper \in Paper /\ entries'[desk'[b].paper] = NoPaper
                      /\ desk'[b].text \notin Secret
                      /\ desk'[b].at = "entry" => desk'[b].blob = desk'[b].text
                      /\ \A c \in Archivist : c # b => desk'[c].paper # desk'[b].paper
    BY DEF WritersAlone
  <2>1. CASE b = a
    BY <2>1, <1>1, <1>2, <1>3, <1>4
  <2>2. CASE b # a
    BY <2>2, <1>1, <1>2, <1>3 DEF ArchiveInv, WritersAlone
  <2> QED BY <2>1, <2>2
<1>8. ReadersQuote'
  <2> SUFFICES ASSUME NEW b \in Archivist, desk'[b].at \in Reading
               PROVE  /\ desk'[b].paper \in Paper
                      /\ ~ desk'[b].disturbed =>
                           /\ desk'[b].text = shelf'[desk'[b].paper]
                           /\ desk'[b].at = "review" => desk'[b].blob = desk'[b].text
    BY DEF ReadersQuote
  <2>1. b # a
    BY <1>2, <1>3 DEF Reading
  <2> QED BY <2>1, <1>3, <1>4, <1>5 DEF ArchiveInv, ReadersQuote
<1> QED BY <1>6, <1>7, <1>8 DEF ArchiveInv

(* insertArchiveEntry: the row, and the end of the request. *)
LEMMA InsertKeeps ==
  ASSUME ArchiveInv, NEW a \in Archivist, InsertArchiveEntry(a)
  PROVE  ArchiveInv'
<1>1. /\ desk[a].at = "entry" /\ UNCHANGED <<shelf, quotes>>
      /\ entries' = [entries EXCEPT ![desk[a].paper] = [blob |-> desk[a].blob, given |-> desk[a].text]]
      /\ desk' = [desk EXCEPT ![a] = NoWork]
  BY DEF InsertArchiveEntry, RecordedBlob, SetDesk
<1>2. /\ desk[a].paper \in Paper /\ desk[a].text \notin Secret /\ desk[a].blob = desk[a].text
      /\ \A b \in Archivist : b # a => desk[b].paper # desk[a].paper
  BY <1>1 DEF ArchiveInv, WritersAlone, Writing
<1>3. /\ desk' \in [Archivist -> Job] /\ desk'[a].at = "idle"
      /\ \A b \in Archivist : b # a => desk'[b] = desk[b]
      /\ desk'[a].paper = NoPaper
  <2>1. NoWork.at = "idle" /\ NoWork.paper = NoPaper
    BY DEF NoWork
  <2> QED BY <1>1, <2>1, NoWorkIsJob DEF ArchiveInv, Rows
<1>4. /\ DOMAIN entries' = Paper
      /\ entries'[desk[a].paper].blob = desk[a].text /\ entries'[desk[a].paper].given = desk[a].text
      /\ \A p \in Paper : p # desk[a].paper => entries'[p] = entries[p]
  BY <1>1, <1>2 DEF ArchiveInv, Rows
<1>5. Rows' /\ CandidatesQuoteTheirSource'
  BY <1>1, <1>3, <1>4 DEF ArchiveInv, Rows, CandidatesQuoteTheirSource
<1>6. ArchiveIsVerbatim'
  <2> SUFFICES ASSUME NEW p \in Paper, entries'[p] # NoPaper
               PROVE  entries'[p].blob = entries'[p].given /\ entries'[p].blob \notin Secret
    BY DEF ArchiveIsVerbatim
  <2>1. CASE p = desk[a].paper
    BY <2>1, <1>2, <1>4
  <2>2. CASE p # desk[a].paper
    BY <2>2, <1>4 DEF ArchiveInv, ArchiveIsVerbatim
  <2> QED BY <2>1, <2>2
<1>7. WritersAlone'
  <2> SUFFICES ASSUME NEW b \in Archivist, desk'[b].at \in Writing
               PROVE  /\ desk'[b].paper \in Paper /\ entries'[desk'[b].paper] = NoPaper
                      /\ desk'[b].text \notin Secret
                      /\ desk'[b].at = "entry" => desk'[b].blob = desk'[b].text
                      /\ \A c \in Archivist : c # b => desk'[c].paper # desk'[b].paper
    BY DEF WritersAlone
  <2>1. b # a
    BY <1>3 DEF Writing
  <2>2. /\ desk[b].at \in Writing /\ desk[b].paper \in Paper /\ desk[b].paper # desk[a].paper
        /\ entries[desk[b].paper] = NoPaper /\ desk[b].text \notin Secret
        /\ desk[b].at = "entry" => desk[b].blob = desk[b].text
        /\ \A c \in Archivist : c # b => desk[c].paper # desk[b].paper
    BY <2>1, <1>2, <1>3 DEF ArchiveInv, WritersAlone
  <2>3. desk[b].paper # NoPaper
    BY <2>2, ArchiveAssumption DEF ArchiveAssumption
  <2> QED BY <2>1, <2>2, <2>3, <1>3, <1>4
<1>8. ReadersQuote'
  BY <1>1, <1>3 DEF ArchiveInv, ReadersQuote, Reading
<1> QED BY <1>5, <1>6, <1>7, <1>8 DEF ArchiveInv

(* readArchive, and the memories the model finds. *)
LEMMA ReadKeeps ==
  ASSUME ArchiveInv, NEW a \in Archivist, NEW p \in Paper, ReadArchive(a, p)
  PROVE  ArchiveInv'
<1>1. /\ entries[p] # NoPaper /\ UNCHANGED <<shelf, entries, quotes>>
      /\ SetDesk(a, [NoWork EXCEPT !.at = "model", !.paper = p, !.text = shelf[p]])
      /\ shelf[p] \in Speech \cup {NoPaper}
  BY DEF ReadArchive, ArchiveInv, Rows
<1>2. PICK r : r = [NoWork EXCEPT !.at = "model", !.paper = p, !.text = shelf[p]]
  OBVIOUS
<1>3. SetDesk(a, r)
  BY <1>1, <1>2
<1>4. /\ r \in Job /\ r.at \notin Writing /\ r.at # "review" /\ r.paper = p /\ r.text = shelf[p]
  BY <1>1, <1>2, NoWorkIsJob DEF Job, Writing, Reading
<1>5. \A b \in Archivist : b # a /\ desk[b].at \in Writing => desk[b].paper # r.paper
  BY <1>1, <1>4 DEF ArchiveInv, WritersAlone
<1> QED BY <1>1, <1>3, <1>4, <1>5, MoveKeeps, QuotesStay

(* A request that makes candidates goes on, with any count of them left. *)
LEMMA ReaderMoves ==
  ASSUME ArchiveInv, NEW a \in Archivist, NEW r \in Job, SetDesk(a, r),
         UNCHANGED <<shelf, entries>>, GoodQuotes(quotes'), desk[a].at \in Reading, r.at \in Reading,
         r.paper = desk[a].paper, r.text = desk[a].text, r.disturbed = desk[a].disturbed,
         r.at = "review" => r.blob = shelf[r.paper]
  PROVE  ArchiveInv'
<1>1. r.at \notin Writing /\ r.paper \in Paper
  BY DEF Writing, Reading, ArchiveInv, ReadersQuote
<1>2. \A b \in Archivist : b # a /\ desk[b].at \in Writing => desk[b].paper # r.paper
  BY DEF ArchiveInv, WritersAlone
<1>3. ~ r.disturbed => r.text = shelf[r.paper] /\ (r.at = "review" => r.blob = r.text)
  BY DEF ArchiveInv, ReadersQuote
<1> QED BY <1>1, <1>2, <1>3, MoveKeeps

(* A request is answered, or fails. *)
LEMMA EndKeeps ==
  ASSUME ArchiveInv, NEW a \in Archivist, SetDesk(a, NoWork), UNCHANGED <<shelf, entries, quotes>>
  PROVE  ArchiveInv'
<1>1. NoWork.paper = NoPaper /\ NoWork.at \notin Writing /\ NoWork.at \notin Reading
  BY DEF NoWork, Writing, Reading
<1>2. \A b \in Archivist : b # a /\ desk[b].at \in Writing => desk[b].paper # NoWork.paper
  BY <1>1, ArchiveAssumption DEF ArchiveAssumption, ArchiveInv, WritersAlone
<1> QED BY <1>1, <1>2, NoWorkIsJob, MoveKeeps, QuotesStay

(* The model's answer, and the look at a candidate's file. *)
LEMMA ExtractKeeps ==
  ASSUME ArchiveInv, NEW a \in Archivist, NEW pieces \in Nat,
         Extracted(a, pieces) \/ LookUpSource(a)
  PROVE  ArchiveInv'
<1>1. /\ desk[a] \in Job /\ desk[a].at \in {"model", "next"} /\ UNCHANGED <<shelf, entries, quotes>>
      /\ desk[a].paper \in Paper /\ shelf[desk[a].paper] \in Speech \cup {NoPaper}
  BY DEF Extracted, LookUpSource, ArchiveInv, Rows, ReadersQuote, Reading
<1>2. CASE Extracted(a, pieces)
  <2>1. PICK r : r = [desk[a] EXCEPT !.at = "next", !.left = pieces]
    OBVIOUS
  <2>2. SetDesk(a, r)
    BY <1>2, <2>1 DEF Extracted
  <2>3. /\ r \in Job /\ r.at = "next" /\ r.paper = desk[a].paper /\ r.text = desk[a].text
        /\ r.disturbed = desk[a].disturbed
    <3>1. pieces \in Int
      OBVIOUS
    <3>2. /\ r.at = "next" /\ r.paper = desk[a].paper /\ r.text = desk[a].text
          /\ r.blob = desk[a].blob /\ r.left = pieces /\ r.disturbed = desk[a].disturbed
          /\ r = [at |-> r.at, paper |-> r.paper, text |-> r.text, blob |-> r.blob,
                  left |-> r.left, disturbed |-> r.disturbed]
      BY <1>1, <2>1 DEF Job
    <3> QED BY <1>1, <3>1, <3>2 DEF Job, Reading
  <2>4. desk[a].at \in Reading /\ r.at \in Reading /\ r.at # "review"
    BY <1>1, <2>3 DEF Reading
  <2> QED BY <1>1, <2>2, <2>3, <2>4, ReaderMoves, QuotesStay
<1>3. CASE LookUpSource(a) /\ (desk[a].left = 0 \/ shelf[desk[a].paper] = NoPaper)
  BY <1>1, <1>3, EndKeeps DEF LookUpSource
<1>4. CASE LookUpSource(a) /\ ~ (desk[a].left = 0 \/ shelf[desk[a].paper] = NoPaper)
  <2>1. PICK r : r = [desk[a] EXCEPT !.at = "review", !.blob = shelf[desk[a].paper]]
    OBVIOUS
  <2>2. SetDesk(a, r)
    BY <1>4, <2>1 DEF LookUpSource, SourceBlob
  <2>3. /\ r \in Job /\ r.at = "review" /\ r.paper = desk[a].paper /\ r.text = desk[a].text
        /\ r.disturbed = desk[a].disturbed /\ r.blob = shelf[desk[a].paper]
    BY <1>1, <2>1 DEF Job, Reading
  <2>4. desk[a].at \in Reading /\ r.at \in Reading
    BY <1>1, <2>3 DEF Reading
  <2> QED BY <1>1, <2>2, <2>3, <2>4, ReaderMoves, QuotesStay
<1> QED BY <1>2, <1>3, <1>4

(* A candidate is inserted with its source. *)
LEMMA QuoteKeeps ==
  ASSUME ArchiveInv, NEW a \in Archivist, InsertQuote(a)
  PROVE  ArchiveInv'
<1>1. /\ desk[a] \in Job /\ desk[a].at = "review" /\ UNCHANGED <<shelf, entries>>
      /\ ~ desk[a].disturbed => desk[a].blob = desk[a].text
      /\ quotes \in Seq(Quote)
  BY DEF InsertQuote, ArchiveInv, Rows, ReadersQuote, Reading
<1>2. PICK q : q = [text |-> desk[a].text, blob |-> desk[a].blob, disturbed |-> desk[a].disturbed]
  OBVIOUS
<1>3. q \in Quote /\ (~ q.disturbed => q.blob = q.text) /\ quotes' = Append(quotes, q)
  BY <1>1, <1>2 DEF Job, Quote, InsertQuote
<1>4. GoodQuotes(quotes')
  <2>1. GoodQuotes(quotes)
    BY DEF ArchiveInv, Rows, CandidatesQuoteTheirSource, GoodQuotes
  <2> QED BY <1>3, <2>1 DEF GoodQuotes
<1>5. PICK r : r = [desk[a] EXCEPT !.at = "next", !.left = desk[a].left - 1]
  OBVIOUS
<1>6. SetDesk(a, r)
  BY <1>5 DEF InsertQuote
<1>7. /\ r \in Job /\ r.at = "next" /\ r.paper = desk[a].paper /\ r.text = desk[a].text
      /\ r.disturbed = desk[a].disturbed
  <2>1. desk[a].left - 1 \in Int
    BY <1>1 DEF Job
  <2>2. /\ r.at = "next" /\ r.paper = desk[a].paper /\ r.text = desk[a].text
        /\ r.blob = desk[a].blob /\ r.left = desk[a].left - 1 /\ r.disturbed = desk[a].disturbed
        /\ r = [at |-> r.at, paper |-> r.paper, text |-> r.text, blob |-> r.blob,
                  left |-> r.left, disturbed |-> r.disturbed]
    BY <1>1, <1>5 DEF Job
  <2> QED BY <1>1, <2>1, <2>2 DEF Job, Reading
<1>8. desk[a].at \in Reading /\ r.at \in Reading /\ r.at # "review"
  BY <1>1, <1>7 DEF Reading
<1> QED BY <1>1, <1>4, <1>6, <1>7, <1>8, ReaderMoves

(* Others change the file of an entry: those who read it are marked. *)
LEMMA RewriteKeeps ==
  ASSUME ArchiveInv, NEW p \in Paper, NEW text \in Speech \cup {NoPaper}, RewritePaper(p, text)
  PROVE  ArchiveInv'
<1>1. /\ shelf' = [shelf EXCEPT ![p] = text] /\ desk' = Noticed(p) /\ UNCHANGED <<entries, quotes>>
  BY DEF RewritePaper
<1>2. /\ shelf' \in [Paper -> Speech \cup {NoPaper}]
      /\ \A x \in Paper : x # p => shelf'[x] = shelf[x]
  BY <1>1 DEF ArchiveInv, Rows
<1>3. \A a \in Archivist :
        /\ desk'[a] \in Job
        /\ desk'[a].at = desk[a].at /\ desk'[a].paper = desk[a].paper
        /\ desk'[a].text = desk[a].text /\ desk'[a].blob = desk[a].blob
        /\ ~ desk'[a].disturbed => ~ desk[a].disturbed /\ ~ (desk[a].at \in Reading /\ desk[a].paper = p)
  <2> SUFFICES ASSUME NEW a \in Archivist
               PROVE  /\ desk'[a] \in Job
                      /\ desk'[a].at = desk[a].at /\ desk'[a].paper = desk[a].paper
                      /\ desk'[a].text = desk[a].text /\ desk'[a].blob = desk[a].blob
                      /\ ~ desk'[a].disturbed =>
                           ~ desk[a].disturbed /\ ~ (desk[a].at \in Reading /\ desk[a].paper = p)
    OBVIOUS
  <2>1. desk[a] \in Job
    BY DEF ArchiveInv, Rows
  <2>2. PICK x \in BOOLEAN : x = (desk[a].disturbed \/ (desk[a].at \in Reading /\ desk[a].paper = p))
    OBVIOUS
  <2>3. desk'[a] = [desk[a] EXCEPT !.disturbed = x]
    BY <1>1, <2>2 DEF Noticed, Reading
  <2>4. ~ x => ~ desk[a].disturbed /\ ~ (desk[a].at \in Reading /\ desk[a].paper = p)
    BY <2>2
  <2> QED BY <2>1, <2>3, <2>4 DEF Job
<1>4. desk' \in [Archivist -> Job]
  BY <1>1, <1>3 DEF Noticed
<1>5. Rows' /\ ArchiveIsVerbatim' /\ CandidatesQuoteTheirSource'
  BY <1>1, <1>2, <1>4 DEF ArchiveInv, Rows, ArchiveIsVerbatim, CandidatesQuoteTheirSource
<1>6. WritersAlone'
  BY <1>1, <1>3 DEF ArchiveInv, WritersAlone
<1>7. ReadersQuote'
  <2> SUFFICES ASSUME NEW b \in Archivist, desk'[b].at \in Reading
               PROVE  /\ desk'[b].paper \in Paper
                      /\ ~ desk'[b].disturbed =>
                           /\ desk'[b].text = shelf'[desk'[b].paper]
                           /\ desk'[b].at = "review" => desk'[b].blob = desk'[b].text
    BY DEF ReadersQuote
  <2> QED BY <1>2, <1>3 DEF ArchiveInv, ReadersQuote
<1> QED BY <1>5, <1>6, <1>7 DEF ArchiveInv

(* The process stops, and every request with it. *)
LEMMA StopKeeps ==
  ASSUME ArchiveInv, StopArchive
  PROVE  ArchiveInv'
<1>1. desk' = [a \in Archivist |-> NoWork] /\ UNCHANGED <<shelf, entries, quotes>>
  BY DEF StopArchive
<1>2. NoWork.at \notin Writing /\ NoWork.at \notin Reading
  BY DEF NoWork, Writing, Reading
<1>3. Rows' /\ ArchiveIsVerbatim' /\ CandidatesQuoteTheirSource'
  BY <1>1, NoWorkIsJob DEF ArchiveInv, Rows, ArchiveIsVerbatim, CandidatesQuoteTheirSource
<1> QED BY <1>1, <1>2, <1>3 DEF ArchiveInv, WritersAlone, ReadersQuote

(* Steps that change nothing the invariant is about: a guide, a stutter. *)
LEMMA StillKeeps ==
  ASSUME ArchiveInv, UNCHANGED <<shelf, entries, quotes, desk>>
  PROVE  ArchiveInv'
BY DEF ArchiveInv, Rows, WritersAlone, ReadersQuote, ArchiveIsVerbatim, CandidatesQuoteTheirSource

(* Every step keeps the invariant. *)
LEMMA ArchiveStepKeeps ==
  ASSUME ArchiveInv, [ArchiveNext]_archiveVars
  PROVE  ArchiveInv'
<1>1. CASE UNCHANGED archiveVars
  BY <1>1, StillKeeps DEF archiveVars
<1>2. CASE \E t \in Speech : WriteGuide(t)
  BY <1>2, StillKeeps DEF WriteGuide
<1>3. CASE StopArchive
  BY <1>3, StopKeeps
<1>4. CASE \E p \in Paper, t \in Speech \cup {NoPaper} : RewritePaper(p, t)
  BY <1>4, RewriteKeeps
<1>5. ASSUME NEW a \in Archivist, NEW p \in Paper,
             ReadArchive(a, p) \/ \E t \in Speech : WriteArchiveEntry(a, p, t)
      PROVE  ArchiveInv'
  BY <1>5, ReadKeeps, WriteKeeps
<1>6. ASSUME NEW a \in Archivist,
             EnsureArchiveReadme(a) \/ StoreArchiveFile(a) \/ InsertArchiveEntry(a)
             \/ InsertQuote(a)
      PROVE  ArchiveInv'
  BY <1>6, GuideKeeps, StoreKeeps, InsertKeeps, QuoteKeeps
<1>7. ASSUME NEW a \in Archivist,
             LookUpSource(a) \/ \E pieces \in Nat : Extracted(a, pieces)
      PROVE  ArchiveInv'
  BY <1>7, ExtractKeeps
<1>9. ASSUME NEW a \in Archivist, \E pieces \in 0..(MaxPieces - Len(quotes)) : Extracted(a, pieces)
      PROVE  \E pieces \in Nat : Extracted(a, pieces)
  BY <1>9
<1> QED BY <1>1, <1>2, <1>3, <1>4, <1>5, <1>6, <1>7, <1>9 DEF ArchiveNext

(* The invariant holds at the start. *)
LEMMA InitHolds == ArchiveInit => ArchiveInv
<1> SUFFICES ASSUME ArchiveInit PROVE ArchiveInv
  OBVIOUS
<1>1. NoWork.at \notin Writing /\ NoWork.at \notin Reading
  BY DEF NoWork, Writing, Reading
<1>2. Rows /\ ArchiveIsVerbatim /\ CandidatesQuoteTheirSource
  BY NoWorkIsJob DEF ArchiveInit, Rows, ArchiveIsVerbatim, CandidatesQuoteTheirSource
<1> QED BY <1>1, <1>2 DEF ArchiveInit, ArchiveInv, WritersAlone, ReadersQuote

(* The invariant holds in every state of an archive. *)
LEMMA InvHolds == ArchiveSpec => []ArchiveInv
BY InitHolds, ArchiveStepKeeps, PTL DEF ArchiveSpec

-----------------------------------------------------------------------------
(* What an entry of an archive refers to is what it was given, without a   *)
(* secret, in every state (writeArchiveEntry, insertArchiveEntry).         *)
THEOREM Verbatim == ArchiveSpec => []ArchiveIsVerbatim
<1>1. ArchiveInv => ArchiveIsVerbatim
  BY DEF ArchiveInv
<1> QED BY <1>1, InvHolds, PTL

(* What a candidate gives as its source is what it was extracted from,     *)
(* unless the file was changed meanwhile                                   *)
(* (extractArchiveToMemoryCandidates).                                     *)
THEOREM Quoted == ArchiveSpec => []CandidatesQuoteTheirSource
<1>1. ArchiveInv => CandidatesQuoteTheirSource
  BY DEF ArchiveInv
<1> QED BY <1>1, InvHolds, PTL

==============================================================================
