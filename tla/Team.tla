-------------------------------- MODULE Team --------------------------------
(***************************************************************************)
(* The team of one workspace: its members' roles, who may do what, and the *)
(* clients that append to a file by reading it and writing it back.        *)
(* Files are one for each treatment of paths: "/scratch/..." and           *)
(* "/runs/..." (scratch), those the default globs protect (guarded) and    *)
(* all others (open).  How a write is stored is FileStore's matter; here   *)
(* it is one step.                                                         *)
(***************************************************************************)
EXTENDS Naturals, Sequences

CONSTANTS
  Handle,      \* user handles
  Unknown,     \* the handle of requests that name no actor ("agent:unknown")
  Client,      \* appending clients
  Note,        \* lines appended
  NoRole, NoFile,
  MaxWrites    \* bound: writes and deletions

VARIABLES
  secured,     \* options.authRequired
  provider,    \* what the authorization provider answers, if there is one
  members,     \* workspace_members: handle -> role or NoRole
  texts,       \* file -> sequence of lines or NoFile
  appends,     \* client -> its append under way
  writes
teamVars == <<secured, provider, members, texts, appends, writes>>

ASSUME TeamAssumption == Unknown \in Handle /\ MaxWrites \in Nat

File == {"scratch", "guarded", "open"}
Role == {"owner", "admin", "editor", "agent", "viewer"}

PermissionAction ==
  {"workspace.read", "file.read", "file.write", "file.delete", "memory.recall",
   "memory.raw.read", "memory.promote", "memory.review", "snapshot.create",
   "snapshot.rollback", "audit.read", "sync.pull", "sync.push"}

\* defaultRolePermissions
Permissions ==
  [role \in Role |->
     CASE role = "owner"  -> PermissionAction
       [] role = "admin"  -> PermissionAction \ {"snapshot.rollback"}
       [] role = "editor" -> PermissionAction \ {"snapshot.rollback", "memory.raw.read",
                                                 "memory.review", "audit.read"}
       [] role = "agent"  -> {"workspace.read", "file.read", "file.write", "file.delete",
                              "memory.recall", "memory.promote", "sync.pull", "sync.push"}
       [] OTHER           -> {"workspace.read", "file.read", "memory.recall", "sync.pull"}]

Changing == {"file.write", "file.delete"}

RoleCan(role, action, file) ==
  \/ role = "owner"
  \/ /\ action \in Permissions[role]
     /\ action \in Changing /\ file = "guarded" => role = "admin"
     /\ action \in Changing /\ role = "agent" => file = "scratch"
     /\ action = "file.read" /\ role = "viewer" => file # "guarded"

Team == {h \in Handle : members[h] # NoRole}
Managers == {h \in Team : members[h] \in {"owner", "admin"}}

\* ensureAuthorized; a provider that answers with a promise leaves it to the roles.
Authorized(actor, action, file) ==
  \/ ~secured
  \/ provider = "allows"
  \/ /\ provider # "denies"
     /\ \/ Team = {} /\ action \in {"workspace.read", "snapshot.create"}
        \/ actor \in Team /\ RoleCan(members[actor], action, file)

\* ensureCanManageMembers
CanManage(actor) == ~secured \/ Team = {} \/ actor \in Managers

-----------------------------------------------------------------------------
\* The handle is trimmed when it is stored: one with spaces around it is
\* stored all the same, though the answer is that it was not found.
AddWorkspaceMember(actor, handle, role) ==
  /\ CanManage(actor)
  /\ members' = [members EXCEPT ![handle] = role]
  /\ UNCHANGED <<secured, provider, texts, appends, writes>>

SetWorkspaceMemberRole(actor, handle, role) ==
  /\ CanManage(actor)
  /\ handle \in Team
  /\ members' = [members EXCEPT ![handle] = role]
  /\ UNCHANGED <<secured, provider, texts, appends, writes>>

\* A write or deletion refused is one that changes nothing.
MayChange(actor, action, file, flag) ==
  /\ Authorized(actor, action, file)
  /\ file = "guarded" => flag

Change(file, text) ==
  /\ writes < MaxWrites /\ writes' = writes + 1
  /\ texts' = [texts EXCEPT ![file] = text]

WriteText(actor, file, flag, line) ==
  /\ MayChange(actor, "file.write", file, flag)
  /\ Change(file, <<line>>)
  /\ UNCHANGED <<secured, provider, members, appends>>

DeleteText(actor, file, flag) ==
  /\ MayChange(actor, "file.delete", file, flag)
  /\ texts[file] # NoFile
  /\ Change(file, NoFile)
  /\ UNCHANGED <<secured, provider, members, appends>>

(* How clients append.  The shell and the MCP server are in the server's   *)
(* process: they read without naming their actor and take any failure for  *)
(* a missing file.  The CLI and the SDK read over the API, as themselves,  *)
(* and take only a 404 for one.                                            *)
Kind == {"shell", "remote"}

NoAppend == [at |-> "idle", actor |-> Unknown, kind |-> "shell", file |-> "open",
             read |-> <<>>, seen |-> NoFile]

Reader(kind, actor) == IF kind = "shell" THEN Unknown ELSE actor

\* In error: every client takes a refusal for a missing file.
GoesOnAnyhow(kind) == kind \in Kind

\* Whether an append goes on after its read was refused.
GoesOn(kind) == kind = "shell"

ReadForAppend(c, actor, kind, file) ==
  LET allowed == Authorized(Reader(kind, actor), "file.read", file)
  IN  /\ appends[c].at = "idle"
      /\ allowed \/ GoesOn(kind)
      /\ appends' = [appends EXCEPT ![c] =
           [at |-> "read", actor |-> actor, kind |-> kind, file |-> file,
            read |-> IF allowed /\ texts[file] # NoFile THEN texts[file] ELSE <<>>,
            seen |-> texts[file]]]
      /\ UNCHANGED <<secured, provider, members, texts, writes>>

WriteAppend(c, flag, line) ==
  LET a == appends[c]
  IN  /\ a.at = "read"
      /\ MayChange(a.actor, "file.write", a.file, flag)
      /\ Change(a.file, Append(a.read, line))
      /\ appends' = [appends EXCEPT ![c] = NoAppend]
      /\ UNCHANGED <<secured, provider, members>>

RefuseAppend(c, flag) ==
  /\ appends[c].at = "read"
  /\ ~MayChange(appends[c].actor, "file.write", appends[c].file, flag)
  /\ appends' = [appends EXCEPT ![c] = NoAppend]
  /\ UNCHANGED <<secured, provider, members, texts, writes>>

TeamInit ==
  /\ secured \in BOOLEAN
  /\ provider \in {"none", "allows", "denies"}
  /\ members = [h \in Handle |-> NoRole]
  /\ texts = [f \in File |-> NoFile]
  /\ appends = [c \in Client |-> NoAppend]
  /\ writes = 0

TeamNext ==
  \/ \E actor, handle \in Handle, role \in Role :
       AddWorkspaceMember(actor, handle, role) \/ SetWorkspaceMemberRole(actor, handle, role)
  \/ \E actor \in Handle, file \in File, flag \in BOOLEAN :
       (\E line \in Note : WriteText(actor, file, flag, line)) \/ DeleteText(actor, file, flag)
  \/ \E c \in Client, actor \in Handle, kind \in Kind, file \in File :
       ReadForAppend(c, actor, kind, file)
  \/ \E c \in Client, flag \in BOOLEAN :
       RefuseAppend(c, flag) \/ \E line \in Note : WriteAppend(c, flag, line)

TeamTypeOK ==
  /\ secured \in BOOLEAN /\ provider \in {"none", "allows", "denies"}
  /\ members \in [Handle -> Role \cup {NoRole}]
  /\ \A f \in File : texts[f] \in Seq(Note) \cup {NoFile}
  /\ \A c \in Client :
       /\ appends[c].at \in {"idle", "read"} /\ appends[c].kind \in Kind
       /\ appends[c].actor \in Handle /\ appends[c].file \in File
       /\ appends[c].read \in Seq(Note)
  /\ writes \in 0..MaxWrites

-----------------------------------------------------------------------------
\* Roles are ordered: whatever a member may do in a secured team, one of a
\* higher role may do too, so that no promotion takes a right away
\* (defaultRolePermissions with the exceptions of roleCan).
RolesAreOrdered ==
  LET rank == [viewer |-> 1, agent |-> 2, editor |-> 3, admin |-> 4, owner |-> 5]
  IN  \A g, h \in Team : rank[members[g]] <= rank[members[h]] =>
        \A action \in PermissionAction, file \in File :
          Authorized(g, action, file) => Authorized(h, action, file)

\* The append of c ends and is stored.
Appended(c) == appends[c].at = "read" /\ appends'[c].at = "idle" /\ writes' # writes

\* A file that held something when the append read it, and that nobody
\* touched since, keeps it and gains the line.
Adds(a) ==
  texts[a.file] = a.seen /\ a.seen # NoFile =>
    \E line \in Note : texts'[a.file] = Append(a.seen, line)

\* An append adds to a file: one nobody else touched meanwhile keeps what it
\* held ("Append to a VeriFS file without bypassing write policy", the MCP tool
\* verifs_file_append, and the append of the virtual bash).
AppendsKeepText ==
  [][\A c \in Client : Appended(c) => Adds(appends[c])]_teamVars

\* So it is for the CLI and the SDK, however roles are given and taken
\* between the read and the write, because they go on after a 404 alone
\* (readExistingContent, readFileIfPresent), and for every client where no
\* read is refused.  What others write meanwhile is lost to any of them.
RemoteAppendsKeepText ==
  [][\A c \in Client :
       Appended(c) /\ (appends[c].kind = "remote" \/ ~secured) => Adds(appends[c])]_teamVars
=============================================================================
