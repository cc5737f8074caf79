------------------------------- MODULE Mount -------------------------------
(***************************************************************************)
(* A mounted workspace: the FUSE handlers of apps/mountd over the file     *)
(* operations of packages/mount-core, which call the VeriFS API for every  *)
(* listing, read, upload and deletion.                                     *)
(*                                                                         *)
(* The daemon is one Node process.  A handler runs without interruption    *)
(* from one call of the API to the next; an action is that much code, and  *)
(* a call of the API takes effect in one action (what it does inside is    *)
(* the subject of FileStore).  The kernel may have several requests in     *)
(* flight; requests on one descriptor come after its open was answered     *)
(* and before its release.                                                 *)
(***************************************************************************)
EXTENDS Naturals, Sequences, SequencesExt, FiniteSets

CONSTANTS
  Path,         \* workspace paths, as sequences of names
  Folder,       \* paths a client may ask to be made a directory
  Protected,    \* paths a protected-path glob matches
  Query,        \* the control files /.verifs/*.query
  Byte, Zero,   \* bytes a client writes; the byte that fills gaps
  MaxSize,      \* bound on the size of a buffer that write and ftruncate leave
  MaxOffset,    \* bound on the positions and sizes a client names
  MaxOps,       \* bound on requests in flight together
  MaxFd,        \* bound on descriptors
  MaxRequests,  \* bound on requests per behaviour
  MaxEvents,    \* bound on stops of the daemon and changes by other clients
  NoFile, NoHandle, NoCall

Text == Seq(Byte \cup {Zero})
Fd == 1..MaxFd
Op == 1..MaxOps

ASSUME MountAssumption ==
  /\ Path \cup Folder \subseteq Seq(STRING) \ {<<>>}
  /\ Protected \subseteq Path
  /\ Path \cap Query = {}
  /\ {MaxSize, MaxOffset, MaxOps, MaxFd, MaxRequests, MaxEvents} \subseteq Nat
  /\ NoFile \notin Text
  /\ NoHandle \notin [path : Path \cup Query, buffer : Text, dirty : BOOLEAN,
                      append : BOOLEAN, writing : BOOLEAN]

VARIABLES
  mode, allow,  \* --read-only or --read-write; --allow-protected-write
  file,         \* the files of the workspace
  handle,       \* the daemon's table of open handles
  nextFd,       \* its next descriptor
  dirs,         \* transientDirs of the mount core
  asked,        \* control query file -> the query written last
  shown,        \* control query file -> the query its results answer
  call,         \* request -> what it asks for
  at,           \* request -> the API call it awaits
  got,          \* request -> the text it read or is about to store
  told,         \* what the last step answered to a flush or a release
  saved,        \* history: handle -> the text the workspace holds through it
  raced,        \* history: handle -> was it written while a commit was under way?
  kept,         \* history: renames whose two paths nobody else has changed
  used, events

options == <<mode, allow>>
session == <<handle, nextFd, dirs, asked, shown>>
request == <<call, at, got>>
history == <<saved, raced>>
vars == <<options, file, session, request, history, kept, told, used, events>>

Handle ==
  [path : Path \cup Query, buffer : Text, dirty : BOOLEAN, append : BOOLEAN, writing : BOOLEAN]

(* The calls of a request that suspends. *)
Call ==
  [kind : {"view", "unlink"}, path : Path] \cup
  [kind : {"mkdir", "rmdir"}, path : Folder] \cup
  [kind : {"open"}, path : Path, append : BOOLEAN] \cup
  [kind : {"rename"}, path : Path, to : Path] \cup
  [kind : {"truncate"}, path : Path, size : Nat] \cup
  [kind : {"append"}, path : Path, bytes : Text] \cup
  [kind : {"flush", "release"}, path : Path \cup Query, fd : Fd]

Awaits == {"idle", "list", "read", "open", "upload", "stored", "delete", "recall"}

(* applyWrite: the gap before the chunk is filled with zeroes.             *)
ApplyWrite(buffer, chunk, offset) ==
  LET size == IF Len(buffer) >= offset + Len(chunk) THEN Len(buffer) ELSE offset + Len(chunk) IN
  [i \in 1..size |-> IF i \in offset + 1 .. offset + Len(chunk) THEN chunk[i - offset]
                     ELSE IF i <= Len(buffer) THEN buffer[i] ELSE Zero]

(* resizeBuffer, and the same lines of truncate. *)
Resize(buffer, size) == [i \in 1..size |-> IF i <= Len(buffer) THEN buffer[i] ELSE Zero]

-----------------------------------------------------------------------------
(* What the mount shows of the workspace. *)

Files == {p \in Path : file[p] # NoFile}

(* Variant: a directory made below another one is not seen as its child.   *)
DirectoryExistsByFilesOnly(d) ==
  d = <<>> \/ d \in dirs \/ \E p \in Files : IsStrictPrefix(d, p)

DirectoryExists(d) ==
  d = <<>> \/ d \in dirs \/ \E p \in Files \cup dirs : IsStrictPrefix(d, p)

Stat(p) ==
  IF p \in Files THEN "file" ELSE IF DirectoryExists(p) THEN "directory" ELSE "missing"

(* list: the names addChildEntry finds one level below a directory.        *)
Children(d) == {p[Len(d) + 1] : p \in {q \in Files \cup dirs : IsStrictPrefix(d, q)}}

List(d) ==
  IF d \in Files /\ ~ DirectoryExists(d) THEN {} ELSE Children(d)

(* The API refuses a protected path, and a path that is a folder of        *)
(* another file or lies below one: the copy in the workspace directory     *)
(* cannot be written.                                                      *)
Denied(p) == p \in Protected /\ ~ allow
Blocked(p) == \E q \in Files : IsStrictPrefix(p, q) \/ IsStrictPrefix(q, p)

-----------------------------------------------------------------------------
Init ==
  /\ mode \in {"read-only", "read-write"}
  /\ allow \in (IF mode = "read-only" THEN {FALSE} ELSE BOOLEAN)
  /\ \E p \in Path, b \in Byte : file = [q \in Path |-> IF q = p THEN <<b>> ELSE NoFile]
  /\ handle = [fd \in Fd |-> NoHandle]
  /\ nextFd = 1
  /\ dirs = {}
  /\ asked = [k \in Query |-> <<>>]
  /\ shown = [k \in Query |-> <<>>]
  /\ call = [o \in Op |-> NoCall]
  /\ at = [o \in Op |-> "idle"]
  /\ got = [o \in Op |-> <<>>]
  /\ saved = [fd \in Fd |-> <<>>]
  /\ raced = [fd \in Fd |-> FALSE]
  /\ told = "none"
  /\ kept = {}
  /\ used = 0 /\ events = 0

(* A request arrives; it takes the first free slot. *)
Arrives(o) ==
  /\ at[o] = "idle" /\ \A u \in 1 .. o - 1 : at[u] # "idle"
  /\ used < MaxRequests
  /\ used' = used + 1

Suspend(o, c, label) ==
  /\ call' = [call EXCEPT ![o] = c]
  /\ at' = [at EXCEPT ![o] = label]

(* The handler calls back and ends. *)
Reply(o) ==
  /\ at' = [at EXCEPT ![o] = "idle"]
  /\ call' = [call EXCEPT ![o] = NoCall]
  /\ got' = [got EXCEPT ![o] = <<>>]

Goto(o, label) ==
  /\ at' = [at EXCEPT ![o] = label]
  /\ UNCHANGED call

(* ensureNoDirtyHandle. *)
DirtyHandleOn(p) == \E fd \in Fd : handle[fd] # NoHandle /\ handle[fd].path = p /\ handle[fd].dirty

(* The kernel still uses a descriptor: open, and not being released.       *)
Held(fd) ==
  /\ handle[fd] # NoHandle
  /\ \A o \in Op : ~ (at[o] # "idle" /\ call[o].kind = "release" /\ call[o].fd = fd)

Committing(fd) ==
  \E o \in Op : at[o] # "idle" /\ call[o].kind \in {"flush", "release"} /\ call[o].fd = fd

(* Descriptors are left for one more open than those under way.  The       *)
(* program numbers them without end.                                       *)
Opening == {o \in Op : at[o] # "idle" /\ call[o].kind \in {"open", "view"}}
FdLeft == nextFd + Cardinality(Opening) \in Fd

(* handles.set(nextFd++, ...).  What the handle starts from counts as      *)
(* saved; a new file has nothing saved.                                    *)
NewHandle(h) ==
  /\ nextFd \in Fd
  /\ handle' = [handle EXCEPT ![nextFd] = h]
  /\ saved' = [saved EXCEPT ![nextFd] = h.buffer]
  /\ raced' = [raced EXCEPT ![nextFd] = FALSE]
  /\ nextFd' = nextFd + 1
  /\ UNCHANGED <<dirs, asked, shown>>

-----------------------------------------------------------------------------
(* open *)

(* A read-only mount opens only the query files for writing; a path with a *)
(* dirty handle is busy.                                                   *)
OpenRefused(o, p) ==
  /\ Arrives(o)
  /\ (mode = "read-only" /\ p \notin Query) \/ DirtyHandleOn(p)
  /\ Reply(o)
  /\ UNCHANGED <<options, file, session, history, kept, events>>

(* With O_TRUNC nothing is read.  The kernel truncates the file itself     *)
(* before it opens it, unless the mount asks for the flag.                 *)
OpenTruncated(o, p, append) ==
  /\ Arrives(o) /\ FdLeft
  /\ (mode = "read-write" \/ p \in Query) /\ ~ DirtyHandleOn(p)
  /\ NewHandle([path |-> p, buffer |-> <<>>, dirty |-> FALSE, append |-> append, writing |-> TRUE])
  /\ Reply(o)
  /\ UNCHANGED <<options, file, kept, events>>

(* A query file is read without a call of the API. *)
OpenQuery(o, k, append) ==
  /\ Arrives(o) /\ FdLeft
  /\ ~ DirtyHandleOn(k)
  /\ NewHandle([path |-> k, buffer |-> asked[k], dirty |-> FALSE, append |-> append,
                writing |-> TRUE])
  /\ Reply(o)
  /\ UNCHANGED <<options, file, kept, events>>

OpenForWriting(o, p, append) ==
  /\ Arrives(o)
  /\ mode = "read-write" /\ ~ DirtyHandleOn(p) /\ FdLeft
  /\ Suspend(o, [kind |-> "open", path |-> p, append |-> append], "read")
  /\ UNCHANGED <<options, file, session, got, history, kept, events>>

(* The handle is made when the text has come, whatever happened since.     *)
OpenFinish(o) ==
  /\ at[o] = "open"
  /\ NewHandle([path |-> call[o].path, buffer |-> got[o], dirty |-> FALSE,
                append |-> call[o].append, writing |-> TRUE])
  /\ Reply(o)
  /\ UNCHANGED <<options, file, kept, used, events>>

(* Opening for reading only asks whether the path exists. *)
OpenForReading(o, p) ==
  /\ Arrives(o) /\ FdLeft
  /\ Suspend(o, [kind |-> "view", path |-> p], "list")
  /\ UNCHANGED <<options, file, session, got, history, kept, events>>

View(o) ==
  /\ at[o] = "list" /\ call[o].kind = "view"
  /\ \/ /\ Stat(call[o].path) # "missing"
        /\ NewHandle([path |-> call[o].path, buffer |-> <<>>, dirty |-> FALSE,
                      append |-> FALSE, writing |-> FALSE])
        /\ Reply(o)
     \/ /\ Reply(o)
        /\ UNCHANGED <<session, history>>
  /\ UNCHANGED <<options, file, kept, used, events>>

(* create: the file exists for this handle only until it is committed.     *)
Create(o, p) ==
  /\ Arrives(o) /\ FdLeft
  /\ mode = "read-write" /\ ~ DirtyHandleOn(p)
  /\ NewHandle([path |-> p, buffer |-> <<>>, dirty |-> TRUE, append |-> FALSE, writing |-> TRUE])
  /\ Reply(o)
  /\ UNCHANGED <<options, file, kept, events>>

-----------------------------------------------------------------------------
(* write, ftruncate, flush, fsync and release *)

(* Both change the buffer only.  History: the handle has raced when a      *)
(* commit of it is under way.                                              *)
SetBuffer(fd, buffer) ==
  /\ Len(buffer) <= MaxSize
  /\ handle' = [handle EXCEPT ![fd].buffer = buffer, ![fd].dirty = TRUE]
  /\ raced' = [raced EXCEPT ![fd] = @ \/ Committing(fd)]
  /\ UNCHANGED <<nextFd, dirs, asked, shown, saved>>

Write(o, fd, chunk, position) ==
  LET h == handle[fd] IN
  /\ Arrives(o) /\ Held(fd)
  /\ h.writing
  /\ SetBuffer(fd, ApplyWrite(h.buffer, chunk, IF h.append THEN Len(h.buffer) ELSE position))
  /\ Reply(o)
  /\ UNCHANGED <<options, file, kept, events>>

Ftruncate(o, fd, size) ==
  /\ Arrives(o) /\ Held(fd)
  /\ handle[fd].writing
  /\ SetBuffer(fd, Resize(handle[fd].buffer, size))
  /\ Reply(o)
  /\ UNCHANGED <<options, file, kept, events>>

(* EBADF: the handle was not opened for writing. *)
BadHandle(o, fd) ==
  /\ Arrives(o) /\ Held(fd)
  /\ ~ handle[fd].writing
  /\ Reply(o)
  /\ UNCHANGED <<options, file, session, history, kept, events>>

(* release deletes the handle. *)
Closed(kind, fd) == IF kind = "release" THEN [handle EXCEPT ![fd] = NoHandle] ELSE handle

(* release comes when no other request on the descriptor is left.          *)
MayCommit(kind, fd) == Held(fd) /\ (kind = "release" => ~ Committing(fd))

(* commitHandle with nothing to commit. *)
CommitNothing(o, kind, fd) ==
  /\ Arrives(o) /\ MayCommit(kind, fd)
  /\ ~ (handle[fd].writing /\ handle[fd].dirty)
  /\ handle' = Closed(kind, fd)
  /\ Reply(o)
  /\ UNCHANGED <<options, file, nextFd, dirs, asked, shown, history, kept, events>>

(* Variant: the handle is marked clean before its text is stored.          *)
CommitCleansFirst(o, kind, fd) ==
  LET p == handle[fd].path IN
  /\ Arrives(o) /\ MayCommit(kind, fd)
  /\ handle[fd].writing /\ handle[fd].dirty
  /\ Suspend(o, [kind |-> kind, path |-> p, fd |-> fd],
             IF p \in Query THEN "recall" ELSE "upload")
  /\ got' = [got EXCEPT ![o] = handle[fd].buffer]
  /\ asked' = [k \in Query |-> IF k = p THEN handle[fd].buffer ELSE asked[k]]
  /\ handle' = [handle EXCEPT ![fd].dirty = FALSE]
  /\ UNCHANGED <<options, file, nextFd, dirs, shown, history, kept, events>>

(* commitHandle: the buffer goes to the mount core.  A query is noted      *)
(* before the recall is awaited.                                           *)
Commit(o, kind, fd) ==
  LET p == handle[fd].path IN
  /\ Arrives(o) /\ MayCommit(kind, fd)
  /\ handle[fd].writing /\ handle[fd].dirty
  /\ Suspend(o, [kind |-> kind, path |-> p, fd |-> fd],
             IF p \in Query THEN "recall" ELSE "upload")
  /\ got' = [got EXCEPT ![o] = handle[fd].buffer]
  /\ asked' = [k \in Query |-> IF k = p THEN handle[fd].buffer ELSE asked[k]]
  /\ UNCHANGED <<options, file, handle, nextFd, dirs, shown, history, kept, events>>

-----------------------------------------------------------------------------
(* The operations of the mount core that change the workspace or the       *)
(* transient directories.                                                  *)

(* A read-only mount, or a path in the reserved namespace. *)
Refuse(o, p) ==
  /\ Arrives(o)
  /\ mode = "read-only" \/ p \in Query
  /\ Reply(o)
  /\ UNCHANGED <<options, file, session, history, kept, events>>

Begin(o, c, label) ==
  /\ Arrives(o)
  /\ mode = "read-write"
  /\ Suspend(o, c, label)
  /\ UNCHANGED <<options, file, session, got, history, kept, events>>

Unlink(o, p) == Begin(o, [kind |-> "unlink", path |-> p], "delete")
Mkdir(o, d) == Begin(o, [kind |-> "mkdir", path |-> d], "list")
Rmdir(o, d) == Begin(o, [kind |-> "rmdir", path |-> d], "list")
Truncate(o, p, size) == Begin(o, [kind |-> "truncate", path |-> p, size |-> size], "read")
AppendFile(o, p, bytes) == Begin(o, [kind |-> "append", path |-> p, bytes |-> bytes], "read")

(* rename(2) of a file to itself never reaches the daemon. *)
Rename(o, p, q) ==
  /\ p # q
  /\ Begin(o, [kind |-> "rename", path |-> p, to |-> q], "read")

(* mkdir and rmdir decide on the listing they awaited. *)
ChangeFolder(o) ==
  LET d == call[o].path IN
  /\ at[o] = "list" /\ call[o].kind \in {"mkdir", "rmdir"}
  /\ \/ /\ call[o].kind = "mkdir" /\ d \notin Files
        /\ dirs' = dirs \cup {d}
        /\ Reply(o)
     \/ /\ call[o].kind = "rmdir" /\ d \in dirs
        /\ ~ \E p \in Files \cup dirs : IsStrictPrefix(d, p)
        /\ dirs' = dirs \ {d}
        /\ Reply(o)
     \/ /\ Reply(o)
        /\ UNCHANGED dirs
  /\ UNCHANGED <<options, file, handle, nextFd, asked, shown, history, kept, used, events>>

(* The text that will be stored, from the text that was read.              *)
Wanted(c, text) ==
  CASE c.kind = "truncate" -> Resize(text, c.size)
    [] c.kind = "append" -> text \o c.bytes
    [] OTHER -> text

(* Variant: what is read is not checked for being there. *)
ReadAnything(o) ==
  LET p == call[o].path IN
  /\ at[o] = "read"
  /\ call[o].kind \in {"open", "rename"}
  /\ got' = [got EXCEPT ![o] = file[p]]
  /\ kept' = IF call[o].kind = "rename" THEN kept \cup {o} ELSE kept
  /\ Goto(o, IF call[o].kind = "open" THEN "open" ELSE "upload")
  /\ UNCHANGED <<options, file, session, history, used, events>>

(* Variant: rename takes the file away before its text is stored elsewhere. *)
ReadAndRemove(o) ==
  LET p == call[o].path IN
  /\ at[o] = "read"
  /\ p \in Files /\ ~ DirectoryExists(p)
  /\ got' = [got EXCEPT ![o] = Wanted(call[o], file[p])]
  /\ kept' = IF call[o].kind = "rename" THEN kept \cup {o} ELSE kept
  /\ file' = IF call[o].kind = "rename" THEN [file EXCEPT ![p] = NoFile] ELSE file
  /\ Goto(o, IF call[o].kind = "open" THEN "open" ELSE "upload")
  /\ UNCHANGED <<options, session, history, used, events>>

(* read: refused for a directory; a missing file is an error the callers   *)
(* do not take for ENOENT, so append does not create the file either.      *)
ReadText(o) ==
  LET p == call[o].path IN
  /\ at[o] = "read"
  /\ \/ /\ p \in Files /\ ~ DirectoryExists(p)
        /\ got' = [got EXCEPT ![o] = Wanted(call[o], file[p])]
        /\ kept' = IF call[o].kind = "rename" THEN kept \cup {o} ELSE kept
        /\ Goto(o, IF call[o].kind = "open" THEN "open" ELSE "upload")
     \/ /\ Reply(o)
        /\ UNCHANGED kept
  /\ UNCHANGED <<options, file, session, history, used, events>>

(* History: a rename is no longer kept once someone else changes a path of it. *)
Untouched(o, p) == {u \in kept : u = o \/ p \notin {call[u].path, call[u].to}}

Target(c) == IF c.kind = "rename" THEN c.to ELSE c.path

(* Variant: a release answers success when its commit failed.              *)
ReleaseNeverFails(o, value) ==
  /\ Reply(o)
  /\ told' = IF call[o].kind = "release" THEN "ok" ELSE IF call[o].kind = "flush" THEN value ELSE "none"
  /\ handle' = IF call[o].kind = "release" THEN [handle EXCEPT ![call[o].fd] = NoHandle] ELSE handle

(* The request ends; release drops its handle in any case. *)
EndWith(o, value) ==
  /\ Reply(o)
  /\ told' = IF call[o].kind \in {"flush", "release"} THEN value ELSE "none"
  /\ handle' = IF call[o].kind = "release" THEN [handle EXCEPT ![call[o].fd] = NoHandle] ELSE handle

(* Variant: an error is thrown to nobody. *)
FailureUnanswered(o) == UNCHANGED <<call, at, got, handle, told>>

Fail(o) == EndWith(o, "error")

(* History: what was stored through the handle of a commit. *)
SavedBy(o) ==
  IF call[o].kind \in {"flush", "release"} THEN [saved EXCEPT ![call[o].fd] = got[o]] ELSE saved

(* writeBytes: the upload, then the audit record of it.  A failure of      *)
(* either is an error to the caller, though the text is stored when only   *)
(* the audit failed.                                                       *)
Upload(o) ==
  LET p == Target(call[o]) IN
  /\ at[o] = "upload"
  /\ \/ /\ ~ Denied(p) /\ ~ Blocked(p)
        /\ file' = [file EXCEPT ![p] = got[o]]
        /\ saved' = SavedBy(o)
        /\ \/ /\ Goto(o, "stored")
              /\ kept' = Untouched(o, p)
              /\ told' = "none" /\ UNCHANGED <<got, handle>>
           \/ /\ Fail(o)
              /\ kept' = Untouched(o, p) \ {o}
     \/ /\ Fail(o)
        /\ kept' = kept \ {o}
        /\ UNCHANGED <<file, saved>>
  /\ UNCHANGED <<options, nextFd, dirs, asked, shown, raced, used, events>>

(* The results of a query replace the last ones when they come, before the *)
(* audit record is awaited: when only the audit fails, the caller sees an  *)
(* error and the control files the new results.                            *)
Recall(o) ==
  LET k == call[o].path IN
  /\ at[o] = "recall"
  /\ \/ /\ shown' = [shown EXCEPT ![k] = got[o]]
        /\ saved' = SavedBy(o)
        /\ \/ Goto(o, "stored") /\ told' = "none" /\ UNCHANGED <<got, handle>>
           \/ Fail(o)
     \/ /\ Fail(o)
        /\ UNCHANGED <<shown, saved>>
  /\ UNCHANGED <<options, file, nextFd, dirs, asked, raced, kept, used, events>>

(* After the await: commitHandle marks its handle clean, rename goes on to *)
(* the deletion.                                                           *)
Stored(o) ==
  LET c == call[o] IN
  /\ at[o] = "stored"
  /\ CASE c.kind = "rename" -> Goto(o, "delete") /\ told' = "none" /\ UNCHANGED <<handle, got>>
       [] c.kind = "flush" ->
            /\ handle' = [handle EXCEPT ![c.fd].dirty = FALSE]
            /\ told' = "ok"
            /\ Reply(o)
       [] OTHER -> EndWith(o, "ok")
  /\ UNCHANGED <<options, file, nextFd, dirs, asked, shown, history, kept, used, events>>

(* unlink, and the last step of rename; the caller sees an error also when *)
(* only the audit record of the deletion failed.                           *)
Delete(o) ==
  LET p == call[o].path IN
  /\ at[o] = "delete"
  /\ \/ /\ p \in Files /\ ~ Denied(p)
        /\ file' = [file EXCEPT ![p] = NoFile]
        /\ kept' = Untouched(o, p) \ {o}
        /\ Reply(o)
     \/ /\ Reply(o)
        /\ kept' = kept \ {o}
        /\ UNCHANGED file
  /\ UNCHANGED <<options, session, history, used, events>>

(* destroy: the mount core forgets its directories. *)
Destroy(o) ==
  /\ Arrives(o)
  /\ dirs' = {}
  /\ Reply(o)
  /\ UNCHANGED <<options, file, handle, nextFd, asked, shown, history, kept, events>>

-----------------------------------------------------------------------------
(* The daemon ends, by unmount, signal or crash, and is started again.  No *)
(* buffer is committed; the kernel fails what was in flight.               *)
Stop ==
  /\ events < MaxEvents
  /\ events' = events + 1
  /\ handle' = [fd \in Fd |-> NoHandle]
  /\ nextFd' = 1
  /\ dirs' = {}
  /\ asked' = [k \in Query |-> <<>>]
  /\ shown' = [k \in Query |-> <<>>]
  /\ call' = [o \in Op |-> NoCall]
  /\ at' = [o \in Op |-> "idle"]
  /\ got' = [o \in Op |-> <<>>]
  /\ kept' = {}
  /\ UNCHANGED <<options, file, history, used>>

(* Another client of the workspace writes or deletes a file. *)
Outside(p, text) ==
  /\ events < MaxEvents
  /\ events' = events + 1
  /\ text # NoFile => ~ Blocked(p)
  /\ file' = [file EXCEPT ![p] = text]
  /\ kept' = {u \in kept : p \notin {call[u].path, call[u].to}}
  /\ UNCHANGED <<options, session, request, history, used>>

Continue(o) ==
  \/ /\ OpenFinish(o) \/ View(o) \/ ChangeFolder(o) \/ ReadText(o) \/ Delete(o)
     /\ told' = "none"
  \/ Upload(o) \/ Recall(o) \/ Stored(o)

Chunk == {<<b>> : b \in Byte}

Arrive(o) ==
  \/ \E p \in Path \cup Query :
       \/ OpenRefused(o, p)
       \/ Create(o, p)
       \/ Refuse(o, p)
       \/ \E append \in BOOLEAN : OpenTruncated(o, p, append)
  \/ \E k \in Query, append \in BOOLEAN : OpenQuery(o, k, append)
  \/ \E p \in Path :
       \/ \E append \in BOOLEAN : OpenForWriting(o, p, append)
       \/ OpenForReading(o, p)
       \/ Unlink(o, p)
       \/ \E q \in Path : Rename(o, p, q)
       \/ \E size \in 0..MaxOffset : Truncate(o, p, size)
       \/ \E bytes \in Chunk : AppendFile(o, p, bytes)
  \/ \E d \in Folder : Mkdir(o, d) \/ Rmdir(o, d)
  \/ \E fd \in Fd :
       \/ \E chunk \in Chunk, position \in 0..MaxOffset : Write(o, fd, chunk, position)
       \/ \E size \in 0..MaxOffset : Ftruncate(o, fd, size)
       \/ BadHandle(o, fd)
       \/ \E kind \in {"flush", "release"} : CommitNothing(o, kind, fd) \/ Commit(o, kind, fd)
  \/ Destroy(o)

Next ==
  \/ \E o \in Op : Arrive(o) /\ told' = "none"
  \/ \E o \in Op : Continue(o)
  \/ Stop /\ told' = "none"
  \/ \E p \in Path, text \in Chunk \cup {NoFile} : Outside(p, text) /\ told' = "none"

Spec == Init /\ [][Next]_vars

(* Every call of the API returns or fails in the end, and Node then runs   *)
(* the handler that awaited it.                                            *)
FairSpec == Spec /\ \A o \in Op : WF_vars(Continue(o))

-----------------------------------------------------------------------------
(* The values of the variables. *)
TypeOK ==
  /\ mode \in {"read-only", "read-write"} /\ allow \in BOOLEAN
  /\ file \in [Path -> Text \cup {NoFile}]
  /\ handle \in [Fd -> Handle \cup {NoHandle}]
  /\ nextFd \in 1 .. MaxFd + 1
  /\ dirs \subseteq Folder
  /\ asked \in [Query -> Text] /\ shown \in [Query -> Text]
  /\ call \in [Op -> Call \cup {NoCall}]
  /\ at \in [Op -> Awaits]
  /\ got \in [Op -> Text]
  /\ told \in {"none", "ok", "error"}
  /\ saved \in [Fd -> Text] /\ raced \in [Fd -> BOOLEAN]
  /\ kept \subseteq Op

(* A handle that is not marked dirty holds what the workspace was last     *)
(* given, or what was read: a flush of it has nothing left to do.  A write *)
(* that comes while a commit of the same handle awaits the API breaks this *)
(* and is excluded: commitHandle then marks the new bytes clean            *)
(* (apps/mountd, commitHandle).                                            *)
CleanHandlesAreSaved ==
  \A fd \in Fd :
    handle[fd] # NoHandle /\ handle[fd].writing /\ ~ handle[fd].dirty /\ ~ raced[fd]
      => handle[fd].buffer = saved[fd]

(* A flush or a release is answered with success only when the bytes of    *)
(* the handle have been stored, also if the commit failed before or the    *)
(* handle is dropped (apps/mountd, flush, fsync and release).              *)
SuccessMeansStored ==
  [][\A o \in Op :
       at[o] # "idle" /\ call[o].kind \in {"flush", "release"} /\ ~ raced[call[o].fd]
         /\ at'[o] = "idle" /\ told' = "ok"
       => saved[call[o].fd] = handle[call[o].fd].buffer]_vars

(* While a rename is under way, and whatever fails in it, the text it      *)
(* moves is under one of the two names unless somebody else has changed    *)
(* one of them (packages/mount-core, rename).                              *)
RenameKeepsTheText ==
  \A o \in kept : got[o] \in {file[call[o].path], file[call[o].to]}

(* What a directory lists is what getattr finds, and the other way round:  *)
(* a name is listed exactly when its path is a file or a directory, also   *)
(* among transient directories and below files, where listing is refused   *)
(* and nothing is found (packages/mount-core, stat and list).              *)
ListedIffFound ==
  \A p \in Path \cup Folder : Stat(p) # "missing" <=> Last(p) \in List(Front(p))

(* Every request of the kernel is answered (apps/mountd, runFuseOperation). *)
EveryRequestIsAnswered == \A o \in Op : at[o] # "idle" ~> at[o] = "idle"
=============================================================================
