---------------------------- MODULE Mount_proofs ----------------------------
(***************************************************************************)
(* Theorems about the handles of a mount, for any paths, any bytes and any *)
(* number of requests in flight: what a handle that is not marked dirty    *)
(* holds, and what a flush or a release that succeeds has stored.          *)
(***************************************************************************)
EXTENDS Mount, TLAPS

(* A request that commits its descriptor.                                  *)
Commits(o) == at[o] # "idle" /\ call[o].kind \in {"flush", "release"}

Shaped(h) ==
  h = [path |-> h.path, buffer |-> h.buffer, dirty |-> h.dirty, append |-> h.append,
       writing |-> h.writing]

-----------------------------------------------------------------------------
(* The inductive invariant. *)

Tables ==
  /\ DOMAIN handle = Fd /\ DOMAIN saved = Fd
  /\ raced \in [Fd -> BOOLEAN]
  /\ DOMAIN at = Op /\ DOMAIN call = Op /\ DOMAIN got = Op
  /\ nextFd \in Nat

(* Descriptors not given yet are free, the others are handles. *)
Handles ==
  \A fd \in Fd : (handle[fd] # NoHandle => Shaped(handle[fd])) /\ (fd >= nextFd => handle[fd] = NoHandle)

(* A commit knows its descriptor, and the handle is there to its end. *)
CommitsOfHandles ==
  \A o \in Op : Commits(o) =>
    /\ at[o] \in {"upload", "recall", "stored"}
    /\ call[o].fd \in Fd /\ call[o].fd < nextFd
    /\ Shaped(handle[call[o].fd])

(* A release is alone on its descriptor. *)
ReleaseIsAlone ==
  \A o, u \in Op : Commits(o) /\ Commits(u) /\ call[o].fd = call[u].fd /\ o # u
    => call[o].kind = "flush" /\ call[u].kind = "flush"

(* A commit carries what its handle holds, and has it stored, unless the   *)
(* handle was written meanwhile.                                           *)
CommitsCarryTheBuffer ==
  \A o \in Op : Commits(o) /\ ~ raced[call[o].fd] =>
    /\ at[o] # "stored" => got[o] = handle[call[o].fd].buffer
    /\ at[o] = "stored" => saved[call[o].fd] = handle[call[o].fd].buffer

MountInv ==
  /\ Tables /\ Handles /\ CommitsOfHandles /\ ReleaseIsAlone /\ CommitsCarryTheBuffer
  /\ CleanHandlesAreSaved

-----------------------------------------------------------------------------
(* How a step may change the requests. *)

(* Every commit that is under way after the step was before it, unchanged. *)
NoNewCommit ==
  /\ DOMAIN at' = Op /\ DOMAIN call' = Op /\ DOMAIN got' = Op
  /\ \A u \in Op : Commits(u)' =>
       Commits(u) /\ at'[u] = at[u] /\ call'[u] = call[u] /\ got'[u] = got[u]

(* A handler that calls back leaves the other requests alone. *)
LEMMA ReplyEnds ==
  ASSUME Tables, NEW o \in Op, Reply(o)
  PROVE  NoNewCommit /\ at'[o] = "idle" /\ \A u \in Op : u # o => at'[u] = at[u]
BY DEF Tables, NoNewCommit, Commits, Reply

(* So does one that suspends for anything but a commit. *)
LEMMA SuspendsOther ==
  ASSUME Tables, NEW o \in Op, NEW c, NEW label, Suspend(o, c, label),
         c.kind \notin {"flush", "release"}, UNCHANGED got
  PROVE  NoNewCommit
BY DEF Tables, NoNewCommit, Commits, Suspend

(* And one that is no commit and goes on to its next call. *)
LEMMA GoesOn ==
  ASSUME Tables, NEW o \in Op, NEW label, Goto(o, label), ~ Commits(o), at[o] # "idle",
         DOMAIN got' = Op, \A u \in Op : u # o => got'[u] = got[u]
  PROVE  NoNewCommit
BY DEF Tables, NoNewCommit, Commits, Goto

-----------------------------------------------------------------------------
(* Steps that keep the invariant. *)

(* Steps that leave the handles alone. *)
LEMMA QuietKeeps ==
  ASSUME MountInv, NoNewCommit, UNCHANGED <<handle, nextFd, history>>
  PROVE  MountInv'
<1> USE DEF history
<1>1. Tables'
  BY DEF MountInv, Tables, NoNewCommit
<1>2. Handles' /\ CleanHandlesAreSaved'
  BY DEF MountInv, Handles, CleanHandlesAreSaved, Shaped
<1>3. CommitsOfHandles'
  BY DEF MountInv, CommitsOfHandles, NoNewCommit, Shaped
<1>4. ReleaseIsAlone'
  BY DEF MountInv, ReleaseIsAlone, NoNewCommit
<1>5. CommitsCarryTheBuffer'
  BY DEF MountInv, CommitsCarryTheBuffer, NoNewCommit
<1> QED BY <1>1, <1>2, <1>3, <1>4, <1>5 DEF MountInv

(* A new handle takes a descriptor no commit uses. *)
LEMMA NewHandleKeeps ==
  ASSUME MountInv, NoNewCommit, NEW h, Shaped(h), NewHandle(h)
  PROVE  MountInv'
<1>1. /\ nextFd \in Fd /\ nextFd \in Nat /\ nextFd' = nextFd + 1
      /\ DOMAIN handle = Fd /\ DOMAIN saved = Fd /\ raced \in [Fd -> BOOLEAN]
      /\ DOMAIN handle' = Fd /\ DOMAIN saved' = Fd /\ raced' \in [Fd -> BOOLEAN]
      /\ handle'[nextFd] = h /\ saved'[nextFd] = h.buffer /\ raced'[nextFd] = FALSE
      /\ \A fd \in Fd : fd # nextFd =>
           handle'[fd] = handle[fd] /\ saved'[fd] = saved[fd] /\ raced'[fd] = raced[fd]
  BY DEF MountInv, Tables, NewHandle
<1>2. Tables'
  BY <1>1 DEF Tables, NoNewCommit
<1>3. \A fd \in Fd : fd \in Nat
  BY DEF Fd
<1>4. Handles'
  BY <1>1, <1>3 DEF MountInv, Handles, Shaped
<1>5. CleanHandlesAreSaved'
  BY <1>1 DEF MountInv, CleanHandlesAreSaved
<1>6. \A o \in Op : Commits(o)' => Commits(o) /\ call'[o].fd = call[o].fd /\ call[o].fd \in Fd
                                   /\ call[o].fd # nextFd
  BY <1>1, <1>3 DEF MountInv, CommitsOfHandles, NoNewCommit
<1>7. CommitsOfHandles'
  <2> SUFFICES ASSUME NEW o \in Op, Commits(o)'
               PROVE  /\ at'[o] \in {"upload", "recall", "stored"}
                      /\ call'[o].fd \in Fd /\ call'[o].fd < nextFd'
                      /\ Shaped(handle'[call'[o].fd])
    BY DEF CommitsOfHandles, Shaped
  <2>1. /\ Commits(o) /\ at'[o] = at[o] /\ call'[o] = call[o]
        /\ handle'[call[o].fd] = handle[call[o].fd]
    BY <1>1, <1>6 DEF NoNewCommit
  <2> QED BY <2>1, <1>1, <1>3 DEF MountInv, CommitsOfHandles, Shaped
<1>8. ReleaseIsAlone'
  BY DEF MountInv, ReleaseIsAlone, NoNewCommit
<1>9. CommitsCarryTheBuffer'
  <2> SUFFICES ASSUME NEW o \in Op, Commits(o)', ~ raced'[call'[o].fd]
               PROVE  /\ at'[o] # "stored" => got'[o] = handle'[call'[o].fd].buffer
                      /\ at'[o] = "stored" => saved'[call'[o].fd] = handle'[call'[o].fd].buffer
    BY DEF CommitsCarryTheBuffer
  <2>1. /\ Commits(o) /\ at'[o] = at[o] /\ call'[o] = call[o] /\ got'[o] = got[o]
        /\ handle'[call[o].fd] = handle[call[o].fd] /\ saved'[call[o].fd] = saved[call[o].fd]
        /\ raced'[call[o].fd] = raced[call[o].fd]
    BY <1>1, <1>6 DEF NoNewCommit
  <2> QED BY <2>1 DEF MountInv, CommitsCarryTheBuffer
<1> QED BY <1>2, <1>4, <1>5, <1>7, <1>8, <1>9 DEF MountInv

(* A handle that is dropped or marked clean: no commit but those of        *)
(* NoNewCommit is left, and the handle's text is what is saved.            *)
LEMMA DropKeeps ==
  ASSUME MountInv, NoNewCommit, NEW d \in Fd, handle' = [handle EXCEPT ![d] = NoHandle],
         \A u \in Op : Commits(u)' => call[u].fd # d,
         UNCHANGED <<nextFd, history>>
  PROVE  MountInv'
<1> USE DEF history
<1>1. /\ DOMAIN handle' = Fd /\ handle'[d] = NoHandle
      /\ \A fd \in Fd : fd # d => handle'[fd] = handle[fd]
  BY DEF MountInv, Tables
<1>2. Tables'
  BY <1>1 DEF MountInv, Tables, NoNewCommit
<1>3. Handles' /\ CleanHandlesAreSaved'
  BY <1>1 DEF MountInv, Handles, CleanHandlesAreSaved, Shaped
<1>4. \A o \in Op : Commits(o)' =>
        /\ Commits(o) /\ at'[o] = at[o] /\ call'[o] = call[o] /\ got'[o] = got[o]
        /\ call[o].fd \in Fd /\ handle'[call[o].fd] = handle[call[o].fd]
  BY <1>1 DEF MountInv, CommitsOfHandles, NoNewCommit
<1>5. CommitsOfHandles'
  BY <1>4 DEF MountInv, CommitsOfHandles, Shaped
<1>6. ReleaseIsAlone'
  BY <1>4 DEF MountInv, ReleaseIsAlone
<1>7. CommitsCarryTheBuffer'
  BY <1>4 DEF MountInv, CommitsCarryTheBuffer
<1> QED BY <1>2, <1>3, <1>5, <1>6, <1>7 DEF MountInv

(* A write or a resize through a handle that a commit may be reading. *)
LEMMA SetBufferKeeps ==
  ASSUME MountInv, NoNewCommit, NEW d \in Fd, handle[d] # NoHandle, NEW b, SetBuffer(d, b)
  PROVE  MountInv'
<1>1. /\ DOMAIN handle' = Fd
      /\ handle'[d] = [path |-> handle[d].path, buffer |-> b, dirty |-> TRUE,
                       append |-> handle[d].append, writing |-> handle[d].writing]
      /\ \A fd \in Fd : fd # d => handle'[fd] = handle[fd]
  <2>1. Shaped(handle[d]) /\ DOMAIN handle = Fd
    BY DEF MountInv, Handles, Tables
  <2>2. handle' = [handle EXCEPT ![d] = [handle[d] EXCEPT !.buffer = b, !.dirty = TRUE]]
    BY <2>1 DEF SetBuffer
  <2> QED BY <2>1, <2>2 DEF Shaped
<1>2. /\ raced' \in [Fd -> BOOLEAN]
      /\ \A fd \in Fd : fd # d => raced'[fd] = raced[fd]
      /\ Committing(d) => raced'[d] = TRUE
      /\ UNCHANGED <<saved, nextFd>>
  <2>1. raced \in [Fd -> BOOLEAN] /\ UNCHANGED <<saved, nextFd>>
    BY DEF MountInv, Tables, SetBuffer
  <2>2. raced' = [raced EXCEPT ![d] = raced[d] \/ Committing(d)]
    BY DEF SetBuffer
  <2>3. (raced[d] \/ Committing(d)) \in BOOLEAN
    OBVIOUS
  <2>4. PICK x \in BOOLEAN : x = (raced[d] \/ Committing(d))
    BY <2>3
  <2>5. raced' = [raced EXCEPT ![d] = x]
    BY <2>2, <2>4
  <2>6. Committing(d) => x = TRUE
    BY <2>4
  <2> QED BY <2>1, <2>5, <2>6
<1>3. Tables'
  BY <1>1, <1>2 DEF MountInv, Tables, NoNewCommit
<1>4. Handles'
  BY <1>1, <1>2 DEF MountInv, Handles, Shaped
<1>5. CleanHandlesAreSaved'
  <2> SUFFICES ASSUME NEW fd \in Fd, handle'[fd] # NoHandle, handle'[fd].writing,
                      ~ handle'[fd].dirty, ~ raced'[fd]
               PROVE  handle'[fd].buffer = saved'[fd]
    BY DEF CleanHandlesAreSaved
  <2>1. fd # d
    BY <1>1
  <2> QED BY <2>1, <1>1, <1>2 DEF MountInv, CleanHandlesAreSaved
<1>6. \A o \in Op : Commits(o)' =>
        /\ Commits(o) /\ at'[o] = at[o] /\ call'[o] = call[o] /\ got'[o] = got[o]
        /\ call[o].fd \in Fd /\ call[o].fd < nextFd /\ Shaped(handle[call[o].fd])
        /\ at[o] \in {"upload", "recall", "stored"}
  BY DEF MountInv, CommitsOfHandles, NoNewCommit
<1>7. CommitsOfHandles'
  <2> SUFFICES ASSUME NEW o \in Op, Commits(o)'
               PROVE  /\ at'[o] \in {"upload", "recall", "stored"}
                      /\ call'[o].fd \in Fd /\ call'[o].fd < nextFd'
                      /\ Shaped(handle'[call'[o].fd])
    BY DEF CommitsOfHandles, Shaped
  <2>1. CASE call[o].fd = d
    BY <2>1, <1>1, <1>2, <1>6 DEF Shaped
  <2>2. CASE call[o].fd # d
    BY <2>2, <1>1, <1>2, <1>6
  <2> QED BY <2>1, <2>2
<1>8. ReleaseIsAlone'
  BY <1>6 DEF MountInv, ReleaseIsAlone
<1>9. CommitsCarryTheBuffer'
  <2> SUFFICES ASSUME NEW o \in Op, Commits(o)', ~ raced'[call'[o].fd]
               PROVE  /\ at'[o] # "stored" => got'[o] = handle'[call'[o].fd].buffer
                      /\ at'[o] = "stored" => saved'[call'[o].fd] = handle'[call'[o].fd].buffer
    BY DEF CommitsCarryTheBuffer
  <2>1. call[o].fd # d
    <3>1. call[o].fd = d => Committing(d)
      BY <1>6 DEF Committing, Commits
    <3> QED BY <3>1, <1>2, <1>6
  <2>2. /\ handle'[call[o].fd] = handle[call[o].fd] /\ raced'[call[o].fd] = raced[call[o].fd]
        /\ saved' = saved
    BY <2>1, <1>1, <1>2, <1>6
  <2> QED BY <2>2, <1>6 DEF MountInv, CommitsCarryTheBuffer
<1> QED BY <1>3, <1>4, <1>5, <1>7, <1>8, <1>9 DEF MountInv

(* A commit of its own arrives with the text of its handle. *)
LEMMA CommitKeeps ==
  ASSUME MountInv, NEW o \in Op, NEW d \in Fd, NEW kind \in {"flush", "release"},
         Commit(o, kind, d)
  PROVE  MountInv'
<1>1. PICK label \in {"upload", "recall"} :
        /\ at' = [at EXCEPT ![o] = label]
        /\ call' = [call EXCEPT ![o] = [kind |-> kind, path |-> handle[d].path, fd |-> d]]
        /\ got' = [got EXCEPT ![o] = handle[d].buffer]
        /\ at[o] = "idle" /\ Held(d) /\ (kind = "release" => ~ Committing(d))
        /\ UNCHANGED <<handle, nextFd, saved, raced>>
  BY DEF Commit, Suspend, Arrives, MayCommit, history
<1>2. /\ DOMAIN at' = Op /\ DOMAIN call' = Op /\ DOMAIN got' = Op
      /\ at'[o] = label /\ call'[o].kind = kind /\ call'[o].fd = d /\ got'[o] = handle[d].buffer
      /\ \A u \in Op : u # o => at'[u] = at[u] /\ call'[u] = call[u] /\ got'[u] = got[u]
  BY <1>1 DEF MountInv, Tables
<1>3. Tables' /\ Handles' /\ CleanHandlesAreSaved'
  BY <1>1, <1>2 DEF MountInv, Tables, Handles, Shaped, CleanHandlesAreSaved
<1>4. \A u \in Op : u # o => (Commits(u)' <=> Commits(u))
  BY <1>2 DEF Commits
<1>5. d < nextFd /\ Shaped(handle[d])
  BY <1>1 DEF MountInv, Handles, Tables, Held, Fd
<1>6. CommitsOfHandles'
  BY <1>1, <1>2, <1>4, <1>5 DEF MountInv, CommitsOfHandles, Shaped
<1>7. ReleaseIsAlone'
  <2>1. \A u \in Op : Commits(u) /\ call[u].fd = d => call[u].kind = "flush" /\ kind = "flush"
    BY <1>1 DEF Commits, Committing, Held
  <2> QED BY <2>1, <1>2, <1>4 DEF MountInv, ReleaseIsAlone
<1>8. CommitsCarryTheBuffer'
  BY <1>1, <1>2, <1>4 DEF MountInv, CommitsCarryTheBuffer
<1> QED BY <1>3, <1>6, <1>7, <1>8 DEF MountInv

(* A request that ends, and drops its handle if it is a release. *)
LEMMA EndKeeps ==
  ASSUME MountInv, NEW o \in Op, at[o] # "idle", NEW value, EndWith(o, value),
         UNCHANGED <<nextFd, history>>
  PROVE  MountInv'
<1>1. NoNewCommit /\ at'[o] = "idle"
  BY ReplyEnds DEF MountInv, EndWith
<1>2. CASE call[o].kind # "release"
  BY <1>1, <1>2, QuietKeeps DEF EndWith
<1>3. CASE call[o].kind = "release"
  <2>1. Commits(o) /\ call[o].fd \in Fd
    BY <1>3 DEF Commits, MountInv, CommitsOfHandles
  <2>2. handle' = [handle EXCEPT ![call[o].fd] = NoHandle]
    BY <1>3 DEF EndWith
  <2>3. \A u \in Op : Commits(u)' => call[u].fd # call[o].fd
    BY <1>1, <1>3, <2>1 DEF MountInv, ReleaseIsAlone, NoNewCommit, Commits
  <2> QED BY <1>1, <2>1, <2>2, <2>3, DropKeeps
<1> QED BY <1>2, <1>3

(* A commit whose text is stored: it goes on, or fails all the same. *)
LEMMA SaveKeeps ==
  ASSUME MountInv, NEW o \in Op, Commits(o), at[o] \in {"upload", "recall"},
         saved' = SavedBy(o), UNCHANGED <<nextFd, raced>>,
         (Goto(o, "stored") /\ UNCHANGED <<got, handle>>) \/ Fail(o)
  PROVE  MountInv'
<1>1. PICK d \in Fd : d = call[o].fd
  BY DEF MountInv, CommitsOfHandles
<1>2. /\ DOMAIN saved' = Fd /\ saved'[d] = got[o]
      /\ \A fd \in Fd : fd # d => saved'[fd] = saved[fd]
  BY <1>1 DEF MountInv, Tables, SavedBy, Commits
<1>3. /\ DOMAIN handle' = Fd
      /\ \A fd \in Fd : fd # d => handle'[fd] = handle[fd]
      /\ \/ handle'[d] = handle[d]
         \/ handle'[d] = NoHandle /\ call[o].kind = "release" /\ at'[o] = "idle"
  <2>1. CASE Goto(o, "stored") /\ UNCHANGED <<got, handle>>
    BY <2>1 DEF MountInv, Tables
  <2>2. CASE Fail(o)
    BY <2>2, <1>1, ReplyEnds DEF MountInv, Tables, Fail, EndWith
  <2> QED BY <2>1, <2>2
<1>4. /\ DOMAIN at' = Op /\ DOMAIN call' = Op /\ DOMAIN got' = Op
      /\ \A u \in Op : Commits(u)' =>
           /\ Commits(u) /\ call'[u] = call[u] /\ got'[u] = got[u]
           /\ IF u = o THEN at'[u] = "stored" ELSE at'[u] = at[u]
  <2>1. CASE Goto(o, "stored") /\ UNCHANGED <<got, handle>>
    BY <2>1 DEF MountInv, Tables, Goto, Commits
  <2>2. CASE Fail(o)
    BY <2>2, ReplyEnds DEF MountInv, Fail, EndWith, NoNewCommit, Commits
  <2> QED BY <2>1, <2>2
<1>5. ~ raced[d] => got[o] = handle[d].buffer
  BY <1>1 DEF MountInv, CommitsCarryTheBuffer
<1>6. Tables'
  BY <1>2, <1>3, <1>4 DEF MountInv, Tables
<1>7. Handles'
  <2> SUFFICES ASSUME NEW fd \in Fd
               PROVE  /\ handle'[fd] # NoHandle => Shaped(handle'[fd])
                      /\ fd >= nextFd' => handle'[fd] = NoHandle
    BY DEF Handles, Shaped
  <2>1. handle'[fd] = handle[fd] \/ handle'[fd] = NoHandle
    BY <1>3
  <2> QED BY <2>1 DEF MountInv, Handles
<1>8. CleanHandlesAreSaved'
  <2> SUFFICES ASSUME NEW fd \in Fd, handle'[fd] # NoHandle, handle'[fd].writing,
                      ~ handle'[fd].dirty, ~ raced'[fd]
               PROVE  handle'[fd].buffer = saved'[fd]
    BY DEF CleanHandlesAreSaved
  <2>1. handle'[fd] = handle[fd]
    BY <1>3
  <2>2. CASE fd = d
    BY <2>1, <2>2, <1>2, <1>5
  <2>3. CASE fd # d
    BY <2>1, <2>3, <1>2 DEF MountInv, CleanHandlesAreSaved
  <2> QED BY <2>2, <2>3
<1>9. \A u \in Op : Commits(u)' =>
        /\ call[u].fd \in Fd /\ call[u].fd < nextFd /\ Shaped(handle[call[u].fd])
        /\ at'[u] \in {"upload", "recall", "stored"}
        /\ handle'[call[u].fd] = handle[call[u].fd]
  <2> SUFFICES ASSUME NEW u \in Op, Commits(u)'
               PROVE  /\ call[u].fd \in Fd /\ call[u].fd < nextFd /\ Shaped(handle[call[u].fd])
                      /\ at'[u] \in {"upload", "recall", "stored"}
                      /\ handle'[call[u].fd] = handle[call[u].fd]
    OBVIOUS
  <2>1. /\ call[u].fd \in Fd /\ call[u].fd < nextFd /\ Shaped(handle[call[u].fd])
        /\ at[u] \in {"upload", "recall", "stored"}
    BY <1>4 DEF MountInv, CommitsOfHandles
  <2>2. CASE u = o
    BY <2>1, <2>2, <1>1, <1>3, <1>4 DEF Commits
  <2>3. CASE u # o /\ call[u].fd = d
    <3>1. call[o].kind = "flush"
      BY <2>3, <1>1, <1>4 DEF MountInv, ReleaseIsAlone
    <3> QED BY <3>1, <2>1, <2>3, <1>3, <1>4
  <2>4. CASE call[u].fd # d
    BY <2>1, <2>4, <1>3, <1>4
  <2> QED BY <2>2, <2>3, <2>4
<1>10. CommitsOfHandles'
  <2> SUFFICES ASSUME NEW u \in Op, Commits(u)'
               PROVE  /\ at'[u] \in {"upload", "recall", "stored"}
                      /\ call'[u].fd \in Fd /\ call'[u].fd < nextFd'
                      /\ Shaped(handle'[call'[u].fd])
    BY DEF CommitsOfHandles, Shaped
  <2> QED BY <1>4, <1>9
<1>11. ReleaseIsAlone'
  BY <1>4 DEF MountInv, ReleaseIsAlone
<1>12. CommitsCarryTheBuffer'
  <2> SUFFICES ASSUME NEW u \in Op, Commits(u)', ~ raced'[call'[u].fd]
               PROVE  /\ at'[u] # "stored" => got'[u] = handle'[call'[u].fd].buffer
                      /\ at'[u] = "stored" => saved'[call'[u].fd] = handle'[call'[u].fd].buffer
    BY DEF CommitsCarryTheBuffer
  <2>1. /\ Commits(u) /\ call'[u] = call[u] /\ got'[u] = got[u] /\ ~ raced[call[u].fd]
        /\ handle'[call[u].fd] = handle[call[u].fd] /\ call[u].fd \in Fd
    BY <1>4, <1>9
  <2>2. CASE u = o
    BY <2>1, <2>2, <1>1, <1>2, <1>4, <1>5
  <2>3. CASE u # o
    <3>1. /\ at[u] # "stored" => got[u] = handle[call[u].fd].buffer
          /\ at[u] = "stored" => saved[call[u].fd] = handle[call[u].fd].buffer
      BY <2>1 DEF MountInv, CommitsCarryTheBuffer
    <3>2. CASE call[u].fd = d
      BY <2>1, <2>3, <3>1, <3>2, <1>2, <1>4, <1>5
    <3>3. CASE call[u].fd # d
      BY <2>1, <2>3, <3>1, <3>3, <1>2, <1>4
    <3> QED BY <3>2, <3>3
  <2> QED BY <2>2, <2>3
<1> QED BY <1>6, <1>7, <1>8, <1>10, <1>11, <1>12 DEF MountInv

(* After the API answered: a flush marks its handle clean, a release drops *)
(* it, a rename goes on.                                                   *)
LEMMA StoredKeeps ==
  ASSUME MountInv, NEW o \in Op, Stored(o)
  PROVE  MountInv'
<1>1. at[o] = "stored" /\ UNCHANGED <<nextFd, history>>
  BY DEF Stored
<1>2. CASE call[o].kind = "rename"
  <2>1. Goto(o, "delete") /\ UNCHANGED <<handle, got>>
    BY <1>2 DEF Stored
  <2>2. NoNewCommit
    BY <1>1, <1>2, <2>1, GoesOn DEF MountInv, Commits, Tables
  <2> QED BY <1>1, <2>1, <2>2, QuietKeeps
<1>3. CASE call[o].kind \notin {"rename", "flush"}
  <2>1. EndWith(o, "ok")
    BY <1>3 DEF Stored
  <2> QED BY <1>1, <2>1, EndKeeps
<1>4. CASE call[o].kind = "flush"
  <2>1. PICK d \in Fd : d = call[o].fd
    BY <1>1, <1>4 DEF MountInv, CommitsOfHandles, Commits
  <2>2. Shaped(handle[d]) /\ (~ raced[d] => saved[d] = handle[d].buffer)
    BY <1>1, <1>4, <2>1 DEF MountInv, CommitsOfHandles, CommitsCarryTheBuffer, Commits
  <2>3. NoNewCommit /\ handle' = [handle EXCEPT ![d] = [handle[d] EXCEPT !.dirty = FALSE]]
    BY <1>1, <1>4, <2>1, ReplyEnds DEF Stored, MountInv
  <2>4. /\ DOMAIN handle' = Fd
        /\ handle'[d] = [path |-> handle[d].path, buffer |-> handle[d].buffer, dirty |-> FALSE,
                         append |-> handle[d].append, writing |-> handle[d].writing]
        /\ \A fd \in Fd : fd # d => handle'[fd] = handle[fd]
    BY <2>2, <2>3 DEF MountInv, Tables, Shaped
  <2>5. UNCHANGED <<nextFd, saved, raced>>
    BY <1>1 DEF history
  <2>6. d < nextFd
    BY <1>1, <1>4, <2>1 DEF MountInv, CommitsOfHandles, Commits
  <2>7. Tables'
    BY <2>3, <2>4, <2>5 DEF MountInv, Tables, NoNewCommit
  <2>8. Handles'
    <3> SUFFICES ASSUME NEW fd \in Fd
                 PROVE  /\ handle'[fd] # NoHandle => Shaped(handle'[fd])
                        /\ fd >= nextFd' => handle'[fd] = NoHandle
      BY DEF Handles, Shaped
    <3>1. CASE fd = d
      BY <3>1, <2>4, <2>5, <2>6 DEF Shaped, MountInv, Tables, Fd
    <3>2. CASE fd # d
      BY <3>2, <2>4, <2>5 DEF MountInv, Handles
    <3> QED BY <3>1, <3>2
  <2>9. CleanHandlesAreSaved'
    <3> SUFFICES ASSUME NEW fd \in Fd, handle'[fd] # NoHandle, handle'[fd].writing,
                        ~ handle'[fd].dirty, ~ raced'[fd]
                 PROVE  handle'[fd].buffer = saved'[fd]
      BY DEF CleanHandlesAreSaved
    <3>1. CASE fd = d
      BY <3>1, <2>2, <2>4, <2>5
    <3>2. CASE fd # d
      BY <3>2, <2>4, <2>5 DEF MountInv, CleanHandlesAreSaved
    <3> QED BY <3>1, <3>2
  <2>10. \A u \in Op : Commits(u)' =>
          /\ Commits(u) /\ at'[u] = at[u] /\ call'[u] = call[u] /\ got'[u] = got[u]
          /\ at[u] \in {"upload", "recall", "stored"}
          /\ call[u].fd \in Fd /\ call[u].fd < nextFd /\ Shaped(handle[call[u].fd])
          /\ Shaped(handle'[call[u].fd])
          /\ handle'[call[u].fd].buffer = handle[call[u].fd].buffer
    <3> SUFFICES ASSUME NEW u \in Op, Commits(u)'
                 PROVE  /\ Commits(u) /\ at'[u] = at[u] /\ call'[u] = call[u] /\ got'[u] = got[u]
                        /\ at[u] \in {"upload", "recall", "stored"}
                        /\ call[u].fd \in Fd /\ call[u].fd < nextFd /\ Shaped(handle[call[u].fd])
                        /\ Shaped(handle'[call[u].fd])
                        /\ handle'[call[u].fd].buffer = handle[call[u].fd].buffer
      OBVIOUS
    <3>1. /\ Commits(u) /\ at'[u] = at[u] /\ call'[u] = call[u] /\ got'[u] = got[u]
          /\ at[u] \in {"upload", "recall", "stored"}
          /\ call[u].fd \in Fd /\ call[u].fd < nextFd /\ Shaped(handle[call[u].fd])
      BY <2>3 DEF NoNewCommit, MountInv, CommitsOfHandles
    <3>2. CASE call[u].fd = d
      BY <3>1, <3>2, <2>4 DEF Shaped
    <3>3. CASE call[u].fd # d
      BY <3>1, <3>3, <2>4
    <3> QED BY <3>1, <3>2, <3>3
  <2>11. CommitsOfHandles'
    <3> SUFFICES ASSUME NEW u \in Op, Commits(u)'
                 PROVE  /\ at'[u] \in {"upload", "recall", "stored"}
                        /\ call'[u].fd \in Fd /\ call'[u].fd < nextFd'
                        /\ Shaped(handle'[call'[u].fd])
      BY DEF CommitsOfHandles, Shaped
    <3> QED BY <2>5, <2>10
  <2>12. ReleaseIsAlone'
    BY <2>10 DEF MountInv, ReleaseIsAlone
  <2>13. CommitsCarryTheBuffer'
    BY <2>5, <2>10 DEF MountInv, CommitsCarryTheBuffer
  <2> QED BY <2>7, <2>8, <2>9, <2>11, <2>12, <2>13 DEF MountInv
<1> QED BY <1>2, <1>3, <1>4

-----------------------------------------------------------------------------
(* The actions, in the order of the model. *)

(* A request of the kernel arrives: opens and creations. *)
LEMMA OpensKeep ==
  ASSUME MountInv, NEW o \in Op, NEW p, NEW append,
         \/ OpenRefused(o, p) \/ OpenTruncated(o, p, append) \/ OpenQuery(o, p, append)
         \/ OpenForWriting(o, p, append) \/ OpenForReading(o, p) \/ Create(o, p)
  PROVE  MountInv'
<1>1. CASE OpenRefused(o, p)
  BY <1>1, ReplyEnds, QuietKeeps DEF OpenRefused, session, MountInv
<1>2. CASE OpenTruncated(o, p, append)
  <2>1. NoNewCommit
    BY <1>2, ReplyEnds DEF OpenTruncated, MountInv
  <2> QED BY <1>2, <2>1, NewHandleKeeps DEF OpenTruncated, Shaped
<1>3. CASE OpenQuery(o, p, append)
  <2>1. NoNewCommit
    BY <1>3, ReplyEnds DEF OpenQuery, MountInv
  <2> QED BY <1>3, <2>1, NewHandleKeeps DEF OpenQuery, Shaped
<1>4. CASE OpenForWriting(o, p, append)
  <2>1. NoNewCommit
    BY <1>4, SuspendsOther DEF OpenForWriting, MountInv
  <2> QED BY <1>4, <2>1, QuietKeeps DEF OpenForWriting, session
<1>5. CASE OpenForReading(o, p)
  <2>1. NoNewCommit
    BY <1>5, SuspendsOther DEF OpenForReading, MountInv
  <2> QED BY <1>5, <2>1, QuietKeeps DEF OpenForReading, session
<1>6. CASE Create(o, p)
  <2>1. NoNewCommit
    BY <1>6, ReplyEnds DEF Create, MountInv
  <2> QED BY <1>6, <2>1, NewHandleKeeps DEF Create, Shaped
<1> QED BY <1>1, <1>2, <1>3, <1>4, <1>5, <1>6

(* A request of the kernel arrives: requests on a descriptor. *)
LEMMA DescriptorRequestsKeep ==
  ASSUME MountInv, NEW o \in Op, NEW d \in Fd, NEW chunk, NEW n,
         NEW kind \in {"flush", "release"},
         \/ Write(o, d, chunk, n) \/ Ftruncate(o, d, n) \/ BadHandle(o, d)
         \/ CommitNothing(o, kind, d) \/ Commit(o, kind, d)
  PROVE  MountInv'
<1>1. CASE Write(o, d, chunk, n)
  <2>1. NoNewCommit
    BY <1>1, ReplyEnds DEF Write, MountInv
  <2>2. PICK b : SetBuffer(d, b)
    BY <1>1 DEF Write
  <2>3. handle[d] # NoHandle
    BY <1>1 DEF Write, Held
  <2> QED BY <2>1, <2>2, <2>3, SetBufferKeeps
<1>2. CASE Ftruncate(o, d, n)
  <2>1. NoNewCommit
    BY <1>2, ReplyEnds DEF Ftruncate, MountInv
  <2>2. PICK b : SetBuffer(d, b)
    BY <1>2 DEF Ftruncate
  <2>3. handle[d] # NoHandle
    BY <1>2 DEF Ftruncate, Held
  <2> QED BY <2>1, <2>2, <2>3, SetBufferKeeps
<1>3. CASE BadHandle(o, d)
  BY <1>3, ReplyEnds, QuietKeeps DEF BadHandle, session, MountInv
<1>4. CASE CommitNothing(o, kind, d)
  <2>1. /\ NoNewCommit /\ handle' = Closed(kind, d) /\ UNCHANGED <<nextFd, history>>
        /\ kind = "release" => ~ Committing(d)
    BY <1>4, ReplyEnds DEF CommitNothing, MayCommit, MountInv
  <2>2. CASE kind = "flush"
    BY <2>1, <2>2, QuietKeeps DEF Closed
  <2>3. CASE kind = "release"
    <3>1. \A u \in Op : Commits(u)' => call[u].fd # d
      BY <2>1, <2>3 DEF NoNewCommit, Commits, Committing
    <3> QED BY <2>1, <2>3, <3>1, DropKeeps DEF Closed
  <2> QED BY <2>2, <2>3
<1>5. CASE Commit(o, kind, d)
  BY <1>5, CommitKeeps
<1> QED BY <1>1, <1>2, <1>3, <1>4, <1>5

(* A request that begins an operation of the mount core. *)
LEMMA BeginKeeps ==
  ASSUME MountInv, NEW o \in Op, NEW c, NEW label, Begin(o, c, label),
         c.kind \notin {"flush", "release"}
  PROVE  MountInv'
<1>1. NoNewCommit
  BY SuspendsOther DEF Begin, MountInv
<1> QED BY <1>1, QuietKeeps DEF Begin, session

(* A request of the kernel arrives: operations of the mount core. *)
LEMMA CoreRequestsKeep ==
  ASSUME MountInv, NEW o \in Op, NEW p, NEW q, NEW x,
         \/ Refuse(o, p) \/ Destroy(o)
         \/ Unlink(o, p) \/ Mkdir(o, p) \/ Rmdir(o, p) \/ Rename(o, p, q)
         \/ Truncate(o, p, x) \/ AppendFile(o, p, x)
  PROVE  MountInv'
<1>1. CASE Refuse(o, p)
  BY <1>1, ReplyEnds, QuietKeeps DEF Refuse, session, MountInv
<1>2. CASE Destroy(o)
  BY <1>2, ReplyEnds, QuietKeeps DEF Destroy, MountInv
<1>3. CASE Unlink(o, p)
  BY <1>3, BeginKeeps DEF Unlink
<1>4. CASE Mkdir(o, p)
  BY <1>4, BeginKeeps DEF Mkdir
<1>5. CASE Rmdir(o, p)
  BY <1>5, BeginKeeps DEF Rmdir
<1>6. CASE Rename(o, p, q)
  BY <1>6, BeginKeeps DEF Rename
<1>7. CASE Truncate(o, p, x)
  BY <1>7, BeginKeeps DEF Truncate
<1>8. CASE AppendFile(o, p, x)
  BY <1>8, BeginKeeps DEF AppendFile
<1> QED BY <1>1, <1>2, <1>3, <1>4, <1>5, <1>6, <1>7, <1>8

(* A handler goes on after a listing, a text or a deletion it awaited. *)
LEMMA AnswersKeep ==
  ASSUME MountInv, NEW o \in Op,
         OpenFinish(o) \/ View(o) \/ ChangeFolder(o) \/ ReadText(o) \/ Delete(o)
  PROVE  MountInv'
<1>1. CASE OpenFinish(o)
  <2>1. NoNewCommit
    BY <1>1, ReplyEnds DEF OpenFinish, MountInv
  <2> QED BY <1>1, <2>1, NewHandleKeeps DEF OpenFinish, Shaped
<1>2. CASE View(o)
  <2>1. NoNewCommit
    BY <1>2, ReplyEnds DEF View, MountInv
  <2>2. CASE UNCHANGED <<session, history>>
    BY <2>1, <2>2, QuietKeeps DEF session
  <2>3. CASE ~ UNCHANGED <<session, history>>
    <3>1. NewHandle([path |-> call[o].path, buffer |-> <<>>, dirty |-> FALSE,
                     append |-> FALSE, writing |-> FALSE])
      BY <1>2, <2>3 DEF View
    <3> QED BY <2>1, <3>1, NewHandleKeeps DEF Shaped
  <2> QED BY <2>2, <2>3
<1>3. CASE ChangeFolder(o)
  <2>1. Reply(o) /\ UNCHANGED <<handle, nextFd, history>>
    BY <1>3 DEF ChangeFolder
  <2> QED BY <2>1, ReplyEnds, QuietKeeps DEF MountInv
<1>4. CASE ReadText(o)
  <2>1. UNCHANGED <<handle, nextFd, history>> /\ at[o] = "read" /\ ~ Commits(o)
    BY <1>4 DEF ReadText, session, MountInv, CommitsOfHandles
  <2>2. CASE Reply(o)
    BY <2>1, <2>2, ReplyEnds, QuietKeeps DEF MountInv
  <2>3. CASE ~ Reply(o)
    <3>1. PICK text, label : got' = [got EXCEPT ![o] = text] /\ Goto(o, label)
      BY <1>4, <2>3 DEF ReadText
    <3>2. DOMAIN got' = Op /\ \A u \in Op : u # o => got'[u] = got[u]
      BY <3>1 DEF MountInv, Tables
    <3>3. NoNewCommit
      BY <2>1, <3>1, <3>2, GoesOn DEF MountInv
    <3> QED BY <2>1, <3>3, QuietKeeps
  <2> QED BY <2>2, <2>3
<1>5. CASE Delete(o)
  <2>1. Reply(o) /\ UNCHANGED <<handle, nextFd, history>>
    BY <1>5 DEF Delete, session
  <2> QED BY <2>1, ReplyEnds, QuietKeeps DEF MountInv
<1> QED BY <1>1, <1>2, <1>3, <1>4, <1>5

(* The store or the recall answers: the text is saved, or it is not. *)
LEMMA StoresKeep ==
  ASSUME MountInv, NEW o \in Op, Upload(o) \/ Recall(o)
  PROVE  MountInv'
<1>1. /\ at[o] \in {"upload", "recall"} /\ UNCHANGED <<nextFd, raced>>
      /\ \/ saved' = SavedBy(o) /\ ((Goto(o, "stored") /\ UNCHANGED <<got, handle>>) \/ Fail(o))
         \/ Fail(o) /\ UNCHANGED saved
  BY DEF Upload, Recall
<1>2. CASE Fail(o) /\ UNCHANGED saved
  BY <1>1, <1>2, EndKeeps DEF Fail, history
<1>3. CASE saved' = SavedBy(o) /\ ((Goto(o, "stored") /\ UNCHANGED <<got, handle>>) \/ Fail(o))
  <2>1. CASE Commits(o)
    BY <1>1, <1>3, <2>1, SaveKeeps
  <2>2. CASE ~ Commits(o)
    <3>1. UNCHANGED <<nextFd, history>>
      BY <1>1, <1>3, <2>2 DEF SavedBy, Commits, history
    <3>2. CASE Fail(o)
      BY <1>1, <3>1, <3>2, EndKeeps DEF Fail
    <3>3. CASE Goto(o, "stored") /\ UNCHANGED <<got, handle>>
      <4>1. NoNewCommit
        BY <1>1, <2>2, <3>3, GoesOn DEF MountInv, Tables
      <4> QED BY <3>1, <3>3, <4>1, QuietKeeps
    <3> QED BY <1>3, <3>2, <3>3
  <2> QED BY <2>1, <2>2
<1> QED BY <1>1, <1>2, <1>3

(* The daemon stops; another client changes the workspace. *)
LEMMA EventsKeep ==
  ASSUME MountInv, NEW p, NEW text, Stop \/ Outside(p, text)
  PROVE  MountInv'
<1>1. CASE Stop
  <2>1. /\ handle' = [fd \in Fd |-> NoHandle] /\ nextFd' = 1
        /\ call' = [o \in Op |-> NoCall] /\ at' = [o \in Op |-> "idle"] /\ got' = [o \in Op |-> <<>>]
        /\ UNCHANGED <<saved, raced>>
    BY <1>1 DEF Stop, history
  <2>2. \A o \in Op : ~ Commits(o)'
    BY <2>1 DEF Commits
  <2>3. Tables' /\ Handles' /\ CleanHandlesAreSaved'
    BY <2>1 DEF MountInv, Tables, Handles, CleanHandlesAreSaved
  <2> QED BY <2>2, <2>3 DEF MountInv, CommitsOfHandles, ReleaseIsAlone, CommitsCarryTheBuffer
<1>2. CASE Outside(p, text)
  <2>1. UNCHANGED <<handle, nextFd, history, call, at, got>>
    BY <1>2 DEF Outside, session, request
  <2>2. NoNewCommit
    BY <2>1 DEF NoNewCommit, Commits, MountInv, Tables
  <2> QED BY <2>1, <2>2, QuietKeeps
<1> QED BY <1>1, <1>2

(* Every step keeps the invariant. *)
LEMMA StepKeeps ==
  ASSUME MountInv, [Next]_vars
  PROVE  MountInv'
<1>1. CASE \E o \in Op : Arrive(o)
  <2>1. PICK o \in Op : Arrive(o)
    BY <1>1
  <2>2. CASE \E p, append : OpenRefused(o, p) \/ OpenTruncated(o, p, append)
                             \/ OpenQuery(o, p, append) \/ OpenForWriting(o, p, append)
                             \/ OpenForReading(o, p) \/ Create(o, p)
    BY <2>2, OpensKeep
  <2>3. CASE \E d \in Fd, kind \in {"flush", "release"} : \E chunk, n :
               Write(o, d, chunk, n) \/ Ftruncate(o, d, n) \/ BadHandle(o, d)
               \/ CommitNothing(o, kind, d) \/ Commit(o, kind, d)
    BY <2>3, DescriptorRequestsKeep
  <2>4. CASE \E p, q, x : Refuse(o, p) \/ Destroy(o)
               \/ Unlink(o, p) \/ Mkdir(o, p) \/ Rmdir(o, p) \/ Rename(o, p, q)
               \/ Truncate(o, p, x) \/ AppendFile(o, p, x)
    BY <2>4, CoreRequestsKeep
  <2> QED BY <2>1, <2>2, <2>3, <2>4 DEF Arrive
<1>2. CASE \E o \in Op : Continue(o)
  BY <1>2, AnswersKeep, StoresKeep, StoredKeeps DEF Continue
<1>3. CASE Stop \/ \E p, text : Outside(p, text)
  BY <1>3, EventsKeep
<1>4. CASE UNCHANGED vars
  <2>1. UNCHANGED <<handle, nextFd, history, call, at, got>>
    BY <1>4 DEF vars, session, request
  <2>2. NoNewCommit
    BY <2>1 DEF NoNewCommit, Commits, MountInv, Tables
  <2> QED BY <2>1, <2>2, QuietKeeps
<1> QED BY <1>1, <1>2, <1>3, <1>4 DEF Next

(* The invariant holds at the start. *)
LEMMA InitHolds == Init => MountInv
<1> SUFFICES ASSUME Init PROVE MountInv
  OBVIOUS
<1>1. /\ handle = [fd \in Fd |-> NoHandle] /\ nextFd = 1
      /\ call = [o \in Op |-> NoCall] /\ at = [o \in Op |-> "idle"] /\ got = [o \in Op |-> <<>>]
      /\ saved = [fd \in Fd |-> <<>>] /\ raced = [fd \in Fd |-> FALSE]
  BY DEF Init
<1>2. \A o \in Op : ~ Commits(o)
  BY <1>1 DEF Commits
<1>3. Tables /\ Handles /\ CleanHandlesAreSaved
  BY <1>1 DEF Tables, Handles, CleanHandlesAreSaved
<1> QED BY <1>2, <1>3 DEF MountInv, CommitsOfHandles, ReleaseIsAlone, CommitsCarryTheBuffer

(* The invariant holds in every state of a mount. *)
LEMMA InvHolds == Spec => []MountInv
BY InitHolds, StepKeeps, PTL DEF Spec

-----------------------------------------------------------------------------
(* A handle that is not marked dirty, and was not written during a commit, *)
(* holds what was read or stored through it (commitHandle).                *)
THEOREM CleanSaved == Spec => []CleanHandlesAreSaved
<1>1. MountInv => CleanHandlesAreSaved
  BY DEF MountInv
<1> QED BY <1>1, InvHolds, PTL

(* Nothing but the step after the API's answer tells a flush or a release  *)
(* that it succeeded. *)
LEMMA OnlyStoredSucceeds ==
  ASSUME MountInv, Next, NEW o \in Op, at[o] # "idle", at'[o] = "idle", told' = "ok"
  PROVE  Stored(o)
<1>1. PICK u \in Op : Continue(u)
  BY DEF Next
<1>2. Stored(u)
  <2>1. ~ (Upload(u) \/ Recall(u))
    BY DEF Upload, Recall, Fail, EndWith
  <2> QED BY <1>1, <2>1 DEF Continue
<1>3. u # o => at'[o] = at[o]
  BY <1>2, ReplyEnds DEF Stored, Goto, EndWith, MountInv, Tables
<1> QED BY <1>2, <1>3

(* A flush or a release is answered with success only when the bytes of    *)
(* its handle are stored, unless the handle was written during a commit    *)
(* (flush, fsync and release of apps/mountd).                              *)
THEOREM SuccessStored == Spec => SuccessMeansStored
<1>1. MountInv /\ [Next]_vars =>
        [\A o \in Op :
           at[o] # "idle" /\ call[o].kind \in {"flush", "release"} /\ ~ raced[call[o].fd]
             /\ at'[o] = "idle" /\ told' = "ok"
           => saved[call[o].fd] = handle[call[o].fd].buffer]_vars
  <2> SUFFICES ASSUME MountInv, Next, NEW o \in Op, at[o] # "idle",
                      call[o].kind \in {"flush", "release"}, ~ raced[call[o].fd],
                      at'[o] = "idle", told' = "ok"
               PROVE  saved[call[o].fd] = handle[call[o].fd].buffer
    OBVIOUS
  <2>1. at[o] = "stored"
    BY OnlyStoredSucceeds DEF Stored
  <2> QED BY <2>1 DEF MountInv, CommitsCarryTheBuffer, Commits
<1> QED BY <1>1, InvHolds, PTL DEF Spec, SuccessMeansStored
-----------------------------------------------------------------------------
(* Directories. *)

(* A path lies one level below its front, and its last name tells it from  *)
(* its siblings. *)
LEMMA OneLevelBelow ==
  ASSUME NEW p \in Seq(STRING) \ {<<>>}, NEW q \in Seq(STRING) \ {<<>>}
  PROVE  /\ Len(Front(p)) + 1 = Len(p)
         /\ IsStrictPrefix(Front(p), q) /\ q[Len(p)] = Last(p) <=> q = p \/ IsStrictPrefix(p, q)
<1>1. /\ Len(p) \in Nat /\ Len(p) >= 1 /\ Len(q) \in Nat /\ Len(q) >= 1
      /\ DOMAIN p = 1..Len(p) /\ DOMAIN q = 1..Len(q)
  OBVIOUS
<1>2. /\ Front(p) \in Seq(STRING) /\ Len(Front(p)) = Len(p) - 1
      /\ \A i \in 1 .. Len(p) - 1 : Front(p)[i] = p[i]
  BY <1>1 DEF Front
<1>3. IsPrefix(Front(p), q) <=> Len(p) - 1 <= Len(q) /\ \A i \in 1 .. Len(p) - 1 : p[i] = q[i]
  BY <1>1, <1>2 DEF IsPrefix
<1>4. IsPrefix(p, q) <=> Len(p) <= Len(q) /\ \A i \in 1 .. Len(p) : p[i] = q[i]
  BY <1>1 DEF IsPrefix
<1> QED BY <1>1, <1>2, <1>3, <1>4 DEF IsStrictPrefix, Last

(* So the listing of a folder shows what is there.                         *)
LEMMA ListsWhatIsThere ==
  ASSUME dirs \subseteq Folder, NEW p \in Path \cup Folder
  PROVE  Stat(p) # "missing" <=> Last(p) \in List(Front(p))
<1>1. /\ Files \cup dirs \subseteq Seq(STRING) \ {<<>>}
      /\ p \in Seq(STRING) \ {<<>>}
  BY MountAssumption DEF Files
<1>2. Stat(p) # "missing" <=> \E q \in Files \cup dirs : q = p \/ IsStrictPrefix(p, q)
  BY <1>1 DEF Stat, DirectoryExists
<1>3. Last(p) \in Children(Front(p)) <=> \E q \in Files \cup dirs : q = p \/ IsStrictPrefix(p, q)
  <2>1. Last(p) \in Children(Front(p))
          <=> \E q \in Files \cup dirs : IsStrictPrefix(Front(p), q) /\ q[Len(Front(p)) + 1] = Last(p)
    BY DEF Children
  <2>2. Len(Front(p)) + 1 = Len(p)
    BY <1>1, OneLevelBelow
  <2>3. \A q \in Files \cup dirs :
          IsStrictPrefix(Front(p), q) /\ q[Len(p)] = Last(p) <=> q = p \/ IsStrictPrefix(p, q)
    BY <1>1, OneLevelBelow
  <2> QED BY <2>1, <2>2, <2>3
<1>4. Last(p) \in Children(Front(p)) => DirectoryExists(Front(p))
  BY DEF Children, DirectoryExists
<1> QED BY <1>2, <1>3, <1>4 DEF List

-----------------------------------------------------------------------------
(* The values of the variables. *)

(* The requests that may await a call of the API. *)
Asked(c, label) ==
  /\ c \in Call
  /\ c.kind = "rename" => c.path # c.to
  /\ label = "list" => c.kind \in {"view", "mkdir", "rmdir"}
  /\ label = "read" => c.kind \in {"open", "rename", "truncate", "append"}
  /\ label = "open" => c.kind = "open"
  /\ label = "upload" => c.kind \in {"rename", "truncate", "append", "flush", "release"} /\ c.path \in Path
  /\ label = "stored" => c.kind \in {"rename", "truncate", "append", "flush", "release"}
  /\ label = "recall" => c.kind \in {"flush", "release"} /\ c.path \in Query
  /\ label = "delete" => c.kind \in {"unlink", "rename"}

Requests ==
  /\ call \in [Op -> Call \cup {NoCall}]
  /\ at \in [Op -> Awaits]
  /\ got \in [Op -> Text]
  /\ \A o \in Op : at[o] # "idle" => Asked(call[o], at[o])

Sessions ==
  /\ handle \in [Fd -> Handle \cup {NoHandle}]
  /\ nextFd \in 1 .. MaxFd + 1
  /\ dirs \subseteq Folder
  /\ asked \in [Query -> Text] /\ shown \in [Query -> Text]
  /\ saved \in [Fd -> Text] /\ raced \in [Fd -> BOOLEAN]

(* The handle of a commit is there until it ends.                          *)
CommitsHold == \A o \in Op : Commits(o) => handle[call[o].fd] # NoHandle

Rest ==
  /\ mode \in {"read-only", "read-write"} /\ allow \in BOOLEAN
  /\ file \in [Path -> Text \cup {NoFile}]
  /\ kept \subseteq Op

Typed == Requests /\ Sessions /\ CommitsHold /\ Rest

(* The fields that requests of each kind have.                             *)
LEMMA CallFields ==
  ASSUME NEW c \in Call
  PROVE  /\ c.kind \in {"open", "view", "unlink", "truncate", "append"} => c.path \in Path
         /\ c.kind \in {"mkdir", "rmdir"} => c.path \in Folder
         /\ c.kind = "open" => c.append \in BOOLEAN
         /\ c.kind = "rename" => c.path \in Path /\ c.to \in Path
         /\ c.kind = "truncate" => c.size \in Nat
         /\ c.kind = "append" => c.bytes \in Text
         /\ c.kind \in {"flush", "release"} => c.fd \in Fd
BY Zenon DEF Call

(* A handler that calls back; one that suspends; one that goes on.         *)
LEMMA RequestsReply ==
  ASSUME Requests, NEW o \in Op, Reply(o)
  PROVE  Requests'
<1>1. <<>> \in Text
  BY DEF Text
<1> QED BY <1>1 DEF Requests, Reply, Awaits, Asked

LEMMA RequestsSuspend ==
  ASSUME Requests, NEW o \in Op, NEW c, NEW label \in Awaits, Asked(c, label), Suspend(o, c, label),
         got' \in [Op -> Text]
  PROVE  Requests'
BY DEF Requests, Suspend, Asked

LEMMA RequestsGoOn ==
  ASSUME Requests, NEW o \in Op, NEW label \in Awaits, Asked(call[o], label), Goto(o, label),
         got' \in [Op -> Text]
  PROVE  Requests'
<1>1. call' = call /\ at' \in [Op -> Awaits] /\ at'[o] = label /\ \A u \in Op : u # o => at'[u] = at[u]
  BY DEF Requests, Goto
<1>2. \A u \in Op : at'[u] # "idle" => Asked(call[u], at'[u])
  BY <1>1 DEF Requests
<1> QED BY <1>1, <1>2 DEF Requests, Asked

(* Texts stay texts. *)
LEMMA TextsMade ==
  ASSUME NEW b \in Text, NEW c \in Text, NEW n \in Nat
  PROVE  /\ ApplyWrite(b, c, n) \in Text
         /\ Resize(b, n) \in Text
         /\ b \o c \in Text
         /\ <<>> \in Text
BY DEF Text, ApplyWrite, Resize

(* Steps that leave the handles alone. *)
LEMMA QuietTyped ==
  ASSUME Typed, NoNewCommit, Requests', UNCHANGED <<session, history>>
  PROVE  Sessions' /\ CommitsHold'
<1>1. Sessions'
  BY DEF Typed, Sessions, session, history
<1>2. CommitsHold'
  BY DEF Typed, CommitsHold, NoNewCommit, session
<1> QED BY <1>1, <1>2

(* A new handle. *)
LEMMA NewHandleTyped ==
  ASSUME Typed, NoNewCommit, Requests', NEW h \in Handle, NewHandle(h)
  PROVE  Sessions' /\ CommitsHold'
<1>1. /\ nextFd \in Fd /\ nextFd' = nextFd + 1 /\ UNCHANGED <<dirs, asked, shown>>
      /\ handle' = [handle EXCEPT ![nextFd] = h] /\ saved' = [saved EXCEPT ![nextFd] = h.buffer]
      /\ raced' = [raced EXCEPT ![nextFd] = FALSE]
  BY DEF NewHandle
<1>2. nextFd' \in 1 .. MaxFd + 1
  BY <1>1, MountAssumption DEF Fd
<1>3. h.buffer \in Text
  BY DEF Handle
<1>4. Sessions'
  BY <1>1, <1>2, <1>3 DEF Typed, Sessions
<1>5. h # NoHandle
  BY MountAssumption DEF Handle
<1>6. CommitsHold'
  BY <1>1, <1>5 DEF Typed, Sessions, CommitsHold, NoNewCommit
<1> QED BY <1>4, <1>6

(* A buffer that is changed. *)
LEMMA SetBufferTyped ==
  ASSUME Typed, NoNewCommit, Requests', NEW d \in Fd, handle[d] # NoHandle, NEW b \in Text, SetBuffer(d, b)
  PROVE  Sessions' /\ CommitsHold'
<1>1. PICK h : h = [handle[d] EXCEPT !.buffer = b, !.dirty = TRUE]
  OBVIOUS
<1>2. h \in Handle /\ h # NoHandle
  BY <1>1, MountAssumption DEF Typed, Sessions, Handle
<1>3. handle' = [handle EXCEPT ![d] = h]
  BY <1>1 DEF SetBuffer, Typed, Sessions
<1>4. handle' \in [Fd -> Handle \cup {NoHandle}]
  BY <1>2, <1>3 DEF Typed, Sessions
<1>5. raced' \in [Fd -> BOOLEAN]
  <2>1. raced' = [raced EXCEPT ![d] = raced[d] \/ Committing(d)]
    BY DEF SetBuffer
  <2>2. (raced[d] \/ Committing(d)) \in BOOLEAN
    BY Zenon DEF Typed, Sessions, Committing
  <2>3. PICK r \in BOOLEAN : r = (raced[d] \/ Committing(d))
    BY <2>2
  <2>4. raced' = [raced EXCEPT ![d] = r]
    BY <2>1, <2>3, Zenon
  <2> QED BY <2>4 DEF Typed, Sessions
<1>6. Sessions'
  BY <1>4, <1>5 DEF SetBuffer, Typed, Sessions
<1>7. CommitsHold'
  BY <1>2, <1>3 DEF Typed, Sessions, CommitsHold, NoNewCommit
<1> QED BY <1>6, <1>7

(* A handle that is dropped. *)
LEMMA DropTyped ==
  ASSUME Typed, NoNewCommit, Requests', NEW d \in Fd, handle' = [handle EXCEPT ![d] = NoHandle],
         \A u \in Op : Commits(u)' => call[u].fd # d,
         UNCHANGED <<nextFd, dirs, asked, shown, raced>>, saved' \in [Fd -> Text]
  PROVE  Sessions' /\ CommitsHold'
<1>1. Sessions'
  BY DEF Typed, Sessions
<1>2. CommitsHold'
  BY DEF Typed, Sessions, CommitsHold, NoNewCommit
<1> QED BY <1>1, <1>2

-----------------------------------------------------------------------------
(* Each action keeps the types. *)

(* What a step leaves the rest of the state as. *)
LEMMA RestKept ==
  ASSUME Rest, UNCHANGED <<options, file, kept>>
  PROVE  Rest'
BY DEF Rest, options

(* Opens and creations. *)
LEMMA OpensTyped ==
  ASSUME MountInv, Typed, NEW o \in Op, NEW p \in Path \cup Query, NEW append \in BOOLEAN,
         \/ OpenRefused(o, p) \/ OpenTruncated(o, p, append) \/ Create(o, p)
         \/ p \in Query /\ OpenQuery(o, p, append)
         \/ p \in Path /\ (OpenForWriting(o, p, append) \/ OpenForReading(o, p))
  PROVE  Typed'
<1>1. Rest'
  BY RestKept DEF Typed, OpenRefused, OpenTruncated, Create, OpenQuery, OpenForWriting, OpenForReading
<1>2. Requests /\ <<>> \in Text /\ TRUE \in BOOLEAN /\ FALSE \in BOOLEAN
  BY DEF Typed, Text
<1>3. CASE Reply(o)
  <2>1. Requests' /\ NoNewCommit
    BY <1>2, <1>3, RequestsReply, ReplyEnds DEF MountInv
  <2>2. CASE UNCHANGED <<session, history>>
    BY <1>1, <2>1, <2>2, QuietTyped DEF Typed
  <2>3. CASE OpenTruncated(o, p, append)
    <3>1. [path |-> p, buffer |-> <<>>, dirty |-> FALSE, append |-> append, writing |-> TRUE] \in Handle
      BY <1>2 DEF Handle
    <3> QED BY <1>1, <2>1, <2>3, <3>1, NewHandleTyped DEF Typed, OpenTruncated
  <2>4. CASE p \in Query /\ OpenQuery(o, p, append)
    <3>1. [path |-> p, buffer |-> asked[p], dirty |-> FALSE, append |-> append, writing |-> TRUE] \in Handle
      BY <1>2, <2>4 DEF Handle, Typed, Sessions
    <3> QED BY <1>1, <2>1, <2>4, <3>1, NewHandleTyped DEF Typed, OpenQuery
  <2>5. CASE Create(o, p)
    <3>1. [path |-> p, buffer |-> <<>>, dirty |-> TRUE, append |-> FALSE, writing |-> TRUE] \in Handle
      BY <1>2 DEF Handle
    <3> QED BY <1>1, <2>1, <2>5, <3>1, NewHandleTyped DEF Typed, Create
  <2> QED BY <2>2, <2>3, <2>4, <2>5 DEF OpenRefused, OpenForWriting, OpenForReading
<1>4. CASE p \in Path /\ OpenForWriting(o, p, append)
  <2>1. Asked([kind |-> "open", path |-> p, append |-> append], "read")
    BY <1>4 DEF Asked, Call
  <2>2. Requests' /\ NoNewCommit
    BY <1>2, <1>4, <2>1, RequestsSuspend, SuspendsOther DEF OpenForWriting, MountInv, Requests, Awaits
  <2> QED BY <1>1, <1>4, <2>2, QuietTyped DEF Typed, OpenForWriting
<1>5. CASE p \in Path /\ OpenForReading(o, p)
  <2>1. Asked([kind |-> "view", path |-> p], "list")
    BY <1>5 DEF Asked, Call
  <2>2. Requests' /\ NoNewCommit
    BY <1>2, <1>5, <2>1, RequestsSuspend, SuspendsOther DEF OpenForReading, MountInv, Requests, Awaits
  <2> QED BY <1>1, <1>5, <2>2, QuietTyped DEF Typed, OpenForReading
<1> QED BY <1>3, <1>4, <1>5 DEF OpenRefused, OpenTruncated, Create, OpenQuery

(* What a client writes is a text. *)
LEMMA ChunksAreTexts == Chunk \subseteq Text
<1> SUFFICES ASSUME NEW b \in Byte PROVE <<b>> \in Text
  BY DEF Chunk
<1>1. b \in Byte \cup {Zero}
  OBVIOUS
<1> QED BY <1>1 DEF Text

(* Requests on a descriptor. *)
LEMMA DescriptorRequestsTyped ==
  ASSUME MountInv, Typed, NEW o \in Op, NEW d \in Fd, NEW kind \in {"flush", "release"},
         \/ \E chunk \in Chunk, n \in 0..MaxOffset : Write(o, d, chunk, n)
         \/ \E n \in 0..MaxOffset : Ftruncate(o, d, n)
         \/ BadHandle(o, d) \/ CommitNothing(o, kind, d) \/ Commit(o, kind, d)
  PROVE  Typed'
<1>1. Rest'
  BY RestKept DEF Typed, Write, Ftruncate, BadHandle, CommitNothing, Commit
<1>2. handle[d] # NoHandle /\ handle[d] \in Handle
  BY DEF Typed, Sessions, Write, Ftruncate, BadHandle, CommitNothing, Commit, MayCommit, Held
<1>3. /\ Chunk \subseteq Text /\ 0..MaxOffset \subseteq Nat /\ Requests
      /\ handle[d].buffer \in Text /\ Len(handle[d].buffer) \in Nat /\ handle[d].path \in Path \cup Query
  <2>1. handle[d].buffer \in Text /\ handle[d].path \in Path \cup Query
    BY <1>2 DEF Handle
  <2> QED BY <2>1, ChunksAreTexts, MountAssumption DEF Typed, Text
<1>4. CASE Reply(o) /\ ~ Commit(o, kind, d)
  <2>1. Requests' /\ NoNewCommit
    BY <1>3, <1>4, RequestsReply, ReplyEnds DEF MountInv
  <2>2. CASE UNCHANGED <<session, history>>
    BY <1>1, <2>1, <2>2, QuietTyped DEF Typed
  <2>3. CASE \E chunk \in Chunk, n \in 0..MaxOffset : Write(o, d, chunk, n)
    <3>1. PICK chunk \in Chunk, k \in Nat : SetBuffer(d, ApplyWrite(handle[d].buffer, chunk, k))
      BY <1>3, <2>3 DEF Write
    <3>2. ApplyWrite(handle[d].buffer, chunk, k) \in Text
      BY <1>3, TextsMade
    <3> QED BY <1>1, <1>2, <2>1, <3>1, <3>2, SetBufferTyped DEF Typed
  <2>4. CASE \E n \in 0..MaxOffset : Ftruncate(o, d, n)
    <3>1. PICK n \in Nat : SetBuffer(d, Resize(handle[d].buffer, n))
      BY <1>3, <2>4 DEF Ftruncate
    <3>2. Resize(handle[d].buffer, n) \in Text
      BY <1>3, TextsMade
    <3> QED BY <1>1, <1>2, <2>1, <3>1, <3>2, SetBufferTyped DEF Typed
  <2>5. CASE CommitNothing(o, "flush", d) /\ kind = "flush"
    <3>1. UNCHANGED <<session, history>>
      BY <2>5 DEF CommitNothing, Closed, session
    <3> QED BY <2>2, <3>1
  <2>6. CASE CommitNothing(o, "release", d) /\ kind = "release"
    <3>1. \A u \in Op : Commits(u)' => call[u].fd # d
      BY <2>1, <2>6 DEF CommitNothing, MayCommit, NoNewCommit, Commits, Committing
    <3>2. /\ handle' = [handle EXCEPT ![d] = NoHandle]
          /\ UNCHANGED <<nextFd, dirs, asked, shown, raced>> /\ saved' \in [Fd -> Text]
      BY <2>6 DEF CommitNothing, Closed, history, Typed, Sessions
    <3> QED BY <1>1, <2>1, <3>1, <3>2, DropTyped DEF Typed
  <2> QED BY <1>4, <2>2, <2>3, <2>4, <2>5, <2>6 DEF BadHandle
<1>5. CASE Commit(o, kind, d)
  <2> DEFINE c == [kind |-> kind, path |-> handle[d].path, fd |-> d]
             label == IF handle[d].path \in Query THEN "recall" ELSE "upload"
  <2>1. /\ Suspend(o, c, label) /\ got' = [got EXCEPT ![o] = handle[d].buffer]
        /\ asked' = [k \in Query |-> IF k = handle[d].path THEN handle[d].buffer ELSE asked[k]]
        /\ UNCHANGED <<handle, nextFd, dirs, shown, saved, raced>>
    BY <1>5 DEF Commit, history
  <2>2. Asked(c, label) /\ label \in Awaits
    BY <1>3 DEF Asked, Call, Awaits
  <2>3. got' \in [Op -> Text]
    BY <1>3, <2>1 DEF Requests
  <2>4. Requests'
    BY <1>3, <2>1, <2>2, <2>3, RequestsSuspend
  <2>5. Sessions'
    BY <1>3, <2>1 DEF Typed, Sessions
  <2>6. CommitsHold'
    BY <1>2, <2>1 DEF Typed, CommitsHold, Requests, Suspend, Commits
  <2> QED BY <1>1, <2>4, <2>5, <2>6 DEF Typed
<1> QED BY <1>4, <1>5 DEF Write, Ftruncate, BadHandle, CommitNothing

(* A request that begins an operation of the mount core. *)
LEMMA BeginTyped ==
  ASSUME MountInv, Typed, NEW o \in Op, NEW c, NEW label \in Awaits, Begin(o, c, label), Asked(c, label),
         c.kind \notin {"flush", "release"}
  PROVE  Typed'
<1>1. Rest' /\ NoNewCommit
  BY RestKept, SuspendsOther DEF Typed, Begin, MountInv
<1>2. Requests'
  BY RequestsSuspend DEF Begin, Typed, Requests
<1> QED BY <1>1, <1>2, QuietTyped DEF Typed, Begin

(* Operations of the mount core. *)
LEMMA CoreRequestsTyped ==
  ASSUME MountInv, Typed, NEW o \in Op, NEW p,
         \/ Refuse(o, p) \/ Destroy(o)
         \/ p \in Path /\ Unlink(o, p)
         \/ p \in Folder /\ (Mkdir(o, p) \/ Rmdir(o, p))
         \/ p \in Path /\ \E q \in Path : Rename(o, p, q)
         \/ p \in Path /\ \E size \in 0..MaxOffset : Truncate(o, p, size)
         \/ p \in Path /\ \E bytes \in Chunk : AppendFile(o, p, bytes)
  PROVE  Typed'
<1> USE DEF Asked, Call, Awaits
<1>1. CASE Refuse(o, p) \/ Destroy(o)
  <2>1. Reply(o) /\ UNCHANGED <<options, file, kept, handle, nextFd, asked, shown, history>> /\ dirs' \subseteq dirs
    BY <1>1 DEF Refuse, Destroy, session
  <2>2. Requests' /\ NoNewCommit
    BY <2>1, RequestsReply, ReplyEnds DEF MountInv, Typed
  <2>3. Sessions' /\ CommitsHold'
    BY <2>1, <2>2 DEF Typed, Sessions, CommitsHold, NoNewCommit, history
  <2> QED BY <2>1, <2>2, <2>3, RestKept DEF Typed
<1>2. CASE p \in Path /\ Unlink(o, p)
  BY <1>2, BeginTyped DEF Unlink
<1>3. CASE p \in Folder /\ Mkdir(o, p)
  BY <1>3, BeginTyped DEF Mkdir
<1>4. CASE p \in Folder /\ Rmdir(o, p)
  BY <1>4, BeginTyped DEF Rmdir
<1>5. CASE p \in Path /\ \E q \in Path : Rename(o, p, q)
  BY <1>5, BeginTyped DEF Rename
<1>6. CASE p \in Path /\ \E size \in 0..MaxOffset : Truncate(o, p, size)
  BY <1>6, BeginTyped, MountAssumption DEF Truncate
<1>7. CASE p \in Path /\ \E bytes \in Chunk : AppendFile(o, p, bytes)
  <2>1. Chunk \subseteq Text
    BY ChunksAreTexts
  <2> QED BY <1>7, <2>1, BeginTyped DEF AppendFile
<1> QED BY <1>1, <1>2, <1>3, <1>4, <1>5, <1>6, <1>7

(* A handler goes on after a listing, a text or a deletion. *)
LEMMA AnswersTyped ==
  ASSUME MountInv, Typed, NEW o \in Op,
         OpenFinish(o) \/ View(o) \/ ChangeFolder(o) \/ ReadText(o) \/ Delete(o)
  PROVE  Typed'
<1>1. /\ Requests /\ <<>> \in Text /\ TRUE \in BOOLEAN /\ FALSE \in BOOLEAN
      /\ call[o] \in Call /\ Asked(call[o], at[o]) /\ at[o] # "idle"
  BY DEF Typed, Text, Requests, Asked, OpenFinish, View, ChangeFolder, ReadText, Delete
<1>2. CASE Reply(o)
  <2>1. Requests' /\ NoNewCommit
    BY <1>1, <1>2, RequestsReply, ReplyEnds DEF MountInv
  <2>2. CASE UNCHANGED <<session, history>> /\ Rest'
    BY <2>1, <2>2, QuietTyped DEF Typed
  <2>3. CASE OpenFinish(o)
    <3>1. [path |-> call[o].path, buffer |-> got[o], dirty |-> FALSE,
           append |-> call[o].append, writing |-> TRUE] \in Handle
      BY <1>1, <2>3, CallFields DEF Handle, OpenFinish, Asked, Requests
    <3>2. Rest'
      BY <2>3, RestKept DEF OpenFinish, Typed
    <3> QED BY <2>1, <2>3, <3>1, <3>2, NewHandleTyped DEF Typed, OpenFinish
  <2>4. CASE View(o) /\ ~ UNCHANGED <<session, history>>
    <3>1. [path |-> call[o].path, buffer |-> <<>>, dirty |-> FALSE,
           append |-> FALSE, writing |-> FALSE] \in Handle
      BY <1>1, <2>4, CallFields DEF Handle, View
    <3>2. Rest'
      BY <2>4, RestKept DEF View, Typed
    <3> QED BY <2>1, <2>4, <3>1, <3>2, NewHandleTyped DEF Typed, View
  <2>5. CASE View(o) /\ UNCHANGED <<session, history>>
    BY <2>2, <2>5, RestKept DEF View, Typed
  <2>6. CASE ChangeFolder(o)
    <3>1. dirs' \subseteq Folder
      BY <1>1, <2>6, CallFields DEF ChangeFolder, Typed, Sessions
    <3>2. Sessions' /\ CommitsHold'
      BY <2>1, <2>6, <3>1 DEF ChangeFolder, Typed, Sessions, CommitsHold, NoNewCommit, history
    <3>3. Rest'
      BY <2>6, RestKept DEF ChangeFolder, Typed
    <3> QED BY <2>1, <3>2, <3>3 DEF Typed
  <2>7. CASE ReadText(o)
    <3>1. Rest'
      BY <2>7 DEF ReadText, Typed, Rest, options
    <3> QED BY <2>2, <2>7, <3>1 DEF ReadText
  <2>8. CASE Delete(o)
    <3>1. Rest'
      BY <2>8 DEF Delete, Typed, Rest, options, Untouched
    <3> QED BY <2>2, <2>8, <3>1 DEF Delete
  <2> QED BY <2>3, <2>4, <2>5, <2>6, <2>7, <2>8
<1>3. CASE ~ Reply(o)
  <2> DEFINE label == IF call[o].kind = "open" THEN "open" ELSE "upload"
  <2>1. /\ ReadText(o) /\ at[o] = "read" /\ call[o].path \in Files
        /\ got' = [got EXCEPT ![o] = Wanted(call[o], file[call[o].path])] /\ Goto(o, label)
        /\ UNCHANGED <<options, file, session, history>>
    BY <1>3 DEF OpenFinish, View, ChangeFolder, ReadText, Delete
  <2>2. file[call[o].path] \in Text /\ call[o].path \in Path
    BY <2>1 DEF Typed, Rest, Files
  <2>3. Wanted(call[o], file[call[o].path]) \in Text
    BY <1>1, <2>2, CallFields, TextsMade DEF Wanted
  <2>4. got' \in [Op -> Text]
    BY <1>1, <2>1, <2>3 DEF Requests
  <2>5. Asked(call[o], label) /\ label \in Awaits
    BY <1>1, <2>1, <2>2 DEF Asked, Awaits
  <2>6. Requests'
    BY <1>1, <2>1, <2>4, <2>5, RequestsGoOn
  <2>7. ~ Commits(o)
    BY <1>1, <2>1 DEF Commits, Asked
  <2>8. NoNewCommit
    BY <1>1, <2>1, <2>4, <2>7, GoesOn DEF MountInv, Requests
  <2>9. Rest'
    BY <2>1 DEF ReadText, Typed, Rest, options
  <2> QED BY <2>1, <2>6, <2>8, <2>9, QuietTyped DEF Typed
<1> QED BY <1>2, <1>3

(* A request that ends, and drops its handle if it is a release. *)
LEMMA EndTyped ==
  ASSUME MountInv, Typed, NEW o \in Op, at[o] # "idle", NEW value, EndWith(o, value),
         UNCHANGED <<nextFd, dirs, asked, raced>>,
         shown' \in [Query -> Text], saved' \in [Fd -> Text]
  PROVE  Requests' /\ Sessions' /\ CommitsHold'
<1>1. Requests' /\ NoNewCommit
  BY RequestsReply, ReplyEnds DEF EndWith, Typed, MountInv
<1>2. CASE call[o].kind = "release"
  <2>1. call[o].fd \in Fd /\ handle' = [handle EXCEPT ![call[o].fd] = NoHandle]
    BY <1>2, CallFields DEF EndWith, Typed, Requests, Asked
  <2>2. \A u \in Op : Commits(u)' => call[u].fd # call[o].fd
    <3> SUFFICES ASSUME NEW u \in Op, Commits(u)', call[u].fd = call[o].fd PROVE FALSE
      OBVIOUS
    <3>1. u # o
      BY DEF EndWith, Reply, Commits, Typed, Requests
    <3>2. Commits(u) /\ Commits(o)
      BY <1>1, <1>2 DEF NoNewCommit, Commits
    <3> QED BY <1>2, <3>1, <3>2 DEF MountInv, ReleaseIsAlone
  <2>3. Sessions'
    BY <2>1 DEF Typed, Sessions
  <2>4. CommitsHold'
    BY <1>1, <2>1, <2>2 DEF Typed, Sessions, CommitsHold, NoNewCommit
  <2> QED BY <1>1, <2>3, <2>4
<1>3. CASE call[o].kind # "release"
  <2>1. UNCHANGED handle
    BY <1>3 DEF EndWith
  <2> QED BY <1>1, <2>1 DEF Typed, Sessions, CommitsHold, NoNewCommit
<1> QED BY <1>2, <1>3

(* The store or the recall answers. *)
LEMMA StoresTyped ==
  ASSUME MountInv, Typed, NEW o \in Op, Upload(o) \/ Recall(o)
  PROVE  Typed'
<1>1. /\ Requests /\ call[o] \in Call /\ Asked(call[o], at[o]) /\ at[o] \in {"upload", "recall"}
      /\ got[o] \in Text
  BY DEF Typed, Requests, Asked, Upload, Recall
<1>2. Target(call[o]) \in Path \/ at[o] = "recall"
  BY <1>1, CallFields DEF Target, Asked
<1>3. SavedBy(o) \in [Fd -> Text]
  BY <1>1, CallFields DEF SavedBy, Typed, Sessions
<1>4. Rest'
  <2>1. CASE Upload(o)
    <3>1. file' \in [Path -> Text \cup {NoFile}]
      BY <1>1, <2>1 DEF Upload, Typed, Rest
    <3>2. kept' \subseteq Op
      BY <2>1 DEF Upload, Untouched, Typed, Rest
    <3> QED BY <2>1, <3>1, <3>2 DEF Upload, Typed, Rest, options
  <2>2. CASE Recall(o)
    BY <2>2, RestKept DEF Recall, Typed
  <2> QED BY <2>1, <2>2
<1>5. /\ UNCHANGED <<nextFd, dirs, asked, raced>> /\ saved' \in [Fd -> Text]
      /\ shown' \in [Query -> Text]
      /\ (Goto(o, "stored") /\ UNCHANGED <<got, handle>>) \/ Fail(o)
  BY <1>1, <1>3 DEF Upload, Recall, Typed, Sessions
<1>6. CASE Fail(o)
  BY <1>1, <1>4, <1>5, <1>6, EndTyped DEF Fail, Typed
<1>7. CASE Goto(o, "stored") /\ UNCHANGED <<got, handle>>
  <2>1. Asked(call[o], "stored") /\ "stored" \in Awaits /\ got' \in [Op -> Text]
    BY <1>1, <1>7 DEF Asked, Awaits, Requests
  <2>2. Requests'
    BY <1>1, <1>7, <2>1, RequestsGoOn
  <2>3. \A u \in Op : Commits(u)' => Commits(u) /\ call'[u] = call[u]
    BY <1>1, <1>7 DEF Commits, Goto, Requests
  <2>4. Sessions' /\ CommitsHold'
    BY <1>5, <1>7, <2>3 DEF Typed, Sessions, CommitsHold
  <2> QED BY <1>4, <2>2, <2>4 DEF Typed
<1> QED BY <1>5, <1>6, <1>7

(* After the answer. *)
LEMMA StoredTyped ==
  ASSUME MountInv, Typed, NEW o \in Op, Stored(o)
  PROVE  Typed'
<1>1. Rest'
  BY RestKept DEF Stored, Typed
<1>2. /\ Requests /\ call[o] \in Call /\ Asked(call[o], at[o]) /\ at[o] = "stored"
      /\ UNCHANGED <<nextFd, dirs, asked, shown, saved, raced>>
  BY DEF Typed, Requests, Asked, Stored, history
<1>3. CASE call[o].kind = "rename"
  <2>1. Goto(o, "delete") /\ UNCHANGED <<got, handle>>
    BY <1>3 DEF Stored
  <2>2. Asked(call[o], "delete") /\ "delete" \in Awaits /\ got' \in [Op -> Text]
    BY <1>2, <1>3, <2>1 DEF Asked, Awaits, Requests
  <2>3. Requests'
    BY <1>2, <2>1, <2>2, RequestsGoOn
  <2>4. \A u \in Op : Commits(u)' => Commits(u) /\ call'[u] = call[u]
    BY <1>2, <2>1 DEF Commits, Goto, Requests
  <2>5. Sessions' /\ CommitsHold'
    BY <1>2, <2>1, <2>4 DEF Typed, Sessions, CommitsHold
  <2> QED BY <1>1, <2>3, <2>5 DEF Typed
<1>4. CASE call[o].kind = "flush"
  <2>1. Reply(o) /\ handle' = [handle EXCEPT ![call[o].fd].dirty = FALSE]
    BY <1>4 DEF Stored
  <2>2. Requests' /\ NoNewCommit
    BY <1>2, <2>1, RequestsReply, ReplyEnds DEF MountInv
  <2>3. call[o].fd \in Fd /\ handle[call[o].fd] \in Handle
    BY <1>2, <1>4, CallFields DEF Typed, Sessions, CommitsHold, Commits
  <2>4. PICK h : h = [handle[call[o].fd] EXCEPT !.dirty = FALSE]
    OBVIOUS
  <2>5. h \in Handle /\ h # NoHandle
    BY <2>3, <2>4, MountAssumption DEF Handle
  <2>6. handle' = [handle EXCEPT ![call[o].fd] = h]
    BY <2>1, <2>4 DEF Typed, Sessions
  <2>7. Sessions'
    BY <1>2, <2>5, <2>6 DEF Typed, Sessions
  <2>8. CommitsHold'
    BY <2>2, <2>5, <2>6 DEF Typed, Sessions, CommitsHold, NoNewCommit
  <2> QED BY <1>1, <2>2, <2>7, <2>8 DEF Typed
<1>5. CASE call[o].kind \notin {"rename", "flush"}
  <2>1. EndWith(o, "ok")
    BY <1>5 DEF Stored
  <2>2. shown' \in [Query -> Text] /\ saved' \in [Fd -> Text]
    BY <1>2 DEF Typed, Sessions
  <2> QED BY <1>1, <1>2, <2>1, <2>2, EndTyped DEF Typed
<1> QED BY <1>3, <1>4, <1>5

(* The daemon stops; another client changes the workspace. *)
LEMMA EventsTyped ==
  ASSUME MountInv, Typed,
         Stop \/ \E p \in Path, text \in Chunk \cup {NoFile} : Outside(p, text)
  PROVE  Typed'
<1>1. CASE Stop
  <2>1. <<>> \in Text
    BY DEF Text
  <2>2. Requests'
    BY <1>1, <2>1 DEF Stop, Requests, Awaits
  <2>3. Sessions'
    BY <1>1, <2>1, MountAssumption DEF Stop, Typed, Sessions, history
  <2>4. CommitsHold' /\ Rest'
    BY <1>1 DEF Stop, CommitsHold, Commits, Typed, Rest, options
  <2> QED BY <2>2, <2>3, <2>4 DEF Typed
<1>2. CASE \E p \in Path, text \in Chunk \cup {NoFile} : Outside(p, text)
  <2> PICK p \in Path, text \in Chunk \cup {NoFile} : Outside(p, text)
    BY <1>2
  <2>1. /\ UNCHANGED <<options, session, history, call, at, got>>
        /\ file' = [file EXCEPT ![p] = text] /\ kept' \subseteq kept
    BY DEF Outside, request
  <2>2. text \in Text \cup {NoFile}
    BY ChunksAreTexts
  <2>3. Requests' /\ NoNewCommit
    BY <2>1 DEF Typed, Requests, NoNewCommit, Commits, MountInv, Tables
  <2>4. Rest'
    BY <2>1, <2>2 DEF Typed, Rest, options
  <2> QED BY <2>1, <2>3, <2>4, QuietTyped DEF Typed
<1> QED BY <1>1, <1>2

(* Every step keeps the types. *)
LEMMA StepTyped ==
  ASSUME MountInv, Typed, [Next]_vars
  PROVE  Typed'
<1>1. CASE \E o \in Op : Arrive(o)
  <2>1. PICK o \in Op : Arrive(o)
    BY <1>1
  <2>2. CASE \E p \in Path \cup Query, append \in BOOLEAN :
               \/ OpenRefused(o, p) \/ OpenTruncated(o, p, append) \/ Create(o, p)
               \/ p \in Query /\ OpenQuery(o, p, append)
               \/ p \in Path /\ (OpenForWriting(o, p, append) \/ OpenForReading(o, p))
    BY <2>2, OpensTyped
  <2>3. CASE \E d \in Fd, kind \in {"flush", "release"} :
               \/ \E chunk \in Chunk, n \in 0..MaxOffset : Write(o, d, chunk, n)
               \/ \E n \in 0..MaxOffset : Ftruncate(o, d, n)
               \/ BadHandle(o, d) \/ CommitNothing(o, kind, d) \/ Commit(o, kind, d)
    BY <2>3, DescriptorRequestsTyped
  <2>4. CASE Destroy(o) \/ \E p \in Path \cup Query : Refuse(o, p)
    BY <2>4, CoreRequestsTyped
  <2>5. CASE \E p \in Path :
               \/ Unlink(o, p) \/ \E q \in Path : Rename(o, p, q)
               \/ \E size \in 0..MaxOffset : Truncate(o, p, size)
               \/ \E bytes \in Chunk : AppendFile(o, p, bytes)
    BY <2>5, CoreRequestsTyped
  <2>6. CASE \E p \in Folder : Mkdir(o, p) \/ Rmdir(o, p)
    BY <2>6, CoreRequestsTyped
  <2>7. (\E d \in Fd, kind \in {"flush", "release"} : BadHandle(o, d)) <=> \E d \in Fd : BadHandle(o, d)
    OBVIOUS
  <2>8. (\E p \in Path, append \in BOOLEAN : OpenForReading(o, p)) <=> \E p \in Path : OpenForReading(o, p)
    OBVIOUS
  <2> QED BY <2>1, <2>2, <2>3, <2>4, <2>5, <2>6, <2>7, <2>8, Zenon DEF Arrive
<1>2. CASE \E o \in Op : Continue(o)
  BY <1>2, AnswersTyped, StoresTyped, StoredTyped DEF Continue
<1>3. CASE Stop \/ \E p \in Path, text \in Chunk \cup {NoFile} : Outside(p, text)
  BY <1>3, EventsTyped
<1>4. CASE UNCHANGED vars
  <2>1. UNCHANGED <<options, file, session, call, at, got, history, kept>>
    BY <1>4 DEF vars, request
  <2>2. Requests' /\ NoNewCommit
    BY <2>1 DEF Typed, Requests, NoNewCommit, Commits, MountInv, Tables
  <2> QED BY <2>1, <2>2, QuietTyped, RestKept DEF Typed
<1> QED BY <1>1, <1>2, <1>3, <1>4 DEF Next

(* The types hold at the start. *)
LEMMA InitTyped == Init => Typed
<1> SUFFICES ASSUME Init PROVE Typed
  OBVIOUS
<1>1. \A b \in Byte : <<b>> \in Text
  BY ChunksAreTexts DEF Chunk
<1>2. <<>> \in Text
  BY DEF Text
<1>3. Rest
  BY <1>1 DEF Init, Rest
<1>4. Sessions
  BY <1>2, MountAssumption DEF Init, Sessions
<1>5. Requests /\ CommitsHold
  BY <1>2 DEF Init, Requests, CommitsHold, Commits, Awaits
<1> QED BY <1>3, <1>4, <1>5 DEF Typed

\* What the last step answered.
Answered == told \in {"none", "ok", "error"}

(* The variables of the daemon and of the mount core keep their types: a   *)
(* handler that resumes finds the request, and a commit the handle, that   *)
(* it was suspended with.                                                  *)
THEOREM MountTyped == Spec => []TypeOK
<1>1. Init => Answered
  BY DEF Init, Answered
<1>2. Answered /\ [Next]_vars => Answered'
  BY DEF Answered, Next, Continue, Upload, Recall, Stored, Fail, EndWith, vars
<1>3. Typed /\ Answered => TypeOK
  BY DEF Typed, Answered, Requests, Sessions, Rest, TypeOK
<1> QED BY <1>1, <1>2, <1>3, InitTyped, StepTyped, InitHolds, StepKeeps, PTL DEF Spec

(* What a directory lists is what getattr finds, for any paths and folders *)
(* (stat and list of packages/mount-core).                                 *)
THEOREM ListsTrue == Spec => []ListedIffFound
<1>1. TypeOK => ListedIffFound
  BY ListsWhatIsThere DEF TypeOK, ListedIffFound
<1> QED BY <1>1, MountTyped, PTL

-----------------------------------------------------------------------------
(* Renames. *)

(* The text that a rename moves, once it has read it, is under one of its  *)
(* names; so it is for every rename whose names nobody else has changed.   *)
Moving ==
  \A o \in kept :
    /\ at[o] \in {"upload", "stored", "delete"} /\ call[o].kind = "rename"
    /\ got[o] \in {file[call[o].path], file[call[o].to]}

(* A step of one request, or of none, leaves the others as they are.       *)
Others(o) == \A u \in Op : u # o => at'[u] = at[u] /\ call'[u] = call[u] /\ got'[u] = got[u]

(* Whatever a handler does next, it leaves the other requests alone.       *)
LEMMA OthersKept ==
  ASSUME Typed, NEW o \in Op,
         \/ Reply(o)
         \/ \E c, label : Suspend(o, c, label) /\ (UNCHANGED got \/ \E text : got' = [got EXCEPT ![o] = text])
         \/ \E label : Goto(o, label) /\ (UNCHANGED got \/ \E text : got' = [got EXCEPT ![o] = text])
  PROVE  Others(o)
BY DEF Typed, Requests, Others, Reply, Suspend, Goto

(* Renames that are still kept, and whose names nobody changed.            *)
LEMMA StillMoving ==
  ASSUME Typed, Moving, NEW o \in Op, Others(o), o \notin kept', kept' \subseteq kept,
         \A u \in kept' : /\ file'[call[u].path] = file[call[u].path]
                          /\ file'[call[u].to] = file[call[u].to]
  PROVE  Moving'
<1> SUFFICES ASSUME NEW u \in kept'
             PROVE  /\ at'[u] \in {"upload", "stored", "delete"} /\ call'[u].kind = "rename"
                    /\ got'[u] \in {file'[call'[u].path], file'[call'[u].to]}
  BY DEF Moving
<1>1. u \in kept /\ u \in Op /\ u # o
  BY DEF Typed, Rest
<1> QED BY <1>1 DEF Others, Moving

(* A request that arrives is none of them. *)
LEMMA ArrivalsMove ==
  ASSUME Typed, Moving, NEW o \in Op, Arrive(o)
  PROVE  Moving'
<1>1. at[o] = "idle" /\ UNCHANGED <<file, kept>> /\ Others(o)
  <2>1. at[o] = "idle" /\ UNCHANGED <<file, kept>>
    BY DEF Arrive, Arrives, OpenRefused, OpenTruncated, OpenQuery, OpenForWriting, OpenForReading, Create,
           Write, Ftruncate, BadHandle, CommitNothing, Commit, Refuse, Destroy, Begin,
           Unlink, Mkdir, Rmdir, Rename, Truncate, AppendFile
  <2>2. \/ Reply(o)
        \/ \E c, label : Suspend(o, c, label) /\ (UNCHANGED got \/ \E text : got' = [got EXCEPT ![o] = text])
    BY DEF Arrive, OpenRefused, OpenTruncated, OpenQuery, OpenForWriting, OpenForReading, Create,
           Write, Ftruncate, BadHandle, CommitNothing, Commit, Refuse, Destroy, Begin,
           Unlink, Mkdir, Rmdir, Rename, Truncate, AppendFile
  <2> QED BY <2>1, <2>2, OthersKept
<1>2. o \notin kept
  BY <1>1 DEF Moving
<1> QED BY <1>1, <1>2, StillMoving

(* A rename that has read its text begins to move it. *)
LEMMA ReadMoves ==
  ASSUME Typed, Moving, NEW o \in Op, ReadText(o)
  PROVE  Moving'
<1>1. at[o] = "read" /\ UNCHANGED file /\ o \notin kept /\ Asked(call[o], at[o])
  BY DEF ReadText, Moving, Typed, Requests
<1>2. Others(o)
  <2>1. CASE Reply(o)
    BY <2>1, OthersKept
  <2>2. CASE ~ Reply(o)
    <3>1. PICK label, text : Goto(o, label) /\ got' = [got EXCEPT ![o] = text]
      BY <2>2 DEF ReadText
    <3> QED BY <3>1, OthersKept
  <2> QED BY <2>1, <2>2
<1>3. CASE kept' = kept
  BY <1>1, <1>2, <1>3, StillMoving
<1>4. CASE kept' # kept
  <2>1. /\ call[o].kind = "rename" /\ call' = call /\ at'[o] = "upload"
        /\ kept' = kept \cup {o} /\ got'[o] = file[call[o].path]
    BY <1>4 DEF ReadText, Wanted, Goto, Typed, Requests
  <2> QED BY <1>1, <1>2, <2>1 DEF Moving, Others, Typed, Rest
<1> QED BY <1>3, <1>4

(* What an upload or a deletion changes is a name of its own.              *)
LEMMA UploadMoves ==
  ASSUME MountInv, Typed, Moving, NEW o \in Op, Upload(o)
  PROVE  Moving'
<1>1. /\ at[o] = "upload" /\ Asked(call[o], at[o]) /\ call[o] \in Call
      /\ o \in kept => call[o].kind = "rename"
  BY DEF Upload, Moving, Typed, Requests, Asked
<1>2. Others(o)
  BY OthersKept DEF Upload, Fail, EndWith
<1>3. file' = file \/ file' = [file EXCEPT ![Target(call[o])] = got[o]]
  BY DEF Upload
<1>4. kept' \subseteq kept /\ \A u \in kept' : u # o =>
        file' = file \/ Target(call[o]) \notin {call[u].path, call[u].to}
  BY DEF Upload, Untouched
<1>5. \A u \in kept' : u # o =>
        /\ file'[call[u].path] = file[call[u].path]
        /\ file'[call[u].to] = file[call[u].to]
  <2> SUFFICES ASSUME NEW u \in kept', u # o
               PROVE  /\ file'[call[u].path] = file[call[u].path]
                      /\ file'[call[u].to] = file[call[u].to]
    OBVIOUS
  <2>1. u \in kept /\ call[u] \in Call /\ call[u].kind = "rename"
    BY <1>4 DEF Moving, Typed, Rest, Requests, Asked
  <2>2. call[u].path \in Path /\ call[u].to \in Path
    BY <2>1, CallFields
  <2> QED BY <1>3, <1>4, <2>2 DEF Typed, Rest
<1>6. CASE o \notin kept'
  BY <1>2, <1>4, <1>5, <1>6, StillMoving
<1>7. CASE o \in kept'
  <2>1. call[o].kind = "rename" /\ call[o].to \in Path /\ Target(call[o]) = call[o].to
    BY <1>1, <1>4, <1>7, CallFields DEF Target
  <2>2. Goto(o, "stored") /\ UNCHANGED got /\ file' = [file EXCEPT ![call[o].to] = got[o]]
    BY <1>7, <2>1 DEF Upload, Untouched
  <2>3. at'[o] = "stored" /\ call'[o] = call[o] /\ got'[o] = got[o] /\ file'[call[o].to] = got[o]
    BY <2>1, <2>2 DEF Goto, Typed, Requests, Rest
  <2>4. \A u \in kept' : u # o => u \in kept /\ u \in Op
    BY <1>4 DEF Typed, Rest
  <2> QED BY <1>2, <1>5, <2>1, <2>3, <2>4 DEF Moving, Others
<1> QED BY <1>6, <1>7

(* The deletion ends a rename. *)
LEMMA DeleteMoves ==
  ASSUME Typed, Moving, NEW o \in Op, Delete(o)
  PROVE  Moving'
<1>1. Others(o) /\ o \notin kept'
  BY OthersKept DEF Delete
<1>2. /\ file' = file \/ file' = [file EXCEPT ![call[o].path] = NoFile]
      /\ kept' \subseteq kept
      /\ \A u \in kept' : file' = file \/ call[o].path \notin {call[u].path, call[u].to}
  BY DEF Delete, Untouched
<1>3. \A u \in kept' : /\ file'[call[u].path] = file[call[u].path]
                       /\ file'[call[u].to] = file[call[u].to]
  <2> SUFFICES ASSUME NEW u \in kept'
               PROVE  /\ file'[call[u].path] = file[call[u].path]
                      /\ file'[call[u].to] = file[call[u].to]
    OBVIOUS
  <2>1. u \in kept /\ call[u] \in Call /\ call[u].kind = "rename"
    BY <1>2 DEF Moving, Typed, Rest, Requests, Asked
  <2>2. call[u].path \in Path /\ call[u].to \in Path
    BY <2>1, CallFields
  <2> QED BY <1>2, <2>2 DEF Typed, Rest
<1> QED BY <1>1, <1>2, <1>3, StillMoving

(* The other steps. *)
LEMMA OtherStepsMove ==
  ASSUME MountInv, Typed, Moving, NEW o \in Op,
         OpenFinish(o) \/ View(o) \/ ChangeFolder(o) \/ Recall(o) \/ Stored(o)
  PROVE  Moving'
<1>1. UNCHANGED <<file, kept>>
  BY DEF OpenFinish, View, ChangeFolder, Recall, Stored
<1>2. Others(o)
  BY OthersKept DEF OpenFinish, View, ChangeFolder, Recall, Stored, Fail, EndWith
<1>3. CASE o \notin kept
  BY <1>1, <1>2, <1>3, StillMoving
<1>4. CASE o \in kept
  <2>1. call[o].kind = "rename" /\ at[o] \in {"upload", "stored", "delete"}
    BY <1>4 DEF Moving
  <2>2. Goto(o, "delete") /\ UNCHANGED got
    BY <2>1 DEF OpenFinish, View, ChangeFolder, Recall, Stored
  <2>3. at'[o] = "delete" /\ call' = call /\ got' = got
    BY <2>2 DEF Goto, Typed, Requests
  <2> QED BY <1>1, <1>2, <2>3 DEF Moving, Others, Typed, Rest
<1> QED BY <1>3, <1>4

(* While a rename is under way, and whatever fails in it, the text it      *)
(* moves is under one of its two names unless somebody else changes one of *)
(* them (rename of packages/mount-core).                                   *)
THEOREM RenameKeeps == Spec => []RenameKeepsTheText
<1>1. Init => Moving
  BY DEF Init, Moving
<1>2. MountInv /\ Typed /\ Moving /\ [Next]_vars => Moving'
  <2> SUFFICES ASSUME MountInv, Typed, Moving, [Next]_vars PROVE Moving'
    OBVIOUS
  <2>1. CASE \E o \in Op : Arrive(o)
    BY <2>1, ArrivalsMove
  <2>2. CASE \E o \in Op : Continue(o)
    BY <2>2, ReadMoves, UploadMoves, DeleteMoves, OtherStepsMove DEF Continue
  <2>3. CASE Stop
    BY <2>3 DEF Stop, Moving
  <2>4. CASE \E p \in Path, text \in Chunk \cup {NoFile} : Outside(p, text)
    <3> PICK p \in Path, text \in Chunk \cup {NoFile} : Outside(p, text)
      BY <2>4
    <3>1. /\ UNCHANGED <<call, at, got>> /\ file' = [file EXCEPT ![p] = text]
          /\ kept' = {u \in kept : p \notin {call[u].path, call[u].to}}
      BY DEF Outside, request
    <3>2. \A u \in kept : call[u].path \in Path /\ call[u].to \in Path
      BY CallFields DEF Moving, Typed, Requests, Rest, Asked
    <3> QED BY <3>1, <3>2 DEF Moving, Typed, Rest
  <2>5. CASE UNCHANGED vars
    BY <2>5 DEF vars, request, Moving
  <2> QED BY <2>1, <2>2, <2>3, <2>4, <2>5 DEF Next
<1>3. Moving => RenameKeepsTheText
  BY DEF Moving, RenameKeepsTheText
<1> QED BY <1>1, <1>2, <1>3, InitTyped, StepTyped, InitHolds, StepKeeps, PTL DEF Spec
=============================================================================
