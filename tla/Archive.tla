------------------------------ MODULE Archive -------------------------------
(***************************************************************************)
(* The archive of one workspace: entries that keep source material         *)
(* verbatim, and the candidate memories extracted from them.  A request    *)
(* awaits the guide of /archive, the storing of its file, and later the    *)
(* model and what each candidate is compared with; meanwhile the files,    *)
(* which are ordinary ones, are written and deleted, and the process may   *)
(* stop.                                                                   *)
(***************************************************************************)
EXTENDS Naturals, Sequences
LOCAL INSTANCE SequencesExt
LOCAL INSTANCE Functions

CONSTANTS
  Paper,       \* ids of entries; the path of an entry's file is made of its id
  Speech,      \* texts archived and written; a text stands for its SHA-256 too
  Secret,      \* texts that detectSecretRisk finds a secret in
  Readme,      \* what ensureArchiveReadme writes
  Archivist,   \* concurrent requests
  NoPaper,
  MaxPieces,   \* bound: memories a model finds in a text
  MaxTouches   \* bound: files written or deleted by others, stops

VARIABLES
  shelf,       \* files: id -> text or NoPaper
  guide,       \* the text of /archive/README.md or NoPaper
  entries,     \* archive_entries: id -> its blob and, a history, the text given
  quotes,      \* candidate memories, oldest first
  desk,        \* requests under way
  touches
archiveVars == <<shelf, guide, entries, quotes, desk, touches>>

ASSUME ArchiveAssumption ==
  Secret \subseteq Speech /\ NoPaper \notin Speech /\ NoPaper \notin Paper /\ Readme \notin Speech

NoWork == [at |-> "idle", paper |-> NoPaper, text |-> NoPaper, blob |-> NoPaper,
           left |-> 0, disturbed |-> FALSE]

SetDesk(a, r) == desk' = [desk EXCEPT ![a] = r]

\* Requests that have read the text of an entry and still make candidates of it.
Noticed(paper) ==
  [a \in Archivist |-> [desk[a] EXCEPT
     !.disturbed = @ \/ (desk[a].at \in {"model", "next", "review"} /\ desk[a].paper = paper)]]

-----------------------------------------------------------------------------
(* writeArchiveEntry *)
WriteArchiveEntry(a, paper, text) ==
  /\ desk[a].at = "idle" /\ text \notin Secret
  /\ shelf[paper] = NoPaper /\ entries[paper] = NoPaper
  /\ \A b \in Archivist : desk[b].paper # paper
  /\ SetDesk(a, [NoWork EXCEPT !.at = IF guide = NoPaper THEN "guide" ELSE "file",
                               !.paper = paper, !.text = text])
  /\ UNCHANGED <<shelf, guide, entries, quotes, touches>>

\* ensureArchiveReadme stores the guide, even one that appeared meanwhile.
EnsureArchiveReadme(a) ==
  /\ desk[a].at = "guide"
  /\ guide' = Readme
  /\ SetDesk(a, [desk[a] EXCEPT !.at = "file"])
  /\ UNCHANGED <<shelf, entries, quotes, touches>>

\* The file is stored: the request goes on with its record.
StoreArchiveFile(a) ==
  /\ desk[a].at = "file"
  /\ shelf' = [shelf EXCEPT ![desk[a].paper] = desk[a].text]
  /\ SetDesk(a, [desk[a] EXCEPT !.at = "entry", !.blob = desk[a].text])
  /\ UNCHANGED <<guide, entries, quotes, touches>>

\* In error: the file is read again when its entry is made.
RereadBlob(a) == shelf[desk[a].paper]

RecordedBlob(a) == desk[a].blob

InsertArchiveEntry(a) ==
  /\ desk[a].at = "entry"
  /\ entries' = [entries EXCEPT ![desk[a].paper] = [blob |-> RecordedBlob(a), given |-> desk[a].text]]
  /\ SetDesk(a, NoWork)
  /\ UNCHANGED <<shelf, guide, quotes, touches>>

-----------------------------------------------------------------------------
(* readArchive and extractArchiveToMemoryCandidates: an entry's text is    *)
(* what its file holds now; the limit may leave memories out.              *)
ReadArchive(a, paper) ==
  /\ desk[a].at = "idle" /\ entries[paper] # NoPaper
  /\ shelf[paper] # NoPaper
  /\ SetDesk(a, [NoWork EXCEPT !.at = "model", !.paper = paper, !.text = shelf[paper]])
  /\ UNCHANGED <<shelf, guide, entries, quotes, touches>>

Extracted(a, pieces) ==
  /\ desk[a].at = "model"
  /\ SetDesk(a, [desk[a] EXCEPT !.at = "next", !.left = pieces])
  /\ UNCHANGED <<shelf, guide, entries, quotes, touches>>

\* In error: the source is the one the entry was made of.
EntryBlob(paper) == entries[paper].blob

SourceBlob(paper) == shelf[paper]

\* One candidate: its file is looked up, without it the request fails and
\* keeps what it made; after the last the request is answered.
LookUpSource(a) ==
  /\ desk[a].at = "next"
  /\ SetDesk(a, IF desk[a].left = 0 \/ shelf[desk[a].paper] = NoPaper THEN NoWork
                ELSE [desk[a] EXCEPT !.at = "review", !.blob = SourceBlob(desk[a].paper)])
  /\ UNCHANGED <<shelf, guide, entries, quotes, touches>>

\* Compared with the other memories, the candidate is inserted.
InsertQuote(a) ==
  /\ desk[a].at = "review"
  /\ quotes' = Append(quotes, [text |-> desk[a].text, blob |-> desk[a].blob,
                               disturbed |-> desk[a].disturbed])
  /\ SetDesk(a, [desk[a] EXCEPT !.at = "next", !.left = @ - 1])
  /\ UNCHANGED <<shelf, guide, entries, touches>>

-----------------------------------------------------------------------------
\* Others write and delete files; the process stops, and requests with it.
Touch == touches < MaxTouches /\ touches' = touches + 1

RewritePaper(paper, text) ==
  /\ Touch
  /\ shelf[paper] # NoPaper /\ text # shelf[paper]
  /\ shelf' = [shelf EXCEPT ![paper] = text]
  /\ desk' = Noticed(paper)
  /\ UNCHANGED <<guide, entries, quotes>>

WriteGuide(text) ==
  /\ Touch
  /\ guide' = text
  /\ UNCHANGED <<shelf, entries, quotes, desk>>

StopArchive ==
  /\ Touch
  /\ \E a \in Archivist : desk[a] # NoWork
  /\ desk' = [a \in Archivist |-> NoWork]
  /\ UNCHANGED <<shelf, guide, entries, quotes>>

ArchiveInit ==
  /\ shelf = [p \in Paper |-> NoPaper]
  /\ guide = NoPaper
  /\ entries = [p \in Paper |-> NoPaper]
  /\ quotes = <<>>
  /\ desk = [a \in Archivist |-> NoWork]
  /\ touches = 0

ArchiveNext ==
  \/ \E a \in Archivist :
       \/ \E p \in Paper : ReadArchive(a, p) \/ \E t \in Speech : WriteArchiveEntry(a, p, t)
       \/ EnsureArchiveReadme(a) \/ StoreArchiveFile(a) \/ InsertArchiveEntry(a)
       \/ \E pieces \in 0..(MaxPieces - Len(quotes)) : Extracted(a, pieces)
       \/ LookUpSource(a) \/ InsertQuote(a)
  \/ \E p \in Paper, t \in Speech \cup {NoPaper} : RewritePaper(p, t)
  \/ \E t \in Speech : WriteGuide(t)
  \/ StopArchive

ArchiveTypeOK ==
  /\ shelf \in [Paper -> Speech \cup {NoPaper}]
  /\ guide \in Speech \cup {NoPaper, Readme}
  /\ \A p \in Paper : entries[p] = NoPaper \/ entries[p] \in [blob : Speech, given : Speech]
  /\ Range(quotes) \subseteq [text : Speech, blob : Speech, disturbed : BOOLEAN]
  /\ \A a \in Archivist :
       /\ desk[a].at \in {"idle", "guide", "file", "entry", "model", "next", "review"}
       /\ desk[a].paper \in Paper \cup {NoPaper}
       /\ desk[a].text \in Speech \cup {NoPaper} /\ desk[a].blob \in Speech \cup {NoPaper}
       /\ desk[a].left \in 0..MaxPieces
  /\ touches \in 0..MaxTouches

\* An archive entry's raw reference is the text it was given, whatever
\* happened to its file before and after the entry was recorded, and never one
\* with a secret (writeArchiveEntry, insertArchiveEntry).
ArchiveIsVerbatim ==
  \A p \in Paper : entries[p] # NoPaper =>
    entries[p].blob = entries[p].given /\ entries[p].blob \notin Secret

\* A candidate's raw source is the very text it was extracted from, unless the
\* file was changed while the extraction was under way
\* (extractArchiveToMemoryCandidates).
CandidatesQuoteTheirSource ==
  \A i \in DOMAIN quotes : ~ quotes[i].disturbed => quotes[i].blob = quotes[i].text
=============================================================================
