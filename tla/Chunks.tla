------------------------------- MODULE Chunks -------------------------------
(***************************************************************************)
(* chunkMarkdown, the pure algorithm that cuts a text into the pieces      *)
(* memories are extracted from: sections at headings, and long sections    *)
(* between paragraphs.  A text is a sequence of lines, each a heading      *)
(* ("h"), text ("t") or blank ("b"); a line is one character long, a blank *)
(* one none, and Limit stands for the 4000 characters of the code.         *)
(***************************************************************************)
EXTENDS Integers, Sequences, FiniteSetsExt

CONSTANTS Limit, MaxLines   \* bound: lines of a text

VARIABLES text, chunks      \* the text so far, what chunkMarkdown makes of it
chunkVars == <<text, chunks>>

ASSUME ChunksAssumption == Limit \in Nat \ {0} /\ MaxLines \in Nat

TextLine == {"h", "t", "b"}

IsFull(line) == line # "b"

\* String.trim
Trim(t) ==
  LET full == {i \in DOMAIN t : IsFull(t[i])}
  IN  IF full = {} THEN <<>> ELSE SubSeq(t, Min(full), Max(full))

Kept(lines, line) == IF IsFull(line) THEN Append(lines, line) ELSE lines

\* The lines of a text that are not blank, in order, and those of some texts,
\* one text after the other.
FullLines(t) ==
  LET upto[k \in 0..Len(t)] == IF k = 0 THEN <<>> ELSE Kept(upto[k-1], t[k])
  IN  upto[Len(t)]

FullLinesOf(texts) ==
  LET upto[k \in 0..Len(texts)] == IF k = 0 THEN <<>> ELSE upto[k-1] \o FullLines(texts[k])
  IN  upto[Len(texts)]

\* Characters of lines joined by newlines.
Size(t) == IF t = <<>> THEN 0 ELSE Len(FullLines(t)) + Len(t) - 1

\* A line joins the last of some groups of lines.
Extended(groups, line) == [groups EXCEPT ![Len(groups)] = Append(@, line)]

Sectioned(sections, line) ==
  IF sections = <<>> \/ line = "h" THEN Append(sections, <<line>>) ELSE Extended(sections, line)

Sections(t) ==
  LET upto[k \in 0..Len(t)] == IF k = 0 THEN <<>> ELSE Sectioned(upto[k-1], t[k])
  IN  upto[Len(t)]

\* A full line after a full one is of the same paragraph.
Paragraphed(paragraphs, t, k) ==
  IF ~IsFull(t[k]) THEN paragraphs
  ELSE IF k > 1 /\ IsFull(t[k-1]) THEN Extended(paragraphs, t[k])
  ELSE Append(paragraphs, <<t[k]>>)

\* split(/\n\s*\n/): the runs of lines between blank ones.
Paragraphs(t) ==
  LET upto[k \in 0..Len(t)] == IF k = 0 THEN <<>> ELSE Paragraphed(upto[k-1], t, k)
  IN  upto[Len(t)]

Join(paragraphs, paragraph) ==
  IF paragraphs = <<>> THEN paragraph ELSE paragraphs \o <<"b">> \o paragraph

\* In error: the paragraph that does not fit is not carried over.
FitForgetting(s, paragraph) ==
  LET candidate == Join(s.current, paragraph)
  IN  IF Size(candidate) > Limit /\ s.current # <<>>
      THEN [chunks |-> Append(s.chunks, s.current), current |-> <<>>]
      ELSE [s EXCEPT !.current = candidate]

\* One paragraph of splitLongChunk's loop.
Fit(s, paragraph) ==
  LET candidate == Join(s.current, paragraph)
  IN  IF Size(candidate) > Limit /\ s.current # <<>>
      THEN [chunks |-> Append(s.chunks, s.current), current |-> paragraph]
      ELSE [s EXCEPT !.current = candidate]

NoSplit == [chunks |-> <<>>, current |-> <<>>]

Splitting(paragraphs) ==
  LET upto[k \in 0..Len(paragraphs)] ==
        IF k = 0 THEN NoSplit ELSE Fit(upto[k-1], paragraphs[k])
  IN  upto[Len(paragraphs)]

SplitLongChunk(chunk) ==
  LET last == Splitting(Paragraphs(chunk))
  IN  IF Size(chunk) <= Limit THEN <<chunk>>
      ELSE IF last.current = <<>> THEN last.chunks
      ELSE Append(last.chunks, last.current)

\* An empty section is its only chunk, which the filter takes out.
Chunked(section) == IF section = <<>> THEN <<>> ELSE SplitLongChunk(section)

ChunkMarkdown(t) ==
  LET sections == Sections(Trim(t))
      upto[k \in 0..Len(sections)] ==
        IF k = 0 THEN <<>> ELSE upto[k-1] \o Chunked(Trim(sections[k]))
  IN  upto[Len(sections)]

ChunksInit == text = <<>> /\ chunks = <<>>

ChunksNext ==
  /\ Len(text) < MaxLines
  /\ \E line \in TextLine : text' = Append(text, line)
  /\ chunks' = ChunkMarkdown(text')

ChunksTypeOK ==
  /\ text \in Seq(TextLine) /\ Len(text) <= MaxLines
  /\ \A i \in DOMAIN chunks : chunks[i] \in Seq(TextLine)

\* The chunks are the text's full lines, each in exactly one chunk and in
\* order; a heading only begins a chunk; and a chunk is over the limit only if
\* it is one paragraph, which nothing could divide (chunkMarkdown).
ChunksKeepText ==
  /\ FullLinesOf(chunks) = FullLines(text)
  /\ \A i \in DOMAIN chunks :
       /\ \A j \in DOMAIN chunks[i] : chunks[i][j] = "h" => j = 1
       /\ Size(chunks[i]) > Limit => \A j \in DOMAIN chunks[i] : IsFull(chunks[i][j])
=============================================================================
