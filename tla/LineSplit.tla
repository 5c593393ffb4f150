----------------------------- MODULE LineSplit -----------------------------
(***************************************************************************)
(* How the coincidence counter breaks the stream of one event server into  *)
(* lines.  It reads chunks of a fixed number of bytes, and a chunk may end *)
(* in the middle of a line; the piece is kept as a spillover that goes in  *)
(* front of the next chunk.                                                *)
(*                                                                         *)
(* Top and bottom stream are split by the same statements with a spillover *)
(* each; this is one of them.                                              *)
(***************************************************************************)
EXTENDS Integers, FiniteSets, Sequences, SequencesExt, Positions

CONSTANTS ByteBufSize,  \* bytes of a chunk
          LineLengths,  \* the lengths a line can have, its newline included
          NumLines      \* bound on the lines of the stream, the header included

\* The first chunk holds the whole header, and a server that accepted the
\* request sends one.
ASSUME SplitAssumption ==
  /\ ByteBufSize \in Nat /\ NumLines \in Nat \ {0}
  /\ LineLengths \subseteq 2..ByteBufSize

VARIABLES
  lengths,    \* the length of each line of the stream
  unread,     \* bytes of the stream not read yet
  spillover,  \* topSpillover, bottomSpillover
  evtBuf,     \* the lines split off so far, but for the header
  firstGo,    \* no header has been removed
  stopped     \* an exception has ended the loop

vars == <<lengths, unread, spillover, evtBuf, firstGo, stopped>>

\* Byte k of line l is the pair <<l, k>>; the last one is the newline.
IsNewline(byte) == byte[2] = lengths[byte[1]]
Text(l) == [k \in 1..(lengths[l] - 1) |-> <<l, k>>]
Line(l) == Append(Text(l), <<l, lengths[l]>>)

Init ==
  /\ lengths \in [1..NumLines -> LineLengths]
  /\ unread = FlattenSeq([l \in 1..NumLines |-> Line(l)])
  /\ spillover = <<>>
  /\ evtBuf = <<>>
  /\ firstGo = TRUE
  /\ stopped = FALSE

-----------------------------------------------------------------------------
\* The positions of the newlines of s, in order.
Newlines(s) == Sorted({i \in 1..Len(s) : IsNewline(s[i])})

\* A split that leaves the newlines in the lines.
WholeLinesKeepEnds(s) ==
  LET e == <<0>> \o Newlines(s)
  IN  [k \in 1..(Len(e) - 1) |-> SubSeq(s, e[k] + 1, e[k + 1])]

\* A split that takes the piece at the end for a line.
WholeLinesAndPiece(s) ==
  LET e == <<0>> \o Newlines(s)
      piece == SubSeq(s, Last(e) + 1, Len(s))
  IN  [k \in 1..(Len(e) - 1) |-> SubSeq(s, e[k] + 1, e[k + 1] - 1)]
        \o IF piece = <<>> THEN <<>> ELSE <<piece>>

\* split('\n'): the whole lines of s, without their newlines.
WholeLines(s) ==
  LET e == <<0>> \o Newlines(s)
  IN  [k \in 1..(Len(e) - 1) |-> SubSeq(s, e[k] + 1, e[k + 1] - 1)]

\* What is left of s after its last newline.
RaggedEnd(s) == SubSeq(s, Last(<<0>> \o Newlines(s)) + 1, Len(s))

IsRagged(s) == ~IsNewline(Last(s))

\* A split that throws away the piece at the end of the chunk.
KeepNothing(s) == spillover' = <<>>

\* The piece of a line at the end of s becomes the spillover.  A chunk that
\* ends with a line leaves the spillover as it is, already used.
Keep(s) == spillover' = IF IsRagged(s) THEN RaggedEnd(s) ELSE spillover

ChunkSize == IF Len(unread) < ByteBufSize THEN Len(unread) ELSE ByteBufSize
Chunk == SubSeq(unread, 1, ChunkSize)

\* One turn of the loop, as far as the split goes.  read() blocks for a whole
\* chunk and returns less only at the end of the stream.
Turn ==
  /\ ~stopped
  /\ LET s == spillover \o Chunk
     IN  /\ s # <<>>
         /\ Keep(s)
         /\ evtBuf' = evtBuf \o IF firstGo THEN Tail(WholeLines(s)) ELSE WholeLines(s)
  /\ unread' = SubSeq(unread, ChunkSize + 1, Len(unread))
  /\ firstGo' = FALSE
  /\ UNCHANGED <<lengths, stopped>>

\* strTop[-1] of an empty string at the end of the stream: IndexError.
IndexError ==
  /\ ~stopped /\ spillover \o Chunk = <<>>
  /\ stopped' = TRUE
  /\ UNCHANGED <<lengths, unread, spillover, evtBuf, firstGo>>

Next == Turn \/ IndexError

Spec == Init /\ [][Next]_vars

-----------------------------------------------------------------------------
(* Properties.                                                             *)

Bytes == {<<l, k>> : l \in 1..NumLines, k \in 1..ByteBufSize}
NoNewline(s) == \A i \in 1..Len(s) : ~IsNewline(s[i])

\* Every variable has its type; spillover and lines hold no newline.
TypeOK ==
  /\ lengths \in [1..NumLines -> LineLengths]
  /\ unread \in Seq(Bytes)
  /\ spillover \in Seq(Bytes) /\ NoNewline(spillover)
  /\ \A k \in 1..Len(evtBuf) : evtBuf[k] \in Seq(Bytes) /\ NoNewline(evtBuf[k])
  /\ firstGo \in BOOLEAN
  /\ stopped \in BOOLEAN

LinesRead == {l \in 1..NumLines : <<l, lengths[l]>> \notin Range(unread)}

\* Wherever the chunks end, every line that was read to its end is split off,
\* the lines in their order and each one whole; at worst it has one piece of
\* one earlier line in front of it (lines 117-151).
NoLineDropped ==
  /\ Len(evtBuf) = Cardinality(LinesRead \ {1})
  /\ \A k \in 1..Len(evtBuf) :
       \E j \in 1..k : \E n \in 0..Len(Text(j)) :
         evtBuf[k] = SubSeq(Text(j), 1, n) \o Text(k + 1)

\* Once a stream has ended, the turns that go on over a spillover that is still
\* there count nothing: no piece is taken for an event, however often it is
\* split (lines 111-142).
EndAddsNothing == [][unread = <<>> => UNCHANGED evtBuf]_vars

\* The lines that are counted are those of the stream: line 138 says "if the
\* end is not a full line, throw that part back into the byte buffer", so a
\* piece is used once, to complete its own line.
LinesIntact == \A k \in 1..Len(evtBuf) : evtBuf[k] = Text(k + 1)
=============================================================================
