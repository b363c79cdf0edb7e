---------------------------- MODULE LineFraming -----------------------------
(***************************************************************************)
(* How the main thread cuts what it reads from a C2S FIFO into requests    *)
(* (read_client_requests and process_buffered_lines in server_main.c).     *)
(* The stream is a sequence of characters, of which only Newline counts.   *)
(***************************************************************************)
EXTENDS Integers, Sequences, SequencesExt, FiniteSets, FiniteSetsExt

CONSTANTS
    Newline,
    BufferSize    \* CLIENT_READ_BUFFER

ASSUME BufferAssumption == BufferSize \in Nat \ {0}

\* The positions of the newlines in a buffer, in order.
Newlines(buffer) ==
    LET at == {i \in DOMAIN buffer : buffer[i] = Newline}
    IN  CHOOSE ends \in [1 .. Cardinality(at) -> at] :
            \A j, k \in DOMAIN ends : j < k => ends[j] < ends[k]

\* What is left of a line fills the buffer (mutant: it has to exceed it).
BufferOverfull(rest) == Len(rest) > BufferSize
BufferFull(rest) == Len(rest) = BufferSize

\* Where the k-th line of a buffer begins, given where the lines end (mutant:
\* the newline before it is taken along).
LineStartEarly(ends, k) == IF k = 1 THEN 1 ELSE ends[k - 1]
LineStart(ends, k) == IF k = 1 THEN 1 ELSE ends[k - 1] + 1

\* process_buffered_lines: the complete lines are submitted, newline and all,
\* and the rest moves to the front; a rest that fills the buffer is submitted
\* as well.
ProcessBufferedLines(buffer) ==
    LET ends  == Newlines(buffer)
        lines == [k \in DOMAIN ends |->
                     SubSeq(buffer, LineStart(ends, k), ends[k])]
        rest  == SubSeq(buffer, LineStart(ends, Len(ends) + 1), Len(buffer))
    IN  IF BufferFull(rest)
        THEN [lines |-> Append(lines, rest), rest |-> <<>>]
        ELSE [lines |-> lines, rest |-> rest]

\* A read returns at most what the buffer has room for; a read of no bytes
\* would look like the end of the stream.
Room(buffer) == BufferSize - Len(buffer)

\* read_client_requests reads on until the FIFO is empty.
ReadUntilEmpty(buffer, fifo) ==
    LET readMore(so, i) ==
            LET count == Min({Room(so.buffer), Len(so.unread)})
                cut == ProcessBufferedLines(so.buffer
                                            \o SubSeq(so.unread, 1, count))
            IN  IF so.unread = <<>> THEN so
                ELSE [buffer    |-> cut.rest,
                      submitted |-> so.submitted \o cut.lines,
                      unread    |-> SubSeq(so.unread, count + 1,
                                           Len(so.unread))]
    IN  FoldLeft(readMore,
                 [buffer |-> buffer, submitted |-> <<>>, unread |-> fifo],
                 [i \in DOMAIN fifo |-> i])

-----------------------------------------------------------------------------
(* Reference: one character at a time, a piece ends with its newline or at *)
(* BufferSize characters.                                                  *)

Pieces(stream) ==
    LET add(so, character) ==
            LET piece == Append(so.piece, character) IN
            IF character = Newline \/ Len(piece) = BufferSize
            THEN [done |-> Append(so.done, piece), piece |-> <<>>]
            ELSE [done |-> so.done, piece |-> piece]
    IN  FoldLeft(add, [done |-> <<>>, piece |-> <<>>], stream)

\* What is submitted is the pieces of the stream, however it arrives: cut at
\* any point, read to the end twice, nothing is lost, repeated or left in the
\* FIFO, and room remains for the next read.
CutsInto(stream, arrived) ==
    LET first  == ReadUntilEmpty(<<>>, SubSeq(stream, 1, arrived))
        second == ReadUntilEmpty(first.buffer,
                                 SubSeq(stream, arrived + 1, Len(stream)))
        pieces == Pieces(stream)
    IN  /\ first.submitted \o second.submitted = pieces.done
        /\ second.buffer = pieces.piece
        /\ first.unread = <<>> /\ second.unread = <<>>
        /\ Room(first.buffer) > 0 /\ Room(second.buffer) > 0
=============================================================================
