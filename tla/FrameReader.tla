---------------------------- MODULE FrameReader ----------------------------
(***************************************************************************)
(* FrameReader of src/src/main.rs: cuts a stream of bytes into frames, one *)
(* line each, and never keeps more than `max` bytes of a line.  The daemon *)
(* has one per connection and the JSONL client one on its standard input.  *)
(*                                                                         *)
(* A byte of the model is a piece of a line: a newline, a piece that is    *)
(* not UTF-8, or any other.  Lengths and limits count pieces.              *)
(***************************************************************************)
EXTENDS Naturals, Sequences

CONSTANTS
  Bytes,      \* the pieces lines are made of
  Newline,    \* the piece that ends a line
  NotUtf8,    \* a piece no UTF-8 text has
  None

(* What next returns: `invalid` and `cutoff` are InvalidUtf8 in the middle *)
(* and at the end of the stream.                                           *)
FrameKinds == {"complete", "oversized", "invalid", "incomplete", "cutoff", "end"}
Frame  == [kind : FrameKinds, bytes : Seq(Bytes)]
Reader == [frame : Seq(Bytes), discarding : BOOLEAN]

NewReader == [frame |-> <<>>, discarding |-> FALSE]

(* std::str::from_utf8(bytes).is_ok()                                      *)
IsUtf8(bytes) == \A i \in DOMAIN bytes : bytes[i] # NotUtf8

Yield(kind, bytes) == [reader |-> NewReader, frame |-> [kind |-> kind, bytes |-> bytes]]
Keep(reader)       == [reader |-> reader, frame |-> None]

(* Faulty variants of Take: what is left of a line cut off is read as a    *)
(* line; a line cut off gives no frame; the limit is not looked at.        *)
TakeRemainder(reader, byte, max) ==
  LET line == Append(reader.frame, byte)
  IN  IF byte = Newline THEN Yield(IF IsUtf8(line) THEN "complete" ELSE "invalid", line)
      ELSE IF Len(line) > max THEN Yield("oversized", reader.frame)
      ELSE Keep([reader EXCEPT !.frame = line])

TakeSilently(reader, byte, max) ==
  LET line == Append(reader.frame, byte)
  IN  IF byte = Newline
        THEN IF reader.discarding \/ Len(line) > max
               THEN Keep(NewReader)
               ELSE Yield(IF IsUtf8(line) THEN "complete" ELSE "invalid", line)
        ELSE IF Len(line) > max THEN Keep([reader EXCEPT !.discarding = TRUE])
                                ELSE Keep([reader EXCEPT !.frame = line])

TakeUnlimited(reader, byte, max) ==
  LET line == Append(reader.frame, byte)
  IN  IF byte = Newline THEN Yield(IF IsUtf8(line) THEN "complete" ELSE "invalid", line)
                        ELSE Keep([reader EXCEPT !.frame = line])

(* One turn of the loop of next: the reader and the frame, if any, after   *)
(* the byte it read.  The newline counts: a line of exactly max bytes is   *)
(* the longest that is complete.                                           *)
Take(reader, byte, max) ==
  LET over == reader.discarding \/ Len(reader.frame) >= max
      line == Append(reader.frame, byte)
  IN  IF over
        THEN IF byte = Newline THEN Yield("oversized", reader.frame)
                               ELSE Keep([reader EXCEPT !.discarding = TRUE])
        ELSE IF byte # Newline THEN Keep([reader EXCEPT !.frame = line])
                               ELSE Yield(IF IsUtf8(line) THEN "complete" ELSE "invalid", line)

(* Faulty variant: the end of a line cut off passes for that of a line.    *)
AtEndWhole(reader) ==
  Yield(IF reader.frame = <<>>       THEN "end"
        ELSE IF IsUtf8(reader.frame) THEN "incomplete" ELSE "cutoff",
        reader.frame)

(* next at the end of the stream.                                          *)
AtEnd(reader) ==
  Yield(IF reader.discarding         THEN "oversized"
        ELSE IF reader.frame = <<>>  THEN "end"
        ELSE IF IsUtf8(reader.frame) THEN "incomplete" ELSE "cutoff",
        reader.frame)

(* Frames after which the stream has no next line.                         *)
Terminal(frame) == frame.kind \in {"incomplete", "cutoff"}
=============================================================================
