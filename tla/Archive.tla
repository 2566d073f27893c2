------------------------------ MODULE Archive ------------------------------
(***************************************************************************)
(* The capture file.  OnMarketDataItemEvent writes one frame per recorded  *)
(* message, a varint size and the serialised Marketfeed message, into a    *)
(* CodedOutputStream over a GzipOutputStream over a FileOutputStream:      *)
(* three buffers, emptied to the file as they fill and by Clear.  A        *)
(* capture that is killed, or whose disk fills, leaves a prefix of them.   *)
(*                                                                         *)
(* disk is what a reader can decompress from the file.  Its units stand    *)
(* for the bytes of a frame: the size takes SizeUnits, the message         *)
(* PayloadUnits of them.                                                   *)
(***************************************************************************)
EXTENDS Integers, Sequences, SequencesExt

CONSTANTS
  Records,       \* messages a capture may record
  SizeUnits,     \* units of a frame's size
  PayloadUnits,  \* units of a frame's message
  DiskMayFill,   \* writes to the file may fail
  MaxRecords,    \* bound: messages recorded by one capture
  MaxCaptures    \* bound: captures run with the same output path

ASSUME ArchiveAssumption ==
  /\ {SizeUnits, PayloadUnits} \subseteq Nat \ {0}
  /\ DiskMayFill \in BOOLEAN
  /\ {MaxRecords, MaxCaptures} \subseteq Nat

VARIABLES
  capture,    \* "none", "open", "closed" or "killed": the last capture
  captures,   \* captures started
  written,    \* messages the last capture recorded
  buffered,   \* units in coded_stream_, gzip_stream_ and output_stream_
  full,       \* a write has failed: the streams drop what they are given
  disk        \* units of the file

archiveVars == <<capture, captures, written, buffered, full, disk>>

FrameUnits == SizeUnits + PayloadUnits

Units == [rec : Records, unit : 1 .. FrameUnits]

ArchiveTypeOK ==
  /\ capture \in {"none", "open", "closed", "killed"}
  /\ captures \in 0 .. MaxCaptures
  /\ written \in Seq(Records)
  /\ buffered \in Seq(Units)
  /\ full \in BOOLEAN
  /\ disk \in Seq(Units)

ArchiveInit ==
  /\ capture = "none"
  /\ captures = 0
  /\ written = <<>> /\ buffered = <<>> /\ disk = <<>>
  /\ full = FALSE

\* A message of r as it is serialised, its size first.
Frame(r) == [u \in 1 .. FrameUnits |-> [rec |-> r, unit |-> u]]

\* Init opens the output file with O_TRUNC.
Open ==
  /\ capture # "open"
  /\ captures < MaxCaptures
  /\ capture' = "open"
  /\ captures' = captures + 1
  /\ written' = <<>> /\ buffered' = <<>> /\ disk' = <<>>
  /\ full' = FALSE

Record(r) ==
  /\ capture = "open"
  /\ Len(written) < MaxRecords
  /\ written' = Append(written, r)
  /\ buffered' = buffered \o Frame(r)
  /\ UNCHANGED <<capture, captures, full, disk>>

\* A buffer fills: its first n units reach the file.
Flush(n) ==
  /\ capture = "open" /\ ~full
  /\ disk' = disk \o SubSeq(buffered, 1, n)
  /\ buffered' = SubSeq(buffered, n + 1, Len(buffered))
  /\ UNCHANGED <<capture, captures, written, full>>

\* A write fails.  No caller looks at the result of a write.
DiskFills ==
  /\ DiskMayFill
  /\ capture = "open" /\ ~full
  /\ full' = TRUE
  /\ UNCHANGED <<capture, captures, written, buffered, disk>>

\* Bug: the buffers are dropped with their streams.
Drained_Dropped == <<>>

\* What Clear flushes: the coded stream into gzip, gzip into the file.
Drained == IF full THEN <<>> ELSE buffered

Close ==
  /\ capture = "open"
  /\ capture' = "closed"
  /\ disk' = disk \o Drained
  /\ buffered' = <<>>
  /\ UNCHANGED <<captures, written, full>>

\* The process dies, and its buffers with it.
Killed ==
  /\ capture = "open"
  /\ capture' = "killed"
  /\ buffered' = <<>>
  /\ UNCHANGED <<captures, written, full, disk>>

Capture ==
  \/ Open \/ DiskFills \/ Close \/ Killed
  \/ \E r \in Records : Record(r)
  \/ \E n \in 1 .. Len(buffered) : Flush(n)
=============================================================================
