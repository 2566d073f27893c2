------------------------------ MODULE Convert ------------------------------
(***************************************************************************)
(* torikuru_t::Convert: a capture file is exported as one CSV file per     *)
(* service.  A first pass over the file collects the names of all fields   *)
(* (FIDs), which become columns after the four fixed ones; a second pass   *)
(* writes a row per message.  The conversion runs after the capture, which *)
(* may have been killed.                                                   *)
(*                                                                         *)
(* A record is a message: its service, symbol, whether it names a new      *)
(* symbol, whether it has a buffer that unpacks, and its fields, a         *)
(* function from FIDs to printed values.  Its units are, in the order they *)
(* are serialised, the five required fields, the packed buffer and the new *)
(* symbol; a unit stands for any number of bytes, and a file may end       *)
(* behind any of them.  The time and type columns carry nothing any        *)
(* property is about and are constant.                                     *)
(***************************************************************************)
EXTENDS Archive, FiniteSets

CONSTANTS
  RequiredUnits,  \* units of a message's five required fields
  BufferUnits,    \* units up to the end of its buffer, when it names a new symbol
  Services,       \* services of the configured sessions
  OutputName,     \* service -> file: output_path with $1 replaced
  SymbolFilter,   \* symbols of the symbol file; {} exports all
  WithComma,      \* printed values that contain a comma
  Unconvertible   \* the value of a field TibField::Convert fails for

ASSUME ConvertAssumption ==
  /\ {RequiredUnits, BufferUnits} \subseteq Nat \ {0}
  /\ RequiredUnits < BufferUnits /\ BufferUnits < PayloadUnits
  /\ Records \subseteq [service : STRING, symbol : STRING, renamed : BOOLEAN,
                        unpacks : BOOLEAN, fields : {r.fields : r \in Records}]
  /\ \A r \in Records : IsFiniteSet(DOMAIN r.fields)
  /\ OutputName \in [Services -> STRING]

VARIABLES
  pc,        \* "idle", "first", "second", "done" or "crashed"
  pos,       \* units read in this pass
  fids,      \* fids, found by the first pass
  columns,   \* fids in the order the unordered_set yields
  files,     \* file -> lines, a line being a sequence of cells
  offset     \* service -> lines written through its own fstream

convertVars == <<pc, pos, fids, columns, files, offset>>
vars == <<archiveVars, convertVars>>

BaseColumns == <<"service", "symbol", "time", "type">>

FileNames == {OutputName[s] : s \in Services}

AllFids == UNION {DOMAIN r.fields : r \in Records}

TypeOK ==
  /\ ArchiveTypeOK
  /\ pc \in {"idle", "first", "second", "done", "crashed"}
  /\ pos \in 0 .. Len(disk)
  /\ fids \subseteq AllFids
  /\ columns \in Seq(AllFids)
  /\ files \in [FileNames -> Seq(Seq([text : STRING, quoted : BOOLEAN]))]
  /\ offset \in [Services -> Nat]

Init ==
  /\ ArchiveInit
  /\ pc = "idle"
  /\ pos = 0
  /\ fids = {}
  /\ columns = <<>>
  /\ files = [f \in FileNames |-> <<>>]
  /\ offset = [s \in Services |-> 0]

-----------------------------------------------------------------------------
\* Reading one frame, in either pass.

\* ReadVarint32 succeeds.
HasSize == pos + SizeUnits <= Len(disk)

Message == disk[pos + 1].rec

\* The file holds all of the message.
Whole == pos + FrameUnits <= Len(disk)

\* The file ends behind the first n units of the message.
CutBehind(n) == Len(disk) = pos + SizeUnits + n

\* ParseFromCodedStream succeeds: on a whole message, and on one the file ends
\* within once its required fields are there and no field is cut.
Parsed == Whole \/ CutBehind(RequiredUnits) \/ (Message.renamed /\ CutBehind(BufferUnits))

\* packed_buffer is among what was parsed.
HasBuffer ==
  Len(disk) >= pos + SizeUnits + (IF Message.renamed THEN BufferUnits ELSE PayloadUnits)

\* Bugs: a message that ends early is tried again; the limit counts from the
\* size instead of from behind it.
Advanced_Retry == IF Whole THEN pos + FrameUnits ELSE pos
Advanced_Short == IF Whole THEN pos + PayloadUnits ELSE Len(disk)

\* Parsing stops at the limit, or at the end of the file.
Advanced == IF Whole THEN pos + FrameUnits ELSE Len(disk)

Filtered(r) == SymbolFilter # {} /\ r.symbol \notin SymbolFilter

\* TibMsg::UnPack is external; it refuses an empty buffer.
Exports == Parsed /\ ~Filtered(Message) /\ HasBuffer /\ Message.unpacks

-----------------------------------------------------------------------------
\* The columns.

\* Bug: the columns start after the fifth.
FidIndex_Late(f) == Len(BaseColumns) + (CHOOSE i \in DOMAIN columns : columns[i] = f)

\* fid_map: position of a FID's cell, from 0.  The four fixed columns are in
\* the map with 0, and emplace does not replace an entry.
FidIndex(f) ==
  IF f \in Range(BaseColumns) THEN 0
  ELSE Len(BaseColumns) + (CHOOSE i \in DOMAIN columns : columns[i] = f) - 1

\* fid_map.size(), the number of cells of a row.
RowWidth == Cardinality(Range(BaseColumns) \cup Range(columns))

Plain(text) == [text |-> text, quoted |-> FALSE]

Printed(value) == [text |-> value, quoted |-> value \in WithComma]

Converts(r) == {f \in DOMAIN r.fields : r.fields[f] # Unconvertible}

\* Every converted field has its cell within the row.
Fits(r) == \A f \in Converts(r) : FidIndex(f) < RowWidth

Fixed(r) == <<r.service, r.symbol, "time", "type">>

Row(r) ==
  [i \in 1 .. RowWidth |->
     IF \E f \in Converts(r) : FidIndex(f) = i - 1
       THEN Printed(r.fields[CHOOSE f \in Converts(r) : FidIndex(f) = i - 1])
     ELSE IF i <= Len(BaseColumns) THEN Plain(Fixed(r)[i])
     ELSE Plain("")]

Header(names) == [i \in 1 .. Len(BaseColumns) + Len(names) |-> Plain((BaseColumns \o names)[i])]

\* A stream writes at its own position of the file, over what is there.
Put(lines, at, line) ==
  IF at < Len(lines) THEN [lines EXCEPT ![at + 1] = line] ELSE Append(lines, line)

-----------------------------------------------------------------------------

\* Opening the outputs truncates them.
StartConvert ==
  /\ pc = "idle" /\ capture \in {"closed", "killed"}
  /\ pc' = "first"
  /\ UNCHANGED <<archiveVars, pos, fids, columns, files, offset>>

\* There is no input file: the conversion is over, and Run reports success.
OpenFails ==
  /\ pc = "idle" /\ capture = "none"
  /\ pc' = "done"
  /\ UNCHANGED <<archiveVars, pos, fids, columns, files, offset>>

CollectFids ==
  /\ pc = "first" /\ HasSize
  /\ fids' = IF Exports THEN fids \cup DOMAIN Message.fields ELSE fids
  /\ pos' = Advanced
  /\ UNCHANGED <<archiveVars, pc, columns, files, offset>>

\* lseek to the start of the file.
Rewound == 0

WriteHeaders ==
  /\ pc = "first" /\ ~HasSize
  /\ columns' \in SetToSeqs(fids)
  /\ files' = [f \in FileNames |-> <<Header(columns')>>]
  /\ offset' = [s \in Services |-> 1]
  /\ pos' = Rewound
  /\ pc' = "second"
  /\ UNCHANGED <<archiveVars, fids>>

SkipMessage ==
  /\ pc = "second" /\ HasSize /\ ~Exports
  /\ pos' = Advanced
  /\ UNCHANGED <<archiveVars, pc, fids, columns, files, offset>>

WriteRow ==
  /\ pc = "second" /\ HasSize /\ Exports
  /\ Message.service \in Services /\ Fits(Message)
  /\ LET s == Message.service IN
       /\ files' = [files EXCEPT ![OutputName[s]] = Put(@, offset[s], Row(Message))]
       /\ offset' = [offset EXCEPT ![s] = @ + 1]
  /\ pos' = Advanced
  /\ UNCHANGED <<archiveVars, pc, fids, columns>>

\* A service that is not configured has a null stream, and a cell beyond the
\* row is outside its vector: the behaviour is undefined, here the end of it.
Crash ==
  /\ pc = "second" /\ HasSize /\ Exports
  /\ Message.service \notin Services \/ ~Fits(Message)
  /\ pc' = "crashed"
  /\ UNCHANGED <<archiveVars, pos, fids, columns, files, offset>>

EndConvert ==
  /\ pc = "second" /\ ~HasSize
  /\ pc' = "done"
  /\ UNCHANGED <<archiveVars, pos, fids, columns, files, offset>>

Conversion ==
  \/ StartConvert \/ OpenFails \/ CollectFids \/ WriteHeaders \/ SkipMessage \/ WriteRow
  \/ EndConvert

Ended == pc \in {"done", "crashed"} /\ UNCHANGED vars

Next ==
  \/ pc = "idle" /\ Capture /\ UNCHANGED convertVars
  \/ Conversion \/ Crash \/ Ended

Spec == Init /\ [][Next]_vars

\* The conversion is one thread that nothing blocks.
FairSpec == Spec /\ WF_vars(CollectFids \/ WriteHeaders \/ SkipMessage \/ WriteRow \/ Crash
                            \/ EndConvert)

-----------------------------------------------------------------------------
\* Properties.

\* The cells a CSV reader sees: a comma outside quotes ends a cell.
ReadBack(line) ==
  FlattenSeq([i \in DOMAIN line |->
    IF line[i].text \in WithComma /\ ~line[i].quoted THEN <<line[i].text, line[i].text>>
    ELSE <<line[i].text>>])

ReferenceRow(r) ==
  Fixed(r) \o [i \in DOMAIN columns |->
    IF columns[i] \in Converts(r) THEN r.fields[columns[i]] ELSE ""]

ReferenceRows(s, records) ==
  FlattenSeq([i \in DOMAIN records |->
    LET r == records[i]
    IN  IF r.service = s /\ r.unpacks /\ ~Filtered(r) THEN <<ReferenceRow(r)>> ELSE <<>>])

ReferenceFile(s, records) == <<BaseColumns \o columns>> \o ReferenceRows(s, records)

Exported(s) == LET lines == files[OutputName[s]]
               IN  [i \in DOMAIN lines |-> ReadBack(lines[i])]

\* Whatever happened to the capture, the export holds a prefix of what it
\* recorded, and all of it when it was closed and its disk had room: one row
\* per message of the service, in order, every value under the name of its
\* field (both passes of Convert, Clear's flush, and the frames between them).
ExportFollowsCapture ==
  pc = "done" /\ capture # "none" =>
    \E n \in 0 .. Len(written) :
      /\ capture = "closed" /\ ~full => n = Len(written)
      /\ \A s \in Services : Exported(s) = ReferenceFile(s, SubSeq(written, 1, n))

\* Wherever a capture was cut off, and whatever was not exported before it, a
\* message that either pass can parse is one of those recorded, at the place it
\* was recorded.  It is whole unless the process was killed or the disk was
\* full; then the file ends within it, and if it is exported all the same, it
\* lacks only its new symbol, which no column prints (the frames of
\* OnMarketDataItemEvent, and the limits of Convert).
ReadsRecorded ==
  pc \in {"first", "second"} /\ HasSize /\ Parsed =>
    \E n \in 1 .. Len(written) :
      /\ pos = (n - 1) * FrameUnits
      /\ IF Whole THEN SubSeq(disk, pos + 1, pos + FrameUnits) = Frame(written[n])
         ELSE /\ capture = "killed" \/ full
              /\ SubSeq(disk, pos + 1, Len(disk)) = SubSeq(Frame(written[n]), 1, Len(disk) - pos)
              /\ Exports => written[n].renamed

\* No cell is written outside its row: fid_map and the rows are sized by the
\* first pass, and the second meets no field the first has not seen.
CellsFitRows == pc = "second" /\ HasSize /\ Exports => Fits(Message)

\* Every conversion comes to an end, truncated files included.
ConversionEnds == pc = "first" ~> pc \in {"done", "crashed"}
=============================================================================
