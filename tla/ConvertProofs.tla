---------------------------- MODULE ConvertProofs ----------------------------
(***************************************************************************)
(* For files of any length and frames of any size: what a capture leaves,  *)
(* closed, killed or short of disk, is a prefix of the frames it recorded; *)
(* both passes of Convert step from frame to frame over it, and the first  *)
(* has seen the fields of every message the second writes.                 *)
(***************************************************************************)
EXTENDS Convert, FiniteSetTheorems, WellFoundedInduction, TLAPS

\* Where a frame may begin.
Boundary(p) == \E n \in Nat : p = n * FrameUnits

\* Units that are the first of the frames of messages.
PrefixOf(units, messages) ==
  /\ Len(units) <= Len(messages) * FrameUnits
  /\ \A n \in 1 .. Len(messages) : \A u \in 1 .. FrameUnits :
       (n - 1) * FrameUnits + u <= Len(units) =>
         units[(n - 1) * FrameUnits + u] = [rec |-> messages[n], unit |-> u]

\* The file is a prefix of what was recorded, and with the buffers all of it
\* while no write has failed.
ArchiveInvariant ==
  /\ capture \in {"none", "open", "closed", "killed"}
  /\ written \in Seq(Records) /\ buffered \in Seq(Units) /\ disk \in Seq(Units)
  /\ PrefixOf(disk, written)
  /\ capture = "open" /\ ~full =>
       PrefixOf(disk \o buffered, written) /\ Len(disk) + Len(buffered) = Len(written) * FrameUnits
  /\ capture = "closed" /\ ~full => Len(disk) = Len(written) * FrameUnits

\* The message that begins at p is exported: the file has all of it, or ends
\* behind its buffer.
ExportsAt(p) ==
  /\ \/ p + FrameUnits <= Len(disk)
     \/ disk[p + 1].rec.renamed /\ Len(disk) = p + SizeUnits + BufferUnits
  /\ ~Filtered(disk[p + 1].rec)
  /\ disk[p + 1].rec.unpacks

\* names has the fields of what is exported before end.
Covers(names, end) ==
  \A p \in 0 .. Len(disk) :
    Boundary(p) /\ p < end /\ ExportsAt(p) => DOMAIN disk[p + 1].rec.fields \subseteq names

ConvertInvariant ==
  /\ ArchiveInvariant
  /\ pc \in {"idle", "first", "second", "done", "crashed"}
  /\ pos \in Nat
  /\ Boundary(pos) \/ pos = Len(disk)
  /\ IsFiniteSet(fids) /\ fids \subseteq AllFids
  /\ pc = "idle" => pos = 0
  /\ pc \in {"first", "second"} => capture \in {"closed", "killed"}
  /\ pc = "first" => Covers(fids, pos)
  /\ pc \in {"second", "crashed"} => columns \in SetToSeqs(fids) /\ Covers(fids, Len(disk))
  /\ pc = "crashed" => HasSize /\ Exports /\ (Message.service \notin Services \/ ~Fits(Message))

-----------------------------------------------------------------------------
\* Frames.

\* A frame has a size and a message.
LEMMA Frames ==
  /\ FrameUnits \in Nat /\ SizeUnits \in Nat /\ PayloadUnits \in Nat
  /\ 0 < SizeUnits /\ SizeUnits < FrameUnits
BY ArchiveAssumption DEF FrameUnits

\* Multiples of the size of a frame.
LEMMA Multiples ==
  ASSUME NEW m \in Nat, NEW n \in Nat
  PROVE  /\ m * FrameUnits \in Nat
         /\ (m + 1) * FrameUnits = m * FrameUnits + FrameUnits
         /\ m <= n => m * FrameUnits <= n * FrameUnits
<1>1. FrameUnits \in Nat
  BY Frames
<1> DEFINE F == FrameUnits
<1> HIDE DEF F
<1>2. F \in Nat
  BY <1>1 DEF F
<1>3. m * F \in Nat /\ (m + 1) * F = m * F + F
  BY <1>2
<1>4. ASSUME m <= n PROVE m * F <= n * F
  <2>1. PICK d \in Nat : n = m + d
    <3>1. n - m \in Nat /\ n = m + (n - m)
      BY <1>4
    <3>2. QED
      BY <3>1
  <2>2. n * F = m * F + d * F /\ d * F >= 0 /\ d * F \in Nat /\ m * F \in Nat
    BY <1>2, <2>1
  <2>3. QED
    BY <2>2
<1>5. QED
  BY <1>3, <1>4 DEF F

\* Between two frames lies a whole one.
LEMMA Gap ==
  ASSUME NEW p, Boundary(p), NEW q, Boundary(q)
  PROVE  p \in Nat /\ q \in Nat /\ (p < q => p + FrameUnits <= q)
<1>1. PICK m \in Nat : p = m * FrameUnits
  BY DEF Boundary
<1>2. PICK n \in Nat : q = n * FrameUnits
  BY DEF Boundary
<1>3. p \in Nat /\ q \in Nat
  BY <1>1, <1>2, Multiples
<1>4. ASSUME p < q PROVE p + FrameUnits <= q
  <2>1. m + 1 <= n
    <3>1. ~(n <= m)
      BY <1>1, <1>2, <1>3, <1>4, Multiples
    <3>2. QED
      BY <3>1
  <2>2. (m + 1) * FrameUnits <= n * FrameUnits
    BY <2>1, Multiples
  <2>3. QED
    BY <1>1, <1>2, <2>2, Multiples
<1>5. QED
  BY <1>3, <1>4

\* The frame behind a frame.
LEMMA NextFrame ==
  ASSUME NEW p, Boundary(p)
  PROVE  Boundary(p + FrameUnits)
<1>1. PICK m \in Nat : p = m * FrameUnits
  BY DEF Boundary
<1>2. p + FrameUnits = (m + 1) * FrameUnits
  BY <1>1, Multiples
<1>3. QED
  BY <1>2 DEF Boundary

-----------------------------------------------------------------------------
\* The file.

\* The units of a frame.
LEMMA FrameOf ==
  ASSUME NEW r \in Records
  PROVE  /\ Frame(r) \in Seq(Units) /\ Len(Frame(r)) = FrameUnits
         /\ \A u \in 1 .. FrameUnits : Frame(r)[u] = [rec |-> r, unit |-> u]
<1>1. FrameUnits \in Nat
  BY Frames
<1> HIDE DEF FrameUnits
<1>2. \A u \in 1 .. FrameUnits : [rec |-> r, unit |-> u] \in Units
  BY DEF Units
<1>3. QED
  BY <1>1, <1>2 DEF Frame

\* What is short of a prefix is one.
LEMMA PrefixCut ==
  ASSUME NEW units \in Seq(Units), NEW messages \in Seq(Records), PrefixOf(units, messages),
         NEW few \in Seq(Units), Len(few) <= Len(units),
         \A i \in 1 .. Len(few) : few[i] = units[i]
  PROVE  PrefixOf(few, messages)
<1>1. Len(few) \in Nat /\ Len(units) \in Nat /\ Len(messages) \in Nat /\ FrameUnits \in Nat
  BY Frames
<1>2. Len(messages) * FrameUnits \in Nat
  BY <1>1, Multiples
<1>3. Len(few) <= Len(messages) * FrameUnits
  BY <1>1, <1>2 DEF PrefixOf
<1>4. ASSUME NEW n \in 1 .. Len(messages), NEW u \in 1 .. FrameUnits,
             (n - 1) * FrameUnits + u <= Len(few)
      PROVE  few[(n - 1) * FrameUnits + u] = [rec |-> messages[n], unit |-> u]
  <2> DEFINE i == (n - 1) * FrameUnits + u
  <2>1. (n - 1) * FrameUnits \in Nat
    BY <1>1, Multiples
  <2>2. i \in 1 .. Len(few) /\ i <= Len(units)
    BY <1>1, <1>4, <2>1
  <2>3. units[i] = [rec |-> messages[n], unit |-> u]
    BY <2>2 DEF PrefixOf
  <2> HIDE DEF i
  <2>4. few[i] = [rec |-> messages[n], unit |-> u]
    BY <2>2, <2>3
  <2>5. QED
    BY <2>4 DEF i
<1>5. QED
  BY <1>3, <1>4 DEF PrefixOf

\* A prefix stays one when another message is recorded.
LEMMA PrefixKept ==
  ASSUME NEW units \in Seq(Units), NEW messages \in Seq(Records), PrefixOf(units, messages),
         NEW r \in Records
  PROVE  PrefixOf(units, Append(messages, r))
<1> DEFINE more == Append(messages, r)
           m == Len(messages)
<1>1. /\ m \in Nat /\ Len(units) \in Nat /\ FrameUnits \in Nat
      /\ Len(more) = m + 1 /\ \A n \in 1 .. m : more[n] = messages[n]
  BY Frames
<1>2. m * FrameUnits \in Nat /\ m * FrameUnits <= (m + 1) * FrameUnits
  BY <1>1, Multiples
<1>3. Len(units) <= (m + 1) * FrameUnits
  BY <1>1, <1>2, Multiples DEF PrefixOf
<1>4. ASSUME NEW n \in 1 .. m + 1, NEW u \in 1 .. FrameUnits, (n - 1) * FrameUnits + u <= Len(units)
      PROVE  units[(n - 1) * FrameUnits + u] = [rec |-> more[n], unit |-> u]
  <2>1. CASE n = m + 1
    <3>1. m * FrameUnits + u <= Len(units) /\ Len(units) <= m * FrameUnits
      BY <1>1, <1>4, <2>1 DEF PrefixOf
    <3>2. QED
      BY <1>1, <1>2, <3>1
  <2>2. CASE n # m + 1
    <3>1. n \in 1 .. m
      BY <1>1, <2>2
    <3>2. QED
      BY <1>1, <1>4, <3>1 DEF PrefixOf
  <2>3. QED
    BY <2>1, <2>2
<1> HIDE DEF more, m
<1>5. QED
  BY <1>1, <1>3, <1>4 DEF PrefixOf, more

\* A frame behind some units.
LEMMA FrameBehind ==
  ASSUME NEW units \in Seq(Units), NEW r \in Records
  PROVE  LET grown == units \o Frame(r) IN
         /\ grown \in Seq(Units) /\ Len(grown) = Len(units) + FrameUnits
         /\ \A i \in 1 .. Len(units) : grown[i] = units[i]
         /\ \A u \in 1 .. FrameUnits : grown[Len(units) + u] = Frame(r)[u]
<1> DEFINE f == Frame(r)
<1>1. f \in Seq(Units) /\ Len(f) = FrameUnits
  BY FrameOf
<1> HIDE DEF f
<1>2. /\ units \o f \in Seq(Units) /\ Len(units \o f) = Len(units) + Len(f)
      /\ \A i \in 1 .. Len(units) : (units \o f)[i] = units[i]
      /\ \A u \in 1 .. Len(f) : (units \o f)[Len(units) + u] = f[u]
  BY <1>1
<1>3. QED
  BY <1>1, <1>2 DEF f

\* All of what was recorded, and another frame, is all of it again.
LEMMA PrefixGrown ==
  ASSUME NEW units \in Seq(Units), NEW messages \in Seq(Records), PrefixOf(units, messages),
         Len(units) = Len(messages) * FrameUnits, NEW r \in Records
  PROVE  /\ PrefixOf(units \o Frame(r), Append(messages, r))
         /\ Len(units \o Frame(r)) = Len(Append(messages, r)) * FrameUnits
<1> DEFINE more == Append(messages, r)
           m == Len(messages)
           grown == units \o Frame(r)
<1>1. /\ m \in Nat /\ Len(units) \in Nat /\ FrameUnits \in Nat
      /\ Len(more) = m + 1 /\ more[m + 1] = r
  BY Frames
<1>2. m * FrameUnits \in Nat /\ (m + 1) * FrameUnits = m * FrameUnits + FrameUnits
  BY <1>1, Multiples
<1>3. /\ grown \in Seq(Units) /\ Len(grown) = Len(units) + FrameUnits
      /\ \A i \in 1 .. Len(units) : grown[i] = units[i]
      /\ \A u \in 1 .. FrameUnits : grown[Len(units) + u] = Frame(r)[u]
  BY FrameBehind
<1>4. PrefixOf(units, more)
  BY PrefixKept
<1>5. Len(grown) = Len(more) * FrameUnits
  BY <1>1, <1>2, <1>3
<1>6. ASSUME NEW n \in 1 .. Len(more), NEW u \in 1 .. FrameUnits
      PROVE  grown[(n - 1) * FrameUnits + u] = [rec |-> more[n], unit |-> u]
  <2> HIDE DEF more, grown, m
  <2>1. CASE n = m + 1
    <3>1. grown[m * FrameUnits + u] = Frame(r)[u]
      BY <1>3 DEF m
    <3>2. QED
      BY <1>1, <2>1, <3>1, FrameOf
  <2>2. CASE n # m + 1
    <3>1. n - 1 \in Nat /\ n \in Nat /\ n <= m
      BY <1>1, <2>2
    <3>2. n * FrameUnits <= m * FrameUnits /\ (n - 1) * FrameUnits \in Nat
          /\ n * FrameUnits = (n - 1) * FrameUnits + FrameUnits
      <4>1. (n - 1) + 1 = n
        BY <3>1
      <4>2. QED
        BY <1>1, <3>1, <4>1, Multiples
    <3>3. (n - 1) * FrameUnits + u \in 1 .. Len(units)
      BY <1>1, <1>2, <3>2 DEF m
    <3>4. QED
      BY <1>3, <1>4, <3>3 DEF PrefixOf
  <2>3. QED
    BY <2>1, <2>2
<1> HIDE DEF more, grown, m
<1>7. Len(grown) <= Len(more) * FrameUnits
  BY <1>1, <1>2, <1>5
<1>8. PrefixOf(grown, more)
  BY <1>6, <1>7 DEF PrefixOf
<1>9. QED
  BY <1>5, <1>8 DEF grown, more

\* Two sequences, one behind the other.
LEMMA Joined ==
  ASSUME NEW S, NEW front \in Seq(S), NEW back \in Seq(S)
  PROVE  /\ front \o back \in Seq(S)
         /\ Len(front \o back) = Len(front) + Len(back)
         /\ \A i \in 1 .. Len(front) : (front \o back)[i] = front[i]
         /\ \A i \in 1 .. Len(back) : (front \o back)[Len(front) + i] = back[i]
OBVIOUS

\* The two parts of a sequence that is cut behind n.
LEMMA Cut ==
  ASSUME NEW S, NEW seq \in Seq(S), NEW n \in 1 .. Len(seq)
  PROVE  /\ SubSeq(seq, 1, n) \in Seq(S) /\ Len(SubSeq(seq, 1, n)) = n
         /\ \A i \in 1 .. n : SubSeq(seq, 1, n)[i] = seq[i]
         /\ SubSeq(seq, n + 1, Len(seq)) \in Seq(S)
         /\ Len(SubSeq(seq, n + 1, Len(seq))) = Len(seq) - n
         /\ \A i \in 1 .. Len(seq) - n : SubSeq(seq, n + 1, Len(seq))[i] = seq[n + i]
<1>1. Len(seq) \in Nat
  OBVIOUS
<1>2. QED
  BY <1>1

\* A stretch of a sequence.
LEMMA Stretch ==
  ASSUME NEW S, NEW seq \in Seq(S), NEW p \in Nat, NEW n \in Nat, p + n <= Len(seq)
  PROVE  SubSeq(seq, p + 1, p + n) = [u \in 1 .. n |-> seq[p + u]]
<1> DEFINE sub == SubSeq(seq, p + 1, p + n)
<1>1. Len(seq) \in Nat
  OBVIOUS
<1>2. sub = [u \in 1 .. (p + n) - (p + 1) + 1 |-> seq[u + (p + 1) - 1]]
  BY <1>1
<1>3. (p + n) - (p + 1) + 1 = n /\ \A u \in 1 .. n : u + (p + 1) - 1 = p + u
  OBVIOUS
<1>4. QED
  BY <1>2, <1>3

\* The file and the buffers behind a flush of n units.
Moved(front, back, n) == front \o SubSeq(back, 1, n)
Remaining(back, n) == SubSeq(back, n + 1, Len(back))

\* more and rest are front and back, divided elsewhere.
SamePlaces(S, more, rest, front, back) ==
  /\ more \in Seq(S) /\ rest \in Seq(S)
  /\ more \o rest \in Seq(S) /\ front \o back \in Seq(S)
  /\ Len(more) + Len(rest) = Len(front) + Len(back)
  /\ Len(more \o rest) = Len(front \o back)
  /\ \A i \in 1 .. Len(more \o rest) : (more \o rest)[i] = (front \o back)[i]
  /\ Len(more) <= Len(front \o back)
  /\ \A i \in 1 .. Len(more) : more[i] = (front \o back)[i]

\* What moves from the buffers to the file keeps its place.
LEMMA Flushed ==
  ASSUME NEW S, NEW front \in Seq(S), NEW back \in Seq(S), NEW n \in 1 .. Len(back)
  PROVE  SamePlaces(S, Moved(front, back, n), Remaining(back, n), front, back)
<1> DEFINE head == SubSeq(back, 1, n)
           more == Moved(front, back, n)
           rest == Remaining(back, n)
           all == front \o back
           both == more \o rest
<1>1. Len(front) \in Nat /\ Len(back) \in Nat /\ n \in Nat /\ n <= Len(back)
  OBVIOUS
<1>2. /\ head \in Seq(S) /\ Len(head) = n /\ \A i \in 1 .. n : head[i] = back[i]
      /\ rest \in Seq(S) /\ Len(rest) = Len(back) - n
      /\ \A i \in 1 .. Len(back) - n : rest[i] = back[n + i]
  BY Cut DEF Remaining
<1>3. more = front \o head
  BY DEF Moved
<1> HIDE DEF head, more, rest
<1>4. /\ more \in Seq(S) /\ Len(more) = Len(front) + n
      /\ \A i \in 1 .. Len(front) : more[i] = front[i]
      /\ \A i \in 1 .. n : more[Len(front) + i] = head[i]
  <2>1. head \in Seq(S)
    BY <1>2
  <2>2. /\ front \o head \in Seq(S) /\ Len(front \o head) = Len(front) + Len(head)
        /\ \A i \in 1 .. Len(front) : (front \o head)[i] = front[i]
        /\ \A i \in 1 .. Len(head) : (front \o head)[Len(front) + i] = head[i]
    BY <2>1, Joined
  <2>3. QED
    BY <1>2, <1>3, <2>2
<1>5. /\ both \in Seq(S) /\ Len(both) = Len(more) + Len(rest)
      /\ \A i \in 1 .. Len(more) : both[i] = more[i]
      /\ \A i \in 1 .. Len(rest) : both[Len(more) + i] = rest[i]
  <2>1. more \in Seq(S) /\ rest \in Seq(S)
    BY <1>2, <1>4
  <2>2. QED
    BY <2>1, Joined
<1>6. /\ all \in Seq(S) /\ Len(all) = Len(front) + Len(back)
      /\ \A i \in 1 .. Len(front) : all[i] = front[i]
      /\ \A i \in 1 .. Len(back) : all[Len(front) + i] = back[i]
  BY Joined
<1> HIDE DEF all, both
<1>0. /\ Len(front) \in Nat /\ Len(back) \in Nat /\ n \in Nat /\ n <= Len(back)
      /\ Len(more) = Len(front) + n /\ Len(rest) = Len(back) - n
      /\ Len(both) = Len(more) + Len(rest) /\ Len(all) = Len(front) + Len(back)
  BY <1>1, <1>2, <1>4, <1>5, <1>6
<1>7. ASSUME NEW i \in 1 .. Len(more) PROVE more[i] = all[i]
  <2>1. CASE i \in 1 .. Len(front)
    BY <1>4, <1>6, <2>1
  <2>2. CASE i \notin 1 .. Len(front)
    <3> DEFINE j == i - Len(front)
    <3>1. j \in 1 .. n /\ j \in 1 .. Len(back) /\ i = Len(front) + j
      BY <1>0, <2>2
    <3> HIDE DEF j
    <3>2. QED
      BY <1>2, <1>4, <1>6, <3>1
  <2>3. QED
    BY <2>1, <2>2
<1>8. ASSUME NEW i \in 1 .. Len(both) PROVE both[i] = all[i]
  <2>1. CASE i \in 1 .. Len(more)
    BY <1>5, <1>7, <2>1
  <2>2. CASE i \notin 1 .. Len(more)
    <3> DEFINE j == i - Len(more)
    <3>1. /\ j \in 1 .. Len(back) - n /\ j \in 1 .. Len(rest) /\ i = Len(more) + j
          /\ n + j \in 1 .. Len(back) /\ i = Len(front) + (n + j)
      BY <1>0, <2>2
    <3> HIDE DEF j
    <3>2. both[i] = rest[j] /\ rest[j] = back[n + j]
      BY <1>2, <1>5, <3>1
    <3>3. all[i] = back[n + j]
      BY <1>6, <3>1
    <3>4. QED
      BY <3>2, <3>3
  <2>3. QED
    BY <2>1, <2>2
<1>9. Len(more) + Len(rest) = Len(front) + Len(back) /\ Len(more) <= Len(all) /\ Len(both) = Len(all)
  BY <1>0
<1>10. QED
  BY <1>2, <1>4, <1>5, <1>6, <1>7, <1>8, <1>9 DEF all, both, more, rest, SamePlaces

\* Every step of a capture keeps the file a prefix.
LEMMA ArchiveStep == ArchiveInvariant /\ Capture => ArchiveInvariant'
<1> SUFFICES ASSUME ArchiveInvariant, Capture PROVE ArchiveInvariant'
  OBVIOUS
<1>0. /\ capture \in {"none", "open", "closed", "killed"}
      /\ written \in Seq(Records) /\ buffered \in Seq(Units) /\ disk \in Seq(Units)
      /\ PrefixOf(disk, written)
      /\ capture = "open" /\ ~full =>
           PrefixOf(disk \o buffered, written) /\ Len(disk) + Len(buffered) = Len(written) * FrameUnits
      /\ capture = "closed" /\ ~full => Len(disk) = Len(written) * FrameUnits
  BY DEF ArchiveInvariant
<1>1. CASE Open
  <2>1. /\ capture' = "open" /\ written' = <<>> /\ buffered' = <<>> /\ disk' = <<>>
    BY <1>1 DEF Open
  <2>2. 0 * FrameUnits = 0
    BY Frames
  <2>3. /\ <<>> \in Seq(Records) /\ <<>> \in Seq(Units) /\ Len(<<>>) = 0 /\ <<>> \o <<>> = <<>>
    OBVIOUS
  <2>4. PrefixOf(<<>>, <<>>)
    BY <2>2, <2>3 DEF PrefixOf
  <2>5. QED
    BY <2>1, <2>2, <2>3, <2>4 DEF ArchiveInvariant
<1>2. CASE DiskFills
  <2>1. capture = "open" /\ full' /\ UNCHANGED <<capture, written, buffered, disk>>
    BY <1>2 DEF DiskFills
  <2>2. QED
    BY <1>0, <2>1 DEF ArchiveInvariant
<1>7. CASE Killed
  <2>1. capture' = "killed" /\ buffered' = <<>> /\ UNCHANGED <<written, disk>>
    BY <1>7 DEF Killed
  <2>2. <<>> \in Seq(Units)
    OBVIOUS
  <2>3. QED
    BY <1>0, <2>1, <2>2 DEF ArchiveInvariant
<1>3. CASE Close
  <2>1. /\ capture = "open" /\ capture' = "closed" /\ disk' = disk \o Drained /\ buffered' = <<>>
        /\ UNCHANGED <<written, full>>
    BY <1>3 DEF Close
  <2>2. CASE full
    <3>1. disk' = disk
      BY <1>0, <2>1, <2>2 DEF Drained
    <3>2. QED
      BY <1>0, <2>1, <2>2, <3>1 DEF ArchiveInvariant
  <2>3. CASE ~full
    <3>1. disk' = disk \o buffered
      BY <2>1, <2>3 DEF Drained
    <3>2. disk' \in Seq(Units) /\ Len(disk') = Len(disk) + Len(buffered)
      BY <1>0, <3>1
    <3>3. PrefixOf(disk', written) /\ Len(disk') = Len(written) * FrameUnits
      BY <1>0, <2>1, <2>3, <3>1, <3>2
    <3>4. QED
      BY <1>0, <2>1, <2>3, <3>2, <3>3 DEF ArchiveInvariant
  <2>4. QED
    BY <2>2, <2>3
<1>4. ASSUME NEW r \in Records, Record(r) PROVE ArchiveInvariant'
  <2>1. /\ capture = "open" /\ written' = Append(written, r) /\ buffered' = buffered \o Frame(r)
        /\ UNCHANGED <<capture, full, disk>>
    BY <1>4 DEF Record
  <2>2. written' \in Seq(Records) /\ buffered' \in Seq(Units)
    BY <1>0, <2>1, FrameBehind
  <2>3. PrefixOf(disk', written')
    BY <1>0, <2>1, PrefixKept
  <2>4. ASSUME ~full
        PROVE  /\ PrefixOf(disk' \o buffered', written')
               /\ Len(disk') + Len(buffered') = Len(written') * FrameUnits
    <3> DEFINE units == disk \o buffered
    <3>1. units \in Seq(Units) /\ Len(units) = Len(disk) + Len(buffered)
      BY <1>0
    <3>2. disk \o (buffered \o Frame(r)) = units \o Frame(r)
      <4> DEFINE f == Frame(r)
      <4>1. f \in Seq(Units)
        BY FrameOf
      <4> HIDE DEF f
      <4>2. disk \o (buffered \o f) = (disk \o buffered) \o f
        BY <1>0, <4>1
      <4>3. QED
        BY <4>2 DEF f
    <3>3. PrefixOf(units, written) /\ Len(units) = Len(written) * FrameUnits
      BY <1>0, <2>1, <2>4, <3>1
    <3> HIDE DEF units
    <3>4. /\ PrefixOf(units \o Frame(r), Append(written, r))
          /\ Len(units \o Frame(r)) = Len(Append(written, r)) * FrameUnits
      BY <1>0, <3>1, <3>3, PrefixGrown
    <3>5. Len(units \o Frame(r)) = Len(disk) + Len(buffered')
      <4>1. /\ Len(units \o Frame(r)) = Len(units) + FrameUnits
            /\ Len(buffered') = Len(buffered) + FrameUnits
        BY <1>0, <2>1, <3>1, FrameBehind
      <4>2. QED
        BY <1>0, <3>1, <4>1, Frames
    <3>6. QED
      BY <2>1, <3>2, <3>4, <3>5
  <2>5. QED
    BY <1>0, <2>1, <2>2, <2>3, <2>4 DEF ArchiveInvariant
<1>5. ASSUME NEW n \in 1 .. Len(buffered), Flush(n) PROVE ArchiveInvariant'
  <2>1. /\ capture = "open" /\ ~full
        /\ disk' = disk \o SubSeq(buffered, 1, n) /\ buffered' = SubSeq(buffered, n + 1, Len(buffered))
        /\ UNCHANGED <<capture, written, full>>
    BY <1>5 DEF Flush
  <2>2. /\ disk' \in Seq(Units) /\ buffered' \in Seq(Units)
        /\ disk' \o buffered' \in Seq(Units) /\ disk \o buffered \in Seq(Units)
        /\ Len(disk') + Len(buffered') = Len(disk) + Len(buffered)
        /\ Len(disk' \o buffered') = Len(disk \o buffered)
        /\ \A i \in 1 .. Len(disk' \o buffered') : (disk' \o buffered')[i] = (disk \o buffered)[i]
        /\ Len(disk') <= Len(disk \o buffered)
        /\ \A i \in 1 .. Len(disk') : disk'[i] = (disk \o buffered)[i]
    <3>1. disk \in Seq(Units) /\ buffered \in Seq(Units)
      BY <1>0
    <3>2. SamePlaces(Units, Moved(disk, buffered, n), Remaining(buffered, n), disk, buffered)
      BY <3>1, Flushed
    <3>3. disk' = Moved(disk, buffered, n) /\ buffered' = Remaining(buffered, n)
      BY <2>1 DEF Moved, Remaining
    <3>4. QED
      BY <3>2, <3>3 DEF SamePlaces
  <2>3. PrefixOf(disk \o buffered, written)
    BY <1>0, <2>1
  <2>4. PrefixOf(disk', written)
    BY <1>0, <2>2, <2>3, PrefixCut
  <2>5. PrefixOf(disk' \o buffered', written)
    <3>1. Len(disk' \o buffered') <= Len(disk \o buffered)
      BY <2>2
    <3>2. QED
      BY <1>0, <2>2, <2>3, <3>1, PrefixCut
  <2>6. QED
    BY <1>0, <2>1, <2>2, <2>4, <2>5 DEF ArchiveInvariant
<1>6. QED
  BY <1>1, <1>2, <1>3, <1>4, <1>5, <1>7 DEF Capture

-----------------------------------------------------------------------------
\* The conversion.

\* The message that is read begins at a frame.
LEMMA AtFrame ==
  ASSUME ConvertInvariant, HasSize
  PROVE  /\ pos \in Nat /\ Len(disk) \in Nat /\ FrameUnits \in Nat /\ SizeUnits \in Nat
         /\ 0 < SizeUnits /\ SizeUnits < FrameUnits
         /\ pos < Len(disk) /\ Boundary(pos) /\ Message \in Records
<1>1. disk \in Seq(Units) /\ pos \in Nat /\ (Boundary(pos) \/ pos = Len(disk))
  BY DEF ConvertInvariant, ArchiveInvariant
<1>2. /\ pos \in Nat /\ Len(disk) \in Nat /\ FrameUnits \in Nat /\ SizeUnits \in Nat
      /\ 0 < SizeUnits /\ SizeUnits < FrameUnits
  BY <1>1, Frames
<1>3. pos < Len(disk)
  BY <1>2 DEF HasSize
<1>4. disk[pos + 1] \in Units
  BY <1>1, <1>2, <1>3
<1>5. QED
  BY <1>1, <1>2, <1>3, <1>4 DEF Units, Message

\* What is exported has its buffer.
LEMMA ExportsHere ==
  ASSUME ConvertInvariant, HasSize
  PROVE  /\ Exports <=> ExportsAt(pos)
         /\ Whole => Parsed /\ HasBuffer
<1>1. pos \in Nat /\ Len(disk) \in Nat /\ SizeUnits \in Nat
  BY AtFrame
<1>2. /\ RequiredUnits \in Nat /\ BufferUnits \in Nat /\ PayloadUnits \in Nat
      /\ RequiredUnits < BufferUnits /\ BufferUnits < PayloadUnits
      /\ FrameUnits = SizeUnits + PayloadUnits
  BY ArchiveAssumption, ConvertAssumption DEF FrameUnits
<1>3. Whole => HasBuffer
  BY <1>1, <1>2 DEF Whole, HasBuffer
<1>4. ~Whole /\ CutBehind(RequiredUnits) => ~HasBuffer
  BY <1>1, <1>2 DEF Whole, CutBehind, HasBuffer
<1>5. Message.renamed /\ CutBehind(BufferUnits) => HasBuffer
  BY <1>1, <1>2 DEF CutBehind, HasBuffer
<1>6. Parsed /\ HasBuffer <=> Whole \/ (Message.renamed /\ CutBehind(BufferUnits))
  BY <1>3, <1>4, <1>5 DEF Parsed
<1>7. QED
  BY <1>3, <1>6 DEF Exports, ExportsAt, Parsed, Whole, CutBehind, Message

\* Reading on from a frame leads to a frame or to the end of the file.
LEMMA AdvancedFrame ==
  ASSUME ConvertInvariant, HasSize
  PROVE  Advanced \in Nat /\ (Boundary(Advanced) \/ Advanced = Len(disk))
<1>1. /\ pos \in Nat /\ Len(disk) \in Nat /\ FrameUnits \in Nat /\ Boundary(pos)
  BY AtFrame
<1>2. Boundary(pos + FrameUnits)
  BY <1>1, NextFrame
<1>3. QED
  BY <1>1, <1>2 DEF Advanced, Whole

\* What the first pass has read, the frame at hand included.
LEMMA CoversMore ==
  ASSUME ConvertInvariant, HasSize, Covers(fids, pos), NEW names, fids \subseteq names,
         Exports => DOMAIN Message.fields \subseteq names
  PROVE  Covers(names, Advanced)
<1>1. /\ pos \in Nat /\ Len(disk) \in Nat /\ FrameUnits \in Nat /\ 0 < FrameUnits /\ Boundary(pos)
  BY AtFrame
<1>2. ASSUME NEW p \in 0 .. Len(disk), Boundary(p), p < Advanced, ExportsAt(p)
      PROVE  DOMAIN disk[p + 1].rec.fields \subseteq names
  <2>1. CASE p < pos
    BY <1>2, <2>1 DEF Covers
  <2>2. CASE p = pos
    BY <1>2, <2>2, ExportsHere DEF Message
  <2>3. CASE pos < p
    <3>1. pos + FrameUnits <= p
      BY <1>1, <1>2, <2>3, Gap
    <3>2. CASE Whole
      BY <1>1, <1>2, <3>1, <3>2 DEF Advanced, Whole
    <3>3. CASE ~Whole
      BY <1>1, <1>2, <3>1, <3>3 DEF Advanced, Whole
    <3>4. QED
      BY <3>2, <3>3
  <2>4. QED
    BY <1>1, <2>1, <2>2, <2>3
<1>3. QED
  BY <1>2 DEF Covers

\* Where no size can be read, no message follows.
LEMMA CoversAll ==
  ASSUME ConvertInvariant, ~HasSize, Covers(fids, pos)
  PROVE  Covers(fids, Len(disk))
<1>1. /\ pos \in Nat /\ Len(disk) \in Nat /\ FrameUnits \in Nat /\ SizeUnits \in Nat
      /\ SizeUnits < FrameUnits
  BY Frames DEF ConvertInvariant, ArchiveInvariant
<1>2. ASSUME NEW p \in 0 .. Len(disk), Boundary(p), p < Len(disk), ExportsAt(p)
      PROVE  DOMAIN disk[p + 1].rec.fields \subseteq fids
  <2>1. p + SizeUnits <= Len(disk)
    BY <1>1, <1>2, ConvertAssumption DEF ExportsAt
  <2>2. Len(disk) < pos + SizeUnits
    BY <1>1 DEF HasSize
  <2>3. p < pos
    BY <1>1, <2>1, <2>2
  <2>4. QED
    BY <1>2, <2>3 DEF Covers
<1>3. QED
  BY <1>2 DEF Covers

-----------------------------------------------------------------------------
\* The invariant.

\* It holds before the first capture.
LEMMA ConvertInit == Init => ConvertInvariant
<1> SUFFICES ASSUME Init PROVE ConvertInvariant
  OBVIOUS
<1>1. /\ capture = "none" /\ written = <<>> /\ buffered = <<>> /\ disk = <<>>
      /\ pc = "idle" /\ pos = 0 /\ fids = {}
  BY DEF Init, ArchiveInit
<1>2. 0 * FrameUnits = 0
  BY Frames
<1>3. <<>> \in Seq(Records) /\ <<>> \in Seq(Units) /\ Len(<<>>) = 0
  OBVIOUS
<1>4. ArchiveInvariant
  BY <1>1, <1>2, <1>3 DEF ArchiveInvariant, PrefixOf
<1>5. Boundary(0)
  BY <1>2 DEF Boundary
<1>6. QED
  BY <1>1, <1>4, <1>5, FS_EmptySet DEF ConvertInvariant

\* A step that leaves the capture alone leaves what is known of it.
LEMMA ArchiveLeft ==
  ASSUME ConvertInvariant, UNCHANGED archiveVars
  PROVE  ArchiveInvariant' /\ Len(disk)' = Len(disk)
BY DEF ConvertInvariant, ArchiveInvariant, archiveVars

\* Every step keeps it.
LEMMA ConvertNext == ConvertInvariant /\ [Next]_vars => ConvertInvariant'
<1> SUFFICES ASSUME ConvertInvariant, [Next]_vars PROVE ConvertInvariant'
  OBVIOUS
<1>0. /\ ArchiveInvariant
      /\ pc \in {"idle", "first", "second", "done", "crashed"}
      /\ pos \in Nat
      /\ Boundary(pos) \/ pos = Len(disk)
      /\ IsFiniteSet(fids) /\ fids \subseteq AllFids
      /\ pc = "idle" => pos = 0
      /\ pc \in {"first", "second"} => capture \in {"closed", "killed"}
      /\ pc = "first" => Covers(fids, pos)
      /\ pc \in {"second", "crashed"} => columns \in SetToSeqs(fids) /\ Covers(fids, Len(disk))
      /\ pc = "crashed" => HasSize /\ Exports /\ (Message.service \notin Services \/ ~Fits(Message))
  BY DEF ConvertInvariant
<1>a. Boundary(0)
  <2>1. 0 * FrameUnits = 0
    BY Frames
  <2>2. QED
    BY <2>1 DEF Boundary
<1>1. CASE pc = "idle" /\ Capture /\ UNCHANGED convertVars
  <2>1. ArchiveInvariant'
    BY <1>0, <1>1, ArchiveStep
  <2>2. pc' = "idle" /\ pos' = 0 /\ fids' = fids
    BY <1>0, <1>1 DEF convertVars
  <2>3. QED
    BY <1>0, <1>a, <2>1, <2>2 DEF ConvertInvariant
<1>2. CASE StartConvert
  <2>1. /\ pc' = "first" /\ pos' = 0 /\ fids' = fids /\ UNCHANGED archiveVars
        /\ capture' \in {"closed", "killed"}
    BY <1>0, <1>2 DEF StartConvert, archiveVars
  <2>2. Covers(fids, pos)'
    BY <2>1 DEF Covers
  <2>3. QED
    BY <1>0, <1>a, <2>1, <2>2, ArchiveLeft DEF ConvertInvariant
<1>3. CASE OpenFails
  <2>1. pc' = "done" /\ pos' = 0 /\ fids' = fids /\ UNCHANGED archiveVars
    BY <1>0, <1>3 DEF OpenFails
  <2>2. QED
    BY <1>0, <1>a, <2>1, ArchiveLeft DEF ConvertInvariant
<1>4. CASE CollectFids
  <2>1. /\ pc = "first" /\ pc' = "first" /\ HasSize
        /\ pos' = Advanced /\ UNCHANGED archiveVars
        /\ fids' = IF Exports THEN fids \cup DOMAIN Message.fields ELSE fids
        /\ capture' \in {"closed", "killed"}
    BY <1>0, <1>4 DEF CollectFids, archiveVars
  <2>2. Message \in Records
    BY <2>1, AtFrame
  <2>3. IsFiniteSet(DOMAIN Message.fields) /\ DOMAIN Message.fields \subseteq AllFids
    BY <2>2, ConvertAssumption DEF AllFids
  <2>4. IsFiniteSet(fids') /\ fids' \subseteq AllFids
    <3>1. IsFiniteSet(fids \cup DOMAIN Message.fields)
      BY <1>0, <2>3, FS_Union
    <3>2. QED
      BY <1>0, <2>1, <2>3, <3>1
  <2>5. Covers(fids', Advanced)
    <3>1. fids \subseteq fids' /\ (Exports => DOMAIN Message.fields \subseteq fids')
      BY <2>1
    <3>2. Covers(fids, pos)
      BY <1>0, <2>1
    <3>3. QED
      BY <2>1, <3>1, <3>2, CoversMore
  <2>6. Covers(fids, pos)'
    BY <2>1, <2>5 DEF Covers, ExportsAt, archiveVars, Filtered
  <2>7. pos' \in Nat /\ (Boundary(pos') \/ pos' = Len(disk)')
    BY <2>1, AdvancedFrame, ArchiveLeft
  <2>8. QED
    BY <2>1, <2>4, <2>6, <2>7, ArchiveLeft DEF ConvertInvariant, Boundary
<1>5. CASE WriteHeaders
  <2>1. /\ pc = "first" /\ pc' = "second" /\ ~HasSize /\ pos' = 0
        /\ fids' = fids /\ columns' \in SetToSeqs(fids) /\ UNCHANGED archiveVars
        /\ capture' \in {"closed", "killed"}
    BY <1>0, <1>5 DEF WriteHeaders, Rewound, archiveVars
  <2>2. Covers(fids, Len(disk))
    BY <1>0, <2>1, CoversAll
  <2>3. Covers(fids, Len(disk))'
    BY <2>1, <2>2 DEF Covers, ExportsAt, archiveVars, Filtered
  <2>4. QED
    BY <1>0, <1>a, <2>1, <2>3, ArchiveLeft DEF ConvertInvariant
<1>6. ASSUME pc = "second", pc' = "second", HasSize, pos' = Advanced,
             UNCHANGED <<archiveVars, fids, columns>>
      PROVE  ConvertInvariant'
  <2>1. pos' \in Nat /\ (Boundary(pos') \/ pos' = Len(disk)')
    BY <1>6, AdvancedFrame, ArchiveLeft
  <2>2. /\ columns' \in SetToSeqs(fids') /\ Covers(fids, Len(disk))'
        /\ capture' \in {"closed", "killed"}
    BY <1>0, <1>6 DEF Covers, ExportsAt, archiveVars, Filtered
  <2>3. QED
    BY <1>0, <1>6, <2>1, <2>2, ArchiveLeft DEF ConvertInvariant, Boundary
<1>7. CASE Crash
  <2>1. /\ pc = "second" /\ pc' = "crashed"
        /\ UNCHANGED <<archiveVars, pos, fids, columns>>
        /\ HasSize /\ Exports /\ (Message.service \notin Services \/ ~Fits(Message))
    BY <1>7 DEF Crash
  <2>2. columns' \in SetToSeqs(fids') /\ Covers(fids, Len(disk))'
    BY <1>0, <2>1 DEF Covers, ExportsAt, archiveVars, Filtered
  <2>3. HasSize' /\ Exports' /\ Message' = Message
    BY <2>1 DEF HasSize, Exports, Parsed, HasBuffer, Whole, CutBehind, Message, Filtered, archiveVars
  <2>4. Fits(Message)' <=> Fits(Message)
    BY <2>1, <2>3 DEF Fits, FidIndex, RowWidth
  <2>5. (Message.service \notin Services \/ ~Fits(Message))'
    BY <2>1, <2>3, <2>4
  <2>6. pos' \in Nat /\ (Boundary(pos') \/ pos' = Len(disk)')
    BY <1>0, <2>1, ArchiveLeft
  <2>7. QED
    BY <1>0, <2>1, <2>2, <2>3, <2>5, <2>6, ArchiveLeft DEF ConvertInvariant, Boundary
<1>8. CASE EndConvert
  <2>1. pc' = "done" /\ pos' = pos /\ fids' = fids /\ UNCHANGED archiveVars
    BY <1>8 DEF EndConvert
  <2>2. QED
    BY <1>0, <2>1, ArchiveLeft DEF ConvertInvariant, Boundary
<1>9. CASE UNCHANGED vars
  <2>1. ArchiveInvariant' /\ Len(disk)' = Len(disk)
    BY <1>9, ArchiveLeft DEF vars
  <2>2. UNCHANGED <<disk, capture, pc, pos, fids, columns>>
    BY <1>9 DEF vars, convertVars, archiveVars
  <2>3. /\ Covers(fids, pos)' <=> Covers(fids, pos)
        /\ Covers(fids, Len(disk))' <=> Covers(fids, Len(disk))
    BY <2>2 DEF Covers, ExportsAt, Filtered
  <2>4. HasSize' = HasSize /\ Exports' = Exports /\ Message' = Message
    BY <2>2 DEF HasSize, Exports, Parsed, HasBuffer, Whole, CutBehind, Message, Filtered
  <2>5. Fits(Message)' <=> Fits(Message)
    BY <2>2, <2>4 DEF Fits, FidIndex, RowWidth
  <2>6. QED
    BY <1>0, <2>1, <2>2, <2>3, <2>4, <2>5 DEF ConvertInvariant, Boundary
<1>10. CASE SkipMessage
  BY <1>6, <1>10 DEF SkipMessage
<1>11. CASE WriteRow
  BY <1>6, <1>11 DEF WriteRow
<1>12. QED
  BY <1>1, <1>2, <1>3, <1>4, <1>5, <1>7, <1>8, <1>9, <1>10, <1>11 DEF Next, Conversion, Ended

\* It holds throughout.
LEMMA ConvertInvariantHolds == Spec => []ConvertInvariant
BY ConvertInit, ConvertNext, PTL DEF Spec

-----------------------------------------------------------------------------
\* Frames are read where they were written.

\* The first units of a frame.
LEMMA FrameCut ==
  ASSUME NEW r \in Records, NEW k \in 1 .. FrameUnits
  PROVE  SubSeq(Frame(r), 1, k) = [u \in 1 .. k |-> [rec |-> r, unit |-> u]]
<1> DEFINE frame == Frame(r)
<1>1. /\ frame \in Seq(Units) /\ Len(frame) = FrameUnits /\ FrameUnits \in Nat
      /\ \A u \in 1 .. FrameUnits : frame[u] = [rec |-> r, unit |-> u]
  BY FrameOf, Frames
<1> HIDE DEF frame
<1>2. SubSeq(frame, 0 + 1, 0 + k) = [u \in 1 .. k |-> frame[0 + u]]
  BY <1>1, Stretch
<1>3. \A u \in 1 .. k : frame[0 + u] = [rec |-> r, unit |-> u]
  BY <1>1
<1>4. QED
  BY <1>2, <1>3 DEF frame

\* A file that was closed with room on its disk ends behind a frame.
LEMMA CutNeedsFailure ==
  ASSUME ConvertInvariant, pc \in {"first", "second"}, NEW m \in Nat,
         m * FrameUnits < Len(disk), Len(disk) < m * FrameUnits + FrameUnits
  PROVE  capture = "killed" \/ full
<1> SUFFICES ASSUME capture # "killed", ~full PROVE FALSE
  BY DEF ConvertInvariant, ArchiveInvariant
<1> DEFINE all == Len(written)
<1>1. all \in Nat /\ Len(disk) = all * FrameUnits
  BY DEF ConvertInvariant, ArchiveInvariant
<1> HIDE DEF all
<1>2. /\ m * FrameUnits \in Nat /\ all * FrameUnits \in Nat
      /\ (m + 1) * FrameUnits = m * FrameUnits + FrameUnits
      /\ all <= m => all * FrameUnits <= m * FrameUnits
      /\ m + 1 <= all => (m + 1) * FrameUnits <= all * FrameUnits
  BY <1>1, Multiples
<1>3. all <= m \/ m + 1 <= all
  BY <1>1
<1>4. QED
  BY <1>1, <1>2, <1>3, Frames

\* However much of a capture reached its file, and however large the parts of
\* its messages are, every message either pass parses is one that was recorded,
\* read at the place it was recorded at: Convert never gets out of step with
\* the frames of OnMarketDataItemEvent.  Only a killed process or a full disk
\* leaves a message that parses without being whole, and if that is exported it
\* was the buffer of a message with a new symbol that came before the cut.
THEOREM ReadsWhatWasRecorded == Spec => []ReadsRecorded
<1>1. ConvertInvariant => ReadsRecorded
  <2> SUFFICES ASSUME ConvertInvariant, pc \in {"first", "second"}, HasSize, Parsed
               PROVE  \E n \in 1 .. Len(written) :
                        /\ pos = (n - 1) * FrameUnits
                        /\ IF Whole THEN SubSeq(disk, pos + 1, pos + FrameUnits) = Frame(written[n])
                           ELSE /\ capture = "killed" \/ full
                                /\ SubSeq(disk, pos + 1, Len(disk))
                                     = SubSeq(Frame(written[n]), 1, Len(disk) - pos)
                                /\ Exports => written[n].renamed
    BY DEF ReadsRecorded
  <2>1. /\ pos \in Nat /\ Len(disk) \in Nat /\ FrameUnits \in Nat /\ 0 < FrameUnits
        /\ Boundary(pos) /\ pos < Len(disk)
    BY AtFrame
  <2>2. /\ disk \in Seq(Units) /\ written \in Seq(Records) /\ PrefixOf(disk, written)
        /\ Len(written) \in Nat
    BY DEF ConvertInvariant, ArchiveInvariant
  <2>3. PICK m \in Nat : pos = m * FrameUnits
    BY <2>1 DEF Boundary
  <2>4. Len(disk) <= Len(written) * FrameUnits /\ Len(written) * FrameUnits \in Nat
    BY <2>2, Multiples, Frames DEF PrefixOf
  <2>5. m < Len(written)
    <3>1. Len(written) <= m => Len(written) * FrameUnits <= m * FrameUnits
      BY <2>2, Multiples
    <3>2. ~(Len(written) <= m)
      BY <2>1, <2>3, <2>4, <3>1
    <3>3. QED
      BY <2>2, <3>2
  <2> DEFINE n == m + 1
  <2>6. n \in 1 .. Len(written) /\ n - 1 = m
    BY <2>2, <2>5
  <2> HIDE DEF n
  <2>7. pos = (n - 1) * FrameUnits
    BY <2>3, <2>6
  <2>8. ASSUME NEW u \in 1 .. FrameUnits, pos + u <= Len(disk)
        PROVE  disk[pos + u] = [rec |-> written[n], unit |-> u]
    BY <2>2, <2>6, <2>7, <2>8 DEF PrefixOf
  <2>9. ASSUME Whole
        PROVE  SubSeq(disk, pos + 1, pos + FrameUnits) = Frame(written[n])
    <3>1. pos + FrameUnits <= Len(disk)
      BY <2>9 DEF Whole
    <3>2. SubSeq(disk, pos + 1, pos + FrameUnits) = [u \in 1 .. FrameUnits |-> disk[pos + u]]
      BY <2>1, <2>2, <3>1, Stretch
    <3>3. \A u \in 1 .. FrameUnits : disk[pos + u] = [rec |-> written[n], unit |-> u]
      BY <2>1, <2>8, <3>1
    <3>4. QED
      BY <3>2, <3>3 DEF Frame
  <2>10. ASSUME ~Whole
         PROVE  /\ capture = "killed" \/ full
                /\ SubSeq(disk, pos + 1, Len(disk))
                     = SubSeq(Frame(written[n]), 1, Len(disk) - pos)
                /\ Exports => written[n].renamed
    <3> DEFINE k == Len(disk) - pos
    <3>1. k \in 1 .. FrameUnits - 1 /\ Len(disk) = pos + k
      BY <2>1, <2>10 DEF Whole
    <3> HIDE DEF k
    <3>2. SubSeq(disk, pos + 1, pos + k) = [u \in 1 .. k |-> disk[pos + u]]
      BY <2>1, <2>2, <3>1, Stretch
    <3>3. \A u \in 1 .. k : disk[pos + u] = [rec |-> written[n], unit |-> u]
      BY <2>1, <2>8, <3>1
    <3>4. SubSeq(Frame(written[n]), 1, k) = [u \in 1 .. k |-> [rec |-> written[n], unit |-> u]]
      BY <2>1, <2>2, <2>6, <3>1, FrameCut
    <3>5. Message = written[n]
      <4>1. 1 \in 1 .. k
        BY <2>1, <3>1
      <4>2. disk[pos + 1] = [rec |-> written[n], unit |-> 1]
        BY <3>3, <4>1
      <4>3. QED
        BY <4>2 DEF Message
    <3>6. Exports => Message.renamed
      BY <2>10, ExportsHere DEF ExportsAt, Whole, Message
    <3>7. capture = "killed" \/ full
      BY <2>1, <2>3, <3>1, CutNeedsFailure
    <3>8. QED
      BY <3>1, <3>2, <3>3, <3>4, <3>5, <3>6, <3>7 DEF k
  <2>11. QED
    BY <2>6, <2>7, <2>9, <2>10
<1>2. QED
  BY <1>1, ConvertInvariantHolds, PTL

-----------------------------------------------------------------------------
\* Cells.

\* The columns are the fields, each once.
LEMMA ColumnsAreFields ==
  ASSUME IsFiniteSet(fids), columns \in SetToSeqs(fids)
  PROVE  /\ Cardinality(fids) \in Nat /\ DOMAIN columns = 1 .. Cardinality(fids)
         /\ Range(columns) = fids
<1> DEFINE n == Cardinality(fids)
           D == 1 .. n
<1>1. n \in Nat
  BY FS_CardinalityType
<1>2. columns \in [D -> fids] /\ \A i, j \in D : i # j => columns[i] # columns[j]
  BY DEF SetToSeqs
<1>3. IsFiniteSet(D) /\ Cardinality(D) = n
  <2>1. IsFiniteSet(1 .. n) /\ Cardinality(1 .. n) = IF 1 > n THEN 0 ELSE n - 1 + 1
    BY <1>1, FS_Interval
  <2>2. QED
    BY <1>1, <2>1
<1>4. columns \in Injection(D, fids)
  BY <1>2 DEF Injection, IsInjective
<1>5. columns \in Surjection(D, fids)
  BY <1>3, <1>4, FS_Injection
<1>6. DOMAIN columns = D /\ (\A i \in D : columns[i] \in fids)
  BY <1>2
<1>7. \A f \in fids : \E i \in D : columns[i] = f
  BY <1>5 DEF Surjection
<1> HIDE DEF D, n
<1>8. Range(columns) = fids
  <2>1. Range(columns) = {columns[i] : i \in D}
    BY <1>6 DEF Range
  <2>2. QED
    BY <1>6, <1>7, <2>1
<1>9. QED
  BY <1>1, <1>6, <1>8 DEF D, n

\* There are four fixed columns.
LEMMA FourColumns ==
  /\ Len(BaseColumns) = 4
  /\ IsFiniteSet(Range(BaseColumns)) /\ Cardinality(Range(BaseColumns)) = 4
<1> DEFINE one == {"service"}
           two == one \cup {"symbol"}
           three == two \cup {"time"}
           four == three \cup {"type"}
<1>1. Len(BaseColumns) = 4 /\ Range(BaseColumns) = four
  BY DEF BaseColumns, Range
<1>2. IsFiniteSet(one) /\ Cardinality(one) = 1
  BY FS_Singleton
<1>3. "symbol" \notin one /\ "time" \notin two /\ "type" \notin three
  OBVIOUS
<1> HIDE DEF one
<1>4. IsFiniteSet(two) /\ Cardinality(two) = 2
  BY <1>2, <1>3, FS_AddElement
<1> HIDE DEF two
<1>5. IsFiniteSet(three) /\ Cardinality(three) = 3
  BY <1>3, <1>4, FS_AddElement
<1> HIDE DEF three
<1>6. IsFiniteSet(four) /\ Cardinality(four) = 4
  BY <1>3, <1>5, FS_AddElement
<1>7. QED
  BY <1>1, <1>6

\* Unless a field is named like a fixed column, a row has a cell for each.
LEMMA CellsOfFields ==
  ASSUME AllFids \cap Range(BaseColumns) = {}, fids \subseteq AllFids,
         IsFiniteSet(fids), columns \in SetToSeqs(fids), NEW f \in fids
  PROVE  FidIndex(f) < RowWidth
<1> DEFINE n == Cardinality(fids)
<1>1. n \in Nat /\ DOMAIN columns = 1 .. n /\ Range(columns) = fids
  BY ColumnsAreFields
<1>2. RowWidth = 4 + n
  <2>1. Range(BaseColumns) \cap fids = {}
    OBVIOUS
  <2>2. Cardinality(Range(BaseColumns) \cup fids) = 4 + n - Cardinality({})
    BY <2>1, FourColumns, FS_Union
  <2>3. QED
    BY <1>1, <2>2, FS_EmptySet DEF RowWidth
<1> DEFINE i == CHOOSE j \in DOMAIN columns : columns[j] = f
<1>3. i \in 1 .. n
  <2>1. \E j \in DOMAIN columns : columns[j] = f
    BY <1>1 DEF Range
  <2>2. QED
    BY <1>1, <2>1
<1>4. FidIndex(f) = 4 + i - 1
  BY FourColumns DEF FidIndex
<1> HIDE DEF i
<1>5. QED
  BY <1>1, <1>2, <1>3, <1>4

\* Unless a field is named like a fixed column, the invariant keeps every cell
\* of the message at hand within the row.
LEMMA CellsHaveRoom ==
  ASSUME AllFids \cap Range(BaseColumns) = {},
         ConvertInvariant, pc \in {"second", "crashed"}, HasSize, Exports
  PROVE  Fits(Message)
<1>1. /\ IsFiniteSet(fids) /\ fids \subseteq AllFids
      /\ columns \in SetToSeqs(fids) /\ Covers(fids, Len(disk))
  BY DEF ConvertInvariant
<1>2. pos \in 0 .. Len(disk) /\ Boundary(pos) /\ pos < Len(disk)
  BY AtFrame
<1>3. ExportsAt(pos)
  BY ExportsHere
<1>4. DOMAIN Message.fields \subseteq fids
  BY <1>1, <1>2, <1>3 DEF Covers, Message
<1>5. ASSUME NEW f \in Converts(Message) PROVE FidIndex(f) < RowWidth
  BY <1>1, <1>4, CellsOfFields DEF Converts
<1>6. QED
  BY <1>5 DEF Fits

\* Unless a field has the name of one of the four fixed columns (then it does
\* fail: the fid_map entry is not replaced), no row is written outside its
\* cells: what the second pass of Convert writes, the first has counted,
\* wherever the file was cut off.
THEOREM NoCellOutsideItsRow ==
  ASSUME AllFids \cap Range(BaseColumns) = {}
  PROVE  Spec => []CellsFitRows
<1>1. ConvertInvariant => CellsFitRows
  BY CellsHaveRoom DEF CellsFitRows
<1>2. QED
  BY <1>1, ConvertInvariantHolds, PTL

\* Then the only thing that ends a conversion early is a message of a service
\* that no configured session subscribes to.
THEOREM CrashNeedsForeignService ==
  ASSUME AllFids \cap Range(BaseColumns) = {}
  PROVE  Spec => [](pc = "crashed" => Message.service \notin Services)
<1>1. ConvertInvariant /\ pc = "crashed" => Message.service \notin Services
  BY CellsHaveRoom DEF ConvertInvariant
<1>2. QED
  BY <1>1, ConvertInvariantHolds, PTL

-----------------------------------------------------------------------------
\* What is exported.

\* No name needs quotes: Convert puts quotes around values only.
NamesAreOneCell ==
  (AllFids \cup Range(BaseColumns) \cup {""} \cup UNION {{r.service, r.symbol} : r \in Records})
    \cap WithComma = {}

\* Each service has an output file of its own.
OwnOutputs == \A s, t \in Services : OutputName[s] = OutputName[t] => s = t

\* What is assumed of the names and the configuration.
ExportAssumptions ==
  /\ AllFids \cap Range(BaseColumns) = {}
  /\ NamesAreOneCell
  /\ OwnOutputs

\* The lines a file may have.
Lines == {Header(columns)} \cup {Row(r) : r \in Records}

\* The pass has read n messages, or all there is in the file and no more of
\* them than that.
ReadTo(n) ==
  \/ pos = n * FrameUnits
  \/ pos = Len(disk) /\ Len(disk) < (n + 1) * FrameUnits

\* The files have the rows of the first n messages.
ExportHas(n) == \A s \in Services : Exported(s) = ReferenceFile(s, SubSeq(written, 1, n))

\* Each stream is at the end of its file, and each file has a row for each of
\* its messages read so far.
Exporting ==
  /\ files \in [FileNames -> Seq(Lines)] /\ offset \in [Services -> Nat]
  /\ \A s \in Services : offset[s] = Len(files[OutputName[s]])
  /\ \E n \in 0 .. Len(written) : ReadTo(n) /\ ExportHas(n)

\* So it is from the headers on; what is left behind the last row is no frame.
ExportInvariant ==
  /\ pc \in {"second", "done"} /\ capture # "none" => Exporting
  /\ pc = "done" /\ capture # "none" => ~HasSize

-----------------------------------------------------------------------------
\* FlattenSeq.

\* A set that has 0, and with n also n + 1, has all natural numbers: a least
\* one that is missing would follow one that is there.
LEMMA AllNumbers ==
  ASSUME NEW P, 0 \in P, \A n \in Nat : n \in P => n + 1 \in P
  PROVE  Nat \subseteq P
<1> DEFINE H == Nat \ P
           Less == OpToRel(<, Nat)
<1> SUFFICES ASSUME H # {} PROVE FALSE
  OBVIOUS
<1>1. PICK x \in H : \A y \in H : <<y, x>> \notin Less
  <2>1. IsWellFoundedOn(Less, Nat)
    BY NatLessThanWellFounded
  <2>2. H \subseteq Nat
    OBVIOUS
  <2> HIDE DEF Less, H
  <2>3. QED
    BY <2>1, <2>2, WFMin
<1>2. x \in Nat /\ x \notin P /\ x # 0
  BY <1>1
<1>3. x - 1 \in Nat /\ x - 1 < x /\ (x - 1) + 1 = x
  BY <1>2
<1>4. x - 1 \notin P
  BY <1>2, <1>3
<1>5. <<x - 1, x>> \in Less
  BY <1>2, <1>3 DEF OpToRel
<1>6. QED
  BY <1>1, <1>3, <1>4, <1>5

\* The function that FlattenSeq is defined by.
Flattening(seqs, f) ==
  f = [i \in 1 .. Len(seqs) |-> IF i = 1 THEN seqs[i] ELSE f[i - 1] \o seqs[i]]

\* There is one.
LEMMA FlatteningExists ==
  ASSUME NEW S, NEW seqs \in Seq(Seq(S))
  PROVE  \E f : Flattening(seqs, f)
<1> DEFINE Upto(m, f) == f = [i \in 1 .. m |-> IF i = 1 THEN seqs[i] ELSE f[i - 1] \o seqs[i]]
           P == {m \in Nat : \E f : Upto(m, f)}
<1>1. 0 \in P
  <2>1. Upto(0, [i \in 1 .. 0 |-> 0])
    OBVIOUS
  <2>2. QED
    BY <2>1
<1>2. ASSUME NEW m \in Nat, m \in P PROVE m + 1 \in P
  <2>1. PICK f : Upto(m, f)
    BY <1>2
  <2> DEFINE last == IF m + 1 = 1 THEN seqs[m + 1] ELSE f[m] \o seqs[m + 1]
             g == [i \in 1 .. m + 1 |-> IF i = m + 1 THEN last ELSE f[i]]
  <2>2. ASSUME NEW i \in 1 .. m + 1
        PROVE  g[i] = IF i = 1 THEN seqs[i] ELSE g[i - 1] \o seqs[i]
    <3>1. CASE i = m + 1
      BY <3>1
    <3>2. CASE i # m + 1
      <4>1. i \in 1 .. m /\ i - 1 # m + 1 /\ (i # 1 => i - 1 \in 1 .. m)
        BY <3>2
      <4>2. f[i] = IF i = 1 THEN seqs[i] ELSE f[i - 1] \o seqs[i]
        BY <2>1, <4>1
      <4> HIDE DEF last
      <4>3. QED
        BY <4>1, <4>2
    <3>3. QED
      BY <3>1, <3>2
  <2>3. g = [i \in 1 .. m + 1 |-> g[i]]
    OBVIOUS
  <2> HIDE DEF g
  <2>4. Upto(m + 1, g)
    BY <2>2, <2>3
  <2> HIDE DEF Upto
  <2>5. QED
    BY <2>4
<1> HIDE DEF P
<1>3. Len(seqs) \in P
  BY <1>1, <1>2, AllNumbers
<1>4. QED
  BY <1>3 DEF P, Flattening

\* FlattenSeq is the last value of such a function.
LEMMA FlattenedBy ==
  ASSUME NEW S, NEW seqs \in Seq(Seq(S)), Len(seqs) # 0
  PROVE  \E f : Flattening(seqs, f) /\ FlattenSeq(seqs) = f[Len(seqs)]
<1> DEFINE g == CHOOSE f : f = [i \in 1 .. Len(seqs) |-> IF i = 1 THEN seqs[i] ELSE f[i - 1] \o seqs[i]]
<1>1. Flattening(seqs, g)
  BY FlatteningExists DEF Flattening
<1>2. FlattenSeq(seqs) = g[Len(seqs)]
  BY DEF FlattenSeq
<1> HIDE DEF g
<1>3. QED
  BY <1>1, <1>2

\* The values of such a function are sequences, whatever follows.
LEMMA FlatteningsAgree ==
  ASSUME NEW S, NEW seqs \in Seq(Seq(S)), NEW x \in Seq(S),
         NEW f, Flattening(seqs, f), NEW g, Flattening(Append(seqs, x), g),
         NEW i \in 1 .. Len(seqs)
  PROVE  f[i] \in Seq(S) /\ g[i] = f[i]
<1> DEFINE more == Append(seqs, x)
           P == {m \in Nat : m \in 1 .. Len(seqs) => f[m] \in Seq(S) /\ g[m] = f[m]}
<1>1. /\ Len(seqs) \in Nat /\ Len(more) = Len(seqs) + 1
      /\ \A j \in 1 .. Len(seqs) : seqs[j] \in Seq(S) /\ more[j] = seqs[j]
  OBVIOUS
<1> HIDE DEF more
<1>2. \A j \in 1 .. Len(seqs) : f[j] = IF j = 1 THEN seqs[j] ELSE f[j - 1] \o seqs[j]
  BY DEF Flattening
<1>3. \A j \in 1 .. Len(more) : g[j] = IF j = 1 THEN more[j] ELSE g[j - 1] \o more[j]
  BY DEF Flattening, more
<1>4. 0 \in P
  OBVIOUS
<1>5. ASSUME NEW m \in Nat, m \in P PROVE m + 1 \in P
  <2> SUFFICES ASSUME m + 1 \in 1 .. Len(seqs)
               PROVE  f[m + 1] \in Seq(S) /\ g[m + 1] = f[m + 1]
    OBVIOUS
  <2>1. /\ seqs[m + 1] \in Seq(S) /\ more[m + 1] = seqs[m + 1]
        /\ f[m + 1] = IF m + 1 = 1 THEN seqs[m + 1] ELSE f[m] \o seqs[m + 1]
        /\ g[m + 1] = IF m + 1 = 1 THEN more[m + 1] ELSE g[m] \o more[m + 1]
    <3>1. (m + 1) - 1 = m /\ m + 1 \in 1 .. Len(more)
      BY <1>1
    <3>2. QED
      BY <1>1, <1>2, <1>3, <3>1
  <2>2. CASE m = 0
    BY <2>1, <2>2
  <2>3. CASE m # 0
    <3>1. f[m] \in Seq(S) /\ g[m] = f[m] /\ m + 1 # 1
      BY <1>1, <1>5, <2>3
    <3>2. f[m] \o seqs[m + 1] \in Seq(S)
      BY <2>1, <3>1
    <3>3. QED
      BY <2>1, <3>1, <3>2
  <2>4. QED
    BY <2>2, <2>3
<1>6. i \in P
  <2>1. i \in Nat
    BY <1>1
  <2> HIDE DEF P
  <2>2. QED
    BY <1>4, <1>5, <2>1, AllNumbers
<1>7. QED
  BY <1>6 DEF P

\* What FlattenSeq yields of no sequences, and of one more.
LEMMA Flattened ==
  ASSUME NEW S, NEW seqs \in Seq(Seq(S)), NEW x \in Seq(S)
  PROVE  /\ FlattenSeq(<<>>) = <<>>
         /\ FlattenSeq(seqs) \in Seq(S)
         /\ FlattenSeq(Append(seqs, x)) = FlattenSeq(seqs) \o x
<1> DEFINE more == Append(seqs, x)
           n == Len(seqs)
<1>1. n \in Nat /\ more \in Seq(Seq(S)) /\ Len(more) = n + 1 /\ more[n + 1] = x
  OBVIOUS
<1>2. FlattenSeq(<<>>) = <<>>
  BY DEF FlattenSeq
<1>3. PICK g : Flattening(more, g) /\ FlattenSeq(more) = g[n + 1]
  <2> HIDE DEF more
  <2>1. \E g : Flattening(more, g) /\ FlattenSeq(more) = g[Len(more)]
    BY <1>1, FlattenedBy
  <2>2. QED
    BY <1>1, <2>1
<1>4. g[n + 1] = IF n + 1 = 1 THEN x ELSE g[n] \o x
  <2>1. n + 1 \in 1 .. Len(more) /\ (n + 1) - 1 = n
    BY <1>1
  <2> HIDE DEF more
  <2>2. QED
    BY <1>1, <1>3, <2>1 DEF Flattening
<1>5. CASE n = 0
  <2>1. seqs = <<>>
    BY <1>5
  <2>2. <<>> \in Seq(S) /\ <<>> \o x = x
    OBVIOUS
  <2>3. FlattenSeq(more) = x
    BY <1>3, <1>4, <1>5
  <2>4. QED
    BY <1>2, <2>1, <2>2, <2>3
<1>6. CASE n # 0
  <2>1. PICK f : Flattening(seqs, f) /\ FlattenSeq(seqs) = f[n]
    BY <1>6, FlattenedBy
  <2>2. n \in 1 .. n
    BY <1>1, <1>6
  <2>3. f[n] \in Seq(S) /\ g[n] = f[n]
    BY <1>3, <2>1, <2>2, FlatteningsAgree
  <2>4. FlattenSeq(more) = g[n] \o x
    BY <1>1, <1>3, <1>4, <1>6
  <2>5. QED
    BY <1>2, <2>1, <2>3, <2>4
<1>7. QED
  BY <1>5, <1>6

\* Sequences with the same elements are the same.
LEMMA SameSequence ==
  ASSUME NEW S, NEW one \in Seq(S), NEW other \in Seq(S), NEW n \in Nat,
         Len(one) = n, Len(other) = n, \A i \in 1 .. n : one[i] = other[i]
  PROVE  one = other
OBVIOUS

\* A sequence is what its elements flatten to.
LEMMA FlattenedSingles ==
  ASSUME NEW S, NEW line \in Seq(S)
  PROVE  FlattenSeq([i \in 1 .. Len(line) |-> <<line[i]>>]) = line
<1> DEFINE Singles(seq) == [i \in 1 .. Len(seq) |-> <<seq[i]>>]
           P == {m \in Nat : \A seq \in Seq(S) : Len(seq) = m => FlattenSeq(Singles(seq)) = seq}
<1>0. \A seq \in Seq(S) : Singles(seq) \in Seq(Seq(S)) /\ Len(Singles(seq)) = Len(seq)
  <2> SUFFICES ASSUME NEW seq \in Seq(S)
               PROVE  Singles(seq) \in Seq(Seq(S)) /\ Len(Singles(seq)) = Len(seq)
    OBVIOUS
  <2>1. Len(seq) \in Nat /\ \A i \in 1 .. Len(seq) : <<seq[i]>> \in Seq(S)
    OBVIOUS
  <2>2. QED
    BY <2>1
<1>1. 0 \in P
  <2> SUFFICES ASSUME NEW seq \in Seq(S), Len(seq) = 0 PROVE FlattenSeq(Singles(seq)) = seq
    OBVIOUS
  <2>1. seq = <<>>
    OBVIOUS
  <2>2. Singles(seq) = <<>>
    BY <1>0
  <2>3. <<>> \in Seq(Seq(S)) /\ <<>> \in Seq(S)
    OBVIOUS
  <2>4. QED
    BY <2>1, <2>2, <2>3, Flattened
<1>2. ASSUME NEW m \in Nat, m \in P PROVE m + 1 \in P
  <2> SUFFICES ASSUME NEW seq \in Seq(S), Len(seq) = m + 1
               PROVE  FlattenSeq(Singles(seq)) = seq
    OBVIOUS
  <2> DEFINE front == [i \in 1 .. m |-> seq[i]]
             last == seq[m + 1]
  <2>1. front \in Seq(S) /\ Len(front) = m /\ last \in S /\ <<last>> \in Seq(S)
    OBVIOUS
  <2>2. seq = Append(front, last) /\ seq = front \o <<last>>
    <3>1. seq = Append(front, last)
      OBVIOUS
    <3> HIDE DEF front, last
    <3>2. Append(front, last) = front \o <<last>>
      BY <2>1
    <3>3. QED
      BY <3>1, <3>2
  <2>3. Singles(seq) = Append(Singles(front), <<last>>)
    <3> DEFINE one == <<last>>
               before == Singles(front)
    <3>1. \A i \in 1 .. m : <<seq[i]>> = before[i]
      BY <2>1
    <3>2. <<seq[m + 1]>> = one
      OBVIOUS
    <3>3. before \in Seq(Seq(S)) /\ Len(before) = m /\ one \in Seq(S)
      BY <1>0, <2>1
    <3>4. Singles(seq) \in Seq(Seq(S)) /\ Len(Singles(seq)) = m + 1
          /\ \A i \in 1 .. m + 1 : Singles(seq)[i] = <<seq[i]>>
      BY <1>0
    <3> DEFINE all == Singles(seq)
    <3> HIDE DEF one, before, all
    <3>5. /\ Append(before, one) \in Seq(Seq(S)) /\ Len(Append(before, one)) = m + 1
          /\ \A i \in 1 .. m + 1 : Append(before, one)[i] = IF i = m + 1 THEN one ELSE before[i]
      BY <3>3
    <3>6. \A i \in 1 .. m + 1 : all[i] = Append(before, one)[i]
      BY <3>1, <3>2, <3>4, <3>5 DEF all
    <3>7. all = Append(before, one)
      <4>1. all \in Seq(Seq(S)) /\ Len(all) = m + 1
        BY <3>4 DEF all
      <4>2. QED
        BY <3>5, <3>6, <4>1, SameSequence
    <3>8. QED
      BY <3>7 DEF all, one, before
  <2>4. FlattenSeq(Singles(front)) = front
    BY <1>2, <2>1
  <2> DEFINE before == Singles(front)
             one == <<last>>
  <2>5. before \in Seq(Seq(S)) /\ one \in Seq(S)
    BY <1>0, <2>1
  <2> HIDE DEF before, one, front, last, Singles
  <2>6. FlattenSeq(Append(before, one)) = FlattenSeq(before) \o one
    BY <2>5, Flattened
  <2>7. QED
    BY <2>2, <2>3, <2>4, <2>6 DEF before, one
<1> DEFINE n == Len(line)
<1>3. n \in Nat
  OBVIOUS
<1> HIDE DEF P
<1>4. n \in P
  BY <1>1, <1>2, <1>3, AllNumbers
<1>5. QED
  BY <1>4 DEF P

-----------------------------------------------------------------------------
\* Cells are read back.

\* The columns are a sequence of fields, each at one place.
LEMMA ColumnsInOrder ==
  ASSUME IsFiniteSet(fids), fids \subseteq AllFids, columns \in SetToSeqs(fids)
  PROVE  /\ columns \in Seq(AllFids) /\ DOMAIN columns = 1 .. Len(columns) /\ Len(columns) \in Nat
         /\ Len(columns) = Cardinality(fids)
         /\ \A j \in DOMAIN columns : columns[j] \in fids
         /\ \A f \in fids : \E j \in DOMAIN columns : columns[j] = f
         /\ \A i, j \in DOMAIN columns : columns[i] = columns[j] => i = j
<1> DEFINE n == Cardinality(fids)
<1>1. n \in Nat /\ DOMAIN columns = 1 .. n /\ Range(columns) = fids
  BY ColumnsAreFields
<1>2. columns \in [1 .. n -> fids] /\ \A i, j \in 1 .. n : i # j => columns[i] # columns[j]
  BY DEF SetToSeqs
<1>3. \A f \in fids : \E j \in DOMAIN columns : columns[j] = f
  BY <1>1 DEF Range
<1> HIDE DEF n
<1>4. columns \in Seq(AllFids) /\ Len(columns) = n
  BY <1>1, <1>2
<1>5. QED
  BY <1>1, <1>2, <1>3, <1>4 DEF n

\* A row has a cell for each column.
LEMMA WidthOfRow ==
  ASSUME AllFids \cap Range(BaseColumns) = {}, fids \subseteq AllFids,
         IsFiniteSet(fids), columns \in SetToSeqs(fids)
  PROVE  RowWidth = 4 + Len(columns)
<1> DEFINE n == Cardinality(fids)
<1>1. n \in Nat /\ Range(columns) = fids /\ Len(columns) = n
  BY ColumnsAreFields, ColumnsInOrder
<1>2. Range(BaseColumns) \cap fids = {}
  OBVIOUS
<1>3. Cardinality(Range(BaseColumns) \cup fids) = 4 + n - Cardinality({})
  BY <1>2, FourColumns, FS_Union
<1>4. QED
  BY <1>1, <1>3, FS_EmptySet DEF RowWidth

\* The cell of a field is that of its column.
LEMMA PlaceOfField ==
  ASSUME AllFids \cap Range(BaseColumns) = {}, fids \subseteq AllFids,
         IsFiniteSet(fids), columns \in SetToSeqs(fids), NEW f \in fids
  PROVE  \E i \in DOMAIN columns :
           /\ i \in Nat /\ FidIndex(f) = 4 + i - 1
           /\ \A j \in DOMAIN columns : columns[j] = f <=> j = i
<1> DEFINE i == CHOOSE j \in DOMAIN columns : columns[j] = f
<1>1. i \in DOMAIN columns /\ columns[i] = f
  BY ColumnsInOrder
<1>2. FidIndex(f) = 4 + i - 1
  BY FourColumns DEF FidIndex
<1> HIDE DEF i
<1>3. i \in Nat
  BY <1>1, ColumnsInOrder
<1>4. QED
  BY <1>1, <1>2, <1>3, ColumnsInOrder

\* A cell that a reader sees as one.
OneCell(cell) == ~(cell.text \in WithComma /\ ~cell.quoted)

\* The texts of cells, and when they are one.
LEMMA CellTexts ==
  ASSUME NEW v
  PROVE  /\ Printed(v).text = v /\ OneCell(Printed(v))
         /\ Plain(v).text = v /\ (v \notin WithComma => OneCell(Plain(v)))
<1>1. Printed(v).text = v /\ Plain(v).text = v
  BY DEF Printed, Plain
<1>2. v \in WithComma => Printed(v).quoted
  BY DEF Printed
<1>3. QED
  BY <1>1, <1>2 DEF OneCell

\* The order of a set is a sequence of it.
LEMMA OrderOf ==
  ASSUME NEW names, IsFiniteSet(names), NEW order \in SetToSeqs(names)
  PROVE  order \in Seq(names)
<1> DEFINE n == Cardinality(names)
<1>1. n \in Nat
  BY FS_CardinalityType
<1>2. order \in [1 .. n -> names]
  BY DEF SetToSeqs
<1> HIDE DEF n
<1>3. QED
  BY <1>1, <1>2

\* A line whose commas are all quoted has the cells that were written.
LEMMA LineReadBack ==
  ASSUME NEW n \in Nat, NEW line, DOMAIN line = 1 .. n, \A i \in 1 .. n : OneCell(line[i])
  PROVE  ReadBack(line) = [i \in 1 .. n |-> line[i].text]
<1> DEFINE S == {line[i].text : i \in 1 .. n}
           texts == [i \in 1 .. n |-> line[i].text]
<1>1. texts \in Seq(S) /\ Len(texts) = n /\ \A i \in 1 .. n : texts[i] = line[i].text
  OBVIOUS
<1> HIDE DEF S, texts
<1>2. FlattenSeq([i \in 1 .. Len(texts) |-> <<texts[i]>>]) = texts
  BY <1>1, FlattenedSingles
<1>3. ReadBack(line) = FlattenSeq([i \in 1 .. n |-> <<texts[i]>>])
  <2>1. \A i \in 1 .. n :
          (IF line[i].text \in WithComma /\ ~line[i].quoted
             THEN <<line[i].text, line[i].text>> ELSE <<line[i].text>>) = <<texts[i]>>
    BY <1>1 DEF OneCell
  <2>2. [i \in DOMAIN line |->
           IF line[i].text \in WithComma /\ ~line[i].quoted
             THEN <<line[i].text, line[i].text>> ELSE <<line[i].text>>]
        = [i \in 1 .. n |-> <<texts[i]>>]
    BY <2>1
  <2>3. QED
    BY <2>2 DEF ReadBack
<1>4. QED
  BY <1>1, <1>2, <1>3 DEF texts

\* A header without commas is read as it was written.
LEMMA HeaderReadBack ==
  ASSUME NamesAreOneCell, NEW order \in Seq(AllFids)
  PROVE  ReadBack(Header(order)) = BaseColumns \o order
<1> DEFINE T == AllFids \cup Range(BaseColumns)
           names == BaseColumns \o order
           n == 4 + Len(order)
           line == Header(order)
<1>1. order \in Seq(T) /\ Len(order) \in Nat
  <2>1. AllFids \subseteq T
    OBVIOUS
  <2> HIDE DEF T
  <2>2. QED
    BY <2>1
<1>2. BaseColumns \in Seq(T) /\ Len(BaseColumns) = 4
  BY FourColumns DEF BaseColumns, Range
<1> HIDE DEF T
<1>3. names \in Seq(T) /\ Len(names) = n /\ n \in Nat
  <2>1. order \in Seq(T) /\ BaseColumns \in Seq(T)
    BY <1>1, <1>2
  <2>2. BaseColumns \o order \in Seq(T)
        /\ Len(BaseColumns \o order) = Len(BaseColumns) + Len(order)
    BY <2>1, Joined
  <2>3. QED
    BY <1>1, <1>2, <2>2
<1>4. line = [i \in 1 .. n |-> Plain(names[i])]
  BY <1>2 DEF Header
<1> HIDE DEF names, n, line
<1>5. DOMAIN line = 1 .. n
  BY <1>4
<1>6. ASSUME NEW i \in 1 .. n
      PROVE  line[i].text = names[i] /\ OneCell(line[i])
  <2>1. names[i] \in T
    BY <1>3
  <2>2. names[i] \notin WithComma
    BY <2>1 DEF NamesAreOneCell, T
  <2>3. line[i] = Plain(names[i])
    BY <1>4
  <2>4. QED
    BY <2>2, <2>3, CellTexts
<1>7. ReadBack(line) = [i \in 1 .. n |-> line[i].text]
  BY <1>3, <1>5, <1>6, LineReadBack
<1>8. [i \in 1 .. n |-> line[i].text] = names
  BY <1>3, <1>6
<1>9. QED
  BY <1>7, <1>8 DEF line, names

\* A row is read as it should be: every value under the name of its field.
LEMMA RowReadBack ==
  ASSUME AllFids \cap Range(BaseColumns) = {}, NamesAreOneCell,
         fids \subseteq AllFids, IsFiniteSet(fids), columns \in SetToSeqs(fids),
         NEW r \in Records, DOMAIN r.fields \subseteq fids
  PROVE  ReadBack(Row(r)) = ReferenceRow(r)
<1> DEFINE c == Len(columns)
           n == 4 + c
           line == Row(r)
           Value(j) == IF columns[j] \in Converts(r) THEN r.fields[columns[j]] ELSE ""
           Cell(i) == IF \E f \in Converts(r) : FidIndex(f) = i - 1
                        THEN Printed(r.fields[CHOOSE f \in Converts(r) : FidIndex(f) = i - 1])
                      ELSE IF i <= 4 THEN Plain(Fixed(r)[i])
                      ELSE Plain("")
<1>1. /\ c \in Nat /\ DOMAIN columns = 1 .. c /\ n \in Nat
      /\ \A j \in 1 .. c : columns[j] \in fids
  BY ColumnsInOrder
<1>2. RowWidth = n /\ Len(BaseColumns) = 4
  BY WidthOfRow, FourColumns
<1>3. \A f \in Converts(r) : f \in fids
  BY DEF Converts
<1> HIDE DEF c
<1>4. DOMAIN line = 1 .. n
  BY <1>2 DEF Row
<1>5. \A i \in 1 .. n : line[i] = Cell(i)
  BY <1>2 DEF Row
<1> HIDE DEF line, Cell, Value
<1>6. ASSUME NEW i \in 1 .. 4
      PROVE  line[i].text = Fixed(r)[i] /\ OneCell(line[i])
  <2>1. ASSUME NEW f \in Converts(r) PROVE FidIndex(f) # i - 1
    <3>1. PICK j \in DOMAIN columns : j \in Nat /\ FidIndex(f) = 4 + j - 1
      BY <1>3, <2>1, PlaceOfField
    <3>2. 1 <= j
      BY <1>1, <3>1
    <3>3. QED
      BY <3>1, <3>2
  <2>2. i \in 1 .. n /\ i <= 4
    BY <1>1
  <2>3. line[i] = Plain(Fixed(r)[i])
    <3>1. line[i] = Cell(i)
      BY <1>5, <2>2
    <3>2. QED
      BY <2>1, <2>2, <3>1 DEF Cell
  <2>4. Fixed(r)[i] \in {r.service, r.symbol} \cup Range(BaseColumns)
    <3>1. i = 1 \/ i = 2 \/ i = 3 \/ i = 4
      OBVIOUS
    <3>2. "time" \in Range(BaseColumns) /\ "type" \in Range(BaseColumns)
      <4>1. BaseColumns[3] = "time" /\ BaseColumns[4] = "type" /\ DOMAIN BaseColumns = 1 .. 4
        BY DEF BaseColumns
      <4>2. QED
        BY <4>1 DEF Range
    <3>3. QED
      BY <3>1, <3>2 DEF Fixed
  <2>5. Fixed(r)[i] \notin WithComma
    BY <2>4 DEF NamesAreOneCell
  <2>6. QED
    BY <2>3, <2>5, CellTexts
<1>7. ASSUME NEW j \in 1 .. c
      PROVE  line[4 + j].text = Value(j) /\ OneCell(line[4 + j])
  <2> DEFINE g == columns[j]
  <2>1. g \in fids /\ j \in Nat /\ j \in DOMAIN columns
    BY <1>1
  <2>2. ASSUME NEW f \in Converts(r) PROVE FidIndex(f) = (4 + j) - 1 <=> f = g
    <3>1. PICK i \in DOMAIN columns :
            /\ i \in Nat /\ FidIndex(f) = 4 + i - 1
            /\ \A k \in DOMAIN columns : columns[k] = f <=> k = i
      BY <1>3, <2>2, PlaceOfField
    <3>2. FidIndex(f) = (4 + j) - 1 <=> i = j
      BY <2>1, <3>1
    <3>3. QED
      BY <2>1, <3>1, <3>2
  <2>3. 4 + j \in 1 .. n /\ ~(4 + j <= 4)
    BY <1>1
  <2>4. line[4 + j] =
        IF \E f \in Converts(r) : FidIndex(f) = (4 + j) - 1
          THEN Printed(r.fields[CHOOSE f \in Converts(r) : FidIndex(f) = (4 + j) - 1])
        ELSE Plain("")
    <3> DEFINE i == 4 + j
    <3>1. line[i] = Cell(i) /\ ~(i <= 4)
      BY <1>5, <2>3
    <3> HIDE DEF i
    <3>2. Cell(i) = IF \E f \in Converts(r) : FidIndex(f) = i - 1
                      THEN Printed(r.fields[CHOOSE f \in Converts(r) : FidIndex(f) = i - 1])
                    ELSE Plain("")
      BY <3>1 DEF Cell
    <3>3. QED
      BY <3>1, <3>2 DEF i
  <2> HIDE DEF g
  <2>5. CASE g \in Converts(r)
    <3>1. (CHOOSE f \in Converts(r) : FidIndex(f) = (4 + j) - 1) = g
      BY <2>2, <2>5
    <3>2. line[4 + j] = Printed(r.fields[g])
      BY <2>2, <2>4, <2>5, <3>1
    <3>3. Value(j) = r.fields[g]
      BY <2>5 DEF Value, g
    <3>4. QED
      BY <3>2, <3>3, CellTexts
  <2>6. CASE g \notin Converts(r)
    <3>1. line[4 + j] = Plain("")
      BY <2>2, <2>4, <2>6
    <3>2. "" \notin WithComma
      BY DEF NamesAreOneCell
    <3>3. Value(j) = ""
      BY <2>6 DEF Value, g
    <3>4. QED
      BY <3>1, <3>2, <3>3, CellTexts
  <2>7. QED
    BY <2>5, <2>6
<1>8. \A i \in 1 .. n : OneCell(line[i])
  <2> SUFFICES ASSUME NEW i \in 1 .. n PROVE OneCell(line[i])
    OBVIOUS
  <2>1. CASE i \in 1 .. 4
    BY <1>6, <2>1
  <2>2. CASE i \notin 1 .. 4
    <3>1. i - 4 \in 1 .. c /\ i = 4 + (i - 4)
      BY <1>1, <2>2
    <3>2. QED
      BY <1>7, <3>1
  <2>3. QED
    BY <2>1, <2>2
<1>9. ReadBack(line) = [i \in 1 .. n |-> line[i].text]
  BY <1>1, <1>4, <1>8, LineReadBack
<1>10. [i \in 1 .. n |-> line[i].text] = ReferenceRow(r)
  <2> DEFINE texts == [i \in 1 .. n |-> line[i].text]
             T == {texts[i] : i \in 1 .. n}
             values == [j \in 1 .. c |-> Value(j)]
             fixed == Fixed(r)
  <2>1. ReferenceRow(r) = fixed \o values
    BY <1>1 DEF ReferenceRow, Value
  <2>2. \A i \in 1 .. 4 : texts[i] = Fixed(r)[i] /\ i \in 1 .. n
    BY <1>1, <1>6
  <2>3. \A j \in 1 .. c : texts[4 + j] = Value(j) /\ 4 + j \in 1 .. n
    BY <1>1, <1>7
  <2> HIDE DEF texts
  <2>4. fixed \in Seq(T) /\ Len(fixed) = 4 /\ \A i \in 1 .. 4 : fixed[i] = texts[i]
    <3>1. Len(fixed) = 4 /\ fixed = [i \in 1 .. 4 |-> fixed[i]]
      BY DEF Fixed
    <3>2. \A i \in 1 .. 4 : fixed[i] \in T /\ fixed[i] = texts[i]
      BY <2>2
    <3> HIDE DEF fixed, T
    <3>3. QED
      BY <3>1, <3>2
  <2>5. values \in Seq(T) /\ Len(values) = c /\ \A j \in 1 .. c : values[j] = texts[4 + j]
    <3>1. \A j \in 1 .. c : Value(j) \in T /\ Value(j) = texts[4 + j]
      BY <2>3
    <3> HIDE DEF T
    <3>2. QED
      BY <1>1, <3>1
  <2>6. \A i \in 1 .. n : texts[i] \in T
    OBVIOUS
  <2> HIDE DEF T, values, fixed
  <2>7. /\ fixed \o values \in Seq(T) /\ Len(fixed \o values) = n
        /\ \A i \in 1 .. 4 : (fixed \o values)[i] = fixed[i]
        /\ \A j \in 1 .. c : (fixed \o values)[4 + j] = values[j]
    <3>1. fixed \in Seq(T) /\ values \in Seq(T)
      BY <2>4, <2>5
    <3>2. /\ fixed \o values \in Seq(T)
          /\ Len(fixed \o values) = Len(fixed) + Len(values)
          /\ \A i \in 1 .. Len(fixed) : (fixed \o values)[i] = fixed[i]
          /\ \A j \in 1 .. Len(values) : (fixed \o values)[Len(fixed) + j] = values[j]
      BY <3>1, Joined
    <3>3. QED
      BY <2>4, <2>5, <3>2
  <2>8. \A i \in 1 .. n : (fixed \o values)[i] = texts[i]
    <3> SUFFICES ASSUME NEW i \in 1 .. n PROVE (fixed \o values)[i] = texts[i]
      OBVIOUS
    <3>1. CASE i \in 1 .. 4
      BY <2>4, <2>7, <3>1
    <3>2. CASE i \notin 1 .. 4
      <4>1. i - 4 \in 1 .. c /\ i = 4 + (i - 4)
        BY <1>1, <3>2
      <4>2. QED
        BY <2>5, <2>7, <4>1
    <3>3. QED
      BY <3>1, <3>2
  <2>9. texts \in Seq(T) /\ Len(texts) = n
    BY <1>1, <2>6 DEF texts
  <2>10. texts = fixed \o values
    BY <1>1, <2>7, <2>8, <2>9, SameSequence
  <2>11. QED
    BY <2>1, <2>10 DEF texts
<1>11. QED
  BY <1>9, <1>10 DEF line

-----------------------------------------------------------------------------
\* The rows.

\* The rows of one message.
RowsFor(s, r) ==
  IF r.service = s /\ r.unpacks /\ ~Filtered(r) THEN <<ReferenceRow(r)>> ELSE <<>>

\* No messages have no rows.
LEMMA NoRows ==
  ASSUME NEW s
  PROVE  ReferenceRows(s, <<>>) = <<>>
<1>1. [i \in DOMAIN <<>> |-> RowsFor(s, <<>>[i])] = <<>>
  OBVIOUS
<1>2. ReferenceRows(s, <<>>) = FlattenSeq(<<>>)
  BY <1>1 DEF ReferenceRows, RowsFor
<1>3. FlattenSeq(<<>>) = <<>>
  BY DEF FlattenSeq
<1>4. QED
  BY <1>2, <1>3

\* The rows of a message follow those of the messages before it.
LEMMA RowsOfNext ==
  ASSUME NEW s, NEW records \in Seq(Records), NEW r \in Records
  PROVE  /\ ReferenceRows(s, records) \in Seq({ReferenceRow(x) : x \in Records})
         /\ ReferenceRows(s, Append(records, r)) = ReferenceRows(s, records) \o RowsFor(s, r)
<1> DEFINE S == {ReferenceRow(x) : x \in Records}
           more == Append(records, r)
           n == Len(records)
           front == [i \in 1 .. n |-> RowsFor(s, records[i])]
           last == RowsFor(s, r)
           all == [i \in 1 .. n + 1 |-> RowsFor(s, more[i])]
<1>1. /\ n \in Nat /\ DOMAIN records = 1 .. n /\ DOMAIN more = 1 .. n + 1
      /\ \A i \in 1 .. n : records[i] \in Records /\ more[i] = records[i]
      /\ more[n + 1] = r
  OBVIOUS
<1> HIDE DEF more
<1>2. \A x \in Records : RowsFor(s, x) \in Seq(S)
  <2> SUFFICES ASSUME NEW x \in Records PROVE RowsFor(s, x) \in Seq(S)
    OBVIOUS
  <2>1. ReferenceRow(x) \in S
    OBVIOUS
  <2> HIDE DEF S
  <2>2. <<ReferenceRow(x)>> \in Seq(S) /\ <<>> \in Seq(S)
    BY <2>1
  <2>3. QED
    BY <2>2 DEF RowsFor
<1>3. /\ ReferenceRows(s, records) = FlattenSeq(front)
      /\ ReferenceRows(s, more) = FlattenSeq(all)
  BY <1>1 DEF ReferenceRows, RowsFor
<1> HIDE DEF S
<1>4. front \in Seq(Seq(S)) /\ Len(front) = n /\ last \in Seq(S)
  BY <1>1, <1>2
<1>5. all = Append(front, last)
  <2>1. all \in Seq(Seq(S)) /\ Len(all) = n + 1
        /\ (\A i \in 1 .. n : all[i] = front[i]) /\ all[n + 1] = last
    <3>1. \A i \in 1 .. n + 1 : more[i] \in Records /\ (i \in 1 .. n \/ i = n + 1)
      BY <1>1
    <3>2. \A i \in 1 .. n + 1 : RowsFor(s, more[i]) \in Seq(S)
      BY <1>2, <3>1
    <3>3. all \in Seq(Seq(S)) /\ Len(all) = n + 1
      BY <1>1, <3>2
    <3>4. (\A i \in 1 .. n : all[i] = front[i]) /\ all[n + 1] = last
      BY <1>1
    <3>5. QED
      BY <3>3, <3>4
  <2> HIDE DEF all, front, last, n
  <2>2. Append(front, last) \in Seq(Seq(S)) /\ Len(Append(front, last)) = n + 1
        /\ (\A i \in 1 .. n : Append(front, last)[i] = front[i]) /\ Append(front, last)[n + 1] = last
    BY <1>1, <1>4
  <2>3. \A i \in 1 .. n + 1 : all[i] = Append(front, last)[i]
    <3> SUFFICES ASSUME NEW i \in 1 .. n + 1 PROVE all[i] = Append(front, last)[i]
      OBVIOUS
    <3>1. i \in 1 .. n \/ i = n + 1
      BY <1>1
    <3>2. QED
      BY <2>1, <2>2, <3>1
  <2>4. QED
    BY <1>1, <2>1, <2>2, <2>3, SameSequence
<1> HIDE DEF all, front, last
<1>6. /\ FlattenSeq(front) \in Seq(S)
      /\ FlattenSeq(Append(front, last)) = FlattenSeq(front) \o last
  BY <1>4, Flattened
<1>7. QED
  BY <1>3, <1>5, <1>6 DEF S, more, last

\* One more of the messages recorded.
LEMMA FirstMessages ==
  ASSUME NEW messages \in Seq(Records), NEW n \in 0 .. Len(messages) - 1
  PROVE  /\ SubSeq(messages, 1, 0) = <<>>
         /\ n + 1 \in 1 .. Len(messages) /\ messages[n + 1] \in Records
         /\ SubSeq(messages, 1, n) \in Seq(Records)
         /\ SubSeq(messages, 1, n + 1) = Append(SubSeq(messages, 1, n), messages[n + 1])
<1> DEFINE front == SubSeq(messages, 1, n)
           more == SubSeq(messages, 1, n + 1)
           last == messages[n + 1]
<1>0. Len(messages) \in Nat /\ n \in Nat /\ n + 1 \in 1 .. Len(messages)
  OBVIOUS
<1>1. last \in Records
  BY <1>0
<1>2. SubSeq(messages, 1, 0) = <<>>
  BY <1>0
<1>3. front \in Seq(Records) /\ Len(front) = n /\ \A i \in 1 .. n : front[i] = messages[i]
  BY <1>0
<1>4. more \in Seq(Records) /\ Len(more) = n + 1 /\ \A i \in 1 .. n + 1 : more[i] = messages[i]
  BY <1>0
<1> HIDE DEF front, more
<1>5. /\ Append(front, last) \in Seq(Records) /\ Len(Append(front, last)) = n + 1
      /\ \A i \in 1 .. n : Append(front, last)[i] = front[i]
      /\ Append(front, last)[n + 1] = last
  BY <1>0, <1>1, <1>3
<1>6. \A i \in 1 .. n + 1 : more[i] = Append(front, last)[i]
  <2> SUFFICES ASSUME NEW i \in 1 .. n + 1 PROVE more[i] = Append(front, last)[i]
    OBVIOUS
  <2>1. i \in 1 .. n \/ i = n + 1
    BY <1>0
  <2>2. QED
    BY <1>3, <1>4, <1>5, <2>1
<1>7. more = Append(front, last)
  BY <1>0, <1>4, <1>5, <1>6, SameSequence
<1>8. QED
  BY <1>0, <1>1, <1>2, <1>3, <1>7 DEF front, more

\* The reference of a file grows by the rows of the message.
LEMMA ReferenceGrows ==
  ASSUME NEW s, NEW messages \in Seq(Records), NEW n \in 0 .. Len(messages) - 1
  PROVE  ReferenceFile(s, SubSeq(messages, 1, n + 1))
           = ReferenceFile(s, SubSeq(messages, 1, n)) \o RowsFor(s, messages[n + 1])
<1> DEFINE front == SubSeq(messages, 1, n)
           last == messages[n + 1]
           S == {ReferenceRow(x) : x \in Records}
           rows == ReferenceRows(s, front)
           head == BaseColumns \o columns
           T == S \cup {head}
<1>1. /\ front \in Seq(Records) /\ last \in Records
      /\ SubSeq(messages, 1, n + 1) = Append(front, last)
  BY FirstMessages
<1> HIDE DEF front, last
<1>2. /\ rows \in Seq(S)
      /\ ReferenceRows(s, Append(front, last)) = rows \o RowsFor(s, last)
  BY <1>1, RowsOfNext
<1>3. RowsFor(s, last) \in Seq(T)
  <2>1. ReferenceRow(last) \in T
    BY <1>1
  <2> HIDE DEF T
  <2>2. <<ReferenceRow(last)>> \in Seq(T) /\ <<>> \in Seq(T)
    BY <2>1
  <2>3. QED
    BY <2>2 DEF RowsFor
<1>4. <<head>> \in Seq(T)
  OBVIOUS
<1>5. rows \in Seq(T)
  <2>1. S \subseteq T
    OBVIOUS
  <2> HIDE DEF S, T, rows
  <2>2. QED
    BY <1>2, <2>1
<1> DEFINE one == <<head>>
           new == RowsFor(s, last)
<1> HIDE DEF one, new, rows, T, S
<1>6. one \o (rows \o new) = (one \o rows) \o new
  BY <1>3, <1>4, <1>5 DEF one, new
<1>7. QED
  BY <1>1, <1>2, <1>6 DEF ReferenceFile, one, new, rows, front, last

-----------------------------------------------------------------------------
\* The second pass.

\* The message at hand is the next of those recorded; with it the pass has
\* read one more of them, or all there is in the file.
LEMMA NextMessage ==
  ASSUME ConvertInvariant, HasSize, NEW n \in 0 .. Len(written), ReadTo(n)
  PROVE  /\ n \in 0 .. Len(written) - 1 /\ Message = written[n + 1]
         /\ Whole => Advanced = (n + 1) * FrameUnits
         /\ ~Whole => /\ Advanced = Len(disk) /\ Len(disk) < (n + 1) * FrameUnits
                      /\ Len(disk) < (n + 1 + 1) * FrameUnits
<1>1. /\ pos \in Nat /\ Len(disk) \in Nat /\ FrameUnits \in Nat /\ 0 < FrameUnits
      /\ pos < Len(disk)
  BY AtFrame
<1>2. /\ written \in Seq(Records) /\ PrefixOf(disk, written) /\ Len(written) \in Nat
      /\ n \in Nat
  BY DEF ConvertInvariant, ArchiveInvariant
<1>3. pos = n * FrameUnits
  BY <1>1 DEF ReadTo
<1>4. (n + 1) * FrameUnits = pos + FrameUnits
  BY <1>2, <1>3, Multiples
<1>5. (n + 1 + 1) * FrameUnits = pos + FrameUnits + FrameUnits
  <2>1. n + 1 \in Nat
    BY <1>2
  <2>2. QED
    BY <1>4, <2>1, Multiples
<1>6. Len(disk) <= Len(written) * FrameUnits /\ Len(written) * FrameUnits \in Nat
  BY <1>2, Multiples DEF PrefixOf
<1>7. n < Len(written)
  <2>1. Len(written) <= n => Len(written) * FrameUnits <= n * FrameUnits
    BY <1>2, Multiples
  <2>2. QED
    BY <1>1, <1>2, <1>3, <1>6, <2>1
<1> DEFINE m == n + 1
<1>8. m \in 1 .. Len(written) /\ m - 1 = n /\ 1 \in 1 .. FrameUnits
  BY <1>1, <1>2, <1>7
<1> HIDE DEF m
<1>9. (m - 1) * FrameUnits + 1 = pos + 1 /\ pos + 1 <= Len(disk)
  BY <1>1, <1>3, <1>8
<1>10. disk[pos + 1] = [rec |-> written[m], unit |-> 1]
  BY <1>2, <1>8, <1>9 DEF PrefixOf
<1>11. n \in 0 .. Len(written) - 1 /\ Message = written[n + 1]
  BY <1>2, <1>7, <1>10 DEF Message, m
<1>12. Whole => Advanced = pos + FrameUnits
  BY DEF Advanced
<1>13. ~Whole => Advanced = Len(disk) /\ Len(disk) < pos + FrameUnits
  BY <1>1 DEF Advanced, Whole
<1>14. QED
  BY <1>1, <1>4, <1>5, <1>11, <1>12, <1>13

\* A whole message that is not exported has no row.
LEMMA NoRow ==
  ASSUME ConvertInvariant, HasSize, Whole, ~Exports, NEW s
  PROVE  RowsFor(s, Message) = <<>>
BY ExportsHere DEF Exports, RowsFor

\* What a service's file holds when nothing is written to it.
LEMMA ExportKept ==
  ASSUME NEW s, files'[OutputName[s]] = files[OutputName[s]], columns' = columns, written' = written,
         NEW n
  PROVE  /\ Exported(s)' = Exported(s)
         /\ ReferenceFile(s, SubSeq(written, 1, n))' = ReferenceFile(s, SubSeq(written, 1, n))
<1>1. Exported(s)' = Exported(s)
  BY DEF Exported, ReadBack
<1>2. ReferenceFile(s, SubSeq(written, 1, n))' = ReferenceFile(s, SubSeq(written, 1, n))
  BY DEF ReferenceFile, ReferenceRows, ReferenceRow, Filtered, Fixed, Converts
<1>3. QED
  BY <1>1, <1>2

\* Each header is read as the reference begins.
LEMMA ExportBegins ==
  ASSUME NEW s, NEW order \in Seq(AllFids), NamesAreOneCell,
         columns' = order, files'[OutputName[s]] = <<Header(order)>>
  PROVE  (Exported(s) = ReferenceFile(s, <<>>))'
<1> DEFINE head == Header(order)
           names == BaseColumns \o order
<1>1. ReadBack(head) = names
  BY HeaderReadBack
<1>2. ReferenceRows(s, <<>>)' = <<>>
  <2>1. [i \in DOMAIN <<>> |-> RowsFor(s, <<>>[i])'] = <<>>
    OBVIOUS
  <2>2. ReferenceRows(s, <<>>)' = FlattenSeq(<<>>)
    BY <2>1 DEF ReferenceRows, RowsFor
  <2>3. FlattenSeq(<<>>) = <<>>
    BY DEF FlattenSeq
  <2>4. QED
    BY <2>2, <2>3
<1>3. ReferenceFile(s, <<>>)' = <<names>>
  <2>1. ReferenceFile(s, <<>>)' = <<names>> \o <<>>
    BY <1>2 DEF ReferenceFile
  <2> HIDE DEF names
  <2>2. <<names>> \o <<>> = <<names>>
    OBVIOUS
  <2>3. QED
    BY <2>1, <2>2
<1> HIDE DEF head, names
<1>4. Exported(s)' = [i \in DOMAIN <<head>> |-> ReadBack(<<head>>[i])]
  BY DEF Exported, ReadBack, head
<1>5. [i \in DOMAIN <<head>> |-> ReadBack(<<head>>[i])] = <<names>>
  BY <1>1
<1>6. QED
  BY <1>3, <1>4, <1>5

\* What a message that is exported has in hand.
LEMMA ExportedMessage ==
  ASSUME ExportAssumptions, ConvertInvariant, pc = "second", HasSize, Exports
  PROVE  Message \in Records /\ ReadBack(Row(Message)) = ReferenceRow(Message)
<1>1. /\ IsFiniteSet(fids) /\ fids \subseteq AllFids
      /\ columns \in SetToSeqs(fids) /\ Covers(fids, Len(disk))
  BY DEF ConvertInvariant
<1>2. pos \in 0 .. Len(disk) /\ Boundary(pos) /\ pos < Len(disk) /\ Message \in Records
  BY AtFrame
<1>3. ExportsAt(pos)
  BY ExportsHere
<1>4. DOMAIN Message.fields \subseteq fids
  BY <1>1, <1>2, <1>3 DEF Covers, Message
<1>5. AllFids \cap Range(BaseColumns) = {} /\ NamesAreOneCell
  BY DEF ExportAssumptions
<1>6. QED
  BY <1>1, <1>2, <1>4, <1>5, RowReadBack

\* A row is added at the end of its own file, and to no other.
LEMMA RowAdded ==
  ASSUME ExportAssumptions, ConvertInvariant, Exporting, WriteRow
  PROVE  /\ files' \in [FileNames -> Seq(Lines)] /\ offset' \in [Services -> Nat]
         /\ \A s \in Services : offset'[s] = Len(files'[OutputName[s]])
         /\ \A s \in Services :
              files'[OutputName[s]] =
                IF s = Message.service THEN Append(files[OutputName[s]], Row(Message))
                ELSE files[OutputName[s]]
<1> DEFINE own == Message.service
           file == OutputName[own]
           row == Row(Message)
<1>1. /\ pc = "second" /\ HasSize /\ Exports /\ own \in Services
      /\ files' = [files EXCEPT ![file] = Put(@, offset[own], row)]
      /\ offset' = [offset EXCEPT ![own] = @ + 1]
  BY DEF WriteRow
<1>2. /\ files \in [FileNames -> Seq(Lines)] /\ offset \in [Services -> Nat]
      /\ \A s \in Services : offset[s] = Len(files[OutputName[s]])
  BY DEF Exporting
<1>3. row \in Lines
  BY <1>1, ExportedMessage DEF Lines
<1>4. \A s \in Services : OutputName[s] \in FileNames /\ (OutputName[s] = file => s = own)
  BY <1>1 DEF FileNames, ExportAssumptions, OwnOutputs
<1> HIDE DEF own, file, row
<1>5. OutputName[own] = file /\ file \in FileNames
  BY <1>1, <1>4 DEF file
<1>6. files[file] \in Seq(Lines) /\ offset[own] = Len(files[file])
  BY <1>1, <1>2, <1>5
<1>7. Put(files[file], offset[own], row) = Append(files[file], row)
  BY <1>6 DEF Put
<1>8. /\ Append(files[file], row) \in Seq(Lines)
      /\ Len(Append(files[file], row)) = Len(files[file]) + 1
  BY <1>3, <1>6
<1>9. /\ files' \in [FileNames -> Seq(Lines)]
      /\ files'[file] = Append(files[file], row)
      /\ \A f \in FileNames : f # file => files'[f] = files[f]
  BY <1>1, <1>2, <1>5, <1>7, <1>8
<1>10. /\ offset' \in [Services -> Nat] /\ offset'[own] = offset[own] + 1
       /\ \A s \in Services : s # own => offset'[s] = offset[s]
  BY <1>1, <1>2
<1>11. ASSUME NEW s \in Services
       PROVE  /\ offset'[s] = Len(files'[OutputName[s]])
              /\ files'[OutputName[s]] = IF s = own THEN Append(files[OutputName[s]], row)
                                         ELSE files[OutputName[s]]
  <2>1. CASE s = own
    BY <1>5, <1>6, <1>8, <1>9, <1>10, <2>1
  <2>2. CASE s # own
    <3>1. OutputName[s] \in FileNames /\ OutputName[s] # file
      BY <1>4, <2>2
    <3>2. QED
      BY <1>2, <1>9, <1>10, <2>2, <3>1
  <2>3. QED
    BY <2>1, <2>2
<1>12. QED
  BY <1>9, <1>10, <1>11 DEF own, row

\* Behind a row, each file has the rows of one more message.
LEMMA RowExported ==
  ASSUME ExportAssumptions, ConvertInvariant, Exporting, WriteRow,
         NEW n \in 0 .. Len(written) - 1, Message = written[n + 1], ExportHas(n)
  PROVE  ExportHas(n + 1)'
<1>1. /\ pc = "second" /\ HasSize /\ Exports
      /\ columns' = columns /\ written' = written
  BY DEF WriteRow, archiveVars
<1>2. /\ written \in Seq(Records) /\ Message \in Records
      /\ ReadBack(Row(Message)) = ReferenceRow(Message)
  BY <1>1, ExportedMessage DEF ConvertInvariant, ArchiveInvariant
<1>3. Message.unpacks /\ ~Filtered(Message)
  BY <1>1 DEF Exports
<1>4. ASSUME NEW s \in Services
      PROVE  Exported(s)' = ReferenceFile(s, SubSeq(written, 1, n + 1))'
  <2> DEFINE lines == files[OutputName[s]]
             row == Row(Message)
             cells == Exported(s)
             more == files'[OutputName[s]]
  <2>1. lines \in Seq(Lines)
    <3>1. OutputName[s] \in FileNames
      BY DEF FileNames
    <3>2. QED
      BY <3>1 DEF Exporting
  <2>2. more = IF s = Message.service THEN Append(lines, row) ELSE lines
    BY RowAdded
  <2>3. /\ cells = ReferenceFile(s, SubSeq(written, 1, n))
        /\ ReferenceFile(s, SubSeq(written, 1, n + 1))
             = ReferenceFile(s, SubSeq(written, 1, n)) \o RowsFor(s, Message)
    BY <1>2, ReferenceGrows DEF ExportHas
  <2>4. ReferenceFile(s, SubSeq(written, 1, n + 1))' = ReferenceFile(s, SubSeq(written, 1, n + 1))
    BY <1>1 DEF ReferenceFile, ReferenceRows, ReferenceRow, Filtered, Fixed, Converts
  <2>5. /\ cells = [i \in DOMAIN lines |-> ReadBack(lines[i])]
        /\ Exported(s)' = [i \in DOMAIN more |-> ReadBack(more[i])]
    BY DEF Exported, ReadBack
  <2>6. CASE s # Message.service
    <3>1. RowsFor(s, Message) = <<>>
      BY <2>6 DEF RowsFor
    <3>2. Exported(s)' = cells
      BY <2>2, <2>5, <2>6
    <3>3. cells \o <<>> = cells
      <4> DEFINE S == {ReadBack(lines[i]) : i \in DOMAIN lines}
      <4>1. cells \in Seq(S)
        BY <2>1, <2>5
      <4> HIDE DEF S, cells
      <4>2. QED
        BY <4>1
    <3>4. QED
      BY <2>3, <2>4, <3>1, <3>2, <3>3
  <2>7. CASE s = Message.service
    <3>1. RowsFor(s, Message) = <<ReadBack(row)>>
      BY <1>2, <1>3, <2>7 DEF RowsFor
    <3>2. Exported(s)' = cells \o <<ReadBack(row)>>
      <4> DEFINE m == Len(lines)
                 new == ReadBack(row)
                 S == {ReadBack(lines[i]) : i \in 1 .. m} \cup {new}
                 all == [i \in 1 .. m + 1 |-> ReadBack(more[i])]
      <4>1. /\ more = Append(lines, row) /\ m \in Nat /\ DOMAIN lines = 1 .. m
            /\ DOMAIN more = 1 .. m + 1 /\ more[m + 1] = row
            /\ \A i \in 1 .. m : more[i] = lines[i]
        <5>1. more = Append(lines, row)
          BY <2>2, <2>7
        <5> HIDE DEF more, lines, row
        <5>2. QED
          BY <2>1, <5>1
      <4>2. Exported(s)' = all /\ cells = [i \in 1 .. m |-> ReadBack(lines[i])]
        BY <2>5, <4>1
      <4> HIDE DEF more, lines, row, cells, m, all
      <4>3. cells \in Seq(S) /\ Len(cells) = m /\ \A i \in 1 .. m : cells[i] = ReadBack(lines[i])
        BY <4>1, <4>2
      <4>4. \A i \in 1 .. m : all[i] = cells[i]
        BY <4>1, <4>3 DEF all
      <4>5. all[m + 1] = new
        BY <4>1 DEF all
      <4>6. new \in S /\ \A i \in 1 .. m : cells[i] \in S
        BY <4>3
      <4>7. all = [i \in 1 .. m + 1 |-> all[i]]
        BY DEF all
      <4> HIDE DEF S, new
      <4>8. all \in Seq(S) /\ Len(all) = m + 1
        <5>1. \A i \in 1 .. m + 1 : all[i] \in S
          <6> SUFFICES ASSUME NEW i \in 1 .. m + 1 PROVE all[i] \in S
            OBVIOUS
          <6>1. i \in 1 .. m \/ i = m + 1
            BY <4>1
          <6>2. QED
            BY <4>4, <4>5, <4>6, <6>1
        <5>2. QED
          BY <4>1, <4>7, <5>1
      <4>9. /\ cells \o <<new>> \in Seq(S) /\ Len(cells \o <<new>>) = m + 1
            /\ (\A i \in 1 .. m : (cells \o <<new>>)[i] = cells[i])
            /\ (cells \o <<new>>)[m + 1] = new
        BY <4>1, <4>3, <4>6
      <4>10. \A i \in 1 .. m + 1 : all[i] = (cells \o <<new>>)[i]
        <5> SUFFICES ASSUME NEW i \in 1 .. m + 1 PROVE all[i] = (cells \o <<new>>)[i]
          OBVIOUS
        <5>1. i \in 1 .. m \/ i = m + 1
          BY <4>1
        <5>2. QED
          BY <4>4, <4>5, <4>9, <5>1
      <4>11. all = cells \o <<new>>
        BY <4>1, <4>8, <4>9, <4>10, SameSequence
      <4>12. QED
        BY <4>2, <4>11 DEF cells, new
    <3>3. QED
      BY <2>3, <2>4, <3>1, <3>2
  <2>8. QED
    BY <2>6, <2>7
<1>5. QED
  BY <1>4 DEF ExportHas

\* A reference is a sequence.
LEMMA ReferenceIsSequence ==
  ASSUME NEW s, NEW n \in 0 .. Len(written), written \in Seq(Records)
  PROVE  ReferenceFile(s, SubSeq(written, 1, n)) \o <<>> = ReferenceFile(s, SubSeq(written, 1, n))
<1> DEFINE front == SubSeq(written, 1, n)
           rows == ReferenceRows(s, front)
           head == <<BaseColumns \o columns>>
<1>1. front \in Seq(Records)
  <2>1. Len(written) \in Nat /\ n \in Nat /\ n <= Len(written)
    OBVIOUS
  <2>2. QED
    BY <2>1
<1> HIDE DEF front
<1>2. PICK S : rows \in Seq(S)
  <2>1. CASE front = <<>>
    <3>1. rows = <<>>
      BY <2>1, NoRows
    <3>2. <<>> \in Seq({})
      OBVIOUS
    <3>3. QED
      BY <3>1, <3>2
  <2>2. CASE front # <<>>
    <3>1. front[1] \in Records
      BY <1>1, <2>2
    <3>2. QED
      BY <1>1, <3>1, RowsOfNext
  <2>3. QED
    BY <2>1, <2>2
<1> DEFINE name == BaseColumns \o columns
           T == S \cup {name}
<1>3. rows \in Seq(T) /\ head \in Seq(T)
  <2>1. S \subseteq T /\ name \in T
    OBVIOUS
  <2> HIDE DEF T, rows, name
  <2>2. rows \in Seq(T) /\ <<name>> \in Seq(T)
    BY <1>2, <2>1
  <2>3. QED
    BY <2>2 DEF name
<1> HIDE DEF head, T, rows
<1>4. (head \o rows) \o <<>> = head \o rows
  BY <1>3
<1>5. QED
  BY <1>4 DEF ReferenceFile, front, head, rows

\* The lines a file may have depend on the columns.
LEMMA LinesKept ==
  ASSUME columns' = columns
  PROVE  Lines' = Lines
BY DEF Lines, Header, Row, RowWidth, FidIndex, Converts, Fixed, Plain, Printed

\* Every step keeps what is exported the rows of the first messages.
LEMMA ExportStep ==
  ASSUME ExportAssumptions, ConvertInvariant, ExportInvariant, [Next]_vars
  PROVE  ExportInvariant'
<1>0. /\ pc \in {"second", "done"} /\ capture # "none" => Exporting
      /\ pc = "done" /\ capture # "none" => ~HasSize
  BY DEF ExportInvariant
<1>a. /\ written \in Seq(Records) /\ Len(written) \in Nat /\ disk \in Seq(Units)
      /\ Len(disk) \in Nat /\ pos \in Nat
  BY DEF ConvertInvariant, ArchiveInvariant
<1>1. CASE (pc = "idle" /\ Capture /\ UNCHANGED convertVars) \/ StartConvert \/ CollectFids \/ Crash
  <2>1. pc' \notin {"second", "done"}
    BY <1>1 DEF convertVars, StartConvert, CollectFids, Crash
  <2>2. QED
    BY <2>1 DEF ExportInvariant
<1>2. CASE OpenFails
  BY <1>2 DEF OpenFails, ExportInvariant, archiveVars
<1>3. CASE WriteHeaders
  <2>1. /\ pc = "first" /\ pc' = "second" /\ fids' = fids /\ written' = written /\ disk' = disk
        /\ columns' \in SetToSeqs(fids) /\ pos' = 0 /\ OutputName \in [Services -> STRING]
        /\ files' = [f \in FileNames |-> <<Header(columns')>>]
        /\ offset' = [s \in Services |-> 1]
    BY <1>3, ConvertAssumption DEF WriteHeaders, Rewound, archiveVars
  <2>2. fids \subseteq AllFids /\ IsFiniteSet(fids)
    BY DEF ConvertInvariant
  <2>3. <<Header(columns')>> \in Seq(Lines') /\ Len(<<Header(columns')>>) = 1
    BY DEF Lines
  <2>4. files' \in [FileNames -> Seq(Lines')] /\ offset' \in [Services -> Nat]
    BY <2>1, <2>3
  <2>5. ASSUME NEW s \in Services
        PROVE  /\ offset'[s] = Len(files'[OutputName[s]])
               /\ (Exported(s) = ReferenceFile(s, SubSeq(written, 1, 0)))'
    <3> DEFINE file == OutputName[s]
    <3>1. file \in FileNames
      BY DEF FileNames
    <3>2. files'[file] = <<Header(columns')>> /\ offset'[s] = 1
      BY <2>1, <3>1
    <3>3. columns' \in Seq(AllFids)
      <4>1. columns' \in Seq(fids)
        BY <2>1, <2>2, OrderOf
      <4>2. QED
        BY <2>2, <4>1
    <3>4. (Exported(s) = ReferenceFile(s, SubSeq(written, 1, 0)))'
      <4>1. (Exported(s) = ReferenceFile(s, <<>>))'
        BY <3>2, <3>3, ExportBegins DEF ExportAssumptions
      <4>2. SubSeq(written', 1, 0) = <<>>
        BY <1>a, <2>1
      <4>3. QED
        BY <4>1, <4>2
    <3>5. QED
      BY <2>3, <3>2, <3>4 DEF file
  <2>6. ReadTo(0)'
    <3>1. 0 * FrameUnits = 0
      BY Frames
    <3>2. QED
      BY <2>1, <3>1 DEF ReadTo
  <2>7. ExportHas(0)' /\ 0 \in 0 .. Len(written)'
    BY <1>a, <2>1, <2>5 DEF ExportHas
  <2>8. Exporting'
    BY <2>4, <2>5, <2>6, <2>7 DEF Exporting
  <2>9. QED
    BY <2>1, <2>8 DEF ExportInvariant
<1>4. CASE SkipMessage /\ capture # "none"
  <2>1. /\ pc = "second" /\ pc' = "second" /\ HasSize /\ ~Exports /\ pos' = Advanced
        /\ UNCHANGED <<files, offset, columns, written, disk>>
    BY <1>4 DEF SkipMessage, archiveVars
  <2>2. PICK n \in 0 .. Len(written) : ReadTo(n) /\ ExportHas(n)
    BY <1>0, <1>4, <2>1 DEF Exporting
  <2>3. \A s \in Services, k \in Nat :
          /\ Exported(s)' = Exported(s)
          /\ ReferenceFile(s, SubSeq(written, 1, k))' = ReferenceFile(s, SubSeq(written, 1, k))
    BY <2>1, ExportKept
  <2>4. \E k \in 0 .. Len(written) : ReadTo(k)' /\ ExportHas(k)
    <3>1. CASE Whole
      <4>1. /\ n \in 0 .. Len(written) - 1 /\ Message = written[n + 1]
            /\ pos' = (n + 1) * FrameUnits
        BY <2>1, <2>2, <3>1, NextMessage
      <4>2. ASSUME NEW s \in Services
            PROVE  Exported(s) = ReferenceFile(s, SubSeq(written, 1, n + 1))
        <5> DEFINE file == ReferenceFile(s, SubSeq(written, 1, n))
        <5>1. Exported(s) = file
          BY <2>2 DEF ExportHas
        <5>2. ReferenceFile(s, SubSeq(written, 1, n + 1)) = file \o <<>>
          BY <1>a, <2>1, <3>1, <4>1, NoRow, ReferenceGrows
        <5>3. file \o <<>> = file
          BY <1>a, ReferenceIsSequence
        <5>4. QED
          BY <5>1, <5>2, <5>3
      <4>3. n + 1 \in 0 .. Len(written) /\ ReadTo(n + 1)'
        BY <1>a, <4>1 DEF ReadTo
      <4>4. QED
        BY <4>2, <4>3 DEF ExportHas
    <3>2. CASE ~Whole
      <4>1. pos' = Len(disk) /\ Len(disk) < (n + 1) * FrameUnits
        BY <2>1, <2>2, <3>2, NextMessage
      <4>2. ReadTo(n)'
        BY <2>1, <4>1 DEF ReadTo
      <4>3. QED
        BY <2>2, <4>2
    <3>3. QED
      BY <3>1, <3>2
  <2>5. \E k \in 0 .. Len(written)' : ReadTo(k)' /\ ExportHas(k)'
    BY <2>1, <2>3, <2>4 DEF ExportHas
  <2>6. /\ files' \in [FileNames -> Seq(Lines')] /\ offset' \in [Services -> Nat]
        /\ \A s \in Services : offset'[s] = Len(files'[OutputName[s]])
    <3>1. Lines' = Lines
      BY <2>1, LinesKept
    <3>2. QED
      BY <1>0, <1>4, <2>1, <3>1 DEF Exporting
  <2>7. Exporting'
    BY <2>5, <2>6 DEF Exporting
  <2>8. QED
    BY <2>1, <2>7 DEF ExportInvariant
<1>5. CASE WriteRow /\ capture # "none"
  <2>1. /\ pc = "second" /\ pc' = "second" /\ HasSize /\ Exports /\ pos' = Advanced
        /\ UNCHANGED <<columns, written, disk>>
    BY <1>5 DEF WriteRow, archiveVars
  <2>2. Exporting
    BY <1>0, <1>5, <2>1
  <2>3. PICK n \in 0 .. Len(written) : ReadTo(n) /\ ExportHas(n)
    BY <2>2 DEF Exporting
  <2>4. /\ n \in 0 .. Len(written) - 1 /\ Message = written[n + 1]
        /\ \/ pos' = (n + 1) * FrameUnits
           \/ pos' = Len(disk) /\ Len(disk) < (n + 1 + 1) * FrameUnits
    BY <2>1, <2>3, NextMessage
  <2>5. ExportHas(n + 1)'
    BY <1>5, <2>2, <2>3, <2>4, RowExported
  <2>6. n + 1 \in 0 .. Len(written)' /\ ReadTo(n + 1)'
    BY <1>a, <2>1, <2>4 DEF ReadTo
  <2>7. /\ files' \in [FileNames -> Seq(Lines')] /\ offset' \in [Services -> Nat]
        /\ \A s \in Services : offset'[s] = Len(files'[OutputName[s]])
    <3>1. Lines' = Lines
      BY <2>1, LinesKept
    <3>2. QED
      BY <1>5, <2>2, <3>1, RowAdded
  <2>8. Exporting'
    BY <2>5, <2>6, <2>7 DEF Exporting
  <2>9. QED
    BY <2>1, <2>8 DEF ExportInvariant
<1>6. CASE (EndConvert \/ UNCHANGED vars) /\ capture # "none"
  <2>1. /\ pc' = "second" \/ pc' = "done" => pc \in {"second", "done"}
        /\ pc' = "done" => pc = "done" \/ ~HasSize
        /\ UNCHANGED <<pos, files, offset, columns, written, disk, capture>>
    BY <1>6 DEF EndConvert, vars, convertVars, archiveVars
  <2>2. HasSize' = HasSize /\ Lines' = Lines
    BY <2>1, LinesKept DEF HasSize
  <2>3. \A s \in Services, k \in Nat :
          /\ Exported(s)' = Exported(s)
          /\ ReferenceFile(s, SubSeq(written, 1, k))' = ReferenceFile(s, SubSeq(written, 1, k))
    BY <2>1, ExportKept
  <2>4. ASSUME Exporting PROVE Exporting'
    <3>1. PICK n \in 0 .. Len(written) : ReadTo(n) /\ ExportHas(n)
      BY <2>4 DEF Exporting
    <3>2. ReadTo(n)' /\ ExportHas(n)'
      BY <2>1, <2>3, <3>1 DEF ReadTo, ExportHas
    <3>3. QED
      BY <2>1, <2>2, <2>4, <3>2 DEF Exporting
  <2>5. QED
    BY <1>0, <1>6, <2>1, <2>2, <2>4 DEF ExportInvariant
<1>7. CASE (SkipMessage \/ WriteRow \/ EndConvert \/ UNCHANGED vars) /\ capture = "none"
  <2>1. capture' = "none"
    BY <1>7 DEF SkipMessage, WriteRow, EndConvert, vars, archiveVars
  <2>2. QED
    BY <2>1 DEF ExportInvariant
<1>8. QED
  BY <1>1, <1>2, <1>3, <1>4, <1>5, <1>6, <1>7 DEF Next, Conversion, Ended

-----------------------------------------------------------------------------
\* What is exported is what was captured.

\* Whatever became of the capture, what Convert leaves behind it is, for every
\* service, its header and a row for each of the service's messages among the
\* first that were recorded, in their order and with every value under the
\* name of its field; and a capture that was closed with room on its disk is
\* exported to its last message.  It is assumed that no field has the name of
\* a fixed column, that no name has a comma (only values are quoted) and that
\* no two services have the same output file (each has a stream of its own).
THEOREM ExportIsTheCapture ==
  ASSUME ExportAssumptions
  PROVE  Spec => []ExportFollowsCapture
<1>1. Init => ExportInvariant
  BY DEF Init, ExportInvariant
<1>2. ConvertInvariant /\ ExportInvariant /\ [Next]_vars => ExportInvariant'
  BY ExportStep
<1>3. ConvertInvariant /\ ExportInvariant => ExportFollowsCapture
  <2> SUFFICES ASSUME ConvertInvariant, ExportInvariant, pc = "done", capture # "none"
               PROVE  \E n \in 0 .. Len(written) :
                        /\ capture = "closed" /\ ~full => n = Len(written)
                        /\ \A s \in Services : Exported(s) = ReferenceFile(s, SubSeq(written, 1, n))
    BY DEF ExportFollowsCapture
  <2>1. ~HasSize /\ \E n \in 0 .. Len(written) : ReadTo(n) /\ ExportHas(n)
    BY DEF ExportInvariant, Exporting
  <2>2. PICK n \in 0 .. Len(written) : ReadTo(n) /\ ExportHas(n)
    BY <2>1
  <2>3. ASSUME capture = "closed", ~full PROVE n = Len(written)
    <3> DEFINE all == Len(written)
    <3>1. all \in Nat /\ n \in Nat /\ Len(disk) \in Nat /\ Len(disk) = all * FrameUnits
      BY <2>3 DEF ConvertInvariant, ArchiveInvariant
    <3> HIDE DEF all
    <3>2. FrameUnits \in Nat /\ SizeUnits \in Nat /\ SizeUnits < FrameUnits
      BY Frames
    <3>3. Len(disk) < n * FrameUnits + SizeUnits \/ Len(disk) < (n + 1) * FrameUnits
      <4>1. ~(pos + SizeUnits <= Len(disk)) /\ pos \in Nat
        BY <2>1 DEF HasSize, ConvertInvariant
      <4>2. Len(disk) < pos + SizeUnits
        BY <3>1, <3>2, <4>1
      <4>3. QED
        BY <2>2, <4>2 DEF ReadTo
    <3>4. n * FrameUnits \in Nat /\ (n + 1) * FrameUnits = n * FrameUnits + FrameUnits
      BY <3>1, Multiples
    <3>5. n + 1 <= all => (n + 1) * FrameUnits <= all * FrameUnits
      BY <3>1, Multiples
    <3>6. ~(n + 1 <= all)
      BY <3>1, <3>2, <3>3, <3>4, <3>5
    <3>7. n <= all
      BY DEF all
    <3>8. n = all
      BY <3>1, <3>6, <3>7
    <3>9. QED
      BY <3>8 DEF all
  <2>4. QED
    BY <2>2, <2>3 DEF ExportHas
<1>4. QED
  BY <1>1, <1>2, <1>3, ConvertInvariantHolds, PTL DEF Spec
=============================================================================
