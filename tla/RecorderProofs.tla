--------------------------- MODULE RecorderProofs ---------------------------
(***************************************************************************)
(* However many threads meet in the macro, for whatever names, and whether *)
(* a recorder comes or goes meanwhile: threads that look a name up share   *)
(* one histogram, and nobody is left with one that is deleted.             *)
(***************************************************************************)
EXTENDS StatisticsRecorder, WellFoundedInduction, TLAPS

\* Where a thread may be in the macro.
States == {"idle", "find", "new", "register", "store", "add"}

TypeOK ==
  /\ lock_ \in BOOLEAN
  /\ epoch \in 0 .. 3
  /\ made \in Seq(Names)
  /\ cached \in Seq(DOMAIN made) /\ DOMAIN cached = DOMAIN made
  /\ deleted \subseteq DOMAIN made
  /\ freed \subseteq DOMAIN made
  /\ pc \in [Threads -> States]
  /\ name \in [Threads -> Names]
  /\ histogram \in [Threads -> {NULL} \cup DOMAIN made]
  /\ pointer \in [Names -> {NULL} \cup DOMAIN made]
  /\ since \in [Threads -> Nat]

\* A histogram of that name that is not deleted.
Usable(h, n) == h \in DOMAIN made \ deleted /\ made[h] = n

\* What threads work with and what the macros point to.
InUse ==
  /\ \A t \in Adding : Usable(histogram[t], name[t])
  /\ \A n \in Names : pointer[n] # NULL => Usable(pointer[n], n)

\* Every histogram has ranges of its declaration, which are alive.
RangesAlive == \A h \in DOMAIN made : cached[h] \notin freed /\ Ranges(cached[h]) = RangesOf[made[h]]

\* The ranges registered with a checksum.
Cached(k) == Range(ranges_[k])

\* The maps of an active recorder.
Registry ==
  Active =>
    /\ epoch = 1 /\ lock_
    /\ histograms_ \in [Names -> {NULL} \cup DOMAIN made]
    /\ ranges_ \in [Checksums -> Seq(DOMAIN made)]
    /\ \A n \in Names : histograms_[n] # NULL =>
         Usable(histograms_[n], n) /\ cached[histograms_[n]] \in Cached(ChecksumOf[RangesOf[n]])
    /\ \A k \in Checksums : Cached(k) \cap freed = {}
    /\ \A k \in Checksums : \A c, d \in Cached(k) : Ranges(c) = Ranges(d) => c = d
    /\ \A t \in Threads : pc[t] = "store" /\ since[t] = epoch => histogram[t] = histograms_[name[t]]

\* A histogram that is not registered yet is known to its thread alone.
Tentative ==
  \A t \in Threads : pc[t] = "register" =>
    /\ Usable(histogram[t], name[t])
    /\ cached[histogram[t]] = histogram[t]
    /\ \A h \in DOMAIN made : cached[h] = histogram[t] => h = histogram[t]
    /\ \A u \in Threads : histogram[u] = histogram[t] => u = t
    /\ \A n \in Names : pointer[n] # histogram[t]
    /\ Active => /\ \A n \in Names : histograms_[n] # histogram[t]
                 /\ \A k \in Checksums : histogram[t] \notin Cached(k)

RecorderInvariant == TypeOK /\ InUse /\ RangesAlive /\ Registry /\ Tentative

-----------------------------------------------------------------------------
\* Sequences.

\* Histograms are numbered from one.
LEMMA Numbered ==
  ASSUME TypeOK
  PROVE  DOMAIN made = 1 .. Len(made) /\ Len(made) \in Nat /\ NULL \notin DOMAIN made
<1>1. made \in Seq(Names)
  BY DEF TypeOK
<1>2. QED
  BY <1>1 DEF NULL

\* A set of positions has a first one.
LEMMA FirstPosition ==
  ASSUME NEW H \in SUBSET Nat, H # {}
  PROVE  Min(H) \in H
<1> DEFINE Less == OpToRel(<, Nat)
<1>1. PICK x \in H : \A y \in H : <<y, x>> \notin Less
  <2>1. IsWellFoundedOn(Less, Nat)
    BY NatLessThanWellFounded
  <2> HIDE DEF Less
  <2>2. QED
    BY <2>1, WFMin
<1>2. \A y \in H : ~ (y < x)
  BY <1>1 DEF OpToRel
<1>3. \A y \in H : x <= y
  <2>1. \A y \in H : y \in Nat
    OBVIOUS
  <2> HIDE DEF Less
  <2>2. QED
    BY <1>2, <2>1
<1>4. QED
  BY <1>3 DEF Min

\* What RegisterOrDeleteDuplicateRanges finds in the list of a checksum.
LEMMA FirstMatch ==
  ASSUME NEW list, list \in Seq(Nat), NEW c
  PROVE  LET match == SelectInSeq(list, LAMBDA d : Equal(d, c)) IN
         /\ match # 0 => match \in DOMAIN list /\ Equal(list[match], c)
         /\ match = 0 => \A i \in DOMAIN list : ~Equal(list[i], c)
<1> DEFINE H == {i \in 1 .. Len(list) : Equal(list[i], c)}
<1>1. SelectInSeq(list, LAMBDA d : Equal(d, c)) = IF H # {} THEN Min(H) ELSE 0
  BY DEF SelectInSeq
<1>2. DOMAIN list = 1 .. Len(list) /\ H \in SUBSET Nat
  OBVIOUS
<1>3. CASE H = {}
  BY <1>1, <1>2, <1>3
<1>4. CASE H # {}
  <2>1. Min(H) \in H
    BY <1>2, <1>4, FirstPosition
  <2>2. QED
    BY <1>1, <1>2, <1>4, <2>1
<1>5. QED
  BY <1>3, <1>4

\* A list with one more in front.
LEMMA Fronted ==
  ASSUME NEW S, NEW list \in Seq(S), NEW c \in S
  PROVE  <<c>> \o list \in Seq(S) /\ Range(<<c>> \o list) = {c} \cup Range(list)
<1>1. <<c>> \o list \in Seq(S) /\ Len(<<c>> \o list) = Len(list) + 1 /\ Len(list) \in Nat
  OBVIOUS
<1>2. (<<c>> \o list)[1] = c /\ \A i \in 1 .. Len(list) : (<<c>> \o list)[i + 1] = list[i]
  OBVIOUS
<1>3. DOMAIN (<<c>> \o list) = 1 .. Len(list) + 1 /\ DOMAIN list = 1 .. Len(list)
  BY <1>1
<1>4. \A i \in 1 .. Len(list) + 1 : i = 1 \/ i - 1 \in 1 .. Len(list)
  BY <1>1
<1>5. Range(<<c>> \o list) \subseteq {c} \cup Range(list)
  BY <1>2, <1>3, <1>4 DEF Range
<1>6. {c} \cup Range(list) \subseteq Range(<<c>> \o list)
  <2>1. \A i \in 1 .. Len(list) : i + 1 \in 1 .. Len(list) + 1
    BY <1>1
  <2>2. 1 \in 1 .. Len(list) + 1
    BY <1>1
  <2>3. c \in Range(<<c>> \o list)
    BY <1>2, <1>3, <2>2 DEF Range
  <2>4. ASSUME NEW i \in 1 .. Len(list) PROVE list[i] \in Range(<<c>> \o list)
    BY <1>2, <1>3, <2>1 DEF Range
  <2>5. QED
    BY <1>3, <2>3, <2>4 DEF Range
<1>7. QED
  BY <1>1, <1>5, <1>6

-----------------------------------------------------------------------------
\* The steps.

\* There is nothing at first.
LEMMA InitInvariant == Init => RecorderInvariant
<1> SUFFICES ASSUME Init PROVE RecorderInvariant
  OBVIOUS
<1>1. DOMAIN made = {} /\ DOMAIN cached = {} /\ ~Active
  BY DEF Init, Active
<1>2. TypeOK
  <2>1. made = << >> /\ cached = << >> /\ made \in Seq(Names) /\ cached \in Seq(DOMAIN made)
    BY DEF Init
  <2>b. lock_ \in BOOLEAN
    BY Zenon DEF Init
  <2>2. /\ epoch \in 0 .. 3
        /\ pc \in [Threads -> States] /\ name \in [Threads -> Names]
        /\ since \in [Threads -> Nat]
    BY DEF Init, States
  <2>r. /\ histogram \in [Threads -> {NULL} \cup DOMAIN made]
        /\ pointer \in [Names -> {NULL} \cup DOMAIN made]
    BY DEF Init
  <2>3. QED
    BY <1>1, <2>1, <2>b, <2>2, <2>r DEF Init, TypeOK
<1>3. InUse /\ RangesAlive /\ Registry /\ Tentative
  BY <1>1 DEF Init, InUse, Adding, RangesAlive, Registry, Tentative
<1>4. QED
  BY <1>2, <1>3 DEF RecorderInvariant

\* The recorder finds all threads idle when it comes, ...
LEMMA ConstructStep ==
  ASSUME RecorderInvariant, Construct
  PROVE  RecorderInvariant'
<1> USE DEF RecorderInvariant, Construct, objectVars, threadVars
<1>1. TypeOK'
  BY DEF TypeOK
<1>2. InUse' /\ RangesAlive'
  BY DEF InUse, Adding, Usable, RangesAlive, Ranges
<1>3. Registry'
  <2>1. \A n \in Names : histograms_'[n] = NULL
    BY DEF EmptyMap
  <2>2. histograms_' \in [Names -> {NULL} \cup DOMAIN made']
    BY DEF EmptyMap
  <2>3. ranges_' \in [Checksums -> Seq(DOMAIN made')]
    OBVIOUS
  <2>4. \A k \in Checksums : Cached(k)' = {}
    BY DEF Cached, Range
  <2>5. \A t \in Threads : pc'[t] # "store"
    OBVIOUS
  <2>6. QED
    BY <2>1, <2>2, <2>3, <2>4, <2>5 DEF Registry
<1>4. Tentative'
  BY DEF Tentative
<1>5. QED
  BY <1>1, <1>2, <1>3, <1>4

\* ... and takes its maps away when it goes.
LEMMA DestructStep ==
  ASSUME RecorderInvariant, Destruct
  PROVE  RecorderInvariant'
<1> USE DEF RecorderInvariant, Destruct, objectVars, threadVars
<1>1. TypeOK'
  BY DEF TypeOK
<1>2. InUse' /\ RangesAlive'
  BY DEF InUse, Adding, Usable, RangesAlive, Ranges
<1>3. ~Active'
  BY DEF Registry, Active
<1>4. Registry'
  BY <1>3 DEF Registry
<1>5. Tentative'
  BY <1>3 DEF Tentative, Usable
<1>6. QED
  BY <1>1, <1>2, <1>4, <1>5

\* A step of a thread that constructs, registers and deletes nothing, and has
\* the thread go on with a histogram it may use.
LEMMA ThreadStep ==
  ASSUME RecorderInvariant, NEW t \in Threads, NEW to \in States \ {"register"}, NEW h, NEW n \in Names,
         UNCHANGED <<lock_, histograms_, ranges_, objectVars, epoch>>,
         pc[t] # "register",
         pc' = [pc EXCEPT ![t] = to],
         name' = [name EXCEPT ![t] = n],
         histogram' = [histogram EXCEPT ![t] = h],
         h # NULL => Usable(h, n) /\ \A u \in Threads : pc[u] = "register" => histogram[u] # h,
         to \in {"store", "add"} => h # NULL,
         since' \in [Threads -> Nat],
         \A u \in Threads : u # t => since'[u] = since[u],
         to = "store" /\ Active /\ since'[t] = epoch => h = histograms_[n],
         \/ pointer' = pointer
         \/ pc[t] = "store" /\ pointer' = [pointer EXCEPT ![name[t]] = histogram[t]]
  PROVE  RecorderInvariant'
<1> USE DEF RecorderInvariant, objectVars
<1>1. \A u \in Threads : /\ pc'[u] = IF u = t THEN to ELSE pc[u]
                         /\ name'[u] = IF u = t THEN n ELSE name[u]
                         /\ histogram'[u] = IF u = t THEN h ELSE histogram[u]
  <2>1. DOMAIN pc = Threads /\ DOMAIN name = Threads /\ DOMAIN histogram = Threads
    BY DEF TypeOK
  <2>2. QED
    BY <2>1
<1>2. h \in {NULL} \cup DOMAIN made
  BY DEF Usable
<1>3. \A m \in Names :
        pointer'[m] # pointer[m] => pc[t] = "store" /\ m = name[t] /\ pointer'[m] = histogram[t]
  BY DEF TypeOK
<1>4. TypeOK'
  <2>1. pointer' \in [Names -> {NULL} \cup DOMAIN made]
    BY DEF TypeOK
  <2>2. QED
    BY <1>2, <2>1 DEF TypeOK
<1>5. InUse'
  <2>1. \A u \in Adding' : Usable(histogram[u], name[u])'
    BY <1>1 DEF InUse, Adding, Usable
  <2>2. \A m \in Names : pointer'[m] # NULL => Usable(pointer[m], m)'
    BY <1>3 DEF InUse, Adding, Usable
  <2>3. QED
    BY <2>1, <2>2 DEF InUse
<1>6. RangesAlive'
  BY DEF RangesAlive, Ranges
<1>7. Registry'
  <2> SUFFICES ASSUME Active PROVE Registry'
    BY DEF Registry, Active
  <2>1. \A u \in Threads : pc'[u] = "store" /\ since'[u] = epoch' => histogram'[u] = histograms_'[name'[u]]
    BY <1>1 DEF Registry
  <2>2. QED
    BY <2>1 DEF Registry, Usable, Cached, Ranges
<1>8. Tentative'
  <2> SUFFICES ASSUME NEW u \in Threads, pc'[u] = "register"
               PROVE  /\ Usable(histogram[u], name[u])'
                      /\ cached'[histogram'[u]] = histogram'[u]
                      /\ \A g \in DOMAIN made' : cached'[g] = histogram'[u] => g = histogram'[u]
                      /\ \A v \in Threads : histogram'[v] = histogram'[u] => v = u
                      /\ \A m \in Names : pointer'[m] # histogram'[u]
                      /\ Active' => /\ \A m \in Names : histograms_'[m] # histogram'[u]
                                    /\ \A k \in Checksums : histogram'[u] \notin Cached(k)'
    BY DEF Tentative
  <2>1. u # t /\ pc[u] = "register" /\ histogram'[u] = histogram[u] /\ name'[u] = name[u]
    BY <1>1
  <2>2. /\ Usable(histogram[u], name[u])
        /\ cached[histogram[u]] = histogram[u]
        /\ \A g \in DOMAIN made : cached[g] = histogram[u] => g = histogram[u]
        /\ \A v \in Threads : histogram[v] = histogram[u] => v = u
        /\ \A m \in Names : pointer[m] # histogram[u]
        /\ Active => /\ \A m \in Names : histograms_[m] # histogram[u]
                     /\ \A k \in Checksums : histogram[u] \notin Cached(k)
    BY <2>1 DEF Tentative
  <2>3. histogram[u] # NULL
    BY <2>2, Numbered DEF Usable
  <2>4. \A v \in Threads : histogram'[v] = histogram'[u] => v = u
    BY <1>1, <2>1, <2>2, <2>3
  <2>5. \A m \in Names : pointer'[m] # histogram'[u]
    BY <1>3, <2>1, <2>2
  <2>6. QED
    BY <2>1, <2>2, <2>4, <2>5 DEF Usable, Active, Cached
<1>9. QED
  BY <1>4, <1>5, <1>6, <1>7, <1>8

\* A tentative histogram, with ranges of its own, is new to everybody.
LEMMA NewStep ==
  ASSUME RecorderInvariant, NEW t \in Threads, New(t)
  PROVE  RecorderInvariant'
<1> DEFINE h == Len(made) + 1
<1>0. /\ TypeOK /\ InUse /\ RangesAlive /\ Registry /\ Tentative
      /\ DOMAIN made = 1 .. Len(made) /\ Len(made) \in Nat /\ NULL \notin DOMAIN made
  BY Numbered DEF RecorderInvariant
<1>1. /\ UNCHANGED <<lock_, histograms_, ranges_, deleted, freed, pointer, name, epoch, since>>
      /\ pc[t] = "new" /\ pc' = [pc EXCEPT ![t] = "register"]
      /\ histogram' = [histogram EXCEPT ![t] = h]
      /\ made' = Append(made, name[t]) /\ cached' = Append(cached, h)
  BY DEF New, Go
<1>2. /\ made \in Seq(Names) /\ name[t] \in Names
      /\ cached \in Seq(DOMAIN made) /\ Len(cached) = Len(made)
  <2>1. made \in Seq(Names) /\ name[t] \in Names /\ cached \in Seq(DOMAIN made)
        /\ DOMAIN cached = DOMAIN made
    BY <1>0 DEF TypeOK
  <2>2. DOMAIN cached = 1 .. Len(cached) /\ Len(cached) \in Nat
    BY <2>1
  <2>3. Len(cached) = Len(made)
    BY <1>0, <2>1, <2>2
  <2>4. QED
    BY <2>1, <2>3
<1>3. /\ made' \in Seq(Names) /\ DOMAIN made' = DOMAIN made \cup {h} /\ h \notin DOMAIN made
      /\ made'[h] = name[t] /\ \A g \in DOMAIN made : made'[g] = made[g]
      /\ h # NULL
  BY <1>0, <1>1, <1>2 DEF NULL
<1>4. /\ cached' \in Seq(DOMAIN made') /\ DOMAIN cached' = DOMAIN made'
      /\ cached'[h] = h /\ \A g \in DOMAIN made : cached'[g] = cached[g] /\ cached[g] \in DOMAIN made
  <2>1. cached \in Seq(DOMAIN made \cup {h})
    BY <1>2
  <2>2. cached' \in Seq(DOMAIN made \cup {h}) /\ Len(cached') = Len(made) + 1
    BY <1>1, <1>2, <2>1
  <2>3. DOMAIN cached' = 1 .. Len(made) + 1
    BY <2>2
  <2>4. cached'[h] = h /\ \A g \in 1 .. Len(made) : cached'[g] = cached[g]
    BY <1>0, <1>1, <1>2
  <2>5. \A g \in 1 .. Len(made) : cached[g] \in DOMAIN made
    BY <1>0, <1>2
  <2>6. QED
    BY <1>0, <1>3, <2>2, <2>3, <2>4, <2>5
<1> HIDE DEF h
<1>5. /\ DOMAIN pc = Threads /\ DOMAIN histogram = Threads
      /\ \A u \in Threads : histogram[u] # h
      /\ \A n \in Names : pointer[n] # h
      /\ h \notin deleted /\ h \notin freed
  BY <1>0, <1>3 DEF TypeOK
<1>6. \A u \in Threads : /\ pc'[u] = IF u = t THEN "register" ELSE pc[u]
                         /\ histogram'[u] = IF u = t THEN h ELSE histogram[u]
                         /\ name'[u] = name[u]
  BY <1>1, <1>5
<1>7. \A g, n : Usable(g, n) => Usable(g, n)'
  BY <1>1, <1>3 DEF Usable
<1>8. TypeOK'
  <2>1. /\ pc' \in [Threads -> States]
        /\ histogram' \in [Threads -> {NULL} \cup DOMAIN made']
        /\ pointer' \in [Names -> {NULL} \cup DOMAIN made']
    BY <1>0, <1>1, <1>3 DEF TypeOK, States
  <2>2. deleted' \subseteq DOMAIN made' /\ freed' \subseteq DOMAIN made'
    BY <1>0, <1>1, <1>3 DEF TypeOK
  <2>3. QED
    BY <1>0, <1>1, <1>3, <1>4, <2>1, <2>2 DEF TypeOK
<1>9. InUse'
  <2>1. \A u \in Adding' : Usable(histogram[u], name[u])'
    BY <1>0, <1>6, <1>7 DEF InUse, Adding
  <2>2. \A n \in Names : pointer'[n] # NULL => Usable(pointer[n], n)'
    BY <1>0, <1>1, <1>7 DEF InUse
  <2>3. QED
    BY <2>1, <2>2 DEF InUse
<1>10. RangesAlive'
  BY <1>0, <1>1, <1>3, <1>4, <1>5 DEF RangesAlive, Ranges
<1>11. Registry'
  <2> SUFFICES ASSUME Active PROVE Registry'
    BY <1>1 DEF Registry, Active
  <2>1. /\ epoch = 1 /\ lock_
        /\ histograms_ \in [Names -> {NULL} \cup DOMAIN made]
        /\ ranges_ \in [Checksums -> Seq(DOMAIN made)]
    BY <1>0 DEF Registry
  <2>2. \A k \in Checksums : Cached(k)' = Cached(k) /\ Cached(k) \subseteq DOMAIN made
    <3>1. ASSUME NEW k \in Checksums PROVE Cached(k) \subseteq DOMAIN made
      <4>1. ranges_[k] \in Seq(DOMAIN made)
        BY <2>1
      <4>2. QED
        BY <4>1 DEF Cached, Range
    <3>2. QED
      BY <1>1, <3>1 DEF Cached
  <2>3. ASSUME NEW n \in Names, histograms_[n] # NULL
        PROVE  /\ Usable(histograms_[n], n)'
               /\ cached'[histograms_'[n]] \in Cached(ChecksumOf[RangesOf[n]])'
    <3>1. /\ Usable(histograms_[n], n)
          /\ cached[histograms_[n]] \in Cached(ChecksumOf[RangesOf[n]])
      BY <1>0, <2>3 DEF Registry
    <3>2. cached'[histograms_[n]] = cached[histograms_[n]]
      BY <1>4, <3>1 DEF Usable
    <3>3. QED
      BY <1>1, <1>7, <3>1, <3>2 DEF Cached
  <2>4. \A k \in Checksums : \A c, d \in Cached(k)' : (Ranges(c) = Ranges(d))' => c = d
    BY <1>0, <1>3, <2>2 DEF Registry, Ranges
  <2>5. \A k \in Checksums : Cached(k)' \cap freed' = {}
    BY <1>0, <1>1, <2>2 DEF Registry
  <2>6. \A u \in Threads :
          pc'[u] = "store" /\ since'[u] = epoch' => histogram'[u] = histograms_'[name'[u]]
    BY <1>0, <1>1, <1>6 DEF Registry
  <2>7. /\ histograms_' \in [Names -> {NULL} \cup DOMAIN made']
        /\ ranges_' \in [Checksums -> Seq(DOMAIN made')]
    <3>1. Seq(DOMAIN made) \subseteq Seq(DOMAIN made')
      BY <1>3
    <3>2. QED
      BY <1>1, <1>3, <2>1, <3>1
  <2>8. \A n \in Names : histograms_'[n] # NULL =>
           Usable(histograms_[n], n)' /\ cached'[histograms_'[n]] \in Cached(ChecksumOf[RangesOf[n]])'
    BY <1>1, <2>3
  <2>9. epoch' = 1 /\ lock_'
    BY <1>1, <2>1
  <2>10. QED
    BY <2>4, <2>5, <2>6, <2>7, <2>8, <2>9 DEF Registry
<1>12. Tentative'
  <2> SUFFICES ASSUME NEW u \in Threads, pc'[u] = "register"
               PROVE  /\ Usable(histogram[u], name[u])'
                      /\ cached'[histogram'[u]] = histogram'[u]
                      /\ \A g \in DOMAIN made' : cached'[g] = histogram'[u] => g = histogram'[u]
                      /\ \A v \in Threads : histogram'[v] = histogram'[u] => v = u
                      /\ \A n \in Names : pointer'[n] # histogram'[u]
                      /\ Active' => /\ \A n \in Names : histograms_'[n] # histogram'[u]
                                    /\ \A k \in Checksums : histogram'[u] \notin Cached(k)'
    BY DEF Tentative
  <2>1. Active /\ Active' => \A k \in Checksums : Cached(k)' = Cached(k) /\ h \notin Cached(k)
    <3>1. ASSUME NEW k \in Checksums, Active PROVE h \notin Cached(k)
      <4>1. ranges_[k] \in Seq(DOMAIN made)
        BY <1>0, <3>1 DEF Registry
      <4>2. QED
        BY <1>3, <4>1 DEF Cached, Range
    <3>2. QED
      BY <1>1, <3>1 DEF Cached
  <2>2. CASE u = t
    <3>1. histogram'[u] = h
      BY <1>6, <2>2
    <3>2. Usable(histogram[u], name[u])'
      BY <1>1, <1>3, <1>5, <2>2, <3>1 DEF Usable
    <3>3. Active' => \A n \in Names : histograms_'[n] # h
      BY <1>0, <1>1, <1>3 DEF Registry, Active
    <3>4. QED
      BY <1>1, <1>3, <1>4, <1>5, <1>6, <2>1, <2>2, <3>1, <3>2, <3>3 DEF Active
  <2>3. CASE u # t
    <3>1. pc[u] = "register" /\ histogram'[u] = histogram[u] /\ histogram[u] # h
      BY <1>5, <1>6, <2>3
    <3>2. /\ Usable(histogram[u], name[u])
          /\ cached[histogram[u]] = histogram[u]
          /\ \A g \in DOMAIN made : cached[g] = histogram[u] => g = histogram[u]
          /\ \A v \in Threads : histogram[v] = histogram[u] => v = u
          /\ \A n \in Names : pointer[n] # histogram[u]
          /\ Active => /\ \A n \in Names : histograms_[n] # histogram[u]
                       /\ \A k \in Checksums : histogram[u] \notin Cached(k)
      BY <1>0, <3>1 DEF Tentative
    <3>3. Usable(histogram[u], name[u])'
      BY <1>6, <1>7, <3>1, <3>2
    <3>4. cached'[histogram'[u]] = histogram'[u]
      BY <1>4, <3>1, <3>2 DEF Usable
    <3>5. \A g \in DOMAIN made' : cached'[g] = histogram'[u] => g = histogram'[u]
      BY <1>3, <1>4, <3>1, <3>2
    <3>6. \A v \in Threads : histogram'[v] = histogram'[u] => v = u
      BY <1>6, <3>1, <3>2
    <3>7. QED
      BY <1>1, <2>1, <3>1, <3>2, <3>3, <3>4, <3>5, <3>6 DEF Active
  <2>4. QED
    BY <2>2, <2>3
<1>13. QED
  BY <1>8, <1>9, <1>10, <1>11, <1>12 DEF RecorderInvariant

\* The next three are the ways RegisterOrDeleteDuplicate goes.  What they have
\* in common: no other thread and no pointer is touched, ...
LEMMA Registering ==
  ASSUME RecorderInvariant, NEW t \in Threads, Register(t)
  PROVE  /\ UNCHANGED <<lock_, pointer, name, epoch, since, made>>
         /\ pc[t] = "register" /\ pc' = [pc EXCEPT ![t] = "store"]
         /\ Usable(histogram[t], name[t]) /\ name[t] \in Names
         /\ \A u \in Threads : pc'[u] = IF u = t THEN "store" ELSE pc[u]
<1>1. pc[t] = "register" /\ pc' = [pc EXCEPT ![t] = "store"]
  BY DEF Register, Go
<1>2. UNCHANGED <<lock_, pointer, name, epoch, since, made>>
  BY DEF Register, RegisterOrDeleteDuplicateRanges, objectVars
<1>3. Usable(histogram[t], name[t])
  BY <1>1 DEF RecorderInvariant, Tentative
<1>4. name[t] \in Names /\ DOMAIN pc = Threads
  BY DEF RecorderInvariant, TypeOK
<1>5. QED
  BY <1>1, <1>2, <1>3, <1>4

\* ... and the other tentative histograms remain with their threads when this
\* one, and nothing but this one, changes its standing.
LEMMA TentativeKept ==
  ASSUME RecorderInvariant, NEW t \in Threads, Register(t),
         \A u \in Threads \ {t} : histogram'[u] = histogram[u],
         \A h \in DOMAIN made \ {histogram[t]} : cached'[h] = cached[h],
         deleted' \subseteq deleted \cup {histogram[t]},
         \A u \in Threads \ {t} : pc[u] = "register" =>
           /\ histogram'[t] # histogram[u]
           /\ cached'[histogram[t]] # histogram[u]
           /\ Active' => /\ Active
                         /\ \A n \in Names : histograms_'[n] # histogram[u]
                         /\ \A k \in Checksums : histogram[u] \notin Cached(k)'
  PROVE  Tentative'
<1>1. /\ UNCHANGED <<lock_, pointer, name, epoch, since, made>>
      /\ \A u \in Threads : pc'[u] = IF u = t THEN "store" ELSE pc[u]
      /\ pc[t] = "register" /\ Usable(histogram[t], name[t])
  BY Registering
<1>2. SUFFICES ASSUME NEW u \in Threads, pc'[u] = "register"
               PROVE  /\ Usable(histogram[u], name[u])'
                      /\ cached'[histogram'[u]] = histogram'[u]
                      /\ \A g \in DOMAIN made' : cached'[g] = histogram'[u] => g = histogram'[u]
                      /\ \A v \in Threads : histogram'[v] = histogram'[u] => v = u
                      /\ \A n \in Names : pointer'[n] # histogram'[u]
                      /\ Active' => /\ \A n \in Names : histograms_'[n] # histogram'[u]
                                    /\ \A k \in Checksums : histogram'[u] \notin Cached(k)'
  BY DEF Tentative
<1>3. u # t /\ pc[u] = "register" /\ histogram'[u] = histogram[u]
  BY <1>1, <1>2
<1>4. /\ Usable(histogram[u], name[u])
      /\ cached[histogram[u]] = histogram[u]
      /\ \A g \in DOMAIN made : cached[g] = histogram[u] => g = histogram[u]
      /\ \A v \in Threads : histogram[v] = histogram[u] => v = u
      /\ \A n \in Names : pointer[n] # histogram[u]
  BY <1>3 DEF RecorderInvariant, Tentative
<1>5. histogram[u] # histogram[t]
  BY <1>3, <1>4
<1>6. Usable(histogram[u], name[u])'
  BY <1>1, <1>3, <1>4, <1>5 DEF Usable
<1>7. cached'[histogram'[u]] = histogram'[u]
  BY <1>3, <1>4, <1>5 DEF Usable
<1>8. \A g \in DOMAIN made' : cached'[g] = histogram'[u] => g = histogram'[u]
  BY <1>1, <1>3, <1>4
<1>9. \A v \in Threads : histogram'[v] = histogram'[u] => v = u
  BY <1>3, <1>4
<1>10. QED
  BY <1>1, <1>3, <1>4, <1>6, <1>7, <1>8, <1>9

\* Without a recorder the histogram is the thread's to keep.
LEMMA RegisterNowhere ==
  ASSUME RecorderInvariant, NEW t \in Threads, Register(t), ~Active
  PROVE  RecorderInvariant'
<1>0. TypeOK /\ InUse /\ RangesAlive /\ Registry /\ Tentative
  BY DEF RecorderInvariant
<1>1. /\ UNCHANGED <<lock_, pointer, name, epoch, since, made>>
      /\ pc[t] = "register" /\ pc' = [pc EXCEPT ![t] = "store"]
      /\ Usable(histogram[t], name[t])
      /\ \A u \in Threads : pc'[u] = IF u = t THEN "store" ELSE pc[u]
  BY Registering
<1>2. UNCHANGED <<histograms_, ranges_, cached, deleted, freed, histogram>>
  BY DEF Register, objectVars
<1>3. TypeOK'
  <2>1. pc' \in [Threads -> States]
    BY <1>0, <1>1 DEF TypeOK, States
  <2>2. QED
    BY <1>0, <1>1, <1>2, <2>1 DEF TypeOK
<1>4. InUse' /\ RangesAlive'
  BY <1>0, <1>1, <1>2 DEF InUse, Adding, Usable, RangesAlive, Ranges
<1>5. ~Active'
  BY <1>2 DEF Active
<1>6. Registry'
  BY <1>5 DEF Registry
<1>7. Tentative'
  <2>1. \A u \in Threads \ {t} : pc[u] = "register" =>
           histogram'[t] # histogram[u] /\ cached'[histogram[t]] # histogram[u]
    BY <1>0, <1>1, <1>2 DEF Tentative, Usable
  <2>2. QED
    BY <1>2, <1>5, <2>1, TentativeKept
<1>8. QED
  BY <1>3, <1>4, <1>6, <1>7 DEF RecorderInvariant

\* A thread that comes second takes the histogram of the first and deletes its
\* own, which nobody else has heard of.
LEMMA RegisterSecond ==
  ASSUME RecorderInvariant, NEW t \in Threads, Register(t), Active, Taken(name[t])
  PROVE  RecorderInvariant'
<1> DEFINE h == histogram[t]
           first == histograms_[name[t]]
<1>0. TypeOK /\ InUse /\ RangesAlive /\ Registry /\ Tentative
  BY DEF RecorderInvariant
<1>1. /\ UNCHANGED <<lock_, pointer, name, epoch, since, made>>
      /\ pc[t] = "register" /\ pc' = [pc EXCEPT ![t] = "store"]
      /\ Usable(h, name[t]) /\ name[t] \in Names
      /\ \A u \in Threads : pc'[u] = IF u = t THEN "store" ELSE pc[u]
  BY Registering
<1>2. /\ UNCHANGED <<histograms_, ranges_, cached, freed>>
      /\ deleted' = deleted \cup {h}
      /\ histogram' = [histogram EXCEPT ![t] = first]
  BY <1>0 DEF Register, Registry
<1>3. /\ Usable(first, name[t])
      /\ \A n \in Names : histograms_[n] # h /\ pointer[n] # h
      /\ \A u \in Threads : histogram[u] = h => u = t
  BY <1>0, <1>1 DEF Registry, Taken, Tentative
<1>4. \A u \in Threads : histogram'[u] = IF u = t THEN first ELSE histogram[u]
  BY <1>0, <1>2 DEF TypeOK
<1> HIDE DEF h, first
<1>5. \A g, n : g # h /\ Usable(g, n) => Usable(g, n)'
  BY <1>1, <1>2 DEF Usable
<1>6. first # h
  BY <1>1, <1>3 DEF first
<1>7. TypeOK'
  <2>1. pc' \in [Threads -> States]
    BY <1>0, <1>1 DEF TypeOK, States
  <2>2. deleted' \subseteq DOMAIN made /\ histogram' \in [Threads -> {NULL} \cup DOMAIN made]
    BY <1>0, <1>1, <1>2, <1>3 DEF TypeOK, Usable
  <2>3. QED
    BY <1>0, <1>1, <1>2, <2>1, <2>2 DEF TypeOK
<1>8. InUse'
  <2>1. ASSUME NEW u \in Adding' PROVE Usable(histogram[u], name[u])'
    <3>1. CASE u = t
      BY <1>1, <1>3, <1>4, <1>5, <1>6, <3>1 DEF Adding
    <3>2. CASE u # t
      <4>1. u \in Adding /\ histogram'[u] = histogram[u] /\ histogram[u] # h
        BY <1>1, <1>3, <1>4, <3>2 DEF Adding
      <4>2. QED
        BY <1>0, <1>1, <1>5, <4>1 DEF InUse
    <3>3. QED
      BY <3>1, <3>2
  <2>2. \A n \in Names : pointer'[n] # NULL => Usable(pointer[n], n)'
    BY <1>0, <1>1, <1>3, <1>5 DEF InUse
  <2>3. QED
    BY <2>1, <2>2 DEF InUse
<1>9. RangesAlive'
  BY <1>0, <1>1, <1>2 DEF RangesAlive, Ranges
<1>10. Registry'
  <2>1. \A n \in Names : histograms_'[n] # NULL =>
           /\ Usable(histograms_[n], n)'
           /\ cached'[histograms_'[n]] \in Cached(ChecksumOf[RangesOf[n]])'
    BY <1>0, <1>2, <1>3, <1>5 DEF Registry, Cached
  <2>2. \A u \in Threads :
          pc'[u] = "store" /\ since'[u] = epoch' => histogram'[u] = histograms_'[name'[u]]
    BY <1>0, <1>1, <1>2, <1>4 DEF Registry, first
  <2>3. QED
    BY <1>0, <1>1, <1>2, <2>1, <2>2 DEF Registry, Cached, Ranges
<1>11. Tentative'
  <2>1. \A u \in Threads \ {t} : pc[u] = "register" =>
           /\ histogram'[t] # histogram[u]
           /\ cached'[h] # histogram[u]
           /\ Active /\ \A n \in Names : histograms_'[n] # histogram[u]
           /\ \A k \in Checksums : histogram[u] \notin Cached(k)'
    BY <1>0, <1>1, <1>2, <1>3, <1>4 DEF Tentative, Cached, Usable, first
  <2>2. /\ \A u \in Threads \ {t} : histogram'[u] = histogram[u]
        /\ \A g \in DOMAIN made \ {h} : cached'[g] = cached[g]
        /\ deleted' \subseteq deleted \cup {h}
    BY <1>2, <1>4
  <2>3. QED
    BY <2>1, <2>2, TentativeKept DEF h
<1>12. QED
  BY <1>7, <1>8, <1>9, <1>10, <1>11 DEF RecorderInvariant

\* What RegisterOrDeleteDuplicateRanges does: the histogram gets the equal
\* ranges of the list and its own are freed, or its own join the list.
LEMMA RangesRegistered ==
  ASSUME RecorderInvariant, NEW t \in Threads, Register(t), Active, ~Taken(name[t])
  PROVE  LET h == histogram[t]
             k == ChecksumOf[RangesOf[name[t]]]
         IN  /\ k \in Checksums
             /\ histograms_' = [histograms_ EXCEPT ![name[t]] = h]
             /\ UNCHANGED <<made, deleted, histogram>>
             /\ \/ \E c \in Cached(k) :
                     /\ Ranges(c) = RangesOf[name[t]]
                     /\ cached' = [cached EXCEPT ![h] = c]
                     /\ freed' = freed \cup {h}
                     /\ UNCHANGED ranges_
                \/ /\ \A c \in Cached(k) : Ranges(c) # RangesOf[name[t]]
                   /\ ranges_' = [ranges_ EXCEPT ![k] = <<h>> \o @]
                   /\ UNCHANGED <<cached, freed>>
<1> DEFINE h == histogram[t]
           k == ChecksumOf[RangesOf[name[t]]]
           list == ranges_[k]
           match == SelectInSeq(list, LAMBDA d : Equal(d, h))
<1>1. Usable(h, name[t]) /\ name[t] \in Names /\ cached[h] = h
  BY Registering DEF RecorderInvariant, Tentative
<1>2. k \in Checksums
  BY <1>1 DEF Checksums
<1>3. Ranges(cached[h]) = RangesOf[name[t]] /\ ChecksumOf[Ranges(cached[h])] = k
  BY <1>1 DEF Ranges, Usable
<1>4. /\ histograms_' = [histograms_ EXCEPT ![name[t]] = h]
      /\ RegisterOrDeleteDuplicateRanges(h)
      /\ UNCHANGED <<made, deleted, histogram>>
  BY DEF Register, RecorderInvariant, Registry
<1>5. IF match # 0
      THEN /\ cached' = [cached EXCEPT ![h] = list[match]]
           /\ freed' = freed \cup {h}
           /\ UNCHANGED ranges_
      ELSE /\ ranges_' = [ranges_ EXCEPT ![k] = <<h>> \o @]
           /\ UNCHANGED <<cached, freed>>
  BY <1>1, <1>3, <1>4 DEF RegisterOrDeleteDuplicateRanges
<1>6. list \in Seq(Nat)
  <2>1. list \in Seq(DOMAIN made) /\ DOMAIN made \subseteq Nat
    BY <1>2, Numbered DEF RecorderInvariant, Registry
  <2>2. Seq(DOMAIN made) \subseteq Seq(Nat)
    BY <2>1
  <2>3. QED
    BY <2>1, <2>2
<1>7. /\ match # 0 => match \in DOMAIN list /\ Equal(list[match], h)
      /\ match = 0 => \A i \in DOMAIN list : ~Equal(list[i], h)
  BY <1>6, FirstMatch
<1>8. \A c : Equal(c, h) <=> Ranges(c) = RangesOf[name[t]]
  BY <1>1, <1>3 DEF Equal
<1> HIDE DEF match, list
<1>9. CASE match # 0
  <2>1. list[match] \in Cached(k) /\ Ranges(list[match]) = RangesOf[name[t]]
    BY <1>7, <1>8, <1>9 DEF Cached, Range, list
  <2>2. QED
    BY <1>2, <1>4, <1>5, <1>9, <2>1
<1>10. CASE match = 0
  <2>1. \A c \in Cached(k) : Ranges(c) # RangesOf[name[t]]
    BY <1>7, <1>8, <1>10 DEF Cached, Range, list
  <2>2. QED
    BY <1>2, <1>4, <1>5, <1>10, <2>1
<1>11. QED
  BY <1>9, <1>10

\* The first of a name is registered, and its ranges with those of its like.
LEMMA RegisterFirst ==
  ASSUME RecorderInvariant, NEW t \in Threads, Register(t), Active, ~Taken(name[t])
  PROVE  RecorderInvariant'
<1> DEFINE h == histogram[t]
           k == ChecksumOf[RangesOf[name[t]]]
<1>0. TypeOK /\ InUse /\ RangesAlive /\ Registry /\ Tentative
  BY DEF RecorderInvariant
<1>1. /\ UNCHANGED <<lock_, pointer, name, epoch, since, made>>
      /\ pc[t] = "register" /\ pc' = [pc EXCEPT ![t] = "store"]
      /\ Usable(h, name[t]) /\ name[t] \in Names
      /\ \A u \in Threads : pc'[u] = IF u = t THEN "store" ELSE pc[u]
  BY Registering
<1>2. /\ k \in Checksums
      /\ histograms_' = [histograms_ EXCEPT ![name[t]] = h]
      /\ UNCHANGED <<deleted, histogram>>
      /\ \/ \E c \in Cached(k) :
              /\ Ranges(c) = RangesOf[name[t]]
              /\ cached' = [cached EXCEPT ![h] = c]
              /\ freed' = freed \cup {h}
              /\ UNCHANGED ranges_
         \/ /\ \A c \in Cached(k) : Ranges(c) # RangesOf[name[t]]
            /\ ranges_' = [ranges_ EXCEPT ![k] = <<h>> \o @]
            /\ UNCHANGED <<cached, freed>>
  BY RangesRegistered
<1>3. /\ cached[h] = h
      /\ \A g \in DOMAIN made : cached[g] = h => g = h
      /\ \A u \in Threads : histogram[u] = h => u = t
      /\ \A n \in Names : histograms_[n] # h
      /\ \A j \in Checksums : h \notin Cached(j)
      /\ h \in DOMAIN made /\ made[h] = name[t] /\ h # NULL
  BY <1>0, <1>1, Numbered DEF Tentative, Usable
<1>4. /\ histograms_ \in [Names -> {NULL} \cup DOMAIN made]
      /\ ranges_ \in [Checksums -> Seq(DOMAIN made)]
      /\ histograms_[name[t]] = NULL
  BY <1>0 DEF Registry, Taken
<1>5. \A j \in Checksums : Cached(j) \subseteq DOMAIN made \ freed
  <2>1. ASSUME NEW j \in Checksums PROVE Cached(j) \subseteq DOMAIN made
    <3>1. ranges_[j] \in Seq(DOMAIN made)
      BY <1>4
    <3>2. QED
      BY <3>1 DEF Cached, Range
  <2>2. QED
    BY <1>0, <2>1 DEF Registry
<1>5a. k' = k
  BY <1>1
<1> HIDE DEF h, k
\* The effect on the lists, whichever way it went.
<1>6. /\ cached' \in Seq(DOMAIN made) /\ DOMAIN cached' = DOMAIN made
      /\ freed' \subseteq freed \cup {h}
      /\ ranges_' \in [Checksums -> Seq(DOMAIN made)]
      /\ \A g \in DOMAIN made \ {h} : cached'[g] = cached[g]
      /\ cached'[h] \in Cached(k)' /\ Ranges(cached'[h]) = RangesOf[name[t]]
      /\ \A j \in Checksums : Cached(j)' \cap freed' = {} /\ Cached(j)' \subseteq Cached(j) \cup {h}
      /\ \A j \in Checksums : h \in Cached(j)' =>
           j = k /\ \A c \in Cached(k) : Ranges(c) # RangesOf[name[t]]
      /\ cached'[h] = h \/ cached'[h] \in Cached(k)
      /\ cached'[h] \notin freed'
  <2>0. cached \in Seq(DOMAIN made) /\ DOMAIN cached = DOMAIN made
    BY <1>0 DEF TypeOK
  <2>1. ASSUME NEW c \in Cached(k), Ranges(c) = RangesOf[name[t]],
               cached' = [cached EXCEPT ![h] = c], freed' = freed \cup {h}, UNCHANGED ranges_
        PROVE  <1>6!:
    <3>1. /\ cached' \in Seq(DOMAIN made) /\ DOMAIN cached' = DOMAIN made
          /\ cached'[h] = c /\ \A g \in DOMAIN made \ {h} : cached'[g] = cached[g]
      BY <1>2, <1>3, <1>5, <2>0, <2>1
    <3>2. \A j \in Checksums : Cached(j)' = Cached(j)
      BY <2>1 DEF Cached
    <3>3. h # c /\ c \notin freed /\ Ranges(cached'[h]) = RangesOf[name[t]]
      BY <1>2, <1>3, <1>5, <2>1, <3>1
    <3>4. \A j \in Checksums : Cached(j)' \cap freed' = {} /\ Cached(j)' \subseteq Cached(j) \cup {h}
      BY <1>3, <1>5, <2>1, <3>2
    <3>5. \A j \in Checksums : h \notin Cached(j)'
      BY <1>3, <3>2
    <3>6. cached'[h] \in Cached(k)' /\ cached'[h] \in Cached(k) /\ cached'[h] \notin freed'
      BY <1>2, <1>5a, <2>1, <3>1, <3>2, <3>3
    <3>7. freed' \subseteq freed \cup {h} /\ ranges_' \in [Checksums -> Seq(DOMAIN made)]
      BY <1>4, <2>1
    <3>8. QED
      BY <3>1, <3>3, <3>4, <3>5, <3>6, <3>7
  <2>2. ASSUME \A c \in Cached(k) : Ranges(c) # RangesOf[name[t]],
               ranges_' = [ranges_ EXCEPT ![k] = <<h>> \o @], UNCHANGED <<cached, freed>>
        PROVE  <1>6!:
    <3>1. /\ <<h>> \o ranges_[k] \in Seq(DOMAIN made)
          /\ Range(<<h>> \o ranges_[k]) = {h} \cup Range(ranges_[k])
      BY <1>2, <1>3, <1>4, Fronted
    <3>2. ranges_' \in [Checksums -> Seq(DOMAIN made)]
      BY <1>2, <1>4, <2>2, <3>1
    <3>3. \A j \in Checksums : Cached(j)' = IF j = k THEN {h} \cup Cached(j) ELSE Cached(j)
      BY <1>2, <1>4, <2>2, <3>1 DEF Cached
    <3>4. h \notin freed /\ Ranges(h) = RangesOf[name[t]]
      BY <1>0, <1>3 DEF RangesAlive, Ranges
    <3>5. cached' \in Seq(DOMAIN made) /\ DOMAIN cached' = DOMAIN made
      BY <2>0, <2>2
    <3>6. freed' \subseteq freed \cup {h} /\ \A g \in DOMAIN made \ {h} : cached'[g] = cached[g]
      BY <2>2
    <3>7. /\ cached'[h] = h /\ cached'[h] \notin freed' /\ cached'[h] \in Cached(k)'
          /\ Ranges(cached'[h]) = RangesOf[name[t]]
      BY <1>2, <1>3, <1>5a, <2>2, <3>3, <3>4
    <3>8. \A j \in Checksums : Cached(j)' \cap freed' = {} /\ Cached(j)' \subseteq Cached(j) \cup {h}
      BY <1>2, <1>5, <2>2, <3>3, <3>4
    <3>9. \A j \in Checksums : h \in Cached(j)' => j = k
      BY <1>3, <3>3
    <3>10. QED
      BY <2>2, <3>2, <3>5, <3>6, <3>7, <3>8, <3>9
  <2>3. QED
    BY <1>2, <2>1, <2>2
<1>7. TypeOK'
  <2>1. pc' \in [Threads -> States]
    BY <1>0, <1>1 DEF TypeOK, States
  <2>2. freed' \subseteq DOMAIN made
    BY <1>0, <1>3, <1>6 DEF TypeOK
  <2>3. QED
    BY <1>0, <1>1, <1>2, <1>6, <2>1, <2>2 DEF TypeOK
<1>8. InUse'
  BY <1>0, <1>1, <1>2 DEF InUse, Adding, Usable, h
<1>9. RangesAlive'
  <2>1. ASSUME NEW g \in DOMAIN made
        PROVE  cached'[g] \notin freed' /\ Ranges(cached'[g]) = RangesOf[made[g]]
    <3>1. CASE g = h
      BY <1>3, <1>6, <3>1
    <3>2. CASE g # h
      BY <1>0, <1>3, <1>6, <3>2 DEF RangesAlive
    <3>3. QED
      BY <3>1, <3>2
  <2>2. QED
    BY <1>1, <2>1 DEF RangesAlive, Ranges
<1>10. Registry'
  <2>1. histograms_' \in [Names -> {NULL} \cup DOMAIN made]
        /\ \A n \in Names : histograms_'[n] = IF n = name[t] THEN h ELSE histograms_[n]
    BY <1>1, <1>2, <1>3, <1>4
  <2>2. ASSUME NEW n \in Names, histograms_'[n] # NULL
        PROVE  /\ Usable(histograms_[n], n)'
               /\ cached'[histograms_'[n]] \in Cached(ChecksumOf[RangesOf[n]])'
    <3>1. CASE n = name[t]
      BY <1>1, <1>2, <1>6, <2>1, <3>1 DEF Usable, k
    <3>2. CASE n # name[t]
      <4>1. /\ Usable(histograms_[n], n) /\ histograms_[n] # h
            /\ cached[histograms_[n]] \in Cached(ChecksumOf[RangesOf[n]])
            /\ ChecksumOf[RangesOf[n]] \in Checksums
        BY <1>0, <1>3, <2>1, <2>2, <3>2 DEF Registry, Checksums
      <4>2. \A j \in Checksums : Cached(j) \subseteq Cached(j)'
        <5>1. CASE UNCHANGED ranges_
          BY <5>1 DEF Cached
        <5>2. CASE ranges_' = [ranges_ EXCEPT ![k] = <<h>> \o @]
          <6>1. Range(<<h>> \o ranges_[k]) = {h} \cup Range(ranges_[k])
            BY <1>2, <1>3, <1>4, Fronted
          <6>2. QED
            BY <1>4, <5>2, <6>1 DEF Cached
        <5>3. QED
          BY <1>2, <5>1, <5>2
      <4>3. QED
        BY <1>1, <1>2, <1>6, <2>1, <3>2, <4>1, <4>2 DEF Usable
    <3>3. QED
      BY <3>1, <3>2
  <2>3. ASSUME NEW j \in Checksums, NEW c \in Cached(j)', NEW d \in Cached(j)',
               Ranges(c) = Ranges(d)
        PROVE  c = d
    <3>1. Ranges(h) = RangesOf[name[t]]
      BY <1>3 DEF Ranges
    <3>2. (c = h \/ c \in Cached(j)) /\ (d = h \/ d \in Cached(j))
      BY <1>6
    <3>3. c \in Cached(j) /\ d \in Cached(j) => c = d
      BY <1>0, <2>3 DEF Registry
    <3>4. c = h /\ d \in Cached(j) => FALSE
      BY <1>6, <2>3, <3>1
    <3>5. d = h /\ c \in Cached(j) => FALSE
      BY <1>6, <2>3, <3>1
    <3>6. QED
      BY <3>2, <3>3, <3>4, <3>5
  <2>4. ASSUME NEW u \in Threads, pc'[u] = "store", since'[u] = epoch'
        PROVE  histogram'[u] = histograms_'[name'[u]]
    <3>1. CASE u = t
      BY <1>1, <1>2, <2>1, <3>1 DEF h
    <3>2. CASE u # t
      <4>1. histogram[u] = histograms_[name[u]] /\ Usable(histogram[u], name[u])
        BY <1>0, <1>1, <2>4, <3>2 DEF Registry, InUse, Adding
      <4>2. name[u] # name[t]
        BY <1>0, <1>4, <4>1, Numbered DEF Usable
      <4>3. name[u] \in Names
        BY <1>0 DEF TypeOK
      <4>4. QED
        BY <1>1, <1>2, <2>1, <4>1, <4>2, <4>3
    <3>3. QED
      BY <3>1, <3>2
  <2>5. epoch' = 1 /\ lock_'
    BY <1>0, <1>1 DEF Registry
  <2>6. \A j \in Checksums : \A c, d \in Cached(j)' : (Ranges(c) = Ranges(d))' => c = d
    BY <1>1, <2>3 DEF Ranges
  <2>7. \A n \in Names : histograms_'[n] # NULL =>
          Usable(histograms_[n], n)' /\ cached'[histograms_'[n]] \in Cached(ChecksumOf[RangesOf[n]])'
    BY <2>2
  <2>8. \A u \in Threads :
          pc'[u] = "store" /\ since'[u] = epoch' => histogram'[u] = histograms_'[name'[u]]
    BY <2>4
  <2>9. QED
    BY <1>1, <1>6, <2>1, <2>5, <2>6, <2>7, <2>8 DEF Registry
<1>11. Tentative'
  <2>1. ASSUME NEW u \in Threads \ {t}, pc[u] = "register"
        PROVE  /\ histogram'[t] # histogram[u]
               /\ cached'[h] # histogram[u]
               /\ \A n \in Names : histograms_'[n] # histogram[u]
               /\ \A j \in Checksums : histogram[u] \notin Cached(j)'
    <3>1. /\ histogram[u] # h
          /\ \A n \in Names : histograms_[n] # histogram[u]
          /\ \A j \in Checksums : histogram[u] \notin Cached(j)
      BY <1>0, <1>3, <2>1 DEF Tentative
    <3>2. \A n \in Names : histograms_'[n] # histogram[u]
      BY <1>1, <1>2, <1>4, <3>1
    <3>3. QED
      BY <1>2, <1>6, <3>1, <3>2 DEF h
  <2>2. /\ \A u \in Threads \ {t} : histogram'[u] = histogram[u]
        /\ \A g \in DOMAIN made \ {h} : cached'[g] = cached[g]
        /\ deleted' \subseteq deleted \cup {h}
    BY <1>2, <1>6
  <2>3. QED
    BY <2>1, <2>2, TentativeKept DEF h
<1>12. QED
  BY <1>7, <1>8, <1>9, <1>10, <1>11 DEF RecorderInvariant

\* What a thread that loads the pointer, looks the name up, stores the pointer
\* or adds its sample has afterwards, it may use.
LEMMA MacroStep ==
  ASSUME RecorderInvariant, NEW t \in Threads, Load(t) \/ Find(t) \/ Store(t) \/ Add(t)
  PROVE  RecorderInvariant'
<1>0. TypeOK /\ InUse /\ Registry /\ Tentative
  BY DEF RecorderInvariant
<1>1. name[t] \in Names /\ name = [name EXCEPT ![t] = name[t]] /\ since \in [Threads -> Nat]
      /\ epoch \in Nat
  BY <1>0 DEF TypeOK
<1>2. ASSUME Load(t) PROVE RecorderInvariant'
  <2> DEFINE h == pointer[name[t]]
             to == IF h = NULL THEN "find" ELSE "add"
  <2>1. to \in States \ {"register"} /\ pc[t] # "register" /\ pc' = [pc EXCEPT ![t] = to]
        /\ to # "store" /\ (to \in {"store", "add"} => h # NULL)
    BY <1>2 DEF Load, Go, States
  <2>2. h # NULL => Usable(h, name[t]) /\ \A u \in Threads : pc[u] = "register" => histogram[u] # h
    BY <1>0, <1>1 DEF InUse, Tentative
  <2>3. /\ UNCHANGED <<lock_, histograms_, ranges_, objectVars, epoch, pointer, name, since>>
        /\ histogram' = [histogram EXCEPT ![t] = h]
    BY <1>2 DEF Load
  <2> HIDE DEF h, to
  <2>4. QED
    BY <1>1, <2>1, <2>2, <2>3, ThreadStep
<1>3. ASSUME Find(t) PROVE RecorderInvariant'
  <2> DEFINE h == FindHistogram(name[t])
             to == IF h = NULL THEN "new" ELSE "store"
  <2>1. to \in States \ {"register"} /\ pc[t] # "register" /\ pc' = [pc EXCEPT ![t] = to]
        /\ (to \in {"store", "add"} => h # NULL)
    BY <1>3 DEF Find, Go, States
  <2>2. h # NULL => Usable(h, name[t]) /\ \A u \in Threads : pc[u] = "register" => histogram[u] # h
    BY <1>0, <1>1 DEF FindHistogram, Registry, Tentative
  <2>3. to = "store" /\ Active => h = histograms_[name[t]]
    BY DEF FindHistogram
  <2>4. /\ UNCHANGED <<lock_, histograms_, ranges_, objectVars, epoch, pointer, name>>
        /\ histogram' = [histogram EXCEPT ![t] = h]
    BY <1>3 DEF Find
  <2>5. since' \in [Threads -> Nat] /\ \A u \in Threads : u # t => since'[u] = since[u]
    BY <1>1, <1>3 DEF Find
  <2> HIDE DEF h, to
  <2>6. QED
    BY <1>1, <2>1, <2>2, <2>3, <2>4, <2>5, ThreadStep
<1>4. ASSUME Store(t) PROVE RecorderInvariant'
  <2>1. /\ UNCHANGED <<lock_, histograms_, ranges_, objectVars, epoch, histogram, name, since>>
        /\ pointer' = [pointer EXCEPT ![name[t]] = histogram[t]]
        /\ pc[t] = "store" /\ pc' = [pc EXCEPT ![t] = "add"] /\ "add" \in States \ {"register"}
    BY <1>4 DEF Store, Go, States
  <2>2. Usable(histogram[t], name[t]) /\ histogram[t] # NULL
    BY <1>0, <2>1, Numbered DEF InUse, Adding, Usable
  <2>3. \A u \in Threads : pc[u] = "register" => histogram[u] # histogram[t]
    BY <1>0, <2>1 DEF Tentative
  <2>4. histogram' = [histogram EXCEPT ![t] = histogram[t]]
    BY <1>0, <2>1 DEF TypeOK
  <2>5. QED
    BY <1>1, <2>1, <2>2, <2>3, <2>4, ThreadStep
<1>5. ASSUME Add(t) PROVE RecorderInvariant'
  <2>1. /\ UNCHANGED <<lock_, histograms_, ranges_, objectVars, epoch, pointer, since>>
        /\ pc[t] # "register" /\ pc' = [pc EXCEPT ![t] = "idle"] /\ "idle" \in States \ {"register"}
        /\ histogram' = [histogram EXCEPT ![t] = NULL]
    BY <1>5 DEF Add, Go, States
  <2>2. PICK n \in Names : name' = [name EXCEPT ![t] = n]
    BY <1>5 DEF Add
  <2>3. QED
    BY <1>1, <2>1, <2>2, ThreadStep
<1>6. QED
  BY <1>2, <1>3, <1>4, <1>5

\* Every step of a thread or of the recorder preserves the invariant.
LEMMA NextInvariant == RecorderInvariant /\ [Next]_vars => RecorderInvariant'
<1> SUFFICES ASSUME RecorderInvariant, [Next]_vars PROVE RecorderInvariant'
  OBVIOUS
<1>1. CASE Construct
  BY <1>1, ConstructStep
<1>2. CASE Destruct
  BY <1>2, DestructStep
<1>3. ASSUME NEW t \in Threads, Step(t) PROVE RecorderInvariant'
  <2>1. CASE Load(t) \/ Find(t) \/ Store(t) \/ Add(t)
    BY <2>1, MacroStep
  <2>2. CASE New(t)
    BY <2>2, NewStep
  <2>3. CASE Register(t) /\ ~Active
    BY <2>3, RegisterNowhere
  <2>4. CASE Register(t) /\ Active /\ Taken(name[t])
    BY <2>4, RegisterSecond
  <2>5. CASE Register(t) /\ Active /\ ~Taken(name[t])
    BY <2>5, RegisterFirst
  <2>6. QED
    BY <1>3, <2>1, <2>2, <2>3, <2>4, <2>5 DEF Step
<1>4. CASE UNCHANGED vars
  BY <1>4 DEF vars, threadVars, objectVars, RecorderInvariant, TypeOK, InUse, Adding, Usable,
              RangesAlive, Ranges, Registry, Active, Cached, Tentative
<1>5. QED
  BY <1>1, <1>2, <1>3, <1>4 DEF Next

-----------------------------------------------------------------------------
\* The property.

\* The registered histograms of one set of ranges have one CachedRanges, and
\* those of different ranges do not.
LEMMA RangesShared ==
  ASSUME RecorderInvariant, NEW g \in Registered, NEW h \in Registered
  PROVE  RangesOf[made[g]] = RangesOf[made[h]] <=> cached[g] = cached[h]
<1>0. RangesAlive /\ Registry
  BY DEF RecorderInvariant
<1>1. /\ Active
      /\ \E n \in Names : g = histograms_[n] /\ g # NULL
      /\ \E n \in Names : h = histograms_[n] /\ h # NULL
  BY DEF Registered
<1>2. PICK m \in Names : g = histograms_[m] /\ g # NULL
  BY <1>1
<1>3. PICK n \in Names : h = histograms_[n] /\ h # NULL
  BY <1>1
<1>4. /\ g \in DOMAIN made /\ made[g] = m /\ cached[g] \in Cached(ChecksumOf[RangesOf[m]])
      /\ h \in DOMAIN made /\ made[h] = n /\ cached[h] \in Cached(ChecksumOf[RangesOf[n]])
      /\ ChecksumOf[RangesOf[m]] \in Checksums
  BY <1>0, <1>1, <1>2, <1>3 DEF Registry, Usable, Checksums
<1>5. Ranges(cached[g]) = RangesOf[m] /\ Ranges(cached[h]) = RangesOf[n]
  BY <1>0, <1>4 DEF RangesAlive
<1>6. ASSUME RangesOf[m] = RangesOf[n] PROVE cached[g] = cached[h]
  BY <1>0, <1>1, <1>4, <1>5, <1>6 DEF Registry
<1>7. QED
  BY <1>4, <1>5, <1>6

\* What the invariant says of two threads that look one name up.
LEMMA InvariantShares == RecorderInvariant => OneHistogramPerName
<1> SUFFICES ASSUME RecorderInvariant PROVE OneHistogramPerName
  OBVIOUS
<1>0. TypeOK /\ InUse /\ RangesAlive /\ Registry
  BY DEF RecorderInvariant
<1>1. ASSUME NEW t \in Adding
      PROVE  /\ histogram[t] \notin deleted
             /\ made[histogram[t]] = name[t]
             /\ Active /\ since[t] = epoch /\ pc[t] = "store" => histogram[t] = histograms_[name[t]]
  BY <1>0 DEF InUse, Usable, Adding, Registry
<1>2. ASSUME NEW n \in Names PROVE pointer[n] \notin deleted
  BY <1>0, Numbered DEF InUse, Usable, TypeOK
<1>3. \A g, h \in Registered : RangesOf[made[g]] = RangesOf[made[h]] <=> cached[g] = cached[h]
  BY RangesShared
<1>4. \A h \in DOMAIN made \ deleted : cached[h] \notin freed /\ Ranges(cached[h]) = RangesOf[made[h]]
  BY <1>0 DEF RangesAlive
<1>5. ASSUME Active PROVE ranges_ # NoMap
  <2>1. DOMAIN histograms_ = Names /\ DOMAIN ranges_ = Checksums
    BY <1>0, <1>5 DEF Registry
  <2>2. Names # {}
    <3> SUFFICES ASSUME Names = {} PROVE histograms_ = << >>
      BY <1>5 DEF Active, NoMap
    <3>1. histograms_ \in Seq({NULL} \cup DOMAIN made)
      <4>1. histograms_ \in [1 .. 0 -> {NULL} \cup DOMAIN made]
        BY <1>0, <1>5 DEF Registry
      <4>2. QED
        BY <4>1
    <3>2. Len(histograms_) = 0
      BY <2>1, <3>1
    <3>3. QED
      BY <3>1, <3>2
  <2>3. Checksums # {}
    BY <2>2 DEF Checksums
  <2>4. QED
    BY <2>1, <2>3 DEF NoMap
<1>6. QED
  BY <1>1, <1>2, <1>3, <1>4, <1>5 DEF OneHistogramPerName

\* Threads that look one name up while a recorder is active get one histogram,
\* whoever constructed and registered it; the others that were constructed for
\* it are deleted while only their own thread knows them; and the ranges that
\* RegisterOrDeleteDuplicateRanges frees are in no histogram's hands.
THEOREM SharesOneHistogram == Spec => []OneHistogramPerName
<1>1. QED
  BY InitInvariant, NextInvariant, InvariantShares, PTL DEF Spec
=============================================================================
