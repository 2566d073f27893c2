--------------------------- MODULE LifecycleProofs ---------------------------
(***************************************************************************)
(* For any number of sessions of either protocol, and wherever Init comes  *)
(* to its end: what was acquired is released, users first.  The argument   *)
(* compares two orders: what a part needs comes before it in Init's, and   *)
(* behind it in Clear's.                                                   *)
(***************************************************************************)
EXTENDS Lifecycle, WellFoundedInduction, TLAPS

At(order, p) == order[p[1]][p[2]]

ContextKinds == {"rfa", "context", "config"}
LogKinds == {"log", "logger", "monitor", "logclient"}
ConsumerKinds == {"consumer", "session", "subscriber", "errors", "login"}

\* What Init asks for.
PartOf(r) ==
  /\ r \in Resources
  /\ r.kind = "file" => HasOutput /\ ~Converting
  /\ r.kind \in ConsumerKinds => ~Converting
  /\ r.kind = "login" => Protocol[r.owner] = "RSSL"

\* Its place in the order of Init, ...
ProgramIndex ==
  [rfa |-> 1, context |-> 2, config |-> 3, queue |-> 1,
   log |-> 1, logger |-> 2, monitor |-> 3, logclient |-> 4, file |-> 1,
   consumer |-> 1, session |-> 2, subscriber |-> 3, errors |-> 4, login |-> 5]

ProgramGroup(r) ==
  CASE r.kind \in ContextKinds -> 1
    [] r.kind = "queue" -> 2
    [] r.kind \in LogKinds -> 3
    [] r.kind = "file" -> 4
    [] r.kind \in ConsumerKinds -> 4 + r.owner

ProgramPlace(r) == <<ProgramGroup(r), ProgramIndex[r.kind]>>

\* ... and in that of Clear.
ReleaseIndex(r) ==
  CASE r.kind \in {"file", "queue", "config", "logclient"} -> 1
    [] r.kind \in {"context", "monitor"} -> 2
    [] r.kind \in {"rfa", "logger"} -> 3
    [] r.kind = "log" -> 4
    [] r.kind \in ConsumerKinds ->
         (IF Protocol[r.owner] = "RSSL" THEN 6 ELSE 5) - ProgramIndex[r.kind]

ReleaseGroup(r) ==
  CASE r.kind = "file" -> 1
    [] r.kind \in ConsumerKinds -> 1 + r.owner
    [] r.kind \in LogKinds -> Len(Protocol) + 2
    [] r.kind = "queue" -> Len(Protocol) + 3
    [] r.kind \in ContextKinds -> Len(Protocol) + 4

ReleasePlace(r) == <<ReleaseGroup(r), ReleaseIndex(r)>>

\* Places are pairs of numbers.
Numeric(order) == DOMAIN order \subseteq Nat /\ \A b \in DOMAIN order : DOMAIN order[b] \subseteq Nat

-----------------------------------------------------------------------------
\* Orders.

\* A set of positions has a first one.
LEMMA LeastPosition ==
  ASSUME NEW H \in SUBSET Nat, H # {}
  PROVE  \E x \in H : \A y \in H : ~(y < x)
<1> DEFINE Less == OpToRel(<, Nat)
<1>1. PICK x \in H : \A y \in H : <<y, x>> \notin Less
  <2>1. IsWellFoundedOn(Less, Nat)
    BY NatLessThanWellFounded
  <2> HIDE DEF Less
  <2>2. QED
    BY <2>1, WFMin
<1>2. QED
  BY <1>1 DEF OpToRel

\* If any place holds one of scope, a first one does.
LEMMA SomebodyFirst ==
  ASSUME NEW order, Numeric(order), NEW scope, NEW p \in Places(order), At(order, p) \in scope
  PROVE  First(order, scope) # {}
<1> DEFINE Held == {q \in Places(order) : order[q[1]][q[2]] \in scope}
           Groups == {b \in DOMAIN order : \E i \in DOMAIN order[b] : order[b][i] \in scope}
<1>1. \A q \in Places(order) : q = <<q[1], q[2]>> /\ q[1] \in DOMAIN order /\ q[2] \in DOMAIN order[q[1]]
  BY DEF Places
<1>2. \A b \in DOMAIN order : \A i \in DOMAIN order[b] : <<b, i>> \in Places(order)
  BY DEF Places
<1>3. p[1] \in Groups
  BY <1>1 DEF At
<1>4. PICK b \in Groups : \A c \in Groups : ~(c < b)
  BY <1>3, LeastPosition DEF Numeric
<1> DEFINE Members == {i \in DOMAIN order[b] : order[b][i] \in scope}
<1>5. PICK i \in Members : \A j \in Members : ~(j < i)
  BY <1>4, LeastPosition DEF Numeric
<1>6. <<b, i>> \in Held
  BY <1>2
<1>7. ASSUME NEW o \in Held PROVE ~Before(o, <<b, i>>)
  <2>1. o[1] \in Groups /\ o[2] \in DOMAIN order[o[1]] /\ order[o[1]][o[2]] \in scope
    BY <1>1
  <2>2. o[1] = b => o[2] \in Members
    BY <2>1
  <2>3. QED
    BY <1>4, <1>5, <2>1, <2>2 DEF Before
<1>8. order[b][i] \in First(order, scope)
  BY <1>6, <1>7 DEF First
<1>9. QED
  BY <1>8

\* Whoever is first has no one of scope before it.
LEMMA FirstIsFirst ==
  ASSUME NEW order, NEW scope, NEW r \in First(order, scope)
  PROVE  /\ r \in scope
         /\ \E p \in Places(order) :
              At(order, p) = r /\ \A q \in Places(order) : At(order, q) \in scope => ~Before(q, p)
BY DEF First, At

-----------------------------------------------------------------------------
\* The order of Init.

\* What a concatenation holds.
LEMMA Joined ==
  ASSUME NEW S, NEW front \in Seq(S), NEW T, NEW back \in Seq(T)
  PROVE  /\ front \o back \in Seq(S \cup T)
         /\ Len(front \o back) = Len(front) + Len(back)
         /\ DOMAIN (front \o back) = 1 .. Len(front) + Len(back)
         /\ \A i \in DOMAIN front : (front \o back)[i] = front[i]
         /\ \A i \in DOMAIN back : (front \o back)[Len(front) + i] = back[i]
<1>1. front \in Seq(S \cup T) /\ back \in Seq(S \cup T)
  <2>1. /\ front \in [1 .. Len(front) -> S] /\ Len(front) \in Nat
        /\ back \in [1 .. Len(back) -> T] /\ Len(back) \in Nat
    OBVIOUS
  <2>2. front \in [1 .. Len(front) -> S \cup T] /\ back \in [1 .. Len(back) -> S \cup T]
    BY <2>1
  <2>3. QED
    BY <2>1, <2>2
<1>2. QED
  BY <1>1

\* The groups of Program.
LEMMA ProgramGroups ==
  /\ Program[1] = ContextParts /\ Program[2] = <<App("queue")>>
  /\ Program[3] = LogParts /\ Program[4] = OutputParts
  /\ DOMAIN Program = 1 .. 4 + (IF Converting THEN 0 ELSE Len(Protocol))
  /\ ~Converting => \A s \in Sessions : Program[4 + s] = ConsumerParts(s)
<1> DEFINE front == <<ContextParts, <<App("queue")>>, LogParts, OutputParts>>
           consumers == [s \in Sessions |-> ConsumerParts(s)]
           S == {front[1], front[2], front[3], front[4]}
           T == {ConsumerParts(s) : s \in Sessions}
<1>1. /\ front = <<front[1], front[2], front[3], front[4]>>
      /\ front[1] = ContextParts /\ front[2] = <<App("queue")>>
      /\ front[3] = LogParts /\ front[4] = OutputParts
  OBVIOUS
<1>2. Len(Protocol) \in Nat /\ Sessions = 1 .. Len(Protocol)
  BY LifecycleAssumption DEF Sessions
<1>3. /\ consumers \in Seq(T) /\ Len(consumers) = Len(Protocol)
      /\ \A s \in Sessions : consumers[s] = ConsumerParts(s)
  BY <1>2
<1>4. Program = front \o IF Converting THEN <<>> ELSE consumers
  BY DEF Program
<1>5. front \in Seq(S) /\ Len(front) = 4
  BY <1>1
<1> HIDE DEF front, consumers, S, T
<1>6. Len(front) = 4 /\ DOMAIN front = 1 .. 4
  BY <1>5
<1>7. CASE Converting
  <2>1. <<>> \in Seq({}) /\ Len(<<>>) = 0
    OBVIOUS
  <2>2. /\ DOMAIN (front \o <<>>) = 1 .. 4 + 0
        /\ \A i \in DOMAIN front : (front \o <<>>)[i] = front[i]
    BY <1>5, <2>1, Joined
  <2>3. Program = front \o <<>>
    BY <1>4, <1>7
  <2>4. DOMAIN Program = 1 .. 4 + 0
    BY <2>2, <2>3
  <2>5. Program[1] = front[1] /\ Program[2] = front[2] /\ Program[3] = front[3] /\ Program[4] = front[4]
    BY <1>6, <2>2, <2>3
  <2>6. QED
    BY <1>1, <1>7, <2>4, <2>5
<1>8. CASE ~Converting
  <2> DEFINE n == Len(front)
             m == Len(consumers)
  <2>1. /\ DOMAIN (front \o consumers) = 1 .. n + m
        /\ \A i \in DOMAIN front : (front \o consumers)[i] = front[i]
        /\ \A i \in DOMAIN consumers : (front \o consumers)[n + i] = consumers[i]
    <3>1. front \in Seq(S) /\ consumers \in Seq(T)
      BY <1>3, <1>5
    <3>2. QED
      BY <3>1, Joined
  <2>2. n = 4 /\ m = Len(Protocol) /\ DOMAIN consumers = Sessions
    BY <1>2, <1>3, <1>5
  <2>3. Program = front \o consumers
    BY <1>4, <1>8
  <2> HIDE DEF n, m
  <2>4. QED
    BY <1>1, <1>3, <1>6, <1>8, <2>1, <2>2, <2>3
<1>9. QED
  BY <1>7, <1>8

\* The groups of ReleaseOrder.
LEMMA ReleaseGroups ==
  /\ DOMAIN ReleaseOrder = 1 .. Len(Protocol) + 4
  /\ ReleaseOrder[1] = <<App("file")>>
  /\ \A s \in Sessions : ReleaseOrder[1 + s] = ConsumerRelease(s)
  /\ ReleaseOrder[Len(Protocol) + 2] = Reverse(LogParts)
  /\ ReleaseOrder[Len(Protocol) + 3] = <<App("queue")>>
  /\ ReleaseOrder[Len(Protocol) + 4] = Reverse(ContextParts)
<1> DEFINE file == <<<<App("file")>>>>
           consumers == [s \in Sessions |-> ConsumerRelease(s)]
           back == <<Reverse(LogParts), <<App("queue")>>, Reverse(ContextParts)>>
           front == file \o consumers
           n == Len(Protocol)
           R == {<<App("file")>>}
           S == {ConsumerRelease(s) : s \in Sessions}
           T == {Reverse(LogParts), <<App("queue")>>, Reverse(ContextParts)}
<1>1. n \in Nat /\ Sessions = 1 .. n
  BY LifecycleAssumption DEF Sessions
<1>2. consumers \in Seq(S) /\ Len(consumers) = n /\ \A s \in Sessions : consumers[s] = ConsumerRelease(s)
  BY <1>1
<1>3. file \in Seq(R) /\ Len(file) = 1 /\ file[1] = <<App("file")>>
  OBVIOUS
<1>4. /\ back \in Seq(T) /\ Len(back) = 3
      /\ back[1] = Reverse(LogParts) /\ back[2] = <<App("queue")>> /\ back[3] = Reverse(ContextParts)
  OBVIOUS
<1>5. ReleaseOrder = front \o back
  BY DEF ReleaseOrder
<1> HIDE DEF file, consumers, back, front, n, R, S, T
<1>6. file \in Seq(R) /\ consumers \in Seq(S)
  BY <1>2, <1>3
<1>7. /\ front \in Seq(R \cup S)
      /\ Len(front) = Len(file) + Len(consumers)
      /\ \A i \in DOMAIN file : front[i] = file[i]
      /\ \A i \in DOMAIN consumers : front[Len(file) + i] = consumers[i]
  BY <1>6, Joined DEF front
<1>8. front \in Seq(R \cup S) /\ back \in Seq(T)
  BY <1>4, <1>7
<1>9. /\ DOMAIN ReleaseOrder = 1 .. Len(front) + Len(back)
      /\ \A i \in DOMAIN front : ReleaseOrder[i] = front[i]
      /\ \A i \in DOMAIN back : ReleaseOrder[Len(front) + i] = back[i]
  BY <1>5, <1>8, Joined
<1>10. /\ Len(front) = 1 + n /\ DOMAIN front = 1 .. 1 + n
       /\ DOMAIN file = 1 .. 1 /\ DOMAIN consumers = Sessions
       /\ Len(back) = 3 /\ DOMAIN back = 1 .. 3
  BY <1>1, <1>2, <1>3, <1>4, <1>7
<1>11. DOMAIN ReleaseOrder = 1 .. n + 4
  BY <1>1, <1>9, <1>10
<1>12. /\ ReleaseOrder[1] = <<App("file")>>
       /\ \A s \in Sessions : ReleaseOrder[1 + s] = ConsumerRelease(s)
  <2>1. 1 \in DOMAIN file /\ 1 \in DOMAIN front
    BY <1>1, <1>10
  <2>2. ReleaseOrder[1] = <<App("file")>>
    BY <1>3, <1>7, <1>9, <2>1
  <2>3. ASSUME NEW s \in Sessions PROVE ReleaseOrder[1 + s] = ConsumerRelease(s)
    <3>1. s \in DOMAIN consumers /\ Len(file) + s = 1 + s /\ 1 + s \in DOMAIN front
      BY <1>1, <1>3, <1>10
    <3>2. front[1 + s] = consumers[s]
      BY <1>7, <3>1
    <3>3. QED
      BY <1>2, <1>9, <3>1, <3>2
  <2>4. QED
    BY <2>2, <2>3
<1>13. /\ ReleaseOrder[n + 2] = Reverse(LogParts)
       /\ ReleaseOrder[n + 3] = <<App("queue")>>
       /\ ReleaseOrder[n + 4] = Reverse(ContextParts)
  <2>1. 1 \in DOMAIN back /\ 2 \in DOMAIN back /\ 3 \in DOMAIN back
    BY <1>10
  <2>2. Len(front) + 1 = n + 2 /\ Len(front) + 2 = n + 3 /\ Len(front) + 3 = n + 4
    BY <1>1, <1>10
  <2>3. QED
    BY <1>4, <1>9, <2>1, <2>2
<1>14. QED
  BY <1>11, <1>12, <1>13 DEF n

\* The parts of a consumer and the way back.
LEMMA ConsumerGroups ==
  ASSUME NEW s \in Sessions
  PROVE  LET c == ConsumerParts(s)
             d == ConsumerRelease(s)
         IN  /\ DOMAIN c = 1 .. (IF Protocol[s] = "RSSL" THEN 5 ELSE 4) /\ DOMAIN d = DOMAIN c
             /\ c[1] = Of("consumer", s) /\ c[2] = Of("session", s)
             /\ c[3] = Of("subscriber", s) /\ c[4] = Of("errors", s)
             /\ Protocol[s] = "RSSL" =>
                  /\ c[5] = Of("login", s)
                  /\ d[1] = c[5] /\ d[2] = c[4] /\ d[3] = c[3] /\ d[4] = c[2] /\ d[5] = c[1]
             /\ Protocol[s] # "RSSL" => d[1] = c[4] /\ d[2] = c[3] /\ d[3] = c[2] /\ d[4] = c[1]
<1>1. CASE Protocol[s] = "RSSL"
  <2> DEFINE front == <<Of("consumer", s), Of("session", s), Of("subscriber", s), Of("errors", s)>>
             back == <<Of("login", s)>>
             S == {front[1], front[2], front[3], front[4]}
             T == {back[1]}
             c == ConsumerParts(s)
  <2>1. /\ front[1] = Of("consumer", s) /\ front[2] = Of("session", s)
        /\ front[3] = Of("subscriber", s) /\ front[4] = Of("errors", s)
        /\ back[1] = Of("login", s)
        /\ front \in Seq(S) /\ Len(front) = 4 /\ back \in Seq(T) /\ Len(back) = 1
    OBVIOUS
  <2>2. c = front \o back
    BY <1>1 DEF ConsumerParts
  <2> HIDE DEF front, back, S, T, c
  <2>3. front \in Seq(S) /\ back \in Seq(T)
    BY <2>1
  <2>4. /\ Len(c) = Len(front) + Len(back)
        /\ DOMAIN c = 1 .. Len(front) + Len(back)
        /\ \A i \in DOMAIN front : c[i] = front[i]
        /\ \A i \in DOMAIN back : c[Len(front) + i] = back[i]
    BY <2>2, <2>3, Joined
  <2>5. /\ Len(c) = 5 /\ DOMAIN c = 1 .. 5
        /\ c[1] = front[1] /\ c[2] = front[2] /\ c[3] = front[3] /\ c[4] = front[4]
    BY <2>1, <2>4
  <2>6. c[5] = back[1]
    <3>1. 1 \in DOMAIN back /\ Len(front) + 1 = 5
      BY <2>1
    <3>2. QED
      BY <2>4, <3>1
  <2>7. ConsumerRelease(s) = [i \in 1 .. 5 |-> c[5 - i + 1]]
    BY <2>5 DEF ConsumerRelease, Reverse, c
  <2>8. QED
    BY <1>1, <2>1, <2>5, <2>6, <2>7 DEF c
<1>2. CASE Protocol[s] # "RSSL"
  <2>1. ConsumerParts(s) = <<Of("consumer", s), Of("session", s), Of("subscriber", s), Of("errors", s)>>
    BY <1>2 DEF ConsumerParts
  <2>2. QED
    BY <1>2, <2>1 DEF ConsumerRelease, Reverse
<1>3. QED
  BY <1>1, <1>2

\* The groups of torikuru_t itself and the way back.
LEMMA OwnGroups ==
  /\ DOMAIN Reverse(LogParts) = 1 .. 4
  /\ Reverse(LogParts)[1] = App("logclient") /\ Reverse(LogParts)[2] = App("monitor")
  /\ Reverse(LogParts)[3] = App("logger") /\ Reverse(LogParts)[4] = App("log")
  /\ DOMAIN Reverse(ContextParts) = 1 .. 3
  /\ Reverse(ContextParts)[1] = App("config") /\ Reverse(ContextParts)[2] = App("context")
  /\ Reverse(ContextParts)[3] = App("rfa")
<1>1. Len(LogParts) = 4 /\ Len(ContextParts) = 3
  BY DEF LogParts, ContextParts
<1>2. QED
  BY <1>1 DEF LogParts, ContextParts, Reverse

\* A place, taken apart.
LEMMA PlaceIsPair ==
  ASSUME NEW order, NEW p
  PROVE  p \in Places(order) <=> p = <<p[1], p[2]>> /\ p[1] \in DOMAIN order /\ p[2] \in DOMAIN order[p[1]]
BY DEF Places

\* The parts of a session and what they are made of.
LEMMA ConsumerResource ==
  ASSUME NEW kind \in ConsumerKinds, NEW s \in Sessions
  PROVE  Of(kind, s) \in Resources /\ Of(kind, s).kind = kind /\ Of(kind, s).owner = s
BY DEF Of, Resources, ConsumerKinds

\* Init asks for a part at its place only.
LEMMA AskedInPlace ==
  ASSUME NEW p \in Places(Program)
  PROVE  PartOf(At(Program, p)) /\ p = ProgramPlace(At(Program, p))
<1> DEFINE b == p[1]
           i == p[2]
           r == Program[b][i]
<1>1. p = <<b, i>> /\ b \in DOMAIN Program /\ i \in DOMAIN Program[b]
  BY PlaceIsPair
<1>2. SUFFICES PartOf(r) /\ b = ProgramGroup(r) /\ i = ProgramIndex[r.kind]
  BY <1>1 DEF At, ProgramPlace
<1>3. Len(Protocol) \in Nat /\ Sessions = 1 .. Len(Protocol)
  BY LifecycleAssumption DEF Sessions
<1>4. \/ b \in {1, 2, 3, 4}
      \/ ~Converting /\ b - 4 \in Sessions /\ b = 4 + (b - 4)
  BY <1>1, <1>3, ProgramGroups
<1>5. CASE b = 1
  <2>1. i \in 1 .. 3 /\ r = ContextParts[i]
    BY <1>1, <1>5, ProgramGroups DEF ContextParts
  <2>2. QED
    BY <1>5, <2>1 DEF ContextParts, PartOf, Resources, App, Of, ProgramGroup, ProgramIndex,
                      ContextKinds, LogKinds, ConsumerKinds
<1>6. CASE b = 2
  <2>1. i = 1 /\ r = App("queue")
    BY <1>1, <1>6, ProgramGroups
  <2>2. QED
    BY <1>6, <2>1 DEF PartOf, Resources, App, Of, ProgramGroup, ProgramIndex,
                      ContextKinds, LogKinds, ConsumerKinds
<1>7. CASE b = 3
  <2>1. i \in 1 .. 4 /\ r = LogParts[i]
    BY <1>1, <1>7, ProgramGroups DEF LogParts
  <2>2. QED
    BY <1>7, <2>1 DEF LogParts, PartOf, Resources, App, Of, ProgramGroup, ProgramIndex,
                      ContextKinds, LogKinds, ConsumerKinds
<1>8. CASE b = 4
  <2>1. i = 1 /\ r = App("file") /\ HasOutput /\ ~Converting
    BY <1>1, <1>8, ProgramGroups DEF OutputParts
  <2>2. QED
    BY <1>8, <2>1 DEF PartOf, Resources, App, Of, ProgramGroup, ProgramIndex,
                      ContextKinds, LogKinds, ConsumerKinds
<1>9. CASE ~Converting /\ b - 4 \in Sessions /\ b = 4 + (b - 4)
  <2> DEFINE s == b - 4
  <2>1. r = ConsumerParts(s)[i] /\ i \in DOMAIN ConsumerParts(s)
    BY <1>1, <1>9, ProgramGroups
  <2>2. \/ i = 1 /\ r = Of("consumer", s)
        \/ i = 2 /\ r = Of("session", s)
        \/ i = 3 /\ r = Of("subscriber", s)
        \/ i = 4 /\ r = Of("errors", s)
        \/ i = 5 /\ r = Of("login", s) /\ Protocol[s] = "RSSL"
    <3>1. i \in 1 .. 4 \/ (i = 5 /\ Protocol[s] = "RSSL")
      BY <1>9, <2>1, ConsumerGroups
    <3>2. QED
      BY <1>9, <2>1, <3>1, ConsumerGroups
  <2>3. /\ r \in Resources /\ r.owner = s /\ r.kind \in ConsumerKinds /\ i = ProgramIndex[r.kind]
        /\ r.kind = "login" => Protocol[s] = "RSSL"
    BY <1>9, <2>2, ConsumerResource DEF ConsumerKinds, ProgramIndex
  <2>4. r.kind # "file" /\ ProgramGroup(r) = 4 + s
    BY <2>3 DEF ProgramGroup, ContextKinds, LogKinds, ConsumerKinds
  <2>5. QED
    BY <1>9, <2>3, <2>4 DEF PartOf
<1>10. QED
  BY <1>4, <1>5, <1>6, <1>7, <1>8, <1>9

\* What a part may be.
LEMMA Kinds ==
  ASSUME NEW r, PartOf(r)
  PROVE  \/ r \in {App("rfa"), App("context"), App("config"), App("queue"),
                   App("log"), App("logger"), App("monitor"), App("logclient")}
         \/ r = App("file") /\ HasOutput /\ ~Converting
         \/ /\ r.owner \in Sessions /\ ~Converting
            /\ \/ r.kind \in {"consumer", "session", "subscriber", "errors"}
               \/ r.kind = "login" /\ Protocol[r.owner] = "RSSL"
            /\ r = Of(r.kind, r.owner)
BY DEF PartOf, Resources, App, Of, ConsumerKinds

\* Init asks for each of its parts.
LEMMA AllAsked ==
  ASSUME NEW r, PartOf(r)
  PROVE  ProgramPlace(r) \in Places(Program) /\ At(Program, ProgramPlace(r)) = r
<1> DEFINE b == ProgramGroup(r)
           i == ProgramIndex[r.kind]
<1>1. SUFFICES b \in DOMAIN Program /\ i \in DOMAIN Program[b] /\ Program[b][i] = r
  BY PlaceIsPair DEF ProgramPlace, At
<1>2. Len(Protocol) \in Nat /\ Sessions = 1 .. Len(Protocol)
  BY LifecycleAssumption DEF Sessions
<1>3. {1, 2, 3, 4} \subseteq DOMAIN Program
  BY <1>2, ProgramGroups
<1>4. CASE r \in {App("rfa"), App("context"), App("config")}
  <2>1. b = 1 /\ i \in 1 .. 3 /\ r = ContextParts[i]
    BY <1>4 DEF App, Of, ProgramGroup, ProgramIndex, ContextKinds, LogKinds, ConsumerKinds, ContextParts
  <2>2. QED
    BY <1>3, <2>1, ProgramGroups DEF ContextParts
<1>5. CASE r = App("queue")
  <2>1. b = 2 /\ i = 1
    BY <1>5 DEF App, Of, ProgramGroup, ProgramIndex, ContextKinds, LogKinds, ConsumerKinds
  <2>2. QED
    BY <1>3, <1>5, <2>1, ProgramGroups
<1>6. CASE r \in {App("log"), App("logger"), App("monitor"), App("logclient")}
  <2>1. b = 3 /\ i \in 1 .. 4 /\ r = LogParts[i]
    BY <1>6 DEF App, Of, ProgramGroup, ProgramIndex, ContextKinds, LogKinds, ConsumerKinds, LogParts
  <2>2. QED
    BY <1>3, <2>1, ProgramGroups DEF LogParts
<1>7. CASE r = App("file") /\ HasOutput /\ ~Converting
  <2>1. b = 4 /\ i = 1
    BY <1>7 DEF App, Of, ProgramGroup, ProgramIndex, ContextKinds, LogKinds, ConsumerKinds
  <2>2. QED
    BY <1>3, <1>7, <2>1, ProgramGroups DEF OutputParts
<1>8. CASE /\ r.owner \in Sessions /\ ~Converting
           /\ \/ r.kind \in {"consumer", "session", "subscriber", "errors"}
              \/ r.kind = "login" /\ Protocol[r.owner] = "RSSL"
           /\ r = Of(r.kind, r.owner)
  <2> DEFINE s == r.owner
  <2>1. b = 4 + s /\ b \in DOMAIN Program /\ Program[b] = ConsumerParts(s)
    BY <1>2, <1>8, ProgramGroups DEF ProgramGroup, ContextKinds, LogKinds, ConsumerKinds
  <2>2. i \in DOMAIN ConsumerParts(s) /\ ConsumerParts(s)[i] = r
    <3>1. CASE r.kind = "login" /\ Protocol[s] = "RSSL"
      BY <1>8, <3>1, ConsumerGroups DEF ProgramIndex
    <3>2. CASE r.kind \in {"consumer", "session", "subscriber", "errors"}
      <4>1. i \in 1 .. 4 /\ \/ i = 1 /\ r.kind = "consumer"
                            \/ i = 2 /\ r.kind = "session"
                            \/ i = 3 /\ r.kind = "subscriber"
                            \/ i = 4 /\ r.kind = "errors"
        BY <3>2 DEF ProgramIndex
      <4>2. i \in DOMAIN ConsumerParts(s)
        BY <1>8, <4>1, ConsumerGroups
      <4>3. QED
        BY <1>8, <4>1, <4>2, ConsumerGroups
    <3>3. QED
      BY <1>8, <3>1, <3>2
  <2>3. QED
    BY <2>1, <2>2
<1>9. QED
  BY <1>4, <1>5, <1>6, <1>7, <1>8, Kinds

\* Clear has each of them at its place, ...
LEMMA AllReleased ==
  ASSUME NEW r, PartOf(r)
  PROVE  ReleasePlace(r) \in Places(ReleaseOrder) /\ At(ReleaseOrder, ReleasePlace(r)) = r
<1> DEFINE b == ReleaseGroup(r)
           i == ReleaseIndex(r)
           n == Len(Protocol)
<1>1. SUFFICES b \in DOMAIN ReleaseOrder /\ i \in DOMAIN ReleaseOrder[b] /\ ReleaseOrder[b][i] = r
  BY PlaceIsPair DEF ReleasePlace, At
<1>2. n \in Nat /\ Sessions = 1 .. n
  BY LifecycleAssumption DEF Sessions
<1>3. 1 \in DOMAIN ReleaseOrder /\ {n + 2, n + 3, n + 4} \subseteq DOMAIN ReleaseOrder
  BY <1>2, ReleaseGroups
<1>4. CASE r \in {App("rfa"), App("context"), App("config")}
  <2>1. b = n + 4 /\ i \in 1 .. 3 /\ r = Reverse(ContextParts)[i]
    BY <1>4, OwnGroups
    DEF App, Of, ReleaseGroup, ReleaseIndex, ContextKinds, LogKinds, ConsumerKinds
  <2>2. QED
    BY <1>3, <2>1, ReleaseGroups, OwnGroups
<1>5. CASE r = App("queue")
  <2>1. b = n + 3 /\ i = 1
    BY <1>5 DEF App, Of, ReleaseGroup, ReleaseIndex, ContextKinds, LogKinds, ConsumerKinds
  <2>2. QED
    BY <1>3, <1>5, <2>1, ReleaseGroups
<1>6. CASE r \in {App("log"), App("logger"), App("monitor"), App("logclient")}
  <2>1. b = n + 2 /\ i \in 1 .. 4 /\ r = Reverse(LogParts)[i]
    BY <1>6, OwnGroups
    DEF App, Of, ReleaseGroup, ReleaseIndex, ContextKinds, LogKinds, ConsumerKinds
  <2>2. QED
    BY <1>3, <2>1, ReleaseGroups, OwnGroups
<1>7. CASE r = App("file")
  <2>1. b = 1 /\ i = 1
    BY <1>7 DEF App, Of, ReleaseGroup, ReleaseIndex, ContextKinds, LogKinds, ConsumerKinds
  <2>2. QED
    BY <1>3, <1>7, <2>1, ReleaseGroups
<1>8. CASE /\ r.owner \in Sessions
           /\ \/ r.kind \in {"consumer", "session", "subscriber", "errors"}
              \/ r.kind = "login" /\ Protocol[r.owner] = "RSSL"
           /\ r = Of(r.kind, r.owner)
  <2> DEFINE s == r.owner
             d == ConsumerRelease(s)
  <2>1. b = 1 + s /\ b \in DOMAIN ReleaseOrder /\ ReleaseOrder[b] = d
    BY <1>2, <1>8, ReleaseGroups DEF ReleaseGroup, ContextKinds, LogKinds, ConsumerKinds
  <2>2. i = (IF Protocol[s] = "RSSL" THEN 6 ELSE 5) - ProgramIndex[r.kind]
    BY <1>8 DEF ReleaseIndex, ConsumerKinds
  <2>3. i \in DOMAIN d /\ d[i] = r
    <3>1. CASE Protocol[s] = "RSSL"
      <4>1. /\ DOMAIN d = 1 .. 5
            /\ d[1] = Of("login", s) /\ d[2] = Of("errors", s) /\ d[3] = Of("subscriber", s)
            /\ d[4] = Of("session", s) /\ d[5] = Of("consumer", s)
        BY <1>8, <3>1, ConsumerGroups
      <4>2. \/ i = 1 /\ r = Of("login", s)
            \/ i = 2 /\ r = Of("errors", s)
            \/ i = 3 /\ r = Of("subscriber", s)
            \/ i = 4 /\ r = Of("session", s)
            \/ i = 5 /\ r = Of("consumer", s)
        BY <1>8, <2>2, <3>1 DEF ProgramIndex
      <4>3. QED
        BY <4>1, <4>2
    <3>2. CASE Protocol[s] # "RSSL"
      <4>1. /\ DOMAIN d = 1 .. 4
            /\ d[1] = Of("errors", s) /\ d[2] = Of("subscriber", s)
            /\ d[3] = Of("session", s) /\ d[4] = Of("consumer", s)
        BY <1>8, <3>2, ConsumerGroups
      <4>2. \/ i = 1 /\ r = Of("errors", s)
            \/ i = 2 /\ r = Of("subscriber", s)
            \/ i = 3 /\ r = Of("session", s)
            \/ i = 4 /\ r = Of("consumer", s)
        BY <1>8, <2>2, <3>2 DEF ProgramIndex
      <4>3. QED
        BY <4>1, <4>2
    <3>3. QED
      BY <3>1, <3>2
  <2>4. QED
    BY <2>1, <2>3
<1>9. QED
  BY <1>4, <1>5, <1>6, <1>7, <1>8, Kinds

\* ... and nowhere else.
LEMMA ReleasedInPlace ==
  ASSUME NEW p \in Places(ReleaseOrder)
  PROVE  p = ReleasePlace(At(ReleaseOrder, p))
<1> DEFINE b == p[1]
           i == p[2]
           n == Len(Protocol)
           r == ReleaseOrder[b][i]
<1>1. p = <<b, i>> /\ b \in DOMAIN ReleaseOrder /\ i \in DOMAIN ReleaseOrder[b]
  BY PlaceIsPair
<1>2. SUFFICES b = ReleaseGroup(r) /\ i = ReleaseIndex(r)
  BY <1>1 DEF At, ReleasePlace
<1>3. n \in Nat /\ Sessions = 1 .. n
  BY LifecycleAssumption DEF Sessions
<1>4. \/ b = 1 \/ b = n + 2 \/ b = n + 3 \/ b = n + 4
      \/ b - 1 \in Sessions /\ b = 1 + (b - 1)
  BY <1>1, <1>3, ReleaseGroups
<1>5. CASE b = 1
  <2>1. i = 1 /\ r = App("file")
    BY <1>1, <1>5, ReleaseGroups
  <2>2. QED
    BY <1>5, <2>1 DEF App, Of, ReleaseGroup, ReleaseIndex, ContextKinds, LogKinds, ConsumerKinds
<1>6. CASE b = n + 2
  <2>1. \/ i = 1 /\ r = App("logclient")
        \/ i = 2 /\ r = App("monitor")
        \/ i = 3 /\ r = App("logger")
        \/ i = 4 /\ r = App("log")
    BY <1>1, <1>6, ReleaseGroups, OwnGroups
  <2>2. QED
    BY <1>6, <2>1 DEF App, Of, ReleaseGroup, ReleaseIndex, ContextKinds, LogKinds, ConsumerKinds
<1>7. CASE b = n + 3
  <2>1. i = 1 /\ r = App("queue")
    BY <1>1, <1>7, ReleaseGroups
  <2>2. QED
    BY <1>7, <2>1 DEF App, Of, ReleaseGroup, ReleaseIndex, ContextKinds, LogKinds, ConsumerKinds
<1>8. CASE b = n + 4
  <2>1. \/ i = 1 /\ r = App("config")
        \/ i = 2 /\ r = App("context")
        \/ i = 3 /\ r = App("rfa")
    BY <1>1, <1>8, ReleaseGroups, OwnGroups
  <2>2. QED
    BY <1>8, <2>1 DEF App, Of, ReleaseGroup, ReleaseIndex, ContextKinds, LogKinds, ConsumerKinds
<1>9. CASE b - 1 \in Sessions /\ b = 1 + (b - 1)
  <2> DEFINE s == b - 1
             d == ConsumerRelease(s)
  <2>1. r = d[i] /\ i \in DOMAIN d
    BY <1>1, <1>9, ReleaseGroups
  <2>2. /\ \E kind \in ConsumerKinds : r = Of(kind, s)
        /\ i = (IF Protocol[s] = "RSSL" THEN 6 ELSE 5) - ProgramIndex[r.kind]
    <3>1. CASE Protocol[s] = "RSSL"
      <4>1. \/ i = 1 /\ r = Of("login", s)
            \/ i = 2 /\ r = Of("errors", s)
            \/ i = 3 /\ r = Of("subscriber", s)
            \/ i = 4 /\ r = Of("session", s)
            \/ i = 5 /\ r = Of("consumer", s)
        BY <1>9, <2>1, <3>1, ConsumerGroups
      <4>2. QED
        BY <3>1, <4>1 DEF Of, ConsumerKinds, ProgramIndex
    <3>2. CASE Protocol[s] # "RSSL"
      <4>1. \/ i = 1 /\ r = Of("errors", s)
            \/ i = 2 /\ r = Of("subscriber", s)
            \/ i = 3 /\ r = Of("session", s)
            \/ i = 4 /\ r = Of("consumer", s)
        BY <1>9, <2>1, <3>2, ConsumerGroups
      <4>2. QED
        BY <3>2, <4>1 DEF Of, ConsumerKinds, ProgramIndex
    <3>3. QED
      BY <3>1, <3>2
  <2>3. r.owner = s /\ r.kind \in ConsumerKinds
    BY <2>2 DEF Of
  <2>4. b = ReleaseGroup(r)
    BY <1>3, <1>9, <2>3 DEF ReleaseGroup, ContextKinds, LogKinds, ConsumerKinds
  <2>5. i = ReleaseIndex(r)
    BY <2>2, <2>3 DEF ReleaseIndex, ConsumerKinds
  <2>6. QED
    BY <2>4, <2>5
<1>10. QED
  BY <1>4, <1>5, <1>6, <1>7, <1>8, <1>9

-----------------------------------------------------------------------------
\* The two orders fit.

\* The parts are what Init asks for.
LEMMA PartsAsked == \A r : r \in Parts <=> PartOf(r)
BY AskedInPlace, AllAsked DEF Parts, At

\* What a part needs is asked for before it and released behind it.
LEMMA OrdersFit ==
  ASSUME NEW r, PartOf(r), NEW x \in Needs(r)
  PROVE  /\ PartOf(x)
         /\ Before(ProgramPlace(x), ProgramPlace(r))
         /\ Before(ReleasePlace(r), ReleasePlace(x))
<1>1. Len(Protocol) \in Nat /\ Sessions = 1 .. Len(Protocol)
  BY LifecycleAssumption DEF Sessions
<1>2. CASE r \in {App("rfa"), App("context"), App("config")}
  BY <1>1, <1>2 DEF Needs, PartOf, Resources, App, Of, Before, ProgramPlace, ReleasePlace, ProgramGroup,
                    ReleaseGroup, ProgramIndex, ReleaseIndex, ContextKinds, LogKinds, ConsumerKinds
<1>3. CASE r = App("queue")
  BY <1>1, <1>3 DEF Needs, PartOf, Resources, App, Of, Before, ProgramPlace, ReleasePlace, ProgramGroup,
                    ReleaseGroup, ProgramIndex, ReleaseIndex, ContextKinds, LogKinds, ConsumerKinds
<1>4. CASE r \in {App("log"), App("logger"), App("monitor"), App("logclient")}
  BY <1>1, <1>4 DEF Needs, PartOf, Resources, App, Of, Before, ProgramPlace, ReleasePlace, ProgramGroup,
                    ReleaseGroup, ProgramIndex, ReleaseIndex, ContextKinds, LogKinds, ConsumerKinds
<1>5. CASE r = App("file")
  BY <1>5 DEF Needs, App, Of
<1>6. CASE /\ r.owner \in Sessions /\ ~Converting
           /\ \/ r.kind \in {"consumer", "session", "subscriber", "errors"}
              \/ r.kind = "login" /\ Protocol[r.owner] = "RSSL"
           /\ r = Of(r.kind, r.owner)
  BY <1>1, <1>6 DEF Needs, PartOf, Resources, App, Of, Before, ProgramPlace, ReleasePlace, ProgramGroup,
                    ReleaseGroup, ProgramIndex, ReleaseIndex, ContextKinds, LogKinds, ConsumerKinds
<1>7. QED
  BY <1>2, <1>3, <1>4, <1>5, <1>6, Kinds

\* So is what is shared behind those that share it.
LEMMA SharersFit ==
  ASSUME NEW r, PartOf(r), NEW alive, NEW x \in SharedBy(r, alive), PartOf(x)
  PROVE  Before(ReleasePlace(x), ReleasePlace(r))
<1>1. Len(Protocol) \in Nat /\ Sessions = 1 .. Len(Protocol)
  BY LifecycleAssumption DEF Sessions
<1>2. \/ r.kind = "queue" /\ x.kind \in {"log", "consumer"}
      \/ r.kind \in ContextKinds /\ x.kind = "consumer"
  <2>1. Range(ContextParts) = {App("rfa"), App("context"), App("config")}
    BY DEF ContextParts, Range
  <2>2. QED
    BY <2>1 DEF SharedBy, App, Of, ContextKinds
<1>3. x.kind = "consumer" => x.owner \in Sessions
  BY DEF PartOf, Resources
<1>4. QED
  BY <1>1, <1>2, <1>3 DEF Before, ReleasePlace, ReleaseGroup, ContextKinds, LogKinds, ConsumerKinds

\* Places are numeric in both.
LEMMA OrdersNumeric == Numeric(ReleaseOrder) /\ Numeric(Program)
<1>1. Len(Protocol) \in Nat /\ Sessions = 1 .. Len(Protocol)
  BY LifecycleAssumption DEF Sessions
<1>2. DOMAIN ReleaseOrder \subseteq Nat /\ DOMAIN Program \subseteq Nat
  BY <1>1, ReleaseGroups, ProgramGroups
<1>3. ASSUME NEW b \in DOMAIN ReleaseOrder PROVE DOMAIN ReleaseOrder[b] \subseteq Nat
  <2>1. \/ b = 1 \/ b = Len(Protocol) + 2 \/ b = Len(Protocol) + 3 \/ b = Len(Protocol) + 4
        \/ b - 1 \in Sessions /\ b = 1 + (b - 1)
    BY <1>1, ReleaseGroups
  <2>2. CASE b - 1 \in Sessions /\ b = 1 + (b - 1)
    BY <2>2, ReleaseGroups, ConsumerGroups
  <2>3. DOMAIN <<App("file")>> = 1 .. 1 /\ DOMAIN <<App("queue")>> = 1 .. 1
    OBVIOUS
  <2>4. QED
    BY <2>1, <2>2, <2>3, ReleaseGroups, OwnGroups
<1>4. ASSUME NEW b \in DOMAIN Program PROVE DOMAIN Program[b] \subseteq Nat
  <2>1. \/ b \in {1, 2, 3, 4}
        \/ ~Converting /\ b - 4 \in Sessions /\ b = 4 + (b - 4)
    BY <1>1, ProgramGroups
  <2>2. CASE ~Converting /\ b - 4 \in Sessions /\ b = 4 + (b - 4)
    BY <2>2, ProgramGroups, ConsumerGroups
  <2>3. CASE b \in {1, 2, 3, 4}
    <3>1. /\ DOMAIN ContextParts \subseteq Nat /\ DOMAIN LogParts \subseteq Nat
          /\ DOMAIN OutputParts \subseteq Nat /\ DOMAIN <<App("queue")>> \subseteq Nat
      BY DEF ContextParts, LogParts, OutputParts
    <3>2. QED
      BY <2>3, <3>1, ProgramGroups
  <2>4. QED
    BY <2>1, <2>2, <2>3
<1>5. QED
  BY <1>2, <1>3, <1>4 DEF Numeric

\* What is wanted next has all it needs.
LEMMA WantedIsReady ==
  ASSUME NEW r \in Wanted
  PROVE  PartOf(r) /\ r \notin held /\ Needs(r) \subseteq held
<1>1. r \in Parts \ held
  BY FirstIsFirst DEF Wanted
<1>2. PICK p \in Places(Program) :
        At(Program, p) = r /\ \A q \in Places(Program) : At(Program, q) \in Parts \ held => ~Before(q, p)
  BY FirstIsFirst DEF Wanted
<1>3. PartOf(r) /\ p = ProgramPlace(r)
  BY <1>2, AskedInPlace
<1>4. ASSUME NEW x \in Needs(r), x \notin held PROVE FALSE
  <2>1. PartOf(x) /\ Before(ProgramPlace(x), p)
    BY <1>3, OrdersFit
  <2>2. ProgramPlace(x) \in Places(Program) /\ At(Program, ProgramPlace(x)) = x /\ x \in Parts
    BY <2>1, AllAsked, PartsAsked
  <2>3. QED
    BY <1>2, <1>4, <2>1, <2>2
<1>5. QED
  BY <1>1, <1>3, <1>4

\* Nobody of scope goes after whom it would have to go before.
LEMMA ReleasedInOrder ==
  ASSUME NEW scope, \A y \in scope : PartOf(y), NEW r \in First(ReleaseOrder, scope), NEW x \in scope
  PROVE  r \in scope /\ ~Before(ReleasePlace(x), ReleasePlace(r))
<1>1. PICK p \in Places(ReleaseOrder) :
        /\ At(ReleaseOrder, p) = r
        /\ \A q \in Places(ReleaseOrder) : At(ReleaseOrder, q) \in scope => ~Before(q, p)
  BY FirstIsFirst
<1>2. p = ReleasePlace(r)
  BY <1>1, ReleasedInPlace
<1>3. ReleasePlace(x) \in Places(ReleaseOrder) /\ At(ReleaseOrder, ReleasePlace(x)) = x
  BY AllReleased
<1>4. QED
  BY <1>1, <1>2, <1>3, FirstIsFirst

\* A scope of which nothing is next to go is empty.
LEMMA NothingLeft ==
  ASSUME NEW scope, \A y \in scope : PartOf(y), First(ReleaseOrder, scope) = {}
  PROVE  scope = {}
<1> SUFFICES ASSUME NEW x \in scope PROVE FALSE
  OBVIOUS
<1>1. ReleasePlace(x) \in Places(ReleaseOrder) /\ At(ReleaseOrder, ReleasePlace(x)) \in scope
  BY AllReleased
<1>2. QED
  BY <1>1, OrdersNumeric, SomebodyFirst

-----------------------------------------------------------------------------
\* The invariant.

LifecycleInvariant ==
  /\ TypeOK
  /\ held \cup hollow \subseteq Parts
  /\ UsersGoFirst
  /\ dropped = {} /\ ~fatal
  /\ pc \in {"destroy", "exited"} => held = {}
  /\ hollow # {} \/ pc = "crashed" => NullResults

\* Before Init acquires anything it holds.
LEMMA InitInvariant == Init => LifecycleInvariant
BY DEF Init, LifecycleInvariant, TypeOK, UsersGoFirst

\* Acquiring a part, or a login that is refused afterwards.
LEMMA Acquired ==
  ASSUME LifecycleInvariant, NEW r \in Wanted, held' = held \cup {r}
  PROVE  held' \subseteq Parts /\ held' \subseteq Resources /\ UsersGoFirst'
<1>1. PartOf(r) /\ Needs(r) \subseteq held
  BY WantedIsReady
<1>2. r \in Parts /\ r \in Resources
  BY <1>1, PartsAsked DEF PartOf
<1>3. QED
  BY <1>1, <1>2 DEF LifecycleInvariant, TypeOK, UsersGoFirst

\* Letting the next of some go that all its users and sharers are among.
LEMMA LetGoStep ==
  ASSUME LifecycleInvariant,
         NEW scope, scope \subseteq held \cup hollow,
         NEW r \in First(ReleaseOrder, scope),
         \A x \in held : r \in Needs(x) \/ x \in SharedBy(r, held) => x \in scope,
         LetGo(r) \/ DeleteNull(r)
  PROVE  LifecycleInvariant'
<1>1. \A y \in held \cup hollow : PartOf(y)
  BY PartsAsked DEF LifecycleInvariant
<1>2. \A y \in scope : PartOf(y)
  BY <1>1
<1>3. \A x \in scope : ~Before(ReleasePlace(x), ReleasePlace(r))
  BY <1>2, ReleasedInOrder
<1>4. r \in scope
  BY <1>2, FirstIsFirst
<1>5. \A x \in held : r \notin Needs(x)
  BY <1>1, <1>3, OrdersFit
<1>6. SharedBy(r, held) = {}
  <2>1. SharedBy(r, held) \subseteq held
    BY DEF SharedBy
  <2>2. QED
    BY <1>1, <1>2, <1>3, <1>4, <2>1, SharersFit
<1>7. CASE LetGo(r)
  <2>0. dropped = {}
    BY DEF LifecycleInvariant
  <2>1. /\ held' = held \ {r} /\ hollow' = hollow \ {r} /\ dropped' = {}
        /\ UNCHANGED <<pc, failed, status>>
    BY <1>6, <1>7, <2>0 DEF LetGo, Without
  <2>1a. ~fatal' /\ fatal' \in BOOLEAN
    BY <1>6, <1>7, Zenon DEF LetGo, LifecycleInvariant
  <2>2. UsersGoFirst'
    BY <1>5, <2>1 DEF UsersGoFirst, LifecycleInvariant
  <2>3. TypeOK'
    BY <2>1, <2>1a DEF TypeOK, LifecycleInvariant
  <2>4. QED
    BY <2>1, <2>1a, <2>2, <2>3 DEF LifecycleInvariant
<1>8. CASE DeleteNull(r)
  BY <1>8 DEF DeleteNull, LifecycleInvariant, TypeOK, UsersGoFirst
<1>9. QED
  BY <1>7, <1>8

\* Every step preserves the invariant.
LEMMA NextInvariant == LifecycleInvariant /\ [Next]_vars => LifecycleInvariant'
<1> SUFFICES ASSUME LifecycleInvariant, [Next]_vars PROVE LifecycleInvariant'
  OBVIOUS
<1>1. CASE Acquire
  <2>1. PICK r \in Wanted : held' = held \cup {r}
    BY <1>1 DEF Acquire
  <2>2. held' \subseteq Parts /\ held' \subseteq Resources /\ UsersGoFirst'
    BY <2>1, Acquired
  <2>3. QED
    BY <1>1, <2>2 DEF Acquire, LifecycleInvariant, TypeOK
<1>2. CASE Refused
  <2>1. PICK r \in Wanted :
          /\ \/ UNCHANGED <<held, hollow>>
             \/ NullResults /\ hollow' = hollow \cup {r} /\ UNCHANGED held
             \/ held' = held \cup {r} /\ UNCHANGED hollow
          /\ failed' = r.owner
    BY <1>2 DEF Refused
  <2>2. r \in Parts /\ r \in Resources /\ r.owner \in {torikuru} \cup Sessions
    BY WantedIsReady, PartsAsked DEF PartOf, Resources
  <2>3. pc' = "unwind" /\ UNCHANGED <<dropped, fatal, status>>
    BY <1>2 DEF Refused
  <2>4. CASE UNCHANGED <<held, hollow>>
    BY <2>1, <2>2, <2>3, <2>4 DEF LifecycleInvariant, TypeOK, UsersGoFirst
  <2>5. CASE NullResults /\ hollow' = hollow \cup {r} /\ UNCHANGED held
    BY <2>1, <2>2, <2>3, <2>5 DEF LifecycleInvariant, TypeOK, UsersGoFirst
  <2>6. CASE held' = held \cup {r} /\ UNCHANGED hollow
    <3>1. held' \subseteq Parts /\ held' \subseteq Resources /\ UsersGoFirst'
      BY <2>6, Acquired
    <3>2. QED
      BY <2>1, <2>2, <2>3, <2>6, <3>1 DEF LifecycleInvariant, TypeOK
  <2>7. QED
    BY <2>1, <2>4, <2>5, <2>6
<1>3. CASE Ready \/ SubscribeFails \/ Finish \/ InitFalse
  BY <1>3 DEF Ready, SubscribeFails, Finish, InitFalse, LifecycleInvariant, TypeOK, UsersGoFirst
<1>4. CASE Unwind
  <2>1. PICK r \in First(ReleaseOrder, Unfinished) : LetGo(r) \/ DeleteNull(r)
    BY <1>4 DEF Unwind, Release
  <2>2. r \in Unfinished /\ PartOf(r)
    BY FirstIsFirst, PartsAsked DEF Unfinished, LifecycleInvariant
  <2>3. r.kind \in ConsumerKinds /\ r.owner = failed
    BY <2>2 DEF Unfinished, PartOf, Resources, ConsumerKinds
  <2>4. ASSUME NEW x \in held, r \in Needs(x) PROVE x \in Unfinished
    <3>1. PartOf(x)
      BY PartsAsked DEF LifecycleInvariant
    <3>2. x.owner = r.owner
      BY <2>3, <2>4, <3>1 DEF Needs, App, Of, PartOf, Resources, ConsumerKinds
    <3>3. QED
      BY <2>2, <2>3, <3>2 DEF Unfinished
  <2>5. SharedBy(r, held) = {}
    <3>1. \A x \in Range(ContextParts) : x.kind \in ContextKinds
      BY DEF ContextParts, Range, App, Of, ContextKinds
    <3>2. QED
      BY <2>3, <3>1 DEF SharedBy, ConsumerKinds, ContextKinds
  <2>6. Unfinished \subseteq held \cup hollow
    BY DEF Unfinished
  <2>7. QED
    BY <2>1, <2>4, <2>5, <2>6, LetGoStep
<1>5. CASE Clear
  <2>1. PICK r \in First(ReleaseOrder, Remaining) : LetGo(r) \/ DeleteNull(r)
    BY <1>5 DEF Clear, Release
  <2>2. Remaining = held \cup hollow
    BY DEF Remaining, LifecycleInvariant
  <2>3. QED
    BY <2>1, <2>2, LetGoStep
<1>6. CASE Return
  <2>1. Remaining = {}
    <3>1. \A y \in Remaining : PartOf(y)
      BY PartsAsked DEF Remaining, LifecycleInvariant
    <3>2. First(ReleaseOrder, Remaining) = {}
      BY <1>6 DEF Return
    <3>3. QED
      BY <3>1, <3>2, NothingLeft
  <2>2. held = {}
    BY <2>1 DEF Remaining, LifecycleInvariant
  <2>3. QED
    BY <1>6, <2>2 DEF Return, LifecycleInvariant, TypeOK, UsersGoFirst
<1>7. CASE UNCHANGED vars
  BY <1>7 DEF vars, LifecycleInvariant, TypeOK, UsersGoFirst
<1>8. QED
  BY <1>1, <1>2, <1>3, <1>4, <1>5, <1>6, <1>7 DEF Next, Running, Ended

-----------------------------------------------------------------------------
\* The theorems.

\* Wherever Init fails, and however many sessions there are, nothing is
\* released while something alive still uses it.
THEOREM UsersReleasedFirst == Spec => []UsersGoFirst
<1>1. LifecycleInvariant => UsersGoFirst
  BY DEF LifecycleInvariant
<1>2. QED
  BY <1>1, InitInvariant, NextInvariant, PTL DEF Spec

\* When Clear is done, all that Init acquired is released: CheckForLeaks finds
\* nothing, at the end of Run or in ~torikuru_t.
THEOREM AllIsReleased == Spec => []NothingLeaks
<1>1. LifecycleInvariant => NothingLeaks
  BY DEF LifecycleInvariant, NothingLeaks
<1>2. QED
  BY <1>1, InitInvariant, NextInvariant, PTL DEF Spec

\* The CHECKs of use_count in Clear never fail.
THEOREM SharersAreGone == Spec => []ChecksHold
<1>1. LifecycleInvariant => ChecksHold
  BY DEF LifecycleInvariant, ChecksHold
<1>2. QED
  BY <1>1, InitInvariant, NextInvariant, PTL DEF Spec

\* The program can only crash over a null result of RFA: while refusals are
\* exceptions, no pointer is left to delete one.
THEOREM CrashNeedsNull ==
  ASSUME ~NullResults
  PROVE  Spec => [](pc # "crashed" /\ hollow = {})
<1>1. LifecycleInvariant => pc # "crashed" /\ hollow = {}
  BY DEF LifecycleInvariant
<1>2. QED
  BY <1>1, InitInvariant, NextInvariant, PTL DEF Spec
=============================================================================
