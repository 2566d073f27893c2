---------------------------- MODULE ObjectProofs ----------------------------
(***************************************************************************)
(* For any number of addresses, used in any order and again: the pointers  *)
(* of the leak tracker's list are inverse to each other along the live     *)
(* objects, so the walks of CheckForLeaks and NumLiveInstances meet each   *)
(* of them once and nothing else.  And however many first callers a        *)
(* singleton has, for either traits and any number of exits and            *)
(* resurrections, one object at most is alive and all callers get it:      *)
(* instance_ is a lock as long as it holds the marker.                     *)
(***************************************************************************)
EXTENDS LeakTracker, FiniteSetTheorems, WellFoundedInduction, TLAPS

\* The nodes of the list, from the root round to the root again.
Node(list, k) == IF k \in 1 .. Len(list) THEN list[k] ELSE root_

\* links leads from each node of the list to the next.
Follows(links, list) ==
  /\ links \in [Nodes -> Nodes]
  /\ \A k \in 0 .. Len(list) : links[Node(list, k)] = Node(list, k + 1)

\* links leads from each node of the list to the one before.
Precedes(links, list) ==
  /\ links \in [Nodes -> Nodes]
  /\ \A k \in 0 .. Len(list) : links[Node(list, k + 1)] = Node(list, k)

\* A list of objects, each at an address of its own.
Distinct(list) ==
  /\ list \in Seq(Addresses)
  /\ \A i, j \in 1 .. Len(list) : list[i] = list[j] => i = j

ListInvariant ==
  /\ Distinct(instances)
  /\ Follows(next_, instances)
  /\ Precedes(previous_, instances)

ListAssumptions == IsFiniteSet(Addresses) /\ root_ \notin Addresses

-----------------------------------------------------------------------------
\* Walks.

\* A set that has 0, and with n also n + 1, has all natural numbers.
LEMMA AllNumbers ==
  ASSUME NEW P, 0 \in P, \A n \in Nat : n \in P => n + 1 \in P
  PROVE  Nat \subseteq P
<1> DEFINE H == Nat \ P
           Before == OpToRel(<, Nat)
<1> SUFFICES ASSUME H # {} PROVE FALSE
  OBVIOUS
<1>1. PICK x \in H : \A y \in H : <<y, x>> \notin Before
  <2>1. IsWellFoundedOn(Before, Nat)
    BY NatLessThanWellFounded
  <2>2. H \subseteq Nat
    OBVIOUS
  <2> HIDE DEF Before, H
  <2>3. QED
    BY <2>1, <2>2, WFMin
<1>2. x \in Nat /\ x \notin P /\ x # 0
  BY <1>1
<1>3. x - 1 \in Nat /\ x - 1 < x /\ (x - 1) + 1 = x
  BY <1>2
<1>4. x - 1 \notin P
  BY <1>2, <1>3
<1>5. <<x - 1, x>> \in Before
  BY <1>2, <1>3 DEF OpToRel
<1>6. QED
  BY <1>1, <1>3, <1>4, <1>5

\* walk is the function that Along is defined by, as far as m steps.
Walks(links, m, walk) ==
  walk = [k \in 0 .. m |->
            [n \in Nodes |-> IF n = root_ \/ k = 0 THEN << >> ELSE <<n>> \o walk[k - 1][links[n]]]]

\* There is one.
LEMMA WalkExists ==
  ASSUME NEW links, NEW m \in Nat
  PROVE  \E walk : Walks(links, m, walk)
<1> DEFINE P == {j \in Nat : \E walk : Walks(links, j, walk)}
           Step(walk, k) ==
             [n \in Nodes |-> IF n = root_ \/ k = 0 THEN << >> ELSE <<n>> \o walk[k - 1][links[n]]]
<1>1. 0 \in P
  <2> DEFINE f == [k \in 0 .. 0 |-> [n \in Nodes |-> << >>]]
  <2>1. f = [k \in 0 .. 0 |-> Step(f, k)]
    OBVIOUS
  <2> HIDE DEF f
  <2>2. QED
    BY <2>1 DEF Walks
<1>2. ASSUME NEW j \in Nat, j \in P PROVE j + 1 \in P
  <2>1. PICK f : Walks(links, j, f)
    BY <1>2
  <2> DEFINE last == Step(f, j + 1)
             g == [k \in 0 .. j + 1 |-> IF k = j + 1 THEN last ELSE f[k]]
  <2>2. ASSUME NEW k \in 0 .. j + 1 PROVE g[k] = Step(g, k)
    <3>1. CASE k = j + 1
      <4>1. (j + 1) - 1 = j /\ j \in 0 .. j + 1 /\ j # j + 1
        OBVIOUS
      <4>2. g[j] = f[j]
        BY <4>1
      <4>3. last = Step(g, j + 1)
        BY <4>1, <4>2
      <4>4. g[k] = last
        BY <3>1
      <4>5. QED
        BY <3>1, <4>3, <4>4
    <3>2. CASE k # j + 1
      <4>1. k \in 0 .. j /\ (k # 0 => k - 1 \in 0 .. j + 1 /\ k - 1 # j + 1)
        BY <3>2
      <4>2. f[k] = Step(f, k)
        BY <2>1, <4>1 DEF Walks
      <4>3. k # 0 => g[k - 1] = f[k - 1]
        BY <4>1
      <4>4. Step(f, k) = Step(g, k)
        BY <4>3
      <4>5. g[k] = f[k]
        BY <3>2
      <4>6. QED
        BY <4>2, <4>4, <4>5
    <3>3. QED
      BY <3>1, <3>2
  <2>3. g = [k \in 0 .. j + 1 |-> g[k]]
    OBVIOUS
  <2> HIDE DEF g, Step
  <2>4. g = [k \in 0 .. j + 1 |-> Step(g, k)]
    BY <2>2, <2>3
  <2>5. Walks(links, j + 1, g)
    BY <2>4 DEF Walks, Step
  <2>6. QED
    BY <2>5
<1> HIDE DEF P
<1>3. m \in P
  BY <1>1, <1>2, AllNumbers
<1>4. QED
  BY <1>3 DEF P

\* Along ends such a walk.
LEMMA AlongWalk ==
  ASSUME NEW links, Cardinality(Nodes) \in Nat
  PROVE  \E walk : /\ Walks(links, Cardinality(Nodes), walk)
                   /\ Along(links) = walk[Cardinality(Nodes)][links[root_]]
<1> DEFINE N == Cardinality(Nodes)
           g == CHOOSE walk : walk =
                  [k \in 0 .. N |->
                    [n \in Nodes |-> IF n = root_ \/ k = 0 THEN << >> ELSE <<n>> \o walk[k - 1][links[n]]]]
<1>1. Walks(links, N, g)
  BY WalkExists DEF Walks
<1>2. Along(links) = g[N][links[root_]]
  BY DEF Along
<1> HIDE DEF g
<1>3. QED
  BY <1>1, <1>2

\* No list is longer than there are nodes.
LEMMA ListFits ==
  ASSUME ListAssumptions, NEW list, Distinct(list)
  PROVE  Cardinality(Nodes) \in Nat /\ Len(list) \in Nat /\ Len(list) <= Cardinality(Nodes)
<1> DEFINE n == Len(list)
           D == 1 .. n
<1>1. n \in Nat
  BY DEF Distinct
<1>2. IsFiniteSet(Nodes) /\ Cardinality(Nodes) \in Nat
  <2>1. IsFiniteSet({root_})
    BY FS_Singleton
  <2>2. IsFiniteSet(Nodes)
    BY <2>1, FS_Union DEF Nodes, ListAssumptions
  <2>3. QED
    BY <2>2, FS_CardinalityType
<1>3. IsFiniteSet(D) /\ Cardinality(D) = n
  <2>1. IsFiniteSet(1 .. n) /\ Cardinality(1 .. n) = IF 1 > n THEN 0 ELSE n - 1 + 1
    BY <1>1, FS_Interval
  <2>2. QED
    BY <1>1, <2>1
<1>4. list \in [D -> Nodes] /\ \A i, j \in D : list[i] = list[j] => i = j
  BY DEF Distinct, Nodes
<1>5. list \in Injection(D, Nodes)
  BY <1>4 DEF Injection, IsInjective
<1> HIDE DEF D
<1>6. Cardinality(D) <= Cardinality(Nodes)
  BY <1>2, <1>3, <1>5, FS_Injection
<1>7. QED
  BY <1>1, <1>2, <1>3, <1>6

\* A walk along links meets the list they follow, and comes back to the root.
LEMMA WalkMeetsList ==
  ASSUME ListAssumptions, NEW list, Distinct(list), NEW links, Follows(links, list)
  PROVE  Along(links) = list
<1> DEFINE n == Len(list)
           N == Cardinality(Nodes)
           Rest(j) == [i \in 1 .. j |-> list[(n - j) + i]]
<1>1. N \in Nat /\ n \in Nat /\ n <= N
  BY ListFits
<1>2. PICK walk : Walks(links, N, walk) /\ Along(links) = walk[N][links[root_]]
  BY <1>1, AlongWalk
<1> HIDE DEF N, n
<1>3. \A k \in 1 .. n : list[k] \in Nodes /\ list[k] # root_ /\ Node(list, k) = list[k]
  BY <1>1 DEF Distinct, ListAssumptions, Nodes, Node, n
<1>4. Node(list, 0) = root_ /\ Node(list, n + 1) = root_ /\ root_ \in Nodes
  BY <1>1 DEF Node, Nodes, n
<1>5. \A k \in 0 .. n : links[Node(list, k)] = Node(list, k + 1)
  BY DEF Follows, n
<1>6. \A k \in 0 .. N : walk[k] =
        [x \in Nodes |-> IF x = root_ \/ k = 0 THEN << >> ELSE <<x>> \o walk[k - 1][links[x]]]
  BY <1>2 DEF Walks
\* What is met behind the last j nodes of the list.
<1> DEFINE P == {j \in Nat : j <= n =>
                   \A k \in j .. N : walk[k][Node(list, (n - j) + 1)] = Rest(j)}
<1>7. 0 \in P
  <2>1. Rest(0) = << >>
    OBVIOUS
  <2>2. \A k \in 0 .. N : walk[k][root_] = << >>
    BY <1>4, <1>6
  <2>3. (n - 0) + 1 = n + 1
    BY <1>1
  <2> HIDE DEF Rest
  <2>4. QED
    BY <1>4, <2>1, <2>2, <2>3
<1>8. ASSUME NEW j \in Nat, j \in P PROVE j + 1 \in P
  <2> SUFFICES ASSUME j + 1 <= n, NEW k \in j + 1 .. N
               PROVE  walk[k][Node(list, (n - (j + 1)) + 1)] = Rest(j + 1)
    OBVIOUS
  <2> DEFINE x == n - j
             tail == Rest(j)
  <2>1. /\ x \in 1 .. n /\ x \in 0 .. n /\ (n - (j + 1)) + 1 = x /\ x + 1 = (n - j) + 1
        /\ k \in 0 .. N /\ k # 0 /\ k - 1 \in j .. N /\ j <= n
    BY <1>1
  <2>2. walk[k - 1][Node(list, x + 1)] = tail
    BY <1>8, <2>1
  <2> HIDE DEF x, tail
  <2>3. links[list[x]] = Node(list, x + 1) /\ list[x] \in Nodes /\ list[x] # root_
    BY <1>3, <1>5, <2>1
  <2>4. walk[k][list[x]] = <<list[x]>> \o walk[k - 1][links[list[x]]]
    BY <1>6, <2>1, <2>3
  <2>5. walk[k][Node(list, x)] = <<list[x]>> \o tail
    BY <1>3, <2>1, <2>2, <2>3, <2>4
  <2>6. <<list[x]>> \o tail = Rest(j + 1)
    <3> DEFINE all == Rest(j + 1)
               first == list[x]
    <3>1. \A i \in 1 .. n : list[i] \in Addresses
      BY DEF Distinct, n
    <3>2. first \in Addresses
      BY <2>1, <3>1
    <3>3. tail \in Seq(Addresses) /\ Len(tail) = j /\ \A i \in 1 .. j : tail[i] = list[x + i]
      <4>1. \A i \in 1 .. j : (n - j) + i = x + i /\ x + i \in 1 .. n
        BY <1>1, <2>1 DEF x
      <4>2. QED
        BY <3>1, <4>1 DEF tail
    <3>4. /\ all \in Seq(Addresses) /\ Len(all) = j + 1
          /\ all[1] = first /\ \A i \in 1 .. j : all[i + 1] = list[x + i]
      <4>1. \A i \in 1 .. j + 1 : (n - (j + 1)) + i \in 1 .. n
        BY <1>1, <2>1 DEF x
      <4>2. all \in Seq(Addresses) /\ Len(all) = j + 1
        BY <3>1, <4>1
      <4>3. (n - (j + 1)) + 1 = x /\ \A i \in 1 .. j : (n - (j + 1)) + (i + 1) = x + i
        BY <1>1 DEF x
      <4>4. all[1] = first /\ \A i \in 1 .. j : all[i + 1] = list[x + i]
        BY <4>3
      <4>5. QED
        BY <4>2, <4>4
    <3> HIDE DEF all, first
    <3>5. /\ <<first>> \o tail \in Seq(Addresses) /\ Len(<<first>> \o tail) = j + 1
          /\ (<<first>> \o tail)[1] = first
          /\ \A i \in 1 .. j : (<<first>> \o tail)[i + 1] = tail[i]
      BY <3>2, <3>3
    <3>6. \A i \in 1 .. j + 1 : (<<first>> \o tail)[i] = all[i]
      <4> SUFFICES ASSUME NEW i \in 1 .. j + 1 PROVE (<<first>> \o tail)[i] = all[i]
        OBVIOUS
      <4>1. i = 1 \/ (i - 1 \in 1 .. j /\ i = (i - 1) + 1)
        OBVIOUS
      <4>2. QED
        BY <3>3, <3>4, <3>5, <4>1
    <3>7. <<first>> \o tail = all
      BY <3>4, <3>5, <3>6
    <3>8. QED
      BY <3>7 DEF all, first
  <2>7. QED
    BY <2>1, <2>5, <2>6
<1> HIDE DEF P
<1>9. n \in P
  BY <1>1, <1>7, <1>8, AllNumbers
<1>10. walk[N][Node(list, 1)] = Rest(n)
  <2>1. (n - n) + 1 = 1 /\ N \in n .. N
    BY <1>1
  <2> HIDE DEF Rest
  <2>2. QED
    BY <1>1, <1>9, <2>1 DEF P
<1>11. Rest(n) = list
  <2>1. \A i \in 1 .. n : (n - n) + i = i
    BY <1>1
  <2>2. list \in Seq(Addresses) /\ n = Len(list)
    BY DEF Distinct, n
  <2>3. QED
    BY <2>1, <2>2
<1>12. links[root_] = Node(list, 1)
  BY <1>1, <1>4, <1>5
<1>13. QED
  BY <1>2, <1>10, <1>11, <1>12

\* The list from its tail: what leads back along it leads forward along that.
LEMMA BackIsForth ==
  ASSUME ListAssumptions, NEW list, Distinct(list), NEW links, Precedes(links, list)
  PROVE  Distinct(Reverse(list)) /\ Follows(links, Reverse(list))
<1> DEFINE n == Len(list)
           back == Reverse(list)
<1>1. n \in Nat /\ list \in Seq(Addresses)
  BY DEF Distinct
<1>2. \A i \in 1 .. n : (n - i) + 1 \in 1 .. n /\ list[(n - i) + 1] \in Addresses
  BY <1>1
<1>3. back = [i \in 1 .. n |-> list[(n - i) + 1]]
  BY DEF Reverse
<1>4. back \in Seq(Addresses) /\ Len(back) = n /\ \A i \in 1 .. n : back[i] = list[(n - i) + 1]
  BY <1>1, <1>2, <1>3
<1> HIDE DEF n, back
<1>5. \A i, j \in 1 .. n : back[i] = back[j] => i = j
  <2> SUFFICES ASSUME NEW i \in 1 .. n, NEW j \in 1 .. n, back[i] = back[j] PROVE i = j
    OBVIOUS
  <2>1. list[(n - i) + 1] = list[(n - j) + 1]
    BY <1>4
  <2>2. (n - i) + 1 = (n - j) + 1
    BY <1>2, <2>1 DEF Distinct, n
  <2>3. QED
    BY <1>1, <2>2
<1>6. ASSUME NEW k \in 0 .. n PROVE links[Node(back, k)] = Node(back, k + 1)
  <2>1. /\ n - k \in 0 .. n /\ (k \in 1 .. n <=> (n - k) + 1 \in 1 .. n)
        /\ (k + 1 \in 1 .. n <=> n - k \in 1 .. n) /\ (n - (k + 1)) + 1 = n - k
    BY <1>1
  <2>2. Node(back, k) = Node(list, (n - k) + 1)
    BY <1>4, <2>1 DEF Node, n
  <2>3. Node(back, k + 1) = Node(list, n - k)
    BY <1>4, <2>1 DEF Node, n
  <2>4. links[Node(list, (n - k) + 1)] = Node(list, n - k)
    BY <2>1 DEF Precedes, n
  <2>5. QED
    BY <2>2, <2>3, <2>4
<1>7. Distinct(back)
  BY <1>4, <1>5 DEF Distinct
<1>8. Follows(links, back)
  BY <1>4, <1>6 DEF Follows, Precedes
<1>9. QED
  BY <1>7, <1>8 DEF back

\* What the invariant is for.
LEMMA WalksMeetTheLive ==
  ASSUME ListAssumptions, ListInvariant
  PROVE  ListHoldsTheLive
<1>1. Along(next_) = instances
  BY WalkMeetsList DEF ListInvariant
<1>2. Distinct(Reverse(instances)) /\ Follows(previous_, Reverse(instances))
  BY BackIsForth DEF ListInvariant
<1>3. Along(previous_) = Reverse(instances)
  BY <1>2, WalkMeetsList
<1>4. QED
  BY <1>1, <1>3 DEF ListHoldsTheLive, NumLiveInstances

-----------------------------------------------------------------------------
\* Links are changed around one node.

\* No node is met twice on the way round.
LEMMA NodesDiffer ==
  ASSUME ListAssumptions, NEW list, Distinct(list)
  PROVE  /\ \A k \in Nat : Node(list, k) \in Nodes
         /\ \A i, j \in 0 .. Len(list) : Node(list, i) = Node(list, j) => i = j
         /\ \A i, j \in 1 .. Len(list) + 1 : Node(list, i) = Node(list, j) => i = j
<1>1. Len(list) \in Nat /\ \A k \in 1 .. Len(list) : list[k] \in Addresses /\ list[k] # root_
  BY DEF Distinct, ListAssumptions
<1>2. \A k \in Nat : Node(list, k) \in Nodes
  BY <1>1 DEF Node, Nodes
<1>3. \A i, j \in 0 .. Len(list) : Node(list, i) = Node(list, j) => i = j
  BY <1>1 DEF Node, Distinct
<1>4. \A i, j \in 1 .. Len(list) + 1 : Node(list, i) = Node(list, j) => i = j
  BY <1>1 DEF Node, Distinct
<1>5. QED
  BY <1>2, <1>3, <1>4

\* longer is list with x behind its first p nodes.
Longer(longer, list, p, x) ==
  /\ longer \in Seq(Addresses) /\ Len(longer) = Len(list) + 1
  /\ p \in 0 .. Len(list)
  /\ x \in Addresses /\ \A i \in 1 .. Len(list) : list[i] # x
  /\ \A i \in 1 .. Len(list) + 1 :
       longer[i] = IF i <= p THEN list[i] ELSE IF i = p + 1 THEN x ELSE list[i - 1]

\* Where the nodes are then.
LEMMA LongerNodes ==
  ASSUME ListAssumptions, NEW list, Distinct(list), NEW longer, NEW p, NEW x,
         Longer(longer, list, p, x)
  PROVE  /\ Distinct(longer)
         /\ \A k \in 0 .. Len(list) + 2 :
              Node(longer, k) = IF k <= p THEN Node(list, k) ELSE IF k = p + 1 THEN x
                                ELSE Node(list, k - 1)
         /\ x \in Nodes /\ \A k \in 0 .. Len(list) + 1 : Node(list, k) # x
<1> DEFINE n == Len(list)
<1>1. n \in Nat /\ p \in 0 .. n /\ Len(longer) = n + 1
  BY DEF Distinct, Longer
<1>2. \A i \in 1 .. n + 1 :
        longer[i] = IF i <= p THEN list[i] ELSE IF i = p + 1 THEN x ELSE list[i - 1]
  BY DEF Longer
<1>3. \A i \in 1 .. n : list[i] # x
  BY DEF Longer
<1>4. \A i, j \in 1 .. n : list[i] = list[j] => i = j
  BY DEF Distinct
<1> HIDE DEF n
<1>5. \A i, j \in 1 .. n + 1 : longer[i] = longer[j] => i = j
  <2> SUFFICES ASSUME NEW i \in 1 .. n + 1, NEW j \in 1 .. n + 1, longer[i] = longer[j] PROVE i = j
    OBVIOUS
  <2>1. (i <= p => i \in 1 .. n) /\ (i > p + 1 => i - 1 \in 1 .. n)
    BY <1>1
  <2>2. (j <= p => j \in 1 .. n) /\ (j > p + 1 => j - 1 \in 1 .. n)
    BY <1>1
  <2>3. QED
    BY <1>1, <1>2, <1>3, <1>4, <2>1, <2>2
<1>6. ASSUME NEW k \in 0 .. n + 2
      PROVE  Node(longer, k) = IF k <= p THEN Node(list, k) ELSE IF k = p + 1 THEN x
                               ELSE Node(list, k - 1)
  <2>1. Node(longer, k) = IF k \in 1 .. n + 1 THEN longer[k] ELSE root_
    BY <1>1 DEF Node
  <2>2. \A i : Node(list, i) = IF i \in 1 .. n THEN list[i] ELSE root_
    BY DEF Node, n
  <2>3. CASE k <= p
    <3>1. (k \in 1 .. n + 1 <=> k \in 1 .. n) /\ (k \in 1 .. n => longer[k] = list[k])
      BY <1>1, <1>2, <2>3
    <3>2. QED
      BY <2>1, <2>2, <2>3, <3>1
  <2>4. CASE k = p + 1
    <3>1. k \in 1 .. n + 1 /\ longer[k] = x /\ ~(k <= p)
      BY <1>1, <1>2, <2>4
    <3>2. QED
      BY <2>1, <2>4, <3>1
  <2>5. CASE k > p + 1
    <3>1. /\ ~(k <= p) /\ k # p + 1 /\ (k \in 1 .. n + 1 <=> k - 1 \in 1 .. n)
          /\ k \in 1 .. n + 1 => longer[k] = list[k - 1]
      BY <1>1, <1>2, <2>5
    <3>2. Node(list, k - 1) = IF k - 1 \in 1 .. n THEN list[k - 1] ELSE root_
      BY <2>2
    <3>3. QED
      BY <2>1, <3>1, <3>2
  <2>6. QED
    BY <1>1, <2>3, <2>4, <2>5
<1>7. x \in Nodes /\ x # root_
  BY DEF Longer, ListAssumptions, Nodes
<1>8. \A k \in 0 .. n + 1 : Node(list, k) # x
  BY <1>3, <1>7 DEF Node, n
<1>9. Distinct(longer)
  BY <1>1, <1>5 DEF Distinct, Longer
<1>10. QED
  BY <1>6, <1>7, <1>8, <1>9 DEF n

\* Links with x between two nodes, and past a node.
Between(links, from, x, to) == [links EXCEPT ![x] = to, ![from] = x]
Past(links, from, to) == [links EXCEPT ![from] = to]

\* A node is linked in between its neighbours.
LEMMA LinkedIn ==
  ASSUME ListAssumptions, NEW list, Distinct(list), NEW longer, NEW p, NEW x,
         Longer(longer, list, p, x), NEW links
  PROVE  /\ Follows(links, list)
              => Follows(Between(links, Node(list, p), x, Node(list, p + 1)), longer)
         /\ Precedes(links, list)
              => Precedes(Between(links, Node(list, p + 1), x, Node(list, p)), longer)
<1> DEFINE n == Len(list)
           Old(k) == Node(list, k)
           New(k) == Node(longer, k)
<1>1. n \in Nat /\ p \in 0 .. n /\ Len(longer) = n + 1
  BY DEF Distinct, Longer
<1>2. /\ \A k \in 0 .. n + 2 : New(k) = IF k <= p THEN Old(k) ELSE IF k = p + 1 THEN x ELSE Old(k - 1)
      /\ x \in Nodes /\ \A k \in 0 .. n + 1 : Old(k) # x
  BY LongerNodes
<1>3. /\ \A k \in Nat : Old(k) \in Nodes
      /\ \A i, j \in 0 .. n : Old(i) = Old(j) => i = j
      /\ \A i, j \in 1 .. n + 1 : Old(i) = Old(j) => i = j
  BY NodesDiffer
<1> HIDE DEF n, Old, New
<1>4. ASSUME Follows(links, list), NEW links2, links2 = Between(links, Old(p), x, Old(p + 1))
      PROVE  Follows(links2, longer)
  <2>1. links \in [Nodes -> Nodes] /\ \A k \in 0 .. n : links[Old(k)] = Old(k + 1)
    BY <1>4 DEF Follows, n, Old
  <2>2. Old(p) \in Nodes /\ Old(p + 1) \in Nodes /\ Old(p) # x
    BY <1>1, <1>2, <1>3
  <2>3. /\ links2 \in [Nodes -> Nodes] /\ links2[Old(p)] = x /\ links2[x] = Old(p + 1)
        /\ \A y \in Nodes : y # x /\ y # Old(p) => links2[y] = links[y]
    BY <1>2, <1>4, <2>1, <2>2 DEF Between
  <2>4. ASSUME NEW k \in 0 .. n + 1 PROVE links2[New(k)] = New(k + 1)
    <3>1. CASE k < p
      <4>1. New(k) = Old(k) /\ New(k + 1) = Old(k + 1) /\ k \in 0 .. n /\ Old(k) \in Nodes
        BY <1>1, <1>2, <1>3, <3>1
      <4>2. Old(k) # x /\ Old(k) # Old(p)
        BY <1>1, <1>2, <1>3, <3>1
      <4>3. QED
        BY <2>1, <2>3, <4>1, <4>2
    <3>2. CASE k = p
      <4>1. New(k) = Old(p) /\ New(k + 1) = x
        BY <1>1, <1>2, <3>2
      <4>2. QED
        BY <2>3, <4>1
    <3>3. CASE k = p + 1
      <4>1. New(k) = x /\ New(k + 1) = Old(p + 1)
        BY <1>1, <1>2, <3>3
      <4>2. QED
        BY <2>3, <4>1
    <3>4. CASE k > p + 1
      <4>1. /\ New(k) = Old(k - 1) /\ New(k + 1) = Old((k - 1) + 1)
            /\ k - 1 \in 0 .. n /\ Old(k - 1) \in Nodes
        BY <1>1, <1>2, <1>3, <3>4
      <4>2. Old(k - 1) # x /\ Old(k - 1) # Old(p)
        BY <1>1, <1>2, <1>3, <3>4
      <4>3. QED
        BY <2>1, <2>3, <4>1, <4>2
    <3>5. QED
      BY <1>1, <3>1, <3>2, <3>3, <3>4
  <2>5. QED
    BY <1>1, <2>3, <2>4 DEF Follows, New
<1>5. ASSUME Precedes(links, list), NEW links2, links2 = Between(links, Old(p + 1), x, Old(p))
      PROVE  Precedes(links2, longer)
  <2>1. links \in [Nodes -> Nodes] /\ \A k \in 0 .. n : links[Old(k + 1)] = Old(k)
    BY <1>5 DEF Precedes, n, Old
  <2>2. Old(p) \in Nodes /\ Old(p + 1) \in Nodes /\ Old(p + 1) # x
    BY <1>1, <1>2, <1>3
  <2>3. /\ links2 \in [Nodes -> Nodes] /\ links2[Old(p + 1)] = x /\ links2[x] = Old(p)
        /\ \A y \in Nodes : y # x /\ y # Old(p + 1) => links2[y] = links[y]
    BY <1>2, <1>5, <2>1, <2>2 DEF Between
  <2>4. ASSUME NEW k \in 0 .. n + 1 PROVE links2[New(k + 1)] = New(k)
    <3>1. CASE k < p
      <4>1. New(k) = Old(k) /\ New(k + 1) = Old(k + 1) /\ k \in 0 .. n /\ Old(k + 1) \in Nodes
        BY <1>1, <1>2, <1>3, <3>1
      <4>2. Old(k + 1) # x /\ Old(k + 1) # Old(p + 1)
        BY <1>1, <1>2, <1>3, <3>1
      <4>3. QED
        BY <2>1, <2>3, <4>1, <4>2
    <3>2. CASE k = p
      <4>1. New(k) = Old(p) /\ New(k + 1) = x
        BY <1>1, <1>2, <3>2
      <4>2. QED
        BY <2>3, <4>1
    <3>3. CASE k = p + 1
      <4>1. New(k) = x /\ New(k + 1) = Old(p + 1)
        BY <1>1, <1>2, <3>3
      <4>2. QED
        BY <2>3, <4>1
    <3>4. CASE k > p + 1
      <4>1. /\ New(k) = Old(k - 1) /\ New(k + 1) = Old((k - 1) + 1)
            /\ k - 1 \in 0 .. n /\ Old((k - 1) + 1) \in Nodes
        BY <1>1, <1>2, <1>3, <3>4
      <4>2. Old((k - 1) + 1) # x /\ Old((k - 1) + 1) # Old(p + 1)
        BY <1>1, <1>2, <1>3, <3>4
      <4>3. QED
        BY <2>1, <2>3, <4>1, <4>2
    <3>5. QED
      BY <1>1, <3>1, <3>2, <3>3, <3>4
  <2>5. QED
    BY <1>1, <2>3, <2>4 DEF Precedes, New
<1>6. QED
  BY <1>4, <1>5 DEF Old

\* shorter is list without its node p.
Shorter(shorter, list, p) ==
  /\ p \in 1 .. Len(list)
  /\ shorter \in Seq(Addresses) /\ Len(shorter) = Len(list) - 1
  /\ \A i \in 1 .. Len(list) - 1 : shorter[i] = IF i < p THEN list[i] ELSE list[i + 1]

\* The neighbours of a node are linked to each other.
LEMMA LinkedOut ==
  ASSUME ListAssumptions, NEW list, Distinct(list), NEW shorter, NEW p,
         Shorter(shorter, list, p), NEW links
  PROVE  /\ Distinct(shorter)
         /\ Follows(links, list)
              => Follows(Past(links, Node(list, p - 1), Node(list, p + 1)), shorter)
         /\ Precedes(links, list)
              => Precedes(Past(links, Node(list, p + 1), Node(list, p - 1)), shorter)
<1> DEFINE n == Len(list)
           Old(k) == Node(list, k)
           New(k) == Node(shorter, k)
<1>1. n \in Nat /\ p \in 1 .. n /\ Len(shorter) = n - 1
  BY DEF Distinct, Shorter
<1>2. \A i \in 1 .. n - 1 : shorter[i] = IF i < p THEN list[i] ELSE list[i + 1]
  BY DEF Shorter
<1>3. /\ \A k \in Nat : Old(k) \in Nodes
      /\ \A i, j \in 0 .. n : Old(i) = Old(j) => i = j
      /\ \A i, j \in 1 .. n + 1 : Old(i) = Old(j) => i = j
  BY NodesDiffer
<1>4. \A i, j \in 1 .. n : list[i] = list[j] => i = j
  BY DEF Distinct
<1> HIDE DEF n, Old, New
<1>5. \A i, j \in 1 .. n - 1 : shorter[i] = shorter[j] => i = j
  <2> SUFFICES ASSUME NEW i \in 1 .. n - 1, NEW j \in 1 .. n - 1, shorter[i] = shorter[j]
               PROVE  i = j
    OBVIOUS
  <2>1. i \in 1 .. n /\ i + 1 \in 1 .. n /\ j \in 1 .. n /\ j + 1 \in 1 .. n
    BY <1>1
  <2>2. QED
    BY <1>1, <1>2, <1>4, <2>1
<1>6. ASSUME NEW k \in 0 .. n PROVE New(k) = IF k < p THEN Old(k) ELSE Old(k + 1)
  <2>1. New(k) = IF k \in 1 .. n - 1 THEN shorter[k] ELSE root_
    BY <1>1 DEF Node, New
  <2>2. \A i : Old(i) = IF i \in 1 .. n THEN list[i] ELSE root_
    BY DEF Node, n, Old
  <2>3. QED
    BY <1>1, <1>2, <2>1, <2>2
<1>7. Distinct(shorter)
  BY <1>1, <1>5 DEF Distinct, Shorter
<1>8. ASSUME Follows(links, list), NEW links2, links2 = Past(links, Old(p - 1), Old(p + 1))
      PROVE  Follows(links2, shorter)
  <2>1. links \in [Nodes -> Nodes] /\ \A k \in 0 .. n : links[Old(k)] = Old(k + 1)
    BY <1>8 DEF Follows, n, Old
  <2>2. Old(p - 1) \in Nodes /\ Old(p + 1) \in Nodes
    BY <1>1, <1>3
  <2>3. /\ links2 \in [Nodes -> Nodes] /\ links2[Old(p - 1)] = Old(p + 1)
        /\ \A y \in Nodes : y # Old(p - 1) => links2[y] = links[y]
    BY <1>8, <2>1, <2>2 DEF Past
  <2>4. ASSUME NEW k \in 0 .. n - 1 PROVE links2[New(k)] = New(k + 1)
    <3>1. CASE k < p - 1
      <4>1. New(k) = Old(k) /\ New(k + 1) = Old(k + 1) /\ k \in 0 .. n /\ Old(k) \in Nodes
        BY <1>1, <1>3, <1>6, <3>1
      <4>2. Old(k) # Old(p - 1)
        BY <1>1, <1>3, <3>1
      <4>3. QED
        BY <2>1, <2>3, <4>1, <4>2
    <3>2. CASE k = p - 1
      <4>1. New(k) = Old(p - 1) /\ New(k + 1) = Old(p + 1)
        BY <1>1, <1>6, <3>2
      <4>2. QED
        BY <2>3, <4>1
    <3>3. CASE k > p - 1
      <4>1. /\ New(k) = Old(k + 1) /\ New(k + 1) = Old((k + 1) + 1)
            /\ k + 1 \in 0 .. n /\ Old(k + 1) \in Nodes
        BY <1>1, <1>3, <1>6, <3>3
      <4>2. Old(k + 1) # Old(p - 1)
        BY <1>1, <1>3, <3>3
      <4>3. QED
        BY <2>1, <2>3, <4>1, <4>2
    <3>4. QED
      BY <1>1, <3>1, <3>2, <3>3
  <2>5. QED
    BY <1>1, <2>3, <2>4 DEF Follows, New
<1>9. ASSUME Precedes(links, list), NEW links2, links2 = Past(links, Old(p + 1), Old(p - 1))
      PROVE  Precedes(links2, shorter)
  <2>1. links \in [Nodes -> Nodes] /\ \A k \in 0 .. n : links[Old(k + 1)] = Old(k)
    BY <1>9 DEF Precedes, n, Old
  <2>2. Old(p - 1) \in Nodes /\ Old(p + 1) \in Nodes
    BY <1>1, <1>3
  <2>3. /\ links2 \in [Nodes -> Nodes] /\ links2[Old(p + 1)] = Old(p - 1)
        /\ \A y \in Nodes : y # Old(p + 1) => links2[y] = links[y]
    BY <1>9, <2>1, <2>2 DEF Past
  <2>4. ASSUME NEW k \in 0 .. n - 1 PROVE links2[New(k + 1)] = New(k)
    <3>1. CASE k < p - 1
      <4>1. /\ New(k) = Old(k) /\ New(k + 1) = Old(k + 1) /\ k \in 0 .. n
            /\ Old(k + 1) \in Nodes
        BY <1>1, <1>3, <1>6, <3>1
      <4>2. Old(k + 1) # Old(p + 1)
        BY <1>1, <1>3, <3>1
      <4>3. QED
        BY <2>1, <2>3, <4>1, <4>2
    <3>2. CASE k = p - 1
      <4>1. New(k) = Old(p - 1) /\ New(k + 1) = Old(p + 1)
        BY <1>1, <1>6, <3>2
      <4>2. QED
        BY <2>3, <4>1
    <3>3. CASE k > p - 1
      <4>1. /\ New(k) = Old(k + 1) /\ New(k + 1) = Old((k + 1) + 1)
            /\ k + 1 \in 0 .. n /\ Old((k + 1) + 1) \in Nodes
        BY <1>1, <1>3, <1>6, <3>3
      <4>2. Old((k + 1) + 1) # Old(p + 1)
        BY <1>1, <1>3, <3>3
      <4>3. QED
        BY <2>1, <2>3, <4>1, <4>2
    <3>4. QED
      BY <1>1, <3>1, <3>2, <3>3
  <2>5. QED
    BY <1>1, <2>3, <2>4 DEF Precedes, New
<1>10. QED
  BY <1>7, <1>8, <1>9 DEF Old

-----------------------------------------------------------------------------
\* How the history of the live objects changes.

\* Position finds the place of a live object.
LEMMA PositionOfLive ==
  ASSUME Distinct(instances), NEW x, Contains(instances, x)
  PROVE  /\ Position(x) \in 1 .. Len(instances)
         /\ Node(instances, Position(x)) = x
<1> DEFINE I == {i \in 1 .. Len(instances) : instances[i] = x}
<1>1. PICK k \in 1 .. Len(instances) : instances[k] = x
  BY DEF Contains
<1>2. I = {k}
  BY <1>1 DEF Distinct
<1>3. Position(x) = Min(I)
  BY <1>2 DEF Position, SelectInSeq
<1>4. Min({k}) = k
  <2>1. \E y \in {k} : \A z \in {k} : y <= z
    OBVIOUS
  <2>2. Min({k}) \in {k}
    BY <2>1 DEF Min
  <2>3. QED
    BY <2>2
<1>5. QED
  BY <1>1, <1>2, <1>3, <1>4 DEF Node

\* u is made of s, of length m, and t, of length k.
Joined(u, s, t, m, k) ==
  /\ u \in Seq(Addresses) /\ Len(u) = m + k
  /\ \A i \in 1 .. m : u[i] = s[i]
  /\ \A i \in 1 .. k : u[m + i] = t[i]

\* Where the elements of a concatenation are.
LEMMA Concatenated ==
  ASSUME NEW s \in Seq(Addresses), NEW t \in Seq(Addresses)
  PROVE  Joined(s \o t, s, t, Len(s), Len(t))
  BY DEF Joined

\* Append and InsertAt put one node more into the list, RemoveAt takes it out.
LEMMA EditedList ==
  ASSUME NEW list, Distinct(list), NEW x \in Addresses, NEW p
  PROVE  /\ ~Contains(list, x) => Longer(Append(list, x), list, Len(list), x)
         /\ ~Contains(list, x) /\ p \in 1 .. Len(list)
              => Longer(InsertAt(list, p + 1, x), list, p, x)
         /\ p \in 1 .. Len(list) => Shorter(RemoveAt(list, p), list, p)
<1> DEFINE n == Len(list)
<1>1. list \in Seq(Addresses) /\ n \in Nat /\ \A i \in 1 .. n : list[i] \in Addresses
  BY DEF Distinct
<1>2. ~Contains(list, x) => \A i \in 1 .. n : list[i] # x
  BY DEF Contains
<1>3. ~Contains(list, x) => Longer(Append(list, x), list, n, x)
  <2>1. /\ Append(list, x) \in Seq(Addresses) /\ Len(Append(list, x)) = n + 1
        /\ \A i \in 1 .. n + 1 : Append(list, x)[i] = IF i <= n THEN list[i] ELSE x
    BY <1>1
  <2>2. QED
    BY <1>1, <1>2, <2>1 DEF Longer
<1>4. ASSUME p \in 1 .. n, ~Contains(list, x) PROVE Longer(InsertAt(list, p + 1, x), list, p, x)
  <2> DEFINE front == SubSeq(list, 1, p)
             back == SubSeq(list, p + 1, n)
             head == front \o <<x>>
             longer == head \o back
  <2>1. /\ front \in Seq(Addresses) /\ Len(front) = p
        /\ \A i \in 1 .. p : front[i] = list[i]
    BY <1>1, <1>4
  <2>2. /\ back \in Seq(Addresses) /\ Len(back) = n - p
        /\ \A i \in 1 .. n - p : back[i] = list[p + i]
    BY <1>1, <1>4
  <2>3. InsertAt(list, p + 1, x) = longer
    <3>1. (p + 1) - 1 = p
      BY <1>4
    <3>2. QED
      BY <3>1 DEF InsertAt
  <2> HIDE DEF front, back
  <2>4. /\ head \in Seq(Addresses) /\ Len(head) = p + 1
        /\ \A i \in 1 .. p : head[i] = front[i]
        /\ head[p + 1] = x
    <3>1. <<x>> \in Seq(Addresses) /\ Len(<<x>>) = 1 /\ <<x>>[1] = x
      OBVIOUS
    <3>2. Joined(head, front, <<x>>, p, 1)
      BY <2>1, <3>1, Concatenated
    <3> HIDE DEF head
    <3>3. QED
      BY <1>4, <3>1, <3>2 DEF Joined
  <2>5. Joined(longer, head, back, p + 1, n - p)
    <3> HIDE DEF n, head
    <3>1. QED
      BY <2>2, <2>4, Concatenated
  <2> HIDE DEF head, longer
  <2>6. /\ longer \in Seq(Addresses) /\ Len(longer) = (p + 1) + (n - p)
        /\ \A i \in 1 .. p + 1 : longer[i] = head[i]
        /\ \A i \in 1 .. n - p : longer[(p + 1) + i] = back[i]
    BY <2>5 DEF Joined
  <2>7. ASSUME NEW i \in 1 .. n + 1
        PROVE  longer[i] = IF i <= p THEN list[i] ELSE IF i = p + 1 THEN x ELSE list[i - 1]
    <3>1. CASE i <= p
      <4>1. i \in 1 .. p /\ i \in 1 .. p + 1
        BY <1>4, <3>1
      <4>2. QED
        BY <2>1, <2>4, <2>6, <3>1, <4>1
    <3>2. CASE i = p + 1
      <4>1. p + 1 \in 1 .. p + 1 /\ ~(p + 1 <= p)
        BY <1>4
      <4>2. QED
        BY <2>4, <2>6, <3>2, <4>1
    <3>3. CASE i > p + 1
      <4> DEFINE j == i - (p + 1)
      <4>1. j \in 1 .. n - p /\ (p + 1) + j = i /\ p + j = i - 1 /\ ~(i <= p) /\ i # p + 1
        BY <1>1, <1>4, <3>3
      <4> HIDE DEF j
      <4>2. longer[i] = list[i - 1]
        BY <2>2, <2>6, <4>1
      <4>3. QED
        BY <4>1, <4>2
    <3>4. QED
      BY <1>1, <1>4, <3>1, <3>2, <3>3
  <2>8. Len(longer) = n + 1 /\ p \in 0 .. n
    BY <1>1, <1>4, <2>6
  <2>9. QED
    BY <1>2, <1>4, <2>3, <2>6, <2>7, <2>8 DEF Longer
<1>5. ASSUME p \in 1 .. n PROVE Shorter(RemoveAt(list, p), list, p)
  <2> DEFINE front == SubSeq(list, 1, p - 1)
             back == SubSeq(list, p + 1, n)
             shorter == front \o back
  <2>1. /\ front \in Seq(Addresses) /\ Len(front) = p - 1
        /\ \A i \in 1 .. p - 1 : front[i] = list[i]
    BY <1>1, <1>5
  <2>2. /\ back \in Seq(Addresses) /\ Len(back) = n - p
        /\ \A i \in 1 .. n - p : back[i] = list[p + i]
    BY <1>1, <1>5
  <2>3. RemoveAt(list, p) = shorter
    BY DEF RemoveAt
  <2> HIDE DEF front, back
  <2>4. Joined(shorter, front, back, p - 1, n - p)
    <3> HIDE DEF n
    <3>1. QED
      BY <2>1, <2>2, Concatenated
  <2> HIDE DEF shorter
  <2>5. /\ shorter \in Seq(Addresses) /\ Len(shorter) = (p - 1) + (n - p)
        /\ \A i \in 1 .. p - 1 : shorter[i] = front[i]
        /\ \A i \in 1 .. n - p : shorter[(p - 1) + i] = back[i]
    BY <2>4 DEF Joined
  <2>6. ASSUME NEW i \in 1 .. n - 1 PROVE shorter[i] = IF i < p THEN list[i] ELSE list[i + 1]
    <3>1. CASE i < p
      <4>1. i \in 1 .. p - 1
        BY <1>5, <3>1
      <4>2. QED
        BY <2>1, <2>5, <3>1, <4>1
    <3>2. CASE ~(i < p)
      <4> DEFINE j == i - (p - 1)
      <4>1. j \in 1 .. n - p /\ (p - 1) + j = i /\ p + j = i + 1
        BY <1>1, <1>5, <3>2
      <4> HIDE DEF j
      <4>2. shorter[i] = list[i + 1]
        BY <2>2, <2>5, <4>1
      <4>3. QED
        BY <3>2, <4>2
    <3>3. QED
      BY <3>1, <3>2
  <2>7. Len(shorter) = n - 1
    BY <1>1, <1>5, <2>5
  <2>8. QED
    BY <1>5, <2>3, <2>5, <2>6, <2>7 DEF Shorter
<1>6. QED
  BY <1>3, <1>4, <1>5

-----------------------------------------------------------------------------
\* The steps.

\* An empty list is the root alone.
LEMMA InitList ==
  ASSUME Init
  PROVE  ListInvariant
<1>1. instances \in Seq(Addresses) /\ Len(instances) = 0
  BY DEF Init
<1>2. Node(instances, 0) = root_ /\ Node(instances, 1) = root_ /\ root_ \in Nodes
  BY <1>1 DEF Node, Nodes
<1>3. QED
  BY <1>1, <1>2 DEF Init, ListInvariant, Distinct, Follows, Precedes

\* An object joins behind the last one.
LEMMA ConstructStep ==
  ASSUME ListAssumptions, ListInvariant, NEW n \in Addresses, Construct(n)
  PROVE  ListInvariant'
<1> DEFINE L == Len(instances)
<1>1. L \in Nat /\ Distinct(instances) /\ Follows(next_, instances) /\ Precedes(previous_, instances)
  BY DEF ListInvariant, Distinct
<1>2. Node(instances, L + 1) = root_ /\ previous_[root_] = Node(instances, L)
  <2>1. Node(instances, L + 1) = root_
    BY <1>1 DEF Node
  <2>2. L \in 0 .. L
    BY <1>1
  <2>3. QED
    BY <1>1, <2>1, <2>2 DEF Precedes
<1>3. /\ next_' = Between(next_, Node(instances, L), n, Node(instances, L + 1))
      /\ previous_' = Between(previous_, Node(instances, L + 1), n, Node(instances, L))
  BY <1>2 DEF Construct, InsertBefore, Between
<1>4. Longer(instances', instances, L, n)
  BY <1>1, EditedList DEF Construct
<1> HIDE DEF L
<1>5. Distinct(instances')
  BY <1>1, <1>4, LongerNodes
<1>6. Follows(next_', instances')
  BY <1>1, <1>3, <1>4, LinkedIn
<1>7. Precedes(previous_', instances')
  BY <1>1, <1>3, <1>4, LinkedIn
<1>8. QED
  BY <1>5, <1>6, <1>7 DEF ListInvariant

\* A node joins behind any other.
LEMMA InsertStep ==
  ASSUME ListAssumptions, ListInvariant, NEW n \in Addresses, NEW e \in Addresses, Insert(n, e)
  PROVE  ListInvariant'
<1> DEFINE p == Position(e)
<1>1. Distinct(instances) /\ Follows(next_, instances) /\ Precedes(previous_, instances)
  BY DEF ListInvariant
<1>2. p \in 1 .. Len(instances) /\ Node(instances, p) = e
  BY <1>1, PositionOfLive DEF Insert
<1> HIDE DEF p
<1>3. next_[e] = Node(instances, p + 1)
  <2>1. p \in 0 .. Len(instances)
    BY <1>2
  <2>2. QED
    BY <1>1, <1>2, <2>1 DEF Follows
<1>4. /\ next_' = Between(next_, Node(instances, p), n, Node(instances, p + 1))
      /\ previous_' = Between(previous_, Node(instances, p + 1), n, Node(instances, p))
  BY <1>2, <1>3 DEF Insert, InsertAfter, Between
<1>5. Longer(instances', instances, p, n)
  BY <1>1, <1>2, EditedList DEF Insert, p
<1>6. Distinct(instances')
  BY <1>1, <1>5, LongerNodes
<1>7. Follows(next_', instances')
  BY <1>1, <1>4, <1>5, LinkedIn
<1>8. Precedes(previous_', instances')
  BY <1>1, <1>4, <1>5, LinkedIn
<1>9. QED
  BY <1>6, <1>7, <1>8 DEF ListInvariant

\* An object leaves from anywhere.
LEMMA DestructStep ==
  ASSUME ListAssumptions, ListInvariant, NEW n \in Addresses, Destruct(n)
  PROVE  ListInvariant'
<1> DEFINE p == Position(n)
<1>1. Distinct(instances) /\ Follows(next_, instances) /\ Precedes(previous_, instances)
  BY DEF ListInvariant
<1>2. p \in 1 .. Len(instances) /\ Node(instances, p) = n
  BY <1>1, PositionOfLive DEF Destruct
<1> HIDE DEF p
<1>3. next_[n] = Node(instances, p + 1) /\ previous_[n] = Node(instances, p - 1)
  <2>1. p \in 0 .. Len(instances) /\ p - 1 \in 0 .. Len(instances) /\ (p - 1) + 1 = p
    BY <1>2
  <2>2. next_[Node(instances, p)] = Node(instances, p + 1)
    BY <1>1, <2>1 DEF Follows
  <2>3. previous_[Node(instances, p)] = Node(instances, p - 1)
    BY <1>1, <2>1 DEF Precedes
  <2>4. QED
    BY <1>2, <2>2, <2>3
<1>4. /\ next_' = Past(next_, Node(instances, p - 1), Node(instances, p + 1))
      /\ previous_' = Past(previous_, Node(instances, p + 1), Node(instances, p - 1))
  BY <1>3 DEF Destruct, RemoveFromList, Past
<1>5. Shorter(instances', instances, p)
  BY <1>1, <1>2, EditedList DEF Destruct, p
<1>6. Distinct(instances')
  BY <1>1, <1>5, LinkedOut
<1>7. Follows(next_', instances')
  BY <1>1, <1>4, <1>5, LinkedOut
<1>8. Precedes(previous_', instances')
  BY <1>1, <1>4, <1>5, LinkedOut
<1>9. QED
  BY <1>6, <1>7, <1>8 DEF ListInvariant

\* Whatever the order in which objects come and go, at whatever addresses: the
\* list holds the live ones, each once, in both directions, and no other.
THEOREM ListIsOfTheLive ==
  ASSUME ListAssumptions
  PROVE  Spec => []ListHoldsTheLive
<1>1. ListInvariant /\ [Next]_vars => ListInvariant'
  <2> SUFFICES ASSUME ListInvariant, [Next]_vars PROVE ListInvariant'
    OBVIOUS
  <2>1. CASE \E n \in Addresses : Construct(n)
    BY <2>1, ConstructStep
  <2>2. CASE \E n \in Addresses : Destruct(n)
    BY <2>2, DestructStep
  <2>3. CASE \E n \in Addresses, e \in Addresses : Insert(n, e)
    BY <2>3, InsertStep
  <2>4. CASE CheckForLeaks \/ UNCHANGED vars
    <3>1. UNCHANGED <<previous_, next_, instances>>
      BY <2>4 DEF CheckForLeaks, vars
    <3>2. QED
      BY <3>1 DEF ListInvariant
  <2>5. QED
    BY <2>1, <2>2, <2>3, <2>4 DEF Next
<1>2. Init => ListInvariant
  BY InitList
<1>3. ListInvariant => ListHoldsTheLive
  BY WalksMeetTheLive
<1>4. QED
  BY <1>1, <1>2, <1>3, PTL DEF Spec

-----------------------------------------------------------------------------
\* Singletons.
CONSTANTS Threads, Traits, MaxExits
VARIABLES traits, instance_, dead_, alive, made, exits, pc, value

S == INSTANCE Singleton

SInvariant == S!TypeOK /\ S!SpinlockInvariant

\* The marker is in the word only while a thread constructs, and only one does.
LEMMA OnceInit == S!Init => SInvariant
<1> SUFFICES ASSUME S!Init PROVE SInvariant
  OBVIOUS
<1>1. S!TypeOK
  <2>1. dead_ \in BOOLEAN
    BY Zenon DEF S!Init
  <2>2. pc \in [Threads -> S!Places] /\ value \in [Threads -> Nat]
    BY DEF S!Init, S!Places, S!Null
  <2>3. instance_ \in Nat /\ made \in Nat \ {S!Null} /\ exits \in Nat
    BY DEF S!Init, S!Null, S!kBeingCreatedMarker
  <2>4. traits \in Traits /\ alive \subseteq Nat
    BY DEF S!Init
  <2>5. QED
    BY <2>1, <2>2, <2>3, <2>4 DEF S!TypeOK
<1>2. \A t \in Threads : pc[t] = "idle"
  BY DEF S!Init
<1>3. S!Creators = {}
  BY <1>2 DEF S!Creators
<1>4. S!SpinlockInvariant
  BY <1>2, <1>3 DEF S!Init, S!SpinlockInvariant, S!Null, S!kBeingCreatedMarker
<1>5. QED
  BY <1>1, <1>4 DEF SInvariant

\* A caller enters.
LEMMA OnceCall == ASSUME SInvariant, NEW t \in Threads, S!Call(t) PROVE SInvariant'
  BY DEF S!Call, S!Go, SInvariant, S!TypeOK, S!SpinlockInvariant, S!Creators, S!Places,
         S!Static, S!Null, S!kBeingCreatedMarker

\* It looks.
LEMMA OnceLoad == ASSUME SInvariant, NEW t \in Threads, S!Load(t) PROVE SInvariant'
  BY DEF S!Load, S!Go, S!Answer, SInvariant, S!TypeOK, S!SpinlockInvariant, S!Creators,
         S!Places, S!Static, S!Null, S!kBeingCreatedMarker

\* Of those who found null, one gets the marker in.
LEMMA OnceSwap == ASSUME SInvariant, NEW t \in Threads, S!Swap(t) PROVE SInvariant'
  BY DEF S!Swap, S!Go, SInvariant, S!TypeOK, S!SpinlockInvariant, S!Creators, S!Places,
         S!Static, S!Null, S!kBeingCreatedMarker

\* Whoever has put the marker in constructs, alone.
LEMMA OnceNew == ASSUME SInvariant, NEW t \in Threads, S!New(t) PROVE SInvariant'
<1> USE DEF S!Go, SInvariant, S!TypeOK, S!Null, S!kBeingCreatedMarker
<1>1. instance_ = S!kBeingCreatedMarker /\ alive = {} /\ \A u \in S!Creators : u = t
  BY DEF S!New, S!SpinlockInvariant, S!Creators
<1>2. S!Creators' = S!Creators /\ pc'[t] = "store" /\ \A u \in Threads \ {t} : pc'[u] = pc[u]
  BY DEF S!New, S!Creators
<1>3. CASE S!Static /\ dead_
  <2>1. value' = [value EXCEPT ![t] = S!Null] /\ UNCHANGED <<traits, instance_, alive, made>>
        /\ dead_'
    BY <1>3 DEF S!New
  <2>2. QED
    BY <1>1, <1>2, <1>3, <2>1 DEF S!New, S!SpinlockInvariant, S!Creators, S!Static, S!Places
<1>4. CASE ~(S!Static /\ dead_)
  <2>1. /\ made' = made + 1 /\ alive' = {made'} /\ value' = [value EXCEPT ![t] = made']
        /\ UNCHANGED <<traits, instance_>>
    BY <1>1, <1>4 DEF S!New
  <2>2. made' > S!kBeingCreatedMarker /\ made' \in Nat
    BY <2>1 DEF S!SpinlockInvariant
  <2>3. \A u \in Threads : ~(pc[u] = "done" /\ value[u] = S!Null)
    BY <1>4 DEF S!SpinlockInvariant
  <2>4. \A u \in Threads : pc[u] # "done"
    BY <1>1, <2>3 DEF S!SpinlockInvariant
  <2>5. S!TypeOK'
    BY <2>1, <2>2 DEF S!New, S!Static, S!Places
  <2>6. S!SpinlockInvariant'
    BY <1>1, <1>2, <2>1, <2>2, <2>4 DEF S!SpinlockInvariant, S!Creators
  <2>7. QED
    BY <2>5, <2>6
<1>5. QED
  BY <1>3, <1>4

\* It stores its object over the marker.
LEMMA OnceStore == ASSUME SInvariant, NEW t \in Threads, S!Store(t) PROVE SInvariant'
  BY DEF S!Store, S!Go, SInvariant, S!TypeOK, S!SpinlockInvariant, S!Creators, S!Places,
         S!Static, S!Null, S!kBeingCreatedMarker

\* Who waits leaves with what has replaced the marker.
LEMMA OnceWait == ASSUME SInvariant, NEW t \in Threads, S!Wait(t) PROVE SInvariant'
  BY DEF S!Wait, S!Answer, S!Go, SInvariant, S!TypeOK, S!SpinlockInvariant, S!Creators,
         S!Places, S!Static, S!Null, S!kBeingCreatedMarker

\* Callers leave.
LEMMA OnceReturn == ASSUME SInvariant, NEW t \in Threads, S!Return(t) PROVE SInvariant'
  BY DEF S!Return, S!Go, SInvariant, S!TypeOK, S!SpinlockInvariant, S!Creators, S!Places,
         S!Static, S!Null, S!kBeingCreatedMarker

\* The object goes when nobody is in get().
LEMMA OnceOnExit == ASSUME SInvariant, S!OnExit PROVE SInvariant'
  BY DEF S!OnExit, S!Quiet, SInvariant, S!TypeOK, S!SpinlockInvariant, S!Creators, S!Places,
         S!Static, S!Null, S!kBeingCreatedMarker

\* Nor is anybody when it may come again.
LEMMA OnceResurrect == ASSUME SInvariant, S!Resurrect PROVE SInvariant'
  BY DEF S!Resurrect, S!Quiet, SInvariant, S!TypeOK, S!SpinlockInvariant, S!Creators, S!Places,
         S!Static, S!Null, S!kBeingCreatedMarker

\* SInvariant holds in every state.
LEMMA OnceCorrect == S!Spec => []SInvariant
<1>1. ASSUME SInvariant, [S!Next]_(S!vars) PROVE SInvariant'
  <2>1. CASE UNCHANGED S!vars
    BY <1>1, <2>1 DEF S!vars, SInvariant, S!TypeOK, S!SpinlockInvariant, S!Creators, S!Static
  <2>2. CASE S!Next
    BY <1>1, <2>2, OnceCall, OnceLoad, OnceSwap, OnceNew, OnceStore, OnceWait, OnceReturn, OnceOnExit,
       OnceResurrect DEF S!Next, S!Get
  <2>3. QED
    BY <1>1, <2>1, <2>2
<1>2. QED
  BY OnceInit, <1>1, PTL DEF S!Spec

-----------------------------------------------------------------------------
\* At most one object is alive: the one the word holds, or, under the marker,
\* the one that is being stored.
LEMMA OneAlive == ASSUME SInvariant PROVE \A x, y \in alive : x = y
<1>1. CASE instance_ = S!Null
  BY <1>1 DEF SInvariant, S!SpinlockInvariant
<1>2. CASE instance_ = S!kBeingCreatedMarker
  <2>1. PICK t \in Threads : pc[t] \in {"new", "store"}
    BY <1>2 DEF SInvariant, S!SpinlockInvariant, S!Creators
  <2>2. alive = {} \/ alive = {value[t]}
    BY <2>1 DEF SInvariant, S!SpinlockInvariant
  <2>3. QED
    BY <2>2
<1>3. CASE instance_ \notin {S!Null, S!kBeingCreatedMarker}
  BY <1>3 DEF SInvariant, S!SpinlockInvariant
<1>4. QED
  BY <1>1, <1>2, <1>3

\* However many threads race for the first get(), one object at most exists and
\* each caller returns with it, with null only when it is gone for good.
THEOREM SingletonCorrect == S!Spec => []S!OneInstance
<1>1. ASSUME SInvariant PROVE S!OneInstance
  <2>1. ASSUME NEW t \in Threads, pc[t] = "done", value[t] # S!Null PROVE alive = {value[t]}
    BY <1>1, <2>1 DEF SInvariant, S!SpinlockInvariant, S!Null, S!kBeingCreatedMarker
  <2>2. ASSUME NEW t \in Threads, pc[t] = "done", value[t] = S!Null
        PROVE  S!Static /\ dead_ /\ alive = {}
    BY <1>1, <2>2 DEF SInvariant, S!SpinlockInvariant
  <2>3. QED
    BY <1>1, <2>1, <2>2, OneAlive DEF S!OneInstance
<1>2. QED
  BY OnceCorrect, <1>1, PTL
=============================================================================
