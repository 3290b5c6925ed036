--------------------------- MODULE DagSearchProofs ---------------------------
(***************************************************************************)
(* The two depth-first searches are correct, for any set of names, vectors *)
(* of any length, and every order of the hash map.  What a search knows    *)
(* while it runs is said of a list, the colors and the calls: the gray     *)
(* nodes are those of the calls (StackOK), each call waits for one of its  *)
(* own names and all it has passed is black (LoopOK), black nodes depend   *)
(* on black nodes and lie on no cycle (BlackOK), and dfs has booked them   *)
(* in order (OrderOK).  A gray name then closes a cycle (GrayIsCycle), and *)
(* when all keys are black there is none (AllBlackIsSound).                *)
(* Searches are over after so many steps because none is made twice:       *)
(* Ahead, what a search has yet to walk, shrinks (SearchesAreShort).       *)
(***************************************************************************)
EXTENDS DagSearch, NaturalsInduction, WellFoundedInduction, SequenceTheorems,
        FiniteSetTheorems, TLAPS

-----------------------------------------------------------------------------
\* The vectors.

IsList(list) == /\ DOMAIN list \subseteq Name
                /\ list \in [DOMAIN list -> Vectors]

\* The vectors are the sequences of names up to the bound.
LEMMA VectorsAreSequences ==
    ASSUME NEW v
    PROVE  v \in Vectors <=> v \in Seq(Name) /\ Len(v) <= MaxListed
<1>1. ASSUME v \in Vectors PROVE v \in Seq(Name) /\ Len(v) <= MaxListed
    <2>1. PICK m \in 0..MaxListed : v \in [1..m -> Name]
        BY <1>1 DEF Vectors, BoundedSeq, SeqOf
    <2>2. v \in Seq(Name) /\ Len(v) = m
        BY <2>1, SearchAssumption
    <2> QED
        BY <2>1, <2>2, SearchAssumption
<1>2. ASSUME v \in Seq(Name), Len(v) <= MaxListed PROVE v \in Vectors
    <2>1. Len(v) \in 0..MaxListed /\ v \in [1..Len(v) -> Name]
        BY <1>2, LenProperties, SearchAssumption
    <2> QED
        BY <2>1 DEF Vectors, BoundedSeq, SeqOf
<1> QED
    BY <1>1, <1>2

\* The positions of a name are finitely many.
LEMMA PositionsFinite ==
    ASSUME NEW v \in Seq(Name), NEW d
    PROVE  /\ IsFiniteSet({i \in DOMAIN v : v[i] = d})
           /\ Cardinality({i \in DOMAIN v : v[i] = d}) \in Nat
<1>1. Len(v) \in Nat /\ DOMAIN v = 1..Len(v)
    BY LenProperties
<1>2. IsFiniteSet(1..Len(v))
    BY <1>1, FS_Interval
<1> QED
    BY <1>1, <1>2, FS_Subset, FS_CardinalityType

\* A bag lists what the vector holds.
LEMMA BagLists ==
    ASSUME NEW v \in Seq(Name)
    PROVE  BagOf(v) \in Bag /\ Listed(BagOf(v)) = ToSet(v)
<1> DEFINE Positions(d) == {i \in DOMAIN v : v[i] = d}
<1>1. \A d \in Name : IsFiniteSet(Positions(d)) /\ Cardinality(Positions(d)) \in Nat
    BY PositionsFinite
<1>2. BagOf(v) = [d \in Name |-> Cardinality(Positions(d))]
    BY DEF BagOf
<1>3. \A d \in Name : Cardinality(Positions(d)) = 0 <=> Positions(d) = {}
    BY <1>1, FS_EmptySet
<1>4. \A d : Positions(d) = {} <=> d \notin ToSet(v)
    BY DEF ToSet
<1>5. ToSet(v) \subseteq Name
    BY LenProperties DEF ToSet
<1> HIDE DEF Positions
<1>6. ASSUME NEW d \in Name
      PROVE  Cardinality(Positions(d)) > 0 <=> d \in ToSet(v)
    <2> DEFINE count == Cardinality(Positions(d))
    <2>1. count \in Nat
        BY <1>1
    <2>2. count = 0 <=> d \notin ToSet(v)
        BY <1>3, <1>4
    <2> HIDE DEF count
    <2>3. count > 0 <=> count # 0
        BY <2>1
    <2>4. count > 0 <=> d \in ToSet(v)
        BY <2>2, <2>3
    <2> QED
        BY <2>4 DEF count
<1> QED
    BY <1>1, <1>2, <1>5, <1>6 DEF Bag, Listed

\* Every non-empty set of numbers has a least one.
LEMMA LeastNumber ==
    ASSUME NEW S, S \subseteq Nat, S # {}
    PROVE  \E m \in S : \A t \in S : m <= t
<1> DEFINE before == OpToRel(<, Nat)
<1>1. PICK m \in S : \A t \in S : <<t, m>> \notin before
    <2>1. IsWellFoundedOn(before, Nat)
        BY NatLessThanWellFounded
    <2> HIDE DEF before
    <2> QED
        BY <2>1, WFMin
<1>2. before = {p \in Nat \X Nat : p[1] < p[2]}
    BY DEF OpToRel
<1> HIDE DEF before
<1>3. \A t \in S : ~(t < m)
    BY <1>1, <1>2
<1> QED
    BY <1>3

\* remove_task takes one occurrence away, if there is one.
LEMMA ErasedOnce ==
    ASSUME NEW v \in Seq(Name), NEW n \in Name
    PROVE  \/ n \notin ToSet(v) /\ Erased(v, n) = v
           \/ \E p \in DOMAIN v :
                /\ v[p] = n
                /\ Erased(v, n) \in Seq(Name)
                /\ Len(Erased(v, n)) = Len(v) - 1
                /\ \A i \in 1..Len(v) - 1 :
                      Erased(v, n)[i] = IF i < p THEN v[i] ELSE v[i + 1]
<1>1. Len(v) \in Nat /\ DOMAIN v = 1..Len(v) /\ \A i \in 1..Len(v) : v[i] \in Name
    BY LenProperties
<1>2. CASE ~\E i \in 1..Len(v) : v[i] = n
    BY <1>1, <1>2 DEF Erased, RemoveFirst, ToSet
<1>3. CASE \E i \in 1..Len(v) : v[i] = n
    <2> DEFINE Found == {i \in 1..Len(v) : v[i] = n}
               p == Min(Found)
    <2>1. p \in Found
        <3>1. Found \subseteq Nat /\ Found # {}
            BY <1>1, <1>3
        <3>2. \E m \in Found : \A t \in Found : m <= t
            BY <3>1, LeastNumber
        <3> HIDE DEF Found
        <3> QED
            BY <3>2 DEF Min
    <2>2. SelectInSeq(v, LAMBDA x : x = n) = p
        BY <1>3 DEF SelectInSeq
    <2>3. Erased(v, n) = RemoveAt(v, p)
        BY <1>3, <2>2 DEF Erased, RemoveFirst
    <2> HIDE DEF p
    <2>4. p \in 1..Len(v) /\ v[p] = n
        BY <2>1
    <2> DEFINE before == SubSeq(v, 1, p - 1)
               after == SubSeq(v, p + 1, Len(v))
    <2>5. Erased(v, n) = before \o after
        BY <2>3 DEF RemoveAt
    <2>6. /\ before \in Seq(Name) /\ Len(before) = p - 1
          /\ \A i \in 1..p - 1 : before[i] = v[i]
        <3>1. 1 \in Int /\ p - 1 \in Int /\ \A i \in 1..p - 1 : v[i] \in Name
            BY <1>1, <2>4
        <3>2. /\ before \in Seq(Name) /\ Len(before) = IF 1 <= p - 1 THEN p - 1 - 1 + 1 ELSE 0
              /\ \A i \in 1..p - 1 - 1 + 1 : before[i] = v[1 + i - 1]
            BY <3>1, SubSeqProperties
        <3> HIDE DEF before
        <3> QED
            BY <1>1, <2>4, <3>2
    <2>7. /\ after \in Seq(Name) /\ Len(after) = Len(v) - p
          /\ \A i \in 1..Len(v) - p : after[i] = v[p + i]
        <3>1. p + 1 \in Int /\ Len(v) \in Int /\ \A i \in p + 1..Len(v) : v[i] \in Name
            BY <1>1, <2>4
        <3>2. /\ after \in Seq(Name)
              /\ Len(after) = IF p + 1 <= Len(v) THEN Len(v) - (p + 1) + 1 ELSE 0
              /\ \A i \in 1..Len(v) - (p + 1) + 1 : after[i] = v[p + 1 + i - 1]
            BY <3>1, SubSeqProperties
        <3> HIDE DEF after
        <3> DEFINE size == Len(after)
        <3>3. size = Len(v) - p
            <4>1. size = IF p + 1 <= Len(v) THEN Len(v) - (p + 1) + 1 ELSE 0
                BY <3>2
            <4>2. Len(v) \in Int /\ p \in Int /\ p <= Len(v)
                BY <1>1, <2>4
            <4> HIDE DEF size
            <4> QED
                BY <4>1, <4>2
        <3>4. ASSUME NEW i \in 1..Len(v) - p PROVE after[i] = v[p + i]
            <4>1. i \in 1..Len(v) - (p + 1) + 1 /\ p + 1 + i - 1 = p + i
                BY <1>1, <2>4
            <4> QED
                BY <3>2, <4>1
        <3> QED
            BY <3>2, <3>3, <3>4
    <2> HIDE DEF before, after
    <2>8. /\ Erased(v, n) \in Seq(Name)
          /\ Len(Erased(v, n)) = Len(before) + Len(after)
          /\ \A i \in 1..Len(before) + Len(after) :
                Erased(v, n)[i] = IF i <= Len(before) THEN before[i] ELSE after[i - Len(before)]
        <3>1. before \in Seq(Name) /\ after \in Seq(Name)
            BY <2>6, <2>7
        <3>2. /\ before \o after \in Seq(Name)
              /\ Len(before \o after) = Len(before) + Len(after)
              /\ \A i \in 1..Len(before) + Len(after) :
                    (before \o after)[i] =
                        IF i <= Len(before) THEN before[i] ELSE after[i - Len(before)]
            BY <3>1, ConcatProperties
        <3> DEFINE both == before \o after
        <3>3. both = Erased(v, n)
            BY <2>5
        <3>4. /\ both \in Seq(Name)
              /\ Len(both) = Len(before) + Len(after)
              /\ \A i \in 1..Len(before) + Len(after) :
                    both[i] = IF i <= Len(before) THEN before[i] ELSE after[i - Len(before)]
            BY <3>2
        <3> HIDE DEF both
        <3> QED
            BY <3>3, <3>4
    <2>9. Len(Erased(v, n)) = Len(v) - 1
        BY <1>1, <2>4, <2>6, <2>7, <2>8
    <2>10. ASSUME NEW i \in 1..Len(v) - 1
           PROVE  Erased(v, n)[i] = IF i < p THEN v[i] ELSE v[i + 1]
        <3>1. CASE i < p
            <4>1. i \in 1..p - 1 /\ i \in 1..Len(before) + Len(after) /\ i <= Len(before)
                BY <1>1, <2>4, <2>6, <2>7, <3>1
            <4> QED
                BY <2>6, <2>8, <3>1, <4>1
        <3>2. CASE ~(i < p)
            <4>1. i - (p - 1) \in 1..Len(v) - p /\ p + (i - (p - 1)) = i + 1
                BY <1>1, <2>4, <3>2
            <4>2. Erased(v, n)[i] = after[i - (p - 1)]
                BY <1>1, <2>4, <2>6, <2>7, <2>8, <3>2
            <4> QED
                BY <2>7, <3>2, <4>1, <4>2
        <3> QED
            BY <3>1, <3>2
    <2> QED
        BY <1>1, <2>4, <2>8, <2>9, <2>10
<1> QED
    BY <1>2, <1>3

\* ... and so does Unlisted, which is what remove_task is in TaskGraph.
LEMMA ErasedIsUnlisted ==
    ASSUME NEW v \in Vectors, NEW n \in Name
    PROVE  /\ Erased(v, n) \in Vectors
           /\ ToSet(Erased(v, n)) \subseteq ToSet(v)
           /\ BagOf(Erased(v, n)) = Unlisted(BagOf(v), n)
<1> DEFINE w == Erased(v, n)
           At(s, d) == {i \in DOMAIN s : s[i] = d}
<1>1. v \in Seq(Name) /\ Len(v) <= MaxListed /\ Len(v) \in Nat /\ DOMAIN v = 1..Len(v)
    BY VectorsAreSequences, LenProperties
<1>2. BagOf(v) = [d \in Name |-> Cardinality(At(v, d))]
    BY DEF BagOf
<1>3. BagOf(w) = [d \in Name |-> Cardinality(At(w, d))]
    BY DEF BagOf
<1>4. \A d \in Name : IsFiniteSet(At(v, d)) /\ Cardinality(At(v, d)) \in Nat
    BY <1>1, PositionsFinite
<1>5. CASE n \notin ToSet(v) /\ w = v
    <2>1. At(v, n) = {}
        BY <1>5 DEF ToSet
    <2> HIDE DEF At, w
    <2>2. Cardinality(At(v, n)) = 0
        BY <2>1, FS_EmptySet
    <2>3. Unlisted(BagOf(v), n) = BagOf(v)
        <3> DEFINE bag == BagOf(v)
        <3>1. bag[n] = 0 /\ bag = [d \in Name |-> bag[d]]
            BY <1>2, <2>2
        <3>2. Unlisted(bag, n) = [bag EXCEPT ![n] = 0]
            BY <3>1 DEF Unlisted
        <3> HIDE DEF bag
        <3>3. [bag EXCEPT ![n] = 0] = bag
            BY <3>1
        <3> QED
            BY <3>2, <3>3 DEF bag
    <2> QED
        BY <1>5, <2>3 DEF w
<1>6. ASSUME NEW p \in DOMAIN v, v[p] = n, w \in Seq(Name), Len(w) = Len(v) - 1,
             \A i \in 1..Len(v) - 1 : w[i] = IF i < p THEN v[i] ELSE v[i + 1]
      PROVE  /\ w \in Vectors
             /\ ToSet(w) \subseteq ToSet(v)
             /\ BagOf(w) = Unlisted(BagOf(v), n)
    <2> HIDE DEF w
    <2>1. DOMAIN w = 1..Len(v) - 1 /\ Len(w) <= MaxListed
        <3>1. DOMAIN w = 1..Len(w)
            BY <1>6, LenProperties
        <3>2. Len(w) = Len(v) - 1
            BY <1>6
        <3> QED
            BY <1>1, <3>1, <3>2, SearchAssumption
    <2>2. ToSet(w) \subseteq ToSet(v)
        <3> SUFFICES ASSUME NEW i \in DOMAIN w PROVE w[i] \in ToSet(v)
            BY DEF ToSet
        <3>1. i \in DOMAIN v /\ i + 1 \in DOMAIN v
            BY <1>1, <2>1
        <3>2. w[i] = v[i] \/ w[i] = v[i + 1]
            BY <1>6, <2>1
        <3> QED
            BY <3>1, <3>2 DEF ToSet
    <2>3. ASSUME NEW d \in Name
          PROVE  Cardinality(At(w, d)) = Cardinality(At(v, d) \ {p})
        <3> DEFINE shift == [i \in At(w, d) |-> IF i < p THEN i ELSE i + 1]
        <3>1. \A i \in At(w, d) : i \in 1..Len(v) - 1 /\ w[i] = d
            BY <2>1
        <3>2. ASSUME NEW i \in At(w, d) PROVE shift[i] \in At(v, d) \ {p}
            <4>1. i \in Nat /\ i \in DOMAIN v /\ i + 1 \in DOMAIN v /\ p \in Nat
                BY <1>1, <1>6, <3>1
            <4>2. CASE i < p
                BY <1>6, <3>1, <4>1, <4>2
            <4>3. CASE ~(i < p)
                BY <1>6, <3>1, <4>1, <4>3
            <4> QED
                BY <4>2, <4>3
        <3>3. \A i, j \in At(w, d) : shift[i] = shift[j] => i = j
            <4> SUFFICES ASSUME NEW i \in At(w, d), NEW j \in At(w, d), shift[i] = shift[j]
                         PROVE  i = j
                OBVIOUS
            <4>1. i \in Nat /\ j \in Nat /\ p \in Nat
                BY <1>1, <1>6, <3>1
            <4>2. (IF i < p THEN i ELSE i + 1) = (IF j < p THEN j ELSE j + 1)
                OBVIOUS
            <4> HIDE DEF shift, At
            <4> QED
                BY ONLY <4>1, <4>2
        <3>4. ASSUME NEW k \in At(v, d) \ {p} PROVE \E i \in At(w, d) : shift[i] = k
            <4>1. k \in 1..Len(v) /\ p \in 1..Len(v) /\ k # p /\ v[k] = d
                BY <1>1, <1>6
            <4>2. CASE k < p
                <5>1. k \in 1..Len(v) - 1
                    BY <1>1, <4>1, <4>2
                <5>2. w[k] = d
                    BY <1>6, <4>1, <4>2, <5>1
                <5>3. k \in At(w, d)
                    BY <2>1, <5>1, <5>2
                <5> QED
                    BY <4>2, <5>3
            <4>3. CASE ~(k < p)
                <5>1. k - 1 \in 1..Len(v) - 1 /\ ~(k - 1 < p) /\ (k - 1) + 1 = k
                    BY <1>1, <4>1, <4>3
                <5>2. w[k - 1] = d
                    BY <1>6, <4>1, <5>1
                <5>3. k - 1 \in At(w, d)
                    BY <2>1, <5>1, <5>2
                <5>4. shift[k - 1] = k
                    BY <5>1, <5>3
                <5> QED
                    BY <5>3, <5>4
            <4> QED
                BY <4>2, <4>3
        <3>5. shift \in Bijection(At(w, d), At(v, d) \ {p})
            <4> HIDE DEF At
            <4>1. shift \in [At(w, d) -> At(v, d) \ {p}]
                BY <3>2
            <4> HIDE DEF shift
            <4> QED
                BY <3>3, <3>4, <4>1 DEF Bijection, Injection, IsInjective, Surjection
        <3>6. ExistsBijection(At(w, d), At(v, d) \ {p})
            BY <3>5 DEF ExistsBijection
        <3>7. IsFiniteSet(At(w, d))
            BY <1>6, PositionsFinite
        <3> HIDE DEF At
        <3> QED
            BY <3>6, <3>7, FS_Bijection
    <2>4. \A d \in Name : p \in At(v, d) <=> d = n
        BY <1>6
    <2> HIDE DEF At
    <2>5. ASSUME NEW d \in Name
          PROVE  Cardinality(At(w, d)) = Unlisted(BagOf(v), n)[d]
        <3> DEFINE count == Cardinality(At(v, d))
        <3>1. Cardinality(At(v, d) \ {p}) = IF d = n THEN count - 1 ELSE count
            BY <1>4, <2>4, FS_RemoveElement
        <3>2. d = n => count > 0
            <4>1. d = n => At(v, d) # {}
                BY <2>4
            <4>2. count \in Nat /\ (count = 0 => At(v, d) = {})
                BY <1>4, FS_EmptySet
            <4> HIDE DEF count
            <4> QED
                BY <4>1, <4>2
        <3>3. BagOf(v)[d] = count
            BY <1>2
        <3>4. BagOf(v) = [m \in Name |-> BagOf(v)[m]]
            BY <1>2
        <3>5. Unlisted(BagOf(v), n)[d] = IF d = n THEN (IF count > 0 THEN count - 1 ELSE 0) ELSE count
            BY <3>3, <3>4 DEF Unlisted
        <3> QED
            BY <2>3, <3>1, <3>2, <3>5
    <2>6. Unlisted(BagOf(v), n) = [d \in Name |-> Unlisted(BagOf(v), n)[d]]
        BY <1>2 DEF Unlisted
    <2>7. BagOf(w) = Unlisted(BagOf(v), n)
        BY <1>3, <2>5, <2>6
    <2>8. w \in Vectors
        BY <1>6, <2>1, VectorsAreSequences
    <2> QED
        BY <2>2, <2>7, <2>8
<1> HIDE DEF At
<1>7. \/ n \notin ToSet(v) /\ w = v
      \/ \E p \in DOMAIN v :
            /\ v[p] = n /\ w \in Seq(Name) /\ Len(w) = Len(v) - 1
            /\ \A i \in 1..Len(v) - 1 : w[i] = IF i < p THEN v[i] ELSE v[i + 1]
    BY <1>1, ErasedOnce
<1> QED
    BY <1>5, <1>6, <1>7

-----------------------------------------------------------------------------
\* The graph of a list.

\* A list is a graph of TaskGraph, whose dependencies are the vectors' names.
LEMMA BagsAreGraph ==
    ASSUME NEW list, IsList(list)
    PROVE  /\ IsGraph(Bags(list))
           /\ DOMAIN Bags(list) = DOMAIN list
           /\ \A n \in DOMAIN list : DepsOf(Bags(list), n) = ToSet(list[n])
<1>1. ASSUME NEW n \in DOMAIN list
      PROVE  BagOf(list[n]) \in Bag /\ Listed(BagOf(list[n])) = ToSet(list[n])
    <2>1. list[n] \in Seq(Name)
        BY VectorsAreSequences DEF IsList
    <2> QED
        BY <2>1, BagLists
<1>2. DOMAIN Bags(list) = DOMAIN list /\ \A n \in DOMAIN list : Bags(list)[n] = BagOf(list[n])
    BY DEF Bags
<1>3. \A n \in DOMAIN list : DepsOf(Bags(list), n) = ToSet(list[n])
    BY <1>1, <1>2 DEF DepsOf
<1>4. Bags(list) \in [DOMAIN list -> Bag]
    BY <1>1 DEF Bags
<1> QED
    BY <1>2, <1>3, <1>4 DEF IsGraph, IsList

\* Erasing leaves a list.
LEMMA WithoutIsList ==
    ASSUME NEW list, IsList(list), NEW names
    PROVE  IsList(Without(list, names))
BY DEF IsList, Without

\* Emplacing leaves a list.
LEMMA EmplacedIsList ==
    ASSUME NEW list, IsList(list), NEW n \in Name, NEW vector \in Vectors
    PROVE  IsList(Emplaced(list, n, vector))
BY DEF IsList, Emplaced

\* A part of an acyclic graph with fewer dependencies is acyclic.
LEMMA LessIsAcyclic ==
    ASSUME NEW g, NEW h, ~Cyclic(g), DOMAIN h \subseteq DOMAIN g,
           \A n \in DOMAIN h : DepsOf(h, n) \subseteq DepsOf(g, n)
    PROVE  ~Cyclic(h)
<1> SUFFICES ASSUME NEW S \in SUBSET DOMAIN h, Trapped(h, S)
             PROVE  Trapped(g, S)
    BY DEF Cyclic
<1> QED
    BY DEF Trapped

-----------------------------------------------------------------------------
\* What a search knows.

Black(c) == {n \in Name : c[n] = "black"}

\* The calls are one for each gray node.
StackOK(list, c, s) ==
    /\ \A i \in 1..Len(s) : /\ s[i].node \in DOMAIN list
                            /\ s[i].next \in 1..Len(list[s[i].node]) + 1
                            /\ c[s[i].node] = "gray"
    /\ \A i, j \in 1..Len(s) : s[i].node = s[j].node => i = j
    /\ \A n \in Name : c[n] = "gray" => \E i \in 1..Len(s) : s[i].node = n

\* The node of the call that the loop of call i waits for; the last call may
\* be about to call for a node of last.
Called(s, i, last) == IF i < Len(s) THEN {s[i + 1].node} ELSE last

\* What a loop has passed is black, but for the node it waits for, and that
\* node is one of its names.
LoopOK(list, c, s, last) ==
    \A i \in 1..Len(s) :
        /\ \A k \in 1..s[i].next - 1 :
              list[s[i].node][k] \in Black(c) \cup Called(s, i, last)
        /\ Called(s, i, last) \subseteq ToSet(list[s[i].node])

\* Black nodes depend on black nodes, and lie on no cycle.
BlackOK(list, c) ==
    /\ \A n \in Black(c) : n \in DOMAIN list /\ ToSet(list[n]) \subseteq Black(c)
    /\ \A S \in SUBSET Black(c) : ~Trapped(Bags(list), S)

\* The order has the black nodes, each once and after those it depends on.
OrderOK(list, c, o) ==
    /\ ToSet(o) = Black(c)
    /\ \A i \in 1..Len(o) : ToSet(list[o[i]]) \subseteq {o[k] : k \in 1..i - 1}
    /\ \A i, j \in 1..Len(o) : o[i] = o[j] => i = j

\* One more call.
LEMMA CallKeeps ==
    ASSUME NEW list, IsList(list), NEW c \in [Name -> Color], NEW s \in Seq(Frame),
           NEW n \in DOMAIN list, c[n] = "white",
           StackOK(list, c, s), LoopOK(list, c, s, {n})
    PROVE  LET c2 == [c EXCEPT ![n] = "gray"]
               s2 == Append(s, [node |-> n, next |-> 1])
           IN  /\ c2 \in [Name -> Color] /\ s2 \in Seq(Frame)
               /\ Black(c2) = Black(c)
               /\ StackOK(list, c2, s2)
               /\ LoopOK(list, c2, s2, {})
<1> DEFINE frame == [node |-> n, next |-> 1]
           c2 == [c EXCEPT ![n] = "gray"]
           s2 == Append(s, frame)
<1>1. n \in Name /\ frame \in Frame /\ frame.node = n /\ frame.next = 1
    BY DEF IsList, Frame
<1>2. /\ s2 \in Seq(Frame) /\ Len(s2) = Len(s) + 1 /\ s2[Len(s) + 1] = frame
      /\ \A i \in 1..Len(s) : s2[i] = s[i]
    <2> HIDE DEF frame
    <2> QED
        BY <1>1, AppendProperties
<1>3. Len(s) \in Nat
    BY LenProperties
<1>4. /\ c2 \in [Name -> Color] /\ c2[n] = "gray"
      /\ \A m \in Name \ {n} : c2[m] = c[m]
    BY <1>1 DEF Color
<1>5. Black(c2) = Black(c)
    BY <1>1, <1>4 DEF Black
<1> HIDE DEF frame, c2, s2
<1>6. \A i \in 1..Len(s) : s[i].node \in Name /\ s[i].node # n
    BY DEF StackOK, IsList
<1>7. \A i \in 1..Len(s2) : i \in 1..Len(s) \/ i = Len(s) + 1
    BY <1>2, <1>3
<1>8. Len(list[n]) \in Nat
    BY VectorsAreSequences, LenProperties DEF IsList
<1>9. StackOK(list, c2, s2)
    <2>1. ASSUME NEW i \in 1..Len(s2)
          PROVE  /\ s2[i].node \in DOMAIN list
                 /\ s2[i].next \in 1..Len(list[s2[i].node]) + 1
                 /\ c2[s2[i].node] = "gray"
        <3>1. CASE i \in 1..Len(s)
            BY <1>2, <1>4, <1>6, <3>1 DEF StackOK
        <3>2. CASE i = Len(s) + 1
            BY <1>1, <1>2, <1>4, <1>8, <3>2
        <3> QED
            BY <1>7, <3>1, <3>2
    <2>2. ASSUME NEW i \in 1..Len(s2), NEW j \in 1..Len(s2), s2[i].node = s2[j].node
          PROVE  i = j
        <3>1. CASE i \in 1..Len(s) /\ j \in 1..Len(s)
            BY <1>2, <2>2, <3>1 DEF StackOK
        <3>2. CASE i = Len(s) + 1 /\ j \in 1..Len(s)
            BY <1>1, <1>2, <1>6, <2>2, <3>2
        <3>3. CASE i \in 1..Len(s) /\ j = Len(s) + 1
            BY <1>1, <1>2, <1>6, <2>2, <3>3
        <3> QED
            BY <1>7, <3>1, <3>2, <3>3
    <2>3. ASSUME NEW m \in Name, c2[m] = "gray"
          PROVE  \E i \in 1..Len(s2) : s2[i].node = m
        <3>1. CASE m = n
            <4>1. Len(s) + 1 \in 1..Len(s2)
                BY <1>2, <1>3
            <4> QED
                BY <1>1, <1>2, <3>1, <4>1
        <3>2. CASE m # n
            <4>1. PICK i \in 1..Len(s) : s[i].node = m
                BY <1>4, <2>3, <3>2 DEF StackOK
            <4>2. i \in 1..Len(s2)
                BY <1>2, <1>3
            <4> QED
                BY <1>2, <4>1, <4>2
        <3> QED
            BY <3>1, <3>2
    <2> QED
        BY <2>1, <2>2, <2>3 DEF StackOK
<1>10. LoopOK(list, c2, s2, {})
    <2> SUFFICES ASSUME NEW i \in 1..Len(s2)
                 PROVE  /\ \A k \in 1..s2[i].next - 1 :
                              list[s2[i].node][k] \in Black(c2) \cup Called(s2, i, {})
                        /\ Called(s2, i, {}) \subseteq ToSet(list[s2[i].node])
        BY DEF LoopOK
    <2>1. CASE i \in 1..Len(s)
        <3>1. Called(s2, i, {}) = Called(s, i, {n})
            <4>1. i < Len(s2)
                BY <1>2, <1>3, <2>1
            <4>2. i < Len(s) => i + 1 \in 1..Len(s)
                BY <1>3, <2>1
            <4>3. ~(i < Len(s)) => i + 1 = Len(s) + 1
                BY <1>3, <2>1
            <4> QED
                BY <1>1, <1>2, <4>1, <4>2, <4>3 DEF Called
        <3>2. s2[i] = s[i]
            BY <1>2, <2>1
        <3> QED
            BY <1>5, <2>1, <3>1, <3>2 DEF LoopOK
    <2>2. CASE i = Len(s) + 1
        <3>1. s2[i].next - 1 = 0 /\ ~(i < Len(s2))
            BY <1>1, <1>2, <1>3, <2>2
        <3> QED
            BY <3>1 DEF Called
    <2> QED
        BY <1>7, <2>1, <2>2
<1> QED
    BY <1>2, <1>4, <1>5, <1>9, <1>10 DEF c2, s2, frame

\* The loop of the last call goes on to its next name.
LEMMA AdvanceKeeps ==
    ASSUME NEW list, IsList(list), NEW c \in [Name -> Color], NEW s \in Seq(Frame),
           s # << >>, Last(s).next \in DOMAIN list[Last(s).node],
           StackOK(list, c, s), LoopOK(list, c, s, {})
    PROVE  LET s2 == [s EXCEPT ![Len(s)].next = @ + 1]
               d == list[Last(s).node][Last(s).next]
           IN  /\ d \in Name
               /\ s2 \in Seq(Frame) /\ Len(s2) = Len(s)
               /\ StackOK(list, c, s2)
               /\ LoopOK(list, c, s2, {d})
               /\ d \in Black(c) => LoopOK(list, c, s2, {})
<1> DEFINE top == s[Len(s)]
           s2 == [s EXCEPT ![Len(s)].next = @ + 1]
           d == list[top.node][top.next]
<1>1. Len(s) \in Nat /\ Len(s) > 0 /\ DOMAIN s = 1..Len(s) /\ \A i \in 1..Len(s) : s[i] \in Frame
    BY LenProperties, EmptySeq
<1>2. top \in Frame /\ Last(s) = top
    BY <1>1 DEF Last
<1>3. top.node \in Name /\ top.next \in Nat \ {0} /\ top = [node |-> top.node, next |-> top.next]
    BY <1>2 DEF Frame
<1>4. list[top.node] \in Seq(Name) /\ top.node \in DOMAIN list
    <2>1. Len(s) \in 1..Len(s)
        BY <1>1
    <2>2. top.node \in DOMAIN list
        BY <2>1 DEF StackOK
    <2> QED
        BY <2>2, VectorsAreSequences DEF IsList
<1>5. /\ DOMAIN list[top.node] = 1..Len(list[top.node]) /\ Len(list[top.node]) \in Nat
      /\ top.next \in 1..Len(list[top.node]) /\ d \in Name /\ d \in ToSet(list[top.node])
    BY <1>2, <1>4, LenProperties DEF ToSet
<1>6. /\ s2[Len(s)].node = top.node /\ s2[Len(s)].next = top.next + 1
      /\ s2[Len(s)] \in Frame
      /\ \A i \in 1..Len(s) : i # Len(s) => s2[i] = s[i]
      /\ s2 \in Seq(Frame) /\ Len(s2) = Len(s)
    <2>1. s2 = [s EXCEPT ![Len(s)] = [top EXCEPT !.next = top.next + 1]]
        OBVIOUS
    <2>2. [top EXCEPT !.next = top.next + 1] = [node |-> top.node, next |-> top.next + 1]
        BY <1>3
    <2>3. [node |-> top.node, next |-> top.next + 1] \in Frame
        BY <1>3 DEF Frame
    <2> DEFINE frame == [node |-> top.node, next |-> top.next + 1]
    <2>4. s2 = [s EXCEPT ![Len(s)] = frame]
        BY <2>1, <2>2
    <2>5. Len(s) \in 1..Len(s)
        BY <1>1
    <2>6. frame.node = top.node /\ frame.next = top.next + 1 /\ frame \in Frame
        BY <2>3
    <2> HIDE DEF top, s2, frame
    <2>7. s2 \in Seq(Frame) /\ Len(s2) = Len(s)
        BY <2>4, <2>5, <2>6, ExceptSeq
    <2>8. s2[Len(s)] = frame /\ \A i \in 1..Len(s) : i # Len(s) => s2[i] = s[i]
        BY <1>1, <2>4, <2>5
    <2> QED
        BY <2>6, <2>7, <2>8
<1>7. s2 \in Seq(Frame) /\ Len(s2) = Len(s)
    BY <1>6
<1> HIDE DEF top, s2, d
<1>8. \A i \in 1..Len(s) : s2[i].node = s[i].node
    BY <1>6 DEF top
<1>9. StackOK(list, c, s2)
    <2>1. ASSUME NEW i \in 1..Len(s) PROVE s2[i].next \in 1..Len(list[s2[i].node]) + 1
        <3>1. CASE i = Len(s)
            BY <1>5, <1>6, <3>1
        <3>2. CASE i # Len(s)
            BY <1>6, <3>2 DEF StackOK
        <3> QED
            BY <3>1, <3>2
    <2> QED
        BY <1>7, <1>8, <2>1 DEF StackOK
<1>10. ASSUME NEW i \in 1..Len(s), i # Len(s), NEW last
       PROVE  /\ \A k \in 1..s2[i].next - 1 :
                    list[s2[i].node][k] \in Black(c) \cup Called(s2, i, last)
              /\ Called(s2, i, last) \subseteq ToSet(list[s2[i].node])
    <2>1. i < Len(s) /\ i + 1 \in 1..Len(s)
        <3>1. Len(s) \in Nat
            BY <1>1
        <3> QED
            BY <1>10, <3>1
    <2>2. Called(s2, i, last) = Called(s, i, {})
        BY <1>7, <1>8, <2>1 DEF Called
    <2>3. s2[i] = s[i]
        BY <1>6, <1>10
    <2> QED
        BY <2>2, <2>3 DEF LoopOK
<1>11. \A k \in 1..top.next - 1 : list[top.node][k] \in Black(c)
    <2>1. Called(s, Len(s), {}) = {}
        BY <1>1 DEF Called
    <2> QED
        BY <1>1, <2>1 DEF LoopOK, top
<1>12. \A k \in 1..top.next : k \in 1..top.next - 1 \/ k = top.next
    BY <1>3
<1>13. \A last : Called(s2, Len(s), last) = last
    BY <1>1, <1>7 DEF Called
<1>14. s2[Len(s)].next - 1 = top.next
    BY <1>3, <1>6
<1>15. ASSUME NEW last \in {{}, {d}}, d \in Black(c) \cup last
       PROVE  LoopOK(list, c, s2, last)
    <2>1. \A k \in 1..s2[Len(s)].next - 1 :
              list[s2[Len(s)].node][k] \in Black(c) \cup Called(s2, Len(s), last)
        BY <1>6, <1>11, <1>12, <1>13, <1>14, <1>15 DEF d
    <2>2. Called(s2, Len(s), last) \subseteq ToSet(list[s2[Len(s)].node])
        BY <1>5, <1>6, <1>13, <1>15
    <2> QED
        BY <1>7, <1>10, <2>1, <2>2 DEF LoopOK
<1> QED
    BY <1>2, <1>5, <1>7, <1>9, <1>15 DEF s2, d

\* The calls below the last one.
LEMMA FrontOfCalls ==
    ASSUME NEW s \in Seq(Frame), s # << >>
    PROVE  /\ Front(s) \in Seq(Frame) /\ Len(Front(s)) = Len(s) - 1
           /\ \A i \in 1..Len(s) - 1 : Front(s)[i] = s[i]
<1> DEFINE s2 == Front(s)
<1>1. Len(s) \in Nat /\ Len(s) > 0 /\ \A i \in 1..Len(s) : s[i] \in Frame
    BY LenProperties, EmptySeq
<1>2. 1 \in Int /\ Len(s) - 1 \in Int /\ \A i \in 1..Len(s) - 1 : s[i] \in Frame
    BY <1>1
<1>3. /\ SubSeq(s, 1, Len(s) - 1) \in Seq(Frame)
      /\ Len(SubSeq(s, 1, Len(s) - 1)) = IF 1 <= Len(s) - 1 THEN Len(s) - 1 - 1 + 1 ELSE 0
      /\ \A i \in 1..Len(s) - 1 - 1 + 1 : SubSeq(s, 1, Len(s) - 1)[i] = s[1 + i - 1]
    BY <1>2, SubSeqProperties
<1>4. s2 = SubSeq(s, 1, Len(s) - 1)
    BY DEF Front
<1> HIDE DEF s2
<1> DEFINE size == Len(s2)
<1>5. size = IF 1 <= Len(s) - 1 THEN Len(s) - 1 - 1 + 1 ELSE 0
    BY <1>3, <1>4
<1>6. Len(s) \in Int /\ 1 <= Len(s)
    BY <1>1
<1>7. size = Len(s) - 1
    <2> DEFINE length == Len(s)
    <2>1. /\ size = IF 1 <= length - 1 THEN length - 1 - 1 + 1 ELSE 0
          /\ length \in Int /\ 1 <= length
        BY <1>5, <1>6
    <2> HIDE DEF size, length
    <2>2. size = length - 1
        BY ONLY <2>1
    <2> QED
        BY <2>2 DEF length
<1>8. ASSUME NEW i \in 1..Len(s) - 1 PROVE s2[i] = s[i]
    <2>1. i \in 1..Len(s) - 1 - 1 + 1 /\ 1 + i - 1 = i
        BY <1>6
    <2> QED
        BY <1>3, <1>4, <2>1
<1> QED
    BY <1>3, <1>4, <1>7, <1>8 DEF size, s2

\* The last call has passed all its names and returns.
LEMMA LeaveKeeps ==
    ASSUME NEW list, IsList(list), NEW c \in [Name -> Color], NEW s \in Seq(Frame),
           s # << >>, Last(s).next \notin DOMAIN list[Last(s).node],
           StackOK(list, c, s), LoopOK(list, c, s, {}), BlackOK(list, c)
    PROVE  LET n == Last(s).node
               c2 == [c EXCEPT ![n] = "black"]
           IN  /\ n \in Name /\ n \notin Black(c)
               /\ ToSet(list[n]) \subseteq Black(c)
               /\ c2 \in [Name -> Color] /\ Front(s) \in Seq(Frame)
               /\ Black(c2) = Black(c) \cup {n}
               /\ StackOK(list, c2, Front(s))
               /\ LoopOK(list, c2, Front(s), {})
               /\ BlackOK(list, c2)
<1> DEFINE n == s[Len(s)].node
           c2 == [c EXCEPT ![n] = "black"]
           s2 == Front(s)
<1>1. Len(s) \in Nat /\ Len(s) > 0 /\ \A i \in 1..Len(s) : s[i] \in Frame
    BY LenProperties, EmptySeq
<1>2. Last(s) = s[Len(s)] /\ s[Len(s)].next \in Nat \ {0}
    BY <1>1 DEF Last, Frame
<1>3. n \in DOMAIN list /\ n \in Name /\ c[n] = "gray" /\ list[n] \in Seq(Name)
    BY <1>1, VectorsAreSequences DEF StackOK, IsList
<1>4. n \notin Black(c)
    BY <1>3 DEF Black
<1>5. ToSet(list[n]) \subseteq Black(c)
    <2>1. DOMAIN list[n] = 1..Len(list[n]) /\ Len(list[n]) \in Nat
        BY <1>3, LenProperties
    <2>2. s[Len(s)].next - 1 = Len(list[n])
        BY <1>1, <1>2, <2>1 DEF StackOK
    <2>3. Called(s, Len(s), {}) = {}
        BY <1>1 DEF Called
    <2> QED
        BY <1>1, <2>1, <2>2, <2>3 DEF LoopOK, ToSet
<1>6. /\ s2 \in Seq(Frame) /\ Len(s2) = Len(s) - 1
      /\ \A i \in 1..Len(s) - 1 : s2[i] = s[i]
    BY <1>1, FrontOfCalls
<1>7. /\ c2 \in [Name -> Color] /\ c2[n] = "black"
      /\ \A m \in Name \ {n} : c2[m] = c[m]
    BY <1>3 DEF Color
<1>8. Black(c2) = Black(c) \cup {n}
    BY <1>3, <1>7 DEF Black
<1> HIDE DEF n, c2, s2
<1>9. \A i \in 1..Len(s) - 1 : i \in 1..Len(s) /\ s[i].node \in Name /\ s[i].node # n
    BY <1>1 DEF StackOK, IsList, n
<1>10. StackOK(list, c2, s2)
    <2>1. \A i \in 1..Len(s2) : c2[s2[i].node] = "gray"
        BY <1>6, <1>7, <1>9 DEF StackOK
    <2>2. ASSUME NEW m \in Name, c2[m] = "gray" PROVE \E i \in 1..Len(s2) : s2[i].node = m
        <3>1. m # n /\ c[m] = "gray"
            BY <1>7, <2>2
        <3>2. PICK i \in 1..Len(s) : s[i].node = m
            BY <3>1 DEF StackOK
        <3>3. i \in 1..Len(s) - 1
            BY <1>1, <3>1, <3>2 DEF n
        <3> QED
            BY <1>6, <3>2, <3>3
    <2> QED
        BY <1>6, <1>9, <2>1, <2>2 DEF StackOK
<1>11. LoopOK(list, c2, s2, {})
    <2> SUFFICES ASSUME NEW i \in 1..Len(s) - 1
                 PROVE  /\ \A k \in 1..s2[i].next - 1 :
                              list[s2[i].node][k] \in Black(c2) \cup Called(s2, i, {})
                        /\ Called(s2, i, {}) \subseteq ToSet(list[s2[i].node])
        BY <1>6 DEF LoopOK
    <2>1. s2[i] = s[i] /\ i \in 1..Len(s) /\ i < Len(s)
        BY <1>1, <1>6
    <2>2. Called(s, i, {}) = {s[i + 1].node}
        BY <2>1 DEF Called
    <2>3. CASE i + 1 = Len(s)
        <3>1. Called(s, i, {}) = {n} /\ Called(s2, i, {}) = {}
            BY <1>1, <1>6, <2>2, <2>3 DEF Called, n
        <3> QED
            BY <1>8, <2>1, <3>1 DEF LoopOK
    <2>4. CASE i + 1 # Len(s)
        <3>1. i + 1 \in 1..Len(s) - 1 /\ i < Len(s2)
            BY <1>1, <1>6, <2>4
        <3>2. Called(s2, i, {}) = Called(s, i, {})
            BY <1>6, <2>2, <3>1 DEF Called
        <3> QED
            BY <1>8, <2>1, <3>2 DEF LoopOK
    <2> QED
        BY <2>3, <2>4
<1>12. BlackOK(list, c2)
    <2>1. \A m \in Black(c2) : m \in DOMAIN list /\ ToSet(list[m]) \subseteq Black(c)
        BY <1>3, <1>5, <1>8 DEF BlackOK
    <2>2. \A m \in Black(c2) : DepsOf(Bags(list), m) \subseteq Black(c)
        BY <2>1, BagsAreGraph
    <2>3. ASSUME NEW S \in SUBSET Black(c2), Trapped(Bags(list), S) PROVE FALSE
        <3> DEFINE T == S \ {n}
        <3>1. T \subseteq Black(c)
            BY <1>8
        <3>2. \A m \in S : DepsOf(Bags(list), m) \cap T # {}
            BY <1>4, <2>2, <2>3 DEF Trapped
        <3>3. Trapped(Bags(list), T)
            BY <2>3, <3>2 DEF Trapped
        <3> QED
            BY <3>1, <3>3 DEF BlackOK
    <2> QED
        BY <1>8, <2>1, <2>3 DEF BlackOK
<1> QED
    BY <1>2, <1>3, <1>4, <1>5, <1>6, <1>7, <1>8, <1>10, <1>11, <1>12 DEF n, c2, s2

\* A name that is gray closes a cycle: the calls from its own to the last.
LEMMA GrayIsCycle ==
    ASSUME NEW list, IsList(list), NEW c \in [Name -> Color], NEW s \in Seq(Frame),
           NEW d \in Name, c[d] = "gray", s # << >>,
           StackOK(list, c, s), LoopOK(list, c, s, {}), d \in ToSet(list[Last(s).node])
    PROVE  Cyclic(Bags(list))
<1>1. Len(s) \in Nat /\ Len(s) > 0
    BY LenProperties, EmptySeq
<1>2. PICK j \in 1..Len(s) : s[j].node = d
    BY DEF StackOK
<1> DEFINE S == {s[i].node : i \in j..Len(s)}
<1>3. \A i \in j..Len(s) : i \in 1..Len(s)
    BY <1>1, <1>2
<1>4. S \subseteq DOMAIN list
    BY <1>3 DEF StackOK
<1>5. d \in S
    BY <1>1, <1>2
<1>6. ASSUME NEW i \in j..Len(s) PROVE ToSet(list[s[i].node]) \cap S # {}
    <2>1. CASE i < Len(s)
        <3>1. i + 1 \in j..Len(s)
            BY <1>1, <1>2, <2>1
        <3>2. Called(s, i, {}) = {s[i + 1].node}
            BY <2>1 DEF Called
        <3>3. s[i + 1].node \in ToSet(list[s[i].node])
            BY <1>3, <3>2 DEF LoopOK
        <3> QED
            BY <3>1, <3>3
    <2>2. CASE ~(i < Len(s))
        <3>1. i = Len(s)
            BY <1>1, <1>2, <2>2
        <3> QED
            BY <1>5, <3>1 DEF Last
    <2> QED
        BY <2>1, <2>2
<1>7. \A n \in S : DepsOf(Bags(list), n) \cap S # {}
    BY <1>3, <1>4, <1>6, BagsAreGraph
<1> HIDE DEF S
<1>8. Trapped(Bags(list), S)
    BY <1>5, <1>7 DEF Trapped
<1> QED
    BY <1>4, <1>8, BagsAreGraph DEF Cyclic

\* When every key is done, there is no cycle and no missing name.
LEMMA AllBlackIsSound ==
    ASSUME NEW list, IsList(list), NEW c \in [Name -> Color],
           \A n \in DOMAIN list : c[n] # "white",
           StackOK(list, c, << >>), BlackOK(list, c)
    PROVE  /\ Black(c) = DOMAIN list
           /\ Closed(Bags(list))
           /\ ~Cyclic(Bags(list))
<1>1. \A n \in Name : c[n] # "gray"
    <2>1. 1..Len(<< >>) = {}
        OBVIOUS
    <2> QED
        BY <2>1 DEF StackOK
<1>2. Black(c) = DOMAIN list
    BY <1>1 DEF Black, BlackOK, IsList, Color
<1>3. Closed(Bags(list))
    BY <1>2, BagsAreGraph DEF Closed, BlackOK
<1>4. ~Cyclic(Bags(list))
    BY <1>2, BagsAreGraph DEF Cyclic, BlackOK
<1> QED
    BY <1>2, <1>3, <1>4

\* dfs books a node after those it depends on.
LEMMA OrderGrows ==
    ASSUME NEW list, NEW c, NEW c2, NEW o \in Seq(Name), NEW n \in Name,
           OrderOK(list, c, o), n \notin Black(c), ToSet(list[n]) \subseteq Black(c),
           Black(c2) = Black(c) \cup {n}
    PROVE  Append(o, n) \in Seq(Name) /\ OrderOK(list, c2, Append(o, n))
<1> DEFINE o2 == Append(o, n)
<1>1. /\ o2 \in Seq(Name) /\ Len(o2) = Len(o) + 1 /\ o2[Len(o) + 1] = n
      /\ \A i \in 1..Len(o) : o2[i] = o[i]
    BY AppendProperties
<1>2. Len(o) \in Nat /\ DOMAIN o = 1..Len(o) /\ DOMAIN o2 = 1..Len(o2)
    BY <1>1, LenProperties
<1> HIDE DEF o2
<1>3. \A i \in 1..Len(o2) : i \in 1..Len(o) \/ i = Len(o) + 1
    BY <1>1, <1>2
<1>4. \A i \in 1..Len(o) : i \in 1..Len(o2)
    BY <1>1, <1>2
<1>5. Len(o) + 1 \in 1..Len(o2)
    BY <1>1, <1>2
<1>6. Black(c) = {o[k] : k \in 1..Len(o)}
    BY <1>2 DEF OrderOK, ToSet
<1>7. ToSet(o2) = Black(c2)
    <2>1. ToSet(o2) = {o2[k] : k \in 1..Len(o2)}
        BY <1>2 DEF ToSet
    <2> QED
        BY <1>1, <1>3, <1>4, <1>5, <1>6, <2>1
<1>8. ASSUME NEW i \in 1..Len(o2)
      PROVE  ToSet(list[o2[i]]) \subseteq {o2[k] : k \in 1..i - 1}
    <2>1. CASE i \in 1..Len(o)
        <3>1. \A k \in 1..i - 1 : o2[k] = o[k]
            BY <1>1, <1>2, <2>1
        <3>2. ToSet(list[o[i]]) \subseteq {o[k] : k \in 1..i - 1}
            BY <2>1 DEF OrderOK
        <3> QED
            BY <1>1, <2>1, <3>1, <3>2
    <2>2. CASE i = Len(o) + 1
        <3>1. i - 1 = Len(o)
            BY <1>2, <2>2
        <3> QED
            BY <1>1, <1>6, <2>2, <3>1
    <2> QED
        BY <1>3, <2>1, <2>2
<1>9. \A i, j \in 1..Len(o2) : o2[i] = o2[j] => i = j
    <2>1. \A i \in 1..Len(o) : o[i] # n
        BY <1>6
    <2> QED
        BY <1>1, <1>3, <2>1 DEF OrderOK
<1> QED
    BY <1>1, <1>7, <1>8, <1>9 DEF OrderOK, o2

\* What topological_sort returns: that order, from its end.
LEMMA ReversedOrder ==
    ASSUME NEW list, NEW c, NEW o \in Seq(Name), OrderOK(list, c, o)
    PROVE  /\ Reverse(o) \in Seq(Name)
           /\ ToSet(Reverse(o)) = Black(c)
           /\ \A i, j \in DOMAIN Reverse(o) : i < j =>
                 Reverse(o)[i] \notin ToSet(list[Reverse(o)[j]]) \cup {Reverse(o)[j]}
<1> DEFINE r == Reverse(o)
           length == Len(o)
<1>1. length \in Nat /\ DOMAIN o = 1..length /\ \A i \in 1..length : o[i] \in Name
    BY LenProperties
<1>2. r = [i \in 1..length |-> o[(length - i) + 1]]
    BY DEF Reverse
<1> HIDE DEF r, length
<1>3. \A i \in 1..length : (length - i) + 1 \in 1..length /\ (length - ((length - i) + 1)) + 1 = i
    BY <1>1
<1>4. r \in [1..length -> Name]
    BY <1>1, <1>2, <1>3
<1>5. r \in Seq(Name)
    BY <1>1, <1>4
<1>6. ToSet(r) = ToSet(o)
    <2>1. ToSet(r) = {r[i] : i \in 1..length} /\ ToSet(o) = {o[i] : i \in 1..length}
        BY <1>1, <1>2 DEF ToSet
    <2>2. \A i \in 1..length : r[i] = o[(length - i) + 1] /\ o[i] = r[(length - i) + 1]
        BY <1>2, <1>3
    <2> QED
        BY <1>3, <2>1, <2>2
<1>7. ASSUME NEW i \in 1..length, NEW j \in 1..length, i < j
      PROVE  r[i] \notin ToSet(list[r[j]]) \cup {r[j]}
    <2> DEFINE a == (length - i) + 1
               b == (length - j) + 1
    <2>1. /\ a \in 1..length /\ b \in 1..length /\ b < a
          /\ \A k \in 1..b - 1 : k \in 1..length /\ k # a
        BY <1>1, <1>7
    <2>2. r[i] = o[a] /\ r[j] = o[b]
        BY <1>2
    <2> HIDE DEF a, b
    <2>3. o[a] # o[b] /\ \A k \in 1..b - 1 : o[k] # o[a]
        BY <2>1 DEF OrderOK, length
    <2>4. ToSet(list[o[b]]) \subseteq {o[k] : k \in 1..b - 1}
        BY <2>1 DEF OrderOK, length
    <2> QED
        BY <2>2, <2>3, <2>4
<1> QED
    BY <1>2, <1>5, <1>6, <1>7 DEF r, OrderOK

-----------------------------------------------------------------------------
\* The inductive invariant.

TypeInv == /\ IsList(adjacency_list)
           /\ pushed \subseteq DOMAIN adjacency_list
           /\ \A m, n \in pushed : m = n
           /\ color \in [Name -> Color]
           /\ stack \in Seq(Frame)
           /\ order \in Seq(Name)
           /\ answer \in Answers

\* Between two calls nothing is left of a search.
RestInv == Idle => color = AllWhite /\ stack = << >> /\ pushed = {}

SearchInv == Searching =>
    /\ StackOK(adjacency_list, color, stack)
    /\ LoopOK(adjacency_list, color, stack, {})
    /\ BlackOK(adjacency_list, color)
    /\ IF Sorting THEN OrderOK(adjacency_list, color, order) ELSE order = << >>

\* What was pushed before has no cycle.
GraphInv == ~Cyclic(Graph)

\* What run_order answers: dependants come first.
DependantsFirst ==
    answer = "ordered" =>
        \A i, j \in DOMAIN order : i < j => order[i] \notin ToSet(adjacency_list[order[j]])

OrderInv ==
    /\ answer # "nullopt"
    /\ answer = "ordered" =>
          /\ ToSet(order) = DOMAIN adjacency_list
          /\ \A i, j \in DOMAIN order : i < j =>
                order[i] \notin ToSet(adjacency_list[order[j]]) \cup {order[j]}

IInv == /\ TypeInv
        /\ RestInv
        /\ SearchInv
        /\ GraphInv
        /\ OrderInv

\* A search that begins knows nothing.
LEMMA BeginOK ==
    ASSUME NEW list
    PROVE  /\ StackOK(list, AllWhite, << >>)
           /\ LoopOK(list, AllWhite, << >>, {})
           /\ BlackOK(list, AllWhite)
           /\ OrderOK(list, AllWhite, << >>)
           /\ AllWhite \in [Name -> Color]
<1>1. 1..Len(<< >>) = {} /\ ToSet(<< >>) = {}
    BY DEF ToSet
<1>2. Black(AllWhite) = {}
    BY DEF Black, AllWhite
<1>3. \A n \in Name : AllWhite[n] # "gray"
    BY DEF AllWhite
<1>4. StackOK(list, AllWhite, << >>)
    BY <1>1, <1>3 DEF StackOK
<1>5. LoopOK(list, AllWhite, << >>, {})
    BY <1>1 DEF LoopOK
<1>6. BlackOK(list, AllWhite)
    BY <1>2 DEF BlackOK, Trapped
<1>7. OrderOK(list, AllWhite, << >>)
    BY <1>1, <1>2 DEF OrderOK
<1>8. AllWhite \in [Name -> Color]
    BY DEF AllWhite, Color
<1> QED
    BY <1>4, <1>5, <1>6, <1>7, <1>8

\* Nothing pushed, nothing to take back.
LEMMA WithoutNone ==
    ASSUME NEW list, IsList(list)
    PROVE  Without(list, {}) = list
BY DEF IsList, Without

\* What push_task emplaces it can take back.
LEMMA WithoutEmplaced ==
    ASSUME NEW list, IsList(list), NEW n \in Name \ DOMAIN list, NEW vector \in Vectors
    PROVE  Without(Emplaced(list, n, vector), {n}) = list
<1>1. DOMAIN Emplaced(list, n, vector) \ {n} = DOMAIN list
    BY DEF Emplaced
<1>2. \A m \in DOMAIN list : Emplaced(list, n, vector)[m] = list[m]
    BY DEF Emplaced
<1> QED
    BY <1>1, <1>2 DEF IsList, Without

\* The list with the pushed task is the graph before with that task.
LEMMA InsertedBack ==
    ASSUME NEW list, IsList(list), NEW n \in DOMAIN list
    PROVE  /\ Inserted(Bags(Without(list, {n})), n, BagOf(list[n])) = Bags(list)
           /\ n \notin DOMAIN Bags(Without(list, {n}))
<1> DEFINE before == Bags(Without(list, {n}))
<1>1. /\ DOMAIN before = DOMAIN list \ {n}
      /\ \A m \in DOMAIN list \ {n} : before[m] = BagOf(list[m])
    BY DEF Bags, Without
<1> HIDE DEF before
<1>2. DOMAIN before \cup {n} = DOMAIN list
    BY <1>1
<1> QED
    BY <1>1, <1>2 DEF Inserted, Bags, before

\* The constructor leaves one node and no search.
LEMMA InitInv ==
    ASSUME SearchAssumption, Init PROVE IInv
<1>1. << >> \in Vectors
    <2>1. << >> \in Seq(Name) /\ Len(<< >>) = 0
        OBVIOUS
    <2>2. 0 <= MaxListed
        BY SearchAssumption
    <2> QED
        BY <2>1, <2>2, VectorsAreSequences
<1>2. IsList(adjacency_list)
    BY <1>1, SearchAssumption DEF Init, IsList
<1>3. TypeInv
    BY <1>2, BeginOK DEF Init, TypeInv, Answers
<1>4. Graph = Bags(adjacency_list)
    BY <1>2, WithoutNone DEF Graph, Init
<1>5. \A n \in DOMAIN adjacency_list : DepsOf(Bags(adjacency_list), n) = {}
    <2>1. \A n \in DOMAIN adjacency_list : ToSet(adjacency_list[n]) = {}
        BY DEF Init, ToSet
    <2> QED
        BY <1>2, <2>1, BagsAreGraph
<1>6. GraphInv
    BY <1>2, <1>4, <1>5, BagsAreGraph DEF GraphInv, Cyclic, Trapped
<1>7. RestInv /\ SearchInv /\ OrderInv
    BY DEF Init, RestInv, SearchInv, Searching, OrderInv
<1> QED
    BY <1>3, <1>6, <1>7 DEF IInv

\* What a call leaves when it returns.
LEMMA OverKeeps ==
    ASSUME TypeInv, GraphInv', NEW result \in Answers \ {"pending", "terminate", "nullopt"},
           Over(result), pushed' = {}, IsList(adjacency_list)', order' \in Seq(Name),
           result = "ordered" => OrderInv'
    PROVE  IInv'
<1>1. TypeInv'
    BY BeginOK DEF TypeInv, Over
<1>2. RestInv' /\ SearchInv' /\ OrderInv'
    BY DEF Over, RestInv, SearchInv, Searching, OrderInv
<1> QED
    BY <1>1, <1>2 DEF IInv

\* push_task is refused a name that is there, or begins has_cycle.
LEMMA PushTaskKeeps ==
    ASSUME IInv, NEW n \in Name, NEW vector \in Vectors, PushTask(n, vector)
    PROVE  IInv' /\ TaskGraphStep
<1>1. /\ Idle /\ IsList(adjacency_list) /\ pushed = {} /\ color = AllWhite /\ stack = << >>
      /\ order' = << >>
    BY DEF IInv, TypeInv, RestInv, PushTask
<1>2. Graph = Bags(adjacency_list)
    BY <1>1, WithoutNone DEF Graph
<1>3. CASE n \in DOMAIN adjacency_list
    <2>1. /\ answer' = "contains_duplicates"
          /\ UNCHANGED <<adjacency_list, pushed, color, stack>>
        BY <1>3 DEF PushTask, walk
    <2>2. Graph' = Graph
        BY <2>1 DEF Graph
    <2>3. IInv'
        BY <1>1, <2>1, <2>2
        DEF IInv, TypeInv, Answers, RestInv, SearchInv, Searching, GraphInv, OrderInv
    <2> QED
        BY <2>1, <2>2, <2>3 DEF TaskGraphStep
<1>4. CASE n \notin DOMAIN adjacency_list
    <2>1. /\ answer' = "pending" /\ pushed' = {n} /\ color' = color /\ stack' = stack
          /\ adjacency_list' = Emplaced(adjacency_list, n, vector)
        BY <1>4 DEF PushTask, walk
    <2>2. IsList(adjacency_list') /\ n \in DOMAIN adjacency_list'
        BY <1>1, <2>1, EmplacedIsList DEF Emplaced
    <2>3. Graph' = Graph
        BY <1>1, <1>2, <1>4, <2>1, WithoutEmplaced DEF Graph
    <2>4. TypeInv'
        BY <1>1, <2>1, <2>2 DEF IInv, TypeInv, Answers
    <2>5. SearchInv'
        BY <1>1, <2>1, BeginOK DEF SearchInv, Sorting
    <2>6. RestInv' /\ OrderInv'
        BY <2>1 DEF RestInv, Idle, OrderInv
    <2>7. GraphInv'
        BY <2>3 DEF IInv, GraphInv
    <2> QED
        BY <2>1, <2>3, <2>4, <2>5, <2>6, <2>7 DEF IInv, TaskGraphStep
<1> QED
    BY <1>3, <1>4

\* run_order begins topological_sort.
LEMMA RunOrderKeeps ==
    ASSUME IInv, RunOrder
    PROVE  IInv' /\ TaskGraphStep
<1>1. /\ Idle /\ IsList(adjacency_list) /\ pushed = {} /\ color = AllWhite /\ stack = << >>
      /\ order' = << >> /\ answer' = "pending"
      /\ UNCHANGED <<adjacency_list, pushed, color, stack>>
    BY DEF IInv, TypeInv, RestInv, RunOrder, walk
<1>2. Graph' = Graph
    BY <1>1 DEF Graph
<1>3. TypeInv' /\ GraphInv' /\ RestInv' /\ OrderInv'
    BY <1>1, <1>2 DEF IInv, TypeInv, Answers, GraphInv, RestInv, Idle, OrderInv
<1>4. SearchInv'
    BY <1>1, BeginOK DEF SearchInv, Sorting
<1> QED
    BY <1>1, <1>2, <1>3, <1>4 DEF IInv, TaskGraphStep

\* remove_task is what TaskGraph says, and closes no cycle.
LEMMA RemoveTaskKeeps ==
    ASSUME IInv, NEW n \in Name, RemoveTask(n)
    PROVE  IInv' /\ TaskGraphStep
<1>1. /\ Idle /\ IsList(adjacency_list) /\ pushed = {} /\ color = AllWhite /\ stack = << >>
      /\ order' = << >>
    BY DEF IInv, TypeInv, RestInv, RemoveTask
<1>2. Graph = Bags(adjacency_list)
    BY <1>1, WithoutNone DEF Graph
<1>3. CASE n \notin DOMAIN adjacency_list
    <2>1. /\ answer' = "task_not_found"
          /\ UNCHANGED <<adjacency_list, pushed, color, stack>>
        BY <1>3 DEF RemoveTask, walk
    <2>2. Graph' = Graph
        BY <2>1 DEF Graph
    <2>3. IInv'
        BY <1>1, <2>1, <2>2
        DEF IInv, TypeInv, Answers, RestInv, SearchInv, Searching, GraphInv, OrderInv
    <2> QED
        BY <2>1, <2>2, <2>3 DEF TaskGraphStep
<1>4. CASE n \in DOMAIN adjacency_list
    <2> DEFINE erased == [m \in DOMAIN adjacency_list \ {n} |-> Erased(adjacency_list[m], n)]
    <2>1. /\ answer' = "ok" /\ pushed' = pushed /\ color' = color /\ stack' = stack
          /\ adjacency_list' = erased
        BY <1>4 DEF RemoveTask, walk
    <2>2. ASSUME NEW m \in DOMAIN adjacency_list
          PROVE  /\ Erased(adjacency_list[m], n) \in Vectors
                 /\ ToSet(Erased(adjacency_list[m], n)) \subseteq ToSet(adjacency_list[m])
                 /\ BagOf(Erased(adjacency_list[m], n)) = Unlisted(BagOf(adjacency_list[m]), n)
        <3>1. adjacency_list[m] \in Vectors
            BY <1>1 DEF IsList
        <3> QED
            BY <3>1, ErasedIsUnlisted
    <2>3. IsList(erased)
        BY <1>1, <2>2 DEF IsList
    <2>4. Bags(erased) = Removed(Bags(adjacency_list), n)
        BY <2>2 DEF Bags, Removed
    <2>5. Graph' = Bags(erased)
        BY <1>1, <2>1, <2>3, WithoutNone DEF Graph
    <2>6. GraphInv'
        <3>1. DOMAIN Bags(erased) \subseteq DOMAIN Bags(adjacency_list)
            BY <1>1, <2>3, BagsAreGraph
        <3>2. \A m \in DOMAIN Bags(erased) :
                  DepsOf(Bags(erased), m) \subseteq DepsOf(Bags(adjacency_list), m)
            BY <1>1, <2>2, <2>3, BagsAreGraph
        <3> QED
            BY <1>2, <2>5, <3>1, <3>2, LessIsAcyclic DEF IInv, GraphInv
    <2>7. TypeInv' /\ RestInv' /\ SearchInv' /\ OrderInv'
        BY <1>1, <2>1, <2>3 DEF IInv, TypeInv, Answers, RestInv, SearchInv, Searching,
                                OrderInv
    <2>8. TaskGraphStep
        BY <1>2, <1>4, <2>1, <2>4, <2>5 DEF TaskGraphStep, Bags
    <2> QED
        BY <2>6, <2>7, <2>8 DEF IInv
<1> QED
    BY <1>3, <1>4

\* What the graph of TaskGraph is while a search goes on.
LEMMA GraphInSearch ==
    ASSUME IInv
    PROVE  /\ Sorting => Graph = Bags(adjacency_list)
           /\ \A n \in pushed :
                /\ n \in DOMAIN adjacency_list
                /\ Graph = Bags(Without(adjacency_list, {n}))
                /\ n \notin DOMAIN Graph
                /\ Inserted(Graph, n, BagOf(adjacency_list[n])) = Bags(adjacency_list)
<1>1. IsList(adjacency_list) /\ \A n \in pushed : n \in DOMAIN adjacency_list
    BY DEF IInv, TypeInv
<1>2. \A n \in pushed : pushed = {n}
    BY DEF IInv, TypeInv
<1>3. Sorting => Graph = Bags(adjacency_list)
    BY <1>1, WithoutNone DEF Graph, Sorting
<1>4. \A n \in pushed : Graph = Bags(Without(adjacency_list, {n}))
    BY <1>2 DEF Graph
<1> QED
    BY <1>1, <1>3, <1>4, InsertedBack

\* A search that has found what is there answers as TaskGraph does.
LEMMA FoundIsAnswered ==
    ASSUME IInv, Searching,
           NEW found \in SearchOutcomes(Bags(adjacency_list)),
           Sorting => Graph' = Graph /\ answer' = CASE found = "cycle" -> "nullopt"
                                                    [] found = "throws" -> "out_of_range"
                                                    [] OTHER -> "ordered",
           ~Sorting => /\ answer' = CASE found = "cycle" -> "task_creates_cycle"
                                      [] found = "throws" -> "terminate"
                                      [] OTHER -> "ok"
                       /\ Graph' = IF found = "acyclic" THEN Bags(adjacency_list) ELSE Graph
    PROVE  TaskGraphStep
<1>1. CASE Sorting
    BY <1>1, GraphInSearch DEF TaskGraphStep
<1>2. CASE ~Sorting
    <2>1. PICK n \in pushed : TRUE
        BY <1>2 DEF Sorting
    <2> DEFINE bag == BagOf(adjacency_list[n])
    <2>2. n \notin DOMAIN Graph /\ Inserted(Graph, n, bag) = Bags(adjacency_list)
        BY GraphInSearch
    <2>3. [result |-> answer', graph |-> Graph'] \in PushResults(Graph, n, bag)
        BY <1>2, <2>2 DEF PushResults
    <2> QED
        BY <2>3 DEF TaskGraphStep
<1> QED
    BY <1>1, <1>2

\* A call, or the exception that its at throws.
LEMMA CallKeepsInv ==
    ASSUME IInv, Searching, NEW n \in Name, NEW calls \in Seq(Frame), color[n] = "white",
           StackOK(adjacency_list, color, calls), LoopOK(adjacency_list, color, calls, {n}),
           n \in DOMAIN adjacency_list \/ \E m \in DOMAIN adjacency_list : n \in ToSet(adjacency_list[m]),
           Call(n, calls)
    PROVE  IInv' /\ TaskGraphStep
<1>1. CASE n \in DOMAIN adjacency_list
    <2>1. /\ color' = [color EXCEPT ![n] = "gray"]
          /\ stack' = Append(calls, [node |-> n, next |-> 1])
          /\ UNCHANGED <<adjacency_list, pushed, order, answer>>
        BY <1>1 DEF Call
    <2>2. IsList(adjacency_list) /\ color \in [Name -> Color]
        BY DEF IInv, TypeInv
    <2>3. /\ color' \in [Name -> Color] /\ stack' \in Seq(Frame)
          /\ Black(color') = Black(color)
          /\ StackOK(adjacency_list, color', stack')
          /\ LoopOK(adjacency_list, color', stack', {})
        <3> DEFINE c2 == [color EXCEPT ![n] = "gray"]
                   s2 == Append(calls, [node |-> n, next |-> 1])
        <3>1. /\ c2 \in [Name -> Color] /\ s2 \in Seq(Frame)
              /\ Black(c2) = Black(color)
              /\ StackOK(adjacency_list, c2, s2)
              /\ LoopOK(adjacency_list, c2, s2, {})
            BY <1>1, <2>2, CallKeeps
        <3> QED
            BY <2>1, <3>1
    <2>4. Graph' = Graph
        BY <2>1 DEF Graph
    <2>5. TypeInv' /\ RestInv' /\ GraphInv' /\ OrderInv'
        BY <2>1, <2>3, <2>4 DEF IInv, TypeInv, RestInv, Idle, Searching, GraphInv, OrderInv
    <2>6. BlackOK(adjacency_list, color') /\ (Sorting => OrderOK(adjacency_list, color', order))
        BY <2>3 DEF IInv, SearchInv, BlackOK, OrderOK
    <2>7. SearchInv'
        BY <2>1, <2>3, <2>6 DEF IInv, SearchInv, Searching, Sorting
    <2> QED
        BY <2>1, <2>4, <2>5, <2>7 DEF IInv, Searching, TaskGraphStep
<1>2. CASE n \notin DOMAIN adjacency_list
    <2>1. Throws
        BY <1>2 DEF Call
    <2>2. "throws" \in SearchOutcomes(Bags(adjacency_list))
        <3>1. ~Closed(Bags(adjacency_list))
            BY <1>2, BagsAreGraph DEF IInv, TypeInv, Closed
        <3> QED
            BY <3>1 DEF SearchOutcomes
    <2>3. UNCHANGED <<adjacency_list, pushed>>
        BY <2>1 DEF Throws
    <2>4. Graph' = Graph
        BY <2>3 DEF Graph
    <2>5. TaskGraphStep
        BY <2>1, <2>2, <2>4, FoundIsAnswered DEF Throws, Over
    <2>6. CASE Sorting
        <3>1. Over("out_of_range") /\ order' = << >> /\ pushed' = {}
            BY <2>1, <2>3, <2>6 DEF Throws, Sorting
        <3>2. TypeInv /\ GraphInv' /\ IsList(adjacency_list)'
            BY <2>3, <2>4 DEF IInv, TypeInv, GraphInv
        <3>3. IInv'
            BY <3>1, <3>2, OverKeeps DEF Answers
        <3> QED
            BY <2>5, <3>3
    <2>7. CASE ~Sorting
        <3>1. answer' = "terminate" /\ UNCHANGED <<color, stack, order>>
            BY <2>1, <2>7 DEF Throws, walk
        <3>2. IInv'
            BY <2>3, <2>4, <3>1 DEF IInv, TypeInv, Answers, RestInv, Idle, SearchInv, Searching,
                                    GraphInv, OrderInv
        <3> QED
            BY <2>5, <3>2
    <2> QED
        BY <2>6, <2>7
<1> QED
    BY <1>1, <1>2

\* A search goes on from a key nothing has reached.
LEMMA StartFromKeeps ==
    ASSUME IInv, NEW key \in KeysLeft, StartFrom(key)
    PROVE  IInv' /\ TaskGraphStep
<1>1. Searching /\ stack = << >> /\ Call(key, stack)
    BY DEF StartFrom
<1>2. key \in DOMAIN adjacency_list /\ key \in Name /\ color[key] = "white"
    BY DEF KeysLeft, IInv, TypeInv, IsList
<1>3. stack \in Seq(Frame) /\ StackOK(adjacency_list, color, stack)
    BY <1>1 DEF IInv, TypeInv, SearchInv
<1>4. LoopOK(adjacency_list, color, stack, {key})
    <2>1. 1..Len(<< >>) = {}
        OBVIOUS
    <2> QED
        BY <1>1, <2>1 DEF LoopOK
<1> QED
    BY <1>1, <1>2, <1>3, <1>4, CallKeepsInv

\* What the last loop looks at.
LEMMA LoopLooks ==
    ASSUME IInv, InLoop
    PROVE  /\ Top.node \in DOMAIN adjacency_list
           /\ Neighbor \in ToSet(adjacency_list[Top.node])
           /\ Neighbor \in Name
           /\ Advanced \in Seq(Frame)
           /\ StackOK(adjacency_list, color, Advanced)
           /\ LoopOK(adjacency_list, color, Advanced, {Neighbor})
           /\ color[Neighbor] = "black" => LoopOK(adjacency_list, color, Advanced, {})
<1>1. /\ Searching /\ stack # << >> /\ stack \in Seq(Frame) /\ color \in [Name -> Color]
      /\ IsList(adjacency_list) /\ Last(stack).next \in DOMAIN adjacency_list[Last(stack).node]
      /\ StackOK(adjacency_list, color, stack) /\ LoopOK(adjacency_list, color, stack, {})
    BY DEF IInv, TypeInv, SearchInv, InLoop, Top
<1>2. Len(stack) \in 1..Len(stack)
    BY <1>1, LenProperties, EmptySeq
<1>3. Top.node \in DOMAIN adjacency_list
    BY <1>1, <1>2 DEF StackOK, Top, Last
<1>4. Neighbor \in ToSet(adjacency_list[Top.node])
    BY <1>1 DEF Neighbor, Top, ToSet
<1> QED
    BY <1>1, <1>3, <1>4, AdvanceKeeps DEF Neighbor, Top, Advanced, Black

\* A white name is called for.
LEMMA DescendKeeps ==
    ASSUME IInv, Descend
    PROVE  IInv' /\ TaskGraphStep
<1>1. InLoop /\ Searching /\ color[Neighbor] = "white" /\ Call(Neighbor, Advanced)
    BY DEF Descend, InLoop
<1> QED
    BY <1>1, LoopLooks, CallKeepsInv

\* A black name is passed over.
LEMMA PassOverKeeps ==
    ASSUME IInv, PassOver
    PROVE  IInv' /\ TaskGraphStep
<1>1. InLoop /\ Searching /\ color[Neighbor] = "black" /\ stack' = Advanced
      /\ UNCHANGED <<adjacency_list, pushed, color, order, answer>>
    BY DEF PassOver, InLoop
<1>2. Graph' = Graph
    BY <1>1 DEF Graph
<1>3. stack' \in Seq(Frame) /\ StackOK(adjacency_list, color, stack')
      /\ LoopOK(adjacency_list, color, stack', {})
    BY <1>1, LoopLooks
<1>4. TypeInv' /\ RestInv' /\ GraphInv' /\ OrderInv'
    BY <1>1, <1>2, <1>3 DEF IInv, TypeInv, RestInv, Idle, Searching, GraphInv, OrderInv
<1>5. SearchInv'
    BY <1>1, <1>3 DEF IInv, SearchInv, Searching, Sorting
<1> QED
    BY <1>1, <1>2, <1>4, <1>5 DEF IInv, Searching, TaskGraphStep

\* A gray name is a cycle; with nothing pushed there can be none.
LEMMA FindCycleKeeps ==
    ASSUME IInv, FindCycle
    PROVE  IInv' /\ TaskGraphStep
<1>1. /\ InLoop /\ Searching /\ stack # << >> /\ color[Neighbor] = "gray"
      /\ Over(IF Sorting THEN "nullopt" ELSE "task_creates_cycle")
      /\ order' = << >> /\ pushed' = {}
      /\ adjacency_list' = Without(adjacency_list, pushed)
    BY DEF FindCycle, InLoop
<1>2. IsList(adjacency_list) /\ color \in [Name -> Color] /\ stack \in Seq(Frame)
    BY DEF IInv, TypeInv
<1>3. Cyclic(Bags(adjacency_list))
    BY <1>1, <1>2, LoopLooks, GrayIsCycle DEF IInv, SearchInv, Top
<1>4. ~Sorting
    BY <1>3, GraphInSearch DEF IInv, GraphInv
<1>5. IsList(adjacency_list')
    BY <1>1, <1>2, WithoutIsList
<1>6. Graph' = Graph
    BY <1>1, <1>5, WithoutNone DEF Graph
<1>7. IInv'
    <2>1. Over("task_creates_cycle") /\ TypeInv /\ GraphInv'
        BY <1>1, <1>4, <1>6 DEF IInv, GraphInv
    <2> QED
        BY <1>1, <1>5, <2>1, OverKeeps DEF Answers
<1>8. "cycle" \in SearchOutcomes(Bags(adjacency_list))
    BY <1>3 DEF SearchOutcomes
<1>9. TaskGraphStep
    BY <1>1, <1>4, <1>6, <1>8, FoundIsAnswered DEF Over
<1> QED
    BY <1>7, <1>9

\* A call that returns leaves its node black.
LEMMA LeaveKeepsInv ==
    ASSUME IInv, Leave
    PROVE  IInv' /\ TaskGraphStep
<1> DEFINE n == Last(stack).node
<1>1. /\ Searching /\ stack # << >>
      /\ Last(stack).next \notin DOMAIN adjacency_list[n]
      /\ color' = [color EXCEPT ![n] = "black"]
      /\ stack' = Front(stack)
      /\ order' = IF Sorting THEN Append(order, n) ELSE order
      /\ UNCHANGED <<adjacency_list, pushed, answer>>
    BY DEF Leave, Top, Finished
<1>2. /\ IsList(adjacency_list) /\ color \in [Name -> Color] /\ stack \in Seq(Frame)
      /\ order \in Seq(Name)
      /\ StackOK(adjacency_list, color, stack) /\ LoopOK(adjacency_list, color, stack, {})
      /\ BlackOK(adjacency_list, color)
      /\ IF Sorting THEN OrderOK(adjacency_list, color, order) ELSE order = << >>
    BY <1>1 DEF IInv, TypeInv, SearchInv
<1>3. /\ n \in Name /\ n \notin Black(color)
      /\ ToSet(adjacency_list[n]) \subseteq Black(color)
      /\ color' \in [Name -> Color] /\ stack' \in Seq(Frame)
      /\ Black(color') = Black(color) \cup {n}
      /\ StackOK(adjacency_list, color', stack')
      /\ LoopOK(adjacency_list, color', stack', {})
      /\ BlackOK(adjacency_list, color')
    BY <1>1, <1>2, LeaveKeeps
<1>4. /\ order' \in Seq(Name)
      /\ IF Sorting THEN OrderOK(adjacency_list, color', order') ELSE order' = << >>
    BY <1>1, <1>2, <1>3, OrderGrows
<1>5. Graph' = Graph
    BY <1>1 DEF Graph
<1>6. TypeInv' /\ RestInv' /\ GraphInv' /\ OrderInv'
    BY <1>1, <1>3, <1>4, <1>5 DEF IInv, TypeInv, RestInv, Idle, Searching, GraphInv, OrderInv
<1>7. SearchInv'
    BY <1>1, <1>3, <1>4 DEF SearchInv, Sorting
<1> QED
    BY <1>1, <1>5, <1>6, <1>7 DEF IInv, Searching, TaskGraphStep

\* A search that ends without a cycle has been everywhere.
LEMMA SearchEndsKeeps ==
    ASSUME IInv, SearchEnds
    PROVE  IInv' /\ TaskGraphStep
<1>1. /\ Searching /\ stack = << >> /\ KeysLeft = {}
      /\ Over(IF Sorting THEN "ordered" ELSE "ok")
      /\ order' = Reverse(order) /\ pushed' = {} /\ adjacency_list' = adjacency_list
    BY DEF SearchEnds, RunOrderReturned
<1>2. /\ IsList(adjacency_list) /\ color \in [Name -> Color] /\ order \in Seq(Name)
      /\ StackOK(adjacency_list, color, << >>) /\ BlackOK(adjacency_list, color)
      /\ IF Sorting THEN OrderOK(adjacency_list, color, order) ELSE order = << >>
    BY <1>1 DEF IInv, TypeInv, SearchInv
<1>3. \A n \in DOMAIN adjacency_list : color[n] # "white"
    BY <1>1 DEF KeysLeft
<1>4. /\ Black(color) = DOMAIN adjacency_list
      /\ Closed(Bags(adjacency_list)) /\ ~Cyclic(Bags(adjacency_list))
    BY <1>2, <1>3, AllBlackIsSound
<1>5. Graph' = Bags(adjacency_list)
    BY <1>1, <1>2, WithoutNone DEF Graph
<1>6. GraphInv' /\ TypeInv
    BY <1>4, <1>5 DEF IInv, GraphInv
<1>7. "acyclic" \in SearchOutcomes(Bags(adjacency_list))
    BY <1>4 DEF SearchOutcomes
<1>8. TaskGraphStep
    BY <1>1, <1>5, <1>7, FoundIsAnswered, GraphInSearch DEF Over
<1>9. CASE Sorting
    <2>1. /\ order' \in Seq(Name) /\ ToSet(order') = DOMAIN adjacency_list
          /\ \A i, j \in DOMAIN order' : i < j =>
                order'[i] \notin ToSet(adjacency_list[order'[j]]) \cup {order'[j]}
        BY <1>1, <1>2, <1>4, <1>9, ReversedOrder
    <2>2. Over("ordered") /\ answer' = "ordered"
        BY <1>1, <1>9 DEF Over
    <2>3. OrderInv'
        BY <1>1, <2>1, <2>2 DEF OrderInv
    <2>4. IInv'
        BY <1>1, <1>2, <1>6, <2>1, <2>2, <2>3, OverKeeps DEF Answers
    <2> QED
        BY <1>8, <2>4
<1>10. CASE ~Sorting
    <2>1. Over("ok")
        BY <1>1, <1>10
    <2>2. order' = << >>
        BY <1>1, <1>2, <1>10 DEF Reverse
    <2>3. IInv'
        BY <1>1, <1>2, <1>6, <2>1, <2>2, OverKeeps DEF Answers
    <2> QED
        BY <1>8, <2>3
<1> QED
    BY <1>9, <1>10

-----------------------------------------------------------------------------
\* Every step keeps the invariant, and is one that TaskGraph allows.
LEMMA StepKeeps ==
    ASSUME IInv, [Next]_vars
    PROVE  IInv' /\ (TaskGraphStep \/ UNCHANGED vars)
<1>1. ASSUME NEW n \in Name, NEW vector \in Vectors, PushTask(n, vector)
      PROVE  IInv' /\ TaskGraphStep
    BY <1>1, PushTaskKeeps
<1>2. ASSUME NEW n \in Name, RemoveTask(n) PROVE IInv' /\ TaskGraphStep
    BY <1>2, RemoveTaskKeeps
<1>3. ASSUME RunOrder PROVE IInv' /\ TaskGraphStep
    BY <1>3, RunOrderKeeps
<1>4. ASSUME Search PROVE IInv' /\ TaskGraphStep
    BY <1>4, StartFromKeeps, FindCycleKeeps, DescendKeeps, PassOverKeeps, LeaveKeepsInv,
       SearchEndsKeeps DEF Search
<1>5. ASSUME UNCHANGED vars PROVE IInv'
    <2>1. UNCHANGED <<adjacency_list, pushed, color, stack, order, answer>>
        BY <1>5 DEF vars, walk
    <2>2. Graph' = Graph
        BY <2>1 DEF Graph
    <2> QED
        BY <2>1, <2>2 DEF IInv, TypeInv, RestInv, Idle, SearchInv, Searching, Sorting, GraphInv,
                          OrderInv
<1> QED
    BY <1>1, <1>2, <1>3, <1>4, <1>5 DEF Next, Gone

LEMMA InvHolds == Spec => []IInv
<1>1. Init => IInv
    BY InitInv, SearchAssumption
<1>2. IInv /\ [Next]_vars => IInv'
    BY StepKeeps
<1> QED
    BY <1>1, <1>2, PTL DEF Spec

(* run_order never answers nullopt: no push and no removal makes a cycle.  *)
(* What it returns has each node, and has it once.                         *)
THEOREM RunOrderCorrect == Spec => []RunOrderIsComplete
<1>1. ASSUME IInv PROVE RunOrderIsComplete
    <2>1. order \in Seq(Name) /\ OrderInv
        BY <1>1 DEF IInv, TypeInv
    <2>2. DOMAIN order \subseteq Nat
        BY <2>1, LenProperties
    <2>3. answer = "ordered" => IsInjective(order)
        <3> SUFFICES ASSUME answer = "ordered", NEW i \in DOMAIN order, NEW j \in DOMAIN order,
                            order[i] = order[j]
                     PROVE  i = j
            BY DEF IsInjective
        <3>1. ~(i < j) /\ ~(j < i)
            BY <2>1 DEF OrderInv
        <3> QED
            BY <2>2, <3>1
    <2> QED
        BY <2>1, <2>3 DEF OrderInv, RunOrderIsComplete
<1> QED
    BY <1>1, InvHolds, PTL

(* The order run_order returns has tasks before their dependencies: taken  *)
(* from its beginning, each would start before those it depends on.        *)
THEOREM RunOrderIsReversed == Spec => []DependantsFirst
<1>1. IInv => DependantsFirst
    BY DEF IInv, OrderInv, DependantsFirst
<1> QED
    BY <1>1, InvHolds, PTL

(* has_cycle and topological_sort find what TaskGraph says is there, and   *)
(* push_task and remove_task do to the vectors what it does to the bags.   *)
THEOREM SearchesImplementTaskGraph == Spec => ImplementsTaskGraph
<1>1. Init => IInv
    BY InitInv, SearchAssumption
<1>2. IInv /\ [Next]_vars => IInv' /\ [TaskGraphStep]_vars
    BY StepKeeps
<1> QED
    BY <1>1, <1>2, PTL DEF Spec, ImplementsTaskGraph

-----------------------------------------------------------------------------
(* Searches come to an end: what is left of the argument without fairness. *)

\* The graph is finite.
FiniteInv == IsFiniteSet(DOMAIN adjacency_list)

LEMMA FiniteInvHolds == Spec => []FiniteInv
<1>1. Init => FiniteInv
    BY FS_Singleton DEF Init, FiniteInv
<1>2. FiniteInv /\ [Next]_vars => FiniteInv'
    <2> SUFFICES ASSUME FiniteInv, [Next]_vars PROVE FiniteInv'
        OBVIOUS
    <2>1. CASE UNCHANGED adjacency_list
        BY <2>1 DEF FiniteInv
    <2>2. CASE DOMAIN adjacency_list' \subseteq DOMAIN adjacency_list
        BY <2>2, FS_Subset DEF FiniteInv
    <2>3. CASE \E n \in Name : DOMAIN adjacency_list' = DOMAIN adjacency_list \cup {n}
        BY <2>3, FS_AddElement DEF FiniteInv
    <2>4. ASSUME NEW n \in Name, NEW vector \in Vectors, PushTask(n, vector)
          PROVE  \/ UNCHANGED adjacency_list
                 \/ DOMAIN adjacency_list' = DOMAIN adjacency_list \cup {n}
        BY <2>4 DEF PushTask, Emplaced
    <2>5. ASSUME NEW n \in Name, RemoveTask(n)
          PROVE  DOMAIN adjacency_list' \subseteq DOMAIN adjacency_list
        BY <2>5 DEF RemoveTask
    <2>6. CASE RunOrder \/ Gone \/ UNCHANGED vars
        BY <2>1, <2>6 DEF RunOrder, Gone, vars
    <2>7. ASSUME Search PROVE DOMAIN adjacency_list' \subseteq DOMAIN adjacency_list
        BY <2>7 DEF Search, StartFrom, Call, Throws, Over, FindCycle, Without, Descend,
                    PassOver, Leave, SearchEnds
    <2> QED
        BY <2>1, <2>2, <2>3, <2>4, <2>5, <2>6, <2>7 DEF Next
<1> QED
    BY <1>1, <1>2, PTL DEF Spec

\* What a search has yet to walk: of a node that was not called for its call
\* (0), the turns of its loop, and its return, of a call the turns that its
\* loop has not made and its return.
AheadOf(list, c, s) ==
    {pos \in (DOMAIN list) \X (0..MaxListed + 1) :
        /\ pos[2] <= Len(list[pos[1]]) + 1
        /\ \/ c[pos[1]] = "white"
           \/ \E i \in 1..Len(s) : s[i].node = pos[1] /\ s[i].next <= pos[2]}
Ahead == AheadOf(adjacency_list, color, stack)

\* It is finite, and bounded by the size of the graph.
LEMMA AheadIsFinite ==
    ASSUME IInv, FiniteInv
    PROVE  /\ IsFiniteSet(Ahead) /\ Cardinality(Ahead) \in Nat
           /\ Cardinality(Ahead) <= Cardinality(DOMAIN adjacency_list) * (MaxListed + 2)
<1> DEFINE All == (DOMAIN adjacency_list) \X (0..MaxListed + 1)
<1>1. IsFiniteSet(0..MaxListed + 1) /\ Cardinality(0..MaxListed + 1) = MaxListed + 2
    <2>1. 0 \in Int /\ MaxListed + 1 \in Int /\ 0 <= MaxListed + 1
        BY SearchAssumption
    <2> QED
        BY <2>1, FS_Interval, SearchAssumption
<1>2. /\ IsFiniteSet(All)
      /\ Cardinality(All) = Cardinality(DOMAIN adjacency_list) * Cardinality(0..MaxListed + 1)
    BY <1>1, FS_Product DEF FiniteInv
<1>3. Ahead \subseteq All
    BY DEF Ahead, AheadOf
<1> HIDE DEF All
<1> QED
    BY <1>1, <1>2, <1>3, FS_Subset, FS_CardinalityType

\* Less of it is fewer.
LEMMA LessIsFewer ==
    ASSUME NEW S, IsFiniteSet(S), NEW T \in SUBSET S, NEW x \in S, x \notin T
    PROVE  Cardinality(T) \in Nat /\ Cardinality(T) < Cardinality(S)
<1>1. IsFiniteSet(S \ {x}) /\ Cardinality(S \ {x}) = Cardinality(S) - 1
    BY FS_RemoveElement
<1>2. T \in SUBSET (S \ {x})
    OBVIOUS
<1>3. Cardinality(T) <= Cardinality(S \ {x}) /\ IsFiniteSet(T)
    BY <1>1, <1>2, FS_Subset
<1>4. Cardinality(S) \in Nat /\ Cardinality(T) \in Nat
    BY <1>3, FS_CardinalityType
<1> QED
    BY <1>1, <1>3, <1>4

\* A call takes its node's call away.
LEMMA CallWalks ==
    ASSUME NEW list, IsList(list), NEW c \in [Name -> Color], NEW s \in Seq(Frame),
           NEW n \in DOMAIN list, c[n] = "white", StackOK(list, c, s)
    PROVE  LET c2 == [c EXCEPT ![n] = "gray"]
               s2 == Append(s, [node |-> n, next |-> 1])
           IN  /\ AheadOf(list, c2, s2) \subseteq AheadOf(list, c, s)
               /\ <<n, 0>> \in AheadOf(list, c, s)
               /\ <<n, 0>> \notin AheadOf(list, c2, s2)
<1> DEFINE frame == [node |-> n, next |-> 1]
           c2 == [c EXCEPT ![n] = "gray"]
           s2 == Append(s, frame)
<1>1. n \in Name /\ frame \in Frame /\ frame.node = n /\ frame.next = 1
    BY DEF IsList, Frame
<1>2. /\ Len(s2) = Len(s) + 1 /\ s2[Len(s) + 1] = frame
      /\ \A i \in 1..Len(s) : s2[i] = s[i]
    <2> HIDE DEF frame
    <2> QED
        BY <1>1, AppendProperties
<1>3. Len(s) \in Nat
    BY LenProperties
<1>4. c2[n] = "gray" /\ \A m \in Name \ {n} : c2[m] = c[m]
    BY <1>1
<1> HIDE DEF frame, c2, s2
<1>5. \A i \in 1..Len(s) : s[i].node # n
    BY DEF StackOK
<1>6. \A i \in 1..Len(s2) : i \in 1..Len(s) \/ i = Len(s) + 1
    BY <1>2, <1>3
<1>7. AheadOf(list, c2, s2) \subseteq AheadOf(list, c, s)
    <2> SUFFICES ASSUME NEW pos \in AheadOf(list, c2, s2)
                 PROVE  pos \in AheadOf(list, c, s)
        OBVIOUS
    <2>1. /\ pos \in (DOMAIN list) \X (0..MaxListed + 1) /\ pos[1] \in Name
          /\ pos[2] <= Len(list[pos[1]]) + 1
        BY DEF AheadOf, IsList
    <2>2. CASE pos[1] = n
        BY <2>1, <2>2 DEF AheadOf
    <2>3. CASE pos[1] # n /\ c2[pos[1]] = "white"
        BY <1>4, <2>1, <2>3 DEF AheadOf
    <2>4. CASE pos[1] # n /\ c2[pos[1]] # "white"
        <3>1. PICK i \in 1..Len(s2) : s2[i].node = pos[1] /\ s2[i].next <= pos[2]
            BY <2>4 DEF AheadOf
        <3>2. i \in 1..Len(s)
            BY <1>1, <1>2, <1>6, <2>4, <3>1
        <3> QED
            BY <1>2, <2>1, <3>1, <3>2 DEF AheadOf
    <2> QED
        BY <2>2, <2>3, <2>4
<1>8. <<n, 0>> \in AheadOf(list, c, s)
    <2>1. Len(list[n]) \in Nat
        BY VectorsAreSequences, LenProperties DEF IsList
    <2>2. <<n, 0>> \in (DOMAIN list) \X (0..MaxListed + 1)
        BY SearchAssumption
    <2> QED
        BY <2>1, <2>2 DEF AheadOf
<1>9. <<n, 0>> \notin AheadOf(list, c2, s2)
    <2> SUFFICES ASSUME NEW i \in 1..Len(s2), s2[i].node = n, s2[i].next <= 0
                 PROVE  FALSE
        BY <1>4 DEF AheadOf
    <2>1. i = Len(s) + 1
        BY <1>2, <1>5, <1>6
    <2> QED
        BY <1>1, <1>2, <2>1
<1> QED
    BY <1>7, <1>8, <1>9 DEF c2, s2, frame

\* A turn of a loop is not made again.
LEMMA AdvanceWalks ==
    ASSUME NEW list, IsList(list), NEW c \in [Name -> Color], NEW s \in Seq(Frame),
           s # << >>, Last(s).next \in DOMAIN list[Last(s).node], StackOK(list, c, s)
    PROVE  LET s2 == [s EXCEPT ![Len(s)].next = @ + 1]
               x == <<Last(s).node, Last(s).next>>
           IN  /\ AheadOf(list, c, s2) \subseteq AheadOf(list, c, s)
               /\ x \in AheadOf(list, c, s)
               /\ x \notin AheadOf(list, c, s2)
<1> DEFINE top == s[Len(s)]
           s2 == [s EXCEPT ![Len(s)].next = @ + 1]
           x == <<top.node, top.next>>
<1>1. Len(s) \in Nat /\ Len(s) \in 1..Len(s) /\ DOMAIN s = 1..Len(s)
      /\ \A i \in 1..Len(s) : s[i] \in Frame
    BY LenProperties, EmptySeq
<1>2. top \in Frame /\ Last(s) = top
    BY <1>1 DEF Last
<1>3. top.node \in Name /\ top.next \in Nat /\ top.node \in DOMAIN list
      /\ c[top.node] = "gray"
    BY <1>1, <1>2 DEF Frame, StackOK
<1>4. list[top.node] \in Seq(Name) /\ Len(list[top.node]) <= MaxListed
    BY <1>3, VectorsAreSequences DEF IsList
<1>5. /\ Len(list[top.node]) \in Nat /\ top.next <= Len(list[top.node])
    <2>1. top.next \in DOMAIN list[top.node]
        BY <1>2
    <2> QED
        BY <1>4, <2>1, LenProperties
<1>6. /\ s2[Len(s)].node = top.node /\ s2[Len(s)].next = top.next + 1
      /\ \A i \in 1..Len(s) : i # Len(s) => s2[i] = s[i]
      /\ Len(s2) = Len(s)
    <2>1. top = [node |-> top.node, next |-> top.next]
        BY <1>2 DEF Frame
    <2> DEFINE frame == [node |-> top.node, next |-> top.next + 1]
    <2>2. s2 = [s EXCEPT ![Len(s)] = [top EXCEPT !.next = top.next + 1]]
        OBVIOUS
    <2>3. [top EXCEPT !.next = top.next + 1] = frame
        BY <2>1
    <2>4. s2 = [s EXCEPT ![Len(s)] = frame]
        BY <2>2, <2>3
    <2>5. frame.node = top.node /\ frame.next = top.next + 1 /\ frame \in Frame
        BY <1>3 DEF Frame
    <2> HIDE DEF top, s2, frame
    <2>6. Len(s2) = Len(s)
        BY <1>1, <2>4, <2>5, ExceptSeq
    <2>7. s2[Len(s)] = frame /\ \A i \in 1..Len(s) : i # Len(s) => s2[i] = s[i]
        BY <1>1, <2>4
    <2> QED
        BY <2>5, <2>6, <2>7
<1>7. ASSUME NEW i \in 1..Len(s), i # Len(s) PROVE s[i].node # top.node
    BY <1>1, <1>7 DEF StackOK
<1> HIDE DEF top, s2
<1>8. AheadOf(list, c, s2) \subseteq AheadOf(list, c, s)
    <2> SUFFICES ASSUME NEW pos \in AheadOf(list, c, s2)
                 PROVE  pos \in AheadOf(list, c, s)
        OBVIOUS
    <2>1. /\ pos \in (DOMAIN list) \X (0..MaxListed + 1) /\ pos[2] \in Nat
          /\ pos[2] <= Len(list[pos[1]]) + 1
        BY DEF AheadOf
    <2>2. CASE c[pos[1]] = "white"
        BY <2>1, <2>2 DEF AheadOf
    <2>3. CASE c[pos[1]] # "white"
        <3>1. PICK i \in 1..Len(s) : s2[i].node = pos[1] /\ s2[i].next <= pos[2]
            BY <1>6, <2>3 DEF AheadOf
        <3>2. s[i].node = pos[1] /\ s[i].next <= pos[2]
            <4>1. CASE i # Len(s)
                BY <1>6, <3>1, <4>1
            <4>2. CASE i = Len(s)
                BY <1>3, <1>6, <2>1, <3>1, <4>2 DEF top
            <4> QED
                BY <4>1, <4>2
        <3> QED
            BY <2>1, <3>2 DEF AheadOf
    <2> QED
        BY <2>2, <2>3
<1>9. x \in AheadOf(list, c, s)
    <2>1. x \in (DOMAIN list) \X (0..MaxListed + 1) /\ x[2] <= Len(list[x[1]]) + 1
        BY <1>3, <1>4, <1>5, SearchAssumption
    <2>2. s[Len(s)].node = x[1] /\ s[Len(s)].next <= x[2]
        BY <1>3 DEF top
    <2> QED
        BY <1>1, <2>1, <2>2 DEF AheadOf
<1>10. x \notin AheadOf(list, c, s2)
    <2> SUFFICES ASSUME NEW i \in 1..Len(s), s2[i].node = top.node, s2[i].next <= top.next
                 PROVE  FALSE
        BY <1>3, <1>6 DEF AheadOf
    <2>1. CASE i = Len(s)
        BY <1>3, <1>6, <2>1
    <2>2. CASE i # Len(s)
        BY <1>6, <1>7, <2>2
    <2> QED
        BY <2>1, <2>2
<1> QED
    BY <1>2, <1>8, <1>9, <1>10 DEF s2, top

\* A call that returns is not made again.
LEMMA LeaveWalks ==
    ASSUME NEW list, IsList(list), NEW c \in [Name -> Color], NEW s \in Seq(Frame),
           s # << >>, StackOK(list, c, s)
    PROVE  LET c2 == [c EXCEPT ![Last(s).node] = "black"]
               x == <<Last(s).node, Len(list[Last(s).node]) + 1>>
           IN  /\ AheadOf(list, c2, Front(s)) \subseteq AheadOf(list, c, s)
               /\ x \in AheadOf(list, c, s)
               /\ x \notin AheadOf(list, c2, Front(s))
<1> DEFINE top == s[Len(s)]
           n == top.node
           c2 == [c EXCEPT ![n] = "black"]
           s2 == Front(s)
           x == <<n, Len(list[n]) + 1>>
<1>1. Len(s) \in Nat /\ Len(s) \in 1..Len(s) /\ \A i \in 1..Len(s) : s[i] \in Frame
    BY LenProperties, EmptySeq
<1>2. Last(s) = top /\ top \in Frame
    BY <1>1 DEF Last
<1>3. /\ n \in DOMAIN list /\ n \in Name /\ top.next \in Nat
      /\ top.next <= Len(list[n]) + 1
    <2>1. n \in DOMAIN list /\ top.next \in 1..Len(list[n]) + 1
        BY <1>1 DEF StackOK
    <2>2. Len(list[n]) \in Nat
        BY <2>1, VectorsAreSequences, LenProperties DEF IsList
    <2> QED
        BY <2>1, <2>2 DEF IsList
<1>4. Len(list[n]) \in Nat /\ Len(list[n]) <= MaxListed
    BY <1>3, VectorsAreSequences, LenProperties DEF IsList
<1>5. c2[n] = "black" /\ \A m \in Name : m # n => c2[m] = c[m]
    BY <1>3
<1>6. Len(s2) = Len(s) - 1 /\ \A i \in 1..Len(s) - 1 : s2[i] = s[i]
    BY FrontOfCalls
<1>7. \A i \in 1..Len(s) - 1 : s[i].node # n
    <2> SUFFICES ASSUME NEW i \in 1..Len(s) - 1 PROVE s[i].node # n
        OBVIOUS
    <2>1. i \in 1..Len(s) /\ i # Len(s)
        BY <1>1
    <2> QED
        BY <1>1, <2>1 DEF StackOK
<1> HIDE DEF top, n, c2, s2
<1>8. AheadOf(list, c2, s2) \subseteq AheadOf(list, c, s)
    <2> SUFFICES ASSUME NEW pos \in AheadOf(list, c2, s2)
                 PROVE  pos \in AheadOf(list, c, s)
        OBVIOUS
    <2>1. /\ pos \in (DOMAIN list) \X (0..MaxListed + 1) /\ pos[1] \in Name
          /\ pos[2] <= Len(list[pos[1]]) + 1
        BY DEF AheadOf, IsList
    <2>2. CASE c2[pos[1]] = "white"
        BY <1>5, <2>1, <2>2 DEF AheadOf
    <2>3. CASE c2[pos[1]] # "white"
        <3>1. PICK i \in 1..Len(s) - 1 : s2[i].node = pos[1] /\ s2[i].next <= pos[2]
            BY <1>6, <2>3 DEF AheadOf
        <3>2. i \in 1..Len(s)
            BY <1>1
        <3> QED
            BY <1>6, <2>1, <3>1, <3>2 DEF AheadOf
    <2> QED
        BY <2>2, <2>3
<1>9. x \in AheadOf(list, c, s)
    <2>1. x \in (DOMAIN list) \X (0..MaxListed + 1) /\ x[2] <= Len(list[x[1]]) + 1
        BY <1>3, <1>4, SearchAssumption
    <2>2. s[Len(s)].node = x[1] /\ s[Len(s)].next <= x[2]
        BY <1>3 DEF top, n
    <2> QED
        BY <1>1, <2>1, <2>2 DEF AheadOf
<1>10. x \notin AheadOf(list, c2, s2)
    BY <1>5, <1>6, <1>7 DEF AheadOf
<1> QED
    BY <1>2, <1>8, <1>9, <1>10 DEF c2, s2, n

\* Every step that a search goes on after leaves less of it.
LEMMA StepWalks ==
    ASSUME IInv, Searching, Searching', Next
    PROVE  Ahead' \subseteq Ahead /\ \E x \in Ahead : x \notin Ahead'
<1>1. /\ IsList(adjacency_list) /\ color \in [Name -> Color] /\ stack \in Seq(Frame)
      /\ StackOK(adjacency_list, color, stack)
    BY DEF IInv, TypeInv, SearchInv
<1>2. Search
    BY DEF Next, PushTask, RemoveTask, RunOrder, Gone, Idle, Searching
<1>3. ASSUME NEW n \in Name, NEW calls, Call(n, calls)
      PROVE  /\ n \in DOMAIN adjacency_list
             /\ color' = [color EXCEPT ![n] = "gray"]
             /\ stack' = Append(calls, [node |-> n, next |-> 1])
             /\ adjacency_list' = adjacency_list
    BY <1>3 DEF Call, Throws, Over, Searching
<1>4. CASE \E key \in KeysLeft : StartFrom(key)
    <2>1. PICK key \in KeysLeft : StartFrom(key)
        BY <1>4
    <2>2. key \in Name /\ key \in DOMAIN adjacency_list /\ color[key] = "white"
        BY <1>1 DEF KeysLeft, IsList
    <2>3. /\ color' = [color EXCEPT ![key] = "gray"]
          /\ stack' = Append(stack, [node |-> key, next |-> 1])
          /\ adjacency_list' = adjacency_list
        BY <1>3, <2>1, <2>2 DEF StartFrom
    <2>4. Ahead' = AheadOf(adjacency_list, color', stack')
        BY <2>3 DEF Ahead, AheadOf
    <2> QED
        BY <1>1, <2>2, <2>3, <2>4, CallWalks DEF Ahead
<1>5. CASE Descend
    <2>1. InLoop /\ color[Neighbor] = "white" /\ Call(Neighbor, Advanced)
        BY <1>5 DEF Descend
    <2>2. /\ Neighbor \in Name /\ Advanced \in Seq(Frame)
          /\ StackOK(adjacency_list, color, Advanced)
        BY <2>1, LoopLooks
    <2>3. /\ Neighbor \in DOMAIN adjacency_list
          /\ color' = [color EXCEPT ![Neighbor] = "gray"]
          /\ stack' = Append(Advanced, [node |-> Neighbor, next |-> 1])
          /\ adjacency_list' = adjacency_list
        BY <1>3, <2>1, <2>2
    <2>4. Ahead' = AheadOf(adjacency_list, color', stack')
        BY <2>3 DEF Ahead, AheadOf
    <2>5. Ahead' \subseteq AheadOf(adjacency_list, color, Advanced)
        BY <1>1, <2>1, <2>2, <2>3, <2>4, CallWalks
    <2>6. /\ AheadOf(adjacency_list, color, Advanced) \subseteq Ahead
          /\ \E x \in Ahead : x \notin AheadOf(adjacency_list, color, Advanced)
        BY <1>1, <2>1, AdvanceWalks DEF InLoop, Top, Advanced, Ahead
    <2> QED
        BY <2>5, <2>6
<1>6. CASE PassOver
    <2>1. InLoop /\ stack' = Advanced /\ color' = color /\ adjacency_list' = adjacency_list
        BY <1>6 DEF PassOver
    <2>2. Ahead' = AheadOf(adjacency_list, color, Advanced)
        BY <2>1 DEF Ahead, AheadOf
    <2> QED
        BY <1>1, <2>1, <2>2, AdvanceWalks DEF InLoop, Top, Advanced, Ahead
<1>7. CASE Leave
    <2>1. /\ stack # << >> /\ stack' = Front(stack) /\ adjacency_list' = adjacency_list
          /\ color' = [color EXCEPT ![Last(stack).node] = "black"]
        BY <1>7 DEF Leave, Top, Finished
    <2>2. Ahead' = AheadOf(adjacency_list, color', stack')
        BY <2>1 DEF Ahead, AheadOf
    <2> DEFINE n == Last(stack).node
               c2 == [color EXCEPT ![n] = "black"]
               x == <<n, Len(adjacency_list[n]) + 1>>
    <2>3. /\ AheadOf(adjacency_list, c2, Front(stack)) \subseteq Ahead
          /\ x \in Ahead /\ x \notin AheadOf(adjacency_list, c2, Front(stack))
        BY <1>1, <2>1, LeaveWalks DEF Ahead
    <2>4. Ahead' = AheadOf(adjacency_list, c2, Front(stack))
        BY <2>1, <2>2
    <2> HIDE DEF c2, x
    <2> QED
        BY <2>3, <2>4
<1>8. ~FindCycle /\ ~SearchEnds
    BY DEF FindCycle, SearchEnds, Over, Searching, Sorting
<1> QED
    BY <1>2, <1>4, <1>5, <1>6, <1>7, <1>8 DEF Search

(* A search makes each call, each turn of a loop and each return at most   *)
(* once, whatever the vectors hold: of n nodes with vectors of at most m   *)
(* names, it is over after n (m + 2) steps and one that answers.           *)
SearchGoesOn == Searching /\ Searching' => Cardinality(Ahead)' < Cardinality(Ahead)

THEOREM SearchesAreShort ==
    Spec => /\ [](/\ Cardinality(Ahead) \in Nat
                  /\ Cardinality(Ahead) <= Cardinality(DOMAIN adjacency_list) * (MaxListed + 2))
            /\ [][SearchGoesOn]_vars
<1>1. Init => IInv
    BY InitInv, SearchAssumption
<1>2. IInv /\ [Next]_vars => IInv'
    BY StepKeeps
<1>3. IInv /\ FiniteInv =>
          /\ Cardinality(Ahead) \in Nat
          /\ Cardinality(Ahead) <= Cardinality(DOMAIN adjacency_list) * (MaxListed + 2)
    BY AheadIsFinite
<1>4. IInv /\ FiniteInv /\ [Next]_vars => [SearchGoesOn]_vars
    <2> SUFFICES ASSUME IInv, FiniteInv, Next, Searching, Searching'
                 PROVE  Cardinality(Ahead') < Cardinality(Ahead)
        BY DEF SearchGoesOn
    <2>1. PICK x \in Ahead : x \notin Ahead' /\ Ahead' \subseteq Ahead
        BY StepWalks
    <2> QED
        BY <2>1, AheadIsFinite, LessIsFewer
<1> QED
    BY <1>1, <1>2, <1>3, <1>4, FiniteInvHolds, PTL DEF Spec

=============================================================================
