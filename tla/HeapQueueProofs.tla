--------------------------- MODULE HeapQueueProofs ----------------------------
(***************************************************************************)
(* The in-memory queue keeps heap order and implements the contract of     *)
(* JobQueue, for every number of jobs.                                     *)
(***************************************************************************)
EXTENDS HeapQueue, FiniteSetTheorems, WellFoundedInduction, TLAPS

-----------------------------------------------------------------------------
(* Indices and sequences.                                                  *)

LEMMA Parents ==
    ASSUME NEW j \in Nat, j > 1
    PROVE  /\ Parent(j) \in Nat /\ 1 <= Parent(j) /\ Parent(j) < j
           /\ \A i \in Nat : Parent(j) = i <=> (j = 2 * i \/ j = 2 * i + 1)
BY DEF Parent

\* A set of natural numbers has a least element: what induction on indices
\* comes to.
LEMMA LeastNumber ==
    ASSUME NEW T, T \subseteq Nat, T # {}
    PROVE  \E x \in T : \A y \in T : x <= y
<1> DEFINE R == OpToRel(<, Nat)
<1>1. IsWellFoundedOn(R, Nat) BY NatLessThanWellFounded
<1> HIDE DEF R
<1>2. PICK x \in T : \A y \in T : <<y, x>> \notin R BY <1>1, WFMin
<1>3. ASSUME NEW y \in T PROVE ~(y < x)
  <2>1. <<y, x>> \notin R BY <1>2
  <2>2. R = {ss \in Nat \X Nat : ss[1] < ss[2]} BY Zenon DEF R, OpToRel
  <2>3. QED BY <2>1, <2>2
<1>4. \A y \in T : x <= y BY <1>3
<1>5. QED BY <1>4

LEMMA SwapIs ==
    ASSUME NEW h \in Seq(Job), NEW i \in 1..Len(h), NEW j \in 1..Len(h)
    PROVE  /\ Swap(h, i, j) \in Seq(Job)
           /\ Len(Swap(h, i, j)) = Len(h)
           /\ \A k \in 1..Len(h) :
                 Swap(h, i, j)[k] = IF k = i THEN h[j] ELSE IF k = j THEN h[i] ELSE h[k]
BY DEF Swap

LEMMA Priority ==
    ASSUME NEW h \in Seq(Job), NEW k \in 1..Len(h)
    PROVE  h[k] \in Job /\ h[k].priority \in Int /\ Key(h[k]) \in JobKeys
<1>1. h[k] \in Job OBVIOUS
<1>2. h[k].priority \in Priorities /\ h[k].detail \in Details BY <1>1 DEF Job
<1>3. KeyOf \in [Details -> JobKeys] BY QueueAssumption DEF QueueAssumption
<1>4. QED BY <1>1, <1>2, <1>3, PrioritiesAssumption DEF Key

\* A swap keeps the elements of a part of the slice that both are in.
LEMMA SwapKeeps ==
    ASSUME NEW h \in Seq(Job), NEW m \in 0..Len(h), NEW i \in 1..m, NEW j \in 1..m
    PROVE  {Swap(h, i, j)[k] : k \in 1..m} = {h[k] : k \in 1..m}
<1> DEFINE g == Swap(h, i, j)
<1>0. i \in 1..Len(h) /\ j \in 1..Len(h) /\ 1..m \subseteq 1..Len(h) OBVIOUS
<1>1. \A k \in 1..m : g[k] = IF k = i THEN h[j] ELSE IF k = j THEN h[i] ELSE h[k]
  BY <1>0, SwapIs
<1> HIDE DEF g
<1>2. \A k \in 1..m : \E l \in 1..m : g[k] = h[l] BY <1>1
<1>3. \A k \in 1..m : \E l \in 1..m : h[k] = g[l]
  <2> TAKE k \in 1..m
  <2>1. h[k] = g[IF k = i THEN j ELSE IF k = j THEN i ELSE k] BY <1>1
  <2>2. QED BY <2>1
<1>4. {g[k] : k \in 1..m} = {h[k] : k \in 1..m}
  <2>1. \A k \in 1..m : g[k] \in {h[l] : l \in 1..m} BY <1>2
  <2>2. \A k \in 1..m : h[k] \in {g[l] : l \in 1..m} BY <1>3
  <2>3. QED BY <2>1, <2>2
<1>5. QED BY <1>4 DEF g

KeysDiffer(h) == \A i, j \in 1..Len(h) : i # j => Key(h[i]) # Key(h[j])

LEMMA SwapKeepsKeys ==
    ASSUME NEW h \in Seq(Job), NEW i \in 1..Len(h), NEW j \in 1..Len(h), KeysDiffer(h)
    PROVE  KeysDiffer(Swap(h, i, j))
<1> DEFINE g == Swap(h, i, j)
<1>1. /\ Len(g) = Len(h)
      /\ \A k \in 1..Len(h) : g[k] = IF k = i THEN h[j] ELSE IF k = j THEN h[i] ELSE h[k]
  BY SwapIs
<1> HIDE DEF g
<1>2. KeysDiffer(g) BY <1>1 DEF KeysDiffer
<1>3. QED BY <1>2 DEF g

-----------------------------------------------------------------------------
(* Heap order, and what is left of it while an element moves.              *)

Fits(h, k) == h[Parent(k)].priority <= h[k].priority
FitsAbove(h, k) == h[Parent(Parent(k))].priority <= h[k].priority

Ordered(h, m) == \A k \in 2..m : Fits(h, k)

\* Element j may be smaller than its parent.
OrderedBelow(h, m, j) ==
    \A k \in 2..m : /\ k # j => Fits(h, k)
                    /\ Parent(k) = j /\ j > 1 => FitsAbove(h, k)

\* Element i may be greater than its children, and, unless it has been
\* placed, smaller than its parent.
OrderedAbove(h, m, i, placed) ==
    \A k \in 2..m : /\ Parent(k) # i /\ (k # i \/ placed) => Fits(h, k)
                    /\ Parent(k) = i /\ i > 1 => FitsAbove(h, k)

\* The first element of a heap is a least one.
LEMMA RootIsLeast ==
    ASSUME NEW h \in Seq(Job), NEW m \in 1..Len(h), Ordered(h, m)
    PROVE  \A k \in 1..m : h[1].priority <= h[k].priority
<1> DEFINE T == {k \in 1..m : ~(h[1].priority <= h[k].priority)}
<1> SUFFICES ASSUME T # {} PROVE FALSE OBVIOUS
<1>1. T \subseteq Nat OBVIOUS
<1>2. PICK x \in T : \A y \in T : x <= y
  <2> HIDE DEF T
  <2>1. QED BY <1>1, LeastNumber
<1>3. x \in 1..m /\ x # 1 BY Priority
<1>4. Parent(x) \in 1..m /\ Parent(x) < x BY <1>3, Parents
<1>5. h[1].priority <= h[Parent(x)].priority BY <1>2, <1>4
<1>6. h[Parent(x)].priority <= h[x].priority BY <1>3 DEF Ordered, Fits
<1>7. h[1].priority \in Int /\ h[x].priority \in Int /\ h[Parent(x)].priority \in Int
  BY <1>3, <1>4, Priority
<1>8. QED BY <1>5, <1>6, <1>7

LEMMA UpKeepsOrder ==
    ASSUME NEW h \in Seq(Job), NEW m \in 0..Len(h), NEW j \in 2..m,
           OrderedBelow(h, m, j), h[j].priority < h[Parent(j)].priority
    PROVE  OrderedBelow(Swap(h, j, Parent(j)), m, Parent(j))
<1> DEFINE p == Parent(j)
           g == Swap(h, j, p)
<1>1. p \in 1..m /\ p < j BY Parents
<1>2. \A k \in 1..m : g[k] = IF k = j THEN h[p] ELSE IF k = p THEN h[j] ELSE h[k]
  <2>1. j \in 1..Len(h) /\ p \in 1..Len(h) /\ 1..m \subseteq 1..Len(h) BY <1>1
  <2> HIDE DEF p
  <2>2. \A k \in 1..Len(h) :
           Swap(h, j, p)[k] = IF k = j THEN h[p] ELSE IF k = p THEN h[j] ELSE h[k]
    BY <2>1, SwapIs
  <2>3. QED BY <2>1, <2>2
<1>3. \A k \in 1..m : h[k].priority \in Int BY Priority
<1>4. h[j].priority < h[p].priority OBVIOUS
<1> HIDE DEF g, p
<1> SUFFICES ASSUME NEW k \in 2..m
             PROVE  /\ k # p => Fits(g, k)
                    /\ Parent(k) = p /\ p > 1 => FitsAbove(g, k)
  BY DEF OrderedBelow, g, p
<1>5. Parent(k) \in 1..m /\ Parent(k) < k BY Parents
<1>6. k # j => h[Parent(k)].priority <= h[k].priority BY DEF OrderedBelow, Fits
<1>7. ASSUME k # p PROVE Fits(g, k)
  <2>1. CASE k = j
    <3>1. Parent(k) = p BY <2>1 DEF p
    <3>2. g[k] = h[p] /\ g[Parent(k)] = h[j] BY <1>1, <1>2, <2>1, <3>1
    <3>3. QED BY <1>1, <1>3, <1>4, <3>2 DEF Fits
  <2>2. CASE k # j /\ Parent(k) = j
    <3>1. g[k] = h[k] /\ g[Parent(k)] = h[p] BY <1>2, <1>5, <1>7, <2>2
    <3>2. h[Parent(Parent(k))].priority <= h[k].priority BY <2>2 DEF OrderedBelow, FitsAbove
    <3>3. QED BY <2>2, <3>1, <3>2 DEF Fits, p
  <2>3. CASE k # j /\ Parent(k) = p
    <3>1. g[k] = h[k] /\ g[Parent(k)] = h[j] BY <1>1, <1>2, <1>7, <2>3
    <3>2. QED BY <1>1, <1>3, <1>4, <1>6, <2>3, <3>1 DEF Fits
  <2>4. CASE k # j /\ Parent(k) \notin {j, p}
    <3>1. g[k] = h[k] /\ g[Parent(k)] = h[Parent(k)] BY <1>2, <1>5, <1>7, <2>4
    <3>2. QED BY <1>6, <2>4, <3>1 DEF Fits
  <2>5. QED BY <2>1, <2>2, <2>3, <2>4
<1>8. ASSUME Parent(k) = p, p > 1 PROVE FitsAbove(g, k)
  <2>1. Parent(p) \in 1..m /\ Parent(p) < p BY <1>1, <1>8, Parents
  <2>2. g[Parent(Parent(k))] = h[Parent(p)] BY <1>1, <1>2, <1>8, <2>1
  <2>3. h[Parent(p)].priority <= h[p].priority
    BY <1>1, <1>8 DEF OrderedBelow, Fits
  <2>4. CASE k = j BY <1>2, <2>2, <2>3, <2>4 DEF FitsAbove
  <2>5. CASE k # j
    <3>1. k # p BY <1>5, <1>8
    <3>2. g[k] = h[k] BY <1>2, <2>5, <3>1
    <3>3. h[p].priority <= h[k].priority BY <1>6, <1>8, <2>5
    <3>4. QED BY <1>1, <1>3, <2>1, <2>2, <2>3, <3>2, <3>3 DEF FitsAbove
  <2>6. QED BY <2>4, <2>5
<1>9. QED BY <1>7, <1>8

\* c is a child of i that no child of i precedes.
LEMMA DownKeepsOrder ==
    ASSUME NEW h \in Seq(Job), NEW m \in 0..Len(h), NEW i \in 1..m, NEW c \in 2..m,
           NEW placed \in BOOLEAN, OrderedAbove(h, m, i, placed), Parent(c) = i,
           h[c].priority < h[i].priority,
           \A k \in 2..m : Parent(k) = i => h[c].priority <= h[k].priority
    PROVE  OrderedAbove(Swap(h, i, c), m, c, TRUE)
<1> DEFINE g == Swap(h, i, c)
<1>1. i < c BY Parents
<1>2. \A k \in 1..m : g[k] = IF k = i THEN h[c] ELSE IF k = c THEN h[i] ELSE h[k]
  <2>1. i \in 1..Len(h) /\ c \in 1..Len(h) /\ 1..m \subseteq 1..Len(h) OBVIOUS
  <2>2. \A k \in 1..Len(h) :
           Swap(h, i, c)[k] = IF k = i THEN h[c] ELSE IF k = c THEN h[i] ELSE h[k]
    BY <2>1, SwapIs
  <2>3. QED BY <2>1, <2>2
<1>3. \A k \in 1..m : h[k].priority \in Int BY Priority
<1> HIDE DEF g
<1> SUFFICES ASSUME NEW k \in 2..m
             PROVE  /\ Parent(k) # c => Fits(g, k)
                    /\ Parent(k) = c /\ c > 1 => FitsAbove(g, k)
  BY DEF OrderedAbove, g
<1>4. Parent(k) \in 1..m /\ Parent(k) < k BY Parents
<1>5. Parent(k) # i /\ k # i => h[Parent(k)].priority <= h[k].priority
  BY DEF OrderedAbove, Fits
<1>6. ASSUME Parent(k) # c PROVE Fits(g, k)
  <2>1. CASE k = i
    <3>1. g[k] = h[c] /\ g[Parent(k)] = h[Parent(i)] BY <1>1, <1>2, <1>4, <2>1
    <3>2. h[Parent(Parent(c))].priority <= h[c].priority BY <2>1 DEF OrderedAbove, FitsAbove
    <3>3. QED BY <3>1, <3>2 DEF Fits
  <2>2. CASE k = c
    <3>1. g[k] = h[i] /\ g[Parent(k)] = h[c] BY <1>1, <1>2, <2>2
    <3>2. QED BY <1>3, <3>1 DEF Fits
  <2>3. CASE k \notin {i, c} /\ Parent(k) = i
    <3>1. g[k] = h[k] /\ g[Parent(k)] = h[c] BY <1>1, <1>2, <2>3
    <3>2. h[c].priority <= h[k].priority BY <2>3
    <3>3. QED BY <3>1, <3>2 DEF Fits
  <2>4. CASE k \notin {i, c} /\ Parent(k) # i
    <3>1. g[k] = h[k] /\ g[Parent(k)] = h[Parent(k)] BY <1>2, <1>4, <1>6, <2>4
    <3>2. QED BY <1>5, <2>4, <3>1 DEF Fits
  <2>5. QED BY <2>1, <2>2, <2>3, <2>4
<1>7. ASSUME Parent(k) = c PROVE FitsAbove(g, k)
  <2>1. k # i /\ k # c /\ Parent(k) # i BY <1>1, <1>4, <1>7
  <2>2. g[k] = h[k] /\ g[Parent(Parent(k))] = h[c] BY <1>1, <1>2, <1>7, <2>1
  <2>3. QED BY <1>5, <1>7, <2>1, <2>2 DEF FitsAbove
<1>8. QED BY <1>6, <1>7

\* When the loop of up ends, the heap is in order again.
LEMMA UpStops ==
    ASSUME NEW h \in Seq(Job), NEW m \in 0..Len(h), NEW j \in 1..m, OrderedBelow(h, m, j),
           ~(j > 1 /\ h[j].priority < h[Parent(j)].priority)
    PROVE  Ordered(h, m)
<1> SUFFICES ASSUME NEW k \in 2..m PROVE Fits(h, k) BY DEF Ordered
<1>1. CASE k = j
  <2>1. Parent(j) \in 1..m BY <1>1, Parents
  <2>2. h[j].priority \in Int /\ h[Parent(j)].priority \in Int BY <2>1, Priority
  <2>3. QED BY <1>1, <2>2 DEF Fits
<1>2. CASE k # j BY <1>2 DEF OrderedBelow
<1>3. QED BY <1>1, <1>2

\* When the loop of down ends, at most the element itself is out of place,
\* and if it has moved, or is the first one, it is not.
LEMMA DownStops ==
    ASSUME NEW h \in Seq(Job), NEW m \in 0..Len(h), NEW i \in 1..m,
           NEW placed \in BOOLEAN, OrderedAbove(h, m, i, placed),
           \A k \in 2..m : Parent(k) = i => h[i].priority <= h[k].priority
    PROVE  /\ OrderedBelow(h, m, i)
           /\ placed \/ i = 1 => Ordered(h, m)
<1>1. \A k \in 2..m : Parent(k) = i => Fits(h, k) BY DEF Fits
<1>2. \A k \in 2..m : k # i => Fits(h, k) BY <1>1 DEF OrderedAbove
<1>3. placed \/ i = 1 => \A k \in 2..m : Fits(h, k) BY <1>1, <1>2 DEF OrderedAbove
<1>4. OrderedBelow(h, m, i) BY <1>2 DEF OrderedBelow, OrderedAbove
<1>5. QED BY <1>3, <1>4 DEF Ordered

\* An element at the end of the slice may only be out of place itself.
LEMMA PushStarts ==
    ASSUME NEW h \in Seq(Job), Ordered(h, Len(h)), NEW e \in Job
    PROVE  OrderedBelow(Append(h, e), Len(h) + 1, Len(h) + 1)
<1> DEFINE g == Append(h, e)
           m == Len(h) + 1
<1>1. \A k \in 1..Len(h) : g[k] = h[k] OBVIOUS
<1> SUFFICES ASSUME NEW k \in 2..m
             PROVE  /\ k # m => Fits(g, k)
                    /\ ~(Parent(k) = m)
  BY DEF OrderedBelow
<1>2. Parent(k) \in Nat /\ 1 <= Parent(k) /\ Parent(k) < k BY Parents
<1>3. ASSUME k # m PROVE Fits(g, k)
  <2>1. k \in 2..Len(h) /\ Parent(k) \in 1..Len(h) BY <1>2, <1>3
  <2>2. g[k] = h[k] /\ g[Parent(k)] = h[Parent(k)] BY <1>1, <2>1
  <2>3. Fits(h, k) BY <2>1 DEF Ordered
  <2>4. QED BY <2>2, <2>3 DEF Fits
<1>4. QED BY <1>2, <1>3

\* The last element in the place of another may be out of place both ways.
LEMMA RemovalStarts ==
    ASSUME NEW h \in Seq(Job), NEW i \in 1..Len(h), Ordered(h, Len(h))
    PROVE  /\ i < Len(h) => OrderedAbove(Swap(h, i, Len(h)), Len(h) - 1, i, FALSE)
           /\ i = Len(h) => Ordered(Swap(h, i, Len(h)), Len(h) - 1)
<1> DEFINE l == Len(h)
           g == Swap(h, i, l)
<1>1. l \in 1..Len(h) /\ l \in Nat OBVIOUS
<1>2. \A k \in 1..l : g[k] = IF k = i THEN h[l] ELSE IF k = l THEN h[i] ELSE h[k]
  <2>1. PICK z \in 1..Len(h) : z = l BY <1>1
  <2>2. \A k \in 1..Len(h) :
           Swap(h, i, z)[k] = IF k = i THEN h[z] ELSE IF k = z THEN h[i] ELSE h[k]
    BY SwapIs
  <2>3. QED BY <2>1, <2>2
<1>3. \A k \in 1..l : h[k].priority \in Int BY Priority
<1> HIDE DEF g
<1>4. ASSUME NEW k \in 2..(l - 1)
      PROVE  /\ Parent(k) \in 1..(l - 1) /\ Parent(k) < k
             /\ Fits(h, k)
             /\ Parent(k) # i /\ k # i => Fits(g, k)
  <2>1. Parent(k) \in 1..(l - 1) /\ Parent(k) < k BY Parents
  <2>2. Fits(h, k) BY DEF Ordered
  <2>3. ASSUME Parent(k) # i, k # i PROVE g[k] = h[k] /\ g[Parent(k)] = h[Parent(k)]
    BY <1>2, <2>1, <2>3
  <2>4. QED BY <2>1, <2>2, <2>3 DEF Fits
<1>5. ASSUME i < l, NEW k \in 2..(l - 1), Parent(k) = i, i > 1 PROVE FitsAbove(g, k)
  <2>1. i < k /\ Fits(h, k) BY <1>4, <1>5
  <2>2. i \in 2..(l - 1) BY <1>5
  <2>3. Parent(i) \in 1..(l - 1) /\ Parent(i) < i /\ Fits(h, i) BY <1>4, <2>2
  <2>4. g[k] = h[k] /\ g[Parent(i)] = h[Parent(i)] BY <1>2, <2>1, <2>3
  <2>5. h[Parent(i)].priority <= h[i].priority /\ h[i].priority <= h[k].priority
    BY <1>5, <2>1, <2>3 DEF Fits
  <2>6. QED BY <1>3, <1>5, <2>3, <2>4, <2>5 DEF FitsAbove
<1>6. i < l => OrderedAbove(g, l - 1, i, FALSE) BY <1>4, <1>5 DEF OrderedAbove
<1>7. i = l => Ordered(g, l - 1)
  <2> HAVE i = l
  <2>1. \A k \in 2..(l - 1) : Parent(k) # i /\ k # i BY <1>4
  <2>2. QED BY <1>4, <2>1 DEF Ordered
<1>8. QED BY <1>6, <1>7 DEF g

-----------------------------------------------------------------------------
(* The inductive invariant.                                                *)

\* The calls that take more than one step.
Moving == ({"Push"} \X Job) \cup {<<"Pop">>} \cup ({"Remove"} \X JobKeys)

TypesOK ==
    /\ delegate \in Seq(Job)
    /\ loop \in {"idle", "up", "down", "out"}
    /\ leaving \in {0, 1}
    /\ at \in Nat /\ from \in Nat

\* What an operation on its way has done so far: an element that leaves is the
\* last one, and for a push the one to replace; what is pushed is in the heap
\* once nothing leaves.
OnItsWay ==
    loop # "idle" =>
        /\ ret = Pending
        /\ op \in Moving
        /\ Len(delegate) > 0
        /\ leaving = 1 /\ op[1] = "Push" => Key(Last(delegate)) = Key(op[2])
        /\ leaving = 0 =>
              loop = "up" /\ op[1] = "Push" /\ \E k \in 1..Len(delegate) : delegate[k] = op[2]

\* The part of the heap order that holds in a round of a loop.
InOrderButOne ==
    /\ loop = "idle" => leaving = 0 /\ ret # Pending /\ Ordered(delegate, heapSize)
    /\ loop = "up" => at \in 1..heapSize /\ OrderedBelow(delegate, heapSize, at)
    /\ loop = "down" => /\ leaving = 1
                        /\ at \in 1..heapSize
                        /\ OrderedAbove(delegate, heapSize, at, at # from)
                        /\ from <= at
                        /\ op = <<"Pop">> => from = 1
    /\ loop = "out" => leaving = 1 /\ Ordered(delegate, heapSize)

HeapInv == TypesOK /\ KeysDiffer(delegate) /\ OnItsWay /\ InOrderButOne

LEMMA HeapInvInit == Init => HeapInv
<1> SUFFICES ASSUME Init PROVE HeapInv OBVIOUS
<1>1. delegate = <<>> /\ Len(delegate) = 0 /\ delegate \in Seq(Job) BY DEF Init
<1>2. ret # Pending BY DEF Init, Ok, Return, Pending
<1>3. QED BY <1>1, <1>2 DEF Init, HeapInv, TypesOK, KeysDiffer, OnItsWay, InOrderButOne, Ordered, heapSize

\* The loops over the slice find a job, if there is one.
LEMMA FirstIs ==
    ASSUME NEW k, delegate \in Seq(Job), Positions(k) # {}
    PROVE  /\ First(Positions(k)) \in 1..Len(delegate)
           /\ Key(delegate[First(Positions(k))]) = k
<1> DEFINE I == Positions(k)
<1>1. I \subseteq 1..Len(delegate) BY DEF Positions
<1>2. I \subseteq Nat BY <1>1
<1> HIDE DEF I
<1>3. PICK x \in I : \A j \in I : x <= j BY <1>2, LeastNumber DEF I
<1>4. First(I) \in I BY <1>3 DEF First
<1>5. First(I) \in Positions(k) BY <1>4 DEF I
<1>6. First(Positions(k)) = First(I) BY DEF I
<1>7. QED BY <1>1, <1>4, <1>5, <1>6 DEF Positions

LEMMA PushInv ==
    ASSUME NEW h \in Seq(Job), KeysDiffer(h), Ordered(h, Len(h)), NEW e \in Job,
           \A k \in 1..Len(h) : Key(h[k]) # Key(e),
           HeapPush(h, e), op' = <<"Push", e>>
    PROVE  HeapInv'
<1> DEFINE g == Append(h, e)
<1>1. /\ g \in Seq(Job) /\ Len(g) = Len(h) + 1 /\ Len(h) \in Nat
      /\ \A k \in 1..Len(g) : g[k] = IF k = Len(h) + 1 THEN e ELSE h[k]
  OBVIOUS
<1>2. OrderedBelow(g, Len(h) + 1, Len(h) + 1) BY PushStarts
<1> HIDE DEF g
<1>3. /\ delegate' = g /\ loop' = "up" /\ at' = Len(h) + 1 /\ from' = 0 /\ leaving' = 0
      /\ ret' = Pending
  BY DEF HeapPush, g
<1>4. heapSize' = Len(h) + 1 BY <1>1, <1>3 DEF heapSize
<1>5. TypesOK' BY <1>1, <1>3 DEF TypesOK
<1>6. KeysDiffer(delegate)' BY <1>1, <1>3 DEF KeysDiffer
<1>7. OnItsWay'
  <2>1. op' \in Moving /\ op'[1] = "Push" /\ op'[2] = e BY DEF Moving
  <2>2. g[Len(h) + 1] = e /\ Len(h) + 1 \in 1..Len(g) BY <1>1
  <2>3. QED BY <1>1, <1>3, <2>1, <2>2 DEF OnItsWay
<1>8. InOrderButOne' BY <1>1, <1>2, <1>3, <1>4 DEF InOrderButOne
<1>9. QED BY <1>5, <1>6, <1>7, <1>8 DEF HeapInv

LEMMA RemoveInv ==
    ASSUME HeapInv, loop = "idle", NEW i \in 1..Len(delegate), HeapRemove(i),
           op' \in Moving, op' = <<"Pop">> => i = 1,
           op'[1] = "Push" => Key(delegate[i]) = Key(op'[2])
    PROVE  HeapInv'
<1>0. /\ delegate \in Seq(Job) /\ KeysDiffer(delegate)
      /\ Ordered(delegate, Len(delegate))
  BY DEF HeapInv, TypesOK, InOrderButOne, heapSize
<1>1. PICK l \in 1..Len(delegate) : l = Len(delegate) BY <1>0
<1> DEFINE g == Swap(delegate, i, l)
<1>2. g \in Seq(Job) /\ Len(g) = l /\ KeysDiffer(g) /\ g[l] = delegate[i]
  <2>1. g \in Seq(Job) /\ Len(g) = Len(delegate) BY <1>0, SwapIs
  <2>2. \A k \in 1..Len(delegate) :
           g[k] = IF k = i THEN delegate[l] ELSE IF k = l THEN delegate[i] ELSE delegate[k]
    BY <1>0, SwapIs
  <2>3. KeysDiffer(g) BY <1>0, SwapKeepsKeys
  <2>4. QED BY <1>1, <2>1, <2>2, <2>3
<1>3. /\ i < l => OrderedAbove(g, l - 1, i, FALSE)
      /\ i = l => Ordered(g, l - 1)
  BY <1>0, <1>1, RemovalStarts
<1> HIDE DEF g
<1>4. /\ delegate' = g /\ at' = i /\ from' = i /\ leaving' = 1 /\ ret' = Pending
      /\ loop' = IF i = l THEN "out" ELSE "down"
  BY <1>1 DEF HeapRemove, g
<1>5. heapSize' = l - 1 BY <1>2, <1>4 DEF heapSize
<1>6. TypesOK' BY <1>2, <1>4 DEF TypesOK
<1>7. OnItsWay'
  <2>1. Last(delegate)' = delegate[i] BY <1>2, <1>4 DEF Last
  <2>2. QED BY <1>1, <1>2, <1>4, <2>1 DEF OnItsWay
<1>8. InOrderButOne'
  <2>1. i < l => OrderedAbove(g, l - 1, i, (at # from)')
    BY <1>3, <1>4 DEF OrderedAbove
  <2>2. CASE i = l BY <1>3, <1>4, <1>5, <2>2 DEF InOrderButOne
  <2>3. CASE i < l BY <1>1, <1>3, <1>4, <1>5, <2>1, <2>3 DEF InOrderButOne
  <2>4. QED BY <1>1, <2>2, <2>3
<1>9. QED BY <1>2, <1>4, <1>6, <1>7, <1>8 DEF HeapInv

LEMMA AnswerInv ==
    ASSUME HeapInv, loop = "idle", NEW r, r # Pending, Answer(r)
    PROVE  HeapInv'
<1>1. UNCHANGED <<delegate, loop, at, from, leaving>> /\ ret' = r BY DEF Answer, loopvars
<1>2. UNCHANGED heapSize BY <1>1 DEF heapSize
<1>3. TypesOK' BY <1>1 DEF HeapInv, TypesOK
<1>4. KeysDiffer(delegate)' BY <1>1 DEF HeapInv
<1>5. OnItsWay' BY <1>1 DEF OnItsWay
<1>6. InOrderButOne' BY <1>1, <1>2 DEF HeapInv, InOrderButOne
<1>7. QED BY <1>3, <1>4, <1>5, <1>6 DEF HeapInv

\* A round of a loop swaps two elements of the heap: nothing else changes.
LEMMA SwapInv ==
    ASSUME HeapInv, loop # "idle", NEW i \in 1..heapSize, NEW j \in 1..heapSize,
           delegate' = Swap(delegate, i, j), UNCHANGED <<op, ret, loop, from, leaving>>,
           at' \in 1..heapSize
    PROVE  /\ TypesOK' /\ KeysDiffer(delegate)' /\ OnItsWay'
           /\ heapSize' = heapSize /\ heapSize \in 0..Len(delegate)
           /\ Last(delegate)' = Last(delegate) \/ leaving = 0
           /\ {delegate'[k] : k \in 1..heapSize} = {delegate[k] : k \in 1..heapSize}
<1> DEFINE g == Swap(delegate, i, j)
<1>1. /\ delegate \in Seq(Job) /\ KeysDiffer(delegate) /\ leaving \in {0, 1}
      /\ Len(delegate) > 0 /\ Len(delegate) \in Nat
  BY DEF HeapInv, TypesOK, OnItsWay
<1>2. /\ heapSize \in 0..Len(delegate)
      /\ i \in 1..Len(delegate) /\ j \in 1..Len(delegate)
      /\ leaving = 1 => i # Len(delegate) /\ j # Len(delegate)
      /\ leaving = 0 => heapSize = Len(delegate)
  BY <1>1 DEF heapSize
<1>3. /\ g \in Seq(Job) /\ Len(g) = Len(delegate)
      /\ \A k \in 1..Len(delegate) :
            g[k] = IF k = i THEN delegate[j] ELSE IF k = j THEN delegate[i] ELSE delegate[k]
  <2>1. g \in Seq(Job) /\ Len(g) = Len(delegate) BY <1>1, <1>2, SwapIs
  <2>2. \A k \in 1..Len(delegate) :
           g[k] = IF k = i THEN delegate[j] ELSE IF k = j THEN delegate[i] ELSE delegate[k]
    <3>1. PICK a \in 1..Len(delegate) : a = i BY <1>2
    <3>2. PICK b \in 1..Len(delegate) : b = j BY <1>2
    <3>3. \A k \in 1..Len(delegate) :
             Swap(delegate, a, b)[k]
                = IF k = a THEN delegate[b] ELSE IF k = b THEN delegate[a] ELSE delegate[k]
      BY <1>1, SwapIs
    <3>4. QED BY <3>1, <3>2, <3>3
  <2>3. QED BY <2>1, <2>2
<1>4. KeysDiffer(g) BY <1>1, <1>2, SwapKeepsKeys
<1>5. {g[k] : k \in 1..heapSize} = {delegate[k] : k \in 1..heapSize}
  BY <1>1, <1>2, SwapKeeps
<1> HIDE DEF g
<1>6. delegate' = g BY DEF g
<1>7. heapSize' = heapSize BY <1>3, <1>6 DEF heapSize
<1>8. TypesOK'
  <2>1. at' \in Nat BY <1>2
  <2>2. QED BY <1>3, <1>6, <2>1 DEF HeapInv, TypesOK
<1>9. leaving = 1 => Last(delegate)' = Last(delegate)
  <2> HAVE leaving = 1
  <2>1. g[Len(delegate)] = delegate[Len(delegate)] BY <1>1, <1>2, <1>3
  <2>2. QED BY <1>3, <1>6, <2>1 DEF Last
<1>10. OnItsWay'
  <2>1. leaving = 0 => {g[k] : k \in 1..Len(delegate)} = {delegate[k] : k \in 1..Len(delegate)}
    BY <1>2, <1>5
  <2>2. leaving = 0 /\ (\E k \in 1..Len(delegate) : delegate[k] = op[2])
           => \E k \in 1..Len(g) : g[k] = op[2]
    <3> HAVE leaving = 0 /\ \E k \in 1..Len(delegate) : delegate[k] = op[2]
    <3>1. op[2] \in {delegate[k] : k \in 1..Len(delegate)} OBVIOUS
    <3>2. op[2] \in {g[k] : k \in 1..Len(delegate)} BY <2>1, <3>1
    <3>3. QED BY <1>3, <3>2
  <2>3. QED BY <1>1, <1>3, <1>6, <1>9, <2>2 DEF HeapInv, OnItsWay
<1>11. QED BY <1>1, <1>2, <1>4, <1>5, <1>6, <1>7, <1>8, <1>9, <1>10

LEMMA HeapFacts ==
    ASSUME HeapInv, loop # "idle"
    PROVE  /\ delegate \in Seq(Job) /\ Len(delegate) \in Nat /\ Len(delegate) > 0
           /\ heapSize \in 0..Len(delegate) /\ heapSize = Len(delegate) - leaving
           /\ \A k \in 1..heapSize : delegate[k].priority \in Int
<1>1. delegate \in Seq(Job) /\ leaving \in {0, 1} /\ Len(delegate) > 0 /\ Len(delegate) \in Nat
  BY DEF HeapInv, TypesOK, OnItsWay
<1>2. heapSize \in 0..Len(delegate) BY <1>1 DEF heapSize
<1>3. \A k \in 1..Len(delegate) : delegate[k].priority \in Int BY <1>1, Priority
<1>4. QED BY <1>1, <1>2, <1>3 DEF heapSize

\* FirstChild is a child that no other child precedes.
LEMMA FirstChildIs ==
    ASSUME HeapInv, loop # "idle", at \in 1..heapSize, 2 * at <= heapSize
    PROVE  /\ FirstChild(at) \in 2..heapSize /\ Parent(FirstChild(at)) = at
           /\ \A k \in 2..heapSize : Parent(k) = at
                 => delegate[FirstChild(at)].priority <= delegate[k].priority
<1>1. PICK m \in Nat : m = heapSize BY HeapFacts
<1>2. \A k \in 1..m : delegate[k].priority \in Int BY <1>1, HeapFacts
<1>3. PICK i \in 1..m : i = at BY <1>1
<1>4. PICK c : c = FirstChild(i) OBVIOUS
<1>5. c = IF 2 * i < m /\ delegate[2 * i + 1].priority < delegate[2 * i].priority
          THEN 2 * i + 1 ELSE 2 * i
  BY <1>1, <1>4 DEF FirstChild, Less
<1>6. c \in {2 * i, 2 * i + 1} /\ c \in 2..m BY <1>1, <1>3, <1>5
<1>7. Parent(c) = i BY <1>6, Parents
<1>8. ASSUME NEW k \in 2..m, Parent(k) = i PROVE delegate[c].priority <= delegate[k].priority
  <2>1. k = 2 * i \/ k = 2 * i + 1 BY <1>8, Parents
  <2>2. 2 * i \in 1..m BY <1>1, <1>3
  <2>3. CASE 2 * i < m
    <3>1. 2 * i + 1 \in 1..m BY <2>3
    <3>2. delegate[2 * i].priority \in Int /\ delegate[2 * i + 1].priority \in Int
      BY <1>2, <2>2, <3>1
    <3>3. QED BY <1>5, <2>1, <2>3, <3>2
  <2>4. CASE ~(2 * i < m)
    <3>1. c = 2 * i /\ k = 2 * i BY <1>5, <2>1, <2>4
    <3>2. delegate[k].priority \in Int BY <1>2
    <3>3. QED BY <3>1, <3>2
  <2>5. QED BY <2>3, <2>4
<1>9. QED BY <1>1, <1>3, <1>4, <1>6, <1>7, <1>8

LEMMA UpInv == ASSUME HeapInv, Up PROVE HeapInv'
<1>1. /\ loop = "up" /\ at > 1 /\ delegate[at].priority < delegate[Parent(at)].priority
      /\ delegate' = Swap(delegate, at, Parent(at)) /\ at' = Parent(at)
      /\ UNCHANGED <<op, ret, loop, from, leaving>>
  BY DEF Up, Rises, Less
<1>2. at \in 1..heapSize /\ OrderedBelow(delegate, heapSize, at)
  BY <1>1 DEF HeapInv, InOrderButOne
<1>3. /\ delegate \in Seq(Job) /\ heapSize \in 0..Len(delegate) /\ Len(delegate) \in Nat
  BY <1>1, HeapFacts
<1>4. at \in 2..heapSize /\ Parent(at) \in 1..heapSize BY <1>1, <1>2, <1>3, Parents
<1>5. /\ TypesOK' /\ KeysDiffer(delegate)' /\ OnItsWay' /\ heapSize' = heapSize
  BY <1>1, <1>2, <1>4, SwapInv
<1>6. OrderedBelow(Swap(delegate, at, Parent(at)), heapSize, Parent(at))
  BY <1>1, <1>2, <1>3, <1>4, UpKeepsOrder
<1>7. InOrderButOne' BY <1>1, <1>4, <1>5, <1>6 DEF InOrderButOne
<1>8. QED BY <1>5, <1>7 DEF HeapInv

LEMMA DownInv == ASSUME HeapInv, Down PROVE HeapInv'
<1>1. /\ loop = "down" /\ 2 * at <= heapSize
      /\ delegate[FirstChild(at)].priority < delegate[at].priority
      /\ delegate' = Swap(delegate, at, FirstChild(at)) /\ at' = FirstChild(at)
      /\ UNCHANGED <<op, ret, loop, from, leaving>>
  BY DEF Down, Sinks, Less
<1>2. /\ at \in 1..heapSize /\ OrderedAbove(delegate, heapSize, at, at # from)
      /\ leaving = 1 /\ from <= at /\ (op = <<"Pop">> => from = 1)
  BY <1>1 DEF HeapInv, InOrderButOne
<1>3. /\ delegate \in Seq(Job) /\ heapSize \in 0..Len(delegate) /\ Len(delegate) \in Nat
  BY <1>1, HeapFacts
<1>4. PICK c : c = FirstChild(at) OBVIOUS
<1>5. /\ c \in 2..heapSize /\ Parent(c) = at
      /\ \A k \in 2..heapSize : Parent(k) = at => delegate[c].priority <= delegate[k].priority
  BY <1>1, <1>2, <1>4, FirstChildIs
<1>6. c \in 1..heapSize /\ at < c
  <2>1. c \in Nat /\ c > 1 BY <1>3, <1>5
  <2>2. Parent(c) < c BY <2>1, Parents
  <2>3. QED BY <1>3, <1>5, <2>2
<1>7. /\ TypesOK' /\ KeysDiffer(delegate)' /\ OnItsWay' /\ heapSize' = heapSize
  BY <1>1, <1>2, <1>4, <1>6, SwapInv
<1>8. OrderedAbove(Swap(delegate, at, c), heapSize, c, TRUE)
  <2>1. PICK placed \in BOOLEAN : placed = (at # from) OBVIOUS
  <2>2. OrderedAbove(delegate, heapSize, at, placed) BY <1>2, <2>1
  <2>3. delegate[c].priority < delegate[at].priority BY <1>1, <1>4
  <2>4. QED BY <1>2, <1>3, <1>5, <2>2, <2>3, DownKeepsOrder
<1>9. InOrderButOne'
  <2>1. at' = c /\ from' = from /\ from' \in Nat /\ at' # from' /\ from' <= at'
    BY <1>1, <1>2, <1>3, <1>4, <1>6 DEF HeapInv, TypesOK
  <2>2. OrderedAbove(delegate', heapSize', c, at' # from')
    BY <1>1, <1>4, <1>7, <1>8, <2>1 DEF OrderedAbove
  <2>3. QED BY <1>1, <1>2, <1>6, <1>7, <2>1, <2>2 DEF InOrderButOne
<1>10. QED BY <1>7, <1>9 DEF HeapInv

LEMMA UpEndsInv == ASSUME HeapInv, UpEnds PROVE HeapInv'
<1>1. loop = "up" /\ UNCHANGED <<delegate, op>> BY DEF UpEnds
<1>2. at \in 1..heapSize /\ OrderedBelow(delegate, heapSize, at)
  BY <1>1 DEF HeapInv, InOrderButOne
<1>3. /\ delegate \in Seq(Job) /\ heapSize \in 0..Len(delegate)
      /\ heapSize = Len(delegate) - leaving /\ Len(delegate) \in Nat
  BY <1>1, HeapFacts
<1>4. Ordered(delegate, heapSize)
  <2>1. ~(at > 1 /\ delegate[at].priority < delegate[Parent(at)].priority)
    BY DEF UpEnds, Rises, Less
  <2>2. QED BY <1>2, <1>3, <2>1, UpStops
<1>5. CASE leaving = 1
  <2>1. loop' = "out" /\ UNCHANGED <<ret, at, from, leaving>> BY <1>5 DEF UpEnds
  <2>2. heapSize' = heapSize BY <1>1, <2>1 DEF heapSize
  <2>3. TypesOK' /\ KeysDiffer(delegate)' BY <1>1, <2>1 DEF HeapInv, TypesOK
  <2>4. OnItsWay' BY <1>1, <1>5, <2>1 DEF HeapInv, OnItsWay
  <2>5. InOrderButOne' BY <1>1, <1>4, <1>5, <2>1, <2>2 DEF InOrderButOne
  <2>6. QED BY <2>3, <2>4, <2>5 DEF HeapInv
<1>6. CASE leaving # 1
  <2>1. /\ ret' = Ok({}) /\ loop' = "idle" /\ at' = 0 /\ from' = 0 /\ leaving' = 0
    BY <1>6 DEF UpEnds, Finish
  <2>2. leaving = 0 BY <1>6 DEF HeapInv, TypesOK
  <2>3. heapSize' = heapSize BY <1>1, <2>1, <2>2 DEF heapSize
  <2>4. TypesOK' /\ KeysDiffer(delegate)' BY <1>1, <2>1 DEF HeapInv, TypesOK
  <2>5. OnItsWay' BY <2>1 DEF OnItsWay
  <2>6. ret' # Pending BY <2>1 DEF Ok, Return, Pending
  <2>7. InOrderButOne' BY <1>1, <1>4, <2>1, <2>3, <2>6 DEF InOrderButOne
  <2>8. QED BY <2>4, <2>5, <2>7 DEF HeapInv
<1>7. QED BY <1>5, <1>6

LEMMA DownEndsInv == ASSUME HeapInv, DownEnds PROVE HeapInv'
<1>1. /\ loop = "down" /\ UNCHANGED <<delegate, op, ret, at, from, leaving>>
      /\ loop' = IF at = from /\ op # <<"Pop">> THEN "up" ELSE "out"
  BY DEF DownEnds
<1>2. /\ at \in 1..heapSize /\ OrderedAbove(delegate, heapSize, at, at # from)
      /\ leaving = 1 /\ (op = <<"Pop">> => from = 1)
  BY <1>1 DEF HeapInv, InOrderButOne
<1>3. /\ delegate \in Seq(Job) /\ heapSize \in 0..Len(delegate) /\ Len(delegate) \in Nat
      /\ \A k \in 1..heapSize : delegate[k].priority \in Int
  BY <1>1, HeapFacts
<1>4. \A k \in 2..heapSize : Parent(k) = at => delegate[at].priority <= delegate[k].priority
  <2> SUFFICES ASSUME NEW k \in 2..heapSize, Parent(k) = at
               PROVE  delegate[at].priority <= delegate[k].priority
    OBVIOUS
  <2>1. 2 * at <= heapSize
    <3>1. k \in Nat /\ k > 1 /\ at \in Nat /\ heapSize \in Nat BY <1>2, <1>3
    <3>2. k = 2 * at \/ k = 2 * at + 1 BY <3>1, Parents
    <3>3. QED BY <3>1, <3>2
  <2>2. PICK c : c = FirstChild(at) OBVIOUS
  <2>3. c \in 2..heapSize /\ delegate[c].priority <= delegate[k].priority
    BY <1>1, <1>2, <2>1, <2>2, FirstChildIs
  <2>4. ~(delegate[c].priority < delegate[at].priority)
    BY <2>1, <2>2 DEF DownEnds, Sinks, Less
  <2>5. /\ delegate[c].priority \in Int /\ delegate[at].priority \in Int
        /\ delegate[k].priority \in Int
    BY <1>2, <1>3, <2>3
  <2>6. QED BY <2>3, <2>4, <2>5
<1>5. /\ OrderedBelow(delegate, heapSize, at)
      /\ at # from \/ at = 1 => Ordered(delegate, heapSize)
  <2>1. PICK placed \in BOOLEAN : placed = (at # from) OBVIOUS
  <2>2. OrderedAbove(delegate, heapSize, at, placed) BY <1>2, <2>1
  <2>3. QED BY <1>2, <1>3, <1>4, <2>1, <2>2, DownStops
<1>6. heapSize' = heapSize BY <1>1 DEF heapSize
<1>7. TypesOK' /\ KeysDiffer(delegate)' BY <1>1 DEF HeapInv, TypesOK
<1>8. OnItsWay' BY <1>1, <1>2 DEF HeapInv, OnItsWay
<1>9. InOrderButOne' BY <1>1, <1>2, <1>5, <1>6 DEF InOrderButOne
<1>10. QED BY <1>7, <1>8, <1>9 DEF HeapInv

LEMMA FrontIs ==
    ASSUME NEW h \in Seq(Job), Len(h) > 0
    PROVE  /\ Front(h) \in Seq(Job) /\ Len(Front(h)) = Len(h) - 1
           /\ \A k \in 1..(Len(h) - 1) : Front(h)[k] = h[k]
<1>1. PICK m \in Nat : m = Len(h) - 1 OBVIOUS
<1>2. Front(h) = SubSeq(h, 1, m) BY <1>1 DEF Front
<1>3. SubSeq(h, 1, m) \in Seq(Job) /\ Len(SubSeq(h, 1, m)) = m BY <1>1
<1>4. \A k \in 1..m : SubSeq(h, 1, m)[k] = h[k] BY <1>1
<1>5. QED BY <1>1, <1>2, <1>3, <1>4

LEMMA DropLastInv == ASSUME HeapInv, DropLast PROVE HeapInv'
<1>1. loop = "out" /\ op' = op BY DEF DropLast
<1>2. leaving = 1 /\ Ordered(delegate, heapSize) /\ KeysDiffer(delegate) /\ op \in Moving
  BY <1>1 DEF HeapInv, InOrderButOne, OnItsWay
<1>3. /\ delegate \in Seq(Job) /\ Len(delegate) \in Nat /\ Len(delegate) > 0
      /\ heapSize = Len(delegate) - 1
  BY <1>1, <1>2, HeapFacts
<1>4. PICK f : f = Front(delegate) OBVIOUS
<1>5. /\ f \in Seq(Job) /\ Len(f) = heapSize
      /\ \A k \in 1..heapSize : f[k] = delegate[k]
  BY <1>3, <1>4, FrontIs
<1>6. KeysDiffer(f) BY <1>2, <1>3, <1>5 DEF KeysDiffer
<1>7. Ordered(f, heapSize)
  <2> SUFFICES ASSUME NEW k \in 2..heapSize PROVE Fits(f, k) BY DEF Ordered
  <2>1. Parent(k) \in 1..heapSize /\ k \in 1..heapSize BY <1>3, Parents
  <2>2. Fits(delegate, k) BY <1>2 DEF Ordered
  <2>3. QED BY <1>5, <2>1, <2>2 DEF Fits
<1>8. CASE op[1] = "Push"
  <2>1. op[2] \in Job /\ op = <<"Push", op[2]>> BY <1>2, <1>8 DEF Moving
  <2>2. Key(Last(delegate)) = Key(op[2]) BY <1>1, <1>2, <1>8 DEF HeapInv, OnItsWay
  <2>3. \A k \in 1..Len(f) : Key(f[k]) # Key(op[2])
    BY <1>2, <1>3, <1>5, <2>2 DEF KeysDiffer, Last
  <2>4. HeapPush(f, op[2]) BY <1>4, <1>8 DEF DropLast
  <2>5. QED BY <1>1, <1>5, <1>6, <1>7, <2>1, <2>3, <2>4, PushInv
<1>9. CASE op[1] # "Push"
  <2>1. /\ delegate' = f /\ loop' = "idle" /\ at' = 0 /\ from' = 0 /\ leaving' = 0
        /\ ret' = Ok({Last(delegate)})
    BY <1>4, <1>9 DEF DropLast, Finish
  <2>2. heapSize' = heapSize BY <1>3, <1>5, <2>1 DEF heapSize
  <2>3. TypesOK' /\ KeysDiffer(delegate)' BY <1>5, <1>6, <2>1 DEF TypesOK
  <2>4. OnItsWay' BY <2>1 DEF OnItsWay
  <2>5. ret' # Pending BY <2>1 DEF Ok, Return, Pending
  <2>6. InOrderButOne' BY <1>7, <2>1, <2>2, <2>5 DEF InOrderButOne
  <2>7. QED BY <2>3, <2>4, <2>6 DEF HeapInv
<1>10. QED BY <1>8, <1>9

LEMMA IdleFacts ==
    ASSUME HeapInv, loop = "idle"
    PROVE  /\ delegate \in Seq(Job) /\ Len(delegate) \in Nat /\ leaving = 0
           /\ heapSize = Len(delegate) /\ ret # Pending
           /\ KeysDiffer(delegate) /\ Ordered(delegate, Len(delegate))
<1>1. delegate \in Seq(Job) /\ leaving = 0 /\ ret # Pending /\ Ordered(delegate, heapSize)
  BY DEF HeapInv, TypesOK, InOrderButOne
<1>2. heapSize = Len(delegate) BY <1>1 DEF heapSize
<1>3. QED BY <1>1, <1>2 DEF HeapInv

LEMMA NotPending ==
    /\ \A jobs : Ok(jobs) # Pending
    /\ \A err \in {"ErrQueueEmpty", "ErrJobNotFound", "ErrJobAlreadyExists"} : Fail(err) # Pending
    /\ \A m : Return("nil", {}, m) # Pending
BY DEF Ok, Fail, Return, Pending

\* Every call with the mutex free.
LEMMA CallInv ==
    ASSUME HeapInv
    PROVE  /\ \A e \in Job : PushJob(e) /\ Call(<<"Push", e>>) => HeapInv'
           /\ PopJob /\ Call(<<"Pop">>) => HeapInv'
           /\ HeadJob /\ Call(<<"Head">>) => HeapInv'
           /\ \A k \in JobKeys : GetJob(k) /\ Call(<<"Get", k>>) => HeapInv'
           /\ \A k \in JobKeys : RemoveJob(k) /\ Call(<<"Remove", k>>) => HeapInv'
           /\ \A keys \in Selections :
                 ScheduledJobs(keys) /\ Call(<<"ScheduledJobs", keys>>) => HeapInv'
           /\ QueueSize /\ Call(<<"Size">>) => HeapInv'
           /\ ClearJobs /\ Call(<<"Clear">>) => HeapInv'
<1>1. ASSUME NEW e \in Job, PushJob(e), Call(<<"Push", e>>) PROVE HeapInv'
  <2>1. loop = "idle" /\ op' = <<"Push", e>> BY <1>1 DEF Call
  <2>2. PICK I : I = Positions(Key(e)) OBVIOUS
  <2>3. CASE I = {}
    <3>1. HeapPush(delegate, e) BY <1>1, <2>2, <2>3 DEF PushJob
    <3>2. \A k \in 1..Len(delegate) : Key(delegate[k]) # Key(e)
      BY <2>1, <2>2, <2>3, IdleFacts DEF Positions
    <3>3. QED BY <2>1, <3>1, <3>2, IdleFacts, PushInv
  <2>4. CASE I # {} /\ e.detail \notin Replace
    <3>1. Answer(Fail("ErrJobAlreadyExists")) BY <1>1, <2>2, <2>4 DEF PushJob
    <3>2. QED BY <2>1, <3>1, AnswerInv, NotPending
  <2>5. CASE I # {} /\ e.detail \in Replace
    <3>1. HeapRemove(First(I)) BY <1>1, <2>2, <2>5 DEF PushJob
    <3>2. First(I) \in 1..Len(delegate) /\ Key(delegate[First(I)]) = Key(e)
      BY <2>1, <2>2, <2>5, IdleFacts, FirstIs
    <3>3. op' \in Moving /\ op' # <<"Pop">> /\ op'[2] = e BY <2>1 DEF Moving
    <3>4. QED BY <2>1, <3>1, <3>2, <3>3, RemoveInv
  <2>6. QED BY <2>3, <2>4, <2>5
<1>2. ASSUME PopJob, Call(<<"Pop">>) PROVE HeapInv'
  <2>1. loop = "idle" /\ op' = <<"Pop">> BY <1>2 DEF Call
  <2>2. CASE delegate = <<>> BY <1>2, <2>1, <2>2, AnswerInv, NotPending DEF PopJob
  <2>3. CASE delegate # <<>>
    <3>1. HeapRemove(1) BY <1>2, <2>3 DEF PopJob, HeapPop
    <3>2. 1 \in 1..Len(delegate) BY <2>1, <2>3, IdleFacts
    <3>3. op' \in Moving /\ op'[1] # "Push" BY <2>1 DEF Moving
    <3>4. QED BY <2>1, <3>1, <3>2, <3>3, RemoveInv
  <2>4. QED BY <2>2, <2>3
<1>3. ASSUME HeadJob, Call(<<"Head">>) PROVE HeapInv'
  <2>1. loop = "idle" BY <1>3 DEF Call
  <2>2. PICK r : r # Pending /\ Answer(r) BY <1>3, NotPending DEF HeadJob
  <2>3. QED BY <2>1, <2>2, AnswerInv
<1>4. ASSUME NEW k \in JobKeys, GetJob(k), Call(<<"Get", k>>) PROVE HeapInv'
  <2>1. loop = "idle" BY <1>4 DEF Call
  <2>2. PICK r : r # Pending /\ Answer(r) BY <1>4, NotPending DEF GetJob
  <2>3. QED BY <2>1, <2>2, AnswerInv
<1>5. ASSUME NEW k \in JobKeys, RemoveJob(k), Call(<<"Remove", k>>) PROVE HeapInv'
  <2>1. loop = "idle" /\ op' = <<"Remove", k>> BY <1>5 DEF Call
  <2>2. PICK I : I = Positions(k) OBVIOUS
  <2>3. CASE I = {}
    <3>1. Answer(Fail("ErrJobNotFound")) BY <1>5, <2>2, <2>3 DEF RemoveJob
    <3>2. QED BY <2>1, <3>1, AnswerInv, NotPending
  <2>4. CASE I # {}
    <3>1. HeapRemove(First(I)) BY <1>5, <2>2, <2>4 DEF RemoveJob
    <3>2. First(I) \in 1..Len(delegate) BY <2>1, <2>2, <2>4, IdleFacts, FirstIs
    <3>3. op' \in Moving /\ op' # <<"Pop">> /\ op'[1] # "Push" BY <2>1 DEF Moving
    <3>4. QED BY <2>1, <3>1, <3>2, <3>3, RemoveInv
  <2>5. QED BY <2>3, <2>4
<1>6. ASSUME NEW keys \in Selections, ScheduledJobs(keys), Call(<<"ScheduledJobs", keys>>)
      PROVE HeapInv'
  <2>1. loop = "idle" BY <1>6 DEF Call
  <2>2. PICK r : r # Pending /\ Answer(r) BY <1>6, NotPending DEF ScheduledJobs
  <2>3. QED BY <2>1, <2>2, AnswerInv
<1>7. ASSUME QueueSize, Call(<<"Size">>) PROVE HeapInv'
  <2>1. loop = "idle" BY <1>7 DEF Call
  <2>2. PICK r : r # Pending /\ Answer(r) BY <1>7, NotPending DEF QueueSize
  <2>3. QED BY <2>1, <2>2, AnswerInv
<1>8. ASSUME ClearJobs, Call(<<"Clear">>) PROVE HeapInv'
  <2>1. /\ delegate' = <<>> /\ ret' # Pending /\ UNCHANGED <<loop, at, from, leaving>>
        /\ loop = "idle"
    BY <1>8, NotPending DEF ClearJobs, loopvars, Call
  <2>2. delegate' \in Seq(Job) /\ Len(delegate') = 0 BY <2>1
  <2>3. QED
    BY <2>1, <2>2 DEF HeapInv, TypesOK, KeysDiffer, OnItsWay, InOrderButOne, Ordered, heapSize
<1>9. QED BY <1>1, <1>2, <1>3, <1>4, <1>5, <1>6, <1>7, <1>8

LEMMA HeapInvStep == HeapInv /\ [Next]_hvars => HeapInv'
<1> SUFFICES ASSUME HeapInv, [Next]_hvars PROVE HeapInv' OBVIOUS
<1>1. CASE UNCHANGED hvars
  BY <1>1 DEF hvars, loopvars, HeapInv, TypesOK, OnItsWay, InOrderButOne, heapSize
<1>2. CASE Up BY <1>2, UpInv
<1>3. CASE UpEnds BY <1>3, UpEndsInv
<1>4. CASE Down BY <1>4, DownInv
<1>5. CASE DownEnds BY <1>5, DownEndsInv
<1>6. CASE DropLast BY <1>6, DropLastInv
<1>7. QED BY <1>1, <1>2, <1>3, <1>4, <1>5, <1>6, CallInv DEF Next

LEMMA HeapInvHolds == Spec => []HeapInv
BY HeapInvInit, HeapInvStep, PTL DEF Spec

\* When no operation is on its way, no job in the slice precedes its parent:
\* for every number of jobs, with every use of heap.Remove.
THEOREM HeapOrderedHolds == Spec => []HeapOrdered
<1>1. HeapInv => HeapOrdered
  <2> SUFFICES ASSUME HeapInv, loop = "idle", NEW j \in 2..Len(delegate)
               PROVE  ~Less(delegate, j, Parent(j))
    BY DEF HeapOrdered
  <2>1. delegate \in Seq(Job) /\ Ordered(delegate, Len(delegate)) BY IdleFacts
  <2>2. Fits(delegate, j) BY <2>1 DEF Ordered
  <2>3. Parent(j) \in 1..Len(delegate) BY Parents
  <2>4. delegate[j].priority \in Int /\ delegate[Parent(j)].priority \in Int
    BY <2>1, <2>3, Priority
  <2>5. QED BY <2>2, <2>4 DEF Fits, Less
<1>2. QED BY <1>1, HeapInvHolds, PTL

-----------------------------------------------------------------------------
(* The contract of JobQueue. Elements is the slice as a set.               *)

Elements(h) == {h[i] : i \in 1..Len(h)}

LEMMA IdleContents ==
    ASSUME HeapInv, loop = "idle"
    PROVE  Contents = Elements(delegate) /\ Result = ret
BY IdleFacts DEF Contents, Result, Elements

\* As many elements as there are indices: no two elements have the same key.
LEMMA ElementsCount ==
    ASSUME NEW h \in Seq(Job), KeysDiffer(h)
    PROVE  Cardinality(Elements(h)) = Len(h)
<1> DEFINE f == [i \in 1..Len(h) |-> h[i]]
<1>1. f \in [1..Len(h) -> Elements(h)] BY DEF Elements
<1>2. \A i, j \in 1..Len(h) : f[i] = f[j] => i = j BY DEF KeysDiffer
<1>3. \A x \in Elements(h) : \E i \in 1..Len(h) : f[i] = x BY DEF Elements
<1> HIDE DEF f
<1>4. f \in Bijection(1..Len(h), Elements(h))
  BY <1>1, <1>2, <1>3 DEF Bijection, Injection, Surjection, IsInjective
<1>5. ExistsBijection(1..Len(h), Elements(h)) BY <1>4 DEF ExistsBijection
<1>6. QED BY <1>5, FS_CountingElements

\* The entry with the key of an element is that element.
LEMMA ElementWithKey ==
    ASSUME NEW h \in Seq(Job), KeysDiffer(h), NEW i \in 1..Len(h)
    PROVE  AQ!WithKey(Elements(h), Key(h[i])) = {h[i]}
BY DEF AQ!WithKey, AQ!Key, Key, Elements, KeysDiffer

\* What remains once element i has changed places with the last one.
LEMMA ElementsLeft ==
    ASSUME NEW h \in Seq(Job), KeysDiffer(h), NEW i \in 1..Len(h)
    PROVE  {Swap(h, i, Len(h))[k] : k \in 1..(Len(h) - 1)} = Elements(h) \ {h[i]}
<1>1. PICK l \in 1..Len(h) : l = Len(h) OBVIOUS
<1> DEFINE g == Swap(h, i, l)
<1>2. \A k \in 1..Len(h) : g[k] = IF k = i THEN h[l] ELSE IF k = l THEN h[i] ELSE h[k]
  BY SwapIs
<1> HIDE DEF g
<1>3. ASSUME NEW k \in 1..(l - 1) PROVE g[k] \in Elements(h) \ {h[i]}
  <2>1. k \in 1..Len(h) /\ k # l BY <1>1
  <2>2. CASE k = i
    <3>1. g[k] = h[l] /\ l # i BY <1>2, <2>1, <2>2
    <3>2. QED BY <3>1 DEF Elements, KeysDiffer
  <2>3. CASE k # i
    <3>1. g[k] = h[k] BY <1>2, <2>1, <2>3
    <3>2. QED BY <2>1, <2>3, <3>1 DEF Elements, KeysDiffer
  <2>4. QED BY <2>2, <2>3
<1>4. ASSUME NEW x \in Elements(h) \ {h[i]} PROVE \E k \in 1..(l - 1) : x = g[k]
  <2>1. PICK j \in 1..Len(h) : x = h[j] BY DEF Elements
  <2>2. j # i BY <2>1
  <2>3. CASE j = l
    <3>1. i \in 1..(l - 1) /\ g[i] = h[l] BY <1>1, <1>2, <2>2, <2>3
    <3>2. QED BY <2>1, <2>3, <3>1
  <2>4. CASE j # l
    <3>1. j \in 1..(l - 1) /\ g[j] = h[j] BY <1>1, <1>2, <2>2, <2>4
    <3>2. QED BY <2>1, <3>1
  <2>5. QED BY <2>3, <2>4
<1>5. {g[k] : k \in 1..(l - 1)} = Elements(h) \ {h[i]}
  <2>1. \A k \in 1..(l - 1) : g[k] \in Elements(h) \ {h[i]} BY <1>3
  <2>2. \A x \in Elements(h) \ {h[i]} : x \in {g[k] : k \in 1..(l - 1)} BY <1>4
  <2>3. QED BY <2>1, <2>2
<1>6. QED BY <1>1, <1>5 DEF g

LEMMA AppendedElements ==
    ASSUME NEW h \in Seq(Job), NEW e \in Job
    PROVE  {Append(h, e)[k] : k \in 1..(Len(h) + 1)} = Elements(h) \cup {e}
<1> DEFINE g == Append(h, e)
<1>1. Len(h) \in Nat /\ \A k \in 1..(Len(h) + 1) : g[k] = IF k = Len(h) + 1 THEN e ELSE h[k]
  OBVIOUS
<1> HIDE DEF g
<1>2. \A k \in 1..(Len(h) + 1) : g[k] \in Elements(h) \cup {e} BY <1>1 DEF Elements
<1>3. ASSUME NEW x \in Elements(h) \cup {e} PROVE \E k \in 1..(Len(h) + 1) : x = g[k]
  <2>1. CASE x = e
    <3>1. Len(h) + 1 \in 1..(Len(h) + 1) /\ g[Len(h) + 1] = e BY <1>1
    <3>2. QED BY <2>1, <3>1
  <2>2. CASE x \in Elements(h)
    <3>1. PICK j \in 1..Len(h) : x = h[j] BY <2>2 DEF Elements
    <3>2. j \in 1..(Len(h) + 1) /\ g[j] = h[j] BY <1>1
    <3>3. QED BY <3>1, <3>2
  <2>3. QED BY <2>1, <2>2
<1>4. {g[k] : k \in 1..(Len(h) + 1)} = Elements(h) \cup {e}
  <2>1. \A x \in Elements(h) \cup {e} : x \in {g[k] : k \in 1..(Len(h) + 1)} BY <1>3
  <2>2. QED BY <1>2, <2>1
<1>5. QED BY <1>4 DEF g

\* How an operation on its way looks from outside.
LEMMA MovingContents ==
    ASSUME ret = Pending
    PROVE  /\ Contents = {delegate[i] : i \in 1..heapSize}
                            \cup (IF op[1] = "Push" THEN {op[2]} ELSE {})
           /\ Result = IF op[1] = "Push" THEN Ok({}) ELSE Ok({Last(delegate)})
BY DEF Contents, Result

LEMMA ImplementsInit == Init => AQ!Init
<1> SUFFICES ASSUME Init PROVE AQ!Init OBVIOUS
<1>1. HeapInv BY HeapInvInit
<1>2. loop = "idle" /\ delegate = <<>> /\ Len(delegate) = 0 BY DEF Init
<1>3. Elements(delegate) = {} BY <1>2 DEF Elements
<1>4. Contents = {} /\ Result = ret BY <1>1, <1>2, <1>3, IdleContents
<1>5. QED BY <1>4 DEF Init, AQ!Init, Ok, Return, AQ!Ok, AQ!Return

\* The rounds of the loops, their ends and the drop of the last element: for
\* the callers nothing has changed.
LEMMA LoopsStutter ==
    ASSUME HeapInv, HeapInv', Up \/ UpEnds \/ Down \/ DownEnds \/ DropLast
    PROVE  Contents' = Contents /\ Result' = Result /\ op' = op
<1>1. ASSUME NEW i \in 1..heapSize, NEW j \in 1..heapSize, loop # "idle",
             delegate' = Swap(delegate, i, j), UNCHANGED <<op, ret, loop, from, leaving>>,
             at' \in 1..heapSize
      PROVE  Contents' = Contents /\ Result' = Result
  <2>1. ret = Pending /\ ret' = Pending /\ op' = op BY <1>1 DEF HeapInv, OnItsWay
  <2>2. /\ heapSize' = heapSize
        /\ Last(delegate)' = Last(delegate) \/ leaving = 0
        /\ {delegate'[k] : k \in 1..heapSize} = {delegate[k] : k \in 1..heapSize}
    BY <1>1, SwapInv
  <2>3. leaving = 0 => op[1] = "Push" BY <1>1 DEF HeapInv, OnItsWay
  <2>4. Contents' = Contents BY <2>1, <2>2 DEF Contents
  <2>5. Result' = Result BY <2>1, <2>2, <2>3 DEF Result
  <2>6. QED BY <2>4, <2>5
<1>2. CASE Up
  <2>1. /\ loop = "up" /\ at > 1 /\ delegate' = Swap(delegate, at, Parent(at))
        /\ at' = Parent(at) /\ UNCHANGED <<op, ret, loop, from, leaving>>
    BY <1>2 DEF Up, Rises
  <2>2. at \in 1..heapSize /\ heapSize \in Nat BY <2>1, HeapFacts DEF HeapInv, InOrderButOne
  <2>3. Parent(at) \in 1..heapSize BY <2>1, <2>2, Parents
  <2>4. QED BY <1>1, <2>1, <2>2, <2>3
<1>3. CASE Down
  <2>1. /\ loop = "down" /\ delegate' = Swap(delegate, at, FirstChild(at)) /\ 2 * at <= heapSize
        /\ at' = FirstChild(at) /\ UNCHANGED <<op, ret, loop, from, leaving>>
    BY <1>3 DEF Down, Sinks
  <2>2. at \in 1..heapSize /\ heapSize \in Nat BY <2>1, HeapFacts DEF HeapInv, InOrderButOne
  <2>3. FirstChild(at) \in 1..heapSize BY <2>1, <2>2, FirstChildIs
  <2>4. QED BY <1>1, <2>1, <2>2, <2>3
<1>4. CASE DownEnds
  <2>1. UNCHANGED <<delegate, op, ret, leaving>> BY <1>4 DEF DownEnds
  <2>2. QED BY <2>1 DEF Contents, Result, heapSize
<1>5. CASE UpEnds
  <2>1. UNCHANGED <<delegate, op>> /\ loop = "up" BY <1>5 DEF UpEnds
  <2>2. CASE leaving = 1
    <3>1. UNCHANGED <<ret, leaving>> BY <1>5, <2>2 DEF UpEnds
    <3>2. QED BY <2>1, <3>1 DEF Contents, Result, heapSize
  <2>3. CASE leaving # 1
    <3>1. ret' = Ok({}) /\ leaving' = 0 BY <1>5, <2>3 DEF UpEnds, Finish
    <3>2. /\ leaving = 0 /\ ret = Pending /\ op[1] = "Push"
          /\ \E k \in 1..Len(delegate) : delegate[k] = op[2]
      BY <2>1, <2>3 DEF HeapInv, TypesOK, OnItsWay
    <3>3. heapSize' = heapSize /\ heapSize = Len(delegate)
      BY <2>1, <3>1, <3>2, HeapFacts DEF heapSize
    <3>4. ret' # Pending BY <3>1, NotPending
    <3>5. Contents = {delegate[i] : i \in 1..heapSize} \cup {op[2]} /\ Result = Ok({})
      BY <3>2, MovingContents
    <3>6. Contents' = {delegate[i] : i \in 1..heapSize} /\ Result' = Ok({})
      BY <2>1, <3>1, <3>3, <3>4 DEF Contents, Result
    <3>7. op[2] \in {delegate[i] : i \in 1..heapSize} BY <3>2, <3>3
    <3>8. QED BY <2>1, <3>5, <3>6, <3>7
  <2>4. QED BY <2>2, <2>3
<1>6. CASE DropLast
  <2>1. loop = "out" /\ op' = op BY <1>6 DEF DropLast
  <2>2. leaving = 1 /\ ret = Pending /\ op \in Moving
    BY <2>1 DEF HeapInv, InOrderButOne, OnItsWay
  <2>3. /\ delegate \in Seq(Job) /\ Len(delegate) \in Nat /\ Len(delegate) > 0
        /\ heapSize = Len(delegate) - 1
    BY <2>1, <2>2, HeapFacts
  <2>4. PICK f : f = Front(delegate) OBVIOUS
  <2>5. /\ f \in Seq(Job) /\ Len(f) = heapSize
        /\ \A k \in 1..heapSize : f[k] = delegate[k]
    BY <2>3, <2>4, FrontIs
  <2>6. Elements(f) = {delegate[i] : i \in 1..heapSize} BY <2>5 DEF Elements
  <2>7. CASE op[1] = "Push"
    <3>1. delegate' = Append(f, op[2]) /\ ret' = Pending /\ leaving' = 0 /\ op[2] \in Job
      BY <1>6, <2>2, <2>4, <2>7 DEF DropLast, HeapPush, Moving
    <3>2. heapSize' = Len(f) + 1 BY <2>5, <3>1 DEF heapSize
    <3>3. {delegate'[i] : i \in 1..heapSize'} = Elements(f) \cup {op[2]}
      BY <2>5, <3>1, <3>2, AppendedElements
    <3>4. Contents' = Elements(f) \cup {op[2]} /\ Result' = Ok({})
      BY <2>1, <2>7, <3>1, <3>3 DEF Contents, Result
    <3>5. Contents = Elements(f) \cup {op[2]} /\ Result = Ok({})
      BY <2>2, <2>6, <2>7, MovingContents
    <3>6. QED BY <2>1, <3>4, <3>5
  <2>8. CASE op[1] # "Push"
    <3>1. delegate' = f /\ leaving' = 0 /\ ret' = Ok({Last(delegate)}) /\ ret' # Pending
      BY <1>6, <2>4, <2>8, NotPending DEF DropLast, Finish
    <3>2. heapSize' = heapSize BY <2>3, <2>5, <3>1 DEF heapSize
    <3>3. Contents' = Elements(f) /\ Result' = Ok({Last(delegate)})
      BY <2>5, <2>6, <3>1, <3>2 DEF Contents, Result, Elements
    <3>4. Contents = Elements(f) /\ Result = Ok({Last(delegate)})
      BY <2>2, <2>6, <2>8, MovingContents
    <3>5. QED BY <2>1, <3>3, <3>4
  <2>9. QED BY <2>7, <2>8
<1>7. op' = op
  BY <1>2, <1>3, <1>4, <1>5, <1>6 DEF Up, UpEnds, Down, DownEnds, DropLast
<1>8. QED BY <1>2, <1>3, <1>4, <1>5, <1>6, <1>7

\* An operation that returns at once leaves the contents and gives its result.
LEMMA AnswerGives ==
    ASSUME HeapInv, loop = "idle", NEW r, r # Pending, Answer(r)
    PROVE  Contents' = Contents /\ Result' = r /\ Contents = Elements(delegate)
<1>1. UNCHANGED <<delegate, loop, at, from, leaving>> /\ ret' = r BY DEF Answer, loopvars
<1>2. heapSize' = heapSize BY <1>1 DEF heapSize
<1>3. Contents' = {delegate[i] : i \in 1..heapSize} /\ Result' = r
  BY <1>1, <1>2 DEF Contents, Result
<1>4. Contents = {delegate[i] : i \in 1..heapSize} BY IdleFacts DEF Contents
<1>5. QED BY <1>3, <1>4, IdleContents

\* A removal that begins takes the element out of the contents.
LEMMA RemovalGives ==
    ASSUME HeapInv, loop = "idle", NEW i \in 1..Len(delegate), HeapRemove(i)
    PROVE  /\ Contents' = (Elements(delegate) \ {delegate[i]})
                              \cup (IF op'[1] = "Push" THEN {op'[2]} ELSE {})
           /\ Result' = IF op'[1] = "Push" THEN Ok({}) ELSE Ok({delegate[i]})
<1>1. delegate \in Seq(Job) /\ KeysDiffer(delegate) /\ Len(delegate) \in Nat BY IdleFacts
<1>2. PICK l \in 1..Len(delegate) : l = Len(delegate) BY <1>1
<1> DEFINE g == Swap(delegate, i, l)
<1>3. delegate' = g /\ leaving' = 1 /\ ret' = Pending BY <1>2 DEF HeapRemove
<1>4. Len(g) = l BY <1>1, <1>2, SwapIs
<1>5. g[l] = IF l = i THEN delegate[l] ELSE IF l = l THEN delegate[i] ELSE delegate[l]
  BY <1>1, SwapIs
<1>6. {g[k] : k \in 1..(l - 1)} = Elements(delegate) \ {delegate[i]}
  BY <1>1, <1>2, ElementsLeft
<1> HIDE DEF g
<1>7. heapSize' = l - 1 BY <1>3, <1>4 DEF heapSize
<1>8. Last(delegate') = delegate[i] BY <1>3, <1>4, <1>5 DEF Last
<1>9. QED BY <1>3, <1>6, <1>7, <1>8 DEF Contents, Result

LEMMA SameReturns ==
    /\ \A jobs : Ok(jobs) = AQ!Ok(jobs)
    /\ \A err : Fail(err) = AQ!Fail(err)
    /\ \A err, jobs, m : Return(err, jobs, m) = AQ!Return(err, jobs, m)
BY DEF Ok, Fail, Return, AQ!Ok, AQ!Fail, AQ!Return

\* PushJob adds the job, replaces the one with its key or fails.
LEMMA PushImplements ==
    ASSUME HeapInv, NEW e \in Job, PushJob(e), Call(<<"Push", e>>)
    PROVE  AQ!PushJob(e)
<1>1. loop = "idle" /\ op' = <<"Push", e>> BY DEF Call
<1>2. delegate \in Seq(Job) /\ KeysDiffer(delegate) /\ Len(delegate) \in Nat BY <1>1, IdleFacts
<1>3. Contents = Elements(delegate) BY <1>1, IdleContents
<1>4. PICK I : I = Positions(Key(e)) OBVIOUS
<1>5. CASE I = {}
  <2>1. \A k \in 1..Len(delegate) : Key(delegate[k]) # Key(e)
    BY <1>2, <1>4, <1>5 DEF Positions
  <2>2. \A x \in Contents : Key(x) # Key(e) BY <1>3, <2>1 DEF Elements
  <2>3. /\ AQ!CanPush(Contents, e)
        /\ AQ!Push(Contents, e) = Contents \cup {e}
    BY <2>2 DEF AQ!CanPush, AQ!Push, AQ!Keys, AQ!WithKey, AQ!Key, Key
  <2>4. delegate' = Append(delegate, e) /\ leaving' = 0 /\ ret' = Pending
    BY <1>4, <1>5 DEF PushJob, HeapPush
  <2>5. heapSize' = Len(delegate) + 1 BY <1>2, <2>4 DEF heapSize
  <2>6. {delegate'[k] : k \in 1..heapSize'} = Contents \cup {e}
    BY <1>2, <1>3, <2>4, <2>5, AppendedElements
  <2>7. Contents' = Contents \cup {e} /\ Result' = Ok({})
    BY <1>1, <2>4, <2>6 DEF Contents, Result
  <2>8. QED BY <2>3, <2>7, SameReturns DEF AQ!PushJob
<1>6. ASSUME I # {}
      PROVE  /\ First(I) \in 1..Len(delegate) /\ Key(delegate[First(I)]) = Key(e)
             /\ delegate[First(I)] \in Contents
  BY <1>2, <1>3, <1>4, <1>6, FirstIs DEF Elements
<1>7. CASE I # {} /\ e.detail \notin Replace
  <2>1. ~AQ!CanPush(Contents, e)
    BY <1>6, <1>7 DEF AQ!CanPush, AQ!Keys, AQ!Key, Key
  <2>2. Answer(Fail("ErrJobAlreadyExists")) BY <1>4, <1>7 DEF PushJob
  <2>3. Contents' = Contents /\ Result' = Fail("ErrJobAlreadyExists")
    BY <1>1, <2>2, NotPending, AnswerGives
  <2>4. QED BY <2>1, <2>3, SameReturns DEF AQ!PushJob
<1>8. CASE I # {} /\ e.detail \in Replace
  <2>1. PICK i \in 1..Len(delegate) : i = First(I) BY <1>6, <1>8
  <2>2. HeapRemove(i) BY <1>4, <1>8, <2>1 DEF PushJob
  <2>3. AQ!CanPush(Contents, e) BY <1>8 DEF AQ!CanPush
  <2>4. AQ!WithKey(Contents, Key(e)) = {delegate[i]}
    BY <1>2, <1>3, <1>6, <1>8, <2>1, ElementWithKey
  <2>5. AQ!Push(Contents, e) = (Contents \ {delegate[i]}) \cup {e}
    BY <2>4 DEF AQ!Push, AQ!Key, Key
  <2>6. Contents' = (Contents \ {delegate[i]}) \cup {e} /\ Result' = Ok({})
    BY <1>1, <1>3, <2>2, RemovalGives
  <2>7. QED BY <2>3, <2>5, <2>6, SameReturns DEF AQ!PushJob
<1>9. QED BY <1>5, <1>7, <1>8

\* The first element is one that Head and Pop may return.
LEMMA RootIsHead ==
    ASSUME HeapInv, loop = "idle", delegate # <<>>
    PROVE  delegate[1] \in AQ!Heads(Elements(delegate)) /\ 1 \in 1..Len(delegate)
<1>1. delegate \in Seq(Job) /\ Ordered(delegate, Len(delegate)) /\ Len(delegate) \in Nat
  BY IdleFacts
<1>2. Len(delegate) \in 1..Len(delegate) /\ 1 \in 1..Len(delegate) BY <1>1
<1>3. \A k \in 1..Len(delegate) : delegate[1].priority <= delegate[k].priority
  BY <1>1, <1>2, RootIsLeast
<1>4. QED BY <1>2, <1>3 DEF AQ!Heads, Elements

LEMMA PopImplements ==
    ASSUME HeapInv, PopJob, Call(<<"Pop">>)
    PROVE  AQ!PopJob
<1>1. loop = "idle" /\ op' = <<"Pop">> BY DEF Call
<1>2. Contents = Elements(delegate) /\ delegate \in Seq(Job) BY <1>1, IdleContents, IdleFacts
<1>3. CASE delegate = <<>>
  <2>1. Contents = {} BY <1>2, <1>3 DEF Elements
  <2>2. Contents' = Contents /\ Result' = Fail("ErrQueueEmpty")
    BY <1>1, <1>3, NotPending, AnswerGives DEF PopJob
  <2>3. QED BY <2>1, <2>2, SameReturns DEF AQ!PopJob
<1>4. CASE delegate # <<>>
  <2>1. delegate[1] \in AQ!Heads(Contents) /\ 1 \in 1..Len(delegate)
    BY <1>1, <1>2, <1>4, RootIsHead
  <2>2. HeapRemove(1) BY <1>4 DEF PopJob, HeapPop
  <2>3. Contents' = Contents \ {delegate[1]} /\ Result' = Ok({delegate[1]})
    BY <1>1, <1>2, <2>1, <2>2, RemovalGives
  <2>4. Contents # {} BY <1>2, <2>1 DEF Elements
  <2>5. QED BY <2>1, <2>3, <2>4, SameReturns DEF AQ!PopJob
<1>5. QED BY <1>3, <1>4

LEMMA HeadImplements ==
    ASSUME HeapInv, HeadJob, Call(<<"Head">>)
    PROVE  AQ!HeadJob
<1>1. loop = "idle" BY DEF Call
<1>2. Contents = Elements(delegate) /\ delegate \in Seq(Job) BY <1>1, IdleContents, IdleFacts
<1>3. CASE delegate = <<>>
  <2>1. Contents = {} BY <1>2, <1>3 DEF Elements
  <2>2. Contents' = Contents /\ Result' = Fail("ErrQueueEmpty")
    BY <1>1, <1>3, NotPending, AnswerGives DEF HeadJob
  <2>3. QED BY <2>1, <2>2, SameReturns DEF AQ!HeadJob
<1>4. CASE delegate # <<>>
  <2>1. delegate[1] \in AQ!Heads(Contents) /\ 1 \in 1..Len(delegate)
    BY <1>1, <1>2, <1>4, RootIsHead
  <2>2. Answer(Ok({delegate[1]})) BY <1>4 DEF HeadJob
  <2>3. Contents' = Contents /\ Result' = Ok({delegate[1]})
    BY <1>1, <2>2, NotPending, AnswerGives
  <2>4. Contents # {} BY <1>2, <2>1 DEF Elements
  <2>5. QED BY <2>1, <2>3, <2>4, SameReturns DEF AQ!HeadJob
<1>5. QED BY <1>3, <1>4

\* What the loops over the slice find is what has the key.
LEMMA FindsWithKey ==
    ASSUME HeapInv, loop = "idle", NEW k
    PROVE  /\ Positions(k) = {} <=> k \notin AQ!Keys(Elements(delegate))
           /\ Positions(k) = {} => AQ!WithKey(Elements(delegate), k) = {}
           /\ Positions(k) # {} =>
                 /\ First(Positions(k)) \in 1..Len(delegate)
                 /\ AQ!WithKey(Elements(delegate), k) = {delegate[First(Positions(k))]}
<1>1. delegate \in Seq(Job) /\ KeysDiffer(delegate) BY IdleFacts
<1>2. Positions(k) = {} <=> \A i \in 1..Len(delegate) : Key(delegate[i]) # k
  BY <1>1 DEF Positions
<1>3. \A x : x \in Elements(delegate) <=> \E i \in 1..Len(delegate) : x = delegate[i]
  BY DEF Elements
<1>4. Positions(k) = {} <=> k \notin AQ!Keys(Elements(delegate))
  BY <1>2, <1>3 DEF AQ!Keys, AQ!Key, Key
<1>5. Positions(k) = {} => AQ!WithKey(Elements(delegate), k) = {}
  BY <1>2, <1>3 DEF AQ!WithKey, AQ!Key, Key
<1>6. ASSUME Positions(k) # {}
      PROVE  /\ First(Positions(k)) \in 1..Len(delegate)
             /\ AQ!WithKey(Elements(delegate), k) = {delegate[First(Positions(k))]}
  <2>1. PICK i \in 1..Len(delegate) : i = First(Positions(k)) /\ Key(delegate[i]) = k
    BY <1>1, <1>6, FirstIs
  <2>2. AQ!WithKey(Elements(delegate), Key(delegate[i])) = {delegate[i]}
    BY <1>1, ElementWithKey
  <2>3. QED BY <2>1, <2>2
<1>7. QED BY <1>4, <1>5, <1>6

LEMMA GetImplements ==
    ASSUME HeapInv, NEW k \in JobKeys, GetJob(k), Call(<<"Get", k>>)
    PROVE  AQ!GetJob(k)
<1>1. loop = "idle" BY DEF Call
<1>2. Contents = Elements(delegate) BY <1>1, IdleContents
<1>3. PICK r : /\ r = IF Positions(k) = {} THEN Fail("ErrJobNotFound")
                                           ELSE Ok({delegate[First(Positions(k))]})
               /\ Answer(r)
  BY DEF GetJob
<1>4. Contents' = Contents /\ Result' = r BY <1>1, <1>3, NotPending, AnswerGives
<1>5. r = IF k \in AQ!Keys(Contents) THEN AQ!Ok(AQ!WithKey(Contents, k))
                                     ELSE AQ!Fail("ErrJobNotFound")
  BY <1>1, <1>2, <1>3, FindsWithKey, SameReturns
<1>6. QED BY <1>4, <1>5 DEF AQ!GetJob

LEMMA RemoveImplements ==
    ASSUME HeapInv, NEW k \in JobKeys, RemoveJob(k), Call(<<"Remove", k>>)
    PROVE  AQ!RemoveJob(k)
<1>1. loop = "idle" /\ op' = <<"Remove", k>> BY DEF Call
<1>2. Contents = Elements(delegate) BY <1>1, IdleContents
<1>3. CASE Positions(k) = {}
  <2>1. Answer(Fail("ErrJobNotFound")) BY <1>3 DEF RemoveJob
  <2>2. Contents' = Contents /\ Result' = Fail("ErrJobNotFound")
    BY <1>1, <2>1, NotPending, AnswerGives
  <2>3. k \notin AQ!Keys(Contents) /\ AQ!WithKey(Contents, k) = {}
    BY <1>1, <1>2, <1>3, FindsWithKey
  <2>4. QED BY <2>2, <2>3, SameReturns DEF AQ!RemoveJob
<1>4. CASE Positions(k) # {}
  <2>1. PICK i : i = First(Positions(k)) OBVIOUS
  <2>2. i \in 1..Len(delegate) /\ AQ!WithKey(Contents, k) = {delegate[i]}
        /\ k \in AQ!Keys(Contents)
    BY <1>1, <1>2, <1>4, <2>1, FindsWithKey
  <2>3. HeapRemove(i) BY <1>4, <2>1 DEF RemoveJob
  <2>4. Contents' = Contents \ {delegate[i]} /\ Result' = Ok({delegate[i]})
    BY <1>1, <1>2, <2>2, <2>3, RemovalGives
  <2>5. QED BY <2>2, <2>4, SameReturns DEF AQ!RemoveJob
<1>5. QED BY <1>3, <1>4

LEMMA OthersImplement ==
    ASSUME HeapInv
    PROVE  /\ \A keys \in Selections : ScheduledJobs(keys) /\ Call(<<"ScheduledJobs", keys>>)
                 => AQ!ScheduledJobs(keys)
           /\ QueueSize /\ Call(<<"Size">>) => AQ!QueueSize
           /\ ClearJobs /\ Call(<<"Clear">>) => AQ!ClearJobs
<1>1. ASSUME NEW keys \in Selections, ScheduledJobs(keys), Call(<<"ScheduledJobs", keys>>)
      PROVE  AQ!ScheduledJobs(keys)
  <2>1. loop = "idle" BY <1>1 DEF Call
  <2>2. Contents = Elements(delegate) /\ delegate \in Seq(Job) BY <2>1, IdleContents, IdleFacts
  <2>3. PICK S : /\ S = {delegate[i] : i \in {i \in DOMAIN delegate : Key(delegate[i]) \in keys}}
                 /\ Answer(Ok(S))
    BY <1>1 DEF ScheduledJobs
  <2>4. Contents' = Contents /\ Result' = Ok(S) BY <2>1, <2>3, NotPending, AnswerGives
  <2>5. S = {e \in Contents : AQ!Key(e) \in keys}
    BY <2>2, <2>3 DEF Elements, AQ!Key, Key
  <2>6. QED BY <2>4, <2>5, SameReturns DEF AQ!ScheduledJobs
<1>2. ASSUME QueueSize, Call(<<"Size">>) PROVE AQ!QueueSize
  <2>1. loop = "idle" BY <1>2 DEF Call
  <2>2. Contents = Elements(delegate) /\ delegate \in Seq(Job) /\ KeysDiffer(delegate)
    BY <2>1, IdleContents, IdleFacts
  <2>3. Answer(Return("nil", {}, Len(delegate))) BY <1>2 DEF QueueSize
  <2>4. Contents' = Contents /\ Result' = Return("nil", {}, Len(delegate))
    BY <2>1, <2>3, NotPending, AnswerGives
  <2>5. Cardinality(Contents) = Len(delegate) BY <2>2, ElementsCount
  <2>6. AQ!Cardinality(Contents) = Cardinality(Contents) BY DEF AQ!Cardinality, Cardinality
  <2>7. QED BY <2>4, <2>5, <2>6, SameReturns DEF AQ!QueueSize
<1>3. ASSUME ClearJobs, Call(<<"Clear">>) PROVE AQ!ClearJobs
  <2>1. loop = "idle" /\ delegate' = <<>> /\ ret' = Ok({}) /\ leaving' = leaving
    BY <1>3 DEF ClearJobs, loopvars, Call
  <2>2. leaving = 0 BY <2>1, IdleFacts
  <2>3. heapSize' = 0 BY <2>1, <2>2 DEF heapSize
  <2>4. Contents' = {} /\ Result' = Ok({})
    BY <2>1, <2>3, NotPending DEF Contents, Result
  <2>5. QED BY <2>4, SameReturns DEF AQ!ClearJobs
<1>4. QED BY <1>1, <1>2, <1>3

LEMMA ImplementsStep ==
    ASSUME HeapInv, HeapInv', [Next]_hvars
    PROVE  [AQ!Next]_(AQ!qvars)
<1>1. CASE UNCHANGED hvars
  BY <1>1 DEF hvars, loopvars, AQ!qvars, Contents, Result, heapSize
<1>2. CASE Up \/ UpEnds \/ Down \/ DownEnds \/ DropLast
  BY <1>2, LoopsStutter DEF AQ!qvars
<1>3. ASSUME NEW e \in Job, PushJob(e), Call(<<"Push", e>>) PROVE AQ!Next
  BY <1>3, PushImplements DEF AQ!Next, AQ!Job, Job, Call
<1>4. CASE PopJob /\ Call(<<"Pop">>) BY <1>4, PopImplements DEF AQ!Next, Call
<1>5. CASE HeadJob /\ Call(<<"Head">>) BY <1>5, HeadImplements DEF AQ!Next, Call
<1>6. ASSUME NEW k \in JobKeys, GetJob(k), Call(<<"Get", k>>) PROVE AQ!Next
  BY <1>6, GetImplements DEF AQ!Next, Call
<1>7. ASSUME NEW k \in JobKeys, RemoveJob(k), Call(<<"Remove", k>>) PROVE AQ!Next
  BY <1>7, RemoveImplements DEF AQ!Next, Call
<1>8. ASSUME NEW keys \in Selections, ScheduledJobs(keys), Call(<<"ScheduledJobs", keys>>)
      PROVE  AQ!Next
  BY <1>8, OthersImplement DEF AQ!Next, Call
<1>9. CASE QueueSize /\ Call(<<"Size">>) BY <1>9, OthersImplement DEF AQ!Next, Call
<1>10. CASE ClearJobs /\ Call(<<"Clear">>) BY <1>10, OthersImplement DEF AQ!Next, Call
<1>11. QED
  BY <1>1, <1>2, <1>3, <1>4, <1>5, <1>6, <1>7, <1>8, <1>9, <1>10 DEF Next

\* The in-memory heap implements the contract of the JobQueue interface: seen
\* from its callers, every operation does to a set of jobs what the contract
\* says, whatever container/heap does meanwhile and however many jobs there
\* are.
THEOREM ImplementsQueueHolds == Spec => ImplementsQueue
<1>1. HeapInv /\ HeapInv' /\ [Next]_hvars => [AQ!Next]_(AQ!qvars) BY ImplementsStep
<1>2. QED BY <1>1, ImplementsInit, HeapInvHolds, PTL DEF Spec, ImplementsQueue, AQ!Spec

=============================================================================
