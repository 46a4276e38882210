--------------------------- MODULE InductionLemmas ---------------------------
(***************************************************************************)
(* Induction without an operator for its hypothesis: an induction over the *)
(* naturals is stated of a set, and a recursive function of a step that is *)
(* itself a function.  From these, what FlattenSeq does to a sequence of   *)
(* sequences that grows at its end, the largest of a set of naturals, and  *)
(* how a finite set is sorted.                                             *)
(***************************************************************************)
EXTENDS Integers, SequencesExt, SequenceTheorems, FiniteSetTheorems, WellFoundedInduction, TLAPS

\* A set that holds 0 and each successor of what it holds is all of Nat.
LEMMA SetInduction ==
  ASSUME NEW T, 0 \in T, \A n \in Nat : n \in T => n + 1 \in T
  PROVE  Nat \subseteq T
<1> DEFINE R == {ss \in Nat \X Nat : ss[1] < ss[2]}
           Rest == Nat \ T
<1>1. IsWellFoundedOn(R, Nat)
  BY NatLessThanWellFounded, Zenon DEF OpToRel
<1>2. ASSUME NEW a \in Nat, NEW b \in Nat, a < b PROVE <<a, b>> \in R
  BY <1>2
<1> SUFFICES ASSUME Rest # {} PROVE FALSE
  OBVIOUS
<1>3. PICK x \in Rest : \A y \in Rest : <<y, x>> \notin R
  <2>1. Rest \subseteq Nat
    OBVIOUS
  <2> HIDE DEF R, Rest
  <2> QED BY <1>1, <2>1, WFMin, Zenon
<1>4. x \in Nat /\ x # 0
  BY <1>3
<1>5. x - 1 \in Nat /\ x - 1 < x /\ (x - 1) + 1 = x
  BY <1>4
<1>6. x - 1 \in Rest
  BY <1>3, <1>5
<1>7. <<x - 1, x>> \in R
  BY <1>2, <1>4, <1>5
<1> QED BY <1>3, <1>6, <1>7

\* f takes the values that the step function gives from the first one.
Iterates(f, first, step, n) == f[0] = first /\ \A k \in 1..n : f[k] = step[k][f[k - 1]]

\* A step function and a first value define a function on 0..n.
LEMMA PrimitiveRecursion ==
  ASSUME NEW S, NEW first \in S, NEW step \in [Nat -> [S -> S]], NEW n \in Nat
  PROVE  \E f \in [0..n -> S] : Iterates(f, first, step, n)
<1> DEFINE Good(m, f) == f[0] = first /\ \A k \in 1..m : f[k] = step[k][f[k - 1]]
           T == {m \in Nat : \E f \in [0..m -> S] : Good(m, f)}
<1>1. 0 \in T
  <2> DEFINE f == [k \in 0..0 |-> first]
  <2>1. f \in [0..0 -> S] /\ Good(0, f)
    OBVIOUS
  <2> QED BY <2>1
<1>2. ASSUME NEW m \in Nat, m \in T PROVE m + 1 \in T
  <2>1. PICK f \in [0..m -> S] : Good(m, f)
    BY <1>2
  <2> DEFINE g == [k \in 0..m + 1 |-> IF k = m + 1 THEN step[k][f[m]] ELSE f[k]]
  <2>2. g \in [0..m + 1 -> S]
    OBVIOUS
  <2>3. g[0] = first
    BY <2>1
  <2>4. ASSUME NEW k \in 1..m + 1 PROVE g[k] = step[k][g[k - 1]]
    <3>1. CASE k = m + 1
      BY <3>1
    <3>2. CASE k # m + 1
      BY <2>1, <3>2
    <3> QED BY <3>1, <3>2
  <2>5. Good(m + 1, g)
    BY <2>3, <2>4, Zenon
  <2> HIDE DEF g, Good
  <2> QED BY <2>2, <2>5
<1>3. n \in T
  <2> HIDE DEF T
  <2> QED BY <1>1, <1>2, SetInduction
<1> QED BY <1>3 DEF Iterates

\* A non-empty set of naturals with a bound has a largest element.
LEMMA LargestNat ==
  ASSUME NEW T, NEW bound \in Nat, T \subseteq 0..bound, T # {}
  PROVE  \E t \in T : \A u \in T : u <= t
<1> DEFINE Small == {m \in Nat : \A u \in T : u <= m => \E t \in T : \A w \in T : w <= m => w <= t}
<1>1. 0 \in Small
  BY SMT
<1>2. ASSUME NEW m \in Nat, m \in Small PROVE m + 1 \in Small
  <2>1. CASE m + 1 \in T
    BY <2>1, SMT
  <2>2. CASE m + 1 \notin T
    <3>1. \A u \in T : u <= m + 1 <=> u <= m
      BY <2>2, SMT
    <3> QED BY <1>2, <3>1, SMT
  <2> QED BY <2>1, <2>2
<1>3. bound \in Small
  <2> HIDE DEF Small
  <2> QED BY <1>1, <1>2, SetInduction
<1>4. PICK u \in T : u <= bound
  <2>1. PICK u : u \in T
    BY Zenon
  <2> QED BY <2>1
<1>5. PICK t \in T : \A w \in T : w <= bound => w <= t
  BY <1>3, <1>4, Zenon
<1> QED BY <1>5, SMT

-----------------------------------------------------------------------------
(* Sequences of sequences *)

\* The function that FlattenSeq of a non-empty sequence picks its value from.
Flattens(f, seqs) ==
  f = [i \in 1..Len(seqs) |-> IF i = 1 THEN seqs[i] ELSE f[i - 1] \o seqs[i]]

LEMMA FlattensExists ==
  ASSUME NEW S, NEW seqs \in Seq(Seq(S)), seqs # <<>>
  PROVE  \E f : Flattens(f, seqs) /\ f \in [1..Len(seqs) -> Seq(S)]
<1> DEFINE n == Len(seqs)
           step == [k \in Nat |-> [s \in Seq(S) |-> IF k \in 1..n THEN s \o seqs[k] ELSE s]]
<1>1. n \in Nat \ {0} /\ \A k \in 1..n : seqs[k] \in Seq(S)
  OBVIOUS
<1>2. step \in [Nat -> [Seq(S) -> Seq(S)]]
  <2> HIDE DEF n
  <2>1. ASSUME NEW k \in Nat, NEW s \in Seq(S)
        PROVE  (IF k \in 1..n THEN s \o seqs[k] ELSE s) \in Seq(S)
    BY <1>1
  <2> QED BY <2>1
<1>3. PICK g \in [0..n -> Seq(S)] : g[0] = <<>> /\ \A k \in 1..n : g[k] = step[k][g[k - 1]]
  <2>1. <<>> \in Seq(S)
    OBVIOUS
  <2>2. n \in Nat
    BY <1>1
  <2> DEFINE T == Seq(S)
             first == <<>>
  <2>3. first \in T /\ step \in [Nat -> [T -> T]]
    BY <1>2, <2>1
  <2> HIDE DEF step, n, T, first
  <2>4. \E f \in [0..n -> T] : Iterates(f, first, step, n)
    BY <2>2, <2>3, PrimitiveRecursion, Zenon
  <2> QED BY <2>4 DEF T, first, Iterates
<1>4. ASSUME NEW k \in 1..n PROVE g[k] = g[k - 1] \o seqs[k]
  <2>1. g[k - 1] \in Seq(S) /\ k \in Nat
    <3> HIDE DEF n
    <3> QED BY <1>1, <1>3
  <2>2. step[k][g[k - 1]] = g[k - 1] \o seqs[k]
    <3> HIDE DEF n
    <3> QED BY <1>4, <2>1
  <2> QED BY <1>3, <2>2
<1> DEFINE f == [k \in 1..n |-> g[k]]
<1>5. f \in [1..n -> Seq(S)]
  OBVIOUS
<1>6. ASSUME NEW k \in 1..n PROVE f[k] = IF k = 1 THEN seqs[k] ELSE f[k - 1] \o seqs[k]
  <2>1. CASE k = 1
    <3>1. <<>> \o seqs[1] = seqs[1]
      BY <1>1
    <3> QED BY <1>3, <1>4, <2>1, <3>1, SMTT(30)
  <2>2. CASE k # 1
    <3>1. k - 1 \in 1..n
      BY <1>1, <2>2
    <3> QED BY <1>4, <2>2, <3>1
  <2> QED BY <2>1, <2>2
<1>7. Flattens(f, seqs)
  <2> HIDE DEF f
  <2> QED BY <1>5, <1>6 DEF Flattens
<1> QED BY <1>5, <1>7

LEMMA FlattensUnique ==
  ASSUME NEW S, NEW seqs \in Seq(Seq(S)), NEW f, NEW g, Flattens(f, seqs), Flattens(g, seqs)
  PROVE  f = g
<1> DEFINE n == Len(seqs)
           T == {k \in Nat : k \in 1..n => f[k] = g[k]}
<1>1. n \in Nat
  OBVIOUS
<1>2. /\ \A k \in 1..n : f[k] = IF k = 1 THEN seqs[k] ELSE f[k - 1] \o seqs[k]
      /\ \A k \in 1..n : g[k] = IF k = 1 THEN seqs[k] ELSE g[k - 1] \o seqs[k]
  BY Zenon DEF Flattens
<1>3. 0 \in T
  BY <1>1
<1>4. ASSUME NEW k \in Nat, k \in T PROVE k + 1 \in T
  <2> SUFFICES ASSUME k + 1 \in 1..n PROVE f[k + 1] = g[k + 1]
    OBVIOUS
  <2>1. CASE k = 0
    BY <1>2, <2>1
  <2>2. CASE k # 0
    <3>1. f[k] = g[k] /\ k + 1 # 1 /\ (k + 1) - 1 = k
      BY <1>1, <1>4, <2>2
    <3>2. f[k + 1] = f[(k + 1) - 1] \o seqs[k + 1] /\ g[k + 1] = g[(k + 1) - 1] \o seqs[k + 1]
      BY <1>2, <3>1, Zenon
    <3> QED BY <3>1, <3>2, Zenon
  <2> QED BY <2>1, <2>2
<1>5. \A k \in 1..n : f[k] = g[k]
  <2>1. Nat \subseteq T
    <3> HIDE DEF T
    <3> QED BY <1>3, <1>4, SetInduction
  <2> QED BY <1>1, <2>1
<1>6. /\ f = [k \in 1..n |-> f[k]]
      /\ g = [k \in 1..n |-> g[k]]
  BY Zenon DEF Flattens
<1> QED BY <1>5, <1>6, Zenon

\* FlattenSeq is the last value of its function.
LEMMA FlattenIsLast ==
  ASSUME NEW S, NEW seqs \in Seq(Seq(S)), seqs # <<>>, NEW f, Flattens(f, seqs)
  PROVE  FlattenSeq(seqs) = f[Len(seqs)]
<1>1. Len(seqs) # 0
  OBVIOUS
<1>2. \A g : Flattens(g, seqs) => g = f
  BY FlattensUnique, Zenon
<1>3. f = CHOOSE g : Flattens(g, seqs)
  BY <1>2, Zenon
<1> QED BY <1>1, <1>3, Zenon DEF FlattenSeq, Flattens

LEMMA FlattenEmpty == FlattenSeq(<<>>) = <<>>
BY SMT DEF FlattenSeq

\* A sequence of sequences flattens to a sequence.
LEMMA FlattenIsSeq ==
  ASSUME NEW S, NEW seqs \in Seq(Seq(S))
  PROVE  FlattenSeq(seqs) \in Seq(S)
<1>1. CASE seqs = <<>>
  <2>1. <<>> \in Seq(S)
    OBVIOUS
  <2> QED BY <1>1, <2>1, FlattenEmpty, Zenon
<1>2. CASE seqs # <<>>
  <2>1. PICK f : Flattens(f, seqs) /\ f \in [1..Len(seqs) -> Seq(S)]
    BY <1>2, FlattensExists
  <2>2. FlattenSeq(seqs) = f[Len(seqs)]
    BY <1>2, <2>1, FlattenIsLast
  <2>3. Len(seqs) \in 1..Len(seqs)
    BY <1>2
  <2> QED BY <2>1, <2>2, <2>3
<1> QED BY <1>1, <1>2

\* One more sequence comes behind the others.
LEMMA FlattenAppend ==
  ASSUME NEW S, NEW seqs \in Seq(Seq(S)), NEW s \in Seq(S)
  PROVE  FlattenSeq(Append(seqs, s)) = FlattenSeq(seqs) \o s
<1> DEFINE longer == Append(seqs, s)
           n == Len(seqs)
<1>1. /\ longer \in Seq(Seq(S)) /\ longer # <<>> /\ Len(longer) = n + 1 /\ n \in Nat
      /\ longer[n + 1] = s /\ \A k \in 1..n : longer[k] = seqs[k]
  <2> DEFINE T == Seq(S)
  <2> HIDE DEF T
  <2>1. seqs \in Seq(T) /\ s \in T
    BY DEF T
  <2>2. n \in Nat /\ longer \in Seq(T)
    BY <2>1
  <2> QED BY <2>1, <2>2, AppendProperties DEF T
<1>2. PICK f : Flattens(f, longer) /\ f \in [1..Len(longer) -> Seq(S)]
  <2> HIDE DEF longer
  <2> QED BY <1>1, FlattensExists
<1>3. FlattenSeq(longer) = f[n + 1]
  <2> HIDE DEF longer, n
  <2> QED BY <1>1, <1>2, FlattenIsLast
<1>4. \A k \in 1..n + 1 : f[k] = IF k = 1 THEN longer[k] ELSE f[k - 1] \o longer[k]
  <2> HIDE DEF longer
  <2>1. f = [k \in 1..n + 1 |-> IF k = 1 THEN longer[k] ELSE f[k - 1] \o longer[k]]
    BY <1>1, <1>2, Zenon DEF Flattens
  <2> HIDE DEF n
  <2> QED BY <2>1, Zenon
<1>5. CASE n = 0
  <2>1. f[1] = s
    <3> HIDE DEF longer, n
    <3> QED BY <1>1, <1>4, <1>5
  <2>2. seqs = <<>>
    BY <1>5
  <2>3. <<>> \o s = s
    OBVIOUS
  <2> HIDE DEF longer, n
  <2> QED BY <1>3, <1>5, <2>1, <2>2, <2>3, FlattenEmpty DEF longer
<1>6. CASE n # 0
  <2> DEFINE g == [k \in 1..n |-> f[k]]
  <2>1. ASSUME NEW k \in 1..n PROVE g[k] = IF k = 1 THEN seqs[k] ELSE g[k - 1] \o seqs[k]
    <3>1. f[k] = IF k = 1 THEN seqs[k] ELSE f[k - 1] \o seqs[k]
      <4> HIDE DEF longer, n, g
      <4>1. k \in 1..n + 1 /\ longer[k] = seqs[k]
        BY <1>1
      <4> QED BY <1>4, <4>1, Zenon
    <3>2. k # 1 => k - 1 \in 1..n
      BY <1>1
    <3> QED BY <3>1, <3>2
  <2>2. Flattens(g, seqs)
    <3>1. g = [k \in 1..n |-> g[k]]
      OBVIOUS
    <3> HIDE DEF g
    <3> QED BY <2>1, <3>1, Zenon DEF Flattens
  <2>3. FlattenSeq(seqs) = g[n]
    <3>1. seqs # <<>>
      BY <1>6
    <3> HIDE DEF g
    <3> QED BY <2>2, <3>1, FlattenIsLast
  <2>4. f[n + 1] = f[n] \o s
    <3>1. n + 1 \in 1..n + 1 /\ n + 1 # 1 /\ (n + 1) - 1 = n
      BY <1>1, <1>6
    <3> HIDE DEF longer, n, g
    <3> QED BY <1>1, <1>4, <3>1, Zenon
  <2>5. g[n] = f[n]
    BY <1>1, <1>6
  <2> HIDE DEF g, longer, n
  <2> QED BY <1>3, <2>3, <2>4, <2>5 DEF longer
<1> QED BY <1>5, <1>6

\* What a last sequence gains comes behind everything else.
LEMMA FlattenExtend ==
  ASSUME NEW S, NEW seqs \in Seq(Seq(S)), seqs # <<>>, NEW b \in Seq(S)
  PROVE  FlattenSeq([seqs EXCEPT ![Len(seqs)] = seqs[Len(seqs)] \o b]) = FlattenSeq(seqs) \o b
<1> DEFINE n == Len(seqs)
           front == SubSeq(seqs, 1, n - 1)
           last == seqs[n]
<1>1. n \in Nat \ {0} /\ last \in Seq(S) /\ front \in Seq(Seq(S)) /\ last \o b \in Seq(S)
  OBVIOUS
<1>2. seqs = Append(front, last)
  OBVIOUS
<1>3. [seqs EXCEPT ![n] = last \o b] = Append(front, last \o b)
  <2>1. Len(front) = n - 1 /\ \A k \in 1..n - 1 : front[k] = seqs[k]
    <3>1. n - 1 \in Int /\ 1 \in Int /\ \A k \in 1..n - 1 : seqs[k] \in Seq(S)
      BY <1>1
    <3>2. /\ Len(front) = IF 1 <= n - 1 THEN (n - 1) - 1 + 1 ELSE 0
          /\ \A k \in 1..(n - 1) - 1 + 1 : front[k] = seqs[1 + k - 1]
      <4> HIDE DEF n
      <4> QED BY <3>1, SubSeqProperties
    <3> HIDE DEF n, front
    <3> QED BY <1>1, <3>2
  <2> DEFINE T == Seq(S)
             e == last \o b
  <2>2. n \in 1..Len(seqs) /\ e \in T /\ seqs \in Seq(T) /\ front \in Seq(T)
    <3>1. n \in 1..Len(seqs)
      BY <1>1
    <3> QED BY <1>1, <3>1, Zenon
  <2> HIDE DEF T, e, front
  <2>3. /\ [seqs EXCEPT ![n] = e] \in Seq(T) /\ Len([seqs EXCEPT ![n] = e]) = n
        /\ \A k \in 1..n : [seqs EXCEPT ![n] = e][k] = IF k = n THEN e ELSE seqs[k]
    BY <2>2, ExceptSeq
  <2>4. /\ Append(front, e) \in Seq(T) /\ Len(Append(front, e)) = n
        /\ \A k \in 1..n : Append(front, e)[k] = IF k = n THEN e ELSE seqs[k]
    BY <1>1, <2>1, <2>2
  <2>5. [seqs EXCEPT ![n] = e] = Append(front, e)
    <3> DEFINE x == [seqs EXCEPT ![n] = e]
               y == Append(front, e)
    <3>1. x \in Seq(T) /\ y \in Seq(T) /\ Len(x) = Len(y) /\ \A k \in 1..Len(x) : x[k] = y[k]
      BY <2>3, <2>4
    <3> HIDE DEF x, y
    <3>2. x = y
      BY <3>1, SeqEqual
    <3> QED BY <3>2 DEF x, y
  <2> QED BY <2>5 DEF e
<1>4. FlattenSeq(front) \in Seq(S)
  BY <1>1, FlattenIsSeq
<1> HIDE DEF n, front, last
<1>5. FlattenSeq(Append(front, last \o b)) = FlattenSeq(front) \o (last \o b)
  BY <1>1, FlattenAppend
<1>6. FlattenSeq(Append(front, last)) = FlattenSeq(front) \o last
  BY <1>1, FlattenAppend
<1>7. FlattenSeq(front) \o (last \o b) = (FlattenSeq(front) \o last) \o b
  BY <1>1, <1>4
<1> QED BY <1>2, <1>3, <1>5, <1>6, <1>7 DEF n, last

-----------------------------------------------------------------------------
(* Sorting a finite set by a key that tells its elements apart *)

\* What comes before r.
Before(S, key, r) == {q \in S : key[q] < key[r]}

Keyed(S, key, bound) ==
  /\ IsFiniteSet(S) /\ bound \in Nat /\ key \in [S -> 0..bound]
  /\ \A a, b \in S : key[a] = key[b] => a = b

\* For every place of the order there is an element.
LEMMA PlaceTaken ==
  ASSUME NEW S, NEW key, NEW bound, Keyed(S, key, bound), NEW k \in 1..Cardinality(S)
  PROVE  \E r \in S : Cardinality(Before(S, key, r)) = k - 1
<1> DEFINE Good(U) == \A j \in 1..Cardinality(U) : \E r \in U : Cardinality(Before(U, key, r)) = j - 1
           T == {n \in Nat : \A U \in SUBSET S : Cardinality(U) = n => Good(U)}
<1>1. /\ IsFiniteSet(S) /\ bound \in Nat /\ key \in [S -> 0..bound]
      /\ \A a, b \in S : key[a] = key[b] => a = b
  BY Zenon DEF Keyed
<1>2. \A U \in SUBSET S : IsFiniteSet(U) /\ Cardinality(U) \in Nat
  BY <1>1, FS_Subset, FS_CardinalityType, Zenon
<1>3. 0 \in T
  OBVIOUS
<1>4. ASSUME NEW n \in Nat, n \in T PROVE n + 1 \in T
  <2> SUFFICES ASSUME NEW U \in SUBSET S, Cardinality(U) = n + 1, NEW j \in 1..Cardinality(U)
               PROVE  \E r \in U : Cardinality(Before(U, key, r)) = j - 1
    BY DEF T
  <2>1. U # {} /\ IsFiniteSet(U)
    <3>1. Cardinality({}) = 0
      BY FS_EmptySet
    <3>2. n + 1 # 0
      OBVIOUS
    <3> QED BY <1>2, <3>1, <3>2, Zenon
  <2>2. PICK m \in U : \A u \in U : key[u] <= key[m]
    <3> DEFINE K == {key[u] : u \in U}
    <3>1. K \subseteq 0..bound /\ K # {}
      BY <1>1, <2>1
    <3>2. \E t \in K : \A u \in K : u <= t
      <4> HIDE DEF K
      <4> QED BY <1>1, <3>1, LargestNat
    <3> QED BY <3>2
  <2> DEFINE V == U \ {m}
  <2>3. V \in SUBSET S /\ Cardinality(V) = n /\ Cardinality(U) \in Nat /\ m \notin V
    <3>1. V \in SUBSET S /\ m \notin V
      OBVIOUS
    <3>2. Cardinality(V) = Cardinality(U) - 1
      BY <2>1, FS_RemoveElement
    <3> QED BY <1>2, <3>1, <3>2
  <2>4. \A u \in V : key[u] < key[m]
    <3> TAKE u \in V
    <3>1. key[u] # key[m] /\ key[u] <= key[m] /\ key[u] \in Nat /\ key[m] \in Nat
      BY <1>1, <2>2
    <3> QED BY <3>1
  <2>5. CASE j = n + 1
    <3>1. Before(U, key, m) = V
      BY <1>1, <2>2, <2>4 DEF Before
    <3> QED BY <2>3, <2>5, <3>1
  <2>6. CASE j # n + 1
    <3>1. j \in 1..Cardinality(V)
      BY <2>3, <2>6
    <3>2. PICK r \in V : Cardinality(Before(V, key, r)) = j - 1
      BY <1>4, <2>3, <3>1, Zenon DEF T
    <3>3. Before(U, key, r) = Before(V, key, r)
      <4>1. ~(key[m] < key[r])
        <5>1. key[r] < key[m] /\ key[r] \in Nat /\ key[m] \in Nat
          BY <1>1, <2>2, <2>4
        <5> QED BY <5>1
      <4> QED BY <4>1 DEF Before
    <3> QED BY <3>2, <3>3
  <2> QED BY <2>5, <2>6
<1>5. Nat \subseteq T
  <2> HIDE DEF T
  <2> QED BY <1>3, <1>4, SetInduction
<1>6. Cardinality(S) \in Nat /\ S \in SUBSET S
  BY <1>2
<1>7. Good(S)
  <2> HIDE DEF Good
  <2> QED BY <1>5, <1>6, Zenon DEF T
<1> QED BY <1>7

\* The sequence with its k-th element at the k-th place.
Sorts(s, S, key) ==
  s = [k \in 1..Cardinality(S) |-> CHOOSE r \in S : Cardinality(Before(S, key, r)) = k - 1]

\* It holds each element once, by increasing keys.
LEMMA SortedSequence ==
  ASSUME NEW S, NEW key, NEW bound, Keyed(S, key, bound), NEW s, Sorts(s, S, key)
  PROVE  /\ s \in Seq(S) /\ Len(s) = Cardinality(S)
         /\ \A j, k \in 1..Len(s) : j < k => key[s[j]] < key[s[k]]
         /\ \A r \in S : \E k \in 1..Len(s) : s[k] = r
<1> DEFINE n == Cardinality(S)
<1>1. /\ IsFiniteSet(S) /\ bound \in Nat /\ key \in [S -> 0..bound]
      /\ \A a, b \in S : key[a] = key[b] => a = b
  BY Zenon DEF Keyed
<1>2. n \in Nat
  BY <1>1, FS_CardinalityType
<1>3. \A k \in 1..n : s[k] = CHOOSE r \in S : Cardinality(Before(S, key, r)) = k - 1
  BY DEF Sorts
<1>4. \A k \in 1..n : s[k] \in S /\ Cardinality(Before(S, key, s[k])) = k - 1
  BY <1>3, PlaceTaken, Zenon
<1>5. s \in [1..n -> S]
  BY <1>4 DEF Sorts
<1>6. s \in Seq(S) /\ Len(s) = n
  <2> HIDE DEF n
  <2> QED BY <1>2, <1>5
<1>7. ASSUME NEW j \in 1..n, NEW k \in 1..n, j < k PROVE key[s[j]] < key[s[k]]
  <2>1. key[s[j]] \in Nat /\ key[s[k]] \in Nat
    BY <1>1, <1>4
  <2> SUFFICES ASSUME key[s[k]] <= key[s[j]] PROVE FALSE
    BY <2>1
  <2>2. Before(S, key, s[k]) \in SUBSET Before(S, key, s[j])
    <3>1. \A q \in S : key[q] \in Nat
      BY <1>1
    <3> QED BY <2>1, <3>1 DEF Before
  <2>3. Before(S, key, s[j]) \in SUBSET S
    BY DEF Before
  <2>4. IsFiniteSet(Before(S, key, s[j]))
    BY <1>1, <2>3, FS_Subset
  <2>5. Cardinality(Before(S, key, s[k])) <= Cardinality(Before(S, key, s[j]))
    BY <2>2, <2>4, FS_Subset
  <2>6. k - 1 <= j - 1
    BY <1>4, <2>5
  <2> QED BY <1>2, <1>7, <2>6
<1>8. s \in Injection(1..n, S)
  <2> SUFFICES ASSUME NEW j \in 1..n, NEW k \in 1..n, s[j] = s[k] PROVE j = k
    BY <1>5 DEF Injection, IsInjective
  <2>1. key[s[j]] \in Nat
    BY <1>1, <1>4
  <2>2. ~(j < k) /\ ~(k < j)
    BY <1>7, <2>1
  <2> QED BY <1>2, <2>2
<1>9. s \in Surjection(1..n, S)
  <2>1. Cardinality(1..n) = n
    <3>1. 1 \in Int /\ n \in Int
      BY <1>2
    <3> HIDE DEF n
    <3> QED BY <1>2, <3>1, FS_Interval
  <2>2. Cardinality(1..n) = Cardinality(S) <=> s \in Surjection(1..n, S)
    BY <1>1, <1>8, FS_Injection
  <2> QED BY <2>1, <2>2
<1>10. \A r \in S : \E k \in 1..n : s[k] = r
  BY <1>9 DEF Surjection
<1> QED BY <1>6, <1>7, <1>10
=============================================================================
