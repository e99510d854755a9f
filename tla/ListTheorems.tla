----------------------------- MODULE ListTheorems -----------------------------
(***************************************************************************)
(* What the other proofs need to know of sequences and of folds over them.  *)
(* A fold is CHOOSE of a function on the sets of positions, and nothing is  *)
(* known of it until a function that satisfies its equation is shown to     *)
(* exist.                                                                   *)
(***************************************************************************)
EXTENDS Integers, SequencesExt, WellFoundedInduction, TLAPS

-------------------------------------------------------------------------------
(* Sequences. *)

\* A function of the first n numbers is a sequence of length n.
LEMMA FunctionIsSeq ==
    ASSUME NEW S, NEW n \in Nat, NEW f \in [1 .. n -> S]
    PROVE  f \in Seq(S) /\ Len(f) = n
OBVIOUS

LEMMA AppendFacts ==
    ASSUME NEW A, NEW seq \in Seq(A), NEW x \in A
    PROVE  /\ Append(seq, x) \in Seq(A)
           /\ Range(Append(seq, x)) = Range(seq) \cup {x}
           /\ IsInjective(seq) /\ x \notin Range(seq) => IsInjective(Append(seq, x))
<1> DEFINE new == Append(seq, x)
<1>1. PICK n \in Nat : n = Len(seq)
  OBVIOUS
<1>2. /\ new \in Seq(A) /\ DOMAIN new = 1 .. n + 1 /\ DOMAIN seq = 1 .. n
      /\ new[n + 1] = x /\ \A i \in 1 .. n : new[i] = seq[i]
  BY <1>1
<1> HIDE DEF new
<1>3. Range(new) = Range(seq) \cup {x}
  <2>1. 1 .. n + 1 = (1 .. n) \cup {n + 1}
    BY <1>1
  <2> QED
    BY <1>2, <2>1 DEF Range
<1>4. IsInjective(seq) /\ x \notin Range(seq) => IsInjective(new)
  <2> SUFFICES ASSUME IsInjective(seq), x \notin Range(seq),
                      NEW i \in 1 .. n + 1, NEW j \in 1 .. n + 1, new[i] = new[j]
               PROVE  i = j
    BY <1>2 DEF IsInjective
  <2>1. \A k \in 1 .. n : new[k] # x
    BY <1>2 DEF Range
  <2>2. CASE i \in 1 .. n /\ j \in 1 .. n
    BY <1>2, <2>2 DEF IsInjective
  <2>3. CASE i = n + 1 \/ j = n + 1
    BY <1>1, <1>2, <2>1, <2>3
  <2> QED
    BY <1>1, <2>2, <2>3
<1> QED
  BY <1>2, <1>3, <1>4 DEF new

LEMMA RemoveAtFacts ==
    ASSUME NEW A, NEW seq \in Seq(A), NEW i \in 1 .. Len(seq)
    PROVE  /\ RemoveAt(seq, i) \in Seq(A)
           /\ Len(RemoveAt(seq, i)) = Len(seq) - 1
           /\ \A j \in 1 .. Len(seq) - 1 :
                 RemoveAt(seq, i)[j] = IF j < i THEN seq[j] ELSE seq[j + 1]
           /\ Range(RemoveAt(seq, i)) \subseteq Range(seq)
           /\ IsInjective(seq) => IsInjective(RemoveAt(seq, i))
           /\ IsInjective(seq) => Range(RemoveAt(seq, i)) = Range(seq) \ {seq[i]}
<1> DEFINE new == RemoveAt(seq, i) left == SubSeq(seq, 1, i - 1) right == SubSeq(seq, i + 1, Len(seq))
<1>1. PICK n \in Nat : n = Len(seq)
  OBVIOUS
<1>2. left \in Seq(A) /\ Len(left) = i - 1 /\ \A j \in 1 .. i - 1 : left[j] = seq[j]
  BY <1>1
<1>3. right \in Seq(A) /\ Len(right) = n - i /\ \A j \in 1 .. n - i : right[j] = seq[i + j]
  BY <1>1
<1>4. new = left \o right
  BY DEF RemoveAt
<1> HIDE DEF new, left, right
<1>5. new \in Seq(A) /\ Len(new) = n - 1 /\ DOMAIN new = 1 .. n - 1
  <2>1. new \in Seq(A)
    BY <1>2, <1>3, <1>4
  <2>2. Len(new) = (i - 1) + (n - i)
    <3>1. Len(left \o right) = Len(left) + Len(right)
      BY <1>2, <1>3
    <3> QED
      BY <1>2, <1>3, <1>4, <3>1
  <2>3. i \in Int /\ (i - 1) + (n - i) = n - 1
    BY <1>1
  <2> QED
    BY <2>1, <2>2, <2>3
<1>6. ASSUME NEW j \in 1 .. n - 1
      PROVE  new[j] = IF j < i THEN seq[j] ELSE seq[j + 1]
  <2>1. CASE j < i
    BY <1>1, <1>2, <1>3, <1>4, <2>1
  <2>2. CASE ~ (j < i)
    <3>1. j - (i - 1) \in 1 .. n - i /\ i + (j - (i - 1)) = j + 1
      BY <1>1, <2>2
    <3>2. new[j] = right[j - (i - 1)]
      BY <1>1, <1>2, <1>3, <1>4, <2>2
    <3> QED
      BY <1>3, <2>2, <3>1, <3>2
  <2> QED
    BY <2>1, <2>2
<1>7. DOMAIN seq = 1 .. n
  BY <1>1
<1>8. Range(new) \subseteq Range(seq)
  BY <1>1, <1>5, <1>6, <1>7 DEF Range
<1>9. ASSUME IsInjective(seq) PROVE IsInjective(new)
  <2> SUFFICES ASSUME NEW j \in 1 .. n - 1, NEW k \in 1 .. n - 1, new[j] = new[k]
               PROVE  j = k
    BY <1>5 DEF IsInjective
  <2> DEFINE p(h) == IF h < i THEN h ELSE h + 1
  <2>1. p(j) \in 1 .. n /\ p(k) \in 1 .. n /\ (p(j) = p(k) => j = k)
    BY <1>1
  <2>2. new[j] = seq[p(j)] /\ new[k] = seq[p(k)]
    BY <1>6
  <2> QED
    BY <1>7, <1>9, <2>1, <2>2 DEF IsInjective
<1>10. ASSUME IsInjective(seq) PROVE Range(new) = Range(seq) \ {seq[i]}
  <2>1. ASSUME NEW j \in 1 .. n - 1 PROVE new[j] # seq[i]
    <3> DEFINE p == IF j < i THEN j ELSE j + 1
    <3>1. p \in 1 .. n /\ p # i /\ new[j] = seq[p]
      BY <1>1, <1>6
    <3> HIDE DEF p
    <3> QED
      BY <1>1, <1>7, <1>10, <3>1 DEF IsInjective
  <2>2. ASSUME NEW k \in 1 .. n, k # i PROVE seq[k] \in Range(new)
    <3> DEFINE j == IF k < i THEN k ELSE k - 1
    <3>1. j \in 1 .. n - 1 /\ (IF j < i THEN j ELSE j + 1) = k
      BY <1>1, <2>2
    <3>2. new[j] = seq[k]
      BY <1>6, <3>1
    <3> HIDE DEF j
    <3> QED
      BY <1>5, <3>1, <3>2 DEF Range
  <2>3. \A x \in Range(new) : x \in Range(seq) /\ x # seq[i]
    BY <1>5, <1>8, <2>1 DEF Range
  <2>4. \A x \in Range(seq) : x # seq[i] => x \in Range(new)
    BY <1>7, <2>2 DEF Range
  <2> QED
    BY <2>3, <2>4
<1> QED
  BY <1>1, <1>5, <1>6, <1>8, <1>9, <1>10 DEF new

-------------------------------------------------------------------------------
(* Folds. *)

\* A set of numbers has a smallest one: induction over numbers.
LEMMA SmallestIn ==
    ASSUME NEW T \in SUBSET Nat, T # {}
    PROVE  \E n \in T : \A m \in T : n <= m
<1>1. PICK n \in T : \A m \in T : ~ (<<m, n>> \in OpToRel(<, Nat))
  BY NatLessThanWellFounded, WFMin
<1>2. \A m \in T : <<m, n>> \in OpToRel(<, Nat) <=> m < n
  BY DEF OpToRel
<1>3. \A m \in T : ~ (m < n)
  BY <1>1, <1>2, Zenon
<1> QED
  BY <1>3

LEMMA MinExists ==
    ASSUME NEW T \in SUBSET Nat, T # {}
    PROVE  Min(T) \in T
BY SmallestIn DEF Min

LEMMA LastPosition ==
    ASSUME NEW n \in Nat, NEW s \in SUBSET (1 .. n), s # {}
    PROVE  Max(s) \in s /\ \A i \in s : i <= Max(s)
<1> DEFINE above == {m \in Nat : \A i \in s : i <= m}
<1>1. n \in above
  OBVIOUS
<1>2. PICK m \in above : \A k \in above : m <= k
  BY <1>1, SmallestIn
<1>3. m \in s
  <2> SUFFICES ASSUME m \notin s PROVE FALSE
    OBVIOUS
  <2>1. \A i \in s : i \in Nat /\ i <= m - 1
    BY <1>2
  <2>2. m - 1 \in Nat
    <3>1. PICK i \in s : i \in Nat /\ i <= m - 1
      BY <2>1
    <3> QED
      BY <1>2, <3>1
  <2>3. m - 1 \in above
    BY <2>1, <2>2
  <2> QED
    BY <1>2, <2>3
<1> QED
  BY <1>2, <1>3 DEF Max

\* The function that a fold chooses: each set of positions from the one
\* without its last.
FoldOf(it, b, R, n) ==
    \A s \in SUBSET (1 .. n) :
        it[s] = IF s = {} THEN b ELSE R[<<it[s \ {Max(s)}], Max(s)>>]

LEMMA FoldExists ==
    ASSUME NEW n \in Nat, NEW S, NEW b \in S, NEW R \in [S \X (1 .. n) -> S]
    PROVE  \E it \in [SUBSET (1 .. n) -> S] : FoldOf(it, b, R, n)
<1> DEFINE Is(k) == \E it \in [SUBSET (1 .. k) -> S] : FoldOf(it, b, R, k)
           bad == {k \in 0 .. n : ~ Is(k)}
<1>1. Is(0)
  <2> DEFINE it == [s \in SUBSET (1 .. 0) |-> b]
  <2>1. \A s \in SUBSET (1 .. 0) : s = {}
    OBVIOUS
  <2>2. it \in [SUBSET (1 .. 0) -> S] /\ FoldOf(it, b, R, 0)
    BY <2>1 DEF FoldOf
  <2> QED
    BY <2>2
<1>2. ASSUME NEW k \in 0 .. n - 1, Is(k) PROVE Is(k + 1)
  <2>1. PICK it \in [SUBSET (1 .. k) -> S] : FoldOf(it, b, R, k)
    BY <1>2
  <2> DEFINE more == [s \in SUBSET (1 .. k + 1) |->
                         IF k + 1 \in s THEN R[<<it[s \ {k + 1}], k + 1>>] ELSE it[s]]
  <2>2. \A s \in SUBSET (1 .. k + 1) :
           /\ s \ {k + 1} \in SUBSET (1 .. k)
           /\ k + 1 \notin s => s \in SUBSET (1 .. k)
    OBVIOUS
  <2>3. more \in [SUBSET (1 .. k + 1) -> S]
    <3> SUFFICES ASSUME NEW s \in SUBSET (1 .. k + 1) PROVE more[s] \in S
      OBVIOUS
    <3>1. it[s \ {k + 1}] \in S /\ (k + 1 \notin s => it[s] \in S)
      BY <2>2
    <3>2. k + 1 \in 1 .. n
      OBVIOUS
    <3> QED
      BY <3>1, <3>2
  <2>4. ASSUME NEW s \in SUBSET (1 .. k + 1), s # {}
        PROVE  more[s] = R[<<more[s \ {Max(s)}], Max(s)>>]
    <3>1. Max(s) \in s /\ \A i \in s : i <= Max(s)
      <4>1. k + 1 \in Nat
        OBVIOUS
      <4> QED
        BY <2>4, <4>1, LastPosition
    <3>2. CASE k + 1 \in s
      <4>1. Max(s) = k + 1
        <5>1. Max(s) \in 1 .. k + 1
          BY <3>1
        <5>2. k + 1 <= Max(s)
          BY <3>1, <3>2
        <5> QED
          BY <5>1, <5>2
      <4>2. more[s \ {k + 1}] = it[s \ {k + 1}]
        BY <2>2
      <4> QED
        BY <3>2, <4>1, <4>2
    <3>3. CASE k + 1 \notin s
      <4>1. s \in SUBSET (1 .. k) /\ s \ {Max(s)} \in SUBSET (1 .. k)
        BY <2>2, <3>3
      <4>2. it[s] = R[<<it[s \ {Max(s)}], Max(s)>>]
        BY <2>1, <2>4, <4>1 DEF FoldOf
      <4>3. more[s] = it[s] /\ more[s \ {Max(s)}] = it[s \ {Max(s)}]
        BY <3>3, <4>1
      <4> QED
        BY <4>2, <4>3
    <3> QED
      BY <3>2, <3>3
  <2>5. more[{}] = b
    <3>1. it[{}] = b
      BY <2>1 DEF FoldOf
    <3> QED
      BY <3>1
  <2>6. FoldOf(more, b, R, k + 1)
    BY <2>4, <2>5 DEF FoldOf
  <2> QED
    BY <2>3, <2>6
<1>3. bad = {}
  <2> SUFFICES ASSUME bad # {} PROVE FALSE
    OBVIOUS
  <2>1. PICK k \in bad : \A m \in bad : k <= m
    <3>1. bad \in SUBSET Nat
      OBVIOUS
    <3> QED
      BY <3>1, SmallestIn
  <2>2. k # 0
    BY <1>1, <2>1
  <2>3. k \in 0 .. n /\ ~ Is(k)
    BY <2>1
  <2> HIDE DEF Is
  <2>4. k - 1 \in 0 .. n - 1 /\ k - 1 \in 0 .. n /\ k - 1 + 1 = k /\ ~ (k <= k - 1)
    BY <2>2, <2>3
  <2>5. Is(k - 1)
    BY <2>1, <2>4
  <2> QED
    BY <1>2, <2>3, <2>4, <2>5
<1>4. n \in 0 .. n
  OBVIOUS
<1>5. Is(n)
  <2> HIDE DEF Is
  <2> QED
    BY <1>3, <1>4
<1> QED
  BY <1>5

\* What every step of a fold keeps: after k elements it is in the k-th set.
LEMMA FoldStays ==
    ASSUME NEW n \in Nat, NEW T, NEW it, it[{}] \in T[0],
           \A k \in 0 .. n - 1 : it[1 .. k] \in T[k] =>
              (\A s \in SUBSET (1 .. n) :
                  s # {} /\ Max(s) = k + 1 /\ s \ {Max(s)} = 1 .. k => it[s] \in T[k + 1])
    PROVE  it[1 .. n] \in T[n]
<1> DEFINE bad == {k \in 0 .. n : it[1 .. k] \notin T[k]}
<1>1. 0 \notin bad
  <2>1. 1 .. 0 = {}
    OBVIOUS
  <2> QED
    BY <2>1
<1>2. ASSUME NEW k \in 0 .. n - 1, it[1 .. k] \in T[k] PROVE it[1 .. k + 1] \in T[k + 1]
  <2> DEFINE s == 1 .. k + 1
  <2>1. s \in SUBSET (1 .. n) /\ s # {} /\ k + 1 \in s
    <3>1. k + 1 \in s
      OBVIOUS
    <3>2. s \in SUBSET (1 .. n)
      OBVIOUS
    <3> QED
      BY <3>1, <3>2
  <2>2. Max(s) = k + 1
    <3>1. Max(s) \in s /\ k + 1 <= Max(s)
      <4> HIDE DEF s
      <4> QED
        BY <2>1, LastPosition
    <3> QED
      BY <3>1
  <2>3. s \ {k + 1} = 1 .. k
    OBVIOUS
  <2> HIDE DEF s
  <2>4. it[s] \in T[k + 1]
    BY <1>2, <2>1, <2>2, <2>3
  <2> QED
    BY <2>4 DEF s
<1>3. bad = {}
  <2> SUFFICES ASSUME bad # {} PROVE FALSE
    OBVIOUS
  <2>1. PICK k \in bad : \A m \in bad : k <= m
    <3>1. bad \in SUBSET Nat
      OBVIOUS
    <3> QED
      BY <3>1, SmallestIn
  <2>2. k - 1 \in 0 .. n - 1 /\ k - 1 \notin bad /\ k - 1 + 1 = k
    BY <1>1, <2>1
  <2>3. it[1 .. k - 1] \in T[k - 1]
    BY <2>2
  <2> QED
    BY <1>2, <2>1, <2>2, <2>3
<1> QED
  BY <1>3

\* What holds when a fold has taken any of its elements, if it holds when it has
\* taken one more.
LEMMA FoldStaysAt ==
    ASSUME NEW n \in Nat, NEW T, NEW it, it[{}] \in T[{}],
           \A s \in SUBSET (1 .. n) :
              s # {} /\ it[s \ {Max(s)}] \in T[s \ {Max(s)}] => it[s] \in T[s]
    PROVE  \A s \in SUBSET (1 .. n) : it[s] \in T[s]
<1> DEFINE bad == {s \in SUBSET (1 .. n) : it[s] \notin T[s]}
           B == {Max(s) : s \in bad}
<1>1. SUFFICES ASSUME bad # {} PROVE FALSE
  OBVIOUS
<1>2. \A s \in bad : s \in SUBSET (1 .. n) /\ s # {} /\ Max(s) \in s /\ \A i \in s : i <= Max(s)
  BY LastPosition
<1>3. B \in SUBSET Nat /\ B # {}
  <2>1. ASSUME NEW s \in bad PROVE Max(s) \in Nat
    <3>1. Max(s) \in 1 .. n
      <4> HIDE DEF bad
      <4> QED
        BY <1>2
    <3> QED
      BY <3>1
  <2> HIDE DEF bad
  <2> QED
    BY <1>1, <2>1
<1>4. PICK m \in B : \A k \in B : m <= k
  <2> HIDE DEF B
  <2> QED
    BY <1>3, SmallestIn
<1>5. PICK s \in bad : m = Max(s)
  BY <1>4
<1> DEFINE few == s \ {Max(s)}
<1>6. few \in SUBSET (1 .. n) /\ m \in Nat /\ \A i \in few : i < m
  <2>1. s \in SUBSET (1 .. n) /\ \A i \in s : i <= m
    BY <1>2, <1>5
  <2>2. m \in 1 .. n
    <3> HIDE DEF bad
    <3> QED
      BY <1>2, <1>5
  <2>3. ASSUME NEW i \in few PROVE i < m
    <3>1. i \in 1 .. n /\ i <= m /\ i # m
      <4> HIDE DEF bad
      <4> QED
        BY <1>5, <2>1
    <3> QED
      BY <2>2, <3>1
  <2>4. few \in SUBSET (1 .. n)
    BY <2>1
  <2> HIDE DEF few
  <2> QED
    BY <2>2, <2>3, <2>4
<1>7. it[few] \in T[few]
  <2>1. CASE few = {}
    BY <2>1
  <2>2. CASE few # {}
    <3>1. Max(few) \in few
      <4> HIDE DEF few
      <4> QED
        BY <1>6, <2>2, LastPosition
    <3>2. Max(few) \in Nat /\ Max(few) < m
      <4>1. Max(few) < m /\ Max(few) \in 1 .. n
        <5> HIDE DEF few
        <5> QED
          BY <1>6, <3>1
      <4> QED
        BY <4>1
    <3>3. Max(few) \notin B
      <4> HIDE DEF few, B
      <4> QED
        BY <1>4, <1>6, <3>2
    <3>4. few \notin bad
      <4> HIDE DEF few, bad
      <4> QED
        BY <3>3
    <3> HIDE DEF few
    <3> QED
      BY <1>6, <3>4
  <2> QED
    BY <2>1, <2>2
<1>8. it[s] \in T[s]
  BY <1>2, <1>5, <1>7
<1> QED
  BY <1>5, <1>8

-------------------------------------------------------------------------------
(* One position after the other. *)

\* The last position of a prefix.
LEMMA LastOfPrefix ==
    ASSUME NEW k \in Nat
    PROVE  /\ 1 .. k + 1 # {} /\ Max(1 .. k + 1) = k + 1 /\ (1 .. k + 1) \ {k + 1} = 1 .. k
<1> DEFINE s == 1 .. k + 1
<1>1. s \in SUBSET (1 .. k + 1) /\ s # {} /\ k + 1 \in s /\ k + 1 \in Nat
  <2>1. k + 1 \in s
    OBVIOUS
  <2> QED
    BY <2>1
<1>2. Max(s) \in s /\ k + 1 <= Max(s)
  <2> HIDE DEF s
  <2> QED
    BY <1>1, LastPosition
<1>3. (1 .. k + 1) \ {k + 1} = 1 .. k
  OBVIOUS
<1> QED
  BY <1>1, <1>2, <1>3

\* Induction up to a bound, for a set of numbers.
LEMMA UpTo ==
    ASSUME NEW n \in Nat, NEW P, 0 \in P, \A k \in 0 .. n - 1 : k \in P => k + 1 \in P
    PROVE  n \in P
<1> DEFINE bad == {k \in 0 .. n : k \notin P}
<1>1. SUFFICES ASSUME bad # {} PROVE FALSE
  <2>1. n \in 0 .. n
    OBVIOUS
  <2> QED
    BY <2>1
<1>2. PICK k \in bad : \A m \in bad : k <= m
  <2>1. bad \in SUBSET Nat
    OBVIOUS
  <2> QED
    BY <1>1, <2>1, SmallestIn
<1>3. k - 1 \in 0 .. n - 1 /\ k - 1 \notin bad /\ k - 1 + 1 = k
  BY <1>2
<1> QED
  BY <1>2, <1>3
===============================================================================
