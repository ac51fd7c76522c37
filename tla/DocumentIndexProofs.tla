-------------------------- MODULE DocumentIndexProofs --------------------------
(***************************************************************************)
(* Theorems about DocumentIndex, for any files, any set of requests and    *)
(* any number of jobs.  First, that the chunks of a text are the whole of  *)
(* it, for any text, limit and overlap: Chunking computes them with        *)
(* recursive functions, of which the values are reached by induction on    *)
(* the words, the units, the paragraphs and the pages.  Then, the document *)
(* and its jobs.                                                           *)
(***************************************************************************)
EXTENDS DocumentIndex, SequenceTheorems, WellFoundedInduction, TLAPS

-----------------------------------------------------------------------------
(* Numbers. *)

\* A set of numbers has a least one.
LEMMA LeastNumber ==
  ASSUME NEW S, S \subseteq Nat, S # {}
  PROVE  \E n \in S : \A m \in S : n <= m
<1> DEFINE R == {ss \in Nat \X Nat : ss[1] < ss[2]}
<1>1. IsWellFoundedOn(R, Nat)
  BY NatLessThanWellFounded DEF OpToRel
<1>2. PICK x \in S : \A y \in S : ~ (<<y, x>> \in R)
  <2> HIDE DEF R
  <2> QED
    BY <1>1, WFMin
<1>3. ASSUME NEW y \in S PROVE x <= y
  <2>1. <<y, x>> \in Nat \X Nat /\ <<y, x>>[1] = y /\ <<y, x>>[2] = x
    OBVIOUS
  <2>2. ~ (y < x)
    BY <1>2, <2>1
  <2> QED
    BY <2>2
<1> QED
  BY <1>3

\* A bounded set of numbers has a greatest one.
LEMMA GreatestNumber ==
  ASSUME NEW S, S \subseteq Nat, S # {}, NEW bound \in Nat, \A n \in S : n <= bound
  PROVE  \E n \in S : \A m \in S : m <= n
<1> DEFINE T == {bound - n : n \in S}
<1>1. \A n \in S : n \in Nat /\ bound - n \in Nat
  OBVIOUS
<1>2. T \subseteq Nat /\ T # {}
  BY <1>1
<1>3. PICK x \in T : \A m \in T : x <= m
  <2> HIDE DEF T
  <2> QED
    BY <1>2, LeastNumber
<1>4. PICK n \in S : x = bound - n
  BY <1>3
<1>5. ASSUME NEW m \in S PROVE m <= n
  <2>1. x <= bound - m
    BY <1>3
  <2> QED
    BY <1>1, <1>4, <2>1
<1> QED
  BY <1>5

\* Induction over an interval, on the set of the numbers of which it holds.
LEMMA Induction ==
  ASSUME NEW N \in Nat, NEW T, 0 \in T,
         \A n \in 0 .. N : n \in T /\ n < N => n + 1 \in T
  PROVE  0 .. N \subseteq T
<1> DEFINE Missing == (0 .. N) \ T
<1> SUFFICES ASSUME Missing # {} PROVE FALSE
  OBVIOUS
<1>1. PICK n \in Missing : \A m \in Missing : n <= m
  <2>1. Missing \subseteq Nat
    OBVIOUS
  <2> HIDE DEF Missing
  <2> QED
    BY <2>1, LeastNumber
<1>2. n - 1 \in 0 .. N /\ n - 1 < N /\ ~ (n <= n - 1)
  BY <1>1
<1>3. n - 1 \in T
  BY <1>1, <1>2
<1>4. (n - 1) + 1 \in T
  BY <1>2, <1>3
<1> QED
  BY <1>1, <1>4

\* f goes from `base` step by step.
Recurs(f, N, base, step) == f[0] = base /\ \A n \in 1 .. N : f[n] = step[<<f[n - 1], n>>]

\* What is defined step by step exists.
LEMMA Recursion ==
  ASSUME NEW S, NEW N \in Nat, NEW base \in S, NEW step \in [S \X (1 .. N) -> S]
  PROVE  \E f \in [0 .. N -> S] : Recurs(f, N, base, step)
<1> DEFINE Defined(f, k) == f[0] = base /\ \A n \in 1 .. k : f[n] = step[<<f[n - 1], n>>]
           T == {k \in 0 .. N : \E f \in [0 .. k -> S] : Defined(f, k)}
<1>1. 0 \in T
  <2> DEFINE f == [n \in 0 .. 0 |-> base]
  <2>1. f \in [0 .. 0 -> S]
    OBVIOUS
  <2>2. f[0] = base
    OBVIOUS
  <2>3. Defined(f, 0)
    BY <2>2
  <2> HIDE DEF f, Defined
  <2> QED
    BY <2>1, <2>3
<1>2. ASSUME NEW k \in 0 .. N, k \in T, k < N
      PROVE  k + 1 \in T
  <2>1. PICK f \in [0 .. k -> S] : Defined(f, k)
    BY <1>2
  <2> DEFINE g == [n \in 0 .. (k + 1) |-> IF n = k + 1 THEN step[<<f[k], k + 1>>] ELSE f[n]]
  <2>2. k + 1 \in 1 .. N /\ k \in 0 .. k /\ f[k] \in S
    BY <1>2
  <2>3. step[<<f[k], k + 1>>] \in S
    BY <2>2
  <2>4. g \in [0 .. (k + 1) -> S]
    BY <2>3
  <2>5. g[0] = base
    BY <2>1
  <2>6. ASSUME NEW n \in 1 .. (k + 1) PROVE g[n] = step[<<g[n - 1], n>>]
    <3>1. CASE n = k + 1
      <4>1. n \in 0 .. (k + 1) /\ n - 1 = k /\ k \in 0 .. (k + 1) /\ k # k + 1
        BY <3>1
      <4>2. g[n] = step[<<f[k], k + 1>>] /\ g[k] = f[k]
        BY <3>1, <4>1
      <4> QED
        BY <3>1, <4>1, <4>2
    <3>2. CASE n # k + 1
      <4>1. n \in 1 .. k /\ n \in 0 .. (k + 1) /\ n - 1 \in 0 .. (k + 1) /\ n - 1 # k + 1
        BY <3>2
      <4>2. g[n] = f[n] /\ g[n - 1] = f[n - 1]
        BY <3>2, <4>1
      <4> QED
        BY <4>1, <4>2, <2>1
    <3> QED
      BY <3>1, <3>2
  <2>7. Defined(g, k + 1)
    BY <2>5, <2>6
  <2> QED
    <3> HIDE DEF g, Defined
    <3> QED
      BY <2>4, <2>7, <2>2
<1>3. N \in T
  <2> HIDE DEF T
  <2>1. 0 .. N \subseteq T
    BY <1>1, <1>2, Induction
  <2> QED
    BY <2>1
<1>4. PICK f \in [0 .. N -> S] : Defined(f, N)
  BY <1>3
<1> QED
  BY <1>4 DEF Recurs

\* Its values are those the steps can give.
LEMMA RecursionType ==
  ASSUME NEW S, NEW N \in Nat, NEW f, f[0] \in S,
         \A n \in 1 .. N : f[n - 1] \in S => f[n] \in S
  PROVE  \A n \in 0 .. N : f[n] \in S
<1> DEFINE T == {n \in 0 .. N : f[n] \in S}
<1>1. 0 \in T
  OBVIOUS
<1>2. ASSUME NEW n \in 0 .. N, n \in T, n < N PROVE n + 1 \in T
  <2>1. n + 1 \in 1 .. N /\ (n + 1) - 1 = n
    BY <1>2
  <2>2. f[(n + 1) - 1] \in S => f[n + 1] \in S
    BY <2>1
  <2> QED
    BY <1>2, <2>1, <2>2
<1>3. 0 .. N \subseteq T
  <2> HIDE DEF T
  <2> QED
    BY <1>1, <1>2, Induction
<1> QED
  BY <1>3

-----------------------------------------------------------------------------
(* The length of a text. *)

LEMMA LengthIsASum ==
  ASSUME NEW words \in Seq(Word)
  PROVE  \E f \in [0 .. Len(words) -> Nat] :
           /\ f[0] = 0
           /\ \A n \in 1 .. Len(words) : f[n] = f[n - 1] + words[n].length + (IF n = 1 THEN 0 ELSE 1)
           /\ LengthOf(words) = f[Len(words)]
<1> DEFINE N == Len(words)
           More(l, n) == l + words[n].length + (IF n = 1 THEN 0 ELSE 1)
           step == [p \in Nat \X (1 .. N) |-> More(p[1], p[2])]
           P(f) == f = [n \in 0 .. N |-> IF n = 0 THEN 0 ELSE f[n - 1] + words[n].length + (IF n = 1 THEN 0 ELSE 1)]
<1>1. N \in Nat /\ \A n \in 1 .. N : words[n].length \in Nat
  <2>1. \A n \in 1 .. N : words[n] \in Word
    OBVIOUS
  <2> QED
    BY <2>1 DEF Word
<1>2. \A l \in Nat, n \in 1 .. N : More(l, n) \in Nat
  BY <1>1
<1>3. step \in [Nat \X (1 .. N) -> Nat]
  <2> HIDE DEF N, More
  <2> QED
    BY <1>2
<1>4. PICK f \in [0 .. N -> Nat] : Recurs(f, N, 0, step)
  <2> HIDE DEF step, N
  <2> QED
    BY <1>1, <1>3, Recursion
<1>5. ASSUME NEW n \in 1 .. N PROVE f[n] = More(f[n - 1], n)
  <2> HIDE DEF N, More
  <2>1. n - 1 \in 0 .. N
    BY <1>1
  <2>2. <<f[n - 1], n>> \in Nat \X (1 .. N)
    BY <2>1
  <2>3. f[n] = step[<<f[n - 1], n>>]
    BY <1>4 DEF Recurs
  <2> QED
    BY <2>2, <2>3
<1>6. P(f)
  <2>1. ASSUME NEW n \in 0 .. N, n # 0 PROVE f[n] = f[n - 1] + words[n].length + (IF n = 1 THEN 0 ELSE 1)
    <3>1. n \in 1 .. N
      BY <1>1, <2>1
    <3> QED
      BY <1>5, <3>1
  <2>2. f[0] = 0
    BY <1>4 DEF Recurs
  <2> HIDE DEF N
  <2> QED
    BY <2>1, <2>2
<1> DEFINE g == CHOOSE h : P(h)
<1>7. P(g)
  <2> HIDE DEF P
  <2> QED
    BY <1>6
<1>8. LengthOf(words) = g[N]
  BY DEF LengthOf
<1> HIDE DEF g, N
<1>9. g[0] = 0 /\ DOMAIN g = 0 .. N /\ g = [n \in 0 .. N |-> g[n]]
  BY <1>1, <1>7
<1>10. ASSUME NEW n \in 1 .. N PROVE g[n] = More(g[n - 1], n)
  <2>1. n \in 0 .. N /\ n # 0
    BY <1>1
  <2> QED
    BY <2>1, <1>7
<1>11. \A n \in 0 .. N : g[n] \in Nat
  <2>1. \A n \in 1 .. N : g[n - 1] \in Nat => g[n] \in Nat
    BY <1>2, <1>10
  <2> HIDE DEF More
  <2>2. N \in Nat /\ g[0] \in Nat
    BY <1>1, <1>9
  <2> QED
    BY <2>1, <2>2, RecursionType
<1>12. g \in [0 .. N -> Nat]
  BY <1>9, <1>11
<1> QED
  BY <1>8, <1>9, <1>10, <1>12 DEF N

LEMMA LengthType == \A words \in Seq(Word) : LengthOf(words) \in Nat
<1> SUFFICES ASSUME NEW words \in Seq(Word) PROVE LengthOf(words) \in Nat
  OBVIOUS
<1>1. PICK f \in [0 .. Len(words) -> Nat] : LengthOf(words) = f[Len(words)]
  BY LengthIsASum
<1> QED
  BY <1>1

LEMMA LengthOfFew == LengthOf(<< >>) = 0 /\ \A w \in Word : LengthOf(<<w>>) = w.length
<1>1. LengthOf(<< >>) = 0
  <2>1. << >> \in Seq(Word)
    OBVIOUS
  <2> QED
    BY <2>1, LengthIsASum
<1>2. ASSUME NEW w \in Word PROVE LengthOf(<<w>>) = w.length
  <2>1. <<w>> \in Seq(Word) /\ Len(<<w>>) = 1 /\ <<w>>[1] = w
    OBVIOUS
  <2>2. PICK f \in [0 .. 1 -> Nat] :
          /\ f[0] = 0
          /\ \A n \in 1 .. 1 : f[n] = f[n - 1] + <<w>>[n].length + (IF n = 1 THEN 0 ELSE 1)
          /\ LengthOf(<<w>>) = f[1]
    BY <2>1, LengthIsASum
  <2>3. f[1] = f[1 - 1] + w.length + 0
    BY <2>1, <2>2
  <2>4. w.length \in Nat
    BY DEF Word
  <2> QED
    BY <2>2, <2>3, <2>4
<1> QED
  BY <1>1, <1>2

\* Two texts whose words have the same lengths have the same length.
LEMMA SameLength ==
  ASSUME NEW a \in Seq(Word), NEW b \in Seq(Word), Len(a) = Len(b),
         \A i \in 1 .. Len(a) : a[i].length = b[i].length
  PROVE  LengthOf(a) = LengthOf(b)
<1> DEFINE N == Len(a)
<1>0. N \in Nat
  OBVIOUS
<1>1. PICK f \in [0 .. N -> Nat] :
        /\ f[0] = 0
        /\ \A n \in 1 .. N : f[n] = f[n - 1] + a[n].length + (IF n = 1 THEN 0 ELSE 1)
        /\ LengthOf(a) = f[N]
  BY LengthIsASum
<1>2. PICK g \in [0 .. N -> Nat] :
        /\ g[0] = 0
        /\ \A n \in 1 .. N : g[n] = g[n - 1] + b[n].length + (IF n = 1 THEN 0 ELSE 1)
        /\ LengthOf(b) = g[N]
  BY LengthIsASum
<1> DEFINE T == {n \in 0 .. N : f[n] = g[n]}
<1>3. 0 \in T
  BY <1>0, <1>1, <1>2
<1>4. ASSUME NEW n \in 0 .. N, n \in T, n < N PROVE n + 1 \in T
  <2>1. n + 1 \in 1 .. N /\ (n + 1) - 1 = n
    BY <1>4
  <2>2. f[n + 1] = f[n] + a[n + 1].length + (IF n + 1 = 1 THEN 0 ELSE 1)
    BY <1>1, <2>1
  <2>3. g[n + 1] = g[n] + b[n + 1].length + (IF n + 1 = 1 THEN 0 ELSE 1)
    BY <1>2, <2>1
  <2> QED
    BY <1>4, <2>1, <2>2, <2>3
<1>5. N \in T
  <2> HIDE DEF T, N
  <2>1. 0 .. N \subseteq T
    BY <1>0, <1>3, <1>4, Induction
  <2> QED
    BY <1>0, <2>1
<1> QED
  BY <1>1, <1>2, <1>5

\* One character stands between two texts that are put together.
LEMMA LengthOfBoth ==
  ASSUME NEW a \in Seq(Word) \ {<< >>}, NEW b \in Seq(Word) \ {<< >>}
  PROVE  LengthOf(a \o b) = LengthOf(a) + 1 + LengthOf(b)
<1> DEFINE M == Len(a)
           N == Len(b)
<1>0. /\ M \in Nat \ {0} /\ N \in Nat \ {0}
      /\ a \o b \in Seq(Word) /\ Len(a \o b) = M + N
      /\ \A n \in 1 .. M : (a \o b)[n] = a[n]
      /\ \A n \in 1 .. N : (a \o b)[M + n] = b[n]
  BY EmptySeq
<1>1. PICK f \in [0 .. M -> Nat] :
        /\ f[0] = 0
        /\ \A n \in 1 .. M : f[n] = f[n - 1] + a[n].length + (IF n = 1 THEN 0 ELSE 1)
        /\ LengthOf(a) = f[M]
  BY LengthIsASum
<1>2. PICK g \in [0 .. N -> Nat] :
        /\ g[0] = 0
        /\ \A n \in 1 .. N : g[n] = g[n - 1] + b[n].length + (IF n = 1 THEN 0 ELSE 1)
        /\ LengthOf(b) = g[N]
  BY LengthIsASum
<1>3. PICK h \in [0 .. Len(a \o b) -> Nat] :
        /\ h[0] = 0
        /\ \A n \in 1 .. Len(a \o b) : h[n] = h[n - 1] + (a \o b)[n].length + (IF n = 1 THEN 0 ELSE 1)
        /\ LengthOf(a \o b) = h[Len(a \o b)]
  BY <1>0, LengthIsASum
<1>w. (\A n \in 1 .. M : a[n].length \in Nat) /\ (\A n \in 1 .. N : b[n].length \in Nat)
  <2>1. (\A n \in 1 .. M : a[n] \in Word) /\ (\A n \in 1 .. N : b[n] \in Word)
    OBVIOUS
  <2> QED
    BY <2>1 DEF Word
<1>m. M \in Nat /\ N \in Nat
  BY <1>0
<1> HIDE DEF M, N
<1> DEFINE T == {n \in 0 .. M : h[n] = f[n]}
           U == {n \in 0 .. N : n > 0 => h[M + n] = f[M] + 1 + g[n]}
<1>4. M \in T
  <2>1. 0 \in T
    BY <1>0, <1>1, <1>3
  <2>2. ASSUME NEW n \in 0 .. M, n \in T, n < M PROVE n + 1 \in T
    <3>1. n + 1 \in 1 .. M /\ n + 1 \in 1 .. (M + N) /\ (n + 1) - 1 = n
      BY <1>0, <2>2
    <3>2. f[n + 1] = f[n] + a[n + 1].length + (IF n + 1 = 1 THEN 0 ELSE 1)
      BY <1>1, <3>1
    <3>3. h[n + 1] = h[n] + a[n + 1].length + (IF n + 1 = 1 THEN 0 ELSE 1)
      BY <1>0, <1>3, <3>1
    <3> QED
      BY <2>2, <3>1, <3>2, <3>3
  <2> HIDE DEF T, U
  <2>3. 0 .. M \subseteq T
    BY <1>m, <2>1, <2>2, Induction
  <2> QED
    BY <1>m, <2>3
<1>5. N \in U
  <2>1. 0 \in U
    BY <1>0
  <2>2. ASSUME NEW n \in 0 .. N, n \in U, n < N PROVE n + 1 \in U
    <3>1. n + 1 \in 1 .. N /\ (n + 1) - 1 = n
      BY <1>0, <2>2
    <3>2. M + (n + 1) \in 1 .. (M + N) /\ (M + (n + 1)) - 1 = M + n /\ M + (n + 1) # 1
      BY <1>0, <3>1
    <3>3. g[n + 1] = g[n] + b[n + 1].length + (IF n + 1 = 1 THEN 0 ELSE 1)
      BY <1>2, <3>1
    <3>4. h[M + (n + 1)] = h[M + n] + b[n + 1].length + 1
      <4>1. M + (n + 1) \in 1 .. Len(a \o b)
        BY <1>0, <3>2
      <4>2. h[M + (n + 1)] = h[(M + (n + 1)) - 1] + (a \o b)[M + (n + 1)].length + (IF M + (n + 1) = 1 THEN 0 ELSE 1)
        BY <1>3, <4>1
      <4>3. (a \o b)[M + (n + 1)] = b[n + 1]
        BY <1>0, <3>1
      <4> QED
        BY <3>2, <4>2, <4>3
    <3>5. h[M] = f[M] /\ f[M] \in Nat /\ b[n + 1].length \in Nat /\ g[n] \in Nat
      BY <1>0, <1>4, <1>w, <3>1
    <3> DEFINE before == h[M + n]
               now == h[M + (n + 1)]
               left == f[M]
               word == b[n + 1].length
               old == g[n]
               new == g[n + 1]
    <3>6. /\ now = before + word + 1 /\ left \in Nat /\ word \in Nat /\ old \in Nat
          /\ new = old + word + (IF n = 0 THEN 0 ELSE 1)
      BY <3>3, <3>4, <3>5
    <3>7. before = IF n = 0 THEN left ELSE left + 1 + old
      <4>1. n = 0 => M + n = M
        BY <1>m
      <4>2. n # 0 => n > 0
        OBVIOUS
      <4> QED
        BY <2>2, <3>5, <4>1, <4>2
    <3>8. n = 0 => old = 0
      BY <1>2
    <3>9. now = left + 1 + new
      <4> HIDE DEF before, now, left, word, old, new, T, U
      <4> QED
        BY <3>6, <3>7, <3>8
    <3> QED
      BY <3>1, <3>9
  <2> HIDE DEF T, U
  <2>3. 0 .. N \subseteq U
    BY <1>m, <2>1, <2>2, Induction
  <2> QED
    BY <1>m, <2>3
<1> QED
  BY <1>0, <1>1, <1>2, <1>3, <1>5

-----------------------------------------------------------------------------
(* Sequences put end to end. *)

LEMMA FlattenIsAChain ==
  ASSUME NEW S, NEW seqs \in Seq(Seq(S))
  PROVE  \E f \in [0 .. Len(seqs) -> Seq(S)] :
           /\ f[0] = << >>
           /\ \A n \in 1 .. Len(seqs) : f[n] = f[n - 1] \o seqs[n]
           /\ FlattenSeq(seqs) = f[Len(seqs)]
<1> DEFINE N == Len(seqs)
           R == Seq(S)
           base == << >>
           step == [p \in R \X (1 .. N) |-> p[1] \o seqs[p[2]]]
           P(h) == h = [n \in 1 .. N |-> IF n = 1 THEN seqs[n] ELSE h[n - 1] \o seqs[n]]
<1>1. N \in Nat /\ (\A n \in 1 .. N : seqs[n] \in R) /\ base \in R
  OBVIOUS
<1>2. \A s \in R, n \in 1 .. N : s \o seqs[n] \in R
  BY <1>1
<1>3. step \in [R \X (1 .. N) -> R]
  <2> HIDE DEF N, R
  <2> QED
    BY <1>2
<1>4. PICK f \in [0 .. N -> R] : Recurs(f, N, base, step)
  <2> HIDE DEF step, N, R, base
  <2> QED
    BY <1>1, <1>3, Recursion
<1>5. ASSUME NEW n \in 1 .. N PROVE f[n] = f[n - 1] \o seqs[n]
  <2> HIDE DEF N, R
  <2>1. n - 1 \in 0 .. N
    BY <1>1
  <2>2. <<f[n - 1], n>> \in R \X (1 .. N)
    BY <2>1
  <2>3. f[n] = step[<<f[n - 1], n>>]
    BY <1>4 DEF Recurs
  <2> QED
    BY <2>2, <2>3
<1>6. f[0] = << >>
  BY <1>4 DEF Recurs
<1>7. CASE N = 0
  <2>1. FlattenSeq(seqs) = seqs /\ seqs = << >>
    BY <1>7, EmptySeq DEF FlattenSeq
  <2> QED
    BY <1>5, <1>6, <1>7, <2>1
<1>8. CASE N # 0
  <2>1. 1 \in 1 .. N /\ N \in 1 .. N
    BY <1>1, <1>8
  <2> DEFINE k == [n \in 1 .. N |-> f[n]]
  <2>2. P(k)
    <3>1. ASSUME NEW n \in 1 .. N
          PROVE  f[n] = IF n = 1 THEN seqs[n] ELSE k[n - 1] \o seqs[n]
      <4>1. CASE n = 1
        <5>1. f[n] = f[n - 1] \o seqs[n]
          BY <1>5
        <5>2. n - 1 = 0 /\ seqs[n] \in Seq(S)
          BY <1>1, <4>1
        <5>3. << >> \o seqs[n] = seqs[n]
          BY <5>2, ConcatEmptySeq
        <5>4. f[n] = seqs[n]
          BY <1>6, <5>1, <5>2, <5>3
        <5> QED
          BY <4>1, <5>4
      <4>2. CASE n # 1
        <5>1. n - 1 \in 1 .. N
          BY <1>1, <4>2
        <5> QED
          BY <1>5, <4>2, <5>1
      <4> QED
        BY <4>1, <4>2
    <3> HIDE DEF N
    <3> QED
      BY <3>1
  <2> DEFINE g == CHOOSE h : P(h)
  <2>3. P(g)
    <3> HIDE DEF P, k
    <3> QED
      BY <2>2
  <2>4. FlattenSeq(seqs) = g[N]
    BY <1>8 DEF FlattenSeq
  <2> DEFINE T == {n \in 0 .. N : n > 0 => g[n] = f[n]}
  <2>5. N \in T
    <3> HIDE DEF g, N
    <3>1. 0 \in T
      BY <1>1
    <3>2. ASSUME NEW n \in 0 .. N, n \in T, n < N PROVE n + 1 \in T
      <4>1. n + 1 \in 1 .. N /\ (n + 1) - 1 = n
        BY <1>1, <3>2
      <4>2. g[n + 1] = IF n + 1 = 1 THEN seqs[n + 1] ELSE g[n] \o seqs[n + 1]
        BY <2>3, <4>1
      <4>3. f[n + 1] = f[n] \o seqs[n + 1]
        BY <1>5, <4>1
      <4>4. CASE n = 0
        <5>1. f[n] = << >> /\ seqs[n + 1] \in Seq(S)
          BY <1>1, <1>6, <4>1, <4>4
        <5>2. << >> \o seqs[n + 1] = seqs[n + 1]
          BY <5>1
        <5>3. g[n + 1] = f[n + 1]
          BY <4>2, <4>3, <4>4, <5>1, <5>2
        <5> QED
          BY <4>1, <5>3
      <4>5. CASE n # 0
        <5>1. n > 0 /\ n + 1 # 1 /\ n + 1 \in 0 .. N
          BY <4>1, <4>5
        <5>2. g[n] = f[n]
          BY <3>2, <5>1
        <5>3. g[n + 1] = f[n + 1]
          BY <4>2, <4>3, <5>1, <5>2
        <5> QED
          BY <5>1, <5>3
      <4> QED
        BY <4>4, <4>5
    <3> HIDE DEF T
    <3>3. 0 .. N \subseteq T
      BY <1>1, <3>1, <3>2, Induction
    <3> QED
      BY <1>1, <3>3
  <2>6. g[N] = f[N]
    <3> HIDE DEF g, N
    <3> QED
      BY <2>1, <2>5
  <2> QED
    BY <1>5, <1>6, <2>4, <2>6
<1> QED
  BY <1>7, <1>8

LEMMA FlattenType == ASSUME NEW S, NEW seqs \in Seq(Seq(S)) PROVE FlattenSeq(seqs) \in Seq(S)
<1>1. PICK f \in [0 .. Len(seqs) -> Seq(S)] : FlattenSeq(seqs) = f[Len(seqs)]
  BY FlattenIsAChain
<1> QED
  BY <1>1

LEMMA FlattenEmpty == FlattenSeq(<< >>) = << >>
BY DEF FlattenSeq

LEMMA FlattenAppend ==
  ASSUME NEW S, NEW seqs \in Seq(Seq(S)), NEW s \in Seq(S)
  PROVE  FlattenSeq(Append(seqs, s)) = FlattenSeq(seqs) \o s
<1> DEFINE N == Len(seqs)
           more == Append(seqs, s)
<1>0. /\ N \in Nat /\ more \in Seq(Seq(S)) /\ Len(more) = N + 1
      /\ more[N + 1] = s /\ \A n \in 1 .. N : more[n] = seqs[n]
  OBVIOUS
<1>1. PICK f \in [0 .. N -> Seq(S)] :
        /\ f[0] = << >>
        /\ \A n \in 1 .. N : f[n] = f[n - 1] \o seqs[n]
        /\ FlattenSeq(seqs) = f[N]
  BY FlattenIsAChain
<1>2. PICK g \in [0 .. Len(more) -> Seq(S)] :
        /\ g[0] = << >>
        /\ \A n \in 1 .. Len(more) : g[n] = g[n - 1] \o more[n]
        /\ FlattenSeq(more) = g[Len(more)]
  <2> HIDE DEF more
  <2> QED
    BY <1>0, FlattenIsAChain
<1> HIDE DEF more, N
<1> DEFINE T == {n \in 0 .. N : f[n] = g[n]}
<1>3. N \in T
  <2>1. 0 \in T
    BY <1>0, <1>1, <1>2
  <2>2. ASSUME NEW n \in 0 .. N, n \in T, n < N PROVE n + 1 \in T
    <3>1. n + 1 \in 1 .. N /\ n + 1 \in 1 .. Len(more) /\ (n + 1) - 1 = n
      BY <1>0, <2>2
    <3>2. f[n + 1] = f[n] \o seqs[n + 1] /\ g[n + 1] = g[n] \o more[n + 1] /\ more[n + 1] = seqs[n + 1]
      BY <1>0, <1>1, <1>2, <3>1
    <3>3. f[n] = g[n]
      BY <2>2
    <3>4. f[n + 1] = g[n + 1]
      BY <3>2, <3>3
    <3> QED
      BY <1>0, <3>1, <3>4
  <2> HIDE DEF T
  <2>3. 0 .. N \subseteq T
    BY <1>0, <2>1, <2>2, Induction
  <2> QED
    BY <1>0, <2>3
<1>4. g[N + 1] = g[(N + 1) - 1] \o more[N + 1]
  <2>1. N + 1 \in 1 .. Len(more)
    BY <1>0
  <2> QED
    BY <1>2, <2>1
<1>5. (N + 1) - 1 = N
  BY <1>0
<1> QED
  BY <1>0, <1>1, <1>2, <1>3, <1>4, <1>5 DEF more

\* The first n sequences and the next.
LEMMA FlattenNext ==
  ASSUME NEW S, NEW seqs \in Seq(Seq(S)), NEW n \in 0 .. Len(seqs), n < Len(seqs)
  PROVE  FlattenSeq(SubSeq(seqs, 1, n + 1)) = FlattenSeq(SubSeq(seqs, 1, n)) \o seqs[n + 1]
<1>0. n + 1 \in 1 .. Len(seqs) /\ 1 \in 1 .. Len(seqs) /\ (n + 1) - 1 = n /\ n + 1 \in 1 .. Len(seqs)
  OBVIOUS
<1>1. SubSeq(seqs, 1, n + 1) = SubSeq(seqs, 1, n) \o <<seqs[n + 1]>>
  BY <1>0, SubSeqRecursiveSecond
<1>2. SubSeq(seqs, 1, n) \in Seq(Seq(S)) /\ seqs[n + 1] \in Seq(S)
  BY <1>0
<1>3. SubSeq(seqs, 1, n) \o <<seqs[n + 1]>> = Append(SubSeq(seqs, 1, n), seqs[n + 1])
  BY <1>2, AppendIsConcat
<1> QED
  BY <1>1, <1>2, <1>3, FlattenAppend

LEMMA FlattenBoth ==
  ASSUME NEW S, NEW a \in Seq(Seq(S)), NEW b \in Seq(Seq(S))
  PROVE  FlattenSeq(a \o b) = FlattenSeq(a) \o FlattenSeq(b)
<1> DEFINE N == Len(b)
           first(n) == SubSeq(b, 1, n)
           T == {n \in 0 .. N : FlattenSeq(a \o first(n)) = FlattenSeq(a) \o FlattenSeq(first(n))}
<1>0. N \in Nat /\ \A n \in 0 .. N : first(n) \in Seq(Seq(S))
  OBVIOUS
<1>f. FlattenSeq(a) \in Seq(S) /\ \A n \in 0 .. N : FlattenSeq(first(n)) \in Seq(S)
  <2> HIDE DEF first, N
  <2> QED
    BY <1>0, FlattenType
<1>1. 0 \in T
  <2>1. first(0) = << >>
    BY SubSeqEmpty
  <2>2. a \o << >> = a /\ FlattenSeq(a) \o << >> = FlattenSeq(a)
    BY <1>f
  <2>3. FlattenSeq(a \o first(0)) = FlattenSeq(a) \o FlattenSeq(first(0))
    <3> HIDE DEF first
    <3> QED
      BY <2>1, <2>2, FlattenEmpty
  <2> QED
    <3> HIDE DEF first
    <3> QED
      BY <1>0, <2>3
<1>2. ASSUME NEW n \in 0 .. N, n \in T, n < N PROVE n + 1 \in T
  <2>1. n + 1 \in 0 .. N /\ n + 1 \in 1 .. N /\ b[n + 1] \in Seq(S)
    BY <1>0, <1>2
  <2>2. FlattenSeq(first(n + 1)) = FlattenSeq(first(n)) \o b[n + 1]
    BY <1>2, FlattenNext
  <2>3. first(n + 1) = Append(first(n), b[n + 1])
    <3>1. (n + 1) - 1 = n /\ 1 \in 1 .. Len(b) /\ n + 1 \in 1 .. Len(b)
      BY <1>2
    <3>2. first(n + 1) = first(n) \o <<b[n + 1]>>
      BY <3>1, SubSeqRecursiveSecond
    <3> QED
      BY <1>0, <2>1, <3>2, AppendIsConcat
  <2> HIDE DEF first, N
  <2>4. a \o first(n + 1) = Append(a \o first(n), b[n + 1]) /\ a \o first(n) \in Seq(Seq(S))
    <3> DEFINE x == first(n)
               z == b[n + 1]
    <3>1. x \in Seq(Seq(S)) /\ z \in Seq(S) /\ first(n + 1) = Append(x, z)
      BY <1>0, <2>1, <2>3
    <3> HIDE DEF x, z
    <3>2. a \o Append(x, z) = Append(a \o x, z) /\ a \o x \in Seq(Seq(S))
      <4>1. <<z>> \in Seq(Seq(S)) /\ a \o x \in Seq(Seq(S)) /\ Append(x, z) = x \o <<z>>
        BY <3>1, AppendIsConcat
      <4>2. Append(a \o x, z) = (a \o x) \o <<z>>
        BY <3>1, <4>1, AppendIsConcat
      <4>3. (a \o x) \o <<z>> = a \o (x \o <<z>>)
        <5> DEFINE Q == Seq(S)
                   e == <<z>>
        <5>1. a \in Seq(Q) /\ x \in Seq(Q) /\ e \in Seq(Q)
          BY <3>1, <4>1
        <5> HIDE DEF Q, e
        <5>2. (a \o x) \o e = a \o (x \o e)
          BY <5>1, ConcatAssociative
        <5> QED
          BY <5>2 DEF e
      <4> QED
        BY <4>1, <4>2, <4>3
    <3> QED
      BY <3>1, <3>2 DEF x, z
  <2>5. FlattenSeq(a \o first(n + 1)) = FlattenSeq(a \o first(n)) \o b[n + 1]
    BY <2>1, <2>4, FlattenAppend
  <2>6. (FlattenSeq(a) \o FlattenSeq(first(n))) \o b[n + 1] = FlattenSeq(a) \o (FlattenSeq(first(n)) \o b[n + 1])
    <3> DEFINE x == FlattenSeq(a)
               y == FlattenSeq(first(n))
               z == b[n + 1]
    <3>1. x \in Seq(S) /\ y \in Seq(S) /\ z \in Seq(S)
      BY <1>f, <2>1
    <3> HIDE DEF x, y, z
    <3>2. (x \o y) \o z = x \o (y \o z)
      BY <3>1, ConcatAssociative, SMTT(60)
    <3> QED
      BY <3>2 DEF x, y, z
  <2> QED
    BY <1>2, <2>1, <2>2, <2>5, <2>6
<1>3. N \in T
  <2> HIDE DEF T, N
  <2>1. 0 .. N \subseteq T
    BY <1>0, <1>1, <1>2, Induction
  <2> QED
    BY <1>0, <2>1
<1>4. first(N) = b
  BY SubSeqFull
<1> QED
  BY <1>3, <1>4

\* What comes of lists that come of the same sequences.
LEMMA FlattenParts ==
  ASSUME NEW S, NEW seqs \in Seq(Seq(S)), NEW parts \in Seq(Seq(Seq(S))), Len(parts) = Len(seqs),
         \A n \in 1 .. Len(seqs) : FlattenSeq(parts[n]) = seqs[n]
  PROVE  FlattenSeq(FlattenSeq(parts)) = FlattenSeq(seqs)
<1> DEFINE N == Len(seqs)
<1>1. PICK f \in [0 .. N -> Seq(S)] :
        /\ f[0] = << >>
        /\ \A n \in 1 .. N : f[n] = f[n - 1] \o seqs[n]
        /\ FlattenSeq(seqs) = f[N]
  BY FlattenIsAChain
<1>2. PICK g \in [0 .. N -> Seq(Seq(S))] :
        /\ g[0] = << >>
        /\ \A n \in 1 .. N : g[n] = g[n - 1] \o parts[n]
        /\ FlattenSeq(parts) = g[N]
  <2>1. \E g \in [0 .. Len(parts) -> Seq(Seq(S))] :
          /\ g[0] = << >>
          /\ \A n \in 1 .. Len(parts) : g[n] = g[n - 1] \o parts[n]
          /\ FlattenSeq(parts) = g[Len(parts)]
    BY FlattenIsAChain
  <2> QED
    BY <2>1
<1>0. N \in Nat /\ \A n \in 1 .. N : parts[n] \in Seq(Seq(S)) /\ FlattenSeq(parts[n]) = seqs[n]
  OBVIOUS
<1> HIDE DEF N
<1> DEFINE T == {n \in 0 .. N : FlattenSeq(g[n]) = f[n]}
<1>3. 0 \in T
  BY <1>0, <1>1, <1>2, FlattenEmpty
<1>4. ASSUME NEW n \in 0 .. N, n \in T, n < N PROVE n + 1 \in T
  <2>1. n + 1 \in 1 .. N /\ n + 1 \in 0 .. N /\ (n + 1) - 1 = n
    BY <1>0, <1>4
  <2>2. f[n + 1] = f[n] \o seqs[n + 1] /\ g[n + 1] = g[n] \o parts[n + 1]
    BY <1>1, <1>2, <2>1
  <2>3. FlattenSeq(g[n] \o parts[n + 1]) = FlattenSeq(g[n]) \o FlattenSeq(parts[n + 1])
    <3> DEFINE x == g[n]
               y == parts[n + 1]
    <3>1. x \in Seq(Seq(S)) /\ y \in Seq(Seq(S))
      BY <1>0, <2>1
    <3> HIDE DEF x, y
    <3>2. FlattenSeq(x \o y) = FlattenSeq(x) \o FlattenSeq(y)
      BY <3>1, FlattenBoth
    <3> QED
      BY <3>2 DEF x, y
  <2> QED
    BY <1>0, <1>4, <2>1, <2>2, <2>3
<1>5. N \in T
  <2> HIDE DEF T
  <2>1. 0 .. N \subseteq T
    BY <1>0, <1>3, <1>4, Induction
  <2> QED
    BY <1>0, <2>1
<1> QED
  BY <1>1, <1>2, <1>5

-----------------------------------------------------------------------------
(* Units: not longer than the limit, or of one word. *)

Limited(words, max_chars) == LengthOf(words) <= max_chars \/ Len(words) = 1

Units(max_chars) == {words \in Seq(Word) \ {<< >>} : Limited(words, max_chars)}

\* A sequence and its last element.
LEMMA FrontAndLast ==
  ASSUME NEW S, NEW seq \in Seq(S), seq # << >>
  PROVE  Front(seq) \in Seq(S) /\ Last(seq) \in S /\ seq = Append(Front(seq), Last(seq))
<1> DEFINE N == Len(seq)
<1>1. N \in 1 .. N /\ 1 \in 1 .. N /\ N \in Nat
  BY EmptySeq
<1>2. SubSeq(seq, 1, N) = SubSeq(seq, 1, N - 1) \o <<seq[N]>>
  BY <1>1, SubSeqRecursiveSecond
<1>3. SubSeq(seq, 1, N) = seq
  BY SubSeqFull
<1>4. SubSeq(seq, 1, N - 1) \in Seq(S) /\ seq[N] \in S
  BY <1>1
<1>5. SubSeq(seq, 1, N - 1) \o <<seq[N]>> = Append(SubSeq(seq, 1, N - 1), seq[N])
  BY <1>4, AppendIsConcat
<1> QED
  BY <1>2, <1>3, <1>4, <1>5 DEF Front, Last

LEMMA FlattenOne == ASSUME NEW S, NEW s \in Seq(S) PROVE FlattenSeq(<<s>>) = s
<1>1. <<s>> = Append(<< >>, s) /\ << >> \in Seq(Seq(S))
  OBVIOUS
<1>2. FlattenSeq(<<s>>) = FlattenSeq(<< >>) \o s
  BY <1>1, FlattenAppend
<1>3. << >> \o s = s
  BY ConcatEmptySeq
<1> QED
  BY <1>2, <1>3, FlattenEmpty

\* A word more in the pieces, and in none of them too many.
LEMMA PackedUnits ==
  ASSUME NEW max_chars \in Nat, NEW pieces \in Seq(Units(max_chars)), NEW word \in Word
  PROVE  /\ Packed(pieces, word, max_chars) \in Seq(Units(max_chars))
         /\ FlattenSeq(Packed(pieces, word, max_chars)) = FlattenSeq(pieces) \o <<word>>
<1> DEFINE U == Units(max_chars)
           last == Last(pieces)
           front == Front(pieces)
<1>0. /\ U \subseteq Seq(Word) /\ pieces \in Seq(Seq(Word)) /\ <<word>> \in Seq(Word)
      /\ <<word>> \in U
  <2>1. U \subseteq Seq(Word) /\ <<word>> \in Seq(Word) /\ <<word>> # << >> /\ Len(<<word>>) = 1
    BY DEF Units
  <2>2. pieces \in Seq(Seq(Word))
    BY <2>1, SeqMonotonic
  <2> QED
    BY <2>1, <2>2 DEF Units, Limited
<1>1. CASE pieces # << >> /\ LengthOf(Append(last, word)) <= max_chars
  <2>1. front \in Seq(U) /\ last \in U /\ pieces = Append(front, last)
    BY <1>1, FrontAndLast
  <2>2. front \in Seq(Seq(Word)) /\ last \in Seq(Word)
    BY <1>0, <2>1, SeqMonotonic
  <2> DEFINE longer == Append(last, word)
  <2>3. longer \in U /\ longer \in Seq(Word) /\ longer = last \o <<word>>
    <3>1. longer \in Seq(Word) /\ longer # << >> /\ longer = last \o <<word>>
      BY <2>2, AppendProperties, AppendIsConcat
    <3> QED
      BY <1>1, <3>1 DEF Units, Limited
  <2>4. Packed(pieces, word, max_chars) = Append(front, longer)
    BY <1>1 DEF Packed
  <2> HIDE DEF front, last, longer, U
  <2>5. Append(front, longer) \in Seq(U)
    BY <2>1, <2>3
  <2>6. FlattenSeq(Append(front, longer)) = FlattenSeq(front) \o longer
    BY <2>2, <2>3, FlattenAppend
  <2>7. FlattenSeq(pieces) = FlattenSeq(front) \o last
    BY <2>1, <2>2, FlattenAppend
  <2>8. FlattenSeq(front) \in Seq(Word)
    BY <2>2, FlattenType
  <2>9. (FlattenSeq(front) \o last) \o <<word>> = FlattenSeq(front) \o (last \o <<word>>)
    <3>1. <<word>> \in Seq(Word)
      BY <1>0
    <3> QED
      BY <2>2, <2>8, <3>1, ConcatAssociative, SMTT(30)
  <2> QED
    BY <2>3, <2>4, <2>5, <2>6, <2>7, <2>9 DEF U
<1>2. CASE ~ (pieces # << >> /\ LengthOf(Append(last, word)) <= max_chars)
  <2>1. Packed(pieces, word, max_chars) = Append(pieces, <<word>>)
    BY <1>2 DEF Packed
  <2> HIDE DEF U
  <2>2. Append(pieces, <<word>>) \in Seq(U)
    BY <1>0 DEF U
  <2>3. FlattenSeq(Append(pieces, <<word>>)) = FlattenSeq(pieces) \o <<word>>
    BY <1>0, FlattenAppend
  <2> QED
    BY <2>1, <2>2, <2>3 DEF U
<1> QED
  BY <1>1, <1>2

LEMMA SplitIsAChain ==
  ASSUME NEW max_chars \in Nat, NEW words \in Seq(Word)
  PROVE  \E f \in [0 .. Len(words) -> Seq(Units(max_chars))] :
           /\ f[0] = << >>
           /\ \A n \in 1 .. Len(words) : f[n] = Packed(f[n - 1], words[n], max_chars)
           /\ _split_long(words, max_chars) = f[Len(words)]
<1> DEFINE N == Len(words)
           S == Seq(Units(max_chars))
           base == << >>
           step == [p \in S \X (1 .. N) |-> Packed(p[1], words[p[2]], max_chars)]
           P(f) == f = [n \in 0 .. N |-> IF n = 0 THEN << >> ELSE Packed(f[n - 1], words[n], max_chars)]
<1>1. N \in Nat /\ base \in S /\ \A n \in 1 .. N : words[n] \in Word
  OBVIOUS
<1>2. \A s \in S, n \in 1 .. N : Packed(s, words[n], max_chars) \in S
  BY <1>1, PackedUnits
<1>3. step \in [S \X (1 .. N) -> S]
  <2> HIDE DEF N, S
  <2> QED
    BY <1>2
<1>4. PICK f \in [0 .. N -> S] : Recurs(f, N, base, step)
  <2> HIDE DEF step, N, S, base
  <2> QED
    BY <1>1, <1>3, Recursion
<1>5. ASSUME NEW n \in 1 .. N PROVE f[n] = Packed(f[n - 1], words[n], max_chars)
  <2> HIDE DEF N, S
  <2>1. n - 1 \in 0 .. N
    BY <1>1
  <2>2. <<f[n - 1], n>> \in S \X (1 .. N)
    BY <2>1
  <2>3. f[n] = step[<<f[n - 1], n>>]
    BY <1>4 DEF Recurs
  <2> QED
    BY <2>2, <2>3
<1>6. P(f)
  <2>1. ASSUME NEW n \in 0 .. N, n # 0 PROVE f[n] = Packed(f[n - 1], words[n], max_chars)
    <3>1. n \in 1 .. N
      BY <1>1, <2>1
    <3> QED
      BY <1>5, <3>1
  <2>2. f[0] = << >>
    BY <1>4 DEF Recurs
  <2> HIDE DEF N
  <2> QED
    BY <2>1, <2>2
<1> DEFINE g == CHOOSE h : P(h)
<1>7. P(g)
  <2> HIDE DEF P
  <2> QED
    BY <1>6
<1>8. _split_long(words, max_chars) = g[N]
  BY DEF _split_long
<1> HIDE DEF g, N
<1>9. g[0] = << >> /\ DOMAIN g = 0 .. N /\ g = [n \in 0 .. N |-> g[n]]
  BY <1>1, <1>7
<1>10. ASSUME NEW n \in 1 .. N PROVE g[n] = Packed(g[n - 1], words[n], max_chars)
  <2>1. n \in 0 .. N /\ n # 0
    BY <1>1
  <2> QED
    BY <2>1, <1>7
<1>11. \A n \in 0 .. N : g[n] \in S
  <2>1. \A n \in 1 .. N : g[n - 1] \in S => g[n] \in S
    BY <1>2, <1>10
  <2>2. N \in Nat /\ g[0] \in S
    BY <1>1, <1>9
  <2> HIDE DEF S
  <2> QED
    BY <2>1, <2>2, RecursionType
<1>12. g \in [0 .. N -> S]
  BY <1>9, <1>11
<1> QED
  BY <1>8, <1>9, <1>10, <1>12 DEF N

\* A text is cut into units that are, end to end, the text.
LEMMA SplitIsWhole ==
  ASSUME NEW max_chars \in Nat, NEW words \in Seq(Word)
  PROVE  /\ _split_long(words, max_chars) \in Seq(Units(max_chars))
         /\ FlattenSeq(_split_long(words, max_chars)) = words
<1> DEFINE N == Len(words)
           S == Seq(Units(max_chars))
<1>1. PICK f \in [0 .. N -> S] :
        /\ f[0] = << >>
        /\ \A n \in 1 .. N : f[n] = Packed(f[n - 1], words[n], max_chars)
        /\ _split_long(words, max_chars) = f[N]
  BY SplitIsAChain
<1>0. N \in Nat /\ (\A n \in 1 .. N : words[n] \in Word) /\ N \in 0 .. N
  OBVIOUS
<1> DEFINE T == {n \in 0 .. N : FlattenSeq(f[n]) = SubSeq(words, 1, n)}
<1>2. 0 \in T
  <2>1. SubSeq(words, 1, 0) = << >>
    BY SubSeqEmpty
  <2> QED
    BY <1>0, <1>1, <2>1, FlattenEmpty
<1>3. ASSUME NEW n \in 0 .. N, n \in T, n < N PROVE n + 1 \in T
  <2>1. n + 1 \in 1 .. N /\ n + 1 \in 0 .. N /\ (n + 1) - 1 = n /\ 1 \in 1 .. N
    BY <1>0, <1>3
  <2>2. SubSeq(words, 1, n + 1) = SubSeq(words, 1, n) \o <<words[n + 1]>>
    BY <2>1, SubSeqRecursiveSecond
  <2>3. f[n] \in S /\ f[n + 1] = Packed(f[n], words[n + 1], max_chars)
    BY <1>1, <2>1
  <2>4. FlattenSeq(f[n + 1]) = FlattenSeq(f[n]) \o <<words[n + 1]>>
    <3> DEFINE g == f[n]
               w == words[n + 1]
    <3>1. g \in Seq(Units(max_chars)) /\ w \in Word
      BY <1>0, <2>1, <2>3
    <3> HIDE DEF g, w
    <3>2. FlattenSeq(Packed(g, w, max_chars)) = FlattenSeq(g) \o <<w>>
      BY <3>1, PackedUnits
    <3> QED
      BY <2>3, <3>2 DEF g, w
  <2> HIDE DEF N
  <2> QED
    BY <1>3, <2>1, <2>2, <2>4
<1>4. N \in T
  <2> HIDE DEF T, N
  <2>1. 0 .. N \subseteq T
    BY <1>0, <1>2, <1>3, Induction
  <2> QED
    BY <1>0, <2>1
<1>5. SubSeq(words, 1, N) = words
  BY SubSeqFull
<1> QED
  BY <1>0, <1>1, <1>4, <1>5

\* The units of a paragraph are, end to end, its sentences.
LEMMA UnitsAreWhole ==
  ASSUME NEW max_chars \in Nat, NEW paragraph \in Paragraph
  PROVE  /\ _units(paragraph, max_chars) \in Seq(Units(max_chars))
         /\ FlattenSeq(_units(paragraph, max_chars)) = FlattenSeq(paragraph.sentences)
<1> DEFINE sentences == paragraph.sentences
           whole == FlattenSeq(sentences)
           U == Units(max_chars)
           parts == [i \in DOMAIN sentences |-> Parts(sentences[i], max_chars)]
<1>0. /\ sentences \in Seq(Seq(Word) \ {<< >>}) /\ sentences # << >> /\ sentences \in Seq(Seq(Word))
      /\ U \subseteq Seq(Word)
  <2>1. sentences \in Seq(Seq(Word) \ {<< >>}) /\ sentences # << >>
    BY DEF Paragraph
  <2>2. (Seq(Word) \ {<< >>}) \subseteq Seq(Word)
    OBVIOUS
  <2> QED
    BY <2>1, <2>2, SeqMonotonic DEF Units
<1>1. whole \in Seq(Word) /\ whole # << >>
  <2>1. /\ Front(sentences) \in Seq(Seq(Word) \ {<< >>}) /\ Last(sentences) \in Seq(Word) \ {<< >>}
        /\ sentences = Append(Front(sentences), Last(sentences))
    BY <1>0, FrontAndLast
  <2>2. Front(sentences) \in Seq(Seq(Word))
    BY <1>0, FrontAndLast
  <2>3. whole = FlattenSeq(Front(sentences)) \o Last(sentences)
    BY <2>1, <2>2, FlattenAppend
  <2>4. FlattenSeq(Front(sentences)) \in Seq(Word)
    BY <2>2, FlattenType
  <2> QED
    BY <2>1, <2>3, <2>4, ConcatEqualIffEmpty
<1>2. CASE LengthOf(whole) <= max_chars
  <2>1. _units(paragraph, max_chars) = <<whole>>
    BY <1>2 DEF _units
  <2>2. whole \in U
    BY <1>1, <1>2 DEF Units, Limited
  <2>3. FlattenSeq(<<whole>>) = whole
    BY <1>1, FlattenOne
  <2> HIDE DEF whole, U
  <2>4. <<whole>> \in Seq(U)
    BY <2>2
  <2> QED
    BY <2>1, <2>3, <2>4 DEF U, whole
<1>3. CASE ~ (LengthOf(whole) <= max_chars)
  <2>1. _units(paragraph, max_chars) = FlattenSeq(parts)
    BY <1>3 DEF _units
  <2>2. ASSUME NEW i \in DOMAIN sentences
        PROVE  Parts(sentences[i], max_chars) \in Seq(U) /\ FlattenSeq(Parts(sentences[i], max_chars)) = sentences[i]
    <3> DEFINE s == sentences[i]
    <3>1. s \in Seq(Word) /\ s # << >>
      BY <1>0
    <3>2. CASE LengthOf(s) <= max_chars
      <4>1. Parts(s, max_chars) = <<s>>
        BY <3>2 DEF Parts
      <4>2. s \in U
        BY <3>1, <3>2 DEF Units, Limited
      <4>3. FlattenSeq(<<s>>) = s
        BY <3>1, FlattenOne
      <4> HIDE DEF s, U
      <4>4. <<s>> \in Seq(U)
        BY <4>2
      <4> QED
        BY <4>1, <4>3, <4>4 DEF s
    <3>3. CASE ~ (LengthOf(s) <= max_chars)
      <4>1. Parts(s, max_chars) = _split_long(s, max_chars)
        BY <3>3 DEF Parts
      <4> QED
        BY <3>1, <4>1, SplitIsWhole
    <3> QED
      BY <3>2, <3>3
  <2>3. parts \in Seq(Seq(U)) /\ Len(parts) = Len(sentences) /\ \A i \in 1 .. Len(sentences) : parts[i] = Parts(sentences[i], max_chars)
    <3>1. DOMAIN sentences = 1 .. Len(sentences) /\ Len(sentences) \in Nat
      BY <1>0
    <3> HIDE DEF sentences, U
    <3>2. parts \in [1 .. Len(sentences) -> Seq(U)]
      BY <2>2, <3>1
    <3> QED
      BY <3>1, <3>2
  <2>4. \A i \in 1 .. Len(sentences) : FlattenSeq(parts[i]) = sentences[i]
    BY <1>0, <2>2, <2>3
  <2>5. parts \in Seq(Seq(Seq(Word)))
    <3>1. Seq(U) \subseteq Seq(Seq(Word))
      BY <1>0, SeqMonotonic
    <3> HIDE DEF U, parts
    <3> QED
      BY <2>3, <3>1, SeqMonotonic
  <2> HIDE DEF parts, sentences, U
  <2>6. FlattenSeq(parts) \in Seq(U)
    BY <2>3, FlattenType
  <2>7. FlattenSeq(FlattenSeq(parts)) = FlattenSeq(sentences)
    BY <1>0, <2>3, <2>4, <2>5, FlattenParts
  <2> QED
    BY <2>1, <2>6, <2>7 DEF U, sentences
<1> QED
  BY <1>2, <1>3

-----------------------------------------------------------------------------
(* What a chunk carries. *)

LEMMA FirstIsLeast ==
  ASSUME NEW I, I \subseteq Nat, I # {}
  PROVE  /\ (CHOOSE i \in I : \A j \in I : i <= j) \in I
         /\ \A j \in I : (CHOOSE i \in I : \A k \in I : i <= k) <= j
BY LeastNumber

\* The end of a text is not longer than it may be.
LEMMA TailIsShort ==
  ASSUME NEW words \in Seq(Word), NEW overlap \in Nat
  PROVE  _tail(words, overlap) \in Seq(Word) /\ LengthOf(_tail(words, overlap)) <= overlap
<1> DEFINE N == Len(words)
           Rest(i) == SubSeq(words, i, N)
           First(I) == CHOOSE i \in I : \A j \in I : i <= j
           spaced == {i \in DOMAIN words : ~ words[i].nl /\ LengthOf(Rest(i)) < overlap}
           whole == {i \in DOMAIN words : LengthOf(Rest(i)) <= overlap}
           next == IF whole = {} THEN N + 1 ELSE First(whole)
           left == overlap - LengthOf(Rest(next)) - (IF whole = {} THEN 0 ELSE 1)
           cut == [words[next - 1] EXCEPT !.length = left]
           tail == _tail(words, overlap)
<1>0. N \in Nat /\ DOMAIN words = 1 .. N /\ \A n \in 1 .. N : words[n] \in Word
  OBVIOUS
<1>1. ASSUME NEW i \in 1 .. N + 1
      PROVE  Rest(i) \in Seq(Word) /\ LengthOf(Rest(i)) \in Nat
  <2>1. Rest(i) \in Seq(Word)
    BY <1>0
  <2> QED
    BY <2>1, LengthType
<1>2. CASE overlap <= 0
  <2>1. tail = << >>
    BY <1>2 DEF _tail
  <2> QED
    BY <1>2, <2>1, LengthOfFew
<1>3. CASE ~ (overlap <= 0) /\ LengthOf(words) <= overlap
  <2>1. tail = words
    BY <1>3 DEF _tail
  <2> QED
    BY <1>3, <2>1
<1>4. CASE ~ (overlap <= 0) /\ ~ (LengthOf(words) <= overlap) /\ spaced # {}
  <2>1. tail = Rest(First(spaced))
    BY <1>4 DEF _tail
  <2>2. spaced \subseteq Nat /\ spaced \subseteq 1 .. N + 1
    BY <1>0
  <2>3. First(spaced) \in spaced
    <3> HIDE DEF spaced
    <3> QED
      BY <1>4, <2>2, FirstIsLeast
  <2> DEFINE i == First(spaced)
  <2> HIDE DEF First
  <2>4. LengthOf(Rest(i)) < overlap
    BY <2>3
  <2>5. i \in 1 .. N + 1
    BY <2>2, <2>3
  <2> DEFINE rest == Rest(i)
  <2>6. tail = rest /\ rest \in Seq(Word) /\ LengthOf(rest) \in Nat /\ LengthOf(rest) < overlap
    <3> HIDE DEF i, tail
    <3>1. tail = Rest(i)
      BY <2>1 DEF i
    <3>2. LengthOf(Rest(i)) < overlap
      BY <2>4 DEF i
    <3> QED
      BY <1>1, <2>5, <3>1, <3>2
  <2> HIDE DEF rest, tail
  <2>7. tail \in Seq(Word) /\ LengthOf(tail) <= overlap
    BY <2>6
  <2> QED
    BY <2>7 DEF tail
<1>5. CASE ~ (overlap <= 0) /\ ~ (LengthOf(words) <= overlap) /\ spaced = {}
  <2>1. tail = IF left < 0 THEN Rest(next) ELSE <<cut>> \o Rest(next)
    BY <1>5 DEF _tail
  <2>2. LengthOf(words) \in Nat /\ LengthOf(words) > overlap
    <3>1. LengthOf(words) \in Nat
      BY LengthType
    <3> QED
      BY <1>5, <3>1
  <2>3. words # << >> /\ N # 0
    <3>1. LengthOf(<< >>) = 0
      BY LengthOfFew
    <3>2. words # << >>
      BY <2>2, <3>1
    <3> QED
      BY <3>2, EmptySeq
  <2>4. CASE whole = {}
    <3>1. next = N + 1
      BY <2>4
    <3>2. Rest(N + 1) = << >>
      BY <1>0, SubSeqEmpty
    <3>3. left = overlap
      <4>1. Rest(next) = << >>
        <5> HIDE DEF next
        <5> QED
          BY <3>1, <3>2
      <4>2. left = overlap - LengthOf(Rest(next)) - 0
        BY <2>4
      <4> HIDE DEF next, left
      <4> QED
        BY <4>1, <4>2, LengthOfFew
    <3>4. next - 1 = N /\ words[N] \in Word
      <4> HIDE DEF next, N
      <4> QED
        BY <1>0, <2>3, <3>1
    <3>5. cut \in Word /\ cut.length = overlap
      <4> DEFINE w == words[N]
      <4>1. cut = [w EXCEPT !.length = overlap]
        BY <3>3, <3>4
      <4>2. w \in Word
        BY <3>4
      <4> HIDE DEF cut, w
      <4> QED
        BY <4>1, <4>2 DEF Word
    <3>6. tail = <<cut>>
      <4>1. tail = <<cut>> \o << >>
        <5> HIDE DEF cut, tail, left, next
        <5>1. Rest(next) = << >>
          BY <3>1, <3>2
        <5>2. ~ (left < 0)
          BY <3>3
        <5> QED
          BY <2>1, <5>1, <5>2
      <4> HIDE DEF cut
      <4>2. <<cut>> \o << >> = <<cut>>
        BY <3>5, ConcatEmptySeq
      <4> QED
        BY <4>1, <4>2
    <3> HIDE DEF cut, tail
    <3>7. tail \in Seq(Word) /\ LengthOf(tail) = overlap
      BY <3>5, <3>6, LengthOfFew
    <3> QED
      BY <3>7 DEF tail
  <2>5. CASE whole # {}
    <3>1. next \in whole
      <4>1. whole \subseteq Nat
        BY <1>0
      <4>2. next = First(whole)
        BY <2>5
      <4> HIDE DEF whole, next
      <4> QED
        BY <2>5, <4>1, <4>2, FirstIsLeast
    <3> DEFINE n == next
               rest == Rest(n)
    <3>2. n \in 1 .. N /\ LengthOf(rest) <= overlap
      <4> HIDE DEF next
      <4> QED
        BY <1>0, <3>1
    <3>3. left = overlap - LengthOf(rest) - 1
      BY <2>5
    <3> HIDE DEF next, n
    <3>4. rest \in Seq(Word) /\ LengthOf(rest) \in Nat
      BY <1>0, <1>1, <3>2
    <3>5. n # 1
      <4>1. SubSeq(words, 1, N) = words
        BY SubSeqFull
      <4>2. SUFFICES ASSUME n = 1 PROVE FALSE
        OBVIOUS
      <4>3. rest = words
        BY <4>1, <4>2
      <4> HIDE DEF rest
      <4> QED
        BY <2>2, <3>2, <4>3
    <3>6. rest # << >>
      <4>1. Len(rest) = N - n + 1
        BY <1>0, <3>2
      <4>2. N - n + 1 # 0
        BY <1>0, <3>2
      <4> HIDE DEF rest
      <4> QED
        BY <3>4, <4>1, <4>2, EmptySeq
    <3>7. CASE left < 0
      <4>1. tail = rest
        BY <2>1, <3>7 DEF n
      <4> QED
        BY <3>2, <3>4, <4>1
    <3>8. CASE ~ (left < 0)
      <4> DEFINE w == words[n - 1]
                 v == [w EXCEPT !.length = overlap - LengthOf(rest) - 1]
      <4>1. tail = <<v>> \o rest
        BY <2>1, <3>3, <3>8 DEF n
      <4>2. w \in Word
        <5>1. n - 1 \in 1 .. N
          BY <1>0, <3>2, <3>5
        <5> QED
          BY <1>0, <5>1
      <4>3. overlap - LengthOf(rest) - 1 \in Nat
        BY <3>3, <3>4, <3>8
      <4> HIDE DEF rest, w
      <4>4. v \in Word /\ v.length = overlap - LengthOf(rest) - 1
        BY <4>2, <4>3 DEF Word
      <4> HIDE DEF v
      <4>5. <<v>> \in Seq(Word) \ {<< >>} /\ rest \in Seq(Word) \ {<< >>}
        BY <3>4, <3>6, <4>4
      <4>6. LengthOf(<<v>> \o rest) = LengthOf(<<v>>) + 1 + LengthOf(rest)
        BY <4>5, LengthOfBoth
      <4>7. LengthOf(<<v>>) = overlap - LengthOf(rest) - 1
        BY <4>4, LengthOfFew
      <4>8. LengthOf(<<v>> \o rest) = overlap
        <5> DEFINE x == LengthOf(rest)
                   y == LengthOf(<<v>>)
        <5> HIDE DEF x, y
        <5>1. x \in Nat /\ y = overlap - x - 1 /\ LengthOf(<<v>> \o rest) = y + 1 + x
          BY <3>4, <4>6, <4>7 DEF x, y
        <5> QED
          BY <5>1
      <4>9. <<v>> \o rest \in Seq(Word)
        BY <4>5
      <4> QED
        BY <4>1, <4>8, <4>9
    <3> QED
      BY <3>7, <3>8
  <2> QED
    BY <2>4, <2>5
<1> QED
  BY <1>2, <1>3, <1>4, <1>5

-----------------------------------------------------------------------------
(* Words that begin on a new line, and words of which this is forgotten. *)

Fresh(unit) == [i \in DOMAIN unit |-> [unit[i] EXCEPT !.nl = unit[i].nl \/ i = 1]]

LEMMA FreshIsPlain ==
  ASSUME NEW unit \in Seq(Word)
  PROVE  /\ Fresh(unit) \in Seq(Word) /\ Len(Fresh(unit)) = Len(unit)
         /\ LengthOf(Fresh(unit)) = LengthOf(unit)
         /\ Plain(Fresh(unit)) = Plain(unit)
<1> DEFINE N == Len(unit)
           fresh == Fresh(unit)
           at(i) == [unit[i] EXCEPT !.nl = unit[i].nl \/ i = 1]
<1>0. N \in Nat /\ DOMAIN unit = 1 .. N /\ \A i \in 1 .. N : unit[i] \in Word
  OBVIOUS
<1>1. fresh = [i \in 1 .. N |-> at(i)]
  BY <1>0 DEF Fresh
<1>2. ASSUME NEW i \in 1 .. N
      PROVE  at(i) \in Word /\ at(i).length = unit[i].length /\ [at(i) EXCEPT !.nl = FALSE] = [unit[i] EXCEPT !.nl = FALSE]
  <2> DEFINE w == unit[i]
             nl == unit[i].nl \/ i = 1
  <2>1. w \in Word /\ nl \in BOOLEAN /\ at(i) = [w EXCEPT !.nl = nl]
    BY <1>0
  <2> HIDE DEF w, nl, at
  <2>2. at(i) \in Word
    BY <2>1 DEF Word
  <2>3. at(i).length = w.length /\ [at(i) EXCEPT !.nl = FALSE] = [w EXCEPT !.nl = FALSE]
    BY <2>1 DEF Word
  <2> QED
    BY <2>2, <2>3 DEF w
<1> HIDE DEF at, fresh
<1>3. fresh \in [1 .. N -> Word]
  BY <1>1, <1>2
<1>4. fresh \in Seq(Word) /\ Len(fresh) = N /\ DOMAIN fresh = 1 .. N /\ \A i \in 1 .. N : fresh[i] = at(i)
  BY <1>0, <1>1, <1>3
<1>5. LengthOf(fresh) = LengthOf(unit)
  BY <1>2, <1>4, SameLength
<1>6. Plain(fresh) = Plain(unit)
  <2>1. Plain(fresh) = [i \in 1 .. N |-> [fresh[i] EXCEPT !.nl = FALSE]]
    BY <1>4 DEF Plain
  <2>2. Plain(unit) = [i \in 1 .. N |-> [unit[i] EXCEPT !.nl = FALSE]]
    BY <1>0 DEF Plain
  <2> QED
    BY <1>2, <1>4, <2>1, <2>2
<1> QED
  BY <1>4, <1>5, <1>6 DEF fresh

LEMMA PlainType ==
  ASSUME NEW words \in Seq(Word)
  PROVE  /\ Plain(words) \in Seq(Word) /\ Len(Plain(words)) = Len(words)
         /\ \A i \in 1 .. Len(words) : Plain(words)[i] = [words[i] EXCEPT !.nl = FALSE]
<1> DEFINE N == Len(words)
           plain == Plain(words)
<1>0. N \in Nat /\ DOMAIN words = 1 .. N /\ \A i \in 1 .. N : words[i] \in Word
  OBVIOUS
<1>1. plain = [i \in 1 .. N |-> [words[i] EXCEPT !.nl = FALSE]]
  BY <1>0 DEF Plain
<1>2. \A w \in Word : [w EXCEPT !.nl = FALSE] \in Word
  BY DEF Word
<1> HIDE DEF plain
<1>3. plain \in [1 .. N -> Word]
  BY <1>0, <1>1, <1>2
<1>4. plain \in Seq(Word) /\ Len(plain) = N /\ \A i \in 1 .. N : plain[i] = [words[i] EXCEPT !.nl = FALSE]
  BY <1>0, <1>1, <1>3
<1> QED
  BY <1>4 DEF plain

LEMMA PlainOfBoth ==
  ASSUME NEW a \in Seq(Word), NEW b \in Seq(Word)
  PROVE  Plain(a \o b) = Plain(a) \o Plain(b)
<1> DEFINE M == Len(a)
           N == Len(b)
           both == a \o b
           plain == Plain(both)
           p == Plain(a)
           q == Plain(b)
<1>0. /\ M \in Nat /\ N \in Nat /\ both \in Seq(Word) /\ Len(both) = M + N
      /\ \A i \in 1 .. M + N : both[i] = IF i <= M THEN a[i] ELSE b[i - M]
  BY ConcatProperties
<1>1. p \in Seq(Word) /\ Len(p) = M /\ \A i \in 1 .. M : p[i] = [a[i] EXCEPT !.nl = FALSE]
  BY PlainType
<1>2. q \in Seq(Word) /\ Len(q) = N /\ \A i \in 1 .. N : q[i] = [b[i] EXCEPT !.nl = FALSE]
  BY PlainType
<1> HIDE DEF both, p, q
<1>3. plain \in Seq(Word) /\ Len(plain) = M + N /\ \A i \in 1 .. M + N : plain[i] = [both[i] EXCEPT !.nl = FALSE]
  BY <1>0, PlainType
<1> HIDE DEF plain
<1>4. /\ p \o q \in Seq(Word) /\ Len(p \o q) = M + N
      /\ \A i \in 1 .. M + N : (p \o q)[i] = IF i <= M THEN p[i] ELSE q[i - M]
  <2> HIDE DEF M, N
  <2>1. /\ p \o q \in Seq(Word) /\ Len(p \o q) = Len(p) + Len(q)
        /\ \A i \in 1 .. Len(p) + Len(q) : (p \o q)[i] = IF i <= Len(p) THEN p[i] ELSE q[i - Len(p)]
    <3>1. p \in Seq(Word) /\ q \in Seq(Word)
      BY <1>1, <1>2
    <3> QED
      BY <3>1, ConcatProperties
  <2> QED
    BY <1>1, <1>2, <2>1
<1>5. ASSUME NEW i \in 1 .. M + N PROVE plain[i] = (p \o q)[i]
  <2>1. CASE i <= M
    <3>1. i \in 1 .. M
      BY <1>0, <2>1
    <3> QED
      BY <1>0, <1>1, <1>3, <1>4, <2>1, <3>1
  <2>2. CASE ~ (i <= M)
    <3>1. i - M \in 1 .. N
      BY <1>0, <2>2
    <3> HIDE DEF M, N
    <3>2. (p \o q)[i] = q[i - M]
      BY <1>4, <2>2
    <3> QED
      BY <1>0, <1>2, <1>3, <2>2, <3>1, <3>2
  <2> QED
    BY <2>1, <2>2
<1>6. plain = p \o q
  <2> HIDE DEF M, N
  <2> DEFINE r == p \o q
  <2>1. r \in Seq(Word) /\ Len(plain) = Len(r) /\ \A i \in 1 .. Len(plain) : plain[i] = r[i]
    BY <1>3, <1>4, <1>5
  <2> HIDE DEF r
  <2>2. plain = r
    BY <1>3, <2>1, SeqEqual
  <2> QED
    BY <2>2 DEF r
<1> QED
  BY <1>6 DEF plain, p, q, both

LEMMA EndOf ==
  ASSUME NEW S, NEW s \in Seq(S), NEW k \in 0 .. Len(s)
  PROVE  /\ SubSeq(s, k + 1, Len(s)) \in Seq(S) /\ Len(SubSeq(s, k + 1, Len(s))) = Len(s) - k
         /\ \A i \in 1 .. Len(s) - k : SubSeq(s, k + 1, Len(s))[i] = s[k + i]
<1> DEFINE M == k + 1
           N == Len(s)
           x == SubSeq(s, M, N)
<1>0. N \in Nat /\ k \in Nat /\ k <= N /\ M = k + 1 /\ \A i \in 1 .. N : s[i] \in S
  OBVIOUS
<1>1. M \in Int /\ N \in Int /\ \A i \in M .. N : s[i] \in S
  BY <1>0
<1> HIDE DEF M, N
<1>2. /\ x \in Seq(S) /\ Len(x) = IF M <= N THEN N - M + 1 ELSE 0
      /\ \A i \in 1 .. N - M + 1 : x[i] = s[M + i - 1]
  BY <1>1, SubSeqProperties
<1> HIDE DEF x
<1>3. N - M + 1 = N - k /\ \A i \in 1 .. N - k : M + i - 1 = k + i
  BY <1>0
<1>4. (IF M <= N THEN N - M + 1 ELSE 0) = N - k
  BY <1>0
<1>5. x \in Seq(S) /\ Len(x) = N - k /\ \A i \in 1 .. N - k : x[i] = s[k + i]
  BY <1>2, <1>3, <1>4
<1> QED
  BY <1>5 DEF x, M, N

\* The two ends of a sequence to which another is added.
LEMMA EndsOfBoth ==
  ASSUME NEW S, NEW a \in Seq(S), NEW b \in Seq(S), NEW k \in 0 .. Len(a)
  PROVE  /\ SubSeq(a \o b, 1, k) = SubSeq(a, 1, k)
         /\ SubSeq(a \o b, k + 1, Len(a \o b)) = SubSeq(a, k + 1, Len(a)) \o b
<1> DEFINE M == Len(a)
           N == Len(b)
           both == a \o b
<1>0. /\ M \in Nat /\ N \in Nat /\ both \in Seq(S) /\ Len(both) = M + N
      /\ \A i \in 1 .. M + N : both[i] = IF i <= M THEN a[i] ELSE b[i - M]
  BY ConcatProperties
<1>1. k \in Nat /\ k <= M
  BY <1>0
<1>2. SubSeq(both, 1, k) = SubSeq(a, 1, k)
  <2>1. CASE k = 0
    BY <2>1, SubSeqEmpty
  <2>2. CASE k # 0
    <3>1. 1 \in 1 .. M /\ k \in 1 .. M
      BY <1>0, <1>1, <2>2
    <3> QED
      BY <3>1, SubSeqOfConcat1
  <2> QED
    BY <2>1, <2>2
<1> DEFINE x == SubSeq(both, k + 1, M + N)
           y == SubSeq(a, k + 1, M)
           z == y \o b
<1>3. /\ x \in Seq(S) /\ Len(x) = M + N - k
      /\ \A i \in 1 .. M + N - k : x[i] = both[k + i]
  <2> HIDE DEF both
  <2>1. k \in 0 .. Len(both)
    BY <1>0, <1>1
  <2> DEFINE w == SubSeq(both, k + 1, Len(both))
  <2>2. /\ w \in Seq(S) /\ Len(w) = Len(both) - k
        /\ \A i \in 1 .. Len(both) - k : w[i] = both[k + i]
    BY <1>0, <2>1, EndOf
  <2>3. x = w
    BY <1>0
  <2> HIDE DEF x, w
  <2> QED
    BY <1>0, <2>2, <2>3
<1>4. /\ y \in Seq(S) /\ Len(y) = M - k
      /\ \A i \in 1 .. M - k : y[i] = a[k + i]
  BY EndOf
<1> HIDE DEF x, y
<1>5. /\ z \in Seq(S) /\ Len(z) = M - k + N
      /\ \A i \in 1 .. M - k + N : z[i] = IF i <= M - k THEN y[i] ELSE b[i - (M - k)]
  <2> HIDE DEF M, N
  <2>1. b \in Seq(S) /\ Len(b) = N
    BY DEF N
  <2>2. /\ z \in Seq(S) /\ Len(z) = Len(y) + Len(b)
        /\ \A i \in 1 .. Len(y) + Len(b) : z[i] = IF i <= Len(y) THEN y[i] ELSE b[i - Len(y)]
    BY <1>4, <2>1, ConcatProperties
  <2> HIDE DEF z
  <2> QED
    BY <1>4, <2>1, <2>2
<1> HIDE DEF z, both, M, N
<1>6. ASSUME NEW i \in 1 .. M + N - k PROVE x[i] = z[i]
  <2>1. k + i \in 1 .. M + N /\ i \in 1 .. M - k + N /\ x[i] = both[k + i]
    BY <1>0, <1>1, <1>3
  <2>2. CASE i <= M - k
    <3>1. i \in 1 .. M - k /\ k + i <= M
      BY <1>0, <1>1, <2>2
    <3> QED
      BY <1>0, <1>4, <1>5, <2>1, <2>2, <3>1
  <2>3. CASE ~ (i <= M - k)
    <3>1. ~ (k + i <= M) /\ (k + i) - M = i - (M - k)
      BY <1>0, <1>1, <2>3
    <3> QED
      BY <1>0, <1>5, <2>1, <2>3, <3>1
  <2> QED
    BY <2>2, <2>3
<1>7. x = z
  <2>1. Len(x) = Len(z) /\ M - k + N = M + N - k
    BY <1>0, <1>1, <1>3, <1>5
  <2> QED
    BY <1>3, <1>5, <1>6, <2>1, SeqEqual
<1>8. SubSeq(both, k + 1, Len(both)) = z
  BY <1>0, <1>7 DEF x
<1> QED
  BY <1>2, <1>8 DEF both, z, y, M

-----------------------------------------------------------------------------
(* Chunks. *)

Section == STRING \union {""}

Buffer ==
  {c \in [page : Nat, section : Section, words : Seq(Word), carried : Nat] : c.carried <= Len(c.words)}

\* What a chunk carries is not too long, and neither is the chunk.
Held(c, max_chars, overlap) ==
  Limited(c.words, max_chars) /\ LengthOf(SubSeq(c.words, 1, c.carried)) <= overlap

\* Every chunk is on one of the pages, and carries the end of the one before.
Good(cuts, pages, max_chars, overlap) ==
  \A i \in 1 .. Len(cuts) :
    /\ cuts[i].page \in pages /\ Held(cuts[i], max_chars, overlap)
    /\ cuts[i].carried > 0 =>
         i > 1 /\ cuts[i - 1].page = cuts[i].page /\ cuts[i - 1].section = cuts[i].section

LEMMA BufferParts ==
  ASSUME NEW c \in Buffer
  PROVE  /\ c.page \in Nat /\ c.section \in Section /\ c.words \in Seq(Word) /\ c.carried \in 0 .. Len(c.words)
         /\ Own(c) \in Seq(Word)
         /\ c.words = << >> => c.carried = 0 /\ Own(c) = << >>
<1>1. /\ c.page \in Nat /\ c.section \in Section /\ c.words \in Seq(Word) /\ c.carried \in Nat
      /\ c.carried <= Len(c.words)
  BY DEF Buffer
<1> DEFINE words == c.words
           carried == c.carried
<1>2. words \in Seq(Word) /\ carried \in 0 .. Len(words) /\ Len(words) \in Nat
  BY <1>1
<1>3. Own(c) = SubSeq(words, carried + 1, Len(words))
  BY DEF Own
<1> HIDE DEF words, carried
<1>4. Own(c) \in Seq(Word)
  BY <1>2, <1>3, EndOf
<1>5. words = << >> => carried = 0 /\ Own(c) = << >>
  <2>1. ASSUME words = << >> PROVE carried = 0 /\ Len(words) = 0
    BY <1>2, <2>1
  <2>2. SubSeq(words, 1, 0) = << >>
    BY SubSeqEmpty
  <2> QED
    BY <1>3, <2>1, <2>2
<1> QED
  BY <1>1, <1>2, <1>4, <1>5 DEF words, carried

LEMMA EmptyBuffer ==
  ASSUME NEW page \in Nat, NEW section \in Section
  PROVE  LET c == _Buffer(page, section)
         IN  /\ c \in Buffer /\ c.page = page /\ c.section = section /\ c.words = << >> /\ c.carried = 0
             /\ Own(c) = << >>
<1> DEFINE c == _Buffer(page, section)
<1>1. c = [page |-> page, section |-> section, words |-> << >>, carried |-> 0]
  BY DEF _Buffer
<1>2. << >> \in Seq(Word) /\ Len(<< >>) = 0
  OBVIOUS
<1> HIDE DEF c
<1>3. c \in Buffer
  BY <1>1, <1>2 DEF Buffer
<1>4. c.page = page /\ c.section = section /\ c.words = << >> /\ c.carried = 0
  BY <1>1
<1>5. Own(c) = << >>
  BY <1>3, <1>4, BufferParts
<1> QED
  BY <1>3, <1>4, <1>5 DEF c

\* A buffer to which a unit is added.
LEMMA AddedBuffer ==
  ASSUME NEW c \in Buffer, NEW unit \in Seq(Word)
  PROVE  LET d == add(c, unit)
         IN  /\ d \in Buffer /\ d.page = c.page /\ d.section = c.section /\ d.carried = c.carried
             /\ d.words = c.words \o Fresh(unit)
             /\ SubSeq(d.words, 1, d.carried) = SubSeq(c.words, 1, c.carried)
             /\ Plain(Own(d)) = Plain(Own(c)) \o Plain(unit)
<1> DEFINE d == add(c, unit)
           fresh == Fresh(unit)
           words == c.words
           carried == c.carried
           longer == words \o fresh
<1>1. d = [c EXCEPT !.words = longer]
  BY DEF add, Fresh
<1>2. fresh \in Seq(Word) /\ Plain(fresh) = Plain(unit)
  BY FreshIsPlain
<1>3. words \in Seq(Word) /\ carried \in 0 .. Len(words) /\ Own(c) \in Seq(Word)
  BY BufferParts
<1>4. Own(c) = SubSeq(words, carried + 1, Len(words))
  BY DEF Own
<1> HIDE DEF fresh, words, carried, d
<1>5. /\ SubSeq(longer, 1, carried) = SubSeq(words, 1, carried)
      /\ SubSeq(longer, carried + 1, Len(longer)) = SubSeq(words, carried + 1, Len(words)) \o fresh
  BY <1>2, <1>3, EndsOfBoth
<1>6. longer \in Seq(Word) /\ Len(longer) = Len(words) + Len(fresh) /\ Len(fresh) \in Nat /\ Len(words) \in Nat
  BY <1>2, <1>3, ConcatProperties
<1> HIDE DEF longer
<1>7. d \in Buffer /\ d.page = c.page /\ d.section = c.section /\ d.carried = carried /\ d.words = longer
  <2>1. c \in [page : Nat, section : Section, words : Seq(Word), carried : Nat]
    BY DEF Buffer
  <2>2. /\ d \in [page : Nat, section : Section, words : Seq(Word), carried : Nat]
        /\ d.page = c.page /\ d.section = c.section /\ d.carried = carried /\ d.words = longer
    BY <1>1, <1>6, <2>1 DEF carried
  <2>3. carried <= Len(longer)
    BY <1>3, <1>6
  <2> QED
    BY <2>2, <2>3 DEF Buffer
<1>8. Own(d) = Own(c) \o fresh
  BY <1>4, <1>5, <1>7 DEF Own
<1>9. Plain(Own(d)) = Plain(Own(c)) \o Plain(unit)
  BY <1>2, <1>3, <1>8, PlainOfBoth
<1> QED
  BY <1>5, <1>7, <1>9 DEF d, words, carried, longer, fresh

\* A unit that fits in a buffer.
LEMMA AddedHeld ==
  ASSUME NEW max_chars \in Nat, NEW overlap \in Nat, NEW c \in Buffer, NEW unit \in Units(max_chars),
         LengthOf(SubSeq(c.words, 1, c.carried)) <= overlap,
         c.words = << >> \/ LengthOf(c.words) + LengthOf(unit) + 1 <= max_chars
  PROVE  Held(add(c, unit), max_chars, overlap)
<1> DEFINE d == add(c, unit)
           fresh == Fresh(unit)
           words == c.words
<1>0. unit \in Seq(Word) /\ unit # << >> /\ Limited(unit, max_chars)
  BY DEF Units
<1>1. d.words = words \o fresh /\ SubSeq(d.words, 1, d.carried) = SubSeq(c.words, 1, c.carried)
  BY <1>0, AddedBuffer
<1>2. /\ fresh \in Seq(Word) /\ Len(fresh) = Len(unit) /\ LengthOf(fresh) = LengthOf(unit)
      /\ fresh # << >>
  <2>1. fresh \in Seq(Word) /\ Len(fresh) = Len(unit) /\ LengthOf(fresh) = LengthOf(unit)
    BY <1>0, FreshIsPlain
  <2>2. Len(unit) # 0
    BY <1>0, EmptySeq
  <2> HIDE DEF fresh
  <2> QED
    BY <2>1, <2>2
<1>3. words \in Seq(Word)
  BY BufferParts
<1>4. Limited(d.words, max_chars)
  <2> HIDE DEF d, fresh, words
  <2>1. CASE words = << >>
    <3>1. d.words = fresh
      BY <1>1, <1>2, <2>1, ConcatEmptySeq
    <3> QED
      BY <1>0, <1>2, <3>1 DEF Limited
  <2>2. CASE words # << >>
    <3>1. LengthOf(words \o fresh) = LengthOf(words) + 1 + LengthOf(fresh)
      <4>1. words \in Seq(Word) \ {<< >>} /\ fresh \in Seq(Word) \ {<< >>}
        BY <1>2, <1>3, <2>2
      <4> QED
        BY <4>1, LengthOfBoth
    <3>2. LengthOf(words) + LengthOf(unit) + 1 <= max_chars
      BY <2>2 DEF words
    <3> DEFINE x == LengthOf(words)
               y == LengthOf(unit)
    <3>3. x \in Nat /\ y \in Nat
      BY <1>0, <1>3, LengthType
    <3>4. LengthOf(d.words) = x + 1 + y /\ x + y + 1 <= max_chars
      BY <1>1, <1>2, <3>1, <3>2
    <3> HIDE DEF x, y
    <3>5. x + 1 + y <= max_chars
      BY <3>3, <3>4
    <3> QED
      BY <3>4, <3>5 DEF Limited
  <2> QED
    BY <2>1, <2>2
<1> QED
  BY <1>1, <1>4 DEF Held

\* The buffer that follows a full one.
LEMMA CarryIsShort ==
  ASSUME NEW max_chars \in Nat, NEW overlap \in Nat, NEW full \in Buffer, NEW unit \in Units(max_chars)
  PROVE  LET e == Carry(full, unit, max_chars, overlap)
         IN  /\ e \in Buffer /\ e.page = full.page /\ e.section = full.section /\ Own(e) = << >>
             /\ LengthOf(SubSeq(e.words, 1, e.carried)) <= overlap
             /\ e.words = << >> \/ LengthOf(e.words) + LengthOf(unit) + 1 <= max_chars
<1> DEFINE e == Carry(full, unit, max_chars, overlap)
           empty == _Buffer(full.page, full.section)
           carry == _tail(full.words, overlap)
           d == add(empty, carry)
<1>0. unit \in Seq(Word) /\ LengthOf(unit) \in Nat
  <2>1. unit \in Seq(Word)
    BY DEF Units
  <2> QED
    BY <2>1, LengthType
<1>1. carry \in Seq(Word) /\ LengthOf(carry) <= overlap /\ LengthOf(carry) \in Nat
  <2>1. full.words \in Seq(Word)
    BY BufferParts
  <2>2. carry \in Seq(Word) /\ LengthOf(carry) <= overlap
    BY <2>1, TailIsShort
  <2> HIDE DEF carry
  <2> QED
    BY <2>2, LengthType
<1>2. /\ empty \in Buffer /\ empty.page = full.page /\ empty.section = full.section
      /\ empty.words = << >> /\ empty.carried = 0 /\ Own(empty) = << >>
  BY BufferParts, EmptyBuffer
<1> HIDE DEF empty, carry
<1>3. CASE carry # << >> /\ LengthOf(carry) + 1 + LengthOf(unit) <= max_chars
  <2>1. e = [d EXCEPT !.carried = Len(carry)]
    BY <1>3 DEF Carry, empty, carry
  <2>2. d \in Buffer /\ d.page = full.page /\ d.section = full.section /\ d.words = empty.words \o Fresh(carry)
    BY <1>1, <1>2, AddedBuffer
  <2>3. Fresh(carry) \in Seq(Word) /\ Len(Fresh(carry)) = Len(carry) /\ LengthOf(Fresh(carry)) = LengthOf(carry)
    BY <1>1, FreshIsPlain
  <2> DEFINE fresh == Fresh(carry)
  <2>4. d.words = fresh /\ fresh \in Seq(Word) /\ Len(fresh) = Len(carry) /\ LengthOf(fresh) = LengthOf(carry)
        /\ Len(fresh) \in Nat
    <3> HIDE DEF fresh
    <3>1. << >> \o fresh = fresh
      BY <2>3, ConcatEmptySeq DEF fresh
    <3> QED
      BY <1>2, <2>2, <2>3, <3>1 DEF fresh
  <2> HIDE DEF fresh, d, e
  <2>5. /\ e \in Buffer /\ e.page = full.page /\ e.section = full.section /\ e.words = fresh
        /\ e.carried = Len(fresh)
    <3>1. d \in [page : Nat, section : Section, words : Seq(Word), carried : Nat]
      BY <2>2 DEF Buffer
    <3>2. /\ e \in [page : Nat, section : Section, words : Seq(Word), carried : Nat]
          /\ e.page = d.page /\ e.section = d.section /\ e.words = fresh /\ e.carried = Len(fresh)
      BY <2>1, <2>4, <3>1
    <3> QED
      BY <2>2, <2>4, <3>2 DEF Buffer
  <2>6. Own(e) = << >>
    <3>1. SubSeq(fresh, Len(fresh) + 1, Len(fresh)) = << >>
      BY <2>4, SubSeqEmpty
    <3> QED
      BY <2>5, <3>1 DEF Own
  <2>7. SubSeq(e.words, 1, e.carried) = fresh
    BY <2>4, <2>5, SubSeqFull
  <2>8. LengthOf(e.words) + LengthOf(unit) + 1 <= max_chars
    <3> DEFINE x == LengthOf(carry)
               y == LengthOf(unit)
    <3>1. x \in Nat /\ y \in Nat /\ x + 1 + y <= max_chars /\ LengthOf(e.words) = x
      BY <1>0, <1>1, <1>3, <2>4, <2>5
    <3> HIDE DEF x, y
    <3>2. x + y + 1 <= max_chars
      BY <3>1
    <3> QED
      BY <3>1, <3>2 DEF y
  <2>9. LengthOf(SubSeq(e.words, 1, e.carried)) <= overlap
    BY <1>1, <2>4, <2>7
  <2> QED
    BY <2>5, <2>6, <2>8, <2>9 DEF e
<1>4. CASE ~ (carry # << >> /\ LengthOf(carry) + 1 + LengthOf(unit) <= max_chars)
  <2>1. e = empty
    BY <1>4 DEF Carry, empty, carry
  <2>2. SubSeq(<< >>, 1, 0) = << >>
    BY SubSeqEmpty
  <2>3. LengthOf(SubSeq(e.words, 1, e.carried)) <= overlap
    <3> HIDE DEF e
    <3>1. SubSeq(e.words, 1, e.carried) = << >>
      BY <1>2, <2>1, <2>2
    <3>2. LengthOf(<< >>) = 0
      BY LengthOfFew
    <3>3. 0 <= overlap
      OBVIOUS
    <3> QED
      BY <3>1, <3>2, <3>3, Zenon
  <2> QED
    BY <1>2, <2>1, <2>3
<1> QED
  BY <1>3, <1>4

-----------------------------------------------------------------------------
(* What cuts say of a page. *)

Share(n, c) == IF c.page = n THEN Own(c) ELSE << >>

\* The text of page n, as the chunks tell it.
Told(n, cuts) == Plain(AddedTo(n, cuts))

LEMMA ShareType == \A n \in Nat, c \in Buffer : Share(n, c) \in Seq(Word)
BY BufferParts DEF Share

LEMMA AddedAppend ==
  ASSUME NEW cuts \in Seq(Buffer), NEW c \in Buffer, NEW n \in Nat
  PROVE  /\ AddedTo(n, cuts) \in Seq(Word)
         /\ AddedTo(n, Append(cuts, c)) = AddedTo(n, cuts) \o Share(n, c)
<1> DEFINE N == Len(cuts)
           shares(s) == [i \in DOMAIN s |-> Share(n, s[i])]
           more == Append(cuts, c)
           a == shares(cuts)
           b == shares(more)
           s == Share(n, c)
<1>0. N \in Nat /\ DOMAIN cuts = 1 .. N /\ \A i \in 1 .. N : cuts[i] \in Buffer
  OBVIOUS
<1>1. /\ more \in Seq(Buffer) /\ Len(more) = N + 1 /\ DOMAIN more = 1 .. N + 1
      /\ more[N + 1] = c /\ \A i \in 1 .. N : more[i] = cuts[i]
  BY AppendProperties, LenProperties
<1>2. s \in Seq(Word)
  BY ShareType
<1>3. a \in Seq(Seq(Word)) /\ Len(a) = N /\ \A i \in 1 .. N : a[i] = Share(n, cuts[i])
  <2>1. \A i \in 1 .. N : Share(n, cuts[i]) \in Seq(Word)
    BY <1>0, ShareType
  <2>2. a = [i \in 1 .. N |-> Share(n, cuts[i])]
    BY <1>0
  <2> HIDE DEF a, N
  <2>3. a \in [1 .. N -> Seq(Word)]
    BY <2>1, <2>2
  <2> QED
    BY <1>0, <2>2, <2>3
<1> HIDE DEF more
<1>4. b = [i \in 1 .. N + 1 |-> Share(n, more[i])]
  BY <1>1
<1> HIDE DEF a, b, s, N
<1>5. b = Append(a, s)
  <2> DEFINE d == Append(a, s)
  <2>1. /\ d \in Seq(Seq(Word)) /\ Len(d) = N + 1 /\ d[N + 1] = s /\ \A i \in 1 .. N : d[i] = a[i]
    <3>1. /\ Append(a, s) \in Seq(Seq(Word)) /\ Len(Append(a, s)) = Len(a) + 1
          /\ \A i \in 1 .. Len(a) : Append(a, s)[i] = a[i]
          /\ Append(a, s)[Len(a) + 1] = s
      BY <1>2, <1>3, AppendProperties
    <3> QED
      BY <1>3, <3>1
  <2> HIDE DEF d
  <2>2. ASSUME NEW i \in 1 .. N + 1 PROVE b[i] = d[i]
    <3>1. CASE i = N + 1
      BY <1>1, <1>4, <2>1, <3>1 DEF s
    <3>2. CASE i # N + 1
      <4>1. i \in 1 .. N
        BY <1>0, <3>2
      <4> QED
        BY <1>1, <1>3, <1>4, <2>1, <4>1
    <3> QED
      BY <3>1, <3>2
  <2>3. d = [i \in 1 .. N + 1 |-> d[i]]
    BY <1>0, <2>1
  <2>4. b = d
    BY <1>4, <2>2, <2>3
  <2> QED
    BY <2>4 DEF d
<1>6. FlattenSeq(b) = FlattenSeq(a) \o s /\ FlattenSeq(a) \in Seq(Word)
  BY <1>2, <1>3, <1>5, FlattenAppend, FlattenType
<1>7. AddedTo(n, cuts) = FlattenSeq(a)
  BY DEF AddedTo, Share, a
<1>8. AddedTo(n, more) = FlattenSeq(b)
  BY DEF AddedTo, Share, b
<1> QED
  BY <1>6, <1>7, <1>8 DEF more, s

\* One more chunk adds its own words to its page.
LEMMA ToldAppend ==
  ASSUME NEW cuts \in Seq(Buffer), NEW c \in Buffer, NEW n \in Nat
  PROVE  /\ Told(n, cuts) \in Seq(Word)
         /\ Told(n, Append(cuts, c)) = Told(n, cuts) \o Plain(Share(n, c))
<1> DEFINE a == AddedTo(n, cuts)
           s == Share(n, c)
<1>1. s \in Seq(Word)
  BY ShareType
<1>2. a \in Seq(Word) /\ AddedTo(n, Append(cuts, c)) = a \o s
  BY AddedAppend
<1> HIDE DEF a, s
<1>3. Plain(a \o s) = Plain(a) \o Plain(s) /\ Plain(a) \in Seq(Word)
  BY <1>1, <1>2, PlainOfBoth, PlainType
<1> QED
  BY <1>2, <1>3 DEF Told, a, s

LEMMA PlainEmpty == Plain(<< >>) = << >>
<1>1. << >> \in Seq(Word) /\ Len(<< >>) = 0
  OBVIOUS
<1> DEFINE p == Plain(<< >>)
<1>2. p \in Seq(Word) /\ Len(p) = 0
  BY <1>1, PlainType
<1> HIDE DEF p
<1>3. p = << >>
  BY <1>2, EmptySeq
<1> QED
  BY <1>3 DEF p

\* A chunk without words of its own adds nothing.
LEMMA ToldNothing ==
  ASSUME NEW cuts \in Seq(Buffer), NEW c \in Buffer, NEW n \in Nat, Own(c) = << >>
  PROVE  Told(n, Append(cuts, c)) = Told(n, cuts)
<1>1. Share(n, c) = << >>
  BY DEF Share
<1>2. Told(n, cuts) \in Seq(Word) /\ Told(n, Append(cuts, c)) = Told(n, cuts) \o << >>
  BY <1>1, ToldAppend, PlainEmpty
<1> QED
  BY <1>2, ConcatEmptySeq

LEMMA GoodAppend ==
  ASSUME NEW pages, NEW max_chars, NEW overlap, NEW cuts \in Seq(Buffer), NEW c \in Buffer
  PROVE  Good(Append(cuts, c), pages, max_chars, overlap) <=>
           /\ Good(cuts, pages, max_chars, overlap)
           /\ c.page \in pages /\ Held(c, max_chars, overlap)
           /\ c.carried > 0 =>
                cuts # << >> /\ cuts[Len(cuts)].page = c.page /\ cuts[Len(cuts)].section = c.section
<1> DEFINE N == Len(cuts)
           more == Append(cuts, c)
           at(s, i) ==
             /\ s[i].page \in pages /\ Held(s[i], max_chars, overlap)
             /\ s[i].carried > 0 => i > 1 /\ s[i - 1].page = s[i].page /\ s[i - 1].section = s[i].section
<1>0. N \in Nat
  OBVIOUS
<1>1. Len(more) = N + 1 /\ more[N + 1] = c /\ \A i \in 1 .. N : more[i] = cuts[i]
  BY AppendProperties
<1>2. N > 0 <=> cuts # << >>
  BY EmptySeq
<1>3. Good(more, pages, max_chars, overlap) <=> \A i \in 1 .. N + 1 : at(more, i)
  BY <1>1 DEF Good
<1>4. Good(cuts, pages, max_chars, overlap) <=> \A i \in 1 .. N : at(cuts, i)
  BY DEF Good
<1> HIDE DEF N, more
<1>5. ASSUME NEW i \in 1 .. N PROVE at(more, i) <=> at(cuts, i)
  <2>1. more[i] = cuts[i]
    BY <1>1
  <2>2. i > 1 => more[i - 1] = cuts[i - 1]
    <3>1. i > 1 => i - 1 \in 1 .. N
      BY <1>0
    <3> QED
      BY <1>1, <3>1
  <2> QED
    BY <2>1, <2>2
<1>6. at(more, N + 1) <=>
        /\ c.page \in pages /\ Held(c, max_chars, overlap)
        /\ c.carried > 0 => cuts # << >> /\ cuts[N].page = c.page /\ cuts[N].section = c.section
  <2>1. (N + 1 > 1 <=> cuts # << >>) /\ (N + 1) - 1 = N
    BY <1>0, <1>2
  <2>2. cuts # << >> => more[(N + 1) - 1] = cuts[N]
    <3>1. cuts # << >> => N \in 1 .. N
      BY <1>0, <1>2
    <3> QED
      BY <1>1, <2>1, <3>1
  <2> QED
    BY <1>1, <2>1, <2>2
<1> HIDE DEF at
<1>7. (\A i \in 1 .. N + 1 : at(more, i)) <=> (\A i \in 1 .. N : at(cuts, i)) /\ at(more, N + 1)
  <2>1. 1 .. N + 1 = (1 .. N) \union {N + 1}
    BY <1>0
  <2> QED
    BY <1>5, <2>1
<1> QED
  BY <1>3, <1>4, <1>6, <1>7 DEF N, more

\* A buffer that is emitted is the last chunk, or has no words.
LEMMA EmitKeeps ==
  ASSUME NEW pages, NEW max_chars, NEW overlap, NEW cuts \in Seq(Buffer), NEW c \in Buffer,
         Good(Append(cuts, c), pages, max_chars, overlap)
  PROVE  /\ emit(cuts, c) \in Seq(Buffer)
         /\ Good(emit(cuts, c), pages, max_chars, overlap)
         /\ \A n \in Nat : Told(n, emit(cuts, c)) = Told(n, Append(cuts, c))
<1>1. CASE c.words = << >>
  <2>1. emit(cuts, c) = cuts
    BY <1>1 DEF emit
  <2>2. Own(c) = << >>
    BY <1>1, BufferParts
  <2>3. Good(cuts, pages, max_chars, overlap)
    BY GoodAppend
  <2>4. \A n \in Nat : Told(n, cuts) = Told(n, Append(cuts, c))
    BY <2>2, ToldNothing
  <2> QED
    BY <2>1, <2>3, <2>4
<1>2. CASE c.words # << >>
  <2>1. emit(cuts, c) = Append(cuts, c)
    BY <1>2 DEF emit
  <2>2. Append(cuts, c) \in Seq(Buffer)
    BY AppendProperties
  <2> QED
    BY <2>1, <2>2
<1> QED
  BY <1>1, <1>2

-----------------------------------------------------------------------------
(* A document that is being cut. *)

State == [chunks : Seq(Buffer), section : Section, buffer : Buffer]

All(s) == Append(s.chunks, s.buffer)

Safe(pages, max_chars, overlap) == {s \in State : Good(All(s), pages, max_chars, overlap)}

\* From s to t, these words are added to the page.
Grows(s, t, words) ==
  /\ t.buffer.page = s.buffer.page
  /\ \A n \in Nat :
       Told(n, All(t)) = Told(n, All(s)) \o (IF n = s.buffer.page THEN Plain(words) ELSE << >>)

LEMMA StateParts ==
  ASSUME NEW s \in State
  PROVE  /\ s.chunks \in Seq(Buffer) /\ s.section \in Section /\ s.buffer \in Buffer /\ s.buffer.page \in Nat
         /\ All(s) \in Seq(Buffer)
<1>1. s.chunks \in Seq(Buffer) /\ s.section \in Section /\ s.buffer \in Buffer
  BY DEF State
<1>2. All(s) \in Seq(Buffer)
  BY <1>1, AppendProperties DEF All
<1> QED
  BY <1>1, <1>2, BufferParts

LEMMA ToldType == ASSUME NEW cuts \in Seq(Buffer), NEW n \in Nat PROVE Told(n, cuts) \in Seq(Word)
<1>1. PICK c \in Buffer : TRUE
  <2>1. 0 \in Nat /\ "" \in Section
    BY DEF Section
  <2> QED
    BY <2>1, EmptyBuffer
<1> QED
  BY <1>1, ToldAppend

LEMMA GrowsTwice ==
  ASSUME NEW s \in State, NEW t, NEW u, NEW a \in Seq(Word), NEW b \in Seq(Word), Grows(s, t, a), Grows(t, u, b)
  PROVE  Grows(s, u, a \o b)
<1>1. u.buffer.page = s.buffer.page /\ t.buffer.page = s.buffer.page
  BY DEF Grows
<1> DEFINE share(n, w) == IF n = s.buffer.page THEN Plain(w) ELSE << >>
<1>2. ASSUME NEW n \in Nat PROVE Told(n, All(u)) = Told(n, All(s)) \o share(n, a \o b)
  <2> DEFINE told == Told(n, All(s))
             x == share(n, a)
             y == share(n, b)
  <2>1. Told(n, All(u)) = (told \o x) \o y
    BY <1>1 DEF Grows
  <2>2. told \in Seq(Word)
    BY StateParts, ToldType
  <2>3. x \in Seq(Word) /\ y \in Seq(Word)
    <3>1. Plain(a) \in Seq(Word) /\ Plain(b) \in Seq(Word) /\ << >> \in Seq(Word)
      BY PlainType
    <3> QED
      BY <3>1
  <2>4. share(n, a \o b) = x \o y
    <3>1. Plain(a \o b) = Plain(a) \o Plain(b)
      BY PlainOfBoth
    <3>2. << >> \o << >> = << >>
      BY <2>2, ConcatEmptySeq
    <3> QED
      BY <3>1, <3>2
  <2> HIDE DEF told, x, y, share
  <2>5. (told \o x) \o y = told \o (x \o y)
    BY <2>2, <2>3, ConcatAssociative, SMTT(30)
  <2> QED
    BY <2>1, <2>4, <2>5 DEF told
<1> QED
  BY <1>1, <1>2 DEF Grows

LEMMA EmptyHeld ==
  ASSUME NEW max_chars \in Nat, NEW overlap \in Nat, NEW page \in Nat, NEW section \in Section
  PROVE  Held(_Buffer(page, section), max_chars, overlap)
<1> DEFINE c == _Buffer(page, section)
<1>1. c.words = << >> /\ c.carried = 0
  BY EmptyBuffer
<1>2. SubSeq(<< >>, 1, 0) = << >> /\ LengthOf(<< >>) = 0
  BY SubSeqEmpty, LengthOfFew
<1> HIDE DEF c
<1>3. SubSeq(c.words, 1, c.carried) = << >>
  BY <1>1, <1>2
<1>4. 0 <= max_chars /\ 0 <= overlap
  OBVIOUS
<1>5. Held(c, max_chars, overlap)
  BY <1>1, <1>2, <1>3, <1>4, Zenon DEF Held, Limited
<1> QED
  BY <1>5 DEF c

\* A unit more.
LEMMA UnitGrows ==
  ASSUME NEW pages, NEW max_chars \in Nat, NEW overlap \in Nat,
         NEW s \in Safe(pages, max_chars, overlap), NEW unit \in Units(max_chars)
  PROVE  LET t == AddUnit(s, unit, max_chars, overlap)
         IN  t \in Safe(pages, max_chars, overlap) /\ Grows(s, t, unit)
<1> DEFINE t == AddUnit(s, unit, max_chars, overlap)
           cuts == s.chunks
           b == s.buffer
           page == b.page
<1>0. s \in State /\ Good(Append(cuts, b), pages, max_chars, overlap)
  BY DEF Safe, All
<1>1. cuts \in Seq(Buffer) /\ b \in Buffer /\ s.section \in Section /\ page \in Nat /\ unit \in Seq(Word)
  BY <1>0, StateParts DEF Units
<1>2. /\ Good(cuts, pages, max_chars, overlap)
      /\ page \in pages /\ Held(b, max_chars, overlap)
      /\ b.carried > 0 =>
           cuts # << >> /\ cuts[Len(cuts)].page = page /\ cuts[Len(cuts)].section = b.section
  <2> HIDE DEF cuts, b
  <2> QED
    BY <1>0, <1>1, GoodAppend
<1>3. Plain(unit) \in Seq(Word) /\ << >> \in Seq(Word)
  BY <1>1, PlainType
<1>4. CASE fits(b, unit, max_chars)
  <2> DEFINE d == add(b, unit)
  <2>1. t = [s EXCEPT !.buffer = d]
    BY <1>4 DEF AddUnit
  <2>2. d \in Buffer /\ d.page = page /\ d.section = b.section /\ d.carried = b.carried
        /\ Plain(Own(d)) = Plain(Own(b)) \o Plain(unit)
    BY <1>1, AddedBuffer
  <2>3. Held(d, max_chars, overlap)
    <3>1. LengthOf(SubSeq(b.words, 1, b.carried)) <= overlap
      BY <1>2 DEF Held
    <3>2. b.words = << >> \/ LengthOf(b.words) + LengthOf(unit) + 1 <= max_chars
      BY <1>4 DEF fits
    <3> QED
      BY <1>1, <3>1, <3>2, AddedHeld
  <2> HIDE DEF d, t
  <2>4. t \in State /\ t.chunks = cuts /\ t.buffer = d
    BY <1>0, <2>1, <2>2 DEF State
  <2>5. Good(Append(cuts, d), pages, max_chars, overlap)
    <3>1. d.page \in pages
      BY <1>2, <2>2
    <3>2. d.carried > 0 =>
            cuts # << >> /\ cuts[Len(cuts)].page = d.page /\ cuts[Len(cuts)].section = d.section
      BY <1>2, <2>2
    <3> HIDE DEF cuts, b
    <3> QED
      BY <1>1, <1>2, <2>2, <2>3, <3>1, <3>2, GoodAppend
  <2>6. ASSUME NEW n \in Nat
        PROVE  Told(n, Append(cuts, d)) = Told(n, Append(cuts, b)) \o (IF n = page THEN Plain(unit) ELSE << >>)
    <3> DEFINE told == Told(n, cuts)
               x == Plain(Share(n, b))
               y == IF n = page THEN Plain(unit) ELSE << >>
    <3>1. told \in Seq(Word) /\ x \in Seq(Word) /\ y \in Seq(Word)
      <4>1. Share(n, b) \in Seq(Word)
        BY <1>1, ShareType
      <4>2. x \in Seq(Word)
        BY <4>1, PlainType
      <4> QED
        BY <1>1, <1>3, <4>2, ToldType
    <3>2. Plain(Share(n, d)) = x \o y
      <4>1. CASE n = page
        BY <2>2, <4>1 DEF Share
      <4>2. CASE n # page
        <5>1. Share(n, d) = << >> /\ Share(n, b) = << >>
          BY <2>2, <4>2 DEF Share
        <5>2. << >> \o << >> = << >>
          BY <1>3, ConcatEmptySeq
        <5> QED
          BY <4>2, <5>1, <5>2, PlainEmpty
      <4> QED
        BY <4>1, <4>2
    <3>3. Told(n, Append(cuts, d)) = told \o Plain(Share(n, d)) /\ Told(n, Append(cuts, b)) = told \o x
      BY <1>1, <2>2, ToldAppend
    <3> HIDE DEF told, x, y
    <3>4. (told \o x) \o y = told \o (x \o y)
      BY <3>1, ConcatAssociative
    <3> QED
      BY <3>2, <3>3, <3>4 DEF y
  <2>7. All(t) = Append(cuts, d) /\ All(s) = Append(cuts, b)
    BY <2>4 DEF All
  <2>8. t \in Safe(pages, max_chars, overlap)
    BY <2>4, <2>5, <2>7 DEF Safe
  <2>9. Grows(s, t, unit)
    BY <2>2, <2>4, <2>6, <2>7 DEF Grows
  <2> QED
    BY <2>8, <2>9 DEF t
<1>5. CASE ~ fits(b, unit, max_chars)
  <2> DEFINE e == Carry(b, unit, max_chars, overlap)
             d == add(e, unit)
             all == Append(cuts, b)
  <2>1. t = [s EXCEPT !.chunks = emit(cuts, b), !.buffer = d]
    BY <1>5 DEF AddUnit
  <2>2. emit(cuts, b) = all
    BY <1>5 DEF emit, fits
  <2>3. /\ e \in Buffer /\ e.page = page /\ e.section = b.section /\ Own(e) = << >>
        /\ LengthOf(SubSeq(e.words, 1, e.carried)) <= overlap
        /\ e.words = << >> \/ LengthOf(e.words) + LengthOf(unit) + 1 <= max_chars
    BY <1>1, CarryIsShort
  <2> HIDE DEF e
  <2>4. /\ d \in Buffer /\ d.page = page /\ d.section = b.section
        /\ Plain(Own(d)) = Plain(unit)
    <3>1. d \in Buffer /\ d.page = page /\ d.section = b.section /\ Plain(Own(d)) = Plain(Own(e)) \o Plain(unit)
      BY <1>1, <2>3, AddedBuffer
    <3>2. << >> \o Plain(unit) = Plain(unit)
      BY <1>3, ConcatEmptySeq
    <3> QED
      BY <2>3, <3>1, <3>2, PlainEmpty
  <2>5. Held(d, max_chars, overlap)
    BY <1>1, <2>3, AddedHeld
  <2>6. all \in Seq(Buffer) /\ all # << >> /\ all[Len(all)] = b
    BY <1>1, AppendProperties
  <2> HIDE DEF d, t, all
  <2>7. t \in State /\ t.chunks = all /\ t.buffer = d
    BY <1>0, <2>1, <2>2, <2>4, <2>6 DEF State
  <2>8. Good(Append(all, d), pages, max_chars, overlap)
    <3>1. Good(all, pages, max_chars, overlap)
      BY <1>0 DEF all
    <3>2. d.page \in pages
      BY <1>2, <2>4
    <3> HIDE DEF cuts, b
    <3> QED
      BY <2>4, <2>5, <2>6, <3>1, <3>2, GoodAppend
  <2>9. ASSUME NEW n \in Nat
        PROVE  Told(n, Append(all, d)) = Told(n, all) \o (IF n = page THEN Plain(unit) ELSE << >>)
    <3>1. Told(n, Append(all, d)) = Told(n, all) \o Plain(Share(n, d))
      BY <2>4, <2>6, ToldAppend
    <3>2. Plain(Share(n, d)) = IF n = page THEN Plain(unit) ELSE << >>
      BY <2>4, PlainEmpty DEF Share
    <3> QED
      BY <3>1, <3>2
  <2>10. All(t) = Append(all, d) /\ All(s) = all
    BY <2>7 DEF All, all
  <2>11. t \in Safe(pages, max_chars, overlap)
    BY <2>7, <2>8, <2>10 DEF Safe
  <2>12. Grows(s, t, unit)
    BY <2>4, <2>7, <2>9, <2>10 DEF Grows
  <2> QED
    BY <2>11, <2>12 DEF t
<1> QED
  BY <1>4, <1>5

\* A title adds no words.
LEMMA TitleGrows ==
  ASSUME NEW pages, NEW max_chars \in Nat, NEW overlap \in Nat,
         NEW s \in Safe(pages, max_chars, overlap), NEW title \in Section
  PROVE  LET t == AddTitle(s, title)
         IN  t \in Safe(pages, max_chars, overlap) /\ Grows(s, t, << >>)
<1> DEFINE t == AddTitle(s, title)
           cuts == s.chunks
           b == s.buffer
           page == b.page
<1>0. s \in State /\ Good(Append(cuts, b), pages, max_chars, overlap)
  BY DEF Safe, All
<1>1. cuts \in Seq(Buffer) /\ b \in Buffer /\ page \in Nat /\ All(s) \in Seq(Buffer)
  BY <1>0, StateParts
<1>2. page \in pages
  BY <1>0, <1>1, GoodAppend
<1>3. \A n \in Nat : Told(n, All(s)) \in Seq(Word) /\ Told(n, All(s)) \o << >> = Told(n, All(s))
  BY <1>1, ToldType, ConcatEmptySeq
<1>4. CASE title = ""
  <2>1. t = s
    BY <1>4 DEF AddTitle
  <2> HIDE DEF t
  <2> QED
    BY <1>3, <2>1, PlainEmpty DEF Grows, t
<1>5. CASE title # ""
  <2> DEFINE c == _Buffer(page, title)
             all == emit(cuts, b)
  <2>1. t = [chunks |-> all, section |-> title, buffer |-> c]
    BY <1>5 DEF AddTitle
  <2>2. c \in Buffer /\ c.page = page /\ c.carried = 0 /\ Own(c) = << >> /\ Held(c, max_chars, overlap)
    BY <1>1, EmptyBuffer, EmptyHeld
  <2>3. /\ all \in Seq(Buffer) /\ Good(all, pages, max_chars, overlap)
        /\ \A n \in Nat : Told(n, all) = Told(n, Append(cuts, b))
    <3> HIDE DEF cuts, b
    <3> QED
      BY <1>0, <1>1, EmitKeeps
  <2> HIDE DEF c, all, t
  <2>4. t \in State /\ All(t) = Append(all, c) /\ t.buffer.page = page
    BY <2>1, <2>2, <2>3 DEF State, All
  <2>5. Good(Append(all, c), pages, max_chars, overlap)
    BY <1>2, <2>2, <2>3, GoodAppend
  <2>6. \A n \in Nat : Told(n, Append(all, c)) = Told(n, all)
    BY <2>2, <2>3, ToldNothing
  <2>7. Grows(s, t, << >>)
    <3>1. \A n \in Nat : Told(n, All(t)) = Told(n, All(s))
      BY <2>3, <2>4, <2>6 DEF All
    <3> QED
      BY <1>3, <2>4, <3>1, PlainEmpty DEF Grows
  <2> QED
    BY <2>4, <2>5, <2>7 DEF Safe, t
<1> QED
  BY <1>4, <1>5

-----------------------------------------------------------------------------
(* Paragraphs, pages and documents. *)

\* The states a paragraph goes through, unit after unit.
UnitByUnit(f, S, s, paragraph, max_chars, overlap) ==
  LET units == _units(paragraph, max_chars)
      N == Len(units)
  IN  /\ f \in [0 .. N -> S] /\ f[0] = AddTitle(s, paragraph.title)
      /\ \A n \in 1 .. N : f[n] = AddUnit(f[n - 1], units[n], max_chars, overlap)
      /\ AddParagraph(s, paragraph, max_chars, overlap) = f[N]

LEMMA ParagraphIsAChain ==
  ASSUME NEW pages, NEW max_chars \in Nat, NEW overlap \in Nat,
         NEW s \in Safe(pages, max_chars, overlap), NEW paragraph \in Paragraph
  PROVE  \E f : UnitByUnit(f, Safe(pages, max_chars, overlap), s, paragraph, max_chars, overlap)
<1> DEFINE units == _units(paragraph, max_chars)
           N == Len(units)
           S == Safe(pages, max_chars, overlap)
           base == AddTitle(s, paragraph.title)
           step == [p \in S \X (1 .. N) |-> AddUnit(p[1], units[p[2]], max_chars, overlap)]
           P(f) == f = [n \in 0 .. N |-> IF n = 0 THEN base ELSE AddUnit(f[n - 1], units[n], max_chars, overlap)]
<1>0. units \in Seq(Units(max_chars))
  BY UnitsAreWhole
<1>1. N \in Nat /\ \A n \in 1 .. N : units[n] \in Units(max_chars)
  <2> HIDE DEF units
  <2> QED
    BY <1>0
<1>2. base \in S
  <2>1. paragraph.title \in Section
    BY DEF Paragraph, Section
  <2> QED
    BY <2>1, TitleGrows
<1> HIDE DEF units
<1>3. \A r \in S, n \in 1 .. N : AddUnit(r, units[n], max_chars, overlap) \in S
  BY <1>1, UnitGrows
<1>4. step \in [S \X (1 .. N) -> S]
  <2> HIDE DEF N, S
  <2> QED
    BY <1>3
<1>5. PICK f \in [0 .. N -> S] : Recurs(f, N, base, step)
  <2> HIDE DEF step, N, S, base
  <2> QED
    BY <1>1, <1>2, <1>4, Recursion
<1>6. ASSUME NEW n \in 1 .. N PROVE f[n] = AddUnit(f[n - 1], units[n], max_chars, overlap)
  <2> HIDE DEF N, S, base
  <2>1. n - 1 \in 0 .. N
    BY <1>1
  <2>2. <<f[n - 1], n>> \in S \X (1 .. N)
    BY <1>5, <2>1
  <2>3. f[n] = step[<<f[n - 1], n>>]
    BY <1>5 DEF Recurs
  <2> QED
    BY <2>2, <2>3
<1>7. P(f)
  <2> HIDE DEF S, base
  <2>1. ASSUME NEW n \in 0 .. N, n # 0 PROVE f[n] = AddUnit(f[n - 1], units[n], max_chars, overlap)
    <3>1. n \in 1 .. N
      BY <1>1, <2>1
    <3> QED
      BY <1>6, <3>1
  <2>2. f[0] = base
    BY <1>5 DEF Recurs
  <2> HIDE DEF N
  <2> QED
    BY <1>5, <2>1, <2>2
<1> DEFINE g == CHOOSE h : P(h)
<1>8. P(g)
  <2> HIDE DEF P
  <2> QED
    BY <1>7
<1>9. AddParagraph(s, paragraph, max_chars, overlap) = g[N]
  BY DEF AddParagraph, units
<1> HIDE DEF g, N, base
<1>10. g[0] = base /\ DOMAIN g = 0 .. N /\ g = [n \in 0 .. N |-> g[n]]
  BY <1>1, <1>8
<1>11. ASSUME NEW n \in 1 .. N PROVE g[n] = AddUnit(g[n - 1], units[n], max_chars, overlap)
  <2>1. n \in 0 .. N /\ n # 0
    BY <1>1
  <2> QED
    BY <2>1, <1>8
<1>12. \A n \in 0 .. N : g[n] \in S
  <2>1. \A n \in 1 .. N : g[n - 1] \in S => g[n] \in S
    BY <1>3, <1>11
  <2>2. N \in Nat /\ g[0] \in S
    BY <1>1, <1>2, <1>10
  <2> HIDE DEF S
  <2> QED
    BY <2>1, <2>2, RecursionType
<1>13. g \in [0 .. N -> S]
  BY <1>10, <1>12
<1> QED
  <2>1. UnitByUnit(g, S, s, paragraph, max_chars, overlap)
    BY <1>9, <1>10, <1>11, <1>13 DEF UnitByUnit, N, base, units
  <2> QED
    BY <2>1

\* A paragraph more.
LEMMA ParagraphGrows ==
  ASSUME NEW pages, NEW max_chars \in Nat, NEW overlap \in Nat,
         NEW s \in Safe(pages, max_chars, overlap), NEW paragraph \in Paragraph
  PROVE  LET t == AddParagraph(s, paragraph, max_chars, overlap)
         IN  t \in Safe(pages, max_chars, overlap) /\ Grows(s, t, FlattenSeq(paragraph.sentences))
<1> DEFINE units == _units(paragraph, max_chars)
           N == Len(units)
           S == Safe(pages, max_chars, overlap)
           words(n) == FlattenSeq(SubSeq(units, 1, n))
<1>0. /\ units \in Seq(Units(max_chars)) /\ FlattenSeq(units) = FlattenSeq(paragraph.sentences)
      /\ s \in State
  BY UnitsAreWhole DEF Safe
<1>10. PICK f : UnitByUnit(f, S, s, paragraph, max_chars, overlap)
  BY ParagraphIsAChain
<1>1. /\ f \in [0 .. N -> S] /\ f[0] = AddTitle(s, paragraph.title)
      /\ \A n \in 1 .. N : f[n] = AddUnit(f[n - 1], units[n], max_chars, overlap)
      /\ AddParagraph(s, paragraph, max_chars, overlap) = f[N]
  <2> HIDE DEF S
  <2> QED
    BY <1>10 DEF UnitByUnit
<1> HIDE DEF units
<1>2. N \in Nat /\ N \in 0 .. N /\ \A n \in 1 .. N : units[n] \in Units(max_chars) /\ units[n] \in Seq(Word)
  BY <1>0 DEF Units
<1>3. units \in Seq(Seq(Word))
  <2>1. Units(max_chars) \subseteq Seq(Word)
    BY DEF Units
  <2> QED
    BY <1>0, <2>1, SeqMonotonic
<1>4. ASSUME NEW n \in 0 .. N PROVE words(n) \in Seq(Word)
  <2>1. SubSeq(units, 1, n) \in Seq(Seq(Word))
    BY <1>2, <1>3
  <2> QED
    BY <2>1, FlattenType
<1> DEFINE T == {n \in 0 .. N : Grows(s, f[n], words(n))}
<1>5. 0 \in T
  <2>1. paragraph.title \in Section
    BY DEF Paragraph, Section
  <2>2. Grows(s, f[0], << >>)
    BY <1>1, <2>1, TitleGrows
  <2>3. words(0) = << >>
    <3>1. SubSeq(units, 1, 0) = << >>
      BY SubSeqEmpty
    <3> QED
      BY <3>1, FlattenEmpty
  <2> HIDE DEF words
  <2> QED
    BY <1>2, <2>2, <2>3
<1>6. ASSUME NEW n \in 0 .. N, n \in T, n < N PROVE n + 1 \in T
  <2>1. n + 1 \in 1 .. N /\ n + 1 \in 0 .. N /\ (n + 1) - 1 = n
    BY <1>2, <1>6
  <2>2. words(n + 1) = words(n) \o units[n + 1]
    BY <1>2, <1>3, <1>6, FlattenNext
  <2>3. f[n] \in S /\ f[n + 1] = AddUnit(f[n], units[n + 1], max_chars, overlap)
    <3> HIDE DEF S, N
    <3> QED
      BY <1>1, <2>1
  <2> HIDE DEF N
  <2>4. Grows(f[n], f[n + 1], units[n + 1])
    <3> DEFINE r == f[n]
               u == units[n + 1]
    <3>1. r \in Safe(pages, max_chars, overlap) /\ u \in Units(max_chars)
      BY <1>2, <2>1, <2>3
    <3> HIDE DEF r, u
    <3>2. Grows(r, AddUnit(r, u, max_chars, overlap), u)
      BY <3>1, UnitGrows
    <3> QED
      BY <2>3, <3>2 DEF r, u
  <2>5. Grows(s, f[n], words(n))
    BY <1>6
  <2>6. words(n) \in Seq(Word) /\ units[n + 1] \in Seq(Word)
    BY <1>2, <1>4, <2>1
  <2> HIDE DEF words
  <2>7. Grows(s, f[n + 1], words(n) \o units[n + 1])
    BY <1>0, <2>4, <2>5, <2>6, GrowsTwice
  <2> QED
    BY <2>1, <2>2, <2>7
<1>7. N \in T
  <2> HIDE DEF T, N
  <2>1. 0 .. N \subseteq T
    BY <1>2, <1>5, <1>6, Induction
  <2> QED
    BY <1>2, <2>1
<1>8. SubSeq(units, 1, N) = units
  BY <1>3, SubSeqFull
<1>9. f[N] \in S /\ Grows(s, f[N], FlattenSeq(units))
  <2> HIDE DEF S, N
  <2> QED
    BY <1>1, <1>2, <1>7, <1>8
<1> QED
  BY <1>0, <1>1, <1>9 DEF units

\* A new page.
Turned(s, number) == [s EXCEPT !.buffer = _Buffer(number, s.section)]

\* The states a page goes through, paragraph after paragraph.
ParagraphByParagraph(f, S, s, number, page, max_chars, overlap) ==
  LET N == Len(page)
  IN  /\ f \in [0 .. N -> S] /\ f[0] = Turned(s, number)
      /\ \A n \in 1 .. N : f[n] = AddParagraph(f[n - 1], page[n], max_chars, overlap)
      /\ AddPage(s, number, page, max_chars, overlap) = [f[N] EXCEPT !.chunks = emit(f[N].chunks, f[N].buffer)]

\* Between two pages the buffer counts for nothing.
Kept(pages, max_chars, overlap) == {s \in State : Good(s.chunks, pages, max_chars, overlap)}

Continues(s, t, number) == t.buffer.page = number /\ \A n \in Nat : Told(n, All(t)) = Told(n, s.chunks)

LEMMA PageBegins ==
  ASSUME NEW pages, NEW max_chars \in Nat, NEW overlap \in Nat, NEW s \in Kept(pages, max_chars, overlap),
         NEW number \in Nat, number \in pages
  PROVE  /\ Turned(s, number) \in Safe(pages, max_chars, overlap)
         /\ Continues(s, Turned(s, number), number)
<1> DEFINE b == _Buffer(number, s.section)
           t == [s EXCEPT !.buffer = b]
           cuts == s.chunks
<1>0. s \in State /\ Good(cuts, pages, max_chars, overlap) /\ cuts \in Seq(Buffer) /\ s.section \in Section
  BY StateParts DEF Kept
<1>1. b \in Buffer /\ b.page = number /\ b.carried = 0 /\ Own(b) = << >> /\ Held(b, max_chars, overlap)
  BY <1>0, EmptyBuffer, EmptyHeld
<1> HIDE DEF b
<1>2. t \in State /\ t.chunks = cuts /\ t.buffer = b
  BY <1>0, <1>1 DEF State
<1> HIDE DEF t
<1>3. All(t) = Append(cuts, b)
  BY <1>2 DEF All
<1> HIDE DEF cuts
<1>4. Good(Append(cuts, b), pages, max_chars, overlap)
  BY <1>0, <1>1, GoodAppend
<1>5. \A n \in Nat : Told(n, Append(cuts, b)) = Told(n, cuts)
  BY <1>0, <1>1, ToldNothing
<1>6. /\ t \in Safe(pages, max_chars, overlap) /\ t.buffer.page = number
      /\ \A n \in Nat : Told(n, All(t)) = Told(n, cuts)
  BY <1>1, <1>2, <1>3, <1>4, <1>5 DEF Safe
<1> QED
  BY <1>6 DEF Continues, Turned, t, b, cuts

LEMMA PageIsAChain ==
  ASSUME NEW pages, NEW max_chars \in Nat, NEW overlap \in Nat, NEW s \in Kept(pages, max_chars, overlap),
         NEW number \in Nat, number \in pages, NEW page \in Seq(Paragraph)
  PROVE  \E f : ParagraphByParagraph(f, Safe(pages, max_chars, overlap), s, number, page, max_chars, overlap)
<1> DEFINE N == Len(page)
           S == Safe(pages, max_chars, overlap)
           base == Turned(s, number)
           step == [p \in S \X (1 .. N) |-> AddParagraph(p[1], page[p[2]], max_chars, overlap)]
           P(f) == f = [n \in 0 .. N |-> IF n = 0 THEN base ELSE AddParagraph(f[n - 1], page[n], max_chars, overlap)]
<1>1. N \in Nat /\ \A n \in 1 .. N : page[n] \in Paragraph
  OBVIOUS
<1>2. base \in S
  BY PageBegins
<1>3. \A r \in S, n \in 1 .. N : AddParagraph(r, page[n], max_chars, overlap) \in S
  BY <1>1, ParagraphGrows
<1>4. step \in [S \X (1 .. N) -> S]
  <2> HIDE DEF N, S
  <2> QED
    BY <1>3
<1>5. PICK f \in [0 .. N -> S] : Recurs(f, N, base, step)
  <2> HIDE DEF step, N, S, base
  <2> QED
    BY <1>1, <1>2, <1>4, Recursion
<1>6. ASSUME NEW n \in 1 .. N PROVE f[n] = AddParagraph(f[n - 1], page[n], max_chars, overlap)
  <2> HIDE DEF N, S, base
  <2>1. n - 1 \in 0 .. N
    BY <1>1
  <2>2. <<f[n - 1], n>> \in S \X (1 .. N)
    BY <1>5, <2>1
  <2>3. f[n] = step[<<f[n - 1], n>>]
    BY <1>5 DEF Recurs
  <2> QED
    BY <2>2, <2>3
<1>7. P(f)
  <2> HIDE DEF S, base
  <2>1. ASSUME NEW n \in 0 .. N, n # 0 PROVE f[n] = AddParagraph(f[n - 1], page[n], max_chars, overlap)
    <3>1. n \in 1 .. N
      BY <1>1, <2>1
    <3> QED
      BY <1>6, <3>1
  <2>2. f[0] = base
    BY <1>5 DEF Recurs
  <2> HIDE DEF N
  <2> QED
    BY <1>5, <2>1, <2>2
<1> DEFINE g == CHOOSE h : P(h)
<1>8. P(g)
  <2> HIDE DEF P
  <2> QED
    BY <1>7
<1>9. AddPage(s, number, page, max_chars, overlap) = [g[N] EXCEPT !.chunks = emit(g[N].chunks, g[N].buffer)]
  BY DEF AddPage, Turned
<1> HIDE DEF g, N, base
<1>10. g[0] = base /\ DOMAIN g = 0 .. N /\ g = [n \in 0 .. N |-> g[n]]
  BY <1>1, <1>8
<1>11. ASSUME NEW n \in 1 .. N PROVE g[n] = AddParagraph(g[n - 1], page[n], max_chars, overlap)
  <2>1. n \in 0 .. N /\ n # 0
    BY <1>1
  <2> QED
    BY <2>1, <1>8
<1>12. \A n \in 0 .. N : g[n] \in S
  <2>1. \A n \in 1 .. N : g[n - 1] \in S => g[n] \in S
    BY <1>3, <1>11
  <2>2. N \in Nat /\ g[0] \in S
    BY <1>1, <1>2, <1>10
  <2> HIDE DEF S
  <2> QED
    BY <2>1, <2>2, RecursionType
<1>13. g \in [0 .. N -> S]
  BY <1>10, <1>12
<1>14. ParagraphByParagraph(g, S, s, number, page, max_chars, overlap)
  BY <1>9, <1>10, <1>11, <1>13 DEF ParagraphByParagraph, N, base
<1> QED
  BY <1>14

\* Between s and t, these words have been told of one page.
TellsPage(s, t, number, words) ==
  \A n \in Nat : Told(n, t.chunks) = Told(n, s.chunks) \o (IF n = number THEN Plain(words) ELSE << >>)

\* A page more: its words, and no others.
LEMMA PageIsTold ==
  ASSUME NEW pages, NEW max_chars \in Nat, NEW overlap \in Nat, NEW s \in Kept(pages, max_chars, overlap),
         NEW number \in Nat, number \in pages, NEW page \in Seq(Paragraph)
  PROVE  LET t == AddPage(s, number, page, max_chars, overlap)
         IN  t \in Kept(pages, max_chars, overlap) /\ TellsPage(s, t, number, WordsOf(page))
<1> DEFINE N == Len(page)
           S == Safe(pages, max_chars, overlap)
           base == Turned(s, number)
           text == [i \in DOMAIN page |-> FlattenSeq(page[i].sentences)]
           words(n) == FlattenSeq(SubSeq(text, 1, n))
<1>0. /\ base \in S /\ base \in State /\ base.buffer.page = number
      /\ \A n \in Nat : Told(n, All(base)) = Told(n, s.chunks)
  <2>1. base \in S /\ Continues(s, base, number)
    <3>1. base \in S
      BY PageBegins
    <3>2. Continues(s, base, number)
      BY PageBegins
    <3> QED
      BY <3>1, <3>2
  <2> HIDE DEF base
  <2> QED
    BY <2>1 DEF Safe, Continues
<1>1. PICK f : ParagraphByParagraph(f, S, s, number, page, max_chars, overlap)
  BY PageIsAChain
<1>2. /\ f \in [0 .. N -> S] /\ f[0] = base
      /\ \A n \in 1 .. N : f[n] = AddParagraph(f[n - 1], page[n], max_chars, overlap)
      /\ AddPage(s, number, page, max_chars, overlap) = [f[N] EXCEPT !.chunks = emit(f[N].chunks, f[N].buffer)]
  <2> HIDE DEF S
  <2> QED
    BY <1>1 DEF ParagraphByParagraph
<1>3. /\ N \in Nat /\ N \in 0 .. N /\ DOMAIN page = 1 .. N
      /\ \A n \in 1 .. N : page[n] \in Paragraph /\ page[n].sentences \in Seq(Seq(Word))
  <2>1. \A p \in Paragraph : p.sentences \in Seq(Seq(Word))
    <3>1. (Seq(Word) \ {<< >>}) \subseteq Seq(Word)
      OBVIOUS
    <3>2. \A p \in Paragraph : p.sentences \in Seq(Seq(Word) \ {<< >>})
      BY DEF Paragraph
    <3> QED
      BY <3>1, <3>2, SeqMonotonic
  <2> QED
    BY <2>1
<1>4. text \in Seq(Seq(Word)) /\ Len(text) = N /\ \A n \in 1 .. N : text[n] = FlattenSeq(page[n].sentences)
  <2>1. \A n \in 1 .. N : FlattenSeq(page[n].sentences) \in Seq(Word)
    BY <1>3, FlattenType
  <2>2. text = [n \in 1 .. N |-> FlattenSeq(page[n].sentences)]
    BY <1>3
  <2> HIDE DEF text, N
  <2>3. text \in [1 .. N -> Seq(Word)]
    BY <2>1, <2>2
  <2> QED
    BY <1>3, <2>2, <2>3
<1> HIDE DEF text, base
<1>5. ASSUME NEW n \in 0 .. N PROVE words(n) \in Seq(Word)
  <2>1. SubSeq(text, 1, n) \in Seq(Seq(Word))
    BY <1>3, <1>4
  <2> QED
    BY <2>1, FlattenType
<1> DEFINE T == {n \in 0 .. N : Grows(base, f[n], words(n))}
<1>6. 0 \in T
  <2>1. words(0) = << >>
    <3>1. SubSeq(text, 1, 0) = << >>
      BY SubSeqEmpty
    <3> QED
      BY <3>1, FlattenEmpty
  <2>2. Grows(base, base, << >>)
    <3>1. \A n \in Nat : Told(n, All(base)) = Told(n, All(base)) \o << >>
      <4>1. All(base) \in Seq(Buffer)
        BY <1>0, StateParts
      <4> QED
        BY <4>1, ToldType, ConcatEmptySeq
    <3> QED
      BY <3>1, PlainEmpty DEF Grows
  <2> HIDE DEF words
  <2> QED
    BY <1>2, <1>3, <2>1, <2>2
<1>7. ASSUME NEW n \in 0 .. N, n \in T, n < N PROVE n + 1 \in T
  <2>1. n + 1 \in 1 .. N /\ n + 1 \in 0 .. N /\ (n + 1) - 1 = n
    BY <1>3, <1>7
  <2>2. words(n + 1) = words(n) \o text[n + 1]
    BY <1>3, <1>4, <1>7, FlattenNext
  <2>3. f[n] \in S /\ f[n + 1] = AddParagraph(f[n], page[n + 1], max_chars, overlap)
    <3> HIDE DEF S, N
    <3> QED
      BY <1>2, <2>1
  <2> HIDE DEF N
  <2>4. Grows(f[n], f[n + 1], text[n + 1])
    <3> DEFINE r == f[n]
               p == page[n + 1]
    <3>1. r \in Safe(pages, max_chars, overlap) /\ p \in Paragraph
      BY <1>3, <2>1, <2>3
    <3> HIDE DEF r, p
    <3>2. Grows(r, AddParagraph(r, p, max_chars, overlap), FlattenSeq(p.sentences))
      BY <3>1, ParagraphGrows
    <3> QED
      BY <1>4, <2>1, <2>3, <3>2 DEF r, p
  <2>5. Grows(base, f[n], words(n))
    BY <1>7
  <2>6. words(n) \in Seq(Word) /\ text[n + 1] \in Seq(Word)
    BY <1>4, <1>5, <2>1
  <2> HIDE DEF words
  <2>7. Grows(base, f[n + 1], words(n) \o text[n + 1])
    BY <1>0, <2>4, <2>5, <2>6, GrowsTwice
  <2> QED
    BY <2>1, <2>2, <2>7
<1>8. N \in T
  <2> HIDE DEF T, N
  <2>1. 0 .. N \subseteq T
    BY <1>3, <1>6, <1>7, Induction
  <2> QED
    BY <1>3, <2>1
<1>9. SubSeq(text, 1, N) = text
  BY <1>4, SubSeqFull
<1> DEFINE last == f[N]
           all == emit(last.chunks, last.buffer)
           t == [last EXCEPT !.chunks = all]
<1>10. last \in S /\ Grows(base, last, FlattenSeq(text))
  <2> HIDE DEF S, N
  <2> QED
    BY <1>2, <1>3, <1>8, <1>9
<1> HIDE DEF last
<1>11. last \in State /\ last.chunks \in Seq(Buffer) /\ last.buffer \in Buffer
       /\ Good(Append(last.chunks, last.buffer), pages, max_chars, overlap)
  BY <1>10, StateParts DEF Safe, All
<1>12. /\ all \in Seq(Buffer) /\ Good(all, pages, max_chars, overlap)
       /\ \A n \in Nat : Told(n, all) = Told(n, All(last))
  BY <1>11, EmitKeeps DEF All
<1> HIDE DEF all
<1>13. t \in State /\ t.chunks = all
  BY <1>11, <1>12 DEF State
<1> HIDE DEF t
<1>14. t \in Kept(pages, max_chars, overlap)
  BY <1>12, <1>13 DEF Kept
<1>15. WordsOf(page) = FlattenSeq(text)
  BY DEF WordsOf, text
<1>16. \A n \in Nat : Told(n, t.chunks) = Told(n, s.chunks) \o (IF n = number THEN Plain(WordsOf(page)) ELSE << >>)
  BY <1>0, <1>10, <1>12, <1>13, <1>15 DEF Grows
<1>17. AddPage(s, number, page, max_chars, overlap) = t
  BY <1>2 DEF t, all, last
<1> QED
  BY <1>14, <1>16, <1>17 DEF TellsPage

\* The states a document goes through, page after page.
PageByPage(f, S, pages, max_chars, overlap) ==
  LET N == Len(pages)
  IN  /\ f \in [0 .. N -> S] /\ f[0] = [chunks |-> << >>, section |-> "", buffer |-> _Buffer(0, "")]
      /\ \A n \in 1 .. N : f[n] = AddPage(f[n - 1], n, pages[n], max_chars, overlap)
      /\ chunk_pages(pages, max_chars, overlap) = f[N].chunks

LEMMA Nothing ==
  ASSUME NEW pages, NEW max_chars, NEW overlap
  PROVE  LET s == [chunks |-> << >>, section |-> "", buffer |-> _Buffer(0, "")]
         IN  /\ s \in Kept(pages, max_chars, overlap) /\ s.chunks = << >>
             /\ \A n \in Nat : Told(n, << >>) = << >>
<1> DEFINE b == _Buffer(0, "")
           s == [chunks |-> << >>, section |-> "", buffer |-> b]
           none == [i \in DOMAIN << >> |-> Share(0, << >>[i])]
<1>0. "" \in Section
  BY DEF Section
<1>1. b \in Buffer
  BY <1>0, EmptyBuffer
<1> HIDE DEF b
<1>2. s \in State /\ s.chunks = << >>
  <2>1. << >> \in Seq(Buffer)
    OBVIOUS
  <2> QED
    BY <1>0, <1>1, <2>1 DEF State
<1>3. Good(<< >>, pages, max_chars, overlap)
  BY DEF Good
<1>4. ASSUME NEW n \in Nat PROVE Told(n, << >>) = << >>
  <2>1. AddedTo(n, << >>) = << >>
    <3>1. [i \in DOMAIN << >> |-> IF << >>[i].page = n THEN Own(<< >>[i]) ELSE << >>] = << >>
      OBVIOUS
    <3> QED
      BY <3>1, FlattenEmpty DEF AddedTo
  <2> QED
    BY <2>1, PlainEmpty DEF Told
<1> HIDE DEF s
<1>5. s \in Kept(pages, max_chars, overlap)
  BY <1>2, <1>3 DEF Kept
<1> QED
  BY <1>2, <1>4, <1>5 DEF s, b

LEMMA DocumentIsAChain ==
  ASSUME NEW pages \in Text, NEW max_chars \in Nat, NEW overlap \in Nat
  PROVE  \E f : PageByPage(f, Kept(1 .. Len(pages), max_chars, overlap), pages, max_chars, overlap)
<1> DEFINE N == Len(pages)
           S == Kept(1 .. N, max_chars, overlap)
           base == [chunks |-> << >>, section |-> "", buffer |-> _Buffer(0, "")]
           step == [p \in S \X (1 .. N) |-> AddPage(p[1], p[2], pages[p[2]], max_chars, overlap)]
           P(f) == f = [n \in 0 .. N |-> IF n = 0 THEN base ELSE AddPage(f[n - 1], n, pages[n], max_chars, overlap)]
<1>1. N \in Nat /\ \A n \in 1 .. N : pages[n] \in Seq(Paragraph)
  BY DEF Text
<1>2. base \in S
  BY Nothing
<1>3. \A r \in S, n \in 1 .. N : AddPage(r, n, pages[n], max_chars, overlap) \in S
  <2> HIDE DEF N
  <2>1. \A n \in 1 .. N : n \in Nat
    BY <1>1
  <2> QED
    BY <1>1, <2>1, PageIsTold
<1>4. step \in [S \X (1 .. N) -> S]
  <2> HIDE DEF N, S
  <2> QED
    BY <1>3
<1>5. PICK f \in [0 .. N -> S] : Recurs(f, N, base, step)
  <2> HIDE DEF step, N, S, base
  <2> QED
    BY <1>1, <1>2, <1>4, Recursion
<1>6. ASSUME NEW n \in 1 .. N PROVE f[n] = AddPage(f[n - 1], n, pages[n], max_chars, overlap)
  <2> HIDE DEF N, S, base
  <2>1. n - 1 \in 0 .. N
    BY <1>1
  <2>2. <<f[n - 1], n>> \in S \X (1 .. N)
    BY <1>5, <2>1
  <2>3. f[n] = step[<<f[n - 1], n>>]
    BY <1>5 DEF Recurs
  <2> QED
    BY <2>2, <2>3
<1>7. P(f)
  <2> HIDE DEF S, base
  <2>1. ASSUME NEW n \in 0 .. N, n # 0 PROVE f[n] = AddPage(f[n - 1], n, pages[n], max_chars, overlap)
    <3>1. n \in 1 .. N
      BY <1>1, <2>1
    <3> QED
      BY <1>6, <3>1
  <2>2. f[0] = base
    BY <1>5 DEF Recurs
  <2> HIDE DEF N
  <2> QED
    BY <1>5, <2>1, <2>2
<1> DEFINE g == CHOOSE h : P(h)
<1>8. P(g)
  <2> HIDE DEF P
  <2> QED
    BY <1>7
<1>9. chunk_pages(pages, max_chars, overlap) = g[N].chunks
  BY DEF chunk_pages
<1> HIDE DEF g, N, base
<1>10. g[0] = base /\ DOMAIN g = 0 .. N /\ g = [n \in 0 .. N |-> g[n]]
  BY <1>1, <1>8
<1>11. ASSUME NEW n \in 1 .. N PROVE g[n] = AddPage(g[n - 1], n, pages[n], max_chars, overlap)
  <2>1. n \in 0 .. N /\ n # 0
    BY <1>1
  <2> QED
    BY <2>1, <1>8
<1>12. \A n \in 0 .. N : g[n] \in S
  <2>1. \A n \in 1 .. N : g[n - 1] \in S => g[n] \in S
    BY <1>3, <1>11
  <2>2. N \in Nat /\ g[0] \in S
    BY <1>1, <1>2, <1>10
  <2> HIDE DEF S
  <2> QED
    BY <2>1, <2>2, RecursionType
<1>13. g \in [0 .. N -> S]
  BY <1>10, <1>12
<1>14. PageByPage(g, S, pages, max_chars, overlap)
  BY <1>9, <1>10, <1>11, <1>13 DEF PageByPage, N, base
<1> QED
  BY <1>14 DEF N

\* Whatever the text, the limit and the overlap, the chunks of a document are
\* its whole text (chunking.py:77-140): every page is found in its chunks, word
\* for word, none is too long unless it is a single word, and what one carries
\* is short and comes from the one before.
THEOREM ChunksAreWhole ==
  ASSUME NEW pages \in Text, NEW max_chars \in Nat, NEW overlap \in Nat
  PROVE  WholeText(chunk_pages(pages, max_chars, overlap), pages, max_chars, overlap)
<1> DEFINE N == Len(pages)
           S == Kept(1 .. N, max_chars, overlap)
           cuts == chunk_pages(pages, max_chars, overlap)
           text(n) == Plain(WordsOf(pages[n]))
<1>0. N \in Nat /\ N \in 0 .. N /\ DOMAIN pages = 1 .. N /\ \A n \in 1 .. N : pages[n] \in Seq(Paragraph)
  BY DEF Text
<1>1. PICK f : PageByPage(f, S, pages, max_chars, overlap)
  BY DocumentIsAChain
<1>2. /\ f \in [0 .. N -> S] /\ f[0] = [chunks |-> << >>, section |-> "", buffer |-> _Buffer(0, "")]
      /\ \A n \in 1 .. N : f[n] = AddPage(f[n - 1], n, pages[n], max_chars, overlap)
      /\ cuts = f[N].chunks
  <2> HIDE DEF S
  <2> QED
    BY <1>1 DEF PageByPage
<1> HIDE DEF N, cuts
<1> DEFINE T == {k \in 0 .. N : \A n \in 1 .. N : Told(n, f[k].chunks) = IF n <= k THEN text(n) ELSE << >>}
<1>3. 0 \in T
  <2>1. f[0].chunks = << >> /\ \A n \in Nat : Told(n, << >>) = << >>
    BY <1>2, Nothing
  <2>2. \A n \in 1 .. N : n \in Nat /\ ~ (n <= 0)
    BY <1>0
  <2> HIDE DEF text
  <2> QED
    BY <1>0, <2>1, <2>2
<1>4. ASSUME NEW k \in 0 .. N, k \in T, k < N PROVE k + 1 \in T
  <2>1. k + 1 \in 1 .. N /\ k + 1 \in 0 .. N /\ (k + 1) - 1 = k /\ k + 1 \in Nat
    BY <1>0, <1>4
  <2> DEFINE s == f[k]
             t == f[k + 1]
             page == pages[k + 1]
  <2>2. s \in S /\ t = AddPage(s, k + 1, page, max_chars, overlap) /\ page \in Seq(Paragraph)
    <3> HIDE DEF S
    <3> QED
      BY <1>0, <1>2, <2>1
  <2>3. \A n \in Nat : Told(n, t.chunks) = Told(n, s.chunks) \o (IF n = k + 1 THEN Plain(WordsOf(page)) ELSE << >>)
    <3> DEFINE number == k + 1
    <3>1. s \in Kept(1 .. N, max_chars, overlap) /\ number \in Nat /\ number \in 1 .. N
      BY <2>1, <2>2
    <3> HIDE DEF s, t, page, S, number
    <3> DEFINE next == AddPage(s, number, page, max_chars, overlap)
    <3>2. TellsPage(s, next, number, WordsOf(page))
      BY <2>2, <3>1, PageIsTold
    <3>3. t = next
      BY <2>2 DEF number
    <3> HIDE DEF next
    <3> QED
      BY <3>2, <3>3 DEF number, TellsPage
  <2>4. ASSUME NEW n \in 1 .. N PROVE Told(n, t.chunks) = IF n <= k + 1 THEN text(n) ELSE << >>
    <3>1. n \in Nat /\ Told(n, s.chunks) = IF n <= k THEN text(n) ELSE << >>
      BY <1>0, <1>4
    <3>2. Told(n, s.chunks) \in Seq(Word) /\ Told(n, t.chunks) \in Seq(Word)
      <4>1. s.chunks \in Seq(Buffer)
        BY <2>2, StateParts DEF Kept
      <4>2. t.chunks \in Seq(Buffer)
        <5>1. t \in S
          <6> HIDE DEF S
          <6> QED
            BY <1>2, <2>1
        <5> HIDE DEF t
        <5> QED
          BY <5>1, StateParts DEF Kept
      <4> QED
        BY <3>1, <4>1, <4>2, ToldType
    <3> HIDE DEF s, t
    <3>3. CASE n = k + 1
      <4>1. ~ (n <= k) /\ n <= k + 1
        BY <2>1, <3>1, <3>3
      <4>2. Told(n, t.chunks) = << >> \o text(n)
        BY <2>3, <3>1, <3>3, <4>1
      <4>3. << >> \o text(n) = text(n)
        <5>1. text(n) \in Seq(Word)
          <6>1. \A p \in Paragraph : FlattenSeq(p.sentences) \in Seq(Word)
            <7>1. (Seq(Word) \ {<< >>}) \subseteq Seq(Word)
              OBVIOUS
            <7>2. \A p \in Paragraph : p.sentences \in Seq(Seq(Word) \ {<< >>})
              BY DEF Paragraph
            <7>3. \A p \in Paragraph : p.sentences \in Seq(Seq(Word))
              BY <7>1, <7>2, SeqMonotonic
            <7> QED
              BY <7>3, FlattenType
          <6> DEFINE p == pages[n]
                     seqs == [i \in DOMAIN p |-> FlattenSeq(p[i].sentences)]
          <6>2. p \in Seq(Paragraph)
            BY <1>0
          <6> HIDE DEF p
          <6>3. seqs \in Seq(Seq(Word))
            <7>1. \A i \in 1 .. Len(p) : FlattenSeq(p[i].sentences) \in Seq(Word)
              BY <6>1, <6>2
            <7>2. seqs = [i \in 1 .. Len(p) |-> FlattenSeq(p[i].sentences)] /\ Len(p) \in Nat
              BY <6>2
            <7> HIDE DEF seqs
            <7>3. seqs \in [1 .. Len(p) -> Seq(Word)]
              BY <7>1, <7>2
            <7> QED
              BY <7>2, <7>3
          <6> HIDE DEF seqs
          <6>4. FlattenSeq(seqs) \in Seq(Word)
            BY <6>3, FlattenType
          <6>5. WordsOf(p) = FlattenSeq(seqs)
            BY DEF WordsOf, seqs
          <6> QED
            BY <6>4, <6>5, PlainType DEF p
        <5> HIDE DEF text
        <5> QED
          BY <5>1, ConcatEmptySeq
      <4> QED
        BY <4>1, <4>2, <4>3
    <3>4. CASE n # k + 1
      <4>1. n <= k <=> n <= k + 1
        BY <1>0, <2>1, <3>1, <3>4
      <4>2. Told(n, t.chunks) = Told(n, s.chunks) \o << >>
        BY <2>3, <3>1, <3>4
      <4>3. Told(n, t.chunks) = Told(n, s.chunks)
        BY <3>2, <4>2, ConcatEmptySeq
      <4> HIDE DEF text
      <4> QED
        BY <3>1, <4>1, <4>3
    <3> QED
      BY <3>3, <3>4
  <2> HIDE DEF text
  <2> QED
    BY <2>1, <2>4
<1>5. N \in T
  <2> HIDE DEF T
  <2>1. 0 .. N \subseteq T
    BY <1>0, <1>3, <1>4, Induction
  <2> QED
    BY <1>0, <2>1
<1>6. \A n \in 1 .. N : Plain(AddedTo(n, cuts)) = text(n)
  <2>1. \A n \in 1 .. N : n <= N
    BY <1>0
  <2> HIDE DEF text
  <2> QED
    BY <1>2, <1>5, <2>1 DEF Told
<1>7. cuts \in Seq(Buffer) /\ Good(cuts, 1 .. N, max_chars, overlap)
  <2>1. f[N] \in S
    <3> HIDE DEF S
    <3> QED
      BY <1>0, <1>2
  <2> DEFINE s == f[N]
  <2>2. s \in State /\ Good(s.chunks, 1 .. N, max_chars, overlap) /\ cuts = s.chunks
    BY <1>2, <2>1 DEF Kept
  <2> HIDE DEF s
  <2> QED
    BY <2>2, StateParts
<1>8. DOMAIN cuts = 1 .. Len(cuts)
  BY <1>7
<1> HIDE DEF S
<1>9. \A n \in DOMAIN pages : Plain(AddedTo(n, cuts)) = Plain(WordsOf(pages[n]))
  BY <1>0, <1>6
<1>10. ASSUME NEW i \in DOMAIN cuts
       PROVE  /\ cuts[i].page \in DOMAIN pages
              /\ LengthOf(cuts[i].words) <= max_chars \/ Len(cuts[i].words) = 1
              /\ LengthOf(SubSeq(cuts[i].words, 1, cuts[i].carried)) <= overlap
              /\ cuts[i].carried > 0 =>
                   i > 1 /\ cuts[i - 1].page = cuts[i].page /\ cuts[i - 1].section = cuts[i].section
  BY <1>0, <1>7, <1>8 DEF Good, Held, Limited
<1>11. WholeText(cuts, pages, max_chars, overlap)
  BY <1>9, <1>10, Zenon DEF WholeText
<1> QED
  BY <1>11 DEF cuts

-----------------------------------------------------------------------------
(* Files. *)

\* Every file that is read is cut into the whole of its text.
LEMMA FilesAreWhole == \A c \in Contents : Holds[c][c]
<1> SUFFICES ASSUME NEW c \in Contents PROVE Holds[c][c]
  OBVIOUS
<1> DEFINE documents == Reading[c].documents
           pieces == Pieces[c]
<1>1. documents \in Seq(Text) /\ pieces = _build_chunks(documents)
  BY TextAssumption
<1>2. /\ DOMAIN pieces = DOMAIN documents
      /\ \A d \in DOMAIN documents : pieces[d] = chunk_pages(documents[d], MaxChars, Overlap)
  <2> HIDE DEF documents, pieces
  <2> QED
    BY <1>1 DEF _build_chunks
<1>3. ASSUME NEW d \in DOMAIN documents
      PROVE  WholeText(pieces[d], documents[d], MaxChars, Overlap)
  <2> HIDE DEF documents, pieces
  <2>1. documents[d] \in Text
    BY <1>1
  <2>2. MaxChars \in Nat /\ Overlap \in Nat
    BY IndexAssumption
  <2> QED
    BY <1>2, <2>1, <2>2, ChunksAreWhole
<1>4. Holds[c][c] = (/\ DOMAIN pieces = DOMAIN documents
                    /\ \A d \in DOMAIN pieces : WholeText(pieces[d], documents[d], MaxChars, Overlap))
  BY DEF Holds
<1> QED
  BY <1>2, <1>3, <1>4

-----------------------------------------------------------------------------
(* Rows. *)

LEMMA SomeVersion == Absent \in Doc /\ Closed = [open |-> FALSE, doc |-> Absent]
BY IndexAssumption DEF Absent, Doc, Closed

LEMMA WrittenType == \A a, b, c \in Doc : Written(a, b, c) \in Doc
<1> SUFFICES ASSUME NEW a \in Doc, NEW b \in Doc, NEW c \in Doc
             PROVE  Written(a, b, c) \in Doc
  OBVIOUS
<1> DEFINE Col(f) == IF c[f] # b[f] THEN c[f] ELSE a[f]
<1>1. Written(a, b, c) = [version |-> Col("version"), content |-> Col("content"),
                          extraction |-> Col("extraction"), text |-> Col("text")]
  BY DEF Written, Doc
<1> QED
  BY <1>1 DEF Doc

\* The columns of a row that was written.
LEMMA WrittenColumns ==
  \A a, b, c \in Doc :
    LET w == Written(a, b, c)
    IN  /\ w.version = (IF c.version # b.version THEN c.version ELSE a.version)
        /\ w.content = (IF c.content # b.content THEN c.content ELSE a.content)
        /\ w.extraction = (IF c.extraction # b.extraction THEN c.extraction ELSE a.extraction)
        /\ w.text = (IF c.text # b.text THEN c.text ELSE a.text)
BY DEF Written, Doc

\* A session that read the row as it is writes what it wants.
LEMMA WrittenAlone == \A a, c \in Doc : Written(a, a, c) = c
<1> SUFFICES ASSUME NEW a \in Doc, NEW c \in Doc PROVE Written(a, a, c) = c
  OBVIOUS
<1>1. Written(a, a, c) = [f \in DOMAIN a |-> c[f]]
  BY DEF Written
<1>2. c = [f \in DOMAIN a |-> c[f]]
  BY DEF Doc
<1> QED
  BY <1>1, <1>2

-----------------------------------------------------------------------------
(* Types, and the document that is there before anybody works on it. *)

Uploaded(row) == row.version > 0 /\ row.content # "none"

\* What a session has read is a document that was uploaded, and before the
\* upload nothing is there.
UploadedFirst ==
  /\ \A r \in Requests : request[r].open => Uploaded(request[r].doc) /\ Uploaded(doc)
  /\ \A j \in Jobs : job[j].pc # "none" => Uploaded(doc)
  /\ \A j \in Working : Uploaded(job[j].doc)
  /\ doc.version > 0 => Uploaded(doc)
  /\ doc.version = 0 => versions = << >> /\ chunks = {}

Typed == TypeOK /\ UploadedFirst

JobType == [pc : {"none", "queued", "extracting", "embedding", "ended"},
            doc : Doc, doomed : SUBSET Chunk, behind : SUBSET Jobs]

\* What Enqueued does to the jobs.
LEMMA EnqueuedAddsOne ==
  ASSUME TypeOK, Enqueued
  PROVE  /\ enqueued' \in Jobs /\ job' \in [Jobs -> JobType] /\ mishap' \in BOOLEAN
         /\ enqueued' \in 0 .. MaxJobs
         /\ \A i \in Jobs \ {enqueued'} : job'[i] = job[i]
         /\ job'[enqueued'].pc \in {"queued", "ended"}
         /\ job'[enqueued'].pc = "ended" => mishap'
         /\ mishap => mishap'
<1>1. enqueued' = enqueued + 1 /\ enqueued + 1 \in Jobs /\ enqueued + 1 \in 0 .. MaxJobs
  BY IndexAssumption DEF Enqueued, TypeOK, Jobs
<1>2. PICK pc \in {"queued", "ended"} :
        /\ job' = [job EXCEPT ![enqueued + 1].pc = pc]
        /\ pc = "ended" => mishap'
        /\ mishap => mishap'
        /\ mishap' \in BOOLEAN
  <2>1. CASE job' = [job EXCEPT ![enqueued + 1].pc = "queued"] /\ UNCHANGED mishap
    BY <2>1 DEF TypeOK
  <2>2. CASE job' = [job EXCEPT ![enqueued + 1].pc = "ended"] /\ mishap' = TRUE
    BY <2>2
  <2> QED
    BY <2>1, <2>2 DEF Enqueued
<1>3. job \in [Jobs -> JobType]
  BY DEF TypeOK, JobType
<1>4. [job[enqueued + 1] EXCEPT !.pc = pc] \in JobType
  BY <1>1, <1>3 DEF JobType
<1>5. job' = [job EXCEPT ![enqueued + 1] = [job[enqueued + 1] EXCEPT !.pc = pc]]
  BY <1>2
<1>6. job' \in [Jobs -> JobType]
  BY <1>3, <1>4, <1>5
<1>7. job'[enqueued + 1].pc = pc /\ \A i \in Jobs \ {enqueued + 1} : job'[i] = job[i]
  BY <1>1, <1>3, <1>5 DEF JobType
<1> QED
  BY <1>1, <1>2, <1>6, <1>7

LEMMA JobChanges ==
  \A r \in JobType :
    /\ \A d \in Doc : [r EXCEPT !.pc = "extracting", !.doc = d] \in JobType
    /\ \A C \in SUBSET Chunk, B \in SUBSET Jobs :
         [r EXCEPT !.pc = "embedding", !.doomed = C, !.behind = B] \in JobType
<1> SUFFICES ASSUME NEW r \in JobType
             PROVE  /\ \A d \in Doc : [r EXCEPT !.pc = "extracting", !.doc = d] \in JobType
                    /\ \A C \in SUBSET Chunk, B \in SUBSET Jobs :
                         [r EXCEPT !.pc = "embedding", !.doomed = C, !.behind = B] \in JobType
  OBVIOUS
<1>1. ASSUME NEW d \in Doc PROVE [r EXCEPT !.pc = "extracting", !.doc = d] \in JobType
  BY DEF JobType
<1>2. ASSUME NEW C \in SUBSET Chunk, NEW B \in SUBSET Jobs
      PROVE  [r EXCEPT !.pc = "embedding", !.doomed = C, !.behind = B] \in JobType
  BY DEF JobType
<1> QED
  BY <1>1, <1>2

\* What the steps of a job do to the jobs.
LEMMA JobsStep ==
  ASSUME TypeOK, NEW j \in Jobs, Work(j)
  PROVE  /\ job' \in [Jobs -> JobType]
         /\ \A i \in Jobs \ {j} : job'[i] = job[i]
         /\ Begin(j) => job'[j].pc = "extracting" /\ job'[j].doc = doc
         /\ Delete(j) => job'[j].pc = "embedding" /\ job'[j].doc = job[j].doc /\ job'[j].doomed = chunks
         /\ ExtractFails(j) \/ Index(j) \/ Die(j) => job'[j].pc = "ended"
         /\ DieAndReturn(j) => job'[j].pc = "queued"
<1>0. job \in [Jobs -> JobType] /\ job[j] \in JobType /\ doc \in Doc /\ chunks \in SUBSET Chunk
  BY DEF TypeOK, JobType
<1>1. CASE Begin(j)
  <2>1. job[j].pc = "queued" /\ job' = [job EXCEPT ![j] = [job[j] EXCEPT !.pc = "extracting", !.doc = doc]]
    BY <1>1 DEF Begin
  <2> DEFINE new == [job[j] EXCEPT !.pc = "extracting", !.doc = doc]
  <2>2. new \in JobType /\ new.pc = "extracting" /\ new.doc = doc
    BY <1>0, JobChanges DEF JobType
  <2> HIDE DEF new
  <2>3. job' \in [Jobs -> JobType] /\ job'[j] = new /\ \A i \in Jobs \ {j} : job'[i] = job[i]
    BY <1>0, <2>1, <2>2 DEF new
  <2> QED
    BY <2>1, <2>2, <2>3 DEF Delete, ExtractFails, Index, Die, DieAndReturn, Working
<1>2. CASE Delete(j)
  <2> DEFINE others == {i \in Jobs \ {j} : job[i].pc = "embedding" /\ job[i].doomed \cap chunks # {}}
             new == [job[j] EXCEPT !.pc = "embedding", !.doomed = chunks, !.behind = others]
  <2>1. job[j].pc = "extracting" /\ job' = [job EXCEPT ![j] = new]
    BY <1>2 DEF Delete
  <2>2. others \in SUBSET Jobs
    OBVIOUS
  <2> HIDE DEF others
  <2>3. new \in JobType /\ new.pc = "embedding" /\ new.doc = job[j].doc /\ new.doomed = chunks
    BY <1>0, <2>2, JobChanges DEF JobType
  <2> HIDE DEF new
  <2>4. job' \in [Jobs -> JobType] /\ job'[j] = new /\ \A i \in Jobs \ {j} : job'[i] = job[i]
    BY <1>0, <2>1, <2>3
  <2>5. job'[j].pc = "embedding"
    BY <2>3, <2>4
  <2>6. ~ Begin(j) /\ ~ Index(j)
    BY <2>1 DEF Begin, Index
  <2>7. ~ (ExtractFails(j) \/ Die(j)) /\ ~ DieAndReturn(j)
    <3>1. \A pc \in {"queued", "ended"} : job' # [job EXCEPT ![j] = [NoJob EXCEPT !.pc = pc]]
      BY <1>0, <2>5 DEF NoJob
    <3> QED
      BY <3>1 DEF ExtractFails, Die, DieAndReturn, Ended
  <2> QED
    BY <2>3, <2>4, <2>6, <2>7
<1>3. ASSUME NEW pc \in {"queued", "ended"}, job' = [job EXCEPT ![j] = [NoJob EXCEPT !.pc = pc]]
      PROVE  /\ job' \in [Jobs -> JobType] /\ job'[j].pc = pc
             /\ \A i \in Jobs \ {j} : job'[i] = job[i]
  <2>1. [NoJob EXCEPT !.pc = pc] \in JobType /\ [NoJob EXCEPT !.pc = pc].pc = pc
    BY SomeVersion DEF NoJob, JobType
  <2> QED
    BY <1>0, <1>3, <2>1
<1>4. CASE ExtractFails(j) \/ Index(j) \/ Die(j)
  <2>1. job' = [job EXCEPT ![j] = [NoJob EXCEPT !.pc = "ended"]]
    BY <1>4 DEF ExtractFails, Index, Die, Ended
  <2>2. /\ job' \in [Jobs -> JobType] /\ job'[j].pc = "ended"
        /\ \A i \in Jobs \ {j} : job'[i] = job[i]
    BY <1>3, <2>1
  <2>3. job[j].pc \in {"extracting", "embedding"}
    BY <1>4 DEF ExtractFails, Index, Die, Working
  <2>4. ~ Begin(j) /\ (Delete(j) => job'[j].pc = "embedding")
    BY <1>2, <2>3 DEF Begin
  <2>5. DieAndReturn(j) => job'[j].pc = "queued"
    BY <1>3 DEF DieAndReturn
  <2> QED
    BY <2>2, <2>4, <2>5
<1>5. CASE DieAndReturn(j)
  <2>1. job' = [job EXCEPT ![j] = [NoJob EXCEPT !.pc = "queued"]]
    BY <1>5 DEF DieAndReturn
  <2>2. /\ job' \in [Jobs -> JobType] /\ job'[j].pc = "queued"
        /\ \A i \in Jobs \ {j} : job'[i] = job[i]
    BY <1>3, <2>1
  <2>3. ~ Begin(j) /\ (Delete(j) => job'[j].pc = "embedding")
    BY <1>2, <1>5 DEF Begin, DieAndReturn, Working
  <2>4. ExtractFails(j) \/ Index(j) \/ Die(j) => job'[j].pc = "ended"
    BY <1>4
  <2> QED
    BY <2>2, <2>3, <2>4
<1> QED
  BY <1>1, <1>2, <1>4, <1>5 DEF Work

\* What the steps of a job leave alone.
LEMMA WorkLeaves ==
  ASSUME NEW j \in Jobs, Work(j)
  PROVE  /\ UNCHANGED <<versions, request, enqueued>>
         /\ UNCHANGED chunks \/ Index(j)
         /\ UNCHANGED doc \/ ExtractFails(j) \/ Index(j)
         /\ UNCHANGED mishap \/ mishap' = TRUE
BY DEF Work, Begin, ExtractFails, Delete, Index, Die, DieAndReturn

\* A job writes how its extraction went, and nothing else.
Outcome(j, row) ==
  \/ row = doc
  \/ row = Written(doc, job[j].doc, [job[j].doc EXCEPT !.extraction = "failed"])
  \/ row = Written(doc, job[j].doc, [job[j].doc EXCEPT !.extraction = "done", !.text = job[j].doc.content])

LEMMA OutcomeKeepsVersion ==
  ASSUME TypeOK, NEW j \in Jobs, Work(j)
  PROVE  doc' \in Doc /\ doc'.version = doc.version /\ doc'.content = doc.content
<1>1. Outcome(j, doc')
  BY WorkLeaves DEF Outcome, ExtractFails, Index
<1>2. doc \in Doc /\ job[j].doc \in Doc
  BY DEF TypeOK
<1>3. /\ [job[j].doc EXCEPT !.extraction = "failed"] \in Doc
      /\ [job[j].doc EXCEPT !.extraction = "done", !.text = job[j].doc.content] \in Doc
  BY <1>2 DEF Doc
<1>4. ASSUME NEW new \in Doc, new.version = job[j].doc.version, new.content = job[j].doc.content
      PROVE  /\ Written(doc, job[j].doc, new) \in Doc
             /\ Written(doc, job[j].doc, new).version = doc.version
             /\ Written(doc, job[j].doc, new).content = doc.content
  <2>1. Written(doc, job[j].doc, new) \in Doc
    BY <1>2, <1>4, WrittenType
  <2>2. /\ Written(doc, job[j].doc, new).version = doc.version
        /\ Written(doc, job[j].doc, new).content = doc.content
    BY <1>2, <1>4, WrittenColumns
  <2> QED
    BY <2>1, <2>2
<1>5. /\ [job[j].doc EXCEPT !.extraction = "failed"].version = job[j].doc.version
      /\ [job[j].doc EXCEPT !.extraction = "failed"].content = job[j].doc.content
      /\ [job[j].doc EXCEPT !.extraction = "done", !.text = job[j].doc.content].version = job[j].doc.version
      /\ [job[j].doc EXCEPT !.extraction = "done", !.text = job[j].doc.content].content = job[j].doc.content
  BY <1>2 DEF Doc
<1>6. CASE doc' = doc
  BY <1>2, <1>6
<1>7. CASE doc' = Written(doc, job[j].doc, [job[j].doc EXCEPT !.extraction = "failed"])
  BY <1>3, <1>4, <1>5, <1>7
<1>8. CASE doc' = Written(doc, job[j].doc, [job[j].doc EXCEPT !.extraction = "done", !.text = job[j].doc.content])
  BY <1>3, <1>4, <1>5, <1>8
<1> QED
  BY <1>1, <1>6, <1>7, <1>8 DEF Outcome

\* A new version, written by a request.
LEMMA NewVersion ==
  ASSUME TypeOK, NEW r \in Requests, NEW content \in Contents, AddVersion(r, content),
         Uploaded(request[r].doc), Uploaded(doc)
  PROVE  /\ Renewed(request[r].doc, content) \in Doc
         /\ doc' \in Doc
         /\ doc'.version = request[r].doc.version + 1
         /\ Uploaded(doc')
         /\ VersionOf(request[r].doc, content) \in Version
         /\ request[r].doc.content = doc.content => doc'.content = content
<1> DEFINE read == request[r].doc
<1>1. read \in Doc /\ doc \in Doc
  BY DEF TypeOK
<1>2. read.version \in Nat /\ read.version + 1 \in Nat \ {0} /\ read.version + 1 # read.version
  BY <1>1 DEF Doc
<1>3. Renewed(read, content) \in Doc /\ Renewed(read, content).version = read.version + 1
      /\ Renewed(read, content).content = content
  BY <1>2 DEF Renewed, Doc
<1>4. doc' = Written(doc, read, Renewed(read, content))
  BY DEF AddVersion
<1>5. VersionOf(read, content) \in Version
  BY <1>2 DEF VersionOf, Version
<1> HIDE DEF read
<1>6. doc' \in Doc /\ doc'.version = read.version + 1
  <2> DEFINE new == Renewed(read, content)
  <2>1. new \in Doc /\ new.version = read.version + 1 /\ new.version # read.version /\ doc' = Written(doc, read, new)
    BY <1>2, <1>3, <1>4
  <2> HIDE DEF new
  <2>2. doc' \in Doc
    BY <1>1, <2>1, WrittenType
  <2>3. doc'.version = new.version
    BY <1>1, <2>1, WrittenColumns
  <2> QED
    BY <2>1, <2>2, <2>3
<1>7. doc'.content = IF content # read.content THEN content ELSE doc.content
  BY <1>1, <1>3, <1>4, WrittenColumns
<1>8. Uploaded(doc') /\ (read.content = doc.content => doc'.content = content)
  BY <1>2, <1>6, <1>7, IndexAssumption DEF Uploaded
<1> QED
  BY <1>3, <1>5, <1>6, <1>8 DEF read

\* What a job puts in the index.
LEMMA NewChunk ==
  ASSUME Typed, NEW j \in Jobs, Index(j)
  PROVE  ChunkOf(j) \in Chunk /\ chunks' \subseteq chunks \union {ChunkOf(j)}
<1>1. j \in Working /\ job[j].doc \in Doc
  BY DEF Typed, TypeOK, Index, Working
<1>2. job[j].doc.version \in Nat \ {0} /\ job[j].doc.content \in Contents
  BY <1>1 DEF Typed, UploadedFirst, Uploaded, Doc
<1>3. ChunkOf(j) \in Chunk
  BY <1>2 DEF ChunkOf, Chunk
<1> QED
  BY <1>3 DEF Index, Replaced

\* What the steps of a request do to the rows it holds.
LEMMA RequestsStep ==
  ASSUME TypeOK, NEW r \in Requests, Request(r)
  PROVE  /\ request' \in [Requests -> [open : BOOLEAN, doc : Doc]]
         /\ \A q \in Requests \ {r} : request'[q] = request[q]
         /\ request'[r].open => Load(r) /\ request'[r].doc = doc
         /\ UNCHANGED chunks
         /\ Load(r) \/ Abort(r) => UNCHANGED <<doc, versions, job, enqueued, mishap>>
         /\ Reindex(r) => UNCHANGED <<doc, versions>>
<1>0. request \in [Requests -> [open : BOOLEAN, doc : Doc]] /\ doc \in Doc
  BY DEF TypeOK
<1>1. CASE Load(r)
  <2>1. ~ request[r].open /\ request' = [request EXCEPT ![r] = [open |-> TRUE, doc |-> doc]]
    BY <1>1 DEF Load
  <2>2. UNCHANGED <<doc, versions, chunks, job, enqueued, mishap>>
    BY <1>1 DEF Load
  <2> QED
    BY <1>0, <1>1, <2>1, <2>2
<1>2. CASE Abort(r) \/ Reindex(r) \/ \E content \in Contents : AddVersion(r, content)
  <2>1. request[r].open /\ request' = [request EXCEPT ![r] = Closed] /\ UNCHANGED chunks
    BY <1>2 DEF Abort, Reindex, AddVersion, Close
  <2>2. Closed \in [open : BOOLEAN, doc : Doc] /\ ~ Closed.open
    BY SomeVersion
  <2>3. ~ Load(r)
    BY <2>1 DEF Load
  <2> QED
    BY <1>0, <2>1, <2>2, <2>3 DEF Abort, Reindex
<1> QED
  BY <1>1, <1>2 DEF Request

LEMMA TypedInit == Init => Typed
<1> SUFFICES ASSUME Init PROVE Typed
  OBVIOUS
<1> USE IndexAssumption, SomeVersion
<1>1. NoJob \in JobType /\ NoJob.pc = "none"
  BY DEF NoJob, JobType
<1>2. job \in [Jobs -> JobType] /\ Working = {} /\ \A j \in Jobs : job[j].pc = "none"
  BY <1>1 DEF Init, Working
<1>3. request \in [Requests -> [open : BOOLEAN, doc : Doc]] /\ \A r \in Requests : ~ request[r].open
  BY DEF Init
<1>4. TypeOK
  <2>1. doc \in Doc /\ enqueued \in 0 .. MaxJobs
    BY DEF Init
  <2>4. mishap \in BOOLEAN
    BY DEF Init
  <2>2. chunks \subseteq Chunk /\ overlaps \subseteq {"requests", "jobs", "both"}
    BY DEF Init
  <2>3. versions \in Seq(Version)
    BY DEF Init
  <2> QED
    BY <1>2, <1>3, <2>1, <2>2, <2>3, <2>4 DEF TypeOK, JobType
<1>5. UploadedFirst
  BY <1>2, <1>3 DEF Init, UploadedFirst, Absent
<1> QED
  BY <1>4, <1>5 DEF Typed

LEMMA TypedStep == Typed /\ [Next]_vars => Typed'
<1> SUFFICES ASSUME Typed, [Next]_vars PROVE Typed'
  OBVIOUS
<1>0. TypeOK /\ UploadedFirst
  BY DEF Typed
<1>t. ASSUME NEW kind \in {"request", "job"}, Joins(kind)
      PROVE  overlaps' \in SUBSET {"requests", "jobs", "both"}
  BY <1>0, <1>t DEF Joins, TypeOK
<1>1. ASSUME NEW content \in Contents, Upload(content)
      PROVE  Typed'
  <2>1. doc' \in Doc /\ Uploaded(doc') /\ versions' = <<[number |-> 1, content |-> content]>>
    <3>1. /\ doc' = [version |-> 1, content |-> content, extraction |-> "pending", text |-> "none"]
          /\ versions' = <<[number |-> 1, content |-> content]>>
      BY <1>1 DEF Upload, Absent
    <3> QED
      BY <3>1, IndexAssumption DEF Doc, Uploaded
  <2>2. versions' \in Seq(Version)
    BY <2>1 DEF Version
  <2>3. UNCHANGED <<chunks, request, overlaps>> /\ Enqueued /\ doc.version = 0
    BY <1>1 DEF Upload
  <2>4. ~ Uploaded(doc)
    BY <2>3 DEF Uploaded
  <2>5. (\A r \in Requests : ~ request[r].open) /\ \A j \in Jobs : job[j].pc = "none"
    BY <1>0, <2>4 DEF UploadedFirst
  <2>6. \A j \in Jobs : job'[j].pc \in {"none", "queued", "ended"}
    BY <1>0, <2>3, <2>5, EnqueuedAddsOne
  <2>7. TypeOK'
    BY <1>0, <2>1, <2>2, <2>3, EnqueuedAddsOne DEF TypeOK, JobType
  <2>8. UploadedFirst'
    BY <2>1, <2>3, <2>5, <2>6 DEF UploadedFirst, Uploaded, Working
  <2> QED
    BY <2>7, <2>8 DEF Typed
<1>2. ASSUME NEW r \in Requests, Load(r) PROVE Typed'
  <2>1. UNCHANGED <<doc, versions, chunks, job, enqueued, mishap>> /\ Joins("request") /\ doc.version > 0
    BY <1>2 DEF Load
  <2>2. TypeOK'
    BY <1>0, <1>2, <1>t, <2>1, RequestsStep DEF TypeOK, Request
  <2>3. UploadedFirst'
    BY <1>0, <1>2, <2>1, RequestsStep DEF UploadedFirst, Uploaded, Working, Request
  <2> QED
    BY <2>2, <2>3 DEF Typed
<1>3. ASSUME NEW r \in Requests, Abort(r) \/ Reindex(r) PROVE Typed'
  <2>1. UNCHANGED <<doc, versions, chunks, overlaps>> /\ (Enqueued \/ UNCHANGED <<job, enqueued, mishap>>) /\ request[r].open
    BY <1>3 DEF Abort, Reindex
  <2>2. Uploaded(doc) /\ Uploaded(doc)'
    BY <1>0, <2>1 DEF UploadedFirst, Uploaded
  <2>3. TypeOK'
    BY <1>0, <1>3, <2>1, RequestsStep, EnqueuedAddsOne DEF TypeOK, JobType, Request
  <2>4. \A j \in Working' : job'[j] = job[j] /\ j \in Working
    BY <1>0, <2>1, EnqueuedAddsOne DEF Working
  <2>5. \A q \in Requests : request'[q].open => request'[q] = request[q]
    BY <1>0, <1>3, RequestsStep DEF Request, Load, Abort, Reindex
  <2>6. UploadedFirst'
    BY <1>0, <2>1, <2>2, <2>4, <2>5 DEF UploadedFirst, Uploaded
  <2> QED
    BY <2>3, <2>6 DEF Typed
<1>4. ASSUME NEW r \in Requests, NEW content \in Contents, AddVersion(r, content)
      PROVE  Typed'
  <2>1. Enqueued /\ UNCHANGED <<chunks, overlaps>> /\ request[r].open
        /\ versions' = Append(versions, VersionOf(request[r].doc, content))
    BY <1>4 DEF AddVersion
  <2>2. Uploaded(doc) /\ Uploaded(request[r].doc)
    BY <1>0, <2>1 DEF UploadedFirst
  <2>3. doc' \in Doc /\ Uploaded(doc') /\ VersionOf(request[r].doc, content) \in Version
    BY <1>0, <1>4, <2>2, NewVersion
  <2>4. versions' \in Seq(Version)
    BY <1>0, <2>1, <2>3 DEF TypeOK
  <2>5. TypeOK'
    BY <1>0, <1>4, <2>1, <2>3, <2>4, RequestsStep, EnqueuedAddsOne DEF TypeOK, JobType, Request
  <2>6. \A j \in Working' : job'[j] = job[j] /\ j \in Working
    BY <1>0, <2>1, EnqueuedAddsOne DEF Working
  <2>7. \A q \in Requests : request'[q].open => request'[q] = request[q]
    BY <1>0, <1>4, <2>1, RequestsStep DEF Request, Load
  <2>8. UploadedFirst'
    BY <1>0, <2>3, <2>6, <2>7 DEF UploadedFirst, Uploaded
  <2> QED
    BY <2>5, <2>8 DEF Typed
<1>5. ASSUME NEW j \in Jobs, Work(j) PROVE Typed'
  <2>1. doc' \in Doc /\ doc'.version = doc.version /\ doc'.content = doc.content
    BY <1>0, <1>5, OutcomeKeepsVersion
  <2>2. chunks' \subseteq Chunk /\ (chunks' = chunks \/ j \in Working)
    <3>1. chunks \subseteq Chunk
      BY <1>0 DEF TypeOK
    <3> QED
      BY <1>5, <3>1, NewChunk, WorkLeaves DEF Working, Index
  <2>3. mishap' \in BOOLEAN
    BY <1>0, <1>5, WorkLeaves DEF TypeOK
  <2>4. overlaps' \in SUBSET {"requests", "jobs", "both"}
    <3>1. overlaps' = overlaps \/ Joins("job")
      BY <1>5 DEF Work, Begin, ExtractFails, Delete, Index, Die, DieAndReturn
    <3> QED
      BY <1>0, <1>t, <3>1 DEF TypeOK
  <2>5. TypeOK'
    BY <1>0, <1>5, <2>1, <2>2, <2>3, <2>4, JobsStep, WorkLeaves DEF TypeOK, JobType
  <2>6. job[j].pc # "none"
    BY <1>5 DEF Work, Begin, ExtractFails, Delete, Index, Die, DieAndReturn, Working
  <2>7. Uploaded(doc) /\ Uploaded(doc')
    BY <1>0, <2>1, <2>6 DEF UploadedFirst, Uploaded
  <2>8. \A i \in Working' : Uploaded(job'[i].doc)
    <3>1. \A i \in Working' \ {j} : i \in Working /\ job'[i] = job[i]
      BY <1>0, <1>5, JobsStep DEF Working
    <3>2. j \in Working' => Uploaded(job'[j].doc)
      <4>1. Begin(j) => Uploaded(job'[j].doc)
        BY <1>0, <1>5, <2>7, JobsStep
      <4>2. Delete(j) => Uploaded(job'[j].doc)
        BY <1>0, <1>5, JobsStep DEF Delete, Working, UploadedFirst
      <4>3. j \in Working' => Begin(j) \/ Delete(j)
        BY <1>0, <1>5, JobsStep DEF Working, Work
      <4> QED
        BY <4>1, <4>2, <4>3
    <3> QED
      BY <1>0, <3>1, <3>2 DEF UploadedFirst
  <2>9. UploadedFirst'
    <3>1. request' = request
      BY <1>5, WorkLeaves
    <3>2. \A r \in Requests : request[r].open => Uploaded(request[r].doc)
      BY <1>0 DEF UploadedFirst
    <3>3. doc'.version # 0
      BY <2>7 DEF Uploaded
    <3> QED
      BY <2>7, <2>8, <3>1, <3>2, <3>3 DEF UploadedFirst, Uploaded
  <2> QED
    BY <2>5, <2>9 DEF Typed
<1>6. CASE UNCHANGED vars
  BY <1>0, <1>6 DEF vars, Typed, TypeOK, UploadedFirst, Uploaded, Working
<1> QED
  BY <1>1, <1>2, <1>3, <1>4, <1>5, <1>6 DEF Next, Request

\* Type correctness.
THEOREM IndexTypesAreKept == Spec => []TypeOK
<1>1. Typed => TypeOK
  BY DEF Typed
<1> QED
  BY <1>1, TypedInit, TypedStep, PTL DEF Spec

-----------------------------------------------------------------------------
(* Versions, when no two requests hold the document at once. *)

OneReader ==
  /\ \A q, r \in Requests : request[q].open /\ request[r].open => q = r
  /\ \A r \in Requests :
       request[r].open => request[r].doc.version = doc.version /\ request[r].doc.content = doc.content

Numbers ==
  /\ Len(versions) = doc.version
  /\ \A i \in DOMAIN versions : versions[i].number = i
  /\ versions # << >> => Last(versions).content = doc.content

Tells(row) == [number |-> row.version, content |-> row.content]

\* What the jobs have read, and what they have written, are versions.
Recorded ==
  /\ \A j \in Working : Tells(job[j].doc) \in Range(versions)
  /\ \A c \in chunks : Tells(c) \in Range(versions)

Numbered == Typed /\ ("requests" \notin overlaps => OneReader /\ Numbers /\ Recorded)

LEMMA CurrentIsRecorded ==
  ASSUME TypeOK, Numbers, Uploaded(doc)
  PROVE  Tells(doc) \in Range(versions)
<1>1. doc.version \in Nat \ {0} /\ versions \in Seq(Version) /\ Len(versions) = doc.version
  BY DEF TypeOK, Doc, Uploaded, Numbers
<1> DEFINE v == versions[Len(versions)]
<1>2. Len(versions) \in DOMAIN versions /\ versions # << >> /\ v \in Version
  BY <1>1
<1>3. v.number = doc.version /\ v.content = doc.content
  BY <1>1, <1>2 DEF Numbers, Last
<1>4. v = Tells(doc)
  BY <1>2, <1>3 DEF Version, Tells
<1> QED
  BY <1>2, <1>4 DEF Range

LEMMA RangeGrows ==
  ASSUME versions \in Seq(Version), NEW v \in Version
  PROVE  Range(versions) \subseteq Range(Append(versions, v))
BY DEF Range

LEMMA NumberedInit == Init => Numbered
<1> SUFFICES ASSUME Init PROVE Numbered
  OBVIOUS
<1>1. Typed
  BY TypedInit
<1>2. (\A r \in Requests : ~ request[r].open) /\ Working = {} /\ chunks = {}
  BY DEF Init, Closed, Working, NoJob
<1>3. Numbers
  BY DEF Init, Numbers, Absent
<1> QED
  BY <1>1, <1>2, <1>3 DEF Numbered, OneReader, Recorded

LEMMA OverlapsGrow == [Next]_vars => overlaps \subseteq overlaps'
BY DEF Next, Upload, Request, Load, Abort, Reindex, AddVersion, Work, Begin, ExtractFails, Delete,
       Index, Die, DieAndReturn, vars, Joins

LEMMA NumberedStep == Numbered /\ [Next]_vars => Numbered'
<1> SUFFICES ASSUME Numbered, [Next]_vars, "requests" \notin overlaps'
             PROVE  OneReader' /\ Numbers' /\ Recorded'
  BY TypedStep DEF Numbered
<1>0. TypeOK /\ UploadedFirst /\ Typed /\ TypeOK'
  BY TypedStep DEF Numbered, Typed
<1>a. OneReader /\ Numbers /\ Recorded
  BY OverlapsGrow DEF Numbered
<1>1. ASSUME NEW content \in Contents, Upload(content)
      PROVE  OneReader' /\ Numbers' /\ Recorded'
  <2>1. /\ versions' = <<[number |-> 1, content |-> content]>>
        /\ doc'.version = 1 /\ doc'.content = content
        /\ UNCHANGED <<chunks, request>> /\ Enqueued /\ doc.version = 0
    BY <1>1 DEF Upload, Absent
  <2>2. ~ Uploaded(doc)
    BY <2>1 DEF Uploaded
  <2>3. /\ \A r \in Requests : ~ request[r].open
        /\ \A j \in Jobs : job[j].pc = "none"
        /\ chunks = {}
    BY <1>0, <2>1, <2>2 DEF UploadedFirst
  <2>4. \A j \in Jobs : job'[j].pc \in {"none", "queued", "ended"}
    BY <1>0, <2>1, <2>3, EnqueuedAddsOne
  <2>5. OneReader' /\ Recorded'
    BY <2>1, <2>3, <2>4 DEF OneReader, Recorded, Working
  <2>6. Numbers'
    BY <2>1 DEF Numbers, Last
  <2> QED
    BY <2>5, <2>6
<1>2. ASSUME NEW r \in Requests, Load(r) PROVE OneReader' /\ Numbers' /\ Recorded'
  <2>1. UNCHANGED <<doc, versions, chunks, job>> /\ Joins("request")
    BY <1>2 DEF Load
  <2>2. Open = {}
    BY <2>1 DEF Joins
  <2>3. \A q \in Requests \ {r} : ~ request'[q].open
    BY <1>0, <1>2, <2>2, RequestsStep DEF Open, Request
  <2>4. request'[r].open => request'[r].doc = doc
    BY <1>0, <1>2, RequestsStep DEF Request
  <2>5. OneReader'
    BY <2>1, <2>3, <2>4 DEF OneReader
  <2> QED
    BY <1>a, <2>1, <2>5 DEF Numbers, Recorded, Working
<1>3. ASSUME NEW r \in Requests, Abort(r) \/ Reindex(r) PROVE OneReader' /\ Numbers' /\ Recorded'
  <2>1. UNCHANGED <<doc, versions, chunks>> /\ (Enqueued \/ UNCHANGED <<job, enqueued, mishap>>)
    BY <1>3 DEF Abort, Reindex
  <2>2. \A j \in Working' : job'[j] = job[j] /\ j \in Working
    BY <1>0, <2>1, EnqueuedAddsOne DEF Working
  <2>3. \A q \in Requests : request'[q].open => request'[q] = request[q]
    BY <1>0, <1>3, RequestsStep DEF Request, Load, Abort, Reindex
  <2>4. OneReader'
    BY <1>a, <2>1, <2>3 DEF OneReader
  <2> QED
    BY <1>a, <2>1, <2>2, <2>4 DEF Numbers, Recorded
<1>4. ASSUME NEW r \in Requests, NEW content \in Contents, AddVersion(r, content)
      PROVE  OneReader' /\ Numbers' /\ Recorded'
  <2> DEFINE v == VersionOf(request[r].doc, content)
  <2>1. Enqueued /\ UNCHANGED <<chunks, overlaps>> /\ request[r].open /\ versions' = Append(versions, v)
    BY <1>4 DEF AddVersion
  <2>2. Uploaded(doc) /\ Uploaded(request[r].doc)
    BY <1>0, <2>1 DEF UploadedFirst
  <2>3. request[r].doc.version = doc.version /\ request[r].doc.content = doc.content
    BY <1>a, <2>1 DEF OneReader
  <2>4. /\ v \in Version /\ v.number = doc.version + 1 /\ v.content = content
        /\ doc'.version = doc.version + 1 /\ doc'.content = content
    BY <1>0, <1>4, <2>2, <2>3, NewVersion DEF VersionOf
  <2> HIDE DEF v
  <2>5. versions \in Seq(Version) /\ doc.version \in Nat
    BY <1>0 DEF TypeOK, Doc
  <2>6. Numbers'
    BY <1>a, <2>1, <2>4, <2>5 DEF Numbers, Last
  <2>7. \A j \in Working' : job'[j] = job[j] /\ j \in Working
    BY <1>0, <2>1, EnqueuedAddsOne DEF Working
  <2>8. Recorded'
    BY <1>a, <2>1, <2>4, <2>5, <2>7, RangeGrows DEF Recorded
  <2>9. \A q \in Requests : ~ request'[q].open
    BY <1>0, <1>4, <1>a, <2>1, RequestsStep DEF Request, OneReader, Load
  <2> QED
    BY <2>6, <2>8, <2>9 DEF OneReader
<1>5. ASSUME NEW j \in Jobs, Work(j) PROVE OneReader' /\ Numbers' /\ Recorded'
  <2>1. doc'.version = doc.version /\ doc'.content = doc.content /\ UNCHANGED <<versions, request>>
    BY <1>0, <1>5, OutcomeKeepsVersion, WorkLeaves
  <2>2. OneReader' /\ Numbers'
    BY <1>a, <2>1 DEF OneReader, Numbers
  <2>3. \A c \in chunks' : Tells(c) \in Range(versions)
    <3>1. Index(j) => Tells(ChunkOf(j)) = Tells(job[j].doc) /\ j \in Working
      BY DEF ChunkOf, Tells, Index, Working
    <3> QED
      BY <1>0, <1>5, <1>a, <3>1, NewChunk, WorkLeaves DEF Recorded
  <2>4. \A i \in Working' : Tells(job'[i].doc) \in Range(versions)
    <3>1. \A i \in Working' \ {j} : i \in Working /\ job'[i] = job[i]
      BY <1>0, <1>5, JobsStep DEF Working
    <3>2. Begin(j) => Tells(job'[j].doc) \in Range(versions)
      <4>1. Begin(j) => Uploaded(doc)
        BY <1>0 DEF Begin, UploadedFirst
      <4> QED
        BY <1>0, <1>5, <1>a, <4>1, JobsStep, CurrentIsRecorded
    <3>3. Delete(j) => Tells(job'[j].doc) \in Range(versions)
      BY <1>0, <1>5, <1>a, JobsStep DEF Delete, Working, Recorded
    <3>4. j \in Working' => Begin(j) \/ Delete(j)
      BY <1>0, <1>5, JobsStep DEF Working, Work
    <3> QED
      BY <1>a, <3>1, <3>2, <3>3, <3>4 DEF Recorded
  <2> QED
    BY <2>1, <2>2, <2>3, <2>4 DEF Recorded
<1>6. CASE UNCHANGED vars
  BY <1>a, <1>6 DEF vars, OneReader, Numbers, Recorded, Working
<1> QED
  BY <1>1, <1>2, <1>3, <1>4, <1>5, <1>6 DEF Next, Request

\* When no two requests have held the document at once, its versions are
\* numbered without a gap, and its row tells the last one.
THEOREM VersionsStayNumbered == Spec => []VersionsAreNumbered
<1>1. Numbered => VersionsAreNumbered
  BY DEF Numbered, Numbers, VersionsAreNumbered
<1> QED
  BY <1>1, NumberedInit, NumberedStep, PTL DEF Spec

\* Under the same condition every chunk tells the version its text comes
\* from, however many jobs worked side by side, died or came twice.
THEOREM ChunksStayTrue == Spec => []ChunksTellTheirVersion
<1>1. Numbered => ChunksTellTheirVersion
  BY DEF Numbered, Recorded, Tells, ChunksTellTheirVersion
<1> QED
  BY <1>1, NumberedInit, NumberedStep, PTL DEF Spec

\* The document leaves the index only for a text without a word.
THEOREM IndexIsNeverEmptied == Spec => NeverUnindexed
<1>1. ASSUME [Next]_vars, chunks # {}, chunks' = {}
      PROVE  \E j \in Jobs : Index(j) /\ Blank(job[j].doc.content)
  <2>1. PICK j \in Jobs : Index(j)
    BY <1>1 DEF Next, Upload, Request, Load, Abort, Reindex, AddVersion, Work, Begin, ExtractFails,
                Delete, Die, DieAndReturn, vars
  <2>2. chunks' = Replaced(chunks, job[j].doomed, ChunkOf(j))
    BY <2>1 DEF Index
  <2>3. Blank(ChunkOf(j).content)
    BY <1>1, <2>2 DEF Replaced
  <2> QED
    BY <2>1, <2>3 DEF ChunkOf
<1>2. [Next]_vars => [chunks # {} => chunks' # {} \/ \E j \in Jobs : Index(j) /\ Blank(job[j].doc.content)]_vars
  BY <1>1
<1> QED
  BY <1>2, PTL DEF Spec, NeverUnindexed

-----------------------------------------------------------------------------
(* The text that is found, when no two jobs work at once. *)

\* The index holds the last version, or nothing because there is no text.
Settled ==
  doc.extraction = "done" /\ UpToDate /\ (chunks = {} => Blank(doc.content))

\* The job that works sees all the chunks it will replace.
OneJob ==
  /\ \A i, j \in Working : i = j
  /\ \A j \in Jobs : job[j].pc = "embedding" => job[j].doomed = chunks

\* Somebody is still to index the document as it is, or it is done.
InHand ==
  \/ \E j \in Jobs : job[j].pc = "queued"
  \/ \E j \in Working : job[j].doc = doc
  \/ Working = {} /\ Settled

\* Nobody works beside anybody.
Alone ==
  /\ \A q, r \in Requests : request[q].open /\ request[r].open => q = r
  /\ \A r \in Requests : request[r].open => request[r].doc = doc /\ Working = {}
  /\ \A j \in Working : job[j].doc = doc
  /\ doc.extraction = "done" => UpToDate

CatchingUp ==
  /\ Typed
  /\ "jobs" \notin overlaps => OneJob /\ (doc.version > 0 /\ ~ mishap => InHand)
  /\ overlaps = {} => Alone

LEMMA CatchingUpInit == Init => CatchingUp
<1> SUFFICES ASSUME Init PROVE CatchingUp
  OBVIOUS
<1>1. Typed
  BY TypedInit
<1>2. /\ \A r \in Requests : ~ request[r].open
      /\ Working = {} /\ doc.version = 0 /\ doc.extraction = "pending"
      /\ \A j \in Jobs : job[j].pc = "none"
  BY DEF Init, Closed, Working, NoJob, Absent
<1> QED
  BY <1>1, <1>2 DEF CatchingUp, OneJob, Alone

\* The job that ends with the document as it read it settles it.
LEMMA IndexSettles ==
  ASSUME Typed, OneJob, NEW j \in Jobs, Index(j), job[j].doc = doc
  PROVE  Settled' /\ Working' = {}
<1>0. TypeOK /\ UploadedFirst /\ Work(j)
  BY DEF Typed, Work
<1>1. j \in Working /\ job[j].pc = "embedding" /\ job[j].doomed = chunks
  BY DEF Index, Working, OneJob
<1>2. doc \in Doc /\ doc.content \in Contents
  BY <1>0, <1>1 DEF TypeOK, UploadedFirst, Uploaded, Doc
<1> DEFINE new == [doc EXCEPT !.extraction = "done", !.text = doc.content]
<1>3. /\ new \in Doc /\ new.version = doc.version /\ new.content = doc.content
      /\ new.extraction = "done" /\ new.text = doc.content
  BY <1>2 DEF Doc
<1>4. doc' = Written(doc, doc, new)
  BY DEF Index
<1> HIDE DEF new
<1>5. doc' = new
  BY <1>2, <1>3, <1>4, WrittenAlone
<1>6. ChunkOf(j) = [job |-> j, version |-> doc.version, content |-> doc.content]
  BY DEF ChunkOf
<1>7. chunks' = IF Blank(doc.content) THEN {} ELSE {ChunkOf(j)}
  BY <1>1, <1>6 DEF Index, Replaced
<1>8. UpToDate'
  BY <1>2, <1>3, <1>5, <1>6, <1>7, FilesAreWhole DEF UpToDate
<1>9. Working' = {}
  BY <1>0, <1>1, JobsStep DEF OneJob, Working
<1> QED
  BY <1>3, <1>5, <1>7, <1>8, <1>9 DEF Settled

\* The steps of a job, when no other works.
LEMMA WorkCatchesUp ==
  ASSUME Typed, OneJob, NEW j \in Jobs, Work(j), "jobs" \notin overlaps',
         mishap \/ InHand
  PROVE  OneJob' /\ (mishap' \/ InHand')
<1>0. TypeOK
  BY DEF Typed
<1>1. CASE Begin(j)
  <2>1. Working = {} /\ UNCHANGED <<doc, chunks, mishap>>
    BY <1>1 DEF Begin, Joins
  <2>2. job'[j].pc = "extracting" /\ job'[j].doc = doc /\ \A i \in Jobs \ {j} : job'[i] = job[i]
    BY <1>0, <1>1, JobsStep
  <2>3. Working' = {j} /\ \A i \in Jobs : job'[i].pc # "embedding"
    BY <2>1, <2>2 DEF Working
  <2> QED
    BY <2>1, <2>2, <2>3 DEF OneJob, InHand
<1>2. CASE Delete(j)
  <2>1. job[j].pc = "extracting" /\ UNCHANGED <<doc, chunks, mishap>>
    BY <1>2 DEF Delete
  <2>2. /\ job'[j].pc = "embedding" /\ job'[j].doc = job[j].doc /\ job'[j].doomed = chunks
        /\ \A i \in Jobs \ {j} : job'[i] = job[i]
    BY <1>0, <1>2, JobsStep
  <2>3. Working' = Working /\ j \in Working
    BY <2>1, <2>2 DEF Working
  <2>4. OneJob'
    BY <2>1, <2>2, <2>3 DEF OneJob, Working
  <2>5. InHand => InHand'
    <3>1. \A i \in Jobs : job'[i].doc = job[i].doc /\ (job[i].pc = "queued" => job'[i].pc = "queued")
      BY <2>1, <2>2
    <3>2. Working \subseteq Jobs
      BY DEF Working
    <3> QED
      BY <2>1, <2>3, <3>1, <3>2 DEF InHand
  <2> QED
    BY <2>1, <2>4, <2>5
<1>3. CASE Index(j)
  <2>1. /\ j \in Working /\ job[j].pc = "embedding" /\ UNCHANGED mishap
        /\ job'[j].pc = "ended" /\ \A i \in Jobs \ {j} : job'[i] = job[i]
    BY <1>0, <1>3, JobsStep DEF Index, Working
  <2>2. Working' = {} /\ \A i \in Jobs : job'[i].pc # "embedding"
    BY <2>1 DEF OneJob, Working
  <2>3. OneJob'
    BY <2>2 DEF OneJob
  <2>4. CASE \E i \in Jobs : job[i].pc = "queued"
    BY <2>1, <2>3, <2>4 DEF InHand
  <2>5. CASE \E i \in Working : job[i].doc = doc
    <3>1. job[j].doc = doc
      BY <2>1, <2>5 DEF OneJob
    <3> QED
      BY <1>3, <2>3, <3>1, IndexSettles DEF InHand
  <2> QED
    BY <2>1, <2>3, <2>4, <2>5 DEF InHand
<1>4. CASE ExtractFails(j) \/ Die(j)
  <2>1. /\ mishap' = TRUE /\ UNCHANGED chunks
        /\ job'[j].pc = "ended" /\ \A i \in Jobs \ {j} : job'[i] = job[i]
    BY <1>0, <1>4, JobsStep DEF ExtractFails, Die
  <2>2. OneJob'
    BY <2>1 DEF OneJob, Working
  <2> QED
    BY <2>1, <2>2
<1>5. CASE DieAndReturn(j)
  <2>1. /\ UNCHANGED <<chunks, mishap>>
        /\ job'[j].pc = "queued" /\ \A i \in Jobs \ {j} : job'[i] = job[i]
    BY <1>0, <1>5, JobsStep DEF DieAndReturn
  <2>2. OneJob'
    BY <2>1 DEF OneJob, Working
  <2> QED
    BY <2>1, <2>2 DEF InHand
<1> QED
  BY <1>1, <1>2, <1>3, <1>4, <1>5 DEF Work

\* The steps of a job, when nobody works beside it.
LEMMA WorkAlone ==
  ASSUME Typed, OneJob, Alone, NEW j \in Jobs, Work(j), overlaps' = {}
  PROVE  Alone'
<1>0. TypeOK /\ UNCHANGED request
  BY WorkLeaves DEF Typed
<1>1. CASE Begin(j)
  <2>1. Working = {} /\ Open = {} /\ UNCHANGED <<doc, chunks>>
    BY <1>1 DEF Begin, Joins
  <2>2. job'[j].doc = doc /\ \A i \in Jobs \ {j} : job'[i] = job[i]
    BY <1>0, <1>1, JobsStep
  <2>3. (\A i \in Working' : job'[i].doc = doc) /\ \A r \in Requests : ~ request[r].open
    BY <2>1, <2>2 DEF Working, Open
  <2>4. UpToDate => UpToDate'
    BY <2>1 DEF UpToDate
  <2> QED
    BY <1>0, <2>1, <2>3, <2>4 DEF Alone
<1>2. CASE ~ Begin(j)
  <2>1. j \in Working /\ job[j].doc = doc
    BY <1>2 DEF Alone, Work, ExtractFails, Delete, Index, Die, DieAndReturn, Working
  <2>2. \A r \in Requests : ~ request[r].open
    BY <2>1 DEF Alone
  <2>3. CASE Index(j)
    <3>1. Settled' /\ Working' = {}
      BY <2>1, <2>3, IndexSettles
    <3> QED
      BY <1>0, <2>2, <3>1 DEF Alone, Settled
  <2>4. CASE ExtractFails(j)
    <3>1. doc \in Doc /\ [doc EXCEPT !.extraction = "failed"] \in Doc
          /\ [doc EXCEPT !.extraction = "failed"].extraction = "failed"
      BY <1>0 DEF TypeOK, Doc
    <3>2. doc' = [doc EXCEPT !.extraction = "failed"]
      BY <2>1, <2>4, <3>1, WrittenAlone DEF ExtractFails
    <3>3. Working' = {}
      BY <1>0, <2>1, <2>4, JobsStep DEF OneJob, Working
    <3> QED
      BY <1>0, <2>2, <3>1, <3>2, <3>3 DEF Alone
  <2>5. CASE Delete(j) \/ Die(j) \/ DieAndReturn(j)
    <3>1. UNCHANGED <<doc, chunks>>
      BY <2>5 DEF Delete, Die, DieAndReturn
    <3>2. \A i \in Working' : i \in Working /\ job'[i].doc = job[i].doc
      BY <1>0, <2>1, <2>5, JobsStep DEF Working
    <3>3. UpToDate => UpToDate'
      BY <3>1 DEF UpToDate
    <3> QED
      BY <1>0, <2>2, <3>1, <3>2, <3>3 DEF Alone
  <2> QED
    BY <1>2, <2>3, <2>4, <2>5 DEF Work
<1> QED
  BY <1>1, <1>2

LEMMA CatchingUpStep ==
  ASSUME CatchingUp, [Next]_vars
  PROVE  CatchingUp'
<1> DEFINE Caught == OneJob /\ (doc.version > 0 /\ ~ mishap => InHand)
<1>0. Typed /\ TypeOK /\ UploadedFirst /\ Typed'
  BY TypedStep DEF CatchingUp, Typed
<1>a. ("jobs" \notin overlaps' => Caught) /\ (overlaps' = {} => Alone)
  BY OverlapsGrow DEF CatchingUp
<1>q. ASSUME Enqueued, UNCHANGED chunks, Caught
      PROVE  Caught'
  <2>1. \A j \in Jobs : job'[j].pc = "embedding" => job'[j] = job[j]
    BY <1>0, <1>q, EnqueuedAddsOne
  <2>2. Working' \subseteq Working
    BY <1>0, <1>q, EnqueuedAddsOne DEF Working
  <2>3. OneJob'
    BY <1>q, <2>1, <2>2 DEF OneJob
  <2>4. mishap' \/ InHand'
    BY <1>0, <1>q, EnqueuedAddsOne DEF InHand
  <2> QED
    BY <2>3, <2>4
<1>r. ASSUME Enqueued
      PROVE  \A j \in Working' : j \in Working /\ job'[j] = job[j]
  BY <1>0, <1>r, EnqueuedAddsOne DEF Working
<1>s. UNCHANGED <<doc, chunks>> => UpToDate' = UpToDate
  BY DEF UpToDate
<1>1. ASSUME NEW content \in Contents, Upload(content) PROVE CatchingUp'
  <2>1. /\ doc.version = 0 /\ doc' = [Absent EXCEPT !.version = 1, !.content = content]
        /\ UNCHANGED <<chunks, request, overlaps>> /\ Enqueued
    BY <1>1 DEF Upload
  <2>2. ~ Uploaded(doc) /\ doc'.extraction = "pending"
    BY <2>1 DEF Uploaded, Absent
  <2>3. (\A r \in Requests : ~ request[r].open) /\ \A j \in Jobs : job[j].pc = "none"
    BY <1>0, <2>2 DEF UploadedFirst
  <2>4. Working' = {}
    BY <1>r, <2>1, <2>3 DEF Working
  <2> QED
    BY <1>0, <1>a, <1>q, <2>1, <2>2, <2>3, <2>4 DEF CatchingUp, Alone
<1>2. ASSUME NEW r \in Requests, Load(r) PROVE CatchingUp'
  <2>1. UNCHANGED <<doc, versions, chunks, job, enqueued, mishap>> /\ Joins("request")
    BY <1>2 DEF Load
  <2>2. "jobs" \notin overlaps' => Caught'
    BY <1>a, <1>s, <2>1 DEF OneJob, InHand, Settled, Working
  <2>3. ASSUME overlaps' = {} PROVE Alone'
    <3>1. Open = {} /\ Working = {}
      BY <2>1, <2>3 DEF Joins
    <3>2. \A q \in Requests \ {r} : ~ request'[q].open
      BY <1>0, <1>2, <3>1, RequestsStep DEF Open, Request
    <3>3. request'[r].open => request'[r].doc = doc
      BY <1>0, <1>2, RequestsStep DEF Request
    <3> QED
      BY <1>a, <1>s, <2>1, <2>3, <3>1, <3>2, <3>3 DEF Alone, Working
  <2> QED
    BY <1>0, <2>2, <2>3 DEF CatchingUp
<1>3. ASSUME NEW r \in Requests, Abort(r) \/ Reindex(r) PROVE CatchingUp'
  <2>1. UNCHANGED <<doc, versions, chunks, overlaps>> /\ (Enqueued \/ UNCHANGED <<job, enqueued, mishap>>)
    BY <1>3 DEF Abort, Reindex
  <2>2. "jobs" \notin overlaps' => Caught'
    BY <1>a, <1>q, <1>s, <2>1 DEF OneJob, InHand, Settled, Working
  <2>3. \A q \in Requests : request'[q].open => request'[q] = request[q]
    BY <1>0, <1>3, RequestsStep DEF Request, Load, Abort, Reindex
  <2>4. \A j \in Working' : j \in Working /\ job'[j] = job[j]
    BY <1>r, <2>1 DEF Working
  <2>5. overlaps' = {} => Alone'
    BY <1>a, <1>s, <2>1, <2>3, <2>4 DEF Alone
  <2> QED
    BY <1>0, <2>2, <2>5 DEF CatchingUp
<1>4. ASSUME NEW r \in Requests, NEW content \in Contents, AddVersion(r, content)
      PROVE  CatchingUp'
  <2> DEFINE new == Renewed(request[r].doc, content)
  <2>1. Enqueued /\ UNCHANGED <<chunks, overlaps>> /\ request[r].open
        /\ doc' = Written(doc, request[r].doc, new)
    BY <1>4 DEF AddVersion
  <2>2. Uploaded(doc) /\ Uploaded(request[r].doc) /\ doc \in Doc
    BY <1>0, <2>1 DEF UploadedFirst, TypeOK
  <2>3. new \in Doc /\ new.extraction = "pending"
    BY <1>0, <1>4, <2>2, NewVersion DEF Renewed
  <2> HIDE DEF new
  <2>4. ASSUME overlaps' = {} PROVE Alone'
    <3>1. request[r].doc = doc /\ Working = {}
      BY <1>a, <2>1, <2>4 DEF Alone
    <3>2. doc'.extraction = "pending"
      BY <2>1, <2>2, <2>3, <3>1, WrittenAlone
    <3>3. Working' = {}
      BY <1>r, <2>1, <3>1
    <3>4. \A q \in Requests : ~ request'[q].open
      BY <1>0, <1>4, <1>a, <2>1, <2>4, RequestsStep DEF Request, Alone, Load
    <3> QED
      BY <3>2, <3>3, <3>4 DEF Alone
  <2> QED
    BY <1>0, <1>a, <1>q, <2>1, <2>4 DEF CatchingUp
<1>5. ASSUME NEW j \in Jobs, Work(j) PROVE CatchingUp'
  <2>1. doc.version > 0
    BY <1>0, <1>5 DEF UploadedFirst, Uploaded, Work, Begin, ExtractFails, Delete, Index, Die, DieAndReturn, Working
  <2>2. "jobs" \notin overlaps' => Caught'
    BY <1>0, <1>5, <1>a, <2>1, WorkCatchesUp
  <2>3. overlaps' = {} => Alone'
    BY <1>0, <1>5, <1>a, WorkAlone
  <2> QED
    BY <1>0, <2>2, <2>3 DEF CatchingUp
<1>6. CASE UNCHANGED vars
  BY <1>0, <1>a, <1>s, <1>6 DEF vars, CatchingUp, OneJob, InHand, Settled, Alone, Working
<1> QED
  BY <1>1, <1>2, <1>3, <1>4, <1>5, <1>6 DEF Next, Request

\* A document that everybody has left is indexed in its last version, with
\* the whole of its text, unless two jobs worked at once or one was lost or
\* failed; and unless anybody worked beside anybody, a document that shows as
\* indexed is.
THEOREM TheIndexCatchesUp == Spec => []IndexCatchesUp
<1>1. CatchingUp => IndexCatchesUp
  <2> SUFFICES ASSUME CatchingUp PROVE IndexCatchesUp
    OBVIOUS
  <2>1. AtRest => Working = {} /\ \A j \in Jobs : job[j].pc # "queued"
    BY DEF AtRest, Working
  <2> QED
    BY <2>1 DEF CatchingUp, InHand, Settled, Alone, IndexCatchesUp
<1>2. CatchingUp /\ [Next]_vars => CatchingUp'
  BY CatchingUpStep
<1> QED
  BY <1>1, <1>2, CatchingUpInit, PTL DEF Spec
=============================================================================
