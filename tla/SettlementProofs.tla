--------------------------- MODULE SettlementProofs ---------------------------
(***************************************************************************)
(* Proofs, for any amounts, expenses, units and payments, that the plans   *)
(* Settlement describes settle: the balances of a ledger add up to nothing *)
(* and still do when rounded, and what reconciling leaves, whatever was    *)
(* paid or planned before, settles the ledger, keeps the payments and      *)
(* gives no two rows one id.                                               *)
(*                                                                         *)
(* The functions are folds and recursions over lists.  What is shown of    *)
(* them first, by well-founded induction, is that they have the values     *)
(* their definitions say (Recursion, FoldLaw, MatchesIs); the rest is by   *)
(* induction over lists and finite sets (ListInduction, SubsetInduction),  *)
(* stated with a set in place of a predicate.                              *)
(***************************************************************************)
EXTENDS Settlement, TLAPS, WellFoundedInduction, FiniteSetTheorems, SequenceTheorems

\* Induction over numbers, for a set instead of a predicate.
LEMMA Induction ==
  ASSUME NEW B, 0 \in B, \A n \in Nat : n \in B => n + 1 \in B
  PROVE  \A n \in Nat : n \in B
<1> SUFFICES ASSUME NEW n \in Nat, n \notin B PROVE FALSE
  OBVIOUS
<1> DEFINE out == {k \in Nat : k \notin B}
<1>1. PICK k \in out : \A m \in out : ~(<<m, k>> \in OpToRel(<, Nat))
  BY NatLessThanWellFounded, WFMin
<1>2. \A m \in out : ~(m < k)
  BY <1>1 DEF OpToRel
<1>3. k # 0 /\ k - 1 \in Nat /\ k - 1 < k
  OBVIOUS
<1>4. k - 1 \in B
  BY <1>2, <1>3
<1>5. (k - 1) + 1 \in B
  BY <1>3, <1>4
<1> QED BY <1>3, <1>5

\* The recursion f[x] = step[x, f[next[x]]] goes down in m until x is in stop.
Descends(D, Y, m, stop, next, base, step) ==
  /\ m \in [D -> Nat] /\ stop \subseteq D /\ next \in [D -> D]
  /\ base \in [D -> Y] /\ step \in [D -> [Y -> Y]]
  /\ \A x \in D \ stop : m[next[x]] < m[x]

Solves(f, D, Y, stop, next, base, step) ==
  /\ f \in [D -> Y]
  /\ \A x \in D : f[x] = IF x \in stop THEN base[x] ELSE step[x][f[next[x]]]

\* A function defined by recursion exists.
LEMMA Recursion ==
  ASSUME NEW D, NEW Y, NEW m, NEW stop, NEW next, NEW base, NEW step,
         Descends(D, Y, m, stop, next, base, step)
  PROVE  \E f : Solves(f, D, Y, stop, next, base, step)
<1> USE DEF Descends
<1> DEFINE Good(f, k) == \A x \in D : m[x] <= k =>
                           f[x] = IF x \in stop THEN base[x] ELSE step[x][f[next[x]]]
<1>1. \A k \in Nat : \E f \in [D -> Y] : Good(f, k)
  <2> DEFINE B == {k \in Nat : \E f \in [D -> Y] : Good(f, k)}
  <2>1. 0 \in B
    <3> DEFINE f == [x \in D |-> base[x]]
    <3>1. f \in [D -> Y] /\ Good(f, 0)
      OBVIOUS
    <3> QED BY <3>1
  <2>2. ASSUME NEW k \in Nat, k \in B
        PROVE  k + 1 \in B
    <3>1. PICK f \in [D -> Y] : Good(f, k)
      BY <2>2
    <3> DEFINE g == [x \in D |-> IF x \in stop THEN base[x] ELSE step[x][f[next[x]]]]
    <3>2. g \in [D -> Y]
      OBVIOUS
    <3>3. \A x \in D : m[x] <= k => g[x] = f[x]
      BY <3>1
    <3>4. Good(g, k + 1)
      <4> SUFFICES ASSUME NEW x \in D, m[x] <= k + 1, x \notin stop
                   PROVE  g[x] = step[x][g[next[x]]]
        OBVIOUS
      <4>1. next[x] \in D /\ m[next[x]] <= k
        OBVIOUS
      <4>2. g[next[x]] = f[next[x]]
        BY <3>3, <4>1
      <4>3. g[x] = step[x][f[next[x]]]
        OBVIOUS
      <4> QED BY <4>2, <4>3
    <3> HIDE DEF g, Good
    <3>5. \E h \in [D -> Y] : Good(h, k + 1)
      BY <3>2, <3>4
    <3> QED BY <3>5
  <2> HIDE DEF B
  <2>3. \A k \in Nat : k \in B
    BY <2>1, <2>2, Induction
  <2> QED BY <2>3 DEF B
<1>2. ASSUME NEW f \in [D -> Y], NEW g \in [D -> Y], NEW k \in Nat, Good(f, k), Good(g, k)
      PROVE  \A x \in D : m[x] <= k => f[x] = g[x]
  <2> DEFINE B == {j \in Nat : \A x \in D : m[x] <= k /\ m[x] < j => f[x] = g[x]}
  <2>1. 0 \in B
    OBVIOUS
  <2>2. ASSUME NEW j \in Nat, j \in B
        PROVE  j + 1 \in B
    <3> SUFFICES ASSUME NEW x \in D, m[x] <= k, m[x] < j + 1
                 PROVE  f[x] = g[x]
      OBVIOUS
    <3>1. CASE x \in stop
      BY <1>2, <3>1
    <3>2. CASE x \notin stop
      <4>1. next[x] \in D /\ m[next[x]] <= k /\ m[next[x]] < j
        BY <3>2
      <4>2. f[next[x]] = g[next[x]]
        BY <2>2, <4>1
      <4> QED BY <1>2, <3>2, <4>2
    <3> QED BY <3>1, <3>2
  <2> HIDE DEF B
  <2>3. \A j \in Nat : j \in B
    BY <2>1, <2>2, Induction
  <2>4. \A x \in D : m[x] \in Nat /\ m[x] + 1 \in B
    BY <2>3
  <2> QED BY <2>4 DEF B
<1> DEFINE F == [k \in Nat |-> CHOOSE f \in [D -> Y] : Good(f, k)]
<1>3. \A k \in Nat : F[k] \in [D -> Y] /\ Good(F[k], k)
  BY <1>1
<1> HIDE DEF F
<1> DEFINE h == [x \in D |-> F[m[x]][x]]
<1>4. h \in [D -> Y]
  BY <1>3
<1>5. ASSUME NEW x \in D
      PROVE  h[x] = IF x \in stop THEN base[x] ELSE step[x][h[next[x]]]
  <2>1. PICK k \in Nat : k = m[x]
    OBVIOUS
  <2>2. F[k] \in [D -> Y] /\ Good(F[k], k)
    BY <1>3
  <2>3. h[x] = F[k][x]
    BY <2>1
  <2>4. CASE x \in stop
    <3>1. F[k][x] = IF x \in stop THEN base[x] ELSE step[x][F[k][next[x]]]
      BY <2>1, <2>2
    <3> QED BY <2>3, <2>4, <3>1
  <2>5. CASE x \notin stop
    <3>1. PICK y \in D, j \in Nat : y = next[x] /\ j = m[y] /\ j <= k
      BY <2>1, <2>5
    <3>2. F[j] \in [D -> Y] /\ Good(F[j], j)
      BY <1>3
    <3>3. Good(F[k], j)
      <4>1. \A z \in D : m[z] <= j => m[z] <= k
        BY <3>1
      <4> QED BY <2>2, <4>1
    <3> HIDE DEF Good
    <3>4. \A z \in D : m[z] <= j => F[k][z] = F[j][z]
      BY <1>2, <2>2, <3>2, <3>3
    <3>5. F[k][y] = F[j][y] /\ h[y] = F[j][y]
      BY <3>1, <3>4
    <3>6. F[k][x] = step[x][F[k][y]]
      BY <2>1, <2>2, <2>5, <3>1 DEF Good
    <3> QED BY <2>3, <2>5, <3>1, <3>5, <3>6
  <2> QED BY <2>4, <2>5
<1> QED BY <1>4, <1>5 DEF Solves
-----------------------------------------------------------------------------
LEMMA MaxOfInterval ==
  ASSUME NEW k \in Nat, k > 0
  PROVE  Max(1..k) = k
<1>1. k \in 1..k /\ \A j \in 1..k : k >= j
  OBVIOUS
<1>2. \A x \in 1..k : (\A j \in 1..k : x >= j) => x = k
  OBVIOUS
<1> QED BY <1>1, <1>2 DEF Max

LEMMA MaxIsMember ==
  ASSUME NEW n \in Nat, NEW s \in SUBSET (1..n), s # {}
  PROVE  Max(s) \in s
<1> DEFINE B == {k \in Nat : k > n \/ (\A j \in s : j <= n - k) \/ (\E x \in s : \A j \in s : x >= j)}
<1>1. 0 \in B
  OBVIOUS
<1>2. ASSUME NEW k \in Nat, k \in B
      PROVE  k + 1 \in B
  <2>1. CASE \E x \in s : \A j \in s : x >= j
    BY <2>1
  <2>2. CASE k + 1 > n
    BY <2>2
  <2>3. CASE k + 1 <= n /\ \A j \in s : j <= n - k
    <3>1. CASE n - k \in s
      BY <2>3, <3>1
    <3>2. CASE n - k \notin s
      <4>1. \A j \in s : j <= n - (k + 1)
        BY <2>3, <3>2
      <4> QED BY <4>1
    <3> QED BY <3>1, <3>2
  <2> QED BY <1>2, <2>1, <2>2, <2>3
<1> HIDE DEF B
<1>3. n \in B
  BY <1>1, <1>2, Induction
<1>4. \E x \in s : \A j \in s : x >= j
  <2>1. ~(\A j \in s : j <= n - n)
    <3>1. PICK j \in s : j \in 1..n
      OBVIOUS
    <3> QED BY <3>1
  <2> QED BY <1>3, <2>1 DEF B
<1> QED BY <1>4 DEF Max

\* A fold from the left over a list of n goes through n values.
Steps(step, Y, n) == step \in [1..n -> [Y -> Y]]

Folds(f, Y, n, base, step) ==
  /\ f \in [SUBSET (1..n) -> Y]
  /\ \A s \in SUBSET (1..n) : f[s] = IF s = {} THEN base ELSE step[Max(s)][f[s \ {Max(s)}]]

Unfolds(f, Y, n, base, step) ==
  /\ f[{}] = base
  /\ \A s \in SUBSET (1..n) : s # {} /\ f[s \ {Max(s)}] \in Y =>
       f[s] = step[Max(s)][f[s \ {Max(s)}]]

Traces(v, Y, n, base, step) ==
  /\ v \in [0..n -> Y] /\ v[0] = base
  /\ \A k \in 1..n : v[k] = step[k][v[k - 1]]

\* A fold that follows the recursion of the library's exists.
LEMMA FoldExists ==
  ASSUME NEW n \in Nat, NEW Y, NEW base \in Y, NEW step, Steps(step, Y, n)
  PROVE  \E f : Folds(f, Y, n, base, step)
<1> USE DEF Steps
<1> DEFINE D == SUBSET (1..n)
           stop == {{}}
           m == [s \in D |-> Cardinality(s)]
           next == [s \in D |-> IF s = {} THEN {} ELSE s \ {Max(s)}]
           start == [s \in D |-> base]
           go == [s \in D |-> [y \in Y |-> IF s = {} THEN base ELSE step[Max(s)][y]]]
<1>1. \A s \in D : IsFiniteSet(s) /\ Cardinality(s) \in Nat
  <2>1. IsFiniteSet(1..n)
    BY FS_Interval
  <2> SUFFICES ASSUME NEW s \in D PROVE IsFiniteSet(s) /\ Cardinality(s) \in Nat
    OBVIOUS
  <2>2. IsFiniteSet(s)
    BY <2>1, FS_Subset
  <2> QED BY <2>2, FS_CardinalityType
<1>2. m \in [D -> Nat] /\ next \in [D -> D] /\ start \in [D -> Y]
  BY <1>1
<1>3. \A s \in D : s # {} => Max(s) \in s /\ Max(s) \in 1..n
  BY MaxIsMember
<1>4. go \in [D -> [Y -> Y]]
  BY <1>3
<1>5. \A s \in D \ stop : m[next[s]] < m[s]
  <2> SUFFICES ASSUME NEW s \in D \ stop
               PROVE  m[next[s]] < m[s]
    OBVIOUS
  <2>1. Max(s) \in s /\ IsFiniteSet(s) /\ s \ {Max(s)} \in D
    BY <1>1, <1>3
  <2>2. Cardinality(s \ {Max(s)}) = Cardinality(s) - 1
    BY <2>1, FS_RemoveElement
  <2> QED BY <1>1, <2>1, <2>2
<1>6. stop \in SUBSET D
  OBVIOUS
<1> HIDE DEF D, stop, m, next, start, go
<1>7. Descends(D, Y, m, stop, next, start, go)
  BY <1>2, <1>4, <1>5, <1>6 DEF Descends
<1>8. PICK f : Solves(f, D, Y, stop, next, start, go)
  BY <1>7, Recursion
<1>9. f \in [D -> Y] /\ \A s \in D : f[s] = IF s \in stop THEN start[s] ELSE go[s][f[next[s]]]
  BY <1>8 DEF Solves
<1>10. ASSUME NEW s \in D
      PROVE  f[s] = IF s = {} THEN base ELSE step[Max(s)][f[s \ {Max(s)}]]
  <2>1. CASE s = {}
    BY <1>9, <2>1 DEF start, stop
  <2>2. CASE s # {}
    <3>1. next[s] = s \ {Max(s)} /\ next[s] \in D
      BY <1>2, <2>2 DEF next
    <3>2. f[next[s]] \in Y
      BY <1>9, <3>1
    <3>3. go[s][f[next[s]]] = step[Max(s)][f[next[s]]]
      BY <2>2, <3>2 DEF go
    <3> QED BY <1>9, <2>2, <3>1, <3>3 DEF stop
  <2> QED BY <2>1, <2>2
<1> QED BY <1>9, <1>10 DEF D, Folds

\* Such a fold passes through the values of a trace and ends in its last one.
LEMMA FoldTrace ==
  ASSUME NEW n \in Nat, NEW Y, NEW base \in Y, NEW step, Steps(step, Y, n),
         NEW f, Unfolds(f, Y, n, base, step)
  PROVE  \E v : Traces(v, Y, n, base, step) /\ v[n] = f[1..n]
<1> USE DEF Steps, Unfolds
<1> DEFINE v == [k \in 0..n |-> f[1..k]]
<1>1. \A k \in 1..n : f[1..(k - 1)] \in Y => f[1..k] = step[k][f[1..(k - 1)]]
  <2> SUFFICES ASSUME NEW k \in 1..n, f[1..(k - 1)] \in Y
               PROVE  f[1..k] = step[k][f[1..(k - 1)]]
    OBVIOUS
  <2>1. Max(1..k) = k
    BY MaxOfInterval
  <2>2. 1..k \in SUBSET (1..n) /\ 1..k # {} /\ (1..k) \ {k} = 1..(k - 1)
    OBVIOUS
  <2> QED BY <2>1, <2>2
<1> DEFINE B == {k \in Nat : k <= n => f[1..k] \in Y}
<1>2. 0 \in B
  <2>1. 1..0 = {}
    OBVIOUS
  <2> QED BY <2>1
<1>3. ASSUME NEW k \in Nat, k \in B
      PROVE  k + 1 \in B
  <2> SUFFICES ASSUME k + 1 <= n
               PROVE  f[1..(k + 1)] \in Y
    OBVIOUS
  <2>1. k + 1 \in 1..n /\ (k + 1) - 1 = k /\ f[1..k] \in Y
    BY <1>3
  <2>2. f[1..(k + 1)] = step[k + 1][f[1..k]]
    BY <1>1, <2>1
  <2> QED BY <2>1, <2>2
<1> HIDE DEF B
<1>4. \A k \in Nat : k \in B
  BY <1>2, <1>3, Induction
<1>5. v \in [0..n -> Y]
  BY <1>4 DEF B
<1>6. v[0] = base
  <2>1. 1..0 = {}
    OBVIOUS
  <2> QED BY <2>1
<1>7. \A k \in 1..n : v[k] = step[k][v[k - 1]]
  <2>1. \A k \in 1..n : k - 1 \in 0..n /\ k \in 0..n
    OBVIOUS
  <2>2. \A k \in 1..n : v[k - 1] = f[1..(k - 1)] /\ v[k] = f[1..k]
    BY <2>1
  <2> QED BY <1>1, <1>5, <2>1, <2>2
<1>8. v[n] = f[1..n]
  OBVIOUS
<1> HIDE DEF v
<1> QED BY <1>5, <1>6, <1>7, <1>8 DEF Traces
\* The fold of a longer list takes one more step.
Agree(short, long, n) == \A k \in 1..n : short[k] = long[k]

LEMMA OneMoreStep ==
  ASSUME NEW n \in Nat, NEW m, m = n + 1, NEW Y, NEW base, NEW short, NEW long, NEW v, NEW w,
         Traces(v, Y, n, base, short), Traces(w, Y, m, base, long), Agree(short, long, n)
  PROVE  v[n] \in Y /\ w[m] = long[m][v[n]] /\ w[m] \in Y
<1> USE DEF Traces, Agree
<1> DEFINE B == {k \in Nat : k <= n => v[k] = w[k]}
<1>1. 0 \in B
  OBVIOUS
<1>2. ASSUME NEW k \in Nat, k \in B
      PROVE  k + 1 \in B
  <2> SUFFICES ASSUME k + 1 <= n
               PROVE  v[k + 1] = w[k + 1]
    OBVIOUS
  <2>1. PICK j \in 1..n : j = k + 1 /\ j \in 1..(n + 1) /\ j - 1 = k
    OBVIOUS
  <2>2. v[k] = w[k] /\ v[k] \in Y
    BY <1>2
  <2>3. v[j] = short[j][v[j - 1]] /\ w[j] = long[j][w[j - 1]]
    BY <2>1
  <2>4. short[j] = long[j]
    BY <2>1, <2>2
  <2> QED BY <2>1, <2>2, <2>3, <2>4
<1> HIDE DEF B
<1>3. n \in B
  BY <1>1, <1>2, Induction
<1>4. v[n] = w[n] /\ v[n] \in Y
  BY <1>3 DEF B
<1>5. n + 1 \in 1..(n + 1) /\ (n + 1) - 1 = n
  OBVIOUS
<1> QED BY <1>4, <1>5
-----------------------------------------------------------------------------
(* Lists. *)

\* Induction over lists, by their last element.
LEMMA ListInduction ==
  ASSUME NEW S, NEW B, <<>> \in B, \A s \in Seq(S), x \in S : s \in B => Append(s, x) \in B
  PROVE  \A s \in Seq(S) : s \in B
<1> DEFINE N == {n \in Nat : \A s \in Seq(S) : Len(s) = n => s \in B}
<1>1. 0 \in N
  <2>1. \A s \in Seq(S) : Len(s) = 0 => s = <<>>
    BY EmptySeq
  <2> QED BY <2>1
<1>2. ASSUME NEW n \in Nat, n \in N
      PROVE  n + 1 \in N
  <2> SUFFICES ASSUME NEW s \in Seq(S), Len(s) = n + 1
               PROVE  s \in B
    OBVIOUS
  <2>1. s # <<>>
    BY EmptySeq
  <2>2. PICK r \in Seq(S), x \in S : s = Append(r, x)
    BY <2>1, SequenceEmptyOrAppend
  <2>3. Len(s) = Len(r) + 1 /\ Len(r) \in Nat
    BY <2>2, AppendProperties
  <2>4. r \in B
    BY <1>2, <2>3
  <2> QED BY <2>2, <2>4
<1> HIDE DEF N
<1>3. \A n \in Nat : n \in N
  BY <1>1, <1>2, Induction
<1>4. \A s \in Seq(S) : Len(s) \in Nat
  OBVIOUS
<1> QED BY <1>3, <1>4 DEF N

LEMMA IsASeqRows ==
  ASSUME NEW S, NEW n \in Nat, NEW s, s = [j \in 1..n |-> s[j]], \A j \in 1..n : s[j] \in S
  PROVE  s \in Seq(S) /\ Len(s) = n
<1>1. s \in [1..n -> S]
  OBVIOUS
<1> QED BY <1>1

LEMMA ConcatAppend ==
  ASSUME NEW S, NEW s \in Seq(S), NEW t \in Seq(S), NEW x \in S
  PROVE  s \o Append(t, x) = Append(s \o t, x)
<1>1. /\ s \o t \in Seq(S) /\ Append(t, x) \in Seq(S) /\ Append(s \o t, x) \in Seq(S)
      /\ s \o Append(t, x) \in Seq(S)
  BY ConcatProperties, AppendProperties
<1>2. Append(t, x) = t \o <<x>> /\ Append(s \o t, x) = (s \o t) \o <<x>> /\ <<x>> \in Seq(S)
  BY <1>1, AppendIsConcat
<1> QED BY <1>2, ConcatAssociative

\* A list around one of its places.
Around(S, s, i, pre, post) ==
  /\ Append(pre, s[i]) \o post = s
  /\ RemoveAt(s, i) = pre \o post
  /\ \A x \in S : [s EXCEPT ![i] = x] = Append(pre, x) \o post
  /\ Len(pre) = i - 1 /\ Len(post) = Len(s) - i
  /\ \A j \in 1..Len(pre) : pre[j] = s[j]
  /\ \A j \in 1..Len(post) : post[j] = s[i + j]

LEMMA AroundPlace ==
  ASSUME NEW S, NEW s \in Seq(S), NEW i \in 1..Len(s)
  PROVE  \E pre \in Seq(S), post \in Seq(S) : Around(S, s, i, pre, post)
<1>1. PICK n \in Nat : n = Len(s)
  OBVIOUS
<1>2. PICK pre : pre = SubSeq(s, 1, i - 1)
  OBVIOUS
<1>3. PICK post : post = SubSeq(s, i + 1, n)
  OBVIOUS
<1>4. \A j \in 1..n : s[j] \in S
  BY <1>1
<1>5. pre \in Seq(S) /\ Len(pre) = i - 1 /\ \A j \in 1..(i - 1) : pre[j] = s[j]
  <2>1. \A j \in 1..(i - 1) : s[j] \in S
    BY <1>1, <1>4
  <2> QED BY <1>1, <1>2, <2>1, SubSeqProperties
<1>6. post \in Seq(S) /\ Len(post) = n - i /\ \A j \in 1..(n - i) : post[j] = s[i + j]
  <2>1. PICK from \in Nat : from = i + 1
    OBVIOUS
  <2>2. \A j \in from..n : s[j] \in S
    BY <1>1, <1>4, <2>1
  <2>3. post = SubSeq(s, from, n) /\ from \in 1..(n + 1)
    BY <1>1, <1>3, <2>1
  <2>4. from <= n + 1 /\ n - from + 1 = n - i /\ \A j \in 1..(n - i) : from + j - 1 = i + j
    BY <1>1, <2>1
  <2>5. post = [j \in 1..(n - from + 1) |-> s[from + j - 1]]
    BY <2>3, SubSeqProperties
  <2>6. post = [j \in 1..(n - i) |-> s[from + j - 1]]
    BY <2>4, <2>5
  <2>7. \A j \in 1..(n - i) : i + j \in 1..n /\ post[j] = s[i + j]
    <3>1. \A j \in 1..(n - i) : i + j \in 1..n
      BY <1>1
    <3> QED BY <2>4, <2>6, <3>1
  <2>8. n - i \in Nat /\ \A j \in 1..(n - i) : post[j] \in S
    BY <1>1, <1>4, <2>7
  <2>9. post \in Seq(S) /\ Len(post) = n - i
    BY <2>6, <2>8, <1>1, IsASeqRows
  <2> QED BY <2>7, <2>9
<1>7. ASSUME NEW x \in S
      PROVE  [s EXCEPT ![i] = x] = Append(pre, x) \o post
  <2>1. PICK u : u = [s EXCEPT ![i] = x]
    OBVIOUS
  <2>2. u \in Seq(S) /\ Len(u) = n /\ \A j \in 1..n : u[j] = IF j = i THEN x ELSE s[j]
    BY <1>1, <2>1, ExceptSeq
  <2>3. PICK a : a = Append(pre, x)
    OBVIOUS
  <2>4. a \in Seq(S) /\ Len(a) = i /\ a[i] = x /\ \A j \in 1..(i - 1) : a[j] = s[j]
    BY <1>1, <1>5, <2>3, AppendProperties
  <2>5. PICK w : w = a \o post
    OBVIOUS
  <2>6. /\ w \in Seq(S) /\ Len(w) = n
        /\ \A j \in 1..n : w[j] = IF j <= i THEN a[j] ELSE post[j - i]
    <3>0. n - i \in Nat /\ i + (n - i) = n
      BY <1>1
    <3>1. PICK l \in Nat : l = Len(post) /\ l = n - i /\ Len(a) + l = n
      BY <1>6, <2>4, <3>0
    <3>2. w \in Seq(S) /\ Len(w) = Len(a) + l
      BY <1>6, <2>4, <2>5, <3>1, ConcatProperties
    <3>3. \A j \in 1..(Len(a) + l) : w[j] = IF j <= Len(a) THEN a[j] ELSE post[j - Len(a)]
      BY <1>6, <2>4, <2>5, <3>1, ConcatProperties
    <3> QED BY <2>4, <3>1, <3>2, <3>3
  <2>7. \A j \in 1..n : u[j] = w[j]
    <3> SUFFICES ASSUME NEW j \in 1..n PROVE u[j] = w[j]
      OBVIOUS
    <3>1. CASE j = i
      BY <2>2, <2>4, <2>6, <3>1
    <3>2. CASE j < i
      BY <1>1, <2>2, <2>4, <2>6, <3>2
    <3>3. CASE j > i
      <4>1. j - i \in 1..(n - i) /\ i + (j - i) = j
        BY <1>1, <3>3
      <4>2. post[j - i] = s[i + (j - i)]
        BY <1>6, <4>1
      <4> QED BY <2>2, <2>6, <3>3, <4>1, <4>2
    <3> QED BY <3>1, <3>2, <3>3
  <2>8. u = w
    BY <2>2, <2>6, <2>7, SeqEqual
  <2> QED BY <2>1, <2>3, <2>5, <2>8
<1>8. s[i] \in S /\ [s EXCEPT ![i] = s[i]] = s
  BY <1>1, <1>4
<1>9. RemoveAt(s, i) = pre \o post
  BY <1>1, <1>2, <1>3 DEF RemoveAt
<1>10. Append(pre, s[i]) \o post = s
  BY <1>7, <1>8
<1>11. Len(pre) = i - 1 /\ Len(post) = Len(s) - i
  BY <1>1, <1>5, <1>6
<1>12. Around(S, s, i, pre, post)
  BY <1>5, <1>6, <1>7, <1>9, <1>10, <1>11 DEF Around
<1> QED BY <1>5, <1>6, <1>12

\* F is a fold from the left with a step: it fits when its value for a list is
\* reached through the list's beginnings.
StepsOf(step, rows) == [k \in 1..Len(rows) |-> step[rows[k]]]

Acts(step, T, Y) == step \in [T -> [Y -> Y]]

Fits(F, T, Y, base, step) ==
  \A rows \in Seq(T) : \E f : /\ Unfolds(f, Y, Len(rows), base, StepsOf(step, rows))
                             /\ F[rows] = f[1..Len(rows)]

IsFold(F, T, Y, base, step) ==
  /\ F[<<>>] = base
  /\ \A rows \in Seq(T) : F[rows] \in Y
  /\ \A rows \in Seq(T), t \in T : F[Append(rows, t)] = step[t][F[rows]]

LEMMA StepsOfActs ==
  ASSUME NEW T, NEW Y, NEW step, Acts(step, T, Y), NEW rows \in Seq(T)
  PROVE  Steps(StepsOf(step, rows), Y, Len(rows))
BY DEF Acts, Steps, StepsOf

\* A fold over a list is determined by its value on the empty list and by one more element.
LEMMA FoldLaw ==
  ASSUME NEW T, NEW Y, NEW base \in Y, NEW step, NEW F, Acts(step, T, Y), Fits(F, T, Y, base, step)
  PROVE  IsFold(F, T, Y, base, step)
<1>1. ASSUME NEW rows \in Seq(T)
      PROVE  \E v : Traces(v, Y, Len(rows), base, StepsOf(step, rows)) /\ v[Len(rows)] = F[rows]
  <2>1. PICK n \in Nat : n = Len(rows)
    OBVIOUS
  <2>2. PICK go : go = StepsOf(step, rows)
    OBVIOUS
  <2>3. PICK f : Unfolds(f, Y, n, base, go) /\ F[rows] = f[1..n]
    BY <2>1, <2>2 DEF Fits
  <2>4. Steps(go, Y, n)
    BY <2>1, <2>2, StepsOfActs
  <2>5. PICK v : Traces(v, Y, n, base, go) /\ v[n] = f[1..n]
    BY <2>3, <2>4, FoldTrace
  <2> QED BY <2>1, <2>2, <2>3, <2>5
<1>2. ASSUME NEW rows \in Seq(T)
      PROVE  F[rows] \in Y /\ (Len(rows) = 0 => F[rows] = base)
  <2>1. PICK v : Traces(v, Y, Len(rows), base, StepsOf(step, rows)) /\ v[Len(rows)] = F[rows]
    BY <1>1
  <2> QED BY <2>1 DEF Traces
<1>3. <<>> \in Seq(T) /\ Len(<<>>) = 0
  OBVIOUS
<1>4. ASSUME NEW rows \in Seq(T), NEW t \in T
      PROVE  F[Append(rows, t)] = step[t][F[rows]]
  <2>1. PICK n \in Nat, m \in Nat : n = Len(rows) /\ m = n + 1
    OBVIOUS
  <2>2. PICK more : more = Append(rows, t)
    OBVIOUS
  <2>3. /\ more \in Seq(T) /\ Len(more) = m /\ more[m] = t /\ m \in 1..m
        /\ \A k \in 1..n : more[k] = rows[k] /\ k \in 1..m
    BY <2>1, <2>2, AppendProperties
  <2>4. PICK v : Traces(v, Y, n, base, StepsOf(step, rows)) /\ v[n] = F[rows]
    BY <2>1, <1>1
  <2>5. PICK w : Traces(w, Y, m, base, StepsOf(step, more)) /\ w[m] = F[more]
    BY <2>3, <1>1
  <2>6. Agree(StepsOf(step, rows), StepsOf(step, more), n)
    BY <2>1, <2>3 DEF StepsOf, Agree
  <2>7. w[m] = StepsOf(step, more)[m][v[n]]
    <3>1. Traces(v, Y, n, base, StepsOf(step, rows))
      BY <2>4
    <3>2. Traces(w, Y, m, base, StepsOf(step, more))
      BY <2>5
    <3>3. m = n + 1
      BY <2>1
    <3> QED BY <2>6, <3>1, <3>2, <3>3, OneMoreStep
  <2> QED BY <2>2, <2>3, <2>4, <2>5, <2>7 DEF StepsOf
<1> QED BY <1>2, <1>3, <1>4 DEF IsFold
-----------------------------------------------------------------------------
Balance == [Participant -> Int]
Id == Seq(Participant \cup Nat)
Transfer == {t \in [id : Id, from : Participant, to : Participant, amount : Nat \ {0},
                    paid : BOOLEAN, at : Nat] : t.from # t.to}
Moved(b, t) == [b EXCEPT ![t.from] = @ + t.amount, ![t.to] = @ - t.amount]

LEMMA MovedType ==
  ASSUME NEW b \in Balance, NEW t \in Transfer
  PROVE  /\ Moved(b, t) \in Balance
         /\ \A p \in Participant : Moved(b, t)[p] = b[p] + (IF p = t.from THEN t.amount
                                                         ELSE IF p = t.to THEN -t.amount ELSE 0)
<1>1. t.from \in Participant /\ t.to \in Participant /\ t.from # t.to /\ t.amount \in Int
  BY DEF Transfer
<1>2. b \in [Participant -> Int]
  BY DEF Balance
<1> QED BY <1>1, <1>2 DEF Balance, Moved

\* What is left after a list of transfers, by the last one.
LEMMA AfterFold ==
  ASSUME NEW b \in Balance
  PROVE  /\ After(b, <<>>) = b
         /\ \A rows \in Seq(Transfer) : After(b, rows) \in Balance
         /\ \A rows \in Seq(Transfer), t \in Transfer :
              After(b, Append(rows, t)) = Moved(After(b, rows), t)
<1> DEFINE step == [t \in Transfer |-> [y \in Balance |-> Moved(y, t)]]
           F == [rows \in Seq(Transfer) |-> After(b, rows)]
<1>1. Acts(step, Transfer, Balance)
  BY MovedType DEF Acts
<1>2. ASSUME NEW rows \in Seq(Transfer)
      PROVE  \E f : /\ Unfolds(f, Balance, Len(rows), b, StepsOf(step, rows))
                    /\ F[rows] = f[1..Len(rows)]
  <2> DEFINE Eq(f) == f = [s \in SUBSET DOMAIN rows |->
                             IF s = {} THEN b ELSE Moved(f[s \ {Max(s)}], rows[Max(s)])]
             fold == CHOOSE f : Eq(f)
  <2>1. PICK n \in Nat : n = Len(rows) /\ DOMAIN rows = 1..n
    OBVIOUS
  <2>2. PICK go : go = StepsOf(step, rows)
    OBVIOUS
  <2>3. Steps(go, Balance, n)
    BY <1>1, <2>1, <2>2, StepsOfActs
  <2>4. \A k \in 1..n, y \in Balance : go[k][y] = Moved(y, rows[k])
    BY <2>1, <2>2 DEF StepsOf
  <2>5. \A s \in SUBSET (1..n) : s # {} => Max(s) \in 1..n /\ s \ {Max(s)} \in SUBSET (1..n)
    BY MaxIsMember
  <2> HIDE DEF step, F
  <2>6. PICK f : Folds(f, Balance, n, b, go)
    BY <2>3, FoldExists
  <2>7. Eq(f)
    BY <2>1, <2>4, <2>5, <2>6 DEF Folds
  <2>8. Eq(fold)
    BY <2>7
  <2>9. F[rows] = fold[DOMAIN rows]
    BY DEF F, After, FoldLeft, MapThenFoldSet, Moved
  <2> HIDE DEF fold
  <2>10. Unfolds(fold, Balance, n, b, go)
    <3>1. fold[{}] = b
      BY <2>8
    <3>2. ASSUME NEW s \in SUBSET (1..n), s # {}, fold[s \ {Max(s)}] \in Balance
          PROVE  fold[s] = go[Max(s)][fold[s \ {Max(s)}]]
      <4>1. fold[s] = Moved(fold[s \ {Max(s)}], rows[Max(s)])
        BY <2>1, <2>8, <3>2
      <4>2. Max(s) \in 1..n
        BY <2>5, <3>2
      <4> QED BY <2>4, <3>2, <4>1, <4>2
    <3> QED BY <3>1, <3>2 DEF Unfolds
  <2> QED BY <2>1, <2>2, <2>9, <2>10
<1>3. Fits(F, Transfer, Balance, b, step)
  BY <1>2 DEF Fits
<1> HIDE DEF step, F
<1>4. IsFold(F, Transfer, Balance, b, step)
  BY <1>1, <1>3, FoldLaw
<1>5. <<>> \in Seq(Transfer) /\ \A rows \in Seq(Transfer), t \in Transfer : Append(rows, t) \in Seq(Transfer)
  BY AppendProperties
<1> QED BY <1>4, <1>5 DEF IsFold, step, F

\* Two lists of transfers one after the other.
LEMMA AfterConcat ==
  ASSUME NEW b \in Balance, NEW s \in Seq(Transfer), NEW t \in Seq(Transfer)
  PROVE  After(b, s \o t) = After(After(b, s), t)
<1> DEFINE B == {r \in Seq(Transfer) : After(b, s \o r) = After(After(b, s), r)}
<1>1. After(b, s) \in Balance
  BY AfterFold
<1>2. <<>> \in B
  <2>1. s \o <<>> = s
    BY ConcatEmptySeq
  <2> QED BY <1>1, <2>1, AfterFold
<1>3. ASSUME NEW r \in Seq(Transfer), NEW x \in Transfer, r \in B
      PROVE  Append(r, x) \in B
  <2>1. s \o Append(r, x) = Append(s \o r, x)
    BY ConcatAppend
  <2>2. s \o r \in Seq(Transfer) /\ Append(r, x) \in Seq(Transfer)
    BY ConcatProperties, AppendProperties
  <2>3. After(b, Append(s \o r, x)) = Moved(After(b, s \o r), x)
    BY <2>2, AfterFold
  <2>4. After(After(b, s), Append(r, x)) = Moved(After(After(b, s), r), x)
    BY <1>1, AfterFold
  <2> QED BY <1>3, <2>1, <2>2, <2>3, <2>4
<1> HIDE DEF B
<1>4. t \in B
  BY <1>2, <1>3, ListInduction
<1> QED BY <1>4 DEF B

\* What transfers move does not depend on the balances.
LEMMA AfterShift ==
  ASSUME NEW b \in Balance, NEW c \in Balance, NEW s \in Seq(Transfer)
  PROVE  \A p \in Participant : After(b, s)[p] - After(c, s)[p] = b[p] - c[p]
<1> DEFINE B == {r \in Seq(Transfer) :
                   \A p \in Participant : After(b, r)[p] - After(c, r)[p] = b[p] - c[p]}
<1>1. <<>> \in B
  BY AfterFold
<1>2. ASSUME NEW r \in Seq(Transfer), NEW x \in Transfer, r \in B
      PROVE  Append(r, x) \in B
  <2>1. Append(r, x) \in Seq(Transfer)
    BY AppendProperties
  <2>2. PICK d \in Balance, e \in Balance : d = After(b, r) /\ e = After(c, r)
    BY AfterFold
  <2>3. After(b, Append(r, x)) = Moved(d, x) /\ After(c, Append(r, x)) = Moved(e, x)
    BY <2>2, AfterFold
  <2>4. \A p \in Participant : Moved(d, x)[p] - Moved(e, x)[p] = d[p] - e[p]
    <3> SUFFICES ASSUME NEW p \in Participant
                 PROVE  Moved(d, x)[p] - Moved(e, x)[p] = d[p] - e[p]
      OBVIOUS
    <3>1. PICK n \in Int : n = IF p = x.from THEN x.amount ELSE IF p = x.to THEN -x.amount ELSE 0
      BY DEF Transfer
    <3>3. Moved(d, x)[p] = d[p] + n /\ Moved(e, x)[p] = e[p] + n
      BY <3>1, MovedType
    <3>2. d[p] \in Int /\ e[p] \in Int
      BY DEF Balance
    <3> QED BY <3>2, <3>3
  <2> QED BY <1>2, <2>1, <2>2, <2>3, <2>4
<1> HIDE DEF B
<1>3. s \in B
  BY <1>1, <1>2, ListInduction
<1> QED BY <1>3 DEF B
-----------------------------------------------------------------------------
OnRoute(sum, t, routes) == IF Route(t) \in routes THEN sum + t.amount ELSE sum

\* The amount that goes along some routes, by the last transfer.
LEMMA AmountOnFold ==
  ASSUME NEW routes
  PROVE  /\ AmountOn(<<>>, routes) = 0
         /\ \A rows \in Seq(Transfer) : AmountOn(rows, routes) \in Nat
         /\ \A rows \in Seq(Transfer), t \in Transfer :
              AmountOn(Append(rows, t), routes) = AmountOn(rows, routes)
                                                  + (IF Route(t) \in routes THEN t.amount ELSE 0)
<1> DEFINE step == [t \in Transfer |-> [y \in Nat |-> OnRoute(y, t, routes)]]
           F == [rows \in Seq(Transfer) |-> AmountOn(rows, routes)]
<1>1. Acts(step, Transfer, Nat)
  BY DEF Acts, Transfer, OnRoute
<1>2. ASSUME NEW rows \in Seq(Transfer)
      PROVE  \E f : /\ Unfolds(f, Nat, Len(rows), 0, StepsOf(step, rows))
                    /\ F[rows] = f[1..Len(rows)]
  <2> DEFINE Eq(f) == f = [s \in SUBSET DOMAIN rows |->
                             IF s = {} THEN 0 ELSE OnRoute(f[s \ {Max(s)}], rows[Max(s)], routes)]
             fold == CHOOSE f : Eq(f)
  <2>1. PICK n \in Nat : n = Len(rows) /\ DOMAIN rows = 1..n
    OBVIOUS
  <2>2. PICK go : go = StepsOf(step, rows)
    OBVIOUS
  <2>3. Steps(go, Nat, n)
    BY <1>1, <2>1, <2>2, StepsOfActs
  <2>4. \A k \in 1..n, y \in Nat : go[k][y] = OnRoute(y, rows[k], routes)
    BY <2>1, <2>2 DEF StepsOf
  <2>5. \A s \in SUBSET (1..n) : s # {} => Max(s) \in 1..n /\ s \ {Max(s)} \in SUBSET (1..n)
    BY MaxIsMember
  <2> HIDE DEF step, F
  <2>6. PICK f : Folds(f, Nat, n, 0, go)
    BY <2>3, FoldExists
  <2>7. Eq(f)
    BY <2>1, <2>4, <2>5, <2>6 DEF Folds
  <2>8. Eq(fold)
    BY <2>7
  <2>9. F[rows] = fold[DOMAIN rows]
    BY DEF F, AmountOn, OnRoute, FoldLeft, MapThenFoldSet
  <2> HIDE DEF fold
  <2>10. Unfolds(fold, Nat, n, 0, go)
    <3>1. fold[{}] = 0
      BY <2>8
    <3>2. ASSUME NEW s \in SUBSET (1..n), s # {}, fold[s \ {Max(s)}] \in Nat
          PROVE  fold[s] = go[Max(s)][fold[s \ {Max(s)}]]
      <4>1. fold[s] = OnRoute(fold[s \ {Max(s)}], rows[Max(s)], routes)
        BY <2>1, <2>8, <3>2
      <4>2. Max(s) \in 1..n
        BY <2>5, <3>2
      <4> QED BY <2>4, <3>2, <4>1, <4>2
    <3> QED BY <3>1, <3>2 DEF Unfolds
  <2> QED BY <2>1, <2>2, <2>9, <2>10
<1>3. Fits(F, Transfer, Nat, 0, step)
  BY <1>2 DEF Fits
<1> HIDE DEF step, F
<1>4. IsFold(F, Transfer, Nat, 0, step)
  BY <1>1, <1>3, FoldLaw
<1>5. <<>> \in Seq(Transfer) /\ \A rows \in Seq(Transfer), t \in Transfer : Append(rows, t) \in Seq(Transfer)
  BY AppendProperties
<1>6. \A rows \in Seq(Transfer), t \in Transfer :
        AmountOn(Append(rows, t), routes) = IF Route(t) \in routes THEN AmountOn(rows, routes) + t.amount
                                            ELSE AmountOn(rows, routes)
  BY <1>4, <1>5 DEF IsFold, step, F, OnRoute
<1>7. AmountOn(<<>>, routes) = 0 /\ \A rows \in Seq(Transfer) : AmountOn(rows, routes) \in Nat
  BY <1>4, <1>5 DEF IsFold, F
<1> QED BY <1>6, <1>7

LEMMA AmountOnConcat ==
  ASSUME NEW routes, NEW s \in Seq(Transfer), NEW t \in Seq(Transfer)
  PROVE  AmountOn(s \o t, routes) = AmountOn(s, routes) + AmountOn(t, routes)
<1> DEFINE B == {r \in Seq(Transfer) : AmountOn(s \o r, routes) = AmountOn(s, routes) + AmountOn(r, routes)}
<1>1. <<>> \in B
  <2>1. s \o <<>> = s
    BY ConcatEmptySeq
  <2> QED BY <2>1, AmountOnFold
<1>2. ASSUME NEW r \in Seq(Transfer), NEW x \in Transfer, r \in B
      PROVE  Append(r, x) \in B
  <2>1. s \o Append(r, x) = Append(s \o r, x)
    BY ConcatAppend
  <2>2. s \o r \in Seq(Transfer) /\ Append(r, x) \in Seq(Transfer)
    BY ConcatProperties, AppendProperties
  <2>3. PICK n \in Nat : n = IF Route(x) \in routes THEN x.amount ELSE 0
    BY DEF Transfer
  <2>4. /\ AmountOn(Append(s \o r, x), routes) = AmountOn(s \o r, routes) + n
        /\ AmountOn(Append(r, x), routes) = AmountOn(r, routes) + n
    BY <2>2, <2>3, AmountOnFold
  <2>5. PICK i \in Nat, j \in Nat : i = AmountOn(s, routes) /\ j = AmountOn(r, routes)
    BY AmountOnFold
  <2>6. AmountOn(s \o r, routes) = i + j
    BY <1>2, <2>5
  <2>7. AmountOn(s \o Append(r, x), routes) = AmountOn(s, routes) + AmountOn(Append(r, x), routes)
    BY <2>1, <2>4, <2>5, <2>6
  <2> QED BY <2>2, <2>7
<1> HIDE DEF B
<1>3. t \in B
  BY <1>1, <1>2, ListInduction
<1> QED BY <1>3 DEF B

-----------------------------------------------------------------------------
(* A Map of amounts by route. *)

Shift(b, from, to, n) == [p \in Participant |-> b[p] + (IF p = from THEN n ELSE IF p = to THEN -n ELSE 0)]

LEMMA ShiftType ==
  ASSUME NEW b \in Balance, NEW from, NEW to, NEW n \in Int
  PROVE  Shift(b, from, to, n) \in Balance
BY DEF Shift, Balance

LEMMA ShiftTwice ==
  ASSUME NEW b \in Balance, NEW from, NEW to, NEW n \in Int, NEW k \in Int, NEW d, d = n + k
  PROVE  Shift(Shift(b, from, to, n), from, to, k) = Shift(b, from, to, d)
<1>1. \A p \in Participant : b[p] \in Int
  BY DEF Balance
<1>2. PICK f : f = [p \in Participant |-> IF p = from THEN n ELSE IF p = to THEN -n ELSE 0]
  OBVIOUS
<1>3. PICK g : g = [p \in Participant |-> IF p = from THEN k ELSE IF p = to THEN -k ELSE 0]
  OBVIOUS
<1>4. PICK h : h = [p \in Participant |-> IF p = from THEN d ELSE IF p = to THEN -d ELSE 0]
  OBVIOUS
<1>5. \A p \in Participant : f[p] \in Int /\ g[p] \in Int /\ h[p] \in Int
  BY <1>2, <1>3, <1>4
<1>6. \A p \in Participant : f[p] + g[p] = h[p]
  BY <1>2, <1>3, <1>4
<1>7. \A p \in Participant : (b[p] + f[p]) + g[p] = b[p] + h[p]
  BY <1>1, <1>5, <1>6
<1>8. Shift(b, from, to, n) = [p \in Participant |-> b[p] + f[p]]
  BY <1>2 DEF Shift
<1>9. Shift(Shift(b, from, to, n), from, to, k) = [p \in Participant |-> (b[p] + f[p]) + g[p]]
  BY <1>3, <1>8 DEF Shift
<1>10. Shift(b, from, to, d) = [p \in Participant |-> b[p] + h[p]]
  BY <1>4 DEF Shift
<1> QED BY <1>7, <1>9, <1>10

\* Shifting back is shifting by the opposite amount.
LEMMA ShiftBack ==
  ASSUME NEW b \in Balance, NEW from, NEW to, from # to, NEW n \in Int
  PROVE  /\ Shift(b, to, from, -n) = Shift(b, from, to, n)
         /\ Shift(b, from, to, 0) = b
<1>1. \A p \in Participant : b[p] \in Int /\ b = [q \in Participant |-> b[q]]
  BY DEF Balance
<1>2. b = [q \in Participant |-> b[q]]
  BY DEF Balance
<1>3. - (-n) = n
  OBVIOUS
<1>4. \A p \in Participant : b[p] + (IF p = to THEN -n ELSE IF p = from THEN -(-n) ELSE 0)
                            = b[p] + (IF p = from THEN n ELSE IF p = to THEN -n ELSE 0)
  BY <1>3
<1>5. \A p \in Participant : b[p] + (IF p = from THEN 0 ELSE IF p = to THEN -0 ELSE 0) = b[p]
  BY <1>1
<1> QED BY <1>2, <1>4, <1>5 DEF Shift

\* A transfer shifts its amount from one person's balance to another's.
LEMMA MovedIsShift ==
  ASSUME NEW b \in Balance, NEW t \in Transfer
  PROVE  Moved(b, t) = Shift(b, t.from, t.to, t.amount)
<1>1. Moved(b, t) \in [Participant -> Int]
  BY MovedType DEF Balance
<1>2. \A p \in Participant : Moved(b, t)[p] = Shift(b, t.from, t.to, t.amount)[p]
  BY MovedType DEF Shift
<1>3. Shift(b, t.from, t.to, t.amount) = [p \in Participant |-> Shift(b, t.from, t.to, t.amount)[p]]
  BY DEF Shift
<1> QED BY <1>1, <1>2, <1>3

\* A shift before transfers is a shift after them.
LEMMA AfterOfShift ==
  ASSUME NEW b \in Balance, NEW from, NEW to, NEW n \in Int, NEW s \in Seq(Transfer)
  PROVE  After(Shift(b, from, to, n), s) = Shift(After(b, s), from, to, n)
<1>1. PICK c \in Balance : c = Shift(b, from, to, n)
  BY ShiftType
<1>2. PICK d \in Balance, e \in Balance : d = After(b, s) /\ e = After(c, s)
  BY <1>1, AfterFold
<1>3. \A p \in Participant : e[p] - d[p] = c[p] - b[p]
  BY <1>1, <1>2, AfterShift
<1>4. PICK f : f = [p \in Participant |-> IF p = from THEN n ELSE IF p = to THEN -n ELSE 0]
  OBVIOUS
<1>5. c = [p \in Participant |-> b[p] + f[p]] /\ Shift(d, from, to, n) = [p \in Participant |-> d[p] + f[p]]
  BY <1>1, <1>4 DEF Shift
<1>6. \A p \in Participant : b[p] \in Int /\ d[p] \in Int /\ e[p] \in Int /\ f[p] \in Int
  BY <1>4 DEF Balance
<1>7. \A p \in Participant : e[p] = d[p] + f[p]
  BY <1>3, <1>5, <1>6
<1>8. e = [p \in Participant |-> e[p]]
  BY DEF Balance
<1> QED BY <1>1, <1>2, <1>5, <1>7, <1>8

New == {t \in Transfer : t = Fresh(t.from, t.to, t.amount)}
Map == {rows \in Seq(New) : \A i, j \in 1..Len(rows) : Route(rows[i]) = Route(rows[j]) => i = j}

LEMMA FreshIsNew ==
  ASSUME NEW from \in Participant, NEW to \in Participant, from # to, NEW amount \in Nat \ {0}
  PROVE  /\ Fresh(from, to, amount) \in New /\ Route(Fresh(from, to, amount)) = <<from, to>>
         /\ Fresh(from, to, amount).amount = amount
         /\ Fresh(from, to, amount).from = from /\ Fresh(from, to, amount).to = to
<1>1. <<from, to, amount>> \in Id
  BY DEF Id
<1> QED BY <1>1 DEF Fresh, New, Transfer, Route

LEMMA NewIsTransfer ==
  /\ New \subseteq Transfer
  /\ Seq(New) \subseteq Seq(Transfer)
  /\ Map \subseteq Seq(New)
BY SeqMonotonic DEF New, Map

LEMMA NoneOnRoute ==
  ASSUME NEW routes, NEW s \in Seq(Transfer), \A i \in 1..Len(s) : Route(s[i]) \notin routes
  PROVE  AmountOn(s, routes) = 0
<1> DEFINE B == {r \in Seq(Transfer) : (\A i \in 1..Len(r) : Route(r[i]) \notin routes) => AmountOn(r, routes) = 0}
<1>1. <<>> \in B
  BY AmountOnFold
<1>2. ASSUME NEW r \in Seq(Transfer), NEW x \in Transfer, r \in B
      PROVE  Append(r, x) \in B
  <2>1. PICK a : a = Append(r, x)
    OBVIOUS
  <2>2. PICK n \in Nat : n = Len(r)
    OBVIOUS
  <2>3. /\ a \in Seq(Transfer) /\ Len(a) = n + 1 /\ a[n + 1] = x
        /\ \A i \in 1..n : a[i] = r[i]
    BY <2>1, <2>2, AppendProperties
  <2>4. \A i \in 1..n : i \in 1..(n + 1)
    OBVIOUS
  <2>5. n + 1 \in 1..(n + 1)
    OBVIOUS
  <2>6. ASSUME \A i \in 1..Len(a) : Route(a[i]) \notin routes
        PROVE  AmountOn(a, routes) = 0
    <3>1. \A i \in 1..n : Route(r[i]) \notin routes
      BY <2>3, <2>4, <2>6
    <3>2. AmountOn(r, routes) = 0
      BY <1>2, <2>2, <3>1
    <3>3. Route(x) \notin routes
      BY <2>3, <2>5, <2>6
    <3>4. AmountOn(a, routes) = AmountOn(r, routes) + (IF Route(x) \in routes THEN x.amount ELSE 0)
      BY <2>1, AmountOnFold
    <3> QED BY <3>2, <3>3, <3>4
  <2> QED BY <2>1, <2>3, <2>6
<1> HIDE DEF B
<1>3. s \in B
  BY <1>1, <1>2, ListInduction
<1> QED BY <1>3 DEF B

LEMMA AfterAround ==
  ASSUME NEW b \in Balance, NEW pre \in Seq(Transfer), NEW post \in Seq(Transfer), NEW t \in Transfer
  PROVE  After(b, Append(pre, t) \o post) = Shift(After(b, pre \o post), t.from, t.to, t.amount)
<1>1. Append(pre, t) \in Seq(Transfer) /\ After(b, pre) \in Balance /\ t.amount \in Int
  BY AppendProperties, AfterFold DEF Transfer
<1>2. After(b, Append(pre, t) \o post) = After(After(b, Append(pre, t)), post)
  BY <1>1, AfterConcat
<1>3. After(b, Append(pre, t)) = Shift(After(b, pre), t.from, t.to, t.amount)
  BY <1>1, AfterFold, MovedIsShift
<1>4. After(Shift(After(b, pre), t.from, t.to, t.amount), post)
        = Shift(After(After(b, pre), post), t.from, t.to, t.amount)
  BY <1>1, AfterOfShift
<1>5. After(After(b, pre), post) = After(b, pre \o post)
  BY AfterConcat
<1> QED BY <1>2, <1>3, <1>4, <1>5

LEMMA MinIsMember ==
  ASSUME NEW s \in SUBSET Nat, s # {}
  PROVE  Min(s) \in s /\ \A m \in s : Min(s) <= m
<1>1. PICK k \in s : \A m \in s : ~(<<m, k>> \in OpToRel(<, Nat))
  BY NatLessThanWellFounded, WFMin
<1>2. \A m \in s : ~(m < k)
  BY <1>1 DEF OpToRel
<1>3. \A m \in s : k <= m
  BY <1>2
<1> QED BY <1>3 DEF Min

Place(rows, from, to) == SelectInSeq(rows, LAMBDA t : Route(t) = <<from, to>>)

HasPlace(rows, from, to, here) ==
  \/ here = 0 /\ \A i \in 1..Len(rows) : Route(rows[i]) # <<from, to>>
  \/ here \in 1..Len(rows) /\ Route(rows[here]) = <<from, to>>

\* The place of a route in a list, 0 if it is not there.
LEMMA PlaceOf ==
  ASSUME NEW rows, NEW from, NEW to
  PROVE  \E here : here = Place(rows, from, to) /\ HasPlace(rows, from, to, here)
<1> DEFINE I == {i \in 1..Len(rows) : Route(rows[i]) = <<from, to>>}
<1>1. Place(rows, from, to) = IF I # {} THEN Min(I) ELSE 0
  BY DEF Place, SelectInSeq
<1>2. I \in SUBSET Nat
  OBVIOUS
<1>3. I # {} => Min(I) \in I
  BY <1>2, MinIsMember
<1> QED BY <1>1, <1>3 DEF HasPlace

LEMMA MapOfOne ==
  ASSUME NEW rows \in Map, NEW i \in 1..Len(rows), NEW x \in New, Route(x) = Route(rows[i])
  PROVE  [rows EXCEPT ![i] = x] \in Map
<1>1. PICK u : u = [rows EXCEPT ![i] = x]
  OBVIOUS
<1>2. rows \in Seq(New)
  BY DEF Map
<1>3. u \in Seq(New) /\ Len(u) = Len(rows) /\ \A j \in 1..Len(rows) : u[j] = IF j = i THEN x ELSE rows[j]
  BY <1>1, <1>2, ExceptSeq
<1>4. \A j \in 1..Len(u) : Route(u[j]) = Route(rows[j])
  BY <1>3
<1> HIDE DEF Route, New
<1>5. u \in Map
  BY <1>3, <1>4 DEF Map
<1> QED BY <1>1, <1>5

LEMMA MapWithout ==
  ASSUME NEW rows \in Map, NEW i \in 1..Len(rows), NEW pre \in Seq(New), NEW post \in Seq(New),
         Len(pre) = i - 1, Len(post) = Len(rows) - i,
         \A j \in 1..Len(pre) : pre[j] = rows[j], \A j \in 1..Len(post) : post[j] = rows[i + j]
  PROVE  pre \o post \in Map
<1>1. PICK n \in Nat : n = Len(rows) /\ rows \in Seq(New)
  BY DEF Map
<1>2. PICK w : w = pre \o post
  OBVIOUS
<1>3. w \in Seq(New) /\ Len(w) = Len(pre) + Len(post)
  BY <1>2, ConcatProperties
<1>4. Len(w) = n - 1
  BY <1>1, <1>3
<1>5. \A j \in 1..(n - 1) : w[j] = IF j <= Len(pre) THEN pre[j] ELSE post[j - Len(pre)]
  <2>1. \A j \in 1..(Len(pre) + Len(post)) : w[j] = IF j <= Len(pre) THEN pre[j] ELSE post[j - Len(pre)]
    BY <1>2, ConcatProperties
  <2> QED BY <1>3, <1>4, <2>1
<1>6. PICK at : at = [j \in 1..(n - 1) |-> IF j < i THEN j ELSE j + 1]
  OBVIOUS
<1>7. ASSUME NEW j \in 1..(n - 1)
      PROVE  w[j] = rows[at[j]] /\ at[j] \in 1..n
  <2>1. CASE j < i
    BY <1>1, <1>5, <1>6, <2>1
  <2>2. CASE j >= i
    <3>1. PICK k \in Nat : k = j - Len(pre) /\ k \in 1..Len(post) /\ i + k = j + 1
      BY <1>1, <2>2
    <3>2. w[j] = post[k]
      BY <1>5, <2>2, <3>1
    <3>3. post[k] = rows[i + k]
      BY <3>1
    <3> QED BY <1>1, <1>6, <2>2, <3>1, <3>2, <3>3
  <2> QED BY <2>1, <2>2
<1>8. \A j, k \in 1..(n - 1) : at[j] = at[k] => j = k
  BY <1>1, <1>6
<1>9. \A j, k \in 1..Len(rows) : Route(rows[j]) = Route(rows[k]) => j = k
  BY DEF Map
<1>10. ASSUME NEW j \in 1..(n - 1), NEW k \in 1..(n - 1), Route(w[j]) = Route(w[k])
       PROVE  j = k
  <2>1. Route(rows[at[j]]) = Route(rows[at[k]])
    BY <1>7, <1>10
  <2>2. at[j] = at[k]
    BY <1>1, <1>7, <1>9, <2>1
  <2> QED BY <1>8, <2>2
<1>11. \A j, k \in 1..Len(w) : Route(w[j]) = Route(w[k]) => j = k
  BY <1>4, <1>10
<1> QED BY <1>2, <1>3, <1>11 DEF Map

LEMMA MapAndOne ==
  ASSUME NEW rows \in Map, NEW x \in New, \A i \in 1..Len(rows) : Route(rows[i]) # Route(x)
  PROVE  Append(rows, x) \in Map
<1>1. PICK n \in Nat : n = Len(rows) /\ rows \in Seq(New)
  BY DEF Map
<1>2. PICK w : w = Append(rows, x)
  OBVIOUS
<1>3. w \in Seq(New) /\ Len(w) = n + 1 /\ w[n + 1] = x /\ \A j \in 1..n : w[j] = rows[j]
  BY <1>1, <1>2, AppendProperties
<1>4. \A j, k \in 1..n : Route(rows[j]) = Route(rows[k]) => j = k
  BY <1>1 DEF Map
<1>5. ASSUME NEW j \in 1..(n + 1), NEW k \in 1..(n + 1), Route(w[j]) = Route(w[k])
      PROVE  j = k
  <2>1. CASE j \in 1..n /\ k \in 1..n
    <3>1. Route(rows[j]) = Route(rows[k])
      BY <1>3, <1>5, <2>1
    <3> QED BY <1>4, <2>1, <3>1
  <2>2. CASE j = n + 1 /\ k \in 1..n
    <3>1. Route(x) = Route(rows[k])
      BY <1>3, <1>5, <2>2
    <3> QED BY <1>1, <2>2, <3>1
  <2>3. CASE k = n + 1 /\ j \in 1..n
    <3>1. Route(x) = Route(rows[j])
      BY <1>3, <1>5, <2>3
    <3> QED BY <1>1, <2>3, <3>1
  <2> QED BY <2>1, <2>2, <2>3
<1>6. \A j, k \in 1..Len(w) : Route(w[j]) = Route(w[k]) => j = k
  BY <1>3, <1>5
<1> QED BY <1>2, <1>3, <1>6 DEF Map

\* The amount of a route becomes the given one.
LEMMA PutEffect ==
  ASSUME NEW rows \in Map, NEW from \in Participant, NEW to \in Participant, from # to,
         NEW amount \in Nat
  PROVE  /\ Put(rows, from, to, amount) \in Map
         /\ \A b \in Balance : After(b, Put(rows, from, to, amount))
              = Shift(After(b, rows), from, to, amount - AmountOn(rows, {<<from, to>>}))
<1>1. rows \in Seq(New) /\ rows \in Seq(Transfer)
  BY NewIsTransfer
<1>2. PICK here : here = Place(rows, from, to) /\ HasPlace(rows, from, to, here)
  BY PlaceOf
<1>3. Put(rows, from, to, amount) =
        IF here = 0 THEN IF amount = 0 THEN rows ELSE Append(rows, Fresh(from, to, amount))
        ELSE IF amount = 0 THEN RemoveAt(rows, here) ELSE [rows EXCEPT ![here] = Fresh(from, to, amount)]
  BY <1>2 DEF Put, Place
<1>4. CASE here = 0
  <2>1. \A i \in 1..Len(rows) : Route(rows[i]) # <<from, to>>
    BY <1>2, <1>4 DEF HasPlace
  <2>2. AmountOn(rows, {<<from, to>>}) = 0
    BY <1>1, <2>1, NoneOnRoute
  <2>3. amount - 0 = amount
    OBVIOUS
  <2>4. CASE amount = 0
    BY <1>1, <1>3, <1>4, <2>2, <2>3, <2>4, AfterFold, ShiftBack
  <2>5. CASE amount # 0
    <3>1. PICK x \in New : /\ x = Fresh(from, to, amount) /\ Route(x) = <<from, to>>
                           /\ x.amount = amount /\ x.from = from /\ x.to = to
      BY <2>5, FreshIsNew
    <3>2. x \in Transfer /\ Put(rows, from, to, amount) = Append(rows, x)
      BY <1>3, <1>4, <2>5, <3>1, NewIsTransfer
    <3>3. Append(rows, x) \in Map
      BY <2>1, <3>1, MapAndOne
    <3>4. ASSUME NEW b \in Balance
          PROVE  After(b, Append(rows, x)) = Shift(After(b, rows), from, to, amount)
      <4>1. After(b, rows) \in Balance /\ After(b, Append(rows, x)) = Moved(After(b, rows), x)
        BY <1>1, <3>2, AfterFold
      <4> QED BY <3>1, <3>2, <4>1, MovedIsShift
    <3> QED BY <2>2, <2>3, <3>2, <3>3, <3>4
  <2> QED BY <2>4, <2>5
<1>5. CASE here # 0
  <2>1. here \in 1..Len(rows) /\ Route(rows[here]) = <<from, to>>
    BY <1>2, <1>5 DEF HasPlace
  <2>2. PICK t \in New : t = rows[here] /\ Route(t) = <<from, to>>
    BY <1>1, <2>1, ElementOfSeq
  <2>3. t \in Transfer /\ t.from = from /\ t.to = to /\ t.amount \in Nat
    BY <2>2 DEF Route, New, Transfer
  <2>4. PICK pre \in Seq(New), post \in Seq(New) : Around(New, rows, here, pre, post)
    BY <1>1, <2>1, AroundPlace
  <2> USE DEF Around
  <2>5. pre \in Seq(Transfer) /\ post \in Seq(Transfer) /\ Append(pre, t) \in Seq(Transfer)
        /\ pre \o post \in Seq(Transfer)
    BY <2>3, NewIsTransfer, AppendProperties, ConcatProperties
  <2>6. AmountOn(rows, {<<from, to>>}) = t.amount
    <3> DEFINE routes == {<<from, to>>}
    <3>7. Route(t) \in routes
      BY <2>2
    <3>1. \A i \in 1..Len(rows) : Route(rows[i]) = <<from, to>> => i = here
      BY <2>1 DEF Map
    <3>2. ASSUME NEW i \in 1..Len(pre) PROVE Route(pre[i]) \notin {<<from, to>>}
      <4>1. i # here /\ i \in 1..Len(rows) /\ pre[i] = rows[i]
        BY <1>1, <2>1, <2>4
      <4> QED BY <3>1, <4>1
    <3>3. ASSUME NEW i \in 1..Len(post) PROVE Route(post[i]) \notin {<<from, to>>}
      <4>1. post[i] = rows[here + i]
        BY <2>4
      <4>2. PICK k \in Nat : k = Len(rows)
        BY <1>1
      <4>3. i \in 1..(k - here) /\ here \in 1..k
        BY <2>1, <2>4, <4>2
      <4>4. here + i # here /\ here + i \in 1..k
        BY <4>3
      <4> QED BY <3>1, <4>1, <4>2, <4>4
    <3> HIDE DEF routes
    <3>4. AmountOn(pre, routes) = 0 /\ AmountOn(post, routes) = 0
      BY <2>5, <3>2, <3>3, NoneOnRoute DEF routes
    <3>5. AmountOn(rows, routes) = AmountOn(Append(pre, t), routes) + AmountOn(post, routes)
      <4>1. Append(pre, t) \o post = rows
        BY <2>2, <2>4
      <4>2. AmountOn(Append(pre, t) \o post, routes) = AmountOn(Append(pre, t), routes) + AmountOn(post, routes)
        BY <2>5, AmountOnConcat
      <4> QED BY <4>1, <4>2
    <3>6. AmountOn(Append(pre, t), routes) = 0 + t.amount
      BY <2>3, <2>5, <3>4, <3>7, AmountOnFold
    <3>8. AmountOn(rows, routes) = t.amount
      BY <2>3, <3>4, <3>5, <3>6
    <3> QED BY <3>8 DEF routes
  <2>7. PICK n \in Nat : n = t.amount
    BY <2>3
  <2>8. ASSUME NEW b \in Balance
        PROVE  /\ After(b, pre \o post) \in Balance
               /\ After(b, rows) = Shift(After(b, pre \o post), from, to, n)
    <3>1. After(b, pre \o post) \in Balance
      BY <2>5, AfterFold
    <3>2. After(b, Append(pre, t) \o post) = Shift(After(b, pre \o post), t.from, t.to, t.amount)
      BY <2>3, <2>5, AfterAround
    <3>3. Append(pre, t) \o post = rows
      BY <2>2, <2>4
    <3> QED BY <2>3, <2>7, <3>1, <3>2, <3>3
  <2>9. CASE amount = 0
    <3>1. Put(rows, from, to, amount) = pre \o post
      BY <1>3, <1>5, <2>4, <2>9
    <3>2. pre \o post \in Map
      BY <2>1, <2>4, MapWithout
    <3>3. ASSUME NEW b \in Balance
          PROVE  After(b, pre \o post) = Shift(After(b, rows), from, to, amount - n)
      <4>1. PICK k \in Int : k = amount - n /\ n + k = 0
        BY <2>9
      <4>2. Shift(Shift(After(b, pre \o post), from, to, n), from, to, k)
              = Shift(After(b, pre \o post), from, to, 0)
        BY <2>8, <4>1, ShiftTwice
      <4> QED BY <2>8, <4>1, <4>2, ShiftBack
    <3> QED BY <2>6, <2>7, <3>1, <3>2, <3>3
  <2>10. CASE amount # 0
    <3>1. PICK x \in New : /\ x = Fresh(from, to, amount) /\ Route(x) = <<from, to>>
                           /\ x.amount = amount /\ x.from = from /\ x.to = to
      BY <2>10, FreshIsNew
    <3>2. x \in Transfer /\ Put(rows, from, to, amount) = [rows EXCEPT ![here] = x]
      BY <1>3, <1>5, <2>10, <3>1, NewIsTransfer
    <3>3. [rows EXCEPT ![here] = x] \in Map
      BY <2>1, <3>1, MapOfOne
    <3>4. ASSUME NEW b \in Balance
          PROVE  After(b, [rows EXCEPT ![here] = x]) = Shift(After(b, rows), from, to, amount - n)
      <4>1. PICK k \in Int : k = amount - n /\ amount = n + k
        OBVIOUS
      <4>2. Shift(Shift(After(b, pre \o post), from, to, n), from, to, k)
              = Shift(After(b, pre \o post), from, to, amount)
        BY <2>8, <4>1, ShiftTwice
      <4>3. After(b, Append(pre, x) \o post) = Shift(After(b, pre \o post), from, to, amount)
        BY <2>5, <3>1, <3>2, AfterAround
      <4> QED BY <2>4, <2>8, <4>1, <4>2, <4>3
    <3> QED BY <2>6, <2>7, <3>2, <3>3, <3>4
  <2> QED BY <2>9, <2>10
<1> QED BY <1>4, <1>5

\* Adding an amount to a route of a Map moves just that amount.
LEMMA AddedEffect ==
  ASSUME NEW rows \in Map, NEW t \in Transfer, NEW amount \in Nat
  PROVE  /\ Added(rows, t, amount) \in Map
         /\ \A b \in Balance : After(b, Added(rows, t, amount)) = Shift(After(b, rows), t.from, t.to, amount)
<1>1. t.from \in Participant /\ t.to \in Participant /\ t.from # t.to /\ Route(t) = <<t.from, t.to>>
  BY DEF Transfer, Route
<1>2. rows \in Seq(Transfer)
  BY NewIsTransfer
<1>3. PICK n \in Nat : n = AmountOn(rows, {Route(t)}) /\ n = AmountOn(rows, {<<t.from, t.to>>})
  BY <1>1, <1>2, AmountOnFold
<1>4. PICK sum \in Nat : sum = n + amount
  OBVIOUS
<1>5. CASE amount = 0
  BY <1>1, <1>2, <1>5, AfterFold, ShiftBack DEF Added
<1>6. CASE amount # 0
  <2>1. Added(rows, t, amount) = Put(rows, t.from, t.to, sum)
    BY <1>3, <1>4, <1>6 DEF Added
  <2>2. sum - n = amount
    BY <1>4
  <2>3. /\ Put(rows, t.from, t.to, sum) \in Map
        /\ \A b \in Balance : After(b, Put(rows, t.from, t.to, sum))
             = Shift(After(b, rows), t.from, t.to, sum - AmountOn(rows, {<<t.from, t.to>>}))
    BY <1>1, PutEffect
  <2> QED BY <1>3, <2>1, <2>2, <2>3
<1> QED BY <1>5, <1>6

\* Netting a transfer moves its amount.
LEMMA NettedEffect ==
  ASSUME NEW rows \in Map, NEW t \in Transfer
  PROVE  /\ Netted(rows, t) \in Map
         /\ \A b \in Balance : After(b, Netted(rows, t)) = Moved(After(b, rows), t)
<1>1. /\ t.from \in Participant /\ t.to \in Participant /\ t.from # t.to /\ t.to # t.from
      /\ Reversed(t) = <<t.to, t.from>>
  BY DEF Transfer, Reversed
<1>2. rows \in Seq(Transfer)
  BY NewIsTransfer
<1>3. PICK back \in Nat : back = AmountOn(rows, {Reversed(t)}) /\ back = AmountOn(rows, {<<t.to, t.from>>})
  BY <1>1, <1>2, AmountOnFold
<1>4. PICK n \in Nat : n = t.amount /\ n # 0
  BY DEF Transfer
<1>5. PICK stay \in Nat, more \in Nat :
         /\ stay = Positive(back - n) /\ more = Positive(n - back) /\ (back - stay) + more = n
  <2>1. CASE back > n
    BY <2>1 DEF Positive
  <2>2. CASE back <= n
    BY <2>2 DEF Positive
  <2> QED BY <2>1, <2>2
<1>6. PICK first : first = IF back = 0 THEN rows ELSE Put(rows, t.to, t.from, stay)
  OBVIOUS
<1>7. Netted(rows, t) = Added(first, t, more)
  BY <1>3, <1>4, <1>5, <1>6 DEF Netted, Cancelled
<1>8. /\ first \in Map
      /\ \A b \in Balance : After(b, first) = Shift(After(b, rows), t.from, t.to, back - stay)
  <2>1. CASE back = 0
    <3>1. back - stay = 0
      BY <1>4, <1>5, <2>1 DEF Positive
    <3> QED BY <1>1, <1>2, <1>6, <2>1, <3>1, AfterFold, ShiftBack
  <2>2. CASE back # 0
    <3>1. /\ Put(rows, t.to, t.from, stay) \in Map
          /\ \A b \in Balance : After(b, Put(rows, t.to, t.from, stay))
               = Shift(After(b, rows), t.to, t.from, stay - AmountOn(rows, {<<t.to, t.from>>}))
      BY <1>1, PutEffect
    <3>2. PICK d \in Int : d = back - stay /\ stay - back = -d
      OBVIOUS
    <3>3. ASSUME NEW b \in Balance
          PROVE  After(b, Put(rows, t.to, t.from, stay)) = Shift(After(b, rows), t.from, t.to, d)
      <4>1. After(b, rows) \in Balance
        BY <1>2, AfterFold
      <4>2. After(b, Put(rows, t.to, t.from, stay)) = Shift(After(b, rows), t.to, t.from, -d)
        BY <1>3, <3>1, <3>2
      <4> QED BY <1>1, <4>1, <4>2, ShiftBack
    <3> QED BY <1>6, <2>2, <3>1, <3>2, <3>3
  <2> QED BY <2>1, <2>2
<1>9. /\ Added(first, t, more) \in Map
      /\ \A b \in Balance : After(b, Added(first, t, more)) = Shift(After(b, first), t.from, t.to, more)
  BY <1>8, AddedEffect
<1>10. ASSUME NEW b \in Balance
       PROVE  After(b, Netted(rows, t)) = Moved(After(b, rows), t)
  <2>1. PICK d \in Int : d = back - stay /\ n = d + more
    BY <1>5
  <2>2. After(b, rows) \in Balance
    BY <1>2, AfterFold
  <2>3. Shift(Shift(After(b, rows), t.from, t.to, d), t.from, t.to, more) = Shift(After(b, rows), t.from, t.to, n)
    BY <2>1, <2>2, ShiftTwice
  <2>4. Moved(After(b, rows), t) = Shift(After(b, rows), t.from, t.to, n)
    BY <1>4, <2>2, MovedIsShift
  <2> QED BY <1>7, <1>8, <1>9, <2>1, <2>3, <2>4
<1> QED BY <1>7, <1>9, <1>10

NettedOnto(base, rows) == FoldLeft(Netted, base, rows)

LEMMA NettedOntoFold ==
  ASSUME NEW base \in Map
  PROVE  /\ NettedOnto(base, <<>>) = base
         /\ \A rows \in Seq(Transfer) : NettedOnto(base, rows) \in Map
         /\ \A rows \in Seq(Transfer), t \in Transfer :
              NettedOnto(base, Append(rows, t)) = Netted(NettedOnto(base, rows), t)
<1> DEFINE step == [t \in Transfer |-> [y \in Map |-> Netted(y, t)]]
           F == [rows \in Seq(Transfer) |-> NettedOnto(base, rows)]
<1>1. Acts(step, Transfer, Map)
  BY NettedEffect DEF Acts
<1>2. ASSUME NEW rows \in Seq(Transfer)
      PROVE  \E f : /\ Unfolds(f, Map, Len(rows), base, StepsOf(step, rows))
                    /\ F[rows] = f[1..Len(rows)]
  <2> DEFINE Eq(f) == f = [s \in SUBSET DOMAIN rows |->
                             IF s = {} THEN base ELSE Netted(f[s \ {Max(s)}], rows[Max(s)])]
             fold == CHOOSE f : Eq(f)
  <2>1. PICK n \in Nat : n = Len(rows) /\ DOMAIN rows = 1..n
    OBVIOUS
  <2>2. PICK go : go = StepsOf(step, rows)
    OBVIOUS
  <2>3. Steps(go, Map, n)
    BY <1>1, <2>1, <2>2, StepsOfActs
  <2>4. \A k \in 1..n, y \in Map : go[k][y] = Netted(y, rows[k])
    BY <2>1, <2>2 DEF StepsOf
  <2>5. \A s \in SUBSET (1..n) : s # {} => Max(s) \in 1..n /\ s \ {Max(s)} \in SUBSET (1..n)
    BY MaxIsMember
  <2> HIDE DEF step, F
  <2>6. PICK f : Folds(f, Map, n, base, go)
    BY <2>3, FoldExists
  <2>7. Eq(f)
    BY <2>1, <2>4, <2>5, <2>6 DEF Folds
  <2>8. Eq(fold)
    BY <2>7
  <2>9. F[rows] = fold[DOMAIN rows]
    BY DEF F, NettedOnto, FoldLeft, MapThenFoldSet
  <2> HIDE DEF fold
  <2>10. Unfolds(fold, Map, n, base, go)
    <3>1. fold[{}] = base
      BY <2>8
    <3>2. ASSUME NEW s \in SUBSET (1..n), s # {}, fold[s \ {Max(s)}] \in Map
          PROVE  fold[s] = go[Max(s)][fold[s \ {Max(s)}]]
      <4>1. fold[s] = Netted(fold[s \ {Max(s)}], rows[Max(s)])
        BY <2>1, <2>8, <3>2
      <4>2. Max(s) \in 1..n
        BY <2>5, <3>2
      <4> QED BY <2>4, <3>2, <4>1, <4>2
    <3> QED BY <3>1, <3>2 DEF Unfolds
  <2> QED BY <2>1, <2>2, <2>9, <2>10
<1>3. Fits(F, Transfer, Map, base, step)
  BY <1>2 DEF Fits
<1> HIDE DEF step, F
<1>4. IsFold(F, Transfer, Map, base, step)
  BY <1>1, <1>3, FoldLaw
<1>5. <<>> \in Seq(Transfer) /\ \A rows \in Seq(Transfer), t \in Transfer : Append(rows, t) \in Seq(Transfer)
  BY AppendProperties
<1> QED BY <1>4, <1>5 DEF IsFold, step, F

\* Netting a list against a Map moves what the list moves.
LEMMA NettedOntoEffect ==
  ASSUME NEW base \in Map, NEW rows \in Seq(Transfer)
  PROVE  /\ NettedOnto(base, rows) \in Map
         /\ \A b \in Balance : After(b, NettedOnto(base, rows)) = After(After(b, base), rows)
<1> DEFINE B == {s \in Seq(Transfer) :
                   \A b \in Balance : After(b, NettedOnto(base, s)) = After(After(b, base), s)}
<1>1. \A b \in Balance : After(b, base) \in Balance
  BY NewIsTransfer, AfterFold
<1>2. <<>> \in B
  <2>1. ASSUME NEW b \in Balance PROVE After(b, NettedOnto(base, <<>>)) = After(After(b, base), <<>>)
    BY <1>1, NettedOntoFold, AfterFold
  <2> QED BY <2>1
<1>3. ASSUME NEW s \in Seq(Transfer), NEW t \in Transfer, s \in B
      PROVE  Append(s, t) \in B
  <2>1. Append(s, t) \in Seq(Transfer)
    BY AppendProperties
  <2>2. PICK m \in Map : m = NettedOnto(base, s) /\ NettedOnto(base, Append(s, t)) = Netted(m, t)
    BY NettedOntoFold
  <2>3. ASSUME NEW b \in Balance
        PROVE  After(b, NettedOnto(base, Append(s, t))) = After(After(b, base), Append(s, t))
    <3>1. After(b, Netted(m, t)) = Moved(After(b, m), t)
      BY NettedEffect
    <3>2. After(b, m) = After(After(b, base), s)
      BY <1>3, <2>2
    <3>3. After(After(b, base), Append(s, t)) = Moved(After(After(b, base), s), t)
      BY <1>1, AfterFold
    <3> QED BY <2>2, <3>1, <3>2, <3>3
  <2> QED BY <2>1, <2>3
<1> HIDE DEF B
<1>4. rows \in B
  BY <1>2, <1>3, ListInduction
<1> QED BY <1>4, NettedOntoFold DEF B

LEMMA CombinedFold ==
  /\ Combined(<<>>) = <<>>
  /\ \A rows \in Seq(Transfer) : Combined(rows) \in Map
  /\ \A rows \in Seq(Transfer), t \in Transfer :
       Combined(Append(rows, t)) = Added(Combined(rows), t, t.amount)
<1>0. <<>> \in Map
  BY EmptySeq DEF Map
<1> DEFINE step == [t \in Transfer |-> [y \in Map |-> Added(y, t, t.amount)]]
           F == [rows \in Seq(Transfer) |-> Combined(rows)]
<1>1. Acts(step, Transfer, Map)
  BY AddedEffect DEF Acts, Transfer
<1>2. ASSUME NEW rows \in Seq(Transfer)
      PROVE  \E f : /\ Unfolds(f, Map, Len(rows), <<>>, StepsOf(step, rows))
                    /\ F[rows] = f[1..Len(rows)]
  <2> DEFINE Eq(f) == f = [s \in SUBSET DOMAIN rows |->
                             IF s = {} THEN <<>> ELSE Added(f[s \ {Max(s)}], rows[Max(s)], rows[Max(s)].amount)]
             fold == CHOOSE f : Eq(f)
  <2>1. PICK n \in Nat : n = Len(rows) /\ DOMAIN rows = 1..n
    OBVIOUS
  <2>2. PICK go : go = StepsOf(step, rows)
    OBVIOUS
  <2>3. Steps(go, Map, n)
    BY <1>1, <2>1, <2>2, StepsOfActs
  <2>4. \A k \in 1..n, y \in Map : go[k][y] = Added(y, rows[k], rows[k].amount)
    BY <2>1, <2>2 DEF StepsOf
  <2>5. \A s \in SUBSET (1..n) : s # {} => Max(s) \in 1..n /\ s \ {Max(s)} \in SUBSET (1..n)
    BY MaxIsMember
  <2> HIDE DEF step, F
  <2>6. PICK f : Folds(f, Map, n, <<>>, go)
    BY <1>0, <2>3, FoldExists
  <2>7. Eq(f)
    BY <2>1, <2>4, <2>5, <2>6 DEF Folds
  <2>8. Eq(fold)
    BY <2>7
  <2>9. F[rows] = fold[DOMAIN rows]
    BY DEF F, Combined, FoldLeft, MapThenFoldSet
  <2> HIDE DEF fold
  <2>10. Unfolds(fold, Map, n, <<>>, go)
    <3>1. fold[{}] = <<>>
      BY <2>8
    <3>2. ASSUME NEW s \in SUBSET (1..n), s # {}, fold[s \ {Max(s)}] \in Map
          PROVE  fold[s] = go[Max(s)][fold[s \ {Max(s)}]]
      <4>1. fold[s] = Added(fold[s \ {Max(s)}], rows[Max(s)], rows[Max(s)].amount)
        BY <2>1, <2>8, <3>2
      <4>2. Max(s) \in 1..n
        BY <2>5, <3>2
      <4> QED BY <2>4, <3>2, <4>1, <4>2
    <3> QED BY <3>1, <3>2 DEF Unfolds
  <2> QED BY <2>1, <2>2, <2>9, <2>10
<1>3. Fits(F, Transfer, Map, <<>>, step)
  BY <1>2 DEF Fits
<1> HIDE DEF step, F
<1>4. IsFold(F, Transfer, Map, <<>>, step)
  BY <1>0, <1>1, <1>3, FoldLaw
<1>5. <<>> \in Seq(Transfer) /\ \A rows \in Seq(Transfer), t \in Transfer : Append(rows, t) \in Seq(Transfer)
  BY AppendProperties
<1> QED BY <1>4, <1>5 DEF IsFold, step, F

\* Combining transfers by route moves what they move, with one row for each route.
LEMMA CombinedEffect ==
  ASSUME NEW rows \in Seq(Transfer)
  PROVE  /\ Combined(rows) \in Map
         /\ \A b \in Balance : After(b, Combined(rows)) = After(b, rows)
<1> DEFINE B == {s \in Seq(Transfer) : \A b \in Balance : After(b, Combined(s)) = After(b, s)}
<1>1. <<>> \in B
  BY CombinedFold
<1>2. ASSUME NEW s \in Seq(Transfer), NEW t \in Transfer, s \in B
      PROVE  Append(s, t) \in B
  <2>1. Append(s, t) \in Seq(Transfer)
    BY AppendProperties
  <2>2. PICK m \in Map : m = Combined(s) /\ Combined(Append(s, t)) = Added(m, t, t.amount)
    BY CombinedFold
  <2>3. ASSUME NEW b \in Balance
        PROVE  After(b, Combined(Append(s, t))) = After(b, Append(s, t))
    <3>1. t.amount \in Nat
      BY DEF Transfer
    <3>2. After(b, Added(m, t, t.amount)) = Shift(After(b, m), t.from, t.to, t.amount)
      BY <3>1, AddedEffect
    <3>3. After(b, m) = After(b, s) /\ After(b, s) \in Balance
      BY <1>2, <2>2, AfterFold
    <3>4. After(b, Append(s, t)) = Moved(After(b, s), t)
      BY AfterFold
    <3> QED BY <2>2, <3>2, <3>3, <3>4, MovedIsShift
  <2> QED BY <2>1, <2>3
<1> HIDE DEF B
<1>3. rows \in B
  BY <1>1, <1>2, ListInduction
<1> QED BY <1>3, CombinedFold DEF B

Lessened(rows, t) == Put(rows, t.from, t.to, Positive(AmountOn(rows, {Route(t)}) - t.amount))

LEMMA LessenedType ==
  ASSUME NEW rows \in Map, NEW t \in Transfer
  PROVE  Lessened(rows, t) \in Map
<1>1. rows \in Seq(Transfer)
  BY NewIsTransfer
<1>2. PICK n \in Nat : n = AmountOn(rows, {Route(t)})
  BY <1>1, AmountOnFold
<1>3. t.from \in Participant /\ t.to \in Participant /\ t.from # t.to /\ t.amount \in Nat
  BY DEF Transfer
<1>4. Positive(n - t.amount) \in Nat
  BY <1>3 DEF Positive
<1> QED BY <1>2, <1>3, <1>4, PutEffect DEF Lessened

\* What payments leave of a Map of routes is one.
LEMMA RemainingRoutesType ==
  ASSUME NEW base \in Map
  PROVE  \A paid \in Seq(Transfer) : RemainingRoutes(base, paid) \in Map
<1> DEFINE step == [t \in Transfer |-> [y \in Map |-> Lessened(y, t)]]
           F == [rows \in Seq(Transfer) |-> RemainingRoutes(base, rows)]
<1>1. Acts(step, Transfer, Map)
  BY LessenedType DEF Acts
<1>2. ASSUME NEW rows \in Seq(Transfer)
      PROVE  \E f : /\ Unfolds(f, Map, Len(rows), base, StepsOf(step, rows))
                    /\ F[rows] = f[1..Len(rows)]
  <2> DEFINE Eq(f) == f = [s \in SUBSET DOMAIN rows |->
                             IF s = {} THEN base ELSE Lessened(f[s \ {Max(s)}], rows[Max(s)])]
             fold == CHOOSE f : Eq(f)
  <2>1. PICK n \in Nat : n = Len(rows) /\ DOMAIN rows = 1..n
    OBVIOUS
  <2>2. PICK go : go = StepsOf(step, rows)
    OBVIOUS
  <2>3. Steps(go, Map, n)
    BY <1>1, <2>1, <2>2, StepsOfActs
  <2>4. \A k \in 1..n, y \in Map : go[k][y] = Lessened(y, rows[k])
    BY <2>1, <2>2 DEF StepsOf
  <2>5. \A s \in SUBSET (1..n) : s # {} => Max(s) \in 1..n /\ s \ {Max(s)} \in SUBSET (1..n)
    BY MaxIsMember
  <2> HIDE DEF step, F
  <2>6. PICK f : Folds(f, Map, n, base, go)
    BY <2>3, FoldExists
  <2>7. Eq(f)
    BY <2>1, <2>4, <2>5, <2>6 DEF Folds
  <2>8. Eq(fold)
    BY <2>7
  <2>9. F[rows] = fold[DOMAIN rows]
    BY DEF F, RemainingRoutes, Lessened, FoldLeft, MapThenFoldSet
  <2> HIDE DEF fold
  <2>10. Unfolds(fold, Map, n, base, go)
    <3>1. fold[{}] = base
      BY <2>8
    <3>2. ASSUME NEW s \in SUBSET (1..n), s # {}, fold[s \ {Max(s)}] \in Map
          PROVE  fold[s] = go[Max(s)][fold[s \ {Max(s)}]]
      <4>1. fold[s] = Lessened(fold[s \ {Max(s)}], rows[Max(s)])
        BY <2>1, <2>8, <3>2
      <4>2. Max(s) \in 1..n
        BY <2>5, <3>2
      <4> QED BY <2>4, <3>2, <4>1, <4>2
    <3> QED BY <3>1, <3>2 DEF Unfolds
  <2> QED BY <2>1, <2>2, <2>9, <2>10
<1>3. Fits(F, Transfer, Map, base, step)
  BY <1>2 DEF Fits
<1> HIDE DEF step, F
<1>4. IsFold(F, Transfer, Map, base, step)
  BY <1>1, <1>3, FoldLaw
<1>5. <<>> \in Seq(Transfer) /\ \A rows \in Seq(Transfer), t \in Transfer : Append(rows, t) \in Seq(Transfer)
  BY AppendProperties
<1> QED BY <1>4 DEF IsFold, F

-----------------------------------------------------------------------------
(* Elements of a list and lists of sets. *)

\* A function on 0..n that takes the steps where it can is a trace.
Runs(w, Y, n, base, step) ==
  /\ w[0] = base
  /\ \A i \in 1..n : w[i - 1] \in Y => w[i] = step[i][w[i - 1]]

LEMMA TraceExists ==
  ASSUME NEW n \in Nat, NEW Y, NEW base \in Y, NEW step, Steps(step, Y, n)
  PROVE  \E v : Traces(v, Y, n, base, step)
<1>1. PICK f : Folds(f, Y, n, base, step)
  BY FoldExists
<1>2. \A s \in SUBSET (1..n) : s # {} => s \ {Max(s)} \in SUBSET (1..n)
  OBVIOUS
<1>3. Unfolds(f, Y, n, base, step)
  BY <1>1, <1>2 DEF Folds, Unfolds
<1> QED BY <1>3, FoldTrace

LEMMA RunsAreTraces ==
  ASSUME NEW n \in Nat, NEW Y, NEW base \in Y, NEW step, Steps(step, Y, n),
         NEW w, Runs(w, Y, n, base, step)
  PROVE  \A k \in 0..n : w[k] \in Y
<1> USE DEF Steps, Runs
<1> DEFINE B == {k \in Nat : k <= n => w[k] \in Y}
<1>1. 0 \in B
  OBVIOUS
<1>2. ASSUME NEW k \in Nat, k \in B
      PROVE  k + 1 \in B
  <2> SUFFICES ASSUME k + 1 <= n
               PROVE  w[k + 1] \in Y
    OBVIOUS
  <2>1. PICK j \in 1..n : j = k + 1 /\ j - 1 = k
    OBVIOUS
  <2>2. w[k] \in Y
    BY <1>2
  <2> QED BY <2>1, <2>2
<1> HIDE DEF B
<1>3. \A k \in Nat : k \in B
  BY <1>1, <1>2, Induction
<1> QED BY <1>3 DEF B

\* r is the elements of s at some of its first n places.
Picked(at, r, s, places, n) ==
  /\ at \in [1..Len(r) -> {i \in 1..n : i \in places}]
  /\ \A k \in 1..Len(r) : r[k] = s[at[k]]
  /\ \A j, k \in 1..Len(r) : j < k => at[j] < at[k]
  /\ \A i \in 1..n : i \in places => \E k \in 1..Len(r) : at[k] = i

Picks(r, s, places, n) == \E at : Picked(at, r, s, places, n)

LEMMA PicksOneMore ==
  ASSUME NEW S, NEW s \in Seq(S), NEW places, NEW n \in Nat, NEW m \in 1..Len(s), m = n + 1,
         NEW r \in Seq(S), Picks(r, s, places, n)
  PROVE  IF m \in places THEN Picks(Append(r, s[m]), s, places, m) ELSE Picks(r, s, places, m)
<1>0. PICK at : Picked(at, r, s, places, n)
  BY DEF Picks
<1>1. /\ at \in [1..Len(r) -> {i \in 1..n : i \in places}]
      /\ \A k \in 1..Len(r) : r[k] = s[at[k]]
      /\ \A j, k \in 1..Len(r) : j < k => at[j] < at[k]
      /\ \A i \in 1..n : i \in places => \E k \in 1..Len(r) : at[k] = i
  BY <1>0 DEF Picked
<1>2. PICK l \in Nat : l = Len(r)
  OBVIOUS
<1>3. CASE m \in places
  <2>1. PICK q : q = Append(r, s[m])
    OBVIOUS
  <2>2. s[m] \in S
    OBVIOUS
  <2>3. q \in Seq(S) /\ Len(q) = l + 1 /\ q[l + 1] = s[m] /\ \A k \in 1..l : q[k] = r[k]
    BY <1>2, <2>1, <2>2, AppendProperties
  <2>4. PICK to : to = [k \in 1..(l + 1) |-> IF k = l + 1 THEN m ELSE at[k]]
    OBVIOUS
  <2>5. \A k \in 1..l : at[k] \in 1..n /\ at[k] \in places
    BY <1>1, <1>2
  <2>6. \A k \in 1..l : k # l + 1 /\ k \in 1..(l + 1)
    OBVIOUS
  <2>7. to[l + 1] = m /\ \A k \in 1..l : to[k] = at[k]
    BY <2>4, <2>6
  <2>8. \A k \in 1..(l + 1) : k = l + 1 \/ k \in 1..l
    OBVIOUS
  <2>9. to \in [1..(l + 1) -> {i \in 1..m : i \in places}]
    BY <1>3, <2>4, <2>5, <2>8
  <2>10. \A k \in 1..(l + 1) : q[k] = s[to[k]]
    BY <1>1, <1>2, <2>3, <2>7, <2>8
  <2>11. ASSUME NEW j \in 1..(l + 1), NEW k \in 1..(l + 1), j < k
         PROVE  to[j] < to[k]
    <3>1. j \in 1..l
      BY <2>11
    <3>2. CASE k = l + 1
      BY <2>5, <2>7, <3>1, <3>2
    <3>3. CASE k \in 1..l
      BY <1>1, <1>2, <2>7, <2>11, <3>1, <3>3
    <3> QED BY <2>8, <3>2, <3>3
  <2>12. ASSUME NEW i \in 1..m, i \in places
         PROVE  \E k \in 1..(l + 1) : to[k] = i
    <3>1. CASE i = m
      <4>1. l + 1 \in 1..(l + 1)
        OBVIOUS
      <4> QED BY <2>7, <3>1, <4>1
    <3>2. CASE i # m
      <4>1. i \in 1..n
        BY <3>2
      <4>2. PICK k \in 1..l : at[k] = i
        BY <1>1, <1>2, <2>12, <4>1
      <4> QED BY <2>6, <2>7, <4>2
    <3> QED BY <3>1, <3>2
  <2>13. Picked(to, q, s, places, m)
    BY <2>3, <2>9, <2>10, <2>11, <2>12 DEF Picked
  <2>14. Picks(q, s, places, m)
    BY <2>13 DEF Picks
  <2> QED BY <1>3, <2>1, <2>14
<1>4. CASE m \notin places
  <2>1. \A i : i \in 1..m /\ i \in places <=> i \in 1..n /\ i \in places
    BY <1>4
  <2>2. {i \in 1..m : i \in places} = {i \in 1..n : i \in places}
    BY <2>1
  <2>4. Picked(at, r, s, places, m)
    BY <1>1, <2>1, <2>2 DEF Picked
  <2>3. Picks(r, s, places, m)
    BY <2>4 DEF Picks
  <2> QED BY <1>4, <2>3
<1> QED BY <1>3, <1>4

\* What Among picks, place by place.
LEMMA AmongPicks ==
  ASSUME NEW S, NEW s \in Seq(S), NEW places
  PROVE  Among(s, places) \in Seq(S) /\ Picks(Among(s, places), s, places, Len(s))
<1>1. PICK n \in Nat : n = Len(s)
  OBVIOUS
<1> DEFINE Eq(w) == w = [i \in 0..Len(s) |-> IF i = 0 THEN <<>>
                                      ELSE IF i \in places THEN Append(w[i - 1], s[i]) ELSE w[i - 1]]
           kept == CHOOSE w : Eq(w)
           step == [i \in 1..n |-> [r \in Seq(S) |-> IF i \in places THEN Append(r, s[i]) ELSE r]]
<1>2. Steps(step, Seq(S), n)
  <2>1. \A i \in 1..n, r \in Seq(S) : Append(r, s[i]) \in Seq(S)
    BY <1>1, AppendProperties
  <2> QED BY <2>1 DEF Steps
<1>3. \A i \in 1..n : i # 0 /\ i \in 0..n /\ i - 1 \in 0..n
  OBVIOUS
<1>4. \A i \in 0..n : i = 0 \/ i \in 1..n
  OBVIOUS
<1>5. \A i \in 1..n, r \in Seq(S) : step[i][r] = IF i \in places THEN Append(r, s[i]) ELSE r
  OBVIOUS
<1> HIDE DEF step
<1>6. <<>> \in Seq(S)
  OBVIOUS
<1>7. PICK v : Traces(v, Seq(S), n, <<>>, step)
  BY <1>2, <1>6, TraceExists
<1>18. v \in [0..n -> Seq(S)] /\ v[0] = <<>> /\ \A i \in 1..n : v[i] = step[i][v[i - 1]]
  BY <1>7 DEF Traces
<1>19. \A i \in 1..n : v[i] = IF i \in places THEN Append(v[i - 1], s[i]) ELSE v[i - 1]
  BY <1>3, <1>5, <1>18
<1>8. Eq(v)
  BY <1>1, <1>3, <1>4, <1>18, <1>19
<1>9. Eq(kept)
  BY <1>8
<1>10. Among(s, places) = kept[Len(s)]
  BY DEF Among
<1> HIDE DEF kept
<1>11. \A i \in 1..n : kept[i] = IF i \in places THEN Append(kept[i - 1], s[i]) ELSE kept[i - 1]
  BY <1>1, <1>3, <1>9
<1>12. kept[0] = <<>>
  BY <1>9
<1>13. Runs(kept, Seq(S), n, <<>>, step)
  BY <1>5, <1>11, <1>12 DEF Runs
<1>14. \A k \in 0..n : kept[k] \in Seq(S)
  BY <1>2, <1>6, <1>13, RunsAreTraces
<1> DEFINE B == {k \in Nat : k <= n => Picks(kept[k], s, places, k)}
<1>15. 0 \in B
  <2>1. Picks(<<>>, s, places, 0)
    <3>1. PICK at : at = [k \in {} |-> 0]
      OBVIOUS
    <3>2. Picked(at, <<>>, s, places, 0)
      BY <3>1 DEF Picked
    <3> QED BY <3>2 DEF Picks
  <2> QED BY <1>12, <2>1
<1>16. ASSUME NEW k \in Nat, k \in B
       PROVE  k + 1 \in B
  <2> SUFFICES ASSUME k + 1 <= n
               PROVE  Picks(kept[k + 1], s, places, k + 1)
    OBVIOUS
  <2>1. PICK j \in 1..Len(s) : j = k + 1 /\ j - 1 = k /\ j \in 1..n
    BY <1>1
  <2>2. kept[k] \in Seq(S) /\ Picks(kept[k], s, places, k)
    BY <1>14, <1>16
  <2>3. IF j \in places THEN Picks(Append(kept[k], s[j]), s, places, j) ELSE Picks(kept[k], s, places, j)
    BY <2>1, <2>2, PicksOneMore
  <2> QED BY <1>11, <2>1, <2>3
<1> HIDE DEF B
<1>17. n \in B
  BY <1>15, <1>16, Induction
<1> QED BY <1>1, <1>10, <1>14, <1>17 DEF B

Consists(r, s, places) ==
  /\ \A k \in 1..Len(r) : \E i \in 1..Len(s) : i \in places /\ r[k] = s[i]
  /\ \A i \in 1..Len(s) : i \in places => \E k \in 1..Len(r) : r[k] = s[i]
  /\ \A j, k \in 1..Len(r) : j # k => \E h, i \in 1..Len(s) : h # i /\ r[j] = s[h] /\ r[k] = s[i]

\* The elements Among picks, in their order.
LEMMA AmongElements ==
  ASSUME NEW S, NEW s \in Seq(S), NEW places
  PROVE  Among(s, places) \in Seq(S) /\ Consists(Among(s, places), s, places)
<1>1. PICK r \in Seq(S) : r = Among(s, places) /\ Picks(r, s, places, Len(s))
  BY AmongPicks
<1>2. PICK at : Picked(at, r, s, places, Len(s))
  BY <1>1 DEF Picks
<1>3. \A k \in 1..Len(r) : at[k] \in 1..Len(s) /\ at[k] \in places /\ r[k] = s[at[k]]
  BY <1>2 DEF Picked
<1>4. \A i \in 1..Len(s) : i \in places => \E k \in 1..Len(r) : r[k] = s[i]
  <2> SUFFICES ASSUME NEW i \in 1..Len(s), i \in places
               PROVE  \E k \in 1..Len(r) : r[k] = s[i]
    OBVIOUS
  <2>1. PICK k \in 1..Len(r) : at[k] = i
    BY <1>2 DEF Picked
  <2> QED BY <1>3, <2>1
<1>5. \A j, k \in 1..Len(r) : j # k => at[j] # at[k]
  <2> SUFFICES ASSUME NEW j \in 1..Len(r), NEW k \in 1..Len(r), j < k
               PROVE  at[j] # at[k]
    OBVIOUS
  <2>1. at[j] < at[k]
    BY <1>2 DEF Picked
  <2> QED BY <1>3, <2>1
<1>7. \A k \in 1..Len(r) : \E i \in 1..Len(s) : i \in places /\ r[k] = s[i]
  BY <1>3
<1>8. \A j, k \in 1..Len(r) : j # k => \E h, i \in 1..Len(s) : h # i /\ r[j] = s[h] /\ r[k] = s[i]
  BY <1>3, <1>5
<1>6. Consists(r, s, places)
  BY <1>4, <1>7, <1>8 DEF Consists
<1> QED BY <1>1, <1>6

\* Every element of a strict order has a rank of its own.
IsOrder(ahead, P) ==
  /\ ahead \in [P -> SUBSET P]
  /\ \A x \in P : x \notin ahead[x]
  /\ \A x, y, z \in P : x \in ahead[y] /\ y \in ahead[z] => x \in ahead[z]
  /\ \A x, y \in P : x # y => x \in ahead[y] \/ y \in ahead[x]

\* In a strict order of a finite set, each rank is held by one element.
LEMMA RankExists ==
  ASSUME NEW P, IsFiniteSet(P), NEW ahead, IsOrder(ahead, P), NEW n \in Nat, n = Cardinality(P)
  PROVE  /\ \A x \in P : Cardinality(ahead[x]) \in 0..(n - 1)
         /\ \A x, y \in P : Cardinality(ahead[x]) = Cardinality(ahead[y]) => x = y
         /\ \A k \in 0..(n - 1) : \E x \in P : Cardinality(ahead[x]) = k
<1> USE DEF IsOrder
<1>1. ASSUME NEW x \in P
      PROVE  /\ IsFiniteSet(ahead[x]) /\ Cardinality(ahead[x]) \in Nat
             /\ Cardinality(ahead[x]) < n
  <2>1. ahead[x] \in SUBSET P /\ ahead[x] # P
    OBVIOUS
  <2>2. IsFiniteSet(ahead[x]) /\ Cardinality(ahead[x]) <= Cardinality(P)
        /\ (Cardinality(P) = Cardinality(ahead[x]) => P = ahead[x])
    BY <2>1, FS_Subset
  <2>3. Cardinality(ahead[x]) \in Nat
    BY <2>2, FS_CardinalityType
  <2> QED BY <2>1, <2>2, <2>3
<1>2. ASSUME NEW x \in P, NEW y \in P, x \in ahead[y]
      PROVE  Cardinality(ahead[x]) < Cardinality(ahead[y])
  <2>1. ahead[x] \in SUBSET ahead[y] /\ ahead[x] # ahead[y]
    BY <1>2
  <2>2. Cardinality(ahead[x]) <= Cardinality(ahead[y])
        /\ (Cardinality(ahead[y]) = Cardinality(ahead[x]) => ahead[y] = ahead[x])
    BY <1>1, <2>1, FS_Subset
  <2> QED BY <1>1, <2>1, <2>2
<1>3. \A x, y \in P : Cardinality(ahead[x]) = Cardinality(ahead[y]) => x = y
  <2> SUFFICES ASSUME NEW x \in P, NEW y \in P, x # y
               PROVE  Cardinality(ahead[x]) # Cardinality(ahead[y])
    OBVIOUS
  <2>1. CASE x \in ahead[y]
    BY <1>1, <1>2, <2>1
  <2>2. CASE y \in ahead[x]
    BY <1>1, <1>2, <2>2
  <2> QED BY <2>1, <2>2
<1>4. PICK N : N = 0..(n - 1)
  OBVIOUS
<1>5. IsFiniteSet(N) /\ Cardinality(N) = n
  BY <1>4, FS_Interval
<1>6. PICK rank : rank = [x \in P |-> Cardinality(ahead[x])]
  OBVIOUS
<1>7. \A x \in P : Cardinality(ahead[x]) \in N
  BY <1>1, <1>4
<1>8. rank \in Injection(P, N)
  BY <1>3, <1>6, <1>7 DEF Injection, IsInjective
<1>9. rank \in Surjection(P, N)
  BY <1>5, <1>8, FS_Injection
<1>10. \A k \in N : \E x \in P : rank[x] = k
  BY <1>9 DEF Surjection
<1> QED BY <1>3, <1>4, <1>6, <1>7, <1>10

\* A set listed in an order.
Listed(s, ahead, P) ==
  /\ s \in Seq(P) /\ Len(s) = Cardinality(P)
  /\ \A k \in 1..Len(s) : Cardinality(ahead[s[k]]) = k - 1
  /\ \A j, k \in 1..Len(s) : s[j] = s[k] => j = k
  /\ \A x \in P : \E k \in 1..Len(s) : s[k] = x

\* InOrder lists a set once each, in its order.
LEMMA InOrderLists ==
  ASSUME NEW P, IsFiniteSet(P), NEW ahead, IsOrder(ahead, P)
  PROVE  Listed(InOrder(ahead), ahead, P)
<1>1. PICK n \in Nat : n = Cardinality(P)
  BY FS_CardinalityType
<1>2. /\ \A x \in P : Cardinality(ahead[x]) \in 0..(n - 1)
      /\ \A x, y \in P : Cardinality(ahead[x]) = Cardinality(ahead[y]) => x = y
      /\ \A k \in 0..(n - 1) : \E x \in P : Cardinality(ahead[x]) = k
  BY <1>1, RankExists
<1>3. DOMAIN ahead = P
  BY DEF IsOrder
<1> DEFINE Eq(w) == w = [k \in 0..Cardinality(DOMAIN ahead) |->
                           IF k = 0 THEN <<>>
                           ELSE Append(w[k - 1], CHOOSE x \in DOMAIN ahead : Cardinality(ahead[x]) = k - 1)]
           first == CHOOSE w : Eq(w)
<1>4. PICK nth : nth = [k \in 1..n |-> CHOOSE x \in P : Cardinality(ahead[x]) = k - 1]
  OBVIOUS
<1>5. \A k \in 1..n : nth[k] \in P /\ Cardinality(ahead[nth[k]]) = k - 1
  <2> SUFFICES ASSUME NEW k \in 1..n
               PROVE  nth[k] \in P /\ Cardinality(ahead[nth[k]]) = k - 1
    OBVIOUS
  <2>1. k - 1 \in 0..(n - 1)
    OBVIOUS
  <2>2. \E x \in P : Cardinality(ahead[x]) = k - 1
    BY <1>2, <2>1
  <2> QED BY <1>4, <2>2
<1> DEFINE step == [k \in 1..n |-> [r \in Seq(P) |-> Append(r, nth[k])]]
<1>6. Steps(step, Seq(P), n)
  <2>1. \A k \in 1..n, r \in Seq(P) : Append(r, nth[k]) \in Seq(P)
    BY <1>5, AppendProperties
  <2> QED BY <2>1 DEF Steps
<1>7. \A k \in 1..n, r \in Seq(P) : step[k][r] = Append(r, nth[k])
  OBVIOUS
<1> HIDE DEF step
<1>8. <<>> \in Seq(P)
  OBVIOUS
<1>9. PICK v : Traces(v, Seq(P), n, <<>>, step)
  BY <1>6, <1>8, TraceExists
<1>10. \A k \in 1..n : k # 0 /\ k \in 0..n /\ k - 1 \in 0..n
  OBVIOUS
<1>11. \A k \in 0..n : k = 0 \/ k \in 1..n
  OBVIOUS
<1>12. v \in [0..n -> Seq(P)] /\ v[0] = <<>> /\ \A k \in 1..n : v[k] = step[k][v[k - 1]]
  BY <1>9 DEF Traces
<1>13. \A k \in 1..n : v[k] = Append(v[k - 1], nth[k])
  BY <1>7, <1>10, <1>12
<1>14. \A k \in 1..n : nth[k] = CHOOSE x \in DOMAIN ahead : Cardinality(ahead[x]) = k - 1
  BY <1>3, <1>4
<1>15. Eq(v)
  BY <1>1, <1>3, <1>10, <1>11, <1>12, <1>13, <1>14
<1>16. Eq(first)
  BY <1>15
<1>17. InOrder(ahead) = first[Cardinality(DOMAIN ahead)]
  BY DEF InOrder
<1> HIDE DEF first
<1>28. first[0] = <<>>
  BY <1>1, <1>3, <1>16
<1>29. \A k \in 1..n : first[k] = Append(first[k - 1], CHOOSE x \in DOMAIN ahead : Cardinality(ahead[x]) = k - 1)
  BY <1>1, <1>3, <1>10, <1>16
<1>18. first[0] = <<>> /\ \A k \in 1..n : first[k] = Append(first[k - 1], nth[k])
  BY <1>14, <1>28, <1>29
<1>19. Runs(first, Seq(P), n, <<>>, step)
  BY <1>7, <1>18 DEF Runs
<1>20. \A k \in 0..n : first[k] \in Seq(P)
  BY <1>6, <1>8, <1>19, RunsAreTraces
<1> DEFINE B == {k \in Nat : k <= n => Len(first[k]) = k /\ \A j \in 1..k : first[k][j] = nth[j]}
<1>21. 0 \in B
  BY <1>18
<1>22. ASSUME NEW k \in Nat, k \in B
       PROVE  k + 1 \in B
  <2> SUFFICES ASSUME k + 1 <= n
               PROVE  Len(first[k + 1]) = k + 1 /\ \A j \in 1..(k + 1) : first[k + 1][j] = nth[j]
    OBVIOUS
  <2>1. PICK m \in 1..n : m = k + 1 /\ m - 1 = k
    OBVIOUS
  <2>2. PICK r \in Seq(P) : r = first[k] /\ Len(r) = k /\ \A j \in 1..k : r[j] = nth[j]
    BY <1>20, <1>22
  <2>3. first[m] = Append(r, nth[m]) /\ nth[m] \in P
    BY <1>5, <1>18, <2>1, <2>2
  <2>4. PICK q : q = first[m] /\ Len(q) = m /\ q[m] = nth[m] /\ \A j \in 1..k : q[j] = r[j]
    <3>1. PICK x \in P : x = nth[m]
      BY <2>3
    <3>2. /\ Len(Append(r, x)) = Len(r) + 1 /\ Append(r, x)[Len(r) + 1] = x
          /\ \A j \in 1..Len(r) : Append(r, x)[j] = r[j]
      BY AppendProperties
    <3>3. PICK q : q = Append(r, x)
      OBVIOUS
    <3>4. q = first[m]
      BY <2>3, <3>1, <3>3
    <3>5. Len(q) = m /\ q[m] = x /\ \A j \in 1..k : q[j] = r[j]
      BY <2>1, <2>2, <3>2, <3>3
    <3> QED BY <3>1, <3>4, <3>5
  <2>5. \A j \in 1..m : j = m \/ j \in 1..k
    BY <2>1
  <2> QED BY <2>1, <2>2, <2>4, <2>5
<1> HIDE DEF B
<1>23. n \in B
  BY <1>21, <1>22, Induction
<1>24. PICK s : s = InOrder(ahead) /\ s \in Seq(P) /\ Len(s) = n /\ \A k \in 1..n : s[k] = nth[k]
  BY <1>1, <1>3, <1>17, <1>20, <1>23 DEF B
<1>25. \A k \in 1..n : s[k] \in P /\ Cardinality(ahead[s[k]]) = k - 1
  BY <1>5, <1>24
<1>26. \A j, k \in 1..n : s[j] = s[k] => j = k
  <2> SUFFICES ASSUME NEW j \in 1..n, NEW k \in 1..n, s[j] = s[k]
               PROVE  j = k
    OBVIOUS
  <2>1. j - 1 = k - 1
    BY <1>25
  <2> QED BY <2>1
<1>27. ASSUME NEW x \in P
       PROVE  \E k \in 1..n : s[k] = x
  <2>1. PICK r \in 0..(n - 1) : r = Cardinality(ahead[x])
    BY <1>2
  <2>2. PICK k \in 1..n : k = r + 1 /\ k - 1 = r
    OBVIOUS
  <2>3. Cardinality(ahead[s[k]]) = Cardinality(ahead[x])
    BY <1>25, <2>1, <2>2
  <2> QED BY <1>2, <1>25, <2>3
<1> QED BY <1>1, <1>24, <1>25, <1>26, <1>27 DEF Listed

-----------------------------------------------------------------------------
(* Sums over finite sets. *)

\* Induction over the subsets of a finite set.
LEMMA SubsetInduction ==
  ASSUME NEW S, IsFiniteSet(S), NEW B, {} \in B,
         \A s \in SUBSET S : \A x \in S \ s : s \in B => s \cup {x} \in B
  PROVE  \A s \in SUBSET S : s \in B
<1>1. ASSUME NEW s \in SUBSET S
      PROVE  IsFiniteSet(s) /\ Cardinality(s) \in Nat
  <2>1. IsFiniteSet(s)
    BY FS_Subset
  <2> QED BY <2>1, FS_CardinalityType
<1> DEFINE N == {n \in Nat : \A s \in SUBSET S : Cardinality(s) = n => s \in B}
<1>2. 0 \in N
  BY <1>1, FS_EmptySet
<1>3. ASSUME NEW n \in Nat, n \in N
      PROVE  n + 1 \in N
  <2> SUFFICES ASSUME NEW s \in SUBSET S, Cardinality(s) = n + 1
               PROVE  s \in B
    OBVIOUS
  <2>1. s # {}
    BY FS_EmptySet
  <2>2. PICK x \in s : TRUE
    BY <2>1
  <2>6. PICK r : r = s \ {x}
    OBVIOUS
  <2>3. r \in SUBSET S /\ x \in S \ r /\ s = r \cup {x}
    BY <2>2, <2>6
  <2>4. Cardinality(r) = n
    <3>1. IsFiniteSet(s)
      BY <1>1
    <3>2. Cardinality(s \ {x}) = Cardinality(s) - 1
      BY <2>2, <3>1, FS_RemoveElement
    <3> QED BY <2>6, <3>2
  <2>5. r \in B
    BY <1>3, <2>3, <2>4
  <2> QED BY <2>3, <2>5
<1> HIDE DEF N
<1>4. \A n \in Nat : n \in N
  BY <1>2, <1>3, Induction
<1> QED BY <1>1, <1>4 DEF N

\* A finite set has an element that none is before, in a transitive relation.
LEMMA FirstExists ==
  ASSUME NEW S, IsFiniteSet(S), S # {}, NEW R, \A x \in S : <<x, x>> \notin R,
         \A x, y, z \in S : <<x, y>> \in R /\ <<y, z>> \in R => <<x, z>> \in R
  PROVE  \E x \in S : \A y \in S : <<y, x>> \notin R
<1> DEFINE B == {s \in SUBSET S : s = {} \/ \E x \in s : \A y \in s : <<y, x>> \notin R}
<1>1. {} \in B
  OBVIOUS
<1>2. ASSUME NEW s \in SUBSET S, NEW x \in S \ s, s \in B
      PROVE  s \cup {x} \in B
  <2>1. CASE s = {}
    BY <2>1
  <2>2. CASE s # {}
    <3>1. PICK m \in s : \A y \in s : <<y, m>> \notin R
      BY <1>2, <2>2
    <3>2. CASE <<x, m>> \in R
      <4>1. \A y \in s \cup {x} : <<y, x>> \notin R
        BY <3>1, <3>2
      <4> QED BY <4>1
    <3>3. CASE <<x, m>> \notin R
      <4>1. \A y \in s \cup {x} : <<y, m>> \notin R
        BY <3>1, <3>3
      <4> QED BY <4>1
    <3> QED BY <3>2, <3>3
  <2> QED BY <2>1, <2>2
<1> HIDE DEF B
<1>3. S \in B
  BY <1>1, <1>2, SubsetInduction
<1> QED BY <1>3 DEF B

\* Sequences of bounded length over a finite set are finitely many.
LEMMA ListsFinite ==
  ASSUME NEW S, IsFiniteSet(S), NEW n \in Nat, NEW L, \A s \in L : \E k \in 1..n : s \in [1..k -> S]
  PROVE  IsFiniteSet(L)
<1> DEFINE graph == [s \in L |-> {<<i, s[i]>> : i \in DOMAIN s}]
           T == SUBSET ((1..n) \X S)
<1>1. IsFiniteSet(T)
  <2>1. IsFiniteSet(1..n)
    BY FS_Interval
  <2>2. IsFiniteSet((1..n) \X S)
    BY <2>1, FS_Product
  <2> QED BY <2>2, FS_SUBSET
<1>2. graph \in [L -> T]
  <2> SUFFICES ASSUME NEW s \in L, NEW i \in DOMAIN s
               PROVE  <<i, s[i]>> \in (1..n) \X S
    OBVIOUS
  <2>1. PICK k \in 1..n : s \in [1..k -> S]
    OBVIOUS
  <2> QED BY <2>1
<1>3. ASSUME NEW s \in L, NEW t \in L, graph[s] = graph[t]
      PROVE  s = t
  <2>1. \A i, x : (i \in DOMAIN s /\ x = s[i]) <=> <<i, x>> \in graph[s]
    OBVIOUS
  <2>2. \A i, x : (i \in DOMAIN t /\ x = t[i]) <=> <<i, x>> \in graph[t]
    OBVIOUS
  <2>3. DOMAIN s = DOMAIN t /\ \A i \in DOMAIN s : s[i] = t[i]
    BY <1>3, <2>1, <2>2
  <2>4. s = [i \in DOMAIN s |-> s[i]] /\ t = [i \in DOMAIN t |-> t[i]]
    OBVIOUS
  <2> QED BY <2>3, <2>4
<1> HIDE DEF graph, T
<1>4. graph \in Injection(L, T)
  BY <1>2, <1>3 DEF Injection, IsInjective
<1> QED BY <1>1, <1>4, FS_Injection

Sums(F, S, f) ==
  /\ F \in [SUBSET S -> Int] /\ F[{}] = 0
  /\ \A s \in SUBSET S : \A x \in s : F[s] = F[s \ {x}] + f[x]

\* Sums over finite sets exist, are unique and are what Total gives.
LEMMA SumExists ==
  ASSUME NEW S, IsFiniteSet(S), NEW f, \A x \in S : f[x] \in Int
  PROVE  \E F : Sums(F, S, f)
<1> DEFINE B == {s \in SUBSET S : \E F : Sums(F, s, f)}
<1>1. {} \in B
  <2>1. PICK F : F = [s \in SUBSET {} |-> 0]
    OBVIOUS
  <2>2. Sums(F, {}, f)
    BY <2>1 DEF Sums
  <2> QED BY <2>2
<1>2. ASSUME NEW s \in SUBSET S, NEW x \in S \ s, s \in B
      PROVE  s \cup {x} \in B
  <2>1. PICK F : Sums(F, s, f)
    BY <1>2
  <2>2. PICK t : t = s \cup {x}
    OBVIOUS
  <2>3. PICK G : G = [r \in SUBSET t |-> IF x \in r THEN F[r \ {x}] + f[x] ELSE F[r]]
    OBVIOUS
  <2>4. \A r \in SUBSET t : (x \in r => r \ {x} \in SUBSET s) /\ (x \notin r => r \in SUBSET s)
    BY <2>2
  <2>5. G \in [SUBSET t -> Int]
    BY <2>1, <2>3, <2>4 DEF Sums
  <2>6. G[{}] = 0
    BY <2>1, <2>3 DEF Sums
  <2>7. ASSUME NEW r \in SUBSET t, NEW y \in r
        PROVE  G[r] = G[r \ {y}] + f[y]
    <3>1. r \ {y} \in SUBSET t
      OBVIOUS
    <3>2. CASE x \notin r
      <4>1. r \in SUBSET s /\ x \notin r \ {y}
        BY <2>4, <3>2
      <4>2. F[r] = F[r \ {y}] + f[y]
        BY <2>1, <4>1 DEF Sums
      <4> QED BY <2>3, <3>1, <3>2, <4>1, <4>2
    <3>3. CASE y = x
      BY <2>3, <3>1, <3>3
    <3>4. CASE x \in r /\ y # x
      <4>5. PICK q : q = r \ {x}
        OBVIOUS
      <4>6. q \ {y} = (r \ {y}) \ {x}
        BY <4>5
      <4>1. q = r \ {x} /\ q \in SUBSET s /\ y \in q /\ q \ {y} = (r \ {y}) \ {x} /\ x \in r \ {y}
        BY <2>4, <3>4, <4>5, <4>6
      <4>2. F[q] = F[q \ {y}] + f[y]
        BY <2>1, <4>1 DEF Sums
      <4>3. G[r] = F[q] + f[x] /\ G[r \ {y}] = F[q \ {y}] + f[x]
        BY <2>3, <3>1, <3>4, <4>1
      <4>4. PICK i \in Int, j \in Int, k \in Int : i = F[q \ {y}] /\ j = f[y] /\ k = f[x]
        BY <2>1, <2>2, <4>1 DEF Sums
      <4> QED BY <4>2, <4>3, <4>4
    <3> QED BY <3>2, <3>3, <3>4
  <2>8. Sums(G, t, f)
    BY <2>5, <2>6, <2>7 DEF Sums
  <2> QED BY <2>2, <2>8
<1> HIDE DEF B
<1>3. S \in B
  BY <1>1, <1>2, SubsetInduction
<1> QED BY <1>3 DEF B

LEMMA SumUnique ==
  ASSUME NEW S, IsFiniteSet(S), NEW f, NEW F, NEW G, Sums(F, S, f), Sums(G, S, f)
  PROVE  \A s \in SUBSET S : F[s] = G[s]
<1> DEFINE B == {s \in SUBSET S : F[s] = G[s]}
<1>1. {} \in B
  BY DEF Sums
<1>2. ASSUME NEW s \in SUBSET S, NEW x \in S \ s, s \in B
      PROVE  s \cup {x} \in B
  <2>1. s \cup {x} \in SUBSET S /\ x \in s \cup {x} /\ (s \cup {x}) \ {x} = s
    OBVIOUS
  <2>2. F[s \cup {x}] = F[s] + f[x] /\ G[s \cup {x}] = G[s] + f[x]
    BY <2>1 DEF Sums
  <2> QED BY <1>2, <2>1, <2>2
<1> HIDE DEF B
<1>3. \A s \in SUBSET S : s \in B
  BY <1>1, <1>2, SubsetInduction
<1> QED BY <1>3 DEF B

Total(f, S) == (CHOOSE F : Sums(F, S, f))[S]

LEMMA TotalIs ==
  ASSUME NEW S, IsFiniteSet(S), NEW f, NEW F, Sums(F, S, f)
  PROVE  Total(f, S) = F[S] /\ Total(f, S) \in Int
<1>1. PICK G : G = CHOOSE H : Sums(H, S, f)
  OBVIOUS
<1>2. Sums(G, S, f)
  BY <1>1
<1>3. G[S] = F[S]
  BY <1>2, SumUnique
<1> QED BY <1>1, <1>3 DEF Total, Sums

\* Sums are linear.
LEMMA TotalLinear ==
  ASSUME NEW S, IsFiniteSet(S), NEW f, NEW g, NEW h, NEW k \in Int,
         \A x \in S : f[x] \in Int /\ g[x] \in Int /\ h[x] = f[x] + k * g[x]
  PROVE  Total(h, S) = Total(f, S) + k * Total(g, S)
<1>1. PICK F : Sums(F, S, f)
  BY SumExists
<1>2. PICK G : Sums(G, S, g)
  BY SumExists
<1>3. PICK H : H = [s \in SUBSET S |-> F[s] + k * G[s]]
  OBVIOUS
<1>4. H \in [SUBSET S -> Int] /\ H[{}] = 0
  <2>1. \A j \in Int : k * j \in Int
    OBVIOUS
  <2>2. k * 0 = 0
    OBVIOUS
  <2>3. \A s \in SUBSET S : F[s] \in Int /\ G[s] \in Int
    BY <1>1, <1>2 DEF Sums
  <2>4. F[{}] = 0 /\ G[{}] = 0
    BY <1>1, <1>2 DEF Sums
  <2>5. \A s \in SUBSET S : F[s] + k * G[s] \in Int
    BY <2>1, <2>3
  <2>6. H[{}] = 0 + k * 0
    BY <1>3, <2>4
  <2> QED BY <1>3, <2>2, <2>5, <2>6
<1>5. ASSUME NEW s \in SUBSET S, NEW x \in s
      PROVE  H[s] = H[s \ {x}] + h[x]
  <2>1. s \ {x} \in SUBSET S /\ x \in S
    OBVIOUS
  <2>2. F[s] = F[s \ {x}] + f[x] /\ G[s] = G[s \ {x}] + g[x]
    BY <1>1, <1>2 DEF Sums
  <2>3. PICK i \in Int, j \in Int : i = F[s \ {x}] /\ j = G[s \ {x}]
    BY <1>1, <1>2, <2>1 DEF Sums
  <2>4. PICK c \in Int, d \in Int : c = f[x] /\ d = g[x] /\ h[x] = c + k * d
    BY <2>1
  <2>5. H[s] = (i + c) + k * (j + d) /\ H[s \ {x}] = i + k * j
    BY <1>3, <2>1, <2>2, <2>3, <2>4
  <2>6. k * (j + d) = k * j + k * d
    OBVIOUS
  <2> QED BY <2>4, <2>5, <2>6
<1>6. Sums(H, S, h)
  BY <1>4, <1>5 DEF Sums
<1>7. Total(h, S) = H[S] /\ Total(f, S) = F[S] /\ Total(g, S) = G[S]
  BY <1>1, <1>2, <1>6, TotalIs
<1> QED BY <1>3, <1>7

LEMMA TotalAt ==
  ASSUME NEW S, IsFiniteSet(S), NEW p \in S, NEW n \in Int, NEW f,
         \A x \in S : f[x] = IF x = p THEN n ELSE 0
  PROVE  Total(f, S) = n
<1>1. PICK F : F = [s \in SUBSET S |-> IF p \in s THEN n ELSE 0]
  OBVIOUS
<1>2. ASSUME NEW s \in SUBSET S, NEW x \in s
      PROVE  F[s] = F[s \ {x}] + f[x]
  <2>1. s \ {x} \in SUBSET S /\ x \in S
    OBVIOUS
  <2>2. CASE x = p
    BY <1>1, <2>1, <2>2
  <2>3. CASE x # p
    BY <1>1, <2>1, <2>3
  <2> QED BY <2>2, <2>3
<1>3. Sums(F, S, f)
  BY <1>1, <1>2 DEF Sums
<1> QED BY <1>1, <1>3, TotalIs

LEMMA TotalOfNaturals ==
  ASSUME NEW S, IsFiniteSet(S), NEW f, \A x \in S : f[x] \in Nat
  PROVE  Total(f, S) \in Nat /\ \A x \in S : f[x] <= Total(f, S)
<1>1. PICK F : Sums(F, S, f)
  BY SumExists
<1> DEFINE B == {s \in SUBSET S : F[s] \in Nat}
<1>2. {} \in B
  BY <1>1 DEF Sums
<1>3. ASSUME NEW s \in SUBSET S, NEW x \in S \ s, s \in B
      PROVE  s \cup {x} \in B
  <2>1. s \cup {x} \in SUBSET S /\ x \in s \cup {x} /\ (s \cup {x}) \ {x} = s
    OBVIOUS
  <2>2. F[s \cup {x}] = F[s] + f[x]
    BY <1>1, <2>1 DEF Sums
  <2> QED BY <1>3, <2>1, <2>2
<1> HIDE DEF B
<1>4. \A s \in SUBSET S : s \in B
  BY <1>2, <1>3, SubsetInduction
<1>5. Total(f, S) = F[S]
  BY <1>1, TotalIs
<1>6. ASSUME NEW x \in S
      PROVE  f[x] <= F[S]
  <2>1. F[S] = F[S \ {x}] + f[x] /\ F[S \ {x}] \in Nat
    BY <1>1, <1>4 DEF Sums, B
  <2> QED BY <2>1
<1> QED BY <1>4, <1>5, <1>6 DEF B

\* Elements with no share do not count in a sum.
LEMMA TotalWithin ==
  ASSUME NEW S, IsFiniteSet(S), NEW f, \A x \in S : f[x] \in Int, NEW g \in SUBSET S,
         \A x \in S \ g : f[x] = 0
  PROVE  Total(f, S) = Total(f, g)
<1>1. PICK F : Sums(F, S, f)
  BY SumExists
<1>2. PICK G : G = [s \in SUBSET g |-> F[s]]
  OBVIOUS
<1>3. Sums(G, g, f)
  <2>1. \A s \in SUBSET g : s \in SUBSET S /\ \A x \in s : s \ {x} \in SUBSET g
    OBVIOUS
  <2> QED BY <1>1, <1>2, <2>1 DEF Sums
<1>4. IsFiniteSet(g)
  BY FS_Subset
<1>5. Total(f, g) = F[g] /\ Total(f, S) = F[S]
  BY <1>1, <1>2, <1>3, <1>4, TotalIs
<1>11. PICK rest : rest = S \ g
  OBVIOUS
<1> DEFINE B == {s \in SUBSET rest : F[g \cup s] = F[g]}
<1>6. {} \in B
  <2>1. g \cup {} = g
    OBVIOUS
  <2> QED BY <2>1
<1>7. ASSUME NEW s \in SUBSET rest, NEW x \in rest \ s, s \in B
      PROVE  s \cup {x} \in B
  <2>1. PICK t : t = g \cup (s \cup {x})
    OBVIOUS
  <2>2. t \in SUBSET S /\ x \in t /\ t \ {x} = g \cup s
    BY <1>11, <2>1
  <2>3. F[t] = F[t \ {x}] + f[x]
    BY <1>1, <2>2 DEF Sums
  <2>4. PICK n \in Int : n = F[g]
    BY <1>1 DEF Sums
  <2>5. F[t \ {x}] = n
    BY <1>7, <2>2, <2>4
  <2>8. f[x] = 0
    BY <1>11
  <2>6. F[t] = F[g]
    BY <2>3, <2>4, <2>5, <2>8
  <2>7. s \cup {x} \in SUBSET rest
    OBVIOUS
  <2> QED BY <2>1, <2>6, <2>7
<1> HIDE DEF B
<1>8. IsFiniteSet(rest)
  BY <1>11, FS_Difference
<1>12. \A s \in SUBSET rest : s \in B
  BY <1>6, <1>7, <1>8, SubsetInduction
<1>9. rest \in B
  BY <1>12
<1>10. g \cup rest = S
  BY <1>11
<1> QED BY <1>5, <1>9, <1>10 DEF B

\* Equal shares have equal sums.
LEMMA TotalSame ==
  ASSUME NEW S, IsFiniteSet(S), NEW f, NEW g, \A x \in S : f[x] \in Int /\ g[x] = f[x]
  PROVE  Total(g, S) = Total(f, S)
<1>1. PICK F : Sums(F, S, f)
  BY SumExists
<1>2. Sums(F, S, g)
  <2>1. \A s \in SUBSET S : \A x \in s : x \in S
    OBVIOUS
  <2> QED BY <1>1, <2>1 DEF Sums
<1> QED BY <1>1, <1>2, TotalIs

\* MapThenSumSet, with a function for its operator.
SetFold(w, S, f) ==
  w = [s \in SUBSET S |-> IF s = {} THEN 0
                          ELSE f[CHOOSE x \in s : TRUE] + w[s \ {CHOOSE x \in s : TRUE}]]

\* The library's fold of a sum over a set is the sum.
LEMMA SetFoldIsTotal ==
  ASSUME NEW S, IsFiniteSet(S), NEW f, \A x \in S : f[x] \in Int
  PROVE  (CHOOSE w : SetFold(w, S, f))[S] = Total(f, S)
<1>1. PICK F : Sums(F, S, f)
  BY SumExists
<1>2. \A s \in SUBSET S : s # {} => /\ (CHOOSE x \in s : TRUE) \in s
                                     /\ s \ {CHOOSE x \in s : TRUE} \in SUBSET S
  OBVIOUS
<1>3. \A s \in SUBSET S : s # {} => F[s] = f[CHOOSE x \in s : TRUE] + F[s \ {CHOOSE x \in s : TRUE}]
  <2> SUFFICES ASSUME NEW s \in SUBSET S, s # {}
               PROVE  F[s] = f[CHOOSE x \in s : TRUE] + F[s \ {CHOOSE x \in s : TRUE}]
    OBVIOUS
  <2>1. PICK x \in s : x = CHOOSE y \in s : TRUE
    BY <1>2
  <2>2. F[s] = F[s \ {x}] + f[x] /\ F[s \ {x}] \in Int /\ f[x] \in Int
    BY <1>1 DEF Sums
  <2> QED BY <2>1, <2>2
<1>4. F \in [SUBSET S -> Int] /\ F[{}] = 0
  BY <1>1 DEF Sums
<1>5. SetFold(F, S, f)
  BY <1>3, <1>4 DEF SetFold
<1>6. PICK w : w = CHOOSE v : SetFold(v, S, f)
  OBVIOUS
<1>7. SetFold(w, S, f)
  BY <1>5, <1>6
<1>8. w[{}] = 0
  BY <1>7 DEF SetFold
<1>9. ASSUME NEW s \in SUBSET S, s # {}
      PROVE  w[s] = f[CHOOSE x \in s : TRUE] + w[s \ {CHOOSE x \in s : TRUE}]
  BY <1>7, <1>9 DEF SetFold
<1>10. ASSUME NEW s \in SUBSET S
       PROVE  IsFiniteSet(s) /\ Cardinality(s) \in Nat
  <2>1. IsFiniteSet(s)
    BY FS_Subset
  <2> QED BY <2>1, FS_CardinalityType
<1> DEFINE N == {n \in Nat : \A s \in SUBSET S : Cardinality(s) = n => w[s] = F[s]}
<1>11. 0 \in N
  BY <1>4, <1>8, <1>10, FS_EmptySet
<1>12. ASSUME NEW n \in Nat, n \in N
       PROVE  n + 1 \in N
  <2> SUFFICES ASSUME NEW s \in SUBSET S, Cardinality(s) = n + 1
               PROVE  w[s] = F[s]
    OBVIOUS
  <2>1. s # {}
    BY FS_EmptySet
  <2>2. PICK x \in s : x = CHOOSE y \in s : TRUE
    BY <2>1
  <2>3. PICK r \in SUBSET S : r = s \ {x}
    OBVIOUS
  <2>4. Cardinality(r) = n
    <3>1. IsFiniteSet(s)
      BY <1>10
    <3>2. Cardinality(s \ {x}) = Cardinality(s) - 1
      BY <3>1, FS_RemoveElement
    <3> QED BY <2>3, <3>2
  <2>5. w[r] = F[r]
    BY <1>12, <2>4
  <2>6. w[s] = f[x] + w[r] /\ F[s] = f[x] + F[r]
    BY <1>3, <1>9, <2>1, <2>2, <2>3
  <2> QED BY <2>5, <2>6
<1> HIDE DEF N
<1>13. \A n \in Nat : n \in N
  BY <1>11, <1>12, Induction
<1>14. w[S] = F[S]
  <2>1. S \in SUBSET S /\ Cardinality(S) \in Nat
    BY <1>10
  <2>2. Cardinality(S) \in N
    BY <1>13, <2>1
  <2> QED BY <2>1, <2>2 DEF N
<1> QED BY <1>1, <1>6, <1>14, TotalIs

-----------------------------------------------------------------------------
(* Queues. *)

IsInserted(r, s, n, i, e) ==
  /\ Len(r) = n + 1
  /\ \A k \in 1..(n + 1) : r[k] = IF k < i THEN s[k] ELSE IF k = i THEN e ELSE s[k - 1]

LEMMA InsertedAt ==
  ASSUME NEW S, NEW s \in Seq(S), NEW n \in Nat, n = Len(s), NEW i \in 1..(n + 1), NEW e \in S
  PROVE  InsertAt(s, i, e) \in Seq(S) /\ IsInserted(InsertAt(s, i, e), s, n, i, e)
<1>1. PICK pre : pre = SubSeq(s, 1, i - 1)
  OBVIOUS
<1>2. PICK post : post = SubSeq(s, i, n)
  OBVIOUS
<1>3. \A k \in 1..n : s[k] \in S
  OBVIOUS
<1>4. pre \in Seq(S) /\ Len(pre) = i - 1 /\ \A k \in 1..(i - 1) : pre[k] = s[k]
  <2>1. \A k \in 1..(i - 1) : s[k] \in S
    BY <1>3
  <2> QED BY <1>1, <2>1, SubSeqProperties
<1>5. post \in Seq(S) /\ Len(post) = n - i + 1 /\ \A k \in 1..(n - i + 1) : post[k] = s[i + k - 1]
  <2>1. \A k \in i..n : s[k] \in S
    BY <1>3
  <2> QED BY <1>2, <2>1, SubSeqProperties
<1>6. PICK a : a = pre \o <<e>>
  OBVIOUS
<1>7. a \in Seq(S) /\ Len(a) = i /\ a[i] = e /\ \A k \in 1..(i - 1) : a[k] = s[k]
  <2>1. a = Append(pre, e)
    BY <1>4, <1>6
  <2> QED BY <1>4, <2>1, AppendProperties
<1>8. PICK w : w = a \o post
  OBVIOUS
<1>9. w \in Seq(S) /\ Len(w) = n + 1 /\ \A k \in 1..(n + 1) : w[k] = IF k <= i THEN a[k] ELSE post[k - i]
  <2>1. PICK l \in Nat : l = Len(post) /\ i + l = n + 1
    BY <1>5
  <2>2. w \in Seq(S) /\ Len(w) = i + l
    BY <1>5, <1>7, <1>8, <2>1, ConcatProperties
  <2>3. \A k \in 1..(i + l) : w[k] = IF k <= i THEN a[k] ELSE post[k - i]
    BY <1>5, <1>7, <1>8, <2>1, ConcatProperties
  <2> QED BY <2>1, <2>2, <2>3
<1>10. ASSUME NEW k \in 1..(n + 1)
       PROVE  w[k] = IF k < i THEN s[k] ELSE IF k = i THEN e ELSE s[k - 1]
  <2>1. CASE k <= i
    BY <1>7, <1>9, <2>1
  <2>2. CASE k > i
    <3>1. PICK j \in 1..(n - i + 1) : j = k - i /\ i + j - 1 = k - 1
      BY <2>2
    <3>2. w[k] = post[j]
      BY <1>9, <2>2, <3>1
    <3>3. post[j] = s[i + j - 1]
      BY <1>5
    <3> QED BY <2>2, <3>1, <3>2, <3>3
  <2> QED BY <2>1, <2>2
<1>11. InsertAt(s, i, e) = w
  BY <1>1, <1>2, <1>6, <1>8 DEF InsertAt
<1>12. IsInserted(w, s, n, i, e)
  BY <1>9, <1>10 DEF IsInserted
<1> QED BY <1>9, <1>11, <1>12

LEMMA IntervalCount ==
  ASSUME NEW n \in Nat
  PROVE  IsFiniteSet(1..n) /\ Cardinality(1..n) = n
<1>1. IsFiniteSet(1..n) /\ Cardinality(1..n) = IF 1 > n THEN 0 ELSE n - 1 + 1
  BY FS_Interval
<1> QED BY <1>1

\* What reducing the head of a queue does.
ReducedTo(queue, n, r) ==
  LET left == Head(queue).amount - n IN
  IF left = 0 THEN r = Tail(queue)
  ELSE \E i \in 1..Len(queue) :
         /\ Len(r) = Len(queue)
         /\ \A k \in 1..Len(queue) : r[k] = IF k < i THEN queue[k + 1]
                                            ELSE IF k = i THEN [who |-> Head(queue).who, amount |-> left]
                                            ELSE queue[k]

\* Taking an amount off the first entry of a queue drops it or puts it back in its order.
LEMMA ReducedIs ==
  ASSUME NEW queue \in Seq(Entry), queue # <<>>, NEW n \in 0..Head(queue).amount
  PROVE  Reduced(queue, n) \in Seq(Entry) /\ ReducedTo(queue, n, Reduced(queue, n))
<1>9. PICK head : head = Head(queue)
  OBVIOUS
<1>10. PICK rest : rest = Tail(queue)
  OBVIOUS
<1>12. head \in Entry /\ rest \in Seq(Entry) /\ Len(rest) = Len(queue) - 1
       /\ \A k \in 1..Len(rest) : rest[k] = queue[k + 1]
  BY <1>9, <1>10, HeadTailProperties
<1>11. PICK l \in Nat : l = Len(rest)
  BY <1>12
<1>13. l \in Nat /\ Len(queue) = l + 1
  BY <1>11, <1>12
<1>1. /\ head \in Entry /\ rest \in Seq(Entry) /\ l \in Nat
      /\ head = Head(queue) /\ rest = Tail(queue) /\ l = Len(rest) /\ Len(queue) = l + 1
      /\ \A k \in 1..l : rest[k] = queue[k + 1]
  BY <1>9, <1>10, <1>11, <1>12, <1>13
<1>2. PICK left \in Nat : left = Head(queue).amount - n
  BY <1>1 DEF Entry
<1>3. PICK larger : larger = {i \in DOMAIN rest : rest[i].amount > left}
  OBVIOUS
<1>4. PICK i \in 1..(l + 1) : i = Cardinality(larger) + 1
  <2>1. larger \in SUBSET (1..l)
    BY <1>1, <1>3
  <2>2. IsFiniteSet(1..l) /\ Cardinality(1..l) = l
    BY IntervalCount
  <2>3. IsFiniteSet(larger) /\ Cardinality(larger) <= l
    BY <2>1, <2>2, FS_Subset
  <2>4. Cardinality(larger) \in Nat
    BY <2>3, FS_CardinalityType
  <2> QED BY <1>1, <2>3, <2>4
<1>14. PICK new : new = [head EXCEPT !.amount = left]
  OBVIOUS
<1>5. new \in Entry /\ new = [head EXCEPT !.amount = left] /\ new = [who |-> head.who, amount |-> left]
  <2>1. head \in [who : Participant, amount : Nat]
    BY <1>1 DEF Entry
  <2> QED BY <1>2, <1>14, <2>1 DEF Entry
<1>6. Reduced(queue, n) = IF left = 0 THEN rest ELSE InsertAt(rest, i, new)
  BY <1>1, <1>2, <1>3, <1>4, <1>5 DEF Reduced
<1>7. CASE left = 0
  BY <1>1, <1>2, <1>6, <1>7 DEF ReducedTo
<1>8. CASE left # 0
  <2>1. PICK r : r = InsertAt(rest, i, new)
    OBVIOUS
  <2>5. r \in Seq(Entry) /\ IsInserted(r, rest, l, i, new)
    <3>1. rest \in Seq(Entry) /\ l \in Nat /\ l = Len(rest) /\ new \in Entry
      BY <1>1, <1>5
    <3> QED BY <2>1, <3>1, InsertedAt
  <2>2. /\ r \in Seq(Entry) /\ Len(r) = l + 1
        /\ \A k \in 1..(l + 1) : r[k] = IF k < i THEN rest[k] ELSE IF k = i THEN new ELSE rest[k - 1]
    BY <2>5 DEF IsInserted
  <2>3. ASSUME NEW k \in 1..(l + 1)
        PROVE  r[k] = IF k < i THEN queue[k + 1] ELSE IF k = i THEN new ELSE queue[k]
    <3>1. CASE k < i
      <4>1. k \in 1..l
        BY <3>1
      <4> QED BY <1>1, <2>2, <3>1, <4>1
    <3>2. CASE k = i
      BY <2>2, <3>2
    <3>3. CASE k > i
      <4>1. PICK j \in 1..l : j = k - 1 /\ j + 1 = k
        BY <3>3
      <4> QED BY <1>1, <2>2, <3>3, <4>1
    <3> QED BY <3>1, <3>2, <3>3
  <2>4. ReducedTo(queue, n, r)
    BY <1>1, <1>2, <1>5, <1>8, <2>2, <2>3 DEF ReducedTo
  <2> QED BY <1>6, <1>8, <2>1, <2>2, <2>4
<1> QED BY <1>7, <1>8

\* No entry is added, and one that has nothing left is gone.
LEMMA ReducedShortens ==
  ASSUME NEW queue \in Seq(Entry), queue # <<>>, NEW n \in 0..Head(queue).amount
  PROVE  /\ Len(Reduced(queue, n)) <= Len(queue)
         /\ n = Head(queue).amount => Len(Reduced(queue, n)) < Len(queue)
<1>1. Len(Tail(queue)) = Len(queue) - 1 /\ Len(queue) \in Nat /\ Head(queue) \in Entry
  BY HeadTailProperties
<1>2. Head(queue).amount \in Nat
  BY <1>1 DEF Entry
<1>3. ReducedTo(queue, n, Reduced(queue, n))
  BY ReducedIs
<1>4. CASE Head(queue).amount - n = 0
  BY <1>1, <1>2, <1>3, <1>4 DEF ReducedTo
<1>5. CASE Head(queue).amount - n # 0
  <2>1. Len(Reduced(queue, n)) = Len(queue)
    BY <1>3, <1>5 DEF ReducedTo
  <2> QED BY <1>1, <1>2, <1>5, <2>1
<1> QED BY <1>4, <1>5

\* A queue of everybody's positive dues.
Due == [Participant -> Nat]

Represents(q, due) ==
  /\ q \in Seq(Entry)
  /\ \A k \in 1..Len(q) : q[k].amount # 0 /\ due[q[k].who] = q[k].amount
  /\ \A j, k \in 1..Len(q) : q[j].who = q[k].who => j = k
  /\ \A p \in Participant : due[p] # 0 => \E k \in 1..Len(q) : q[k].who = p

HeadOf(q, head) == head = q[1] /\ head = Head(q) /\ head \in Entry

LEMMA QueueHead ==
  ASSUME NEW q \in Seq(Entry), q # <<>>
  PROVE  \E l \in Nat, head \in Entry : /\ Len(q) = l + 1 /\ HeadOf(q, head)
                                        /\ Tail(q) \in Seq(Entry) /\ Len(Tail(q)) = l
                                        /\ \A k \in 1..l : Tail(q)[k] = q[k + 1]
<1>1. PICK head : head = Head(q)
  OBVIOUS
<1>2. head \in Entry /\ Tail(q) \in Seq(Entry) /\ Len(Tail(q)) = Len(q) - 1
      /\ \A k \in 1..Len(Tail(q)) : Tail(q)[k] = q[k + 1]
  BY <1>1, HeadTailProperties
<1>6. PICK rest : rest = Tail(q)
  OBVIOUS
<1>7. rest \in Seq(Entry) /\ Len(rest) = Len(q) - 1
  BY <1>2, <1>6
<1>8. PICK l \in Nat : l = Len(rest)
  BY <1>7
<1>3. l = Len(Tail(q))
  BY <1>6, <1>8
<1>4. Len(q) = l + 1
  BY <1>2, <1>3
<1>5. head = q[1]
  BY <1>1
<1> QED BY <1>1, <1>2, <1>3, <1>4, <1>5 DEF HeadOf

\* The queue then stands for the balances with that amount taken off.
LEMMA ReducedRepresents ==
  ASSUME NEW due \in Due, NEW q, Represents(q, due), q # <<>>, NEW n \in 1..Head(q).amount
  PROVE  /\ [due EXCEPT ![Head(q).who] = @ - n] \in Due
         /\ Represents(Reduced(q, n), [due EXCEPT ![Head(q).who] = @ - n])
<1>1. q \in Seq(Entry)
  BY DEF Represents
<1>2. PICK l \in Nat, head \in Entry : /\ Len(q) = l + 1 /\ HeadOf(q, head)
                                       /\ Tail(q) \in Seq(Entry) /\ Len(Tail(q)) = l
                                       /\ \A k \in 1..l : Tail(q)[k] = q[k + 1]
  BY <1>1, QueueHead
<1>3. /\ head = q[1] /\ head = Head(q) /\ head.who \in Participant /\ head.amount \in Nat
      /\ n \in 1..head.amount /\ 1 \in 1..(l + 1)
  BY <1>2 DEF HeadOf, Entry
<1>4. /\ \A k \in 1..(l + 1) : q[k].amount # 0 /\ due[q[k].who] = q[k].amount
      /\ \A j, k \in 1..(l + 1) : q[j].who = q[k].who => j = k
      /\ \A p \in Participant : due[p] # 0 => \E k \in 1..(l + 1) : q[k].who = p
  BY <1>2 DEF Represents
<1>5. PICK left \in Nat : left = head.amount - n
  BY <1>3
<1>6. PICK less : less = [due EXCEPT ![head.who] = @ - n]
  OBVIOUS
<1>7. due[head.who] = head.amount
  BY <1>3, <1>4
<1>8. less \in Due /\ \A p \in Participant : less[p] = IF p = head.who THEN left ELSE due[p]
  BY <1>3, <1>5, <1>6, <1>7 DEF Due
<1>9. \A k \in 1..(l + 1) : q[k].who \in Participant /\ q[k].amount \in Nat /\ q[k] \in Entry
  BY <1>1, <1>2, ElementOfSeq DEF Entry
<1>10. \A k \in 1..(l + 1) : k # 1 => q[k].who # head.who
  BY <1>3, <1>4
<1>11. PICK r \in Seq(Entry) : r = Reduced(q, n) /\ ReducedTo(q, n, r)
  <2>1. n \in 0..Head(q).amount
    BY <1>3
  <2> QED BY <1>1, <2>1, ReducedIs
<1>12. CASE left = 0
  <2>1. r = Tail(q)
    BY <1>3, <1>5, <1>11, <1>12 DEF ReducedTo
  <2>2. Len(r) = l /\ \A k \in 1..l : r[k] = q[k + 1] /\ k + 1 \in 1..(l + 1) /\ k + 1 # 1
    BY <1>2, <2>1
  <2>3. ASSUME NEW k \in 1..l
        PROVE  r[k].amount # 0 /\ less[r[k].who] = r[k].amount
    <3>1. PICK m \in 1..(l + 1) : m = k + 1 /\ m # 1 /\ r[k] = q[m]
      BY <2>2
    <3>2. q[m].who \in Participant /\ q[m].who # head.who /\ q[m].amount # 0 /\ due[q[m].who] = q[m].amount
      BY <1>4, <1>9, <1>10, <3>1
    <3> QED BY <1>8, <3>1, <3>2
  <2>4. ASSUME NEW j \in 1..l, NEW k \in 1..l, r[j].who = r[k].who
        PROVE  j = k
    <3>1. q[j + 1].who = q[k + 1].who
      BY <2>2, <2>4
    <3>2. j + 1 = k + 1
      BY <1>4, <2>2, <3>1
    <3> QED BY <3>2
  <2>5. ASSUME NEW p \in Participant, less[p] # 0
        PROVE  \E k \in 1..l : r[k].who = p
    <3>1. p # head.who /\ due[p] # 0
      BY <1>8, <1>12, <2>5
    <3>2. PICK j \in 1..(l + 1) : q[j].who = p
      BY <1>4, <3>1
    <3>3. PICK k \in 1..l : k + 1 = j
      <4>1. j # 1
        BY <1>3, <3>1, <3>2
      <4>2. j - 1 \in 1..l /\ (j - 1) + 1 = j
        BY <4>1
      <4> QED BY <4>2
    <3> QED BY <2>2, <3>2, <3>3
  <2>6. Represents(r, less)
    BY <2>2, <2>3, <2>4, <2>5 DEF Represents
  <2> QED BY <1>3, <1>6, <1>8, <1>11, <2>6
<1>13. CASE left # 0
  <2>1. PICK new \in Entry : new = [who |-> head.who, amount |-> left]
    BY <1>3 DEF Entry
  <2>2. PICK i \in 1..(l + 1) :
           /\ Len(r) = l + 1
           /\ \A k \in 1..(l + 1) : r[k] = IF k < i THEN q[k + 1] ELSE IF k = i THEN new ELSE q[k]
    <3>1. PICK i \in 1..Len(q) :
             /\ Len(r) = Len(q)
             /\ \A k \in 1..Len(q) : r[k] = IF k < i THEN q[k + 1]
                                           ELSE IF k = i THEN [who |-> Head(q).who, amount |-> Head(q).amount - n]
                                           ELSE q[k]
      <4>1. Head(q).amount - n # 0
        BY <1>3, <1>5, <1>13
      <4> QED BY <1>11, <4>1 DEF ReducedTo
    <3>2. Head(q).who = head.who /\ Head(q).amount - n = left
      BY <1>3, <1>5
    <3>3. [who |-> Head(q).who, amount |-> Head(q).amount - n] = new
      BY <2>1, <3>2
    <3>4. Len(q) = l + 1
      BY <1>2
    <3> QED BY <3>1, <3>3, <3>4
  <2>3. PICK at : at = [k \in 1..(l + 1) |-> IF k < i THEN k + 1 ELSE IF k = i THEN 1 ELSE k]
    OBVIOUS
  <2>4. \A k \in 1..(l + 1) : at[k] \in 1..(l + 1)
    BY <2>3
  <2>5. \A j, k \in 1..(l + 1) : at[j] = at[k] => j = k
    BY <2>3
  <2>6. ASSUME NEW m \in 1..(l + 1)
        PROVE  \E k \in 1..(l + 1) : at[k] = m
    <3>1. CASE m = 1
      BY <2>3, <3>1
    <3>2. CASE m # 1 /\ m <= i
      <4>1. m - 1 \in 1..(l + 1) /\ m - 1 < i /\ (m - 1) + 1 = m
        BY <3>2
      <4>2. at[m - 1] = m
        BY <2>3, <4>1
      <4> QED BY <4>1, <4>2
    <3>3. CASE m > i
      <4>1. at[m] = m
        BY <2>3, <3>3
      <4> QED BY <4>1
    <3> QED BY <3>1, <3>2, <3>3
  <2>7. \A k \in 1..(l + 1) : k # i => r[k] = q[at[k]] /\ at[k] # 1
    BY <2>2, <2>3
  <2>8. r[i] = new /\ at[i] = 1
    BY <2>2, <2>3
  <2>9. \A k \in 1..(l + 1) : r[k].who = q[at[k]].who
    BY <1>3, <2>1, <2>7, <2>8
  <2>10. ASSUME NEW k \in 1..(l + 1)
         PROVE  r[k].amount # 0 /\ less[r[k].who] = r[k].amount
    <3>1. CASE k = i
      BY <1>3, <1>8, <1>13, <2>1, <2>8, <3>1
    <3>2. CASE k # i
      <4>1. PICK m \in 1..(l + 1) : m = at[k] /\ m # 1 /\ r[k] = q[m]
        BY <2>4, <2>7, <3>2
      <4>2. q[m].who \in Participant /\ q[m].who # head.who /\ q[m].amount # 0 /\ due[q[m].who] = q[m].amount
        BY <1>4, <1>9, <1>10, <4>1
      <4> QED BY <1>8, <4>1, <4>2
    <3> QED BY <3>1, <3>2
  <2>11. ASSUME NEW j \in 1..(l + 1), NEW k \in 1..(l + 1), r[j].who = r[k].who
         PROVE  j = k
    <3>1. at[j] \in 1..(l + 1) /\ at[k] \in 1..(l + 1) /\ q[at[j]].who = q[at[k]].who
      BY <2>4, <2>9, <2>11
    <3>2. at[j] = at[k]
      BY <1>4, <3>1
    <3> QED BY <2>5, <3>2
  <2>12. ASSUME NEW p \in Participant, less[p] # 0
         PROVE  \E k \in 1..(l + 1) : r[k].who = p
    <3>1. due[p] # 0
      BY <1>3, <1>4, <1>8, <2>12
    <3>2. PICK m \in 1..(l + 1) : q[m].who = p
      BY <1>4, <3>1
    <3>3. PICK k \in 1..(l + 1) : at[k] = m
      BY <2>6
    <3> QED BY <2>9, <3>2, <3>3
  <2>13. Represents(r, less)
    BY <2>2, <2>10, <2>11, <2>12 DEF Represents
  <2> QED BY <1>3, <1>6, <1>8, <1>11, <2>13
<1> QED BY <1>12, <1>13

-----------------------------------------------------------------------------
(* Greedy plans. *)

Sides == [debtors : Seq(Entry), creditors : Seq(Entry)]
Ended == {x \in Sides : x.debtors = <<>> \/ x.creditors = <<>>}
Row == [id : Id, from : Participant, to : Participant, amount : Nat, paid : BOOLEAN, at : Nat]
FirstMatch(x) == Fresh(Head(x.debtors).who, Head(x.creditors).who, Matched(x))

LEMMA MatchedOf ==
  ASSUME NEW x \in Sides, x \notin Ended
  PROVE  /\ x.debtors \in Seq(Entry) /\ x.creditors \in Seq(Entry)
         /\ x.debtors # <<>> /\ x.creditors # <<>>
         /\ Head(x.debtors) \in Entry /\ Head(x.creditors) \in Entry
         /\ Matched(x) \in 0..Head(x.debtors).amount /\ Matched(x) \in 0..Head(x.creditors).amount
         /\ Matched(x) = Head(x.debtors).amount \/ Matched(x) = Head(x.creditors).amount
<1>1. /\ x.debtors \in Seq(Entry) /\ x.creditors \in Seq(Entry)
      /\ x.debtors # <<>> /\ x.creditors # <<>>
  BY DEF Sides, Ended
<1>2. Head(x.debtors) \in Entry /\ Head(x.creditors) \in Entry
  BY <1>1, HeadTailProperties
<1>3. PICK i \in Nat, j \in Nat : i = Head(x.debtors).amount /\ j = Head(x.creditors).amount
  BY <1>2 DEF Entry
<1>4. Matched(x) = Lower(i, j)
  BY <1>3 DEF Matched
<1> QED BY <1>1, <1>2, <1>3, <1>4 DEF Lower

\* A match shortens the queues together: the recursion of Matches ends.
LEMMA RematchedOf ==
  ASSUME NEW x \in Sides, x \notin Ended
  PROVE  /\ Rematched(x) \in Sides
         /\ Len(Rematched(x).debtors) + Len(Rematched(x).creditors) < Len(x.debtors) + Len(x.creditors)
         /\ FirstMatch(x) \in Row
<1> DEFINE n == Matched(x)
<1>1. /\ x.debtors \in Seq(Entry) /\ x.creditors \in Seq(Entry)
      /\ x.debtors # <<>> /\ x.creditors # <<>>
      /\ Head(x.debtors) \in Entry /\ Head(x.creditors) \in Entry
      /\ n \in 0..Head(x.debtors).amount /\ n \in 0..Head(x.creditors).amount
      /\ n = Head(x.debtors).amount \/ n = Head(x.creditors).amount
  BY MatchedOf
<1>2. PICK d : d = Reduced(x.debtors, n)
  OBVIOUS
<1>3. PICK c : c = Reduced(x.creditors, n)
  OBVIOUS
<1>4. d \in Seq(Entry) /\ Len(d) <= Len(x.debtors)
      /\ (n = Head(x.debtors).amount => Len(d) < Len(x.debtors))
  BY <1>1, <1>2, ReducedIs, ReducedShortens
<1>5. c \in Seq(Entry) /\ Len(c) <= Len(x.creditors)
      /\ (n = Head(x.creditors).amount => Len(c) < Len(x.creditors))
  BY <1>1, <1>3, ReducedIs, ReducedShortens
<1>6. Rematched(x) = [debtors |-> d, creditors |-> c]
  BY <1>2, <1>3 DEF Rematched
<1>7. Len(d) + Len(c) < Len(x.debtors) + Len(x.creditors)
  <2>1. PICK i \in Nat, j \in Nat, k \in Nat, l \in Nat :
           i = Len(d) /\ j = Len(c) /\ k = Len(x.debtors) /\ l = Len(x.creditors)
    BY <1>1, <1>4, <1>5
  <2>2. i <= k /\ j <= l /\ (i < k \/ j < l)
    BY <1>1, <1>4, <1>5, <2>1
  <2>3. i + j < k + l
    BY <2>2
  <2> QED BY <2>1, <2>3
<1>8. FirstMatch(x) \in Row
  <2>1. PICK p \in Participant, q \in Participant : p = Head(x.debtors).who /\ q = Head(x.creditors).who
    BY <1>1 DEF Entry
  <2>2. n \in Nat
    BY <1>1 DEF Entry
  <2>3. <<p, q, n>> \in Id
    BY <2>2 DEF Id
  <2> HIDE DEF n
  <2>4. FirstMatch(x) = Fresh(p, q, n)
    BY <2>1 DEF FirstMatch, n
  <2> QED BY <2>2, <2>3, <2>4 DEF Fresh, Row
<1> QED BY <1>4, <1>5, <1>6, <1>7, <1>8 DEF Sides

\* The recursive definition of Matches has a value, and it is the one it says.
LEMMA MatchesIs ==
  \A x \in Sides : Matches[x] = IF x \in Ended THEN <<>> ELSE <<FirstMatch(x)>> \o Matches[Rematched(x)]
<1> DEFINE Eq(f) == f = [sides \in [debtors : Seq(Entry), creditors : Seq(Entry)] |->
                           IF sides.debtors = <<>> \/ sides.creditors = <<>> THEN <<>>
                           ELSE <<Fresh(Head(sides.debtors).who, Head(sides.creditors).who, Matched(sides))>>
                                \o f[Rematched(sides)]]
           m == [x \in Sides |-> Len(x.debtors) + Len(x.creditors)]
           next == [x \in Sides |-> IF x \in Ended THEN x ELSE Rematched(x)]
           base == [x \in Sides |-> <<>>]
           step == [x \in Sides |-> [y \in Seq(Row) |-> IF x \in Ended THEN <<>> ELSE <<FirstMatch(x)>> \o y]]
<1>1. m \in [Sides -> Nat]
  <2>1. \A x \in Sides : Len(x.debtors) \in Nat /\ Len(x.creditors) \in Nat
    BY DEF Sides
  <2>2. ASSUME NEW x \in Sides PROVE Len(x.debtors) + Len(x.creditors) \in Nat
    <3>1. PICK d \in Seq(Entry), c \in Seq(Entry) : d = x.debtors /\ c = x.creditors
      BY DEF Sides
    <3>2. Len(d) + Len(c) \in Nat
      OBVIOUS
    <3> QED BY <3>1, <3>2, Zenon
  <2> QED BY <2>2
<1>12. Ended \subseteq Sides
  BY DEF Ended
<1>13. \A x \in Sides : x \notin Ended => Rematched(x) \in Sides
  BY RematchedOf
<1>14. next \in [Sides -> Sides]
  BY <1>13
<1>15. base \in [Sides -> Seq(Row)]
  OBVIOUS
<1>2. Ended \subseteq Sides /\ next \in [Sides -> Sides] /\ base \in [Sides -> Seq(Row)]
  BY <1>12, <1>14, <1>15
<1>3. step \in [Sides -> [Seq(Row) -> Seq(Row)]]
  <2>1. ASSUME NEW x \in Sides, x \notin Ended, NEW y \in Seq(Row)
        PROVE  <<FirstMatch(x)>> \o y \in Seq(Row)
    <3>1. PICK t \in Row : t = FirstMatch(x)
      BY <2>1, RematchedOf
    <3>2. <<t>> \in Seq(Row)
      OBVIOUS
    <3>3. <<t>> \o y \in Seq(Row)
      BY <3>2, ConcatProperties
    <3> QED BY <3>1, <3>3
  <2> QED BY <2>1
<1>4. \A x \in Sides \ Ended : m[next[x]] < m[x]
  BY RematchedOf
<1> HIDE DEF m, next, base, step
<1>5. Descends(Sides, Seq(Row), m, Ended, next, base, step)
  BY <1>1, <1>2, <1>3, <1>4 DEF Descends
<1>6. PICK f : Solves(f, Sides, Seq(Row), Ended, next, base, step)
  BY <1>5, Recursion
<1>7. /\ f \in [Sides -> Seq(Row)]
      /\ \A x \in Sides : f[x] = IF x \in Ended THEN base[x] ELSE step[x][f[next[x]]]
  BY <1>6 DEF Solves
<1>8. ASSUME NEW x \in Sides
      PROVE  f[x] = IF x \in Ended THEN <<>> ELSE <<FirstMatch(x)>> \o f[Rematched(x)]
  <2>1. CASE x \in Ended
    BY <1>7, <2>1 DEF base
  <2>2. CASE x \notin Ended
    <3>1. next[x] = Rematched(x) /\ Rematched(x) \in Sides
      BY <2>2, RematchedOf DEF next
    <3>2. f[Rematched(x)] \in Seq(Row)
      BY <1>7, <3>1
    <3>3. step[x][f[Rematched(x)]] = <<FirstMatch(x)>> \o f[Rematched(x)]
      BY <2>2, <3>2 DEF step
    <3> QED BY <1>7, <2>2, <3>1, <3>3
  <2> QED BY <2>1, <2>2
<1>9. f = [x \in Sides |-> IF x \in Ended THEN <<>> ELSE <<FirstMatch(x)>> \o f[Rematched(x)]]
  BY <1>7, <1>8
<1>10. Eq(f)
  BY <1>9 DEF Sides, Ended, FirstMatch
<1>11. Eq(Matches)
  BY <1>10 DEF Matches
<1> QED BY <1>11 DEF Sides, Ended, FirstMatch

LEMMA TotalOfZero ==
  ASSUME NEW S, IsFiniteSet(S), NEW f, \A x \in S : f[x] = 0
  PROVE  Total(f, S) = 0
<1>1. PICK F : F = [s \in SUBSET S |-> 0]
  OBVIOUS
<1>2. \A s \in SUBSET S : \A x \in s : s \ {x} \in SUBSET S /\ x \in S
  OBVIOUS
<1>3. Sums(F, S, f)
  BY <1>1, <1>2 DEF Sums
<1> QED BY <1>1, <1>3, TotalIs

LEMMA ZeroOfTotal ==
  ASSUME NEW S, IsFiniteSet(S), NEW f, \A x \in S : f[x] \in Nat, Total(f, S) = 0
  PROVE  \A x \in S : f[x] = 0
<1>1. \A x \in S : f[x] <= 0
  BY TotalOfNaturals
<1> QED BY <1>1

LEMMA TotalLess ==
  ASSUME NEW S, IsFiniteSet(S), NEW f, NEW g, NEW p \in S, NEW n \in Int, \A x \in S : f[x] \in Int,
         \A x \in S : g[x] = IF x = p THEN f[x] - n ELSE f[x]
  PROVE  Total(g, S) = Total(f, S) - n
<1>1. PICK h : h = [x \in S |-> IF x = p THEN n ELSE 0]
  OBVIOUS
<1>2. \A x \in S : h[x] \in Int /\ f[x] \in Int /\ h[x] = IF x = p THEN n ELSE 0
  BY <1>1
<1>3. \A x \in S : g[x] = f[x] + (-1) * h[x]
  BY <1>2
<1>4. PICK k \in Int : k = -1
  OBVIOUS
<1>5. Total(g, S) = Total(f, S) + k * Total(h, S)
  BY <1>2, <1>3, <1>4, TotalLinear
<1>6. Total(h, S) = n
  BY <1>2, TotalAt
<1>7. PICK F : Sums(F, S, f)
  BY SumExists
<1>8. Total(f, S) \in Int
  BY <1>7, TotalIs
<1> QED BY <1>4, <1>5, <1>6, <1>8

Apart(d, c) == \A p \in Participant : d[p] = 0 \/ c[p] = 0
Net(c, d) == [p \in Participant |-> c[p] - d[p]]
Nought == [p \in Participant |-> 0]
Even(b) == Total(b, Participant) = 0
Opposed(x, d, c) ==
  /\ Represents(x.debtors, d) /\ Represents(x.creditors, c)
  /\ Apart(d, c) /\ Total(d, Participant) = Total(c, Participant)

LEMMA ParticipantsFinite == IsFiniteSet(Participant)
BY SettlementAssumption

\* When one queue is empty and the sums agree, nothing is left.
LEMMA OpposedEnd ==
  ASSUME NEW x \in Ended, NEW d \in Due, NEW c \in Due, Opposed(x, d, c)
  PROVE  Net(c, d) = Nought
<1>1. \A p \in Participant : d[p] \in Nat /\ c[p] \in Nat
  BY DEF Due
<1>2. ASSUME NEW q, NEW e \in Due, Represents(q, e), q = <<>>
      PROVE  \A p \in Participant : e[p] = 0
  BY <1>2 DEF Represents
<1>3. (\A p \in Participant : d[p] = 0) \/ (\A p \in Participant : c[p] = 0)
  BY <1>2 DEF Opposed, Ended
<1>4. \A p \in Participant : d[p] = 0 /\ c[p] = 0
  <2>1. CASE \A p \in Participant : d[p] = 0
    <3>1. Total(d, Participant) = 0
      BY <2>1, ParticipantsFinite, TotalOfZero
    <3>2. Total(c, Participant) = 0
      BY <3>1 DEF Opposed
    <3> QED BY <1>1, <2>1, <3>2, ParticipantsFinite, ZeroOfTotal
  <2>2. CASE \A p \in Participant : c[p] = 0
    <3>1. Total(c, Participant) = 0
      BY <2>2, ParticipantsFinite, TotalOfZero
    <3>2. Total(d, Participant) = 0
      BY <3>1 DEF Opposed
    <3> QED BY <1>1, <2>2, <3>2, ParticipantsFinite, ZeroOfTotal
  <2> QED BY <1>3, <2>1, <2>2
<1>5. \A p \in Participant : c[p] - d[p] = 0
  BY <1>4
<1> QED BY <1>5 DEF Net, Nought

\* A match takes the same amount off both sides.
LEMMA OpposedStep ==
  ASSUME NEW x \in Sides, x \notin Ended, NEW d \in Due, NEW c \in Due, Opposed(x, d, c)
  PROVE  /\ FirstMatch(x) \in New
         /\ \E e \in Due, f \in Due : /\ Opposed(Rematched(x), e, f)
                                      /\ Net(f, e) = Moved(Net(c, d), FirstMatch(x))
<1>1. /\ x.debtors \in Seq(Entry) /\ x.creditors \in Seq(Entry)
      /\ x.debtors # <<>> /\ x.creditors # <<>>
      /\ Matched(x) \in 0..Head(x.debtors).amount /\ Matched(x) \in 0..Head(x.creditors).amount
      /\ Matched(x) = Head(x.debtors).amount \/ Matched(x) = Head(x.creditors).amount
  BY MatchedOf
<1>2. Represents(x.debtors, d) /\ Represents(x.creditors, c)
  BY DEF Opposed
<1>3. ASSUME NEW q \in Seq(Entry), NEW due \in Due, Represents(q, due), q # <<>>
      PROVE  Head(q).who \in Participant /\ Head(q).amount # 0 /\ due[Head(q).who] = Head(q).amount
  <2>1. PICK l \in Nat, head \in Entry : Len(q) = l + 1 /\ HeadOf(q, head)
    BY <1>3, QueueHead
  <2>2. 1 \in 1..Len(q) /\ head = q[1] /\ head = Head(q) /\ head \in Entry
    BY <2>1 DEF HeadOf
  <2>3. q[1].amount # 0 /\ due[q[1].who] = q[1].amount
    BY <1>3, <2>2 DEF Represents
  <2> QED BY <2>2, <2>3 DEF Entry
<1>4. PICK from, to, n : from = Head(x.debtors).who /\ to = Head(x.creditors).who /\ n = Matched(x)
  OBVIOUS
<1>5. from \in Participant /\ Head(x.debtors).amount # 0 /\ d[from] = Head(x.debtors).amount
  BY <1>1, <1>2, <1>3, <1>4
<1>6. to \in Participant /\ Head(x.creditors).amount # 0 /\ c[to] = Head(x.creditors).amount
  BY <1>1, <1>2, <1>3, <1>4
<1>7. \A p \in Participant : d[p] \in Nat /\ c[p] \in Nat
  BY DEF Due
<1>8. n \in Nat \ {0} /\ n <= d[from] /\ n <= c[to]
  BY <1>1, <1>4, <1>5, <1>6, <1>7
<1>9. from # to /\ c[from] = 0 /\ d[to] = 0
  BY <1>5, <1>6, <1>7, <1>8 DEF Opposed, Apart
<1>10. FirstMatch(x) = Fresh(from, to, n)
  BY <1>4 DEF FirstMatch
<1>11. PICK t \in New : t = FirstMatch(x) /\ t.from = from /\ t.to = to /\ t.amount = n
  BY <1>5, <1>6, <1>8, <1>9, <1>10, FreshIsNew
<1>12. PICK e : e = [d EXCEPT ![from] = @ - n]
  OBVIOUS
<1>13. PICK f : f = [c EXCEPT ![to] = @ - n]
  OBVIOUS
<1>14. e \in Due /\ Represents(Reduced(x.debtors, n), e)
  <2>1. n \in 1..Head(x.debtors).amount
    BY <1>5, <1>7, <1>8
  <2> QED BY <1>1, <1>2, <1>4, <1>12, <2>1, ReducedRepresents
<1>15. f \in Due /\ Represents(Reduced(x.creditors, n), f)
  <2>1. n \in 1..Head(x.creditors).amount
    BY <1>6, <1>7, <1>8
  <2> QED BY <1>1, <1>2, <1>4, <1>13, <2>1, ReducedRepresents
<1>16. /\ \A p \in Participant : e[p] = IF p = from THEN d[p] - n ELSE d[p]
       /\ \A p \in Participant : f[p] = IF p = to THEN c[p] - n ELSE c[p]
  BY <1>12, <1>13 DEF Due
<1>17. Apart(e, f)
  BY <1>9, <1>16 DEF Opposed, Apart
<1>18. Total(e, Participant) = Total(f, Participant)
  <2>1. Total(e, Participant) = Total(d, Participant) - n
    <3>1. \A p \in Participant : d[p] \in Int
      BY <1>7
    <3>2. n \in Int
      BY <1>8
    <3> QED BY <1>5, <1>16, <3>1, <3>2, ParticipantsFinite, TotalLess
  <2>2. Total(f, Participant) = Total(c, Participant) - n
    <3>1. \A p \in Participant : c[p] \in Int
      BY <1>7
    <3>2. n \in Int
      BY <1>8
    <3> QED BY <1>6, <1>16, <3>1, <3>2, ParticipantsFinite, TotalLess
  <2> QED BY <2>1, <2>2 DEF Opposed
<1>19. Opposed(Rematched(x), e, f)
  BY <1>4, <1>14, <1>15, <1>17, <1>18 DEF Opposed, Rematched
<1>20. Net(f, e) = Moved(Net(c, d), t)
  <2>6. \A p \in Participant : c[p] - d[p] \in Int
    BY <1>7
  <2>7. Net(c, d) \in Balance
    BY <2>6 DEF Net, Balance
  <2>1. PICK b \in Balance : b = Net(c, d)
    BY <2>7
  <2>2. t \in Transfer
    BY NewIsTransfer
  <2>3. \A p \in Participant : Moved(b, t)[p] = b[p] + (IF p = from THEN n ELSE IF p = to THEN -n ELSE 0)
    BY <1>11, <2>2, MovedType
  <2>4. Moved(b, t) = [p \in Participant |-> Moved(b, t)[p]]
    BY <2>2, MovedType DEF Balance
  <2>5. ASSUME NEW p \in Participant
        PROVE  f[p] - e[p] = Moved(b, t)[p]
    <3>1. b[p] = c[p] - d[p] /\ c[p] \in Nat /\ d[p] \in Nat /\ n \in Nat
      BY <1>7, <1>8, <2>1 DEF Net
    <3>2. CASE p = from
      BY <1>9, <1>16, <2>3, <3>1, <3>2
    <3>3. CASE p = to
      BY <1>9, <1>16, <2>3, <3>1, <3>3
    <3>4. CASE p # from /\ p # to
      BY <1>16, <2>3, <3>1, <3>4
    <3> QED BY <3>2, <3>3, <3>4
  <2> QED BY <2>1, <2>4, <2>5 DEF Net
<1> QED BY <1>11, <1>14, <1>15, <1>19, <1>20

LEMMA AfterHead ==
  ASSUME NEW b \in Balance, NEW t \in Transfer, NEW s \in Seq(Transfer)
  PROVE  After(b, <<t>> \o s) = After(Moved(b, t), s)
<1>1. <<t>> \in Seq(Transfer) /\ <<>> \in Seq(Transfer) /\ <<t>> = Append(<<>>, t)
  OBVIOUS
<1>3. After(b, Append(<<>>, t)) = Moved(After(b, <<>>), t) /\ After(b, <<>>) = b
  BY <1>1, AfterFold
<1>2. After(b, <<t>>) = Moved(b, t)
  BY <1>1, <1>3
<1>4. After(b, <<t>> \o s) = After(After(b, <<t>>), s)
  BY <1>1, AfterConcat
<1> QED BY <1>2, <1>4

\* The matches of two queues with the same sum leave nothing.
LEMMA MatchesSettle ==
  ASSUME NEW x \in Sides, NEW d \in Due, NEW c \in Due, Opposed(x, d, c)
  PROVE  Matches[x] \in Seq(New) /\ After(Net(c, d), Matches[x]) = Nought
<1> DEFINE Size(y) == Len(y.debtors) + Len(y.creditors)
           Good(y) == \A e, f \in Due : Opposed(y, e, f) =>
                        Matches[y] \in Seq(New) /\ After(Net(f, e), Matches[y]) = Nought
           B == {k \in Nat : \A y \in Sides : Size(y) < k => Good(y)}
<1>1. ASSUME NEW y \in Sides PROVE Size(y) \in Nat
  <2>1. PICK i \in Seq(Entry), j \in Seq(Entry) : i = y.debtors /\ j = y.creditors
    BY DEF Sides
  <2>2. Len(i) + Len(j) \in Nat
    OBVIOUS
  <2> QED BY <2>1, <2>2, Zenon
<1>2. \A e, f \in Due : Net(f, e) \in Balance
  BY DEF Due, Net, Balance
<1>3. ASSUME NEW y \in Ended PROVE Good(y)
  <2> SUFFICES ASSUME NEW e \in Due, NEW f \in Due, Opposed(y, e, f)
               PROVE  Matches[y] \in Seq(New) /\ After(Net(f, e), Matches[y]) = Nought
    OBVIOUS
  <2>1. y \in Sides
    BY DEF Ended
  <2>2. Matches[y] = <<>>
    BY <2>1, MatchesIs
  <2>3. Net(f, e) = Nought
    BY OpposedEnd
  <2> QED BY <1>2, <2>2, <2>3, AfterFold
<1>4. ASSUME NEW y \in Sides, y \notin Ended, Good(Rematched(y)) PROVE Good(y)
  <2> SUFFICES ASSUME NEW e \in Due, NEW f \in Due, Opposed(y, e, f)
               PROVE  Matches[y] \in Seq(New) /\ After(Net(f, e), Matches[y]) = Nought
    OBVIOUS
  <2>1. PICK t \in New : t = FirstMatch(y)
    BY <1>4, OpposedStep
  <2>2. PICK g \in Due, h \in Due : Opposed(Rematched(y), g, h) /\ Net(h, g) = Moved(Net(f, e), t)
    BY <1>4, <2>1, OpposedStep
  <2>3. PICK s \in Seq(New) : s = Matches[Rematched(y)] /\ After(Net(h, g), s) = Nought
    BY <1>4, <2>2
  <2>4. Matches[y] = <<t>> \o s
    BY <1>4, <2>1, <2>3, MatchesIs
  <2>5. <<t>> \in Seq(New)
    OBVIOUS
  <2>6. <<t>> \o s \in Seq(New)
    BY <2>5, ConcatProperties
  <2>7. t \in Transfer /\ s \in Seq(Transfer)
    BY NewIsTransfer
  <2>8. After(Net(f, e), <<t>> \o s) = After(Moved(Net(f, e), t), s)
    BY <1>2, <2>7, AfterHead
  <2> QED BY <2>2, <2>3, <2>4, <2>6, <2>8
<1>5. \A y \in Sides : y \notin Ended => Rematched(y) \in Sides /\ Size(Rematched(y)) < Size(y)
  BY RematchedOf
<1> HIDE DEF Size, Good
<1>6. 0 \in B
  BY <1>1
<1>7. ASSUME NEW k \in Nat, k \in B
      PROVE  k + 1 \in B
  <2> SUFFICES ASSUME NEW y \in Sides, Size(y) < k + 1
               PROVE  Good(y)
    OBVIOUS
  <2>1. CASE y \in Ended
    BY <1>3, <2>1
  <2>2. CASE y \notin Ended
    <3>1. PICK z \in Sides : z = Rematched(y) /\ Size(z) < Size(y)
      BY <1>5, <2>2
    <3>2. Size(z) < k
      BY <1>1, <3>1
    <3>3. Good(z)
      BY <1>7, <3>2
    <3> QED BY <1>4, <2>2, <3>1, <3>3
  <2> QED BY <2>1, <2>2
<1> HIDE DEF B
<1>8. \A k \in Nat : k \in B
  BY <1>6, <1>7, Induction
<1>9. Size(x) \in Nat /\ Size(x) + 1 \in Nat /\ Size(x) < Size(x) + 1
  BY <1>1
<1>10. Good(x)
  BY <1>8, <1>9 DEF B
<1> QED BY <1>10 DEF Good

Separates(order, b) ==
  /\ \A p \in Participant : order[p] \in Int
  /\ \A p, q \in Participant : p # q /\ b[p] = b[q] /\ b[p] # 0 => order[p] # order[q]

\* The queue of what people are owed, or owe, in the code's order.
LEMMA QueueRepresents ==
  ASSUME NEW due \in Balance, NEW order, Separates(order, due), NEW pos,
         pos = [p \in Participant |-> Positive(due[p])]
  PROVE  pos \in Due /\ Represents(Queue(order, due), pos)
<1>1. \A p \in Participant : due[p] \in Int /\ order[p] \in Int
  BY DEF Separates, Balance
<1>2. PICK P : P = {q \in Participant : due[q] > 0}
  OBVIOUS
<1>3. PICK ahead : ahead = [p \in P |-> {q \in Participant :
                               due[q] > due[p] \/ (due[q] = due[p] /\ order[q] < order[p])}]
  OBVIOUS
<1>4. IsFiniteSet(P)
  BY <1>2, ParticipantsFinite, FS_Subset
<1>5. \A x, y \in P : x \in ahead[y] <=> due[x] > due[y] \/ (due[x] = due[y] /\ order[x] < order[y])
  BY <1>2, <1>3
<1>6. \A x \in P : x \in Participant /\ due[x] > 0 /\ due[x] \in Int /\ order[x] \in Int
  BY <1>1, <1>2
<1>7. ahead \in [P -> SUBSET P]
  <2>1. ASSUME NEW p \in P, NEW q \in ahead[p] PROVE q \in P
    <3>1. q \in Participant /\ due[q] >= due[p] /\ due[q] \in Int
      BY <1>1, <1>3, <1>6
    <3>2. due[q] > 0
      BY <1>6, <3>1
    <3> QED BY <1>2, <3>1, <3>2
  <2>2. \A p \in P : ahead[p] \in SUBSET P
    BY <2>1
  <2> QED BY <1>3, <2>2
<1>8. \A x \in P : x \notin ahead[x]
  BY <1>5, <1>6
<1>9. ASSUME NEW x \in P, NEW y \in P, NEW z \in P, x \in ahead[y], y \in ahead[z]
      PROVE  x \in ahead[z]
  BY <1>5, <1>6, <1>9
<1>10. ASSUME NEW x \in P, NEW y \in P, x # y
       PROVE  x \in ahead[y] \/ y \in ahead[x]
  <2>1. due[x] = due[y] => order[x] # order[y]
    <3>1. x \in Participant /\ y \in Participant /\ due[x] # 0
      BY <1>6
    <3> QED BY <1>10, <3>1 DEF Separates
  <2> QED BY <1>5, <1>6, <2>1
<1>11. IsOrder(ahead, P)
  BY <1>7, <1>8, <1>9, <1>10 DEF IsOrder
<1>12. PICK who : who = InOrder(ahead) /\ Listed(who, ahead, P)
  BY <1>4, <1>11, InOrderLists
<1>13. PICK n \in Nat : /\ who \in Seq(P) /\ n = Len(who) /\ DOMAIN who = 1..n
                        /\ \A j, k \in 1..n : who[j] = who[k] => j = k
                        /\ \A x \in P : \E k \in 1..n : who[k] = x
  BY <1>12 DEF Listed
<1>14. PICK q : q = [k \in 1..n |-> [who |-> who[k], amount |-> due[who[k]]]]
  OBVIOUS
<1>15. \A k \in 1..n : who[k] \in P
  BY <1>13
<1>16. \A k \in 1..n : q[k].who = who[k] /\ q[k].amount = due[who[k]]
  BY <1>14
<1>17. \A p \in P : due[p] \in Nat
  BY <1>6
<1>18. \A k \in 1..n : q[k] \in Entry
  BY <1>6, <1>14, <1>15, <1>17 DEF Entry
<1>19. q \in Seq(Entry) /\ Len(q) = n
  BY <1>14, <1>18
<1>20. Queue(order, due) = q
  BY <1>2, <1>3, <1>12, <1>13, <1>14 DEF Queue
<1>21. \A p \in Participant : pos[p] = (IF due[p] > 0 THEN due[p] ELSE 0) /\ pos[p] \in Nat
  BY <1>1 DEF Positive
<1>22. \A k \in 1..n : q[k].amount # 0 /\ pos[q[k].who] = q[k].amount
  BY <1>6, <1>15, <1>16, <1>21
<1>23. \A j, k \in 1..n : q[j].who = q[k].who => j = k
  BY <1>13, <1>16
<1>24. ASSUME NEW p \in Participant, pos[p] # 0
       PROVE  \E k \in 1..n : q[k].who = p
  <2>1. p \in P
    BY <1>2, <1>21, <1>24
  <2> QED BY <1>13, <1>16, <2>1
<1>25. Represents(q, pos)
  BY <1>19, <1>22, <1>23, <1>24 DEF Represents
<1> QED BY <1>20, <1>21, <1>25 DEF Due

LEMMA TotalInt ==
  ASSUME NEW b \in Balance
  PROVE  Total(b, Participant) \in Int
<1>1. \A p \in Participant : b[p] \in Int
  BY DEF Balance
<1>2. PICK F : Sums(F, Participant, b)
  BY <1>1, ParticipantsFinite, SumExists
<1> QED BY <1>2, ParticipantsFinite, TotalIs

LEMMA TotalMoved ==
  ASSUME NEW b \in Balance, NEW t \in Transfer
  PROVE  Total(Moved(b, t), Participant) = Total(b, Participant)
<1>1. PICK from \in Participant, to \in Participant, n \in Int :
         from # to /\ from = t.from /\ to = t.to /\ n = t.amount
  BY DEF Transfer
<1>2. PICK m : m = Moved(b, t)
  OBVIOUS
<1>3. \A p \in Participant : b[p] \in Int /\ m[p] = b[p] + (IF p = from THEN n ELSE IF p = to THEN -n ELSE 0)
  BY <1>1, <1>2, MovedType DEF Balance
<1>4. PICK h : h = [p \in Participant |-> IF p = from THEN b[p] + n ELSE b[p]]
  OBVIOUS
<1>5. \A p \in Participant : h[p] \in Int
  BY <1>3, <1>4
<1>6. PICK k \in Int : k = -n
  OBVIOUS
<1>7. \A p \in Participant : h[p] = IF p = from THEN b[p] - k ELSE b[p]
  BY <1>3, <1>4, <1>6
<1>8. \A p \in Participant : m[p] = IF p = to THEN h[p] - n ELSE h[p]
  BY <1>1, <1>3, <1>4
<1>9. Total(h, Participant) = Total(b, Participant) - k
  BY <1>3, <1>7, ParticipantsFinite, TotalLess
<1>10. Total(m, Participant) = Total(h, Participant) - n
  BY <1>5, <1>8, ParticipantsFinite, TotalLess
<1> QED BY <1>2, <1>6, <1>9, <1>10, TotalInt

\* Transfers leave the sum of the balances what it is.
LEMMA EvenAfter ==
  ASSUME NEW b \in Balance, Even(b), NEW s \in Seq(Transfer)
  PROVE  After(b, s) \in Balance /\ Even(After(b, s))
<1> DEFINE B == {r \in Seq(Transfer) : Even(After(b, r))}
<1>1. <<>> \in B
  BY AfterFold
<1>2. ASSUME NEW r \in Seq(Transfer), NEW x \in Transfer, r \in B
      PROVE  Append(r, x) \in B
  <2>1. Append(r, x) \in Seq(Transfer)
    BY AppendProperties
  <2>2. After(b, r) \in Balance /\ After(b, Append(r, x)) = Moved(After(b, r), x)
    BY AfterFold
  <2>3. Total(Moved(After(b, r), x), Participant) = Total(After(b, r), Participant)
    BY <2>2, TotalMoved
  <2> QED BY <1>2, <2>1, <2>2, <2>3 DEF Even
<1> HIDE DEF B
<1>3. s \in B
  BY <1>1, <1>2, ListInduction
<1> QED BY <1>3, AfterFold DEF B

\* The greedy plan settles any balances that add up to nothing (buildGreedyTransfers).
THEOREM GreedySettles ==
  ASSUME NEW b \in Balance, NEW order, Separates(order, b), Even(b)
  PROVE  Greedy(order, b) \in Seq(New) /\ After(b, Greedy(order, b)) = Nought
<1>1. \A p \in Participant : b[p] \in Int
  BY DEF Balance
<1>2. PICK minus : minus = [p \in Participant |-> -b[p]]
  OBVIOUS
<1>3. minus \in Balance /\ \A p \in Participant : minus[p] = -b[p]
  BY <1>1, <1>2 DEF Balance
<1>4. Separates(order, minus)
  <2>1. \A p, q \in Participant : minus[p] = minus[q] /\ minus[p] # 0 => b[p] = b[q] /\ b[p] # 0
    BY <1>1, <1>3
  <2> QED BY <2>1 DEF Separates
<1>5. PICK d : d = [p \in Participant |-> Positive(minus[p])]
  OBVIOUS
<1>6. PICK c : c = [p \in Participant |-> Positive(b[p])]
  OBVIOUS
<1>7. d \in Due /\ Represents(Queue(order, minus), d)
  BY <1>3, <1>4, <1>5, QueueRepresents
<1>8. c \in Due /\ Represents(Queue(order, b), c)
  BY <1>6, QueueRepresents
<1>9. PICK x : x = [debtors |-> Queue(order, minus), creditors |-> Queue(order, b)]
  OBVIOUS
<1>10. x.debtors = Queue(order, minus) /\ x.creditors = Queue(order, b)
  BY <1>9
<1>11. x \in Sides
  BY <1>7, <1>8, <1>9 DEF Sides, Represents
<1>12. \A p \in Participant : /\ d[p] \in Nat /\ c[p] \in Nat
                              /\ d[p] = 0 \/ c[p] = 0
                              /\ c[p] - d[p] = b[p] /\ b[p] = c[p] + (-1) * d[p]
  BY <1>1, <1>3, <1>5, <1>6 DEF Positive
<1>13. Net(c, d) = b
  <2>1. b = [p \in Participant |-> b[p]]
    BY DEF Balance
  <2> QED BY <1>12, <2>1 DEF Net
<1>14. Total(d, Participant) = Total(c, Participant)
  <2>1. PICK k \in Int : k = -1
    OBVIOUS
  <2>2. \A p \in Participant : c[p] \in Int /\ d[p] \in Int /\ b[p] = c[p] + k * d[p]
    BY <1>12, <2>1
  <2>3. Total(b, Participant) = Total(c, Participant) + k * Total(d, Participant)
    BY <2>2, ParticipantsFinite, TotalLinear
  <2>4. Total(c, Participant) \in Nat /\ Total(d, Participant) \in Nat
    BY <1>12, ParticipantsFinite, TotalOfNaturals
  <2> QED BY <2>1, <2>3, <2>4 DEF Even
<1>15. Opposed(x, d, c)
  BY <1>7, <1>8, <1>10, <1>12, <1>14 DEF Opposed, Apart
<1>16. Greedy(order, b) = Matches[x]
  BY <1>2, <1>9 DEF Greedy
<1> QED BY <1>7, <1>8, <1>11, <1>13, <1>15, <1>16, MatchesSettle

-----------------------------------------------------------------------------
(* Shares of expenses. *)

LEMMA Distributes ==
  ASSUME NEW k \in Int, NEW q \in Int, NEW m, m = k + 1
  PROVE  m * q = k * q + q
OBVIOUS

LEMMA Divides ==
  ASSUME NEW t \in Int, NEW n \in Nat \ {0}
  PROVE  t \div n \in Int /\ t % n \in 0..(n - 1) /\ t = n * (t \div n) + (t % n)
OBVIOUS

Position(shared) == [p \in Participant |-> IF Contains(shared, p)
                                           THEN CHOOSE i \in DOMAIN shared : shared[i] = p
                                           ELSE Len(shared) + 1]

Positions(pos, shared, n) ==
  /\ \A p \in Participant : /\ pos[p] \in 1..(n + 1)
                            /\ pos[p] <= n => shared[pos[p]] = p
                            /\ Contains(shared, p) <=> pos[p] <= n
  /\ \A i \in 1..n : pos[shared[i]] = i

LEMMA PositionOf ==
  ASSUME NEW shared \in Seq(Participant), IsInjective(shared), NEW n \in Nat, n = Len(shared)
  PROVE  Positions(Position(shared), shared, n)
<1>1. DOMAIN shared = 1..n /\ \A i \in 1..n : shared[i] \in Participant
  OBVIOUS
<1>2. \A i, j \in 1..n : shared[i] = shared[j] => i = j
  BY <1>1 DEF IsInjective
<1>3. \A p \in Participant : Contains(shared, p) <=> \E i \in 1..n : shared[i] = p
  BY DEF Contains
<1>4. ASSUME NEW p \in Participant
      PROVE  /\ Position(shared)[p] \in 1..(n + 1)
             /\ Position(shared)[p] <= n => shared[Position(shared)[p]] = p
             /\ Contains(shared, p) <=> Position(shared)[p] <= n
  <2>1. CASE \E i \in 1..n : shared[i] = p
    <3>1. PICK k \in 1..n : k = CHOOSE i \in 1..n : shared[i] = p
      BY <2>1
    <3>2. shared[k] = p
      BY <2>1, <3>1
    <3>3. Position(shared)[p] = k
      BY <1>1, <1>3, <2>1, <3>1 DEF Position
    <3> QED BY <1>3, <2>1, <3>1, <3>2, <3>3
  <2>2. CASE ~\E i \in 1..n : shared[i] = p
    <3>1. Position(shared)[p] = n + 1
      BY <1>3, <2>2 DEF Position
    <3> QED BY <1>3, <2>2, <3>1
  <2> QED BY <2>1, <2>2
<1>5. ASSUME NEW i \in 1..n
      PROVE  Position(shared)[shared[i]] = i
  <2>1. shared[i] \in Participant
    BY <1>1
  <2>2. PICK k : k = Position(shared)[shared[i]]
    OBVIOUS
  <2>3. k <= n /\ k \in 1..(n + 1)
    BY <1>3, <1>4, <2>1, <2>2
  <2>4. k \in 1..n /\ shared[k] = shared[i]
    BY <1>4, <2>1, <2>2, <2>3
  <2> QED BY <1>2, <2>2, <2>4
<1> QED BY <1>4, <1>5 DEF Positions

Share(total, shared) == [p \in Participant |->
  IF Contains(shared, p)
  THEN SplitEvenly(total, shared)[CHOOSE i \in DOMAIN shared : shared[i] = p] ELSE 0]

\* Shares are even, but for a unit more of the first ones (splitEvenly).
LEMMA ShareAtPosition ==
  ASSUME NEW shared \in Seq(Participant), IsInjective(shared), NEW n \in Nat \ {0}, n = Len(shared),
         NEW total \in Nat, NEW q, q = total \div n, NEW r, r = total % n
  PROVE  \A p \in Participant :
           Share(total, shared)[p] = IF Position(shared)[p] <= n
                                     THEN q + (IF Position(shared)[p] <= r THEN 1 ELSE 0) ELSE 0
<1>1. Positions(Position(shared), shared, n)
  BY PositionOf
<1>2. \A i \in 1..n : SplitEvenly(total, shared)[i] = q + (IF i <= r THEN 1 ELSE 0)
  BY DEF SplitEvenly
<1> SUFFICES ASSUME NEW p \in Participant
             PROVE  Share(total, shared)[p] = IF Position(shared)[p] <= n
                                              THEN q + (IF Position(shared)[p] <= r THEN 1 ELSE 0) ELSE 0
  OBVIOUS
<1>3. PICK k \in 1..(n + 1) : k = Position(shared)[p] /\ (Contains(shared, p) <=> k <= n)
  BY <1>1 DEF Positions
<1>4. CASE k <= n
  <2>1. k = CHOOSE i \in DOMAIN shared : shared[i] = p
    BY <1>3, <1>4 DEF Position
  <2>2. Share(total, shared)[p] = SplitEvenly(total, shared)[k]
    BY <1>3, <1>4, <2>1 DEF Share
  <2>3. k \in 1..n
    BY <1>4
  <2> QED BY <1>2, <1>3, <1>4, <2>2, <2>3
<1>5. CASE ~(k <= n)
  BY <1>3, <1>5 DEF Share
<1> QED BY <1>4, <1>5

\* The shares of an expense add up to its total.
LEMMA SharesSum ==
  ASSUME NEW shared \in Seq(Participant) \ {<<>>}, IsInjective(shared), NEW total \in Nat
  PROVE  /\ \A p \in Participant : Share(total, shared)[p] \in Int
         /\ Total(Share(total, shared), Participant) = total
<1>1. PICK n \in Nat \ {0} : n = Len(shared)
  <2>1. Len(shared) \in Nat /\ Len(shared) # 0
    BY EmptySeq
  <2> QED BY <2>1
<1>2. PICK q, r : q = total \div n /\ r = total % n
  OBVIOUS
<1>22. q \in Int /\ r \in 0..(n - 1) /\ total = n * q + r
  <2>1. total \div n \in Int /\ total % n \in 0..(n - 1) /\ total = n * (total \div n) + (total % n)
    <3>1. total \in Int
      OBVIOUS
    <3> QED BY <3>1, Divides, Zenon
  <2> QED BY <1>2, <2>1
<1>3. PICK pos : pos = Position(shared)
  OBVIOUS
<1>4. Positions(pos, shared, n)
  BY <1>1, <1>3, PositionOf
<1> DEFINE part(k) == [p \in Participant |->
                         IF pos[p] <= k THEN q + (IF pos[p] <= r THEN 1 ELSE 0) ELSE 0]
<1>5. \A p \in Participant : Share(total, shared)[p] = part(n)[p]
  <2>1. \A p \in Participant :
           Share(total, shared)[p] = IF Position(shared)[p] <= n
                                     THEN q + (IF Position(shared)[p] <= r THEN 1 ELSE 0) ELSE 0
    BY <1>1, <1>2, ShareAtPosition
  <2> QED BY <1>3, <2>1
<1>6. Share(total, shared) = part(n)
  BY <1>5 DEF Share
<1>7. \A k \in Nat : \A p \in Participant : part(k)[p] \in Int
  BY <1>4, <1>22 DEF Positions
<1> DEFINE Sum(k) == Total(part(k), Participant)
           B == {k \in Nat : k <= n => Sum(k) = k * q + Lower(k, r)}
<1>8. 0 \in B
  <2>1. \A p \in Participant : part(0)[p] = 0
    BY <1>4, <1>22 DEF Positions
  <2> HIDE DEF part
  <2>2. Total(part(0), Participant) = 0
    BY <2>1, ParticipantsFinite, TotalOfZero
  <2>3. Lower(0, r) = 0 /\ 0 * q = 0
    BY <1>22 DEF Lower
  <2> QED BY <2>2, <2>3
<1>9. ASSUME NEW k \in Nat, k \in B
      PROVE  k + 1 \in B
  <2> SUFFICES ASSUME k + 1 <= n
               PROVE  Sum(k + 1) = (k + 1) * q + Lower(k + 1, r)
    OBVIOUS
  <2>1. PICK m \in 1..n : m = k + 1
    OBVIOUS
  <2>2. PICK w \in Participant : w = shared[m] /\ pos[w] = m
    BY <1>1, <1>4 DEF Positions
  <2>3. \A p \in Participant : p # w => pos[p] \in Int /\ pos[p] # m
    BY <1>4, <2>1, <2>2 DEF Positions
  <2>4. PICK e \in Int : e = q + (IF m <= r THEN 1 ELSE 0)
    BY <1>22
  <2>5. PICK f \in Int : f = -e
    OBVIOUS
  <2>6. \A p \in Participant : part(m)[p] = IF p = w THEN part(k)[p] - f ELSE part(k)[p]
    <3> SUFFICES ASSUME NEW p \in Participant
                 PROVE  part(m)[p] = IF p = w THEN part(k)[p] - f ELSE part(k)[p]
      OBVIOUS
    <3>1. CASE p = w
      <4>1. part(k)[p] = 0 /\ part(m)[p] = e
        BY <2>1, <2>2, <2>4, <3>1
      <4> HIDE DEF part
      <4> QED BY <2>5, <3>1, <4>1
    <3>2. CASE p # w
      <4>1. PICK j \in Int : j = pos[p] /\ (j <= m <=> j <= k)
        BY <2>1, <2>3, <3>2
      <4>2. part(m)[p] = part(k)[p]
        BY <4>1
      <4> HIDE DEF part
      <4> QED BY <3>2, <4>2
    <3> QED BY <3>1, <3>2
  <2>7. \A p \in Participant : part(k)[p] \in Int
    BY <1>7
  <2> HIDE DEF part
  <2>8. Total(part(m), Participant) = Total(part(k), Participant) - f
    BY <2>6, <2>7, ParticipantsFinite, TotalLess
  <2>9. Total(part(k), Participant) = k * q + Lower(k, r)
    BY <1>9, <2>1
  <2>10. m * q = k * q + q
    BY <1>22, <2>1, Distributes
  <2>11. Lower(m, r) = Lower(k, r) + (IF m <= r THEN 1 ELSE 0) /\ Lower(k, r) \in Int
    BY <1>22, <2>1 DEF Lower
  <2>12. PICK a \in Int, b \in Int : a = k * q /\ b = Lower(k, r)
    BY <1>22, <2>11
  <2>13. m * q = a + q /\ Lower(m, r) = b + (IF m <= r THEN 1 ELSE 0)
    BY <2>10, <2>11, <2>12
  <2>14. Total(part(m), Participant) = (a + b) + e
    BY <2>5, <2>8, <2>9, <2>12
  <2>15. Total(part(m), Participant) = m * q + Lower(m, r)
    <3>1. PICK z \in Int : z = IF m <= r THEN 1 ELSE 0
      OBVIOUS
    <3>2. e = q + z /\ m * q = a + q /\ Lower(m, r) = b + z
      BY <2>4, <2>13, <3>1
    <3> QED BY <1>22, <2>14, <3>2
  <2> QED BY <2>1, <2>15
<1> HIDE DEF part, B
<1>10. n \in B
  BY <1>8, <1>9, Induction
<1>11. Total(part(n), Participant) = n * q + Lower(n, r)
  BY <1>10 DEF B
<1>12. Lower(n, r) = r
  BY <1>22 DEF Lower
<1>13. \A p \in Participant : Share(total, shared)[p] \in Int
  BY <1>6, <1>7
<1> QED BY <1>6, <1>11, <1>12, <1>13, <1>22

LEMMA ContentType ==
  ASSUME NEW e \in Expense
  PROVE  /\ Content[e].total \in Nat \ {0} /\ Content[e].payer \in Participant
         /\ Content[e].shared \in Seq(Participant) \ {<<>>} /\ IsInjective(Content[e].shared)
BY SettlementAssumption

LEMMA ExpenseBalanceOf ==
  ASSUME NEW e \in Expense
  PROVE  \A p \in Participant :
           ExpenseBalance[e][p] = (IF p = Content[e].payer THEN Content[e].total ELSE 0)
                                  - Share(Content[e].total, Content[e].shared)[p]
BY DEF ExpenseBalance, Share

\* What an expense makes some owe, it makes others be owed.
LEMMA ExpenseBalanceEven ==
  ASSUME NEW e \in Expense
  PROVE  ExpenseBalance[e] \in Balance /\ Even(ExpenseBalance[e])
<1>1. PICK total, payer, shared : total = Content[e].total /\ payer = Content[e].payer /\ shared = Content[e].shared
  OBVIOUS
<1>2. /\ total \in Nat /\ payer \in Participant
      /\ shared \in Seq(Participant) \ {<<>>} /\ IsInjective(shared)
  BY <1>1, ContentType
<1>3. PICK share : share = Share(total, shared)
  OBVIOUS
<1>4. \A p \in Participant : share[p] \in Int
  BY <1>2, <1>3, SharesSum
<1>5. Total(share, Participant) = total
  BY <1>2, <1>3, SharesSum
<1>6. PICK b : b = ExpenseBalance[e]
  OBVIOUS
<1>7. \A p \in Participant : b[p] = (IF p = payer THEN total ELSE 0) - share[p]
  BY <1>1, <1>3, <1>6, ExpenseBalanceOf
<1>8. b = [p \in Participant |-> b[p]]
  BY <1>6 DEF ExpenseBalance
<1>9. \A p \in Participant : b[p] \in Int
  BY <1>2, <1>4, <1>7
<1>10. b \in Balance
  BY <1>8, <1>9 DEF Balance
<1>11. PICK one : one = [p \in Participant |-> IF p = payer THEN total ELSE 0]
  OBVIOUS
<1>12. \A p \in Participant : one[p] \in Int /\ share[p] \in Int /\ b[p] = one[p] + (-1) * share[p]
  BY <1>2, <1>4, <1>7, <1>11
<1>13. Total(one, Participant) = total
  BY <1>2, <1>11, ParticipantsFinite, TotalAt
<1>14. Total(b, Participant) = Total(one, Participant) + (-1) * Total(share, Participant)
  BY <1>12, ParticipantsFinite, TotalLinear
<1>15. Total(b, Participant) = 0
  BY <1>2, <1>5, <1>13, <1>14
<1> QED BY <1>6, <1>10, <1>15 DEF Even

\* The debts of one expense are new transfers.
LEMMA ExpenseRoutesType ==
  ASSUME NEW e \in Expense
  PROVE  ExpenseRoutes[e] \in Seq(New)
<1>1. PICK total, payer, shared : total = Content[e].total /\ payer = Content[e].payer /\ shared = Content[e].shared
  OBVIOUS
<1>2. /\ total \in Nat /\ payer \in Participant
      /\ shared \in Seq(Participant) \ {<<>>} /\ IsInjective(shared)
  BY <1>1, ContentType
<1>3. PICK n \in Nat : n = Len(shared)
  BY <1>2
<1>4. PICK pos : pos = Position(shared)
  OBVIOUS
<1>5. Positions(pos, shared, n)
  BY <1>2, <1>3, <1>4, PositionOf
<1>6. PICK b \in Balance : b = ExpenseBalance[e] /\ Even(b)
  BY ExpenseBalanceEven
<1>7. ExpenseRoutes[e] = Greedy(pos, b)
  BY <1>1, <1>4, <1>6 DEF ExpenseRoutes, Position
<1>8. \A p \in Participant : p # payer /\ ~Contains(shared, p) => b[p] = 0
  <2>1. \A p \in Participant : ~Contains(shared, p) => Share(total, shared)[p] = 0
    BY DEF Share
  <2> QED BY <1>1, <1>6, <2>1, ExpenseBalanceOf
<1>9. Separates(pos, b)
  <2>1. \A p \in Participant : pos[p] \in Int
    BY <1>5 DEF Positions
  <2>2. ASSUME NEW p \in Participant, NEW q \in Participant, p # q, b[p] = b[q], b[p] # 0
        PROVE  pos[p] # pos[q]
    <3>1. CASE Contains(shared, p) /\ Contains(shared, q)
      <4>1. pos[p] <= n /\ pos[q] <= n /\ shared[pos[p]] = p /\ shared[pos[q]] = q
        BY <1>5, <3>1 DEF Positions
      <4> QED BY <2>2, <4>1
    <3>2. CASE ~(Contains(shared, p) <=> Contains(shared, q))
      BY <1>5, <3>2 DEF Positions
    <3>3. CASE ~Contains(shared, p) /\ ~Contains(shared, q)
      <4>1. p = payer /\ q = payer
        BY <1>8, <2>2, <3>3
      <4> QED BY <2>2, <4>1
    <3> QED BY <3>1, <3>2, <3>3
  <2> QED BY <2>1, <2>2 DEF Separates
<1> QED BY <1>6, <1>7, <1>9, GreedySettles

ExpenseOnto(rows, e) == FoldLeft(Netted, rows, ExpenseRoutes[e])

LEMMA ExpenseOntoType ==
  ASSUME NEW rows \in Map, NEW e \in Expense
  PROVE  ExpenseOnto(rows, e) \in Map
<1>1. ExpenseRoutes[e] \in Seq(Transfer)
  BY ExpenseRoutesType, NewIsTransfer
<1>2. ExpenseOnto(rows, e) = NettedOnto(rows, ExpenseRoutes[e])
  BY DEF ExpenseOnto, NettedOnto
<1> QED BY <1>1, <1>2, NettedOntoEffect

\* What the direct way prefers is a Map of routes.
LEMMA DirectRoutesType ==
  \A expenses \in Seq(Expense) : DirectRoutes(expenses) \in Map
<1>0. <<>> \in Map
  BY EmptySeq DEF Map
<1> DEFINE step == [t \in Expense |-> [y \in Map |-> ExpenseOnto(y, t)]]
           F == [rows \in Seq(Expense) |-> DirectRoutes(rows)]
<1>1. Acts(step, Expense, Map)
  BY ExpenseOntoType DEF Acts
<1>2. ASSUME NEW rows \in Seq(Expense)
      PROVE  \E f : /\ Unfolds(f, Map, Len(rows), <<>>, StepsOf(step, rows))
                    /\ F[rows] = f[1..Len(rows)]
  <2> DEFINE Eq(f) == f = [s \in SUBSET DOMAIN rows |->
                             IF s = {} THEN <<>> ELSE ExpenseOnto(f[s \ {Max(s)}], rows[Max(s)])]
             fold == CHOOSE f : Eq(f)
  <2>1. PICK n \in Nat : n = Len(rows) /\ DOMAIN rows = 1..n
    OBVIOUS
  <2>2. PICK go : go = StepsOf(step, rows)
    OBVIOUS
  <2>3. Steps(go, Map, n)
    BY <1>1, <2>1, <2>2, StepsOfActs
  <2>4. \A k \in 1..n, y \in Map : go[k][y] = ExpenseOnto(y, rows[k])
    BY <2>1, <2>2 DEF StepsOf
  <2>5. \A s \in SUBSET (1..n) : s # {} => Max(s) \in 1..n /\ s \ {Max(s)} \in SUBSET (1..n)
    BY MaxIsMember
  <2> HIDE DEF step, F
  <2>6. PICK f : Folds(f, Map, n, <<>>, go)
    BY <1>0, <2>3, FoldExists
  <2>7. Eq(f)
    BY <2>1, <2>4, <2>5, <2>6 DEF Folds
  <2>8. Eq(fold)
    BY <2>7
  <2>9. F[rows] = fold[DOMAIN rows]
    BY DEF F, DirectRoutes, ExpenseOnto, FoldLeft, MapThenFoldSet
  <2> HIDE DEF fold
  <2>10. Unfolds(fold, Map, n, <<>>, go)
    <3>1. fold[{}] = <<>>
      BY <2>8
    <3>2. ASSUME NEW s \in SUBSET (1..n), s # {}, fold[s \ {Max(s)}] \in Map
          PROVE  fold[s] = go[Max(s)][fold[s \ {Max(s)}]]
      <4>1. fold[s] = ExpenseOnto(fold[s \ {Max(s)}], rows[Max(s)])
        BY <2>1, <2>8, <3>2
      <4>2. Max(s) \in 1..n
        BY <2>5, <3>2
      <4> QED BY <2>4, <3>2, <4>1, <4>2
    <3> QED BY <3>1, <3>2 DEF Unfolds
  <2> QED BY <2>1, <2>2, <2>9, <2>10
<1>3. Fits(F, Expense, Map, <<>>, step)
  BY <1>2 DEF Fits
<1> HIDE DEF step, F
<1>4. IsFold(F, Expense, Map, <<>>, step)
  BY <1>0, <1>1, <1>3, FoldLaw
<1> QED BY <1>4 DEF IsFold, F

-----------------------------------------------------------------------------
(* The balances of ledgers. *)

LEMMA TotalOneMore ==
  ASSUME NEW S, IsFiniteSet(S), NEW x, x \notin S, NEW f, \A y \in S \cup {x} : f[y] \in Int
  PROVE  Total(f, S \cup {x}) = Total(f, S) + f[x]
<1>1. PICK T : T = S \cup {x}
  OBVIOUS
<1>2. IsFiniteSet(T)
  BY <1>1, FS_AddElement
<1>3. PICK F : Sums(F, T, f)
  BY <1>1, <1>2, SumExists
<1>4. Total(f, T) = F[T]
  BY <1>2, <1>3, TotalIs
<1>5. F[T] = F[T \ {x}] + f[x]
  BY <1>1, <1>3 DEF Sums
<1>6. T \ {x} = S
  BY <1>1
<1> DEFINE G == [s \in SUBSET S |-> F[s]]
<1>7. Sums(G, S, f)
  <2>1. G \in [SUBSET S -> Int] /\ G[{}] = 0
    BY <1>1, <1>3 DEF Sums
  <2>2. ASSUME NEW s \in SUBSET S, NEW y \in s
        PROVE  G[s] = G[s \ {y}] + f[y]
    BY <1>1, <1>3 DEF Sums
  <2> QED BY <2>1, <2>2 DEF Sums
<1> HIDE DEF G
<1>8. Total(f, S) = G[S]
  BY <1>7, TotalIs
<1>9. G[S] = F[S]
  BY DEF G
<1> QED BY <1>1, <1>4, <1>5, <1>6, <1>8, <1>9

LEMMA TotalMonotone ==
  ASSUME NEW S, IsFiniteSet(S), NEW f, NEW g, \A x \in S : f[x] \in Int /\ g[x] \in Int /\ f[x] <= g[x]
  PROVE  /\ Total(f, S) \in Int /\ Total(g, S) \in Int
         /\ Total(f, S) <= Total(g, S)
<1> DEFINE h == [x \in S |-> g[x] - f[x]]
<1>1. \A x \in S : h[x] \in Nat /\ h[x] = g[x] + (-1) * f[x]
  OBVIOUS
<1> HIDE DEF h
<1>2. Total(h, S) \in Nat
  BY <1>1, TotalOfNaturals
<1>3. Total(h, S) = Total(g, S) + (-1) * Total(f, S)
  BY <1>1, TotalLinear
<1>4. ASSUME NEW e, \A x \in S : e[x] \in Int
      PROVE  Total(e, S) \in Int
  <2>1. PICK F : Sums(F, S, e)
    BY <1>4, SumExists
  <2> QED BY <2>1, TotalIs
<1>5. Total(f, S) \in Int /\ Total(g, S) \in Int
  BY <1>4
<1> QED BY <1>2, <1>3, <1>5

Column(ledger, p) == [e \in ledger |-> ExpenseBalance[e][p]]

LEMMA ColumnType ==
  ASSUME NEW ledger \in SUBSET Expense, NEW p \in Participant
  PROVE  \A e \in ledger : Column(ledger, p)[e] = ExpenseBalance[e][p] /\ ExpenseBalance[e][p] \in Int
BY ExpenseBalanceEven DEF Column, Balance

\* A ledger's balances are the sums of its expenses' balances.
LEMMA LedgerTotal ==
  ASSUME NEW ledger \in SUBSET Expense, IsFiniteSet(ledger)
  PROVE  LedgerBalances[ledger] = [p \in Participant |-> Total(Column(ledger, p), ledger)]
<1>1. ASSUME NEW p \in Participant
      PROVE  MapThenSumSet(LAMBDA e : ExpenseBalance[e][p], ledger) = Total(Column(ledger, p), ledger)
  <2>1. \A e \in ledger : Column(ledger, p)[e] \in Int
    BY ColumnType
  <2>2. (CHOOSE w : SetFold(w, ledger, Column(ledger, p)))[ledger] = Total(Column(ledger, p), ledger)
    BY <2>1, SetFoldIsTotal
  <2> DEFINE Eq(w) == w = [s \in SUBSET ledger |->
                IF s = {} THEN 0
                ELSE ExpenseBalance[CHOOSE x \in s : TRUE][p] + w[s \ {CHOOSE x \in s : TRUE}]]
  <2>3. \A s \in SUBSET ledger : s # {} =>
          Column(ledger, p)[CHOOSE x \in s : TRUE] = ExpenseBalance[CHOOSE x \in s : TRUE][p]
    BY DEF Column
  <2>4. \A w : SetFold(w, ledger, Column(ledger, p)) <=> Eq(w)
    BY <2>3 DEF SetFold
  <2>5. (CHOOSE w : SetFold(w, ledger, Column(ledger, p))) = (CHOOSE w : Eq(w))
    BY <2>4
  <2>6. MapThenSumSet(LAMBDA e : ExpenseBalance[e][p], ledger) = (CHOOSE w : Eq(w))[ledger]
    BY DEF MapThenSumSet, MapThenFoldSet
  <2> QED BY <2>2, <2>5, <2>6
<1> QED BY <1>1 DEF LedgerBalances

\* They add up to nothing.
LEMMA LedgerBalancesEven ==
  ASSUME NEW ledger \in SUBSET Expense, IsFiniteSet(ledger)
  PROVE  LedgerBalances[ledger] \in Balance /\ Even(LedgerBalances[ledger])
<1> DEFINE sum(s) == [p \in Participant |-> Total(Column(s, p), s)]
           B == {s \in SUBSET ledger : sum(s) \in Balance /\ Even(sum(s))}
<1>1. {} \in B
  <2>1. \A p \in Participant : Total(Column({}, p), {}) = 0
    <3> SUFFICES ASSUME NEW p \in Participant PROVE Total(Column({}, p), {}) = 0
      OBVIOUS
    <3>1. IsFiniteSet({}) /\ \A x \in {} : Column({}, p)[x] = 0
      BY FS_EmptySet
    <3> QED BY <3>1, TotalOfZero
  <2>2. \A p \in Participant : sum({})[p] = 0
    BY <2>1
  <2>3. sum({}) \in Balance
    BY <2>1 DEF Balance
  <2> HIDE DEF sum
  <2>4. Total(sum({}), Participant) = 0
    BY <2>2, ParticipantsFinite, TotalOfZero
  <2> QED BY <2>3, <2>4 DEF Even
<1>2. ASSUME NEW s \in SUBSET ledger, NEW x \in ledger \ s, s \in B
      PROVE  s \cup {x} \in B
  <2>1. PICK t \in SUBSET ledger : t = s \cup {x}
    OBVIOUS
  <2>2. IsFiniteSet(s)
    BY FS_Subset
  <2>3. PICK b \in Balance : b = ExpenseBalance[x] /\ Even(b)
    BY ExpenseBalanceEven
  <2>4. ASSUME NEW p \in Participant
        PROVE  Total(Column(t, p), t) = Total(Column(s, p), s) + b[p]
    <3>1. \A y \in t : Column(t, p)[y] = ExpenseBalance[y][p] /\ ExpenseBalance[y][p] \in Int
      BY ColumnType
    <3>2. Total(Column(t, p), t) = Total(Column(t, p), s) + Column(t, p)[x]
      <4>1. \A y \in s \cup {x} : Column(t, p)[y] \in Int
        BY <2>1, <3>1
      <4> QED BY <2>1, <2>2, <4>1, TotalOneMore
    <3>3. Column(t, p)[x] = b[p]
      BY <2>1, <2>3, <3>1
    <3>4. Total(Column(t, p), s) = Total(Column(s, p), s)
      <4>1. \A y \in s : Column(t, p)[y] \in Int /\ Column(s, p)[y] \in Int /\ Column(t, p)[y] = Column(s, p)[y]
        BY <2>1, ColumnType DEF Column
      <4>2. /\ Total(Column(t, p), s) <= Total(Column(s, p), s)
            /\ Total(Column(t, p), s) \in Int /\ Total(Column(s, p), s) \in Int
        BY <2>2, <4>1, TotalMonotone
      <4>3. Total(Column(s, p), s) <= Total(Column(t, p), s)
        BY <2>2, <4>1, TotalMonotone
      <4> QED BY <4>2, <4>3
    <3> QED BY <3>2, <3>3, <3>4
  <2>5. PICK before \in Balance : before = sum(s) /\ Even(before)
    BY <1>2
  <2>6. PICK after : after = sum(t)
    OBVIOUS
  <2>7. \A p \in Participant : after[p] = before[p] + b[p]
    BY <2>4, <2>5, <2>6
  <2>8. after \in Balance
    BY <2>6, <2>7 DEF Balance
  <2> HIDE DEF sum
  <2>9. \A p \in Participant : before[p] \in Int /\ b[p] \in Int /\ after[p] = before[p] + 1 * b[p]
    BY <2>7 DEF Balance
  <2>10. Total(after, Participant) = Total(before, Participant) + 1 * Total(b, Participant)
    BY <2>9, ParticipantsFinite, TotalLinear
  <2>11. Total(after, Participant) = 0
    BY <2>3, <2>5, <2>10 DEF Even
  <2> QED BY <2>1, <2>6, <2>8, <2>11 DEF Even
<1> HIDE DEF sum, B
<1>3. \A s \in SUBSET ledger : s \in B
  BY <1>1, <1>2, SubsetInduction
<1>4. sum(ledger) \in Balance /\ Even(sum(ledger))
  BY <1>3 DEF B
<1> QED BY <1>4, LedgerTotal DEF sum

LEMMA ToSetFinite ==
  ASSUME NEW S, NEW s \in Seq(S)
  PROVE  /\ IsFiniteSet(ToSet(s)) /\ Cardinality(ToSet(s)) <= Len(s)
         /\ Cardinality(ToSet(s)) = Len(s) <=> IsInjective(s)
<1>1. PICK n \in Nat : n = Len(s) /\ DOMAIN s = 1..n
  OBVIOUS
<1>2. PICK T : T = ToSet(s)
  OBVIOUS
<1>3. s \in [1..n -> T] /\ \A x \in T : \E i \in 1..n : s[i] = x
  BY <1>1, <1>2 DEF ToSet
<1>4. s \in Surjection(1..n, T)
  BY <1>3 DEF Surjection
<1>5. IsFiniteSet(1..n) /\ Cardinality(1..n) = n
  BY IntervalCount
<1>6. /\ IsFiniteSet(T) /\ Cardinality(T) <= n
      /\ Cardinality(T) = n <=> s \in Injection(1..n, T)
  BY <1>4, <1>5, FS_Surjection
<1>7. s \in Injection(1..n, T) <=> IsInjective(s)
  BY <1>1, <1>3 DEF Injection, IsInjective
<1> QED BY <1>1, <1>2, <1>6, <1>7

\* What a ledger makes some owe, it makes others be owed.
THEOREM BalancesEven ==
  ASSUME NEW expenses \in Seq(Expense)
  PROVE  Balances(expenses) \in Balance /\ Even(Balances(expenses))
<1>1. ToSet(expenses) \in SUBSET Expense
  BY DEF ToSet
<1>2. IsFiniteSet(ToSet(expenses))
  BY ToSetFinite
<1> QED BY <1>1, <1>2, LedgerBalancesEven DEF Balances

-----------------------------------------------------------------------------
(* Rounding. *)

\* As many elements as one says are among that many first ones.
LEMMA RankCount ==
  ASSUME NEW P, IsFiniteSet(P), NEW ahead, IsOrder(ahead, P), NEW n \in Nat, n = Cardinality(P)
  PROVE  \A k \in 0..n : Total([x \in P |-> IF Cardinality(ahead[x]) < k THEN 1 ELSE 0], P) = k
<1>1. /\ \A x \in P : Cardinality(ahead[x]) \in 0..(n - 1)
      /\ \A x, y \in P : Cardinality(ahead[x]) = Cardinality(ahead[y]) => x = y
      /\ \A k \in 0..(n - 1) : \E x \in P : Cardinality(ahead[x]) = k
  BY RankExists
<1> DEFINE f(k) == [x \in P |-> IF Cardinality(ahead[x]) < k THEN 1 ELSE 0]
           B == {k \in Nat : k <= n => Total(f(k), P) = k}
<1>2. 0 \in B
  <2>1. \A x \in P : f(0)[x] = 0
    BY <1>1
  <2> HIDE DEF f
  <2> QED BY <2>1, TotalOfZero
<1>3. ASSUME NEW k \in Nat, k \in B
      PROVE  k + 1 \in B
  <2> SUFFICES ASSUME k + 1 <= n
               PROVE  Total(f(k + 1), P) = k + 1
    OBVIOUS
  <2>1. PICK x \in P : Cardinality(ahead[x]) = k
    BY <1>1
  <2>2. \A y \in P : y # x => Cardinality(ahead[y]) # k
    BY <1>1, <2>1
  <2>3. \A y \in P : f(k + 1)[y] = IF y = x THEN f(k)[y] - (-1) ELSE f(k)[y]
    BY <1>1, <2>1, <2>2
  <2>4. \A y \in P : f(k)[y] \in Int
    OBVIOUS
  <2> HIDE DEF f
  <2>5. Total(f(k + 1), P) = Total(f(k), P) - (-1)
    BY <2>3, <2>4, TotalLess
  <2> QED BY <1>3, <2>5
<1> HIDE DEF f, B
<1>4. \A k \in Nat : k \in B
  BY <1>2, <1>3, Induction
<1> QED BY <1>4 DEF B, f

Floors(b) == [p \in Participant |-> b[p] \div Unit]
Rests(b) == [p \in Participant |-> b[p] % Unit]
Spare(b) == -MapThenSumSet(LAMBDA p : Floors(b)[p], Participant)
Ahead(order, b) ==
  [p \in Participant |-> {q \in Participant : \/ Rests(b)[q] > Rests(b)[p]
                                              \/ Rests(b)[q] = Rests(b)[p] /\ order[q] < order[p]}]
Extra(order, b, k) == [p \in Participant |-> IF Cardinality(Ahead(order, b)[p]) < k THEN 1 ELSE 0]

LEMMA RoundBalancesIs ==
  ASSUME NEW order, NEW b
  PROVE  RoundBalances(order, b)
           = [p \in Participant |-> Unit * (Floors(b)[p] + Extra(order, b, Spare(b))[p])]
<1>1. PICK f, k, ahead : f = Floors(b) /\ k = Spare(b) /\ ahead = Ahead(order, b)
  OBVIOUS
<1>2. PICK more : more = {p \in Participant : Cardinality(ahead[p]) < k}
  OBVIOUS
<1>3. RoundBalances(order, b) = [p \in Participant |-> Unit * (f[p] + (IF p \in more THEN 1 ELSE 0))]
  BY <1>1, <1>2 DEF RoundBalances, Floors, Rests, Spare, Ahead
<1>4. \A p \in Participant : Extra(order, b, k)[p] = IF p \in more THEN 1 ELSE 0
  BY <1>1, <1>2 DEF Extra
<1> QED BY <1>1, <1>3, <1>4

LEMMA UnitType == Unit \in Nat \ {0}
BY SettlementAssumption

\* A balance is its whole units and its rest.
LEMMA FloorsAndRests ==
  ASSUME NEW b \in Balance
  PROVE  \A p \in Participant : /\ Floors(b)[p] \in Int /\ Rests(b)[p] \in 0..(Unit - 1)
                                /\ b[p] = Rests(b)[p] + Unit * Floors(b)[p]
<1> SUFFICES ASSUME NEW p \in Participant
             PROVE  /\ Floors(b)[p] \in Int /\ Rests(b)[p] \in 0..(Unit - 1)
                    /\ b[p] = Rests(b)[p] + Unit * Floors(b)[p]
  OBVIOUS
<1>1. b[p] \in Int
  BY DEF Balance
<1>2. PICK x : x = b[p]
  OBVIOUS
<1>3. x \div Unit \in Int /\ x % Unit \in 0..(Unit - 1) /\ x = Unit * (x \div Unit) + (x % Unit)
  BY <1>1, <1>2, UnitType, Divides, Zenon
<1>4. PICK d \in Int, m \in Int : d = x \div Unit /\ m = x % Unit
  BY <1>3, UnitType
<1>5. m \in 0..(Unit - 1) /\ x = Unit * d + m
  BY <1>3, <1>4
<1>6. Floors(b)[p] = d /\ Rests(b)[p] = m
  BY <1>2, <1>4 DEF Floors, Rests
<1>7. Unit * d \in Int
  BY UnitType
<1>8. x = m + Unit * d
  BY <1>5, <1>7
<1> QED BY <1>2, <1>5, <1>6, <1>8

\* The units that rounding down leaves over.
LEMMA SpareIs ==
  ASSUME NEW b \in Balance
  PROVE  Total(Floors(b), Participant) \in Int /\ Spare(b) = -Total(Floors(b), Participant)
<1>1. \A p \in Participant : Floors(b)[p] \in Int
  BY FloorsAndRests
<1>2. (CHOOSE w : SetFold(w, Participant, Floors(b)))[Participant] = Total(Floors(b), Participant)
  BY <1>1, ParticipantsFinite, SetFoldIsTotal
<1>3. MapThenSumSet(LAMBDA p : Floors(b)[p], Participant)
        = (CHOOSE w : SetFold(w, Participant, Floors(b)))[Participant]
  BY DEF MapThenSumSet, MapThenFoldSet, SetFold
<1>4. Total(Floors(b), Participant) \in Int
  BY <1>1, ParticipantsFinite, TotalMonotone
<1> QED BY <1>2, <1>3, <1>4 DEF Spare

LEMMA AheadIsOrder ==
  ASSUME NEW order \in Order, NEW b \in Balance
  PROVE  IsOrder(Ahead(order, b), Participant)
<1>1. \A p \in Participant : Rests(b)[p] \in Int /\ order[p] \in Int
  BY FloorsAndRests DEF Order
<1>2. \A p, q \in Participant : order[p] = order[q] => p = q
  BY DEF Order
<1>3. \A p, q \in Participant : q \in Ahead(order, b)[p] <=>
        \/ Rests(b)[q] > Rests(b)[p]
        \/ Rests(b)[q] = Rests(b)[p] /\ order[q] < order[p]
  BY DEF Ahead
<1>4. Ahead(order, b) \in [Participant -> SUBSET Participant]
  BY DEF Ahead
<1>5. \A p \in Participant : p \notin Ahead(order, b)[p]
  BY <1>1, <1>3
<1>6. ASSUME NEW p \in Participant, NEW q \in Participant, NEW r \in Participant,
             p \in Ahead(order, b)[q], q \in Ahead(order, b)[r]
      PROVE  p \in Ahead(order, b)[r]
  BY <1>1, <1>3, <1>6
<1>7. ASSUME NEW p \in Participant, NEW q \in Participant, p # q
      PROVE  p \in Ahead(order, b)[q] \/ q \in Ahead(order, b)[p]
  BY <1>1, <1>2, <1>3, <1>7
<1> QED BY <1>4, <1>5, <1>6, <1>7 DEF IsOrder

\* They go to as many people, one each.
LEMMA ExtraCount ==
  ASSUME NEW order \in Order, NEW b \in Balance, NEW n \in Nat, n = Cardinality(Participant)
  PROVE  /\ \A k \in 0..n : Total(Extra(order, b, k), Participant) = k
         /\ \A p \in Participant : Cardinality(Ahead(order, b)[p]) \in 0..(n - 1)
<1>1. \A k \in 0..n : Total([p \in Participant |-> IF Cardinality(Ahead(order, b)[p]) < k THEN 1 ELSE 0],
                           Participant) = k
  BY AheadIsOrder, ParticipantsFinite, RankCount
<1>2. \A p \in Participant : Cardinality(Ahead(order, b)[p]) \in 0..(n - 1)
  BY AheadIsOrder, ParticipantsFinite, RankExists
<1> QED BY <1>1, <1>2 DEF Extra

LEMMA AtLeast ==
  ASSUME NEW u \in Nat \ {0}, NEW x \in Int, NEW y \in Int, u * x <= u * y
  PROVE  x <= y
OBVIOUS

LEMMA AtLeastZero ==
  ASSUME NEW u \in Nat \ {0}, NEW x \in Int, 0 <= u * x
  PROVE  0 <= x
OBVIOUS

\* The remainders make up the missing units, and only those with one get more.
LEMMA SpareFits ==
  ASSUME NEW order \in Order, NEW b \in Balance, Even(b)
  PROVE  /\ Spare(b) \in 0..Cardinality(Participant)
         /\ \A p \in Participant : Rests(b)[p] = 0 => Extra(order, b, Spare(b))[p] = 0
<1>1. PICK n \in Nat : n = Cardinality(Participant)
  BY ParticipantsFinite, FS_CardinalityType
<1>2. PICK u \in Nat \ {0} : u = Unit
  BY UnitType
<1>3. PICK s \in Int : s = Spare(b) /\ Total(Floors(b), Participant) = -s
  BY SpareIs
<1>4. PICK f, r : f = Floors(b) /\ r = Rests(b)
  OBVIOUS
<1>5. \A p \in Participant : f[p] \in Int /\ r[p] \in Int /\ r[p] \in 0..(u - 1) /\ b[p] = r[p] + u * f[p]
  BY <1>2, <1>4, FloorsAndRests
<1>6. Total(b, Participant) = Total(r, Participant) + u * Total(f, Participant)
  BY <1>5, ParticipantsFinite, TotalLinear
<1>7. Total(r, Participant) = u * s
  <2>1. Total(r, Participant) \in Int
    BY <1>5, ParticipantsFinite, TotalMonotone
  <2>2. PICK x \in Int : x = Total(r, Participant)
    BY <2>1
  <2>3. 0 = x + u * (-s)
    BY <1>3, <1>4, <1>6, <2>2 DEF Even
  <2>4. u * (-s) = -(u * s) /\ u * s \in Int
    OBVIOUS
  <2> QED BY <2>2, <2>3, <2>4
<1>8. ASSUME NEW k \in 0..n,
             \A p \in Participant : Cardinality(Ahead(order, b)[p]) >= k => r[p] = 0
      PROVE  s <= k
  <2>1. PICK e : e = Extra(order, b, k)
    OBVIOUS
  <2>2. \A p \in Participant : e[p] = IF Cardinality(Ahead(order, b)[p]) < k THEN 1 ELSE 0
    BY <2>1 DEF Extra
  <2>3. Total(e, Participant) = k
    BY <1>1, <2>1, ExtraCount
  <2> DEFINE zero == [p \in Participant |-> 0]
             ue == [p \in Participant |-> u * e[p]]
  <2>4. \A p \in Participant : Cardinality(Ahead(order, b)[p]) \in Int
    BY <1>1, ExtraCount
  <2>5. \A p \in Participant : r[p] <= ue[p] /\ ue[p] \in Int /\ e[p] \in Int
    <3> SUFFICES ASSUME NEW p \in Participant PROVE r[p] <= ue[p] /\ ue[p] \in Int /\ e[p] \in Int
      OBVIOUS
    <3>1. CASE Cardinality(Ahead(order, b)[p]) < k
      <4>1. e[p] = 1
        BY <2>2, <3>1
      <4>2. ue[p] = u
        BY <4>1
      <4> QED BY <1>5, <4>1, <4>2
    <3>2. CASE ~(Cardinality(Ahead(order, b)[p]) < k)
      <4>1. e[p] = 0
        BY <2>2, <3>2
      <4>2. ue[p] = 0
        BY <4>1
      <4>3. r[p] = 0
        BY <1>8, <2>4, <3>2
      <4> QED BY <4>1, <4>2, <4>3
    <3> QED BY <3>1, <3>2
  <2>6. \A p \in Participant : zero[p] \in Int /\ e[p] \in Int /\ ue[p] = zero[p] + u * e[p]
    <3> SUFFICES ASSUME NEW p \in Participant
                 PROVE  zero[p] \in Int /\ e[p] \in Int /\ ue[p] = zero[p] + u * e[p]
      OBVIOUS
    <3>1. e[p] \in Int /\ u * e[p] \in Int
      BY <2>5
    <3> QED BY <3>1
  <2>7. \A p \in Participant : zero[p] = 0
    OBVIOUS
  <2> HIDE DEF zero, ue
  <2>8. Total(ue, Participant) = Total(zero, Participant) + u * Total(e, Participant)
    BY <2>6, ParticipantsFinite, TotalLinear
  <2>9. Total(zero, Participant) = 0
    BY <2>7, ParticipantsFinite, TotalOfZero
  <2>10. Total(r, Participant) <= Total(ue, Participant)
    BY <1>5, <2>5, ParticipantsFinite, TotalMonotone
  <2>11. Total(ue, Participant) = u * k
    <3>1. u * k \in Int
      OBVIOUS
    <3> QED BY <2>3, <2>8, <2>9, <3>1
  <2>12. u * s <= u * k
    BY <1>7, <2>10, <2>11
  <2> QED BY <2>12, AtLeast
<1>9. 0 <= s
  <2>1. \A p \in Participant : r[p] \in Nat
    BY <1>5
  <2>2. Total(r, Participant) \in Nat
    BY <2>1, ParticipantsFinite, TotalOfNaturals
  <2>3. 0 <= u * s
    BY <1>7, <2>2
  <2> QED BY <2>3, AtLeastZero
<1>10. s <= n
  <2>1. \A p \in Participant : Cardinality(Ahead(order, b)[p]) \in 0..(n - 1)
    BY <1>1, ExtraCount
  <2>2. n \in 0..n /\ \A p \in Participant : Cardinality(Ahead(order, b)[p]) >= n => r[p] = 0
    BY <2>1
  <2> QED BY <1>8, <2>2
<1>11. ASSUME NEW p \in Participant, r[p] = 0
       PROVE  Extra(order, b, s)[p] = 0
  <2>1. PICK k \in 0..(n - 1) : k = Cardinality(Ahead(order, b)[p])
    BY <1>1, ExtraCount
  <2>2. ASSUME NEW q \in Participant, Cardinality(Ahead(order, b)[q]) >= k
        PROVE  r[q] = 0
    <3> SUFFICES ASSUME r[q] # 0 PROVE FALSE
      OBVIOUS
    <3>1. r[q] > r[p]
      BY <1>5, <1>11
    <3>2. q \in Ahead(order, b)[p]
      BY <1>4, <3>1 DEF Ahead
    <3>3. IsOrder(Ahead(order, b), Participant)
      BY AheadIsOrder
    <3>4. Ahead(order, b)[q] \subseteq Ahead(order, b)[p] /\ q \notin Ahead(order, b)[q]
          /\ Ahead(order, b)[p] \subseteq Participant
      BY <3>2, <3>3 DEF IsOrder
    <3>5. IsFiniteSet(Ahead(order, b)[p])
      BY <3>4, ParticipantsFinite, FS_Subset
    <3>6. Cardinality(Ahead(order, b)[q]) # Cardinality(Ahead(order, b)[p])
          /\ Cardinality(Ahead(order, b)[q]) <= Cardinality(Ahead(order, b)[p])
      BY <3>2, <3>4, <3>5, FS_Subset
    <3>7. Cardinality(Ahead(order, b)[q]) \in Int
      BY <1>1, ExtraCount
    <3> QED BY <2>1, <2>2, <3>6, <3>7
  <2>3. k \in 0..n
    OBVIOUS
  <2>4. s <= k
    BY <1>8, <2>2, <2>3
  <2> QED BY <2>1, <2>4 DEF Extra
<1>12. s \in 0..n
  BY <1>9, <1>10
<1> QED BY <1>1, <1>3, <1>4, <1>11, <1>12

Near(b, c) == \A p \in Participant : b[p] - c[p] \in (1 - Unit)..(Unit - 1)

\* Rounded balances still add up, and each is less than a unit off.
THEOREM RoundBalancesEven ==
  ASSUME NEW order \in Order, NEW b \in Balance, Even(b)
  PROVE  /\ RoundBalances(order, b) \in Balance /\ Even(RoundBalances(order, b))
         /\ Near(RoundBalances(order, b), b)
<1>1. PICK u \in Nat \ {0} : u = Unit
  BY UnitType
<1>2. PICK f, r, s : f = Floors(b) /\ r = Rests(b) /\ s = Spare(b)
  OBVIOUS
<1>3. PICK e : e = Extra(order, b, s)
  OBVIOUS
<1>4. PICK c : c = RoundBalances(order, b)
  OBVIOUS
<1>5. c = [p \in Participant |-> u * (f[p] + e[p])]
  BY <1>1, <1>2, <1>3, <1>4, RoundBalancesIs
<1>6. \A p \in Participant : f[p] \in Int /\ r[p] \in 0..(u - 1) /\ b[p] = r[p] + u * f[p]
  BY <1>1, <1>2, FloorsAndRests
<1>7. \A p \in Participant : e[p] \in {0, 1} /\ e[p] \in Int
  BY <1>3 DEF Extra
<1>8. c \in Balance
  BY <1>5, <1>6, <1>7 DEF Balance
<1>9. Near(c, b)
  <2> SUFFICES ASSUME NEW p \in Participant PROVE c[p] - b[p] \in (1 - u)..(u - 1)
    BY <1>1 DEF Near
  <2>1. PICK x \in Int, y \in Int : x = f[p] /\ y = r[p]
    BY <1>6
  <2>2. y \in 0..(u - 1) /\ b[p] = y + u * x /\ u * x \in Int
    BY <1>6, <2>1
  <2>3. PICK w \in Int : w = u * x
    BY <2>2
  <2>4. CASE e[p] = 0
    <3>1. c[p] = u * (x + 0)
      BY <1>5, <2>1, <2>4
    <3>2. c[p] = w
      BY <2>1, <2>3, <3>1
    <3> QED BY <2>2, <2>3, <3>2
  <2>5. CASE e[p] = 1
    <3>1. c[p] = u * (x + 1)
      BY <1>5, <2>1, <2>5
    <3>2. u * (x + 1) = u * x + u
      OBVIOUS
    <3>3. y # 0
      BY <1>2, <1>3, <2>1, <2>5, SpareFits
    <3> QED BY <2>2, <2>3, <3>1, <3>2, <3>3
  <2> QED BY <1>7, <2>4, <2>5
<1>10. Even(c)
  <2>1. s \in 0..Cardinality(Participant) /\ Total(e, Participant) = s
    <3>1. Cardinality(Participant) \in Nat
      BY ParticipantsFinite, FS_CardinalityType
    <3>2. s \in 0..Cardinality(Participant)
      BY <1>2, SpareFits
    <3> QED BY <1>3, <3>1, <3>2, ExtraCount
  <2>2. Total(f, Participant) = -s /\ s \in Int
    <3>1. Total(f, Participant) \in Int /\ s = -Total(f, Participant)
      BY <1>2, SpareIs
    <3> QED BY <3>1
  <2> DEFINE g == [p \in Participant |-> f[p] + e[p]]
             zero == [p \in Participant |-> 0]
  <2>3. \A p \in Participant : f[p] \in Int /\ e[p] \in Int /\ g[p] = f[p] + 1 * e[p]
    BY <1>6, <1>7
  <2>4. \A p \in Participant : zero[p] \in Int /\ g[p] \in Int /\ c[p] = zero[p] + u * g[p]
    <3> SUFFICES ASSUME NEW p \in Participant
                 PROVE  zero[p] \in Int /\ g[p] \in Int /\ c[p] = zero[p] + u * g[p]
      OBVIOUS
    <3>1. g[p] \in Int
      BY <1>6, <1>7
    <3>2. c[p] = u * g[p]
      BY <1>5
    <3>3. u * g[p] \in Int
      BY <3>1
    <3> QED BY <3>1, <3>2, <3>3
  <2>5. \A p \in Participant : zero[p] = 0
    OBVIOUS
  <2> HIDE DEF g, zero
  <2>6. Total(g, Participant) = Total(f, Participant) + 1 * Total(e, Participant)
    BY <2>3, ParticipantsFinite, TotalLinear
  <2>7. Total(g, Participant) = 0
    BY <2>1, <2>2, <2>6
  <2>8. Total(c, Participant) = Total(zero, Participant) + u * Total(g, Participant)
    BY <2>4, ParticipantsFinite, TotalLinear
  <2>9. Total(zero, Participant) = 0
    BY <2>5, ParticipantsFinite, TotalOfZero
  <2>10. u * 0 = 0
    OBVIOUS
  <2> QED BY <2>7, <2>8, <2>9, <2>10 DEF Even
<1> QED BY <1>4, <1>8, <1>9, <1>10
-----------------------------------------------------------------------------
(* Preferred routes. *)

LEMMA OrderSeparates ==
  ASSUME NEW order \in Order, NEW b \in Balance
  PROVE  Separates(order, b)
BY DEF Order, Separates

\* Ordering routes by amount changes only their order.
LEMMA LargestFirstType ==
  ASSUME NEW routes \in Seq(New)
  PROVE  LargestFirst(routes) \in Seq(New)
<1>1. PICK n \in Nat : n = Len(routes) /\ DOMAIN routes = 1..n
  OBVIOUS
<1>2. \A i \in 1..n : routes[i] \in New /\ routes[i].amount \in Int
  BY <1>1 DEF New, Transfer
<1> DEFINE ahead == [i \in 1..n |-> {j \in 1..n :
                       \/ routes[j].amount > routes[i].amount
                       \/ routes[j].amount = routes[i].amount /\ j < i}]
<1>3. IsOrder(ahead, 1..n)
  <2>1. ahead \in [1..n -> SUBSET (1..n)]
    OBVIOUS
  <2>2. \A x \in 1..n : x \notin ahead[x]
    BY <1>2
  <2>3. \A x, y, z \in 1..n : x \in ahead[y] /\ y \in ahead[z] => x \in ahead[z]
    BY <1>2
  <2>4. \A x, y \in 1..n : x # y => x \in ahead[y] \/ y \in ahead[x]
    BY <1>2
  <2> HIDE DEF ahead
  <2> QED BY <2>1, <2>2, <2>3, <2>4 DEF IsOrder
<1>4. LargestFirst(routes) = [k \in DOMAIN InOrder(ahead) |-> routes[InOrder(ahead)[k]]]
  BY <1>1 DEF LargestFirst
<1> HIDE DEF ahead
<1>5. InOrder(ahead) \in Seq(1..n)
  BY <1>3, IntervalCount, InOrderLists DEF Listed
<1>6. PICK s \in Seq(1..n) : s = InOrder(ahead)
  BY <1>5
<1>7. LargestFirst(routes) = [k \in 1..Len(s) |-> routes[s[k]]]
  BY <1>4, <1>6
<1>8. \A k \in 1..Len(s) : s[k] \in 1..n /\ routes[s[k]] \in New
  BY <1>2
<1> QED BY <1>7, <1>8

LEMMA WholeUnits ==
  ASSUME NEW a \in Nat, NEW u \in Nat \ {0}
  PROVE  (a \div u) * u \in Nat
OBVIOUS

\* Transfers of nothing are dropped.
LEMMA InUnitsType ==
  ASSUME NEW rows \in Seq(New), NEW unit \in Nat \ {0}
  PROVE  InUnits(rows, unit) \in Seq(New)
<1>1. PICK n \in Nat : n = Len(rows) /\ DOMAIN rows = 1..n
  OBVIOUS
<1> DEFINE whole == [i \in 1..n |-> Fresh(rows[i].from, rows[i].to, (rows[i].amount \div unit) * unit)]
           places == {i \in 1..n : whole[i].amount > 0}
           All == {whole[i] : i \in 1..n}
<1>2. InUnits(rows, unit) = Among(whole, places)
  BY <1>1 DEF InUnits
<1>3. whole \in Seq(All) /\ Len(whole) = n
  <2>1. whole = [i \in 1..n |-> whole[i]] /\ \A i \in 1..n : whole[i] \in All
    OBVIOUS
  <2>2. PICK w, A : w = whole /\ A = All
    OBVIOUS
  <2>3. w = [i \in 1..n |-> w[i]] /\ \A i \in 1..n : w[i] \in A
    BY <2>1, <2>2
  <2> HIDE DEF whole, All
  <2>4. w \in Seq(A) /\ Len(w) = n
    BY <2>3, IsASeqRows
  <2> QED BY <2>2, <2>4
<1>4. ASSUME NEW i \in 1..n, whole[i].amount > 0
      PROVE  whole[i] \in New
  <2>1. PICK from, to, amount : from = rows[i].from /\ to = rows[i].to /\ amount = (rows[i].amount \div unit) * unit
    OBVIOUS
  <2>2. rows[i] \in New
    BY <1>1
  <2>3. from \in Participant /\ to \in Participant /\ from # to /\ rows[i].amount \in Nat
    BY <2>1, <2>2 DEF New, Transfer
  <2>4. amount \in Nat
    BY <2>1, <2>3, WholeUnits
  <2>5. whole[i] = Fresh(from, to, amount)
    BY <2>1
  <2>6. amount > 0
    BY <1>4, <2>5 DEF Fresh
  <2>7. amount \in Nat \ {0}
    BY <2>4, <2>6
  <2> QED BY <2>3, <2>5, <2>7, FreshIsNew
<1> HIDE DEF All
<1>5. PICK r : r = Among(whole, places)
  OBVIOUS
<1>6. r \in Seq(All) /\ Consists(r, whole, places)
  BY <1>3, <1>5, AmongElements
<1>7. \A k \in 1..Len(r) : \E i \in 1..n : i \in places /\ r[k] = whole[i]
  BY <1>3, <1>6 DEF Consists
<1>8. \A k \in 1..Len(r) : r[k] \in New
  BY <1>4, <1>7
<1>9. r \in Seq(New)
  BY <1>6, <1>8
<1> QED BY <1>2, <1>5, <1>9

LEMMA LowerType ==
  ASSUME NEW m \in Int, NEW n \in Int
  PROVE  /\ Lower(m, n) \in Int /\ Lower(m, n) <= m /\ Lower(m, n) <= n
         /\ m \in Nat /\ n \in Nat => Lower(m, n) \in Nat
         /\ m > 0 /\ n > 0 => Lower(m, n) \in Nat \ {0}
BY DEF Lower

-----------------------------------------------------------------------------
(* The maximum flow. *)

FlowStates(routes) == [left : [Participant -> Int], flow : [routes -> Nat]]
Wanted(s) == [p \in Participant |-> Positive(s.left[p])]

LEMMA DebtsFinite ==
  ASSUME NEW b \in Balance, NEW routes \in SUBSET Debts(b)
  PROVE  /\ IsFiniteSet(routes)
         /\ \A r \in routes : /\ r = <<r[1], r[2]>> /\ r[1] \in Participant /\ r[2] \in Participant
                              /\ b[r[1]] < 0 /\ b[r[2]] > 0
<1>1. IsFiniteSet(Participant \X Participant)
  BY ParticipantsFinite, FS_Product
<1>2. routes \subseteq Participant \X Participant
  BY DEF Debts
<1>3. \A r \in routes : /\ r = <<r[1], r[2]>> /\ r[1] \in Participant /\ r[2] \in Participant
                        /\ b[r[1]] < 0 /\ b[r[2]] > 0
  BY DEF Debts
<1> QED BY <1>1, <1>2, <1>3, FS_Subset

\* A path begins with somebody who still owes and ends with somebody still owed.
PathFrom(routes, s, path, k) ==
  /\ k \in Nat \ {0} /\ path \in [1..k -> routes] /\ Len(path) = k
  /\ s.left[path[1][1]] < 0 /\ s.left[path[k][2]] > 0
  /\ \A r \in Backs(path) : r \in routes /\ s.flow[r] > 0

LEMMA PathsAre ==
  ASSUME NEW routes, NEW s, NEW path \in Paths(routes, s)
  PROVE  \E k \in 1..(Cardinality(Participant) \div 2) : PathFrom(routes, s, path, k)
<1>1. PICK n \in Nat : n = Cardinality(Participant) \div 2
  <2>1. PICK c \in Nat : c = Cardinality(Participant)
    BY ParticipantsFinite, FS_CardinalityType
  <2>2. c \div 2 \in Nat
    OBVIOUS
  <2> QED BY <2>1, <2>2
<1>2. PICK k \in 1..n : path \in [1..k -> routes]
  BY <1>1 DEF Paths
<1>3. path \in Seq(routes) /\ Len(path) = k /\ k \in Nat \ {0}
  BY <1>2
<1>4. /\ s.left[path[1][1]] < 0 /\ s.left[path[k][2]] > 0
      /\ \A r \in Backs(path) : r \in routes /\ s.flow[r] > 0
  BY <1>3 DEF Paths
<1>5. PathFrom(routes, s, path, k)
  BY <1>2, <1>3, <1>4 DEF PathFrom
<1> QED BY <1>1, <1>5

\* What is sent along a path is at most what its ends and its used routes allow.
Sends(s, path, k, n) ==
  /\ n \in Nat \ {0} /\ n <= -s.left[path[1][1]] /\ n <= s.left[path[k][2]]
  /\ \A r \in Backs(path) : n <= s.flow[r]

LEMMA SendableIs ==
  ASSUME NEW b \in Balance, NEW routes \in SUBSET Debts(b), NEW s \in FlowStates(routes),
         NEW path, NEW k, PathFrom(routes, s, path, k)
  PROVE  Sends(s, path, k, Sendable(s, path))
<1>1. path[1] \in routes /\ path[k] \in routes /\ Len(path) = k
  BY DEF PathFrom
<1>2. PICK x, y : x = -s.left[path[1][1]] /\ y = s.left[path[k][2]]
  OBVIOUS
<1>3. x \in Nat \ {0} /\ y \in Nat \ {0}
  <2>1. path[1][1] \in Participant /\ path[k][2] \in Participant
    BY <1>1, DebtsFinite
  <2>2. s.left[path[1][1]] \in Int /\ s.left[path[k][2]] \in Int
    BY <2>1 DEF FlowStates
  <2> QED BY <1>2, <2>2 DEF PathFrom
<1>4. \A r \in Backs(path) : s.flow[r] \in Nat \ {0}
  BY DEF FlowStates, PathFrom
<1>5. PICK all : all = {x, y} \cup {s.flow[r] : r \in Backs(path)}
  OBVIOUS
<1>6. all \in SUBSET Nat /\ all # {} /\ \A n \in all : n \in Nat \ {0}
  BY <1>3, <1>4, <1>5
<1>7. Min(all) \in all /\ \A n \in all : Min(all) <= n
  BY <1>6, MinIsMember
<1>8. Sendable(s, path) = Min(all)
  BY <1>1, <1>2, <1>5 DEF Sendable
<1>9. x \in all /\ y \in all /\ \A r \in Backs(path) : s.flow[r] \in all
  BY <1>5
<1> QED BY <1>2, <1>6, <1>7, <1>8, <1>9 DEF Sends

\* Sending leaves a flow, and less to be received.
LEMMA SentEffect ==
  ASSUME NEW b \in Balance, NEW routes \in SUBSET Debts(b), NEW s \in FlowStates(routes),
         NEW path \in Paths(routes, s)
  PROVE  /\ Sent(s, path, Sendable(s, path)) \in FlowStates(routes)
         /\ Total(Wanted(Sent(s, path, Sendable(s, path))), Participant) < Total(Wanted(s), Participant)
         /\ Total(Wanted(s), Participant) \in Nat
<1>1. PICK k : PathFrom(routes, s, path, k)
  BY PathsAre
<1>2. PICK n \in Nat \ {0} : n = Sendable(s, path) /\ Sends(s, path, k, n)
  BY <1>1, SendableIs DEF Sends
<1>3. path[1] \in routes /\ path[k] \in routes /\ Len(path) = k
  BY <1>1 DEF PathFrom
<1>4. PICK from \in Participant, to \in Participant : from = path[1][1] /\ to = path[k][2]
  BY <1>3, DebtsFinite
<1>5. PICK left, flow : left = s.left /\ flow = s.flow
  OBVIOUS
<1>6. left \in Balance /\ flow \in [routes -> Nat]
  BY <1>5 DEF FlowStates, Balance
<1>7. /\ left[from] \in Int /\ left[to] \in Int /\ left[from] < 0 /\ left[to] > 0 /\ from # to
      /\ n <= -left[from] /\ n <= left[to]
  <2>1. left[from] \in Int /\ left[to] \in Int
    BY <1>6 DEF Balance
  <2>2. left[from] < 0 /\ left[to] > 0
    BY <1>1, <1>4, <1>5 DEF PathFrom
  <2>3. n <= -left[from] /\ n <= left[to]
    BY <1>2, <1>4, <1>5 DEF Sends
  <2> QED BY <2>1, <2>2, <2>3
<1>8. PICK t : t = Sent(s, path, n)
  OBVIOUS
<1>9. t.left = [left EXCEPT ![from] = @ + n, ![to] = @ - n]
  BY <1>3, <1>4, <1>5, <1>8 DEF Sent
<1>10. t.flow = [r \in routes |-> flow[r] + (IF r \in ToSet(path) THEN n ELSE 0)
                                          - (IF r \in Backs(path) THEN n ELSE 0)]
  BY <1>5, <1>6, <1>8 DEF Sent
<1>11. t = [left |-> t.left, flow |-> t.flow]
  BY <1>8 DEF Sent
<1>12. \A p \in Participant : /\ left[p] \in Int
                              /\ t.left[p] = left[p] + (IF p = from THEN n ELSE IF p = to THEN -n ELSE 0)
  BY <1>6, <1>7, <1>9 DEF Balance
<1>13. t.left \in [Participant -> Int]
  BY <1>6, <1>9, <1>12 DEF Balance
<1>14. t.flow \in [routes -> Nat]
  <2> SUFFICES ASSUME NEW r \in routes
               PROVE  flow[r] + (IF r \in ToSet(path) THEN n ELSE 0)
                              - (IF r \in Backs(path) THEN n ELSE 0) \in Nat
    BY <1>10
  <2>1. flow[r] \in Nat
    BY <1>6
  <2>2. CASE r \in Backs(path)
    <3>1. n <= flow[r]
      BY <1>2, <1>5, <2>2 DEF Sends
    <3> QED BY <2>1, <2>2, <3>1
  <2>3. CASE r \notin Backs(path)
    BY <2>1, <2>3
  <2> QED BY <2>2, <2>3
<1>15. t \in FlowStates(routes)
  BY <1>11, <1>13, <1>14 DEF FlowStates
<1>16. PICK f, g : f = Wanted(s) /\ g = Wanted(t)
  OBVIOUS
<1>17. \A p \in Participant : f[p] = Positive(left[p]) /\ g[p] = Positive(t.left[p])
  BY <1>5, <1>16 DEF Wanted
<1>18. \A p \in Participant : f[p] \in Nat
  BY <1>12, <1>17 DEF Positive
<1>19. \A p \in Participant : g[p] = IF p = to THEN f[p] - n ELSE f[p]
  <2> SUFFICES ASSUME NEW p \in Participant
               PROVE  g[p] = IF p = to THEN f[p] - n ELSE f[p]
    OBVIOUS
  <2>1. PICK i \in Int, j \in Int : i = left[p] /\ j = t.left[p]
    BY <1>12, <1>13
  <2>2. f[p] = Positive(i) /\ g[p] = Positive(j)
    BY <1>17, <2>1
  <2>3. CASE p = to
    <3>1. j = i - n /\ i >= n /\ i > 0
      BY <1>7, <1>12, <2>1, <2>3
    <3> QED BY <2>2, <2>3, <3>1 DEF Positive
  <2>4. CASE p = from
    <3>1. j = i + n /\ i + n <= 0 /\ i < 0
      BY <1>7, <1>12, <2>1, <2>4
    <3> QED BY <1>7, <2>2, <2>4, <3>1 DEF Positive
  <2>5. CASE p # from /\ p # to
    <3>1. i = j
      BY <1>12, <2>1, <2>5
    <3> QED BY <2>2, <2>5, <3>1
  <2> QED BY <2>3, <2>4, <2>5
<1>20. Total(g, Participant) = Total(f, Participant) - n
  BY <1>18, <1>19, ParticipantsFinite, TotalLess
<1>21. Total(f, Participant) \in Nat
  BY <1>18, ParticipantsFinite, TotalOfNaturals
<1> QED BY <1>2, <1>8, <1>15, <1>16, <1>20, <1>21

\* The list orders the routes, and the routes of a path order the paths.
LEMMA RoutesOrdered ==
  ASSUME NEW order \in Order, NEW b \in Balance, NEW routes \in SUBSET Debts(b)
  PROVE  /\ \A x \in routes : ~RouteBefore(order, x, x)
         /\ \A x, y, z \in routes :
              RouteBefore(order, x, y) /\ RouteBefore(order, y, z) => RouteBefore(order, x, z)
         /\ \A x, y \in routes : x # y => RouteBefore(order, x, y) \/ RouteBefore(order, y, x)
<1>1. \A x \in routes : /\ x = <<x[1], x[2]>> /\ x[1] \in Participant /\ x[2] \in Participant
                        /\ order[x[1]] \in Int /\ order[x[2]] \in Int
  BY DebtsFinite DEF Order
<1>2. \A p, q \in Participant : order[p] = order[q] => p = q
  BY DEF Order
<1>3. \A x \in routes : ~RouteBefore(order, x, x)
  BY <1>1 DEF RouteBefore
<1>4. ASSUME NEW x \in routes, NEW y \in routes, NEW z \in routes,
             RouteBefore(order, x, y), RouteBefore(order, y, z)
      PROVE  RouteBefore(order, x, z)
  BY <1>1, <1>4 DEF RouteBefore
<1>5. ASSUME NEW x \in routes, NEW y \in routes, x # y
      PROVE  RouteBefore(order, x, y) \/ RouteBefore(order, y, x)
  <2>1. x[1] # y[1] \/ x[2] # y[2]
    BY <1>1, <1>5
  <2>2. CASE x[1] # y[1]
    <3>1. order[x[1]] # order[y[1]]
      BY <1>1, <1>2, <2>2
    <3> QED BY <1>1, <3>1 DEF RouteBefore
  <2>3. CASE x[1] = y[1]
    <3>1. order[x[2]] # order[y[2]]
      BY <1>1, <1>2, <2>1, <2>3
    <3> QED BY <1>1, <2>3, <3>1 DEF RouteBefore
  <2> QED BY <2>2, <2>3
<1> QED BY <1>3, <1>4, <1>5

LEMMA PathsOrdered ==
  ASSUME NEW order \in Order, NEW b \in Balance, NEW routes \in SUBSET Debts(b), NEW s
  PROVE  /\ \A x \in Paths(routes, s) : ~PathBefore(order, x, x)
         /\ \A x, y, z \in Paths(routes, s) :
              PathBefore(order, x, y) /\ PathBefore(order, y, z) => PathBefore(order, x, z)
<1>1. \A x \in Paths(routes, s) : /\ Len(x) \in Nat /\ DOMAIN x = 1..Len(x)
                                  /\ \A i \in 1..Len(x) : x[i] \in routes
  <2> SUFFICES ASSUME NEW x \in Paths(routes, s)
               PROVE  /\ Len(x) \in Nat /\ DOMAIN x = 1..Len(x)
                      /\ \A i \in 1..Len(x) : x[i] \in routes
    OBVIOUS
  <2>1. PICK k : PathFrom(routes, s, x, k)
    BY PathsAre
  <2> QED BY <2>1 DEF PathFrom
<1>2. ASSUME NEW x \in Paths(routes, s), PathBefore(order, x, x)
      PROVE  FALSE
  <2>1. PICK i \in 1..Len(x) : RouteBefore(order, x[i], x[i])
    BY <1>1, <1>2 DEF PathBefore
  <2> QED BY <1>1, <2>1, RoutesOrdered
<1>3. ASSUME NEW x \in Paths(routes, s), NEW y \in Paths(routes, s), NEW z \in Paths(routes, s),
             PathBefore(order, x, y), PathBefore(order, y, z)
      PROVE  PathBefore(order, x, z)
  <2>1. Len(x) \in Nat /\ Len(y) \in Nat /\ Len(z) \in Nat /\ Len(x) <= Len(y) /\ Len(y) <= Len(z)
    BY <1>1, <1>3 DEF PathBefore
  <2>2. CASE Len(x) < Len(y) \/ Len(y) < Len(z)
    <3>1. Len(x) < Len(z)
      BY <2>1, <2>2
    <3> QED BY <3>1 DEF PathBefore
  <2>3. CASE ~(Len(x) < Len(y) \/ Len(y) < Len(z))
    <3>1. PICK n \in Nat : n = Len(x) /\ n = Len(y) /\ n = Len(z)
      BY <2>1, <2>3
    <3>2. DOMAIN x = 1..n /\ DOMAIN y = 1..n
      BY <1>1, <3>1
    <3>3. PICK i \in 1..n : RouteBefore(order, x[i], y[i]) /\ \A l \in 1..(i - 1) : x[l] = y[l]
      BY <1>3, <2>3, <3>2 DEF PathBefore
    <3>4. PICK j \in 1..n : RouteBefore(order, y[j], z[j]) /\ \A l \in 1..(j - 1) : y[l] = z[l]
      BY <1>3, <2>3, <3>2 DEF PathBefore
    <3>5. \A l \in 1..n : x[l] \in routes /\ y[l] \in routes /\ z[l] \in routes
      BY <1>1, <3>1
    <3>6. ASSUME NEW l \in 1..n, RouteBefore(order, x[l], z[l]), \A h \in 1..(l - 1) : x[h] = z[h]
          PROVE  PathBefore(order, x, z)
      BY <3>1, <3>2, <3>6 DEF PathBefore
    <3>7. CASE i < j
      <4>1. i \in 1..(j - 1) /\ y[i] = z[i]
        BY <3>4, <3>7
      <4>2. RouteBefore(order, x[i], z[i])
        BY <3>3, <4>1
      <4>3. \A h \in 1..(i - 1) : h \in 1..(j - 1) /\ x[h] = z[h]
        BY <3>3, <3>4, <3>7
      <4> QED BY <3>6, <4>2, <4>3
    <3>8. CASE j < i
      <4>1. j \in 1..(i - 1) /\ x[j] = y[j]
        BY <3>3, <3>8
      <4>2. RouteBefore(order, x[j], z[j])
        BY <3>4, <4>1
      <4>3. \A h \in 1..(j - 1) : h \in 1..(i - 1) /\ x[h] = z[h]
        BY <3>3, <3>4, <3>8
      <4> QED BY <3>6, <4>2, <4>3
    <3>9. CASE i = j
      <4>1. RouteBefore(order, x[i], z[i])
        BY <3>3, <3>4, <3>5, <3>9, RoutesOrdered
      <4>2. \A h \in 1..(i - 1) : x[h] = z[h]
        BY <3>3, <3>4, <3>9
      <4> QED BY <3>6, <4>1, <4>2
    <3> QED BY <3>7, <3>8, <3>9
  <2> QED BY <2>2, <2>3
<1> QED BY <1>2, <1>3

\* When there is a path there is a first one.
LEMMA FirstPathExists ==
  ASSUME NEW order \in Order, NEW b \in Balance, NEW routes \in SUBSET Debts(b), NEW s,
         Paths(routes, s) # {}
  PROVE  FirstPath(order, Paths(routes, s)) \in Paths(routes, s)
<1>1. PICK paths : paths = Paths(routes, s)
  OBVIOUS
<1>2. IsFiniteSet(paths)
  <2>1. PICK n \in Nat : n = Cardinality(Participant) \div 2
    <3>1. PICK c \in Nat : c = Cardinality(Participant)
      BY ParticipantsFinite, FS_CardinalityType
    <3>2. c \div 2 \in Nat
      OBVIOUS
    <3> QED BY <3>1, <3>2
  <2>2. \A path \in paths : \E k \in 1..n : path \in [1..k -> routes]
    BY <1>1, <2>1 DEF Paths
  <2>3. IsFiniteSet(routes)
    BY DebtsFinite
  <2> QED BY <2>2, <2>3, ListsFinite
<1>3. PICK R : R = {pair \in paths \X paths : PathBefore(order, pair[1], pair[2])}
  OBVIOUS
<1>4. \A x, y \in paths : <<x, y>> \in R <=> PathBefore(order, x, y)
  BY <1>3
<1>5. /\ \A x \in paths : ~PathBefore(order, x, x)
      /\ \A x, y, z \in paths : PathBefore(order, x, y) /\ PathBefore(order, y, z) => PathBefore(order, x, z)
  BY <1>1, PathsOrdered
<1>6. /\ \A x \in paths : <<x, x>> \notin R
      /\ \A x, y, z \in paths : <<x, y>> \in R /\ <<y, z>> \in R => <<x, z>> \in R
  BY <1>4, <1>5
<1>7. \E one \in paths : \A two \in paths : <<two, one>> \notin R
  BY <1>1, <1>2, <1>6, FirstExists
<1>8. \E one \in paths : \A two \in paths : ~PathBefore(order, two, one)
  BY <1>4, <1>7
<1> QED BY <1>1, <1>8 DEF FirstPath

\* The maximum flow exists: sending ends, for there is less to be received each time.
LEMMA MaximumFlowType ==
  ASSUME NEW order \in Order, NEW b \in Balance, NEW routes \in SUBSET Debts(b)
  PROVE  MaximumFlow(order, b, routes) \in [routes -> Nat]
<1> DEFINE D == FlowStates(routes)
           Then(s) == Sent(s, FirstPath(order, Paths(routes, s)),
                           Sendable(s, FirstPath(order, Paths(routes, s))))
<1>1. PICK Y : Y = [routes -> Nat]
  OBVIOUS
<1>2. PICK stop : stop = {s \in D : Paths(routes, s) = {}}
  OBVIOUS
<1>3. PICK next : next = [s \in D |-> IF s \in stop THEN s ELSE Then(s)]
  OBVIOUS
<1>4. PICK m : m = [s \in D |-> Total(Wanted(s), Participant)]
  OBVIOUS
<1>5. PICK base : base = [s \in D |-> s.flow]
  OBVIOUS
<1>6. PICK step : step = [s \in D |-> [y \in Y |-> y]]
  OBVIOUS
<1>7. ASSUME NEW s \in D, s \notin stop
      PROVE  Then(s) \in D /\ m[Then(s)] < m[s]
  <2>1. PICK path \in Paths(routes, s) : path = FirstPath(order, Paths(routes, s))
    BY <1>2, <1>7, FirstPathExists
  <2>2. PICK t : t = Sent(s, path, Sendable(s, path))
    OBVIOUS
  <2>3. t \in D /\ Total(Wanted(t), Participant) < Total(Wanted(s), Participant)
    BY <2>2, SentEffect
  <2> QED BY <1>4, <2>1, <2>2, <2>3
<1>8. ASSUME NEW s \in D
      PROVE  Total(Wanted(s), Participant) \in Nat
  <2>1. \A p \in Participant : Wanted(s)[p] \in Nat
    BY DEF Wanted, Positive, FlowStates
  <2> QED BY <2>1, ParticipantsFinite, TotalOfNaturals
<1>9. m \in [D -> Nat]
  BY <1>4, <1>8
<1>10. next \in [D -> D] /\ \A s \in D \ stop : m[next[s]] < m[s]
  BY <1>3, <1>7
<1>11. base \in [D -> Y] /\ step \in [D -> [Y -> Y]]
  BY <1>1, <1>5, <1>6 DEF FlowStates
<1>12. stop \subseteq D
  BY <1>2
<1> DEFINE Eq(f) == f = [s \in D |-> IF Paths(routes, s) = {} THEN s.flow ELSE f[Then(s)]]
           final == CHOOSE f : Eq(f)
<1>13. \A s \in D : s \in stop <=> Paths(routes, s) = {}
  BY <1>2
<1> HIDE DEF D, Then
<1>14. Descends(D, Y, m, stop, next, base, step)
  BY <1>9, <1>10, <1>11, <1>12 DEF Descends
<1>15. PICK f : Solves(f, D, Y, stop, next, base, step)
  BY <1>14, Recursion
<1>16. Eq(f)
  <2>1. f \in [D -> Y] /\ \A s \in D : f[s] = IF s \in stop THEN base[s] ELSE step[s][f[next[s]]]
    BY <1>15 DEF Solves
  <2>2. \A s \in D : f[s] = IF s \in stop THEN s.flow ELSE f[Then(s)]
    BY <1>3, <1>5, <1>6, <1>10, <2>1
  <2> QED BY <1>13, <2>1, <2>2
<1>17. Eq(final)
  BY <1>16
<1>18. PICK s0 : s0 = [left |-> [p \in Participant |-> b[p]], flow |-> [r \in routes |-> 0]]
  OBVIOUS
<1>19. s0 \in D
  BY <1>18 DEF D, FlowStates, Balance
<1>20. MaximumFlow(order, b, routes) = final[s0]
  BY <1>18 DEF MaximumFlow, SentAlong, D, FlowStates, Then
<1> HIDE DEF final
<1> DEFINE B == {n \in Nat : \A s \in D : m[s] <= n => final[s] \in Y}
<1>21. \A s \in D : final[s] = IF s \in stop THEN base[s] ELSE final[next[s]]
  BY <1>3, <1>5, <1>13, <1>17
<1>22. 0 \in B
  <2> SUFFICES ASSUME NEW s \in D, m[s] <= 0
               PROVE  final[s] \in Y
    OBVIOUS
  <2>1. s \in stop
    BY <1>9, <1>10
  <2> QED BY <1>11, <1>21, <2>1
<1>23. ASSUME NEW n \in Nat, n \in B
       PROVE  n + 1 \in B
  <2> SUFFICES ASSUME NEW s \in D, m[s] <= n + 1
               PROVE  final[s] \in Y
    OBVIOUS
  <2>1. CASE s \in stop
    BY <1>11, <1>21, <2>1
  <2>2. CASE s \notin stop
    <3>1. next[s] \in D /\ m[next[s]] <= n
      BY <1>9, <1>10, <2>2
    <3> QED BY <1>21, <1>23, <2>2, <3>1
  <2> QED BY <2>1, <2>2
<1> HIDE DEF B
<1>24. \A n \in Nat : n \in B
  BY <1>22, <1>23, Induction
<1>25. final[s0] \in Y
  <2>1. m[s0] \in Nat /\ m[s0] <= m[s0]
    BY <1>9, <1>19
  <2> QED BY <1>19, <1>24, <2>1 DEF B
<1> QED BY <1>1, <1>20, <1>25

\* The flow consists of new transfers between debtors and creditors.
LEMMA FlowType ==
  ASSUME NEW order \in Order, NEW b \in Balance, NEW routes \in SUBSET Debts(b)
  PROVE  Flow(order, b, routes) \in Seq(New)
<1>1. PICK flow \in [routes -> Nat] : flow = MaximumFlow(order, b, routes)
  BY MaximumFlowType
<1>2. PICK used : used = {r \in DOMAIN flow : flow[r] > 0}
  OBVIOUS
<1>3. used \in SUBSET Debts(b) /\ used \in SUBSET routes
  BY <1>2
<1> DEFINE ahead == [x \in used |-> {y \in used : RouteBefore(order, y, x)}]
<1>4. IsOrder(ahead, used)
  <2>1. ahead \in [used -> SUBSET used]
    OBVIOUS
  <2>2. \A x, y \in used : y \in ahead[x] <=> RouteBefore(order, y, x)
    OBVIOUS
  <2> HIDE DEF ahead
  <2>3. /\ \A x \in used : ~RouteBefore(order, x, x)
        /\ \A x, y, z \in used :
             RouteBefore(order, x, y) /\ RouteBefore(order, y, z) => RouteBefore(order, x, z)
        /\ \A x, y \in used : x # y => RouteBefore(order, x, y) \/ RouteBefore(order, y, x)
    BY <1>3, RoutesOrdered
  <2>4. /\ \A x \in used : x \notin ahead[x]
        /\ \A x, y, z \in used : x \in ahead[y] /\ y \in ahead[z] => x \in ahead[z]
        /\ \A x, y \in used : x # y => x \in ahead[y] \/ y \in ahead[x]
    BY <2>2, <2>3
  <2> QED BY <2>1, <2>4 DEF IsOrder
<1>5. Flow(order, b, routes) =
        [k \in DOMAIN InOrder(ahead) |->
           Fresh(InOrder(ahead)[k][1], InOrder(ahead)[k][2], flow[InOrder(ahead)[k]])]
  BY <1>1, <1>2 DEF Flow, Used
<1> HIDE DEF ahead
<1>6. PICK s : s = InOrder(ahead)
  OBVIOUS
<1>7. s \in Seq(used)
  <2>1. IsFiniteSet(used)
    BY <1>3, DebtsFinite
  <2> QED BY <1>4, <1>6, <2>1, InOrderLists DEF Listed
<1>8. Flow(order, b, routes) = [k \in 1..Len(s) |-> Fresh(s[k][1], s[k][2], flow[s[k]])]
  BY <1>5, <1>6, <1>7
<1>9. ASSUME NEW k \in 1..Len(s)
      PROVE  Fresh(s[k][1], s[k][2], flow[s[k]]) \in New
  <2>1. PICK from, to, n : from = s[k][1] /\ to = s[k][2] /\ n = flow[s[k]]
    OBVIOUS
  <2>2. s[k] \in used
    BY <1>7
  <2>3. from \in Participant /\ to \in Participant /\ b[from] < 0 /\ b[to] > 0
    BY <1>3, <2>1, <2>2, DebtsFinite
  <2>4. b[from] \in Int /\ b[to] \in Int
    BY <2>3 DEF Balance
  <2>5. from # to
    BY <2>3, <2>4
  <2>6. n \in Nat \ {0}
    BY <1>2, <2>1, <2>2
  <2> QED BY <2>1, <2>3, <2>5, <2>6, FreshIsNew
<1> QED BY <1>8, <1>9

-----------------------------------------------------------------------------
(* Keeping to the previous routes. *)

Keepings(balance) == {s \in [left : Balance, rows : Seq(New)] : s.left = After(balance, s.rows)}

Keep(s, t, blocked) ==
  LET amount == Lower(t.amount, Lower(Positive(-s.left[t.from]), Positive(s.left[t.to])))
  IN IF Route(t) \in blocked \/ amount = 0 THEN s
     ELSE [left |-> [s.left EXCEPT ![t.from] = @ + amount, ![t.to] = @ - amount],
           rows |-> Append(s.rows, Fresh(t.from, t.to, amount))]

LEMMA PositiveType ==
  ASSUME NEW n \in Int
  PROVE  Positive(n) \in Nat
BY DEF Positive

\* Keeping a part of a previous transfer leaves the rest to be planned.
LEMMA KeepEffect ==
  ASSUME NEW balance \in Balance, NEW blocked, NEW s \in Keepings(balance), NEW t \in Transfer
  PROVE  Keep(s, t, blocked) \in Keepings(balance)
<1>1. PICK left \in Balance, rows \in Seq(New) : left = s.left /\ rows = s.rows /\ left = After(balance, rows)
  BY DEF Keepings
<1>2. t.from \in Participant /\ t.to \in Participant /\ t.from # t.to /\ t.amount \in Nat
  BY DEF Transfer
<1>3. PICK n : n = Lower(t.amount, Lower(Positive(-left[t.from]), Positive(left[t.to])))
  OBVIOUS
<1>4. n \in Nat
  <2>1. left[t.from] \in Int /\ left[t.to] \in Int /\ -left[t.from] \in Int
    BY <1>2 DEF Balance
  <2>2. PICK i \in Nat, j \in Nat : i = Positive(-left[t.from]) /\ j = Positive(left[t.to])
    BY <2>1, PositiveType
  <2>3. PICK k \in Nat : k = Lower(i, j)
    BY DEF Lower
  <2>4. Lower(t.amount, k) \in Nat
    BY <1>2 DEF Lower
  <2> QED BY <1>3, <2>2, <2>3, <2>4
<1>5. CASE Route(t) \in blocked \/ n = 0
  BY <1>1, <1>3, <1>5 DEF Keep
<1>6. CASE ~(Route(t) \in blocked \/ n = 0)
  <2>1. PICK x : x = Fresh(t.from, t.to, n)
    OBVIOUS
  <2>2. x \in New /\ x.from = t.from /\ x.to = t.to /\ x.amount = n
    BY <1>2, <1>4, <1>6, <2>1, FreshIsNew
  <2>3. Keep(s, t, blocked) = [left |-> [left EXCEPT ![t.from] = @ + n, ![t.to] = @ - n],
                               rows |-> Append(rows, x)]
    BY <1>1, <1>3, <1>6, <2>1 DEF Keep
  <2>4. [left EXCEPT ![t.from] = @ + n, ![t.to] = @ - n] = Moved(left, x)
    BY <2>2 DEF Moved
  <2>5. x \in Transfer /\ rows \in Seq(Transfer)
    BY <2>2, NewIsTransfer
  <2>6. Moved(left, x) \in Balance
    BY <2>5, MovedType
  <2>7. Moved(left, x) = After(balance, Append(rows, x))
    BY <1>1, <2>5, AfterFold
  <2>8. Append(rows, x) \in Seq(New)
    BY <2>2, AppendProperties
  <2>9. PICK moved \in Balance, more \in Seq(New) :
           moved = Moved(left, x) /\ more = Append(rows, x) /\ moved = After(balance, more)
    BY <2>6, <2>7, <2>8
  <2>10. [left |-> moved, rows |-> more] \in Keepings(balance)
    BY <2>9 DEF Keepings
  <2> QED BY <2>3, <2>4, <2>9, <2>10
<1> QED BY <1>5, <1>6

LEMMA KeptType ==
  ASSUME NEW balance \in Balance, NEW blocked
  PROVE  \A previous \in Seq(Transfer) : Kept(balance, blocked, previous) \in Keepings(balance)
<1> DEFINE first == [left |-> balance, rows |-> <<>>]
<1>9. PICK Y : Y = Keepings(balance)
  OBVIOUS
<1>0. first \in Y
  BY <1>9, EmptySeq, AfterFold DEF Keepings
<1> HIDE DEF first
<1> DEFINE step == [t \in Transfer |-> [y \in Y |-> Keep(y, t, blocked)]]
           F == [rows \in Seq(Transfer) |-> Kept(balance, blocked, rows)]
<1>1. Acts(step, Transfer, Y)
  BY <1>9, KeepEffect DEF Acts
<1>2. ASSUME NEW rows \in Seq(Transfer)
      PROVE  \E f : /\ Unfolds(f, Y, Len(rows), first, StepsOf(step, rows))
                    /\ F[rows] = f[1..Len(rows)]
  <2> DEFINE Eq(f) == f = [s \in SUBSET DOMAIN rows |->
                             IF s = {} THEN first ELSE Keep(f[s \ {Max(s)}], rows[Max(s)], blocked)]
             fold == CHOOSE f : Eq(f)
  <2>1. PICK n \in Nat : n = Len(rows) /\ DOMAIN rows = 1..n
    OBVIOUS
  <2>2. PICK go : go = StepsOf(step, rows)
    OBVIOUS
  <2>3. Steps(go, Y, n)
    BY <1>1, <2>1, <2>2, StepsOfActs
  <2>4. \A k \in 1..n, y \in Y : go[k][y] = Keep(y, rows[k], blocked)
    BY <2>1, <2>2 DEF StepsOf
  <2>5. \A s \in SUBSET (1..n) : s # {} => Max(s) \in 1..n /\ s \ {Max(s)} \in SUBSET (1..n)
    BY MaxIsMember
  <2> HIDE DEF step, F
  <2>6. PICK f : Folds(f, Y, n, first, go)
    BY <1>0, <2>3, FoldExists
  <2>7. Eq(f)
    BY <2>1, <2>4, <2>5, <2>6 DEF Folds
  <2>8. Eq(fold)
    BY <2>7
  <2>9. F[rows] = fold[DOMAIN rows]
    BY DEF F, Kept, Keep, first, FoldLeft, MapThenFoldSet
  <2> HIDE DEF fold
  <2>10. Unfolds(fold, Y, n, first, go)
    <3>1. fold[{}] = first
      BY <2>8
    <3>2. ASSUME NEW s \in SUBSET (1..n), s # {}, fold[s \ {Max(s)}] \in Y
          PROVE  fold[s] = go[Max(s)][fold[s \ {Max(s)}]]
      <4>1. fold[s] = Keep(fold[s \ {Max(s)}], rows[Max(s)], blocked)
        BY <2>1, <2>8, <3>2
      <4>2. Max(s) \in 1..n
        BY <2>5, <3>2
      <4> QED BY <2>4, <3>2, <4>1, <4>2
    <3> QED BY <3>1, <3>2 DEF Unfolds
  <2> QED BY <2>1, <2>2, <2>9, <2>10
<1>3. Fits(F, Transfer, Y, first, step)
  BY <1>2 DEF Fits
<1> HIDE DEF step, F
<1>4. IsFold(F, Transfer, Y, first, step)
  BY <1>0, <1>1, <1>3, FoldLaw
<1> QED BY <1>4, <1>9 DEF IsFold, F
-----------------------------------------------------------------------------
(* Groups that settle among themselves. *)

SumOf(b, g) == MapThenSumSet(LAMBDA p : b[p], g)

\* The balances of a group alone.
LEMMA WithinType ==
  ASSUME NEW b \in Balance, NEW g \in SUBSET Participant
  PROVE  /\ Within(b, g) \in Balance
         /\ \A p \in Participant : Within(b, g)[p] = IF p \in g THEN b[p] ELSE 0
         /\ Total(Within(b, g), Participant) = Total(b, g)
         /\ SumOf(b, g) = Total(b, g)
<1>1. \A p \in Participant : b[p] \in Int
  BY DEF Balance
<1>2. PICK w : w = Within(b, g)
  OBVIOUS
<1>3. w \in Balance /\ \A p \in Participant : w[p] \in Int /\ w[p] = IF p \in g THEN b[p] ELSE 0
  BY <1>1, <1>2 DEF Within, Balance
<1>4. IsFiniteSet(g)
  BY ParticipantsFinite, FS_Subset
<1>5. Total(w, Participant) = Total(w, g)
  BY <1>3, ParticipantsFinite, TotalWithin
<1>6. Total(w, g) = Total(b, g)
  BY <1>1, <1>3, <1>4, TotalSame
<1>7. (CHOOSE v : SetFold(v, g, b))[g] = Total(b, g)
  BY <1>1, <1>4, SetFoldIsTotal
<1>8. SumOf(b, g) = (CHOOSE v : SetFold(v, g, b))[g]
  BY DEF SumOf, MapThenSumSet, MapThenFoldSet, SetFold
<1> QED BY <1>2, <1>3, <1>5, <1>6, <1>7, <1>8

\* A partition into groups that settle among themselves.
IsPartition(b, groups) ==
  /\ groups \in SUBSET SUBSET Participant
  /\ \A g \in groups : g # {} /\ g \subseteq Owing(b) /\ Even(Within(b, g))
  /\ UNION groups = Owing(b)
  /\ \A g, h \in groups : g = h \/ g \cap h = {}

LEMMA PartitionsAre ==
  ASSUME NEW b \in Balance
  PROVE  \A groups : groups \in Partitions(b) <=> IsPartition(b, groups)
<1>1. PICK even : even = {g \in (SUBSET Owing(b)) \ {{}} : SumOf(b, g) = 0}
  OBVIOUS
<1>2. Partitions(b) = {groups \in SUBSET even : /\ UNION groups = Owing(b)
                                                /\ \A g, h \in groups : g = h \/ g \cap h = {}}
  BY <1>1 DEF Partitions, SumOf
<1>3. Owing(b) \subseteq Participant
  BY DEF Owing
<1>4. ASSUME NEW g
      PROVE  g \in even <=> g \in SUBSET Participant /\ g # {} /\ g \subseteq Owing(b) /\ Even(Within(b, g))
  <2>1. CASE g \in SUBSET Participant
    <3>1. Even(Within(b, g)) <=> SumOf(b, g) = 0
      BY <2>1, WithinType DEF Even
    <3>2. g \in even <=> g \subseteq Owing(b) /\ g # {} /\ SumOf(b, g) = 0
      BY <1>1
    <3> QED BY <2>1, <3>1, <3>2
  <2>2. CASE g \notin SUBSET Participant
    BY <1>1, <1>3, <2>2
  <2> QED BY <2>1, <2>2
<1> QED BY <1>2, <1>4 DEF IsPartition

\* Everybody together is a partition.
LEMMA OneGroup ==
  ASSUME NEW b \in Balance, Even(b), Owing(b) # {}
  PROVE  IsPartition(b, {Owing(b)})
<1>1. Owing(b) \in SUBSET Participant
  BY DEF Owing
<1>2. \A p \in Participant : b[p] \in Int /\ Within(b, Owing(b))[p] = b[p]
  <2>1. \A p \in Participant : Within(b, Owing(b))[p] = IF p \in Owing(b) THEN b[p] ELSE 0
    BY <1>1, WithinType
  <2> QED BY <2>1 DEF Owing, Balance
<1>3. Even(Within(b, Owing(b)))
  BY <1>2, ParticipantsFinite, TotalSame DEF Even
<1> QED BY <1>1, <1>3 DEF IsPartition

\* Of two different sets of pairs, the one with the first pair the other lacks.
Sooner(order, one, two) ==
  \E x \in one \ two : \A y \in two \ one :
    order[x[1]] < order[y[1]] \/ (x[1] = y[1] /\ order[x[2]] > order[y[2]])

LEMMA SoonerOrders ==
  ASSUME NEW order \in Order, NEW A \in SUBSET (Participant \X Participant),
         NEW B \in SUBSET (Participant \X Participant), NEW C \in SUBSET (Participant \X Participant),
         Sooner(order, A, B), Sooner(order, B, C)
  PROVE  Sooner(order, A, C)
<1> DEFINE before(x, y) == order[x[1]] < order[y[1]] \/ (x[1] = y[1] /\ order[x[2]] > order[y[2]])
<1>1. \A x \in Participant \X Participant :
        /\ x = <<x[1], x[2]>> /\ x[1] \in Participant /\ x[2] \in Participant
        /\ order[x[1]] \in Int /\ order[x[2]] \in Int
  BY DEF Order
<1>2. \A p, q \in Participant : order[p] = order[q] => p = q
  BY DEF Order
<1>3. \A x, y, z \in Participant \X Participant : before(x, y) /\ before(y, z) => before(x, z)
  BY <1>1
<1>4. \A x, y \in Participant \X Participant : ~(before(x, y) /\ before(y, x))
  BY <1>1
<1>5. ASSUME NEW x \in Participant \X Participant, NEW y \in Participant \X Participant, x # y
      PROVE  before(x, y) \/ before(y, x)
  <2>1. x[1] # y[1] \/ x[2] # y[2]
    BY <1>1, <1>5
  <2>2. CASE x[1] # y[1]
    <3>1. order[x[1]] # order[y[1]]
      BY <1>1, <1>2, <2>2
    <3> QED BY <1>1, <3>1
  <2>3. CASE x[1] = y[1]
    <3>1. order[x[2]] # order[y[2]]
      BY <1>1, <1>2, <2>1, <2>3
    <3> QED BY <1>1, <2>3, <3>1
  <2> QED BY <2>2, <2>3
<1>6. PICK x \in A \ B : \A y \in B \ A : before(x, y)
  BY DEF Sooner
<1>7. PICK y \in B \ C : \A z \in C \ B : before(y, z)
  BY DEF Sooner
<1> HIDE DEF before
<1>8. x # y
  BY <1>6, <1>7
<1>9. CASE before(x, y)
  <2>1. x \in A \ C
    <3> SUFFICES ASSUME x \in C PROVE FALSE
      BY <1>6
    <3>1. before(y, x)
      BY <1>6, <1>7
    <3> QED BY <1>4, <1>6, <1>7, <1>9, <3>1
  <2>2. ASSUME NEW w \in C \ A
        PROVE  before(x, w)
    <3>1. CASE w \in B
      BY <1>6, <2>2, <3>1
    <3>2. CASE w \notin B
      <4>1. before(y, w)
        BY <1>7, <2>2, <3>2
      <4> QED BY <1>3, <1>6, <1>7, <1>9, <2>2, <4>1
    <3> QED BY <3>1, <3>2
  <2> QED BY <2>1, <2>2 DEF Sooner, before
<1>10. CASE before(y, x)
  <2>1. y \in A \ C
    <3> SUFFICES ASSUME y \notin A PROVE FALSE
      BY <1>7
    <3>1. before(x, y)
      BY <1>6, <1>7
    <3> QED BY <1>4, <1>6, <1>7, <1>10, <3>1
  <2>2. ASSUME NEW w \in C \ A
        PROVE  before(y, w)
    <3>1. CASE w \in B
      <4>1. before(x, w)
        BY <1>6, <2>2, <3>1
      <4> QED BY <1>3, <1>6, <1>7, <1>10, <2>2, <4>1
    <3>2. CASE w \notin B
      BY <1>7, <2>2, <3>2
    <3> QED BY <3>1, <3>2
  <2> QED BY <2>1, <2>2 DEF Sooner, before
<1> QED BY <1>5, <1>6, <1>7, <1>8, <1>9, <1>10

\* The groups that are looked for exist.
LEMMA GroupsExist ==
  ASSUME NEW order \in Order, NEW b \in Balance, Even(b), Owing(b) # {}
  PROVE  IsPartition(b, Groups(order, b))
<1>1. PICK all : all = Partitions(b)
  OBVIOUS
<1>2. all # {} /\ IsFiniteSet(all) /\ \A groups \in all : IsFiniteSet(groups)
  <2>1. {Owing(b)} \in all
    BY <1>1, OneGroup, PartitionsAre
  <2>2. IsFiniteSet(SUBSET Participant) /\ IsFiniteSet(SUBSET SUBSET Participant)
    <3>1. IsFiniteSet(SUBSET Participant)
      BY ParticipantsFinite, FS_SUBSET
    <3> QED BY <3>1, FS_SUBSET
  <2>3. all \in SUBSET SUBSET SUBSET Participant
    BY <1>1, PartitionsAre DEF IsPartition
  <2>4. IsFiniteSet(all)
    BY <2>2, <2>3, FS_Subset
  <2>5. \A groups \in all : IsFiniteSet(groups)
    BY <2>2, <2>3, FS_Subset
  <2> QED BY <2>1, <2>4, <2>5
<1>3. \A groups \in all : Cardinality(groups) \in Nat
  BY <1>2, FS_CardinalityType
<1>4. PICK most : most = MostGroups(all)
  OBVIOUS
<1>5. most # {} /\ most \in SUBSET all /\ IsFiniteSet(most)
  <2>1. PICK R : R = {pair \in all \X all : Cardinality(pair[1]) > Cardinality(pair[2])}
    OBVIOUS
  <2>2. \A x, y \in all : <<x, y>> \in R <=> Cardinality(x) > Cardinality(y)
    BY <2>1
  <2>3. /\ \A x \in all : <<x, x>> \notin R
        /\ \A x, y, z \in all : <<x, y>> \in R /\ <<y, z>> \in R => <<x, z>> \in R
    BY <1>3, <2>2
  <2>4. PICK x \in all : \A y \in all : <<y, x>> \notin R
    BY <1>2, <2>3, FirstExists
  <2>5. \A y \in all : Cardinality(y) <= Cardinality(x)
    <3> SUFFICES ASSUME NEW y \in all PROVE Cardinality(y) <= Cardinality(x)
      OBVIOUS
    <3>1. ~(Cardinality(y) > Cardinality(x))
      BY <2>2, <2>4
    <3>2. PICK i \in Nat, j \in Nat : i = Cardinality(y) /\ j = Cardinality(x)
      BY <1>3
    <3> QED BY <3>1, <3>2
  <2>6. x \in most /\ most \in SUBSET all
    BY <1>4, <2>5 DEF MostGroups
  <2> QED BY <1>2, <2>6, FS_Subset
<1>6. \A one, two : FoundSooner(order, one, two) <=> Sooner(order, Together(one), Together(two))
  BY DEF FoundSooner, Sooner
<1>7. \A groups \in all : Together(groups) \in SUBSET (Participant \X Participant)
  BY <1>1, PartitionsAre DEF IsPartition, Together
<1>8. PICK R : R = {pair \in most \X most : FoundSooner(order, pair[1], pair[2])}
  OBVIOUS
<1>9. \A x, y \in most : <<x, y>> \in R <=> FoundSooner(order, x, y)
  BY <1>8
<1>10. \A x \in most : ~FoundSooner(order, x, x)
  BY DEF FoundSooner
<1>11. ASSUME NEW x \in most, NEW y \in most, NEW z \in most,
              FoundSooner(order, x, y), FoundSooner(order, y, z)
       PROVE  FoundSooner(order, x, z)
  <2>1. /\ Together(x) \in SUBSET (Participant \X Participant)
        /\ Together(y) \in SUBSET (Participant \X Participant)
        /\ Together(z) \in SUBSET (Participant \X Participant)
    BY <1>5, <1>7
  <2>2. Sooner(order, Together(x), Together(y)) /\ Sooner(order, Together(y), Together(z))
    BY <1>6, <1>11
  <2>3. Sooner(order, Together(x), Together(z))
    BY <2>1, <2>2, SoonerOrders
  <2> QED BY <1>6, <2>3
<1>12. /\ \A x \in most : <<x, x>> \notin R
       /\ \A x, y, z \in most : <<x, y>> \in R /\ <<y, z>> \in R => <<x, z>> \in R
  BY <1>9, <1>10, <1>11
<1>13. \E one \in most : \A two \in most : <<two, one>> \notin R
  BY <1>5, <1>12, FirstExists
<1>14. \E one \in most : \A two \in most : ~FoundSooner(order, two, one)
  BY <1>9, <1>13
<1>15. Groups(order, b) \in most
  BY <1>1, <1>4, <1>14 DEF Groups, FirstFound
<1> QED BY <1>1, <1>5, <1>15, PartitionsAre

GroupRows(order, b, rows, g) == rows \o Greedy(order, Within(b, g))
Planned(order, b, listed) == FoldLeft(LAMBDA rows, g : rows \o Greedy(order, Within(b, g)), <<>>, listed)

\* The plan of a list of groups, by the last of them.
LEMMA PlannedFold ==
  ASSUME NEW order \in Order, NEW b \in Balance, NEW groups, IsPartition(b, groups)
  PROVE  /\ Planned(order, b, <<>>) = <<>>
         /\ \A listed \in Seq(groups) : Planned(order, b, listed) \in Seq(New)
         /\ \A listed \in Seq(groups), g \in groups :
              Planned(order, b, Append(listed, g)) = GroupRows(order, b, Planned(order, b, listed), g)
<1>0. PICK Y : Y = Seq(New)
  OBVIOUS
<1>20. <<>> \in Y
  BY <1>0, EmptySeq
<1> DEFINE step == [g \in groups |-> [y \in Y |-> GroupRows(order, b, y, g)]]
           F == [listed \in Seq(groups) |-> Planned(order, b, listed)]
<1>1. Acts(step, groups, Y)
  <2> SUFFICES ASSUME NEW g \in groups, NEW y \in Y PROVE GroupRows(order, b, y, g) \in Y
    BY DEF Acts
  <2>1. Within(b, g) \in Balance /\ Even(Within(b, g))
    BY WithinType DEF IsPartition
  <2>2. Greedy(order, Within(b, g)) \in Seq(New)
    BY <2>1, OrderSeparates, GreedySettles
  <2> QED BY <1>0, <2>2, ConcatProperties DEF GroupRows
<1>2. ASSUME NEW listed \in Seq(groups)
      PROVE  \E f : /\ Unfolds(f, Y, Len(listed), <<>>, StepsOf(step, listed))
                    /\ F[listed] = f[1..Len(listed)]
  <2> DEFINE Eq(f) == f = [s \in SUBSET DOMAIN listed |->
                             IF s = {} THEN <<>> ELSE GroupRows(order, b, f[s \ {Max(s)}], listed[Max(s)])]
             fold == CHOOSE f : Eq(f)
  <2>1. PICK n \in Nat : n = Len(listed) /\ DOMAIN listed = 1..n
    OBVIOUS
  <2>2. PICK go : go = StepsOf(step, listed)
    OBVIOUS
  <2>3. Steps(go, Y, n)
    BY <1>1, <2>1, <2>2, StepsOfActs
  <2>4. \A k \in 1..n, y \in Y : go[k][y] = GroupRows(order, b, y, listed[k])
    BY <2>1, <2>2 DEF StepsOf
  <2>5. \A s \in SUBSET (1..n) : s # {} => Max(s) \in 1..n /\ s \ {Max(s)} \in SUBSET (1..n)
    BY MaxIsMember
  <2> HIDE DEF step, F
  <2>6. PICK f : Folds(f, Y, n, <<>>, go)
    BY <1>20, <2>3, FoldExists
  <2>7. Eq(f)
    BY <2>1, <2>4, <2>5, <2>6 DEF Folds
  <2>8. Eq(fold)
    BY <2>7
  <2>9. F[listed] = fold[DOMAIN listed]
    BY DEF F, Planned, GroupRows, FoldLeft, MapThenFoldSet
  <2> HIDE DEF fold
  <2>10. Unfolds(fold, Y, n, <<>>, go)
    <3>1. fold[{}] = <<>>
      BY <2>8
    <3>2. ASSUME NEW s \in SUBSET (1..n), s # {}, fold[s \ {Max(s)}] \in Y
          PROVE  fold[s] = go[Max(s)][fold[s \ {Max(s)}]]
      <4>1. fold[s] = GroupRows(order, b, fold[s \ {Max(s)}], listed[Max(s)])
        BY <2>1, <2>8, <3>2
      <4>2. Max(s) \in 1..n
        BY <2>5, <3>2
      <4> QED BY <2>4, <3>2, <4>1, <4>2
    <3> QED BY <3>1, <3>2 DEF Unfolds
  <2> QED BY <2>1, <2>2, <2>9, <2>10
<1>3. Fits(F, groups, Y, <<>>, step)
  BY <1>2 DEF Fits
<1> HIDE DEF step, F
<1>4. IsFold(F, groups, Y, <<>>, step)
  BY <1>1, <1>3, <1>20, FoldLaw
<1>5. <<>> \in Seq(groups) /\ \A listed \in Seq(groups), g \in groups : Append(listed, g) \in Seq(groups)
  BY AppendProperties, EmptySeq
<1> QED BY <1>0, <1>4, <1>5 DEF IsFold, step, F

Distinct(listed) == \A i, j \in 1..Len(listed) : listed[i] = listed[j] => i = j
IsGrouped(listed, p) == \E i \in 1..Len(listed) : p \in listed[i]

\* The plan of some groups settles the balances of theirs.
LEMMA PlannedSettles ==
  ASSUME NEW order \in Order, NEW b \in Balance, NEW groups, IsPartition(b, groups),
         NEW listed \in Seq(groups), Distinct(listed)
  PROVE  \A p \in Participant : After(b, Planned(order, b, listed))[p] = IF IsGrouped(listed, p) THEN 0 ELSE b[p]
<1> DEFINE Done(l) == \A p \in Participant : After(b, Planned(order, b, l))[p] = IF IsGrouped(l, p) THEN 0 ELSE b[p]
           B == {l \in Seq(groups) : Distinct(l) => Done(l)}
<1>0. \A p \in Participant : b[p] \in Int
  BY DEF Balance
<1>1. <<>> \in B
  <2>1. Planned(order, b, <<>>) = <<>> /\ After(b, <<>>) = b
    BY PlannedFold, AfterFold
  <2>2. \A p \in Participant : ~IsGrouped(<<>>, p)
    BY DEF IsGrouped
  <2>3. <<>> \in Seq(groups)
    BY EmptySeq
  <2> QED BY <2>1, <2>2, <2>3
<1>2. ASSUME NEW l \in Seq(groups), NEW g \in groups, l \in B
      PROVE  Append(l, g) \in B
  <2>1. PICK more : more = Append(l, g)
    OBVIOUS
  <2>2. PICK n \in Nat : n = Len(l)
    OBVIOUS
  <2>3. /\ more \in Seq(groups) /\ Len(more) = n + 1 /\ more[n + 1] = g
        /\ \A k \in 1..n : more[k] = l[k] /\ k \in 1..(n + 1)
    BY <2>1, <2>2, AppendProperties
  <2>4. SUFFICES ASSUME Distinct(more) PROVE Done(more)
    BY <2>1, <2>3
  <2>5. Distinct(l)
    BY <2>2, <2>3, <2>4 DEF Distinct
  <2>6. \A k \in 1..n : l[k] # g /\ l[k] \in groups
    <3> SUFFICES ASSUME NEW k \in 1..n, l[k] = g PROVE FALSE
      BY <2>2
    <3>1. more[k] = more[n + 1] /\ k \in 1..Len(more) /\ n + 1 \in 1..Len(more) /\ k # n + 1
      BY <2>3
    <3> QED BY <2>4, <3>1 DEF Distinct
  <2>7. \A p \in Participant : p \in g => ~IsGrouped(l, p)
    BY <2>2, <2>6 DEF IsGrouped, IsPartition
  <2>8. \A p : IsGrouped(more, p) <=> IsGrouped(l, p) \/ p \in g
    <3>1. \A k \in 1..(n + 1) : k \in 1..n \/ k = n + 1
      OBVIOUS
    <3>2. n + 1 \in 1..(n + 1)
      OBVIOUS
    <3> QED BY <2>2, <2>3, <3>1, <3>2 DEF IsGrouped
  <2>9. PICK rows \in Seq(New) : rows = Planned(order, b, l)
    BY PlannedFold
  <2>10. PICK w \in Balance : /\ w = Within(b, g) /\ Even(w)
                              /\ \A p \in Participant : w[p] = IF p \in g THEN b[p] ELSE 0
    BY WithinType DEF IsPartition
  <2>11. PICK last \in Seq(New) : last = Greedy(order, w) /\ After(w, last) = Nought
    BY <2>10, OrderSeparates, GreedySettles
  <2>12. rows \in Seq(Transfer) /\ last \in Seq(Transfer)
    BY NewIsTransfer
  <2>13. PICK c \in Balance : /\ c = After(b, rows)
                              /\ \A p \in Participant : c[p] = IF IsGrouped(l, p) THEN 0 ELSE b[p]
    <3>1. After(b, rows) \in Balance
      BY <2>12, AfterFold
    <3>2. Done(l)
      BY <1>2, <2>5
    <3> QED BY <2>9, <3>1, <3>2
  <2>14. After(b, Planned(order, b, more)) = After(c, last)
    <3>1. Planned(order, b, more) = rows \o last
      <4>1. Planned(order, b, more) = GroupRows(order, b, Planned(order, b, l), g)
        BY <2>1, PlannedFold
      <4> QED BY <2>9, <2>10, <2>11, <4>1 DEF GroupRows
    <3> QED BY <2>12, <2>13, <3>1, AfterConcat
  <2>15. PICK d \in Balance : d = After(c, last)
    BY <2>12, AfterFold
  <2>16. \A p \in Participant : d[p] - Nought[p] = c[p] - w[p]
    BY <2>11, <2>12, <2>15, AfterShift
  <2>17. \A p \in Participant : d[p] = IF IsGrouped(more, p) THEN 0 ELSE b[p]
    <3> SUFFICES ASSUME NEW p \in Participant
                 PROVE  d[p] = IF IsGrouped(more, p) THEN 0 ELSE b[p]
      OBVIOUS
    <3>1. PICK h \in Int, i \in Int, j \in Int, k \in Int : h = b[p] /\ i = c[p] /\ j = d[p] /\ k = w[p]
      BY DEF Balance
    <3>2. j - 0 = i - k
      BY <2>16, <3>1 DEF Nought
    <3>3. CASE p \in g
      <4>1. i = h /\ k = h
        BY <2>7, <2>10, <2>13, <3>1, <3>3
      <4>2. j = 0
        BY <3>2, <4>1
      <4> QED BY <2>8, <3>1, <3>3, <4>2
    <3>4. CASE p \notin g
      <4>1. k = 0
        BY <2>10, <3>1, <3>4
      <4>2. j = i
        BY <3>2, <4>1
      <4> QED BY <2>8, <2>13, <3>1, <3>4, <4>2
    <3> QED BY <3>3, <3>4
  <2> QED BY <2>14, <2>15, <2>17
<1> HIDE DEF B
<1>3. listed \in B
  BY <1>1, <1>2, ListInduction
<1> QED BY <1>3 DEF B

\* The groups in the order of their first people.
LEMMA GroupsOrdered ==
  ASSUME NEW order \in Order, NEW b \in Balance, NEW groups, IsPartition(b, groups), NEW ahead,
         ahead = [g \in groups |-> {h \in groups : \E p \in h : \A q \in g : order[p] < order[q]}]
  PROVE  IsOrder(ahead, groups) /\ IsFiniteSet(groups)
<1>1. /\ \A p \in Participant : order[p] \in Int
      /\ \A p, q \in Participant : order[p] = order[q] => p = q
  BY DEF Order
<1>2. \A g \in groups : g # {} /\ g \in SUBSET Participant /\ IsFiniteSet(g)
  <2> SUFFICES ASSUME NEW g \in groups PROVE g # {} /\ g \in SUBSET Participant /\ IsFiniteSet(g)
    OBVIOUS
  <2>1. g # {} /\ g \in SUBSET Participant
    BY DEF IsPartition
  <2> QED BY <2>1, ParticipantsFinite, FS_Subset
<1>3. \A g, h \in groups : h \in ahead[g] <=> \E p \in h : \A q \in g : order[p] < order[q]
  OBVIOUS
<1>4. ASSUME NEW g \in groups
      PROVE  \E p \in g : \A q \in g : order[p] <= order[q]
  <2>1. PICK R : R = {pair \in g \X g : order[pair[1]] < order[pair[2]]}
    OBVIOUS
  <2>2. \A x, y \in g : <<x, y>> \in R <=> order[x] < order[y]
    BY <2>1
  <2>3. \A x \in g : order[x] \in Int
    BY <1>1, <1>2
  <2>4. /\ \A x \in g : <<x, x>> \notin R
        /\ \A x, y, z \in g : <<x, y>> \in R /\ <<y, z>> \in R => <<x, z>> \in R
    BY <2>2, <2>3
  <2>5. PICK x \in g : \A y \in g : <<y, x>> \notin R
    BY <1>2, <2>4, FirstExists
  <2>6. \A y \in g : order[x] <= order[y]
    <3> SUFFICES ASSUME NEW y \in g PROVE order[x] <= order[y]
      OBVIOUS
    <3>1. PICK i \in Int, j \in Int : i = order[x] /\ j = order[y]
      BY <2>3
    <3>2. ~(j < i)
      BY <2>2, <2>5, <3>1
    <3> QED BY <3>1, <3>2
  <2> QED BY <2>6
<1>5. \A g \in groups : g \notin ahead[g]
  <2> SUFFICES ASSUME NEW g \in groups, g \in ahead[g] PROVE FALSE
    OBVIOUS
  <2>1. PICK p \in g : \A q \in g : order[p] < order[q]
    BY <1>3
  <2>2. order[p] < order[p] /\ order[p] \in Int
    BY <1>1, <1>2, <2>1
  <2> QED BY <2>2
<1>6. ASSUME NEW f \in groups, NEW g \in groups, NEW h \in groups, f \in ahead[g], g \in ahead[h]
      PROVE  f \in ahead[h]
  <2>1. PICK p \in f : \A q \in g : order[p] < order[q]
    BY <1>3, <1>6
  <2>2. PICK q \in g : \A r \in h : order[q] < order[r]
    BY <1>3, <1>6
  <2>3. \A r \in h : order[p] < order[q] /\ order[q] < order[r]
                     /\ order[p] \in Int /\ order[q] \in Int /\ order[r] \in Int
    BY <1>1, <1>2, <2>1, <2>2
  <2>4. \A r \in h : order[p] < order[r]
    BY <2>3
  <2> QED BY <1>3, <2>4
<1>7. ASSUME NEW g \in groups, NEW h \in groups, g # h
      PROVE  g \in ahead[h] \/ h \in ahead[g]
  <2>1. PICK p \in g : \A q \in g : order[p] <= order[q]
    BY <1>4
  <2>2. PICK q \in h : \A r \in h : order[q] <= order[r]
    BY <1>4
  <2>3. g \cap h = {}
    BY <1>7 DEF IsPartition
  <2>4. p # q /\ p \in Participant /\ q \in Participant
    BY <1>2, <2>3
  <2>5. order[p] # order[q] /\ order[p] \in Int /\ order[q] \in Int
    BY <1>1, <2>4
  <2>6. CASE order[p] < order[q]
    <3>1. \A r \in h : order[p] < order[r]
      BY <1>1, <1>2, <2>2, <2>5, <2>6
    <3> QED BY <1>3, <3>1
  <2>7. CASE order[q] < order[p]
    <3>1. \A r \in g : order[q] < order[r]
      BY <1>1, <1>2, <2>1, <2>5, <2>7
    <3> QED BY <1>3, <3>1
  <2>8. order[p] < order[q] \/ order[q] < order[p]
    <3>1. PICK i \in Int, j \in Int : i = order[p] /\ j = order[q] /\ i # j
      BY <2>5
    <3> QED BY <3>1
  <2> QED BY <2>6, <2>7, <2>8
<1>8. ahead \in [groups -> SUBSET groups]
  OBVIOUS
<1>9. IsFiniteSet(groups)
  <2>1. IsFiniteSet(SUBSET Participant)
    BY ParticipantsFinite, FS_SUBSET
  <2>2. groups \in SUBSET SUBSET Participant
    BY DEF IsPartition
  <2> QED BY <2>1, <2>2, FS_Subset
<1> QED BY <1>5, <1>6, <1>7, <1>8, <1>9 DEF IsOrder

\* The plan of all groups settles everything.
LEMMA GroupPlansSettle ==
  ASSUME NEW order \in Order, NEW b \in Balance, NEW groups, IsPartition(b, groups)
  PROVE  GroupPlans(order, b, groups) \in Seq(New) /\ After(b, GroupPlans(order, b, groups)) = Nought
<1>1. PICK ahead : ahead = [g \in groups |-> {h \in groups : \E p \in h : \A q \in g : order[p] < order[q]}]
  OBVIOUS
<1>2. PICK listed : listed = InOrder(ahead)
  OBVIOUS
<1>3. Listed(listed, ahead, groups)
  BY <1>1, <1>2, GroupsOrdered, InOrderLists
<1>4. listed \in Seq(groups) /\ Distinct(listed) /\ \A g \in groups : \E k \in 1..Len(listed) : listed[k] = g
  BY <1>3 DEF Listed, Distinct
<1>5. GroupPlans(order, b, groups) = Planned(order, b, listed)
  BY <1>1, <1>2 DEF GroupPlans, Planned
<1>6. PICK rows \in Seq(New) : rows = Planned(order, b, listed)
  BY <1>4, PlannedFold
<1>7. PICK c \in Balance : c = After(b, rows)
  BY NewIsTransfer, AfterFold
<1>8. \A p \in Participant : c[p] = IF IsGrouped(listed, p) THEN 0 ELSE b[p]
  BY <1>4, <1>6, <1>7, PlannedSettles
<1>9. \A p \in Participant : b[p] # 0 => IsGrouped(listed, p)
  <2> SUFFICES ASSUME NEW p \in Participant, b[p] # 0 PROVE IsGrouped(listed, p)
    OBVIOUS
  <2>1. p \in Owing(b)
    BY DEF Owing
  <2>2. PICK g \in groups : p \in g
    BY <2>1 DEF IsPartition
  <2>3. PICK k \in 1..Len(listed) : listed[k] = g
    BY <1>4
  <2> QED BY <2>2, <2>3 DEF IsGrouped
<1>10. \A p \in Participant : c[p] = 0
  BY <1>8, <1>9
<1>11. c = Nought
  BY <1>10 DEF Balance, Nought
<1> QED BY <1>5, <1>6, <1>7, <1>11

\* Looking for groups settles too (buildTransfersFromBalances).
LEMMA SmartPlanSettles ==
  ASSUME NEW order \in Order, NEW b \in Balance, Even(b)
  PROVE  SmartPlan(order, b) \in Seq(New) /\ After(b, SmartPlan(order, b)) = Nought
<1>1. Greedy(order, b) \in Seq(New) /\ After(b, Greedy(order, b)) = Nought
  BY OrderSeparates, GreedySettles
<1>2. CASE SmartPlan(order, b) = Greedy(order, b)
  BY <1>1, <1>2
<1>3. CASE SmartPlan(order, b) # Greedy(order, b)
  <2>1. /\ SmartPlan(order, b) = GroupPlans(order, b, Groups(order, b))
        /\ Cardinality(Owing(b)) \in 4..12
    BY <1>3 DEF SmartPlan, Shorter
  <2>2. Owing(b) # {}
    BY <2>1, FS_EmptySet
  <2>3. IsPartition(b, Groups(order, b))
    BY <2>2, GroupsExist
  <2> QED BY <2>1, <2>3, GroupPlansSettle
<1> QED BY <1>2, <1>3

-----------------------------------------------------------------------------
(* Plans. *)

\* A plan for balances.
SettledBy(b, rows) == rows \in Seq(Transfer) /\ After(b, rows) = Nought

\* A method as reconcileSettlementTransfers makes it.
Methods == {m \in [order : Order, direct : BOOLEAN, unit : Nat \ {0}, routes : Map] : TRUE}

LEMMA NothingLeft ==
  ASSUME NEW b \in Balance, NEW s \in Seq(New), NEW t \in Seq(New), After(After(b, s), t) = Nought
  PROVE  SettledBy(b, s \o t) /\ SettledBy(b, Combined(s \o t)) /\ s \o t \in Seq(New) /\ Combined(s \o t) \in Map
<1>1. s \in Seq(Transfer) /\ t \in Seq(Transfer)
  BY NewIsTransfer
<1>2. s \o t \in Seq(New) /\ s \o t \in Seq(Transfer)
  BY <1>1, ConcatProperties
<1>3. After(b, s \o t) = Nought
  BY <1>1, AfterConcat
<1>4. Combined(s \o t) \in Map /\ After(b, Combined(s \o t)) = After(b, s \o t)
  BY <1>2, CombinedEffect
<1>5. Combined(s \o t) \in Seq(Transfer)
  BY <1>4, NewIsTransfer
<1> QED BY <1>2, <1>3, <1>4, <1>5 DEF SettledBy

\* Preferred routes and a greedy plan of the rest settle.
LEMMA CompletedSettles ==
  ASSUME NEW order \in Order, NEW b \in Balance, Even(b), NEW preferred \in Seq(New)
  PROVE  Completed(order, b, preferred) \in Seq(New) /\ SettledBy(b, Completed(order, b, preferred))
<1>0. preferred \in Seq(Transfer)
  BY NewIsTransfer
<1>1. PICK left \in Balance : left = After(b, preferred) /\ Even(left)
  BY <1>0, EvenAfter
<1>2. Greedy(order, left) \in Seq(New) /\ After(left, Greedy(order, left)) = Nought
  BY <1>1, OrderSeparates, GreedySettles
<1>3. PICK rest \in Seq(New) : rest = Greedy(order, left) /\ After(left, rest) = Nought
  BY <1>2
<1>4. PICK all : all = preferred \o rest
  OBVIOUS
<1>5. all \in Seq(Transfer) /\ After(b, all) = Nought
  BY <1>1, <1>3, <1>4, NothingLeft DEF SettledBy
<1>6. Completed(order, b, preferred) = NettedOnto(<<>>, all)
  BY <1>1, <1>3, <1>4 DEF Completed, NettedOnto
<1>7. <<>> \in Map
  BY EmptySeq DEF Map
<1>8. /\ NettedOnto(<<>>, all) \in Map
      /\ After(b, NettedOnto(<<>>, all)) = After(After(b, <<>>), all)
  BY <1>5, <1>7, NettedOntoEffect
<1>9. After(b, <<>>) = b
  BY AfterFold
<1>10. NettedOnto(<<>>, all) \in Seq(New) /\ NettedOnto(<<>>, all) \in Seq(Transfer)
  BY <1>8, NewIsTransfer
<1> QED BY <1>5, <1>6, <1>8, <1>9, <1>10 DEF SettledBy

\* A plan from nothing settles, direct or smart.
LEMMA BuildSettles ==
  ASSUME NEW m \in Methods, NEW b \in Balance, Even(b)
  PROVE  Build(m, b) \in Seq(New) /\ SettledBy(b, Build(m, b))
<1>1. m.order \in Order /\ m.unit \in Nat \ {0} /\ m.routes \in Seq(New)
  BY NewIsTransfer DEF Methods
<1>2. PICK routes \in Seq(New) : routes = InUnits(LargestFirst(m.routes), m.unit)
  BY <1>1, LargestFirstType, InUnitsType
<1>3. CASE m.direct
  <2>1. Build(m, b) = Completed(m.order, b, routes)
    BY <1>2, <1>3 DEF Build, DirectPlan
  <2> QED BY <1>1, <2>1, CompletedSettles
<1>4. CASE ~m.direct
  <2>1. Build(m, b) = SmartPlan(m.order, b)
    BY <1>4 DEF Build
  <2>2. SmartPlan(m.order, b) \in Seq(New) /\ After(b, SmartPlan(m.order, b)) = Nought
    BY <1>1, SmartPlanSettles
  <2> QED BY <2>1, <2>2, NewIsTransfer DEF SettledBy
<1> QED BY <1>3, <1>4

\* A flow and a plan of the rest settle.
LEMMA RestSettles ==
  ASSUME NEW m \in Methods, NEW b \in Balance, Even(b), NEW flow \in Seq(New)
  PROVE  Rest(m, b, flow) \in Seq(New) /\ SettledBy(b, Rest(m, b, flow))
<1>0. flow \in Seq(Transfer)
  BY NewIsTransfer
<1>1. PICK left \in Balance : left = After(b, flow) /\ Even(left)
  BY <1>0, EvenAfter
<1>2. PICK rest \in Seq(New) : rest = Build(m, left) /\ After(left, rest) = Nought
  BY <1>1, BuildSettles DEF SettledBy
<1>3. Rest(m, b, flow) = Combined(flow \o rest)
  BY <1>1, <1>2 DEF Rest
<1>4. Combined(flow \o rest) \in Map /\ SettledBy(b, Combined(flow \o rest))
  BY <1>1, <1>2, NothingLeft
<1> QED BY <1>3, <1>4, NewIsTransfer

LEMMA DebtsSettle ==
  ASSUME NEW b \in Balance, Even(b), Debts(b) = {}
  PROVE  b = Nought
<1>1. \A p \in Participant : b[p] \in Int
  BY DEF Balance
<1>2. ASSUME NEW c \in Balance, Even(c), \A p \in Participant : c[p] \in Nat
      PROVE  \A p \in Participant : c[p] = 0
  BY <1>2, ParticipantsFinite, ZeroOfTotal DEF Even
<1>3. CASE \A p \in Participant : b[p] >= 0
  <2>1. \A p \in Participant : b[p] \in Nat
    BY <1>1, <1>3
  <2>2. \A p \in Participant : b[p] = 0
    BY <1>2, <2>1
  <2> QED BY <2>2 DEF Balance, Nought
<1>4. CASE ~\A p \in Participant : b[p] >= 0
  <2>1. PICK p \in Participant : b[p] < 0
    BY <1>1, <1>4
  <2>2. \A q \in Participant : ~(b[q] > 0)
    <3> SUFFICES ASSUME NEW q \in Participant, b[q] > 0 PROVE FALSE
      OBVIOUS
    <3>1. <<p, q>> \in Debts(b)
      BY <2>1 DEF Debts
    <3> QED BY <3>1
  <2> DEFINE c == [q \in Participant |-> -b[q]]
             zero == [q \in Participant |-> 0]
  <2>3. \A q \in Participant : c[q] \in Nat
    BY <1>1, <2>2
  <2>4. \A q \in Participant : zero[q] = 0 /\ zero[q] \in Int /\ b[q] \in Int /\ c[q] = zero[q] + (-1) * b[q]
    BY <1>1
  <2>5. c \in Balance
    BY <2>3 DEF Balance
  <2>6. c[p] # 0
    BY <1>1, <2>1
  <2> HIDE DEF c, zero
  <2>7. Total(c, Participant) = Total(zero, Participant) + (-1) * Total(b, Participant)
    BY <2>4, ParticipantsFinite, TotalLinear
  <2>8. Total(zero, Participant) = 0
    BY <2>4, ParticipantsFinite, TotalOfZero
  <2>9. Even(c)
    BY <2>7, <2>8 DEF Even
  <2>10. c[p] = 0
    BY <1>2, <2>3, <2>5, <2>9
  <2> QED BY <2>6, <2>10
<1> QED BY <1>3, <1>4

\* A plan that avoids routes settles (buildTransfersAvoidingRoutes).
LEMMA AvoidingPlanSettles ==
  ASSUME NEW m \in Methods, NEW b \in Balance, Even(b), NEW blocked
  PROVE  AvoidingPlan(m, b, blocked) \in Seq(New) /\ SettledBy(b, AvoidingPlan(m, b, blocked))
<1>1. CASE Debts(b) = {}
  <2>1. AvoidingPlan(m, b, blocked) = <<>>
    BY <1>1 DEF AvoidingPlan
  <2>2. After(b, <<>>) = Nought
    BY <1>1, DebtsSettle, AfterFold
  <2>3. <<>> \in Seq(New) /\ <<>> \in Seq(Transfer)
    BY EmptySeq
  <2> QED BY <2>1, <2>2, <2>3 DEF SettledBy
<1>2. CASE Debts(b) # {}
  <2>1. m.order \in Order
    BY DEF Methods
  <2>2. Debts(b) \ blocked \in SUBSET Debts(b)
    OBVIOUS
  <2>3. PICK flow \in Seq(New) : flow = Flow(m.order, b, Debts(b) \ blocked)
    BY <2>1, <2>2, FlowType
  <2>4. AvoidingPlan(m, b, blocked) = Rest(m, b, flow)
    BY <1>2, <2>3 DEF AvoidingPlan
  <2> QED BY <2>4, RestSettles
<1> QED BY <1>1, <1>2

\* A plan that favors the previous routes settles (buildTransfersFavoringPreviousRoutes).
LEMMA FavoringPlanSettles ==
  ASSUME NEW m \in Methods, NEW b \in Balance, Even(b), NEW blocked, NEW previous \in Seq(Transfer)
  PROVE  /\ FavoringPlan(m, b, blocked, previous) \in Seq(New)
         /\ SettledBy(b, FavoringPlan(m, b, blocked, previous))
<1>1. PICK kept \in Keepings(b) : kept = Kept(b, blocked, previous)
  BY KeptType
<1>2. PICK left, rows : left = kept.left /\ rows = kept.rows
  OBVIOUS
<1>3. left \in Balance /\ rows \in Seq(New) /\ left = After(b, rows)
  BY <1>2 DEF Keepings
<1>4. Even(left)
  BY <1>3, NewIsTransfer, EvenAfter
<1>5. PICK rest : rest = IF blocked = {} THEN Build(m, left) ELSE AvoidingPlan(m, left, blocked)
  OBVIOUS
<1>6. rest \in Seq(New) /\ After(left, rest) = Nought
  <2>1. Build(m, left) \in Seq(New) /\ SettledBy(left, Build(m, left))
    BY <1>3, <1>4, BuildSettles
  <2>2. AvoidingPlan(m, left, blocked) \in Seq(New) /\ SettledBy(left, AvoidingPlan(m, left, blocked))
    BY <1>3, <1>4, AvoidingPlanSettles
  <2> QED BY <1>5, <2>1, <2>2 DEF SettledBy
<1>7. FavoringPlan(m, b, blocked, previous) = Combined(rows \o rest)
  BY <1>1, <1>2, <1>5 DEF FavoringPlan, FavoringFrom
<1>8. Combined(rows \o rest) \in Map /\ SettledBy(b, Combined(rows \o rest))
  BY <1>3, <1>6, NothingLeft
<1> QED BY <1>7, <1>8, NewIsTransfer

\* Whatever is pending, the plan settles the balances: it is the pending one or new.
THEOREM OutstandingPlanSettles ==
  ASSUME NEW m \in Methods, NEW b \in Balance, Even(b), NEW blocked, NEW previous \in Seq(Transfer)
  PROVE  /\ SettledBy(b, OutstandingPlan(m, b, blocked, previous))
         /\ \/ OutstandingPlan(m, b, blocked, previous) = previous
            \/ OutstandingPlan(m, b, blocked, previous) \in Seq(New)
<1>1. PICK plan : plan = OutstandingPlan(m, b, blocked, previous)
  OBVIOUS
<1>2. CASE StillExact(b, blocked, previous)
  <2>1. plan = previous
    BY <1>1, <1>2 DEF OutstandingPlan
  <2>2. \A p \in Participant : After(b, previous)[p] = 0
    BY <1>2 DEF StillExact, Settles
  <2>3. After(b, previous) \in Balance
    BY AfterFold
  <2>4. After(b, previous) = Nought
    BY <2>2, <2>3 DEF Balance, Nought
  <2> QED BY <1>1, <2>1, <2>4 DEF SettledBy
<1>3. CASE ~StillExact(b, blocked, previous)
  <2>1. plan \in {Build(m, b), AvoidingPlan(m, b, blocked), FavoringPlan(m, b, blocked, previous)}
    BY <1>1, <1>3 DEF OutstandingPlan, Replacing, NewPlan, Preferred, LessBack, MoreStable
  <2>2. plan \in Seq(New) /\ SettledBy(b, plan)
    BY <2>1, BuildSettles, AvoidingPlanSettles, FavoringPlanSettles
  <2> QED BY <1>1, <2>2
<1> QED BY <1>2, <1>3

-----------------------------------------------------------------------------
(* Reconciling. *)

Free(id, used, k) == k \in 1..(Cardinality(used) + 1) /\ Append(id, k) \notin used
FirstFree(id, used, k) == Free(id, used, k) /\ \A j \in 1..(k - 1) : Append(id, j) \in used

LEMMA AppendTells ==
  ASSUME NEW id \in Id, NEW j \in Nat, NEW k \in Nat, Append(id, j) = Append(id, k)
  PROVE  j = k
<1>1. PICK n \in Nat : n = Len(id)
  BY DEF Id
<1>2. Append(id, j)[n + 1] = j /\ Append(id, k)[n + 1] = k
  BY <1>1 DEF Id
<1> QED BY <1>2

\* One of the numbered names is free.
LEMMA FirstFreeExists ==
  ASSUME NEW id \in Id, NEW used, IsFiniteSet(used)
  PROVE  \E k : FirstFree(id, used, k)
<1>1. PICK n \in Nat : n = Cardinality(used)
  BY FS_CardinalityType
<1>2. \E k : Free(id, used, k)
  <2> SUFFICES ASSUME \A k : ~Free(id, used, k) PROVE FALSE
    OBVIOUS
  <2>1. \A k \in 1..(n + 1) : Append(id, k) \in used
    BY <1>1 DEF Free
  <2> DEFINE f == [k \in 1..(n + 1) |-> Append(id, k)]
  <2>2. f \in [1..(n + 1) -> used]
    BY <2>1
  <2>3. \A j, k \in 1..(n + 1) : f[j] = f[k] => j = k
    BY AppendTells
  <2>4. f \in Injection(1..(n + 1), used)
    BY <2>2, <2>3 DEF Injection, IsInjective
  <2> HIDE DEF f
  <2>5. Cardinality(1..(n + 1)) <= Cardinality(used)
    BY <2>4, FS_Injection
  <2>6. Cardinality(1..(n + 1)) = n + 1
    BY IntervalCount
  <2> QED BY <1>1, <2>5, <2>6
<1> DEFINE S == {k \in 1..(n + 1) : Free(id, used, k)}
<1>3. S \in SUBSET Nat /\ S # {}
  BY <1>1, <1>2 DEF Free
<1>4. PICK k \in S : \A j \in S : k <= j
  <2> HIDE DEF S
  <2>2. PICK m : m \in S /\ \A j \in S : ~(<<j, m>> \in OpToRel(<, Nat))
    BY <1>3, NatLessThanWellFounded, WFMin
  <2>3. m \in S /\ \A j \in S : ~(j < m)
    BY <1>3, <2>2 DEF OpToRel
  <2>4. \A j \in S : m <= j
    BY <1>3, <2>3
  <2> QED BY <2>3, <2>4
<1>5. \A j \in 1..(k - 1) : Append(id, j) \in used
  <2> SUFFICES ASSUME NEW j \in 1..(k - 1), Append(id, j) \notin used PROVE FALSE
    OBVIOUS
  <2>1. j \in S
    BY <1>1, <1>4 DEF Free
  <2>2. k <= j
    BY <1>4, <2>1
  <2> QED BY <1>4, <2>2
<1> QED BY <1>4, <1>5 DEF FirstFree

\* A name that is not in use.
THEOREM UniqueIdIsFree ==
  ASSUME NEW id \in Id, NEW used, IsFiniteSet(used)
  PROVE  UniqueId(id, used) \in Id /\ UniqueId(id, used) \notin used
<1>1. CASE id \notin used
  BY <1>1 DEF UniqueId
<1>2. CASE id \in used
  <2>1. PICK k : FirstFree(id, used, k)
    BY FirstFreeExists
  <2> DEFINE P(j) == Append(id, j) \notin used /\ \A i \in 1..(j - 1) : Append(id, i) \in used
  <2>2. \A j : FirstFree(id, used, j) <=> j \in 1..(Cardinality(used) + 1) /\ P(j)
    BY DEF FirstFree, Free
  <2>3. PICK c : c = CHOOSE j \in 1..(Cardinality(used) + 1) : P(j)
    OBVIOUS
  <2>4. c \in 1..(Cardinality(used) + 1) /\ P(c)
    BY <2>1, <2>2, <2>3
  <2>5. UniqueId(id, used) = Append(id, c)
    BY <1>2, <2>3 DEF UniqueId
  <2>6. c \in Nat
    BY <2>4, FS_CardinalityType
  <2>7. Append(id, c) \in Id
    BY <2>6, AppendProperties DEF Id
  <2> QED BY <2>4, <2>5, <2>7
<1> QED BY <1>1, <1>2

\* Lists whose rows have names of their own.
Named == {rows \in Seq(Transfer) : \A i, j \in 1..Len(rows) : rows[i].id = rows[j].id => i = j}

Alike(t, u) == /\ t.from = u.from /\ t.to = u.to /\ t.amount = u.amount
               /\ t.paid = u.paid /\ t.at = u.at

JoinOne(rows, t) == Append(rows, [t EXCEPT !.id = UniqueId(@, Ids(rows))])

LEMMA IdsOf ==
  ASSUME NEW rows \in Seq(Transfer)
  PROVE  /\ IsFiniteSet(Ids(rows))
         /\ \A id : id \in Ids(rows) <=> \E i \in 1..Len(rows) : rows[i].id = id
         /\ Cardinality(Ids(rows)) = Len(rows) <=> rows \in Named
<1>1. PICK n \in Nat : n = Len(rows) /\ DOMAIN rows = 1..n
  OBVIOUS
<1> DEFINE ids == [i \in 1..n |-> rows[i].id]
<1>2. ids \in Seq({rows[i].id : i \in 1..n}) /\ Len(ids) = n /\ DOMAIN ids = 1..n
  OBVIOUS
<1>3. Ids(rows) = ToSet(ids)
  BY <1>1 DEF Ids, ToSet
<1>4. \A i \in 1..n : ids[i] = rows[i].id
  OBVIOUS
<1>5. \A id : id \in Ids(rows) <=> \E i \in 1..n : rows[i].id = id
  BY <1>1 DEF Ids, ToSet
<1> HIDE DEF ids
<1>6. /\ IsFiniteSet(ToSet(ids))
      /\ Cardinality(ToSet(ids)) = Len(ids) <=> IsInjective(ids)
  BY <1>2, ToSetFinite
<1>7. IsInjective(ids) <=> rows \in Named
  BY <1>1, <1>2, <1>4 DEF IsInjective, Named
<1> QED BY <1>1, <1>2, <1>3, <1>5, <1>6, <1>7

\* A pending row is added to the payments under a name of its own.
LEMMA JoinOneEffect ==
  ASSUME NEW rows \in Named, NEW t \in Transfer
  PROVE  \E u \in Transfer : /\ JoinOne(rows, t) = Append(rows, u) /\ Alike(u, t)
                             /\ Append(rows, u) \in Named
<1>1. rows \in Seq(Transfer)
  BY DEF Named
<1>2. t.id \in Id
  BY DEF Transfer
<1>3. PICK id : id = UniqueId(t.id, Ids(rows))
  OBVIOUS
<1>4. id \in Id /\ id \notin Ids(rows)
  BY <1>1, <1>2, <1>3, IdsOf, UniqueIdIsFree
<1>5. PICK u : u = [t EXCEPT !.id = id]
  OBVIOUS
<1>6. u \in Transfer /\ u.id = id /\ Alike(u, t)
  BY <1>4, <1>5 DEF Transfer, Alike
<1>7. JoinOne(rows, t) = Append(rows, u)
  BY <1>3, <1>5 DEF JoinOne
<1>8. \A i \in 1..Len(rows) : rows[i].id # u.id
  BY <1>1, <1>4, <1>6, IdsOf
<1>9. Append(rows, u) \in Named
  <2>1. PICK n \in Nat : n = Len(rows)
    BY <1>1
  <2>2. Append(rows, u) \in Seq(Transfer) /\ Len(Append(rows, u)) = n + 1
    BY <1>1, <1>6, <2>1
  <2>4. \A i, j \in 1..n : rows[i].id = rows[j].id => i = j
    BY <2>1 DEF Named
  <2>5. PICK more : more = Append(rows, u)
    OBVIOUS
  <2>3. (\A i \in 1..n : more[i] = rows[i]) /\ more[n + 1] = u
    BY <1>1, <1>6, <2>1, <2>5
  <2>6. ASSUME NEW i \in 1..(n + 1), NEW j \in 1..(n + 1), more[i].id = more[j].id
        PROVE  i = j
    <3>0. (i \in 1..n \/ i = n + 1) /\ (j \in 1..n \/ j = n + 1)
      OBVIOUS
    <3>1. CASE i \in 1..n /\ j \in 1..n
      <4>1. more[i] = rows[i] /\ more[j] = rows[j]
        BY <2>3, <3>1
      <4> QED BY <2>4, <2>6, <3>1, <4>1
    <3>2. CASE i \in 1..n /\ j = n + 1
      <4>1. more[i] = rows[i] /\ more[j] = u
        BY <2>3, <3>2
      <4> QED BY <1>8, <2>1, <2>6, <3>2, <4>1
    <3>3. CASE i = n + 1 /\ j \in 1..n
      <4>1. more[j] = rows[j] /\ more[i] = u
        BY <2>3, <3>3
      <4> QED BY <1>8, <2>1, <2>6, <3>3, <4>1
    <3> QED BY <3>0, <3>1, <3>2, <3>3
  <2> QED BY <2>2, <2>5, <2>6 DEF Named
<1> QED BY <1>6, <1>7, <1>9

LEMMA JoinedFold ==
  ASSUME NEW paid \in Named
  PROVE  /\ Joined(paid, <<>>) = paid
         /\ \A rows \in Seq(Transfer) : Joined(paid, rows) \in Named
         /\ \A rows \in Seq(Transfer), t \in Transfer :
              Joined(paid, Append(rows, t)) = JoinOne(Joined(paid, rows), t)
<1> DEFINE step == [t \in Transfer |-> [y \in Named |-> JoinOne(y, t)]]
           F == [rows \in Seq(Transfer) |-> Joined(paid, rows)]
<1>1. Acts(step, Transfer, Named)
  BY JoinOneEffect DEF Acts
<1>2. ASSUME NEW rows \in Seq(Transfer)
      PROVE  \E f : /\ Unfolds(f, Named, Len(rows), paid, StepsOf(step, rows))
                    /\ F[rows] = f[1..Len(rows)]
  <2> DEFINE Eq(f) == f = [s \in SUBSET DOMAIN rows |->
                             IF s = {} THEN paid ELSE JoinOne(f[s \ {Max(s)}], rows[Max(s)])]
             fold == CHOOSE f : Eq(f)
  <2>1. PICK n \in Nat : n = Len(rows) /\ DOMAIN rows = 1..n
    OBVIOUS
  <2>2. PICK go : go = StepsOf(step, rows)
    OBVIOUS
  <2>3. Steps(go, Named, n)
    BY <1>1, <2>1, <2>2, StepsOfActs
  <2>4. \A k \in 1..n, y \in Named : go[k][y] = JoinOne(y, rows[k])
    BY <2>1, <2>2 DEF StepsOf
  <2>5. \A s \in SUBSET (1..n) : s # {} => Max(s) \in 1..n /\ s \ {Max(s)} \in SUBSET (1..n)
    BY MaxIsMember
  <2> HIDE DEF step, F
  <2>6. PICK f : Folds(f, Named, n, paid, go)
    BY <2>3, FoldExists
  <2>7. Eq(f)
    BY <2>1, <2>4, <2>5, <2>6 DEF Folds
  <2>8. Eq(fold)
    BY <2>7
  <2>9. F[rows] = fold[DOMAIN rows]
    BY DEF F, Joined, JoinOne, FoldLeft, MapThenFoldSet
  <2> HIDE DEF fold
  <2>10. Unfolds(fold, Named, n, paid, go)
    <3>1. fold[{}] = paid
      BY <2>8
    <3>2. ASSUME NEW s \in SUBSET (1..n), s # {}, fold[s \ {Max(s)}] \in Named
          PROVE  fold[s] = go[Max(s)][fold[s \ {Max(s)}]]
      <4>1. fold[s] = JoinOne(fold[s \ {Max(s)}], rows[Max(s)])
        BY <2>1, <2>8, <3>2
      <4>2. Max(s) \in 1..n
        BY <2>5, <3>2
      <4> QED BY <2>4, <3>2, <4>1, <4>2
    <3> QED BY <3>1, <3>2 DEF Unfolds
  <2> QED BY <2>1, <2>2, <2>9, <2>10
<1>3. Fits(F, Transfer, Named, paid, step)
  BY <1>2 DEF Fits
<1> HIDE DEF step, F
<1>4. IsFold(F, Transfer, Named, paid, step)
  BY <1>1, <1>3, FoldLaw
<1>5. <<>> \in Seq(Transfer) /\ \A rows \in Seq(Transfer), t \in Transfer : Append(rows, t) \in Seq(Transfer)
  BY AppendProperties
<1> QED BY <1>4, <1>5 DEF IsFold, step, F

\* The payments first, then the plan, with names of its own.
Follows(r, paid, plan, m, n) ==
  /\ r \in Named /\ Len(r) = m + n
  /\ \A i \in 1..m : r[i] = paid[i]
  /\ \A i \in 1..n : Alike(r[m + i], plan[i])

\* Joining keeps the payments and adds each pending row, but for its name.
LEMMA JoinedFollows ==
  ASSUME NEW paid \in Named, NEW m \in Nat, m = Len(paid)
  PROVE  \A plan \in Seq(Transfer) : Follows(Joined(paid, plan), paid, plan, m, Len(plan))
<1> DEFINE B == {plan \in Seq(Transfer) : Follows(Joined(paid, plan), paid, plan, m, Len(plan))}
<1>1. <<>> \in B
  <2>1. Joined(paid, <<>>) = paid
    BY JoinedFold
  <2>2. Len(<<>>) = 0 /\ <<>> \in Seq(Transfer)
    BY EmptySeq
  <2> QED BY <2>1, <2>2 DEF Follows
<1>2. ASSUME NEW plan \in Seq(Transfer), NEW t \in Transfer, plan \in B
      PROVE  Append(plan, t) \in B
  <2>1. PICK r \in Named : r = Joined(paid, plan) /\ Joined(paid, Append(plan, t)) = JoinOne(r, t)
    BY JoinedFold
  <2>2. PICK n \in Nat : n = Len(plan)
    OBVIOUS
  <2>3. Follows(r, paid, plan, m, n)
    BY <1>2, <2>1, <2>2
  <2>4. PICK u \in Transfer : JoinOne(r, t) = Append(r, u) /\ Alike(u, t) /\ Append(r, u) \in Named
    BY JoinOneEffect
  <2>5. PICK s, plan2 : s = Append(r, u) /\ plan2 = Append(plan, t)
    OBVIOUS
  <2>6. r \in Seq(Transfer) /\ Len(r) = m + n
    BY <2>3 DEF Follows, Named
  <2>7. Len(s) = m + (n + 1) /\ \A i \in 1..(m + n) : s[i] = r[i]
    BY <2>5, <2>6
  <2>8. s[m + (n + 1)] = u
    BY <2>5, <2>6
  <2>9. plan2 \in Seq(Transfer) /\ Len(plan2) = n + 1 /\ plan2[n + 1] = t /\ \A i \in 1..n : plan2[i] = plan[i]
    BY <2>2, <2>5
  <2>10. \A i \in 1..m : s[i] = paid[i]
    BY <2>3, <2>7 DEF Follows
  <2>11. ASSUME NEW i \in 1..(n + 1)
         PROVE  Alike(s[m + i], plan2[i])
    <3>1. CASE i <= n
      <4>1. i \in 1..n /\ m + i \in 1..(m + n)
        BY <3>1
      <4>2. s[m + i] = r[m + i] /\ plan2[i] = plan[i] /\ Alike(r[m + i], plan[i])
        BY <2>3, <2>7, <2>9, <4>1 DEF Follows
      <4> QED BY <4>2
    <3>2. CASE i = n + 1
      BY <2>4, <2>8, <2>9, <3>2
    <3> QED BY <3>1, <3>2
  <2>12. Follows(s, paid, plan2, m, n + 1)
    BY <2>4, <2>5, <2>7, <2>10, <2>11 DEF Follows
  <2> QED BY <2>1, <2>4, <2>5, <2>9, <2>12
<1> HIDE DEF B
<1>3. \A plan \in Seq(Transfer) : plan \in B
  BY <1>1, <1>2, ListInduction
<1> QED BY <1>3 DEF B

LEMMA MovedAlike ==
  ASSUME NEW b \in Balance, NEW t \in Transfer, NEW u \in Transfer, Alike(u, t)
  PROVE  Moved(b, u) = Moved(b, t)
BY DEF Moved, Alike

\* Names make no difference to what transfers move.
LEMMA JoinedMoves ==
  ASSUME NEW paid \in Named, NEW b \in Balance
  PROVE  \A plan \in Seq(Transfer) : After(b, Joined(paid, plan)) = After(After(b, paid), plan)
<1> DEFINE B == {plan \in Seq(Transfer) : After(b, Joined(paid, plan)) = After(After(b, paid), plan)}
<1>0. After(b, paid) \in Balance
  BY AfterFold DEF Named
<1>1. <<>> \in B
  BY <1>0, JoinedFold, AfterFold, EmptySeq
<1>2. ASSUME NEW plan \in Seq(Transfer), NEW t \in Transfer, plan \in B
      PROVE  Append(plan, t) \in B
  <2>1. PICK r \in Named : r = Joined(paid, plan) /\ Joined(paid, Append(plan, t)) = JoinOne(r, t)
    BY JoinedFold
  <2>2. PICK u \in Transfer : JoinOne(r, t) = Append(r, u) /\ Alike(u, t)
    BY JoinOneEffect
  <2>3. r \in Seq(Transfer)
    BY DEF Named
  <2>4. After(b, Append(r, u)) = Moved(After(b, r), u) /\ After(b, r) \in Balance
    BY <2>3, AfterFold
  <2>5. Moved(After(b, r), u) = Moved(After(b, r), t)
    BY <2>2, <2>4, MovedAlike
  <2>6. After(After(b, paid), Append(plan, t)) = Moved(After(After(b, paid), plan), t)
    BY <1>0, AfterFold
  <2>7. Append(plan, t) \in Seq(Transfer)
    BY AppendProperties
  <2> QED BY <1>2, <2>1, <2>2, <2>4, <2>5, <2>6, <2>7
<1> HIDE DEF B
<1>3. \A plan \in Seq(Transfer) : plan \in B
  BY <1>1, <1>2, ListInduction
<1> QED BY <1>3 DEF B

LEMMA MethodType ==
  ASSUME NEW order \in Order, NEW expenses \in Seq(Expense), NEW rounded \in BOOLEAN,
         NEW direct \in BOOLEAN, NEW paid \in Seq(Transfer)
  PROVE  Method(order, expenses, rounded, direct, paid) \in Methods
<1>1. PICK unit \in Nat \ {0} : unit = IF rounded THEN Unit ELSE 1
  BY UnitType
<1>2. <<>> \in Map
  BY EmptySeq DEF Map
<1>3. PICK routes \in Map :
         routes = IF direct THEN RemainingRoutes(DirectRoutes(expenses), paid) ELSE <<>>
  BY <1>2, DirectRoutesType, RemainingRoutesType
<1>4. Method(order, expenses, rounded, direct, paid)
        = [order |-> order, direct |-> direct, unit |-> unit, routes |-> routes]
  BY <1>1, <1>3 DEF Method
<1> QED BY <1>4 DEF Methods

\* What is planned for is what is left, to less than a unit when rounding.
LEMMA OutstandingType ==
  ASSUME NEW order \in Order, NEW rounded \in BOOLEAN, NEW left \in Balance, Even(left)
  PROVE  /\ Outstanding(order, rounded, left) \in Balance /\ Even(Outstanding(order, rounded, left))
         /\ Near(Outstanding(order, rounded, left), left)
         /\ ~rounded => Outstanding(order, rounded, left) = left
<1>1. Near(left, left)
  <2> SUFFICES ASSUME NEW p \in Participant PROVE left[p] - left[p] \in (1 - Unit)..(Unit - 1)
    BY DEF Near
  <2>1. left[p] \in Int
    BY DEF Balance
  <2> QED BY <2>1, UnitType
<1>2. CASE rounded
  BY <1>2, RoundBalancesEven DEF Outstanding
<1>3. CASE ~rounded
  BY <1>1, <1>3 DEF Outstanding
<1> QED BY <1>2, <1>3

\* To the last unit, or to less than a whole unit for each person.
Settled(balance, rounded, rows) ==
  \A p \in Participant : After(balance, rows)[p] \in IF rounded THEN 1 - Unit .. Unit - 1 ELSE {0}

\* Reconciling keeps the payments, settles the ledger and names each row.
THEOREM ReconcileSettles ==
  ASSUME NEW order \in Order, NEW expenses \in Seq(Expense), NEW rounded \in BOOLEAN,
         NEW direct \in BOOLEAN, NEW paid \in Named, NEW previous \in Seq(Transfer)
  PROVE  LET r == Reconcile(order, expenses, rounded, direct, paid, previous) IN
         /\ Settled(Balances(expenses), rounded, r)
         /\ \E plan \in Seq(Transfer) : /\ Follows(r, paid, plan, Len(paid), Len(plan))
                                        /\ r = Joined(paid, plan)
                                        /\ plan = previous \/ plan \in Seq(New)
<1>0. paid \in Seq(Transfer)
  BY DEF Named
<1>1. PICK b \in Balance : b = Balances(expenses) /\ Even(b)
  BY BalancesEven
<1>2. PICK left \in Balance : left = After(b, paid) /\ Even(left)
  BY <1>0, <1>1, EvenAfter
<1>3. PICK out \in Balance : /\ out = Outstanding(order, rounded, left) /\ Even(out) /\ Near(out, left)
                             /\ ~rounded => out = left
  BY <1>2, OutstandingType
<1>4. PICK m \in Methods : m = Method(order, expenses, rounded, direct, paid)
  BY <1>0, MethodType
<1>5. PICK plan : plan = OutstandingPlan(m, out, Back(paid), previous)
  OBVIOUS
<1>6. SettledBy(out, plan) /\ (plan = previous \/ plan \in Seq(New))
  BY <1>3, <1>5, OutstandingPlanSettles
<1>7. plan \in Seq(Transfer) /\ After(out, plan) = Nought
  BY <1>6 DEF SettledBy
<1>8. PICK r : r = Joined(paid, plan)
  OBVIOUS
<1>9. Reconcile(order, expenses, rounded, direct, paid, previous) = r
  BY <1>1, <1>2, <1>3, <1>4, <1>5, <1>8 DEF Reconcile
<1>10. Follows(r, paid, plan, Len(paid), Len(plan))
  <2>1. Len(paid) \in Nat
    BY <1>0
  <2> QED BY <1>7, <1>8, <2>1, JoinedFollows
<1>11. Settled(b, rounded, r)
  <2> SUFFICES ASSUME NEW p \in Participant
               PROVE  After(b, r)[p] \in IF rounded THEN 1 - Unit .. Unit - 1 ELSE {0}
    BY DEF Settled
  <2>1. After(b, r) = After(left, plan)
    BY <1>2, <1>7, <1>8, JoinedMoves
  <2>2. After(left, plan)[p] - After(out, plan)[p] = left[p] - out[p]
    BY <1>7, AfterShift
  <2>3. After(out, plan)[p] = 0
    BY <1>7 DEF Nought
  <2>4. After(left, plan) \in Balance
    BY <1>7, AfterFold
  <2>5. PICK x \in Int, y \in Int, z \in Int : x = left[p] /\ y = out[p] /\ z = After(left, plan)[p]
    BY <2>4 DEF Balance
  <2>6. z = x - y
    BY <2>2, <2>3, <2>5
  <2>7. CASE rounded
    <3>1. y - x \in (1 - Unit)..(Unit - 1)
      BY <1>3, <2>5 DEF Near
    <3>2. x - y \in (1 - Unit)..(Unit - 1)
      BY <3>1, UnitType
    <3> QED BY <2>1, <2>5, <2>6, <2>7, <3>2
  <2>8. CASE ~rounded
    <3>1. x = y
      BY <1>3, <2>5, <2>8
    <3>2. z = 0
      BY <2>6, <3>1
    <3> QED BY <2>1, <2>5, <2>8, <3>2
  <2> QED BY <2>7, <2>8
<1> QED BY <1>1, <1>7, <1>6, <1>8, <1>9, <1>10, <1>11

-----------------------------------------------------------------------------
(* Rows that are paid and rows that are not. *)

LEMMA AmongNamed ==
  ASSUME NEW rows \in Named, NEW places
  PROVE  Among(rows, places) \in Named
<1>1. rows \in Seq(Transfer) /\ \A i, j \in 1..Len(rows) : rows[i].id = rows[j].id => i = j
  BY DEF Named
<1>2. PICK r \in Seq(Transfer) : r = Among(rows, places) /\ Consists(r, rows, places)
  BY <1>1, AmongElements
<1>3. ASSUME NEW j \in 1..Len(r), NEW k \in 1..Len(r), r[j].id = r[k].id
      PROVE  j = k
  <2> SUFFICES ASSUME j # k PROVE FALSE
    OBVIOUS
  <2>1. PICK h \in 1..Len(rows), i \in 1..Len(rows) : h # i /\ r[j] = rows[h] /\ r[k] = rows[i]
    BY <1>2 DEF Consists
  <2> QED BY <1>1, <1>3, <2>1
<1> QED BY <1>2, <1>3 DEF Named

\* r is the rows that are paid, or those that are not.
Sifted(r, rows, paid) ==
  /\ r \in Named
  /\ \A k \in 1..Len(r) : r[k].paid = paid /\ \E i \in 1..Len(rows) : r[k] = rows[i]
  /\ \A i \in 1..Len(rows) : rows[i].paid = paid => \E k \in 1..Len(r) : r[k] = rows[i]

\* What is paid and what is pending of a list, in its order.
LEMMA Sifts ==
  ASSUME NEW rows \in Named
  PROVE  Sifted(Paid(rows), rows, TRUE) /\ Sifted(Pending(rows), rows, FALSE)
<1>1. rows \in Seq(Transfer)
  BY DEF Named
<1>2. PICK n \in Nat : n = Len(rows) /\ DOMAIN rows = 1..n
  BY <1>1
<1>3. \A i \in 1..n : rows[i].paid \in BOOLEAN
  BY <1>1, <1>2 DEF Transfer
<1>4. ASSUME NEW paid \in BOOLEAN, NEW places, places = {i \in 1..n : rows[i].paid = paid}, NEW r,
             r = Among(rows, places)
      PROVE  Sifted(r, rows, paid)
  <2>1. r \in Named
    BY <1>4, AmongNamed
  <2>2. Consists(r, rows, places)
    BY <1>1, <1>4, AmongElements
  <2>3. \A k \in 1..Len(r) : \E i \in 1..n : i \in places /\ r[k] = rows[i]
    BY <1>2, <2>2 DEF Consists
  <2>4. \A i \in 1..n : i \in places => \E k \in 1..Len(r) : r[k] = rows[i]
    BY <1>2, <2>2 DEF Consists
  <2>5. \A k \in 1..Len(r) : r[k].paid = paid /\ \E i \in 1..Len(rows) : r[k] = rows[i]
    BY <1>2, <1>4, <2>3
  <2>6. \A i \in 1..Len(rows) : rows[i].paid = paid => \E k \in 1..Len(r) : r[k] = rows[i]
    BY <1>2, <1>4, <2>4
  <2> QED BY <2>1, <2>5, <2>6 DEF Sifted
<1>5. {i \in 1..n : rows[i].paid} = {i \in 1..n : rows[i].paid = TRUE}
  BY <1>3
<1>6. {i \in 1..n : ~rows[i].paid} = {i \in 1..n : rows[i].paid = FALSE}
  BY <1>3
<1>7. Paid(rows) = Among(rows, {i \in 1..n : rows[i].paid = TRUE})
  BY <1>2, <1>5 DEF Paid
<1>8. Pending(rows) = Among(rows, {i \in 1..n : rows[i].paid = FALSE})
  BY <1>2, <1>6 DEF Pending
<1>9. Sifted(Paid(rows), rows, TRUE)
  BY <1>4, <1>7
<1>10. Sifted(Pending(rows), rows, FALSE)
  BY <1>4, <1>8
<1> QED BY <1>9, <1>10

\* Rows whose names are free keep them.
LEMMA JoinedSame ==
  ASSUME NEW paid \in Named
  PROVE  \A plan \in Seq(Transfer) : paid \o plan \in Named => Joined(paid, plan) = paid \o plan
<1> DEFINE B == {plan \in Seq(Transfer) : paid \o plan \in Named => Joined(paid, plan) = paid \o plan}
<1>0. paid \in Seq(Transfer)
  BY DEF Named
<1>1. <<>> \in B
  <2>1. paid \o <<>> = paid /\ <<>> \in Seq(Transfer)
    BY <1>0, ConcatEmptySeq, EmptySeq
  <2> QED BY <2>1, JoinedFold
<1>2. ASSUME NEW plan \in Seq(Transfer), NEW t \in Transfer, plan \in B
      PROVE  Append(plan, t) \in B
  <2>1. paid \o Append(plan, t) = Append(paid \o plan, t)
    BY <1>0, ConcatAppend
  <2>2. PICK s \in Seq(Transfer) : s = paid \o plan
    BY <1>0, ConcatProperties
  <2>3. Append(plan, t) \in Seq(Transfer)
    BY AppendProperties
  <2> SUFFICES ASSUME Append(s, t) \in Named
               PROVE  Joined(paid, Append(plan, t)) = Append(s, t)
    BY <2>1, <2>2, <2>3
  <2>4. PICK n \in Nat : n = Len(s)
    OBVIOUS
  <2>5. PICK more : more = Append(s, t)
    OBVIOUS
  <2>6. Len(more) = n + 1 /\ more[n + 1] = t /\ \A i \in 1..n : more[i] = s[i]
    BY <2>4, <2>5
  <2>7. \A i, j \in 1..(n + 1) : more[i].id = more[j].id => i = j
    BY <2>5, <2>6 DEF Named
  <2>8. s \in Named
    <3>1. \A i, j \in 1..n : s[i].id = s[j].id => i = j
      BY <2>6, <2>7
    <3> QED BY <2>4, <3>1 DEF Named
  <2>9. \A i \in 1..n : s[i].id # t.id
    BY <2>6, <2>7
  <2>10. t.id \notin Ids(s)
    BY <2>4, <2>9, IdsOf
  <2>11. UniqueId(t.id, Ids(s)) = t.id
    BY <2>10 DEF UniqueId
  <2>12. [t EXCEPT !.id = t.id] = t
    BY DEF Transfer
  <2>13. JoinOne(s, t) = Append(s, t)
    BY <2>11, <2>12 DEF JoinOne
  <2>14. Joined(paid, plan) = s
    BY <1>2, <2>2, <2>8
  <2>15. Joined(paid, Append(plan, t)) = JoinOne(Joined(paid, plan), t)
    BY JoinedFold
  <2> QED BY <2>13, <2>14, <2>15
<1> HIDE DEF B
<1>3. \A plan \in Seq(Transfer) : plan \in B
  BY <1>1, <1>2, ListInduction
<1> QED BY <1>3 DEF B

\* Only who pays whom, and how much, counts.
SameMoves(r, s) ==
  /\ Len(r) = Len(s)
  /\ \A i \in 1..Len(s) : r[i].from = s[i].from /\ r[i].to = s[i].to /\ r[i].amount = s[i].amount

\* Names and statuses do not change what transfers move.
LEMMA AfterSameMoves ==
  ASSUME NEW b \in Balance
  PROVE  \A s \in Seq(Transfer) : \A r \in Seq(Transfer) : SameMoves(r, s) => After(b, r) = After(b, s)
<1> DEFINE B == {s \in Seq(Transfer) : \A r \in Seq(Transfer) : SameMoves(r, s) => After(b, r) = After(b, s)}
<1>1. <<>> \in B
  <2>1. <<>> \in Seq(Transfer) /\ Len(<<>>) = 0
    BY EmptySeq
  <2>2. ASSUME NEW r \in Seq(Transfer), SameMoves(r, <<>>)
        PROVE  r = <<>>
    BY <2>1, <2>2, EmptySeq DEF SameMoves
  <2> QED BY <2>1, <2>2
<1>2. ASSUME NEW s \in Seq(Transfer), NEW t \in Transfer, s \in B
      PROVE  Append(s, t) \in B
  <2>1. Append(s, t) \in Seq(Transfer)
    BY AppendProperties
  <2>2. ASSUME NEW r \in Seq(Transfer), SameMoves(r, Append(s, t))
        PROVE  After(b, r) = After(b, Append(s, t))
    <3>1. PICK n \in Nat : n = Len(s)
      OBVIOUS
    <3>2. PICK more : more = Append(s, t)
      OBVIOUS
    <3>3. Len(more) = n + 1 /\ more[n + 1] = t /\ \A i \in 1..n : more[i] = s[i]
      BY <3>1, <3>2
    <3>4. /\ Len(r) = n + 1 /\ DOMAIN r = 1..(n + 1)
          /\ \A i \in 1..(n + 1) : r[i].from = more[i].from /\ r[i].to = more[i].to /\ r[i].amount = more[i].amount
      BY <2>2, <3>2, <3>3 DEF SameMoves
    <3> DEFINE q == [i \in 1..n |-> r[i]]
    <3>5. q \in Seq(Transfer) /\ Len(q) = n /\ \A i \in 1..n : q[i] = r[i]
      BY <3>4
    <3> HIDE DEF q
    <3>6. PICK u \in Transfer : u = r[n + 1]
      BY <3>4
    <3>7. r = Append(q, u)
      BY <3>4, <3>5, <3>6
    <3>8. SameMoves(q, s)
      BY <3>1, <3>3, <3>4, <3>5 DEF SameMoves
    <3>9. After(b, q) = After(b, s) /\ After(b, s) \in Balance
      BY <1>2, <3>5, <3>8, AfterFold
    <3>10. n + 1 \in 1..(n + 1)
      OBVIOUS
    <3>11. u.from = t.from /\ u.to = t.to /\ u.amount = t.amount
      BY <3>3, <3>4, <3>6, <3>10
    <3>12. Moved(After(b, s), u) = Moved(After(b, s), t)
      BY <3>11 DEF Moved
    <3>13. After(b, Append(q, u)) = Moved(After(b, q), u) /\ After(b, Append(s, t)) = Moved(After(b, s), t)
      BY <3>5, AfterFold
    <3> QED BY <3>7, <3>9, <3>12, <3>13
  <2> QED BY <2>1, <2>2
<1> HIDE DEF B
<1>3. \A s \in Seq(Transfer) : s \in B
  BY <1>1, <1>2, ListInduction
<1> QED BY <1>3 DEF B
=============================================================================
