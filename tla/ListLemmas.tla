----------------------------- MODULE ListLemmas -----------------------------
(***************************************************************************)
(* Facts about sets of naturals and sequences that the proofs about the    *)
(* autopilot rest on.                                                      *)
(***************************************************************************)
EXTENDS SequencesExt, SequenceTheorems, FiniteSetTheorems, WellFoundedInduction, TLAPS

(* A nonempty set of naturals has a least element.                          *)
LEMMA LeastExists ==
  ASSUME NEW S \in SUBSET Nat, S # {}
  PROVE  \E i \in S : \A j \in S : i <= j
<1>1. \E i \in S : \A j \in S : ~ (<<j, i>> \in OpToRel(<, Nat))
  BY NatLessThanWellFounded, WFMin
<1>2. \A i, j \in S : ~ (<<j, i>> \in OpToRel(<, Nat)) => i <= j
  BY DEF OpToRel
<1> QED BY <1>1, <1>2

(* A nonempty set of naturals up to n has a greatest element.               *)
LEMMA GreatestExists ==
  ASSUME NEW n \in Nat, NEW S \in SUBSET (0 .. n), S # {}
  PROVE  \E i \in S : \A j \in S : j <= i
<1> DEFINE T == {n - i : i \in S}
<1>1. T \in SUBSET Nat /\ T # {}
  <2>1. \A i \in 0 .. n : n - i \in Nat
    OBVIOUS
  <2> QED BY <2>1
<1>2. PICK t \in T : \A u \in T : t <= u
  BY <1>1, LeastExists
<1>3. PICK i \in S : t = n - i
  BY <1>2
<1>4. \A j \in S : j <= i
  BY <1>2, <1>3
<1> QED BY <1>4

(* A sequence without one of its elements is one over the same set.         *)
LEMMA RemoveAtType ==
  ASSUME NEW S, NEW s \in Seq(S), NEW i \in 1 .. Len(s)
  PROVE  RemoveAt(s, i) \in Seq(S)
<1>1. \A j \in 1 .. Len(s) : s[j] \in S
  BY ElementOfSeq
<1>2. SubSeq(s, 1, i - 1) \in Seq(S) /\ SubSeq(s, i + 1, Len(s)) \in Seq(S)
  BY <1>1, SubSeqProperties
<1> QED BY <1>2, ConcatProperties, Zenon DEF RemoveAt

(* A function on 1 .. n is a sequence.                                      *)
LEMMA FunctionIsSeq ==
  ASSUME NEW S, NEW n \in Nat, NEW f \in [1 .. n -> S]
  PROVE  f \in Seq(S)
BY SeqDef

(* A listing of a finite subset of S is a sequence over S.                  *)
LEMMA ListOf ==
  ASSUME NEW S, NEW T \in SUBSET S, IsFiniteSet(T), NEW f \in [1 .. Cardinality(T) -> T]
  PROVE  f \in Seq(S)
<1>1. Cardinality(T) \in Nat
  BY FS_CardinalityType
<1>2. f \in [1 .. Cardinality(T) -> S]
  OBVIOUS
<1> QED BY <1>1, <1>2, FunctionIsSeq

-----------------------------------------------------------------------------
(* A strictly increasing function grows by at least one in every step.      *)
LEMMA GrowsByOne ==
  ASSUME NEW n \in Nat, NEW f \in [1 .. n -> Int],
         \A i, j \in 1 .. n : i < j => f[i] < f[j],
         NEW j \in 1 .. n, NEW k \in j .. n
  PROVE  f[k] - f[j] >= k - j
<1> DEFINE Bad == {m \in j .. n : f[m] - f[j] < m - j}
<1>1. ASSUME Bad # {} PROVE FALSE
  <2>1. Bad \in SUBSET Nat
    OBVIOUS
  <2>2. PICK m \in Bad : \A o \in Bad : m <= o
    BY <1>1, <2>1, LeastExists
  <2>3. m \in j .. n /\ f[m] - f[j] < m - j
    BY <2>2
  <2>4. m # j /\ m - 1 \in j .. n /\ m - 1 \in 1 .. n /\ m \in 1 .. n
    BY <2>3
  <2>5. ~ (m <= m - 1)
    BY <2>3
  <2>6. ~ (f[m - 1] - f[j] < m - 1 - j)
    BY <2>2, <2>4, <2>5
  <2>7. f[m - 1] < f[m]
    BY <2>3, <2>4
  <2>8. f[m] \in Int /\ f[m - 1] \in Int /\ f[j] \in Int
    BY <2>4
  <2> QED BY <2>3, <2>6, <2>7, <2>8
<1>2. k \notin Bad
  BY <1>1
<1> QED BY <1>2

(* What is left out of a sequence when one of its elements is removed.      *)
LEMMA RemoveAtProperties ==
  ASSUME NEW S, NEW s \in Seq(S), NEW i \in 1 .. Len(s)
  PROVE  /\ RemoveAt(s, i) \in Seq(S) /\ Len(RemoveAt(s, i)) = Len(s) - 1
         /\ \A j \in 1 .. Len(s) - 1 : RemoveAt(s, i)[j] = IF j < i THEN s[j] ELSE s[j + 1]
<1>1. Len(s) \in Nat /\ \A j \in 1 .. Len(s) : s[j] \in S
  BY ElementOfSeq, LenProperties
<1> DEFINE a == SubSeq(s, 1, i - 1)
           b == SubSeq(s, i + 1, Len(s))
<1>2. /\ a \in Seq(S) /\ Len(a) = i - 1 /\ \A j \in 1 .. i - 1 : a[j] = s[j]
      /\ b \in Seq(S) /\ Len(b) = Len(s) - i /\ \A j \in 1 .. Len(s) - i : b[j] = s[j + i]
  BY <1>1, SubSeqProperties
<1>3. RemoveAt(s, i) = a \o b
  BY DEF RemoveAt
<1> HIDE DEF a, b
<1>4. a \o b \in Seq(S) /\ Len(a \o b) = Len(s) - 1
  <2>1. a \o b \in Seq(S) /\ Len(a \o b) = Len(a) + Len(b)
    BY <1>2, ConcatProperties
  <2> QED BY <1>1, <1>2, <2>1
<1>5. ASSUME NEW j \in 1 .. Len(s) - 1 PROVE (a \o b)[j] = IF j < i THEN s[j] ELSE s[j + 1]
  <2>1. (a \o b)[j] = IF j <= i - 1 THEN a[j] ELSE b[j - (i - 1)]
    BY <1>1, <1>2, ConcatProperties
  <2>2. CASE j < i
    BY <1>2, <2>1, <2>2
  <2>3. CASE ~ (j < i)
    <3>1. j - (i - 1) \in 1 .. Len(s) - i /\ j - (i - 1) + i = j + 1
      BY <1>1, <2>3
    <3> QED BY <1>2, <2>1, <2>3, <3>1
  <2> QED BY <2>2, <2>3
<1> QED BY <1>3, <1>4, <1>5

(* Removing an element of a list without repetitions. *)
LEMMA RemoveAtInjective ==
  ASSUME NEW S, NEW s \in Seq(S), IsInjective(s), NEW i \in 1 .. Len(s)
  PROVE  IsInjective(RemoveAt(s, i)) /\ ToSet(RemoveAt(s, i)) = ToSet(s) \ {s[i]}
<1> DEFINE r == RemoveAt(s, i)
           n == Len(s)
<1>1. /\ n \in Nat /\ DOMAIN s = 1 .. n
      /\ r \in Seq(S) /\ DOMAIN r = 1 .. n - 1
      /\ \A j \in 1 .. n - 1 : r[j] = IF j < i THEN s[j] ELSE s[j + 1]
  BY RemoveAtProperties, LenProperties
<1> HIDE DEF r
<1>2. \A j, k \in 1 .. n : s[j] = s[k] => j = k
  BY <1>1 DEF IsInjective
<1>3. ASSUME NEW j \in 1 .. n - 1, NEW k \in 1 .. n - 1, r[j] = r[k]
      PROVE  j = k
  BY <1>1, <1>2, <1>3
<1>4. ASSUME NEW x \in ToSet(r)
      PROVE  x \in ToSet(s) \ {s[i]}
  <2>1. PICK j \in 1 .. n - 1 : x = r[j]
    BY <1>1, <1>4 DEF ToSet
  <2>2. PICK k \in 1 .. n : k # i /\ x = s[k]
    <3>1. CASE j < i
      BY <1>1, <2>1, <3>1
    <3>2. CASE ~ (j < i)
      BY <1>1, <2>1, <3>2
    <3> QED BY <3>1, <3>2
  <2> QED BY <1>1, <1>2, <2>2 DEF ToSet
<1>5. ASSUME NEW x \in ToSet(s) \ {s[i]}
      PROVE  x \in ToSet(r)
  <2>1. PICK k \in 1 .. n : x = s[k] /\ k # i
    BY <1>1, <1>5 DEF ToSet
  <2>2. PICK j \in 1 .. n - 1 : x = r[j]
    <3>1. CASE k < i
      BY <1>1, <2>1, <3>1
    <3>2. CASE ~ (k < i)
      <4>1. k - 1 \in 1 .. n - 1 /\ ~ (k - 1 < i) /\ k - 1 + 1 = k
        BY <1>1, <2>1, <3>2
      <4> QED BY <1>1, <2>1, <4>1
    <3> QED BY <3>1, <3>2
  <2> QED BY <1>1, <2>2 DEF ToSet
<1> QED BY <1>1, <1>3, <1>4, <1>5 DEF IsInjective, r

(* Whoever lists a finite set without repetitions lists all of it.          *)
LEMMA ListsAll ==
  ASSUME NEW S, IsFiniteSet(S), NEW f \in [1 .. Cardinality(S) -> S], IsInjective(f)
  PROVE  \A x \in S : \E i \in 1 .. Cardinality(S) : f[i] = x
<1> DEFINE n == Cardinality(S)
<1>1. n \in Nat
  BY FS_CardinalityType
<1>2. IsFiniteSet(1 .. n) /\ Cardinality(1 .. n) = n
  BY <1>1, FS_Interval
<1>3. f \in Injection(1 .. n, S)
  BY DEF Injection
<1>4. f \in Surjection(1 .. n, S)
  BY <1>2, <1>3, FS_Injection
<1> QED BY <1>4 DEF Surjection

(* All but one of the numbers up to n, listed in their order.               *)
LEMMA OrderedRest ==
  ASSUME NEW n \in Nat, NEW i \in 1 .. n, NEW f \in [1 .. n - 1 -> (1 .. n) \ {i}],
         \A j, k \in 1 .. n - 1 : j < k => f[j] < f[k]
  PROVE  \A j \in 1 .. n - 1 : f[j] = IF j < i THEN j ELSE j + 1
<1>1. n - 1 \in Nat /\ f \in [1 .. n - 1 -> Int]
  OBVIOUS
<1>2. \A j \in 1 .. n - 1 : \A k \in j .. n - 1 : f[k] - f[j] >= k - j
  BY <1>1, GrowsByOne
<1>3. ASSUME NEW j \in 1 .. n - 1
      PROVE  f[j] \in {j, j + 1}
  <2>1. 1 \in 1 .. n - 1 /\ n - 1 \in 1 .. n - 1 /\ j \in 1 .. n - 1 /\ n - 1 \in j .. n - 1
    BY <1>1
  <2>2. f[j] - f[1] >= j - 1 /\ f[n - 1] - f[j] >= n - 1 - j
    BY <1>2, <2>1
  <2>3. f[1] >= 1 /\ f[n - 1] <= n /\ f[j] \in Int /\ f[1] \in Int /\ f[n - 1] \in Int
    BY <2>1
  <2> QED BY <2>2, <2>3
<1>4. ASSUME NEW j \in 1 .. n - 1
      PROVE  f[j] = IF j < i THEN j ELSE j + 1
  <2>1. CASE j < i
    <3>1. i - 1 \in 1 .. n - 1 /\ i - 1 \in j .. n - 1
      BY <2>1
    <3>2. f[i - 1] - f[j] >= i - 1 - j /\ f[i - 1] \in {i - 1, i} /\ f[i - 1] # i
      BY <1>2, <1>3, <3>1
    <3> QED BY <1>3, <2>1, <3>2
  <2>2. CASE ~ (j < i)
    <3>1. i \in 1 .. n - 1 /\ j \in i .. n - 1
      BY <2>2
    <3>2. f[j] - f[i] >= j - i /\ f[i] \in {i, i + 1} /\ f[i] # i
      BY <1>2, <1>3, <3>1
    <3> QED BY <1>3, <2>2, <3>2
  <2> QED BY <2>1, <2>2
<1> QED BY <1>4

(* What RemoveAt leaves, by positions.                                      *)
LEMMA IsRemoveAt ==
  ASSUME NEW S, NEW s \in Seq(S), NEW i \in 1 .. Len(s), NEW r \in [1 .. Len(s) - 1 -> S],
         \A j \in 1 .. Len(s) - 1 : r[j] = IF j < i THEN s[j] ELSE s[j + 1]
  PROVE  r = RemoveAt(s, i)
<1>1. Len(s) - 1 \in Nat /\ DOMAIN r = 1 .. Len(s) - 1
  BY LenProperties
<1>2. r \in Seq(S)
  BY <1>1, FunctionIsSeq
<1>3. Len(r) = Len(s) - 1
  BY <1>1, <1>2, LenProperties
<1> DEFINE t == RemoveAt(s, i)
<1>4. /\ t \in Seq(S) /\ Len(t) = Len(s) - 1
      /\ \A j \in 1 .. Len(s) - 1 : t[j] = IF j < i THEN s[j] ELSE s[j + 1]
  BY RemoveAtProperties
<1> HIDE DEF t
<1>5. \A j \in 1 .. Len(r) : r[j] = t[j]
  BY <1>3, <1>4
<1> QED BY <1>2, <1>3, <1>4, <1>5, SeqEqual DEF t

-----------------------------------------------------------------------------
(* The function that FlattenSeq defines: the concatenations of all prefixes. *)
Flattens(f, s) ==
  f = [i \in 1 .. Len(s) |-> IF i = 1 THEN s[i] ELSE f[i - 1] \o s[i]]

(* FlattenSeq, with that function named. *)
LEMMA FlattenDef ==
  ASSUME NEW s
  PROVE  FlattenSeq(s) = IF Len(s) = 0 THEN s ELSE (CHOOSE f : Flattens(f, s))[Len(s)]
BY DEF FlattenSeq, Flattens

(* There is at most one such function. *)
LEMMA FlattensUnique ==
  ASSUME NEW S, NEW s \in Seq(S), NEW f, NEW g, Flattens(f, s), Flattens(g, s)
  PROVE  f = g
<1> DEFINE Bad == {i \in 1 .. Len(s) : f[i] # g[i]}
<1>1. Len(s) \in Nat
  BY LenProperties
<1>2. /\ f = [i \in 1 .. Len(s) |-> IF i = 1 THEN s[i] ELSE f[i - 1] \o s[i]]
      /\ g = [i \in 1 .. Len(s) |-> IF i = 1 THEN s[i] ELSE g[i - 1] \o s[i]]
  BY DEF Flattens
<1>3. ASSUME Bad # {} PROVE FALSE
  <2>1. Bad \in SUBSET Nat
    OBVIOUS
  <2>2. PICK i \in Bad : \A j \in Bad : i <= j
    BY <1>3, <2>1, LeastExists
  <2>3. i \in 1 .. Len(s) /\ f[i] # g[i]
    BY <2>2
  <2>4. i # 1
    BY <1>2, <2>3
  <2>5. i - 1 \in 1 .. Len(s) /\ ~ (i <= i - 1)
    BY <1>1, <2>3, <2>4
  <2>6. f[i - 1] = g[i - 1]
    BY <2>2, <2>5
  <2>7. f[i] = f[i - 1] \o s[i] /\ g[i] = g[i - 1] \o s[i]
    BY <1>2, <2>3, <2>4
  <2> QED BY <2>3, <2>6, <2>7
<1>4. \A i \in 1 .. Len(s) : f[i] = g[i]
  BY <1>3
<1> HIDE DEF Bad
<1> QED BY <1>2, <1>4

(* It is extended by one value when a sequence is appended. *)
LEMMA FlattensAppend ==
  ASSUME NEW S, NEW s \in Seq(Seq(S)), NEW x \in Seq(S), NEW f, Flattens(f, s)
  PROVE  Flattens([i \in 1 .. Len(s) + 1 |->
                     IF i <= Len(s) THEN f[i] ELSE IF Len(s) = 0 THEN x ELSE f[Len(s)] \o x],
                  Append(s, x))
<1> DEFINE t == Append(s, x)
           n == Len(s)
           g == [i \in 1 .. n + 1 |-> IF i <= n THEN f[i] ELSE IF n = 0 THEN x ELSE f[n] \o x]
<1>1. n \in Nat
  BY LenProperties
<1>2. Len(t) = n + 1 /\ t[n + 1] = x /\ \A i \in 1 .. n : t[i] = s[i]
  BY AppendProperties
<1>3. f = [i \in 1 .. n |-> IF i = 1 THEN s[i] ELSE f[i - 1] \o s[i]]
  BY DEF Flattens
<1> HIDE DEF t, n
<1>4. ASSUME NEW i \in 1 .. n + 1
      PROVE  g[i] = IF i = 1 THEN t[i] ELSE g[i - 1] \o t[i]
  <2>1. CASE i <= n
    <3>1. i \in 1 .. n /\ (i # 1 => i - 1 \in 1 .. n)
      BY <1>1, <2>1
    <3>2. g[i] = f[i] /\ (i # 1 => g[i - 1] = f[i - 1])
      BY <1>1, <2>1, <3>1
    <3>3. f[i] = IF i = 1 THEN s[i] ELSE f[i - 1] \o s[i]
      BY <1>3, <3>1
    <3> QED BY <1>2, <3>1, <3>2, <3>3
  <2>2. CASE i = n + 1
    <3>1. g[i] = IF n = 0 THEN x ELSE f[n] \o x
      BY <1>1, <2>2
    <3>2. n # 0 => g[i - 1] = f[n] /\ i # 1
      BY <1>1, <2>2
    <3> QED BY <1>1, <1>2, <2>2, <3>1, <3>2
  <2> QED BY <1>1, <2>1, <2>2
<1>5. g = [i \in 1 .. Len(t) |-> IF i = 1 THEN t[i] ELSE g[i - 1] \o t[i]]
  BY <1>2, <1>4
<1> QED BY <1>5 DEF Flattens, t, n

(* There is one for every sequence of sequences. *)
LEMMA FlattensExists ==
  ASSUME NEW S, NEW s \in Seq(Seq(S))
  PROVE  \E f : Flattens(f, s)
<1> DEFINE Bad == {n \in Nat : \E t \in Seq(Seq(S)) : Len(t) = n /\ ~ \E f : Flattens(f, t)}
<1>1. ASSUME Bad # {} PROVE FALSE
  <2>1. PICK n \in Bad : \A m \in Bad : n <= m
    BY <1>1, LeastExists
  <2>2. PICK t \in Seq(Seq(S)) : Len(t) = n /\ ~ \E f : Flattens(f, t)
    BY <2>1
  <2>3. CASE t = <<>>
    <3>1. Len(t) = 0
      BY <2>3
    <3>2. Flattens([i \in {} |-> <<>>], t)
      BY <3>1 DEF Flattens
    <3> QED BY <2>2, <3>2
  <2>4. CASE t # <<>>
    <3>1. PICK u \in Seq(Seq(S)), x \in Seq(S) : t = Append(u, x)
      BY <2>4, SequenceEmptyOrAppend
    <3>2. Len(u) \in Nat /\ n = Len(u) + 1
      BY <2>2, <3>1, AppendProperties, LenProperties
    <3>3. ~ (n <= Len(u))
      BY <3>2
    <3>4. PICK f : Flattens(f, u)
      BY <2>1, <3>2, <3>3
    <3> QED BY <2>2, <3>1, <3>4, FlattensAppend
  <2> QED BY <2>3, <2>4
<1>2. Len(s) \in Nat
  BY LenProperties
<1> QED BY <1>1, <1>2

(* Nothing, flattened. *)
LEMMA FlattenEmpty == FlattenSeq(<<>>) = <<>>
BY EmptySeq, FlattenDef

(* Flattening with one more sequence at the end. *)
LEMMA FlattenAppendRaw ==
  ASSUME NEW S, NEW s \in Seq(Seq(S)), NEW x \in Seq(S)
  PROVE  FlattenSeq(Append(s, x)) = IF s = <<>> THEN x ELSE FlattenSeq(s) \o x
<1> DEFINE f == CHOOSE g : Flattens(g, s)
           h == CHOOSE g : Flattens(g, Append(s, x))
           n == Len(s)
           k == [i \in 1 .. n + 1 |-> IF i <= n THEN f[i] ELSE IF n = 0 THEN x ELSE f[n] \o x]
<1>1. Append(s, x) \in Seq(Seq(S)) /\ Len(Append(s, x)) = n + 1 /\ n \in Nat
  BY AppendProperties, LenProperties
<1>2. Flattens(f, s) /\ Flattens(h, Append(s, x))
  BY <1>1, FlattensExists
<1>3. Flattens(k, Append(s, x))
  BY <1>2, FlattensAppend
<1>4. h = k
  BY <1>1, <1>2, <1>3, FlattensUnique
<1>5. FlattenSeq(Append(s, x)) = h[n + 1]
  <2>1. Len(Append(s, x)) = n + 1 /\ n + 1 # 0
    BY <1>1
  <2> QED BY <2>1, FlattenDef, Zenon
<1>6. n # 0 => FlattenSeq(s) = f[n]
  BY FlattenDef
<1>7. n = 0 <=> s = <<>>
  BY <1>1, EmptySeq
<1> HIDE DEF f, h, n
<1>8. k[n + 1] = IF n = 0 THEN x ELSE f[n] \o x
  <2>1. n + 1 \in 1 .. n + 1 /\ ~ (n + 1 <= n)
    BY <1>1
  <2> QED BY <2>1
<1> HIDE DEF k
<1> QED BY <1>4, <1>5, <1>6, <1>7, <1>8

(* What is flattened is a sequence. *)
LEMMA FlattenType ==
  ASSUME NEW S, NEW s \in Seq(Seq(S))
  PROVE  FlattenSeq(s) \in Seq(S)
<1> DEFINE Bad == {n \in Nat : \E t \in Seq(Seq(S)) : Len(t) = n /\ FlattenSeq(t) \notin Seq(S)}
<1>1. ASSUME Bad # {} PROVE FALSE
  <2>1. PICK n \in Bad : \A m \in Bad : n <= m
    BY <1>1, LeastExists
  <2>2. PICK t \in Seq(Seq(S)) : Len(t) = n /\ FlattenSeq(t) \notin Seq(S)
    BY <2>1
  <2>3. t # <<>>
    BY <2>2, FlattenEmpty, EmptySeq
  <2>4. PICK u \in Seq(Seq(S)), x \in Seq(S) : t = Append(u, x)
    BY <2>3, SequenceEmptyOrAppend
  <2>5. Len(u) \in Nat /\ n = Len(u) + 1 /\ ~ (n <= Len(u))
    BY <2>2, <2>4, AppendProperties, LenProperties
  <2>6. FlattenSeq(u) \in Seq(S)
    BY <2>1, <2>5
  <2>7. FlattenSeq(t) = IF u = <<>> THEN x ELSE FlattenSeq(u) \o x
    BY <2>4, FlattenAppendRaw
  <2> QED BY <2>2, <2>6, <2>7, ConcatProperties
<1>2. Len(s) \in Nat
  BY LenProperties
<1> QED BY <1>1, <1>2

(* The same, without the exception of the first one. *)
LEMMA FlattenAppend ==
  ASSUME NEW S, NEW s \in Seq(Seq(S)), NEW x \in Seq(S)
  PROVE  FlattenSeq(Append(s, x)) = FlattenSeq(s) \o x
<1>1. CASE s = <<>>
  BY <1>1, FlattenAppendRaw, FlattenEmpty, ConcatEmptySeq
<1>2. CASE s # <<>>
  BY <1>2, FlattenAppendRaw
<1> QED BY <1>1, <1>2

(* Concatenation is associative. *)
LEMMA Associative == \A S : \A a, b, c \in Seq(S) : (a \o b) \o c = a \o (b \o c)
BY ConcatAssociative, SMT

(* Flattening respects concatenation. *)
LEMMA FlattenConcat ==
  ASSUME NEW S, NEW s \in Seq(Seq(S)), NEW t \in Seq(Seq(S))
  PROVE  FlattenSeq(s \o t) = FlattenSeq(s) \o FlattenSeq(t)
<1> DEFINE Good(u) == FlattenSeq(s \o u) = FlattenSeq(s) \o FlattenSeq(u)
           Bad == {n \in Nat : \E u \in Seq(Seq(S)) : Len(u) = n /\ ~Good(u)}
<1>1. ASSUME Bad # {} PROVE FALSE
  <2>1. PICK n \in Bad : \A m \in Bad : n <= m
    BY <1>1, LeastExists
  <2>2. PICK u \in Seq(Seq(S)) : Len(u) = n /\ ~Good(u)
    BY <2>1
  <2>3. u # <<>>
    <3>1. s \o <<>> = s
      BY ConcatEmptySeq
    <3>2. FlattenSeq(s) \in Seq(S)
      BY FlattenType
    <3>3. FlattenSeq(s) \o <<>> = FlattenSeq(s)
      BY <3>2, ConcatEmptySeq
    <3>4. Good(<<>>)
      BY <3>1, <3>3, FlattenEmpty
    <3> QED BY <2>2, <3>4
  <2>4. PICK v \in Seq(Seq(S)), x \in Seq(S) : u = Append(v, x)
    BY <2>3, SequenceEmptyOrAppend
  <2>5. Len(v) \in Nat /\ n = Len(v) + 1 /\ ~ (n <= Len(v))
    BY <2>2, <2>4, AppendProperties, LenProperties
  <2>6. Good(v)
    BY <2>1, <2>5
  <2>7. s \o u = Append(s \o v, x) /\ s \o v \in Seq(Seq(S))
    <3>1. <<x>> \in Seq(Seq(S)) /\ s \o v \in Seq(Seq(S))
      BY ConcatProperties
    <3>2. u = v \o <<x>> /\ Append(s \o v, x) = (s \o v) \o <<x>>
      BY <2>4, <3>1, AppendIsConcat
    <3> QED BY <3>1, <3>2, ConcatAssociative
  <2>8. FlattenSeq(s \o u) = FlattenSeq(s \o v) \o x
    BY <2>7, FlattenAppend
  <2>9. FlattenSeq(u) = FlattenSeq(v) \o x
    BY <2>4, FlattenAppend
  <2>10. /\ FlattenSeq(s) \in Seq(S) /\ FlattenSeq(v) \in Seq(S)
    BY FlattenType
  <2> HIDE DEF Good, Bad
  <2>11. (FlattenSeq(s) \o FlattenSeq(v)) \o x = FlattenSeq(s) \o (FlattenSeq(v) \o x)
    BY <2>10, Associative, SMT
  <2> QED BY <2>2, <2>6, <2>8, <2>9, <2>11 DEF Good
<1>2. Len(t) \in Nat
  BY LenProperties
<1> QED BY <1>1, <1>2
=============================================================================
