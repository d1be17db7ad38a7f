--------------------------- MODULE DriveListProofs ---------------------------
(***************************************************************************)
(* Theorems about the way of the news from the drive collector over the    *)
(* channel to the converger's list of drives (ListInv is the inductive     *)
(* invariant).                                                             *)
(***************************************************************************)
EXTENDS AutopilotProofs

(* The drives on a list of the drives K once it has followed the first i of *)
(* the news U: the ones that came last with an addition.                    *)
Following(K, U, i) ==
  {d \in Drives :
     \/ \E j \in 1 .. i : U[j] = L!Added(d) /\ \A k \in j + 1 .. i : U[k] # L!Gone(d)
     \/ d \in K /\ \A k \in 1 .. i : U[k] # L!Gone(d)}

Changes == [change : {"added", "removed"}, disk : Drives]

(* Additions and removals are different, and tell their disk.               *)
LEMMA ChangesDiffer ==
  /\ \A d, e : L!Added(d) # L!Gone(e)
  /\ \A d, e : L!Added(d) = L!Added(e) => d = e
  /\ \A d, e : L!Gone(d) = L!Gone(e) => d = e
  /\ \A c \in Changes : c = L!Added(c.disk) \/ c = L!Gone(c.disk)
  /\ \A d \in Drives : L!Added(d) \in Changes /\ L!Gone(d) \in Changes
BY DEF L!Added, L!Gone, Changes

(* To follow the first of the news is to leave one less to follow.          *)
LEMMA FollowFirst ==
  ASSUME NEW U \in Seq(Changes), U # <<>>, NEW K \in SUBSET Drives, NEW J \in SUBSET Drives,
         NEW i \in 0 .. Len(U) - 1,
         \A d \in Drives : d \in J <=> \/ U[1] = L!Added(d)
                                       \/ d \in K /\ U[1] # L!Gone(d)
  PROVE  Following(J, Tail(U), i) = Following(K, U, i + 1)
<1>1. /\ Len(U) \in Nat /\ Len(Tail(U)) = Len(U) - 1
      /\ \A j \in 1 .. Len(U) - 1 : Tail(U)[j] = U[j + 1]
  BY HeadTailProperties, LenProperties
<1> DEFINE V == Tail(U)
<1>2. \A j \in 1 .. i : V[j] = U[j + 1] /\ j + 1 \in 1 .. i + 1
  BY <1>1
<1>3. \A k \in 2 .. i + 1 : k - 1 \in 1 .. i /\ V[k - 1] = U[k]
  BY <1>1
<1> HIDE DEF V
<1>4. ASSUME NEW d \in Drives
      PROVE  (\A k \in 1 .. i : V[k] # L!Gone(d)) <=> \A k \in 2 .. i + 1 : U[k] # L!Gone(d)
  <2>1. ASSUME \A k \in 1 .. i : V[k] # L!Gone(d), NEW k \in 2 .. i + 1
        PROVE  U[k] # L!Gone(d)
    BY <1>3, <2>1
  <2>2. ASSUME \A k \in 2 .. i + 1 : U[k] # L!Gone(d), NEW k \in 1 .. i
        PROVE  V[k] # L!Gone(d)
    <3>1. k + 1 \in 2 .. i + 1
      OBVIOUS
    <3> QED BY <1>2, <2>2, <3>1
  <2> QED BY <2>1, <2>2
<1>5. ASSUME NEW d \in Drives, d \in Following(J, V, i)
      PROVE  d \in Following(K, U, i + 1)
  <2>1. CASE d \in J /\ \A k \in 1 .. i : V[k] # L!Gone(d)
    <3>1. \A k \in 2 .. i + 1 : U[k] # L!Gone(d)
      BY <1>4, <2>1
    <3>2. CASE U[1] = L!Added(d)
      BY <3>1, <3>2 DEF Following
    <3>3. CASE d \in K /\ U[1] # L!Gone(d)
      BY <3>1, <3>3 DEF Following
    <3> QED BY <2>1, <3>2, <3>3
  <2>2. CASE ~ (d \in J /\ \A k \in 1 .. i : V[k] # L!Gone(d))
    <3>1. PICK j \in 1 .. i : V[j] = L!Added(d) /\ \A k \in j + 1 .. i : V[k] # L!Gone(d)
      BY <1>5, <2>2 DEF Following
    <3>2. j + 1 \in 1 .. i + 1 /\ U[j + 1] = L!Added(d)
      BY <1>2, <3>1
    <3>3. \A k \in j + 2 .. i + 1 : k \in 2 .. i + 1 /\ k - 1 \in j + 1 .. i
      OBVIOUS
    <3>4. \A k \in j + 2 .. i + 1 : U[k] # L!Gone(d)
      BY <1>3, <3>1, <3>3
    <3> QED BY <3>2, <3>4 DEF Following
  <2> QED BY <2>1, <2>2
<1>6. ASSUME NEW d \in Drives, d \in Following(K, U, i + 1)
      PROVE  d \in Following(J, V, i)
  <2>1. CASE d \in J /\ \A k \in 2 .. i + 1 : U[k] # L!Gone(d)
    BY <1>4, <2>1 DEF Following
  <2>2. CASE ~ (d \in J /\ \A k \in 2 .. i + 1 : U[k] # L!Gone(d))
    <3>1. ~ (d \in K /\ \A k \in 1 .. i + 1 : U[k] # L!Gone(d))
      <4>1. 1 \in 1 .. i + 1 /\ \A k \in 2 .. i + 1 : k \in 1 .. i + 1
        OBVIOUS
      <4> QED BY <2>2, <4>1
    <3>2. PICK j \in 1 .. i + 1 : U[j] = L!Added(d) /\ \A k \in j + 1 .. i + 1 : U[k] # L!Gone(d)
      BY <1>6, <3>1 DEF Following
    <3>3. j # 1
      BY <2>2, <3>2
    <3>4. j - 1 \in 1 .. i /\ V[j - 1] = L!Added(d)
      BY <1>3, <3>2, <3>3
    <3>5. \A k \in j - 1 + 1 .. i : k \in 1 .. i /\ k + 1 \in j + 1 .. i + 1
      BY <3>3
    <3>6. \A k \in j - 1 + 1 .. i : V[k] # L!Gone(d)
      BY <1>2, <3>2, <3>5
    <3> QED BY <3>4, <3>6 DEF Following
  <2> QED BY <2>1, <2>2
<1> QED BY <1>5, <1>6 DEF Following, V

(* News that come in do not change what follows from the ones before them.  *)
LEMMA FollowPrefix ==
  ASSUME NEW U \in Seq(Changes), NEW V \in Seq(Changes), NEW K, NEW i \in 0 .. Len(U)
  PROVE  Following(K, U \o V, i) = Following(K, U, i)
<1>1. Len(U) \in Nat /\ Len(V) \in Nat
  BY LenProperties
<1>2. \A j \in 1 .. i : (U \o V)[j] = U[j]
  BY <1>1, ConcatProperties
<1>3. \A j \in 1 .. i : \A k \in j + 1 .. i : k \in 1 .. i
  OBVIOUS
<1> QED BY <1>2, <1>3 DEF Following

(* To follow what has come in is to go on from where the others lead.       *)
LEMMA FollowOn ==
  ASSUME NEW U \in Seq(Changes), NEW V \in Seq(Changes), NEW K \in SUBSET Drives,
         NEW i \in 0 .. Len(V)
  PROVE  Following(K, U \o V, Len(U) + i) = Following(Following(K, U, Len(U)), V, i)
<1> DEFINE n == Len(U)
           W == U \o V
           J == Following(K, U, n)
<1>1. n \in Nat /\ Len(V) \in Nat
  BY LenProperties
<1>2. \A j \in 1 .. n : W[j] = U[j]
  BY <1>1, ConcatProperties
<1>3. \A j \in 1 .. i : W[n + j] = V[j]
  <2>1. ASSUME NEW j \in 1 .. i PROVE W[n + j] = V[j]
    <3>1. n + j \in 1 .. n + Len(V) /\ ~ (n + j <= n) /\ n + j - n = j
      BY <1>1
    <3> QED BY <1>1, <3>1, ConcatProperties
  <2> QED BY <2>1
<1>4. \A k \in n + 1 .. n + i : k - n \in 1 .. i /\ W[k] = V[k - n]
  <2>1. ASSUME NEW k \in n + 1 .. n + i PROVE k - n \in 1 .. i /\ W[k] = V[k - n]
    <3>1. k - n \in 1 .. i /\ n + (k - n) = k
      BY <1>1
    <3> QED BY <1>3, <3>1
  <2> QED BY <2>1
<1> HIDE DEF n, W
<1> SUFFICES ASSUME NEW d \in Drives
             PROVE  d \in Following(K, W, n + i) <=> d \in Following(J, V, i)
  BY DEF Following, n, W, J
<1>5. (\A k \in n + 1 .. n + i : W[k] # L!Gone(d)) <=> \A k \in 1 .. i : V[k] # L!Gone(d)
  <2>1. ASSUME \A k \in n + 1 .. n + i : W[k] # L!Gone(d), NEW k \in 1 .. i
        PROVE  V[k] # L!Gone(d)
    <3>1. n + k \in n + 1 .. n + i
      BY <1>1
    <3> QED BY <1>3, <2>1, <3>1
  <2>2. ASSUME \A k \in 1 .. i : V[k] # L!Gone(d), NEW k \in n + 1 .. n + i
        PROVE  W[k] # L!Gone(d)
    BY <1>4, <2>2
  <2> QED BY <2>1, <2>2
<1>6. ASSUME d \in Following(K, W, n + i)
      PROVE  d \in Following(J, V, i)
  <2>1. CASE d \in K /\ \A k \in 1 .. n + i : W[k] # L!Gone(d)
    <3>1. /\ \A k \in 1 .. n : k \in 1 .. n + i
          /\ \A k \in n + 1 .. n + i : k \in 1 .. n + i
      BY <1>1
    <3>2. d \in J
      BY <1>2, <2>1, <3>1 DEF Following
    <3> QED BY <1>5, <2>1, <3>1, <3>2 DEF Following
  <2>2. ASSUME NEW j \in 1 .. n + i, W[j] = L!Added(d), \A k \in j + 1 .. n + i : W[k] # L!Gone(d)
        PROVE  d \in Following(J, V, i)
    <3>1. CASE j <= n
      <4>1. /\ j \in 1 .. n
            /\ \A k \in j + 1 .. n : k \in 1 .. n /\ k \in j + 1 .. n + i
            /\ \A k \in n + 1 .. n + i : k \in j + 1 .. n + i
        BY <1>1, <3>1
      <4>2. d \in J
        BY <1>2, <2>2, <4>1 DEF Following
      <4> QED BY <1>5, <2>2, <4>1, <4>2 DEF Following
    <3>2. CASE ~ (j <= n)
      <4>1. j \in n + 1 .. n + i
        BY <1>1, <3>2
      <4>2. j - n \in 1 .. i /\ V[j - n] = L!Added(d)
        BY <1>4, <2>2, <4>1
      <4>3. ASSUME NEW k \in j - n + 1 .. i
            PROVE  V[k] # L!Gone(d)
        <5>1. k \in 1 .. i /\ n + k \in j + 1 .. n + i
          BY <1>1, <4>1
        <5> QED BY <1>3, <2>2, <5>1
      <4> QED BY <4>2, <4>3 DEF Following
    <3> QED BY <3>1, <3>2
  <2> QED BY <1>6, <2>1, <2>2 DEF Following
<1>7. ASSUME d \in Following(J, V, i)
      PROVE  d \in Following(K, W, n + i)
  <2>1. CASE d \in J /\ \A k \in 1 .. i : V[k] # L!Gone(d)
    <3>1. \A k \in n + 1 .. n + i : W[k] # L!Gone(d)
      BY <1>5, <2>1
    <3>2. CASE d \in K /\ \A k \in 1 .. n : U[k] # L!Gone(d)
      <4>1. \A k \in 1 .. n + i : k \in 1 .. n \/ k \in n + 1 .. n + i
        BY <1>1
      <4> QED BY <1>2, <3>1, <3>2, <4>1 DEF Following
    <3>3. ASSUME NEW j \in 1 .. n, U[j] = L!Added(d), \A k \in j + 1 .. n : U[k] # L!Gone(d)
          PROVE  d \in Following(K, W, n + i)
      <4>1. /\ j \in 1 .. n + i
            /\ \A k \in j + 1 .. n + i : k \in n + 1 .. n + i \/ (k \in 1 .. n /\ k \in j + 1 .. n)
        BY <1>1
      <4> QED BY <1>2, <3>1, <3>3, <4>1 DEF Following
    <3> QED BY <2>1, <3>2, <3>3 DEF Following
  <2>2. ASSUME NEW j \in 1 .. i, V[j] = L!Added(d), \A k \in j + 1 .. i : V[k] # L!Gone(d)
        PROVE  d \in Following(K, W, n + i)
    <3>1. n + j \in 1 .. n + i /\ W[n + j] = L!Added(d)
      BY <1>1, <1>3, <2>2
    <3>2. ASSUME NEW k \in n + j + 1 .. n + i
          PROVE  W[k] # L!Gone(d)
      <4>1. k \in n + 1 .. n + i /\ k - n \in j + 1 .. i
        BY <1>1
      <4> QED BY <1>4, <2>2, <4>1
    <3> QED BY <3>1, <3>2 DEF Following
  <2> QED BY <1>7, <2>1, <2>2 DEF Following
<1> QED BY <1>6, <1>7

(* What follows from removals, and from additions.                          *)
LEMMA FollowRemovals ==
  ASSUME NEW g \in Seq(Drives), NEW K \in SUBSET Drives, NEW i \in 0 .. Len(g)
  PROVE  /\ DriveNews("removed", g) \in Seq(Changes) /\ Len(DriveNews("removed", g)) = Len(g)
         /\ \A j \in 1 .. Len(g) : DriveNews("removed", g)[j] = L!Gone(g[j]) /\ g[j] \in Drives
         /\ Following(K, DriveNews("removed", g), i) = K \ {g[j] : j \in 1 .. i}
<1> DEFINE V == DriveNews("removed", g)
<1>1. Len(g) \in Nat /\ DOMAIN g = 1 .. Len(g) /\ \A j \in 1 .. Len(g) : g[j] \in Drives
  BY LenProperties, ElementOfSeq
<1>2. V = [j \in 1 .. Len(g) |-> L!Gone(g[j])]
  BY <1>1 DEF DriveNews, L!Gone
<1>3. V \in [1 .. Len(g) -> Changes]
  BY <1>1, <1>2, ChangesDiffer
<1>4. V \in Seq(Changes)
  BY <1>1, <1>3, FunctionIsSeq
<1>5. Len(V) = Len(g) /\ \A j \in 1 .. Len(g) : V[j] = L!Gone(g[j])
  <2>1. DOMAIN V = 1 .. Len(V) /\ Len(V) \in Nat
    BY <1>4, LenProperties
  <2>2. DOMAIN V = 1 .. Len(g)
    BY <1>2
  <2> QED BY <1>1, <1>2, <2>1, <2>2
<1> HIDE DEF V
<1>6. \A j \in 1 .. i : j \in 1 .. Len(g)
  BY <1>1
<1>7. Following(K, V, i) = K \ {g[j] : j \in 1 .. i}
  BY <1>5, <1>6, ChangesDiffer DEF Following
<1> QED BY <1>1, <1>4, <1>5, <1>7 DEF V

LEMMA FollowAdditions ==
  ASSUME NEW a \in Seq(Drives), NEW K \in SUBSET Drives, NEW i \in 0 .. Len(a)
  PROVE  /\ DriveNews("added", a) \in Seq(Changes) /\ Len(DriveNews("added", a)) = Len(a)
         /\ \A j \in 1 .. Len(a) : DriveNews("added", a)[j] = L!Added(a[j]) /\ a[j] \in Drives
         /\ Following(K, DriveNews("added", a), i) = K \cup {a[j] : j \in 1 .. i}
<1> DEFINE V == DriveNews("added", a)
<1>1. Len(a) \in Nat /\ DOMAIN a = 1 .. Len(a) /\ \A j \in 1 .. Len(a) : a[j] \in Drives
  BY LenProperties, ElementOfSeq
<1>2. V = [j \in 1 .. Len(a) |-> L!Added(a[j])]
  BY <1>1 DEF DriveNews, L!Added
<1>3. V \in [1 .. Len(a) -> Changes]
  BY <1>1, <1>2, ChangesDiffer
<1>4. V \in Seq(Changes)
  BY <1>1, <1>3, FunctionIsSeq
<1>5. Len(V) = Len(a) /\ \A j \in 1 .. Len(a) : V[j] = L!Added(a[j])
  <2>1. DOMAIN V = 1 .. Len(V) /\ Len(V) \in Nat
    BY <1>4, LenProperties
  <2>2. DOMAIN V = 1 .. Len(a)
    BY <1>2
  <2> QED BY <1>1, <1>2, <2>1, <2>2
<1> HIDE DEF V
<1>6. /\ \A j \in 1 .. i : j \in 1 .. Len(a)
      /\ \A j \in 1 .. i : \A k \in j + 1 .. i : k \in 1 .. Len(a)
  BY <1>1
<1>7. Following(K, V, i) = K \cup {a[j] : j \in 1 .. i}
  BY <1>1, <1>5, <1>6, ChangesDiffer DEF Following
<1> QED BY <1>1, <1>4, <1>5, <1>7 DEF V

-----------------------------------------------------------------------------
(* News U fit a list of the drives K: nothing is added that is on the list  *)
(* by then, and what is removed is on the list, or in B.                    *)
Fit(K, U, B) ==
  \A i \in 1 .. Len(U) : \A d \in Drives :
    /\ U[i] = L!Added(d) => d \notin Following(K, U, i - 1)
    /\ U[i] = L!Gone(d) => d \in Following(K, U, i - 1) \cup B

LEMMA FitConcat ==
  ASSUME NEW U \in Seq(Changes), NEW V \in Seq(Changes), NEW K \in SUBSET Drives, NEW B,
         Fit(K, U, B), Fit(Following(K, U, Len(U)), V, B)
  PROVE  Fit(K, U \o V, B)
<1> DEFINE n == Len(U)
           W == U \o V
           J == Following(K, U, n)
<1>1. n \in Nat /\ Len(V) \in Nat /\ Len(W) = n + Len(V)
  BY LenProperties, ConcatProperties
<1>2. ASSUME NEW i \in 1 .. Len(W), NEW d \in Drives
      PROVE  /\ W[i] = L!Added(d) => d \notin Following(K, W, i - 1)
             /\ W[i] = L!Gone(d) => d \in Following(K, W, i - 1) \cup B
  <2>1. CASE i <= n
    <3>1. i \in 1 .. n /\ i - 1 \in 0 .. n
      BY <1>1, <2>1
    <3>2. W[i] = U[i]
      BY <1>1, <2>1, ConcatProperties
    <3>3. Following(K, W, i - 1) = Following(K, U, i - 1)
      BY <3>1, FollowPrefix
    <3> QED BY <3>1, <3>2, <3>3 DEF Fit
  <2>2. CASE ~ (i <= n)
    <3>1. i - n \in 1 .. Len(V) /\ i - n - 1 \in 0 .. Len(V) /\ n + (i - n - 1) = i - 1
      BY <1>1, <2>2
    <3>2. W[i] = V[i - n]
      BY <1>1, <2>2, ConcatProperties
    <3>3. Following(K, W, i - 1) = Following(J, V, i - n - 1)
      BY <3>1, FollowOn
    <3> QED BY <3>1, <3>2, <3>3 DEF Fit
  <2> QED BY <2>1, <2>2
<1> QED BY <1>2 DEF Fit

LEMMA FitTail ==
  ASSUME NEW U \in Seq(Changes), U # <<>>, NEW K \in SUBSET Drives, NEW J \in SUBSET Drives,
         NEW B,
         \A d \in Drives : d \in J <=> \/ U[1] = L!Added(d)
                                       \/ d \in K /\ U[1] # L!Gone(d),
         Fit(K, U, B)
  PROVE  /\ Fit(J, Tail(U), B)
         /\ Following(J, Tail(U), Len(Tail(U))) = Following(K, U, Len(U))
<1>1. /\ Len(U) \in Nat \ {0} /\ Tail(U) \in Seq(Changes) /\ Len(Tail(U)) = Len(U) - 1
      /\ \A j \in 1 .. Len(U) - 1 : Tail(U)[j] = U[j + 1]
  BY HeadTailProperties, LenProperties, EmptySeq
<1>2. \A i \in 0 .. Len(U) - 1 : Following(J, Tail(U), i) = Following(K, U, i + 1)
  BY FollowFirst
<1>3. ASSUME NEW i \in 1 .. Len(Tail(U)), NEW d \in Drives
      PROVE  /\ Tail(U)[i] = L!Added(d) => d \notin Following(J, Tail(U), i - 1)
             /\ Tail(U)[i] = L!Gone(d) => d \in Following(J, Tail(U), i - 1) \cup B
  <2>1. i + 1 \in 1 .. Len(U) /\ i - 1 \in 0 .. Len(U) - 1 /\ i - 1 + 1 = i + 1 - 1
    BY <1>1
  <2>2. Tail(U)[i] = U[i + 1]
    BY <1>1
  <2>3. Following(J, Tail(U), i - 1) = Following(K, U, i + 1 - 1)
    BY <1>2, <2>1
  <2> QED BY <2>1, <2>2, <2>3 DEF Fit
<1>4. Len(U) - 1 \in 0 .. Len(U) - 1 /\ Len(U) - 1 + 1 = Len(U)
  BY <1>1
<1> QED BY <1>1, <1>2, <1>3, <1>4 DEF Fit

(* One looks, with a list that has all drives known but those in B: V says  *)
(* which are gone and then which are new, except for some in B.             *)
Saw(K, known, found, B, V) ==
  /\ K \subseteq known /\ known \ K \subseteq B /\ known \subseteq Drives /\ found \subseteq Drives
  /\ \E g, a \in Seq(Drives) :
       /\ IsInjective(g) /\ ToSet(g) = known \ found
       /\ IsInjective(a) /\ ToSet(a) \subseteq found \ known
       /\ (found \ known) \ ToSet(a) \subseteq B
       /\ V = DriveNews("removed", g) \o DriveNews("added", a)

(* These news fit the list, and lead it to all drives found but those in B. *)
LEMMA LookFits ==
  ASSUME NEW K, NEW known, NEW found, NEW B, NEW V, Saw(K, known, found, B, V)
  PROVE  /\ V \in Seq(Changes) /\ Fit(K, V, B)
         /\ Following(K, V, Len(V)) \subseteq found
         /\ found \ Following(K, V, Len(V)) \subseteq B
<1> PICK g \in Seq(Drives), a \in Seq(Drives) :
       /\ IsInjective(g) /\ ToSet(g) = known \ found
       /\ IsInjective(a) /\ ToSet(a) \subseteq found \ known
       /\ (found \ known) \ ToSet(a) \subseteq B
       /\ V = DriveNews("removed", g) \o DriveNews("added", a)
  BY DEF Saw
<1> K \in SUBSET Drives /\ known \in SUBSET Drives /\ found \in SUBSET Drives
  BY DEF Saw
<1> K \subseteq known /\ known \ K \subseteq B
  BY DEF Saw
<1> DEFINE G == DriveNews("removed", g)
           A == DriveNews("added", a)
           J == K \cap found
<1>1. /\ Len(g) \in Nat /\ DOMAIN g = 1 .. Len(g)
      /\ Len(a) \in Nat /\ DOMAIN a = 1 .. Len(a)
  BY LenProperties
<1>2. /\ G \in Seq(Changes) /\ Len(G) = Len(g)
      /\ \A j \in 1 .. Len(g) : G[j] = L!Gone(g[j]) /\ g[j] \in Drives
      /\ \A i \in 0 .. Len(g) : Following(K, G, i) = K \ {g[j] : j \in 1 .. i}
  <2>1. 0 \in 0 .. Len(g)
    BY <1>1
  <2>2. \A i \in 0 .. Len(g) : Following(K, G, i) = K \ {g[j] : j \in 1 .. i}
    BY FollowRemovals
  <2> QED BY <2>1, <2>2, FollowRemovals
<1>3. /\ A \in Seq(Changes) /\ Len(A) = Len(a)
      /\ \A j \in 1 .. Len(a) : A[j] = L!Added(a[j]) /\ a[j] \in Drives
      /\ \A i \in 0 .. Len(a) : Following(J, A, i) = J \cup {a[j] : j \in 1 .. i}
  <2>1. 0 \in 0 .. Len(a) /\ J \in SUBSET Drives
    BY <1>1
  <2>2. \A i \in 0 .. Len(a) : Following(J, A, i) = J \cup {a[j] : j \in 1 .. i}
    BY <2>1, FollowAdditions
  <2> HIDE DEF J
  <2> QED BY <2>1, <2>2, FollowAdditions
<1> HIDE DEF G, A
<1>4. Len(g) \in 0 .. Len(g) /\ Len(a) \in 0 .. Len(a)
  BY <1>1
<1>5. /\ {g[j] : j \in 1 .. Len(g)} = known \ found
      /\ {a[j] : j \in 1 .. Len(a)} = ToSet(a)
  BY <1>1 DEF ToSet
<1>6. Following(K, G, Len(G)) = J
  BY <1>2, <1>4, <1>5
<1>7. Following(J, A, Len(A)) = J \cup ToSet(a)
  BY <1>3, <1>4, <1>5
<1>8. Fit(K, G, B)
  <2>1. ASSUME NEW i \in 1 .. Len(G), NEW d \in Drives
        PROVE  /\ G[i] = L!Added(d) => d \notin Following(K, G, i - 1)
               /\ G[i] = L!Gone(d) => d \in Following(K, G, i - 1) \cup B
    <3>1. i \in 1 .. Len(g) /\ i - 1 \in 0 .. Len(g) /\ \A j \in 1 .. i - 1 : j \in 1 .. Len(g) /\ j # i
      BY <1>1, <1>2
    <3>2. G[i] = L!Gone(g[i]) /\ Following(K, G, i - 1) = K \ {g[j] : j \in 1 .. i - 1}
      BY <1>2, <3>1
    <3>3. g[i] \notin {g[j] : j \in 1 .. i - 1}
      BY <1>1, <3>1 DEF IsInjective
    <3>4. g[i] \in known
      BY <1>5, <3>1
    <3>5. g[i] \in Following(K, G, i - 1) \cup B
      BY <3>2, <3>3, <3>4
    <3> QED BY <3>2, <3>5, ChangesDiffer
  <2> QED BY <2>1 DEF Fit
<1>9. Fit(J, A, B)
  <2>1. ASSUME NEW i \in 1 .. Len(A), NEW d \in Drives
        PROVE  /\ A[i] = L!Added(d) => d \notin Following(J, A, i - 1)
               /\ A[i] = L!Gone(d) => d \in Following(J, A, i - 1) \cup B
    <3>1. i \in 1 .. Len(a) /\ i - 1 \in 0 .. Len(a) /\ \A j \in 1 .. i - 1 : j \in 1 .. Len(a) /\ j # i
      BY <1>1, <1>3
    <3>2. A[i] = L!Added(a[i]) /\ Following(J, A, i - 1) = J \cup {a[j] : j \in 1 .. i - 1}
      BY <1>3, <3>1
    <3>3. a[i] \notin {a[j] : j \in 1 .. i - 1}
      BY <1>1, <3>1 DEF IsInjective
    <3>4. a[i] \notin known
      BY <1>5, <3>1
    <3>5. a[i] \notin Following(J, A, i - 1)
      BY <3>2, <3>3, <3>4
    <3> QED BY <3>2, <3>5, ChangesDiffer
  <2> QED BY <2>1 DEF Fit
<1>10. Fit(K, G \o A, B)
  BY <1>2, <1>3, <1>6, <1>8, <1>9, FitConcat
<1>11. Following(K, G \o A, Len(G) + Len(A)) = J \cup ToSet(a)
  <2>1. Len(A) \in 0 .. Len(A) /\ G \in Seq(Changes) /\ A \in Seq(Changes)
    BY <1>1, <1>2, <1>3
  <2>2. Following(K, G \o A, Len(G) + Len(A)) = Following(Following(K, G, Len(G)), A, Len(A))
    BY <2>1, FollowOn
  <2> QED BY <1>6, <1>7, <2>2
<1>12. G \o A \in Seq(Changes) /\ Len(G \o A) = Len(G) + Len(A) /\ V = G \o A
  BY <1>2, <1>3, ConcatProperties DEF G, A
<1> QED BY <1>10, <1>11, <1>12

-----------------------------------------------------------------------------
(* The news in batches of events.                                           *)

LEMMA SameLength ==
  ASSUME NEW m \in Nat, NEW n \in Nat, 1 .. m = 1 .. n
  PROVE  m = n
<1>1. m >= 1 => m \in 1 .. n
  OBVIOUS
<1>2. n >= 1 => n \in 1 .. m
  OBVIOUS
<1> QED BY <1>1, <1>2

NewsOf(bs) == FlattenSeq([i \in DOMAIN bs |-> DriveNews(bs[i].kind, bs[i].devs)])

(* What the events of one batch say.                                        *)
LEMMA DriveNewsType ==
  ASSUME NEW kind \in Kinds, NEW devs \in Seq(Drives)
  PROVE  DriveNews(kind, devs) \in Seq(Changes)
<1>1. CASE kind \in {"added", "removed"}
  <2>1. DriveNews(kind, devs) = [i \in DOMAIN devs |-> [change |-> kind, disk |-> devs[i]]]
    BY <1>1 DEF DriveNews
  <2>2. Len(devs) \in Nat /\ DOMAIN devs = 1 .. Len(devs) /\ \A i \in 1 .. Len(devs) : devs[i] \in Drives
    BY LenProperties, ElementOfSeq
  <2>3. DriveNews(kind, devs) \in [1 .. Len(devs) -> Changes]
    BY <1>1, <2>1, <2>2 DEF Changes
  <2> QED BY <2>2, <2>3, FunctionIsSeq
<1>2. CASE kind \notin {"added", "removed"}
  BY <1>2, EmptySeq DEF DriveNews
<1> QED BY <1>1, <1>2

(* A handled event is one piece of news less.                               *)
LEMMA DriveNewsTail ==
  ASSUME NEW kind \in {"added", "removed"}, NEW devs \in Seq(Drives), devs # <<>>
  PROVE  /\ DriveNews(kind, devs) # <<>>
         /\ DriveNews(kind, devs)[1] = [change |-> kind, disk |-> Head(devs)]
         /\ Tail(DriveNews(kind, devs)) = DriveNews(kind, Tail(devs))
<1> DEFINE V == DriveNews(kind, devs)
           W == DriveNews(kind, Tail(devs))
           n == Len(devs)
<1>1. /\ n \in Nat \ {0} /\ DOMAIN devs = 1 .. n
      /\ Tail(devs) \in Seq(Drives) /\ Len(Tail(devs)) = n - 1 /\ DOMAIN Tail(devs) = 1 .. n - 1
      /\ \A i \in 1 .. n - 1 : Tail(devs)[i] = devs[i + 1]
      /\ Head(devs) = devs[1]
  BY LenProperties, HeadTailProperties, EmptySeq
<1>2. /\ V = [i \in 1 .. n |-> [change |-> kind, disk |-> devs[i]]]
      /\ W = [i \in 1 .. n - 1 |-> [change |-> kind, disk |-> Tail(devs)[i]]]
  BY <1>1 DEF DriveNews
<1>3. V \in Seq(Changes) /\ W \in Seq(Changes)
  BY <1>1, DriveNewsType DEF Kinds
<1>4. Len(V) = n /\ Len(W) = n - 1
  <2>1. DOMAIN V = 1 .. n /\ DOMAIN W = 1 .. n - 1
    BY <1>2
  <2>2. DOMAIN V = 1 .. Len(V) /\ DOMAIN W = 1 .. Len(W) /\ Len(V) \in Nat /\ Len(W) \in Nat
    BY <1>3, LenProperties
  <2> HIDE DEF V, W
  <2>3. 1 .. n = 1 .. Len(V) /\ 1 .. n - 1 = 1 .. Len(W)
    BY <2>1, <2>2
  <2>4. n - 1 \in Nat
    BY <1>1
  <2> QED BY <1>1, <2>2, <2>3, <2>4, SameLength
<1>5. /\ \A i \in 1 .. n : V[i] = [change |-> kind, disk |-> devs[i]]
      /\ \A i \in 1 .. n - 1 : W[i] = [change |-> kind, disk |-> Tail(devs)[i]]
  BY <1>2
<1> HIDE DEF V, W, n
<1>6. V # <<>>
  BY <1>1, <1>4, EmptySeq
<1>7. Tail(V) \in Seq(Changes) /\ Len(Tail(V)) = n - 1 /\ \A i \in 1 .. n - 1 : Tail(V)[i] = V[i + 1]
  BY <1>3, <1>4, <1>6, HeadTailProperties
<1>8. \A i \in 1 .. n - 1 : Tail(V)[i] = W[i]
  <2>1. ASSUME NEW i \in 1 .. n - 1 PROVE Tail(V)[i] = W[i]
    <3>1. i + 1 \in 1 .. n
      BY <1>1
    <3> QED BY <1>1, <1>5, <1>7, <3>1
  <2> QED BY <2>1
<1>9. Tail(V) = W
  BY <1>3, <1>4, <1>7, <1>8, SeqEqual
<1>10. V[1] = [change |-> kind, disk |-> Head(devs)]
  BY <1>1, <1>5
<1> QED BY <1>6, <1>9, <1>10 DEF V, W

(* The news of several batches.                                             *)
LEMMA NewsOfType ==
  ASSUME NEW bs \in Seq(Batch)
  PROVE  /\ [i \in DOMAIN bs |-> DriveNews(bs[i].kind, bs[i].devs)] \in Seq(Seq(Changes))
         /\ NewsOf(bs) \in Seq(Changes)
<1>1. Len(bs) \in Nat /\ DOMAIN bs = 1 .. Len(bs) /\ \A i \in 1 .. Len(bs) : bs[i] \in Batch
  BY LenProperties, ElementOfSeq
<1>2. \A i \in 1 .. Len(bs) : DriveNews(bs[i].kind, bs[i].devs) \in Seq(Changes)
  BY <1>1, DriveNewsType DEF Batch
<1>3. [i \in DOMAIN bs |-> DriveNews(bs[i].kind, bs[i].devs)] \in [1 .. Len(bs) -> Seq(Changes)]
  BY <1>1, <1>2
<1>4. [i \in DOMAIN bs |-> DriveNews(bs[i].kind, bs[i].devs)] \in Seq(Seq(Changes))
  BY <1>1, <1>3, FunctionIsSeq
<1> QED BY <1>4, FlattenType DEF NewsOf

LEMMA NewsOfConcat ==
  ASSUME NEW bs \in Seq(Batch), NEW cs \in Seq(Batch)
  PROVE  NewsOf(bs \o cs) = NewsOf(bs) \o NewsOf(cs)
<1> DEFINE N(ds) == [i \in DOMAIN ds |-> DriveNews(ds[i].kind, ds[i].devs)]
           m == Len(bs)
           n == Len(cs)
<1>1. /\ m \in Nat /\ DOMAIN bs = 1 .. m /\ n \in Nat /\ DOMAIN cs = 1 .. n
      /\ bs \o cs \in Seq(Batch) /\ Len(bs \o cs) = m + n /\ DOMAIN (bs \o cs) = 1 .. m + n
      /\ \A i \in 1 .. m + n : (bs \o cs)[i] = IF i <= m THEN bs[i] ELSE cs[i - m]
  BY LenProperties, ConcatProperties
<1>2. N(bs) \in Seq(Seq(Changes)) /\ N(cs) \in Seq(Seq(Changes)) /\ N(bs \o cs) \in Seq(Seq(Changes))
  BY <1>1, NewsOfType
<1>3. /\ DOMAIN N(bs) = 1 .. m /\ DOMAIN N(cs) = 1 .. n /\ DOMAIN N(bs \o cs) = 1 .. m + n
      /\ \A i \in 1 .. m : N(bs)[i] = DriveNews(bs[i].kind, bs[i].devs)
      /\ \A i \in 1 .. n : N(cs)[i] = DriveNews(cs[i].kind, cs[i].devs)
      /\ \A i \in 1 .. m + n : N(bs \o cs)[i] = DriveNews((bs \o cs)[i].kind, (bs \o cs)[i].devs)
  BY <1>1
<1> HIDE DEF N, m, n
<1>4. Len(N(bs)) = m /\ Len(N(cs)) = n /\ Len(N(bs \o cs)) = m + n
  BY <1>1, <1>2, <1>3, LenProperties
<1>5. /\ N(bs) \o N(cs) \in Seq(Seq(Changes)) /\ Len(N(bs) \o N(cs)) = m + n
      /\ \A i \in 1 .. m + n : (N(bs) \o N(cs))[i] = IF i <= m THEN N(bs)[i] ELSE N(cs)[i - m]
  BY <1>2, <1>4, ConcatProperties
<1>6. \A i \in 1 .. m + n : N(bs \o cs)[i] = (N(bs) \o N(cs))[i]
  <2>1. ASSUME NEW i \in 1 .. m + n PROVE N(bs \o cs)[i] = (N(bs) \o N(cs))[i]
    <3>1. CASE i <= m
      BY <1>1, <1>3, <1>5, <3>1
    <3>2. CASE ~ (i <= m)
      <4>1. i - m \in 1 .. n
        BY <1>1, <3>2
      <4> QED BY <1>1, <1>3, <1>5, <3>2, <4>1
    <3> QED BY <3>1, <3>2
  <2> QED BY <2>1
<1>7. N(bs \o cs) = N(bs) \o N(cs)
  BY <1>2, <1>4, <1>5, <1>6, SeqEqual
<1>8. FlattenSeq(N(bs) \o N(cs)) = FlattenSeq(N(bs)) \o FlattenSeq(N(cs))
  BY <1>2, FlattenConcat
<1>9. FlattenSeq(N(bs \o cs)) = FlattenSeq(N(bs)) \o FlattenSeq(N(cs))
  BY <1>7, <1>8
<1> QED BY <1>9 DEF NewsOf, N

LEMMA NewsOfOne ==
  ASSUME NEW b \in Batch
  PROVE  NewsOf(<<b>>) = DriveNews(b.kind, b.devs) /\ NewsOf(<<>>) = <<>>
<1> DEFINE x == DriveNews(b.kind, b.devs)
<1>1. x \in Seq(Changes)
  BY DriveNewsType DEF Batch
<1>2. [i \in DOMAIN <<b>> |-> DriveNews(<<b>>[i].kind, <<b>>[i].devs)] = <<x>>
  OBVIOUS
<1>3. <<x>> = Append(<<>>, x)
  OBVIOUS
<1>4. [i \in DOMAIN <<>> |-> DriveNews(<<>>[i].kind, <<>>[i].devs)] = <<>>
  OBVIOUS
<1> HIDE DEF x
<1>5. <<>> \in Seq(Seq(Changes)) /\ <<>> \in Seq(Changes)
  BY EmptySeq
<1>6. FlattenSeq(Append(<<>>, x)) = <<>> \o x
  BY <1>1, <1>5, FlattenAppend, FlattenEmpty
<1>7. <<>> \o x = x
  BY <1>1, ConcatEmptySeq
<1> QED BY <1>2, <1>3, <1>4, <1>6, <1>7, FlattenEmpty DEF NewsOf, x

-----------------------------------------------------------------------------
(* What the steps of the program do to the news and to the list.            *)

(* Outside of the event handlers there is no batch in hand; and what is     *)
(* being removed is on the list.                                            *)
HandInv ==
  /\ phase # "handle" => batch = NoEvent
  /\ phase = "handle" /\ op # "idle" /\ batch.kind = "removed" => Head(batch.devs) \in Known

(* A step does one of these to the news and to the list: nothing; a look at *)
(* the device files; an addition; a removal; a removal that finds no drive  *)
(* on the list; or the end of the process.                                  *)
Steady == UNCHANGED <<drives, knownDrives, Unread>>

Looks ==
  /\ UNCHANGED drives /\ knownDrives' = devices
  /\ \E g \in Sorted(knownDrives \ devices),
        a \in Sorted({d \in devices \ knownDrives : Eligible(d)}) :
       Unread' = Unread \o (DriveNews("removed", g) \o DriveNews("added", a))

Hears(change) == Unread # <<>> /\ Unread[1] = change /\ Unread' = Tail(Unread) /\ UNCHANGED knownDrives

Adds == \E d \in Drives : Hears(L!Added(d)) /\ drives' = Append(drives, d)
Removes == \E d \in Known : Hears(L!Gone(d)) /\ drives' \in Removed(drives, d)
Ignores == \E d \in Drives \ Known : Hears(L!Gone(d)) /\ UNCHANGED drives
Forgets == drives' = <<>> /\ knownDrives' = {} /\ Unread' = <<>>

(* The parts of the news.                                                   *)
LEMMA UnreadIs ==
  /\ Unread = DriveNews(batch.kind, InHand) \o NewsOf(queue \o outbox)
  /\ Unread' = DriveNews(batch'.kind, InHand') \o NewsOf(queue' \o outbox')
BY DEF Unread, NewsOf

LEMMA HeadAndTail ==
  ASSUME NEW S, NEW s \in Seq(S), s # <<>>
  PROVE  s = <<Head(s)>> \o Tail(s)
<1>1. /\ Len(s) \in Nat \ {0} /\ Head(s) \in S /\ Tail(s) \in Seq(S) /\ Len(Tail(s)) = Len(s) - 1
      /\ \A i \in 1 .. Len(s) - 1 : Tail(s)[i] = s[i + 1]
      /\ Head(s) = s[1]
  BY HeadTailProperties, LenProperties, EmptySeq
<1> DEFINE t == <<Head(s)>> \o Tail(s)
<1>2. <<Head(s)>> \in Seq(S) /\ Len(<<Head(s)>>) = 1 /\ <<Head(s)>>[1] = Head(s)
  BY <1>1
<1>3. /\ t \in Seq(S) /\ Len(t) = Len(s)
      /\ \A i \in 1 .. Len(s) : t[i] = IF i <= 1 THEN <<Head(s)>>[i] ELSE Tail(s)[i - 1]
  BY <1>1, <1>2, ConcatProperties
<1>4. \A i \in 1 .. Len(s) : t[i] = s[i]
  <2>1. ASSUME NEW i \in 1 .. Len(s) PROVE t[i] = s[i]
    <3>1. CASE i = 1
      BY <1>1, <1>2, <1>3, <3>1
    <3>2. CASE i # 1
      <4>1. i - 1 \in 1 .. Len(s) - 1 /\ i - 1 + 1 = i /\ ~ (i <= 1)
        BY <1>1, <3>2
      <4> QED BY <1>1, <1>3, <4>1
    <3> QED BY <3>1, <3>2
  <2> QED BY <2>1
<1> HIDE DEF t
<1>5. t = s
  BY <1>3, <1>4, SeqEqual
<1> QED BY <1>5 DEF t

LEMMA TailConcat ==
  ASSUME NEW S, NEW s \in Seq(S), NEW t \in Seq(S), s # <<>>
  PROVE  s \o t # <<>> /\ (s \o t)[1] = s[1] /\ Tail(s \o t) = Tail(s) \o t
<1>1. /\ Len(s) \in Nat \ {0} /\ Tail(s) \in Seq(S) /\ Len(Tail(s)) = Len(s) - 1
      /\ \A i \in 1 .. Len(s) - 1 : Tail(s)[i] = s[i + 1]
      /\ Len(t) \in Nat
  BY HeadTailProperties, LenProperties, EmptySeq
<1>2. /\ s \o t \in Seq(S) /\ Len(s \o t) = Len(s) + Len(t)
      /\ \A i \in 1 .. Len(s) + Len(t) : (s \o t)[i] = IF i <= Len(s) THEN s[i] ELSE t[i - Len(s)]
  BY ConcatProperties
<1>3. s \o t # <<>>
  BY <1>1, <1>2, EmptySeq
<1>4. /\ Tail(s \o t) \in Seq(S) /\ Len(Tail(s \o t)) = Len(s) + Len(t) - 1
      /\ \A i \in 1 .. Len(s) + Len(t) - 1 : Tail(s \o t)[i] = (s \o t)[i + 1]
  BY <1>2, <1>3, HeadTailProperties
<1> DEFINE r == Tail(s) \o t
           l == Tail(s \o t)
<1>5. /\ r \in Seq(S) /\ Len(r) = Len(s) - 1 + Len(t)
      /\ \A i \in 1 .. Len(s) - 1 + Len(t) :
           r[i] = IF i <= Len(s) - 1 THEN Tail(s)[i] ELSE t[i - (Len(s) - 1)]
  BY <1>1, ConcatProperties
<1>6. ASSUME NEW i \in 1 .. Len(s) + Len(t) - 1 PROVE l[i] = r[i]
  <2>1. l[i] = (s \o t)[i + 1]
    BY <1>4
  <2>2. i + 1 \in 1 .. Len(s) + Len(t) /\ i \in 1 .. Len(s) - 1 + Len(t)
    BY <1>1
  <2>3. CASE i <= Len(s) - 1
    <3>1. i + 1 <= Len(s) /\ i \in 1 .. Len(s) - 1
      BY <1>1, <2>3
    <3> QED BY <1>1, <1>2, <1>5, <2>1, <2>2, <2>3, <3>1
  <2>4. CASE ~ (i <= Len(s) - 1)
    <3>1. ~ (i + 1 <= Len(s)) /\ i - (Len(s) - 1) = i + 1 - Len(s)
      BY <1>1, <2>4
    <3> QED BY <1>2, <1>5, <2>1, <2>2, <2>4, <3>1
  <2> QED BY <2>3, <2>4
<1>7. Len(s) + Len(t) - 1 = Len(s) - 1 + Len(t)
  BY <1>1
<1>8. l \in Seq(S) /\ Len(l) = Len(r) /\ \A i \in 1 .. Len(l) : l[i] = r[i]
  BY <1>4, <1>5, <1>6, <1>7
<1> HIDE DEF l, r
<1>9. l = r
  BY <1>5, <1>8, SeqEqual
<1>10. (s \o t)[1] = s[1]
  <2>1. 1 \in 1 .. Len(s) + Len(t) /\ 1 <= Len(s)
    BY <1>1
  <2> QED BY <1>2, <2>1
<1> QED BY <1>3, <1>9, <1>10 DEF l, r

(* The channel: a batch is handed over, one that says nothing of the list   *)
(* slips in, and the first one is received.                                 *)
LEMMA HandedOver ==
  ASSUME NEW q \in Seq(Batch), NEW o \in Seq(Batch), o # <<>>
  PROVE  NewsOf(Append(q, Head(o)) \o Tail(o)) = NewsOf(q \o o)
<1>1. Head(o) \in Batch /\ Tail(o) \in Seq(Batch) /\ o = <<Head(o)>> \o Tail(o)
  BY HeadTailProperties, HeadAndTail
<1>2. <<Head(o)>> \in Seq(Batch) /\ Append(q, Head(o)) = q \o <<Head(o)>>
  BY <1>1, AppendIsConcat
<1>3. PICK h, t : h = <<Head(o)>> /\ t = Tail(o)
  OBVIOUS
<1>4. (q \o h) \o t = q \o (h \o t)
  BY <1>1, <1>2, <1>3, Associative, SMT
<1> QED BY <1>1, <1>2, <1>3, <1>4

LEMMA SlipsIn ==
  ASSUME NEW q \in Seq(Batch), NEW o \in Seq(Batch), NEW b \in Batch,
         b.kind \notin {"added", "removed"}
  PROVE  NewsOf(Append(q, b) \o o) = NewsOf(q \o o)
<1>1. Append(q, b) \in Seq(Batch) /\ Append(q, b) = q \o <<b>> /\ <<b>> \in Seq(Batch)
  BY AppendIsConcat, AppendProperties
<1>2. NewsOf(<<b>>) = <<>>
  BY NewsOfOne DEF DriveNews
<1>3. NewsOf(q) \in Seq(Changes)
  BY NewsOfType
<1>4. NewsOf(Append(q, b)) = NewsOf(q) \o NewsOf(<<b>>)
  BY <1>1, NewsOfConcat
<1>5. NewsOf(q) \o <<>> = NewsOf(q)
  BY <1>3, ConcatEmptySeq
<1>6. /\ NewsOf(Append(q, b) \o o) = NewsOf(Append(q, b)) \o NewsOf(o)
      /\ NewsOf(q \o o) = NewsOf(q) \o NewsOf(o)
  BY <1>1, NewsOfConcat
<1> QED BY <1>2, <1>4, <1>5, <1>6

LEMMA FirstReceived ==
  ASSUME NEW q \in Seq(Batch), NEW o \in Seq(Batch), q # <<>>
  PROVE  NewsOf(q \o o) = DriveNews(Head(q).kind, Head(q).devs) \o NewsOf(Tail(q) \o o)
<1>1. Head(q) \in Batch /\ Tail(q) \in Seq(Batch) /\ q = <<Head(q)>> \o Tail(q)
  BY HeadTailProperties, HeadAndTail
<1>2. PICK h, t : h = <<Head(q)>> /\ t = Tail(q)
  OBVIOUS
<1>3. h \in Seq(Batch) /\ t \in Seq(Batch)
  BY <1>1, <1>2
<1>4. (h \o t) \o o = h \o (t \o o)
  BY <1>3, Associative, SMT
<1>5. q \o o = h \o (t \o o) /\ t \o o \in Seq(Batch)
  BY <1>1, <1>2, <1>3, <1>4, ConcatProperties
<1>6. NewsOf(q \o o) = NewsOf(h) \o NewsOf(t \o o)
  BY <1>3, <1>5, NewsOfConcat
<1> QED BY <1>1, <1>2, <1>6, NewsOfOne

(* The commands of a setup or of a teardown do not end in the handler's loop. *)
LEMMA DeviceBusy ==
  ASSUME NEW d
  PROVE  /\ Setup(d) => op' # "idle"
         /\ Teardown(d) => op' # "idle"
         /\ DeviceStep(d) => op # "idle" /\ op' # "idle"
<1>1. Teardown(d) => op' # "idle"
  BY DEF Teardown, AfterFilesystem, BeginTeardown
<1>2. Setup(d) => op' # "idle"
  BY DEF Setup, BeginLUKSSetup, BeginSetup
<1>3. XFSStep(d) => op # "idle" /\ op' # "idle"
  BY DEF XFSStep, Format, UnmountOther, OthersUnmounted, Mount, ClearPropagation, Announce, Umount
<1>4. LUKSFormat(d) \/ LUKSOpen(d) \/ Descend(d) => op # "idle" /\ op' # "idle"
  BY DEF LUKSFormat, LUKSOpen, Descend
<1>5. SetupInside(d) \/ FilesystemTornDown(d) \/ LUKSClose(d) => op # "idle" /\ op' # "idle"
  BY DEF SetupInside, BeginSetup, FilesystemTornDown, TornDown, AfterFilesystem, LUKSClose
<1>6. GiveUp(d) => op # "idle" /\ op' # "idle"
  BY <1>1 DEF GiveUp
<1> QED BY <1>1, <1>2, <1>3, <1>4, <1>5, <1>6 DEF DeviceStep

(* Nothing changes where the batch in hand says as much as before.          *)
LEMMA SteadyIf ==
  ASSUME UNCHANGED <<drives, knownDrives>>,
         NewsOf(queue' \o outbox') = NewsOf(queue \o outbox),
         DriveNews(batch'.kind, InHand') = DriveNews(batch.kind, InHand)
  PROVE  Steady
BY UnreadIs DEF Steady

(* The end of the process.                                                  *)
LEMMA EndForgets ==
  ASSUME ProcessEnds
  PROVE  Forgets /\ HandInv'
<1>1. /\ drives' = <<>> /\ knownDrives' = {} /\ queue' = <<>> /\ outbox' = <<>>
      /\ batch' = NoEvent /\ phase' = "dead"
  BY DEF ProcessEnds, CollectorsReset
<1>2. DriveNews(batch'.kind, InHand') = <<>>
  BY <1>1 DEF DriveNews, NoEvent, Event
<1>3. NoEvent \in Batch /\ <<>> \in Seq(Batch) /\ <<>> \in Seq(Changes)
  BY EmptySeq DEF NoEvent, Event, Batch, Kinds
<1>4. queue' \o outbox' = <<>>
  BY <1>1, <1>3, ConcatEmptySeq
<1>5. NewsOf(queue' \o outbox') = <<>>
  BY <1>3, <1>4, NewsOfOne
<1>6. Unread' = <<>>
  BY <1>2, <1>3, <1>5, UnreadIs, ConcatEmptySeq
<1> QED BY <1>1, <1>6 DEF Forgets, HandInv

(* The steps of the converger that leave the batch in hand as it is.        *)
LEMMA QuietSteps ==
  ASSUME TypeInv, HandInv,
         \/ HandleReinstated \/ HandleRemoved \/ BeginConverge \/ ConvergeHealthy
         \/ ConvergeBroken \/ Work \/ NextDrive \/ EndPass1 \/ Scan \/ EndScan \/ Assign
         \/ BeginPass2 \/ EndConverge
  PROVE  Steady /\ HandInv'
<1>1. UNCHANGED <<drives, knownDrives, queue, outbox>>
  BY DEF HandleReinstated, HandleRemoved, BeginConverge, ConvergeHealthy,
     ConvergeBroken, Work, NextDrive, EndPass1, Scan, EndScan, Assign, BeginPass2, EndConverge,
     ctlVars, collectorVars
<1>2. CASE HandleReinstated \/ HandleRemoved
  <2>1. batch.kind # "added" /\ phase = "handle" /\ UNCHANGED <<batch, phase>>
    BY <1>2 DEF HandleReinstated, HandleRemoved, Handling, ctlVars
  <2>2. batch.kind = "removed" => Head(batch.devs) \in Known
    BY <1>2 DEF HandleReinstated, HandleRemoved, Handling
  <2>3. Steady
    BY <1>1, <2>1, SteadyIf DEF InHand
  <2> QED BY <1>1, <2>1, <2>2, <2>3 DEF HandInv, Known
<1>3. CASE BeginConverge
  <2>1. batch.devs = <<>> /\ op = "idle" /\ batch' = NoEvent /\ phase' = "pass1"
    BY <1>3 DEF BeginConverge
  <2>2. \A kind : DriveNews(kind, <<>>) = <<>>
    BY DEF DriveNews
  <2>3. DriveNews(batch.kind, InHand) = <<>> /\ DriveNews(batch'.kind, InHand') = <<>>
    BY <2>1, <2>2 DEF InHand, NoEvent, Event
  <2> QED BY <1>1, <2>1, <2>3, SteadyIf DEF HandInv
<1>4. CASE ConvergeHealthy \/ ConvergeBroken \/ Work
  <2>1. UNCHANGED <<batch, phase>>
    BY <1>4 DEF ConvergeHealthy, ConvergeBroken, Work, ctlVars
  <2>2. CASE phase = "handle"
    <3>1. op # "idle" /\ op' # "idle"
      BY <1>4, <2>2, DeviceBusy DEF ConvergeHealthy, ConvergeBroken, Work, ToConverge, InPass
    <3> QED BY <1>1, <2>1, <2>2, <3>1, SteadyIf DEF InHand, HandInv, Known
  <2>3. CASE phase # "handle"
    BY <1>1, <2>1, <2>3, SteadyIf DEF InHand, HandInv, NoEvent, Event
  <2> QED BY <2>2, <2>3
<1>5. CASE \/ NextDrive \/ EndPass1 \/ Scan \/ EndScan \/ Assign \/ BeginPass2 \/ EndConverge
  <2>1. UNCHANGED batch /\ phase # "handle" /\ phase' # "handle"
    BY <1>5 DEF NextDrive, EndPass1, Scan, EndScan, Assign, BeginPass2, EndConverge, InPass
  <2> QED BY <1>1, <2>1, SteadyIf DEF InHand, HandInv, NoEvent, Event
<1> QED BY <1>2, <1>3, <1>4, <1>5

(* The other steps of the converger.                                        *)
LEMMA ConvergerNews ==
  ASSUME TypeInv, HandInv, Converger
  PROVE  (Steady \/ Adds \/ Removes \/ Ignores \/ Forgets) /\ HandInv'
<1> DEFINE R == NewsOf(queue \o outbox)
           d == Head(batch.devs)
<1>1. /\ queue \in Seq(Batch) /\ outbox \in Seq(Batch) /\ queue \o outbox \in Seq(Batch)
      /\ R \in Seq(Changes) /\ batch.kind \in Kinds /\ batch.devs \in Seq(Drives)
  BY NewsOfType, ConcatProperties DEF TypeInv, TypeOK, CollectorsTypeOK, Batch
<1> HIDE DEF R
<1>2. CASE Receive
  <2>1. /\ phase = "wait" /\ queue # <<>> /\ batch' = Head(queue) /\ queue' = Tail(queue)
        /\ phase' = "handle" /\ UNCHANGED <<outbox, op, drives, knownDrives>>
    BY <1>2 DEF Receive, job
  <2>2. op = "idle" /\ batch = NoEvent
    BY <2>1 DEF TypeInv, JobHasDrive, HandInv, InPass
  <2>3. DriveNews(batch.kind, InHand) = <<>>
    BY <2>2 DEF DriveNews, NoEvent, Event
  <2>4. DriveNews(batch'.kind, InHand') = DriveNews(Head(queue).kind, Head(queue).devs)
    BY <2>1, <2>2 DEF InHand
  <2>5. R = DriveNews(Head(queue).kind, Head(queue).devs) \o NewsOf(queue' \o outbox')
    BY <1>1, <2>1, FirstReceived DEF R
  <2>6. Unread = R /\ Unread' = R
    BY <1>1, <2>3, <2>4, <2>5, UnreadIs, ConcatEmptySeq DEF R
  <2> QED BY <2>1, <2>2, <2>6 DEF Steady, HandInv
<1>3. CASE HandleAdded
  <2>1. /\ phase = "handle" /\ op = "idle" /\ batch.kind = "added" /\ batch.devs # <<>>
        /\ drives' = Append(drives, d) /\ op' = "converge"
        /\ UNCHANGED <<batch, phase, queue, outbox, knownDrives>>
    BY <1>3 DEF HandleAdded, Handling, collectorVars
  <2>2. d \in Drives
    BY <1>1, <2>1, HeadTailProperties
  <2> DEFINE V == DriveNews("added", batch.devs)
  <2>3. V \in Seq(Changes) /\ V # <<>> /\ V[1] = L!Added(d) /\ Tail(V) = DriveNews("added", Tail(batch.devs))
    BY <1>1, <2>1, DriveNewsType, DriveNewsTail DEF L!Added, Kinds
  <2> HIDE DEF d, V
  <2>4. Unread = V \o R /\ Unread' = Tail(V) \o R
    BY <2>1, <2>3, UnreadIs DEF InHand, V, R
  <2>5. Hears(L!Added(d))
    BY <1>1, <2>1, <2>3, <2>4, TailConcat DEF Hears
  <2> QED BY <2>1, <2>2, <2>5 DEF Adds, HandInv
<1>4. CASE HandleError
  <2>1. /\ phase = "handle" /\ batch.kind = "error" /\ batch'.kind = "error"
        /\ UNCHANGED <<drives, knownDrives, queue, outbox, phase>>
    BY <1>4 DEF HandleError, Handling, EventDone, collectorVars, TypeInv, TypeOK, Batch
  <2>2. DriveNews(batch.kind, InHand) = <<>> /\ DriveNews(batch'.kind, InHand') = <<>>
    BY <2>1 DEF DriveNews
  <2> QED BY <2>1, <2>2, SteadyIf DEF HandInv
<1>5. CASE HandleUnknown
  <2>1. /\ phase = "handle" /\ op = "idle" /\ batch.devs # <<>> /\ batch.kind # "added"
        /\ d \notin Known /\ batch'.kind = batch.kind /\ batch'.devs = Tail(batch.devs)
        /\ UNCHANGED <<drives, knownDrives, queue, outbox, phase, op>>
    BY <1>5 DEF HandleUnknown, EventDone, collectorVars, TypeInv, TypeOK, Batch, deviceVars,
       driveVars, job
  <2>2. CASE batch.kind # "removed"
    <3>1. DriveNews(batch.kind, InHand) = <<>> /\ DriveNews(batch'.kind, InHand') = <<>>
      BY <2>1, <2>2 DEF DriveNews
    <3> QED BY <2>1, <2>2, <3>1, SteadyIf DEF HandInv
  <2>3. CASE batch.kind = "removed"
    <3>1. d \in Drives
      BY <1>1, <2>1, HeadTailProperties
    <3> DEFINE V == DriveNews("removed", batch.devs)
    <3>2. /\ V \in Seq(Changes) /\ V # <<>> /\ V[1] = L!Gone(d)
          /\ Tail(V) = DriveNews("removed", Tail(batch.devs))
      BY <1>1, <2>1, DriveNewsType, DriveNewsTail DEF L!Gone, Kinds
    <3> HIDE DEF d, V
    <3>3. Unread = V \o R /\ Unread' = Tail(V) \o R
      BY <2>1, <2>3, <3>2, UnreadIs DEF InHand, V, R
    <3>4. Hears(L!Gone(d))
      BY <1>1, <2>1, <3>2, <3>3, TailConcat DEF Hears
    <3> QED BY <2>1, <3>1, <3>4 DEF Ignores, HandInv
  <2> QED BY <2>2, <2>3
<1>6. CASE EventHandled
  <2>1. /\ phase = "handle" /\ op = "done" /\ op' = "idle" /\ batch.devs # <<>>
        /\ batch'.kind = batch.kind /\ batch'.devs = Tail(batch.devs)
        /\ IF batch.kind = "removed" THEN drives' \in Removed(drives, d) ELSE UNCHANGED drives
        /\ UNCHANGED <<knownDrives, queue, outbox, phase>>
    BY <1>6 DEF EventHandled, EventDone, collectorVars, TypeInv, TypeOK, Batch, JobHasDrive, InPass
  <2>2. CASE batch.kind # "removed"
    <3>1. DriveNews(batch'.kind, InHand') = DriveNews(batch.kind, InHand)
      BY <2>1, <2>2 DEF DriveNews, InHand
    <3> QED BY <2>1, <2>2, <3>1, SteadyIf DEF HandInv
  <2>3. CASE batch.kind = "removed"
    <3>1. d \in Known
      BY <2>1, <2>3 DEF HandInv
    <3> DEFINE V == DriveNews("removed", batch.devs)
    <3>2. /\ V \in Seq(Changes) /\ V # <<>> /\ V[1] = L!Gone(d)
          /\ Tail(V) = DriveNews("removed", Tail(batch.devs))
      BY <1>1, <2>1, DriveNewsType, DriveNewsTail DEF L!Gone, Kinds
    <3> HIDE DEF d, V
    <3>3. Unread = V \o R /\ Unread' = Tail(V) \o R
      BY <2>1, <2>3, <3>2, UnreadIs DEF InHand, V, R
    <3>4. Hears(L!Gone(d))
      BY <1>1, <2>1, <3>2, <3>3, TailConcat DEF Hears
    <3> QED BY <2>1, <2>3, <3>1, <3>4 DEF Removes, HandInv
  <2> QED BY <2>2, <2>3
<1>7. CASE ConvergeUnreadable
  BY <1>7, EndForgets DEF ConvergeUnreadable
<1> QED BY <1>2, <1>3, <1>4, <1>5, <1>6, <1>7, QuietSteps DEF Converger

LEMMA NewsAssociative ==
  \A a, b, c \in Seq(Changes) : a \o (b \o c) = (a \o b) \o c
BY Associative, SMT

LEMMA BatchesAssociative ==
  \A a, b, c \in Seq(Batch) : (a \o b) \o c = a \o (b \o c)
BY Associative, SMT

(* What the reinstatement collector waits to send is a reinstatement.       *)
HeldInv == held # <<>> => Head(held).kind = "reinstated"

LEMMA HeldStep ==
  ASSUME HeldInv, [Next]_vars
  PROVE  HeldInv'
<1>1. CASE CollectReinstatements
  BY <1>1 DEF CollectReinstatements, BatchOf, Event, HeldInv
<1>2. CASE ~CollectReinstatements
  <2>1. held' = held \/ held' = <<>>
    <3>1. CASE Converger
      BY <3>1 DEF Converger, Receive, HandleAdded, HandleReinstated, HandleRemoved, HandleError,
         HandleUnknown, EventHandled, BeginConverge, ConvergeHealthy, ConvergeBroken,
         ConvergeUnreadable, Work, NextDrive, EndPass1, Scan, EndScan, Assign, BeginPass2,
         EndConverge, ProcessEnds, CollectorsReset, collectorVars
    <3>2. CASE ~Converger
      BY <1>2, <3>2 DEF Next, CollectorStep, Collect, CollectDrives, SendDriveEvents,
         SendReinstatements, ScheduleWakeup, NoDrivesFound, Restart, Environment, LogError,
         SendDriveError, Crash, Reboot, ProcessEnds, CollectorsReset, vars, collectorVars
    <3> QED BY <3>1, <3>2
  <2> QED BY <2>1 DEF HeldInv
<1> QED BY <1>1, <1>2

(* The steps of the collectors, of the supervisor and of the world.         *)
LEMMA OutsideNews ==
  ASSUME TypeInv, HandInv, HeldInv,
         CollectorStep \/ NoDrivesFound \/ Restart \/ Environment \/ UNCHANGED vars
  PROVE  (Steady \/ Looks \/ Forgets) /\ HandInv'
<1> DEFINE R == NewsOf(queue \o outbox)
           X == DriveNews(batch.kind, InHand)
<1>1. /\ queue \in Seq(Batch) /\ outbox \in Seq(Batch) /\ held \in Seq(Batch)
      /\ queue \o outbox \in Seq(Batch)
      /\ batch.kind \in Kinds /\ batch.devs \in Seq(Drives) /\ knownDrives \subseteq Drives
      /\ devices \subseteq Drives
  BY ConcatProperties DEF TypeInv, TypeOK, CollectorsTypeOK, HostTypeOK, Batch
<1>2. CASE ProcessEnds
  BY <1>2, EndForgets
<1>3. CASE ~ProcessEnds
  <2>1. UNCHANGED <<drives, batch, op>>
    BY <1>3 DEF CollectorStep, NoDrivesFound, Restart, Environment, LogError, Crash, Reboot,
       vars, ctlVars, deviceVars, driveVars, job
  <2>2. phase' = phase \/ (phase # "handle" /\ phase' # "handle")
    BY <1>3 DEF CollectorStep, NoDrivesFound, Restart, Environment, LogError, Crash, Reboot,
       vars, ctlVars
  <2>3. HandInv'
    BY <2>1, <2>2 DEF HandInv, Known
  <2>4. DriveNews(batch'.kind, InHand') = X
    BY <2>1 DEF InHand
  <2>5. CASE CollectDrives
    <3> DEFINE gone == knownDrives \ devices
               new == {d \in devices \ knownDrives : Eligible(d)}
    <3>1. PICK r \in BatchOf("removed", gone, Sorted(gone)), a \in BatchOf("added", new, Sorted(new)) :
            outbox' = outbox \o r \o a
      BY <2>5 DEF CollectDrives
    <3>2. /\ Sorted(gone) \subseteq Seq(Drives) /\ Sorted(new) \subseteq Seq(Drives)
          /\ \A S : S = {} => <<>> \in Sorted(S)
      <4>1. <<>> \in Sorted({})
        BY FS_EmptySet DEF Sorted
      <4> QED BY <1>1, <4>1, ListingsType
    <3>3. ASSUME NEW kind \in {"added", "removed"}, NEW S, Sorted(S) \subseteq Seq(Drives),
                 NEW b \in BatchOf(kind, S, Sorted(S))
          PROVE  b \in Seq(Batch) /\ \E s \in Sorted(S) : NewsOf(b) = DriveNews(kind, s)
      <4>1. CASE S = {}
        <5>1. b = <<>> /\ <<>> \in Sorted(S)
          BY <3>2, <3>3, <4>1 DEF BatchOf
        <5>2. NoEvent \in Batch
          BY EmptySeq DEF NoEvent, Event, Batch, Kinds
        <5>3. NewsOf(<<>>) = <<>>
          BY <5>2, NewsOfOne
        <5>4. DriveNews(kind, <<>>) = <<>>
          BY DEF DriveNews
        <5> QED BY <5>1, <5>3, <5>4, EmptySeq
      <4>2. CASE S # {}
        <5>1. PICK s \in Sorted(S) : b = <<Event(kind, s)>>
          BY <3>3, <4>2 DEF BatchOf
        <5>2. Event(kind, s) \in Batch
          BY <3>3 DEF Event, Batch, Kinds
        <5> QED BY <5>1, <5>2, NewsOfOne DEF Event
      <4> QED BY <4>1, <4>2
    <3>4. PICK g \in Sorted(gone) : r \in Seq(Batch) /\ NewsOf(r) = DriveNews("removed", g)
      BY <3>1, <3>2, <3>3
    <3>5. PICK s \in Sorted(new) : a \in Seq(Batch) /\ NewsOf(a) = DriveNews("added", s)
      BY <3>1, <3>2, <3>3
    <3>6. /\ queue' = queue /\ knownDrives' = devices
      BY <2>5 DEF CollectDrives
    <3> HIDE DEF gone, new
    <3>7. queue \o ((outbox \o r) \o a) = (queue \o outbox) \o (r \o a)
      <4>1. outbox \o r \in Seq(Batch) /\ r \o a \in Seq(Batch)
        BY <1>1, <3>4, <3>5, ConcatProperties
      <4>2. (outbox \o r) \o a = outbox \o (r \o a)
        BY <1>1, <3>4, <3>5, Associative, SMT
      <4>3. PICK z : z = r \o a
        OBVIOUS
      <4>4. (queue \o outbox) \o z = queue \o (outbox \o z)
        BY <1>1, <4>1, <4>3, BatchesAssociative
      <4> QED BY <4>2, <4>3, <4>4
    <3>8. NewsOf(queue' \o outbox') = R \o (NewsOf(r) \o NewsOf(a))
      <4>1. r \o a \in Seq(Batch)
        BY <3>4, <3>5, ConcatProperties
      <4>2. NewsOf((queue \o outbox) \o (r \o a)) = R \o NewsOf(r \o a)
        BY <1>1, <4>1, NewsOfConcat
      <4> QED BY <3>1, <3>4, <3>5, <3>6, <3>7, <4>2, NewsOfConcat
    <3>9. X \in Seq(Changes) /\ R \in Seq(Changes) /\ NewsOf(r) \o NewsOf(a) \in Seq(Changes)
      <4>1. NewsOf(r) \in Seq(Changes) /\ NewsOf(a) \in Seq(Changes) /\ R \in Seq(Changes)
        BY <1>1, <3>4, <3>5, NewsOfType
      <4>2. InHand \in Seq(Drives)
        BY <1>1, HeadTailProperties DEF InHand, TypeInv, JobHasDrive, HandInv, InPass, NoEvent, Event
      <4> QED BY <1>1, <4>1, <4>2, DriveNewsType, ConcatProperties
    <3> HIDE DEF R, X
    <3>10. PICK z : z = NewsOf(r) \o NewsOf(a)
      OBVIOUS
    <3>11. X \o (R \o z) = (X \o R) \o z
      BY <3>9, <3>10, NewsAssociative
    <3>12. Unread' = (X \o R) \o z /\ Unread = X \o R
      BY <2>4, <3>8, <3>10, <3>11, UnreadIs DEF X, R
    <3>13. Unread' = Unread \o (DriveNews("removed", g) \o DriveNews("added", s))
      BY <3>4, <3>5, <3>10, <3>12
    <3> QED BY <2>1, <2>3, <3>6, <3>13 DEF Looks, gone, new
  <2>6. CASE ~CollectDrives
    <3>1. UNCHANGED knownDrives
      BY <1>3, <2>6 DEF CollectorStep, Collect, SendDriveEvents, CollectReinstatements,
         SendReinstatements, ScheduleWakeup, NoDrivesFound, Restart, Environment, LogError,
         SendDriveError, Crash, Reboot, vars, collectorVars
    <3>2. NewsOf(queue' \o outbox') = R
      <4>1. CASE SendDriveEvents
        BY <1>1, <4>1, HandedOver DEF SendDriveEvents
      <4>2. ASSUME NEW b \in Batch, b.kind \notin {"added", "removed"},
                   queue' = Append(queue, b), UNCHANGED outbox
            PROVE  NewsOf(queue' \o outbox') = R
        BY <1>1, <4>2, SlipsIn
      <4>3. CASE SendReinstatements
        <5>1. held # <<>> /\ queue' = Append(queue, Head(held)) /\ UNCHANGED outbox
          BY <4>3 DEF SendReinstatements
        <5>2. Head(held) \in Batch
          BY <1>1, <5>1, HeadTailProperties
        <5>3. Head(held).kind \notin {"added", "removed"}
          BY <5>1 DEF HeldInv
        <5> QED BY <4>2, <5>1, <5>2, <5>3
      <4>4. CASE ScheduleWakeup
        BY <4>2, <4>4, EmptySeq DEF ScheduleWakeup, Event, Batch, Kinds
      <4>5. ASSUME NEW d \in Drives, SendDriveError(d)
            PROVE  NewsOf(queue' \o outbox') = R
        <5>1. Event("error", <<d>>) \in Batch
          BY DEF Event, Batch, Kinds
        <5>2. Event("error", <<d>>).kind \notin {"added", "removed"}
          BY DEF Event
        <5> QED BY <4>2, <4>5, <5>1, <5>2 DEF SendDriveError
      <4>6. CASE UNCHANGED <<queue, outbox>>
        BY <4>6
      <4> QED BY <1>3, <2>6, <4>1, <4>3, <4>4, <4>5, <4>6
          DEF CollectorStep, Collect, CollectReinstatements, NoDrivesFound, Restart, Environment,
              LogError, Crash, Reboot, vars, collectorVars
    <3> QED BY <2>1, <2>3, <2>4, <3>1, <3>2, SteadyIf
  <2> QED BY <2>5, <2>6
<1> QED BY <1>2, <1>3

-----------------------------------------------------------------------------
(* Lists of drives.                                                         *)

(* A set of drives sorted is a list of all of them, each once.              *)
LEMMA SortedListsAll ==
  ASSUME NEW S \in SUBSET Drives, NEW s \in Sorted(S)
  PROVE  /\ s \in Seq(Drives) /\ IsInjective(s) /\ ToSet(s) = S
         /\ s \in [1 .. Cardinality(S) -> S] /\ Len(s) = Cardinality(S)
<1>1. IsFiniteSet(S) /\ Cardinality(S) \in Nat
  BY HostAssumption, FS_Subset, FS_CardinalityType
<1>2. /\ s \in [1 .. Cardinality(S) -> S]
      /\ \A i, j \in DOMAIN s : i < j => s[i] < s[j]
  BY DEF Sorted
<1>3. s \in Seq(Drives)
  BY ListingsType
<1>4. IsInjective(s)
  <2>1. ASSUME NEW i \in DOMAIN s, NEW j \in DOMAIN s, s[i] = s[j]
        PROVE  i = j
    <3>1. i \in 1 .. Cardinality(S) /\ j \in 1 .. Cardinality(S)
      BY <1>2
    <3>2. s[i] \in Nat /\ s[j] \in Nat
      BY <1>2, <3>1, HostAssumption
    <3>3. ~ (s[i] < s[j]) /\ ~ (s[j] < s[i])
      BY <2>1, <3>2
    <3>4. ~ (i < j) /\ ~ (j < i)
      BY <1>2, <3>3
    <3> QED BY <1>1, <3>1, <3>4
  <2> QED BY <2>1 DEF IsInjective
<1>5. ToSet(s) = S
  <2>1. \A x \in S : \E i \in 1 .. Cardinality(S) : s[i] = x
    BY <1>1, <1>2, <1>4, ListsAll
  <2> QED BY <1>2, <2>1 DEF ToSet
<1>6. Len(s) = Cardinality(S)
  BY <1>1, <1>2, <1>3, LenProperties, SameLength
<1> QED BY <1>2, <1>3, <1>4, <1>5, <1>6

(* To drop a drive from a list that has it once is to drop its position.    *)
LEMMA RemovedOrder ==
  ASSUME NEW n \in Nat, NEW ds, DOMAIN ds = 1 .. n, IsInjective(ds), NEW i \in 1 .. n,
         NEW r \in Removed(ds, ds[i])
  PROVE  /\ DOMAIN r = 1 .. n - 1
         /\ \A j \in 1 .. n - 1 : r[j] = IF j < i THEN ds[j] ELSE ds[j + 1]
<1> DEFINE keep == {j \in DOMAIN ds : ds[j] # ds[i]}
<1>1. keep = (1 .. n) \ {i}
  BY DEF IsInjective
<1>2. Cardinality(keep) = n - 1
  <2>1. IsFiniteSet(1 .. n) /\ Cardinality(1 .. n) = n
    BY FS_Interval
  <2>2. Cardinality((1 .. n) \ {i}) = Cardinality(1 .. n) - 1
    BY <2>1, FS_RemoveElement
  <2> QED BY <1>1, <2>1, <2>2
<1>3. PICK f \in Sorted(keep) : r = [j \in DOMAIN f |-> ds[f[j]]]
  BY DEF Removed
<1> HIDE DEF keep
<1>4. /\ f \in [1 .. n - 1 -> (1 .. n) \ {i}] /\ DOMAIN f = 1 .. n - 1
      /\ \A j, k \in 1 .. n - 1 : j < k => f[j] < f[k]
  BY <1>1, <1>2, <1>3 DEF Sorted
<1>5. \A j \in 1 .. n - 1 : f[j] = IF j < i THEN j ELSE j + 1
  <2>1. ASSUME NEW g \in [1 .. n - 1 -> (1 .. n) \ {i}],
               \A j, k \in 1 .. n - 1 : j < k => g[j] < g[k]
        PROVE  \A j \in 1 .. n - 1 : g[j] = IF j < i THEN j ELSE j + 1
    BY <2>1, OrderedRest
  <2> QED BY <1>4, <2>1
<1> QED BY <1>3, <1>4, <1>5

LEMMA RemovedIsRemoveAt ==
  ASSUME NEW ds \in Seq(Drives), IsInjective(ds), NEW i \in 1 .. Len(ds),
         NEW r \in Removed(ds, ds[i])
  PROVE  r = RemoveAt(ds, i)
<1>1. Len(ds) \in Nat /\ DOMAIN ds = 1 .. Len(ds)
  BY LenProperties
<1>2. /\ DOMAIN r = 1 .. Len(ds) - 1
      /\ \A j \in 1 .. Len(ds) - 1 : r[j] = IF j < i THEN ds[j] ELSE ds[j + 1]
  BY <1>1, RemovedOrder
<1>3. r \in [1 .. Len(ds) - 1 -> Drives]
  <2>1. r \in Seq(Drives)
    BY RemovedType
  <2> QED BY <1>2, <2>1, LenProperties, ElementOfSeq
<1> QED BY <1>2, <1>3, IsRemoveAt

(* Disks do not heal, and they do not die unless they may.                  *)
LEMMA UnreadableGrows ==
  ASSUME [Next]_vars
  PROVE  /\ unreadable \subseteq unreadable'
         /\ "fail" \notin Upsets => unreadable' = unreadable
<1>1. CASE Work
  BY <1>1 DEF Work, DeviceStep, XFSStep, Format, UnmountOther, OthersUnmounted, Mount,
     ClearPropagation, Announce, Umount, LUKSFormat, LUKSOpen, Descend, SetupInside,
     BeginSetup, FilesystemTornDown, TornDown, LUKSClose, GiveUp, disks, hostVars
<1>2. CASE Converger /\ ~Work
  BY <1>2 DEF Converger, Receive, HandleAdded, HandleReinstated, HandleRemoved, HandleError,
     HandleUnknown, EventHandled, BeginConverge, ConvergeHealthy, ConvergeBroken,
     ConvergeUnreadable, NextDrive, EndPass1, Scan, ScanDrive, EndScan, Assign, AssignDrive,
     BeginPass2, EndConverge, Setup, BeginSetup, BeginLUKSSetup, hostVars, disks
<1>3. CASE ~Converger /\ ~FailDisk
  BY <1>3 DEF Next, CollectorStep, NoDrivesFound, Restart, Environment, HostUpset,
     EditSwiftID, ExternalUmount, ExternalClose, RemountReadonly, Unplug, Plug,
     DeleteFlag, CreateDurableFlag, LogError, Crash, Reboot, HostReboot, vars, hostVars, disks
<1>4. CASE FailDisk
  BY <1>4 DEF FailDisk, Upset
<1> QED BY <1>1, <1>2, <1>3, <1>4

-----------------------------------------------------------------------------
(* The drives that are listed once all news have been followed.             *)
Announced == Following(Known, Unread, Len(Unread))

(* Wherever the news are on their way, they fit the list that they will     *)
(* meet, and lead it to the drives that the drive collector knows.  Drives  *)
(* that could not be read when they were found are known, but not listed.   *)
NewsInv ==
  /\ IsInjective(drives)
  /\ Fit(Known, Unread, unreadable)
  /\ Announced \subseteq knownDrives /\ knownDrives \ Announced \subseteq unreadable

ListInv == TypeInv /\ HandInv /\ HeldInv /\ NewsInv

(* Parts of the type invariant, for news and lists.                         *)
LEMMA NewsTypes ==
  ASSUME TypeInv, HandInv
  PROVE  /\ Unread \in Seq(Changes) /\ drives \in Seq(Drives)
         /\ Known \subseteq Drives /\ knownDrives \subseteq Drives /\ devices \subseteq Drives
         /\ DOMAIN drives = 1 .. Len(drives) /\ Len(drives) \in Nat
<1>1. /\ queue \in Seq(Batch) /\ outbox \in Seq(Batch) /\ queue \o outbox \in Seq(Batch)
      /\ batch.kind \in Kinds /\ batch.devs \in Seq(Drives)
      /\ drives \in Seq(Drives) /\ knownDrives \subseteq Drives /\ devices \subseteq Drives
  BY ConcatProperties DEF TypeInv, TypeOK, CollectorsTypeOK, HostTypeOK, Batch
<1>2. InHand \in Seq(Drives)
  BY <1>1, HeadTailProperties DEF InHand, TypeInv, JobHasDrive, HandInv, InPass, NoEvent, Event
<1>3. Unread \in Seq(Changes)
  BY <1>1, <1>2, DriveNewsType, NewsOfType, UnreadIs, ConcatProperties
<1>4. DOMAIN drives = 1 .. Len(drives) /\ Len(drives) \in Nat
  BY <1>1, LenProperties
<1>5. Known \subseteq Drives
  BY <1>1, <1>4, ElementOfSeq DEF Known, ToSet
<1> QED BY <1>1, <1>3, <1>4, <1>5

(* Nothing that fits stops fitting when more disks die.                     *)
LEMMA FitGrows ==
  ASSUME NEW K, NEW U, NEW A, NEW B, A \subseteq B, Fit(K, U, A)
  PROVE  Fit(K, U, B)
BY DEF Fit

(* An empty list of news fits every list, and changes nothing.              *)
LEMMA NoNews ==
  ASSUME NEW K \in SUBSET Drives, NEW B
  PROVE  Fit(K, <<>>, B) /\ Following(K, <<>>, Len(<<>>)) = K
<1>1. Len(<<>>) = 0
  BY EmptySeq
<1> QED BY <1>1 DEF Fit, Following

(* A look at the device files adds news that lead the list to what is there.*)
LEMMA LooksInv ==
  ASSUME ListInv, Looks, unreadable \subseteq unreadable'
  PROVE  NewsInv'
<1> DEFINE gone == knownDrives \ devices
           new == {d \in devices \ knownDrives : Eligible(d)}
           K == Known
           U == Unread
<1>1. /\ U \in Seq(Changes) /\ K \in SUBSET Drives
      /\ knownDrives \in SUBSET Drives /\ devices \in SUBSET Drives
      /\ Len(U) \in Nat
  BY NewsTypes, LenProperties DEF ListInv
<1>2. PICK g \in Sorted(gone), a \in Sorted(new) :
        Unread' = U \o (DriveNews("removed", g) \o DriveNews("added", a))
  BY DEF Looks
<1>3. /\ g \in Seq(Drives) /\ IsInjective(g) /\ ToSet(g) = gone
      /\ a \in Seq(Drives) /\ IsInjective(a) /\ ToSet(a) = new
  <2>1. gone \in SUBSET Drives /\ new \in SUBSET Drives
    BY <1>1
  <2> QED BY <1>2, <2>1, SortedListsAll
<1>4. (devices \ knownDrives) \ ToSet(a) \subseteq unreadable
  BY <1>3 DEF Eligible
<1> DEFINE V == DriveNews("removed", g) \o DriveNews("added", a)
           J == Following(K, U, Len(U))
<1>5. J \in SUBSET Drives /\ J \subseteq knownDrives /\ knownDrives \ J \subseteq unreadable
  BY DEF ListInv, NewsInv, Announced, Following
<1>6. PICK v : v = V
  OBVIOUS
<1>7. ToSet(g) = knownDrives \ devices /\ ToSet(a) \subseteq devices \ knownDrives
  BY <1>3
<1> HIDE DEF gone, new, V, J
<1>8. /\ v \in Seq(Changes) /\ Fit(J, v, unreadable)
      /\ Following(J, v, Len(v)) \subseteq devices
      /\ devices \ Following(J, v, Len(v)) \subseteq unreadable
  <2>1. Saw(J, knownDrives, devices, unreadable, v)
    BY <1>1, <1>3, <1>4, <1>5, <1>6, <1>7 DEF Saw, V
  <2> QED BY <2>1, LookFits
<1> HIDE DEF K, U
<1>9. Fit(K, U \o v, unreadable)
  BY <1>1, <1>8, FitConcat DEF ListInv, NewsInv, J, K, U
<1>10. Following(K, U \o v, Len(U \o v)) = Following(J, v, Len(v))
  <2>1. Len(v) \in 0 .. Len(v) /\ Len(U \o v) = Len(U) + Len(v)
    BY <1>1, <1>8, ConcatProperties, LenProperties
  <2> QED BY <1>1, <1>8, <2>1, FollowOn DEF J
<1>11. Known' = K /\ Unread' = U \o v /\ knownDrives' = devices /\ drives' = drives
  BY <1>2, <1>6 DEF Looks, Known, K, V
<1>12. Fit(Known', Unread', unreadable')
  BY <1>9, <1>11, FitGrows
<1>13. Announced' = Following(J, v, Len(v))
  BY <1>10, <1>11 DEF Announced
<1> QED BY <1>8, <1>11, <1>12, <1>13 DEF NewsInv, ListInv

(* One of the news is followed.                                             *)
LEMMA HearsInv ==
  ASSUME ListInv, unreadable \subseteq unreadable', NEW change, Hears(change),
         IsInjective(drives'), Known' \subseteq Drives,
         \A d \in Drives : d \in Known' <=> change = L!Added(d) \/ (d \in Known /\ change # L!Gone(d))
  PROVE  NewsInv'
<1> DEFINE K == Known
           U == Unread
           J == Known'
<1>1. U \in Seq(Changes) /\ U # <<>> /\ U[1] = change /\ K \in SUBSET Drives /\ J \in SUBSET Drives
  BY NewsTypes DEF ListInv, Hears
<1>2. Fit(K, U, unreadable)
  BY DEF ListInv, NewsInv
<1>3. Unread' = Tail(U) /\ knownDrives' = knownDrives
  BY DEF Hears
<1>4. \A d \in Drives : d \in J <=> U[1] = L!Added(d) \/ (d \in K /\ U[1] # L!Gone(d))
  BY <1>1
<1>5. PICK j : j = J
  OBVIOUS
<1> HIDE DEF K, U, J
<1>6. Fit(j, Tail(U), unreadable) /\ Following(j, Tail(U), Len(Tail(U))) = Following(K, U, Len(U))
  BY <1>1, <1>2, <1>4, <1>5, FitTail
<1>7. Fit(Known', Unread', unreadable')
  BY <1>3, <1>5, <1>6, FitGrows DEF J
<1>8. Announced' = Announced
  BY <1>3, <1>5, <1>6 DEF Announced, J, K, U
<1> QED BY <1>3, <1>7, <1>8 DEF NewsInv, ListInv

(* The handlers keep the list: no drive is added twice, and what is removed *)
(* is taken off it.                                                         *)
LEMMA AddsInv ==
  ASSUME ListInv, Adds, unreadable \subseteq unreadable'
  PROVE  /\ \E d \in Drives \ Known : Hears(L!Added(d)) /\ drives' = Append(drives, d)
         /\ NewsInv'
<1>1. /\ Unread \in Seq(Changes) /\ drives \in Seq(Drives) /\ Known \in SUBSET Drives
      /\ DOMAIN drives = 1 .. Len(drives) /\ Len(drives) \in Nat
  BY NewsTypes DEF ListInv
<1>2. PICK d \in Drives : Hears(L!Added(d)) /\ drives' = Append(drives, d)
  BY DEF Adds
<1>3. Len(Unread) \in Nat \ {0} /\ Unread[1] = L!Added(d)
  BY <1>1, <1>2, LenProperties, EmptySeq DEF Hears
<1>4. d \notin Known
  <2>1. 1 \in 1 .. Len(Unread) /\ 1 - 1 = 0
    BY <1>3
  <2>2. d \notin Following(Known, Unread, 0)
    BY <1>3, <2>1 DEF ListInv, NewsInv, Fit
  <2>3. \A k \in 1 .. 0 : FALSE
    OBVIOUS
  <2> QED BY <2>2, <2>3 DEF Following
<1>5. /\ drives' \in Seq(Drives) /\ Len(drives') = Len(drives) + 1
      /\ drives'[Len(drives) + 1] = d
      /\ \A i \in 1 .. Len(drives) : drives'[i] = drives[i]
  BY <1>1, <1>2, AppendProperties
<1>6. DOMAIN drives' = 1 .. Len(drives) + 1
  BY <1>5, LenProperties
<1>7. Known' = Known \cup {d}
  BY <1>1, <1>5, <1>6 DEF Known, ToSet
<1>8. IsInjective(drives')
  <2>1. \A i \in 1 .. Len(drives) : drives[i] # d
    BY <1>1, <1>4 DEF Known, ToSet
  <2>2. \A i, j \in 1 .. Len(drives) : drives[i] = drives[j] => i = j
    BY <1>1 DEF ListInv, NewsInv, IsInjective
  <2>3. \A i \in 1 .. Len(drives) + 1 : i \in 1 .. Len(drives) \/ i = Len(drives) + 1
    BY <1>1
  <2>4. \A i, j \in 1 .. Len(drives) + 1 : drives'[i] = drives'[j] => i = j
    BY <1>5, <2>1, <2>2, <2>3
  <2> QED BY <1>6, <2>4 DEF IsInjective
<1>9. /\ Known' \subseteq Drives
      /\ \A e \in Drives : e \in Known' <=> L!Added(d) = L!Added(e)
                                             \/ (e \in Known /\ L!Added(d) # L!Gone(e))
  BY <1>1, <1>7, ChangesDiffer
<1>10. NewsInv'
  BY <1>2, <1>8, <1>9, HearsInv
<1> QED BY <1>2, <1>4, <1>10

LEMMA RemovesInv ==
  ASSUME ListInv, Removes, unreadable \subseteq unreadable'
  PROVE  /\ \E i \in DOMAIN drives : Hears(L!Gone(drives[i])) /\ drives' = RemoveAt(drives, i)
         /\ NewsInv'
<1>1. /\ drives \in Seq(Drives) /\ Known \in SUBSET Drives /\ IsInjective(drives)
      /\ DOMAIN drives = 1 .. Len(drives)
  BY NewsTypes DEF ListInv, NewsInv
<1>2. PICK d \in Known : Hears(L!Gone(d)) /\ drives' \in Removed(drives, d)
  BY DEF Removes
<1>3. PICK i \in 1 .. Len(drives) : drives[i] = d
  BY <1>1 DEF Known, ToSet
<1>4. drives' \in Removed(drives, drives[i])
  BY <1>2, <1>3
<1>5. drives' = RemoveAt(drives, i)
  BY <1>1, <1>4, RemovedIsRemoveAt
<1>6. IsInjective(drives') /\ Known' = Known \ {d}
  BY <1>1, <1>3, <1>5, RemoveAtInjective DEF Known
<1>7. /\ Known' \subseteq Drives
      /\ \A e \in Drives : e \in Known' <=> L!Gone(d) = L!Added(e)
                                             \/ (e \in Known /\ L!Gone(d) # L!Gone(e))
  BY <1>1, <1>6, ChangesDiffer
<1>8. NewsInv'
  BY <1>2, <1>6, <1>7, HearsInv
<1> QED BY <1>1, <1>2, <1>3, <1>5, <1>8

(* A removal is only ignored if the drive could not be read when it was     *)
(* found.                                                                   *)
LEMMA IgnoresInv ==
  ASSUME ListInv, Ignores, unreadable \subseteq unreadable'
  PROVE  unreadable # {} /\ NewsInv'
<1>1. /\ Unread \in Seq(Changes) /\ Known \in SUBSET Drives /\ IsInjective(drives)
  BY NewsTypes DEF ListInv, NewsInv
<1>2. PICK d \in Drives \ Known : Hears(L!Gone(d)) /\ UNCHANGED drives
  BY DEF Ignores
<1>3. Len(Unread) \in Nat \ {0} /\ Unread[1] = L!Gone(d)
  BY <1>1, <1>2, LenProperties, EmptySeq DEF Hears
<1>4. d \in unreadable
  <2>1. 1 \in 1 .. Len(Unread) /\ 1 - 1 = 0
    BY <1>3
  <2>2. d \in Following(Known, Unread, 0) \cup unreadable
    BY <1>2, <1>3, <2>1 DEF ListInv, NewsInv, Fit
  <2>3. \A k \in 1 .. 0 : FALSE
    OBVIOUS
  <2> QED BY <1>2, <2>2, <2>3 DEF Following
<1>5. IsInjective(drives') /\ Known' = Known
  BY <1>1, <1>2 DEF Known
<1>6. /\ Known' \subseteq Drives
      /\ \A e \in Drives : e \in Known' <=> L!Gone(d) = L!Added(e)
                                             \/ (e \in Known /\ L!Gone(d) # L!Gone(e))
  BY <1>1, <1>2, <1>5, ChangesDiffer
<1>7. NewsInv'
  BY <1>2, <1>5, <1>6, HearsInv
<1> QED BY <1>4, <1>7

LEMMA ForgetsInv ==
  ASSUME Forgets
  PROVE  NewsInv'
<1>1. drives' = <<>> /\ knownDrives' = {} /\ Unread' = <<>>
  BY DEF Forgets
<1>2. Known' = {} /\ IsInjective(drives')
  BY <1>1 DEF Known, ToSet, IsInjective
<1>3. {} \in SUBSET Drives
  OBVIOUS
<1>4. Fit({}, <<>>, unreadable') /\ Following({}, <<>>, Len(<<>>)) = {}
  BY <1>3, NoNews
<1>5. Announced' = {}
  BY <1>1, <1>2, <1>4 DEF Announced
<1> QED BY <1>1, <1>2, <1>4, <1>5 DEF NewsInv

LEMMA SteadyInv ==
  ASSUME ListInv, Steady, unreadable \subseteq unreadable'
  PROVE  NewsInv'
<1>1. Known' = Known /\ Unread' = Unread /\ knownDrives' = knownDrives /\ drives' = drives
  BY DEF Steady, Known
<1>2. Fit(Known, Unread, unreadable')
  BY FitGrows DEF ListInv, NewsInv
<1>3. Announced' = Announced
  BY <1>1 DEF Announced
<1> QED BY <1>1, <1>2, <1>3 DEF ListInv, NewsInv

(* Every step is one of these.                                              *)
LEMMA Outcomes ==
  ASSUME ListInv, [Next]_vars
  PROVE  Steady \/ Looks \/ Adds \/ Removes \/ Ignores \/ Forgets
BY ConvergerNews, OutsideNews DEF ListInv, Next

LEMMA ListInit == Init => ListInv
<1> SUFFICES ASSUME Init PROVE ListInv
  OBVIOUS
<1>1. TypeInv
  BY InitType
<1>2. HandInv /\ HeldInv
  BY DEF Init, CollectorsInit, HandInv, HeldInv
<1>3. /\ drives = <<>> /\ knownDrives = {} /\ queue = <<>> /\ outbox = <<>> /\ batch = NoEvent
  BY DEF Init, CollectorsInit
<1>4. DriveNews(batch.kind, InHand) = <<>>
  BY <1>3 DEF DriveNews, NoEvent, Event
<1>5. NoEvent \in Batch /\ <<>> \in Seq(Batch) /\ <<>> \in Seq(Changes)
  BY EmptySeq DEF NoEvent, Event, Batch, Kinds
<1>6. queue \o outbox = <<>>
  BY <1>3, <1>5, ConcatEmptySeq
<1>7. NewsOf(queue \o outbox) = <<>>
  BY <1>5, <1>6, NewsOfOne
<1>8. Unread = <<>>
  BY <1>4, <1>5, <1>7, UnreadIs, ConcatEmptySeq
<1>9. Known = {} /\ IsInjective(drives)
  BY <1>3 DEF Known, ToSet, IsInjective
<1>10. {} \in SUBSET Drives
  OBVIOUS
<1>11. Fit({}, <<>>, unreadable) /\ Following({}, <<>>, Len(<<>>)) = {}
  BY <1>10, NoNews
<1>12. Announced = {}
  BY <1>8, <1>9, <1>11 DEF Announced
<1> QED BY <1>1, <1>2, <1>3, <1>8, <1>9, <1>11, <1>12 DEF ListInv, NewsInv

LEMMA ListStep == ListInv /\ [Next]_vars => ListInv'
<1> SUFFICES ASSUME ListInv, [Next]_vars PROVE ListInv'
  OBVIOUS
<1>1. TypeInv'
  BY ConvergerType, OutsideType, StutterType DEF ListInv, Next
<1>2. HandInv'
  BY ConvergerNews, OutsideNews DEF ListInv, Next
<1>3. HeldInv'
  BY HeldStep DEF ListInv
<1>4. NewsInv'
  BY Outcomes, UnreadableGrows, SteadyInv, LooksInv, AddsInv, RemovesInv, IgnoresInv, ForgetsInv
<1> QED BY <1>1, <1>2, <1>3, <1>4 DEF ListInv

LEMMA ListInvariant == Spec => []ListInv
BY ListInit, ListStep, PTL DEF Spec

-----------------------------------------------------------------------------
(* Theorems                                                                 *)

(* The converger never lists a drive twice, whatever happens in whichever   *)
(* order: DriveAddedEvent.Handle appends without looking, but an addition   *)
(* only ever reaches it when the drive is not on the list.                  *)
THEOREM DrivesListedOnce == Spec => []DrivesDistinct
<1>1. ListInv => DrivesDistinct
  BY DEF ListInv, NewsInv, DrivesDistinct
<1> QED BY <1>1, ListInvariant, PTL

(* When all events have been handled, every drive on the list is known to   *)
(* the drive collector, and a known drive that is missing is unreadable.    *)
MissingUnreadable ==
  AtRest /\ outbox = <<>> /\ queue = <<>> =>
    Known \subseteq knownDrives /\ knownDrives \ Known \subseteq unreadable

LEMMA NoneUnread ==
  ASSUME batch = NoEvent, outbox = <<>>, queue = <<>>
  PROVE  Unread = <<>>
<1>1. DriveNews(batch.kind, InHand) = <<>>
  BY DEF DriveNews, NoEvent, Event
<1>2. NoEvent \in Batch /\ <<>> \in Seq(Batch) /\ <<>> \in Seq(Changes)
  BY EmptySeq DEF NoEvent, Event, Batch, Kinds
<1>3. queue \o outbox = <<>>
  BY <1>2, ConcatEmptySeq
<1>4. NewsOf(queue \o outbox) = <<>>
  BY <1>2, <1>3, NewsOfOne
<1> QED BY <1>1, <1>2, <1>4, UnreadIs, ConcatEmptySeq

LEMMA AllRead ==
  ASSUME ListInv
  PROVE  MissingUnreadable
<1> SUFFICES ASSUME AtRest, outbox = <<>>, queue = <<>>
             PROVE  Known \subseteq knownDrives /\ knownDrives \ Known \subseteq unreadable
  BY DEF MissingUnreadable
<1>1. batch = NoEvent
  BY DEF ListInv, HandInv, AtRest
<1>2. Unread = <<>>
  BY <1>1, NoneUnread
<1>3. Known \in SUBSET Drives
  BY NewsTypes DEF ListInv
<1>4. Announced = Known
  BY <1>2, <1>3, NoNews DEF Announced
<1> QED BY <1>4 DEF ListInv, NewsInv

(* Whatever happens to the machine, the converger knows all drives that the *)
(* drive collector knows as soon as it has handled all events, but for some *)
(* disks that are dead; and it knows no others.                             *)
THEOREM NoReadableDriveMissed == Spec => []MissingUnreadable
BY ListInvariant, AllRead, PTL

(* As long as no disk dies, all disks can be read.                          *)
LEMMA AllReadable ==
  ASSUME "fail" \notin Upsets
  PROVE  Spec => [](unreadable = {})
<1>1. Init => unreadable = {}
  BY DEF Init, HostInit
<1>2. unreadable = {} /\ [Next]_vars => (unreadable = {})'
  BY UnreadableGrows
<1> QED BY <1>1, <1>2, PTL DEF Spec

(* If no disk dies, the converger knows just the drives that the drive      *)
(* collector knows, as soon as it has handled all events.                   *)
THEOREM CatchesUp ==
  ASSUME "fail" \notin Upsets
  PROVE  Spec => []CaughtUp
<1>1. MissingUnreadable /\ unreadable = {} => CaughtUp
  BY DEF MissingUnreadable, CaughtUp
<1> QED BY <1>1, NoReadableDriveMissed, AllReadable, PTL

-----------------------------------------------------------------------------
(* The refinement of module DriveList.                                      *)

LEMMA LooksImplements ==
  ASSUME ListInv, unreadable = {}, Looks
  PROVE  L!Look
<1> DEFINE gone == knownDrives \ devices
           new == {d \in devices \ knownDrives : Eligible(d)}
<1>1. knownDrives \in SUBSET Drives /\ devices \in SUBSET Drives /\ Unread \in Seq(Changes)
  BY NewsTypes DEF ListInv
<1>2. new = devices \ knownDrives
  BY DEF Eligible
<1>3. PICK g \in Sorted(gone), a \in Sorted(new) :
        Unread' = Unread \o (DriveNews("removed", g) \o DriveNews("added", a))
  BY DEF Looks
<1>4. gone \in SUBSET Drives /\ new \in SUBSET Drives
  BY <1>1
<1> HIDE DEF gone, new
<1>5. /\ g \in Seq(Drives) /\ IsInjective(g) /\ g \in [1 .. Cardinality(gone) -> gone]
      /\ a \in Seq(Drives) /\ IsInjective(a) /\ a \in [1 .. Cardinality(new) -> new]
  BY <1>3, <1>4, SortedListsAll
<1>6. g \in L!Orders(knownDrives \ devices) /\ a \in L!Orders(devices \ knownDrives)
  <2>1. \A S : L!Cardinality(S) = Cardinality(S)
    BY Zenon DEF L!Cardinality, Cardinality
  <2> QED BY <1>2, <1>5, <2>1 DEF L!Orders, L!IsInjective, IsInjective, gone
<1>7. /\ DriveNews("removed", g) = [i \in DOMAIN g |-> L!Gone(g[i])]
      /\ DriveNews("added", a) = [i \in DOMAIN a |-> L!Added(a[i])]
  BY DEF DriveNews, L!Gone, L!Added
<1>8. DriveNews("removed", g) \in Seq(Changes) /\ DriveNews("added", a) \in Seq(Changes)
  BY <1>5, DriveNewsType DEF Kinds
<1>9. PICK v, w : v = DriveNews("removed", g) /\ w = DriveNews("added", a)
  OBVIOUS
<1>10. Unread' = (Unread \o v) \o w
  BY <1>1, <1>3, <1>8, <1>9, NewsAssociative
<1>11. Unread' = Unread \o [i \in DOMAIN g |-> L!Gone(g[i])] \o [i \in DOMAIN a |-> L!Added(a[i])]
  BY <1>7, <1>9, <1>10
<1>12. knownDrives' = devices /\ UNCHANGED drives
  BY DEF Looks
<1> QED BY <1>1, <1>6, <1>11, <1>12 DEF L!Look

LEMMA ListStepImplements ==
  ASSUME ListInv, unreadable = {}, [Next]_vars
  PROVE  [L!Next]_L!driveList
<1>1. unreadable \subseteq unreadable'
  BY UnreadableGrows
<1>2. CASE Steady
  BY <1>2 DEF Steady, L!driveList
<1>3. CASE Looks
  BY <1>3, LooksImplements DEF L!Next
<1>4. CASE Adds
  <2>1. PICK d \in Drives \ Known : Hears(L!Added(d)) /\ drives' = Append(drives, d)
    BY <1>1, <1>4, AddsInv
  <2>2. Unread # <<>> /\ Head(Unread) = L!Added(d) /\ Unread' = Tail(Unread) /\ UNCHANGED knownDrives
    BY <2>1 DEF Hears
  <2> QED BY <2>1, <2>2 DEF L!Next, L!Follow, L!ToSet, Known, ToSet
<1>5. CASE Removes
  <2>1. PICK i \in DOMAIN drives : Hears(L!Gone(drives[i])) /\ drives' = RemoveAt(drives, i)
    BY <1>1, <1>5, RemovesInv
  <2>2. /\ Unread # <<>> /\ Head(Unread) = L!Gone(drives[i]) /\ Unread' = Tail(Unread)
        /\ UNCHANGED knownDrives
    BY <2>1 DEF Hears
  <2> QED BY <2>1, <2>2 DEF L!Next, L!Follow, L!RemoveAt, RemoveAt
<1>6. CASE Ignores
  BY <1>1, <1>6, IgnoresInv
<1>7. CASE Forgets
  BY <1>7 DEF Forgets, L!Next, L!Forget
<1> QED BY <1>2, <1>3, <1>4, <1>5, <1>6, <1>7, Outcomes

(* As long as no disk dies, collectors, channel and handlers deliver every  *)
(* change of the set of device files to the converger's list, exactly once  *)
(* and in order: the program implements module DriveList.                   *)
THEOREM DriveListImplemented ==
  ASSUME "fail" \notin Upsets
  PROVE  Spec => ImplementsDriveList
<1>1. Init => L!Init
  <2>1. Init => /\ drives = <<>> /\ knownDrives = {} /\ queue = <<>> /\ outbox = <<>>
                /\ batch = NoEvent
    BY DEF Init, CollectorsInit
  <2> QED BY <2>1, NoneUnread DEF L!Init
<1>2. ListInv /\ unreadable = {} /\ [Next]_vars => [L!Next]_L!driveList
  BY ListStepImplements
<1> QED BY <1>1, <1>2, ListInvariant, AllReadable, PTL DEF Spec, ImplementsDriveList, L!Spec
=============================================================================
