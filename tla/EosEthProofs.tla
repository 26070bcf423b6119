---------------------------- MODULE EosEthProofs ----------------------------
(***************************************************************************)
(* Theorems about binding keys to an EOS account, for any number of        *)
(* clients, keys and calls, and about the codecs of Ethereum and EOS, for  *)
(* payments and names of any content.                                      *)
(***************************************************************************)
EXTENDS EosBind, Codecs, FunctionTheorems, FiniteSetTheorems, SequenceTheorems,
        WellFoundedInduction, TLAPS

(***************************************************************************)
(* Sums.  SumFunction folds over the set of the places, one place at a     *)
(* time, by a function of the sets of places; that the function exists,    *)
(* and what it is, is shown by the least size of a set for which it would  *)
(* not be so.                                                              *)
(***************************************************************************)
Below == {p \in Nat \X Nat : p[1] < p[2]}

\* Every set of numbers that is not empty has a least one.
LEMMA LeastNat ==
  ASSUME NEW T, T \subseteq Nat, T # {}
  PROVE  \E x \in T : \A y \in T : x <= y
<1>1. IsWellFoundedOn(Below, Nat)
  BY NatLessThanWellFounded DEF OpToRel, Below
<1>2. PICK x \in T : \A y \in T : <<y, x>> \notin Below
  BY <1>1, WFMin
<1>3. ASSUME NEW y \in T PROVE x <= y
  <2>1. x \in Nat /\ y \in Nat /\ <<y, x>> \in Nat \X Nat
    OBVIOUS
  <2>2. ~(y < x)
    BY <1>2, <2>1 DEF Below
  <2>. QED  BY <2>1, <2>2
<1>. QED  BY <1>3

Pick(t) == CHOOSE x \in t : TRUE

\* The sum over the places in t, by a function g that has the sums of smaller sets.
Sum1(w, g, t) == IF t = {} THEN 0 ELSE w[Pick(t)] + g[t \ {Pick(t)}]

\* The function that has the sums over the sets of places in D.
IsSums(w, D, g) == g = [t \in SUBSET D |-> Sum1(w, g, t)]
Sums(w, D) == CHOOSE g : IsSums(w, D, g)

\* SumFunction is that function at the set of all places.
LEMMA SumIs ==
  ASSUME NEW w
  PROVE  SumFunction(w) = Sums(w, DOMAIN w)[DOMAIN w]
BY DEF SumFunction, SumFunctionOnSet, FoldFunctionOnSet, MapThenFoldSet,
       Sums, IsSums, Sum1, Pick

\* A set without the place picked is smaller by one.
LEMMA PickOne ==
  ASSUME NEW D, IsFiniteSet(D), NEW t \in SUBSET D, t # {}
  PROVE  /\ Pick(t) \in t /\ t \ {Pick(t)} \in SUBSET D
         /\ Cardinality(t) \in Nat /\ Cardinality(t \ {Pick(t)}) = Cardinality(t) - 1
<1>1. Pick(t) \in t
  BY DEF Pick
<1>2. IsFiniteSet(t)
  BY FS_Subset
<1>. QED  BY <1>1, <1>2, FS_RemoveElement, FS_CardinalityType

\* The function exists.
LEMMA SumsExist ==
  ASSUME NEW w, NEW D, IsFiniteSet(D)
  PROVE  IsSums(w, D, Sums(w, D))
<1>. DEFINE Upto(n) == {t \in SUBSET D : Cardinality(t) <= n}
            Has(n) == \E g : g = [t \in Upto(n) |-> Sum1(w, g, t)]
            T == {n \in Nat : ~Has(n)}
<1>1. ASSUME NEW n \in T, \A m \in T : n <= m PROVE FALSE
  <2>1. CASE n = 0
    <3>. DEFINE g == [t \in Upto(0) |-> 0]
    <3>1. ASSUME NEW t \in Upto(0) PROVE t = {}
      <4>1. t \in SUBSET D /\ Cardinality(t) <= 0
        BY <3>1
      <4>2. IsFiniteSet(t) /\ Cardinality(t) \in Nat
        BY <4>1, FS_Subset, FS_CardinalityType
      <4>. QED  BY <4>1, <4>2, FS_EmptySet
    <3>. HIDE DEF Upto
    <3>2. g = [t \in Upto(0) |-> Sum1(w, g, t)]
      BY <3>1 DEF Sum1
    <3>. QED  BY <2>1, <3>2
  <2>2. CASE n # 0
    <3>1. n \in Nat /\ n - 1 \in Nat /\ n - 1 < n
      BY <2>2
    <3>2. n - 1 \notin T
      <4>. HIDE DEF T
      <4>. QED  BY <1>1, <3>1
    <3>3. Has(n - 1)
      BY <3>1, <3>2
    <3>4. PICK g : g = [t \in Upto(n - 1) |-> Sum1(w, g, t)]
      BY <3>3
    <3>. DEFINE h == [t \in Upto(n) |-> Sum1(w, g, t)]
    <3>5. ASSUME NEW t \in Upto(n), t # {}
          PROVE  t \ {Pick(t)} \in Upto(n - 1) /\ t \ {Pick(t)} \in Upto(n)
      <4>1. t \in SUBSET D /\ Cardinality(t) <= n
        BY <3>5
      <4>2. /\ t \ {Pick(t)} \in SUBSET D /\ Cardinality(t) \in Nat
            /\ Cardinality(t \ {Pick(t)}) = Cardinality(t) - 1
        BY <3>5, <4>1, PickOne
      <4>3. Cardinality(t \ {Pick(t)}) <= n - 1 /\ Cardinality(t \ {Pick(t)}) <= n
        BY <3>1, <4>1, <4>2
      <4>. QED  BY <4>2, <4>3
    <3>. HIDE DEF Upto
    <3>6. ASSUME NEW t \in Upto(n - 1), t \in Upto(n) PROVE h[t] = g[t]
      <4>1. g[t] = Sum1(w, g, t)
        BY <3>4
      <4>. QED  BY <4>1, <3>6
    <3>. HIDE DEF h
    <3>7. ASSUME NEW t \in Upto(n) PROVE Sum1(w, g, t) = Sum1(w, h, t)
      <4>1. CASE t = {}
        BY <4>1 DEF Sum1
      <4>2. CASE t # {}
        <5>1. h[t \ {Pick(t)}] = g[t \ {Pick(t)}]
          BY <3>5, <3>6, <4>2
        <5>. QED  BY <5>1, <4>2 DEF Sum1
      <4>. QED  BY <4>1, <4>2
    <3>8. h = [t \in Upto(n) |-> Sum1(w, h, t)]
      BY <3>7 DEF h
    <3>9. Has(n)
      BY <3>8
    <3>. QED  BY <3>9, <1>1
  <2>. QED  BY <2>1, <2>2
<1>2. T = {}
  <2>1. T \subseteq Nat
    OBVIOUS
  <2>. HIDE DEF T
  <2>. QED  BY <1>1, <2>1, LeastNat
<1>3. Has(Cardinality(D))
  BY <1>2, FS_CardinalityType
<1>4. Upto(Cardinality(D)) = SUBSET D
  BY FS_Subset
<1>5. \E g : IsSums(w, D, g)
  BY <1>3, <1>4 DEF IsSums
<1>. QED  BY <1>5 DEF Sums

\* The sum of a set of places is what any of them has and the sum of the others.
LEMMA SumTake ==
  ASSUME NEW w, NEW D, IsFiniteSet(D), \A i \in D : w[i] \in Nat
  PROVE  \A t \in SUBSET D : /\ Sums(w, D)[t] \in Nat
                             /\ t = {} => Sums(w, D)[t] = 0
                             /\ \A x \in t : Sums(w, D)[t] = w[x] + Sums(w, D)[t \ {x}]
<1>. DEFINE g == Sums(w, D)
<1>1. \A t \in SUBSET D : g[t] = Sum1(w, g, t)
  <2>1. IsSums(w, D, g)
    BY SumsExist
  <2>. HIDE DEF g
  <2>. QED  BY <2>1 DEF IsSums
<1>. HIDE DEF g
<1>2. ASSUME NEW t \in SUBSET D, t = {} PROVE g[t] = 0
  BY <1>1, <1>2 DEF Sum1
<1>. DEFINE Good(t) == g[t] \in Nat /\ \A x \in t : g[t] = w[x] + g[t \ {x}]
            T == {n \in Nat : \E t \in SUBSET D : Cardinality(t) = n /\ ~Good(t)}
<1>3. ASSUME NEW n \in T, \A m \in T : n <= m PROVE FALSE
  <2>1. PICK t \in SUBSET D : Cardinality(t) = n /\ ~Good(t)
    BY <1>3
  <2>2. t # {}
    BY <1>2, <2>1
  <2>3. ASSUME NEW s \in SUBSET t, s # t PROVE Good(s)
    <3>1. IsFiniteSet(t) /\ IsFiniteSet(s) /\ Cardinality(s) < n
      BY <2>1, <2>3, FS_Subset, FS_CardinalityType
    <3>2. Cardinality(s) \in Nat /\ s \in SUBSET D
      BY <3>1, FS_CardinalityType
    <3>3. Cardinality(s) \notin T
      <4>. HIDE DEF T
      <4>1. n \in Nat
        BY DEF T
      <4>. QED  BY <1>3, <3>1, <3>2, <4>1
    <3>. HIDE DEF Good
    <3>. QED  BY <3>2, <3>3
  <2>. DEFINE p == Pick(t)
              u == t \ {p}
  <2>4. p \in t
    BY <2>2 DEF Pick
  <2>5. g[t] = w[p] + g[u]
    BY <1>1, <2>2 DEF Sum1
  <2>. HIDE DEF p
  <2>6. Good(u) /\ w[p] \in Nat
    BY <2>3, <2>4
  <2>7. g[t] \in Nat
    BY <2>5, <2>6
  <2>8. ASSUME NEW x \in t PROVE g[t] = w[x] + g[t \ {x}]
    <3>1. CASE x = p
      BY <2>5, <3>1
    <3>2. CASE x # p
      <4>. DEFINE v == t \ {x}
                  o == u \ {x}
      <4>1. Good(v) /\ Good(o) /\ w[x] \in Nat
        BY <2>3, <2>4
      <4>2. g[u] = w[x] + g[o]
        BY <2>6, <3>2
      <4>3. v \ {p} = o
        OBVIOUS
      <4>4. g[v] = w[p] + g[o]
        BY <2>4, <3>2, <4>1, <4>3
      <4>5. g[o] \in Nat
        BY <4>1
      <4>. QED  BY <2>5, <2>6, <4>1, <4>2, <4>4, <4>5
    <3>. QED  BY <3>1, <3>2
  <2>. QED  BY <2>1, <2>7, <2>8
<1>4. T = {}
  <2>1. T \subseteq Nat
    OBVIOUS
  <2>. HIDE DEF T
  <2>. QED  BY <1>3, <2>1, LeastNat
<1>5. ASSUME NEW t \in SUBSET D PROVE Good(t)
  <2>1. Cardinality(t) \in Nat
    BY FS_Subset, FS_CardinalityType
  <2>. HIDE DEF Good
  <2>. QED  BY <1>4, <2>1
<1>. QED  BY <1>2, <1>5 DEF g

\* The numbers add up to no less than any of them.
LEMMA SumAtLeast ==
  ASSUME NEW w, NEW D, IsFiniteSet(D), \A i \in D : w[i] \in Nat
  PROVE  /\ Sums(w, D)[D] \in Nat
         /\ \A i \in D : Sums(w, D)[D] >= w[i]
<1>. DEFINE g == Sums(w, D)
<1>1. \A t \in SUBSET D : g[t] \in Nat /\ \A x \in t : g[t] = w[x] + g[t \ {x}]
  BY SumTake
<1>. HIDE DEF g
<1>2. ASSUME NEW i \in D PROVE g[D] >= w[i]
  <2>1. g[D \ {i}] \in Nat /\ g[D] = w[i] + g[D \ {i}]
    BY <1>1
  <2>. QED  BY <2>1
<1>. QED  BY <1>1, <1>2 DEF g

\* The sum of the first i numbers.
LEMMA SumFirst ==
  ASSUME NEW w, NEW n \in Nat, \A i \in 1..n : w[i] \in Nat
  PROVE  /\ Sums(w, 1..n)[1..0] = 0
         /\ \A i \in 0..n : Sums(w, 1..n)[1..i] \in Nat
         /\ \A i \in 1..n : Sums(w, 1..n)[1..i] = w[i] + Sums(w, 1..n)[1..(i - 1)]
<1>. DEFINE D == 1..n
            g == Sums(w, D)
<1>1. IsFiniteSet(D) /\ \A i \in D : w[i] \in Nat
  BY FS_Interval
<1>2. \A t \in SUBSET D : /\ g[t] \in Nat /\ (t = {} => g[t] = 0)
                          /\ \A x \in t : g[t] = w[x] + g[t \ {x}]
  <2>. HIDE DEF D
  <2>. QED  BY <1>1, SumTake
<1>. HIDE DEF g
<1>3. g[1..0] = 0
  BY <1>2
<1>4. ASSUME NEW i \in 0..n PROVE g[1..i] \in Nat
  BY <1>2
<1>5. ASSUME NEW i \in 1..n PROVE g[1..i] = w[i] + g[1..(i - 1)]
  <2>. DEFINE t == 1..i
  <2>1. t \ {i} = 1..(i - 1) /\ i \in t /\ t \in SUBSET D
    OBVIOUS
  <2>. HIDE DEF D, t
  <2>2. g[t] = w[i] + g[t \ {i}]
    BY <1>2, <2>1
  <2>. QED  BY <2>1, <2>2 DEF t
<1>. QED  BY <1>3, <1>4, <1>5 DEF g, D

(***************************************************************************)
(* Binding keys: what is open, and what a call has read.                   *)
(***************************************************************************)
Ops == {"EOSImport", "EOSDeImport"}

\* What a call puts in the place of the permission it has read leaves out only the
\* key it takes off, and has no key more but the one it brings.
KeepsOthers(q) ==
  /\ q.read \ KeysOf(q.auth) \subseteq {k \in {q.key} : q.op = "EOSDeImport"}
  /\ KeysOf(q.auth) \ q.read \subseteq {k \in {q.key} : q.op = "EOSImport"}

Call ==
  {q \in [id : Nat, op : Ops, key : Keys, read : SUBSET Keys, auth : Permission,
          pc : {"read", "sent"}] : KeepsOthers(q)}

\* Nothing relates a call to the permission it is about to replace: all that can be
\* said of it, it carries along.
IInv ==
  /\ active \in Permission /\ calls \in Nat
  /\ call \in [Clients -> SUBSET Call] /\ sent \subseteq Call

(***************************************************************************)
(* What the two changes do to a permission.                                *)
(***************************************************************************)
LEMMA PermissionFacts ==
  ASSUME NEW auth \in Permission
  PROVE  /\ auth.keys \in Seq([key : Keys, weight : Nat]) /\ Len(auth.keys) \in Nat
         /\ DOMAIN auth.keys = 1..Len(auth.keys) /\ IsFiniteSet(DOMAIN auth.keys)
         /\ auth.threshold \in Nat
         /\ \A i \in DOMAIN auth.keys : /\ auth.keys[i].key \in Keys /\ auth.keys[i].key \in Nat
                                       /\ auth.keys[i].weight \in Nat
<1>1. auth.keys \in Seq([key : Keys, weight : Nat]) /\ auth.threshold \in Nat
  BY DEF Permission
<1>2. Len(auth.keys) \in Nat /\ DOMAIN auth.keys = 1..Len(auth.keys)
  BY <1>1
<1>3. IsFiniteSet(DOMAIN auth.keys)
  BY <1>2, FS_Interval
<1>4. ASSUME NEW i \in DOMAIN auth.keys
      PROVE  /\ auth.keys[i].key \in Keys /\ auth.keys[i].key \in Nat
             /\ auth.keys[i].weight \in Nat
  <2>. DEFINE K == [key : Keys, weight : Nat]
  <2>1. auth.keys \in Seq(K)
    BY <1>1
  <2>2. auth.keys[i] \in K
    <3>. HIDE DEF K
    <3>. QED  BY <1>2, <2>1
  <2>. QED  BY <2>2, AccountAssumption
<1>. QED  BY <1>1, <1>2, <1>3, <1>4

\* The place of a new key is one of those from the first to just after the last.
LEMMA PositionBound ==
  ASSUME NEW auth \in Permission, NEW key \in Keys
  PROVE  Position(auth, key) \in 1..(Len(auth.keys) + 1)
<1>. DEFINE D == 1..Len(auth.keys)
            f == [i \in D |-> auth.keys[i].key]
            S == {k \in KeysOf(auth) : k < key}
<1>1. auth.keys \in Seq([key : Keys, weight : Nat]) /\ Len(auth.keys) \in Nat
      /\ DOMAIN auth.keys = D
  BY DEF Permission
<1>2. f \in Surjection(D, KeysOf(auth))
  BY <1>1 DEF Surjection, KeysOf
<1>3. IsFiniteSet(D) /\ Cardinality(D) = Len(auth.keys)
  BY <1>1, FS_Interval
<1>4. IsFiniteSet(KeysOf(auth)) /\ Cardinality(KeysOf(auth)) <= Len(auth.keys)
  BY <1>2, <1>3, FS_Surjection
<1>5. IsFiniteSet(S) /\ Cardinality(S) <= Cardinality(KeysOf(auth))
  BY <1>4, FS_Subset
<1>6. Cardinality(S) \in Nat /\ Cardinality(KeysOf(auth)) \in Nat
  BY <1>4, <1>5, FS_CardinalityType
<1>. QED  BY <1>1, <1>4, <1>5, <1>6 DEF Position

\* A key that is put in at a place of a list displaces none, and nothing else is new.
LEMMA InsertKeeps ==
  ASSUME NEW K, NEW s \in Seq(K), NEW e \in K, NEW at \in 1..(Len(s) + 1)
  PROVE  /\ InsertAt(s, at, e) \in Seq(K)
         /\ Range(s) \subseteq Range(InsertAt(s, at, e))
         /\ Range(InsertAt(s, at, e)) \subseteq Range(s) \cup {e}
<1>. DEFINE a == SubSeq(s, 1, at - 1)
            b == SubSeq(s, at, Len(s))
            t == (a \o <<e>>) \o b
<1>0. Len(s) \in Nat /\ at \in Nat /\ 1 <= at /\ at <= Len(s) + 1
  OBVIOUS
<1>1. a \in Seq(K) /\ Len(a) = at - 1 /\ \A i \in 1..(at - 1) : a[i] = s[i]
  OBVIOUS
<1>2. b \in Seq(K) /\ Len(b) = Len(s) + 1 - at /\ \A i \in 1..Len(b) : b[i] = s[i + at - 1]
  OBVIOUS
<1>. HIDE DEF a, b
<1>3. t \in Seq(K) /\ Len(t) = Len(s) + 1 /\ DOMAIN t = 1..(Len(s) + 1)
  BY <1>0, <1>1, <1>2
<1>4. ASSUME NEW i \in 1..Len(s), i < at PROVE i \in DOMAIN t /\ t[i] = s[i]
  BY <1>0, <1>1, <1>2, <1>3, <1>4
<1>5. ASSUME NEW i \in 1..Len(s), i >= at PROVE i + 1 \in DOMAIN t /\ t[i + 1] = s[i]
  <2>1. t[i + 1] = b[i + 1 - at]
    BY <1>0, <1>1, <1>2, <1>5
  <2>2. b[i + 1 - at] = s[i]
    BY <1>0, <1>2, <1>5
  <2>. QED  BY <1>0, <1>3, <2>1, <2>2
<1>8. ASSUME NEW j \in DOMAIN t PROVE t[j] = e \/ \E i \in 1..Len(s) : t[j] = s[i]
  <2>1. CASE j < at
    BY <1>0, <1>1, <1>2, <1>3, <2>1
  <2>2. CASE j = at
    BY <1>0, <1>1, <1>2, <1>3, <2>2
  <2>3. CASE j > at
    <3>1. t[j] = b[j - at] /\ j - at \in 1..Len(b)
      BY <1>0, <1>1, <1>2, <1>3, <2>3
    <3>2. b[j - at] = s[j - 1] /\ j - 1 \in 1..Len(s)
      BY <1>0, <1>2, <1>3, <2>3, <3>1
    <3>. QED  BY <3>1, <3>2
  <2>. QED  BY <1>0, <1>3, <2>1, <2>2, <2>3
<1>. HIDE DEF t
<1>6. ASSUME NEW i \in 1..Len(s) PROVE \E j \in DOMAIN t : t[j] = s[i]
  BY <1>0, <1>4, <1>5
<1>7. Range(s) \subseteq Range(t) /\ Range(t) \subseteq Range(s) \cup {e}
  BY <1>6, <1>8 DEF Range
<1>. QED  BY <1>3, <1>7 DEF InsertAt, a, b, t

\* A key that is taken out leaves the others, and nothing is new.
LEMMA RemoveKeeps ==
  ASSUME NEW K, NEW s \in Seq(K), NEW at \in 1..Len(s)
  PROVE  /\ RemoveAt(s, at) \in Seq(K)
         /\ Range(s) \subseteq Range(RemoveAt(s, at)) \cup {s[at]}
         /\ Range(RemoveAt(s, at)) \subseteq Range(s)
<1>. DEFINE a == SubSeq(s, 1, at - 1)
            b == SubSeq(s, at + 1, Len(s))
            t == a \o b
<1>0. Len(s) \in Nat /\ at \in Nat /\ 1 <= at /\ at <= Len(s)
  OBVIOUS
<1>1. a \in Seq(K) /\ Len(a) = at - 1 /\ \A i \in 1..(at - 1) : a[i] = s[i]
  OBVIOUS
<1>2. b \in Seq(K) /\ Len(b) = Len(s) - at /\ \A i \in 1..Len(b) : b[i] = s[i + at]
  OBVIOUS
<1>. HIDE DEF a, b
<1>3. t \in Seq(K) /\ Len(t) = Len(s) - 1 /\ DOMAIN t = 1..(Len(s) - 1)
  <2>1. t \in Seq(K)
    BY <1>1, <1>2
  <2>2. Len(t) = Len(a) + Len(b)
    BY <1>1, <1>2, ConcatProperties
  <2>. QED  BY <1>0, <1>1, <1>2, <2>1, <2>2
<1>4. ASSUME NEW i \in 1..Len(s), i < at PROVE i \in DOMAIN t /\ t[i] = s[i]
  BY <1>0, <1>1, <1>2, <1>3, <1>4
<1>5. ASSUME NEW i \in 1..Len(s), i > at PROVE i - 1 \in DOMAIN t /\ t[i - 1] = s[i]
  <2>1. t[i - 1] = b[i - at]
    BY <1>0, <1>1, <1>2, <1>5
  <2>2. b[i - at] = s[i]
    BY <1>0, <1>2, <1>5
  <2>. QED  BY <1>0, <1>3, <1>5, <2>1, <2>2
<1>8. ASSUME NEW j \in DOMAIN t PROVE \E i \in 1..Len(s) : t[j] = s[i]
  <2>1. CASE j < at
    BY <1>0, <1>1, <1>2, <1>3, <2>1
  <2>2. CASE j >= at
    <3>1. t[j] = b[j + 1 - at] /\ j + 1 - at \in 1..Len(b)
      BY <1>0, <1>1, <1>2, <1>3, <2>2
    <3>2. b[j + 1 - at] = s[j + 1] /\ j + 1 \in 1..Len(s)
      BY <1>0, <1>2, <1>3, <2>2, <3>1
    <3>. QED  BY <3>1, <3>2
  <2>. QED  BY <1>0, <1>3, <2>1, <2>2
<1>. HIDE DEF t
<1>6. ASSUME NEW i \in 1..Len(s), i # at PROVE \E j \in DOMAIN t : t[j] = s[i]
  BY <1>0, <1>4, <1>5, <1>6
<1>7. Range(s) \subseteq Range(t) \cup {s[at]} /\ Range(t) \subseteq Range(s)
  BY <1>6, <1>8 DEF Range
<1>. QED  BY <1>3, <1>7 DEF RemoveAt, a, b, t

\* An import keeps all keys, and brings no other but its own.
LEMMA ImportedKeeps ==
  ASSUME NEW auth \in Permission, NEW key \in Keys
  PROVE  /\ Imported(auth, key) \in Permission
         /\ KeysOf(auth) \subseteq KeysOf(Imported(auth, key))
         /\ KeysOf(Imported(auth, key)) \subseteq KeysOf(auth) \cup {key}
<1>. DEFINE K == [key : Keys, weight : Nat]
            e == Weighed(key, auth.threshold)
            t == InsertAt(auth.keys, Position(auth, key), e)
<1>1. auth.keys \in Seq(K) /\ e \in K /\ e.key = key /\ DOMAIN auth.keys = 1..Len(auth.keys)
  BY DEF Permission, Weighed
<1>2. t \in Seq(K) /\ Range(auth.keys) \subseteq Range(t) /\ Range(t) \subseteq Range(auth.keys) \cup {e}
  <2>1. Position(auth, key) \in 1..(Len(auth.keys) + 1)
    BY PositionBound
  <2>. HIDE DEF K, e
  <2>. QED  BY <1>1, <2>1, InsertKeeps
<1>. HIDE DEF e, t
<1>3. Imported(auth, key) = [auth EXCEPT !.keys = t]
  BY DEF Imported, t, e
<1>4. Imported(auth, key) \in Permission /\ Imported(auth, key).keys = t
  BY <1>2, <1>3 DEF Permission
<1>5. KeysOf(auth) = {x.key : x \in Range(auth.keys)}
      /\ KeysOf(Imported(auth, key)) = {x.key : x \in Range(t)}
  BY <1>4 DEF KeysOf, Range
<1>. QED  BY <1>1, <1>2, <1>4, <1>5

\* A de-import keeps all keys but its own, and brings none.
LEMMA DeImportedKeeps ==
  ASSUME NEW auth \in Permission, NEW key \in Keys
  PROVE  /\ DeImported(auth, key) \in Permission
         /\ KeysOf(auth) \ KeysOf(DeImported(auth, key)) \subseteq {key}
         /\ KeysOf(DeImported(auth, key)) \subseteq KeysOf(auth)
<1>1. CASE key \notin KeysOf(auth)
  BY <1>1 DEF DeImported
<1>2. CASE key \in KeysOf(auth)
  <2>. DEFINE K == [key : Keys, weight : Nat]
              at == CHOOSE i \in DOMAIN auth.keys : auth.keys[i].key = key
              t == RemoveAt(auth.keys, at)
  <2>1. auth.keys \in Seq(K) /\ DOMAIN auth.keys = 1..Len(auth.keys)
    BY DEF Permission
  <2>2. at \in 1..Len(auth.keys) /\ auth.keys[at].key = key
    BY <1>2, <2>1 DEF KeysOf
  <2>3. DeImported(auth, key) = [auth EXCEPT !.keys = t]
    BY <1>2 DEF DeImported
  <2>. HIDE DEF K, at, t
  <2>4. /\ t \in Seq(K) /\ Range(auth.keys) \subseteq Range(t) \cup {auth.keys[at]}
        /\ Range(t) \subseteq Range(auth.keys)
    BY <2>1, <2>2, RemoveKeeps DEF t
  <2>5. DeImported(auth, key) \in Permission /\ DeImported(auth, key).keys = t
    BY <2>3, <2>4 DEF Permission, K
  <2>6. ASSUME NEW k \in KeysOf(auth), k # key PROVE k \in KeysOf(DeImported(auth, key))
    <3>1. PICK x \in Range(auth.keys) : x.key = k
      BY DEF KeysOf, Range
    <3>2. x \in Range(t)
      BY <2>2, <2>4, <2>6, <3>1
    <3>. QED  BY <2>5, <3>1, <3>2 DEF KeysOf, Range
  <2>7. KeysOf(DeImported(auth, key)) \subseteq KeysOf(auth)
    BY <2>4, <2>5 DEF KeysOf, Range
  <2>. QED  BY <2>5, <2>6, <2>7
<1>. QED  BY <1>1, <1>2

(***************************************************************************)
(* The invariant.                                                          *)
(***************************************************************************)
LEMMA InitInv == Init => IInv
BY AccountAssumption DEF Init, IInv

\* IInv is kept by Begin.
LEMMA BeginInv ==
  ASSUME IInv, NEW c \in Clients, NEW op \in Ops, NEW key \in Keys, Begin(c, op, key)
  PROVE  IInv'
<1>. DEFINE auth == IF op = "EOSImport" THEN Imported(active, key) ELSE DeImported(active, key)
            q == [id |-> calls + 1, op |-> op, key |-> key, read |-> KeysOf(active),
                  auth |-> auth, pc |-> "read"]
<1>1. /\ auth \in Permission /\ KeysOf(active) \subseteq Keys
      /\ KeysOf(active) \ KeysOf(auth) \subseteq {k \in {key} : op = "EOSDeImport"}
      /\ KeysOf(auth) \ KeysOf(active) \subseteq {k \in {key} : op = "EOSImport"}
  <2>1. active \in Permission
    BY DEF IInv
  <2>2. KeysOf(active) \subseteq Keys
    BY <2>1, PermissionFacts DEF KeysOf
  <2>. QED  BY <2>1, <2>2, ImportedKeeps, DeImportedKeeps DEF Ops
<1>2. UNCHANGED <<active, sent>> /\ calls' \in Nat
  BY DEF Begin, IInv
<1>3. \/ call' = [call EXCEPT ![c] = {}]
      \/ call' = [call EXCEPT ![c] = {q}]
  BY DEF Begin, Return
<1>. HIDE DEF auth
<1>4. q \in Call
  BY <1>1 DEF Call, IInv, KeepsOthers
<1>. HIDE DEF q
<1>. QED  BY <1>2, <1>3, <1>4 DEF IInv

\* The same of Send.
LEMMA SendInv == ASSUME IInv, NEW c \in Clients, Send(c) PROVE IInv'
<1>1. PICK q \in call[c] : /\ call' = [call EXCEPT ![c] = {[q EXCEPT !.pc = "sent"]}]
                           /\ sent' = sent \cup {q}
                           /\ UNCHANGED <<active, calls>>
  BY DEF Send
<1>. DEFINE r == [q EXCEPT !.pc = "sent"]
<1>2. q \in Call
  BY <1>1 DEF IInv
<1>3. r \in Call
  BY <1>2 DEF Call, KeepsOthers
<1>. HIDE DEF r
<1>4. call' = [call EXCEPT ![c] = {r}]
  BY <1>1 DEF r
<1>. QED  BY <1>1, <1>2, <1>3, <1>4 DEF IInv

\* The same of all steps.
LEMMA NextInv == ASSUME IInv, [Next]_vars PROVE IInv'
<1>1. ASSUME NEW c \in Clients, NEW op \in Ops, NEW key \in Keys, Begin(c, op, key) PROVE IInv'
  BY <1>1, BeginInv
<1>2. ASSUME NEW c \in Clients, Fail(c) \/ Succeed(c) PROVE IInv'
  BY <1>2 DEF Fail, Succeed, Return, IInv
<1>3. ASSUME NEW c \in Clients, Send(c) PROVE IInv'
  BY <1>3, SendInv
<1>4. ASSUME NEW q \in sent, Execute(q) PROVE IInv'
  BY <1>4 DEF Execute, IInv, Call
<1>5. ASSUME NEW q \in sent, Drop(q) PROVE IInv'
  BY <1>5 DEF Drop, IInv
<1>6. CASE UNCHANGED vars
  BY <1>6 DEF vars, IInv
<1>. QED  BY <1>1, <1>2, <1>3, <1>4, <1>5, <1>6 DEF Next, Ops

\* The permission is replaced by the network only, by what one call makes of what it
\* has read.
LEMMA ChangingStep ==
  ASSUME IInv, [Next]_vars, active' # active
  PROVE  \E q \in sent \ sent' : KeysOf(active)' = KeysOf(q.auth) /\ KeepsOthers(q)
<1>1. PICK q \in sent : Execute(q)
  BY DEF Next, vars, Begin, Fail, Send, Succeed, Drop
<1>2. q \in sent \ sent' /\ KeysOf(active)' = KeysOf(q.auth)
  BY <1>1 DEF Execute, KeysOf
<1>3. KeepsOthers(q)
  BY DEF IInv, Call
<1>. QED  BY <1>2, <1>3

\* However many clients overlap, a key is lost only to its own de-import or to a call
\* that began before it was there, and appears only by its own import or by a call
\* that began while it was still there.
THEOREM KeysChangeOnlyAsReadHolds == Spec => KeysChangeOnlyAsRead
<1>. DEFINE Lost == \A k \in KeysOf(active) \ KeysOf(active)' :
              \E q \in sent \ sent' : (q.op = "EOSDeImport" /\ q.key = k) \/ k \notin q.read
            Gained == \A k \in KeysOf(active)' \ KeysOf(active) :
              \E q \in sent \ sent' : (q.op = "EOSImport" /\ q.key = k) \/ k \in q.read
<1>1. ASSUME IInv, [Next]_vars PROVE Lost /\ Gained
  <2>1. CASE active' = active
    BY <2>1 DEF KeysOf
  <2>2. CASE active' # active
    <3>1. PICK q \in sent \ sent' : KeysOf(active)' = KeysOf(q.auth) /\ KeepsOthers(q)
      BY <1>1, <2>2, ChangingStep
    <3>. QED  BY <3>1 DEF KeepsOthers
  <2>. QED  BY <2>1, <2>2
<1>2. IInv /\ [Next]_vars => [Lost /\ Gained]_vars
  BY <1>1
<1>. QED  BY <1>2, InitInv, NextInv, PTL DEF Spec, KeysChangeOnlyAsRead

(***************************************************************************)
(* Where an import puts the key.                                           *)
(***************************************************************************)
\* A set of places that has all the places before any of its own is those up to its
\* size.
LEMMA FirstPlaces ==
  ASSUME NEW n \in Nat, NEW A \in SUBSET (1..n), \A i \in A, j \in 1..n : j < i => j \in A
  PROVE  Cardinality(A) \in 0..n /\ A = 1..Cardinality(A)
<1>. DEFINE B == (1..(n + 1)) \ A
<1>1. B \subseteq Nat /\ n + 1 \in B
  OBVIOUS
<1>2. PICK b \in B : \A j \in B : b <= j
  <2>. HIDE DEF B
  <2>. QED  BY <1>1, LeastNat
<1>3. b \in 1..(n + 1)
  OBVIOUS
<1>4. ASSUME NEW i \in A PROVE i \in 1..(b - 1)
  <2>1. CASE b = n + 1
    BY <2>1
  <2>2. CASE b # n + 1
    <3>1. b \in 1..n /\ b \notin A /\ i \in 1..n
      BY <1>3, <2>2
    <3>. QED  BY <3>1
  <2>. QED  BY <2>1, <2>2
<1>5. ASSUME NEW i \in 1..(b - 1) PROVE i \in A
  <2>1. i \in 1..(n + 1) /\ ~(b <= i)
    BY <1>3
  <2>2. i \notin B
    BY <1>2, <2>1
  <2>. QED  BY <2>1, <2>2
<1>6. A = 1..(b - 1)
  BY <1>4, <1>5
<1>7. Cardinality(1..(b - 1)) = b - 1
  BY <1>3, FS_Interval
<1>. QED  BY <1>3, <1>6, <1>7

Ordered(auth) ==
  \A i, j \in DOMAIN auth.keys : i < j => auth.keys[i].key < auth.keys[j].key

\* The smaller keys of an ordered permission are those before the new one's place.
LEMMA SmallerFirst ==
  ASSUME NEW auth \in Permission, NEW key \in Keys, Ordered(auth)
  PROVE  \A i \in DOMAIN auth.keys : auth.keys[i].key < key <=> i < Position(auth, key)
<1>. DEFINE n == Len(auth.keys)
            A == {i \in 1..n : auth.keys[i].key < key}
            S == {k \in KeysOf(auth) : k < key}
            f == [i \in A |-> auth.keys[i].key]
<1>1. /\ n \in Nat /\ DOMAIN auth.keys = 1..n /\ key \in Nat
      /\ \A i \in 1..n : auth.keys[i].key \in Nat
  BY PermissionFacts, AccountAssumption
<1>. HIDE DEF n
<1>2. A \in SUBSET (1..n)
  OBVIOUS
<1>3. ASSUME NEW i \in A, NEW j \in 1..n, j < i PROVE j \in A
  <2>1. auth.keys[j].key < auth.keys[i].key /\ auth.keys[i].key < key
    BY <1>1, <1>3 DEF Ordered
  <2>. QED  BY <1>1, <2>1
<1>4. Cardinality(A) \in 0..n /\ A = 1..Cardinality(A)
  <2>. HIDE DEF A
  <2>. QED  BY <1>1, <1>2, <1>3, FirstPlaces
<1>5. f \in Bijection(A, S)
  <2>1. ASSUME NEW i \in A, NEW j \in A, f[i] = f[j] PROVE i = j
    <3>1. i \in 1..n /\ j \in 1..n /\ auth.keys[i].key = auth.keys[j].key
      BY <2>1
    <3>2. ~(i < j) /\ ~(j < i)
      BY <1>1, <3>1 DEF Ordered
    <3>. QED  BY <1>1, <3>1, <3>2
  <2>2. f \in [A -> S]
    BY <1>1 DEF KeysOf
  <2>3. ASSUME NEW k \in S PROVE \E i \in A : f[i] = k
    BY <1>1 DEF KeysOf
  <2>. HIDE DEF f, A, S
  <2>. QED  BY <2>1, <2>2, <2>3, Fun_IsBij
<1>6. Cardinality(A) = Cardinality(S)
  <2>1. IsFiniteSet(A)
    <3>1. IsFiniteSet(1..n)
      BY <1>1, FS_Interval
    <3>. HIDE DEF A
    <3>. QED  BY <1>2, <3>1, FS_Subset
  <2>. HIDE DEF A, S, f
  <2>. QED  BY <1>5, <2>1, FS_Bijection DEF ExistsBijection
<1>7. Position(auth, key) = Cardinality(A) + 1
  BY <1>6 DEF Position
<1>8. ASSUME NEW i \in 1..n PROVE i \in A <=> i < Position(auth, key)
  <2>. HIDE DEF A
  <2>. QED  BY <1>1, <1>4, <1>7
<1>. QED  BY <1>1, <1>8

\* What is where after a key has been put in.
LEMMA InsertIs ==
  ASSUME NEW K, NEW s \in Seq(K), NEW e \in K, NEW at \in 1..(Len(s) + 1)
  PROVE  /\ DOMAIN InsertAt(s, at, e) = 1..(Len(s) + 1)
         /\ \A i \in 1..(Len(s) + 1) :
              InsertAt(s, at, e)[i] = IF i < at THEN s[i] ELSE IF i = at THEN e ELSE s[i - 1]
<1>. DEFINE a == SubSeq(s, 1, at - 1)
            b == SubSeq(s, at, Len(s))
            t == (a \o <<e>>) \o b
<1>0. Len(s) \in Nat /\ at \in Nat /\ 1 <= at /\ at <= Len(s) + 1
  OBVIOUS
<1>1. a \in Seq(K) /\ Len(a) = at - 1 /\ \A i \in 1..(at - 1) : a[i] = s[i]
  OBVIOUS
<1>2. b \in Seq(K) /\ Len(b) = Len(s) + 1 - at /\ \A i \in 1..Len(b) : b[i] = s[i + at - 1]
  OBVIOUS
<1>. HIDE DEF a, b
<1>3. t \in Seq(K) /\ Len(t) = Len(s) + 1 /\ DOMAIN t = 1..(Len(s) + 1)
  BY <1>0, <1>1, <1>2
<1>4. ASSUME NEW i \in 1..(Len(s) + 1), i < at PROVE t[i] = s[i]
  BY <1>0, <1>1, <1>2, <1>3, <1>4
<1>5. t[at] = e
  BY <1>0, <1>1, <1>2, <1>3
<1>6. ASSUME NEW i \in 1..(Len(s) + 1), i > at PROVE t[i] = s[i - 1]
  <2>1. t[i] = b[i - at]
    BY <1>0, <1>1, <1>2, <1>6
  <2>2. b[i - at] = s[i - 1]
    BY <1>0, <1>2, <1>6
  <2>. QED  BY <2>1, <2>2
<1>7. InsertAt(s, at, e) = t
  BY DEF InsertAt, a, b
<1>. HIDE DEF t
<1>. QED  BY <1>0, <1>3, <1>4, <1>5, <1>6, <1>7

\* The network takes a permission, and its key signs for the account by itself.
Accepted(auth, key) ==
  /\ Valid(auth) /\ key \in KeysOf(auth)
  /\ \A i \in DOMAIN auth.keys :
       auth.keys[i].key = key => auth.keys[i].weight >= auth.threshold

\* A permission whose keys are in order, and one of which has the weight of the
\* threshold, is valid.
LEMMA OneKeySigns ==
  ASSUME NEW auth \in Permission, Ordered(auth),
         \E i \in DOMAIN auth.keys : auth.keys[i].weight >= auth.threshold
  PROVE  Valid(auth)
<1>. DEFINE s == auth.keys
            D == DOMAIN s
            w == [i \in D |-> s[i].weight]
            total == SumFunction(w)
<1>1. /\ IsFiniteSet(D) /\ auth.threshold \in Nat
      /\ DOMAIN w = D /\ \A i \in D : w[i] \in Nat
  BY PermissionFacts
<1>2. PICK i \in D : w[i] >= auth.threshold
  OBVIOUS
<1>. HIDE DEF w, D
<1>3. total = Sums(w, D)[D]
  BY <1>1, SumIs
<1>. HIDE DEF total
<1>4. total \in Nat /\ total >= w[i] /\ w[i] \in Nat
  BY <1>1, <1>2, <1>3, SumAtLeast
<1>5. total >= auth.threshold
  BY <1>1, <1>2, <1>4
<1>. QED  BY <1>5 DEF Valid, Ordered, total, w, D, s

\* A valid permission, with a key imported that it lacked, is one the network accepts.
LEMMA ImportedAccepted ==
  ASSUME NEW auth \in Permission, Valid(auth), NEW key \in Keys, key \notin KeysOf(auth)
  PROVE  Accepted(Imported(auth, key), key)
<1>. DEFINE K == [key : Keys, weight : Nat]
            s == auth.keys
            n == Len(s)
            at == Position(auth, key)
            e == Weighed(key, auth.threshold)
            t == InsertAt(s, at, e)
            new == Imported(auth, key)
<1>1. /\ s \in Seq(K) /\ n \in Nat /\ DOMAIN s = 1..n /\ e \in K
      /\ e.key = key /\ e.weight = auth.threshold /\ auth.threshold \in Nat /\ key \in Nat
      /\ \A i \in 1..n : s[i].key \in Nat /\ s[i].key # key
  BY PermissionFacts, AccountAssumption DEF Weighed, KeysOf
<1>2. at \in 1..(n + 1)
  BY PositionBound
<1>3. \A i \in 1..n : s[i].key < key <=> i < at
  BY <1>1, SmallerFirst DEF Valid, Ordered
<1>4. \A i, j \in 1..n : i < j => s[i].key < s[j].key
  BY <1>1 DEF Valid
<1>5. new \in Permission /\ new.keys = t /\ new.threshold = auth.threshold
  <2>1. new = [auth EXCEPT !.keys = t]
    BY DEF Imported
  <2>2. new \in Permission
    BY ImportedKeeps
  <2>. HIDE DEF new, t
  <2>. QED  BY <2>1, <2>2 DEF Permission
<1>6. /\ DOMAIN t = 1..(n + 1)
      /\ \A i \in 1..(n + 1) : t[i] = IF i < at THEN s[i] ELSE IF i = at THEN e ELSE s[i - 1]
  <2>. HIDE DEF K, s, at, e
  <2>. QED  BY <1>1, <1>2, InsertIs
<1>. HIDE DEF K, s, n, at, e, t, new
<1>7. ASSUME NEW i \in 1..(n + 1), NEW j \in 1..(n + 1), i < j
      PROVE  t[i].key < t[j].key
  <2>1. CASE j < at
    BY <1>1, <1>2, <1>4, <1>6, <1>7, <2>1
  <2>2. CASE j = at
    <3>1. i \in 1..n /\ t[i] = s[i] /\ t[j] = e
      BY <1>1, <1>2, <1>6, <1>7, <2>2
    <3>. QED  BY <1>1, <1>3, <1>7, <2>2, <3>1
  <2>3. CASE j > at /\ i < at
    <3>1. i \in 1..n /\ j - 1 \in 1..n /\ i < j - 1 /\ t[i] = s[i] /\ t[j] = s[j - 1]
      BY <1>1, <1>2, <1>6, <1>7, <2>3
    <3>. QED  BY <1>4, <3>1
  <2>4. CASE j > at /\ i = at
    <3>1. j - 1 \in 1..n /\ ~(j - 1 < at) /\ t[i] = e /\ t[j] = s[j - 1]
      BY <1>1, <1>2, <1>6, <1>7, <2>4
    <3>. QED  BY <1>1, <1>3, <3>1
  <2>5. CASE j > at /\ i > at
    <3>1. i - 1 \in 1..n /\ j - 1 \in 1..n /\ i - 1 < j - 1
          /\ t[i] = s[i - 1] /\ t[j] = s[j - 1]
      BY <1>1, <1>2, <1>6, <1>7, <2>5
    <3>. QED  BY <1>4, <3>1
  <2>. QED  BY <1>2, <2>1, <2>2, <2>3, <2>4, <2>5
<1>8. Ordered(new)
  BY <1>5, <1>6, <1>7 DEF Ordered
<1>9. at \in DOMAIN new.keys /\ new.keys[at] = e
  BY <1>1, <1>2, <1>5, <1>6
<1>10. Valid(new)
  BY <1>1, <1>5, <1>8, <1>9, OneKeySigns
<1>11. key \in KeysOf(new)
  BY <1>1, <1>9 DEF KeysOf
<1>12. ASSUME NEW i \in DOMAIN new.keys, new.keys[i].key = key
       PROVE  new.keys[i].weight >= new.threshold
  <2>1. i = at
    <3>1. i \in 1..(n + 1) /\ t[i].key = key
      BY <1>5, <1>6, <1>12
    <3>2. CASE i < at
      BY <1>1, <1>2, <1>6, <3>1, <3>2
    <3>3. CASE i > at
      <4>1. i - 1 \in 1..n /\ t[i] = s[i - 1]
        BY <1>1, <1>2, <1>6, <3>1, <3>3
      <4>. QED  BY <1>1, <3>1, <4>1
    <3>. QED  BY <1>2, <3>1, <3>2, <3>3
  <2>. QED  BY <1>1, <1>5, <1>9, <2>1
<1>. QED  BY <1>10, <1>11, <1>12 DEF Accepted, new

(***************************************************************************)
(* The invariant of the account.                                           *)
(***************************************************************************)
\* The calls that are going on, and those on their way to the network.
Open == sent \cup UNION {call[c] : c \in Clients}

\* A client is in one call at most, every call has its own number, and is executed at
\* most once.
IdInv ==
  /\ calls \in 0..MaxCalls /\ answer \in [Clients -> {0, -1}]
  /\ applied \subseteq 1..calls
  /\ \A c \in Clients : call[c] = {} \/ \E q \in call[c] : call[c] = {q}
  /\ \A q \in Open : q.id \in 1..calls
  /\ \A q \in sent : q.id \notin applied
  /\ \A p, q \in sent : p.id = q.id => p = q
  /\ \A c \in Clients : \A q \in call[c] : q.pc = "read" =>
       q.id \notin applied /\ \A p \in sent : p.id # q.id
  /\ \A c, d \in Clients : \A q \in call[c], p \in call[d] : p.id = q.id => c = d

\* The account has a valid permission, and so has every import that is to replace it.
ImportInv == Valid(active) /\ \A q \in Open : q.op = "EOSImport" => Accepted(q.auth, q.key)

BindInv == IInv /\ IdInv /\ ImportInv

\* BindInv holds at first.
LEMMA BindInit == ASSUME Init PROVE BindInv
<1>1. IInv
  BY InitInv
<1>2. Open = {} /\ Valid(active)
  BY AccountAssumption DEF Init, Open
<1>3. applied = {} /\ calls = 0 /\ sent = {}
      /\ call = [c \in Clients |-> {}] /\ answer = [c \in Clients |-> 0]
  BY DEF Init
<1>4. IdInv
  BY <1>2, <1>3, AccountAssumption DEF IdInv
<1>. QED  BY <1>1, <1>2, <1>4 DEF BindInv, ImportInv

\* What is open has a type, and a client's call is open.
LEMMA OpenFacts ==
  ASSUME IInv
  PROVE  /\ \A q \in Open : q \in Call /\ q.id \in Nat
         /\ \A c \in Clients : \A q \in call[c] : q \in Open
         /\ \A q \in sent : q \in Open
<1>1. \A c \in Clients : call[c] \subseteq Call
  BY DEF IInv
<1>2. \A q \in Open : q \in Call
  BY <1>1 DEF Open, IInv
<1>3. \A q \in Call : q.id \in Nat
  BY DEF Call
<1>. QED  BY <1>2, <1>3 DEF Open

\* BindInv is kept by Begin.
LEMMA BindBegin ==
  ASSUME BindInv, IInv', NEW c \in Clients, NEW op \in Ops, NEW key \in Keys, Begin(c, op, key)
  PROVE  BindInv'
<1>. DEFINE auth == IF op = "EOSImport" THEN Imported(active, key) ELSE DeImported(active, key)
            q == [id |-> calls + 1, op |-> op, key |-> key, read |-> KeysOf(active),
                  auth |-> auth, pc |-> "read"]
<1>0. IInv /\ IdInv /\ ImportInv
  BY DEF BindInv
<1>1. UNCHANGED <<active, sent, applied>> /\ calls' = calls + 1 /\ calls < MaxCalls
  BY DEF Begin
<1>2. call \in [Clients -> SUBSET Call] /\ answer \in [Clients -> {0, -1}] /\ calls \in Nat
  BY <1>0 DEF IInv, IdInv
<1>3. calls' \in 0..MaxCalls
  BY <1>1, <1>2, AccountAssumption
<1>4. CASE op = "EOSImport" /\ key \in KeysOf(active)
  <2>1. PICK code \in {0, -1} :
           call' = [call EXCEPT ![c] = {}] /\ answer' = [answer EXCEPT ![c] = code]
    BY <1>4 DEF Begin, Return
  <2>2. Open' \subseteq Open
    BY <1>1, <1>2, <2>1 DEF Open
  <2>3. \A d \in Clients : call'[d] = IF d = c THEN {} ELSE call[d]
    BY <1>2, <2>1
  <2>4. answer' \in [Clients -> {0, -1}]
    BY <1>2, <2>1
  <2>5. \A p \in Open' : p.id \in 1..calls'
    BY <1>0, <1>1, <1>2, <2>2 DEF IdInv
  <2>6. applied' \subseteq 1..calls'
    BY <1>0, <1>1, <1>2 DEF IdInv
  <2>7. IdInv'
    BY <1>0, <1>1, <1>3, <2>3, <2>4, <2>5, <2>6 DEF IdInv
  <2>. QED  BY <1>0, <1>1, <2>2, <2>7 DEF BindInv, ImportInv
<1>5. CASE ~(op = "EOSImport" /\ key \in KeysOf(active))
  <2>1. call' = [call EXCEPT ![c] = {q}] /\ answer' = answer
    BY <1>5 DEF Begin
  <2>2. q.id = calls + 1 /\ q.op = op /\ q.key = key /\ q.auth = auth
    OBVIOUS
  <2>3. op = "EOSImport" => Accepted(auth, key)
    BY <1>0, <1>5, ImportedAccepted DEF IInv, ImportInv
  <2>. HIDE DEF auth, q
  <2>4. Open' \subseteq Open \cup {q}
    BY <1>1, <1>2, <2>1 DEF Open
  <2>5. \A d \in Clients : call'[d] = IF d = c THEN {q} ELSE call[d]
    BY <1>2, <2>1
  <2>6. \A p \in Open : p.id \in 1..calls /\ p.id # q.id
    BY <1>0, <1>2, <2>2 DEF IdInv
  <2>7. q.id \in 1..calls' /\ q.id \notin applied /\ \A p \in Open' : p.id \in 1..calls'
    BY <1>0, <1>1, <1>2, <2>2, <2>4, <2>6 DEF IdInv
  <2>8. applied' \subseteq 1..calls'
    BY <1>0, <1>1, <1>2 DEF IdInv
  <2>9. /\ \A d \in Clients : \A p \in call[d] : p \in Open
        /\ \A p \in sent : p \in Open
    BY <1>0, OpenFacts
  <2>10. \A d \in Clients : call'[d] = {} \/ \E p \in call'[d] : call'[d] = {p}
    BY <1>0, <2>5 DEF IdInv
  <2>11. \A d \in Clients : \A r \in call'[d] : r.pc = "read" =>
           r.id \notin applied' /\ \A p \in sent' : p.id # r.id
    BY <1>0, <1>1, <2>5, <2>6, <2>7, <2>9 DEF IdInv
  <2>12. \A d, e \in Clients : \A r \in call'[d], p \in call'[e] : p.id = r.id => d = e
    BY <1>0, <2>5, <2>6, <2>9 DEF IdInv
  <2>13. IdInv'
    BY <1>0, <1>1, <1>2, <1>3, <2>1, <2>7, <2>8, <2>10, <2>11, <2>12 DEF IdInv
  <2>14. \A p \in Open' : p.op = "EOSImport" => Accepted(p.auth, p.key)
    BY <1>0, <2>2, <2>3, <2>4 DEF ImportInv
  <2>. QED  BY <1>0, <1>1, <2>13, <2>14 DEF BindInv, ImportInv
<1>. QED  BY <1>4, <1>5

\* The same of Send.
LEMMA BindSend == ASSUME BindInv, IInv', NEW c \in Clients, Send(c) PROVE BindInv'
<1>0. IInv /\ IdInv /\ ImportInv
  BY DEF BindInv
<1>1. PICK q \in call[c] : /\ q.pc = "read"
                           /\ call' = [call EXCEPT ![c] = {[q EXCEPT !.pc = "sent"]}]
                           /\ sent' = sent \cup {q}
                           /\ UNCHANGED <<active, applied, calls, answer>>
  BY DEF Send
<1>. DEFINE r == [q EXCEPT !.pc = "sent"]
<1>2. q \in Open /\ q \in Call
  BY <1>0, OpenFacts
<1>3. /\ r.id = q.id /\ r.op = q.op /\ r.key = q.key /\ r.auth = q.auth
      /\ r.pc = "sent"
  BY <1>2 DEF Call
<1>. HIDE DEF r
<1>4. \A d \in Clients : call'[d] = IF d = c THEN {r} ELSE call[d]
  BY <1>0, <1>1 DEF IInv, r
<1>5. Open' \subseteq Open \cup {r}
  BY <1>1, <1>2, <1>4 DEF Open
<1>6. q.id \notin applied /\ \A p \in sent : p.id # q.id
  BY <1>0, <1>1 DEF IdInv
<1>7. \A d \in Clients : call'[d] = {} \/ \E p \in call'[d] : call'[d] = {p}
  BY <1>0, <1>4 DEF IdInv
<1>8. \A p \in Open' : p.id \in 1..calls'
  BY <1>0, <1>1, <1>2, <1>3, <1>5 DEF IdInv
<1>9. \A p \in sent' : p.id \notin applied'
  BY <1>0, <1>1, <1>6 DEF IdInv
<1>10. \A p, o \in sent' : p.id = o.id => p = o
  BY <1>0, <1>1, <1>6 DEF IdInv
<1>11. \A d, e \in Clients : \A o \in call'[d], p \in call'[e] : p.id = o.id => d = e
  BY <1>0, <1>1, <1>3, <1>4 DEF IdInv
<1>12. ASSUME NEW d \in Clients, NEW o \in call'[d], o.pc = "read"
       PROVE  o.id \notin applied' /\ \A p \in sent' : p.id # o.id
  <2>1. d # c /\ o \in call[d]
    BY <1>3, <1>4, <1>12
  <2>2. o.id # q.id
    BY <1>0, <1>1, <2>1 DEF IdInv
  <2>3. o.id \notin applied /\ \A p \in sent : p.id # o.id
    BY <1>0, <1>12, <2>1 DEF IdInv
  <2>. QED  BY <1>1, <2>2, <2>3
<1>13. IdInv'
  BY <1>0, <1>1, <1>7, <1>8, <1>9, <1>10, <1>11, <1>12 DEF IdInv
<1>14. \A p \in Open' : p.op = "EOSImport" => Accepted(p.auth, p.key)
  BY <1>0, <1>2, <1>3, <1>5 DEF ImportInv
<1>. QED  BY <1>0, <1>1, <1>13, <1>14 DEF BindInv, ImportInv

\* The same of Return.
LEMMA BindReturn ==
  ASSUME BindInv, IInv', NEW c \in Clients, NEW code \in {0, -1}, Return(c, code),
         UNCHANGED <<active, sent, applied, calls>>
  PROVE  BindInv'
<1>0. IInv /\ IdInv /\ ImportInv
  BY DEF BindInv
<1>1. call' = [call EXCEPT ![c] = {}] /\ answer' = [answer EXCEPT ![c] = code]
  BY DEF Return
<1>2. \A d \in Clients : call'[d] = IF d = c THEN {} ELSE call[d]
  BY <1>0, <1>1 DEF IInv
<1>3. answer' \in [Clients -> {0, -1}]
  BY <1>0, <1>1 DEF IdInv
<1>4. Open' \subseteq Open
  BY <1>2 DEF Open
<1>5. \A p \in Open' : p.id \in 1..calls'
  BY <1>0, <1>4 DEF IdInv
<1>6. IdInv'
  BY <1>0, <1>2, <1>3, <1>5 DEF IdInv
<1>. QED  BY <1>0, <1>4, <1>6 DEF BindInv, ImportInv

\* The same of Execute.
LEMMA BindExecute == ASSUME BindInv, IInv', NEW q \in sent, Execute(q) PROVE BindInv'
<1>0. IInv /\ IdInv /\ ImportInv
  BY DEF BindInv
<1>1. /\ active' = q.auth /\ Valid(q.auth)
      /\ sent' = sent \ {q} /\ applied' = applied \cup {q.id}
      /\ UNCHANGED <<call, calls, answer>>
  BY DEF Execute
<1>2. q \in Open /\ q.id \in 1..calls /\ q.id \notin applied
  BY <1>0, OpenFacts DEF IdInv
<1>3. Open' \subseteq Open
  BY <1>1 DEF Open
<1>4. applied' \subseteq 1..calls'
  BY <1>0, <1>1, <1>2 DEF IdInv
<1>5. \A p \in sent' : p.id # q.id /\ p \in sent
  BY <1>0, <1>1 DEF IdInv
<1>6. \A d \in Clients : \A o \in call[d] : o.pc = "read" =>
        o.id \notin applied /\ o.id # q.id /\ \A p \in sent : p.id # o.id
  BY <1>0 DEF IdInv
<1>7. \A p \in Open' : p.id \in 1..calls'
  BY <1>0, <1>1, <1>3 DEF IdInv
<1>8. IdInv'
  BY <1>0, <1>1, <1>2, <1>4, <1>5, <1>6, <1>7 DEF IdInv
<1>9. Valid(active)'
  BY <1>1
<1>. QED  BY <1>0, <1>3, <1>8, <1>9 DEF BindInv, ImportInv

\* The same of Drop.
LEMMA BindDrop == ASSUME BindInv, IInv', NEW q \in sent, Drop(q) PROVE BindInv'
<1>0. IInv /\ IdInv /\ ImportInv
  BY DEF BindInv
<1>1. sent' = sent \ {q} /\ UNCHANGED <<active, call, applied, calls, answer>>
  BY DEF Drop
<1>2. Open' \subseteq Open
  BY <1>1 DEF Open
<1>3. IdInv'
  BY <1>0, <1>1, <1>2 DEF IdInv
<1>. QED  BY <1>0, <1>1, <1>2, <1>3 DEF BindInv, ImportInv

\* The same of all steps.
LEMMA BindNext == ASSUME BindInv, [Next]_vars PROVE BindInv'
<1>0. IInv'
  BY NextInv DEF BindInv
<1>1. ASSUME NEW c \in Clients, NEW op \in Ops, NEW key \in Keys, Begin(c, op, key)
      PROVE  BindInv'
  BY <1>0, <1>1, BindBegin
<1>2. ASSUME NEW c \in Clients, Fail(c) \/ Succeed(c) PROVE BindInv'
  BY <1>0, <1>2, BindReturn DEF Fail, Succeed
<1>3. ASSUME NEW c \in Clients, Send(c) PROVE BindInv'
  BY <1>0, <1>3, BindSend
<1>4. ASSUME NEW q \in sent, Execute(q) PROVE BindInv'
  BY <1>0, <1>4, BindExecute
<1>5. ASSUME NEW q \in sent, Drop(q) PROVE BindInv'
  BY <1>0, <1>5, BindDrop
<1>6. CASE UNCHANGED vars
  <2>1. Open' = Open
    BY <1>6 DEF vars, Open
  <2>. QED  BY <1>0, <1>6, <2>1 DEF vars, BindInv, IdInv, ImportInv
<1>. QED  BY <1>1, <1>2, <1>3, <1>4, <1>5, <1>6 DEF Next, Ops

\* BindInv is an invariant.
LEMMA BindInvHolds == Spec => []BindInv
<1>1. Init => BindInv
  BY BindInit
<1>2. BindInv /\ [Next]_vars => BindInv'
  BY BindNext
<1>. QED  BY <1>1, <1>2, PTL DEF Spec

\* The permission always has keys in the order the network wants and weights that
\* reach its threshold, and what is still to be executed was not executed before, with
\* any number of clients, keys and calls.
THEOREM BindTypeOKHolds == Spec => []BindTypeOK
<1>1. ASSUME BindInv PROVE BindTypeOK
  <2>0. IInv /\ IdInv /\ ImportInv
    BY <1>1 DEF BindInv
  <2>1. KeysOf(active) \subseteq Keys /\ Valid(active)
    BY <2>0, PermissionFacts DEF IInv, ImportInv, KeysOf
  <2>3. ASSUME NEW c \in Clients PROVE Cardinality(call[c]) <= 1
    <3>1. CASE call[c] = {}
      BY <3>1, FS_EmptySet
    <3>2. CASE \E q \in call[c] : call[c] = {q}
      <4>1. PICK q \in call[c] : call[c] = {q}
        BY <3>2
      <4>2. Cardinality({q}) = 1
        BY FS_Singleton
      <4>. QED  BY <4>1, <4>2
    <3>. QED  BY <2>0, <3>1, <3>2 DEF IdInv
  <2>4. \A q \in sent : q.id \in 1..calls \ applied
    BY <2>0, OpenFacts DEF IdInv
  <2>. QED  BY <2>0, <2>1, <2>3, <2>4 DEF BindTypeOK, IdInv
<1>. QED  BY <1>1, BindInvHolds, PTL

\* Every import that is on its way is one the network accepts, and its key signs for
\* the account by itself, whatever the permission was that the client had read.
THEOREM ImportsAreAcceptedHolds == Spec => []ImportsAreAccepted
<1>1. ASSUME BindInv PROVE ImportsAreAccepted
  <2>1. \A q \in sent : q.op = "EOSImport" => Accepted(q.auth, q.key)
    BY <1>1 DEF BindInv, ImportInv, Open
  <2>. QED  BY <2>1 DEF ImportsAreAccepted, Accepted
<1>. QED  BY <1>1, BindInvHolds, PTL

(***************************************************************************)
(* Sequences of bytes one after another.                                   *)
(***************************************************************************)
\* The first i of seqs, by a function f that has the first i - 1 of them.
Flat1(seqs, f, i) == IF i = 1 THEN seqs[i] ELSE f[i - 1] \o seqs[i]
IsFlat(seqs, n, f) == f = [i \in 1..n |-> Flat1(seqs, f, i)]
Flat(seqs, n) == CHOOSE f : IsFlat(seqs, n, f)

\* FlattenSeq is a function of how many sequences are taken, at the last of them.
LEMMA FlatIs ==
  ASSUME NEW seqs, Len(seqs) # 0
  PROVE  FlattenSeq(seqs) = Flat(seqs, Len(seqs))[Len(seqs)]
BY DEF FlattenSeq, Flat, IsFlat, Flat1

\* Such a function exists, for a least number for which it did not would have one.
LEMMA FlatExists ==
  ASSUME NEW seqs, NEW n \in Nat
  PROVE  IsFlat(seqs, n, Flat(seqs, n))
<1>. DEFINE Has(m) == \E f : IsFlat(seqs, m, f)
            T == {m \in Nat : ~Has(m)}
<1>1. ASSUME NEW m \in T, \A k \in T : m <= k PROVE FALSE
  <2>1. CASE m = 0
    <3>. DEFINE f == [i \in 1..0 |-> <<>>]
    <3>1. IsFlat(seqs, 0, f)
      BY DEF IsFlat
    <3>. QED  BY <2>1, <3>1
  <2>2. CASE m # 0
    <3>1. m \in Nat /\ m - 1 \in Nat /\ m - 1 < m
      BY <2>2
    <3>2. m - 1 \notin T
      <4>. HIDE DEF T
      <4>. QED  BY <1>1, <3>1
    <3>3. PICK f : IsFlat(seqs, m - 1, f)
      BY <3>1, <3>2
    <3>. DEFINE h == [i \in 1..m |-> Flat1(seqs, f, i)]
    <3>4. ASSUME NEW i \in 1..m PROVE Flat1(seqs, f, i) = Flat1(seqs, h, i)
      <4>1. CASE i = 1
        BY <4>1 DEF Flat1
      <4>2. CASE i # 1
        <5>1. i - 1 \in 1..m /\ i - 1 \in 1..(m - 1)
          BY <3>1, <4>2
        <5>2. f[i - 1] = Flat1(seqs, f, i - 1)
          BY <3>3, <5>1 DEF IsFlat
        <5>3. h[i - 1] = Flat1(seqs, f, i - 1)
          BY <5>1
        <5>. QED  BY <5>2, <5>3, <4>2 DEF Flat1
      <4>. QED  BY <4>1, <4>2
    <3>5. IsFlat(seqs, m, h)
      BY <3>4 DEF IsFlat
    <3>. QED  BY <1>1, <3>5
  <2>. QED  BY <2>1, <2>2
<1>2. T = {}
  <2>1. T \subseteq Nat
    OBVIOUS
  <2>. HIDE DEF T
  <2>. QED  BY <1>1, <2>1, LeastNat
<1>3. Has(n)
  BY <1>2
<1>. QED  BY <1>3 DEF Flat

\* One sequence after another is as long as all of them together.
LEMMA FlattenLen ==
  ASSUME NEW K, NEW seqs \in Seq(Seq(K)), seqs # <<>>
  PROVE  /\ FlattenSeq(seqs) \in Seq(K)
         /\ Len(FlattenSeq(seqs)) = SumFunction([i \in DOMAIN seqs |-> Len(seqs[i])])
<1>. DEFINE n == Len(seqs)
            f == Flat(seqs, n)
            w == [i \in DOMAIN seqs |-> Len(seqs[i])]
            g == Sums(w, 1..n)
            T == {i \in 1..n : ~(f[i] \in Seq(K) /\ Len(f[i]) = g[1..i])}
<1>1. n \in Nat /\ n # 0 /\ DOMAIN seqs = 1..n /\ DOMAIN w = 1..n
      /\ \A i \in 1..n : seqs[i] \in Seq(K) /\ w[i] = Len(seqs[i]) /\ w[i] \in Nat
  OBVIOUS
<1>2. \A i \in 1..n : f[i] = Flat1(seqs, f, i)
  <2>1. IsFlat(seqs, n, f)
    BY <1>1, FlatExists
  <2>. HIDE DEF f
  <2>. QED  BY <2>1 DEF IsFlat
<1>3. FlattenSeq(seqs) = f[n]
  BY <1>1, FlatIs
<1>4. SumFunction(w) = g[1..n]
  BY <1>1, SumIs
<1>. HIDE DEF n, f, w
<1>5. /\ g[1..0] = 0
      /\ \A i \in 0..n : g[1..i] \in Nat
      /\ \A i \in 1..n : g[1..i] = w[i] + g[1..(i - 1)]
  BY <1>1, SumFirst
<1>. HIDE DEF g
<1>6. ASSUME NEW i \in T, \A j \in T : i <= j PROVE FALSE
  <2>1. i \in 1..n /\ ~(f[i] \in Seq(K) /\ Len(f[i]) = g[1..i])
    BY <1>6
  <2>2. CASE i = 1
    <3>1. f[1] = seqs[1]
      BY <1>2, <2>1, <2>2 DEF Flat1
    <3>2. g[1..1] = w[1]
      <4>1. g[1..1] = w[1] + g[1..(1 - 1)]
        BY <1>5, <2>1, <2>2
      <4>2. 1 - 1 = 0
        OBVIOUS
      <4>. QED  BY <1>1, <1>5, <2>1, <2>2, <4>1, <4>2
    <3>. QED  BY <1>1, <2>1, <2>2, <3>1, <3>2
  <2>3. CASE i # 1
    <3>1. i - 1 \in 1..n /\ i - 1 < i
      BY <1>1, <2>1, <2>3
    <3>2. i - 1 \notin T
      <4>. HIDE DEF T
      <4>. QED  BY <1>6, <2>1, <3>1
    <3>3. f[i - 1] \in Seq(K) /\ Len(f[i - 1]) = g[1..(i - 1)]
      BY <3>1, <3>2
    <3>4. f[i] = f[i - 1] \o seqs[i]
      BY <1>2, <2>1, <2>3 DEF Flat1
    <3>5. f[i] \in Seq(K) /\ Len(f[i]) = Len(f[i - 1]) + Len(seqs[i])
      <4>1. seqs[i] \in Seq(K)
        BY <1>1, <2>1
      <4>2. /\ f[i - 1] \o seqs[i] \in Seq(K)
            /\ Len(f[i - 1] \o seqs[i]) = Len(f[i - 1]) + Len(seqs[i])
        BY <3>3, <4>1, ConcatProperties
      <4>. QED  BY <3>4, <4>2
    <3>6. g[1..i] = w[i] + g[1..(i - 1)] /\ g[1..(i - 1)] \in Nat
      BY <1>5, <2>1, <3>1
    <3>. QED  BY <1>1, <2>1, <3>3, <3>5, <3>6
  <2>. QED  BY <2>2, <2>3
<1>7. T = {}
  <2>1. T \subseteq Nat
    OBVIOUS
  <2>. HIDE DEF T
  <2>. QED  BY <1>6, <2>1, LeastNat
<1>8. n \in 1..n
  BY <1>1
<1>9. f[n] \in Seq(K) /\ Len(f[n]) = g[1..n]
  BY <1>7, <1>8
<1>. QED  BY <1>3, <1>4, <1>9 DEF w

(***************************************************************************)
(* The bytes of numbers.                                                   *)
(***************************************************************************)
\* A number without its last byte, and that byte.
High(n) == n \div 256
Low(n) == n % 256

\* The bytes of k, by a function f that has those of smaller numbers.
Bytes1(f, k) == IF k = 0 THEN <<>> ELSE Append(f[High(k)], Low(k))
IsBytes(m, f) == f = [k \in 0..m |-> Bytes1(f, k)]
AreBytes(f) == f = [n \in Nat |-> Bytes1(f, n)]

\* The higher part of a number is a smaller number.
LEMMA Divided ==
  ASSUME NEW k \in Nat
  PROVE  /\ High(k) \in Nat /\ Low(k) \in Byte /\ Low(k) \in Nat
         /\ k # 0 => High(k) < k
         /\ k <= 255 => High(k) = 0 /\ Low(k) = k
         /\ k > 255 /\ k <= 65535 => High(k) # 0 /\ High(k) <= 255
BY SMT DEF Byte, High, Low

\* There is such a function for the numbers to n.
LEMMA BytesExist == ASSUME NEW n \in Nat PROVE \E f : IsBytes(n, f)
<1>. DEFINE Has(m) == \E f : IsBytes(m, f)
            T == {m \in Nat : ~Has(m)}
<1>1. ASSUME NEW m \in T, \A k \in T : m <= k PROVE FALSE
  <2>1. CASE m = 0
    <3>. DEFINE f == [k \in 0..0 |-> <<>>]
    <3>1. ASSUME NEW k \in 0..0 PROVE Bytes1(f, k) = <<>>
      BY DEF Bytes1
    <3>2. IsBytes(0, f)
      BY <3>1 DEF IsBytes
    <3>. QED  BY <1>1, <2>1, <3>2
  <2>2. CASE m # 0
    <3>1. m \in Nat /\ m - 1 \in Nat /\ m - 1 < m
      BY <2>2
    <3>2. m - 1 \notin T
      <4>. HIDE DEF T
      <4>. QED  BY <1>1, <3>1
    <3>3. PICK f : IsBytes(m - 1, f)
      BY <3>1, <3>2
    <3>. DEFINE h == [k \in 0..m |-> Bytes1(f, k)]
    <3>4. ASSUME NEW k \in 0..m PROVE Bytes1(f, k) = Bytes1(h, k)
      <4>1. CASE k = 0
        BY <4>1 DEF Bytes1
      <4>2. CASE k # 0
        <5>. DEFINE d == High(k)
        <5>1. d \in Nat /\ d < k
          BY <4>2, Divided
        <5>. HIDE DEF d
        <5>2. d \in 0..m /\ d \in 0..(m - 1)
          BY <3>1, <5>1
        <5>3. f[d] = Bytes1(f, d)
          BY <3>3, <5>2 DEF IsBytes
        <5>4. h[d] = Bytes1(f, d)
          BY <5>2
        <5>. QED  BY <4>2, <5>3, <5>4 DEF Bytes1, d
      <4>. QED  BY <4>1, <4>2
    <3>5. IsBytes(m, h)
      BY <3>4 DEF IsBytes
    <3>. QED  BY <1>1, <3>5
  <2>. QED  BY <2>1, <2>2
<1>2. T = {}
  <2>1. T \subseteq Nat
    OBVIOUS
  <2>. HIDE DEF T
  <2>. QED  BY <1>1, <2>1, LeastNat
<1>. QED  BY <1>2

\* Two such functions agree where both are defined.
LEMMA BytesAgree ==
  ASSUME NEW n \in Nat, NEW m \in Nat, NEW f, NEW g, IsBytes(n, f), IsBytes(m, g),
         NEW k \in 0..n, k \in 0..m
  PROVE  f[k] = g[k]
<1>. DEFINE T == {j \in 0..n : j \in 0..m /\ f[j] # g[j]}
<1>1. ASSUME NEW j \in T, \A i \in T : j <= i PROVE FALSE
  <2>1. j \in 0..n /\ j \in 0..m /\ f[j] # g[j]
    BY <1>1
  <2>2. f[j] = Bytes1(f, j) /\ g[j] = Bytes1(g, j)
    BY <2>1 DEF IsBytes
  <2>3. j # 0
    BY <2>1, <2>2 DEF Bytes1
  <2>. DEFINE d == High(j)
  <2>4. d \in Nat /\ d < j
    BY <2>1, <2>3, Divided
  <2>. HIDE DEF d
  <2>5. d \in 0..n /\ d \in 0..m
    BY <2>1, <2>4
  <2>6. d \notin T
    <3>. HIDE DEF T
    <3>. QED  BY <1>1, <2>1, <2>4
  <2>7. f[d] = g[d]
    BY <2>5, <2>6
  <2>. QED  BY <2>1, <2>2, <2>3, <2>7 DEF Bytes1, d
<1>2. T = {}
  <2>1. T \subseteq Nat
    OBVIOUS
  <2>. HIDE DEF T
  <2>. QED  BY <1>1, <2>1, LeastNat
<1>. QED  BY <1>2

\* BigEndian is defined by its last byte, for every number.
LEMMA BigEndianIs == AreBytes(BigEndian)
<1>. DEFINE F(n) == CHOOSE f : IsBytes(n, f)
            h == [n \in Nat |-> F(n)[n]]
<1>1. \A n \in Nat : IsBytes(n, F(n))
  BY BytesExist
<1>. HIDE DEF F
<1>2. ASSUME NEW n \in Nat PROVE h[n] = Bytes1(h, n)
  <2>1. h[n] = Bytes1(F(n), n)
    <3>1. F(n)[n] = Bytes1(F(n), n)
      BY <1>1 DEF IsBytes
    <3>. QED  BY <3>1
  <2>2. CASE n = 0
    BY <2>1, <2>2 DEF Bytes1
  <2>3. CASE n # 0
    <3>. DEFINE d == High(n)
    <3>1. d \in Nat /\ d < n
      BY <2>3, Divided
    <3>. HIDE DEF d
    <3>2. d \in 0..n /\ d \in 0..d
      BY <3>1
    <3>3. F(n)[d] = F(d)[d]
      BY <1>1, <3>1, <3>2, BytesAgree
    <3>4. h[d] = F(n)[d]
      BY <3>1, <3>3
    <3>. QED  BY <2>1, <2>3, <3>4 DEF Bytes1, d
  <2>. QED  BY <2>2, <2>3
<1>3. AreBytes(h)
  BY <1>2 DEF AreBytes
<1>4. BigEndian = CHOOSE f : AreBytes(f)
  BY DEF BigEndian, AreBytes, Bytes1, High, Low
<1>. QED  BY <1>3, <1>4

\* Short sequences, element by element.
LEMMA Two == ASSUME NEW K, NEW s \in Seq(K), Len(s) = 2 PROVE s = <<s[1], s[2]>>
OBVIOUS

\* The same of three.
LEMMA Three == ASSUME NEW K, NEW s \in Seq(K), Len(s) = 3 PROVE s = <<s[1], s[2], s[3]>>
OBVIOUS

\* Two elements, appended.
LEMMA AppendTwo == ASSUME NEW k, NEW j PROVE Append(<<j>>, k) = <<j, k>>
<1>. DEFINE K == {j, k}
            s == Append(<<j>>, k)
<1>1. s \in Seq(K) /\ Len(s) = 2 /\ s[1] = j /\ s[2] = k
  OBVIOUS
<1>. HIDE DEF s, K
<1>. QED  BY <1>1, Two DEF s

\* Two elements, one after the other.
LEMMA ConcatTwo == ASSUME NEW k, NEW j PROVE <<j>> \o <<k>> = <<j, k>>
<1>. DEFINE K == {j, k}
            s == <<j>> \o <<k>>
<1>1. s \in Seq(K) /\ Len(s) = 2 /\ s[1] = j /\ s[2] = k
  OBVIOUS
<1>. HIDE DEF s, K
<1>. QED  BY <1>1, Two DEF s

\* Three of them.
LEMMA ConcatThree == ASSUME NEW k, NEW j, NEW l PROVE <<j>> \o <<k, l>> = <<j, k, l>>
<1>. DEFINE K == {j, k, l}
            s == <<j>> \o <<k, l>>
<1>1. s \in Seq(K) /\ Len(s) = 3 /\ s[1] = j /\ s[2] = k /\ s[3] = l
  OBVIOUS
<1>. HIDE DEF s, K
<1>. QED  BY <1>1, Three DEF s

\* A number is a sequence of bytes.
LEMMA BytesOf ==
  ASSUME NEW n \in Nat
  PROVE  /\ BigEndian[n] \in Seq(Byte)
         /\ n = 0 => BigEndian[n] = <<>>
         /\ n # 0 => BigEndian[n] = Append(BigEndian[High(n)], Low(n))
<1>. DEFINE T == {m \in Nat : BigEndian[m] \notin Seq(Byte)}
<1>1. \A m \in Nat : BigEndian[m] = Bytes1(BigEndian, m)
  <2>. DEFINE f == BigEndian
  <2>1. AreBytes(f)
    BY BigEndianIs
  <2>. HIDE DEF f
  <2>2. \A m \in Nat : f[m] = Bytes1(f, m)
    BY <2>1 DEF AreBytes
  <2>. QED  BY <2>2 DEF f
<1>2. ASSUME NEW m \in T, \A k \in T : m <= k PROVE FALSE
  <2>1. m \in Nat /\ BigEndian[m] = Bytes1(BigEndian, m) /\ BigEndian[m] \notin Seq(Byte)
    BY <1>1
  <2>2. m # 0
    BY <2>1 DEF Bytes1
  <2>. DEFINE d == High(m)
  <2>3. d \in Nat /\ d < m /\ Low(m) \in Byte
    BY <2>1, <2>2, Divided
  <2>. HIDE DEF d
  <2>4. d \notin T
    <3>. HIDE DEF T
    <3>. QED  BY <1>2, <2>1, <2>3
  <2>5. BigEndian[d] \in Seq(Byte)
    BY <2>3, <2>4
  <2>6. BigEndian[m] = Append(BigEndian[d], Low(m))
    BY <2>1, <2>2 DEF Bytes1, d
  <2>7. BigEndian[m] \in Seq(Byte)
    <3>. HIDE DEF Byte
    <3>. QED  BY <2>3, <2>5, <2>6
  <2>. QED  BY <2>1, <2>7
<1>3. T = {}
  <2>1. T \subseteq Nat
    OBVIOUS
  <2>. HIDE DEF T
  <2>. QED  BY <1>2, <2>1, LeastNat
<1>. QED  BY <1>1, <1>3 DEF Bytes1

\* A number without a higher part is its last byte.
LEMMA OneByte ==
  ASSUME NEW k \in Nat, k # 0, High(k) = 0, Low(k) = k
  PROVE  BigEndian[k] = <<k>>
<1>1. BigEndian[0] = <<>>
  BY BytesOf
<1>2. BigEndian[k] = Append(BigEndian[High(k)], Low(k))
  BY BytesOf
<1>3. BigEndian[k] = Append(<<>>, k)
  BY <1>1, <1>2
<1>. QED  BY <1>3

\* Numbers of one byte and of two.
LEMMA ShortBytes ==
  ASSUME NEW n \in Nat, n # 0, n <= 65535
  PROVE  /\ n <= 255 => BigEndian[n] = <<n>>
         /\ n > 255 => BigEndian[n] = <<High(n), Low(n)>>
<1>1. ASSUME NEW k \in Nat, k # 0, k <= 255 PROVE BigEndian[k] = <<k>>
  <2>1. High(k) = 0 /\ Low(k) = k
    BY <1>1, Divided, SMT
  <2>. QED  BY <1>1, <2>1, OneByte
<1>2. ASSUME n > 255 PROVE BigEndian[n] = <<High(n), Low(n)>>
  <2>1. High(n) \in Nat /\ High(n) # 0 /\ High(n) <= 255
    BY <1>2, Divided, SMT
  <2>2. BigEndian[High(n)] = <<High(n)>>
    BY <1>1, <2>1
  <2>3. BigEndian[n] = Append(BigEndian[High(n)], Low(n))
    BY BytesOf
  <2>. QED  BY <2>2, <2>3, AppendTwo
<1>. QED  BY <1>1, <1>2

(***************************************************************************)
(* The two pieces of code and the encoding as it is defined.               *)
(***************************************************************************)
\* The head of what is n bytes long.
Header(base, n) ==
  IF n <= 55 THEN <<base + n>> ELSE <<base + 55 + Len(BigEndian[n])>> \o BigEndian[n]

\* The head takes one byte, two or three.
LEMMA HeaderIs ==
  ASSUME NEW base \in Nat, NEW n \in Nat, n <= 65535
  PROVE  /\ n <= 55 => Header(base, n) = <<base + n>>
         /\ n > 55 /\ n <= 255 => Header(base, n) = <<base + 56, n>>
         /\ n > 255 => Header(base, n) = <<base + 57, High(n), Low(n)>>
<1>1. ASSUME n <= 55 PROVE Header(base, n) = <<base + n>>
  BY <1>1 DEF Header
<1>2. ASSUME n > 55, n <= 255 PROVE Header(base, n) = <<base + 56, n>>
  <2>1. BigEndian[n] = <<n>>
    BY <1>2, ShortBytes, SMT
  <2>2. Header(base, n) = <<base + 55 + Len(BigEndian[n])>> \o BigEndian[n]
    BY <1>2, SMT DEF Header
  <2>3. Len(<<n>>) = 1 /\ base + 55 + 1 = base + 56
    BY SMT
  <2>. QED  BY <2>1, <2>2, <2>3, ConcatTwo
<1>3. ASSUME n > 255 PROVE Header(base, n) = <<base + 57, High(n), Low(n)>>
  <2>. DEFINE a == High(n)
              b == Low(n)
  <2>1. BigEndian[n] = <<a, b>>
    BY <1>3, ShortBytes, SMT
  <2>2. Header(base, n) = <<base + 55 + Len(BigEndian[n])>> \o BigEndian[n]
    BY <1>3, SMT DEF Header
  <2>. HIDE DEF a, b
  <2>3. Len(<<a, b>>) = 2 /\ base + 55 + 2 = base + 57
    BY SMT
  <2>4. Header(base, n) = <<base + 57, a, b>>
    BY <2>1, <2>2, <2>3, ConcatThree
  <2>. QED  BY <2>4 DEF a, b
<1>. QED  BY <1>1, <1>2, <1>3

\* hash_rlp_length and hash_rlp_list_length write it.
LEMMA LengthIs ==
  ASSUME NEW base \in Nat, NEW n \in Nat, n <= 65535
  PROVE  HashLength(base, n) = Header(base, n)
<1>1. CASE n <= 55
  BY <1>1, HeaderIs, SMT DEF HashLength
<1>2. CASE n > 55 /\ n <= 255
  BY <1>2, HeaderIs, SMT DEF HashLength
<1>3. CASE n > 255
  <2>1. HashLength(base, n) = <<base + 57, n \div 256, n % 256>>
    BY <1>3, SMT DEF HashLength
  <2>2. Header(base, n) = <<base + 57, High(n), Low(n)>>
    BY <1>3, HeaderIs, SMT
  <2>. QED  BY <2>1, <2>2, SMT DEF High, Low
<1>. QED  BY <1>1, <1>2, <1>3, SMT

\* It is made of bytes, if base leaves room.
LEMMA HeaderBytes ==
  ASSUME NEW base \in Nat, base <= 192, NEW n \in Nat, n <= 65535
  PROVE  /\ Header(base, n) \in Seq(Byte)
         /\ Len(Header(base, n)) = IF n <= 55 THEN 1 ELSE IF n <= 255 THEN 2 ELSE 3
<1>1. CASE n <= 55
  <2>1. base + n \in Byte
    BY <1>1, SMT DEF Byte
  <2>2. Header(base, n) = <<base + n>>
    BY <1>1, HeaderIs, SMT
  <2>. QED  BY <1>1, <2>1, <2>2, SMT
<1>2. CASE n > 55 /\ n <= 255
  <2>1. base + 56 \in Byte /\ n \in Byte
    BY <1>2, SMT DEF Byte
  <2>2. Header(base, n) = <<base + 56, n>>
    BY <1>2, HeaderIs, SMT
  <2>. QED  BY <1>2, <2>1, <2>2, SMT
<1>3. CASE n > 255
  <2>. DEFINE a == High(n)
              b == Low(n)
  <2>1. base + 57 \in Byte /\ a \in Byte /\ b \in Byte
    BY <1>3, Divided, SMT DEF Byte
  <2>2. Header(base, n) = <<base + 57, a, b>>
    BY <1>3, HeaderIs, SMT
  <2>. HIDE DEF a, b
  <2>. QED  BY <1>3, <2>1, <2>2, SMT
<1>. QED  BY <1>1, <1>2, <1>3, SMT

\* The head of what is longer than 55 bytes.
LEMMA LongHeader ==
  ASSUME NEW base, NEW n, ~(n <= 55)
  PROVE  Header(base, n) = <<base + 55 + Len(BigEndian[n])>> \o BigEndian[n]
BY DEF Header

\* What is longer than 55 bytes, as it is defined.
LEMMA LongString ==
  ASSUME NEW f, ~(Len(f) = 1 /\ f[1] < 128), ~(Len(f) <= 55)
  PROVE  RlpString(f) = <<183 + Len(BigEndian[Len(f)])>> \o BigEndian[Len(f)] \o f
BY DEF RlpString

\* A byte is a number.
LEMMA ByteIsNat == \A k \in Byte : k \in Nat
BY DEF Byte

\* A field that stands for itself, by both conditions on it.
LEMMA SingleIs ==
  ASSUME NEW f \in Seq(Byte)
  PROVE  Single(f) <=> Len(f) = 1 /\ f[1] < 128
<1>1. CASE Len(f) = 1
  <2>1. f[1] \in Byte
    BY <1>1
  <2>. DEFINE k == f[1]
  <2>2. k \in Nat
    BY <2>1, ByteIsNat
  <2>. HIDE DEF k
  <2>3. k <= 127 <=> k < 128
    BY <2>2, SMT
  <2>. QED  BY <1>1, <2>3 DEF Single, k
<1>2. CASE Len(f) # 1
  BY <1>2 DEF Single
<1>. QED  BY <1>1, <1>2

\* One sequence after another.
LEMMA ConcatIs ==
  ASSUME NEW K, NEW s \in Seq(K), NEW t \in Seq(K)
  PROVE  s \o t \in Seq(K) /\ Len(s \o t) = Len(s) + Len(t)
OBVIOUS

\* A field: the three encodings of it are one, of the length that was reckoned.
LEMMA FieldIs ==
  ASSUME NEW f \in Seq(Byte), Len(f) <= 1022
  PROVE  /\ hash_rlp_field(f) = RlpString(f)
         /\ wallet_encode_element(f) = RlpString(f)
         /\ RlpString(f) \in Seq(Byte)
         /\ Len(RlpString(f)) = rlp_calculate_length(f)
         /\ rlp_calculate_length(f) \in Nat /\ rlp_calculate_length(f) <= 1027
<1>. DEFINE n == Len(f)
<1>0. n \in Nat /\ n <= 65535 /\ (n = 1 => f[1] \in Byte)
  BY SMT
<1>1. Single(f) <=> n = 1 /\ f[1] < 128
  BY SingleIs
<1>2. CASE Single(f)
  <2>1. hash_rlp_field(f) = f /\ wallet_encode_element(f) = f /\ RlpString(f) = f
    BY <1>1, <1>2 DEF hash_rlp_field, wallet_encode_element, RlpString
  <2>2. rlp_calculate_length(f) = 1 /\ n = 1
    BY <1>1, <1>2, SMT DEF rlp_calculate_length, Single
  <2>. QED  BY <2>1, <2>2, SMT
<1>3. CASE ~Single(f)
  <2>. DEFINE h == Header(128, n)
  <2>1. RlpString(f) = h \o f
    <3>1. CASE n <= 55
      <4>1. RlpString(f) = <<128 + n>> \o f
        BY <1>0, <1>1, <1>3, <3>1, SMT DEF RlpString
      <4>. QED  BY <3>1, <4>1, SMT DEF Header
    <3>2. CASE ~(n <= 55)
      <4>. DEFINE b == BigEndian[n]
                  l == Len(b)
      <4>1. RlpString(f) = <<183 + l>> \o b \o f
        BY <1>1, <1>3, <3>2, LongString
      <4>2. h = <<128 + 55 + l>> \o b
        BY <3>2, LongHeader
      <4>3. 128 + 55 + l = 183 + l
        <5>1. l \in Nat
          BY <1>0, BytesOf, SMT
        <5>. HIDE DEF l
        <5>. QED  BY <5>1, SMT
      <4>. HIDE DEF h, b, l
      <4>4. h = <<183 + l>> \o b
        BY <4>2, <4>3
      <4>. QED  BY <4>1, <4>4, Zenon
    <3>. QED  BY <3>1, <3>2
  <2>2. hash_rlp_field(f) = h \o f
    <3>1. HashLength(128, n) = h
      BY <1>0, LengthIs, SMT
    <3>. QED  BY <1>3, <3>1 DEF hash_rlp_field
  <2>3. wallet_encode_element(f) = RlpString(f)
    <3>1. LengthHead(128, 183, n) = h
      <4>1. CASE n <= 55
        <5>1. n < 56
          BY <1>0, <4>1, SMT
        <5>. QED  BY <4>1, <5>1 DEF LengthHead, Header
      <4>2. CASE ~(n <= 55)
        <5>. DEFINE b == BigEndian[n]
                    k == Len(b)
        <5>1. ~(n < 56) /\ n \in Nat
          BY <1>0, <4>2, SMT
        <5>2. LengthHead(128, 183, n) = <<183 + k>> \o b
          BY <5>1 DEF LengthHead
        <5>3. h = <<128 + 55 + k>> \o b
          BY <4>2, LongHeader
        <5>4. 128 + 55 + k = 183 + k
          <6>1. k \in Nat
            BY <5>1, BytesOf, SMT
          <6>. HIDE DEF k
          <6>. QED  BY <6>1, SMT
        <5>. HIDE DEF k, b, h
        <5>. QED  BY <5>2, <5>3, <5>4
      <4>. QED  BY <4>1, <4>2
    <3>2. wallet_encode_element(f) = LengthHead(128, 183, n) \o f
      BY <1>3 DEF wallet_encode_element
    <3>. HIDE DEF h
    <3>. QED  BY <2>1, <3>1, <3>2
  <2>4. h \in Seq(Byte) /\ Len(h) = IF n <= 55 THEN 1 ELSE IF n <= 255 THEN 2 ELSE 3
    BY <1>0, HeaderBytes, SMT
  <2>5. rlp_calculate_length(f) = n + IF n <= 55 THEN 1 ELSE IF n <= 255 THEN 2 ELSE 3
    <3>1. CASE n <= 55
      BY <1>0, <1>3, <3>1, SMT DEF rlp_calculate_length
    <3>2. CASE n > 55 /\ n <= 255
      BY <1>0, <1>3, <3>2, SMT DEF rlp_calculate_length
    <3>3. CASE n > 255
      BY <1>0, <1>3, <3>3, SMT DEF rlp_calculate_length
    <3>. QED  BY <1>0, <3>1, <3>2, <3>3, SMT
  <2>. HIDE DEF h
  <2>6. h \o f \in Seq(Byte) /\ Len(h \o f) = Len(h) + n
    <3>1. h \in Seq(Byte) /\ f \in Seq(Byte)
      BY <2>4
    <3>. QED  BY <3>1, ConcatIs, Zenon
  <2>. QED  BY <1>0, <2>1, <2>2, <2>3, <2>4, <2>5, <2>6, SMT
<1>. QED  BY <1>2, <1>3

(***************************************************************************)
(* Lists of short fields.                                                  *)
(***************************************************************************)
\* What a field can be, and what its encoding takes.
Short(f) == f \in Seq(Byte) /\ Len(f) <= 1022
Weighs(n) == n \in Nat /\ n <= 1027
Together(n) == 1027 * n
Fits(n) == n \in Nat /\ n <= 65535
Long(n) == n > 255
Whole(f) == Len(f) <= 253
ListHead(n) == Header(192, n)

\* FieldIs without its bounds.
LEMMA ShortFieldIs ==
  ASSUME NEW f, Short(f)
  PROVE  /\ hash_rlp_field(f) = RlpString(f)
         /\ wallet_encode_element(f) = RlpString(f)
         /\ RlpString(f) \in Seq(Byte)
         /\ Len(RlpString(f)) = rlp_calculate_length(f)
         /\ Weighs(rlp_calculate_length(f))
BY FieldIs DEF Short, Weighs

\* One more takes no more than its share.
LEMMA WeighsMore ==
  ASSUME NEW i \in Nat, NEW k, NEW j \in Nat, k <= Together(i), k \in Nat, Weighs(j)
  PROVE  j + k <= Together(i + 1)
BY SMT DEF Weighs, Together

\* Nine fields have a head of at most three bytes.
LEMMA NineAreFew == ASSUME NEW k, k \in Nat, k <= Together(9) PROVE Fits(k)
BY SMT DEF Together, Fits

\* A list of nine is not empty.
LEMMA NotEmpty == ASSUME NEW s, Len(s) = 9 PROVE s # <<>>
OBVIOUS

\* What weighs so much is at most as much as there are.
LEMMA SumBelow ==
  ASSUME NEW n \in Nat, NEW w, DOMAIN w = 1..n, \A i \in 1..n : Weighs(w[i])
  PROVE  SumFunction(w) \in Nat /\ SumFunction(w) <= Together(n)
<1>. DEFINE g == Sums(w, 1..n)
            Few(i) == g[1..i] <= Together(i)
            T == {i \in 0..n : ~Few(i)}
<1>0. \A i \in 1..n : w[i] \in Nat
  BY DEF Weighs
<1>1. /\ g[1..0] = 0
      /\ \A i \in 0..n : g[1..i] \in Nat
      /\ \A i \in 1..n : g[1..i] = w[i] + g[1..(i - 1)]
  BY <1>0, SumFirst, Zenon
<1>2. SumFunction(w) = g[1..n]
  BY SumIs
<1>. HIDE DEF g
<1>3. Few(0)
  BY <1>1, SMT DEF Together
<1>4. ASSUME NEW i \in 1..n, Few(i - 1) PROVE Few(i)
  <2>. DEFINE j == i - 1
              k == g[1..j]
              l == g[1..i]
              c == w[i]
  <2>1. j \in Nat /\ j \in 0..n /\ i = j + 1
    BY <1>4, SMT
  <2>2. k <= Together(j)
    BY <1>4
  <2>3. k \in Nat
    BY <1>1, <2>1, Zenon
  <2>4. l = c + k
    BY <1>1, <1>4
  <2>5. Weighs(c)
    BY <1>4
  <2>6. l <= Together(i)
    <3>. HIDE DEF j, k, l, c
    <3>1. c \in Nat
      BY <2>5 DEF Weighs
    <3>2. l <= Together(j + 1)
      <4>1. c + k <= Together(j + 1)
        BY <2>1, <2>2, <2>3, <2>5, <3>1, WeighsMore, Zenon
      <4>. QED  BY <2>4, <4>1
    <3>. QED  BY <2>1, <3>2
  <2>. QED  BY <2>6
<1>. HIDE DEF Few
<1>5. ASSUME NEW i \in T, \A j \in T : i <= j PROVE FALSE
  <2>1. i \in 0..n /\ ~Few(i) /\ i # 0
    BY <1>3, <1>5
  <2>2. i - 1 \in 0..n /\ ~(i <= i - 1) /\ i \in 1..n
    BY <2>1, SMT
  <2>3. i - 1 \notin T
    <3>. HIDE DEF T
    <3>. QED  BY <1>5, <2>2, Zenon
  <2>. QED  BY <1>4, <2>1, <2>2, <2>3
<1>6. T = {}
  <2>1. T \subseteq Nat
    BY SMT
  <2>. HIDE DEF T
  <2>. QED  BY <1>5, <2>1, LeastNat
<1>7. n \in 0..n
  BY SMT
<1>8. Few(n) /\ g[1..n] \in Nat
  BY <1>1, <1>6, <1>7
<1>. QED  BY <1>2, <1>8 DEF Few

\* The elements of a sequence of sequences.
LEMMA Elements ==
  ASSUME NEW K, NEW s \in Seq(Seq(K)), NEW n \in Nat, Len(s) = n
  PROVE  DOMAIN s = 1..n /\ \A i \in 1..n : s[i] \in Seq(K)
OBVIOUS

\* The items of a list.
Items(strings) == FlattenSeq([i \in DOMAIN strings |-> RlpString(strings[i])])

\* The encoding of a list as it is defined is a head and the items.
LEMMA ListHeader ==
  ASSUME NEW strings, Len(Items(strings)) \in Nat
  PROVE  RlpList(strings) = Header(192, Len(Items(strings))) \o Items(strings)
<1>. DEFINE items == Items(strings)
            n == Len(items)
            b == BigEndian[n]
            k == Len(b)
<1>1. CASE n <= 55
  <2>1. RlpList(strings) = <<192 + n>> \o items
    BY <1>1 DEF RlpList, Items
  <2>. QED  BY <1>1, <2>1 DEF Header
<1>2. CASE ~(n <= 55)
  <2>1. RlpList(strings) = <<247 + k>> \o b \o items
    BY <1>2 DEF RlpList, Items
  <2>2. Header(192, n) = <<192 + 55 + k>> \o b
    <3>. HIDE DEF n
    <3>. QED  BY <1>2, LongHeader
  <2>3. 192 + 55 + k = 247 + k
    <3>1. k \in Nat
      <4>. HIDE DEF n
      <4>1. n \in Nat
        BY DEF n
      <4>2. b \in Seq(Byte)
        BY <4>1, BytesOf
      <4>. HIDE DEF b
      <4>. QED  BY <4>2
    <3>. HIDE DEF k
    <3>. QED  BY <3>1, SMT
  <2>. HIDE DEF items, n, b, k
  <2>4. Header(192, n) = <<247 + k>> \o b
    BY <2>2, <2>3
  <2>. QED  BY <2>1, <2>4 DEF n, items
<1>. QED  BY <1>1, <1>2

\* A list of short fields: the three encodings of it are one.
LEMMA ListIs ==
  ASSUME NEW fields \in Seq(Seq(Byte)), Len(fields) = 9, \A i \in 1..9 : Short(fields[i])
  PROVE  /\ Items(fields) \in Seq(Byte) /\ Fits(Len(Items(fields)))
         /\ Len(Items(fields)) =
              SumFunction([i \in DOMAIN fields |-> rlp_calculate_length(fields[i])])
         /\ Items(fields) = FlattenSeq([i \in DOMAIN fields |-> hash_rlp_field(fields[i])])
         /\ Items(fields) = FlattenSeq([i \in DOMAIN fields |-> wallet_encode_element(fields[i])])
         /\ RlpList(fields) = Header(192, Len(Items(fields))) \o Items(fields)
<1>. DEFINE s == [i \in DOMAIN fields |-> RlpString(fields[i])]
            w == [i \in DOMAIN fields |-> rlp_calculate_length(fields[i])]
            l == [i \in DOMAIN s |-> Len(s[i])]
<1>1. DOMAIN fields = 1..9 /\ 9 \in Nat
  BY Elements
<1>2. \A i \in 1..9 :
        /\ hash_rlp_field(fields[i]) = RlpString(fields[i])
        /\ wallet_encode_element(fields[i]) = RlpString(fields[i])
        /\ RlpString(fields[i]) \in Seq(Byte)
        /\ Len(RlpString(fields[i])) = rlp_calculate_length(fields[i])
        /\ Weighs(rlp_calculate_length(fields[i]))
  BY ShortFieldIs
<1>3. /\ s = [i \in DOMAIN fields |-> hash_rlp_field(fields[i])]
      /\ s = [i \in DOMAIN fields |-> wallet_encode_element(fields[i])]
      /\ l = w
  BY <1>1, <1>2
<1>4. s \in Seq(Seq(Byte)) /\ Len(s) = 9
  <2>. HIDE DEF Byte
  <2>. QED  BY <1>1, <1>2
<1>5. Items(fields) \in Seq(Byte) /\ Len(Items(fields)) = SumFunction(l)
  <2>. HIDE DEF s, Byte
  <2>1. s # <<>>
    BY <1>4, NotEmpty
  <2>. QED  BY <1>4, <2>1, FlattenLen DEF s, Items
<1>6. SumFunction(w) \in Nat /\ SumFunction(w) <= Together(9)
  <2>1. DOMAIN w = 1..9 /\ \A i \in 1..9 : Weighs(w[i])
    BY <1>1, <1>2
  <2>. HIDE DEF w
  <2>. QED  BY <1>1, <2>1, SumBelow
<1>7. Len(Items(fields)) = SumFunction(w)
  <2>. HIDE DEF w, l
  <2>. QED  BY <1>3, <1>5
<1>8. Fits(Len(Items(fields)))
  <2>. HIDE DEF w, l
  <2>1. Fits(SumFunction(w))
    BY <1>6, NineAreFew
  <2>. QED  BY <1>7, <2>1
<1>9. RlpList(fields) = Header(192, Len(Items(fields))) \o Items(fields)
  <2>. HIDE DEF s, w, l
  <2>1. Len(Items(fields)) \in Nat
    BY <1>8 DEF Fits
  <2>. QED  BY <2>1, ListHeader
<1>10. s = [i \in DOMAIN fields |-> RlpString(fields[i])]
  OBVIOUS
<1>. HIDE DEF s, l
<1>11. Items(fields) = FlattenSeq(s)
  BY <1>10 DEF Items
<1>. QED  BY <1>3, <1>5, <1>7, <1>8, <1>9, <1>11, Zenon

ShortFields == {f \in Seq(Byte) : Short(f)}

\* A sequence over a set is one over a larger set.
LEMMA SeqWider == ASSUME NEW K, NEW L, K \subseteq L, NEW s \in Seq(K) PROVE s \in Seq(L)
OBVIOUS

\* The elements of a sequence.
LEMMA EachOf == ASSUME NEW K, NEW s \in Seq(K) PROVE \A i \in 1..Len(s) : s[i] \in K
OBVIOUS

\* wallet_encode_list writes the same head.
LEMMA ListHeadIs ==
  ASSUME NEW n \in Nat
  PROVE  LengthHead(192, 247, n) = Header(192, n)
<1>. DEFINE b == BigEndian[n]
            k == Len(b)
<1>1. CASE n <= 55
  <2>1. n < 56
    BY <1>1, SMT
  <2>. QED  BY <1>1, <2>1 DEF LengthHead, Header
<1>2. CASE ~(n <= 55)
  <2>1. ~(n < 56)
    BY <1>2, SMT
  <2>2. LengthHead(192, 247, n) = <<247 + k>> \o b
    BY <2>1 DEF LengthHead
  <2>3. Header(192, n) = <<192 + 55 + k>> \o b
    BY <1>2, LongHeader
  <2>4. k \in Nat
    <3>1. b \in Seq(Byte)
      BY BytesOf
    <3>. HIDE DEF b
    <3>. QED  BY <3>1
  <2>. HIDE DEF k
  <2>5. 192 + 55 + k = 247 + k
    BY <2>4, SMT
  <2>. QED  BY <2>2, <2>3, <2>5
<1>. QED  BY <1>1, <1>2

\* What sign_tx hashes of a list is its encoding, and so is what is sent of it, if it is
\* copied whole.
LEMMA ListHashed ==
  ASSUME NEW fields \in Seq(ShortFields), Len(fields) = 9
  PROVE  LET elements == [i \in DOMAIN fields |-> wallet_encode_element(fields[i])]
         IN  /\ HashLength(192, SumFunction([i \in DOMAIN fields |-> rlp_calculate_length(fields[i])]))
                   \o FlattenSeq([i \in DOMAIN fields |-> hash_rlp_field(fields[i])]) = RlpList(fields)
             /\ LengthHead(192, 247, Len(FlattenSeq(elements))) \o FlattenSeq(elements)
                   = RlpList(fields)
<1>. DEFINE items == Items(fields)
            n == Len(items)
            elements == [i \in DOMAIN fields |-> wallet_encode_element(fields[i])]
<1>1. fields \in Seq(Seq(Byte)) /\ \A i \in 1..9 : Short(fields[i])
  <2>1. ShortFields \subseteq Seq(Byte) /\ \A f \in ShortFields : Short(f)
    BY DEF ShortFields
  <2>2. \A i \in 1..9 : fields[i] \in ShortFields
    BY EachOf
  <2>. QED  BY <2>1, <2>2, SeqWider
<1>2. /\ Fits(n)
      /\ n = SumFunction([i \in DOMAIN fields |-> rlp_calculate_length(fields[i])])
      /\ items = FlattenSeq([i \in DOMAIN fields |-> hash_rlp_field(fields[i])])
      /\ items = FlattenSeq(elements)
      /\ RlpList(fields) = Header(192, n) \o items
  BY <1>1, ListIs
<1>3. HashLength(192, n) = Header(192, n) /\ LengthHead(192, 247, n) = Header(192, n)
  <2>. HIDE DEF n
  <2>. QED  BY <1>2, LengthIs, ListHeadIs DEF Fits
<1>4. LengthHead(192, 247, Len(FlattenSeq(elements))) \o FlattenSeq(elements) = RlpList(fields)
  <2>. HIDE DEF items, elements
  <2>. QED  BY <1>2, <1>3 DEF n
<1>. HIDE DEF items, n
<1>. QED  BY <1>2, <1>3, <1>4

\* ListHashed for what sign_tx hashes of a transaction.
LEMMA HashedIs ==
  ASSUME NEW tx, Unsigned(tx) \o <<tx.chain_id_str, <<>>, <<>>>> \in Seq(ShortFields),
         Len(Unsigned(tx) \o <<tx.chain_id_str, <<>>, <<>>>>) = 9
  PROVE  Hashed(tx) = RlpList(Unsigned(tx) \o <<tx.chain_id_str, <<>>, <<>>>>)
<1>. DEFINE fields == Unsigned(tx) \o <<tx.chain_id_str, <<>>, <<>>>>
<1>1. Hashed(tx) =
        HashLength(192, SumFunction([i \in DOMAIN fields |-> rlp_calculate_length(fields[i])]))
          \o FlattenSeq([i \in DOMAIN fields |-> hash_rlp_field(fields[i])])
  BY DEF Hashed
<1>2. fields \in Seq(ShortFields) /\ Len(fields) = 9
  OBVIOUS
<1>3. Hashed(tx) = RlpList(fields)
  <2>. HIDE DEF fields
  <2>. QED  BY <1>1, <1>2, ListHashed
<1>. QED  BY <1>3

\* An element of at most 255 bytes is copied whole; of a longer one, fewer are.
LEMMA CopiedIs ==
  ASSUME NEW f, Short(f)
  PROVE  LET e == wallet_encode_element(f)
             c == wallet_copy_rpl(e)
         IN  /\ c \in Seq(Byte) /\ Len(c) \in Nat /\ Len(c) <= Len(e)
             /\ Whole(f) => c = e
             /\ ~Whole(f) => Len(c) < Len(e) /\ Long(Len(e))
<1>. DEFINE e == wallet_encode_element(f)
            c == wallet_copy_rpl(e)
            n == Len(e)
            m == n % 256
            l == Len(f)
<1>1. e \in Seq(Byte) /\ n = rlp_calculate_length(f) /\ Weighs(n)
  BY ShortFieldIs
<1>2. l \in Nat
  BY DEF Short
<1>3. (l <= 253 => n <= 255) /\ (l > 253 => n > 255)
  <2>1. CASE Single(f)
    <3>1. n = 1 /\ l = 1
      BY <1>1, <2>1 DEF rlp_calculate_length, Single
    <3>. QED  BY <3>1, SMT
  <2>2. CASE ~Single(f)
    <3>1. /\ l <= 55 => n = 1 + l
          /\ l > 55 /\ l <= 255 => n = 2 + l
          /\ l > 255 /\ l <= 65535 => n = 3 + l
      <4>1. rlp_calculate_length(f) =
              CASE Single(f) -> 1 [] ~Single(f) /\ l <= 55 -> 1 + l
                [] l > 55 /\ l <= 255 -> 2 + l [] l > 255 /\ l <= 65535 -> 3 + l
                [] OTHER -> 4 + l
        BY DEF rlp_calculate_length
      <4>. HIDE DEF l, n
      <4>. QED  BY <1>1, <1>2, <2>2, <4>1, SMT
    <3>2. l <= 1022
      BY DEF Short
    <3>. HIDE DEF l, n
    <3>. QED  BY <1>2, <3>1, <3>2, SMT
  <2>. QED  BY <2>1, <2>2
<1>4. m \in 0..n /\ (n <= 255 => m = n) /\ (n > 255 => m < n) /\ n \in Nat
  <2>. HIDE DEF n
  <2>. QED  BY <1>1, SMT DEF Weighs
<1>5. c = SubSeq(e, 1, m)
  BY DEF wallet_copy_rpl
<1>. HIDE DEF e
<1>6. SubSeq(e, 1, m) \in Seq(Byte) /\ Len(SubSeq(e, 1, m)) = m /\ (m = n => SubSeq(e, 1, m) = e)
  <2>. HIDE DEF Byte
  <2>. QED  BY <1>1, <1>4
<1>. HIDE DEF c, m, n, l
<1>7. c \in Seq(Byte) /\ Len(c) = m
  BY <1>5, <1>6
<1>8. /\ Len(c) \in Nat /\ Len(c) <= n
      /\ l > 253 => Len(c) < n /\ n > 255
  BY <1>3, <1>4, <1>7, SMT
<1>9. l <= 253 => c = e
  BY <1>3, <1>4, <1>5, <1>6
<1>10. (Whole(f) <=> l <= 253) /\ (~Whole(f) <=> l > 253) /\ (Long(n) <=> n > 255)
  <2>1. Whole(f) <=> l <= 253
    BY DEF Whole, l
  <2>. QED  BY <1>2, <2>1, SMT DEF Long
<1>11. (Whole(f) => c = e) /\ (~Whole(f) => Len(c) < n /\ Long(n))
  BY <1>8, <1>9, <1>10, SMT
<1>. QED  BY <1>7, <1>8, <1>11 DEF c, e, n

\* Fields that are copied whole are sent as their encoding.
LEMMA ListSent ==
  ASSUME NEW fields \in Seq(ShortFields), Len(fields) = 9, \A i \in 1..9 : Whole(fields[i])
  PROVE  wallet_encode_list(fields) = RlpList(fields)
<1>. DEFINE elements == [i \in DOMAIN fields |-> wallet_encode_element(fields[i])]
            copies == [i \in DOMAIN elements |-> wallet_copy_rpl(elements[i])]
<1>1. DOMAIN fields = 1..9 /\ \A i \in 1..9 : Short(fields[i])
  <2>1. \A i \in 1..9 : fields[i] \in ShortFields
    BY EachOf
  <2>. QED  BY <2>1 DEF ShortFields
<1>2. \A i \in 1..9 :
        wallet_copy_rpl(wallet_encode_element(fields[i])) = wallet_encode_element(fields[i])
  BY <1>1, CopiedIs
<1>3. copies = elements
  BY <1>1, <1>2
<1>4. wallet_encode_list(fields) =
        LengthHead(192, 247, Len(FlattenSeq(elements))) \o FlattenSeq(copies)
  BY DEF wallet_encode_list
<1>5. LengthHead(192, 247, Len(FlattenSeq(elements))) \o FlattenSeq(elements) = RlpList(fields)
  BY ListHashed
<1>. HIDE DEF elements, copies
<1>. QED  BY <1>3, <1>4, <1>5

\* The sum of nine numbers.
LEMMA SumOfNine ==
  ASSUME NEW w, DOMAIN w = 1..9, \A i \in 1..9 : w[i] \in Nat
  PROVE  SumFunction(w) = w[1] + w[2] + w[3] + w[4] + w[5] + w[6] + w[7] + w[8] + w[9]
<1>. DEFINE n == 9
            g(i) == Sums(w, 1..n)[1..i]
<1>1. n \in Nat /\ \A i \in 1..n : w[i] \in Nat
  BY SMT
<1>. HIDE DEF n
<1>2. /\ g(0) = 0
      /\ \A i \in 0..n : g(i) \in Nat
      /\ \A i \in 1..n : g(i) = w[i] + g(i - 1)
  BY <1>1, SumFirst
<1>. HIDE DEF g
<1>3. /\ g(0) = 0
      /\ \A i \in 0..9 : g(i) \in Nat
      /\ \A i \in 1..9 : g(i) = w[i] + g(i - 1)
  BY <1>2 DEF n
<1>4. SumFunction(w) = g(9)
  BY SumIs DEF g, n
<1>5. /\ g(1) = w[1] + g(0) /\ g(2) = w[2] + g(1) /\ g(3) = w[3] + g(2)
      /\ g(4) = w[4] + g(3) /\ g(5) = w[5] + g(4) /\ g(6) = w[6] + g(5)
      /\ g(7) = w[7] + g(6) /\ g(8) = w[8] + g(7) /\ g(9) = w[9] + g(8)
  BY <1>3, SMT
<1>. QED  BY <1>3, <1>4, <1>5, SMT

\* A function of the first n numbers is a sequence.
LEMMA FunctionIsSeq ==
  ASSUME NEW K, NEW n \in Nat, NEW f \in [1..n -> K]
  PROVE  f \in Seq(K) /\ Len(f) = n
OBVIOUS

\* Nine numbers, one of which is less than that of nine others.
LEMMA SumLess ==
  ASSUME NEW u, NEW w, DOMAIN u = 1..9, DOMAIN w = 1..9,
         \A i \in 1..9 : u[i] \in Nat /\ w[i] \in Nat /\ u[i] <= w[i],
         u[6] < w[6], Long(w[6])
  PROVE  /\ SumFunction(u) \in Nat /\ SumFunction(w) \in Nat
         /\ SumFunction(u) < SumFunction(w) /\ Long(SumFunction(w))
<1>1. SumFunction(u) = u[1] + u[2] + u[3] + u[4] + u[5] + u[6] + u[7] + u[8] + u[9]
  BY SumOfNine
<1>2. SumFunction(w) = w[1] + w[2] + w[3] + w[4] + w[5] + w[6] + w[7] + w[8] + w[9]
  BY SumOfNine
<1>. DEFINE m == SumFunction(u)
            n == SumFunction(w)
<1>. HIDE DEF m, n
<1>3. /\ m = u[1] + u[2] + u[3] + u[4] + u[5] + u[6] + u[7] + u[8] + u[9]
      /\ n = w[1] + w[2] + w[3] + w[4] + w[5] + w[6] + w[7] + w[8] + w[9]
  BY <1>1, <1>2 DEF m, n
<1>4. m \in Nat /\ n \in Nat /\ m < n /\ Long(n)
  BY <1>3, SMT DEF Long
<1>. QED  BY <1>4 DEF m, n

\* The length of nine sequences is that of each.
LEMMA NineTogether ==
  ASSUME NEW q \in [1..9 -> Seq(Byte)]
  PROVE  LET w == [i \in DOMAIN q |-> Len(q[i])]
         IN  /\ FlattenSeq(q) \in Seq(Byte) /\ Len(FlattenSeq(q)) = SumFunction(w)
             /\ DOMAIN w = 1..9 /\ \A i \in 1..9 : w[i] = Len(q[i]) /\ w[i] \in Nat
<1>. DEFINE w == [i \in DOMAIN q |-> Len(q[i])]
<1>1. q \in Seq(Seq(Byte)) /\ Len(q) = 9
  <2>1. 9 \in Nat
    BY SMT
  <2>. QED  BY <2>1, FunctionIsSeq
<1>2. DOMAIN w = 1..9 /\ \A i \in 1..9 : w[i] = Len(q[i]) /\ w[i] \in Nat
  <2>1. \A i \in 1..9 : q[i] \in Seq(Byte)
    OBVIOUS
  <2>2. \A i \in 1..9 : Len(q[i]) \in Nat
    <3>. HIDE DEF Byte
    <3>. QED  BY <2>1
  <2>3. DOMAIN q = 1..9
    OBVIOUS
  <2>. QED  BY <2>2, <2>3
<1>3. FlattenSeq(q) \in Seq(Byte) /\ Len(FlattenSeq(q)) = SumFunction(w)
  <2>1. q # <<>>
    BY <1>1, NotEmpty
  <2>. QED  BY <1>1, <2>1, FlattenLen
<1>. HIDE DEF w
<1>4. /\ FlattenSeq(q) \in Seq(Byte) /\ Len(FlattenSeq(q)) = SumFunction(w)
      /\ DOMAIN w = 1..9 /\ \A i \in 1..9 : w[i] = Len(q[i]) /\ w[i] \in Nat
  BY <1>2, <1>3
<1>. QED  BY <1>4 DEF w

\* Nine sequences of which one is shorter than nine others are shorter together.
LEMMA ShorterTogether ==
  ASSUME NEW s \in [1..9 -> Seq(Byte)], NEW t \in [1..9 -> Seq(Byte)],
         \A i \in 1..9 : Len(t[i]) <= Len(s[i]), Len(t[6]) < Len(s[6]), Long(Len(s[6]))
  PROVE  /\ FlattenSeq(t) \in Seq(Byte)
         /\ Len(FlattenSeq(t)) < Len(FlattenSeq(s)) /\ Long(Len(FlattenSeq(s)))
<1>. DEFINE u == [i \in DOMAIN t |-> Len(t[i])]
            w == [i \in DOMAIN s |-> Len(s[i])]
<1>1. /\ FlattenSeq(t) \in Seq(Byte) /\ Len(FlattenSeq(t)) = SumFunction(u)
      /\ DOMAIN u = 1..9 /\ \A i \in 1..9 : u[i] = Len(t[i]) /\ u[i] \in Nat
  BY NineTogether
<1>2. /\ Len(FlattenSeq(s)) = SumFunction(w)
      /\ DOMAIN w = 1..9 /\ \A i \in 1..9 : w[i] = Len(s[i]) /\ w[i] \in Nat
  BY NineTogether
<1>. HIDE DEF u, w
<1>3. 6 \in 1..9
  BY SMT
<1>4. /\ \A i \in 1..9 : u[i] \in Nat /\ w[i] \in Nat /\ u[i] <= w[i]
      /\ u[6] < w[6] /\ Long(w[6])
  BY <1>1, <1>2, <1>3
<1>5. SumFunction(u) < SumFunction(w) /\ Long(SumFunction(w))
  BY <1>1, <1>2, <1>4, SumLess
<1>. QED  BY <1>1, <1>2, <1>5

\* The head of a list of more than 255 bytes.
LEMMA LongListHeader ==
  ASSUME NEW n, Fits(n), Long(n)
  PROVE  ListHead(n) = <<249, High(n), Low(n)>>
<1>1. Header(192, n) = <<192 + 57, High(n), Low(n)>>
  <2>1. 192 \in Nat
    BY SMT
  <2>. QED  BY <2>1, HeaderIs DEF Fits, Long
<1>2. 192 + 57 = 249
  BY SMT
<1>. QED  BY <1>1, <1>2 DEF ListHead

\* A list that is longer than 255 bytes by its head, which it is not.
LEMMA CutIsSeen ==
  ASSUME NEW n, Fits(n), Long(n), NEW items \in Seq(Byte), Len(items) < n,
         NEW q, q = ListHead(n) \o items
  PROVE  Len(q) # Announced(q)
<1>. DEFINE a == High(n)
            b == Low(n)
            h == <<249, a, b>>
            k == Len(items)
            l == Len(q)
            m == Announced(q)
<1>1. ListHead(n) = h
  BY LongListHeader
<1>2. a \in Nat /\ b \in Nat /\ 256 * a + b = n
  BY SMT DEF High, Low, Fits
<1>3. q[1] = 249 /\ q[2] = a /\ q[3] = b /\ l = 3 + k /\ k \in Nat
  <2>. HIDE DEF h
  <2>1. q = h \o items
    BY <1>1
  <2>2. q = <<249, a, b>> \o items
    BY <2>1 DEF h
  <2>. HIDE DEF a, b, Byte
  <2>. QED  BY <2>2, SMT
<1>4. m = 3 + 256 * a + b
  <2>1. Announced(q) = 3 + 256 * q[2] + q[3]
    BY <1>3, SMT DEF Announced
  <2>. QED  BY <1>3, <2>1
<1>5. k < n
  OBVIOUS
<1>. HIDE DEF a, b, k, l, m
<1>6. l # m
  BY <1>2, <1>3, <1>4, <1>5, SMT
<1>. QED  BY <1>6 DEF l, m

\* Of data of more than 253 bytes less is sent than the head says.
LEMMA ListCut ==
  ASSUME NEW fields \in Seq(ShortFields), Len(fields) = 9, ~Whole(fields[6])
  PROVE  Len(wallet_encode_list(fields)) # Announced(wallet_encode_list(fields))
<1>. DEFINE elements == [i \in DOMAIN fields |-> wallet_encode_element(fields[i])]
            copies == [i \in DOMAIN elements |-> wallet_copy_rpl(elements[i])]
            n == Len(FlattenSeq(elements))
<1>1. DOMAIN fields = 1..9 /\ \A i \in 1..9 : Short(fields[i])
  <2>1. \A i \in 1..9 : fields[i] \in ShortFields
    BY EachOf
  <2>. QED  BY <2>1 DEF ShortFields
<1>2. \A i \in 1..9 :
        LET e == wallet_encode_element(fields[i])
            c == wallet_copy_rpl(e)
        IN  /\ e \in Seq(Byte) /\ c \in Seq(Byte) /\ Len(c) <= Len(e)
            /\ ~Whole(fields[i]) => Len(c) < Len(e) /\ Long(Len(e))
  BY <1>1, CopiedIs, ShortFieldIs
<1>3. /\ elements = [i \in 1..9 |-> elements[i]] /\ copies = [i \in 1..9 |-> copies[i]]
      /\ \A i \in 1..9 : /\ elements[i] = wallet_encode_element(fields[i])
                         /\ copies[i] = wallet_copy_rpl(elements[i])
  BY <1>1
<1>4. wallet_encode_list(fields) = LengthHead(192, 247, n) \o FlattenSeq(copies)
  BY DEF wallet_encode_list
<1>5. fields \in Seq(Seq(Byte))
  <2>1. ShortFields \subseteq Seq(Byte)
    BY DEF ShortFields
  <2>. QED  BY <2>1, SeqWider
<1>6. Fits(n)
  <2>1. Items(fields) = FlattenSeq(elements) /\ Fits(Len(Items(fields)))
    BY <1>1, <1>5, ListIs
  <2>. QED  BY <2>1
<1>. HIDE DEF elements, copies
<1>7. /\ \A i \in 1..9 : /\ elements[i] \in Seq(Byte) /\ copies[i] \in Seq(Byte)
                         /\ Len(copies[i]) <= Len(elements[i])
      /\ Len(copies[6]) < Len(elements[6]) /\ Long(Len(elements[6]))
  <2>1. 6 \in 1..9
    BY SMT
  <2>. QED  BY <1>2, <1>3, <2>1
<1>8. /\ FlattenSeq(copies) \in Seq(Byte)
      /\ Len(FlattenSeq(copies)) < n /\ Long(n)
  <2>1. elements \in [1..9 -> Seq(Byte)] /\ copies \in [1..9 -> Seq(Byte)]
    BY <1>3, <1>7
  <2>. QED  BY <1>7, <2>1, ShorterTogether
<1>. HIDE DEF n
<1>9. LengthHead(192, 247, n) = ListHead(n)
  <2>1. n \in Nat
    BY <1>6 DEF Fits
  <2>. QED  BY <2>1, ListHeadIs DEF ListHead
<1>. DEFINE q == wallet_encode_list(fields)
            items == FlattenSeq(copies)
<1>. HIDE DEF q, items
<1>10. q = ListHead(n) \o items
  BY <1>4, <1>9 DEF q, items
<1>11. items \in Seq(Byte) /\ Len(items) < n /\ Long(n)
  BY <1>8 DEF items
<1>12. Len(q) # Announced(q)
  BY <1>6, <1>10, <1>11, CutIsSeen
<1>. QED  BY <1>12 DEF q

\* Nine short fields.
LEMMA NineFields ==
  ASSUME NEW K, NEW a \in K, NEW b \in K, NEW c \in K, NEW d \in K, NEW e \in K, NEW f \in K,
         NEW g \in K, NEW h \in K, NEW i \in K
  PROVE  /\ <<a, b, c, d, e, f>> \o <<g, h, i>> \in Seq(K)
         /\ Len(<<a, b, c, d, e, f>> \o <<g, h, i>>) = 9
         /\ (<<a, b, c, d, e, f>> \o <<g, h, i>>)[6] = f
         /\ \A j \in 1..9 : j # 6 =>
              (<<a, b, c, d, e, f>> \o <<g, h, i>>)[j] \in {a, b, c, d, e, g, h, i}
<1>1. <<a, b, c, d, e, f>> \in Seq(K) /\ Len(<<a, b, c, d, e, f>>) = 6
  OBVIOUS
<1>2. <<g, h, i>> \in Seq(K) /\ Len(<<g, h, i>>) = 3
  OBVIOUS
<1>3. 6 + 3 = 9
  OBVIOUS
<1>. DEFINE q == <<a, b, c, d, e, f>> \o <<g, h, i>>
<1>4. /\ q[1] = a /\ q[2] = b /\ q[3] = c /\ q[4] = d /\ q[5] = e /\ q[6] = f
      /\ q[7] = g /\ q[8] = h /\ q[9] = i
  OBVIOUS
<1>. HIDE DEF q
<1>5. \A j \in 1..9 : j # 6 => q[j] \in {a, b, c, d, e, g, h, i}
  BY <1>4, SMT
<1>. QED  BY <1>1, <1>2, <1>3, <1>4, <1>5, ConcatIs DEF q

(***************************************************************************)
(* Zeros in front.                                                         *)
(***************************************************************************)
LEMMA LeadingZerosIs ==
  ASSUME NEW bytes \in Seq(Byte)
  PROVE  /\ LeadingZeros(bytes) \in 0..Len(bytes)
         /\ \A i \in 1..LeadingZeros(bytes) : bytes[i] = 0
<1>. DEFINE T == {n \in 0..Len(bytes) : n = Len(bytes) \/ bytes[n + 1] # 0}
<1>1. Len(bytes) \in Nat
  OBVIOUS
<1>2. Len(bytes) \in T /\ T \subseteq Nat
  BY <1>1
<1>3. PICK n \in T : \A m \in T : n <= m
  <2>. HIDE DEF T
  <2>1. T # {}
    BY <1>2
  <2>. QED  BY <1>2, <2>1, LeastNat
<1>4. \A i \in 1..n : bytes[i] = 0
  <2>. SUFFICES ASSUME NEW i \in 1..n, bytes[i] # 0 PROVE FALSE
    OBVIOUS
  <2>1. i - 1 \in 0..Len(bytes) /\ (i - 1) + 1 = i /\ ~(n <= i - 1)
    BY <1>1, <1>3
  <2>2. i - 1 \in T
    BY <2>1
  <2>. QED  BY <1>3, <2>1, <2>2
<1>5. /\ n \in 0..Len(bytes)
      /\ \A i \in 1..n : bytes[i] = 0
      /\ n = Len(bytes) \/ bytes[n + 1] # 0
  BY <1>3, <1>4
<1>. QED  BY <1>5 DEF LeadingZeros

\* Up to one zero is cut off as it should be.
LEMMA ZerosRemoved ==
  ASSUME NEW bytes \in Seq(Byte), LeadingZeros(bytes) < 2
  PROVE  RemoveLeadingZeros(bytes) = NoZeros(bytes)
<1>. DEFINE n == LeadingZeros(bytes)
<1>1. n \in Nat /\ n < 2
  BY LeadingZerosIs
<1>. HIDE DEF n
<1>2. CASE n = 0
  <2>1. RemoveLeadingZeros(bytes) = bytes
    BY <1>2 DEF RemoveLeadingZeros, n
  <2>2. NoZeros(bytes) = SubSeq(bytes, 1, Len(bytes))
    BY <1>2 DEF NoZeros, n
  <2>3. SubSeq(bytes, 1, Len(bytes)) = bytes
    <3>. HIDE DEF Byte
    <3>. QED  OBVIOUS
  <2>. QED  BY <2>1, <2>2, <2>3
<1>3. CASE n = 1
  <2>1. RemoveLeadingZeros(bytes) = SubSeq(bytes, 2, 1 + Len(bytes) - n)
    BY <1>3 DEF RemoveLeadingZeros, n
  <2>2. NoZeros(bytes) = SubSeq(bytes, n + 1, Len(bytes))
    BY DEF NoZeros, n
  <2>3. 1 + Len(bytes) - n = Len(bytes) /\ n + 1 = 2
    BY <1>3
  <2>. QED  BY <2>1, <2>2, <2>3
<1>. QED  BY <1>1, <1>2, <1>3

\* Of more zeros one is left in front.
LEMMA ZerosLeft ==
  ASSUME NEW bytes \in Seq(Byte), Len(bytes) = 32
  PROVE  LET s == RemoveLeadingZeros(bytes)
         IN  s = NoZeros(bytes) \/ (s # <<>> /\ s[1] = 0)
<1>. DEFINE n == LeadingZeros(bytes)
            s == RemoveLeadingZeros(bytes)
<1>1. n \in 0..32 /\ \A i \in 1..n : bytes[i] = 0
  BY LeadingZerosIs
<1>2. CASE n < 2
  BY <1>2, ZerosRemoved
<1>3. CASE n >= 2
  <2>0. n # 0
    <3>. HIDE DEF n
    <3>. QED  BY <1>1, <1>3
  <2>1. s = SubSeq(bytes, 2, 1 + 32 - n)
    BY <2>0 DEF RemoveLeadingZeros
  <2>2. NoZeros(bytes) = SubSeq(bytes, n + 1, 32)
    BY DEF NoZeros
  <2>. HIDE DEF n, s
  <2>3. CASE n = 32
    <3>1. SubSeq(bytes, 2, 1 + 32 - n) = <<>> /\ SubSeq(bytes, n + 1, 32) = <<>>
      BY <2>3, SubSeqEmpty
    <3>. QED  BY <2>1, <2>2, <3>1 DEF s
  <2>4. CASE n # 32
    <3>. DEFINE k == 1 + 32 - n
    <3>1. k \in Nat /\ 2 <= k /\ k <= 32 /\ 2 \in 1..n
      BY <1>1, <1>3, <2>4
    <3>2. \A i \in 2..k : bytes[i] \in Byte
      <4>1. \A i \in 1..Len(bytes) : bytes[i] \in Byte
        BY EachOf
      <4>2. \A i \in 2..k : i \in 1..Len(bytes)
        BY <3>1
      <4>. QED  BY <4>1, <4>2
    <3>. HIDE DEF k
    <3>3. /\ Len(SubSeq(bytes, 2, k)) = k - 2 + 1
          /\ \A i \in 1..(k - 2 + 1) : SubSeq(bytes, 2, k)[i] = bytes[2 + i - 1]
      <4>. HIDE DEF Byte
      <4>1. 2 \in Int /\ k \in Int
        BY <3>1
      <4>. QED  BY <3>1, <3>2, <4>1, SubSeqProperties
    <3>4. 1 \in 1..(k - 2 + 1) /\ 2 + 1 - 1 = 2 /\ k - 2 + 1 # 0
      BY <3>1
    <3>5. SubSeq(bytes, 2, k)[1] = 0 /\ SubSeq(bytes, 2, k) # <<>>
      BY <1>1, <3>1, <3>3, <3>4
    <3>. QED  BY <2>1, <3>5 DEF s, k
  <2>. QED  BY <2>3, <2>4
<1>4. n < 2 \/ n >= 2
  <2>. HIDE DEF n
  <2>. QED  BY <1>1
<1>. QED  BY <1>2, <1>3, <1>4

\* Half a signature without the zeros in front.
LEMMA NoZerosShort ==
  ASSUME NEW bytes \in Seq(Byte), Len(bytes) = 32
  PROVE  NoZeros(bytes) \in Seq(Byte) /\ Len(NoZeros(bytes)) <= 32
<1>. DEFINE n == LeadingZeros(bytes)
<1>1. n \in 0..32
  BY LeadingZerosIs
<1>. HIDE DEF n
<1>2. NoZeros(bytes) = SubSeq(bytes, n + 1, 32)
  BY DEF NoZeros, n
<1>3. \A i \in (n + 1)..32 : bytes[i] \in Byte
  <2>1. \A i \in 1..Len(bytes) : bytes[i] \in Byte
    BY EachOf
  <2>2. \A i \in (n + 1)..32 : i \in 1..Len(bytes)
    BY <1>1
  <2>. QED  BY <2>1, <2>2
<1>4. SubSeq(bytes, n + 1, 32) \in Seq(Byte) /\ Len(SubSeq(bytes, n + 1, 32)) <= 32
  <2>. HIDE DEF Byte
  <2>. QED  BY <1>1, <1>3, SubSeqProperties
<1>. QED  BY <1>2, <1>4

\* The byte that says which chain it is.
LEMMA OneByteKept ==
  ASSUME NEW v \in Nat, v # 0, v <= 255
  PROVE  RemoveLeadingZeros(<<v>>) = BigEndian[v]
<1>. DEFINE b == <<v>>
<1>1. b \in Seq(Byte) /\ Len(b) = 1 /\ b[1] = v
  BY DEF Byte
<1>. HIDE DEF b
<1>2. LeadingZeros(b) = 0
  <2>1. LeadingZeros(b) \in 0..1 /\ \A i \in 1..LeadingZeros(b) : b[i] = 0
    BY <1>1, LeadingZerosIs
  <2>2. LeadingZeros(b) # 1
    BY <1>1, <2>1
  <2>. QED  BY <2>1, <2>2
<1>3. RemoveLeadingZeros(b) = b
  BY <1>2 DEF RemoveLeadingZeros
<1>4. BigEndian[v] = <<v>>
  BY ShortBytes, SMT
<1>. QED  BY <1>3, <1>4 DEF b

(***************************************************************************)
(* A transaction, and the first theorem about the codecs.                  *)
(***************************************************************************)
\* The bytes of a number that fits its buffer, and a number as it is printed.
LEMMA NumberShort ==
  ASSUME NEW n \in Nat, Len(BigEndian[n]) <= 32
  PROVE  /\ BigEndian[n] \in Seq(Byte)
         /\ Printed(n) \in Seq(Byte) /\ Len(Printed(n)) <= 32
         /\ n # 0 => Printed(n) = Number(n)
         /\ n = 0 => Number(n) = <<>>
<1>1. BigEndian[n] \in Seq(Byte) /\ (n = 0 => BigEndian[n] = <<>>)
  BY BytesOf
<1>2. <<0>> \in Seq(Byte) /\ Len(<<0>>) <= 32
  BY DEF Byte
<1>3. CASE n = 0
  BY <1>1, <1>2, <1>3 DEF Printed, Number
<1>4. CASE n # 0
  BY <1>1, <1>4 DEF Printed, Number
<1>. QED  BY <1>1, <1>3, <1>4

\* What is padded to 32 bytes has 32 bytes.
LEMMA PaddedIs ==
  ASSUME NEW bytes \in Seq(Byte), Len(bytes) <= 32
  PROVE  Padded(bytes, 32) \in Seq(Byte) /\ Len(Padded(bytes, 32)) = 32
<1>. DEFINE n == 32 - Len(bytes)
            z == Zeros(n)
<1>1. n \in Nat /\ n + Len(bytes) = 32
  OBVIOUS
<1>. HIDE DEF n
<1>2. z \in Seq(Byte) /\ Len(z) = n
  <2>1. 0 \in Byte
    BY DEF Byte
  <2>. HIDE DEF Byte
  <2>. QED  BY <1>1, <2>1 DEF Zeros
<1>. HIDE DEF z
<1>3. z \o bytes \in Seq(Byte) /\ Len(z \o bytes) = Len(z) + Len(bytes)
  BY <1>2, ConcatIs
<1>. QED  BY <1>1, <1>2, <1>3 DEF Padded, z, n

\* The data of a transfer of tokens.
LEMMA TransferShort ==
  ASSUME NEW to \in Seq(Byte), Len(to) = 20, NEW value \in Nat, Len(BigEndian[value]) <= 32
  PROVE  Transfer(to, value) \in Seq(Byte) /\ Len(Transfer(to, value)) = 68
<1>. DEFINE m == <<169, 5, 156, 187>>
            a == Padded(to, 32)
            b == Padded(Printed(value), 32)
<1>1. m \in Seq(Byte) /\ Len(m) = 4
  <2>1. 169 \in Byte /\ 5 \in Byte /\ 156 \in Byte /\ 187 \in Byte
    BY SMT DEF Byte
  <2>. HIDE DEF Byte
  <2>. QED  BY <2>1
<1>2. a \in Seq(Byte) /\ Len(a) = 32
  <2>1. 20 <= 32
    BY SMT
  <2>. QED  BY <2>1, PaddedIs
<1>3. b \in Seq(Byte) /\ Len(b) = 32
  BY NumberShort, PaddedIs
<1>. HIDE DEF m, a, b
<1>4. m \o a \in Seq(Byte) /\ Len(m \o a) = Len(m) + Len(a)
  BY <1>1, <1>2, ConcatIs
<1>5. (m \o a) \o b \in Seq(Byte) /\ Len((m \o a) \o b) = Len(m \o a) + Len(b)
  BY <1>3, <1>4, ConcatIs
<1>6. 4 + 32 + 32 = 68
  BY SMT
<1>7. Transfer(to, value) = (m \o a) \o b
  BY DEF Transfer, m, a, b
<1>. QED  BY <1>1, <1>2, <1>3, <1>4, <1>5, <1>6, <1>7

\* Whatever fits a buffer is a short field.
LEMMA IsShort ==
  /\ \A f \in Seq(Byte) : Len(f) <= 32 \/ Len(f) = 20 \/ Len(f) = 68 \/ Len(f) <= 1022
                            => f \in ShortFields
  /\ <<>> \in ShortFields
<1>1. \A f \in Seq(Byte) : Len(f) <= 32 \/ Len(f) = 20 \/ Len(f) = 68 \/ Len(f) <= 1022
                            => Len(f) <= 1022
  <2>. TAKE f \in Seq(Byte)
  <2>. DEFINE n == Len(f)
  <2>1. n \in Nat
    <3>. HIDE DEF Byte
    <3>. QED  OBVIOUS
  <2>. HIDE DEF n
  <2>2. n <= 32 \/ n = 20 \/ n = 68 \/ n <= 1022 => n <= 1022
    BY <2>1, SMT
  <2>. QED  BY <2>2, SMT DEF n
<1>2. <<>> \in Seq(Byte) /\ Len(<<>>) <= 1022
  <2>. HIDE DEF Byte
  <2>. QED  BY SMT
<1>. QED  BY <1>1, <1>2 DEF ShortFields, Short

\* The length of a short field is a number.
LEMMA ShortLen == \A f \in ShortFields : Len(f) \in Nat
<1>1. \A f \in Seq(Byte) : Len(f) \in Nat
  <2>. HIDE DEF Byte
  <2>. QED  OBVIOUS
<1>. QED  BY <1>1 DEF ShortFields

\* One of at most 32 bytes is copied whole.
LEMMA WholeIs == \A f \in ShortFields : Len(f) <= 32 \/ Len(f) = 20 => Whole(f)
<1>. SUFFICES ASSUME NEW f \in ShortFields, Len(f) <= 32 \/ Len(f) = 20 PROVE Whole(f)
  OBVIOUS
<1>. DEFINE n == Len(f)
<1>1. n \in Nat /\ (n <= 32 \/ n = 20)
  BY ShortLen
<1>. HIDE DEF n
<1>2. n <= 253
  BY <1>1, SMT
<1>. QED  BY <1>2 DEF n, Whole

\* The state is made of the inputs.
CodecTypes ==
  payment \in Payments /\ half \in Points /\ recId \in {0, 1} /\ name \in Names

\* CodecTypes is an invariant.
LEMMA CodecTypesHold == CodecSpec => []CodecTypes
<1>1. CodecInit => CodecTypes
  BY DEF CodecInit, CodecTypes
<1>2. CodecTypes /\ [CodecNext]_codec_vars => CodecTypes'
  BY DEF CodecTypes, CodecNext, NextTransaction, NextName, codec_vars
<1>. QED  BY <1>1, <1>2, PTL DEF CodecSpec

\* What PaymentAssumption says of one transaction.
Fitting(p) ==
  /\ p.kind \in 0..2
  /\ p.nonce \in Nat /\ p.gas_price \in Nat /\ p.gas_limit \in Nat
  /\ p.value \in Nat /\ p.chain_id \in Nat
  /\ p.to \in Seq(Byte) /\ p.contract \in Seq(Byte) /\ p.data \in Seq(Byte)
  /\ Len(p.to) = 20 /\ Len(p.contract) = 20 /\ Len(p.data) <= 1022
  /\ Len(BigEndian[p.nonce]) <= 32 /\ Len(BigEndian[p.gas_price]) <= 32
  /\ Len(BigEndian[p.gas_limit]) <= 32 /\ Len(BigEndian[p.value]) <= 32
  /\ Len(BigEndian[p.chain_id]) <= 32

\* Every payment fits.
LEMMA PaymentsFit == ASSUME NEW p \in Payments PROVE Fitting(p)
<1>. DEFINE S == Seq(Byte)
            B(n) == Len(BigEndian[n]) <= 32
<1>1. p \in [kind : 0..2, nonce : Nat, gas_price : Nat, gas_limit : Nat, value : Nat,
             to : S, contract : S, data : S, chain_id : Nat]
  BY PaymentAssumption
<1>2. Len(p.to) = 20 /\ Len(p.contract) = 20 /\ Len(p.data) <= 1022
  BY PaymentAssumption
<1>3. \A n \in {"nonce", "gas_price", "gas_limit", "value", "chain_id"} : B(p[n])
  BY PaymentAssumption
<1>. HIDE DEF S, B
<1>4. /\ p.kind \in 0..2
      /\ p.nonce \in Nat /\ p.gas_price \in Nat /\ p.gas_limit \in Nat
      /\ p.value \in Nat /\ p.chain_id \in Nat
      /\ p.to \in S /\ p.contract \in S /\ p.data \in S
  BY <1>1
<1>5. B(p.nonce) /\ B(p.gas_price) /\ B(p.gas_limit) /\ B(p.value) /\ B(p.chain_id)
  BY <1>3
<1>. QED  BY <1>2, <1>4, <1>5 DEF Fitting, S, B

\* The fields of the property.
Fields(p, data) ==
  <<Number(p.nonce), Number(p.gas_price), Number(p.gas_limit),
    IF p.kind = 1 THEN p.contract ELSE p.to,
    IF p.kind = 1 THEN <<>> ELSE Number(p.value), data>>

Nonzero(p) ==
  /\ p.gas_price # 0 /\ p.gas_limit # 0 /\ p.chain_id # 0
  /\ p.kind = 1 \/ p.value # 0
  /\ p.kind # 2 \/ p.nonce # 0

\* make_unsign_tx makes the fields of the property, where 0 is left out.
LEMMA UnsignedIs ==
  ASSUME NEW p, Fitting(p), Nonzero(p)
  PROVE  /\ Unsigned(make_unsign_tx(p)) = Fields(p, make_unsign_tx(p).data)
         /\ make_unsign_tx(p).chain_id_str = Number(p.chain_id)
<1>. DEFINE tx == make_unsign_tx(p)
<1>1. /\ p.nonce # 0 => Printed(p.nonce) = Number(p.nonce)
      /\ p.nonce = 0 => Number(p.nonce) = <<>>
      /\ Printed(p.gas_price) = Number(p.gas_price)
      /\ Printed(p.gas_limit) = Number(p.gas_limit)
      /\ p.kind # 1 => Printed(p.value) = Number(p.value)
      /\ Printed(p.chain_id) = Number(p.chain_id)
  BY NumberShort DEF Fitting, Nonzero
<1>2. /\ tx.nonce = (IF p.nonce = 0 /\ p.kind # 2 THEN <<>> ELSE Printed(p.nonce))
      /\ tx.gas_price = Printed(p.gas_price)
      /\ tx.gas_limit = Printed(p.gas_limit)
      /\ tx.to = (IF p.kind = 1 THEN p.contract ELSE p.to)
      /\ tx.value = (IF p.kind = 1 THEN <<>> ELSE Printed(p.value))
      /\ tx.chain_id_str = Printed(p.chain_id)
  BY DEF make_unsign_tx
<1>3. tx.nonce = Number(p.nonce)
  BY <1>1, <1>2 DEF Nonzero
<1>4. tx.value = IF p.kind = 1 THEN <<>> ELSE Number(p.value)
  BY <1>1, <1>2
<1>5. Unsigned(tx) = <<tx.nonce, tx.gas_price, tx.gas_limit, tx.to, tx.value, tx.data>>
  BY DEF Unsigned
<1>. HIDE DEF tx
<1>6. Unsigned(tx) = Fields(p, tx.data) /\ tx.chain_id_str = Number(p.chain_id)
  BY <1>1, <1>2, <1>3, <1>4, <1>5 DEF Fields
<1>. QED  BY <1>6 DEF tx

\* Its data are a short field.
LEMMA DataShort ==
  ASSUME NEW p, Fitting(p)
  PROVE  make_unsign_tx(p).data \in ShortFields
<1>1. make_unsign_tx(p).data =
        CASE p.kind = 0 -> <<>> [] p.kind = 1 -> Transfer(p.to, p.value) [] OTHER -> p.data
  BY DEF make_unsign_tx
<1>2. CASE p.kind = 0
  <2>1. make_unsign_tx(p).data = <<>>
    BY <1>1, <1>2
  <2>. QED  BY <2>1, IsShort
<1>3. CASE p.kind = 1
  <2>1. make_unsign_tx(p).data = Transfer(p.to, p.value)
    BY <1>1, <1>3
  <2>2. Transfer(p.to, p.value) \in Seq(Byte) /\ Len(Transfer(p.to, p.value)) = 68
    BY TransferShort DEF Fitting
  <2>. QED  BY <2>1, <2>2, IsShort
<1>4. CASE p.kind # 0 /\ p.kind # 1
  <2>1. make_unsign_tx(p).data = p.data
    BY <1>1, <1>4
  <2>. QED  BY <2>1, IsShort DEF Fitting
<1>. QED  BY <1>2, <1>3, <1>4

\* The others are short fields too, of at most 253 bytes.
LEMMA FieldsAre ==
  ASSUME NEW p, Fitting(p), NEW data
  PROVE  \E a, b, c, d, e \in ShortFields :
           /\ Fields(p, data) = <<a, b, c, d, e, data>>
           /\ Whole(a) /\ Whole(b) /\ Whole(c) /\ Whole(d) /\ Whole(e)
<1>. DEFINE a == Number(p.nonce)
            b == Number(p.gas_price)
            c == Number(p.gas_limit)
            d == IF p.kind = 1 THEN p.contract ELSE p.to
            e == IF p.kind = 1 THEN <<>> ELSE Number(p.value)
<1>1. a \in ShortFields /\ b \in ShortFields /\ c \in ShortFields
  <2>1. /\ a \in Seq(Byte) /\ Len(a) <= 32
        /\ b \in Seq(Byte) /\ Len(b) <= 32
        /\ c \in Seq(Byte) /\ Len(c) <= 32
    BY NumberShort DEF Fitting, Number
  <2>. HIDE DEF a, b, c
  <2>. QED  BY <2>1, IsShort
<1>2. d \in ShortFields
  BY IsShort DEF Fitting
<1>3. e \in ShortFields
  <2>1. Number(p.value) \in Seq(Byte) /\ Len(Number(p.value)) <= 32
    BY NumberShort DEF Fitting, Number
  <2>2. Number(p.value) \in ShortFields /\ <<>> \in ShortFields
    BY <2>1, IsShort
  <2>. QED  BY <2>2
<1>4. Fields(p, data) = <<a, b, c, d, e, data>>
  BY DEF Fields
<1>5. Whole(a) /\ Whole(b) /\ Whole(c) /\ Whole(d) /\ Whole(e)
  <2>1. /\ Len(a) <= 32 /\ Len(b) <= 32 /\ Len(c) <= 32 /\ Len(d) = 20
        /\ Len(Number(p.value)) <= 32 /\ Len(<<>>) <= 32
    <3>1. Len(<<>>) <= 32
      BY SMT
    <3>. QED  BY <3>1 DEF Fitting, Number
  <2>2. Len(e) <= 32
    BY <2>1
  <2>. HIDE DEF a, b, c, d, e
  <2>. QED  BY <1>1, <1>2, <1>3, <2>1, <2>2, WholeIs
<1>. HIDE DEF a, b, c, d, e
<1>. QED  BY <1>1, <1>2, <1>3, <1>4, <1>5, Zenon

\* With three more short fields, they are nine.
LEMMA FieldsShort ==
  ASSUME NEW p, Fitting(p), NEW data \in ShortFields,
         NEW g \in ShortFields, NEW h \in ShortFields, NEW i \in ShortFields
  PROVE  /\ Fields(p, data) \o <<g, h, i>> \in Seq(ShortFields)
         /\ Len(Fields(p, data) \o <<g, h, i>>) = 9
<1>1. PICK a, b, c, d, e \in ShortFields : Fields(p, data) = <<a, b, c, d, e, data>>
  BY FieldsAre, Zenon
<1>. QED  BY <1>1, NineFields

\* If the three are of at most 253 bytes, only the data can be longer.
LEMMA FieldsFit ==
  ASSUME NEW p, Fitting(p), NEW data \in ShortFields,
         NEW g \in ShortFields, NEW h \in ShortFields, NEW i \in ShortFields,
         Whole(g), Whole(h), Whole(i)
  PROVE  /\ (Fields(p, data) \o <<g, h, i>>)[6] = data
         /\ \A j \in 1..9 : j # 6 => Whole((Fields(p, data) \o <<g, h, i>>)[j])
<1>. DEFINE q == Fields(p, data) \o <<g, h, i>>
<1>1. PICK a, b, c, d, e \in ShortFields :
        /\ Fields(p, data) = <<a, b, c, d, e, data>>
        /\ Whole(a) /\ Whole(b) /\ Whole(c) /\ Whole(d) /\ Whole(e)
  BY FieldsAre, Zenon
<1>2. q = <<a, b, c, d, e, data>> \o <<g, h, i>>
  BY <1>1
<1>3. /\ q[6] = data
      /\ \A j \in 1..9 : j # 6 => q[j] \in {a, b, c, d, e, g, h, i}
  <2>. DEFINE r == <<a, b, c, d, e, data>> \o <<g, h, i>>
  <2>1. r[6] = data /\ \A j \in 1..9 : j # 6 => r[j] \in {a, b, c, d, e, g, h, i}
    BY NineFields
  <2>2. q = r
    BY <1>2
  <2>. HIDE DEF r
  <2>. QED  BY <2>1, <2>2
<1>. QED  BY <1>1, <1>3

\* What is hashed of one transaction.
LEMMA TransactionHashed ==
  ASSUME NEW p, Fitting(p), Nonzero(p)
  PROVE  LET tx == make_unsign_tx(p)
         IN  Hashed(tx) = RlpList(Fields(p, tx.data) \o <<Number(p.chain_id), <<>>, <<>>>>)
<1>. DEFINE tx == make_unsign_tx(p)
            fields == Fields(p, tx.data)
            chain == Number(p.chain_id)
<1>1. Unsigned(tx) = fields /\ tx.chain_id_str = chain
  BY UnsignedIs
<1>2. tx.data \in ShortFields
  BY DataShort
<1>3. chain \in ShortFields /\ <<>> \in ShortFields
  <2>1. chain \in Seq(Byte) /\ Len(chain) <= 32
    BY NumberShort DEF Fitting, Number
  <2>. HIDE DEF chain
  <2>. QED  BY <2>1, IsShort
<1>4. /\ fields \o <<chain, <<>>, <<>>>> \in Seq(ShortFields)
      /\ Len(fields \o <<chain, <<>>, <<>>>>) = 9
  BY <1>2, <1>3, FieldsShort
<1>. HIDE DEF tx, fields, chain
<1>5. Hashed(tx) = RlpList(fields \o <<chain, <<>>, <<>>>>)
  BY <1>1, <1>4, HashedIs
<1>. QED  BY <1>5 DEF tx, fields, chain

\* The v of a chain to 109 takes one byte.
LEMMA VTakesAByte ==
  ASSUME NEW c \in Nat, c <= 109, NEW k \in {0, 1}
  PROVE  /\ k + 2 * c + 35 \in Nat /\ k + 2 * c + 35 # 0 /\ k + 2 * c + 35 <= 255
         /\ (k + 2 * c + 35) % 256 = k + 2 * c + 35
BY SMT

\* What is sent of it, on a chain whose v takes one byte.
LEMMA TransactionSent ==
  ASSUME NEW p, Fitting(p), Nonzero(p), p.chain_id <= 109, NEW k \in {0, 1},
         NEW r \in Seq(Byte), Len(r) = 32
  PROVE  LET tx == make_unsign_tx(p)
             signed == RlpList(Fields(p, tx.data) \o
                         <<Number(k + 2 * p.chain_id + 35), NoZeros(r), NoZeros(r)>>)
             list == Assembled(tx, SignatureV(k, p.chain_id), r, r)
             s == RemoveLeadingZeros(r)
         IN  /\ Len(tx.data) <= 253 /\ LeadingZeros(r) < 2 => list = signed
             /\ Len(list) = Announced(list) /\ (s = <<>> \/ s[1] # 0) => list = signed
<1>. DEFINE tx == make_unsign_tx(p)
            v == k + 2 * p.chain_id + 35
            fields == Fields(p, tx.data) \o <<Number(v), NoZeros(r), NoZeros(r)>>
            list == Assembled(tx, SignatureV(k, p.chain_id), r, r)
            s == RemoveLeadingZeros(r)
<1>1. v \in Nat /\ v # 0 /\ v <= 255 /\ v % 256 = v
  <2>1. p.chain_id \in Nat
    BY DEF Fitting
  <2>. QED  BY <2>1, VTakesAByte
<1>2. SignatureV(k, p.chain_id) = v
  BY <1>1 DEF SignatureV
<1>3. Unsigned(tx) = Fields(p, tx.data)
  BY UnsignedIs
<1>. HIDE DEF v
<1>4. RemoveLeadingZeros(<<v>>) = Number(v)
  BY <1>1, OneByteKept DEF Number
<1>5. Number(v) \in ShortFields /\ Whole(Number(v))
  <2>1. BigEndian[v] = <<v>>
    BY <1>1, ShortBytes, SMT
  <2>2. BigEndian[v] \in Seq(Byte)
    BY <1>1, BytesOf
  <2>3. Len(<<v>>) <= 32
    OBVIOUS
  <2>4. Number(v) \in ShortFields
    BY <2>1, <2>2, <2>3, IsShort DEF Number
  <2>. QED  BY <2>1, <2>3, <2>4, WholeIs DEF Number
<1>6. NoZeros(r) \in ShortFields /\ Whole(NoZeros(r))
  <2>1. NoZeros(r) \in Seq(Byte) /\ Len(NoZeros(r)) <= 32
    BY NoZerosShort
  <2>2. NoZeros(r) \in ShortFields
    BY <2>1, IsShort
  <2>. QED  BY <2>1, <2>2, WholeIs
<1>7. tx.data \in ShortFields
  BY DataShort
<1>8. /\ fields \in Seq(ShortFields) /\ Len(fields) = 9
      /\ fields[6] = tx.data /\ \A j \in 1..9 : j # 6 => Whole(fields[j])
  <2>1. fields \in Seq(ShortFields) /\ Len(fields) = 9
    BY <1>5, <1>6, <1>7, FieldsShort
  <2>. DEFINE a == Number(v)
              b == NoZeros(r)
              d == tx.data
              q == Fields(p, d) \o <<a, b, b>>
  <2>2. q = fields
    OBVIOUS
  <2>3. /\ a \in ShortFields /\ b \in ShortFields /\ d \in ShortFields
        /\ Whole(a) /\ Whole(b)
    BY <1>5, <1>6, <1>7
  <2>. HIDE DEF a, b, d
  <2>4. q[6] = d /\ \A j \in 1..9 : j # 6 => Whole(q[j])
    BY <2>3, FieldsFit
  <2>. HIDE DEF q
  <2>. QED  BY <2>1, <2>2, <2>4 DEF d
<1>9. ASSUME s = NoZeros(r) PROVE list = wallet_encode_list(fields)
  <2>1. list = wallet_encode_list(Unsigned(tx) \o <<RemoveLeadingZeros(<<v>>), s, s>>)
    BY <1>2 DEF Assembled
  <2>. HIDE DEF tx, s, list
  <2>. QED  BY <1>3, <1>4, <1>9, <2>1
<1>. HIDE DEF tx, fields, list
<1>10. ASSUME s = NoZeros(r), Whole(tx.data) PROVE list = RlpList(fields)
  <2>1. \A j \in 1..9 : Whole(fields[j])
    BY <1>8, <1>10
  <2>. QED  BY <1>8, <1>9, <1>10, <2>1, ListSent
<1>11. ASSUME s = NoZeros(r), ~Whole(tx.data) PROVE Len(list) # Announced(list)
  BY <1>8, <1>9, <1>11, ListCut
<1>12. /\ LeadingZeros(r) < 2 => s = NoZeros(r)
       /\ s = <<>> \/ s[1] # 0 => s = NoZeros(r)
  BY ZerosRemoved, ZerosLeft
<1>13. Whole(tx.data) <=> Len(tx.data) <= 253
  BY DEF Whole
<1>. HIDE DEF s
<1>14. /\ Len(tx.data) <= 253 /\ LeadingZeros(r) < 2 => list = RlpList(fields)
       /\ Len(list) = Announced(list) /\ (s = <<>> \/ s[1] # 0) => list = RlpList(fields)
  BY <1>10, <1>11, <1>12, <1>13
<1>. QED  BY <1>14 DEF tx, v, fields, list, s

\* EncodesAsRlp for all payments, signatures and chains: sign_tx (EthApi.cpp) hashes the
\* encoding Ethereum defines of a transaction, and wallet_ethereum_assemble_tx (RLP.c) sends
\* the encoding of the same one, or one that no node takes.
THEOREM EncodesAsRlpHolds == CodecSpec => []EncodesAsRlp
<1>1. CodecTypes => EncodesAsRlp
  <2>. SUFFICES ASSUME CodecTypes PROVE EncodesAsRlp
    OBVIOUS
  <2>. DEFINE p == payment
              r == half
              tx == make_unsign_tx(p)
              fields == Fields(p, tx.data)
              numbers == {"gas_price", "gas_limit", "chain_id"}
                         \cup (IF p.kind = 1 THEN {} ELSE {"value"})
                         \cup (IF p.kind = 2 THEN {"nonce"} ELSE {})
              signed == RlpList(fields \o
                          <<Number(recId + 2 * p.chain_id + 35), NoZeros(r), NoZeros(r)>>)
              list == Assembled(tx, SignatureV(recId, p.chain_id), r, r)
              s == RemoveLeadingZeros(r)
  <2>1. Fitting(p) /\ recId \in {0, 1}
    BY PaymentsFit DEF CodecTypes
  <2>2. r \in Seq(Byte) /\ Len(r) = 32
    <3>1. r \in [1..32 -> Byte]
      BY PaymentAssumption DEF CodecTypes
    <3>2. 32 \in Nat
      BY SMT
    <3>. HIDE DEF Byte, r
    <3>. QED  BY <3>1, <3>2, FunctionIsSeq
  <2>3. tx.to = IF p.kind = 1 THEN p.contract ELSE p.to
    BY DEF make_unsign_tx
  <2>4. fields = <<Number(p.nonce), Number(p.gas_price), Number(p.gas_limit), tx.to,
                   IF p.kind = 1 THEN <<>> ELSE Number(p.value), tx.data>>
    BY <2>3 DEF Fields
  <2>5. ASSUME \A n \in numbers : p[n] # 0 PROVE Nonzero(p)
    BY <2>5 DEF Nonzero
  <2>6. (\A n \in numbers : p[n] # 0) =>
          /\ Hashed(tx) = RlpList(fields \o <<Number(p.chain_id), <<>>, <<>>>>)
          /\ p.chain_id <= 109 =>
               /\ Len(tx.data) <= 253 /\ LeadingZeros(r) < 2 => list = signed
               /\ Len(list) = Announced(list) /\ (s = <<>> \/ s[1] # 0) => list = signed
    <3>. HIDE DEF numbers, p, r
    <3>. QED  BY <2>1, <2>2, <2>5, TransactionHashed, TransactionSent
  <2>. HIDE DEF fields
  <2>. QED  BY <2>4, <2>6 DEF EncodesAsRlp
<1>. QED  BY <1>1, CodecTypesHold, PTL

(***************************************************************************)
(* The names of EOS: powers of 2, what the characters count for, and the   *)
(* second theorem about the codecs.                                        *)
(***************************************************************************)
\* The k-th power of 2, by a function f that has the one before.
Shift1(f, k) == IF k = 0 THEN 1 ELSE 2 * f[k - 1]
IsShift(n, f) == f = [k \in 0..n |-> Shift1(f, k)]

\* There is such a function for every number.
LEMMA ShiftExists == ASSUME NEW n \in Nat PROVE \E f : IsShift(n, f)
<1>. DEFINE Has(m) == \E f : IsShift(m, f)
            T == {m \in Nat : ~Has(m)}
<1>1. ASSUME NEW m \in T, \A k \in T : m <= k PROVE FALSE
  <2>1. CASE m = 0
    <3>. DEFINE f == [k \in 0..0 |-> 1]
    <3>1. ASSUME NEW k \in 0..0 PROVE Shift1(f, k) = 1
      BY DEF Shift1
    <3>2. IsShift(0, f)
      BY <3>1 DEF IsShift
    <3>. QED  BY <1>1, <2>1, <3>2
  <2>2. CASE m # 0
    <3>1. m \in Nat /\ m - 1 \in Nat /\ m - 1 < m
      BY <2>2
    <3>2. m - 1 \notin T
      <4>. HIDE DEF T
      <4>. QED  BY <1>1, <3>1
    <3>3. PICK f : IsShift(m - 1, f)
      BY <3>1, <3>2
    <3>. DEFINE h == [k \in 0..m |-> Shift1(f, k)]
    <3>4. ASSUME NEW k \in 0..m PROVE Shift1(f, k) = Shift1(h, k)
      <4>1. CASE k = 0
        BY <4>1 DEF Shift1
      <4>2. CASE k # 0
        <5>1. k - 1 \in 0..m /\ k - 1 \in 0..(m - 1)
          BY <3>1, <4>2
        <5>2. f[k - 1] = Shift1(f, k - 1)
          BY <3>3, <5>1 DEF IsShift
        <5>3. h[k - 1] = Shift1(f, k - 1)
          BY <5>1
        <5>. QED  BY <4>2, <5>2, <5>3 DEF Shift1
      <4>. QED  BY <4>1, <4>2
    <3>5. IsShift(m, h)
      BY <3>4 DEF IsShift
    <3>. QED  BY <1>1, <3>5
  <2>. QED  BY <2>1, <2>2
<1>2. T = {}
  <2>1. T \subseteq Nat
    OBVIOUS
  <2>. HIDE DEF T
  <2>. QED  BY <1>1, <2>1, LeastNat
<1>. QED  BY <1>2

\* Shift has the powers of 2.
LEMMA ShiftIs ==
  /\ Shift[0] = 1
  /\ \A k \in 1..64 : Shift[k] = 2 * Shift[k - 1]
<1>1. Shift = CHOOSE f : IsShift(64, f)
  BY DEF Shift, IsShift, Shift1
<1>2. \E f : IsShift(64, f)
  <2>1. 64 \in Nat
    BY SMT
  <2>. QED  BY <2>1, ShiftExists
<1>. DEFINE f == Shift
<1>3. IsShift(64, f)
  BY <1>1, <1>2
<1>. HIDE DEF f
<1>4. \A k \in 0..64 : f[k] = Shift1(f, k)
  BY <1>3 DEF IsShift
<1>5. f[0] = 1 /\ \A k \in 1..64 : f[k] = 2 * f[k - 1]
  BY <1>4 DEF Shift1
<1>. QED  BY <1>5 DEF f

\* They are not 0.
LEMMA ShiftPositive == \A k \in 0..64 : Shift[k] \in Nat /\ Shift[k] # 0
<1>. DEFINE f == Shift
            Good(k) == f[k] \in Nat /\ f[k] # 0
            T == {k \in 0..64 : ~Good(k)}
<1>1. f[0] = 1 /\ \A k \in 1..64 : f[k] = 2 * f[k - 1]
  BY ShiftIs
<1>. HIDE DEF f
<1>2. ASSUME NEW k \in T, \A j \in T : k <= j PROVE FALSE
  <2>1. k \in 0..64 /\ ~Good(k) /\ k # 0
    BY <1>1, <1>2
  <2>2. k - 1 \in 0..64 /\ k \in 1..64 /\ ~(k <= k - 1)
    BY <2>1
  <2>3. k - 1 \notin T
    <3>. HIDE DEF T
    <3>. QED  BY <1>2, <2>2
  <2>4. Good(k - 1) /\ f[k] = 2 * f[k - 1]
    BY <1>1, <2>2, <2>3
  <2>. QED  BY <2>1, <2>4
<1>3. T = {}
  <2>1. T \subseteq Nat
    OBVIOUS
  <2>. HIDE DEF T
  <2>. QED  BY <1>2, <2>1, LeastNat
<1>. QED  BY <1>3 DEF f

\* What the character at place i counts for.
Place(i) == Shift[Bits - 5 * i]

\* A place counts for 32 times as much as the next, and the last of five bits for 16.
LEMMA PlaceIs ==
  /\ MAX_NAME_IDX \in Nat /\ MAX_NAME_IDX # 0
  /\ \A i \in 0..MAX_NAME_IDX : Place(i) \in Nat /\ Place(i) # 0
  /\ \A i \in 1..MAX_NAME_IDX : Place(i - 1) = 32 * Place(i)
  /\ Place(MAX_NAME_IDX) = 16
  /\ Place(0) = Shift[Bits]
<1>. DEFINE M == MAX_NAME_IDX
            f == Shift
<1>1. M \in 1..12
  BY NameAssumption
<1>2. /\ f[0] = 1 /\ \A k \in 1..64 : f[k] = 2 * f[k - 1]
      /\ \A k \in 0..64 : f[k] \in Nat /\ f[k] # 0
  BY ShiftIs, ShiftPositive
<1>. HIDE DEF f, M
<1>3. \A k \in 0..59 : f[k + 5] = 32 * f[k]
  <2>. TAKE k \in 0..59
  <2>1. /\ k + 1 \in 1..64 /\ k + 2 \in 1..64 /\ k + 3 \in 1..64 /\ k + 4 \in 1..64 /\ k + 5 \in 1..64
        /\ k + 1 - 1 = k /\ k + 2 - 1 = k + 1 /\ k + 3 - 1 = k + 2 /\ k + 4 - 1 = k + 3
        /\ k + 5 - 1 = k + 4 /\ k \in 0..64
    BY SMT
  <2>2. /\ f[k + 1] = 2 * f[k] /\ f[k + 2] = 2 * f[k + 1] /\ f[k + 3] = 2 * f[k + 2]
        /\ f[k + 4] = 2 * f[k + 3] /\ f[k + 5] = 2 * f[k + 4] /\ f[k] \in Nat
    BY <1>2, <2>1
  <2>. QED  BY <2>2, SMT
<1>4. f[4] = 16
  <2>1. f[1] = 2 * f[0] /\ f[2] = 2 * f[1] /\ f[3] = 2 * f[2] /\ f[4] = 2 * f[3]
    BY <1>2
  <2>. QED  BY <1>2, <2>1, SMT
<1>5. \A i \in 0..M : Bits - 5 * i \in 0..64
  BY <1>1, SMT DEF Bits, M
<1>6. \A i \in 1..M : Bits - 5 * i \in 0..59 /\ Bits - 5 * (i - 1) = (Bits - 5 * i) + 5
  BY <1>1, SMT DEF Bits, M
<1>7. Bits - 5 * M = 4 /\ Bits - 5 * 0 = Bits
  BY <1>1, SMT DEF Bits, M
<1>8. \A i \in 0..M : Place(i) = f[Bits - 5 * i]
  BY DEF Place, f
<1>9. \A i \in 0..M : Place(i) \in Nat /\ Place(i) # 0
  BY <1>2, <1>5, <1>8
<1>10. \A i \in 1..M : Place(i - 1) = 32 * Place(i)
  <2>. TAKE i \in 1..M
  <2>1. i \in 0..M /\ i - 1 \in 0..M
    BY <1>1
  <2>2. Place(i - 1) = f[Bits - 5 * (i - 1)] /\ Place(i) = f[Bits - 5 * i]
    BY <1>8, <2>1
  <2>. DEFINE k == Bits - 5 * i
  <2>3. k \in 0..59 /\ Bits - 5 * (i - 1) = k + 5
    BY <1>6
  <2>. HIDE DEF k
  <2>4. f[k + 5] = 32 * f[k]
    BY <1>3, <2>3
  <2>. QED  BY <2>2, <2>3, <2>4 DEF k
<1>11. Place(M) = 16 /\ Place(0) = f[Bits]
  <2>1. M \in 0..M /\ 0 \in 0..M
    BY <1>1
  <2>. QED  BY <1>4, <1>7, <1>8, <2>1
<1>12. M \in Nat /\ M # 0
  BY <1>1
<1>. QED  BY <1>9, <1>10, <1>11, <1>12 DEF M, f

\* A number of which a multiple of p is taken, and what remains is less.
LEMMA DividedBy ==
  ASSUME NEW a \in Int, NEW p \in Nat, p # 0, NEW r \in Nat, r < p
  PROVE  (a * p + r) \div p = a
BY SMT

\* What a character is packed into and read back from.
LEMMA LowFive ==
  ASSUME NEW a \in Int, NEW s \in 0..31
  PROVE  (32 * a + s) % 32 = s
BY SMT

\* The same of the last character.
LEMMA LowFour ==
  ASSUME NEW a \in Int, NEW s \in 0..15
  PROVE  (a * 16 + s) % 16 = s
BY SMT

\* What the places to the i-th add up to, and what is left of all of them.
Weights(s) == [i \in 1..MAX_NAME_IDX |-> Symbol(s, i) * Place(i)]
First(s, i) == Sums(Weights(s), 1..MAX_NAME_IDX)[1..i]
FinalFour(s) == Symbol(s, MAX_NAME_IDX + 1) % 16

\* A character has five bits.
LEMMA SymbolIs ==
  ASSUME NEW s \in Seq(Symbols), NEW i \in Nat, i # 0
  PROVE  Symbol(s, i) \in 0..31
<1>1. CASE i # 0 /\ i <= Len(s)
  <2>1. \A j \in 1..Len(s) : s[j] \in Symbols
    BY EachOf
  <2>2. i \in 1..Len(s)
    <3>. DEFINE n == Len(s)
    <3>1. n \in Nat
      <4>. HIDE DEF Symbols
      <4>. QED  OBVIOUS
    <3>. HIDE DEF n
    <3>. QED  BY <1>1, <3>1 DEF n
  <2>3. Symbol(s, i) = s[i]
    BY <1>1 DEF Symbol
  <2>4. s[i] \in Symbols
    BY <2>1, <2>2
  <2>. QED  BY <2>3, <2>4 DEF Symbols
<1>2. CASE ~(i <= Len(s))
  <2>1. Symbol(s, i) = 0
    BY <1>2 DEF Symbol
  <2>. QED  BY <2>1
<1>. QED  BY <1>1, <1>2

\* The sum that is packed, character by character.
LEMMA FirstIs ==
  ASSUME NEW s \in Seq(Symbols)
  PROVE  /\ First(s, 0) = 0
         /\ \A i \in 0..MAX_NAME_IDX : First(s, i) \in Nat
         /\ \A i \in 1..MAX_NAME_IDX : First(s, i) = Symbol(s, i) * Place(i) + First(s, i - 1)
         /\ name_string_to_long(s) = Signed(First(s, MAX_NAME_IDX) + FinalFour(s))
<1>. DEFINE M == MAX_NAME_IDX
            w == Weights(s)
<1>1. M \in Nat
  BY PlaceIs
<1>2. DOMAIN w = 1..M /\ \A i \in 1..M : w[i] = Symbol(s, i) * Place(i)
  BY DEF Weights
<1>3. \A i \in 1..M : w[i] \in Nat
  <2>. TAKE i \in 1..M
  <2>. DEFINE a == Symbol(s, i)
              b == Place(i)
  <2>1. a \in Nat /\ b \in Nat
    <3>1. a \in 0..31
      <4>1. i \in Nat /\ i # 0
        BY <1>1
      <4>. QED  BY <4>1, SymbolIs, Zenon
    <3>2. b \in Nat
      BY <1>1, PlaceIs
    <3>. HIDE DEF a, b
    <3>. QED  BY <3>1, <3>2
  <2>2. w[i] = a * b
    BY <1>2
  <2>3. a * b \in Nat
    <3>. HIDE DEF a, b
    <3>. QED  BY <2>1, SMT
  <2>. QED  BY <2>2, <2>3
<1>4. name_string_to_long(s) = Signed(SumFunction(w) + FinalFour(s))
  BY DEF name_string_to_long, Weights, Place, FinalFour
<1>5. SumFunction(w) = Sums(w, 1..M)[1..M]
  BY <1>2, SumIs
<1>. HIDE DEF w, M
<1>6. /\ Sums(w, 1..M)[1..0] = 0
      /\ \A i \in 0..M : Sums(w, 1..M)[1..i] \in Nat
      /\ \A i \in 1..M : Sums(w, 1..M)[1..i] = w[i] + Sums(w, 1..M)[1..(i - 1)]
  BY <1>1, <1>3, SumFirst
<1>7. \A i : First(s, i) = Sums(w, 1..M)[1..i]
  BY DEF First, w, M
<1>8. /\ First(s, 0) = 0
      /\ \A i \in 0..M : First(s, i) \in Nat
      /\ \A i \in 1..M : First(s, i) = Symbol(s, i) * Place(i) + First(s, i - 1)
  BY <1>2, <1>6, <1>7
<1>9. name_string_to_long(s) = Signed(First(s, M) + FinalFour(s))
  BY <1>4, <1>5, <1>7
<1>. QED  BY <1>8, <1>9 DEF M

\* The places to the i-th are a multiple of what the i-th counts for.
LEMMA UpperIs ==
  ASSUME NEW s \in Seq(Symbols)
  PROVE  \A i \in 0..MAX_NAME_IDX : \E a \in Nat : First(s, i) = a * Place(i)
<1>. DEFINE M == MAX_NAME_IDX
            Good(i) == \E a \in Nat : First(s, i) = a * Place(i)
            T == {i \in 0..M : ~Good(i)}
<1>1. M \in Nat
  BY PlaceIs
<1>2. Good(0)
  <2>1. First(s, 0) = 0 /\ Place(0) \in Nat
    BY <1>1, FirstIs, PlaceIs
  <2>2. 0 * Place(0) = 0
    BY <2>1
  <2>. QED  BY <2>1, <2>2
<1>3. ASSUME NEW i \in 1..M, Good(i - 1) PROVE Good(i)
  <2>1. PICK a \in Nat : First(s, i - 1) = a * Place(i - 1)
    BY <1>3
  <2>. DEFINE c == Symbol(s, i)
              p == Place(i)
  <2>2. First(s, i) = c * p + First(s, i - 1)
    BY FirstIs
  <2>3. Place(i - 1) = 32 * p
    BY PlaceIs
  <2>4. c \in 0..31
    <3>1. i \in Nat /\ i # 0
      BY <1>1
    <3>. QED  BY <3>1, SymbolIs, Zenon
  <2>5. p \in Nat
    BY <1>1, PlaceIs
  <2>. HIDE DEF c, p
  <2>6. c * p + a * (32 * p) = (32 * a + c) * p /\ 32 * a + c \in Nat
    BY <2>4, <2>5, SMT
  <2>7. First(s, i) = (32 * a + c) * p
    BY <2>1, <2>2, <2>3, <2>6
  <2>. QED  BY <2>6, <2>7 DEF p
<1>. HIDE DEF Good
<1>4. ASSUME NEW i \in T, \A j \in T : i <= j PROVE FALSE
  <2>1. i \in 0..M /\ ~Good(i) /\ i # 0
    BY <1>2, <1>4
  <2>2. i - 1 \in 0..M /\ i \in 1..M /\ ~(i <= i - 1)
    BY <1>1, <2>1
  <2>3. i - 1 \notin T
    <3>. HIDE DEF T
    <3>. QED  BY <1>4, <2>2
  <2>. QED  BY <1>3, <2>1, <2>2, <2>3
<1>5. T = {}
  <2>1. T \subseteq Nat
    BY <1>1
  <2>. HIDE DEF T
  <2>. QED  BY <1>4, <2>1, LeastNat
<1>. QED  BY <1>5 DEF Good

\* What is left is less than the i-th place counts for.
LEMMA LowerIs ==
  ASSUME NEW s \in Seq(Symbols), NEW v, v = First(s, MAX_NAME_IDX) + FinalFour(s)
  PROVE  \A i \in 0..MAX_NAME_IDX :
           v - First(s, i) \in Nat /\ v - First(s, i) < Place(i)
<1>. DEFINE M == MAX_NAME_IDX
            Good(i) == v - First(s, i) \in Nat /\ v - First(s, i) < Place(i)
            T == {k \in 0..M : ~Good(M - k)}
<1>1. M \in Nat
  BY PlaceIs
<1>2. Good(M)
  <2>. DEFINE a == First(s, M)
              l == FinalFour(s)
  <2>1. a \in Nat /\ Place(M) = 16
    BY <1>1, FirstIs, PlaceIs
  <2>2. l \in Nat /\ l < 16
    <3>. DEFINE c == Symbol(s, M + 1)
    <3>1. c \in 0..31
      <4>1. M + 1 \in Nat /\ M + 1 # 0
        BY <1>1
      <4>. QED  BY <4>1, SymbolIs, Zenon
    <3>. HIDE DEF c
    <3>2. c % 16 \in Nat /\ c % 16 < 16
      BY <3>1, SMT
    <3>. QED  BY <3>2 DEF FinalFour, c
  <2>3. v = a + l
    OBVIOUS
  <2>. HIDE DEF a, l
  <2>4. v - a = l
    BY <2>1, <2>2, <2>3
  <2>. QED  BY <2>1, <2>2, <2>4 DEF a
<1>3. ASSUME NEW i \in 1..M, Good(i) PROVE Good(i - 1)
  <2>. DEFINE c == Symbol(s, i)
              p == Place(i)
              a == First(s, i)
              b == First(s, i - 1)
  <2>1. a = c * p + b
    BY FirstIs
  <2>2. Place(i - 1) = 32 * p
    BY PlaceIs
  <2>3. c \in 0..31
    <3>1. i \in Nat /\ i # 0
      BY <1>1
    <3>. QED  BY <3>1, SymbolIs, Zenon
  <2>4. p \in Nat /\ i - 1 \in 0..M
    BY <1>1, PlaceIs
  <2>5. a \in Nat /\ b \in Nat
    BY <1>1, <2>4, FirstIs
  <2>6. v - a \in Nat /\ v - a < p
    BY <1>3
  <2>7. v \in Int
    <3>1. v = First(s, M) + FinalFour(s) /\ First(s, M) \in Nat
      BY <1>1, FirstIs
    <3>2. FinalFour(s) \in Int
      <4>1. Symbol(s, M + 1) \in 0..31
        <5>1. M + 1 \in Nat /\ M + 1 # 0
          BY <1>1
        <5>. QED  BY <5>1, SymbolIs, Zenon
      <4>. DEFINE d == Symbol(s, M + 1)
      <4>2. d \in 0..31
        BY <4>1
      <4>. HIDE DEF d
      <4>3. d % 16 \in Int
        BY <4>2, SMT
      <4>. QED  BY <4>3 DEF FinalFour, d
    <3>. QED  BY <3>1, <3>2
  <2>. HIDE DEF c, p, a, b
  <2>8. c * p \in Nat /\ c * p <= 31 * p
    BY <2>3, <2>4, SMT
  <2>9. v - b = (v - a) + c * p
    BY <2>1, <2>5, <2>7, <2>8, SMT
  <2>10. v - b \in Nat /\ v - b < 32 * p
    BY <2>4, <2>6, <2>8, <2>9, SMT
  <2>. QED  BY <2>2, <2>10 DEF b
<1>. HIDE DEF Good
<1>4. ASSUME NEW k \in T, \A j \in T : k <= j PROVE FALSE
  <2>1. k \in 0..M /\ ~Good(M - k) /\ k # 0
    BY <1>1, <1>2, <1>4
  <2>2. k - 1 \in 0..M /\ M - k + 1 \in 1..M /\ ~(k <= k - 1)
        /\ M - (k - 1) = M - k + 1 /\ (M - k + 1) - 1 = M - k
    BY <1>1, <2>1
  <2>3. k - 1 \notin T
    <3>. HIDE DEF T
    <3>. QED  BY <1>4, <2>2
  <2>4. Good(M - k + 1)
    BY <2>2, <2>3
  <2>. QED  BY <1>3, <2>1, <2>2, <2>4
<1>5. T = {}
  <2>1. T \subseteq Nat
    BY <1>1
  <2>. HIDE DEF T
  <2>. QED  BY <1>4, <2>1, LeastNat
<1>6. ASSUME NEW i \in 0..M PROVE Good(i)
  <2>1. M - i \in 0..M /\ M - (M - i) = i
    BY <1>1
  <2>. QED  BY <1>5, <2>1
<1>. QED  BY <1>6 DEF Good

\* A sign is a multiple of 32 of what a place counts for.
LEMMA SignIs ==
  \A i \in 1..MAX_NAME_IDX : \E c \in Nat : Place(0) = (32 * c) * Place(i)
<1>. DEFINE M == MAX_NAME_IDX
            Good(i) == \E c \in Nat : Place(0) = (32 * c) * Place(i)
            T == {i \in 1..M : ~Good(i)}
<1>1. M \in Nat /\ \A i \in 0..M : Place(i) \in Nat
  BY PlaceIs
<1>2. \A i \in 1..M : Place(i - 1) = 32 * Place(i)
  BY PlaceIs
<1>3. ASSUME 1 \in 1..M PROVE Good(1)
  <2>1. Place(1 - 1) = 32 * Place(1) /\ 1 - 1 = 0 /\ Place(1) \in Nat
    BY <1>1, <1>2, <1>3
  <2>2. Place(0) = (32 * 1) * Place(1)
    BY <2>1
  <2>. QED  BY <2>2
<1>4. ASSUME NEW i \in 1..M, i # 1, Good(i - 1) PROVE Good(i)
  <2>1. PICK c \in Nat : Place(0) = (32 * c) * Place(i - 1)
    BY <1>4
  <2>. DEFINE p == Place(i)
  <2>2. Place(i - 1) = 32 * p /\ p \in Nat
    BY <1>1, <1>2
  <2>. HIDE DEF p
  <2>3. (32 * c) * (32 * p) = (32 * (32 * c)) * p /\ 32 * c \in Nat
    BY <2>2, SMT
  <2>4. Place(0) = (32 * (32 * c)) * p
    BY <2>1, <2>2, <2>3
  <2>. QED  BY <2>3, <2>4 DEF p
<1>. HIDE DEF Good
<1>5. ASSUME NEW i \in T, \A j \in T : i <= j PROVE FALSE
  <2>1. i \in 1..M /\ ~Good(i) /\ i # 1
    BY <1>3, <1>5
  <2>2. i - 1 \in 1..M /\ ~(i <= i - 1)
    BY <1>1, <2>1
  <2>3. i - 1 \notin T
    <3>. HIDE DEF T
    <3>. QED  BY <1>5, <2>2
  <2>. QED  BY <1>4, <2>1, <2>2, <2>3
<1>6. T = {}
  <2>1. T \subseteq Nat
    BY <1>1
  <2>. HIDE DEF T
  <2>. QED  BY <1>5, <2>1, LeastNat
<1>. QED  BY <1>6 DEF Good

\* What is unpacked from a name's number are its characters.
LEMMA UnpackedIs ==
  ASSUME NEW s \in Seq(Symbols)
  PROVE  LET raw == Unpacked(name_string_to_long(s))
         IN  /\ DOMAIN raw = 1..MAX_NAME_IDX + 1
             /\ \A i \in 1..MAX_NAME_IDX : raw[i] = Symbol(s, i)
             /\ raw[MAX_NAME_IDX + 1] = Symbol(s, MAX_NAME_IDX + 1) % 16
<1>. DEFINE M == MAX_NAME_IDX
            v == First(s, M) + FinalFour(s)
            val == name_string_to_long(s)
            raw == Unpacked(val)
            l == FinalFour(s)
<1>1. M \in Nat /\ M # 0 /\ Place(M) = 16 /\ Place(0) = Shift[Bits]
      /\ \A i \in 0..M : Place(i) \in Nat /\ Place(i) # 0
  BY PlaceIs
<1>2. val = Signed(v)
  BY FirstIs
<1>3. l \in 0..15
  <2>. DEFINE c == Symbol(s, M + 1)
  <2>1. c \in 0..31
    <3>1. M + 1 \in Nat /\ M + 1 # 0
      BY <1>1
    <3>. QED  BY <3>1, SymbolIs, Zenon
  <2>. HIDE DEF c
  <2>2. c % 16 \in 0..15
    BY <2>1, SMT
  <2>. QED  BY <2>2 DEF FinalFour, c
<1>4. \A i \in 0..M : First(s, i) \in Nat
  BY FirstIs
<1>5. v \in Nat
  <2>1. First(s, M) \in Nat
    BY <1>1, <1>4
  <2>. HIDE DEF l
  <2>2. v = First(s, M) + l
    BY DEF l
  <2>. QED  BY <1>3, <2>1, <2>2
<1>6. val = v \/ val = v - Place(0)
  BY <1>1, <1>2 DEF Signed
<1>7. /\ DOMAIN raw = 1..M + 1
      /\ \A i \in 1..M : raw[i] = (val \div Place(i)) % 32
      /\ raw[M + 1] = val % 16
  <2>1. \A i \in 1..M : i \in 1..M + 1 /\ i # M + 1
    BY <1>1
  <2>2. M + 1 \in 1..M + 1
    BY <1>1
  <2>. QED  BY <2>1, <2>2 DEF Unpacked, Place
<1>8. v = First(s, M) + l
  OBVIOUS
<1>9. \A i \in 0..M : v - First(s, i) \in Nat /\ v - First(s, i) < Place(i)
  BY LowerIs
<1>. HIDE DEF v, val, raw, l, M
<1>10. ASSUME NEW i \in 1..M PROVE raw[i] = Symbol(s, i)
  <2>. DEFINE p == Place(i)
              a == First(s, i)
              b == First(s, i - 1)
              r == v - a
              c == Symbol(s, i)
  <2>1. i \in 0..M /\ i - 1 \in 0..M /\ i \in Nat /\ i # 0
    BY <1>1
  <2>2. p \in Nat /\ p # 0 /\ a \in Nat /\ r \in Nat /\ r < p
    BY <1>1, <1>4, <1>9, <2>1
  <2>3. c \in 0..31
    BY <2>1, SymbolIs, Zenon
  <2>4. a = c * p + b
    BY FirstIs DEF M
  <2>5. PICK d \in Nat : b = d * (32 * p)
    <3>1. PICK d \in Nat : b = d * Place(i - 1)
      BY <2>1, UpperIs DEF M
    <3>2. Place(i - 1) = 32 * p
      BY PlaceIs DEF M
    <3>. QED  BY <3>1, <3>2
  <2>6. PICK e \in Nat : Place(0) = (32 * e) * p
    BY SignIs DEF M
  <2>7. raw[i] = (val \div p) % 32
    BY <1>7
  <2>8. v = a + r
    BY <1>5, <2>2
  <2>. HIDE DEF p, a, b, r, c
  <2>9. a = (32 * d + c) * p
    <3>1. c * p + d * (32 * p) = (32 * d + c) * p
      BY <2>2, <2>3, SMT
    <3>. QED  BY <2>4, <2>5, <3>1
  <2>10. CASE val = v
    <3>1. val = (32 * d + c) * p + r /\ 32 * d + c \in Int
      BY <2>3, <2>8, <2>9, <2>10
    <3>2. val \div p = 32 * d + c
      BY <2>2, <3>1, DividedBy
    <3>3. (32 * d + c) % 32 = c /\ d \in Int
      BY <2>3, LowFive
    <3>. QED  BY <2>7, <3>2, <3>3 DEF c
  <2>11. CASE val = v - Place(0)
    <3>. DEFINE f == d - e
    <3>1. f \in Int /\ 32 * f + c \in Int
      BY <2>3
    <3>2. (32 * d + c) * p - (32 * e) * p = (32 * f + c) * p
      BY <2>2, <2>3, SMT
    <3>3. val = (a + r) - ((32 * e) * p)
      <4>1. val = (a + r) - Place(0)
        BY <2>8, <2>11
      <4>. QED  BY <2>6, <4>1, Zenon
    <3>4. val = (32 * f + c) * p + r
      <4>. DEFINE x == (32 * d + c) * p
                  y == (32 * e) * p
                  z == (32 * f + c) * p
      <4>1. x - y = z
        BY <3>2, Zenon
      <4>2. a = x
        BY <2>9, Zenon
      <4>3. val = (a + r) - y
        BY <3>3, Zenon
      <4>4. x \in Int /\ y \in Int /\ z \in Int /\ r \in Int
        BY <2>2, <2>3, <3>1, SMT
      <4>. HIDE DEF x, y, z
      <4>5. val = z + r
        BY <4>1, <4>2, <4>3, <4>4
      <4>. QED  BY <4>5 DEF z
    <3>. HIDE DEF f
    <3>5. val \div p = 32 * f + c
      BY <2>2, <3>1, <3>4, DividedBy
    <3>. QED  BY <2>3, <2>7, <3>1, <3>5, LowFive DEF c
  <2>. QED  BY <1>6, <2>10, <2>11
<1>11. raw[M + 1] = l
  <2>1. M \in 0..M /\ M \in 1..M
    BY <1>1
  <2>2. PICK a \in Nat : First(s, M) = a * 16
    <3>1. PICK a \in Nat : First(s, M) = a * Place(M)
      BY <2>1, UpperIs DEF M
    <3>. QED  BY <1>1, <3>1
  <2>3. PICK e \in Nat : Place(0) = (32 * e) * 16
    <3>1. PICK e \in Nat : Place(0) = (32 * e) * Place(M)
      BY <2>1, SignIs DEF M
    <3>. QED  BY <1>1, <3>1
  <2>4. CASE val = v
    <3>1. val = a * 16 + l
      BY <1>8, <2>2, <2>4
    <3>. QED  BY <1>3, <1>7, <3>1, LowFour
  <2>5. CASE val = v - Place(0)
    <3>. DEFINE f == a - 32 * e
    <3>1. val = f * 16 + l /\ f \in Int
      BY <1>3, <1>8, <2>2, <2>3, <2>5, SMT
    <3>. HIDE DEF f
    <3>. QED  BY <1>3, <1>7, <3>1, LowFour
  <2>. QED  BY <1>6, <2>4, <2>5
<1>12. l = Symbol(s, M + 1) % 16
  BY DEF l, FinalFour, M
<1>. QED  BY <1>7, <1>10, <1>11, <1>12 DEF raw, val, M

\* The name, with dots up to its full length.
LEMMA NameCut ==
  ASSUME NEW s \in Seq(Symbols), s # <<>>, Len(s) <= MAX_NAME_IDX + 1, s[Len(s)] # 0,
         NEW raw, DOMAIN raw = 1..MAX_NAME_IDX + 1, raw \in Seq(Int),
         \A i \in 1..MAX_NAME_IDX + 1 : raw[i] = Symbol(s, i)
  PROVE  /\ ~(\A i \in DOMAIN raw : raw[i] = 0)
         /\ SubSeq(raw, 1, CHOOSE i \in DOMAIN raw :
                              raw[i] # 0 /\ \A j \in i + 1..Len(raw) : raw[j] = 0) = s
<1>. DEFINE n == Len(s)
            N == MAX_NAME_IDX + 1
            Ends(i) == raw[i] # 0 /\ \A j \in i + 1..Len(raw) : raw[j] = 0
<1>1. N \in Nat /\ n \in 1..N /\ Len(raw) = N
  <2>1. MAX_NAME_IDX \in Nat
    BY PlaceIs
  <2>2. n \in Nat /\ n # 0 /\ Len(raw) \in Nat /\ DOMAIN raw = 1..Len(raw)
    <3>. HIDE DEF Symbols
    <3>. QED  OBVIOUS
  <2>. HIDE DEF n
  <2>3. n \in 1..N
    BY <2>1, <2>2 DEF n
  <2>4. Len(raw) = N
    BY <2>1, <2>2
  <2>. QED  BY <2>1, <2>3, <2>4
<1>2. s[n] # 0 /\ \A i \in 1..N : raw[i] = IF i <= n THEN s[i] ELSE 0
  BY DEF Symbol
<1>3. DOMAIN raw = 1..N /\ raw \in Seq(Int)
  OBVIOUS
<1>4. s \in Seq(Symbols) /\ n = Len(s)
  OBVIOUS
<1>. HIDE DEF n, N
<1>5. raw[n] # 0 /\ n \in DOMAIN raw
  <2>1. n <= n
    BY <1>1
  <2>2. raw[n] = s[n]
    BY <1>1, <1>2, <2>1, Zenon
  <2>. QED  BY <1>1, <1>2, <1>3, <2>2, Zenon
<1>6. Ends(n)
  BY <1>1, <1>2, <1>5
<1>7. ASSUME NEW i \in DOMAIN raw, Ends(i) PROVE i = n
  <2>1. i \in 1..N /\ raw[i] # 0
    BY <1>3, <1>7
  <2>2. i <= n
    BY <1>2, <2>1, Zenon
  <2>3. ~(n \in i + 1..Len(raw))
    BY <1>5, <1>7
  <2>. QED  BY <1>1, <2>1, <2>2, <2>3
<1>8. (CHOOSE i \in DOMAIN raw : Ends(i)) = n
  <2>. HIDE DEF Ends
  <2>. QED  BY <1>5, <1>6, <1>7
<1>9. SubSeq(raw, 1, n) = s
  <2>1. \A i \in 1..n : raw[i] = s[i] /\ raw[i] \in Int
    <3>. TAKE i \in 1..n
    <3>1. i \in 1..N /\ i <= n
      BY <1>1
    <3>2. raw[i] = s[i]
      BY <1>2, <3>1, Zenon
    <3>3. raw[i] \in Int
      BY <1>1, <1>3, <3>1, EachOf
    <3>. QED  BY <3>2, <3>3
  <2>. DEFINE t == SubSeq(raw, 1, n)
  <2>2. t \in Seq(Int) /\ Len(t) = n /\ \A i \in 1..n : t[i] = raw[1 + i - 1]
    <3>1. n \in Int /\ 1 <= n /\ n - 1 + 1 = n
      BY <1>1
    <3>. QED  BY <2>1, <3>1, SubSeqProperties
  <2>3. \A i \in 1..n : t[i] = s[i]
    <3>. TAKE i \in 1..n
    <3>1. 1 + i - 1 = i
      BY <1>1
    <3>. QED  BY <2>1, <2>2, <3>1
  <2>. HIDE DEF t
  <2>4. t = s
    <3>1. s \in Seq(Int)
      <4>1. Symbols \subseteq Int
        BY DEF Symbols
      <4>. QED  BY <1>4, <4>1, SeqWider
    <3>. QED  BY <1>4, <2>2, <2>3, <3>1, SeqEqual
  <2>. QED  BY <2>4 DEF t
<1>. QED  BY <1>5, <1>8, <1>9

\* A cut name has the characters of the name, and four bits of the last one.
LEMMA CutIs ==
  ASSUME NEW t \in Seq(Symbols), Len(t) <= MAX_NAME_IDX + 1
  PROVE  /\ Cut(t) \in Seq(Symbols) /\ Len(Cut(t)) = Len(t)
         /\ \A i \in 1..MAX_NAME_IDX : Symbol(Cut(t), i) = Symbol(t, i)
         /\ Symbol(Cut(t), MAX_NAME_IDX + 1) = Symbol(t, MAX_NAME_IDX + 1) % 16
<1>. DEFINE M == MAX_NAME_IDX
            n == Len(t)
            cut == Cut(t)
<1>1. M \in Nat /\ n \in Nat /\ DOMAIN t = 1..n
  <2>1. n \in Nat /\ DOMAIN t = 1..n
    <3>. HIDE DEF Symbols
    <3>. QED  OBVIOUS
  <2>. QED  BY <2>1, PlaceIs
<1>2. cut = [i \in 1..n |-> IF i = M + 1 THEN t[i] % 16 ELSE t[i]]
  BY <1>1 DEF Cut
<1>3. \A i \in 1..n : t[i] \in Symbols
  BY EachOf
<1>. HIDE DEF cut, M, n
<1>4. cut \in [1..n -> Symbols]
  <2>1. ASSUME NEW i \in 1..n PROVE t[i] % 16 \in Symbols
    <3>. DEFINE c == t[i]
    <3>1. c \in 0..31
      BY <1>3 DEF Symbols
    <3>. HIDE DEF c
    <3>2. c % 16 \in 0..31
      BY <3>1, SMT
    <3>. QED  BY <3>2 DEF c, Symbols
  <2>. QED  BY <1>2, <1>3, <2>1
<1>5. cut \in Seq(Symbols) /\ Len(cut) = n
  <2>. HIDE DEF Symbols
  <2>. QED  BY <1>1, <1>4
<1>6. n <= M + 1
  BY DEF n, M
<1>7. ASSUME NEW i \in 1..M PROVE Symbol(cut, i) = Symbol(t, i)
  <2>1. i # M + 1 /\ (i <= n => i \in 1..n)
    BY <1>1
  <2>. QED  BY <1>2, <1>5, <2>1 DEF Symbol, n
<1>8. Symbol(cut, M + 1) = Symbol(t, M + 1) % 16
  <2>1. CASE M + 1 <= n
    <3>1. M + 1 \in 1..n
      BY <1>1, <2>1
    <3>. QED  BY <1>2, <1>5, <2>1, <3>1 DEF Symbol, n
  <2>2. CASE ~(M + 1 <= n)
    <3>1. Symbol(cut, M + 1) = 0 /\ Symbol(t, M + 1) = 0
      BY <1>5, <2>2 DEF Symbol, n
    <3>. QED  BY <3>1
  <2>. QED  BY <2>1, <2>2
<1>. QED  BY <1>5, <1>7, <1>8 DEF cut, M, n

\* NamesReadBack for every MAX_NAME_IDX to 12, that of the code, and names of any
\* characters: long_name_to_string inverts name_string_to_long (Eos/typename.cpp), but
\* for what the last of thirteen characters is cut to.
THEOREM NamesReadBackHolds == CodecSpec => []NamesReadBack
<1>1. CodecTypes => NamesReadBack
  <2>. SUFFICES ASSUME CodecTypes, Cut(name) # <<>>, Cut(name)[Len(Cut(name))] # 0
                PROVE  long_name_to_string(name_string_to_long(name)) = Cut(name)
    BY DEF NamesReadBack
  <2>. DEFINE s == Cut(name)
              M == MAX_NAME_IDX
              raw == Unpacked(name_string_to_long(name))
  <2>0. name \in Seq(Symbols) /\ Len(name) <= M + 1
    BY NamesAssumption DEF CodecTypes
  <2>1. /\ s \in Seq(Symbols) /\ Len(s) <= M + 1 /\ s # <<>> /\ s[Len(s)] # 0
        /\ \A i \in 1..M : Symbol(s, i) = Symbol(name, i)
        /\ Symbol(s, M + 1) = Symbol(name, M + 1) % 16
    BY <2>0, CutIs
  <2>2. M \in Nat
    BY PlaceIs
  <2>. HIDE DEF s
  <2>3. /\ DOMAIN raw = 1..M + 1
        /\ \A i \in 1..M : raw[i] = Symbol(name, i)
        /\ raw[M + 1] = Symbol(name, M + 1) % 16
    BY <2>0, UnpackedIs
  <2>4. M + 1 \in Nat /\ M + 1 # 0
    BY <2>2
  <2>. HIDE DEF raw
  <2>6. \A i \in 1..M + 1 : raw[i] = Symbol(s, i)
    <3>. TAKE i \in 1..M + 1
    <3>1. i \in 1..M \/ i = M + 1
      BY <2>2
    <3>. QED  BY <2>1, <2>3, <3>1
  <2>7. raw \in Seq(Int)
    <3>1. raw = [i \in 1..M + 1 |-> raw[i]]
      BY <2>3 DEF raw, Unpacked
    <3>2. \A i \in 1..M + 1 : raw[i] \in Int
      <4>. TAKE i \in 1..M + 1
      <4>1. i \in Nat /\ i # 0
        BY <2>2
      <4>2. Symbol(s, i) \in 0..31
        BY <2>1, <4>1, SymbolIs, Zenon
      <4>. QED  BY <2>6, <4>2
    <3>3. raw \in [1..M + 1 -> Int]
      BY <3>1, <3>2
    <3>. QED  BY <2>4, <3>3, FunctionIsSeq
  <2>8. /\ ~(\A i \in DOMAIN raw : raw[i] = 0)
        /\ SubSeq(raw, 1, CHOOSE i \in DOMAIN raw :
                            raw[i] # 0 /\ \A j \in i + 1..Len(raw) : raw[j] = 0) = s
    <3>. HIDE DEF M
    <3>. QED  BY <2>1, <2>3, <2>6, <2>7, NameCut DEF M
  <2>. QED  BY <2>8 DEF long_name_to_string, raw, s
<1>. QED  BY <1>1, CodecTypesHold, PTL

=============================================================================
