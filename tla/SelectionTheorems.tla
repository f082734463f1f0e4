-------------------------- MODULE SelectionTheorems --------------------------
(***************************************************************************)
(* What Only(q, K) of Selection is: q at growing places, and at all places *)
(* of members of K.  What SetToSeq(S) of SequencesExt is: each member of S *)
(* once.                                                                   *)
(***************************************************************************)
EXTENDS Selection, SequencesExt, FiniteSetTheorems, FunctionTheorems, TLAPS

(* Positions are natural numbers, and there are finitely many.             *)
LEMMA PlacesFinite ==
  ASSUME NEW S, NEW q \in Seq(S), NEW K
  PROVE  /\ PlacesOf(q, K) \subseteq 1..Len(q)
         /\ IsFiniteSet(PlacesOf(q, K))
<1>1. PlacesOf(q, K) \subseteq 1..Len(q)  BY DEF PlacesOf
<1>2. Len(q) \in Nat  OBVIOUS
<1>3. IsFiniteSet(1..Len(q))  BY <1>2, FS_Interval
<1> QED  BY <1>1, <1>3, FS_Subset

(* The numbers 1 to n are n.                                               *)
LEMMA UpTo ==
  ASSUME NEW n \in Nat
  PROVE  IsFiniteSet(1..n) /\ Cardinality(1..n) = n
<1>1. 1 \in Int /\ n \in Int  OBVIOUS
<1>2. IsFiniteSet(1..n) /\ Cardinality(1..n) = IF 1 > n THEN 0 ELSE n - 1 + 1
  BY <1>1, FS_Interval
<1> QED  BY <1>2

(* The ranks in a finite set of numbers are 1 to the size of the set.      *)
LEMMA Ranks ==
  ASSUME NEW P \in SUBSET Nat, IsFiniteSet(P)
  PROVE  /\ Cardinality(P) \in Nat
         /\ \A i \in P : Rank(P, i) \in 1..Cardinality(P)
         /\ \A i, j \in P : i < j => Rank(P, i) < Rank(P, j)
         /\ \A k \in 1..Cardinality(P) : \E i \in P : Rank(P, i) = k
<1> DEFINE Below(i) == {j \in P : j <= i}
           n == Cardinality(P)
           r == [i \in P |-> Rank(P, i)]
<1>1. n \in Nat  BY FS_CardinalityType
<1>2. ASSUME NEW i \in P  PROVE IsFiniteSet(Below(i)) /\ Cardinality(Below(i)) \in 1..n
  <2>1. Below(i) \in SUBSET P  OBVIOUS
  <2>2. IsFiniteSet(Below(i)) /\ Cardinality(Below(i)) <= n  BY <2>1, FS_Subset
  <2>3. Below(i) # {}  OBVIOUS
  <2>4. Cardinality(Below(i)) \in Nat /\ Cardinality(Below(i)) # 0
    BY <2>2, <2>3, FS_CardinalityType, FS_EmptySet
  <2> QED  BY <1>1, <2>2, <2>4
<1>3. \A i \in P : Rank(P, i) = Cardinality(Below(i))  BY DEF Rank
<1>4. ASSUME NEW i \in P, NEW j \in P, i < j  PROVE Rank(P, i) < Rank(P, j)
  <2>1. Below(i) \in SUBSET Below(j) /\ Below(i) # Below(j)
    <3>1. j \in Below(j) /\ j \notin Below(i)  BY <1>4
    <3>2. \A k \in Below(i) : k \in Below(j)  BY <1>4
    <3> QED  BY <3>1, <3>2
  <2>2. Cardinality(Below(i)) <= Cardinality(Below(j)) /\ Cardinality(Below(i)) # Cardinality(Below(j))
    BY <1>2, <2>1, FS_Subset
  <2> QED  BY <1>1, <1>2, <1>3, <2>2
<1>5. \A i \in P : Rank(P, i) \in 1..n  BY <1>2, <1>3
<1>6. r \in Injection(P, 1..n)
  <2>1. r \in [P -> 1..n]  BY <1>5
  <2>2. \A i, j \in P : r[i] = r[j] => i = j
    <3> SUFFICES ASSUME NEW i \in P, NEW j \in P, r[i] = r[j], i # j  PROVE FALSE  OBVIOUS
    <3>1. i \in Nat /\ j \in Nat /\ Rank(P, i) = Rank(P, j)  OBVIOUS
    <3>2. Rank(P, i) \in Nat  BY <1>1, <1>5
    <3>3. ~(i < j)  BY <1>4, <3>1, <3>2
    <3>4. ~(j < i)  BY <1>4, <3>1, <3>2
    <3> QED  BY <3>1, <3>3, <3>4
  <2> QED  BY <2>1, <2>2, Fun_IsInj
<1>7. r \in Surjection(P, 1..n)
  <2>1. IsFiniteSet(1..n) /\ Cardinality(1..n) = n  BY <1>1, UpTo
  <2> QED  BY <1>6, <2>1, FS_Injection
<1>8. \A k \in 1..n : \E i \in P : r[i] = k
  <2> HIDE DEF r, n
  <2> QED  BY <1>7 DEF Surjection
<1> QED  BY <1>1, <1>4, <1>5, <1>8

(* f takes the n places of Only(q, K) to the growing places of members of  *)
(* K in q, and to all of them.                                             *)
ChosenAt(q, K, n, f) ==
  /\ Only(q, K) = [k \in 1..n |-> q[f[k]]]
  /\ \A k, l \in 1..n : k < l => f[k] < f[l]
  /\ \A k \in 1..n : q[f[k]] \in K
  /\ \A i \in 1..Len(q) : q[i] \in K => \E k \in 1..n : f[k] = i

(* Only(q, K) is q read at growing places, which are all those of members  *)
(* of K.                                                                   *)
LEMMA OnlyPlaces ==
  ASSUME NEW S, NEW q \in Seq(S), NEW K
  PROVE  \E n \in Nat : \E f \in [1..n -> 1..Len(q)] : ChosenAt(q, K, n, f)
<1> DEFINE P == PlacesOf(q, K)
           n == Cardinality(P)
           f == [k \in 1..n |-> CHOOSE i \in P : Rank(P, i) = k]
<1>1. P \subseteq 1..Len(q) /\ IsFiniteSet(P) /\ P \in SUBSET Nat  BY PlacesFinite
<1>2. /\ n \in Nat
      /\ \A i \in P : Rank(P, i) \in 1..n
      /\ \A i, j \in P : i < j => Rank(P, i) < Rank(P, j)
      /\ \A k \in 1..n : \E i \in P : Rank(P, i) = k
  BY <1>1, Ranks
<1>3. \A k \in 1..n : f[k] \in P /\ Rank(P, f[k]) = k
  <2> HIDE DEF P, n
  <2> QED  BY <1>2
<1>4. Only(q, K) = [k \in 1..n |-> q[f[k]]]  BY DEF Only
<1> HIDE DEF f, n
<1>5. f \in [1..n -> 1..Len(q)]
  <2>1. f = [k \in 1..n |-> f[k]]  BY DEF f
  <2> QED  BY <1>1, <1>3, <2>1
<1>6. \A k, l \in 1..n : k < l => f[k] < f[l]
  <2> SUFFICES ASSUME NEW k \in 1..n, NEW l \in 1..n, k < l, ~(f[k] < f[l])  PROVE FALSE
    OBVIOUS
  <2>1. f[k] \in P /\ f[l] \in P /\ f[k] \in Nat /\ f[l] \in Nat  BY <1>1, <1>3
  <2>2. Rank(P, f[k]) = k /\ Rank(P, f[l]) = l  BY <1>3
  <2>3. f[k] # f[l]  BY <1>2, <2>2
  <2>4. f[l] < f[k]  BY <2>1, <2>3
  <2>5. Rank(P, f[l]) < Rank(P, f[k])  BY <1>2, <2>1, <2>4
  <2> QED  BY <1>2, <2>2, <2>5
<1>7. \A k \in 1..n : q[f[k]] \in K  BY <1>3 DEF PlacesOf
<1>8. ASSUME NEW i \in 1..Len(q), q[i] \in K  PROVE \E k \in 1..n : f[k] = i
  <2>1. i \in P  BY <1>8 DEF PlacesOf
  <2>2. Rank(P, i) \in 1..n  BY <1>2, <2>1
  <2>3. f[Rank(P, i)] \in P /\ Rank(P, f[Rank(P, i)]) = Rank(P, i)  BY <1>3, <2>2
  <2>4. f[Rank(P, i)] = i
    <3> DEFINE j == f[Rank(P, i)]
    <3>1. j \in P /\ Rank(P, j) = Rank(P, i) /\ j \in Nat /\ i \in Nat  BY <1>1, <2>3
    <3> HIDE DEF j
    <3>2. Rank(P, i) \in Nat  BY <1>2, <2>2
    <3>3. ~(j < i) /\ ~(i < j)  BY <1>2, <2>1, <3>1, <3>2
    <3>4. j = i  BY <3>1, <3>3
    <3> QED  BY <3>4 DEF j
  <2> QED  BY <2>2, <2>4
<1> QED  BY <1>2, <1>4, <1>5, <1>6, <1>7, <1>8 DEF ChosenAt

(* The same, of its elements.                                              *)
LEMMA OnlyElements ==
  ASSUME NEW S, NEW q \in Seq(S), NEW K
  PROVE  /\ Only(q, K) \in Seq(S)
         /\ \A k \in DOMAIN Only(q, K) : Only(q, K)[k] \in K /\ \E i \in DOMAIN q : q[i] = Only(q, K)[k]
         /\ \A i \in DOMAIN q : q[i] \in K => \E k \in DOMAIN Only(q, K) : Only(q, K)[k] = q[i]
<1>1. PICK n \in Nat : \E f \in [1..n -> 1..Len(q)] : ChosenAt(q, K, n, f)
  BY OnlyPlaces
<1>2. PICK f \in [1..n -> 1..Len(q)] : ChosenAt(q, K, n, f)
  BY <1>1
<1>3. \A k \in 1..n : f[k] \in DOMAIN q /\ q[f[k]] \in S  OBVIOUS
<1>4. DOMAIN Only(q, K) = 1..n /\ \A k \in 1..n : Only(q, K)[k] = q[f[k]]  BY <1>2 DEF ChosenAt
<1>5. Only(q, K) \in Seq(S)
  <2>1. \A k \in 1..n : q[f[k]] \in S  BY <1>3
  <2>2. [k \in 1..n |-> q[f[k]]] \in Seq(S)  BY <2>1
  <2> QED  BY <1>2, <2>2 DEF ChosenAt
<1>6. \A k \in DOMAIN Only(q, K) : Only(q, K)[k] \in K /\ \E i \in DOMAIN q : q[i] = Only(q, K)[k]
  BY <1>2, <1>3, <1>4 DEF ChosenAt
<1>7. ASSUME NEW i \in DOMAIN q, q[i] \in K  PROVE \E k \in DOMAIN Only(q, K) : Only(q, K)[k] = q[i]
  <2>1. i \in 1..Len(q)  OBVIOUS
  <2>2. PICK k \in 1..n : f[k] = i  BY <1>2, <1>7, <2>1 DEF ChosenAt
  <2>3. k \in DOMAIN Only(q, K) /\ Only(q, K)[k] = q[i]  BY <1>4, <2>2
  <2> QED  BY <2>3
<1> QED  BY <1>5, <1>6, <1>7

(* A place that is selected is found again by its rank.                    *)
LEMMA OnlyRanked ==
  ASSUME NEW S, NEW q \in Seq(S), NEW K
  PROVE  /\ Only(q, K) \in Seq(S) /\ Len(Only(q, K)) = Cardinality(PlacesOf(q, K))
         /\ \A i \in PlacesOf(q, K) : Only(q, K)[Rank(PlacesOf(q, K), i)] = q[i]
<1> DEFINE P == PlacesOf(q, K)
           n == Cardinality(P)
           f == [k \in 1..n |-> CHOOSE i \in P : Rank(P, i) = k]
<1>1. P \subseteq 1..Len(q) /\ IsFiniteSet(P) /\ P \in SUBSET Nat  BY PlacesFinite
<1>2. /\ n \in Nat
      /\ \A i \in P : Rank(P, i) \in 1..n
      /\ \A i, j \in P : i < j => Rank(P, i) < Rank(P, j)
      /\ \A k \in 1..n : \E i \in P : Rank(P, i) = k
  BY <1>1, Ranks
<1>3. \A k \in 1..n : f[k] \in P /\ Rank(P, f[k]) = k
  <2> HIDE DEF P, n
  <2> QED  BY <1>2
<1>4. Only(q, K) = [k \in 1..n |-> q[f[k]]]  BY DEF Only
<1> HIDE DEF f, n, P
<1>5. ASSUME NEW i \in P  PROVE Only(q, K)[Rank(P, i)] = q[i]
  <2>1. PICK k \in 1..n : k = Rank(P, i)  BY <1>2
  <2>2. f[k] \in P /\ Rank(P, f[k]) = Rank(P, i)  BY <1>3, <2>1
  <2>3. ~(f[k] < i) /\ ~(i < f[k])
    <3>1. Rank(P, i) \in Nat  BY <1>2
    <3> QED  BY <1>2, <2>2, <3>1
  <2>4. PICK j : j = f[k]  OBVIOUS
  <2>5. j \in Nat /\ i \in Nat  BY <1>1, <2>2, <2>4
  <2>6. j = i  BY <2>3, <2>4, <2>5
  <2> QED  BY <1>4, <2>1, <2>4, <2>6
<1>6. Only(q, K) \in Seq(S) /\ Len(Only(q, K)) = n
  <2>1. Only(q, K) \in Seq(S)  BY OnlyElements
  <2>2. DOMAIN Only(q, K) = 1..n  BY <1>4
  <2> QED  BY <1>2, <2>1, <2>2
<1> QED  BY <1>5, <1>6 DEF n, P

(* SetToSeq(S) has each member of S at one place.                          *)
LEMMA SetAsSequence ==
  ASSUME NEW S, IsFiniteSet(S)
  PROVE  \E n \in Nat : /\ SetToSeq(S) \in [1..n -> S]
                        /\ \A i, j \in 1..n : SetToSeq(S)[i] = SetToSeq(S)[j] => i = j
                        /\ \A x \in S : \E i \in 1..n : SetToSeq(S)[i] = x
<1> DEFINE n == Cardinality(S)
           s == SetToSeq(S)
<1>1. n \in Nat /\ Bijection(1..n, S) # {}  BY FS_CardinalityType, Fun_ExistsBij
<1>2. PICK b \in Bijection(1..n, S) : TRUE  BY <1>1
<1>3. b \in [1..n -> S] /\ IsInjective(b)
  <2>1. b \in Injection(1..n, S)  BY Fun_BijectionProperties
  <2> QED  BY <2>1 DEF Injection
<1>4. s \in [1..n -> S] /\ IsInjective(s)  BY <1>3 DEF SetToSeq
<1>5. s \in Injection(1..n, S)  BY <1>4 DEF Injection
<1>6. s \in Surjection(1..n, S)
  <2>1. IsFiniteSet(1..n) /\ Cardinality(1..n) = n  BY <1>1, UpTo
  <2> QED  BY <1>5, <2>1, FS_Injection
<1>7. \A x \in S : \E i \in 1..n : s[i] = x
  <2> HIDE DEF s, n
  <2> QED  BY <1>6 DEF Surjection
<1>8. \A i, j \in 1..n : s[i] = s[j] => i = j  BY <1>5, Fun_InjectionProperties
<1> QED  BY <1>1, <1>4, <1>7, <1>8
-----------------------------------------------------------------------------
(* What stands in a list that grows at its end, loses its head, or is      *)
(* selected from.                                                          *)
LEMMA MembersAppend ==
  ASSUME NEW S, NEW q \in Seq(S), NEW m \in S
  PROVE  Append(q, m) \in Seq(S) /\ Members(Append(q, m)) = Members(q) \cup {m}
<1> DEFINE r == Append(q, m)
<1>1. /\ r \in Seq(S) /\ DOMAIN q = 1..Len(q) /\ DOMAIN r = 1..Len(q) + 1 /\ Len(q) \in Nat
      /\ \A i \in 1..Len(q) : r[i] = q[i]
      /\ r[Len(q) + 1] = m
  OBVIOUS
<1> HIDE DEF r
<1>2. Members(r) = Members(q) \cup {m}  BY <1>1 DEF Members
<1> QED  BY <1>1, <1>2 DEF r

LEMMA MembersTail ==
  ASSUME NEW S, NEW q \in Seq(S), q # <<>>
  PROVE  /\ Tail(q) \in Seq(S) /\ Head(q) \in S
         /\ Members(q) = {Head(q)} \cup Members(Tail(q))
<1> DEFINE r == Tail(q)
<1>1. /\ r \in Seq(S) /\ DOMAIN q = 1..Len(q) /\ DOMAIN r = 1..Len(q) - 1
      /\ Len(q) \in Nat \ {0}
      /\ \A i \in 1..Len(q) - 1 : r[i] = q[i + 1]
      /\ Head(q) = q[1] /\ q[1] \in S
  OBVIOUS
<1> HIDE DEF r
<1>2. \A i \in 1..Len(q) : i = 1 \/ (i - 1 \in 1..Len(q) - 1 /\ q[i] = r[i - 1])  BY <1>1
<1>3. \A x \in Members(q) : x = Head(q) \/ x \in Members(r)  BY <1>1, <1>2 DEF Members
<1>4. \A x \in Members(r) : x \in Members(q)  BY <1>1 DEF Members
<1>5. Head(q) \in Members(q)  BY <1>1 DEF Members
<1> QED  BY <1>1, <1>3, <1>4, <1>5 DEF r

LEMMA MembersOnly ==
  ASSUME NEW S, NEW q \in Seq(S), NEW K
  PROVE  Only(q, K) \in Seq(S) /\ Members(Only(q, K)) = Members(q) \cap K
<1> DEFINE r == Only(q, K)
<1>1. /\ r \in Seq(S)
      /\ \A k \in DOMAIN r : r[k] \in K /\ \E i \in DOMAIN q : q[i] = r[k]
      /\ \A i \in DOMAIN q : q[i] \in K => \E k \in DOMAIN r : r[k] = q[i]
  BY OnlyElements
<1> HIDE DEF r
<1>2. \A x \in Members(r) : x \in Members(q) \cap K  BY <1>1 DEF Members
<1>3. \A x \in Members(q) \cap K : x \in Members(r)  BY <1>1 DEF Members
<1>4. Members(r) = Members(q) \cap K  BY <1>2, <1>3
<1> QED  BY <1>1, <1>4 DEF r

(* Members are values of the list's kind.                                  *)
LEMMA MembersOf ==
  ASSUME NEW S, NEW q \in Seq(S)
  PROVE  Members(q) \subseteq S /\ Members(<<>>) = {} /\ (Members(q) = {} => q = <<>>)
<1>1. Members(q) \subseteq S /\ Members(<<>>) = {}  BY DEF Members
<1>2. q # <<>> => 1 \in DOMAIN q /\ q[1] \in Members(q)
  <2>1. q # <<>> => 1 \in DOMAIN q  OBVIOUS
  <2> QED  BY <2>1 DEF Members
<1> QED  BY <1>1, <1>2

(* No member of K is in q twice.                                           *)
Apart(q, K) == \A i, j \in DOMAIN q : q[i] = q[j] /\ q[i] \in K => i = j

LEMMA ApartAppend ==
  ASSUME NEW S, NEW q \in Seq(S), NEW m \in S, NEW K, Apart(q, K), m \in K => m \notin Members(q)
  PROVE  Apart(Append(q, m), K)
<1> DEFINE r == Append(q, m)
<1>1. /\ DOMAIN q = 1..Len(q) /\ DOMAIN r = 1..Len(q) + 1 /\ Len(q) \in Nat
      /\ \A i \in 1..Len(q) : r[i] = q[i]
      /\ r[Len(q) + 1] = m
  OBVIOUS
<1> HIDE DEF r
<1>2. m \in K => \A i \in 1..Len(q) : q[i] # m  BY <1>1 DEF Members
<1>3. ASSUME NEW i \in DOMAIN r, NEW j \in DOMAIN r, r[i] = r[j], r[i] \in K  PROVE i = j
  <2>1. CASE i \in 1..Len(q) /\ j \in 1..Len(q)  BY <1>1, <1>3, <2>1 DEF Apart
  <2>2. CASE i = Len(q) + 1  BY <1>1, <1>2, <1>3, <2>2
  <2>3. CASE j = Len(q) + 1  BY <1>1, <1>2, <1>3, <2>3
  <2> QED  BY <1>1, <2>1, <2>2, <2>3
<1> QED  BY <1>3 DEF Apart, r

LEMMA ApartTail ==
  ASSUME NEW S, NEW q \in Seq(S), NEW K, Apart(q, K), q # <<>>
  PROVE  Apart(Tail(q), K) /\ (Head(q) \in K => Head(q) \notin Members(Tail(q)))
<1> DEFINE r == Tail(q)
<1>1. /\ DOMAIN q = 1..Len(q) /\ DOMAIN r = 1..Len(q) - 1 /\ Len(q) \in Nat \ {0}
      /\ \A i \in 1..Len(q) - 1 : r[i] = q[i + 1]
      /\ Head(q) = q[1]
  OBVIOUS
<1> HIDE DEF r
<1>2. Apart(r, K)
  <2> SUFFICES ASSUME NEW i \in DOMAIN r, NEW j \in DOMAIN r, r[i] = r[j], r[i] \in K  PROVE i = j
    BY DEF Apart
  <2>1. i + 1 \in DOMAIN q /\ j + 1 \in DOMAIN q /\ q[i + 1] = q[j + 1] /\ q[i + 1] \in K  BY <1>1
  <2>2. i + 1 = j + 1  BY <2>1 DEF Apart
  <2> QED  BY <1>1, <2>2
<1>3. ASSUME Head(q) \in K, Head(q) \in Members(r)  PROVE FALSE
  <2>1. PICK i \in DOMAIN r : r[i] = Head(q)  BY <1>3 DEF Members
  <2>2. i + 1 \in DOMAIN q /\ 1 \in DOMAIN q /\ q[i + 1] = q[1] /\ q[1] \in K  BY <1>1, <1>3, <2>1
  <2>3. i + 1 = 1  BY <2>2 DEF Apart
  <2> QED  BY <1>1, <2>1, <2>3
<1> QED  BY <1>2, <1>3 DEF r

(* A selection reads its list at different places, in order.               *)
LEMMA OnlyInOrder ==
  ASSUME NEW S, NEW q \in Seq(S), NEW K
  PROVE  \E f : \A k, l \in DOMAIN Only(q, K) :
           /\ f[k] \in DOMAIN q /\ Only(q, K)[k] = q[f[k]]
           /\ k < l => f[k] < f[l]
           /\ f[k] = f[l] => k = l
<1>1. PICK n \in Nat : \E f \in [1..n -> 1..Len(q)] : ChosenAt(q, K, n, f)  BY OnlyPlaces
<1>2. PICK f \in [1..n -> 1..Len(q)] : ChosenAt(q, K, n, f)  BY <1>1
<1>3. /\ DOMAIN Only(q, K) = 1..n /\ DOMAIN q = 1..Len(q)
      /\ \A k \in 1..n : Only(q, K)[k] = q[f[k]] /\ f[k] \in DOMAIN q
      /\ \A k, l \in 1..n : k < l => f[k] < f[l]
  BY <1>2 DEF ChosenAt
<1>4. \A k, l \in 1..n : f[k] = f[l] => k = l
  <2> SUFFICES ASSUME NEW k \in 1..n, NEW l \in 1..n, f[k] = f[l], k # l  PROVE FALSE  OBVIOUS
  <2>1. k < l \/ l < k  OBVIOUS
  <2>2. f[k] \in Nat /\ f[l] \in Nat  OBVIOUS
  <2> QED  BY <1>3, <2>1, <2>2
<1>5. \A k, l \in DOMAIN Only(q, K) :
         /\ f[k] \in DOMAIN q /\ Only(q, K)[k] = q[f[k]]
         /\ k < l => f[k] < f[l]
         /\ f[k] = f[l] => k = l
  BY <1>3, <1>4
<1> QED  BY <1>5

LEMMA ApartOnly ==
  ASSUME NEW S, NEW q \in Seq(S), NEW K, NEW L, Apart(q, K)
  PROVE  Apart(Only(q, L), K)
<1>1. PICK f : \A k, l \in DOMAIN Only(q, L) :
                 /\ f[k] \in DOMAIN q /\ Only(q, L)[k] = q[f[k]]
                 /\ k < l => f[k] < f[l]
                 /\ f[k] = f[l] => k = l
  BY OnlyInOrder
<1> QED  BY <1>1 DEF Apart
=============================================================================
