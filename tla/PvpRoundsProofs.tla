---------------------------- MODULE PvpRoundsProofs ----------------------------
(***************************************************************************)
(* Theorems about the rounds of PvpDay: that everybody who takes part      *)
(* keeps his place until he is ranked, that fights move points and neither *)
(* make nor lose any, and that the rounds leave enough players for the     *)
(* final ones, for any number of players, calls and robots.  And about     *)
(* FinalEight: that the final rounds give each of the eight one place, and *)
(* which place follows from the fights won.                                *)
(***************************************************************************)
EXTENDS PvpDayProofs, FinalEight

-----------------------------------------------------------------------------
(* Counting the places of somebody in a sequence. *)

At(s, u) == {i \in 1..Len(s) : s[i] = u}

\* The elements of s are those of a, at the places f gives, and those of b, where g says.
MergedBy(s, a, b, f, g) ==
    /\ f \in [1..Len(a) -> 1..Len(s)] /\ g \in [1..Len(b) -> 1..Len(s)]
    /\ \A i \in 1..Len(a) : s[f[i]] = a[i]
    /\ \A i \in 1..Len(b) : s[g[i]] = b[i]
    /\ \A i, j \in 1..Len(a) : f[i] = f[j] => i = j
    /\ \A i, j \in 1..Len(b) : g[i] = g[j] => i = j
    /\ \A i \in 1..Len(a), j \in 1..Len(b) : f[i] # g[j]
    /\ \A k \in 1..Len(s) : (\E i \in 1..Len(a) : k = f[i]) \/ (\E j \in 1..Len(b) : k = g[j])
Merged(s, a, b) == \E f, g : MergedBy(s, a, b, f, g)

One(u, v) == IF u = v THEN 1 ELSE 0

LEMMA AtFinite ==
    ASSUME NEW S, NEW s \in Seq(S), NEW u
    PROVE  IsFiniteSet(At(s, u)) /\ Places(s, u) = Cardinality(At(s, u)) /\ Places(s, u) \in Nat
<1>1. IsFiniteSet(1..Len(s))
  BY FS_Interval
<1>2. At(s, u) \in SUBSET (1..Len(s))
  BY DEF At
<1>3. IsFiniteSet(At(s, u))
  BY <1>1, <1>2, FS_Subset
<1> QED BY <1>3, FS_CardinalityType DEF Places, At

ImageOf(f, A) == {f[i] : i \in A}

LEMMA ImageSize ==
    ASSUME NEW A, IsFiniteSet(A), NEW T, NEW f \in [A -> T],
           \A i, j \in A : f[i] = f[j] => i = j
    PROVE  IsFiniteSet(ImageOf(f, A)) /\ Cardinality(ImageOf(f, A)) = Cardinality(A)
<1> DEFINE I == ImageOf(f, A)
<1>1. f \in [A -> I] /\ \A t \in I : \E i \in A : f[i] = t
  BY DEF ImageOf
<1>2. f \in Bijection(A, I)
  BY <1>1 DEF Bijection, Injection, Surjection, IsInjective
<1>3. ExistsBijection(A, I)
  BY <1>2 DEF ExistsBijection
<1> QED BY <1>3, FS_Bijection

LEMMA MergedPlaces ==
    ASSUME NEW S, NEW s \in Seq(S), NEW a \in Seq(S), NEW b \in Seq(S), Merged(s, a, b)
    PROVE  \A u : Places(s, u) = Places(a, u) + Places(b, u)
<1> SUFFICES ASSUME NEW u PROVE Places(s, u) = Places(a, u) + Places(b, u)
  OBVIOUS
<1>1. PICK f, g : MergedBy(s, a, b, f, g)
  BY DEF Merged
<1> DEFINE ff == [i \in At(a, u) |-> f[i]]
           gg == [i \in At(b, u) |-> g[i]]
           F == ImageOf(ff, At(a, u))
           G == ImageOf(gg, At(b, u))
<1>2. /\ IsFiniteSet(At(a, u)) /\ Places(a, u) = Cardinality(At(a, u)) /\ Places(a, u) \in Nat
      /\ IsFiniteSet(At(b, u)) /\ Places(b, u) = Cardinality(At(b, u)) /\ Places(b, u) \in Nat
      /\ Places(s, u) = Cardinality(At(s, u))
  BY AtFinite
<1>3. /\ ff \in [At(a, u) -> 1..Len(s)] /\ \A i, j \in At(a, u) : ff[i] = ff[j] => i = j
      /\ \A i \in At(a, u) : ff[i] = f[i]
  BY <1>1 DEF At, MergedBy
<1>4. /\ gg \in [At(b, u) -> 1..Len(s)] /\ \A i, j \in At(b, u) : gg[i] = gg[j] => i = j
      /\ \A i \in At(b, u) : gg[i] = g[i]
  BY <1>1 DEF At, MergedBy
<1> HIDE DEF ff, gg
<1>5. IsFiniteSet(F) /\ Cardinality(F) = Places(a, u)
  BY <1>2, <1>3, ImageSize
<1>6. IsFiniteSet(G) /\ Cardinality(G) = Places(b, u)
  BY <1>2, <1>4, ImageSize
<1>7. F \subseteq At(s, u) /\ G \subseteq At(s, u)
  <2>1. \A i \in At(a, u) : ff[i] \in At(s, u)
    BY <1>1, <1>3 DEF At, MergedBy
  <2>2. \A i \in At(b, u) : gg[i] \in At(s, u)
    BY <1>1, <1>4 DEF At, MergedBy
  <2> QED BY <2>1, <2>2 DEF ImageOf
<1>8. At(s, u) \subseteq F \cup G
  <2> SUFFICES ASSUME NEW k \in At(s, u) PROVE k \in F \cup G
    OBVIOUS
  <2>1. k \in 1..Len(s) /\ s[k] = u
    BY DEF At
  <2>2. CASE \E i \in 1..Len(a) : k = f[i]
    <3>1. PICK i \in 1..Len(a) : k = f[i]
      BY <2>2
    <3>2. i \in At(a, u)
      BY <2>1, <3>1, <1>1 DEF At, MergedBy
    <3> QED BY <3>1, <3>2, <1>3 DEF ImageOf
  <2>3. CASE \E j \in 1..Len(b) : k = g[j]
    <3>1. PICK j \in 1..Len(b) : k = g[j]
      BY <2>3
    <3>2. j \in At(b, u)
      BY <2>1, <3>1, <1>1 DEF At, MergedBy
    <3> QED BY <3>1, <3>2, <1>4 DEF ImageOf
  <2> QED BY <2>1, <2>2, <2>3, <1>1 DEF MergedBy
<1>9. F \cap G = {}
  <2>1. \A i \in At(a, u), j \in At(b, u) : ff[i] # gg[j]
    BY <1>1, <1>3, <1>4 DEF At, MergedBy
  <2> QED BY <2>1 DEF ImageOf
<1> HIDE DEF F, G
<1>10. At(s, u) = F \cup G
  BY <1>7, <1>8
<1>11. Cardinality(F \cup G) = Cardinality(F) + Cardinality(G) - Cardinality(F \cap G)
  BY <1>5, <1>6, FS_Union
<1>12. Cardinality(F \cap G) = 0
  BY <1>9, FS_EmptySet
<1> QED BY <1>2, <1>5, <1>6, <1>10, <1>11, <1>12

LEMMA MergedNames ==
    ASSUME NEW s \in Seq(Entry), NEW a \in Seq(Entry), NEW b \in Seq(Entry), Merged(s, a, b)
    PROVE  \A u : Places(Names(s), u) = Places(Names(a), u) + Places(Names(b), u)
<1>1. PICK f, g : MergedBy(s, a, b, f, g)
  BY DEF Merged
<1>2. /\ Names(s) \in Seq(Uuids) /\ Names(a) \in Seq(Uuids) /\ Names(b) \in Seq(Uuids)
      /\ Len(Names(s)) = Len(s) /\ Len(Names(a)) = Len(a) /\ Len(Names(b)) = Len(b)
  BY NamesType
<1>3. MergedBy(Names(s), Names(a), Names(b), f, g)
  <2>1. \A i \in 1..Len(a) : Names(s)[f[i]] = Names(a)[i]
    BY <1>1 DEF MergedBy, Names
  <2>2. \A i \in 1..Len(b) : Names(s)[g[i]] = Names(b)[i]
    BY <1>1 DEF MergedBy, Names
  <2> QED BY <1>1, <1>2, <2>1, <2>2 DEF MergedBy
<1>4. Merged(Names(s), Names(a), Names(b))
  BY <1>3 DEF Merged
<1> QED BY <1>2, <1>4, MergedPlaces

LEMMA FewPlaces ==
    \A u, v : Places(<<>>, u) = 0 /\ Places(<<v>>, u) = One(u, v)
<1> SUFFICES ASSUME NEW u, NEW v PROVE Places(<<>>, u) = 0 /\ Places(<<v>>, u) = One(u, v)
  OBVIOUS
<1>1. {i \in 1..Len(<<>>) : <<>>[i] = u} = {}
  OBVIOUS
<1>2. {i \in 1..Len(<<v>>) : <<v>>[i] = u} = IF u = v THEN {1} ELSE {}
  OBVIOUS
<1> QED BY <1>1, <1>2, FS_EmptySet, FS_Singleton DEF Places, One

LEMMA Joined ==
    ASSUME NEW S, NEW a \in Seq(S), NEW b \in Seq(S)
    PROVE  Merged(a \o b, a, b)
<1> DEFINE f == [i \in 1..Len(a) |-> i]
           g == [i \in 1..Len(b) |-> Len(a) + i]
           s == a \o b
<1>1. Len(a) \in Nat /\ Len(b) \in Nat /\ Len(s) = Len(a) + Len(b)
  OBVIOUS
<1>2. \A k \in 1..Len(s) : (\E i \in 1..Len(a) : k = i) \/ (\E j \in 1..Len(b) : k = Len(a) + j)
  <2> HIDE DEF s
  <2>1. ASSUME NEW m \in Nat, NEW n \in Nat, NEW k \in 1..m + n
        PROVE  k \in 1..m \/ (k - m \in 1..n /\ k = m + (k - m))
    OBVIOUS
  <2>2. ASSUME NEW k \in 1..Len(s)
        PROVE  k \in 1..Len(a) \/ (k - Len(a) \in 1..Len(b) /\ k = Len(a) + (k - Len(a)))
    BY <1>1, <2>1
  <2> QED BY <2>2
<1>3. f \in [1..Len(a) -> 1..Len(s)] /\ g \in [1..Len(b) -> 1..Len(s)]
  BY <1>1
<1>4. (\A i \in 1..Len(a) : s[i] = a[i]) /\ (\A i \in 1..Len(b) : s[Len(a) + i] = b[i])
  <2>1. \A i \in 1..Len(a) : s[i] = a[i]
    OBVIOUS
  <2>2. ASSUME NEW i \in 1..Len(b) PROVE s[Len(a) + i] = b[i]
    <3>1. Len(a) + i \in 1..Len(a) + Len(b) /\ Len(a) + i > Len(a) /\ Len(a) + i - Len(a) = i
      BY <1>1
    <3> QED BY <3>1, <1>1
  <2> QED BY <2>1, <2>2
<1> HIDE DEF s
<1>5. MergedBy(s, a, b, f, g)
  BY <1>1, <1>2, <1>3, <1>4 DEF MergedBy
<1> QED BY <1>5 DEF Merged, s

LEMMA JoinedPlaces ==
    ASSUME NEW a \in Seq(Uuids), NEW b \in Seq(Uuids)
    PROVE  \A u : Places(a \o b, u) = Places(a, u) + Places(b, u)
<1>1. a \o b \in Seq(Uuids) /\ Merged(a \o b, a, b)
  BY Joined
<1>2. ASSUME NEW s \in Seq(Uuids), Merged(s, a, b)
      PROVE  \A u : Places(s, u) = Places(a, u) + Places(b, u)
  BY <1>2, MergedPlaces
<1> QED BY <1>1, <1>2

LEMMA Halves ==
    ASSUME NEW S, NEW s \in Seq(S), NEW n \in 0..Len(s)
    PROVE  LET a == SubSeq(s, 1, n)
               b == SubSeq(s, n + 1, Len(s))
           IN  a \in Seq(S) /\ b \in Seq(S) /\ Len(a) = n /\ Len(b) = Len(s) - n /\ s = a \o b
<1> DEFINE a == SubSeq(s, 1, n)
           b == SubSeq(s, n + 1, Len(s))
<1>1. Len(s) \in Nat /\ \A i \in 1..Len(s) : s[i] \in S
  OBVIOUS
<1>2. a \in Seq(S) /\ Len(a) = n /\ \A i \in 1..n : a[i] = s[i]
  <2>1. \A i \in 1..n : s[i] \in S
    BY <1>1
  <2> QED BY <2>1, <1>1, SubSeqProperties
<1>3. b \in Seq(S) /\ Len(b) = Len(s) - n /\ \A i \in 1..Len(s) - n : b[i] = s[n + i]
  <2>1. \A i \in n + 1..Len(s) : s[i] \in S
    BY <1>1
  <2>2. b \in Seq(S) /\ Len(b) = Len(s) - n /\ \A i \in 1..Len(s) - n : b[i] = s[n + 1 + i - 1]
    BY <2>1, <1>1, SubSeqProperties
  <2>3. \A i \in 1..Len(s) - n : n + 1 + i - 1 = n + i
    BY <1>1
  <2> QED BY <2>2, <2>3
<1> HIDE DEF a, b
<1>4. n \in Nat /\ Len(s) - n \in Nat /\ n + (Len(s) - n) = Len(s)
  BY <1>1
<1>5. /\ a \o b \in Seq(S) /\ Len(a \o b) = Len(a) + Len(b)
      /\ \A i \in 1..Len(a) + Len(b) : (a \o b)[i] = IF i <= Len(a) THEN a[i] ELSE b[i - Len(a)]
  BY <1>2, <1>3
<1>6. \A i \in 1..Len(s) : (a \o b)[i] = IF i <= n THEN a[i] ELSE b[i - n]
  BY <1>2, <1>3, <1>4, <1>5
<1>7. \A i \in 1..Len(s) : (a \o b)[i] = s[i]
  <2> SUFFICES ASSUME NEW i \in 1..Len(s) PROVE (a \o b)[i] = s[i]
    OBVIOUS
  <2>1. CASE i <= n
    <3>1. i \in 1..n
      BY <2>1, <1>1, <1>4
    <3> QED BY <3>1, <2>1, <1>2, <1>6
  <2>2. CASE i > n
    <3>1. i - n \in 1..Len(s) - n /\ n + (i - n) = i /\ ~ (i <= n)
      BY <2>2, <1>1, <1>4
    <3> QED BY <3>1, <1>3, <1>6
  <2>3. i <= n \/ i > n
    BY <1>1, <1>4
  <2> QED BY <2>1, <2>2, <2>3
<1>8. s = a \o b
  <2>1. Len(a \o b) = Len(s)
    BY <1>2, <1>3, <1>4, <1>5
  <2> HIDE DEF a, b
  <2> QED BY <2>1, <1>5, <1>7, SeqEqual
<1> QED BY <1>2, <1>3, <1>8 DEF a, b

LEMMA InsertedIsMerged ==
    ASSUME NEW S, NEW s \in Seq(S), NEW u \in S, NEW at \in 1..Len(s) + 1
    PROVE  Merged(InsertAt(s, at, u), s, <<u>>)
<1> DEFINE t == InsertAt(s, at, u)
           f == [i \in 1..Len(s) |-> IF i < at THEN i ELSE i + 1]
           g == [i \in 1..1 |-> at]
<1>1. /\ t \in Seq(S) /\ Len(t) = Len(s) + 1 /\ Len(s) \in Nat
      /\ \A i \in 1..Len(t) : t[i] = IF i < at THEN s[i] ELSE IF i = at THEN u ELSE s[i - 1]
  BY Inserted
<1> HIDE DEF t
<1>2. f \in [1..Len(s) -> 1..Len(t)] /\ g \in [1..Len(<<u>>) -> 1..Len(t)]
  BY <1>1
<1>3. \A i \in 1..Len(s) : t[f[i]] = s[i]
  <2> SUFFICES ASSUME NEW i \in 1..Len(s) PROVE t[f[i]] = s[i]
    OBVIOUS
  <2>1. CASE i < at
    BY <2>1, <1>1
  <2>2. CASE ~ (i < at)
    <3>1. f[i] = i + 1 /\ i + 1 \in 1..Len(t) /\ ~ (i + 1 < at) /\ i + 1 # at /\ i + 1 - 1 = i
      BY <2>2, <1>1
    <3> QED BY <3>1, <1>1
  <2> QED BY <2>1, <2>2
<1>4. t[at] = u /\ \A i \in 1..1 : g[i] = at /\ <<u>>[i] = u /\ i = 1
  BY <1>1
<1>5. ASSUME NEW k \in 1..Len(t)
      PROVE  (\E i \in 1..Len(s) : k = f[i]) \/ k = at
  <2>1. CASE k < at
    <3>1. k \in 1..Len(s) /\ f[k] = k
      BY <2>1, <1>1
    <3> QED BY <3>1
  <2>2. CASE k > at
    <3>1. k - 1 \in 1..Len(s) /\ f[k - 1] = k
      BY <2>2, <1>1
    <3> QED BY <3>1
  <2> QED BY <2>1, <2>2, <1>1
<1>6. /\ \A i, j \in 1..Len(s) : f[i] = f[j] => i = j
      /\ \A i \in 1..Len(s) : f[i] # at
  BY <1>1
<1> HIDE DEF f, g
<1>7. MergedBy(t, s, <<u>>, f, g)
  BY <1>1, <1>2, <1>3, <1>4, <1>5, <1>6 DEF MergedBy
<1> QED BY <1>7 DEF Merged, t

LEMMA PairsAreMerged ==
    ASSUME NEW S, NEW s \in Seq(S), NEW n \in Nat, Len(s) = 2 * n
    PROVE  /\ Merged(s, Every2nd(s, 1), Every2nd(s, 2))
           /\ Len(Every2nd(s, 1)) = n /\ Len(Every2nd(s, 2)) = n
<1> DEFINE a == Every2nd(s, 1)
           b == Every2nd(s, 2)
           f == [i \in 1..n |-> 2 * i - 1]
           g == [i \in 1..n |-> 2 * i]
<1>1. (Len(s) + 2 - 1) \div 2 = n /\ (Len(s) + 2 - 2) \div 2 = n
  OBVIOUS
<1>2. a = [i \in 1..n |-> s[2 * i - 2 + 1]] /\ b = [i \in 1..n |-> s[2 * i - 2 + 2]]
  BY <1>1 DEF Every2nd
<1>3. Len(a) = n /\ Len(b) = n
  BY <1>2
<1>4. \A i \in 1..n : 2 * i - 2 + 1 = 2 * i - 1 /\ 2 * i - 2 + 2 = 2 * i
  OBVIOUS
<1>5. \A i \in 1..n : a[i] = s[2 * i - 1] /\ b[i] = s[2 * i]
  BY <1>2, <1>4
<1> HIDE DEF a, b
<1>6. f \in [1..n -> 1..Len(s)] /\ g \in [1..n -> 1..Len(s)]
  OBVIOUS
<1>7. ASSUME NEW k \in 1..Len(s)
      PROVE  (\E i \in 1..n : k = 2 * i - 1) \/ (\E j \in 1..n : k = 2 * j)
  <2>1. k = 2 * (k \div 2) \/ k = 2 * (k \div 2 + 1) - 1
    OBVIOUS
  <2>2. CASE k = 2 * (k \div 2)
    <3>1. k \div 2 \in 1..n
      BY <2>2
    <3> QED BY <2>2, <3>1
  <2>3. CASE k = 2 * (k \div 2 + 1) - 1
    <3>1. k \div 2 + 1 \in 1..n
      BY <2>3
    <3> QED BY <2>3, <3>1
  <2> QED BY <2>1, <2>2, <2>3
<1>8. \A i, j \in 1..n : 2 * i - 1 # 2 * j
  OBVIOUS
<1>9. MergedBy(s, a, b, f, g)
  BY <1>3, <1>5, <1>6, <1>7, <1>8 DEF MergedBy
<1> QED BY <1>3, <1>9 DEF Merged, a, b

LEMMA LastIsJoined ==
    ASSUME NEW S, NEW s \in Seq(S), s # <<>>
    PROVE  /\ Front(s) \in Seq(S) /\ Last(s) \in S /\ s = Front(s) \o <<Last(s)>>
           /\ Len(s) \in Nat \ {0} /\ Len(Front(s)) = Len(s) - 1
<1>1. Len(s) \in Nat \ {0} /\ s[Len(s)] \in S
  OBVIOUS
<1> DEFINE n == Len(s) - 1
           a == SubSeq(s, 1, n)
           b == SubSeq(s, n + 1, Len(s))
<1>2. a \in Seq(S) /\ b \in Seq(S) /\ Len(a) = n /\ Len(b) = Len(s) - n /\ s = a \o b
  <2>1. n \in 0..Len(s)
    BY <1>1
  <2> HIDE DEF n
  <2> QED BY <2>1, Halves
<1>3. n + 1 = Len(s) /\ Len(s) - n = 1
  BY <1>1
<1>4. b = <<s[Len(s)]>>
  <2>1. b[1] = s[Len(s)]
    <3>1. \A i \in n + 1..Len(s) : s[i] \in S
      BY <1>1
    <3>2. \A i \in 1..Len(s) - (n + 1) + 1 : b[i] = s[n + 1 + i - 1]
      BY <3>1, <1>1, SubSeqProperties
    <3> QED BY <3>2, <1>1, <1>3
  <2> HIDE DEF b
  <2> QED BY <2>1, <1>2, <1>3
<1> QED BY <1>1, <1>2, <1>4 DEF Front, Last

LEMMA OrderIsMerged ==
    ASSUME NEW S, NEW s \in Seq(S), NEW o \in Orders(s)
    PROVE  o \in Seq(S) /\ Len(o) = Len(s) /\ Merged(s, o, <<>>)
<1>1. PICK f \in [1..Len(s) -> 1..Len(s)] :
         /\ \A i, j \in 1..Len(s) : f[i] = f[j] => i = j
         /\ o = [i \in 1..Len(s) |-> s[f[i]]]
  BY DEF Orders
<1>2. o \in Seq(S) /\ Len(o) = Len(s)
  BY OrdersType
<1>3. \A k \in 1..Len(s) : \E i \in 1..Len(s) : k = f[i]
  <2>1. f \in Injection(1..Len(s), 1..Len(s))
    BY <1>1 DEF Injection, IsInjective
  <2>2. IsFiniteSet(1..Len(s))
    BY FS_Interval
  <2>3. f \in Surjection(1..Len(s), 1..Len(s))
    BY <2>1, <2>2, FS_Injection
  <2> QED BY <2>3 DEF Surjection
<1>4. \A i \in 1..Len(s) : s[f[i]] = o[i]
  BY <1>1
<1> DEFINE g == [i \in 1..0 |-> 0]
<1>5. MergedBy(s, o, <<>>, f, g)
  BY <1>1, <1>2, <1>3, <1>4 DEF MergedBy
<1> QED BY <1>2, <1>5 DEF Merged

LEMMA ReverseIsMerged ==
    ASSUME NEW S, NEW s \in Seq(S)
    PROVE  Reverse(s) \in Seq(S) /\ Merged(s, Reverse(s), <<>>)
<1> DEFINE n == Len(s)
           r == Reverse(s)
           f == [i \in 1..n |-> n - i + 1]
           g == [i \in 1..0 |-> 0]
<1>1. n \in Nat /\ r = [i \in 1..n |-> s[n - i + 1]]
  BY DEF Reverse
<1>2. Len(r) = n
  BY <1>1
<1>3. f \in [1..n -> 1..n] /\ \A i, j \in 1..n : f[i] = f[j] => i = j
  BY <1>1
<1>4. \A k \in 1..n : n - k + 1 \in 1..n /\ k = f[n - k + 1]
  BY <1>1
<1>5. \A i \in 1..n : s[f[i]] = r[i]
  BY <1>1
<1> HIDE DEF f, r
<1>6. MergedBy(s, r, <<>>, f, g)
  BY <1>2, <1>3, <1>4, <1>5 DEF MergedBy
<1> QED BY <1>6, ReverseType DEF Merged, r

LEMMA SamePlaces ==
    ASSUME NEW S, NEW s \in Seq(S), NEW o \in Seq(S), Merged(s, o, <<>>)
    PROVE  \A u : Places(o, u) = Places(s, u)
<1>1. \A u : Places(s, u) = Places(o, u) + Places(<<>>, u)
  <2>1. <<>> \in Seq(S)
    OBVIOUS
  <2>2. \A a, b \in Seq(S) : Merged(s, a, b) => \A u : Places(s, u) = Places(a, u) + Places(b, u)
    BY MergedPlaces
  <2> QED BY <2>1, <2>2
<1>2. \A u : Places(o, u) \in Nat
  BY AtFinite
<1> QED BY <1>1, <1>2, FewPlaces

LEMMA SameNames ==
    ASSUME NEW s \in Seq(Entry), NEW o \in Seq(Entry), Merged(s, o, <<>>)
    PROVE  \A u : Places(Names(o), u) = Places(Names(s), u)
<1>1. \A u : Places(Names(s), u) = Places(Names(o), u) + Places(Names(<<>>), u)
  <2>1. <<>> \in Seq(Entry)
    OBVIOUS
  <2> QED BY <2>1, MergedNames
<1>2. \A u : Places(Names(o), u) \in Nat
  BY NamesType, AtFinite
<1>3. Names(<<>>) = <<>>
  BY DEF Names
<1> QED BY <1>1, <1>2, <1>3, FewPlaces

-----------------------------------------------------------------------------
(* Counting the places of somebody in the round and in the ranking. *)

Seats(s, u) == Places(Names(s), u)

LEMMA SeatsType ==
    ASSUME NEW s \in Seq(Entry)
    PROVE  \A u : Seats(s, u) \in Nat
BY NamesType, AtFinite DEF Seats

LEMMA NoSeats == \A u : Seats(<<>>, u) = 0
<1>1. Names(<<>>) = <<>>
  BY DEF Names
<1> QED BY <1>1, FewPlaces DEF Seats

LEMMA OneSeat == \A e, u : Seats(<<e>>, u) = One(u, e.uuid)
<1> SUFFICES ASSUME NEW e, NEW u PROVE Seats(<<e>>, u) = One(u, e.uuid)
  OBVIOUS
<1>1. Names(<<e>>) = <<e.uuid>>
  BY DEF Names
<1> QED BY <1>1, FewPlaces DEF Seats

LEMMA SeatsJoined ==
    ASSUME NEW a \in Seq(Entry), NEW b \in Seq(Entry)
    PROVE  \A u : Seats(a \o b, u) = Seats(a, u) + Seats(b, u)
<1>1. a \o b \in Seq(Entry) /\ Merged(a \o b, a, b)
  BY Joined
<1> QED BY <1>1, MergedNames DEF Seats

LEMMA SeatsOfPairs ==
    ASSUME NEW s \in Seq(Entry), NEW n \in Nat, Len(s) = 2 * n
    PROVE  \A u : Seats(s, u) = Seats(Every2nd(s, 1), u) + Seats(Every2nd(s, 2), u)
<1>1. /\ Merged(s, Every2nd(s, 1), Every2nd(s, 2))
      /\ Every2nd(s, 1) \in Seq(Entry) /\ Every2nd(s, 2) \in Seq(Entry)
  <2>1. \A from \in 1..2 : Every2nd(s, from) \in Seq(Entry)
    BY Every2ndType
  <2>2. Merged(s, Every2nd(s, 1), Every2nd(s, 2))
    BY PairsAreMerged, Zenon
  <2> QED BY <2>1, <2>2
<1> QED BY <1>1, MergedNames DEF Seats

LEMMA LastSeat ==
    ASSUME NEW s \in Seq(Entry), s # <<>>
    PROVE  /\ \A u : Seats(s, u) = Seats(Front(s), u) + One(u, Last(s).uuid)
           /\ Front(s) \in Seq(Entry) /\ Last(s).uuid \in Uuids
           /\ Len(s) \in Nat \ {0} /\ Len(Front(s)) = Len(s) - 1
<1>1. /\ Front(s) \in Seq(Entry) /\ Last(s) \in Entry /\ s = Front(s) \o <<Last(s)>>
      /\ Len(s) \in Nat \ {0} /\ Len(Front(s)) = Len(s) - 1
  BY LastIsJoined
<1>2. <<Last(s)>> \in Seq(Entry)
  BY <1>1
<1>3. \A u : Seats(Front(s) \o <<Last(s)>>, u) = Seats(Front(s), u) + Seats(<<Last(s)>>, u)
  BY <1>1, <1>2, SeatsJoined
<1>4. \A u : Seats(s, u) = Seats(Front(s), u) + Seats(<<Last(s)>>, u)
  BY <1>1, <1>3
<1>5. Last(s).uuid \in Uuids
  BY <1>1 DEF Entry
<1> QED BY <1>1, <1>4, <1>5, OneSeat

LEMMA InsertEltPlaces ==
    ASSUME NEW points, NEW s \in Seq(Uuids), NEW w \in Uuids
    PROVE  /\ InsertElt(s, w, points) \in Seq(Uuids)
           /\ \A u : Places(InsertElt(s, w, points), u) = Places(s, u) + One(u, w)
<1> DEFINE below == {i \in 1..Len(s) : points[w] >= points[s[i]]}
           at == IF below = {} THEN Len(s) + 1 ELSE Min(below)
           t == InsertAt(s, at, w)
<1>1. at \in 1..Len(s) + 1
  <2>1. CASE below = {}
    BY <2>1
  <2>2. CASE below # {}
    <3>1. below \in SUBSET Nat
      OBVIOUS
    <3>2. Min(below) \in below
      BY <2>2, <3>1, MinOf
    <3> QED BY <2>2, <3>2
  <2> QED BY <2>1, <2>2
<1> HIDE DEF below, at
<1>2. t \in Seq(Uuids)
  BY <1>1, Inserted
<1>3. Merged(t, s, <<w>>)
  BY <1>1, InsertedIsMerged
<1> HIDE DEF t
<1>4. <<w>> \in Seq(Uuids)
  OBVIOUS
<1>5. \A u : Places(t, u) = Places(s, u) + Places(<<w>>, u)
  <2>1. \A a, b \in Seq(Uuids) : Merged(t, a, b) => \A u : Places(t, u) = Places(a, u) + Places(b, u)
    BY <1>2, MergedPlaces
  <2> QED BY <1>3, <1>4, <2>1
<1>6. \A u : Places(t, u) = Places(s, u) + One(u, w)
  BY <1>5, FewPlaces
<1> QED BY <1>2, <1>6 DEF InsertElt, t, at, below

\* Whoever has fought remains or is ranked.
IsPlaced(placed, left, s, w, t) ==
    /\ placed[1] \in Seq(Entry) /\ placed[2] \in Seq(Uuids)
    /\ t # 0 => /\ placed[2] = s /\ Len(placed[1]) = Len(left) + 1
                /\ \A u : Seats(placed[1], u) = Seats(left, u) + One(u, w)
    /\ t = 0 => /\ placed[1] = left
                /\ \A u : Places(placed[2], u) = Places(s, u) + One(u, w)

LEMMA PlaceKeepsPlaces ==
    ASSUME NEW left \in Seq(Entry), NEW s \in Seq(Uuids), NEW points, NEW w \in Uuids, NEW t \in Nat
    PROVE  IsPlaced(Place(left, s, points, w, t), left, s, w, t)
<1>0. /\ InsertElt(s, w, points) \in Seq(Uuids)
      /\ \A u : Places(InsertElt(s, w, points), u) = Places(s, u) + One(u, w)
  <2>1. InsertElt(s, w, points) \in Seq(Uuids)
    BY InsertEltPlaces
  <2>2. \A u : Places(InsertElt(s, w, points), u) = Places(s, u) + One(u, w)
    BY InsertEltPlaces
  <2> QED BY <2>1, <2>2
<1> DEFINE e == [uuid |-> w, ticketDay |-> t]
<1>1. CASE t # 0
  <2>1. <<e>> \in Seq(Entry) /\ Append(left, e) = left \o <<e>> /\ e.uuid = w
    BY DEF Entry
  <2>2. Append(left, e) \in Seq(Entry) /\ Len(Append(left, e)) = Len(left) + 1
    BY DEF Entry
  <2>3. \A u : Seats(left \o <<e>>, u) = Seats(left, u) + Seats(<<e>>, u)
    BY <2>1, SeatsJoined
  <2>4. \A u : Seats(Append(left, e), u) = Seats(left, u) + One(u, w)
    <3> HIDE DEF e
    <3> QED BY <2>1, <2>3, OneSeat
  <2> QED BY <1>1, <2>2, <2>4 DEF Place, IsPlaced
<1>2. CASE t = 0
  BY <1>0, <1>2 DEF Place, IsPlaced
<1> QED BY <1>1, <1>2

LEMMA PairPlaces == \A u, a, b : Places(<<a, b>>, u) = One(u, a) + One(u, b)
<1> SUFFICES ASSUME NEW u, NEW a, NEW b PROVE Places(<<a, b>>, u) = One(u, a) + One(u, b)
  OBVIOUS
<1>1. {i \in 1..Len(<<a, b>>) : <<a, b>>[i] = u} = (IF u = a THEN {1} ELSE {}) \cup (IF u = b THEN {2} ELSE {})
  OBVIOUS
<1>2. Cardinality({1}) = 1 /\ Cardinality({2}) = 1 /\ Cardinality({}) = 0 /\ Cardinality({1, 2}) = 2
  <2>1. IsFiniteSet({1}) /\ 2 \notin {1} /\ {1} \cup {2} = {1, 2}
    <3>1. IsFiniteSet({1})
      BY FS_Singleton, Zenon
    <3> QED BY <3>1
  <2>2. Cardinality({1} \cup {2}) = Cardinality({1}) + 1
    BY <2>1, FS_AddElement
  <2>3. Cardinality({1}) = 1 /\ Cardinality({2}) = 1 /\ Cardinality({}) = 0
    <3>1. Cardinality({1}) = 1 /\ Cardinality({2}) = 1
      BY FS_Singleton, Zenon
    <3> QED BY <3>1, FS_EmptySet
  <2> QED BY <2>1, <2>2, <2>3
<1>3. /\ {1} \cup {2} = {1, 2} /\ {1} \cup {} = {1} /\ {} \cup {2} = {2} /\ {} \cup {} = {}
  OBVIOUS
<1> QED BY <1>1, <1>2, <1>3 DEF Places, One

-----------------------------------------------------------------------------
(* Everybody keeps his place: the invariant of EveryoneRanked. *)

Alive(u) == Seats(userArea, u) + Seats(area1, u) + Seats(area2, u) + Seats(sOne, u) + Seats(remain, u)
InDuel(u) == IF stage = "second" THEN One(u, duel.ua1) + One(u, duel.ua2) ELSE 0
Ranking == IF stage = "done" THEN final ELSE ranks

\* Players fight in pairs, and between the rounds all of them are in one list.
AreaInv ==
    /\ Len(area1) = Len(area2)
    /\ stage \in {"list", "round", "rank", "short", "done"} =>
          area1 = <<>> /\ area2 = <<>> /\ sOne = <<>> /\ remain = <<>>
    /\ stage \in {"list", "first", "second", "set1", "set2", "done"} => userArea = <<>>
    /\ stage = "list" => entries = <<>> /\ ranks = <<>>

\* Also when a robot has taken another's place, nobody else has lost his own.
PlaceInv ==
    \A u \in Uuids : (mixed => u \notin AllRobots) =>
       Places(entries, u) = Alive(u) + InDuel(u) + Places(Ranking, u)

LEMMA Counts ==
    ASSUME PlayTypeOK
    PROVE  \A u : /\ Seats(userArea, u) \in Nat /\ Seats(area1, u) \in Nat /\ Seats(area2, u) \in Nat
                  /\ Seats(sOne, u) \in Nat /\ Seats(remain, u) \in Nat
                  /\ Places(entries, u) \in Nat /\ Places(ranks, u) \in Nat /\ Places(final, u) \in Nat
<1>1. \A u : /\ Seats(userArea, u) \in Nat /\ Seats(area1, u) \in Nat /\ Seats(area2, u) \in Nat
             /\ Seats(sOne, u) \in Nat /\ Seats(remain, u) \in Nat
  BY SeatsType DEF PlayTypeOK
<1>2. \A u : Places(entries, u) \in Nat /\ Places(ranks, u) \in Nat /\ Places(final, u) \in Nat
  BY AtFinite DEF PlayTypeOK
<1> QED BY <1>1, <1>2

LEMMA PlacesStay ==
    ASSUME AreaInv, PlaceInv,
           UNCHANGED <<entries, userArea, area1, area2, sOne, remain, ranks, mixed, final>>,
           \/ UNCHANGED <<stage, duel>>
           \/ stage \in {"set1", "set2"} /\ stage' \in {"set2", "first"}
    PROVE  AreaInv' /\ PlaceInv'
<1>1. AreaInv'
  BY DEF AreaInv
<1>2. /\ \A u : Alive(u)' = Alive(u) /\ InDuel(u)' = InDuel(u)
      /\ Ranking' = Ranking
  BY DEF Alive, InDuel, Ranking
<1>3. PlaceInv'
  BY <1>2 DEF PlaceInv
<1> QED BY <1>1, <1>3

LEMMA FillUpPlaces ==
    ASSUME AreaInv, PlayTypeOK, PlayTypeOK', FillUp
    PROVE  AreaInv' /\ PlaceInv'
<1>0. /\ stage' = "round" /\ stage = "list"
      /\ userArea' = [i \in 1..Len(entries') |-> AsEntry(entries'[i])]
      /\ UNCHANGED <<area1, area2, sOne, remain, ranks>>
  BY DEF FillUp, Playing, results
<1>1. area1 = <<>> /\ area2 = <<>> /\ sOne = <<>> /\ remain = <<>> /\ ranks = <<>>
  BY <1>0 DEF AreaInv
<1>2. entries' \in Seq(Uuids)
  BY DEF PlayTypeOK
<1>3. Names(userArea') = entries'
  <2>1. Len(userArea') = Len(entries') /\ \A i \in 1..Len(entries') : userArea'[i].uuid = entries'[i]
    BY <1>0, <1>2 DEF AsEntry
  <2> QED BY <1>2, <2>1 DEF Names
<1>4. AreaInv'
  BY <1>0, <1>1 DEF AreaInv
<1>5. ASSUME NEW u PROVE Places(entries', u) = Alive(u)' + InDuel(u)' + Places(Ranking', u)
  <2>1. Alive(u)' = Seats(userArea', u) + 0 + 0 + 0 + 0 /\ InDuel(u)' = 0 /\ Places(Ranking', u) = 0
    BY <1>0, <1>1, NoSeats, FewPlaces DEF Alive, InDuel, Ranking
  <2>2. Seats(userArea', u) = Places(entries', u) /\ Places(entries', u) \in Nat
    BY <1>2, <1>3, AtFinite DEF Seats
  <2> QED BY <2>1, <2>2
<1> QED BY <1>4, <1>5 DEF PlaceInv

\* The players of a round are those of the two areas, and the one who sits it out.
LEMMA RoundBegins ==
    ASSUME AreaInv, PlayTypeOK, PlayTypeOK', FightOne, ~ RoundsOver
    PROVE  /\ stage' = "first" /\ userArea' = <<>> /\ remain' = <<>>
           /\ Len(area1') = Len(userArea) \div 2 /\ Len(area2') = Len(userArea) \div 2
           /\ Len(sOne') = Len(userArea) % 2
           /\ \A u : Seats(userArea, u) = Seats(area1', u) + Seats(area2', u) + Seats(sOne', u)
<1> DEFINE odd == Len(userArea) % 2
           even == SubSeq(userArea, 1 + odd, Len(userArea))
           n == Len(userArea) \div 2
<1>1. /\ stage' = "first" /\ sOne' = SubSeq(userArea, 1, odd)
      /\ area1' = Every2nd(even, 1) /\ area2' = Every2nd(even, 2)
      /\ userArea' = <<>> /\ remain' = <<>>
  BY DEF FightOne
<1>2. /\ odd \in 0..1 /\ odd \in 0..Len(userArea) /\ 1 + odd = odd + 1
      /\ n \in Nat /\ Len(userArea) - odd = 2 * n /\ userArea \in Seq(Entry)
  <2>1. userArea \in Seq(Entry) /\ Len(userArea) \in Nat
    BY DEF PlayTypeOK
  <2> QED BY <2>1
<1>3. n = Len(userArea) \div 2 /\ odd = Len(userArea) % 2
  OBVIOUS
<1> HIDE DEF odd, n
<1>4. /\ SubSeq(userArea, 1, odd) \in Seq(Entry) /\ even \in Seq(Entry) /\ Len(even) = 2 * n
      /\ Len(SubSeq(userArea, 1, odd)) = odd /\ userArea = SubSeq(userArea, 1, odd) \o even
  <2>1. even = SubSeq(userArea, odd + 1, Len(userArea))
    BY <1>2
  <2> HIDE DEF even
  <2> QED BY <1>2, <2>1, Halves
<1> HIDE DEF even
<1>5. \A u : Seats(SubSeq(userArea, 1, odd) \o even, u) = Seats(SubSeq(userArea, 1, odd), u) + Seats(even, u)
  BY <1>4, SeatsJoined
<1>6. \A u : Seats(userArea, u) = Seats(sOne', u) + Seats(even, u)
  BY <1>1, <1>4, <1>5
<1>7. \A u : Seats(even, u) = Seats(area1', u) + Seats(area2', u)
  BY <1>1, <1>2, <1>4, SeatsOfPairs
<1>8. Len(area1') = n /\ Len(area2') = n
  BY <1>1, <1>2, <1>4, PairsAreMerged
<1>9. \A u : Seats(area1', u) \in Nat /\ Seats(area2', u) \in Nat /\ Seats(sOne', u) \in Nat
  BY SeatsType DEF PlayTypeOK
<1>10. \A u : Seats(userArea, u) = Seats(area1', u) + Seats(area2', u) + Seats(sOne', u)
  BY <1>6, <1>7, <1>9
<1> QED BY <1>1, <1>3, <1>4, <1>8, <1>10

LEMMA FightOnePlaces ==
    ASSUME AreaInv, PlaceInv, PlayTypeOK, PlayTypeOK', FightOne
    PROVE  AreaInv' /\ PlaceInv'
<1>0. /\ stage = "round" /\ UNCHANGED <<entries, ranks, duel, mixed, final>>
      /\ area1 = <<>> /\ area2 = <<>> /\ sOne = <<>> /\ remain = <<>>
  BY DEF FightOne, Playing, AreaInv
<1>1. CASE stage' = "rank" /\ UNCHANGED <<field, remain>>
  <2>1. AreaInv'
    BY <1>0, <1>1 DEF AreaInv, field
  <2>2. (\A u : Alive(u)' = Alive(u) /\ InDuel(u)' = InDuel(u)) /\ Ranking' = Ranking
    BY <1>0, <1>1 DEF Alive, InDuel, Ranking, field
  <2> QED BY <1>0, <2>1, <2>2 DEF PlaceInv
<1>2. CASE ~ RoundsOver
  <2>1. /\ stage' = "first" /\ userArea' = <<>> /\ remain' = <<>> /\ Len(area1') = Len(area2')
        /\ \A u : Seats(userArea, u) = Seats(area1', u) + Seats(area2', u) + Seats(sOne', u)
    BY <1>2, RoundBegins
  <2>2. AreaInv'
    BY <1>0, <2>1 DEF AreaInv
  <2>3. ASSUME NEW u PROVE Alive(u)' = Alive(u) /\ InDuel(u)' = InDuel(u)
    <3>1. Alive(u) = Seats(userArea, u) + 0 + 0 + 0 + 0
      BY <1>0, NoSeats DEF Alive
    <3>2. Alive(u)' = 0 + Seats(area1', u) + Seats(area2', u) + Seats(sOne', u) + 0
      BY <2>1, NoSeats DEF Alive
    <3>3. Seats(area1', u) \in Nat /\ Seats(area2', u) \in Nat /\ Seats(sOne', u) \in Nat
      BY SeatsType DEF PlayTypeOK
    <3>4. InDuel(u)' = InDuel(u)
      BY <1>0, <2>1 DEF InDuel
    <3> QED BY <2>1, <3>1, <3>2, <3>3, <3>4
  <2>4. Ranking' = Ranking
    BY <1>0, <2>1 DEF Ranking
  <2> QED BY <1>0, <2>2, <2>3, <2>4 DEF PlaceInv
<1> QED BY <1>1, <1>2 DEF FightOne

LEMMA FirstOfPairPlaces ==
    ASSUME AreaInv, PlaceInv, PlayTypeOK, PlayTypeOK', FirstOfPair
    PROVE  AreaInv' /\ PlaceInv'
<1> DEFINE u1 == Last(area1).uuid
           u2 == Last(area2).uuid
<1>0. /\ stage = "first" /\ stage' = "second"
      /\ duel' = [NoDuel EXCEPT !.ua1 = u1, !.ua2 = u2, !.t1 = ticket[u1]]
      /\ area1' = Front(area1) /\ area2' = Front(area2) /\ area1 # <<>> /\ area2 # <<>>
      /\ UNCHANGED <<entries, userArea, sOne, remain, ranks, mixed, final>>
  BY DEF FirstOfPair, Playing, results
<1>1. /\ \A u : Seats(area1, u) = Seats(area1', u) + One(u, u1)
      /\ Len(area1) \in Nat \ {0} /\ Len(area1') = Len(area1) - 1
  BY <1>0, LastSeat DEF PlayTypeOK
<1>2. /\ \A u : Seats(area2, u) = Seats(area2', u) + One(u, u2)
      /\ Len(area2) \in Nat \ {0} /\ Len(area2') = Len(area2) - 1
  BY <1>0, LastSeat DEF PlayTypeOK
<1> HIDE DEF u1, u2
<1>3. duel'.ua1 = u1 /\ duel'.ua2 = u2
  BY <1>0 DEF NoDuel
<1>4. AreaInv'
  BY <1>0, <1>1, <1>2 DEF AreaInv
<1>5. ASSUME NEW u PROVE Alive(u)' + InDuel(u)' = Alive(u) + InDuel(u)
  <2>1. Alive(u) = Seats(userArea, u) + (Seats(area1', u) + One(u, u1)) + (Seats(area2', u) + One(u, u2))
                   + Seats(sOne, u) + Seats(remain, u)
    BY <1>1, <1>2 DEF Alive
  <2>2. Alive(u)' = Seats(userArea, u) + Seats(area1', u) + Seats(area2', u) + Seats(sOne, u) + Seats(remain, u)
    BY <1>0 DEF Alive
  <2>3. InDuel(u) = 0 /\ InDuel(u)' = One(u, u1) + One(u, u2)
    BY <1>0, <1>3 DEF InDuel
  <2>4. /\ Seats(userArea, u) \in Nat /\ Seats(sOne, u) \in Nat /\ Seats(remain, u) \in Nat
        /\ Seats(area1', u) \in Nat /\ Seats(area2', u) \in Nat
    BY SeatsType DEF PlayTypeOK
  <2>5. One(u, u1) \in Nat /\ One(u, u2) \in Nat
    BY DEF One
  <2> QED BY <2>1, <2>2, <2>3, <2>4, <2>5
<1>6. Ranking' = Ranking
  BY <1>0 DEF Ranking
<1> QED BY <1>0, <1>4, <1>5, <1>6 DEF PlaceInv

\* What SecondOfPair does to those who remain and to the ranking.
Fought(u1, u2, t1, t2) ==
    /\ Len(remain') = Len(remain) + (IF t1 # 0 THEN 1 ELSE 0) + (IF t2 # 0 THEN 1 ELSE 0)
    /\ \A u : /\ Seats(remain', u) = Seats(remain, u) + (IF t1 # 0 THEN One(u, u1) ELSE 0)
                                     + (IF t2 # 0 THEN One(u, u2) ELSE 0)
              /\ Places(ranks', u) = Places(ranks, u) + (IF t1 # 0 THEN 0 ELSE One(u, u1))
                                     + (IF t2 # 0 THEN 0 ELSE One(u, u2))

LEMMA SecondOfPairFights ==
    ASSUME PlayTypeOK, StageInv, SecondOfPair
    PROVE  /\ stage = "second" /\ stage' = "set1"
           /\ UNCHANGED <<entries, ticket, tcopy, userArea, area1, area2, sOne, final>>
           /\ duel.ua1 \in Uuids /\ duel.ua2 \in Uuids /\ duel.t1 \in Nat /\ ticket[duel.ua2] \in Nat
           /\ mixed' = (mixed \/ NameOf1(duel.ua1, duel.ua2) # duel.ua1)
           /\ duel'.ua1 = duel.ua1 /\ duel'.ua2 = duel.ua2 /\ duel'.t1 \in Nat /\ duel'.t2 \in Nat
           /\ \E winner \in 1..2 :
                 <<duel'.t1, duel'.t2>> = AfterFight(duel.ua1, duel.ua2, duel.t1, ticket[duel.ua2], winner)
           /\ Fought(NameOf1(duel.ua1, duel.ua2), duel.ua2, duel'.t1, duel'.t2)
<1> DEFINE u1 == duel.ua1
           u2 == duel.ua2
           w == NameOf1(u1, u2)
<1>0. /\ stage = "second" /\ stage' = "set1"
      /\ UNCHANGED <<entries, ticket, tcopy, userArea, area1, area2, sOne, final>>
      /\ mixed' = (mixed \/ w # u1)
  BY DEF SecondOfPair, Playing, field
<1>1. PICK winner \in 1..2 :
         LET t == AfterFight(u1, u2, duel.t1, ticket[u2], winner)
             one == Place(remain, ranks, start', w, t[1])
             two == Place(one[1], one[2], start', u2, t[2])
         IN  /\ duel' = [duel EXCEPT !.t1 = t[1], !.t2 = t[2]]
             /\ remain' = two[1] /\ ranks' = two[2]
  BY DEF SecondOfPair
<1>2. /\ u1 \in Uuids /\ u2 \in Uuids /\ duel.t1 \in Nat /\ ticket[u2] \in Nat
      /\ remain \in Seq(Entry) /\ ranks \in Seq(Uuids) /\ w \in Uuids
  <2>1. u1 \in Uuids /\ u2 \in Uuids
    BY <1>0 DEF StageInv
  <2>2. w \in Uuids
    BY <2>1 DEF NameOf1
  <2> QED BY <2>1, <2>2 DEF PlayTypeOK
<1> DEFINE t == AfterFight(u1, u2, duel.t1, ticket[u2], winner)
           one == Place(remain, ranks, start', w, t[1])
           two == Place(one[1], one[2], start', u2, t[2])
<1>3. t[1] \in Nat /\ t[2] \in Nat
  BY <1>2, FightMovesPoints
<1>4. duel' = [duel EXCEPT !.t1 = t[1], !.t2 = t[2]] /\ remain' = two[1] /\ ranks' = two[2]
  BY <1>1
<1>5. <<t[1], t[2]>> = t
  BY DEF AfterFight
<1>6. t = AfterFight(u1, u2, duel.t1, ticket[u2], winner)
  OBVIOUS
<1> HIDE DEF t, w
<1>7. IsPlaced(one, remain, ranks, w, t[1])
  BY <1>2, <1>3, PlaceKeepsPlaces
<1> HIDE DEF one
<1>8. IsPlaced(two, one[1], one[2], u2, t[2])
  <2>1. one[1] \in Seq(Entry) /\ one[2] \in Seq(Uuids)
    BY <1>7 DEF IsPlaced
  <2> QED BY <1>2, <1>3, <2>1, PlaceKeepsPlaces
<1> HIDE DEF two
<1>9. duel'.ua1 = u1 /\ duel'.ua2 = u2 /\ duel'.t1 = t[1] /\ duel'.t2 = t[2]
  BY <1>4 DEF PlayTypeOK
<1> HIDE DEF u1, u2
<1>10. Fought(w, u2, t[1], t[2])
  <2>1. Len(remain) \in Nat /\ \A u : Seats(remain, u) \in Nat /\ Places(ranks, u) \in Nat
    BY <1>2, SeatsType, AtFinite
  <2>2. \A u : One(u, w) \in Nat /\ One(u, u2) \in Nat
    BY DEF One
  <2>3. CASE t[1] # 0 /\ t[2] # 0
    <3>1. /\ one[2] = ranks /\ Len(one[1]) = Len(remain) + 1
          /\ \A u : Seats(one[1], u) = Seats(remain, u) + One(u, w)
      BY <2>3, <1>7 DEF IsPlaced
    <3>2. /\ ranks' = one[2] /\ Len(remain') = Len(one[1]) + 1
          /\ \A u : Seats(remain', u) = Seats(one[1], u) + One(u, u2)
      BY <2>3, <1>4, <1>8 DEF IsPlaced
    <3>3. Len(remain') = Len(remain) + 1 + 1 /\ ranks' = ranks
      BY <2>1, <3>1, <3>2
    <3>4. \A u : Seats(remain', u) = Seats(remain, u) + One(u, w) + One(u, u2)
      BY <3>1, <3>2
    <3> QED BY <2>1, <2>3, <3>3, <3>4 DEF Fought
  <2>4. CASE t[1] # 0 /\ t[2] = 0
    BY <2>1, <2>2, <2>4, <1>4, <1>7, <1>8 DEF Fought, IsPlaced
  <2>5. CASE t[1] = 0 /\ t[2] # 0
    BY <2>1, <2>2, <2>5, <1>4, <1>7, <1>8 DEF Fought, IsPlaced
  <2>6. CASE t[1] = 0 /\ t[2] = 0
    BY <2>1, <2>2, <2>6, <1>4, <1>7, <1>8 DEF Fought, IsPlaced
  <2> QED BY <2>3, <2>4, <2>5, <2>6
<1>11. <<duel'.t1, duel'.t2>> = AfterFight(u1, u2, duel.t1, ticket[u2], winner)
  BY <1>5, <1>6, <1>9
<1>12. Fought(w, u2, duel'.t1, duel'.t2)
  BY <1>9, <1>10
<1> QED BY <1>0, <1>2, <1>3, <1>9, <1>11, <1>12 DEF u1, u2, w

LEMMA SecondOfPairPlaces ==
    ASSUME AreaInv, PlaceInv, PlayTypeOK, PlayTypeOK', StageInv, SecondOfPair
    PROVE  AreaInv' /\ PlaceInv'
<1> DEFINE u1 == duel.ua1
           u2 == duel.ua2
           w == NameOf1(u1, u2)
<1>1. /\ stage = "second" /\ stage' = "set1"
      /\ UNCHANGED <<entries, userArea, area1, area2, sOne, final>>
      /\ mixed' = (mixed \/ w # u1)
      /\ Fought(w, u2, duel'.t1, duel'.t2)
  BY SecondOfPairFights
<1>2. AreaInv'
  BY <1>1 DEF AreaInv
<1>3. ASSUME NEW u, mixed' => u \notin AllRobots
      PROVE  One(u, w) = One(u, u1)
  <2>1. CASE w = u1
    BY <2>1
  <2>2. CASE w # u1
    <3>1. mixed' /\ u1 \in AllRobots /\ w \in AllRobots
      BY <1>1, <2>2 DEF NameOf1
    <3> QED BY <1>3, <3>1 DEF One
  <2> QED BY <2>1, <2>2
<1>4. mixed => mixed'
  BY <1>1
<1> HIDE DEF w, u1, u2
<1>5. ASSUME NEW u, mixed' => u \notin AllRobots
      PROVE  Alive(u)' + InDuel(u)' + Places(Ranking', u) = Alive(u) + InDuel(u) + Places(Ranking, u)
  <2> DEFINE k == Seats(userArea, u) + Seats(area1, u) + Seats(area2, u) + Seats(sOne, u)
  <2>1. k \in Nat /\ Seats(remain, u) \in Nat /\ Places(ranks, u) \in Nat
    <3>1. /\ Seats(userArea, u) \in Nat /\ Seats(area1, u) \in Nat /\ Seats(area2, u) \in Nat
          /\ Seats(sOne, u) \in Nat /\ Seats(remain, u) \in Nat /\ Places(ranks, u) \in Nat
      BY Counts
    <3> QED BY <3>1
  <2>2. Alive(u) = k + Seats(remain, u) /\ Alive(u)' = k + Seats(remain', u)
    BY <1>1 DEF Alive
  <2>3. InDuel(u) = One(u, u1) + One(u, u2) /\ InDuel(u)' = 0
    BY <1>1 DEF InDuel, u1, u2
  <2>4. Places(Ranking, u) = Places(ranks, u) /\ Places(Ranking', u) = Places(ranks', u)
    BY <1>1 DEF Ranking
  <2>5. One(u, w) = One(u, u1) /\ One(u, u1) \in Nat /\ One(u, u2) \in Nat
    BY <1>3, <1>5 DEF One
  <2>6. /\ Seats(remain', u) = Seats(remain, u) + (IF duel'.t1 # 0 THEN One(u, w) ELSE 0)
                               + (IF duel'.t2 # 0 THEN One(u, u2) ELSE 0)
        /\ Places(ranks', u) = Places(ranks, u) + (IF duel'.t1 # 0 THEN 0 ELSE One(u, w))
                               + (IF duel'.t2 # 0 THEN 0 ELSE One(u, u2))
    BY <1>1 DEF Fought
  <2> HIDE DEF k
  <2> QED BY <2>1, <2>2, <2>3, <2>4, <2>5, <2>6
<1>6. PlaceInv'
  <2> SUFFICES ASSUME NEW u \in Uuids, mixed' => u \notin AllRobots
               PROVE  Places(entries', u) = Alive(u)' + InDuel(u)' + Places(Ranking', u)
    BY DEF PlaceInv
  <2>1. Places(entries, u) = Alive(u) + InDuel(u) + Places(Ranking, u)
    BY <1>4 DEF PlaceInv
  <2> QED BY <1>1, <1>5, <2>1
<1> QED BY <1>2, <1>6

LEMMA EndRoundPlaces ==
    ASSUME AreaInv, PlaceInv, PlayTypeOK, PlayTypeOK', EndRound
    PROVE  AreaInv' /\ PlaceInv'
<1>1. /\ stage = "first" /\ stage' = "round" /\ (area1 = <<>> \/ area2 = <<>>)
      /\ userArea' = remain \o sOne /\ sOne' = <<>> /\ remain' = <<>>
      /\ UNCHANGED <<entries, area1, area2, ranks, mixed, final>>
  BY DEF EndRound, Playing
<1>2. area1 = <<>> /\ area2 = <<>> /\ userArea = <<>>
  <2>1. Len(area1) = Len(area2) /\ area1 \in Seq(Entry) /\ area2 \in Seq(Entry) /\ userArea = <<>>
    BY <1>1 DEF AreaInv, PlayTypeOK
  <2> QED BY <1>1, <2>1
<1>3. AreaInv'
  BY <1>1, <1>2 DEF AreaInv
<1>4. ASSUME NEW u PROVE Alive(u)' = Alive(u) /\ InDuel(u)' = InDuel(u)
  <2>1. Seats(userArea', u) = Seats(remain, u) + Seats(sOne, u)
    BY <1>1, SeatsJoined DEF PlayTypeOK
  <2>2. Alive(u) = 0 + 0 + 0 + Seats(sOne, u) + Seats(remain, u)
    BY <1>2, NoSeats DEF Alive
  <2>3. Alive(u)' = Seats(userArea', u) + 0 + 0 + 0 + 0
    BY <1>1, <1>2, NoSeats DEF Alive
  <2>4. Seats(sOne, u) \in Nat /\ Seats(remain, u) \in Nat
    BY Counts
  <2>5. InDuel(u)' = InDuel(u)
    BY <1>1 DEF InDuel
  <2> QED BY <2>1, <2>2, <2>3, <2>4, <2>5
<1>5. Ranking' = Ranking
  BY <1>1 DEF Ranking
<1> QED BY <1>1, <1>3, <1>4, <1>5 DEF PlaceInv

LEMMA RankPlaces ==
    ASSUME AreaInv, PlaceInv, PlayTypeOK, PlayTypeOK', Rank
    PROVE  AreaInv' /\ PlaceInv'
<1>0. /\ stage = "rank" /\ userArea \in Seq(Entry) /\ ranks \in Seq(Uuids)
      /\ UNCHANGED <<entries, area1, area2, sOne, remain, mixed>>
  BY DEF Rank, Playing, PlayTypeOK
<1>1. CASE Len(userArea) <= Finalists
  <2>1. stage' = "short" /\ UNCHANGED <<userArea, ranks, final>>
    BY <1>1 DEF Rank
  <2>2. AreaInv'
    BY <1>0, <2>1 DEF AreaInv
  <2>3. (\A u : Alive(u)' = Alive(u) /\ InDuel(u)' = InDuel(u)) /\ Ranking' = Ranking
    BY <1>0, <2>1 DEF Alive, InDuel, Ranking
  <2> QED BY <1>0, <2>2, <2>3 DEF PlaceInv
<1>2. CASE ~ (Len(userArea) <= Finalists)
  <2>1. PICK sorted \in Orders(userArea) :
           /\ ranks' = Reverse(Names(SubSeq(sorted, Finalists + 1, Len(sorted)))) \o ranks
           /\ \E f8 \in Orders(Names(SubSeq(sorted, 1, Finalists))) : final' = f8 \o ranks'
    BY <1>2 DEF Rank
  <2> DEFINE top == SubSeq(sorted, 1, Finalists)
             others == SubSeq(sorted, Finalists + 1, Len(sorted))
  <2>2. PICK f8 \in Orders(Names(top)) : final' = f8 \o ranks'
    BY <2>1
  <2>3. /\ sorted \in Seq(Entry) /\ Len(sorted) = Len(userArea) /\ Finalists \in 0..Len(sorted)
        /\ Merged(userArea, sorted, <<>>)
    BY <1>0, <1>2, OrderIsMerged, SizeFacts
  <2>4. top \in Seq(Entry) /\ others \in Seq(Entry) /\ sorted = top \o others
    BY <2>3, Halves
  <2>5. ranks' = Reverse(Names(others)) \o ranks
    BY <2>1
  <2>6. userArea' = <<>> /\ stage' = "done"
    BY <1>2 DEF Rank
  <2> HIDE DEF top, others
  <2>7. AreaInv'
    BY <1>0, <2>6 DEF AreaInv
  <2>8. \A u : Seats(userArea, u) = Seats(top, u) + Seats(others, u)
    <3>1. \A u : Seats(sorted, u) = Seats(userArea, u)
      BY <1>0, <2>3, SameNames DEF Seats
    <3>2. \A u : Seats(top \o others, u) = Seats(top, u) + Seats(others, u)
      BY <2>4, SeatsJoined
    <3> QED BY <2>4, <3>1, <3>2
  <2>9. /\ f8 \in Seq(Uuids) /\ Reverse(Names(others)) \in Seq(Uuids)
        /\ \A u : Places(f8, u) = Seats(top, u)
        /\ \A u : Places(Reverse(Names(others)), u) = Seats(others, u)
    <3>1. Names(top) \in Seq(Uuids) /\ Names(others) \in Seq(Uuids)
      BY <2>4, NamesType
    <3>2. f8 \in Seq(Uuids) /\ Merged(Names(top), f8, <<>>)
      BY <2>2, <3>1, OrderIsMerged
    <3>3. Reverse(Names(others)) \in Seq(Uuids) /\ Merged(Names(others), Reverse(Names(others)), <<>>)
      BY <3>1, ReverseIsMerged
    <3>4. \A u : Places(f8, u) = Places(Names(top), u)
      BY <3>1, <3>2, SamePlaces
    <3>5. \A u : Places(Reverse(Names(others)), u) = Places(Names(others), u)
      BY <3>1, <3>3, SamePlaces
    <3> QED BY <3>2, <3>3, <3>4, <3>5 DEF Seats
  <2>10. \A u : Places(ranks', u) = Seats(others, u) + Places(ranks, u)
    BY <1>0, <2>5, <2>9, JoinedPlaces
  <2>11. \A u : Places(final', u) = Places(f8, u) + Places(ranks', u)
    <3>1. ranks' \in Seq(Uuids)
      BY DEF PlayTypeOK
    <3>2. \A u : Places(f8 \o ranks', u) = Places(f8, u) + Places(ranks', u)
      BY <2>9, <3>1, JoinedPlaces
    <3> QED BY <2>2, <3>2
  <2>12. ASSUME NEW u
         PROVE  Alive(u)' + InDuel(u)' + Places(Ranking', u) = Alive(u) + InDuel(u) + Places(Ranking, u)
    <3>1. Alive(u) = Seats(userArea, u) + 0 + 0 + 0 + 0 /\ InDuel(u) = 0 /\ Ranking = ranks
      BY <1>0, NoSeats DEF Alive, InDuel, Ranking, AreaInv
    <3>2. Alive(u)' = 0 + 0 + 0 + 0 + 0 /\ InDuel(u)' = 0 /\ Ranking' = final'
      BY <1>0, <2>6, NoSeats DEF Alive, InDuel, Ranking, AreaInv
    <3>3. Seats(top, u) \in Nat /\ Seats(others, u) \in Nat /\ Places(ranks, u) \in Nat
      BY <2>4, SeatsType, Counts
    <3> QED BY <2>8, <2>9, <2>10, <2>11, <3>1, <3>2, <3>3
  <2> QED BY <1>0, <2>7, <2>12 DEF PlaceInv
<1> QED BY <1>1, <1>2

LEMMA StepKeepsPlaces ==
    ASSUME IInv, IInv', AreaInv, PlaceInv, [PvpNext]_pvpVars
    PROVE  AreaInv' /\ PlaceInv'
<1>0. PlayTypeOK /\ PlayTypeOK' /\ StageInv
  BY TypeParts DEF IInv, PlayTypeOK, PvpTypeOK
<1>1. CASE UNCHANGED match
  BY <1>1, PlacesStay DEF match, field, results
<1>2. CASE SetFirst \/ SetSecond
  <2>1. /\ UNCHANGED <<entries, userArea, area1, area2, sOne, remain, ranks, mixed, final>>
        /\ stage \in {"set1", "set2"} /\ stage' \in {"set2", "first"}
    BY <1>2 DEF SetFirst, SetSecond, SetPvpInfo, Playing, field, results
  <2> QED BY <2>1, PlacesStay
<1>3. CASE FillUp \/ FightOne
  BY <1>0, <1>3, FillUpPlaces, FightOnePlaces
<1>4. CASE FirstOfPair \/ SecondOfPair
  BY <1>0, <1>4, FirstOfPairPlaces, SecondOfPairPlaces
<1>5. CASE EndRound \/ Rank
  BY <1>0, <1>5, EndRoundPlaces, RankPlaces
<1>6. CASE UNCHANGED pvpVars \/ ListStep \/ \E c \in Calls : PlayerCall(c)
  BY <1>1, <1>6 DEF pvpVars, ListStep, PlayerCall
<1> QED BY <1>2, <1>3, <1>4, <1>5, <1>6 DEF PvpNext, Tournament

LEMMA StartsWithNoPlaces == PvpInit => AreaInv /\ PlaceInv
<1> SUFFICES ASSUME PvpInit PROVE AreaInv /\ PlaceInv
  OBVIOUS
<1>1. /\ stage = "list" /\ entries = <<>> /\ userArea = <<>> /\ area1 = <<>> /\ area2 = <<>>
      /\ sOne = <<>> /\ remain = <<>> /\ ranks = <<>>
  BY DEF PvpInit
<1>2. \A u : Alive(u) = 0 + 0 + 0 + 0 + 0 /\ InDuel(u) = 0 /\ Places(Ranking, u) = 0 /\ Places(entries, u) = 0
  BY <1>1, NoSeats, FewPlaces DEF Alive, InDuel, Ranking
<1> QED BY <1>1, <1>2 DEF AreaInv, PlaceInv

LEMMA PlacesInvariant == PvpSpec => [](IInv /\ AreaInv /\ PlaceInv)
<1>1. PvpInit => IInv /\ AreaInv /\ PlaceInv
  BY InitHolds, StartsWithNoPlaces
<1>2. IInv /\ AreaInv /\ PlaceInv /\ [PvpNext]_pvpVars => IInv' /\ AreaInv' /\ PlaceInv'
  BY Inductive, StepKeepsPlaces
<1> QED BY <1>1, <1>2, PTL DEF PvpSpec

\* Nobody who takes part is lost on his way through the rounds and nobody gets a second place
\* (pvp_imp.js:654-740, 769-787), until two robots that are one object fight each other.
THEOREM EveryonesPlace == PvpSpec => []EveryoneRanked
<1>1. IInv /\ AreaInv /\ PlaceInv => EveryoneRanked
  <2> SUFFICES ASSUME IInv, PlaceInv, ~ mixed, NEW u \in Uuids
               PROVE  Places(entries, u) =
                         Places(Names(userArea \o area1 \o area2 \o sOne \o remain), u)
                         + (IF stage = "done" THEN Places(final, u) ELSE Places(ranks, u))
                         + (IF stage = "second" THEN Places(<<duel.ua1, duel.ua2>>, u) ELSE 0)
    BY DEF EveryoneRanked
  <2>0. PlayTypeOK
    BY TypeParts DEF IInv
  <2>1. Places(entries, u) = Alive(u) + InDuel(u) + Places(Ranking, u)
    BY DEF PlaceInv
  <2>2. Seats(userArea \o area1 \o area2 \o sOne \o remain, u) = Alive(u)
    <3> DEFINE a2 == userArea \o area1
               a3 == a2 \o area2
               a4 == a3 \o sOne
    <3>0. /\ userArea \in Seq(Entry) /\ area1 \in Seq(Entry) /\ area2 \in Seq(Entry)
          /\ sOne \in Seq(Entry) /\ remain \in Seq(Entry)
      BY <2>0 DEF PlayTypeOK
    <3>1. Seats(a2, u) = Seats(userArea, u) + Seats(area1, u) /\ a2 \in Seq(Entry)
      BY <3>0, SeatsJoined
    <3> HIDE DEF a2
    <3>2. Seats(a3, u) = Seats(a2, u) + Seats(area2, u) /\ a3 \in Seq(Entry)
      BY <3>0, <3>1, SeatsJoined
    <3> HIDE DEF a3
    <3>3. Seats(a4, u) = Seats(a3, u) + Seats(sOne, u) /\ a4 \in Seq(Entry)
      BY <3>0, <3>2, SeatsJoined
    <3> HIDE DEF a4
    <3>4. Seats(a4 \o remain, u) = Seats(a4, u) + Seats(remain, u)
      BY <3>0, <3>3, SeatsJoined
    <3> QED BY <3>1, <3>2, <3>3, <3>4 DEF Alive, a2, a3, a4
  <2>3. InDuel(u) = IF stage = "second" THEN Places(<<duel.ua1, duel.ua2>>, u) ELSE 0
    BY PairPlaces DEF InDuel
  <2>4. Places(Ranking, u) = IF stage = "done" THEN Places(final, u) ELSE Places(ranks, u)
    BY DEF Ranking
  <2>5. Alive(u) \in Nat /\ InDuel(u) \in Nat /\ Places(Ranking, u) \in Nat
    <3>1. One(u, duel.ua1) \in Nat /\ One(u, duel.ua2) \in Nat
      BY DEF One
    <3>2. InDuel(u) \in Nat
      BY <3>1 DEF InDuel
    <3>3. Alive(u) \in Nat /\ Places(Ranking, u) \in Nat
      BY <2>0, Counts DEF Alive, Ranking
    <3> QED BY <3>2, <3>3
  <2> HIDE DEF Alive, InDuel, Ranking
  <2> QED BY <2>1, <2>2, <2>3, <2>4, <2>5 DEF Seats
<1> QED BY <1>1, PlacesInvariant, PTL

\* When the tournament is over, the ranking that it writes back holds every player once for
\* each time he is listed (pvp_imp.js:769-787), also when robots of one object have fought.
PlayersRanked ==
    stage = "done" => \A u \in Players \ AllRobots : Places(final, u) = Places(entries, u)

THEOREM PlayersKeepTheirPlaces == PvpSpec => []PlayersRanked
<1>1. IInv /\ AreaInv /\ PlaceInv => PlayersRanked
  <2> SUFFICES ASSUME IInv, AreaInv, PlaceInv, stage = "done", NEW u \in Players \ AllRobots
               PROVE  Places(final, u) = Places(entries, u)
    BY DEF PlayersRanked
  <2>1. Places(entries, u) = Alive(u) + InDuel(u) + Places(Ranking, u)
    BY DEF PlaceInv, Uuids
  <2>2. Alive(u) = 0 + 0 + 0 + 0 + 0
    BY NoSeats DEF AreaInv, Alive
  <2>3. InDuel(u) = 0 /\ Ranking = final
    BY DEF InDuel, Ranking
  <2>4. Places(final, u) \in Nat
    BY TypeParts, Counts DEF IInv
  <2> QED BY <2>1, <2>2, <2>3, <2>4
<1> QED BY <1>1, PlacesInvariant, PTL

-----------------------------------------------------------------------------
(* What the calls of players do to the points. *)

HasInfo(c) == Inf(c) \in have[c]

\* A call does not touch the copies of another.
LEMMA OthersStay ==
    ASSUME PipeTypeOK, NEW c \in Calls,
           PlayerCall(c) \/ (c = Job /\ Tournament)
    PROVE  \A d \in Calls \ {c} : have'[d] = have[d] /\ stored'[d] = stored[d]
<1>1. CASE PlayerCall(c)
  <2>1. CASE BeginOne(c) \/ ReadNext(c) \/ WriteNext(c) \/ Answer(c) \/ Fail(c)
    BY <2>1 DEF BeginOne, Begin, Enter, ReadNext, WriteNext, Stored, Answer, Fail, copies, PipeTypeOK, RecordsTypeOK
  <2>2. CASE EnrollPvpDay(c) \/ Run(c)
    BY <2>2 DEF EnrollPvpDay, Run, Apply, copies, records, PipeTypeOK, RecordsTypeOK
  <2> QED BY <1>1, <2>1, <2>2 DEF PlayerCall
<1>2. CASE c = Job /\ (ListStep \/ FillUp \/ FightOne)
  BY <1>2 DEF ListStep, FillUp, FightOne, BeginOne, Begin, Enter, ReadNext, WriteNext, Stored, Answer, Fail,
              copies, pipeVars, PipeTypeOK, RecordsTypeOK
<1>3. CASE c = Job /\ (FirstOfPair \/ SecondOfPair \/ EndRound)
  BY <1>3 DEF FirstOfPair, SecondOfPair, EndRound, GetPvpInfo, records, pipeVars, copies, PipeTypeOK, RecordsTypeOK
<1>4. CASE c = Job /\ (SetFirst \/ SetSecond \/ Rank)
  BY <1>4 DEF SetFirst, SetSecond, SetPvpInfo, Rank, Apply, copies, records, PipeTypeOK, RecordsTypeOK
<1> QED BY <1>1, <1>2, <1>3, <1>4 DEF Tournament

LEMMA StoresItsCopies ==
    ASSUME PipeTypeOK, DataStep
    PROVE  /\ \A c \in Calls : have[c] \subseteq have'[c] /\ stored[c] \subseteq stored'[c]
           /\ \A c \in Calls : \A r \in stored'[c] \ stored[c] : InWork(c) /\ r \in have[c]
<1>1. CASE UNCHANGED pipeVars \/ \E c \in Calls : Begins(c) \/ Ends(c)
  BY <1>1 DEF pipeVars, copies, Begins, Enter, Ends
<1>2. CASE \E d \in Calls, q \in Records : Reads(d, q)
  BY <1>2 DEF Reads, PipeTypeOK, RecordsTypeOK
<1>3. CASE \E d \in Calls, q \in Records, v \in SUBSET Calls : Writes(d, q, v)
  BY <1>3 DEF Writes, PipeTypeOK, RecordsTypeOK
<1>4. CASE \E d \in Calls, touched \in SUBSET Records : Applies(d, touched)
  BY <1>4 DEF Applies, Apply, PipeTypeOK, RecordsTypeOK
<1> QED BY <1>1, <1>2, <1>3, <1>4 DEF DataStep

LEMMA WorkGoesOn ==
    ASSUME PipeTypeOK, FreshInv, DataStep
    PROVE  \A c \in Calls : /\ met[c] \subseteq met'[c]
                            /\ InWork(c)' => InWork(c) \/ pc[c] = "new"
                            /\ InWork(c)' /\ have[c] # {} => InWork(c)
                            /\ pc'[c] = "new" => pc[c] = "new"
<1>1. CASE \E c \in Calls : Begins(c)
  BY <1>1 DEF Begins, Enter, FreshInv, InWork, Ended, PipeTypeOK, RecordsTypeOK
<1>2. CASE UNCHANGED pipeVars \/ \E c \in Calls : Ends(c)
  BY <1>2 DEF pipeVars, copies, Ends, EndAs, InWork, Ended, PipeTypeOK, RecordsTypeOK
<1>3. CASE \E c \in Calls, r \in Records : Reads(c, r) \/ \E v \in SUBSET Calls : Writes(c, r, v)
  BY <1>3 DEF Reads, Writes, EndAs, InWork, Ended, PipeTypeOK, RecordsTypeOK
<1>4. CASE \E c \in Calls, touched \in SUBSET Records : Applies(c, touched)
  BY <1>4 DEF Applies, Apply, AllRead, InWork, Ended, PipeTypeOK, RecordsTypeOK
<1> QED BY <1>1, <1>2, <1>3, <1>4 DEF DataStep

\* The points of a player change when a call stores its copy, and the copy when it is read
\* and when the call gains points.
LEMMA PointsFollow ==
    ASSUME IInv, NEW c \in Calls, PlayerCall(c)
    PROVE  /\ c # Job /\ PlayerOf[c] \in Uuids /\ UNCHANGED match
           /\ \A d \in Calls \ {c} : have'[d] = have[d] /\ tcopy'[d] = tcopy[d]
           /\ HasInfo(c)' => \/ HasInfo(c) /\ tcopy'[c] >= tcopy[c]
                             \/ ~ HasInfo(c) /\ tcopy'[c] >= ticket[PlayerOf[c]]
           /\ \/ ticket' = ticket
              \/ /\ InWork(c) /\ HasInfo(c) /\ Inf(c) \in stored'[c]
                 /\ ticket' = [ticket EXCEPT ![PlayerOf[c]] = tcopy[c]]
<1>1. PipeTypeOK /\ DataStep /\ [PvpNext]_pvpVars
  <2>1. [PvpNext]_pvpVars
    BY DEF PvpNext
  <2> QED BY <2>1, StepCases DEF IInv, PvpTypeOK
<1>2. c # Job /\ UNCHANGED match /\ PlayerOf[c] \in Uuids
  BY Facts DEF PlayerCall, Uuids
<1>3. /\ \A d \in Calls \ {c} : have'[d] = have[d] /\ stored'[d] = stored[d]
      /\ have[c] \subseteq have'[c]
      /\ \A r \in stored'[c] \ stored[c] : InWork(c) /\ r \in have[c]
  BY <1>1, OthersStay, StoresItsCopies
<1>4. ticket \in [Uuids -> Nat] /\ tcopy \in [Calls -> Nat]
  BY DEF IInv, PvpTypeOK
<1>5. \E gain \in Nat :
         tcopy' = IF Inf(c) \in have'[c] \ have[c] THEN [tcopy EXCEPT ![c] = ticket[PlayerOf[c]] + gain]
                  ELSE [tcopy EXCEPT ![c] = @ + gain]
  <2>1. CASE Follow(c, 0)
    BY <2>1 DEF Follow, Inf
  <2>2. CASE \E gain \in Gains : Follow(c, gain)
    BY <2>2, PvpAssumption DEF Follow, Inf, PvpAssumption
  <2> QED BY <2>1, <2>2 DEF PlayerCall
<1>6. ticket' = IF Inf(c) \in stored'[c] \ stored[c] THEN [ticket EXCEPT ![PlayerOf[c]] = tcopy[c]] ELSE ticket
  BY DEF PlayerCall, Follow, Inf
<1>7. PICK gain \in Nat :
         tcopy' = IF Inf(c) \in have'[c] \ have[c] THEN [tcopy EXCEPT ![c] = ticket[PlayerOf[c]] + gain]
                  ELSE [tcopy EXCEPT ![c] = @ + gain]
  BY <1>5
<1>8. HasInfo(c)' => \/ HasInfo(c) /\ tcopy'[c] >= tcopy[c]
                     \/ ~ HasInfo(c) /\ tcopy'[c] >= ticket[PlayerOf[c]]
  <2>1. CASE Inf(c) \in have'[c] \ have[c]
    BY <1>2, <1>4, <1>7, <2>1 DEF HasInfo, Inf
  <2>2. CASE Inf(c) \notin have'[c] \ have[c]
    BY <1>2, <1>4, <1>7, <2>2 DEF HasInfo, Inf
  <2> QED BY <2>1, <2>2
<1>9. \A d \in Calls \ {c} : tcopy'[d] = tcopy[d]
  BY <1>4, <1>7
<1> QED BY <1>2, <1>3, <1>6, <1>8, <1>9 DEF HasInfo, Inf

\* An enrolment makes a change only for a player with enough points.
LEMMA MarksWithPoints ==
    ASSUME IInv, DataStep, NEW e \in Enrols, NEW r \in Records, e \in vals'[e][r]
    PROVE  e \in vals[e][r] \/ (HasInfo(e) /\ tcopy[e] >= MinTickets /\ stored'[e] = {})
<1>0. PipeTypeOK /\ FreshInv /\ HaveInv /\ e \in Calls /\ e # Job
  BY Facts DEF IInv, PvpTypeOK, DataInv
<1> SUFFICES ASSUME e \notin vals[e][r] PROVE HasInfo(e) /\ tcopy[e] >= MinTickets /\ stored'[e] = {}
  OBVIOUS
<1>1. CASE \E c \in Calls, touched \in SUBSET Records : Applies(c, touched)
  <2>1. PICK c \in Calls, touched \in SUBSET Records : Applies(c, touched)
    BY <1>1
  <2>2. c = e /\ touched # {}
    BY <1>0, <2>1 DEF Applies, Apply, PipeTypeOK, RecordsTypeOK
  <2>3. AllRead(e) /\ MayEnrol(e)
    BY <2>1, <2>2 DEF Applies
  <2>4. HasInfo(e)
    <3>1. ReadsOf[e] = <<Inf(e), Day, Global>>
      BY PvpAssumption DEF PvpAssumption, Inf
    <3>2. Len(ReadsOf[e]) = 3 /\ ReadsOf[e][1] = Inf(e)
      BY <3>1
    <3>3. pc[e] = "read" /\ 1 \in 1..Len(ReadsOf[e]) /\ 1 < pos[e]
      BY <1>0, <2>3, <3>2 DEF AllRead, PipeTypeOK, RecordsTypeOK
    <3> QED BY <1>0, <3>2, <3>3 DEF HaveInv, HasInfo
  <2>5. stored'[e] = {}
    BY <1>0, <2>1, <2>3 DEF Applies, Apply, AllRead, FreshInv
  <2> QED BY <2>3, <2>4, <2>5 DEF MayEnrol
<1>2. CASE \E c \in Calls, q \in Records : Reads(c, q)
  <2>1. PICK c \in Calls, q \in Records : Reads(c, q)
    BY <1>2
  <2>2. c = e /\ q = r /\ e \in db[r] /\ pc[e] = "read"
    BY <1>0, <2>1 DEF Reads, PipeTypeOK, RecordsTypeOK
  <2> QED BY <1>0, <2>2 DEF FreshInv
<1>3. CASE UNCHANGED vals
  BY <1>3
<1> QED BY <1>1, <1>2, <1>3 DEF DataStep, pipeVars, copies, Begins, Enter, Ends, Writes

-----------------------------------------------------------------------------
(* Whoever is in the rounds has points: the invariant of NeverShort. *)

Clean == ~ TwiceListed /\ ~ mixed /\ ~ PointsPutBack

\* The copy may be from before an enrolment of the player, which the call has met.
Stale(c) == \E e \in Enrols : PlayerOf[e] = PlayerOf[c] /\ c \in met[e]

\* Those who have points, in Redis and in every copy that may be stored without putting back
\* what was there before an enrolment.
Living ==
    {u \in Uuids :
       /\ ticket[u] > 0
       /\ \A c \in Calls \ {Job} :
             InWork(c) /\ HasInfo(c) /\ PlayerOf[c] = u => tcopy[c] > 0 \/ Stale(c)}

\* Before the tournament, nobody has less points than he started with, and who is marked has
\* as many as it takes.
StartInv ==
    stage = "list" =>
       /\ \A u \in Uuids : ticket[u] >= StartTickets[u]
       /\ \A c \in Calls \ {Job} : HasInfo(c) => tcopy[c] >= StartTickets[PlayerOf[c]]
       /\ ~ PointsPutBack =>
             \A e \in Enrols : e \in vals[e][Inf(e)] =>
                /\ HasInfo(e) /\ tcopy[e] >= MinTickets
                /\ (Inf(e) \in stored[e] => PlayerOf[e] \in Living)

\* Those who have not been ranked have points.
AliveInv ==
    Clean /\ stage # "list" =>
       /\ \A u \in Uuids : Alive(u) + InDuel(u) > 0 => u \in Living
       /\ stage = "second" => duel.t1 > 0
       /\ stage = "set1" /\ Alive(duel.ua1) > 0 => duel.t1 > 0
       /\ stage \in {"set1", "set2"} /\ Alive(duel.ua2) > 0 => duel.t2 > 0

Left == Len(userArea) + Len(remain) + Len(area1) + Len(sOne) + (IF stage = "second" THEN 1 ELSE 0)

\* One of each pair remains, so more than the finalists are left.
SizeInv == Clean /\ stage \notin {"list", "done"} => Left > Finalists /\ stage # "short"

LEMMA PutBackStays ==
    ASSUME PipeTypeOK, FreshInv, DataStep, PointsPutBack
    PROVE  PointsPutBack'
<1>1. PICK e \in Enrols : \E d \in met[e] \ {Job} : InfoOf[PlayerOf[e]] \in stored[d]
  BY DEF PointsPutBack
<1>2. PICK d \in met[e] \ {Job} : InfoOf[PlayerOf[e]] \in stored[d]
  BY <1>1
<1>3. e \in Calls /\ d \in Calls
  BY <1>1, <1>2, Facts DEF PipeTypeOK, RecordsTypeOK
<1>4. d \in met'[e] /\ InfoOf[PlayerOf[e]] \in stored'[d]
  BY <1>2, <1>3, WorkGoesOn, StoresItsCopies
<1> QED BY <1>1, <1>2, <1>4 DEF PointsPutBack

LEMMA StaysStale ==
    ASSUME PipeTypeOK, FreshInv, DataStep, NEW c \in Calls, Stale(c)
    PROVE  Stale(c)'
<1>1. \A e \in Enrols : e \in Calls /\ met[e] \subseteq met'[e]
  BY Facts, WorkGoesOn
<1> QED BY <1>1 DEF Stale

LEMMA StaysClean ==
    ASSUME Clean', entries' = entries, mixed => mixed', PipeTypeOK, FreshInv, DataStep
    PROVE  Clean
BY PutBackStays DEF Clean, TwiceListed

LEMMA StepFacts ==
    ASSUME IInv, [PvpNext]_pvpVars
    PROVE  /\ PipeTypeOK /\ FreshInv /\ DataStep /\ PlayTypeOK
           /\ ticket \in [Uuids -> Nat] /\ tcopy \in [Calls -> Nat]
BY StepCases, TypeParts DEF IInv, DataInv, PlayTypeOK

\* Whatever a call does: who has points keeps points.
LEMMA CallKeepsLiving ==
    ASSUME IInv, NEW c \in Calls, PlayerCall(c), ~ PointsPutBack'
    PROVE  Living \subseteq Living'
<1>0. /\ PipeTypeOK /\ FreshInv /\ DataStep
      /\ ticket \in [Uuids -> Nat] /\ tcopy \in [Calls -> Nat] /\ tcopy' \in [Calls -> Nat]
  <2>1. [PvpNext]_pvpVars
    BY DEF PvpNext
  <2>2. IInv'
    BY <2>1, Inductive
  <2> QED BY <2>1, <2>2, StepFacts DEF IInv, PvpTypeOK
<1>1. /\ c # Job /\ PlayerOf[c] \in Uuids
      /\ \A d \in Calls \ {c} : have'[d] = have[d] /\ tcopy'[d] = tcopy[d]
      /\ HasInfo(c)' => \/ HasInfo(c) /\ tcopy'[c] >= tcopy[c]
                        \/ ~ HasInfo(c) /\ tcopy'[c] >= ticket[PlayerOf[c]]
      /\ \/ ticket' = ticket
         \/ /\ InWork(c) /\ HasInfo(c) /\ Inf(c) \in stored'[c]
            /\ ticket' = [ticket EXCEPT ![PlayerOf[c]] = tcopy[c]]
  BY PointsFollow
<1> SUFFICES ASSUME NEW u \in Living PROVE u \in Living'
  OBVIOUS
<1>2. /\ u \in Uuids /\ ticket[u] > 0
      /\ \A d \in Calls \ {Job} :
            InWork(d) /\ HasInfo(d) /\ PlayerOf[d] = u => tcopy[d] > 0 \/ Stale(d)
  BY DEF Living
<1>3. ticket'[u] > 0
  <2> SUFFICES ASSUME u = PlayerOf[c], InWork(c), HasInfo(c), Inf(c) \in stored'[c],
                      ticket' = [ticket EXCEPT ![PlayerOf[c]] = tcopy[c]]
               PROVE  ticket'[u] > 0
    BY <1>0, <1>1, <1>2
  <2>1. ~ Stale(c)
    <3> SUFFICES ASSUME NEW e \in Enrols, PlayerOf[e] = PlayerOf[c], c \in met[e] PROVE FALSE
      BY DEF Stale
    <3>1. c \in met'[e]
      BY <1>0, WorkGoesOn, Facts
    <3> QED BY <1>1, <3>1 DEF PointsPutBack, Inf
  <2>2. tcopy[c] > 0
    BY <1>1, <1>2, <2>1
  <2> QED BY <1>0, <1>2, <2>2
<1>4. ASSUME NEW d \in Calls \ {Job}, InWork(d)', HasInfo(d)', PlayerOf[d] = u
      PROVE  tcopy'[d] > 0 \/ Stale(d)'
  <2>1. CASE HasInfo(d)
    <3>1. InWork(d)
      BY <1>0, <1>4, <2>1, WorkGoesOn DEF HasInfo
    <3>2. tcopy[d] > 0 \/ Stale(d)
      BY <1>2, <1>4, <2>1, <3>1
    <3>3. Stale(d) => Stale(d)'
      BY <1>0, StaysStale
    <3>4. tcopy[d] > 0 => tcopy'[d] > 0
      <4>1. CASE d = c
        BY <1>0, <1>1, <1>4, <2>1, <4>1
      <4>2. CASE d # c
        BY <1>1, <4>2
      <4> QED BY <4>1, <4>2
    <3> QED BY <3>2, <3>3, <3>4
  <2>2. CASE ~ HasInfo(d)
    <3>1. d = c
      BY <1>1, <1>4, <2>2 DEF HasInfo
    <3>2. tcopy'[c] >= ticket[PlayerOf[c]]
      BY <1>1, <1>4, <2>2, <3>1
    <3> QED BY <1>0, <1>2, <1>4, <3>1, <3>2
  <2> QED BY <2>1, <2>2
<1> QED BY <1>2, <1>3, <1>4 DEF Living

\* The tournament leaves the copies of the calls alone.
LEMMA CopiesLeftAlone ==
    ASSUME PipeTypeOK, Tournament
    PROVE  tcopy' = tcopy /\ \A c \in Calls \ {Job} : HasInfo(c)' = HasInfo(c)
<1>1. \A c \in Calls \ {Job} : have'[c] = have[c]
  BY Facts, OthersStay
<1>2. tcopy' = tcopy
  <2>1. CASE SetFirst \/ SetSecond
    BY <2>1 DEF SetFirst, SetSecond, SetPvpInfo
  <2>2. CASE ~ (SetFirst \/ SetSecond)
    BY <2>2 DEF Tournament, ListStep, FillUp, FightOne, FirstOfPair, SecondOfPair, EndRound, Rank
  <2> QED BY <2>1, <2>2
<1> QED BY <1>1, <1>2 DEF HasInfo

LEMMA StepKeepsLiving ==
    ASSUME PipeTypeOK, FreshInv, DataStep, Tournament \/ UNCHANGED pvpVars, NEW u \in Living, ticket'[u] > 0
    PROVE  u \in Living'
<1>1. tcopy' = tcopy /\ \A c \in Calls \ {Job} : HasInfo(c)' = HasInfo(c)
  <2>1. CASE UNCHANGED pvpVars
    BY <2>1 DEF pvpVars, pipeVars, copies, HasInfo
  <2> QED BY <2>1, CopiesLeftAlone
<1>2. ASSUME NEW c \in Calls \ {Job}, InWork(c)', HasInfo(c)', PlayerOf[c] = u
      PROVE  tcopy'[c] > 0 \/ Stale(c)'
  <2>1. InWork(c) /\ HasInfo(c)
    BY <1>1, <1>2, WorkGoesOn DEF HasInfo
  <2>2. tcopy[c] > 0 \/ Stale(c)
    BY <1>2, <2>1 DEF Living
  <2> QED BY <1>1, <2>2, StaysStale
<1>3. u \in Uuids
  BY DEF Living
<1> QED BY <1>2, <1>3 DEF Living

\* A call before the tournament takes no points, and an enrolment stores those it has marked.
LEMMA CallKeepsStart ==
    ASSUME IInv, StartInv, stage = "list", NEW c \in Calls, PlayerCall(c)
    PROVE  StartInv'
<1>0. /\ PipeTypeOK /\ FreshInv /\ DataStep /\ MetInv
      /\ ticket \in [Uuids -> Nat] /\ tcopy \in [Calls -> Nat] /\ tcopy' \in [Calls -> Nat]
  <2>1. [PvpNext]_pvpVars
    BY DEF PvpNext
  <2>2. IInv'
    BY <2>1, Inductive
  <2> QED BY <2>1, <2>2, StepFacts DEF IInv, DataInv, PvpTypeOK
<1>1. /\ c # Job /\ PlayerOf[c] \in Uuids
      /\ \A d \in Calls \ {c} : have'[d] = have[d] /\ tcopy'[d] = tcopy[d]
      /\ HasInfo(c)' => \/ HasInfo(c) /\ tcopy'[c] >= tcopy[c]
                        \/ ~ HasInfo(c) /\ tcopy'[c] >= ticket[PlayerOf[c]]
      /\ \/ ticket' = ticket
         \/ /\ InWork(c) /\ HasInfo(c) /\ Inf(c) \in stored'[c]
            /\ ticket' = [ticket EXCEPT ![PlayerOf[c]] = tcopy[c]]
  BY PointsFollow
<1>2. /\ \A u \in Uuids : ticket[u] >= StartTickets[u]
      /\ \A d \in Calls \ {Job} : HasInfo(d) => tcopy[d] >= StartTickets[PlayerOf[d]]
  BY DEF StartInv
<1>3. /\ \A u \in Uuids : StartTickets[u] \in Nat
      /\ \A d \in Calls \ {Job} : PlayerOf[d] \in Uuids
      /\ MinTickets \in Nat \ {0}
  BY PvpAssumption, Facts, SizeFacts DEF PvpAssumption, Uuids
<1>4. ASSUME NEW u \in Uuids PROVE ticket'[u] >= StartTickets[u]
  <2>1. HasInfo(c) => tcopy[c] >= StartTickets[PlayerOf[c]]
    BY <1>1, <1>2
  <2> QED BY <1>0, <1>1, <1>2, <2>1
<1>5. ASSUME NEW d \in Calls \ {Job}, HasInfo(d)' PROVE tcopy'[d] >= StartTickets[PlayerOf[d]]
  <2>1. CASE d = c
    <3>1. tcopy[c] \in Nat /\ tcopy'[c] \in Nat /\ ticket[PlayerOf[c]] \in Nat
          /\ StartTickets[PlayerOf[c]] \in Nat /\ ticket[PlayerOf[c]] >= StartTickets[PlayerOf[c]]
      BY <1>0, <1>1, <1>2, <1>3
    <3>2. CASE HasInfo(c) /\ tcopy'[c] >= tcopy[c]
      BY <1>1, <1>2, <2>1, <3>1, <3>2
    <3>3. CASE tcopy'[c] >= ticket[PlayerOf[c]]
      BY <2>1, <3>1, <3>3
    <3> QED BY <1>1, <1>5, <2>1, <3>2, <3>3
  <2>2. CASE d # c
    <3>1. HasInfo(d)
      BY <1>1, <1>5, <2>2 DEF HasInfo
    <3> QED BY <1>1, <1>2, <2>2, <3>1
  <2> QED BY <2>1, <2>2
<1>6. ASSUME ~ PointsPutBack', NEW e \in Enrols, e \in vals'[e][Inf(e)]
      PROVE  /\ HasInfo(e)' /\ tcopy'[e] >= MinTickets
             /\ Inf(e) \in stored'[e] => PlayerOf[e] \in Living'
  <2>0. e \in Calls \ {Job} /\ Inf(e) \in Records /\ ~ PointsPutBack /\ PlayerOf[e] \in Uuids
    BY <1>0, <1>3, <1>6, Facts, PutBackStays DEF Inf
  <2>1. HasInfo(e) /\ tcopy[e] >= MinTickets
    <3>1. e \in vals[e][Inf(e)] \/ (HasInfo(e) /\ tcopy[e] >= MinTickets)
      BY <1>0, <1>6, <2>0, MarksWithPoints
    <3> QED BY <2>0, <3>1 DEF StartInv
  <2>2. HasInfo(e)' /\ tcopy'[e] >= MinTickets
    <3>1. HasInfo(e)'
      BY <1>0, <2>0, <2>1, StoresItsCopies DEF HasInfo
    <3>2. tcopy[e] \in Nat /\ tcopy'[e] \in Nat /\ tcopy'[e] >= tcopy[e]
      <4>1. CASE e = c
        BY <1>0, <1>1, <2>0, <2>1, <3>1, <4>1
      <4>2. CASE e # c
        BY <1>0, <1>1, <2>0, <4>2
      <4> QED BY <4>1, <4>2
    <3> QED BY <1>3, <2>1, <3>1, <3>2
  <2>3. ASSUME Inf(e) \in stored'[e] PROVE PlayerOf[e] \in Living'
    <3>1. e \in vals[e][Inf(e)]
      BY <1>0, <1>6, <2>0, <2>3, MarksWithPoints
    <3>2. CASE Inf(e) \in stored[e]
      <4>1. PlayerOf[e] \in Living
        BY <2>0, <3>1, <3>2 DEF StartInv
      <4> QED BY <1>6, <4>1, CallKeepsLiving
    <3>3. CASE Inf(e) \notin stored[e]
      <4>1. e = c /\ InWork(e)
        <5>1. \A d \in Calls \ {c} : stored'[d] = stored[d]
          BY <1>0, OthersStay
        <5>2. InWork(e)
          BY <1>0, <2>0, <2>3, <3>3, StoresItsCopies
        <5> QED BY <2>0, <2>3, <3>3, <5>1, <5>2
      <4>2. ticket'[PlayerOf[e]] > 0
        <5>1. ticket' = [ticket EXCEPT ![PlayerOf[e]] = tcopy[e]]
          BY <2>3, <3>3, <4>1 DEF PlayerCall, Follow, Inf
        <5> QED BY <1>0, <1>3, <2>0, <2>1, <5>1
      <4>3. ASSUME NEW d \in Calls \ {Job}, InWork(d)', HasInfo(d)', PlayerOf[d] = PlayerOf[e]
            PROVE  tcopy'[d] > 0 \/ Stale(d)'
        <5>1. CASE d = e
          BY <1>0, <1>3, <2>0, <2>2, <5>1
        <5>2. CASE d # e
          <6>1. HasInfo(d)
            BY <1>1, <4>1, <4>3, <5>2 DEF HasInfo
          <6>2. InWork(d)
            BY <1>0, <4>3, <6>1, WorkGoesOn DEF HasInfo
          <6>3. d \in met[e]
            BY <1>0, <2>0, <4>1, <5>2, <6>2 DEF MetInv
          <6>4. Stale(d)
            BY <4>3, <6>3 DEF Stale
          <6> QED BY <1>0, <6>4, StaysStale
        <5> QED BY <5>1, <5>2
      <4> QED BY <2>0, <4>2, <4>3 DEF Living
    <3> QED BY <3>2, <3>3
  <2> QED BY <2>2, <2>3
<1> QED BY <1>4, <1>5, <1>6 DEF StartInv

LEMMA StartKeeps ==
    ASSUME IInv, StartInv, [PvpNext]_pvpVars
    PROVE  StartInv'
<1> SUFFICES ASSUME stage' = "list" PROVE StartInv'
  BY DEF StartInv
<1>0. PipeTypeOK /\ FreshInv /\ DataStep /\ ticket \in [Uuids -> Nat]
  BY StepFacts
<1>1. CASE UNCHANGED pvpVars \/ ListStep
  <2>1. /\ Tournament \/ UNCHANGED pvpVars
        /\ UNCHANGED <<stage, ticket, tcopy>> /\ \A c \in Calls \ {Job} : HasInfo(c)' = HasInfo(c)
    <3>1. CASE UNCHANGED pvpVars
      BY <3>1 DEF pvpVars, pipeVars, copies, match, HasInfo
    <3>2. CASE ListStep
      BY <1>0, <3>2, CopiesLeftAlone DEF ListStep, Tournament, match
    <3> QED BY <1>1, <3>1, <3>2
  <2>2. ASSUME ~ PointsPutBack', NEW e \in Enrols, e \in vals'[e][Inf(e)]
        PROVE  /\ HasInfo(e)' /\ tcopy'[e] >= MinTickets
               /\ Inf(e) \in stored'[e] => PlayerOf[e] \in Living'
    <3>1. e \in Calls \ {Job} /\ Inf(e) \in Records /\ ~ PointsPutBack /\ Job \in Calls
      BY <1>0, <2>2, Facts, PutBackStays DEF Inf
    <3>2. stored'[e] = stored[e] /\ vals'[e] = vals[e]
      <4>1. CASE UNCHANGED pvpVars
        BY <4>1 DEF pvpVars, pipeVars, copies
      <4>2. CASE ListStep
        <5>1. stored'[e] = stored[e]
          BY <1>0, <3>1, <4>2, OthersStay DEF Tournament
        <5>2. vals'[e] = vals[e]
          BY <1>0, <3>1, <4>2 DEF ListStep, BeginOne, Begin, Enter, ReadNext, WriteNext, Stored, Answer, Fail,
                                  EndAs, copies, PipeTypeOK, RecordsTypeOK
        <5> QED BY <5>1, <5>2
      <4> QED BY <1>1, <4>1, <4>2
    <3>3. /\ HasInfo(e) /\ tcopy[e] >= MinTickets
          /\ Inf(e) \in stored[e] => PlayerOf[e] \in Living
      BY <2>1, <2>2, <3>1, <3>2 DEF StartInv
    <3>4. \A u \in Living : ticket'[u] > 0
      BY <2>1 DEF Living
    <3> QED BY <1>0, <2>1, <3>1, <3>2, <3>3, <3>4, StepKeepsLiving
  <2> QED BY <2>1, <2>2 DEF StartInv
<1>2. CASE \E c \in Calls : PlayerCall(c)
  <2>1. PICK c \in Calls : PlayerCall(c)
    BY <1>2
  <2>2. stage = "list"
    BY <2>1 DEF PlayerCall, match
  <2> QED BY <2>1, <2>2, CallKeepsStart
<1>3. CASE FillUp \/ FightOne \/ FirstOfPair \/ SecondOfPair \/ SetFirst \/ SetSecond \/ EndRound \/ Rank
  BY <1>3 DEF FillUp, FightOne, FirstOfPair, SecondOfPair, SetFirst, SetSecond, EndRound, Rank, Playing
<1> QED BY <1>1, <1>2, <1>3 DEF PvpNext, Tournament

\* Whoever takes part once is in the rounds only as long as he is not ranked.
LEMMA AliveOrRanked ==
    ASSUME PlayTypeOK, PlaceInv, Clean, NEW u \in Uuids
    PROVE  /\ Alive(u) \in Nat /\ InDuel(u) \in Nat /\ Places(Ranking, u) \in Nat
           /\ Places(entries, u) = Alive(u) + InDuel(u) + Places(Ranking, u)
           /\ Places(entries, u) \in 0..1
<1>1. Alive(u) \in Nat /\ Places(Ranking, u) \in Nat /\ Places(entries, u) \in Nat
  BY Counts DEF Alive, Ranking
<1>2. InDuel(u) \in Nat
  BY DEF InDuel, One
<1>3. Places(entries, u) = Alive(u) + InDuel(u) + Places(Ranking, u)
  BY DEF PlaceInv, Clean
<1>4. ~ (Places(entries, u) > 1)
  BY DEF Clean, TwiceListed
<1> QED BY <1>1, <1>2, <1>3, <1>4

\* A step of the rounds brings nobody back.
LEMMA NobodyComesBack ==
    ASSUME PlayTypeOK, PlayTypeOK', PlaceInv, PlaceInv', Clean, Clean', entries' = entries,
           \A u \in Uuids : Places(Ranking', u) >= Places(Ranking, u)
    PROVE  \A u \in Uuids : Alive(u)' + InDuel(u)' <= Alive(u) + InDuel(u)
<1> SUFFICES ASSUME NEW u \in Uuids PROVE Alive(u)' + InDuel(u)' <= Alive(u) + InDuel(u)
  OBVIOUS
<1>1. /\ Alive(u) \in Nat /\ InDuel(u) \in Nat /\ Places(Ranking, u) \in Nat
      /\ Places(entries, u) = Alive(u) + InDuel(u) + Places(Ranking, u)
  BY AliveOrRanked
<1>2. /\ Alive(u)' \in Nat /\ InDuel(u)' \in Nat /\ Places(Ranking', u) \in Nat
      /\ Places(entries', u) = Alive(u)' + InDuel(u)' + Places(Ranking', u)
  <2>1. Alive(u)' \in Nat /\ Places(Ranking', u) \in Nat
    <3>1. /\ Seats(userArea', u) \in Nat /\ Seats(area1', u) \in Nat /\ Seats(area2', u) \in Nat
          /\ Seats(sOne', u) \in Nat /\ Seats(remain', u) \in Nat
      BY SeatsType DEF PlayTypeOK
    <3>2. Places(ranks', u) \in Nat /\ Places(final', u) \in Nat
      BY AtFinite DEF PlayTypeOK
    <3> QED BY <3>1, <3>2 DEF Alive, Ranking
  <2>2. InDuel(u)' \in Nat
    BY DEF InDuel, One
  <2>3. Places(entries', u) = Alive(u)' + InDuel(u)' + Places(Ranking', u)
    BY DEF PlaceInv, Clean
  <2> QED BY <2>1, <2>2, <2>3
<1> QED BY <1>1, <1>2

LEMMA ListedWithPoints ==
    ASSUME IInv, StartInv, FillUp, ~ PointsPutBack
    PROVE  entries' \in Seq(Living) /\ Len(entries') >= MinSize
<1> DEFINE T == Living
           L == vals[Job][Day] \cap Enrols
<1>1. PICK order \in SetToSeqs(L) :
         LET players == [i \in 1..Len(order) |-> PlayerOf[order[i]]]
         IN  entries' = players \o SubSeq(Robots, 1, MinSize - Len(players))
  BY DEF FillUp
<1> DEFINE players == [i \in 1..Len(order) |-> PlayerOf[order[i]]]
           m == MinSize - Len(players)
<1>2. Cardinality(L) \in Nat
  BY PvpAssumption, FS_Subset, FS_CardinalityType DEF PvpAssumption
<1>3. ASSUME NEW e \in L PROVE PlayerOf[e] \in T
  <2>1. e \in Enrols /\ e \in Calls /\ e # Job /\ PlayerOf[e] \in Uuids /\ Day \in Records /\ Job \in Calls
    BY Facts, SizeFacts
  <2>2. Day \in stored[e] /\ e \in vals[e][Day]
    BY <2>1 DEF IInv, DataInv, OwnInv
  <2>3. Inf(e) \in stored[e] /\ e \in vals[e][Inf(e)]
    BY <2>1, <2>2 DEF IInv, DataInv, MarkInv
  <2>4. stage = "list"
    BY DEF FillUp, Playing
  <2> QED BY <2>1, <2>3, <2>4 DEF StartInv
<1>4. order \in Seq(L) /\ Len(order) \in Nat
  <2> HIDE DEF L
  <2>1. order \in [1..Cardinality(L) -> L]
    BY DEF SetToSeqs
  <2> QED BY <2>1, <1>2
<1>5. players \in Seq(T) /\ Len(players) \in Nat
  <2>1. \A i \in 1..Len(order) : PlayerOf[order[i]] \in T
    BY <1>3, <1>4
  <2> HIDE DEF T, L
  <2> QED BY <2>1, <1>4
<1> HIDE DEF L
<1>6. /\ SubSeq(Robots, 1, m) \in Seq(T)
      /\ Len(SubSeq(Robots, 1, m)) = IF m >= 1 THEN m ELSE 0
  <2>1. Robots \in Seq(T)
    <3>1. \A i \in 1..Len(Robots) : Robots[i] \in AllRobots
      BY DEF AllRobots, RangeOf
    <3>2. ASSUME NEW r \in AllRobots PROVE r \in T
      <4>1. r \in Uuids /\ StartTickets[r] \in Nat \ {0} /\ ticket[r] \in Nat
        BY PvpAssumption, SizeFacts DEF PvpAssumption, Uuids, IInv, PvpTypeOK
      <4>2. /\ ticket[r] >= StartTickets[r]
            /\ \A c \in Calls \ {Job} : HasInfo(c) => tcopy[c] >= StartTickets[PlayerOf[c]]
        BY <4>1 DEF StartInv, FillUp, Playing
      <4>3. tcopy \in [Calls -> Nat]
        BY DEF IInv, PvpTypeOK
      <4>4. ticket[r] > 0
        BY <4>1, <4>2
      <4>5. \A c \in Calls \ {Job} : HasInfo(c) /\ PlayerOf[c] = r => tcopy[c] > 0
        BY <4>1, <4>2, <4>3
      <4> QED BY <4>1, <4>4, <4>5 DEF Living
    <3> HIDE DEF T
    <3> QED BY <3>1, <3>2, SizeFacts
  <2> HIDE DEF players, T
  <2>2. m \in Int /\ m <= Len(Robots) /\ Len(Robots) \in Nat
    BY <1>5, <2>1, SizeFacts
  <2> HIDE DEF m
  <2>3. \A i \in 1..m : Robots[i] \in T
    BY <2>1, <2>2
  <2>4. /\ SubSeq(Robots, 1, m) \in Seq(T)
        /\ Len(SubSeq(Robots, 1, m)) = IF 1 <= m THEN m - 1 + 1 ELSE 0
    BY <2>2, <2>3, SubSeqProperties
  <2> QED BY <2>2, <2>4
<1>7. entries' = players \o SubSeq(Robots, 1, m)
  BY <1>1
<1> HIDE DEF players, T
<1>8. /\ entries' \in Seq(T)
      /\ Len(entries') = Len(players) + Len(SubSeq(Robots, 1, m))
  BY <1>5, <1>6, <1>7
<1>9. Len(entries') >= MinSize
  BY <1>5, <1>6, <1>8, SizeFacts
<1> QED BY <1>8, <1>9 DEF T

\* Whatever a call does: who was in the rounds with points keeps points.
LEMMA CallLeavesPoints ==
    ASSUME IInv, AliveInv, NEW c \in Calls, PlayerCall(c)
    PROVE  AliveInv'
<1>0. PipeTypeOK /\ FreshInv /\ DataStep
  <2>1. [PvpNext]_pvpVars
    BY DEF PvpNext
  <2> QED BY <2>1, StepFacts
<1>1. UNCHANGED <<stage, entries, userArea, area1, area2, sOne, remain, duel, mixed>>
  BY DEF PlayerCall, match, field, results
<1>2. SUFFICES ASSUME Clean', stage # "list" PROVE AliveInv'
  BY <1>1 DEF AliveInv
<1>3. Clean /\ Living \subseteq Living'
  BY <1>0, <1>1, <1>2, StaysClean, CallKeepsLiving DEF Clean
<1>4. /\ \A u : Alive(u)' = Alive(u) /\ InDuel(u)' = InDuel(u)
      /\ Alive(duel.ua1)' = Alive(duel.ua1) /\ Alive(duel.ua2)' = Alive(duel.ua2)
  BY <1>1 DEF Alive, InDuel
<1> QED BY <1>1, <1>2, <1>3, <1>4 DEF AliveInv

\* A step of the rounds that leaves the points alone.
LEMMA RoundLeavesPoints ==
    ASSUME PipeTypeOK, FreshInv, DataStep, PlayTypeOK, PlayTypeOK', PlaceInv, PlaceInv', AliveInv, Clean, Clean',
           Tournament, stage # "list", ticket' = ticket, entries' = entries,
           \A u \in Uuids : Places(Ranking', u) >= Places(Ranking, u)
    PROVE  \A u \in Uuids : Alive(u)' + InDuel(u)' > 0 => u \in Living'
<1> SUFFICES ASSUME NEW u \in Uuids, Alive(u)' + InDuel(u)' > 0
             PROVE  u \in Living'
  OBVIOUS
<1>1. Alive(u)' + InDuel(u)' <= Alive(u) + InDuel(u)
  BY NobodyComesBack
<1>2. Alive(u) \in Nat /\ InDuel(u) \in Nat
  BY AliveOrRanked
<1>3. Alive(u)' \in Nat /\ InDuel(u)' \in Nat
  <2>1. /\ Seats(userArea', u) \in Nat /\ Seats(area1', u) \in Nat /\ Seats(area2', u) \in Nat
        /\ Seats(sOne', u) \in Nat /\ Seats(remain', u) \in Nat
    BY SeatsType DEF PlayTypeOK
  <2> QED BY <2>1 DEF Alive, InDuel, One
<1>4. Alive(u) + InDuel(u) > 0
  BY <1>1, <1>2, <1>3
<1>5. u \in Living
  BY <1>4 DEF AliveInv
<1>6. ticket'[u] > 0
  BY <1>5 DEF Living
<1> QED BY <1>5, <1>6, StepKeepsLiving

LEMMA FillUpAlive ==
    ASSUME IInv, StartInv, PlayTypeOK', AreaInv', PlaceInv', FillUp
    PROVE  AliveInv' /\ SizeInv'
<1>0. /\ stage = "list" /\ stage' = "round" /\ ticket' = ticket
      /\ userArea' = [i \in 1..Len(entries') |-> AsEntry(entries'[i])]
      /\ PipeTypeOK /\ FreshInv /\ DataStep /\ Tournament
  <2>1. [PvpNext]_pvpVars
    BY DEF PvpNext, Tournament
  <2> QED BY <2>1, StepFacts DEF FillUp, Playing, Tournament
<1> SUFFICES ASSUME Clean' PROVE AliveInv' /\ SizeInv'
  BY DEF AliveInv, SizeInv
<1>1. entries' \in Seq(Living) /\ Len(entries') >= MinSize
  BY <1>0, PutBackStays, ListedWithPoints DEF Clean
<1>2. ASSUME NEW u \in Uuids, Alive(u)' + InDuel(u)' > 0
      PROVE  u \in Living'
  <2>1. Places(entries', u) = Alive(u)' + InDuel(u)' + Places(Ranking', u)
    BY DEF PlaceInv, Clean
  <2>2. Places(Ranking', u) \in Nat
    BY AtFinite DEF Ranking, PlayTypeOK
  <2>3. /\ Seats(userArea', u) \in Nat /\ Seats(area1', u) \in Nat /\ Seats(area2', u) \in Nat
        /\ Seats(sOne', u) \in Nat /\ Seats(remain', u) \in Nat
    BY SeatsType DEF PlayTypeOK
  <2>4. Alive(u)' \in Nat /\ InDuel(u)' \in Nat
    BY <2>3 DEF Alive, InDuel, One
  <2>5. Places(entries', u) # 0
    BY <1>2, <2>1, <2>2, <2>4
  <2>6. At(entries', u) # {}
    <3>1. Places(entries', u) = Cardinality(At(entries', u))
      BY DEF Places, At
    <3> QED BY <2>5, <3>1, FS_EmptySet
  <2>7. PICK i \in 1..Len(entries') : entries'[i] = u
    BY <2>6 DEF At
  <2>8. u \in Living
    BY <1>1, <2>7
  <2>9. ticket'[u] > 0
    BY <1>0, <2>8 DEF Living
  <2> QED BY <1>0, <2>8, <2>9, StepKeepsLiving
<1>3. AliveInv'
  BY <1>0, <1>2 DEF AliveInv
<1>4. SizeInv'
  <2>1. Len(userArea') = Len(entries') /\ Len(entries') \in Nat
    BY <1>0, <1>1
  <2>2. Left' = Len(entries') + 0 + 0 + 0 + 0
    BY <1>0, <2>1 DEF Left, AreaInv
  <2>3. Left' > Finalists
    BY <1>1, <2>1, <2>2, SizeFacts
  <2> QED BY <1>0, <2>3 DEF SizeInv
<1> QED BY <1>3, <1>4

Lengths ==
    /\ Len(userArea) \in Nat /\ Len(remain) \in Nat /\ Len(area1) \in Nat /\ Len(sOne) \in Nat

LEMMA LengthsAreNumbers == PlayTypeOK => Lengths
<1> SUFFICES ASSUME PlayTypeOK PROVE Lengths
  OBVIOUS
<1>1. userArea \in Seq(Entry) /\ remain \in Seq(Entry) /\ area1 \in Seq(Entry) /\ sOne \in Seq(Entry)
  BY DEF PlayTypeOK
<1> QED BY <1>1 DEF Lengths

LEMMA FightOneAlive ==
    ASSUME PipeTypeOK, FreshInv, DataStep, PlayTypeOK, PlayTypeOK', AreaInv, PlaceInv, PlaceInv', AliveInv, SizeInv, FightOne
    PROVE  AliveInv' /\ SizeInv'
<1>0. /\ stage = "round" /\ stage' \in {"rank", "first"}
      /\ UNCHANGED <<entries, ranks, duel, mixed, final, ticket>> /\ Tournament
  BY DEF FightOne, Playing, Tournament
<1>1. SUFFICES ASSUME Clean' PROVE AliveInv' /\ SizeInv'
  BY DEF AliveInv, SizeInv
<1>2. Clean
  BY <1>0, <1>1, StaysClean
<1>3. Ranking' = Ranking /\ \A u : Places(Ranking, u) \in Nat
  BY <1>0, Counts DEF Ranking
<1>4. AliveInv'
  <2>1. \A u \in Uuids : Alive(u)' + InDuel(u)' > 0 => u \in Living'
    BY <1>0, <1>1, <1>2, <1>3, RoundLeavesPoints
  <2> QED BY <1>0, <2>1 DEF AliveInv
<1>5. Lengths
  BY LengthsAreNumbers
<1>6. /\ area1 = <<>> /\ sOne = <<>> /\ remain = <<>> /\ Len(userArea) > Finalists
  <2>1. area1 = <<>> /\ sOne = <<>> /\ remain = <<>>
    BY <1>0 DEF AreaInv
  <2>2. Left > Finalists
    BY <1>0, <1>2 DEF SizeInv
  <2>3. Left = Len(userArea) + 0 + 0 + 0 + 0
    BY <1>0, <2>1 DEF Left
  <2> QED BY <1>5, <2>1, <2>2, <2>3 DEF Lengths
<1>7. SizeInv'
  <2>1. CASE stage' = "rank" /\ UNCHANGED <<field, remain>>
    <3>1. Left' = Len(userArea) + 0 + 0 + 0 + 0
      BY <1>6, <2>1 DEF Left, field
    <3> QED BY <1>5, <1>6, <2>1, <3>1 DEF SizeInv, Lengths
  <2>2. CASE ~ RoundsOver
    <3>1. /\ stage' = "first" /\ userArea' = <<>> /\ remain' = <<>>
          /\ Len(area1') = Len(userArea) \div 2 /\ Len(sOne') = Len(userArea) % 2
      BY <2>2, RoundBegins
    <3>2. Left' = 0 + 0 + (Len(userArea) \div 2) + (Len(userArea) % 2) + 0
      BY <3>1 DEF Left
    <3>3. Len(userArea) > 2 * Finalists
      BY <1>5, <2>2, SizeFacts DEF RoundsOver, Lengths, PlayTypeOK
    <3>4. (Len(userArea) \div 2) + (Len(userArea) % 2) > Finalists
      BY <1>5, <3>3, SizeFacts DEF Lengths
    <3>5. Len(userArea) \div 2 \in Nat /\ Len(userArea) % 2 \in Nat
      BY <1>5 DEF Lengths
    <3> QED BY <3>1, <3>2, <3>4, <3>5 DEF SizeInv
  <2> QED BY <2>1, <2>2 DEF FightOne
<1> QED BY <1>4, <1>7

LEMMA FirstOfPairAlive ==
    ASSUME PipeTypeOK, FreshInv, DataStep, PlayTypeOK, PlayTypeOK', PlaceInv, PlaceInv', AliveInv, SizeInv, FirstOfPair
    PROVE  AliveInv' /\ SizeInv'
<1> DEFINE u1 == Last(area1).uuid
           u2 == Last(area2).uuid
<1>0. /\ stage = "first" /\ stage' = "second" /\ Tournament
      /\ duel' = [NoDuel EXCEPT !.ua1 = u1, !.ua2 = u2, !.t1 = ticket[u1]]
      /\ area1' = Front(area1) /\ area1 # <<>>
      /\ UNCHANGED <<entries, userArea, sOne, remain, ranks, mixed, final, ticket>>
  BY DEF FirstOfPair, Playing, results, Tournament
<1>1. SUFFICES ASSUME Clean' PROVE AliveInv' /\ SizeInv'
  BY DEF AliveInv, SizeInv
<1>2. Clean
  BY <1>0, <1>1, StaysClean
<1>3. Ranking' = Ranking /\ \A u : Places(Ranking, u) \in Nat
  BY <1>0, Counts DEF Ranking
<1>4. u1 \in Uuids /\ Len(area1) \in Nat \ {0} /\ Len(area1') = Len(area1) - 1
  BY <1>0, LastSeat DEF PlayTypeOK
<1> HIDE DEF u1, u2
<1>5. duel'.ua1 = u1 /\ duel'.t1 = ticket[u1]
  BY <1>0 DEF NoDuel
<1>6. \A u \in Uuids : Alive(u)' + InDuel(u)' > 0 => u \in Living'
  BY <1>0, <1>1, <1>2, <1>3, RoundLeavesPoints
<1>7. duel'.t1 > 0
  <2>1. PICK u \in Uuids : u = u1
    BY <1>4
  <2>2. /\ Seats(userArea', u) \in Nat /\ Seats(area1', u) \in Nat /\ Seats(area2', u) \in Nat
        /\ Seats(sOne', u) \in Nat /\ Seats(remain', u) \in Nat
    BY SeatsType DEF PlayTypeOK
  <2>3. Alive(u)' \in Nat
    BY <2>2 DEF Alive
  <2>4. InDuel(u)' >= 1 /\ InDuel(u)' \in Nat
    BY <1>0, <1>5, <2>1 DEF InDuel, One
  <2>5. Alive(u)' + InDuel(u)' > 0
    BY <2>3, <2>4
  <2> QED BY <1>0, <1>5, <1>6, <2>1, <2>5 DEF Living
<1>8. AliveInv'
  BY <1>0, <1>6, <1>7 DEF AliveInv
<1>9. SizeInv'
  <2>1. Lengths
    BY LengthsAreNumbers
  <2>2. Left > Finalists
    BY <1>0, <1>2 DEF SizeInv
  <2>3. Left' = Left
    BY <1>0, <1>4, <2>1 DEF Left, Lengths
  <2> QED BY <1>0, <2>2, <2>3, SizeFacts DEF SizeInv
<1> QED BY <1>8, <1>9

LEMMA SecondOfPairAlive ==
    ASSUME PipeTypeOK, FreshInv, DataStep, PlayTypeOK, PlayTypeOK', StageInv, PlaceInv, PlaceInv', AliveInv, SizeInv, SecondOfPair
    PROVE  AliveInv' /\ SizeInv'
<1> DEFINE u1 == duel.ua1
           u2 == duel.ua2
<1>0. /\ stage = "second" /\ stage' = "set1" /\ Tournament
      /\ UNCHANGED <<entries, ticket, tcopy, userArea, area1, area2, sOne, final>>
      /\ u1 \in Uuids /\ u2 \in Uuids /\ duel.t1 \in Nat /\ ticket[u2] \in Nat
      /\ mixed' = (mixed \/ NameOf1(u1, u2) # u1)
      /\ duel'.ua1 = u1 /\ duel'.ua2 = u2 /\ duel'.t1 \in Nat /\ duel'.t2 \in Nat
      /\ Fought(NameOf1(u1, u2), u2, duel'.t1, duel'.t2)
  BY SecondOfPairFights DEF Tournament
<1>w. PICK winner \in 1..2 : <<duel'.t1, duel'.t2>> = AfterFight(u1, u2, duel.t1, ticket[u2], winner)
  BY SecondOfPairFights
<1>1. SUFFICES ASSUME Clean' PROVE AliveInv' /\ SizeInv'
  BY DEF AliveInv, SizeInv
<1>2. Clean /\ NameOf1(u1, u2) = u1
  BY <1>0, <1>1, StaysClean DEF Clean
<1>3. Fought(u1, u2, duel'.t1, duel'.t2)
  BY <1>0, <1>2
<1>4. \A u : Places(Ranking', u) >= Places(Ranking, u) /\ Places(Ranking, u) \in Nat
  <2>1. Ranking = ranks /\ Ranking' = ranks' /\ \A u : Places(ranks, u) \in Nat
    BY <1>0, Counts DEF Ranking
  <2> QED BY <1>3, <2>1 DEF Fought, One
<1>5. \A u \in Uuids : Alive(u)' + InDuel(u)' > 0 => u \in Living'
  BY <1>0, <1>1, <1>2, <1>4, RoundLeavesPoints
<1>6. ASSUME NEW u \in Uuids, (u = u1 /\ duel'.t1 = 0) \/ (u = u2 /\ duel'.t2 = 0)
      PROVE  Alive(u)' = 0
  <2>1. Places(ranks, u) \in Nat
    BY Counts
  <2>2. Places(ranks', u) >= 1 /\ Places(ranks', u) \in Nat
    BY <1>0, <1>3, <1>6, <2>1 DEF Fought, One
  <2>3. Places(entries', u) = Alive(u)' + InDuel(u)' + Places(ranks', u)
    BY <1>0, <1>1 DEF PlaceInv, Clean, Ranking
  <2>4. ~ (Places(entries', u) > 1)
    BY <1>1 DEF Clean, TwiceListed
  <2>5. /\ Seats(userArea', u) \in Nat /\ Seats(area1', u) \in Nat /\ Seats(area2', u) \in Nat
        /\ Seats(sOne', u) \in Nat /\ Seats(remain', u) \in Nat
    BY SeatsType DEF PlayTypeOK
  <2>6. Alive(u)' \in Nat /\ InDuel(u)' = 0
    BY <1>0, <2>5 DEF Alive, InDuel
  <2> QED BY <2>2, <2>3, <2>4, <2>6
<1>7. AliveInv'
  <2>1. PICK v1 \in Uuids, v2 \in Uuids : v1 = u1 /\ v2 = u2
    BY <1>0
  <2>2. (Alive(v1)' > 0 => duel'.t1 # 0) /\ (Alive(v2)' > 0 => duel'.t2 # 0)
    BY <1>6, <2>1
  <2>3. Alive(duel.ua1)' = Alive(v1)' /\ Alive(duel.ua2)' = Alive(v2)'
    BY <1>0, <2>1 DEF Alive
  <2>4. /\ Alive(duel.ua1)' > 0 => duel'.t1 > 0
        /\ Alive(duel.ua2)' > 0 => duel'.t2 > 0
    BY <1>0, <2>2, <2>3
  <2> HIDE DEF u1, u2
  <2> QED BY <1>0, <1>5, <2>4 DEF AliveInv
<1>8. duel'.t1 # 0 \/ duel'.t2 # 0
  <2>1. duel.t1 > 0
    BY <1>0, <1>2 DEF AliveInv
  <2>2. ticket[u2] > 0
    <3>1. Alive(u2) \in Nat
      BY <1>0, <1>2, AliveOrRanked
    <3>2. InDuel(u2) >= 1 /\ InDuel(u2) \in Nat
      BY <1>0 DEF InDuel, One
    <3>3. Alive(u2) + InDuel(u2) > 0
      BY <3>1, <3>2
    <3> QED BY <1>0, <1>2, <3>3 DEF AliveInv, Living
  <2> HIDE DEF u1, u2
  <2>3. CASE u1 = u2 /\ u1 \in AllRobots
    BY <1>w, <2>1, <2>3 DEF AfterFight
  <2>4. CASE ~ (u1 = u2 /\ u1 \in AllRobots) /\ winner = 1
    <3>1. duel'.t1 = duel.t1 + Prize(duel.t1, ticket[u2])
      BY <1>w, <2>4 DEF AfterFight
    <3> QED BY <1>0, <2>1, <2>2, <3>1 DEF Prize
  <2>5. CASE ~ (u1 = u2 /\ u1 \in AllRobots) /\ winner # 1
    <3>1. duel'.t2 = ticket[u2] + Prize(ticket[u2], duel.t1)
      BY <1>w, <2>5 DEF AfterFight
    <3> QED BY <1>0, <2>1, <2>2, <3>1 DEF Prize
  <2> QED BY <2>3, <2>4, <2>5
<1>9. SizeInv'
  <2>1. Lengths
    BY LengthsAreNumbers
  <2>2. Left > Finalists /\ Finalists \in Nat
    BY <1>0, <1>2, SizeFacts DEF SizeInv
  <2>3. Len(remain') >= Len(remain) + 1 /\ Len(remain') \in Nat
    <3>1. Len(remain') = Len(remain) + (IF duel'.t1 # 0 THEN 1 ELSE 0) + (IF duel'.t2 # 0 THEN 1 ELSE 0)
      BY <1>3 DEF Fought
    <3>2. Len(remain) \in Nat
      BY <2>1 DEF Lengths
    <3>3. CASE duel'.t1 # 0
      BY <3>1, <3>2, <3>3
    <3>4. CASE duel'.t2 # 0
      BY <3>1, <3>2, <3>4
    <3> QED BY <1>8, <3>3, <3>4
  <2>4. Left' >= Left /\ Left' \in Nat /\ Left \in Nat
    BY <1>0, <2>1, <2>3 DEF Left, Lengths
  <2> QED BY <1>0, <2>2, <2>4 DEF SizeInv
<1> QED BY <1>7, <1>9

LEMMA SetAlive ==
    ASSUME PipeTypeOK, FreshInv, DataStep, PlayTypeOK, StageInv, AliveInv, SizeInv, SetFirst \/ SetSecond
    PROVE  AliveInv' /\ SizeInv'
<1>0. /\ UNCHANGED <<entries, userArea, area1, area2, sOne, remain, mixed>> /\ Tournament
      /\ stage \in {"set1", "set2"}
      /\ \/ /\ stage = "set1" /\ stage' = "set2" /\ UNCHANGED duel
            /\ ticket' = [ticket EXCEPT ![duel.ua1] = duel.t1]
         \/ /\ stage = "set2" /\ stage' = "first"
            /\ ticket' = [ticket EXCEPT ![duel.ua2] = duel.t2]
  BY DEF SetFirst, SetSecond, SetPvpInfo, Playing, field, results, Tournament
<1> SUFFICES ASSUME Clean' PROVE AliveInv' /\ SizeInv'
  BY DEF AliveInv, SizeInv
<1>1. Clean
  BY <1>0, StaysClean
<1>2. /\ \A u : Alive(u)' = Alive(u) /\ InDuel(u) = 0 /\ InDuel(u)' = 0
      /\ Left' = Left
  BY <1>0 DEF Alive, InDuel, Left
<1>3. ticket \in [Uuids -> Nat]
  BY DEF PlayTypeOK
<1>4. /\ stage = "set1" /\ Alive(duel.ua1) > 0 => duel.t1 > 0
      /\ Alive(duel.ua2) > 0 => duel.t2 > 0
      /\ \A u \in Uuids : Alive(u) + InDuel(u) > 0 => u \in Living
  BY <1>0, <1>1 DEF AliveInv
<1>5. ASSUME NEW u \in Uuids, Alive(u)' + InDuel(u)' > 0
      PROVE  u \in Living'
  <2>1. Alive(u) \in Nat
    BY Counts DEF Alive
  <2>2. Alive(u) + InDuel(u) > 0 /\ Alive(u) > 0
    BY <1>2, <1>5, <2>1
  <2>3. ticket'[u] > 0
    <3>1. ticket[u] > 0
      BY <1>4, <2>2 DEF Living
    <3>2. CASE stage = "set1"
      <4>1. u = duel.ua1 => duel.t1 > 0
        BY <1>4, <2>2, <3>2
      <4> QED BY <1>0, <1>3, <3>1, <3>2, <4>1
    <3>3. CASE stage = "set2"
      <4>1. u = duel.ua2 => duel.t2 > 0
        BY <1>4, <2>2
      <4> QED BY <1>0, <1>3, <3>1, <3>3, <4>1
    <3> QED BY <1>0, <3>2, <3>3
  <2> QED BY <1>0, <1>4, <2>2, <2>3, StepKeepsLiving
<1>6. stage' = "set2" => (Alive(duel.ua2)' > 0 => duel'.t2 > 0)
  <2>1. UNCHANGED duel => Alive(duel.ua2)' = Alive(duel.ua2)
    BY <1>0 DEF Alive
  <2> QED BY <1>0, <1>4, <2>1
<1>7. AliveInv'
  BY <1>0, <1>5, <1>6 DEF AliveInv
<1>8. SizeInv'
  BY <1>0, <1>1, <1>2 DEF SizeInv
<1> QED BY <1>7, <1>8

LEMMA EndRoundAlive ==
    ASSUME PipeTypeOK, FreshInv, DataStep, PlayTypeOK, PlayTypeOK', AreaInv, PlaceInv, PlaceInv', AliveInv, SizeInv, EndRound
    PROVE  AliveInv' /\ SizeInv'
<1>0. /\ stage = "first" /\ stage' = "round" /\ Tournament
      /\ (area1 = <<>> \/ area2 = <<>>)
      /\ userArea' = remain \o sOne /\ sOne' = <<>> /\ remain' = <<>>
      /\ UNCHANGED <<entries, area1, ranks, mixed, final, ticket>>
  BY DEF EndRound, Playing, Tournament
<1>1. SUFFICES ASSUME Clean' PROVE AliveInv' /\ SizeInv'
  BY DEF AliveInv, SizeInv
<1>2. Clean
  BY <1>0, <1>1, StaysClean
<1>3. Ranking' = Ranking /\ \A u : Places(Ranking, u) \in Nat
  BY <1>0, Counts DEF Ranking
<1>4. AliveInv'
  <2>1. \A u \in Uuids : Alive(u)' + InDuel(u)' > 0 => u \in Living'
    BY <1>0, <1>1, <1>2, <1>3, RoundLeavesPoints
  <2> QED BY <1>0, <2>1 DEF AliveInv
<1>5. SizeInv'
  <2>1. /\ remain \in Seq(Entry) /\ sOne \in Seq(Entry) /\ area1 \in Seq(Entry) /\ area2 \in Seq(Entry)
        /\ Len(area1) = Len(area2) /\ userArea = <<>>
    BY <1>0 DEF PlayTypeOK, AreaInv
  <2>2. area1 = <<>>
    BY <1>0, <2>1
  <2>3. Len(userArea') = Len(remain) + Len(sOne) /\ Len(remain) \in Nat /\ Len(sOne) \in Nat
    BY <1>0, <2>1
  <2>4. Left = 0 + Len(remain) + 0 + Len(sOne) + 0
    BY <1>0, <2>1, <2>2 DEF Left
  <2>5. Left' = Len(userArea') + 0 + 0 + 0 + 0
    BY <1>0, <2>2 DEF Left
  <2>6. Left' = Left /\ Left > Finalists
    BY <1>0, <1>2, <2>3, <2>4, <2>5 DEF SizeInv
  <2> QED BY <1>0, <2>6 DEF SizeInv
<1> QED BY <1>4, <1>5

LEMMA RankAlive ==
    ASSUME PipeTypeOK, FreshInv, DataStep, PlayTypeOK, AreaInv, AreaInv', AliveInv, SizeInv, Rank
    PROVE  AliveInv' /\ SizeInv'
<1>0. /\ stage = "rank" /\ stage' \in {"short", "done"} /\ UNCHANGED <<entries, area1, sOne, remain, mixed>>
      /\ stage' = "short" => Len(userArea) <= Finalists
  BY DEF Rank, Playing
<1>1. SUFFICES ASSUME Clean' PROVE AliveInv' /\ SizeInv'
  BY DEF AliveInv, SizeInv
<1>2. Clean
  BY <1>0, <1>1, StaysClean
<1>3. stage' = "done"
  <2>1. Left = Len(userArea) + 0 + 0 + 0 + 0
    BY <1>0 DEF Left, AreaInv
  <2>2. Left > Finalists
    BY <1>0, <1>2 DEF SizeInv
  <2>3. Lengths
    BY LengthsAreNumbers
  <2> QED BY <1>0, <2>1, <2>2, <2>3, SizeFacts DEF Lengths
<1>4. ASSUME NEW u PROVE Alive(u)' = 0 /\ InDuel(u)' = 0
  <2>1. Alive(u)' = 0 + 0 + 0 + 0 + 0
    BY <1>3, NoSeats DEF Alive, AreaInv
  <2> QED BY <1>3, <2>1 DEF InDuel
<1> QED BY <1>3, <1>4 DEF AliveInv, SizeInv

LEMMA StepKeepsAlive ==
    ASSUME IInv, IInv', AreaInv, PlaceInv, AreaInv', PlaceInv', StartInv, AliveInv, SizeInv, [PvpNext]_pvpVars
    PROVE  AliveInv' /\ SizeInv'
<1>0. PipeTypeOK /\ FreshInv /\ DataStep /\ PlayTypeOK /\ PlayTypeOK' /\ StageInv
  BY TypeParts, StepFacts DEF IInv, PlayTypeOK, PvpTypeOK
<1>1. ASSUME UNCHANGED match PROVE SizeInv'
  <2>1. UNCHANGED <<stage, entries, userArea, area1, sOne, remain, mixed>>
    BY <1>1 DEF match, field, results
  <2>2. Clean' => Clean
    BY <1>0, <2>1, StaysClean
  <2> QED BY <2>1, <2>2 DEF SizeInv, Left
<1>2. CASE UNCHANGED pvpVars \/ ListStep
  <2>1. UNCHANGED match /\ ticket' = ticket /\ (Tournament \/ UNCHANGED pvpVars)
    BY <1>2 DEF pvpVars, ListStep, Tournament
  <2>2. UNCHANGED <<stage, entries, userArea, area1, area2, sOne, remain, duel, mixed>>
    BY <2>1 DEF match, field, results
  <2>3. /\ \A u : Alive(u)' = Alive(u) /\ InDuel(u)' = InDuel(u)
        /\ Alive(duel.ua1)' = Alive(duel.ua1) /\ Alive(duel.ua2)' = Alive(duel.ua2)
    BY <2>2 DEF Alive, InDuel
  <2>4. Clean' => Clean
    BY <1>0, <2>2, StaysClean
  <2>5. Living \subseteq Living'
    <3>1. \A u \in Living : ticket'[u] > 0
      BY <2>1 DEF Living
    <3> QED BY <1>0, <2>1, <3>1, StepKeepsLiving
  <2>6. AliveInv'
    BY <2>2, <2>3, <2>4, <2>5 DEF AliveInv
  <2> QED BY <1>1, <2>1, <2>6
<1>3. CASE \E c \in Calls : PlayerCall(c)
  BY <1>1, <1>3, CallLeavesPoints DEF PlayerCall
<1>4. CASE FillUp
  BY <1>0, <1>4, FillUpAlive
<1>5. CASE FightOne
  BY <1>0, <1>5, FightOneAlive
<1>6. CASE FirstOfPair
  BY <1>0, <1>6, FirstOfPairAlive
<1>7. CASE SecondOfPair
  BY <1>0, <1>7, SecondOfPairAlive
<1>8. CASE SetFirst \/ SetSecond
  BY <1>0, <1>8, SetAlive
<1>9. CASE EndRound
  BY <1>0, <1>9, EndRoundAlive
<1>10. CASE Rank
  BY <1>0, <1>10, RankAlive
<1> QED BY <1>2, <1>3, <1>4, <1>5, <1>6, <1>7, <1>8, <1>9, <1>10 DEF PvpNext, Tournament

LEMMA AliveInvariant == PvpSpec => [](IInv /\ AreaInv /\ PlaceInv /\ StartInv /\ AliveInv /\ SizeInv)
<1>1. PvpInit => StartInv /\ AliveInv /\ SizeInv
  <2> SUFFICES ASSUME PvpInit PROVE StartInv /\ AliveInv /\ SizeInv
    OBVIOUS
  <2>1. /\ stage = "list" /\ ticket = StartTickets
        /\ \A c \in Calls : have[c] = {} /\ \A r \in Records : vals[c][r] = {}
    BY DEF PvpInit, PipeInit
  <2>2. StartTickets \in [Uuids -> Nat]
    BY PvpAssumption DEF PvpAssumption, Uuids
  <2> QED BY <2>1, <2>2, Facts, SizeFacts DEF StartInv, AliveInv, SizeInv, HasInfo, Inf
<1>2. PvpInit => IInv /\ AreaInv /\ PlaceInv
  BY InitHolds, StartsWithNoPlaces
<1>3. IInv /\ AreaInv /\ PlaceInv /\ StartInv /\ AliveInv /\ SizeInv /\ [PvpNext]_pvpVars
         => IInv' /\ AreaInv' /\ PlaceInv' /\ StartInv' /\ AliveInv' /\ SizeInv'
  <2> SUFFICES ASSUME IInv, AreaInv, PlaceInv, StartInv, AliveInv, SizeInv, [PvpNext]_pvpVars
               PROVE  IInv' /\ AreaInv' /\ PlaceInv' /\ StartInv' /\ AliveInv' /\ SizeInv'
    OBVIOUS
  <2>1. IInv' /\ AreaInv' /\ PlaceInv' /\ StartInv'
    BY Inductive, StepKeepsPlaces, StartKeeps
  <2> QED BY <2>1, StepKeepsAlive
<1> QED BY <1>1, <1>2, <1>3, PTL DEF PvpSpec

\* The rounds leave enough players for the final rounds (pvp_imp.js:769, 780): a round starts
\* with more than twice as many, one of each pair keeps points, and who enrolled had some.
THEOREM EnoughForTheFinal == PvpSpec => []NeverShort
<1>1. SizeInv => NeverShort
  BY DEF SizeInv, Clean, NeverShort
<1> QED BY <1>1, AliveInvariant, PTL

-----------------------------------------------------------------------------
(* Points are moved: the invariant of PointsConserved. *)

PointsOf(t, U) == UNION {{u} \X (1..t[u]) : u \in U}

LEMMA UuidsFinite == IsFiniteSet(Uuids)
<1>1. IsFiniteSet(AllRobots)
  <2>1. Robots \in [1..Len(Robots) -> AllRobots]
    BY SizeFacts
  <2>2. \A r \in AllRobots : \E i \in 1..Len(Robots) : Robots[i] = r
    BY DEF AllRobots, RangeOf
  <2>3. Robots \in Surjection(1..Len(Robots), AllRobots)
    BY <2>1, <2>2 DEF Surjection
  <2>4. IsFiniteSet(1..Len(Robots))
    BY SizeFacts, FS_Interval
  <2> QED BY <2>3, <2>4, FS_Surjection
<1>2. IsFiniteSet(Players)
  BY PvpAssumption DEF PvpAssumption
<1> QED BY <1>1, <1>2, FS_Union DEF Uuids

LEMMA PointsOfOne ==
    ASSUME NEW u, NEW n \in Nat
    PROVE  IsFiniteSet({u} \X (1..n)) /\ Cardinality({u} \X (1..n)) = n
<1> DEFINE f == [i \in 1..n |-> <<u, i>>]
           T == {u} \X (1..n)
<1>1. f \in Bijection(1..n, T)
  <2>1. f \in [1..n -> T] /\ \A i, j \in 1..n : f[i] = f[j] => i = j
    OBVIOUS
  <2>2. \A t \in T : \E i \in 1..n : f[i] = t
    <3> SUFFICES ASSUME NEW t \in T PROVE \E i \in 1..n : f[i] = t
      OBVIOUS
    <3>1. t[2] \in 1..n /\ t = <<u, t[2]>>
      OBVIOUS
    <3> QED BY <3>1
  <2> QED BY <2>1, <2>2 DEF Bijection, Injection, Surjection, IsInjective
<1>2. ExistsBijection(1..n, T)
  BY <1>1 DEF ExistsBijection
<1> HIDE DEF T
<1>3. IsFiniteSet(1..n) /\ Cardinality(1..n) = n
  BY FS_Interval
<1>4. IsFiniteSet(T) /\ Cardinality(T) = Cardinality(1..n)
  BY <1>2, <1>3, FS_Bijection
<1> QED BY <1>3, <1>4 DEF T

LEMMA PointsFinite ==
    ASSUME NEW U \in SUBSET Uuids, NEW t \in [Uuids -> Nat]
    PROVE  IsFiniteSet(PointsOf(t, U)) /\ Cardinality(PointsOf(t, U)) \in Nat
<1> DEFINE f == [u \in U |-> {u} \X (1..t[u])]
           S == {{u} \X (1..t[u]) : u \in U}
<1>1. IsFiniteSet(U)
  BY UuidsFinite, FS_Subset
<1>2. f \in Surjection(U, S)
  BY DEF Surjection
<1>3. IsFiniteSet(S)
  <2> HIDE DEF f, S
  <2> QED BY <1>1, <1>2, FS_Surjection
<1>4. \A p \in S : IsFiniteSet(p)
  <2> SUFFICES ASSUME NEW u \in U PROVE IsFiniteSet({u} \X (1..t[u]))
    OBVIOUS
  <2>1. t[u] \in Nat
    OBVIOUS
  <2> QED BY <2>1, PointsOfOne
<1>5. IsFiniteSet(UNION S)
  <2> HIDE DEF S
  <2> QED BY <1>3, <1>4, FS_UNION
<1> QED BY <1>5, FS_CardinalityType DEF PointsOf

\* The sum is that of the others and of one.
LEMMA SumWithout ==
    ASSUME NEW t \in [Uuids -> Nat], NEW u \in Uuids
    PROVE  Sum(t) = Cardinality(PointsOf(t, Uuids \ {u})) + t[u]
<1> DEFINE A == PointsOf(t, Uuids \ {u})
           B == {u} \X (1..t[u])
<1>1. PointsOf(t, Uuids) = A \cup B
  BY DEF PointsOf
<1>2. A \cap B = {}
  BY DEF PointsOf
<1>3. IsFiniteSet(A) /\ Cardinality(A) \in Nat
  BY PointsFinite
<1>4. IsFiniteSet(B) /\ Cardinality(B) = t[u] /\ t[u] \in Nat
  BY PointsOfOne
<1> HIDE DEF A, B
<1>5. Cardinality(A \cup B) = Cardinality(A) + Cardinality(B) - Cardinality(A \cap B)
  BY <1>3, <1>4, FS_Union
<1>6. Cardinality(A \cap B) = 0
  BY <1>2, FS_EmptySet
<1>7. Sum(t) = Cardinality(A \cup B)
  BY <1>1 DEF Sum, PointsOf
<1> QED BY <1>3, <1>4, <1>5, <1>6, <1>7 DEF A

LEMMA SumType == \A t \in [Uuids -> Nat] : Sum(t) \in Nat
<1> SUFFICES ASSUME NEW t \in [Uuids -> Nat] PROVE Sum(t) \in Nat
  OBVIOUS
<1>1. Cardinality(PointsOf(t, Uuids)) \in Nat
  BY PointsFinite
<1> QED BY <1>1 DEF Sum, PointsOf

LEMMA SumChanges ==
    ASSUME NEW t \in [Uuids -> Nat], NEW u \in Uuids, NEW x \in Nat
    PROVE  Sum([t EXCEPT ![u] = x]) + t[u] = Sum(t) + x /\ Sum(t) \in Nat
<1> DEFINE s == [t EXCEPT ![u] = x]
           U == Uuids \ {u}
<1>1. s \in [Uuids -> Nat] /\ s[u] = x /\ \A v \in U : s[v] = t[v]
  OBVIOUS
<1> HIDE DEF s
<1>2. Sum(t) = Cardinality(PointsOf(t, U)) + t[u] /\ Sum(s) = Cardinality(PointsOf(s, U)) + x
  BY <1>1, SumWithout
<1>3. PointsOf(s, U) = PointsOf(t, U)
  BY <1>1 DEF PointsOf
<1>4. Cardinality(PointsOf(t, U)) \in Nat /\ t[u] \in Nat
  BY PointsFinite
<1> QED BY <1>2, <1>3, <1>4 DEF s

\* The total is that of those listed, also when only the first of the two has been written.
TotalInv ==
    IF stage = "set2" THEN Sum(ticket) + duel.t2 = Sum(before) + ticket[duel.ua2]
    ELSE Sum(ticket) = Sum(before)

\* The copies of those who fight: a robot that fights itself is written twice.
DuelInv ==
    /\ stage = "second" => duel.t1 = ticket[duel.ua1]
    /\ stage = "set1" =>
          \/ duel.ua1 = duel.ua2 /\ duel.t1 = duel.t2 /\ duel.t1 = ticket[duel.ua1]
          \/ duel.ua1 # duel.ua2 /\ duel.t1 + duel.t2 = ticket[duel.ua1] + ticket[duel.ua2]

\* Nobody is listed twice, and no call in work with the tournament has stored a pvpInfo.
Fair == ~ TwiceListed /\ \A d \in met[Job] : stored[d] \cap Infos = {}

\* Whoever has stored a pvpInfo while the tournament was in work has met it.
PointsInv ==
    /\ pc[Job] = "new" => stage = "list"
    /\ Fair /\ InWork(Job) /\ stage # "list" => DuelInv /\ TotalInv

LEMMA StaysFair ==
    ASSUME IInv, AreaInv, [PvpNext]_pvpVars, Fair'
    PROVE  Fair
<1>0. PipeTypeOK /\ FreshInv /\ DataStep /\ Job \in Calls
  BY StepCases, Facts DEF IInv, PvpTypeOK, DataInv
<1>1. ASSUME NEW d \in met[Job] PROVE stored[d] \cap Infos = {}
  <2>1. d \in Calls /\ d \in met'[Job]
    BY <1>0, WorkGoesOn DEF PipeTypeOK, RecordsTypeOK
  <2>2. stored[d] \subseteq stored'[d] /\ stored'[d] \cap Infos = {}
    BY <1>0, <2>1, StoresItsCopies DEF Fair
  <2> QED BY <2>2
<1>2. ~ TwiceListed
  <2>1. CASE entries' = entries
    BY <2>1 DEF Fair, TwiceListed
  <2>2. CASE FillUp
    <3>1. entries = <<>>
      BY <2>2 DEF AreaInv, FillUp, Playing
    <3>2. \A u : At(entries, u) = {}
      BY <3>1 DEF At
    <3>3. \A u : Places(entries, u) = 0
      BY <3>2, FS_EmptySet DEF Places, At
    <3> QED BY <3>3 DEF TwiceListed
  <2>3. CASE ~ FillUp
    BY <2>1, <2>3 DEF PvpNext, Tournament, PlayerCall, ListStep, FightOne, FirstOfPair, SecondOfPair, SetFirst,
                      SetSecond, SetPvpInfo, EndRound, Rank, match, pvpVars
  <2> QED BY <2>2, <2>3
<1> QED BY <1>1, <1>2 DEF Fair

\* A call that stores a pvpInfo while the tournament is in work has met it.
LEMMA CallMovesNoPoints ==
    ASSUME IInv, NEW c \in Calls, PlayerCall(c), InWork(Job), Fair'
    PROVE  ticket' = ticket
<1>0. PipeTypeOK /\ FreshInv /\ MetInv /\ DataStep /\ Job \in Calls
  <2>1. [PvpNext]_pvpVars
    BY DEF PvpNext
  <2> QED BY <2>1, StepFacts, Facts DEF IInv, DataInv
<1>1. /\ c # Job /\ PlayerOf[c] \in Uuids
      /\ \/ ticket' = ticket
         \/ InWork(c) /\ Inf(c) \in stored'[c]
  BY PointsFollow
<1>2. ~ (InWork(c) /\ Inf(c) \in stored'[c])
  <2> SUFFICES ASSUME InWork(c), Inf(c) \in stored'[c] PROVE FALSE
    OBVIOUS
  <2>1. c \in met[Job] /\ met[Job] \subseteq met'[Job]
    BY <1>0, <1>1, WorkGoesOn DEF MetInv
  <2>2. Inf(c) \in Infos
    BY <1>1, Facts DEF Inf, Infos
  <2> QED BY <2>1, <2>2 DEF Fair
<1> QED BY <1>1, <1>2

\* The loser pays what the winner gains, and a robot that fights itself stays as it is.
LEMMA FightMovesWhatIsPaid ==
    ASSUME NEW u, NEW v, NEW t1 \in Nat, NEW t2 \in Nat, NEW winner \in 1..2
    PROVE  LET t == AfterFight(u, v, t1, t2, winner)
           IN  IF u = v /\ u \in AllRobots THEN t = <<t1, t1>> ELSE t[1] + t[2] = t1 + t2
<1>1. CASE u = v /\ u \in AllRobots
  BY <1>1 DEF AfterFight
<1>2. CASE ~ (u = v /\ u \in AllRobots) /\ winner = 1
  BY <1>2 DEF AfterFight, Prize
<1>3. CASE ~ (u = v /\ u \in AllRobots) /\ winner # 1
  BY <1>3 DEF AfterFight, Prize
<1> QED BY <1>1, <1>2, <1>3

\* Only who is listed twice, or a robot that has taken another's place, fights himself.
LEMMA NoPlayerFightsHimself ==
    ASSUME PlayTypeOK, StageInv, PlaceInv, ~ TwiceListed, stage = "second", duel.ua1 = duel.ua2
    PROVE  duel.ua1 \in AllRobots
<1> SUFFICES ASSUME duel.ua1 \notin AllRobots PROVE FALSE
  OBVIOUS
<1>1. PICK u \in Uuids : u = duel.ua1
  BY DEF StageInv
<1>2. Places(entries, u) = Alive(u) + InDuel(u) + Places(Ranking, u)
  BY <1>1 DEF PlaceInv
<1>3. InDuel(u) = 2
  BY <1>1 DEF InDuel, One
<1>4. Alive(u) \in Nat /\ Places(Ranking, u) \in Nat
  BY Counts DEF Alive, Ranking
<1>5. Places(entries, u) > 1
  BY <1>2, <1>3, <1>4
<1> QED BY <1>5 DEF TwiceListed

\* The first write makes up for the second, which restores the total.
LEMMA SetMovesPoints ==
    ASSUME PlayTypeOK, StageInv, DuelInv, TotalInv, SetFirst \/ SetSecond
    PROVE  DuelInv' /\ TotalInv'
<1>0. ticket \in [Uuids -> Nat] /\ duel.t1 \in Nat /\ duel.t2 \in Nat /\ Sum(before) \in Nat
  <2>1. before \in [Uuids -> Nat]
    BY DEF PlayTypeOK
  <2>2. Sum(before) \in Nat
    BY <2>1, SumType
  <2> QED BY <2>2 DEF PlayTypeOK
<1>1. CASE SetFirst
  <2>1. /\ stage = "set1" /\ stage' = "set2" /\ UNCHANGED <<duel, before>>
        /\ ticket' = [ticket EXCEPT ![duel.ua1] = duel.t1]
    BY <1>1 DEF SetFirst, SetPvpInfo, Playing
  <2>2. duel.ua1 \in Uuids /\ duel.ua2 \in Uuids
    BY <2>1 DEF StageInv
  <2>3. Sum(ticket') + ticket[duel.ua1] = Sum(ticket) + duel.t1 /\ Sum(ticket) \in Nat
    BY <1>0, <2>1, <2>2, SumChanges
  <2>4. Sum(ticket) = Sum(before)
    BY <2>1 DEF TotalInv
  <2>5. ticket[duel.ua1] \in Nat /\ ticket[duel.ua2] \in Nat
    BY <1>0, <2>2
  <2>6. Sum(ticket') \in Nat
    <3>1. ticket' \in [Uuids -> Nat]
      BY <1>0, <2>1
    <3> QED BY <3>1, SumType
  <2>7. Sum(ticket') + duel.t2 = Sum(before) + ticket'[duel.ua2]
    <3>1. CASE duel.ua1 = duel.ua2
      <4>1. duel.t1 = duel.t2 /\ duel.t1 = ticket[duel.ua1] /\ ticket'[duel.ua2] = duel.t1
        BY <1>0, <2>1, <2>2, <3>1 DEF DuelInv
      <4> QED BY <1>0, <2>3, <2>4, <2>5, <2>6, <4>1
    <3>2. CASE duel.ua1 # duel.ua2
      <4>1. duel.t1 + duel.t2 = ticket[duel.ua1] + ticket[duel.ua2] /\ ticket'[duel.ua2] = ticket[duel.ua2]
        BY <1>0, <2>1, <2>2, <3>2 DEF DuelInv
      <4> QED BY <1>0, <2>3, <2>4, <2>5, <2>6, <4>1
    <3> QED BY <3>1, <3>2
  <2> QED BY <2>1, <2>7 DEF DuelInv, TotalInv
<1>2. CASE SetSecond
  <2>1. /\ stage = "set2" /\ stage' = "first" /\ before' = before
        /\ ticket' = [ticket EXCEPT ![duel.ua2] = duel.t2]
    BY <1>2 DEF SetSecond, SetPvpInfo, Playing
  <2>2. duel.ua2 \in Uuids
    BY <2>1 DEF StageInv
  <2>3. Sum(ticket') + ticket[duel.ua2] = Sum(ticket) + duel.t2 /\ Sum(ticket) \in Nat
    BY <1>0, <2>1, <2>2, SumChanges
  <2>4. Sum(ticket) + duel.t2 = Sum(before) + ticket[duel.ua2]
    BY <2>1 DEF TotalInv
  <2>5. ticket[duel.ua2] \in Nat
    BY <1>0, <2>2
  <2>6. Sum(ticket') \in Nat
    <3>1. ticket' \in [Uuids -> Nat]
      BY <1>0, <2>1
    <3> QED BY <3>1, SumType
  <2>7. Sum(ticket') = Sum(before)
    <3>1. duel.t2 \in Nat /\ Sum(before) \in Nat
      BY <1>0
    <3>2. Sum(ticket') + ticket[duel.ua2] = Sum(before) + ticket[duel.ua2]
      BY <2>3, <2>4
    <3> QED BY <2>5, <2>6, <3>1, <3>2
  <2> QED BY <2>1, <2>7 DEF DuelInv, TotalInv
<1> QED BY <1>1, <1>2

LEMMA RoundMovesPoints ==
    ASSUME PlayTypeOK, StageInv, PlaceInv, DuelInv, TotalInv, ~ TwiceListed,
           \/ FightOne \/ FirstOfPair \/ SecondOfPair \/ SetFirst \/ SetSecond \/ EndRound \/ Rank
    PROVE  DuelInv' /\ TotalInv'
<1>1. CASE FightOne \/ EndRound \/ Rank
  <2>1. ticket' = ticket /\ before' = before /\ stage # "set2" /\ stage' \notin {"second", "set1", "set2"}
    BY <1>1 DEF FightOne, EndRound, Rank, Playing
  <2> QED BY <2>1 DEF DuelInv, TotalInv
<1>2. CASE FirstOfPair
  <2>1. /\ ticket' = ticket /\ before' = before /\ stage = "first" /\ stage' = "second"
        /\ duel' = [NoDuel EXCEPT !.ua1 = Last(area1).uuid, !.ua2 = Last(area2).uuid,
                                  !.t1 = ticket[Last(area1).uuid]]
    BY <1>2 DEF FirstOfPair, Playing
  <2>2. duel'.t1 = ticket'[duel'.ua1]
    BY <2>1 DEF NoDuel
  <2> QED BY <2>1, <2>2 DEF DuelInv, TotalInv
<1>3. CASE SecondOfPair
  <2>1. /\ stage = "second" /\ stage' = "set1" /\ ticket' = ticket /\ before' = before
        /\ duel'.ua1 = duel.ua1 /\ duel'.ua2 = duel.ua2 /\ duel.t1 \in Nat /\ ticket[duel.ua2] \in Nat
        /\ \E winner \in 1..2 :
              <<duel'.t1, duel'.t2>> = AfterFight(duel.ua1, duel.ua2, duel.t1, ticket[duel.ua2], winner)
    BY <1>3, SecondOfPairFights DEF SecondOfPair
  <2>2. PICK winner \in 1..2 :
              <<duel'.t1, duel'.t2>> = AfterFight(duel.ua1, duel.ua2, duel.t1, ticket[duel.ua2], winner)
    BY <2>1
  <2>3. duel.t1 = ticket[duel.ua1]
    BY <2>1 DEF DuelInv
  <2>4. IF duel.ua1 = duel.ua2 /\ duel.ua1 \in AllRobots
        THEN <<duel'.t1, duel'.t2>> = <<duel.t1, duel.t1>>
        ELSE duel'.t1 + duel'.t2 = duel.t1 + ticket[duel.ua2]
    BY <2>1, <2>2, FightMovesWhatIsPaid
  <2>5. CASE duel.ua1 = duel.ua2
    <3>1. duel.ua1 \in AllRobots
      BY <2>1, <2>5, NoPlayerFightsHimself
    <3> QED BY <2>1, <2>3, <2>4, <2>5, <3>1 DEF DuelInv, TotalInv
  <2>6. CASE duel.ua1 # duel.ua2
    BY <2>1, <2>3, <2>4, <2>6 DEF DuelInv, TotalInv
  <2> QED BY <2>5, <2>6
<1>4. CASE SetFirst \/ SetSecond
  BY <1>4, SetMovesPoints
<1> QED BY <1>1, <1>2, <1>3, <1>4

LEMMA StepKeepsPoints ==
    ASSUME IInv, AreaInv, PlaceInv, PointsInv, [PvpNext]_pvpVars
    PROVE  PointsInv'
<1>0. PipeTypeOK /\ FreshInv /\ DataStep /\ PlayTypeOK /\ StageInv /\ Job \in Calls
  BY StepFacts, Facts DEF IInv
<1>1. pc'[Job] = "new" => pc[Job] = "new"
  BY <1>0, WorkGoesOn
<1>2. ASSUME stage' = stage, UNCHANGED <<duel, before>>, Fair' /\ InWork(Job) => ticket' = ticket
      PROVE  PointsInv'
  <2> SUFFICES ASSUME Fair', InWork(Job)', stage # "list" PROVE DuelInv' /\ TotalInv'
    BY <1>1, <1>2 DEF PointsInv
  <2>1. InWork(Job)
    BY <1>0, WorkGoesOn DEF PointsInv
  <2>2. DuelInv /\ TotalInv
    BY <2>1, StaysFair DEF PointsInv
  <2> QED BY <1>2, <2>1, <2>2 DEF DuelInv, TotalInv
<1>3. CASE \E c \in Calls : PlayerCall(c)
  <2>1. stage' = stage /\ UNCHANGED <<duel, before>>
    BY <1>3 DEF PlayerCall, match
  <2> QED BY <1>2, <1>3, <2>1, CallMovesNoPoints
<1>4. CASE UNCHANGED pvpVars \/ ListStep
  BY <1>2, <1>4 DEF pvpVars, ListStep, match
<1>5. CASE FillUp
  <2>1. stage' = "round" /\ ticket' = ticket /\ before' = ticket /\ pc[Job] # "new"
    BY <1>5 DEF FillUp, Playing, AllRead
  <2> QED BY <1>1, <2>1 DEF PointsInv, DuelInv, TotalInv
<1>6. CASE FightOne \/ FirstOfPair \/ SecondOfPair \/ SetFirst \/ SetSecond \/ EndRound \/ Rank
  <2>1. stage # "list" /\ InWork(Job) /\ pc[Job] # "new"
    BY <1>6 DEF FightOne, FirstOfPair, SecondOfPair, SetFirst, SetSecond, EndRound, Rank,
                Playing, AllRead, InWork, Ended
  <2> SUFFICES ASSUME Fair' PROVE DuelInv' /\ TotalInv'
    BY <1>1, <2>1 DEF PointsInv
  <2>2. Fair
    BY StaysFair
  <2>3. DuelInv /\ TotalInv
    BY <2>1, <2>2 DEF PointsInv
  <2> QED BY <1>0, <1>6, <2>2, <2>3, RoundMovesPoints DEF Fair
<1> QED BY <1>3, <1>4, <1>5, <1>6 DEF PvpNext, Tournament

LEMMA StartsWithAllPoints == PvpInit => PointsInv
BY DEF PvpInit, PointsInv

\* Fights move points and neither make nor lose any (pvp_imp.js:611-637): what the loser pays
\* the winner gains, and the two writes store the copies that the fight has changed, with
\* nothing else stored between the reads and the writes: what a call has gained before, it has
\* stored before the list was filled up, or it has met the tournament.
THEOREM PointsAreMoved == PvpSpec => []PointsConserved
<1>1. PvpInit => IInv /\ AreaInv /\ PlaceInv /\ PointsInv
  BY InitHolds, StartsWithNoPlaces, StartsWithAllPoints
<1>2. IInv /\ AreaInv /\ PlaceInv /\ PointsInv /\ [PvpNext]_pvpVars
         => IInv' /\ AreaInv' /\ PlaceInv' /\ PointsInv'
  BY Inductive, StepKeepsPlaces, StepKeepsPoints
<1>3. PointsInv => PointsConserved
  BY DEF PointsInv, Fair, TotalInv, PointsConserved
<1> QED BY <1>1, <1>2, <1>3, PTL DEF PvpSpec

-----------------------------------------------------------------------------
(* The places of somebody in short sequences. *)

LEMMA TwoParts ==
    ASSUME NEW S, NEW a \in Seq(S), NEW b \in Seq(S), NEW u
    PROVE  /\ Places(a \o b, u) = Places(a, u) + Places(b, u)
           /\ Places(a, u) \in Nat /\ Places(b, u) \in Nat
<1>1. a \o b \in Seq(S) /\ Merged(a \o b, a, b)
  BY Joined
<1>2. ASSUME NEW s \in Seq(S), Merged(s, a, b)
      PROVE  Places(s, u) = Places(a, u) + Places(b, u)
  BY <1>2, MergedPlaces
<1>3. Places(a, u) \in Nat /\ Places(b, u) \in Nat
  BY AtFinite
<1> QED BY <1>1, <1>2, <1>3

\* The last of a sequence has one place more than the rest gives him.
LEMMA LastPlace ==
    ASSUME NEW S, NEW s \in Seq(S), s # <<>>, NEW u
    PROVE  /\ Places(s, u) = Places(Front(s), u) + One(u, Last(s))
           /\ Places(Front(s), u) \in Nat
<1>1. Front(s) \in Seq(S) /\ Last(s) \in S /\ s = Front(s) \o <<Last(s)>>
  BY LastIsJoined
<1>2. <<Last(s)>> \in Seq(S) /\ Places(<<Last(s)>>, u) = One(u, Last(s))
  BY <1>1, FewPlaces
<1>3. ASSUME NEW a \in Seq(S), NEW b \in Seq(S)
      PROVE  Places(a \o b, u) = Places(a, u) + Places(b, u) /\ Places(a, u) \in Nat
  BY TwoParts
<1> QED BY <1>1, <1>2, <1>3

LEMMA OneMorePlace ==
    ASSUME NEW S, NEW s \in Seq(S), NEW x \in S, NEW u
    PROVE  Places(Append(s, x), u) = Places(s, u) + One(u, x) /\ Places(s, u) \in Nat
<1>1. Append(s, x) = s \o <<x>> /\ <<x>> \in Seq(S)
  OBVIOUS
<1>2. ASSUME NEW b \in Seq(S)
      PROVE  Places(s \o b, u) = Places(s, u) + Places(b, u) /\ Places(s, u) \in Nat
  BY TwoParts
<1> QED BY <1>1, <1>2, FewPlaces

LEMMA FrontSeats ==
    ASSUME NEW S, NEW s \in Seq(S), Len(s) > 0
    PROVE  /\ Front(s) \in Seq(S) /\ Len(Front(s)) = Len(s) - 1
           /\ \A i \in 1..Len(s) - 1 : Front(s)[i] = s[i]
           /\ \A u : Places(s, u) = Places(Front(s), u) + One(u, s[Len(s)])
<1>0. s # <<>>
  OBVIOUS
<1>1. /\ Front(s) \in Seq(S) /\ Len(Front(s)) = Len(s) - 1 /\ Last(s) \in S
      /\ s = Front(s) \o <<Last(s)>> /\ Len(s) \in Nat
  BY <1>0, LastIsJoined
<1>2. <<Last(s)>> \in Seq(S)
  BY <1>1
<1>3. ASSUME NEW a \in Seq(S), NEW b \in Seq(S), NEW i \in 1..Len(a)
      PROVE  (a \o b)[i] = a[i]
  OBVIOUS
<1>4. \A i \in 1..Len(s) - 1 : Front(s)[i] = s[i]
  BY <1>1, <1>2, <1>3
<1>5. \A u : Places(s, u) = Places(Front(s), u) + One(u, Last(s))
  BY <1>0, LastPlace
<1> QED BY <1>1, <1>4, <1>5 DEF Last

LEMMA FourOf ==
    ASSUME NEW S, NEW s \in Seq(S), Len(s) = 4
    PROVE  /\ \A i \in 1..4 : s[i] \in S
           /\ \A u : Places(s, u) = One(u, s[1]) + One(u, s[2]) + One(u, s[3]) + One(u, s[4])
<1> DEFINE s3 == Front(s)
           s2 == Front(s3)
           s1 == Front(s2)
           s0 == Front(s1)
<1>0. ASSUME NEW t \in Seq(S), Len(t) > 0
      PROVE  /\ Front(t) \in Seq(S) /\ Len(Front(t)) = Len(t) - 1
             /\ \A i \in 1..Len(t) - 1 : Front(t)[i] = t[i]
             /\ \A u : Places(t, u) = Places(Front(t), u) + One(u, t[Len(t)])
  BY <1>0, FrontSeats
<1>1. /\ s3 \in Seq(S) /\ Len(s3) = 3 /\ s3[1] = s[1] /\ s3[2] = s[2] /\ s3[3] = s[3]
      /\ \A u : Places(s, u) = Places(s3, u) + One(u, s[4])
  <2>1. Len(s) > 0 /\ Len(s) - 1 = 3
    OBVIOUS
  <2>2. /\ s3 \in Seq(S) /\ Len(s3) = Len(s) - 1
        /\ \A i \in 1..Len(s) - 1 : s3[i] = s[i]
        /\ \A u : Places(s, u) = Places(s3, u) + One(u, s[Len(s)])
    BY <1>0, <2>1
  <2> HIDE DEF s3
  <2> QED BY <2>1, <2>2
<1> HIDE DEF s3
<1>2. /\ s2 \in Seq(S) /\ Len(s2) = 2 /\ s2[1] = s3[1] /\ s2[2] = s3[2]
      /\ \A u : Places(s3, u) = Places(s2, u) + One(u, s3[3])
  <2>1. Len(s3) > 0 /\ Len(s3) - 1 = 2
    BY <1>1
  <2>2. /\ s2 \in Seq(S) /\ Len(s2) = Len(s3) - 1
        /\ \A i \in 1..Len(s3) - 1 : s2[i] = s3[i]
        /\ \A u : Places(s3, u) = Places(s2, u) + One(u, s3[Len(s3)])
    BY <1>1, <1>0, <2>1
  <2> HIDE DEF s2
  <2> QED BY <1>1, <2>1, <2>2
<1> HIDE DEF s2
<1>3. /\ s1 \in Seq(S) /\ Len(s1) = 1 /\ s1[1] = s2[1]
      /\ \A u : Places(s2, u) = Places(s1, u) + One(u, s2[2])
  <2>1. Len(s2) > 0 /\ Len(s2) - 1 = 1
    BY <1>2
  <2>2. /\ s1 \in Seq(S) /\ Len(s1) = Len(s2) - 1
        /\ \A i \in 1..Len(s2) - 1 : s1[i] = s2[i]
        /\ \A u : Places(s2, u) = Places(s1, u) + One(u, s2[Len(s2)])
    BY <1>2, <1>0, <2>1
  <2> HIDE DEF s1
  <2> QED BY <1>2, <2>1, <2>2
<1> HIDE DEF s1
<1>4. /\ s0 \in Seq(S) /\ Len(s0) = 0
      /\ \A u : Places(s1, u) = Places(s0, u) + One(u, s1[1])
  <2>1. Len(s1) > 0
    BY <1>3
  <2>2. /\ s0 \in Seq(S) /\ Len(s0) = Len(s1) - 1
        /\ \A u : Places(s1, u) = Places(s0, u) + One(u, s1[Len(s1)])
    BY <1>3, <1>0, <2>1
  <2> HIDE DEF s0
  <2> QED BY <1>3, <2>2
<1> HIDE DEF s0
<1>5. \A u : Places(s0, u) = 0
  <2>1. s0 = <<>>
    BY <1>4
  <2> QED BY <2>1, FewPlaces
<1>6. \A u, v : One(u, v) \in Nat
  BY DEF One
<1>7. \A i \in 1..4 : s[i] \in S
  <2>1. ASSUME NEW t \in Seq(S) PROVE \A i \in 1..Len(t) : t[i] \in S
    OBVIOUS
  <2> QED BY <2>1
<1>8. ASSUME NEW u
      PROVE  Places(s, u) = One(u, s[1]) + One(u, s[2]) + One(u, s[3]) + One(u, s[4])
  <2>1. Places(s1, u) = One(u, s[1])
    BY <1>1, <1>2, <1>3, <1>4, <1>5, <1>6
  <2>2. Places(s2, u) = One(u, s[1]) + One(u, s[2])
    BY <2>1, <1>1, <1>2, <1>3
  <2>3. Places(s3, u) = One(u, s[1]) + One(u, s[2]) + One(u, s[3])
    BY <2>2, <1>1, <1>2
  <2> QED BY <2>3, <1>1
<1> QED BY <1>7, <1>8

LEMMA FourPlaces ==
    ASSUME NEW S, NEW a \in S, NEW b \in S, NEW c \in S, NEW d \in S
    PROVE  /\ <<a, b, c, d>> \in Seq(S) /\ Len(<<a, b, c, d>>) = 4
           /\ \A u : Places(<<a, b, c, d>>, u) = One(u, a) + One(u, b) + One(u, c) + One(u, d)
<1> DEFINE s == <<a, b, c, d>>
<1>1. s \in Seq(S)
  OBVIOUS
<1>2. Len(s) = 4
  OBVIOUS
<1>3. s[1] = a /\ s[2] = b /\ s[3] = c /\ s[4] = d
  OBVIOUS
<1> HIDE DEF s
<1>4. \A u : Places(s, u) = One(u, s[1]) + One(u, s[2]) + One(u, s[3]) + One(u, s[4])
  BY <1>1, <1>2, FourOf
<1> QED BY <1>1, <1>2, <1>3, <1>4 DEF s

LEMMA EightOf ==
    ASSUME NEW S, NEW s \in Seq(S), Len(s) = 8
    PROVE  /\ \A i \in 1..8 : s[i] \in S
           /\ \A u : Places(s, u) = One(u, s[1]) + One(u, s[2]) + One(u, s[3]) + One(u, s[4])
                                    + One(u, s[5]) + One(u, s[6]) + One(u, s[7]) + One(u, s[8])
<1>1. \A i \in 1..8 : s[i] \in S
  <2>1. ASSUME NEW t \in Seq(S) PROVE \A i \in 1..Len(t) : t[i] \in S
    OBVIOUS
  <2> QED BY <2>1
<1> DEFINE a == SubSeq(s, 1, 4)
           b == SubSeq(s, 4 + 1, Len(s))
<1>2. /\ a \in Seq(S) /\ b \in Seq(S) /\ Len(a) = 4 /\ Len(b) = Len(s) - 4 /\ s = a \o b
  <2>1. 4 \in 0..Len(s)
    OBVIOUS
  <2> QED BY <2>1, Halves
<1> HIDE DEF a, b
<1>3. \A i \in 1..8 : s[i] = IF i <= 4 THEN a[i] ELSE b[i - 4]
  <2>1. ASSUME NEW i \in 1..Len(a) + Len(b)
        PROVE  (a \o b)[i] = IF i <= Len(a) THEN a[i] ELSE b[i - Len(a)]
    BY <1>2
  <2> QED BY <2>1, <1>2
<1>4. /\ a[1] = s[1] /\ a[2] = s[2] /\ a[3] = s[3] /\ a[4] = s[4]
      /\ b[1] = s[5] /\ b[2] = s[6] /\ b[3] = s[7] /\ b[4] = s[8]
  BY <1>3
<1>5. Len(b) = 4
  BY <1>2
<1>6. ASSUME NEW u
      PROVE  /\ Places(a, u) = One(u, s[1]) + One(u, s[2]) + One(u, s[3]) + One(u, s[4])
             /\ Places(b, u) = One(u, s[5]) + One(u, s[6]) + One(u, s[7]) + One(u, s[8])
  <2>1. Places(a, u) = One(u, a[1]) + One(u, a[2]) + One(u, a[3]) + One(u, a[4])
    BY <1>2, FourOf
  <2>2. Places(b, u) = One(u, b[1]) + One(u, b[2]) + One(u, b[3]) + One(u, b[4])
    BY <1>2, <1>5, FourOf
  <2> QED BY <2>1, <2>2, <1>4
<1>7. ASSUME NEW u
      PROVE  Places(s, u) = Places(a, u) + Places(b, u)
  BY <1>2, TwoParts
<1>8. \A u, v : One(u, v) \in Nat
  BY DEF One
<1>9. ASSUME NEW u
      PROVE  Places(s, u) = One(u, s[1]) + One(u, s[2]) + One(u, s[3]) + One(u, s[4])
                            + One(u, s[5]) + One(u, s[6]) + One(u, s[7]) + One(u, s[8])
  <2> DEFINE p == One(u, s[1]) + One(u, s[2]) + One(u, s[3]) + One(u, s[4])
  <2>1. Places(a, u) = p /\ p \in Nat
    <3>1. /\ One(u, s[1]) \in Nat /\ One(u, s[2]) \in Nat
          /\ One(u, s[3]) \in Nat /\ One(u, s[4]) \in Nat
      BY <1>8
    <3>2. p \in Nat
      BY <3>1
    <3> HIDE DEF p
    <3>3. Places(a, u) = p
      BY <1>6 DEF p
    <3> QED BY <3>2, <3>3
  <2>2. Places(b, u) = One(u, s[5]) + One(u, s[6]) + One(u, s[7]) + One(u, s[8])
    BY <1>6
  <2>3. Places(s, u) = Places(a, u) + Places(b, u)
    BY <1>7
  <2>4. /\ One(u, s[5]) \in Nat /\ One(u, s[6]) \in Nat
        /\ One(u, s[7]) \in Nat /\ One(u, s[8]) \in Nat
    BY <1>8
  <2> HIDE DEF p
  <2>5. Places(s, u) = p + One(u, s[5]) + One(u, s[6]) + One(u, s[7]) + One(u, s[8])
    BY <2>1, <2>2, <2>3, <2>4
  <2> QED BY <2>5 DEF p
<1> QED BY <1>1, <1>9

-----------------------------------------------------------------------------
(* The final rounds, for any eight finalists. *)

EightFinalists == F8 \in Seq(Finalist) /\ Len(F8) = 8

FinalTypeOK ==
    /\ userArea1 \in Seq(Finalist) /\ userArea2 \in Seq(Finalist)
    /\ winUuid \in Seq(Finalist) /\ failUuid \in Seq(Finalist) /\ final8 \in Seq(Finalist)
    /\ round \in 1..5 /\ wins \in [Finalist -> Nat]

\* A round begins with four in each array; every fight takes one from each.
RoundShape ==
    IF round = 5
    THEN /\ userArea1 = <<>> /\ userArea2 = <<>> /\ winUuid = <<>> /\ failUuid = <<>>
         /\ Len(final8) = 8
    ELSE /\ Len(userArea1) \in 0..4 /\ Len(userArea2) = Len(userArea1)
         /\ Len(winUuid) = 4 - Len(userArea1) /\ Len(failUuid) = Len(winUuid)
         /\ final8 = <<>>

FinalShape == FinalTypeOK /\ RoundShape

\* The eight are in the arrays, among those who have fought, or in the result.
PlacesKept ==
    \A u : Places(userArea1, u) + Places(userArea2, u) + Places(winUuid, u)
           + Places(failUuid, u) + Places(final8, u) = Places(F8, u)

LEMMA FinalStart ==
    ASSUME EightFinalists, FinalInit
    PROVE  FinalShape
<1>1. F8 \in Seq(Finalist) /\ Len(F8) = 8 /\ \A i \in 1..8 : F8[i] \in Finalist
  BY DEF EightFinalists, Finalist
<1>2. ASSUME NEW x1 \in Finalist, NEW x2 \in Finalist, NEW x3 \in Finalist, NEW x4 \in Finalist
      PROVE  <<x1, x2, x3, x4>> \in Seq(Finalist) /\ Len(<<x1, x2, x3, x4>>) = 4
  BY FourPlaces
<1>3. /\ F8[1] \in Finalist /\ F8[3] \in Finalist /\ F8[5] \in Finalist /\ F8[7] \in Finalist
      /\ F8[2] \in Finalist /\ F8[4] \in Finalist /\ F8[6] \in Finalist /\ F8[8] \in Finalist
  BY <1>1
<1>4. /\ userArea1 \in Seq(Finalist) /\ Len(userArea1) = 4
      /\ userArea2 \in Seq(Finalist) /\ Len(userArea2) = 4
  BY <1>2, <1>3 DEF FinalInit
<1>5. /\ winUuid = <<>> /\ failUuid = <<>> /\ final8 = <<>> /\ round = 1
      /\ wins \in [Finalist -> Nat] /\ <<>> \in Seq(Finalist) /\ Len(<<>>) = 0
  BY DEF FinalInit
<1>6. FinalTypeOK
  BY <1>4, <1>5 DEF FinalTypeOK
<1>7. RoundShape
  BY <1>4, <1>5 DEF RoundShape
<1> QED BY <1>6, <1>7 DEF FinalShape

\* What a fight does: seat n of the arrays fights, and who wins and who loses are the next.
Met(n, x, y) ==
    /\ n = Len(userArea1) /\ n \in 1..4 /\ round \in 1..4
    /\ x \in Finalist /\ y \in Finalist
    /\ \/ x = userArea1[n] /\ y = userArea2[n]
       \/ x = userArea2[n] /\ y = userArea1[n]
    /\ winUuid' = Append(winUuid, x) /\ failUuid' = Append(failUuid, y)
    /\ wins' = [wins EXCEPT ![x] = @ + 1]
    /\ userArea1' = Front(userArea1) /\ userArea2' = Front(userArea2)
    /\ round' = round /\ final8' = final8

LEMMA FightSeats ==
    ASSUME FinalShape, FightPair
    PROVE  \E n, x, y : Met(n, x, y)
<1>1. PICK pair \in {<<Last(userArea1), Last(userArea2)>>, <<Last(userArea2), Last(userArea1)>>} :
          /\ winUuid' = Append(winUuid, pair[1]) /\ failUuid' = Append(failUuid, pair[2])
          /\ wins' = [wins EXCEPT ![pair[1]] = @ + 1]
  BY DEF FightPair
<1>2. /\ userArea1 # <<>> /\ userArea2 # <<>> /\ round' = round /\ final8' = final8
      /\ userArea1' = Front(userArea1) /\ userArea2' = Front(userArea2)
  BY DEF FightPair
<1>3. /\ userArea1 \in Seq(Finalist) /\ userArea2 \in Seq(Finalist) /\ round \in 1..4
      /\ Len(userArea1) \in 0..4 /\ Len(userArea2) = Len(userArea1)
  BY <1>2 DEF FinalShape, FinalTypeOK, RoundShape
<1>4. Last(userArea1) \in Finalist /\ Last(userArea2) \in Finalist /\ Len(userArea1) # 0
  BY <1>2, <1>3, LastIsJoined
<1>5. pair[1] \in Finalist /\ pair[2] \in Finalist
  BY <1>4
<1>6. \/ pair[1] = userArea1[Len(userArea1)] /\ pair[2] = userArea2[Len(userArea1)]
      \/ pair[1] = userArea2[Len(userArea1)] /\ pair[2] = userArea1[Len(userArea1)]
  BY <1>3 DEF Last
<1>7. Met(Len(userArea1), pair[1], pair[2])
  BY <1>1, <1>2, <1>3, <1>4, <1>5, <1>6 DEF Met
<1> QED BY <1>7

\* What a fight finds and what it leaves.
LEMMA FightFacts ==
    ASSUME FinalShape, NEW n, NEW x, NEW y, Met(n, x, y)
    PROVE  /\ n \in 1..4 /\ round \in 1..4 /\ x \in Finalist /\ y \in Finalist
           /\ userArea1 \in Seq(Finalist) /\ userArea2 \in Seq(Finalist)
           /\ winUuid \in Seq(Finalist) /\ failUuid \in Seq(Finalist)
           /\ final8 = <<>> /\ wins \in [Finalist -> Nat]
           /\ Len(userArea1) = n /\ Len(userArea2) = n
           /\ Len(winUuid) = 4 - n /\ Len(failUuid) = 4 - n
<1>1. n = Len(userArea1) /\ n \in 1..4 /\ round \in 1..4 /\ x \in Finalist /\ y \in Finalist
  BY DEF Met
<1>2. FinalTypeOK /\ RoundShape
  BY DEF FinalShape
<1>3. round # 5
  BY <1>1
<1>4. /\ Len(userArea2) = Len(userArea1) /\ Len(winUuid) = 4 - Len(userArea1)
      /\ Len(failUuid) = Len(winUuid) /\ final8 = <<>>
  BY <1>2, <1>3 DEF RoundShape
<1>5. /\ userArea1 \in Seq(Finalist) /\ userArea2 \in Seq(Finalist)
      /\ winUuid \in Seq(Finalist) /\ failUuid \in Seq(Finalist) /\ wins \in [Finalist -> Nat]
  BY <1>2 DEF FinalTypeOK
<1> QED BY <1>1, <1>4, <1>5

LEMMA FightSteps ==
    ASSUME FinalShape, NEW n, NEW x, NEW y, Met(n, x, y)
    PROVE  /\ userArea1' \in Seq(Finalist) /\ Len(userArea1') = n - 1
           /\ userArea2' \in Seq(Finalist) /\ Len(userArea2') = n - 1
           /\ \A i \in 1..n - 1 : userArea1'[i] = userArea1[i] /\ userArea2'[i] = userArea2[i]
           /\ \A u : /\ Places(userArea1, u) = Places(userArea1', u) + One(u, userArea1[n])
                     /\ Places(userArea2, u) = Places(userArea2', u) + One(u, userArea2[n])
           /\ winUuid' \in Seq(Finalist) /\ Len(winUuid') = 5 - n
           /\ failUuid' \in Seq(Finalist) /\ Len(failUuid') = 5 - n
           /\ \A k \in 1..4 - n : winUuid'[k] = winUuid[k] /\ failUuid'[k] = failUuid[k]
           /\ winUuid'[5 - n] = x /\ failUuid'[5 - n] = y
           /\ \A u : /\ Places(winUuid', u) = Places(winUuid, u) + One(u, x)
                     /\ Places(failUuid', u) = Places(failUuid, u) + One(u, y)
<1>1. /\ n \in 1..4 /\ x \in Finalist /\ y \in Finalist
      /\ userArea1 \in Seq(Finalist) /\ userArea2 \in Seq(Finalist)
      /\ winUuid \in Seq(Finalist) /\ failUuid \in Seq(Finalist)
      /\ Len(userArea1) = n /\ Len(userArea2) = n /\ Len(winUuid) = 4 - n /\ Len(failUuid) = 4 - n
  BY FightFacts
<1>2. /\ userArea1' = Front(userArea1) /\ userArea2' = Front(userArea2)
      /\ winUuid' = Append(winUuid, x) /\ failUuid' = Append(failUuid, y)
  BY DEF Met
<1>3. ASSUME NEW s \in Seq(Finalist), Len(s) = n
      PROVE  /\ Front(s) \in Seq(Finalist) /\ Len(Front(s)) = n - 1
             /\ \A i \in 1..n - 1 : Front(s)[i] = s[i]
             /\ \A u : Places(s, u) = Places(Front(s), u) + One(u, s[n])
  <2>1. Len(s) > 0
    BY <1>1, <1>3
  <2>2. /\ Front(s) \in Seq(Finalist) /\ Len(Front(s)) = Len(s) - 1
        /\ \A i \in 1..Len(s) - 1 : Front(s)[i] = s[i]
        /\ \A u : Places(s, u) = Places(Front(s), u) + One(u, s[Len(s)])
    BY <2>1, FrontSeats
  <2> QED BY <1>3, <2>2
<1>4. ASSUME NEW s \in Seq(Finalist), NEW v \in Finalist, Len(s) = 4 - n
      PROVE  /\ Append(s, v) \in Seq(Finalist) /\ Len(Append(s, v)) = 5 - n
             /\ \A k \in 1..4 - n : Append(s, v)[k] = s[k]
             /\ Append(s, v)[5 - n] = v
             /\ \A u : Places(Append(s, v), u) = Places(s, u) + One(u, v)
  <2>1. /\ Append(s, v) \in Seq(Finalist) /\ Len(Append(s, v)) = Len(s) + 1
        /\ \A k \in 1..Len(s) : Append(s, v)[k] = s[k]
        /\ Append(s, v)[Len(s) + 1] = v
    OBVIOUS
  <2>2. Len(s) + 1 = 5 - n
    BY <1>1, <1>4
  <2>3. \A u : Places(Append(s, v), u) = Places(s, u) + One(u, v)
    BY OneMorePlace
  <2> QED BY <1>4, <2>1, <2>2, <2>3
<1>5. /\ Front(userArea1) \in Seq(Finalist) /\ Len(Front(userArea1)) = n - 1
      /\ \A i \in 1..n - 1 : Front(userArea1)[i] = userArea1[i]
      /\ \A u : Places(userArea1, u) = Places(Front(userArea1), u) + One(u, userArea1[n])
  BY <1>1, <1>3
<1>6. /\ Front(userArea2) \in Seq(Finalist) /\ Len(Front(userArea2)) = n - 1
      /\ \A i \in 1..n - 1 : Front(userArea2)[i] = userArea2[i]
      /\ \A u : Places(userArea2, u) = Places(Front(userArea2), u) + One(u, userArea2[n])
  BY <1>1, <1>3
<1>7. /\ winUuid' \in Seq(Finalist) /\ Len(winUuid') = 5 - n
      /\ \A k \in 1..4 - n : winUuid'[k] = winUuid[k]
      /\ winUuid'[5 - n] = x /\ \A u : Places(winUuid', u) = Places(winUuid, u) + One(u, x)
  BY <1>1, <1>2, <1>4
<1>8. /\ failUuid' \in Seq(Finalist) /\ Len(failUuid') = 5 - n
      /\ \A k \in 1..4 - n : failUuid'[k] = failUuid[k]
      /\ failUuid'[5 - n] = y /\ \A u : Places(failUuid', u) = Places(failUuid, u) + One(u, y)
  BY <1>1, <1>2, <1>4
<1> QED BY <1>2, <1>5, <1>6, <1>7, <1>8

LEMMA FightKeepsShape ==
    ASSUME FinalShape, NEW n, NEW x, NEW y, Met(n, x, y)
    PROVE  FinalShape'
<1>1. n \in 1..4 /\ round \in 1..4 /\ x \in Finalist /\ final8 = <<>> /\ wins \in [Finalist -> Nat]
  BY FightFacts
<1>2. round' = round /\ final8' = final8 /\ wins' = [wins EXCEPT ![x] = @ + 1]
  BY DEF Met
<1>3. /\ userArea1' \in Seq(Finalist) /\ Len(userArea1') = n - 1
      /\ userArea2' \in Seq(Finalist) /\ Len(userArea2') = n - 1
      /\ winUuid' \in Seq(Finalist) /\ Len(winUuid') = 5 - n
      /\ failUuid' \in Seq(Finalist) /\ Len(failUuid') = 5 - n
  BY FightSteps
<1>4. wins' \in [Finalist -> Nat]
  BY <1>1, <1>2
<1>5. <<>> \in Seq(Finalist) /\ round' \in 1..5 /\ round' # 5 /\ final8' = <<>>
  BY <1>1, <1>2
<1>6. FinalTypeOK'
  BY <1>3, <1>4, <1>5 DEF FinalTypeOK
<1>7. n - 1 \in 0..4 /\ 5 - n = 4 - (n - 1)
  BY <1>1
<1>8. RoundShape'
  BY <1>3, <1>5, <1>7 DEF RoundShape
<1> QED BY <1>6, <1>8 DEF FinalShape

LEMMA FightKeepsPlaces ==
    ASSUME FinalShape, PlacesKept, NEW n, NEW x, NEW y, Met(n, x, y)
    PROVE  PlacesKept'
<1> SUFFICES ASSUME NEW u
             PROVE  Places(userArea1', u) + Places(userArea2', u) + Places(winUuid', u)
                    + Places(failUuid', u) + Places(final8', u) = Places(F8, u)
  BY DEF PlacesKept
<1>1. /\ winUuid \in Seq(Finalist) /\ failUuid \in Seq(Finalist) /\ final8 = <<>>
      /\ \/ x = userArea1[n] /\ y = userArea2[n]
         \/ x = userArea2[n] /\ y = userArea1[n]
  BY FightFacts DEF Met
<1>2. /\ Places(userArea1, u) = Places(userArea1', u) + One(u, userArea1[n])
      /\ Places(userArea2, u) = Places(userArea2', u) + One(u, userArea2[n])
      /\ userArea1' \in Seq(Finalist) /\ userArea2' \in Seq(Finalist)
      /\ Places(winUuid', u) = Places(winUuid, u) + One(u, x)
      /\ Places(failUuid', u) = Places(failUuid, u) + One(u, y)
  BY FightSteps
<1>3. /\ Places(userArea1', u) \in Nat /\ Places(userArea2', u) \in Nat
      /\ Places(winUuid, u) \in Nat /\ Places(failUuid, u) \in Nat
  BY <1>1, <1>2, AtFinite
<1>4. Places(final8, u) = 0 /\ Places(final8', u) = 0
  <2>1. final8' = <<>>
    BY <1>1 DEF Met
  <2> QED BY <1>1, <2>1, FewPlaces
<1>5. \A v : One(u, v) \in Nat
  BY DEF One
<1>6. One(u, x) + One(u, y) = One(u, userArea1[n]) + One(u, userArea2[n])
  BY <1>1, <1>5
<1>7. Places(userArea1, u) + Places(userArea2, u) + Places(winUuid, u)
      + Places(failUuid, u) + Places(final8, u) = Places(F8, u)
  BY DEF PlacesKept
<1>8. /\ One(u, x) \in Nat /\ One(u, y) \in Nat
      /\ One(u, userArea1[n]) \in Nat /\ One(u, userArea2[n]) \in Nat
  BY <1>5
<1>9. /\ Places(userArea1, u) \in Nat /\ Places(userArea2, u) \in Nat
      /\ Places(winUuid', u) \in Nat /\ Places(failUuid', u) \in Nat
  BY <1>2, <1>3, <1>8
<1>10. Places(userArea1, u) + Places(userArea2, u) + Places(winUuid, u)
       + Places(failUuid, u) = Places(F8, u)
  BY <1>3, <1>4, <1>7, <1>9
<1>11. Places(userArea1', u) + Places(userArea2', u) + Places(winUuid', u)
       + Places(failUuid', u) = Places(F8, u)
  <2>1. ASSUME NEW a \in Nat, NEW b \in Nat, NEW w \in Nat, NEW l \in Nat,
               NEW a2 \in Nat, NEW b2 \in Nat, NEW w2 \in Nat, NEW l2 \in Nat, w2 + l2 = a2 + b2
        PROVE  a + b + (w + w2) + (l + l2) = (a + a2) + (b + b2) + w + l
    BY <2>1
  <2>2. Places(userArea1', u) + Places(userArea2', u) + (Places(winUuid, u) + One(u, x))
        + (Places(failUuid, u) + One(u, y))
        = (Places(userArea1', u) + One(u, userArea1[n])) + (Places(userArea2', u) + One(u, userArea2[n]))
          + Places(winUuid, u) + Places(failUuid, u)
    BY <1>3, <1>6, <1>8, <2>1
  <2> QED BY <1>2, <1>10, <2>2
<1> QED BY <1>3, <1>4, <1>9, <1>11

\* A round that is over has four winners and four losers.
LEMMA RoundEnds ==
    ASSUME FinalShape, NextRound
    PROVE  /\ round \in 1..4 /\ round' = round + 1 /\ wins' = wins /\ wins \in [Finalist -> Nat]
           /\ userArea1 = <<>> /\ userArea2 = <<>> /\ final8 = <<>>
           /\ winUuid \in Seq(Finalist) /\ Len(winUuid) = 4
           /\ failUuid \in Seq(Finalist) /\ Len(failUuid) = 4
           /\ winUuid' = <<>> /\ failUuid' = <<>>
<1>1. /\ userArea1 = <<>> /\ round < 5 /\ round' = round + 1 /\ wins' = wins
      /\ winUuid' = <<>> /\ failUuid' = <<>>
  BY DEF NextRound
<1>2. FinalTypeOK /\ RoundShape
  BY DEF FinalShape
<1>3. round \in 1..4 /\ round # 5 /\ Len(userArea1) = 0
  BY <1>1, <1>2 DEF FinalTypeOK
<1>4. /\ userArea2 \in Seq(Finalist) /\ Len(userArea2) = 0 /\ final8 = <<>>
      /\ winUuid \in Seq(Finalist) /\ Len(winUuid) = 4
      /\ failUuid \in Seq(Finalist) /\ Len(failUuid) = 4 /\ wins \in [Finalist -> Nat]
  BY <1>2, <1>3 DEF FinalTypeOK, RoundShape
<1>5. userArea2 = <<>>
  BY <1>4
<1> QED BY <1>1, <1>3, <1>4, <1>5

\* However eight are divided among two arrays of four, they are the same eight.
LEMMA EightSums ==
    ASSUME NEW a1 \in Nat, NEW a2 \in Nat, NEW a3 \in Nat, NEW a4 \in Nat,
           NEW b1 \in Nat, NEW b2 \in Nat, NEW b3 \in Nat, NEW b4 \in Nat
    PROVE  /\ (a1 + a2 + b1 + b2) + (a3 + a4 + b3 + b4) = (a1 + a2 + a3 + a4) + (b1 + b2 + b3 + b4)
           /\ (a1 + b1 + a3 + b3) + (a2 + b2 + a4 + b4) = (a1 + a2 + a3 + a4) + (b1 + b2 + b3 + b4)
OBVIOUS

\* The arrangement for the next round has four in each array, and those of the last.
LEMMA NextArranged ==
    ASSUME FinalShape, NextRound, round < 4
    PROVE  /\ final8' = final8
           /\ userArea1' \in Seq(Finalist) /\ Len(userArea1') = 4
           /\ userArea2' \in Seq(Finalist) /\ Len(userArea2') = 4
           /\ \A u : Places(userArea1', u) + Places(userArea2', u)
                     = Places(winUuid, u) + Places(failUuid, u)
<1> DEFINE w == winUuid
           l == failUuid
<1>1. round \in 1..4 /\ w \in Seq(Finalist) /\ Len(w) = 4 /\ l \in Seq(Finalist) /\ Len(l) = 4
  BY RoundEnds
<1>2. /\ final8' = final8
      /\ userArea1' = Arranged(w, l)[1] /\ userArea2' = Arranged(w, l)[2]
  BY DEF NextRound
<1>3. /\ w[1] \in Finalist /\ w[2] \in Finalist /\ w[3] \in Finalist /\ w[4] \in Finalist
      /\ \A u : Places(w, u) = One(u, w[1]) + One(u, w[2]) + One(u, w[3]) + One(u, w[4])
  BY <1>1, FourOf
<1>4. /\ l[1] \in Finalist /\ l[2] \in Finalist /\ l[3] \in Finalist /\ l[4] \in Finalist
      /\ \A u : Places(l, u) = One(u, l[1]) + One(u, l[2]) + One(u, l[3]) + One(u, l[4])
  BY <1>1, FourOf
<1>5. ASSUME NEW a \in Finalist, NEW b \in Finalist, NEW c \in Finalist, NEW d \in Finalist
      PROVE  /\ <<a, b, c, d>> \in Seq(Finalist) /\ Len(<<a, b, c, d>>) = 4
             /\ \A u : Places(<<a, b, c, d>>, u) = One(u, a) + One(u, b) + One(u, c) + One(u, d)
  BY FourPlaces
<1>6. \A u, v : One(u, v) \in Nat
  BY DEF One
<1> HIDE DEF w, l
<1>7. CASE round = 1
  <2>1. userArea1' = w /\ userArea2' = Reverse(l)
    BY <1>2, <1>7 DEF Arranged
  <2>2. Reverse(l) \in Seq(Finalist) /\ Merged(l, Reverse(l), <<>>)
    BY <1>1, ReverseIsMerged
  <2>3. Len(Reverse(l)) = 4
    BY <1>1 DEF Reverse
  <2>4. \A u : Places(Reverse(l), u) = Places(l, u)
    BY <1>1, <2>2, SamePlaces
  <2> QED BY <1>1, <1>2, <2>1, <2>2, <2>3, <2>4 DEF w, l
<1>8. CASE round = 2
  <2> DEFINE a == <<w[1], w[2], l[1], l[2]>>
             b == <<w[3], w[4], l[3], l[4]>>
  <2>1. userArea1' = a /\ userArea2' = b
    BY <1>2, <1>8 DEF Arranged
  <2>2. /\ a \in Seq(Finalist) /\ Len(a) = 4
        /\ \A u : Places(a, u) = One(u, w[1]) + One(u, w[2]) + One(u, l[1]) + One(u, l[2])
    BY <1>3, <1>4, <1>5
  <2>3. /\ b \in Seq(Finalist) /\ Len(b) = 4
        /\ \A u : Places(b, u) = One(u, w[3]) + One(u, w[4]) + One(u, l[3]) + One(u, l[4])
    BY <1>3, <1>4, <1>5
  <2> HIDE DEF a, b
  <2>4. ASSUME NEW u
        PROVE  Places(a, u) + Places(b, u) = Places(w, u) + Places(l, u)
    <3>1. /\ One(u, w[1]) \in Nat /\ One(u, w[2]) \in Nat /\ One(u, w[3]) \in Nat
          /\ One(u, w[4]) \in Nat /\ One(u, l[1]) \in Nat /\ One(u, l[2]) \in Nat
          /\ One(u, l[3]) \in Nat /\ One(u, l[4]) \in Nat
      BY <1>6
    <3>2. (One(u, w[1]) + One(u, w[2]) + One(u, l[1]) + One(u, l[2]))
          + (One(u, w[3]) + One(u, w[4]) + One(u, l[3]) + One(u, l[4]))
          = (One(u, w[1]) + One(u, w[2]) + One(u, w[3]) + One(u, w[4]))
            + (One(u, l[1]) + One(u, l[2]) + One(u, l[3]) + One(u, l[4]))
      BY <3>1, EightSums
    <3> QED BY <1>3, <1>4, <2>2, <2>3, <3>2
  <2> QED BY <1>2, <2>1, <2>2, <2>3, <2>4 DEF w, l
<1>9. CASE round = 3
  <2> DEFINE a == <<w[1], l[1], w[3], l[3]>>
             b == <<w[2], l[2], w[4], l[4]>>
  <2>1. userArea1' = a /\ userArea2' = b
    BY <1>2, <1>9 DEF Arranged
  <2>2. /\ a \in Seq(Finalist) /\ Len(a) = 4
        /\ \A u : Places(a, u) = One(u, w[1]) + One(u, l[1]) + One(u, w[3]) + One(u, l[3])
    BY <1>3, <1>4, <1>5
  <2>3. /\ b \in Seq(Finalist) /\ Len(b) = 4
        /\ \A u : Places(b, u) = One(u, w[2]) + One(u, l[2]) + One(u, w[4]) + One(u, l[4])
    BY <1>3, <1>4, <1>5
  <2> HIDE DEF a, b
  <2>4. ASSUME NEW u
        PROVE  Places(a, u) + Places(b, u) = Places(w, u) + Places(l, u)
    <3>1. /\ One(u, w[1]) \in Nat /\ One(u, w[2]) \in Nat /\ One(u, w[3]) \in Nat
          /\ One(u, w[4]) \in Nat /\ One(u, l[1]) \in Nat /\ One(u, l[2]) \in Nat
          /\ One(u, l[3]) \in Nat /\ One(u, l[4]) \in Nat
      BY <1>6
    <3>2. (One(u, w[1]) + One(u, l[1]) + One(u, w[3]) + One(u, l[3]))
          + (One(u, w[2]) + One(u, l[2]) + One(u, w[4]) + One(u, l[4]))
          = (One(u, w[1]) + One(u, w[2]) + One(u, w[3]) + One(u, w[4]))
            + (One(u, l[1]) + One(u, l[2]) + One(u, l[3]) + One(u, l[4]))
      BY <3>1, EightSums
    <3> QED BY <1>3, <1>4, <2>2, <2>3, <3>2
  <2> QED BY <1>2, <2>1, <2>2, <2>3, <2>4 DEF w, l
<1> QED BY <1>1, <1>7, <1>8, <1>9

\* fight1 gives the places to winners and losers by turns.
LEMMA EightArranged ==
    ASSUME FinalShape, NextRound, round = 4
    PROVE  /\ userArea1' = <<>> /\ userArea2' = <<>>
           /\ final8' \in Seq(Finalist) /\ Len(final8') = 8
           /\ \A k \in 1..4 : final8'[2 * k - 1] = winUuid[k] /\ final8'[2 * k] = failUuid[k]
           /\ \A u : Places(final8', u) = Places(winUuid, u) + Places(failUuid, u)
<1> DEFINE w == winUuid
           l == failUuid
           t == [i \in 1..8 |-> IF i % 2 = 1 THEN w[(i + 1) \div 2] ELSE l[i \div 2]]
<1>1. /\ w \in Seq(Finalist) /\ Len(w) = 4 /\ l \in Seq(Finalist) /\ Len(l) = 4
      /\ userArea1 = <<>> /\ userArea2 = <<>>
  BY RoundEnds
<1>2. userArea1' = userArea1 /\ userArea2' = userArea2 /\ final8' = t
  BY DEF NextRound
<1>3. /\ \A i \in 1..4 : w[i] \in Finalist
      /\ \A u : Places(w, u) = One(u, w[1]) + One(u, w[2]) + One(u, w[3]) + One(u, w[4])
  BY <1>1, FourOf
<1>4. /\ \A i \in 1..4 : l[i] \in Finalist
      /\ \A u : Places(l, u) = One(u, l[1]) + One(u, l[2]) + One(u, l[3]) + One(u, l[4])
  BY <1>1, FourOf
<1> HIDE DEF w, l
<1>5. \A k \in 1..4 : t[2 * k - 1] = w[k] /\ t[2 * k] = l[k]
  <2> SUFFICES ASSUME NEW k \in 1..4 PROVE t[2 * k - 1] = w[k] /\ t[2 * k] = l[k]
    OBVIOUS
  <2>1. /\ 2 * k - 1 \in 1..8 /\ (2 * k - 1) % 2 = 1 /\ (2 * k - 1 + 1) \div 2 = k
        /\ 2 * k \in 1..8 /\ (2 * k) % 2 # 1 /\ (2 * k) \div 2 = k
    OBVIOUS
  <2> QED BY <2>1
<1>6. t \in Seq(Finalist) /\ Len(t) = 8
  <2>1. \A i \in 1..8 : t[i] \in Finalist
    <3> SUFFICES ASSUME NEW i \in 1..8 PROVE t[i] \in Finalist
      OBVIOUS
    <3>1. CASE i % 2 = 1
      <4>1. (i + 1) \div 2 \in 1..4
        OBVIOUS
      <4> QED BY <3>1, <4>1, <1>3
    <3>2. CASE i % 2 # 1
      <4>1. i \div 2 \in 1..4
        BY <3>2
      <4> QED BY <3>2, <4>1, <1>4
    <3> QED BY <3>1, <3>2
  <2>2. t \in [1..8 -> Finalist]
    BY <2>1
  <2>3. Len(t) = 8
    OBVIOUS
  <2> HIDE DEF t
  <2> QED BY <2>2, <2>3, SeqDef
<1> HIDE DEF t
<1>7. /\ t[1] = w[1] /\ t[3] = w[2] /\ t[5] = w[3] /\ t[7] = w[4]
      /\ t[2] = l[1] /\ t[4] = l[2] /\ t[6] = l[3] /\ t[8] = l[4]
  <2>1. \A k \in 1..4 : t[2 * k - 1] = w[k] /\ t[2 * k] = l[k]
    BY <1>5
  <2>2. t[2 * 1 - 1] = w[1] /\ t[2 * 1] = l[1] /\ t[2 * 2 - 1] = w[2] /\ t[2 * 2] = l[2]
    BY <2>1
  <2>3. t[2 * 3 - 1] = w[3] /\ t[2 * 3] = l[3] /\ t[2 * 4 - 1] = w[4] /\ t[2 * 4] = l[4]
    BY <2>1
  <2> QED BY <2>2, <2>3
<1>8. ASSUME NEW u
      PROVE  Places(t, u) = Places(w, u) + Places(l, u)
  <2>1. Places(t, u) = One(u, w[1]) + One(u, l[1]) + One(u, w[2]) + One(u, l[2])
                       + One(u, w[3]) + One(u, l[3]) + One(u, w[4]) + One(u, l[4])
    <3>1. Places(t, u) = One(u, t[1]) + One(u, t[2]) + One(u, t[3]) + One(u, t[4])
                         + One(u, t[5]) + One(u, t[6]) + One(u, t[7]) + One(u, t[8])
      BY <1>6, EightOf
    <3> QED BY <3>1, <1>7
  <2>2. \A v : One(u, v) \in Nat
    BY DEF One
  <2> QED BY <2>1, <2>2, <1>3, <1>4
<1> QED BY <1>1, <1>2, <1>5, <1>6, <1>8 DEF w, l

LEMMA RoundKeepsShape ==
    ASSUME FinalShape, NextRound
    PROVE  FinalShape'
<1>1. /\ round \in 1..4 /\ round' = round + 1 /\ wins' = wins /\ wins \in [Finalist -> Nat]
      /\ final8 = <<>> /\ winUuid' = <<>> /\ failUuid' = <<>>
  BY RoundEnds
<1>2. <<>> \in Seq(Finalist) /\ Len(<<>>) = 0
  OBVIOUS
<1>3. CASE round < 4
  <2>1. /\ userArea1' \in Seq(Finalist) /\ Len(userArea1') = 4
        /\ userArea2' \in Seq(Finalist) /\ Len(userArea2') = 4 /\ final8' = <<>>
    BY <1>1, <1>3, NextArranged
  <2>2. round' \in 1..5 /\ round' # 5 /\ wins' \in [Finalist -> Nat]
    BY <1>1, <1>3
  <2>3. FinalTypeOK'
    BY <1>1, <1>2, <2>1, <2>2 DEF FinalTypeOK
  <2>4. RoundShape'
    BY <1>1, <1>2, <2>1, <2>2 DEF RoundShape
  <2> QED BY <2>3, <2>4 DEF FinalShape
<1>4. CASE round = 4
  <2>1. /\ userArea1' = <<>> /\ userArea2' = <<>>
        /\ final8' \in Seq(Finalist) /\ Len(final8') = 8
    BY <1>4, EightArranged
  <2>2. round' = 5 /\ round' \in 1..5 /\ wins' \in [Finalist -> Nat]
    BY <1>1, <1>4
  <2>3. FinalTypeOK'
    BY <1>1, <1>2, <2>1, <2>2 DEF FinalTypeOK
  <2>4. RoundShape'
    BY <1>1, <1>2, <2>1, <2>2 DEF RoundShape
  <2> QED BY <2>3, <2>4 DEF FinalShape
<1> QED BY <1>1, <1>3, <1>4

LEMMA RoundKeepsPlaces ==
    ASSUME FinalShape, PlacesKept, NextRound
    PROVE  PlacesKept'
<1> SUFFICES ASSUME NEW u
             PROVE  Places(userArea1', u) + Places(userArea2', u) + Places(winUuid', u)
                    + Places(failUuid', u) + Places(final8', u) = Places(F8, u)
  BY DEF PlacesKept
<1>1. /\ round \in 1..4 /\ userArea1 = <<>> /\ userArea2 = <<>> /\ final8 = <<>>
      /\ winUuid \in Seq(Finalist) /\ failUuid \in Seq(Finalist)
      /\ winUuid' = <<>> /\ failUuid' = <<>>
  BY RoundEnds
<1>2. Places(<<>>, u) = 0
  BY FewPlaces
<1>3. /\ Places(userArea1, u) = 0 /\ Places(userArea2, u) = 0 /\ Places(final8, u) = 0
      /\ Places(winUuid', u) = 0 /\ Places(failUuid', u) = 0
  BY <1>1, <1>2
<1>4. Places(winUuid, u) \in Nat /\ Places(failUuid, u) \in Nat
  BY <1>1, AtFinite
<1>5. Places(winUuid, u) + Places(failUuid, u) = Places(F8, u)
  <2>1. Places(userArea1, u) + Places(userArea2, u) + Places(winUuid, u)
        + Places(failUuid, u) + Places(final8, u) = Places(F8, u)
    BY DEF PlacesKept
  <2> QED BY <2>1, <1>3, <1>4
<1>6. Places(F8, u) \in Nat
  BY <1>4, <1>5
<1>7. CASE round < 4
  <2>1. /\ Places(userArea1', u) + Places(userArea2', u) = Places(winUuid, u) + Places(failUuid, u)
        /\ final8' = final8
    BY <1>7, NextArranged
  <2>2. Places(final8', u) = 0
    BY <2>1, <1>1, <1>2
  <2> QED BY <2>1, <2>2, <1>3, <1>5, <1>6
<1>8. CASE round = 4
  <2>1. /\ userArea1' = <<>> /\ userArea2' = <<>>
        /\ Places(final8', u) = Places(winUuid, u) + Places(failUuid, u)
    BY <1>8, EightArranged
  <2>2. Places(userArea1', u) = 0 /\ Places(userArea2', u) = 0
    BY <2>1, <1>2
  <2> QED BY <2>1, <2>2, <1>3, <1>5, <1>6
<1> QED BY <1>1, <1>7, <1>8

FinalInv == FinalShape /\ PlacesKept

\* Each of the eight gets as many places in the result as he has seats among the finalists:
\* one, if nobody is among them twice (fightF8 and fight4 to fight1, pvp_imp.js:408-573).
EightRanked == final8 # <<>> => \A u : Places(final8, u) = Places(F8, u)

LEMMA FinalInvHolds ==
    ASSUME EightFinalists
    PROVE  FinalSpec => []FinalInv
<1>1. FinalInit => FinalInv
  <2> SUFFICES ASSUME FinalInit PROVE FinalInv
    OBVIOUS
  <2>1. FinalShape
    BY FinalStart
  <2>2. F8 \in Seq(Finalist) /\ Len(F8) = 8
    BY DEF EightFinalists
  <2> DEFINE a == <<F8[1], F8[3], F8[5], F8[7]>>
             b == <<F8[2], F8[4], F8[6], F8[8]>>
  <2>3. /\ userArea1 = a /\ userArea2 = b
        /\ winUuid = <<>> /\ failUuid = <<>> /\ final8 = <<>>
    BY DEF FinalInit
  <2>4. ASSUME NEW u
        PROVE  Places(userArea1, u) + Places(userArea2, u) + Places(winUuid, u)
               + Places(failUuid, u) + Places(final8, u) = Places(F8, u)
    <3>1. Places(F8, u) = One(u, F8[1]) + One(u, F8[2]) + One(u, F8[3]) + One(u, F8[4])
                          + One(u, F8[5]) + One(u, F8[6]) + One(u, F8[7]) + One(u, F8[8])
      BY <2>2, EightOf
    <3>2. \A i \in 1..8 : F8[i] \in Finalist
      BY DEF Finalist
    <3>3. /\ F8[1] \in Finalist /\ F8[3] \in Finalist /\ F8[5] \in Finalist /\ F8[7] \in Finalist
          /\ F8[2] \in Finalist /\ F8[4] \in Finalist /\ F8[6] \in Finalist /\ F8[8] \in Finalist
      BY <3>2
    <3>4. Places(a, u) = One(u, F8[1]) + One(u, F8[3]) + One(u, F8[5]) + One(u, F8[7])
      BY <3>3, FourPlaces
    <3>5. Places(b, u) = One(u, F8[2]) + One(u, F8[4]) + One(u, F8[6]) + One(u, F8[8])
      BY <3>3, FourPlaces
    <3>6. Places(<<>>, u) = 0
      BY FewPlaces
    <3>7. /\ One(u, F8[1]) \in Nat /\ One(u, F8[2]) \in Nat /\ One(u, F8[3]) \in Nat
          /\ One(u, F8[4]) \in Nat /\ One(u, F8[5]) \in Nat /\ One(u, F8[6]) \in Nat
          /\ One(u, F8[7]) \in Nat /\ One(u, F8[8]) \in Nat
      BY DEF One
    <3> HIDE DEF a, b
    <3>8. Places(a, u) + Places(b, u) = Places(F8, u) /\ Places(a, u) \in Nat /\ Places(b, u) \in Nat
      BY <3>1, <3>4, <3>5, <3>7
    <3>9. /\ Places(userArea1, u) = Places(a, u) /\ Places(userArea2, u) = Places(b, u)
          /\ Places(winUuid, u) = 0 /\ Places(failUuid, u) = 0 /\ Places(final8, u) = 0
      BY <2>3, <3>6
    <3> QED BY <3>8, <3>9
  <2> QED BY <2>1, <2>4 DEF FinalInv, PlacesKept
<1>2. FinalInv /\ [FinalNext]_finalVars => FinalInv'
  <2> SUFFICES ASSUME FinalInv, [FinalNext]_finalVars PROVE FinalInv'
    OBVIOUS
  <2>1. FinalShape /\ PlacesKept
    BY DEF FinalInv
  <2>2. CASE FightPair
    <3>1. PICK n, x, y : Met(n, x, y)
      BY <2>1, <2>2, FightSeats
    <3>2. FinalShape'
      BY <2>1, <3>1, FightKeepsShape
    <3>3. PlacesKept'
      BY <2>1, <3>1, FightKeepsPlaces
    <3> QED BY <3>2, <3>3 DEF FinalInv
  <2>3. CASE NextRound
    BY <2>1, <2>3, RoundKeepsShape, RoundKeepsPlaces DEF FinalInv
  <2>4. CASE UNCHANGED finalVars
    BY <2>1, <2>4 DEF finalVars, FinalInv, FinalShape, FinalTypeOK, RoundShape, PlacesKept
  <2> QED BY <2>2, <2>3, <2>4 DEF FinalNext
<1> QED BY <1>1, <1>2, PTL DEF FinalSpec

LEMMA EightAreRanked ==
    ASSUME FinalInv
    PROVE  EightRanked
<1> SUFFICES ASSUME final8 # <<>>, NEW u PROVE Places(final8, u) = Places(F8, u)
  BY DEF EightRanked
<1>1. /\ userArea1 = <<>> /\ userArea2 = <<>> /\ winUuid = <<>> /\ failUuid = <<>>
      /\ final8 \in Seq(Finalist)
  BY DEF FinalInv, FinalShape, FinalTypeOK, RoundShape
<1>2. Places(<<>>, u) = 0 /\ Places(final8, u) \in Nat
  BY <1>1, FewPlaces, AtFinite
<1>3. Places(userArea1, u) + Places(userArea2, u) + Places(winUuid, u)
      + Places(failUuid, u) + Places(final8, u) = Places(F8, u)
  BY DEF FinalInv, PlacesKept
<1> QED BY <1>1, <1>2, <1>3

\* The final rounds give each of the eight his place: nobody is lost in the arrangements
\* between the rounds and nobody appears twice.
THEOREM FinalRoundsRankEight ==
    ASSUME EightFinalists
    PROVE  FinalSpec => []EightRanked
<1>1. FinalSpec => []FinalInv
  BY FinalInvHolds
<1>2. FinalInv => EightRanked
  BY EightAreRanked
<1> QED BY <1>1, <1>2, PTL

-----------------------------------------------------------------------------
(* Who comes where, when the eight are different players. *)

DifferentFinalists ==
    EightFinalists /\ \A i, j \in 1..8 : F8[i] = F8[j] => i = j

LEMMA NoPlace ==
    ASSUME NEW S, NEW s \in Seq(S), NEW u
    PROVE  /\ Places(s, u) = 0 => \A i \in 1..Len(s) : s[i] # u
           /\ (\A i \in 1..Len(s) : s[i] # u) => Places(s, u) = 0
<1>1. IsFiniteSet(At(s, u)) /\ Places(s, u) = Cardinality(At(s, u))
  BY AtFinite
<1>2. Cardinality(At(s, u)) = 0 <=> At(s, u) = {}
  BY <1>1, FS_EmptySet
<1> QED BY <1>1, <1>2 DEF At

LEMMA OnlyPlace ==
    ASSUME NEW S, NEW s \in Seq(S), NEW u
    PROVE  /\ Places(s, u) = 1 => \A i, j \in 1..Len(s) : s[i] = u /\ s[j] = u => i = j
           /\ (\E k \in 1..Len(s) : \A i \in 1..Len(s) : s[i] = u <=> i = k) => Places(s, u) = 1
<1>1. IsFiniteSet(At(s, u)) /\ Places(s, u) = Cardinality(At(s, u))
  BY AtFinite
<1>2. Cardinality(At(s, u)) = 1 <=> \E k : At(s, u) = {k}
  BY <1>1, FS_Singleton
<1>3. ASSUME Places(s, u) = 1, NEW i \in 1..Len(s), NEW j \in 1..Len(s), s[i] = u, s[j] = u
      PROVE  i = j
  <2>1. i \in At(s, u) /\ j \in At(s, u)
    BY <1>3 DEF At
  <2> QED BY <2>1, <1>1, <1>2, <1>3
<1>4. ASSUME NEW k \in 1..Len(s), \A i \in 1..Len(s) : s[i] = u <=> i = k
      PROVE  Places(s, u) = 1
  <2>1. At(s, u) = {k}
    BY <1>4 DEF At
  <2> QED BY <2>1, <1>1, <1>2
<1> QED BY <1>3, <1>4

LEMMA FinalistsOnce ==
    ASSUME DifferentFinalists, NEW u \in Finalist
    PROVE  Places(F8, u) = 1
<1>1. F8 \in Seq(Finalist) /\ Len(F8) = 8 /\ \A i, j \in 1..8 : F8[i] = F8[j] => i = j
  BY DEF DifferentFinalists, EightFinalists
<1>2. PICK k \in 1..8 : F8[k] = u
  BY DEF Finalist
<1>3. \A i \in 1..8 : F8[i] = u <=> i = k
  BY <1>1, <1>2
<1>4. \E m \in 1..Len(F8) : \A i \in 1..Len(F8) : F8[i] = u <=> i = m
  BY <1>1, <1>3
<1> QED BY <1>1, <1>4, OnlyPlace

\* The result is one of the orders in which the eight can come.
EightInOrder == final8 # <<>> => final8 \in Orders(F8)

\* The final rounds end with an order of the eight, which is what Rank takes for the head of
\* the ranking.
THEOREM FinalRoundsOrderEight ==
    ASSUME DifferentFinalists
    PROVE  FinalSpec => []EightInOrder
<1>1. EightFinalists
  BY DEF DifferentFinalists
<1>2. FinalSpec => []FinalInv
  BY <1>1, FinalInvHolds
<1>3. FinalInv => EightInOrder
  <2> SUFFICES ASSUME FinalInv, final8 # <<>> PROVE final8 \in Orders(F8)
    BY DEF EightInOrder
  <2>1. final8 \in Seq(Finalist) /\ Len(final8) = 8 /\ Len(F8) = 8
    BY <1>1 DEF FinalInv, FinalShape, FinalTypeOK, RoundShape, EightFinalists
  <2>2. \A u \in Finalist : Places(final8, u) = 1
    BY EightAreRanked, FinalistsOnce DEF EightRanked
  <2>3. \A i \in 1..8 : final8[i] \in Finalist
    BY <2>1, EightOf
  <2>4. \A i \in 1..8 : \E k \in 1..8 : F8[k] = final8[i]
    BY <2>3 DEF Finalist
  <2> DEFINE f == [i \in 1..8 |-> CHOOSE k \in 1..8 : F8[k] = final8[i]]
  <2>5. \A i \in 1..8 : f[i] \in 1..8 /\ F8[f[i]] = final8[i]
    BY <2>4
  <2>6. f \in [1..8 -> 1..8]
    BY <2>5
  <2> HIDE DEF f
  <2>7. ASSUME NEW i \in 1..8, NEW j \in 1..8, f[i] = f[j]
        PROVE  i = j
    <3>1. final8[i] = final8[j] /\ final8[i] \in Finalist
      BY <2>3, <2>5, <2>7
    <3>2. Places(final8, final8[i]) = 1
      BY <2>2, <3>1
    <3> QED BY <2>1, <3>1, <3>2, OnlyPlace
  <2>8. final8 = [i \in 1..8 |-> F8[f[i]]]
    <3> DEFINE o == [i \in 1..8 |-> F8[f[i]]]
    <3>1. \A i \in 1..8 : o[i] = final8[i] /\ o[i] \in Finalist
      BY <2>3, <2>5
    <3>2. o \in [1..8 -> Finalist] /\ Len(o) = 8
      BY <3>1
    <3> HIDE DEF o
    <3>3. o \in Seq(Finalist)
      BY <3>2, SeqDef
    <3>4. o = final8
      BY <2>1, <3>1, <3>2, <3>3, SeqEqual
    <3> QED BY <3>4 DEF o
  <2> QED BY <2>1, <2>6, <2>7, <2>8 DEF Orders
<1> QED BY <1>2, <1>3, PTL

\* How many fights those in seat i of the arrays can have won when round r begins.
Least(r, i) == IF (r = 3 /\ i <= 2) \/ (r = 4 /\ i # 2) THEN 1 ELSE 0
Most(r, i) ==
    CASE r = 1 -> 0
      [] r = 2 -> 1
      [] r = 3 -> IF i <= 2 THEN 2 ELSE 1
      [] r = 4 -> IF i = 3 THEN 3 ELSE 2

\* Seat n fights as the (5 - n)th.
WinsBySeat ==
    /\ \A i \in 1..Len(userArea1) : wins[userArea1[i]] \in Least(round, i)..Most(round, i)
    /\ \A i \in 1..Len(userArea2) : wins[userArea2[i]] \in Least(round, i)..Most(round, i)
    /\ \A k \in 1..Len(winUuid) :
          wins[winUuid[k]] \in Least(round, 5 - k) + 1..Most(round, 5 - k) + 1
    /\ \A k \in 1..Len(failUuid) :
          wins[failUuid[k]] \in Least(round, 5 - k)..Most(round, 5 - k)
    /\ \A k \in 1..Len(final8) :
          wins[final8[k]] \in (IF k = 6 THEN 0 ELSE 1)..(IF k = 3 THEN 4 ELSE 3)

\* Whoever fights is in no other seat.
LEMMA WinnerAlone ==
    ASSUME DifferentFinalists, FinalInv, NEW n, NEW x, NEW y, Met(n, x, y)
    PROVE  /\ x # y
           /\ \A i \in 1..n - 1 : userArea1[i] # x /\ userArea2[i] # x
           /\ \A k \in 1..4 - n : winUuid[k] # x /\ failUuid[k] # x
<1>1. FinalShape /\ PlacesKept
  BY DEF FinalInv
<1>2. /\ n \in 1..4 /\ x \in Finalist /\ y \in Finalist /\ final8 = <<>>
      /\ winUuid \in Seq(Finalist) /\ failUuid \in Seq(Finalist)
      /\ Len(winUuid) = 4 - n /\ Len(failUuid) = 4 - n
  BY <1>1, FightFacts
<1>3. /\ userArea1' \in Seq(Finalist) /\ Len(userArea1') = n - 1
      /\ userArea2' \in Seq(Finalist) /\ Len(userArea2') = n - 1
      /\ \A i \in 1..n - 1 : userArea1'[i] = userArea1[i] /\ userArea2'[i] = userArea2[i]
      /\ Places(winUuid', x) = Places(winUuid, x) + One(x, x)
      /\ Places(failUuid', x) = Places(failUuid, x) + One(x, y)
  BY <1>1, FightSteps
<1>4. /\ Places(userArea1', x) \in Nat /\ Places(userArea2', x) \in Nat
      /\ Places(winUuid, x) \in Nat /\ Places(failUuid, x) \in Nat
  BY <1>2, <1>3, AtFinite
<1>5. Places(userArea1', x) + Places(userArea2', x) + Places(winUuid', x)
      + Places(failUuid', x) + Places(final8', x) = 1
  <2>1. PlacesKept'
    BY <1>1, FightKeepsPlaces
  <2>2. Places(F8, x) = 1
    BY <1>2, FinalistsOnce
  <2> QED BY <2>1, <2>2 DEF PlacesKept
<1>6. Places(final8', x) = 0
  <2>1. final8' = <<>>
    BY <1>2 DEF Met
  <2> QED BY <2>1, FewPlaces
<1>7. One(x, x) = 1 /\ One(x, y) \in Nat /\ (x = y => One(x, y) = 1)
  BY DEF One
<1>8. /\ Places(userArea1', x) = 0 /\ Places(userArea2', x) = 0
      /\ Places(winUuid, x) = 0 /\ Places(failUuid, x) = 0 /\ One(x, y) = 0
  BY <1>3, <1>4, <1>5, <1>6, <1>7
<1>9. \A i \in 1..n - 1 : userArea1'[i] # x /\ userArea2'[i] # x
  BY <1>3, <1>8, NoPlace
<1>10. \A k \in 1..4 - n : winUuid[k] # x /\ failUuid[k] # x
  BY <1>2, <1>8, NoPlace
<1> QED BY <1>3, <1>7, <1>8, <1>9, <1>10

LEMMA FightKeepsWins ==
    ASSUME DifferentFinalists, FinalInv, WinsBySeat, NEW n, NEW x, NEW y, Met(n, x, y)
    PROVE  WinsBySeat'
<1>1. FinalShape
  BY DEF FinalInv
<1>2. /\ n \in 1..4 /\ x \in Finalist /\ y \in Finalist /\ final8 = <<>>
      /\ wins \in [Finalist -> Nat] /\ Len(userArea1) = n /\ Len(userArea2) = n
      /\ winUuid \in Seq(Finalist) /\ failUuid \in Seq(Finalist)
      /\ userArea1 \in Seq(Finalist) /\ userArea2 \in Seq(Finalist)
      /\ Len(winUuid) = 4 - n /\ Len(failUuid) = 4 - n
  BY <1>1, FightFacts
<1>3. /\ Len(userArea1') = n - 1 /\ Len(userArea2') = n - 1
      /\ \A i \in 1..n - 1 : userArea1'[i] = userArea1[i] /\ userArea2'[i] = userArea2[i]
      /\ Len(winUuid') = 5 - n /\ Len(failUuid') = 5 - n
      /\ \A k \in 1..4 - n : winUuid'[k] = winUuid[k] /\ failUuid'[k] = failUuid[k]
      /\ winUuid'[5 - n] = x /\ failUuid'[5 - n] = y
  BY <1>1, FightSteps
<1>4. /\ round' = round /\ final8' = final8 /\ wins' = [wins EXCEPT ![x] = @ + 1]
      /\ \/ x = userArea1[n] /\ y = userArea2[n]
         \/ x = userArea2[n] /\ y = userArea1[n]
  BY DEF Met
<1>5. /\ wins'[x] = wins[x] + 1
      /\ \A u \in Finalist : u # x => wins'[u] = wins[u]
  BY <1>2, <1>4
<1>6. /\ x # y
      /\ \A i \in 1..n - 1 : userArea1[i] # x /\ userArea2[i] # x
      /\ \A k \in 1..4 - n : winUuid[k] # x /\ failUuid[k] # x
  BY WinnerAlone
<1>7. /\ \A i \in 1..n : userArea1[i] \in Finalist /\ userArea2[i] \in Finalist
      /\ \A k \in 1..4 - n : winUuid[k] \in Finalist /\ failUuid[k] \in Finalist
  <2>1. ASSUME NEW s \in Seq(Finalist) PROVE \A i \in 1..Len(s) : s[i] \in Finalist
    OBVIOUS
  <2> QED BY <1>2, <2>1
<1>8. /\ wins[x] \in Least(round, n)..Most(round, n)
      /\ wins[y] \in Least(round, n)..Most(round, n)
  <2>1. /\ wins[userArea1[n]] \in Least(round, n)..Most(round, n)
        /\ wins[userArea2[n]] \in Least(round, n)..Most(round, n)
    <3>1. \A i \in 1..Len(userArea1) : wins[userArea1[i]] \in Least(round, i)..Most(round, i)
      BY DEF WinsBySeat
    <3>2. \A i \in 1..Len(userArea2) : wins[userArea2[i]] \in Least(round, i)..Most(round, i)
      BY DEF WinsBySeat
    <3>3. n \in 1..Len(userArea1) /\ n \in 1..Len(userArea2)
      BY <1>2
    <3> QED BY <3>1, <3>2, <3>3
  <2> QED BY <1>4, <2>1
<1>9. \A i \in 1..n - 1 : /\ wins'[userArea1'[i]] \in Least(round, i)..Most(round, i)
                          /\ wins'[userArea2'[i]] \in Least(round, i)..Most(round, i)
  <2> SUFFICES ASSUME NEW i \in 1..n - 1
               PROVE  /\ wins'[userArea1'[i]] \in Least(round, i)..Most(round, i)
                      /\ wins'[userArea2'[i]] \in Least(round, i)..Most(round, i)
    OBVIOUS
  <2>1. i \in 1..n
    BY <1>2
  <2>2. /\ wins[userArea1[i]] \in Least(round, i)..Most(round, i)
        /\ wins[userArea2[i]] \in Least(round, i)..Most(round, i)
    BY <2>1, <1>2 DEF WinsBySeat
  <2>3. wins'[userArea1[i]] = wins[userArea1[i]] /\ wins'[userArea2[i]] = wins[userArea2[i]]
    BY <2>1, <1>5, <1>6, <1>7
  <2> QED BY <2>2, <2>3, <1>3
<1>10. \A k \in 1..4 - n : /\ wins'[winUuid'[k]] \in Least(round, 5 - k) + 1..Most(round, 5 - k) + 1
                           /\ wins'[failUuid'[k]] \in Least(round, 5 - k)..Most(round, 5 - k)
  <2> SUFFICES ASSUME NEW k \in 1..4 - n
               PROVE  /\ wins'[winUuid'[k]] \in Least(round, 5 - k) + 1..Most(round, 5 - k) + 1
                      /\ wins'[failUuid'[k]] \in Least(round, 5 - k)..Most(round, 5 - k)
    OBVIOUS
  <2>1. /\ wins[winUuid[k]] \in Least(round, 5 - k) + 1..Most(round, 5 - k) + 1
        /\ wins[failUuid[k]] \in Least(round, 5 - k)..Most(round, 5 - k)
    BY <1>2 DEF WinsBySeat
  <2>2. wins'[winUuid[k]] = wins[winUuid[k]] /\ wins'[failUuid[k]] = wins[failUuid[k]]
    BY <1>5, <1>6, <1>7
  <2> QED BY <2>1, <2>2, <1>3
<1>11. /\ wins'[winUuid'[5 - n]] \in Least(round, n) + 1..Most(round, n) + 1
       /\ wins'[failUuid'[5 - n]] \in Least(round, n)..Most(round, n)
  <2>1. Least(round, n) \in Nat /\ Most(round, n) \in Nat
    <3>1. round \in 1..4
      BY DEF Met
    <3> QED BY <1>2, <3>1 DEF Least, Most
  <2>2. ASSUME NEW l \in Nat, NEW h \in Nat, NEW m \in l..h
        PROVE  m + 1 \in l + 1..h + 1
    OBVIOUS
  <2>3. wins[x] + 1 \in Least(round, n) + 1..Most(round, n) + 1
    BY <2>1, <2>2, <1>8
  <2>4. wins'[y] = wins[y]
    BY <1>2, <1>5, <1>6
  <2> QED BY <2>3, <2>4, <1>3, <1>5, <1>8
<1>12. \A k \in 1..5 - n : k \in 1..4 - n \/ (k = 5 - n /\ 5 - k = n)
  BY <1>2
<1>13. \A k \in 1..5 - n : /\ wins'[winUuid'[k]] \in Least(round, 5 - k) + 1..Most(round, 5 - k) + 1
                           /\ wins'[failUuid'[k]] \in Least(round, 5 - k)..Most(round, 5 - k)
  <2> SUFFICES ASSUME NEW k \in 1..5 - n
               PROVE  /\ wins'[winUuid'[k]] \in Least(round, 5 - k) + 1..Most(round, 5 - k) + 1
                      /\ wins'[failUuid'[k]] \in Least(round, 5 - k)..Most(round, 5 - k)
    OBVIOUS
  <2>1. CASE k \in 1..4 - n
    BY <2>1, <1>10
  <2>2. CASE k = 5 - n /\ 5 - k = n
    BY <2>2, <1>11
  <2> QED BY <2>1, <2>2, <1>12
<1>14. Len(final8') = 0
  BY <1>2, <1>4
<1> QED BY <1>3, <1>4, <1>9, <1>13, <1>14 DEF WinsBySeat

LEMMA RoundKeepsWins ==
    ASSUME FinalInv, WinsBySeat, NextRound
    PROVE  WinsBySeat'
<1> DEFINE w == winUuid
           l == failUuid
<1>1. FinalShape
  BY DEF FinalInv
<1>2. /\ round \in 1..4 /\ round' = round + 1 /\ wins' = wins /\ final8 = <<>>
      /\ w \in Seq(Finalist) /\ Len(w) = 4 /\ l \in Seq(Finalist) /\ Len(l) = 4
      /\ winUuid' = <<>> /\ failUuid' = <<>>
  BY <1>1, RoundEnds
<1>3. \A k \in 1..4 : /\ wins[w[k]] \in Least(round, 5 - k) + 1..Most(round, 5 - k) + 1
                      /\ wins[l[k]] \in Least(round, 5 - k)..Most(round, 5 - k)
  <2>1. \A k \in 1..Len(w) : wins[w[k]] \in Least(round, 5 - k) + 1..Most(round, 5 - k) + 1
    BY DEF WinsBySeat
  <2>2. \A k \in 1..Len(l) : wins[l[k]] \in Least(round, 5 - k)..Most(round, 5 - k)
    BY DEF WinsBySeat
  <2> HIDE DEF w, l
  <2> QED BY <1>2, <2>1, <2>2
<1>4. round < 4 => userArea1' = Arranged(w, l)[1] /\ userArea2' = Arranged(w, l)[2]
  BY DEF NextRound
<1>5. Len(winUuid') = 0 /\ Len(failUuid') = 0
  BY <1>2
<1>6. /\ w[1] \in Finalist /\ w[2] \in Finalist /\ w[3] \in Finalist /\ w[4] \in Finalist
      /\ l[1] \in Finalist /\ l[2] \in Finalist /\ l[3] \in Finalist /\ l[4] \in Finalist
  BY <1>2, FourOf
<1> HIDE DEF w, l
\* With fewer than four rounds fought, the bounds of the next one hold for each seat.
<1>7. ASSUME round < 4,
             \A i \in 1..4 : /\ wins[userArea1'[i]] \in Least(round + 1, i)..Most(round + 1, i)
                             /\ wins[userArea2'[i]] \in Least(round + 1, i)..Most(round + 1, i)
      PROVE  WinsBySeat'
  <2>1. Len(userArea1') = 4 /\ Len(userArea2') = 4 /\ final8' = final8
    BY <1>1, <1>7, NextArranged
  <2>2. Len(final8') = 0
    BY <1>2, <2>1
  <2> QED BY <1>2, <1>5, <1>7, <2>1, <2>2 DEF WinsBySeat
<1>8. CASE round = 1
  <2>1. userArea1' = w /\ userArea2' = Reverse(l)
    BY <1>4, <1>8 DEF Arranged
  <2>2. \A k \in 1..4 : wins[w[k]] \in 0..1 /\ wins[l[k]] \in 0..1
    BY <1>3, <1>8 DEF Least, Most
  <2>3. \A i \in 1..4 : Reverse(l)[i] = l[4 - i + 1] /\ 4 - i + 1 \in 1..4
    BY <1>2 DEF Reverse
  <2>4. \A i \in 1..4 : Least(2, i) = 0 /\ Most(2, i) = 1
    BY DEF Least, Most
  <2>5. \A i \in 1..4 : wins[userArea1'[i]] \in 0..1 /\ wins[userArea2'[i]] \in 0..1
    BY <2>1, <2>2, <2>3
  <2> QED BY <1>7, <1>8, <2>4, <2>5
<1>9. CASE round = 2
  <2>1. userArea1' = <<w[1], w[2], l[1], l[2]>> /\ userArea2' = <<w[3], w[4], l[3], l[4]>>
    BY <1>4, <1>9 DEF Arranged
  <2>2. /\ userArea1'[1] = w[1] /\ userArea1'[2] = w[2] /\ userArea1'[3] = l[1] /\ userArea1'[4] = l[2]
        /\ userArea2'[1] = w[3] /\ userArea2'[2] = w[4] /\ userArea2'[3] = l[3] /\ userArea2'[4] = l[4]
    BY <2>1
  <2>3. \A k \in 1..4 : wins[w[k]] \in 1..2 /\ wins[l[k]] \in 0..1
    BY <1>3, <1>9 DEF Least, Most
  <2>4. ASSUME NEW i \in 1..4
        PROVE  /\ wins[userArea1'[i]] \in Least(3, i)..Most(3, i)
               /\ wins[userArea2'[i]] \in Least(3, i)..Most(3, i)
    <3>1. i = 1 \/ i = 2 \/ i = 3 \/ i = 4
      OBVIOUS
    <3>2. /\ Least(3, 1) = 1 /\ Most(3, 1) = 2 /\ Least(3, 2) = 1 /\ Most(3, 2) = 2
          /\ Least(3, 3) = 0 /\ Most(3, 3) = 1 /\ Least(3, 4) = 0 /\ Most(3, 4) = 1
      BY DEF Least, Most
    <3> QED BY <3>1, <3>2, <2>2, <2>3
  <2> QED BY <1>7, <1>9, <2>4
<1>10. CASE round = 3
  <2>1. userArea1' = <<w[1], l[1], w[3], l[3]>> /\ userArea2' = <<w[2], l[2], w[4], l[4]>>
    BY <1>4, <1>10 DEF Arranged
  <2>2. /\ userArea1'[1] = w[1] /\ userArea1'[2] = l[1] /\ userArea1'[3] = w[3] /\ userArea1'[4] = l[3]
        /\ userArea2'[1] = w[2] /\ userArea2'[2] = l[2] /\ userArea2'[3] = w[4] /\ userArea2'[4] = l[4]
    BY <2>1
  <2>3. /\ wins[w[1]] \in 1..2 /\ wins[w[2]] \in 1..2 /\ wins[w[3]] \in 2..3 /\ wins[w[4]] \in 2..3
        /\ wins[l[1]] \in 0..1 /\ wins[l[2]] \in 0..1 /\ wins[l[3]] \in 1..2 /\ wins[l[4]] \in 1..2
    BY <1>3, <1>10 DEF Least, Most
  <2>4. ASSUME NEW i \in 1..4
        PROVE  /\ wins[userArea1'[i]] \in Least(4, i)..Most(4, i)
               /\ wins[userArea2'[i]] \in Least(4, i)..Most(4, i)
    <3>1. i = 1 \/ i = 2 \/ i = 3 \/ i = 4
      OBVIOUS
    <3>2. /\ Least(4, 1) = 1 /\ Most(4, 1) = 2 /\ Least(4, 2) = 0 /\ Most(4, 2) = 2
          /\ Least(4, 3) = 1 /\ Most(4, 3) = 3 /\ Least(4, 4) = 1 /\ Most(4, 4) = 2
      BY DEF Least, Most
    <3> QED BY <3>1, <3>2, <2>2, <2>3
  <2> QED BY <1>7, <1>10, <2>4
<1>11. CASE round = 4
  <2>1. /\ userArea1' = <<>> /\ userArea2' = <<>> /\ Len(final8') = 8
        /\ \A k \in 1..4 : final8'[2 * k - 1] = w[k] /\ final8'[2 * k] = l[k]
    BY <1>1, <1>11, EightArranged DEF w, l
  <2>2. /\ wins[w[1]] \in 1..3 /\ wins[w[2]] \in 1..4 /\ wins[w[3]] \in 1..3 /\ wins[w[4]] \in 1..3
        /\ wins[l[1]] \in 1..3 /\ wins[l[2]] \in 1..3 /\ wins[l[3]] \in 0..3 /\ wins[l[4]] \in 1..3
    BY <1>3, <1>11 DEF Least, Most
  <2>3. /\ final8'[2 * 1 - 1] = w[1] /\ final8'[2 * 1] = l[1]
        /\ final8'[2 * 2 - 1] = w[2] /\ final8'[2 * 2] = l[2]
        /\ final8'[2 * 3 - 1] = w[3] /\ final8'[2 * 3] = l[3]
        /\ final8'[2 * 4 - 1] = w[4] /\ final8'[2 * 4] = l[4]
    BY <2>1
  <2>4. ASSUME NEW k \in 1..8
        PROVE  wins'[final8'[k]] \in (IF k = 6 THEN 0 ELSE 1)..(IF k = 3 THEN 4 ELSE 3)
    <3>1. k = 1 \/ k = 2 \/ k = 3 \/ k = 4 \/ k = 5 \/ k = 6 \/ k = 7 \/ k = 8
      OBVIOUS
    <3> QED BY <3>1, <2>2, <2>3, <1>2
  <2>5. Len(userArea1') = 0 /\ Len(userArea2') = 0
    BY <2>1
  <2> QED BY <1>5, <2>1, <2>4, <2>5 DEF WinsBySeat
<1> QED BY <1>2, <1>8, <1>9, <1>10, <1>11

\* Who has won all his fights is third in the ranking, not first as UndefeatedIsFirst says:
\* the two who can still do it meet in the second fight of the last round, and fight1 gives
\* the third place to the winner of the second fight.  Who has won none comes sixth, not last
\* (fight4 to fight1, pvp_imp.js:408-553).
ByWins ==
    final8 # <<>> => \A u \in Finalist : /\ wins[u] = 4 => final8[3] = u
                                         /\ wins[u] = 0 => final8[6] = u

THEOREM UndefeatedIsThird ==
    ASSUME DifferentFinalists
    PROVE  FinalSpec => []ByWins
<1>1. EightFinalists
  BY DEF DifferentFinalists
<1>2. FinalSpec => []FinalInv
  BY <1>1, FinalInvHolds
<1>3. FinalInit => WinsBySeat
  <2> SUFFICES ASSUME FinalInit PROVE WinsBySeat
    OBVIOUS
  <2>1. /\ FinalShape /\ round = 1 /\ wins = [u \in Finalist |-> 0]
        /\ winUuid = <<>> /\ failUuid = <<>> /\ final8 = <<>>
    BY <1>1, FinalStart DEF FinalInit
  <2>2. userArea1 \in Seq(Finalist) /\ userArea2 \in Seq(Finalist)
    BY <2>1 DEF FinalShape, FinalTypeOK
  <2>3. ASSUME NEW s \in Seq(Finalist), NEW i \in 1..Len(s)
        PROVE  wins[s[i]] \in Least(round, i)..Most(round, i)
    <3>1. s[i] \in Finalist /\ i \in Nat
      OBVIOUS
    <3> QED BY <2>1, <3>1 DEF Least, Most
  <2>4. Len(winUuid) = 0 /\ Len(failUuid) = 0 /\ Len(final8) = 0
    BY <2>1
  <2> QED BY <2>2, <2>3, <2>4 DEF WinsBySeat
<1>4. FinalInv /\ WinsBySeat /\ [FinalNext]_finalVars => WinsBySeat'
  <2> SUFFICES ASSUME FinalInv, WinsBySeat, [FinalNext]_finalVars PROVE WinsBySeat'
    OBVIOUS
  <2>1. CASE FightPair
    <3>1. PICK n, x, y : Met(n, x, y)
      BY <2>1, FightSeats DEF FinalInv
    <3> QED BY <3>1, FightKeepsWins
  <2>2. CASE NextRound
    BY <2>2, RoundKeepsWins
  <2>3. CASE UNCHANGED finalVars
    BY <2>3 DEF finalVars, WinsBySeat
  <2> QED BY <2>1, <2>2, <2>3 DEF FinalNext
<1>5. FinalInv /\ WinsBySeat => ByWins
  <2> SUFFICES ASSUME FinalInv, WinsBySeat, final8 # <<>>, NEW u \in Finalist
               PROVE  (wins[u] = 4 => final8[3] = u) /\ (wins[u] = 0 => final8[6] = u)
    BY DEF ByWins
  <2>1. final8 \in Seq(Finalist) /\ Len(final8) = 8
    BY DEF FinalInv, FinalShape, FinalTypeOK, RoundShape
  <2>2. Places(final8, u) # 0
    BY EightAreRanked, FinalistsOnce DEF EightRanked
  <2>3. PICK k \in 1..8 : final8[k] = u
    BY <2>1, <2>2, NoPlace
  <2>4. wins[u] \in (IF k = 6 THEN 0 ELSE 1)..(IF k = 3 THEN 4 ELSE 3)
    BY <2>1, <2>3 DEF WinsBySeat
  <2> QED BY <2>3, <2>4
<1> QED BY <1>2, <1>3, <1>4, <1>5, PTL DEF FinalSpec
=============================================================================
