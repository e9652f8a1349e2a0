----------------------------- MODULE Lists_proofs -----------------------------
(***************************************************************************)
(* Facts about lists that the other proofs cite.  They need induction.     *)
(* The library states it for an operator, which the provers cannot be      *)
(* given; so it is derived here for a set, from the well-foundedness of    *)
(* inclusion between finite sets, and from it that recursion over the      *)
(* naturals defines a function.                                            *)
(***************************************************************************)
EXTENDS Lists, FiniteSetTheorems, TLAPS

-----------------------------------------------------------------------------
\* Induction and recursion over the naturals.

LEMMA LeastNatural ==
    ASSUME NEW S \in SUBSET Nat, S # {}
    PROVE  \E n \in S : \A m \in S : n <= m
<1>. DEFINE Initials == {0..n : n \in S}
<1>1. Initials \subseteq FiniteSubsetsOf(Nat) /\ Initials # {}
  <2>1. ASSUME NEW n \in S PROVE 0..n \in FiniteSubsetsOf(Nat)
    BY FS_Interval DEF FiniteSubsetsOf
  <2>. QED BY <2>1
<1>2. PICK b \in Initials : \A c \in Initials : <<c, b>> \notin StrictSubsetOrdering(Nat)
  BY <1>1, FS_StrictSubsetOrderingWellFounded, WFMin
<1>3. PICK n \in S : b = 0..n
  BY <1>2
<1>4. ASSUME NEW m \in S, m < n PROVE FALSE
  <2>1. 0..m \subseteq 0..n /\ 0..m # 0..n /\ 0..m \subseteq Nat /\ 0..n \subseteq Nat
    BY <1>4
  <2>2. <<0..m, 0..n>> \in StrictSubsetOrdering(Nat)
    BY <2>1 DEF StrictSubsetOrdering
  <2>. QED BY <1>2, <1>3, <2>2
<1>. QED BY <1>4

LEMMA Induction ==
    ASSUME NEW S, 0 \in S, \A n \in Nat : n \in S => n + 1 \in S
    PROVE  Nat \subseteq S
<1>. SUFFICES ASSUME Nat \ S # {} PROVE FALSE
  OBVIOUS
<1>1. PICK n \in Nat \ S : \A m \in Nat \ S : n <= m
  BY LeastNatural
<1>2. n - 1 \in Nat /\ n - 1 \in S
  BY <1>1
<1>. QED BY <1>1, <1>2

\* A value for each place up to the last, each from the one before and its place.
IsRule(V, base, step) == base \in V /\ step \in [V \X Nat -> V]

Follows(f, V, base, step, last) ==
    /\ f \in [0..last -> V]
    /\ f[0] = base
    /\ \A n \in 1..last : f[n] = step[<<f[n - 1], n>>]

LEMMA Recursion ==
    ASSUME NEW V, NEW base, NEW step, IsRule(V, base, step), NEW last \in Nat
    PROVE  \E f : Follows(f, V, base, step, last)
<1>. DEFINE Reached == {l \in Nat : \E f : Follows(f, V, base, step, l)}
<1>1. 0 \in Reached
  <2>1. Follows([n \in 0..0 |-> base], V, base, step, 0)
    BY DEF Follows, IsRule
  <2>. QED BY <2>1
<1>2. ASSUME NEW l \in Nat, l \in Reached PROVE l + 1 \in Reached
  <2>1. PICK f : Follows(f, V, base, step, l)
    BY <1>2
  <2>. DEFINE next == step[<<f[l], l + 1>>]
              g == [n \in 0..(l + 1) |-> IF n <= l THEN f[n] ELSE next]
  <2>2. f \in [0..l -> V] /\ <<f[l], l + 1>> \in V \X Nat
    BY <2>1 DEF Follows
  <2>3. next \in V
    BY <2>2 DEF IsRule
  <2>4. g \in [0..(l + 1) -> V] /\ (\A n \in 0..l : g[n] = f[n]) /\ g[l + 1] = next
    <3>. HIDE DEF next
    <3>. QED BY <2>2, <2>3
  <2>5. ASSUME NEW n \in 1..(l + 1) PROVE g[n] = step[<<g[n - 1], n>>]
    <3>. HIDE DEF g
    <3>1. CASE n \in 1..l
      <4>1. n - 1 \in 0..l /\ n \in 0..l
        BY <3>1
      <4>. QED BY <2>1, <2>4, <3>1, <4>1 DEF Follows
    <3>2. CASE n = l + 1
      <4>1. n - 1 = l /\ l \in 0..l
        BY <3>2
      <4>. QED BY <2>4, <3>2, <4>1
    <3>3. n \in 1..l \/ n = l + 1
      OBVIOUS
    <3>. QED BY <3>1, <3>2, <3>3
  <2>6. Follows(g, V, base, step, l + 1)
    <3>1. 0 \in 0..l
      OBVIOUS
    <3>. HIDE DEF g
    <3>. QED BY <2>1, <2>4, <2>5, <3>1 DEF Follows
  <2>. HIDE DEF g
  <2>. QED BY <2>6
<1>. QED BY <1>1, <1>2, Induction

-----------------------------------------------------------------------------
(***************************************************************************)
(* Among keeps exactly the wanted elements.                                *)
(***************************************************************************)
KeptBy(list, wanted, f) ==
    f = [n \in 0..Len(list) |->
            IF n = 0 THEN <<>>
            ELSE IF list[n] \in wanted THEN Append(f[n - 1], list[n]) ELSE f[n - 1]]

LEMMA ToSetAppend ==
    ASSUME NEW T, NEW list \in Seq(T), NEW e \in T
    PROVE  Append(list, e) \in Seq(T) /\ ToSet(Append(list, e)) = ToSet(list) \cup {e}
<1>1. Len(list) \in Nat /\ DOMAIN list = 1..Len(list)
  OBVIOUS
<1>2. /\ Append(list, e) \in Seq(T) /\ DOMAIN Append(list, e) = 1..(Len(list) + 1)
      /\ Append(list, e)[Len(list) + 1] = e
      /\ \A i \in 1..Len(list) : Append(list, e)[i] = list[i]
  BY <1>1
<1>3. ToSet(Append(list, e)) \subseteq ToSet(list) \cup {e}
  <2>1. \A i \in 1..(Len(list) + 1) : i \in 1..Len(list) \/ i = Len(list) + 1
    BY <1>1
  <2>. QED BY <1>1, <1>2, <2>1 DEF ToSet
<1>4. ToSet(list) \cup {e} \subseteq ToSet(Append(list, e))
  BY <1>1, <1>2 DEF ToSet
<1>. QED BY <1>2, <1>3, <1>4

LEMMA AmongIsKept ==
    ASSUME NEW T, NEW list \in Seq(T), NEW wanted
    PROVE  \E f : KeptBy(list, wanted, f) /\ Among(list, wanted) = f[Len(list)]
<1>. DEFINE step ==
        [pair \in Seq(T) \X Nat |->
            IF pair[2] \in 1..Len(list) /\ list[pair[2]] \in wanted
            THEN Append(pair[1], list[pair[2]]) ELSE pair[1]]
<1>1. step \in [Seq(T) \X Nat -> Seq(T)]
  OBVIOUS
<1>2. <<>> \in Seq(T) /\ Len(list) \in Nat
  OBVIOUS
<1>3. PICK f : Follows(f, Seq(T), <<>>, step, Len(list))
  <2>1. IsRule(Seq(T), <<>>, step)
    BY <1>1, <1>2 DEF IsRule
  <2>. HIDE DEF step
  <2>. QED BY <1>2, <2>1, Recursion
<1>4. ASSUME NEW n \in 1..Len(list)
      PROVE  f[n] = IF list[n] \in wanted THEN Append(f[n - 1], list[n]) ELSE f[n - 1]
  <2>1. n - 1 \in 0..Len(list) /\ n \in Nat
    BY <1>2
  <2>2. <<f[n - 1], n>> \in Seq(T) \X Nat /\ f[n] = step[<<f[n - 1], n>>]
    BY <1>3, <2>1 DEF Follows
  <2>. QED BY <2>2
<1>5. KeptBy(list, wanted, f)
  <2>1. ASSUME NEW n \in 0..Len(list)
        PROVE  f[n] = IF n = 0 THEN <<>>
                      ELSE IF list[n] \in wanted THEN Append(f[n - 1], list[n]) ELSE f[n - 1]
    <3>1. n = 0 \/ n \in 1..Len(list)
      BY <1>2
    <3>. HIDE DEF step
    <3>. QED BY <1>3, <1>4, <3>1 DEF Follows
  <2>2. f = [n \in 0..Len(list) |-> f[n]]
    BY <1>3 DEF Follows
  <2>. HIDE DEF step
  <2>. QED BY <2>1, <2>2 DEF KeptBy
<1>6. Among(list, wanted) = (CHOOSE g : KeptBy(list, wanted, g))[Len(list)]
  BY DEF Among, KeptBy
<1>7. KeptBy(list, wanted, CHOOSE g : KeptBy(list, wanted, g))
  <2>. HIDE DEF step
  <2>. QED BY <1>5
<1>. QED BY <1>6, <1>7

LEMMA AmongProperties ==
    ASSUME NEW T, NEW list \in Seq(T), NEW wanted
    PROVE  /\ Among(list, wanted) \in Seq(T)
           /\ ToSet(Among(list, wanted)) = ToSet(list) \cap wanted
<1>1. PICK f : KeptBy(list, wanted, f) /\ Among(list, wanted) = f[Len(list)]
  BY AmongIsKept
<1>2. Len(list) \in Nat /\ DOMAIN list = 1..Len(list)
  OBVIOUS
<1>3. f[0] = <<>>
  BY <1>1, <1>2 DEF KeptBy
<1>4. ASSUME NEW n \in Nat, n + 1 <= Len(list)
      PROVE  f[n + 1] = IF list[n + 1] \in wanted THEN Append(f[n], list[n + 1]) ELSE f[n]
  <2>1. n + 1 \in 0..Len(list) /\ n + 1 # 0 /\ (n + 1) - 1 = n
    BY <1>2, <1>4
  <2>. QED BY <1>1, <2>1 DEF KeptBy
<1>. DEFINE Right(n) ==
        f[n] \in Seq(T) /\ ToSet(f[n]) = {list[i] : i \in 1..n} \cap wanted
            Places == {n \in Nat : n <= Len(list) => Right(n)}
<1>5. 0 \in Places
  <2>1. <<>> \in Seq(T) /\ ToSet(<<>>) = {} /\ {list[i] : i \in 1..0} = {}
    BY DEF ToSet
  <2>. QED BY <1>3, <2>1
<1>6. ASSUME NEW n \in Nat, n \in Places PROVE n + 1 \in Places
  <2>. SUFFICES ASSUME n + 1 <= Len(list) PROVE Right(n + 1)
    OBVIOUS
  <2>1. Right(n) /\ list[n + 1] \in T
    BY <1>2, <1>6
  <2>2. {list[i] : i \in 1..(n + 1)} = {list[i] : i \in 1..n} \cup {list[n + 1]}
    OBVIOUS
  <2>3. CASE list[n + 1] \in wanted
    <3>1. f[n + 1] = Append(f[n], list[n + 1])
      BY <1>4, <2>3
    <3>2. /\ Append(f[n], list[n + 1]) \in Seq(T)
          /\ ToSet(Append(f[n], list[n + 1])) = ToSet(f[n]) \cup {list[n + 1]}
      BY <2>1, ToSetAppend
    <3>. QED BY <2>1, <2>2, <2>3, <3>1, <3>2
  <2>4. CASE list[n + 1] \notin wanted
    <3>1. f[n + 1] = f[n]
      BY <1>4, <2>4
    <3>. QED BY <2>1, <2>2, <2>4, <3>1
  <2>. QED BY <2>3, <2>4
<1>7. Nat \subseteq Places
  <2>. HIDE DEF Places
  <2>. QED BY <1>5, <1>6, Induction
<1>8. Right(Len(list))
  <2>. HIDE DEF Right
  <2>. QED BY <1>2, <1>7
<1>. QED BY <1>1, <1>2, <1>8 DEF ToSet
-----------------------------------------------------------------------------
\* The elements of lists: finitely many; those of two lists joined; of all orders of a set.

LEMMA ToSetFinite ==
    ASSUME NEW T, NEW list \in Seq(T)
    PROVE  IsFiniteSet(ToSet(list)) /\ ToSet(list) \subseteq T
<1>1. Len(list) \in Nat /\ DOMAIN list = 1..Len(list) /\ list \in [1..Len(list) -> T]
  OBVIOUS
<1>2. list \in Surjection(1..Len(list), ToSet(list))
  BY <1>1 DEF Surjection, ToSet
<1>3. IsFiniteSet(1..Len(list))
  BY <1>1, FS_Interval
<1>. QED BY <1>1, <1>2, <1>3, FS_Surjection DEF ToSet

LEMMA ToSetConcat ==
    ASSUME NEW T, NEW r \in Seq(T), NEW s \in Seq(T)
    PROVE  r \o s \in Seq(T) /\ ToSet(r \o s) = ToSet(r) \cup ToSet(s)
<1>1. /\ Len(r) \in Nat /\ DOMAIN r = 1..Len(r) /\ Len(s) \in Nat /\ DOMAIN s = 1..Len(s)
      /\ r \o s \in Seq(T) /\ DOMAIN (r \o s) = 1..(Len(r) + Len(s))
      /\ \A i \in 1..(Len(r) + Len(s)) : (r \o s)[i] = IF i <= Len(r) THEN r[i] ELSE s[i - Len(r)]
  OBVIOUS
<1>2. ASSUME NEW i \in 1..(Len(r) + Len(s)) PROVE (r \o s)[i] \in ToSet(r) \cup ToSet(s)
  <2>1. CASE i <= Len(r)
    BY <1>1, <2>1 DEF ToSet
  <2>2. CASE i > Len(r)
    <3>1. i - Len(r) \in 1..Len(s) /\ (r \o s)[i] = s[i - Len(r)]
      BY <1>1, <2>2
    <3>. QED BY <1>1, <3>1 DEF ToSet
  <2>. QED BY <1>1, <2>1, <2>2
<1>3. ASSUME NEW i \in 1..Len(r) PROVE r[i] \in ToSet(r \o s)
  <2>1. i \in 1..(Len(r) + Len(s)) /\ (r \o s)[i] = r[i]
    BY <1>1
  <2>. QED BY <1>1, <2>1 DEF ToSet
<1>4. ASSUME NEW i \in 1..Len(s) PROVE s[i] \in ToSet(r \o s)
  <2>1. i + Len(r) \in 1..(Len(r) + Len(s)) /\ (r \o s)[i + Len(r)] = s[i]
    BY <1>1
  <2>. QED BY <1>1, <2>1 DEF ToSet
<1>. QED BY <1>1, <1>2, <1>3, <1>4 DEF ToSet

\* SetToSeqs leaves nothing out: one to one between finite sets of a size is onto.
LEMMA OrdersOfSet ==
    ASSUME NEW S, IsFiniteSet(S), NEW order \in SetToSeqs(S)
    PROVE  order \in Seq(S) /\ ToSet(order) = S
<1>. DEFINE D == 1..Cardinality(S)
<1>1. Cardinality(S) \in Nat
  BY FS_CardinalityType
<1>2. order \in [D -> S] /\ \A i, j \in D : i # j => order[i] # order[j]
  BY DEF SetToSeqs
<1>3. IsFiniteSet(D) /\ Cardinality(D) = Cardinality(S)
  BY <1>1, FS_Interval
<1>4. order \in Injection(D, S)
  BY <1>2 DEF Injection, IsInjective
<1>. HIDE DEF D
<1>5. order \in Surjection(D, S)
  BY <1>3, <1>4, FS_Injection
<1>6. ToSet(order) = S
  BY <1>2, <1>5 DEF Surjection, ToSet
<1>. QED BY <1>1, <1>2, <1>6 DEF D

-----------------------------------------------------------------------------
(***************************************************************************)
(* Lists joined into one list are a list of the same things.               *)
(***************************************************************************)
JoinedBy(lists, f) ==
    f = [i \in 1..Len(lists) |-> IF i = 1 THEN lists[i] ELSE f[i - 1] \o lists[i]]

LEMMA SomethingJoins ==
    ASSUME NEW T, NEW lists \in Seq(Seq(T)) PROVE \E f : JoinedBy(lists, f)
<1>. DEFINE step ==
        [pair \in Seq(T) \X Nat |->
            IF pair[2] \in 1..Len(lists) THEN pair[1] \o lists[pair[2]] ELSE pair[1]]
<1>1. Len(lists) \in Nat /\ \A i \in 1..Len(lists) : lists[i] \in Seq(T)
  OBVIOUS
<1>2. ASSUME NEW pair \in Seq(T) \X Nat PROVE step[pair] \in Seq(T)
  <2>1. CASE pair[2] \in 1..Len(lists)
    <3>1. pair[1] \in Seq(T) /\ lists[pair[2]] \in Seq(T)
      BY <1>1, <2>1
    <3>. QED BY <2>1, <3>1
  <2>. QED BY <2>1
<1>3. IsRule(Seq(T), <<>>, step)
  <2>1. step \in [Seq(T) \X Nat -> Seq(T)]
    BY <1>2
  <2>. HIDE DEF step
  <2>. QED BY <2>1 DEF IsRule
<1>4. PICK f : Follows(f, Seq(T), <<>>, step, Len(lists))
  <2>. HIDE DEF step
  <2>. QED BY <1>1, <1>3, Recursion
<1>5. ASSUME NEW n \in 1..Len(lists) PROVE f[n] = f[n - 1] \o lists[n]
  <2>1. n - 1 \in 0..Len(lists) /\ n \in Nat
    BY <1>1
  <2>2. <<f[n - 1], n>> \in Seq(T) \X Nat /\ f[n] = step[<<f[n - 1], n>>]
    BY <1>4, <2>1 DEF Follows
  <2>. QED BY <2>2
<1>. DEFINE g == [i \in 1..Len(lists) |-> f[i]]
<1>6. ASSUME NEW i \in 1..Len(lists)
      PROVE  g[i] = IF i = 1 THEN lists[i] ELSE g[i - 1] \o lists[i]
  <2>. HIDE DEF step
  <2>1. CASE i = 1
    <3>1. f[0] = <<>>
      BY <1>4 DEF Follows
    <3>2. f[i] = f[i - 1] \o lists[i]
      BY <1>5, Zenon
    <3>3. i - 1 = 0 /\ lists[i] \in Seq(T)
      BY <1>1, <2>1
    <3>4. f[i - 1] = <<>>
      BY <3>1, <3>3
    <3>5. <<>> \o lists[i] = lists[i]
      BY <3>3
    <3>. QED BY <2>1, <3>2, <3>4, <3>5
  <2>2. CASE i # 1
    <3>1. i - 1 \in 1..Len(lists)
      BY <1>1, <2>2
    <3>. QED BY <1>5, <2>2, <3>1
  <2>. QED BY <2>1, <2>2
<1>7. JoinedBy(lists, g)
  <2>1. g = [i \in 1..Len(lists) |-> g[i]]
    OBVIOUS
  <2>. HIDE DEF g, step
  <2>. QED BY <1>6, <2>1 DEF JoinedBy
<1>. HIDE DEF g
<1>. QED BY <1>7

LEMMA FlattenType ==
    ASSUME NEW T, NEW lists \in Seq(Seq(T)) PROVE FlattenSeq(lists) \in Seq(T)
<1>1. Len(lists) \in Nat /\ \A i \in 1..Len(lists) : lists[i] \in Seq(T)
  OBVIOUS
<1>2. CASE Len(lists) = 0
  BY <1>2 DEF FlattenSeq
<1>3. CASE Len(lists) # 0
  <2>. DEFINE f == CHOOSE f : JoinedBy(lists, f)
  <2>1. FlattenSeq(lists) = f[Len(lists)]
    BY <1>3 DEF FlattenSeq, JoinedBy
  <2>2. JoinedBy(lists, f)
    BY SomethingJoins
  <2>. HIDE DEF f
  <2>. DEFINE Places == {n \in Nat : n + 1 \in 1..Len(lists) => f[n + 1] \in Seq(T)}
  <2>3. 0 \in Places
    BY <1>1, <1>3, <2>2 DEF JoinedBy
  <2>4. ASSUME NEW i \in 1..Len(lists), i # 1, f[i - 1] \in Seq(T) PROVE f[i] \in Seq(T)
    <3>1. f[i] = f[i - 1] \o lists[i]
      BY <2>2, <2>4 DEF JoinedBy
    <3>. QED BY <1>1, <2>4, <3>1
  <2>5. ASSUME NEW n \in Nat, n \in Places PROVE n + 1 \in Places
    <3>. SUFFICES ASSUME n + 1 + 1 \in 1..Len(lists) PROVE f[n + 1 + 1] \in Seq(T)
      OBVIOUS
    <3>1. n + 1 \in 1..Len(lists) /\ n + 1 + 1 # 1 /\ n + 1 + 1 - 1 = n + 1
      BY <1>1
    <3>. QED BY <2>4, <2>5, <3>1
  <2>6. Nat \subseteq Places
    <3>. HIDE DEF Places
    <3>. QED BY <2>3, <2>5, Induction
  <2>7. Len(lists) - 1 \in Nat /\ Len(lists) - 1 + 1 = Len(lists) /\ Len(lists) \in 1..Len(lists)
    BY <1>1, <1>3
  <2>. QED BY <2>1, <2>6, <2>7
<1>. QED BY <1>2, <1>3

\* The parts of it, from the first one on.
LEMMA FlattenIs ==
    ASSUME NEW T, NEW lists \in Seq(Seq(T))
    PROVE  \E f : /\ f[0] = <<>> /\ FlattenSeq(lists) = f[Len(lists)]
                  /\ \A n \in 0..Len(lists) : f[n] \in Seq(T)
                  /\ \A n \in 1..Len(lists) : f[n] = f[n - 1] \o lists[n]
<1>1. Len(lists) \in Nat /\ \A i \in 1..Len(lists) : lists[i] \in Seq(T)
  OBVIOUS
<1>2. CASE Len(lists) = 0
  <2>. DEFINE f == [n \in 0..0 |-> <<>>]
  <2>1. f[0] = <<>> /\ FlattenSeq(lists) = f[Len(lists)] /\ \A n \in 0..Len(lists) : f[n] \in Seq(T)
    BY <1>2 DEF FlattenSeq
  <2>2. 1..Len(lists) = {}
    BY <1>2
  <2>. HIDE DEF f
  <2>. QED BY <2>1, <2>2
<1>3. CASE Len(lists) # 0
  <2>. DEFINE j == CHOOSE f : JoinedBy(lists, f)
  <2>1. FlattenSeq(lists) = j[Len(lists)]
    BY <1>3 DEF FlattenSeq, JoinedBy
  <2>2. JoinedBy(lists, j)
    BY SomethingJoins
  <2>. HIDE DEF j
  <2>. DEFINE f == [n \in 0..Len(lists) |-> IF n = 0 THEN <<>> ELSE j[n]]
  <2>3. f[0] = <<>> /\ \A n \in 1..Len(lists) : f[n] = j[n]
    BY <1>1
  <2>. HIDE DEF f
  <2>4. ASSUME NEW n \in 1..Len(lists) PROVE f[n] = f[n - 1] \o lists[n]
    <3>0. j[n] = IF n = 1 THEN lists[n] ELSE j[n - 1] \o lists[n]
      BY <2>2 DEF JoinedBy
    <3>1. CASE n = 1
      <4>1. f[n - 1] = <<>> /\ lists[n] \in Seq(T)
        BY <1>1, <2>3, <3>1
      <4>2. <<>> \o lists[n] = lists[n]
        BY <4>1
      <4>. QED BY <2>3, <3>0, <3>1, <4>1, <4>2
    <3>2. CASE n # 1
      <4>1. n - 1 \in 1..Len(lists)
        BY <1>1, <3>2
      <4>. QED BY <2>3, <3>0, <3>2, <4>1
    <3>. QED BY <3>1, <3>2
  <2>. DEFINE Places == {n \in Nat : n <= Len(lists) => f[n] \in Seq(T)}
  <2>5. 0 \in Places
    <3>1. <<>> \in Seq(T)
      OBVIOUS
    <3>. QED BY <2>3, <3>1
  <2>6. ASSUME NEW n \in Nat, n \in Places PROVE n + 1 \in Places
    <3>. SUFFICES ASSUME n + 1 <= Len(lists) PROVE f[n + 1] \in Seq(T)
      OBVIOUS
    <3>1. n + 1 \in 1..Len(lists) /\ (n + 1) - 1 = n
      BY <1>1
    <3>2. f[n] \in Seq(T) /\ lists[n + 1] \in Seq(T) /\ f[n + 1] = f[n] \o lists[n + 1]
      <4>1. n <= Len(lists) /\ lists[n + 1] \in Seq(T)
        BY <1>1, <3>1
      <4>2. f[n + 1] = f[(n + 1) - 1] \o lists[n + 1]
        BY <2>4, <3>1, Zenon
      <4>. QED BY <2>6, <3>1, <4>1, <4>2
    <3>3. f[n] \o lists[n + 1] \in Seq(T)
      BY <3>2
    <3>. QED BY <3>2, <3>3
  <2>7. Nat \subseteq Places
    <3>. HIDE DEF Places
    <3>. QED BY <2>5, <2>6, Induction
  <2>8. \A n \in 0..Len(lists) : f[n] \in Seq(T)
    BY <1>1, <2>7
  <2>9. Len(lists) \in 1..Len(lists)
    BY <1>1, <1>3
  <2>. QED BY <2>1, <2>3, <2>4, <2>8, <2>9
<1>. QED BY <1>2, <1>3

-----------------------------------------------------------------------------
\* How often an element is in a list.

PlacesOf(list, e) == {i \in DOMAIN list : list[i] = e}

PlacesUpTo(list, e, n) == {i \in 1..n : list[i] = e}

LEMMA PlacesFinite ==
    ASSUME NEW T, NEW list \in Seq(T), NEW e
    PROVE  IsFiniteSet(PlacesOf(list, e)) /\ Cardinality(PlacesOf(list, e)) \in Nat
<1>1. DOMAIN list = 1..Len(list) /\ Len(list) \in Int /\ PlacesOf(list, e) \in SUBSET (1..Len(list))
  BY DEF PlacesOf
<1>2. IsFiniteSet(1..Len(list))
  BY <1>1, FS_Interval
<1>. QED BY <1>1, <1>2, FS_Subset, FS_CardinalityType

LEMMA PlacesAppend ==
    ASSUME NEW T, NEW list \in Seq(T), NEW x \in T, NEW e
    PROVE  Cardinality(PlacesOf(Append(list, x), e)) =
                Cardinality(PlacesOf(list, e)) + IF x = e THEN 1 ELSE 0
<1>. DEFINE n == Len(list)
            longer == Append(list, x)
<1>1. /\ DOMAIN list = 1..n /\ n \in Nat /\ DOMAIN longer = 1..(n + 1)
      /\ longer[n + 1] = x /\ \A i \in 1..n : longer[i] = list[i]
  OBVIOUS
<1>2. 1..(n + 1) = 1..n \cup {n + 1} /\ n + 1 \notin 1..n
  BY <1>1
<1>. HIDE DEF longer
<1>3. PlacesOf(longer, e) = PlacesOf(list, e) \cup (IF x = e THEN {n + 1} ELSE {})
  BY <1>1, <1>2 DEF PlacesOf
<1>4. n + 1 \notin PlacesOf(list, e)
  BY <1>1, <1>2 DEF PlacesOf
<1>5. IsFiniteSet(PlacesOf(list, e)) /\ Cardinality(PlacesOf(list, e)) \in Nat
  BY PlacesFinite
<1>6. CASE x = e
  <2>1. PlacesOf(longer, e) = PlacesOf(list, e) \cup {n + 1}
    BY <1>3, <1>6
  <2>. QED BY <1>4, <1>5, <1>6, <2>1, FS_AddElement DEF longer
<1>7. CASE x # e
  <2>1. PlacesOf(longer, e) = PlacesOf(list, e)
    BY <1>3, <1>7
  <2>. QED BY <1>5, <1>7, <2>1 DEF longer
<1>. QED BY <1>6, <1>7

LEMMA PlacesConcat ==
    ASSUME NEW T, NEW r \in Seq(T), NEW s \in Seq(T), NEW e
    PROVE  Cardinality(PlacesOf(r \o s, e)) =
                Cardinality(PlacesOf(r, e)) + Cardinality(PlacesOf(s, e))
<1>. DEFINE both == r \o s
            moved == {i \in PlacesOf(both, e) : i > Len(r)}
            back == [i \in moved |-> i - Len(r)]
<1>1. /\ Len(r) \in Nat /\ Len(s) \in Nat /\ DOMAIN r = 1..Len(r) /\ DOMAIN s = 1..Len(s)
      /\ both \in Seq(T) /\ DOMAIN both = 1..(Len(r) + Len(s))
      /\ \A i \in 1..(Len(r) + Len(s)) : both[i] = IF i <= Len(r) THEN r[i] ELSE s[i - Len(r)]
  OBVIOUS
<1>. HIDE DEF both
<1>2. PlacesOf(both, e) = PlacesOf(r, e) \cup moved /\ PlacesOf(r, e) \cap moved = {}
  BY <1>1 DEF PlacesOf
<1>3. /\ IsFiniteSet(PlacesOf(r, e)) /\ IsFiniteSet(PlacesOf(s, e)) /\ IsFiniteSet(PlacesOf(both, e))
      /\ Cardinality(PlacesOf(r, e)) \in Nat /\ Cardinality(PlacesOf(s, e)) \in Nat
  BY <1>1, PlacesFinite
<1>4. IsFiniteSet(moved)
  BY <1>2, <1>3, FS_Subset
<1>5. back \in Bijection(moved, PlacesOf(s, e))
  <2>1. \A i \in moved : i - Len(r) \in PlacesOf(s, e) /\ i \in Int
    BY <1>1 DEF PlacesOf
  <2>2. \A i \in PlacesOf(s, e) : i + Len(r) \in moved /\ (i + Len(r)) - Len(r) = i
    BY <1>1 DEF PlacesOf
  <2>. HIDE DEF moved
  <2>3. back \in [moved -> PlacesOf(s, e)]
    BY <2>1
  <2>4. \A i, j \in moved : back[i] = back[j] => i = j
    BY <1>1, <2>1
  <2>5. \A i \in PlacesOf(s, e) : \E j \in moved : back[j] = i
    BY <2>2
  <2>. HIDE DEF back
  <2>. QED BY <2>3, <2>4, <2>5 DEF Bijection, Injection, Surjection, IsInjective
<1>6. Cardinality(PlacesOf(s, e)) = Cardinality(moved)
  BY <1>4, <1>5, FS_Bijection DEF ExistsBijection
<1>7. Cardinality(PlacesOf(r, e) \cap moved) = 0
  BY <1>2, FS_EmptySet
<1>8. Cardinality(PlacesOf(both, e)) =
        Cardinality(PlacesOf(r, e)) + Cardinality(moved) - Cardinality(PlacesOf(r, e) \cap moved)
  BY <1>2, <1>3, <1>4, FS_Union
<1>. HIDE DEF moved
<1>. QED BY <1>3, <1>6, <1>7, <1>8 DEF both

\* What is kept of a list is kept as often as it is there.
LEMMA PlacesAmong ==
    ASSUME NEW T, NEW list \in Seq(T), NEW wanted, NEW e
    PROVE  Cardinality(PlacesOf(Among(list, wanted), e)) =
                IF e \in wanted THEN Cardinality(PlacesOf(list, e)) ELSE 0
<1>1. PICK f : KeptBy(list, wanted, f) /\ Among(list, wanted) = f[Len(list)]
  BY AmongIsKept
<1>2. /\ Len(list) \in Nat /\ DOMAIN list = 1..Len(list)
      /\ \A i \in 1..Len(list) : list[i] \in T
  OBVIOUS
<1>3. f[0] = <<>>
  BY <1>1, <1>2 DEF KeptBy
<1>4. ASSUME NEW n \in Nat, n + 1 <= Len(list)
      PROVE  f[n + 1] = IF list[n + 1] \in wanted THEN Append(f[n], list[n + 1]) ELSE f[n]
  <2>1. n + 1 \in 0..Len(list) /\ n + 1 # 0 /\ (n + 1) - 1 = n
    BY <1>2, <1>4
  <2>. QED BY <1>1, <2>1 DEF KeptBy
<1>. DEFINE Good == {n \in Nat : n <= Len(list) =>
                        /\ f[n] \in Seq(T)
                        /\ IsFiniteSet(PlacesUpTo(list, e, n))
                        /\ Cardinality(PlacesUpTo(list, e, n)) \in Nat
                        /\ Cardinality(PlacesOf(f[n], e)) =
                             IF e \in wanted THEN Cardinality(PlacesUpTo(list, e, n)) ELSE 0}
<1>5. 0 \in Good
  <2>1. PlacesUpTo(list, e, 0) = {} /\ PlacesOf(<<>>, e) = {} /\ <<>> \in Seq(T) /\ f[0] = <<>>
    BY <1>3 DEF PlacesOf, PlacesUpTo
  <2>2. IsFiniteSet({}) /\ Cardinality({}) = 0
    BY FS_EmptySet
  <2>3. /\ IsFiniteSet(PlacesUpTo(list, e, 0)) /\ Cardinality(PlacesUpTo(list, e, 0)) = 0
        /\ Cardinality(PlacesOf(f[0], e)) = 0
    BY <2>1, <2>2, Zenon
  <2>4. f[0] \in Seq(T)
    BY <2>1, Zenon
  <2>. QED BY <2>3, <2>4
<1>6. ASSUME NEW n \in Nat, n \in Good PROVE n + 1 \in Good
  <2>. SUFFICES ASSUME n + 1 <= Len(list)
                PROVE  /\ f[n + 1] \in Seq(T)
                       /\ IsFiniteSet(PlacesUpTo(list, e, n + 1))
                       /\ Cardinality(PlacesUpTo(list, e, n + 1)) \in Nat
                       /\ Cardinality(PlacesOf(f[n + 1], e)) =
                            IF e \in wanted THEN Cardinality(PlacesUpTo(list, e, n + 1)) ELSE 0
    OBVIOUS
  <2>1. /\ f[n] \in Seq(T)
        /\ IsFiniteSet(PlacesUpTo(list, e, n)) /\ Cardinality(PlacesUpTo(list, e, n)) \in Nat
        /\ Cardinality(PlacesOf(f[n], e)) =
                IF e \in wanted THEN Cardinality(PlacesUpTo(list, e, n)) ELSE 0
        /\ list[n + 1] \in T
    BY <1>2, <1>6
  <2>2. 1..(n + 1) = 1..n \cup {n + 1} /\ n + 1 \notin PlacesUpTo(list, e, n)
    BY DEF PlacesUpTo
  <2>3. PlacesUpTo(list, e, n + 1) =
            IF list[n + 1] = e THEN PlacesUpTo(list, e, n) \cup {n + 1} ELSE PlacesUpTo(list, e, n)
    BY <2>2 DEF PlacesUpTo
  <2>4. /\ IsFiniteSet(PlacesUpTo(list, e, n + 1))
        /\ Cardinality(PlacesUpTo(list, e, n + 1)) \in Nat
        /\ Cardinality(PlacesUpTo(list, e, n + 1)) =
                Cardinality(PlacesUpTo(list, e, n)) + IF list[n + 1] = e THEN 1 ELSE 0
    <3>1. CASE list[n + 1] = e
      <4>1. PlacesUpTo(list, e, n + 1) = PlacesUpTo(list, e, n) \cup {n + 1}
        BY <2>3, <3>1
      <4>2. /\ IsFiniteSet(PlacesUpTo(list, e, n) \cup {n + 1})
            /\ Cardinality(PlacesUpTo(list, e, n) \cup {n + 1}) = Cardinality(PlacesUpTo(list, e, n)) + 1
        BY <2>1, <2>2, FS_AddElement
      <4>3. /\ IsFiniteSet(PlacesUpTo(list, e, n + 1))
            /\ Cardinality(PlacesUpTo(list, e, n + 1)) = Cardinality(PlacesUpTo(list, e, n)) + 1
        BY <4>1, <4>2, Zenon
      <4>. QED BY <2>1, <3>1, <4>3
    <3>2. CASE list[n + 1] # e
      BY <2>1, <2>3, <3>2
    <3>. QED BY <3>1, <3>2
  <2>5. CASE list[n + 1] \in wanted
    <3>1. f[n + 1] = Append(f[n], list[n + 1])
      BY <1>4, <2>5
    <3>2. f[n + 1] \in Seq(T)
      BY <2>1, <3>1, ToSetAppend
    <3>3. Cardinality(PlacesOf(f[n + 1], e)) =
            Cardinality(PlacesOf(f[n], e)) + IF list[n + 1] = e THEN 1 ELSE 0
      BY <2>1, <3>1, PlacesAppend
    <3>. QED BY <2>1, <2>4, <2>5, <3>2, <3>3
  <2>6. CASE list[n + 1] \notin wanted
    <3>1. f[n + 1] = f[n]
      BY <1>4, <2>6
    <3>. QED BY <2>1, <2>4, <2>6, <3>1
  <2>. QED BY <2>5, <2>6
<1>7. Len(list) \in Good
  <2>. HIDE DEF Good
  <2>. QED BY <1>2, <1>5, <1>6, Induction
<1>8. PlacesUpTo(list, e, Len(list)) = PlacesOf(list, e)
  BY <1>2 DEF PlacesOf, PlacesUpTo
<1>9. Cardinality(PlacesOf(f[Len(list)], e)) =
            IF e \in wanted THEN Cardinality(PlacesUpTo(list, e, Len(list))) ELSE 0
  BY <1>2, <1>7
<1>. QED BY <1>1, <1>8, <1>9

=============================================================================
