--------------------------- MODULE TenantsProofs ---------------------------
(***************************************************************************)
(* What holds of Tenants for any tenants, names, categories and clears.    *)
(* Clearing one tenant touches no other tenant's objects, by the argument  *)
(* the slug schema makes: a slug has no slash in it, so the first slash of *)
(* a key ends the name of its tenant.  And it forgets none of its own,     *)
(* because the listing is in a total order, so that the last key of a page *)
(* tells what was listed from what is to come.                             *)
(***************************************************************************)
EXTENDS Tenants, SequenceTheorems, FiniteSetTheorems, TLAPS

\* What a clear is about to delete was listed under its tenant's prefix.
PagesOwn ==
    /\ tenant \in [Clears -> Slugs]
    /\ page \in [Clears -> SUBSET Keys]
    /\ \A c \in Clears : page[c] \subseteq Listed[tenant[c]]

-----------------------------------------------------------------------------
(* Keys and prefixes.                                                      *)

\* The first segments of keys.
Firsts == Slugs \cup Categories

LEMMA SlugTypes ==
    ASSUME NEW slug \in Firsts
    PROVE  /\ slug \in Seq(Nat)
           /\ \A i \in 1..Len(slug) : slug[i] # Slash
  <1>1. slug \in Seq(Nat \ {Slash})
    BY SlugsAssumption, CategoriesAssumption DEF Firsts
  <1>2. \A i \in 1..Len(slug) : slug[i] \in Nat \ {Slash}
    BY <1>1
  <1> QED
    BY <1>1, <1>2

\* The first Len(slug) + 1 places of a composed key: the slug and a slash.
LEMMA ComposedKey ==
    ASSUME NEW slug \in Firsts, NEW name \in Names
    PROVE  /\ Compose(slug, name) \in Seq(Nat)
           /\ Len(Compose(slug, name)) > Len(slug)
           /\ \A i \in 1..Len(slug) : Compose(slug, name)[i] = slug[i]
           /\ Compose(slug, name)[Len(slug) + 1] = Slash
  <1>1. slug \in Seq(Nat) /\ name \in Seq(Nat) /\ <<Slash>> \in Seq(Nat)
    BY SlugTypes, NamesAssumption DEF Slash
  <1>2. slug \o <<Slash>> \in Seq(Nat) /\ Len(slug \o <<Slash>>) = Len(slug) + 1
    BY <1>1
  <1>3. /\ \A i \in 1..Len(slug) : (slug \o <<Slash>>)[i] = slug[i]
        /\ (slug \o <<Slash>>)[Len(slug) + 1] = Slash
    BY <1>1
  <1>4. /\ (slug \o <<Slash>>) \o name \in Seq(Nat)
        /\ Len((slug \o <<Slash>>) \o name) = Len(slug) + 1 + Len(name)
        /\ \A i \in 1..(Len(slug) + 1) :
             ((slug \o <<Slash>>) \o name)[i] = (slug \o <<Slash>>)[i]
    BY <1>1, <1>2
  <1> QED
    BY <1>1, <1>3, <1>4 DEF Compose

LEMMA PrefixPlaces ==
    ASSUME NEW slug \in Firsts, NEW k \in Seq(Nat),
           IsPrefix(TenantPrefix(slug), k)
    PROVE  /\ Len(k) > Len(slug)
           /\ \A i \in 1..Len(slug) : k[i] = slug[i]
           /\ k[Len(slug) + 1] = Slash
  <1> DEFINE p == slug \o <<Slash>>
  <1>1. slug \in Seq(Nat) /\ <<Slash>> \in Seq(Nat)
    BY SlugTypes DEF Slash
  <1>2. /\ p \in Seq(Nat)
        /\ Len(p) = Len(slug) + 1
        /\ \A i \in 1..Len(slug) : p[i] = slug[i]
        /\ p[Len(slug) + 1] = Slash
    BY <1>1
  <1>3. Len(p) <= Len(k) /\ SubSeq(p, 1, Len(p)) = SubSeq(k, 1, Len(p))
    BY DEF IsPrefix, TenantPrefix
  <1>4. \A i \in 1..Len(p) : p[i] = k[i]
    <2> HIDE DEF p
    <2> TAKE i \in 1..Len(p)
    <2>1. SubSeq(p, 1, Len(p))[i] = p[i]
      BY <1>2
    <2>2. SubSeq(k, 1, Len(p))[i] = k[i]
      BY <1>2, <1>3
    <2> QED
      BY <2>1, <2>2, <1>3
  <1> QED
    <2> HIDE DEF p
    <2> QED
      BY <1>1, <1>2, <1>3, <1>4

\* A key that the prefix of one tenant lists is not composed for another.
LEMMA PrefixNamesTenant ==
    ASSUME NEW slug \in Firsts, NEW other \in Firsts, NEW name \in Names,
           IsPrefix(TenantPrefix(slug), Compose(other, name))
    PROVE  slug = other
  <1> DEFINE k == Compose(other, name)
  <1>1. /\ k \in Seq(Nat)
        /\ \A i \in 1..Len(other) : k[i] = other[i]
        /\ k[Len(other) + 1] = Slash
    BY ComposedKey
  <1>2. /\ \A i \in 1..Len(slug) : k[i] = slug[i]
        /\ k[Len(slug) + 1] = Slash
    BY <1>1, PrefixPlaces
  <1>3. /\ slug \in Seq(Nat) /\ \A i \in 1..Len(slug) : slug[i] # Slash
        /\ other \in Seq(Nat) /\ \A i \in 1..Len(other) : other[i] # Slash
    BY SlugTypes
  <1> HIDE DEF k
  <1>4. Len(slug) \in Nat /\ Len(other) \in Nat
    BY <1>3
  <1>5. Len(slug) = Len(other)
    <2>1. ASSUME Len(slug) < Len(other) PROVE FALSE
      <3>1. Len(slug) + 1 \in 1..Len(other)
        BY <1>4, <2>1
      <3>2. other[Len(slug) + 1] = Slash
        BY <1>1, <1>2, <3>1
      <3> QED
        BY <1>3, <3>1, <3>2
    <2>2. ASSUME Len(other) < Len(slug) PROVE FALSE
      <3>1. Len(other) + 1 \in 1..Len(slug)
        BY <1>4, <2>2
      <3>2. slug[Len(other) + 1] = Slash
        BY <1>1, <1>2, <3>1
      <3> QED
        BY <1>3, <3>1, <3>2
    <2> QED
      BY <2>1, <2>2, <1>4
  <1>6. \A i \in 1..Len(slug) : slug[i] = other[i]
    BY <1>1, <1>2, <1>5
  <1> QED
    BY <1>3, <1>5, <1>6, SeqEqual

LEMMA ListedOwn ==
    ASSUME NEW slug \in Slugs, NEW other \in Firsts,
           NEW k \in Listed[slug], k \in KeysOf(other)
    PROVE  slug = other
  <1>1. PICK name \in Names : k = Compose(other, name)
    BY DEF KeysOf
  <1>2. IsPrefix(TenantPrefix(slug), k)
    BY DEF Listed
  <1> QED
    BY <1>1, <1>2, PrefixNamesTenant DEF Firsts

-----------------------------------------------------------------------------
(* The order of the listing.                                               *)

\* A set of numbers that is not empty has a least one.
LEMMA LeastNumber ==
    ASSUME NEW D \in SUBSET Nat, D # {}
    PROVE  \E i \in D : \A j \in D : i <= j
  <1>1. PICK i \in D : \A j \in D : <<j, i>> \notin OpToRel(<, Nat)
    BY NatLessThanWellFounded, WFMin
  <1>2. \A j \in D : ~(j < i)
    BY <1>1 DEF OpToRel
  <1> QED
    BY <1>2

\* What it is to be a prefix, place by place.
LEMMA PrefixPoints ==
    ASSUME NEW s \in Seq(Nat), NEW t \in Seq(Nat)
    PROVE  IsPrefix(s, t) <=>
               Len(s) <= Len(t) /\ \A i \in 1..Len(s) : s[i] = t[i]
  <1>1. ASSUME Len(s) <= Len(t)
        PROVE  /\ SubSeq(s, 1, Len(s)) \in Seq(Nat)
               /\ Len(SubSeq(s, 1, Len(s))) = Len(s)
               /\ \A i \in 1..Len(s) : SubSeq(s, 1, Len(s))[i] = s[i]
               /\ SubSeq(t, 1, Len(s)) \in Seq(Nat)
               /\ Len(SubSeq(t, 1, Len(s))) = Len(s)
               /\ \A i \in 1..Len(s) : SubSeq(t, 1, Len(s))[i] = t[i]
    BY <1>1
  <1>2. ASSUME IsPrefix(s, t)
        PROVE  Len(s) <= Len(t) /\ \A i \in 1..Len(s) : s[i] = t[i]
    BY <1>1, <1>2 DEF IsPrefix
  <1>3. ASSUME Len(s) <= Len(t), \A i \in 1..Len(s) : s[i] = t[i]
        PROVE  IsPrefix(s, t)
    <2>1. SubSeq(s, 1, Len(s)) = SubSeq(t, 1, Len(s))
      BY <1>1, <1>3, SeqEqual
    <2> QED
      BY <1>3, <2>1 DEF IsPrefix
  <1> QED
    BY <1>2, <1>3

\* The order of the listing, place by place.
LEMMA BeforePoints ==
    ASSUME NEW s \in Seq(Nat), NEW t \in Seq(Nat)
    PROVE  Before(s, t) <=>
             \/ Len(s) < Len(t) /\ \A i \in 1..Len(s) : s[i] = t[i]
             \/ \E i \in Nat \ {0} :
                  /\ i <= Len(s) /\ i <= Len(t) /\ s[i] < t[i]
                  /\ \A j \in 1..(i - 1) : s[j] = t[j]
  <1>1. IsStrictPrefix(s, t) <=>
           Len(s) < Len(t) /\ \A i \in 1..Len(s) : s[i] = t[i]
    <2>1. Len(s) = Len(t) /\ (\A i \in 1..Len(s) : s[i] = t[i]) => s = t
      BY SeqEqual
    <2>2. Len(s) \in Nat /\ Len(t) \in Nat
      OBVIOUS
    <2> QED
      BY <2>1, <2>2, PrefixPoints DEF IsStrictPrefix
  <1>2. \A i : i \in DOMAIN s \cap DOMAIN t <=>
                   i \in Nat \ {0} /\ i <= Len(s) /\ i <= Len(t)
    BY Len(s) \in Nat, Len(t) \in Nat
  <1> QED
    BY <1>1, <1>2 DEF Before

LEMMA BeforeIrreflexive ==
    ASSUME NEW s \in Seq(Nat) PROVE ~Before(s, s)
  <1>1. Len(s) \in Nat /\ \A i \in 1..Len(s) : s[i] \in Nat
    OBVIOUS
  <1> QED
    BY <1>1, BeforePoints

LEMMA BeforeTransitive ==
    ASSUME NEW s \in Seq(Nat), NEW t \in Seq(Nat), NEW u \in Seq(Nat),
           Before(s, t), Before(t, u)
    PROVE  Before(s, u)
  <1> DEFINE Parts(a, b, i) ==
               /\ i <= Len(a) /\ i <= Len(b) /\ a[i] < b[i]
               /\ \A j \in 1..(i - 1) : a[j] = b[j]
             Extends(a, b) ==
               Len(a) < Len(b) /\ \A i \in 1..Len(a) : a[i] = b[i]
  <1>1. /\ Len(s) \in Nat /\ Len(t) \in Nat /\ Len(u) \in Nat
        /\ \A i \in 1..Len(s) : s[i] \in Nat
        /\ \A i \in 1..Len(t) : t[i] \in Nat
        /\ \A i \in 1..Len(u) : u[i] \in Nat
    OBVIOUS
  <1>2. Extends(s, t) \/ \E i \in Nat \ {0} : Parts(s, t, i)
    BY BeforePoints
  <1>3. Extends(t, u) \/ \E i \in Nat \ {0} : Parts(t, u, i)
    BY BeforePoints
  <1>4. SUFFICES Extends(s, u) \/ \E i \in Nat \ {0} : Parts(s, u, i)
    BY BeforePoints
  <1>5. CASE Extends(s, t) /\ Extends(t, u)
    BY <1>1, <1>5
  <1>6. ASSUME Extends(s, t), NEW i \in Nat \ {0}, Parts(t, u, i)
        PROVE  Extends(s, u) \/ Parts(s, u, i)
    <2>1. CASE i <= Len(s)
      <3>1. s[i] = t[i] /\ \A j \in 1..(i - 1) : s[j] = t[j]
        BY <1>1, <1>6, <2>1
      <3> QED
        BY <1>6, <2>1, <3>1
    <2>2. CASE Len(s) < i
      <3>1. Len(s) < Len(u) /\ \A j \in 1..Len(s) : t[j] = u[j]
        BY <1>1, <1>6, <2>2
      <3> QED
        BY <1>6, <3>1
    <2> QED
      BY <1>1, <2>1, <2>2
  <1>7. ASSUME NEW i \in Nat \ {0}, Parts(s, t, i), Extends(t, u)
        PROVE  Parts(s, u, i)
    BY <1>1, <1>7
  <1>8. ASSUME NEW i \in Nat \ {0}, Parts(s, t, i),
               NEW j \in Nat \ {0}, Parts(t, u, j)
        PROVE  \E k \in Nat \ {0} : Parts(s, u, k)
    <2>1. CASE i <= j
      <3>1. Parts(s, u, i)
        <4>1. i = j \/ i \in 1..(j - 1)
          BY <2>1
        <4>2. /\ i <= Len(s) /\ i <= Len(t) /\ j <= Len(t) /\ j <= Len(u)
              /\ s[i] < t[i] /\ t[j] < u[j]
              /\ \A k \in 1..(i - 1) : s[k] = t[k]
              /\ \A k \in 1..(j - 1) : t[k] = u[k]
          BY <1>8
        <4>3. i <= Len(u) /\ 1..(i - 1) \subseteq 1..(j - 1)
          <5>1. Len(u) \in Nat /\ j <= Len(u)
            BY <1>1, <4>2
          <5>2. i <= Len(u)
            BY <2>1, <5>1
          <5>3. 1..(i - 1) \subseteq 1..(j - 1)
            BY <2>1
          <5> QED
            BY <5>2, <5>3
        <4>4. s[i] \in Nat /\ t[i] \in Nat /\ u[i] \in Nat
          BY <1>1, <4>2, <4>3
        <4>5. s[i] < u[i]
          <5>1. t[i] = u[i] \/ t[i] < u[i]
            BY <4>1, <4>2
          <5>2. s[i] < t[i]
            BY <4>2
          <5> QED
            BY <4>4, <5>1, <5>2
        <4> QED
          BY <4>2, <4>3, <4>5
      <3> QED
        BY <3>1
    <2>2. CASE j < i
      <3>1. Parts(s, u, j)
        <4>1. j \in 1..(i - 1)
          BY <2>2
        <4>2. /\ i <= Len(s) /\ j <= Len(u) /\ t[j] < u[j]
              /\ \A k \in 1..(i - 1) : s[k] = t[k]
              /\ \A k \in 1..(j - 1) : t[k] = u[k]
          BY <1>8
        <4>3. j <= Len(s) /\ \A k \in 1..(j - 1) : k \in 1..(i - 1)
          BY <1>1, <2>2, <4>2
        <4> QED
          BY <4>1, <4>2, <4>3
      <3> QED
        BY <3>1
    <2> QED
      BY <2>1, <2>2
  <1> HIDE DEF Parts, Extends
  <1> QED
    BY <1>2, <1>3, <1>5, <1>6, <1>7, <1>8

LEMMA BeforeTotal ==
    ASSUME NEW s \in Seq(Nat), NEW t \in Seq(Nat), s # t
    PROVE  Before(s, t) \/ Before(t, s)
  <1>1. /\ Len(s) \in Nat /\ Len(t) \in Nat
        /\ \A i \in 1..Len(s) : s[i] \in Nat
        /\ \A i \in 1..Len(t) : t[i] \in Nat
    OBVIOUS
  <1> DEFINE D == {i \in Nat : 1 <= i /\ i <= Len(s) /\ i <= Len(t)
                               /\ s[i] # t[i]}
  <1>2. CASE D = {}
    <2>1. \A i \in Nat : 1 <= i /\ i <= Len(s) /\ i <= Len(t) => s[i] = t[i]
      BY <1>2
    <2>2. Len(s) # Len(t)
      BY <1>1, <2>1, SeqEqual
    <2>3. CASE Len(s) < Len(t)
      BY <1>1, <2>1, <2>3, BeforePoints
    <2>4. CASE Len(t) < Len(s)
      BY <1>1, <2>1, <2>4, BeforePoints
    <2> QED
      BY <1>1, <2>2, <2>3, <2>4
  <1>3. CASE D # {}
    <2>1. PICK i \in D : \A j \in D : i <= j
      BY <1>3, LeastNumber
    <2>2. /\ i \in Nat \ {0} /\ i <= Len(s) /\ i <= Len(t) /\ s[i] # t[i]
          /\ \A j \in 1..(i - 1) : s[j] = t[j] /\ t[j] = s[j]
      <3>1. i \in Nat \ {0} /\ i <= Len(s) /\ i <= Len(t) /\ s[i] # t[i]
        BY <2>1
      <3>2. ASSUME NEW j \in 1..(i - 1)
            PROVE  s[j] = t[j]
        <4>1. j \in Nat /\ 1 <= j /\ j < i /\ j <= Len(s) /\ j <= Len(t)
          BY <1>1, <3>1
        <4> QED
          BY <2>1, <3>1, <4>1
      <3> QED
        BY <3>1, <3>2
    <2>3. s[i] < t[i] \/ t[i] < s[i]
      BY <1>1, <2>2
    <2> HIDE DEF D
    <2> QED
      BY <2>2, <2>3, BeforePoints
  <1> QED
    BY <1>2, <1>3

\* What is after what, among keys.
LEMMA KeyOrder ==
    /\ Keys \subseteq After[<<>>]
    /\ \A a \in Keys \cup {<<>>} : After[a] \subseteq Keys
    /\ \A a \in Keys : a \notin After[a]
    /\ \A a \in Keys \cup {<<>>}, b, c \in Keys :
         b \in After[a] /\ c \in After[b] => c \in After[a]
    /\ \A a, b \in Keys : a # b => a \in After[b] \/ b \in After[a]
  <1>1. ASSUME NEW k \in Keys
        PROVE  k \in Seq(Nat) /\ k # <<>>
    <2>1. PICK first \in Firsts, name \in Names : k = Compose(first, name)
      BY DEF Keys, KeysOf, Firsts
    <2>2. Len(k) > Len(first) /\ k \in Seq(Nat) /\ Len(first) \in Nat
      BY <2>1, ComposedKey, SlugTypes
    <2> QED
      BY <2>2
  <1>2. \A a \in Keys \cup {<<>>}, b \in Keys : b \in After[a] <=> Before(a, b)
    BY DEF After
  <1>3. Keys \cup {<<>>} \subseteq Seq(Nat)
    BY <1>1, EmptySeq
  <1>4. ASSUME NEW k \in Keys
        PROVE  Before(<<>>, k)
    <2>1. PICK e : e = <<>> /\ e \in Seq(Nat) /\ Len(e) = 0
      BY EmptySeq
    <2>2. k \in Seq(Nat) /\ Len(k) \in Nat \ {0}
      BY <1>1, EmptySeq
    <2>3. Len(e) < Len(k) /\ \A i \in 1..Len(e) : e[i] = k[i]
      BY <2>1, <2>2
    <2>4. Before(e, k)
      BY <2>1, <2>2, <2>3, BeforePoints
    <2> QED
      BY <2>1, <2>4
  <1>5. \A a \in Keys \cup {<<>>} : After[a] \subseteq Keys
    BY DEF After
  <1>6. \A a \in Keys : a \notin After[a]
    BY <1>2, <1>3, BeforeIrreflexive
  <1>7. \A a \in Keys \cup {<<>>}, b, c \in Keys :
          b \in After[a] /\ c \in After[b] => c \in After[a]
    BY <1>2, <1>3, BeforeTransitive
  <1>8. \A a, b \in Keys : a # b => a \in After[b] \/ b \in After[a]
    BY <1>2, <1>3, BeforeTotal
  <1> QED
    BY <1>2, <1>4, <1>5, <1>6, <1>7, <1>8

\* A finite set of keys has a last one and a first one.
LEMMA LastOne ==
    ASSUME NEW S \in SUBSET Keys, IsFiniteSet(S), S # {}
    PROVE  LastKey(S) \in S /\ S \cap After[LastKey(S)] = {}
  <1> DEFINE Later(k) == S \cap After[k]
             F == {Later(k) : k \in S}
  <1>1. F \subseteq FiniteSubsetsOf(Keys) /\ F # {}
    <2>1. \A k \in S : Later(k) \in SUBSET S /\ IsFiniteSet(Later(k))
      BY FS_Subset
    <2> QED
      BY <2>1 DEF FiniteSubsetsOf
  <1>2. PICK x \in F : \A y \in F : <<y, x>> \notin StrictSubsetOrdering(Keys)
    <2> HIDE DEF F
    <2> QED
      BY <1>1, WFMin, FS_StrictSubsetOrderingWellFounded
  <1>3. PICK k \in S : x = Later(k)
    BY <1>2
  <1>4. ASSUME NEW l \in Later(k)
        PROVE  FALSE
    <2>1. Later(l) \subseteq Later(k) /\ l \notin Later(l)
      BY <1>4, KeyOrder
    <2>2. Later(l) # Later(k)
      BY <1>4, <2>1
    <2>3. <<Later(l), Later(k)>> \in StrictSubsetOrdering(Keys)
      BY <2>1, <2>2 DEF StrictSubsetOrdering
    <2> QED
      BY <1>2, <1>3, <2>3
  <1>5. k \in S /\ S \cap After[k] = {}
    BY <1>3, <1>4
  <1> QED
    BY <1>5 DEF LastKey

LEMMA FirstOne ==
    ASSUME NEW S \in SUBSET Keys, IsFiniteSet(S), S # {}
    PROVE  \E k \in S : \A j \in S : k \notin After[j]
  <1> DEFINE Sooner(k) == {j \in S : k \in After[j]}
             F == {Sooner(k) : k \in S}
  <1>1. F \subseteq FiniteSubsetsOf(Keys) /\ F # {}
    <2>1. \A k \in S : Sooner(k) \in SUBSET S /\ IsFiniteSet(Sooner(k))
      BY FS_Subset
    <2> QED
      BY <2>1 DEF FiniteSubsetsOf
  <1>2. PICK x \in F : \A y \in F : <<y, x>> \notin StrictSubsetOrdering(Keys)
    <2> HIDE DEF F
    <2> QED
      BY <1>1, WFMin, FS_StrictSubsetOrderingWellFounded
  <1>3. PICK k \in S : x = Sooner(k)
    BY <1>2
  <1>4. ASSUME NEW l \in Sooner(k)
        PROVE  FALSE
    <2>1. Sooner(l) \subseteq Sooner(k) /\ l \notin Sooner(l)
      BY <1>4, KeyOrder
    <2>2. Sooner(l) # Sooner(k)
      BY <1>4, <2>1
    <2>3. <<Sooner(l), Sooner(k)>> \in StrictSubsetOrdering(Keys)
      BY <2>1, <2>2 DEF StrictSubsetOrdering
    <2> QED
      BY <1>2, <1>3, <2>3
  <1> QED
    BY <1>3, <1>4

\* A page is a first part of what remains: its last key tells it from the rest.
LEMMA PageIsFirstPart ==
    ASSUME NEW S \in SUBSET Keys, IsFiniteSet(S), S # {},
           NEW size \in Nat \ {0}
    PROVE  LET first == FirstPage(S, size)
               last == LastKey(first) IN
           /\ first \subseteq S /\ IsFiniteSet(first)
           /\ last \in first /\ first \cap After[last] = {}
           /\ S \ first \subseteq After[last]
  <1> DEFINE first == FirstPage(S, size)
             last == LastKey(first)
             Sooner(k) == {j \in S : k \in After[j]}
  <1>1. \A k \in S : /\ k \in first <=> Cardinality(Sooner(k)) < size
                     /\ IsFiniteSet(Sooner(k))
                     /\ Cardinality(Sooner(k)) \in Nat
    <2>1. \A k : Sooner(k) \subseteq S
      OBVIOUS
    <2> QED
      BY <2>1, FS_Subset, FS_CardinalityType DEF FirstPage
  <1>2. first \subseteq S /\ IsFiniteSet(first)
    BY FS_Subset DEF FirstPage
  <1>3. first # {}
    <2>1. PICK k \in S : Sooner(k) = {}
      BY FirstOne
    <2> QED
      BY <1>1, <2>1, FS_EmptySet
  <1>4. last \in first /\ first \cap After[last] = {}
    BY <1>2, <1>3, LastOne
  <1>5. ASSUME NEW k \in S \ first
        PROVE  k \in After[last]
    <2>1. last \in S /\ k # last
      BY <1>2, <1>4
    <2>2. ASSUME last \in After[k]
          PROVE  FALSE
      <3>1. Sooner(k) \subseteq Sooner(last)
        BY <2>1, <2>2, KeyOrder
      <3>2. Cardinality(Sooner(k)) <= Cardinality(Sooner(last))
        BY <1>1, <2>1, <3>1, FS_Subset
      <3>3. Cardinality(Sooner(last)) < size
        BY <1>1, <1>4, <2>1
      <3>4. k \in S /\ k \notin first
        BY <1>5
      <3>5. /\ Cardinality(Sooner(k)) \in Nat
            /\ Cardinality(Sooner(last)) \in Nat
            /\ ~(Cardinality(Sooner(k)) < size)
        BY <1>1, <2>1, <3>4
      <3> HIDE DEF first, last, Sooner
      <3> QED
        BY <3>2, <3>3, <3>5
    <2> QED
      BY <2>1, <2>2, KeyOrder
  <1> QED
    BY <1>2, <1>4, <1>5

-----------------------------------------------------------------------------
(* The invariant.                                                          *)

LEMMA PagesOwnAtStart == Init => PagesOwn
  BY DEF Init, PagesOwn

LEMMA PagesOwnKept == PagesOwn /\ [Next]_vars => PagesOwn'
  <1> SUFFICES ASSUME PagesOwn, [Next]_vars
               PROVE  PagesOwn'
    OBVIOUS
  <1>1. ASSUME NEW c \in Clears, NEW size \in 1..PageSize, List(c, size)
        PROVE  PagesOwn'
    <2> DEFINE keys == Remaining(tenant[c], cursor[c])
               first == FirstPage(keys, size)
    <2>1. page' = [page EXCEPT ![c] = first] /\ UNCHANGED tenant
      BY <1>1 DEF List
    <2>2. tenant[c] \in Slugs
      BY DEF PagesOwn
    <2>3. first \subseteq Listed[tenant[c]] /\ Listed[tenant[c]] \subseteq Keys
      BY <2>2 DEF FirstPage, Remaining, Listed
    <2> HIDE DEF first, keys
    <2> QED
      BY <2>1, <2>3 DEF PagesOwn
  <1>2. ASSUME UNCHANGED <<tenant, page>>
        PROVE  PagesOwn'
    BY <1>2 DEF PagesOwn
  <1>3. ASSUME NEW slug \in Slugs, NEW name \in Names, Upload(slug, name)
        PROVE  PagesOwn'
    BY <1>2, <1>3 DEF Upload, Store, clearVars
  <1>4. ASSUME NEW category \in Categories, NEW name \in Names,
               UploadElsewhere(category, name)
        PROVE  PagesOwn'
    BY <1>2, <1>4 DEF UploadElsewhere, Store, clearVars
  <1>5. ASSUME NEW c \in Clears, Start(c)
        PROVE  PagesOwn'
    BY <1>2, <1>5 DEF Start
  <1>6. ASSUME NEW c \in Clears, page' = [page EXCEPT ![c] = {}],
               UNCHANGED tenant
        PROVE  PagesOwn'
    BY <1>6 DEF PagesOwn
  <1>7. ASSUME NEW c \in Clears, NEW failing \in SUBSET page[c],
               DeletePage(c, failing)
        PROVE  PagesOwn'
    BY <1>6, <1>7 DEF DeletePage
  <1>8. CASE UNCHANGED vars
    BY <1>2, <1>8 DEF vars, clearVars
  <1>9. ASSUME NEW k \in VaultKeys, VaultCopy(k) \/ VaultDelete(k)
        PROVE  PagesOwn'
    BY <1>2, <1>9 DEF VaultCopy, VaultDelete, clearVars
  <1>10. ASSUME NEW c \in Clears, CallFails(c)
         PROVE  PagesOwn'
    BY <1>6, <1>10 DEF CallFails
  <1> QED
    BY <1>1, <1>3, <1>4, <1>5, <1>7, <1>8, <1>9, <1>10 DEF Next, Continue

-----------------------------------------------------------------------------

\* Only the deletion of a page takes keys from the bucket, and it takes keys
\* of that page; and the vault takes the key it was given.
LEMMA OnlyDeletesRemove ==
    ASSUME PagesOwn, [Next]_vars, NEW k \in bucket, k \notin bucket'
    PROVE  \/ \E c \in Clears : step[c] = "deleting" /\ k \in page[c]
           \/ VaultDelete(k)
  <1>1. ASSUME NEW c \in Clears, NEW failing \in SUBSET page[c],
               DeletePage(c, failing)
        PROVE  step[c] = "deleting" /\ k \in page[c]
    BY <1>1 DEF DeletePage
  <1>2. ASSUME UNCHANGED bucket
        PROVE  FALSE
    BY <1>2
  <1>3. ASSUME NEW first, NEW name, Store(first, name)
        PROVE  FALSE
    BY <1>3 DEF Store
  <1>4. ASSUME NEW c \in Clears, Start(c) \/ CallFails(c)
        PROVE  FALSE
    BY <1>2, <1>4 DEF Start, CallFails
  <1>5. ASSUME NEW c \in Clears, NEW size \in 1..PageSize, List(c, size)
        PROVE  FALSE
    BY <1>2, <1>5 DEF List
  <1>6. ~ UNCHANGED vars
    BY <1>2 DEF vars
  <1>7. ASSUME NEW j \in VaultKeys, VaultCopy(j)
        PROVE  FALSE
    BY <1>7 DEF VaultCopy
  <1>8. ASSUME NEW j \in VaultKeys, VaultDelete(j)
        PROVE  VaultDelete(k)
    <2>1. j = k
      BY <1>8 DEF VaultDelete
    <2> QED
      BY <1>8, <2>1
  <1> QED
    BY <1>1, <1>3, <1>4, <1>5, <1>6, <1>7, <1>8
    DEF Next, Continue, Upload, UploadElsewhere

LEMMA StepIsolates ==
    ASSUME PagesOwn, [Next]_vars
    PROVE  \A slug \in Slugs, k \in Keys :
             k \in KeysOf(slug) /\ k \in bucket /\ k \notin bucket' =>
                 \/ \E c \in Clears : step[c] = "deleting" /\ tenant[c] = slug
                 \/ VaultDelete(k)
  <1> SUFFICES ASSUME NEW slug \in Slugs, NEW k \in Keys,
                      k \in KeysOf(slug), k \in bucket, k \notin bucket',
                      ~VaultDelete(k)
               PROVE  \E c \in Clears :
                        step[c] = "deleting" /\ tenant[c] = slug
    OBVIOUS
  <1>1. PICK c \in Clears : step[c] = "deleting" /\ k \in page[c]
    BY OnlyDeletesRemove
  <1>2. tenant[c] \in Slugs /\ k \in Listed[tenant[c]]
    BY <1>1 DEF PagesOwn
  <1>3. tenant[c] = slug
    BY <1>2, ListedOwn DEF Firsts
  <1> QED
    BY <1>1, <1>3

\* clear(): "clearing one tenant provably cannot touch another tenant's
\* objects".  A key leaves the bucket only for a clear of its own tenant that
\* is deleting, or for a call of the vault that names it, whatever the tenants
\* are called, as long as no slug has a slash.
THEOREM TenantsAreIsolated == Spec => Isolation
  <1>1. Init => PagesOwn
    BY PagesOwnAtStart
  <1>2. PagesOwn /\ [Next]_vars => PagesOwn'
    BY PagesOwnKept
  <1>3. PagesOwn /\ [Next]_vars =>
          [\A slug \in Slugs, k \in Keys :
             k \in KeysOf(slug) /\ k \in bucket /\ k \notin bucket' =>
                 \/ \E c \in Clears : step[c] = "deleting" /\ tenant[c] = slug
                 \/ VaultDelete(k)]_vars
    BY StepIsolates
  <1> QED
    BY <1>1, <1>2, <1>3, PTL DEF Spec, Isolation

\* What was uploaded through another route lies under a category.
ForeignInv == PagesOwn /\ foreign \subseteq UNION {KeysOf(c) : c \in Categories}

LEMMA ForeignStep == ForeignInv /\ [Next]_vars => ForeignInv'
  <1> SUFFICES ASSUME ForeignInv, [Next]_vars PROVE ForeignInv'
    OBVIOUS
  <1>1. ASSUME UNCHANGED foreign PROVE ForeignInv'
    BY <1>1, PagesOwnKept DEF ForeignInv
  <1>2. ASSUME NEW category \in Categories, NEW name \in Names,
               UploadElsewhere(category, name)
        PROVE  ForeignInv'
    <2>1. Compose(category, name) \in KeysOf(category)
      BY DEF KeysOf
    <2> QED
      BY <1>2, <2>1, PagesOwnKept DEF ForeignInv, UploadElsewhere
  <1>3. ASSUME NEW slug \in Slugs, NEW name \in Names, Upload(slug, name)
        PROVE  ForeignInv'
    BY <1>1, <1>3 DEF Upload
  <1>4. ASSUME NEW c \in Clears, Start(c) \/ Continue(c) \/ CallFails(c)
        PROVE  ForeignInv'
    BY <1>1, <1>4 DEF Start, Continue, List, DeletePage, CallFails, historyVars
  <1>5. CASE UNCHANGED vars
    BY <1>1, <1>5 DEF vars, historyVars
  <1>6. ASSUME NEW k \in VaultKeys, VaultCopy(k) \/ VaultDelete(k)
        PROVE  ForeignInv'
    BY <1>1, <1>6 DEF VaultCopy, VaultDelete
  <1> QED
    BY <1>2, <1>3, <1>4, <1>5, <1>6 DEF Next

\* list(): "only ever returns that tenant's objects" needs that no tenant is
\* called like a category, which nothing in the code sees to, and that the vault
\* copied nothing onto its keys: with the first, what a clear lists was uploaded
\* for its tenant, or the vault copied an object onto that very key.
THEOREM OnlyCategoriesMix ==
    ASSUME Slugs \cap Categories = {}
    PROVE  Spec => [](\A c \in Clears : page[c] \cap foreign \subseteq copied)
  <1>1. Init => ForeignInv
    BY PagesOwnAtStart DEF Init, ForeignInv
  <1>2. ASSUME ForeignInv
        PROVE  \A c \in Clears : page[c] \cap foreign \subseteq copied
    <2> SUFFICES ASSUME NEW c \in Clears, NEW k \in page[c], k \in foreign
                 PROVE  FALSE
      OBVIOUS
    <2>1. PICK category \in Categories : k \in KeysOf(category)
      BY <1>2 DEF ForeignInv
    <2>2. tenant[c] \in Slugs /\ k \in Listed[tenant[c]]
      BY <1>2 DEF ForeignInv, PagesOwn
    <2>3. tenant[c] = category
      BY <2>1, <2>2, ListedOwn DEF Firsts
    <2> QED
      BY <2>2, <2>3
  <1> QED
    BY <1>1, <1>2, ForeignStep, PTL DEF Spec

-----------------------------------------------------------------------------
(* What a clear deletes, and what it counts.                               *)

\* What the listing of a tenant can show is what is composed for it.
LEMMA ListedIsComposed ==
    ASSUME NEW slug \in Slugs
    PROVE  Listed[slug] = KeysOf(slug)
  <1>1. ASSUME NEW k \in Listed[slug]
        PROVE  k \in KeysOf(slug)
    <2>1. PICK first \in Firsts : k \in KeysOf(first)
      BY <1>1 DEF Listed, Keys, Firsts
    <2> QED
      BY <1>1, <2>1, ListedOwn
  <1>2. ASSUME NEW name \in Names
        PROVE  Compose(slug, name) \in Listed[slug]
    <2> DEFINE p == slug \o <<Slash>>
    <2>1. /\ slug \in Seq(Nat) /\ name \in Seq(Nat) /\ <<Slash>> \in Seq(Nat)
          /\ p \in Seq(Nat)
      BY SlugTypes, NamesAssumption DEF Slash, Firsts
    <2> HIDE DEF p
    <2>2. /\ p \o name \in Seq(Nat) /\ Len(p) <= Len(p \o name)
          /\ \A i \in 1..Len(p) : p[i] = (p \o name)[i]
      BY <2>1
    <2>3. IsPrefix(p, p \o name)
      BY <2>1, <2>2, PrefixPoints
    <2>4. Compose(slug, name) \in Keys
      BY DEF Keys, KeysOf
    <2> QED
      BY <2>3, <2>4 DEF p, Listed, TenantPrefix, Compose
  <1> QED
    BY <1>1, <1>2 DEF KeysOf

LEMMA TenantsApart ==
    ASSUME NEW slug \in Slugs, NEW other \in Firsts, slug # other
    PROVE  KeysOf(slug) \cap KeysOf(other) = {}
  BY ListedIsComposed, ListedOwn

\* What the listing still has for a clear.
Rest(c) == IF more[c] THEN After[cursor[c]] ELSE {}

\* Nothing that was there at the start is forgotten.
Covered(c) ==
    /\ step[c] = "new" =>
           /\ c \notin alone /\ cursor[c] = <<>>
           /\ failures[c] = {} /\ deleted[c] = 0
    /\ step[c] = "listing" =>
           atStart[c] \cap bucket \subseteq failures[c] \cup After[cursor[c]]
    /\ step[c] = "deleting" =>
           atStart[c] \cap bucket \subseteq
               failures[c] \cup page[c] \cup Rest(c)
    /\ step[c] = "done" => atStart[c] \cap bucket \subseteq failures[c]

\* With nobody else at the tenant's keys, each was counted once.
Counted(c) ==
    /\ bucket \cap KeysOf(tenant[c]) \subseteq atStart[c]
    /\ failures[c] \subseteq bucket \cap atStart[c]
    /\ deleted[c] = Cardinality(atStart[c] \ bucket)
    /\ step[c] = "listing" => failures[c] \cap After[cursor[c]] = {}
    /\ step[c] = "deleting" =>
           /\ page[c] \subseteq bucket
           /\ page[c] \cap failures[c] = {}
           /\ (failures[c] \cup page[c]) \cap Rest(c) = {}

ClearInv(c) ==
    /\ IsFiniteSet(page[c]) /\ IsFiniteSet(atStart[c])
    /\ page[c] \subseteq KeysOf(tenant[c])
    /\ atStart[c] \subseteq issued \cap KeysOf(tenant[c])
    /\ Covered(c)
    /\ c \in alone => Counted(c)

StoreInv == TypeOK /\ IsFiniteSet(bucket) /\ bucket \subseteq issued

TInv == StoreInv /\ \A c \in Clears : ClearInv(c)

\* What others do: to a clear that is still alone, nothing.
LEMMA OthersLeave ==
    ASSUME TInv, NEW c \in Clears,
           UNCHANGED <<tenant, step[c], cursor[c], page[c], more[c], deleted[c],
                       failures[c]>>,
           atStart'[c] \subseteq atStart[c],
           issued \subseteq issued', bucket' \cap atStart'[c] \subseteq bucket,
           c \in alone' =>
               /\ c \in alone /\ atStart'[c] = atStart[c]
               /\ bucket' \cap KeysOf(tenant[c]) = bucket \cap KeysOf(tenant[c])
    PROVE  ClearInv(c)'
  <1>1. ClearInv(c) /\ tenant' = tenant
    BY DEF TInv
  <1>2. /\ atStart'[c] \cap bucket' \subseteq atStart[c] \cap bucket
        /\ IsFiniteSet(atStart'[c])
    BY <1>1, FS_Subset DEF ClearInv
  <1>3. Rest(c)' = Rest(c)
    BY DEF Rest
  <1>4. Covered(c)'
    BY <1>1, <1>2, <1>3 DEF ClearInv, Covered
  <1>5. ASSUME c \in alone'
        PROVE  Counted(c)'
    <2>1. /\ Counted(c) /\ c \in alone
          /\ bucket' \cap KeysOf(tenant[c]) = bucket \cap KeysOf(tenant[c])
      BY <1>1, <1>5 DEF ClearInv
    <2>2. /\ atStart[c] \ bucket' = atStart[c] \ bucket
          /\ atStart'[c] = atStart[c]
      BY <1>1, <1>5, <2>1 DEF ClearInv
    <2>3. /\ failures[c] \subseteq KeysOf(tenant[c])
          /\ page[c] \subseteq KeysOf(tenant[c])
      BY <1>1, <2>1 DEF ClearInv, Counted
    <2> QED
      BY <1>1, <1>3, <2>1, <2>2, <2>3 DEF Counted
  <1> QED
    BY <1>1, <1>2, <1>4, <1>5 DEF ClearInv

LEMMA TInit == Init => TInv
  <1> SUFFICES ASSUME Init PROVE TInv
    OBVIOUS
  <1>1. TypeOK
    BY DEF Init, TypeOK
  <1>2. IsFiniteSet({})
    BY FS_EmptySet
  <1> QED
    BY <1>1, <1>2 DEF Init, TInv, StoreInv, ClearInv, Covered

LEMMA TStore ==
    ASSUME TInv, NEW first \in Firsts, NEW name \in Names, Store(first, name),
           foreign' = foreign \/ foreign' = foreign \cup {Compose(first, name)}
    PROVE  TInv'
  <1> DEFINE k == Compose(first, name)
  <1>1. k \in KeysOf(first) /\ k \in Keys
    BY DEF KeysOf, Keys, Firsts
  <1>2. /\ k \notin issued /\ bucket' = bucket \cup {k}
        /\ issued' = issued \cup {k}
        /\ alone' = alone \ ClearsOf(first, {})
        /\ UNCHANGED <<tenant, step, cursor, page, more, deleted, failures,
                       copied, atStart>>
        /\ foreign' = foreign \/ foreign' = foreign \cup {k}
    BY DEF Store, clearVars
  <1> HIDE DEF k
  <1>3. StoreInv'
    <2>1. TypeOK'
      BY <1>1, <1>2 DEF TInv, StoreInv, TypeOK
    <2>2. IsFiniteSet(bucket')
      BY <1>2, FS_AddElement DEF TInv, StoreInv
    <2> QED
      BY <1>2, <2>1, <2>2 DEF TInv, StoreInv
  <1>4. ASSUME NEW c \in Clears
        PROVE  ClearInv(c)'
    <2>1. c \in alone' => c \in alone /\ tenant[c] # first
      BY <1>2 DEF ClearsOf
    <2>2. tenant[c] \in Slugs
      BY DEF TInv, StoreInv, TypeOK
    <2>3. c \in alone' =>
            bucket' \cap KeysOf(tenant[c]) = bucket \cap KeysOf(tenant[c])
      BY <1>1, <1>2, <2>1, <2>2, TenantsApart
    <2>4. bucket' \cap atStart'[c] \subseteq bucket
      BY <1>2 DEF TInv, ClearInv
    <2> QED
      BY <1>2, <2>1, <2>3, <2>4, OthersLeave
  <1> QED
    BY <1>3, <1>4 DEF TInv

\* The vault puts an object under a key, or takes it away.
LEMMA TVault ==
    ASSUME TInv, NEW k \in VaultKeys, VaultCopy(k) \/ VaultDelete(k)
    PROVE  TInv'
  <1>1. /\ k \in Keys
        /\ alone' = alone \ ClearsAt(k)
        /\ UNCHANGED <<tenant, step, cursor, page, more, deleted, failures,
                       foreign>>
    BY VaultKeysAssumption DEF VaultCopy, VaultDelete, clearVars
  <1>2. \/ /\ bucket' = bucket \cup {k} /\ issued' = issued \cup {k}
           /\ copied' = copied \cup {k}
           /\ atStart' = [c \in Clears |-> atStart[c] \ {k}]
        \/ /\ bucket' = bucket \ {k} /\ issued' = issued
           /\ copied' = copied /\ atStart' = atStart
    BY DEF VaultCopy, VaultDelete
  <1>3. StoreInv'
    <2>1. TypeOK'
      BY <1>1, <1>2 DEF TInv, StoreInv, TypeOK
    <2>2. IsFiniteSet(bucket')
      BY <1>2, FS_AddElement, FS_RemoveElement DEF TInv, StoreInv
    <2> QED
      BY <1>2, <2>1, <2>2 DEF TInv, StoreInv
  <1>4. ASSUME NEW c \in Clears
        PROVE  ClearInv(c)'
    <2>1. /\ atStart'[c] \subseteq atStart[c]
          /\ bucket' \cap atStart'[c] \subseteq bucket
          /\ issued \subseteq issued'
      BY <1>2
    <2>2. c \in alone' => c \in alone /\ k \notin KeysOf(tenant[c])
      BY <1>1 DEF ClearsAt
    <2>3. c \in alone' =>
            /\ bucket' \cap KeysOf(tenant[c]) = bucket \cap KeysOf(tenant[c])
            /\ atStart'[c] = atStart[c]
      BY <1>2, <2>2 DEF TInv, ClearInv
    <2> QED
      BY <1>1, <2>1, <2>2, <2>3, OthersLeave
  <1> QED
    BY <1>3, <1>4 DEF TInv

LEMMA TStart ==
    ASSUME TInv, NEW c \in Clears, Start(c) PROVE TInv'
  <1>1. /\ step[c] = "new"
        /\ step' = [step EXCEPT ![c] = "listing"]
        /\ atStart' = [atStart EXCEPT ![c] = bucket \cap KeysOf(tenant[c])]
        /\ alone' = alone \cup {c}
        /\ UNCHANGED <<bucket, tenant, cursor, page, more, deleted, failures,
                       issued, foreign, copied>>
    BY DEF Start
  <1>2. TypeOK /\ ClearInv(c) /\ tenant[c] \in Slugs
    BY DEF TInv, StoreInv, TypeOK
  <1>3. TypeOK'
    BY <1>1, <1>2 DEF TypeOK
  <1>4. StoreInv'
    BY <1>1, <1>3 DEF TInv, StoreInv
  <1>5. step'[c] = "listing" /\ atStart'[c] = bucket \cap KeysOf(tenant[c])
    BY <1>1, <1>2 DEF TypeOK
  <1>6. ClearInv(c)'
    <2>1. IsFiniteSet(atStart'[c])
      BY <1>5, FS_Intersection DEF TInv, StoreInv
    <2>2. cursor[c] = <<>> /\ failures[c] = {} /\ deleted[c] = 0
      BY <1>1, <1>2 DEF ClearInv, Covered
    <2>3. Covered(c)'
      <3>1. atStart'[c] \subseteq After[<<>>]
        BY <1>2, <1>5, KeyOrder DEF TypeOK
      <3> QED
        BY <1>1, <1>5, <2>2, <3>1 DEF Covered
    <2>4. Counted(c)'
      <3>1. Cardinality(atStart'[c] \ bucket') = 0
        <4>1. atStart'[c] \ bucket' = {}
          BY <1>1, <1>5
        <4> QED
          BY <4>1, FS_EmptySet
      <3> QED
        BY <1>1, <1>5, <2>2, <3>1 DEF Counted
    <2> QED
      BY <1>1, <1>2, <1>5, <2>1, <2>3, <2>4 DEF ClearInv, TInv, StoreInv
  <1>7. ASSUME NEW d \in Clears, d # c
        PROVE  ClearInv(d)'
    <2>1. step'[d] = step[d] /\ atStart'[d] = atStart[d]
          /\ (d \in alone' <=> d \in alone)
      BY <1>1, <1>2, <1>7 DEF TypeOK
    <2> QED
      BY <1>1, <2>1, OthersLeave
  <1> QED
    BY <1>4, <1>6, <1>7 DEF TInv

LEMMA TList ==
    ASSUME TInv, NEW c \in Clears, NEW size \in 1..PageSize, List(c, size)
    PROVE  TInv'
  <1> DEFINE keys == Remaining(tenant[c], cursor[c])
             first == FirstPage(keys, size)
  <1>1. /\ step[c] = "listing"
        /\ page' = [page EXCEPT ![c] = first]
        /\ more' = [more EXCEPT ![c] = (first # keys)]
        /\ cursor' = [cursor EXCEPT ![c] =
                         IF keys = {} THEN <<>> ELSE LastKey(first)]
        /\ step' = [step EXCEPT ![c] = IF keys = {} THEN "done" ELSE "deleting"]
        /\ UNCHANGED <<bucket, tenant, deleted, failures, issued, foreign,
                       copied, atStart, alone>>
    BY DEF List, historyVars
  <1>2. TypeOK /\ ClearInv(c) /\ tenant[c] \in Slugs
        /\ cursor[c] \in Keys \cup {<<>>}
    BY DEF TInv, StoreInv, TypeOK
  <1>3. /\ keys = bucket \cap KeysOf(tenant[c]) \cap After[cursor[c]]
        /\ keys \subseteq Keys /\ IsFiniteSet(keys) /\ size \in Nat \ {0}
    <2>1. keys = bucket \cap KeysOf(tenant[c]) \cap After[cursor[c]]
      BY <1>2, ListedIsComposed DEF Remaining
    <2>2. keys \in SUBSET bucket
      BY <2>1
    <2> QED
      BY <1>2, <2>1, <2>2, FS_Subset, PageSizeAssumption
      DEF TInv, StoreInv, TypeOK
  <1>4. first \subseteq keys /\ IsFiniteSet(first)
    BY <1>3, FS_Subset DEF FirstPage
  <1>5. keys # {} =>
          /\ LastKey(first) \in first /\ first \cap After[LastKey(first)] = {}
          /\ keys \ first \subseteq After[LastKey(first)]
    <2> HIDE DEF keys
    <2>1. keys \in SUBSET Keys /\ IsFiniteSet(keys) /\ size \in Nat \ {0}
      BY <1>3
    <2> SUFFICES ASSUME keys # {}
                 PROVE  /\ LastKey(first) \in first
                        /\ first \cap After[LastKey(first)] = {}
                        /\ keys \ first \subseteq After[LastKey(first)]
      OBVIOUS
    <2> QED
      BY <2>1, PageIsFirstPart
  <1> DEFINE last == LastKey(first)
  <1> HIDE DEF last, first, keys
  <1>6. StoreInv'
    <2>1. first \subseteq Keys /\ (keys # {} => last \in Keys)
      BY <1>3, <1>4, <1>5 DEF last
    <2>2. TypeOK'
      BY <1>1, <1>2, <2>1 DEF TypeOK, last
    <2> QED
      BY <1>1, <2>2 DEF TInv, StoreInv
  <1>7. /\ page'[c] = first /\ more'[c] = (first # keys)
        /\ step'[c] = IF keys = {} THEN "done" ELSE "deleting"
        /\ cursor'[c] = IF keys = {} THEN <<>> ELSE last
    BY <1>1, <1>2 DEF TypeOK, last
  <1>8. ClearInv(c)'
    <2>1. Covered(c) /\ (c \in alone => Counted(c))
          /\ atStart[c] \subseteq KeysOf(tenant[c])
      BY <1>2 DEF ClearInv
    <2>2. atStart[c] \cap bucket \subseteq failures[c] \cup keys
      BY <1>1, <1>3, <2>1 DEF Covered
    <2>3. keys # {} => keys \subseteq first \cup Rest(c)'
      BY <1>5, <1>7 DEF Rest, last
    <2>4. Covered(c)'
      BY <1>1, <1>4, <1>7, <2>2, <2>3 DEF Covered
    <2>5. ASSUME c \in alone
          PROVE  Counted(c)'
      <3>1. Counted(c) /\ failures[c] \cap After[cursor[c]] = {}
        BY <1>1, <2>1, <2>5 DEF Counted
      <3>2. first \subseteq bucket /\ first \cap failures[c] = {}
        BY <1>3, <1>4, <3>1
      <3>3. keys # {} => (failures[c] \cup first) \cap Rest(c)' = {}
        <4>1. keys # {} => After[last] \subseteq After[cursor[c]]
          <5>1. keys # {} => last \in Keys /\ last \in After[cursor[c]]
            BY <1>3, <1>4, <1>5 DEF last
          <5> QED
            BY <1>2, <5>1, KeyOrder
        <4> QED
          BY <1>5, <1>7, <3>1, <4>1 DEF Rest, last
      <3> QED
        BY <1>1, <1>7, <3>1, <3>2, <3>3 DEF Counted
    <2> QED
      BY <1>1, <1>2, <1>3, <1>4, <1>7, <2>4, <2>5 DEF ClearInv
  <1>9. ASSUME NEW d \in Clears, d # c
        PROVE  ClearInv(d)'
    <2>1. /\ step'[d] = step[d] /\ page'[d] = page[d] /\ more'[d] = more[d]
          /\ cursor'[d] = cursor[d]
      BY <1>1, <1>2, <1>9 DEF TypeOK
    <2> QED
      BY <1>1, <2>1, OthersLeave
  <1> QED
    BY <1>6, <1>8, <1>9 DEF TInv

LEMMA TDelete ==
    ASSUME TInv, NEW c \in Clears, NEW failing \in SUBSET page[c],
           DeletePage(c, failing)
    PROVE  TInv'
  <1> DEFINE gone == page[c] \ failing
  <1>1. /\ step[c] = "deleting" /\ bucket' = bucket \ gone
        /\ deleted' = [deleted EXCEPT ![c] = deleted[c] + Cardinality(gone)]
        /\ failures' = [failures EXCEPT ![c] = failures[c] \cup failing]
        /\ step' = [step EXCEPT ![c] = IF more[c] THEN "listing" ELSE "done"]
        /\ cursor' = [cursor EXCEPT ![c] = IF more[c] THEN cursor[c] ELSE <<>>]
        /\ page' = [page EXCEPT ![c] = {}] /\ more' = [more EXCEPT ![c] = FALSE]
        /\ alone' = alone \ ClearsOf(tenant[c], {c})
        /\ UNCHANGED <<tenant, issued, foreign, copied, atStart>>
    BY DEF DeletePage, Reported, NextStep
  <1>2. TypeOK /\ ClearInv(c) /\ tenant[c] \in Slugs /\ IsFiniteSet(bucket)
    BY DEF TInv, StoreInv, TypeOK
  <1>3. /\ gone \subseteq page[c] /\ IsFiniteSet(gone)
        /\ Cardinality(gone) \in Nat
        /\ page[c] \subseteq Keys /\ page[c] \subseteq KeysOf(tenant[c])
        /\ page[c] = gone \cup failing /\ gone \cap failing = {}
    <2>1. gone \in SUBSET page[c] /\ IsFiniteSet(page[c])
      BY <1>2 DEF ClearInv
    <2> QED
      BY <1>2, <2>1, FS_Subset, FS_CardinalityType DEF ClearInv, TypeOK
  <1> HIDE DEF gone
  <1>4. StoreInv'
    <2>1. TypeOK'
      BY <1>1, <1>2, <1>3 DEF TypeOK
    <2>2. IsFiniteSet(bucket')
      BY <1>1, <1>2, FS_Difference
    <2> QED
      BY <1>1, <2>1, <2>2 DEF TInv, StoreInv
  <1>5. /\ deleted'[c] = deleted[c] + Cardinality(gone)
        /\ failures'[c] = failures[c] \cup failing
        /\ step'[c] = IF more[c] THEN "listing" ELSE "done"
        /\ more[c] => cursor'[c] = cursor[c]
        /\ page'[c] = {} /\ IsFiniteSet(page'[c])
    BY <1>1, <1>2, FS_EmptySet DEF TypeOK
  <1>6. ClearInv(c)'
    <2>1. atStart[c] \cap bucket \subseteq failures[c] \cup page[c] \cup Rest(c)
      BY <1>1, <1>2 DEF ClearInv, Covered
    <2>2. Covered(c)'
      BY <1>1, <1>3, <1>5, <2>1 DEF Covered, Rest
    <2>3. ASSUME c \in alone'
          PROVE  Counted(c)'
      <3>1. /\ bucket \cap KeysOf(tenant[c]) \subseteq atStart[c]
            /\ failures[c] \subseteq bucket \cap atStart[c]
            /\ deleted[c] = Cardinality(atStart[c] \ bucket)
            /\ page[c] \subseteq bucket
            /\ page[c] \cap failures[c] = {}
            /\ (failures[c] \cup page[c]) \cap Rest(c) = {}
        BY <1>1, <1>2, <2>3 DEF ClearInv, Counted
      <3>2. page[c] \subseteq atStart[c]
        BY <1>3, <3>1
      <3>3. deleted'[c] = Cardinality(atStart[c] \ bucket')
        <4> DEFINE before == atStart[c] \ bucket
        <4>1. IsFiniteSet(before)
          BY <1>2, FS_Difference DEF ClearInv
        <4>2. before \cap gone = {} /\ atStart[c] \ bucket' = before \cup gone
          BY <1>1, <1>3, <3>1, <3>2
        <4>3. Cardinality(before) \in Nat /\ deleted[c] = Cardinality(before)
          BY <3>1, <4>1, FS_CardinalityType
        <4> HIDE DEF before
        <4>4. Cardinality(before \cup gone) =
                Cardinality(before) + Cardinality(gone)
                  - Cardinality(before \cap gone)
          BY <1>3, <4>1, FS_Union
        <4>5. Cardinality(before \cap gone) = 0
          BY <4>2, FS_EmptySet
        <4>6. Cardinality(before \cup gone) =
                Cardinality(before) + Cardinality(gone)
          BY <1>3, <4>3, <4>4, <4>5
        <4> QED
          BY <1>5, <4>2, <4>3, <4>6
      <3>4. /\ bucket' \cap KeysOf(tenant'[c]) \subseteq atStart'[c]
            /\ failures'[c] \subseteq bucket' \cap atStart'[c]
        BY <1>1, <1>3, <1>5, <3>1, <3>2
      <3>5. step'[c] = "listing" => failures'[c] \cap After[cursor'[c]] = {}
        BY <1>3, <1>5, <3>1 DEF Rest
      <3>6. step'[c] # "deleting" /\ atStart' = atStart
        BY <1>1, <1>5
      <3> QED
        BY <3>3, <3>4, <3>5, <3>6 DEF Counted
    <2>4. /\ page'[c] = {} /\ IsFiniteSet(page'[c])
          /\ UNCHANGED <<tenant, issued, atStart>>
      BY <1>1, <1>5
    <2> QED
      BY <1>2, <2>2, <2>3, <2>4 DEF ClearInv
  <1>7. ASSUME NEW d \in Clears, d # c
        PROVE  ClearInv(d)'
    <2>1. /\ step'[d] = step[d] /\ deleted'[d] = deleted[d]
          /\ failures'[d] = failures[d] /\ tenant[d] \in Slugs
          /\ cursor'[d] = cursor[d] /\ page'[d] = page[d] /\ more'[d] = more[d]
      BY <1>1, <1>2, <1>7 DEF TypeOK
    <2>2. d \in alone' => d \in alone /\ tenant[d] # tenant[c]
      BY <1>1, <1>7 DEF ClearsOf
    <2>3. d \in alone' =>
            bucket' \cap KeysOf(tenant[d]) = bucket \cap KeysOf(tenant[d])
      BY <1>1, <1>2, <1>3, <2>1, <2>2, TenantsApart DEF Firsts
    <2> QED
      BY <1>1, <2>1, <2>2, <2>3, OthersLeave
  <1> QED
    BY <1>4, <1>6, <1>7 DEF TInv

LEMMA TFail ==
    ASSUME TInv, NEW c \in Clears, CallFails(c) PROVE TInv'
  <1>1. /\ step' = [step EXCEPT ![c] = "failed"]
        /\ cursor' = [cursor EXCEPT ![c] = <<>>]
        /\ page' = [page EXCEPT ![c] = {}] /\ more' = [more EXCEPT ![c] = FALSE]
        /\ deleted' = [deleted EXCEPT ![c] = 0]
        /\ failures' = [failures EXCEPT ![c] = {}]
        /\ atStart' = [atStart EXCEPT ![c] = {}]
        /\ alone' = alone \ {c}
        /\ UNCHANGED <<bucket, tenant, issued, foreign, copied>>
    BY DEF CallFails
  <1>2. TypeOK
    BY DEF TInv, StoreInv
  <1>3. StoreInv'
    <2>1. TypeOK'
      BY <1>1, <1>2 DEF TypeOK
    <2> QED
      BY <1>1, <2>1 DEF TInv, StoreInv
  <1>4. ASSUME NEW d \in Clears
        PROVE  ClearInv(d)'
    <2>2. CASE d = c
      <3>1. /\ step'[d] = "failed" /\ page'[d] = {} /\ atStart'[d] = {}
            /\ d \notin alone'
        BY <1>1, <1>2, <2>2 DEF TypeOK
      <3> QED
        BY <3>1, FS_EmptySet DEF ClearInv, Covered
    <2>3. CASE d # c
      <3>1. /\ step'[d] = step[d] /\ cursor'[d] = cursor[d]
            /\ page'[d] = page[d] /\ more'[d] = more[d]
            /\ deleted'[d] = deleted[d] /\ failures'[d] = failures[d]
            /\ atStart'[d] = atStart[d] /\ (d \in alone' => d \in alone)
        BY <1>1, <1>2, <2>3 DEF TypeOK
      <3> QED
        BY <1>1, <3>1, OthersLeave
    <2> QED
      BY <2>2, <2>3
  <1> QED
    BY <1>3, <1>4 DEF TInv

LEMMA TStep == TInv /\ [Next]_vars => TInv'
  <1> SUFFICES ASSUME TInv, [Next]_vars PROVE TInv'
    OBVIOUS
  <1>1. ASSUME NEW slug \in Slugs, NEW name \in Names, Upload(slug, name)
        PROVE  TInv'
    BY <1>1, TStore DEF Upload, Firsts
  <1>2. ASSUME NEW category \in Categories, NEW name \in Names,
               UploadElsewhere(category, name)
        PROVE  TInv'
    BY <1>2, TStore DEF UploadElsewhere, Firsts
  <1>3. CASE UNCHANGED vars
    BY <1>3 DEF vars, clearVars, historyVars, TInv, StoreInv, TypeOK, ClearInv,
       Covered, Counted, Rest
  <1> QED
    BY <1>1, <1>2, <1>3, TStart, TList, TDelete, TFail, TVault
    DEF Next, Continue

LEMMA TInvariant == Spec => []TInv
  BY TInit, TStep, PTL DEF Spec

\* The variables of the clears keep their types, for any names of tenants and
\* keys, any number of clears and any limit of a page.
THEOREM TenantsTypeCorrect == Spec => []TypeOK
  <1>1. TInv => TypeOK
    BY DEF TInv, StoreInv
  <1> QED
    BY <1>1, TInvariant, PTL

\* clear() forgets no object that was there when it began: when it ends
\* normally, each is gone or among the failures, whatever pages the provider
\* cuts, whatever it fails to delete and whoever else uploads, clears, copies or
\* deletes; and if nobody else did, the two counts of the answer add up.
THEOREM NothingIsForgotten == Spec => []ClearedOrReported
  <1>1. ASSUME TInv PROVE ClearedOrReported
    <2>1. ASSUME NEW c \in Clears, step[c] = "done"
          PROVE  atStart[c] \cap bucket \subseteq failures[c]
      BY <1>1, <2>1 DEF TInv, ClearInv, Covered
    <2>2. ASSUME NEW c \in Clears, step[c] = "done", c \in alone
          PROVE  deleted[c] + Cardinality(failures[c]) = Cardinality(atStart[c])
      <3>1. /\ failures[c] = atStart[c] \cap bucket
            /\ deleted[c] = Cardinality(atStart[c] \ bucket)
            /\ IsFiniteSet(atStart[c])
        BY <1>1, <2>1, <2>2 DEF TInv, ClearInv, Counted
      <3>2. /\ Cardinality(atStart[c] \ bucket) =
                 Cardinality(atStart[c]) - Cardinality(atStart[c] \cap bucket)
            /\ Cardinality(atStart[c]) \in Nat
            /\ Cardinality(atStart[c] \cap bucket) \in Nat
        BY <3>1, FS_Difference, FS_Intersection, FS_CardinalityType
      <3> QED
        BY <3>1, <3>2
    <2> QED
      BY <2>1, <2>2 DEF ClearedOrReported
  <1> QED
    BY <1>1, TInvariant, PTL

=============================================================================
