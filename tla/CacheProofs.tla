----------------------------- MODULE CacheProofs -----------------------------
(***************************************************************************)
(* What is claimed of the cache, proved of Methods for any kinds and       *)
(* numbers of objects, limits of the Storage, tasks and bounds.            *)
(***************************************************************************)
EXTENDS Methods, FiniteSetTheorems, SequenceTheorems, WellFoundedInduction, TLAPS

----------------------------------------------------------------------------
(* Recursion *)

\* What holds of 0, and of n when of n - 1, holds up to N.
LEMMA Climb ==
  ASSUME NEW N \in Nat, NEW T, 0 \in T, \A n \in 1..N : n - 1 \in T => n \in T
  PROVE  \A n \in 0..N : n \in T
<1> DEFINE F == {n \in 0..N : n \notin T}
<1>1. F \subseteq Nat
  OBVIOUS
<1>2. ASSUME F # {} PROVE FALSE
  <2>1. PICK x \in F : \A y \in F : <<y, x>> \notin OpToRel(<, Nat)
    <3> HIDE DEF F
    <3> QED BY <1>1, <1>2, WFMin, NatLessThanWellFounded, Zenon
  <2>2. \A y \in F : ~(y < x)
    <3> SUFFICES ASSUME NEW y \in F, y < x PROVE FALSE
      OBVIOUS
    <3>1. <<y, x>> \in Nat \X Nat /\ <<y, x>>[1] < <<y, x>>[2]
      OBVIOUS
    <3> HIDE DEF F
    <3> QED BY <2>1, <3>1, Zenon DEF OpToRel
  <2>3. x \in 1..N /\ x - 1 \in 0..N /\ x - 1 < x
    OBVIOUS
  <2>4. x - 1 \in T
    BY <2>2, <2>3
  <2> QED BY <2>3, <2>4
<1> QED BY <1>2

\* A value that is computed in steps, each from the one before.
Iterates(f, S, N, s, step) ==
  f \in [0..N -> S] /\ f[0] = s /\ \A n \in 1..N : f[n] = step[n][f[n - 1]]

\* There is such a sequence of values.
LEMMA Iterated ==
  ASSUME NEW S, NEW N \in Nat, NEW s \in S, NEW step \in [1..N -> [S -> S]]
  PROVE  \E f : Iterates(f, S, N, s, step)
<1> DEFINE Fits(n, f) == f[0] = s /\ \A m \in 1..n : f[m] = step[m][f[m - 1]]
           G == {n \in 0..N : \E f \in [0..n -> S] : Fits(n, f)}
<1>1. 0 \in G
  <2> DEFINE f == [m \in 0..0 |-> s]
  <2>1. f \in [0..0 -> S] /\ Fits(0, f)
    OBVIOUS
  <2> HIDE DEF f
  <2> QED BY <2>1
<1>2. ASSUME NEW n \in 1..N, n - 1 \in G
      PROVE  n \in G
  <2>1. PICK f \in [0..(n - 1) -> S] : Fits(n - 1, f)
    BY <1>2
  <2> DEFINE new == step[n][f[n - 1]]
             g == [m \in 0..n |-> IF m = n THEN new ELSE f[m]]
  <2>2. new \in S
    OBVIOUS
  <2>3. g \in [0..n -> S]
    BY <2>2
  <2>4. g[0] = s
    BY <2>1
  <2>5. ASSUME NEW m \in 1..n PROVE g[m] = step[m][g[m - 1]]
    <3>1. CASE m = n
      <4>1. g[m - 1] = f[m - 1] /\ g[m] = new
        BY <3>1
      <4> QED BY <3>1, <4>1
    <3>2. CASE m # n
      <4>1. g[m - 1] = f[m - 1] /\ g[m] = f[m] /\ m \in 1..(n - 1)
        BY <3>2
      <4> QED BY <2>1, <4>1
    <3> QED BY <3>1, <3>2
  <2> HIDE DEF g
  <2>6. Fits(n, g)
    BY <2>4, <2>5
  <2> HIDE DEF Fits
  <2> QED BY <2>3, <2>6
<1> HIDE DEF G
<1>3. N \in G
  <2>1. \A n \in 1..N : n - 1 \in G => n \in G
    BY <1>2
  <2>2. \A n \in 0..N : n \in G
    BY <1>1, <2>1, Climb, Zenon
  <2> QED BY <2>2
<1>4. \E f \in [0..N -> S] : Fits(N, f)
  <2> HIDE DEF Fits
  <2> QED BY <1>3 DEF G
<1> QED BY <1>4 DEF Iterates

----------------------------------------------------------------------------
(* The Storage *)

Versions == 0..MaxChanges[kind]
Bags == [Items -> 0..2]
Entries == [key : Ids \cup {Guild}, id : Ids, name : Versions, tag : Bags, gid : BOOLEAN,
            refs : SUBSET Tasks]

\* One object under one key.
Keyed(s) == \A i, j \in DOMAIN s : s[i].key = s[j].key => i = j
Others(s, k) == {x \in Range(s) : x.key # k}

\* Range, element by element.
LEMMA Contents ==
  ASSUME NEW E, NEW s \in Seq(E)
  PROVE  /\ \A i \in 1..Len(s) : s[i] \in Range(s)
         /\ \A x \in Range(s) : x \in E /\ \E i \in 1..Len(s) : x = s[i]
         /\ DOMAIN s = 1..Len(s) /\ Len(s) \in Nat
BY DEF Range

\* What the Storage holds is where Item finds it.
LEMMA Found ==
  ASSUME NEW E, NEW s \in Seq(E), NEW k, Holds(s, k)
  PROVE  /\ Place(s, k) \in 1..Len(s) /\ Item(s, k) = s[Place(s, k)]
         /\ Item(s, k) \in E /\ Item(s, k) \in Range(s) /\ Item(s, k).key = k
<1>1. Place(s, k) \in DOMAIN s /\ s[Place(s, k)].key = k
  BY DEF Holds, Place
<1>2. DOMAIN s = 1..Len(s)
  OBVIOUS
<1> QED BY <1>1, <1>2, Contents DEF Item

\* There is one entry of a key.
LEMMA Unique ==
  ASSUME NEW E, NEW s \in Seq(E), Keyed(s), NEW x \in Range(s)
  PROVE  Holds(s, x.key) /\ Item(s, x.key) = x
<1>1. PICK i \in 1..Len(s) : x = s[i]
  BY Contents
<1>2. DOMAIN s = 1..Len(s)
  OBVIOUS
<1>3. Holds(s, x.key)
  BY <1>1, <1>2 DEF Holds
<1> QED BY <1>1, <1>2, <1>3, Found DEF Keyed

\* Holds, as a statement about the range.
LEMMA HoldsIs ==
  ASSUME NEW E, NEW s \in Seq(E), NEW k
  PROVE  Holds(s, k) <=> \E x \in Range(s) : x.key = k
BY Contents DEF Holds

\* The oldest entry is dropped.
LEMMA TailIs ==
  ASSUME NEW E, NEW s \in Seq(E), Keyed(s), s # << >>
  PROVE  /\ Tail(s) \in Seq(E) /\ Keyed(Tail(s)) /\ Range(Tail(s)) \subseteq Range(s)
         /\ Len(Tail(s)) = Len(s) - 1
<1>1. /\ Tail(s) \in Seq(E) /\ Len(Tail(s)) = Len(s) - 1 /\ Len(s) \in Nat
      /\ \A i \in 1..Len(Tail(s)) : Tail(s)[i] = s[i + 1]
  BY HeadTailProperties, LenProperties
<1> DEFINE r == Tail(s)
<1> HIDE DEF r
<1>2. DOMAIN r = 1..Len(r) /\ DOMAIN s = 1..Len(s)
  BY <1>1 DEF r
<1>3. \A i \in DOMAIN r : i + 1 \in DOMAIN s /\ r[i] = s[i + 1]
  BY <1>1, <1>2 DEF r
<1>4. Keyed(r)
  <2> SUFFICES ASSUME NEW i \in DOMAIN r, NEW j \in DOMAIN r, r[i].key = r[j].key PROVE i = j
    BY DEF Keyed
  <2>1. i + 1 = j + 1
    BY <1>3 DEF Keyed
  <2> QED BY <2>1, <1>2
<1>5. Range(r) \subseteq Range(s)
  BY <1>3 DEF Range
<1> QED BY <1>1, <1>4, <1>5 DEF r

\* A new entry is appended.
LEMMA AppendIs ==
  ASSUME NEW E, NEW s \in Seq(E), Keyed(s), NEW e \in E, ~Holds(s, e.key)
  PROVE  /\ Append(s, e) \in Seq(E) /\ Keyed(Append(s, e)) /\ Len(Append(s, e)) = Len(s) + 1
         /\ Range(Append(s, e)) = Range(s) \cup {e}
<1> DEFINE r == Append(s, e)
<1>1. /\ r \in Seq(E) /\ Len(r) = Len(s) + 1 /\ Len(s) \in Nat
      /\ \A i \in 1..Len(s) : r[i] = s[i]
      /\ r[Len(s) + 1] = e
  BY AppendProperties, LenProperties
<1> HIDE DEF r
<1>2. DOMAIN r = 1..Len(s) + 1 /\ DOMAIN s = 1..Len(s)
  BY <1>1
<1>3. \A i \in DOMAIN s : s[i].key # e.key
  BY DEF Holds
<1>4. Keyed(r)
  <2> SUFFICES ASSUME NEW i \in DOMAIN r, NEW j \in DOMAIN r, r[i].key = r[j].key PROVE i = j
    BY DEF Keyed
  <2>1. CASE i = Len(s) + 1 \/ j = Len(s) + 1
    BY <1>1, <1>2, <1>3, <2>1
  <2>2. CASE i # Len(s) + 1 /\ j # Len(s) + 1
    <3>1. i \in DOMAIN s /\ j \in DOMAIN s /\ r[i] = s[i] /\ r[j] = s[j]
      BY <1>1, <1>2, <2>2
    <3> QED BY <3>1 DEF Keyed
  <2> QED BY <2>1, <2>2
<1>5. Range(r) = Range(s) \cup {e}
  <2>1. \A x \in Range(r) : x \in Range(s) \cup {e}
    BY <1>1, <1>2 DEF Range
  <2>2. \A x \in Range(s) : x \in Range(r)
    BY <1>1, <1>2 DEF Range
  <2>3. e \in Range(r)
    BY <1>1, <1>2 DEF Range
  <2> QED BY <2>1, <2>2, <2>3
<1> QED BY <1>1, <1>4, <1>5 DEF r

\* The entry of a key is popped; nothing else is lost.
LEMMA PopIs ==
  ASSUME NEW E, NEW s \in Seq(E), Keyed(s), NEW k
  PROVE  /\ Pop(s, k) \in Seq(E) /\ Keyed(Pop(s, k)) /\ Range(Pop(s, k)) = Others(s, k)
         /\ ~Holds(Pop(s, k), k)
         /\ Len(Pop(s, k)) = IF Holds(s, k) THEN Len(s) - 1 ELSE Len(s)
<1>1. CASE ~Holds(s, k)
  <2>1. Pop(s, k) = s
    BY <1>1 DEF Pop
  <2>2. Range(s) = Others(s, k)
    BY <1>1, HoldsIs DEF Others
  <2> QED BY <1>1, <2>1, <2>2
<1>2. CASE Holds(s, k)
  <2> DEFINE p == Place(s, k)
             a == SubSeq(s, 1, p - 1)
             b == SubSeq(s, p + 1, Len(s))
             r == a \o b
  <2>1. p \in 1..Len(s) /\ Len(s) \in Nat /\ s[p].key = k
    BY <1>2, Found, LenProperties
  <2>2. Pop(s, k) = r
    BY <1>2 DEF Pop, RemoveAt
  <2> HIDE DEF p
  <2>3. /\ a \in Seq(E) /\ Len(a) = p - 1 /\ \A i \in 1..p - 1 : a[i] = s[i]
    <3>1. \A i \in 1..p - 1 : s[i] \in E
      BY <2>1
    <3>2. p - 1 \in Int /\ 1 \in Int
      BY <2>1
    <3> QED BY <2>1, <3>1, <3>2, SubSeqProperties
  <2>4. /\ b \in Seq(E) /\ Len(b) = Len(s) - p /\ \A i \in 1..Len(s) - p : b[i] = s[p + i]
    <3>1. \A i \in p + 1..Len(s) : s[i] \in E
      BY <2>1
    <3>2. p + 1 \in Int /\ Len(s) \in Int
      BY <2>1
    <3>3. /\ b \in Seq(E) /\ Len(b) = IF p + 1 <= Len(s) THEN Len(s) - (p + 1) + 1 ELSE 0
          /\ \A i \in 1..Len(s) - (p + 1) + 1 : b[i] = s[(p + 1) + i - 1]
      BY <3>1, <3>2, SubSeqProperties
    <3> HIDE DEF b
    <3> QED BY <2>1, <3>3
  <2> HIDE DEF a, b
  <2>5. /\ r \in Seq(E) /\ Len(r) = Len(s) - 1
        /\ \A i \in 1..Len(s) - 1 : r[i] = IF i < p THEN s[i] ELSE s[i + 1]
    <3>1. /\ r \in Seq(E) /\ Len(r) = Len(a) + Len(b)
          /\ \A i \in 1..Len(a) + Len(b) : r[i] = IF i <= Len(a) THEN a[i] ELSE b[i - Len(a)]
      BY <2>3, <2>4, ConcatProperties
    <3> HIDE DEF r
    <3>2. Len(r) = Len(s) - 1
      BY <2>1, <2>3, <2>4, <3>1
    <3>3. ASSUME NEW i \in 1..Len(s) - 1 PROVE r[i] = IF i < p THEN s[i] ELSE s[i + 1]
      <4>0. i \in 1..Len(a) + Len(b)
        BY <2>1, <2>3, <2>4
      <4>1. CASE i < p
        <5>1. i <= Len(a) /\ i \in 1..p - 1
          BY <2>1, <2>3, <4>1
        <5> QED BY <3>1, <2>3, <4>0, <4>1, <5>1
      <4>2. CASE ~(i < p)
        <5>0. Len(a) = p - 1 /\ p \in Nat /\ Len(s) \in Nat
          BY <2>1, <2>3
        <5>1. ~(i <= Len(a)) /\ i - Len(a) \in 1..Len(s) - p /\ p + (i - Len(a)) = i + 1
          BY <4>2, <5>0
        <5>2. r[i] = b[i - Len(a)]
          BY <3>1, <4>0, <5>1
        <5> QED BY <2>4, <4>2, <5>1, <5>2
      <4> QED BY <4>1, <4>2
    <3> QED BY <3>1, <3>2, <3>3
  <2> HIDE DEF r
  <2>6. DOMAIN r = 1..Len(s) - 1 /\ DOMAIN s = 1..Len(s)
    BY <2>5
  <2>7. ASSUME NEW i \in DOMAIN r
        PROVE  r[i] = s[IF i < p THEN i ELSE i + 1] /\ (IF i < p THEN i ELSE i + 1) \in DOMAIN s \ {p}
    BY <2>1, <2>5, <2>6
  <2>8. Keyed(r)
    <3> SUFFICES ASSUME NEW i \in DOMAIN r, NEW j \in DOMAIN r, r[i].key = r[j].key PROVE i = j
      BY DEF Keyed
    <3>1. (IF i < p THEN i ELSE i + 1) = (IF j < p THEN j ELSE j + 1)
      BY <2>7 DEF Keyed
    <3> QED BY <2>1, <2>6, <3>1
  <2>9. Range(r) = Others(s, k)
    <3>1. ASSUME NEW x \in Range(r) PROVE x \in Others(s, k)
      <4>1. PICK i \in DOMAIN r : x = r[i]
        BY DEF Range
      <4>2. PICK j \in DOMAIN s \ {p} : x = s[j]
        BY <4>1, <2>7
      <4>3. x.key # k
        BY <2>1, <2>6, <4>2 DEF Keyed
      <4> QED BY <4>2, <4>3 DEF Others, Range
    <3>2. ASSUME NEW x \in Others(s, k) PROVE x \in Range(r)
      <4>1. PICK j \in DOMAIN s : x = s[j] /\ j # p
        BY <2>1 DEF Others, Range
      <4>2. CASE j < p
        <5>1. j \in DOMAIN r /\ r[j] = s[j]
          BY <2>1, <2>5, <2>6, <4>1, <4>2
        <5> QED BY <4>1, <5>1 DEF Range
      <4>3. CASE j > p
        <5>1. j - 1 \in DOMAIN r /\ r[j - 1] = s[j]
          BY <2>1, <2>5, <2>6, <4>1, <4>3
        <5> QED BY <4>1, <5>1 DEF Range
      <4> QED BY <2>1, <2>6, <4>1, <4>2, <4>3
    <3> QED BY <3>1, <3>2
  <2>10. ~Holds(r, k)
    BY <2>5, <2>9, HoldsIs DEF Others
  <2> QED BY <1>2, <2>2, <2>5, <2>8, <2>9, <2>10
<1> QED BY <1>1, <1>2

\* s2 is s with e in the place of what had its key; unless the Storage was full, nothing
\* else is lost.
Replaces(s2, s, e) ==
  /\ s2 \in Seq(Entries) /\ Keyed(s2) /\ Len(s2) <= Limit
  /\ Range(s2) \subseteq Others(s, e.key) \cup {e}
  /\ Holds(s, e.key) \/ Len(s) < Limit => Range(s2) = Others(s, e.key) \cup {e}

Proper(s) == s \in Seq(Entries) /\ Keyed(s) /\ Len(s) <= Limit

\* A list of which nothing is there twice.
LEMMA OnceIs ==
  ASSUME NEW items
  PROVE  Once(items) \in Bags /\ \A i \in Items : Once(items)[i] = IF i \in items THEN 1 ELSE 0
BY DEF Once, Bags

\* What is appended to a list leaves the list in it.
LEMMA AppendedIs ==
  ASSUME NEW list \in Bags, NEW more \in Bags
  PROVE  /\ Appended(list, more) \in Bags
         /\ \A i \in Items : list[i] > 0 \/ more[i] > 0 => Appended(list, more)[i] > 0
<1>1. ASSUME NEW i \in Items
      PROVE  /\ (IF list[i] + more[i] > 2 THEN 2 ELSE list[i] + more[i]) \in 0..2
             /\ list[i] > 0 \/ more[i] > 0 => (IF list[i] + more[i] > 2 THEN 2 ELSE list[i] + more[i]) > 0
  <2>1. list[i] \in 0..2 /\ more[i] \in 0..2
    BY DEF Bags
  <2> QED BY <2>1
<1> QED BY <1>1 DEF Appended, Bags

\* A merge loses no item of the new list.
LEMMA JoinedIs ==
  ASSUME NEW old \in Bags, NEW new \in Bags
  PROVE  /\ Joined(old, new) \in Bags
         /\ \A i \in Items : new[i] > 0 => Joined(old, new)[i] > 0
<1>1. CASE new = Empty
  <2>1. Joined(old, new) = old /\ \A i \in Items : new[i] = 0
    BY <1>1, OnceIs DEF Joined, Empty
  <2> QED BY <2>1
<1>2. CASE new # Empty /\ kind \in ByIdentity
  <2>1. Joined(old, new) = Appended(old, new)
    BY <1>2 DEF Joined, ByIdentity, ByValue
  <2> QED BY <2>1, AppendedIs
<1>3. CASE new # Empty /\ kind \in ByValue
  <2>1. Joined(old, new) = [i \in Items |-> IF old[i] = 0 THEN new[i] ELSE old[i]]
    BY <1>3 DEF Joined, ByIdentity, ByValue
  <2>2. \A i \in Items : old[i] \in 0..2 /\ new[i] \in 0..2
    BY DEF Bags
  <2> QED BY <2>1, <2>2 DEF Bags
<1>4. CASE new # Empty /\ kind \notin ByIdentity /\ kind \notin ByValue
  <2>1. Joined(old, new) = new
    BY <1>4 DEF Joined
  <2> QED BY <2>1
<1> QED BY <1>1, <1>2, <1>3, <1>4

\* The fields of an entry.
LEMMA EntryIs ==
  ASSUME kind \in Kinds, NEW s, Proper(s), NEW x \in Range(s)
  PROVE  x \in Entries /\ x.id \in Ids /\ x.name \in Nat /\ x.name \in Versions /\ x.tag \in Bags
<1>1. x \in Entries
  <2>1. s \in Seq(Entries)
    BY DEF Proper
  <2> QED BY <2>1, Contents
<1> QED BY <1>1, CacheAssumption DEF Entries, Versions

\* A new key evicts the oldest entry when the Storage is full.
LEMMA AddedIs ==
  ASSUME NEW s, Proper(s), NEW e \in Entries, ~Holds(s, e.key)
  PROVE  Replaces(Evict(Append(s, e)), s, e)
<1> DEFINE r == Append(s, e)
<1>1. s \in Seq(Entries) /\ Keyed(s) /\ Len(s) <= Limit /\ Len(s) \in Nat
  BY LenProperties DEF Proper
<1>2. r \in Seq(Entries) /\ Keyed(r) /\ Len(r) = Len(s) + 1 /\ Range(r) = Range(s) \cup {e}
  BY <1>1, AppendIs
<1>3. Range(s) = Others(s, e.key)
  BY <1>1, HoldsIs DEF Others
<1> HIDE DEF r
<1>4. CASE Len(r) > Limit
  <2>1. Evict(r) = Tail(r) /\ r # << >>
    BY <1>1, <1>2, <1>4, EmptySeq DEF Evict
  <2>2. /\ Tail(r) \in Seq(Entries) /\ Keyed(Tail(r)) /\ Range(Tail(r)) \subseteq Range(r)
        /\ Len(Tail(r)) = Len(r) - 1
    BY <1>2, <2>1, TailIs
  <2>3. Len(Tail(r)) <= Limit /\ ~(Len(s) < Limit)
    BY <1>1, <1>2, <1>4, <2>2, CacheAssumption
  <2> QED BY <1>2, <1>3, <2>1, <2>2, <2>3 DEF Replaces, r
<1>5. CASE ~(Len(r) > Limit)
  <2>1. Evict(r) = r
    BY <1>5 DEF Evict
  <2>2. Len(r) <= Limit
    BY <1>1, <1>2, <1>5, CacheAssumption
  <2> QED BY <1>2, <1>3, <2>1, <2>2 DEF Replaces, r
<1> QED BY <1>4, <1>5

\* Storage.__setitem__().
LEMMA SetItemIs ==
  ASSUME NEW s, Proper(s), NEW e \in Entries
  PROVE  Replaces(SetItem(s, e), s, e)
<1>1. CASE ~Holds(s, e.key)
  BY <1>1, AddedIs DEF SetItem
<1>2. CASE Holds(s, e.key)
  <2> DEFINE p == Place(s, e.key)
             r == [s EXCEPT ![p] = e]
  <2>1. s \in Seq(Entries) /\ Keyed(s) /\ Len(s) <= Limit /\ Len(s) \in Nat /\ DOMAIN s = 1..Len(s)
    BY LenProperties DEF Proper
  <2>2. p \in 1..Len(s) /\ s[p].key = e.key
    BY <1>2, <2>1, Found
  <2>3. SetItem(s, e) = r
    BY <1>2 DEF SetItem
  <2> HIDE DEF p
  <2>4. r \in Seq(Entries) /\ Len(r) = Len(s) /\ \A i \in 1..Len(s) : r[i] = IF i = p THEN e ELSE s[i]
    BY <2>1, <2>2, ExceptSeq
  <2> HIDE DEF r
  <2>5. DOMAIN r = 1..Len(s)
    BY <2>4, LenProperties
  <2>6. Keyed(r)
    BY <2>1, <2>2, <2>4, <2>5 DEF Keyed
  <2>7. ASSUME NEW x \in Range(r) PROVE x \in Others(s, e.key) \cup {e}
    BY <2>1, <2>2, <2>4, <2>5 DEF Range, Others, Keyed
  <2>8. ASSUME NEW x \in Others(s, e.key) \cup {e} PROVE x \in Range(r)
    <3>1. CASE x = e
      BY <2>2, <2>4, <2>5, <3>1 DEF Range
    <3>2. CASE x # e
      <4>1. PICK i \in 1..Len(s) : x = s[i] /\ i # p
        BY <2>1, <2>2, <3>2 DEF Range, Others
      <4> QED BY <4>1, <2>4, <2>5 DEF Range
    <3> QED BY <3>1, <3>2
  <2> QED BY <2>1, <2>3, <2>4, <2>6, <2>7, <2>8 DEF Replaces
<1> QED BY <1>1, <1>2

\* What becomes of e when it is put: a merge leaves an old thread as it is, and joins the
\* lists of what is no thread.
Remains(x, how, s) == how = "merge" /\ kind = "thread" /\ x \in Range(s)
Joins(x, how, s, e) ==
  how = "merge" /\ kind # "thread" /\ \E y \in Range(s) : y.key = e.key /\ x.tag = Joined(y.tag, e.tag)
Becomes(x, how, s, e) ==
  /\ x \in Entries /\ x.key = e.key
  /\ \/ Remains(x, how, s)
     \/ x.id = e.id /\ x.name = e.name /\ (x.tag = e.tag \/ Joins(x, how, s, e))

\* Storage.merge(), of an entry that is there.
LEMMA MergedIs ==
  ASSUME NEW s, Proper(s), NEW e \in Entries, Holds(s, e.key)
  PROVE  Becomes(Merged(Item(s, e.key), e), "merge", s, e)
<1> DEFINE y == Item(s, e.key)
           tag == Joined(y.tag, e.tag)
           gid == y.gid \/ e.gid
           x == Merged(y, e)
<1>1. y \in Entries /\ y \in Range(s) /\ y.key = e.key
  BY Found DEF Proper
<1> HIDE DEF y
<1>2. CASE kind = "thread"
  <2>1. x = y
    BY <1>2 DEF Merged
  <2> QED BY <1>1, <1>2, <2>1 DEF Becomes, Remains, y
<1>3. CASE kind # "thread"
  <2>1. x = [e EXCEPT !.tag = tag, !.gid = gid, !.refs = y.refs]
    BY <1>3 DEF Merged
  <2>2. y.tag \in Bags /\ e.tag \in Bags /\ gid \in BOOLEAN
    BY <1>1 DEF Entries
  <2>3. tag \in Bags
    BY <2>2, JoinedIs
  <2> HIDE DEF gid, x
  <2>4. x.tag = tag /\ x \in Entries /\ x.key = e.key /\ x.id = e.id /\ x.name = e.name
    <3> HIDE DEF tag
    <3> QED BY <1>1, <2>1, <2>2, <2>3 DEF Entries
  <2>5. Joins(x, "merge", s, e)
    BY <1>1, <1>3, <2>4 DEF Joins
  <2> QED BY <2>4, <2>5 DEF Becomes, x, y
<1> QED BY <1>2, <1>3

Puts == {"set", "merge", "update"}

\* Each way to put an entry replaces what had its key.
LEMMA PutIs ==
  ASSUME NEW s, Proper(s), NEW e \in Entries, NEW how \in Puts
  PROVE  \E x \in Entries : Becomes(x, how, s, e) /\ Replaces(Put(how, s, e), s, x)
<1>0. s \in Seq(Entries) /\ Keyed(s) /\ Len(s) <= Limit /\ Len(s) \in Nat
  BY LenProperties DEF Proper
<1>1. CASE how = "set"
  <2>1. Put(how, s, e) = SetItem(s, e)
    BY <1>1 DEF Put
  <2>2. Becomes(e, how, s, e)
    BY DEF Becomes
  <2> QED BY <2>1, <2>2, SetItemIs
<1>2. CASE how = "update"
  <2> DEFINE x == IF Holds(s, e.key) THEN [e EXCEPT !.refs = Item(s, e.key).refs] ELSE e
  <2>1. Put(how, s, e) = SetItem(s, x)
    BY <1>2 DEF Put, Update
  <2>2. x \in Entries /\ x.key = e.key /\ x.id = e.id /\ x.name = e.name /\ x.tag = e.tag
    <3>1. CASE ~Holds(s, e.key)
      BY <3>1
    <3>2. CASE Holds(s, e.key)
      <4> DEFINE refs == Item(s, e.key).refs
      <4>1. refs \in SUBSET Tasks
        <5>1. Item(s, e.key) \in Entries
          BY <1>0, <3>2, Found
        <5> QED BY <5>1 DEF Entries
      <4>2. x = [e EXCEPT !.refs = refs]
        BY <3>2
      <4> HIDE DEF x, refs
      <4> QED BY <4>1, <4>2 DEF Entries
    <3> QED BY <3>1, <3>2
  <2> HIDE DEF x
  <2>3. Becomes(x, how, s, e)
    BY <2>2 DEF Becomes
  <2> QED BY <2>1, <2>2, <2>3, SetItemIs
<1>3. CASE how = "merge" /\ ~Holds(s, e.key)
  <2>1. Put(how, s, e) = SetItem(s, e)
    BY <1>3 DEF Put, Merge
  <2>2. Becomes(e, how, s, e)
    BY DEF Becomes
  <2> QED BY <2>1, <2>2, SetItemIs
<1>4. CASE how = "merge" /\ Holds(s, e.key)
  <2> DEFINE x == Merged(Item(s, e.key), e)
             p == Pop(s, e.key)
  <2>1. Put(how, s, e) = Append(p, x)
    BY <1>4 DEF Put, Merge
  <2>2. Becomes(x, how, s, e)
    BY <1>4, MergedIs
  <2>3. x \in Entries /\ x.key = e.key
    BY <2>2 DEF Becomes
  <2> HIDE DEF x
  <2>4. /\ p \in Seq(Entries) /\ Keyed(p) /\ Range(p) = Others(s, e.key) /\ ~Holds(p, x.key)
        /\ Len(p) = Len(s) - 1
    BY <1>0, <1>4, <2>3, PopIs
  <2> HIDE DEF p
  <2>5. /\ Append(p, x) \in Seq(Entries) /\ Keyed(Append(p, x)) /\ Len(Append(p, x)) = Len(p) + 1
        /\ Range(Append(p, x)) = Range(p) \cup {x}
    BY <2>3, <2>4, AppendIs
  <2>6. Len(Append(p, x)) <= Limit
    BY <1>0, <2>4, <2>5
  <2>7. Replaces(Append(p, x), s, x)
    BY <2>3, <2>4, <2>5, <2>6 DEF Replaces
  <2> QED BY <2>1, <2>2, <2>3, <2>7
<1> QED BY <1>1, <1>2, <1>3, <1>4 DEF Puts

----------------------------------------------------------------------------
(* All that is built *)

N == NObjects[kind]
Stores == {q \in Seq(Entries) : Keyed(q) /\ Len(q) <= Limit}
Batch(built) == DOMAIN built \subseteq Ids /\ \A n \in DOMAIN built : built[n] \in Entries
Distinct(built) == \A m, n \in DOMAIN built : built[m].key = built[n].key => m = n

\* The Storage after each of the steps.
Steps(q, how, s, built) ==
  /\ q \in [0..N -> Stores] /\ q[0] = s /\ q[N] = Each(how, s, built)
  /\ \A n \in 1..N : q[n] = IF n \in DOMAIN built THEN Put(how, q[n - 1], built[n]) ELSE q[n - 1]

\* The objects are numbered.
LEMMA Size == ASSUME kind \in Kinds PROVE N \in Nat \ {0} /\ Ids = 1..N
BY CacheAssumption DEF N, Ids

\* Every way to put or pop leads from Storage to Storage.
LEMMA PutStores ==
  ASSUME NEW s \in Stores, NEW e \in Entries, NEW how \in Puts \cup {"pop"}
  PROVE  Put(how, s, e) \in Stores
<1>1. Proper(s)
  BY DEF Stores, Proper
<1>2. CASE how \in Puts
  <2>1. PICK x \in Entries : Replaces(Put(how, s, e), s, x)
    BY <1>1, <1>2, PutIs
  <2> QED BY <2>1 DEF Replaces, Stores
<1>3. CASE how = "pop"
  <2>1. Put(how, s, e) = Pop(s, e.key)
    BY <1>3 DEF Put
  <2>2. /\ Pop(s, e.key) \in Seq(Entries) /\ Keyed(Pop(s, e.key))
        /\ Len(Pop(s, e.key)) = IF Holds(s, e.key) THEN Len(s) - 1 ELSE Len(s)
        /\ Len(s) \in Nat /\ Len(s) <= Limit
    BY <1>1, PopIs, LenProperties DEF Proper
  <2>3. Len(Pop(s, e.key)) <= Limit
    BY <2>2, CacheAssumption
  <2> QED BY <2>1, <2>2, <2>3 DEF Stores
<1> QED BY <1>2, <1>3

\* The loop goes through Storages, one for every object.
LEMMA EachSteps ==
  ASSUME kind \in Kinds, NEW s, Proper(s), NEW built, Batch(built), NEW how \in Puts \cup {"pop"}
  PROVE  \E q : Steps(q, how, s, built)
<1> DEFINE next(n, x) == IF n \in DOMAIN built THEN Put(how, x, built[n]) ELSE x
           step == [n \in 1..N |-> [x \in Stores |-> next(n, x)]]
           Is(f) == f = [n \in 0..N |-> IF n = 0 THEN s ELSE next(n, f[n - 1])]
           upTo == CHOOSE f : Is(f)
<1>1. N \in Nat /\ s \in Stores
  BY Size DEF Stores, Proper
<1>2. \A n \in 1..N : \A x \in Stores : next(n, x) \in Stores
  BY PutStores DEF Batch
<1> HIDE DEF next
<1>3. step \in [1..N -> [Stores -> Stores]]
  BY <1>2
<1>10. PICK f : Iterates(f, Stores, N, s, step)
  <2> HIDE DEF step
  <2> QED BY <1>1, <1>3, Iterated
<1>4. f \in [0..N -> Stores] /\ f[0] = s /\ \A n \in 1..N : f[n] = step[n][f[n - 1]]
  <2> HIDE DEF step
  <2> QED BY <1>10 DEF Iterates
<1>5. Is(f)
  <2>1. ASSUME NEW n \in 1..N PROVE f[n] = next(n, f[n - 1])
    <3>1. f[n - 1] \in Stores
      BY <1>1, <1>4
    <3>2. step[n] = [x \in Stores |-> next(n, x)]
      OBVIOUS
    <3>3. f[n] = step[n][f[n - 1]]
      BY <1>4
    <3> HIDE DEF step
    <3> QED BY <3>1, <3>2, <3>3
  <2>2. \A n \in 0..N : f[n] = IF n = 0 THEN s ELSE next(n, f[n - 1])
    <3> SUFFICES ASSUME NEW n \in 0..N PROVE f[n] = IF n = 0 THEN s ELSE next(n, f[n - 1])
      OBVIOUS
    <3>1. CASE n = 0
      BY <1>4, <3>1
    <3>2. CASE n # 0
      <4>1. n \in 1..N
        BY <1>1, <3>2
      <4> QED BY <2>1, <3>2, <4>1
    <3> QED BY <3>1, <3>2
  <2>3. DOMAIN f = 0..N /\ f = [n \in 0..N |-> f[n]]
    BY <1>4
  <2> QED BY <2>2, <2>3
<1>6. Is(upTo)
  <2> HIDE DEF Is
  <2> QED BY <1>5
<1>7. Each(how, s, built) = upTo[N]
  BY DEF Each, next, N
<1> HIDE DEF upTo
<1>8. upTo[0] = s /\ \A n \in 1..N : upTo[n] = next(n, upTo[n - 1])
  BY <1>1, <1>6
<1>9. upTo \in [0..N -> Stores]
  <2> DEFINE T == {n \in 0..N : upTo[n] \in Stores}
  <2>1. 0 \in T
    BY <1>1, <1>8
  <2>2. \A n \in 1..N : n - 1 \in T => n \in T
    BY <1>1, <1>2, <1>8
  <2> HIDE DEF T
  <2>3. \A n \in 0..N : n \in T
    BY <1>1, <2>1, <2>2, Climb, Zenon
  <2>4. DOMAIN upTo = 0..N /\ upTo = [n \in 0..N |-> upTo[n]]
    BY <1>6
  <2> QED BY <2>3, <2>4 DEF T
<1> QED BY <1>7, <1>8, <1>9 DEF Steps, next

Alike(x, y) == x.key = y.key /\ x.id = y.id /\ x.name = y.name

\* What is in the Storage has been there or is what was put.
LEMMA EachIs ==
  ASSUME kind \in Kinds, NEW s, Proper(s), NEW built, Batch(built), NEW how \in Puts
  PROVE  /\ Proper(Each(how, s, built))
         /\ \A x \in Range(Each(how, s, built)) :
               x \in Range(s) \/ \E n \in DOMAIN built : Alike(x, built[n])
<1>1. PICK q : Steps(q, how, s, built)
  BY EachSteps
<1>2. N \in Nat /\ \A n \in 0..N : q[n] \in Stores
  BY <1>1, Size DEF Steps
<1>3. Proper(q[N])
  BY <1>2 DEF Stores, Proper
<1> DEFINE T == {n \in 0..N : \A x \in Range(q[n]) :
                    x \in Range(s) \/ \E m \in DOMAIN built : Alike(x, built[m])}
<1>4. 0 \in T
  BY <1>1, <1>2 DEF Steps
<1>5. ASSUME NEW n \in 1..N, n - 1 \in T PROVE n \in T
  <2> SUFFICES ASSUME NEW x \in Range(q[n])
               PROVE  x \in Range(s) \/ \E m \in DOMAIN built : Alike(x, built[m])
    BY <1>2
  <2>1. \A y \in Range(q[n - 1]) : y \in Range(s) \/ \E m \in DOMAIN built : Alike(y, built[m])
    BY <1>5
  <2>2. CASE n \notin DOMAIN built
    BY <1>1, <2>1, <2>2 DEF Steps
  <2>3. CASE n \in DOMAIN built
    <3>1. q[n] = Put(how, q[n - 1], built[n]) /\ Proper(q[n - 1]) /\ built[n] \in Entries
      BY <1>1, <1>2, <2>3 DEF Steps, Stores, Proper, Batch
    <3>2. PICK e \in Entries : Becomes(e, how, q[n - 1], built[n]) /\ Replaces(q[n], q[n - 1], e)
      BY <3>1, PutIs
    <3>3. x \in Range(q[n - 1]) \/ x = e
      BY <3>2 DEF Replaces, Others
    <3>4. e \in Range(q[n - 1]) \/ Alike(e, built[n])
      BY <3>2 DEF Becomes, Remains, Alike
    <3> QED BY <2>1, <2>3, <3>3, <3>4
  <2> QED BY <2>2, <2>3
<1> HIDE DEF T
<1>6. \A n \in 1..N : n - 1 \in T => n \in T
  BY <1>5
<1>7. \A n \in 0..N : n \in T
  BY <1>2, <1>4, <1>6, Climb, Zenon
<1>8. N \in T /\ q[N] = Each(how, s, built)
  BY <1>1, <1>2, <1>7 DEF Steps
<1> QED BY <1>3, <1>8 DEF T

\* What has the key of something that was put is what that became.
Settles(x, how, s, built, M) ==
  \/ x \in Range(s) /\ \A m \in DOMAIN built : m \in M => built[m].key # x.key
  \/ \E m \in DOMAIN built : m \in M /\ Becomes(x, how, s, built[m])

\* After the loop, an entry is what its last put has made of it.
LEMMA EachSettles ==
  ASSUME kind \in Kinds, NEW s, Proper(s), NEW built, Batch(built), Distinct(built), NEW how \in Puts
  PROVE  \A x \in Range(Each(how, s, built)) : Settles(x, how, s, built, Ids)
<1>1. PICK q : Steps(q, how, s, built)
  BY EachSteps
<1>2. N \in Nat /\ Ids = 1..N /\ \A n \in 0..N : q[n] \in Stores
  BY <1>1, Size DEF Steps
<1> DEFINE T == {n \in 0..N : \A x \in Range(q[n]) : Settles(x, how, s, built, 1..n)}
<1>4. 0 \in T
  <2>1. \A m \in DOMAIN built : m \notin 1..0
    OBVIOUS
  <2> QED BY <1>1, <1>2, <2>1 DEF Steps, Settles
<1>5. ASSUME NEW n \in 1..N, n - 1 \in T PROVE n \in T
  <2> SUFFICES ASSUME NEW x \in Range(q[n])
               PROVE  Settles(x, how, s, built, 1..n)
    BY <1>2
  <2>1. \A y \in Range(q[n - 1]) : Settles(y, how, s, built, 1..n - 1)
    BY <1>5
  <2>0. \A m \in DOMAIN built : m \in 1..n <=> m \in 1..n - 1 \/ m = n
    BY <1>2 DEF Batch
  <2>2. CASE n \notin DOMAIN built
    <3>1. q[n] = q[n - 1]
      BY <1>1, <2>2 DEF Steps
    <3>2. Settles(x, how, s, built, 1..n - 1)
      BY <2>1, <3>1
    <3> QED BY <2>0, <2>2, <3>2 DEF Settles
  <2>3. CASE n \in DOMAIN built
    <3>1. q[n] = Put(how, q[n - 1], built[n]) /\ Proper(q[n - 1]) /\ built[n] \in Entries
      BY <1>1, <1>2, <2>3 DEF Steps, Stores, Proper, Batch
    <3>2. PICK e \in Entries : Becomes(e, how, q[n - 1], built[n]) /\ Replaces(q[n], q[n - 1], e)
      BY <3>1, PutIs
    <3>3. (x \in Range(q[n - 1]) /\ x.key # built[n].key) \/ x = e
      BY <3>2 DEF Replaces, Others, Becomes
    <3>4. CASE x \in Range(q[n - 1]) /\ x.key # built[n].key
      <4>1. Settles(x, how, s, built, 1..n - 1)
        BY <2>1, <3>4
      <4> QED BY <2>0, <3>4, <4>1 DEF Settles
    <3>5. CASE x = e
      <4>1. ASSUME NEW y \in Range(q[n - 1]), y.key = built[n].key PROVE y \in Range(s)
        <5>1. Settles(y, how, s, built, 1..n - 1)
          BY <2>1
        <5>2. ASSUME NEW m \in DOMAIN built, m \in 1..n - 1, Becomes(y, how, s, built[m]) PROVE FALSE
          <6>1. built[m].key = built[n].key /\ m # n
            BY <4>1, <5>2, <1>2 DEF Becomes
          <6> QED BY <2>3, <6>1 DEF Distinct
        <5> QED BY <5>1, <5>2 DEF Settles
      <4>2. Becomes(e, how, s, built[n])
        BY <3>2, <4>1 DEF Becomes, Remains, Joins
      <4> QED BY <2>0, <2>3, <3>5, <4>2 DEF Settles
    <3> QED BY <3>3, <3>4, <3>5
  <2> QED BY <2>2, <2>3
<1> HIDE DEF T
<1>6. \A n \in 1..N : n - 1 \in T => n \in T
  BY <1>5
<1>7. \A n \in 0..N : n \in T
  BY <1>2, <1>4, <1>6, Climb, Zenon
<1>8. N \in T /\ q[N] = Each(how, s, built)
  BY <1>1, <1>2, <1>7 DEF Steps
<1> QED BY <1>2, <1>8 DEF T

\* After the loop, nothing is left of what was popped.
LEMMA EachPops ==
  ASSUME kind \in Kinds, NEW s, Proper(s), NEW built, Batch(built)
  PROVE  /\ Proper(Each("pop", s, built))
         /\ \A x \in Range(Each("pop", s, built)) :
               x \in Range(s) /\ \A m \in DOMAIN built : built[m].key # x.key
<1>1. PICK q : Steps(q, "pop", s, built)
  BY EachSteps
<1>2. N \in Nat /\ Ids = 1..N /\ \A n \in 0..N : q[n] \in Stores
  BY <1>1, Size DEF Steps
<1>3. Proper(q[N])
  BY <1>2 DEF Stores, Proper
<1> DEFINE Stays(x, n) == x \in Range(s) /\ \A m \in DOMAIN built : m \in 1..n => built[m].key # x.key
           T == {n \in 0..N : \A x \in Range(q[n]) : Stays(x, n)}
<1>4. 0 \in T
  <2>1. \A m \in DOMAIN built : m \notin 1..0
    OBVIOUS
  <2> QED BY <1>1, <1>2, <2>1 DEF Steps
<1>5. ASSUME NEW n \in 1..N, n - 1 \in T PROVE n \in T
  <2> SUFFICES ASSUME NEW x \in Range(q[n]) PROVE Stays(x, n)
    BY <1>2
  <2>1. \A y \in Range(q[n - 1]) : Stays(y, n - 1)
    BY <1>5
  <2>0. \A m \in DOMAIN built : m \in 1..n <=> m \in 1..n - 1 \/ m = n
    BY <1>2 DEF Batch
  <2>2. CASE n \notin DOMAIN built
    <3>1. q[n] = q[n - 1]
      BY <1>1, <2>2 DEF Steps
    <3> QED BY <2>0, <2>1, <2>2, <3>1
  <2>3. CASE n \in DOMAIN built
    <3>1. q[n] = Pop(q[n - 1], built[n].key) /\ q[n - 1] \in Seq(Entries) /\ Keyed(q[n - 1])
      BY <1>1, <1>2, <2>3 DEF Steps, Stores, Put
    <3>2. x \in Range(q[n - 1]) /\ x.key # built[n].key
      BY <3>1, PopIs DEF Others
    <3> QED BY <2>0, <2>1, <3>2
  <2> QED BY <2>2, <2>3
<1> HIDE DEF T
<1>6. \A n \in 1..N : n - 1 \in T => n \in T
  BY <1>5
<1>7. \A n \in 0..N : n \in T
  BY <1>2, <1>4, <1>6, Climb, Zenon
<1>8. N \in T /\ q[N] = Each("pop", s, built)
  BY <1>1, <1>2, <1>7 DEF Steps
<1> QED BY <1>2, <1>3, <1>8 DEF T, Batch

\* While the keys are few, nothing is evicted.
LEMMA RoomLeft ==
  ASSUME NEW s, Proper(s), NEW K, IsFiniteSet(K), Cardinality(K) <= Limit,
         \A x \in Range(s) : x.key \in K, NEW k \in K, ~Holds(s, k)
  PROVE  Len(s) < Limit
<1> DEFINE m == Len(s) + 1
           f == [i \in 1..m |-> IF i = m THEN k ELSE s[i].key]
<1>1. s \in Seq(Entries) /\ Keyed(s) /\ Len(s) \in Nat /\ DOMAIN s = 1..Len(s)
  BY LenProperties DEF Proper
<1>2. \A i \in 1..Len(s) : s[i].key \in K /\ s[i].key # k
  BY <1>1, Contents DEF Holds
<1>3. f \in Injection(1..m, K)
  <2>1. f \in [1..m -> K]
    BY <1>1, <1>2
  <2>2. ASSUME NEW i \in 1..m, NEW j \in 1..m, f[i] = f[j] PROVE i = j
    <3>1. CASE i = m \/ j = m
      BY <1>1, <1>2, <2>2, <3>1
    <3>2. CASE i # m /\ j # m
      <4>1. i \in DOMAIN s /\ j \in DOMAIN s /\ s[i].key = s[j].key
        BY <1>1, <2>2, <3>2
      <4> QED BY <1>1, <4>1 DEF Keyed
    <3> QED BY <3>1, <3>2
  <2> HIDE DEF f, m
  <2>3. IsInjective(f)
    BY <2>1, <2>2 DEF IsInjective
  <2> QED BY <2>1, <2>3 DEF Injection
<1> HIDE DEF f
<1>4. Cardinality(1..m) <= Cardinality(K)
  BY <1>3, FS_Injection
<1>5. Cardinality(1..m) = m
  <2>1. m \in Int /\ 1 \in Int /\ m >= 1
    BY <1>1
  <2> HIDE DEF m
  <2> QED BY <2>1, FS_Interval
<1>6. Cardinality(K) \in Nat
  BY FS_CardinalityType
<1> QED BY <1>1, <1>4, <1>5, <1>6, CacheAssumption

\* With room for every object there has been, the loop loses nothing and holds all that was put.
LEMMA EachKeeps ==
  ASSUME kind \in Kinds, NEW s, Proper(s), NEW built, Batch(built), NEW how \in Puts,
         NEW K, IsFiniteSet(K), Cardinality(K) <= Limit,
         \A x \in Range(s) : x.key \in K, \A n \in DOMAIN built : built[n].key \in K
  PROVE  /\ \A x \in Range(s) : Holds(Each(how, s, built), x.key)
         /\ \A n \in DOMAIN built : Holds(Each(how, s, built), built[n].key)
<1>1. PICK q : Steps(q, how, s, built)
  BY EachSteps
<1>2. N \in Nat /\ Ids = 1..N /\ \A n \in 0..N : q[n] \in Stores
  BY <1>1, Size DEF Steps
<1> DEFINE In(n, k) == \E x \in Range(q[n]) : x.key = k
           T == {n \in 0..N : /\ \A x \in Range(q[n]) : x.key \in K
                              /\ \A x \in Range(s) : In(n, x.key)
                              /\ \A m \in DOMAIN built : m \in 1..n => In(n, built[m].key)}
<1>4. 0 \in T
  <2>1. \A m \in DOMAIN built : m \notin 1..0
    OBVIOUS
  <2> QED BY <1>1, <1>2, <2>1 DEF Steps
<1>5. ASSUME NEW n \in 1..N, n - 1 \in T PROVE n \in T
  <2>0. \A m \in DOMAIN built : m \in 1..n <=> m \in 1..n - 1 \/ m = n
    BY <1>2 DEF Batch
  <2>1. /\ \A x \in Range(q[n - 1]) : x.key \in K
        /\ \A x \in Range(s) : In(n - 1, x.key)
        /\ \A m \in DOMAIN built : m \in 1..n - 1 => In(n - 1, built[m].key)
    BY <1>5
  <2>2. CASE n \notin DOMAIN built
    <3>1. q[n] = q[n - 1]
      BY <1>1, <2>2 DEF Steps
    <3> QED BY <2>0, <2>1, <2>2, <3>1
  <2>3. CASE n \in DOMAIN built
    <3>1. q[n] = Put(how, q[n - 1], built[n]) /\ Proper(q[n - 1]) /\ built[n] \in Entries
      BY <1>1, <1>2, <2>3 DEF Steps, Stores, Proper, Batch
    <3>2. PICK e \in Entries : Becomes(e, how, q[n - 1], built[n]) /\ Replaces(q[n], q[n - 1], e)
      BY <3>1, PutIs
    <3>3. e.key = built[n].key
      BY <3>2 DEF Becomes
    <3>4. Holds(q[n - 1], e.key) \/ Len(q[n - 1]) < Limit
      BY <2>1, <2>3, <3>1, <3>3, RoomLeft
    <3>5. Range(q[n]) = Others(q[n - 1], e.key) \cup {e}
      BY <3>2, <3>4 DEF Replaces
    <3>6. \A k : In(n - 1, k) => In(n, k)
      BY <3>5 DEF Others
    <3>7. In(n, built[n].key)
      BY <3>3, <3>5
    <3>8. \A x \in Range(q[n]) : x.key \in K
      BY <2>1, <2>3, <3>3, <3>5 DEF Others
    <3> HIDE DEF In
    <3> QED BY <1>2, <2>0, <2>1, <3>6, <3>7, <3>8
  <2> QED BY <2>2, <2>3
<1> HIDE DEF T
<1>6. \A n \in 1..N : n - 1 \in T => n \in T
  BY <1>5
<1>7. \A n \in 0..N : n \in T
  BY <1>2, <1>4, <1>6, Climb, Zenon
<1>8. N \in T /\ q[N] = Each(how, s, built) /\ q[N] \in Seq(Entries)
  BY <1>1, <1>2, <1>7 DEF Steps, Stores
<1> QED BY <1>2, <1>8, HoldsIs DEF T, Batch

----------------------------------------------------------------------------
(* Discord *)

Objects == [at : {"unborn", "alive", "gone"}, name : Versions, tag : SUBSET Items]

\* No object has changed more often than all have.
LEMMA ChangesIs ==
  ASSUME kind \in Kinds, discord \in [Ids -> Objects]
  PROVE  Changes \in Nat /\ \A id \in Ids : discord[id].name <= Changes
<1> DEFINE step == [n \in 1..N |-> [x \in Nat |-> x + discord[n].name]]
           Is(f) == f = [n \in 0..N |-> IF n = 0 THEN 0 ELSE f[n - 1] + discord[n].name]
           sum == CHOOSE f : Is(f)
<1>1. N \in Nat /\ Ids = 1..N /\ MaxChanges[kind] \in Nat
  BY Size, CacheAssumption
<1>2. \A n \in 1..N : discord[n].name \in Nat
  BY <1>1 DEF Objects, Versions
<1>3. step \in [1..N -> [Nat -> Nat]]
  BY <1>2
<1>4. PICK f : Iterates(f, Nat, N, 0, step)
  <2> HIDE DEF step
  <2> QED BY <1>1, <1>3, Iterated
<1>5. f \in [0..N -> Nat] /\ f[0] = 0 /\ \A n \in 1..N : f[n] = step[n][f[n - 1]]
  <2> HIDE DEF step
  <2> QED BY <1>4 DEF Iterates
<1>6. Is(f)
  <2>1. ASSUME NEW n \in 1..N PROVE f[n] = f[n - 1] + discord[n].name
    <3>1. f[n - 1] \in Nat
      BY <1>1, <1>5
    <3>2. step[n] = [x \in Nat |-> x + discord[n].name]
      OBVIOUS
    <3>3. f[n] = step[n][f[n - 1]]
      BY <1>5
    <3> HIDE DEF step
    <3> QED BY <3>1, <3>2, <3>3
  <2>2. ASSUME NEW n \in 0..N PROVE f[n] = IF n = 0 THEN 0 ELSE f[n - 1] + discord[n].name
    <3>1. CASE n = 0
      BY <1>5, <3>1
    <3>2. CASE n # 0
      <4>1. n \in 1..N
        BY <1>1, <3>2
      <4> QED BY <2>1, <3>2, <4>1
    <3> QED BY <3>1, <3>2
  <2>3. DOMAIN f = 0..N /\ f = [n \in 0..N |-> f[n]]
    BY <1>5
  <2> QED BY <2>2, <2>3
<1>7. Is(sum)
  <2> HIDE DEF Is
  <2> QED BY <1>6
<1>8. Changes = sum[N]
  BY DEF Changes, N
<1> HIDE DEF sum
<1>9. sum[0] = 0 /\ \A n \in 1..N : sum[n] = sum[n - 1] + discord[n].name
  BY <1>1, <1>7
<1> DEFINE T == {n \in 0..N : sum[n] \in Nat /\ \A m \in 1..n : discord[m].name <= sum[n]}
<1>10. 0 \in T
  BY <1>1, <1>9
<1>11. ASSUME NEW n \in 1..N, n - 1 \in T PROVE n \in T
  <2>1. sum[n - 1] \in Nat /\ \A m \in 1..n - 1 : discord[m].name <= sum[n - 1]
    BY <1>11
  <2>2. sum[n] = sum[n - 1] + discord[n].name /\ discord[n].name \in Nat
    BY <1>2, <1>9
  <2>3. ASSUME NEW m \in 1..n PROVE discord[m].name <= sum[n]
    <3>1. m \in 1..N
      BY <1>1
    <3>2. discord[m].name \in Nat
      BY <1>2, <3>1
    <3>3. CASE m = n
      BY <2>1, <2>2, <3>3
    <3>4. CASE m # n
      <4>1. m \in 1..n - 1
        BY <1>1, <3>4
      <4> QED BY <2>1, <2>2, <3>2, <4>1
    <3> QED BY <3>3, <3>4
  <2> QED BY <2>1, <2>2, <2>3
<1> HIDE DEF T
<1>12. \A n \in 1..N : n - 1 \in T => n \in T
  BY <1>11
<1>13. \A n \in 0..N : n \in T
  BY <1>1, <1>10, <1>12, Climb, Zenon
<1>14. N \in T
  BY <1>1, <1>13
<1> QED BY <1>1, <1>8, <1>14 DEF T

----------------------------------------------------------------------------
(* The invariant *)

Shots == [name : Versions, tag : SUBSET Items]
Snaps == UNION {[T -> Shots] : T \in SUBSET Ids}
Mails == [op : {"guild", "create", "update", "delete", "bulk", "chunk", "set"}, objs : Snaps]

Deletes == {"delete", "bulk"}
Reborn == {"member", "voice"}
Unlisted == {"message", "event", "stage", "voice", "presence", "user"}

\* What is on its way about an object, and what the last of it says.
Pending(ev, id) == \E i \in DOMAIN ev : id \in DOMAIN ev[i].objs
LastOf(ev, i, id) == \A j \in DOMAIN ev : j > i => id \notin DOMAIN ev[j].objs
Agrees(d, m, id) ==
  /\ m.objs[id].name = d[id].name /\ m.objs[id].tag = d[id].tag
  /\ kind \notin Emojis => (m.op \in Deletes <=> d[id].at = "gone")
MailOf(ev, d, i, id) ==
  /\ d[id].at # "unborn" /\ ev[i].objs[id].name <= d[id].name
  /\ LastOf(ev, i, id) => Agrees(d, ev[i], id)
OneGone(m) ==
  /\ m.op = "delete" => \E id \in Ids : DOMAIN m.objs = {id}
  /\ m.op = "guild" /\ kind \in Unlisted => DOMAIN m.objs = {}

World(d, ev) ==
  /\ d \in [Ids -> Objects] /\ ev \in Seq(Mails)
  /\ \A i \in DOMAIN ev : OneGone(ev[i]) /\ \A id \in DOMAIN ev[i].objs : MailOf(ev, d, i, id)

\* An entry is about an object there has been, and not of a version still to come.
OwnKey(x) == x.key = x.id \/ (x.key = Guild /\ kind \in Emojis)
Stored(s, d) ==
  /\ Proper(s)
  /\ \A x \in Range(s) : OwnKey(x) /\ d[x.id].at # "unborn" /\ x.name <= d[x.id].name

\* Where nothing is on its way, what was told last is so.
Noted(k, ev, d) == \A id \in Ids :
  Pending(ev, id) \/ k[id] = (IF d[id].at = "gone" THEN Gone ELSE d[id].name)

\* An entry is of the version of o, and lacks no item of its list.
Shows(x, o, g) == x.name = o.name /\ Covers(x.tag, o.tag) /\ (x.id \in g \/ x.tag = Once(o.tag))
Current(d, g, x) == d[x.id].at = "alive" /\ Shows(x, d[x.id], g)
Fresh(s, a, g, ev, d) == \A x \in Range(s) : x.id \in a \/ Pending(ev, x.id) \/ Current(d, g, x)

BornIn(d) == {id \in Ids : d[id].at # "unborn"}
Listed(l, s, a, ev, d) ==
  Cardinality(BornIn(d)) <= Limit =>
    \A id \in l : id \in a \/ Pending(ev, id) \/ (d[id].at = "alive" /\ Holds(s, id))

\* A method asks for what it keeps the answer of, and the answer is not of a version
\* still to come.
Fits(keep, effect) ==
  /\ keep = "update" => effect = "modify"
  /\ keep \in Giving => effect = "grant"
  /\ keep \in Taking => effect = "revoke"
  /\ keep = "drop" => effect = "remove"
Shown(objs, d) == \A id \in DOMAIN objs :
  /\ d[id].at # "unborn" /\ objs[id].name <= d[id].name
  /\ objs[id].name = d[id].name => objs[id].tag = d[id].tag
Answered(c, d) ==
  /\ c.objs \in Snaps /\ Shown(c.objs, d)
  /\ c.keep = "update" => c.id \in DOMAIN c.objs
  /\ c.keep \in Giving \cup Taking => DOMAIN c.objs = {c.id}
  /\ c.keep \in Taking => c.items \cap c.objs[c.id].tag = {}
  /\ c.keep = "drop" => c.id \in Ids /\ d[c.id].at = "gone"
CallOf(c, d) ==
  \/ c = Idle
  \/ /\ c.at \in {"sent", "answered"} /\ c.id \in Ids \cup {All} /\ c.items \subseteq Items
     /\ c.keep = "add" => kind \notin Unlisted
     /\ c.keep = "drop" => kind \notin Reborn
     /\ c.at = "sent" => Fits(c.keep, c.effect)
     /\ c.at = "answered" => Answered(c, d)
Called(cs, d) == DOMAIN cs = Tasks /\ cs = [t \in Tasks |-> cs[t]] /\ \A t \in Tasks : CallOf(cs[t], d)

Inv ==
  /\ kind \in Kinds /\ guildCached \in BOOLEAN /\ raised \in BOOLEAN
  /\ listed \subseteq Ids /\ astray \subseteq Ids /\ grown \subseteq Ids /\ known \in [Ids -> 0..Gone]
  /\ World(discord, events) /\ Stored(store, discord) /\ Called(calls, discord)
  /\ ~guildCached \/ kind \in Unlisted => listed = {}
  /\ kind \notin Emojis /\ ~raised =>
       /\ Noted(known, events, discord) /\ Fresh(store, astray, grown, events, discord)
       /\ Listed(listed, store, astray, events, discord)

----------------------------------------------------------------------------
(* Views and mails *)

\* A snap is of some objects.
LEMMA SnapIs ==
  ASSUME NEW objs \in Snaps
  PROVE  DOMAIN objs \subseteq Ids /\ \A id \in DOMAIN objs : objs[id] \in Shots
BY DEF Snaps

\* What is a snap.
LEMMA SnapOf ==
  ASSUME NEW T \in SUBSET Ids, NEW objs \in [T -> Shots]
  PROVE  objs \in Snaps /\ DOMAIN objs = T
BY DEF Snaps

\* A snap of nothing.
LEMMA NoSnap == << >> \in Snaps /\ DOMAIN << >> = {}
<1>1. << >> \in [{} -> Shots] /\ DOMAIN << >> = {}
  OBVIOUS
<1> QED BY <1>1, SnapOf

\* What Discord shows of its objects.
LEMMA ViewIs ==
  ASSUME discord \in [Ids -> Objects], NEW T \in SUBSET Ids
  PROVE  /\ View(T) \in Snaps /\ DOMAIN View(T) = T
         /\ \A id \in T : View(T)[id].name = discord[id].name /\ View(T)[id].tag = discord[id].tag
<1>1. \A id \in T : [name |-> discord[id].name, tag |-> discord[id].tag] \in Shots
  BY DEF Objects, Shots
<1>2. View(T) \in [T -> Shots]
  BY <1>1 DEF View
<1> QED BY <1>2, SnapOf DEF View

\* The processors take the oldest dispatch.
LEMMA Taken ==
  ASSUME NEW d, NEW ev, World(d, ev), ev # << >>
  PROVE  /\ Head(ev) \in Mails /\ World(d, Tail(ev)) /\ OneGone(Head(ev))
         /\ \A id \in Ids : Pending(ev, id) <=> id \in DOMAIN Head(ev).objs \/ Pending(Tail(ev), id)
         /\ \A id \in DOMAIN Head(ev).objs :
               /\ d[id].at # "unborn" /\ Head(ev).objs[id].name <= d[id].name
               /\ Pending(Tail(ev), id) \/ Agrees(d, Head(ev), id)
<1> DEFINE r == Tail(ev)
<1>1. /\ ev \in Seq(Mails) /\ Len(ev) \in Nat \ {0} /\ DOMAIN ev = 1..Len(ev)
      /\ r \in Seq(Mails) /\ Len(r) = Len(ev) - 1 /\ DOMAIN r = 1..Len(r)
      /\ \A i \in 1..Len(r) : r[i] = ev[i + 1]
      /\ Head(ev) = ev[1] /\ ev[1] \in Mails
  <2>1. ev \in Seq(Mails)
    BY DEF World
  <2>2. Len(ev) \in Nat \ {0} /\ DOMAIN ev = 1..Len(ev)
    BY <2>1, EmptySeq, LenProperties
  <2>3. r \in Seq(Mails) /\ Len(r) = Len(ev) - 1 /\ \A i \in 1..Len(r) : r[i] = ev[i + 1]
    BY <2>1, HeadTailProperties
  <2>4. Head(ev) = ev[1] /\ ev[1] \in Mails
    BY <2>1, <2>2
  <2>5. DOMAIN r = 1..Len(r)
    BY <2>3, LenProperties
  <2> QED BY <2>1, <2>2, <2>3, <2>4, <2>5
<1> HIDE DEF r
<1>2. ASSUME NEW i \in DOMAIN r PROVE i + 1 \in DOMAIN ev /\ r[i] = ev[i + 1] /\ i + 1 > 1
  BY <1>1
<1>3. \A i \in DOMAIN ev : i = 1 \/ (i > 1 /\ i - 1 \in DOMAIN r /\ r[i - 1] = ev[i])
  BY <1>1
<1>4. 1 \in DOMAIN ev
  BY <1>1
<1>5. ASSUME NEW id PROVE Pending(ev, id) <=> id \in DOMAIN ev[1].objs \/ Pending(r, id)
  BY <1>2, <1>3, <1>4 DEF Pending
<1>6. ASSUME NEW i \in DOMAIN r, NEW id
      PROVE  LastOf(r, i, id) => LastOf(ev, i + 1, id)
  <2> SUFFICES ASSUME LastOf(r, i, id), NEW j \in DOMAIN ev, j > i + 1
               PROVE  id \notin DOMAIN ev[j].objs
    BY DEF LastOf
  <2>1. j - 1 \in DOMAIN r /\ r[j - 1] = ev[j] /\ j - 1 > i
    BY <1>1
  <2> QED BY <2>1 DEF LastOf
<1>7. World(d, r)
  <2>1. ASSUME NEW i \in DOMAIN r
        PROVE  OneGone(r[i]) /\ \A id \in DOMAIN r[i].objs : MailOf(r, d, i, id)
    <3>1. /\ i + 1 \in DOMAIN ev /\ r[i] = ev[i + 1] /\ OneGone(ev[i + 1])
          /\ \A id \in DOMAIN ev[i + 1].objs : MailOf(ev, d, i + 1, id)
      BY <1>2 DEF World
    <3> QED BY <1>6, <3>1 DEF MailOf
  <2> QED BY <1>1, <2>1 DEF World
<1>8. ASSUME NEW id \in DOMAIN ev[1].objs
      PROVE  /\ d[id].at # "unborn" /\ ev[1].objs[id].name <= d[id].name
             /\ Pending(r, id) \/ Agrees(d, ev[1], id)
  <2>1. MailOf(ev, d, 1, id)
    BY <1>4 DEF World
  <2>2. Pending(r, id) \/ LastOf(ev, 1, id)
    BY <1>1, <1>3 DEF Pending, LastOf
  <2> QED BY <2>1, <2>2 DEF MailOf
<1>9. OneGone(ev[1])
  BY <1>4 DEF World
<1> QED BY <1>1, <1>5, <1>7, <1>8, <1>9 DEF r

\* A behaviour follows one kind: what is said of the next state is said with this one's kind.
LEMMA NextSets ==
  ASSUME kind' = kind
  PROVE  /\ Ids' = Ids /\ Versions' = Versions /\ Gone' = Gone /\ Entries' = Entries
         /\ Objects' = Objects /\ Shots' = Shots /\ Snaps' = Snaps /\ Mails' = Mails
<1>1. Ids' = Ids /\ Versions' = Versions /\ Gone' = Gone
  BY DEF Ids, Versions, Gone
<1>2. Entries' = Entries /\ Objects' = Objects /\ Shots' = Shots
  BY <1>1 DEF Entries, Objects, Shots
<1>3. Snaps' = Snaps
  BY <1>1, <1>2 DEF Snaps
<1>4. Mails' = Mails
  BY <1>3 DEF Mails
<1> QED BY <1>1, <1>2, <1>3, <1>4

LEMMA NextWorld ==
  ASSUME kind' = kind, World(discord', events')
  PROVE  World(discord, events)'
<1>1. Ids' = Ids /\ Objects' = Objects /\ Mails' = Mails
  BY NextSets
<1>2. \A i \in DOMAIN events' : OneGone(events'[i]) => OneGone(events[i])'
  BY <1>1 DEF OneGone
<1>3. \A i \in DOMAIN events' : \A id \in DOMAIN events'[i].objs :
          MailOf(events', discord', i, id) => MailOf(events, discord, i, id)'
  BY DEF MailOf, LastOf, Agrees
<1> QED BY <1>1, <1>2, <1>3 DEF World

LEMMA NextStored ==
  ASSUME kind' = kind, Stored(store', discord')
  PROVE  Stored(store, discord)'
<1>1. Proper(store)'
  BY NextSets DEF Stored, Proper, Keyed
<1> QED BY <1>1 DEF Stored, OwnKey

LEMMA NextCalled ==
  ASSUME kind' = kind, Called(calls', discord')
  PROVE  Called(calls, discord)'
<1>1. Ids' = Ids /\ Snaps' = Snaps
  BY NextSets
<1>2. \A c : Answered(c, discord') => Answered(c, discord)'
  BY <1>1 DEF Answered, Shown
<1>3. \A c : CallOf(c, discord') => CallOf(c, discord)'
  BY <1>1, <1>2 DEF CallOf, Fits
<1> QED BY <1>3 DEF Called

LEMMA NextAgreed ==
  ASSUME kind' = kind
  PROVE  /\ Noted(known', events', discord') => Noted(known, events, discord)'
         /\ Fresh(store', astray', grown', events', discord') => Fresh(store, astray, grown, events, discord)'
         /\ Listed(listed', store', astray', events', discord') => Listed(listed, store, astray, events, discord)'
<1>1. Ids' = Ids /\ Gone' = Gone
  BY NextSets
<1>2. Noted(known', events', discord') => Noted(known, events, discord)'
  BY <1>1 DEF Noted, Pending
<1>3. Fresh(store', astray', grown', events', discord') => Fresh(store, astray, grown, events, discord)'
  BY DEF Fresh, Pending, Current, Shows
<1>4. Listed(listed', store', astray', events', discord') => Listed(listed, store, astray, events, discord)'
  BY <1>1 DEF Listed, Pending, BornIn, Holds
<1> QED BY <1>2, <1>3, <1>4

\* The invariant of the next state from its parts.
LEMMA NextInv ==
  ASSUME kind' = kind, kind \in Kinds, guildCached' \in BOOLEAN, raised' \in BOOLEAN,
         listed' \subseteq Ids, astray' \subseteq Ids, grown' \subseteq Ids, known' \in [Ids -> 0..Gone],
         World(discord', events'), Stored(store', discord'), Called(calls', discord'),
         ~guildCached' \/ kind \in Unlisted => listed' = {},
         kind \notin Emojis /\ ~raised' =>
           /\ Noted(known', events', discord') /\ Fresh(store', astray', grown', events', discord')
           /\ Listed(listed', store', astray', events', discord')
  PROVE  Inv'
<1>1. Ids' = Ids /\ Gone' = Gone
  BY NextSets
<1>2. World(discord, events)' /\ Stored(store, discord)' /\ Called(calls, discord)'
  BY NextWorld, NextStored, NextCalled
<1>3. kind' \notin Emojis /\ ~raised' =>
           /\ Noted(known, events, discord)' /\ Fresh(store, astray, grown, events, discord)'
           /\ Listed(listed, store, astray, events, discord)'
  BY NextAgreed
<1> QED BY <1>1, <1>2, <1>3 DEF Inv

----------------------------------------------------------------------------
(* Discord changes *)

\* An object changes only into a later version of itself.
Later(o, o2) ==
  /\ o.name <= o2.name /\ (o2.name = o.name => o2.tag = o.tag)
  /\ o.at # "unborn" => o2.at # "unborn"
  /\ o.at = "gone" /\ kind \notin Reborn => o2.at = "gone"
Same(o, o2) ==
  /\ o2.name = o.name /\ o2.tag = o.tag
  /\ kind \notin Emojis => o2.at = o.at

\* Discord tells, in m, of all that changes.
Tells(d, d2, m) ==
  /\ d2 \in [Ids -> Objects] /\ m \in Mails /\ OneGone(m)
  /\ \A id \in DOMAIN m.objs : d2[id].at # "unborn" /\ Agrees(d2, m, id)
  /\ \A id \in Ids : id \in DOMAIN m.objs \/ Same(d[id], d2[id])
  /\ \A id \in Ids : Later(d[id], d2[id])
Moves(d, ev, d2, ev2) == \E m \in Mails : ev2 = Append(ev, m) /\ Tells(d, d2, m)

\* Tell() says of the object what is so from now on.
LEMMA TellTells ==
  ASSUME kind \in Kinds, kind' = kind, discord \in [Ids -> Objects], discord' \in [Ids -> Objects],
         NEW id \in Ids, NEW op \in {"create", "update", "delete"}, Tell(op, id),
         discord'[id].at # "unborn", op = "delete" <=> discord'[id].at = "gone",
         op = "delete" => discord'[id].name = discord[id].name /\ discord'[id].tag = discord[id].tag,
         Later(discord[id], discord'[id]), \A u \in Ids \ {id} : discord'[u] = discord[u]
  PROVE  Moves(discord, events, discord', events')
<1>0. Ids' = Ids /\ Alive' = {u \in Ids : discord'[u].at = "alive"}
  BY DEF Ids, Alive
<1>1. \A T \in SUBSET Ids : \A V : V = [u \in T |-> [name |-> discord'[u].name, tag |-> discord'[u].tag]]
          => V \in Snaps /\ DOMAIN V = T /\ \A u \in T : V[u].name = discord'[u].name /\ V[u].tag = discord'[u].tag
  <2> SUFFICES ASSUME NEW T \in SUBSET Ids, NEW V,
                      V = [u \in T |-> [name |-> discord'[u].name, tag |-> discord'[u].tag]]
               PROVE  V \in Snaps /\ DOMAIN V = T /\ \A u \in T : V[u].name = discord'[u].name /\ V[u].tag = discord'[u].tag
    OBVIOUS
  <2>1. \A u \in T : [name |-> discord'[u].name, tag |-> discord'[u].tag] \in Shots
    BY DEF Objects, Shots
  <2>2. V \in [T -> Shots]
    BY <2>1
  <2> QED BY <2>2, SnapOf
<1>2. \A u \in Ids : Later(discord[u], discord'[u])
  <2> SUFFICES ASSUME NEW u \in Ids PROVE Later(discord[u], discord'[u])
    OBVIOUS
  <2>1. CASE u = id
    BY <2>1
  <2>2. CASE u # id
    <3>1. discord'[u] = discord[u] /\ discord[u].name \in Nat
      BY <2>2, CacheAssumption DEF Objects, Versions
    <3> QED BY <3>1 DEF Later
  <2> QED BY <2>1, <2>2
<1>3. \A u \in Ids \ {id} : Same(discord[u], discord'[u])
  BY DEF Same
<1>4. CASE kind \in Emojis
  <2> DEFINE V == View(Alive)'
             m == [op |-> "set", objs |-> V]
  <2>1. events' = Append(events, m)
    BY <1>4 DEF Tell, Event
  <2>2. V = [u \in Alive' |-> [name |-> discord'[u].name, tag |-> discord'[u].tag]]
    BY DEF View
  <2>3. Alive' \in SUBSET Ids
    BY <1>0
  <2>4. V \in Snaps /\ DOMAIN V = Alive' /\ \A u \in Alive' : V[u].name = discord'[u].name /\ V[u].tag = discord'[u].tag
    BY <1>1, <2>2, <2>3
  <2> HIDE DEF V
  <2>5. m \in Mails /\ OneGone(m) /\ m.objs = V /\ m.op = "set"
    BY <2>4 DEF Mails, OneGone
  <2> HIDE DEF m
  <2>6. \A u \in DOMAIN m.objs : discord'[u].at # "unborn" /\ Agrees(discord', m, u)
    BY <1>0, <1>4, <2>4, <2>5 DEF Agrees
  <2>7. id \in DOMAIN m.objs \/ Same(discord[id], discord'[id])
    <3>1. CASE op = "delete"
      BY <1>4, <3>1 DEF Same
    <3>2. CASE op # "delete"
      <4>1. discord'[id].at = "alive"
        BY <3>2 DEF Objects
      <4> QED BY <1>0, <2>4, <2>5, <4>1
    <3> QED BY <3>1, <3>2
  <2>8. Tells(discord, discord', m)
    BY <1>2, <1>3, <2>5, <2>6, <2>7 DEF Tells
  <2> QED BY <2>1, <2>5, <2>8 DEF Moves
<1>5. CASE kind \notin Emojis
  <2> DEFINE V == View({id})'
             m == [op |-> op, objs |-> V]
  <2>1. events' = Append(events, m)
    BY <1>5 DEF Tell, Event
  <2>2. V = [u \in {id} |-> [name |-> discord'[u].name, tag |-> discord'[u].tag]]
    BY DEF View
  <2> HIDE DEF V
  <2>3. {id} \in SUBSET Ids
    OBVIOUS
  <2>4. /\ V \in Snaps /\ DOMAIN V = {id}
        /\ \A u \in {id} : V[u].name = discord'[u].name /\ V[u].tag = discord'[u].tag
    BY <1>1, <2>2, <2>3
  <2>5. m \in Mails /\ OneGone(m) /\ m.objs = V /\ m.op = op
    BY <2>4 DEF Mails, OneGone
  <2> HIDE DEF m
  <2>6. Agrees(discord', m, id)
    BY <2>4, <2>5 DEF Agrees, Deletes
  <2>8. Tells(discord, discord', m)
    BY <1>2, <1>3, <2>4, <2>5, <2>6 DEF Tells
  <2> QED BY <2>1, <2>5, <2>8 DEF Moves
<1> QED BY <1>4, <1>5

\* A change of one object leaves room for its version.
LEMMA NewVersion ==
  ASSUME kind \in Kinds, discord \in [Ids -> Objects], NEW id \in Ids, Changes < MaxChanges[kind]
  PROVE  discord[id].name + 1 \in Versions /\ discord[id].name \in Nat
<1>1. discord[id].name \in 0..MaxChanges[kind] /\ MaxChanges[kind] \in Nat
  BY CacheAssumption DEF Objects, Versions
<1>2. Changes \in Nat /\ discord[id].name <= Changes
  BY ChangesIs
<1> QED BY <1>1, <1>2 DEF Versions

\* An object that appears.
LEMMA AppearMoves ==
  ASSUME kind \in Kinds, kind' = kind, discord \in [Ids -> Objects], NEW id \in Ids, Appear(id)
  PROVE  discord' \in [Ids -> Objects] /\ Moves(discord, events, discord', events') /\ discord'[id].at = "alive"
<1>1. PICK b \in SUBSET Items : discord' = [discord EXCEPT ![id] = [at |-> "alive", name |-> @.name + 1, tag |-> b]]
  <2>1. Lists[kind] \in SUBSET SUBSET Items
    BY CacheAssumption
  <2> QED BY <2>1 DEF Appear
<1>2. discord[id].name + 1 \in Versions /\ discord[id].name \in Nat
  BY NewVersion DEF Appear
<1> DEFINE o == [at |-> "alive", name |-> discord[id].name + 1, tag |-> b]
<1>3. o \in Objects /\ o.name = discord[id].name + 1 /\ o.at = "alive"
  BY <1>2 DEF Objects
<1>4. discord' = [discord EXCEPT ![id] = o]
  BY <1>1
<1> HIDE DEF o
<1>5. discord' \in [Ids -> Objects] /\ discord'[id] = o /\ \A u \in Ids \ {id} : discord'[u] = discord[u]
  BY <1>3, <1>4
<1>6. Later(discord[id], discord'[id])
  <2>1. discord[id].at = "gone" => kind \in Reborn
    BY DEF Appear, CanBeBorn, Reborn
  <2> QED BY <1>2, <1>3, <1>5, <2>1 DEF Later
<1>7. Moves(discord, events, discord', events')
  BY <1>3, <1>5, <1>6, TellTells DEF Appear
<1> QED BY <1>3, <1>5, <1>7

\* An object that changes.
LEMMA ChangeMoves ==
  ASSUME kind \in Kinds, kind' = kind, discord \in [Ids -> Objects],
         NEW id \in Ids, NEW lists \in SUBSET SUBSET Items, Change(id, lists)
  PROVE  /\ discord' \in [Ids -> Objects] /\ Moves(discord, events, discord', events')
         /\ discord'[id].at = "alive" /\ discord'[id].tag \in lists
<1>1. PICK b \in lists : discord' = [discord EXCEPT ![id].name = @ + 1, ![id].tag = b]
  BY DEF Change
<1>2. discord[id].name + 1 \in Versions /\ discord[id].name \in Nat
  BY NewVersion DEF Change
<1> DEFINE o == [discord[id] EXCEPT !.name = @ + 1, !.tag = b]
<1>3. o \in Objects /\ o.name = discord[id].name + 1 /\ o.at = discord[id].at /\ o.tag = b
  BY <1>2 DEF Objects
<1>4. discord' = [discord EXCEPT ![id] = o]
  BY <1>1
<1> HIDE DEF o
<1>5. discord' \in [Ids -> Objects] /\ discord'[id] = o /\ \A u \in Ids \ {id} : discord'[u] = discord[u]
  BY <1>3, <1>4
<1>6. discord[id].at = "alive"
  BY DEF Change, Alive
<1>7. Later(discord[id], discord'[id])
  BY <1>2, <1>3, <1>5, <1>6 DEF Later
<1>8. Moves(discord, events, discord', events')
  BY <1>3, <1>5, <1>6, <1>7, TellTells DEF Change
<1> QED BY <1>3, <1>5, <1>6, <1>8

\* An object that vanishes.
LEMMA VanishMoves ==
  ASSUME kind \in Kinds, kind' = kind, discord \in [Ids -> Objects], NEW id \in Ids, Vanish(id)
  PROVE  /\ discord' \in [Ids -> Objects] /\ Moves(discord, events, discord', events')
         /\ discord'[id].at = "gone"
<1>1. discord' = [discord EXCEPT ![id].at = "gone"]
  BY DEF Vanish
<1> DEFINE o == [discord[id] EXCEPT !.at = "gone"]
<1>3. o \in Objects /\ o.name = discord[id].name /\ o.at = "gone" /\ o.tag = discord[id].tag /\ o.name \in Nat
  BY CacheAssumption DEF Objects, Versions
<1>4. discord' = [discord EXCEPT ![id] = o]
  BY <1>1
<1> HIDE DEF o
<1>5. discord' \in [Ids -> Objects] /\ discord'[id] = o /\ \A u \in Ids \ {id} : discord'[u] = discord[u]
  BY <1>3, <1>4
<1>6. Later(discord[id], discord'[id])
  BY <1>3, <1>5 DEF Later
<1>7. Moves(discord, events, discord', events')
  BY <1>3, <1>5, <1>6, TellTells DEF Vanish
<1> QED BY <1>3, <1>5, <1>7

\* What is told of many objects at once.
LEMMA BulkMoves ==
  ASSUME kind \in Kinds, kind' = kind, discord \in [Ids -> Objects], Bulk
  PROVE  discord' \in [Ids -> Objects] /\ Moves(discord, events, discord', events')
<1>0. Alive \in SUBSET Ids /\ \A id \in Ids : discord[id].name \in Nat
  BY CacheAssumption DEF Alive, Objects, Versions
<1> DEFINE V == View(Alive)
<1>1. V \in Snaps /\ DOMAIN V = Alive
      /\ \A id \in Alive : V[id].name = discord[id].name /\ V[id].tag = discord[id].tag
  BY <1>0, ViewIs
<1> HIDE DEF V
<1>2. CASE kind = "message"
  <2> DEFINE m == [op |-> "bulk", objs |-> V]
  <2>1. /\ events' = Append(events, m)
        /\ discord' = [id \in Ids |-> [discord[id] EXCEPT !.at = IF id \in Alive THEN "gone" ELSE @]]
    BY <1>2 DEF Bulk, Event, V
  <2>2. m \in Mails /\ OneGone(m) /\ m.objs = V /\ m.op = "bulk"
    BY <1>1 DEF Mails, OneGone
  <2> HIDE DEF m
  <2>3. ASSUME NEW id \in Ids
        PROVE  /\ discord'[id] \in Objects /\ Later(discord[id], discord'[id])
               /\ discord'[id].name = discord[id].name /\ discord'[id].tag = discord[id].tag
               /\ id \in Alive => discord'[id].at = "gone"
               /\ id \notin Alive => discord'[id].at = discord[id].at
    <3>1. CASE id \in Alive
      <4>1. discord'[id] = [discord[id] EXCEPT !.at = "gone"]
        BY <2>1, <3>1
      <4>2. /\ discord'[id] \in Objects /\ discord'[id].at = "gone"
            /\ discord'[id].name = discord[id].name /\ discord'[id].tag = discord[id].tag
        BY <4>1 DEF Objects
      <4> QED BY <1>0, <3>1, <4>2 DEF Later
    <3>2. CASE id \notin Alive
      <4>1. discord'[id] = discord[id]
        BY <2>1, <3>2 DEF Objects
      <4> QED BY <1>0, <3>2, <4>1 DEF Later
    <3> QED BY <3>1, <3>2
  <2>4. discord' \in [Ids -> Objects]
    BY <2>1, <2>3
  <2>5. Tells(discord, discord', m)
    BY <1>1, <1>0, <2>2, <2>3, <2>4 DEF Tells, Agrees, Deletes, Same
  <2> QED BY <2>1, <2>2, <2>4, <2>5 DEF Moves
<1>3. CASE kind # "message"
  <2> DEFINE m == [op |-> "chunk", objs |-> V]
  <2>1. events' = Append(events, m) /\ discord' = discord
    BY <1>3 DEF Bulk, Event, V
  <2>2. m \in Mails /\ OneGone(m) /\ m.objs = V /\ m.op = "chunk"
    BY <1>1 DEF Mails, OneGone
  <2> HIDE DEF m
  <2>3. \A id \in Ids : Later(discord[id], discord[id]) /\ Same(discord[id], discord[id])
    BY <1>0 DEF Later, Same
  <2>4. \A id \in Alive : discord[id].at = "alive"
    BY DEF Alive
  <2>5. Tells(discord, discord', m)
    BY <1>1, <1>0, <2>1, <2>2, <2>3, <2>4 DEF Tells, Agrees, Deletes
  <2> QED BY <2>1, <2>2, <2>5 DEF Moves
<1> QED BY <1>2, <1>3

\* What a change leaves true.
LEMMA Moved ==
  ASSUME kind \in Kinds, NEW d, NEW ev, World(d, ev), NEW d2, NEW ev2, Moves(d, ev, d2, ev2)
  PROVE  /\ World(d2, ev2)
         /\ \A id \in Ids : /\ Pending(ev, id) => Pending(ev2, id)
                            /\ Pending(ev2, id) \/ Same(d[id], d2[id])
                            /\ Later(d[id], d2[id])
<1>1. PICK m \in Mails : ev2 = Append(ev, m) /\ Tells(d, d2, m)
  BY DEF Moves
<1>2. /\ ev2 \in Seq(Mails) /\ Len(ev2) = Len(ev) + 1 /\ Len(ev) \in Nat /\ ev \in Seq(Mails)
      /\ DOMAIN ev2 = 1..Len(ev) + 1 /\ DOMAIN ev = 1..Len(ev)
      /\ \A i \in 1..Len(ev) : ev2[i] = ev[i]
      /\ ev2[Len(ev) + 1] = m
  <2>1. ev \in Seq(Mails)
    BY DEF World
  <2>2. Len(ev) \in Nat /\ DOMAIN ev = 1..Len(ev)
    BY <2>1, LenProperties
  <2>3. /\ ev2 \in Seq(Mails) /\ Len(ev2) = Len(ev) + 1
        /\ \A i \in 1..Len(ev) : ev2[i] = ev[i]
        /\ ev2[Len(ev) + 1] = m
    BY <1>1, <2>1, AppendProperties
  <2> QED BY <2>1, <2>2, <2>3, LenProperties
<1>3. ASSUME NEW id PROVE Pending(ev2, id) <=> Pending(ev, id) \/ id \in DOMAIN m.objs
  <2>1. \A i \in DOMAIN ev2 : (i \in DOMAIN ev /\ ev2[i] = ev[i]) \/ (i = Len(ev) + 1 /\ ev2[i] = m)
    BY <1>2
  <2>2. \A i \in DOMAIN ev : i \in DOMAIN ev2 /\ ev2[i] = ev[i]
    BY <1>2
  <2>3. Len(ev) + 1 \in DOMAIN ev2 /\ ev2[Len(ev) + 1] = m
    BY <1>2
  <2> QED BY <2>1, <2>2, <2>3 DEF Pending
<1>4. ASSUME NEW id \in Ids PROVE Later(d[id], d2[id]) /\ (id \in DOMAIN m.objs \/ Same(d[id], d2[id]))
  BY <1>1 DEF Tells
<1>5. ASSUME NEW i \in DOMAIN ev2 PROVE OneGone(ev2[i]) /\ \A id \in DOMAIN ev2[i].objs : MailOf(ev2, d2, i, id)
  <2>1. CASE i = Len(ev) + 1
    <3>1. ev2[i] = m
      BY <1>2, <2>1
    <3>2. ASSUME NEW id \in DOMAIN m.objs PROVE m.objs[id].name <= d2[id].name
      <4>1. m.objs \in Snaps
        BY DEF Mails
      <4>2. id \in Ids
        BY <4>1, SnapIs
      <4>3. m.objs[id].name = d2[id].name /\ d2[id].name \in Nat
        BY <1>1, <4>2, CacheAssumption DEF Tells, Agrees, Objects, Versions
      <4> QED BY <4>3
    <3> QED BY <1>1, <3>1, <3>2 DEF Tells, MailOf
  <2>2. CASE i # Len(ev) + 1
    <3>1. i \in DOMAIN ev /\ ev2[i] = ev[i] /\ i < Len(ev) + 1
      BY <1>2, <2>2
    <3>2. OneGone(ev[i]) /\ ev[i] \in Mails
      BY <1>2, <3>1 DEF World
    <3>3. ASSUME NEW id \in DOMAIN ev[i].objs PROVE MailOf(ev2, d2, i, id)
      <4>1. MailOf(ev, d, i, id)
        BY <3>1 DEF World
      <4>2. id \in Ids /\ ev[i].objs[id] \in Shots
        BY <3>2, SnapIs DEF Mails
      <4>3. Later(d[id], d2[id])
        BY <1>4, <4>2
      <4>4. d2[id].at # "unborn" /\ ev[i].objs[id].name <= d2[id].name
        <5>1. ev[i].objs[id].name \in Nat /\ d[id].name \in Nat /\ d2[id].name \in Nat
          BY <1>1, <4>2, CacheAssumption DEF World, Tells, Objects, Shots, Versions
        <5> QED BY <4>1, <4>3, <5>1 DEF MailOf, Later
      <4>5. ASSUME LastOf(ev2, i, id) PROVE Agrees(d2, ev[i], id)
        <5>1. id \notin DOMAIN m.objs
          BY <1>2, <3>1, <4>5 DEF LastOf
        <5>2. LastOf(ev, i, id)
          BY <1>2, <4>5 DEF LastOf
        <5>3. Same(d[id], d2[id])
          BY <1>4, <4>2, <5>1
        <5> QED BY <4>1, <5>2, <5>3 DEF MailOf, Agrees, Same
      <4> QED BY <3>1, <4>4, <4>5 DEF MailOf
    <3> QED BY <3>1, <3>2, <3>3
  <2> QED BY <2>1, <2>2
<1>6. World(d2, ev2)
  BY <1>1, <1>2, <1>5 DEF World, Tells
<1> QED BY <1>3, <1>4, <1>6

\* What there has been stays so.
LEMMA BornGrows ==
  ASSUME kind \in Kinds, NEW d, NEW d2, \A id \in Ids : d[id].at # "unborn" => d2[id].at # "unborn"
  PROVE  /\ IsFiniteSet(BornIn(d)) /\ Cardinality(BornIn(d)) \in Nat
         /\ Cardinality(BornIn(d2)) <= Limit => Cardinality(BornIn(d)) <= Limit
<1>1. IsFiniteSet(Ids)
  BY Size, FS_Interval
<1>2. IsFiniteSet(BornIn(d)) /\ IsFiniteSet(BornIn(d2))
  BY <1>1, FS_Subset DEF BornIn
<1>3. BornIn(d) \subseteq BornIn(d2)
  BY DEF BornIn
<1>4. Cardinality(BornIn(d)) <= Cardinality(BornIn(d2))
  BY <1>2, <1>3, FS_Subset
<1>5. Cardinality(BornIn(d)) \in Nat /\ Cardinality(BornIn(d2)) \in Nat
  BY <1>2, FS_CardinalityType
<1> QED BY <1>2, <1>4, <1>5, CacheAssumption

\* What a call keeps stays true of later objects.
LEMMA CalledMoved ==
  ASSUME kind \in Kinds, NEW d \in [Ids -> Objects], NEW d2 \in [Ids -> Objects],
         \A id \in Ids : Later(d[id], d2[id]), NEW c, CallOf(c, d)
  PROVE  CallOf(c, d2)
<1>1. CASE c = Idle
  BY <1>1 DEF CallOf
<1>2. CASE c # Idle
  <2>1. ASSUME c.at = "answered" PROVE Answered(c, d2)
    <3>1. Answered(c, d) /\ (c.keep = "drop" => kind \notin Reborn)
      BY <1>2, <2>1 DEF CallOf
    <3>2. Shown(c.objs, d2)
      <4> SUFFICES ASSUME NEW id \in DOMAIN c.objs
                   PROVE  /\ d2[id].at # "unborn" /\ c.objs[id].name <= d2[id].name
                          /\ c.objs[id].name = d2[id].name => c.objs[id].tag = d2[id].tag
        BY DEF Shown
      <4>1. id \in Ids /\ c.objs[id] \in Shots
        BY <3>1, SnapIs DEF Answered
      <4>2. c.objs[id].name \in Nat /\ d[id].name \in Nat /\ d2[id].name \in Nat
        BY <4>1, CacheAssumption DEF Objects, Shots, Versions
      <4>3. /\ d[id].at # "unborn" /\ c.objs[id].name <= d[id].name
            /\ c.objs[id].name = d[id].name => c.objs[id].tag = d[id].tag
        BY <3>1 DEF Answered, Shown
      <4> QED BY <4>1, <4>2, <4>3 DEF Later
    <3>3. c.keep = "drop" => d2[c.id].at = "gone"
      BY <3>1 DEF Answered, Later
    <3> QED BY <3>1, <3>2, <3>3 DEF Answered
  <2> QED BY <1>2, <2>1 DEF CallOf
<1> QED BY <1>1, <1>2

\* The cache as it is, while Discord's objects change.
LEMMA CacheMoved ==
  ASSUME kind \in Kinds, NEW d, NEW ev, World(d, ev), NEW d2, NEW ev2, Moves(d, ev, d2, ev2),
         NEW s, Stored(s, d), NEW k, NEW a, NEW g, NEW l, l \subseteq Ids
  PROVE  /\ Stored(s, d2)
         /\ kind \notin Emojis /\ Noted(k, ev, d) => Noted(k, ev2, d2)
         /\ kind \notin Emojis /\ Fresh(s, a, g, ev, d) => Fresh(s, a, g, ev2, d2)
         /\ kind \notin Emojis /\ Listed(l, s, a, ev, d) => Listed(l, s, a, ev2, d2)
<1>1. /\ World(d2, ev2)
      /\ \A id \in Ids : /\ Pending(ev, id) => Pending(ev2, id)
                         /\ Pending(ev2, id) \/ Same(d[id], d2[id])
                         /\ Later(d[id], d2[id])
  BY Moved
<1>2. d \in [Ids -> Objects] /\ d2 \in [Ids -> Objects]
  BY <1>1 DEF World
<1>3. \A x \in Range(s) : x \in Entries /\ x.id \in Ids
  BY EntryIs DEF Stored
<1>4. Stored(s, d2)
  <2> SUFFICES ASSUME NEW x \in Range(s) PROVE d2[x.id].at # "unborn" /\ x.name <= d2[x.id].name
    BY DEF Stored
  <2>1. x.name \in Nat /\ d[x.id].name \in Nat /\ d2[x.id].name \in Nat
    BY <1>2, <1>3, CacheAssumption DEF Entries, Objects, Versions
  <2> QED BY <1>1, <1>3, <2>1 DEF Stored, Later
<1>5. ASSUME kind \notin Emojis, Noted(k, ev, d) PROVE Noted(k, ev2, d2)
  BY <1>1, <1>5 DEF Noted, Same
<1>6. ASSUME kind \notin Emojis, Fresh(s, a, g, ev, d) PROVE Fresh(s, a, g, ev2, d2)
  <2> SUFFICES ASSUME NEW x \in Range(s) PROVE x.id \in a \/ Pending(ev2, x.id) \/ Current(d2, g, x)
    BY DEF Fresh
  <2>1. x.id \in a \/ Pending(ev, x.id) \/ Current(d, g, x)
    BY <1>6 DEF Fresh
  <2>2. Same(d[x.id], d2[x.id]) \/ Pending(ev2, x.id)
    BY <1>1, <1>3
  <2>3. CASE Current(d, g, x) /\ Same(d[x.id], d2[x.id])
    BY <1>6, <2>3 DEF Current, Same, Shows
  <2> QED BY <1>1, <1>3, <2>1, <2>2, <2>3
<1>7. ASSUME kind \notin Emojis, Listed(l, s, a, ev, d) PROVE Listed(l, s, a, ev2, d2)
  <2>1. Cardinality(BornIn(d2)) <= Limit => Cardinality(BornIn(d)) <= Limit
    BY <1>1, BornGrows DEF Later
  <2> QED BY <1>1, <1>7, <2>1 DEF Listed, Same
<1> QED BY <1>4, <1>5, <1>6, <1>7

----------------------------------------------------------------------------
(* The processors *)

Roomful == Cardinality(BornIn(discord)) <= Limit

\* The entries b are built from objs.
Of(b, objs) ==
  /\ DOMAIN b = DOMAIN objs
  /\ \A id \in DOMAIN objs : /\ b[id] \in Entries /\ OwnKey(b[id]) /\ b[id].id = id
                             /\ b[id].name = objs[id].name /\ b[id].tag = Once(objs[id].tag)

\* An entry that is built.
LEMMA EntryOf ==
  ASSUME NEW id \in Ids, NEW k \in {id, Key(id)}, NEW o \in Shots
  PROVE  /\ Entry(k, id, o) \in Entries /\ OwnKey(Entry(k, id, o)) /\ Entry(k, id, o).id = id
         /\ Entry(k, id, o).name = o.name /\ Entry(k, id, o).tag = Once(o.tag) /\ Entry(k, id, o).key = k
<1>1. k \in Ids \cup {Guild} /\ (k = id \/ (k = Guild /\ kind \in Emojis))
  BY DEF Key
<1>2. Once(o.tag) \in Bags
  BY OnceIs
<1> QED BY <1>1, <1>2 DEF Entry, Entries, OwnKey, Shots

\* What is built from a snap is of the snap.
LEMMA BuiltIs ==
  ASSUME NEW objs \in Snaps
  PROVE  Of(Built(objs), objs) /\ Of(UnderOwnId(objs), objs) /\ Of(FromGuild(objs), objs)
<1>0. \A id \in DOMAIN objs : id \in Ids /\ objs[id] \in Shots
  BY SnapIs
<1>1. Of(Built(objs), objs)
  <2>1. \A id \in DOMAIN objs : Built(objs)[id] = Entry(Key(id), id, objs[id])
    BY DEF Built, Obj
  <2>2. DOMAIN Built(objs) = DOMAIN objs
    BY DEF Built
  <2> QED BY <1>0, <2>1, <2>2, EntryOf DEF Of
<1>2. Of(UnderOwnId(objs), objs)
  <2>1. \A id \in DOMAIN objs : UnderOwnId(objs)[id] = Entry(id, id, objs[id])
    BY DEF UnderOwnId
  <2>2. DOMAIN UnderOwnId(objs) = DOMAIN objs
    BY DEF UnderOwnId
  <2> QED BY <1>0, <2>1, <2>2, EntryOf DEF Of
<1>3. Of(FromGuild(objs), objs)
  <2>2. DOMAIN FromGuild(objs) = DOMAIN objs
    BY DEF FromGuild
  <2>3. ASSUME NEW id \in DOMAIN objs
        PROVE  LET e == FromGuild(objs)[id] IN
               /\ e \in Entries /\ OwnKey(e) /\ e.id = id /\ e.name = objs[id].name /\ e.tag = Once(objs[id].tag)
    <3> DEFINE e == FromGuild(objs)[id]
               f == Entry(Key(id), id, objs[id])
    <3>1. e = [f EXCEPT !.gid = (kind # "channel")]
      BY DEF FromGuild, Obj
    <3>2. f \in Entries /\ OwnKey(f) /\ f.id = id /\ f.name = objs[id].name /\ f.tag = Once(objs[id].tag)
      BY <1>0, EntryOf
    <3> HIDE DEF e, f
    <3>3. e \in Entries /\ e.key = f.key /\ e.id = f.id /\ e.name = f.name /\ e.tag = f.tag
      BY <3>1, <3>2 DEF Entries
    <3>4. OwnKey(e)
      BY <3>2, <3>3 DEF OwnKey
    <3> QED BY <3>2, <3>3, <3>4 DEF e
  <2> QED BY <2>2, <2>3 DEF Of
<1> QED BY <1>1, <1>2, <1>3

\* Such entries are a batch; under distinct keys, but for emojis and stickers.
LEMMA OfIs ==
  ASSUME NEW objs \in Snaps, NEW b, Of(b, objs)
  PROVE  Batch(b) /\ (kind \notin Emojis => Distinct(b) /\ \A id \in DOMAIN objs : b[id].key = id)
<1>1. Batch(b)
  BY SnapIs DEF Of, Batch
<1>2. ASSUME kind \notin Emojis PROVE Distinct(b) /\ \A id \in DOMAIN objs : b[id].key = id
  BY <1>2 DEF Of, OwnKey, Distinct
<1> QED BY <1>1, <1>2

\* Where a dispatch, or an answer, is put into the Storage.
LEMMA PutsOwn ==
  ASSUME kind \in Kinds, NEW s, Proper(s), NEW objs \in Snaps, NEW b, Of(b, objs), NEW how \in Puts,
         \A x \in Range(s) : OwnKey(x)
  PROVE  LET s2 == Each(how, s, b) IN
         /\ Proper(s2)
         /\ \A x \in Range(s2) :
               x \in Range(s) \/ (x.id \in DOMAIN objs /\ OwnKey(x) /\ x.name = objs[x.id].name)
         /\ \A x \in Range(s2) : x \in Range(s) \/ \E id \in DOMAIN objs : x.key = b[id].key
<1> DEFINE s2 == Each(how, s, b)
<1>1. Batch(b)
  BY OfIs
<1>2. Proper(s2) /\ \A x \in Range(s2) : x \in Range(s) \/ \E n \in DOMAIN b : Alike(x, b[n])
  BY <1>1, EachIs
<1> HIDE DEF s2
<1>3. ASSUME NEW x, NEW n \in DOMAIN b, Alike(x, b[n])
      PROVE  x.id \in DOMAIN objs /\ OwnKey(x) /\ x.name = objs[x.id].name
  BY <1>3 DEF Of, Alike, OwnKey
<1>4. \A x \in Range(s2) : x \in Range(s) \/ \E id \in DOMAIN objs : x.key = b[id].key
  BY <1>2 DEF Of, Alike
<1> QED BY <1>2, <1>3, <1>4 DEF s2

\* What is put becomes what Discord says, but for what a merge leaves or lets grow.
ShowsPut(x, how, s, objs) == Shows(x, objs[x.id], IF how = "merge" THEN Grows(s, objs) ELSE {})
LEMMA PutsFresh ==
  ASSUME kind \in Kinds, kind \notin Emojis, NEW s, Proper(s), NEW objs \in Snaps, NEW b, Of(b, objs),
         NEW how \in Puts, \A x \in Range(s) : OwnKey(x)
  PROVE  \A x \in Range(Each(how, s, b)) :
            \/ x \in Range(s) /\ x.id \notin DOMAIN objs
            \/ x.id \in DOMAIN objs /\ how = "merge" /\ x.id \in Left(s, objs)
            \/ x.id \in DOMAIN objs /\ ShowsPut(x, how, s, objs)
<1>1. Batch(b) /\ Distinct(b) /\ \A id \in DOMAIN objs : b[id].key = id
  BY OfIs
<1> SUFFICES ASSUME NEW x \in Range(Each(how, s, b))
             PROVE  \/ x \in Range(s) /\ x.id \notin DOMAIN objs
                    \/ x.id \in DOMAIN objs /\ how = "merge" /\ x.id \in Left(s, objs)
                    \/ x.id \in DOMAIN objs /\ ShowsPut(x, how, s, objs)
  OBVIOUS
<1>2. Settles(x, how, s, b, Ids)
  BY <1>1, EachSettles
<1>3. CASE x \in Range(s) /\ \A m \in DOMAIN b : m \in Ids => b[m].key # x.key
  <2>1. x.key = x.id
    BY <1>3 DEF OwnKey
  <2> QED BY <1>1, <1>3, <2>1, SnapIs DEF Of
<1>4. CASE \E m \in DOMAIN b : m \in Ids /\ Becomes(x, how, s, b[m])
  <2>1. PICK m \in DOMAIN objs : Becomes(x, how, s, b[m])
    BY <1>4 DEF Of
  <2>2. b[m].name = objs[m].name /\ b[m].tag = Once(objs[m].tag) /\ b[m].key = m /\ b[m].id = m
    BY <1>1 DEF Of
  <2>3. s \in Seq(Entries) /\ Keyed(s) /\ objs[m] \in Shots
    BY SnapIs DEF Proper
  <2>4. Once(objs[m].tag) \in Bags /\ \A i \in objs[m].tag : i \in Items /\ Once(objs[m].tag)[i] > 0
    BY <2>3, OnceIs DEF Shots
  <2>5. CASE Remains(x, how, s)
    <3>1. x \in Range(s) /\ x.key = m /\ how = "merge" /\ kind = "thread"
      BY <2>1, <2>2, <2>5 DEF Becomes, Remains
    <3>2. x.id = m /\ Holds(s, m) /\ Item(s, m) = x
      BY <2>3, <3>1, Unique DEF OwnKey
    <3>3. CASE x.name = objs[m].name /\ x.tag = Once(objs[m].tag)
      BY <2>4, <3>2, <3>3 DEF ShowsPut, Shows, Covers
    <3>4. CASE ~(x.name = objs[m].name /\ x.tag = Once(objs[m].tag))
      BY <3>1, <3>2, <3>4 DEF Left
    <3> QED BY <3>3, <3>4
  <2>6. CASE x.id = m /\ x.name = objs[m].name /\ x.tag = Once(objs[m].tag)
    BY <2>4, <2>6 DEF ShowsPut, Shows, Covers
  <2>7. CASE x.id = m /\ x.name = objs[m].name /\ Joins(x, how, s, b[m])
    <3>1. PICK y \in Range(s) : y.key = m /\ x.tag = Joined(y.tag, Once(objs[m].tag))
      BY <2>2, <2>7 DEF Joins
    <3>2. Holds(s, m) /\ Item(s, m) = y /\ y.tag \in Bags
      BY <2>3, <3>1, Unique, EntryIs
    <3>3. Key(m) = m /\ how = "merge" /\ kind # "thread"
      BY <2>7 DEF Key, Joins
    <3>4. Covers(x.tag, objs[m].tag)
      BY <2>4, <3>1, <3>2, JoinedIs DEF Covers
    <3>5. x.tag = Once(objs[m].tag) \/ m \in Grows(s, objs)
      BY <3>1, <3>2, <3>3 DEF Grows
    <3> QED BY <2>7, <3>3, <3>4, <3>5 DEF ShowsPut, Shows
  <2> QED BY <2>1, <2>2, <2>5, <2>6, <2>7 DEF Becomes
<1> QED BY <1>2, <1>3, <1>4 DEF Settles

\* As long as there is room, what was held and what is put is held.
LEMMA PutsHeld ==
  ASSUME kind \in Kinds, kind \notin Emojis, discord \in [Ids -> Objects], Roomful,
         NEW s, Stored(s, discord), NEW objs \in Snaps, NEW b, Of(b, objs), NEW how \in Puts,
         \A id \in DOMAIN objs : discord[id].at # "unborn"
  PROVE  /\ \A id : Holds(s, id) => Holds(Each(how, s, b), id)
         /\ \A id \in DOMAIN objs : Holds(Each(how, s, b), id)
<1> DEFINE K == BornIn(discord)
<1>1. Batch(b) /\ \A id \in DOMAIN objs : b[id].key = id
  BY OfIs
<1>2. IsFiniteSet(K) /\ Cardinality(K) <= Limit
  BY BornGrows DEF Roomful
<1>3. Proper(s) /\ s \in Seq(Entries)
  BY DEF Stored, Proper
<1>4. \A x \in Range(s) : x.key \in K
  BY <1>3, EntryIs DEF Stored, OwnKey, BornIn
<1>5. \A n \in DOMAIN b : b[n].key \in K
  BY <1>1, SnapIs DEF Of, BornIn
<1> HIDE DEF K
<1>6. /\ \A x \in Range(s) : Holds(Each(how, s, b), x.key)
      /\ \A n \in DOMAIN b : Holds(Each(how, s, b), b[n].key)
  BY <1>1, <1>2, <1>3, <1>4, <1>5, EachKeeps
<1> QED BY <1>1, <1>3, <1>6, HoldsIs DEF Of

\* What NeverBack says of a step.
NoneBack ==
  \A id \in Ids :
      /\ Holds(store, id) /\ Holds(store', id) /\ Item(store, id).id = Item(store', id).id
      /\ Item(store', id).name < Item(store, id).name
      => id \in astray' \/ Pending(events', id)

\* Every step is to keep the invariant, and not to go back.
Safe == Inv' /\ NoneBack

\* What is in the Storage has been there, or is not known to be older.
Onward(s2, a2, ev2) == \A y \in Range(s2) :
  y.key \in Ids =>
     \/ \E x \in Range(store) : Alike(x, y)
     \/ y.id \in a2 \/ Pending(ev2, y.id)
     \/ discord[y.id].name <= y.name

\* A step that goes onward does not go back.
LEMMA NotBack ==
  ASSUME Inv, Proper(store'), Onward(store', astray', events')
  PROVE  NoneBack
<1> SUFFICES ASSUME NEW id \in Ids, Holds(store, id), Holds(store', id),
                    Item(store, id).id = Item(store', id).id,
                    Item(store', id).name < Item(store, id).name,
                    id \notin astray', ~Pending(events', id)
             PROVE  FALSE
  BY DEF NoneBack
<1> DEFINE x == Item(store, id)
           y == Item(store', id)
<1>1. /\ kind \in Kinds /\ Stored(store, discord) /\ discord \in [Ids -> Objects]
      /\ store \in Seq(Entries) /\ Keyed(store) /\ Proper(store)
  BY DEF Inv, World, Stored, Proper
<1>2. x \in Range(store) /\ x.key = id /\ x \in Entries
  BY <1>1, Found
<1>3. y \in Range(store') /\ y.key = id /\ y \in Entries
  <2>1. store' \in Seq(Entries)
    BY DEF Proper
  <2> QED BY <2>1, Found
<1>4. id # Guild
  BY <1>1, Size DEF Guild
<1>5. x.id = id /\ x.name <= discord[id].name
  BY <1>1, <1>2, <1>4 DEF Stored, OwnKey
<1>6. y.name < x.name /\ y.id = id
  BY <1>5
<1>7. x.name \in Nat /\ y.name \in Nat /\ discord[id].name \in Nat
  BY <1>1, <1>2, <1>3, CacheAssumption DEF Entries, Objects, Versions
<1> HIDE DEF x, y
<1>8. \A z \in Range(store) : z.key = id => z = x
  BY <1>1, <1>2, Unique DEF x
<1>9. CASE \E z \in Range(store) : Alike(z, y)
  <2>1. PICK z \in Range(store) : Alike(z, y)
    BY <1>9
  <2>2. z = x /\ y.name = z.name
    BY <1>3, <1>8, <2>1 DEF Alike
  <2> QED BY <1>6, <1>7, <2>2
<1>10. CASE discord[y.id].name <= y.name
  BY <1>5, <1>6, <1>7, <1>10
<1> QED BY <1>3, <1>6, <1>9, <1>10 DEF Onward

\* Nor does one that leaves the Storage alone.
LEMMA SameBack ==
  ASSUME Inv, store' = store
  PROVE  NoneBack
<1>1. Proper(store)
  BY DEF Inv, Stored
<1>2. Onward(store, astray', events')
  BY DEF Onward, Alike
<1> QED BY <1>1, <1>2, NotBack

\* What every entry is after a dispatch, and what it is when the kind's keys are its ids.
ToldOwn(s, s2, objs) == \A x \in Range(s2) :
  x \in Range(s) \/ (x.id \in DOMAIN objs /\ OwnKey(x) /\ x.name = objs[x.id].name)
ToldFresh(s, s2, objs, a, a2, g, g2, gone) == \A x \in Range(s2) :
  \/ x \in Range(s) /\ x.id \notin DOMAIN objs /\ (x.id \in a => x.id \in a2) /\ (x.id \in g => x.id \in g2)
  \/ x.id \in DOMAIN objs /\ ~gone /\ (x.id \in a2 \/ Shows(x, objs[x.id], g2))
ToldListed(l, l2, s, s2, objs, a, a2, gone) == \A id \in l2 :
  \/ id \in l /\ id \notin DOMAIN objs /\ (id \in a => id \in a2) /\ (Holds(s, id) => Holds(s2, id))
  \/ id \in DOMAIN objs /\ ~gone /\ Holds(s2, id)

\* What a processor takes.
LEMMA TakeIs ==
  ASSUME Inv, NEW k, NEW op, Take(k, op)
  PROVE  /\ kind = k /\ ~raised /\ Head(events).op = op
         /\ events # << >> /\ events' = Tail(events) /\ kind' = kind /\ discord' = discord
         /\ kind \in Kinds /\ discord \in [Ids -> Objects]
         /\ Objs \in Snaps /\ Told \subseteq Ids /\ \A id \in Told : Objs[id] \in Shots
         /\ World(discord, events') /\ (op = "delete" => \E id \in Ids : Told = {id})
         /\ \A id \in Ids : Pending(events, id) <=> id \in Told \/ Pending(events', id)
         /\ \A id \in Told : /\ discord[id].at # "unborn" /\ Objs[id].name <= discord[id].name
                             /\ Pending(events', id) \/ Agrees(discord, Head(events), id)
<1>1. /\ kind = k /\ ~raised /\ Head(events).op = op /\ events # << >>
      /\ events' = Tail(events) /\ kind' = kind /\ discord' = discord
  BY DEF Take
<1>2. World(discord, events) /\ kind \in Kinds /\ discord \in [Ids -> Objects]
  BY DEF Inv, World
<1>3. /\ Head(events) \in Mails /\ World(discord, Tail(events)) /\ OneGone(Head(events))
      /\ \A id \in Ids : Pending(events, id) <=> id \in DOMAIN Head(events).objs \/ Pending(Tail(events), id)
      /\ \A id \in DOMAIN Head(events).objs :
            /\ discord[id].at # "unborn" /\ Head(events).objs[id].name <= discord[id].name
            /\ Pending(Tail(events), id) \/ Agrees(discord, Head(events), id)
  BY <1>1, <1>2, Taken
<1>4. Objs \in Snaps
  BY <1>3 DEF Mails, Objs
<1>5. Told \subseteq Ids /\ \A id \in Told : Objs[id] \in Shots
  BY <1>4, SnapIs DEF Told
<1> QED BY <1>1, <1>2, <1>3, <1>4, <1>5 DEF Told, Objs, OneGone

NotedAs(op) ==
  known' = [id \in Ids |-> IF id \in Told THEN (IF op \in Deletes THEN Gone ELSE Objs[id].name) ELSE known[id]]

\* What a processor stores has been there or is told.
LEMMA StoredProcessed ==
  ASSUME Inv, NEW k, NEW op, Take(k, op), NEW s2, Proper(s2), ToldOwn(store, s2, Objs)
  PROVE  Stored(s2, discord)
<1> SUFFICES ASSUME NEW x \in Range(s2)
             PROVE  OwnKey(x) /\ discord[x.id].at # "unborn" /\ x.name <= discord[x.id].name
  BY DEF Stored
<1>1. Stored(store, discord)
  BY DEF Inv
<1>2. CASE x \in Range(store)
  BY <1>1, <1>2 DEF Stored
<1>3. CASE x.id \in Told /\ OwnKey(x) /\ x.name = Objs[x.id].name
  BY <1>3, TakeIs
<1> QED BY <1>2, <1>3 DEF ToldOwn, Told

\* What is told is not older, or more is on its way.
LEMMA ToldOnward ==
  ASSUME Inv, NEW k, NEW op, Take(k, op), NEW s2, ToldOwn(store, s2, Objs), NEW a2
  PROVE  Onward(s2, a2, events')
<1> SUFFICES ASSUME NEW y \in Range(s2)
             PROVE  \/ \E x \in Range(store) : Alike(x, y)
                    \/ Pending(events', y.id) \/ discord[y.id].name <= y.name
  BY DEF Onward
<1>1. CASE y \in Range(store)
  BY <1>1 DEF Alike
<1>2. CASE y.id \in Told /\ y.name = Objs[y.id].name
  <2>1. /\ kind \in Kinds /\ discord \in [Ids -> Objects] /\ Told \subseteq Ids
        /\ \A id \in Told : Pending(events', id) \/ Agrees(discord, Head(events), id)
    BY TakeIs
  <2>2. discord[y.id].name \in Nat
    BY <1>2, <2>1, CacheAssumption DEF Objects, Versions
  <2> QED BY <1>2, <2>1, <2>2 DEF Agrees, Objs
<1> QED BY <1>1, <1>2 DEF ToldOwn, Told

\* What every processor that raises nothing does, and keeps.
LEMMA Processed ==
  ASSUME Inv, NEW k, NEW op, Take(k, op), ~raised', raised' \in BOOLEAN, UNCHANGED calls,
         guildCached' \in BOOLEAN, listed' \subseteq Ids, astray' \subseteq Ids, grown' \subseteq Ids, NotedAs(op),
         ~guildCached' \/ kind \in Unlisted => listed' = {},
         Proper(store'), ToldOwn(store, store', Objs),
         kind \notin Emojis =>
           /\ ToldFresh(store, store', Objs, astray, astray', grown, grown', op \in Deletes)
           /\ Roomful => ToldListed(listed, listed', store, store', Objs, astray, astray', op \in Deletes)
  PROVE  Safe
<1>1. /\ kind = k /\ ~raised /\ Head(events).op = op
      /\ kind' = kind /\ discord' = discord /\ kind \in Kinds /\ discord \in [Ids -> Objects]
      /\ Told \subseteq Ids /\ \A id \in Told : Objs[id] \in Shots
      /\ World(discord, events')
      /\ \A id \in Ids : Pending(events, id) <=> id \in Told \/ Pending(events', id)
      /\ \A id \in Told : Pending(events', id) \/ Agrees(discord, Head(events), id)
  BY TakeIs
<1>2. Stored(store', discord)
  BY StoredProcessed
<1>3. known' \in [Ids -> 0..Gone]
  <2>1. Gone \in Nat /\ MaxChanges[kind] \in Nat
    BY <1>1, CacheAssumption DEF Gone
  <2>2. \A id \in Told : Objs[id].name \in 0..Gone
    BY <1>1, <2>1 DEF Shots, Versions, Gone
  <2>3. known \in [Ids -> 0..Gone] /\ Gone \in 0..Gone
    BY <2>1 DEF Inv
  <2> QED BY <2>2, <2>3 DEF NotedAs
<1>4. ASSUME kind \notin Emojis
      PROVE  /\ Noted(known', events', discord) /\ Fresh(store', astray', grown', events', discord)
             /\ Listed(listed', store', astray', events', discord)
  <2>1. /\ Noted(known, events, discord) /\ Fresh(store, astray, grown, events, discord)
        /\ Listed(listed, store, astray, events, discord)
    BY <1>1, <1>4 DEF Inv
  <2>2. ASSUME NEW id \in Told, ~Pending(events', id)
        PROVE  /\ Objs[id].name = discord[id].name /\ Objs[id].tag = discord[id].tag
               /\ op \in Deletes <=> discord[id].at = "gone"
    BY <1>1, <1>4, <2>2 DEF Agrees, Objs
  <2>3. Noted(known', events', discord)
    <3> SUFFICES ASSUME NEW id \in Ids, ~Pending(events', id)
                 PROVE  known'[id] = (IF discord[id].at = "gone" THEN Gone ELSE discord[id].name)
      BY DEF Noted
    <3>1. CASE id \in Told
      <4>1. known'[id] = IF op \in Deletes THEN Gone ELSE Objs[id].name
        BY <3>1 DEF NotedAs
      <4> QED BY <2>2, <3>1, <4>1
    <3>2. CASE id \notin Told
      <4>1. known'[id] = known[id] /\ ~Pending(events, id)
        BY <1>1, <3>2 DEF NotedAs
      <4> QED BY <2>1, <4>1 DEF Noted
    <3> QED BY <3>1, <3>2
  <2>4. Fresh(store', astray', grown', events', discord)
    <3> SUFFICES ASSUME NEW x \in Range(store'), x.id \notin astray', ~Pending(events', x.id)
                 PROVE  Current(discord, grown', x)
      BY DEF Fresh
    <3>1. CASE /\ x \in Range(store) /\ x.id \notin Told /\ (x.id \in astray => x.id \in astray')
               /\ (x.id \in grown => x.id \in grown')
      <4>1. x.id \in Ids
        BY <3>1, EntryIs DEF Inv, Stored
      <4>2. Current(discord, grown, x)
        BY <1>1, <2>1, <3>1, <4>1 DEF Fresh
      <4> QED BY <3>1, <4>2 DEF Current, Shows
    <3>2. CASE x.id \in Told /\ ~(op \in Deletes) /\ Shows(x, Objs[x.id], grown')
      <4>1. discord[x.id].at # "gone" /\ discord[x.id].at # "unborn" /\ discord[x.id] \in Objects
        BY <1>1, <2>2, <3>2, TakeIs
      <4>2. discord[x.id].at = "alive"
        BY <4>1 DEF Objects
      <4> QED BY <2>2, <3>2, <4>2 DEF Current, Shows
    <3> QED BY <1>4, <3>1, <3>2 DEF ToldFresh, Told
  <2>5. Listed(listed', store', astray', events', discord)
    <3> SUFFICES ASSUME Roomful, NEW id \in listed', id \notin astray', ~Pending(events', id)
                 PROVE  discord[id].at = "alive" /\ Holds(store', id)
      BY DEF Listed, Roomful
    <3>1. CASE id \in listed /\ id \notin Told /\ (id \in astray => id \in astray') /\ (Holds(store, id) => Holds(store', id))
      BY <1>1, <2>1, <3>1 DEF Listed, Roomful
    <3>2. CASE id \in Told /\ ~(op \in Deletes) /\ Holds(store', id)
      <4>1. discord[id].at # "gone" /\ discord[id].at # "unborn" /\ discord[id] \in Objects
        BY <1>1, <2>2, <3>2, TakeIs
      <4> QED BY <3>2, <4>1 DEF Objects
    <3> QED BY <1>4, <3>1, <3>2 DEF ToldListed, Told
  <2> QED BY <2>3, <2>4, <2>5
<1>5. Called(calls', discord)
  <2>1. calls' = calls /\ Called(calls, discord)
    BY DEF Inv
  <2> QED BY <2>1
<1>6. Inv'
  BY <1>1, <1>2, <1>3, <1>4, <1>5, NextInv
<1>7. NoneBack
  BY ToldOnward, NotBack
<1> QED BY <1>6, <1>7 DEF Safe

\* A processor that puts what a dispatch tells into the Storage.
LEMMA PutsProcessed ==
  ASSUME Inv, NEW k, NEW op, Take(k, op), op \notin Deletes, UNCHANGED <<raised, calls>>,
         NEW how \in Puts, NEW b, Of(b, Objs), store' = Each(how, store, b), NotedAs(op),
         guildCached' \in {guildCached, TRUE},
         listed' = listed \/ (guildCached /\ listed' = listed \cup Told), kind \in Unlisted => listed' = listed,
         astray' \subseteq Ids, kind \notin Emojis => astray \ Told \subseteq astray',
         grown' \subseteq Ids, kind \notin Emojis => grown \ Told \subseteq grown',
         how = "merge" /\ kind \notin Emojis =>
            Left(store, Objs) \subseteq astray' /\ Grows(store, Objs) \subseteq grown'
  PROVE  Safe
<1>1. /\ kind \in Kinds /\ ~raised /\ discord \in [Ids -> Objects] /\ Objs \in Snaps /\ Told \subseteq Ids
      /\ \A id \in Told : discord[id].at # "unborn"
  BY TakeIs
<1>2. /\ Stored(store, discord) /\ Proper(store) /\ \A x \in Range(store) : OwnKey(x)
      /\ guildCached \in BOOLEAN /\ listed \subseteq Ids
      /\ ~guildCached \/ kind \in Unlisted => listed = {}
  BY DEF Inv, Stored
<1>3. Proper(store') /\ ToldOwn(store, store', Objs)
  BY <1>1, <1>2, PutsOwn DEF ToldOwn
<1>4. ASSUME kind \notin Emojis PROVE ToldFresh(store, store', Objs, astray, astray', grown, grown', op \in Deletes)
  <2>1. \A x \in Range(store') :
            \/ x \in Range(store) /\ x.id \notin Told
            \/ x.id \in Told /\ how = "merge" /\ x.id \in Left(store, Objs)
            \/ x.id \in Told /\ ShowsPut(x, how, store, Objs)
    BY <1>1, <1>2, <1>4, PutsFresh DEF Told
  <2>2. /\ \A id \in astray : id \in Told \/ id \in astray'
        /\ \A id \in grown : id \in Told \/ id \in grown'
        /\ how = "merge" => \A id \in Left(store, Objs) : id \in astray'
        /\ how = "merge" => \A id \in Grows(store, Objs) : id \in grown'
    BY <1>4
  <2>3. \A x : ShowsPut(x, how, store, Objs) => Shows(x, Objs[x.id], grown')
    BY <2>2 DEF ShowsPut, Shows
  <2>4. \A x \in Range(store') :
            \/ /\ x \in Range(store) /\ x.id \notin Told /\ (x.id \in astray => x.id \in astray')
               /\ (x.id \in grown => x.id \in grown')
            \/ x.id \in Told /\ (x.id \in astray' \/ Shows(x, Objs[x.id], grown'))
    BY <2>1, <2>2, <2>3
  <2> QED BY <2>4 DEF ToldFresh, Told
<1>5. ASSUME kind \notin Emojis, Roomful
      PROVE  ToldListed(listed, listed', store, store', Objs, astray, astray', op \in Deletes)
  <2>1. /\ \A id : Holds(store, id) => Holds(store', id)
        /\ \A id \in Told : Holds(store', id)
    BY <1>1, <1>2, <1>5, PutsHeld DEF Told
  <2> QED BY <1>5, <2>1 DEF ToldListed, Told
<1>6. ~guildCached' \/ kind \in Unlisted => listed' = {}
  BY <1>2
<1>7. /\ listed' \subseteq Ids /\ guildCached' \in BOOLEAN /\ ~raised' /\ raised' \in BOOLEAN
      /\ UNCHANGED calls
  BY <1>1, <1>2 DEF Inv
<1>8. kind \notin Emojis =>
         /\ ToldFresh(store, store', Objs, astray, astray', grown, grown', op \in Deletes)
         /\ Roomful => ToldListed(listed, listed', store, store', Objs, astray, astray', op \in Deletes)
  BY <1>4, <1>5
<1> QED BY <1>3, <1>6, <1>7, <1>8, Processed

\* The processors that add.
LEMMA AddsInv == ASSUME Inv, NEW k, k \notin Unlisted, Adds(k), UNCHANGED calls PROVE Safe
<1>1. Take(k, "create") /\ store' = Each("merge", store, Built(Objs)) /\ UNCHANGED <<raised, guildCached>>
  BY DEF Adds, Goes
<1>2. kind = k /\ Objs \in Snaps /\ Of(Built(Objs), Objs) /\ Told \subseteq Ids
  BY <1>1, TakeIs, BuiltIs
<1>3. NotedAs("create")
  BY DEF Adds, Note, Latest, NotedAs, Deletes
<1>4. /\ Left(store, Objs) \subseteq Told /\ astray' = (astray \ Told) \cup Left(store, Objs)
      /\ Grows(store, Objs) \subseteq Told /\ grown' = (grown \ Told) \cup Grows(store, Objs)
  BY DEF Left, Grows, Told, Adds, Mostly
<1>5. listed' = listed \/ (guildCached /\ listed' = listed \cup Told)
  BY DEF Adds, List
<1>6. astray' \subseteq Ids /\ grown' \subseteq Ids
  BY <1>2, <1>4 DEF Inv
<1>7. "create" \notin Deletes /\ "merge" \in Puts
  BY DEF Deletes, Puts
<1> QED BY <1>1, <1>2, <1>3, <1>4, <1>5, <1>6, <1>7, PutsProcessed

\* The processors that set or update.
LEMMA ExactlyInv ==
  ASSUME Inv, NEW k, NEW op, NEW how \in {"set", "update"}, Exactly(k, op, how), op \notin Deletes,
         UNCHANGED calls, UNCHANGED listed \/ (List(Told) /\ k \notin Unlisted)
  PROVE  Safe
<1>1. Take(k, op) /\ store' = Each(how, store, Built(Objs)) /\ UNCHANGED <<raised, guildCached>>
  BY DEF Exactly, Goes
<1>2. kind = k /\ Objs \in Snaps /\ Of(Built(Objs), Objs) /\ Told \subseteq Ids
  BY <1>1, TakeIs, BuiltIs
<1>3. NotedAs(op)
  BY DEF Exactly, Note, Latest, NotedAs
<1>4. astray' = astray \ Told /\ grown' = grown \ Told
  BY DEF Exactly, Right
<1>5. listed' = listed \/ (guildCached /\ listed' = listed \cup Told)
  BY DEF List
<1>6. astray' \subseteq Ids /\ grown' \subseteq Ids
  BY <1>2, <1>4 DEF Inv
<1>7. how \in Puts /\ how # "merge"
  BY DEF Puts
<1> QED BY <1>1, <1>2, <1>3, <1>4, <1>5, <1>6, <1>7, PutsProcessed

\* guild_create().
LEMMA GuildCreateInv == ASSUME Inv, guild_create, UNCHANGED calls PROVE Safe
<1>1. PICK op \in {"guild", "create"} : Take(kind, op) /\ (op = "create" => kind = "guild")
  BY DEF guild_create
<1>2. Objs \in Snaps /\ Of(FromGuild(Objs), Objs) /\ Told \subseteq Ids
  BY <1>1, TakeIs, BuiltIs
<1>3. NotedAs(op)
  BY <1>1 DEF guild_create, Note, Latest, NotedAs, Deletes
<1>4. /\ Left(store, Objs) \subseteq Told /\ astray' = (astray \ Told) \cup Left(store, Objs)
      /\ Grows(store, Objs) \subseteq Told /\ grown' = (grown \ Told) \cup Grows(store, Objs)
      /\ store' = Each("merge", store, FromGuild(Objs)) /\ UNCHANGED raised /\ guildCached' = TRUE
  BY DEF Left, Grows, Told, guild_create, Mostly
<1>5. listed' = listed \/ (guildCached /\ listed' = listed \cup Told)
  BY DEF guild_create, List
<1>6. astray' \subseteq Ids /\ grown' \subseteq Ids
  BY <1>2, <1>4 DEF Inv
<1>7. op \notin Deletes /\ "merge" \in Puts
  BY <1>1 DEF Deletes, Puts
<1>8. kind \in Unlisted => listed' = listed
  <2>1. events # << >> /\ World(discord, events) /\ Head(events).op = op
    BY <1>1, TakeIs DEF Inv
  <2>2. OneGone(Head(events))
    BY <2>1, Taken
  <2>3. kind \in Unlisted => Told = {}
    BY <1>1, <2>1, <2>2 DEF OneGone, Told, Objs, Unlisted
  <2> QED BY <1>5, <2>3
<1> QED BY <1>1, <1>2, <1>3, <1>4, <1>5, <1>6, <1>7, <1>8, PutsProcessed

\* The processors of the whole list of emojis or stickers.
LEMMA SetUpdateInv ==
  ASSUME Inv, NEW k \in Emojis, SetUpdate(k), UNCHANGED calls, ~raised'
  PROVE  Safe
<1>1. Take(k, "set")
  BY DEF SetUpdate
<1>2. kind = k /\ Objs \in Snaps /\ Of(UnderOwnId(Objs), Objs) /\ Told \subseteq Ids
  BY <1>1, TakeIs, BuiltIs
<1>3. /\ store' = Each("merge", store, UnderOwnId(Objs)) /\ UNCHANGED <<raised, guildCached, astray, grown>>
      /\ List(Told) /\ Note(Told, Latest)
  BY DEF SetUpdate, Raise, Goes
<1>4. NotedAs("set")
  BY <1>3 DEF Note, Latest, NotedAs, Deletes
<1>5. listed' = listed \/ (guildCached /\ listed' = listed \cup Told)
  BY <1>3 DEF List
<1>6. astray' \subseteq Ids /\ grown' \subseteq Ids
  BY <1>3 DEF Inv
<1>7. "set" \notin Deletes /\ "merge" \in Puts /\ k \notin Unlisted
  BY DEF Deletes, Puts, Unlisted, Emojis
<1> QED BY <1>1, <1>2, <1>3, <1>4, <1>5, <1>6, <1>7, PutsProcessed

\* guild_members_chunk(), of a cached guild.
LEMMA ChunkInv == ASSUME Inv, guild_members_chunk, UNCHANGED calls, ~raised' PROVE Safe
<1>1. Take("member", "chunk")
  BY DEF guild_members_chunk
<1>2. kind = "member" /\ Objs \in Snaps /\ Of(Built(Objs), Objs) /\ Told \subseteq Ids
  BY <1>1, TakeIs, BuiltIs
<1>3. /\ store' = Each("set", store, Built(Objs)) /\ UNCHANGED <<raised, guildCached>>
      /\ List(Told) /\ Note(Told, Latest) /\ astray' = astray \ Told /\ grown' = grown \ Told
  BY DEF guild_members_chunk, Raise, Goes, Right
<1>4. NotedAs("chunk")
  BY <1>3 DEF Note, Latest, NotedAs, Deletes
<1>5. listed' = listed \/ (guildCached /\ listed' = listed \cup Told)
  BY <1>3 DEF List
<1>6. astray' \subseteq Ids /\ grown' \subseteq Ids
  BY <1>3 DEF Inv
<1>7. "chunk" \notin Deletes /\ "set" \in Puts /\ "member" \notin Unlisted
  BY DEF Deletes, Puts, Unlisted
<1> QED BY <1>1, <1>2, <1>3, <1>4, <1>5, <1>6, <1>7, PutsProcessed

\* A processor that takes what a dispatch tells out of the Storage.
LEMMA DropsProcessed ==
  ASSUME Inv, NEW k, NEW op \in Deletes, Take(k, op), k \notin Emojis, UNCHANGED <<raised, calls, guildCached>>,
         NotedAs(op), Right(Told), listed' \subseteq listed, \A id \in Told : id \notin listed',
         Proper(store'), \A x \in Range(store') : x \in Range(store) /\ x.id \notin Told,
         listed' = {} \/ \A id \in Ids \ Told : Holds(store, id) => Holds(store', id)
  PROVE  Safe
<1>1. Told \subseteq Ids /\ kind = k /\ ~raised
  BY TakeIs
<1>2. /\ guildCached \in BOOLEAN /\ listed \subseteq Ids /\ astray \subseteq Ids /\ grown \subseteq Ids
      /\ ~guildCached \/ kind \in Unlisted => listed = {}
      /\ astray' = astray \ Told /\ grown' = grown \ Told
  BY DEF Inv, Right
<1>3. ToldOwn(store, store', Objs)
  BY DEF ToldOwn
<1>4. ToldFresh(store, store', Objs, astray, astray', grown, grown', op \in Deletes)
  BY <1>2 DEF ToldFresh, Told
<1>5. ToldListed(listed, listed', store, store', Objs, astray, astray', op \in Deletes)
  <2> SUFFICES ASSUME NEW id \in listed'
               PROVE  /\ id \in listed /\ id \notin Told /\ (id \in astray => id \in astray')
                      /\ (Holds(store, id) => Holds(store', id))
    BY DEF ToldListed, Told
  <2> QED BY <1>2
<1>6. ~guildCached' \/ kind \in Unlisted => listed' = {}
  BY <1>2
<1>7. /\ listed' \subseteq Ids /\ guildCached' \in BOOLEAN /\ ~raised' /\ raised' \in BOOLEAN
      /\ UNCHANGED calls /\ astray' \subseteq Ids /\ grown' \subseteq Ids
  BY <1>1, <1>2 DEF Inv
<1> QED BY <1>3, <1>4, <1>5, <1>6, <1>7, Processed

\* A processor that raises leaves the rest as it was.
LEMMA RaiseInv ==
  ASSUME Inv, NEW k, NEW op, Take(k, op), UNCHANGED calls, NEW s2, Raise(s2), Proper(s2), ToldOwn(store, s2, Objs)
  PROVE  Safe
<1>1. /\ kind' = kind /\ discord' = discord /\ World(discord, events') /\ store' = s2 /\ raised'
      /\ UNCHANGED <<guildCached, listed, known, astray, grown>>
  BY TakeIs DEF Raise
<1>2. Stored(store', discord')
  BY <1>1, StoredProcessed
<1>3. World(discord', events') /\ raised' \in BOOLEAN
  BY <1>1 DEF Raise
<1>4. /\ kind \in Kinds /\ guildCached' \in BOOLEAN /\ listed' \subseteq Ids /\ astray' \subseteq Ids
      /\ grown' \subseteq Ids /\ known' \in [Ids -> 0..Gone] /\ Called(calls', discord')
      /\ ~guildCached' \/ kind \in Unlisted => listed' = {}
  BY <1>1 DEF Inv
<1>5. Inv'
  BY <1>1, <1>2, <1>3, <1>4, NextInv
<1>6. NoneBack
  BY <1>1, ToldOnward, NotBack
<1> QED BY <1>5, <1>6 DEF Safe

\* What popping an object's key leaves of the Storage.
LEMMA PopTold ==
  ASSUME NEW s, Proper(s), NEW id
  PROVE  /\ Proper(Pop(s, id)) /\ ~Holds(Pop(s, id), id)
         /\ \A x \in Range(Pop(s, id)) : x \in Range(s) /\ x.key # id
         /\ \A other : other # id /\ Holds(s, other) => Holds(Pop(s, id), other)
<1>1. s \in Seq(Entries) /\ Keyed(s) /\ Len(s) <= Limit /\ Len(s) \in Nat /\ Limit \in Nat
  BY LenProperties, CacheAssumption DEF Proper
<1>2. /\ Pop(s, id) \in Seq(Entries) /\ Keyed(Pop(s, id)) /\ Range(Pop(s, id)) = Others(s, id)
      /\ ~Holds(Pop(s, id), id)
      /\ Len(Pop(s, id)) = IF Holds(s, id) THEN Len(s) - 1 ELSE Len(s)
  BY <1>1, PopIs
<1>3. Len(Pop(s, id)) <= Limit
  BY <1>1, <1>2
<1>4. ASSUME NEW other, other # id, Holds(s, other) PROVE Holds(Pop(s, id), other)
  <2>1. PICK x \in Range(s) : x.key = other
    BY <1>1, <1>4, HoldsIs
  <2>2. x \in Range(Pop(s, id))
    BY <1>2, <1>4, <2>1 DEF Others
  <2> QED BY <1>2, <2>1, <2>2, HoldsIs
<1> QED BY <1>2, <1>3, <1>4 DEF Proper, Others

\* A delete is of one object.
LEMMA OnlyTold ==
  ASSUME Inv, NEW k, Take(k, "delete"), k \notin Emojis
  PROVE  /\ Told = {Only} /\ Only \in Ids /\ kind = k /\ Objs[Only] \in Shots
         /\ Proper(store) /\ \A x \in Range(store) : x.key = x.id
<1>1. (\E id \in Ids : Told = {id}) /\ kind = k /\ \A id \in Told : Objs[id] \in Shots
  BY TakeIs
<1>2. Told = {Only} /\ Only \in Ids
  BY <1>1 DEF Only
<1>3. Proper(store) /\ \A x \in Range(store) : OwnKey(x)
  BY DEF Inv, Stored
<1> QED BY <1>1, <1>2, <1>3 DEF OwnKey

\* A processor that pops its object, and may remove it from the list.
LEMMA PopsInv ==
  ASSUME Inv, NEW k, Take(k, "delete"), k \notin Emojis, UNCHANGED calls, store' = Pop(store, Only),
         Goes, Note(Told, GoneNow), Right(Told), listed' \subseteq listed, Only \notin listed'
  PROVE  Safe
<1>1. /\ Told = {Only} /\ Only \in Ids /\ kind = k /\ Proper(store) /\ \A x \in Range(store) : x.key = x.id
  BY OnlyTold
<1>2. /\ Proper(store') /\ \A x \in Range(store') : x \in Range(store) /\ x.key # Only
      /\ \A other : other # Only /\ Holds(store, other) => Holds(store', other)
  BY <1>1, PopTold
<1>3. NotedAs("delete") /\ "delete" \in Deletes
  BY DEF Note, GoneNow, NotedAs, Deletes
<1>4. \A x \in Range(store') : x \in Range(store) /\ x.id \notin Told
  BY <1>1, <1>2
<1>5. \A id \in Ids \ Told : Holds(store, id) => Holds(store', id)
  BY <1>1, <1>2
<1>6. UNCHANGED <<raised, calls, guildCached>> /\ \A id \in Told : id \notin listed'
  BY <1>1 DEF Goes
<1> QED BY <1>2, <1>3, <1>4, <1>5, <1>6, DropsProcessed

\* A processor that raises after it has popped.
LEMMA PopRaises ==
  ASSUME Inv, NEW k, NEW op, Take(k, op), UNCHANGED calls, NEW id, Raise(Pop(store, id))
  PROVE  Safe
<1>1. Proper(store)
  BY DEF Inv, Stored
<1>2. Proper(Pop(store, id)) /\ \A x \in Range(Pop(store, id)) : x \in Range(store)
  BY <1>1, PopTold
<1>3. ToldOwn(store, Pop(store, id), Objs)
  BY <1>2 DEF ToldOwn
<1> QED BY <1>2, <1>3, RaiseInv

\* guild_member_remove().
LEMMA UnlistInv ==
  ASSUME Inv, NEW k, Take(k, "delete"), k \notin Emojis, UNCHANGED calls, NEW knows \in BOOLEAN,
         Unlist(Pop(store, Only), Only, knows), knows \/ Only \notin listed
  PROVE  Safe
<1>1. CASE guildCached /\ knows /\ Only \notin listed
  BY <1>1, PopRaises DEF Unlist
<1>2. CASE ~(guildCached /\ knows /\ Only \notin listed)
  <2>1. /\ store' = Pop(store, Only) /\ listed' = (IF knows THEN listed \ {Only} ELSE listed)
        /\ Goes /\ Note(Told, GoneNow) /\ Right(Told)
    BY <1>2 DEF Unlist
  <2>2. listed' \subseteq listed /\ Only \notin listed'
    BY <2>1
  <2> QED BY <2>1, <2>2, PopsInv
<1> QED BY <1>1, <1>2

\* channel_delete().
LEMMA ChannelDeleteInv == ASSUME Inv, channel_delete, UNCHANGED calls PROVE Safe
<1> DEFINE knows == Holds(store, Only) => Item(store, Only).gid
<1>1. Take("channel", "delete") /\ "channel" \notin Emojis
  BY DEF channel_delete, Emojis
<1>2. Proper(store) /\ listed \subseteq Ids /\ (~guildCached => listed = {})
  BY DEF Inv, Stored
<1>3. ~Holds(Pop(store, Only), Only)
  BY <1>2, PopTold
<1>4. \/ Raise(Pop(store, Only))
      \/ Unlist(Pop(store, Only), Only, knows) /\ (knows \/ ~guildCached \/ \A other \in listed : Holds(Pop(store, Only), other))
  BY DEF channel_delete
<1> HIDE DEF knows
<1>5. CASE Unlist(Pop(store, Only), Only, knows) /\ (knows \/ ~guildCached \/ \A other \in listed : Holds(Pop(store, Only), other))
  <2>1. knows \/ Only \notin listed
    BY <1>2, <1>3, <1>5
  <2>2. knows \in BOOLEAN
    BY DEF knows
  <2> QED BY <1>1, <1>5, <2>1, <2>2, UnlistInv
<1>6. CASE Raise(Pop(store, Only))
  BY <1>1, <1>6, PopRaises
<1> QED BY <1>4, <1>5, <1>6

\* thread_delete().
LEMMA ThreadDeleteInv == ASSUME Inv, thread_delete, UNCHANGED calls PROVE Safe
<1>1. Take("thread", "delete") /\ "thread" \notin Emojis
  BY DEF thread_delete, Emojis
<1>2. CASE guildCached
  BY <1>1, <1>2, PopRaises DEF thread_delete
<1>3. CASE ~guildCached
  <2>1. /\ store' = Pop(store, Only) /\ UNCHANGED listed
        /\ Goes /\ Note(Told, GoneNow) /\ Right(Told)
    BY <1>3 DEF thread_delete
  <2>2. listed' \subseteq listed /\ Only \notin listed'
    BY <1>3, <2>1 DEF Inv
  <2> QED BY <1>1, <2>1, <2>2, PopsInv
<1> QED BY <1>2, <1>3

\* The processors that delete messages and events.
LEMMA ForgetsInv ==
  ASSUME Inv, NEW k \in {"message", "event"}, NEW op \in Deletes, Forgets(k, op), UNCHANGED calls
  PROVE  Safe
<1>1. /\ Take(k, op) /\ store' = Each("pop", store, Built(Objs)) /\ UNCHANGED <<raised, guildCached, listed>>
      /\ Right(Told)
  BY DEF Forgets, Goes
<1>2. kind = k /\ kind \in Kinds /\ Objs \in Snaps /\ k \notin Emojis /\ k \in Unlisted
  BY <1>1, TakeIs DEF Emojis, Unlisted
<1>3. Of(Built(Objs), Objs)
  BY <1>2, BuiltIs
<1>4. Batch(Built(Objs)) /\ \A id \in Told : Built(Objs)[id].key = id
  BY <1>2, <1>3, OfIs DEF Told
<1>5. Proper(store) /\ \A x \in Range(store) : OwnKey(x)
  BY DEF Inv, Stored
<1>6. /\ Proper(store')
      /\ \A x \in Range(store') : x \in Range(store) /\ \A m \in DOMAIN Built(Objs) : Built(Objs)[m].key # x.key
  BY <1>1, <1>2, <1>4, <1>5, EachPops
<1>7. \A x \in Range(store') : x \in Range(store) /\ x.id \notin Told
  BY <1>2, <1>3, <1>4, <1>5, <1>6 DEF OwnKey, Of, Told
<1>8. NotedAs(op)
  BY DEF Forgets, Note, GoneNow, NotedAs
<1>9. listed' = {} /\ listed = {}
  BY <1>1, <1>2 DEF Inv
<1> QED BY <1>1, <1>2, <1>6, <1>7, <1>8, <1>9, DropsProcessed

\* voice_state_update(), of a member who has left.
LEMMA VoiceDeleteInv ==
  ASSUME Inv, Take("voice", "delete"), store' = Pop(Update(store, Obj(Only, Objs[Only])), Only),
         Goes, Note(Told, GoneNow), Right(Told), UNCHANGED <<listed, calls>>
  PROVE  Safe
<1> DEFINE e == Obj(Only, Objs[Only])
           s == Update(store, e)
<1>1. "voice" \notin Emojis /\ "voice" \in Unlisted /\ "delete" \in Deletes
  BY DEF Emojis, Unlisted, Deletes
<1>2. /\ Told = {Only} /\ Only \in Ids /\ kind = "voice" /\ Objs[Only] \in Shots
      /\ Proper(store) /\ \A x \in Range(store) : x.key = x.id
  BY <1>1, OnlyTold
<1>3. e \in Entries /\ e.key = Only
  BY <1>1, <1>2, EntryOf DEF Obj, Key
<1>4. s = Put("update", store, e)
  BY DEF Put
<1> HIDE DEF e, s
<1>5. PICK x \in Entries : x.key = Only /\ Replaces(s, store, x)
  BY <1>2, <1>3, <1>4, PutIs DEF Puts, Becomes
<1>6. Proper(s) /\ Range(s) \subseteq Others(store, Only) \cup {x}
  BY <1>5 DEF Replaces, Proper
<1>7. store' = Pop(s, Only)
  BY DEF s, e
<1>8. Proper(store') /\ \A y \in Range(store') : y \in Range(s) /\ y.key # Only
  BY <1>6, <1>7, PopTold
<1>9. \A y \in Range(store') : y \in Range(store) /\ y.id \notin Told
  BY <1>2, <1>5, <1>6, <1>8 DEF Others
<1>10. NotedAs("delete")
  BY <1>1 DEF Note, GoneNow, NotedAs
<1>11. listed' = {} /\ listed = {} /\ UNCHANGED <<raised, calls, guildCached>>
  BY <1>1, <1>2 DEF Inv, Goes
<1> QED BY <1>1, <1>8, <1>9, <1>10, <1>11, DropsProcessed

\* Each processor keeps the invariant.
LEMMA RaisesInv ==
  ASSUME Inv, NEW k, NEW op, Take(k, op), Raise(store), UNCHANGED calls
  PROVE  Safe
<1>1. Proper(store) /\ ToldOwn(store, store, Objs)
  BY DEF Inv, Stored, ToldOwn
<1> QED BY <1>1, RaiseInv

\* The same, where the guild may not be cached.
LEMMA SetInv == ASSUME Inv, NEW k \in Emojis, SetUpdate(k), UNCHANGED calls PROVE Safe
<1>1. Take(k, "set")
  BY DEF SetUpdate
<1>2. CASE raised'
  <2>1. ~raised
    BY <1>1, TakeIs
  <2>2. Raise(store)
    BY <1>2, <2>1 DEF SetUpdate, Goes
  <2> QED BY <1>1, <2>2, RaisesInv
<1>3. CASE ~raised'
  BY <1>3, SetUpdateInv
<1> QED BY <1>2, <1>3

\* guild_members_chunk().
LEMMA MembersInv == ASSUME Inv, guild_members_chunk, UNCHANGED calls PROVE Safe
<1>1. Take("member", "chunk")
  BY DEF guild_members_chunk
<1>2. kind = "member" /\ ~raised /\ Objs \in Snaps /\ Told \subseteq Ids /\ "member" \notin Emojis
  BY <1>1, TakeIs DEF Emojis
<1>3. CASE raised'
  <2>1. PICK id \in Told : Raise(SetItem(store, Obj(id, Objs[id])))
    BY <1>2, <1>3 DEF guild_members_chunk, Goes
  <2> DEFINE e == Obj(id, Objs[id])
  <2>2. e \in Entries /\ OwnKey(e) /\ e.id = id /\ e.name = Objs[id].name
    BY <1>2, SnapIs, EntryOf DEF Obj, Told
  <2> HIDE DEF e
  <2>3. Proper(store)
    BY DEF Inv, Stored
  <2>4. Replaces(SetItem(store, e), store, e)
    BY <2>2, <2>3, SetItemIs
  <2>5. Proper(SetItem(store, e)) /\ \A x \in Range(SetItem(store, e)) : x \in Range(store) \/ x = e
    BY <2>4 DEF Replaces, Proper, Others
  <2>6. ToldOwn(store, SetItem(store, e), Objs)
    BY <2>1, <2>2, <2>5 DEF ToldOwn, Told
  <2> QED BY <1>1, <2>1, <2>5, <2>6, RaiseInv DEF e
<1>4. CASE ~raised'
  BY <1>4, ChunkInv
<1> QED BY <1>3, <1>4

\* Every processor.
LEMMA ProcessorsInv == ASSUME Inv, Processors, UNCHANGED calls PROVE Safe
<1>0. /\ {"create", "update"} \cap Deletes = {} /\ {"delete", "bulk"} \subseteq Deletes
      /\ {"channel", "thread", "member", "role"} \cap Unlisted = {}
      /\ "member" \notin Emojis /\ {"emoji", "sticker"} \subseteq Emojis
  BY DEF Deletes, Unlisted, Emojis
<1> USE <1>0
<1>1. CASE guild_create \/ guild_update \/ guild_delete
  BY <1>1, GuildCreateInv, ExactlyInv, RaisesInv DEF guild_update, guild_delete
<1>2. CASE channel_create \/ channel_update \/ channel_delete
  BY <1>2, AddsInv, ExactlyInv, ChannelDeleteInv DEF channel_create, channel_update
<1>3. CASE thread_create \/ thread_update \/ thread_delete
  BY <1>3, AddsInv, ExactlyInv, ThreadDeleteInv DEF thread_create, thread_update
<1>4. CASE stage_instance_create \/ stage_instance_update \/ stage_instance_delete
  BY <1>4, ExactlyInv, RaisesInv DEF stage_instance_create, stage_instance_update, stage_instance_delete
<1>5. CASE guild_role_create \/ guild_role_update \/ guild_role_delete
  BY <1>5, AddsInv, ExactlyInv, RaisesInv DEF guild_role_create, guild_role_update, guild_role_delete
<1>6. CASE guild_member_add \/ guild_member_update \/ guild_member_remove \/ guild_members_chunk
  BY <1>6, AddsInv, ExactlyInv, UnlistInv, MembersInv
     DEF guild_member_add, guild_member_update, guild_member_remove
<1>7. CASE guild_emojis_update \/ guild_stickers_update
  BY <1>7, SetInv DEF guild_emojis_update, guild_stickers_update
<1>8. CASE message_create \/ message_update \/ message_delete \/ message_delete_bulk
  BY <1>8, ExactlyInv, ForgetsInv DEF message_create, message_update, message_delete, message_delete_bulk
<1>9. CASE \/ guild_scheduled_event_create \/ guild_scheduled_event_update
           \/ guild_scheduled_event_delete
  BY <1>9, ExactlyInv, ForgetsInv
     DEF guild_scheduled_event_create, guild_scheduled_event_update, guild_scheduled_event_delete
<1>10. CASE voice_state_update
  <2>1. CASE \E op \in {"create", "update"} : Exactly("voice", op, "update") /\ UNCHANGED listed
    BY <2>1, ExactlyInv
  <2>2. CASE /\ Take("voice", "delete")
             /\ store' = Pop(Update(store, Obj(Only, Objs[Only])), Only)
             /\ Goes /\ Note(Told, GoneNow) /\ Right(Told) /\ UNCHANGED listed
    BY <2>2, VoiceDeleteInv
  <2> QED BY <1>10, <2>1, <2>2 DEF voice_state_update
<1>11. CASE presence_update \/ user_update
  BY <1>11, ExactlyInv DEF presence_update, user_update
<1> QED BY <1>1, <1>2, <1>3, <1>4, <1>5, <1>6, <1>7, <1>8, <1>9, <1>10, <1>11 DEF Processors

----------------------------------------------------------------------------
(* Discord, and a new session *)

\* What keeps the invariant while Discord's objects change.
LEMMA MovedInv ==
  ASSUME Inv, kind' = kind, Moves(discord, events, discord', events'),
         UNCHANGED <<store, guildCached, listed, raised, known, astray, grown>>, Called(calls', discord')
  PROVE  Safe
<1>1. /\ kind \in Kinds /\ World(discord, events) /\ guildCached \in BOOLEAN /\ raised \in BOOLEAN
      /\ listed \subseteq Ids /\ known \in [Ids -> 0..Gone] /\ astray \subseteq Ids /\ grown \subseteq Ids
      /\ ~guildCached \/ kind \in Unlisted => listed = {}
      /\ Stored(store, discord)
      /\ kind \notin Emojis /\ ~raised =>
            /\ Noted(known, events, discord) /\ Fresh(store, astray, grown, events, discord)
            /\ Listed(listed, store, astray, events, discord)
  BY DEF Inv
<1>2. World(discord', events')
  BY <1>1, Moved
<1>3. /\ Stored(store, discord')
      /\ kind \notin Emojis /\ ~raised =>
            /\ Noted(known, events', discord') /\ Fresh(store, astray, grown, events', discord')
            /\ Listed(listed, store, astray, events', discord')
  BY <1>1, CacheMoved
<1>4. Inv'
  BY <1>1, <1>2, <1>3, NextInv
<1>5. NoneBack
  BY SameBack
<1> QED BY <1>4, <1>5 DEF Safe

\* Calls stay as they are when Discord changes.
LEMMA CallsMoved ==
  ASSUME Inv, kind' = kind, Moves(discord, events, discord', events'), discord' \in [Ids -> Objects]
  PROVE  Called(calls, discord')
<1>1. kind \in Kinds /\ World(discord, events) /\ discord \in [Ids -> Objects] /\ Called(calls, discord)
  BY DEF Inv, World
<1>2. \A id \in Ids : Later(discord[id], discord'[id])
  BY <1>1, Moved
<1>3. \A t \in Tasks : CallOf(calls[t], discord')
  BY <1>1, <1>2, CalledMoved DEF Called
<1> QED BY <1>1, <1>3 DEF Called

\* Discord changes.
LEMMA DiscordInv == ASSUME Inv, Discord, UNCHANGED calls PROVE Safe
<1>1. /\ kind' = kind /\ ~raised /\ store' = store /\ astray' = astray /\ grown' = grown
      /\ UNCHANGED <<guildCached, listed, raised, known>>
  BY DEF Discord, cached
<1>2. kind \in Kinds /\ discord \in [Ids -> Objects] /\ Lists[kind] \in SUBSET SUBSET Items
  BY CacheAssumption DEF Inv, World
<1>3. discord' \in [Ids -> Objects] /\ Moves(discord, events, discord', events')
  <2>1. CASE Bulk
    BY <1>1, <1>2, <2>1, BulkMoves
  <2>2. ASSUME NEW id \in Ids, Appear(id) \/ Change(id, Lists[kind]) \/ Vanish(id)
        PROVE  discord' \in [Ids -> Objects] /\ Moves(discord, events, discord', events')
    BY <1>1, <1>2, <2>2, AppearMoves, ChangeMoves, VanishMoves
  <2> QED BY <2>1, <2>2 DEF Discord
<1>4. Called(calls', discord')
  <2>1. calls' = calls
    OBVIOUS
  <2> QED BY <1>1, <1>3, <2>1, CallsMoved
<1> QED BY <1>1, <1>3, <1>4, MovedInv

\* A session that cannot be resumed.
LEMMA NewSessionInv == ASSUME Inv, NewSession, UNCHANGED calls PROVE Safe
<1> DEFINE objs == IF kind \in InGuildCreate THEN View(Alive) ELSE << >>
           m == [op |-> "guild", objs |-> objs]
<1>1. /\ kind' = kind /\ ~raised /\ events' = <<m>>
      /\ known' = [id \in Ids |-> IF discord[id].at = "gone" THEN Gone ELSE discord[id].name]
      /\ astray' = {id \in Ids : id \in astray \/ id \notin Alive \/ kind \notin InGuildCreate}
      /\ UNCHANGED <<discord, store, guildCached, listed, raised, grown>>
  BY DEF NewSession, GuildCreate, Event
<1>2. /\ kind \in Kinds /\ discord \in [Ids -> Objects] /\ Stored(store, discord) /\ Called(calls, discord)
      /\ guildCached \in BOOLEAN /\ raised \in BOOLEAN /\ listed \subseteq Ids /\ grown \subseteq Ids
      /\ ~guildCached \/ kind \in Unlisted => listed = {}
  BY DEF Inv, World
<1>3. Alive \in SUBSET Ids
  BY DEF Alive
<1>4. /\ objs \in Snaps /\ DOMAIN objs = (IF kind \in InGuildCreate THEN Alive ELSE {})
      /\ \A id \in DOMAIN objs : objs[id].name = discord[id].name /\ objs[id].tag = discord[id].tag
  BY <1>2, <1>3, ViewIs, NoSnap
<1> HIDE DEF objs
<1>5. m \in Mails /\ m.objs = objs /\ m.op = "guild" /\ OneGone(m)
  BY <1>4 DEF Mails, OneGone, Unlisted, InGuildCreate, Emojis
<1> HIDE DEF m
<1>6. /\ events' \in Seq(Mails) /\ DOMAIN events' = {1} /\ events'[1] = m
      /\ \A id : Pending(events', id) <=> id \in DOMAIN objs
  <2>1. events' = <<m>> /\ m \in Mails
    BY <1>1, <1>5
  <2>2. events' \in Seq(Mails) /\ DOMAIN events' = {1} /\ events'[1] = m
    BY <2>1
  <2> QED BY <1>5, <2>2 DEF Pending
<1>7. World(discord, events')
  <2>1. \A id \in DOMAIN objs : MailOf(events', discord, 1, id)
    <3> SUFFICES ASSUME NEW id \in DOMAIN objs PROVE MailOf(events', discord, 1, id)
      OBVIOUS
    <3>1. id \in Ids /\ discord[id].at = "alive" /\ discord[id].name \in Nat
      BY <1>2, <1>4, CacheAssumption DEF Alive, Objects, Versions
    <3>2. Agrees(discord, m, id)
      BY <1>4, <1>5, <3>1 DEF Agrees, Deletes
    <3> QED BY <1>4, <1>5, <1>6, <3>1, <3>2 DEF MailOf
  <2> QED BY <1>2, <1>5, <1>6, <2>1 DEF World
<1>8. known' \in [Ids -> 0..Gone]
  <2>1. Gone \in Nat /\ MaxChanges[kind] \in Nat
    BY <1>2, CacheAssumption DEF Gone
  <2>2. \A id \in Ids : discord[id].name \in 0..Gone /\ Gone \in 0..Gone
    BY <1>2, <2>1 DEF Objects, Versions, Gone
  <2> QED BY <1>1, <2>2
<1>9. \A id \in Ids : id \in astray' \/ Pending(events', id)
  BY <1>1, <1>4, <1>6
<1>10. Noted(known', events', discord)
  BY <1>1 DEF Noted
<1>11. Fresh(store', astray', grown', events', discord)
  BY <1>1, <1>2, <1>9, EntryIs DEF Fresh, Stored
<1>12. Listed(listed', store', astray', events', discord)
  BY <1>1, <1>2, <1>9 DEF Listed
<1>13. Stored(store', discord') /\ Called(calls', discord') /\ World(discord', events')
  BY <1>1, <1>2, <1>7
<1>14. Noted(known', events', discord') /\ Fresh(store', astray', grown', events', discord') /\ Listed(listed', store', astray', events', discord')
  BY <1>1, <1>10, <1>11, <1>12
<1>15. astray' \subseteq Ids /\ grown' \subseteq Ids
  BY <1>1, <1>2
<1>16. Inv'
  BY <1>1, <1>2, <1>8, <1>13, <1>14, <1>15, NextInv
<1>17. NoneBack
  BY <1>1, SameBack
<1> QED BY <1>16, <1>17 DEF Safe

----------------------------------------------------------------------------
(* The end points *)

\* What the requests that the methods make of their answers do.
Has(tables, endpoint, effect) ==
  \A table \in tables : \A other \in DOMAIN table : endpoint \in table[other] => other = effect

\* The effect of an end point is that of its table.
LEMMA EffectOf ==
  ASSUME NEW endpoint, NEW effect, NEW u \in Tables, effect \in DOMAIN u, endpoint \in u[effect],
         Has(Tables, endpoint, effect)
  PROVE  Effect[endpoint] = effect
<1>1. effect \in Effects /\ endpoint \in With(effect) /\ endpoint \in Endpoint
  BY DEF Effects, With, Endpoint
<1>2. \A other \in Effects : endpoint \in With(other) => other = effect
  BY DEF With, Has
<1>3. Effect[endpoint] = CHOOSE other \in Effects : endpoint \in With(other)
  BY <1>1 DEF Effect
<1> HIDE DEF Effects
<1> QED BY <1>1, <1>2, <1>3

\* The endpoints whose answers are kept in a way of their own.
LEMMA KeptEffects ==
  /\ Effect["modify_guild"] = "modify"
  /\ Effect["modify_channel"] = "modify"
  /\ Effect["edit_message"] = "modify"
  /\ Effect["modify_member"] = "modify"
  /\ Effect["modify_guild_role"] = "modify"
  /\ Effect["modify_guild_emoji"] = "modify"
  /\ Effect["add_member_role"] = "grant"
  /\ Effect["remove_member_role"] = "revoke"
  /\ Effect["delete_channel"] = "remove"
  /\ Effect["delete_message"] = "remove"
<1>1. Effect["modify_guild"] = "modify"
  <2>1. Has(Tables, "modify_guild", "modify")
    BY DEF Has, Tables, OfGuild, OfGuildExtras, OfTemplates, OfRoles, OfBans, OfAuditLog, OfAutoModeration,
           OfChannel, OfStage, OfEmoji, OfSticker, OfMember, OfMessage, OfMessageEdits, OfReaction,
           OfScheduledEvent, OfThreadMembers, OfThread, OfUser, OfInvite, OfWebhook,
           OfWebhookMessages, OfApplication
  <2>2. OfGuild \in Tables /\ "modify" \in DOMAIN OfGuild /\ "modify_guild" \in OfGuild["modify"]
    BY DEF Tables, OfGuild
  <2> QED BY <2>1, <2>2, EffectOf
<1>2. Effect["modify_channel"] = "modify"
  <2>1. Has(Tables, "modify_channel", "modify")
    BY DEF Has, Tables, OfGuild, OfGuildExtras, OfTemplates, OfRoles, OfBans, OfAuditLog, OfAutoModeration,
           OfChannel, OfStage, OfEmoji, OfSticker, OfMember, OfMessage, OfMessageEdits, OfReaction,
           OfScheduledEvent, OfThreadMembers, OfThread, OfUser, OfInvite, OfWebhook,
           OfWebhookMessages, OfApplication
  <2>2. OfChannel \in Tables /\ "modify" \in DOMAIN OfChannel /\ "modify_channel" \in OfChannel["modify"]
    BY DEF Tables, OfChannel
  <2> QED BY <2>1, <2>2, EffectOf
<1>3. Effect["edit_message"] = "modify"
  <2>1. Has(Tables, "edit_message", "modify")
    BY DEF Has, Tables, OfGuild, OfGuildExtras, OfTemplates, OfRoles, OfBans, OfAuditLog, OfAutoModeration,
           OfChannel, OfStage, OfEmoji, OfSticker, OfMember, OfMessage, OfMessageEdits, OfReaction,
           OfScheduledEvent, OfThreadMembers, OfThread, OfUser, OfInvite, OfWebhook,
           OfWebhookMessages, OfApplication
  <2>2. OfMessageEdits \in Tables /\ "modify" \in DOMAIN OfMessageEdits /\ "edit_message" \in OfMessageEdits["modify"]
    BY DEF Tables, OfMessageEdits
  <2> QED BY <2>1, <2>2, EffectOf
<1>4. Effect["modify_member"] = "modify"
  <2>1. Has(Tables, "modify_member", "modify")
    BY DEF Has, Tables, OfGuild, OfGuildExtras, OfTemplates, OfRoles, OfBans, OfAuditLog, OfAutoModeration,
           OfChannel, OfStage, OfEmoji, OfSticker, OfMember, OfMessage, OfMessageEdits, OfReaction,
           OfScheduledEvent, OfThreadMembers, OfThread, OfUser, OfInvite, OfWebhook,
           OfWebhookMessages, OfApplication
  <2>2. OfMember \in Tables /\ "modify" \in DOMAIN OfMember /\ "modify_member" \in OfMember["modify"]
    BY DEF Tables, OfMember
  <2> QED BY <2>1, <2>2, EffectOf
<1>5. Effect["modify_guild_role"] = "modify"
  <2>1. Has(Tables, "modify_guild_role", "modify")
    BY DEF Has, Tables, OfGuild, OfGuildExtras, OfTemplates, OfRoles, OfBans, OfAuditLog, OfAutoModeration,
           OfChannel, OfStage, OfEmoji, OfSticker, OfMember, OfMessage, OfMessageEdits, OfReaction,
           OfScheduledEvent, OfThreadMembers, OfThread, OfUser, OfInvite, OfWebhook,
           OfWebhookMessages, OfApplication
  <2>2. OfRoles \in Tables /\ "modify" \in DOMAIN OfRoles /\ "modify_guild_role" \in OfRoles["modify"]
    BY DEF Tables, OfRoles
  <2> QED BY <2>1, <2>2, EffectOf
<1>6. Effect["modify_guild_emoji"] = "modify"
  <2>1. Has(Tables, "modify_guild_emoji", "modify")
    BY DEF Has, Tables, OfGuild, OfGuildExtras, OfTemplates, OfRoles, OfBans, OfAuditLog, OfAutoModeration,
           OfChannel, OfStage, OfEmoji, OfSticker, OfMember, OfMessage, OfMessageEdits, OfReaction,
           OfScheduledEvent, OfThreadMembers, OfThread, OfUser, OfInvite, OfWebhook,
           OfWebhookMessages, OfApplication
  <2>2. OfEmoji \in Tables /\ "modify" \in DOMAIN OfEmoji /\ "modify_guild_emoji" \in OfEmoji["modify"]
    BY DEF Tables, OfEmoji
  <2> QED BY <2>1, <2>2, EffectOf
<1>7. Effect["add_member_role"] = "grant"
  <2>1. Has(Tables, "add_member_role", "grant")
    BY DEF Has, Tables, OfGuild, OfGuildExtras, OfTemplates, OfRoles, OfBans, OfAuditLog, OfAutoModeration,
           OfChannel, OfStage, OfEmoji, OfSticker, OfMember, OfMessage, OfMessageEdits, OfReaction,
           OfScheduledEvent, OfThreadMembers, OfThread, OfUser, OfInvite, OfWebhook,
           OfWebhookMessages, OfApplication
  <2>2. OfMember \in Tables /\ "grant" \in DOMAIN OfMember /\ "add_member_role" \in OfMember["grant"]
    BY DEF Tables, OfMember
  <2> QED BY <2>1, <2>2, EffectOf
<1>8. Effect["remove_member_role"] = "revoke"
  <2>1. Has(Tables, "remove_member_role", "revoke")
    BY DEF Has, Tables, OfGuild, OfGuildExtras, OfTemplates, OfRoles, OfBans, OfAuditLog, OfAutoModeration,
           OfChannel, OfStage, OfEmoji, OfSticker, OfMember, OfMessage, OfMessageEdits, OfReaction,
           OfScheduledEvent, OfThreadMembers, OfThread, OfUser, OfInvite, OfWebhook,
           OfWebhookMessages, OfApplication
  <2>2. OfMember \in Tables /\ "revoke" \in DOMAIN OfMember /\ "remove_member_role" \in OfMember["revoke"]
    BY DEF Tables, OfMember
  <2> QED BY <2>1, <2>2, EffectOf
<1>9. Effect["delete_channel"] = "remove"
  <2>1. Has(Tables, "delete_channel", "remove")
    BY DEF Has, Tables, OfGuild, OfGuildExtras, OfTemplates, OfRoles, OfBans, OfAuditLog, OfAutoModeration,
           OfChannel, OfStage, OfEmoji, OfSticker, OfMember, OfMessage, OfMessageEdits, OfReaction,
           OfScheduledEvent, OfThreadMembers, OfThread, OfUser, OfInvite, OfWebhook,
           OfWebhookMessages, OfApplication
  <2>2. OfChannel \in Tables /\ "remove" \in DOMAIN OfChannel /\ "delete_channel" \in OfChannel["remove"]
    BY DEF Tables, OfChannel
  <2> QED BY <2>1, <2>2, EffectOf
<1>10. Effect["delete_message"] = "remove"
  <2>1. Has(Tables, "delete_message", "remove")
    BY DEF Has, Tables, OfGuild, OfGuildExtras, OfTemplates, OfRoles, OfBans, OfAuditLog, OfAutoModeration,
           OfChannel, OfStage, OfEmoji, OfSticker, OfMember, OfMessage, OfMessageEdits, OfReaction,
           OfScheduledEvent, OfThreadMembers, OfThread, OfUser, OfInvite, OfWebhook,
           OfWebhookMessages, OfApplication
  <2>2. OfMessage \in Tables /\ "remove" \in DOMAIN OfMessage /\ "delete_message" \in OfMessage["remove"]
    BY DEF Tables, OfMessage
  <2> QED BY <2>1, <2>2, EffectOf
<1> QED BY <1>1, <1>2, <1>3, <1>4, <1>5, <1>6, <1>7, <1>8, <1>9, <1>10

----------------------------------------------------------------------------
(* Calls *)

\* What keeps the invariant while Discord's objects stay as they are.
LEMMA KeptInv ==
  ASSUME Inv, UNCHANGED <<kind, discord, events, raised, known>>, Called(calls', discord),
         guildCached' \in BOOLEAN, listed' \subseteq Ids, astray' \subseteq Ids, grown' \subseteq Ids,
         ~guildCached' \/ kind \in Unlisted => listed' = {}, Stored(store', discord),
         kind \notin Emojis /\ ~raised => /\ Fresh(store', astray', grown', events, discord)
                                          /\ Listed(listed', store', astray', events, discord),
         Onward(store', astray', events)
  PROVE  Safe
<1>1. /\ kind \in Kinds /\ World(discord, events) /\ raised \in BOOLEAN /\ known \in [Ids -> 0..Gone]
      /\ kind \notin Emojis /\ ~raised => Noted(known, events, discord)
  BY DEF Inv
<1>2. kind' = kind /\ discord' = discord /\ events' = events /\ raised' = raised /\ known' = known
  OBVIOUS
<1>3. Inv'
  BY <1>1, <1>2, NextInv
<1>4. NoneBack
  <2>1. Proper(store') /\ Onward(store', astray', events')
    BY <1>2 DEF Stored
  <2> QED BY <2>1, NotBack
<1> QED BY <1>3, <1>4 DEF Safe

\* One call changes.
LEMMA CallsWith ==
  ASSUME NEW d, Called(calls, d), NEW t \in Tasks, NEW c, CallOf(c, d), calls' = [calls EXCEPT ![t] = c]
  PROVE  Called(calls', d)
BY DEF Called

\* An entry is changed into another one of the same object.
LEMMA Retouched ==
  ASSUME Stored(store, discord), NEW k, Holds(store, k), NEW y \in Entries, Alike(y, Item(store, k))
  PROVE  /\ Stored(SetItem(store, y), discord) /\ y.key = k /\ Item(store, k) \in Range(store)
         /\ \A x \in Range(SetItem(store, y)) : x = y \/ (x \in Range(store) /\ x.key # k)
         /\ \A id : Holds(store, id) => Holds(SetItem(store, y), id)
<1>1. Proper(store) /\ store \in Seq(Entries)
  BY DEF Stored, Proper
<1>2. Item(store, k) \in Range(store) /\ Item(store, k).key = k
  BY <1>1, Found
<1>3. y.key = k /\ y.id = Item(store, k).id /\ y.name = Item(store, k).name
  BY <1>2 DEF Alike
<1> DEFINE s2 == SetItem(store, y)
<1>4. Replaces(s2, store, y)
  BY <1>1, SetItemIs
<1> HIDE DEF s2
<1>5. Proper(s2) /\ s2 \in Seq(Entries) /\ Range(s2) = Others(store, k) \cup {y}
  BY <1>3, <1>4 DEF Replaces, Proper
<1>6. \A x \in Range(s2) : x = y \/ (x \in Range(store) /\ x.key # k)
  BY <1>5 DEF Others
<1>7. Stored(s2, discord)
  <2> SUFFICES ASSUME NEW x \in Range(s2)
               PROVE  OwnKey(x) /\ discord[x.id].at # "unborn" /\ x.name <= discord[x.id].name
    BY <1>5 DEF Stored
  <2>1. \A z \in Range(store) : OwnKey(z) /\ discord[z.id].at # "unborn" /\ z.name <= discord[z.id].name
    BY DEF Stored
  <2>2. CASE x = y
    BY <1>2, <1>3, <2>1, <2>2 DEF OwnKey
  <2> QED BY <1>6, <2>1, <2>2
<1>8. ASSUME NEW id, Holds(store, id) PROVE Holds(s2, id)
  <2>1. PICK x \in Range(store) : x.key = id
    BY <1>1, <1>8, HoldsIs
  <2>2. x \in Range(s2) \/ x.key = y.key
    BY <1>3, <1>5 DEF Others
  <2>3. y \in Range(s2)
    BY <1>5
  <2> QED BY <1>5, <2>1, <2>2, <2>3, HoldsIs
<1> QED BY <1>2, <1>3, <1>6, <1>7, <1>8 DEF s2

\* The caller holds on to an entry, or lets go of it; it may change its list.
LEMMA RetouchedInv ==
  ASSUME Inv, UNCHANGED <<kind, discord, events, raised, known, guildCached, listed>>,
         Called(calls', discord), NEW k, Holds(store, k), NEW y \in Entries, Alike(y, Item(store, k)),
         store' = SetItem(store, y), astray \subseteq astray', astray' \subseteq Ids,
         grown \subseteq grown', grown' \subseteq Ids,
         kind \notin Emojis /\ ~raised /\ k \in Ids =>
            y.tag = Item(store, k).tag \/ k \in astray' \/ Pending(events, k) \/ Current(discord, grown', y)
  PROVE  Safe
<1>1. /\ Stored(store, discord) /\ guildCached \in BOOLEAN /\ listed \subseteq Ids /\ kind \in Kinds
      /\ ~guildCached \/ kind \in Unlisted => listed = {}
      /\ kind \notin Emojis /\ ~raised => /\ Fresh(store, astray, grown, events, discord)
                                          /\ Listed(listed, store, astray, events, discord)
  BY DEF Inv
<1>2. /\ Stored(store', discord) /\ y.key = k /\ Item(store, k) \in Range(store)
      /\ \A x \in Range(store') : x = y \/ (x \in Range(store) /\ x.key # k)
      /\ \A id : Holds(store, id) => Holds(store', id)
  BY <1>1, Retouched
<1>3. ASSUME kind \notin Emojis, ~raised PROVE Fresh(store', astray', grown', events, discord)
  <2> DEFINE z == Item(store, k)
  <2>1. OwnKey(z) /\ z.id \in Ids /\ y.id = z.id /\ y.name = z.name /\ y.key = z.key
    BY <1>1, <1>2, EntryIs DEF Stored, Alike
  <2>2. z.id = k /\ y.id = k /\ k \in Ids
    BY <1>2, <1>3, <2>1 DEF OwnKey
  <2>3. k \in astray \/ Pending(events, k) \/ Current(discord, grown, z)
    BY <1>1, <1>2, <1>3, <2>2 DEF Fresh
  <2>4. k \in astray' \/ Pending(events, k) \/ Current(discord, grown', y)
    <3>1. CASE y.tag = z.tag
      BY <2>1, <2>3, <3>1 DEF Current, Shows
    <3>2. CASE y.tag # z.tag
      BY <1>3, <2>2, <3>2
    <3> QED BY <3>1, <3>2
  <2>5. \A x : Current(discord, grown, x) => Current(discord, grown', x)
    BY DEF Current, Shows
  <2> HIDE DEF z
  <2> QED BY <1>1, <1>2, <1>3, <2>2, <2>4, <2>5 DEF Fresh
<1>4. ASSUME kind \notin Emojis, ~raised PROVE Listed(listed', store', astray', events, discord)
  BY <1>1, <1>2, <1>4 DEF Listed
<1>5. /\ guildCached' \in BOOLEAN /\ listed' \subseteq Ids
      /\ ~guildCached' \/ kind \in Unlisted => listed' = {}
  BY <1>1
<1>6. UNCHANGED <<kind, discord, events, raised, known>>
  OBVIOUS
<1>7. Onward(store', astray', events)
  BY <1>2 DEF Onward, Alike
<1> QED BY <1>2, <1>3, <1>4, <1>5, <1>6, <1>7, KeptInv

\* Nothing but a call changes.
LEMMA OnlyCalls ==
  ASSUME Inv, UNCHANGED <<kind, discord, events, raised, known, guildCached, listed, store, astray, grown>>,
         Called(calls', discord)
  PROVE  Safe
<1>1. /\ Stored(store, discord) /\ guildCached \in BOOLEAN /\ listed \subseteq Ids /\ astray \subseteq Ids
      /\ grown \subseteq Ids
      /\ ~guildCached \/ kind \in Unlisted => listed = {}
      /\ kind \notin Emojis /\ ~raised => /\ Fresh(store, astray, grown, events, discord)
                                          /\ Listed(listed, store, astray, events, discord)
  BY DEF Inv
<1>2. UNCHANGED <<kind, discord, events, raised, known>>
  OBVIOUS
<1>3. Stored(store', discord) /\ guildCached' \in BOOLEAN /\ listed' \subseteq Ids /\ astray' \subseteq Ids
      /\ grown' \subseteq Ids
      /\ (~guildCached' \/ kind \in Unlisted => listed' = {})
      /\ (kind \notin Emojis /\ ~raised => /\ Fresh(store', astray', grown', events, discord)
                                           /\ Listed(listed', store', astray', events, discord))
  BY <1>1
<1>4. Onward(store', astray', events)
  BY DEF Onward, Alike
<1> QED BY <1>2, <1>3, <1>4, KeptInv

\* What a method may ask for and keep.
Proposes(k, endpoint, keep) ==
  /\ Fits(keep, Effect[endpoint])
  /\ keep = "add" => k \notin Unlisted
  /\ keep = "drop" => k \notin Reborn

\* A method sends its request.
LEMMA BeginCalls ==
  ASSUME Inv, NEW t \in Tasks, NEW k, NEW endpoint, NEW keep, NEW id \in Ids \cup {All},
         Begin(t, k, endpoint, keep, id), Proposes(k, endpoint, keep)
  PROVE  /\ Called(calls', discord) /\ kind = k /\ ~raised
         /\ UNCHANGED <<kind, discord, events, guildCached, listed, raised, known, grown>>
<1>1. PICK items \in Named(keep) :
         /\ calls' = [calls EXCEPT ![t] =
               [at |-> "sent", effect |-> Effect[endpoint], keep |-> keep, id |-> id, items |-> items]]
         /\ kind = k /\ ~raised
         /\ UNCHANGED <<kind, discord, events, guildCached, listed, raised, known, grown>>
  BY DEF Begin
<1> DEFINE c == [at |-> "sent", effect |-> Effect[endpoint], keep |-> keep, id |-> id, items |-> items]
<1>2. Called(calls, discord)
  BY DEF Inv
<1>3. c.at = "sent" /\ c.keep = keep /\ c.effect = Effect[endpoint] /\ c.id = id /\ c.items = items
  OBVIOUS
<1>5. items \subseteq Items
  BY DEF Named
<1>6. calls' = [calls EXCEPT ![t] = c]
  BY <1>1
<1> HIDE DEF c
<1>4. CallOf(c, discord)
  BY <1>1, <1>3, <1>5 DEF CallOf, Proposes
<1>7. Called(calls', discord)
  BY <1>2, <1>4, <1>6, CallsWith
<1> QED BY <1>1, <1>7

\* An entry of the Storage.
LEMMA ItemWith ==
  ASSUME Inv, NEW id, Holds(store, id)
  PROVE  /\ Item(store, id) \in Entries
         /\ Item(store, id).refs \in SUBSET Tasks /\ Item(store, id).tag \in Bags
<1>1. store \in Seq(Entries)
  BY DEF Inv, Stored, Proper
<1>2. Item(store, id) \in Entries
  BY <1>1, Found
<1> QED BY <1>2 DEF Entries

\* An entry with other holders, and another list.
Tagged(z, tag, refs) == [z EXCEPT !.tag = tag, !.refs = refs]
LEMMA EntryWith ==
  ASSUME NEW z \in Entries, NEW refs \in SUBSET Tasks, NEW tag \in Bags
  PROVE  /\ Tagged(z, tag, refs) \in Entries
         /\ Alike(Tagged(z, tag, refs), z) /\ Tagged(z, tag, refs).tag = tag
         /\ [z EXCEPT !.refs = refs] \in Entries
         /\ Alike([z EXCEPT !.refs = refs], z) /\ [z EXCEPT !.refs = refs].tag = z.tag
BY DEF Tagged, Entries, Alike

\* The methods that ask and keep the answer.
LEMMA CallForInv ==
  ASSUME Inv, NEW t \in Tasks, NEW k, NEW endpoint, NEW keep, NEW who \in SUBSET (Ids \cup {All}),
         CallFor(t, k, endpoint, keep, who), Proposes(k, endpoint, keep)
  PROVE  Safe
<1>1. PICK id \in who :
          /\ Begin(t, k, endpoint, keep, id) /\ UNCHANGED astray
          /\ \/ UNCHANGED store
             \/ /\ keep \in {"update", "grantOwn", "revokeOwn"} /\ Holds(store, id)
                /\ store' = SetItem(store, [Item(store, id) EXCEPT !.refs = @ \cup {t}])
  BY DEF CallFor
<1>2. /\ Called(calls', discord)
      /\ UNCHANGED <<kind, discord, events, guildCached, listed, raised, known, grown>>
  BY <1>1, BeginCalls
<1>3. CASE UNCHANGED store
  BY <1>1, <1>2, <1>3, OnlyCalls
<1>4. CASE Holds(store, id) /\ store' = SetItem(store, [Item(store, id) EXCEPT !.refs = @ \cup {t}])
  <2> DEFINE z == Item(store, id)
             y == [z EXCEPT !.refs = z.refs \cup {t}]
  <2>1. z \in Entries /\ z.refs \in SUBSET Tasks /\ z.tag \in Bags
    BY <1>4, ItemWith
  <2>5. z.refs \cup {t} \in SUBSET Tasks
    BY <2>1
  <2> HIDE DEF z
  <2>2. y \in Entries /\ Alike(y, z) /\ y.tag = z.tag
    BY <2>1, <2>5, EntryWith
  <2>3. store' = SetItem(store, y)
    BY <1>4 DEF z
  <2> USE DEF z
  <2> HIDE DEF y
  <2>4. astray \subseteq astray' /\ astray' \subseteq Ids /\ grown \subseteq grown' /\ grown' \subseteq Ids
    BY <1>1, <1>2 DEF Inv
  <2> QED BY <1>2, <1>4, <2>2, <2>3, <2>4, RetouchedInv
<1> QED BY <1>1, <1>3, <1>4

\* The methods that change themselves before they ask.
LEMMA EditOwnInv ==
  ASSUME Inv, NEW t \in Tasks, NEW k, NEW endpoint, EditOwn(t, k, endpoint), Effect[endpoint] = "modify"
  PROVE  Safe
<1>1. PICK id \in Ids, list \in Lists[kind] :
          /\ Begin(t, k, endpoint, "update", id) /\ Holds(store, id)
          /\ store' = SetItem(store, [Item(store, id) EXCEPT !.refs = @ \cup {t}, !.tag = Once(list)])
          /\ astray' = astray \cup {id}
  BY DEF EditOwn
<1>2. Proposes(k, endpoint, "update")
  BY DEF Proposes, Fits, Giving, Taking
<1>3. /\ Called(calls', discord)
      /\ UNCHANGED <<kind, discord, events, guildCached, listed, raised, known, grown>>
  BY <1>1, <1>2, BeginCalls
<1> DEFINE b == Once(list)
           z == Item(store, id)
           y == Tagged(z, b, z.refs \cup {t})
<1>4. z.refs \in SUBSET Tasks /\ z \in Entries
  BY <1>1, ItemWith
<1>8. b \in Bags
  BY OnceIs
<1> HIDE DEF b
<1>5. y \in Entries /\ Alike(y, z)
  <2>1. z.refs \cup {t} \in SUBSET Tasks
    BY <1>4
  <2> HIDE DEF z
  <2> QED BY <1>4, <1>8, <2>1, EntryWith
<1>6. store' = SetItem(store, y)
  BY <1>1, <1>4 DEF Entries, b, Tagged
<1> HIDE DEF y
<1>7. /\ astray \subseteq astray' /\ astray' \subseteq Ids /\ id \in astray'
      /\ grown \subseteq grown' /\ grown' \subseteq Ids
  BY <1>1, <1>3 DEF Inv
<1> QED BY <1>1, <1>3, <1>5, <1>6, <1>7, RetouchedInv

\* Discord refuses, and the method raises.
LEMMA RefuseInv == ASSUME Inv, NEW t \in Tasks, Refuse(t) PROVE Safe
<1>1. /\ calls' = [calls EXCEPT ![t] = Idle] /\ ~raised
      /\ store' = [i \in DOMAIN store |-> [store[i] EXCEPT !.refs = @ \ {t}]]
      /\ UNCHANGED <<kind, discord, events, guildCached, listed, raised, known, astray, grown>>
  BY DEF Refuse
<1>2. /\ Stored(store, discord) /\ guildCached \in BOOLEAN /\ listed \subseteq Ids /\ astray \subseteq Ids
      /\ grown \subseteq Ids
      /\ ~guildCached \/ kind \in Unlisted => listed = {}
      /\ kind \notin Emojis /\ ~raised => /\ Fresh(store, astray, grown, events, discord)
                                          /\ Listed(listed, store, astray, events, discord)
      /\ Called(calls, discord)
  BY DEF Inv
<1>3. Called(calls', discord)
  BY <1>1, <1>2, CallsWith DEF CallOf
<1>4. store \in Seq(Entries) /\ Keyed(store) /\ Len(store) <= Limit /\ Len(store) \in Nat /\ DOMAIN store = 1..Len(store)
  BY <1>2, LenProperties DEF Stored, Proper
<1>5. ASSUME NEW z \in Entries
      PROVE  LET y == [z EXCEPT !.refs = @ \ {t}] IN y \in Entries /\ Alike(y, z) /\ y.tag = z.tag
  BY DEF Entries, Alike
<1>6. \A i \in 1..Len(store) : store'[i] \in Entries /\ Alike(store'[i], store[i]) /\ store'[i].tag = store[i].tag
  <2> SUFFICES ASSUME NEW i \in 1..Len(store)
               PROVE  store'[i] \in Entries /\ Alike(store'[i], store[i]) /\ store'[i].tag = store[i].tag
    OBVIOUS
  <2>1. store[i] \in Entries
    BY <1>4
  <2>2. store'[i] = [store[i] EXCEPT !.refs = @ \ {t}]
    BY <1>1, <1>4
  <2> QED BY <1>5, <2>1, <2>2
<1>7. store' \in Seq(Entries) /\ Len(store') = Len(store) /\ DOMAIN store' = 1..Len(store)
  <2>1. store' = [i \in 1..Len(store) |-> store'[i]]
    BY <1>1, <1>4
  <2>2. store' \in [1..Len(store) -> Entries]
    BY <1>6, <2>1
  <2> QED BY <1>4, <2>2
<1>8. Keyed(store')
  <2>1. \A i, j \in 1..Len(store) : store[i].key = store[j].key => i = j
    BY <1>4 DEF Keyed
  <2>2. \A i \in 1..Len(store) : store'[i].key = store[i].key
    BY <1>6 DEF Alike
  <2> QED BY <1>7, <2>1, <2>2 DEF Keyed
<1>9. \A x \in Range(store') : \E z \in Range(store) : Alike(x, z) /\ x.tag = z.tag
  BY <1>4, <1>6, <1>7, Contents
<1>10. \A id : Holds(store, id) => Holds(store', id)
  BY <1>4, <1>6, <1>7 DEF Holds, Alike
<1>11. Stored(store', discord)
  <2>1. Proper(store')
    BY <1>4, <1>7, <1>8 DEF Proper
  <2> QED BY <1>2, <1>9, <2>1 DEF Stored, Alike, OwnKey
<1>12. ASSUME kind \notin Emojis, ~raised
       PROVE  Fresh(store', astray', grown', events, discord) /\ Listed(listed', store', astray', events, discord)
  <2>1. Fresh(store', astray', grown', events, discord)
    BY <1>1, <1>2, <1>9, <1>12 DEF Fresh, Alike, Current, Shows
  <2>2. Listed(listed', store', astray', events, discord)
    BY <1>1, <1>2, <1>10, <1>12 DEF Listed
  <2> QED BY <2>1, <2>2
<1>13. /\ UNCHANGED <<kind, discord, events, raised, known>> /\ guildCached' \in BOOLEAN
       /\ listed' \subseteq Ids /\ astray' \subseteq Ids /\ grown' \subseteq Ids
       /\ (~guildCached' \/ kind \in Unlisted => listed' = {})
  BY <1>1, <1>2
<1>14. Onward(store', astray', events)
  BY <1>9 DEF Onward, Alike
<1> QED BY <1>3, <1>11, <1>12, <1>13, <1>14, KeptInv

\* An answer that is not late says what Discord says, unless more is on its way.
LEMMA AnswerIs ==
  ASSUME kind \in Kinds, kind \notin Emojis, discord \in [Ids -> Objects], Noted(known, events, discord),
         NEW objs \in Snaps, Shown(objs, discord), NEW id \in DOMAIN objs, id \notin Late(objs),
         ~Pending(events, id)
  PROVE  /\ discord[id].at = "alive" /\ objs[id].name = discord[id].name
         /\ objs[id].tag = discord[id].tag
<1>1. id \in Ids /\ objs[id] \in Shots /\ discord[id] \in Objects
  BY SnapIs
<1>2. /\ discord[id].at # "unborn" /\ objs[id].name <= discord[id].name
      /\ objs[id].name = discord[id].name => objs[id].tag = discord[id].tag
  BY DEF Shown
<1>3. objs[id].name \in Nat /\ discord[id].name \in Nat /\ discord[id].name < Gone /\ Gone \in Nat
      /\ objs[id].name < Gone
  BY <1>1, CacheAssumption DEF Shots, Objects, Versions, Gone
<1>4. known[id] = (IF discord[id].at = "gone" THEN Gone ELSE discord[id].name)
  BY <1>1 DEF Noted
<1>5. ~(objs[id].name < known[id])
  BY DEF Late
<1>6. discord[id].at # "gone" /\ objs[id].name = discord[id].name
  BY <1>2, <1>3, <1>4, <1>5
<1> QED BY <1>1, <1>2, <1>6 DEF Objects

\* Emojis and stickers that are not put under their own ids are no objects' entries.
AsGuilds(b) == kind \in Emojis => \A id \in DOMAIN b : b[id].key = Guild

\* Two of the three ways to build do so.
LEMMA BuiltAsGuilds == ASSUME NEW objs PROVE AsGuilds(Built(objs)) /\ AsGuilds(FromGuild(objs))
<1>1. AsGuilds(Built(objs))
  BY DEF AsGuilds, Built, Obj, Entry, Key
<1>2. ASSUME NEW id \in DOMAIN objs, kind \in Emojis PROVE FromGuild(objs)[id].key = Guild
  <2> DEFINE e == Obj(id, objs[id])
             gid == (kind # "channel")
  <2>1. e.key = Guild /\ FromGuild(objs)[id] = [e EXCEPT !.gid = gid] /\ DOMAIN e = {"key", "id", "name", "tag", "gid", "refs"}
    BY <1>2 DEF FromGuild, Obj, Entry, Key
  <2> HIDE DEF e, gid
  <2> QED BY <2>1
<1>3. DOMAIN FromGuild(objs) = DOMAIN objs
  BY DEF FromGuild
<1> QED BY <1>1, <1>2, <1>3 DEF AsGuilds

\* An answer is put into the Storage.
LEMMA AnswerPuts ==
  ASSUME Inv, ~raised, UNCHANGED <<kind, discord, events, raised, known>>, Called(calls', discord),
         NEW objs \in Snaps, Shown(objs, discord), NEW b, Of(b, objs), AsGuilds(b),
         NEW how \in Puts, store' = Each(how, store, b), guildCached' \in {guildCached, TRUE},
         listed' = listed \/ (guildCached /\ listed' = listed \cup DOMAIN objs),
         kind \in Unlisted => listed' = listed,
         astray \cup Late(objs) \subseteq astray', astray' \subseteq Ids,
         grown \subseteq grown', grown' \subseteq Ids,
         how = "merge" => Left(store, objs) \subseteq astray' /\ Grows(store, objs) \subseteq grown'
  PROVE  Safe
<1>1. /\ kind \in Kinds /\ discord \in [Ids -> Objects] /\ Stored(store, discord)
      /\ guildCached \in BOOLEAN /\ listed \subseteq Ids
      /\ ~guildCached \/ kind \in Unlisted => listed = {}
      /\ kind \notin Emojis => /\ Noted(known, events, discord) /\ Fresh(store, astray, grown, events, discord)
                               /\ Listed(listed, store, astray, events, discord)
  BY DEF Inv, World
<1>2. Proper(store) /\ \A x \in Range(store) : OwnKey(x)
  BY <1>1 DEF Stored
<1>3. DOMAIN objs \subseteq Ids
  BY SnapIs
<1>4. /\ Proper(store')
      /\ \A x \in Range(store') :
            x \in Range(store) \/ (x.id \in DOMAIN objs /\ OwnKey(x) /\ x.name = objs[x.id].name)
      /\ \A x \in Range(store') : x \in Range(store) \/ \E id \in DOMAIN objs : x.key = b[id].key
  BY <1>1, <1>2, PutsOwn
<1>5. Stored(store', discord)
  <2> SUFFICES ASSUME NEW x \in Range(store')
               PROVE  OwnKey(x) /\ discord[x.id].at # "unborn" /\ x.name <= discord[x.id].name
    BY <1>4 DEF Stored
  <2>1. CASE x \in Range(store)
    BY <1>1, <2>1 DEF Stored
  <2>2. CASE x.id \in DOMAIN objs /\ OwnKey(x) /\ x.name = objs[x.id].name
    BY <2>2 DEF Shown
  <2> QED BY <1>4, <2>1, <2>2
<1>6. ASSUME kind \notin Emojis PROVE Fresh(store', astray', grown', events, discord)
  <2> SUFFICES ASSUME NEW x \in Range(store'), x.id \notin astray', ~Pending(events, x.id)
               PROVE  Current(discord, grown', x)
    BY DEF Fresh
  <2>1. \/ x \in Range(store) /\ x.id \notin DOMAIN objs
        \/ x.id \in DOMAIN objs /\ how = "merge" /\ x.id \in Left(store, objs)
        \/ x.id \in DOMAIN objs /\ ShowsPut(x, how, store, objs)
    BY <1>1, <1>2, <1>6, PutsFresh
  <2>2. CASE x \in Range(store) /\ x.id \notin DOMAIN objs
    BY <1>1, <1>6, <2>2 DEF Fresh, Current, Shows
  <2>3. CASE x.id \in DOMAIN objs /\ ShowsPut(x, how, store, objs)
    <3>1. x.id \notin Late(objs)
      OBVIOUS
    <3>2. /\ discord[x.id].at = "alive" /\ objs[x.id].name = discord[x.id].name
          /\ objs[x.id].tag = discord[x.id].tag
      BY <1>1, <1>6, <2>3, <3>1, AnswerIs
    <3>3. Shows(x, objs[x.id], grown')
      BY <2>3 DEF ShowsPut, Shows
    <3> QED BY <3>2, <3>3 DEF Current, Shows
  <2> QED BY <2>1, <2>2, <2>3
<1>7. ASSUME kind \notin Emojis PROVE Listed(listed', store', astray', events, discord)
  <2> SUFFICES ASSUME Roomful, NEW id \in listed', id \notin astray', ~Pending(events, id)
               PROVE  discord[id].at = "alive" /\ Holds(store', id)
    BY DEF Listed, Roomful
  <2>1. \A u \in DOMAIN objs : discord[u].at # "unborn"
    BY DEF Shown
  <2>2. /\ \A u : Holds(store, u) => Holds(store', u)
        /\ \A u \in DOMAIN objs : Holds(store', u)
    BY <1>1, <1>7, <2>1, PutsHeld
  <2>3. CASE id \in listed
    BY <1>1, <1>7, <2>2, <2>3 DEF Listed, Roomful
  <2>4. CASE id \in DOMAIN objs
    <3>1. id \notin Late(objs)
      OBVIOUS
    <3> QED BY <1>1, <1>7, <2>2, <2>4, <3>1, AnswerIs
  <2> QED BY <2>3, <2>4
<1>8. /\ guildCached' \in BOOLEAN /\ listed' \subseteq Ids
      /\ ~guildCached' \/ kind \in Unlisted => listed' = {}
  BY <1>1, <1>3
<1>9. UNCHANGED <<kind, discord, events, raised, known>>
  OBVIOUS
<1>10. Onward(store', astray', events)
  <2> SUFFICES ASSUME NEW x \in Range(store'), x.key \in Ids, x \notin Range(store),
                      x.id \notin astray', ~Pending(events, x.id)
               PROVE  discord[x.id].name <= x.name
    BY DEF Onward, Alike
  <2>1. /\ x.id \in DOMAIN objs /\ x.name = objs[x.id].name
        /\ \E id \in DOMAIN objs : x.key = b[id].key
    BY <1>4
  <2>2. kind \notin Emojis
    <3>1. Guild \notin Ids
      BY <1>1, Size DEF Guild
    <3> QED BY <2>1, <3>1 DEF AsGuilds, Of
  <2>3. x.id \notin Late(objs) /\ x.id \in Ids
    BY <1>3, <2>1
  <2>4. objs[x.id].name = discord[x.id].name
    BY <1>1, <2>1, <2>2, <2>3, AnswerIs
  <2>5. discord[x.id].name \in Nat
    BY <1>1, <2>3, CacheAssumption DEF Objects, Versions
  <2> QED BY <2>1, <2>4, <2>5
<1> QED BY <1>5, <1>6, <1>7, <1>8, <1>9, <1>10, KeptInv

\* self.update()
LEMMA AnswerUpdates ==
  ASSUME Inv, ~raised, UNCHANGED <<kind, discord, events, raised, known, guildCached, listed>>,
         Called(calls', discord), NEW objs \in Snaps, Shown(objs, discord), NEW id \in DOMAIN objs,
         Holds(store, id), NEW refs \in SUBSET Tasks,
         store' = SetItem(store, [Obj(id, objs[id]) EXCEPT !.refs = refs]),
         astray' = (astray \ {id}) \cup Late(objs), grown' = grown \ {id}
  PROVE  Safe
<1>1. /\ kind \in Kinds /\ discord \in [Ids -> Objects] /\ Stored(store, discord)
      /\ guildCached \in BOOLEAN /\ listed \subseteq Ids /\ astray \subseteq Ids /\ grown \subseteq Ids
      /\ ~guildCached \/ kind \in Unlisted => listed = {}
      /\ kind \notin Emojis => /\ Noted(known, events, discord) /\ Fresh(store, astray, grown, events, discord)
                               /\ Listed(listed, store, astray, events, discord)
  BY DEF Inv, World
<1>2. Proper(store) /\ (\A x \in Range(store) : OwnKey(x)) /\ store \in Seq(Entries)
  BY <1>1 DEF Stored, Proper
<1>3. id \in Ids /\ objs[id] \in Shots /\ Late(objs) \subseteq Ids
  BY SnapIs DEF Late
<1> DEFINE e0 == Obj(id, objs[id])
           e == [e0 EXCEPT !.refs = refs]
<1>4. e0 \in Entries /\ OwnKey(e0) /\ e0.id = id /\ e0.name = objs[id].name /\ e0.tag = Once(objs[id].tag) /\ e0.key = Key(id)
  BY <1>3, EntryOf DEF Obj
<1>5. store' = SetItem(store, e)
  OBVIOUS
<1> HIDE DEF e0
<1>6. e \in Entries /\ e.key = e0.key /\ e.id = id /\ e.name = objs[id].name /\ e.tag = Once(objs[id].tag)
  BY <1>4 DEF Entries
<1> HIDE DEF e
<1>7. OwnKey(e) /\ e.key = Key(id)
  BY <1>4, <1>6 DEF OwnKey
<1>8. Replaces(store', store, e)
  BY <1>2, <1>5, <1>6, SetItemIs
<1>9. /\ Proper(store') /\ store' \in Seq(Entries)
      /\ \A x \in Range(store') : x = e \/ (x \in Range(store) /\ x.key # e.key)
  BY <1>8 DEF Replaces, Proper, Others
<1>10. Stored(store', discord)
  <2>1. discord[id].at # "unborn" /\ objs[id].name <= discord[id].name
    BY DEF Shown
  <2> QED BY <1>1, <1>6, <1>7, <1>9, <2>1 DEF Stored
<1>11. ASSUME kind \notin Emojis PROVE Fresh(store', astray', grown', events, discord)
  <2> SUFFICES ASSUME NEW x \in Range(store'), x.id \notin astray', ~Pending(events, x.id)
               PROVE  Current(discord, grown', x)
    BY DEF Fresh
  <2>1. CASE x = e
    <3>1. id \notin Late(objs) /\ ~Pending(events, id)
      BY <1>6, <2>1
    <3>2. /\ discord[id].at = "alive" /\ objs[id].name = discord[id].name
          /\ objs[id].tag = discord[id].tag
      BY <1>1, <1>11, <3>1, AnswerIs
    <3>3. objs[id].tag \subseteq Items
      BY <1>3 DEF Shots
    <3>4. Covers(Once(objs[id].tag), objs[id].tag)
      BY <3>3, OnceIs DEF Covers
    <3> QED BY <1>6, <2>1, <3>2, <3>4 DEF Current, Shows
  <2>2. CASE x \in Range(store) /\ x.key # e.key
    <3>1. x.id # id
      BY <1>2, <1>7, <1>11, <2>2 DEF OwnKey, Key
    <3> QED BY <1>1, <1>11, <2>2, <3>1 DEF Fresh, Current, Shows
  <2> QED BY <1>9, <2>1, <2>2
<1>12. ASSUME kind \notin Emojis PROVE Listed(listed', store', astray', events, discord)
  <2>1. e.key = id
    BY <1>7, <1>12 DEF Key
  <2>2. Range(store') = Others(store, id) \cup {e}
    BY <1>8, <2>1 DEF Replaces
  <2>3. Holds(store', id) /\ \A u : Holds(store, u) => Holds(store', u)
    <3>1. \A u : Holds(store, u) <=> \E x \in Range(store) : x.key = u
      BY <1>2, HoldsIs
    <3>2. \A u : Holds(store', u) <=> \E x \in Range(store') : x.key = u
      BY <1>9, HoldsIs
    <3> QED BY <2>1, <2>2, <3>1, <3>2 DEF Others
  <2> SUFFICES ASSUME Roomful, NEW u \in listed', u \notin astray', ~Pending(events, u)
               PROVE  discord[u].at = "alive" /\ Holds(store', u)
    BY DEF Listed, Roomful
  <2>4. CASE u = id
    <3>1. id \notin Late(objs) /\ ~Pending(events, id)
      BY <2>4
    <3> QED BY <1>1, <1>12, <2>3, <2>4, <3>1, AnswerIs
  <2>5. CASE u # id
    BY <1>1, <1>12, <2>3, <2>5 DEF Listed, Roomful
  <2> QED BY <2>4, <2>5
<1>13. /\ guildCached' \in BOOLEAN /\ listed' \subseteq Ids /\ astray' \subseteq Ids /\ grown' \subseteq Ids
       /\ ~guildCached' \/ kind \in Unlisted => listed' = {}
  BY <1>1, <1>3
<1>14. UNCHANGED <<kind, discord, events, raised, known>>
  OBVIOUS
<1>15. Onward(store', astray', events)
  <2> SUFFICES ASSUME NEW x \in Range(store'), x.key \in Ids, x \notin Range(store),
                      x.id \notin astray', ~Pending(events, x.id)
               PROVE  discord[x.id].name <= x.name
    BY DEF Onward, Alike
  <2>1. x = e
    BY <1>9
  <2>2. kind \notin Emojis
    <3>1. Guild \notin Ids
      BY <1>1, Size DEF Guild
    <3> QED BY <1>7, <2>1, <3>1 DEF Key
  <2>3. id \notin Late(objs) /\ ~Pending(events, id)
    BY <1>6, <2>1
  <2>4. objs[id].name = discord[id].name
    BY <1>1, <2>2, <2>3, AnswerIs
  <2>5. discord[id].name \in Nat
    BY <1>1, <1>3, CacheAssumption DEF Objects, Versions
  <2> QED BY <1>6, <2>1, <2>4, <2>5
<1> QED BY <1>10, <1>11, <1>12, <1>13, <1>14, <1>15, KeptInv

\* An object is popped, for it is gone or is not listed from now on.
LEMMA AnswerPops ==
  ASSUME Inv, ~raised, UNCHANGED <<kind, discord, events, raised, known, guildCached, astray, grown>>,
         Called(calls', discord), NEW id, store' = store \/ store' = Pop(store, id),
         listed' = listed \ {id} \/ (listed' = listed /\ id \in Ids /\ discord[id].at = "gone")
  PROVE  Safe
<1>1. /\ kind \in Kinds /\ discord \in [Ids -> Objects] /\ Stored(store, discord)
      /\ guildCached \in BOOLEAN /\ listed \subseteq Ids /\ astray \subseteq Ids /\ grown \subseteq Ids
      /\ ~guildCached \/ kind \in Unlisted => listed = {}
      /\ kind \notin Emojis => /\ Fresh(store, astray, grown, events, discord)
                               /\ Listed(listed, store, astray, events, discord)
  BY DEF Inv, World
<1>2. Proper(store)
  BY <1>1 DEF Stored
<1>3. /\ Proper(store') /\ \A x \in Range(store') : x \in Range(store)
      /\ \A other : other # id /\ Holds(store, other) => Holds(store', other)
  BY <1>2, PopTold
<1>4. Stored(store', discord)
  BY <1>1, <1>3 DEF Stored
<1>5. ASSUME kind \notin Emojis PROVE Fresh(store', astray', grown', events, discord)
  BY <1>1, <1>3, <1>5 DEF Fresh
<1>6. ASSUME kind \notin Emojis PROVE Listed(listed', store', astray', events, discord)
  <2> SUFFICES ASSUME Roomful, NEW u \in listed', u \notin astray', ~Pending(events, u)
               PROVE  discord[u].at = "alive" /\ Holds(store', u)
    BY DEF Listed, Roomful
  <2>1. discord[u].at = "alive" /\ Holds(store, u)
    BY <1>1, <1>6 DEF Listed, Roomful
  <2> QED BY <1>3, <2>1
<1>7. /\ guildCached' \in BOOLEAN /\ listed' \subseteq Ids /\ astray' \subseteq Ids /\ grown' \subseteq Ids
      /\ ~guildCached' \/ kind \in Unlisted => listed' = {}
  BY <1>1
<1>8. UNCHANGED <<kind, discord, events, raised, known>>
  OBVIOUS
<1>9. Onward(store', astray', events)
  BY <1>3 DEF Onward, Alike
<1> QED BY <1>4, <1>5, <1>6, <1>7, <1>8, <1>9, KeptInv

\* What is appended to a list, or taken from it, that it has not on Discord.
AsTold(list, told, grew) == Covers(list, told) /\ (grew \/ list = Once(told))
LEMMA RemovedIs ==
  ASSUME NEW list \in Bags, NEW items, NEW told \in SUBSET Items, items \cap told = {},
         NEW less \in Removed(list, items), NEW grew, AsTold(list, told, grew)
  PROVE  AsTold(less, told, grew)
<1>1. less \in Bags /\ \A i \in Items : less[i] \in (IF i \in items THEN Fewer(list[i]) ELSE {list[i]})
  BY DEF Removed, Bags
<1>2. \A i \in told : less[i] = list[i]
  BY <1>1
<1>3. ASSUME list = Once(told) PROVE less = Once(told)
  <2>1. ASSUME NEW i \in Items PROVE less[i] = Once(told)[i]
    <3>1. CASE i \in items
      <4>1. Once(told)[i] = 0
        BY <3>1, OnceIs
      <4>2. Fewer(0) = {0}
        BY DEF Fewer
      <4>3. less[i] \in Fewer(list[i])
        BY <1>1, <3>1
      <4> QED BY <1>3, <4>1, <4>2, <4>3
    <3>2. CASE i \notin items
      BY <1>1, <1>3, <3>2
    <3> QED BY <3>1, <3>2
  <2>2. Once(told) \in Bags
    BY OnceIs
  <2> QED BY <1>1, <2>1, <2>2 DEF Bags
<1> QED BY <1>1, <1>2, <1>3 DEF AsTold, Covers

\* A method keeps its answer.
LEMMA ReturnInv == ASSUME Inv, NEW t \in Tasks, Return(t) PROVE Safe
<1> DEFINE c == calls[t]
           objs == c.objs
<1>1. /\ c.at = "answered" /\ ~raised /\ Keep(t, c) /\ calls' = [calls EXCEPT ![t] = Idle]
      /\ UNCHANGED <<kind, discord, events, raised, known>>
  BY DEF Return
<1>2. /\ Called(calls, discord) /\ Stored(store, discord) /\ guildCached \in BOOLEAN
      /\ astray \subseteq Ids /\ grown \subseteq Ids /\ kind \in Kinds
  BY DEF Inv
<1>3. CallOf(c, discord) /\ c # Idle
  BY <1>1, <1>2 DEF Called, Idle
<1>4. Called(calls', discord)
  BY <1>1, <1>2, CallsWith DEF CallOf
<1>5. /\ c.keep = "add" => kind \notin Unlisted
      /\ objs \in Snaps /\ Shown(objs, discord)
      /\ c.keep = "update" => c.id \in DOMAIN objs
      /\ c.keep \in Giving \cup Taking => DOMAIN objs = {c.id} /\ c.items \subseteq Items
      /\ c.keep \in Taking => c.items \cap objs[c.id].tag = {}
      /\ c.keep = "drop" => c.id \in Ids /\ discord[c.id].at = "gone"
  BY <1>1, <1>3 DEF CallOf, Answered
<1>6. /\ Of(Built(objs), objs) /\ Of(FromGuild(objs), objs)
      /\ Late(objs) \subseteq Ids /\ Left(store, objs) \subseteq Ids /\ Grows(store, objs) \subseteq Ids
      /\ "merge" \in Puts /\ "set" \in Puts /\ DOMAIN objs \subseteq Ids
  BY <1>5, BuiltIs, SnapIs DEF Late, Left, Grows, Puts
<1>20. AsGuilds(Built(objs)) /\ AsGuilds(FromGuild(objs))
  BY BuiltAsGuilds
<1> HIDE DEF c
<1>7. CASE /\ c.keep = "add"
           /\ store' = Each("merge", store, Built(c.objs)) /\ List(DOMAIN c.objs)
           /\ MergesIn(c.objs) /\ UNCHANGED guildCached
  <2>1. /\ listed' = listed \/ (guildCached /\ listed' = listed \cup DOMAIN objs)
        /\ kind \in Unlisted => listed' = listed
        /\ guildCached' \in {guildCached, TRUE} /\ astray \cup Late(objs) \subseteq astray'
        /\ astray' \subseteq Ids /\ Left(store, objs) \subseteq astray'
        /\ grown \subseteq grown' /\ grown' \subseteq Ids /\ Grows(store, objs) \subseteq grown'
    BY <1>2, <1>5, <1>6, <1>7 DEF List, MergesIn
  <2> QED BY <1>1, <1>4, <1>5, <1>6, <1>7, <1>20, <2>1, AnswerPuts
<1>8. CASE /\ c.keep = "guild"
           /\ LET o == IF kind \in {"role"} \cup Emojis THEN c.objs ELSE << >>
              IN  /\ store' = Each("merge", store, Built(o)) /\ List(DOMAIN o)
                  /\ MergesIn(o)
           /\ guildCached' = TRUE
  <2> DEFINE o == IF kind \in {"role"} \cup Emojis THEN objs ELSE << >>
  <2>1. o \in Snaps /\ Shown(o, discord) /\ (kind \in Unlisted => DOMAIN o = {})
    BY <1>5, NoSnap DEF Shown, Unlisted, Emojis
  <2>2. /\ store' = Each("merge", store, Built(o)) /\ List(DOMAIN o)
        /\ astray' = astray \cup Late(o) \cup Left(store, o) /\ grown' = grown \cup Grows(store, o)
    BY <1>8 DEF MergesIn
  <2> HIDE DEF o
  <2>3. Of(Built(o), o) /\ Late(o) \subseteq Ids /\ Left(store, o) \subseteq Ids /\ Grows(store, o) \subseteq Ids
    BY <2>1, BuiltIs, SnapIs DEF Late, Left, Grows
  <2>5. AsGuilds(Built(o))
    BY BuiltAsGuilds
  <2>4. /\ listed' = listed \/ (guildCached /\ listed' = listed \cup DOMAIN o)
        /\ kind \in Unlisted => listed' = listed
        /\ guildCached' \in {guildCached, TRUE} /\ astray \cup Late(o) \subseteq astray'
        /\ astray' \subseteq Ids /\ Left(store, o) \subseteq astray'
        /\ grown \subseteq grown' /\ grown' \subseteq Ids /\ Grows(store, o) \subseteq grown'
    BY <1>2, <1>8, <2>1, <2>2, <2>3 DEF List
  <2> QED BY <1>1, <1>4, <1>6, <2>1, <2>2, <2>3, <2>4, <2>5, AnswerPuts
<1>9. CASE /\ c.keep = "merge"
           /\ store' = Each("merge", store, FromGuild(c.objs))
           /\ MergesIn(c.objs) /\ UNCHANGED <<listed, guildCached>>
  <2>1. /\ astray \cup Late(objs) \subseteq astray' /\ astray' \subseteq Ids
        /\ Left(store, objs) \subseteq astray' /\ guildCached' \in {guildCached, TRUE} /\ listed' = listed
        /\ grown \subseteq grown' /\ grown' \subseteq Ids /\ Grows(store, objs) \subseteq grown'
    BY <1>2, <1>6, <1>9 DEF MergesIn
  <2> QED BY <1>1, <1>4, <1>5, <1>6, <1>9, <1>20, <2>1, AnswerPuts
<1>10. CASE /\ c.keep = "put"
            /\ store' = Each("set", store, Built(c.objs)) /\ Strays(c.objs)
            /\ UNCHANGED <<listed, guildCached, grown>>
  <2>1. /\ astray \cup Late(objs) \subseteq astray' /\ astray' \subseteq Ids
        /\ guildCached' \in {guildCached, TRUE} /\ listed' = listed
        /\ grown \subseteq grown' /\ grown' \subseteq Ids
    BY <1>2, <1>6, <1>10 DEF Strays
  <2> QED BY <1>1, <1>4, <1>5, <1>6, <1>10, <1>20, <2>1, AnswerPuts
<1>11. CASE /\ c.keep = "update"
            /\ IF Own(t, c.id)
               THEN /\ store' = SetItem(store, [Obj(c.id, c.objs[c.id]) EXCEPT !.refs = Item(store, c.id).refs \ {t}])
                    /\ astray' = (astray \ {c.id}) \cup Late(c.objs) /\ grown' = grown \ {c.id}
               ELSE UNCHANGED <<store, astray, grown>>
            /\ UNCHANGED <<listed, guildCached>>
  <2>1. CASE Own(t, c.id)
    <3> DEFINE refs == Item(store, c.id).refs \ {t}
    <3>1. Holds(store, c.id) /\ c.id \in DOMAIN objs
      BY <1>5, <1>11, <2>1 DEF Own
    <3>2. store \in Seq(Entries)
      BY <1>2 DEF Stored, Proper
    <3>3. Item(store, c.id) \in Entries
      BY <3>1, <3>2, Found
    <3>4. refs \in SUBSET Tasks
      BY <3>3 DEF Entries
    <3>5. /\ store' = SetItem(store, [Obj(c.id, objs[c.id]) EXCEPT !.refs = refs])
          /\ astray' = (astray \ {c.id}) \cup Late(objs) /\ grown' = grown \ {c.id}
          /\ UNCHANGED <<kind, discord, events, raised, known, guildCached, listed>>
      BY <1>1, <1>11, <2>1
    <3> HIDE DEF refs
    <3> QED BY <1>1, <1>4, <1>5, <3>1, <3>4, <3>5, AnswerUpdates
  <2>2. CASE ~Own(t, c.id)
    BY <1>1, <1>4, <1>11, <2>2, OnlyCalls
  <2> QED BY <2>1, <2>2
<1>12. CASE /\ c.keep \in Giving \cup Taking
            /\ IF (IF c.keep \in {"grant", "revoke"} THEN Holds(store, c.id) ELSE Own(t, c.id))
               THEN LET own == Item(store, c.id)
                    IN  /\ \E list \in IF c.keep \in Giving THEN {Appended(own.tag, Once(c.items))}
                                       ELSE Removed(own.tag, c.items) :
                              store' = SetItem(store, [own EXCEPT !.tag = list, !.refs = @ \ {t}])
                        /\ Strays(c.objs)
                        /\ grown' = IF c.keep \in Giving THEN grown \cup {c.id} ELSE grown
               ELSE UNCHANGED <<store, astray, grown>>
            /\ UNCHANGED <<listed, guildCached>>
  <2>1. CASE IF c.keep \in {"grant", "revoke"} THEN Holds(store, c.id) ELSE Own(t, c.id)
    <3> DEFINE z == Item(store, c.id)
    <3>1. Holds(store, c.id) /\ DOMAIN objs = {c.id} /\ c.id \in Ids /\ c.items \subseteq Items
      BY <1>5, <1>6, <1>12, <2>1 DEF Own
    <3>2. PICK tag \in IF c.keep \in Giving THEN {Appended(z.tag, Once(c.items))} ELSE Removed(z.tag, c.items) :
             store' = SetItem(store, [z EXCEPT !.tag = tag, !.refs = @ \ {t}])
      BY <1>12, <2>1
    <3> DEFINE y == Tagged(z, tag, z.refs \ {t})
    <3>3. store \in Seq(Entries) /\ OwnKey(z) /\ z \in Range(store) /\ z.key = c.id /\ z \in Entries
      <4>1. store \in Seq(Entries)
        BY <1>2 DEF Stored, Proper
      <4>2. z \in Range(store) /\ z.key = c.id /\ z \in Entries
        BY <3>1, <4>1, Found
      <4> QED BY <1>2, <4>1, <4>2 DEF Stored
    <3>4. z.refs \in SUBSET Tasks /\ z.tag \in Bags
      BY <3>3 DEF Entries
    <3>5. tag \in Bags
      <4>1. CASE c.keep \in Giving
        BY <3>2, <3>4, <4>1, OnceIs, AppendedIs
      <4>2. CASE c.keep \notin Giving
        BY <3>2, <4>2 DEF Removed, Bags
      <4> QED BY <4>1, <4>2
    <3>6. y \in Entries /\ Alike(y, z) /\ y.tag = tag
      <4>1. z.refs \ {t} \in SUBSET Tasks
        BY <3>4
      <4> HIDE DEF z
      <4> QED BY <3>3, <3>5, <4>1, EntryWith
    <3>7. store' = SetItem(store, y) /\ astray' = astray \cup Late(objs)
      BY <1>12, <2>1, <3>2 DEF Strays, Tagged
    <3>8. grown' = IF c.keep \in Giving THEN grown \cup {c.id} ELSE grown
      BY <1>12, <2>1
    <3>9. z.tag \in Bags /\ tag \in (IF c.keep \in Giving THEN {Appended(z.tag, Once(c.items))} ELSE Removed(z.tag, c.items))
      BY <3>2, <3>4
    <3> HIDE DEF y, z
    <3>10. ASSUME kind \notin Emojis
           PROVE  y.tag = z.tag \/ c.id \in astray' \/ Pending(events, c.id) \/ Current(discord, grown', y)
      <4> SUFFICES ASSUME c.id \notin astray', ~Pending(events, c.id) PROVE Current(discord, grown', y)
        OBVIOUS
      <4>1. z.id = c.id /\ y.id = c.id /\ y.name = z.name
        BY <3>3, <3>6, <3>10 DEF OwnKey, Alike
      <4>2. /\ Noted(known, events, discord) /\ Fresh(store, astray, grown, events, discord)
            /\ discord \in [Ids -> Objects]
        BY <1>1, <3>10 DEF Inv, World
      <4>3. Current(discord, grown, z)
        BY <3>3, <3>7, <4>1, <4>2 DEF Fresh
      <4> DEFINE told == discord[c.id].tag
      <4>4. told \in SUBSET Items
        BY <3>1, <4>2 DEF Objects
      <4>5. /\ discord[c.id].at = "alive" /\ z.name = discord[c.id].name /\ Covers(z.tag, told)
            /\ c.id \in grown \/ z.tag = Once(told)
        BY <4>1, <4>3 DEF Current, Shows
      <4> HIDE DEF told
      <4>6. Covers(tag, told) /\ (c.id \in grown' \/ tag = Once(told))
        <5>1. CASE c.keep \in Giving
          <6>1. Once(c.items) \in Bags
            BY OnceIs
          <6>2. \A i \in Items : z.tag[i] > 0 => Appended(z.tag, Once(c.items))[i] > 0
            BY <3>4, <6>1, AppendedIs
          <6>3. tag = Appended(z.tag, Once(c.items)) /\ c.id \in grown'
            BY <3>8, <3>9, <5>1
          <6> QED BY <4>4, <4>5, <6>2, <6>3 DEF Covers
        <5>2. CASE c.keep \notin Giving
          <6>1. c.keep \in Taking
            BY <1>12, <5>2
          <6>2. objs[c.id].tag = told
            BY <1>2, <1>5, <3>1, <3>7, <3>10, <4>2, AnswerIs DEF told
          <6>3. c.items \cap told = {}
            BY <1>5, <6>1, <6>2
          <6>4. tag \in Removed(z.tag, c.items) /\ grown' = grown
            BY <3>8, <3>9, <5>2
          <6> DEFINE grew == c.id \in grown
          <6>5. AsTold(z.tag, told, grew)
            BY <4>5 DEF AsTold
          <6>6. z.tag \in Bags /\ tag \in Removed(z.tag, c.items)
            BY <3>4, <6>4
          <6> HIDE DEF grew
          <6>7. AsTold(tag, told, grew)
            BY <4>4, <6>3, <6>5, <6>6, RemovedIs
          <6> QED BY <6>4, <6>7 DEF AsTold, grew
        <5> QED BY <5>1, <5>2
      <4> QED BY <3>6, <4>1, <4>5, <4>6 DEF Current, Shows, told
    <3>11. /\ astray \subseteq astray' /\ astray' \subseteq Ids /\ grown \subseteq grown' /\ grown' \subseteq Ids
           /\ UNCHANGED <<kind, discord, events, raised, known, guildCached, listed>>
      BY <1>1, <1>2, <1>6, <1>12, <3>1, <3>7, <3>8
    <3>12. Holds(store, c.id) /\ Alike(y, Item(store, c.id)) /\ (kind \notin Emojis =>
              y.tag = Item(store, c.id).tag \/ c.id \in astray' \/ Pending(events, c.id) \/ Current(discord, grown', y))
      BY <3>1, <3>6, <3>10 DEF z
    <3> QED BY <1>4, <3>6, <3>7, <3>11, <3>12, RetouchedInv
  <2>2. CASE ~(IF c.keep \in {"grant", "revoke"} THEN Holds(store, c.id) ELSE Own(t, c.id))
    BY <1>1, <1>4, <1>12, <2>2, OnlyCalls
  <2> QED BY <2>1, <2>2
<1>13. CASE /\ c.keep = "forget"
            /\ store' = IF kind = "sticker" THEN store ELSE Pop(store, c.id)
            /\ listed' = listed \ {c.id}
            /\ UNCHANGED <<astray, grown, guildCached>>
  <2>1. /\ store' = store \/ store' = Pop(store, c.id)
        /\ UNCHANGED <<kind, discord, events, raised, known, guildCached, astray, grown>>
    BY <1>1, <1>13
  <2> QED BY <1>1, <1>4, <1>13, <2>1, AnswerPops
<1>14. CASE /\ c.keep = "drop"
            /\ store' = Pop(store, c.id)
            /\ UNCHANGED <<listed, astray, grown, guildCached>>
  <2>1. UNCHANGED <<kind, discord, events, raised, known, guildCached, astray, grown>>
    BY <1>1, <1>14
  <2> QED BY <1>1, <1>4, <1>5, <1>14, <2>1, AnswerPops
<1> QED BY <1>1, <1>7, <1>8, <1>9, <1>10, <1>11, <1>12, <1>13, <1>14 DEF Keep

----------------------------------------------------------------------------
(* Discord's side of a request *)

\* What Discord shows after it has changed.
LEMMA ViewNext ==
  ASSUME kind' = kind, discord' \in [Ids -> Objects], NEW T \in SUBSET Ids, NEW V,
         V = [id \in T |-> [name |-> discord'[id].name, tag |-> discord'[id].tag]]
  PROVE  /\ V \in Snaps /\ DOMAIN V = T
         /\ \A id \in T : V[id].name = discord'[id].name /\ V[id].tag = discord'[id].tag
<1>1. \A id \in T : [name |-> discord'[id].name, tag |-> discord'[id].tag] \in Shots
  BY DEF Objects, Shots
<1>2. V \in [T -> Shots]
  BY <1>1
<1> QED BY <1>2, SnapOf

\* Objects as Discord shows them are as they are.
LEMMA ShownNow ==
  ASSUME kind \in Kinds, NEW d \in [Ids -> Objects], NEW T \in SUBSET Ids, NEW V, DOMAIN V = T,
         \A id \in T : d[id].at # "unborn" /\ V[id].name = d[id].name /\ V[id].tag = d[id].tag
  PROVE  Shown(V, d)
BY CacheAssumption DEF Shown, Objects, Versions

\* A request is answered.
LEMMA ServedInv ==
  ASSUME Inv, NEW t \in Tasks, calls[t].at = "sent", ~raised, UNCHANGED cached, NEW objs \in Snaps,
         calls' = [calls EXCEPT ![t] = [at |-> "answered", keep |-> calls[t].keep, id |-> calls[t].id,
                                           items |-> calls[t].items, objs |-> objs]],
         Shown(objs, discord'),
         \/ UNCHANGED <<discord, events>>
         \/ discord' \in [Ids -> Objects] /\ Moves(discord, events, discord', events'),
         calls[t].keep = "update" => calls[t].id \in DOMAIN objs,
         calls[t].keep \in Giving \cup Taking => DOMAIN objs = {calls[t].id},
         calls[t].keep \in Taking => calls[t].items \cap objs[calls[t].id].tag = {},
         calls[t].keep = "drop" => calls[t].id \in Ids /\ discord'[calls[t].id].at = "gone"
  PROVE  Safe
<1> DEFINE c == [at |-> "answered", keep |-> calls[t].keep, id |-> calls[t].id,
                 items |-> calls[t].items, objs |-> objs]
<1>1. /\ UNCHANGED <<kind, store, guildCached, listed, raised, known, astray, grown>>
      /\ calls' = [calls EXCEPT ![t] = c]
  BY DEF cached
<1>2. /\ kind \in Kinds /\ Called(calls, discord) /\ discord \in [Ids -> Objects]
      /\ Stored(store, discord) /\ astray \subseteq Ids
      /\ kind \notin Emojis => Fresh(store, astray, grown, events, discord) /\ Listed(listed, store, astray, events, discord)
  BY DEF Inv, World
<1>3. CallOf(calls[t], discord) /\ calls[t] # Idle
  BY <1>2 DEF Called, Idle
<1>4. CallOf(c, discord')
  <2>1. /\ calls[t].id \in Ids \cup {All} /\ (calls[t].keep = "add" => kind \notin Unlisted)
        /\ (calls[t].keep = "drop" => kind \notin Reborn) /\ calls[t].items \subseteq Items
    BY <1>3 DEF CallOf
  <2>2. /\ c.at = "answered" /\ c.keep = calls[t].keep /\ c.id = calls[t].id /\ c.objs = objs
        /\ c.items = calls[t].items
    OBVIOUS
  <2> HIDE DEF c
  <2>3. Answered(c, discord')
    BY <2>2 DEF Answered
  <2> QED BY <2>1, <2>2, <2>3 DEF CallOf
<1> HIDE DEF c
<1>5. CASE UNCHANGED <<discord, events>>
  <2>1. discord' = discord
    BY <1>5
  <2>2. CallOf(c, discord)
    BY <1>4, <2>1
  <2>3. Called(calls', discord)
    BY <1>1, <1>2, <2>2, CallsWith
  <2> QED BY <1>1, <1>5, <2>3, OnlyCalls
<1>6. CASE discord' \in [Ids -> Objects] /\ Moves(discord, events, discord', events')
  <2>1. Called(calls, discord')
    BY <1>1, <1>6, CallsMoved
  <2>2. Called(calls', discord')
    BY <1>1, <1>4, <2>1, CallsWith
  <2> QED BY <1>1, <1>2, <1>6, <2>2, MovedInv
<1> QED BY <1>5, <1>6

\* An object gets a list, or has it already.
LEMMA SetToMoves ==
  ASSUME kind \in Kinds, kind' = kind, discord \in [Ids -> Objects],
         NEW id \in Ids, NEW list \in SUBSET Items, SetTo(id, list)
  PROVE  /\ discord'[id].at = "alive" /\ discord'[id].tag = list /\ discord' \in [Ids -> Objects]
         /\ \/ UNCHANGED <<discord, events>>
            \/ Moves(discord, events, discord', events')
<1>1. CASE list = discord[id].tag
  BY <1>1 DEF SetTo, Alive
<1>2. CASE list # discord[id].tag
  <2>1. Change(id, {list}) /\ {list} \in SUBSET SUBSET Items
    BY <1>2 DEF SetTo
  <2> QED BY <2>1, ChangeMoves
<1> QED BY <1>1, <1>2

\* Discord serves a request.
LEMMA ServeInv == ASSUME Inv, NEW t \in Tasks, Serve(t) PROVE Safe
<1> DEFINE c == calls[t]
           Answer(objs) == calls' = [calls EXCEPT ![t] = [at |-> "answered", keep |-> c.keep, id |-> c.id,
                                                        items |-> c.items, objs |-> objs]]
<1>1. c.at = "sent" /\ ~raised /\ UNCHANGED cached /\ kind' = kind
  BY DEF Serve, cached
<1>2. kind \in Kinds /\ discord \in [Ids -> Objects] /\ Called(calls, discord)
  BY DEF Inv, World
<1>3. CallOf(c, discord) /\ c # Idle
  BY <1>1, <1>2 DEF Called, Idle
<1>4. Fits(c.keep, c.effect) /\ c.id \in Ids \cup {All} /\ c.items \subseteq Items
  BY <1>1, <1>3 DEF CallOf
<1>5. \/ c.effect = "read" /\ Answer(View(About(c.id))) /\ UNCHANGED <<discord, events>>
      \/ c.effect = "create" /\ \E new \in Ids : Appear(new) /\ Answer(View({new})')
      \/ \E old \in Ids \cap {c.id} :
            /\ \/ c.effect = "modify" /\ Change(old, Lists[kind])
               \/ c.effect = "grant" /\ SetTo(old, discord[old].tag \cup c.items)
               \/ c.effect = "revoke" /\ SetTo(old, discord[old].tag \ c.items)
               \/ c.effect = "remove" /\ Vanish(old)
            /\ Answer(View({old})')
      \/ c.effect = "act" /\ Answer(<< >>) /\ UNCHANGED <<discord, events>>
  BY DEF Serve, Effected
<1>6. ASSUME NEW id \in Ids
      PROVE  View({id})' = [u \in {id} |-> [name |-> discord'[u].name, tag |-> discord'[u].tag]]
  BY DEF View
<1>7. c.effect \in {"read", "create", "act"} => c.keep \notin {"update", "drop"} \cup Giving \cup Taking
  BY <1>4 DEF Fits, Giving, Taking
<1>8. CASE c.effect = "read" /\ Answer(View(About(c.id))) /\ UNCHANGED <<discord, events>>
  <2>1. About(c.id) \in SUBSET Ids /\ \A id \in About(c.id) : discord[id].at = "alive"
    BY DEF About, Alive
  <2>2. /\ View(About(c.id)) \in Snaps /\ DOMAIN View(About(c.id)) = About(c.id)
        /\ \A id \in About(c.id) : /\ View(About(c.id))[id].name = discord[id].name
                                   /\ View(About(c.id))[id].tag = discord[id].tag
    BY <1>2, <2>1, ViewIs
  <2> DEFINE V == View(About(c.id))
  <2>3. Shown(V, discord)
    BY <1>2, <2>1, <2>2, ShownNow
  <2>4. Answer(V) /\ V \in Snaps
    BY <1>8, <2>2
  <2> HIDE DEF V
  <2>5. Shown(V, discord')
    BY <1>8, <2>3
  <2> QED BY <1>1, <1>7, <1>8, <2>4, <2>5, ServedInv
<1>9. CASE c.effect = "create" /\ \E new \in Ids : Appear(new) /\ Answer(View({new})')
  <2>1. PICK new \in Ids : Appear(new) /\ Answer(View({new})')
    BY <1>9
  <2>2. discord' \in [Ids -> Objects] /\ Moves(discord, events, discord', events') /\ discord'[new].at = "alive"
    BY <1>1, <1>2, <2>1, AppearMoves
  <2> DEFINE V == View({new})'
  <2>3. {new} \in SUBSET Ids
    OBVIOUS
  <2>4. V \in Snaps /\ DOMAIN V = {new} /\ V[new].name = discord'[new].name /\ V[new].tag = discord'[new].tag
    BY <1>1, <1>6, <2>2, <2>3, ViewNext
  <2>5. Answer(V)
    BY <2>1
  <2> HIDE DEF V
  <2>6. Shown(V, discord')
    BY <1>2, <2>2, <2>3, <2>4, ShownNow
  <2> QED BY <1>1, <1>7, <1>9, <2>2, <2>4, <2>5, <2>6, ServedInv
<1>10. CASE \E old \in Ids \cap {c.id} :
               /\ \/ c.effect = "modify" /\ Change(old, Lists[kind])
                  \/ c.effect = "grant" /\ SetTo(old, discord[old].tag \cup c.items)
                  \/ c.effect = "revoke" /\ SetTo(old, discord[old].tag \ c.items)
                  \/ c.effect = "remove" /\ Vanish(old)
               /\ Answer(View({old})')
  <2>1. PICK old \in Ids :
            /\ old = c.id /\ Answer(View({old})')
            /\ \/ c.effect = "modify" /\ Change(old, Lists[kind])
               \/ c.effect = "grant" /\ SetTo(old, discord[old].tag \cup c.items)
               \/ c.effect = "revoke" /\ SetTo(old, discord[old].tag \ c.items)
               \/ c.effect = "remove" /\ Vanish(old)
    BY <1>10
  <2>2. {old} \in SUBSET Ids
    OBVIOUS
  <2> DEFINE V == View({old})'
  <2>3. /\ discord' \in [Ids -> Objects]
        /\ UNCHANGED <<discord, events>> \/ Moves(discord, events, discord', events')
        /\ discord'[old].at # "unborn"
        /\ c.effect = "revoke" => discord'[old].tag \cap c.items = {}
        /\ c.effect = "remove" => discord'[old].at = "gone"
        /\ c.effect \in {"modify", "grant", "revoke", "remove"}
    <3>0. /\ Lists[kind] \in SUBSET SUBSET Items /\ discord[old].tag \in SUBSET Items
          /\ discord[old].tag \cup c.items \in SUBSET Items /\ discord[old].tag \ c.items \in SUBSET Items
      BY <1>2, <1>4, CacheAssumption DEF Objects
    <3>1. CASE c.effect = "modify" /\ Change(old, Lists[kind])
      BY <1>1, <1>2, <3>0, <3>1, ChangeMoves
    <3>2. CASE c.effect = "grant" /\ SetTo(old, discord[old].tag \cup c.items)
      BY <1>1, <1>2, <3>0, <3>2, SetToMoves
    <3>3. CASE c.effect = "revoke" /\ SetTo(old, discord[old].tag \ c.items)
      <4>1. /\ discord'[old].at = "alive" /\ discord'[old].tag = discord[old].tag \ c.items
            /\ discord' \in [Ids -> Objects]
            /\ UNCHANGED <<discord, events>> \/ Moves(discord, events, discord', events')
        BY <1>1, <1>2, <3>0, <3>3, SetToMoves
      <4> QED BY <3>3, <4>1
    <3>4. CASE c.effect = "remove" /\ Vanish(old)
      BY <1>1, <1>2, <2>1, <3>4, VanishMoves
    <3> QED BY <2>1, <3>1, <3>2, <3>3, <3>4
  <2>4. V \in Snaps /\ DOMAIN V = {old} /\ V[old].name = discord'[old].name /\ V[old].tag = discord'[old].tag
    BY <1>1, <1>6, <2>2, <2>3, ViewNext
  <2>9. Answer(V)
    BY <2>1
  <2> HIDE DEF V
  <2>5. Shown(V, discord')
    BY <1>2, <2>2, <2>3, <2>4, ShownNow
  <2>6. c.id = old /\ c.id \in DOMAIN V
    BY <2>1, <2>4
  <2>7. c.keep \in Taking => c.items \cap V[old].tag = {}
    <3>1. c.keep \in Taking => c.effect = "revoke"
      BY <1>4 DEF Fits
    <3> QED BY <2>3, <2>4, <3>1
  <2>8. c.keep = "drop" => c.id \in Ids /\ discord'[c.id].at = "gone"
    BY <1>4, <2>1, <2>3, <2>6 DEF Fits
  <2> QED BY <1>1, <2>3, <2>4, <2>5, <2>6, <2>7, <2>8, <2>9, ServedInv
<1>11. CASE c.effect = "act" /\ Answer(<< >>) /\ UNCHANGED <<discord, events>>
  <2>1. << >> \in Snaps /\ DOMAIN << >> = {}
    BY NoSnap
  <2>2. Shown(<< >>, discord')
    BY <2>1 DEF Shown
  <2> QED BY <1>1, <1>7, <1>11, <2>1, <2>2, ServedInv
<1> QED BY <1>5, <1>8, <1>9, <1>10, <1>11

\* Discord's objects change as they may, and no call does.
LEMMA AskInv == ASSUME Inv, NEW t \in Tasks, NEW k, NEW endpoint, Ask(t, k, endpoint) PROVE Safe
<1>1. ~raised /\ UNCHANGED cached /\ kind' = kind
  BY DEF Ask, cached
<1>2. PICK id \in Ids :
         \/ UNCHANGED calls /\ UNCHANGED <<discord, events>>
         \/ (\E new \in Ids : Appear(new)) /\ UNCHANGED calls
         \/ \E old \in Ids \cap {id} :
               /\ \/ Change(old, Lists[kind]) \/ Vanish(old)
                  \/ \E list \in SUBSET Items : SetTo(old, list)
               /\ UNCHANGED calls
  <2>1. discord \in [Ids -> Objects]
    BY DEF Inv, World
  <2>2. \A u \in Ids : discord[u].tag \cup {} \in SUBSET Items /\ discord[u].tag \ {} \in SUBSET Items
    BY <2>1 DEF Objects
  <2> QED BY <2>2 DEF Ask, Effected
<1>3. /\ kind \in Kinds /\ discord \in [Ids -> Objects] /\ Stored(store, discord) /\ Called(calls, discord)
      /\ Lists[kind] \in SUBSET SUBSET Items
  BY <1>1, CacheAssumption DEF Inv, World
<1>4. CASE UNCHANGED calls /\ UNCHANGED <<discord, events>>
  <2>1. Called(calls', discord)
    BY <1>3, <1>4
  <2> QED BY <1>1, <1>4, <2>1, OnlyCalls DEF cached
<1>5. CASE UNCHANGED calls /\ discord' \in [Ids -> Objects] /\ Moves(discord, events, discord', events')
  <2>1. Called(calls, discord') /\ calls' = calls
    BY <1>1, <1>5, CallsMoved
  <2>2. Called(calls', discord')
    BY <2>1
  <2> QED BY <1>1, <1>3, <1>5, <2>2, MovedInv DEF cached
<1>6. ASSUME NEW u \in Ids, Appear(u) \/ Change(u, Lists[kind]) \/ Vanish(u)
      PROVE  discord' \in [Ids -> Objects] /\ Moves(discord, events, discord', events')
  BY <1>1, <1>3, <1>6, AppearMoves, ChangeMoves, VanishMoves
<1>7. ASSUME NEW u \in Ids, NEW list \in SUBSET Items, SetTo(u, list)
      PROVE  \/ UNCHANGED <<discord, events>>
             \/ discord' \in [Ids -> Objects] /\ Moves(discord, events, discord', events')
  BY <1>1, <1>3, <1>7, SetToMoves
<1> QED BY <1>2, <1>4, <1>5, <1>6, <1>7

----------------------------------------------------------------------------
(* The methods *)

Plain == {"merge", "put", "forget", "guild"}

\* Answers that say no more than they show.
LEMMA PlainInv ==
  ASSUME Inv, NEW t \in Tasks, NEW k, NEW endpoint, NEW keep \in Plain,
         Call(t, k, endpoint, keep) \/ CallAll(t, k, endpoint, keep) \/ Create(t, k, endpoint, keep)
  PROVE  Safe
<1>1. Proposes(k, endpoint, keep)
  BY DEF Proposes, Plain, Fits, Giving, Taking
<1>2. Ids \in SUBSET (Ids \cup {All}) /\ {All} \in SUBSET (Ids \cup {All})
  OBVIOUS
<1> QED BY <1>1, <1>2, CallForInv DEF Call, CallAll, Create

\* Answers that are added.
LEMMA AddInv ==
  ASSUME Inv, NEW t \in Tasks, NEW k, NEW endpoint, k \notin Unlisted,
         Call(t, k, endpoint, "add") \/ CallAll(t, k, endpoint, "add") \/ Create(t, k, endpoint, "add")
  PROVE  Safe
<1>1. Proposes(k, endpoint, "add")
  BY DEF Proposes, Fits, Giving, Taking
<1>2. Ids \in SUBSET (Ids \cup {All}) /\ {All} \in SUBSET (Ids \cup {All})
  OBVIOUS
<1> QED BY <1>1, <1>2, CallForInv DEF Call, CallAll, Create

\* The ways to keep an answer that only the answers of some requests are kept in.
LEMMA EffectInv ==
  ASSUME Inv, NEW t \in Tasks, NEW k, NEW endpoint, NEW keep, Call(t, k, endpoint, keep),
         \/ keep = "update" /\ Effect[endpoint] = "modify"
         \/ keep \in Giving /\ Effect[endpoint] = "grant"
         \/ keep \in Taking /\ Effect[endpoint] = "revoke"
         \/ keep = "drop" /\ Effect[endpoint] = "remove" /\ k \notin Reborn
  PROVE  Safe
<1>1. Proposes(k, endpoint, keep)
  BY DEF Proposes, Fits, Giving, Taking
<1>2. Ids \in SUBSET (Ids \cup {All})
  OBVIOUS
<1> QED BY <1>1, <1>2, CallForInv DEF Call

\* The methods of guild.py.
LEMMA OfGuildPyInv == ASSUME Inv, NEW t \in Tasks, OfGuildPy(t) PROVE Safe
<1>0. /\ {"guild", "channel", "thread", "role", "member", "emoji", "sticker"} \cap Unlisted = {}
      /\ "message" \notin Reborn /\ "channel" \notin Reborn
      /\ {"merge", "put", "forget", "guild"} \subseteq Plain
      /\ {"grant", "grantOwn"} \subseteq Giving /\ {"revoke", "revokeOwn"} \subseteq Taking
  BY DEF Unlisted, Reborn, Plain, Giving, Taking
<1>1. CASE \/ Guild_ban(t) \/ Guild_remove_ban(t) \/ Guild_kick(t) \/ Guild_add_member_role(t)
           \/ Guild_remove_member_role(t) \/ Guild_create_role(t) \/ Guild_get_member(t)
           \/ Guild_delete_channel(t)
  BY <1>0, <1>1, AskInv, PlainInv, AddInv, EffectInv, KeptEffects
     DEF Guild_ban, Guild_remove_ban, Guild_kick, Guild_add_member_role,
         Guild_remove_member_role, Guild_create_role, Guild_get_member, Guild_delete_channel
<1>2. CASE \/ Guild_delete_role(t) \/ Guild_modify_role(t) \/ Guild_create_thread(t)
           \/ Guild_create_channel(t) \/ Guild_clone_channel(t) \/ Guild_modify_channel(t)
           \/ Guild_modify_member(t) \/ Guild_get_preview(t)
  BY <1>0, <1>2, AskInv, PlainInv, AddInv
     DEF Guild_delete_role, Guild_modify_role, Guild_create_thread, Guild_create_channel,
         Guild_clone_channel, Guild_modify_channel, Guild_modify_member, Guild_get_preview
<1>3. CASE \/ Guild_leave(t) \/ Guild_modify(t) \/ Guild_set_first(t) \/ Guild_set_second(t)
           \/ Guild_create_scheduled_event(t) \/ Guild_get_scheduled_events(t)
           \/ Guild_modify_scheduled_event(t) \/ Guild_delete_scheduled_event(t)
  BY <1>0, <1>3, AskInv, PlainInv, EffectInv, KeptEffects
     DEF Guild_leave, Guild_modify, Guild_set_first, Guild_set_second,
         Guild_create_scheduled_event, Guild_get_scheduled_events, Guild_modify_scheduled_event,
         Guild_delete_scheduled_event
<1>4. CASE \/ Guild_get_all_channels(t) \/ Guild_get_all_active_threads(t)
           \/ Guild_get_all_roles(t) \/ Guild_get_role(t) \/ Guild_modify_role_positions(t)
           \/ Guild_modify_role_position(t) \/ Guild_get_bans(t) \/ Guild_prune(t)
  BY <1>0, <1>4, AskInv, AddInv
     DEF Guild_get_all_channels, Guild_get_all_active_threads, Guild_get_all_roles,
         Guild_get_role, Guild_modify_role_positions, Guild_modify_role_position,
         Guild_get_bans, Guild_prune
<1>5. CASE \/ Guild_get_prune_count(t) \/ Guild_get_emoji(t) \/ Guild_get_all_emoji(t)
           \/ Guild_create_emoji(t) \/ Guild_modify_emoji(t) \/ Guild_delete_emoji(t)
           \/ Guild_get_stickers(t) \/ Guild_get_nitro_sticker_packs(t)
  BY <1>0, <1>5, AskInv, PlainInv, AddInv
     DEF Guild_get_prune_count, Guild_get_emoji, Guild_get_all_emoji, Guild_create_emoji,
         Guild_modify_emoji, Guild_delete_emoji, Guild_get_stickers,
         Guild_get_nitro_sticker_packs
<1>6. CASE \/ Guild_create_sticker(t) \/ Guild_modify_sticker(t) \/ Guild_delete_sticker(t)
           \/ Guild_get_list_of_members(t) \/ Guild_search_members(t) \/ Guild_get_webhooks(t)
           \/ Guild_list_auto_moderation_rules(t) \/ Guild_get_auto_moderation_rule(t)
  BY <1>0, <1>6, AskInv, PlainInv, AddInv
     DEF Guild_create_sticker, Guild_modify_sticker, Guild_delete_sticker,
         Guild_get_list_of_members, Guild_search_members, Guild_get_webhooks,
         Guild_list_auto_moderation_rules, Guild_get_auto_moderation_rule
<1>7. CASE \/ Guild_create_auto_moderation_rule(t) \/ Guild_modify_auto_moderation_rule(t)
           \/ Guild_get_audit_logs(t) \/ Guild_get_latest_audit_log_action(t)
           \/ Guild_get_invite(t) \/ Guild_delete_invite(t) \/ Guild_get_invites(t)
           \/ Guild_modify_bot_nick(t)
  BY <1>0, <1>7, AskInv, AddInv
     DEF Guild_create_auto_moderation_rule, Guild_modify_auto_moderation_rule,
         Guild_get_auto_moderation_rule, Guild_get_audit_logs,
         Guild_get_latest_audit_log_action, Guild_get_invite, Guild_delete_invite,
         Guild_get_invites, Guild_modify_bot_nick
<1> QED BY <1>1, <1>2, <1>3, <1>4, <1>5, <1>6, <1>7 DEF OfGuildPy

\* The methods of channel.py.
LEMMA OfChannelPyInv == ASSUME Inv, NEW t \in Tasks, OfChannelPy(t) PROVE Safe
<1>0. /\ {"guild", "channel", "thread", "role", "member", "emoji", "sticker"} \cap Unlisted = {}
      /\ "message" \notin Reborn /\ "channel" \notin Reborn
      /\ {"merge", "put", "forget", "guild"} \subseteq Plain
      /\ {"grant", "grantOwn"} \subseteq Giving /\ {"revoke", "revokeOwn"} \subseteq Taking
  BY DEF Unlisted, Reborn, Plain, Giving, Taking
<1>1. CASE \/ Channel_send(t) \/ Channel_delete(t) \/ Channel_modify(t) \/ Channel_set_first(t)
           \/ Channel_set_second(t) \/ Channel_add_member(t) \/ Channel_remove_member(t)
           \/ Channel_pin_message(t)
  BY <1>0, <1>1, AskInv, PlainInv, EffectInv, KeptEffects
     DEF Channel_send, Channel_delete, Channel_modify, Channel_set_first, Channel_set_second,
         Channel_add_member, Channel_remove_member, Channel_pin_message
<1>2. CASE \/ Channel_unpin_message(t) \/ Channel_publish_message(t)
           \/ Channel_get_pinned_messages(t) \/ Channel_get_message(t)
           \/ Channel_create_thread(t) \/ Channel_create_invite(t) \/ Channel_get_webhooks(t)
           \/ Channel_get_members(t)
  BY <1>0, <1>2, AskInv, PlainInv
     DEF Channel_unpin_message, Channel_publish_message, Channel_get_pinned_messages,
         Channel_get_message, Channel_create_thread, Channel_create_invite,
         Channel_get_webhooks, Channel_get_members
<1>3. CASE \/ Channel_leave(t) \/ Channel_join(t) \/ Channel_create_tag(t)
           \/ Channel_edit_tag(t) \/ Channel_delete_tag(t) \/ Channel_create_forum_post(t)
           \/ Channel_add_permission_overwrite(t) \/ Channel_add_permission_overwrites(t)
  BY <1>0, <1>3, AskInv, AddInv, EffectInv, KeptEffects, EditOwnInv
     DEF Channel_leave, Channel_join, Channel_create_tag, Channel_modify, Channel_edit_tag,
         Channel_delete_tag, Channel_create_forum_post, Channel_add_permission_overwrite,
         Channel_add_permission_overwrites
<1>4. CASE Channel_overwrite_permission_overwrites(t) \/ Channel_remove_permission_overwrite_for(t)
  BY <1>0, <1>4, EffectInv, KeptEffects, EditOwnInv
     DEF Channel_overwrite_permission_overwrites, Channel_modify,
         Channel_remove_permission_overwrite_for, Channel_add_permission_overwrite
<1> QED BY <1>1, <1>2, <1>3, <1>4 DEF OfChannelPy

\* The methods of message.py.
LEMMA OfMessagePyInv == ASSUME Inv, NEW t \in Tasks, OfMessagePy(t) PROVE Safe
<1>0. /\ {"guild", "channel", "thread", "role", "member", "emoji", "sticker"} \cap Unlisted = {}
      /\ "message" \notin Reborn /\ "channel" \notin Reborn
      /\ {"merge", "put", "forget", "guild"} \subseteq Plain
      /\ {"grant", "grantOwn"} \subseteq Giving /\ {"revoke", "revokeOwn"} \subseteq Taking
  BY DEF Unlisted, Reborn, Plain, Giving, Taking
<1>1. CASE \/ Message_get_channel(t) \/ Message_get_guild(t) \/ Message_delete(t)
           \/ Message_edit(t) \/ Message_reply(t) \/ Message_pin(t) \/ Message_unpin(t)
           \/ Message_publish(t)
  BY <1>0, <1>1, AskInv, PlainInv, AddInv, EffectInv, KeptEffects
     DEF Message_get_channel, Message_get_guild, Message_delete, Message_edit, Message_reply,
         Message_pin, Message_unpin, Message_publish
<1>2. CASE \/ Message_create_thread(t) \/ Message_create_reaction(t)
           \/ Message_remove_all_reactions(t) \/ Message_remove_all_reactions_of(t)
           \/ Message_remove_own_reaction_of(t) \/ Message_remove_reaction_from(t)
           \/ Message_get_from_url(t) \/ Message_disable_all_components(t)
  BY <1>0, <1>2, AskInv, PlainInv, AddInv, EffectInv, KeptEffects, EditOwnInv
     DEF Message_create_thread, Message_create_reaction, Message_remove_all_reactions,
         Message_remove_all_reactions_of, Message_remove_own_reaction_of,
         Message_remove_reaction_from, Message_get_from_url, Message_disable_all_components,
         Message_edit
<1> QED BY <1>1, <1>2 DEF OfMessagePy

\* The methods of the other models.
LEMMA OfOthersInv == ASSUME Inv, NEW t \in Tasks, OfOthers(t) PROVE Safe
<1>0. /\ {"guild", "channel", "thread", "role", "member", "emoji", "sticker"} \cap Unlisted = {}
      /\ "message" \notin Reborn /\ "channel" \notin Reborn
      /\ {"merge", "put", "forget", "guild"} \subseteq Plain
      /\ {"grant", "grantOwn"} \subseteq Giving /\ {"revoke", "revokeOwn"} \subseteq Taking
  BY DEF Unlisted, Reborn, Plain, Giving, Taking
<1>1. CASE \/ Member_ban(t) \/ Member_kick(t) \/ Member_add_role(t) \/ Member_remove_role(t)
           \/ Member_send(t) \/ Member_modify(t) \/ Member_add_to_thread(t) \/ Role_delete(t)
  BY <1>0, <1>1, AskInv, PlainInv, EffectInv, KeptEffects
     DEF Member_ban, Member_kick, Member_add_role, Member_remove_role, Member_send,
         User_get_dm_channel, Member_modify, Member_add_to_thread, Role_delete
<1>2. CASE \/ Role_modify(t) \/ Role_modify_position(t) \/ Emoji_get(t)
           \/ Emoji_get_all_of_guild(t) \/ Emoji_modify(t) \/ Emoji_delete(t) \/ User_send(t)
           \/ User_get_dm_channel(t)
  BY <1>0, <1>2, PlainInv, AddInv, EffectInv, KeptEffects
     DEF Role_modify, Role_modify_position, Emoji_get, Emoji_get_all_of_guild, Emoji_modify,
         Emoji_delete, User_send, User_get_dm_channel
<1>3. CASE \/ Webhook_create(t) \/ Webhook_get(t) \/ Webhook_modify(t) \/ Webhook_execute(t)
           \/ Webhook_delete(t) \/ VoiceState_mute_member(t) \/ VoiceState_deafen_member(t)
           \/ VoiceState_move_member(t)
  BY <1>0, <1>3, AskInv, EffectInv, KeptEffects
     DEF Webhook_create, Webhook_get, Webhook_modify, Webhook_execute, Webhook_delete,
         VoiceState_mute_member, Member_modify, VoiceState_deafen_member,
         VoiceState_move_member
<1>4. CASE VoiceState_get_channel(t) \/ VoiceState_get_guild(t) \/ Invite_delete(t) \/ get(t)
  BY <1>0, <1>4, AskInv, PlainInv, AddInv
     DEF VoiceState_get_channel, VoiceState_get_guild, Message_get_guild, Invite_delete, get,
         Guild_get_role, Guild_get_all_roles, Guild_get_emoji
<1> QED BY <1>1, <1>2, <1>3, <1>4 DEF OfOthers

\* Every method.
LEMMA RunInv == ASSUME Inv, NEW t \in Tasks, Run(t) PROVE Safe
BY OfGuildPyInv, OfChannelPyInv, OfMessagePyInv, OfOthersInv DEF Run

----------------------------------------------------------------------------
(* The theorems *)

\* The invariant holds at first.
LEMMA InitInv == ASSUME Init PROVE Inv
<1> DEFINE objs == IF kind \in InGuildCreate THEN View(Alive) ELSE << >>
           m == [op |-> "guild", objs |-> objs]
<1>1. /\ kind \in Kinds /\ events = <<m>> /\ store = << >> /\ listed = {} /\ guildCached = FALSE
      /\ raised = FALSE /\ known = [id \in Ids |-> 0] /\ astray = {} /\ grown = {}
      /\ calls = [t \in Tasks |-> Idle]
  BY DEF Init, CacheInit, GuildCreate, Event
<1>13. PICK list \in Lists[kind] : discord = [id \in Ids |->
          IF id = 1 THEN [at |-> "alive", name |-> 0, tag |-> list] ELSE [at |-> "unborn", name |-> 0, tag |-> {}]]
  BY DEF Init, CacheInit
<1>14. list \in SUBSET Items
  BY <1>1, CacheAssumption
<1>2. MaxChanges[kind] \in Nat /\ Limit \in Nat /\ Gone \in Nat /\ 0 \in Versions /\ 0 \in 0..Gone
  BY <1>1, CacheAssumption DEF Versions, Gone
<1>3. discord \in [Ids -> Objects]
  BY <1>2, <1>13, <1>14 DEF Objects
<1>4. Alive \in SUBSET Ids /\ \A id \in Alive : discord[id].at = "alive"
  BY DEF Alive
<1>5. /\ objs \in Snaps /\ DOMAIN objs \subseteq Alive
      /\ \A id \in DOMAIN objs : objs[id].name = discord[id].name /\ objs[id].tag = discord[id].tag
      /\ kind \notin InGuildCreate => DOMAIN objs = {}
  BY <1>3, <1>4, ViewIs, NoSnap
<1> HIDE DEF objs
<1>6. m \in Mails /\ m.objs = objs /\ m.op = "guild" /\ OneGone(m)
  BY <1>5 DEF Mails, OneGone, Unlisted, InGuildCreate, Emojis
<1> HIDE DEF m
<1>7. events \in Seq(Mails) /\ DOMAIN events = {1} /\ events[1] = m
  BY <1>1, <1>6
<1>8. World(discord, events)
  <2>1. \A id \in DOMAIN objs : MailOf(events, discord, 1, id)
    <3> SUFFICES ASSUME NEW id \in DOMAIN objs PROVE MailOf(events, discord, 1, id)
      OBVIOUS
    <3>1. id \in Ids /\ discord[id].at = "alive" /\ discord[id].name \in Nat
      BY <1>3, <1>4, <1>5, CacheAssumption DEF Objects, Versions
    <3>2. Agrees(discord, m, id)
      BY <1>5, <1>6, <3>1 DEF Agrees, Deletes
    <3> QED BY <1>5, <1>6, <1>7, <3>1, <3>2 DEF MailOf
  <2> QED BY <1>3, <1>6, <1>7, <2>1 DEF World
<1>9. Stored(store, discord) /\ Fresh(store, astray, grown, events, discord)
  <2>1. store \in Seq(Entries) /\ DOMAIN store = {} /\ Len(store) = 0
    BY <1>1
  <2>2. Range(store) = {}
    BY <2>1 DEF Range
  <2> QED BY <1>2, <2>1, <2>2 DEF Stored, Proper, Keyed, Fresh
<1>10. Called(calls, discord)
  BY <1>1 DEF Called, CallOf
<1>11. Noted(known, events, discord) /\ Listed(listed, store, astray, events, discord)
  BY <1>1, <1>13 DEF Noted, Listed
<1>12. known \in [Ids -> 0..Gone]
  BY <1>1, <1>2
<1> QED BY <1>1, <1>8, <1>9, <1>10, <1>11, <1>12 DEF Inv

\* Every step keeps the invariant and does not go back.
LEMMA StepInv == ASSUME Inv, [Next]_vars PROVE Safe
<1>1. CASE Gateway
  BY <1>1, DiscordInv, NewSessionInv, ProcessorsInv DEF Gateway
<1>2. ASSUME NEW t \in Tasks, Run(t) \/ Serve(t) \/ Refuse(t) \/ Return(t) PROVE Safe
  BY <1>2, RunInv, ServeInv, RefuseInv, ReturnInv
<1>3. CASE UNCHANGED vars
  <2>1. Called(calls', discord)
    BY <1>3 DEF vars, Inv
  <2> QED BY <1>3, <2>1, OnlyCalls DEF vars, cacheVars
<1> QED BY <1>1, <1>2, <1>3 DEF Next

\* The inductive invariant: what is on its way about an object ends with what is so,
\* and what the cache holds and has listed is so, is on its way, or is astray.
THEOREM Invariance == Spec => []Inv
<1>1. Init => Inv
  BY InitInv
<1>2. Inv /\ [Next]_vars => Inv'
  BY StepInv DEF Safe
<1> QED BY <1>1, <1>2, PTL DEF Spec

\* TypeOK holds: the Storage never exceeds its limit and never holds two entries of
\* a key, whatever the processors and the methods put, merge, update or pop.
THEOREM TypeCorrect == Spec => []TypeOK
<1>1. Inv => TypeOK
  BY DEF Inv, TypeOK, Stored, Proper, Keyed
<1> QED BY <1>1, Invariance, PTL

\* Nothing is on its way when all is quiet.
LEMMA QuietIs == ASSUME Inv, Quiet PROVE ~raised /\ \A id : ~Pending(events, id)
BY DEF Quiet, Pending

\* Settled holds: when every dispatch has been processed, an entry is of the version that
\* Discord has, its list has all of Discord's items, and, unless a merge or a repeated role
\* has put more into it, only those: but for what a late answer, a lost session, an early
\* change or the merge of a thread led astray.
THEOREM CacheSettles == Spec => []Settled
<1>1. ASSUME Inv PROVE Settled
  <2> SUFFICES ASSUME Quiet, kind \notin Emojis, NEW i \in DOMAIN store, store[i].id \notin astray
               PROVE  LET e == store[i] IN
                      /\ e.id \in Alive /\ e.name = discord[e.id].name /\ Covers(e.tag, discord[e.id].tag)
                      /\ e.id \in grown \/ e.tag = Once(discord[e.id].tag)
    BY DEF Settled
  <2>1. ~raised /\ \A id : ~Pending(events, id)
    BY <1>1, QuietIs
  <2>2. Proper(store) /\ kind \in Kinds /\ Fresh(store, astray, grown, events, discord) /\ store \in Seq(Entries)
    BY <1>1, <2>1 DEF Inv, Stored, Proper
  <2>3. store[i] \in Range(store) /\ store[i].id \in Ids
    BY <2>2, Contents, EntryIs
  <2>4. Current(discord, grown, store[i])
    BY <2>1, <2>2, <2>3 DEF Fresh
  <2> QED BY <2>3, <2>4 DEF Current, Shows, Alive
<1> QED BY <1>1, Invariance, PTL

\* ListedHeld holds: with room for all objects, what the guild lists is there and
\* is cached, once every dispatch has been processed.
THEOREM ListedAreHeld == Spec => []ListedHeld
<1>1. ASSUME Inv PROVE ListedHeld
  <2> SUFFICES ASSUME Quiet, kind \notin Emojis, Roomy, NEW id \in listed, id \notin astray
               PROVE  id \in Alive /\ Holds(store, id)
    BY DEF ListedHeld
  <2>1. ~raised /\ \A u : ~Pending(events, u)
    BY <1>1, QuietIs
  <2>2. Listed(listed, store, astray, events, discord) /\ listed \subseteq Ids
    BY <1>1, <2>1 DEF Inv
  <2>3. Cardinality(BornIn(discord)) <= Limit
    BY DEF Roomy, BornIn
  <2> QED BY <2>1, <2>2, <2>3 DEF Listed, Alive
<1> QED BY <1>1, Invariance, PTL

\* NeverBack holds: no processor and no answer puts an older version of an object in
\* the place of a newer one, unless it is astray or the next dispatch about it is on its way.
THEOREM CacheNeverBack == Spec => NeverBack
<1>1. Inv /\ [Next]_vars =>
      [\A id \in Ids :
          /\ Holds(store, id) /\ Holds(store', id) /\ Item(store, id).id = Item(store', id).id
          /\ Item(store', id).name < Item(store, id).name
          => \/ id \in astray'
             \/ \E i \in DOMAIN events' : id \in DOMAIN events'[i].objs]_vars
  BY StepInv DEF Safe, NoneBack, Pending
<1> QED BY <1>1, Invariance, PTL DEF Spec, NeverBack
=============================================================================
