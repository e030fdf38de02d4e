--------------------------- MODULE ExtensionsProofs ---------------------------
(***************************************************************************)
(* What is claimed of the lists of commands, handlers and listeners, and   *)
(* of what Discord has once the synchronisations are at rest, proved of    *)
(* Extensions for any guilds, scopes, versions and bounds.                 *)
(***************************************************************************)
EXTENDS Extensions, FiniteSetTheorems, SequenceTheorems, WellFoundedInduction, TLAPS

----------------------------------------------------------------------------
(* Sequences *)

LEMMA MinIs == ASSUME NEW I \in SUBSET Nat, I # {} PROVE Min(I) \in I /\ \A y \in I : Min(I) <= y
<1>1. PICK x \in I : \A y \in I : <<y, x>> \notin OpToRel(<, Nat)
  BY WFMin, NatLessThanWellFounded, Zenon
<1>2. \A y \in I : x <= y
  <2> SUFFICES ASSUME NEW y \in I, y < x PROVE FALSE
    OBVIOUS
  <2>1. <<y, x>> \in Nat \X Nat /\ <<y, x>>[1] < <<y, x>>[2]
    OBVIOUS
  <2> QED BY <1>1, <2>1, Zenon DEF OpToRel
<1> QED BY <1>2 DEF Min

LEMMA RemoveAtIs ==
  ASSUME NEW E, NEW s \in Seq(E), NEW p \in 1..Len(s)
  PROVE  /\ RemoveAt(s, p) \in Seq(E) /\ Len(RemoveAt(s, p)) = Len(s) - 1
         /\ \A i \in 1..Len(s) - 1 : RemoveAt(s, p)[i] = IF i < p THEN s[i] ELSE s[i + 1]
<1> DEFINE a == SubSeq(s, 1, p - 1)
           b == SubSeq(s, p + 1, Len(s))
           r == a \o b
<1>1. Len(s) \in Nat /\ p \in Nat /\ p <= Len(s) /\ p >= 1 /\ \A i \in 1..Len(s) : s[i] \in E
  BY LenProperties
<1>2. RemoveAt(s, p) = r
  BY DEF RemoveAt
<1>3. /\ a \in Seq(E) /\ Len(a) = p - 1 /\ \A i \in 1..p - 1 : a[i] = s[i]
  <2>1. \A i \in 1..p - 1 : s[i] \in E
    BY <1>1
  <2>2. p - 1 \in Int /\ 1 \in Int
    BY <1>1
  <2> QED BY <1>1, <2>1, <2>2, SubSeqProperties
<1>4. /\ b \in Seq(E) /\ Len(b) = Len(s) - p /\ \A i \in 1..Len(s) - p : b[i] = s[p + i]
  <2>1. \A i \in p + 1..Len(s) : s[i] \in E
    BY <1>1
  <2>2. p + 1 \in Int /\ Len(s) \in Int
    BY <1>1
  <2>3. /\ b \in Seq(E) /\ Len(b) = IF p + 1 <= Len(s) THEN Len(s) - (p + 1) + 1 ELSE 0
        /\ \A i \in 1..Len(s) - (p + 1) + 1 : b[i] = s[(p + 1) + i - 1]
    BY <2>1, <2>2, SubSeqProperties
  <2> HIDE DEF b
  <2> QED BY <1>1, <2>3
<1> HIDE DEF a, b
<1>5. /\ r \in Seq(E) /\ Len(r) = Len(a) + Len(b)
      /\ \A i \in 1..Len(a) + Len(b) : r[i] = IF i <= Len(a) THEN a[i] ELSE b[i - Len(a)]
  BY <1>3, <1>4, ConcatProperties
<1> HIDE DEF r
<1>6. Len(r) = Len(s) - 1
  BY <1>1, <1>3, <1>4, <1>5
<1>7. ASSUME NEW i \in 1..Len(s) - 1 PROVE r[i] = IF i < p THEN s[i] ELSE s[i + 1]
  <2>1. i \in 1..Len(a) + Len(b)
    BY <1>1, <1>3, <1>4
  <2>2. CASE i < p
    <3>1. i <= Len(a) /\ i \in 1..p - 1
      BY <1>1, <1>3, <2>2
    <3> QED BY <1>3, <1>5, <2>1, <2>2, <3>1
  <2>3. CASE ~(i < p)
    <3>1. Len(a) = p - 1 /\ p \in Nat /\ Len(s) \in Nat
      BY <1>1, <1>3
    <3>2. ~(i <= Len(a)) /\ i - Len(a) \in 1..Len(s) - p /\ p + (i - Len(a)) = i + 1
      BY <2>3, <3>1
    <3>3. r[i] = b[i - Len(a)]
      BY <1>5, <2>1, <3>2
    <3> QED BY <1>4, <2>3, <3>2, <3>3
  <2> QED BY <2>2, <2>3
<1> QED BY <1>2, <1>5, <1>6, <1>7

\* The only occurrence of an element is removed.
LEMMA RemoveFirstIs ==
  ASSUME NEW E, NEW s \in Seq(E), IsInjective(s), NEW x \in Range(s)
  PROVE  /\ RemoveFirst(s, x) \in Seq(E) /\ IsInjective(RemoveFirst(s, x))
         /\ Range(RemoveFirst(s, x)) = Range(s) \ {x}
<1> DEFINE I == {i \in 1..Len(s) : s[i] = x}
           p == Min(I)
           r == RemoveAt(s, p)
<1>1. Len(s) \in Nat /\ DOMAIN s = 1..Len(s)
  BY LenProperties
<1>2. I \in SUBSET Nat /\ I # {}
  BY <1>1 DEF Range
<1>3. p \in I
  <2> HIDE DEF I
  <2> QED BY <1>2, MinIs
<1>4. RemoveFirst(s, x) = r
  <2>1. \E i \in 1..Len(s) : s[i] = x
    BY <1>2
  <2> QED BY <1>2, <2>1 DEF RemoveFirst, SelectInSeq
<1>5. p \in 1..Len(s) /\ s[p] = x
  BY <1>3
<1> HIDE DEF p, I
<1>6. /\ r \in Seq(E) /\ Len(r) = Len(s) - 1
      /\ \A i \in 1..Len(s) - 1 : r[i] = IF i < p THEN s[i] ELSE s[i + 1]
  BY <1>5, RemoveAtIs
<1> HIDE DEF r
<1>7. DOMAIN r = 1..Len(s) - 1
  BY <1>6, LenProperties
<1>8. ASSUME NEW i \in DOMAIN r
      PROVE  r[i] = s[IF i < p THEN i ELSE i + 1] /\ (IF i < p THEN i ELSE i + 1) \in DOMAIN s \ {p}
  BY <1>1, <1>5, <1>6, <1>7
<1>9. IsInjective(r)
  <2> SUFFICES ASSUME NEW i \in DOMAIN r, NEW j \in DOMAIN r, r[i] = r[j] PROVE i = j
    BY DEF IsInjective
  <2>1. (IF i < p THEN i ELSE i + 1) = (IF j < p THEN j ELSE j + 1)
    BY <1>8 DEF IsInjective
  <2> QED BY <1>1, <1>5, <1>7, <2>1
<1>10. ASSUME NEW y \in Range(r) PROVE y \in Range(s) \ {x}
  <2>1. PICK i \in DOMAIN r : y = r[i]
    BY DEF Range
  <2>2. PICK j \in DOMAIN s \ {p} : y = s[j]
    BY <1>8, <2>1
  <2>3. y # x
    BY <1>1, <1>5, <2>2 DEF IsInjective
  <2> QED BY <2>2, <2>3 DEF Range
<1>11. ASSUME NEW y \in Range(s) \ {x} PROVE y \in Range(r)
  <2>1. PICK j \in DOMAIN s : y = s[j] /\ j # p
    BY <1>5 DEF Range
  <2>2. CASE j < p
    <3>1. j \in DOMAIN r /\ r[j] = s[j]
      BY <1>1, <1>5, <1>6, <1>7, <2>1, <2>2
    <3> QED BY <2>1, <3>1 DEF Range
  <2>3. CASE j > p
    <3>1. j - 1 \in DOMAIN r /\ r[j - 1] = s[j]
      BY <1>1, <1>5, <1>6, <1>7, <2>1, <2>3
    <3> QED BY <2>1, <3>1 DEF Range
  <2> QED BY <1>1, <1>5, <2>1, <2>2, <2>3
<1> QED BY <1>4, <1>6, <1>9, <1>10, <1>11


----------------------------------------------------------------------------
(* Recursion *)

\* What holds of 0, and of n when of n - 1, holds up to N.
LEMMA Climb ==
  ASSUME NEW N \in Nat, NEW T, 0 \in T, \A n \in 1..N : n - 1 \in T => n \in T
  PROVE  \A n \in 0..N : n \in T
<1> DEFINE F == {n \in 0..N : n \notin T}
<1>1. F \subseteq Nat
  OBVIOUS
<1>2. ASSUME F # {} PROVE FALSE
  <2>1. PICK x \in F : \A y \in F : <<y, x>> \notin OpToRel(<, Nat)
    <3> HIDE DEF F
    <3> QED BY <1>1, <1>2, WFMin, NatLessThanWellFounded, Zenon
  <2>2. \A y \in F : ~(y < x)
    <3> SUFFICES ASSUME NEW y \in F, y < x PROVE FALSE
      OBVIOUS
    <3>1. <<y, x>> \in Nat \X Nat /\ <<y, x>>[1] < <<y, x>>[2]
      OBVIOUS
    <3> HIDE DEF F
    <3> QED BY <2>1, <3>1, Zenon DEF OpToRel
  <2>3. x \in 1..N /\ x - 1 \in 0..N /\ x - 1 < x
    OBVIOUS
  <2>4. x - 1 \in T
    BY <2>2, <2>3
  <2> QED BY <2>3, <2>4
<1> QED BY <1>2

\* A value that is computed in steps, each from the one before.
Iterates(f, S, N, s, step) ==
  f \in [0..N -> S] /\ f[0] = s /\ \A n \in 1..N : f[n] = step[n][f[n - 1]]

\* There is such a sequence of values.
LEMMA Iterated ==
  ASSUME NEW S, NEW N \in Nat, NEW s \in S, NEW step \in [1..N -> [S -> S]]
  PROVE  \E f : Iterates(f, S, N, s, step)
<1> DEFINE Fits(n, f) == f[0] = s /\ \A m \in 1..n : f[m] = step[m][f[m - 1]]
           G == {n \in 0..N : \E f \in [0..n -> S] : Fits(n, f)}
<1>1. 0 \in G
  <2> DEFINE f == [m \in 0..0 |-> s]
  <2>1. f \in [0..0 -> S] /\ Fits(0, f)
    OBVIOUS
  <2> HIDE DEF f
  <2> QED BY <2>1
<1>2. ASSUME NEW n \in 1..N, n - 1 \in G
      PROVE  n \in G
  <2>1. PICK f \in [0..(n - 1) -> S] : Fits(n - 1, f)
    BY <1>2
  <2> DEFINE new == step[n][f[n - 1]]
             g == [m \in 0..n |-> IF m = n THEN new ELSE f[m]]
  <2>2. new \in S
    OBVIOUS
  <2>3. g \in [0..n -> S]
    BY <2>2
  <2>4. g[0] = s
    BY <2>1
  <2>5. ASSUME NEW m \in 1..n PROVE g[m] = step[m][g[m - 1]]
    <3>1. CASE m = n
      <4>1. g[m - 1] = f[m - 1] /\ g[m] = new
        BY <3>1
      <4> QED BY <3>1, <4>1
    <3>2. CASE m # n
      <4>1. g[m - 1] = f[m - 1] /\ g[m] = f[m] /\ m \in 1..(n - 1)
        BY <3>2
      <4> QED BY <2>1, <4>1
    <3> QED BY <3>1, <3>2
  <2> HIDE DEF g
  <2>6. Fits(n, g)
    BY <2>4, <2>5
  <2> HIDE DEF Fits
  <2> QED BY <2>3, <2>6
<1> HIDE DEF G
<1>3. N \in G
  <2>1. \A n \in 1..N : n - 1 \in G => n \in G
    BY <1>2
  <2>2. \A n \in 0..N : n \in G
    BY <1>1, <2>1, Climb, Zenon
  <2> QED BY <2>2
<1>4. \E f \in [0..N -> S] : Fits(N, f)
  <2> HIDE DEF Fits
  <2> QED BY <1>3 DEF G
<1> QED BY <1>4 DEF Iterates

----------------------------------------------------------------------------
(* Lists: of a set, joined, and with some left out *)

LEMMA SetToSeqIs ==
  ASSUME NEW S, IsFiniteSet(S)
  PROVE  SetToSeq(S) \in Seq(S) /\ IsInjective(SetToSeq(S)) /\ Range(SetToSeq(S)) = S
<1> DEFINE n == Cardinality(S)
           f == SetToSeq(S)
<1>1. n \in Nat /\ \E g \in [1..n -> S] : IsInjective(g)
  BY FS_CardinalityType DEF ExistsBijection, Bijection, Injection
<1>2. f = CHOOSE g \in [1..n -> S] : IsInjective(g)
  BY DEF SetToSeq
<1>3. f \in [1..n -> S] /\ IsInjective(f)
  <2> HIDE DEF f, n
  <2> QED BY <1>1, <1>2
<1>4. f \in Surjection(1..n, S)
  <2>1. f \in Injection(1..n, S)
    BY <1>3 DEF Injection
  <2>2. Cardinality(1..n) = n
    <3>1. 1 \in Int /\ n \in Int
      BY <1>1
    <3>2. Cardinality(1..n) = IF 1 > n THEN 0 ELSE n - 1 + 1
      BY <3>1, FS_Interval
    <3> HIDE DEF n
    <3> QED BY <1>1, <3>2
  <2>3. Cardinality(1..n) = Cardinality(S) <=> f \in Surjection(1..n, S)
    <3> HIDE DEF f, n
    <3> QED BY <2>1, FS_Injection
  <2> QED BY <2>2, <2>3
<1> HIDE DEF f, n
<1>5. Range(f) = S
  BY <1>3, <1>4 DEF Range, Surjection
<1>6. f \in Seq(S)
  BY <1>1, <1>3
<1> QED BY <1>3, <1>5, <1>6 DEF f

LEMMA RangeIs ==
  ASSUME NEW E, NEW s \in Seq(E)
  PROVE  /\ Len(s) \in Nat /\ DOMAIN s = 1..Len(s)
         /\ Range(s) = {s[i] : i \in 1..Len(s)} /\ Range(s) \subseteq E
         /\ NamesIn(s) = {d.name : d \in Range(s)}
<1>1. Len(s) \in Nat /\ DOMAIN s = 1..Len(s) /\ \A i \in 1..Len(s) : s[i] \in E
  BY LenProperties
<1> QED BY <1>1 DEF Range, NamesIn

LEMMA RangeTail ==
  ASSUME NEW E, NEW s \in Seq(E), s # << >>
  PROVE  /\ Head(s) \in E /\ Tail(s) \in Seq(E) /\ Range(s) = {Head(s)} \cup Range(Tail(s))
         /\ Len(s) \in Nat \ {0} /\ (Len(s) = 1 => Range(Tail(s)) = {})
         /\ Len(s) > 1 => Tail(s) # << >>
<1> DEFINE t == Tail(s)
           m == Len(s)
<1>1. m \in Nat \ {0}
  BY EmptySeq
<1>2. Head(s) \in E /\ Head(s) = s[1] /\ t \in Seq(E) /\ Len(t) = m - 1 /\ \A i \in 1..Len(t) : t[i] = s[i + 1]
  BY HeadTailProperties
<1>3. Range(s) = {s[i] : i \in 1..m} /\ Range(t) = {t[i] : i \in 1..Len(t)}
  BY <1>2, RangeIs
<1>5. m > 1 => t # << >>
  <2>1. t = << >> => Len(t) = 0
    BY EmptySeq, Zenon
  <2> HIDE DEF t, m
  <2> QED BY <1>1, <1>2, <2>1
<1> HIDE DEF t, m
<1>4. Range(s) = {Head(s)} \cup Range(t)
  <2>1. ASSUME NEW x \in Range(s) PROVE x \in {Head(s)} \cup Range(t)
    <3>1. PICK i \in 1..m : x = s[i]
      BY <1>3
    <3>2. CASE i = 1
      BY <1>2, <3>1, <3>2
    <3>3. CASE i # 1
      <4>1. i - 1 \in 1..Len(t) /\ i - 1 + 1 = i
        BY <1>1, <1>2, <3>3
      <4>2. t[i - 1] = s[i]
        BY <1>2, <4>1
      <4> QED BY <1>3, <3>1, <4>1, <4>2
    <3> QED BY <3>2, <3>3
  <2>2. ASSUME NEW x \in Range(t) PROVE x \in Range(s)
    <3>1. PICK i \in 1..Len(t) : x = t[i]
      BY <1>3
    <3>2. i + 1 \in 1..m
      BY <1>1, <1>2
    <3> QED BY <1>2, <1>3, <3>1, <3>2
  <2>3. Head(s) \in Range(s)
    BY <1>1, <1>2, <1>3
  <2> QED BY <2>1, <2>2, <2>3
<1>6. m = 1 => Range(t) = {}
  <2> SUFFICES ASSUME m = 1 PROVE Range(t) = {}
    OBVIOUS
  <2>1. 1..Len(t) = {}
    BY <1>2
  <2> QED BY <1>3, <2>1
<1> QED BY <1>1, <1>2, <1>4, <1>5, <1>6 DEF t, m

\* One after the other.
Joined(r, s, t, E) ==
    /\ r \in Seq(E) /\ Len(r) = Len(s) + Len(t)
    /\ \A i \in 1..Len(s) : r[i] = s[i]
    /\ \A i \in 1..Len(t) : r[Len(s) + i] = t[i]
    /\ \A i \in 1..Len(s) + Len(t) : i \in 1..Len(s) \/ i - Len(s) \in 1..Len(t)
    /\ Range(r) = Range(s) \cup Range(t)

LEMMA JoinedIs ==
  ASSUME NEW E, NEW s \in Seq(E), NEW t \in Seq(E)
  PROVE  Joined(s \o t, s, t, E)
<1> DEFINE r == s \o t
           m == Len(s)
           n == Len(t)
<1>1. m \in Nat /\ n \in Nat
  BY LenProperties
<1>2. /\ r \in Seq(E) /\ Len(r) = m + n
      /\ \A i \in 1..m + n : r[i] = IF i <= m THEN s[i] ELSE t[i - m]
  BY ConcatProperties
<1>3. Range(s) = {s[i] : i \in 1..m} /\ Range(t) = {t[i] : i \in 1..n} /\ Range(r) = {r[i] : i \in 1..m + n}
  BY <1>2, RangeIs
<1> HIDE DEF r, m, n
<1>4. \A i \in 1..m : i \in 1..m + n /\ r[i] = s[i]
  BY <1>1, <1>2
<1>5. ASSUME NEW i \in 1..n PROVE m + i \in 1..m + n /\ r[m + i] = t[i]
  <2>0. i \in Nat /\ i >= 1 /\ i <= n
    BY <1>1
  <2>1. m + i \in 1..m + n /\ ~(m + i <= m) /\ (m + i) - m = i
    BY <1>1, <2>0
  <2> QED BY <1>2, <2>1
<1>6. \A i \in 1..m + n : i \in 1..m \/ i - m \in 1..n
  BY <1>1
<1>7. ASSUME NEW i \in 1..m + n PROVE r[i] \in Range(s) \cup Range(t)
  <2>1. CASE i \in 1..m
    BY <1>3, <1>4, <2>1
  <2>2. CASE i - m \in 1..n
    <3>1. r[i] = t[i - m]
      BY <1>1, <1>2, <2>2
    <3> QED BY <1>3, <2>2, <3>1
  <2> QED BY <1>6, <2>1, <2>2
<1>8. Range(r) = Range(s) \cup Range(t)
  BY <1>3, <1>4, <1>5, <1>7
<1> QED BY <1>2, <1>4, <1>5, <1>6, <1>8 DEF r, m, n, Joined

\* What is left of a list is what is not the first of one of the names.
Kept(cmds, names, n) == {j \in 1..n : ~(cmds[j].name \in names /\ First(cmds, j))}

LEMMA WithoutIs ==
  ASSUME NEW E, NEW cmds \in Seq(E), NEW names
  PROVE  /\ Without(cmds, names) \in Seq(E)
         /\ Range(Without(cmds, names)) = {cmds[i] : i \in Kept(cmds, names, Len(cmds))}
<1> DEFINE N == Len(cmds)
           drop(n) == cmds[n].name \in names /\ First(cmds, n)
           next(n, x) == IF drop(n) THEN x ELSE Append(x, cmds[n])
           step == [n \in 1..N |-> [x \in Seq(E) |-> next(n, x)]]
           Is(f) == f = [n \in 0..N |-> IF n = 0 THEN << >> ELSE next(n, f[n - 1])]
           upTo == CHOOSE f : Is(f)
           z == << >>
<1>1. N \in Nat /\ (\A n \in 1..N : cmds[n] \in E) /\ z \in Seq(E) /\ Len(z) = 0
  BY LenProperties, EmptySeq
<1> HIDE DEF drop
<1>a. \A S : \A seq \in Seq(S), elt \in S :
        /\ Append(seq, elt) \in Seq(S) /\ Len(Append(seq, elt)) = Len(seq) + 1
        /\ \A k \in 1..Len(seq) : Append(seq, elt)[k] = seq[k]
        /\ Append(seq, elt)[Len(seq) + 1] = elt
  BY AppendProperties
<1>2. \A n \in 1..N : \A x \in Seq(E) : next(n, x) \in Seq(E)
  <2> SUFFICES ASSUME NEW n \in 1..N, NEW x \in Seq(E) PROVE next(n, x) \in Seq(E)
    OBVIOUS
  <2>1. Append(x, cmds[n]) \in Seq(E)
    BY <1>1, <1>a, Zenon
  <2> QED BY <2>1
<1>3. ASSUME NEW n \in 1..N, NEW x \in Seq(E)
      PROVE  Range(next(n, x)) = IF drop(n) THEN Range(x) ELSE Range(x) \cup {cmds[n]}
  <2> DEFINE r == Append(x, cmds[n])
             m == Len(x)
  <2>1. /\ r \in Seq(E) /\ Len(r) = m + 1
        /\ \A k \in 1..m : r[k] = x[k]
        /\ r[m + 1] = cmds[n]
    <3>1. cmds[n] \in E /\ x \in Seq(E)
      BY <1>1
    <3> HIDE DEF next, N
    <3> QED BY <1>a, <3>1, Zenon
  <2>2. m \in Nat /\ Range(x) = {x[i] : i \in 1..m} /\ Range(r) = {r[i] : i \in 1..Len(r)}
    <3> HIDE DEF r, m
    <3> QED BY <2>1, RangeIs DEF m
  <2> HIDE DEF r, m
  <2>3. \A i \in 1..m + 1 : i = m + 1 \/ i \in 1..m
    BY <2>2
  <2>4. m + 1 \in 1..m + 1 /\ \A i \in 1..m : i \in 1..m + 1
    BY <2>2
  <2>5. Range(r) = {r[i] : i \in 1..m + 1}
    BY <2>1, <2>2
  <2>6. \A y \in Range(r) : y \in Range(x) \cup {cmds[n]}
    BY <2>1, <2>2, <2>3, <2>5
  <2>7. \A y \in Range(x) : y \in Range(r)
    BY <2>1, <2>2, <2>4, <2>5
  <2>8. cmds[n] \in Range(r)
    BY <2>1, <2>4, <2>5
  <2>9. Range(r) = Range(x) \cup {cmds[n]}
    BY <2>6, <2>7, <2>8
  <2>10. next(n, x) = IF drop(n) THEN x ELSE r
    BY DEF r
  <2> HIDE DEF next
  <2> QED BY <2>9, <2>10
<1> HIDE DEF next, z
<1>4. step \in [1..N -> [Seq(E) -> Seq(E)]]
  BY <1>2
<1>5. PICK f : Iterates(f, Seq(E), N, z, step)
  <2> HIDE DEF step
  <2> QED BY <1>1, <1>4, Iterated
<1>6. f \in [0..N -> Seq(E)] /\ f[0] = z /\ \A n \in 1..N : f[n] = step[n][f[n - 1]]
  <2> HIDE DEF step
  <2> QED BY <1>5 DEF Iterates
<1>7. Is(f)
  <2>1. ASSUME NEW n \in 1..N PROVE f[n] = next(n, f[n - 1])
    <3>1. f[n - 1] \in Seq(E)
      BY <1>1, <1>6
    <3>2. step[n] = [x \in Seq(E) |-> next(n, x)]
      OBVIOUS
    <3>3. f[n] = step[n][f[n - 1]]
      BY <1>6
    <3> HIDE DEF step
    <3> QED BY <3>1, <3>2, <3>3
  <2>2. \A n \in 0..N : f[n] = IF n = 0 THEN z ELSE next(n, f[n - 1])
    <3> SUFFICES ASSUME NEW n \in 0..N PROVE f[n] = IF n = 0 THEN z ELSE next(n, f[n - 1])
      OBVIOUS
    <3>1. CASE n = 0
      BY <1>6, <3>1
    <3>2. CASE n # 0
      <4>1. n \in 1..N
        BY <1>1, <3>2
      <4> QED BY <2>1, <3>2, <4>1
    <3> QED BY <3>1, <3>2
  <2>3. DOMAIN f = 0..N /\ f = [n \in 0..N |-> f[n]]
    BY <1>6
  <2>4. f = [n \in 0..N |-> IF n = 0 THEN z ELSE next(n, f[n - 1])]
    BY <2>2, <2>3
  <2> QED BY <2>4 DEF z
<1>8. Is(upTo)
  <2> HIDE DEF Is
  <2> QED BY <1>7
<1>9. Without(cmds, names) = upTo[N]
  BY DEF Without, next, drop, N
<1> HIDE DEF upTo
<1>10. upTo[0] = z /\ \A n \in 1..N : upTo[n] = next(n, upTo[n - 1])
  BY <1>1, <1>8 DEF z
<1> DEFINE T == {n \in 0..N : upTo[n] \in Seq(E) /\ Range(upTo[n]) = {cmds[i] : i \in Kept(cmds, names, n)}}
<1>11. 0 \in T
  <2>1. Range(z) = {z[i] : i \in 1..0}
    BY <1>1, RangeIs
  <2>2. Kept(cmds, names, 0) = {} /\ 1..0 = {}
    BY DEF Kept
  <2>3. Range(z) = {} /\ {cmds[i] : i \in Kept(cmds, names, 0)} = {}
    BY <2>1, <2>2
  <2>4. 0 \in 0..N /\ upTo[0] \in Seq(E)
    BY <1>1, <1>10
  <2>5. Range(upTo[0]) = {cmds[i] : i \in Kept(cmds, names, 0)}
    BY <1>10, <2>3
  <2> QED BY <2>4, <2>5
<1>12. ASSUME NEW n \in 1..N, n - 1 \in T PROVE n \in T
  <2> DEFINE x == upTo[n - 1]
  <2>1. x \in Seq(E) /\ Range(x) = {cmds[i] : i \in Kept(cmds, names, n - 1)}
    BY <1>12
  <2>2. upTo[n] = next(n, x)
    BY <1>10
  <2>3. Kept(cmds, names, n) = IF drop(n) THEN Kept(cmds, names, n - 1) ELSE Kept(cmds, names, n - 1) \cup {n}
    <3>1. n \in 1..n /\ n \notin 1..n - 1 /\ \A j : j \in 1..n <=> j = n \/ j \in 1..n - 1
      BY <1>1
    <3> HIDE DEF N
    <3> QED BY <3>1 DEF Kept, drop
  <2> HIDE DEF x
  <2>4. upTo[n] \in Seq(E)
    BY <1>2, <2>1, <2>2
  <2>5. Range(upTo[n]) = IF drop(n) THEN Range(x) ELSE Range(x) \cup {cmds[n]}
    BY <1>3, <2>1, <2>2
  <2>6. Range(upTo[n]) = {cmds[i] : i \in Kept(cmds, names, n)}
    BY <2>1, <2>3, <2>5
  <2>7. n \in 0..N
    BY <1>1
  <2> QED BY <2>4, <2>6, <2>7
<1>13. N \in T
  <2> HIDE DEF T
  <2>1. \A n \in 0..N : n \in T
    BY <1>1, <1>11, <1>12, Climb, Zenon
  <2> QED BY <1>1, <2>1
<1> QED BY <1>9, <1>13
----------------------------------------------------------------------------
(* The lists of commands *)

OwnCommand == Command(Own, 1, 0)
ExtCommand(v, i) == Command(Ext, v, i)

\* The commands that may have been declared, and of which instance.
OwnOnly == <<OwnCommand>>
WithExt(v, i) == <<OwnCommand, ExtCommand(v, i)>>

LEMMA CommandIs ==
  ASSUME NEW v, NEW i
  PROVE  /\ OwnCommand.name = Own /\ OwnCommand.ver = 1 /\ OwnCommand.inst = 0
         /\ ExtCommand(v, i).name = Ext /\ ExtCommand(v, i).ver = v /\ ExtCommand(v, i).inst = i
         /\ Own # Ext /\ BadData # 1
BY RegistryAssumption DEF OwnCommand, ExtCommand, Command, BadData

LEMMA ListIs ==
  ASSUME NEW v, NEW i
  PROVE  /\ Len(OwnOnly) = 1 /\ OwnOnly[1] = OwnCommand /\ DOMAIN OwnOnly = {1}
         /\ Len(WithExt(v, i)) = 2 /\ DOMAIN WithExt(v, i) = {1, 2}
         /\ WithExt(v, i)[1] = OwnCommand /\ WithExt(v, i)[2] = ExtCommand(v, i)
         /\ Append(OwnOnly, ExtCommand(v, i)) = WithExt(v, i)
         /\ Append(<< >>, OwnCommand) = OwnOnly
         /\ Range(OwnOnly) = {OwnCommand} /\ Range(WithExt(v, i)) = {OwnCommand, ExtCommand(v, i)}
<1> DEFINE x == OwnCommand
           y == ExtCommand(v, i)
<1> HIDE DEF x, y
<1>1. /\ Len(<<x>>) = 1 /\ <<x>>[1] = x /\ DOMAIN <<x>> = {1}
      /\ Len(<<x, y>>) = 2 /\ DOMAIN <<x, y>> = {1, 2} /\ <<x, y>>[1] = x /\ <<x, y>>[2] = y
  OBVIOUS
<1>3. Append(<<x>>, y) = <<x, y>> /\ Append(<< >>, x) = <<x>>
  <2> DEFINE E == {x, y}
             s == <<x>>
             r == <<x, y>>
             z == << >>
  <2>1. z \in Seq(E) /\ s \in Seq(E) /\ r \in Seq(E) /\ x \in E /\ y \in E /\ Len(z) = 0
    OBVIOUS
  <2>2. Len(s) = 1 /\ s[1] = x /\ Len(r) = 2 /\ r[1] = x /\ r[2] = y
    OBVIOUS
  <2> HIDE DEF E, s, r, z
  <2>0. \A S : \A seq \in Seq(S), elt \in S :
           /\ Append(seq, elt) \in Seq(S) /\ Len(Append(seq, elt)) = Len(seq) + 1
           /\ \A k \in 1..Len(seq) : Append(seq, elt)[k] = seq[k]
           /\ Append(seq, elt)[Len(seq) + 1] = elt
    BY AppendProperties
  <2>3. Append(s, y) = r
    <3>0. /\ Append(s, y) \in Seq(E) /\ Len(Append(s, y)) = Len(s) + 1
          /\ (\A k \in 1..Len(s) : Append(s, y)[k] = s[k]) /\ Append(s, y)[Len(s) + 1] = y
      BY <2>0, <2>1, Zenon
    <3>1. /\ Append(s, y) \in Seq(E) /\ Len(Append(s, y)) = 2
          /\ Append(s, y)[1] = x /\ Append(s, y)[2] = y
      BY <2>2, <3>0
    <3> QED BY <2>1, <2>2, <3>1, SeqEqual
  <2>4. Append(z, x) = s
    <3>0. /\ Append(z, x) \in Seq(E) /\ Len(Append(z, x)) = Len(z) + 1
          /\ Append(z, x)[Len(z) + 1] = x
      BY <2>0, <2>1, Zenon
    <3>1. Append(z, x) \in Seq(E) /\ Len(Append(z, x)) = 1 /\ Append(z, x)[1] = x
      BY <2>1, <3>0
    <3> QED BY <2>1, <2>2, <3>1, SeqEqual
  <2> QED BY <2>3, <2>4 DEF s, r, z
<1>2. Range(<<x>>) = {x} /\ Range(<<x, y>>) = {x, y}
  BY <1>1 DEF Range
<1> QED BY <1>1, <1>2, <1>3 DEF OwnOnly, WithExt, x, y

LEMMA NamesAre ==
  ASSUME NEW v, NEW i
  PROVE  NamesIn(<< >>) = {} /\ NamesIn(OwnOnly) = {Own} /\ NamesIn(WithExt(v, i)) = {Own, Ext}
<1>1. NamesIn(<< >>) = {}
  BY DEF NamesIn
<1>2. NamesIn(OwnOnly) = {Own}
  BY ListIs, CommandIs DEF NamesIn
<1>3. NamesIn(WithExt(v, i)) = {Own, Ext}
  BY ListIs, CommandIs DEF NamesIn
<1> QED BY <1>1, <1>2, <1>3

\* The extension's command is dropped, where it is.
LEMMA DropIs ==
  ASSUME NEW v, NEW i
  PROVE  /\ DropNamed(<< >>, Ext) = << >> /\ DropNamed(OwnOnly, Ext) = OwnOnly
         /\ DropNamed(WithExt(v, i), Ext) = OwnOnly
<1>1. DropNamed(<< >>, Ext) = << >>
  <2>1. ~ \E j \in 1..Len(<< >>) : << >>[j].name = Ext
    OBVIOUS
  <2> QED BY <2>1 DEF DropNamed, RemoveFirstMatch
<1>2. DropNamed(OwnOnly, Ext) = OwnOnly
  <2>1. ~ \E j \in 1..Len(OwnOnly) : OwnOnly[j].name = Ext
    BY ListIs, CommandIs
  <2> QED BY <2>1 DEF DropNamed, RemoveFirstMatch
<1>3. DropNamed(WithExt(v, i), Ext) = OwnOnly
  <2> DEFINE s == WithExt(v, i)
             I == {j \in 1..Len(s) : s[j].name = Ext}
  <2>1. I = {2}
    BY ListIs, CommandIs
  <2>2. Min(I) = 2
    <3> HIDE DEF I
    <3>1. I \in SUBSET Nat /\ I # {}
      BY <2>1
    <3>2. Min(I) \in I
      BY <3>1, MinIs
    <3> QED BY <2>1, <3>2
  <2>3. DropNamed(s, Ext) = RemoveAt(s, 2)
    <3>1. \E j \in 1..Len(s) : s[j].name = Ext
      BY <2>1
    <3> QED BY <2>1, <2>2, <3>1 DEF DropNamed, RemoveFirstMatch, SelectInSeq
  <2>4. RemoveAt(s, 2) = OwnOnly
    <3> DEFINE x == OwnCommand
               y == ExtCommand(v, i)
    <3> HIDE DEF x, y
    <3>1. <<x, y>> \in Seq({x, y}) /\ <<x>> \in Seq({x, y}) /\ Len(<<x>>) = 1 /\ <<x>>[1] = x
      OBVIOUS
    <3>2. RemoveAt(<<x, y>>, 2) = <<x>>
      <4>1. Len(<<x, y>>) = 2 /\ <<x, y>>[1] = x /\ 2 \in 1..2
        OBVIOUS
      <4> DEFINE r == <<x, y>>
                 q == <<x>>
      <4> HIDE DEF r, q
      <4>0. r \in Seq({x, y}) /\ q \in Seq({x, y}) /\ Len(q) = 1 /\ q[1] = x /\ 2 \in 1..Len(r) /\ Len(r) = 2 /\ r[1] = x
        BY <3>1, <4>1 DEF r, q
      <4> DEFINE w == RemoveAt(r, 2)
      <4>2. /\ w \in Seq({x, y}) /\ Len(w) = Len(r) - 1
            /\ \A k \in 1..Len(r) - 1 : w[k] = IF k < 2 THEN r[k] ELSE r[k + 1]
        BY <4>0, RemoveAtIs
      <4> HIDE DEF w
      <4>4. Len(w) = 1 /\ w[1] = x
        BY <4>0, <4>2
      <4>3. w = q
        BY <4>0, <4>2, <4>4, SeqEqual
      <4> QED BY <4>3 DEF r, q, w
    <3> QED BY <3>2 DEF OwnOnly, WithExt, x, y
  <2> QED BY <2>3, <2>4
<1> QED BY <1>1, <1>2, <1>3


----------------------------------------------------------------------------
(* __resolve_commands(), of the one or two commands that are declared *)

Start == [coros |-> coros, handlers |-> handlers, raised |-> FALSE]

LEMMA ResolvedOne ==
  ASSUME NEW d, Len(d) = 1
  PROVE  Resolved(d) = ResolveOne(Start, d[1])
<1> DEFINE Is(f) == f = [n \in 0..Len(d) |-> IF n = 0 THEN Start ELSE ResolveOne(f[n - 1], d[n])]
           upTo == CHOOSE f : Is(f)
           R == ResolveOne(Start, d[1])
           g == [n \in 0..1 |-> IF n = 0 THEN Start ELSE R]
<1>1. Resolved(d) = upTo[Len(d)]
  BY DEF Resolved, Start
<1>2. Is(g)
  <2> DEFINE h == [n \in 0..1 |-> IF n = 0 THEN Start ELSE ResolveOne(g[n - 1], d[n])]
  <2>1. \A n \in 0..1 : g[n] = h[n]
    <3> SUFFICES ASSUME NEW n \in 0..1 PROVE g[n] = h[n]
      OBVIOUS
    <3>1. CASE n = 0
      BY <3>1
    <3>2. CASE n = 1
      <4>1. h[n] = ResolveOne(g[0], d[1])
        BY <3>2
      <4>2. g[0] = Start /\ g[n] = R
        BY <3>2
      <4> QED BY <4>1, <4>2
    <3> QED BY <3>1, <3>2
  <2>2. g = h
    BY <2>1
  <2> QED BY <2>2
<1>3. Is(upTo)
  <2> HIDE DEF Is
  <2> QED BY <1>2
<1>4. upTo[0] = Start /\ upTo[1] = ResolveOne(upTo[0], d[1])
  <2> HIDE DEF upTo
  <2>1. upTo[0] = Start
    BY <1>3
  <2>2. upTo[1] = ResolveOne(upTo[1 - 1], d[1])
    BY <1>3
  <2> QED BY <2>1, <2>2
<1> HIDE DEF upTo
<1> QED BY <1>1, <1>4

LEMMA ResolvedTwo ==
  ASSUME NEW d, Len(d) = 2
  PROVE  Resolved(d) = ResolveOne(ResolveOne(Start, d[1]), d[2])
<1> DEFINE Is(f) == f = [n \in 0..Len(d) |-> IF n = 0 THEN Start ELSE ResolveOne(f[n - 1], d[n])]
           upTo == CHOOSE f : Is(f)
           R == ResolveOne(Start, d[1])
           Q == ResolveOne(R, d[2])
           g == [n \in 0..2 |-> IF n = 0 THEN Start ELSE IF n = 1 THEN R ELSE Q]
<1>1. Resolved(d) = upTo[Len(d)]
  BY DEF Resolved, Start
<1>2. Is(g)
  <2> DEFINE h == [n \in 0..2 |-> IF n = 0 THEN Start ELSE ResolveOne(g[n - 1], d[n])]
  <2>1. \A n \in 0..2 : g[n] = h[n]
    <3> SUFFICES ASSUME NEW n \in 0..2 PROVE g[n] = h[n]
      OBVIOUS
    <3>1. CASE n = 0
      BY <3>1
    <3>2. CASE n = 1
      <4>1. h[n] = ResolveOne(g[0], d[1])
        BY <3>2
      <4>2. g[0] = Start /\ g[n] = R
        BY <3>2
      <4> QED BY <4>1, <4>2
    <3>3. CASE n = 2
      <4>1. h[n] = ResolveOne(g[1], d[2])
        BY <3>3
      <4>2. g[1] = R /\ g[n] = Q
        BY <3>3
      <4> QED BY <4>1, <4>2
    <3> QED BY <3>1, <3>2, <3>3
  <2>2. g = h
    BY <2>1
  <2> QED BY <2>2
<1>3. Is(upTo)
  <2> HIDE DEF Is
  <2> QED BY <1>2
<1>4. upTo[0] = Start /\ upTo[1] = ResolveOne(upTo[0], d[1]) /\ upTo[2] = ResolveOne(upTo[1], d[2])
  <2> HIDE DEF upTo
  <2>1. upTo[0] = Start
    BY <1>3
  <2>2. upTo[1] = ResolveOne(upTo[1 - 1], d[1])
    BY <1>3
  <2>3. upTo[2] = ResolveOne(upTo[2 - 1], d[2])
    BY <1>3
  <2> QED BY <2>1, <2>2, <2>3
<1> HIDE DEF upTo
<1> QED BY <1>1, <1>4

----------------------------------------------------------------------------
(* The inductive invariant *)

\* Who answers: nobody yet, the client's own command, or that of an instance too.
NoHandler == [n \in Names |-> << >>]
OwnHandler == [n \in Names |-> IF n = Own THEN <<0>> ELSE << >>]
BothHandlers(j) == [n \in Names |-> IF n = Own THEN <<0>> ELSE <<j>>]

\* The three lists, when the extension has no command declared, and when it has: its data
\* may have been bad.
Bare(c, k, h) ==
    /\ c = OwnOnly
    /\ (k = << >> /\ h = NoHandler) \/ (k = OwnOnly /\ h = OwnHandler)
Extended(v, j, c, k, h) ==
    /\ c = WithExt(v, j)
    /\ (k = OwnOnly /\ h = OwnHandler) \/ (k = WithExt(v, j) /\ h = BothHandlers(j))

\* Of the instances that have registered the command, the ones that are not torn down:
\* none, or the one whose command is declared.
NobodyHas(I, T) == \A i \in DOMAIN I : Ext \in I[i] => i \in T
OnlyHas(j, I, T) ==
    /\ j \in DOMAIN I /\ j \notin T /\ Ext \in I[j]
    /\ \A i \in DOMAIN I : i # j /\ Ext \in I[i] => i \in T

OwnerInv(c, k, h, I, T) ==
    \/ Bare(c, k, h) /\ NobodyHas(I, T)
    \/ \E v, j : Extended(v, j, c, k, h) /\ OnlyHas(j, I, T)

ListenerInv(L, I, T) ==
    L \in Seq(Nat) /\ IsInjective(L) /\ Range(L) = (1..Len(I)) \ T

InstInv(I, T, cl) == I \in Seq(SUBSET Names) /\ T \subseteq 1..Len(I) /\ cl \in 0..Len(I)

Teardowns == [inst : Nat, sync : BOOLEAN]
QueueInv(q, I) == q \in Seq(Teardowns) /\ \A k \in 1..Len(q) : q[k].inst \in 1..Len(I)

Ats == {"idle", "get", "got", "put", "done"}
AtInv(f) == DOMAIN f = Syncs /\ \A s \in Syncs : "at" \in DOMAIN f[s] /\ f[s].at \in Ats

ClientInv(p, s, v, n) ==
    p \in {"off", "starting", "ready", "ended"} /\ s \in 0..MaxSyncs /\ v \in Versions /\ n \in 0..MaxFaults

Inv ==
    /\ OwnerInv(commands, coros, handlers, insts, torn)
    /\ ListenerInv(listeners, insts, torn)
    /\ InstInv(insts, torn, class)
    /\ QueueInv(teardowns, insts)
    /\ AtInv(syncs)
    /\ ClientInv(phase, first, file, faults)

----------------------------------------------------------------------------
(* __resolve_commands() keeps the lists together *)

\* A command of the client's own is resolved once.
LEMMA OwnResolved ==
  ASSUME Bare(commands, coros, handlers)
  PROVE  ResolveOne(Start, OwnCommand) = [coros |-> OwnOnly, handlers |-> OwnHandler, raised |-> FALSE]
<1> DEFINE c == OwnCommand
<1>1. c.name = Own /\ c.ver = 1 /\ c.inst = 0 /\ BadData # 1 /\ Own \in Names /\ Own # Ext
  BY CommandIs DEF Names
<1>2. Start.coros = coros /\ Start.handlers = handlers /\ Start.raised = FALSE
  BY DEF Start
<1>3. CASE coros = << >> /\ handlers = NoHandler
  <2>1. NamesIn(coros) = {}
    BY <1>3, NamesAre
  <2>2. Append(coros, c) = OwnOnly
    BY <1>3, ListIs
  <2>3. register(handlers, c) = OwnHandler
    <3>1. register(handlers, c) = [handlers EXCEPT ![Own] = Append(@, 0)]
      BY <1>1 DEF register
    <3>2. handlers[Own] = << >> /\ Append(<< >>, 0) = <<0>>
      BY <1>1, <1>3 DEF NoHandler
    <3> DEFINE e == << >>
               o == <<0>>
               x == Append(handlers[Own], 0)
    <3>3. register(handlers, c) = [handlers EXCEPT ![Own] = x] /\ x = o
      BY <3>1, <3>2
    <3>4. handlers = [n \in Names |-> e] /\ OwnHandler = [n \in Names |-> IF n = Own THEN o ELSE e]
      BY <1>3 DEF NoHandler, OwnHandler
    <3> HIDE DEF e, o, x
    <3> QED BY <1>1, <3>3, <3>4
  <2> HIDE DEF c
  <2> QED BY <1>1, <1>2, <2>1, <2>2, <2>3 DEF ResolveOne, c
<1>4. CASE coros = OwnOnly /\ handlers = OwnHandler
  <2>1. Own \in NamesIn(coros)
    BY <1>4, NamesAre
  <2> HIDE DEF c
  <2>2. ResolveOne(Start, c) = Start
    BY <1>1, <1>2, <2>1 DEF ResolveOne
  <2> QED BY <1>4, <2>2 DEF Start, c
<1> QED BY <1>3, <1>4 DEF Bare

LEMMA ExtResolved ==
  ASSUME NEW v, NEW j,
         NEW r, r = [coros |-> OwnOnly, handlers |-> OwnHandler, raised |-> FALSE]
  PROVE  /\ v = BadData => ResolveOne(r, ExtCommand(v, j)).coros = OwnOnly
                           /\ ResolveOne(r, ExtCommand(v, j)).handlers = OwnHandler
         /\ v # BadData => ResolveOne(r, ExtCommand(v, j)).coros = WithExt(v, j)
                           /\ ResolveOne(r, ExtCommand(v, j)).handlers = BothHandlers(j)
<1> DEFINE c == ExtCommand(v, j)
<1>1. c.name = Ext /\ c.ver = v /\ c.inst = j /\ Ext \in Names /\ Own # Ext
  BY CommandIs DEF Names
<1>2. r.coros = OwnOnly /\ r.handlers = OwnHandler /\ r.raised = FALSE
  OBVIOUS
<1>3. c.name \notin NamesIn(r.coros)
  BY <1>1, <1>2, NamesAre
<1>4. Append(r.coros, c) = WithExt(v, j)
  BY <1>2, ListIs
<1>5. register(r.handlers, c) = BothHandlers(j)
  <2>1. register(r.handlers, c) = [OwnHandler EXCEPT ![Ext] = Append(@, j)]
    BY <1>1, <1>2 DEF register
  <2>2. OwnHandler[Ext] = << >> /\ Append(<< >>, j) = <<j>>
    BY <1>1 DEF OwnHandler
  <2> QED BY <1>1, <2>1, <2>2 DEF OwnHandler, BothHandlers, Names
<1> HIDE DEF c
<1>6. CASE v = BadData
  <2>1. ResolveOne(r, c) = [r EXCEPT !.raised = TRUE]
    BY <1>1, <1>2, <1>3, <1>6 DEF ResolveOne
  <2> QED BY <1>6, <2>1 DEF c
<1>7. CASE v # BadData
  <2>1. ResolveOne(r, c) = [coros |-> Append(r.coros, c), handlers |-> register(r.handlers, c), raised |-> FALSE]
    BY <1>1, <1>2, <1>3, <1>7 DEF ResolveOne
  <2> QED BY <1>4, <1>5, <1>7, <2>1 DEF c
<1> QED BY <1>6, <1>7

LEMMA ResolveBare ==
  ASSUME Bare(commands, coros, handlers), Resolve(OwnOnly)
  PROVE  Bare(commands', coros', handlers')
<1>1. Resolved(OwnOnly) = ResolveOne(Start, OwnCommand)
  BY ResolvedOne, ListIs
<1>2. Resolved(OwnOnly).coros = OwnOnly /\ Resolved(OwnOnly).handlers = OwnHandler
  BY <1>1, OwnResolved
<1> QED BY <1>2 DEF Resolve, Bare

LEMMA ResolveNew ==
  ASSUME Bare(commands, coros, handlers), NEW v, NEW j, Resolve(WithExt(v, j))
  PROVE  Extended(v, j, commands', coros', handlers')
<1> DEFINE r == ResolveOne(Start, OwnCommand)
<1>1. Resolved(WithExt(v, j)) = ResolveOne(r, ExtCommand(v, j))
  BY ResolvedTwo, ListIs
<1>2. r = [coros |-> OwnOnly, handlers |-> OwnHandler, raised |-> FALSE]
  BY OwnResolved
<1> HIDE DEF r
<1> DEFINE q == ResolveOne(r, ExtCommand(v, j))
<1>3. \/ q.coros = OwnOnly /\ q.handlers = OwnHandler
      \/ q.coros = WithExt(v, j) /\ q.handlers = BothHandlers(j)
  <2> HIDE DEF q
  <2> QED BY <1>2, ExtResolved DEF q
<1>4. commands' = WithExt(v, j) /\ coros' = q.coros /\ handlers' = q.handlers
  BY <1>1 DEF Resolve
<1> HIDE DEF q
<1> QED BY <1>3, <1>4 DEF Extended

LEMMA ResolveAgain ==
  ASSUME NEW v, NEW j, Extended(v, j, commands, coros, handlers), Resolve(WithExt(v, j))
  PROVE  Extended(v, j, commands', coros', handlers')
<1> DEFINE r == ResolveOne(Start, OwnCommand)
           q == ResolveOne(r, ExtCommand(v, j))
<1>1. Resolved(WithExt(v, j)) = q
  BY ResolvedTwo, ListIs
<1>2. commands' = WithExt(v, j) /\ coros' = q.coros /\ handlers' = q.handlers
  BY <1>1 DEF Resolve
<1>3. Start.coros = coros /\ Start.handlers = handlers /\ Start.raised = FALSE
  BY DEF Start
<1>4. r = Start
  <2>1. Own \in NamesIn(coros) /\ OwnCommand.name = Own
    BY NamesAre, CommandIs DEF Extended
  <2> QED BY <1>3, <2>1 DEF ResolveOne
<1>5. CASE coros = OwnOnly /\ handlers = OwnHandler
  <2>1. r = [coros |-> OwnOnly, handlers |-> OwnHandler, raised |-> FALSE]
    BY <1>4, <1>5 DEF Start
  <2> HIDE DEF r
  <2>2. \/ q.coros = OwnOnly /\ q.handlers = OwnHandler
        \/ q.coros = WithExt(v, j) /\ q.handlers = BothHandlers(j)
    BY <2>1, ExtResolved
  <2> HIDE DEF q
  <2> QED BY <1>2, <2>2 DEF Extended
<1>6. CASE coros = WithExt(v, j) /\ handlers = BothHandlers(j)
  <2>1. Ext \in NamesIn(coros) /\ ExtCommand(v, j).name = Ext
    BY <1>6, NamesAre, CommandIs
  <2>2. q = Start
    BY <1>3, <1>4, <2>1 DEF ResolveOne
  <2> HIDE DEF q
  <2> QED BY <1>2, <1>3, <1>6, <2>2 DEF Extended
<1> QED BY <1>5, <1>6 DEF Extended

----------------------------------------------------------------------------
(* What a synchronisation has read, and what it has still to write *)

Distinct(S) == IsFiniteSet(S) /\ \A d, e \in S : d.name = e.name => d = e
Once(cmds) == \A i, j \in DOMAIN cmds : cmds[i].name = cmds[j].name => i = j

\* What the commands k are for a place.
In(k, p) == {i \in DOMAIN k : p \in Range(ScopeOf[k[i].name])}
Wanted(k, p) == {Data(k[i]) : i \in In(k, p)}

DiscordInv(D) == D = [p \in Places |-> D[p]] /\ \A p \in Places : Distinct(D[p])
PoolInv(P) == P = [p \in Places |-> P[p]]

\* A place of which the answer has come: the list is the one that Discord has.
HasRead(c, d, names) ==
    /\ c.clean = TRUE /\ c.cmds \in Seq(d) /\ Range(c.cmds) = d /\ Once(c.cmds)
    /\ names = NamesIn(c.cmds)

Reading(h, P, D) ==
    /\ h.todo \in Seq(Places) /\ h.todo # << >>
    /\ h.check = [p \in Places |-> h.check[p]]
    /\ h.at = "got" => h.got = SetToSeq(D[Head(h.todo)])
    /\ \A p \in Places : p \in Range(h.todo) \/ p \in h.blocked \/ HasRead(P[p], D[p], h.check[p])

\* A place is as it should be, or is still to be overwritten with what should be there.
Due(h, q, P, D, k) ==
    IF q = h.place
    THEN IF h.at = "put" THEN Range(h.data) = Wanted(k, q) ELSE D[q] = Wanted(k, q)
    ELSE IF P[q].clean THEN D[q] = Wanted(k, q)
    ELSE q \in Range(h.todo) /\ Range(P[q].cmds) = Wanted(k, q)

Writing(h, P, D, sh, late, k) ==
    /\ h.todo \in Seq(Places) /\ h.place \in Places /\ h.blocked = sh
    /\ IsFiniteSet(Range(h.data)) /\ \A q \in Places \ sh : IsFiniteSet(Range(P[q].cmds))
    /\ ~late => \A q \in Places \ sh : Due(h, q, P, D, k)

Underway(h, P, D, sh, late, k) ==
    /\ h.at \in {"get", "got"} => Reading(h, P, D)
    /\ h.at \in {"put", "done"} => Writing(h, P, D, sh, late, k)

Settled(D, sh, k) == \A p \in Places \ sh : D[p] = Wanted(k, p)

\* Only one is under way, and once none is, Discord has what is wanted.
SoleInv(f, P, D, sh, late, k, ph) ==
    /\ \A s, t \in Syncs : f[s].at # "idle" /\ f[t].at # "idle" => s = t
    /\ \A s \in Syncs : Underway(f[s], P, D, sh, late, k)
    /\ ph \in {"starting", "ready"} /\ ~late /\ (\A s \in Syncs : f[s].at = "idle") => Settled(D, sh, k)

AllInv(f, P, D, sh, late, k, ph) == DiscordInv(D) /\ PoolInv(P) /\ SoleInv(f, P, D, sh, late, k, ph)

\* In every state, whatever has overlapped and failed: lists are lists.
Listed(c) == \E E : c \in Seq(E)
Sound(h) ==
    /\ h.at \in {"get", "got"} => h.todo \in Seq(Places) /\ h.todo # << >>
    /\ h.at = "got" => Listed(h.got)
    /\ h.at \in {"put", "done"} => h.todo \in Seq(Places) /\ h.place \in Places /\ Listed(h.data)
BaseInv(f, P, D) ==
    /\ DiscordInv(D) /\ PoolInv(P)
    /\ \A p \in Places : Listed(P[p].cmds)
    /\ \A s \in Syncs : Sound(f[s])

SyncInv ==
    /\ BaseInv(syncs, pool, discord)
    /\ overlapped \/ failed \/ AllInv(syncs, pool, discord, shut, loadedLate, coros, phase)

----------------------------------------------------------------------------
(* Comparing what Discord has with what is wanted *)

\* The list that a comparison makes of one that has been read.
Matches(m, cmds, n, names, W, E) ==
    /\ m \in Seq(E) /\ n \in Nat /\ Len(m) \in Nat /\ \A i \in 1..n : i \in 1..Len(m)
    /\ \A i \in 1..n : \A w \in W : cmds[i].name = w.name => m[i] = w
    /\ \A i \in 1..n : m[i].name = cmds[i].name
    /\ \A i \in 1..Len(m) : i \in 1..n \/ m[i] \in Missing(names, W)
    /\ \A w \in Missing(names, W) : \E i \in 1..Len(m) : m[i] = w

LEMMA MatchedIs ==
  ASSUME NEW S, NEW cmds \in Seq(S), Once(cmds), NEW W, Distinct(W), NEW names, names = NamesIn(cmds)
  PROVE  Matches(Matched(cmds, names, W), cmds, Len(cmds), names, W, S \cup W)
<1> DEFINE n == Len(cmds)
           E == S \cup W
           new(i) == {d \in Differing(cmds, names, W) : d.name = cmds[i].name}
           replaced == [i \in DOMAIN cmds |-> IF First(cmds, i) /\ new(i) # {} THEN CHOOSE d \in new(i) : TRUE ELSE cmds[i]]
           added == SetToSeq(Missing(names, W))
           m == Matched(cmds, names, W)
<1>1. n \in Nat /\ DOMAIN cmds = 1..n /\ (\A i \in 1..n : cmds[i] \in S) /\ names = {cmds[i].name : i \in 1..n}
  BY LenProperties DEF NamesIn
<1>2. m = replaced \o added
  BY DEF Matched
<1> HIDE DEF n
<1>3. ASSUME NEW i \in 1..n
      PROVE  /\ replaced[i] \in E /\ replaced[i].name = cmds[i].name
             /\ \A w \in W : cmds[i].name = w.name => replaced[i] = w
  <2>1. First(cmds, i)
    <3>1. \A j \in 1..i - 1 : j \in 1..n /\ j # i
      BY <1>1
    <3> QED BY <1>1, <3>1 DEF First, Once
  <2>2. replaced[i] = IF new(i) # {} THEN CHOOSE d \in new(i) : TRUE ELSE cmds[i]
    BY <1>1, <2>1
  <2>3. \A d \in new(i) : d \in W /\ d.name = cmds[i].name /\ ~Clean(cmds, d)
    BY DEF Differing
  <2>4. ASSUME NEW w \in W, cmds[i].name = w.name PROVE w \in new(i) \/ cmds[i] = w
    <3>1. w.name \in names
      BY <1>1, <2>4
    <3>2. Clean(cmds, w) => cmds[i] = w
      BY <1>1, <2>4 DEF Clean
    <3> QED BY <2>4, <3>1, <3>2 DEF Differing
  <2> HIDE DEF new, replaced
  <2>5. CASE new(i) = {}
    <3>1. replaced[i] = cmds[i]
      BY <2>2, <2>5
    <3> QED BY <1>1, <2>4, <2>5, <3>1
  <2>6. CASE new(i) # {}
    <3>1. replaced[i] \in new(i)
      BY <2>2, <2>6
    <3>2. replaced[i] \in W /\ replaced[i].name = cmds[i].name
      BY <2>3, <3>1
    <3>3. \A w \in W : w.name = replaced[i].name => replaced[i] = w
      BY <3>2 DEF Distinct
    <3> QED BY <3>2, <3>3
  <2> QED BY <2>5, <2>6
<1>4. DOMAIN replaced = 1..n
  BY <1>1
<1> HIDE DEF replaced
<1>5. replaced \in Seq(E) /\ Len(replaced) = n
  <2>1. replaced \in [1..n -> E]
    <3>1. replaced = [i \in 1..n |-> replaced[i]]
      BY <1>4 DEF replaced
    <3> QED BY <1>3, <3>1
  <2> QED BY <1>1, <2>1
<1>6. added \in Seq(Missing(names, W)) /\ Range(added) = Missing(names, W) /\ Missing(names, W) \subseteq E
  <2>1. Missing(names, W) \in SUBSET W
    BY DEF Missing
  <2>2. IsFiniteSet(Missing(names, W))
    BY <2>1, FS_Subset DEF Distinct
  <2> QED BY <2>1, <2>2, SetToSeqIs
<1> HIDE DEF added
<1>7. added \in Seq(E) /\ Len(added) \in Nat /\ Missing(names, W) = {added[i] : i \in 1..Len(added)}
  <2>1. Len(added) \in Nat /\ Missing(names, W) = {added[i] : i \in 1..Len(added)}
    BY <1>6, RangeIs
  <2>2. added \in Seq(E)
    BY <1>6
  <2> QED BY <2>1, <2>2
<1> DEFINE k == Len(added)
<1> HIDE DEF m, E, k
<1>8. /\ m \in Seq(E) /\ Len(m) = n + k
      /\ \A i \in 1..n : m[i] = replaced[i]
      /\ \A i \in 1..k : m[n + i] = added[i]
      /\ \A i \in 1..n + k : i \in 1..n \/ i - n \in 1..k
  <2> DEFINE r == replaced \o added
  <2>1. Joined(r, replaced, added, E)
    <3>1. replaced \in Seq(E) /\ added \in Seq(E)
      BY <1>5, <1>7
    <3> QED BY <3>1, JoinedIs
  <2> HIDE DEF r
  <2> QED BY <1>2, <1>5, <2>1 DEF k, r, Joined
<1>9. ASSUME NEW i \in 1..Len(m), i \notin 1..n PROVE m[i] \in Missing(names, W)
  <2>1. i - n \in 1..k /\ n + (i - n) = i
    BY <1>1, <1>7, <1>8, <1>9 DEF k
  <2>2. m[n + (i - n)] = added[i - n]
    BY <1>8, <2>1
  <2> QED BY <1>7, <2>1, <2>2 DEF k
<1>10. ASSUME NEW w \in Missing(names, W) PROVE \E i \in 1..Len(m) : m[i] = w
  <2>1. PICK i \in 1..k : w = added[i]
    BY <1>7 DEF k
  <2>2. n + i \in 1..Len(m)
    BY <1>1, <1>7, <1>8 DEF k
  <2> QED BY <1>8, <2>1, <2>2
<1>11. Len(m) \in Nat /\ \A i \in 1..n : i \in 1..Len(m)
  BY <1>1, <1>7, <1>8 DEF k
<1> QED BY <1>1, <1>3, <1>8, <1>9, <1>10, <1>11 DEF m, n, E, Matches

\* What is left in it is what is wanted, whatever Discord has had; and a list that is not
\* changed was already that.
Corrects(cmds, names, W, strays) ==
    /\ Range(Without(Matched(cmds, names, W), strays)) = W
    /\ Differing(cmds, names, W) \cup Missing(names, W) = {} /\ strays = {} => Range(cmds) = W

LEMMA CompareIs ==
  ASSUME NEW S, NEW cmds \in Seq(S), Once(cmds), NEW W, Distinct(W), NEW names, names = NamesIn(cmds),
         NEW strays, strays = names \ {d.name : d \in W}
  PROVE  Corrects(cmds, names, W, strays)
<1> DEFINE n == Len(cmds)
           m == Matched(cmds, names, W)
           E == S \cup W
           L == Kept(m, strays, Len(m))
<1>0. Matches(m, cmds, n, names, W, E)
  BY MatchedIs
<1>1. /\ m \in Seq(E) /\ n \in Nat /\ Len(m) \in Nat /\ \A i \in 1..n : i \in 1..Len(m)
      /\ \A i \in 1..n : \A w \in W : cmds[i].name = w.name => m[i] = w
      /\ \A i \in 1..n : m[i].name = cmds[i].name
      /\ \A i \in 1..Len(m) : i \in 1..n \/ m[i] \in Missing(names, W)
      /\ \A w \in Missing(names, W) : \E i \in 1..Len(m) : m[i] = w
  <2> HIDE DEF m, n, E
  <2> QED BY <1>0 DEF Matches
<1>2. DOMAIN cmds = 1..n /\ Range(cmds) = {cmds[i] : i \in 1..n} /\ names = {cmds[i].name : i \in 1..n}
  BY RangeIs DEF NamesIn
<1>3. \A w \in Missing(names, W) : w \in W /\ w.name \notin names
  BY DEF Missing
<1>4. Range(Without(m, strays)) = {m[i] : i \in L}
  <2> HIDE DEF m, E
  <2>1. m \in Seq(E)
    BY <1>1
  <2> QED BY <2>1, WithoutIs
<1> HIDE DEF m, n, E
<1>5. ASSUME NEW i \in L PROVE m[i] \in W
  <2>1. i \in 1..Len(m) /\ ~(m[i].name \in strays /\ First(m, i))
    BY DEF Kept
  <2>2. CASE i \in 1..n
    <3>1. First(m, i)
      <4>1. \A j \in 1..i - 1 : j \in 1..n /\ j # i
        BY <1>1, <2>2
      <4> QED BY <1>1, <1>2, <2>2, <4>1 DEF First, Once
    <3>2. m[i].name \notin strays /\ m[i].name = cmds[i].name /\ cmds[i].name \in names
      BY <1>1, <1>2, <2>1, <2>2, <3>1
    <3>3. PICK w \in W : cmds[i].name = w.name
      BY <3>2
    <3> QED BY <1>1, <2>2, <3>3
  <2>3. CASE m[i] \in Missing(names, W)
    BY <1>3, <2>3
  <2> QED BY <1>1, <2>1, <2>2, <2>3
<1>6. ASSUME NEW w \in W PROVE \E i \in L : m[i] = w
  <2>1. w.name \notin strays
    OBVIOUS
  <2>2. PICK i \in 1..Len(m) : m[i] = w
    <3>1. CASE w.name \in names
      <4>1. PICK i \in 1..n : cmds[i].name = w.name
        BY <1>2, <3>1
      <4> QED BY <1>1, <4>1
    <3>2. CASE w.name \notin names
      <4>1. w \in Missing(names, W)
        BY <3>2 DEF Missing
      <4> QED BY <1>1, <4>1
    <3> QED BY <3>1, <3>2
  <2>3. i \in L
    BY <2>1, <2>2 DEF Kept
  <2> QED BY <2>2, <2>3
<1> HIDE DEF L
<1>7. Range(Without(m, strays)) = W
  BY <1>4, <1>5, <1>6
<1>8. ASSUME Differing(cmds, names, W) = {}, Missing(names, W) = {}, strays = {} PROVE Range(cmds) = W
  <2>1. \A w \in W : w.name \in names /\ Clean(cmds, w)
    BY <1>8 DEF Differing, Missing
  <2>2. \A w \in W : \A i \in 1..n : cmds[i].name = w.name => cmds[i] = w
    BY <1>2, <2>1 DEF Clean
  <2>3. ASSUME NEW w \in W PROVE w \in Range(cmds)
    <3>1. PICK i \in 1..n : cmds[i].name = w.name
      BY <1>2, <2>1
    <3> QED BY <1>2, <2>2, <3>1
  <2>4. ASSUME NEW i \in 1..n PROVE cmds[i] \in W
    <3>1. cmds[i].name \in names
      BY <1>2
    <3>2. PICK w \in W : cmds[i].name = w.name
      BY <1>8, <3>1
    <3> QED BY <2>2, <3>2
  <2> QED BY <1>2, <2>3, <2>4
<1> QED BY <1>7, <1>8 DEF m, Corrects

----------------------------------------------------------------------------
(* The steps of the synchronisations *)

LEMMA AtSet ==
  ASSUME AtInv(syncs), NEW s \in Syncs, NEW r, "at" \in DOMAIN r, r.at \in Ats,
         syncs' = [syncs EXCEPT ![s] = r]
  PROVE  AtInv(syncs')
BY DEF AtInv

LEMMA AtStarted == ASSUME AtInv(syncs), \E s \in Unused : Sync(s) PROVE AtInv(syncs')
<1>1. PICK s \in Syncs : Sync(s)
  BY DEF Unused
<1> DEFINE r == [at |-> "get", todo |-> <<Global>> \o Guilds, check |-> [p \in Places |-> {}],
                 blocked |-> {}]
<1>2. "at" \in DOMAIN r /\ r.at \in Ats
  BY DEF Ats
<1>3. syncs' = [syncs EXCEPT ![s] = r]
  BY <1>1 DEF Sync, Started
<1> HIDE DEF r
<1> QED BY <1>2, <1>3, AtSet

LEMMA AtFinished ==
  ASSUME AtInv(syncs), NEW s \in Syncs, syncs' = [syncs EXCEPT ![s] = Finish] \/ Raise(s)
  PROVE  AtInv(syncs')
<1> DEFINE r == [Finish EXCEPT !.raised = TRUE]
<1>1. "at" \in DOMAIN Finish /\ Finish.at \in Ats /\ "at" \in DOMAIN r /\ r.at \in Ats
  BY DEF Finish, Ats
<1>2. syncs' = [syncs EXCEPT ![s] = Finish] \/ syncs' = [syncs EXCEPT ![s] = r]
  BY DEF Raise
<1> HIDE DEF r
<1> QED BY <1>1, <1>2, AtSet

LEMMA AtOverwrite ==
  ASSUME AtInv(syncs), NEW s \in Syncs, NEW todo, NEW now, NEW blocked, Overwrite(s, todo, now, blocked)
  PROVE  AtInv(syncs')
<1> DEFINE k == SelectInSeq(todo, LAMBDA p : p \notin blocked /\ ~now[p].clean)
           r == [at |-> "put", place |-> todo[k], data |-> now[todo[k]].cmds, blocked |-> blocked,
                 todo |-> SubSeq(todo, k + 1, Len(todo)), ticket |-> Ticket(s)]
<1>1. \/ syncs' = [syncs EXCEPT ![s] = Finish]
      \/ syncs' = [syncs EXCEPT ![s] = r]
  BY DEF Overwrite
<1>2. "at" \in DOMAIN r /\ r.at \in Ats
  BY DEF Ats
<1> HIDE DEF r
<1> QED BY <1>1, <1>2, AtSet, AtFinished

LEMMA AtReceived ==
  ASSUME AtInv(syncs), NEW s \in Syncs, NEW known, NEW blocked, Received(s, known, blocked)
  PROVE  AtInv(syncs')
<1> DEFINE p == Head(syncs[s].todo)
           check == [syncs[s].check EXCEPT ![p] = NamesIn(known)]
           r == [at |-> "get", todo |-> Tail(syncs[s].todo), check |-> check, blocked |-> blocked]
           todo == <<Global>> \o Guilds
<1>1. \/ syncs' = [syncs EXCEPT ![s] = r]
      \/ Raise(s)
      \/ Overwrite(s, todo, pool', blocked)
  BY DEF Received
<1>2. "at" \in DOMAIN r /\ r.at \in Ats
  BY DEF Ats
<1> HIDE DEF r, todo
<1> QED BY <1>1, <1>2, AtSet, AtFinished, AtOverwrite

\* The synchronisations leave what is declared and registered alone.
LEMMA SyncSteps ==
  ASSUME AtInv(syncs), faults \in 0..MaxFaults, SyncStep \/ SyncFault
  PROVE  AtInv(syncs') /\ faults' \in 0..MaxFaults /\ UNCHANGED <<commands, coros, handlers>>
<1>1. ASSUME NEW s \in Syncs, ServeGet(s)
      PROVE  AtInv(syncs') /\ faults' = faults /\ UNCHANGED <<commands, coros, handlers>>
  <2> DEFINE h == syncs[s]
             r == [at |-> "got", got |-> SetToSeq(discord[Head(h.todo)]), todo |-> h.todo,
                   check |-> h.check, blocked |-> h.blocked]
  <2>1. "at" \in DOMAIN r /\ r.at \in Ats
    BY DEF Ats
  <2>2. syncs' = [syncs EXCEPT ![s] = r]
    BY <1>1 DEF ServeGet
  <2>3. AtInv(syncs')
    <3> HIDE DEF r
    <3> QED BY <2>1, <2>2, AtSet
  <2> QED BY <1>1, <2>3 DEF ServeGet, registry
<1>2. ASSUME NEW s \in Syncs, ServePut(s)
      PROVE  AtInv(syncs') /\ faults' = faults /\ UNCHANGED <<commands, coros, handlers>>
  <2> DEFINE r == [syncs[s] EXCEPT !.at = "done"]
  <2>1. "at" \in DOMAIN r /\ r.at \in Ats
    BY DEF Ats, AtInv
  <2>2. syncs' = [syncs EXCEPT ![s] = r] \/ Raise(s)
    BY <1>2 DEF ServePut
  <2>3. AtInv(syncs')
    <3> HIDE DEF r
    <3> QED BY <2>1, <2>2, AtSet, AtFinished
  <2> QED BY <1>2, <2>3 DEF ServePut, registry
<1>3. ASSUME NEW s \in Syncs, Got(s)
      PROVE  AtInv(syncs') /\ faults' = faults /\ UNCHANGED <<commands, coros, handlers>>
  <2> DEFINE known == syncs[s].got
             blocked == syncs[s].blocked
  <2>1. Received(s, known, blocked) /\ UNCHANGED <<commands, coros, handlers, faults>>
    BY <1>3 DEF Got
  <2>2. AtInv(syncs')
    <3> HIDE DEF known, blocked
    <3> QED BY <2>1, AtReceived
  <2> QED BY <2>1, <2>2
<1>4. ASSUME NEW s \in Syncs, Overwritten(s)
      PROVE  AtInv(syncs') /\ faults' = faults /\ UNCHANGED <<commands, coros, handlers>>
  <2> DEFINE now == [pool EXCEPT ![syncs[s].place] = [cmds |-> syncs[s].data, clean |-> TRUE]]
             todo == syncs[s].todo
             blocked == syncs[s].blocked
  <2>1. Overwrite(s, todo, now, blocked)
    BY <1>4 DEF Overwritten
  <2>2. AtInv(syncs')
    <3> HIDE DEF now, todo, blocked
    <3> QED BY <2>1, AtOverwrite
  <2> QED BY <1>4, <2>2 DEF Overwritten, registry
<1>5. ASSUME NEW s \in Syncs, Refused(s)
      PROVE  AtInv(syncs') /\ faults' \in 0..MaxFaults /\ UNCHANGED <<commands, coros, handlers>>
  <2>1. AtInv(syncs')
    BY <1>5, AtFinished DEF Refused
  <2>2. faults' \in 0..MaxFaults
    BY <1>5, SyncAssumption DEF Refused
  <2> QED BY <1>5, <2>1, <2>2 DEF Refused, registry
<1>6. ASSUME NEW s \in Syncs, MissingAccess(s)
      PROVE  AtInv(syncs') /\ faults' \in 0..MaxFaults /\ UNCHANGED <<commands, coros, handlers>>
  <2> DEFINE known == << >>
             blocked == syncs[s].blocked \cup {Head(syncs[s].todo)}
  <2>1. Received(s, known, blocked) /\ faults < MaxFaults /\ faults' = faults + 1 /\ UNCHANGED <<commands, coros, handlers>>
    BY <1>6 DEF MissingAccess
  <2>2. AtInv(syncs')
    <3> HIDE DEF known, blocked
    <3> QED BY <2>1, AtReceived
  <2> QED BY <2>1, <2>2, SyncAssumption
<1> QED BY <1>1, <1>2, <1>3, <1>4, <1>5, <1>6 DEF SyncStep, SyncFault

\* The commands are at most the client's own and that of the extension.
LEMMA WantedIs ==
  ASSUME OwnerInv(commands, coros, handlers, insts, torn), NEW p
  PROVE  Distinct(Wanted(coros, p))
<1>1. ASSUME NEW x, NEW y, x.name # y.name, \A i \in DOMAIN coros : coros[i] \in {x, y}
      PROVE  Distinct(Wanted(coros, p))
  <2>1. Data(x).name = x.name /\ Data(y).name = y.name
    BY DEF Data
  <2>2. Wanted(coros, p) \in SUBSET {Data(x), Data(y)}
    BY <1>1 DEF Wanted, In
  <2>3. IsFiniteSet({Data(x), Data(y)})
    <3>1. IsFiniteSet({Data(x)})
      BY FS_Singleton
    <3>2. IsFiniteSet({Data(x)} \cup {Data(y)})
      BY <3>1, FS_AddElement
    <3>3. {Data(x)} \cup {Data(y)} = {Data(x), Data(y)}
      OBVIOUS
    <3> QED BY <3>2, <3>3
  <2>4. IsFiniteSet(Wanted(coros, p))
    BY <2>2, <2>3, FS_Subset
  <2> QED BY <1>1, <2>1, <2>2, <2>4 DEF Distinct
<1>2. OwnCommand.name = Own /\ Own # Ext
  BY CommandIs
<1>3. ASSUME NEW v, NEW j, coros = << >> \/ coros = OwnOnly \/ coros = WithExt(v, j) PROVE Distinct(Wanted(coros, p))
  <2> DEFINE x == OwnCommand
             y == ExtCommand(v, j)
  <2>1. x.name # y.name
    BY CommandIs
  <2>2. \A i \in DOMAIN coros : coros[i] \in {x, y}
    <3>1. CASE coros = << >>
      BY <3>1
    <3>2. CASE coros = OwnOnly
      BY <3>2, ListIs
    <3>3. CASE coros = WithExt(v, j)
      BY <3>3, ListIs
    <3> QED BY <1>3, <3>1, <3>2, <3>3
  <2> HIDE DEF x, y
  <2> QED BY <1>1, <2>1, <2>2
<1> QED BY <1>3 DEF OwnerInv, Bare, Extended

LEMMA PlacesAre == <<Global>> \o Guilds \in Seq(Places) /\ Range(<<Global>> \o Guilds) = Places
<1> DEFINE g == Global
           s == <<g>>
<1>1. Guilds \in Seq(Places) /\ g \in Places /\ Range(Guilds) \cup {g} = Places
  BY RegistryAssumption DEF Places
<1> HIDE DEF g
<1>2. s \in Seq(Places) /\ Range(s) = {g}
  BY <1>1 DEF Range
<1> HIDE DEF s
<1>3. Joined(s \o Guilds, s, Guilds, Places)
  BY <1>1, <1>2, JoinedIs
<1> QED BY <1>1, <1>2, <1>3 DEF Joined, g, s

\* The step of the one that is under way.
LEMMA SoleStep ==
  ASSUME AtInv(syncs), SoleInv(syncs, pool, discord, shut, loadedLate, coros, phase),
         NEW s \in Syncs, syncs[s].at # "idle", NEW r, syncs' = [syncs EXCEPT ![s] = r],
         Underway(r, pool', discord', shut', loadedLate', coros'),
         r.at = "idle" /\ ~loadedLate' => Settled(discord', shut', coros')
  PROVE  SoleInv(syncs', pool', discord', shut', loadedLate', coros', phase')
<1>1. syncs'[s] = r /\ \A t \in Syncs : t # s => syncs'[t] = syncs[t] /\ syncs[t].at = "idle"
  BY DEF AtInv, SoleInv
<1>2. \A t \in Syncs : t # s => Underway(syncs'[t], pool', discord', shut', loadedLate', coros')
  <2> SUFFICES ASSUME NEW t \in Syncs, t # s
               PROVE  Underway(syncs'[t], pool', discord', shut', loadedLate', coros')
    OBVIOUS
  <2>1. syncs'[t].at = "idle"
    BY <1>1
  <2> QED BY <2>1 DEF Underway
<1>3. \A t \in Syncs : Underway(syncs'[t], pool', discord', shut', loadedLate', coros')
  BY <1>1, <1>2
<1>4. \A t, u \in Syncs : syncs'[t].at # "idle" /\ syncs'[u].at # "idle" => t = u
  BY <1>1
<1>5. ~loadedLate' /\ (\A t \in Syncs : syncs'[t].at = "idle") => Settled(discord', shut', coros')
  BY <1>1
<1> QED BY <1>3, <1>4, <1>5 DEF SoleInv

\* Overwriting goes on with a place that is not clean, or there is none.
LEMMA OverwriteIs ==
  ASSUME NEW s \in Syncs, NEW todo \in Seq(Places), NEW now, NEW blocked, Overwrite(s, todo, now, blocked)
  PROVE  \E r :
           /\ syncs' = [syncs EXCEPT ![s] = r]
           /\ \/ r.at = "idle" /\ \A p \in Range(todo) : p \in blocked \/ now[p].clean
              \/ /\ r.at = "put" /\ r.place \in Range(todo) /\ r.place \notin blocked
                 /\ ~now[r.place].clean /\ r.data = now[r.place].cmds
                 /\ r.blocked = blocked /\ r.todo \in Seq(Places)
                 /\ \A p \in Range(todo) : p \in blocked \/ now[p].clean \/ p = r.place \/ p \in Range(r.todo)
<1> DEFINE I == {i \in 1..Len(todo) : todo[i] \notin blocked /\ ~now[todo[i]].clean}
           k == SelectInSeq(todo, LAMBDA p : p \notin blocked /\ ~now[p].clean)
           n == Len(todo)
           rest == SubSeq(todo, k + 1, n)
           r == [at |-> "put", place |-> todo[k], data |-> now[todo[k]].cmds, blocked |-> blocked,
                 todo |-> rest, ticket |-> Ticket(s)]
<1>1. n \in Nat /\ (\A i \in 1..n : todo[i] \in Places) /\ Range(todo) = {todo[i] : i \in 1..n}
  BY LenProperties, RangeIs
<1>2. k = IF I # {} THEN Min(I) ELSE 0
  BY DEF SelectInSeq
<1>3. syncs' = [syncs EXCEPT ![s] = IF k = 0 THEN Finish ELSE r]
  BY DEF Overwrite
<1>4. CASE I = {}
  <2>1. k = 0
    BY <1>2, <1>4
  <2>2. \A p \in Range(todo) : p \in blocked \/ now[p].clean
    BY <1>1, <1>4
  <2>3. Finish.at = "idle"
    BY DEF Finish
  <2> HIDE DEF k, r
  <2>4. syncs' = [syncs EXCEPT ![s] = Finish]
    BY <1>3, <2>1
  <2> QED BY <2>2, <2>3, <2>4
<1>5. CASE I # {}
  <2>1. k \in I /\ \A i \in I : k <= i
    <3>1. I \in SUBSET Nat
      OBVIOUS
    <3> HIDE DEF I, k
    <3> QED BY <1>2, <1>5, <3>1, MinIs
  <2> HIDE DEF k
  <2>2. k \in 1..n /\ todo[k] \notin blocked /\ ~now[todo[k]].clean /\ k # 0
    BY <1>1, <2>1
  <2>3. rest \in Seq(Places) /\ Range(rest) = {todo[i] : i \in k + 1..n}
    <3>1. k + 1 \in Int /\ n \in Int /\ \A i \in k + 1..n : todo[i] \in Places
      BY <1>1, <2>2
    <3>2. /\ rest \in Seq(Places) /\ Len(rest) = IF k + 1 <= n THEN n - (k + 1) + 1 ELSE 0
          /\ \A i \in 1..n - (k + 1) + 1 : rest[i] = todo[(k + 1) + i - 1]
      BY <3>1, SubSeqProperties
    <3> HIDE DEF rest, n
    <3>3. Len(rest) = n - k /\ \A i \in 1..n - k : rest[i] = todo[k + i]
      BY <1>1, <2>2, <3>2
    <3>4. Range(rest) = {rest[i] : i \in 1..n - k}
      BY <3>2, <3>3, RangeIs
    <3>5. ASSUME NEW i \in k + 1..n PROVE i - k \in 1..n - k /\ k + (i - k) = i
      BY <1>1, <2>2
    <3>6. ASSUME NEW i \in 1..n - k PROVE k + i \in k + 1..n
      BY <1>1, <2>2
    <3>7. \A x \in Range(rest) : x \in {todo[i] : i \in k + 1..n}
      BY <3>3, <3>4, <3>6
    <3>8. ASSUME NEW i \in k + 1..n PROVE todo[i] \in Range(rest)
      <4>1. rest[i - k] = todo[i]
        BY <3>3, <3>5
      <4> QED BY <3>4, <3>5, <4>1
    <3> QED BY <3>2, <3>7, <3>8
  <2>4. ASSUME NEW p \in Range(todo) PROVE p \in blocked \/ now[p].clean \/ p = todo[k] \/ p \in Range(rest)
    <3>1. PICK i \in 1..n : p = todo[i]
      BY <1>1
    <3>2. CASE i \in k + 1..n
      BY <2>3, <3>1, <3>2
    <3>3. CASE i < k
      <4>1. i \notin I
        BY <1>1, <2>1, <2>2, <3>3
      <4> QED BY <3>1, <4>1
    <3> QED BY <1>1, <2>2, <3>1, <3>2, <3>3
  <2>5. /\ r.at = "put" /\ r.place = todo[k] /\ r.data = now[todo[k]].cmds /\ r.blocked = blocked /\ r.todo = rest
    OBVIOUS
  <2> HIDE DEF r, rest, I
  <2>6. syncs' = [syncs EXCEPT ![s] = r]
    BY <1>3, <2>2
  <2>7. r.place \in Range(todo)
    BY <1>1, <2>2, <2>5
  <2> QED BY <2>2, <2>3, <2>4, <2>5, <2>6, <2>7
<1> QED BY <1>4, <1>5

\* All that has been read is compared: a place that stays clean is as it is wanted, and the
\* list of any other is.
LEMMA ComparedIs ==
  ASSUME NEW now, NEW check, NEW blocked, DiscordInv(discord), ~Raises(now, check, blocked),
         \A p \in Places : Distinct(Wanted(coros, p)),
         NEW p \in Places, p \notin blocked, HasRead(now[p], discord[p], check[p])
  PROVE  /\ Range(Compared(now, check, blocked)[p].cmds) = Wanted(coros, p)
         /\ Compared(now, check, blocked)[p].clean => discord[p] = Wanted(coros, p)
<1> DEFINE c == now[p].cmds
           names == check[p]
           mine == Mine(p, blocked)
           W == Wanted(coros, p)
           m == Matched(c, names, mine)
           same == Differing(c, names, mine) \cup Missing(names, mine) = {}
           strays == Strays(p, check, blocked)
           new == Compared(now, check, blocked)[p]
<1>1. now[p].clean = TRUE /\ c \in Seq(discord[p]) /\ Range(c) = discord[p] /\ Once(c) /\ names = NamesIn(c)
  BY DEF HasRead
<1>2. Refusing(blocked) = {}
  BY DEF Raises
<1>3. mine = W
  BY <1>2 DEF Mine, Wanted, Of, In
<1>4. Distinct(W)
  OBVIOUS
<1>5. new = IF coros = << >> THEN Put(now[p], << >>, c = << >>)
            ELSE Put(now[p], Without(m, strays), same /\ strays = {})
  BY DEF Compared
<1>6. strays = names \ {d.name : d \in W}
  BY <1>3 DEF Strays
<1> HIDE DEF W, m, same, strays, new, names, c, mine
<1>7. CASE coros = << >>
  <2>1. W = {}
    <3>1. In(coros, p) = {}
      BY <1>7 DEF In
    <3> QED BY <3>1 DEF Wanted, W
  <2> DEFINE z == << >>
  <2>2. Range(z) = {}
    BY DEF Range
  <2>3. new = Put(now[p], z, c = z)
    BY <1>5, <1>7
  <2> HIDE DEF z
  <2>4. new.cmds = z /\ (new.clean => c = z)
    BY <2>3 DEF Put
  <2> QED BY <1>1, <2>1, <2>2, <2>4 DEF new, W
<1>8. CASE coros # << >>
  <2> DEFINE w == Without(m, strays)
  <2>1. new = Put(now[p], w, same /\ strays = {})
    BY <1>5, <1>8
  <2>2. Corrects(c, names, W, strays)
    <3>1. c \in Seq(discord[p]) /\ Once(c) /\ Distinct(W) /\ names = NamesIn(c)
      BY <1>1, <1>4
    <3> HIDE DEF w
    <3> QED BY <1>6, <3>1, CompareIs
  <2>4. Range(w) = W /\ (same /\ strays = {} => Range(c) = W)
    <3>1. m = Matched(c, names, W) /\ (same => Differing(c, names, W) \cup Missing(names, W) = {})
      BY <1>3 DEF m, same
    <3> QED BY <2>2, <3>1 DEF Corrects
  <2> HIDE DEF w
  <2>5. new.cmds = w /\ (new.clean => same /\ strays = {})
    BY <2>1 DEF Put
  <2> QED BY <1>1, <2>4, <2>5 DEF new, W
<1> QED BY <1>7, <1>8

\* After an answer: that place has been read too, and after the last one all is compared.
LEMMA SoleReceived ==
  ASSUME AtInv(syncs), AllInv(syncs, pool, discord, shut, loadedLate, coros, phase),
         \A p \in Places : Distinct(Wanted(coros, p)),
         NEW s \in Syncs, syncs[s].at \in {"get", "got"},
         NEW known, NEW blocked, Received(s, known, blocked), ~failed',
         \A p \in Places : p \in syncs[s].blocked => p \in blocked,
         LET p == Head(syncs[s].todo)
         IN  p \in blocked \/ (known \in Seq(discord[p]) /\ Range(known) = discord[p] /\ Once(known)),
         UNCHANGED <<discord, coros>>
  PROVE  AllInv(syncs', pool', discord', shut', loadedLate', coros', phase')
<1> DEFINE h == syncs[s]
           p == Head(h.todo)
           now == IF p \in blocked THEN pool ELSE [pool EXCEPT ![p] = [cmds |-> known, clean |-> TRUE]]
           check == [h.check EXCEPT ![p] = NamesIn(known)]
           all == <<Global>> \o Guilds
<1>1. DiscordInv(discord) /\ PoolInv(pool) /\ SoleInv(syncs, pool, discord, shut, loadedLate, coros, phase)
  BY DEF AllInv
<1>2. Reading(h, pool, discord) /\ h.at # "idle"
  BY <1>1 DEF SoleInv, Underway
<1>3. /\ h.todo \in Seq(Places) /\ h.todo # << >> /\ DOMAIN h.check = Places
      /\ \A q \in Places : q \in Range(h.todo) \/ q \in h.blocked \/ HasRead(pool[q], discord[q], h.check[q])
  BY <1>2 DEF Reading
<1>4. /\ p \in Places /\ Tail(h.todo) \in Seq(Places) /\ Range(h.todo) = {p} \cup Range(Tail(h.todo))
      /\ Len(h.todo) \in Nat \ {0} /\ (Len(h.todo) = 1 => Range(Tail(h.todo)) = {})
      /\ (Len(h.todo) > 1 => Tail(h.todo) # << >>)
  BY <1>3, RangeTail
<1>5. \/ p \in blocked
      \/ known \in Seq(discord[p]) /\ Range(known) = discord[p] /\ Once(known)
  OBVIOUS
<1>6. pool = [q \in Places |-> pool[q]] /\ discord = [q \in Places |-> discord[q]]
  BY <1>1 DEF PoolInv, DiscordInv
<1>7. now = [q \in Places |-> now[q]] /\ check = [q \in Places |-> check[q]]
  BY <1>3, <1>6
<1>a. \/ Len(h.todo) > 1 /\ pool' = now
         /\ syncs' = [syncs EXCEPT ![s] = [at |-> "get", todo |-> Tail(h.todo), check |-> check, blocked |-> blocked]]
         /\ UNCHANGED <<failed, loadedLate, shut>>
      \/ ~(Len(h.todo) > 1) /\ pool' = Compared(now, check, blocked) /\ loadedLate' = FALSE /\ shut' = blocked
         /\ IF Raises(now, check, blocked) THEN Raise(s)
            ELSE Overwrite(s, all, pool', blocked) /\ UNCHANGED failed
  BY DEF Received
<1>8. ASSUME NEW q \in Places
      PROVE  q \in Range(Tail(h.todo)) \/ q \in blocked \/ HasRead(now[q], discord[q], check[q])
  <2>1. CASE q \in blocked
    BY <2>1
  <2>2. CASE q = p /\ q \notin blocked
    <3> DEFINE c == [cmds |-> known, clean |-> TRUE]
    <3>1. now[q] = c /\ check[q] = NamesIn(known)
      BY <1>3, <1>4, <1>6, <2>2
    <3>2. c.cmds = known /\ c.clean = TRUE
      OBVIOUS
    <3> HIDE DEF c, now, check
    <3> QED BY <1>5, <2>2, <3>1, <3>2 DEF HasRead
  <2>3. CASE q # p /\ q \notin blocked
    <3>1. now[q] = pool[q] /\ check[q] = h.check[q]
      BY <1>3, <1>6, <2>3
    <3>2. q \notin h.blocked
      BY <2>3
    <3> HIDE DEF now, check
    <3> QED BY <1>3, <1>4, <2>3, <3>1, <3>2
  <2> QED BY <2>1, <2>2, <2>3
<1> HIDE DEF now, check
<1>9. DiscordInv(discord')
  BY <1>1
<1>10. CASE Len(h.todo) > 1 /\ pool' = now
            /\ syncs' = [syncs EXCEPT ![s] = [at |-> "get", todo |-> Tail(h.todo), check |-> check, blocked |-> blocked]]
            /\ UNCHANGED <<failed, loadedLate, shut>>
  <2> DEFINE r == [at |-> "get", todo |-> Tail(h.todo), check |-> check, blocked |-> blocked]
  <2>1. r.at = "get" /\ r.todo = Tail(h.todo) /\ r.check = check /\ r.blocked = blocked
    OBVIOUS
  <2>2. syncs' = [syncs EXCEPT ![s] = r]
    BY <1>10
  <2> HIDE DEF r
  <2>3. Reading(r, pool', discord')
    <3>1. \A q \in Places : q \in Range(r.todo) \/ q \in r.blocked \/ HasRead(now[q], discord[q], r.check[q])
      BY <1>8, <2>1
    <3>2. r.check = [q \in Places |-> r.check[q]]
      BY <1>7, <2>1
    <3> QED BY <1>4, <1>10, <2>1, <3>1, <3>2 DEF Reading
  <2>4. Underway(r, pool', discord', shut', loadedLate', coros')
    BY <2>1, <2>3 DEF Underway
  <2>5. SoleInv(syncs', pool', discord', shut', loadedLate', coros', phase')
    BY <1>1, <1>2, <2>1, <2>2, <2>4, SoleStep
  <2>6. PoolInv(pool')
    BY <1>7, <1>10 DEF PoolInv
  <2> QED BY <1>9, <2>5, <2>6 DEF AllInv
<1>11. CASE ~(Len(h.todo) > 1) /\ pool' = Compared(now, check, blocked) /\ loadedLate' = FALSE /\ shut' = blocked
            /\ IF Raises(now, check, blocked) THEN Raise(s)
               ELSE Overwrite(s, all, pool', blocked) /\ UNCHANGED failed
  <2>1. ~Raises(now, check, blocked) /\ Overwrite(s, all, pool', blocked)
    BY <1>11 DEF Raise
  <2>2. Len(h.todo) = 1
    BY <1>4, <1>11
  <2>3. ASSUME NEW q \in Places, q \notin blocked
        PROVE  /\ Range(pool'[q].cmds) = Wanted(coros, q)
               /\ pool'[q].clean => discord[q] = Wanted(coros, q)
    <3>1. HasRead(now[q], discord[q], check[q])
      BY <1>4, <1>8, <2>2, <2>3
    <3>2. /\ Range(Compared(now, check, blocked)[q].cmds) = Wanted(coros, q)
          /\ Compared(now, check, blocked)[q].clean => discord[q] = Wanted(coros, q)
      BY <1>1, <2>1, <2>3, <3>1, ComparedIs
    <3> QED BY <1>11, <3>2
  <2>4. all \in Seq(Places) /\ Range(all) = Places
    BY PlacesAre
  <2> HIDE DEF all
  <2>5. PICK r :
           /\ syncs' = [syncs EXCEPT ![s] = r]
           /\ \/ r.at = "idle" /\ \A q \in Range(all) : q \in blocked \/ pool'[q].clean
              \/ /\ r.at = "put" /\ r.place \in Range(all) /\ r.place \notin blocked
                 /\ ~pool'[r.place].clean /\ r.data = pool'[r.place].cmds
                 /\ r.blocked = blocked /\ r.todo \in Seq(Places)
                 /\ \A q \in Range(all) : q \in blocked \/ pool'[q].clean \/ q = r.place \/ q \in Range(r.todo)
    BY <2>1, <2>4, OverwriteIs
  <2>6. discord' = discord /\ coros' = coros /\ shut' = blocked /\ ~loadedLate'
    BY <1>11
  <2>7. PoolInv(pool')
    BY <1>11 DEF PoolInv, Compared
  <2>8. CASE r.at = "idle" /\ \A q \in Range(all) : q \in blocked \/ pool'[q].clean
    <3>1. Settled(discord', shut', coros')
      BY <2>3, <2>4, <2>6, <2>8 DEF Settled
    <3>2. Underway(r, pool', discord', shut', loadedLate', coros')
      BY <2>8 DEF Underway
    <3>3. SoleInv(syncs', pool', discord', shut', loadedLate', coros', phase')
      BY <1>1, <1>2, <2>5, <3>1, <3>2, SoleStep
    <3> QED BY <1>9, <2>7, <3>3 DEF AllInv
  <2>9. CASE /\ r.at = "put" /\ r.place \in Range(all) /\ r.place \notin blocked
             /\ ~pool'[r.place].clean /\ r.data = pool'[r.place].cmds
             /\ r.blocked = blocked /\ r.todo \in Seq(Places)
             /\ \A q \in Range(all) : q \in blocked \/ pool'[q].clean \/ q = r.place \/ q \in Range(r.todo)
    <3>1. r.place \in Places
      BY <2>4, <2>9
    <3>2. ASSUME NEW q \in Places \ shut' PROVE Due(r, q, pool', discord', coros')
      <4>1. q \notin blocked
        BY <2>6
      <4>2. /\ Range(pool'[q].cmds) = Wanted(coros', q)
            /\ pool'[q].clean => discord'[q] = Wanted(coros', q)
        BY <2>3, <2>6, <4>1
      <4>3. CASE q = r.place
        BY <2>9, <4>2, <4>3 DEF Due
      <4>4. CASE q # r.place
        <5>1. pool'[q].clean \/ q \in Range(r.todo)
          BY <2>4, <2>9, <4>1, <4>4
        <5> QED BY <4>2, <4>4, <5>1 DEF Due
      <4> QED BY <4>3, <4>4
    <3>3. ASSUME NEW q \in Places \ shut' PROVE IsFiniteSet(Range(pool'[q].cmds))
      BY <2>3, <2>6 DEF Distinct
    <3>4. IsFiniteSet(Range(r.data))
      BY <2>6, <2>9, <3>1, <3>3
    <3>5. Writing(r, pool', discord', shut', loadedLate', coros')
      BY <2>6, <2>9, <3>1, <3>2, <3>3, <3>4 DEF Writing
    <3>6. Underway(r, pool', discord', shut', loadedLate', coros')
      BY <2>9, <3>5 DEF Underway
    <3>7. SoleInv(syncs', pool', discord', shut', loadedLate', coros', phase')
      BY <1>1, <1>2, <2>5, <2>9, <3>6, SoleStep
    <3> QED BY <1>9, <2>7, <3>7 DEF AllInv
  <2> QED BY <2>5, <2>8, <2>9
<1> QED BY <1>a, <1>10, <1>11

LEMMA ServeGetKeeps ==
  ASSUME AtInv(syncs), AllInv(syncs, pool, discord, shut, loadedLate, coros, phase), NEW s \in Syncs, ServeGet(s)
  PROVE  AllInv(syncs', pool', discord', shut', loadedLate', coros', phase')
<1> DEFINE h == syncs[s]
           r == [at |-> "got", got |-> SetToSeq(discord[Head(h.todo)]), todo |-> h.todo,
                 check |-> h.check, blocked |-> h.blocked]
<1>1. DiscordInv(discord) /\ PoolInv(pool) /\ SoleInv(syncs, pool, discord, shut, loadedLate, coros, phase)
  BY DEF AllInv
<1>2. h.at = "get" /\ syncs' = [syncs EXCEPT ![s] = r] /\ UNCHANGED <<pool, discord, shut, loadedLate, coros>>
  BY DEF ServeGet, registry
<1>3. Reading(h, pool, discord)
  BY <1>1, <1>2 DEF SoleInv, Underway
<1>4. /\ r.at = "got" /\ r.got = SetToSeq(discord[Head(h.todo)]) /\ r.todo = h.todo
      /\ r.check = h.check /\ r.blocked = h.blocked
  OBVIOUS
<1> HIDE DEF r
<1>5. Reading(r, pool, discord)
  BY <1>3, <1>4 DEF Reading
<1>6. Underway(r, pool', discord', shut', loadedLate', coros')
  BY <1>2, <1>4, <1>5 DEF Underway
<1>7. SoleInv(syncs', pool', discord', shut', loadedLate', coros', phase')
  BY <1>1, <1>2, <1>4, <1>6, SoleStep
<1> QED BY <1>1, <1>2, <1>7 DEF AllInv

\* An overwrite that is served: that place has what is wanted.
LEMMA ServePutKeeps ==
  ASSUME AtInv(syncs), AllInv(syncs, pool, discord, shut, loadedLate, coros, phase), NEW s \in Syncs,
         ServePut(s), ~failed'
  PROVE  AllInv(syncs', pool', discord', shut', loadedLate', coros', phase')
<1> DEFINE h == syncs[s]
           r == [h EXCEPT !.at = "done"]
           p == h.place
<1>1. DiscordInv(discord) /\ PoolInv(pool) /\ SoleInv(syncs, pool, discord, shut, loadedLate, coros, phase)
  BY DEF AllInv
<1>2. /\ h.at = "put" /\ syncs' = [syncs EXCEPT ![s] = r] /\ discord' = [discord EXCEPT ![p] = Range(h.data)]
      /\ \A i, j \in DOMAIN h.data : h.data[i].name = h.data[j].name => i = j
      /\ UNCHANGED <<pool, shut, loadedLate, coros>>
  BY DEF ServePut, Raise, registry
<1>3. Writing(h, pool, discord, shut, loadedLate, coros)
  BY <1>1, <1>2 DEF SoleInv, Underway
<1>4. /\ p \in Places /\ h.todo \in Seq(Places) /\ h.blocked = shut /\ IsFiniteSet(Range(h.data))
      /\ \A q \in Places \ shut : IsFiniteSet(Range(pool[q].cmds))
      /\ ~loadedLate => \A q \in Places \ shut : Due(h, q, pool, discord, coros)
  BY <1>3 DEF Writing
<1>5. r.at = "done" /\ r.todo = h.todo /\ r.place = p /\ r.blocked = h.blocked /\ r.data = h.data
  BY DEF AtInv
<1>6. Distinct(Range(h.data))
  BY <1>2, <1>4 DEF Distinct, Range
<1>7. discord'[p] = Range(h.data) /\ \A q \in Places : q # p => discord'[q] = discord[q]
  BY <1>1, <1>2, <1>4 DEF DiscordInv
<1>8. DiscordInv(discord')
  <2>1. discord' = [q \in Places |-> discord'[q]]
    BY <1>1, <1>2 DEF DiscordInv
  <2>2. \A q \in Places : Distinct(discord'[q])
    BY <1>1, <1>6, <1>7 DEF DiscordInv
  <2> QED BY <2>1, <2>2 DEF DiscordInv
<1> HIDE DEF r, p, h
<1>9. ASSUME ~loadedLate, NEW q \in Places \ shut PROVE Due(r, q, pool, discord', coros)
  <2>1. Due(h, q, pool, discord, coros)
    BY <1>4, <1>9
  <2>2. CASE q = p
    <3>1. Range(h.data) = Wanted(coros, q)
      BY <1>2, <2>1, <2>2 DEF Due, p
    <3> QED BY <1>5, <1>7, <2>2, <3>1 DEF Due
  <2>3. CASE q # p
    <3>1. discord'[q] = discord[q]
      BY <1>7, <2>3
    <3> QED BY <1>5, <2>1, <2>3, <3>1 DEF Due, p
  <2> QED BY <2>2, <2>3
<1>10. Writing(r, pool', discord', shut', loadedLate', coros')
  BY <1>2, <1>4, <1>5, <1>9 DEF Writing
<1>11. Underway(r, pool', discord', shut', loadedLate', coros')
  BY <1>5, <1>10 DEF Underway
<1>12. SoleInv(syncs', pool', discord', shut', loadedLate', coros', phase')
  <2>1. syncs[s].at # "idle"
    BY <1>2 DEF h
  <2> QED BY <1>1, <1>2, <1>5, <1>11, <2>1, SoleStep
<1>13. PoolInv(pool')
  BY <1>1, <1>2
<1> QED BY <1>8, <1>12, <1>13 DEF AllInv

LEMMA GotKeeps ==
  ASSUME AtInv(syncs), AllInv(syncs, pool, discord, shut, loadedLate, coros, phase),
         \A p \in Places : Distinct(Wanted(coros, p)),
         NEW s \in Syncs, Got(s), ~failed'
  PROVE  AllInv(syncs', pool', discord', shut', loadedLate', coros', phase')
<1> DEFINE h == syncs[s]
           known == h.got
           blocked == h.blocked
           p == Head(h.todo)
<1>1. h.at = "got" /\ Received(s, known, blocked) /\ UNCHANGED <<discord, coros>>
  BY DEF Got
<1>2. Reading(h, pool, discord) /\ DiscordInv(discord)
  BY <1>1 DEF AllInv, SoleInv, Underway
<1>3. p \in Places /\ known = SetToSeq(discord[p])
  BY <1>1, <1>2, RangeTail DEF Reading
<1>4. Distinct(discord[p])
  BY <1>2, <1>3 DEF DiscordInv
<1> HIDE DEF known
<1>5. known \in Seq(discord[p]) /\ IsInjective(known) /\ Range(known) = discord[p]
  BY <1>3, <1>4, SetToSeqIs DEF Distinct
<1>6. Once(known)
  <2>1. \A i \in DOMAIN known : known[i] \in discord[p]
    BY <1>5 DEF Range
  <2> QED BY <1>4, <1>5, <2>1 DEF Once, Distinct, IsInjective
<1> HIDE DEF blocked
<1>7. \A q \in Places : q \in syncs[s].blocked => q \in blocked
  BY DEF blocked
<1>8. syncs[s].at \in {"get", "got"}
  BY <1>1
<1> QED BY <1>1, <1>5, <1>6, <1>7, <1>8, SoleReceived

LEMMA MissingAccessKeeps ==
  ASSUME AtInv(syncs), AllInv(syncs, pool, discord, shut, loadedLate, coros, phase),
         \A p \in Places : Distinct(Wanted(coros, p)),
         NEW s \in Syncs, MissingAccess(s), ~failed'
  PROVE  AllInv(syncs', pool', discord', shut', loadedLate', coros', phase')
<1> DEFINE known == << >>
           blocked == syncs[s].blocked \cup {Head(syncs[s].todo)}
<1>1. Received(s, known, blocked) /\ UNCHANGED <<discord, coros>> /\ syncs[s].at \in {"get", "got"}
  BY DEF MissingAccess
<1>2. Head(syncs[s].todo) \in blocked /\ \A q \in Places : q \in syncs[s].blocked => q \in blocked
  OBVIOUS
<1> HIDE DEF known, blocked
<1> QED BY <1>1, <1>2, SoleReceived

\* The answer to an overwrite, and the next one.
LEMMA OverwrittenKeeps ==
  ASSUME AtInv(syncs), AllInv(syncs, pool, discord, shut, loadedLate, coros, phase), NEW s \in Syncs, Overwritten(s)
  PROVE  AllInv(syncs', pool', discord', shut', loadedLate', coros', phase')
<1> DEFINE h == syncs[s]
           p == h.place
           c == [cmds |-> h.data, clean |-> TRUE]
           now == [pool EXCEPT ![p] = c]
           todo == h.todo
           blocked == h.blocked
<1>1. DiscordInv(discord) /\ PoolInv(pool) /\ SoleInv(syncs, pool, discord, shut, loadedLate, coros, phase)
  BY DEF AllInv
<1>2. h.at = "done" /\ pool' = now /\ Overwrite(s, todo, now, blocked) /\ UNCHANGED <<discord, shut, loadedLate, coros>>
  BY DEF Overwritten, registry
<1>3. Writing(h, pool, discord, shut, loadedLate, coros)
  BY <1>1, <1>2 DEF SoleInv, Underway
<1>4. /\ p \in Places /\ todo \in Seq(Places) /\ blocked = shut /\ IsFiniteSet(Range(h.data))
      /\ \A q \in Places \ shut : IsFiniteSet(Range(pool[q].cmds))
      /\ ~loadedLate => \A q \in Places \ shut : Due(h, q, pool, discord, coros)
  BY <1>3 DEF Writing
<1>5. c.cmds = h.data /\ c.clean = TRUE
  OBVIOUS
<1> HIDE DEF c
<1>6. now[p] = c /\ (\A q \in Places : q # p => now[q] = pool[q]) /\ now = [q \in Places |-> now[q]]
  BY <1>1, <1>4 DEF PoolInv
<1> HIDE DEF now, todo, blocked, p
<1>7. PICK r :
        /\ syncs' = [syncs EXCEPT ![s] = r]
        /\ \/ r.at = "idle" /\ \A q \in Range(todo) : q \in blocked \/ now[q].clean
           \/ /\ r.at = "put" /\ r.place \in Range(todo) /\ r.place \notin blocked
              /\ ~now[r.place].clean /\ r.data = now[r.place].cmds
              /\ r.blocked = blocked /\ r.todo \in Seq(Places)
              /\ \A q \in Range(todo) : q \in blocked \/ now[q].clean \/ q = r.place \/ q \in Range(r.todo)
  BY <1>2, <1>4, OverwriteIs
\* A place that is clean now is as it is wanted; another is among those to come.
<1>8. ASSUME ~loadedLate, NEW q \in Places \ shut
      PROVE  IF now[q].clean THEN discord[q] = Wanted(coros, q)
             ELSE q \in Range(todo) /\ Range(now[q].cmds) = Wanted(coros, q)
  <2>1. Due(h, q, pool, discord, coros)
    BY <1>4, <1>8
  <2>2. CASE q = p
    <3>1. discord[q] = Wanted(coros, q)
      BY <1>2, <2>1, <2>2 DEF Due, p
    <3> QED BY <1>5, <1>6, <2>2, <3>1
  <2>3. CASE q # p
    <3>1. now[q] = pool[q]
      BY <1>6, <2>3
    <3> QED BY <2>1, <2>3, <3>1 DEF Due, p, todo
  <2> QED BY <2>2, <2>3
<1>9. \A q \in Places \ shut : IsFiniteSet(Range(now[q].cmds))
  BY <1>4, <1>5, <1>6
<1>10. PoolInv(pool') /\ DiscordInv(discord')
  BY <1>1, <1>2, <1>6 DEF PoolInv
<1>11. syncs[s].at # "idle"
  BY <1>2
<1>12. CASE r.at = "idle" /\ \A q \in Range(todo) : q \in blocked \/ now[q].clean
  <2>1. ~loadedLate => Settled(discord, shut, coros)
    <3> SUFFICES ASSUME ~loadedLate, NEW q \in Places \ shut PROVE discord[q] = Wanted(coros, q)
      BY DEF Settled
    <3>1. q \notin blocked
      BY <1>4
    <3> QED BY <1>8, <1>12, <3>1
  <2>2. Underway(r, pool', discord', shut', loadedLate', coros')
    BY <1>12 DEF Underway
  <2>3. r.at = "idle" /\ ~loadedLate' => Settled(discord', shut', coros')
    BY <1>2, <2>1
  <2>4. SoleInv(syncs', pool', discord', shut', loadedLate', coros', phase')
    BY <1>1, <1>7, <1>11, <2>2, <2>3, SoleStep
  <2> QED BY <1>10, <2>4 DEF AllInv
<1>13. CASE /\ r.at = "put" /\ r.place \in Range(todo) /\ r.place \notin blocked
            /\ ~now[r.place].clean /\ r.data = now[r.place].cmds
            /\ r.blocked = blocked /\ r.todo \in Seq(Places)
            /\ \A q \in Range(todo) : q \in blocked \/ now[q].clean \/ q = r.place \/ q \in Range(r.todo)
  <2>1. r.place \in Places \ shut
    <3>1. Range(todo) \subseteq Places
      BY <1>4, RangeIs
    <3> QED BY <1>4, <1>13, <3>1
  <2>2. ASSUME ~loadedLate, NEW q \in Places \ shut PROVE Due(r, q, now, discord, coros)
    <3>1. IF now[q].clean THEN discord[q] = Wanted(coros, q)
          ELSE q \in Range(todo) /\ Range(now[q].cmds) = Wanted(coros, q)
      BY <1>8, <2>2
    <3>2. CASE q = r.place
      BY <1>13, <3>1, <3>2 DEF Due
    <3>3. CASE q # r.place
      <4>1. q \in Range(todo) => now[q].clean \/ q \in Range(r.todo)
        BY <1>4, <1>13, <3>3
      <4> QED BY <3>1, <3>3, <4>1 DEF Due
    <3> QED BY <3>2, <3>3
  <2>3. IsFiniteSet(Range(r.data))
    BY <1>9, <1>13, <2>1
  <2>4. Writing(r, pool', discord', shut', loadedLate', coros')
    BY <1>2, <1>4, <1>9, <1>13, <2>1, <2>2, <2>3 DEF Writing
  <2>5. Underway(r, pool', discord', shut', loadedLate', coros')
    BY <1>13, <2>4 DEF Underway
  <2>6. SoleInv(syncs', pool', discord', shut', loadedLate', coros', phase')
    BY <1>1, <1>7, <1>11, <1>13, <2>5, SoleStep
  <2> QED BY <1>10, <2>6 DEF AllInv
<1> QED BY <1>7, <1>12, <1>13

\* A synchronisation that starts while none is under way has all of it to read.
LEMMA SyncStarts ==
  ASSUME AtInv(syncs), SyncInv, \E s \in Unused : Sync(s), UNCHANGED <<pool, discord, shut>>
  PROVE  SyncInv'
<1>1. PICK s \in Syncs : Sync(s)
  BY DEF Unused
<1>3. DiscordInv(discord) /\ PoolInv(pool) /\ BaseInv(syncs, pool, discord)
  BY DEF SyncInv, BaseInv
<1> DEFINE all == <<Global>> \o Guilds
           r == [at |-> "get", todo |-> all, check |-> [p \in Places |-> {}], blocked |-> {}]
<1>4. syncs' = [syncs EXCEPT ![s] = r]
  BY <1>1 DEF Sync, Started
<1>5. r.at = "get" /\ r.todo = all /\ r.check = [p \in Places |-> {}]
  OBVIOUS
<1>6. all \in Seq(Places) /\ Range(all) = Places /\ all # << >>
  <2>1. all \in Seq(Places) /\ Range(all) = Places
    BY PlacesAre
  <2>2. Global \in Range(all)
    BY <2>1 DEF Places
  <2>3. Range(<< >>) = {}
    BY DEF Range
  <2> HIDE DEF all
  <2> QED BY <2>1, <2>2, <2>3
<1> HIDE DEF r, all
<1>b. BaseInv(syncs', pool', discord')
  <2>1. Sound(r)
    BY <1>5, <1>6 DEF Sound
  <2>2. \A t \in Syncs : Sound(syncs'[t])
    BY <1>3, <1>4, <2>1 DEF BaseInv, AtInv
  <2> QED BY <1>3, <2>2 DEF BaseInv
<1> SUFFICES ASSUME ~overlapped', ~failed' PROVE AllInv(syncs', pool', discord', shut', loadedLate', coros', phase')
  BY <1>b DEF SyncInv
<1>2. \A t \in Syncs : syncs[t].at = "idle"
  BY <1>1 DEF Sync, OverlapsNow, Running
<1>7. Reading(r, pool', discord')
  BY <1>5, <1>6 DEF Reading
<1>8. syncs'[s] = r /\ \A t \in Syncs : t # s => syncs'[t].at = "idle"
  BY <1>2, <1>4 DEF AtInv
<1>9. ASSUME NEW t \in Syncs PROVE Underway(syncs'[t], pool', discord', shut', loadedLate', coros')
  <2>1. CASE t = s
    <3>1. Underway(r, pool', discord', shut', loadedLate', coros')
      BY <1>5, <1>7 DEF Underway
    <3> QED BY <1>8, <2>1, <3>1
  <2>2. CASE t # s
    <3>1. syncs'[t].at = "idle"
      BY <1>8, <2>2
    <3> QED BY <3>1 DEF Underway
  <2> QED BY <2>1, <2>2
<1>10. \A t, u \in Syncs : syncs'[t].at # "idle" /\ syncs'[u].at # "idle" => t = u
  BY <1>8
<1>11. ~ \A t \in Syncs : syncs'[t].at = "idle"
  BY <1>5, <1>8
<1>12. SoleInv(syncs', pool', discord', shut', loadedLate', coros', phase')
  BY <1>9, <1>10, <1>11 DEF SoleInv
<1> QED BY <1>3, <1>12 DEF AllInv

\* What is registered changes only with loadedLate.
LEMMA SyncRests ==
  ASSUME SyncInv, UNCHANGED <<syncs, pool, discord, shut, failed, overlapped>>,
         loadedLate' \/ (~loadedLate /\ coros' = coros),
         phase' \in {"starting", "ready"} => phase \in {"starting", "ready"}
  PROVE  SyncInv'
<1> SUFFICES ASSUME ~overlapped, ~failed PROVE AllInv(syncs, pool, discord, shut, loadedLate', coros', phase')
  BY DEF SyncInv
<1>1. DiscordInv(discord) /\ PoolInv(pool) /\ SoleInv(syncs, pool, discord, shut, loadedLate, coros, phase)
  BY DEF SyncInv, AllInv
<1>2. ASSUME NEW h, Writing(h, pool, discord, shut, loadedLate, coros)
      PROVE  Writing(h, pool, discord, shut, loadedLate', coros')
  BY <1>2 DEF Writing
<1>3. \A t \in Syncs : Underway(syncs[t], pool, discord, shut, loadedLate', coros')
  BY <1>1, <1>2 DEF SoleInv, Underway
<1>4. phase' \in {"starting", "ready"} /\ ~loadedLate' /\ (\A t \in Syncs : syncs[t].at = "idle") => Settled(discord, shut, coros')
  BY <1>1 DEF SoleInv
<1>5. \A t, u \in Syncs : syncs[t].at # "idle" /\ syncs[u].at # "idle" => t = u
  BY <1>1 DEF SoleInv
<1>6. SoleInv(syncs, pool, discord, shut, loadedLate', coros', phase')
  BY <1>3, <1>4, <1>5 DEF SoleInv
<1> QED BY <1>1, <1>6 DEF AllInv

LEMMA ListedIs ==
  ASSUME NEW c, Listed(c)
  PROVE  IsFiniteSet(Range(c))
<1>1. PICK E : c \in Seq(E)
  BY DEF Listed
<1>2. Len(c) \in Nat /\ DOMAIN c = 1..Len(c) /\ Range(c) = {c[i] : i \in 1..Len(c)}
  BY <1>1, RangeIs
<1>3. c \in Surjection(1..Len(c), Range(c))
  <2>1. c = [i \in 1..Len(c) |-> c[i]]
    BY <1>1, <1>2
  <2>2. c \in [1..Len(c) -> Range(c)]
    BY <1>2, <2>1
  <2> QED BY <1>2, <2>2 DEF Surjection
<1>4. IsFiniteSet(1..Len(c))
  BY <1>2, FS_Interval
<1> QED BY <1>3, <1>4, FS_Surjection

\* Whatever a comparison is made with, it leaves a list.
LEMMA MatchedListed ==
  ASSUME NEW cmds, Listed(cmds), NEW W, IsFiniteSet(W), NEW names
  PROVE  Listed(Matched(cmds, names, W))
<1>1. PICK S : cmds \in Seq(S)
  BY DEF Listed
<1> DEFINE n == Len(cmds)
           E == S \cup W
           new(i) == {d \in Differing(cmds, names, W) : d.name = cmds[i].name}
           replaced == [i \in DOMAIN cmds |-> IF First(cmds, i) /\ new(i) # {} THEN CHOOSE d \in new(i) : TRUE ELSE cmds[i]]
           added == SetToSeq(Missing(names, W))
<1>2. n \in Nat /\ DOMAIN cmds = 1..n /\ \A i \in 1..n : cmds[i] \in S
  BY <1>1, LenProperties
<1>3. Matched(cmds, names, W) = replaced \o added
  BY DEF Matched
<1> HIDE DEF n
<1>4. ASSUME NEW i \in 1..n PROVE replaced[i] \in E
  <2>1. replaced[i] = IF First(cmds, i) /\ new(i) # {} THEN CHOOSE d \in new(i) : TRUE ELSE cmds[i]
    BY <1>2
  <2>2. \A d \in new(i) : d \in W
    BY DEF Differing
  <2> HIDE DEF new, replaced
  <2>3. new(i) # {} => (CHOOSE d \in new(i) : TRUE) \in new(i)
    OBVIOUS
  <2> QED BY <1>2, <2>1, <2>2, <2>3
<1>5. DOMAIN replaced = 1..n /\ replaced = [i \in 1..n |-> replaced[i]]
  BY <1>2
<1> HIDE DEF replaced, E
<1>6. replaced \in Seq(E)
  <2>1. replaced \in [1..n -> E]
    BY <1>4, <1>5
  <2> QED BY <1>2, <2>1
<1>7. added \in Seq(E)
  <2>1. Missing(names, W) \in SUBSET W
    BY DEF Missing
  <2>2. IsFiniteSet(Missing(names, W))
    BY <2>1, FS_Subset
  <2>3. added \in Seq(Missing(names, W))
    BY <2>2, SetToSeqIs
  <2> HIDE DEF added
  <2> QED BY <2>1, <2>3 DEF E
<1> HIDE DEF added
<1>8. replaced \o added \in Seq(E)
  BY <1>6, <1>7, ConcatProperties
<1> QED BY <1>3, <1>8 DEF Listed

LEMMA ComparedListed ==
  ASSUME NEW now, NEW check, NEW blocked, NEW p \in Places, Listed(now[p].cmds), Distinct(Wanted(coros, p))
  PROVE  Listed(Compared(now, check, blocked)[p].cmds)
<1> DEFINE c == now[p].cmds
           mine == Mine(p, blocked)
           m == Matched(c, check[p], mine)
           same == Differing(c, check[p], mine) \cup Missing(check[p], mine) = {}
           strays == Strays(p, check, blocked)
           new == Compared(now, check, blocked)[p]
           z == << >>
<1>1. IsFiniteSet(mine)
  <2>1. mine \in SUBSET Wanted(coros, p)
    BY DEF Mine, Wanted, Of, In
  <2> QED BY <2>1, FS_Subset DEF Distinct
<1>2. Listed(m)
  BY <1>1, MatchedListed
<1>3. Listed(Without(m, strays))
  <2>1. PICK E : m \in Seq(E)
    BY <1>2 DEF Listed
  <2> HIDE DEF m, strays
  <2> QED BY <2>1, WithoutIs DEF Listed
<1>4. Listed(z)
  <2>1. z \in Seq({})
    BY EmptySeq
  <2> QED BY <2>1 DEF Listed
<1>5. \/ new = now[p] \/ new = Put(now[p], z, c = z) \/ new = Put(now[p], m, same)
      \/ new = Put(now[p], Without(m, strays), same /\ strays = {})
  BY DEF Compared
<1> HIDE DEF new, m, strays, same, z
<1>6. new.cmds = c \/ new.cmds = z \/ new.cmds = m \/ new.cmds = Without(m, strays)
  BY <1>5 DEF Put
<1> QED BY <1>2, <1>3, <1>4, <1>6 DEF new

LEMMA OverwriteSound ==
  ASSUME BaseInv(syncs, pool, discord), AtInv(syncs), BaseInv(syncs, pool', discord),
         NEW s \in Syncs, NEW todo \in Seq(Places), NEW blocked, Overwrite(s, todo, pool', blocked)
  PROVE  BaseInv(syncs', pool', discord)
<1>1. PICK r :
        /\ syncs' = [syncs EXCEPT ![s] = r]
        /\ \/ r.at = "idle" /\ \A p \in Range(todo) : p \in blocked \/ pool'[p].clean
           \/ /\ r.at = "put" /\ r.place \in Range(todo) /\ r.place \notin blocked
              /\ ~pool'[r.place].clean /\ r.data = pool'[r.place].cmds
              /\ r.blocked = blocked /\ r.todo \in Seq(Places)
              /\ \A p \in Range(todo) : p \in blocked \/ pool'[p].clean \/ p = r.place \/ p \in Range(r.todo)
  BY OverwriteIs
<1>2. Range(todo) \subseteq Places
  BY RangeIs
<1>3. Sound(r)
  BY <1>1, <1>2 DEF Sound, BaseInv
<1>4. \A t \in Syncs : Sound(syncs'[t])
  BY <1>1, <1>3 DEF BaseInv, AtInv
<1> QED BY <1>4 DEF BaseInv

LEMMA FinishSound ==
  ASSUME BaseInv(syncs, pool, discord), AtInv(syncs), NEW s \in Syncs, Raise(s)
  PROVE  \A t \in Syncs : Sound(syncs'[t])
<1> DEFINE r == [Finish EXCEPT !.raised = TRUE]
<1>1. r.at = "idle" /\ syncs' = [syncs EXCEPT ![s] = r]
  BY DEF Finish, Raise
<1> HIDE DEF r
<1>2. Sound(r)
  BY <1>1 DEF Sound
<1> QED BY <1>1, <1>2 DEF BaseInv, AtInv

LEMMA ReceivedSound ==
  ASSUME AtInv(syncs), BaseInv(syncs, pool, discord), \A p \in Places : Distinct(Wanted(coros, p)),
         NEW s \in Syncs, syncs[s].at \in {"get", "got"}, NEW known, Listed(known), NEW blocked,
         Received(s, known, blocked)
  PROVE  BaseInv(syncs', pool', discord)
<1> DEFINE h == syncs[s]
           p == Head(h.todo)
           now == IF p \in blocked THEN pool ELSE [pool EXCEPT ![p] = [cmds |-> known, clean |-> TRUE]]
           check == [h.check EXCEPT ![p] = NamesIn(known)]
           all == <<Global>> \o Guilds
           r == [at |-> "get", todo |-> Tail(h.todo), check |-> check, blocked |-> blocked]
<1>1. h.todo \in Seq(Places) /\ h.todo # << >> /\ PoolInv(pool) /\ DiscordInv(discord)
  BY DEF BaseInv, Sound
<1>2. /\ Tail(h.todo) \in Seq(Places) /\ Len(h.todo) \in Nat \ {0} /\ (Len(h.todo) > 1 => Tail(h.todo) # << >>)
  <2> HIDE DEF h
  <2> QED BY <1>1, RangeTail
<1>3. \/ Len(h.todo) > 1 /\ pool' = now /\ syncs' = [syncs EXCEPT ![s] = r]
      \/ pool' = Compared(now, check, blocked) /\ (Raise(s) \/ Overwrite(s, all, pool', blocked))
  <2>1. IF Len(h.todo) > 1
        THEN pool' = now /\ syncs' = [syncs EXCEPT ![s] = r]
        ELSE /\ pool' = Compared(now, check, blocked)
             /\ IF Raises(now, check, blocked) THEN Raise(s) ELSE Overwrite(s, all, pool', blocked)
    BY DEF Received
  <2> HIDE DEF h, now, check, all, r
  <2> QED BY <2>1
<1>4. now = [q \in Places |-> now[q]] /\ \A q \in Places : Listed(now[q].cmds)
  <2> DEFINE c == [cmds |-> known, clean |-> TRUE]
  <2>1. c.cmds = known
    OBVIOUS
  <2>2. now = IF p \in blocked THEN pool ELSE [pool EXCEPT ![p] = c]
    OBVIOUS
  <2> HIDE DEF c, now
  <2> QED BY <1>1, <2>1, <2>2 DEF PoolInv, BaseInv
<1>5. r.at = "get" /\ r.todo = Tail(h.todo)
  OBVIOUS
<1> HIDE DEF now, check, r
<1>6. CASE Len(h.todo) > 1 /\ pool' = now /\ syncs' = [syncs EXCEPT ![s] = r]
  <2>1. Sound(r)
    BY <1>2, <1>5, <1>6 DEF Sound
  <2>2. \A t \in Syncs : Sound(syncs'[t])
    BY <1>6, <2>1 DEF BaseInv, AtInv
  <2> QED BY <1>1, <1>4, <1>6, <2>2 DEF BaseInv, PoolInv
<1>7. CASE pool' = Compared(now, check, blocked) /\ (Raise(s) \/ Overwrite(s, all, pool', blocked))
  <2>1. PoolInv(pool') /\ \A q \in Places : Listed(pool'[q].cmds)
    <3>1. PoolInv(pool')
      BY <1>7 DEF PoolInv, Compared
    <3>2. ASSUME NEW q \in Places PROVE Listed(pool'[q].cmds)
      BY <1>4, <1>7, ComparedListed
    <3> QED BY <3>1, <3>2
  <2>2. BaseInv(syncs, pool', discord)
    BY <2>1 DEF BaseInv
  <2>3. CASE Raise(s)
    <3>1. \A t \in Syncs : Sound(syncs'[t])
      BY <2>3, FinishSound
    <3> QED BY <2>2, <3>1 DEF BaseInv
  <2>4. all \in Seq(Places)
    BY PlacesAre
  <2> HIDE DEF all
  <2> QED BY <1>7, <2>2, <2>3, <2>4, OverwriteSound
<1> QED BY <1>3, <1>6, <1>7

LEMMA BaseMoves ==
  ASSUME Inv, BaseInv(syncs, pool, discord), SyncStep \/ SyncFault
  PROVE  BaseInv(syncs', pool', discord')
<1>1. AtInv(syncs) /\ \A p \in Places : Distinct(Wanted(coros, p))
  BY WantedIs DEF Inv
<1>2. ASSUME NEW s \in Syncs, ServeGet(s) PROVE BaseInv(syncs', pool', discord')
  <2> DEFINE h == syncs[s]
             p == Head(h.todo)
             got == SetToSeq(discord[p])
             r == [at |-> "got", got |-> got, todo |-> h.todo, check |-> h.check, blocked |-> h.blocked]
  <2>1. h.at = "get" /\ syncs' = [syncs EXCEPT ![s] = r] /\ UNCHANGED <<pool, discord>>
    BY <1>2 DEF ServeGet
  <2>2. h.todo \in Seq(Places) /\ h.todo # << >>
    BY <2>1 DEF BaseInv, Sound
  <2>3. p \in Places /\ IsFiniteSet(discord[p])
    BY <2>2, RangeTail DEF BaseInv, DiscordInv, Distinct
  <2>4. Listed(got)
    BY <2>3, SetToSeqIs DEF Listed
  <2>5. r.at = "got" /\ r.got = got /\ r.todo = h.todo
    OBVIOUS
  <2> HIDE DEF r, got
  <2>6. Sound(r)
    BY <2>2, <2>4, <2>5 DEF Sound
  <2>7. \A t \in Syncs : Sound(syncs'[t])
    BY <1>1, <2>1, <2>6 DEF BaseInv, AtInv
  <2> QED BY <2>1, <2>7 DEF BaseInv
<1>3. ASSUME NEW s \in Syncs, ServePut(s) PROVE BaseInv(syncs', pool', discord')
  <2> DEFINE h == syncs[s]
             r == [h EXCEPT !.at = "done"]
  <2>1. h.at = "put" /\ pool' = pool
    BY <1>3 DEF ServePut
  <2>2. h.todo \in Seq(Places) /\ h.place \in Places /\ Listed(h.data)
    BY <2>1 DEF BaseInv, Sound
  <2>3. CASE Raise(s) /\ discord' = discord
    BY <1>1, <2>1, <2>3, FinishSound DEF BaseInv
  <2>4. CASE /\ \A i, j \in DOMAIN h.data : h.data[i].name = h.data[j].name => i = j
             /\ discord' = [discord EXCEPT ![h.place] = Range(h.data)] /\ syncs' = [syncs EXCEPT ![s] = r]
    <3>1. Distinct(Range(h.data))
      BY <2>2, <2>4, ListedIs DEF Distinct, Range
    <3>2. DiscordInv(discord')
      BY <2>4, <3>1 DEF BaseInv, DiscordInv
    <3>3. r.at = "done" /\ r.todo = h.todo /\ r.place = h.place /\ r.data = h.data
      BY <1>1 DEF AtInv
    <3> HIDE DEF r
    <3>4. Sound(r)
      BY <2>2, <3>3 DEF Sound
    <3>5. \A t \in Syncs : Sound(syncs'[t])
      BY <1>1, <2>4, <3>4 DEF BaseInv, AtInv
    <3> QED BY <2>1, <3>2, <3>5 DEF BaseInv
  <2> QED BY <1>3, <2>3, <2>4 DEF ServePut
<1>4. ASSUME NEW s \in Syncs, Got(s) PROVE BaseInv(syncs', pool', discord')
  <2>1. syncs[s].at = "got" /\ Received(s, syncs[s].got, syncs[s].blocked) /\ discord' = discord
    BY <1>4 DEF Got
  <2>2. Listed(syncs[s].got)
    BY <2>1 DEF BaseInv, Sound
  <2>3. syncs[s].at \in {"get", "got"}
    BY <2>1
  <2> QED BY <1>1, <2>1, <2>2, <2>3, ReceivedSound
<1>5. ASSUME NEW s \in Syncs, MissingAccess(s) PROVE BaseInv(syncs', pool', discord')
  <2> DEFINE known == << >>
             blocked == syncs[s].blocked \cup {Head(syncs[s].todo)}
  <2>1. syncs[s].at \in {"get", "got"} /\ Received(s, known, blocked) /\ discord' = discord
    BY <1>5 DEF MissingAccess
  <2>2. Listed(known)
    <3>1. known \in Seq({})
      BY EmptySeq
    <3> QED BY <3>1 DEF Listed
  <2> HIDE DEF known, blocked
  <2> QED BY <1>1, <2>1, <2>2, ReceivedSound
<1>6. ASSUME NEW s \in Syncs, Overwritten(s) PROVE BaseInv(syncs', pool', discord')
  <2> DEFINE h == syncs[s]
             c == [cmds |-> h.data, clean |-> TRUE]
  <2>1. h.at = "done" /\ pool' = [pool EXCEPT ![h.place] = c] /\ discord' = discord
        /\ Overwrite(s, h.todo, pool', h.blocked)
    BY <1>6 DEF Overwritten
  <2>2. h.todo \in Seq(Places) /\ h.place \in Places /\ Listed(h.data)
    BY <2>1 DEF BaseInv, Sound
  <2>3. c.cmds = h.data
    OBVIOUS
  <2> HIDE DEF c
  <2>4. BaseInv(syncs, pool', discord)
    BY <2>1, <2>2, <2>3 DEF BaseInv, PoolInv
  <2> QED BY <1>1, <2>1, <2>2, <2>4, OverwriteSound
<1>7. ASSUME NEW s \in Syncs, Refused(s) PROVE BaseInv(syncs', pool', discord')
  BY <1>1, <1>7, FinishSound DEF Refused, BaseInv
<1> QED BY <1>2, <1>3, <1>4, <1>5, <1>6, <1>7 DEF SyncStep, SyncFault

LEMMA SyncMoves ==
  ASSUME Inv, SyncInv, SyncStep \/ SyncFault
  PROVE  SyncInv'
<1>b. BaseInv(syncs', pool', discord')
  BY BaseMoves DEF SyncInv
<1> SUFFICES ASSUME ~overlapped', ~failed' PROVE AllInv(syncs', pool', discord', shut', loadedLate', coros', phase')
  BY <1>b DEF SyncInv
<1>1. AtInv(syncs) /\ \A p \in Places : Distinct(Wanted(coros, p))
  BY WantedIs DEF Inv
<1>2. ASSUME NEW s \in Syncs, ServeGet(s) PROVE AllInv(syncs', pool', discord', shut', loadedLate', coros', phase')
  <2>1. AllInv(syncs, pool, discord, shut, loadedLate, coros, phase)
    BY <1>2 DEF ServeGet, SyncInv
  <2> QED BY <1>1, <1>2, <2>1, ServeGetKeeps
<1>3. ASSUME NEW s \in Syncs, ServePut(s) PROVE AllInv(syncs', pool', discord', shut', loadedLate', coros', phase')
  <2>1. AllInv(syncs, pool, discord, shut, loadedLate, coros, phase)
    BY <1>3 DEF ServePut, Raise, SyncInv
  <2> QED BY <1>1, <1>3, <2>1, ServePutKeeps
<1>4. ASSUME NEW s \in Syncs, Got(s) PROVE AllInv(syncs', pool', discord', shut', loadedLate', coros', phase')
  <2>1. ~failed /\ ~overlapped
    BY <1>4 DEF Got, Received, Raise
  <2>2. AllInv(syncs, pool, discord, shut, loadedLate, coros, phase)
    BY <2>1 DEF SyncInv
  <2> QED BY <1>1, <1>4, <2>2, GotKeeps
<1>5. ASSUME NEW s \in Syncs, Overwritten(s) PROVE AllInv(syncs', pool', discord', shut', loadedLate', coros', phase')
  <2>1. AllInv(syncs, pool, discord, shut, loadedLate, coros, phase)
    BY <1>5 DEF Overwritten, SyncInv
  <2> QED BY <1>1, <1>5, <2>1, OverwrittenKeeps
<1>6. ASSUME NEW s \in Syncs, Refused(s) PROVE FALSE
  BY <1>6 DEF Refused, Raise
<1>7. ASSUME NEW s \in Syncs, MissingAccess(s) PROVE AllInv(syncs', pool', discord', shut', loadedLate', coros', phase')
  <2>1. ~failed /\ ~overlapped
    BY <1>7 DEF MissingAccess, Received, Raise
  <2>2. AllInv(syncs, pool, discord, shut, loadedLate, coros, phase)
    BY <2>1 DEF SyncInv
  <2> QED BY <1>1, <1>7, <2>2, MissingAccessKeeps
<1> QED BY <1>2, <1>3, <1>4, <1>5, <1>6, <1>7 DEF SyncStep, SyncFault

----------------------------------------------------------------------------
(* The steps of the extension *)

LEMMA Lengths ==
  ASSUME InstInv(insts, torn, class)
  PROVE  Len(insts) \in Nat /\ DOMAIN insts = 1..Len(insts)
BY LenProperties DEF InstInv

\* A new instance: its place in the sequence, its listener, its command.
LEMMA NewInstance ==
  ASSUME InstInv(insts, torn, class), insts' = Append(insts, Registers)
  PROVE  /\ insts' \in Seq(SUBSET Names) /\ Len(insts') = Len(insts) + 1 /\ DOMAIN insts' = 1..Len(insts) + 1
         /\ \A i \in 1..Len(insts) : insts'[i] = insts[i]
         /\ insts'[Len(insts) + 1] = Registers
<1>1. Registers \in SUBSET Names
  BY DEF Registers, Names
<1>2. insts \in Seq(SUBSET Names)
  BY DEF InstInv
<1>3. \A S : \A seq \in Seq(S), elt \in S :
        /\ Append(seq, elt) \in Seq(S) /\ Len(Append(seq, elt)) = Len(seq) + 1
        /\ \A k \in 1..Len(seq) : Append(seq, elt)[k] = seq[k]
        /\ Append(seq, elt)[Len(seq) + 1] = elt
  BY AppendProperties
<1> DEFINE J == Append(insts, Registers)
<1>4. /\ J \in Seq(SUBSET Names) /\ Len(J) = Len(insts) + 1
      /\ \A k \in 1..Len(insts) : J[k] = insts[k]
      /\ J[Len(insts) + 1] = Registers
  BY <1>1, <1>2, <1>3, Zenon
<1> HIDE DEF J
<1>5. DOMAIN J = 1..Len(insts) + 1
  BY <1>4, LenProperties
<1>6. insts' = J
  BY DEF J
<1> QED BY <1>4, <1>5, <1>6

LEMMA NewListens ==
  ASSUME ListenerInv(listeners, insts, torn), InstInv(insts, torn, class),
         insts' = Append(insts, Registers), listeners' = Append(listeners, Len(insts) + 1), torn' = torn
  PROVE  ListenerInv(listeners', insts', torn')
<1> DEFINE n == Len(insts)
           L == Append(listeners, n + 1)
           m == Len(listeners)
<1>1. n \in Nat /\ torn \subseteq 1..n /\ Len(insts') = n + 1
  BY Lengths, NewInstance DEF InstInv
<1>2. listeners \in Seq(Nat) /\ IsInjective(listeners) /\ Range(listeners) = (1..n) \ torn
      /\ m \in Nat /\ DOMAIN listeners = 1..m
  BY LenProperties DEF ListenerInv
<1> HIDE DEF n, m
<1>3. /\ L \in Seq(Nat) /\ Len(L) = m + 1 /\ L[m + 1] = n + 1
      /\ \A k \in 1..m : L[k] = listeners[k]
  BY <1>1, <1>2, AppendProperties DEF m
<1> HIDE DEF L
<1>4. DOMAIN L = 1..m + 1
  BY <1>3, LenProperties
<1>5. \A k \in 1..m : listeners[k] \in (1..n) \ torn
  BY <1>2 DEF Range
<1>6. IsInjective(L)
  <2> SUFFICES ASSUME NEW a \in 1..m + 1, NEW b \in 1..m + 1, L[a] = L[b] PROVE a = b
    BY <1>4 DEF IsInjective
  <2>1. CASE a \in 1..m /\ b \in 1..m
    BY <1>2, <1>3, <2>1 DEF IsInjective
  <2>2. CASE a = m + 1 /\ b # m + 1
    <3>1. b \in 1..m
      BY <1>2, <2>2
    <3> QED BY <1>1, <1>3, <1>5, <2>2, <3>1
  <2>3. CASE b = m + 1 /\ a # m + 1
    <3>1. a \in 1..m
      BY <1>2, <2>3
    <3> QED BY <1>1, <1>3, <1>5, <2>3, <3>1
  <2> QED BY <1>2, <2>1, <2>2, <2>3
<1>7. ASSUME NEW y \in Range(L) PROVE y \in (1..n + 1) \ torn
  <2>1. PICK k \in 1..m + 1 : y = L[k]
    BY <1>4 DEF Range
  <2>2. CASE k = m + 1
    BY <1>1, <1>3, <2>1, <2>2
  <2>3. CASE k \in 1..m
    BY <1>1, <1>3, <1>5, <2>1, <2>3
  <2> QED BY <1>2, <2>2, <2>3
<1>8. ASSUME NEW y \in (1..n + 1) \ torn PROVE y \in Range(L)
  <2>1. CASE y = n + 1
    <3>1. m + 1 \in DOMAIN L
      BY <1>2, <1>4
    <3> QED BY <1>3, <2>1, <3>1 DEF Range
  <2>2. CASE y # n + 1
    <3>1. y \in Range(listeners)
      BY <1>1, <1>2, <2>2
    <3>2. PICK k \in 1..m : y = listeners[k]
      BY <1>2, <3>1 DEF Range
    <3>3. k \in DOMAIN L /\ L[k] = y
      BY <1>2, <1>3, <1>4, <3>2
    <3> QED BY <3>3 DEF Range
  <2> QED BY <2>1, <2>2
<1>9. Range(L) = (1..n + 1) \ torn
  BY <1>7, <1>8
<1> QED BY <1>1, <1>3, <1>6, <1>9 DEF ListenerInv, L, n

\* Whose command is declared, when there is one instance more.
LEMMA NewOwner ==
  ASSUME OwnerInv(commands, coros, handlers, insts, torn), InstInv(insts, torn, class),
         insts' = Append(insts, Registers), torn' = torn, Resolve(Declared(Len(insts) + 1))
  PROVE  OwnerInv(commands', coros', handlers', insts', torn')
<1> DEFINE n == Len(insts)
<1>1. n \in Nat /\ torn \subseteq 1..n /\ DOMAIN insts = 1..n
  BY Lengths DEF InstInv
<1>2. DOMAIN insts' = 1..n + 1 /\ (\A i \in 1..n : insts'[i] = insts[i]) /\ insts'[n + 1] = Registers
  BY NewInstance
<1>3. CASE Bare(commands, coros, handlers) /\ NobodyHas(insts, torn)
  <2>1. commands = OwnOnly /\ Ext \notin NamesIn(commands)
    BY <1>3, NamesAre, CommandIs DEF Bare
  <2>2. Declared(n + 1) = WithExt(file, n + 1) /\ Registers = {Ext}
    BY <2>1, ListIs DEF Declared, Registers, ExtCommand
  <2>3. Resolve(WithExt(file, n + 1))
    BY <2>2
  <2>4. Extended(file, n + 1, commands', coros', handlers')
    <3> HIDE DEF n
    <3> QED BY <1>3, <2>3, ResolveNew
  <2> HIDE DEF n
  <2>5. OnlyHas(n + 1, insts', torn')
    <3>1. n + 1 \in DOMAIN insts' /\ n + 1 \notin torn' /\ Ext \in insts'[n + 1]
      BY <1>1, <1>2, <2>2
    <3>2. ASSUME NEW i \in DOMAIN insts', i # n + 1, Ext \in insts'[i] PROVE i \in torn'
      <4>1. i \in 1..n
        BY <1>1, <1>2, <3>2
      <4>2. Ext \in insts[i]
        BY <1>2, <3>2, <4>1
      <4> QED BY <1>1, <1>3, <4>1, <4>2 DEF NobodyHas
    <3> QED BY <3>1, <3>2 DEF OnlyHas
  <2> QED BY <2>4, <2>5 DEF OwnerInv
<1>4. CASE \E v, j : Extended(v, j, commands, coros, handlers) /\ OnlyHas(j, insts, torn)
  <2>1. PICK v, j : Extended(v, j, commands, coros, handlers) /\ OnlyHas(j, insts, torn)
    BY <1>4
  <2>2. commands = WithExt(v, j) /\ Ext \in NamesIn(commands)
    BY <2>1, NamesAre DEF Extended
  <2>3. Declared(n + 1) = WithExt(v, j) /\ Registers = {}
    BY <2>2 DEF Declared, Registers
  <2>4. Resolve(WithExt(v, j))
    BY <2>3
  <2>5. Extended(v, j, commands', coros', handlers')
    BY <2>1, <2>4, ResolveAgain
  <2> HIDE DEF n
  <2>6. OnlyHas(j, insts', torn')
    <3>1. j \in DOMAIN insts' /\ j \notin torn' /\ Ext \in insts'[j]
      BY <1>1, <1>2, <2>1 DEF OnlyHas
    <3>2. ASSUME NEW i \in DOMAIN insts', i # j, Ext \in insts'[i] PROVE i \in torn'
      <4>1. i \in 1..n
        BY <1>1, <1>2, <2>3, <3>2
      <4>2. Ext \in insts[i]
        BY <1>2, <3>2, <4>1
      <4> QED BY <1>1, <2>1, <3>2, <4>1, <4>2 DEF OnlyHas
    <3> QED BY <3>1, <3>2 DEF OnlyHas
  <2> QED BY <2>5, <2>6 DEF OwnerInv
<1> QED BY <1>3, <1>4 DEF OwnerInv

\* New, apart from the queue of teardowns, which its callers change.
LEMMA NewKeeps ==
  ASSUME Inv, New
  PROVE  /\ OwnerInv(commands', coros', handlers', insts', torn')
         /\ ListenerInv(listeners', insts', torn')
         /\ InstInv(insts', torn', class') /\ Len(insts') = Len(insts) + 1
         /\ AtInv(syncs') /\ ClientInv(phase', first', file', faults')
<1> DEFINE n == Len(insts)
<1>1. /\ OwnerInv(commands, coros, handlers, insts, torn) /\ ListenerInv(listeners, insts, torn)
      /\ InstInv(insts, torn, class) /\ AtInv(syncs) /\ ClientInv(phase, first, file, faults)
  BY DEF Inv
<1>2. /\ listeners' = Append(listeners, n + 1) /\ insts' = Append(insts, Registers) /\ class' = n + 1
      /\ Resolve(Declared(n + 1)) /\ torn' = torn /\ UNCHANGED <<phase, first, file, faults>>
      /\ (\E s \in Unused : Sync(s)) \/ syncs' = syncs
  BY DEF New
<1>3. OwnerInv(commands', coros', handlers', insts', torn')
  BY <1>1, <1>2, NewOwner
<1>4. ListenerInv(listeners', insts', torn')
  BY <1>1, <1>2, NewListens
<1>5. InstInv(insts', torn', class') /\ Len(insts') = n + 1
  <2>1. insts' \in Seq(SUBSET Names) /\ Len(insts') = n + 1
    BY <1>1, <1>2, NewInstance
  <2>2. n \in Nat /\ torn \subseteq 1..n
    BY <1>1, Lengths DEF InstInv
  <2> HIDE DEF n
  <2> QED BY <1>2, <2>1, <2>2 DEF InstInv
<1>6. AtInv(syncs')
  BY <1>1, <1>2, AtStarted
<1>7. ClientInv(phase', first', file', faults')
  BY <1>1, <1>2
<1> QED BY <1>3, <1>4, <1>5, <1>6, <1>7

\* The queue of teardowns, when one is requested.
LEMMA QueueRequested ==
  ASSUME QueueInv(teardowns, insts), InstInv(insts, torn, class), NEW sync \in BOOLEAN, Requested(sync)
  PROVE  QueueInv(teardowns', insts)
<1> DEFINE t == [inst |-> class, sync |-> sync]
<1>1. CASE class = 0
  BY <1>1 DEF Requested
<1>2. CASE class # 0
  <2>1. class \in 1..Len(insts) /\ Len(insts) \in Nat
    BY <1>2, Lengths DEF InstInv
  <2>2. t \in Teardowns /\ t.inst = class
    BY <2>1 DEF Teardowns
  <2>3. teardowns' = Append(teardowns, t)
    BY <1>2 DEF Requested
  <2>4. teardowns \in Seq(Teardowns) /\ \A k \in 1..Len(teardowns) : teardowns[k].inst \in 1..Len(insts)
    BY DEF QueueInv
  <2> HIDE DEF t
  <2> DEFINE q == Append(teardowns, t)
             m == Len(teardowns)
  <2>5. /\ m \in Nat /\ q \in Seq(Teardowns) /\ Len(q) = m + 1 /\ q[m + 1] = t
        /\ \A k \in 1..m : q[k] = teardowns[k]
    BY <2>2, <2>4, AppendProperties, LenProperties
  <2> HIDE DEF q, m
  <2>6. ASSUME NEW k \in 1..m + 1 PROVE q[k].inst \in 1..Len(insts)
    <3>1. CASE k = m + 1
      BY <2>1, <2>2, <2>5, <3>1
    <3>2. CASE k \in 1..m
      BY <2>4, <2>5, <3>2 DEF m
    <3> QED BY <2>5, <3>1, <3>2
  <2>7. QueueInv(q, insts)
    BY <2>5, <2>6 DEF QueueInv
  <2> QED BY <2>3, <2>7 DEF q
<1> QED BY <1>1, <1>2

LEMMA QueueTail ==
  ASSUME QueueInv(teardowns, insts), teardowns # << >>
  PROVE  Head(teardowns).inst \in 1..Len(insts) /\ QueueInv(Tail(teardowns), insts)
<1> DEFINE q == Tail(teardowns)
           m == Len(teardowns)
<1>1. teardowns \in Seq(Teardowns) /\ \A k \in 1..m : teardowns[k].inst \in 1..Len(insts)
  BY DEF QueueInv
<1>2. m \in Nat /\ m # 0
  BY <1>1, LenProperties, EmptySeq
<1>3. Head(teardowns) = teardowns[1]
  BY <1>1, HeadTailProperties
<1>4. q \in Seq(Teardowns) /\ Len(q) = m - 1 /\ \A k \in 1..m - 1 : q[k] = teardowns[k + 1]
  BY <1>1, HeadTailProperties
<1> HIDE DEF q, m
<1>5. 1 \in 1..m /\ \A k \in 1..m - 1 : k + 1 \in 1..m
  BY <1>2
<1>6. QueueInv(q, insts)
  BY <1>1, <1>4, <1>5 DEF QueueInv
<1> QED BY <1>1, <1>3, <1>5, <1>6 DEF q

\* The instances stay in the sequence.
LEMMA QueueGrows ==
  ASSUME NEW q, QueueInv(q, insts), Len(insts) \in Nat, Len(insts') = Len(insts) + 1
  PROVE  QueueInv(q, insts')
<1>1. \A x \in 1..Len(insts) : x \in 1..Len(insts')
  OBVIOUS
<1> QED BY <1>1 DEF QueueInv

\* A teardown that has not run yet.
LEMMA TearDownKeeps ==
  ASSUME Inv, NEW t, t.inst \in 1..Len(insts), TearDown(t), UNCHANGED <<insts, class>>
  PROVE  /\ OwnerInv(commands', coros', handlers', insts', torn')
         /\ ListenerInv(listeners', insts', torn')
         /\ InstInv(insts', torn', class') /\ AtInv(syncs')
<1> DEFINE i == t.inst
<1>1. /\ OwnerInv(commands, coros, handlers, insts, torn) /\ ListenerInv(listeners, insts, torn)
      /\ InstInv(insts, torn, class) /\ AtInv(syncs)
  BY DEF Inv
<1>2. CASE i \in torn
  <2>1. UNCHANGED <<commands, coros, handlers, listeners, torn, syncs>>
    BY <1>2 DEF TearDown
  <2> QED BY <1>1, <2>1
<1>3. CASE i \notin torn
  <2>1. /\ listeners' = RemoveFirst(listeners, i) /\ torn' = torn \cup {i}
        /\ commands' = IF Ext \in insts[i] THEN DropNamed(commands, Ext) ELSE commands
        /\ coros' = IF Ext \in insts[i] THEN DropNamed(coros, Ext) ELSE coros
        /\ handlers' = IF Ext \in insts[i] /\ handlers[Ext] # << >>
                       THEN [handlers EXCEPT ![Ext] = Tail(@)] ELSE handlers
        /\ (\E s \in Unused : Sync(s)) \/ syncs' = syncs
    BY <1>3 DEF TearDown
  <2> HIDE DEF i
  <2>2. i \in 1..Len(insts) /\ DOMAIN insts = 1..Len(insts) /\ torn \subseteq 1..Len(insts) /\ insts' = insts
    BY <1>1, Lengths DEF InstInv, i
  <2>3. ListenerInv(listeners', insts', torn')
    <3>1. /\ listeners \in Seq(Nat) /\ IsInjective(listeners)
          /\ Range(listeners) = (1..Len(insts)) \ torn /\ i \in Range(listeners)
      BY <1>1, <1>3, <2>2 DEF ListenerInv
    <3>2. /\ RemoveFirst(listeners, i) \in Seq(Nat) /\ IsInjective(RemoveFirst(listeners, i))
          /\ Range(RemoveFirst(listeners, i)) = Range(listeners) \ {i}
      BY <3>1, RemoveFirstIs
    <3>3. Range(RemoveFirst(listeners, i)) = (1..Len(insts)) \ torn'
      BY <2>1, <3>1, <3>2
    <3> QED BY <2>1, <2>2, <3>2, <3>3 DEF ListenerInv
  <2>4. InstInv(insts', torn', class')
    BY <1>1, <2>1, <2>2 DEF InstInv
  <2>5. AtInv(syncs')
    BY <1>1, <2>1, AtStarted
  <2>6. OwnerInv(commands', coros', handlers', insts', torn')
    <3>1. CASE Ext \notin insts[i]
      <4>1. UNCHANGED <<commands, coros, handlers>>
        BY <2>1, <3>1
      <4>2. CASE Bare(commands, coros, handlers) /\ NobodyHas(insts, torn)
        <5>1. NobodyHas(insts', torn')
          BY <2>1, <2>2, <4>2 DEF NobodyHas
        <5> QED BY <4>1, <4>2, <5>1 DEF OwnerInv
      <4>3. CASE \E v, j : Extended(v, j, commands, coros, handlers) /\ OnlyHas(j, insts, torn)
        <5>1. PICK v, j : Extended(v, j, commands, coros, handlers) /\ OnlyHas(j, insts, torn)
          BY <4>3
        <5>2. OnlyHas(j, insts', torn')
          BY <2>1, <2>2, <3>1, <5>1 DEF OnlyHas
        <5>3. Extended(v, j, commands', coros', handlers')
          BY <4>1, <5>1
        <5> QED BY <5>2, <5>3 DEF OwnerInv
      <4> QED BY <1>1, <4>2, <4>3 DEF OwnerInv
    <3>2. CASE Ext \in insts[i]
      <4>1. PICK v, j : Extended(v, j, commands, coros, handlers) /\ OnlyHas(j, insts, torn)
        BY <1>1, <1>3, <2>2, <3>2 DEF OwnerInv, NobodyHas
      <4>2. i = j
        BY <1>3, <2>2, <3>2, <4>1 DEF OnlyHas
      <4>3. NobodyHas(insts', torn')
        BY <2>1, <2>2, <4>1, <4>2 DEF NobodyHas, OnlyHas
      <4>4. commands' = OwnOnly
        BY <2>1, <3>2, <4>1, DropIs DEF Extended
      <4>5. coros' = OwnOnly
        BY <2>1, <3>2, <4>1, DropIs DEF Extended
      <4>6. handlers' = OwnHandler
        <5>1. Ext \in Names /\ Own # Ext
          BY CommandIs DEF Names
        <5>2. CASE handlers = OwnHandler
          <6>1. handlers[Ext] = << >>
            BY <5>1, <5>2 DEF OwnHandler
          <6> QED BY <2>1, <5>2, <6>1
        <5>3. CASE handlers = BothHandlers(j)
          <6>1. handlers[Ext] = <<j>> /\ <<j>> # << >> /\ Tail(<<j>>) = << >>
            BY <5>1, <5>3 DEF BothHandlers
          <6> DEFINE e == << >>
                     o == <<0>>
                     y == <<j>>
          <6>2. handlers' = [handlers EXCEPT ![Ext] = e]
            BY <2>1, <3>2, <6>1
          <6>3. handlers = [n \in Names |-> IF n = Own THEN o ELSE y]
                /\ OwnHandler = [n \in Names |-> IF n = Own THEN o ELSE e]
            BY <5>3 DEF BothHandlers, OwnHandler
          <6> HIDE DEF e, o, y
          <6>4. \A n \in Names : n # Own => n = Ext
            BY DEF Names
          <6>5. handlers' = [n \in Names |-> IF n = Ext THEN e ELSE IF n = Own THEN o ELSE y]
            BY <6>2, <6>3
          <6>6. handlers' = [n \in Names |-> IF n = Own THEN o ELSE e]
            BY <5>1, <6>4, <6>5
          <6> QED BY <6>3, <6>6
        <5> QED BY <4>1, <5>2, <5>3 DEF Extended
      <4> QED BY <4>3, <4>4, <4>5, <4>6 DEF OwnerInv, Bare
    <3> QED BY <3>1, <3>2
  <2> QED BY <2>3, <2>4, <2>5, <2>6
<1> QED BY <1>2, <1>3

----------------------------------------------------------------------------
(* The invariant is inductive *)

LEMMA InitInv == ASSUME Init PROVE Inv
<1>1. OwnerInv(commands, coros, handlers, insts, torn)
  <2>1. commands = OwnOnly /\ coros = << >> /\ handlers = NoHandler
    BY DEF Init, RegistryInit, OwnOnly, OwnCommand, NoHandler
  <2>2. NobodyHas(insts, torn)
    BY DEF Init, NobodyHas
  <2> QED BY <2>1, <2>2 DEF OwnerInv, Bare
<1>2. ListenerInv(listeners, insts, torn)
  <2>1. listeners = << >> /\ insts = << >> /\ torn = {}
    BY DEF Init
  <2>2. << >> \in Seq(Nat) /\ DOMAIN << >> = {} /\ Len(<< >>) = 0
    OBVIOUS
  <2>3. IsInjective(<< >>) /\ Range(<< >>) = {}
    BY <2>2 DEF IsInjective, Range
  <2> QED BY <2>1, <2>2, <2>3 DEF ListenerInv
<1>3. InstInv(insts, torn, class) /\ QueueInv(teardowns, insts)
  BY DEF Init, InstInv, QueueInv
<1>4. AtInv(syncs)
  BY DEF Init, SyncInit, AtInv, Ats
<1>5. ClientInv(phase, first, file, faults)
  BY ExtensionsAssumption, SyncAssumption DEF Init, SyncInit, ClientInv
<1> QED BY <1>1, <1>2, <1>3, <1>4, <1>5 DEF Inv

\* What a step leaves alone keeps what is said of it.
LEMMA Untouched ==
  ASSUME Inv, UNCHANGED <<commands, coros, handlers, insts, torn, listeners>>
  PROVE  OwnerInv(commands', coros', handlers', insts', torn') /\ ListenerInv(listeners', insts', torn')
BY DEF Inv

LEMMA ReadyKeeps == ASSUME Inv, Ready PROVE Inv'
<1>1. /\ Resolve(commands) /\ phase' \in {"starting", "ended"} /\ first' \in Syncs \cup {first}
      /\ (\E s \in Unused : Sync(s)) \/ syncs' = syncs
      /\ UNCHANGED <<faults, file, class, insts, torn, teardowns, listeners>>
  BY DEF Ready, instances, Unused
<1>2. OwnerInv(commands', coros', handlers', insts', torn')
  <2>1. CASE Bare(commands, coros, handlers) /\ NobodyHas(insts, torn)
    <3>1. Resolve(OwnOnly)
      BY <1>1, <2>1 DEF Bare
    <3>2. Bare(commands', coros', handlers')
      BY <2>1, <3>1, ResolveBare
    <3> QED BY <1>1, <2>1, <3>2 DEF OwnerInv
  <2>2. CASE \E v, j : Extended(v, j, commands, coros, handlers) /\ OnlyHas(j, insts, torn)
    <3>1. PICK v, j : Extended(v, j, commands, coros, handlers) /\ OnlyHas(j, insts, torn)
      BY <2>2
    <3>2. Resolve(WithExt(v, j))
      BY <1>1, <3>1 DEF Extended
    <3>3. Extended(v, j, commands', coros', handlers')
      BY <3>1, <3>2, ResolveAgain
    <3> QED BY <1>1, <3>1, <3>3 DEF OwnerInv
  <2> QED BY <2>1, <2>2 DEF Inv, OwnerInv
<1>3. AtInv(syncs')
  BY <1>1, AtStarted DEF Inv
<1>4. ListenerInv(listeners', insts', torn') /\ InstInv(insts', torn', class') /\ QueueInv(teardowns', insts')
  BY <1>1 DEF Inv
<1>5. ClientInv(phase', first', file', faults')
  <2>1. Syncs \subseteq 0..MaxSyncs
    BY SyncAssumption DEF Syncs
  <2> QED BY <1>1, <2>1 DEF Inv, ClientInv
<1> QED BY <1>2, <1>3, <1>4, <1>5 DEF Inv

LEMMA Keeps == ASSUME Inv, [Next]_vars PROVE Inv'
<1>0. /\ OwnerInv(commands, coros, handlers, insts, torn) /\ ListenerInv(listeners, insts, torn)
      /\ InstInv(insts, torn, class) /\ QueueInv(teardowns, insts) /\ AtInv(syncs)
      /\ ClientInv(phase, first, file, faults) /\ Len(insts) \in Nat
  BY Lengths DEF Inv
<1>1. CASE (SyncStep \/ SyncFault) /\ UNCHANGED extension
  <2>1. AtInv(syncs') /\ faults' \in 0..MaxFaults /\ UNCHANGED <<commands, coros, handlers>>
    BY <1>0, <1>1, SyncSteps DEF ClientInv
  <2>2. UNCHANGED <<phase, first, file, class, insts, torn, teardowns, listeners>>
    BY <1>1 DEF extension, instances
  <2>3. InstInv(insts', torn', class') /\ QueueInv(teardowns', insts')
    BY <1>0, <2>2
  <2>4. ClientInv(phase', first', file', faults')
    BY <1>0, <2>1, <2>2 DEF ClientInv
  <2> QED BY <2>1, <2>2, <2>3, <2>4, Untouched DEF Inv
<1>2. CASE Ready
  BY <1>2, ReadyKeeps
<1>3. CASE Login
  <2>1. /\ UNCHANGED <<commands, coros, handlers, syncs, faults, first, file, class, insts, torn, teardowns, listeners>>
        /\ phase' \in {"ended", "ready"}
    BY <1>3 DEF Login, registry, syncVars, instances
  <2>2. ClientInv(phase', first', file', faults')
    BY <1>0, <2>1 DEF ClientInv
  <2>3. InstInv(insts', torn', class') /\ QueueInv(teardowns', insts') /\ AtInv(syncs')
    BY <1>0, <2>1
  <2> QED BY <2>1, <2>2, <2>3, Untouched DEF Inv
<1>4. CASE teardown
  <2> DEFINE t == Head(teardowns)
  <2>1. /\ teardowns # << >> /\ teardowns' = Tail(teardowns) /\ TearDown(t)
        /\ UNCHANGED <<faults, phase, first, file, class, insts>>
    BY <1>4 DEF teardown
  <2>2. t.inst \in 1..Len(insts) /\ QueueInv(teardowns', insts')
    BY <1>0, <2>1, QueueTail
  <2> HIDE DEF t
  <2>3. /\ OwnerInv(commands', coros', handlers', insts', torn')
        /\ ListenerInv(listeners', insts', torn')
        /\ InstInv(insts', torn', class') /\ AtInv(syncs')
    BY <2>1, <2>2, TearDownKeeps
  <2>4. ClientInv(phase', first', file', faults')
    BY <1>0, <2>1
  <2> QED BY <2>2, <2>3, <2>4 DEF Inv
<1>5. CASE load
  <2>1. New /\ teardowns' = teardowns
    BY <1>5 DEF load
  <2>2. QueueInv(teardowns', insts')
    <3>1. QueueInv(teardowns, insts')
      BY <1>0, <2>1, NewKeeps, QueueGrows
    <3> QED BY <2>1, <3>1
  <2> QED BY <2>1, <2>2, NewKeeps DEF Inv
<1>6. CASE reload
  <2>1. PICK b \in BOOLEAN : Requested(b) /\ New
    BY <1>6 DEF reload
  <2>2. QueueInv(teardowns', insts)
    BY <1>0, <2>1, QueueRequested
  <2>3. QueueInv(teardowns', insts')
    BY <1>0, <2>1, <2>2, NewKeeps, QueueGrows
  <2> QED BY <2>1, <2>3, NewKeeps DEF Inv
<1>7. CASE remove \/ remove_instance
  <2>1. PICK b \in BOOLEAN :
          /\ Requested(b) /\ class' \in {class, 0}
          /\ UNCHANGED <<commands, coros, handlers, syncs, faults, phase, first, file, insts, torn, listeners>>
    BY <1>7 DEF remove, remove_instance, registry, syncVars
  <2>2. QueueInv(teardowns', insts)
    BY <1>0, <2>1, QueueRequested
  <2>3. QueueInv(teardowns', insts')
    BY <2>1, <2>2
  <2>4. InstInv(insts', torn', class')
    BY <1>0, <2>1 DEF InstInv
  <2>5. AtInv(syncs') /\ ClientInv(phase', first', file', faults')
    BY <1>0, <2>1
  <2> QED BY <2>1, <2>3, <2>4, <2>5, Untouched DEF Inv
<1>8. CASE Edit
  <2>1. /\ UNCHANGED <<commands, coros, handlers, syncs, faults, phase, first, class, insts, torn, teardowns, listeners>>
        /\ file' \in Versions
    BY <1>8 DEF Edit, registry, syncVars, instances
  <2>2. ClientInv(phase', first', file', faults')
    BY <1>0, <2>1 DEF ClientInv
  <2>3. InstInv(insts', torn', class') /\ QueueInv(teardowns', insts') /\ AtInv(syncs')
    BY <1>0, <2>1
  <2> QED BY <2>1, <2>2, <2>3, Untouched DEF Inv
<1>9. CASE UNCHANGED vars
  <2>1. UNCHANGED <<commands, coros, handlers, syncs, faults, phase, first, file, class, insts, torn, teardowns, listeners>>
    BY <1>9 DEF vars, registry, syncVars, extension, instances
  <2>2. InstInv(insts', torn', class') /\ QueueInv(teardowns', insts') /\ AtInv(syncs') /\ ClientInv(phase', first', file', faults')
    BY <1>0, <2>1
  <2> QED BY <2>1, <2>2, Untouched DEF Inv
<1> QED BY <1>1, <1>2, <1>3, <1>4, <1>5, <1>6, <1>7, <1>8, <1>9 DEF Next, Run, User

THEOREM Invariance == Spec => []Inv
<1>1. Init => Inv
  BY InitInv
<1>2. Inv /\ [Next]_vars => Inv'
  BY Keeps
<1> QED BY <1>1, <1>2, PTL DEF Spec

----------------------------------------------------------------------------
(* What follows *)

\* The types: whatever is loaded, removed and refused, a teardown is of an instance that
\* there is, and no more requests are refused than admitted.
THEOREM TypeCorrect == Spec => []TypeOK
<1>1. Inv => TypeOK
  <2> SUFFICES ASSUME Inv PROVE TypeOK
    OBVIOUS
  <2>1. QueueInv(teardowns, insts) /\ DOMAIN insts = 1..Len(insts) /\ InstInv(insts, torn, class)
    BY Lengths DEF Inv
  <2>2. \A k \in DOMAIN teardowns : teardowns[k].inst \in DOMAIN insts
    BY <2>1, LenProperties DEF QueueInv
  <2> QED BY <2>1, <2>2 DEF Inv, InstInv, AtInv, Ats, ClientInv, TypeOK
<1> QED BY <1>1, Invariance, PTL

\* __command_coroutines, the handlers and _commands agree, and the listeners are those of
\* the instances that are not torn down: for any number of loads, reloads and removals, in
\* whatever order their teardowns run, and whichever of them raise (client/bot.py).
THEOREM RegistriesAgree == Spec => []RegistryAgrees
<1>1. Inv => RegistryAgrees
  <2> SUFFICES ASSUME Inv PROVE RegistryAgrees
    OBVIOUS
  <2>1. Range(listeners) = (1..Len(insts)) \ torn /\ IsInjective(listeners)
    BY DEF Inv, ListenerInv
  <2>2. 0 \notin torn
    BY Lengths DEF Inv, InstInv
  <2>3. Own \in Names /\ Ext \in Names /\ Own # Ext /\ \A n \in Names : n = Own \/ n = Ext
    BY CommandIs DEF Names
  <2>4. CASE coros = << >> /\ handlers = NoHandler
    <3>1. DOMAIN coros = {} /\ Range(coros) = {} /\ NamesIn(coros) = {}
      BY <2>4, NamesAre DEF Range
    <3>2. \A n \in Names : handlers[n] = << >>
      BY <2>4 DEF NoHandler
    <3> QED BY <2>1, <3>1, <3>2 DEF RegistryAgrees
  <2>5. CASE coros = OwnOnly /\ handlers = OwnHandler /\ OwnCommand \in Range(commands)
    <3>1. DOMAIN coros = {1} /\ coros[1] = OwnCommand /\ Range(coros) = {OwnCommand} /\ NamesIn(coros) = {Own}
      BY <2>5, ListIs, NamesAre
    <3>2. OwnCommand.name = Own /\ OwnCommand.inst = 0
      BY CommandIs
    <3>3. handlers[Own] = <<0>> /\ handlers[Ext] = << >>
      BY <2>3, <2>5 DEF OwnHandler
    <3>4. \A n \in Names \ NamesIn(coros) : handlers[n] = << >>
      BY <2>3, <3>1, <3>3
    <3>5. \A i \in DOMAIN coros : handlers[coros[i].name] = <<coros[i].inst>> /\ coros[i].inst \notin torn
      BY <2>2, <3>1, <3>2, <3>3
    <3>6. \A i, j \in DOMAIN coros : coros[i].name = coros[j].name => i = j
      BY <3>1
    <3> QED BY <2>1, <2>5, <3>1, <3>4, <3>5, <3>6 DEF RegistryAgrees
  <2>6. ASSUME NEW v, NEW j, coros = WithExt(v, j), handlers = BothHandlers(j), commands = coros, j \notin torn
        PROVE  RegistryAgrees
    <3>1. DOMAIN coros = {1, 2} /\ coros[1] = OwnCommand /\ coros[2] = ExtCommand(v, j) /\ NamesIn(coros) = {Own, Ext}
      BY <2>6, ListIs, NamesAre
    <3>2. /\ OwnCommand.name = Own /\ OwnCommand.inst = 0
          /\ ExtCommand(v, j).name = Ext /\ ExtCommand(v, j).inst = j
      BY CommandIs
    <3>3. handlers[Own] = <<0>> /\ handlers[Ext] = <<j>>
      BY <2>3, <2>6 DEF BothHandlers
    <3>4. \A n \in Names \ NamesIn(coros) : handlers[n] = << >>
      BY <2>3, <3>1
    <3>5. \A i \in DOMAIN coros : handlers[coros[i].name] = <<coros[i].inst>> /\ coros[i].inst \notin torn
      BY <2>2, <2>6, <3>1, <3>2, <3>3
    <3>6. \A i, k \in DOMAIN coros : coros[i].name = coros[k].name => i = k
      BY <2>3, <3>1, <3>2
    <3> QED BY <2>1, <2>6, <3>4, <3>5, <3>6 DEF RegistryAgrees
  <2>7. CASE Bare(commands, coros, handlers)
    BY <2>4, <2>5, <2>7, ListIs DEF Bare
  <2>8. CASE \E v, j : Extended(v, j, commands, coros, handlers) /\ OnlyHas(j, insts, torn)
    <3>1. PICK v, j : Extended(v, j, commands, coros, handlers) /\ OnlyHas(j, insts, torn)
      BY <2>8
    <3>2. OwnCommand \in Range(commands)
      BY <3>1, ListIs DEF Extended
    <3> QED BY <2>5, <2>6, <3>1, <3>2 DEF Extended, OnlyHas
  <2> QED BY <2>7, <2>8 DEF Inv, OwnerInv
<1> QED BY <1>1, Invariance, PTL

LEMMA SyncInit0 == ASSUME Init PROVE SyncInv
<1>1. discord \in [Places -> Existing] /\ pool = [p \in Places |-> [cmds |-> << >>, clean |-> TRUE]] /\ phase = "off"
  BY DEF Init, SyncInit
<1>2. \A s \in Syncs : syncs[s].at = "idle"
  BY DEF Init, SyncInit
<1>3. DiscordInv(discord)
  BY <1>1, SyncAssumption DEF DiscordInv, Distinct
<1>4. PoolInv(pool)
  BY <1>1 DEF PoolInv
<1>5. \A s \in Syncs : Underway(syncs[s], pool, discord, shut, loadedLate, coros)
  BY <1>2 DEF Underway
<1>6. SoleInv(syncs, pool, discord, shut, loadedLate, coros, phase)
  BY <1>1, <1>2, <1>5 DEF SoleInv
<1>7. BaseInv(syncs, pool, discord)
  <2>1. Listed(<< >>)
    <3>1. << >> \in Seq({})
      OBVIOUS
    <3> QED BY <3>1 DEF Listed
  <2>2. \A p \in Places : Listed(pool[p].cmds)
    BY <1>1, <2>1
  <2>3. \A s \in Syncs : Sound(syncs[s])
    BY <1>2 DEF Sound
  <2> QED BY <1>3, <1>4, <2>2, <2>3 DEF BaseInv
<1> QED BY <1>3, <1>4, <1>6, <1>7 DEF AllInv, SyncInv

LEMMA NewSyncs == ASSUME Inv, SyncInv, New PROVE SyncInv'
<1>1. /\ UNCHANGED <<pool, discord, shut, phase>> /\ loadedLate' = (loadedLate \/ coros' # coros)
      /\ (\E s \in Unused : Sync(s)) \/ UNCHANGED <<syncs, overlapped, failed>>
  BY DEF New, Resolve
<1>2. CASE \E s \in Unused : Sync(s)
  BY <1>1, <1>2, SyncStarts DEF Inv
<1>3. CASE UNCHANGED <<syncs, overlapped, failed>>
  BY <1>1, <1>3, SyncRests
<1> QED BY <1>1, <1>2, <1>3

LEMMA SyncKeeps == ASSUME Inv, SyncInv, [Next]_vars PROVE SyncInv'
<1>1. CASE (SyncStep \/ SyncFault) /\ UNCHANGED extension
  BY <1>1, SyncMoves
<1>2. CASE Ready
  <2>1. UNCHANGED <<pool, discord, shut>> /\ loadedLate' = (loadedLate \/ coros' # coros)
        /\ \/ \E s \in Unused : Sync(s)
           \/ phase' = "ended" /\ UNCHANGED <<syncs, overlapped, failed>>
    BY <1>2 DEF Ready, Resolve
  <2>2. CASE \E s \in Unused : Sync(s)
    BY <2>1, <2>2, SyncStarts DEF Inv
  <2>3. CASE phase' = "ended" /\ UNCHANGED <<syncs, overlapped, failed>>
    BY <2>1, <2>3, SyncRests
  <2> QED BY <2>1, <2>2, <2>3
<1>3. CASE Login
  <2>1. phase = "starting" /\ UNCHANGED <<syncs, pool, discord, shut, failed, overlapped, loadedLate, coros>>
    BY <1>3 DEF Login, registry, syncVars
  <2> QED BY <2>1, SyncRests
<1>4. CASE teardown
  <2> DEFINE t == Head(teardowns)
  <2>1. TearDown(t) /\ UNCHANGED <<pool, discord, shut, phase>>
    BY <1>4 DEF teardown
  <2> HIDE DEF t
  <2>2. CASE \E s \in Unused : Sync(s)
    BY <2>1, <2>2, SyncStarts DEF Inv
  <2>3. CASE UNCHANGED <<syncs, overlapped, failed>>
    <3>1. UNCHANGED <<loadedLate, coros>> \/ loadedLate' = (loadedLate \/ coros' # coros)
      BY <2>1 DEF TearDown
    <3>2. loadedLate' \/ (~loadedLate /\ coros' = coros)
      <4>1. CASE UNCHANGED <<loadedLate, coros>>
        BY <4>1
      <4>2. CASE loadedLate' = (loadedLate \/ coros' # coros)
        BY <4>2
      <4> QED BY <3>1, <4>1, <4>2
    <3>3. phase' \in {"starting", "ready"} => phase \in {"starting", "ready"}
      BY <2>1
    <3>4. UNCHANGED <<syncs, pool, discord, shut, failed, overlapped>>
      BY <2>1, <2>3
    <3> QED BY <3>2, <3>3, <3>4, SyncRests
  <2> QED BY <2>1, <2>2, <2>3 DEF TearDown
<1>5. CASE load \/ reload
  BY <1>5, NewSyncs DEF load, reload
<1>6. CASE remove \/ remove_instance \/ Edit \/ UNCHANGED vars
  <2>1. UNCHANGED <<syncs, pool, discord, shut, failed, overlapped, loadedLate, coros, phase>>
    BY <1>6 DEF remove, remove_instance, Edit, registry, syncVars, vars, extension, instances
  <2> QED BY <2>1, SyncRests
<1> QED BY <1>1, <1>2, <1>3, <1>4, <1>5, <1>6 DEF Next, Run, User

\* At rest, Discord has in every place the commands that are registered for it, in their
\* versions and no other, if the last synchronisation overlapped none, has not raised, and
\* followed the last change of what is registered (Client.__sync, client/bot.py): for any
\* guilds and scopes, any commands that Discord has had, whatever those before it have left
\* in the client's lists and at Discord, overlapping or failing, and whichever guilds are closed.
THEOREM SyncedAtRest == Spec => []Synced
<1>1. Init => Inv /\ SyncInv
  BY InitInv, SyncInit0
<1>2. Inv /\ SyncInv /\ [Next]_vars => (Inv /\ SyncInv)'
  BY Keeps, SyncKeeps
<1>3. Inv /\ SyncInv => Synced
  <2> SUFFICES ASSUME SyncInv, Rest, ~overlapped, ~failed, ~loadedLate, NEW p \in Places \ shut
               PROVE  discord[p] = Registered(p)
    BY DEF Synced
  <2>1. SoleInv(syncs, pool, discord, shut, loadedLate, coros, phase)
    BY DEF SyncInv, AllInv
  <2>2. phase = "ready" /\ \A s \in Syncs : syncs[s].at = "idle"
    BY DEF Rest, Running
  <2>3. discord[p] = Wanted(coros, p)
    BY <2>1, <2>2 DEF SoleInv, Settled
  <2> QED BY <2>3 DEF Registered, Wanted, Of, In
<1> QED BY <1>1, <1>2, <1>3, PTL DEF Spec
=============================================================================
