---------------------------- MODULE PagingProofs ----------------------------
(***************************************************************************)
(* What is claimed of the methods that read page by page, proved of Paging *)
(* for any numbers of objects, sizes of pages, maxima, checks and changes. *)
(***************************************************************************)
EXTENDS Paging, FiniteSetTheorems, TLAPS

----------------------------------------------------------------------------
(* A page *)

\* The direction in which a method reads is an order of the ids.
LEMMA Order ==
  \A x, y, z \in Int : /\ ~Beyond(x, x) /\ ~(Beyond(x, y) /\ Beyond(y, x))
                       /\ Beyond(x, y) \/ Beyond(y, x) \/ x = y
                       /\ Beyond(x, y) /\ Beyond(y, z) => Beyond(x, z)
BY DEF Beyond

LEMMA IdsInt == Ids \subseteq Int
BY PagingAssumption DEF Ids

\* How many of some objects come before one.
Rank(S, x) == Cardinality({y \in S : Beyond(x, y)})

LEMMA RankIs ==
  ASSUME NEW S \in SUBSET Ids, IsFiniteSet(S), NEW x \in S
  PROVE  Rank(S, x) \in 0..Cardinality(S) - 1 /\ Cardinality(S) \in Nat
<1> DEFINE B == {y \in S : Beyond(x, y)}
<1>1. x \notin B /\ B \subseteq S \ {x}
  BY Order, IdsInt
<1>2. IsFiniteSet(S \ {x}) /\ Cardinality(S \ {x}) = Cardinality(S) - 1 /\ Cardinality(S) \in Nat
  BY FS_RemoveElement, FS_CardinalityType
<1> HIDE DEF B
<1>3. Cardinality(B) <= Cardinality(S) - 1 /\ Cardinality(B) \in Nat
  BY <1>1, <1>2, FS_Subset, FS_CardinalityType
<1> QED BY <1>2, <1>3 DEF Rank, B

LEMMA RankRises ==
  ASSUME NEW S \in SUBSET Ids, IsFiniteSet(S), NEW x \in S, NEW y \in S, Beyond(x, y)
  PROVE  Rank(S, y) < Rank(S, x)
<1> DEFINE B == {z \in S : Beyond(y, z)}
           C == {z \in S : Beyond(x, z)}
<1>1. y \notin B /\ B \cup {y} \subseteq C /\ C \subseteq S
  <2>1. y \notin B
    BY Order, IdsInt
  <2>2. \A z \in B : Beyond(x, z)
    BY Order, IdsInt
  <2> QED BY <2>1, <2>2
<1> HIDE DEF B, C
<1>2. IsFiniteSet(C) /\ IsFiniteSet(B) /\ Cardinality(B) \in Nat /\ Cardinality(C) \in Nat
  BY <1>1, FS_Subset, FS_CardinalityType
<1>3. Cardinality(B \cup {y}) = Cardinality(B) + 1
  BY <1>1, <1>2, FS_AddElement
<1>4. Cardinality(B \cup {y}) <= Cardinality(C)
  BY <1>1, <1>2, FS_Subset
<1> QED BY <1>2, <1>3, <1>4 DEF Rank, B, C

\* Every place in the order of finitely many objects is taken, by one.
LEMMA RankTaken ==
  ASSUME NEW S \in SUBSET Ids, IsFiniteSet(S), NEW k \in 0..Cardinality(S) - 1
  PROVE  \E x \in S : Rank(S, x) = k
<1> DEFINE n == Cardinality(S)
           f == [x \in S |-> Rank(S, x)]
<1>1. n \in Nat /\ f \in [S -> 0..n - 1]
  BY RankIs, FS_CardinalityType
<1>2. ASSUME NEW x \in S, NEW y \in S, f[x] = f[y] PROVE x = y
  <2>1. Beyond(x, y) \/ Beyond(y, x) \/ x = y
    BY Order, IdsInt
  <2>2. f[x] \in Nat /\ f[y] \in Nat
    BY <1>1
  <2> QED BY <1>2, <2>1, <2>2, RankRises
<1>3. f \in Injection(S, 0..n - 1)
  BY <1>1, <1>2 DEF Injection, IsInjective
<1>4. IsFiniteSet(0..n - 1) /\ Cardinality(0..n - 1) = n
  BY <1>1, FS_Interval
<1> HIDE DEF f
<1>5. f \in Surjection(S, 0..n - 1)
  BY <1>3, <1>4, FS_Injection
<1> QED BY <1>5 DEF Surjection, f

\* A page leaves nothing out between the edge and its last object, or the end of the list.
Gapless(page, limit) == \A x \in list :
  Beyond(x, edge) /\ (Len(page) < limit \/ ~Beyond(x, page[Len(page)])) => \E i \in 1..Len(page) : page[i] = x

\* The answer to a request: objects beyond the edge, in order and without gaps; all of them if
\* there are fewer than were asked for.
LEMMA Paged ==
  ASSUME NEW limit \in Nat \ {0}, list \subseteq Ids, NEW page, page = Page(limit)
  PROVE  /\ page \in Seq(Ids) /\ Len(page) <= limit
         /\ \A i \in 1..Len(page) : page[i] \in list /\ Beyond(page[i], edge)
         /\ \A i, j \in 1..Len(page) : i < j => Beyond(page[j], page[i])
         /\ Gapless(page, limit)
<1> DEFINE S == {x \in list : Beyond(x, edge)}
           n == Cardinality(S)
           m == Least(limit, n)
<1>1. S \subseteq Ids /\ IsFiniteSet(S) /\ n \in Nat
  <2>1. IsFiniteSet(Ids)
    BY PagingAssumption, FS_Interval DEF Ids
  <2> QED BY <2>1, FS_Subset, FS_CardinalityType
<1>2. page = [i \in 1..m |-> CHOOSE x \in S : Rank(S, x) = i - 1]
  BY DEF Page, Rank
<1>3. m \in Nat /\ m <= limit /\ m <= n /\ (m = limit \/ m = n)
  BY <1>1 DEF Least
<1> HIDE DEF S, n, m
<1>4. \A i \in 1..m : page[i] \in S /\ Rank(S, page[i]) = i - 1
  <2> TAKE i \in 1..m
  <2>1. i - 1 \in 0..Cardinality(S) - 1
    BY <1>1, <1>3 DEF n
  <2>2. \E x \in S : Rank(S, x) = i - 1
    BY <1>1, <2>1, RankTaken
  <2> QED BY <1>2, <2>2
<1>5. page \in Seq(Ids) /\ Len(page) = m
  BY <1>1, <1>2, <1>3, <1>4
<1>6. ASSUME NEW x \in S, NEW y \in S, Rank(S, x) < Rank(S, y) PROVE Beyond(y, x)
  <2>1. Beyond(x, y) \/ Beyond(y, x) \/ x = y
    BY <1>1, Order, IdsInt
  <2>2. Rank(S, x) \in Nat /\ Rank(S, y) \in Nat
    BY <1>1, RankIs
  <2> QED BY <1>1, <1>6, <2>1, <2>2, RankRises
<1>7. ASSUME NEW i \in 1..m, NEW j \in 1..m, i < j PROVE Beyond(page[j], page[i])
  BY <1>4, <1>6, <1>7
<1>8. ASSUME NEW x \in S, m < limit \/ ~Beyond(x, page[m]) PROVE \E i \in 1..m : page[i] = x
  <2> DEFINE k == Rank(S, x) + 1
  <2>1. k \in 1..n
    BY <1>1, RankIs DEF n
  <2>2. k <= m
    <3> SUFFICES ASSUME m < k PROVE FALSE
      BY <1>3, <2>1
    <3>1. m = limit /\ m \in 1..m
      BY <1>3, <2>1
    <3>2. Rank(S, page[m]) = m - 1 /\ Rank(S, x) \in Nat
      BY <1>1, <1>4, <3>1, RankIs
    <3>3. Rank(S, page[m]) < Rank(S, x)
      BY <1>3, <3>2
    <3> QED BY <1>4, <1>6, <1>8, <3>1, <3>3
  <2>3. k \in 1..m /\ Rank(S, page[k]) = Rank(S, x)
    BY <1>1, <1>4, <2>1, <2>2, RankIs
  <2>4. page[k] = x
    <3>1. page[k] \in S
      BY <1>4, <2>3
    <3>2. Beyond(x, page[k]) \/ Beyond(page[k], x) \/ x = page[k]
      <4>1. x \in Int /\ page[k] \in Int
        BY <1>1, <3>1, IdsInt
      <4> QED BY <4>1, Order
    <3>3. Rank(S, x) \in Nat
      BY <1>1, RankIs
    <3> QED BY <1>1, <2>3, <3>1, <3>2, <3>3, RankRises
  <2> QED BY <2>3, <2>4
<1> QED BY <1>3, <1>4, <1>5, <1>7, <1>8 DEF S, Gapless

----------------------------------------------------------------------------
(* The invariant *)

Objects == [id : Ids, found : BOOLEAN]
IdsOf(q) == {q[i].id : i \in DOMAIN q}
After(m, x, y) == IF m \in Descending THEN x < y ELSE x > y
Follows(m, p, q) == \A x \in IdsOf(p), y \in IdsOf(q) : After(m, y, x)
Rising(m, q) == \A i, j \in DOMAIN q : i < j => After(m, q[j].id, q[i].id)

\* Where an object has been popped and not yet returned.
Holding == {"check", "skip", "next", "end", "return"}
InHand == IF at \in Holding THEN 1 ELSE 0

Types ==
  /\ method \in Iterators \cup Lists /\ maximum \in 1..Infinity /\ check \in {"none", "sync", "async"}
  /\ rejected \subseteq Ids /\ (check = "none" => rejected = {})
  /\ list \subseteq Ids /\ stayed \subseteq list /\ changes \in 0..MaxChanges
  /\ objects \in Seq(Objects) /\ yielded \in Seq(Objects) /\ obj \in [id : 0..MaxId, found : BOOLEAN]
  /\ object_count \in Int /\ stop \in BOOLEAN /\ edge \in 0..MaxId + 1
  /\ at \in {"start", "pop", "done", "raised"} \cup Holding
  /\ method \in Lists => /\ check = "none" /\ maximum = Infinity /\ object_count = 0 /\ objects = << >>
                         /\ at \in {"start", "done", "raised"} /\ ~stop

\* What has been yielded, what has been popped and what has been fetched follow each other,
\* up to the edge.
OrderInv ==
  /\ Rising(method, yielded) /\ Rising(method, objects)
  /\ \A x \in IdsOf(yielded), y \in IdsOf(objects) : After(method, y, x)
  /\ at \in Holding => /\ obj.id \in Ids /\ ~After(method, obj.id, edge)
                       /\ \A x \in IdsOf(yielded) : After(method, obj.id, x)
                       /\ \A y \in IdsOf(objects) : After(method, y, obj.id)
  /\ at \notin {"done", "raised"} => \A x \in IdsOf(yielded) \cup IdsOf(objects) : ~After(method, x, edge)

\* Up to the edge no object is left out but those the check rejects.
CoverInv ==
  /\ at \notin {"done", "raised"} => \A x \in stayed :
       ~After(method, x, edge) => \/ x \in rejected \cup IdsOf(yielded) \cup IdsOf(objects)
                                  \/ at \in Holding /\ x = obj.id
  /\ \A y \in IdsOf(yielded) : \A x \in Wanted : After(method, y, x) => x \in IdsOf(yielded)

\* object_count bounds what has been asked for and not rejected.
CountInv ==
  /\ object_count <= maximum /\ (~stop => object_count < maximum)
  /\ method \in Iterators => Len(yielded) + InHand + Len(objects) <= object_count
  /\ Len(objects) <= First + Low
  /\ at = "start" => object_count = 0 /\ objects = << >> /\ (method \in Iterators => yielded = << >>)

\* An object that was rejected and is yielded all the same has one before it that is not.
Excused(y) == check = "async" /\ \E x \in rejected : After(method, y, x) /\ x \notin IdsOf(yielded)
CheckInv ==
  /\ at \in {"skip", "next"} => obj.id \in rejected
  /\ at \in {"end", "return"} /\ obj.id \in rejected => Excused(obj.id)
  /\ \A y \in IdsOf(yielded) : y \in rejected => Excused(y)

\* Without a check, whatever was asked for has come, or Discord has no more; at the end few
\* objects have been passed by.
FewLost == at = "done" /\ check = "none" =>
  /\ method \in Lists => stayed \subseteq Yielded
  /\ Cardinality(stayed \ Yielded) <= Low \/ Len(yielded) >= maximum - Low
Exhausted == \A x \in stayed : ~After(method, x, edge)
LoseInv ==
  /\ method \in Iterators /\ check = "none" /\ at \notin {"start", "done", "raised"} =>
       /\ Exhausted \/ Len(yielded) + InHand + Len(objects) = object_count
       /\ stop => Exhausted \/ object_count = maximum
       /\ at \in {"return", "pop"} /\ objects = << >> => stop
  /\ FewLost

Inv == Types /\ OrderInv /\ CoverInv /\ CountInv /\ CheckInv /\ LoseInv

----------------------------------------------------------------------------
(* What is fetched, popped and joined *)

LEMMA Afters ==
  \A m : \A x, y, z \in Int : /\ ~After(m, x, x) /\ ~(After(m, x, y) /\ After(m, y, x))
                              /\ After(m, x, y) \/ After(m, y, x) \/ x = y
                              /\ After(m, x, y) /\ After(m, y, z) => After(m, x, z)
                              /\ After(m, x, y) /\ ~After(m, z, y) => After(m, x, z)
BY DEF After

LEMMA Sizes ==
  /\ MaxId \in Nat /\ First \in Nat /\ More \in Nat /\ Low \in Nat /\ Infinity \in Nat
  /\ 1 <= Low /\ Low <= More /\ More <= First /\ Infinity > 2 * MaxId + First
  /\ Ids \subseteq Nat /\ Ids \subseteq 0..MaxId /\ Ids \subseteq 0..MaxId + 1
  /\ 0..MaxId \subseteq Int /\ 0..MaxId + 1 \subseteq Int
BY PagingAssumption DEF Ids

LEMMA IdsTyped ==
  ASSUME NEW q \in Seq(Objects)
  PROVE  IdsOf(q) \subseteq Ids /\ IdsOf(q) \subseteq Int
<1>1. \A i \in DOMAIN q : q[i] \in Objects
  OBVIOUS
<1>2. \A i \in DOMAIN q : q[i].id \in Ids
  BY <1>1 DEF Objects
<1> QED BY <1>2, IdsInt DEF IdsOf

\* The objects of a page: all that there are beyond the edge, or up to the last of them.
LEMMA Fetched ==
  ASSUME NEW limit \in Nat \ {0}, list \subseteq Ids, edge \in Int, NEW page, page = Page(limit),
         NEW q \in Seq(Objects), Len(q) = Len(page), \A i \in 1..Len(page) : q[i].id = page[i]
  PROVE  /\ page \in Seq(Ids) /\ Len(q) <= limit /\ (page = << >> <=> q = << >>)
         /\ Rising(method, q)
         /\ \A x \in IdsOf(q) : x \in list /\ After(method, x, edge)
         /\ Len(q) < limit => \A x \in list : After(method, x, edge) => x \in IdsOf(q)
         /\ page # << >> =>
              /\ Last(page) \in IdsOf(q) /\ Len(q) > 0
              /\ \A x \in IdsOf(q) : ~After(method, x, Last(page))
              /\ \A x \in list : After(method, x, edge) /\ ~After(method, x, Last(page)) => x \in IdsOf(q)
<1>2. /\ page \in Seq(Ids) /\ Len(page) <= limit
      /\ \A i \in 1..Len(page) : page[i] \in list /\ After(method, page[i], edge)
      /\ \A i, j \in 1..Len(page) : i < j => After(method, page[j], page[i])
      /\ \A x \in list : After(method, x, edge) /\ (Len(page) < limit \/ ~After(method, x, page[Len(page)]))
                              => \E i \in 1..Len(page) : page[i] = x
  <2>1. page \in Seq(Ids) /\ Len(page) <= limit
    BY Paged
  <2>2. \A i \in 1..Len(page) : page[i] \in list /\ Beyond(page[i], edge)
    BY Paged
  <2>3. \A i, j \in 1..Len(page) : i < j => Beyond(page[j], page[i])
    BY Paged
  <2>4. Gapless(page, limit)
    BY Paged
  <2> QED BY <2>1, <2>2, <2>3, <2>4 DEF Gapless, Beyond, After
<1>3. IdsOf(q) = {page[i] : i \in 1..Len(page)} /\ DOMAIN q = 1..Len(page)
  <2>1. DOMAIN q = 1..Len(page)
    OBVIOUS
  <2> QED BY <2>1 DEF IdsOf
<1>4. Rising(method, q)
  BY <1>2, <1>3 DEF Rising
<1>5. page = << >> <=> q = << >>
  BY <1>2
<1>6. ASSUME page # << >>
      PROVE  /\ Last(page) \in IdsOf(q) /\ Len(q) > 0
             /\ \A x \in IdsOf(q) : ~After(method, x, Last(page))
             /\ \A x \in list : After(method, x, edge) /\ ~After(method, x, Last(page)) => x \in IdsOf(q)
  <2>1. Len(page) \in 1..Len(page) /\ Last(page) = page[Len(page)]
    BY <1>2, <1>6 DEF Last
  <2>2. ASSUME NEW i \in 1..Len(page) PROVE ~After(method, page[i], page[Len(page)])
    <3>1. page[i] \in Int /\ page[Len(page)] \in Int
      BY <1>2, <2>1, IdsInt
    <3>2. CASE i = Len(page)
      BY <3>1, <3>2, Afters
    <3>3. CASE i < Len(page)
      BY <1>2, <2>1, <3>1, <3>3, Afters
    <3> QED BY <1>2, <3>2, <3>3
  <2>3. \A x \in list : After(method, x, edge) /\ ~After(method, x, page[Len(page)]) => x \in IdsOf(q)
    BY <1>2, <1>3
  <2> QED BY <1>3, <2>1, <2>2, <2>3
<1>7. Len(q) < limit => \A x \in list : After(method, x, edge) => x \in IdsOf(q)
  BY <1>2, <1>3
<1>8. \A x \in IdsOf(q) : x \in list /\ After(method, x, edge)
  BY <1>2, <1>3
<1> QED BY <1>2, <1>4, <1>5, <1>6, <1>7, <1>8

LEMMA Joined ==
  ASSUME NEW m, NEW p \in Seq(Objects), NEW q \in Seq(Objects), NEW r, r = p \o q,
         Rising(m, p), Rising(m, q), Follows(m, p, q)
  PROVE  r \in Seq(Objects) /\ Len(r) = Len(p) + Len(q) /\ IdsOf(r) = IdsOf(p) \cup IdsOf(q) /\ Rising(m, r)
<1>1. r \in Seq(Objects) /\ Len(r) = Len(p) + Len(q) /\ Len(p) \in Nat /\ Len(q) \in Nat
  OBVIOUS
<1>2. /\ \A i \in 1..Len(p) : r[i] = p[i]
      /\ \A i \in 1..Len(q) : r[i + Len(p)] = q[i]
      /\ \A i \in 1..Len(r) : i \in 1..Len(p) \/ (i - Len(p) \in 1..Len(q) /\ r[i] = q[i - Len(p)])
  <2>1. \A i \in 1..Len(p) : r[i] = p[i]
    OBVIOUS
  <2>2. \A i \in 1..Len(q) : r[i + Len(p)] = q[i]
    OBVIOUS
  <2>3. \A i \in 1..Len(r) : i \in 1..Len(p) \/ (i - Len(p) \in 1..Len(q) /\ r[i] = q[i - Len(p)])
    OBVIOUS
  <2> QED BY <2>1, <2>2, <2>3
<1>3. DOMAIN r = 1..Len(r) /\ DOMAIN p = 1..Len(p) /\ DOMAIN q = 1..Len(q)
  BY <1>1
<1>4. IdsOf(r) = IdsOf(p) \cup IdsOf(q)
  <2>1. ASSUME NEW i \in 1..Len(r) PROVE r[i].id \in IdsOf(p) \cup IdsOf(q)
    BY <1>2, <1>3 DEF IdsOf
  <2>2. ASSUME NEW i \in 1..Len(p) PROVE p[i].id \in IdsOf(r)
    <3>1. i \in 1..Len(r) /\ r[i] = p[i]
      BY <1>1, <1>2
    <3> QED BY <1>3, <3>1 DEF IdsOf
  <2>3. ASSUME NEW i \in 1..Len(q) PROVE q[i].id \in IdsOf(r)
    <3>1. i + Len(p) \in 1..Len(r) /\ r[i + Len(p)] = q[i]
      BY <1>1, <1>2
    <3> QED BY <1>3, <3>1 DEF IdsOf
  <2>4. IdsOf(r) \subseteq IdsOf(p) \cup IdsOf(q)
    BY <1>3, <2>1 DEF IdsOf
  <2>5. IdsOf(p) \subseteq IdsOf(r)
    BY <1>3, <2>2 DEF IdsOf
  <2>6. IdsOf(q) \subseteq IdsOf(r)
    BY <1>3, <2>3 DEF IdsOf
  <2> QED BY <2>4, <2>5, <2>6
<1>5. ASSUME NEW i \in 1..Len(r), NEW j \in 1..Len(r), i < j PROVE After(m, r[j].id, r[i].id)
  <2>1. CASE j \in 1..Len(p)
    <3>1. i \in 1..Len(p) /\ r[i] = p[i] /\ r[j] = p[j]
      BY <1>1, <1>2, <1>5, <2>1
    <3> QED BY <1>3, <1>5, <2>1, <3>1 DEF Rising
  <2>2. CASE j \notin 1..Len(p) /\ i \in 1..Len(p)
    <3>1. r[i].id \in IdsOf(p) /\ r[j].id \in IdsOf(q)
      BY <1>2, <1>3, <2>2 DEF IdsOf
    <3> QED BY <3>1 DEF Follows
  <2>3. CASE j \notin 1..Len(p) /\ i \notin 1..Len(p)
    <3>1. /\ i - Len(p) \in 1..Len(q) /\ r[i] = q[i - Len(p)]
          /\ j - Len(p) \in 1..Len(q) /\ r[j] = q[j - Len(p)]
      BY <1>2, <2>3
    <3>2. i - Len(p) < j - Len(p)
      BY <1>1, <1>5
    <3> QED BY <1>3, <3>1, <3>2 DEF Rising
  <2> QED BY <2>1, <2>2, <2>3
<1> QED BY <1>1, <1>3, <1>4, <1>5 DEF Rising

LEMMA Popped ==
  ASSUME NEW m, NEW q \in Seq(Objects), q # << >>, Rising(m, q)
  PROVE  /\ Head(q) \in Objects /\ Tail(q) \in Seq(Objects) /\ Len(Tail(q)) = Len(q) - 1
         /\ IdsOf(q) = {Head(q).id} \cup IdsOf(Tail(q)) /\ Rising(m, Tail(q))
         /\ \A y \in IdsOf(Tail(q)) : After(m, y, Head(q).id)
<1>1. /\ Head(q) = q[1] /\ Tail(q) \in Seq(Objects) /\ Len(Tail(q)) = Len(q) - 1 /\ Len(q) \in Nat
      /\ DOMAIN q = 1..Len(q) /\ DOMAIN Tail(q) = 1..Len(q) - 1 /\ 1 \in 1..Len(q)
  OBVIOUS
<1>2. \A i \in 1..Len(q) - 1 : Tail(q)[i] = q[i + 1] /\ i + 1 \in 1..Len(q)
  BY <1>1
<1>3. \A i \in 1..Len(q) : i = 1 \/ (i - 1 \in 1..Len(q) - 1 /\ Tail(q)[i - 1] = q[i])
  BY <1>1, <1>2
<1> DEFINE t == Tail(q)
<1> HIDE DEF t
<1>4. IdsOf(q) = {q[1].id} \cup IdsOf(t)
  <2>1. \A i \in 1..Len(q) : q[i].id \in {q[1].id} \cup IdsOf(t)
    <3> TAKE i \in 1..Len(q)
    <3>1. CASE i = 1
      BY <3>1
    <3>2. CASE i # 1
      <4>1. i - 1 \in DOMAIN t /\ t[i - 1] = q[i]
        BY <1>1, <1>3, <3>2 DEF t
      <4> QED BY <4>1 DEF IdsOf
    <3> QED BY <3>1, <3>2
  <2>2. \A i \in 1..Len(q) - 1 : t[i].id \in IdsOf(q)
    <3> TAKE i \in 1..Len(q) - 1
    <3>1. i + 1 \in DOMAIN q /\ t[i] = q[i + 1]
      BY <1>1, <1>2 DEF t
    <3> QED BY <3>1 DEF IdsOf
  <2>3. DOMAIN t = 1..Len(q) - 1
    BY <1>1 DEF t
  <2>4. IdsOf(q) \subseteq {q[1].id} \cup IdsOf(t)
    BY <1>1, <2>1 DEF IdsOf
  <2>5. {q[1].id} \cup IdsOf(t) \subseteq IdsOf(q)
    BY <1>1, <2>2, <2>3 DEF IdsOf
  <2> QED BY <2>4, <2>5
<1>5. Rising(m, t)
  <2> SUFFICES ASSUME NEW i \in 1..Len(q) - 1, NEW j \in 1..Len(q) - 1, i < j PROVE After(m, t[j].id, t[i].id)
    BY <1>1 DEF Rising, t
  <2>1. i + 1 < j + 1
    BY <1>1
  <2> QED BY <1>1, <1>2, <2>1 DEF Rising, t
<1>6. \A i \in 1..Len(q) - 1 : After(m, t[i].id, q[1].id)
  <2> TAKE i \in 1..Len(q) - 1
  <2>1. 1 < i + 1
    BY <1>1
  <2> QED BY <1>1, <1>2, <2>1 DEF Rising, t
<1>7. \A y \in IdsOf(t) : After(m, y, q[1].id)
  <2>1. DOMAIN t = 1..Len(q) - 1
    BY <1>1 DEF t
  <2> QED BY <1>6, <2>1 DEF IdsOf
<1>8. q[1] \in Objects
  BY <1>1
<1> QED BY <1>1, <1>4, <1>5, <1>7, <1>8 DEF t

----------------------------------------------------------------------------
(* The steps *)

LEMMA InvTyped ==
  ASSUME Inv
  PROVE  /\ IdsOf(yielded) \subseteq Ids /\ IdsOf(objects) \subseteq Ids
         /\ IdsOf(yielded) \subseteq Int /\ IdsOf(objects) \subseteq Int /\ obj.id \in Int /\ edge \in Int
         /\ Len(yielded) \in Nat /\ Len(objects) \in Nat /\ maximum \in Int /\ object_count \in Int
BY IdsTyped, Sizes DEF Inv, Types

LEMMA InitInv == Init => Inv
<1> SUFFICES ASSUME Init PROVE Inv
  OBVIOUS
<1>1. objects = << >> /\ yielded = << >> /\ IdsOf(objects) = {} /\ IdsOf(yielded) = {}
  BY DEF Init, None, IdsOf
<1>2. method \in Iterators <=> method \notin Lists
  BY DEF Init, Iterators, Lists
<1>3. maximum \in 1..Infinity
  BY PagingAssumption, Sizes DEF Init
<1>4. rejected \subseteq Ids /\ (check = "none" => rejected = {})
  BY PagingAssumption DEF Init
<1>5. list \subseteq Ids
  BY Sizes DEF Init, Ids
<1>6. Types
  <2>1. obj \in [id : 0..MaxId, found : BOOLEAN] /\ edge \in 0..MaxId + 1 /\ changes \in 0..MaxChanges
    BY PagingAssumption DEF Init, Nothing
  <2>2. method \in Lists => check = "none" /\ maximum = Infinity
    BY <1>2 DEF Init
  <2>3. objects \in Seq(Objects) /\ yielded \in Seq(Objects) /\ at = "start"
    BY <1>1 DEF Init
  <2>5. ~stop /\ stop \in BOOLEAN
    BY Zenon DEF Init
  <2>4. /\ object_count = 0 /\ stayed = list /\ check \in {"none", "sync", "async"}
        /\ method \in Iterators \cup Lists
    BY <1>2 DEF Init
  <2> QED BY <1>1, <1>3, <1>4, <1>5, <2>1, <2>2, <2>3, <2>4, <2>5 DEF Types
<1>7. OrderInv
  BY <1>1 DEF Init, OrderInv, Rising, Holding
<1>8. CoverInv
  <2>1. \A x \in stayed : After(method, x, edge)
    BY <1>5, Sizes DEF Init, After, Ids
  <2> QED BY <1>1, <2>1 DEF CoverInv
<1>9. CountInv
  BY <1>1, <1>3, Sizes DEF Init, CountInv, InHand, Holding
<1>10. CheckInv
  BY <1>1 DEF Init, CheckInv
<1>11. LoseInv
  BY DEF Init, LoseInv, FewLost
<1> QED BY <1>6, <1>7, <1>8, <1>9, <1>10, <1>11 DEF Inv

LEMMA CheckKeeps == ASSUME Inv, Check PROVE Inv'
<1>1. at = "check" /\ at' \in {"raised", "end", "skip"} /\ UNCHANGED <<config, world, iterator, yielded>>
  BY DEF Check
<1>2. Types'
  BY <1>1 DEF Inv, Types, config, world, iterator, Holding
<1>3. OrderInv'
  BY <1>1 DEF Inv, OrderInv, config, world, iterator, Holding
<1>4. CoverInv'
  BY <1>1 DEF Inv, CoverInv, config, world, iterator, Holding, Wanted
<1>5. CountInv'
  <2>1. InHand = 1 /\ InHand' \in {0, 1}
    BY <1>1 DEF InHand, Holding
  <2>2. Len(yielded) + InHand + Len(objects) <= object_count
          => Len(yielded) + InHand' + Len(objects) <= object_count
    BY <2>1, InvTyped
  <2> QED BY <1>1, <2>2 DEF Inv, CountInv, config, world, iterator
<1>6. CheckInv'
  BY <1>1 DEF Inv, CheckInv, Check, Passes, Excused, config, world, iterator
<1>7. LoseInv'
  <2>1. at' \in Holding => InHand' = InHand
    BY <1>1 DEF InHand, Holding
  <2>2. at' # "raised" => at' \in Holding /\ at \in Holding
    BY <1>1 DEF Holding
  <2> QED BY <1>1, <2>1, <2>2 DEF Inv, LoseInv, FewLost, Exhausted, config, world, iterator
<1> QED BY <1>2, <1>3, <1>4, <1>5, <1>6, <1>7 DEF Inv

\* The loop that skips rejected objects never reads a page: where one is due, the count is less
\* than the maximum.
LEMMA SkipKeeps == ASSUME Inv, Skip PROVE Inv'
<1>1. ~(PageDue /\ object_count >= maximum)
  BY InvTyped DEF Inv, CountInv, PageDue
<1>2. at = "skip" /\ at' = "next" /\ UNCHANGED <<config, world, iterator, yielded>>
  BY <1>1 DEF Skip, GetObjectsIf, iterator
<1>3. InHand' = InHand
  BY <1>2 DEF InHand, Holding
<1>4. Types' /\ OrderInv'
  BY <1>2 DEF Inv, Types, OrderInv, config, world, iterator, Holding
<1>5. CoverInv'
  BY <1>2 DEF Inv, CoverInv, config, world, iterator, Holding, Wanted
<1>6. CountInv' /\ CheckInv'
  BY <1>2, <1>3 DEF Inv, CountInv, CheckInv, Excused, config, world, iterator
<1>7. LoseInv'
  BY <1>2, <1>3 DEF Inv, LoseInv, FewLost, Exhausted, config, world, iterator
<1> QED BY <1>4, <1>5, <1>6, <1>7 DEF Inv

LEMMA ReturnKeeps == ASSUME Inv, Return PROVE Inv'
<1>1. /\ at = "return" /\ at' = "pop" /\ yielded' = Append(yielded, obj)
      /\ UNCHANGED <<config, world, iterator>> /\ method \in Iterators /\ obj.id \in Ids
  BY DEF Return, Inv, Types, OrderInv, Holding
<1> DEFINE one == <<obj>>
<1>2. one \in Seq(Objects) /\ yielded' = yielded \o one /\ yielded \in Seq(Objects) /\ Len(one) = 1
  BY <1>1 DEF Inv, Types, Objects
<1>3. IdsOf(one) = {obj.id} /\ Rising(method, one)
  <2>1. DOMAIN one = {1} /\ one[1] = obj
    OBVIOUS
  <2> QED BY <2>1 DEF IdsOf, Rising
<1> HIDE DEF one
<1>4. /\ yielded' \in Seq(Objects) /\ Len(yielded') = Len(yielded) + 1
      /\ IdsOf(yielded') = IdsOf(yielded) \cup {obj.id} /\ Rising(method, yielded')
  <2>1. Rising(method, yielded) /\ \A x \in IdsOf(yielded), y \in IdsOf(one) : After(method, y, x)
    BY <1>1, <1>3 DEF Inv, OrderInv, Holding
  <2>2. /\ yielded' \in Seq(Objects) /\ Len(yielded') = Len(yielded) + Len(one)
        /\ IdsOf(yielded') = IdsOf(yielded) \cup IdsOf(one) /\ Rising(method, yielded')
    <3> DEFINE p == yielded
               r == yielded'
    <3>1. p \in Seq(Objects) /\ one \in Seq(Objects) /\ r = p \o one
      BY <1>2
    <3>2. Rising(method, p) /\ Rising(method, one) /\ Follows(method, p, one)
      BY <1>3, <2>1 DEF Follows
    <3> HIDE DEF p, r
    <3>3. /\ r \in Seq(Objects) /\ Len(r) = Len(p) + Len(one)
          /\ IdsOf(r) = IdsOf(p) \cup IdsOf(one) /\ Rising(method, r)
      <4>1. r \in Seq(Objects) /\ Len(r) = Len(p) + Len(one)
        BY <3>1
      <4>2. Rising(method, r)
        BY <3>1, <3>2, Joined
      <4>3. IdsOf(r) = IdsOf(p) \cup IdsOf(one)
        BY <3>1, <3>2, Joined
      <4> QED BY <4>1, <4>2, <4>3
    <3> QED BY <3>3 DEF p, r
  <2> QED BY <1>2, <1>3, <2>2
<1>5. Types'
  BY <1>1, <1>4 DEF Inv, Types, config, world, iterator, Holding
<1>6. OrderInv'
  BY <1>1, <1>4 DEF Inv, OrderInv, config, world, iterator, Holding
<1>7. CoverInv'
  <2>1. \A x \in stayed : ~After(method, x, edge) => x \in rejected \cup IdsOf(yielded') \cup IdsOf(objects)
    BY <1>1, <1>4 DEF Inv, CoverInv
  <2>2. ASSUME NEW x \in Wanted, After(method, obj.id, x) PROVE x \in IdsOf(yielded)
    <3>1. x \in stayed /\ x \notin rejected /\ x \in Int
      BY Sizes DEF Inv, Types, Wanted
    <3>2. ~After(method, x, edge) /\ x \notin IdsOf(objects) /\ x # obj.id
      BY <1>1, <2>2, <3>1, InvTyped, Afters DEF Inv, OrderInv, Holding
    <3> QED BY <1>1, <3>1, <3>2 DEF Inv, CoverInv
  <2> QED BY <1>1, <1>4, <2>1, <2>2 DEF Inv, CoverInv, config, world, iterator, Wanted
<1>8. CountInv'
  <2>1. InHand = 1 /\ InHand' = 0
    BY <1>1 DEF InHand, Holding
  <2>2. Len(yielded') + InHand' + Len(objects) = Len(yielded) + InHand + Len(objects)
    BY <1>4, <2>1, InvTyped
  <2> QED BY <1>1, <2>2 DEF Inv, CountInv, config, world, iterator
<1>9. CheckInv'
  <2>1. ASSUME NEW y \in IdsOf(yielded), NEW x, After(method, y, x), x \in rejected PROVE x # obj.id
    BY <1>1, <2>1, InvTyped, Afters DEF Inv, OrderInv, Holding
  <2>2. ASSUME NEW x, After(method, obj.id, x) PROVE x # obj.id
    BY <2>2, InvTyped, Afters
  <2>3. ASSUME NEW y \in IdsOf(yielded'), y \in rejected PROVE Excused(y)'
    <3>1. Excused(y)
      BY <1>1, <1>4, <2>3 DEF Inv, CheckInv
    <3>2. PICK x \in rejected : After(method, y, x) /\ x \notin IdsOf(yielded)
      BY <3>1 DEF Excused
    <3>3. x # obj.id
      BY <1>4, <2>1, <2>2, <3>2
    <3> QED BY <1>1, <1>4, <3>1, <3>2, <3>3 DEF Excused, config
  <2> QED BY <1>1, <2>3 DEF CheckInv, config
<1>10. LoseInv'
  <2>1. InHand = 1 /\ InHand' = 0
    BY <1>1 DEF InHand, Holding
  <2>2. Len(yielded') + InHand' + Len(objects) = Len(yielded) + InHand + Len(objects)
    BY <1>4, <2>1, InvTyped
  <2> QED BY <1>1, <2>2 DEF Inv, LoseInv, FewLost, Exhausted, config, world, iterator
<1> QED BY <1>5, <1>6, <1>7, <1>8, <1>9, <1>10 DEF Inv

\* Whoever has been given all the objects that stayed has lost none.
LEMMA AllKept == ASSUME stayed' \subseteq IdsOf(yielded') PROVE FewLost'
<1>1. Yielded' = IdsOf(yielded')
  BY DEF Yielded, IdsOf
<1>2. stayed' \ Yielded' = {}
  BY <1>1
<1>3. Cardinality(stayed' \ Yielded') <= Low
  BY <1>2, FS_EmptySet, Sizes
<1> QED BY <1>1, <1>3 DEF FewLost

\* The next object is popped, and taken or checked.
LEMMA PopKeepsOrder ==
  ASSUME Inv, objects # << >>, at = "pop" \/ at = "next", at' \in {"end", "check"},
         obj' = Head(objects), objects' = Tail(objects), UNCHANGED <<config, world, edge, stop, yielded>>,
         object_count' \in Int
  PROVE  Types' /\ OrderInv' /\ CoverInv'
<1>1. method \in Iterators /\ at' \in Holding /\ at \notin {"done", "raised"}
  BY DEF Inv, Types, Holding
<1>2. /\ obj' \in Objects /\ objects' \in Seq(Objects)
      /\ IdsOf(objects) = {obj'.id} \cup IdsOf(objects') /\ Rising(method, objects')
      /\ \A y \in IdsOf(objects') : After(method, y, obj'.id)
  BY Popped DEF Inv, Types, OrderInv
<1>3. Types'
  <2>1. obj'.id \in Ids /\ obj' \in [id : 0..MaxId, found : BOOLEAN]
    BY <1>2, Sizes DEF Objects
  <2>2. method \notin Lists
    BY <1>1 DEF Iterators, Lists
  <2> QED BY <1>1, <1>2, <2>1, <2>2 DEF Inv, Types, config, world
<1>4. OrderInv'
  <2>1. obj'.id \in IdsOf(objects) /\ obj'.id \in Ids /\ \A y \in IdsOf(objects') : y \in IdsOf(objects)
    BY <1>2, InvTyped
  <2>2. /\ \A x \in IdsOf(yielded), y \in IdsOf(objects) : After(method, y, x)
        /\ \A x \in IdsOf(yielded) \cup IdsOf(objects) : ~After(method, x, edge)
        /\ Rising(method, yielded)
    BY <1>1 DEF Inv, OrderInv
  <2> QED BY <1>2, <2>1, <2>2 DEF OrderInv, config
<1>5. CoverInv'
  <2>1. \A x \in stayed : ~After(method, x, edge) => x \in rejected \cup IdsOf(yielded) \cup IdsOf(objects)
    BY <1>1 DEF Inv, CoverInv, CheckInv, Holding
  <2> QED BY <1>1, <1>2, <2>1 DEF Inv, CoverInv, config, world, Wanted
<1> QED BY <1>3, <1>4, <1>5

LEMMA StartKeeps == ASSUME Inv, Start PROVE Inv'
<1>1. at = "pop" /\ UNCHANGED <<config, world, object_count, stop, edge, yielded>> /\ method \in Iterators
  BY DEF Start, Inv, Types, Holding
<1>2. CASE objects # << >>
  <2>1. /\ at' = IF check = "none" THEN "end" ELSE "check"
        /\ obj' = Head(objects) /\ objects' = Tail(objects)
    BY <1>2 DEF Start, Pop
  <2>2. Types' /\ OrderInv' /\ CoverInv'
    BY <1>1, <1>2, <2>1, PopKeepsOrder, InvTyped
  <2>3. InHand = 0 /\ InHand' = 1 /\ Len(objects') = Len(objects) - 1
    <3>1. Len(objects') = Len(objects) - 1
      BY <1>2, <2>1, Popped DEF Inv, Types, OrderInv
    <3> QED BY <1>1, <2>1, <3>1 DEF InHand, Holding
  <2>4. Len(yielded) + InHand' + Len(objects') = Len(yielded) + InHand + Len(objects)
    BY <2>3, InvTyped
  <2>5. CountInv'
    <3>1. Len(objects') <= First + Low
      BY <2>3, InvTyped, Sizes DEF Inv, CountInv
    <3> QED BY <1>1, <2>1, <2>4, <3>1 DEF Inv, CountInv, config, world
  <2>6. CheckInv'
    <3>1. check = "none" => rejected = {}
      BY DEF Inv, Types
    <3> QED BY <1>1, <2>1, <3>1 DEF Inv, CheckInv, Excused, config, world
  <2>7. LoseInv'
    BY <1>1, <2>1, <2>4 DEF Inv, LoseInv, FewLost, Exhausted, config, world
  <2> QED BY <2>2, <2>5, <2>6, <2>7 DEF Inv
<1>3. CASE objects = << >>
  <2>1. at' = "done" /\ UNCHANGED <<config, world, iterator, yielded>>
    BY <1>1, <1>3 DEF Start, Pop, iterator
  <2>2. Types' /\ OrderInv'
    BY <1>1, <2>1 DEF Inv, Types, OrderInv, config, world, iterator, Holding
  <2>3. CoverInv'
    BY <1>1, <2>1 DEF Inv, CoverInv, config, world, iterator, Holding, Wanted
  <2>4. InHand = 0 /\ InHand' = 0 /\ Len(objects) = 0
    BY <1>1, <1>3, <2>1 DEF InHand, Holding
  <2>5. CountInv' /\ CheckInv'
    BY <1>1, <2>1, <2>4 DEF Inv, CountInv, CheckInv, Excused, config, world, iterator
  <2>6. FewLost'
    <3>1. CASE check # "none"
      BY <2>1, <3>1 DEF FewLost, config
    <3>2. CASE check = "none" /\ Exhausted
      <4>1. rejected = {} /\ IdsOf(objects) = {}
        BY <1>3, <3>2 DEF Inv, Types, IdsOf
      <4>2. stayed \subseteq IdsOf(yielded)
        BY <1>1, <3>2, <4>1 DEF Inv, CoverInv, Exhausted, Holding
      <4> QED BY <2>1, <4>2, AllKept DEF world
    <3>3. CASE check = "none" /\ ~Exhausted
      <4>1. Len(yielded) = maximum
        BY <1>1, <1>3, <2>4, <3>3, InvTyped DEF Inv, LoseInv, Holding
      <4>2. Len(yielded) >= maximum - Low /\ method \notin Lists
        BY <1>1, <4>1, InvTyped, Sizes DEF Iterators, Lists
      <4> QED BY <2>1, <4>2 DEF FewLost, config
    <3> QED BY <3>1, <3>2, <3>3
  <2> QED BY <2>1, <2>2, <2>3, <2>5, <2>6 DEF Inv, LoseInv
<1> QED BY <1>2, <1>3

LEMMA SkipNextKeeps == ASSUME Inv, SkipNext PROVE Inv'
<1>1. /\ at = "next" /\ UNCHANGED <<config, world, stop, edge, yielded>> /\ method \in Iterators
      /\ object_count' = object_count - 1 /\ obj.id \in rejected /\ check # "none"
  BY DEF SkipNext, CountLess, Inv, Types, CheckInv, Holding
<1>2. CASE objects # << >>
  <2>1. /\ at' = IF check = "async" THEN "end" ELSE "check"
        /\ obj' = Head(objects) /\ objects' = Tail(objects)
    BY <1>2 DEF SkipNext, Pop, Rechecked
  <2>2. Types' /\ OrderInv' /\ CoverInv'
    BY <1>1, <1>2, <2>1, PopKeepsOrder, InvTyped
  <2>3. InHand = 1 /\ InHand' = 1 /\ Len(objects') = Len(objects) - 1
    <3>1. Len(objects') = Len(objects) - 1
      BY <1>2, <2>1, Popped DEF Inv, Types, OrderInv
    <3> QED BY <1>1, <2>1, <3>1 DEF InHand, Holding
  <2>4. Len(yielded) + InHand + Len(objects) <= object_count
    BY <1>1 DEF Inv, CountInv
  <2>5. CountInv'
    <3>1. /\ Len(yielded) + InHand' + Len(objects') <= object_count' /\ Len(objects') <= First + Low
          /\ object_count' <= maximum /\ (~stop => object_count' < maximum)
      BY <1>1, <2>3, <2>4, InvTyped, Sizes DEF Inv, CountInv
    <3> QED BY <1>1, <2>1, <3>1 DEF CountInv, config
  <2>6. CheckInv'
    <3>1. After(method, obj'.id, obj.id) /\ obj.id \notin IdsOf(yielded)
      <4>1. obj'.id \in IdsOf(objects)
        BY <1>2, <2>1, Popped DEF Inv, Types, OrderInv
      <4>2. \A x \in IdsOf(yielded) : After(method, obj.id, x)
        BY <1>1 DEF Inv, OrderInv, Holding
      <4> QED BY <1>1, <4>1, <4>2, InvTyped, Afters DEF Inv, OrderInv, Holding
    <3> QED BY <1>1, <2>1, <3>1 DEF Inv, CheckInv, Excused, config, world
  <2>7. LoseInv'
    BY <1>1, <2>1 DEF LoseInv, FewLost, config
  <2> QED BY <2>2, <2>5, <2>6, <2>7 DEF Inv
<1>3. CASE objects = << >>
  <2>1. at' = "done" /\ UNCHANGED <<objects, obj>>
    BY <1>1, <1>3 DEF SkipNext, Pop
  <2>2. Types' /\ OrderInv'
    <3>1. object_count' \in Int /\ method \notin Lists
      BY <1>1, InvTyped DEF Iterators, Lists
    <3>2. Types'
      BY <1>1, <2>1, <3>1 DEF Inv, Types, config, world, Holding
    <3> QED BY <1>1, <2>1, <3>2 DEF Inv, OrderInv, config, world, Holding
  <2>3. CoverInv'
    BY <1>1, <2>1 DEF Inv, CoverInv, config, world, Holding, Wanted
  <2>4. InHand = 1 /\ InHand' = 0
    BY <1>1, <2>1 DEF InHand, Holding
  <2>5. CountInv'
    <3>1. /\ Len(yielded) + InHand' + Len(objects) <= object_count'
          /\ object_count' <= maximum /\ (~stop => object_count' < maximum)
      BY <1>1, <2>4, InvTyped DEF Inv, CountInv
    <3> QED BY <1>1, <2>1, <3>1 DEF Inv, CountInv, config
  <2>6. CheckInv' /\ LoseInv'
    BY <1>1, <2>1 DEF Inv, CheckInv, Excused, LoseInv, FewLost, config, world
  <2> QED BY <2>2, <2>3, <2>5, <2>6 DEF Inv
<1> QED BY <1>2, <1>3

\* The objects of a page, as a method keeps or yields them.
LEMMA Built ==
  ASSUME Inv, NEW limit \in Nat \ {0}, NEW page, page = Page(limit),
         NEW q \in [DOMAIN page -> Objects], \A i \in DOMAIN page : q[i].id = page[i]
  PROVE  /\ q \in Seq(Objects) /\ Len(q) = Len(page) /\ Len(q) <= limit /\ (page = << >> <=> q = << >>)
         /\ Rising(method, q) /\ page \in Seq(Ids)
         /\ \A x \in IdsOf(q) : x \in list /\ After(method, x, edge)
         /\ Len(q) < limit => \A x \in stayed : After(method, x, edge) => x \in IdsOf(q)
         /\ page # << >> =>
              /\ Last(page) \in IdsOf(q) /\ Len(q) > 0 /\ Last(page) \in Ids
              /\ After(method, Last(page), edge)
              /\ \A x \in IdsOf(q) : ~After(method, x, Last(page))
              /\ \A x \in stayed : ~After(method, x, Last(page)) => ~After(method, x, edge) \/ x \in IdsOf(q)
              /\ \A x \in Int : ~After(method, x, edge) => ~After(method, x, Last(page))
              /\ Len(q) < limit => \A x \in stayed : ~After(method, x, Last(page))
<1>1. list \subseteq Ids /\ stayed \subseteq list /\ edge \in Int
  BY InvTyped DEF Inv, Types
<1>2. page \in Seq(Ids)
  BY <1>1, Paged
<1>3. q \in Seq(Objects) /\ Len(q) = Len(page) /\ DOMAIN page = 1..Len(page)
  BY <1>2
<1>4. /\ Len(q) <= limit /\ (page = << >> <=> q = << >>) /\ Rising(method, q)
      /\ \A x \in IdsOf(q) : x \in list /\ After(method, x, edge)
      /\ Len(q) < limit => \A x \in list : After(method, x, edge) => x \in IdsOf(q)
      /\ page # << >> =>
           /\ Last(page) \in IdsOf(q) /\ Len(q) > 0
           /\ \A x \in IdsOf(q) : ~After(method, x, Last(page))
           /\ \A x \in list : After(method, x, edge) /\ ~After(method, x, Last(page)) => x \in IdsOf(q)
  BY <1>1, <1>3, Fetched
<1>5. ASSUME page # << >>
      PROVE  /\ Last(page) \in Ids /\ After(method, Last(page), edge)
             /\ \A x \in Int : ~After(method, x, edge) => ~After(method, x, Last(page))
  <2>1. Last(page) \in Ids /\ Last(page) \in Int /\ After(method, Last(page), edge)
    BY <1>1, <1>4, <1>5, IdsInt
  <2> QED BY <1>1, <2>1, Afters
<1>6. ASSUME page # << >>, Len(q) < limit, NEW x \in stayed PROVE ~After(method, x, Last(page))
  <2>1. x \in Int
    BY <1>1, IdsInt
  <2> QED BY <1>1, <1>4, <1>5, <1>6, <2>1
<1> QED BY <1>1, <1>2, <1>3, <1>4, <1>5, <1>6

LEMMA FirstKeeps == ASSUME Inv, get_first_objects PROVE Inv'
<1> DEFINE limit == Least(maximum, First)
           page == Page(limit)
           q == [i \in DOMAIN page |-> [id |-> page[i], found |-> TRUE]]
<1>1. /\ at = "start" /\ method \in Iterators /\ UNCHANGED <<config, world, obj, yielded>>
      /\ objects = << >> /\ yielded = << >> /\ object_count = 0 /\ IdsOf(objects) = {} /\ IdsOf(yielded) = {}
  BY DEF get_first_objects, Inv, CountInv, IdsOf
<1>2. limit \in Nat \ {0} /\ limit <= maximum /\ limit <= First /\ (limit = maximum \/ limit = First)
  BY Sizes, PagingAssumption DEF Inv, Types, Least
<1>3. page = << >> =>
        at' \in {"raised", "done"} /\ stop' = (maximum = limit) /\ UNCHANGED <<objects, object_count, edge>>
  BY DEF get_first_objects
<1>4. page # << >> => /\ at' = "pop" /\ edge' = Last(page) /\ stop' = (maximum = limit \/ Len(page) < First)
                      /\ object_count' = object_count + limit /\ objects' = q
  BY DEF get_first_objects
<1> HIDE DEF limit
<1>5. page \in Seq(Ids)
  BY <1>2, Paged DEF Inv, Types
<1> HIDE DEF page
<1>6. q \in [DOMAIN page -> Objects] /\ \A i \in DOMAIN page : q[i].id = page[i]
  BY <1>5 DEF Objects
<1> HIDE DEF q
<1>7. page = Page(limit)
  BY DEF page
<1>8. Len(q) < limit => \A x \in stayed : After(method, x, edge) => x \in IdsOf(q)
  BY <1>2, <1>6, <1>7, Built
<1>9. CASE page = << >>
  <2>1. stop' \in BOOLEAN /\ method \notin Lists
    BY <1>1, <1>3, <1>9 DEF Iterators, Lists
  <2>2. Types'
    BY <1>1, <1>3, <1>9, <2>1 DEF Inv, Types, config, world, Holding
  <2>3. OrderInv' /\ CoverInv'
    BY <1>1, <1>3, <1>9 DEF Inv, OrderInv, CoverInv, config, world, Holding, Wanted
  <2>4. InHand = 0 /\ InHand' = 0
    BY <1>1, <1>3, <1>9 DEF InHand, Holding
  <2>5. CountInv'
    <3>1. 0 < maximum
      BY <1>2, InvTyped
    <3> QED BY <1>1, <1>3, <1>9, <2>4, <3>1 DEF Inv, CountInv, config
  <2>6. CheckInv'
    BY <1>1, <1>3, <1>9 DEF Inv, CheckInv, Excused, config
  <2>7. FewLost'
    <3>1. CASE check # "none"
      BY <1>1, <3>1 DEF FewLost, config
    <3>2. CASE check = "none"
      <4>1. q = << >> /\ Len(q) < limit /\ IdsOf(q) = {} /\ rejected = {}
        BY <1>2, <1>6, <1>7, <1>9, <3>2, Built DEF IdsOf, Inv, Types
      <4>2. \A x \in stayed : After(method, x, edge) => x \in IdsOf(q)
        BY <1>8, <4>1
      <4>3. \A x \in stayed : After(method, x, edge)
        BY <1>1, <4>1 DEF Inv, CoverInv, Holding
      <4> QED BY <1>1, <4>1, <4>2, <4>3, AllKept DEF world
    <3> QED BY <3>1, <3>2
  <2> QED BY <1>1, <1>3, <1>9, <2>2, <2>3, <2>5, <2>6, <2>7 DEF Inv, LoseInv
<1>10. CASE page # << >>
  <2>1. /\ objects' = q /\ at' = "pop" /\ edge' = Last(page) /\ object_count' = limit /\ object_count' \in Nat
        /\ stop' = (maximum = limit \/ Len(q) < First) /\ stop' \in BOOLEAN
    BY <1>1, <1>2, <1>4, <1>6, <1>7, <1>10, Built
  <2>2. /\ q \in Seq(Objects) /\ Len(q) <= limit /\ Len(q) \in Nat /\ Len(q) > 0 /\ Rising(method, q) /\ q # << >>
        /\ Last(page) \in 0..MaxId + 1
        /\ \A x \in IdsOf(q) : ~After(method, x, Last(page))
        /\ \A x \in stayed : ~After(method, x, Last(page)) => ~After(method, x, edge) \/ x \in IdsOf(q)
        /\ Len(q) < limit => \A x \in stayed : ~After(method, x, Last(page))
    <3>1. /\ q \in Seq(Objects) /\ Len(q) <= limit /\ Len(q) > 0 /\ Rising(method, q) /\ q # << >>
          /\ Last(page) \in Ids
      BY <1>2, <1>6, <1>7, <1>10, Built
    <3>2. \A x \in IdsOf(q) : ~After(method, x, Last(page))
      BY <1>2, <1>6, <1>7, <1>10, Built
    <3>3. \A x \in stayed : ~After(method, x, Last(page)) => ~After(method, x, edge) \/ x \in IdsOf(q)
      BY <1>2, <1>6, <1>7, <1>10, Built
    <3>4. Len(q) < limit => \A x \in stayed : ~After(method, x, Last(page))
      BY <1>2, <1>6, <1>7, <1>10, Built
    <3>5. Len(q) \in Nat /\ Last(page) \in 0..MaxId + 1
      <4>1. Len(q) \in Nat
        BY <3>1
      <4>2. Last(page) \in 0..MaxId + 1
        BY <3>1, Sizes
      <4> QED BY <4>1, <4>2
    <3> QED BY <3>1, <3>2, <3>3, <3>4, <3>5
  <2>3. Types'
    <3>1. method \notin Lists
      BY <1>1 DEF Iterators, Lists
    <3> QED BY <1>1, <2>1, <2>2, <3>1 DEF Inv, Types, config, world, Holding
  <2>4. OrderInv'
    BY <1>1, <2>1, <2>2 DEF Inv, OrderInv, config, Holding
  <2>5. CoverInv'
    BY <1>1, <2>1, <2>2 DEF Inv, CoverInv, config, world, Holding, Wanted
  <2>6. InHand' = 0 /\ Len(yielded) = 0
    BY <1>1, <2>1 DEF InHand, Holding
  <2>7. CountInv'
    <3>1. object_count' <= maximum /\ (~stop' => object_count' < maximum)
      <4>1. limit <= maximum /\ (limit = maximum \/ limit < maximum)
        BY <1>2, InvTyped
      <4>2. ~stop' => maximum # limit
        BY <2>1, Zenon
      <4> QED BY <2>1, <4>1, <4>2
    <3>2. Len(yielded) + InHand' + Len(objects') <= object_count' /\ Len(objects') <= First + Low
      BY <1>2, <2>1, <2>2, <2>6, Sizes
    <3> QED BY <1>1, <2>1, <3>1, <3>2 DEF CountInv, config
  <2>8. CheckInv'
    BY <1>1, <2>1 DEF Inv, CheckInv, Excused, config
  <2>9. LoseInv'
    <3>1. Len(q) < limit => Exhausted'
      BY <1>1, <2>1, <2>2 DEF Exhausted, config, world
    <3>2. Len(q) = limit => Len(yielded) + InHand' + Len(objects') = object_count'
      BY <2>1, <2>2, <2>6
    <3>3. stop' => Len(q) < limit \/ object_count' = maximum
      BY <1>2, <2>1, <2>2, Sizes
    <3>4. Len(q) < limit \/ Len(q) = limit
      BY <1>2, <2>2
    <3> QED BY <1>1, <2>1, <2>2, <3>1, <3>2, <3>3, <3>4 DEF LoseInv, FewLost, config
  <2> QED BY <2>3, <2>4, <2>5, <2>7, <2>8, <2>9 DEF Inv
<1> QED BY <1>9, <1>10

\* At most as many objects are lost as were in hand when a page came empty.
LEMMA InHandFew ==
  ASSUME NEW q \in Seq(Objects), Len(q) < Low, NEW x, NEW S, S \subseteq {x} \cup IdsOf(q)
  PROVE  Cardinality(S) <= Low
<1> DEFINE f == [i \in 1..Len(q) |-> q[i].id]
<1>1. DOMAIN q = 1..Len(q) /\ Len(q) \in Nat
  OBVIOUS
<1>2. f \in Surjection(1..Len(q), IdsOf(q))
  BY <1>1 DEF Surjection, IdsOf
<1>3. IsFiniteSet(1..Len(q)) /\ Cardinality(1..Len(q)) = Len(q)
  BY <1>1, FS_Interval
<1> HIDE DEF f
<1>4. IsFiniteSet(IdsOf(q)) /\ Cardinality(IdsOf(q)) <= Len(q) /\ Cardinality(IdsOf(q)) \in Nat
  BY <1>2, <1>3, FS_Surjection, FS_CardinalityType
<1> DEFINE T == IdsOf(q) \cup {x}
<1>5. IsFiniteSet(T) /\ Cardinality(T) <= Cardinality(IdsOf(q)) + 1 /\ Cardinality(T) \in Nat
  <2>1. IsFiniteSet(T) /\ (Cardinality(T) = Cardinality(IdsOf(q)) \/ Cardinality(T) = Cardinality(IdsOf(q)) + 1)
    BY <1>4, FS_AddElement
  <2> QED BY <1>4, <2>1, FS_CardinalityType
<1>6. S \in SUBSET T
  OBVIOUS
<1> HIDE DEF T
<1>7. Cardinality(S) <= Cardinality(T) /\ Cardinality(S) \in Nat
  BY <1>5, <1>6, FS_Subset, FS_CardinalityType
<1> QED BY <1>1, <1>4, <1>5, <1>7, Sizes

LEMMA EndKeeps == ASSUME Inv, End PROVE Inv'
<1> DEFINE limit == NextLimit
           page == Page(limit)
           q == [i \in DOMAIN page |-> [id |-> page[i], found |-> Found(page[i])]]
           Due == PageDue /\ object_count <= maximum
<1>1. /\ at = "end" /\ method \in Iterators /\ method \notin Lists /\ UNCHANGED <<config, world, obj, yielded>>
      /\ at \in Holding /\ at \notin {"start", "done", "raised"}
  BY DEF End, GetObjectsIf, Inv, Types, Holding, Iterators, Lists
<1>2. ~Due => at' = "return" /\ UNCHANGED <<objects, object_count, stop, edge>>
  BY DEF End, GetObjectsIf
<1>3. Due /\ page = << >> => at' = "done" /\ UNCHANGED <<objects, object_count, stop, edge>>
  BY DEF End, GetObjectsIf, get_objects
<1>4. Due /\ page # << >> =>
        /\ at' = "return" /\ edge' = Last(page) /\ objects' = objects \o q
        /\ stop' = (Len(page) < limit \/ limit = maximum - object_count)
        /\ object_count' = object_count + limit
  BY DEF End, GetObjectsIf, get_objects, NextEdge
<1>5. Due <=> ~stop /\ Len(objects) < Low
  BY <1>1, InvTyped DEF PageDue, Inv, CountInv
<1>6. ~stop => /\ limit \in Nat \ {0} /\ limit <= More /\ limit <= maximum - object_count
               /\ (limit = More \/ limit = maximum - object_count)
  BY InvTyped, Sizes DEF Inv, CountInv, NextLimit, Least
<1> HIDE DEF Due
<1>7. CASE ~Due
  <2>1. at' = "return" /\ UNCHANGED <<config, world, iterator, yielded>>
    BY <1>1, <1>2, <1>7 DEF iterator
  <2>2. InHand' = InHand
    BY <1>1, <2>1 DEF InHand, Holding
  <2>3. Types' /\ OrderInv'
    BY <1>1, <2>1 DEF Inv, Types, OrderInv, config, world, iterator, Holding
  <2>4. CoverInv'
    BY <1>1, <2>1 DEF Inv, CoverInv, config, world, iterator, Holding, Wanted
  <2>5. CountInv' /\ CheckInv'
    BY <1>1, <2>1, <2>2 DEF Inv, CountInv, CheckInv, Excused, config, world, iterator
  <2>6. objects = << >> => stop
    BY <1>5, <1>7, Sizes
  <2>7. LoseInv'
    BY <1>1, <2>1, <2>2, <2>6 DEF Inv, LoseInv, FewLost, Exhausted, config, world, iterator, Holding
  <2> QED BY <2>3, <2>4, <2>5, <2>7 DEF Inv
<1>8. Due => limit \in Nat \ {0}
  BY <1>5, <1>6
<1> HIDE DEF limit
<1>9. Due => page \in Seq(Ids)
  BY <1>8, Paged DEF Inv, Types
<1>10. page = Page(limit)
  OBVIOUS
<1> HIDE DEF page
<1>11. Due => q \in [DOMAIN page -> Objects] /\ \A i \in DOMAIN page : q[i].id = page[i]
  BY <1>9 DEF Objects, Found
<1> HIDE DEF q
<1>12. CASE Due /\ page = << >>
  <2>1. at' = "done" /\ UNCHANGED <<config, world, iterator, yielded>>
    BY <1>1, <1>3, <1>12 DEF iterator
  <2>2. Types' /\ OrderInv'
    BY <1>1, <2>1 DEF Inv, Types, OrderInv, config, world, iterator, Holding
  <2>3. CoverInv'
    BY <1>1, <2>1 DEF Inv, CoverInv, config, world, iterator, Holding, Wanted
  <2>4. InHand = 1 /\ InHand' = 0
    BY <1>1, <2>1 DEF InHand, Holding
  <2>5. CountInv'
    <3>1. Len(yielded) + InHand' + Len(objects) <= object_count
      BY <1>1, <2>4, InvTyped DEF Inv, CountInv
    <3> QED BY <1>1, <2>1, <3>1 DEF Inv, CountInv, config, world, iterator
  <2>6. CheckInv'
    BY <1>1, <2>1 DEF Inv, CheckInv, Excused, config, world, iterator
  <2>7. FewLost'
    <3>1. CASE check # "none"
      BY <1>1, <3>1 DEF FewLost, config
    <3>2. CASE check = "none"
      <4>1. Len(q) < limit => \A x \in stayed : After(method, x, edge) => x \in IdsOf(q)
        BY <1>8, <1>10, <1>11, <1>12, Built
      <4>2. q = << >>
        BY <1>8, <1>10, <1>11, <1>12, Built
      <4>3. IdsOf(q) = {} /\ Len(q) < limit
        BY <1>8, <1>12, <4>2 DEF IdsOf
      <4>4. rejected = {}
        BY <3>2 DEF Inv, Types
      <4>5. stayed \ IdsOf(yielded) \subseteq {obj.id} \cup IdsOf(objects)
        BY <1>1, <4>1, <4>3, <4>4 DEF Inv, CoverInv
      <4>6. objects \in Seq(Objects) /\ Len(objects) < Low
        BY <1>5, <1>12 DEF Inv, Types
      <4>7. Cardinality(stayed \ IdsOf(yielded)) <= Low
        BY <4>5, <4>6, InHandFew
      <4>8. Yielded' = IdsOf(yielded) /\ stayed' = stayed /\ method' = method
        BY <2>1 DEF Yielded, IdsOf, world, config
      <4> QED BY <1>1, <4>7, <4>8 DEF FewLost
    <3> QED BY <3>1, <3>2
  <2> QED BY <2>1, <2>2, <2>3, <2>5, <2>6, <2>7 DEF Inv, LoseInv
<1>13. CASE Due /\ page # << >>
  <2>1. /\ q \in Seq(Objects) /\ Len(q) = Len(page) /\ Len(q) <= limit /\ Len(q) > 0 /\ Rising(method, q)
        /\ Last(page) \in Ids /\ After(method, Last(page), edge)
    BY <1>8, <1>10, <1>11, <1>13, Built
  <2>2. \A x \in IdsOf(q) : After(method, x, edge) /\ ~After(method, x, Last(page))
    BY <1>8, <1>10, <1>11, <1>13, Built
  <2>3. \A x \in stayed : ~After(method, x, Last(page)) => ~After(method, x, edge) \/ x \in IdsOf(q)
    BY <1>8, <1>10, <1>11, <1>13, Built
  <2>4. \A x \in Int : ~After(method, x, edge) => ~After(method, x, Last(page))
    BY <1>8, <1>10, <1>11, <1>13, Built
  <2>5. Len(q) < limit => \A x \in stayed : ~After(method, x, Last(page))
    BY <1>8, <1>10, <1>11, <1>13, Built
  <2>6. /\ at' = "return" /\ edge' = Last(page) /\ objects' = objects \o q
        /\ stop' = (Len(q) < limit \/ limit = maximum - object_count)
        /\ object_count' = object_count + limit
    BY <1>4, <1>13, <2>1
  <2>7. ~stop /\ Len(objects) < Low
    BY <1>5, <1>13
  <2>8. /\ limit \in Nat \ {0} /\ limit <= More /\ limit <= maximum - object_count
        /\ (limit = More \/ limit = maximum - object_count)
    BY <1>6, <2>7
  <2> DEFINE r == objects \o q
  <2>9. /\ r \in Seq(Objects) /\ Len(r) = Len(objects) + Len(q)
        /\ IdsOf(r) = IdsOf(objects) \cup IdsOf(q) /\ Rising(method, r)
    <3> DEFINE p == objects
    <3>1. p \in Seq(Objects) /\ q \in Seq(Objects) /\ r = p \o q /\ Rising(method, p) /\ Rising(method, q)
      BY <2>1 DEF Inv, Types, OrderInv
    <3>2. Follows(method, p, q)
      <4> SUFFICES ASSUME NEW x \in IdsOf(objects), NEW y \in IdsOf(q) PROVE After(method, y, x)
        BY DEF Follows
      <4>1. ~After(method, x, edge) /\ After(method, y, edge) /\ x \in Int
        BY <1>1, <2>2, InvTyped DEF Inv, OrderInv
      <4>2. y \in Int
        BY <2>1, IdsTyped
      <4> QED BY <4>1, <4>2, InvTyped, Afters
    <3> HIDE DEF p, r
    <3>3. /\ r \in Seq(Objects) /\ Len(r) = Len(p) + Len(q)
          /\ IdsOf(r) = IdsOf(p) \cup IdsOf(q) /\ Rising(method, r)
      <4>1. r \in Seq(Objects) /\ Len(r) = Len(p) + Len(q)
        BY <3>1
      <4>2. Rising(method, r)
        BY <3>1, <3>2, Joined
      <4>3. IdsOf(r) = IdsOf(p) \cup IdsOf(q)
        BY <3>1, <3>2, Joined
      <4> QED BY <4>1, <4>2, <4>3
    <3> QED BY <3>3 DEF p
  <2>10. objects' = r
    BY <2>6
  <2> HIDE DEF r
  <2>11. Types'
    <3>1. stop' \in BOOLEAN
      BY <2>6
    <3>2. object_count' \in Int
      BY <2>6, <2>8, InvTyped
    <3> QED BY <1>1, <2>1, <2>6, <2>9, <2>10, <3>1, <3>2, Sizes DEF Inv, Types, config, world, Holding
  <2>12. OrderInv'
    <3>1. ASSUME NEW x \in IdsOf(yielded) \cup IdsOf(objects) \cup {obj.id}, NEW y \in IdsOf(q)
          PROVE  After(method, y, x)
      <4>1. ~After(method, x, edge) /\ After(method, y, edge) /\ x \in Int
        BY <1>1, <2>2, InvTyped DEF Inv, OrderInv
      <4>2. y \in Int
        BY <2>1, IdsTyped
      <4> QED BY <4>1, <4>2, InvTyped, Afters
    <3>2. ASSUME NEW x \in IdsOf(yielded) \cup IdsOf(r) \cup {obj.id} PROVE ~After(method, x, Last(page))
      <4>1. CASE x \in IdsOf(q)
        BY <2>2, <4>1
      <4>2. CASE x \notin IdsOf(q)
        <5>1. x \in IdsOf(yielded) \cup IdsOf(objects) \cup {obj.id} /\ x \in Int
          BY <2>9, <4>2, InvTyped
        <5>2. ~After(method, x, edge)
          BY <1>1, <5>1 DEF Inv, OrderInv
        <5> QED BY <2>4, <5>1, <5>2
      <4> QED BY <4>1, <4>2
    <3>3. /\ obj.id \in Ids /\ Rising(method, yielded) /\ \A x \in IdsOf(yielded) : After(method, obj.id, x)
          /\ \A y \in IdsOf(objects) : After(method, y, obj.id)
          /\ \A x \in IdsOf(yielded), y \in IdsOf(objects) : After(method, y, x)
      BY <1>1 DEF Inv, OrderInv
    <3> QED BY <1>1, <2>6, <2>9, <2>10, <3>1, <3>2, <3>3 DEF OrderInv, config
  <2>13. CoverInv'
    <3>1. \A x \in stayed : ~After(method, x, Last(page)) =>
            x \in rejected \cup IdsOf(yielded) \cup IdsOf(r) \/ x = obj.id
      BY <1>1, <2>3, <2>9 DEF Inv, CoverInv
    <3> QED BY <1>1, <2>6, <2>10, <3>1 DEF Inv, CoverInv, config, world, Holding, Wanted
  <2>14. InHand = 1 /\ InHand' = 1 /\ Len(q) \in Nat
    <3>1. Len(q) \in Nat
      BY <2>1
    <3> QED BY <1>1, <2>6, <3>1 DEF InHand, Holding
  <2>15. CountInv'
    <3>1. object_count' <= maximum
      BY <2>6, <2>8, InvTyped
    <3>2. ~stop' => object_count' < maximum
      <4>1. ~stop' => limit # maximum - object_count
        BY <2>6, Zenon
      <4> QED BY <2>6, <2>8, <4>1, InvTyped
    <3>3. Len(yielded) + InHand' + Len(r) <= object_count'
      BY <1>1, <2>1, <2>6, <2>8, <2>9, <2>14, InvTyped DEF Inv, CountInv
    <3>4. Len(r) <= First + Low
      BY <2>1, <2>7, <2>8, <2>9, <2>14, InvTyped, Sizes
    <3> QED BY <1>1, <2>6, <2>10, <3>1, <3>2, <3>3, <3>4 DEF CountInv, config
  <2>16. CheckInv'
    BY <1>1, <2>6 DEF Inv, CheckInv, Excused, config
  <2>17. LoseInv'
    <3>1. Len(q) < limit => Exhausted'
      BY <1>1, <2>5, <2>6 DEF Exhausted, config, world
    <3>2. Exhausted => Exhausted'
      <4>1. \A x \in stayed : x \in Int
        BY IdsInt DEF Inv, Types
      <4> QED BY <1>1, <2>4, <2>6, <4>1 DEF Exhausted, config, world
    <3>3. Len(q) = limit /\ Len(yielded) + InHand + Len(objects) = object_count =>
            Len(yielded) + InHand' + Len(r) = object_count'
      BY <2>6, <2>8, <2>9, <2>14, InvTyped
    <3>4. stop' => Len(q) < limit \/ object_count' = maximum
      <4>1. stop' => Len(q) < limit \/ limit = maximum - object_count
        BY <2>6, Zenon
      <4> QED BY <2>6, <2>8, <4>1, InvTyped
    <3>5. Len(q) < limit \/ Len(q) = limit
      BY <2>1, <2>8, <2>14
    <3>6. r # << >>
      BY <2>1, <2>9, <2>14, InvTyped
    <3>7. check = "none" => Exhausted \/ Len(yielded) + InHand + Len(objects) = object_count
      BY <1>1 DEF Inv, LoseInv
    <3> QED BY <1>1, <2>6, <2>10, <3>1, <3>2, <3>3, <3>4, <3>5, <3>6, <3>7 DEF LoseInv, FewLost, config
  <2> QED BY <2>11, <2>12, <2>13, <2>15, <2>16, <2>17 DEF Inv
<1> QED BY <1>7, <1>12, <1>13

\* A method that returns a list reads one page.
LEMMA ListKeeps ==
  ASSUME Inv, get_all_bans \/ get_all_members \/ get_users_from_reaction \/ get_full_audit_logs
  PROVE  Inv'
<1> DEFINE page == Page(First)
           q == [i \in DOMAIN page |-> [id |-> page[i], found |-> TRUE]]
           r == yielded \o q
<1>1. /\ method \in Lists /\ method \notin Iterators /\ at = "start" /\ yielded' = r
      /\ UNCHANGED <<config, world, objects, object_count, stop, obj>>
      /\ Len(page) < First => at' = "done" /\ edge' = edge
      /\ Len(page) >= First => \/ at' = "start" /\ edge' = Last(page)
                               \/ at' = "raised" /\ edge' = edge
  <2>1. method \in Lists /\ method \notin Iterators
    BY DEF get_all_bans, get_all_members, get_users_from_reaction, get_full_audit_logs, Lists, Iterators
  <2>2. ReadPage(Onward) \/ ReadPage(Raises)
    BY Zenon DEF get_all_bans, get_all_members, get_users_from_reaction, get_full_audit_logs
  <2>3. /\ at = "start" /\ yielded' = r /\ UNCHANGED <<config, world, objects, object_count, stop, obj>>
        /\ IF Len(page) < First THEN at' = "done" /\ UNCHANGED edge
           ELSE \/ at' = "start" /\ edge' = Last(page)
                \/ at' = "raised" /\ edge' = edge
    <3>1. CASE ReadPage(Onward)
      BY <3>1 DEF ReadPage, Onward, Received
    <3>2. CASE ReadPage(Raises)
      BY <3>2 DEF ReadPage, Raises, Received
    <3> QED BY <2>2, <3>1, <3>2
  <2>4. Len(page) < First => ~(Len(page) >= First)
    <3>1. page \in Seq(Ids)
      BY PagingAssumption, Paged DEF Inv, Types
    <3> HIDE DEF page
    <3>2. Len(page) \in Nat
      BY <3>1
    <3> QED BY <3>2, Sizes
  <2> HIDE DEF page, r
  <2> QED BY <2>1, <2>3, <2>4
<1>2. /\ check = "none" /\ object_count = 0 /\ objects = << >> /\ ~stop /\ maximum = Infinity /\ rejected = {}
      /\ IdsOf(objects) = {} /\ Len(objects) = 0 /\ edge \in 0..MaxId + 1
  BY <1>1 DEF Inv, Types, IdsOf
<1>3. First \in Nat \ {0}
  BY PagingAssumption
<1>4. page \in Seq(Ids) /\ page = Page(First)
  BY <1>3, Paged DEF Inv, Types
<1> HIDE DEF page
<1>5. q \in [DOMAIN page -> Objects] /\ \A i \in DOMAIN page : q[i].id = page[i]
  BY <1>4 DEF Objects
<1> HIDE DEF q
<1>6. /\ q \in Seq(Objects) /\ Len(q) = Len(page) /\ Len(q) \in Nat /\ Rising(method, q)
      /\ \A x \in IdsOf(q) : x \in list /\ After(method, x, edge)
  <2>1. q \in Seq(Objects) /\ Len(q) = Len(page) /\ Rising(method, q)
    BY <1>3, <1>4, <1>5, Built
  <2>2. \A x \in IdsOf(q) : x \in list /\ After(method, x, edge)
    BY <1>3, <1>4, <1>5, Built
  <2> QED BY <2>1, <2>2
<1>7. Len(q) < First => \A x \in stayed : After(method, x, edge) => x \in IdsOf(q)
  BY <1>3, <1>4, <1>5, Built
<1>8. Len(q) >= First => page # << >>
  BY <1>3, <1>6
<1>9. page # << >> =>
        /\ Last(page) \in Ids
        /\ \A x \in IdsOf(q) : ~After(method, x, Last(page))
        /\ \A x \in stayed : ~After(method, x, Last(page)) => ~After(method, x, edge) \/ x \in IdsOf(q)
        /\ \A x \in Int : ~After(method, x, edge) => ~After(method, x, Last(page))
  <2>1. page # << >> => Last(page) \in Ids /\ \A x \in IdsOf(q) : ~After(method, x, Last(page))
    BY <1>3, <1>4, <1>5, Built
  <2>2. page # << >> =>
        \A x \in stayed : ~After(method, x, Last(page)) => ~After(method, x, edge) \/ x \in IdsOf(q)
    BY <1>3, <1>4, <1>5, Built
  <2>3. page # << >> => \A x \in Int : ~After(method, x, edge) => ~After(method, x, Last(page))
    BY <1>3, <1>4, <1>5, Built
  <2> QED BY <2>1, <2>2, <2>3
<1>10. \A x \in IdsOf(yielded) : ~After(method, x, edge) /\ x \in Int
  BY <1>1, InvTyped DEF Inv, OrderInv
<1>11. /\ r \in Seq(Objects) /\ IdsOf(r) = IdsOf(yielded) \cup IdsOf(q) /\ Rising(method, r)
  <2> DEFINE p == yielded
  <2>1. p \in Seq(Objects) /\ r = p \o q /\ Rising(method, p)
    BY DEF Inv, Types, OrderInv
  <2>2. Follows(method, p, q)
    <3> SUFFICES ASSUME NEW x \in IdsOf(yielded), NEW y \in IdsOf(q) PROVE After(method, y, x)
      BY DEF Follows
    <3>1. ~After(method, x, edge) /\ After(method, y, edge) /\ x \in Int /\ y \in Int
      BY <1>6, <1>10, IdsTyped
    <3> QED BY <3>1, InvTyped, Afters
  <2> HIDE DEF p, r
  <2>3. r \in Seq(Objects) /\ IdsOf(r) = IdsOf(p) \cup IdsOf(q) /\ Rising(method, r)
    <3>1. r \in Seq(Objects)
      BY <1>6, <2>1
    <3>2. Rising(method, r)
      BY <1>6, <2>1, <2>2, Joined
    <3>3. IdsOf(r) = IdsOf(p) \cup IdsOf(q)
      BY <1>6, <2>1, <2>2, Joined
    <3> QED BY <3>1, <3>2, <3>3
  <2> QED BY <2>3 DEF p
<1> HIDE DEF r
<1>12. /\ at' \in {"start", "done", "raised"}
       /\ at' = "start" => edge' = Last(page) /\ page # << >>
       /\ at' # "start" => edge' = edge
       /\ at' = "done" => Len(q) < First
  <2>1. Len(page) < First \/ Len(page) >= First
    BY <1>3, <1>6
  <2> QED BY <1>1, <1>6, <1>8, <2>1
<1>13. Types'
  <2>1. edge' \in 0..MaxId + 1
    BY <1>2, <1>9, <1>12, Sizes
  <2>2. yielded' \in Seq(Objects)
    BY <1>1, <1>11
  <2>3. at' \in {"start", "pop", "done", "raised"}
    BY <1>12
  <2> QED BY <1>1, <1>2, <1>12, <2>1, <2>2, <2>3 DEF Inv, Types, config, world
<1>14. OrderInv'
  <2>1. at' = "start" => \A x \in IdsOf(r) : ~After(method, x, Last(page))
    BY <1>9, <1>10, <1>11, <1>12
  <2> QED BY <1>1, <1>2, <1>11, <1>12, <2>1 DEF Inv, OrderInv, config, Holding
<1>15. CoverInv'
  <2>1. \A x \in stayed : ~After(method, x, edge) => x \in IdsOf(yielded)
    BY <1>1, <1>2 DEF Inv, CoverInv, Holding
  <2>2. at' = "start" => \A x \in stayed : ~After(method, x, Last(page)) => x \in IdsOf(r)
    BY <1>9, <1>11, <1>12, <2>1
  <2>3. ASSUME NEW y \in IdsOf(r), NEW x \in stayed, After(method, y, x) PROVE x \in IdsOf(r)
    <3>1. x \in Int /\ y \in Int
      BY <1>11, IdsTyped, IdsInt DEF Inv, Types
    <3>2. CASE ~After(method, x, edge)
      BY <1>11, <2>1, <3>2
    <3>3. CASE After(method, x, edge)
      <4>1. y \in IdsOf(q)
        <5>1. After(method, y, edge)
          BY <2>3, <3>1, <3>3, InvTyped, Afters
        <5> QED BY <1>10, <1>11, <5>1
      <4>2. CASE Len(q) < First
        BY <1>7, <1>11, <3>3, <4>2
      <4>3. CASE Len(q) >= First
        <5>1. ~After(method, y, Last(page)) /\ Last(page) \in Int
          BY <1>8, <1>9, <4>1, <4>3, IdsInt
        <5>2. ~After(method, x, Last(page))
          BY <2>3, <3>1, <5>1, Afters
        <5> QED BY <1>8, <1>9, <1>11, <3>3, <4>3, <5>2
      <4> QED BY <1>3, <1>6, <4>2, <4>3
    <3> QED BY <3>2, <3>3
  <2> QED BY <1>1, <1>2, <1>12, <2>2, <2>3 DEF CoverInv, config, world, Holding, Wanted
<1>16. CountInv'
  BY <1>1, <1>2, Sizes DEF CountInv, config
<1>17. CheckInv'
  BY <1>1, <1>2, <1>12 DEF CheckInv, config
<1>18. LoseInv'
  <2>1. CASE at' # "done"
    BY <1>1, <1>12, <2>1 DEF LoseInv, FewLost, config
  <2>2. CASE at' = "done"
    <3>1. \A x \in stayed : ~After(method, x, edge) => x \in IdsOf(yielded)
      BY <1>1, <1>2 DEF Inv, CoverInv, Holding
    <3>2. stayed \subseteq IdsOf(r)
      BY <1>7, <1>11, <1>12, <2>2, <3>1
    <3>3. FewLost'
      BY <1>1, <3>2, AllKept DEF world
    <3> QED BY <2>2, <3>3 DEF LoseInv
  <2> QED BY <2>1, <2>2
<1> QED BY <1>13, <1>14, <1>15, <1>16, <1>17, <1>18 DEF Inv

\* Discord's list changes: what has been asked for does not depend on it any more.
LEMMA ChangedKeeps == ASSUME Inv, Changed PROVE Inv'
<1>1. /\ UNCHANGED <<config, iterator, yielded, at>> /\ changes < MaxChanges /\ changes' = changes + 1
      /\ at # "done"
  BY DEF Changed
<1>2. list' \subseteq Ids /\ stayed' \subseteq list' /\ stayed' \subseteq stayed
  BY DEF Changed, Deleted, Created, Inv, Types
<1>3. Types'
  <2>1. changes' \in 0..MaxChanges
    BY <1>1, PagingAssumption DEF Inv, Types
  <2> QED BY <1>1, <1>2, <2>1 DEF Inv, Types, config, iterator
<1>4. InHand' = InHand
  BY <1>1 DEF InHand
<1>5. OrderInv' /\ CountInv' /\ CheckInv'
  BY <1>1, <1>4 DEF Inv, OrderInv, CountInv, CheckInv, Excused, config, iterator
<1>6. CoverInv'
  BY <1>1, <1>2 DEF Inv, CoverInv, config, iterator, Wanted
<1>7. LoseInv'
  BY <1>1, <1>2, <1>4 DEF Inv, LoseInv, FewLost, Exhausted, config, iterator
<1> QED BY <1>3, <1>5, <1>6, <1>7 DEF Inv

LEMMA StutterKeeps == ASSUME Inv, UNCHANGED vars PROVE Inv'
<1>1. UNCHANGED <<config, world, iterator, yielded, at>>
  BY DEF vars
<1>2. InHand' = InHand /\ Types' /\ OrderInv'
  BY <1>1 DEF InHand, Inv, Types, OrderInv, config, world, iterator
<1>3. CoverInv' /\ CountInv' /\ CheckInv'
  BY <1>1, <1>2 DEF Inv, CoverInv, CountInv, CheckInv, Excused, Wanted, config, world, iterator
<1>4. FewLost'
  BY <1>1 DEF Inv, LoseInv, FewLost, Yielded, config, world
<1>5. LoseInv'
  BY <1>1, <1>2, <1>4 DEF Inv, LoseInv, Exhausted, config, world, iterator
<1> QED BY <1>2, <1>3, <1>5 DEF Inv

\* The invariant, from which what is claimed follows.
LEMMA Invariance == Spec => []Inv
<1>1. Init => Inv
  BY InitInv
<1>2. Inv /\ [Next]_vars => Inv'
  <2> SUFFICES ASSUME Inv, [Next]_vars PROVE Inv'
    OBVIOUS
  <2> QED BY CheckKeeps, SkipKeeps, ReturnKeeps, StartKeeps, SkipNextKeeps, FirstKeeps, EndKeeps, ListKeeps,
             ChangedKeeps, StutterKeeps DEF Next, Step, Ended
<1> QED BY <1>1, <1>2, PTL DEF Spec

----------------------------------------------------------------------------
(* What is claimed *)

LEMMA FewYielded ==
  ASSUME NEW m, NEW q \in Seq(Objects), Rising(m, q)
  PROVE  Len(q) <= MaxId
<1> DEFINE f == [i \in 1..Len(q) |-> q[i].id]
<1>1. DOMAIN q = 1..Len(q) /\ Len(q) \in Nat /\ \A i \in 1..Len(q) : q[i].id \in Ids /\ q[i].id \in Int
  <2>1. DOMAIN q = 1..Len(q) /\ Len(q) \in Nat /\ \A i \in 1..Len(q) : q[i] \in Objects
    OBVIOUS
  <2> QED BY <2>1, IdsInt DEF Objects
<1>2. ASSUME NEW i \in 1..Len(q), NEW j \in 1..Len(q), f[i] = f[j] PROVE i = j
  <2>1. ~(i < j) /\ ~(j < i)
    BY <1>1, <1>2, Afters DEF Rising
  <2> QED BY <1>1, <2>1
<1>3. f \in Injection(1..Len(q), Ids)
  BY <1>1, <1>2 DEF Injection, IsInjective
<1> HIDE DEF f
<1>4. IsFiniteSet(Ids) /\ Cardinality(Ids) = MaxId
  BY Sizes, FS_Interval DEF Ids
<1>5. Cardinality(1..Len(q)) = Len(q)
  <2> DEFINE n == Len(q)
  <2>1. n \in Nat
    BY <1>1
  <2> HIDE DEF n
  <2>2. Cardinality(1..n) = n
    BY <2>1, FS_Interval
  <2> QED BY <2>2 DEF n
<1> QED BY <1>3, <1>4, <1>5, FS_Injection

\* What the methods hold keeps its types, a method that reads page by page never asks for more
\* than the caller's maximum and never holds more than a page and a remainder, and its caller
\* receives no more than the maximum (api/models/channel.py, guild.py).
THEOREM TypeCorrect == Spec => []TypeOK
<1>1. Inv => TypeOK
  <2> SUFFICES ASSUME Inv PROVE TypeOK
    OBVIOUS
  <2>1. Len(yielded) <= maximum
    <3>1. CASE method \in Iterators
      <4>1. Len(yielded) + InHand + Len(objects) <= object_count /\ InHand \in {0, 1} /\ object_count <= maximum
        BY <3>1 DEF Inv, CountInv, InHand
      <4> QED BY <4>1, InvTyped
    <3>2. CASE method \in Lists
      <4>1. Len(yielded) <= MaxId /\ maximum = Infinity
        BY <3>2, FewYielded DEF Inv, Types, OrderInv
      <4> QED BY <4>1, InvTyped, Sizes
    <3> QED BY <3>1, <3>2 DEF Inv, Types
  <2>2. obj.id \in 0..MaxId
    BY DEF Inv, Types
  <2> QED BY <2>1, <2>2 DEF Inv, Types, CountInv, TypeOK, Holding
<1> QED BY <1>1, Invariance, PTL

Ascends(m, s) == \A i, j \in 1..Len(s) : i < j => After(m, s[j], s[i])

LEMMA Chained ==
  ASSUME NEW m, NEW p \in Seq(Int), NEW q \in Seq(Int), NEW r, r = p \o q, Ascends(m, p), Ascends(m, q),
         \A i \in 1..Len(p), j \in 1..Len(q) : After(m, q[j], p[i])
  PROVE  /\ r \in Seq(Int) /\ Ascends(m, r)
         /\ \A k \in 1..Len(r) : (\E i \in 1..Len(p) : r[k] = p[i]) \/ (\E j \in 1..Len(q) : r[k] = q[j])
<1>1. r \in Seq(Int) /\ Len(r) = Len(p) + Len(q) /\ Len(p) \in Nat /\ Len(q) \in Nat
  OBVIOUS
<1>2. \A k \in 1..Len(r) : \/ k \in 1..Len(p) /\ r[k] = p[k]
                           \/ k \notin 1..Len(p) /\ k - Len(p) \in 1..Len(q) /\ r[k] = q[k - Len(p)]
  OBVIOUS
<1>3. ASSUME NEW i \in 1..Len(r), NEW j \in 1..Len(r), i < j PROVE After(m, r[j], r[i])
  <2>1. CASE j \in 1..Len(p)
    <3>1. i \in 1..Len(p) /\ r[i] = p[i] /\ r[j] = p[j]
      BY <1>1, <1>2, <1>3, <2>1
    <3> QED BY <1>3, <2>1, <3>1 DEF Ascends
  <2>2. CASE j \notin 1..Len(p) /\ i \in 1..Len(p)
    BY <1>2, <2>2
  <2>3. CASE j \notin 1..Len(p) /\ i \notin 1..Len(p)
    <3>1. /\ i - Len(p) \in 1..Len(q) /\ r[i] = q[i - Len(p)]
          /\ j - Len(p) \in 1..Len(q) /\ r[j] = q[j - Len(p)]
      BY <1>2, <2>3
    <3>2. i - Len(p) < j - Len(p)
      BY <1>1, <1>3
    <3> QED BY <3>1, <3>2 DEF Ascends
  <2> QED BY <2>1, <2>2, <2>3
<1>4. \A k \in 1..Len(r) : (\E i \in 1..Len(p) : r[k] = p[i]) \/ (\E j \in 1..Len(q) : r[k] = q[j])
  BY <1>2
<1> QED BY <1>1, <1>3, <1>4 DEF Ascends

\* The ids of some objects, in their order.
LEMMA IdSequence ==
  ASSUME NEW m, NEW q \in Seq(Objects), Rising(m, q), NEW s, s = [i \in DOMAIN q |-> q[i].id]
  PROVE  s \in Seq(Int) /\ Ascends(m, s) /\ Len(s) = Len(q) /\ \A i \in 1..Len(s) : s[i] \in IdsOf(q)
<1>1. DOMAIN q = 1..Len(q) /\ Len(q) \in Nat /\ \A i \in 1..Len(q) : q[i].id \in Int
  <2>1. DOMAIN q = 1..Len(q) /\ Len(q) \in Nat /\ \A i \in 1..Len(q) : q[i] \in Objects
    OBVIOUS
  <2> QED BY <2>1, IdsInt DEF Objects
<1>2. s \in Seq(Int) /\ Len(s) = Len(q) /\ \A i \in 1..Len(q) : s[i] = q[i].id
  BY <1>1
<1> QED BY <1>1, <1>2 DEF Ascends, Rising, IdsOf

\* Pages join (AsyncHistoryIterator, AsyncMembersIterator and the methods that return lists): what
\* a caller has received and what is fetched is in order and without duplicates, and nothing that
\* stayed is left out before the last object it was given, whatever changed between the requests;
\* but None may have come in its place, as get_objects() looks messages up in the cache.
THEOREM PagesAreJoined == Spec => []PagesJoin
<1>1. Inv => PagesJoin
  <2> SUFFICES ASSUME Inv PROVE PagesJoin
    OBVIOUS
  <2> DEFINE p == [i \in DOMAIN yielded |-> yielded[i].id]
             h == IF at \in {"check", "skip", "end", "return"} THEN <<obj.id>> ELSE << >>
             q == [i \in DOMAIN objects |-> objects[i].id]
             ph == p \o h
             r == ph \o q
  <2>1. Ahead = r
    BY DEF Ahead
  <2>2. p \in Seq(Int) /\ Ascends(method, p) /\ \A i \in 1..Len(p) : p[i] \in IdsOf(yielded)
    BY IdSequence DEF Inv, Types, OrderInv
  <2>3. q \in Seq(Int) /\ Ascends(method, q) /\ \A i \in 1..Len(q) : q[i] \in IdsOf(objects)
    BY IdSequence DEF Inv, Types, OrderInv
  <2>4. h \in Seq(Int) /\ Ascends(method, h) /\ \A i \in 1..Len(h) : at \in Holding /\ h[i] = obj.id
    <3>1. CASE h = << >>
      BY <3>1 DEF Ascends
    <3>2. CASE h = <<obj.id>> /\ at \in Holding
      <4>1. h \in Seq(Int) /\ Len(h) = 1 /\ h[1] = obj.id
        BY <3>2, InvTyped
      <4> QED BY <3>2, <4>1 DEF Ascends
    <3> QED BY <3>1, <3>2 DEF Holding
  <2> HIDE DEF p, h, q
  <2>5. /\ ph \in Seq(Int) /\ Ascends(method, ph)
        /\ \A k \in 1..Len(ph) : ph[k] \in IdsOf(yielded) \/ (at \in Holding /\ ph[k] = obj.id)
    <3>1. \A i \in 1..Len(p), j \in 1..Len(h) : After(method, h[j], p[i])
      BY <2>2, <2>4 DEF Inv, OrderInv
    <3>2. ph = p \o h
      OBVIOUS
    <3> HIDE DEF ph
    <3>3. /\ ph \in Seq(Int) /\ Ascends(method, ph)
          /\ \A k \in 1..Len(ph) : (\E i \in 1..Len(p) : ph[k] = p[i]) \/ (\E j \in 1..Len(h) : ph[k] = h[j])
      <4> DEFINE m == method
      <4>1. /\ p \in Seq(Int) /\ h \in Seq(Int) /\ ph = p \o h /\ Ascends(m, p) /\ Ascends(m, h)
            /\ \A i \in 1..Len(p), j \in 1..Len(h) : After(m, h[j], p[i])
        BY <2>2, <2>4, <3>1, <3>2
      <4> HIDE DEF m
      <4>2. ph \in Seq(Int) /\ Ascends(m, ph)
        BY <4>1, Chained
      <4>3. ASSUME NEW k \in 1..Len(ph)
            PROVE  (\E i \in 1..Len(p) : ph[k] = p[i]) \/ (\E j \in 1..Len(h) : ph[k] = h[j])
        BY <4>1, Chained
      <4> QED BY <4>2, <4>3 DEF m
    <3> QED BY <2>2, <2>4, <3>3
  <2>6. r = ph \o q
    OBVIOUS
  <2> HIDE DEF ph, r
  <2>7. r \in Seq(Int) /\ Ascends(method, r)
    <3>1. \A i \in 1..Len(ph), j \in 1..Len(q) : After(method, q[j], ph[i])
      BY <2>3, <2>5 DEF Inv, OrderInv
    <3> QED BY <2>3, <2>5, <2>6, <3>1, Chained
  <2>8. ASSUME NEW i \in 1..(Len(Ahead) - 1) PROVE Beyond(Ahead[i + 1], Ahead[i])
    <3>1. i \in 1..Len(r) /\ i + 1 \in 1..Len(r) /\ i < i + 1
      BY <2>1, <2>7
    <3>2. After(method, r[i + 1], r[i])
      BY <2>7, <3>1 DEF Ascends
    <3> QED BY <2>1, <3>2 DEF Beyond, After
  <2>9. ASSUME yielded # << >>, NEW x \in Wanted, Beyond(Last(yielded).id, x) PROVE x \in Obtained \cup Hidden
    <3>1. Last(yielded).id \in IdsOf(yielded)
      <4>1. Len(yielded) \in DOMAIN yielded
        BY <2>9 DEF Inv, Types
      <4> QED BY <4>1 DEF IdsOf, Last
    <3>2. After(method, Last(yielded).id, x)
      BY <2>9 DEF Beyond, After
    <3>3. x \in IdsOf(yielded)
      BY <3>1, <3>2 DEF Inv, CoverInv
    <3> QED BY <3>3 DEF Obtained, Yielded, IdsOf
  <2> QED BY <2>8, <2>9 DEF PagesJoin
<1> QED BY <1>1, Invariance, PTL

\* Only the second object in a row that an asynchronous check rejects is yielded (__anext__ awaits
\* the first call of the check only, api/models/channel.py and guild.py).
THEOREM OnlyUnchecked == Spec => []Unchecked
<1>1. Inv => Unchecked
  <2> SUFFICES ASSUME Inv, NEW i \in DOMAIN yielded, yielded[i].id \in rejected
               PROVE  check = "async" /\ \E x \in rejected : Beyond(yielded[i].id, x) /\ x \notin Yielded
    BY DEF Unchecked
  <2> DEFINE y == yielded[i].id
  <2>1. y \in IdsOf(yielded)
    BY DEF IdsOf
  <2> HIDE DEF y
  <2>2. y \in rejected
    BY DEF y
  <2>3. Excused(y)
    BY <2>1, <2>2 DEF Inv, CheckInv
  <2>4. Yielded = IdsOf(yielded)
    BY DEF Yielded, IdsOf
  <2> QED BY <2>3, <2>4 DEF Excused, Beyond, After, y
<1> QED BY <1>1, Invariance, PTL

----------------------------------------------------------------------------
(* Where the caller receives None *)

\* Without a check, None stands only for messages behind those of the first page, which was full
\* if another one is still to be read.
LateNone(o, i) == ~o.found => method \in Messages /\ i > First
NoneInv == check = "none" =>
  /\ at # "check"
  /\ \A i \in DOMAIN yielded : LateNone(yielded[i], i)
  /\ at \in Holding => LateNone(obj, Len(yielded) + 1)
  /\ at \notin {"done", "raised"} =>
       \A i \in DOMAIN objects : LateNone(objects[i], Len(yielded) + InHand + i)
  /\ method \in Iterators /\ at \notin {"start", "done", "raised"} /\ ~stop =>
       Len(yielded) + InHand + Len(objects) >= First

\* The popped object takes the place it had in the list.
LEMMA StartLate == ASSUME Inv, NoneInv, check = "none", Start PROVE NoneInv'
<1>1. /\ at = "pop" /\ UNCHANGED <<config, world, stop, yielded>> /\ InHand = 0 /\ objects \in Seq(Objects)
      /\ Len(yielded) \in Nat
  BY InvTyped DEF Start, InHand, Holding, Inv, Types
<1>2. CASE objects = << >>
  BY <1>1, <1>2 DEF Start, Pop, NoneInv, LateNone, config, Holding
<1>3. CASE objects # << >>
  <2>1. /\ at' = "end" /\ InHand' = 1 /\ obj' = objects[1] /\ objects' \in Seq(Objects)
        /\ Len(objects') = Len(objects) - 1 /\ Len(objects) \in Nat \ {0}
        /\ \A i \in 1..Len(objects) - 1 : objects'[i] = objects[i + 1]
    BY <1>1, <1>3 DEF Start, Pop, InHand, Holding
  <2>2. LateNone(obj, Len(yielded) + 1)'
    <3>1. LateNone(objects[1], Len(yielded) + 0 + 1)
      BY <1>1, <2>1 DEF NoneInv
    <3> QED BY <1>1, <2>1, <3>1 DEF LateNone, config
  <2>3. ASSUME NEW i \in DOMAIN objects' PROVE LateNone(objects[i], Len(yielded) + InHand + i)'
    <3>1. i + 1 \in DOMAIN objects /\ i \in Nat /\ objects'[i] = objects[i + 1]
      BY <1>1, <2>1
    <3>2. LateNone(objects[i + 1], Len(yielded) + 0 + (i + 1))
      BY <1>1, <3>1 DEF NoneInv
    <3>3. Len(yielded) + 0 + (i + 1) = Len(yielded') + InHand' + i
      BY <1>1, <2>1, <3>1
    <3> QED BY <1>1, <3>1, <3>2, <3>3 DEF LateNone, config
  <2>4. Len(yielded) + InHand + Len(objects) = Len(yielded') + InHand' + Len(objects')
    BY <1>1, <2>1
  <2> QED BY <1>1, <2>1, <2>2, <2>3, <2>4 DEF NoneInv, LateNone, config
<1> QED BY <1>2, <1>3

LEMMA ReturnLate == ASSUME Inv, NoneInv, check = "none", Return PROVE NoneInv'
<1>1. /\ at = "return" /\ at' = "pop" /\ InHand = 1 /\ InHand' = 0 /\ UNCHANGED <<config, world, iterator>>
      /\ yielded \in Seq(Objects) /\ obj \in Objects /\ yielded' = Append(yielded, obj)
  BY DEF Return, InHand, Holding, Inv, Types, OrderInv, Objects
<1>2. /\ Len(yielded') = Len(yielded) + 1 /\ Len(yielded) \in Nat /\ yielded' \in Seq(Objects)
      /\ \A i \in 1..Len(yielded) : yielded'[i] = yielded[i]
      /\ yielded'[Len(yielded) + 1] = obj
  BY <1>1
<1>3. ASSUME NEW i \in DOMAIN yielded' PROVE LateNone(yielded[i], i)'
  <2>1. i \in 1..Len(yielded) \/ i = Len(yielded) + 1
    BY <1>2
  <2> QED BY <1>1, <1>2, <2>1 DEF NoneInv, LateNone, config, Holding
<1>4. ASSUME NEW i \in DOMAIN objects PROVE LateNone(objects[i], Len(yielded) + InHand + i)'
  <2>1. LateNone(objects[i], Len(yielded) + 1 + i) /\ i \in Nat
    BY <1>1 DEF NoneInv, Inv, Types
  <2>2. Len(yielded) + 1 + i = Len(yielded') + InHand' + i
    BY <1>1, <1>2, <2>1
  <2> QED BY <1>1, <2>1, <2>2 DEF LateNone, config, iterator
<1>5. Len(yielded') + InHand' + Len(objects) = Len(yielded) + InHand + Len(objects)
  BY <1>1, <1>2, InvTyped
<1> QED BY <1>1, <1>3, <1>4, <1>5 DEF NoneInv, LateNone, config, iterator, Holding

LEMMA FirstLate == ASSUME Inv, NoneInv, check = "none", get_first_objects PROVE NoneInv'
<1> DEFINE limit == Least(maximum, First)
           page == Page(limit)
           q == [i \in DOMAIN page |-> [id |-> page[i], found |-> TRUE]]
<1>1. at = "start" /\ UNCHANGED <<config, world, obj, yielded>> /\ method \in Iterators /\ yielded = << >>
  BY DEF get_first_objects, Inv, CountInv
<1>2. page = << >> => at' \in {"raised", "done"}
  BY DEF get_first_objects
<1>3. page # << >> => at' = "pop" /\ stop' = (maximum = limit \/ Len(page) < First) /\ objects' = q
  BY DEF get_first_objects
<1>4. limit \in Nat \ {0}
  BY Sizes, PagingAssumption DEF Inv, Types, Least
<1> HIDE DEF limit
<1>5. page \in Seq(Ids)
  BY <1>4, Paged DEF Inv, Types
<1> HIDE DEF page
<1>6. CASE page = << >>
  BY <1>1, <1>2, <1>6 DEF NoneInv, LateNone, config, Holding
<1>7. CASE page # << >>
  <2>1. DOMAIN q = DOMAIN page /\ Len(q) = Len(page) /\ \A i \in DOMAIN q : q[i].found
    BY <1>5
  <2>2. ~stop' => Len(q) >= First
    <3>1. ~stop' => ~(Len(page) < First)
      BY <1>3, <1>7, Zenon
    <3>2. Len(page) \in Nat
      BY <1>5
    <3> QED BY <2>1, <3>1, <3>2, Sizes
  <2> HIDE DEF q
  <2>3. InHand' = 0 /\ Len(yielded') = 0 /\ Len(q) \in Nat
    BY <1>1, <1>3, <1>5, <1>7, <2>1 DEF InHand, Holding
  <2>4. ~stop' => Len(yielded') + InHand' + Len(objects') >= First
    BY <1>3, <1>7, <2>2, <2>3
  <2> QED BY <1>1, <1>3, <1>7, <2>1, <2>4 DEF NoneInv, LateNone, config, Holding
<1> QED BY <1>6, <1>7

LEMMA EndLate == ASSUME Inv, NoneInv, check = "none", End PROVE NoneInv'
<1> DEFINE page == Page(NextLimit)
           q == [i \in DOMAIN page |-> [id |-> page[i], found |-> Found(page[i])]]
<1>1. /\ at = "end" /\ method \in Iterators /\ UNCHANGED <<config, world, obj, yielded>> /\ InHand = 1
      /\ objects \in Seq(Objects) /\ Len(yielded) \in Nat /\ Len(objects) \in Nat
  BY InvTyped DEF End, GetObjectsIf, Inv, Types, Holding, InHand
<1>2. \/ at' = "return" /\ UNCHANGED <<objects, stop>>
      \/ at' = "done"
      \/ at' = "return" /\ objects' = objects \o q /\ PageDue
  BY DEF End, GetObjectsIf, get_objects
<1>3. CASE at' = "return" /\ UNCHANGED <<objects, stop>>
  <2>1. InHand' = 1
    BY <1>3 DEF InHand, Holding
  <2> QED BY <1>1, <1>3, <2>1 DEF NoneInv, LateNone, config, Holding
<1>4. CASE at' = "done"
  BY <1>1, <1>4 DEF NoneInv, LateNone, config, Holding
<1>5. CASE at' = "return" /\ objects' = objects \o q /\ PageDue
  <2>1. /\ ~stop /\ NextLimit \in Nat \ {0}
    BY <1>1, <1>5, InvTyped, Sizes DEF PageDue, Inv, CountInv, NextLimit, Least
  <2>2. page \in Seq(Ids)
    BY <2>1, Paged DEF Inv, Types
  <2> HIDE DEF page
  <2>3. /\ q \in Seq(Objects) /\ Len(q) \in Nat /\ \A i \in DOMAIN q : ~q[i].found => method \in Messages
    <3>1. \A i \in DOMAIN q : q[i].found = Found(page[i])
      OBVIOUS
    <3>2. ASSUME NEW i \in DOMAIN q, ~q[i].found PROVE method \in Messages
      BY <1>1, <3>1, <3>2 DEF Found, Iterators, Messages
    <3>3. q \in Seq(Objects) /\ Len(q) \in Nat
      <4>1. Len(page) \in Nat /\ DOMAIN page = 1..Len(page) /\ \A i \in DOMAIN page : page[i] \in Ids
        BY <2>2
      <4>2. \A i \in DOMAIN page : Found(page[i]) \in BOOLEAN
        BY Zenon DEF Found
      <4>3. \A i \in DOMAIN page : q[i] \in Objects
        BY <4>1, <4>2 DEF Objects
      <4> QED BY <4>1, <4>3
    <3> QED BY <3>2, <3>3
  <2> HIDE DEF q
  <2>4. /\ Len(objects') = Len(objects) + Len(q)
        /\ \A i \in 1..Len(objects) : objects'[i] = objects[i]
        /\ \A i \in 1..Len(objects') : i > Len(objects) => i - Len(objects) \in DOMAIN q /\ objects'[i] = q[i - Len(objects)]
        /\ DOMAIN objects' = 1..Len(objects')
    BY <1>1, <1>5, <2>3
  <2>5. InHand' = 1
    BY <1>5 DEF InHand, Holding
  <2>6. Len(yielded) + 1 + Len(objects) >= First
    BY <1>1, <2>1 DEF NoneInv
  <2>7. ASSUME NEW i \in DOMAIN objects' PROVE LateNone(objects[i], Len(yielded) + InHand + i)'
    <3>1. CASE i \in 1..Len(objects)
      <4>1. LateNone(objects[i], Len(yielded) + InHand + i)
        BY <1>1, <3>1 DEF NoneInv
      <4> QED BY <1>1, <2>4, <2>5, <3>1, <4>1 DEF LateNone, config
    <3>2. CASE i > Len(objects)
      <4>1. i \in Nat /\ Len(yielded) + 1 + i > First
        BY <1>1, <2>3, <2>4, <2>6, <3>2, Sizes
      <4>2. ~objects'[i].found => method \in Messages
        BY <2>3, <2>4, <3>2
      <4> QED BY <1>1, <2>5, <4>1, <4>2 DEF LateNone, config
    <3> QED BY <1>1, <2>4, <3>1, <3>2
  <2>8. Len(yielded') + InHand' + Len(objects') >= First
    BY <1>1, <2>3, <2>4, <2>5, <2>6, Sizes
  <2> QED BY <1>1, <1>5, <2>7, <2>8 DEF NoneInv, LateNone, config, Holding
<1> QED BY <1>2, <1>3, <1>4, <1>5

LEMMA ListLate ==
  ASSUME Inv, NoneInv, check = "none",
         get_all_bans \/ get_all_members \/ get_users_from_reaction \/ get_full_audit_logs
  PROVE  NoneInv'
<1> DEFINE page == Page(First)
           q == [i \in DOMAIN page |-> [id |-> page[i], found |-> TRUE]]
<1>1. /\ method \in Lists /\ method \notin Iterators /\ method \notin Messages
      /\ UNCHANGED <<config, world, objects>> /\ yielded' = yielded \o q /\ objects = << >>
      /\ at' \in {"start", "done", "raised"}
  <2>1. method \in Lists /\ method \notin Iterators /\ method \notin Messages
    BY DEF get_all_bans, get_all_members, get_users_from_reaction, get_full_audit_logs, Lists, Iterators, Messages
  <2>2. ReadPage(Onward) \/ ReadPage(Raises)
    BY Zenon DEF get_all_bans, get_all_members, get_users_from_reaction, get_full_audit_logs
  <2>3. CASE ReadPage(Onward)
    BY <2>1, <2>3 DEF ReadPage, Onward, Received, Inv, Types
  <2>4. CASE ReadPage(Raises)
    BY <2>1, <2>4 DEF ReadPage, Raises, Received, Inv, Types
  <2> QED BY <2>1, <2>2, <2>3, <2>4
<1>2. page \in Seq(Ids)
  BY PagingAssumption, Paged DEF Inv, Types
<1> HIDE DEF page
<1>3. q \in Seq(Objects) /\ \A i \in DOMAIN q : q[i].found
  <2>1. \A i \in DOMAIN q : q[i].found
    OBVIOUS
  <2>2. Len(page) \in Nat /\ DOMAIN page = 1..Len(page) /\ \A i \in DOMAIN page : page[i] \in Ids
    BY <1>2
  <2>3. \A i \in DOMAIN page : q[i] \in Objects
    BY <2>2 DEF Objects
  <2>4. q \in Seq(Objects)
    BY <2>2, <2>3
  <2> QED BY <2>1, <2>4
<1> HIDE DEF q
<1>4. \A i \in DOMAIN yielded : yielded[i].found
  BY <1>1 DEF NoneInv, LateNone
<1>5. \A i \in DOMAIN yielded' : yielded'[i].found
  <2>1. yielded \in Seq(Objects)
    BY DEF Inv, Types
  <2>2. ASSUME NEW i \in DOMAIN yielded'
        PROVE  \/ i \in DOMAIN yielded /\ yielded'[i] = yielded[i]
               \/ i - Len(yielded) \in DOMAIN q /\ yielded'[i] = q[i - Len(yielded)]
    BY <1>1, <1>3, <2>1
  <2> QED BY <1>3, <1>4, <2>2
<1> QED BY <1>1, <1>5 DEF NoneInv, LateNone, config, Holding

LEMMA NoneStep == ASSUME Inv, NoneInv, [Next]_vars PROVE NoneInv'
<1>1. CASE check # "none"
  <2>1. check' = check
    BY DEF Next, Step, Ended, Changed, vars, config, get_first_objects, Start, Check, Skip, SkipNext, End, Return,
           GetObjectsIf, get_all_bans, get_all_members, get_users_from_reaction, get_full_audit_logs, ReadPage
  <2> QED BY <1>1, <2>1 DEF NoneInv
<1>2. CASE check = "none"
  <2>1. ~Check /\ ~Skip /\ ~SkipNext
    BY <1>2 DEF Check, Skip, SkipNext, NoneInv, Inv, Types, CheckInv
  <2>2. CASE Changed \/ Ended \/ UNCHANGED vars
    <3>1. UNCHANGED <<config, iterator, yielded, at>>
      BY <2>2 DEF Changed, Ended, vars
    <3>2. InHand' = InHand
      BY <3>1 DEF InHand
    <3> QED BY <3>1, <3>2 DEF NoneInv, LateNone, config, iterator
  <2> QED BY <1>2, <2>1, <2>2, StartLate, ReturnLate, FirstLate, EndLate, ListLate DEF Next, Step
<1> QED BY <1>1, <1>2

\* What an iteration without a check costs its caller: no more objects than may be left when the
\* next page is asked for, and None in place of messages behind the first page (get_objects() of
\* api/models/channel.py).  get_all_bans() and get_users_from_reaction() lose nothing.
THEOREM FewAreLost == Spec => []LosesFew
<1>1. Init => NoneInv
  BY DEF Init, None, NoneInv, Holding
<1>2. Inv /\ NoneInv /\ [Next]_vars => NoneInv'
  BY NoneStep
<1>3. Inv /\ NoneInv => LosesFew
  <2> SUFFICES ASSUME Inv, NoneInv, at = "done", check = "none" PROVE LosesFew
    BY DEF LosesFew
  <2>1. Obtained \cup Hidden = Yielded
    BY DEF Obtained, Hidden, Yielded
  <2>2. FewLost
    BY DEF Inv, LoseInv
  <2>3. \A i \in DOMAIN yielded : ~yielded[i].found => method \in Messages /\ i > First
    BY DEF NoneInv, LateNone
  <2>4. method \in {"get_all_bans", "get_users_from_reaction"} => stayed \subseteq Obtained
    <3> SUFFICES ASSUME method \in {"get_all_bans", "get_users_from_reaction"} PROVE stayed \subseteq Obtained
      OBVIOUS
    <3>1. method \in Lists /\ method \notin Messages
      BY DEF Lists, Messages
    <3>2. Hidden = {}
      BY <2>3, <3>1 DEF Hidden
    <3> QED BY <2>2, <3>1, <3>2 DEF FewLost, Obtained
  <2>5. Cardinality(stayed \ (Obtained \cup Hidden)) <= Low \/ Len(yielded) >= maximum - Low
    BY <2>1, <2>2 DEF FewLost
  <2> QED BY <2>3, <2>4, <2>5 DEF LosesFew
<1> QED BY <1>1, <1>2, <1>3, Invariance, PTL DEF Spec
=============================================================================
