----------------------------- MODULE HttpProofs -----------------------------
(***************************************************************************)
(* Proofs about HttpRequest, for any requests, endpoints, buckets, limits  *)
(* and faults.                                                             *)
(***************************************************************************)
EXTENDS HttpRequest, SequenceTheorems, TLAPS

\* The stages and the tries of the requests.
StageType ==
  /\ pc \in [Requests -> {"new", "wait"} \cup Inside \cup Ended]
  /\ key \in [Requests -> Keys]
  /\ tries \in [Requests -> 0..Tries]
  /\ \A r \in Requests : pc[r] \notin Ended => tries[r] < Tries

\* The Limiters.
LimiterType ==
  /\ ratelimits \subseteq Keys /\ buckets \subseteq Endpoints
  /\ locked \in [Keys -> BOOLEAN]
  /\ reset_after \in [Keys -> BOOLEAN] /\ fired \in [Keys -> BOOLEAN]
  /\ soon \in [Keys -> Nat] /\ later \in [Keys -> Nat]

\* The queues for their locks.
QueueType == waiters \in [Keys -> Seq(Requests)]

\* Discord.
ServerType ==
  /\ left \in [Buckets -> 0..Limit]
  /\ answer \in [Requests -> {"none", "ok", "last", "limited"} \cup AllFaults]

\* A request knows its bucket, and the key it looks up is one of Keys.
LEMMA KeysType ==
  ASSUME NEW r \in Requests
  PROVE  GetBucket(r) \in Keys /\ Bucket(r) \in Buckets /\ EndpointOf[r] \in Endpoints
BY HttpAssumption DEF GetBucket, Bucket, Keys

\* Every request keeps to its stages and to five tries.
LEMMA StageStep ==
  ASSUME TypeOK, [Next]_vars
  PROVE  StageType'
<1> USE HttpAssumption DEF TypeOK, StageType, Inside, Ended, limiterVars,
         serverVars, Go
<1>1. ASSUME NEW r \in Requests, Arrive(r) PROVE StageType'
  BY <1>1, KeysType DEF Arrive
<1>2. ASSUME NEW r \in Requests, Wake(r) PROVE StageType'
  BY <1>2 DEF Wake
<1>3. ASSUME NEW r \in Requests, Return(r) PROVE StageType'
  BY <1>3 DEF Return, Take, Release, NameBucket
<1>4. ASSUME NEW r \in Requests, ReturnLast(r) PROVE StageType'
  BY <1>4 DEF ReturnLast, Take, Release, NameBucket
<1>5. ASSUME NEW r \in Requests, Limited(r) PROVE StageType'
  BY <1>5 DEF Limited, Take, NameBucket
<1>6. ASSUME NEW r \in Requests, LimitedGlobally(r) PROVE StageType'
  BY <1>6 DEF LimitedGlobally, Take, Release
<1>7. ASSUME NEW r \in Requests, Retry(r) PROVE StageType'
  <2>1. pc[r] \notin Ended /\ tries[r] \in 0..Tries /\ tries[r] < Tries
    BY <1>7 DEF Retry
  <2>2. tries[r] + 1 \in 0..Tries
    BY <2>1 DEF Tries
  <2>3. tries' = [tries EXCEPT ![r] = tries[r] + 1] /\ UNCHANGED key
    BY <1>7 DEF Retry
  <2>4. CASE tries[r] + 1 < Tries /\ pc' = [pc EXCEPT ![r] = "flight"]
    BY <2>2, <2>3, <2>4
  <2>5. CASE pc' = [pc EXCEPT ![r] = "gaveUp"]
    BY <2>2, <2>3, <2>5
  <2> QED
    BY <1>7, <2>4, <2>5 DEF Retry, AfterTry
<1>8. ASSUME NEW r \in Requests, Reset(r) PROVE StageType'
  BY <1>8 DEF Reset, Take, Release, Tries
<1>9. ASSUME NEW r \in Requests, Fail(r) PROVE StageType'
  BY <1>9 DEF Fail, Take, Release, NameBucket
<1>10. ASSUME NEW r \in Requests, Cancel(r) PROVE StageType'
  BY <1>10 DEF Cancel
<1>11. ASSUME NEW r \in Requests, Serve(r) PROVE StageType'
  BY <1>11 DEF Serve
<1>12. ASSUME NEW r \in Requests, ServeFault(r) PROVE StageType'
  BY <1>12 DEF ServeFault
<1>13. ASSUME NEW k \in Keys, Fire(k) PROVE StageType'
  BY <1>13 DEF Fire, Release
<1>14. ASSUME NEW b \in Buckets, Refill(b) PROVE StageType'
  BY <1>14 DEF Refill
<1>15. CASE UNCHANGED vars
  BY <1>15 DEF vars
<1> QED
  BY <1>1, <1>2, <1>3, <1>4, <1>5, <1>6, <1>7, <1>8, <1>9, <1>10, <1>11,
       <1>12, <1>13, <1>14, <1>15 DEF Next, Step

\* One more timer for a Limiter.
LEMMA Counted ==
  ASSUME NEW f \in [Keys -> Nat], NEW k \in Keys
  PROVE  [f EXCEPT ![k] = @ + 1] \in [Keys -> Nat]
OBVIOUS

\* The Limiters keep their types.
LEMMA LimiterStep ==
  ASSUME TypeOK, [Next]_vars
  PROVE  LimiterType'
<1> USE HttpAssumption DEF TypeOK, LimiterType, limiterVars, serverVars, Go
<1>1. ASSUME NEW r \in Requests, Arrive(r) PROVE LimiterType'
  <2>1. GetBucket(r) \in Keys
    BY KeysType
  <2>2. soon' \in [Keys -> Nat] /\ later' \in [Keys -> Nat]
    <3>1. CASE UNCHANGED <<soon, later>>
      BY <3>1
    <3>2. CASE soon' = [soon EXCEPT ![GetBucket(r)] = @ + 1] /\ UNCHANGED later
      BY <2>1, <3>2, Counted
    <3>3. CASE later' = [later EXCEPT ![GetBucket(r)] = @ + 1] /\ UNCHANGED soon
      BY <2>1, <3>3, Counted
    <3> QED
      BY <1>1, <3>1, <3>2, <3>3 DEF Arrive
  <2>3. locked' \in [Keys -> BOOLEAN] /\ reset_after' \in [Keys -> BOOLEAN]
    BY <1>1, <2>1 DEF Arrive
  <2> QED
    BY <1>1, <2>1, <2>2, <2>3 DEF Arrive
<1>2. ASSUME NEW r \in Requests, Wake(r) PROVE LimiterType'
  BY <1>2 DEF Wake
<1>3. ASSUME NEW r \in Requests, Return(r) PROVE LimiterType'
  BY <1>3, KeysType DEF Return, Take, Release, NameBucket
<1>4. ASSUME NEW r \in Requests, ReturnLast(r) PROVE LimiterType'
  <2>1. key[r] \in Keys /\ later[key[r]] + 1 \in Nat /\ soon[key[r]] + 1 \in Nat
    OBVIOUS
  <2>2. buckets' \subseteq Endpoints /\ locked' \in [Keys -> BOOLEAN]
    BY <1>4, KeysType DEF ReturnLast, Take, Release, NameBucket
  <2>3. soon' \in [Keys -> Nat] /\ later' \in [Keys -> Nat]
    <3>1. CASE soon' = [soon EXCEPT ![key[r]] = @ + 1] /\ UNCHANGED later
      BY <2>1, <3>1, Counted
    <3>2. CASE later' = [later EXCEPT ![key[r]] = @ + 1] /\ UNCHANGED soon
      BY <2>1, <3>2, Counted
    <3> QED
      BY <1>4, <3>1, <3>2 DEF ReturnLast
  <2> QED
    BY <1>4, <2>2, <2>3 DEF ReturnLast, Take
<1>5. ASSUME NEW r \in Requests, Limited(r) PROVE LimiterType'
  BY <1>5, KeysType DEF Limited, Take, NameBucket
<1>6. ASSUME NEW r \in Requests, LimitedGlobally(r) PROVE LimiterType'
  BY <1>6 DEF LimitedGlobally, Take, Release
<1>7. ASSUME NEW r \in Requests, Retry(r) PROVE LimiterType'
  BY <1>7 DEF Retry, AfterTry, Tries
<1>8. ASSUME NEW r \in Requests, Reset(r) PROVE LimiterType'
  BY <1>8 DEF Reset, Take, Release, Tries
<1>9. ASSUME NEW r \in Requests, Fail(r) PROVE LimiterType'
  BY <1>9, KeysType DEF Fail, Take, Release, NameBucket
<1>10. ASSUME NEW r \in Requests, Cancel(r) PROVE LimiterType'
  BY <1>10 DEF Cancel
<1>11. ASSUME NEW r \in Requests, Serve(r) PROVE LimiterType'
  BY <1>11 DEF Serve
<1>12. ASSUME NEW r \in Requests, ServeFault(r) PROVE LimiterType'
  BY <1>12 DEF ServeFault
<1>13. ASSUME NEW k \in Keys, Fire(k) PROVE LimiterType'
  BY <1>13 DEF Fire, Release
<1>14. ASSUME NEW b \in Buckets, Refill(b) PROVE LimiterType'
  BY <1>14 DEF Refill
<1>15. CASE UNCHANGED vars
  BY <1>15 DEF vars
<1> QED
  BY <1>1, <1>2, <1>3, <1>4, <1>5, <1>6, <1>7, <1>8, <1>9, <1>10, <1>11,
       <1>12, <1>13, <1>14, <1>15 DEF Next, Step

\* A sequence without one of its elements.
LEMMA Shorter ==
  ASSUME NEW S, NEW q \in Seq(S), NEW i \in 1..Len(q)
  PROVE  RemoveAt(q, i) \in Seq(S)
<1> DEFINE a == SubSeq(q, 1, i-1)
           b == SubSeq(q, i+1, Len(q))
<1>1. Len(q) \in Nat /\ i \in Nat /\ 1 <= i /\ i <= Len(q)
  OBVIOUS
<1>2. \A j \in 1..(i-1) : q[j] \in S
  BY <1>1
<1>3. \A j \in (i+1)..Len(q) : q[j] \in S
  BY <1>1
<1>4. i-1 \in Int /\ i+1 \in Int /\ Len(q) \in Int /\ 1 \in Int
  BY <1>1
<1>5. a \in Seq(S) /\ b \in Seq(S)
  BY <1>2, <1>3, <1>4, SubSeqProperties
<1>6. RemoveAt(q, i) = a \o b
  BY DEF RemoveAt
<1> HIDE DEF a, b
<1> QED
  BY <1>5, <1>6, ConcatProperties

\* Only requests wait in the queues.
LEMMA QueueStep ==
  ASSUME TypeOK, [Next]_vars
  PROVE  QueueType'
<1> USE HttpAssumption DEF TypeOK, QueueType, limiterVars, serverVars, Go
<1>1. ASSUME NEW r \in Requests, Arrive(r) PROVE QueueType'
  <2>1. GetBucket(r) \in Keys
    BY KeysType
  <2> DEFINE q == Append(waiters[GetBucket(r)], r)
  <2>2. q \in Seq(Requests)
    BY <2>1
  <2>3. waiters' = waiters \/ waiters' = [waiters EXCEPT ![GetBucket(r)] = q]
    BY <1>1 DEF Arrive
  <2> HIDE DEF q
  <2> QED
    BY <2>1, <2>2, <2>3
<1>2. ASSUME NEW r \in Requests, Wake(r) PROVE QueueType'
  <2> DEFINE q == waiters[key[r]]
  <2>1. q \in Seq(Requests) /\ q # <<>> /\ key[r] \in Keys
    BY <1>2 DEF Wake
  <2>2. Tail(q) \in Seq(Requests)
    BY <2>1
  <2>3. waiters' = [waiters EXCEPT ![key[r]] = Tail(q)]
    BY <1>2 DEF Wake
  <2> QED
    BY <2>1, <2>2, <2>3
<1>3. ASSUME NEW r \in Requests, Return(r) PROVE QueueType'
  BY <1>3 DEF Return, Take, Release, NameBucket
<1>4. ASSUME NEW r \in Requests, ReturnLast(r) PROVE QueueType'
  BY <1>4 DEF ReturnLast, Take, Release, NameBucket
<1>5. ASSUME NEW r \in Requests, Limited(r) PROVE QueueType'
  BY <1>5 DEF Limited, Take, NameBucket
<1>6. ASSUME NEW r \in Requests, LimitedGlobally(r) PROVE QueueType'
  BY <1>6 DEF LimitedGlobally, Take, Release
<1>7. ASSUME NEW r \in Requests, Retry(r) PROVE QueueType'
  BY <1>7 DEF Retry, AfterTry, Tries
<1>8. ASSUME NEW r \in Requests, Reset(r) PROVE QueueType'
  BY <1>8 DEF Reset, Take, Release, Tries
<1>9. ASSUME NEW r \in Requests, Fail(r) PROVE QueueType'
  BY <1>9 DEF Fail, Take, Release, NameBucket
<1>10. ASSUME NEW r \in Requests, Cancel(r) PROVE QueueType'
  <2> DEFINE q == waiters[key[r]]
  <2>1. q \in Seq(Requests) /\ key[r] \in Keys
    OBVIOUS
  <2>2. \/ waiters' = waiters
        \/ \E i \in 1..Len(q) : waiters' = [waiters EXCEPT ![key[r]] = RemoveAt(q, i)]
    BY <1>10 DEF Cancel
  <2> HIDE DEF q
  <2>3. ASSUME NEW i \in 1..Len(q) PROVE RemoveAt(q, i) \in Seq(Requests)
    BY <2>1, Shorter
  <2>4. ASSUME NEW i \in 1..Len(q), waiters' = [waiters EXCEPT ![key[r]] = RemoveAt(q, i)]
        PROVE  QueueType'
    <3> DEFINE t == RemoveAt(q, i)
    <3>1. t \in Seq(Requests) /\ waiters' = [waiters EXCEPT ![key[r]] = t]
      BY <2>3, <2>4
    <3> HIDE DEF t
    <3> QED
      BY <2>1, <3>1
  <2> QED
    BY <2>2, <2>4
<1>11. ASSUME NEW r \in Requests, Serve(r) PROVE QueueType'
  BY <1>11 DEF Serve
<1>12. ASSUME NEW r \in Requests, ServeFault(r) PROVE QueueType'
  BY <1>12 DEF ServeFault
<1>13. ASSUME NEW k \in Keys, Fire(k) PROVE QueueType'
  BY <1>13 DEF Fire, Release
<1>14. ASSUME NEW b \in Buckets, Refill(b) PROVE QueueType'
  BY <1>14 DEF Refill
<1>15. CASE UNCHANGED vars
  BY <1>15 DEF vars
<1> QED
  BY <1>1, <1>2, <1>3, <1>4, <1>5, <1>6, <1>7, <1>8, <1>9, <1>10, <1>11,
       <1>12, <1>13, <1>14, <1>15 DEF Next, Step

\* What Discord keeps stays in its types.
LEMMA ServerStep ==
  ASSUME TypeOK, [Next]_vars
  PROVE  ServerType'
<1> USE HttpAssumption DEF TypeOK, ServerType, AllFaults, limiterVars,
         serverVars, Go
<1>1. ASSUME NEW r \in Requests, Arrive(r) PROVE ServerType'
  BY <1>1 DEF Arrive, Free, GetBucket
<1>2. ASSUME NEW r \in Requests, Wake(r) PROVE ServerType'
  BY <1>2 DEF Wake
<1>3. ASSUME NEW r \in Requests, Return(r) PROVE ServerType'
  BY <1>3 DEF Return, Take, Release, NameBucket
<1>4. ASSUME NEW r \in Requests, ReturnLast(r) PROVE ServerType'
  BY <1>4, KeysType DEF ReturnLast, Take, Release, NameBucket
<1>5. ASSUME NEW r \in Requests, Limited(r) PROVE ServerType'
  BY <1>5, KeysType DEF Limited, Take, NameBucket
<1>6. ASSUME NEW r \in Requests, LimitedGlobally(r) PROVE ServerType'
  BY <1>6 DEF LimitedGlobally, Take, Release
<1>7. ASSUME NEW r \in Requests, Retry(r) PROVE ServerType'
  BY <1>7 DEF Retry, AfterTry, Tries
<1>8. ASSUME NEW r \in Requests, Reset(r) PROVE ServerType'
  BY <1>8 DEF Reset, Take, Release, Tries
<1>9. ASSUME NEW r \in Requests, Fail(r) PROVE ServerType'
  BY <1>9 DEF Fail, Take, Release, NameBucket
<1>10. ASSUME NEW r \in Requests, Cancel(r) PROVE ServerType'
  BY <1>10 DEF Cancel
<1>11. ASSUME NEW r \in Requests, Serve(r) PROVE ServerType'
  <2>1. Bucket(r) \in Buckets
    BY KeysType
  <2>2. left' \in [Buckets -> 0..Limit]
    <3>1. CASE UNCHANGED left
      BY <3>1
    <3>2. CASE left[Bucket(r)] > 0 /\ left' = [left EXCEPT ![Bucket(r)] = @ - 1]
      <4>1. left[Bucket(r)] \in 0..Limit /\ left[Bucket(r)] - 1 \in 0..Limit
        BY <2>1, <3>2
      <4> QED
        BY <2>1, <3>2, <4>1
    <3> QED
      BY <1>11, <3>1, <3>2 DEF Serve
  <2>3. answer' \in [Requests -> {"none", "ok", "last", "limited"} \cup AllFaults]
    BY <1>11 DEF Serve
  <2> QED
    BY <1>11, <2>2, <2>3 DEF Serve
<1>12. ASSUME NEW r \in Requests, ServeFault(r) PROVE ServerType'
  BY <1>12 DEF ServeFault
<1>13. ASSUME NEW k \in Keys, Fire(k) PROVE ServerType'
  BY <1>13 DEF Fire, Release
<1>14. ASSUME NEW b \in Buckets, Refill(b) PROVE ServerType'
  BY <1>14 DEF Refill
<1>15. CASE UNCHANGED vars
  BY <1>15 DEF vars
<1> QED
  BY <1>1, <1>2, <1>3, <1>4, <1>5, <1>6, <1>7, <1>8, <1>9, <1>10, <1>11,
       <1>12, <1>13, <1>14, <1>15 DEF Next, Step

\* TypeOK is an invariant; it holds the bound of five tries of a request.
THEOREM TypeCorrect == Spec => []TypeOK
<1>1. Init => TypeOK
  <2> USE HttpAssumption DEF Init
  <2>1. Init => StageType
    BY DEF StageType, Keys, Inside, Ended, Tries
  <2>2. Init => LimiterType /\ QueueType
    BY DEF LimiterType, QueueType
  <2>3. ASSUME Init PROVE ServerType
    <3>1. Limit \in 0..Limit
      OBVIOUS
    <3>2. left \in [Buckets -> 0..Limit]
      BY <2>3, <3>1
    <3> QED
      BY <2>3, <3>2 DEF ServerType
  <2> QED
    BY <2>1, <2>2, <2>3 DEF TypeOK, StageType, LimiterType, QueueType, ServerType
<1>2. TypeOK /\ [Next]_vars => TypeOK'
  BY StageStep, LimiterStep, QueueStep, ServerStep
     DEF TypeOK, StageType, LimiterType, QueueType, ServerType
<1> QED
  BY <1>1, <1>2, PTL DEF Spec

----------------------------------------------------------------------------
\* What the proofs about the locks need to know of TypeOK.
LockType ==
  /\ pc \in [Requests -> {"new", "wait"} \cup Inside \cup Ended]
  /\ key \in [Requests -> Keys]
  /\ locked \in [Keys -> BOOLEAN]
  /\ fired \in [Keys -> BOOLEAN]

(***************************************************************************)
(* The steps, as far as the locks are concerned.                           *)
(***************************************************************************)
SameHolders == \A s \in Requests, l \in Keys : Holds(s, l)' <=> Holds(s, l)

\* Nobody takes or frees a lock.
Stays == SameHolders /\ UNCHANGED <<locked, fired>>

\* A request takes a free lock.
Enters(r, k) ==
  /\ ~locked[k]
  /\ locked' = [locked EXCEPT ![k] = TRUE] /\ UNCHANGED fired
  /\ \A s \in Requests, l \in Keys :
       Holds(s, l)' <=> Holds(s, l) \/ (s = r /\ l = k)

\* A request that has a lock frees it.
Leaves(r, k) ==
  /\ Holds(r, k)
  /\ locked' = [locked EXCEPT ![k] = FALSE] /\ UNCHANGED fired
  /\ \A s \in Requests, l \in Keys : Holds(s, l)' <=> Holds(s, l) /\ s # r

\* A timer frees a lock.
Frees(k) ==
  /\ SameHolders
  /\ locked' = [locked EXCEPT ![k] = FALSE]
  /\ fired' = [fired EXCEPT ![k] = TRUE]

LockStep ==
  \/ Stays
  \/ \E r \in Requests, k \in Keys : Enters(r, k) \/ Leaves(r, k)
  \/ \E k \in Keys : Frees(k)

\* Every step of a request or of a timer is one of these.
LEMMA LockSteps ==
  ASSUME LockType, [Next]_vars
  PROVE  LockStep
<1> USE DEF LockType, Inside, Ended, limiterVars, serverVars, Go
<1>1. ASSUME NEW r \in Requests, Arrive(r) PROVE LockStep
  <2> DEFINE k == GetBucket(r)
  <2>1. k \in Keys
    BY KeysType
  <2> HIDE DEF k
  <2>2. pc[r] = "new" /\ key' = [key EXCEPT ![r] = k] /\ UNCHANGED fired
    BY <1>1 DEF Arrive, k
  <2>3. CASE /\ ~locked[k] /\ locked' = [locked EXCEPT ![k] = TRUE]
             /\ pc' = [pc EXCEPT ![r] = "flight"]
    <3>1. Enters(r, k)
      BY <2>1, <2>2, <2>3 DEF Enters, Holds
    <3> QED
      BY <2>1, <2>2, <2>3, <3>1 DEF LockStep
  <2>4. CASE pc' = [pc EXCEPT ![r] = "wait"] /\ UNCHANGED locked
    <3>1. Stays
      BY <2>1, <2>2, <2>4 DEF Stays, SameHolders, Holds
    <3> QED
      BY <2>1, <2>2, <2>4, <3>1 DEF LockStep
  <2> QED
    BY <1>1, <2>3, <2>4 DEF Arrive, Free, k
<1>2. ASSUME NEW r \in Requests, Wake(r) PROVE LockStep
  <2>1. Enters(r, key[r])
    BY <1>2 DEF Wake, Enters, Holds
  <2> QED
    BY <1>2, <2>1 DEF Wake, LockStep
<1>3. ASSUME NEW r \in Requests, Return(r) PROVE LockStep
  <2>1. /\ pc[r] = "flight" /\ pc' = [pc EXCEPT ![r] = "done"]
        /\ locked' = [locked EXCEPT ![key[r]] = FALSE] /\ UNCHANGED <<key, fired>>
    BY <1>3 DEF Return, Take, Release
  <2>2. Leaves(r, key[r])
    BY <2>1 DEF Leaves, Holds
  <2> QED
    BY <2>1, <2>2 DEF LockStep
<1>4. ASSUME NEW r \in Requests, ReturnLast(r) PROVE LockStep
  <2>1. /\ pc[r] = "flight" /\ pc' = [pc EXCEPT ![r] = "done"]
        /\ locked' = [locked EXCEPT ![key[r]] = FALSE] /\ UNCHANGED <<key, fired>>
    BY <1>4 DEF ReturnLast, Take, Release
  <2>2. Leaves(r, key[r])
    BY <2>1 DEF Leaves, Holds
  <2> QED
    BY <2>1, <2>2 DEF LockStep
<1>5. ASSUME NEW r \in Requests, Limited(r) PROVE LockStep
  <2>1. Stays
    BY <1>5 DEF Limited, Take, Stays, SameHolders, Holds
  <2> QED
    BY <1>5, <2>1 DEF Limited, Take, LockStep
<1>6. ASSUME NEW r \in Requests, LimitedGlobally(r) PROVE LockStep
  <2>1. /\ pc[r] = "flight" /\ pc' = [pc EXCEPT ![r] = "done"]
        /\ locked' = [locked EXCEPT ![key[r]] = FALSE] /\ UNCHANGED <<key, fired>>
    BY <1>6 DEF LimitedGlobally, Take, Release
  <2>2. Leaves(r, key[r])
    BY <2>1 DEF Leaves, Holds
  <2> QED
    BY <2>1, <2>2 DEF LockStep
<1>7. ASSUME NEW r \in Requests, Retry(r) PROVE LockStep
  <2>1. Stays
    BY <1>7 DEF Retry, AfterTry, Stays, SameHolders, Holds
  <2> QED
    BY <1>7, <2>1 DEF Retry, AfterTry, LockStep
<1>8. ASSUME NEW r \in Requests, Reset(r) PROVE LockStep
  <2>1. pc[r] = "flight" /\ UNCHANGED <<key, fired>>
    BY <1>8 DEF Reset, Take
  <2>2. CASE pc' = [pc EXCEPT ![r] = "backoff"] /\ UNCHANGED locked
    <3>1. Stays
      BY <2>1, <2>2 DEF Stays, SameHolders, Holds
    <3> QED
      BY <2>1, <2>2, <3>1 DEF LockStep
  <2>3. CASE /\ pc' = [pc EXCEPT ![r] = "raised"]
             /\ locked' = [locked EXCEPT ![key[r]] = FALSE]
    <3>1. Leaves(r, key[r])
      BY <2>1, <2>3 DEF Leaves, Holds
    <3> QED
      BY <2>1, <2>3, <3>1 DEF LockStep
  <2> QED
    BY <1>8, <2>2, <2>3 DEF Reset, Release
<1>9. ASSUME NEW r \in Requests, Fail(r) PROVE LockStep
  <2>1. /\ pc[r] = "flight" /\ \E x \in {"done", "raised"} : pc' = [pc EXCEPT ![r] = x]
        /\ locked' = [locked EXCEPT ![key[r]] = FALSE] /\ UNCHANGED <<key, fired>>
    BY <1>9 DEF Fail, Take, Release
  <2>2. Leaves(r, key[r])
    BY <2>1 DEF Leaves, Holds
  <2> QED
    BY <2>1, <2>2 DEF LockStep
<1>10. ASSUME NEW r \in Requests, Cancel(r) PROVE LockStep
  <2>1. UNCHANGED <<key, fired, locked>>
    BY <1>10 DEF Cancel
  <2>2. \/ pc[r] \in Inside /\ pc' = [pc EXCEPT ![r] = "cancelled"]
        \/ pc[r] = "wait" /\ pc' = [pc EXCEPT ![r] = "raised"]
    BY <1>10 DEF Cancel
  <2>3. Stays
    BY <2>1, <2>2 DEF Stays, SameHolders, Holds
  <2> QED
    BY <2>1, <2>2, <2>3 DEF LockStep
<1>11. ASSUME NEW r \in Requests, Serve(r) PROVE LockStep
  <2>1. Stays
    BY <1>11 DEF Serve, Stays, SameHolders, Holds
  <2> QED
    BY <1>11, <2>1 DEF Serve, LockStep
<1>12. ASSUME NEW r \in Requests, ServeFault(r) PROVE LockStep
  <2>1. Stays
    BY <1>12 DEF ServeFault, Stays, SameHolders, Holds
  <2> QED
    BY <1>12, <2>1 DEF ServeFault, LockStep
<1>13. ASSUME NEW k \in Keys, Fire(k) PROVE LockStep
  <2>1. Frees(k)
    BY <1>13 DEF Fire, Release, Frees, SameHolders, Holds
  <2> QED
    BY <1>13, <2>1 DEF Fire, Release, LockStep
<1>14. ASSUME NEW b \in Buckets, Refill(b) PROVE LockStep
  <2>1. /\ pc' = [s \in Requests |-> IF pc[s] = "sleep" /\ Bucket(s) = b
                                     THEN "rested" ELSE pc[s]]
        /\ UNCHANGED <<key, locked, fired>>
    BY <1>14 DEF Refill
  <2>2. Stays
    BY <2>1 DEF Stays, SameHolders, Holds
  <2> QED
    BY <2>1, <2>2 DEF LockStep
<1>15. CASE UNCHANGED vars
  <2>1. Stays
    BY <1>15 DEF vars, Stays, SameHolders, Holds
  <2> QED
    BY <1>15, <2>1 DEF vars, LockStep
<1> QED
  BY <1>1, <1>2, <1>3, <1>4, <1>5, <1>6, <1>7, <1>8, <1>9, <1>10, <1>11,
       <1>12, <1>13, <1>14, <1>15 DEF Next, Step

\* The locks keep their types.
LEMMA LockTypes == Spec => []LockType
<1>1. TypeOK => LockType
  BY DEF TypeOK, LockType
<1> QED
  BY <1>1, TypeCorrect, PTL

\* LockInUse is an invariant: a lock is never left behind by a request that
\* returned, raised or failed, only by one that gave up or was cancelled.
THEOREM LocksInUse == Spec => []LockInUse
<1>1. Init => LockInUse
  BY DEF Init, LockInUse
<1>2. ASSUME LockType, LockInUse, LockStep PROVE LockInUse'
  <2> SUFFICES ASSUME NEW l \in Keys, locked'[l]
               PROVE  \E s \in Requests : Holds(s, l)'
    BY DEF LockInUse
  <2>1. ASSUME locked[l] PROVE \E s \in Requests : Holds(s, l)
    BY <1>2, <2>1 DEF LockInUse
  <2>2. CASE Stays
    BY <2>1, <2>2 DEF Stays, SameHolders
  <2>3. ASSUME NEW r \in Requests, NEW k \in Keys, Enters(r, k)
        PROVE  \E s \in Requests : Holds(s, l)'
    <3>1. CASE l = k
      BY <2>3, <3>1 DEF Enters
    <3>2. CASE l # k
      BY <1>2, <2>1, <2>3, <3>2 DEF Enters, LockType
    <3> QED
      BY <3>1, <3>2
  <2>4. ASSUME NEW r \in Requests, NEW k \in Keys, Leaves(r, k)
        PROVE  \E s \in Requests : Holds(s, l)'
    <3>1. l # k /\ locked[l]
      BY <1>2, <2>4 DEF Leaves, LockType
    <3>2. PICK s \in Requests : Holds(s, l)
      BY <2>1, <3>1
    <3>3. s # r
      BY <2>4, <3>1, <3>2 DEF Leaves, Holds
    <3> QED
      BY <2>4, <3>2, <3>3 DEF Leaves
  <2>5. ASSUME NEW k \in Keys, Frees(k)
        PROVE  \E s \in Requests : Holds(s, l)'
    <3>1. locked[l]
      BY <1>2, <2>5 DEF Frees, LockType
    <3> QED
      BY <2>1, <2>5, <3>1 DEF Frees, SameHolders
  <2> QED
    BY <1>2, <2>2, <2>3, <2>4, <2>5 DEF LockStep
<1>3. LockType /\ LockInUse /\ [Next]_vars => LockInUse'
  BY <1>2, LockSteps
<1> QED
  BY <1>1, <1>3, LockTypes, PTL DEF Spec

\* ExclusiveUntilTimer is an invariant: the timers, and nothing else, let a
\* second request into a Limiter.
THEOREM Exclusive == Spec => []ExclusiveUntilTimer
<1>1. Init => ExclusiveUntilTimer
  BY DEF Init, ExclusiveUntilTimer, Holds, Inside
<1>2. ASSUME LockType, ExclusiveUntilTimer, LockStep
      PROVE  ExclusiveUntilTimer'
  <2> SUFFICES ASSUME NEW l \in Keys, ~fired'[l], NEW s \in Requests,
                      NEW t \in Requests, Holds(s, l)', Holds(t, l)'
               PROVE  s = t /\ locked'[l]
    BY DEF ExclusiveUntilTimer, Holds
  <2>1. ASSUME ~fired[l], Holds(s, l) PROVE locked[l]
    BY <1>2, <2>1 DEF ExclusiveUntilTimer
  <2>2. ASSUME ~fired[l], Holds(s, l), Holds(t, l) PROVE s = t
    BY <1>2, <2>2 DEF ExclusiveUntilTimer
  <2>3. CASE Stays
    BY <2>1, <2>2, <2>3 DEF Stays, SameHolders
  <2>4. ASSUME NEW r \in Requests, NEW k \in Keys, Enters(r, k)
        PROVE  s = t /\ locked'[l]
    <3>1. CASE l = k
      <4>1. ~Holds(s, k) /\ ~Holds(t, k)
        BY <1>2, <2>4, <3>1 DEF Enters, ExclusiveUntilTimer
      <4> QED
        BY <1>2, <2>4, <3>1, <4>1 DEF Enters, LockType
    <3>2. CASE l # k
      BY <1>2, <2>1, <2>2, <2>4, <3>2 DEF Enters, LockType
    <3> QED
      BY <3>1, <3>2
  <2>5. ASSUME NEW r \in Requests, NEW k \in Keys, Leaves(r, k)
        PROVE  s = t /\ locked'[l]
    <3>1. ~fired[l] /\ Holds(s, l) /\ Holds(t, l) /\ s # r
      BY <2>5 DEF Leaves
    <3>2. l # k
      BY <1>2, <2>5, <3>1 DEF Leaves, ExclusiveUntilTimer
    <3> QED
      BY <1>2, <2>1, <2>2, <2>5, <3>1, <3>2 DEF Leaves, LockType
  <2>6. ASSUME NEW k \in Keys, Frees(k)
        PROVE  s = t /\ locked'[l]
    BY <1>2, <2>1, <2>2, <2>6 DEF Frees, SameHolders, LockType
  <2> QED
    BY <1>2, <2>3, <2>4, <2>5, <2>6 DEF LockStep
<1>3. LockType /\ ExclusiveUntilTimer /\ [Next]_vars => ExclusiveUntilTimer'
  BY <1>2, LockSteps
<1> QED
  BY <1>1, <1>3, LockTypes, PTL DEF Spec
=============================================================================
