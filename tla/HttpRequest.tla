---------------------------- MODULE HttpRequest ----------------------------
(***************************************************************************)
(* How requests to the REST API share the rate limits: _Request in         *)
(* src/interactions/api/http/request.py with Limiter and Route of the same *)
(* directory.                                                              *)
(*                                                                         *)
(* A step is the code a request runs between two awaits.  The keys of      *)
(* ratelimits are the paths of endpoints and, once Discord has named them, *)
(* its buckets; the major parameters, the same for all requests here, are  *)
(* left out.  Time is kept only as far as an order: a bucket refills, and  *)
(* what waits for that comes after it.                                     *)
(***************************************************************************)
EXTENDS Naturals, Sequences, SequencesExt

CONSTANTS
  Requests,     \* the calls of request(), one task each
  Endpoints,    \* "method:path"
  Buckets,      \* Discord's buckets
  BucketOf,     \* Discord: the bucket of each endpoint
  EndpointOf,   \* the endpoint of each request
  Limit,        \* Discord: requests of a bucket between two refills
  Faults        \* what else may happen to a request

AllFaults == {"global", "error", "reset", "oserror", "crash", "cancel"}

ASSUME HttpAssumption ==
  /\ Endpoints \cap Buckets = {}
  /\ BucketOf \in [Endpoints -> Buckets]
  /\ EndpointOf \in [Requests -> Endpoints]
  /\ Limit \in Nat \ {0}
  /\ Faults \subseteq AllFaults

Keys   == Endpoints \cup Buckets
Tries  == 5
Bucket(r) == BucketOf[EndpointOf[r]]

VARIABLES
  pc,           \* where each request is suspended
  key,          \* _limiter of each request, by its key in ratelimits
  tries,        \* tries of each request
  ratelimits,   \* the keys that have a Limiter
  buckets,      \* the endpoints whose bucket Discord has named
  locked,       \* lock.locked() of each Limiter
  waiters,      \* the requests that wait for each lock, in order
  reset_after,  \* whether each Limiter's reset_after is not 0
  soon,         \* timers that are due to call release_lock() of a Limiter
  later,        \* such timers that wait for a refill
  left,         \* Discord: what is left of each bucket
  answer,       \* Discord: the answer on its way to each request
  fired         \* history: a timer released the lock of a Limiter

limiterVars == <<ratelimits, locked, waiters, reset_after, soon, later, fired>>
serverVars  == <<left, answer>>
vars == <<pc, key, tries, buckets, limiterVars, serverVars>>

Init ==
  /\ pc = [r \in Requests |-> "new"]
  /\ key = [r \in Requests |-> EndpointOf[r]]
  /\ tries = [r \in Requests |-> 0]
  /\ ratelimits = {} /\ buckets = {}
  /\ locked = [k \in Keys |-> FALSE]
  /\ waiters = [k \in Keys |-> <<>>]
  /\ reset_after = [k \in Keys |-> FALSE]
  /\ soon = [k \in Keys |-> 0] /\ later = [k \in Keys |-> 0]
  /\ left = [b \in Buckets |-> Limit]
  /\ answer = [r \in Requests |-> "none"]
  /\ fired = [k \in Keys |-> FALSE]

\* Stages at which a request counts on its lock.
Inside == {"flight", "sleep", "rested", "backoff"}
\* A request that has returned or raised.
Ended  == {"done", "raised", "gaveUp", "cancelled"}

Go(r, to)        == pc' = [pc EXCEPT ![r] = to]
GetBucket(r)     == IF EndpointOf[r] \in buckets THEN Bucket(r) ELSE EndpointOf[r]
NameBucket(r)    == buckets' = buckets \cup {EndpointOf[r]}

\* What a mistake in the code could make of the operators below: a lock that
\* is not freed, or not waited for, and one try too many.
ReleaseForgotten(k) == UNCHANGED locked
FreeIgnored(k)      == waiters[k] = <<>>
OneMoreTry(n)       == IF n <= Tries THEN "flight" ELSE "gaveUp"

\* release_lock(), and lock.release() with its RuntimeError suppressed: the
\* lock is freed whoever holds it.
Release(k) == locked' = [locked EXCEPT ![k] = FALSE]

\* The next try, unless there were five.
AfterTry(n) == IF n < Tries THEN "flight" ELSE "gaveUp"

\* asyncio.Lock.acquire() of a lock that is free and not waited for.
Free(k) == ~locked[k] /\ waiters[k] = <<>>

----------------------------------------------------------------------------
(* request().                                                              *)

\* Up to the lock.  A request that finds its Limiter locked has the lock
\* released after reset_after seconds, at once when that is 0.
Arrive(r) ==
  /\ pc[r] = "new"
  /\ LET k == GetBucket(r) IN
     /\ key' = [key EXCEPT ![r] = k]
     /\ ratelimits' = ratelimits \cup {k}
     /\ IF k \in ratelimits /\ locked[k]
        THEN IF reset_after[k]
             THEN later' = [later EXCEPT ![k] = @ + 1] /\ UNCHANGED soon
             ELSE soon' = [soon EXCEPT ![k] = @ + 1] /\ UNCHANGED later
        ELSE UNCHANGED <<soon, later>>
     /\ reset_after' = [reset_after EXCEPT ![k] = FALSE]
     /\ \/ /\ Free(k)
           /\ locked' = [locked EXCEPT ![k] = TRUE]
           /\ Go(r, "flight") /\ UNCHANGED waiters
        \/ /\ ~Free(k)
           /\ waiters' = [waiters EXCEPT ![k] = Append(@, r)]
           /\ Go(r, "wait") /\ UNCHANGED locked
  /\ UNCHANGED <<tries, buckets, fired, serverVars>>

\* The first waiter of a free lock takes it and sends its request.
Wake(r) ==
  /\ pc[r] = "wait" /\ ~locked[key[r]]
  /\ waiters[key[r]] # <<>> /\ Head(waiters[key[r]]) = r
  /\ locked' = [locked EXCEPT ![key[r]] = TRUE]
  /\ waiters' = [waiters EXCEPT ![key[r]] = Tail(@)]
  /\ Go(r, "flight")
  /\ UNCHANGED <<key, tries, buckets, ratelimits, reset_after, soon, later,
                 fired, serverVars>>

\* What request() does with an answer.
Take(r, a) ==
  /\ pc[r] = "flight" /\ answer[r] = a
  /\ answer' = [answer EXCEPT ![r] = "none"]
  /\ UNCHANGED <<key, ratelimits, waiters, fired, left>>

Return(r) ==
  /\ Take(r, "ok") /\ NameBucket(r)
  /\ Release(key[r]) /\ Go(r, "done")
  /\ UNCHANGED <<tries, reset_after, soon, later>>

\* X-RateLimit-Remaining is 0: the lock is released now and again after the
\* refill.
ReturnLast(r) ==
  /\ Take(r, "last") /\ NameBucket(r)
  /\ IF left[Bucket(r)] = 0
     THEN later' = [later EXCEPT ![key[r]] = @ + 1] /\ UNCHANGED soon
     ELSE soon' = [soon EXCEPT ![key[r]] = @ + 1] /\ UNCHANGED later
  /\ Release(key[r]) /\ Go(r, "done")
  /\ UNCHANGED <<tries, reset_after>>

\* 429: the request sleeps with the lock, until the refill.
Limited(r) ==
  /\ Take(r, "limited") /\ NameBucket(r)
  /\ reset_after' = [reset_after EXCEPT ![key[r]] = TRUE]
  /\ Go(r, IF left[Bucket(r)] = 0 THEN "sleep" ELSE "rested")
  /\ UNCHANGED <<tries, locked, soon, later>>

\* 429 of the global limit.  _global_lock is not held by anyone, so that the
\* timer's release() only raises in the event loop; the body is returned.
LimitedGlobally(r) ==
  /\ Take(r, "global")
  /\ Release(key[r]) /\ Go(r, "done")
  /\ UNCHANGED <<tries, buckets, reset_after, soon, later>>

\* After five tries request() returns without having released the lock.
Retry(r) ==
  /\ pc[r] \in {"rested", "backoff"}
  /\ tries' = [tries EXCEPT ![r] = @ + 1]
  /\ Go(r, AfterTry(tries[r] + 1))
  /\ UNCHANGED <<key, buckets, limiterVars, serverVars>>

\* OSError: connection resets are tried again but for the last time.
Reset(r) ==
  /\ Take(r, "reset")
  /\ IF tries[r] < Tries - 1
     THEN Go(r, "backoff") /\ UNCHANGED locked
     ELSE Go(r, "raised") /\ Release(key[r])
  /\ UNCHANGED <<tries, buckets, reset_after, soon, later>>

\* Any other error ends the request: with a LibraryException, the OSError, or
\* a traceback in the log and no result.
Fail(r) ==
  /\ \/ Take(r, "error") /\ NameBucket(r) /\ Go(r, "raised")
     \/ Take(r, "oserror") /\ UNCHANGED buckets /\ Go(r, "raised")
     \/ Take(r, "crash") /\ UNCHANGED buckets /\ Go(r, "done")
  /\ Release(key[r])
  /\ UNCHANGED <<tries, reset_after, soon, later>>

\* The task is cancelled: CancelledError is no Exception, the lock is kept if
\* the request had it.
Cancel(r) ==
  /\ "cancel" \in Faults
  /\ \/ pc[r] \in Inside /\ Go(r, "cancelled") /\ UNCHANGED waiters
     \/ /\ pc[r] = "wait" /\ Go(r, "raised")
        /\ \E i \in 1..Len(waiters[key[r]]) :
             /\ waiters[key[r]][i] = r
             /\ waiters' = [waiters EXCEPT ![key[r]] = RemoveAt(@, i)]
  /\ answer' = [answer EXCEPT ![r] = "none"]
  /\ UNCHANGED <<key, tries, buckets, ratelimits, locked, reset_after, soon,
                 later, fired, left>>

----------------------------------------------------------------------------
(* Timers, and Discord.                                                    *)

\* The event loop calls release_lock().
Fire(k) ==
  /\ soon[k] > 0
  /\ soon' = [soon EXCEPT ![k] = @ - 1]
  /\ fired' = [fired EXCEPT ![k] = TRUE]
  /\ Release(k)
  /\ UNCHANGED <<pc, key, tries, buckets, ratelimits, waiters, reset_after,
                 later, serverVars>>

Serve(r) ==
  /\ pc[r] = "flight" /\ answer[r] = "none"
  /\ LET b == Bucket(r) IN
     \/ /\ left[b] > 0
        /\ left' = [left EXCEPT ![b] = @ - 1]
        /\ answer' = [answer EXCEPT ![r] = IF left[b] = 1 THEN "last" ELSE "ok"]
     \/ /\ left[b] = 0 /\ UNCHANGED left
        /\ answer' = [answer EXCEPT ![r] = "limited"]
  /\ UNCHANGED <<pc, key, tries, buckets, limiterVars>>

ServeFault(r) ==
  /\ pc[r] = "flight" /\ answer[r] = "none"
  /\ \E f \in Faults \ {"cancel"} : answer' = [answer EXCEPT ![r] = f]
  /\ UNCHANGED <<pc, key, tries, buckets, limiterVars, left>>

\* The limit of a bucket is over, with everything that waits for that.
Refill(b) ==
  /\ left[b] < Limit
  /\ left' = [left EXCEPT ![b] = Limit]
  /\ LET over(k) == k = b \/ (k \in Endpoints /\ BucketOf[k] = b) IN
     /\ soon'  = [k \in Keys |-> IF over(k) THEN soon[k] + later[k] ELSE soon[k]]
     /\ later' = [k \in Keys |-> IF over(k) THEN 0 ELSE later[k]]
  /\ pc' = [r \in Requests |->
              IF pc[r] = "sleep" /\ Bucket(r) = b THEN "rested" ELSE pc[r]]
  /\ UNCHANGED <<key, tries, buckets, ratelimits, locked, waiters, reset_after,
                 fired, answer>>

----------------------------------------------------------------------------

Step(r) ==
  \/ Arrive(r) \/ Wake(r) \/ Return(r) \/ ReturnLast(r) \/ Limited(r)
  \/ LimitedGlobally(r) \/ Retry(r) \/ Reset(r) \/ Fail(r)

Next ==
  \/ \E r \in Requests : Step(r) \/ Cancel(r) \/ Serve(r) \/ ServeFault(r)
  \/ \E k \in Keys : Fire(k)
  \/ \E b \in Buckets : Refill(b)

\* The event loop runs what is ready, requests are answered, time passes.
Fairness ==
  /\ \A r \in Requests : WF_vars(Step(r)) /\ WF_vars(Serve(r))
  /\ \A k \in Keys : WF_vars(Fire(k))
  /\ \A b \in Buckets : WF_vars(Refill(b))

Spec == Init /\ [][Next]_vars
FairSpec == Spec /\ Fairness

----------------------------------------------------------------------------
(* Properties.                                                             *)

\* The values the state of the requests, the Limiters and Discord takes; no
\* request is sent more than five times.
TypeOK ==
  /\ pc \in [Requests -> {"new", "wait"} \cup Inside \cup Ended]
  /\ key \in [Requests -> Keys]
  /\ tries \in [Requests -> 0..Tries]
  /\ \A r \in Requests : pc[r] \notin Ended => tries[r] < Tries
  /\ ratelimits \subseteq Keys /\ buckets \subseteq Endpoints
  /\ locked \in [Keys -> BOOLEAN] /\ waiters \in [Keys -> Seq(Requests)]
  /\ reset_after \in [Keys -> BOOLEAN] /\ fired \in [Keys -> BOOLEAN]
  /\ soon \in [Keys -> Nat] /\ later \in [Keys -> Nat]
  /\ left \in [Buckets -> 0..Limit]
  /\ answer \in [Requests -> {"none", "ok", "last", "limited"} \cup AllFaults]

\* Requests that took the lock of k and did not give it back: the last two
\* never will.
Holds(r, k) == key[r] = k /\ pc[r] \in Inside \cup {"gaveUp", "cancelled"}

\* A locked Limiter has a request at work on it, or one that gave up after
\* five tries or was cancelled: no other way out of request() leaks the lock.
LockInUse == \A k \in Keys : locked[k] => \E r \in Requests : Holds(r, k)

\* Until a timer releases its lock, a Limiter lets one request in at a time,
\* whatever the answers and the errors.
ExclusiveUntilTimer ==
  \A k \in Keys : ~fired[k] =>
    \A r, s \in Requests : Holds(r, k) /\ Holds(s, k) => r = s /\ locked[k]

\* A request that waits for its turn gets it, and an answer.
EveryRequestEnds == \A r \in Requests : pc[r] = "wait" ~> pc[r] \in Ended
=============================================================================
