--------------------------- MODULE MCHttpRequest ---------------------------
(* HttpRequest with three requests to two endpoints of one bucket.         *)
EXTENDS HttpRequest

TwoEndpoints == {"GET:/a", "PUT:/a"}
OneBucket    == {"hash"}
SharedBucket == [e \in TwoEndpoints |-> "hash"]
ThreeCalls   == {"r1", "r2", "r3"}
Mixed == [r \in ThreeCalls |-> IF r = "r3" THEN "PUT:/a" ELSE "GET:/a"]

\* What may leave a lock behind.
Leaking == {"reset", "cancel"}

\* What ends a request with the lock released.
Clean == {"global", "error", "oserror", "crash"}
=============================================================================
