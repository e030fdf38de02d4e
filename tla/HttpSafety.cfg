SPECIFICATION Spec
CONSTANTS
  Requests <- ThreeCalls
  Endpoints <- TwoEndpoints
  Buckets <- OneBucket
  BucketOf <- SharedBucket
  EndpointOf <- Mixed
  Limit = 2
  Faults <- Leaking
CHECK_DEADLOCK FALSE
INVARIANTS TypeOK LockInUse ExclusiveUntilTimer
