SPECIFICATION FairSpec
CONSTANTS
  Requests <- ThreeCalls
  Endpoints <- TwoEndpoints
  Buckets <- OneBucket
  BucketOf <- SharedBucket
  EndpointOf <- Mixed
  Limit = 1
  Faults <- Clean
CHECK_DEADLOCK FALSE
PROPERTIES EveryRequestEnds
