CONSTANTS
  Radix = 12
  Strs <- MCStrs
  Tickets = {1}
  Aliases = {2}
  Times <- MCTimes
  Weights <- MCWeights
  Blobs <- MCBlobs
  URILists <- EmptyURIList
  MaxItems = 1
  ArgOrder = "left_to_right"
  Indeterminate = Indeterminate
  Hang = Hang
SPECIFICATION Spec
INVARIANTS
  TypeOK
  RoundTrip
  KindMismatchRejected
  FrameMismatchRejected
