CONSTANTS
  Radix = 12
  Strs <- MCStrs
  Tickets = {1}
  Aliases = {2}
  Times <- MCTimes
  Weights <- MCWeights
  Blobs <- MCBlobs
  URILists <- EmptyURIList
  MaxItems = 1
  ArgOrder = "right_to_left"
  Indeterminate = Indeterminate
  Hang = Hang
SPECIFICATION Spec
INVARIANT RoundTrip
