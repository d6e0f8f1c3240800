CONSTANTS
  Radix = 12
  Strs <- MCStrs
  Aliases = {2}
  Times <- MCTimes
  Blobs <- MCBlobs
  MaxItems = 1
  Phys = {1}
  U128s <- MCU128s
  RSSs = {5}
  Intervals = {7}
  Indeterminate = Indeterminate
  Hang = Hang
  Faces = {"solver", "sensor", "aggregator", "grail"}
SPECIFICATION Spec
INVARIANTS
  TypeOK
  RoundTrip
  U128OrderIsNumeric
  TransmitterReadersAgree
  TransmitterOrderIsWireOrder
  WireIsBigEndianOnEveryHost
