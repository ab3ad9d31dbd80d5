\* Two channels, two samples, three kernel buffers, with and without a timeout.
SPECIFICATION Spec
CONSTANTS
  c1 = c1
  c2 = c2
  Channels = {c1, c2}
  Length = 2
  MaxBlocks = 3
  Timeouts = {0, 2}
INVARIANTS BlocksHaveOneHolder PushedOnce OpenOrClean ReturnsWhatWasMoved CancelIsFinal
PROPERTIES CallsReturn
