SPECIFICATION ConnectionFairSpec
CONSTANTS
  Inline = 2
  Wide = 3
  MaxPayload = 4
  Frames <- MCFrames
  MaxFrames = 3
  Lengths = {1, 3, 4}
  MaxLines = 3
  MaxBuffer = 2
INVARIANTS
  ConnectionTypeOK
  InStep
  InputInOrder
  WholeMessages
PROPERTIES
  InputIsServed
CHECK_DEADLOCK FALSE
