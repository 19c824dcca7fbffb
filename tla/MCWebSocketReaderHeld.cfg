SPECIFICATION ConnectionSpec
CONSTANTS
  Inline = 2
  Wide = 3
  MaxPayload = 4
  Frames <- MCFrames
  MaxFrames = 3
  Lengths = {3}
  MaxLines = 1
  MaxBuffer = 2
INVARIANT NothingHeldBack
CHECK_DEADLOCK FALSE
