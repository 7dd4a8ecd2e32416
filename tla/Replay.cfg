SPECIFICATION Spec
CONSTANTS
  MaxMessages = 6
  MaxBytes = 7
  OtherLengths = {0, 3, 8}
  FramesPerKeyframe = 2
  KeyLength = 2
  MaxBuffered = 3
  FrameLengths = {1}
  Resizes = 1
  Frames = 6
  Repeats = 3
  Breaks = 1
INVARIANTS LateJoinerSeesTheScreen LongestSuffixThatFits
CHECK_DEADLOCK FALSE
