SPECIFICATION ViewSpec
CONSTANTS
  keyboard = keyboard
  pad = pad
  Nodes = {keyboard, pad}
  Human = {keyboard}
  Threshold = 1
  MaxNow = 1
  MaxLag = 1
INVARIANTS PresenceIsEarned
PROPERTIES BlindnessEnds HotplugIsSeen
