SPECIFICATION Spec
CONSTANTS
  Word = 4096
  Format = {"RGB332", "RGB565", "RGB888", "XRGB8888", "C8"}
  Hdr = {0, 1, 12, 256, 300}
  Width = {1, 3, 64, 65, 1024}
  Height = {0, 1, 3, 17}
  BoSize <- MCBoSize
INVARIANTS
  HasRoom
  HonestClaimAccepted
  SizeCatchesMistakes
CHECK_DEADLOCK FALSE
