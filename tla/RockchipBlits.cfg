SPECIFICATION Spec
CONSTANTS
  s1 = s1  s2 = s2  s3 = s3
  Surface = {s1, s2, s3}
  Wrapped = {s1, s2}
  Lines <- MCLines
  Height <- MCHeight
  Rows <- MCRows
  Copies = {"TRANSLATE", "FLIP_H", "FLIP_H_V"}
  Keys = {"KEY_NONE", "KEY_NORMAL", "KEY_INVERTED"}
  Alphas = {"ALPHA_NONE", "ALPHA_SET"}
  Blends = {"PD_SRC", "PD_XOR", "LEGACY"}
  LogicOps = {"COPY", "AND", "XOR"}
  Filters = {"FAST"}
  Alpha = {128}
  Hardware <- MCHardware
INVARIANTS
  TypeOK
  NothingOutside
  
  BlitIsAsAsked
CHECK_DEADLOCK FALSE
