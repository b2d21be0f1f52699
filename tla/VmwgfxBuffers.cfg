SPECIFICATION Spec
CONSTANTS
  Proc = {p1}
  Buf = {b1, b2, b3}
  Obj = {o1, o2, o3}
  Handle = {h1, h2, h3}
  Fd = {}
  Addr = {a1, a2, a3, a4}
  Rga = {}
  None = None
  MaxMaps = 2
SYMMETRY Interchangeable
INVARIANTS
  TypeOK
  AddressIsOwn
  WarningIsExact
  OnlyReplacedMappingsLeak
