SPECIFICATION Spec
CONSTANTS
  Proc = {p1}
  Buf = {b1, b2, b3}
  Scanout = {TRUE}
  Reimports = FALSE
  Obj = {o1, o2}
  Handle = {h1, h2, h3}
  Fd = {f1}
  Addr = {}
  Rga = {}
  None = None
SYMMETRY Interchangeable
INVARIANTS
  TypeOK
  RefsExact
  SurfaceIsGood
  CreatedApart
  CallerKeepsItsOwn
  NothingLeaks
  MapsAreUsed
PROPERTIES
  FailedMapBorrows
  KeepsPromise
