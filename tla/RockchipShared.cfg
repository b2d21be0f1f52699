SPECIFICATION Spec
CONSTANTS
  o1 = o1  o2 = o2
  Proc = {p1, p2}
  Buf = {b1, b2}
  Obj = {o1, o2}
  Handle = {h1}
  Fd = {f1}
  Addr = {a1}
  Rga = {r1}
  None = None
  Fd0 = fd0
  Req <- MCReq
  Page = 16
  Word = 65536
  MaxNrBufs = 2
SYMMETRY Interchangeable
INVARIANTS
  TypeOK
  OwnsItsResources
  NothingLeaks
  LeftoversAreReported
  RowsInsideMapping
  SharedPixelsAgree
PROPERTY KeepsPromise
