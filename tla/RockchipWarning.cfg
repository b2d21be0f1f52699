SPECIFICATION Spec
CONSTANTS
  o1 = o1  o2 = o2
  Proc = {p1}
  Buf = {b1, b2}
  Obj = {o1, o2}
  Handle = {h1, h2, h3}
  Fd = {fd0, f1}
  Addr = {a1, a2}
  Rga = {r1}
  None = None
  Fd0 = fd0
  Req <- MCReq
  Page = 16
  Word = 65536
  MaxNrBufs = 3
SYMMETRY Interchangeable
INVARIANT WarningIsTrue
