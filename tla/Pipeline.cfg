CONSTANTS
  i1 = i1
  i2 = i2
  i3 = i3
  x = x
  y = y
  None = None
  Ctxt = {0, 1}
  Addr = {x, y}
  Program <- MCProgram
  WrongOps <- MCWrongOps
  Instr = {i1, i2, i3}
  window_size = 3
  load_size = 2
  store_size = 2
  stbuf_size = 2
  MaxTraps = 1
SYMMETRY Symmetry
SPECIFICATION Spec
INVARIANTS TypeOK WindowTrue LsqTrue QueuesAgree
PROPERTIES Sequential StartedIsKept
