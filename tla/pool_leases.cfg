SPECIFICATION Spec
CONSTANTS
  None = None
  Records = {r1, r2, r3}
  Buffers = {b1, b2, b3}
  Handlers = {"legacy", "leased"}
  r1 = r1
  r2 = r2
  r3 = r3
  b1 = b1
  b2 = b2
  b3 = b3
INVARIANTS
  TypeOK
  BuffersConserved
  BytesIntact
