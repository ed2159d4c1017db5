SPECIFICATION FairSpec
CONSTANTS
  r = r
  v = v
  Bits = 3
  Bytes = 2
  ByteOf <- TwoPerByte
  Boards = {r, v}
  Owner <- ByTurns
  Virtual = {v}
  MaxQueue = 1
INVARIANTS TypeOK EventsMatchBitmap ChangesToldUnlessRaced
PROPERTIES ChangesBecomeEvents KeepsPromise
