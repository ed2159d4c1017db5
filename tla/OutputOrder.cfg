SPECIFICATION Spec
CONSTANTS
  c1 = c1
  l1 = l1
  g1 = g1
  Coils = {c1}
  Lamps = {l1}
  GiStrings = {g1}
  MaxGiLevel = 1
  HoldFrameCount = 1
  QueueMax = 2
  EventsMax = 1
  EventsToSend = 1
  OneHostThread = TRUE
  MaxCommands = 3
PROPERTIES WireOrder QuietAfterJoin
