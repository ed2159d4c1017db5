SPECIFICATION FairSpec
CONSTANTS
  c1 = c1
  l1 = l1
  g1 = g1
  Coils = {c1}
  Lamps = {}
  GiStrings = {}
  MaxGiLevel = 0
  HoldFrameCount = 2
  QueueMax = 1
  EventsMax = 1
  EventsToSend = 1
  OneHostThread = FALSE
  MaxCommands = 3
INVARIANTS TypeOK MinimumPulse BoundedPulse StopSettles
PROPERTIES DisconnectReturns PulseServed WireSettles
