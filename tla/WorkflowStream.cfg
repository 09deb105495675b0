SPECIFICATION Spec
CONSTANTS
  MaxNative = 3
  MaxBeats = 2
INVARIANTS
  TypeOK
  Framing
  NodeEventsCarried
  NothingLeftRunning
PROPERTIES
  DisconnectStops
  EndAnnounced
