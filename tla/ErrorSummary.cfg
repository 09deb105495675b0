SPECIFICATION Spec
CONSTANTS
  MaxAttempts = 2
  MayOmit = {}
  Faults = {"agent"}
INVARIANT
  GapsReachCEO
