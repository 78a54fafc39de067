SPECIFICATION FairDelivery
CONSTANTS
  MaxBreaks = 1
  PythonAreas = {"agent-core"}
  Targets = {"MAIDAI_SOURCE", "NEW_FORGE_ADDON"}
  MaxTouched = 1
INVARIANTS ReviewedOnce OutcomeEarned DeliveredIsSound
PROPERTIES CycleEnds
