CONSTANTS
  NoKey = NoKey
  MaxRetries <- SixRetries
SPECIFICATION PartSpec
INVARIANTS CycleServed TranscriptFaithful KeysRunOnce
PROPERTIES ForceSurvives RemovedStaysDead CyclesEnd EveryKeySettles HistoryExact HistoryHeals
CHECK_DEADLOCK FALSE
