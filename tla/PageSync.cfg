SPECIFICATION PartSpec
CONSTANTS
  Planes = {"semantic"}
  Successions = {"transition", "restart"}
  Askers = {"retry"}
  MaxOwner = 2
  MaxSeq <- SemanticFrames
  MaxGen = 2
  MaxFaults = 1
  MaxAsks = 1
  maxBufferedPublications = 2
  maxBaselineAttempts = 2
  MaxNavs = 2
  MaxPrompts = 2
  Plans <- NavPlans
INVARIANTS AgreedOrFenced AttachingHasFlight
PROPERTIES NoRollback PageRecovers BranchShown BranchHeals
CHECK_DEADLOCK FALSE
