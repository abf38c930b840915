SPECIFICATION FairSpec
CONSTANTS
  MaxRequests = 2
  Streams = {TRUE, FALSE}
  MaxSaveFailures = 1
  MaxPressed = 1
CONSTRAINT OneRace
INVARIANT PageInv
INVARIANT OwnAnswer
INVARIANT UnfinishedIsStoppable
PROPERTY StoppedIsSilent
PROPERTY LoadIsStable
PROPERTY StopFrees
