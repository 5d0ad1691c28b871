SPECIFICATION LiveSpec
CONSTANTS
  p1 = p1
  p2 = p2
  e1 = e1
  s1 = s1
  a1 = a1
  Proc <- Openers
  Event <- OneEvent
  Tombstone = Tombstone
  Service <- OneServiceState
  Analysis <- OneAnalysis
  None = None
  MaxEvents = 1
  MaxGenerations = 3
  MaxFaults = 2
  MaxHostCrashes = 1
INVARIANTS JournalCompletable AnchorsHonest HeadReadable AckedDurable PrivacyPurged
PROPERTIES ImplementsHistory RedactionCompletes
