SPECIFICATION FairSpec
CONSTANTS
  Session = {s1, s2}
  Token = {1, 2, 3, 4, 5, 6, 7, 8, 9}
  Prompts <- MCPrompts
  Snapshots <- MCSnapshots
  BadSnapshots <- MCBadSnapshots
  Argmax <- MCArgmax
  MaxLen = 2
  MaxFaults = 2
INVARIANTS TypeOK WorkerMatchesCheckpoint ProxyMatchesCheckpoint NoOrphanedKV
PROPERTIES ExactlyOnce CallsTerminate
