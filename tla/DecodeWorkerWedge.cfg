SPECIFICATION FairSpec
CONSTANTS
  Session = {s1}
  Token = {1, 2, 3, 4, 5, 6, 7, 8, 9}
  Prompts <- MCPrompts
  Snapshots <- MCSnapshots
  BadSnapshots <- MCBadSnapshots
  Argmax <- MCArgmax
  MaxLen = 3
  MaxFaults = 2
PROPERTY RetriesRecover
