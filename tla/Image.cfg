SPECIFICATION ImageSpec
CONSTANTS
  CommandLines <- MCCommandLines
  Length <- MCLength
  Files <- MCFiles
  Writable <- MCWritable
INVARIANTS
  OnlyLayoutIsRight
  NoHalfEntries
  ExitMeansTurns
