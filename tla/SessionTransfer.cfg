SPECIFICATION TransferSpec
CONSTANTS
  ms = ms
  mr = mr
  mt = mt
  mo = mo
  a1 = a1
  a2 = a2
  acut = acut
  b1 = b1
  Texts = {ms, mr, mt, mo, a1, a2, acut, b1}
  CanonOf <- MCCanonOf
  Cut <- MCCut
  Broken = {acut}
  Prompts = {a1, a2}
  CwdIn <- MCCwdIn
  WithCwd <- MCWithCwd
  MaxLength = 3
  Names = {1, 2, 3, 4, 5, 6, 7, 8, 9, 10, 11, 12}
  KindOf <- MCKindOf
  ParentOf <- MCParentOf
  OwnFolder <- MCOwnFolder
  Landing <- MCLanding
  Folded <- MCFolded
  Portable <- MCPortable
  Importable <- MCImportable
  Homes <- MCHomes
  Fresh <- MCFresh
  Grows <- MCGrows
  MaxWrites = 2
  TargetHomes <- MCTargetHomes
  Earlier <- MCEarlier
  NoEntry = NoEntry
  NoImport = NoImport
  Spare <- MCSpare
  MaxGrowth = 1
INVARIANTS PublishedIsAMoment RestoresTheMoment NeverRefused BelongsToTarget Converges
INVARIANTS DecidesByRecords LocalBytesKept AgreesWithPlanMerge LocalNeverLost
CHECK_DEADLOCK FALSE
