SPECIFICATION FairSpec
CONSTANTS
  ada = ada  bob = bob  first = first  second = second  ann = ann  bot = bot  sheet = sheet  page = page
  Absent = Absent  NoBucket = NoBucket  NoKey = NoKey  NoMark = NoMark
  OldFile <- FromGoogleOnly
  User = {ada, bob}
  Lead = {first, second}
  Sub = {ann, bot}
  Place = {sheet, page}
  MaxCrash = 1
  Production <- Everything
  Activity <- OnlyStarts
  Key = {ann}
  Handler = {h1, h2}
  PerMin = 2
  Burst = 2
  Minute = 3
  Idle = 3
  Stall = 1
  MaxTime = 5
  MaxAsked = 5
PROPERTY StartEnds
CHECK_DEADLOCK FALSE
