SPECIFICATION FairSpec
CONSTANTS
  me = me  ada = ada  bob = bob  shop = shop  gmail = gmail  home = home  work = work  google = google
  idA = idA  idB = idB  first = first  second = second  third = third  other = other  short = short
  NoMsg = NoMsg  NoMail = NoMail  NoJob = NoJob  Nobody = Nobody
  Person = {me, ada, bob, shop, gmail}
  Domain = {home, work, google}
  DomainOf <- Domains
  Automatic = {shop, gmail}
  Confirmer = gmail
  Own = {me}
  Words = {first, second, third, other, short}
  RunesOf <- LineLengths
  MinLeadRunes = 2
  CalendarBodyFloor = 5
  LegalFooterMaxTail = 3
  MsgId = {idA, idB}
  Delivery = {1, 2}
  Handler = {1, 2}
  DailyCap = 1
  Retention = 0
  HasFallback = TRUE
  Instances <- Meetings
INVARIANTS DeliveredIsKept RowsWithinCap FilteredNeedsRescue ConfirmationsAreShown LeadIsFirstToWrite
PROPERTIES ImplementsMailbox EveryMailEnds
CHECK_DEADLOCK FALSE
