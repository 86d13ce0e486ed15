SPECIFICATION SourcesSpec
CONSTANTS
  NoFile = NoFile
  Strings <- MCStrings
  Settings <- MCSettings
  Alternatives <- MCAlternatives
  Objects <- MCObjects
  TicksPerSecond = 2
  MaxTime = 4
  MaxUrls = 2
INVARIANTS
  SourcesTypeOK
  StartsUnlessReason
  TokensAnswered
  SwitchesPrevail
  DefaultConsentWorks
  AdvertisedWork
  UrlsHonoured
  OnlyGranted
PROPERTIES
  LapsedStaysLapsed
CHECK_DEADLOCK FALSE
