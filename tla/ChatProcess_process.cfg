SPECIFICATION FairSpec
CONSTANTS
  MaxMessage = 4
  MaxName = 2
  Texts <- MCTexts
  Accounts <- MCAccounts
  SomeTokens <- MCTokens
  Payloads <- MCPayloads
INVARIANTS
  FileIsWhole
  NameIsSaved
  NameIsCarried
PROPERTY
  EndsWhenAsked
