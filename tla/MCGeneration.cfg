CONSTANTS
  r1 = r1
  r2 = r2
  pro = pro
  flash = flash
  k1 = k1
  k2 = k2
  Requests = {r1, r2}
  Models <- TwoModels
  Chain <- PremiumChain
  Keys <- TwoKeys
  KeysOf <- KeysInTable
  Rank <- ById
  Fake = Fake
  Nobody = Nobody
  NoKey = NoKey
  Budget = 2
  LastDay = 1
SPECIFICATION FairSpec
INVARIANTS TypeOK OneVoice FiledUnderAuthorIfHeard NothingAskedTwice OneModelWithoutFallback
PROPERTY TurnsEnd
CHECK_DEADLOCK FALSE
