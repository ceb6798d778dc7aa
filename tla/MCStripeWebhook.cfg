CONSTANTS
  e1 = e1
  e2 = e2
  w1 = w1
  w2 = w2
  w3 = w3
  NoEvent = NoEvent
  Events = {e1, e2}
  Handled = {e1}
  Workers = {w1, w2, w3}
  MayStall = FALSE
SPECIFICATION FairSpec
INVARIANTS TypeOK OneHolderPerEvent OnlyLostRunsRepeat
PROPERTIES ImplementsInbox RedeliveryRecovers
