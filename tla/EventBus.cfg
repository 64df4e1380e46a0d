SPECIFICATION FairSpec
CONSTANTS
  e1 = e1 e2 = e2 e3 = e3 p1 = p1 p2 = p2 typed = typed wild = wild
  None = None Loop = Loop
  Events <- MCEvents
  HighEvents <- MCHigh
  Publishers <- MCPublishers
  Handlers <- MCHandlers
  Wildcards <- MCWildcards
  Emitters <- MCEmitters
  Raisers <- MCRaisers
  Interest <- MCInterest
  Capacity = 1
  Stoppable = TRUE
INVARIANTS TypeOK FanoutExactlyOnce UnfinishedAccounting DrainCoversAccepted
  BoundedInversion
PROPERTIES PublishedIsDispatched DeliversAsPromised
