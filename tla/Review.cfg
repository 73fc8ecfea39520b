\* Three components, the rating twice; one failure or one lost item.
CONSTANTS
  Components <- Three
  Uploads <- RatingTwice
  Of <- FirstOf
  MaxFaults = 1
SPECIFICATION FairSpec
INVARIANTS
  ComposesWhole
  ComposedOnce
PROPERTY ReviewReachesStores
CHECK_DEADLOCK FALSE
