SPECIFICATION FairSpec
CONSTANTS
  MaxPromises = 3
  MaxReactions = 2
  MaxAsync = 1
  MaxPairs = 4
  MaxDepth = 2
INVARIANTS OneSettler ReactionOrder ResumedOnce
PROPERTY Follows
