SPECIFICATION Spec
CONSTANT Decks <- MCDecks
INVARIANTS
  LoopsMeetIndicator
  SurfLoopMeetsBoundary
  BoxesReplaceOctree
