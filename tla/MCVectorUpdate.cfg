SPECIFICATION Spec
CONSTANT Decks <- MCDecks
INVARIANTS SubgridsPartition MessagesFit GhostsCurrent OverlapIsSafe
