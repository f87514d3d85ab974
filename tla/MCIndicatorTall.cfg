SPECIFICATION Spec
CONSTANT Decks <- TallDecks
INVARIANT LookupsInBounds
