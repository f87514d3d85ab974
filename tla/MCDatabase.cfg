CONSTANTS
  Keys <- MCKeys
  DeckValues <- MCDeckValues
  MaxEntries = 8
  Calls <- MCCalls
SPECIFICATION Spec
INVARIANT TreeInOrder
INVARIANT DeleteKeepsTheOthers
INVARIANT OneAnswerPerCall
INVARIANT UsageReplays
PROPERTY ImplementsDictionary
