\* Three exchanges, two levels, one listener of each kind.
CONSTANTS
  Regions = 3
  Quotes <- MCQuotes
  MaxLevels = 2
  Top = 9
  QuoteListeners = {q1}
  BookListeners = {b1}
  NaN = NaN
  None = None
SPECIFICATION Spec
INVARIANTS
  BestExact
  LevelsSound
  ToldLast
PROPERTIES
  CalledOnlyOnChange
CHECK_DEADLOCK FALSE
