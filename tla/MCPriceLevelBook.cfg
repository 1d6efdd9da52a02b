\* Two sources and two levels.
CONSTANTS
  NumSources = 2
  LevelsOf <- MCLevelsOf
  MaxLevels = 2
  Top = 9
SPECIFICATION Spec
INVARIANTS
  BookExact
PROPERTIES
  CalledOnlyOnChange
CHECK_DEADLOCK FALSE
