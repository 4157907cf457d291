\* Four repetitions of four rounds; a thread may be late in any of them.
SPECIFICATION SpinSpec
CONSTANTS
  Repeats = 4
  Rounds = 4
CHECK_DEADLOCK FALSE
INVARIANTS TurnsAlternate InputDrawnOnce
PROPERTY BothEnd
