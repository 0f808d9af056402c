\* Ages of nothing and of a second while the clock runs for one; any modes, formatted and parsed any number of times.
SPECIFICATION ExchangeSpec
CONSTANTS
  Ages = {0, 1}
  MaxNow = 1
INVARIANTS NeverLoosened RequestKeepsDemands
PROPERTY FormatIsStable
