\* Up to two chunks with size lines of different styles, intact, cut off or damaged at any byte, from
\* either kind of source, which may be stuck once; bodies of a given length; every combination of
\* framing headers; one Close.
SPECIFICATION FairSpec
CONSTANTS
  Chunks <- SomeChunks
  MaxChunks = 2
  SizeLines <- SomeSizeLines
  NextRequest <- SomeRequest
  BufLens = {1, 3}
  MaxStalls = 1
INVARIANTS DeliversPrefix IntactDecodes StopsAtBoundary
PROPERTY ReadingEnds
