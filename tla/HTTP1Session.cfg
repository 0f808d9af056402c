\* Everything a caller or the network may do to four pipelined requests, each body closed once.
SPECIFICATION FairSpec
CONSTANTS
  MaxFrames = 4
  MaxTries = 2
  MaxCloses = 1
INVARIANTS OneFrameAtATime NoDoubleUnlock EndedClosesStream
PROPERTIES LoopGoesOn EndStopsReading ImplementsPipeline
