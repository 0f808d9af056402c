\* Up to three ranges, absolute and relative, judged for data as short as nothing and longer
\* than every offset, sorted before or not; and headers of up to three specs.
SPECIFICATION FairSpec
CONSTANTS
  Offsets <- SomeOffsets
  Sizes = {0, 1, 2, 3, 5}
  MaxRanges = 3
  Numbers = {0, 1, 3}
  MaxSpecs = 3
INVARIANTS CoverageKept TidyResult HeaderMeansRanges
PROPERTY Terminates
