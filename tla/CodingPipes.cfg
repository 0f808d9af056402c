\* Every list over five names, every search in it, and every header of up to two codings,
\* in lower case or not, read and written.
SPECIFICATION FairSpec
CONSTANTS
  Names = {1, 2, 3, 4, 5}
  Writable = {2, 3, 4, 5}
  Raw = raw
  MaxCodes = 2
INVARIANTS ListAgrees ReaderUndoes
PROPERTY SearchEnds
