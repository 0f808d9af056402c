\* Lengths set and bodies written, flushed and closed in any order on a stream that may fail,
\* also after the first Close.
SPECIFICATION Spec
CONSTANTS
  MaxLength = 3
  MaxSent = 6
  MaxCloses = 2
INVARIANT LimitIsAnnounced
PROPERTY StringBodyExact
