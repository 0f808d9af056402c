------------------------------- MODULE Metadata -------------------------------
(* The size and the range of a body as http1.HeaderMetadata keeps them       *)
(* (src/http/http1/metadata.go): there are no fields, everything is read out *)
(* of and written into three headers.  Setters are called in any order by    *)
(* one goroutine.  A header is the sequence of its values.                   *)
EXTENDS Integers, Sequences

CONSTANTS
  MaxInt,   \* bound: the largest int64
  Sizes,    \* sizes that are set; -1 is an unknown one
  Offsets   \* offsets of ranges; a negative one counts from the end

ASSUME MetadataAssumption ==
  /\ MaxInt \in Nat /\ Sizes \subseteq -1..MaxInt /\ Offsets \subseteq Int
  /\ \A o \in Offsets : -MaxInt <= o /\ o <= MaxInt

VARIABLES
  contentRange, contentLength, transferEncoding,  \* the headers
  teSet,       \* the key Transfer-Encoding is in the header
  failed,      \* the last call returned an error
  panicked,    \* a values processor was given the index -1
  lastSize,    \* the size of the last SetSize; Unset before
  lastRange    \* the positions of the last SetRange that succeeded; Unset before

metaVars == <<contentRange, contentLength, transferEncoding, teSet, failed,
              panicked, lastSize, lastRange>>
ghosts == <<lastSize, lastRange>>

Unset == [Start |-> 0, End |-> -1]
UnsetSize == -2

(* A Content-Range: "bytes pos/size", another unit, or no '/' at all.  pos  *)
(* is a pair, "*" or empty; size is a number, "*" (-1) or empty (-2).       *)
Wellformed == [kind : {"bytes"}, pos : {"pair", "star", "empty"},
               Start : Int, End : Int, size : Int]
Odd == {[kind |-> "foreign", pos |-> "empty", Start |-> 0, End |-> 0, size |-> -2],
        [kind |-> "noslash", pos |-> "empty", Start |-> 0, End |-> 0, size |-> -2]}

MetadataTypeOK ==
  /\ contentRange \in Seq(Wellformed \cup Odd)
  /\ contentLength \in Seq(Int) /\ Len(contentLength) <= 1
  /\ transferEncoding \in Seq({"gzip", "chunked"})
  /\ ~teSet => transferEncoding = <<>>
  /\ failed \in BOOLEAN /\ panicked \in BOOLEAN

(* The headers of a response, in which a handler may have put a coding, and *)
(* headers with a Content-Range that cannot be understood.                  *)
MetadataInit ==
  /\ contentRange \in {<<>>} \cup {<<o>> : o \in Odd} \cup {<<o, o>> : o \in Odd}
  /\ contentLength = <<>>
  /\ transferEncoding \in {<<>>, <<"gzip">>, <<"gzip", "chunked">>}
  /\ teSet = (transferEncoding # <<>>)
  /\ failed = FALSE /\ panicked = FALSE
  /\ lastSize = IF contentRange = <<>> THEN -1 ELSE UnsetSize
  /\ lastRange = Unset

(* int64 arithmetic.                                                        *)
Wrap(x) == ((x + MaxInt + 1) % (2 * (MaxInt + 1))) - (MaxInt + 1)

------------------------------------------------------------------------------
(* What the headers say.                                                    *)

(* splitContentRange: a header that cannot be split has an empty range and  *)
(* an empty size, and a foreign unit is not an error.                       *)
HasRange == contentRange # <<>>
SplitFails == HasRange /\ (Len(contentRange) > 1 \/ contentRange[1].kind = "noslash")
Split == IF Len(contentRange) = 1 THEN contentRange[1]
         ELSE [kind |-> "several", pos |-> "empty", Start |-> 0, End |-> 0, size |-> -2]

(* Size: a Content-Range has precedence over the Content-Length; a size     *)
(* that does not parse is 0 with an error.                                  *)
Size ==
  IF HasRange
    THEN IF Split.size = -1 \/ SplitFails
           THEN [n |-> -1, err |-> SplitFails \/ Split.pos = "star"]
         ELSE IF Split.size = -2 THEN [n |-> 0, err |-> TRUE]
         ELSE [n |-> Split.size, err |-> FALSE]
  ELSE IF contentLength = <<>> THEN [n |-> -1, err |-> FALSE]
  ELSE IF contentLength[1] < 0 THEN [n |-> 0, err |-> TRUE]
  ELSE [n |-> contentLength[1], err |-> FALSE]

(* Range.                                                                   *)
RangeOf ==
  IF HasRange /\ ~SplitFails /\ Split.pos = "pair"
    THEN [Start |-> Split.Start, End |-> Split.End]
    ELSE Unset

------------------------------------------------------------------------------
(* The setters.                                                             *)

EndsChunked == Len(transferEncoding) > 0
               /\ transferEncoding[Len(transferEncoding)] = "chunked"

(* setContentLength takes "chunked" off, which may leave a key without any  *)
(* values.                                                                  *)
SetContentLength(n) ==
  /\ contentLength' = <<n>>
  /\ transferEncoding' = IF EndsChunked
                           THEN SubSeq(transferEncoding, 1, Len(transferEncoding) - 1)
                           ELSE transferEncoding
  /\ UNCHANGED teSet

(* removeContentLength; Add on a key without values panics in the values    *)
(* processor.                                                               *)
RemoveContentLength ==
  /\ contentLength' = <<>>
  /\ \/ EndsChunked /\ UNCHANGED <<transferEncoding, teSet, panicked>>
     \/ /\ ~EndsChunked /\ ~(teSet /\ transferEncoding = <<>>)
        /\ transferEncoding' = Append(transferEncoding, "chunked")
        /\ teSet' = TRUE
        /\ UNCHANGED panicked
     \/ /\ teSet /\ transferEncoding = <<>>
        /\ panicked' = TRUE
        /\ UNCHANGED <<transferEncoding, teSet>>

SetContentRange(pos, r, n) ==
  contentRange' = <<[kind |-> "bytes", pos |-> pos, Start |-> r.Start, End |-> r.End,
                     size |-> n]>>

(* SetSize: with a Content-Range only its size changes.                     *)
SetSize(n) ==
  /\ ~panicked
  /\ \/ /\ HasRange
        /\ SetContentRange(Split.pos, Split, n)
        /\ failed' = SplitFails
        /\ UNCHANGED <<contentLength, transferEncoding, teSet, panicked>>
     \/ /\ ~HasRange /\ n = -1
        /\ RemoveContentLength
        /\ failed' = FALSE
        /\ UNCHANGED contentRange
     \/ /\ ~HasRange /\ n # -1
        /\ SetContentLength(n)
        /\ failed' = FALSE
        /\ UNCHANGED <<contentRange, panicked>>
  /\ lastSize' = n
  /\ UNCHANGED lastRange

(* Range.Abs.                                                               *)
Abs(r, n) == [Start |-> IF r.Start < 0 THEN r.Start + n ELSE r.Start,
              End   |-> IF r.End < 0 THEN r.End + n ELSE r.End]

Refused(r) == Size.n > -1 /\ (Abs(r, Size.n).Start < 0 \/ Abs(r, Size.n).End < 0)
Unplaced(r) == Size.n = -1 /\ (r.Start < 0 \/ r.End < 0)

(* SetRange where the positions are known: the range, and the length of the *)
(* part.  An error of Size is passed on.                                    *)
SetRange(r) ==
  LET at == IF Size.n > -1 THEN Abs(r, Size.n) ELSE r
  IN  /\ ~panicked
      /\ ~Refused(r) /\ ~Unplaced(r)
      /\ SetContentRange("pair", at, Size.n)
      /\ SetContentLength(Wrap(at.End - at.Start + 1))
      /\ failed' = Size.err
      /\ lastRange' = at
      /\ UNCHANGED <<panicked, lastSize>>

(* Mutation: a range that is refused is stored first.                       *)
SetRangeTooLargeStores(r) ==
  /\ ~panicked /\ Refused(r)
  /\ SetContentRange("pair", Abs(r, Size.n), Size.n)
  /\ failed' = TRUE
  /\ UNCHANGED <<contentLength, transferEncoding, teSet, panicked, ghosts>>

(* ErrRangeTooLarge: a position in front of the first byte.                 *)
SetRangeTooLarge(r) ==
  /\ ~panicked /\ Refused(r)
  /\ failed' = TRUE
  /\ UNCHANGED <<contentRange, contentLength, transferEncoding, teSet, panicked, ghosts>>

(* A position from the end of data of unknown size: an error of Size comes  *)
(* first, and otherwise "bytes */*" replaces the header.                    *)
SetRangeUnplaced(r) ==
  /\ ~panicked /\ Unplaced(r)
  /\ \/ Size.err /\ UNCHANGED <<contentRange, lastRange>>
     \/ ~Size.err /\ SetContentRange("star", Unset, -1) /\ lastRange' = Unset
  /\ failed' = TRUE
  /\ UNCHANGED <<contentLength, transferEncoding, teSet, panicked, lastSize>>

Setters ==
  \/ \E n \in Sizes : SetSize(n)
  \/ \E r \in [Start : Offsets, End : Offsets] :
       SetRange(r) \/ SetRangeTooLarge(r) \/ SetRangeUnplaced(r)

-------------------------------------------------------------------------------
(* Properties.                                                               *)

(* Size reads back the size that was set last, and before that the default   *)
(* of -1, whatever ranges were set, refused or replaced meanwhile: the       *)
(* length of a part is never taken for the size of the whole.                *)
SizeReadsBack == ~panicked /\ lastSize # UnsetSize => Size.n = lastSize

(* Range reads back the range that was set last, although SetSize writes     *)
(* into the same header, and the Content-Length is that of the part.         *)
RangeReadsBack ==
  lastRange # Unset =>
    /\ RangeOf = lastRange
    /\ contentLength = <<Wrap(lastRange.End - lastRange.Start + 1)>>

(* A body is framed by its length or by the chunked coding, never by both.   *)
FramedOneWay == ~(contentLength # <<>> /\ EndsChunked)

(* Whatever the order in which a handler sets sizes and ranges, and whichever *)
(* of them are refused, the three headers they share agree with each other    *)
(* and with what was set last.                                                *)
MetadataAgrees == SizeReadsBack /\ RangeReadsBack /\ FramedOneWay
===============================================================================
