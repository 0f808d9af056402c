--------------------------- MODULE FileServerProofs ---------------------------
(* Proofs about the file server, the dispatch in front of it and the metadata *)
(* of its responses, for any sizes, times, zones, buffers, tables and URLs.   *)
EXTENDS FileServer, SequenceTheorems, WellFoundedInduction, TLAPS

------------------------------------------------------------------------------
(* The size and the range of a response.                                    *)

Codings == {<<>>, <<"gzip">>, <<"chunked">>, <<"gzip", "chunked">>}
OddHeaders == {<<o>> : o \in Odd} \cup {<<o, o>> : o \in Odd}
Bytes(p, x, y, n) == <<[kind |-> "bytes", pos |-> p, Start |-> x, End |-> y, size |-> n]>>

(* What the three headers hold: no Content-Range and a length that is the   *)
(* size; a Content-Range that cannot be understood and has not been written *)
(* since; or one that a setter has written, with the length of its part.    *)
NoRangeYet ==
  /\ contentRange = <<>> /\ lastRange = Unset
  /\ lastSize \in Int /\ lastSize >= -1
  /\ contentLength = IF lastSize = -1 THEN <<>> ELSE <<lastSize>>
OddRange ==
  contentRange \in OddHeaders /\ lastSize = UnsetSize /\ lastRange = Unset
WrittenRange ==
  \E p \in {"pair", "star", "empty"}, x, y, n \in Int :
    /\ contentRange = Bytes(p, x, y, n)
    /\ n >= -1
    /\ lastSize # UnsetSize => lastSize = n
    /\ lastRange # Unset => /\ p = "pair" /\ lastRange = [Start |-> x, End |-> y]
                            /\ contentLength = <<Wrap((y - x) + 1)>>

MetaInv ==
  /\ NoRangeYet \/ OddRange \/ WrittenRange
  /\ transferEncoding \in Codings
  /\ contentLength # <<>> => ~EndsChunked

LEMMA CodingsEnd ==
  ASSUME transferEncoding \in Codings
  PROVE  /\ EndsChunked <=> transferEncoding \in {<<"chunked">>, <<"gzip", "chunked">>}
         /\ EndsChunked => SubSeq(transferEncoding, 1, Len(transferEncoding) - 1) \in {<<>>, <<"gzip">>}
         /\ ~EndsChunked => Append(transferEncoding, "chunked") \in Codings
<1>1. CASE transferEncoding = <<>>
  BY <1>1 DEF EndsChunked, Codings
<1>2. CASE transferEncoding = <<"gzip">>
  <2>1. Append(<<"gzip">>, "chunked") = <<"gzip", "chunked">>
    <3> DEFINE C == {"gzip", "chunked"}
               s == Append(<<"gzip">>, "chunked")
               t == <<"gzip", "chunked">>
    <3>1. <<"gzip">> \in Seq(C) /\ Len(<<"gzip">>) = 1 /\ <<"gzip">>[1] = "gzip"
      OBVIOUS
    <3>2. s \in Seq(C) /\ Len(s) = 2 /\ s[1] = "gzip" /\ s[2] = "chunked"
      BY <3>1, AppendProperties
    <3>3. t \in Seq(C) /\ Len(t) = 2 /\ t[1] = "gzip" /\ t[2] = "chunked"
      OBVIOUS
    <3> HIDE DEF s, t
    <3>4. s = t
      <4>1. \A i \in 1..Len(s) : s[i] = t[i]
        BY <3>2, <3>3
      <4> QED
        BY <3>2, <3>3, <4>1, SeqEqual
    <3> QED
      BY <3>4 DEF s, t
  <2>2. ~EndsChunked
    BY <1>2 DEF EndsChunked
  <2> QED
    BY <1>2, <2>1, <2>2 DEF Codings
<1>3. CASE transferEncoding = <<"chunked">>
  BY <1>3 DEF EndsChunked, Codings
<1>4. CASE transferEncoding = <<"gzip", "chunked">>
  <2> DEFINE s == SubSeq(<<"gzip", "chunked">>, 1, 1)
  <2>1. s \in Seq({"gzip", "chunked"}) /\ Len(s) = 1 /\ s[1] = "gzip"
    OBVIOUS
  <2>2. s = <<"gzip">>
    <3> DEFINE t == <<"gzip">>
    <3>1. t \in Seq({"gzip", "chunked"}) /\ Len(t) = 1 /\ t[1] = "gzip"
      OBVIOUS
    <3> HIDE DEF s, t
    <3>2. s = t
      <4>1. \A i \in 1..Len(s) : s[i] = t[i]
        BY <2>1, <3>1
      <4> QED
        BY <2>1, <3>1, <4>1, SeqEqual
    <3> QED
      BY <3>2 DEF t
  <2>3. EndsChunked /\ Len(transferEncoding) - 1 = 1
    BY <1>4 DEF EndsChunked
  <2> QED
    BY <1>4, <2>2, <2>3
<1> QED
  BY <1>1, <1>2, <1>3, <1>4 DEF Codings

(* What the getters read in each of the three cases.                        *)
LEMMA NoRangeReads ==
  ASSUME NoRangeYet
  PROVE  ~HasRange /\ Size.n = lastSize /\ ~Size.err /\ RangeOf = Unset
BY DEF NoRangeYet, HasRange, Size, RangeOf

LEMMA OddReads ==
  ASSUME OddRange
  PROVE  /\ HasRange /\ Size.n \in {-1, 0} /\ Size.err
         /\ Split.pos = "empty" /\ Split.Start = 0 /\ Split.End = 0
<1>1. PICK o \in Odd : contentRange = <<o>> \/ contentRange = <<o, o>>
  BY DEF OddRange, OddHeaders
<1>2. /\ o.kind \in {"foreign", "noslash"} /\ o.pos = "empty"
      /\ o.Start = 0 /\ o.End = 0 /\ o.size = -2
  BY DEF Odd
<1>3. CASE contentRange = <<o>>
  <2>1. HasRange /\ Len(contentRange) = 1 /\ contentRange[1] = o /\ Split = o
    BY <1>3 DEF HasRange, Split
  <2>3. CASE SplitFails
    <3>1. Size = [n |-> -1, err |-> TRUE]
      BY <2>1, <2>3 DEF Size
    <3> QED
      BY <1>2, <2>1, <3>1
  <2>4. CASE ~SplitFails
    <3>1. Size = [n |-> 0, err |-> TRUE]
      BY <1>2, <2>1, <2>4 DEF Size
    <3> QED
      BY <1>2, <2>1, <3>1
  <2> QED
    BY <2>3, <2>4
<1>4. CASE contentRange = <<o, o>>
  <2>1. HasRange /\ Len(contentRange) = 2 /\ SplitFails
    BY <1>4 DEF HasRange, SplitFails
  <2>2. Split = [kind |-> "several", pos |-> "empty", Start |-> 0, End |-> 0, size |-> -2]
    BY <2>1 DEF Split
  <2>3. Size = [n |-> -1, err |-> TRUE]
    BY <2>1, <2>2 DEF Size
  <2> QED
    BY <2>1, <2>2, <2>3
<1> QED
  BY <1>1, <1>3, <1>4

LEMMA WrittenReads ==
  ASSUME NEW p \in {"pair", "star", "empty"}, NEW x \in Int, NEW y \in Int,
         NEW n \in Int, n >= -1, contentRange = Bytes(p, x, y, n)
  PROVE  /\ HasRange /\ ~SplitFails /\ Size.n = n
         /\ Split.pos = p /\ Split.Start = x /\ Split.End = y
         /\ p = "pair" => RangeOf = [Start |-> x, End |-> y]
BY DEF Bytes, HasRange, SplitFails, Split, Size, RangeOf

(* Every setter keeps the headers in one of the three shapes.               *)
LEMMA SizeKeepsMeta ==
  ASSUME MetaInv, NEW n \in Int, n >= -1, SetSize(n)
  PROVE  MetaInv' /\ lastSize' = n
<1>0. lastSize' = n /\ lastRange' = lastRange /\ n # UnsetSize /\ -1 # UnsetSize
  BY DEF SetSize, UnsetSize
<1>1. CASE HasRange
  <2>1. contentRange' = Bytes(Split.pos, Split.Start, Split.End, n)
        /\ UNCHANGED <<contentLength, transferEncoding>>
    BY <1>1 DEF SetSize, SetContentRange, Bytes
  <2>2. CASE OddRange
    <3>1. contentRange' = Bytes("empty", 0, 0, n) /\ lastRange' = Unset
      BY <1>0, <2>1, <2>2, OddReads DEF OddRange
    <3>2. WrittenRange'
      BY <1>0, <3>1 DEF WrittenRange
    <3> QED
      BY <1>0, <2>1, <3>2 DEF MetaInv, EndsChunked
  <2>3. CASE WrittenRange
    <3>1. PICK p \in {"pair", "star", "empty"}, x \in Int, y \in Int, m \in Int :
            /\ contentRange = Bytes(p, x, y, m) /\ m >= -1
            /\ lastRange # Unset => /\ p = "pair" /\ lastRange = [Start |-> x, End |-> y]
                                    /\ contentLength = <<Wrap((y - x) + 1)>>
      BY <2>3 DEF WrittenRange
    <3>2. contentRange' = Bytes(p, x, y, n)
      BY <2>1, <3>1, WrittenReads
    <3>3. WrittenRange'
      BY <1>0, <2>1, <3>1, <3>2 DEF WrittenRange
    <3> QED
      BY <1>0, <2>1, <3>3 DEF MetaInv, EndsChunked
  <2> QED
    BY <1>1, <2>2, <2>3, NoRangeReads DEF MetaInv
<1>2. CASE ~HasRange
  <2>1. contentRange = <<>> /\ contentRange' = <<>> /\ lastRange = Unset
    BY <1>2, OddReads, NoRangeReads, WrittenReads
       DEF SetSize, MetaInv, HasRange, NoRangeYet, WrittenRange
  <2>2. CASE n = -1
    <3>1. RemoveContentLength
      BY <1>2, <2>2 DEF SetSize
    <3>2. contentLength' = <<>> /\ transferEncoding' \in Codings
      BY <3>1, CodingsEnd DEF RemoveContentLength, MetaInv
    <3> QED
      BY <1>0, <2>1, <2>2, <3>2 DEF MetaInv, NoRangeYet
  <2>3. CASE n # -1
    <3>1. SetContentLength(n)
      BY <1>2, <2>3 DEF SetSize
    <3>2. contentLength' = <<n>> /\ transferEncoding' \in {<<>>, <<"gzip">>}
      BY <3>1, CodingsEnd DEF SetContentLength, MetaInv, Codings
    <3>3. (~EndsChunked)' /\ transferEncoding' \in Codings
      BY <3>2 DEF EndsChunked, Codings
    <3> QED
      BY <1>0, <2>1, <2>3, <3>2, <3>3 DEF MetaInv, NoRangeYet
  <2> QED
    BY <2>2, <2>3
<1> QED
  BY <1>0, <1>1, <1>2

LEMMA SizeOk ==
  ASSUME MetaInv
  PROVE  Size.n \in Int /\ Size.n >= -1 /\ (lastSize # UnsetSize => Size.n = lastSize)
<1>1. CASE NoRangeYet
  BY <1>1, NoRangeReads DEF NoRangeYet
<1>2. CASE OddRange
  BY <1>2, OddReads DEF OddRange
<1>3. CASE WrittenRange
  BY <1>3, WrittenReads DEF WrittenRange
<1> QED
  BY <1>1, <1>2, <1>3 DEF MetaInv

LEMMA RangeKeepsMeta ==
  ASSUME MetaInv, NEW r \in [Start : Int, End : Int], SetRange(r)
  PROVE  MetaInv'
<1> DEFINE p == IF Size.n > -1 THEN Abs(r, Size.n) ELSE r
<1>0. /\ Size.n \in Int /\ Size.n >= -1
      /\ lastSize # UnsetSize => Size.n = lastSize
  BY SizeOk
<1>1. p.Start \in Int /\ p.End \in Int /\ p = [Start |-> p.Start, End |-> p.End]
  BY <1>0 DEF Abs
<1>2. /\ contentRange' = Bytes("pair", p.Start, p.End, Size.n)
      /\ SetContentLength(Wrap((p.End - p.Start) + 1))
      /\ lastRange' = p /\ lastSize' = lastSize
  BY DEF SetRange, SetContentRange, Bytes
<1> HIDE DEF p
<1>3. /\ contentLength' = <<Wrap((p.End - p.Start) + 1)>>
      /\ transferEncoding' \in {<<>>, <<"gzip">>}
  BY <1>2, CodingsEnd DEF SetContentLength, MetaInv, Codings
<1>4. (~EndsChunked)' /\ transferEncoding' \in Codings
  BY <1>3 DEF EndsChunked, Codings
<1>5. WrittenRange'
  <2> DEFINE x == p.Start
             y == p.End
             n == Size.n
  <2>1. /\ x \in Int /\ y \in Int /\ n \in Int /\ n >= -1
        /\ contentRange' = Bytes("pair", x, y, n) /\ lastRange' = [Start |-> x, End |-> y]
        /\ contentLength' = <<Wrap((y - x) + 1)>> /\ (lastSize' # UnsetSize => lastSize' = n)
    BY <1>0, <1>1, <1>2, <1>3
  <2> HIDE DEF x, y, n
  <2> QED
    BY <2>1 DEF WrittenRange
<1> QED
  BY <1>4, <1>5 DEF MetaInv

LEMMA UnplacedKeepsMeta ==
  ASSUME MetaInv, NEW r \in [Start : Int, End : Int],
         SetRangeTooLarge(r) \/ SetRangeUnplaced(r)
  PROVE  MetaInv'
<1>0. UNCHANGED <<contentLength, transferEncoding, lastSize>>
  BY DEF SetRangeTooLarge, SetRangeUnplaced, ghosts
<1>1. CASE UNCHANGED <<contentRange, lastRange>>
  BY <1>0, <1>1 DEF MetaInv, NoRangeYet, OddRange, WrittenRange, EndsChunked
<1>2. CASE Size.n = -1 /\ SetContentRange("star", Unset, -1) /\ lastRange' = Unset
  <2>1. contentRange' = Bytes("star", 0, -1, -1)
    BY <1>2 DEF SetContentRange, Unset, Bytes
  <2>2. lastSize' # UnsetSize => lastSize' = -1
    BY <1>0, <1>2, SizeOk
  <2>3. WrittenRange'
    BY <1>2, <2>1, <2>2 DEF WrittenRange
  <2> QED
    BY <1>0, <2>3 DEF MetaInv, EndsChunked
<1> QED
  BY <1>1, <1>2 DEF SetRangeTooLarge, SetRangeUnplaced, Unplaced, ghosts

LEMMA SettersKeepMeta ==
  ASSUME MetaInv, Setters PROVE MetaInv'
<1>1. ASSUME NEW n \in Sizes, SetSize(n) PROVE MetaInv'
  <2>1. n \in Int /\ n >= -1
    BY MetadataAssumption
  <2> QED
    BY <1>1, <2>1, SizeKeepsMeta
<1>2. ASSUME NEW r \in [Start : Offsets, End : Offsets],
             SetRange(r) \/ SetRangeTooLarge(r) \/ SetRangeUnplaced(r)
      PROVE  MetaInv'
  <2>1. r \in [Start : Int, End : Int]
    BY MetadataAssumption
  <2> QED
    BY <1>2, <2>1, RangeKeepsMeta, UnplacedKeepsMeta
<1> QED
  BY <1>1, <1>2 DEF Setters

LEMMA MetaKept ==
  ASSUME MetaInv, UNCHANGED metaVars PROVE MetaInv'
BY DEF MetaInv, NoRangeYet, OddRange, WrittenRange, EndsChunked, metaVars

LEMMA MetaAgrees == MetaInv => MetadataAgrees
<1> SUFFICES ASSUME MetaInv PROVE MetadataAgrees
  OBVIOUS
<1>1. SizeReadsBack
  BY SizeOk DEF SizeReadsBack
<1>2. RangeReadsBack
  <2> SUFFICES ASSUME lastRange # Unset
               PROVE  /\ RangeOf = lastRange
                      /\ contentLength = <<Wrap((lastRange.End - lastRange.Start) + 1)>>
    BY DEF RangeReadsBack
  <2>1. WrittenRange
    BY DEF MetaInv, NoRangeYet, OddRange
  <2>2. PICK p \in {"pair", "star", "empty"}, x \in Int, y \in Int, n \in Int :
            /\ contentRange = Bytes(p, x, y, n) /\ n >= -1
            /\ p = "pair" /\ lastRange = [Start |-> x, End |-> y]
            /\ contentLength = <<Wrap((y - x) + 1)>>
    BY <2>1 DEF WrittenRange
  <2> QED
    BY <2>2, WrittenReads
<1>3. FramedOneWay
  BY DEF MetaInv, FramedOneWay
<1> QED
  BY <1>1, <1>2, <1>3 DEF MetadataAgrees

------------------------------------------------------------------------------
(* The file, and what Handle has put on the wire of it.                     *)

Files == [kind : Kinds, version : Nat, size : 0..MaxInt, mtime : Int]

FileOk == file \in Files

LEMMA ChangedFile ==
  ASSUME FileOk, ChangeFile
  PROVE  FileOk' /\ file'.version = file.version + 1 /\ file'.kind = file.kind
<1>1. PICK s \in FileSizes, t \in Times :
        t >= file.mtime /\ file' = [file EXCEPT !.version = @ + 1, !.size = s, !.mtime = t]
  BY DEF ChangeFile
<1>2. s \in 0..MaxInt /\ t \in Int
  BY FileServerAssumption
<1>3. /\ file = [kind |-> file.kind, version |-> file.version, size |-> file.size,
                 mtime |-> file.mtime]
      /\ file.kind \in Kinds /\ file.version \in Nat
  BY DEF FileOk, Files
<1>4. file' = [kind |-> file.kind, version |-> file.version + 1, size |-> s, mtime |-> t]
  BY <1>1, <1>3
<1>5. file.version + 1 \in Nat
  BY <1>3
<1> QED
  BY <1>2, <1>3, <1>4, <1>5 DEF FileOk, Files

(* A step of Handle, of the client or of the world, by what it does to the  *)
(* metadata: it leaves it alone, calls one of its setters, or starts anew.  *)
LEMMA NextMeta ==
  ASSUME FileOk, MetaInv, [Next]_vars
  PROVE  FileOk' /\ MetaInv'
<1>1. CASE DispatchStep \/ OpenFails \/ ConditionFails \/ CopySome \/ CopyEnds
           \/ CopySpins \/ ReadFails \/ Over \/ UNCHANGED vars
  <2>1. UNCHANGED <<file, metaVars>>
    BY <1>1 DEF DispatchStep, OpenFails, ConditionFails, CopySome, CopyEnds, CopySpins,
                ReadFails, Over, vars, fsVars
  <2> QED
    BY <2>1, MetaKept DEF FileOk
<1>2. CASE EarlierHandlerSets
  BY <1>2, SettersKeepMeta DEF EarlierHandlerSets, FileOk
<1>3. CASE StartCopy
  <2>1. SetSize(file.size) /\ UNCHANGED file
    BY <1>3 DEF StartCopy
  <2>2. file.size \in Int /\ file.size >= -1
    BY MetadataAssumption DEF FileOk, Files
  <2> QED
    BY <2>1, <2>2, SizeKeepsMeta DEF FileOk
<1>4. CASE ChangeFile
  <2>1. UNCHANGED metaVars
    BY <1>4 DEF ChangeFile
  <2>2. FileOk'
    BY <1>4, ChangedFile
  <2> QED
    BY <2>1, <2>2, MetaKept
<1>5. CASE AskAgain
  <2>1. NoRangeYet' /\ transferEncoding' = <<>> /\ contentLength' = <<>>
    BY <1>5 DEF AskAgain, NoRangeYet
  <2> QED
    BY <1>5, <2>1 DEF AskAgain, MetaInv, Codings, FileOk
<1> QED
  BY <1>1, <1>2, <1>3, <1>4, <1>5 DEF Next, HandleRuns

LEMMA InitMeta == Init => FileOk /\ MetaInv
<1> SUFFICES ASSUME Init PROVE FileOk /\ MetaInv
  OBVIOUS
<1>1. FileOk
  <2>1. FileSizes \subseteq 0..MaxInt /\ Times \subseteq Int
    BY FileServerAssumption
  <2>2. file \in [kind : Kinds, version : {1}, size : FileSizes, mtime : Times]
    BY DEF Init
  <2>3. file.kind \in Kinds /\ file.version = 1 /\ file.size \in FileSizes /\ file.mtime \in Times
    BY <2>2
  <2>4. file = [kind |-> file.kind, version |-> file.version, size |-> file.size,
                mtime |-> file.mtime]
    BY <2>2
  <2>5. file.size \in 0..MaxInt /\ file.mtime \in Int
    BY <2>1, <2>3, Zenon
  <2>6. file.version \in Nat
    BY <2>3
  <2> QED
    BY <2>3, <2>4, <2>5, <2>6 DEF FileOk, Files
<1>2. contentLength = <<>> /\ lastRange = Unset /\ transferEncoding \in Codings
  BY DEF Init, MetadataInit, Codings
<1>3. ASSUME contentRange = <<>> PROVE NoRangeYet
  BY <1>2, <1>3 DEF Init, MetadataInit, NoRangeYet
<1>4. ASSUME contentRange # <<>> PROVE OddRange
  <2>1. contentRange \in OddHeaders
    BY <1>4 DEF Init, MetadataInit, OddHeaders
  <2> QED
    BY <1>2, <1>4, <2>1 DEF Init, MetadataInit, OddRange
<1> QED
  BY <1>1, <1>2, <1>3, <1>4 DEF MetaInv

(* Whatever an earlier handler and the file server set on the response of   *)
(* HeaderMetadata, in any order, the size and the range that are read back  *)
(* are those that were set last, and a body has one framing: for every size *)
(* and every offset, also where the length of a part wraps around.          *)
THEOREM MetadataStaysTrue == Spec => []MetadataAgrees
<1>1. Init => FileOk /\ MetaInv
  BY InitMeta
<1>2. (FileOk /\ MetaInv) /\ [Next]_vars => (FileOk /\ MetaInv)'
  BY NextMeta
<1>3. FileOk /\ MetaInv => MetadataAgrees
  BY MetaAgrees
<1> QED
  BY <1>1, <1>2, <1>3, PTL DEF Spec

(* A condition that fails leads to Not Modified or Precondition Failed, so  *)
(* that a status of 200 means that the copy was begun.                      *)
Refusals == {"NotModified", "PreconditionFailed"}

LEMMA OneCondition ==
  /\ FirstConditions = <<>> \/ \E c : c.Fail \in Refusals /\ FirstConditions = <<c>>
  /\ SecondConditions = <<>> \/ \E c : c.Fail \in Refusals /\ SecondConditions = <<c>>
<1>1. ASSUME NEW type, NEW fail \in Refusals, NEW param
      PROVE  \E c : c.Fail \in Refusals /\ Condition(type, fail, param) = <<c>>
  <2> WITNESS [Type |-> type, Fail |-> fail, param |-> param]
  <2> QED
    BY DEF Condition
<1>2. NoneMatchFails \in Refusals /\ "PreconditionFailed" \in Refusals /\ "NotModified" \in Refusals
  BY DEF NoneMatchFails, Refusals
<1>3. FirstConditions = <<>> \/ \E c : c.Fail \in Refusals /\ FirstConditions = <<c>>
  BY <1>1, <1>2 DEF FirstConditions
<1>4. SecondConditions = <<>> \/ \E c : c.Fail \in Refusals /\ SecondConditions = <<c>>
  BY <1>1, <1>2 DEF SecondConditions
<1> QED
  BY <1>3, <1>4

LEMMA ConditionsRefuse ==
  Len(Conditions) \in 0..2 /\ \A i \in 1..Len(Conditions) : Conditions[i].Fail \in Refusals
<1> DEFINE S == {c \in {FirstConditions[1], SecondConditions[1]} : c.Fail \in Refusals}
<1>0. ASSUME NEW t, t[1] \in {FirstConditions[1], SecondConditions[1]},
             t = <<>> \/ \E c : c.Fail \in Refusals /\ t = <<c>>
      PROVE  t \in Seq(S) /\ Len(t) \in 0..1
  <2>1. CASE t = <<>>
    BY <2>1
  <2>2. CASE t # <<>>
    <3>1. PICK c : c.Fail \in Refusals /\ t = <<c>>
      BY <1>0, <2>2
    <3>2. c \in S
      BY <1>0, <3>1
    <3> HIDE DEF S
    <3> QED
      BY <3>1, <3>2
  <2> QED
    BY <2>1, <2>2
<1>1. FirstConditions \in Seq(S) /\ Len(FirstConditions) \in 0..1
  BY <1>0, OneCondition
<1>2. SecondConditions \in Seq(S) /\ Len(SecondConditions) \in 0..1
  BY <1>0, OneCondition
<1>3. /\ Conditions \in Seq(S)
      /\ Len(Conditions) = Len(FirstConditions) + Len(SecondConditions)
  BY <1>1, <1>2, ConcatProperties DEF Conditions
<1>4. \A i \in 1..Len(Conditions) : Conditions[i] \in S
  BY <1>3, ElementOfSeq
<1>5. \A c \in S : c.Fail \in Refusals
  OBVIOUS
<1> HIDE DEF S
<1>6. Len(Conditions) \in 0..2
  <2> DEFINE a == Len(FirstConditions)
             b == Len(SecondConditions)
             c == Len(Conditions)
  <2>1. a \in 0..1 /\ b \in 0..1 /\ c = a + b
    BY <1>1, <1>2, <1>3
  <2> HIDE DEF a, b, c
  <2>2. c \in 0..2
    BY <2>1
  <2> QED
    BY <2>2 DEF c
<1> QED
  BY <1>4, <1>5, <1>6

LEMMA RefusedStatus ==
  ASSUME NEW s, Failing(s) # {}
  PROVE  /\ Min(Failing(s)) \in 1..Len(Conditions) /\ Min(Failing(s)) \in Failing(s)
         /\ StatusCode[Conditions[Min(Failing(s))].Fail] \in {316, 412}
<1>1. Failing(s) \subseteq 1..Len(Conditions) /\ Len(Conditions) \in 0..2
  BY ConditionsRefuse DEF Failing
<1>2. \E m \in Failing(s) : \A i \in Failing(s) : m <= i
  <2>1. CASE 1 \in Failing(s)
    BY <1>1, <2>1
  <2>2. CASE 1 \notin Failing(s)
    <3>1. \A i \in Failing(s) : i = 2
      <4> TAKE i \in Failing(s)
      <4> DEFINE n == Len(Conditions)
      <4>1. n \in 0..2 /\ i \in 1..n /\ i # 1
        BY <1>1, <2>2
      <4> HIDE DEF n
      <4> QED
        BY <4>1
    <3> QED
      BY <3>1
  <2> QED
    BY <2>1, <2>2
<1>3. Min(Failing(s)) \in Failing(s)
  BY <1>2 DEF Min
<1>4. Conditions[Min(Failing(s))].Fail \in Refusals
  BY <1>1, <1>3, ConditionsRefuse
<1> QED
  BY <1>1, <1>3, <1>4 DEF StatusCode, Refusals

(* What Stat has returned is the file, or an older version of it.           *)
StatsOk ==
  /\ stats \in Files
  /\ stats.version <= file.version
  /\ stats.version = file.version => stats = file

(* How far the copy is: what was read was sent, and it is of the version    *)
(* that was announced as long as the file is.                               *)
CopyInv ==
  /\ off \in Nat
  /\ request.method = "GET" /\ contentRange = <<>> =>
       /\ announced \in {-1, stats.size} /\ sent = off
       /\ file.version = stats.version =>
            off <= stats.size /\ versions = IF off = 0 THEN {} ELSE {stats.version}

SentInv ==
  /\ pc \in {"dispatch", "copy"} => status = 200 /\ ~cut
  /\ pc = "dispatch" => off = 0 /\ announced = -1 /\ sent = 0 /\ versions = {}
  /\ pc = "copy" \/ (Answered /\ status = 200) =>
       StatsOk /\ (contentRange = <<>> => contentLength = <<stats.size>>)
  /\ pc = "copy" => CopyInv
  /\ SentIsAnnounced

LEMMA SentKept ==
  ASSUME SentInv,
         UNCHANGED <<contentRange, contentLength, file, request, stats, status, off, announced,
                     sent, versions, cut, pc>>
  PROVE  SentInv'
BY DEF SentInv, StatsOk, CopyInv, SentIsAnnounced, Answered

LEMMA OpenKeepsSent ==
  ASSUME FileOk, SentInv, OpenFails \/ ConditionFails \/ StartCopy
  PROVE  SentInv'
<1>0. pc = "dispatch" /\ status = 200 /\ ~cut /\ off = 0 /\ announced = -1 /\ sent = 0 /\ versions = {}
  BY DEF SentInv, OpenFails, ConditionFails, StartCopy, Opens, Reached
<1>1. CASE OpenFails
  BY <1>0, <1>1 DEF OpenFails, SentInv, SentIsAnnounced, Answered, StatusCode
<1>2. CASE ConditionFails
  <2>1. status' \in {316, 412} /\ pc' = "handled"
    BY <1>2, RefusedStatus DEF ConditionFails
  <2> QED
    BY <2>1 DEF SentInv, SentIsAnnounced, Answered
<1>3. CASE StartCopy
  <2>1. /\ pc' = "copy" /\ stats' = file /\ file' = file /\ SetSize(file.size)
        /\ UNCHANGED <<status, cut, off, announced, sent, versions>>
    BY <1>3 DEF StartCopy, Opens
  <2>2. StatsOk'
    BY <2>1 DEF StatsOk, FileOk, Files
  <2>3. file.size # -1
    BY MetadataAssumption DEF FileOk, Files
  <2>4. contentRange' = <<>> => contentLength' = <<file.size>>
    BY <2>1, <2>3 DEF SetSize, SetContentRange, SetContentLength
  <2>5. CopyInv'
    BY <1>0, <2>1 DEF CopyInv, FileOk, Files
  <2> QED
    BY <1>0, <2>1, <2>2, <2>4, <2>5 DEF SentInv, SentIsAnnounced, Answered
<1> QED
  BY <1>1, <1>2, <1>3

(* The lengths of one turn of the copy.                                     *)
LEMMA CopyLengths ==
  ASSUME FileOk, StatsOk, CopyInv, Buffer > 0
  PROVE  /\ ReadLen \in Nat /\ ReadLen <= stats.size /\ stats.size > 0
         /\ off <= file.size => off + ReadLen <= file.size
         /\ off <= file.size /\ ReadLen = 0 => off = file.size
<1>1. /\ BufSize \in Nat /\ stats.size \in Nat /\ file.size \in Nat /\ off \in Nat
  BY FileServerAssumption, MetadataAssumption DEF FileOk, StatsOk, CopyInv, Files
<1> DEFINE z == stats.size
           y == file.size
<1>2. z \in Nat /\ y \in Nat
  BY <1>1
<1>3. Buffer = (IF BufSize < z THEN BufSize ELSE z) /\ Unread = (IF off < y THEN y - off ELSE 0)
  BY DEF Buffer, Unread
<1> HIDE DEF z, y
<1>4. /\ ReadLen \in Nat /\ ReadLen <= z /\ z > 0
      /\ off <= y => off + ReadLen <= y
      /\ off <= y /\ ReadLen = 0 => off = y
  BY <1>1, <1>2, <1>3 DEF ReadLen
<1> QED
  BY <1>4 DEF z, y

LEMMA CopyKeepsSent ==
  ASSUME FileOk, SentInv, CopySome \/ CopyEnds
  PROVE  SentInv'
<1>0. /\ pc = "copy" /\ Buffer > 0 /\ status = 200 /\ ~cut /\ StatsOk /\ CopyInv
      /\ contentRange = <<>> => contentLength = <<stats.size>>
      /\ UNCHANGED <<contentRange, contentLength, file, request, stats, status>>
  BY DEF SentInv, CopySome, CopyEnds, metaVars
<1>1. /\ ReadLen \in Nat /\ ReadLen <= stats.size /\ stats.size > 0
      /\ off <= file.size => off + ReadLen <= file.size
      /\ off <= file.size /\ ReadLen = 0 => off = file.size
  BY <1>0, CopyLengths
<1>2. /\ StatsOk' /\ off \in Nat /\ stats.size \in Nat
      /\ (contentRange = <<>> => contentLength = <<stats.size>>)'
      /\ file.version = stats.version => file.size = stats.size
  BY <1>0, MetadataAssumption DEF StatsOk, CopyInv, Files
<1>3. announced' = Announce
  BY DEF CopySome, CopyEnds
<1>4. ASSUME request.method = "GET", contentRange = <<>>
      PROVE  Announce = stats.size /\ Limit = stats.size /\ sent = off
  <2>1. announced \in {-1, stats.size} /\ sent = off
    BY <1>0, <1>4 DEF CopyInv
  <2>2. contentLength # <<>> /\ contentLength[1] = stats.size
    BY <1>0, <1>4
  <2>3. Announce = stats.size
    BY <2>1, <2>2 DEF Announce
  <2> QED
    BY <1>4, <2>1, <2>3 DEF Limit
<1>5. CASE CopySome /\ pc' = "copy"
  <2>1. /\ off' = off + ReadLen /\ cut' = cut
        /\ versions' = versions \cup {file.version} /\ ReadLen > 0
    BY <1>0, <1>5 DEF CopySome
  <2>2. ASSUME request.method = "GET", contentRange = <<>> PROVE sent' = off'
    BY <1>0, <1>4, <1>5, <2>1, <2>2 DEF CopySome
  <2>3. ASSUME request.method = "GET", contentRange = <<>>, file.version = stats.version
        PROVE  off' <= stats.size /\ off' # 0 /\ versions' = {stats.version}
    <3>1. off <= stats.size /\ versions \subseteq {stats.version}
      BY <1>0, <2>3 DEF CopyInv
    <3> QED
      BY <1>1, <1>2, <2>1, <2>3, <3>1
  <2>4. CopyInv'
    BY <1>0, <1>1, <1>2, <1>3, <1>4, <2>1, <2>2, <2>3 DEF CopyInv
  <2> QED
    BY <1>0, <1>2, <1>5, <2>1, <2>4 DEF SentInv, SentIsAnnounced, Answered
<1>6. CASE CopySome /\ pc' # "copy"
  <2>1. pc' = "handled" /\ cut'
    BY <1>0, <1>6 DEF CopySome
  <2> QED
    BY <1>0, <1>2, <2>1 DEF SentInv, SentIsAnnounced, Answered
<1>7. CASE CopyEnds
  <2>1. pc' = "handled" /\ UNCHANGED <<off, sent, versions, cut>> /\ ReadLen = 0
    BY <1>7 DEF CopyEnds
  <2>2. SentIsAnnounced'
    <3> SUFFICES ASSUME request.method = "GET", contentRange = <<>>, file.version = stats.version
                 PROVE  announced' = stats.size /\ sent = stats.size /\ versions = {stats.version}
      BY <1>0, <2>1 DEF SentIsAnnounced
    <3>1. off <= stats.size /\ versions = IF off = 0 THEN {} ELSE {stats.version}
      BY <1>0 DEF CopyInv
    <3>2. off = stats.size
      BY <1>1, <1>2, <2>1, <3>1
    <3> QED
      BY <1>1, <1>3, <1>4, <3>1, <3>2
  <2> QED
    BY <1>0, <1>2, <2>1, <2>2 DEF SentInv
<1> QED
  BY <1>5, <1>6, <1>7

LEMMA NextSent ==
  ASSUME FileOk, SentInv, [Next]_vars
  PROVE  SentInv'
<1>1. CASE OpenFails \/ ConditionFails \/ StartCopy
  BY <1>1, OpenKeepsSent
<1>2. CASE CopySome \/ CopyEnds
  BY <1>2, CopyKeepsSent
<1>3. CASE DispatchStep \/ CopySpins \/ Over \/ UNCHANGED vars
  BY <1>3, SentKept DEF DispatchStep, CopySpins, Over, vars, fsVars, metaVars
<1>4. CASE ReadFails
  BY <1>4 DEF ReadFails, SentInv, SentIsAnnounced, Answered
<1>5. CASE EarlierHandlerSets
  <2>1. /\ pc = "dispatch"
        /\ UNCHANGED <<file, request, stats, status, off, announced, sent, versions, cut, pc>>
    BY <1>5 DEF EarlierHandlerSets
  <2> QED
    BY <2>1 DEF SentInv, SentIsAnnounced, Answered
<1>6. CASE AskAgain
  BY <1>6 DEF AskAgain, SentInv, SentIsAnnounced, Answered
<1>7. CASE ChangeFile
  <2>1. /\ pc = "copy" \/ (Answered /\ status = 200)
        /\ UNCHANGED <<contentRange, contentLength, request, stats, status, off, announced, sent,
                       versions, cut, pc>>
    BY <1>7 DEF ChangeFile, Answered, metaVars
  <2>2. stats \in Files /\ file.version \in Nat /\ stats.version \in Nat
        /\ stats.version <= file.version /\ file'.version = file.version + 1
    BY <1>7, <2>1, ChangedFile DEF SentInv, StatsOk, FileOk, Files
  <2>3. file'.version # stats.version /\ stats.version <= file'.version
    BY <2>2
  <2>4. StatsOk'
    BY <2>1, <2>2, <2>3 DEF StatsOk
  <2>5. pc = "copy" => CopyInv'
    BY <2>1, <2>3 DEF SentInv, CopyInv
  <2>6. SentIsAnnounced'
    BY <2>1, <2>3 DEF SentIsAnnounced
  <2> QED
    BY <2>1, <2>4, <2>5, <2>6 DEF SentInv, Answered
<1> QED
  BY <1>1, <1>2, <1>3, <1>4, <1>5, <1>6, <1>7 DEF Next, HandleRuns

(* What FileServer.Handle has answered with 200 is on the wire as the       *)
(* header announced it, whole and of one version, for every size of the     *)
(* file and of the buffer, unless the file changed meanwhile, the stream    *)
(* broke or an earlier handler had set a range.                             *)
THEOREM WholeFileSent == Spec => []SentIsAnnounced
<1>1. Init => FileOk /\ MetaInv /\ SentInv
  BY InitMeta DEF Init, SentInv, SentIsAnnounced, Answered
<1>2. (FileOk /\ MetaInv /\ SentInv) /\ [Next]_vars => (FileOk /\ MetaInv /\ SentInv)'
  BY NextMeta, NextSent
<1>3. FileOk /\ MetaInv /\ SentInv => SentIsAnnounced
  BY DEF SentInv
<1> QED
  BY <1>1, <1>2, <1>3, PTL DEF Spec

------------------------------------------------------------------------------
(* The digits of a tag (src/etag/etag.go).                                  *)

(* A set of naturals that is not empty has a least element.                 *)
LEMMA LeastNumber ==
  ASSUME NEW S, S \subseteq Nat, S # {}
  PROVE  \E x \in S : \A y \in S : x <= y
<1> DEFINE Less == {ss \in Nat \X Nat : ss[1] < ss[2]}
<1>1. IsWellFoundedOn(Less, Nat)
  BY NatLessThanWellFounded DEF OpToRel
<1>2. PICK x \in S : \A y \in S : ~(<<y, x>> \in Less)
  BY <1>1, WFMin
<1>3. ASSUME NEW y \in S PROVE x <= y
  <2>1. y \in Nat /\ x \in Nat /\ (y < x => <<y, x>> \in Less)
    OBVIOUS
  <2> QED
    BY <2>1, <1>2
<1> QED
  BY <1>3

(* The quotient and the remainder of the division by the base.              *)
LEMMA Division ==
  ASSUME NEW v \in Nat
  PROVE  /\ v \div Base \in Nat /\ v % Base \in 0..(Base - 1)
         /\ v = Base * (v \div Base) + (v % Base)
         /\ v >= Base => v \div Base < v
         /\ v % Base \in Nat /\ Base \in Nat
<1> DEFINE q == v \div Base
           r == v % Base
<1>1. q \in Nat /\ r \in 0..(Base - 1) /\ v = Base * q + r
  BY FileServerAssumption
<1> HIDE DEF q, r
<1>2. r \in Nat /\ Base \in Nat
  BY <1>1, FileServerAssumption
<1>3. ASSUME v >= Base PROVE q < v
  <2>1. CASE q = 0
    BY <1>1, <1>2, <1>3, <2>1
  <2>2. CASE q # 0
    <3>1. Base * q >= 2 * q
      BY <1>1, FileServerAssumption
    <3> QED
      BY <1>1, <1>2, <2>2, <3>1
  <2> QED
    BY <2>1, <2>2
<1> QED
  BY <1>1, <1>2, <1>3 DEF q, r

LEMMA Glyphs ==
  ASSUME NEW d \in Nat
  PROVE  /\ Glyph(d) \in Nat
         /\ \A c \in Nat : Glyph(c) = Glyph(d) /\ Glyph(d) # Twin => c = d
  BY FileServerAssumption DEF Glyph

(* One step of etagFormatUint64, and a table of it up to n.                 *)
DigitStep(f, v) == IF v < Base THEN <<Glyph(v)>> ELSE Append(f[v \div Base], Glyph(v % Base))
DigitTable(f, n) ==
  /\ f \in [0..n -> Seq(Nat)]
  /\ \A v \in 0..n : f[v] = DigitStep(f, v)

LEMMA StepsAgree ==
  ASSUME NEW f, NEW g, NEW v \in Nat, v >= Base => f[v \div Base] = g[v \div Base]
  PROVE  DigitStep(f, v) = DigitStep(g, v)
  BY FileServerAssumption DEF DigitStep

LEMMA StepTyped ==
  ASSUME NEW f, NEW v \in Nat, v >= Base => f[v \div Base] \in Seq(Nat)
  PROVE  DigitStep(f, v) \in Seq(Nat)
<1>1. Glyph(v) \in Nat /\ Glyph(v % Base) \in Nat
  BY Division, Glyphs
<1> QED
  BY <1>1, FileServerAssumption DEF DigitStep

LEMMA TablesExist == \A n \in Nat : \E f : DigitTable(f, n)
<1> DEFINE Missing == {n \in Nat : ~ \E f : DigitTable(f, n)}
<1> SUFFICES ASSUME Missing # {} PROVE FALSE
  OBVIOUS
<1>1. PICK n \in Missing : \A k \in Missing : n <= k
  BY LeastNumber
<1>2. n \in Nat
  OBVIOUS
<1>3. \E g : n > 0 => DigitTable(g, n - 1)
  <2>1. n > 0 => n - 1 \in Nat /\ ~(n <= n - 1)
    BY <1>2
  <2> QED
    BY <1>1, <2>1
<1>4. PICK g : n > 0 => DigitTable(g, n - 1)
  BY <1>3
<1> DEFINE f == [v \in 0..n |-> IF v < n THEN g[v] ELSE DigitStep(g, n)]
<1>5. \A v \in 0..n : v < n => v \in 0..(n - 1) /\ f[v] = g[v] /\ g[v] \in Seq(Nat) /\ g[v] = DigitStep(g, v)
  BY <1>2, <1>4 DEF DigitTable
<1>6. \A v \in 0..n : v >= Base => v \div Base \in 0..n /\ v \div Base < v /\ f[v \div Base] = g[v \div Base]
  <2> SUFFICES ASSUME NEW v \in 0..n, v >= Base
               PROVE  v \div Base \in 0..n /\ v \div Base < v /\ f[v \div Base] = g[v \div Base]
    OBVIOUS
  <2>1. v \in Nat /\ v \div Base \in Nat /\ v \div Base < v
    BY <1>2, Division
  <2>2. v \div Base \in 0..n /\ v \div Base < n
    BY <1>2, <2>1
  <2> QED
    BY <1>5, <2>1, <2>2
<1>7. f[n] = DigitStep(g, n) /\ n \in 0..n
  BY <1>2
<1>8. \A v \in 0..n : f[v] = DigitStep(g, v)
  <2>1. \A v \in 0..n : v < n \/ v = n
    BY <1>2
  <2> HIDE DEF f
  <2> QED
    BY <1>5, <1>7, <2>1, Zenon
<1>9. \A v \in 0..n : f[v] = DigitStep(f, v)
  BY <1>2, <1>6, <1>8, StepsAgree, SMTT(30)
<1>10. DigitStep(g, n) \in Seq(Nat)
  <2>1. n >= Base => g[n \div Base] \in Seq(Nat)
    BY <1>2, <1>5, <1>6, <1>7
  <2> QED
    BY <1>2, <2>1, StepTyped
<1>11. f \in [0..n -> Seq(Nat)]
  BY <1>2, <1>5, <1>10
<1>12. DigitTable(f, n)
  BY <1>9, <1>11 DEF DigitTable
<1> QED
  BY <1>12

LEMMA TablesAgree ==
  ASSUME NEW n \in Nat, NEW m \in Nat, NEW f, NEW g, DigitTable(f, n), DigitTable(g, m),
         NEW u \in Nat, u <= n, u <= m
  PROVE  f[u] = g[u]
<1> DEFINE Wrong == {v \in Nat : v <= n /\ v <= m /\ f[v] # g[v]}
<1> SUFFICES ASSUME Wrong # {} PROVE FALSE
  OBVIOUS
<1>1. PICK v \in Wrong : \A k \in Wrong : v <= k
  BY LeastNumber
<1>2. v \in 0..n /\ v \in 0..m /\ v \in Nat
  OBVIOUS
<1>3. f[v] = DigitStep(f, v) /\ g[v] = DigitStep(g, v)
  BY <1>2 DEF DigitTable
<1>4. v >= Base => f[v \div Base] = g[v \div Base]
  <2> SUFFICES ASSUME v >= Base, f[v \div Base] # g[v \div Base] PROVE FALSE
    OBVIOUS
  <2>1. v \div Base \in Nat /\ v \div Base < v
    BY <1>2, Division
  <2> HIDE DEF Wrong
  <2>2. v \div Base \in Wrong
    BY <1>2, <2>1 DEF Wrong
  <2> QED
    BY <1>1, <1>2, <2>1, <2>2
<1> QED
  BY <1>1, <1>2, <1>3, <1>4, StepsAgree

(* The recursion of etagFormatUint64 defines a function.                    *)
LEMMA EtagFormatStep == EtagFormat = [v \in Nat |-> DigitStep(EtagFormat, v)]
<1> DEFINE T(n) == CHOOSE f : DigitTable(f, n)
           F == [v \in Nat |-> T(v)[v]]
<1>1. \A n \in Nat : DigitTable(T(n), n)
  BY TablesExist
<1> HIDE DEF T
<1>2. ASSUME NEW v \in Nat PROVE F[v] = DigitStep(F, v)
  <2>1. T(v)[v] = DigitStep(T(v), v)
    BY <1>1 DEF DigitTable
  <2>2. v >= Base => T(v)[v \div Base] = F[v \div Base]
    <3> SUFFICES ASSUME v >= Base PROVE T(v)[v \div Base] = F[v \div Base]
      OBVIOUS
    <3> DEFINE q == v \div Base
    <3>1. q \in Nat /\ q < v
      BY Division
    <3> HIDE DEF q
    <3>2. q <= v /\ q <= q
      BY <3>1
    <3>3. T(v)[q] = T(q)[q]
      BY <1>1, <3>1, <3>2, TablesAgree
    <3> QED
      BY <3>1, <3>3 DEF q
  <2> QED
    BY <2>1, <2>2, StepsAgree
<1>3. F = [v \in Nat |-> DigitStep(F, v)]
  BY <1>2
<1>4. \E f : f = [v \in Nat |-> DigitStep(f, v)]
  BY <1>3
<1>5. EtagFormat = CHOOSE f : f = [v \in Nat |-> DigitStep(f, v)]
  BY DEF EtagFormat, DigitStep
<1> QED
  BY <1>4, <1>5

LEMMA EtagFormatTyped == \A v \in Nat : EtagFormat[v] \in Seq(Nat) /\ Len(EtagFormat[v]) >= 1
<1> DEFINE Good(v) == EtagFormat[v] \in Seq(Nat) /\ Len(EtagFormat[v]) >= 1
           Bad == {v \in Nat : ~Good(v)}
<1> SUFFICES ASSUME Bad # {} PROVE FALSE
  OBVIOUS
<1>1. PICK v \in Bad : \A k \in Bad : v <= k
  BY LeastNumber
<1>2. v \in Nat /\ ~Good(v)
  OBVIOUS
<1> HIDE DEF Good, Bad
<1>3. EtagFormat[v] = DigitStep(EtagFormat, v)
  BY <1>2, EtagFormatStep
<1>4. Glyph(v) \in Nat /\ Glyph(v % Base) \in Nat
  BY <1>2, Division, Glyphs
<1>5. CASE v < Base
  <2>1. EtagFormat[v] = <<Glyph(v)>>
    BY <1>3, <1>5 DEF DigitStep
  <2> QED
    BY <1>2, <1>4, <2>1 DEF Good
<1>6. CASE v >= Base
  <2> DEFINE q == v \div Base
             x == Glyph(v % Base)
  <2>1. q \in Nat /\ q < v
    BY <1>2, <1>6, Division
  <2>2. EtagFormat[v] = Append(EtagFormat[q], x)
    <3>1. ~(v < Base)
      BY <1>2, <1>6, FileServerAssumption
    <3> QED
      BY <1>3, <3>1 DEF DigitStep
  <2>3. Good(q)
    <3> HIDE DEF q
    <3>1. ~(v <= q)
      BY <1>2, <2>1
    <3> QED
      BY <1>1, <2>1, <3>1 DEF Bad
  <2> HIDE DEF q, x
  <2>4. Good(v)
    BY <1>4, <2>2, <2>3 DEF x, Good
  <2> QED
    BY <1>2, <2>4
<1> QED
  BY <1>2, <1>5, <1>6, Division

LEMMA Appended ==
  ASSUME NEW s \in Seq(Nat), NEW x \in Nat
  PROVE  /\ Len(s) \in Nat /\ Len(Append(s, x)) = Len(s) + 1 /\ Append(s, x)[Len(s) + 1] = x
         /\ \A i \in 1..Len(s) : Append(s, x)[i] = s[i]
  OBVIOUS

LEMMA AppendsApart ==
  ASSUME NEW s \in Seq(Nat), NEW t \in Seq(Nat), NEW x \in Nat, NEW y \in Nat,
         Append(s, x) = Append(t, y)
  PROVE  s = t /\ x = y
<1> DEFINE a == Append(s, x)
           b == Append(t, y)
<1>a. /\ Len(a) = Len(s) + 1 /\ a[Len(s) + 1] = x /\ \A i \in 1..Len(s) : a[i] = s[i]
      /\ Len(s) \in Nat
  BY Appended
<1>b. /\ Len(b) = Len(t) + 1 /\ b[Len(t) + 1] = y /\ \A i \in 1..Len(t) : b[i] = t[i]
      /\ Len(t) \in Nat
  BY Appended
<1>c. a = b
  OBVIOUS
<1> HIDE DEF a, b
<1>1. /\ Len(a) = Len(s) + 1 /\ a[Len(s) + 1] = x /\ \A i \in 1..Len(s) : a[i] = s[i]
      /\ Len(a) = Len(t) + 1 /\ a[Len(t) + 1] = y /\ \A i \in 1..Len(t) : a[i] = t[i]
      /\ Len(s) \in Nat /\ Len(t) \in Nat
  BY <1>a, <1>b, <1>c
<1>2. Len(s) = Len(t) /\ x = y
  BY <1>1
<1>3. \A i \in 1..Len(s) : s[i] = t[i]
  BY <1>1, <1>2
<1> QED
  BY <1>2, <1>3, SeqEqual

(* A number without the doubled character shares its digits with no other.  *)
LEMMA NaturalsApart ==
  \A v, w \in Nat :
    EtagFormat[v] = EtagFormat[w] /\ (\A i \in 1..Len(EtagFormat[v]) : EtagFormat[v][i] # Twin) => v = w
<1> DEFINE Plainly(v) == \A i \in 1..Len(EtagFormat[v]) : EtagFormat[v][i] # Twin
           Bad == {v \in Nat : Plainly(v) /\ \E w \in Nat : EtagFormat[v] = EtagFormat[w] /\ v # w}
<1> SUFFICES ASSUME Bad # {} PROVE FALSE
  OBVIOUS
<1>1. PICK v \in Bad : \A k \in Bad : v <= k
  BY LeastNumber
<1>2. PICK w \in Nat : EtagFormat[v] = EtagFormat[w] /\ v # w
  OBVIOUS
<1>3. v \in Nat /\ Plainly(v)
  OBVIOUS
<1> HIDE DEF Bad, Plainly
<1>4. EtagFormat[v] = DigitStep(EtagFormat, v) /\ EtagFormat[w] = DigitStep(EtagFormat, w)
  BY <1>2, <1>3, EtagFormatStep
<1>5. ASSUME NEW u \in Nat
      PROVE  /\ u < Base => DigitStep(EtagFormat, u) = <<Glyph(u)>>
             /\ u >= Base => DigitStep(EtagFormat, u) = Append(EtagFormat[u \div Base], Glyph(u % Base))
             /\ u < Base => Len(DigitStep(EtagFormat, u)) = 1
             /\ u >= Base => Len(DigitStep(EtagFormat, u)) >= 2
  <2>1. u >= Base => EtagFormat[u \div Base] \in Seq(Nat) /\ Len(EtagFormat[u \div Base]) >= 1
    BY Division, EtagFormatTyped
  <2>2. u < Base => DigitStep(EtagFormat, u) = <<Glyph(u)>>
    BY DEF DigitStep
  <2>3. u >= Base => DigitStep(EtagFormat, u) = Append(EtagFormat[u \div Base], Glyph(u % Base))
    BY FileServerAssumption DEF DigitStep
  <2>4. Glyph(u % Base) \in Nat
    BY Division, Glyphs
  <2> QED
    BY <2>1, <2>2, <2>3, <2>4, Appended
<1>6. Base \in Nat
  BY FileServerAssumption
<1>7. CASE v < Base
  <2>1. w < Base
    <3>1. Len(EtagFormat[w]) = 1
      BY <1>2, <1>3, <1>4, <1>5, <1>7
    <3>2. w >= Base => Len(EtagFormat[w]) >= 2
      BY <1>2, <1>4, <1>5
    <3> QED
      BY <1>2, <1>6, <3>1, <3>2
  <2>2. <<Glyph(v)>> = <<Glyph(w)>> /\ EtagFormat[v] = <<Glyph(v)>>
    BY <1>2, <1>3, <1>4, <1>5, <1>7, <2>1
  <2>3. Glyph(v) = Glyph(w) /\ Glyph(v) # Twin
    BY <1>3, <2>2 DEF Plainly
  <2> QED
    BY <1>2, <1>3, <2>3, Glyphs
<1>8. CASE v >= Base
  <2> DEFINE q == v \div Base
             c == v % Base
             p == w \div Base
             d == w % Base
  <2>1. w >= Base
    <3> SUFFICES ASSUME w < Base PROVE FALSE
      BY <1>2, <1>6
    <3> DEFINE l == Len(EtagFormat[w])
    <3>1. l >= 2
      BY <1>2, <1>3, <1>4, <1>5, <1>8
    <3>2. l = 1
      BY <1>2, <1>4, <1>5
    <3> HIDE DEF l
    <3> QED
      BY <3>1, <3>2
  <2>2. /\ q \in Nat /\ c \in Nat /\ v = Base * q + c /\ q < v
        /\ p \in Nat /\ d \in Nat /\ w = Base * p + d
    BY <1>2, <1>3, <1>6, <1>8, Division
  <2>3. EtagFormat[v] = Append(EtagFormat[q], Glyph(c)) /\ EtagFormat[w] = Append(EtagFormat[p], Glyph(d))
    BY <1>2, <1>3, <1>4, <1>5, <1>8, <2>1
  <2> HIDE DEF q, c, p, d
  <2>4. EtagFormat[q] \in Seq(Nat) /\ EtagFormat[p] \in Seq(Nat) /\ Glyph(c) \in Nat /\ Glyph(d) \in Nat
    BY <2>2, EtagFormatTyped, Glyphs
  <2>5. EtagFormat[q] = EtagFormat[p] /\ Glyph(c) = Glyph(d)
    <3>1. Append(EtagFormat[q], Glyph(c)) = Append(EtagFormat[p], Glyph(d))
      BY <1>2, <2>3
    <3> DEFINE s == EtagFormat[q]
               t == EtagFormat[p]
               x == Glyph(c)
               y == Glyph(d)
    <3>2. s \in Seq(Nat) /\ t \in Seq(Nat) /\ x \in Nat /\ y \in Nat /\ Append(s, x) = Append(t, y)
      BY <2>4, <3>1
    <3> HIDE DEF s, t, x, y
    <3>3. s = t /\ x = y
      BY <3>2, AppendsApart
    <3> QED
      BY <3>3 DEF s, t, x, y
  <2>6. /\ Len(EtagFormat[v]) = Len(EtagFormat[q]) + 1 /\ EtagFormat[v][Len(EtagFormat[q]) + 1] = Glyph(c)
        /\ \A i \in 1..Len(EtagFormat[q]) : EtagFormat[v][i] = EtagFormat[q][i]
        /\ Len(EtagFormat[q]) \in Nat
    BY <2>3, <2>4, Appended
  <2>7. Glyph(c) # Twin /\ Plainly(q)
    <3> DEFINE l == Len(EtagFormat[q])
    <3>1. l + 1 \in 1..(l + 1) /\ \A i \in 1..l : i \in 1..(l + 1)
      BY <2>6
    <3> QED
      BY <1>3, <2>6, <3>1 DEF Plainly
  <2>8. c = d
    BY <2>2, <2>5, <2>7, Glyphs
  <2>9. q = p
    <3> SUFFICES ASSUME q # p PROVE FALSE
      OBVIOUS
    <3>1. q \in Bad
      BY <2>2, <2>5, <2>7 DEF Bad
    <3>2. v <= q
      BY <1>1, <3>1
    <3> QED
      BY <1>3, <2>2, <3>2
  <2> QED
    BY <1>2, <2>2, <2>8, <2>9
<1> QED
  BY <1>3, <1>6, <1>7, <1>8

(* Only numbers with the doubled character of the alphabet share their      *)
(* digits with another one: etagFormatInt64 tells all others apart, sign    *)
(* included, for every base.                                                *)
THEOREM IntegersApart ==
  \A v, w \in Int : EtagFormatInt(v) = EtagFormatInt(w) => v = w \/ HasTwin(v)
<1> SUFFICES ASSUME NEW v \in Int, NEW w \in Int, EtagFormatInt(v) = EtagFormatInt(w), ~HasTwin(v)
             PROVE  v = w
  OBVIOUS
<1>1. /\ \A u \in Nat : EtagFormatInt(u) = EtagFormat[u]
      /\ \A u \in Int : u < 0 => EtagFormatInt(u) = <<Minus>> \o EtagFormat[-u] /\ -u \in Nat
  BY DEF EtagFormatInt
<1>2. ASSUME NEW u \in Int, u < 0
      PROVE  /\ EtagFormatInt(u)[1] = Minus
             /\ Len(EtagFormatInt(u)) = Len(EtagFormat[-u]) + 1
             /\ \A i \in 1..Len(EtagFormat[-u]) : EtagFormatInt(u)[i + 1] = EtagFormat[-u][i]
  <2> DEFINE e == EtagFormat[-u]
  <2>1. e \in Seq(Nat) /\ EtagFormatInt(u) = <<Minus>> \o e
    BY <1>1, <1>2, EtagFormatTyped
  <2>2. <<Minus>> \in Seq(Int) /\ Len(<<Minus>>) = 1 /\ <<Minus>>[1] = Minus
    BY DEF Minus
  <2> HIDE DEF e
  <2>3. e \in Seq(Int) /\ Len(e) \in Nat
    BY <2>1
  <2>4. /\ Len(<<Minus>> \o e) = 1 + Len(e) /\ (<<Minus>> \o e)[1] = Minus
        /\ \A i \in 1..Len(e) : (<<Minus>> \o e)[i + 1] = e[i]
    BY <2>2, <2>3
  <2> QED
    BY <2>1, <2>3, <2>4 DEF e
<1>3. ASSUME NEW u \in Nat PROVE EtagFormatInt(u)[1] # Minus
  <2>1. EtagFormat[u] \in Seq(Nat) /\ Len(EtagFormat[u]) >= 1
    BY EtagFormatTyped
  <2>2. EtagFormat[u][1] \in Nat
    BY <2>1
  <2> QED
    BY <1>1, <2>2 DEF Minus
<1>4. CASE v >= 0
  <2>1. w >= 0
    BY <1>2, <1>3, <1>4
  <2>2. EtagFormat[v] = EtagFormat[w] /\ \A i \in 1..Len(EtagFormat[v]) : EtagFormat[v][i] # Twin
    BY <1>1, <1>4, <2>1 DEF HasTwin
  <2> QED
    BY <1>4, <2>1, <2>2, NaturalsApart
<1>5. CASE v < 0
  <2>1. w < 0
    BY <1>2, <1>3, <1>5
  <2> DEFINE a == EtagFormat[-v]
             b == EtagFormat[-w]
  <2>2. /\ -v \in Nat /\ -w \in Nat /\ a \in Seq(Nat) /\ b \in Seq(Nat) /\ Len(a) \in Nat /\ Len(b) \in Nat
    BY <1>5, <2>1, EtagFormatTyped
  <2>3. /\ Len(EtagFormatInt(v)) = Len(a) + 1 /\ Len(EtagFormatInt(v)) = Len(b) + 1
        /\ \A i \in 1..Len(a) : EtagFormatInt(v)[i + 1] = a[i]
        /\ \A i \in 1..Len(b) : EtagFormatInt(v)[i + 1] = b[i]
    BY <1>2, <1>5, <2>1
  <2> HIDE DEF a, b
  <2>4. ASSUME NEW i \in 1..Len(a) PROVE a[i] # Twin
    <3>1. i + 1 \in 1..Len(EtagFormatInt(v)) /\ EtagFormatInt(v)[i + 1] = a[i]
      BY <2>2, <2>3
    <3> QED
      BY <3>1 DEF HasTwin
  <2>5. Len(a) = Len(b) /\ \A i \in 1..Len(a) : a[i] = b[i]
    BY <2>2, <2>3
  <2>6. a = b
    BY <2>2, <2>5, SeqEqual
  <2>7. -v = -w
    BY <2>2, <2>4, <2>6, NaturalsApart DEF a, b
  <2> QED
    BY <2>7
<1> QED
  BY <1>4, <1>5

------------------------------------------------------------------------------
(* The validators that come back.                                           *)

(* The status that the loop over the conditions gives.                      *)
Verdict(s) == IF Failing(s) = {} THEN 200 ELSE StatusCode[Conditions[Min(Failing(s))].Fail]

ConfigOk == config \in [ETag : BOOLEAN, fold : BOOLEAN, zone : Zones]

(* What the client has kept is of a version of the file that was served.    *)
Kept == [size |-> cache.size, mtime |-> cache.stamp]
CacheOk ==
  /\ cache.tag = IF config.ETag THEN Folded({SimpleFileETag(Kept)}) ELSE {}
  /\ cache.mtime = {FormatTime(cache.stamp)}
  /\ cache.version \in Nat /\ cache.version <= file.version
  /\ cache.version = file.version => cache.size = file.size /\ cache.stamp = file.mtime
  /\ file.kind \in {"file", "dir"}

(* What EchoedValidatorHolds asks of the status n.                          *)
Echoed(n) ==
  /\ /\ Asked("ifNoneMatch") /\ config.ETag /\ request.method = "GET"
     /\ request.ifMatch = "none" /\ request.ifUnmod = "none"
     => (n = StatusCode.NotModified <=> ~config.fold)
  /\ /\ Asked("ifMod") /\ request.ifNoneMatch = "none" /\ request.method = "GET"
     /\ request.ifMatch = "none" /\ request.ifUnmod = "none"
     => (n = StatusCode.NotModified <=> config.zone >= 0)
  /\ /\ Asked("ifMatch") /\ request.ifNoneMatch = "none" /\ request.ifMod = "none"
     => (n = StatusCode.PreconditionFailed <=> (config.fold \/ ~config.ETag))
  /\ /\ Asked("ifUnmod") /\ request.ifMatch = "none"
     /\ request.ifNoneMatch = "none" /\ request.ifMod = "none"
     => (n = StatusCode.PreconditionFailed <=> config.zone < 0)

EchoInv ==
  /\ round \in {1, 2} /\ ConfigOk
  /\ pc = "dispatch" => tag = {}
  /\ pc = "copy" \/ (Answered /\ status = 200) =>
       /\ tag = IF config.ETag THEN Folded({SimpleFileETag(stats)}) ELSE {}
       /\ mtime = {FormatTime(stats.mtime)}
       /\ file.kind \in {"file", "dir"}
  /\ round = 2 => CacheOk
  /\ round = 2 /\ pc \in {"copy", "handled"} /\ Fresh => Echoed(status)

LEMMA SingleCondition ==
  ASSUME NEW s, NEW type, NEW fail, NEW param,
         Conditions = Condition(type, fail, param)
  PROVE  Verdict(s) = IF Fails([Type |-> type, Fail |-> fail, param |-> param], s)
                        THEN StatusCode[fail] ELSE 200
<1> DEFINE c == [Type |-> type, Fail |-> fail, param |-> param]
<1>1. Conditions = <<c>> /\ c.Fail = fail
  BY DEF Condition
<1> HIDE DEF c
<1>2. Len(Conditions) = 1 /\ Conditions[1] = c
  BY <1>1
<1>3. Failing(s) = {i \in {1} : Fails(c, s)}
  BY <1>2 DEF Failing
<1>4. CASE Fails(c, s)
  <2>1. Failing(s) = {1}
    BY <1>3, <1>4
  <2>2. Min({1}) = 1
    BY DEF Min
  <2> QED
    BY <1>1, <1>2, <1>4, <2>1, <2>2 DEF Verdict, c
<1>5. CASE ~Fails(c, s)
  <2>1. Failing(s) = {}
    BY <1>3, <1>5
  <2> QED
    BY <1>5, <2>1 DEF Verdict, c
<1> QED
  BY <1>4, <1>5

(* A tag comes back as it was given out unless its case was folded.         *)
LEMMA TagComesBack ==
  ASSUME ConfigOk, CacheOk, file.version = cache.version
  PROVE  SimpleFileETag(file) \in Folded(cache.tag) <=> config.ETag /\ ~config.fold
<1> DEFINE t == SimpleFileETag(file)
<1>1. SimpleFileETag(Kept) = t
  BY DEF CacheOk, SimpleFileETag, Kept
<1>2. t = [w |-> "W", mtime |-> EtagFormatInt(file.mtime), size |-> EtagFormatInt(file.size)]
  BY DEF SimpleFileETag
<1>3. config.ETag \in BOOLEAN /\ config.fold \in BOOLEAN
  BY DEF ConfigOk
<1>4. t.w = "W"
  BY <1>2
<1>5. cache.tag = IF config.ETag THEN Folded({t}) ELSE {}
  BY <1>1 DEF CacheOk
<1> HIDE DEF t
<1>6. CASE ~config.ETag
  BY <1>5, <1>6 DEF Folded, t
<1>7. CASE config.ETag /\ ~config.fold
  BY <1>5, <1>7 DEF Folded, t
<1>8. CASE config.ETag /\ config.fold
  <2>1. \A u \in Folded({t}) : u = [t EXCEPT !.w = "w"]
    BY <1>8 DEF Folded
  <2>2. \A u \in Folded({t}) : [u EXCEPT !.w = "w"].w = "w"
    BY <1>2, <2>1 DEF t
  <2>3. \A u \in Folded(Folded({t})) : u.w = "w"
    BY <1>8, <2>2 DEF Folded
  <2> QED
    BY <1>4, <1>5, <1>8, <2>3 DEF t
<1> QED
  BY <1>3, <1>6, <1>7, <1>8

(* The date loses less than a second, and the offset of the zone.           *)
LEMMA DateComesBack ==
  ASSUME ConfigOk, NEW t \in Int
  PROVE  /\ t - FormatTime(t) < 2 <=> config.zone >= 0
         /\ t - FormatTime(t) >= 2 <=> config.zone < 0
<1>1. config.zone \in Int /\ config.zone % 2 = 0
  BY FileServerAssumption DEF ConfigOk
<1> DEFINE z == config.zone
           q == (t + z) \div 2
<1>2. z \in Int /\ z % 2 = 0 /\ FormatTime(t) = 2 * q
  BY <1>1 DEF FormatTime
<1>3. q \in Int /\ 2 * q <= t + z /\ t + z < 2 * q + 2
  BY <1>2
<1>4. PICK h \in Int : z = 2 * h
  <2>1. z \div 2 \in Int /\ z = 2 * (z \div 2)
    BY <1>2
  <2> QED
    BY <2>1
<1> HIDE DEF z, q
<1>5. (t - 2 * q < 2 <=> z >= 0) /\ (t - 2 * q >= 2 <=> z < 0)
  BY <1>2, <1>3, <1>4
<1> QED
  BY <1>2, <1>5 DEF z

LEMMA EchoVerdict ==
  ASSUME FileOk, ConfigOk, CacheOk, file.version = cache.version
  PROVE  Echoed(Verdict(file))
<1>0. /\ config.ETag \in BOOLEAN /\ config.fold \in BOOLEAN
      /\ file.mtime \in Int /\ cache.mtime = {FormatTime(file.mtime)}
  BY DEF ConfigOk, FileOk, Files, CacheOk
<1>c. StatusCode.NotModified = 316 /\ StatusCode.PreconditionFailed = 412
  BY DEF StatusCode
<1>1. \A a, b, c : <<>> \o Condition(a, b, c) = Condition(a, b, c) /\ Condition(a, b, c) \o <<>> = Condition(a, b, c)
  <2> TAKE a, b, c
  <2> DEFINE x == [Type |-> a, Fail |-> b, param |-> c]
  <2>1. Condition(a, b, c) \in Seq({x})
    BY DEF Condition
  <2> QED
    BY <2>1, ConcatEmptySeq
<1>2. ASSUME Asked("ifNoneMatch"), config.ETag, request.method = "GET",
             request.ifMatch = "none", request.ifUnmod = "none"
      PROVE  Verdict(file) = 316 <=> ~config.fold
  <2> DEFINE c == [Type |-> "ETagNot", Fail |-> "NotModified", param |-> Folded(cache.tag)]
  <2>1. FirstConditions = <<>>
    BY <1>2 DEF FirstConditions
  <2>2. SecondConditions = Condition("ETagNot", "NotModified", Folded(cache.tag))
    BY <1>2 DEF SecondConditions, Asked, NoneMatchFails, GetOrHead, Tags
  <2>3. Verdict(file) = IF Fails(c, file) THEN 316 ELSE 200
    BY <1>1, <1>c, <2>1, <2>2, SingleCondition DEF Conditions
  <2>4. Fails(c, file) <=> config.ETag /\ SimpleFileETag(file) \in Folded(cache.tag)
    BY DEF Fails
  <2> QED
    BY <1>0, <1>2, <2>3, <2>4, TagComesBack
<1>3. ASSUME Asked("ifMod"), request.ifNoneMatch = "none", request.method = "GET",
             request.ifMatch = "none", request.ifUnmod = "none"
      PROVE  Verdict(file) = 316 <=> config.zone >= 0
  <2> DEFINE c == [Type |-> "ModSince", Fail |-> "NotModified", param |-> cache.mtime]
  <2>1. FirstConditions = <<>>
    BY <1>3 DEF FirstConditions
  <2>2. SecondConditions = Condition("ModSince", "NotModified", cache.mtime)
    BY <1>3 DEF SecondConditions, Asked, GetOrHead
  <2>3. Verdict(file) = IF Fails(c, file) THEN 316 ELSE 200
    BY <1>1, <1>c, <2>1, <2>2, SingleCondition DEF Conditions
  <2>4. Fails(c, file) <=> \A t \in cache.mtime : file.mtime - t < 2
    BY DEF Fails
  <2>5. Fails(c, file) <=> file.mtime - FormatTime(file.mtime) < 2
    BY <1>0, <2>4
  <2> HIDE DEF c
  <2> QED
    BY <1>0, <2>3, <2>5, DateComesBack
<1>4. ASSUME Asked("ifMatch"), request.ifNoneMatch = "none", request.ifMod = "none"
      PROVE  Verdict(file) = 412 <=> (config.fold \/ ~config.ETag)
  <2> DEFINE c == [Type |-> "ETag", Fail |-> "PreconditionFailed", param |-> Folded(cache.tag)]
  <2>1. FirstConditions = Condition("ETag", "PreconditionFailed", Folded(cache.tag))
    BY <1>4 DEF FirstConditions, Asked, Tags
  <2>2. SecondConditions = <<>>
    BY <1>4 DEF SecondConditions
  <2>3. Verdict(file) = IF Fails(c, file) THEN 412 ELSE 200
    BY <1>1, <1>c, <2>1, <2>2, SingleCondition DEF Conditions
  <2>4. Fails(c, file) <=> ~config.ETag \/ SimpleFileETag(file) \notin Folded(cache.tag)
    BY DEF Fails
  <2> QED
    BY <1>0, <2>3, <2>4, TagComesBack
<1>5. ASSUME Asked("ifUnmod"), request.ifMatch = "none", request.ifNoneMatch = "none",
             request.ifMod = "none"
      PROVE  Verdict(file) = 412 <=> config.zone < 0
  <2> DEFINE c == [Type |-> "NotModSince", Fail |-> "PreconditionFailed", param |-> cache.mtime]
  <2>1. FirstConditions = Condition("NotModSince", "PreconditionFailed", cache.mtime)
    BY <1>5 DEF FirstConditions, Asked
  <2>2. SecondConditions = <<>>
    BY <1>5 DEF SecondConditions
  <2>3. Verdict(file) = IF Fails(c, file) THEN 412 ELSE 200
    BY <1>1, <1>c, <2>1, <2>2, SingleCondition DEF Conditions
  <2>4. Fails(c, file) <=> \A t \in cache.mtime : file.mtime - t >= 2
    BY DEF Fails
  <2>5. Fails(c, file) <=> file.mtime - FormatTime(file.mtime) >= 2
    BY <1>0, <2>4
  <2> HIDE DEF c
  <2> QED
    BY <1>0, <2>3, <2>5, DateComesBack
<1> QED
  BY <1>2, <1>3, <1>4, <1>5, <1>c DEF Echoed

LEMMA EchoKept ==
  ASSUME EchoInv, UNCHANGED <<config, file, request, cache, stats, status, tag, mtime, pc, round>>
  PROVE  EchoInv'
BY DEF EchoInv, ConfigOk, CacheOk, Echoed, Fresh, Answered, Asked, Kept, Folded, FormatTime,
       SimpleFileETag

LEMMA OpenKeepsEcho ==
  ASSUME FileOk, SentInv, EchoInv, OpenFails \/ ConditionFails \/ StartCopy
  PROVE  EchoInv'
<1>0. /\ pc = "dispatch" /\ status = 200 /\ tag = {}
      /\ UNCHANGED <<config, file, request, cache, round>>
  BY DEF SentInv, EchoInv, OpenFails, ConditionFails, StartCopy, Opens, Reached
<1>1. round' \in {1, 2} /\ ConfigOk' /\ (round' = 2 => CacheOk' /\ CacheOk)
  BY <1>0 DEF EchoInv, ConfigOk, CacheOk, Kept, Folded, FormatTime, SimpleFileETag
<1>2. CASE OpenFails
  <2>1. round' = 1
    BY <1>0, <1>2 DEF EchoInv, CacheOk, OpenFails
  <2>2. pc' = "failed" \/ (pc' = "handled" /\ status' = 404)
    BY <1>2 DEF OpenFails, StatusCode
  <2> QED
    BY <1>1, <2>1, <2>2 DEF EchoInv, Answered
<1>3. CASE ConditionFails \/ StartCopy
  <2>1. stats' = file /\ SetETag /\ file.kind \in {"file", "dir"}
    BY <1>3 DEF ConditionFails, StartCopy, Opens
  <2>2. status' = Verdict(file) /\ pc' \in {"copy", "handled"}
    BY <1>0, <1>3 DEF Verdict, ConditionFails, StartCopy
  <2>3. tag' = IF config.ETag THEN Folded({SimpleFileETag(file)}) ELSE {}
    BY <1>0, <2>1 DEF SetETag
  <2>4. round' = 2 /\ Fresh' => Echoed(status)'
    <3> SUFFICES ASSUME round' = 2, Fresh' PROVE Echoed(status)'
      OBVIOUS
    <3>1. file.version = cache.version
      BY <1>0, <2>1 DEF Fresh
    <3>2. Echoed(Verdict(file))
      BY <1>0, <1>1, <3>1, EchoVerdict DEF EchoInv
    <3> QED
      BY <1>0, <2>2, <3>2 DEF Echoed, Asked
  <2>5. CASE StartCopy
    <3>1. mtime' = {FormatTime(file.mtime)}
      BY <2>5 DEF StartCopy
    <3> QED
      BY <1>0, <1>1, <2>1, <2>2, <2>3, <2>4, <3>1
         DEF EchoInv, Folded, FormatTime, SimpleFileETag, Answered
  <2>6. CASE ConditionFails
    <3>1. pc' = "handled" /\ status' # 200
      BY <2>6, RefusedStatus DEF ConditionFails
    <3> QED
      BY <1>1, <2>4, <3>1 DEF EchoInv, Answered
  <2> QED
    BY <1>3, <2>5, <2>6
<1> QED
  BY <1>2, <1>3

LEMMA NextEcho ==
  ASSUME FileOk, SentInv, EchoInv, [Next]_vars
  PROVE  EchoInv'
<1>1. CASE OpenFails \/ ConditionFails \/ StartCopy
  BY <1>1, OpenKeepsEcho
<1>2. CASE DispatchStep \/ EarlierHandlerSets \/ CopySpins \/ Over \/ UNCHANGED vars
  BY <1>2, EchoKept DEF DispatchStep, EarlierHandlerSets, CopySpins, Over, vars, fsVars
<1>3. CASE CopySome \/ CopyEnds \/ ReadFails
  <2>1. /\ pc = "copy" /\ pc' \in {"copy", "handled", "failed"}
        /\ UNCHANGED <<config, file, request, cache, stats, status, tag, mtime, round>>
    BY <1>3 DEF CopySome, CopyEnds, ReadFails
  <2> QED
    BY <2>1 DEF EchoInv, ConfigOk, CacheOk, Echoed, Fresh, Answered, Asked, Kept, Folded,
                FormatTime, SimpleFileETag
<1>4. CASE ChangeFile
  <2>1. /\ pc # "dispatch"
        /\ UNCHANGED <<config, request, cache, stats, status, tag, mtime, pc, round>>
    BY <1>4 DEF ChangeFile
  <2>2. file'.version = file.version + 1 /\ file'.kind = file.kind
    BY <1>4, ChangedFile
  <2>3. file.version \in Nat
    BY DEF FileOk, Files
  <2>4. round = 2 => CacheOk'
    <3> SUFFICES ASSUME round = 2 PROVE CacheOk'
      OBVIOUS
    <3>1. CacheOk /\ cache.version <= file'.version /\ cache.version # file'.version
      BY <2>2, <2>3 DEF EchoInv, CacheOk
    <3> QED
      BY <2>1, <2>2, <3>1 DEF CacheOk, Kept, Folded, FormatTime, SimpleFileETag
  <2> QED
    BY <2>1, <2>2, <2>4 DEF EchoInv, ConfigOk, Echoed, Fresh, Answered, Asked, Folded,
                            FormatTime, SimpleFileETag
<1>5. CASE AskAgain
  <2>1. /\ Answered /\ status = 200 /\ pc' = "dispatch" /\ round' = 2 /\ tag' = {}
        /\ UNCHANGED <<config, file>>
        /\ cache' = [kind |-> "kept", version |-> stats.version, size |-> stats.size,
                     stamp |-> stats.mtime, tag |-> tag, mtime |-> mtime]
    BY <1>5 DEF AskAgain, Answered
  <2>2. /\ StatsOk /\ mtime = {FormatTime(stats.mtime)} /\ file.kind \in {"file", "dir"}
        /\ tag = IF config.ETag THEN Folded({SimpleFileETag(stats)}) ELSE {}
    BY <2>1 DEF SentInv, EchoInv
  <2>3. SimpleFileETag(Kept)' = SimpleFileETag(stats)
    BY <2>1 DEF SimpleFileETag, Kept
  <2>4. CacheOk'
    <3>1. cache'.tag = IF config'.ETag THEN Folded({SimpleFileETag(Kept)})' ELSE {}
      BY <2>1, <2>2, <2>3 DEF Folded
    <3>2. cache'.mtime = {FormatTime(cache.stamp)}'
      BY <2>1, <2>2 DEF FormatTime
    <3>3. /\ cache'.version = stats.version /\ cache'.size = stats.size
          /\ cache'.stamp = stats.mtime
      BY <2>1
    <3> QED
      BY <2>1, <2>2, <3>1, <3>2, <3>3 DEF CacheOk, StatsOk, Files
  <2> QED
    BY <2>1, <2>4 DEF EchoInv, ConfigOk, Answered
<1> QED
  BY <1>1, <1>2, <1>3, <1>4, <1>5 DEF Next, HandleRuns

(* The server understands its own validators: for a file that has not       *)
(* changed, the tag and the date that SetETag and SetMTime gave out lead    *)
(* the conditions of the next request to the status that they stand for,    *)
(* for every time, size and even offset of the zone, except as the property *)
(* says for a folded tag and a zone behind GMT.                             *)
THEOREM ValidatorsUnderstood == Spec => []EchoedValidatorHolds
<1> DEFINE Inv == FileOk /\ MetaInv /\ SentInv /\ EchoInv
<1>1. Init => Inv
  BY InitMeta DEF Init, SentInv, SentIsAnnounced, Answered, EchoInv, ConfigOk
<1>2. Inv /\ [Next]_vars => Inv'
  BY NextMeta, NextSent, NextEcho
<1>3. Inv => EchoedValidatorHolds
  BY DEF EchoInv, Echoed, EchoedValidatorHolds, Answered
<1> QED
  BY <1>1, <1>2, <1>3, PTL DEF Spec

(* Not Modified.  In the first round there is no condition; time goes on.   *)
FreshInv ==
  /\ round = 1 => request.ifNoneMatch = "none" /\ request.ifMod = "none"
  /\ round = 2 => cache.size \in Int /\ cache.stamp \in Int /\ cache.stamp <= file.mtime
  /\ pc = "copy" \/ (Answered /\ status = 200) => stats.mtime <= file.mtime
  /\ NotModifiedIsFresh

(* Only the second group of conditions leads to Not Modified.               *)
LEMMA NotModifiedCause ==
  ASSUME NEW s, Failing(s) # {}, Conditions[Min(Failing(s))].Fail = "NotModified"
  PROVE  \E c : SecondConditions = <<c>> /\ c.Fail = "NotModified" /\ Fails(c, s)
<1> DEFINE i == Min(Failing(s))
           a == FirstConditions
           b == SecondConditions
<1>1. i \in 1..Len(Conditions) /\ Fails(Conditions[i], s) /\ Conditions[i].Fail = "NotModified"
  BY RefusedStatus DEF Failing
<1>2. a = <<>> \/ \E c : c.Fail = "PreconditionFailed" /\ a = <<c>>
  <2>1. ASSUME NEW type, NEW param
        PROVE  \E c : c.Fail = "PreconditionFailed" /\ Condition(type, "PreconditionFailed", param) = <<c>>
    <3> WITNESS [Type |-> type, Fail |-> "PreconditionFailed", param |-> param]
    <3> QED
      BY DEF Condition
  <2> QED
    BY <2>1 DEF FirstConditions
<1>3. b = <<>> \/ \E c : b = <<c>>
  BY OneCondition
<1>4. Conditions = a \o b
  BY DEF Conditions
<1> HIDE DEF i, a, b
<1>5. CASE a = <<>> /\ b = <<>>
  BY <1>1, <1>4, <1>5
<1>6. CASE a = <<>> /\ b # <<>>
  <2>1. PICK c : b = <<c>>
    BY <1>3, <1>6
  <2>2. b \in Seq({c}) /\ Len(b) = 1 /\ b[1] = c
    BY <2>1
  <2>3. Conditions = b
    BY <1>4, <1>6, <2>2, ConcatEmptySeq
  <2> QED
    BY <1>1, <2>1, <2>2, <2>3 DEF b
<1>7. CASE a # <<>> /\ b = <<>>
  <2>1. PICK c : c.Fail = "PreconditionFailed" /\ a = <<c>>
    BY <1>2, <1>7
  <2>2. a \in Seq({c}) /\ Len(a) = 1 /\ a[1] = c
    BY <2>1
  <2>3. Conditions = a
    BY <1>4, <1>7, <2>2, ConcatEmptySeq
  <2> QED
    BY <1>1, <2>1, <2>2, <2>3
<1>8. CASE a # <<>> /\ b # <<>>
  <2>1. PICK c : c.Fail = "PreconditionFailed" /\ a = <<c>>
    BY <1>2, <1>8
  <2>2. PICK d : b = <<d>>
    BY <1>3, <1>8
  <2>3. a \in Seq({c, d}) /\ Len(a) = 1 /\ a[1] = c /\ b \in Seq({c, d}) /\ Len(b) = 1 /\ b[1] = d
    BY <2>1, <2>2
  <2>4. /\ Len(Conditions) = 2
        /\ \A k \in 1..2 : Conditions[k] = IF k <= 1 THEN a[k] ELSE b[k - 1]
    <3>1. /\ Len(a \o b) = Len(a) + Len(b)
          /\ \A k \in 1..(Len(a) + Len(b)) :
               (a \o b)[k] = IF k <= Len(a) THEN a[k] ELSE b[k - Len(a)]
      BY <2>3, ConcatProperties
    <3> QED
      BY <1>4, <2>3, <3>1
  <2>5. Conditions[1] = c /\ Conditions[2] = d
    BY <2>3, <2>4
  <2>6. i = 2
    BY <1>1, <2>1, <2>4, <2>5
  <2> QED
    BY <1>1, <2>2, <2>5, <2>6 DEF b
<1> QED
  BY <1>5, <1>6, <1>7, <1>8

(* A tag that comes back and is that of the file has the same digits.       *)
LEMMA TagDigits ==
  ASSUME CacheOk, SimpleFileETag(file) \in Folded(cache.tag)
  PROVE  /\ EtagFormatInt(file.mtime) = EtagFormatInt(cache.stamp)
         /\ EtagFormatInt(file.size) = EtagFormatInt(cache.size)
<1> DEFINE k == [w |-> "W", mtime |-> EtagFormatInt(cache.stamp), size |-> EtagFormatInt(cache.size)]
           t == SimpleFileETag(file)
           Alike(u) == \E x : u = [w |-> x, mtime |-> k.mtime, size |-> k.size]
<1>1. SimpleFileETag(Kept) = k
  BY DEF SimpleFileETag, Kept
<1>2. t.mtime = EtagFormatInt(file.mtime) /\ t.size = EtagFormatInt(file.size)
  BY DEF SimpleFileETag
<1>3. Alike(k)
  OBVIOUS
<1>4. ASSUME NEW T, \A u \in T : Alike(u) PROVE \A u \in Folded(T) : Alike(u)
  <2>1. ASSUME NEW u \in T PROVE Alike([u EXCEPT !.w = "w"])
    <3>1. PICK x : u = [w |-> x, mtime |-> k.mtime, size |-> k.size]
      BY <1>4
    <3>2. [u EXCEPT !.w = "w"] = [w |-> "w", mtime |-> k.mtime, size |-> k.size]
      BY <3>1
    <3> QED
      BY <3>2
  <2> HIDE DEF Alike
  <2> QED
    BY <1>4, <2>1 DEF Folded
<1>5. \A u \in cache.tag : Alike(u)
  <2>1. cache.tag = {} \/ cache.tag = Folded({k})
    BY <1>1 DEF CacheOk
  <2>2. \A u \in {k} : Alike(u)
    BY <1>3
  <2> HIDE DEF Alike, k
  <2> QED
    BY <1>4, <2>1, <2>2
<1>6. Alike(t)
  <2> HIDE DEF Alike
  <2> QED
    BY <1>4, <1>5
<1> QED
  BY <1>2, <1>6

LEMMA RefusalIsFresh ==
  ASSUME FileOk, SentInv, EchoInv, FreshInv, ConditionFails
  PROVE  NotModifiedIsFresh'
<1> SUFFICES ASSUME status' = 316 PROVE NotModifiedIsFresh'
  BY DEF NotModifiedIsFresh, StatusCode
<1>0. /\ Failing(file) # {} /\ stats' = file /\ UNCHANGED <<config, request, cache>>
      /\ status' = StatusCode[Conditions[Min(Failing(file))].Fail]
  BY DEF ConditionFails, Opens
<1>1. Conditions[Min(Failing(file))].Fail = "NotModified"
  <2> DEFINE f == Conditions[Min(Failing(file))].Fail
  <2>1. f \in Refusals /\ StatusCode[f] = 316
    BY <1>0, RefusedStatus, ConditionsRefuse
  <2> HIDE DEF f
  <2>2. f = "NotModified"
    BY <2>1 DEF Refusals, StatusCode
  <2> QED
    BY <2>2 DEF f
<1>2. PICK c : SecondConditions = <<c>> /\ c.Fail = "NotModified" /\ Fails(c, file)
  BY <1>0, <1>1, NotModifiedCause
<1>3. \/ /\ request.ifNoneMatch \in {"mine", "other"}
         /\ c = [Type |-> "ETagNot", Fail |-> NoneMatchFails, param |-> Tags(request.ifNoneMatch)]
      \/ /\ request.ifNoneMatch = "none" /\ request.ifMod = "mine"
         /\ c = [Type |-> "ModSince", Fail |-> "NotModified", param |-> cache.mtime]
  <2>1. ASSUME NEW t, NEW f, NEW p, SecondConditions = Condition(t, f, p)
        PROVE  c = [Type |-> t, Fail |-> f, param |-> p]
    BY <1>2, <2>1 DEF Condition
  <2>2. request.ifNoneMatch # "star"
    <3> SUFFICES ASSUME request.ifNoneMatch = "star" PROVE FALSE
      OBVIOUS
    <3>1. SecondConditions = Condition("NotExists", "PreconditionFailed", {})
      BY DEF SecondConditions
    <3>2. c = [Type |-> "NotExists", Fail |-> "PreconditionFailed", param |-> {}]
      BY <2>1, <3>1
    <3> QED
      BY <1>2, <3>2
  <2>3. CASE request.ifNoneMatch \in {"mine", "other"}
    <3>1. SecondConditions = Condition("ETagNot", NoneMatchFails, Tags(request.ifNoneMatch))
      BY <2>2, <2>3 DEF SecondConditions
    <3> QED
      BY <2>1, <2>3, <3>1
  <2>4. CASE request.ifNoneMatch \notin {"mine", "other"}
    <3>1. /\ request.ifNoneMatch = "none" /\ request.ifMod = "mine"
          /\ SecondConditions = Condition("ModSince", "NotModified", cache.mtime)
      BY <1>2, <2>2, <2>4 DEF SecondConditions
    <3> QED
      BY <2>1, <3>1
  <2> QED
    BY <2>3, <2>4
<1>4. /\ round = 2 /\ CacheOk /\ cache.size \in Int
      /\ cache.stamp \in Int /\ cache.stamp <= file.mtime
  BY <1>3 DEF FreshInv, EchoInv
<1>5. file.mtime \in Int /\ file.size \in Int
  BY MetadataAssumption DEF FileOk, Files
<1>6. CASE request.ifNoneMatch \in {"mine", "other"}
  <2>1. SimpleFileETag(file) \in Tags(request.ifNoneMatch)
    <3>1. c.Type = "ETagNot" /\ c.param = Tags(request.ifNoneMatch)
      BY <1>3, <1>6
    <3>2. config.ETag /\ SimpleFileETag(file) \in c.param
      BY <1>2, <3>1 DEF Fails
    <3> QED
      BY <3>1, <3>2
  <2>2. request.ifNoneMatch = "mine" /\ SimpleFileETag(file) \in Folded(cache.tag)
    BY <1>6, <2>1 DEF Tags
  <2>3. /\ EtagFormatInt(file.mtime) = EtagFormatInt(cache.stamp)
        /\ EtagFormatInt(file.size) = EtagFormatInt(cache.size)
    BY <1>4, <2>2, TagDigits
  <2>4. file.mtime = cache.stamp \/ HasTwin(file.mtime)
    BY <1>4, <1>5, <2>3, IntegersApart
  <2>5. file.size = cache.size \/ HasTwin(file.size)
    BY <1>4, <1>5, <2>3, IntegersApart
  <2>6. HasTwin(file.mtime) => HasTwin(stats.mtime)'
    BY <1>0 DEF HasTwin
  <2>7. HasTwin(file.size) => HasTwin(stats.size)'
    BY <1>0 DEF HasTwin
  <2> QED
    BY <1>0, <2>2, <2>4, <2>5, <2>6, <2>7 DEF NotModifiedIsFresh, Asked
<1>7. CASE request.ifNoneMatch = "none" /\ request.ifMod = "mine"
  <2>1. file.mtime - FormatTime(cache.stamp) < 2
    <3>1. c.Type = "ModSince" /\ c.param = cache.mtime
      BY <1>3, <1>7
    <3>2. \A t \in c.param : file.mtime - t < 2
      BY <1>2, <3>1 DEF Fails
    <3> QED
      BY <1>4, <3>1, <3>2 DEF CacheOk
  <2>2. config.zone \in Int /\ config.zone % 2 = 0
    BY FileServerAssumption DEF EchoInv, ConfigOk
  <2>3. config.zone > 0 \/ file.mtime \div 2 = cache.stamp \div 2
    <3> DEFINE z == config.zone
               m == file.mtime
               k == cache.stamp
    <3>1. z \in Int /\ m \in Int /\ k \in Int /\ z % 2 = 0 /\ k <= m
          /\ m - 2 * ((k + z) \div 2) < 2
      BY <1>4, <1>5, <2>1, <2>2 DEF FormatTime
    <3> HIDE DEF z, m, k
    <3>2. z > 0 \/ m \div 2 = k \div 2
      BY <3>1
    <3> QED
      BY <3>2 DEF z, m, k
  <2> QED
    BY <1>0, <1>7, <2>3 DEF NotModifiedIsFresh, Asked
<1> QED
  BY <1>3, <1>6, <1>7

LEMMA NextFresh ==
  ASSUME FileOk, SentInv, EchoInv, FreshInv, [Next]_vars
  PROVE  FreshInv'
<1>1. CASE ConditionFails
  <2>1. /\ pc' = "handled" /\ status' # 200 /\ UNCHANGED <<request, cache, file, round>>
    BY <1>1, RefusedStatus DEF ConditionFails
  <2> QED
    BY <1>1, <2>1, RefusalIsFresh DEF FreshInv, Answered
<1>2. CASE OpenFails \/ StartCopy
  <2>1. /\ pc' = "failed" \/ (pc' = "handled" /\ status' = 404)
              \/ (pc' = "copy" /\ stats' = file)
        /\ UNCHANGED <<request, cache, file, round>>
    BY <1>2 DEF OpenFails, StartCopy, Opens, StatusCode
  <2> QED
    BY <2>1 DEF FreshInv, NotModifiedIsFresh, Answered, StatusCode, FileOk, Files
<1>3. CASE CopySome \/ CopyEnds \/ ReadFails
  <2>1. /\ pc = "copy" /\ status = 200
        /\ UNCHANGED <<config, file, request, cache, stats, status, round>>
    BY <1>3 DEF CopySome, CopyEnds, ReadFails, SentInv
  <2> QED
    BY <2>1 DEF FreshInv, NotModifiedIsFresh, Answered, StatusCode
<1>4. CASE DispatchStep \/ EarlierHandlerSets \/ CopySpins \/ Over \/ UNCHANGED vars
  <2>1. UNCHANGED <<config, file, request, cache, stats, status, pc, round>>
    BY <1>4 DEF DispatchStep, EarlierHandlerSets, CopySpins, Over, vars, fsVars
  <2> QED
    BY <2>1 DEF FreshInv, NotModifiedIsFresh, Answered, Fresh, Asked, HasTwin
<1>5. CASE ChangeFile
  <2>1. /\ pc = "copy" \/ (Answered /\ status = 200)
        /\ UNCHANGED <<config, request, cache, stats, status, pc, round>>
    BY <1>5 DEF ChangeFile, Answered
  <2>2. file.mtime \in Int /\ file'.mtime \in Int /\ file.mtime <= file'.mtime
    <3>1. FileOk'
      BY <1>5, ChangedFile
    <3>2. PICK s \in FileSizes, t \in Times :
            t >= file.mtime /\ file' = [file EXCEPT !.version = @ + 1, !.size = s, !.mtime = t]
      BY <1>5 DEF ChangeFile
    <3>3. file'.mtime = t /\ t \in Int /\ file.mtime \in Int
      BY <3>2, FileServerAssumption DEF FileOk, Files
    <3> QED
      BY <3>2, <3>3
  <2>3. status = 200 /\ stats.mtime \in Int
    BY <2>1 DEF SentInv, StatsOk, Files
  <2> QED
    BY <2>1, <2>2, <2>3 DEF FreshInv, NotModifiedIsFresh, Answered, StatusCode
<1>6. CASE AskAgain
  <2>1. /\ Answered /\ status = 200 /\ pc' = "dispatch" /\ round' = 2 /\ UNCHANGED file
        /\ cache'.stamp = stats.mtime /\ cache'.size = stats.size
    BY <1>6 DEF AskAgain, Answered
  <2>2. stats.mtime \in Int /\ stats.mtime <= file.mtime /\ stats.size \in Int
    BY <2>1, MetadataAssumption DEF SentInv, StatsOk, Files, FreshInv
  <2> QED
    BY <2>1, <2>2 DEF FreshInv, NotModifiedIsFresh, Answered
<1> QED
  BY <1>1, <1>2, <1>3, <1>4, <1>5, <1>6 DEF Next, HandleRuns

(* Not Modified is the truth, with the exceptions that the property names,  *)
(* for every history of the file.                                           *)
THEOREM NotModifiedTrue == Spec => []NotModifiedIsFresh
<1> DEFINE Inv == FileOk /\ MetaInv /\ SentInv /\ EchoInv /\ FreshInv
<1>1. Init => Inv
  <2> SUFFICES ASSUME Init PROVE Inv
    OBVIOUS
  <2>1. FileOk /\ MetaInv /\ SentInv /\ EchoInv
    BY InitMeta DEF Init, SentInv, SentIsAnnounced, Answered, EchoInv, ConfigOk
  <2>2. request.ifNoneMatch = "none" /\ request.ifMod = "none"
    BY DEF Init, Plain
  <2> QED
    BY <2>1, <2>2 DEF Init, FreshInv, NotModifiedIsFresh, Answered
<1>2. Inv /\ [Next]_vars => Inv'
  BY NextMeta, NextSent, NextEcho, NextFresh
<1>3. Inv => NotModifiedIsFresh
  BY DEF FreshInv
<1> QED
  BY <1>1, <1>2, <1>3, PTL DEF Spec

------------------------------------------------------------------------------
(* The dispatch.                                                            *)

(* H holds the handlers behind its handlers, and the prefixes they test are *)
(* of the characters C.                                                     *)
HandlersClosed(H, C) ==
  \A h \in H :
    /\ h.kind \in {"leaf", "strip_port", "host", "hostname", "prefix", "path", "strip_prefix"}
    /\ h.kind \in {"prefix", "path", "strip_prefix"} => h.F \in H /\ h.Prefix \in Seq(C)
    /\ h.kind \in {"host", "hostname"} => \A k \in DOMAIN h.map : h.map[k] \in H

(* A port may be taken off.                                                 *)
PortsClosed(Ports) == "" \in Ports

(* What an item has stripped is what is missing from the path, until an     *)
(* item declines with something stripped.                                   *)
DispatchInv(H, U, C) ==
  /\ table \in Seq(H) /\ item \in 0..Len(table)
  /\ at \in H \cup {NoHandler}
  /\ asked \in U /\ url \in U /\ own \in Seq(C)
  /\ at = NoHandler => own = <<>>
  /\ ~leaked => asked.path = own \o url.path

LEMMA PrefixTaken ==
  ASSUME NEW C, NEW p \in Seq(C), NEW t \in Seq(C), NEW o \in Seq(C), IsPrefix(p, t)
  PROVE  /\ StripFront(t, Len(p)) \in Seq(C)
         /\ o \o t = (o \o p) \o StripFront(t, Len(p))
<1> DEFINE r == StripFront(t, Len(p))
           m == Len(p)
           n == Len(t)
<1>1. /\ m \in Nat /\ n \in Nat /\ m <= n
      /\ SubSeq(p, 1, m) = SubSeq(t, 1, m)
  BY DEF IsPrefix
<1>2. \A i \in 1..m : p[i] \in C
  BY ElementOfSeq
<1>3. \A i \in 1..n : t[i] \in C
  BY ElementOfSeq
<1>4. r \in Seq(C) /\ Len(r) = n - m /\ \A i \in 1..(n - m) : r[i] = t[m + i]
  <2>1. \A i \in (m + 1)..n : t[i] \in C
    BY <1>1, <1>3
  <2>2. /\ SubSeq(t, m + 1, n) \in Seq(C)
        /\ Len(SubSeq(t, m + 1, n)) = IF m + 1 <= n THEN n - (m + 1) + 1 ELSE 0
        /\ \A i \in 1..(n - (m + 1) + 1) : SubSeq(t, m + 1, n)[i] = t[(m + 1) + i - 1]
    BY <1>1, <2>1, SubSeqProperties
  <2>3. r = SubSeq(t, m + 1, n)
    BY DEF StripFront
  <2> HIDE DEF r, m, n
  <2> QED
    BY <1>1, <2>2, <2>3
<1>5. \A i \in 1..m : p[i] = t[i]
  <2>1. \A i \in 1..(m - 1 + 1) : SubSeq(p, 1, m)[i] = p[1 + i - 1]
    BY <1>1, <1>2, SubSeqProperties
  <2>2. \A i \in 1..m : t[i] \in C
    BY <1>1, <1>3
  <2>3. \A i \in 1..(m - 1 + 1) : SubSeq(t, 1, m)[i] = t[1 + i - 1]
    BY <1>1, <2>2, SubSeqProperties
  <2> HIDE DEF m
  <2> QED
    BY <1>1, <2>1, <2>3
<1> HIDE DEF r
<1>6. /\ o \o t \in Seq(C) /\ Len(o \o t) = Len(o) + n
      /\ \A i \in 1..(Len(o) + n) : (o \o t)[i] = IF i <= Len(o) THEN o[i] ELSE t[i - Len(o)]
  BY ConcatProperties
<1>7. /\ o \o p \in Seq(C) /\ Len(o \o p) = Len(o) + m
      /\ \A i \in 1..(Len(o) + m) : (o \o p)[i] = IF i <= Len(o) THEN o[i] ELSE p[i - Len(o)]
  BY ConcatProperties
<1> DEFINE q == o \o p
           k == Len(o)
           a == o \o t
           b == q \o r
<1>8. /\ b \in Seq(C) /\ Len(b) = Len(q) + Len(r)
      /\ \A i \in 1..(Len(q) + Len(r)) : b[i] = IF i <= Len(q) THEN q[i] ELSE r[i - Len(q)]
  <2>1. q \in Seq(C)
    BY <1>7
  <2> HIDE DEF q
  <2> QED
    BY <1>4, <2>1, ConcatProperties
<1>9. k \in Nat
  OBVIOUS
<1> HIDE DEF m, n, q, k, a, b
<1>10. Len(a) = k + n /\ Len(b) = k + n /\ Len(q) = k + m /\ a \in Seq(C) /\ b \in Seq(C)
  BY <1>1, <1>4, <1>6, <1>7, <1>8, <1>9 DEF a, q, k
<1>11. \A i \in 1..(k + n) : a[i] = b[i]
  <2> TAKE i \in 1..(k + n)
  <2>1. a[i] = IF i <= k THEN o[i] ELSE t[i - k]
    BY <1>6 DEF a, k
  <2>2. b[i] = IF i <= k + m THEN q[i] ELSE r[i - (k + m)]
    BY <1>1, <1>4, <1>8, <1>9, <1>10
  <2>3. CASE i <= k + m
    <3>1. q[i] = IF i <= k THEN o[i] ELSE p[i - k]
      BY <1>7, <1>9, <1>1, <2>3 DEF q, k
    <3>2. ~(i <= k) => i - k \in 1..m
      BY <1>1, <1>9, <2>3
    <3>3. ~(i <= k) => p[i - k] = t[i - k]
      BY <1>5, <3>2
    <3> QED
      BY <2>1, <2>2, <2>3, <3>1, <3>3
  <2>4. CASE ~(i <= k + m)
    <3>1. i - (k + m) \in 1..(n - m) /\ m + (i - (k + m)) = i - k /\ ~(i <= k)
      BY <1>1, <1>9, <2>4
    <3>2. r[i - (k + m)] = t[m + (i - (k + m))]
      BY <1>4, <3>1
    <3> QED
      BY <2>1, <2>2, <2>4, <3>1, <3>2
  <2> QED
    BY <2>3, <2>4
<1>12. a = b
  BY <1>10, <1>11, SeqEqual
<1> QED
  BY <1>4, <1>12 DEF a, b, q, r, m

LEMMA DispatchKeeps ==
  ASSUME NEW C, NEW H, NEW Names, NEW Ports, PortsClosed(Ports), HandlersClosed(H, C),
         DispatchInv(H, [name : Names, port : Ports, path : Seq(C)], C), Dispatch
  PROVE  DispatchInv(H, [name : Names, port : Ports, path : Seq(C)], C)'
<1> DEFINE U == [name : Names, port : Ports, path : Seq(C)]
<1>0. /\ table \in Seq(H) /\ item \in 0..Len(table) /\ at \in H \cup {NoHandler}
      /\ asked \in U /\ url \in U /\ own \in Seq(C)
      /\ at = NoHandler => own = <<>>
      /\ ~leaked => asked.path = own \o url.path
  BY DEF DispatchInv
<1>1. /\ url = [name |-> url.name, port |-> url.port, path |-> url.path]
      /\ url.name \in Names /\ url.port \in Ports /\ url.path \in Seq(C)
  BY <1>0
<1> SUFFICES DispatchInv(H, U, C)'
  OBVIOUS
<1> HIDE DEF U
<1>2. NoHandler.kind = "none" /\ \A h \in H : h.kind # "none" /\ h # NoHandler
  <2>1. NoHandler.kind = "none"
    BY DEF NoHandler
  <2> QED
    BY <2>1 DEF HandlersClosed
<1>3. UNCHANGED <<table, asked>>
  BY DEF Dispatch, NextItem, NotHandled, StripPort, SplitHost, SplitHostname, SplitPath,
         SplitPathStrip, LeafDeclines, Decline, Enter, Lookup
<1>4. <<>> \in Seq(C)
  BY EmptySeq
<1>5. ASSUME Decline, url' \in U, url'.path = url.path
      PROVE  DispatchInv(H, U, C)'
  <2>1. /\ own' = <<>> /\ at' = NoHandler /\ item' = item
        /\ ~leaked' => ~leaked /\ own = <<>>
    BY <1>5 DEF Decline
  <2>2. ~leaked' => asked'.path = own' \o url'.path
    BY <1>0, <1>3, <1>5, <2>1
  <2>3. own' \in Seq(C)
    BY <1>4, <2>1
  <2> QED
    BY <1>0, <1>3, <1>5, <2>1, <2>2, <2>3 DEF DispatchInv
<1>15. ASSUME Decline, url' = url PROVE DispatchInv(H, U, C)'
  BY <1>0, <1>5, <1>15
<1>6. ASSUME NEW h \in H, Enter(h), UNCHANGED <<url, own>>
      PROVE  DispatchInv(H, U, C)'
  <2>1. at' = h /\ h # NoHandler /\ UNCHANGED <<item, leaked>>
    BY <1>2, <1>6 DEF Enter
  <2> QED
    BY <1>0, <1>3, <1>6, <2>1 DEF DispatchInv
<1>7. ASSUME UNCHANGED <<item, at, url, own, leaked>> PROVE DispatchInv(H, U, C)'
  BY <1>0, <1>3, <1>7 DEF DispatchInv
<1>8. CASE NextItem
  <2>1. /\ at = NoHandler /\ item < Len(table) /\ item' = item + 1
        /\ at' \in {table[item + 1], NoHandler} /\ UNCHANGED <<url, own, leaked>>
    BY <1>8 DEF NextItem
  <2>2. item' \in 1..Len(table) /\ item' \in 0..Len(table)
    <3> DEFINE n == Len(table)
    <3>1. n \in Nat /\ item \in 0..n /\ item < n /\ item' = item + 1
      BY <1>0, <2>1, LenProperties
    <3> HIDE DEF n
    <3>2. item' \in 1..n /\ item' \in 0..n
      BY <3>1
    <3> QED
      BY <3>2 DEF n
  <2>3. table[item + 1] \in H
    BY <1>0, <2>1, <2>2, ElementOfSeq
  <2> QED
    BY <1>0, <1>3, <2>1, <2>2, <2>3 DEF DispatchInv
<1>9. CASE NotHandled
  BY <1>7, <1>9 DEF NotHandled
<1>10. CASE StripPort
  <2>1. url' = url \/ url' = [name |-> url.name, port |-> "", path |-> url.path]
    BY <1>1, <1>10 DEF StripPort
  <2>2. url' \in U /\ url'.path = url.path
    <3>1. CASE url' = url
      BY <1>0, <3>1
    <3>2. CASE url' = [name |-> url.name, port |-> "", path |-> url.path]
      <4> DEFINE none == ""
      <4>1. none \in Ports /\ url' = [name |-> url.name, port |-> none, path |-> url.path]
        BY <3>2, Zenon DEF PortsClosed
      <4> HIDE DEF none
      <4> QED
        BY <1>1, <4>1 DEF U
    <3> QED
      BY <2>1, <3>1, <3>2
  <2> QED
    BY <1>5, <1>10, <2>2 DEF StripPort
<1>11. CASE SplitHost \/ SplitHostname
  <2>1. at \in H /\ at.kind \in {"host", "hostname"}
    BY <1>0, <1>2, <1>11 DEF SplitHost, SplitHostname
  <2>2. \A k \in DOMAIN at.map : at.map[k] \in H
    BY <2>1 DEF HandlersClosed
  <2>3. ASSUME NEW k, Lookup(at.map, k) PROVE DispatchInv(H, U, C)'
    BY <1>6, <1>7, <2>2, <2>3 DEF Lookup
  <2> QED
    BY <1>11, <1>15, <2>3 DEF SplitHost, SplitHostname
<1>12. CASE SplitPath
  <2>1. at \in H /\ at.F \in H
    BY <1>0, <1>2, <1>12 DEF SplitPath, HandlersClosed
  <2> QED
    BY <1>6, <1>12, <1>15, <2>1 DEF SplitPath
<1>13. CASE SplitPathStrip
  <2>1. at \in H /\ at.F \in H /\ at.Prefix \in Seq(C) /\ at.kind = "strip_prefix"
    BY <1>0, <1>2, <1>13 DEF SplitPathStrip, HandlersClosed
  <2>2. CASE ~Matches(at, url.path)
    BY <1>13, <1>15, <2>2 DEF SplitPathStrip
  <2>3. CASE Matches(at, url.path)
    <3> DEFINE r == StripFront(url.path, Len(at.Prefix))
    <3>1. /\ url' = [url EXCEPT !.path = StripFront(url.path, Len(at.Prefix))]
          /\ own' = own \o at.Prefix /\ Enter(at.F)
      BY <1>13, <2>3 DEF SplitPathStrip
    <3>2. IsPrefix(at.Prefix, url.path)
      BY <2>1, <2>3 DEF Matches
    <3>3. r \in Seq(C) /\ own \o url.path = (own \o at.Prefix) \o r
      <4> DEFINE p == at.Prefix
                 t == url.path
      <4>1. p \in Seq(C) /\ t \in Seq(C) /\ own \in Seq(C) /\ IsPrefix(p, t)
        BY <1>0, <1>1, <2>1, <3>2
      <4> HIDE DEF p, t
      <4>2. StripFront(t, Len(p)) \in Seq(C) /\ own \o t = (own \o p) \o StripFront(t, Len(p))
        BY <4>1, PrefixTaken, ZenonT(40)
      <4> QED
        BY <4>2 DEF p, t
    <3> HIDE DEF r
    <3>4. url' = [name |-> url.name, port |-> url.port, path |-> r]
      BY <1>1, <3>1 DEF r
    <3>5. url' \in U /\ url'.path = r
      BY <1>1, <3>3, <3>4 DEF U
    <3>6. own' \in Seq(C)
      BY <1>0, <2>1, <3>1, ConcatProperties
    <3>7. at' = at.F /\ at.F # NoHandler /\ UNCHANGED <<item, leaked>>
      BY <1>2, <2>1, <3>1 DEF Enter
    <3>8. ~leaked' => asked'.path = own' \o url'.path
      BY <1>0, <1>3, <3>1, <3>3, <3>5, <3>7
    <3> QED
      BY <1>0, <1>3, <2>1, <3>5, <3>6, <3>7, <3>8 DEF DispatchInv
  <2> QED
    BY <2>2, <2>3
<1>14. CASE LeafDeclines
  BY <1>14, <1>15 DEF LeafDeclines
<1> QED
  BY <1>8, <1>9, <1>10, <1>11, <1>12, <1>13, <1>14 DEF Dispatch

(* Each leaf of a list of handlers is asked for the path that is left when  *)
(* its own chain has taken its prefixes off, as long as no handler before   *)
(* it stripped a prefix and then declined: for every list, every nesting of *)
(* the handlers of urlhandler.go, and every URL.                            *)
THEOREM LeavesSeeTheirShare ==
  ASSUME NEW C, NEW H, NEW Names, NEW Ports, PortsClosed(Ports),
         HandlersClosed(H, C), Leaf("files") \in H, Tables \subseteq Seq(H),
         Urls \subseteq [name : Names, port : Ports, path : Seq(C)]
  PROVE  Spec => []LeafSeesItsShare
<1> DEFINE U == [name : Names, port : Ports, path : Seq(C)]
           Inv == DispatchInv(H, U, C)
<1>0. <<>> \in Seq(C) /\ \A t \in Seq(C) : <<>> \o t = t
  BY EmptySeq, ConcatEmptySeq
<1>1. Init => Inv
  <2> SUFFICES ASSUME Init PROVE Inv
    OBVIOUS
  <2>1. /\ table \in Seq(H) /\ asked \in U /\ url = asked /\ item = 0 /\ at = NoHandler
        /\ own = <<>>
    BY DEF Init, DispatchInit
  <2>2. asked.path \in Seq(C)
    BY <2>1
  <2>3. item \in 0..Len(table) /\ own \in Seq(C)
    <3>1. Len(table) \in Nat
      BY <2>1, LenProperties
    <3> QED
      BY <1>0, <2>1, <3>1
  <2> HIDE DEF U
  <2> QED
    BY <1>0, <2>1, <2>2, <2>3 DEF DispatchInv
<1>2. Inv /\ [Next]_vars => Inv'
  <2> SUFFICES ASSUME Inv, [Next]_vars PROVE Inv'
    OBVIOUS
  <2>1. ASSUME UNCHANGED <<table, item, at, url, asked, own, leaked>> PROVE Inv'
    BY <2>1 DEF DispatchInv
  <2>2. CASE DispatchStep
    BY <2>2, DispatchKeeps DEF DispatchStep
  <2>3. CASE AskAgain
    <3>1. /\ table' = <<Leaf("files")>> /\ item' = 0 /\ at' = NoHandler /\ url' = asked
          /\ asked' = asked /\ own' = <<>>
      BY <2>3 DEF AskAgain
    <3>2. asked \in U /\ asked.path \in Seq(C)
      BY DEF DispatchInv
    <3>3. table' \in Seq(H) /\ item' \in 0..Len(table') /\ own' \in Seq(C)
      <4>1. <<Leaf("files")>> \in Seq(H) /\ Len(<<Leaf("files")>>) = 1
        <5> DEFINE f == Leaf("files")
        <5>1. f \in H
          OBVIOUS
        <5> HIDE DEF f
        <5>2. <<f>> \in Seq(H) /\ Len(<<f>>) = 1
          BY <5>1
        <5> QED
          BY <5>2 DEF f
      <4>2. 0 \in 0..1
        OBVIOUS
      <4> QED
        BY <1>0, <3>1, <4>1, <4>2
    <3> HIDE DEF U
    <3> QED
      BY <1>0, <3>1, <3>2, <3>3 DEF DispatchInv
  <2>4. CASE OpenFails \/ ConditionFails \/ StartCopy
    BY <2>1, <2>4 DEF OpenFails, ConditionFails, StartCopy, Handled
  <2>5. CASE \/ CopySome \/ CopyEnds \/ CopySpins \/ ReadFails \/ ChangeFile \/ EarlierHandlerSets
             \/ Over \/ UNCHANGED vars
    BY <2>1, <2>5 DEF CopySome, CopyEnds, CopySpins, ReadFails, ChangeFile, EarlierHandlerSets,
                      Over, vars, dispatchVars
  <2> QED
    BY <2>2, <2>3, <2>4, <2>5 DEF Next, HandleRuns
<1>3. Inv => LeafSeesItsShare
  BY DEF DispatchInv, LeafSeesItsShare
<1> QED
  BY <1>1, <1>2, <1>3, PTL DEF Spec
===============================================================================
