-------------------------------- MODULE Ranges --------------------------------
(* jps.TidyRanges and MergeRanges (src/jps/range.go): an insertion sort and  *)
(* the merge that follows it, both in place on one slice.  A behaviour is    *)
(* one call, with one step per turn of a loop.  Indices are those of the     *)
(* code plus one.                                                            *)
EXTENDS Integers, Sequences, SequencesExt

CONSTANTS
  Offsets,    \* the byte offsets in use; a negative one counts from the end
  Sizes,      \* the sizes of the data that results are judged for
  MaxRanges   \* bound: ranges in one request

ASSUME RangesAssumption ==
  /\ Offsets \subseteq Int /\ Sizes \subseteq Nat /\ MaxRanges \in Nat

VARIABLES
  entry,  \* the function that was called: here TidyRanges or MergeRanges
  input,  \* the slice as it was given
  rs,     \* the slice as it is
  i, j,   \* the loops' counters
  pc      \* the loop the call is in

rangeVars == <<entry, input, rs, i, j, pc>>

ByteRange == [Start : Offsets, End : Offsets]

------------------------------------------------------------------------------
(* The methods of Range.                                                    *)

Abs(r, size) == [Start |-> IF r.Start < 0 THEN r.Start + size ELSE r.Start,
                 End   |-> IF r.End < 0 THEN r.End + size ELSE r.End]

IsAbsolute(r) == r.Start >= 0 /\ r.End >= 0

IsNoLength(r) ==
  /\ ~(r.Start < 0 /\ r.End > 0)
  /\ r.End >= 0
  /\ r.End - r.Start < 0

------------------------------------------------------------------------------
RangesInit ==
  /\ entry \in {"TidyRanges", "MergeRanges"}
  /\ input \in UNION {[1..n -> ByteRange] : n \in 0..MaxRanges}
  /\ rs = input
  /\ i = 2 /\ j = 1
  /\ pc = IF entry = "TidyRanges" THEN "sort" ELSE "head"

(* SortRanges: r = rs[j+1] moves in front of rs[j], ...                     *)
MustShift == j >= 1 /\ rs[j + 1].Start < rs[j].Start

SortShift ==
  /\ pc = "sort"
  /\ i <= Len(rs) /\ MustShift
  /\ rs' = [rs EXCEPT ![j] = rs[j + 1], ![j + 1] = rs[j]]
  /\ j' = j - 1
  /\ UNCHANGED <<entry, input, i, pc>>

(* ... or it is in its place and the next range is taken.                   *)
SortNext ==
  /\ pc = "sort"
  /\ i <= Len(rs) /\ ~MustShift
  /\ i' = i + 1
  /\ j' = i
  /\ UNCHANGED <<entry, input, rs, pc>>

SortDone ==
  /\ pc = "sort"
  /\ i > Len(rs)
  /\ pc' = "head"
  /\ UNCHANGED <<entry, input, rs, i, j>>

(* MergeRanges calls itself while the first range is empty.                 *)
Head1 ==
  /\ pc = "head"
  /\ \/ /\ rs = <<>>
        /\ pc' = "done"
        /\ UNCHANGED <<rs, i>>
     \/ /\ rs # <<>> /\ IsNoLength(rs[1])
        /\ rs' = Tail(rs)
        /\ UNCHANGED <<i, pc>>
     \/ /\ rs # <<>> /\ ~IsNoLength(rs[1])
        /\ i' = 2
        /\ pc' = "merge"
        /\ UNCHANGED rs
  /\ UNCHANGED <<entry, input, j>>

R1 == rs[i - 1]
R2 == rs[i]
InMerge == pc = "merge" /\ i <= Len(rs)

Empty2 == IsAbsolute(R2) /\ R2.End < R2.Start
Mergeable == IsAbsolute(R2) /\ ~Empty2 /\ R1.Start >= 0
(* r1 comes first and r2 begins inside it (a mutation misses the last byte).*)
OverlapsAfterStrictly == R1.Start <= R2.Start /\ R2.Start < R1.End
OverlapsAfter == R1.Start <= R2.Start /\ R2.Start <= R1.End
(* r2 comes first and reaches r1.                                           *)
OverlapsBefore == R1.Start > R2.Start /\ R1.Start <= R2.End

(* Mutation: the empty range is passed over and never removed.              *)
RemoveEmptyKeeps ==
  /\ InMerge /\ Empty2
  /\ UNCHANGED rangeVars

RemoveEmpty ==
  /\ InMerge /\ Empty2
  /\ rs' = RemoveAt(rs, i)
  /\ UNCHANGED <<entry, input, i, j, pc>>

LargerEnd == IF R1.End < R2.End THEN R2.End ELSE R1.End

(* Mutation: the end of r1 is always replaced.                              *)
MergeAfterShrinks ==
  /\ InMerge /\ Mergeable /\ OverlapsAfter
  /\ rs' = RemoveAt([rs EXCEPT ![i - 1].End = R2.End], i)
  /\ UNCHANGED <<entry, input, i, j, pc>>

MergeAfter ==
  /\ InMerge /\ Mergeable /\ OverlapsAfter
  /\ rs' = RemoveAt([rs EXCEPT ![i - 1].End = LargerEnd], i)
  /\ UNCHANGED <<entry, input, i, j, pc>>

MergeBefore ==
  /\ InMerge /\ Mergeable /\ OverlapsBefore
  /\ rs' = RemoveAt([rs EXCEPT ![i - 1] = [Start |-> R2.Start, End |-> LargerEnd]], i)
  /\ UNCHANGED <<entry, input, i, j, pc>>

(* Not absolute, or no overlap.                                             *)
Keep ==
  /\ InMerge /\ ~Empty2
  /\ Mergeable => ~OverlapsAfter /\ ~OverlapsBefore
  /\ i' = i + 1
  /\ UNCHANGED <<entry, input, rs, j, pc>>

MergeDone ==
  /\ pc = "merge"
  /\ i > Len(rs)
  /\ pc' = "done"
  /\ UNCHANGED <<entry, input, rs, i, j>>

RangesStep ==
  \/ SortShift \/ SortNext \/ SortDone
  \/ Head1 \/ RemoveEmpty \/ MergeAfter \/ MergeBefore \/ Keep \/ MergeDone

------------------------------------------------------------------------------
(* Properties.                                                              *)

(* What a range means for data of a given size: the offsets of its bytes.   *)
Bytes(r, size) == Abs(r, size).Start .. Abs(r, size).End
Covered(s, size) ==
  (UNION {Bytes(s[k], size) : k \in 1..Len(s)}) \cap (0 .. size - 1)

AbsoluteInput == \A k \in 1..Len(input) : IsAbsolute(input[k])

(* Sorting, merging and removing never adds or loses a byte of what was     *)
(* asked for, at any moment of the call and for data of any size.  This     *)
(* covers offsets from the end only if the ranges were sorted: MergeRanges  *)
(* alone can replace a range's relative end by another's absolute one.      *)
CoverageKept ==
  entry = "TidyRanges" \/ (entry = "MergeRanges" /\ AbsoluteInput) =>
    \A size \in Sizes : Covered(rs, size) = Covered(input, size)

(* TidyRanges on absolute ranges returns them sorted, none empty, and no    *)
(* byte twice.                                                              *)
TidyResult ==
  pc = "done" /\ entry = "TidyRanges" /\ AbsoluteInput =>
    \A a, b \in 1..Len(rs) : /\ a < b => rs[a].End < rs[b].Start
                             /\ rs[a].Start <= rs[a].End
===============================================================================
