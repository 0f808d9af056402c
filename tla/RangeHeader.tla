----------------------------- MODULE RangeHeader -----------------------------
(* Where ranges come from and go to (src/http/request.go): Request.Ranges    *)
(* parses the Range header of a request, SetRanges formats one.  What was    *)
(* parsed then goes through TidyRanges, the call range.go offers for it.     *)
(*                                                                           *)
(* A header is a unit and a sequence of specs: "a-b" is both, "a-" from,     *)
(* "-a" last; one without a dash or with something else than digits is bad,  *)
(* and huge a number that does not fit.                                      *)
EXTENDS Ranges

CONSTANTS
  Numbers,   \* the numbers in a header
  MaxSpecs   \* bound: specs in one header

ASSUME HeaderAssumption == Numbers \subseteq Nat /\ MaxSpecs \in Nat

VARIABLES
  get,    \* the method is GET
  unit,   \* of the header; "none" if it has none, "short" if it is below six characters
  specs,  \* what follows the unit
  err     \* the error that was returned

headerVars == <<get, unit, specs, err>>
vars == <<rangeVars, headerVars>>

Spec1(kind, a, b) == [kind |-> kind, a |-> a, b |-> b]
Specs == {Spec1("both", a, b) : a, b \in Numbers}
         \cup {Spec1(k, a, 0) : k \in {"from", "last"}, a \in Numbers}
         \cup {Spec1("bad", 0, 0), Spec1("huge", 0, 0)}

NoRangeHeader == get = FALSE /\ unit = "none" /\ specs = <<>> /\ err = "nil"

CallRanges ==
  /\ entry = "Ranges" /\ pc = "parse"
  /\ input = <<>> /\ rs = <<>> /\ i = 1 /\ j = 1
  /\ get \in BOOLEAN /\ unit \in {"bytes", "other", "short"} /\ err = "nil"
  /\ specs \in UNION {[1..n -> Specs] : n \in 1..MaxSpecs}
  /\ (get /\ unit = "bytes") \/ Len(specs) = 1

CallSetRanges ==
  /\ entry = "SetRanges" /\ pc = "format"
  /\ input \in UNION {[1..n -> ByteRange] : n \in 0..MaxSpecs}
  /\ rs = input /\ i = 1 /\ j = 1
  /\ NoRangeHeader

Init == \/ RangesInit /\ NoRangeHeader
        \/ CallRanges
        \/ CallSetRanges

------------------------------------------------------------------------------
(* Request.Ranges and ParseRangeHeader.                                     *)

(* A method other than GET or another unit: no ranges.  A header that is    *)
(* shorter than "bytes=" is cut out of its range.                           *)
IgnoreHeader ==
  /\ pc = "parse" /\ i = 1
  /\ ~get \/ unit # "bytes"
  /\ pc' = IF get /\ unit = "short" THEN "panic" ELSE "done"
  /\ UNCHANGED <<entry, input, rs, i, j, headerVars>>

(* Mutation: the end of a range is taken for the first byte behind it.      *)
ParsedRangeExclusive(s) ==
  CASE s.kind = "both" -> [Start |-> s.a, End |-> s.b - 1]
    [] s.kind = "from" -> [Start |-> s.a, End |-> -1]
    [] s.kind = "last" -> [Start |-> -s.a, End |-> -1]

ParsedRange(s) ==
  CASE s.kind = "both" -> [Start |-> s.a, End |-> s.b]
    [] s.kind = "from" -> [Start |-> s.a, End |-> -1]
    [] s.kind = "last" -> [Start |-> -s.a, End |-> -1]

ParseSpec ==
  /\ pc = "parse" /\ get /\ unit = "bytes"
  /\ specs[i].kind \in {"both", "from", "last"}
  /\ rs' = Append(rs, ParsedRange(specs[i]))
  /\ \/ i < Len(specs) /\ i' = i + 1 /\ UNCHANGED <<input, j, pc>>
     \/ i = Len(specs) /\ input' = rs' /\ i' = 2 /\ j' = 1 /\ pc' = "sort"
  /\ UNCHANGED <<entry, headerVars>>

(* The ranges so far are returned along with the error.                     *)
ParseFails ==
  /\ pc = "parse" /\ get /\ unit = "bytes"
  /\ specs[i].kind \in {"bad", "huge"}
  /\ err' = IF specs[i].kind = "bad" THEN "malformed" ELSE "not satisfiable"
  /\ input' = rs
  /\ pc' = "done"
  /\ UNCHANGED <<entry, rs, i, j, get, unit, specs>>

------------------------------------------------------------------------------
(* Request.SetRanges, FormatRanges and FormatRange.                         *)

Representable(r) == IF r.Start < 0 \/ r.End < 0 THEN r.End = -1 ELSE TRUE
FormatRange(r) ==
  IF r.Start < 0 THEN Spec1("last", -r.Start, 0)
  ELSE IF r.End < 0 THEN Spec1("from", r.Start, 0)
  ELSE Spec1("both", r.Start, r.End)

FormatNext ==
  /\ pc = "format" /\ i <= Len(rs) /\ Representable(rs[i])
  /\ specs' = Append(specs, FormatRange(rs[i]))
  /\ i' = i + 1
  /\ UNCHANGED <<entry, input, rs, j, pc, get, unit, err>>

(* A range HTTP has no way to say: what came before it stays in the header. *)
FormatFails ==
  /\ pc = "format" /\ i <= Len(rs) /\ ~Representable(rs[i])
  /\ err' = "not supported"
  /\ pc' = "done"
  /\ UNCHANGED <<entry, input, rs, i, j, get, unit, specs>>

(* The unit is never written: unit stays "none", and Ranges, asked about    *)
(* this header, ignores it, or panics if it has less than six characters.   *)
FormatDone ==
  /\ pc = "format" /\ i > Len(rs)
  /\ pc' = "done"
  /\ UNCHANGED <<entry, input, rs, i, j, headerVars>>

Returned == pc \in {"done", "panic"} /\ UNCHANGED vars

Step == \/ IgnoreHeader \/ ParseSpec \/ ParseFails
        \/ FormatNext \/ FormatFails \/ FormatDone
        \/ (RangesStep /\ UNCHANGED headerVars)
Next == Step \/ Returned

Spec == Init /\ [][Next]_vars
FairSpec == Spec /\ WF_vars(Step)

------------------------------------------------------------------------------
(* Properties.                                                              *)

(* The bytes a spec asks for, of data of a given size.                      *)
AskedBytes(s, size) ==
  CASE s.kind = "both" -> s.a .. s.b
    [] s.kind = "from" -> s.a .. size - 1
    [] s.kind = "last" -> (size - s.a) .. size - 1
AskedFor(ss, size) ==
  (UNION {AskedBytes(ss[k], size) : k \in 1..Len(ss)}) \cap (0 .. size - 1)

Understood == IF err = "nil" THEN specs ELSE SubSeq(specs, 1, i - 1)
AsksForNothing(s) == s.kind = "last" /\ s.a = 0

(* What a header of unit u may select: one of an unknown unit, or of none,  *)
(* is ignored (RFC 7233).                                                   *)
Selected(u, ss, size) == IF u = "bytes" THEN AskedFor(ss, size) ELSE {}

(* "Ranges returns the ranges specified by the Range header": for data of   *)
(* any size they name the bytes the header selects, none when the method or *)
(* the unit says so, also after they were tidied, and up to the first spec  *)
(* that is refused.  The exception is "-0", no bytes at all, which becomes  *)
(* the range 0 to -1, all of them.                                          *)
(* In the other direction less holds than SetRanges' comment says ("sets    *)
(* the Range header such that it specifies the ranges given", request.go    *)
(* 128): each spec names the bytes of its range, as FormatRange promises,   *)
(* up to the first range that is refused, but no "bytes=" is put in front,  *)
(* so that the header as a whole selects nothing, whatever the ranges.      *)
HeaderMeansRanges ==
  pc = "done" =>
    \A size \in Sizes :
      /\ entry = "Ranges" /\ (\A k \in 1..Len(specs) : ~AsksForNothing(specs[k]))
         => Covered(rs, size) = IF get THEN Selected(unit, Understood, size) ELSE {}
      /\ entry = "SetRanges"
         => /\ AskedFor(specs, size) = Covered(SubSeq(input, 1, Len(specs)), size)
            /\ Selected(unit, specs, size) = {}

(* The loops that shrink the slice under their counter come to an end, and  *)
(* so do the two that walk through a header.                                *)
Terminates == <>(pc \in {"done", "panic"})
==============================================================================
