------------------------ MODULE RequestHeaderProofs ------------------------
(* Proofs about what travels in the headers of a request, and about what     *)
(* answers it: the cache settings of an exchange and the ranges of bytes.    *)
(*                                                                           *)
(* For any ages and any clock, what a request asks of caches reaches them,   *)
(* no cache is told more than the handler of a response allowed, however     *)
(* often its headers are formatted, discarded and parsed again, and a header *)
(* that is formatted again is the same.  For any ranges and data of any      *)
(* size, the ranges that a Range header is parsed into are the bytes that it *)
(* selects, the ones it is written from are those it names, although without *)
(* a unit, and tidying ranges neither adds nor loses a byte.                 *)
EXTENDS RequestCacheControl, RangeHeader, FiniteSetTheorems, SequenceTheorems, TLAPS

------------------------------------------------------------------------------
(* The request.                                                             *)

(* What it asks for as it stands: the headers count until they are parsed,  *)
(* the settings from then on.                                               *)
RequestFlagsHere == IF hasReqControl THEN RequestFlags(reqControl) ELSE reqHeader.flags

StricterThanPragma(flags) == flags \intersect {"no-store", "only-if-cached"} # {}

AllRequestFlags == ModeFlags \cup {"no-transform"}
RequestHeaderType == [flags : SUBSET AllRequestFlags, ages : [AgeNames -> Int], pragma : BOOLEAN]
RequestControlType == [mode : ReqModes, ages : [AgeNames -> Int], transform : BOOLEAN]

RequestTypes ==
  /\ reqHeader \in RequestHeaderType
  /\ hasReqControl \in BOOLEAN /\ written \in BOOLEAN /\ oldWanted \in BOOLEAN
  /\ wanted \subseteq AllRequestFlags
  /\ reqControl \in RequestControlType

DemandInv ==
  /\ Cardinality(wanted \intersect ModeFlags) <= 1 => wanted = RequestFlagsHere
  /\ oldWanted => reqHeader.pragma \/ StricterThanPragma(RequestFlagsHere)
  /\ written /\ hasReqControl =>
       /\ reqHeader.flags = RequestFlags(reqControl)
       /\ reqControl.mode = "NoCache" => reqHeader.pragma

(* The flags in front of the first age of a client's line, which are never  *)
(* looked at, in the headers and among the settings.                        *)
LineInv ==
  /\ lineWanted \subseteq reqLine.front
  /\ hasReqControl => lineWanted \subseteq reqExtra.front

(* Putting the age of a line in quotes leaves what is in front of it alone. *)
LEMMA QuotesKeepFront ==
  ASSUME NEW l
  PROVE  ExtraString(l).front = l.front
BY DEF ExtraString

LEMMA LineKept ==
  ASSUME LineInv, [ExchangeNext]_<<side, reqVars, responseVars>>
  PROVE  LineInv'
<1>1. CASE GetRequestControl
  BY <1>1 DEF GetRequestControl, LineInv
<1>2. CASE SetRequestControl
  <2>1. UNCHANGED <<reqLine, hasReqControl, reqExtra, lineWanted>>
    <3>1. \A rc : SetRequest(rc) => UNCHANGED <<reqLine, hasReqControl, reqExtra, lineWanted>>
      BY DEF SetRequest
    <3> QED
      BY <1>2, <3>1, Zenon DEF SetRequestControl
  <2> QED
    BY <2>1 DEF LineInv
<1>3. CASE FormatRequestControl
  BY <1>3, QuotesKeepFront DEF FormatRequestControl, LineInv
<1>4. CASE DiscardRequestControl
  BY <1>4 DEF DiscardRequestControl, LineInv
<1>5. CASE Respond
  BY <1>5 DEF Respond, LineInv
<1>6. CASE UNCHANGED reqVars
  BY <1>6 DEF reqVars, LineInv
<1> QED
  BY <1>1, <1>2, <1>3, <1>4, <1>5, <1>6 DEF ExchangeNext, RequestStep

(* Of two members of a set of at most one element each is the other.        *)
LEMMA AtMostOne ==
  ASSUME NEW S, IsFiniteSet(S), Cardinality(S) <= 1, NEW x \in S, NEW y \in S
  PROVE  x = y
<1> SUFFICES ASSUME x # y PROVE FALSE
  OBVIOUS
<1>1. IsFiniteSet({x}) /\ Cardinality({x}) = 1
  BY FS_Singleton
<1>2. Cardinality({x} \cup {y}) = 2
  <2>1. y \notin {x}
    OBVIOUS
  <2>2. Cardinality({x} \cup {y}) = Cardinality({x}) + 1
    BY <1>1, <2>1, FS_AddElement, Zenon
  <2> QED
    BY <1>1, <2>2
<1>3. Cardinality({x} \cup {y}) <= Cardinality(S)
  BY FS_Subset
<1>4. Cardinality(S) \in Nat
  BY FS_CardinalityType
<1> QED
  BY <1>2, <1>3, <1>4

(* At most one mode is asked for: none of the flags is lost in the settings.*)
LEMMA FlagsSurviveParsing ==
  ASSUME NEW h \in RequestHeaderType, Cardinality(h.flags \intersect ModeFlags) <= 1
  PROVE  RequestFlags(ParsedRequest(h)) = h.flags
<1> DEFINE F == h.flags
<1>1. IsFiniteSet(F \intersect ModeFlags)
  <2>1. ModeFlags = {"no-cache"} \cup {"no-store"} \cup {"only-if-cached"}
    BY DEF ModeFlags
  <2>2. IsFiniteSet(ModeFlags)
    BY <2>1, FS_Singleton, FS_AddElement
  <2> QED
    BY <2>2, FS_Subset
<1>2. \A x, y \in F \intersect ModeFlags : x = y
  BY <1>1, AtMostOne
<1>3. ModeHeaders(RequestMode(F)) = F \intersect ModeFlags
  <2>1. CASE "only-if-cached" \in F
    BY <1>2, <2>1 DEF ModeHeaders, RequestMode, ModeFlags
  <2>2. CASE "only-if-cached" \notin F /\ "no-store" \in F
    BY <1>2, <2>2 DEF ModeHeaders, RequestMode, ModeFlags
  <2>3. CASE "only-if-cached" \notin F /\ "no-store" \notin F /\ "no-cache" \in F
    BY <1>2, <2>3 DEF ModeHeaders, RequestMode, ModeFlags
  <2>4. CASE "only-if-cached" \notin F /\ "no-store" \notin F /\ "no-cache" \notin F
    BY <2>4 DEF ModeHeaders, RequestMode, ModeFlags
  <2> QED
    BY <2>1, <2>2, <2>3, <2>4
<1>4. F = (F \intersect ModeFlags) \cup (IF "no-transform" \notin F THEN {} ELSE {"no-transform"})
  BY DEF RequestHeaderType, AllRequestFlags
<1> QED
  BY <1>3, <1>4 DEF RequestFlags, ParsedRequest

(* A mode that is stricter than Pragma stays so.                            *)
LEMMA StrictSurvivesParsing ==
  ASSUME NEW h \in RequestHeaderType, StricterThanPragma(h.flags)
  PROVE  StricterThanPragma(RequestFlags(ParsedRequest(h)))
<1> DEFINE F == h.flags
<1>1. RequestMode(F) \in {"OnlyIfCached", "NoStore"}
  <2>1. "only-if-cached" \in F \/ "no-store" \in F
    BY DEF StricterThanPragma
  <2> HIDE DEF F
  <2>2. CASE "only-if-cached" \in F
    <3>1. RequestMode(F) = "OnlyIfCached"
      BY <2>2 DEF RequestMode
    <3> QED
      BY <3>1
  <2>3. CASE "only-if-cached" \notin F
    <3>1. RequestMode(F) = "NoStore"
      BY <2>1, <2>3 DEF RequestMode
    <3> QED
      BY <3>1
  <2> QED
    BY <2>2, <2>3
<1>2. "only-if-cached" \in ModeHeaders("OnlyIfCached") /\ "no-store" \in ModeHeaders("NoStore")
  BY DEF ModeHeaders
<1> QED
  BY <1>1, <1>2 DEF StricterThanPragma, RequestFlags, ParsedRequest

LEMMA RequestInit == ExchangeInit => RequestTypes /\ DemandInv
<1> SUFFICES ASSUME ExchangeInit PROVE RequestTypes /\ DemandInv
  OBVIOUS
<1>1. RequestTypes
  <2>1. NoAges \in [AgeNames -> Int]
    BY DEF NoAges, Unknown
  <2>2. reqHeader \in RequestHeaderType
    <3>1. \A a \in AgeNames, d \in Ages \union {BadAge} : [NoAges EXCEPT ![a] = d] \in [AgeNames -> Int]
      BY <2>1, CacheAssumption DEF BadAge
    <3>2. RequestHeaders \subseteq RequestHeaderType
      BY <2>1, <3>1 DEF RequestHeaders, RequestHeaderType, AllRequestFlags
    <3> QED
      BY <3>2 DEF ExchangeInit
  <2>3. reqControl \in RequestControlType
    BY <2>1 DEF ExchangeInit, DefaultControl, RequestControlType, ReqModes
  <2> QED
    BY <2>2, <2>3 DEF ExchangeInit, RequestTypes, RequestHeaderType
<1>2. DemandInv
  BY DEF ExchangeInit, DemandInv, RequestFlagsHere, RequestHeaders
<1> QED
  BY <1>1, <1>2

LEMMA GetKeeps ==
  ASSUME RequestTypes, DemandInv, GetRequestControl
  PROVE  RequestTypes' /\ DemandInv'
<1>0. ~hasReqControl /\ written' = FALSE /\ UNCHANGED <<reqHeader, wanted, oldWanted>>
  BY DEF GetRequestControl
<1>2. CASE reqControl' = ParsedRequest(reqHeader) /\ hasReqControl' = TRUE
  <2>1. reqHeader \in RequestHeaderType
    BY DEF RequestTypes
  <2>2. RequestFlagsHere' = RequestFlags(ParsedRequest(reqHeader)) /\ RequestFlagsHere = reqHeader.flags
    BY <1>0, <1>2 DEF RequestFlagsHere
  <2>3. RequestTypes'
    <3>1. RequestMode(reqHeader.flags) \in ReqModes
      BY DEF RequestMode, ReqModes
    <3> QED
      BY <1>0, <1>2, <2>1, <3>1 DEF RequestTypes, ParsedRequest, RequestHeaderType, RequestControlType
  <2>4. ASSUME Cardinality(wanted \intersect ModeFlags) <= 1 PROVE wanted = RequestFlagsHere'
    <3>1. wanted = reqHeader.flags
      BY <2>2, <2>4 DEF DemandInv
    <3> QED
      BY <2>1, <2>2, <2>4, <3>1, FlagsSurviveParsing
  <2>5. ASSUME StricterThanPragma(RequestFlagsHere) PROVE StricterThanPragma(RequestFlagsHere')
    BY <2>1, <2>2, <2>5, StrictSurvivesParsing
  <2>6. DemandInv'
    <3>1. (Cardinality(wanted \intersect ModeFlags) <= 1 => wanted = RequestFlagsHere)'
      BY <1>0, <2>4
    <3>2. (oldWanted => reqHeader.pragma \/ StricterThanPragma(RequestFlagsHere))'
      BY <1>0, <2>5 DEF DemandInv, StricterThanPragma
    <3> QED
      BY <1>0, <3>1, <3>2 DEF DemandInv
  <2> QED
    BY <2>3, <2>6
<1>3. CASE reqControl' \in PartlyParsed(reqHeader, reqLine) /\ UNCHANGED hasReqControl
  <2>1. RequestTypes'
    <3>1. reqControl' \in RequestControlType
      <4> DEFINE Read(bad, seen) == [a \in AgeNames |-> IF a = bad THEN 0 ELSE IF a \in seen THEN reqHeader.ages[a] ELSE Unknown]
                 Rec(bad, seen, tr) == [mode |-> "Unspecified", transform |-> tr, ages |-> Read(bad, seen)]
                 B == {a \in AgeNames : reqHeader.ages[a] = BadAge \/ ~Readable(reqLine)}
                 S == SUBSET {a \in AgeNames : reqHeader.ages[a] # BadAge}
                 T == {TRUE, "no-transform" \notin reqHeader.flags}
      <4>1. reqControl' \in {Rec(bad, seen, tr) : bad \in B, seen \in S, tr \in T}
        BY <1>3 DEF PartlyParsed
      <4>2. reqHeader.ages \in [AgeNames -> Int]
        BY DEF RequestTypes, RequestHeaderType
      <4>3. \A bad, seen : Read(bad, seen) \in [AgeNames -> Int]
        BY <4>2 DEF Unknown
      <4>4. T \subseteq BOOLEAN
        OBVIOUS
      <4> HIDE DEF Read, B, S, T
      <4>5. \A bad, seen : \A tr \in BOOLEAN : Rec(bad, seen, tr) \in RequestControlType
        BY <4>3 DEF ReqModes, RequestControlType
      <4> HIDE DEF Rec
      <4>6. PICK bad \in B, seen \in S, tr \in T : reqControl' = Rec(bad, seen, tr)
        BY <4>1
      <4> QED
        BY <4>4, <4>5, <4>6
    <3> QED
      BY <1>0, <1>3, <3>1 DEF RequestTypes
  <2>2. RequestFlagsHere' = RequestFlagsHere
    BY <1>0, <1>3 DEF RequestFlagsHere
  <2> QED
    BY <1>0, <1>3, <2>1, <2>2 DEF DemandInv
<1> QED
  BY <1>2, <1>3 DEF GetRequestControl

LEMMA SetKeeps ==
  ASSUME RequestTypes, DemandInv, SetRequestControl
  PROVE  RequestTypes' /\ DemandInv'
<1>1. PICK rc \in RequestControlType : SetRequest(rc)
  <2>1. CASE \E m \in ReqModes : SetRequest([reqControl EXCEPT !.mode = m])
    <3>1. PICK m \in ReqModes : SetRequest([reqControl EXCEPT !.mode = m])
      BY <2>1
    <3> QED
      BY <3>1, CacheAssumption DEF RequestTypes, RequestControlType
  <2>2. CASE \E tr \in BOOLEAN : SetRequest([reqControl EXCEPT !.transform = tr])
    <3>1. PICK tr \in BOOLEAN : SetRequest([reqControl EXCEPT !.transform = tr])
      BY <2>2
    <3> QED
      BY <3>1, CacheAssumption DEF RequestTypes, RequestControlType
  <2>3. CASE \E a \in AgeNames, d \in Ages : SetRequest([reqControl EXCEPT !.ages[a] = d])
    <3>1. PICK a \in AgeNames, d \in Ages : SetRequest([reqControl EXCEPT !.ages[a] = d])
      BY <2>3
    <3> QED
      BY <3>1, CacheAssumption DEF RequestTypes, RequestControlType
  <2> QED
    BY <2>1, <2>2, <2>3 DEF SetRequestControl
<1>2. /\ reqControl' = rc /\ ~written' /\ UNCHANGED <<reqHeader, hasReqControl>>
      /\ hasReqControl => wanted' = RequestFlags(rc) /\ ~oldWanted'
      /\ ~hasReqControl => wanted' = wanted /\ (oldWanted' => oldWanted)
      /\ oldWanted' \in BOOLEAN /\ written' \in BOOLEAN
  BY <1>1 DEF SetRequest, RequestTypes
<1>3. RequestFlags(rc) \subseteq AllRequestFlags
  BY DEF RequestFlags, ModeHeaders, ModeFlags, AllRequestFlags
<1>4. RequestTypes'
  <2>1. wanted' \subseteq AllRequestFlags
    BY <1>2, <1>3 DEF RequestTypes
  <2> QED
    BY <1>1, <1>2, <2>1 DEF RequestTypes
<1>5. CASE hasReqControl
  BY <1>2, <1>4, <1>5 DEF DemandInv, RequestFlagsHere
<1>6. CASE ~hasReqControl
  <2>1. RequestFlagsHere' = RequestFlagsHere
    BY <1>2, <1>6 DEF RequestFlagsHere
  <2> QED
    BY <1>2, <1>4, <1>6, <2>1 DEF DemandInv
<1> QED
  BY <1>5, <1>6 DEF RequestTypes

LEMMA FormatKeeps ==
  ASSUME RequestTypes, DemandInv, FormatRequestControl
  PROVE  RequestTypes' /\ DemandInv'
<1>0. written' = TRUE /\ UNCHANGED <<hasReqControl, reqControl, wanted, oldWanted>>
  BY DEF FormatRequestControl
<1>1. CASE ~hasReqControl
  <2>1. reqHeader' = reqHeader
    BY <1>1 DEF FormatRequestControl
  <2>2. RequestFlagsHere' = RequestFlagsHere
    BY <1>0, <2>1 DEF RequestFlagsHere
  <2> QED
    BY <1>0, <1>1, <2>1, <2>2 DEF RequestTypes, DemandInv
<1>2. CASE hasReqControl
  <2> DEFINE m == reqControl.mode
  <2>1. /\ reqHeader'.flags = RequestFlags(reqControl)
        /\ reqHeader'.pragma = Pragma(m, reqHeader.pragma)
        /\ reqHeader' = [flags |-> RequestFlags(reqControl), ages |-> NoAges,
                         pragma |-> Pragma(m, reqHeader.pragma)]
    BY <1>2 DEF FormatRequestControl
  <2>2. /\ m \in ReqModes
        /\ m = "NoCache" => Pragma(m, reqHeader.pragma) = TRUE
        /\ m \in {"NoStore", "OnlyIfCached"} => Pragma(m, reqHeader.pragma) = FALSE
        /\ m = "Unspecified" => Pragma(m, reqHeader.pragma) = reqHeader.pragma
    BY DEF RequestTypes, RequestControlType, Pragma
  <2>3. RequestTypes'
    <3>1. Pragma(m, reqHeader.pragma) \in BOOLEAN
      BY <2>2 DEF ReqModes, RequestTypes, RequestHeaderType
    <3>2. NoAges \in [AgeNames -> Int]
      BY DEF NoAges, Unknown
    <3>3. RequestFlags(reqControl) \subseteq AllRequestFlags
      BY DEF RequestFlags, ModeHeaders, ModeFlags, AllRequestFlags
    <3>4. reqHeader' \in RequestHeaderType
      BY <2>1, <3>1, <3>2, <3>3 DEF RequestHeaderType
    <3> QED
      BY <1>0, <3>4 DEF RequestTypes
  <2>4. RequestFlagsHere' = RequestFlagsHere
    BY <1>0, <1>2 DEF RequestFlagsHere
  <2>5. ASSUME oldWanted PROVE reqHeader'.pragma \/ StricterThanPragma(RequestFlagsHere)
    <3>1. RequestFlagsHere = RequestFlags(reqControl)
      BY <1>2 DEF RequestFlagsHere
    <3>2. CASE m \in {"NoStore", "OnlyIfCached"}
      BY <3>1, <3>2 DEF StricterThanPragma, RequestFlags, ModeHeaders
    <3>3. CASE m = "NoCache"
      BY <2>1, <2>2, <3>3
    <3>4. CASE m = "Unspecified"
      BY <2>1, <2>2, <2>5, <3>4 DEF DemandInv
    <3> QED
      BY <2>2, <3>2, <3>3, <3>4 DEF ReqModes
  <2> QED
    BY <1>0, <2>1, <2>2, <2>3, <2>4, <2>5 DEF DemandInv
<1> QED
  BY <1>1, <1>2

LEMMA DiscardKeeps ==
  ASSUME RequestTypes, DemandInv, DiscardRequestControl
  PROVE  RequestTypes' /\ DemandInv'
<1>1. /\ hasReqControl' = FALSE /\ written' = FALSE /\ UNCHANGED <<reqHeader, reqControl>>
      /\ wanted' = reqHeader.flags /\ oldWanted' = (oldWanted /\ reqHeader.pragma)
  BY DEF DiscardRequestControl
<1>2. RequestTypes'
  <2>1. oldWanted' \in BOOLEAN /\ wanted' \subseteq AllRequestFlags
    BY <1>1 DEF RequestTypes, RequestHeaderType
  <2> QED
    BY <1>1, <2>1 DEF RequestTypes
<1> QED
  BY <1>1, <1>2 DEF DemandInv, RequestFlagsHere

LEMMA RespondKeeps ==
  ASSUME RequestTypes, DemandInv, Respond
  PROVE  RequestTypes' /\ DemandInv'
<1>1. /\ hasReqControl' = FALSE /\ written' = FALSE /\ wanted' = {} /\ oldWanted' = FALSE
      /\ reqControl' = DefaultControl /\ reqHeader' = NoReqHeader
  BY DEF Respond
<1>2. DefaultControl \in RequestControlType /\ NoReqHeader \in RequestHeaderType
  <2>1. NoAges \in [AgeNames -> Int]
    BY DEF NoAges, Unknown
  <2> QED
    BY <2>1 DEF DefaultControl, ReqModes, RequestControlType, NoReqHeader, RequestHeaderType
<1>3. RequestFlagsHere' = {}
  BY <1>1 DEF RequestFlagsHere, NoReqHeader
<1> QED
  BY <1>1, <1>2, <1>3 DEF RequestTypes, DemandInv

LEMMA RequestKept ==
  ASSUME RequestTypes, DemandInv, [ExchangeNext]_<<side, reqVars, responseVars>>
  PROVE  RequestTypes' /\ DemandInv'
<1>1. CASE RequestStep
  BY <1>1, GetKeeps, SetKeeps, FormatKeeps, DiscardKeeps DEF RequestStep
<1>2. CASE Respond
  BY <1>2, RespondKeeps
<1>3. CASE UNCHANGED reqVars
  <2>1. RequestFlagsHere' = RequestFlagsHere
    BY <1>3 DEF reqVars, RequestFlagsHere
  <2> QED
    BY <1>3, <2>1 DEF reqVars, RequestTypes, DemandInv
<1> QED
  BY <1>1, <1>2, <1>3 DEF ExchangeNext

(* However often the cache settings of a request are parsed, changed,       *)
(* discarded and written, what its client or the last handler asked for is  *)
(* in the headers, in values of its own or up to the first age of a line    *)
(* that the parser does not understand, and caches that know only Pragma    *)
(* are told: for any ages.                                                  *)
THEOREM DemandsReachCaches == ExchangeSpec => []RequestKeepsDemands
<1> DEFINE Inv == RequestTypes /\ DemandInv /\ LineInv
<1>1. ExchangeInit => Inv
  BY RequestInit DEF ExchangeInit, LineInv
<1>2. Inv /\ [ExchangeNext]_<<side, reqVars, responseVars>> => Inv'
  BY RequestKept, LineKept
<1>3. Inv => RequestKeepsDemands
  <2> SUFFICES ASSUME RequestTypes, DemandInv, LineInv, written PROVE RequestKeepsDemands
    BY DEF RequestKeepsDemands
  <2>1. RequestFlagsHere = reqHeader.flags
    BY DEF RequestFlagsHere, DemandInv
  <2>2. ASSUME hasReqControl, "no-cache" \in reqHeader.flags PROVE reqHeader.pragma
    <3>1. "no-cache" \in RequestFlags(reqControl)
      BY <2>2 DEF DemandInv
    <3>2. reqControl.mode = "NoCache"
      BY <3>1 DEF RequestFlags, ModeHeaders
    <3> QED
      BY <2>2, <3>2 DEF DemandInv
  <2> QED
    BY <2>1, <2>2 DEF RequestKeepsDemands, DemandInv, LineInv, StricterThanPragma
<1> QED
  BY <1>1, <1>2, <1>3, PTL DEF ExchangeSpec

------------------------------------------------------------------------------
(* The response.                                                            *)

(* An age that is known or not; the expiry of settings; and settings.       *)
AgeType == Nat \cup {Unknown}
ExpiryType == [kind : {"none", "maxAge", "expires", "both"}, maxAge : AgeType,
               expires : Nat \cup {ZeroTime, PastTime}]
SettingsType == [PublicMode : Modes, PrivateMode : Modes,
                 PublicExpiry : ExpiryType, PrivateExpiry : ExpiryType]
AskType == [mode : Modes, age : AgeType, late : BOOLEAN]
Asks == [public : AskType, private : AskType]
HeaderFlags == {"no-store", "no-cache", "must-revalidate", "proxy-revalidate", "private", "public"}
HeaderType == [flags : SUBSET HeaderFlags, age : AgeType, sAge : AgeType, expires : Int]
LineType == [front : SUBSET HeaderFlags, age : AgeType \cup {Quoted}, behind : SUBSET HeaderFlags]

ResponseTypes ==
  /\ header \in HeaderType /\ hasCacheControl \in BOOLEAN /\ rcc \in SettingsType
  /\ line \in LineType /\ extra \in LineType
  /\ now \in Nat /\ formatted \in BOOLEAN /\ received \in BOOLEAN
  /\ asked \in Asks
  /\ side \in {"request", "response"}
  /\ side = "request" => ~formatted /\ ~hasCacheControl /\ received

(* The ages and times of an expiry that was read keep their types.          *)
LEMMA ExpiryTyped ==
  ASSUME now \in Nat, NEW x \in ExpiryType
  PROVE  /\ WithMaxAge(x) \in ExpiryType /\ WithExpires(x) \in ExpiryType
         /\ WithBoth(x) \in ExpiryType /\ AgeOf(x) \in AgeType
         /\ WithMaxAge(x).kind # "expires" /\ WithBoth(x).kind \in {"none", "both"}
         /\ x.kind # "expires" => WithMaxAge(x) = x /\ AgeOf(x) = x.maxAge
         /\ x.kind # "maxAge" => WithExpires(x) = x
<1>1. \A y \in ExpiryType :
        /\ WithMaxAge(y) \in ExpiryType /\ WithMaxAge(y).kind # "expires"
        /\ y.kind # "expires" => WithMaxAge(y) = y
        /\ WithMaxAge(y).kind \in {y.kind, "both"}
  <2> TAKE y \in ExpiryType
  <2>1. CASE y.kind = "expires"
    <3> DEFINE a == IF now > y.expires THEN now - y.expires ELSE 0
    <3>1. a \in AgeType
      BY DEF ExpiryType, AgeType, ZeroTime, PastTime, Unknown
    <3> HIDE DEF a
    <3>2. WithMaxAge(y) = [y EXCEPT !.kind = "both", !.maxAge = a]
      BY <2>1 DEF WithMaxAge, BothFromExpires, a
    <3> QED
      BY <2>1, <3>1, <3>2 DEF ExpiryType
  <2>2. CASE y.kind # "expires"
    BY <2>2 DEF WithMaxAge
  <2> QED
    BY <2>1, <2>2
<1>2. \A y \in ExpiryType :
        /\ WithExpires(y) \in ExpiryType
        /\ y.kind # "maxAge" => WithExpires(y) = y
        /\ y.kind = "maxAge" => WithExpires(y).kind = "both"
  <2> TAKE y \in ExpiryType
  <2>1. CASE y.kind = "maxAge"
    <3> DEFINE s == IF y.maxAge = Unknown THEN ZeroTime ELSE IF y.maxAge = 0 THEN PastTime ELSE now + y.maxAge
    <3>1. s \in Nat \cup {ZeroTime, PastTime}
      BY DEF ExpiryType, AgeType
    <3> HIDE DEF s
    <3>2. WithExpires(y) = [y EXCEPT !.kind = "both", !.expires = s]
      BY <2>1 DEF WithExpires, BothFromMaxAge, s
    <3> QED
      BY <2>1, <3>1, <3>2 DEF ExpiryType
  <2>2. CASE y.kind # "maxAge"
    BY <2>2 DEF WithExpires
  <2> QED
    BY <2>1, <2>2
<1>3. WithBoth(x) \in ExpiryType /\ WithBoth(x).kind \in {"none", "both"}
  <2>1. WithMaxAge(x) \in ExpiryType /\ WithMaxAge(x).kind \in {"none", "maxAge", "both"}
    BY <1>1 DEF ExpiryType
  <2> QED
    BY <1>2, <2>1 DEF WithBoth
<1>4. AgeOf(x) \in AgeType
  BY <1>1 DEF AgeOf, ExpiryType
<1> QED
  BY <1>1, <1>2, <1>3, <1>4 DEF AgeOf

(* The response: a header that was formatted does not depend on the time.   *)
AgesFixed(r) ==
  /\ ReadsPrivate(r) => r.PrivateExpiry.kind # "expires"
  /\ ReadsPublic(r) => r.PublicExpiry.kind \in {"none", "both"}

(* headers1 as a function of the modes, the ages and the time it reads.     *)
HeaderOf(pm, m, age, sAge, t) ==
  CASE pm = "NoStore" -> PrivateOnly(m, age)
    [] pm = "NoCache" -> PublicNoCache(m, age)
    [] pm = "MustRevalidate" -> PublicMustRevalidate(m, age, sAge, t)
    [] pm = "CanCache" -> PublicCanCache(m, age, sAge, t)
    [] OTHER -> NoHeader

TimeOf(sAge, t) == IF sAge = Unknown THEN NoTime ELSE t

(* The header of settings whose ages are fixed: the time plays no part.     *)
FixedHeader(r) ==
  HeaderOf(r.PublicMode, r.PrivateMode, r.PrivateExpiry.maxAge, r.PublicExpiry.maxAge,
           TimeOf(r.PublicExpiry.maxAge, r.PublicExpiry.expires))

StableInv ==
  formatted /\ hasCacheControl =>
    AgesFixed(rcc) /\ header = FixedHeader(rcc) /\ line = ExtraString(extra)

(* Ages and times count only where headers1 reads them.                     *)
LEMMA HeaderReads ==
  ASSUME NEW r, r.PublicMode \in Modes, r.PrivateMode \in Modes,
         NEW a, NEW a2, NEW s, NEW s2, NEW t, NEW t2,
         ReadsPrivate(r) => a = a2, ReadsPublic(r) => s = s2 /\ t = t2
  PROVE  HeaderOf(r.PublicMode, r.PrivateMode, a, s, t) = HeaderOf(r.PublicMode, r.PrivateMode, a2, s2, t2)
<1> DEFINE pm == r.PublicMode
           m == r.PrivateMode
<1>1. CASE pm = "NoStore"
  <2>1. HeaderOf(pm, m, a, s, t) = PrivateOnly(m, a) /\ HeaderOf(pm, m, a2, s2, t2) = PrivateOnly(m, a2)
    BY <1>1 DEF HeaderOf
  <2>2. CASE ReadsPrivate(r)
    BY <2>1, <2>2
  <2>3. CASE m \in {"NoCache", "NoStore"}
    BY <2>1, <2>3 DEF PrivateOnly
  <2> QED
    BY <1>1, <2>2, <2>3 DEF ReadsPrivate, Modes
<1>2. CASE pm = "NoCache"
  <2>1. HeaderOf(pm, m, a, s, t) = PublicNoCache(m, a) /\ HeaderOf(pm, m, a2, s2, t2) = PublicNoCache(m, a2)
    BY <1>2 DEF HeaderOf
  <2>2. CASE ReadsPrivate(r)
    BY <2>1, <2>2
  <2>3. CASE m \in {"Unspecified", "NoCache", "NoStore"}
    BY <2>1, <2>3 DEF PublicNoCache
  <2> QED
    BY <1>2, <2>2, <2>3 DEF ReadsPrivate, Modes
<1>3. CASE pm = "MustRevalidate"
  <2>1. /\ HeaderOf(pm, m, a, s, t) = PublicMustRevalidate(m, a, s, t)
        /\ HeaderOf(pm, m, a2, s2, t2) = PublicMustRevalidate(m, a2, s, t)
    BY <1>3 DEF HeaderOf, ReadsPublic
  <2>2. CASE ReadsPrivate(r)
    BY <2>1, <2>2
  <2>3. CASE m \in {"NoCache", "NoStore"}
    BY <2>1, <2>3 DEF PublicMustRevalidate
  <2> QED
    BY <1>3, <2>2, <2>3 DEF ReadsPrivate, Modes
<1>4. CASE pm = "CanCache"
  <2>1. /\ HeaderOf(pm, m, a, s, t) = PublicCanCache(m, a, s, t)
        /\ HeaderOf(pm, m, a2, s2, t2) = PublicCanCache(m, a2, s, t)
    BY <1>4 DEF HeaderOf, ReadsPublic
  <2>2. CASE ReadsPrivate(r)
    BY <2>1, <2>2
  <2>3. CASE m \in {"NoCache", "NoStore"}
    BY <2>1, <2>3 DEF PublicCanCache
  <2> QED
    BY <1>4, <2>2, <2>3 DEF ReadsPrivate, Modes
<1>5. CASE pm = "Unspecified"
  BY <1>5 DEF HeaderOf
<1> QED
  BY <1>1, <1>2, <1>3, <1>4, <1>5 DEF Modes

(* FormatCacheControl: the settings come out with their ages fixed, and the *)
(* header is the one that they will give from then on.                      *)
LEMMA FormatFixes ==
  ASSUME now \in Nat, NEW r \in SettingsType
  PROVE  /\ Fixed(r) \in SettingsType /\ AgesFixed(Fixed(r))
         /\ Headers1(r) = FixedHeader(Fixed(r))
<1> DEFINE pub == r.PublicExpiry
           pri == r.PrivateExpiry
           f == Fixed(r)
<1>1. pub \in ExpiryType /\ pri \in ExpiryType /\ r.PublicMode \in Modes /\ r.PrivateMode \in Modes
  BY DEF SettingsType
<1>2. /\ f.PublicMode = r.PublicMode /\ f.PrivateMode = r.PrivateMode
      /\ f.PrivateExpiry = IF ReadsPrivate(r) THEN WithMaxAge(pri) ELSE pri
      /\ f.PublicExpiry = IF ReadsPublic(r) THEN WithBoth(pub) ELSE pub
      /\ f = [r EXCEPT !.PrivateExpiry = f.PrivateExpiry, !.PublicExpiry = f.PublicExpiry]
  BY DEF Fixed, SettingsType
<1>0. /\ WithMaxAge(pri) \in ExpiryType /\ WithMaxAge(pri).kind # "expires"
      /\ WithBoth(pub) \in ExpiryType /\ WithBoth(pub).kind \in {"none", "both"}
  BY <1>1, ExpiryTyped
<1>3. f.PrivateExpiry \in ExpiryType /\ f.PublicExpiry \in ExpiryType
  BY <1>0, <1>1, <1>2
<1>4. f \in SettingsType
  BY <1>1, <1>2, <1>3 DEF SettingsType
<1>5. (ReadsPrivate(f) <=> ReadsPrivate(r)) /\ (ReadsPublic(f) <=> ReadsPublic(r))
  BY <1>2 DEF ReadsPrivate, ReadsPublic
<1>6. AgesFixed(f)
  BY <1>0, <1>2, <1>5 DEF AgesFixed
<1>7. Headers1(r) = HeaderOf(r.PublicMode, r.PrivateMode, AgeOf(pri), AgeOf(pub), TimeOf(AgeOf(pub), WithBoth(pub).expires))
  BY DEF Headers1, HeaderOf, TimeOf
<1>8. WithBoth(pub).maxAge = AgeOf(pub)
  <2>1. WithMaxAge(pub) \in ExpiryType
    BY <1>1, ExpiryTyped
  <2>2. WithExpires(WithMaxAge(pub)).maxAge = WithMaxAge(pub).maxAge
    BY <2>1 DEF WithExpires, BothFromMaxAge, ExpiryType
  <2> QED
    BY <2>2 DEF WithBoth, AgeOf
<1>9. /\ ReadsPrivate(r) => f.PrivateExpiry.maxAge = AgeOf(pri)
      /\ ReadsPublic(r) => f.PublicExpiry.maxAge = AgeOf(pub) /\ f.PublicExpiry.expires = WithBoth(pub).expires
  BY <1>2, <1>8 DEF AgeOf
<1> HIDE DEF f
<1>10. Headers1(r) = FixedHeader(f)
  BY <1>1, <1>2, <1>7, <1>9, HeaderReads DEF FixedHeader
<1> QED
  BY <1>4, <1>6, <1>10 DEF f

(* Reading an age or a time of such settings changes nothing that counts.   *)
LEMMA ReadingFixed ==
  ASSUME now \in Nat, NEW r \in SettingsType,
         NEW q \in {[r EXCEPT !.PublicExpiry = WithMaxAge(@)],
                    [r EXCEPT !.PublicExpiry = WithExpires(@)],
                    [r EXCEPT !.PrivateExpiry = WithMaxAge(@)],
                    [r EXCEPT !.PrivateExpiry = WithExpires(@)]}
  PROVE  /\ q \in SettingsType
         /\ AgesFixed(r) => AgesFixed(q) /\ FixedHeader(q) = FixedHeader(r)
<1> DEFINE pub == r.PublicExpiry
           pri == r.PrivateExpiry
<1>1. pub \in ExpiryType /\ pri \in ExpiryType /\ r.PublicMode \in Modes /\ r.PrivateMode \in Modes
  BY DEF SettingsType
<1>2. \A x \in ExpiryType :
        /\ [r EXCEPT !.PublicExpiry = x] \in SettingsType
        /\ [r EXCEPT !.PrivateExpiry = x] \in SettingsType
  BY DEF SettingsType
<1>3. q \in SettingsType
  <2>1. /\ WithMaxAge(pub) \in ExpiryType /\ WithExpires(pub) \in ExpiryType
        /\ WithMaxAge(pri) \in ExpiryType /\ WithExpires(pri) \in ExpiryType
    BY <1>1, ExpiryTyped
  <2>2. q \in {[r EXCEPT !.PublicExpiry = WithMaxAge(pub)], [r EXCEPT !.PublicExpiry = WithExpires(pub)],
              [r EXCEPT !.PrivateExpiry = WithMaxAge(pri)], [r EXCEPT !.PrivateExpiry = WithExpires(pri)]}
    BY DEF SettingsType
  <2> HIDE DEF pub, pri
  <2> QED
    BY <1>2, <2>1, <2>2
<1>4. /\ q.PublicMode = r.PublicMode /\ q.PrivateMode = r.PrivateMode
      /\ (ReadsPrivate(q) <=> ReadsPrivate(r)) /\ (ReadsPublic(q) <=> ReadsPublic(r))
  BY DEF ReadsPrivate, ReadsPublic, SettingsType
<1>5. ASSUME AgesFixed(r) PROVE AgesFixed(q) /\ FixedHeader(q) = FixedHeader(r)
  <2>1. /\ q.PublicExpiry \in {pub, WithMaxAge(pub), WithExpires(pub)}
        /\ q.PrivateExpiry \in {pri, WithMaxAge(pri), WithExpires(pri)}
    BY DEF SettingsType
  <2>2. ASSUME ReadsPublic(r) PROVE q.PublicExpiry = pub
    BY <1>1, <1>5, <2>1, <2>2, ExpiryTyped DEF AgesFixed
  <2>3. ASSUME ReadsPrivate(r)
        PROVE  q.PrivateExpiry.maxAge = pri.maxAge /\ q.PrivateExpiry.kind # "expires"
    <3>1. pri.kind # "expires"
      BY <1>5, <2>3 DEF AgesFixed
    <3>2. WithMaxAge(pri) = pri
      BY <1>1, <3>1, ExpiryTyped
    <3>3. WithExpires(pri).maxAge = pri.maxAge /\ WithExpires(pri).kind # "expires"
      BY <1>1, <3>1 DEF WithExpires, BothFromMaxAge, ExpiryType
    <3> QED
      BY <2>1, <3>1, <3>2, <3>3
  <2>4. AgesFixed(q)
    BY <1>4, <1>5, <2>2, <2>3 DEF AgesFixed
  <2>5. FixedHeader(q) = FixedHeader(r)
    BY <1>1, <1>4, <2>2, <2>3, HeaderReads DEF FixedHeader
  <2> QED
    BY <2>4, <2>5
<1> QED
  BY <1>3, <1>5

(* The types of the response.                                               *)
LEMMA HeaderTyped ==
  ASSUME NEW pm, NEW m, NEW a \in AgeType, NEW s \in AgeType, NEW t \in Int
  PROVE  HeaderOf(pm, m, a, s, t) \in HeaderType
<1>1. \A F \in SUBSET HeaderFlags, b, c \in AgeType, u \in Int : Directives(F, b, c, u) \in HeaderType
  BY DEF Directives, HeaderType
<1>2. /\ Unknown \in AgeType /\ 0 \in AgeType /\ PastTime \in Int /\ NoTime \in Int
      /\ Seconds(a) \in AgeType /\ Seconds(s) \in AgeType
  BY DEF AgeType, Unknown, PastTime, NoTime, Seconds
<1>3. /\ {"no-store"} \in SUBSET HeaderFlags /\ {"no-cache"} \in SUBSET HeaderFlags
      /\ {"private"} \in SUBSET HeaderFlags /\ {"must-revalidate"} \in SUBSET HeaderFlags
      /\ {"private", "must-revalidate"} \in SUBSET HeaderFlags /\ {"private", "no-cache"} \in SUBSET HeaderFlags
      /\ {"proxy-revalidate"} \in SUBSET HeaderFlags /\ {"public"} \in SUBSET HeaderFlags
  BY DEF HeaderFlags
<1>4. NotStored \in HeaderType /\ NotCached \in HeaderType /\ NoHeader \in HeaderType
  BY <1>1, <1>2, <1>3 DEF NotStored, NotCached, NoHeader, HeaderType
<1>5. \A F \in HeaderFlags : {F} \in SUBSET HeaderFlags => BothAges(F, a, s, t) \in HeaderType
  BY <1>1, <1>2 DEF BothAges
<1>6. PrivateOnly(m, a) \in HeaderType
  BY <1>1, <1>2, <1>3, <1>4 DEF PrivateOnly
<1>7. PublicNoCache(m, a) \in HeaderType
  BY <1>1, <1>2, <1>3, <1>4 DEF PublicNoCache
<1>8. PublicMustRevalidate(m, a, s, t) \in HeaderType
  BY <1>1, <1>2, <1>3, <1>4, <1>5 DEF PublicMustRevalidate, HeaderFlags
<1>9. PublicCanCache(m, a, s, t) \in HeaderType
  BY <1>1, <1>2, <1>3, <1>4, <1>5 DEF PublicCanCache, HeaderFlags
<1> QED
  BY <1>4, <1>6, <1>7, <1>8, <1>9 DEF HeaderOf

LEMMA ParsedTyped ==
  ASSUME now \in Nat, NEW h \in HeaderType
  PROVE  Parsed(h) \in SettingsType
<1> DEFINE r == [PublicMode |-> ParsedPublic(h.flags), PrivateMode |-> ParsedPrivate(h.flags),
                 PublicExpiry |-> ParsedPublicExpiry(h), PrivateExpiry |-> ParsedPrivateExpiry(h)]
<1>1. ParsedPublic(h.flags) \in Modes
  BY DEF ParsedPublic, Modes
<1>2. ParsedPrivate(h.flags) \in Modes
  BY DEF ParsedPrivate, StrictMode, Modes
<1>3. /\ \A d \in AgeType : MaxAgeOnly(d) \in ExpiryType
      /\ NoExpiry \in ExpiryType /\ ExpiresOnly(ZeroTime) \in ExpiryType
  BY DEF MaxAgeOnly, NoExpiry, ExpiresOnly, ExpiryType, AgeType
<1>4. ParsedPublicExpiry(h) \in ExpiryType /\ ParsedPrivateExpiry(h) \in ExpiryType
  BY <1>3 DEF ParsedPublicExpiry, ParsedPrivateExpiry, HeaderType
<1>5. r \in SettingsType
  BY <1>1, <1>2, <1>4 DEF SettingsType
<1>6. DoExpiryStuff(r) \in SettingsType
  <2> HIDE DEF r
  <2>1. WithMaxAge(r.PrivateExpiry) \in ExpiryType
    BY <1>5, ExpiryTyped DEF SettingsType
  <2>2. \A x \in ExpiryType, m \in Modes : [r EXCEPT !.PrivateExpiry = x, !.PrivateMode = m] \in SettingsType
    BY <1>5 DEF SettingsType
  <2>3. (IF AgeOf(r.PrivateExpiry) = 0 THEN "NoCache" ELSE r.PrivateMode) \in Modes
    BY <1>5 DEF SettingsType, Modes
  <2>4. CASE r.PrivateMode # "MustRevalidate"
    BY <1>5, <2>4 DEF DoExpiryStuff
  <2>5. CASE r.PrivateMode = "MustRevalidate"
    <3>1. DoExpiryStuff(r) = [r EXCEPT !.PrivateExpiry = WithMaxAge(r.PrivateExpiry),
                                       !.PrivateMode = IF AgeOf(r.PrivateExpiry) = 0 THEN "NoCache" ELSE r.PrivateMode]
      BY <1>5, <2>5 DEF DoExpiryStuff, SettingsType
    <3> QED
      BY <2>1, <2>2, <2>3, <3>1
  <2> QED
    BY <2>4, <2>5
<1> QED
  BY <1>5, <1>6 DEF Parsed

LEMMA LineTyped ==
  ASSUME NEW l \in LineType
  PROVE  ExtraString(l) \in LineType /\ ExtraString(ExtraString(l)) = ExtraString(l)
<1>1. CASE l.age # Unknown /\ l.behind # {}
  <2>1. ExtraString(l) = [l EXCEPT !.age = Quoted, !.behind = {}]
    BY <1>1 DEF ExtraString
  <2>2. ExtraString(l) \in LineType /\ ExtraString(l).behind = {}
    BY <2>1 DEF LineType
  <2> QED
    BY <2>2 DEF ExtraString
<1>2. CASE ~(l.age # Unknown /\ l.behind # {})
  BY <1>2 DEF ExtraString
<1> QED
  BY <1>1, <1>2

LEMMA ToldTyped ==
  ASSUME NEW h \in HeaderType, NEW l \in LineType
  PROVE  Told(h, l) \in Asks /\ ToldAge(h, l) \in AgeType
<1>1. ToldAge(h, l) \in AgeType
  BY DEF ToldAge, HeaderType, LineType, AgeType
<1>2. StrictMode(ToldFlags(h, l)) \in Modes
  BY DEF StrictMode, Modes
<1>3. h.sAge \in AgeType
  BY DEF HeaderType
<1> QED
  BY <1>1, <1>2, <1>3 DEF Told, Ask, Asks, AskType, Modes

(* What was meant by an expiry has a type, too.                             *)
LEMMA MeantTyped ==
  ASSUME now \in Nat, NEW m \in Modes, NEW x \in ExpiryType, NEW b
  PROVE  Meant(m, x, b) \in AskType
<1>1. x.maxAge \in AgeType /\ x.expires \in Int
  BY DEF ExpiryType, ZeroTime, PastTime
<1>2. (IF x.expires > now THEN x.expires - now ELSE 0) \in AgeType
  BY <1>1 DEF AgeType
<1>3. CASE b
  BY <1>2, <1>3 DEF Meant, Ask, AskType
<1>4. CASE ~b
  BY <1>1, <1>4 DEF Meant, Ask, AskType
<1> QED
  BY <1>3, <1>4

LEMMA Constants ==
  /\ NoHeader \in HeaderType /\ NoLine \in LineType
  /\ NoSettings \in SettingsType /\ NothingAsked \in Asks
<1>1. NoHeader \in HeaderType
  BY DEF NoHeader, HeaderType, AgeType, NoTime
<1>2. NoLine \in LineType
  BY DEF NoLine, LineType, AgeType
<1>3. NoSettings \in SettingsType
  BY DEF NoSettings, NoExpiry, SettingsType, ExpiryType, AgeType, Modes
<1>4. NothingAsked \in Asks
  BY DEF NothingAsked, Ask, Asks, AskType, AgeType, Modes
<1> QED
  BY <1>1, <1>2, <1>3, <1>4

LEMMA ResponseStart == ExchangeInit => ResponseTypes /\ StableInv
<1> SUFFICES ASSUME ExchangeInit PROVE ResponseTypes /\ StableInv
  OBVIOUS
<1>1. /\ header = NoHeader /\ line = NoLine /\ rcc = NoSettings /\ extra = NoLine
      /\ now = 0 /\ formatted = FALSE /\ received = TRUE /\ hasCacheControl = FALSE
      /\ asked = NothingAsked /\ side = "request"
  BY DEF ExchangeInit, ResponseInit
<1> QED
  BY <1>1, Constants DEF ResponseTypes, StableInv

LEMMA ResponseKept ==
  ASSUME ResponseTypes, StableInv, ResponseStep, side = "response", UNCHANGED side
  PROVE  ResponseTypes' /\ StableInv' /\ (formatted /\ formatted' => header' = header /\ line' = line)
<1>0. /\ now \in Nat /\ header \in HeaderType /\ rcc \in SettingsType
      /\ line \in LineType /\ extra \in LineType /\ asked \in Asks
  BY DEF ResponseTypes
<1>1. CASE GetCacheControl
  <2>1. rcc' \in SettingsType
    BY <1>0, <1>1, Constants, ParsedTyped DEF GetCacheControl
  <2> QED
    BY <1>0, <1>1, <2>1 DEF GetCacheControl, ResponseTypes, StableInv
<1>2. CASE GetExpiry
  <2>1. /\ rcc' \in SettingsType
        /\ AgesFixed(rcc) => AgesFixed(rcc') /\ FixedHeader(rcc') = FixedHeader(rcc)
    BY <1>0, <1>2, ReadingFixed DEF GetExpiry
  <2>2. UNCHANGED <<header, line, hasCacheControl, extra, now, formatted, received, asked>>
    BY <1>2 DEF GetExpiry
  <2>3. StableInv'
    BY <2>1, <2>2 DEF StableInv, AgesFixed, FixedHeader, ReadsPrivate, ReadsPublic
  <2> QED
    BY <2>1, <2>2, <2>3 DEF ResponseTypes
<1>3. CASE FormatCacheControl /\ hasCacheControl
  <2>1. /\ header' = Headers1(rcc) /\ rcc' = Fixed(rcc) /\ formatted' = TRUE
        /\ line' = ExtraString(extra)
        /\ UNCHANGED <<hasCacheControl, extra, now, received>>
    BY <1>3 DEF FormatCacheControl
  <2>2. /\ rcc' \in SettingsType /\ AgesFixed(rcc') /\ header' = FixedHeader(rcc')
    BY <1>0, <2>1, FormatFixes
  <2>3. header' \in HeaderType /\ line' \in LineType
    <3>1. rcc'.PublicExpiry \in ExpiryType /\ rcc'.PrivateExpiry \in ExpiryType
      BY <2>2 DEF SettingsType
    <3>2. TimeOf(rcc'.PublicExpiry.maxAge, rcc'.PublicExpiry.expires) \in Int
      BY <3>1 DEF TimeOf, ExpiryType, NoTime, ZeroTime, PastTime
    <3>3. header' \in HeaderType
      BY <2>2, <3>1, <3>2, HeaderTyped DEF FixedHeader, ExpiryType
    <3> QED
      BY <1>0, <2>1, <3>3, LineTyped
  <2>4. asked' \in Asks
    <3>1. /\ Meant(rcc.PublicMode, rcc.PublicExpiry, "public" \in timed) \in AskType
          /\ Meant(rcc.PrivateMode, rcc.PrivateExpiry, "private" \in timed) \in AskType
      BY <1>0, MeantTyped DEF SettingsType
    <3> QED
      BY <1>0, <1>3, <3>1 DEF FormatCacheControl, Asks
  <2>5. ASSUME formatted PROVE header' = header /\ line' = line
    <3>1. AgesFixed(rcc) /\ header = FixedHeader(rcc) /\ line = ExtraString(extra)
      BY <1>3, <2>5 DEF StableInv
    <3>2. Fixed(rcc) = rcc
      <4>1. /\ ReadsPrivate(rcc) => WithMaxAge(rcc.PrivateExpiry) = rcc.PrivateExpiry
            /\ ReadsPublic(rcc) => WithBoth(rcc.PublicExpiry) = rcc.PublicExpiry
        BY <1>0, <3>1, ExpiryTyped DEF AgesFixed, WithBoth, SettingsType
      <4>2. rcc = [rcc EXCEPT !.PrivateExpiry = rcc.PrivateExpiry, !.PublicExpiry = rcc.PublicExpiry]
        BY <1>0 DEF SettingsType
      <4> QED
        BY <1>0, <4>1, <4>2 DEF Fixed, SettingsType
    <3> QED
      BY <2>1, <2>2, <3>1, <3>2
  <2>6. StableInv'
    BY <2>1, <2>2 DEF StableInv, AgesFixed, FixedHeader, ReadsPrivate, ReadsPublic
  <2> QED
    BY <1>0, <2>1, <2>2, <2>3, <2>4, <2>5, <2>6 DEF ResponseTypes
<1>4. CASE FormatCacheControl /\ ~hasCacheControl
  BY <1>0, <1>4 DEF FormatCacheControl, ResponseTypes, StableInv
<1>5. CASE DiscardCacheControl
  BY <1>0, <1>5, Constants DEF DiscardCacheControl, ResponseTypes, StableInv
<1>6. CASE Tick
  <2>1. now' \in Nat /\ UNCHANGED <<header, line, hasCacheControl, rcc, extra, formatted, received, asked>>
    BY <1>0, <1>6 DEF Tick
  <2>2. StableInv'
    BY <2>1 DEF StableInv, AgesFixed, FixedHeader, ReadsPrivate, ReadsPublic
  <2> QED
    BY <2>1, <2>2 DEF ResponseTypes
<1>7. ASSUME NEW r \in SettingsType, NEW u, Set(r, u)
      PROVE  ResponseTypes' /\ StableInv' /\ formatted' = FALSE
  BY <1>0, <1>7, Constants DEF Set, ResponseTypes, StableInv
<1>8. ASSUME NEW m \in Modes, SetCacheMode(m) PROVE \E r \in SettingsType, u \in {timed} : Set(r, u)
  <2>1. /\ [rcc EXCEPT !.PublicMode = m] \in SettingsType /\ [rcc EXCEPT !.PrivateMode = m] \in SettingsType
        /\ [rcc EXCEPT !.PublicMode = m, !.PrivateMode = m] \in SettingsType
    BY <1>0 DEF SettingsType
  <2> QED
    BY <1>8, <2>1 DEF SetCacheMode
<1>9. \A x \in ExpiryType :
        /\ [rcc EXCEPT !.PublicExpiry = x] \in SettingsType /\ [rcc EXCEPT !.PrivateExpiry = x] \in SettingsType
        /\ [rcc EXCEPT !.PublicExpiry = x, !.PrivateExpiry = x] \in SettingsType
  BY <1>0 DEF SettingsType
<1>10. ASSUME NEW d \in Ages, SetCacheMaxAge(d) PROVE \E r \in SettingsType : \E u : Set(r, u)
  <2>1. MaxAgeOnly(d) \in ExpiryType
    BY CacheAssumption DEF MaxAgeOnly, ExpiryType, AgeType
  <2> QED
    BY <1>9, <1>10, <2>1 DEF SetCacheMaxAge
<1>11. ASSUME NEW t \in 0..MaxNow, SetCacheExpires(t) PROVE \E r \in SettingsType : \E u : Set(r, u)
  <2>1. ExpiresOnly(t) \in ExpiryType
    BY CacheAssumption DEF ExpiresOnly, ExpiryType, AgeType
  <2> QED
    BY <1>9, <1>11, <2>1 DEF SetCacheExpires
<1>12. CASE \E r \in SettingsType : \E u : Set(r, u)
  BY <1>7, <1>12
<1> QED
  BY <1>1, <1>2, <1>3, <1>4, <1>5, <1>6, <1>8, <1>10, <1>11, <1>12 DEF ResponseStep

(* The headers that a handler may have written have their types.            *)
LEMMA WrittenTyped == ResponseHeaders \subseteq HeaderType /\ ResponseLines \subseteq LineType
<1>1. {{}, {"private"}, {"must-revalidate"}, {"public", "proxy-revalidate"}} \subseteq SUBSET HeaderFlags
  <2>1. /\ {"private"} \in SUBSET HeaderFlags /\ {"must-revalidate"} \in SUBSET HeaderFlags
        /\ {"public", "proxy-revalidate"} \in SUBSET HeaderFlags /\ {} \in SUBSET HeaderFlags
    BY DEF HeaderFlags
  <2> QED
    BY <2>1
<1>2. Ages \union {Unknown} \subseteq AgeType /\ {Unknown} \subseteq AgeType
  BY CacheAssumption DEF AgeType
<1>3. {NoTime, BadTime} \subseteq Int
  BY DEF NoTime, BadTime
<1>4. ResponseHeaders \subseteq HeaderType
  BY <1>1, <1>2, <1>3 DEF ResponseHeaders, HeaderType
<1>5. {{}, {"private"}} \subseteq SUBSET HeaderFlags /\ {{}, {"no-cache"}} \subseteq SUBSET HeaderFlags
  <2>1. {"private"} \in SUBSET HeaderFlags /\ {"no-cache"} \in SUBSET HeaderFlags /\ {} \in SUBSET HeaderFlags
    BY DEF HeaderFlags
  <2> QED
    BY <2>1
<1>6. Ages \ {0} \subseteq AgeType \cup {Quoted}
  BY <1>2
<1>7. [front : {{}, {"private"}}, age : Ages \ {0}, behind : {{}, {"no-cache"}}] \subseteq LineType
  BY <1>5, <1>6 DEF LineType
<1> QED
  BY <1>4, <1>7, Constants DEF ResponseLines

LEMMA ExchangeKept ==
  ASSUME ResponseTypes, StableInv, [ExchangeNext]_<<side, reqVars, responseVars>>
  PROVE  ResponseTypes' /\ StableInv' /\ (formatted /\ formatted' => header' = header /\ line' = line)
<1>1. CASE UNCHANGED <<side, responseVars>>
  BY <1>1 DEF responseVars, ResponseTypes, StableInv, AgesFixed, FixedHeader, ReadsPrivate, ReadsPublic
<1>2. CASE side = "request" /\ Respond
  <2>1. /\ header' \in HeaderType /\ line' \in LineType /\ side' = "response"
        /\ asked' = Told(header', line')
        /\ UNCHANGED <<hasCacheControl, rcc, extra, now, formatted, received>>
    BY <1>2, WrittenTyped DEF Respond
  <2>2. asked' \in Asks
    BY <2>1, ToldTyped
  <2> QED
    BY <1>2, <2>1, <2>2 DEF ResponseTypes, StableInv
<1>3. CASE side = "response" /\ ResponseStep /\ UNCHANGED side
  BY <1>3, ResponseKept
<1> QED
  BY <1>1, <1>2, <1>3 DEF ExchangeNext

(* A header that FormatCacheControl writes again, later and after the ages  *)
(* and times were read, is the same one as long as nothing is set: for any  *)
(* ages, times and modes.                                                   *)
THEOREM FormattedOnce == ExchangeSpec => FormatIsStable
<1>1. ExchangeInit => ResponseTypes /\ StableInv
  BY ResponseStart
<1>2. ResponseTypes /\ StableInv /\ [ExchangeNext]_<<side, reqVars, responseVars>> => (ResponseTypes /\ StableInv)'
  BY ExchangeKept
<1>3. ResponseTypes /\ StableInv /\ [ExchangeNext]_<<side, reqVars, responseVars>> =>
        [formatted /\ formatted' => header' = header /\ line' = line]_responseVars
  BY ExchangeKept
<1> QED
  BY <1>1, <1>2, <1>3, PTL DEF ExchangeSpec, FormatIsStable

------------------------------------------------------------------------------
(* What a response allows the caches.                                       *)

(* What settings allow at this moment, what parsing a header will make of   *)
(* it, and what a cache does.                                               *)
SettingsNow(r) ==
  [public |-> Ask(r.PublicMode, AgeOf(r.PublicExpiry), FALSE),
   private |-> Ask(r.PrivateMode, AgeOf(r.PrivateExpiry), FALSE)]

HeaderView(h) ==
  [public |-> Ask(ParsedPublic(h.flags), IF h.sAge # Unknown THEN h.sAge ELSE h.age, FALSE),
   private |-> Ask(IF ParsedPrivate(h.flags) = "MustRevalidate" /\ h.age = 0
                     THEN "NoCache" ELSE ParsedPrivate(h.flags), h.age, FALSE)]

WireView(h, l) ==
  LET told == Told(h, l) IN
  [public |-> Ask(OnWire(told.public), told.public.age, FALSE),
   private |-> Ask(OnWire(told.private), told.private.age, FALSE)]

NoLooser(v, ask) ==
  /\ NotLooser(v.public.mode, v.public.age, ask.public)
  /\ NotLooser(v.private.mode, v.private.age, ask.private)

(* Nothing looser, and nothing that headers1 would drop: where it drops the *)
(* mode of a private cache, that one was not asked for.                     *)
Kept(v, ask) ==
  /\ NoLooser(v, ask)
  /\ v.public.mode # "Unspecified"
  /\ v.public.mode = "MustRevalidate" /\ v.private.mode = "NoCache" => v.public.age # Unknown
  /\ v.private.mode = "MustRevalidate" /\ v.private.age = Unknown =>
       v.public.mode # "NoCache" /\ NotLooser("Unspecified", Unknown, ask.private)

(* The headers: either they carry what was asked for in directives of their *)
(* own, or all of it is on a line that the parser does not understand.      *)
Bare(h) == h.flags = {} /\ h.age = Unknown /\ h.sAge = Unknown

HeadersCarry ==
  /\ NoLooser(WireView(header, line), asked)
  /\ \/ /\ Kept(HeaderView(header), asked)
        /\ header.age = Unknown /\ header.expires = BadTime => asked.private.late
     \/ Bare(header) /\ line # NoLine

(* The same for settings that were parsed from them.                        *)
SettingsCarry ==
  \/ /\ Kept(SettingsNow(rcc), asked) /\ rcc.PublicExpiry.kind # "expires"
     /\ rcc.PrivateExpiry.kind = "expires" => asked.private.late
  \/ /\ rcc.PublicMode = "Unspecified" /\ extra # NoLine
     /\ NoLooser(WireView(NoHeader, extra), asked)

CarryInv ==
  /\ ~received /\ ~(formatted /\ hasCacheControl) => ~Expressible(asked)
  /\ Expressible(asked) /\ (received \/ formatted) => HeadersCarry
  /\ Expressible(asked) /\ received /\ hasCacheControl => SettingsCarry

(* An expiry that was given as a time gives no age, unless it has passed.   *)
TimedWell(x, isTime) ==
  IF isTime
    THEN /\ x.kind \in {"expires", "both"}
         /\ x.kind = "both" => x.maxAge # Unknown /\ (x.maxAge = 0 \/ x.expires < now)
    ELSE x.kind # "expires"

TimedInv ==
  TimedWell(rcc.PublicExpiry, "public" \in timed) /\ TimedWell(rcc.PrivateExpiry, "private" \in timed)

LEMMA Ranks ==
  /\ Rank("Unspecified") = 1 /\ Rank("CanCache") = 1 /\ Rank("MustRevalidate") = 2
  /\ Rank("NoCache") = 3 /\ Rank("NoStore") = 4
  /\ \A m \in Modes : Rank(m) \in 1..4
<1>1. /\ Rank("Unspecified") = 1 /\ Rank("CanCache") = 1 /\ Rank("MustRevalidate") = 2
      /\ Rank("NoCache") = 3 /\ Rank("NoStore") = 4
  BY DEF Rank
<1> QED
  BY <1>1 DEF Modes

(* A mode and an age that are no looser than what was asked for.            *)
LEMMA Tighter ==
  ASSUME NEW mode \in Modes, NEW age \in AgeType, NEW ask \in AskType,
         Rank(mode) >= Rank(ask.mode),
         Rank(mode) >= 3 \/ ask.late \/ ask.age = Unknown \/ (age # Unknown /\ age <= ask.age)
  PROVE  NotLooser(mode, age, ask)
<1>1. Rank(mode) \in Nat /\ Rank(ask.mode) \in Nat
  BY Ranks DEF AskType
<1>2. CASE ask.late
  BY <1>2 DEF NotLooser
<1>3. CASE ~ask.late
  <2>1. ASSUME NEW d \in 1..(MaxNow + 1), Allows(mode, age, d)
        PROVE  Allows(ask.mode, ask.age, d)
    BY <1>1, <1>3, <2>1, CacheAssumption DEF Allows, AskType, AgeType
  <2> QED
    BY <2>1 DEF NotLooser
<1> QED
  BY <1>2, <1>3

(* ... and stay so when they become tighter still.                          *)
LEMMA TighterStill ==
  ASSUME NEW mode \in Modes, NEW age \in AgeType, NEW m0 \in Modes, NEW a0 \in AgeType,
         NEW ask \in AskType, NotLooser(m0, a0, ask), Rank(mode) >= Rank(m0),
         Rank(mode) >= 3 \/ a0 = Unknown \/ (age # Unknown /\ age <= a0)
  PROVE  NotLooser(mode, age, ask)
<1>1. Rank(mode) \in Nat /\ Rank(ask.mode) \in Nat /\ Rank(m0) \in Nat
  BY Ranks DEF AskType
<1>2. CASE ask.late
  BY <1>1, <1>2 DEF NotLooser
<1>3. CASE ~ask.late
  <2>1. ASSUME NEW d \in 1..(MaxNow + 1), Allows(mode, age, d)
        PROVE  Allows(ask.mode, ask.age, d)
    <3>1. Allows(m0, a0, d)
      BY <1>1, <2>1, CacheAssumption DEF Allows, AgeType
    <3> QED
      BY <1>3, <3>1 DEF NotLooser
  <2> QED
    BY <1>1, <2>1 DEF NotLooser
<1> QED
  BY <1>2, <1>3

(* What a cache does, by its flags and ages.                                *)
PublicTold(flags) ==
  IF flags \intersect {"no-store", "private"} # {} THEN "NoStore"
  ELSE IF "no-cache" \in flags THEN "NoCache"
  ELSE IF flags \intersect {"must-revalidate", "proxy-revalidate"} # {} THEN "MustRevalidate"
  ELSE IF "public" \in flags THEN "CanCache" ELSE "Unspecified"

AtOnce(m, age) == IF m = "MustRevalidate" /\ age = 0 THEN "NoCache" ELSE m

LEMMA WireParts ==
  ASSUME NEW h, NEW l
  PROVE  LET sAge == IF h.sAge # Unknown THEN h.sAge ELSE ToldAge(h, l)
             flags == h.flags \union l.front
             v == WireView(h, l)
         IN  /\ v.public.mode = AtOnce(PublicTold(flags), sAge) /\ v.public.age = sAge
             /\ v.private.mode = AtOnce(StrictMode(flags), ToldAge(h, l)) /\ v.private.age = ToldAge(h, l)
<1>1. /\ Told(h, l).public.mode = PublicTold(h.flags \union l.front)
      /\ Told(h, l).public.age = IF h.sAge # Unknown THEN h.sAge ELSE ToldAge(h, l)
      /\ Told(h, l).private.mode = StrictMode(h.flags \union l.front)
      /\ Told(h, l).private.age = ToldAge(h, l)
  BY DEF Told, Ask, PublicTold, ToldFlags
<1> QED
  BY <1>1 DEF WireView, Ask, OnWire, AtOnce

LEMMA ToldModes ==
  ASSUME NEW F
  PROVE  /\ PublicTold(F) \in Modes /\ StrictMode(F) \in Modes
         /\ \A a : AtOnce(PublicTold(F), a) \in Modes /\ AtOnce(StrictMode(F), a) \in Modes
<1>1. PublicTold(F) \in Modes
  BY DEF PublicTold, Modes
<1>2. StrictMode(F) \in Modes
  BY DEF StrictMode, Modes
<1>3. "NoCache" \in Modes
  BY DEF Modes
<1> QED
  BY <1>1, <1>2, <1>3 DEF AtOnce

(* More flags are not looser.                                               *)
LEMMA MoreFlags ==
  ASSUME NEW F, NEW G
  PROVE  /\ Rank(PublicTold(F \union G)) >= Rank(PublicTold(F))
         /\ Rank(StrictMode(F \union G)) >= Rank(StrictMode(F))
<1> DEFINE H == F \union G
<1>1. \A x \in F : x \in H
  OBVIOUS
<1> HIDE DEF H
<1>2. Rank(StrictMode(H)) >= Rank(StrictMode(F))
  BY <1>1, Ranks DEF StrictMode
<1>3. Rank(PublicTold(H)) >= Rank(PublicTold(F))
  <2>1. PublicTold(F) = "NoStore" => PublicTold(H) = "NoStore"
    BY <1>1 DEF PublicTold
  <2>2. PublicTold(F) = "NoCache" => PublicTold(H) \in {"NoStore", "NoCache"}
    BY <1>1 DEF PublicTold
  <2>3. PublicTold(F) = "MustRevalidate" => PublicTold(H) \in {"NoStore", "NoCache", "MustRevalidate"}
    BY <1>1 DEF PublicTold
  <2>4. PublicTold(F) \in Modes /\ PublicTold(H) \in Modes
    BY ToldModes
  <2> HIDE DEF PublicTold
  <2> QED
    BY <2>1, <2>2, <2>3, <2>4, Ranks DEF Modes
<1> QED
  BY <1>2, <1>3 DEF H

(* Nor does an age of 0 get looser by what else is known.                   *)
LEMMA AtOnceRanks ==
  ASSUME NEW m \in Modes, NEW m0 \in Modes, NEW a \in AgeType, NEW a0 \in AgeType,
         Rank(m) >= Rank(m0), a0 = 0 => a = 0
  PROVE  Rank(AtOnce(m, a)) >= Rank(AtOnce(m0, a0))
<1>1. CASE m0 = "MustRevalidate" /\ a0 = 0
  <2>1. m \in {"MustRevalidate", "NoCache", "NoStore"}
    BY <1>1, Ranks DEF Modes
  <2> QED
    BY <1>1, <2>1, Ranks DEF AtOnce
<1>2. CASE ~(m0 = "MustRevalidate" /\ a0 = 0)
  BY <1>2, Ranks DEF AtOnce
<1> QED
  BY <1>1, <1>2

(* A line beside the headers does not loosen what they say.                 *)
LEMMA LineTightens ==
  ASSUME NEW h \in HeaderType, NEW l \in LineType, NEW ask \in Asks,
         NoLooser(WireView(h, NoLine), ask)
  PROVE  NoLooser(WireView(h, l), ask)
<1> DEFINE v == WireView(h, l)
           v0 == WireView(h, NoLine)
           F == h.flags
           G == h.flags \union l.front
           a == ToldAge(h, l)
           a0 == ToldAge(h, NoLine)
           s == IF h.sAge # Unknown THEN h.sAge ELSE a
           s0 == IF h.sAge # Unknown THEN h.sAge ELSE a0
<1>1. a \in AgeType /\ a0 \in AgeType /\ h.sAge \in AgeType
  BY ToldTyped, Constants DEF HeaderType
<1>2. a0 = Unknown \/ a = a0
  BY DEF ToldAge, NoLine, Unknown, Quoted
<1>3. /\ v.public.mode = AtOnce(PublicTold(G), s) /\ v.public.age = s
      /\ v.private.mode = AtOnce(StrictMode(G), a) /\ v.private.age = a
  BY WireParts
<1>4. /\ v0.public.mode = AtOnce(PublicTold(F), s0) /\ v0.public.age = s0
      /\ v0.private.mode = AtOnce(StrictMode(F), a0) /\ v0.private.age = a0
  <2>1. F \union NoLine.front = F
    BY DEF NoLine
  <2> QED
    BY <2>1, WireParts
<1>5. s \in AgeType /\ s0 \in AgeType /\ (s0 = Unknown \/ s = s0)
  BY <1>1, <1>2
<1>6. ask.public \in AskType /\ ask.private \in AskType
  BY DEF Asks
<1>7. Rank(PublicTold(G)) >= Rank(PublicTold(F)) /\ Rank(StrictMode(G)) >= Rank(StrictMode(F))
  BY MoreFlags
<1>8. /\ PublicTold(G) \in Modes /\ StrictMode(G) \in Modes /\ PublicTold(F) \in Modes /\ StrictMode(F) \in Modes
      /\ AtOnce(PublicTold(G), s) \in Modes /\ AtOnce(StrictMode(G), a) \in Modes
      /\ AtOnce(PublicTold(F), s0) \in Modes /\ AtOnce(StrictMode(F), a0) \in Modes
  BY ToldModes
<1> HIDE DEF v, v0, F, G, a, a0, s, s0
<1>9. /\ Rank(AtOnce(PublicTold(G), s)) >= Rank(AtOnce(PublicTold(F), s0))
      /\ Rank(AtOnce(StrictMode(G), a)) >= Rank(AtOnce(StrictMode(F), a0))
  <2>1. (s0 = 0 => s = 0) /\ (a0 = 0 => a = 0)
    BY <1>2, <1>5 DEF Unknown
  <2> QED
    BY <1>1, <1>5, <1>7, <1>8, <2>1, AtOnceRanks
<1>10. /\ NotLooser(AtOnce(PublicTold(F), s0), s0, ask.public)
       /\ NotLooser(AtOnce(StrictMode(F), a0), a0, ask.private)
  BY <1>4 DEF NoLooser, v0
<1>11. (s0 = Unknown \/ (s # Unknown /\ s <= s0)) /\ (a0 = Unknown \/ (a # Unknown /\ a <= a0))
  BY <1>1, <1>2, <1>5 DEF AgeType, Unknown
<1>12. NotLooser(AtOnce(PublicTold(G), s), s, ask.public)
  BY <1>5, <1>6, <1>8, <1>9, <1>10, <1>11, TighterStill
<1>13. NotLooser(AtOnce(StrictMode(G), a), a, ask.private)
  BY <1>1, <1>6, <1>8, <1>9, <1>10, <1>11, TighterStill
<1> QED
  BY <1>3, <1>12, <1>13 DEF NoLooser, v

(* Nor does putting its age in quotes.                                      *)
LEMMA QuotesTighten ==
  ASSUME NEW l \in LineType, NEW ask \in Asks, NoLooser(WireView(NoHeader, l), ask)
  PROVE  NoLooser(WireView(NoHeader, ExtraString(l)), ask)
<1> DEFINE q == ExtraString(l)
           v == WireView(NoHeader, q)
           v0 == WireView(NoHeader, l)
           F == NoHeader.flags \union l.front
           a == ToldAge(NoHeader, q)
           a0 == ToldAge(NoHeader, l)
<1>1. a \in AgeType /\ a0 \in AgeType
  BY ToldTyped, LineTyped, Constants
<1>2. q.front = l.front /\ NoHeader.sAge = Unknown
  BY QuotesKeepFront DEF NoHeader
<1>3. a = a0 \/ (a = 0 /\ a0 # Unknown)
  <2>1. CASE q = l
    BY <2>1
  <2>2. CASE q # l
    <3>1. l.age # Unknown /\ q.age = Quoted
      BY <2>2 DEF ExtraString, LineType
    <3>2. a = 0
      BY <3>1 DEF ToldAge, NoHeader, Unknown, Quoted
    <3>3. a0 # Unknown
      BY <3>1 DEF ToldAge, NoHeader, Unknown, Quoted
    <3> QED
      BY <3>2, <3>3
  <2> QED
    BY <2>1, <2>2
<1>4. /\ v.public.mode = AtOnce(PublicTold(F), a) /\ v.public.age = a
      /\ v.private.mode = AtOnce(StrictMode(F), a) /\ v.private.age = a
  BY <1>2, WireParts
<1>5. /\ v0.public.mode = AtOnce(PublicTold(F), a0) /\ v0.public.age = a0
      /\ v0.private.mode = AtOnce(StrictMode(F), a0) /\ v0.private.age = a0
  BY <1>2, WireParts
<1>6. ask.public \in AskType /\ ask.private \in AskType
  BY DEF Asks
<1>7. /\ PublicTold(F) \in Modes /\ StrictMode(F) \in Modes
      /\ AtOnce(PublicTold(F), a) \in Modes /\ AtOnce(StrictMode(F), a) \in Modes
      /\ AtOnce(PublicTold(F), a0) \in Modes /\ AtOnce(StrictMode(F), a0) \in Modes
  BY ToldModes
<1> HIDE DEF v, v0, F, a, a0
<1>8. /\ Rank(AtOnce(PublicTold(F), a)) >= Rank(AtOnce(PublicTold(F), a0))
      /\ Rank(AtOnce(StrictMode(F), a)) >= Rank(AtOnce(StrictMode(F), a0))
  <2>1. /\ Rank(PublicTold(F)) >= Rank(PublicTold(F)) /\ Rank(StrictMode(F)) >= Rank(StrictMode(F))
        /\ a0 = 0 => a = 0
    BY <1>3, <1>7, Ranks
  <2> QED
    BY <1>1, <1>7, <2>1, AtOnceRanks
<1>9. a0 = Unknown \/ (a # Unknown /\ a <= a0)
  BY <1>1, <1>3 DEF AgeType, Unknown
<1>10. NotLooser(AtOnce(PublicTold(F), a0), a0, ask.public) /\ NotLooser(AtOnce(StrictMode(F), a0), a0, ask.private)
  BY <1>5 DEF NoLooser, v0
<1>11. NotLooser(AtOnce(PublicTold(F), a), a, ask.public)
  BY <1>1, <1>6, <1>7, <1>8, <1>9, <1>10, TighterStill
<1>12. NotLooser(AtOnce(StrictMode(F), a), a, ask.private)
  BY <1>1, <1>6, <1>7, <1>8, <1>9, <1>10, TighterStill
<1> QED
  BY <1>4, <1>11, <1>12 DEF NoLooser, v

(* Parsing a header: the ages and modes of HeaderView, except that a date   *)
(* that does not parse is an age that grows.                                *)
LEMMA ParsedView ==
  ASSUME now \in Nat, NEW h \in HeaderType
  PROVE  LET v == SettingsNow(Parsed(h)) IN
         /\ Parsed(h).PublicExpiry.kind # "expires"
         /\ v.public = HeaderView(h).public
         /\ h.age = Unknown /\ h.expires = BadTime =>
              v.private.mode = HeaderView(h).private.mode /\ v.private.age \in Nat
         /\ ~(h.age = Unknown /\ h.expires = BadTime) =>
              Parsed(h).PrivateExpiry.kind # "expires" /\ v.private = HeaderView(h).private
<1> DEFINE pub == ParsedPublicExpiry(h)
           pri == ParsedPrivateExpiry(h)
           m == ParsedPrivate(h.flags)
           r == [PublicMode |-> ParsedPublic(h.flags), PrivateMode |-> m,
                 PublicExpiry |-> pub, PrivateExpiry |-> pri]
<1>1. /\ pub.kind \in {"none", "maxAge"} /\ pub.maxAge = IF h.sAge # Unknown THEN h.sAge ELSE h.age
      /\ pri.kind = "none" => h.age = Unknown
  BY DEF ParsedPublicExpiry, ParsedPrivateExpiry, MaxAgeOnly, NoExpiry, ExpiresOnly
<1>2. pub \in ExpiryType /\ pri \in ExpiryType
  <2>1. /\ \A d \in AgeType : MaxAgeOnly(d) \in ExpiryType
        /\ NoExpiry \in ExpiryType /\ ExpiresOnly(ZeroTime) \in ExpiryType
    BY DEF MaxAgeOnly, NoExpiry, ExpiresOnly, ExpiryType, AgeType
  <2> QED
    BY <2>1 DEF ParsedPublicExpiry, ParsedPrivateExpiry, HeaderType
<1>p. Parsed(h) = IF pub.kind = "none" /\ pri.kind = "none" THEN r ELSE DoExpiryStuff(r)
  BY DEF Parsed
<1>a. h.age = Unknown /\ h.expires = BadTime =>
        pri.kind = "expires" /\ AgeOf(pri) \in Nat /\ AgeOf(pri) # 0
  BY DEF ParsedPrivateExpiry, ExpiresOnly, AgeOf, WithMaxAge, BothFromExpires, ZeroTime
<1>b. ~(h.age = Unknown /\ h.expires = BadTime) => pri.kind # "expires" /\ AgeOf(pri) = h.age
  BY DEF ParsedPrivateExpiry, ExpiresOnly, MaxAgeOnly, NoExpiry, AgeOf, WithMaxAge
<1> HIDE DEF pub, pri, m
<1>3. AgeOf(pub) = IF h.sAge # Unknown THEN h.sAge ELSE h.age
  BY <1>1, <1>2, ExpiryTyped
<1>4. AgeOf(WithMaxAge(pri)) = AgeOf(pri) /\ WithMaxAge(pri).kind # "expires"
  BY <1>2, ExpiryTyped DEF AgeOf
<1>5. /\ Parsed(h).PublicMode = ParsedPublic(h.flags) /\ Parsed(h).PublicExpiry = pub
      /\ Parsed(h).PrivateExpiry \in {pri, WithMaxAge(pri)}
      /\ Parsed(h).PrivateMode = IF m = "MustRevalidate" /\ AgeOf(pri) = 0 THEN "NoCache" ELSE m
  <2>1. CASE Parsed(h) = r /\ ~(m = "MustRevalidate" /\ AgeOf(pri) = 0)
    BY <2>1
  <2>2. CASE pub.kind = "none" /\ pri.kind = "none"
    <3>1. AgeOf(pri) # 0
      BY <1>1, <1>a, <1>b, <2>2 DEF Unknown
    <3> QED
      BY <1>p, <2>1, <2>2, <3>1
  <2>3. CASE ~(pub.kind = "none" /\ pri.kind = "none") /\ m # "MustRevalidate"
    BY <1>p, <2>1, <2>3 DEF DoExpiryStuff
  <2>4. CASE ~(pub.kind = "none" /\ pri.kind = "none") /\ m = "MustRevalidate"
    <3>1. Parsed(h) = [r EXCEPT !.PrivateExpiry = WithMaxAge(@), !.PrivateMode = IF AgeOf(r.PrivateExpiry) = 0 THEN "NoCache" ELSE @]
      BY <1>p, <2>4 DEF DoExpiryStuff
    <3> QED
      BY <2>4, <3>1
  <2> QED
    BY <2>2, <2>3, <2>4
<1>6. AgeOf(Parsed(h).PrivateExpiry) = AgeOf(pri)
  BY <1>4, <1>5
<1>7. SettingsNow(Parsed(h)).public = HeaderView(h).public
  BY <1>3, <1>5 DEF SettingsNow, HeaderView
<1>8. /\ SettingsNow(Parsed(h)).private.mode = IF m = "MustRevalidate" /\ AgeOf(pri) = 0 THEN "NoCache" ELSE m
      /\ SettingsNow(Parsed(h)).private.age = AgeOf(pri)
      /\ SettingsNow(Parsed(h)).private = Ask(IF m = "MustRevalidate" /\ AgeOf(pri) = 0 THEN "NoCache" ELSE m, AgeOf(pri), FALSE)
  BY <1>5, <1>6 DEF SettingsNow, Ask
<1>9. /\ HeaderView(h).private.mode = IF m = "MustRevalidate" /\ h.age = 0 THEN "NoCache" ELSE m
      /\ HeaderView(h).private = Ask(IF m = "MustRevalidate" /\ h.age = 0 THEN "NoCache" ELSE m, h.age, FALSE)
  BY DEF HeaderView, Ask, m
<1>10. Parsed(h).PublicExpiry.kind # "expires"
  BY <1>1, <1>5
<1>11. CASE h.age = Unknown /\ h.expires = BadTime
  BY <1>7, <1>8, <1>9, <1>10, <1>11, <1>a DEF Unknown
<1>12. CASE ~(h.age = Unknown /\ h.expires = BadTime)
  <2>1. Parsed(h).PrivateExpiry.kind # "expires"
    BY <1>4, <1>5, <1>12, <1>b
  <2> QED
    BY <1>7, <1>8, <1>9, <1>10, <1>12, <1>b, <2>1
<1> QED
  BY <1>11, <1>12

(* Every header of headers1, as it is parsed and as a cache takes it.       *)
Tight(v, pm, m, a, s) ==
  /\ v.public.mode \in Modes /\ v.private.mode \in Modes
  /\ v.public.age \in AgeType /\ v.private.age \in AgeType
  /\ Rank(v.public.mode) >= Rank(pm)
  /\ Rank(v.private.mode) >= Rank(m)
  /\ Rank(v.public.mode) >= 3 \/ s = Unknown \/ (v.public.age # Unknown /\ v.public.age <= s)
  /\ Rank(v.private.mode) >= 3 \/ a = Unknown \/ (v.private.age # Unknown /\ v.private.age <= a)

Form(v, m, a) ==
  /\ v.public.mode \in {"NoStore", "MustRevalidate", "CanCache"}
  /\ v.public.mode = "MustRevalidate" => v.private.mode # "NoCache"
  /\ v.private.mode = "MustRevalidate" /\ v.private.age = Unknown => m = "CanCache" /\ a = Unknown

(* What the flags that headers1 writes are parsed as ...                    *)
LEMMA FlagsParsed ==
  /\ ParsedPublic({"private"}) = "NoStore" /\ ParsedPrivate({"private"}) = "Unspecified"
  /\ ParsedPublic({"private", "must-revalidate"}) = "NoStore" /\ ParsedPrivate({"private", "must-revalidate"}) = "MustRevalidate"
  /\ ParsedPublic({"private", "no-cache"}) = "NoStore" /\ ParsedPrivate({"private", "no-cache"}) = "NoCache"
  /\ ParsedPublic({"no-store"}) = "NoStore" /\ ParsedPrivate({"no-store"}) = "NoStore"
  /\ ParsedPublic({"no-cache"}) = "NoStore" /\ ParsedPrivate({"no-cache"}) = "NoCache"
  /\ ParsedPublic({"must-revalidate"}) = "NoStore" /\ ParsedPrivate({"must-revalidate"}) = "MustRevalidate"
  /\ ParsedPublic({"proxy-revalidate"}) = "MustRevalidate" /\ ParsedPrivate({"proxy-revalidate"}) = "Unspecified"
  /\ ParsedPublic({"public"}) = "CanCache" /\ ParsedPrivate({"public"}) = "CanCache"
<1>1. /\ ParsedPublic({"private"}) = "NoStore" /\ ParsedPrivate({"private"}) = "Unspecified"
  BY DEF ParsedPublic, ParsedPrivate, StrictMode
<1>2. /\ ParsedPublic({"private", "must-revalidate"}) = "NoStore"
      /\ ParsedPrivate({"private", "must-revalidate"}) = "MustRevalidate"
  BY DEF ParsedPublic, ParsedPrivate, StrictMode
<1>3. /\ ParsedPublic({"private", "no-cache"}) = "NoStore" /\ ParsedPrivate({"private", "no-cache"}) = "NoCache"
  BY DEF ParsedPublic, ParsedPrivate, StrictMode
<1>4. /\ ParsedPublic({"no-store"}) = "NoStore" /\ ParsedPrivate({"no-store"}) = "NoStore"
  BY DEF ParsedPublic, ParsedPrivate, StrictMode
<1>5. /\ ParsedPublic({"no-cache"}) = "NoStore" /\ ParsedPrivate({"no-cache"}) = "NoCache"
  BY DEF ParsedPublic, ParsedPrivate, StrictMode
<1>6. /\ ParsedPublic({"must-revalidate"}) = "NoStore" /\ ParsedPrivate({"must-revalidate"}) = "MustRevalidate"
  BY DEF ParsedPublic, ParsedPrivate, StrictMode
<1>7. /\ ParsedPublic({"proxy-revalidate"}) = "MustRevalidate" /\ ParsedPrivate({"proxy-revalidate"}) = "Unspecified"
  BY DEF ParsedPublic, ParsedPrivate, StrictMode
<1>8. /\ ParsedPublic({"public"}) = "CanCache" /\ ParsedPrivate({"public"}) = "CanCache"
  BY DEF ParsedPublic, ParsedPrivate, StrictMode
<1> QED
  BY <1>1, <1>2, <1>3, <1>4, <1>5, <1>6, <1>7, <1>8

(* ... and what they tell a cache.                                          *)
LEMMA FlagsTold ==
  /\ PublicTold({"private"}) = "NoStore" /\ StrictMode({"private"}) = "Unspecified"
  /\ PublicTold({"private", "must-revalidate"}) = "NoStore" /\ StrictMode({"private", "must-revalidate"}) = "MustRevalidate"
  /\ PublicTold({"private", "no-cache"}) = "NoStore" /\ StrictMode({"private", "no-cache"}) = "NoCache"
  /\ PublicTold({"no-store"}) = "NoStore" /\ StrictMode({"no-store"}) = "NoStore"
  /\ PublicTold({"no-cache"}) = "NoCache" /\ StrictMode({"no-cache"}) = "NoCache"
  /\ PublicTold({"must-revalidate"}) = "MustRevalidate" /\ StrictMode({"must-revalidate"}) = "MustRevalidate"
  /\ PublicTold({"proxy-revalidate"}) = "MustRevalidate" /\ StrictMode({"proxy-revalidate"}) = "Unspecified"
  /\ PublicTold({"public"}) = "CanCache" /\ StrictMode({"public"}) = "Unspecified"
<1>1. /\ StrictMode({"private"}) = "Unspecified" /\ StrictMode({"private", "must-revalidate"}) = "MustRevalidate"
      /\ StrictMode({"private", "no-cache"}) = "NoCache" /\ StrictMode({"no-store"}) = "NoStore"
  BY DEF StrictMode
<1>2. /\ StrictMode({"no-cache"}) = "NoCache" /\ StrictMode({"must-revalidate"}) = "MustRevalidate"
      /\ StrictMode({"proxy-revalidate"}) = "Unspecified" /\ StrictMode({"public"}) = "Unspecified"
  BY DEF StrictMode
<1>3. \A F : "private" \in F \/ "no-store" \in F => PublicTold(F) = "NoStore"
  BY DEF PublicTold
<1>4. PublicTold({"no-cache"}) = "NoCache" /\ PublicTold({"must-revalidate"}) = "MustRevalidate"
  BY DEF PublicTold
<1>5. PublicTold({"proxy-revalidate"}) = "MustRevalidate" /\ PublicTold({"public"}) = "CanCache"
  BY DEF PublicTold
<1>6. /\ PublicTold({"private"}) = "NoStore" /\ PublicTold({"private", "must-revalidate"}) = "NoStore"
      /\ PublicTold({"private", "no-cache"}) = "NoStore" /\ PublicTold({"no-store"}) = "NoStore"
  BY <1>3
<1> QED
  BY <1>1, <1>2, <1>4, <1>5, <1>6

(* What the directives of headers1 are parsed as, and tell, by their parts. *)
SharedAge(b, c) == IF c # Unknown THEN c ELSE b

LEMMA DirectiveViews ==
  ASSUME NEW F, NEW a \in AgeType, NEW c \in AgeType, NEW t
  PROVE  /\ HeaderView(Directives(F, a, c, t)) =
               [public |-> Ask(ParsedPublic(F), SharedAge(a, c), FALSE),
                private |-> Ask(AtOnce(ParsedPrivate(F), a), a, FALSE)]
         /\ WireView(Directives(F, a, c, t), NoLine) =
               [public |-> Ask(AtOnce(PublicTold(F), SharedAge(a, c)), SharedAge(a, c), FALSE),
                private |-> Ask(AtOnce(StrictMode(F), a), a, FALSE)]
<1> DEFINE h == Directives(F, a, c, t)
<1>1. h.flags = F /\ h.age = a /\ h.sAge = c
  BY DEF Directives
<1>2. ToldAge(h, NoLine) = a /\ F \union NoLine.front = F
  BY <1>1 DEF ToldAge, NoLine, Unknown, Quoted
<1>3. HeaderView(h) = [public |-> Ask(ParsedPublic(F), SharedAge(a, c), FALSE),
                       private |-> Ask(AtOnce(ParsedPrivate(F), a), a, FALSE)]
  BY <1>1 DEF HeaderView, AtOnce, SharedAge
<1> HIDE DEF h
<1>4. LET told == Told(h, NoLine) IN
      /\ told.public.mode = PublicTold(F) /\ told.public.age = SharedAge(a, c)
      /\ told.private.mode = StrictMode(F) /\ told.private.age = a
  BY <1>1, <1>2 DEF Told, Ask, PublicTold, ToldFlags, SharedAge
<1>5. WireView(h, NoLine) = [public |-> Ask(AtOnce(PublicTold(F), SharedAge(a, c)), SharedAge(a, c), FALSE),
                             private |-> Ask(AtOnce(StrictMode(F), a), a, FALSE)]
  BY <1>4 DEF WireView, OnWire, AtOnce
<1> QED
  BY <1>3, <1>5 DEF h

(* The headers of headers1 that loosen nothing, parsed or sent.             *)
Good(h, pm, m, a, s) ==
  /\ h.expires # BadTime
  /\ Tight(HeaderView(h), pm, m, a, s) /\ Form(HeaderView(h), m, a)
  /\ Tight(WireView(h, NoLine), pm, m, a, s)

(* Good, by the modes and ages that a header is parsed as and tells.        *)
GoodBy(p1, p2, w1, w2, b, x, pm, m, a, s) ==
  /\ p1 \in Modes /\ p2 \in Modes /\ w1 \in Modes /\ w2 \in Modes /\ b \in AgeType /\ x \in AgeType
  /\ Rank(p1) >= Rank(pm) /\ Rank(w1) >= Rank(pm) /\ Rank(p2) >= Rank(m) /\ Rank(w2) >= Rank(m)
  /\ (Rank(p1) >= 3 /\ Rank(w1) >= 3) \/ s = Unknown \/ (x # Unknown /\ x <= s)
  /\ (Rank(p2) >= 3 /\ Rank(w2) >= 3) \/ a = Unknown \/ (b # Unknown /\ b <= a)
  /\ p1 \in {"NoStore", "MustRevalidate", "CanCache"}
  /\ p1 = "MustRevalidate" => p2 # "NoCache"
  /\ p2 = "MustRevalidate" /\ b = Unknown => m = "CanCache" /\ a = Unknown

LEMMA GoodParts ==
  ASSUME NEW F, NEW b \in AgeType, NEW c \in AgeType, NEW t, t # BadTime,
         NEW pm, NEW m, NEW a, NEW s,
         GoodBy(ParsedPublic(F), AtOnce(ParsedPrivate(F), b), AtOnce(PublicTold(F), SharedAge(b, c)),
                AtOnce(StrictMode(F), b), b, SharedAge(b, c), pm, m, a, s)
  PROVE  Good(Directives(F, b, c, t), pm, m, a, s)
<1> DEFINE h == Directives(F, b, c, t)
           x == SharedAge(b, c)
           p1 == ParsedPublic(F)
           p2 == AtOnce(ParsedPrivate(F), b)
           w1 == AtOnce(PublicTold(F), x)
           w2 == AtOnce(StrictMode(F), b)
<1>1. /\ HeaderView(h) = [public |-> Ask(p1, x, FALSE), private |-> Ask(p2, b, FALSE)]
      /\ WireView(h, NoLine) = [public |-> Ask(w1, x, FALSE), private |-> Ask(w2, b, FALSE)]
  BY DirectiveViews
<1>2. h.expires # BadTime
  BY DEF Directives
<1>p. GoodBy(p1, p2, w1, w2, b, x, pm, m, a, s)
  OBVIOUS
<1> HIDE DEF h, x, p1, p2, w1, w2
<1>3. Tight(HeaderView(h), pm, m, a, s)
  BY <1>1, <1>p DEF Tight, Ask, GoodBy
<1>4. Tight(WireView(h, NoLine), pm, m, a, s)
  BY <1>1, <1>p DEF Tight, Ask, GoodBy
<1>5. Form(HeaderView(h), m, a)
  BY <1>1, <1>p DEF Form, Ask, GoodBy
<1> QED
  BY <1>2, <1>3, <1>4, <1>5 DEF Good, h

LEMMA GoodForms ==
  ASSUME NEW pm \in Modes, NEW m \in Modes, NEW a \in AgeType, NEW s \in AgeType,
         NEW t \in Int, t # BadTime
  PROVE  /\ Good(NotStored, pm, m, a, s)
         /\ m # "NoStore" /\ pm # "NoStore" => Good(NotCached, pm, m, a, s)
         /\ m # "NoStore" => Good(Directives({"private", "no-cache"}, Unknown, Unknown, PastTime), pm, m, a, s)
         /\ m \in {"CanCache", "Unspecified"} =>
              Good(Directives({"private"}, a, Unknown, PastTime), pm, m, a, s)
         /\ m = "MustRevalidate" /\ a > 0 =>
              Good(Directives({"private", "must-revalidate"}, a, Unknown, PastTime), pm, m, a, s)
         /\ m \in {"CanCache", "MustRevalidate"} /\ a # 0 /\ (m = "MustRevalidate" => a # Unknown) /\ pm # "NoStore" =>
              Good(Directives({"must-revalidate"}, a, 0, PastTime), pm, m, a, s)
         /\ m = "NoCache" /\ Rank(pm) <= 2 => \A c \in Nat : s = Unknown \/ c <= s =>
              Good(Directives({"must-revalidate"}, 0, c, PastTime), pm, m, a, s)
         /\ m \in {"MustRevalidate", "Unspecified"} /\ Rank(pm) <= 2 =>
              Good(BothAges("must-revalidate", a, s, t), pm, m, a, s)
         /\ m = "CanCache" /\ Rank(pm) <= 2 => Good(BothAges("proxy-revalidate", a, s, t), pm, m, a, s)
         /\ m \in {"CanCache", "Unspecified"} /\ Rank(pm) <= 1 => Good(BothAges("public", a, s, t), pm, m, a, s)
<1>0. /\ Unknown \in AgeType /\ 0 \in AgeType /\ Unknown = -1 /\ PastTime # BadTime
      /\ Rank(pm) \in 1..4 /\ Rank(m) \in 1..4
      /\ "NoStore" \in Modes /\ "NoCache" \in Modes /\ "MustRevalidate" \in Modes
      /\ "CanCache" \in Modes /\ "Unspecified" \in Modes
      /\ a \in Int /\ s \in Int /\ a >= -1 /\ s >= -1
  BY Ranks DEF AgeType, Unknown, PastTime, BadTime, Modes
<1>c. \A n : /\ AtOnce("NoStore", n) = "NoStore" /\ AtOnce("NoCache", n) = "NoCache"
             /\ AtOnce("CanCache", n) = "CanCache" /\ AtOnce("Unspecified", n) = "Unspecified"
             /\ n # 0 => AtOnce("MustRevalidate", n) = "MustRevalidate"
             /\ AtOnce("MustRevalidate", 0) = "NoCache"
  BY DEF AtOnce
<1>1. Good(NotStored, pm, m, a, s)
  <2>1. GoodBy("NoStore", "NoStore", "NoStore", "NoStore", Unknown, Unknown, pm, m, a, s)
    BY <1>0, Ranks DEF GoodBy, Modes
  <2>2. SharedAge(Unknown, Unknown) = Unknown
    BY <1>0 DEF SharedAge
  <2>3. Good(Directives({"no-store"}, Unknown, Unknown, PastTime), pm, m, a, s)
    BY <1>0, <1>c, <2>1, <2>2, FlagsParsed, FlagsTold, GoodParts
  <2> QED
    BY <2>3 DEF NotStored
<1>2. ASSUME m # "NoStore", pm # "NoStore"
      PROVE  Good(NotCached, pm, m, a, s)
  <2>1. GoodBy("NoStore", "NoCache", "NoCache", "NoCache", Unknown, Unknown, pm, m, a, s)
    BY <1>0, Ranks, <1>2 DEF GoodBy, Modes
  <2>2. SharedAge(Unknown, Unknown) = Unknown
    BY <1>0 DEF SharedAge
  <2>3. Good(Directives({"no-cache"}, Unknown, Unknown, PastTime), pm, m, a, s)
    BY <1>0, <1>c, <1>2, <2>1, <2>2, FlagsParsed, FlagsTold, GoodParts
  <2> QED
    BY <2>3 DEF NotCached
<1>3. ASSUME m # "NoStore"
      PROVE  Good(Directives({"private", "no-cache"}, Unknown, Unknown, PastTime), pm, m, a, s)
  <2>1. GoodBy("NoStore", "NoCache", "NoStore", "NoCache", Unknown, Unknown, pm, m, a, s)
    BY <1>0, Ranks, <1>3 DEF GoodBy, Modes
  <2>2. SharedAge(Unknown, Unknown) = Unknown
    BY <1>0 DEF SharedAge
  <2>3. Good(Directives({"private", "no-cache"}, Unknown, Unknown, PastTime), pm, m, a, s)
    BY <1>0, <1>c, <1>3, <2>1, <2>2, FlagsParsed, FlagsTold, GoodParts
  <2> QED
    BY <2>3
<1>4. ASSUME m \in {"CanCache", "Unspecified"}
      PROVE  Good(Directives({"private"}, a, Unknown, PastTime), pm, m, a, s)
  <2>1. GoodBy("NoStore", "Unspecified", "NoStore", "Unspecified", a, a, pm, m, a, s)
    BY <1>0, Ranks, <1>4 DEF GoodBy, Modes
  <2>2. SharedAge(a, Unknown) = a
    BY <1>0 DEF SharedAge
  <2>3. Good(Directives({"private"}, a, Unknown, PastTime), pm, m, a, s)
    BY <1>0, <1>c, <1>4, <2>1, <2>2, FlagsParsed, FlagsTold, GoodParts
  <2> QED
    BY <2>3
<1>5. ASSUME m = "MustRevalidate", a > 0
      PROVE  Good(Directives({"private", "must-revalidate"}, a, Unknown, PastTime), pm, m, a, s)
  <2>1. GoodBy("NoStore", "MustRevalidate", "NoStore", "MustRevalidate", a, a, pm, m, a, s)
    BY <1>0, Ranks, <1>5 DEF GoodBy, Modes
  <2>2. SharedAge(a, Unknown) = a
    BY <1>0 DEF SharedAge
  <2>3. Good(Directives({"private", "must-revalidate"}, a, Unknown, PastTime), pm, m, a, s)
    BY <1>0, <1>c, <1>5, <2>1, <2>2, FlagsParsed, FlagsTold, GoodParts
  <2> QED
    BY <2>3
<1>6. ASSUME m \in {"CanCache", "MustRevalidate"}, a # 0, m = "MustRevalidate" => a # Unknown, pm # "NoStore"
      PROVE  Good(Directives({"must-revalidate"}, a, 0, PastTime), pm, m, a, s)
  <2>1. GoodBy("NoStore", "MustRevalidate", "NoCache", "MustRevalidate", a, 0, pm, m, a, s)
    BY <1>0, Ranks, <1>6 DEF GoodBy, Modes
  <2>2. SharedAge(a, 0) = 0
    BY <1>0 DEF SharedAge
  <2>3. Good(Directives({"must-revalidate"}, a, 0, PastTime), pm, m, a, s)
    BY <1>0, <1>c, <1>6, <2>1, <2>2, FlagsParsed, FlagsTold, GoodParts
  <2> QED
    BY <2>3
<1>7. ASSUME m = "NoCache", Rank(pm) <= 2, NEW n \in Nat, s = Unknown \/ n <= s
      PROVE  Good(Directives({"must-revalidate"}, 0, n, PastTime), pm, m, a, s)
  <2>0. n \in AgeType /\ n # Unknown /\ AtOnce("MustRevalidate", n) \in {"MustRevalidate", "NoCache"}
    BY DEF AgeType, Unknown, AtOnce
  <2>1. GoodBy("NoStore", "NoCache", AtOnce("MustRevalidate", n), "NoCache", 0, n, pm, m, a, s)
    BY <1>0, Ranks, <2>0, <1>7 DEF GoodBy, Modes
  <2>2. SharedAge(0, n) = n
    BY <1>0, <2>0 DEF SharedAge
  <2>3. Good(Directives({"must-revalidate"}, 0, n, PastTime), pm, m, a, s)
    BY <1>0, <1>c, <2>0, <1>7, <2>1, <2>2, FlagsParsed, FlagsTold, GoodParts
  <2> QED
    BY <2>3
<1>8. LET b == Seconds(a)
          c == IF a = s THEN Unknown ELSE Seconds(s)
          x == IF c # Unknown THEN c ELSE b
      IN  /\ b \in Nat /\ b \in AgeType /\ c \in AgeType /\ x \in Nat /\ x \in AgeType
          /\ s = Unknown \/ x <= s
          /\ a = Unknown \/ b <= a
          /\ \A f : BothAges(f, a, s, t) = Directives({f}, b, c, t)
  BY <1>0 DEF Seconds, AgeType, BothAges
<1> DEFINE b == Seconds(a)
           c == IF a = s THEN Unknown ELSE Seconds(s)
           x == IF c # Unknown THEN c ELSE b
<1>9. /\ b \in Nat /\ b \in AgeType /\ c \in AgeType /\ x \in Nat /\ x \in AgeType /\ b # Unknown /\ x # Unknown
      /\ s = Unknown \/ (x # Unknown /\ x <= s)
      /\ a = Unknown \/ (b # Unknown /\ b <= a)
      /\ \A f : BothAges(f, a, s, t) = Directives({f}, b, c, t)
      /\ x = IF c # Unknown THEN c ELSE b
      /\ AtOnce("MustRevalidate", x) \in {"MustRevalidate", "NoCache"}
      /\ AtOnce("MustRevalidate", b) \in {"MustRevalidate", "NoCache"}
  BY <1>8, <1>0 DEF AtOnce
<1> HIDE DEF b, c, x
<1>10. ASSUME m \in {"MustRevalidate", "Unspecified"}, Rank(pm) <= 2
      PROVE  Good(BothAges("must-revalidate", a, s, t), pm, m, a, s)
  <2>1. GoodBy("NoStore", AtOnce("MustRevalidate", b), AtOnce("MustRevalidate", x), AtOnce("MustRevalidate", b), b, x, pm, m, a, s)
    BY <1>0, Ranks, <1>10, <1>9 DEF GoodBy, Modes
  <2>2. SharedAge(b, c) = x
    BY <1>0, <1>9 DEF SharedAge, x
  <2>3. Good(Directives({"must-revalidate"}, b, c, t), pm, m, a, s)
    BY <1>0, <1>c, <1>10, <1>9, <2>1, <2>2, FlagsParsed, FlagsTold, GoodParts
  <2> QED
    BY <2>3, <1>9
<1>11. ASSUME m = "CanCache", Rank(pm) <= 2
      PROVE  Good(BothAges("proxy-revalidate", a, s, t), pm, m, a, s)
  <2>1. GoodBy("MustRevalidate", "Unspecified", AtOnce("MustRevalidate", x), "Unspecified", b, x, pm, m, a, s)
    BY <1>0, Ranks, <1>11, <1>9 DEF GoodBy, Modes
  <2>2. SharedAge(b, c) = x
    BY <1>0, <1>9 DEF SharedAge, x
  <2>3. Good(Directives({"proxy-revalidate"}, b, c, t), pm, m, a, s)
    BY <1>0, <1>c, <1>11, <1>9, <2>1, <2>2, FlagsParsed, FlagsTold, GoodParts
  <2> QED
    BY <2>3, <1>9
<1>12. ASSUME m \in {"CanCache", "Unspecified"}, Rank(pm) <= 1
      PROVE  Good(BothAges("public", a, s, t), pm, m, a, s)
  <2>1. GoodBy("CanCache", "CanCache", "CanCache", "Unspecified", b, x, pm, m, a, s)
    BY <1>0, Ranks, <1>12, <1>9 DEF GoodBy, Modes
  <2>2. SharedAge(b, c) = x
    BY <1>0, <1>9 DEF SharedAge, x
  <2>3. Good(Directives({"public"}, b, c, t), pm, m, a, s)
    BY <1>0, <1>c, <1>12, <1>9, <2>1, <2>2, FlagsParsed, FlagsTold, GoodParts
  <2> QED
    BY <2>3, <1>9
<1> QED
  BY <1>1, <1>2, <1>3, <1>4, <1>5, <1>6, <1>7, <1>10, <1>11, <1>12

(* headers1 writes such a header for all settings that it can express.      *)
LEMMA ExpressedGood ==
  ASSUME NEW pm \in Modes, NEW m \in Modes, NEW a \in AgeType, NEW s \in AgeType,
         NEW t \in Int, t # BadTime, pm # "Unspecified",
         m = "MustRevalidate" /\ pm \in {"NoCache", "NoStore"} => a # Unknown,
         m = "NoCache" /\ pm = "MustRevalidate" => s # Unknown
  PROVE  Good(HeaderOf(pm, m, a, s, t), pm, m, a, s)
<1> DEFINE G(h) == Good(h, pm, m, a, s)
<1>0. /\ a \in Int /\ s \in Int /\ Unknown = -1 /\ a >= -1 /\ s >= -1 /\ 0 \in AgeType
      /\ Seconds(s) \in Nat /\ (s = Unknown \/ Seconds(s) <= s)
  BY DEF AgeType, Unknown, Seconds
<1>1. CASE pm = "NoStore"
  <2>1. HeaderOf(pm, m, a, s, t) = PrivateOnly(m, a)
    BY <1>1 DEF HeaderOf
  <2>2. G(PrivateOnly(m, a))
    <3>1. CASE m \in {"CanCache", "Unspecified"}
      BY <3>1, GoodForms DEF PrivateOnly
    <3>2. CASE m = "MustRevalidate" /\ a > 0
      BY <1>0, <3>2, GoodForms DEF PrivateOnly
    <3>3. CASE m = "MustRevalidate" /\ a = 0
      BY <1>0, <3>3, GoodForms DEF PrivateOnly
    <3>4. CASE m = "NoCache"
      BY <3>4, GoodForms DEF PrivateOnly
    <3>5. CASE m = "NoStore"
      BY <3>5, GoodForms DEF PrivateOnly
    <3>6. m = "MustRevalidate" => a > 0 \/ a = 0
      BY <1>0, <1>1
    <3> QED
      BY <3>1, <3>2, <3>3, <3>4, <3>5, <3>6 DEF Modes
  <2> QED
    BY <2>1, <2>2
<1>2. CASE pm = "NoCache"
  <2>1. HeaderOf(pm, m, a, s, t) = PublicNoCache(m, a)
    BY <1>2 DEF HeaderOf
  <2>2. G(PublicNoCache(m, a))
    <3>1. CASE m \in {"CanCache", "MustRevalidate"} /\ a # 0
      BY <1>2, <3>1, GoodForms DEF PublicNoCache
    <3>2. CASE m \in {"CanCache", "MustRevalidate"} /\ a = 0
      BY <1>2, <3>2, GoodForms DEF PublicNoCache
    <3>3. CASE m = "NoStore"
      BY <3>3, GoodForms DEF PublicNoCache
    <3>4. CASE m \in {"NoCache", "Unspecified"}
      BY <1>2, <3>4, GoodForms DEF PublicNoCache
    <3> QED
      BY <3>1, <3>2, <3>3, <3>4 DEF Modes
  <2> QED
    BY <2>1, <2>2
<1>3. CASE pm = "MustRevalidate"
  <2>1. HeaderOf(pm, m, a, s, t) = PublicMustRevalidate(m, a, s, t) /\ Rank(pm) <= 2 /\ pm # "NoStore"
    BY <1>3, Ranks DEF HeaderOf
  <2>2. G(PublicMustRevalidate(m, a, s, t))
    <3>1. CASE m = "CanCache"
      BY <2>1, <3>1, GoodForms DEF PublicMustRevalidate
    <3>2. CASE m \in {"MustRevalidate", "Unspecified"}
      BY <2>1, <3>2, GoodForms DEF PublicMustRevalidate
    <3>3. CASE m = "NoCache" /\ s > 0
      <4>1. PublicMustRevalidate(m, a, s, t) = Directives({"must-revalidate"}, 0, s, PastTime) /\ s \in Nat /\ s <= s
        BY <1>0, <3>3 DEF PublicMustRevalidate
      <4> QED
        BY <2>1, <3>3, <4>1, GoodForms
    <3>4. CASE m = "NoCache" /\ s = 0
      BY <1>0, <2>1, <3>4, GoodForms DEF PublicMustRevalidate
    <3>5. CASE m = "NoStore"
      BY <3>5, GoodForms DEF PublicMustRevalidate
    <3>6. m = "NoCache" => s > 0 \/ s = 0
      BY <1>0, <1>3
    <3> QED
      BY <3>1, <3>2, <3>3, <3>4, <3>5, <3>6 DEF Modes
  <2> QED
    BY <2>1, <2>2
<1>4. CASE pm = "CanCache"
  <2>1. HeaderOf(pm, m, a, s, t) = PublicCanCache(m, a, s, t) /\ Rank(pm) <= 1 /\ Rank(pm) <= 2
    BY <1>4, Ranks DEF HeaderOf
  <2>2. G(PublicCanCache(m, a, s, t))
    <3>1. CASE m \in {"CanCache", "Unspecified"}
      BY <2>1, <3>1, GoodForms DEF PublicCanCache
    <3>2. CASE m = "MustRevalidate"
      BY <2>1, <3>2, GoodForms DEF PublicCanCache
    <3>3. CASE m = "NoCache"
      BY <1>0, <2>1, <3>3, GoodForms DEF PublicCanCache
    <3>4. CASE m = "NoStore"
      BY <3>4, GoodForms DEF PublicCanCache
    <3> QED
      BY <3>1, <3>2, <3>3, <3>4 DEF Modes
  <2> QED
    BY <2>1, <2>2
<1> QED
  BY <1>1, <1>2, <1>3, <1>4 DEF Modes

(* Formatting settings that keep what was asked for gives headers that do.  *)
LEMMA FormatCarries ==
  ASSUME NEW ask \in Asks, NEW w \in Asks, Kept(w, ask),
         NEW t \in Int, t # BadTime, NEW h,
         h = HeaderOf(w.public.mode, w.private.mode, w.private.age, w.public.age, t)
  PROVE  h.expires # BadTime /\ Kept(HeaderView(h), ask) /\ NoLooser(WireView(h, NoLine), ask)
<1>1. /\ w.public.mode \in Modes /\ w.private.mode \in Modes
      /\ w.public.age \in AgeType /\ w.private.age \in AgeType
      /\ ask.public \in AskType /\ ask.private \in AskType
  BY DEF Asks, AskType
<1>2. CASE w.public.mode = "NoStore" /\ w.private.mode = "MustRevalidate" /\ w.private.age = Unknown
  <2>0. "Unspecified" \in Modes /\ "NoStore" \in Modes /\ Unknown \in AgeType /\ Unknown # 0 /\ PastTime # BadTime
    BY DEF Modes, AgeType, Unknown, PastTime, BadTime
  <2>1. h = Directives({"private"}, Unknown, Unknown, PastTime)
    BY <1>2 DEF HeaderOf, PrivateOnly, Unknown
  <2>2. /\ HeaderView(h) = [public |-> Ask("NoStore", Unknown, FALSE), private |-> Ask("Unspecified", Unknown, FALSE)]
        /\ WireView(h, NoLine) = [public |-> Ask("NoStore", Unknown, FALSE), private |-> Ask("Unspecified", Unknown, FALSE)]
    <3>1. /\ AtOnce("NoStore", Unknown) = "NoStore" /\ AtOnce("Unspecified", Unknown) = "Unspecified"
      BY DEF AtOnce
    <3> DEFINE F == {"private"}
    <3>2. h = Directives(F, Unknown, Unknown, PastTime)
      BY <2>1
    <3>3. /\ ParsedPublic(F) = "NoStore" /\ AtOnce(ParsedPrivate(F), Unknown) = "Unspecified"
          /\ AtOnce(PublicTold(F), Unknown) = "NoStore" /\ AtOnce(StrictMode(F), Unknown) = "Unspecified"
      BY <3>1, FlagsParsed, FlagsTold
    <3> HIDE DEF F
    <3>4. /\ HeaderView(h) = [public |-> Ask(ParsedPublic(F), Unknown, FALSE),
                              private |-> Ask(AtOnce(ParsedPrivate(F), Unknown), Unknown, FALSE)]
          /\ WireView(h, NoLine) = [public |-> Ask(AtOnce(PublicTold(F), Unknown), Unknown, FALSE),
                                    private |-> Ask(AtOnce(StrictMode(F), Unknown), Unknown, FALSE)]
      <4>1. Unknown \in AgeType /\ SharedAge(Unknown, Unknown) = Unknown
        BY <2>0 DEF SharedAge
      <4> QED
        BY <3>2, <4>1, DirectiveViews
    <3> QED
      BY <3>3, <3>4
  <2>3. h.expires # BadTime
    BY <2>0, <2>1 DEF Directives
  <2>4. NotLooser("Unspecified", Unknown, ask.private) /\ NotLooser(w.public.mode, w.public.age, ask.public)
    BY <1>2 DEF Kept, NoLooser
  <2>5. NotLooser("NoStore", Unknown, ask.public)
    BY <1>1, <1>2, <2>0, <2>4, Ranks, TighterStill
  <2> QED
    BY <2>2, <2>3, <2>4, <2>5 DEF Kept, NoLooser, Ask
<1>3. CASE ~(w.public.mode = "NoStore" /\ w.private.mode = "MustRevalidate" /\ w.private.age = Unknown)
  <2> DEFINE v == HeaderView(h)
             u == WireView(h, NoLine)
  <2>1. Good(h, w.public.mode, w.private.mode, w.private.age, w.public.age)
    BY <1>1, <1>3, ExpressedGood DEF Kept
  <2>2. /\ h.expires # BadTime
        /\ Tight(v, w.public.mode, w.private.mode, w.private.age, w.public.age) /\ Form(v, w.private.mode, w.private.age)
        /\ Tight(u, w.public.mode, w.private.mode, w.private.age, w.public.age)
    BY <2>1 DEF Good
  <2> HIDE DEF v, u
  <2>3. NotLooser(w.public.mode, w.public.age, ask.public) /\ NotLooser(w.private.mode, w.private.age, ask.private)
    BY DEF Kept, NoLooser
  <2>4. \A z : Tight(z, w.public.mode, w.private.mode, w.private.age, w.public.age) => NoLooser(z, ask)
    BY <1>1, <2>3, TighterStill DEF Tight, NoLooser
  <2>5. ASSUME w.private.mode = "CanCache", w.private.age = Unknown
        PROVE  NotLooser("Unspecified", Unknown, ask.private)
    <3>1. "Unspecified" \in Modes /\ Unknown \in AgeType
      BY DEF Modes, AgeType
    <3> QED
      BY <1>1, <2>3, <2>5, <3>1, Ranks, TighterStill
  <2>6. Kept(v, ask)
    BY <2>2, <2>4, <2>5 DEF Form, Kept
  <2> QED
    BY <2>2, <2>4, <2>6 DEF v, u
<1> QED
  BY <1>2, <1>3

(* The header that settings give at this moment.                            *)
LEMMA HeaderNow ==
  ASSUME now \in Nat, NEW r \in SettingsType
  PROVE  LET w == SettingsNow(r) IN
         /\ w \in Asks
         /\ \E t \in Int :
              /\ t # BadTime
              /\ Headers1(r) = HeaderOf(w.public.mode, w.private.mode, w.private.age, w.public.age, t)
<1> DEFINE pub == r.PublicExpiry
           t == TimeOf(AgeOf(pub), WithBoth(pub).expires)
           w == SettingsNow(r)
<1>1. WithBoth(pub) \in ExpiryType /\ AgeOf(pub) \in AgeType /\ AgeOf(r.PrivateExpiry) \in AgeType
  BY ExpiryTyped DEF SettingsType
<1>2. t \in Int /\ t # BadTime
  BY <1>1 DEF TimeOf, ExpiryType, NoTime, ZeroTime, PastTime, BadTime
<1>3. Headers1(r) = HeaderOf(r.PublicMode, r.PrivateMode, AgeOf(r.PrivateExpiry), AgeOf(pub), t)
  BY DEF Headers1, HeaderOf, TimeOf
<1>4. /\ w.public.mode = r.PublicMode /\ w.private.mode = r.PrivateMode
      /\ w.public.age = AgeOf(pub) /\ w.private.age = AgeOf(r.PrivateExpiry)
  BY DEF SettingsNow, Ask
<1>5. w \in Asks
  BY <1>1 DEF SettingsNow, Ask, Asks, AskType, SettingsType
<1> QED
  BY <1>2, <1>3, <1>4, <1>5

(* Reading an age or a time changes neither at that moment.                 *)
LEMMA AgesKept ==
  ASSUME now \in Nat, NEW x \in ExpiryType,
         NEW y \in {x, WithMaxAge(x), WithExpires(x), WithBoth(x)}
  PROVE  /\ AgeOf(y) = AgeOf(x)
         /\ x.kind # "expires" => y.kind # "expires"
         /\ \A b : TimedWell(x, b) => TimedWell(y, b)
<1>1. \A z \in ExpiryType : AgeOf(WithExpires(z)) = AgeOf(z) /\ (z.kind # "expires" => WithExpires(z).kind # "expires")
  BY DEF AgeOf, WithMaxAge, WithExpires, BothFromMaxAge, ExpiryType
<1>2. AgeOf(WithMaxAge(x)) = AgeOf(x) /\ WithMaxAge(x).kind # "expires" /\ WithMaxAge(x) \in ExpiryType
  BY ExpiryTyped DEF AgeOf
<1>3. AgeOf(WithBoth(x)) = AgeOf(x) /\ WithBoth(x).kind # "expires"
  BY <1>1, <1>2 DEF WithBoth
<1>4. \A b : \A z \in ExpiryType : TimedWell(z, b) => TimedWell(WithExpires(z), b)
  <2> SUFFICES ASSUME NEW b, NEW z \in ExpiryType, TimedWell(z, b) PROVE TimedWell(WithExpires(z), b)
    OBVIOUS
  <2>1. CASE z.kind = "maxAge"
    <3>1. ~b
      BY <2>1 DEF TimedWell
    <3> QED
      BY <1>1, <2>1, <3>1 DEF TimedWell
  <2>2. CASE z.kind # "maxAge"
    BY <2>2 DEF WithExpires
  <2> QED
    BY <2>1, <2>2
<1>5. \A b : TimedWell(x, b) => TimedWell(WithMaxAge(x), b)
  <2> SUFFICES ASSUME NEW b, TimedWell(x, b) PROVE TimedWell(WithMaxAge(x), b)
    OBVIOUS
  <2>1. CASE x.kind = "expires"
    <3>1. b
      BY <2>1 DEF TimedWell
    <3>2. WithMaxAge(x) = [x EXCEPT !.kind = "both", !.maxAge = IF now > x.expires THEN now - x.expires ELSE 0]
      BY <2>1 DEF WithMaxAge, BothFromExpires
    <3>3. /\ WithMaxAge(x).kind = "both" /\ WithMaxAge(x).expires = x.expires
          /\ WithMaxAge(x).maxAge = IF now > x.expires THEN now - x.expires ELSE 0
          /\ x.expires \in Int
      BY <3>2 DEF ExpiryType, ZeroTime, PastTime
    <3> HIDE DEF WithMaxAge
    <3> QED
      BY <3>1, <3>3 DEF TimedWell, Unknown
  <2>2. CASE x.kind # "expires"
    BY <2>2 DEF WithMaxAge
  <2> QED
    BY <2>1, <2>2
<1>6. \A b : TimedWell(x, b) => TimedWell(WithBoth(x), b)
  BY <1>2, <1>4, <1>5 DEF WithBoth
<1> QED
  BY <1>1, <1>2, <1>3, <1>4, <1>5, <1>6

(* What is written for an expiry is no looser than what was meant by it.    *)
LEMMA MeantWell ==
  ASSUME now \in Nat, NEW m \in Modes, NEW x \in ExpiryType, NEW b, TimedWell(x, b)
  PROVE  /\ NotLooser(m, AgeOf(x), Meant(m, x, b)) /\ Meant(m, x, b).mode = m
         /\ AgeOf(x) = Unknown => Meant(m, x, b).age = Unknown
<1> DEFINE ask == Meant(m, x, b)
<1>0. ask \in AskType /\ AgeOf(x) \in AgeType
  BY MeantTyped, ExpiryTyped
<1>1. ask \in AskType /\ AgeOf(x) \in AgeType /\ x.expires \in Int /\ x.maxAge \in AgeType
  BY <1>0 DEF ExpiryType, ZeroTime, PastTime
<1>2. Rank(m) \in Nat
  BY Ranks
<1>3. CASE ~b
  <2>1. ask = Ask(m, x.maxAge, FALSE) /\ AgeOf(x) = x.maxAge
    BY <1>3, ExpiryTyped DEF Meant, TimedWell
  <2>2. ask.mode = m /\ ask.age = x.maxAge
    BY <2>1 DEF Ask
  <2> HIDE DEF ask
  <2>3. NotLooser(m, AgeOf(x), ask)
    <3>1. Rank(m) >= Rank(ask.mode)
      BY <1>2, <2>2
    <3>2. ask.age = Unknown \/ (AgeOf(x) # Unknown /\ AgeOf(x) <= ask.age)
      <4>1. ask.age = AgeOf(x)
        BY <2>1, <2>2
      <4>2. AgeOf(x) = Unknown \/ AgeOf(x) \in Nat
        BY <1>1 DEF AgeType
      <4> QED
        BY <4>1, <4>2 DEF Unknown
    <3> QED
      BY <1>1, <3>1, <3>2, Tighter
  <2> QED
    BY <2>1, <2>2, <2>3 DEF ask
<1>4. CASE b
  <2>1. ask = Ask(m, IF x.expires > now THEN x.expires - now ELSE 0, x.expires < now)
    BY <1>4 DEF Meant
  <2>2. ask.mode = m /\ ask.age = (IF x.expires > now THEN x.expires - now ELSE 0) /\ ask.late = (x.expires < now)
    BY <2>1 DEF Ask
  <2>3. AgeOf(x) # Unknown /\ (AgeOf(x) = 0 \/ x.expires < now)
    <3>1. CASE x.kind = "expires"
      <4>1. AgeOf(x) = IF now > x.expires THEN now - x.expires ELSE 0
        BY <3>1 DEF AgeOf, WithMaxAge, BothFromExpires, ExpiryType
      <4> QED
        BY <1>1, <4>1 DEF Unknown
    <3>2. CASE x.kind = "both"
      <4>1. AgeOf(x) = x.maxAge
        BY <3>2, ExpiryTyped
      <4> QED
        BY <1>4, <3>2, <4>1 DEF TimedWell
    <3> QED
      BY <1>4, <3>1, <3>2 DEF TimedWell
  <2> HIDE DEF ask
  <2>4. ask.late \/ AgeOf(x) <= ask.age
    <3>1. CASE x.expires < now
      BY <2>2, <3>1
    <3>2. CASE ~(x.expires < now)
      BY <1>1, <2>2, <2>3, <3>2
    <3> QED
      BY <3>1, <3>2
  <2>5. NotLooser(m, AgeOf(x), ask)
    BY <1>1, <1>2, <2>2, <2>3, <2>4, Tighter
  <2> QED
    BY <2>2, <2>3, <2>5 DEF ask
<1> QED
  BY <1>3, <1>4

(* What was meant, if the headers can say it, is what the settings keep.    *)
LEMMA MeantKept ==
  ASSUME now \in Nat, NEW r \in SettingsType, NEW b1, NEW b2,
         TimedWell(r.PublicExpiry, b1), TimedWell(r.PrivateExpiry, b2),
         NEW ask, ask = [public |-> Meant(r.PublicMode, r.PublicExpiry, b1),
                         private |-> Meant(r.PrivateMode, r.PrivateExpiry, b2)],
         Expressible(ask)
  PROVE  Kept(SettingsNow(r), ask)
<1>1. r.PublicMode \in Modes /\ r.PrivateMode \in Modes /\ r.PublicExpiry \in ExpiryType /\ r.PrivateExpiry \in ExpiryType
  BY DEF SettingsType
<1>2. /\ NotLooser(r.PublicMode, AgeOf(r.PublicExpiry), ask.public) /\ ask.public.mode = r.PublicMode
      /\ AgeOf(r.PublicExpiry) = Unknown => ask.public.age = Unknown
  BY <1>1, MeantWell
<1>3. /\ NotLooser(r.PrivateMode, AgeOf(r.PrivateExpiry), ask.private) /\ ask.private.mode = r.PrivateMode
      /\ AgeOf(r.PrivateExpiry) = Unknown => ask.private.age = Unknown
  BY <1>1, MeantWell
<1>4. LET w == SettingsNow(r) IN
      /\ w.public.mode = r.PublicMode /\ w.private.mode = r.PrivateMode
      /\ w.public.age = AgeOf(r.PublicExpiry) /\ w.private.age = AgeOf(r.PrivateExpiry)
  BY DEF SettingsNow, Ask
<1> QED
  BY <1>2, <1>3, <1>4 DEF Kept, NoLooser, Expressible

(* Where the age was late, another one is no looser.                        *)
LEMMA LateKept ==
  ASSUME NEW ask \in Asks, ask.private.late, NEW v, Kept(v, ask), NEW w,
         w.public = v.public, w.private.mode = v.private.mode, w.private.age \in Nat
  PROVE  Kept(w, ask)
<1>1. NotLooser(w.private.mode, w.private.age, ask.private)
  BY DEF NotLooser, Kept, NoLooser
<1>2. w.private.age # Unknown
  BY DEF Unknown
<1> QED
  BY <1>1, <1>2 DEF Kept, NoLooser

(* The expiries of a header: an age, or a date that does not parse.         *)
LEMMA ParsedTimed ==
  ASSUME now \in Nat, NEW h \in HeaderType
  PROVE  /\ TimedWell(Parsed(h).PublicExpiry, FALSE)
         /\ TimedWell(Parsed(h).PrivateExpiry, Parsed(h).PrivateExpiry.kind # "none" /\ h.age = Unknown)
<1> DEFINE pri == ParsedPrivateExpiry(h)
           p == Parsed(h).PrivateExpiry
<1>1. p \in {pri, WithMaxAge(pri)}
  BY DEF Parsed, DoExpiryStuff
<1>2. TimedWell(Parsed(h).PublicExpiry, FALSE)
  BY ParsedView DEF TimedWell
<1>3. pri \in ExpiryType
  <2>1. /\ \A d \in AgeType : MaxAgeOnly(d) \in ExpiryType
        /\ NoExpiry \in ExpiryType /\ ExpiresOnly(ZeroTime) \in ExpiryType
    BY DEF MaxAgeOnly, NoExpiry, ExpiresOnly, ExpiryType, AgeType
  <2> QED
    BY <2>1 DEF ParsedPrivateExpiry, HeaderType
<1>4. CASE h.age = Unknown /\ h.expires = BadTime
  <2>1. pri = ExpiresOnly(ZeroTime)
    BY <1>4 DEF ParsedPrivateExpiry
  <2>2. TimedWell(pri, TRUE)
    BY <2>1 DEF TimedWell, ExpiresOnly
  <2>3. TimedWell(p, TRUE)
    BY <1>1, <1>3, <2>2, AgesKept
  <2>4. p.kind # "none"
    BY <2>3 DEF TimedWell
  <2> QED
    BY <1>2, <1>4, <2>3, <2>4 DEF TimedWell
<1>5. CASE ~(h.age = Unknown /\ h.expires = BadTime)
  <2>1. pri.kind # "expires" /\ (h.age = Unknown => pri.kind = "none")
    BY <1>5 DEF ParsedPrivateExpiry, MaxAgeOnly, NoExpiry
  <2>2. p = pri
    BY <1>1, <1>3, <2>1, ExpiryTyped
  <2> QED
    BY <1>2, <2>1, <2>2 DEF TimedWell
<1> QED
  BY <1>4, <1>5

LEMMA TimedKept ==
  ASSUME ResponseTypes, TimedInv, [ExchangeNext]_<<side, reqVars, responseVars>>
  PROVE  TimedInv'
<1>0. now \in Nat /\ rcc \in SettingsType /\ header \in HeaderType
  BY DEF ResponseTypes
<1>x. rcc.PublicExpiry \in ExpiryType /\ rcc.PrivateExpiry \in ExpiryType
  BY <1>0 DEF SettingsType
<1>t. /\ TimedWell(rcc.PublicExpiry, "public" \in timed)
      /\ TimedWell(rcc.PrivateExpiry, "private" \in timed)
  BY DEF TimedInv
<1>1. SUFFICES ASSUME UNCHANGED now, ~UNCHANGED <<rcc, timed>>,
                      NEW p, NEW q, p = rcc'.PublicExpiry, q = rcc'.PrivateExpiry
               PROVE  TimedWell(p, "public" \in timed') /\ TimedWell(q, "private" \in timed')
  <2>1. CASE Tick
    <3>1. now' = now + 1 /\ UNCHANGED <<rcc, timed>>
      BY <2>1 DEF Tick
    <3>2. rcc.PublicExpiry.expires \in Int /\ rcc.PrivateExpiry.expires \in Int
      BY <1>x DEF ExpiryType, ZeroTime, PastTime
    <3>3. (rcc.PublicExpiry.expires < now => rcc.PublicExpiry.expires < now') /\ (rcc.PrivateExpiry.expires < now => rcc.PrivateExpiry.expires < now')
      BY <1>0, <3>1, <3>2
    <3> QED
      BY <1>t, <3>1, <3>3, Zenon DEF TimedInv, TimedWell
  <2>2. CASE UNCHANGED now /\ UNCHANGED <<rcc, timed>>
    BY <2>2 DEF TimedInv, TimedWell
  <2>3. CASE UNCHANGED now /\ ~UNCHANGED <<rcc, timed>>
    BY <2>3 DEF TimedInv, TimedWell
  <2>4. Tick \/ UNCHANGED now
    BY DEF ExchangeNext, Respond, ResponseStep, responseVars, GetCacheControl, GetExpiry, FormatCacheControl,
      DiscardCacheControl, SetCacheMode, SetCacheMaxAge, SetCacheExpires, Set
  <2> QED
    BY <2>1, <2>2, <2>3, <2>4
<1>2. CASE GetCacheControl
  <2>1. CASE rcc' = Parsed(header)
    <3>1. timed' = IF q.kind # "none" /\ header.age = Unknown THEN {"private"} ELSE {}
      BY <1>1, <1>2 DEF GetCacheControl
    <3>2. p = Parsed(header).PublicExpiry /\ q = Parsed(header).PrivateExpiry
      BY <1>1, <2>1
    <3>3. TimedWell(p, FALSE) /\ TimedWell(q, q.kind # "none" /\ header.age = Unknown)
      BY <1>0, <3>2, ParsedTimed
    <3>4. "public" \notin timed' /\ ("private" \in timed' <=> q.kind # "none" /\ header.age = Unknown)
      BY <3>1
    <3> QED
      BY <3>3, <3>4 DEF TimedWell
  <2>2. CASE rcc' = NoSettings
    <3>1. p = NoExpiry /\ q = NoExpiry
      BY <1>1, <2>2 DEF NoSettings
    <3>2. timed' = {}
      BY <1>2, <2>2 DEF GetCacheControl, NoSettings, NoExpiry
    <3> QED
      BY <3>1, <3>2 DEF TimedWell, NoExpiry
  <2> QED
    BY <1>2, <2>1, <2>2 DEF GetCacheControl
<1>3. CASE GetExpiry \/ (FormatCacheControl /\ rcc' = Fixed(rcc))
  <2>1. timed' = timed
    BY <1>3 DEF GetExpiry, FormatCacheControl
  <2>2. /\ p \in {rcc.PublicExpiry, WithMaxAge(rcc.PublicExpiry), WithExpires(rcc.PublicExpiry), WithBoth(rcc.PublicExpiry)}
        /\ q \in {rcc.PrivateExpiry, WithMaxAge(rcc.PrivateExpiry), WithExpires(rcc.PrivateExpiry)}
    <3>1. CASE GetExpiry
      BY <1>0, <1>1, <3>1 DEF GetExpiry, SettingsType
    <3>2. CASE rcc' = Fixed(rcc)
      BY <1>0, <1>1, <3>2 DEF Fixed, SettingsType
    <3> QED
      BY <1>3, <3>1, <3>2
  <2>3. /\ p \in {rcc.PublicExpiry, WithMaxAge(rcc.PublicExpiry), WithExpires(rcc.PublicExpiry), WithBoth(rcc.PublicExpiry)}
        /\ q \in {rcc.PrivateExpiry, WithMaxAge(rcc.PrivateExpiry), WithExpires(rcc.PrivateExpiry), WithBoth(rcc.PrivateExpiry)}
    BY <2>2
  <2> QED
    BY <1>0, <1>x, <1>t, <2>1, <2>3, AgesKept
<1>4. CASE DiscardCacheControl
  <2>1. p = NoExpiry /\ q = NoExpiry /\ timed' = {}
    BY <1>1, <1>4 DEF DiscardCacheControl, NoSettings
  <2> QED
    BY <2>1 DEF TimedWell, NoExpiry
<1>5. ASSUME NEW m \in Modes, SetCacheMode(m)
      PROVE  TimedWell(p, "public" \in timed') /\ TimedWell(q, "private" \in timed')
  <2>1. p = rcc.PublicExpiry /\ q = rcc.PrivateExpiry /\ timed' = timed
    BY <1>0, <1>1, <1>5 DEF SetCacheMode, Set, SettingsType
  <2> QED
    BY <1>t, <2>1
<1>6. ASSUME NEW d \in Ages, SetCacheMaxAge(d)
      PROVE  TimedWell(p, "public" \in timed') /\ TimedWell(q, "private" \in timed')
  <2>1. TimedWell(MaxAgeOnly(d), FALSE)
    BY DEF TimedWell, MaxAgeOnly
  <2>2. CASE Set([rcc EXCEPT !.PublicExpiry = MaxAgeOnly(d)], timed \ {"public"})
    <3>1. p = MaxAgeOnly(d) /\ q = rcc.PrivateExpiry /\ timed' = timed \ {"public"}
      BY <1>0, <1>1, <2>2 DEF Set, SettingsType
    <3>2. "public" \notin timed' /\ ("private" \in timed' <=> "private" \in timed)
      BY <3>1
    <3> QED
      BY <1>t, <2>1, <3>1, <3>2 DEF TimedWell
  <2>3. CASE Set([rcc EXCEPT !.PrivateExpiry = MaxAgeOnly(d)], timed \ {"private"})
    <3>1. q = MaxAgeOnly(d) /\ p = rcc.PublicExpiry /\ timed' = timed \ {"private"}
      BY <1>0, <1>1, <2>3 DEF Set, SettingsType
    <3>2. "private" \notin timed' /\ ("public" \in timed' <=> "public" \in timed)
      BY <3>1
    <3> QED
      BY <1>t, <2>1, <3>1, <3>2 DEF TimedWell
  <2>4. CASE Set([rcc EXCEPT !.PublicExpiry = MaxAgeOnly(d), !.PrivateExpiry = MaxAgeOnly(d)], {})
    <3>1. p = MaxAgeOnly(d) /\ q = MaxAgeOnly(d) /\ timed' = {}
      BY <1>0, <1>1, <2>4 DEF Set, SettingsType
    <3> QED
      BY <2>1, <3>1 DEF TimedWell
  <2> QED
    BY <1>6, <2>2, <2>3, <2>4 DEF SetCacheMaxAge
<1>7. ASSUME NEW t \in 0..MaxNow, SetCacheExpires(t)
      PROVE  TimedWell(p, "public" \in timed') /\ TimedWell(q, "private" \in timed')
  <2>1. TimedWell(ExpiresOnly(t), TRUE)
    BY DEF TimedWell, ExpiresOnly
  <2>2. CASE Set([rcc EXCEPT !.PublicExpiry = ExpiresOnly(t)], timed \union {"public"})
    <3>1. p = ExpiresOnly(t) /\ q = rcc.PrivateExpiry /\ timed' = timed \union {"public"}
      BY <1>0, <1>1, <2>2 DEF Set, SettingsType
    <3>2. "public" \in timed' /\ ("private" \in timed' <=> "private" \in timed)
      BY <3>1
    <3> QED
      BY <1>t, <2>1, <3>1, <3>2 DEF TimedWell
  <2>3. CASE Set([rcc EXCEPT !.PrivateExpiry = ExpiresOnly(t)], timed \union {"private"})
    <3>1. q = ExpiresOnly(t) /\ p = rcc.PublicExpiry /\ timed' = timed \union {"private"}
      BY <1>0, <1>1, <2>3 DEF Set, SettingsType
    <3>2. "private" \in timed' /\ ("public" \in timed' <=> "public" \in timed)
      BY <3>1
    <3> QED
      BY <1>t, <2>1, <3>1, <3>2 DEF TimedWell
  <2>4. CASE Set([rcc EXCEPT !.PublicExpiry = ExpiresOnly(t), !.PrivateExpiry = ExpiresOnly(t)], {"public", "private"})
    <3>1. p = ExpiresOnly(t) /\ q = ExpiresOnly(t) /\ timed' = {"public", "private"}
      BY <1>0, <1>1, <2>4 DEF Set, SettingsType
    <3> QED
      BY <2>1, <3>1 DEF TimedWell
  <2> QED
    BY <1>7, <2>2, <2>3, <2>4 DEF SetCacheExpires
<1>8. CASE ResponseStep
  <2>1. ~Tick
    BY <1>0, <1>1 DEF Tick
  <2>2. FormatCacheControl => rcc' = Fixed(rcc)
    BY <1>1 DEF FormatCacheControl
  <2> QED
    BY <1>2, <1>3, <1>4, <1>5, <1>6, <1>7, <1>8, <2>1, <2>2 DEF ResponseStep
<1>9. CASE UNCHANGED <<rcc, timed>>
  BY <1>1, <1>9
<1> QED
  BY <1>8, <1>9 DEF ExchangeNext, Respond, responseVars

(* What a handler writes itself carries what it says.                       *)
LEMMA WrittenCarries ==
  ASSUME NEW h \in ResponseHeaders, NEW l \in ResponseLines,
         l = NoLine \/ (h.flags = {} /\ h.age = Unknown),
         Expressible(Told(h, l))
  PROVE  /\ NoLooser(WireView(h, l), Told(h, l))
         /\ \/ /\ Kept(HeaderView(h), Told(h, l))
               /\ h.age = Unknown /\ h.expires = BadTime => Told(h, l).private.late
            \/ Bare(h) /\ l # NoLine
<1> DEFINE ask == Told(h, l)
           F == h.flags \union l.front
           a == ToldAge(h, l)
<1>0. h \in HeaderType /\ l \in LineType /\ h.sAge = Unknown
  BY WrittenTyped DEF ResponseHeaders
<1>1. ask \in Asks /\ a \in AgeType
  BY <1>0, ToldTyped
<1>2. /\ ask.public.mode = PublicTold(F) /\ ask.public.age = a
      /\ ask.private.mode = StrictMode(F) /\ ask.private.age = a
      /\ ask.private.late = (a = Unknown /\ h.expires = BadTime)
  BY <1>0 DEF Told, Ask, PublicTold, ToldFlags
<1>3. /\ WireView(h, l).public.mode = AtOnce(PublicTold(F), a) /\ WireView(h, l).public.age = a
      /\ WireView(h, l).private.mode = AtOnce(StrictMode(F), a) /\ WireView(h, l).private.age = a
  BY <1>0, WireParts
<1>4. /\ PublicTold(F) \in Modes /\ StrictMode(F) \in Modes
      /\ AtOnce(PublicTold(F), a) \in Modes /\ AtOnce(StrictMode(F), a) \in Modes
      /\ ask.public \in AskType /\ ask.private \in AskType
  BY <1>1, ToldModes DEF Asks
<1> HIDE DEF ask, F, a
<1>5. a = Unknown \/ (a # Unknown /\ a <= a)
  BY <1>1 DEF AgeType, Unknown
<1>6. /\ Rank(AtOnce(PublicTold(F), a)) >= Rank(PublicTold(F))
      /\ Rank(AtOnce(StrictMode(F), a)) >= Rank(StrictMode(F))
  BY <1>4, Ranks DEF AtOnce
<1>7. NoLooser(WireView(h, l), ask)
  BY <1>1, <1>2, <1>3, <1>4, <1>5, <1>6, Tighter DEF NoLooser
<1>8. CASE l # NoLine
  BY <1>0, <1>7, <1>8 DEF Bare, ask
<1>9. CASE l = NoLine
  <2>1. F = h.flags /\ a = h.age
    BY <1>0, <1>9 DEF F, a, NoLine, ToldAge, Unknown, Quoted
  <2>2. ask.public.mode # "Unspecified" /\ (ask.private.mode = "MustRevalidate" => a # Unknown)
    BY <1>2 DEF Expressible, ask
  <2>3. F \in {{"private"}, {"must-revalidate"}, {"public", "proxy-revalidate"}}
    <3>1. PublicTold({}) = "Unspecified"
      BY DEF PublicTold
    <3>2. F \in {{}, {"private"}, {"must-revalidate"}, {"public", "proxy-revalidate"}}
      BY <2>1 DEF ResponseHeaders
    <3> QED
      BY <1>2, <2>2, <3>1, <3>2
  <2>4. /\ ParsedPublic(F) \in Modes /\ AtOnce(ParsedPrivate(F), a) \in Modes
        /\ Rank(ParsedPublic(F)) >= Rank(PublicTold(F))
        /\ Rank(AtOnce(ParsedPrivate(F), a)) >= Rank(StrictMode(F))
        /\ ParsedPublic(F) # "Unspecified"
        /\ ParsedPublic(F) = "MustRevalidate" => AtOnce(ParsedPrivate(F), a) # "NoCache"
        /\ AtOnce(ParsedPrivate(F), a) = "MustRevalidate" => StrictMode(F) = "MustRevalidate"
    <3>0. /\ "NoStore" \in Modes /\ "NoCache" \in Modes /\ "MustRevalidate" \in Modes
          /\ "CanCache" \in Modes /\ "Unspecified" \in Modes
      BY DEF Modes
    <3>1. CASE F = {"private"}
      BY <3>0, <3>1, FlagsParsed, FlagsTold, Ranks DEF AtOnce
    <3>2. CASE F = {"must-revalidate"}
      BY <3>0, <3>2, FlagsParsed, FlagsTold, Ranks DEF AtOnce
    <3>3. CASE F = {"public", "proxy-revalidate"}
      <4>1. ParsedPublic(F) = "MustRevalidate" /\ ParsedPrivate(F) = "CanCache" /\ StrictMode(F) = "Unspecified"
        BY <3>3 DEF ParsedPublic, ParsedPrivate, StrictMode
      <4>2. PublicTold(F) = "MustRevalidate"
        BY <3>3 DEF PublicTold
      <4> QED
        BY <3>0, <4>1, <4>2, Ranks DEF AtOnce
    <3> QED
      BY <2>3, <3>1, <3>2, <3>3
  <2>5. /\ HeaderView(h).public.mode = ParsedPublic(F) /\ HeaderView(h).public.age = a
        /\ HeaderView(h).private.mode = AtOnce(ParsedPrivate(F), a) /\ HeaderView(h).private.age = a
    BY <1>0, <2>1 DEF HeaderView, Ask, AtOnce
  <2>6. NoLooser(HeaderView(h), ask)
    BY <1>1, <1>2, <1>4, <1>5, <2>4, <2>5, Tighter DEF NoLooser
  <2>7. Kept(HeaderView(h), ask)
    BY <1>2, <2>2, <2>4, <2>5, <2>6 DEF Kept
  <2> QED
    BY <1>2, <1>7, <2>1, <2>7 DEF ask
<1> QED
  BY <1>8, <1>9

(* First use: the settings that are parsed carry what the headers do.       *)
LEMMA ParsingCarries ==
  ASSUME now \in Nat, header \in HeaderType, asked \in Asks, line \in LineType,
         Expressible(asked), HeadersCarry, GetCacheControl
  PROVE  SettingsCarry'
<1>1. /\ rcc' = IF HasDirectives(header, line) THEN Parsed(header) ELSE NoSettings
      /\ extra' = line /\ now' = now /\ asked' = asked /\ header' = header /\ line' = line
  BY DEF GetCacheControl
<1>2. CASE Bare(header) /\ line # NoLine
  <2>1. rcc' = Parsed(header)
    BY <1>1, <1>2 DEF HasDirectives
  <2>2. rcc'.PublicMode = "Unspecified"
    <3>1. SettingsNow(Parsed(header)).public = HeaderView(header).public
      BY ParsedView
    <3>2. HeaderView(header).public.mode = "Unspecified"
      BY <1>2 DEF HeaderView, Ask, Bare, ParsedPublic, StrictMode
    <3> QED
      BY <2>1, <3>1, <3>2 DEF SettingsNow, Ask
  <2>3. NoLooser(WireView(NoHeader, line), asked)
    <3>1. header.flags = NoHeader.flags /\ header.sAge = NoHeader.sAge /\ header.age = NoHeader.age
      BY <1>2 DEF Bare, NoHeader
    <3>2. ToldAge(NoHeader, line) = ToldAge(header, line)
      BY <3>1 DEF ToldAge
    <3>3. /\ WireView(NoHeader, line).public.mode = WireView(header, line).public.mode
          /\ WireView(NoHeader, line).public.age = WireView(header, line).public.age
          /\ WireView(NoHeader, line).private.mode = WireView(header, line).private.mode
          /\ WireView(NoHeader, line).private.age = WireView(header, line).private.age
      BY <3>1, <3>2, WireParts
    <3> QED
      BY <3>3 DEF HeadersCarry, NoLooser
  <2>4. NoLooser(WireView(NoHeader, extra'), asked')
    BY <1>1, <2>3
  <2> QED
    BY <1>1, <1>2, <2>2, <2>4 DEF SettingsCarry
<1>3. CASE /\ Kept(HeaderView(header), asked)
           /\ header.age = Unknown /\ header.expires = BadTime => asked.private.late
  <2>1. header.flags # {}
    <3>1. HeaderView(header).public.mode # "Unspecified"
      BY <1>3 DEF Kept
    <3>2. ParsedPublic({}) = "Unspecified"
      BY DEF ParsedPublic, StrictMode
    <3> QED
      BY <3>1, <3>2 DEF HeaderView, Ask
  <2>2. rcc' = Parsed(header)
    BY <1>1, <2>1 DEF HasDirectives
  <2> DEFINE w == SettingsNow(Parsed(header))
  <2>3. SettingsNow(rcc)' = w
    BY <1>1, <2>2 DEF SettingsNow, AgeOf, WithMaxAge, BothFromExpires
  <2>4. CASE header.age = Unknown /\ header.expires = BadTime
    <3>1. /\ Parsed(header).PublicExpiry.kind # "expires"
          /\ w.public = HeaderView(header).public
          /\ w.private.mode = HeaderView(header).private.mode /\ w.private.age \in Nat
      BY <2>4, ParsedView
    <3>2. asked.private.late
      BY <1>3, <2>4
    <3> HIDE DEF w
    <3>3. Kept(w, asked)
      BY <1>3, <3>1, <3>2, LateKept
    <3>4. rcc'.PublicExpiry.kind # "expires" /\ asked'.private.late
      BY <1>1, <2>2, <3>1, <3>2
    <3>5. Kept(SettingsNow(rcc)', asked')
      BY <1>1, <2>3, <3>3
    <3> QED
      BY <3>4, <3>5 DEF SettingsCarry
  <2>5. CASE ~(header.age = Unknown /\ header.expires = BadTime)
    <3>1. /\ Parsed(header).PublicExpiry.kind # "expires" /\ Parsed(header).PrivateExpiry.kind # "expires"
          /\ w.public = HeaderView(header).public /\ w.private = HeaderView(header).private
      BY <2>5, ParsedView
    <3> HIDE DEF w
    <3>2. Kept(w, asked)
      BY <1>3, <3>1 DEF Kept, NoLooser
    <3>3. rcc'.PublicExpiry.kind # "expires" /\ rcc'.PrivateExpiry.kind # "expires"
      BY <2>2, <3>1
    <3>4. Kept(SettingsNow(rcc)', asked')
      BY <1>1, <2>3, <3>2
    <3> QED
      BY <3>3, <3>4 DEF SettingsCarry
  <2> QED
    BY <2>4, <2>5
<1> QED
  BY <1>2, <1>3 DEF HeadersCarry

(* Reading ages and times, and the time that passes, change nothing.        *)
LEMMA ReadingCarries ==
  ASSUME now \in Nat, rcc \in SettingsType, asked \in Asks, SettingsCarry,
         UNCHANGED <<extra, asked>>,
         \/ GetExpiry \/ (rcc' = Fixed(rcc) /\ UNCHANGED now)
         \/ (rcc' = rcc /\ now' \in Nat)
  PROVE  SettingsCarry'
<1>0. rcc.PublicExpiry \in ExpiryType /\ rcc.PrivateExpiry \in ExpiryType
  BY DEF SettingsType
<1>1. CASE GetExpiry \/ (rcc' = Fixed(rcc) /\ UNCHANGED now)
  <2>1. /\ rcc'.PublicMode = rcc.PublicMode /\ rcc'.PrivateMode = rcc.PrivateMode /\ now' = now
        /\ rcc'.PublicExpiry \in {rcc.PublicExpiry, WithMaxAge(rcc.PublicExpiry), WithExpires(rcc.PublicExpiry), WithBoth(rcc.PublicExpiry)}
        /\ rcc'.PrivateExpiry \in {rcc.PrivateExpiry, WithMaxAge(rcc.PrivateExpiry), WithExpires(rcc.PrivateExpiry), WithBoth(rcc.PrivateExpiry)}
    <3>1. CASE GetExpiry
      BY <3>1 DEF GetExpiry, SettingsType
    <3>2. CASE rcc' = Fixed(rcc) /\ UNCHANGED now
      BY <3>2 DEF Fixed, SettingsType
    <3> QED
      BY <1>1, <3>1, <3>2
  <2>2. /\ AgeOf(rcc'.PublicExpiry) = AgeOf(rcc.PublicExpiry)
        /\ AgeOf(rcc'.PrivateExpiry) = AgeOf(rcc.PrivateExpiry)
        /\ rcc.PublicExpiry.kind # "expires" => rcc'.PublicExpiry.kind # "expires"
        /\ rcc.PrivateExpiry.kind # "expires" => rcc'.PrivateExpiry.kind # "expires"
    BY <1>0, <2>1, AgesKept
  <2>3. SettingsNow(rcc)' = SettingsNow(rcc)
    <3>1. SettingsNow(rcc)' = SettingsNow(rcc')
      BY <2>1 DEF SettingsNow, AgeOf, WithMaxAge, BothFromExpires
    <3>2. SettingsNow(rcc') = SettingsNow(rcc)
      BY <2>1, <2>2 DEF SettingsNow
    <3> QED
      BY <3>1, <3>2
  <2>4. CASE /\ Kept(SettingsNow(rcc), asked) /\ rcc.PublicExpiry.kind # "expires"
             /\ rcc.PrivateExpiry.kind = "expires" => asked.private.late
    <3>1. Kept(SettingsNow(rcc)', asked')
      BY <2>3, <2>4
    <3> QED
      BY <2>2, <2>4, <3>1 DEF SettingsCarry
  <2>5. CASE /\ rcc.PublicMode = "Unspecified" /\ extra # NoLine
             /\ NoLooser(WireView(NoHeader, extra), asked)
    <3>1. NoLooser(WireView(NoHeader, extra'), asked')
      BY <2>5
    <3> QED
      BY <2>1, <2>5, <3>1 DEF SettingsCarry
  <2> QED
    BY <2>4, <2>5 DEF SettingsCarry
<1>2. CASE rcc' = rcc /\ now' \in Nat
  <2>1. CASE /\ Kept(SettingsNow(rcc), asked) /\ rcc.PublicExpiry.kind # "expires"
             /\ rcc.PrivateExpiry.kind = "expires" => asked.private.late
    <3> DEFINE v == SettingsNow(rcc)
               w == SettingsNow(rcc)'
    <3>1. /\ w.public.mode = rcc.PublicMode /\ w.private.mode = rcc.PrivateMode
          /\ v.public.mode = rcc.PublicMode /\ v.private.mode = rcc.PrivateMode
          /\ w.public.age = AgeOf(rcc.PublicExpiry)' /\ w.private.age = AgeOf(rcc.PrivateExpiry)'
          /\ v.public.age = AgeOf(rcc.PublicExpiry) /\ v.private.age = AgeOf(rcc.PrivateExpiry)
          /\ w.public = Ask(rcc.PublicMode, AgeOf(rcc.PublicExpiry)', FALSE)
          /\ v.public = Ask(rcc.PublicMode, AgeOf(rcc.PublicExpiry), FALSE)
      BY <1>2 DEF SettingsNow, Ask
    <3>2. \A x \in ExpiryType : x.kind # "expires" => AgeOf(x) = x.maxAge
      BY DEF AgeOf, WithMaxAge
    <3>3. AgeOf(rcc.PublicExpiry)' = AgeOf(rcc.PublicExpiry)
      BY <1>0, <1>2, <2>1 DEF AgeOf, WithMaxAge
    <3> HIDE DEF v, w
    <3>4. CASE rcc.PrivateExpiry.kind = "expires"
      <4>1. AgeOf(rcc.PrivateExpiry)' = IF now' > rcc.PrivateExpiry.expires THEN now' - rcc.PrivateExpiry.expires ELSE 0
        BY <1>0, <1>2, <3>4 DEF AgeOf, WithMaxAge, BothFromExpires, ExpiryType
      <4>2. rcc.PrivateExpiry.expires \in Int
        BY <1>0 DEF ExpiryType, ZeroTime, PastTime
      <4>3. w.private.age \in Nat
        BY <1>2, <3>1, <4>1, <4>2
      <4>4. w.public = v.public /\ w.private.mode = v.private.mode
        BY <3>1, <3>3
      <4>5. Kept(w, asked)
        BY <2>1, <3>4, <4>3, <4>4, LateKept DEF v
      <4>6. Kept(SettingsNow(rcc)', asked')
        BY <4>5 DEF w
      <4> QED
        BY <1>2, <2>1, <4>6 DEF SettingsCarry
    <3>5. CASE rcc.PrivateExpiry.kind # "expires"
      <4>1. AgeOf(rcc.PrivateExpiry)' = AgeOf(rcc.PrivateExpiry)
        BY <1>0, <1>2, <3>5 DEF AgeOf, WithMaxAge
      <4>2. Kept(w, asked)
        BY <2>1, <3>1, <3>3, <4>1 DEF Kept, NoLooser, v
      <4>3. Kept(SettingsNow(rcc)', asked')
        BY <4>2 DEF w
      <4> QED
        BY <1>2, <2>1, <4>3 DEF SettingsCarry
    <3> QED
      BY <3>4, <3>5
  <2>2. CASE /\ rcc.PublicMode = "Unspecified" /\ extra # NoLine
             /\ NoLooser(WireView(NoHeader, extra), asked)
    <3>1. NoLooser(WireView(NoHeader, extra'), asked')
      BY <2>2
    <3> QED
      BY <1>2, <2>2, <3>1 DEF SettingsCarry
  <2> QED
    BY <2>1, <2>2 DEF SettingsCarry
<1> QED
  BY <1>1, <1>2

(* Formatting settings that carry what was asked for.                       *)
LEMMA FormattingCarries ==
  ASSUME now \in Nat, rcc \in SettingsType, extra \in LineType, NEW ask \in Asks,
         NEW h, NEW l, h = Headers1(rcc), l = ExtraString(extra),
         \/ Kept(SettingsNow(rcc), ask)
         \/ /\ rcc.PublicMode = "Unspecified" /\ extra # NoLine
            /\ NoLooser(WireView(NoHeader, extra), ask)
  PROVE  /\ NoLooser(WireView(h, l), ask)
         /\ \/ Kept(HeaderView(h), ask) /\ h.expires # BadTime
            \/ Bare(h) /\ l # NoLine
<1>0. l \in LineType
  BY LineTyped
<1>1. CASE Kept(SettingsNow(rcc), ask)
  <2> DEFINE w == SettingsNow(rcc)
  <2>1. w \in Asks
    BY HeaderNow
  <2>2. PICK t \in Int :
          /\ t # BadTime
          /\ h = HeaderOf(w.public.mode, w.private.mode, w.private.age, w.public.age, t)
    BY HeaderNow
  <2>3. h \in HeaderType
    <3>1. w.public.age \in AgeType /\ w.private.age \in AgeType
      BY <2>1 DEF Asks, AskType
    <3> QED
      BY <2>2, <3>1, HeaderTyped
  <2> HIDE DEF w
  <2>4. h.expires # BadTime /\ Kept(HeaderView(h), ask) /\ NoLooser(WireView(h, NoLine), ask)
    BY <1>1, <2>1, <2>2, FormatCarries DEF w
  <2>5. NoLooser(WireView(h, l), ask)
    BY <1>0, <2>3, <2>4, LineTightens
  <2> QED
    BY <2>4, <2>5
<1>2. CASE /\ rcc.PublicMode = "Unspecified" /\ extra # NoLine
           /\ NoLooser(WireView(NoHeader, extra), ask)
  <2>1. h = NoHeader
    BY <1>2 DEF Headers1
  <2>2. NoLooser(WireView(h, l), ask)
    BY <1>2, <2>1, QuotesTighten
  <2>3. Bare(h)
    BY <2>1 DEF Bare, NoHeader
  <2>4. l # NoLine
    <3>1. CASE l = extra
      BY <1>2, <3>1
    <3>2. CASE l # extra
      <4>1. l.age = Quoted
        BY <3>2 DEF ExtraString, LineType
      <4> QED
        BY <4>1 DEF NoLine, Quoted, Unknown
    <3> QED
      BY <3>1, <3>2
  <2> QED
    BY <2>2, <2>3, <2>4
<1> QED
  BY <1>1, <1>2

LEMMA CarryKept ==
  ASSUME ResponseTypes, TimedInv, CarryInv, [ExchangeNext]_<<side, reqVars, responseVars>>
  PROVE  CarryInv'
<1>0. /\ now \in Nat /\ header \in HeaderType /\ rcc \in SettingsType
      /\ line \in LineType /\ extra \in LineType /\ asked \in Asks
  BY DEF ResponseTypes
<1>a. ~Expressible(NothingAsked)
  BY DEF Expressible, NothingAsked, Ask
<1>1. CASE UNCHANGED responseVars
  BY <1>1 DEF responseVars, CarryInv, HeadersCarry, SettingsCarry, SettingsNow, AgeOf, WithMaxAge, BothFromExpires
<1>2. CASE side = "request" /\ Respond
  <2>1. /\ received' /\ ~hasCacheControl' /\ asked' = Told(header', line')
        /\ header' \in ResponseHeaders /\ line' \in ResponseLines
        /\ line' = NoLine \/ (header'.flags = {} /\ header'.age = Unknown)
    BY <1>2 DEF Respond, ResponseTypes
  <2>2. ASSUME Expressible(asked') PROVE HeadersCarry'
    BY <2>1, <2>2, WrittenCarries DEF HeadersCarry
  <2> QED
    BY <2>1, <2>2 DEF CarryInv
<1>3. CASE GetCacheControl
  <2>1. ~hasCacheControl /\ ~formatted' /\ UNCHANGED <<header, line, received, asked>>
    BY <1>3 DEF GetCacheControl
  <2>2. HeadersCarry' <=> HeadersCarry
    BY <2>1 DEF HeadersCarry
  <2>3. ASSUME Expressible(asked), received PROVE SettingsCarry'
    <3>1. HeadersCarry
      BY <2>3 DEF CarryInv
    <3> QED
      BY <1>0, <1>3, <2>3, <3>1, ParsingCarries
  <2> QED
    BY <2>1, <2>2, <2>3 DEF CarryInv
<1>4. CASE GetExpiry \/ Tick
  <2>1. UNCHANGED <<header, line, extra, received, asked, formatted, hasCacheControl>>
    BY <1>4 DEF GetExpiry, Tick
  <2>2. GetExpiry \/ (rcc' = rcc /\ now' \in Nat)
    BY <1>0, <1>4 DEF Tick
  <2>3. HeadersCarry' <=> HeadersCarry
    BY <2>1 DEF HeadersCarry
  <2>4. SettingsCarry => SettingsCarry'
    BY <1>0, <2>1, <2>2, ReadingCarries
  <2> QED
    BY <2>1, <2>3, <2>4 DEF CarryInv
<1>5. CASE FormatCacheControl /\ hasCacheControl
  <2>1. /\ header' = Headers1(rcc) /\ line' = ExtraString(extra) /\ rcc' = Fixed(rcc) /\ formatted'
        /\ UNCHANGED <<hasCacheControl, extra, now, received>>
    BY <1>5 DEF FormatCacheControl
  <2>2. CASE received
    <3>1. asked' = asked
      BY <1>5, <2>2 DEF FormatCacheControl
    <3> SUFFICES ASSUME Expressible(asked) PROVE HeadersCarry' /\ SettingsCarry'
      BY <2>1, <2>2, <3>1 DEF CarryInv
    <3>2. SettingsCarry
      BY <1>5, <2>2 DEF CarryInv
    <3>3. SettingsCarry'
      BY <1>0, <2>1, <3>1, <3>2, ReadingCarries
    <3>4. \/ Kept(SettingsNow(rcc), asked)
          \/ /\ rcc.PublicMode = "Unspecified" /\ extra # NoLine
             /\ NoLooser(WireView(NoHeader, extra), asked)
      BY <3>2 DEF SettingsCarry
    <3>5. HeadersCarry'
      <4>1. /\ NoLooser(WireView(header', line'), asked)
            /\ \/ Kept(HeaderView(header'), asked) /\ header'.expires # BadTime
               \/ Bare(header') /\ line' # NoLine
        BY <1>0, <2>1, <3>4, FormattingCarries
      <4> QED
        BY <3>1, <4>1 DEF HeadersCarry
    <3> QED
      BY <3>3, <3>5
  <2>3. CASE ~received
    <3> SUFFICES ASSUME Expressible(asked') PROVE HeadersCarry'
      BY <1>5, <2>1, <2>3 DEF CarryInv
    <3>1. asked' = [public |-> Meant(rcc.PublicMode, rcc.PublicExpiry, "public" \in timed),
                    private |-> Meant(rcc.PrivateMode, rcc.PrivateExpiry, "private" \in timed)]
      BY <1>5, <2>3 DEF FormatCacheControl
    <3>2. asked' \in Asks
      <4>1. /\ Meant(rcc.PublicMode, rcc.PublicExpiry, "public" \in timed) \in AskType
            /\ Meant(rcc.PrivateMode, rcc.PrivateExpiry, "private" \in timed) \in AskType
        BY <1>0, MeantTyped DEF SettingsType
      <4> QED
        BY <3>1, <4>1 DEF Asks
    <3>3. Kept(SettingsNow(rcc), asked')
      BY <1>0, <3>1, MeantKept DEF TimedInv
    <3>4. /\ NoLooser(WireView(header', line'), asked')
          /\ \/ Kept(HeaderView(header'), asked') /\ header'.expires # BadTime
             \/ Bare(header') /\ line' # NoLine
      BY <1>0, <2>1, <3>2, <3>3, FormattingCarries
    <3> QED
      BY <3>4 DEF HeadersCarry
  <2> QED
    BY <2>2, <2>3
<1>6. CASE FormatCacheControl /\ ~hasCacheControl
  <2>1. UNCHANGED <<header, line, rcc, asked, hasCacheControl, extra, now, received>>
    BY <1>6 DEF FormatCacheControl
  <2>2. HeadersCarry' <=> HeadersCarry
    BY <2>1 DEF HeadersCarry
  <2> QED
    BY <1>6, <2>1, <2>2 DEF CarryInv
<1>7. CASE DiscardCacheControl
  <2>1. /\ ~hasCacheControl' /\ ~formatted' /\ (received' <=> received \/ formatted)
        /\ UNCHANGED <<header, line, asked>>
    BY <1>7 DEF DiscardCacheControl
  <2>2. HeadersCarry' <=> HeadersCarry
    BY <2>1 DEF HeadersCarry
  <2> QED
    BY <2>1, <2>2 DEF CarryInv
<1>8. ASSUME NEW r, NEW u, Set(r, u) PROVE CarryInv'
  BY <1>8, <1>a DEF Set, CarryInv
<1>9. ASSUME NEW m, SetCacheMode(m) PROVE CarryInv'
  BY <1>8, <1>9 DEF SetCacheMode
<1>10. ASSUME NEW d, SetCacheMaxAge(d) PROVE CarryInv'
  BY <1>8, <1>10 DEF SetCacheMaxAge
<1>11. ASSUME NEW t, SetCacheExpires(t) PROVE CarryInv'
  BY <1>8, <1>11 DEF SetCacheExpires
<1>12. CASE ResponseStep
  BY <1>3, <1>4, <1>5, <1>6, <1>7, <1>9, <1>10, <1>11, <1>12 DEF ResponseStep
<1> QED
  BY <1>1, <1>2, <1>12 DEF ExchangeNext

(* However often the headers of a response are formatted, discarded and     *)
(* parsed again, no cache is told that it may do more, or keep the response *)
(* longer, than the handler said in the headers it wrote or in the settings *)
(* it made, and once the headers have been written and parsed the program   *)
(* does not believe so either, as long as nothing is set: for any ages, any *)
(* modes and any clock, with the exceptions that NeverLoosened names.       *)
THEOREM NothingLoosened == ExchangeSpec => []NeverLoosened
<1> DEFINE Inv == ResponseTypes /\ StableInv /\ TimedInv /\ CarryInv
<1>1. ExchangeInit => Inv
  <2> SUFFICES ASSUME ExchangeInit PROVE Inv
    OBVIOUS
  <2>1. rcc = NoSettings /\ timed = {} /\ asked = NothingAsked
    BY DEF ExchangeInit, ResponseInit
  <2>2. ~Expressible(asked)
    BY <2>1 DEF Expressible, NothingAsked, Ask
  <2>3. TimedInv
    BY <2>1 DEF TimedInv, TimedWell, NoSettings, NoExpiry
  <2> QED
    BY <2>2, <2>3, ResponseStart DEF CarryInv
<1>2. Inv /\ [ExchangeNext]_<<side, reqVars, responseVars>> => Inv'
  BY ExchangeKept, TimedKept, CarryKept
<1>3. Inv => NeverLoosened
  <2> SUFFICES ASSUME Inv, Expressible(asked) PROVE NeverLoosened
    BY DEF NeverLoosened
  <2>1. ASSUME formatted
        PROVE  LET told == Told(header, line) IN
               /\ NotLooser(OnWire(told.public), told.public.age, asked.public)
               /\ NotLooser(OnWire(told.private), told.private.age, asked.private)
    <3>1. NoLooser(WireView(header, line), asked)
      BY <2>1 DEF CarryInv, HeadersCarry
    <3> QED
      BY <3>1 DEF NoLooser, WireView, Ask
  <2>2. ASSUME hasCacheControl, received, extra = NoLine
        PROVE  /\ NotLooser(rcc.PublicMode, AgeOf(rcc.PublicExpiry), asked.public)
               /\ NotLooser(rcc.PrivateMode, AgeOf(rcc.PrivateExpiry), asked.private)
    <3>1. NoLooser(SettingsNow(rcc), asked)
      BY <2>2 DEF CarryInv, SettingsCarry, Kept
    <3> QED
      BY <3>1 DEF NoLooser, SettingsNow, Ask
  <2> QED
    BY <2>1, <2>2 DEF NeverLoosened
<1> QED
  BY <1>1, <1>2, <1>3, PTL DEF ExchangeSpec

------------------------------------------------------------------------------
(* The ranges: what the four functions keep from step to step.  TidyRanges  *)
(* sorts by insertion and merges what overlaps or touches, so that a byte   *)
(* is never lost and what the merge has passed is sorted and disjoint;      *)
(* Ranges and SetRanges go through a header spec by spec.                   *)

RangeType == [Start : Int, End : Int]
SpecKinds == {"both", "from", "last", "bad", "huge"}
SpecType == [kind : SpecKinds, a : Nat, b : Nat]

(* The loop counters stay within what they count through.                   *)
RangeTypes ==
  /\ entry \in {"TidyRanges", "MergeRanges", "Ranges", "SetRanges"}
  /\ pc \in {"sort", "head", "merge", "done", "parse", "format", "panic"}
  /\ input \in Seq(RangeType) /\ rs \in Seq(RangeType) /\ specs \in Seq(SpecType)
  /\ i \in Nat /\ i >= 1 /\ j \in Nat
  /\ pc = "sort" => i >= 2 /\ j < i /\ (i > Len(rs) => j + 1 = i)
  /\ pc = "merge" => i >= 2
  /\ pc = "parse" => i <= Len(specs)
  /\ pc \in {"sort", "head", "merge"} => entry # "SetRanges" /\ err = "nil"
  /\ pc = "sort" => entry # "MergeRanges"
  /\ pc = "parse" => entry = "Ranges" /\ err = "nil"
  /\ pc = "format" => entry = "SetRanges"

(* Where a range of the sort stands among those that are in order.          *)
SortInv ==
  pc = "sort" =>
    /\ \A a, b \in 1..Len(rs) :
         a < b /\ b <= i /\ a # j + 1 /\ b # j + 1 => rs[a].Start <= rs[b].Start
    /\ \A b \in 1..Len(rs) : j + 1 < b /\ b <= i => rs[j + 1].Start <= rs[b].Start

InOrder(s) == \A a, b \in 1..Len(s) : a < b => s[a].Start <= s[b].Start
AllAbsolute(s) == \A k \in 1..Len(s) : IsAbsolute(s[k])

(* What MergeRanges may rely on.                                            *)
MergeInv ==
  /\ pc \in {"head", "merge"} /\ entry # "MergeRanges" => InOrder(rs)
  /\ pc # "parse" /\ AbsoluteInput => AllAbsolute(rs)

(* No byte is lost, whoever called.                                         *)
CoverInv ==
  pc # "parse" /\ (entry = "MergeRanges" => AbsoluteInput) =>
    \A size \in Sizes : Covered(rs, size) = Covered(input, size)

(* What the merge has passed is as it will be returned.                     *)
Tidied(s, n) ==
  \A a, b \in 1..Len(s) :
    a < n /\ b < n => (a < b => s[a].End < s[b].Start) /\ s[a].Start <= s[a].End
TidyInv ==
  entry = "TidyRanges" /\ AbsoluteInput =>
    /\ pc = "merge" => Tidied(rs, i)
    /\ pc = "done" => Tidied(rs, Len(rs) + 1)

(* The ranges parsed so far are those of the specs.                         *)
ParseInv ==
  pc = "parse" =>
    /\ input = <<>> /\ Len(rs) = i - 1
    /\ get /\ unit = "bytes" =>
         \A k \in 1..(i - 1) : /\ specs[k].kind \in {"both", "from", "last"}
                               /\ rs[k] = ParsedRange(specs[k])

(* What was parsed means what the header says, nothing if it is ignored.    *)
MeansInv ==
  pc # "parse" /\ entry = "Ranges" =>
    /\ ~(get /\ unit = "bytes") => input = <<>>
    /\ /\ get /\ unit = "bytes"
       /\ \A k \in 1..Len(specs) : ~AsksForNothing(specs[k])
       => \A size \in Sizes : Covered(input, size) = AskedFor(Understood, size)

(* The specs written so far are those of the ranges.                        *)
FormatInv ==
  entry = "SetRanges" =>
    /\ pc \in {"format", "done"} /\ rs = input /\ unit = "none"
    /\ Len(specs) = i - 1 /\ i <= Len(rs) + 1
    /\ \A k \in 1..(i - 1) : Representable(rs[k]) /\ specs[k] = FormatRange(rs[k])

ListInv == SortInv /\ MergeInv /\ CoverInv /\ TidyInv
HeaderInv == ParseInv /\ MeansInv /\ FormatInv
RangeIInv == RangeTypes /\ ListInv /\ HeaderInv

------------------------------------------------------------------------------
(* What a list of ranges covers.                                            *)

LEMMA EndsAreInts ==
  ASSUME NEW s \in Seq(RangeType), NEW k \in 1..Len(s)
  PROVE  s[k] \in RangeType /\ s[k].Start \in Int /\ s[k].End \in Int
<1>1. s[k] \in RangeType
  OBVIOUS
<1> QED
  BY <1>1 DEF RangeType

LEMMA CoveredIs ==
  ASSUME NEW s, NEW size, NEW x
  PROVE  x \in Covered(s, size) <=>
           x \in 0 .. size - 1 /\ \E k \in 1..Len(s) : x \in Bytes(s[k], size)
<1> DEFINE all == {Bytes(s[k], size) : k \in 1..Len(s)}
           whole == 0 .. size - 1
<1>1. x \in UNION all <=> \E k \in 1..Len(s) : x \in Bytes(s[k], size)
  BY Zenon
<1> HIDE DEF all
<1>2. Covered(s, size) = (UNION all) \cap whole
  BY DEF Covered, all
<1> HIDE DEF whole
<1>3. x \in Covered(s, size) <=> x \in whole /\ x \in UNION all
  BY <1>2, Zenon
<1> QED
  BY <1>1, <1>3, Zenon DEF whole

(* Two lists with the same bytes.                                           *)
LEMMA SameBytes ==
  ASSUME NEW s, NEW t, NEW size,
         \A x \in 0 .. size - 1 : (\E k \in 1..Len(s) : x \in Bytes(s[k], size))
                               <=> (\E k \in 1..Len(t) : x \in Bytes(t[k], size))
  PROVE  Covered(s, size) = Covered(t, size)
<1>1. \A x : x \in Covered(s, size) <=> x \in Covered(t, size)
  BY CoveredIs, Zenon
<1> QED
  BY <1>1, Zenon

LEMMA Removed ==
  ASSUME NEW s \in Seq(RangeType), NEW n \in 1..Len(s)
  PROVE  /\ RemoveAt(s, n) \in Seq(RangeType)
         /\ Len(RemoveAt(s, n)) = Len(s) - 1
         /\ \A k \in 1..(Len(s) - 1) : RemoveAt(s, n)[k] = IF k < n THEN s[k] ELSE s[k + 1]
<1> DEFINE u == SubSeq(s, 1, n - 1)
           v == SubSeq(s, n + 1, Len(s))
<1>1. Len(s) \in Nat /\ n \in Nat /\ n >= 1 /\ n <= Len(s)
  OBVIOUS
<1>2. u \in Seq(RangeType) /\ Len(u) = n - 1 /\ \A k \in 1..(n - 1) : u[k] = s[k]
  BY <1>1
<1>3. v \in Seq(RangeType) /\ Len(v) = Len(s) - n /\ \A k \in 1..(Len(s) - n) : v[k] = s[n + k]
  BY <1>1
<1> HIDE DEF u, v
<1>4. RemoveAt(s, n) = u \o v
  BY DEF RemoveAt, u, v
<1>5. u \o v \in Seq(RangeType) /\ Len(u \o v) = Len(s) - 1
  <2>1. u \o v \in Seq(RangeType) /\ Len(u \o v) = Len(u) + Len(v)
    BY <1>2, <1>3, ConcatProperties
  <2> QED
    BY <1>1, <1>2, <1>3, <2>1
<1>6. ASSUME NEW k \in 1..(Len(s) - 1)
      PROVE  (u \o v)[k] = IF k < n THEN s[k] ELSE s[k + 1]
  <2>1. CASE k < n
    BY <1>1, <1>2, <1>3, <2>1
  <2>2. CASE ~(k < n)
    <3>1. (u \o v)[k] = v[k - Len(u)]
      BY <1>1, <1>2, <1>3, <2>2
    <3>2. k - Len(u) \in 1..(Len(s) - n) /\ n + (k - Len(u)) = k + 1
      BY <1>1, <1>2, <2>2
    <3> QED
      BY <1>3, <2>2, <3>1, <3>2
  <2> QED
    BY <2>1, <2>2
<1> QED
  BY <1>4, <1>5, <1>6

(* Two neighbours become one.                                               *)
LEMMA Joined ==
  ASSUME NEW s \in Seq(RangeType), NEW n \in 2..Len(s), NEW r \in RangeType
  PROVE  LET t == RemoveAt([s EXCEPT ![n - 1] = r], n)
         IN  /\ t \in Seq(RangeType) /\ Len(t) = Len(s) - 1
             /\ \A k \in 1..(Len(s) - 1) :
                  t[k] = IF k < n - 1 THEN s[k] ELSE IF k = n - 1 THEN r ELSE s[k + 1]
<1> DEFINE e == [s EXCEPT ![n - 1] = r]
           t == RemoveAt(e, n)
<1>1. Len(s) \in Nat /\ n \in Nat /\ n >= 2 /\ n <= Len(s)
  OBVIOUS
<1>2. /\ e \in Seq(RangeType) /\ Len(e) = Len(s)
      /\ \A k \in 1..Len(s) : e[k] = IF k = n - 1 THEN r ELSE s[k]
  BY <1>1
<1> HIDE DEF e
<1>3. /\ t \in Seq(RangeType) /\ Len(t) = Len(s) - 1
      /\ \A k \in 1..(Len(s) - 1) : t[k] = IF k < n THEN e[k] ELSE e[k + 1]
  <2>1. n \in 1..Len(e)
    BY <1>1, <1>2
  <2> HIDE DEF t
  <2>2. /\ t \in Seq(RangeType) /\ Len(t) = Len(e) - 1
        /\ \A k \in 1..(Len(e) - 1) : t[k] = IF k < n THEN e[k] ELSE e[k + 1]
    BY <1>2, <2>1, Removed, Zenon DEF t
  <2> QED
    BY <1>2, <2>2
<1> HIDE DEF t
<1>4. ASSUME NEW k \in 1..(Len(s) - 1)
      PROVE  t[k] = IF k < n - 1 THEN s[k] ELSE IF k = n - 1 THEN r ELSE s[k + 1]
  <2>1. k \in 1..Len(s) /\ k + 1 \in 1..Len(s)
    BY <1>1
  <2>2. CASE k < n
    BY <1>1, <1>2, <1>3, <2>1, <2>2
  <2>3. CASE ~(k < n)
    BY <1>1, <1>2, <1>3, <2>1, <2>3
  <2> QED
    BY <2>2, <2>3
<1> QED
  BY <1>3, <1>4 DEF t, e

(* An empty range may go.                                                   *)
LEMMA RemovedCovers ==
  ASSUME NEW s \in Seq(RangeType), NEW n \in 1..Len(s), NEW size, Bytes(s[n], size) = {}
  PROVE  Covered(RemoveAt(s, n), size) = Covered(s, size)
<1> DEFINE t == RemoveAt(s, n)
<1>0. Len(s) \in Nat /\ n \in Nat
  OBVIOUS
<1>1. /\ Len(t) = Len(s) - 1
      /\ \A k \in 1..(Len(s) - 1) : t[k] = IF k < n THEN s[k] ELSE s[k + 1]
  BY Removed
<1> HIDE DEF t
<1>2. ASSUME NEW x, NEW k \in 1..Len(t), x \in Bytes(t[k], size)
      PROVE  \E m \in 1..Len(s) : x \in Bytes(s[m], size)
  <2>1. CASE k < n
    BY <1>0, <1>1, <1>2, <2>1
  <2>2. CASE ~(k < n)
    <3>1. k + 1 \in 1..Len(s) /\ t[k] = s[k + 1]
      BY <1>0, <1>1, <2>2
    <3> QED
      BY <1>2, <3>1
  <2> QED
    BY <2>1, <2>2
<1>3. ASSUME NEW x, NEW k \in 1..Len(s), x \in Bytes(s[k], size)
      PROVE  \E m \in 1..Len(t) : x \in Bytes(t[m], size)
  <2>1. CASE k < n
    <3>1. k \in 1..Len(t) /\ t[k] = s[k]
      BY <1>0, <1>1, <2>1
    <3> QED
      BY <1>3, <3>1
  <2>2. CASE k > n
    <3>1. k - 1 \in 1..Len(t) /\ t[k - 1] = s[k]
      BY <1>0, <1>1, <2>2
    <3> QED
      BY <1>3, <3>1
  <2>3. CASE k = n
    BY <1>3, <2>3
  <2> QED
    BY <1>0, <2>1, <2>2, <2>3
<1>4. Covered(t, size) = Covered(s, size)
  BY <1>2, <1>3, SameBytes
<1> QED
  BY <1>4 DEF t

(* Two ranges may become one that has the bytes of both.                    *)
LEMMA JoinedCovers ==
  ASSUME NEW s \in Seq(RangeType), NEW n \in 2..Len(s), NEW r \in RangeType, NEW size,
         Bytes(r, size) = Bytes(s[n - 1], size) \cup Bytes(s[n], size)
  PROVE  Covered(RemoveAt([s EXCEPT ![n - 1] = r], n), size) = Covered(s, size)
<1> DEFINE t == RemoveAt([s EXCEPT ![n - 1] = r], n)
<1>0. Len(s) \in Nat /\ n \in Nat /\ n >= 2 /\ n <= Len(s)
  OBVIOUS
<1>1. /\ Len(t) = Len(s) - 1
      /\ \A k \in 1..(Len(s) - 1) :
           t[k] = IF k < n - 1 THEN s[k] ELSE IF k = n - 1 THEN r ELSE s[k + 1]
  BY Joined
<1> HIDE DEF t
<1>2. ASSUME NEW x, NEW k \in 1..Len(t), x \in Bytes(t[k], size)
      PROVE  \E m \in 1..Len(s) : x \in Bytes(s[m], size)
  <2>1. CASE k < n - 1
    <3>1. k \in 1..Len(s) /\ t[k] = s[k]
      BY <1>0, <1>1, <2>1
    <3> QED
      BY <1>2, <3>1
  <2>2. CASE k > n - 1
    <3>1. k + 1 \in 1..Len(s) /\ t[k] = s[k + 1]
      BY <1>0, <1>1, <2>2
    <3> QED
      BY <1>2, <3>1
  <2>3. CASE k = n - 1
    <3>1. t[k] = r /\ n - 1 \in 1..Len(s) /\ n \in 1..Len(s)
      BY <1>0, <1>1, <2>3
    <3> QED
      BY <1>2, <3>1
  <2> QED
    BY <1>0, <2>1, <2>2, <2>3
<1>3. ASSUME NEW x, NEW k \in 1..Len(s), x \in Bytes(s[k], size)
      PROVE  \E m \in 1..Len(t) : x \in Bytes(t[m], size)
  <2>1. CASE k < n - 1
    <3>1. k \in 1..Len(t) /\ t[k] = s[k]
      BY <1>0, <1>1, <2>1
    <3> QED
      BY <1>3, <3>1
  <2>2. CASE k > n
    <3>1. k - 1 \in 1..Len(t) /\ t[k - 1] = s[k]
      BY <1>0, <1>1, <2>2
    <3> QED
      BY <1>3, <3>1
  <2>3. CASE k \in {n - 1, n}
    <3>1. n - 1 \in 1..Len(t) /\ t[n - 1] = r
      BY <1>0, <1>1
    <3> QED
      BY <1>3, <2>3, <3>1
  <2> QED
    BY <1>0, <2>1, <2>2, <2>3
<1>4. Covered(t, size) = Covered(s, size)
  BY <1>2, <1>3, SameBytes
<1> QED
  BY <1>4 DEF t

(* The order of two ranges does not matter.                                 *)
LEMMA Swapped ==
  ASSUME NEW s \in Seq(RangeType), NEW n \in Nat, n >= 1, n + 1 <= Len(s)
  PROVE  LET t == [s EXCEPT ![n] = s[n + 1], ![n + 1] = s[n]]
         IN  /\ t \in Seq(RangeType) /\ Len(t) = Len(s)
             /\ t[n] = s[n + 1] /\ t[n + 1] = s[n]
             /\ \A k \in 1..Len(s) : k # n /\ k # n + 1 => t[k] = s[k]
<1>1. Len(s) \in Nat /\ n \in 1..Len(s) /\ n + 1 \in 1..Len(s)
  OBVIOUS
<1> QED
  BY <1>1

LEMMA SwappedCovers ==
  ASSUME NEW s, NEW t, NEW n \in Nat, n >= 1, Len(s) \in Nat, n + 1 <= Len(s), Len(t) = Len(s),
         t[n] = s[n + 1], t[n + 1] = s[n],
         \A k \in 1..Len(s) : k # n /\ k # n + 1 => t[k] = s[k],
         NEW size
  PROVE  Covered(t, size) = Covered(s, size)
<1>0. n \in 1..Len(s) /\ n + 1 \in 1..Len(s)
  OBVIOUS
<1>1. ASSUME NEW x
      PROVE  (\E k \in 1..Len(t) : x \in Bytes(t[k], size))
               <=> (\E k \in 1..Len(s) : x \in Bytes(s[k], size))
  <2>1. ASSUME NEW k \in 1..Len(t), x \in Bytes(t[k], size)
        PROVE  \E m \in 1..Len(s) : x \in Bytes(s[m], size)
    BY <1>0, <2>1
  <2>2. ASSUME NEW k \in 1..Len(s), x \in Bytes(s[k], size)
        PROVE  \E m \in 1..Len(t) : x \in Bytes(t[m], size)
    BY <1>0, <2>2
  <2> QED
    BY <2>1, <2>2
<1> QED
  BY <1>1, SameBytes

(* The first range may go, too.                                             *)
LEMMA TailIs ==
  ASSUME NEW s \in Seq(RangeType), s # <<>>
  PROVE  1 \in 1..Len(s) /\ Tail(s) = RemoveAt(s, 1)
<1>1. Len(s) \in Nat /\ 1 \in 1..Len(s)
  OBVIOUS
<1>2. Tail(s) \in Seq(RangeType) /\ Len(Tail(s)) = Len(s) - 1
      /\ \A k \in 1..(Len(s) - 1) : Tail(s)[k] = s[k + 1]
  BY <1>1
<1>3. /\ RemoveAt(s, 1) \in Seq(RangeType) /\ Len(RemoveAt(s, 1)) = Len(s) - 1
      /\ \A k \in 1..(Len(s) - 1) : RemoveAt(s, 1)[k] = IF k < 1 THEN s[k] ELSE s[k + 1]
  BY <1>1, Removed, Zenon
<1>4. \A k \in 1..Len(Tail(s)) : Tail(s)[k] = RemoveAt(s, 1)[k]
  BY <1>1, <1>2, <1>3
<1>5. Tail(s) = RemoveAt(s, 1)
  BY <1>2, <1>3, <1>4, SeqEqual
<1> QED
  BY <1>1, <1>5

(* What is left is in order, and absolute, when it all was.                 *)
LEMMA RemovedKeeps ==
  ASSUME NEW s \in Seq(RangeType), NEW n \in 1..Len(s)
  PROVE  /\ InOrder(s) => InOrder(RemoveAt(s, n))
         /\ AllAbsolute(s) => AllAbsolute(RemoveAt(s, n))
         /\ Tidied(s, n) => Tidied(RemoveAt(s, n), n)
<1> DEFINE t == RemoveAt(s, n)
<1>0. Len(s) \in Nat /\ n \in Nat
  OBVIOUS
<1>1. /\ Len(t) = Len(s) - 1
      /\ \A k \in 1..(Len(s) - 1) : t[k] = IF k < n THEN s[k] ELSE s[k + 1]
  BY Removed
<1> HIDE DEF t
<1>2. ASSUME InOrder(s) PROVE InOrder(t)
  <2> SUFFICES ASSUME NEW a \in 1..Len(t), NEW b \in 1..Len(t), a < b
               PROVE  t[a].Start <= t[b].Start
    BY DEF InOrder
  <2>1. a + 1 \in 1..Len(s) /\ b + 1 \in 1..Len(s) /\ a \in 1..Len(s) /\ b \in 1..Len(s)
    BY <1>0, <1>1
  <2>2. s[a].Start <= s[b].Start /\ s[a].Start <= s[b + 1].Start
        /\ s[a + 1].Start <= s[b + 1].Start
    BY <1>0, <1>1, <1>2, <2>1 DEF InOrder
  <2> QED
    BY <1>0, <1>1, <2>1, <2>2
<1>3. ASSUME AllAbsolute(s) PROVE AllAbsolute(t)
  <2> SUFFICES ASSUME NEW a \in 1..Len(t)
               PROVE  IsAbsolute(t[a])
    BY DEF AllAbsolute
  <2>1. a + 1 \in 1..Len(s) /\ a \in 1..Len(s)
    BY <1>0, <1>1
  <2>2. IsAbsolute(s[a]) /\ IsAbsolute(s[a + 1])
    BY <1>3, <2>1 DEF AllAbsolute
  <2> QED
    BY <1>0, <1>1, <2>2
<1>4. ASSUME Tidied(s, n) PROVE Tidied(t, n)
  <2> SUFFICES ASSUME NEW a \in 1..Len(t), NEW b \in 1..Len(t), a < n, b < n
               PROVE  (a < b => t[a].End < t[b].Start) /\ t[a].Start <= t[a].End
    BY DEF Tidied
  <2>1. a \in 1..Len(s) /\ b \in 1..Len(s) /\ t[a] = s[a] /\ t[b] = s[b]
    BY <1>0, <1>1
  <2> QED
    BY <1>4, <2>1 DEF Tidied
<1> QED
  BY <1>2, <1>3, <1>4 DEF t

(* Two neighbours that become one starting where the first did.             *)
LEMMA JoinedKeeps ==
  ASSUME NEW s \in Seq(RangeType), NEW n \in 2..Len(s), NEW r \in RangeType
  PROVE  LET t == RemoveAt([s EXCEPT ![n - 1] = r], n)
         IN  /\ InOrder(s) /\ r.Start = s[n - 1].Start => InOrder(t)
             /\ AllAbsolute(s) /\ IsAbsolute(r) => AllAbsolute(t)
             /\ Tidied(s, n) /\ r.Start = s[n - 1].Start /\ r.Start <= r.End => Tidied(t, n)
<1> DEFINE t == RemoveAt([s EXCEPT ![n - 1] = r], n)
<1>0. Len(s) \in Nat /\ n \in Nat /\ n >= 2 /\ n <= Len(s) /\ n - 1 \in 1..Len(s)
  OBVIOUS
<1>1. /\ Len(t) = Len(s) - 1
      /\ \A k \in 1..(Len(s) - 1) :
           t[k] = IF k < n - 1 THEN s[k] ELSE IF k = n - 1 THEN r ELSE s[k + 1]
  BY Joined
<1> HIDE DEF t
<1>2. ASSUME InOrder(s), r.Start = s[n - 1].Start PROVE InOrder(t)
  <2> SUFFICES ASSUME NEW a \in 1..Len(t), NEW b \in 1..Len(t), a < b
               PROVE  t[a].Start <= t[b].Start
    BY DEF InOrder
  <2>1. a + 1 \in 1..Len(s) /\ b + 1 \in 1..Len(s) /\ a \in 1..Len(s) /\ b \in 1..Len(s)
    BY <1>0, <1>1
  <2>2. s[a].Start <= s[b].Start /\ s[a].Start <= s[b + 1].Start
        /\ s[a + 1].Start <= s[b + 1].Start
    BY <1>0, <1>1, <1>2, <2>1 DEF InOrder
  <2>3. t[a].Start = IF a <= n - 1 THEN s[a].Start ELSE s[a + 1].Start
    BY <1>0, <1>1, <1>2
  <2>4. t[b].Start = IF b <= n - 1 THEN s[b].Start ELSE s[b + 1].Start
    BY <1>0, <1>1, <1>2
  <2> QED
    BY <1>0, <2>1, <2>2, <2>3, <2>4
<1>3. ASSUME AllAbsolute(s), IsAbsolute(r) PROVE AllAbsolute(t)
  <2> SUFFICES ASSUME NEW a \in 1..Len(t)
               PROVE  IsAbsolute(t[a])
    BY DEF AllAbsolute
  <2>1. a + 1 \in 1..Len(s) /\ a \in 1..Len(s)
    BY <1>0, <1>1
  <2>2. IsAbsolute(s[a]) /\ IsAbsolute(s[a + 1])
    BY <1>3, <2>1 DEF AllAbsolute
  <2> QED
    BY <1>0, <1>1, <1>3, <2>2
<1>4. ASSUME Tidied(s, n), r.Start = s[n - 1].Start, r.Start <= r.End PROVE Tidied(t, n)
  <2> SUFFICES ASSUME NEW a \in 1..Len(t), NEW b \in 1..Len(t), a < n, b < n
               PROVE  (a < b => t[a].End < t[b].Start) /\ t[a].Start <= t[a].End
    BY DEF Tidied
  <2>1. a \in 1..Len(s) /\ b \in 1..Len(s)
    BY <1>0, <1>1
  <2>2. (a < b => s[a].End < s[b].Start) /\ s[a].Start <= s[a].End
    BY <1>4, <2>1 DEF Tidied
  <2>3. t[b].Start = s[b].Start
    BY <1>0, <1>1, <1>4
  <2>4. CASE a < n - 1
    BY <1>0, <1>1, <2>2, <2>3, <2>4
  <2>5. CASE a = n - 1
    BY <1>0, <1>1, <1>4, <2>5
  <2> QED
    BY <1>0, <2>4, <2>5
<1> QED
  BY <1>2, <1>3, <1>4 DEF t

------------------------------------------------------------------------------
(* The steps of TidyRanges and MergeRanges.                                 *)

LEMMA SizesAreNat == \A size \in Sizes : size \in Nat
  BY RangesAssumption DEF RangesAssumption

(* They leave the header alone, and run only while nothing was refused.     *)
LEMMA HeaderKept ==
  ASSUME RangeTypes, RangeTypes', HeaderInv, UNCHANGED headerVars, UNCHANGED <<entry, input>>,
         pc \in {"sort", "head", "merge"}, pc' \in {"sort", "head", "merge", "done"}
  PROVE  HeaderInv'
<1>1. err = "nil" /\ err' = "nil" /\ specs' = specs /\ get' = get /\ unit' = unit
  BY DEF RangeTypes, headerVars
<1>2. Understood' = Understood
  BY <1>1 DEF Understood
<1>3. ParseInv' /\ FormatInv'
  BY DEF ParseInv, FormatInv, RangeTypes
<1>4. MeansInv'
  BY <1>1, <1>2 DEF MeansInv, HeaderInv
<1> QED
  BY <1>3, <1>4 DEF HeaderInv

LEMMA SortShiftStep ==
  ASSUME RangeTypes, ListInv, SortShift, UNCHANGED headerVars
  PROVE  RangeTypes' /\ ListInv'
<1> USE DEF SortShift, MustShift
<1>0. /\ rs \in Seq(RangeType) /\ Len(rs) \in Nat /\ i \in Nat /\ j \in Nat
      /\ j >= 1 /\ j < i /\ i <= Len(rs) /\ j + 1 <= Len(rs)
  BY DEF RangeTypes
<1>1. /\ rs' \in Seq(RangeType) /\ Len(rs') = Len(rs)
      /\ rs'[j] = rs[j + 1] /\ rs'[j + 1] = rs[j]
      /\ \A k \in 1..Len(rs) : k # j /\ k # j + 1 => rs'[k] = rs[k]
  BY <1>0, Swapped
<1>2. \A size : Covered(rs', size) = Covered(rs, size)
  BY <1>0, <1>1, SwappedCovers, Zenon
<1>3. RangeTypes'
  BY <1>0, <1>1 DEF RangeTypes, headerVars
<1>4. SortInv'
  <2>0. /\ \A a, b \in 1..Len(rs) :
              a < b /\ b <= i /\ a # j + 1 /\ b # j + 1 => rs[a].Start <= rs[b].Start
        /\ \A b \in 1..Len(rs) : j + 1 < b /\ b <= i => rs[j + 1].Start <= rs[b].Start
    BY DEF ListInv, SortInv
  <2>t. \A k \in 1..Len(rs) : rs[k].Start \in Int
    BY <1>0, EndsAreInts
  <2>1. ASSUME NEW a \in 1..Len(rs), NEW b \in 1..Len(rs), a < b, b <= i, a # j, b # j
        PROVE  rs'[a].Start <= rs'[b].Start
    <3>1. CASE a = j + 1
      BY <1>0, <1>1, <2>0, <2>1, <3>1
    <3>2. CASE b = j + 1
      BY <1>0, <1>1, <2>0, <2>1, <3>2
    <3>3. CASE a # j + 1 /\ b # j + 1
      BY <1>0, <1>1, <2>0, <2>1, <3>3
    <3> QED
      BY <3>1, <3>2, <3>3
  <2>2. ASSUME NEW b \in 1..Len(rs), j < b, b <= i
        PROVE  rs'[j].Start <= rs'[b].Start
    <3>1. CASE b = j + 1
      BY <1>0, <1>1, <2>t, <3>1
    <3>2. CASE b # j + 1
      BY <1>0, <1>1, <2>0, <2>2, <3>2
    <3> QED
      BY <3>1, <3>2
  <2>3. (j - 1) + 1 = j
    BY <1>0
  <2> QED
    BY <1>1, <2>1, <2>2, <2>3 DEF SortInv
<1>5. MergeInv'
  <2>1. ASSUME AllAbsolute(rs) PROVE AllAbsolute(rs')
    BY <1>0, <1>1, <2>1 DEF AllAbsolute
  <2> QED
    BY <2>1 DEF MergeInv, ListInv, AbsoluteInput
<1>6. CoverInv'
  BY <1>2 DEF CoverInv, ListInv, AbsoluteInput
<1>7. TidyInv'
  BY DEF TidyInv
<1> QED
  BY <1>3, <1>4, <1>5, <1>6, <1>7 DEF ListInv

LEMMA SortNextStep ==
  ASSUME RangeTypes, ListInv, SortNext, UNCHANGED headerVars
  PROVE  RangeTypes' /\ ListInv'
<1> USE DEF SortNext, MustShift
<1>0. /\ rs \in Seq(RangeType) /\ Len(rs) \in Nat /\ i \in Nat /\ j \in Nat
      /\ i >= 2 /\ j < i /\ i <= Len(rs) /\ j + 1 <= Len(rs)
  BY DEF RangeTypes
<1>3. RangeTypes'
  BY <1>0 DEF RangeTypes, headerVars
<1>4. SortInv'
  <2>0. /\ \A a, b \in 1..Len(rs) :
              a < b /\ b <= i /\ a # j + 1 /\ b # j + 1 => rs[a].Start <= rs[b].Start
        /\ \A b \in 1..Len(rs) : j + 1 < b /\ b <= i => rs[j + 1].Start <= rs[b].Start
    BY DEF ListInv, SortInv
  <2>t. \A k \in 1..Len(rs) : rs[k].Start \in Int
    BY <1>0, EndsAreInts
  <2>1. ASSUME NEW a \in 1..Len(rs), NEW b \in 1..Len(rs), a < b, b <= i
        PROVE  rs[a].Start <= rs[b].Start
    <3>1. CASE a = j + 1
      BY <1>0, <2>0, <2>1, <3>1
    <3>2. CASE b = j + 1
      <4>1. j \in 1..Len(rs) /\ a <= j
        BY <1>0, <2>1, <3>2
      <4>2. rs[j].Start <= rs[j + 1].Start
        BY <1>0, <2>t, <4>1, <3>2
      <4>3. rs[a].Start <= rs[j].Start
        <5>1. CASE a = j
          BY <2>t, <4>1, <5>1
        <5>2. CASE a < j
          BY <1>0, <2>0, <4>1, <5>2
        <5> QED
          BY <1>0, <4>1, <5>1, <5>2
      <4> QED
        BY <2>t, <3>2, <4>1, <4>2, <4>3
    <3>3. CASE a # j + 1 /\ b # j + 1
      BY <1>0, <2>0, <2>1, <3>3
    <3> QED
      BY <3>1, <3>2, <3>3
  <2>2. ASSUME NEW a \in 1..Len(rs), NEW b \in 1..Len(rs), a < b, b <= i + 1, a # i + 1, b # i + 1
        PROVE  rs[a].Start <= rs[b].Start
    BY <1>0, <2>1, <2>2
  <2>3. ASSUME NEW b \in 1..Len(rs), i + 1 < b, b <= i + 1
        PROVE  rs[i + 1].Start <= rs[b].Start
    BY <1>0, <2>3
  <2> QED
    BY <2>2, <2>3 DEF SortInv
<1>5. MergeInv' /\ CoverInv' /\ TidyInv'
  BY DEF MergeInv, CoverInv, TidyInv, ListInv, AbsoluteInput
<1> QED
  BY <1>3, <1>4, <1>5 DEF ListInv

LEMMA SortDoneStep ==
  ASSUME RangeTypes, ListInv, SortDone, UNCHANGED headerVars
  PROVE  RangeTypes' /\ ListInv'
<1> USE DEF SortDone
<1>0. Len(rs) \in Nat /\ i \in Nat /\ i > Len(rs) /\ j + 1 = i
  BY DEF RangeTypes
<1>1. RangeTypes'
  BY DEF RangeTypes, headerVars
<1>2. InOrder(rs)
  <2>1. \A a, b \in 1..Len(rs) :
          a < b /\ b <= i /\ a # j + 1 /\ b # j + 1 => rs[a].Start <= rs[b].Start
    BY DEF ListInv, SortInv
  <2> QED
    BY <1>0, <2>1 DEF InOrder
<1>3. MergeInv'
  BY <1>2 DEF MergeInv, ListInv, AbsoluteInput, InOrder
<1>4. SortInv' /\ CoverInv' /\ TidyInv'
  BY DEF SortInv, CoverInv, TidyInv, ListInv, AbsoluteInput
<1> QED
  BY <1>1, <1>3, <1>4 DEF ListInv

(* A range MergeRanges takes for empty has no byte.                         *)
LEMMA NoLengthIsEmpty ==
  ASSUME NEW r \in RangeType, NEW size \in Nat,
         IsNoLength(r) \/ (IsAbsolute(r) /\ r.End < r.Start)
  PROVE  Bytes(r, size) = {}
<1>1. r.Start \in Int /\ r.End \in Int /\ r.Start >= 0 /\ r.End >= 0 /\ r.End < r.Start
  BY DEF RangeType, IsNoLength, IsAbsolute
<1> QED
  BY <1>1 DEF Bytes, Abs

(* A range that has no byte is taken out of the list.                       *)
LEMMA RemovedStep ==
  ASSUME RangeTypes, ListInv, UNCHANGED <<entry, input, i, j, pc>>, UNCHANGED headerVars,
         pc \in {"head", "merge"}, NEW n \in 1..Len(rs), n = i \/ pc = "head",
         rs' = RemoveAt(rs, n),
         IsNoLength(rs[n]) \/ (IsAbsolute(rs[n]) /\ rs[n].End < rs[n].Start)
  PROVE  RangeTypes' /\ ListInv'
<1>0. rs \in Seq(RangeType) /\ rs[n] \in RangeType
  BY DEF RangeTypes
<1>1. rs' \in Seq(RangeType)
  BY <1>0, Removed
<1>2. RangeTypes'
  BY <1>1 DEF RangeTypes, headerVars
<1>3. /\ InOrder(rs) => InOrder(rs')
      /\ AllAbsolute(rs) => AllAbsolute(rs')
      /\ Tidied(rs, n) => Tidied(rs', n)
  BY <1>0, RemovedKeeps
<1>4. \A size \in Sizes : Covered(rs', size) = Covered(rs, size)
  BY <1>0, RemovedCovers, NoLengthIsEmpty, SizesAreNat
<1>5. SortInv'
  BY DEF SortInv
<1>6. MergeInv'
  BY <1>3 DEF MergeInv, ListInv, AbsoluteInput
<1>7. CoverInv'
  BY <1>4 DEF CoverInv, ListInv, AbsoluteInput
<1>8. TidyInv'
  BY <1>3 DEF TidyInv, ListInv, AbsoluteInput
<1> QED
  BY <1>2, <1>5, <1>6, <1>7, <1>8 DEF ListInv

LEMMA Head1Step ==
  ASSUME RangeTypes, ListInv, Head1, UNCHANGED headerVars
  PROVE  RangeTypes' /\ ListInv'
<1> USE DEF Head1
<1>0. rs \in Seq(RangeType) /\ pc = "head"
  BY DEF RangeTypes
<1>1. CASE rs = <<>> /\ pc' = "done" /\ UNCHANGED <<rs, i>>
  <2>1. RangeTypes'
    BY <1>1 DEF RangeTypes, headerVars
  <2>2. Len(rs) = 0
    BY <1>1
  <2>3. TidyInv'
    BY <1>1, <2>2 DEF TidyInv, Tidied
  <2>4. SortInv' /\ CoverInv' /\ MergeInv'
    BY <1>1 DEF SortInv, CoverInv, MergeInv, ListInv, AbsoluteInput
  <2> QED
    BY <2>1, <2>3, <2>4 DEF ListInv
<1>2. CASE rs # <<>> /\ IsNoLength(rs[1]) /\ rs' = Tail(rs) /\ UNCHANGED <<i, pc>>
  <2>1. 1 \in 1..Len(rs) /\ rs' = RemoveAt(rs, 1)
    BY <1>0, <1>2, TailIs
  <2> QED
    BY <1>0, <1>2, <2>1, RemovedStep
<1>3. CASE rs # <<>> /\ ~IsNoLength(rs[1]) /\ i' = 2 /\ pc' = "merge" /\ UNCHANGED rs
  <2>1. RangeTypes'
    BY <1>3 DEF RangeTypes, headerVars
  <2>2. ASSUME entry = "TidyRanges", AbsoluteInput
        PROVE  Tidied(rs, 2)
    <3>1. Len(rs) \in Nat /\ 1 \in 1..Len(rs) /\ rs[1] \in RangeType
      BY <1>0, <1>3
    <3>2. IsAbsolute(rs[1])
      BY <1>0, <2>2, <3>1 DEF ListInv, MergeInv, AllAbsolute
    <3>3. rs[1].Start <= rs[1].End
      BY <1>3, <3>1, <3>2 DEF IsNoLength, IsAbsolute, RangeType
    <3> QED
      BY <3>1, <3>3 DEF Tidied
  <2>3. TidyInv'
    BY <1>3, <2>2 DEF TidyInv, AbsoluteInput
  <2>4. SortInv' /\ CoverInv' /\ MergeInv'
    BY <1>3 DEF SortInv, CoverInv, MergeInv, ListInv, AbsoluteInput
  <2> QED
    BY <2>1, <2>3, <2>4 DEF ListInv
<1> QED
  BY <1>1, <1>2, <1>3

LEMMA RemoveEmptyStep ==
  ASSUME RangeTypes, ListInv, RemoveEmpty, UNCHANGED headerVars
  PROVE  RangeTypes' /\ ListInv'
<1>1. i \in 1..Len(rs) /\ pc = "merge"
  BY DEF RangeTypes, RemoveEmpty, InMerge
<1>2. IsAbsolute(rs[i]) /\ rs[i].End < rs[i].Start
  BY DEF RemoveEmpty, Empty2, R2
<1> QED
  BY <1>1, <1>2, RemovedStep DEF RemoveEmpty

(* Two ranges that meet are replaced by the one that has the bytes of both. *)
LEMMA JoinedStep ==
  ASSUME RangeTypes, ListInv, UNCHANGED <<entry, input, i, j, pc>>, UNCHANGED headerVars,
         InMerge, NEW r \in RangeType, rs' = RemoveAt([rs EXCEPT ![i - 1] = r], i),
         IsAbsolute(r), r.Start <= r.End,
         r.Start = R1.Start \/ entry = "MergeRanges",
         entry # "MergeRanges" \/ AbsoluteInput =>
           \A size \in Nat : Bytes(r, size) = Bytes(R1, size) \cup Bytes(R2, size)
  PROVE  RangeTypes' /\ ListInv'
<1>0. rs \in Seq(RangeType) /\ i \in 2..Len(rs) /\ pc = "merge"
  BY DEF RangeTypes, InMerge
<1>1. rs' \in Seq(RangeType)
  BY <1>0, Joined
<1>2. RangeTypes'
  BY <1>0, <1>1 DEF RangeTypes, headerVars
<1>3. /\ InOrder(rs) /\ r.Start = rs[i - 1].Start => InOrder(rs')
      /\ AllAbsolute(rs) => AllAbsolute(rs')
      /\ Tidied(rs, i) /\ r.Start = rs[i - 1].Start => Tidied(rs', i)
  BY <1>0, JoinedKeeps
<1>4. ASSUME entry # "MergeRanges" \/ AbsoluteInput
      PROVE  \A size \in Sizes : Covered(rs', size) = Covered(rs, size)
  <2>1. \A size \in Sizes : Bytes(r, size) = Bytes(rs[i - 1], size) \cup Bytes(rs[i], size)
    BY <1>4, SizesAreNat DEF R1, R2
  <2> QED
    BY <1>0, <2>1, JoinedCovers
<1>5. SortInv'
  BY <1>0 DEF SortInv
<1>6. MergeInv'
  BY <1>0, <1>3 DEF MergeInv, ListInv, AbsoluteInput, R1
<1>7. CoverInv'
  BY <1>0, <1>4 DEF CoverInv, ListInv, AbsoluteInput
<1>8. TidyInv'
  BY <1>0, <1>3 DEF TidyInv, ListInv, AbsoluteInput, R1
<1> QED
  BY <1>2, <1>5, <1>6, <1>7, <1>8 DEF ListInv

LEMMA R1R2Types ==
  ASSUME RangeTypes, InMerge
  PROVE  /\ R1 \in RangeType /\ R1.Start \in Int /\ R1.End \in Int
         /\ R2 \in RangeType /\ R2.Start \in Int /\ R2.End \in Int
         /\ i - 1 \in 1..Len(rs) /\ i \in 1..Len(rs) /\ pc = "merge"
<1>1. rs \in Seq(RangeType) /\ i - 1 \in 1..Len(rs) /\ i \in 1..Len(rs)
  BY DEF RangeTypes, InMerge
<1> QED
  BY <1>1, EndsAreInts DEF R1, R2, InMerge

LEMMA MergeAfterStep ==
  ASSUME RangeTypes, ListInv, MergeAfter, UNCHANGED headerVars
  PROVE  RangeTypes' /\ ListInv'
<1> DEFINE r == [Start |-> R1.Start, End |-> LargerEnd]
<1>1. InMerge /\ Mergeable /\ OverlapsAfter
  BY DEF MergeAfter
<1>2. /\ R1 \in RangeType /\ R1.Start \in Int /\ R1.End \in Int
      /\ R2 \in RangeType /\ R2.Start \in Int /\ R2.End \in Int
      /\ i - 1 \in 1..Len(rs)
  BY <1>1, R1R2Types
<1>3. /\ R1.Start >= 0 /\ R2.Start >= R1.Start /\ R2.Start <= R1.End
      /\ R2.Start <= R2.End /\ R1.End >= 0 /\ R2.End >= 0 /\ R2.Start >= 0
  BY <1>1, <1>2 DEF Mergeable, OverlapsAfter, Empty2, IsAbsolute
<1>4. r \in RangeType /\ IsAbsolute(r) /\ r.Start <= r.End /\ r.Start = R1.Start
  BY <1>2, <1>3 DEF RangeType, IsAbsolute, LargerEnd
<1>5. ASSUME NEW size \in Nat
      PROVE  Bytes(r, size) = Bytes(R1, size) \cup Bytes(R2, size)
  <2>1. /\ Bytes(r, size) = R1.Start .. LargerEnd
        /\ Bytes(R1, size) = R1.Start .. R1.End
        /\ Bytes(R2, size) = R2.Start .. R2.End
    BY <1>2, <1>3, <1>4 DEF Bytes, Abs, LargerEnd
  <2> QED
    BY <1>2, <1>3, <2>1 DEF LargerEnd
<1>6. rs' = RemoveAt([rs EXCEPT ![i - 1] = r], i)
  <2>1. [rs EXCEPT ![i - 1].End = LargerEnd] = [rs EXCEPT ![i - 1] = r]
    <3>1. [R1 EXCEPT !.End = LargerEnd] = r
      BY <1>2 DEF RangeType
    <3>2. [rs EXCEPT ![i - 1].End = LargerEnd]
            = [rs EXCEPT ![i - 1] = [R1 EXCEPT !.End = LargerEnd]]
      BY DEF R1
    <3> QED
      BY <3>1, <3>2
  <2> QED
    BY <2>1 DEF MergeAfter
<1> HIDE DEF r
<1> QED
  BY <1>1, <1>4, <1>5, <1>6, JoinedStep DEF MergeAfter

(* Behind a sort, no range comes before the one in front of it.             *)
LEMMA MergeBeforeStep ==
  ASSUME RangeTypes, ListInv, MergeBefore, UNCHANGED headerVars
  PROVE  RangeTypes' /\ ListInv'
<1> DEFINE r == [Start |-> R2.Start, End |-> LargerEnd]
<1>1. InMerge /\ Mergeable /\ OverlapsBefore
  BY DEF MergeBefore
<1>2. /\ R1 \in RangeType /\ R1.Start \in Int /\ R1.End \in Int
      /\ R2 \in RangeType /\ R2.Start \in Int /\ R2.End \in Int
      /\ i - 1 \in 1..Len(rs) /\ i \in 1..Len(rs) /\ pc = "merge"
  BY <1>1, R1R2Types
<1>3. /\ R1.Start > R2.Start /\ R1.Start <= R2.End
      /\ R2.Start <= R2.End /\ R2.End >= 0 /\ R2.Start >= 0
  BY <1>1, <1>2 DEF Mergeable, OverlapsBefore, Empty2, IsAbsolute
<1>4. r \in RangeType /\ IsAbsolute(r) /\ r.Start <= r.End
  BY <1>2, <1>3 DEF RangeType, IsAbsolute, LargerEnd
<1>5. entry = "MergeRanges"
  <2>1. SUFFICES ASSUME entry # "MergeRanges" PROVE FALSE
    OBVIOUS
  <2>2. InOrder(rs)
    BY <1>2, <2>1 DEF ListInv, MergeInv
  <2>3. i - 1 < i
    BY DEF RangeTypes
  <2>4. rs[i - 1].Start <= rs[i].Start
    BY <1>2, <2>2, <2>3 DEF InOrder
  <2> QED
    BY <1>2, <1>3, <2>4 DEF R1, R2
<1>6. ASSUME AbsoluteInput, NEW size \in Nat
      PROVE  Bytes(r, size) = Bytes(R1, size) \cup Bytes(R2, size)
  <2>1. R1.End >= 0
    BY <1>2, <1>6 DEF ListInv, MergeInv, AllAbsolute, IsAbsolute, R1
  <2>2. /\ Bytes(r, size) = R2.Start .. LargerEnd
        /\ Bytes(R1, size) = R1.Start .. R1.End
        /\ Bytes(R2, size) = R2.Start .. R2.End
    BY <1>2, <1>3, <1>4, <2>1 DEF Bytes, Abs, LargerEnd
  <2> QED
    BY <1>2, <1>3, <2>2 DEF LargerEnd
<1>7. rs' = RemoveAt([rs EXCEPT ![i - 1] = r], i)
  BY DEF MergeBefore
<1> HIDE DEF r
<1> QED
  BY <1>1, <1>4, <1>5, <1>6, <1>7, JoinedStep DEF MergeBefore

LEMMA KeepStep ==
  ASSUME RangeTypes, ListInv, Keep, UNCHANGED headerVars
  PROVE  RangeTypes' /\ ListInv'
<1>1. InMerge
  BY DEF Keep
<1>2. /\ R1 \in RangeType /\ R1.Start \in Int /\ R1.End \in Int
      /\ R2 \in RangeType /\ R2.Start \in Int /\ R2.End \in Int
      /\ i - 1 \in 1..Len(rs) /\ i \in 1..Len(rs) /\ pc = "merge"
  BY <1>1, R1R2Types
<1>3. RangeTypes'
  BY <1>2 DEF Keep, RangeTypes, headerVars
<1>4. ASSUME entry = "TidyRanges", AbsoluteInput
      PROVE  Tidied(rs, i + 1)
  <2>1. IsAbsolute(R1) /\ IsAbsolute(R2)
    BY <1>2, <1>4 DEF ListInv, MergeInv, AllAbsolute, R1, R2
  <2>2. R2.Start <= R2.End /\ R1.Start <= R2.Start /\ R1.End < R2.Start
    <3>1. R2.Start <= R2.End
      BY <1>2, <2>1 DEF Keep, Empty2
    <3>2. i - 1 < i
      BY DEF RangeTypes
    <3>3. R1.Start <= R2.Start
      BY <1>2, <1>4, <3>2 DEF ListInv, MergeInv, InOrder, R1, R2
    <3>4. Mergeable
      BY <2>1 DEF Keep, Mergeable, IsAbsolute
    <3> QED
      BY <1>2, <3>1, <3>3, <3>4 DEF Keep, OverlapsAfter
  <2>3. Tidied(rs, i)
    BY <1>2, <1>4 DEF ListInv, TidyInv
  <2>4. ASSUME NEW a \in 1..Len(rs), NEW b \in 1..Len(rs), a < i + 1, b < i + 1
        PROVE  (a < b => rs[a].End < rs[b].Start) /\ rs[a].Start <= rs[a].End
    <3>0. i \in Nat /\ Len(rs) \in Nat /\ rs[a].End \in Int
      BY EndsAreInts DEF RangeTypes
    <3>1. CASE a < i /\ b < i
      BY <2>3, <3>1 DEF Tidied
    <3>2. CASE a = i
      BY <2>2, <2>4, <3>0, <3>2 DEF R2
    <3>3. CASE a < i /\ b = i
      <4>1. rs[a].Start <= rs[a].End
        BY <2>3, <3>3 DEF Tidied
      <4>2. CASE a = i - 1
        BY <2>2, <3>3, <4>1, <4>2 DEF R1, R2
      <4>3. CASE a < i - 1
        <5>1. rs[a].End < R1.Start
          BY <1>2, <2>3, <3>0, <3>3, <4>3 DEF Tidied, R1
        <5> QED
          BY <1>2, <2>2, <3>0, <3>3, <4>1, <5>1 DEF R2
      <4> QED
        BY <3>0, <3>3, <4>2, <4>3
    <3> QED
      BY <2>4, <3>0, <3>1, <3>2, <3>3
  <2> QED
    BY <2>4 DEF Tidied
<1>5. TidyInv'
  BY <1>2, <1>4 DEF Keep, TidyInv, AbsoluteInput
<1>6. SortInv' /\ MergeInv' /\ CoverInv'
  BY <1>2 DEF Keep, SortInv, MergeInv, CoverInv, ListInv, AbsoluteInput
<1> QED
  BY <1>3, <1>5, <1>6 DEF ListInv

LEMMA MergeDoneStep ==
  ASSUME RangeTypes, ListInv, MergeDone, UNCHANGED headerVars
  PROVE  RangeTypes' /\ ListInv'
<1>1. RangeTypes'
  BY DEF MergeDone, RangeTypes, headerVars
<1>2. ASSUME Tidied(rs, i) PROVE Tidied(rs, Len(rs) + 1)
  <2>1. i \in Nat /\ Len(rs) \in Nat /\ i > Len(rs)
    BY DEF MergeDone, RangeTypes
  <2> QED
    BY <1>2, <2>1 DEF Tidied
<1>3. TidyInv'
  BY <1>2 DEF MergeDone, TidyInv, ListInv, AbsoluteInput
<1>4. SortInv' /\ MergeInv' /\ CoverInv'
  BY DEF MergeDone, SortInv, MergeInv, CoverInv, ListInv, AbsoluteInput
<1> QED
  BY <1>1, <1>3, <1>4 DEF ListInv

(* A turn of one of the loops.                                              *)
LEMMA RangesStepKeeps ==
  ASSUME RangeIInv, RangesStep, UNCHANGED headerVars
  PROVE  RangeIInv'
<1>1. RangeTypes' /\ ListInv'
  BY SortShiftStep, SortNextStep, SortDoneStep, Head1Step, RemoveEmptyStep,
     MergeAfterStep, MergeBeforeStep, KeepStep, MergeDoneStep DEF RangeIInv, RangesStep
<1>2. /\ UNCHANGED <<entry, input>>
      /\ pc \in {"sort", "head", "merge"} /\ pc' \in {"sort", "head", "merge", "done"}
  BY DEF RangesStep, SortShift, SortNext, SortDone, Head1, RemoveEmpty, MergeAfter,
         MergeBefore, Keep, MergeDone, InMerge
<1>3. HeaderInv'
  BY <1>1, <1>2, HeaderKept DEF RangeIInv
<1> QED
  BY <1>1, <1>3 DEF RangeIInv

------------------------------------------------------------------------------
(* The steps of Ranges and SetRanges.                                       *)

LEMMA AskedForIs ==
  ASSUME NEW s, NEW size, NEW x
  PROVE  x \in AskedFor(s, size) <=>
           x \in 0 .. size - 1 /\ \E k \in 1..Len(s) : x \in AskedBytes(s[k], size)
<1> DEFINE all == {AskedBytes(s[k], size) : k \in 1..Len(s)}
           whole == 0 .. size - 1
<1>1. x \in UNION all <=> \E k \in 1..Len(s) : x \in AskedBytes(s[k], size)
  BY Zenon
<1> HIDE DEF all
<1>2. AskedFor(s, size) = (UNION all) \cap whole
  BY DEF AskedFor, all
<1> HIDE DEF whole
<1>3. x \in AskedFor(s, size) <=> x \in whole /\ x \in UNION all
  BY <1>2, Zenon
<1> QED
  BY <1>1, <1>3, Zenon DEF whole

(* Ranges and specs that name the same bytes one by one.                    *)
LEMMA SameMeaning ==
  ASSUME NEW s, NEW t, NEW size, Len(s) = Len(t),
         \A k \in 1..Len(t) : Bytes(s[k], size) = AskedBytes(t[k], size)
  PROVE  Covered(s, size) = AskedFor(t, size)
<1>1. \A x : (\E k \in 1..Len(s) : x \in Bytes(s[k], size))
             <=> (\E k \in 1..Len(t) : x \in AskedBytes(t[k], size))
  BY Zenon
<1>2. \A x : x \in Covered(s, size) <=> x \in AskedFor(t, size)
  BY <1>1, CoveredIs, AskedForIs, Zenon
<1> QED
  BY <1>2, Zenon

(* What a spec is parsed into, and what a range is formatted to.            *)
LEMMA ParsedIs ==
  ASSUME NEW s \in SpecType, s.kind \in {"both", "from", "last"}
  PROVE  /\ ParsedRange(s) \in RangeType
         /\ ~AsksForNothing(s) =>
              \A size \in Nat : Bytes(ParsedRange(s), size) = AskedBytes(s, size)
<1>0. s.a \in Nat /\ s.b \in Nat
  BY DEF SpecType
<1>1. CASE s.kind = "both"
  <2>1. ParsedRange(s) = [Start |-> s.a, End |-> s.b]
    BY <1>1 DEF ParsedRange
  <2>2. \A size \in Nat : AskedBytes(s, size) = s.a .. s.b
    BY <1>1 DEF AskedBytes
  <2> QED
    BY <1>0, <2>1, <2>2 DEF RangeType, Bytes, Abs
<1>2. CASE s.kind = "from"
  <2>1. ParsedRange(s) = [Start |-> s.a, End |-> -1]
    BY <1>2 DEF ParsedRange
  <2>2. \A size \in Nat : AskedBytes(s, size) = s.a .. size - 1
    BY <1>2 DEF AskedBytes
  <2> QED
    BY <1>0, <2>1, <2>2 DEF RangeType, Bytes, Abs
<1>3. CASE s.kind = "last"
  <2>1. ParsedRange(s) = [Start |-> -s.a, End |-> -1]
    BY <1>3 DEF ParsedRange
  <2>2. \A size \in Nat : AskedBytes(s, size) = (size - s.a) .. size - 1
    BY <1>3 DEF AskedBytes
  <2>3. ~AsksForNothing(s) => s.a > 0
    BY <1>0, <1>3 DEF AsksForNothing
  <2> QED
    BY <1>0, <2>1, <2>2, <2>3 DEF RangeType, Bytes, Abs
<1> QED
  BY <1>1, <1>2, <1>3

LEMMA FormattedIs ==
  ASSUME NEW r \in RangeType, Representable(r)
  PROVE  /\ FormatRange(r) \in SpecType
         /\ \A size \in Nat : Bytes(r, size) = AskedBytes(FormatRange(r), size)
<1> DEFINE s == FormatRange(r)
<1>0. r.Start \in Int /\ r.End \in Int
  BY DEF RangeType
<1>1. CASE r.Start < 0
  <2>1. s = [kind |-> "last", a |-> -r.Start, b |-> 0] /\ r.End = -1
    BY <1>0, <1>1 DEF FormatRange, Spec1, Representable
  <2> HIDE DEF s
  <2>2. \A size \in Nat : AskedBytes(s, size) = (size - s.a) .. size - 1
    BY <2>1 DEF AskedBytes
  <2>3. s \in SpecType
    BY <1>0, <1>1, <2>1 DEF SpecType, SpecKinds
  <2>4. \A size \in Nat : Bytes(r, size) = AskedBytes(s, size)
    BY <1>0, <1>1, <2>1, <2>2 DEF Bytes, Abs
  <2> QED
    BY <2>3, <2>4 DEF s
<1>2. CASE ~(r.Start < 0) /\ r.End < 0
  <2>1. s = [kind |-> "from", a |-> r.Start, b |-> 0] /\ r.End = -1
    BY <1>0, <1>2 DEF FormatRange, Spec1, Representable
  <2> HIDE DEF s
  <2>2. \A size \in Nat : AskedBytes(s, size) = s.a .. size - 1
    BY <2>1 DEF AskedBytes
  <2>3. s \in SpecType
    BY <1>0, <1>2, <2>1 DEF SpecType, SpecKinds
  <2>4. \A size \in Nat : Bytes(r, size) = AskedBytes(s, size)
    BY <1>0, <1>2, <2>1, <2>2 DEF Bytes, Abs
  <2> QED
    BY <2>3, <2>4 DEF s
<1>3. CASE ~(r.Start < 0) /\ ~(r.End < 0)
  <2>1. s = [kind |-> "both", a |-> r.Start, b |-> r.End]
    BY <1>0, <1>3 DEF FormatRange, Spec1
  <2> HIDE DEF s
  <2>2. \A size \in Nat : AskedBytes(s, size) = s.a .. s.b
    BY <2>1 DEF AskedBytes
  <2>3. s \in SpecType
    BY <1>0, <1>3, <2>1 DEF SpecType, SpecKinds
  <2>4. \A size \in Nat : Bytes(r, size) = AskedBytes(s, size)
    BY <1>0, <1>3, <2>1, <2>2 DEF Bytes, Abs
  <2> QED
    BY <2>3, <2>4 DEF s
<1> QED
  BY <1>1, <1>2, <1>3

LEMMA IgnoreHeaderStep ==
  ASSUME RangeIInv, IgnoreHeader
  PROVE  RangeIInv'
<1>1. /\ pc = "parse" /\ pc' \in {"done", "panic"} /\ i = 1 /\ entry = "Ranges"
      /\ ~get \/ unit # "bytes"
      /\ entry' = entry /\ input' = input /\ rs' = rs /\ get' = get /\ unit' = unit
  BY DEF RangeIInv, RangeTypes, IgnoreHeader, headerVars
<1>2. input = <<>> /\ rs \in Seq(RangeType) /\ Len(rs) = 0
  BY <1>1 DEF RangeIInv, RangeTypes, HeaderInv, ParseInv
<1>3. rs = <<>>
  BY <1>2
<1>4. RangeTypes'
  BY <1>1 DEF RangeIInv, RangeTypes, IgnoreHeader, headerVars
<1>5. SortInv' /\ TidyInv' /\ CoverInv'
  BY <1>1, <1>2, <1>3 DEF SortInv, TidyInv, CoverInv
<1>6. MergeInv'
  BY <1>1, <1>2 DEF MergeInv, AllAbsolute
<1>7. ParseInv' /\ MeansInv' /\ FormatInv'
  BY <1>1, <1>2 DEF ParseInv, MeansInv, FormatInv
<1> QED
  BY <1>4, <1>5, <1>6, <1>7 DEF RangeIInv, ListInv, HeaderInv

(* The loop that parses.                                                    *)
LEMMA Parsing ==
  ASSUME RangeIInv, pc = "parse", get, unit = "bytes"
  PROVE  /\ entry = "Ranges" /\ err = "nil"
         /\ rs \in Seq(RangeType) /\ specs \in Seq(SpecType)
         /\ Len(rs) \in Nat /\ Len(specs) \in Nat
         /\ i \in Nat /\ i >= 1 /\ i <= Len(specs) /\ Len(rs) = i - 1
         /\ \A k \in 1..(i - 1) : /\ specs[k].kind \in {"both", "from", "last"}
                                  /\ rs[k] = ParsedRange(specs[k])
  BY SMTT(40) DEF RangeIInv, RangeTypes, HeaderInv, ParseInv

LEMMA ParseSpecStep ==
  ASSUME RangeIInv, ParseSpec
  PROVE  RangeIInv'
<1> DEFINE p == ParsedRange(specs[i])
<1>1. /\ pc = "parse" /\ get /\ unit = "bytes"
      /\ specs[i].kind \in {"both", "from", "last"} /\ rs' = Append(rs, p)
      /\ entry' = entry /\ get' = get /\ unit' = unit /\ specs' = specs /\ err' = err
  BY DEF ParseSpec, headerVars
<1>2. /\ entry = "Ranges" /\ err = "nil"
      /\ rs \in Seq(RangeType) /\ specs \in Seq(SpecType)
      /\ Len(rs) \in Nat /\ Len(specs) \in Nat
      /\ i \in Nat /\ i >= 1 /\ i <= Len(specs) /\ Len(rs) = i - 1
      /\ \A k \in 1..(i - 1) : /\ specs[k].kind \in {"both", "from", "last"}
                               /\ rs[k] = ParsedRange(specs[k])
  BY <1>1, Parsing
<1>3. specs[i] \in SpecType /\ p \in RangeType
  <2>1. specs[i] \in SpecType
    BY <1>2
  <2> QED
    BY <1>1, <2>1, ParsedIs
<1> HIDE DEF p
<1>4. /\ rs' \in Seq(RangeType) /\ Len(rs') = i /\ rs'[i] = p
      /\ \A k \in 1..(i - 1) : rs'[k] = rs[k]
  BY <1>1, <1>2, <1>3
<1>5. \A k \in 1..i : specs[k].kind \in {"both", "from", "last"} /\ rs'[k] = ParsedRange(specs[k])
  <2> TAKE k \in 1..i
  <2>1. CASE k = i
    BY <1>1, <1>4, <2>1 DEF p
  <2>2. CASE k \in 1..(i - 1)
    BY <1>2, <1>4, <2>2
  <2> QED
    BY <1>2, <2>1, <2>2
<1>6. CASE i < Len(specs) /\ i' = i + 1 /\ UNCHANGED <<input, j, pc>>
  <2>1. RangeTypes'
    BY <1>1, <1>2, <1>4, <1>6 DEF RangeIInv, RangeTypes
  <2>2. ParseInv'
    BY <1>1, <1>2, <1>4, <1>5, <1>6 DEF RangeIInv, HeaderInv, ParseInv
  <2>3. SortInv' /\ MergeInv' /\ CoverInv' /\ TidyInv' /\ MeansInv' /\ FormatInv'
    BY <1>1, <1>2, <1>6 DEF SortInv, MergeInv, CoverInv, TidyInv, MeansInv, FormatInv
  <2> QED
    BY <2>1, <2>2, <2>3 DEF RangeIInv, ListInv, HeaderInv
<1>7. CASE i = Len(specs) /\ input' = rs' /\ i' = 2 /\ j' = 1 /\ pc' = "sort"
  <2>1. RangeTypes'
    BY <1>1, <1>2, <1>4, <1>7 DEF RangeIInv, RangeTypes
  <2>2. SortInv'
    BY <1>4, <1>7 DEF SortInv
  <2>3. MergeInv' /\ CoverInv' /\ TidyInv' /\ ParseInv' /\ FormatInv'
    BY <1>1, <1>2, <1>7
       DEF MergeInv, CoverInv, TidyInv, ParseInv, FormatInv, AbsoluteInput, AllAbsolute
  <2>4. MeansInv'
    <3>1. ASSUME \A k \in 1..Len(specs) : ~AsksForNothing(specs[k]), NEW size \in Sizes
          PROVE  Covered(rs', size) = AskedFor(specs, size)
      <4>1. size \in Nat
        BY SizesAreNat
      <4>2. ASSUME NEW k \in 1..Len(specs)
            PROVE  Bytes(rs'[k], size) = AskedBytes(specs[k], size)
        <5>1. /\ specs[k] \in SpecType /\ ~AsksForNothing(specs[k])
              /\ specs[k].kind \in {"both", "from", "last"} /\ rs'[k] = ParsedRange(specs[k])
          BY <1>2, <1>5, <1>7, <3>1
        <5> QED
          BY <4>1, <5>1, ParsedIs
      <4>3. Len(rs') = Len(specs)
        BY <1>4, <1>7
      <4> QED
        BY <4>2, <4>3, SameMeaning
    <3>2. Understood' = specs
      BY <1>1, <1>2 DEF Understood
    <3> QED
      BY <1>1, <1>7, <3>1, <3>2 DEF MeansInv
  <2> QED
    BY <2>1, <2>2, <2>3, <2>4 DEF RangeIInv, ListInv, HeaderInv
<1> QED
  BY <1>6, <1>7 DEF ParseSpec

LEMMA ParseFailsStep ==
  ASSUME RangeIInv, ParseFails
  PROVE  RangeIInv'
<1>1. /\ pc = "parse" /\ get /\ unit = "bytes" /\ pc' = "done" /\ input' = rs
      /\ entry' = entry /\ rs' = rs /\ i' = i /\ j' = j
      /\ get' = get /\ unit' = unit /\ specs' = specs /\ err' # "nil"
  BY DEF ParseFails
<1>2. /\ entry = "Ranges" /\ err = "nil"
      /\ rs \in Seq(RangeType) /\ specs \in Seq(SpecType)
      /\ Len(rs) \in Nat /\ Len(specs) \in Nat
      /\ i \in Nat /\ i >= 1 /\ i <= Len(specs) /\ Len(rs) = i - 1
      /\ \A k \in 1..(i - 1) : /\ specs[k].kind \in {"both", "from", "last"}
                               /\ rs[k] = ParsedRange(specs[k])
  BY <1>1, Parsing
<1>3. RangeTypes'
  BY <1>1, <1>2 DEF RangeIInv, RangeTypes
<1>4. SortInv' /\ MergeInv' /\ CoverInv' /\ TidyInv' /\ ParseInv' /\ FormatInv'
  BY <1>1, <1>2
     DEF SortInv, MergeInv, CoverInv, TidyInv, ParseInv, FormatInv, AbsoluteInput, AllAbsolute
<1>5. MeansInv'
  <2> DEFINE u == SubSeq(specs, 1, i - 1)
  <2>1. Understood' = u
    BY <1>1 DEF Understood
  <2>2. Len(u) = i - 1 /\ \A k \in 1..(i - 1) : u[k] = specs[k]
    BY <1>2
  <2> HIDE DEF u
  <2>3. ASSUME \A k \in 1..Len(specs) : ~AsksForNothing(specs[k]), NEW size \in Sizes
        PROVE  Covered(rs, size) = AskedFor(u, size)
    <3>1. size \in Nat
      BY SizesAreNat
    <3>2. ASSUME NEW k \in 1..Len(u)
          PROVE  Bytes(rs[k], size) = AskedBytes(u[k], size)
      <4>1. k \in 1..Len(specs) /\ k \in 1..(i - 1)
        BY <1>2, <2>2
      <4>2. /\ specs[k] \in SpecType /\ ~AsksForNothing(specs[k]) /\ u[k] = specs[k]
            /\ specs[k].kind \in {"both", "from", "last"} /\ rs[k] = ParsedRange(specs[k])
        BY <1>2, <2>2, <2>3, <4>1
      <4> QED
        BY <3>1, <4>2, ParsedIs
    <3>3. Len(rs) = Len(u)
      BY <1>2, <2>2
    <3> QED
      BY <3>2, <3>3, SameMeaning
  <2> QED
    BY <1>1, <2>1, <2>3 DEF MeansInv
<1> QED
  BY <1>3, <1>4, <1>5 DEF RangeIInv, ListInv, HeaderInv

(* What stays when SetRanges takes a step.                                  *)
LEMMA SetRangesKeeps ==
  ASSUME RangeIInv, pc = "format", pc' \in {"format", "done"}, UNCHANGED <<entry, input, rs>>
  PROVE  ListInv' /\ ParseInv' /\ MeansInv'
<1>1. entry = "SetRanges"
  BY DEF RangeIInv, RangeTypes
<1>2. SortInv' /\ TidyInv' /\ ParseInv' /\ MeansInv'
  BY <1>1 DEF SortInv, TidyInv, ParseInv, MeansInv
<1>3. MergeInv' /\ CoverInv'
  BY <1>1 DEF RangeIInv, ListInv, MergeInv, CoverInv, AbsoluteInput
<1> QED
  BY <1>2, <1>3 DEF ListInv

LEMMA FormatNextStep ==
  ASSUME RangeIInv, FormatNext
  PROVE  RangeIInv'
<1>1. ListInv' /\ ParseInv' /\ MeansInv'
  BY SetRangesKeeps DEF FormatNext
<1>2. /\ rs \in Seq(RangeType) /\ specs \in Seq(SpecType) /\ Len(rs) \in Nat
      /\ i \in Nat /\ i >= 1 /\ i <= Len(rs) /\ entry = "SetRanges" /\ pc = "format"
      /\ Len(specs) = i - 1
      /\ \A k \in 1..(i - 1) : Representable(rs[k]) /\ specs[k] = FormatRange(rs[k])
  BY DEF RangeIInv, RangeTypes, HeaderInv, FormatInv, FormatNext
<1>3. rs[i] \in RangeType /\ Representable(rs[i])
  BY <1>2 DEF FormatNext
<1>4. FormatRange(rs[i]) \in SpecType
  BY <1>3, FormattedIs
<1>5. /\ specs' \in Seq(SpecType) /\ Len(specs') = i /\ specs'[i] = FormatRange(rs[i])
      /\ \A k \in 1..(i - 1) : specs'[k] = specs[k]
  BY <1>2, <1>4 DEF FormatNext
<1>6. RangeTypes'
  BY <1>2, <1>5 DEF RangeIInv, RangeTypes, FormatNext
<1>7. FormatInv'
  <2>1. \A k \in 1..i : Representable(rs[k]) /\ specs'[k] = FormatRange(rs[k])
    <3> TAKE k \in 1..i
    <3>1. CASE k = i
      BY <1>3, <1>5, <3>1
    <3>2. CASE k \in 1..(i - 1)
      BY <1>2, <1>5, <3>2
    <3> QED
      BY <1>2, <3>1, <3>2
  <2>2. /\ i' = i + 1 /\ i' - 1 = i /\ rs' = rs /\ input' = input /\ pc' = pc
        /\ unit' = unit
    BY <1>2 DEF FormatNext
  <2> QED
    BY <1>2, <1>5, <2>1, <2>2 DEF RangeIInv, HeaderInv, FormatInv
<1> QED
  BY <1>1, <1>6, <1>7 DEF RangeIInv, HeaderInv

LEMMA FormatEndsStep ==
  ASSUME RangeIInv, FormatFails \/ FormatDone
  PROVE  RangeIInv'
<1>1. /\ pc = "format" /\ pc' = "done" /\ UNCHANGED <<entry, input, rs, i, j, unit, specs>>
  BY DEF FormatFails, FormatDone, headerVars
<1>2. ListInv' /\ ParseInv' /\ MeansInv'
  BY <1>1, SetRangesKeeps
<1>3. RangeTypes'
  BY <1>1 DEF RangeIInv, RangeTypes
<1>4. FormatInv'
  BY <1>1 DEF RangeIInv, HeaderInv, FormatInv
<1> QED
  BY <1>2, <1>3, <1>4 DEF RangeIInv, HeaderInv

------------------------------------------------------------------------------
(* The beginning, and what the invariant means for a caller.                *)

LEMMA SpecsTyped == Specs \subseteq SpecType
  BY HeaderAssumption DEF HeaderAssumption, Specs, Spec1, SpecType, SpecKinds

LEMMA RangesTyped ==
  ASSUME NEW n \in Nat, NEW s \in UNION {[1..m -> ByteRange] : m \in 0..n}
  PROVE  s \in Seq(RangeType)
<1>1. PICK m \in 0..n : s \in [1..m -> ByteRange]
  OBVIOUS
<1>2. ByteRange \subseteq RangeType
  BY RangesAssumption DEF RangesAssumption, ByteRange, RangeType
<1>3. s \in [1..m -> RangeType] /\ m \in Nat
  BY <1>1, <1>2
<1> QED
  BY <1>3

LEMMA RangeInit == Init => RangeIInv
<1>1. ASSUME RangesInit, NoRangeHeader PROVE RangeIInv
  <2>1. rs \in Seq(RangeType) /\ input = rs /\ specs = <<>> /\ specs \in Seq(SpecType)
    BY <1>1, RangesTyped, RangesAssumption DEF RangesInit, NoRangeHeader, RangesAssumption
  <2>2. RangeTypes
    BY <1>1, <2>1 DEF RangesInit, NoRangeHeader, RangeTypes
  <2>3. SortInv
    BY <1>1 DEF RangesInit, SortInv
  <2>4. MergeInv /\ CoverInv /\ TidyInv
    BY <1>1, <2>1 DEF RangesInit, MergeInv, CoverInv, TidyInv, AbsoluteInput, AllAbsolute
  <2>5. HeaderInv
    BY <1>1 DEF RangesInit, HeaderInv, ParseInv, MeansInv, FormatInv
  <2> QED
    BY <2>2, <2>3, <2>4, <2>5 DEF RangeIInv, ListInv
<1>2. ASSUME CallRanges PROVE RangeIInv
  <2>1. specs \in Seq(SpecType) /\ Len(specs) >= 1
    <3>1. PICK n \in 1..MaxSpecs : specs \in [1..n -> Specs]
      BY <1>2 DEF CallRanges
    <3>2. specs \in [1..n -> SpecType] /\ n \in Nat /\ n >= 1
      BY <3>1, SpecsTyped, HeaderAssumption DEF HeaderAssumption
    <3> QED
      BY <3>2
  <2>2. RangeTypes
    BY <1>2, <2>1 DEF CallRanges, RangeTypes
  <2>3. ListInv
    BY <1>2 DEF CallRanges, ListInv, SortInv, MergeInv, CoverInv, TidyInv
  <2>4. HeaderInv
    BY <1>2 DEF CallRanges, HeaderInv, ParseInv, MeansInv, FormatInv
  <2> QED
    BY <2>2, <2>3, <2>4 DEF RangeIInv
<1>3. ASSUME CallSetRanges PROVE RangeIInv
  <2>1. rs \in Seq(RangeType) /\ input = rs /\ specs = <<>> /\ specs \in Seq(SpecType)
    BY <1>3, RangesTyped, HeaderAssumption DEF CallSetRanges, NoRangeHeader, HeaderAssumption
  <2>2. RangeTypes
    BY <1>3, <2>1 DEF CallSetRanges, RangeTypes
  <2>3. ListInv
    BY <1>3, <2>1 DEF CallSetRanges, ListInv, SortInv, MergeInv, CoverInv, TidyInv,
                      AbsoluteInput, AllAbsolute
  <2>4. HeaderInv
    BY <1>3, <2>1 DEF CallSetRanges, NoRangeHeader, HeaderInv, ParseInv, MeansInv, FormatInv
  <2> QED
    BY <2>2, <2>3, <2>4 DEF RangeIInv
<1> QED
  BY <1>1, <1>2, <1>3 DEF Init

LEMMA RangeNext == RangeIInv /\ [Next]_vars => RangeIInv'
<1> SUFFICES ASSUME RangeIInv, [Next]_vars PROVE RangeIInv'
  OBVIOUS
<1>1. CASE UNCHANGED vars
  BY <1>1 DEF vars, rangeVars, headerVars, RangeIInv, RangeTypes, ListInv, SortInv, MergeInv,
     CoverInv, TidyInv, HeaderInv, ParseInv, MeansInv, FormatInv, AbsoluteInput, Understood
<1>2. CASE Step
  BY <1>2, IgnoreHeaderStep, ParseSpecStep, ParseFailsStep, FormatNextStep, FormatEndsStep,
     RangesStepKeeps DEF Step
<1> QED
  BY <1>1, <1>2 DEF Next, Returned

LEMMA RangeInvariant == Spec => []RangeIInv
<1> QED
  BY RangeInit, RangeNext, PTL DEF Spec

(* TidyRanges and MergeRanges never add or lose a byte, for every list of   *)
(* ranges and data of every size.                                           *)
THEOREM RangesKeepCoverage == Spec => []CoverageKept
<1>1. RangeIInv => CoverageKept
  BY DEF RangeIInv, RangeTypes, ListInv, CoverInv, CoverageKept
<1> QED
  BY <1>1, RangeInvariant, PTL

(* TidyRanges returns absolute ranges in order, not empty and disjoint,     *)
(* however many there are.                                                  *)
THEOREM RangesAreTidied == Spec => []TidyResult
<1>1. RangeIInv => TidyResult
  <2> SUFFICES ASSUME RangeIInv, pc = "done", entry = "TidyRanges", AbsoluteInput,
                      NEW a \in 1..Len(rs), NEW b \in 1..Len(rs)
               PROVE  (a < b => rs[a].End < rs[b].Start) /\ rs[a].Start <= rs[a].End
    BY DEF TidyResult
  <2>1. Tidied(rs, Len(rs) + 1) /\ Len(rs) \in Nat
    BY DEF RangeIInv, RangeTypes, ListInv, TidyInv
  <2> QED
    BY <2>1 DEF Tidied
<1> QED
  BY <1>1, RangeInvariant, PTL

(* Ranges returns the bytes a Range header selects, its unit and the method *)
(* included; SetRanges writes the right specs, and no unit, so that what it *)
(* wrote selects nothing.  Any number of specs and ranges, any numbers.     *)
THEOREM HeadersMeanTheirRanges == Spec => []HeaderMeansRanges
<1>1. RangeIInv => HeaderMeansRanges
  <2> SUFFICES ASSUME RangeIInv, pc = "done", NEW size \in Sizes
               PROVE  /\ /\ entry = "Ranges"
                         /\ \A k \in 1..Len(specs) : ~AsksForNothing(specs[k])
                         => Covered(rs, size) = IF get THEN Selected(unit, Understood, size) ELSE {}
                      /\ entry = "SetRanges"
                         => /\ AskedFor(specs, size) = Covered(SubSeq(input, 1, Len(specs)), size)
                            /\ Selected(unit, specs, size) = {}
    BY DEF HeaderMeansRanges
  <2>1. ASSUME entry = "Ranges",
               \A k \in 1..Len(specs) : ~AsksForNothing(specs[k])
        PROVE  Covered(rs, size) = IF get THEN Selected(unit, Understood, size) ELSE {}
    <3>1. Covered(rs, size) = Covered(input, size)
      BY <2>1 DEF RangeIInv, ListInv, CoverInv
    <3>2. CASE get /\ unit = "bytes"
      <4>1. Covered(input, size) = AskedFor(Understood, size)
        BY <2>1, <3>2 DEF RangeIInv, HeaderInv, MeansInv
      <4> QED
        BY <3>1, <3>2, <4>1 DEF Selected
    <3>3. CASE ~(get /\ unit = "bytes")
      <4>1. input = <<>>
        BY <2>1, <3>3 DEF RangeIInv, HeaderInv, MeansInv
      <4>2. \A x : x \notin Covered(input, size)
        BY <4>1, CoveredIs
      <4>3. Covered(input, size) = {}
        BY <4>2
      <4> QED
        BY <3>1, <3>3, <4>3 DEF Selected
    <3> QED
      BY <3>2, <3>3
  <2>2. ASSUME entry = "SetRanges"
        PROVE  AskedFor(specs, size) = Covered(SubSeq(input, 1, Len(specs)), size)
    <3> DEFINE u == SubSeq(input, 1, Len(specs))
    <3>1. /\ rs \in Seq(RangeType) /\ Len(rs) \in Nat /\ i \in Nat /\ i >= 1
          /\ rs = input /\ Len(specs) = i - 1 /\ i <= Len(rs) + 1
          /\ \A k \in 1..(i - 1) : Representable(rs[k]) /\ specs[k] = FormatRange(rs[k])
      BY <2>2 DEF RangeIInv, RangeTypes, HeaderInv, FormatInv
    <3>2. Len(u) = i - 1 /\ \A k \in 1..(i - 1) : u[k] = rs[k]
      BY <3>1
    <3> HIDE DEF u
    <3>3. size \in Nat
      BY SizesAreNat
    <3>4. ASSUME NEW k \in 1..Len(specs)
          PROVE  Bytes(u[k], size) = AskedBytes(specs[k], size)
      <4>1. /\ rs[k] \in RangeType /\ Representable(rs[k]) /\ specs[k] = FormatRange(rs[k])
            /\ u[k] = rs[k]
        BY <3>1, <3>2
      <4> QED
        BY <3>3, <4>1, FormattedIs
    <3>5. Len(u) = Len(specs)
      BY <3>1, <3>2
    <3>6. Covered(u, size) = AskedFor(specs, size)
      BY <3>4, <3>5, SameMeaning
    <3> QED
      BY <3>6 DEF u
  <2>3. ASSUME entry = "SetRanges" PROVE Selected(unit, specs, size) = {}
    BY <2>3 DEF RangeIInv, HeaderInv, FormatInv, Selected
  <2> QED
    BY <2>1, <2>2, <2>3
<1> QED
  BY <1>1, RangeInvariant, PTL
==============================================================================
