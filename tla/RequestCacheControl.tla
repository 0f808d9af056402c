------------------------ MODULE RequestCacheControl ------------------------
(* The cache settings of a request (RequestCacheControl in                   *)
(* src/http/cache-control.go) and the headers Cache-Control and Pragma they  *)
(* live in (Request in src/http/request.go), and the exchange they belong    *)
(* to: the request is handled and passed on, then its response is.           *)
(*                                                                           *)
(* As in a response, each value of Cache-Control is parsed as one directive, *)
(* and a field line of the request becomes one value, commas and all         *)
(* (headerParser.go): of several directives on one line the parser knows     *)
(* none.  The flags and ages are those of values of their own, a line is     *)
(* what CacheControl says, its age of any name.  Pragma is whether it asks   *)
(* for no-cache.                                                             *)
EXTENDS CacheControl

VARIABLES
  side,          \* whose turn it is: the request's or the response's
  reqHeader,     \* the values of Cache-Control that are directives, and Pragma
  reqLine,       \* the value of Cache-Control that is a line of several
  hasReqControl, \* Request.hasCacheControl
  reqControl,    \* Request.cacheControl
  reqExtra,      \* the line among its Extras
  pointer,       \* a handler has been given &Request.cacheControl
  written,       \* FormatCacheControl was called, and nothing changed since
  wanted,        \* the flags of whoever spoke last, values of their own
  lineWanted,    \* the flags on the client's line, up to its first age
  oldWanted      \* the request came with Pragma: no-cache and was not changed

reqVars == <<reqHeader, reqLine, hasReqControl, reqControl, reqExtra, pointer, written,
             wanted, lineWanted, oldWanted>>

ReqModes == {"Unspecified", "NoCache", "NoStore", "OnlyIfCached"}
ModeFlags == {"no-cache", "no-store", "only-if-cached"}
AgeNames == {"max-age", "min-fresh", "max-stale"}

BadAge == -7     \* an argument that is not a number
NoAges == [a \in AgeNames |-> Unknown]
DefaultControl == [mode |-> "Unspecified", ages |-> NoAges, transform |-> TRUE]
NoReqHeader == [flags |-> {}, ages |-> NoAges, pragma |-> FALSE]

------------------------------------------------------------------------------
(* ParseRequestCacheControlDirectives and modeHeaders.                      *)

RequestMode(flags) ==
  IF "only-if-cached" \in flags THEN "OnlyIfCached"
  ELSE IF "no-store" \in flags THEN "NoStore"
  ELSE IF "no-cache" \in flags THEN "NoCache" ELSE "Unspecified"

ParsedRequest(h) ==
  [mode |-> RequestMode(h.flags), ages |-> h.ages,
   transform |-> "no-transform" \notin h.flags]

(* The first age that is not a number ends the parse with the error, be it  *)
(* a value of its own or the beginning of a line: it counts as 0, the modes *)
(* as not given, and what comes after it is unread.                         *)
Malformed(h, l) == ~Readable(l) \/ \E a \in AgeNames : h.ages[a] = BadAge
PartlyParsed(h, l) ==
  {[mode |-> "Unspecified", transform |-> tr,
    ages |-> [a \in AgeNames |-> IF a = bad THEN 0 ELSE IF a \in seen THEN h.ages[a] ELSE Unknown]] :
     bad \in {a \in AgeNames : h.ages[a] = BadAge \/ ~Readable(l)},
     seen \in SUBSET {a \in AgeNames : h.ages[a] # BadAge},
     tr \in {TRUE, "no-transform" \notin h.flags}}

ModeHeaders(m) ==
  CASE m = "NoCache" -> {"no-cache"}
    [] m = "NoStore" -> {"no-store"}
    [] m = "OnlyIfCached" -> {"only-if-cached"}
    [] OTHER -> {}

RequestFlags(rc) ==
  ModeHeaders(rc.mode) \union (IF rc.transform THEN {} ELSE {"no-transform"})

(* PragmaNoCacheYes adds the value, PragmaNoCacheNo deletes the header.     *)
Pragma(m, p) ==
  CASE m = "NoCache" -> TRUE
    [] m \in {"NoStore", "OnlyIfCached"} -> FALSE
    [] OTHER -> p

------------------------------------------------------------------------------
(* The request.                                                             *)

(* Any flags and at most one age, which may not be a number, ...            *)
RequestHeaders ==
  [flags : SUBSET (ModeFlags \union {"no-transform"}),
   ages : {NoAges} \union {[NoAges EXCEPT ![a] = d] : a \in AgeNames, d \in Ages \union {BadAge}},
   pragma : BOOLEAN]

(* ... and a line of several directives.                                    *)
RequestLines ==
  {l \in [front : SUBSET {"no-cache", "no-transform"}, age : (Ages \ {0}) \union {Unknown},
          behind : {{}, {"no-store"}}] : IsLine(l)}

(* Request.CacheControl: the headers are parsed on first use; Pragma is not *)
(* looked at.  After an error the settings are parsed again each time.      *)
GetRequestControl ==
  /\ ~hasReqControl
  /\ \/ /\ ~Malformed(reqHeader, reqLine)
        /\ reqControl' = ParsedRequest(reqHeader) /\ reqExtra' = reqLine
        /\ hasReqControl' = TRUE
     \/ /\ Malformed(reqHeader, reqLine)
        /\ reqControl' \in PartlyParsed(reqHeader, reqLine) /\ reqExtra' \in {NoLine, reqLine}
        /\ UNCHANGED hasReqControl
  /\ pointer' = TRUE
  /\ written' = FALSE
  /\ UNCHANGED <<reqHeader, reqLine, wanted, lineWanted, oldWanted>>

(* The setters, through the pointer: without hasReqControl nobody will ever *)
(* read what they set.                                                      *)
SetRequest(rc) ==
  /\ pointer
  /\ reqControl' = rc
  /\ written' = FALSE
  /\ wanted' = IF hasReqControl THEN RequestFlags(rc) ELSE wanted
  /\ oldWanted' = (oldWanted /\ ~hasReqControl)
  /\ UNCHANGED <<reqHeader, reqLine, hasReqControl, reqExtra, pointer, lineWanted>>

SetRequestControl ==
  \/ \E m \in ReqModes : SetRequest([reqControl EXCEPT !.mode = m])
  \/ \E tr \in BOOLEAN : SetRequest([reqControl EXCEPT !.transform = tr])
  \/ \E a \in AgeNames, d \in Ages : SetRequest([reqControl EXCEPT !.ages[a] = d])

(* Mutation: the headers are written although nobody has parsed them.       *)
FormatUnparsed ==
  /\ reqHeader' = [flags |-> RequestFlags(reqControl), ages |-> NoAges,
                   pragma |-> Pragma(reqControl.mode, reqHeader.pragma)]
  /\ reqLine' = ExtraString(reqExtra)
  /\ written' = TRUE
  /\ UNCHANGED <<hasReqControl, reqControl, reqExtra, pointer, wanted, lineWanted, oldWanted>>

(* Request.FormatCacheControl.  Headers() writes no age.                    *)
FormatRequestControl ==
  /\ \/ /\ hasReqControl
        /\ reqHeader' = [flags |-> RequestFlags(reqControl), ages |-> NoAges,
                         pragma |-> Pragma(reqControl.mode, reqHeader.pragma)]
        /\ reqLine' = ExtraString(reqExtra)
     \/ ~hasReqControl /\ UNCHANGED <<reqHeader, reqLine>>
  /\ written' = TRUE
  /\ UNCHANGED <<hasReqControl, reqControl, reqExtra, pointer, wanted, lineWanted, oldWanted>>

DiscardRequestControl ==
  /\ hasReqControl
  /\ hasReqControl' = FALSE
  /\ written' = FALSE
  /\ wanted' = reqHeader.flags
  /\ oldWanted' = (oldWanted /\ reqHeader.pragma)
  /\ UNCHANGED <<reqHeader, reqLine, reqControl, reqExtra, pointer, lineWanted>>

RequestStep ==
  \/ GetRequestControl \/ SetRequestControl \/ FormatRequestControl
  \/ DiscardRequestControl

------------------------------------------------------------------------------
(* The exchange.                                                            *)

ExchangeInit ==
  /\ side = "request"
  /\ reqHeader \in RequestHeaders /\ reqLine \in RequestLines
  /\ reqLine = NoLine \/ (reqHeader.ages = NoAges /\ Cardinality(reqHeader.flags) <= 1)
  /\ hasReqControl = FALSE /\ pointer = FALSE /\ written = FALSE
  /\ reqControl = DefaultControl /\ reqExtra = NoLine
  /\ wanted = reqHeader.flags /\ lineWanted = reqLine.front /\ oldWanted = reqHeader.pragma
  /\ ResponseInit

(* The request has been dealt with, and a response to it is there, to which *)
(* a handler has perhaps given cache headers.                               *)
Respond ==
  /\ written
  /\ side' = "response"
  /\ reqHeader' = NoReqHeader /\ reqLine' = NoLine
  /\ hasReqControl' = FALSE /\ pointer' = FALSE /\ written' = FALSE
  /\ reqControl' = DefaultControl /\ reqExtra' = NoLine
  /\ wanted' = {} /\ lineWanted' = {} /\ oldWanted' = FALSE
  /\ header' \in ResponseHeaders /\ line' \in ResponseLines
  /\ line' = NoLine \/ (header'.flags = {} /\ header'.age = Unknown)
  /\ asked' = Told(header', line')
  /\ UNCHANGED <<hasCacheControl, rcc, extra, now, formatted, received, timed>>

ExchangeNext ==
  \/ side = "request" /\ RequestStep /\ UNCHANGED <<side, responseVars>>
  \/ side = "request" /\ Respond
  \/ side = "response" /\ ResponseStep /\ UNCHANGED <<side, reqVars>>

ExchangeSpec == ExchangeInit /\ [][ExchangeNext]_<<side, reqVars, responseVars>>

------------------------------------------------------------------------------
(* Properties.                                                              *)

(* However often the settings are parsed, read, discarded and written, the  *)
(* request asks of caches what its client, or the last handler to set       *)
(* something, asked of them: no flag is lost, whether the program read it   *)
(* or, on a line of several, did not, and old caches, which only know       *)
(* Pragma, are still told not to use what they have, unless the newer       *)
(* header forbids more.                                                     *)
(* What does not hold, and is left out here: ages are not written back at   *)
(* all; of several modes in values of their own one is kept; on a line,     *)
(* flags behind an age end in the quotes around it, and no-cache brings no  *)
(* Pragma with it, since the mode was not understood; and what is set after *)
(* a header that could not be parsed is never read, so that the client's    *)
(* demands stand.                                                           *)
RequestKeepsDemands ==
  written =>
    /\ lineWanted \subseteq reqLine.front
    /\ Cardinality(wanted \intersect ModeFlags) <= 1 => wanted \subseteq reqHeader.flags
    /\ oldWanted \/ (hasReqControl /\ "no-cache" \in reqHeader.flags) =>
         reqHeader.pragma \/ reqHeader.flags \intersect {"no-store", "only-if-cached"} # {}
==============================================================================
