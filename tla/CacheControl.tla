----------------------------- MODULE CacheControl -----------------------------
(* The cache settings of a response (src/http/cache-control.go) and the two  *)
(* headers they live in (Response in src/http/request.go): written by the    *)
(* handler or parsed on first use, changed, formatted when the header is     *)
(* generated, discarded and parsed again.  Nothing in the repository parses  *)
(* a response that came over a connection.                                   *)
(*                                                                           *)
(* Each value of the header is parsed as ONE directive; a header holds its   *)
(* values apart until FormatHeaders joins them, with commas, on the way out. *)
(* A handler may also have written one value that is a whole line of several *)
(* directives: the parser takes it for one directive it does not know, or    *)
(* fails.  Such a line is the flags in front of its first argument, that     *)
(* argument, a max-age, and the flags behind it.                             *)
(*                                                                           *)
(* Ages and times are in seconds; an unknown age is the code's -1 ns, which  *)
(* formats as 0.  Left out, as values of their own that touch nothing else:  *)
(* no-transform, other unknown directives, and the empty ones that           *)
(* ParseCacheControlDirectives puts in front of what it parses, which stay   *)
(* among the Extras and are written as empty values.                         *)
EXTENDS Integers, FiniteSets

CONSTANTS
  Ages,    \* the max ages that are set
  MaxNow   \* bound: the clock

ASSUME CacheAssumption == Ages \subseteq Nat /\ MaxNow \in Nat

VARIABLES
  header,          \* the values of Cache-Control that are directives, and Expires
  line,            \* the value of Cache-Control that is a line of several
  hasCacheControl, \* Response.hasCacheControl
  rcc,             \* Response.cacheControl
  extra,           \* the line among its Extras
  now,             \* the clock
  formatted,       \* the settings were formatted and not changed since
  received,        \* nothing was set since the headers were written
  timed,           \* the caches whose expiry was given as a time
  asked            \* what the headers, or else the settings, allow each cache

responseVars ==
  <<header, line, hasCacheControl, rcc, extra, now, formatted, received, timed, asked>>

Modes == {"Unspecified", "CanCache", "MustRevalidate", "NoCache", "NoStore"}

Unknown == -1    \* an age
NoTime == -2     \* no Expires header
BadTime == -3    \* one that is not a date
ZeroTime == -4   \* time.Time{}
PastTime == -5
Quoted == -6     \* an age in quotes, with whatever stood behind it

NoExpiry == [kind |-> "none", maxAge |-> Unknown, expires |-> ZeroTime]
MaxAgeOnly(d) == [kind |-> "maxAge", maxAge |-> d, expires |-> ZeroTime]
ExpiresOnly(t) == [kind |-> "expires", maxAge |-> Unknown, expires |-> t]

NoHeader == [flags |-> {}, age |-> Unknown, sAge |-> Unknown, expires |-> NoTime]
NoLine == [front |-> {}, age |-> Unknown, behind |-> {}]

------------------------------------------------------------------------------
(* ExpiryTime: what was set, and the other form of it once that was asked   *)
(* for.                                                                     *)

(* Mutation: the age is not kept.                                           *)
BothFromExpiresAnew(e) ==
  [e EXCEPT !.maxAge = IF now > e.expires THEN now - e.expires ELSE 0]

(* makeBothFromExpires, with the time since the expiry.                     *)
BothFromExpires(e) ==
  [e EXCEPT !.kind = "both", !.maxAge = IF now > e.expires THEN now - e.expires ELSE 0]

BothFromMaxAge(e) ==
  [e EXCEPT !.kind = "both",
            !.expires = IF e.maxAge = Unknown THEN ZeroTime
                        ELSE IF e.maxAge = 0 THEN PastTime ELSE now + e.maxAge]

(* MaxAge, Expires and MaxAgeAndExpires change the ExpiryTime.              *)
WithMaxAge(e) == IF e.kind = "expires" THEN BothFromExpires(e) ELSE e
WithExpires(e) == IF e.kind = "maxAge" THEN BothFromMaxAge(e) ELSE e
WithBoth(e) == WithExpires(WithMaxAge(e))

AgeOf(e) == WithMaxAge(e).maxAge

------------------------------------------------------------------------------
(* headers1: which headers the settings become.                             *)

(* maxAge and sMaxAge print whole seconds.                                  *)
Seconds(d) == IF d = Unknown THEN 0 ELSE d

Directives(flags, age, sAge, t) ==
  [flags |-> flags, age |-> age, sAge |-> sAge, expires |-> t]

NotStored == Directives({"no-store"}, Unknown, Unknown, PastTime)
NotCached == Directives({"no-cache"}, Unknown, Unknown, PastTime)

(* For public caches that must not store it.                                *)
PrivateOnly(m, age) ==
  CASE m \in {"CanCache", "Unspecified"} -> Directives({"private"}, age, Unknown, PastTime)
    [] m = "MustRevalidate" /\ age > 0 ->
         Directives({"private", "must-revalidate"}, age, Unknown, PastTime)
    [] m = "MustRevalidate" /\ age = Unknown ->
         Directives({"private"}, Unknown, Unknown, PastTime)
    [] m = "NoCache" \/ (m = "MustRevalidate" /\ age = 0) ->
         Directives({"private", "no-cache"}, Unknown, Unknown, PastTime)
    [] OTHER -> NotStored

(* For public caches that must always ask.                                  *)
PublicNoCache(m, age) ==
  CASE m \in {"CanCache", "MustRevalidate"} /\ age # 0 ->
         Directives({"must-revalidate"}, age, 0, PastTime)
    [] m = "NoStore" -> NotStored
    [] OTHER -> NotCached

(* Both ages, or the one that they have in common.                          *)
BothAges(flag, age, sAge, t) ==
  Directives({flag}, Seconds(age), IF age = sAge THEN Unknown ELSE Seconds(sAge), t)

PublicMustRevalidate(m, age, sAge, t) ==
  CASE m = "CanCache" -> BothAges("proxy-revalidate", age, sAge, t)
    [] m \in {"MustRevalidate", "Unspecified"} -> BothAges("must-revalidate", age, sAge, t)
    [] m = "NoCache" /\ sAge > 0 -> Directives({"must-revalidate"}, 0, sAge, PastTime)
    [] m = "NoCache" /\ sAge = 0 -> NotCached
    [] m = "NoCache" /\ sAge = Unknown -> NoHeader
    [] OTHER -> NotStored

PublicCanCache(m, age, sAge, t) ==
  CASE m \in {"CanCache", "Unspecified"} -> BothAges("public", age, sAge, t)
    [] m = "MustRevalidate" -> BothAges("must-revalidate", age, sAge, t)
    [] m = "NoCache" -> Directives({"must-revalidate"}, 0, Seconds(sAge), PastTime)
    [] OTHER -> NotStored

(* Which ages are read, and so fixed, on the way.                           *)
ReadsPrivate(r) ==
  \/ r.PublicMode # "Unspecified" /\ r.PrivateMode \in {"CanCache", "MustRevalidate"}
  \/ r.PublicMode \notin {"Unspecified", "NoCache"} /\ r.PrivateMode = "Unspecified"
ReadsPublic(r) == r.PublicMode \in {"MustRevalidate", "CanCache"}

Fixed(r) ==
  [r EXCEPT !.PrivateExpiry = IF ReadsPrivate(r) THEN WithMaxAge(@) ELSE @,
            !.PublicExpiry = IF ReadsPublic(r) THEN WithBoth(@) ELSE @]

Headers1(r) ==
  LET m == r.PrivateMode
      age == AgeOf(r.PrivateExpiry)
      sAge == AgeOf(r.PublicExpiry)
      t == IF sAge = Unknown THEN NoTime ELSE WithBoth(r.PublicExpiry).expires
  IN  CASE r.PublicMode = "NoStore" -> PrivateOnly(m, age)
        [] r.PublicMode = "NoCache" -> PublicNoCache(m, age)
        [] r.PublicMode = "MustRevalidate" -> PublicMustRevalidate(m, age, sAge, t)
        [] r.PublicMode = "CanCache" -> PublicCanCache(m, age, sAge, t)
        [] OTHER -> NoHeader

------------------------------------------------------------------------------
(* ParseResourceCacheControlDirectives.                                     *)

(* The strictest of the flags, for private caches.                          *)
StrictMode(flags) ==
  IF "no-store" \in flags THEN "NoStore"
  ELSE IF "no-cache" \in flags THEN "NoCache"
  ELSE IF "must-revalidate" \in flags THEN "MustRevalidate" ELSE "Unspecified"

ParsedPrivate(flags) ==
  IF StrictMode(flags) = "Unspecified" /\ "private" \notin flags /\ "public" \in flags
    THEN "CanCache"
    ELSE StrictMode(flags)

(* A strict mode without "private" is NoStore for public caches too.        *)
ParsedPublic(flags) ==
  IF "private" \in flags \/ StrictMode(flags) # "Unspecified" THEN "NoStore"
  ELSE IF "proxy-revalidate" \in flags THEN "MustRevalidate"
  ELSE IF "public" \in flags THEN "CanCache" ELSE "Unspecified"

(* Expires counts only if it does not parse, and then as the zero time.     *)
ParsedPrivateExpiry(h) ==
  IF h.age # Unknown THEN MaxAgeOnly(h.age)
  ELSE IF h.expires = BadTime THEN ExpiresOnly(ZeroTime) ELSE NoExpiry

ParsedPublicExpiry(h) ==
  IF h.sAge # Unknown THEN MaxAgeOnly(h.sAge)
  ELSE IF h.age # Unknown THEN MaxAgeOnly(h.age) ELSE NoExpiry

(* Mutation: an age of 0 is left as it is.                                  *)
DoNoExpiryStuff(r) == r

(* doExpiryStuff: must-revalidate with an age of 0 is no-cache.             *)
DoExpiryStuff(r) ==
  IF r.PrivateMode # "MustRevalidate" THEN r
  ELSE [r EXCEPT !.PrivateExpiry = WithMaxAge(@),
                 !.PrivateMode = IF AgeOf(r.PrivateExpiry) = 0 THEN "NoCache" ELSE @]

Parsed(h) ==
  LET r == [PublicMode |-> ParsedPublic(h.flags), PrivateMode |-> ParsedPrivate(h.flags),
            PublicExpiry |-> ParsedPublicExpiry(h), PrivateExpiry |-> ParsedPrivateExpiry(h)]
  IN  IF r.PublicExpiry.kind = "none" /\ r.PrivateExpiry.kind = "none" THEN r
      ELSE DoExpiryStuff(r)

(* No line, or one of several directives.                                   *)
IsLine(l) ==
  \/ l = NoLine
  \/ l.age = Unknown /\ l.behind = {} /\ Cardinality(l.front) > 1
  \/ l.age # Unknown /\ l.front \union l.behind # {}

(* A line that begins with an age has a name the parser knows and an        *)
(* argument that is no number.  Any other line is one unknown directive:    *)
(* its name goes as far as the first "=", its argument to the end.          *)
Readable(l) == l.front # {} \/ l.age = Unknown \/ l.behind = {}

(* HeaderString of the line, in Extras: an argument that is not a token is  *)
(* put in quotes, and what stood behind the age with it.                    *)
ExtraString(l) ==
  IF l.age # Unknown /\ l.behind # {} THEN [l EXCEPT !.age = Quoted, !.behind = {}] ELSE l

(* Response.ParseCacheControl without a Cache-Control header.               *)
NoSettings == [PublicMode |-> "Unspecified", PrivateMode |-> "Unspecified",
               PublicExpiry |-> NoExpiry, PrivateExpiry |-> NoExpiry]

HasDirectives(h, l) == h.flags # {} \/ h.age # Unknown \/ h.sAge # Unknown \/ l # NoLine

------------------------------------------------------------------------------
(* What an HTTP cache makes of the headers, whatever their values were      *)
(* joined into (RFC 7234).                                                  *)

Ask(mode, age, late) == [mode |-> mode, age |-> age, late |-> late]

(* The first max-age counts; one that is no number makes the response stale. *)
ToldAge(h, l) ==
  IF h.age # Unknown THEN h.age ELSE IF l.age = Quoted THEN 0 ELSE l.age
ToldFlags(h, l) == h.flags \union l.front

(* Expires counts only without an age; that of a response which has neither *)
(* is a date that does not parse, so long past.                             *)
Told(h, l) ==
  LET flags == ToldFlags(h, l)
      late == ToldAge(h, l) = Unknown /\ h.expires = BadTime
  IN  [public |->
         Ask(IF flags \intersect {"no-store", "private"} # {} THEN "NoStore"
             ELSE IF "no-cache" \in flags THEN "NoCache"
             ELSE IF flags \intersect {"must-revalidate", "proxy-revalidate"} # {}
               THEN "MustRevalidate"
             ELSE IF "public" \in flags THEN "CanCache" ELSE "Unspecified",
             IF h.sAge # Unknown THEN h.sAge ELSE ToldAge(h, l), late /\ h.sAge = Unknown),
       private |->
         Ask(StrictMode(flags), ToldAge(h, l), late)]

NothingAsked == [public |-> Ask("Unspecified", Unknown, FALSE),
                 private |-> Ask("Unspecified", Unknown, FALSE)]

------------------------------------------------------------------------------
(* What a response goes through.                                            *)

(* The headers a handler may have written itself, each directive a value of *)
(* its own, ...                                                             *)
ResponseHeaders ==
  [flags : {{}, {"private"}, {"must-revalidate"}, {"public", "proxy-revalidate"}},
   age : Ages \union {Unknown}, sAge : {Unknown}, expires : {NoTime, BadTime}]

(* ... or several in one.                                                   *)
ResponseLines ==
  {l \in [front : {{}, {"private"}}, age : Ages \ {0}, behind : {{}, {"no-cache"}}] : IsLine(l)}
  \union {NoLine}

ResponseInit ==
  /\ header = NoHeader /\ line = NoLine
  /\ hasCacheControl = FALSE
  /\ rcc = NoSettings /\ extra = NoLine
  /\ now = 0
  /\ formatted = FALSE /\ received = TRUE
  /\ timed = {}
  /\ asked = NothingAsked

(* Response.CacheControl parses the headers on first use.  If that fails it *)
(* returns the error, parses again the next time, and nobody ever reads     *)
(* what is set meanwhile.                                                   *)
GetCacheControl ==
  /\ ~hasCacheControl
  /\ Readable(line)
  /\ rcc' = IF HasDirectives(header, line) THEN Parsed(header) ELSE NoSettings
  /\ extra' = line
  /\ hasCacheControl' = TRUE
  /\ formatted' = FALSE
  /\ timed' = IF rcc'.PrivateExpiry.kind # "none" /\ header.age = Unknown THEN {"private"} ELSE {}
  /\ UNCHANGED <<header, line, now, received, asked>>

Set(r, t) ==
  /\ hasCacheControl
  /\ rcc' = r
  /\ timed' = t
  /\ formatted' = FALSE /\ received' = FALSE
  /\ asked' = NothingAsked
  /\ UNCHANGED <<header, line, hasCacheControl, extra, now>>

(* SetPublicCacheMode, SetPrivateCacheMode, SetCacheMode.                   *)
SetCacheMode(m) ==
  \/ Set([rcc EXCEPT !.PublicMode = m], timed)
  \/ Set([rcc EXCEPT !.PrivateMode = m], timed)
  \/ Set([rcc EXCEPT !.PublicMode = m, !.PrivateMode = m], timed)

(* The same for the ages and for the expiry times.                          *)
SetCacheMaxAge(d) ==
  \/ Set([rcc EXCEPT !.PublicExpiry = MaxAgeOnly(d)], timed \ {"public"})
  \/ Set([rcc EXCEPT !.PrivateExpiry = MaxAgeOnly(d)], timed \ {"private"})
  \/ Set([rcc EXCEPT !.PublicExpiry = MaxAgeOnly(d), !.PrivateExpiry = MaxAgeOnly(d)], {})

SetCacheExpires(t) ==
  \/ Set([rcc EXCEPT !.PublicExpiry = ExpiresOnly(t)], timed \union {"public"})
  \/ Set([rcc EXCEPT !.PrivateExpiry = ExpiresOnly(t)], timed \union {"private"})
  \/ Set([rcc EXCEPT !.PublicExpiry = ExpiresOnly(t), !.PrivateExpiry = ExpiresOnly(t)],
         {"public", "private"})

(* The getters of ages and expiry times.                                    *)
GetExpiry ==
  /\ hasCacheControl
  /\ rcc' \in {[rcc EXCEPT !.PublicExpiry = WithMaxAge(@)],
              [rcc EXCEPT !.PublicExpiry = WithExpires(@)],
              [rcc EXCEPT !.PrivateExpiry = WithMaxAge(@)],
              [rcc EXCEPT !.PrivateExpiry = WithExpires(@)]}
  /\ UNCHANGED <<header, line, hasCacheControl, extra, now, formatted, received, timed, asked>>

(* What was meant by an expiry: a max age, or "the time until expiry".      *)
Meant(mode, e, isTime) ==
  IF ~isTime THEN Ask(mode, e.maxAge, FALSE)
  ELSE Ask(mode, IF e.expires > now THEN e.expires - now ELSE 0, e.expires < now)

(* Response.FormatCacheControl, in front of the response's first byte.      *)
FormatCacheControl ==
  /\ \/ /\ hasCacheControl
        /\ header' = Headers1(rcc) /\ line' = ExtraString(extra)
        /\ rcc' = Fixed(rcc)
        /\ asked' = IF received THEN asked
                    ELSE [public |-> Meant(rcc.PublicMode, rcc.PublicExpiry, "public" \in timed),
                          private |-> Meant(rcc.PrivateMode, rcc.PrivateExpiry, "private" \in timed)]
     \/ ~hasCacheControl /\ UNCHANGED <<header, line, rcc, asked>>
  /\ formatted' = TRUE
  /\ UNCHANGED <<hasCacheControl, extra, now, received, timed>>

(* Response.DiscardCacheControl: the next use parses the headers again, and *)
(* what cacheControl holds until then is not read.                          *)
DiscardCacheControl ==
  /\ hasCacheControl
  /\ hasCacheControl' = FALSE
  /\ rcc' = NoSettings /\ extra' = NoLine
  /\ timed' = {}
  /\ formatted' = FALSE /\ received' = (received \/ formatted)
  /\ UNCHANGED <<header, line, now, asked>>

Tick ==
  /\ now < MaxNow
  /\ now' = now + 1
  /\ UNCHANGED <<header, line, hasCacheControl, rcc, extra, formatted, received, timed, asked>>

ResponseStep ==
  \/ GetCacheControl \/ GetExpiry \/ FormatCacheControl
  \/ DiscardCacheControl \/ Tick
  \/ \E m \in Modes : SetCacheMode(m)
  \/ \E d \in Ages : SetCacheMaxAge(d)
  \/ \E t \in 0..MaxNow : SetCacheExpires(t)

------------------------------------------------------------------------------
(* Properties.                                                              *)

Rank(m) == CASE m \in {"Unspecified", "CanCache"} -> 1 [] m = "MustRevalidate" -> 2
             [] m = "NoCache" -> 3 [] m = "NoStore" -> 4

(* A cache that has to ask every time keeps nothing for any time.           *)
Allows(mode, age, d) == Rank(mode) < 3 /\ (age = Unknown \/ d <= age)

NotLooser(mode, age, ask) ==
  /\ Rank(mode) >= Rank(ask.mode)
  /\ ask.late \/ \A d \in 1..(MaxNow + 1) : Allows(mode, age, d) => Allows(ask.mode, ask.age, d)

(* On the wire, having to revalidate at once is having to ask every time.   *)
OnWire(told) == IF told.mode = "MustRevalidate" /\ told.age = 0 THEN "NoCache" ELSE told.mode

(* The settings that the headers can express: a mode for public caches, and *)
(* ages where headers1 or a later parse would drop the mode without them.   *)
Expressible(ask) ==
  /\ ask.public.mode # "Unspecified"
  /\ ask.private.mode = "MustRevalidate" => ask.private.age # Unknown
  /\ ask.private.mode = "NoCache" /\ ask.public.mode = "MustRevalidate"
       => ask.public.age # Unknown

(* No cache is told that it may do more, or keep the response longer, than  *)
(* the handler said, in the headers it wrote or in the settings it made;    *)
(* nor does the program itself believe so once the headers were formatted,  *)
(* discarded and parsed, any number of times.  What does not hold, and is   *)
(* left out here: settings Expressible excludes; an expiry given as a time  *)
(* that has passed, or as a date that does not parse, which makeBothFrom-   *)
(* Expires (cache-control.go 113) turns into an age, although "MaxAge       *)
(* returns the time until expiry" (131); in a line of several directives,   *)
(* what stands behind the first argument, which ends in its quotes; and     *)
(* such a line is not understood by the program, only passed on.            *)
NeverLoosened ==
  Expressible(asked) =>
    /\ formatted =>
         LET told == Told(header, line) IN
         /\ NotLooser(OnWire(told.public), told.public.age, asked.public)
         /\ NotLooser(OnWire(told.private), told.private.age, asked.private)
    /\ hasCacheControl /\ received /\ extra = NoLine =>
         /\ NotLooser(rcc.PublicMode, AgeOf(rcc.PublicExpiry), asked.public)
         /\ NotLooser(rcc.PrivateMode, AgeOf(rcc.PrivateExpiry), asked.private)

(* A header that is generated a second time, later and after the ages and   *)
(* times were read, is the same one, as long as nothing is set.             *)
FormatIsStable ==
  [][formatted /\ formatted' => header' = header /\ line' = line]_responseVars
===============================================================================
