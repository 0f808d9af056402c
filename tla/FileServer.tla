------------------------------ MODULE FileServer ------------------------------
(* fileserver.FileServer (src/fileserver/fileserver.go) behind UrlDispatch,  *)
(* answering a client that keeps what it got and asks again with the         *)
(* validators of the first answer (src/http/conditions.go, src/etag/etag.go, *)
(* and SetETag and SetMTime of HeaderMetadata).  The file may change at any  *)
(* time, also while it is being sent.  A handler that declines before the    *)
(* file server is reached may set size and range of the response (Metadata). *)
(*                                                                           *)
(* Time is counted in half seconds, so that an HTTP date loses something.    *)
(* Contents are a version number and a size.                                 *)
EXTENDS Metadata, UrlDispatch, FiniteSets

CONSTANTS
  BufSize,      \* bound: the largest buffer of write, 16384 in the code
  FileSizes,    \* sizes of the file
  Times,        \* modification times
  Zones,        \* what local time is ahead of GMT by
  Base, Twin,   \* of the tag's digits; Twin and Twin + 1 share a character
  Requests,     \* the second requests that are tried
  MaxChanges,   \* bound: changes of the file
  MaxSetters    \* bound: setters called on the first response

ASSUME FileServerAssumption ==
  /\ BufSize \in Nat \ {0} /\ FileSizes \subseteq 0..MaxInt /\ Times \subseteq Int
  /\ Zones \subseteq Int /\ (\A z \in Zones : z % 2 = 0) /\ Base \in Nat \ {0, 1} /\ Twin \in 0..(Base - 2)
  /\ MaxChanges \in Nat /\ MaxSetters \in Nat

VARIABLES
  config,     \* FileServer.ETag; the header processor folds case; the zone
  file,       \* what is on the disk
  request,    \* the method and the conditional headers
  cache,      \* what the client has kept of the first response
  stats,      \* what Stat has returned
  status,     \* the status of the response
  tag, mtime, \* its ETag and Last-Modified headers: sets of at most one
  off,        \* how much of the file has been read
  announced,  \* the Content-Length in the header that was sent
  sent,       \* how many bytes of body were sent
  versions,   \* the versions of the file they are from
  cut,        \* a write failed
  pc,         \* where Handle is, or how it returned
  round,      \* which response this is
  setters     \* the calls of setters so far

fsVars == <<config, file, request, cache, stats, status, tag, mtime, off,
            announced, sent, versions, cut, pc, round, setters>>
vars == <<metaVars, dispatchVars, fsVars>>

Nothing == [kind |-> "nothing"]
Kinds == {"file", "dir", "missing", "denied", "noroot"}
Plain == [method |-> "GET", ifMatch |-> "none", ifUnmod |-> "none",
          ifNoneMatch |-> "none", ifMod |-> "none"]
Returned == {"handled", "failed"}

Init ==
  /\ MetadataInit
  /\ DispatchInit
  /\ config \in [ETag : BOOLEAN, fold : BOOLEAN, zone : Zones]
  /\ file \in [kind : Kinds, version : {1}, size : FileSizes, mtime : Times]
  /\ \A t \in Times : file.mtime <= t
  /\ file.kind \notin {"file", "dir"} => file.size = 0
  \* Bound: a longer list meets one configuration, and a list without a leaf
  \* that declines no header that is set already.
  /\ Len(table) > 1 => config = [ETag |-> TRUE, fold |-> FALSE, zone |-> 0]
  /\ Leaf("decline") \notin Range(table) => contentRange = <<>> /\ ~teSet
  /\ request \in {Plain, [Plain EXCEPT !.method = "HEAD"]}
  /\ cache = Nothing /\ stats = Nothing
  /\ status = 200 /\ tag = {} /\ mtime = {}
  /\ off = 0 /\ announced = -1 /\ sent = 0 /\ versions = {} /\ cut = FALSE
  /\ pc = "dispatch" /\ round = 1 /\ setters = 0

------------------------------------------------------------------------------
(* Validators.                                                              *)

(* etagFormatUint64: the digits, the first one first.  The alphabet has one *)
(* character twice.                                                         *)
Minus == -1
Glyph(d) == IF d > Twin THEN d - 1 ELSE d
EtagFormat[v \in Nat] ==
  IF v < Base THEN <<Glyph(v)>> ELSE Append(EtagFormat[v \div Base], Glyph(v % Base))
EtagFormatInt(v) == IF v < 0 THEN <<Minus>> \o EtagFormat[-v] ELSE EtagFormat[v]

(* SimpleFileETag, weak: the case of its "W" is that of the tag.            *)
SimpleFileETag(s) == [w |-> "W", mtime |-> EtagFormatInt(s.mtime), size |-> EtagFormatInt(s.size)]

(* LowerCaseAll, where the configuration has it: Set gives it every value.  *)
Folded(tags) == IF config.fold THEN {[t EXCEPT !.w = "w"] : t \in tags} ELSE tags

(* SetMTime: the local clock, in whole seconds, under the name of GMT.      *)
FormatTime(t) == 2 * ((t + config.zone) \div 2)

------------------------------------------------------------------------------
(* Conditions, in the order in which they are tested.  A header is "none",  *)
(* "star", "mine" (the validator of the first response) or "other"; a date  *)
(* that does not parse, or a second one of If-Modified-Since, is "odd".     *)

Condition(type, fail, param) == <<[Type |-> type, Fail |-> fail, param |-> param]>>
GetOrHead == request.method \in {"GET", "HEAD"}
NoneMatchFails == IF GetOrHead THEN "NotModified" ELSE "PreconditionFailed"
Tags(h) == IF h = "mine" THEN Folded(cache.tag) ELSE {}

(* StatusToStatusCodeMap, as SetStatus uses it here.                        *)
StatusCode == [OK |-> 200, NotModified |-> 316, NotFound |-> 404, PreconditionFailed |-> 412]

FirstConditions ==
  CASE request.ifMatch = "star" -> Condition("Exists", "PreconditionFailed", {})
    [] request.ifMatch \in {"mine", "other"} -> Condition("ETag", "PreconditionFailed", Tags(request.ifMatch))
    [] request.ifMatch = "none" /\ request.ifUnmod = "mine" ->
         Condition("NotModSince", "PreconditionFailed", cache.mtime)
    [] OTHER -> <<>>

SecondConditions ==
  CASE request.ifNoneMatch = "star" -> Condition("NotExists", "PreconditionFailed", {})
    [] request.ifNoneMatch \in {"mine", "other"} ->
         Condition("ETagNot", NoneMatchFails, Tags(request.ifNoneMatch))
    [] request.ifNoneMatch = "none" /\ GetOrHead /\ request.ifMod = "mine" ->
         Condition("ModSince", "NotModified", cache.mtime)
    [] OTHER -> <<>>

Conditions == FirstConditions \o SecondConditions

(* Mutation: a change within the second after the date counts as none.      *)
FailsLate(c, s) ==
  CASE c.Type = "ModSince" -> \A t \in c.param : s.mtime - t < 4
    [] c.Type = "NotModSince" -> \A t \in c.param : s.mtime - t >= 2
    [] c.Type = "NotExists" -> TRUE
    [] c.Type = "ETagNot" -> config.ETag /\ SimpleFileETag(s) \in c.param
    [] c.Type = "ETag" -> ~config.ETag \/ SimpleFileETag(s) \notin c.param
    [] c.Type = "Exists" -> FALSE

(* Mutation: the part of a second that the date has lost is a change.       *)
FailsExactly(c, s) ==
  CASE c.Type = "ModSince" -> \A t \in c.param : s.mtime <= t
    [] c.Type = "NotModSince" -> \A t \in c.param : s.mtime > t
    [] c.Type = "NotExists" -> TRUE
    [] c.Type = "ETagNot" -> config.ETag /\ SimpleFileETag(s) \in c.param
    [] c.Type = "ETag" -> ~config.ETag \/ SimpleFileETag(s) \notin c.param
    [] c.Type = "Exists" -> FALSE

(* The switch in the loop of Handle.                                        *)
Fails(c, s) ==
  CASE c.Type = "ModSince" -> \A t \in c.param : s.mtime - t < 2
    [] c.Type = "NotModSince" -> \A t \in c.param : s.mtime - t >= 2
    [] c.Type = "NotExists" -> TRUE
    [] c.Type = "ETagNot" -> config.ETag /\ SimpleFileETag(s) \in c.param
    [] c.Type = "ETag" -> ~config.ETag \/ SimpleFileETag(s) \notin c.param
    [] c.Type = "Exists" -> FALSE

Failing(s) == {i \in 1..Len(Conditions) : Fails(Conditions[i], s)}

------------------------------------------------------------------------------
(* FileServer.Handle.                                                       *)

Reached == pc = "dispatch" /\ AtLeaf("files") /\ ~panicked
(* The list does not go on after a handler that has handled the frame.      *)
Handled == route' = "handled" /\ UNCHANGED <<table, item, at, url, asked, own, leaked>>

(* Open: GetRoot, OpenFile, Stat, and the same again for index.html in a    *)
(* directory.  Nobody closes the file.                                      *)
OpenFails ==
  /\ Reached
  /\ file.kind \in {"missing", "denied", "noroot"}
  /\ \/ /\ file.kind = "missing"
        /\ status' = StatusCode.NotFound /\ pc' = "handled"
        /\ announced' = 15 /\ sent' = 15   \* StringBody("404: Not found!")
     \/ /\ file.kind # "missing"
        /\ pc' = "failed"
        /\ UNCHANGED <<status, announced, sent>>
  /\ Handled
  /\ UNCHANGED <<metaVars, config, file, request, cache, stats, tag, mtime, off,
                 versions, cut, round, setters>>

Opens == Reached /\ file.kind \in {"file", "dir"} /\ stats' = file
SetETag == tag' = IF config.ETag THEN Folded({SimpleFileETag(file)}) ELSE tag

(* The first condition that fails gives the status of an empty response;    *)
(* its Close puts the header on the stream.                                 *)
ConditionFails ==
  /\ Opens /\ Failing(file) # {}
  /\ SetETag
  /\ status' = StatusCode[Conditions[Min(Failing(file))].Fail]
  /\ announced' = IF contentLength = <<>> THEN -1 ELSE contentLength[1]
  /\ pc' = "handled"
  /\ Handled
  /\ UNCHANGED <<metaVars, config, file, request, cache, mtime, off, sent, versions,
                 cut, round, setters>>

(* All conditions hold: SetSize, SetTypeString and SetMTime, then write.    *)
StartCopy ==
  /\ Opens /\ Failing(file) = {}
  /\ SetETag
  /\ SetSize(file.size)
  /\ mtime' = {FormatTime(file.mtime)}
  /\ pc' = "copy"
  /\ Handled
  /\ UNCHANGED <<config, file, request, cache, status, off, announced, sent, versions,
                 cut, round, setters>>

Buffer == IF BufSize < stats.size THEN BufSize ELSE stats.size
Unread == IF off < file.size THEN file.size - off ELSE 0
ReadLen == IF Buffer < Unread THEN Buffer ELSE Unread

(* The length BodyWriter holds the body to: 0 for HEAD, otherwise what the  *)
(* header said when it was first asked (-1: anything goes).                 *)
Announce == IF announced # -1 THEN announced
            ELSE IF contentLength = <<>> THEN -1 ELSE contentLength[1]
Limit == IF request.method = "HEAD" THEN 0 ELSE Announce

(* One turn of write: a Read that finds something and its Write.  The       *)
(* limiter counts every Write from zero, and beyond the limit passes on as  *)
(* many bytes as exceed it.  A failed Write ends the copy with the error of *)
(* the Read, which is nil.                                                  *)
CopySome ==
  /\ pc = "copy" /\ Buffer > 0 /\ ReadLen > 0
  /\ off' = off + ReadLen
  /\ announced' = Announce
  /\ versions' = versions \cup {file.version}
  /\ \/ /\ Limit = -1 \/ ReadLen <= Limit
        /\ sent' = sent + ReadLen
        /\ UNCHANGED <<pc, cut>>
     \/ /\ Limit # -1 /\ ReadLen > Limit
        /\ sent' = sent + ReadLen - Limit
        /\ cut' = TRUE /\ pc' = "handled"
     \/ /\ cut' = TRUE /\ pc' = "handled"
        /\ UNCHANGED sent
  /\ UNCHANGED <<metaVars, dispatchVars, config, file, request, cache, stats, status,
                 tag, mtime, round, setters>>

(* Mutation: the copy ends after one full buffer.                           *)
CopyEndsShort ==
  /\ pc = "copy" /\ Buffer > 0 /\ (ReadLen = 0 \/ off = BufSize)
  /\ announced' = Announce
  /\ pc' = "handled"
  /\ UNCHANGED <<metaVars, dispatchVars, config, file, request, cache, stats, status,
                 tag, mtime, off, sent, versions, cut, round, setters>>

(* Mutation: the copy goes on until the size that was announced is reached. *)
CopyEndsAtSize ==
  /\ pc = "copy" /\ Buffer > 0 /\ off >= stats.size
  /\ announced' = Announce
  /\ pc' = "handled"
  /\ UNCHANGED <<metaVars, dispatchVars, config, file, request, cache, stats, status,
                 tag, mtime, off, sent, versions, cut, round, setters>>

(* EOF, and Close.                                                          *)
CopyEnds ==
  /\ pc = "copy" /\ Buffer > 0 /\ ReadLen = 0
  /\ announced' = Announce
  /\ pc' = "handled"
  /\ UNCHANGED <<metaVars, dispatchVars, config, file, request, cache, stats, status,
                 tag, mtime, off, sent, versions, cut, round, setters>>

(* A Read fails: Handle returns false and the error, the body stays open.   *)
ReadFails ==
  /\ pc = "copy" /\ Buffer > 0
  /\ pc' = "failed"
  /\ UNCHANGED <<metaVars, dispatchVars, config, file, request, cache, stats, status,
                 tag, mtime, off, announced, sent, versions, cut, round, setters>>

(* An empty file gives an empty buffer, for which Read returns 0 and no     *)
(* error: the loop goes round for ever.                                     *)
CopySpins == pc = "copy" /\ Buffer = 0 /\ UNCHANGED vars

------------------------------------------------------------------------------
(* The rest of the world.                                                   *)

(* Somebody writes the file.                                                *)
ChangeFile ==
  /\ file.kind \in {"file", "dir"} /\ file.version <= MaxChanges
  /\ pc = "copy" \/ (pc = "handled" /\ round = 1 /\ status = 200)
  /\ \E s \in FileSizes, t \in Times :
       /\ t >= file.mtime
       /\ file' = [file EXCEPT !.version = @ + 1, !.size = s, !.mtime = t]
  /\ UNCHANGED <<metaVars, dispatchVars, config, request, cache, stats, status, tag, mtime,
                 off, announced, sent, versions, cut, pc, round, setters>>

(* A leaf that will decline calls a setter of the response.                 *)
EarlierHandlerSets ==
  /\ AtLeaf("decline") /\ pc = "dispatch" /\ round = 1 /\ setters < MaxSetters
  /\ setters' = setters + 1
  /\ Setters
  /\ UNCHANGED <<dispatchVars, config, file, request, cache, stats, status, tag, mtime,
                 off, announced, sent, versions, cut, pc, round>>

(* The client keeps a complete first response and asks again; this time     *)
(* only the file server is in the list.                                     *)
AskAgain ==
  /\ pc = "handled" /\ round = 1 /\ status = 200 /\ ~cut
  /\ request.method = "GET" /\ setters = 0 /\ announced = sent
  /\ cache' = [kind |-> "kept", version |-> stats.version, size |-> stats.size,
               stamp |-> stats.mtime, tag |-> tag, mtime |-> mtime]
  /\ request' \in Requests
  /\ round' = 2
  /\ contentRange' = <<>> /\ contentLength' = <<>> /\ transferEncoding' = <<>>
  /\ teSet' = FALSE /\ failed' = FALSE /\ lastSize' = -1 /\ lastRange' = Unset
  /\ table' = <<Leaf("files")>> /\ item' = 0 /\ at' = NoHandler /\ url' = asked
  /\ own' = <<>> /\ leaked' = FALSE /\ route' = "walking"
  /\ stats' = Nothing /\ status' = 200 /\ tag' = {} /\ mtime' = {}
  /\ off' = 0 /\ announced' = -1 /\ sent' = 0 /\ versions' = {}
  /\ pc' = "dispatch"
  /\ UNCHANGED <<panicked, asked, config, file, cut, setters>>

DispatchStep ==
  /\ pc = "dispatch" /\ ~panicked
  /\ Dispatch
  /\ UNCHANGED <<metaVars, fsVars>>

HandleRuns == \/ OpenFails \/ ConditionFails \/ StartCopy
              \/ CopySome \/ CopyEnds \/ CopySpins

(* The response is over, or nobody handles the frame, or the process died.  *)
Over == (pc \in Returned \/ ~Walking \/ panicked) /\ pc # "copy" /\ UNCHANGED vars

Next == \/ DispatchStep \/ EarlierHandlerSets \/ HandleRuns \/ ReadFails
        \/ ChangeFile \/ AskAgain \/ Over

Spec == Init /\ [][Next]_vars

(* The goroutine of the handler runs; nothing makes a Read fail.            *)
FairSpec == Spec /\ WF_vars(DispatchStep) /\ WF_vars(HandleRuns)

------------------------------------------------------------------------------
(* Properties.                                                              *)

Answered == pc = "handled"
Asked(field) == request[field] = "mine"
Fresh == stats.version = cache.version
HasTwin(v) == \E i \in 1..Len(EtagFormatInt(v)) : EtagFormatInt(v)[i] = Twin

(* Not Modified (316 on the wire) is the truth: what the client has kept is *)
(* what the file held when Handle looked.  A date cannot tell apart changes *)
(* within one second, and in a zone ahead of GMT is too late by the offset; *)
(* a tag cannot tell apart equal times and sizes, or numbers with the       *)
(* doubled character.                                                       *)
NotModifiedIsFresh ==
  Answered /\ status = StatusCode.NotModified =>
    \/ Fresh
    \/ /\ Asked("ifMod") /\ request.ifNoneMatch = "none"
       /\ config.zone > 0 \/ stats.mtime \div 2 = cache.stamp \div 2
    \/ /\ Asked("ifNoneMatch")
       /\ \/ <<stats.mtime, stats.size>> = <<cache.stamp, cache.size>>
          \/ HasTwin(stats.mtime) \/ HasTwin(stats.size)

(* The server understands the validators it has given out: as long as the   *)
(* file is the same, its tag and its date are not modified for a GET, and   *)
(* neither precondition fails.  Not so for a tag whose case was folded, and *)
(* not for a date from a zone behind GMT.                                   *)
EchoedValidatorHolds ==
  Answered /\ round = 2 /\ Fresh =>
    /\ /\ Asked("ifNoneMatch") /\ config.ETag /\ request.method = "GET"
       /\ request.ifMatch = "none" /\ request.ifUnmod = "none"
       => (status = StatusCode.NotModified <=> ~config.fold)
    /\ /\ Asked("ifMod") /\ request.ifNoneMatch = "none" /\ request.method = "GET"
       /\ request.ifMatch = "none" /\ request.ifUnmod = "none"
       => (status = StatusCode.NotModified <=> config.zone >= 0)
    /\ /\ Asked("ifMatch") /\ request.ifNoneMatch = "none" /\ request.ifMod = "none"
       => (status = StatusCode.PreconditionFailed <=> (config.fold \/ ~config.ETag))
    /\ /\ Asked("ifUnmod") /\ request.ifMatch = "none"
       /\ request.ifNoneMatch = "none" /\ request.ifMod = "none"
       => (status = StatusCode.PreconditionFailed <=> config.zone < 0)

(* A file that was handled is on the wire as it was announced: all of it,   *)
(* and of one version, unless it changed meanwhile, the stream broke, or an *)
(* earlier handler had set a range or a size in a header of its own.        *)
SentIsAnnounced ==
  /\ Answered /\ status = 200 /\ request.method = "GET" /\ ~cut
  /\ contentRange = <<>> /\ file.version = stats.version
  => announced = stats.size /\ sent = stats.size /\ versions = {stats.version}

(* Handle comes back, even if the file changes under it, unless the file    *)
(* was empty when it was opened.                                            *)
HandleReturns == (pc = "copy" /\ stats.size > 0) ~> (pc \in Returned)
===============================================================================
