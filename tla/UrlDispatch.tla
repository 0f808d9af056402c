----------------------------- MODULE UrlDispatch -----------------------------
(* How a frame finds its handler (src/urlhandler/urlhandler.go): the list of *)
(* frame handlers is walked, and each item is a chain of tests of the URL    *)
(* that ends in a leaf.  Some of the tests rewrite the URL, which all of the *)
(* handlers share: what a handler rewrites before it declines, the handlers  *)
(* after it see.                                                             *)
(*                                                                           *)
(* A path is a sequence of characters, a host a name and a port.  A handler  *)
(* is a record: its kind, its protocol ("" for any), and the handler behind. *)
EXTENDS Integers, Sequences, SequencesExt

CONSTANTS
  Tables,    \* the lists of frame handlers that are tried
  Urls,      \* the URLs that are asked for
  Protocol   \* the protocol of the frame

ASSUME DispatchAssumption ==
  \A u \in Urls : {"name", "port", "path"} = DOMAIN u

VARIABLES
  table,     \* the list of frame handlers
  item,      \* the item of the list that is being called
  at,        \* the handler inside that item
  url,       \* what Request.URL() points to
  asked,     \* the URL of the request line and the Host header
  own,       \* what the item at hand has stripped off the path
  leaked,    \* an item stripped something and then declined
  route      \* how the dispatch ended

dispatchVars == <<table, item, at, url, asked, own, leaked, route>>

NoHandler == [kind |-> "none"]
Leaf(name) == [kind |-> "leaf", Protocol |-> "", name |-> name]

(* PathPrefixHandler and NewPathHandler pass the protocol outwards.         *)
PathPrefixHandler(prefix, handler, strip) ==
  [kind |-> IF strip THEN "strip_prefix" ELSE "prefix",
   Protocol |-> handler.Protocol, Prefix |-> prefix, F |-> handler]
NewPathHandler(path, handler) ==
  [kind |-> "path", Protocol |-> handler.Protocol, Prefix |-> path, F |-> handler]
PortStripper == [kind |-> "strip_port", Protocol |-> "", all |-> TRUE]
HTTPPortStripper == [kind |-> "strip_port", Protocol |-> "", all |-> FALSE]
(* The two maps, keyed by the host with its port and by its name.           *)
HostSplitter(map) == [kind |-> "host", Protocol |-> "", map |-> map]
HostnameSplitter(map) == [kind |-> "hostname", Protocol |-> "", map |-> map]

DispatchInit ==
  /\ table \in Tables
  /\ asked \in Urls /\ url = asked
  /\ item = 0 /\ at = NoHandler
  /\ own = <<>> /\ leaked = FALSE
  /\ route = "walking"

Walking == route = "walking"
Speaks(handler) == handler.Protocol \in {"", Protocol}

(* The handler returns false, nil.                                          *)
Decline ==
  /\ at' = NoHandler
  /\ leaked' = (leaked \/ own # <<>>)
  /\ own' = <<>>
  /\ UNCHANGED <<table, item, asked, route>>

Enter(handler) ==
  /\ at' = handler
  /\ UNCHANGED <<table, item, asked, leaked, route>>

(* The list goes on to its next item.                                       *)
NextItem ==
  /\ Walking /\ at = NoHandler /\ item < Len(table)
  /\ item' = item + 1
  /\ at' = IF Speaks(table[item + 1]) THEN table[item + 1] ELSE NoHandler
  /\ UNCHANGED <<table, url, asked, own, leaked, route>>

(* Nobody has handled the frame.                                            *)
NotHandled ==
  /\ Walking /\ at = NoHandler /\ item = Len(table)
  /\ route' = "unhandled"
  /\ UNCHANGED <<table, item, at, url, asked, own, leaked>>

(* StripPort and StripHTTPPort.                                             *)
StripPort ==
  /\ Walking /\ at.kind = "strip_port"
  /\ url' = IF at.all \/ url.port \in {"80", "443"}
              THEN [url EXCEPT !.port = ""] ELSE url
  /\ Decline

(* A key that is not in the map gives a nil handler, whose field is read.   *)
Lookup(map, key) ==
  \/ /\ key \notin DOMAIN map
     /\ route' = "panic"
     /\ UNCHANGED <<table, item, at, url, asked, own, leaked>>
  \/ /\ key \in DOMAIN map
     /\ Enter(map[key])
     /\ UNCHANGED <<url, own>>

(* HostSplitter.Handle, whose test of the protocol was taken out.           *)
SplitHost == Walking /\ at.kind = "host" /\ Lookup(at.map, <<url.name, url.port>>)

(* HostnameSplitter.Handle.                                                 *)
SplitHostname ==
  /\ Walking /\ at.kind = "hostname"
  /\ \/ /\ url.name \in DOMAIN at.map => Speaks(at.map[url.name])
        /\ Lookup(at.map, url.name)
     \/ /\ url.name \in DOMAIN at.map /\ ~Speaks(at.map[url.name])
        /\ Decline
        /\ UNCHANGED url

(* PathPrefixSplitter.Handle and PathHandler.Handle.                        *)
Matches(handler, path) == IF handler.kind = "path" THEN path = handler.Prefix
                          ELSE IsPrefix(handler.Prefix, path)

SplitPath ==
  /\ Walking /\ at.kind \in {"prefix", "path"}
  /\ \/ Matches(at, url.path) /\ Enter(at.F) /\ UNCHANGED own
     \/ ~Matches(at, url.path) /\ Decline
  /\ UNCHANGED url

StripFront(path, n) == SubSeq(path, n + 1, Len(path))

(* Mutation: the path is cut before it is tested.                           *)
SplitPathStripEarly ==
  /\ Walking /\ at.kind = "strip_prefix"
  /\ url' = [url EXCEPT !.path = StripFront(@, Len(at.Prefix))]
  /\ \/ Matches(at, url.path) /\ Enter(at.F) /\ own' = own \o at.Prefix
     \/ ~Matches(at, url.path) /\ Decline

(* PathPrefixStripSplitter.Handle.                                          *)
SplitPathStrip ==
  /\ Walking /\ at.kind = "strip_prefix"
  /\ \/ /\ Matches(at, url.path)
        /\ url' = [url EXCEPT !.path = StripFront(@, Len(at.Prefix))]
        /\ own' = own \o at.Prefix
        /\ Enter(at.F)
     \/ ~Matches(at, url.path) /\ Decline /\ UNCHANGED url

(* A leaf that declines; it may use the response before it does.            *)
LeafDeclines == Walking /\ at.kind = "leaf" /\ at.name = "decline" /\ Decline /\ UNCHANGED url

Dispatch ==
  \/ NextItem \/ NotHandled \/ StripPort
  \/ SplitHost \/ SplitHostname \/ SplitPath \/ SplitPathStrip \/ LeafDeclines

AtLeaf(name) == Walking /\ at.kind = "leaf" /\ at.name = name

------------------------------------------------------------------------------
(* Properties.                                                              *)

(* A leaf is given the path of the request less what its own chain took     *)
(* off the front, whatever the handlers before it tested and rewrote.  The  *)
(* exception is real: PathPrefixStripSplitter does not put the prefix back  *)
(* when the handler behind it declines.                                     *)
LeafSeesItsShare ==
  Walking /\ at.kind = "leaf" /\ ~leaked => asked.path = own \o url.path
==============================================================================
