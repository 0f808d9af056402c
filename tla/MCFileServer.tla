----------------------------- MODULE MCFileServer -----------------------------
(* Small instances of FileServer for TLC.                                    *)
EXTENDS FileServer

SomeSizes == {-1, 0, 2, 3}
SomeOffsets == {-2, 0, 1, 3}
SomeFileSizes == {0, 2, 3}
SomeTimes == -1..3
SomeZones == {-2, 0, 2}

Files == Leaf("files")
Declines == Leaf("decline")
OtherProtocol == [Declines EXCEPT !.Protocol = "h2"]

Url(name, port, path) == [name |-> name, port |-> port, path |-> path]
SomeUrls == {Url("x", "", <<"a", "b">>), Url("x", "80", <<"a">>), Url("x", "81", <<"b", "a">>)}

SomeTables == {
  <<Files>>,
  <<Declines, Files>>,
  <<PathPrefixHandler(<<"a">>, Declines, TRUE), Files>>,
  <<PathPrefixHandler(<<"a">>, Files, TRUE), NewPathHandler(<<"b">>, Files)>>,
  <<PathPrefixHandler(<<"a">>, NewPathHandler(<<"b">>, Files), TRUE),
    PathPrefixHandler(<<"b">>, OtherProtocol, FALSE), Files>>,
  <<OtherProtocol, PathPrefixHandler(<<"b">>, PathPrefixHandler(<<"a">>, Files, TRUE), TRUE)>>,
  <<HostSplitter(<<"x", "">> :> Files)>>,
  <<HTTPPortStripper, HostSplitter(<<"x", "">> :> Files @@ <<"x", "81">> :> Declines), Files>>,
  <<PortStripper, HostSplitter(<<"x", "">> :> OtherProtocol)>>,
  <<HostnameSplitter("x" :> OtherProtocol), HostnameSplitter("x" :> Files)>>,
  <<HostnameSplitter("y" :> Files)>> }

SomeRequests == {
  [Plain EXCEPT !.ifNoneMatch = "mine"],
  [Plain EXCEPT !.ifNoneMatch = "other", !.ifMod = "mine"],
  [Plain EXCEPT !.ifNoneMatch = "star"],
  [Plain EXCEPT !.ifNoneMatch = "mine", !.method = "PUT"],
  [Plain EXCEPT !.ifNoneMatch = "mine", !.method = "HEAD"],
  [Plain EXCEPT !.ifMod = "mine"],
  [Plain EXCEPT !.ifMod = "odd"],
  [Plain EXCEPT !.ifMod = "mine", !.method = "PUT"],
  [Plain EXCEPT !.ifMatch = "mine"],
  [Plain EXCEPT !.ifMatch = "star", !.ifUnmod = "mine"],
  [Plain EXCEPT !.ifMatch = "mine", !.ifNoneMatch = "mine"],
  [Plain EXCEPT !.ifUnmod = "mine"],
  [Plain EXCEPT !.ifUnmod = "odd", !.ifMod = "mine"] }
===============================================================================
