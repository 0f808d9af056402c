# A TLA+ model of JOTPOT Server

JOTPOT Server is an HTTP server library in Go. `src/jps` is protocol
independent: a server with handler lists, sessions, byte ranges, bodies that
are written through chains of codings. `src/http` and `src/http/http1` put
HTTP/1 on top of it. This directory holds TLA+ modules for the parts of the
library that keep state or do arithmetic, TLC models for small instances of
them, and TLAPS proofs that every safety property of the runs holds for every
instance.

At this commit package `http` does not compile (`SetWasCached` in
`request.go` lacks a return) and some parts are stubs. The modules describe
the code as it is written, its slips included; *Where the code surprises*
lists them.

## Inventory

| Component | State | Operations | What is hard, and what must hold |
|---|---|---|---|
| Server lifecycle (`jps/server.go`) | `state` under an RWMutex, `connections` under a Mutex, three handler lists | `Open`, `Close`, `CloseAndWait`, `Add...Handler`, `HandleStreamSession`, `HandleStream` | Every stream is a goroutine that registers and deregisters while others close and reopen. The counter must be exact, nobody may be admitted while closing, a closing server must drain |
| HTTP/1 session (`http1/handler.go`, `bodyWriter.go`) | `close`, `hyjacked`, `conLock`, the stream | `Frame`, `End`, `Hyjack`, the header generator and the close callback of each response | Responses are written by goroutines other than the loop, and a Mutex is handed from one to the other. One frame at a time, responses in order, no double unlock, no stuck loop, no leaked stream |
| Handler lists (`jps/ListMethods.go`) | a linked list under an RWMutex | `insert`, `Handle`, `HandleWithHandler` | Insertions against walks. Stage and priority order |
| Header store (`http/header/header.go`) | map of locked slices, `KeyModLock` | `Set`, `Add`, `Del`, `Modify`, `Get`, `ForEach`, `UnsafeAdder` | A read lock is exchanged for a write lock in the middle of a call. No update may be lost |
| Byte ranges (`jps/range.go`, the Range header in `http/request.go`) | one slice, changed in place; the header | `Ranges`, `SetRanges`, `TidyRanges`, `SortRanges`, `MergeRanges` | Loops that shrink what they run over; offsets relative to the end; a header and its ranges must mean the same bytes |
| Request bodies (`jps/reader.go`, `http1/bodyReader.go`, `encoding/chunked`) | lazily built readers, bytes left of a body or a chunk, a two byte buffer | `Length`, `Read`, `Close` | Bytes come in pieces of any size, and the next request is on the same stream. Only data may be delivered, all of it, and nothing of what follows |
| Response bodies (`jps/outgoing.go`, `http1/bodyWriter.go`) | lazily built writers, the header-written flag | `SetLength`, `Write`, `StringBody`, `Flush`, `Close` | Any order of calls over a stream that may fail |
| List of codings, pipes (`encoding/list.go`, `jps/pipe`) | a sorted slice; chains of stages | `Add`, `Remove`, `Get`, building and closing chains | A hand-written bisection; the order of stages |
| Size and range metadata (`http1/metadata.go`) | three headers | `Size`, `SetSize`, `Range`, `SetRange` | Two settings share three headers; integer overflow |
| Cache-Control (`http/cache-control.go`, `http/request.go`) | settings of requests and responses, lazily parsed | parse, set, format, discard | Time passes; one directive to a value, although a line may hold several; what is formatted, discarded and parsed again must not be loosened or forgotten |
| File server (`fileserver`, `etag`, `http/conditions.go`) | an open file, what `Stat` said of it, the validators of the response | `Open`, the conditions, the copy loop | The file changes at any time. What was announced must be sent, and a validator must mean what it meant when it was given out |
| URL dispatch (`urlhandler`) | the URL of the request, shared by all handlers | strip a port, look up a host, test and strip a path | A handler that rewrites the URL and then declines |
| Buffer pools, TCP/UDP, parsing, response formatting, media types, variables, cache keys, client, TLS, utilities | | | not modelled, see below |

How they interact: a listener gives connections to the server as stream
sessions. `HandleStreamSession` registers the connection and offers the session
to the handler list; when no handler takes it, the fallback loop accepts
streams and starts `HandleStream` for each in a goroutine. A stream handler
makes an `http1.Session` of the stream; `HandleSession` calls `Frame` in a loop
and hands each frame to the frame handlers, which may keep the response and
write it later from goroutines of their own. The first write to a response body
chooses its framing from the size metadata, generates the header from the
header store, and puts the body through the pipes of the codings. Closing the
body ends the frame and releases the loop. Frame handlers are found through
`urlhandler`; the file server is one of them.

## Modules

Each component has one module with its state, one action per operation or
step, and its properties; `MC<name>` extends it and gives values to its
constants together with the `.cfg` of the same name. Operators with a comment
that begins with "Mutation" are plausible slips in the code, kept beside the
definition they would replace, and show that the properties notice them.

| Module | Models | A step is |
|---|---|---|
| `JpsServer` | `server.go`: streams, sessions and controllers on one server, both locks, the load and the store of `connections++` | a critical section, or a load or store in it |
| `ServerLifecycle` | the abstract promise of the server: state and counter without goroutines or locks | a request admitted or ended, a change of state |
| `SessionPipeline` | the abstract promise of a session: requests read, answered and done with one after the other | a request read, its response begun, the stream given back |
| `HTTP1Session` | `Frame`, `End`, `Hyjack`, the loop of `HandleSession`, the two callbacks of every response | what happens between two accesses of shared fields |
| `HandlerList` | insertion and walks of a handler list | an insertion, one handler of a walk |
| `ServerProofs` | theorems about `JpsServer`, that it implements `ServerLifecycle`, and about `HandlerList` | |
| `HTTP1SessionProofs` | theorems about `HTTP1Session`, and that it implements `SessionPipeline` | |
| `HeaderMap` | the abstract promise of the header store: a map in which every call takes effect at one moment, and an `UnsafeAdder` excludes the others | a call begun, taking effect and returning |
| `HeaderStore` | the methods of `header.Header` between their lock operations | a section under a lock |
| `HeaderStoreProofs` | theorems about `HeaderStore`, and that it implements `HeaderMap` | |
| `Ranges` | sorting and merging ranges | a turn of a loop |
| `RangeHeader` | extends `Ranges`: from a Range header to tidied ranges, and from ranges to a header | a spec or a range, a turn of a loop |
| `ChunkedReader` | decoding the chunked coding | one read of the source |
| `RequestBody` | extends `ChunkedReader`: `jps.Reader` over `BodyReader` over the stream of the session, the next request behind the body | one method; inside a chunked body one read of the source |
| `RequestBodyProofs` | theorems about `ChunkedReader` and `RequestBody` | |
| `ResponseBody` | `jps.Writer` over `BodyWriter` over `writerWrapper` | one method |
| `ResponseBodyProofs` | theorems about `ResponseBody` | |
| `EncodingList` | the sorted list of codings and its bisection | a probe |
| `CodingPipes` | extends `EncodingList`: from a header's codings to a chain of readers or writers, and its closing | a probe, a generator, a stage closed |
| `CodingPipesProofs` | theorems about `EncodingList` and `CodingPipes` | |
| `Metadata` | `Size`, `SetSize`, `Range`, `SetRange` over the headers | one method |
| `UrlDispatch` | a list of frame handlers made of `urlhandler`'s parts | one handler tried |
| `FileServer` | extends `Metadata` and `UrlDispatch`: a client, a list of handlers, the file server, a file that changes, and a second, conditional request | a handler, a condition that fails, a turn of the copy loop, a change of the file |
| `FileServerProofs` | theorems about `Metadata`, `UrlDispatch` and `FileServer` | |
| `CacheControl` | settings of responses: parsing, setting, formatting and discarding, any number of times | one method, or the clock |
| `RequestCacheControl` | extends `CacheControl`: the settings of the request before, with Pragma | one method |
| `RequestHeaderProofs` | theorems about `CacheControl`, `RequestCacheControl`, `Ranges` and `RangeHeader` | |

The choices behind the models:

- An RWMutex is a set of readers and at most one writer; a goroutine that has
  called `Lock` keeps new readers out, as `sync.RWMutex` does. A section that
  only reads under `RLock`, or only assigns under `Lock`, is one step, because
  the lock keeps the values stable. Reads outside a lock (`connections == 0`)
  are steps of their own.
- `JpsServer`'s controllers call `AddStreamSessionHandler`; the other two
  methods make the same test and insert into another list.
- A Go Mutex has no owner, so in `HTTP1Session` any goroutine may unlock
  `conLock`, and an unlock too many ends the process.
- Names of codings are numbers, since only their order matters; header values
  are raw or processed; bytes are a few symbols, among them the ones the
  decoder looks for and hex digits that occur in data too.
- In `Metadata` an int64 has three bits, so that additions can wrap around.
- `HeaderStore` treats a read of the map without the lock that meets a write
  as a crash of the process, which is what the Go runtime makes of it.
- `ImplementsMap` maps a header's slices to the values of each key, each known
  by the goroutine that stored it, and a goroutine's program counter to the call
  it is in. `ImplementsPipeline` maps `InUse`, the frames that may still use the
  stream, to the holders of the stream.
- Time in `FileServer` is counted in half seconds, so that a date loses
  something; the digits of a tag have a base of 4, two of them with one
  character, as two of the code's 88 have.
- A request body and what is on the wire around it are a few symbols; the data
  and the next request look like the framing.
- A response whose close callback is never reached is an action of its own in
  `HTTP1Session`, `NeverClosed`: a frame no handler took, a handler that forgot
  its body or gave the stream away, a `Writer.Close` without a body to close.
- Each value of a Cache-Control header is parsed as one directive
  (`cache-control.go:53`). A field line of a request is one value, commas and
  all (`headerParser.go:129`), and a handler may write such a value too. The
  models therefore have two parts in a header: the directives in values of their
  own, and a line of several (`line`, `reqLine`), which the parser takes for one
  unknown directive, or refuses if it begins with an age, and which goes out
  again from the Extras with everything behind its first `=` in quotes. Responses
  are not sent over another hop: `FormatHeaders` joins their values, and nothing
  in the repository parses a response. What a cache makes of the joined line is
  `Told`, from RFC 7234.
- The expiry a handler means by a time is the time left until it
  (`Meant`), as the comment on `MaxAge` says, and not what
  `makeBothFromExpires` computes.
- A Range header has its unit: what it selects (`Selected`) is nothing if that is
  not `bytes`.

Abstractions that touch none of the properties checked: `ResponseBody` leaves
out the returns with an error before a body is built (`bodyWriter.go:233-250`)
and lets a close reach the callback although `WriterPipe.Close` stops at the
first stage that fails (`pipe.go:126`; `CodingPipes` and `NeverClosed` have the
failure); `Metadata` panics on a Content-Range that the code cannot cut, whether
or not values are folded, and leaves out the slice of one shorter than six
characters; `RequestBody` has the gzip coding only as a generator that fails,
since the data behind it would be another stream of symbols.

## Runs

| Run | Instance | Distinct states | Shows |
|---|---|---|---|
| `JpsServer` | 1 stream, 1 session, 2 controllers with 2 calls each | 245,515 | `ConnectionsCounted`: the counter is the number of registered goroutines. `OpenWhileRegistering`: no change of state between the test and the end of a registration. `HandlersOnlyWhenClosed`. `ImplementsLifecycle`: refinement. `Drains`: a closing server with requests closes or is reopened. `ConnectionsEnd`: every connection gets past both locks |
| `HTTP1Session` | 4 pipelined requests, 2 failed header writes, bodies closed once | 560,233 | `ImplementsPipeline`: refinement; responses leave in order, one for each request. `OneFrameAtATime`, `NoDoubleUnlock` and `EndedClosesStream` (outside the cases they name). `EndStopsReading`: after `End` no request is taken from the stream, unless it came while one was being read. `LoopGoesOn`: the loop waits for ever for the next frame only if some response is never closed, or if `End` came between a keep-alive header and the end of its body |
| `HandlerList` | 1 dispatcher, 3 stages, 2 priorities, 2 protocols, 3 items | 636,752 | `ListInOrder`, `CallsFollowList`: a walk calls exactly the handlers for its protocol in list order, `InsertNotStarved` |
| `HeaderStore` | 2 goroutines with 2 calls, 2 keys | 304,600 | `ImplementsMap`: refinement; no update is lost, goes to a deleted slice or is applied twice. `OnlyLastUnprocessed`: the values processors have seen all values but the last. `CallsReturn` |
| `RangeHeader` | up to 3 ranges over offsets -2..3, headers of up to 3 specs; sizes 0, 1, 2, 3, 5 | 880,101 | `CoverageKept`: the bytes asked for stay the same, for every size (`MergeRanges` alone: for absolute ranges). `TidyResult`: absolute ranges come out sorted and disjoint. `HeaderMeansRanges`: the ranges parsed from a header are the bytes it selects, save for `-0`, and none if its unit is not `bytes`; each spec that `SetRanges` writes names its range, in a header that selects nothing because it has no unit. `Terminates` |
| `RequestBody` | up to 2 chunks, 6 size lines, or a length, or no body, or contradictory headers; whole, cut or damaged; buffers of 1 and 3; one `Close` | 940,517 | `DeliversPrefix`: of a whole or cut body only data is delivered. `IntactDecodes`: a whole body is delivered to its end. `StopsAtBoundary`: nothing of the next request is taken, and at EOF nothing of the body is left. `ReadingEnds`, for damaged bodies too |
| `ResponseBody` | lengths up to 3, 6 bytes sent, 2 closes | 457,896 | `LimitIsAnnounced`: the enforced limit is the length that was announced. `StringBodyExact` |
| `CodingPipes` | 5 names, 4 with a writer, 2 codings in a header | 318,298 | `ListAgrees`: the list holds what was added, in order, and every search is right. `SearchEnds`. `ReaderUndoes`: readers take the codings off in the opposite order |
| `FileServer` | 11 lists of handlers, 3 URLs, files of 0, 2 and 3 bytes with a buffer of 2, 5 times, 3 zones, one change, 13 second requests, 3-bit integers | 951,252 | `MetadataAgrees`: size and range read back as they were set last, and a body is framed one way. `LeafSeesItsShare`: a handler is given the path less what its own chain took off. `NotModifiedIsFresh` and `EchoedValidatorHolds`: validators mean what they meant, outside the cases they name. `SentIsAnnounced`: a file that does not change is sent whole. `HandleReturns`, also if the file changes, unless it was empty |
| `CacheControl` | ages 0 and 1, clock up to 1, any flags and one age in a request, or a line of several directives; modes, ages and times of a response, or headers and lines its handler wrote | 2,561,695 | `NeverLoosened`: caches are told no more than the handler allowed, and headers that were formatted, discarded and parsed again are not understood as more, outside the cases it names. `RequestKeepsDemands`: no flag of the request is lost, in values of their own or on a line up to its first age, nor does Pragma say less. `FormatIsStable` |
| `JpsServer_closed_drained` | 2 streams, 1 controller | violation | `ClosedMeansDrained`, the comment on `StateClosed`, does not hold |
| `HTTP1Session_unlock` | 2 requests, 1 failed header write | violation | `UnlockedOncePerResponse`, the comment on `conLock`, does not hold |

The runs check no type invariants and spend their properties on behaviour. The
type invariants are proved, for `JpsServer`, `HTTP1Session`, `HandlerList`,
`HeaderStore`, `ResponseBody` and `CodingPipes` as theorems of their own, for
the other modules as part of the inductive invariants.

Why the bounds are enough. The races of the server need one goroutine that ends,
one that begins and a close between a reopening, which two controllers with two
calls give. A session hands `conLock` from one frame to the next and keeps
nothing else, so four frames show a handover after every kind of predecessor. A
third item of a handler list can fall before, between or after two others. In
the header store a lost update takes one goroutine that finds a slice and one
that deletes it; two keys let one call overlap another on the other key. Merging
ranges looks at neighbours, and three ranges make a merge that follows a merge.
Two chunks show the change from one to the next, and the buffers of 1 and 3 end
before, at and after a chunk. The size lines are of even and odd length, which
is what `readLine` treats differently, with leading zeros and extensions. A file
of three bytes takes two turns of the copy loop, and one change between two
requests, or between `Stat` and a read, makes what the server said before stale.
The handler lists of `FileServer` nest at most two tests; each combination of a
rewriting handler that declines with one that follows is among them. The cache
settings are a function of the headers they are parsed from, and the run formats,
discards and parses without a bound. Five names give the bisection lists of odd and even length on both
sides of a probe.

No run switches deadlock checking off: a terminal state, such as a panic, is
given an explicit step that stutters.

### Fairness

The Go scheduler runs every goroutine that can run, so each step of a goroutine
inside a call of the library is weakly fair. What callers and peers do is not,
save for what the liveness property needs:

- `JpsServer`: the steps of every goroutine in a call are fair, including the
  return of stream handlers and the end of a session by its peer. The arrival
  of connections and the calls of controllers are not. A pending `Lock` keeps
  new readers out, so weak fairness is enough.
- `HTTP1Session`: the loop, and that each handler comes to an end with its
  response, by closing its body or by never closing it. The close callback is not
  assumed to run: a step of `NeverClosed` satisfies the fairness as well.
  `End`, `Hyjack` and failed writes are not fair.
- `HandlerList`: insertions and walks; handlers return. New dispatches are not
  fair, and may come for ever.
- `HeaderStore`: each goroutine's step; callbacks return, and an `UnsafeAdder`
  is released.
- `RangeHeader`, `CodingPipes`: the steps of the one goroutine.
- `RequestBody`: the handler reads on, and the source answers with data, an
  error or its end; `Length` and `Close` are not fair.
- `FileServer`: the steps of the handlers and of the copy loop. Changes of the
  file, failing reads and the client are not fair.
- `ResponseBody`, `CacheControl`: safety only.

## Proofs

Together they state every invariant, action property and refinement that a
passing run checks.

`ServerProofs`, for any sets of streams, sessions and controllers that are
disjoint and of which streams and sessions are finite (`ThreadsAssumption`,
`ConfigAssumption`):

- `ServerInvariant`: the inductive invariant `IInv`. That `connections` counts
  the registered goroutines is not inductive: a store writes what was loaded
  before. So `IInv` also says where the holders of the locks are:
  `StateLockInv`, the readers of `stateLock` are the goroutines between
  `RLock` and `RUnlock` and the pending writer stands at its `Lock`;
  `CountLockInv`, `connectionsLock` is held exactly between load and store, and
  the value loaded is still that of `connections`. `OpenWhileRegistering` and
  `InsertsWhileClosed` follow from these since a writer needs `stateLock`
  without readers.
- `ServerTypeOK`, and `ServerCountsConnections`, `ServerOpenWhileRegistering`,
  `ServerHandlersOnlyWhenClosed`: the properties of the run, from `IInv`.
- `ServerImplementsLifecycle`: the threaded server implements
  `ServerLifecycle` under the identity on `state` and `connections`. The load
  inside a registration is a stutter, the store is `Register`: that the server
  is open then, and that the store adds one to the current value, is `IInv`.

For the handler lists, in the same module, for any stages, priorities, protocols
and dispatchers:

- `ListInvariant`, of `ListIInv`: types, the order of the list, and
  `YoungestWaits`: the waiting item is younger than every item in the list,
  which is why going after its equals keeps the order of insertion. The lemmas
  say that the place `insert` looks for exists and is the first of its kind
  (`LeastNatural`, `PlaceFound`), what the list is after an insertion
  (`InsertAfterSeq`), and that it is in order (`InsertKeepsOrder`).
- `HandlerListInOrder`: the property of the run; `HandlerListTypeOK`.
- `CallsInListOrder`: walks, from `WalkInv`: the handlers a walk has called are
  the set it owed so far, each after the ones before it in the list. It also has
  to say where the given handler of `HandleWithHandler` comes: as long as it was
  not called, the walk has not passed the handle stage. An insertion shifts the
  places of a list but waits until no walk holds the read lock.

`HTTP1SessionProofs`, for any number of requests and of failed header writes:

- `SessionTypes`: the loop's place, the number of frames and the phase of each
  response agree. The rest assumes `MaxCloses = 1`. This is a condition on
  handlers and not on the size of the instance: a body that is closed twice
  unlocks `conLock` for a frame that is not its own (`handler.go:186`), and then
  the properties are false.
- `OneFrame`, `UnlockedByOwner`, `StreamClosed`, `EndIsFinal`: the properties of
  the run. `OneFrameAtATime` is not inductive: that the loop reads on is safe
  only because nobody else will unlock. `IInv` says who answers for the Mutex.
  Only the latest frame is in use (`LatestInUse`). While the session is kept
  alive the lock belongs to that frame, or to the loop between two frames; a
  frame gives it up early only when `close` is set, and then the loop does not
  get past its second look at `close` (`LockHandedOver`). `close` is not taken
  back, except by the reading of a request (`CloseStays`); as long as headers are
  written and nobody takes the stream over, whoever unlocks holds the lock
  (`OwnerUnlocks`); a session marked as closing still has the response that will
  close the stream (`MarkedCloses`).
- `PipelineRefined`: the session implements `SessionPipeline`. A response is on
  the wire only once its header was written (`SentHeaded`), so that none is
  begun twice.

`HeaderStoreProofs`, for any goroutines and keys:

- `IInv` ties the lock to the goroutines (`LockInv`), the pending calls to their
  places (`CallInv`), and says that a slice found under the read lock is still
  in the map while it is waited for (`FoundIsLive`), because a `Del` of it would
  have needed `KeyModLock`. `UpdatesReachMap` is that last part; `HeaderTypes`
  and `ProcessorsLagByOne` are others.
- `MapRefined`: the store implements `HeaderMap`. Each step is a stutter or a
  step of the map; a call takes effect in the section that stores its value.

`ResponseBodyProofs`, for any lengths and any number of bytes, calls and closes:
`BodyInvariant`, `BodyTypes`, `BodyHeldToAnnounced`, `StringBodySent`. A writer
is built together with its header, and a body that was not touched has sent
nothing; between the steps of `StringBody` the announced length is its argument.

`CodingPipesProofs`, for any names and headers of any length:

- `BisectionFinds`: the sought name is neither before `a` nor after `b`
  (`Between`), and what `Add` or `Remove` put into the slice or took out of it
  left it sorted. `PipesTypes`: every probe is within the list.
- `ReadersUndoWriters`: the generators found so far are the codings from the
  back of the header, those built so far the front of the chain (`OrderInv`).

`FileServerProofs`, for every width of an int64, every file size, buffer, time
and zone of whole seconds, base of the digits, and history of the file:

- `MetadataStaysTrue`: the headers are in one of three situations, without a
  range, with a Content-Range that cannot be understood and was not written
  since, or with one that a setter wrote (`MetaInv`); the proof needs that a
  length that wraps around still gives back its range.
- `WholeFileSent`: what was sent is the offset of the copy loop, of the version
  that `Stat` saw as long as the file has it (`SentInv`).
- `IntegersApart`: two integers have the same digits only if they are equal or
  have the character that stands for two digits. This is an induction over the
  integers, done as an argument about a least counterexample, on which
  `WellFoundedInduction` has a theorem without an operator for parameter
  (`WFMin`); in the same way the recursion of `EtagFormat` is shown to define a
  function.
- `ValidatorsUnderstood`, `NotModifiedTrue`: what the client kept is what the
  headers said (`EchoInv`), and time does not go back (`FreshInv`). That a tag
  given out matches no other file rests on `IntegersApart`.
- `LeavesSeeTheirShare`: for any characters, names, ports and handlers, where
  every handler behind another one is of one of `urlhandler.go`'s kinds. What a
  chain has stripped and what is left are together the path that was asked for,
  until an item declines with something stripped.

`RequestHeaderProofs`, of the cache settings of an exchange (`ExchangeSpec`),
for any ages, times and modes:

- `DemandsReachCaches`: what was asked for in values of their own is in the
  header or in the settings that will be written over it (`DemandInv`), and what
  stood on a line is on it still, or among the Extras, up to its first age
  (`LineInv`): quotes do not touch what is in front of them.
- `FormattedOnce`: once formatted, the ages are fixed, and the header and its line
  are a function of the settings that the clock plays no part in (`StableInv`).
- `NothingLoosened`: that nothing is looser is not inductive, because a mode may
  lose its age when it is formatted, and itself when it is parsed and formatted
  again. `CarryInv` says that the headers, and settings parsed from them, carry
  what was asked for in one of two ways: in modes and ages that `headers1` does
  not drop (`Kept`), or all of it on a line the parser does not understand, with
  nothing beside it. The lemma on formatting (`ExpressedGood`) says that
  `headers1` writes such a header for all settings within `Expressible`, the
  exception the property names. `TimedInv` is the other half: an expiry given as
  a time that has not passed becomes an age of 0, which is stricter than what was
  meant.

Of the ranges, for any offsets, lists and headers of any length, and data of any
of the sizes:

- `RangesKeepCoverage`: that the bytes named stay the same is not inductive, for
  a merge drops the end of a range because the one in front of it reaches as
  far. Only a sorted list, or one of absolute ranges, lets it (`MergeInv`); that
  the sort leaves the list sorted is `SortInv`, where the range that is on its
  way down is the only one out of place. `CoverInv` compares sets of bytes; the
  lemmas say what a list covers after an exchange, a removal and a merge of
  neighbours.
- `RangesAreTidied`: what the merge has passed is disjoint and in order
  (`TidyInv`), also after it has gone back by one.
- `HeadersMeanTheirRanges`: the ranges parsed so far are those of the specs read
  so far (`ParseInv`), what is sorted then means what the header selected
  (`MeansInv`), a header of another unit or method leaves no ranges, and the
  specs written so far are those of the ranges, without a unit (`FormatInv`). `RangeIInv` is all of these.

`RequestBodyProofs`, for any chunks that are not empty, any number of them, any
size lines without a CR, any next request and any buffers:

- `DeliveredIsPrefix`, `WholeBodiesDecode`, `ReadersStopAtBoundary`: from
  `BodyIInv`, which says by which headers the body is framed (`ChunkedForm`,
  `LengthForm`, `HeadForm`, `RawForm`, `OddForm`) and for each of them where its
  reader is.
- A body in chunks: `Layout` lists the places where the lines, the data and the
  line ends of an encoded message are. `LaidOut` shows that `Encode` has one, an
  induction over the chunks done as a least counterexample. `Where` then says
  what the reader holds at each of its places: at the start of line k
  everything before it was delivered, in a chunk as much as is missing from
  `bytesLeft`, in a line what stands on the wire from its start.
- The hard case is a Read that fails, because the source stalls, and is called
  again. A Read that failed within the line end behind a chunk is not taken up
  there: the next one reads the rest of that line end as a size line.
  `LineStart` allows for that; the line is then empty, or begins with the LF,
  and is no size (`LineIs`), so that nothing false is delivered.
- `Outcome` ties the results to that: without a stall or a `Close`, no Read of a
  whole body fails, and EOF comes with `bytesLeft` at -1.
- A whole message that was damaged at one byte is outside these theorems, as it
  is outside the properties. `ReadingEnds` covers it.

The proofs changed the models in a few places. `RequestMode`, `StrictMode` and
`ParsedPublic` were `CASE`s with guards that overlap, of which TLA+ allows any
branch and TLC takes the first; they are `IF` chains now, as the code is. The
first condition that fails is the least of a set, in place of a choice, and
`CallsFollowList` says in two definitions, `Owed` and `Precedes`, what it said
in one. The encoder of `ChunkedReader` and its parser of sizes are recursive
functions where they were folds, the size lines are a constant in place of three
styles that were computed, and the digits are all sixteen with the bound of 31
bits. Where two modules share a module of proofs, the specification of one has a
name of its own: `ExchangeSpec`, `ListSpec`.

Only model-checked: all liveness (`Drains`, `ConnectionsEnd`, `LoopGoesOn`,
`InsertNotStarved`, `CallsReturn`, `Terminates`, `ReadingEnds`, `SearchEnds`,
`HandleReturns`): the prover does not do fairness or `ENABLED`.

## Where the code surprises

Two disagreements with comments are runs of their own, and `PROJECT.json`
quotes the comments:

- `server.go:87` and `:199` test `connections == 0` outside the lock and close
  the server later, when another request may have been admitted.
- `bodyWriter.go:43`: a header that cannot be written is generated again, and
  unlocks `conLock` again.

The rest is part of the models; where it would break a property, the property
names the case as an exception.

- Server: `Close` on an idle server leaves it in `StateClosing` (277);
  `stateChange` is a nil channel, so `CloseAndWait` waits for ever unless the
  state is already right (229); a session refused by the server is dropped
  without being closed (154, 167); `ClosedHandler` is given nil in place of
  the connection (183); `HandleFrame`'s `handled` is discarded (376).
- Session: a handler's error after a keep-alive header leaves the stream open
  (369); `End` after a keep-alive header blocks the loop (187), between two
  frames it leaks the stream (108), and before a request is parsed it is lost
  because `ParseRequest`'s result overwrites `close` (137); `Hyjack` and then a close unlocks
  twice; a body closed twice lets two frames run at once; a frame that no handler
  takes is closed by nobody, and the loop waits for it for ever.
- Handler lists: `HandleWithHandler` does not call its handler if the list has no
  item of exactly the handle stage (`ListMethods.go:131-154`).
- Response bodies: `LimitWriteFlushCloser` has value receivers, so its count
  is not kept, and a write over the limit passes on as many bytes as exceed it
  instead of as many as fit (`bodyWriter.go:93`); a
  buffered body has a nil writer (`outgoing.go:123`); `closed` is never set;
  after a pipe failure a typed nil is used as body (`outgoing.go:115`).
- Codings: `chunked` has no writer, and building its chain calls a nil
  generator; `Close` of a pipe stops at the first error; writer chains are
  built in the order of readers.
- Chunked: a body that is cut off ends with `EOF`, as a whole one does.
- Request bodies: a request with neither Transfer-Encoding nor Content-Length
  is given the raw stream, with the next request on it (`bodyReader.go:90`);
  `Close` of a body closes the stream of the session; nothing reads the rest of
  a body the handler left; a generator that fails leaves a typed nil, and the
  next `Read` panics (73).
- File server: an empty file makes the copy loop spin for ever
  (`fileserver.go:70`); a failed write ends the copy with the nil error of the
  read (74), so that a response cut off counts as handled; the file is never
  closed; a HEAD response carries the first buffer of the file, because the
  limit 0 passes on all of the excess; Not Modified is sent as 316
  (`responseCodes.go:137`); the local clock is written under the name of GMT
  (`metadata.go:291`); the alphabet of tags has the digit 6 twice (`etag.go:8`);
  where header values are folded to lower case, a tag never matches again.
- URL dispatch: a prefix stripped by a handler that declines is not put back; a
  host that is not in the map is a nil pointer.
- Requests: `SetRanges` does not write `bytes=`, so that its own parser ignores
  the header, against the comment that it "specifies the ranges given" (128); a Range header shorter than six characters panics
  (`request.go:195`); `-0` asks for nothing and gets everything (217).
- Headers: `Has` without values keeps the Processor's read lock; the map is read
  without `KeyModLock` at `header.go:107`; the range given to a processor is off
  by one at 214, and an empty slice makes it -1.
- Ranges: `MergeRanges` called alone may join relative with absolute ranges.
- Metadata: a range beyond the size is accepted, and the Content-Length
  computed for it can be negative or overflow.
- Cache-Control: an unspecified public mode formats no header at all; some
  combinations with an unknown age lose `must-revalidate`; an unknown age is
  formatted as `max-age=0`; `makeBothFromExpires` subtracts the wrong way
  around (113), so that a time that has passed gives an age, against the comment
  on `MaxAge` (131); several directives in one value are one unknown directive
  (53), whose argument comes out in quotes; the test of `ParseTime`'s error is inverted (542, 552). Of a
  request the ages are parsed and never written back, Pragma is not looked at
  when parsing, and after a malformed age the handler works on settings nobody
  reads; a malformed response header gives an error each time it is asked for.
  `CachedAge` parses indices instead of values.

## Not modelled

The buffer pools are reached by no code: `getBufioReader` and `getBufioWriter`
test for a buffer that only they could have made. TCP and UDP sessions are
socket I/O around what `JpsServer` calls a session. Parsers of requests and
single headers, and the formatting of responses, are functions over characters
with unit tests; the modules use their outcomes. The maps of statuses and media
types are tables and their parsers. Variables are a lookup in nested scopes. The
client and the cache keys are declarations so far, TLS is one forwarding call,
and the utilities are adapters and constants. Left out of modelled parts: the
Extras of Cache-Control other than a line of several directives, the Age header (`SetWasCached` does not compile), and
metadata kept in one header each.

## Plan

In this order:

1. Done: the server and its abstract specification, the HTTP/1 session, the
   handler lists, the header store, and the algorithms (ranges, chunked,
   codings, metadata, cache settings).
2. Done: request bodies on top of the chunked coding, the Range header, the
   file server behind URL dispatch and on top of the metadata, the cache settings
   of requests; the session as a queue of requests and responses, and the header
   store as an atomic map.
3. Done: proofs of all safety properties of the runs, and of the three
   refinements.
4. Left to model: `Metadata` under `ResponseBody`; a server with HTTP/1 sessions
   in it, where a blocked session keeps the server from closing.
