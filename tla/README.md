# A verification of btlet

btlet is a toolkit of parts of the BitTorrent protocol family, written in Go. Its one application is a
spider: it listens in the DHT for `announce_peer` queries, dials the peers that announce, and downloads
the metadata (and the trackers) of what they announce. This directory holds TLA+ models of its parts,
from the bytes of a message to the composition of the goroutines, the TLC configurations that check them, and TLAPS proofs.

    tlc -config Host.cfg MCHost.tla              # any run: the table in section 4 names module and cfg
    tlapm HostProofs.tla                         # any *Proofs module

## 1. The system

| Component (source) | State | Operations | Modules |
|---|---|---|---|
| Transaction dispatcher (`dht/krpc.go` 31-144) | a `sync.Map` from ids to boxes, a goroutine and two unbuffered channels per box | `Add`, `Remove`, `DisposeResponse`, `DisposeError`, `keepAlive`, `done`, `loop` | `TransactionDispatcher`, `TransactionRegistry`, `TransactionDispatcherProofs` |
| Host (`dht/dht.go` 66-211) | socket, one receive buffer, worker pool | `Serv`, `disposeMessage`, the disposer proxy | `Host`, `HostProofs` |
| Node filter (`dht/crawler.go` 305-351) | bloom filter, `amount`, RW lock | `AddNode`, `Check`, `Reset`, `IsFull` | `NodeFilter`, `NodeFilterProofs` |
| Sybil crawler (`dht/crawler.go` 53-303) | transaction, target, `finish` channel, refresher goroutine | `Crawl`, `Stimulate`, `OnLaunch`, `OnResponse`, `OnQuery`, `OnTimeout`, `OnFinish` | `SybilCrawler` (with `Host` and `TransactionDispatcher` inside), `SpiderProofs` |
| Extension protocol (`bt/extension.go`, `bt/fetchmeta.go`, `bt/tex.go`) | the extensions, the peer's ids, pieces, tracker list | `HandlePayload`, `AfterHandshake`, `HandleMessage`, `Unsupport`, `CheckDone`, `FetchRawMeta` | `ExtProtocol`, `ExtProtocolProofs` |
| Metadata download (`bt/fetchmeta.go` 14-88, `bt/stream.go`) | connection, context, session | `FetchMetadata`, `DialUseTCP` | `FetchMetadata`, `FetchMetadataProofs` |
| Tracker and metadata fetcher (`sniffer.go` 88-235) | connection, session, `fmdone`, `rawmeta` | `RegistExts`, `MainLoop`, `onlyMeta`, `onlyTracker`, `metaAndTracker` | `MetaTrackFetcher`, `MetaTrackFetcherProofs` |
| Spider (`sniffer.go` 29-119) | the crawler | `Run`, `RunAndFetchTracker`, `Stimulate` | `Spider` (extends `SybilCrawler`), `MetaTrackFetcher`, `SpiderProofs` |
| Example pipeline (`example/btsniffer`) | a buffered channel | `Has`, `DisposeMeta`, the main goroutine's `range` | `Spider` |
| Peer wire framing (`bt/peerwire.go`, `bt/extension.go` 128-171) | the bytes on their way | `ReadMessage`, `ReadMessageWithLimit`, `ReadMessageInto`, `WriteMessage`, `WriteExtensionMessage` | `PeerWire`, `PeerWireProofs` |
| Bencode codec (`bencode/`) | a reader's position, its sticky errors, the variable it decodes into | `Decode`, `Encode`, `Unmarshal`, `Marshal`, `BytesParsed`, the two `Disallow...` | `Bencode`, `BencodeStream` |
| KRPC messages (`dht/krpc.go` 146-297) | none | `MakeQuery`, `MakeResponse`, `KRPCErr` | `Messages` |
| Compact infos, identifiers (`dht/util.go`, `tools/`) | none | `unpackNodes`, `PackNodes`, compact addresses, `CommonPrefixLen`, `makeID` | `Messages` |
| Metadata outline (`bt/metadata.go`) | none | `FillOutline` | `Messages` |

How they interact. `Spider.Run` calls `Crawl` with a callback. `Crawl` opens a `Host`, registers one
long-lived transaction with a `TransactionDispatcher`, and stays in `Serv`, which reads datagrams and
hands each to a worker. A response goes through the dispatcher to the transaction's `OnResponse`, which
puts the sender into the node filter and asks the nodes it tells of for the current target; a query goes
to `OnQuery`, which answers it and, for an `announce_peer`, runs the callback **in the worker**, when
everything else is done (`defer`). The callback is `bt.FetchMetadata` followed by the pipeline's `DisposeMeta`, which in
the example blocks while its channel is full, or a `metaTrackFetcher`. All messages, and the headers of pieces, are
read and written by the bencode codec. At the same time
the transaction's loop (timer, end), the refresher goroutine it started and any caller of `Stimulate`
each replace the target and reset the filter.

What is hard here:

* the dispatcher uses boxes it loaded from the map after their loop may have gone, and signals the loop
  through channels of which one drops and one blocks;
* `Serv` is stopped only between two reads, and may wait for a worker that is busy for minutes;
* `AddNode` gives the lock back before it uses the filter, and the target and the filter are replaced in two steps by
  three goroutines;
* a peer may send any extension message in any order, as often as it likes;
* the decoder has three readers of the same bytes (decode, copy, skip), which have to agree on where a value ends, and
  decodes into variables that were used before;
* everything that was started has to end when the context is cancelled.

`PROJECT.json` lists the hazards one by one, with the line and the properties that cover them.

## 2. The modules and the code

**TransactionDispatcher.** `transactions` is the map, `loop[b]` where the goroutine of a box is,
`pc`/`held`/`call` where a caller is, with the box it loaded. Each operation on the map or on a channel
is an action: `AddStore` (LoadOrStore) and `AddSpawn` (`go loop`), `RemoveLoad` and `End` (the blocking
send of `done`), `DisposeLoad`, `KeepAlive` (the send with a default case), `Handle` (the handler and its
verdict), and for the loop `OnLaunch`, `Arm`, `Expire`, `OnTimeout`, `RmSelf`, `OnFinish`. `Collect` is
Go's garbage collector: a box that nobody holds any more can be the box of a later `Add`, so behaviours
are not limited to a fixed number of transactions. Handlers' verdicts are constants, because the
crawler's handlers always return true.

**TransactionRegistry** is what the dispatcher promises: an id has at most one owner, an owner gives up
its own id and no other, and then finishes. `ImplementsRegistry` is the refinement (`owner` is the map,
`phase` follows `loop`).

**Host.** `serv` is the position in `Serv` and `buf` what is in its one buffer. What `Unmarshal` makes of a slice of
it is memory: `msg` and `args[w]` are either memory of their own, with the datagram that was copied there, or the slice `InBuffer`, which
shows whoever reads it what is in the buffer at that moment (`Contents`). `Decode` copies, as the decoder does
(it reads through a reader of its own into buffers of its own); `Handle` reads the arguments when the handler runs, after
any number of further reads. `job[w]` is the datagram the worker was spawned for, and the comparison of the two is
`HandlersSeeTheirMessage`: a decoder that kept slices of its input (the mutant `DecodeInPlace`) breaks it.
The worker pool is external: `WaitSpawn` blocks until one of `maxWorkers` is free.

**NodeFilter.** One step for each read and each write of a word of the bit set and of `amount`, because
`AddNode` (crawler.go:320-321 locks and unlocks before it starts) races with everything. `Check`,
`IsFull` and `Reset` hold the lock over their steps; `AddNode` reads and writes words in the middle of them.
History variables say what was supposed to happen: `members` are the keys added by an `AddNode` that no other and no `Reset`
overlapped (`disturbed` are the others), `known` the Checks that began with a member, `added` and `counted` what has been added and counted since
the last `Reset`, and `leftover` that an `AddNode` ran when that `Reset` took the lock.

**SybilCrawler** instantiates `Host` (H) and `TransactionDispatcher` (D, one id, one box, the workers and
Crawl as callers) on its own copies of their variables, and its actions are theirs, joined with the state of
the crawler: `KeepAlive(w)` is `D!KeepAlive(w)` and a step of worker w, `OnFinish` is `D!OnFinish` and
the close of `finish`. `step[w]` is the position in `OnResponse` or `OnQuery`. The filter appears as
`known`, the nodes it is sure to find, in the terms `NodeFilter` justifies: it may lose a raced
addition and may err on the side of "known". Targets are numbered. A refresh is two steps
(`ChangeTarget`, `ResetFilter`), taken by `timeout`, `refresher` and `stimulate`. `alive` is the process: a query whose id has 1 to 14 bytes (`Fatal`)
makes `makeID` panic in the worker (`AnswerPanics`), and so may the callback (`CallbackPanics`). Nothing in btlet recovers a panic of a handler, and the
pool is taken not to either, so the process `Dies` and nobody takes a step any more. Of a fatal `announce_peer` the
callback is deferred by then (crawler.go:249, before the call of `makeID` at 253) and runs first.

**Spider** extends `SybilCrawler`: its workers' step `callback` becomes a state machine of its own (`Has`, `Fetch`, `FillOutline`,
`Send2Channel`), of which the download and `FillOutline` may panic (`FetchPanics`, `FillOutlinePanics`) and after which the panic of a fatal announce goes on (`PanicGoesOn`). Beside it stand the pipeline's channel `ch` and the main goroutine (`RangeChan`, `PrintLines`).
`SpiderNext` is `Crawling`, everything of the crawler but its opaque `CallbackReturns`, or a step of these. So the
chain is closed: `Serv` waits for a worker, the worker for room in the channel, the channel for main.

**Bencode** has no variables: a decoder is a record (input, offset, the strict modes and their sticky errors, `ok`, the
value `v`), and each function of the Go code that moves it is an operator from decoders to decoders, `Decode(d, T, old)` taking
the Go type and the old contents of the variable. Go types and values are tagged records; `Fields` is `wrapStruct2Map` with its
embedded structs and tags. Bytes are numbers and lengths, delimiters, digits and offsets are the real ones. `Encode` is the
encoder, with `omitempty`, the sorting of keys and `RawMessage`. **BencodeStream** puts values that were encoded one behind the other, damages one
byte or cuts off the end, and has a reader decode them into right and wrong, new and used variables. Its reference definition
is the grammar of bencode (`IsValue`), written over substrings and without a decoder. **Messages** extends it with what
btlet sends: a datagram goes through `disposeMessage` (`DisposeMessage`), then `OnQuery` or `OnResponse`, to the bytes of the
answers and queries; metadata go through `FillOutline`. Ids, compact addresses and packed nodes have their real sizes. Both use
recursive operators and stay with TLC.

**ExtProtocol** has no variables: a session is a record and `HandlePayload` an operator that takes a session and
a message to the next session, errors and panics included. A handshake only sets up the loop of `FetchMetaExt.AfterHandshake`: the slice of pieces is made, or
panics for a size beyond `MaxSize` (what `make` allows), and the requests are then steps of their own (`Request`), as many as the peer's size asks for, of which each may fail
or, when the error of its length is swallowed, get lost (`LoseRequest`). `Poisonous` names the four kinds of payload that crash the program. **FetchMetadata** and **MetaTrackFetcher** are the two
main loops around it. `Messages`, what a peer may send, is a set of records: handshakes with any subset
of extensions, ids and sizes, data, rejections, garbage. A variable chosen at the start (`honest`, `peer`) says
whether the peer may send any of it and hang up at any time, or follows the protocol; safety is checked over both,
what a peer has to get through over the honest ones. Metadata are short sequences of numbers; a SHA-1 matches when
the sequence is `TrueMeta`, i.e. hash collisions are left out. `heard` in `MetaTrackFetcher` is the history of tracker lists,
told from the messages alone.

**PeerWire.** One direction of a connection. `todo` are the writes a call has still to make, `wire` the bytes
on their way, `buf` and `failed` those of a `bufio.Writer` (when `buffered`). Lengths are encoded and
decoded for real, in a small base, so that a reader that has lost its place reads a wrong length.
The fetchers take from it that a read gives a message that was written or an error.

## 3. Abstractions that matter

* In `Host`, `SybilCrawler` and `Spider` the contents of datagrams are reduced to a kind (`TypeOf`, `KindOf`); `Messages` has their
  bytes, and no concurrency. That `disposeMessage` gives handlers the message that was sent is `HostUnderstands`.
* In `Messages` a key of a dictionary and the name of a query are one byte. Types with an `UnmarshalBencode` of their own are read as what it reads, and its conditions are checked
  afterwards.
* In `Spider` a download is one step with three outcomes: metadata, an error, and a panic, which ends the process. That it ends is `CancelEndsFetch` of `FetchMetadata`: the callback's context ends after five
  minutes. A torrent is the announce that told of it.
* Panics are modelled where the code lets a peer's data cause them: `makeID`, `HandlePayload`, `make` for the pieces, `FillOutline`. A panic in `disposeMessage` is recovered there (dht.go) and drops the
  datagram. The worker pool (`github.com/neoql/workerpool`, not in the repository) is taken not to recover: were it to, the worker alone would
  be lost or go on, and the properties with "or the process has died" would say less than could be said.
* `Stimulate` comes after `Crawl` has begun. Before, `crawler.transaction` is nil and the call panics (crawler.go:83).
* `SendMessage` and `boot` change nothing in the program; their errors are ignored by the code.
* `NewHost` is taken to succeed: when it does not, `Crawl` returns before it has any state.
* A read from a peer ends with one message or an error. That it ends is the read deadline of ten
  seconds per `Read` (stream.go:93) and the finite length of a message.
* In `FetchMetadata` requests go through a `bufio.Writer`, whose sticky error `Flush` reports; in `MetaTrackFetcher` they are written to the connection, and one whose
  length could not be written is lost without an error. What such a writer sends afterwards is `PeerWire`'s.
* `make` for the pieces fails beyond one size, `MaxSize`. The real limit depends on the platform and its memory; that the size is positive, that it fits and that it does not are the three cases.

## 4. The runs

| Run | Module / cfg | Shows |
|---|---|---|
| dispatcher | MCTransactionDispatcher / Dispatcher | entries are served, own their id, and are removed by their owner only; refinement of the registry; keep-alives do not block; an end request is served |
| dispatcher_remove_returns | MCTransactionDispatcher / DispatcherRemoveReturns | *violated*: the second of two enders blocks for ever |
| host | MCHost / Host | handlers see their message, one handler each, at most one read after the cancellation; a cancelled `Serv` returns; what was read is handled |
| filter | MCNodeFilter / NodeFilter | an undisturbed addition stays found; after a reset no old node is found; not full for fewer than `cap` additions; the latter two unless an AddNode runs across the reset |
| sybil_safety | MCSybilCrawler / SybilSafety | nodes admitted by an emptied filter are asked for the new target |
| spider | MCSpider / Spider | a cancelled `Run` returns, its goroutines end, announces are reported, what was downloaded is shown, each unless a panic in a worker ends the process first |
| fetch | MCFetchMetadata / Fetch | only true metadata, connection closed, no vacuous completion; cancellation ends it, in a return unless the peer sends one of the four payloads that crash; an honest peer's metadata arrive |
| track | MCMetaTrackFetcher / Track | only true metadata and no outdated tracker list, at most one delivery; cancellation ends it, as in fetch; one extension of an honest peer is served |
| track_both | MCMetaTrackFetcher / TrackBoth | *violated*: with both extensions the metadata are lost |
| track_silent | MCMetaTrackFetcher / TrackSilent | *violated*: without our handshake no trackers come |
| wire | MCPeerWire / PeerWire | the reader returns what was written, in order, and all that was reported written |
| codec | MCMessages / Codec | values come back, in step and in order; decode accepts the grammar; copy and skip agree with it; what a used variable keeps; datagrams and answers are understood at the other end; outlines are complete |

### Findings

1. A second caller that asks for the end of a box whose loop has left its select blocks for ever
   (krpc.go:53). The crawler never does this: its handlers return true and it removes once, which is why
   `CrawlReturns` holds.
2. `metaAndTracker` keeps the metadata only when fetching them failed (sniffer.go:214).
3. `RunAndFetchTracker` never writes our extension handshake (sniffer.go:144).

Four more things the models show and no comment contradicts. `Remove` returns when the loop has taken its
signal, before the entry is deleted (krpc.go:110): an `Add` of the same id right after it may fail. `AddNode` sets the bits before it tests them, so
`amount` counts only additions whose bits a race undid in between: the filter practically never reports that it is full, and
the refresher does nothing. No property says that it fills, which it does not, and which no comment or test claims. And the nodes of one response are asked for the target that was read before
their Checks (crawler.go:190), so a refresh in between has them asked for the old one; `TargetIsFresh`
states what does hold. `WriteExtensionMessage` and `WriteMessage` return nil when the length could not be written: on the bare connection of
`metaTrackFetcher` the next request is then written amid a length, and `InOrder` does not hold without its exception
for `swallowed`; `bt.FetchMetadata` is safe because a `bufio.Writer` never writes again after an error and `Flush` reports it.

And from the codec, as outcomes that the models have and their properties are worded around:

* `readStringInto` ignores the error of `ParseInt` and `readIntInto` looks at no digit, so a `RawMessage` (and what is skipped) may hold bytes that
  are no bencode; `OneExtent` says they agree with `decode` wherever there is a value.
* An empty list leaves the elements of a used slice in place (docode.go:295), and unknown-field and unordered-key errors stay with the
  `Decoder` over later calls.
* After a list or dictionary that was to go into a variable of another kind the reader is out of step; `InStep` is about calls without an error.
* `KRPCErr` accepts a code that is no integer (krpc.go:224); keys that an embedded and the embedding struct share are written twice.
* `EncodeCompactIPPortInfo` takes the first four bytes of an IP of 16, which are zeros (tools.go:56), and `PackNodes` writes no ids; the crawler packs the empty list only.
* `CommonPrefixLen` of equal ids is 168, not 160. `makeID` panics for ids of 1 to 14 bytes (crawler.go:302), `FillOutline` for metadata with neither a length nor files
  (metadata.go:42), an empty list of files included. Both end the process, in the models `SybilCrawler` and `Spider` as well.
* A `[]byte`, as `Meta.Pieces`, takes a list of numbers, each cut to a byte (docode.go:254, 294-303); an empty list leaves what it held.

### Bounds, and why they are enough

* *Dispatcher*: two boxes under one id and a third under another are what transactions can do to each other;
  two callers, besides the three loops, let an `Add`, a `Remove` and a response overlap. Names are reused
  (`Collect`), so the length of a behaviour is not bounded. The violation needs one id and two boxes.
* *Host*: two queries, a response and a dropped datagram for two workers: the pool is full, and a third
  message waits, in many of the states. Names of packets are reused once their handlers return.
* *NodeFilter*: two words, of which one holds bits of both keys, and three callers, so that two racing
  AddNodes can disturb what a third added, and a Reset can come between. `Cap = MaxAmount = 1`: one increment makes it full, and `amount` and `counted` saturate at
  `MaxAmount` (only whether they reach `Cap` is read).
* *SybilCrawler*: two workers; an announce, a response with a node, and a query with an id that panics (`MaxTarget = 2`: `target` and
  `cleared` saturate there, so an old, a current and a newer target are told apart). The node of the response is its sender, so that the
  filter both knows it and, after a race or a reset, does not. The kinds "stranger" and "bad" take paths that change nothing beyond those of
  a response without nodes and of an announce.
* *Spider*: one worker, the smallest pool, in which a busy callback stops `Serv`; two announces, a third whose id makes `makeID` panic after its callback, and a channel of one, so that one
  torrent is printed, another fills the channel and the worker waits with the next; any download may panic. Targets do not matter to it (`MaxTarget = 0`). Responses, whose keep-alives compete with
  the end request at the loop, are in the runs dispatcher and sybil_safety.
* *Codec*: streams of up to two values from a pool with one or more of every kind (numbers, strings, lists, dictionaries, structs with
  tags, embedded and pointer fields, raw messages), each read into each of the pool's types; any one byte of a single value of up to
  `MaxDamaged = 70` bytes is replaced by each byte of `Edits` (a delimiter, a digit, a sign, a colon), left out, or made the end. Datagrams of each query, responses and errors,
  with ids of 20 bytes, of none and of others. Metadata of one file, of listed files with paths of one and two names, an empty name among them, with both a length and files, and with neither.
* *FetchMetadata*: five bytes in pieces of two (two full and one partial piece); messages with each
  field right, missing, zero, negative, too small or out of range. `MaxSize = 8`: sizes of 8 are made up but allowed, 9 is beyond. An honest peer sends up to
  `MaxHandshakes = 3` handshakes (two of them repeats, in any phase of the download).
* *MetaTrackFetcher*: three bytes in pieces of two; tracker lists none, `t1` and `t2`, so that the list we had and the list the
  peer sends differ; honest peers with each set of extensions, each list, that know our ids or not.
* *PeerWire*: binary bytes and lengths of two of them (up to 3), two messages of either kind with a content
  of none or one byte, a buffer of three bytes (less than a frame, so that it overflows in the middle of one), a limit of
  two (between the lengths that occur) or none.

### Fairness

Goroutines that can run do run (weak fairness of the steps of one goroutine). Strong fairness is used where Go's
`select` chooses among ready cases at random, so that none is passed over for ever: the loop's receive
of an end signal (`End`, `CrawlReturn`) and the refresher's closed `finish`. Datagrams keep coming: `ReadFromUDP` has no deadline, so a cancelled
`Serv` does depend on it; a live DHT node gets traffic. Nobody has to cancel, stimulate, call, or see a
timer fire. In `Spider` callbacks run on (their downloads end), a panic that is bound to come comes, and main prints on; the send to the channel is strongly fair, because a channel's
senders wait in a queue. An honest peer answers each request that stands
(strong fairness: other messages may come first), which is an assumption about the peer, not the code.

## 5. Proofs

Every safety invariant and action property that a run checks on a small instance is proved for every value of the
constants, except those of the codec; so are the safety parts of most liveness properties. Each `*Proofs` module EXTENDS the module it is about, defines the inductive invariant `IInv` as a conjunction of
named parts, and proves `Init => IInv`, `IInv /\ [Next]_vars => IInv'` and `IInv => ` the property. TLC checked every `IInv` on the
run of its component before it was proved.

| Module | Theorems |
|---|---|
| `TransactionDispatcherProofs` | `TypeCorrect`, `EntriesServed`, `OwnsEntry`, `OwnerRemoves`, `Refines`, `EndIsNotLost`, `LateEndWaitsForEver` |
| `HostProofs` | `TypeCorrect`, `MessagesAreTheirOwn`, `HandledOnce`, `StopsReading`, `NoMessageIsLost` |
| `NodeFilterProofs` | `TypeCorrect`, `AddedNodesAreFound`, `OldNodesAreForgotten`, `FullIsCounted` |
| `SpiderProofs` | `HostInside`, `DispatcherInside`, `PartsKeepTheirPromises`, `TypeCorrect`, `AsksForTheNewTarget`, `RemoveFindsTransaction`, `FinishClosedOnce`, `EndIsAskedOnce`, `RegistryInside`, `NoAnnounceIsLost`; `SpiderIsCrawler`, `SpiderTypeCorrect`, `ReportsOnlyAnnounced`, `NothingIsDropped` |
| `ExtProtocolProofs` | lemmas about `HandlePayload` and about the pieces of metadata that the two fetchers share |
| `FetchMetadataProofs` | `TypeCorrect`, `ReturnsTrueMeta`, `ConnectionClosed`, `DoneMeansPieces`, `StopsAfterCancel`, `CrashesOnPoison`, `HonestPeerServes` |
| `MetaTrackFetcherProofs` | `TypeCorrect`, `DeliversTheTruth`, `DeliversOnce`, `MetaIsLostWithBoth`, `CrashesOnPoison`, `HonestPeerServes`, `UnintroducedGetNothing` |
| `PeerWireProofs` | `TypeCorrect`, `ReadsWhatWasWritten`, `AcceptedIsOnTheWire` |

### The arguments

* **Dispatcher.** The inductive invariant is `TypeOK /\ EntriesAreServed /\ OwnEntry`. The two last need each
  other: `RmSelf` deletes by id, so that the deleted entry is the loop's own is `OwnEntry`, and that
  no entry is left without a loop is `EntriesAreServed`. All steps but `AddStore` and `RmSelf` leave the map
  and the set of registered boxes alone (`QuietSteps`). From the invariant follow `OnlyOwnerRemoves` and
  `Refines`: every step of the dispatcher is a step of the registry or none. `HeldInv` (a caller inside the dispatcher has a box that is
  not garbage, and an Add starts its own) gives the two theorems about the end: only the select takes a request (`EndIsNotLost`), and
  one that comes after the select has been left stays there for ever (`LateEndWaitsForEver`, finding 1 without bounds).
* **Host.** `HandlersSeeTheirMessage` and `OneHandlerEach` become inductive with: the message that `Serv` has decoded and the arguments of every
  worker are memory of their own, with the right datagram in it (`OwnMemory`), for then no later read changes what they show; what `Serv` is disposing of
  has no worker yet; a read after the cancellation implies the cancellation, and that
  `Serv` is no longer about to read. The last part gives `OneReadAfterCancel`.
* **Node filter.** That the bits of members are set is not inductive, because a racing `AddNode` writes back a word that it read earlier. `MembersInv`
  adds that no word about to be written back lacks a member's bit. When an `AddNode` makes its key a member, that holds
  because it was undisturbed: it had the words to itself (`AloneInv`) and has set all its bits (`OwnBitsInv`). `LockInv` ties the lock to the positions of its holders, and a filter that is being reset to having no members.
  For `ResetForgets` the words need the converse (`ForgetInv`): unless an `AddNode` ran when the `Reset` took the lock, no bit but those of nodes added since is set in a word that
  has been cleared, nor in a copy that is about to be written back. None can come from before the `Reset`, because `AddNode` waits for the lock once before it starts. `AmountInv` says the same of `amount`: neither it nor what an `AddNode`
  has read of it exceeds what has been counted since.
* **Crawler.** The composition is used as one. `HostInside` and `DispatcherInside` prove that the crawler, seen through the variables of
  a part, is that part: each action takes one of its actions or none. `HP` and `DP` are instances of the two proof modules, so that their theorems
  hold inside the crawler without being proved again (`PartsKeepTheirPromises`). What remains is how the parts stand to each other: `BusyInv` and `WorkerInv`
  (the host's, the dispatcher's and the crawler's own view of a worker agree), `CrawlInv` (Crawl and the loop of its transaction; it needs
  that neither a response nor a timeout ends the loop, because the handlers' verdicts are always true) and `RefresherInv` (the loop, `finish` and the refresher). From these come
  `RemoveFinds` and `ClosesOnce`: a second close of `finish` would panic.
  `TargetIsFresh` needs a count: each `Reset` follows a change of target by the same goroutine, so the resets done plus those
  that are due never exceed the changes (`FreshInv`), until the numbers saturate at `MaxTarget`. The steps that end the process change nothing else, so they keep every invariant; the theorems say what holds in a process that is alive and of the state that a dead one left.
* **Spider.** `SpiderIsCrawler`: each step of the spider is a step of the crawler or none, so all of the above holds of it. Its own invariant is that a callback that has begun
  keeps its worker and its announce (`CallbackInv`). `NothingIsDropped` says of every step what it may do to the channel and to what main prints.
* **From the socket to the callback.** `NoMessageIsLost` (host) and `NoAnnounceIsLost` (crawler) say of every step what it may not do to a message on its way. The second needs that what reaches
  `OnResponse` is a response (`ResponseInv`), for an announce that ended there would never be reported. `EndIsAskedOnce` is why finding 1 does not reach the crawler: no worker asks for an end
  (`WorkerInv`), and Crawl's request meets a loop that still goes round (`CrawlInv`).
* **Extension protocol.** `HandlePayload` takes a session to a session whatever the message says: ids are cut to a byte,
  a piece outside the range asked for is a panic and leaves no session that goes on, no more pieces are requested than there are, the index of an extension is in bounds (`StaysSession`). Each fetcher adds what its
  own loop needs: `FetchMetadata` that a handshake it accepted has asked for a piece (`Ready`), `MetaTrackFetcher` that the list in the session is
  the one that was heard last (`Agrees`) and that a delivery ends the loop (`DeliveryInv`). `NeverBoth` is finding 2 for all peers and metadata. `CrashesOnPoison` follows the panics through the loop over the extensions: a crash needs one of the four payloads of `Poisonous`.
* **Honest peers.** `HonestPeerSucceeds` and `OneExtensionServed` are liveness, but most of what can go wrong with them is safety: that the callback crashes or returns with
  nothing, or that it waits while the peer owes it nothing. This `HonestServed` rules out, for any metadata and piece size. The session of an honest peer
  is either as it was registered (`Fresh`) or has met the peer (`Met`): the extensions that the two share are supported, each piece is missing and asked for or the true one (`Collecting`), and trackers are due or
  the peer's. When nothing is missing the pieces joined are the metadata, cut and put together again (`JoinedTruePieces`, from `FlattenIs`, `PiecesCover` and
  `CutAt` about `FlattenSeq` and `getPiecesNum`), so that the hash matches. A handshake that an honest peer repeats during `FetchMetadata` asks for every piece again and forgets those it had; `Collecting` holds after it, too.
  `UnintroducedGetNothing` is finding 3 without bounds: the handshake is all that a peer can send that was not told our ids.
* **Peer wire.** `InOrder` says nothing of the bytes between writer and reader, so the invariant has to. `StreamInv` speaks of a stream `T`
  in which the frames of all calls lie one behind the other (`Layout`, with `off[i]` the end of frame i): the reader stands at a frame's beginning or behind
  its length; what is on the wire are the bytes of `T` from there on; and as long as nothing has failed, the `bufio.Writer`'s bytes follow, and end where the
  next write of the current call begins (`WriterAt`). After a failure only the first part is left, which is enough: nothing is written any more, and the reader,
  which needs all of a frame, finds a true prefix of it. The stream exists by a quantifier, so it costs no history variable; TLC checked the
  invariant with `T` and `off` computed from `sent`. That the end of the last accepted frame is at or before the end of what is on the wire (`OnTheWay`) gives `AcceptedIsOnTheWire`:
  a reader that waits for bytes of an accepted message finds them.

### Assumptions

The constants have the typing assumptions of their modules, which TLC evaluates on every run (`DispatcherAssumption`, `HostAssumption`, `FilterAssumption`,
`CrawlerAssumption`, `SpiderAssumption`, `ProtocolAssumption`, `FetchAssumption`, `FetcherAssumption`, `WireAssumption`, `LengthAssumption`). Those that say more than a type:

* placeholders differ from what they stand in for (`None \notin Packets`, `Nil \notin TrackerLists`, `Nil \notin Int`, `NoKey \notin Keys`);
* a key of the filter has at least one bit (bloom filters with no hash function do not exist: `bloom.New` takes the maximum of 1 and k);
* a peer's message has the shape of what is decoded (`IsMessage`): numbers are any integers, bytes any sequence. Nothing is assumed of their values;
* `LengthAssumption`: `Decoded(Encoded(n)) = n` for the lengths that fit, and all messages fit. `encoding/binary` is not the repository's code, and a fold over powers of `Base` is
  beyond the prover (no theory of `^`, induction over data); TLC evaluates the assumption on the instance of the run. For messages longer than a `uint32` the code itself would write
  a wrong length, but no caller has one: they are requests and handshakes.

### Model-checked only

* `InStep`, `ValueBack`, `AcceptsGrammar`, `OneExtent`, `ReusedTarget`, `OutlineComplete` and the action properties of `Messages`: decoder and encoder are recursive
  operators over nested values, and what they compute for every input is an induction over data.
* Every liveness property, and the fairness part of `ImplementsRegistry`: liveness under fairness and ENABLED are beyond the prover. Their safety parts are proved:
  `EndIsNotLost` (`EndIsServed`), `NoMessageIsLost` (`AcceptedIsHandled`), `NoAnnounceIsLost` (`EveryAnnounceIsReported`), `CrashesOnPoison` (`CancelEndsFetch`), `NothingIsDropped` (`FetchedIsShown`),
  `HonestPeerServes` (`HonestPeerSucceeds`, `OneExtensionServed`), `AcceptedIsOnTheWire` (`AcceptedArrives`), `Refines` (`ImplementsRegistry`). What is left to TLC is that the next step is taken.

The induction theorems of the library take an operator and cannot be used. Where an induction runs over an interval of numbers (the pieces in `FlattenIs`, the frames in `LayoutMonotone`)
the proof takes the least counterexample (`WFMin`) instead; this does not help with the codec, whose induction is over nested values.

## 6. Plan

1. *Done*: dispatcher with its abstract registry, host, node filter, the crawler that composes them; the extension
   protocol and the two downloads on it; the framing; the codec and the messages on it; the spider with its pipeline.
2. *Done*: proofs of the safety properties of all of these but the codec.
3. *Done*: the safety parts of the liveness properties, and the three findings without bounds (`LateEndWaitsForEver`, `MetaIsLostWithBoth`, `UnintroducedGetNothing`).
4. *Left*: lemmas about the operators of `Messages` that do not recurse (compact infos, `CommonPrefixLen`) would have to move to a module of their own, because a
   theorem cannot be in a module that reaches a recursive operator; the codec's properties stay with TLC.

## 7. Not modelled

* The worker pool, contexts, timers and the network are external: they are modelled by what the code relies on. The pool's own goroutines, started at dht.go:72 and
  never stopped, are not modelled: `NothingLeftRunning` is about the loop, the refresher and the handlers with their callbacks.
* The handshake that we write (`ExtProtocol.WriteHandshake`) is a step of `FetchMetadata` that may fail; what is in it is not modelled, as nothing of ours
  reads it.
* `Marshaler`, `Unmarshaler` and the text interfaces of types outside the repository, embedded pointers, and numbers of more than 64 bits.
* Texts of errors, what the example prints, and the address and limits that a spider is set up with.
