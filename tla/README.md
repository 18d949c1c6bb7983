# A TLA+ model of the market data feed handler

This directory specifies, model-checks and to a large part proves the C++20 market data
feed handler and order book reconstruction engine: the lock-free queue and the
three-thread pipeline built on it, the path from bytes to book updates over an
unreliable feed, the wire format, the order book itself, the exchange simulator
that feeds it, the capture files with their replay, and the two processes of a
live feed over TCP or UDP. `PROJECT.json` lists every component, run, fault, source
mapping, finding, hazard and theorem in machine-readable form.

## 1. The system

| Component | State it keeps | Operations | Talks to |
|---|---|---|---|
| SPSC queue (`spsc_queue.hpp`) | `buffer_`, atomic `head_`, `tail_` | `try_push`, `try_pop`, `empty` | two pipeline threads each |
| Pipeline (`pipeline.hpp`) | two queues, `ingest_done`, `book_done`, results | ingestion, book-update and analytics threads | parser, feed handler, book builder |
| Parser (`parser.hpp`) | none | `parse`, `dispatch` | callbacks of a handler |
| Feed handler (`feed_handler.hpp`) | `residual_`, tracker, counters | `consume`, `consume_datagram`, `on_*`, `accept` | parser above it, book builder below it |
| Sequence tracker (`sequence_tracker.hpp`) | `next_expected_`, `initialized_`, statistics | `observe`, `reset` | feed handler |
| Order book (`order_book.cpp`) | price levels, order index with list iterators | `add`, `cancel`, `modify`, `execute`, `clear`, queries, `check_invariants` | book builder |
| Book builder and manager (`book_builder.*`) | one book per symbol, counters | `on_*` | feed handler above it |
| Simulator (`simulator.*`) | per symbol: live orders, `live_ids`, `index`, depth | `next` | a sink: capture, TCP, UDP |
| Capture files (`capture.*`) | a file, `count_`, the buffer of stdio | writer `open`, `write`, `close`; reader `open` | simulator, replay |
| Replay (`replay.cpp`) | a feed handler | `replay` in three modes | capture, book builder |
| Wire codec (`serialization.hpp`, `byte_order.hpp`, `protocol.hpp`) | none | `encode_message`, `decode_header`, `decode_body` | every sender, parser |
| Sockets (`net/*`) | a descriptor | `listen`, `accept`, `connect`, `send_all`, `recv_some`, `bind`, `send`, `recv`, `set_recv_timeout_ms` | feedsim, feedhandler |
| Applications (`apps/*`) | flags, counters, loops | `main` | all of the above |
| Statistics, benchmarks | — | — | not modelled, section 8 |

The data path is: simulator → (capture | TCP | UDP) → parser → feed handler →
book builder → order books.  A capture is processed by `ReplayDriver` in one
thread or by `ConcurrentPipeline` in three.

What is hard in it:

* **Weak memory.** The queue has no locks. An index read by the other thread may
  be stale, and only the release/acquire pairs order the accesses to a slot.
* **Shutdown.** Each pipeline stage ends on "flag set and queue empty", two reads
  that must happen in that order.
* **Unreliable delivery.** A UDP feed loses, repeats and reorders; gaps are
  forwarded, not repaired; the sequence number has 32 bits.
* **Framing.** TCP cuts messages anywhere; bad headers and truncated datagrams
  must not corrupt what follows.
* **Iterators.** The order index holds list iterators that `modify` replaces.
* **Unsigned arithmetic.** Quantities and their aggregates wrap.
* **Files.** A capture can be read while it is written, cut by a crash, or torn
  by a short write, and one driver can replay several.
* **Two processes.** Sends are partial, the peer may be killed or the connection
  may break inside a message, and a UDP feed ends by silence only.
* **No checksum.** What a damaged byte can do is limited only by the framing, and
  a damaged length that is too small is trusted to resync: the rest of a message is
  then read as if messages began there.

What makes each part correct is stated as the properties of section 3; the
hazards at their lines are in `PROJECT.json`.

## 2. The modules

| Module | Models | Form |
|---|---|---|
| `BoundedFifo` | what a bounded queue promises | abstract specification |
| `StaleFifo` | the queue as its two callers see it, with views that lag | abstract specification, used by `Pipeline` |
| `SpscQueue` | `SPSCQueue`, one step per atomic access | implements both |
| `SpscQueueProofs` | theorems about `SpscQueue` | proofs |
| `DataLemmas` | lemmas about data: induction, folds, walks, sums, remainders, prefixes | proofs |
| `SequenceTracker` | `observe` as operators on a tracker | pure |
| `FeedHandler` | delivery policy behind a network | state machine |
| `FeedHandlerProofs` | theorems about `FeedHandler`, `StreamFeed` and `Codec` | proofs |
| `StreamFeed` | `parse`, `consume`, `consume_datagram`, `replay` | state machine |
| `OrderBookOps` | the book's operations as operators on a record | pure |
| `PriceTimeBook` | price-time queues, no iterators, no aggregates | abstract specification |
| `OrderBook`, `MCOrderBook` | every sequence of calls on a book | implements `PriceTimeBook` |
| `OrderBookProofs` | theorems about `OrderBook` | proofs |
| `Simulator` | `MarketSimulator::next` | state machine |
| `BookBuilder` | `on_*` and the counters, over `OrderBookOps` | state machine |
| `Exchange`, `MCExchange` | simulator, feed and builder | composition |
| `ExchangeProofs` | theorems about `Exchange` | proofs |
| `Pipeline`, `MCPipeline` | three threads over two `StaleFifo`s | composition |
| `PipelineProofs` | theorems about `Pipeline` | proofs |
| `Capture` | writer, stdio, disk, reader | state machine |
| `Replay` | `ReplayDriver` behind the reader of `Capture` | composition |
| `CaptureProofs` | theorems about `Capture` and `Replay` | proofs |
| `Codec`, `MCCodec` | encoders, decoders and the loop of `parse` over the bytes of one message | state machine around pure operators |
| `TcpFeed` | feedsim and feedhandler over TCP: `send_all`, `recv_some`, `consume` | state machine |
| `UdpFeed` | the same over UDP: `sendto`, socket buffer, idle timeout, time | state machine |
| `LiveFeed`, `MCLiveFeed` | the two processes, with either transport, and their fairness | composition |
| `LiveFeedProofs` | theorems about both transports | proofs |

Definitions keep the names of the source where TLA+ allows (`InsertOrder` is
`insert_order`, `UnregisterOrder` is `unregister_order`). A definition introduced
by "Fault:" is a plausible mistake in the definition that follows it. No
specification uses it; substituting it must break the property it is paired with
in `PROJECT.json`, which shows that the property depends on that line of the
code.

### How the state corresponds

**SpscQueue.** An atomic index is its modification order, a sequence of stored
values that starts at the one the other thread read last. The owner reads the
last entry; the other thread may read any entry, and what it reads becomes the
first (coherence: never back). An entry carries the slots its thread touched
since its previous store; an acquire load of the entry makes those accesses
happen before the reader. A slot access that is not ordered in this way is a
race (`NoDataRace`). `PushBegin`/`PushFull` are the loads and the test of
`try_push`, `PushWrite` the assignment to the slot, `PushPublish` the release
store; the pop side is alike. The mask is `% Capacity`, `Capacity` being
`round_up_pow2(max(Requested, 2))`.

**StaleFifo** keeps the contents, how many of them the consumer has seen and how
many slots the producer still believes occupied. `SpscQueue` implements it
(`ImplementsViews`), so `Pipeline` can use it instead of the ring: the
staleness of the loads stays in the composed model, the slots do not.

**Pipeline.** A capture is a sequence of cells, each with what the code makes of
its bytes. Loads of the done flags may return a stale false; the acquire load
that returns true brings all earlier pushes into view. `FeedHandler` and
`BookBuilder` are deterministic, so the book state is named by the frames
consumed. `emit_tick` walks the symbols in the order of a hash map: any order.

**OrderBook.** A book is a record of levels per side, the order index and the
list nodes. A node has an identity of its own and an erased node is gone from
`nodes`, so that an iterator to it (`it` of an `OrderLocation`) shows as
dangling. `QuantityRange` is 2^32 in the code.

**FeedHandler.** Messages are numbered 1, 2, ... without bound, and `Wire(n)`
is the number on the wire, modulo `SeqRange`. The network is the set of messages
of which a copy may still arrive; a copy that arrives stays in it, so repetition
and any reordering are possible.

**StreamFeed.** A feed is, per offset, what `decode_header` and `dispatch` make
of the bytes there. `residual_` is the interval from `start` to `received`. A
sender whose message at `d` was meant to be `k` bytes long is the same feed with
another size at `d`; `LengthErrorConfined` compares the two framings.

**Simulator, Exchange.** Every random draw of `next()` is a choice. The feed
between the two ends is a choice, per message, of delivery or loss: what the
feed handler forwards is a subsequence of what was sent, in order and without
repetition, as `DeliversInOrderOnce` proves below the wrap. A message that
arrives damaged is treated as lost, too, and may be counted (`OnMalformed`). This is an
abstraction: a damaged field that passes the framing is applied by the code, and the
books of `Exchange` do not follow it. What such a byte makes of a message is the
question of `Codec`; what a wrong field or an invented message then does to a
book is not modelled. `wrapped` notes
the symbols of which a level's exact depth has passed the width of `Quantity`:
from then on `remove_depth` may drop a level that still has orders, and the
simulator's own view of its depth is no reference any more.
`Fingerprint` is the tuple of values that `book_fingerprint` mixes per symbol.

**Capture.** A file is a header cell followed by the parts of messages, so that a
message can be torn. `Flush` is stdio writing out a part of its buffer at any
time; `WriteShort` and `CloseShort` are a full disk; `Crash` drops the buffer.
The reader's `open` is two steps, and the writer may act in between.

**Replay.** `driver` holds `residual_`, the number expected next and what was
forwarded. A replay takes the region that the reader has; `replays` counts the
calls on one driver. Where the parser would look at a cell in the middle of a
message, which a short write or a left-over residual can cause, what it finds
there is unknown: the driver is `garbled` and not followed further.

**Codec.** A message is encoded in `CodecInit`, perhaps damaged in one byte, which
takes any other value, or cut, and parsed (`Receive`) as a datagram of its own.
`Stores` lists the fields in the order in which an encoder writes them, `Loads` the
literal offsets at which a decoder reads them; neither is computed from the other.
Widths and sizes are those of the code, and a byte has `ByteRange` values. `LoadLE`
is the loop of `load_le`, whose shift by `i` bytes is a multiplication by
`Weight[i]`. `ParseBytes` is the whole loop of `parse`: it stops behind an invalid
type and before a message that is not complete, and behind a header that it
refuses it goes on where the declared length ends (`NextFrame`), which a damaged length
can put inside the same message. `result` has the callbacks in their order, with their
offsets, and what `parse` returns. How several messages in one buffer, bad headers
between them and the rest that is kept for later affect each other is the subject of
`StreamFeed`, where a feed may read as anything at every offset.

**LiveFeed.** A message is `Sizes[m]` cells, and the connection a sequence of at
most `PipeSize` of them. `SendSome(k)` is one `send` that takes `k` cells,
`Recv(k)` one `recv` and the `consume` behind it. `Listen`, `Connect`,
`OpenSender` and `Bind` are the starts of the processes, in any order and perhaps
never; `KillServer`, `KillClient` and `Break` may happen at any time. In UDP a
`Tick` is a unit of time: `IdleTicks` of them make the receive timeout, and a
sender that runs sends within `MaxPause`.

## 3. The runs

| Run | Distinct states | Shows |
|---|---|---|
| `spsc_queue` | 39 730 | no data race on a slot; a FIFO (`ImplementsFifo`), also seen through stale views (`ImplementsViews`); a published item is taken in the end (`EventuallyPopped`) |
| `order_book` | 1 225, up to symmetry | iterators valid, levels and aggregates in step; implements `PriceTimeBook`; only `modify` may cost priority, and only where price or size say so (`PriorityKept`) |
| `feed_handler` | 83 027 | in order and at most once (`InOrderOnce`), the newest never held back (`NewestForwarded`), statistics exact (`Accounted`) |
| `stream_feed` | 1 645 028 | segmentation does not matter (`ChunkingIrrelevant`), a message refused for a wrong length costs nothing before it and makes no message of what it spans, and if it ends on a real message boundary it costs nothing else (`LengthErrorConfined`), datagrams do not affect each other (`DatagramsIsolated`), replay modes agree (`ReplayModesAgree`) |
| `exchange` | 1 043 484 | reconstructed books and their fingerprint mirror the simulator's state (`BooksMirrorExchange`), swap-remove keeps its index (`LiveIdsIndexed`), nothing is rejected unless something was lost (`NothingRejected`); a loss corrupts only the orders it concerned (`LossConfined`) and can break `check_invariants` only by a crossed book (`OnlyLossCrosses`) |
| `pipeline` | 50 504 | same book as single-threaded (`SameAsSingleThreaded`), no queued tick lost (`TicksDelivered`), `run()` returns (`Termination`) |
| `capture` | 162 051 | a reader sees a prefix of what was written (`CapturePrefix`), a count it finds is right (`CountTrusted`), a closed file is complete (`ClosedIsComplete`), a replay applies exactly what is new, in every mode (`ReplayAppendsNew`) |
| `codec` | 280 596 | every message comes back as sent, alone, and is consumed to its end (`RoundTrip`); nothing is written beyond the buffer, read beyond the message or consumed beyond it (`InBounds`); of a damaged message one field is spoilt or an add and a trade are swapped, or, only if its declared length became too small, smaller messages are made of its body, one heartbeat at most unless it is a snapshot; of a cut one nothing is dispatched (`DamageConfined`) |
| `live_feed` | 6 869 | messages come out of TCP whole and once (`TcpWholeMessages`), a clean end means a complete feed (`TcpComplete`), the idle timeout needs as long a silence (`TimeoutMeansSilence`), both processes end (`LoopsEnd`) |

The runs of the queue, the order book, the feed handler, the pipeline and the
captures also check a type invariant.

Three runs show a disagreement between the code and what its comments or README
say, one property each:

| Run | What the code does |
|---|---|
| `feed_wrap_loss` | if the last message before the wrap of the sequence number is lost, all later ones are dropped as out of order |
| `datagram_truncated` | a truncated datagram is not reported as malformed |
| `exchange_crossed` | after a lost message the reconstructed book can be crossed and the debug assertion fails |

Some more follow from the models without a run of their own:

* With the constants of `feed_wrap_loss`, `InOrderOnce` fails too: behind the
  wrap a late copy of an old message is taken for a gap and forwarded.
* `parse` trusts the length of a header that it refuses, to "skip the header-declared
  span and resync" (`parser.hpp:34-36`). If a damaged `body_size` is too small, that
  is inside the body of the same message, and the field bytes there may be dispatched
  as messages that nobody sent: for instance, after `on_malformed` for a modify, a
  heartbeat whose sequence number is made of its fields. The tracker takes such a
  number as any other. `DamageConfined` states these messages openly (`Invented`),
  and the run of `codec` reaches them.
* After a bad header, complete messages wait in `residual_` until the next call
  of `consume`, and for ever if there is none (the second part of
  `ChunkingIrrelevant` excepts this case).
* A level's aggregate is not the sum of its orders once the sum passes 2^32 - 1
  (`check_invariants` sums in the same width and agrees; `LevelsConsistent` states
  it modulo the width), and the simulator's own depth is then wrong
  (`BooksMirrorExchange` excepts such symbols).
* After a short write, whose result feedsim ignores, a closed capture has a torn
  message in its middle; and a MaxSpeed replay of a capture that was cut off
  leaves a partial message that is joined to the first one of the next replay
  with the same driver. `ReplayAppendsNew` excepts these two cases.
* A UDP receive that a signal interrupts ends the feed (`RecvInterrupted`), and a
  handler cannot tell a simulator that was killed from one that has finished.

## 4. Bounds, and why they are enough

* `Requested = 3` rounds up to a ring of 4: wrap-around, full, empty and stale
  views of up to three entries all occur. The theorems cover every capacity.
* `QuantityRange = 3` makes two orders wrap an aggregate; two prices give
  a move between levels and a crossed book, three orders a middle of a queue.
  Ids are symmetric; the `VIEW` drops a variable that only records the last call.
* `SeqRange = 7` with 5 messages is the tightest width in which nothing wraps
  (`MaxSent + 1 < SeqRange`); the wrap run uses width 4 for 5 messages.
* `StreamLength = 6`, headers of 2 and frames of 2 to 4 bytes: up to three
  messages, every cut inside a header or a body, a bad header at each place, and
  a wrong length that ends before, inside, at the end of or behind the next message.
* `NumMessages = 6` over two symbols with a heartbeat every 5th and a snapshot
  every 4th message lets orders be added, moved, partly and wholly filled, and
  removed from the middle of `live_ids`. `StartPrice = 2` reaches the clamp of
  buy prices; `QuantityRange = 4` lets two orders of 2 wrap a level; one loss is
  enough to be followed by every kind of message about the same order.
  `Prices` has every price that `choose_price` can reach in `NumMessages` messages:
  each message moves the best price by at most the band (`HighestPrice`). This is
  the assumption `PricesAssumption`, which TLC evaluates and the proofs use.
* Captures of three cells against a frame queue of two and a tick queue of one:
  ingestion blocks on a full queue, ticks are dropped, and both queues can be
  non-empty when a flag is set.
* Two captures of two messages of two parts each: a tear inside a message, one
  between messages, a reader that spans two captures, and a driver that replays
  a longer region of the same capture, or another one, after a first.
* `codec` has bytes of 8 values and two snapshot levels, which keeps a field of
  eight bytes within TLC's integers and leaves invalid type bytes. Each field
  takes the extremes of its width and sign, all others distinct values; further
  bodies hold what reads as the header of an add, a cancel or a heartbeat, at several
  offsets, so that a length damaged to be too small has something to run into. Every
  byte takes every other value: all lengths occur, and an add turns into a trade. The
  buffers are the largest message and one that most messages just fit or exceed.
  The arithmetic is the same for every even `ByteRange`.
* Messages of 2, 1, 3 and 2 cells through a pipe of 4 and a buffer of 3: every
  message can be sent and received in parts, several arrive at once, and the pipe
  fills. A timeout of 5 ticks with pauses of up to 2 tolerates two lost
  datagrams in a row; six datagrams are enough to lose more, early or late.

`CHECK_DEADLOCK FALSE` is given where the modelled activity ends: a feed of
bounded length, a publisher at its bound, a pipeline that has returned, processes
that have ended.

## 5. Fairness

* `SpscQueue`: a consumer that finds an item by the newest `head_` eventually
  begins to take it, and calls that have begun go on. The callers poll in loops,
  and C++ asks that a store becomes visible to loads in a finite time. Nothing
  is assumed about the producer beginning a push.
* `Pipeline`: weak fairness per thread (each is a running `std::thread` that
  yields when it has nothing to do), strong fairness for the load that reads a
  flag's true and for the pop that succeeds. These are repeatedly, not
  continuously, enabled in a polling loop, and the same rule of C++ says that
  such a load does not stay stale for ever.

* `LiveFeed`: weak fairness per process for its steps once it runs, and for
  `Tick`. An operating system that schedules every process and delivers what is
  in a connection gives that; nothing is assumed about starting a process, and
  nothing about a kill, a broken connection or an interrupted call.

The other specifications have no liveness properties and no fairness.

## 6. The theorems

Checked by TLAPS, for every value of the constants allowed by the assumptions.

**`SpscQueueProofs`.** From `CapacityAssumption` (a power of two of at least
2; TLC evaluates it for the instance) and `NoItemAssumption`:
`TypeCorrect`, `ViewsConsistent`, `RaceFree`, `RefinesFifo`
(`Spec => ImplementsFifo`, with `Fifo` an instance of `BoundedFifo`) and
`RefinesViews` (`Spec => ImplementsViews`, an instance of `StaleFifo`).

`NoDataRace` is not inductive: that a slot about to be written is not one the
consumer may still be reading depends on how stale the producer's `tail_` can
be. The inductive invariant is `TypeOK /\ ViewsAgree`, whose parts say that a
modification order advances one slot per store and each store released exactly
the slot it passed (`Chained`), that oldest tail, contents and newest head
fit in less than one lap (`WithinOneLap`), and what a call past its test may
rely on (`PushHasRoom`, `PopHasItem`). `NextInv` has a step per action. Race
freedom then follows from distances on the ring, and the refinement from the
shape of the contents (`QueuedSlots`): `PushPublish` is `Put`, `PopRelease`
is `Take`, every other step stutters. In the refinement of `StaleFifo` a load
is a step, too: it moves the view of its thread forward (`NextContents`
says for each action which of contents and views it moves). With it, what is
proved of `Pipeline` over two `StaleFifo`s does not depend on the ring.

**`FeedHandlerProofs`.** From `NoWrap` (`MaxSent + 1 < SeqRange`), for any number
of messages and any behaviour of the network: `TypeCorrect`,
`DeliversInOrderOnce`, `ForwardsNewest` and `StatisticsExact`. The three
properties and `Started` are inductive together, none alone: the order of what
was forwarded is preserved only because the tracker expects the successor of the
newest (`ClassifyByNewest`). `NoWrap` is necessary, as
`feed_wrap_loss` shows.

The same module proves, from `StreamAssumption` (a header has a size, and no message
is shorter), every property of `StreamFeed` for a feed of any length, with bad
headers and refused messages at any places: `SegmentsNeverMatter`
(`ChunkingIrrelevant`), `LengthErrorsAlwaysConfined`, `DatagramsAlwaysIsolated` and
`ReplayModesAlwaysAgree`. All rest on one lemma about `parse`, `ParsesSplits`: for
every place and every end, the calls it makes, followed by those of the whole feed
from where it stopped, are those of the whole feed from that place. The invariant
`StreamInv` is that fact for the whole history: the whole feed is what was
dispatched followed by the feed from `start`, and where a sender's messages begin is
where calls were made followed by the boundaries from `start` (`InStep`).
`ChunkingIrrelevant` alone is not inductive, since it does not say where `start` is.
For datagrams the invariant relates the log to the datagrams that arrived whole
(`Apart`). That the two replay modes agree although only one of them goes on behind a
bad header is `ModesDifferByOne`: the call that one of them makes more is no message.

Its third part proves every property of `Codec`: `MessagesAlwaysRoundTrip`,
`CodecAlwaysInBounds` and `DamageAlwaysConfined`. They hold for any even number of
values of a byte and any number of snapshot levels for which the body size fits
its two bytes (`CodecAssumption`; 256 and the code's five levels among them), and for
all messages whose fields have values of their types (`MessageAssumption`). The
argument has three layers. Numbers: `load_le` of the bytes of `store_le` is the
number modulo the width (`LoadStored`, by induction on the digits; `NextDigit` is the
step), the signed conversion undoes it for a price (`ValueBack`), and a load depends
on its own bytes alone (`LoadLocal`). Layout: for every type, each load is of exactly
what one store wrote, and the stores end where `body_size_for` says (`LaidOut`;
for a snapshot for any number of levels, `SnapshotLaidOut`), so that loads of two
fields never overlap (`LoadsAre`). Framing: at each place `parse` either calls
`on_malformed` or dispatches a whole message of the type in the header there
(`HandledIs`), and by induction from the end of the bytes every callback of the loop is
of that kind, behind the place it started from, and there are no more of them than
there is room for headers (`FramesGoOn`). The invariant `CodecInv` says that the bytes
are the encoded ones but for the one byte or the end that was lost, and that the
result is what `parse` makes of them. A damaged byte then lies in one load
(`FlipSpoilsOne`), and one that changes the type leaves the declared length,
which only an add and a trade share (`SizesAre`); so the message at the start fills
the bytes and is dispatched alone (`StartConfined`). One that is dispatched
elsewhere stands behind a header that was refused, where a length that is too small
has led: it lies in the body, so it is smaller by a header at least
(`InventedConfined`).

**`OrderBookProofs`.** From `BookAssumption` (finitely many ids, integer prices,
a quantity of any width of more than one value): `OrderBookTypes`,
`LocatorsAlwaysValid`, `LevelsAlwaysConsistent`, `BookImplementsPriceTime` and
`PriorityAlwaysKept`, every property of the run. The invariant is `Sound`: index
and nodes point at each other (`OrdersLinked`, `NodesLinked`), each node is in
exactly the list its locator names, once (`ListsLinked`), and each level is filed
under its price, not empty, without an order of quantity 0, and has the sum of
its orders modulo the width as its aggregate (`LevelSound`).
`LevelsConsistent` is not inductive without the links: an aggregate stays right
only because the iterator leads to the order's own node, and a level is erased
in time only because its list is the one that the locator names. That the code's unsigned `total_quantity -= q` keeps the sum,
although the sum may have wrapped, is a lemma about remainders. The private
helpers are proved first (`insert_order`, `erase_order`, the reduction in place),
each with its effect on the list, the nodes and the index; the four calls, the
refinement of `PriceTimeBook` and `PriorityKept` are put together from those.

**`ExchangeProofs`.** From `SimulatorAssumption`, `PricesAssumption` and the
assumptions of the book, for any number of symbols, messages and losses:
`LiveIdsAlwaysIndexed`, `LossAlwaysConfined`, `NothingEverRejected`,
`OnlyLossEverCrosses` and `BooksAlwaysMirrorExchange`, every property of the run. The
invariant `ExchangeInv` has these parts:

* `SimOk`, of the simulator: the index and `live_ids` are inverse to each other,
  prices stay in a band that grows with the messages (`DepthBanded`), and bids are
  below asks (`Uncrossed`). The last two are what makes `choose_price` pick a price
  that exists and does not cross, although it looks at depth from which the order to
  be modified was removed.
* `Mirrors`, of a book and the simulator's symbol: the book is `Sound`, the
  invariant of `OrderBookProofs`, and shows every order that no lost message was
  about as the simulator has it.
* `Exact`, of symbols that are not in `wrapped`: a price has depth exactly when it
  has orders, and the depth is their sum, over a set, without a remainder.
* the equation of the counters.

A message of the simulator has an effect on the simulator's state (`Advances`) and the
same on a book that gets it (`Answers`), for each of the four order events; a
message that is lost adds the order to those excepted. With that, only
`LossConfined` and `NothingRejected` follow at once. `BooksMirrorExchange`
compares totals that the book keeps modulo the width, in the order of queues, with
sums over sets of orders: a list that has each member of a set once has the set's sum
(`ListSetSum`), and a total that did not wrap is the sum. It also compares the
sequences of prices, best first, that the two ends compute independently: a finite set
of prices has one such sequence, by the number of better prices (`Ranked`).

**`PipelineProofs`.** From `PipelineAssumption` (captures are sequences of cells,
positive queue sizes and `analytics_every`): `PipelineTypes`,
`AlwaysSameAsSingleThreaded` and `TicksAlwaysDelivered`. The invariant adds to the
types that what was consumed and what is queued dispatch to the same messages
as the part of the capture that was ingested (`FramesInOrder`), and what a thread
knows once it has seen a flag: nothing more will come, and its view of the queue
is complete (`FramesDrained`, `TicksDrained`). The last is where the order of the
two reads matters, and the acquire that comes with the flag.

**`CaptureProofs`.** From `CaptureAssumption`, for any number and size of messages
and any number of captures: `CaptureTypes`, `ReaderHasPrefix`,
`CountAlwaysTrusted` and `ClosedAlwaysComplete`; `ReplayOnlyReads` shows that a
replay only reads, so that all four hold under `Replay`, too. The invariant says
that file and buffer together are the stream that the writer took
(`FileIs`), that `count_` is the number of its whole messages (`Counted`), and
that a reader with a count has it from a file that was closed before the reader
went on to the messages (`ReaderSees`): `open` of the reader is two steps.
`ReplaysAlwaysAppendNew` is `ReplayAppendsNew` from `ReplayInv`: the cells of a
capture rise, by message and part (`Ordered`); the driver expects the successor of
the newest message it has forwarded, and has nothing in `residual_` unless a MaxSpeed
replay of a cut-off capture left it there (`DriverOk`). Then the frames of a
capture that is not torn each begin with the header of a later message
(`UntornClean`), without a residual a turn of the paced loop does what `parse`
does with that frame (`TurnIsFrame`), and so both modes accept the same messages
(`CleanFrames`), the ones that are newer than all before.

**`LiveFeedProofs`.** From `TcpAssumption` (messages are not empty, nor are the
buffers) and `UdpAssumption`: `TcpAlwaysWhole`, `TcpAlwaysComplete` and
`TimeoutAlwaysMeansSilence`. For TCP the residual, the connection and what
`send_all` has left are one sequence (`All`). The invariant is that its cells are
consecutive and begin with the message after the last one dispatched (`InStream`),
that the residual is shorter than that message (`Short`), and that, unless cells
were thrown away, the sequence ends with the message produced last (`Ends`). A send
moves the borders inside `All` only; a receive takes whole messages off its
front, which is what `ConsumeSplits` proves of the loop of `consume`, for every
stream and every place at which it is cut. For UDP the
invariant is an account of the present wait: each datagram sent since the newest one
received explains at most `MaxPause` of its ticks (`WaitAccounted`).

**`DataLemmas`.** The library's induction principles take an operator as a
parameter, which the provers cannot instantiate. Over the members of a set,
induction is a first-order fact (`SetInduction`, from the least member of a set
of naturals), and from it follow the equations of the folds and recursive
functions used by the models: a function that satisfies them exists, so that
the one which `CHOOSE` picks does. A walk over offsets that has no bound of its own,
as `parse` has, needs induction downward from the end of the feed
(`WalkOnNatExists`). Sums over finite sets are a relation between a set, a
function and a number (`IsSetSum`), which exists and is unique.

Only model-checked: liveness (`EventuallyPopped`, `Termination`, `LoopsEnd`), as
fairness and `ENABLED` are outside what the installed back ends prove.

## 7. Plan

Done: the models, and every invariant, action property and refinement that a
passing run checks is a theorem. What a change of the code would call for: the model
of the changed operation first, then its run, then the step of that action in the
proof of the invariant. Liveness stays with TLC.

## 8. Not modelled

* Latency statistics and benchmarks: measurement.
* Parsing of arguments and printing in the applications; `price_to_double` and
  `double_to_price`, which only they and tests use.
* Timestamps beyond their encoding, with the pacing of a replay: they decide when
  a message is applied, and not which. (A capture whose timestamps fall below the
  first one would make the paced replay compute with a wrapped difference; the
  simulator writes none.)
* The hash inside `book_fingerprint`, and so its collisions.
* `BookManager::clear` and the `empty()` of a producer, which nothing calls, and
  `set_verify`, which only turns the assertion of `exchange_crossed` off.
* Values of the configuration that the code does not validate (no symbols,
  `analytics_every = 0`, `min_qty = 0`, `--idle-ms 0`).
