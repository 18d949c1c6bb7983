------------------------------ MODULE Pipeline -------------------------------
(***************************************************************************)
(* ConcurrentPipeline::run (pipeline.hpp): the ingestion, book-update and  *)
(* analytics threads over two SPSCQueues and two atomic done flags.        *)
(*                                                                         *)
(* The capture is a sequence of cells, one per message; what a cell's bytes*)
(* mean to decode_header and to the parser is its kind:                    *)
(*   "message"    a well-formed message that a book of a symbol is given   *)
(*   "quiet"      a well-formed message that reaches no book: a heartbeat, *)
(*                a snapshot, or one that FeedHandler drops as late        *)
(*   "malformed"  framed, but the parser refuses it                        *)
(*   "oversize"   framed, malformed and longer than kMaxMessageSize        *)
(*   "undecodable" no header: nothing after it can be framed               *)
(*   "partial"    cut off by the end of the capture                        *)
(* FeedHandler and BookBuilder are deterministic, so their state is named  *)
(* by the sequence of frames they have consumed.                           *)
(***************************************************************************)
EXTENDS Naturals, Sequences, FiniteSets, SequencesExt

CONSTANTS Symbols,          \* symbols of the feed
          Captures,         \* the captures to run
          FrameBound,       \* usable capacity of the frame queue
          TickBound,        \* usable capacity of the tick queue
          AnalyticsEvery    \* cfg_.analytics_every

Kinds == {"message", "quiet", "malformed", "oversize", "undecodable", "partial"}
Cell == [kind : Kinds, sym : Symbols]

ASSUME PipelineAssumption ==
  /\ Captures \subseteq Seq(Cell)
  /\ FrameBound \in Nat \ {0} /\ TickBound \in Nat \ {0} /\ AnalyticsEvery \in Nat \ {0}

VARIABLES capture,        \* messages, the in-memory capture
          off,            \* the ingestion thread's offset, in cells
          ingest_done, book_done,          \* the atomics, as last stored
          frames, framesSeen, framesHeld,  \* the frame queue and its views
          ticks, ticksSeen, ticksHeld,     \* the tick queue and its views
          book,           \* the book-update thread: pc, and whether its view
                          \* of ingest_done is true
          consumed,       \* the frames it gave to consume_datagram
          emit,           \* symbols whose tick emit_tick has still to push
          fingerprint,    \* fingerprint_, once computed
          pushed,         \* ticks that went into the queue: count and last
          analytics,      \* the analytics thread: pc, and its view of book_done
          result          \* analytics_events and last_tick_

vars == <<capture, off, ingest_done, book_done, frames, framesSeen, framesHeld,
          ticks, ticksSeen, ticksHeld, book, consumed, emit, fingerprint, pushed,
          analytics, result>>

ingestVars == <<off, ingest_done>>
bookVars == <<book, consumed, emit, fingerprint, pushed, book_done>>
analyticsVars == <<analytics, result>>
frameQueue == <<frames, framesSeen, framesHeld>>
tickQueue == <<ticks, ticksSeen, ticksHeld>>

Tick == [sym : Symbols, at : Nat]
NoTick == [sym |-> 0, at |-> 0]

Frames == INSTANCE StaleFifo WITH
  Items <- Cell, Bound <- FrameBound,
  queue <- frames, seen <- framesSeen, occupied <- framesHeld
Ticks == INSTANCE StaleFifo WITH
  Items <- Tick, Bound <- TickBound,
  queue <- ticks, seen <- ticksSeen, occupied <- ticksHeld

Init ==
  /\ capture \in Captures
  /\ off = 0 /\ ingest_done = FALSE /\ book_done = FALSE
  /\ Frames!Init /\ Ticks!Init
  /\ book = [pc |-> "pop", done |-> FALSE]
  /\ consumed = << >> /\ emit = {} /\ fingerprint = << >>
  /\ pushed = [count |-> 0, last |-> NoTick]
  /\ analytics = [pc |-> "pop", done |-> FALSE]
  /\ result = [events |-> 0, last |-> NoTick]

-----------------------------------------------------------------------------
(* Stage 1.  The loop goes on while it can frame a message of the capture;  *)
(* the store that ends the thread is ordered after all of its pushes.      *)
HasFrame == off < Len(capture) /\ capture[off + 1].kind \notin {"undecodable", "partial"}

(* Fault: a break at a bad header leaves the thread without the store. *)
IngestEndsAtEnd == off = Len(capture)

IngestEnds == ~HasFrame

IngestStop ==
  /\ ~ingest_done /\ IngestEnds
  /\ ingest_done' = TRUE
  /\ UNCHANGED <<capture, off, frameQueue, tickQueue, bookVars, analyticsVars>>

(* A frame that does not fit a Frame is passed over. *)
IngestSkip ==
  /\ HasFrame /\ capture[off + 1].kind = "oversize"
  /\ off' = off + 1
  /\ UNCHANGED <<capture, ingest_done, frameQueue, tickQueue, bookVars, analyticsVars>>

(* try_push is repeated until it succeeds; a failed call changes nothing. *)
IngestPush ==
  /\ HasFrame /\ capture[off + 1].kind # "oversize"
  /\ Frames!TryPush(capture[off + 1])
  /\ off' = off + 1
  /\ UNCHANGED <<capture, ingest_done, tickQueue, bookVars, analyticsVars>>

-----------------------------------------------------------------------------
(* manager().for_each: the symbols of which a message has been seen. *)
KnownSymbols(s) == {s[i].sym : i \in {j \in DOMAIN s : s[j].kind = "message"}}

(* Stage 2: a frame is parsed and applied; every AnalyticsEvery-th frame    *)
(* starts emit_tick.                                                       *)
BookPop ==
  /\ book.pc = "pop"
  /\ Frames!TryPop
  /\ consumed' = Append(consumed, Head(frames))
  /\ IF Len(consumed') % AnalyticsEvery = 0
     THEN /\ book' = [book EXCEPT !.pc = "emit"]
          /\ emit' = KnownSymbols(consumed')
     ELSE UNCHANGED <<book, emit>>
  /\ UNCHANGED <<capture, ingestVars, tickQueue, fingerprint, pushed, book_done,
                 analyticsVars>>

BookMiss ==
  /\ book.pc = "pop" /\ Frames!PopFails
  /\ book' = [book EXCEPT !.pc = "check"]
  /\ UNCHANGED <<capture, ingestVars, frameQueue, tickQueue, consumed, emit,
                 fingerprint, pushed, book_done, analyticsVars>>

(* Fault: a relaxed load of the flag orders nothing. *)
FramesUnordered == UNCHANGED frameQueue

(* What happened before the store of ingest_done has been seen: its pushes. *)
FramesOrdered == Frames!Look(Len(frames))

(* The acquire load of ingest_done reads true. *)
BookSeesDone ==
  /\ book.pc = "check" /\ ingest_done
  /\ book' = [pc |-> "empty", done |-> TRUE]
  /\ FramesOrdered
  /\ UNCHANGED <<capture, ingestVars, tickQueue, consumed, emit,
                 fingerprint, pushed, book_done, analyticsVars>>

(* It reads false, perhaps a stale false: another round. *)
BookSeesMore ==
  /\ book.pc = "check" /\ ~book.done
  /\ book' = [book EXCEPT !.pc = "pop"]
  /\ UNCHANGED <<capture, ingestVars, frameQueue, tickQueue, consumed, emit,
                 fingerprint, pushed, book_done, analyticsVars>>

(* frames.empty(): if so, leave the loop, to the last emit_tick. *)
BookCheckEmpty ==
  /\ book.pc = "empty"
  /\ \E v \in Frames!SeenNow :
       /\ Frames!Look(v)
       /\ IF v = 0
          THEN book' = [book EXCEPT !.pc = "last"] /\ emit' = KnownSymbols(consumed)
          ELSE book' = [book EXCEPT !.pc = "pop"] /\ UNCHANGED emit
  /\ UNCHANGED <<capture, ingestVars, tickQueue, consumed, fingerprint, pushed,
                 book_done, analyticsVars>>

(* emit_tick: a copy of a symbol's top of book, in the order of the hash    *)
(* map; a full queue drops it.                                             *)
BookTick(sym) ==
  /\ book.pc \in {"emit", "last"} /\ sym \in emit
  /\ emit' = emit \ {sym}
  /\ LET t == [sym |-> sym, at |-> Len(consumed)]
     IN  \/ Ticks!TryPush(t) /\ pushed' = [count |-> pushed.count + 1, last |-> t]
         \/ Ticks!PushFails /\ UNCHANGED <<tickQueue, pushed>>
  /\ UNCHANGED <<capture, ingestVars, frameQueue, book, consumed, fingerprint,
                 book_done, analyticsVars>>

BookTicked ==
  /\ book.pc = "emit" /\ emit = {}
  /\ book' = [book EXCEPT !.pc = "pop"]
  /\ UNCHANGED <<capture, ingestVars, frameQueue, tickQueue, consumed, emit,
                 fingerprint, pushed, book_done, analyticsVars>>

(* The results are computed, then the flag is stored. *)
BookFinish ==
  /\ book.pc = "last" /\ emit = {}
  /\ fingerprint' = consumed
  /\ book_done' = TRUE
  /\ book' = [book EXCEPT !.pc = "done"]
  /\ UNCHANGED <<capture, ingestVars, frameQueue, tickQueue, consumed, emit, pushed,
                 analyticsVars>>

-----------------------------------------------------------------------------
(* Stage 3 *)
AnalyticsPop ==
  /\ analytics.pc = "pop"
  /\ Ticks!TryPop
  /\ result' = [events |-> result.events + 1, last |-> Head(ticks)]
  /\ UNCHANGED <<capture, ingestVars, frameQueue, bookVars, analytics>>

AnalyticsMiss ==
  /\ analytics.pc = "pop" /\ Ticks!PopFails
  /\ analytics' = [analytics EXCEPT !.pc = "check"]
  /\ UNCHANGED <<capture, ingestVars, frameQueue, tickQueue, bookVars, result>>

(* Fault: a relaxed load of the flag orders nothing. *)
TicksUnordered == UNCHANGED tickQueue

(* As FramesOrdered, for book_done and the last ticks. *)
TicksOrdered == Ticks!Look(Len(ticks))

AnalyticsSeesDone ==
  /\ analytics.pc = "check" /\ book_done
  /\ analytics' = [pc |-> "empty", done |-> TRUE]
  /\ TicksOrdered
  /\ UNCHANGED <<capture, ingestVars, frameQueue, bookVars, result>>

AnalyticsSeesMore ==
  /\ analytics.pc = "check" /\ ~analytics.done
  /\ analytics' = [analytics EXCEPT !.pc = "pop"]
  /\ UNCHANGED <<capture, ingestVars, frameQueue, tickQueue, bookVars, result>>

AnalyticsCheckEmpty ==
  /\ analytics.pc = "empty"
  /\ \E v \in Ticks!SeenNow :
       /\ Ticks!Look(v)
       /\ analytics' = [analytics EXCEPT !.pc = IF v = 0 THEN "done" ELSE "pop"]
  /\ UNCHANGED <<capture, ingestVars, frameQueue, bookVars, result>>

-----------------------------------------------------------------------------
Ingest == IngestStop \/ IngestSkip \/ IngestPush
Book ==
  \/ BookPop \/ BookMiss \/ BookSeesDone \/ BookSeesMore \/ BookCheckEmpty
  \/ \E sym \in Symbols : BookTick(sym)
  \/ BookTicked \/ BookFinish
Analytics ==
  \/ AnalyticsPop \/ AnalyticsMiss \/ AnalyticsSeesDone \/ AnalyticsSeesMore
  \/ AnalyticsCheckEmpty

Next == Ingest \/ Book \/ Analytics

Spec == Init /\ [][Next]_vars

(* Each thread keeps running, and no load stays stale for ever: a thread    *)
(* that keeps polling reads the flag's true, and the published items.      *)
Fairness ==
  /\ WF_vars(Ingest) /\ WF_vars(Book) /\ WF_vars(Analytics)
  /\ SF_vars(BookSeesDone) /\ SF_vars(BookPop)
  /\ SF_vars(AnalyticsSeesDone) /\ SF_vars(AnalyticsPop)

FairSpec == Spec /\ Fairness

-----------------------------------------------------------------------------
TypeOK ==
  /\ capture \in Seq(Cell) /\ off \in 0..Len(capture)
  /\ ingest_done \in BOOLEAN /\ book_done \in BOOLEAN
  /\ frames \in Seq(Cell) /\ framesSeen \in 0..Len(frames)
  /\ framesHeld \in Len(frames)..FrameBound
  /\ ticks \in Seq(Tick) /\ ticksSeen \in 0..Len(ticks)
  /\ ticksHeld \in Len(ticks)..TickBound
  /\ book \in [pc : {"pop", "check", "empty", "emit", "last", "done"}, done : BOOLEAN]
  /\ analytics \in [pc : {"pop", "check", "empty", "done"}, done : BOOLEAN]
  /\ consumed \in Seq(Cell) /\ emit \subseteq Symbols
  /\ pushed.count \in Nat /\ result.events \in Nat

(* The single-threaded path: BinaryParser::parse over the whole capture     *)
(* dispatches the well-formed messages up to the first that it cannot      *)
(* frame.                                                                  *)
Unframed(c) == {i \in DOMAIN c : c[i].kind \in {"undecodable", "partial"}}
Framed(c) ==
  SubSeq(c, 1, IF Unframed(c) = {} THEN Len(c)
               ELSE (CHOOSE i \in Unframed(c) : \A j \in Unframed(c) : i <= j) - 1)
Dispatch(out, c) == IF c.kind \in {"message", "quiet"} THEN Append(out, c) ELSE out
Dispatched(s) == FoldLeft(Dispatch, << >>, s)

(* "the final book state is identical to the single-threaded path": when    *)
(* the book-update thread has finished, it has applied every message of    *)
(* the capture that the single-threaded parser would, in order; before     *)
(* that, a prefix of them.                                                 *)
SameAsSingleThreaded ==
  /\ IsPrefix(Dispatched(consumed), Dispatched(Framed(capture)))
  /\ book_done => Dispatched(fingerprint) = Dispatched(Framed(capture))

(* Analytics loses only what emit_tick dropped: every tick that went into   *)
(* the queue is counted, and last_tick_ is the last of them, when the      *)
(* analytics thread has finished.                                          *)
TicksDelivered ==
  /\ result.events + Len(ticks) = pushed.count
  /\ analytics.pc = "done" =>
       book.pc = "done" /\ result = [events |-> pushed.count, last |-> pushed.last]

(* The three threads end, and run returns: no thread waits for one that     *)
(* waits for it, and none leaves an item that another one needs taken.     *)
Termination == <>(ingest_done /\ book.pc = "done" /\ analytics.pc = "done")
==============================================================================
