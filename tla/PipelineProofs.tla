--------------------------- MODULE PipelineProofs ----------------------------
(***************************************************************************)
(* Proofs about ConcurrentPipeline::run, for every capture, every capacity *)
(* of the two queues and every schedule of the three threads.              *)
(***************************************************************************)
EXTENDS Pipeline, DataLemmas

-----------------------------------------------------------------------------
(* The single-threaded path, cell by cell. *)

(* f gives what is dispatched of the first n cells of s, for every n. *)
Dispatches(s, f) ==
  /\ f \in [0..Len(s) -> Seq(Cell)]
  /\ f[0] = << >>
  /\ \A i \in 1..Len(s) : f[i] = Dispatch(f[i - 1], s[i])

(* Dispatch adds to a sequence of cells, or not. *)
LEMMA DispatchType ==
  ASSUME NEW out \in Seq(Cell), NEW c \in Cell
  PROVE  Dispatch(out, c) \in Seq(Cell)
  BY DEF Dispatch

(* What MapThenFoldSet chooses for Dispatched. *)
FoldsCells(s, iter) ==
  iter = [t \in SUBSET DOMAIN s |->
            IF t = {} THEN << >>
            ELSE Dispatch(iter[t \ {Max(t)}], s[Max(t)])]

(* Dispatched goes through the cells in order. *)
LEMMA DispatchedIs ==
  ASSUME NEW s \in Seq(Cell)
  PROVE  \E f : Dispatches(s, f) /\ Dispatched(s) = f[Len(s)]
  <1> DEFINE n == Len(s)
             X == Seq(Cell)
             it == CHOOSE iter : FoldsCells(s, iter)
  <1>1. Dispatched(s) = it[DOMAIN s]
    BY DEF Dispatched, FoldLeft, MapThenFoldSet, FoldsCells
  <1>2. n \in Nat /\ DOMAIN s = 1..n /\ << >> \in X /\ \A i \in 1..n : s[i] \in Cell
    OBVIOUS
  <1>3. \A out \in X, c \in Cell : Dispatch(out, c) \in X
    BY DispatchType
  <1> HIDE DEF n, it, X
  <1>4. \E iter : FoldsCells(s, iter)
    <2> DEFINE step == [a \in X \X (1..n) |-> Dispatch(a[1], s[a[2]])]
    <2>1. step \in [X \X (1..n) -> X]
      <3>1. \A a \in X \X (1..n) : Dispatch(a[1], s[a[2]]) \in X
        BY <1>2, <1>3
      <3> QED BY <3>1
    <2>2. PICK iter : IsFold(X, << >>, n, step, iter)
      <3> HIDE DEF step
      <3> QED BY <1>2, <2>1, FoldExists
    <2>3. /\ iter \in [SUBSET (1..n) -> X] /\ iter[{}] = << >>
          /\ \A t \in SUBSET (1..n) :
               t # {} => iter[t] = step[<<iter[t \ {Max(t)}], Max(t)>>]
      <3> HIDE DEF step
      <3> QED BY <2>2 DEF IsFold
    <2>4. ASSUME NEW t \in SUBSET (1..n), t # {}
          PROVE  iter[t] = Dispatch(iter[t \ {Max(t)}], s[Max(t)])
      <3>1. Max(t) \in 1..n /\ t \ {Max(t)} \in SUBSET (1..n)
        BY <1>2, <2>4, MaxOfBounded
      <3>2. iter[t \ {Max(t)}] \in X
        BY <2>3, <3>1
      <3>3. step[<<iter[t \ {Max(t)}], Max(t)>>] = Dispatch(iter[t \ {Max(t)}], s[Max(t)])
        BY <3>1, <3>2
      <3> QED BY <2>3, <2>4, <3>3
    <2>5. FoldsCells(s, iter)
      BY <1>2, <2>3, <2>4 DEF FoldsCells
    <2> QED BY <2>5
  <1>5. FoldsCells(s, it)
    BY <1>4 DEF it
  <1>6. /\ it[{}] = << >>
        /\ \A t \in SUBSET (1..n) :
             t # {} => it[t] = Dispatch(it[t \ {Max(t)}], s[Max(t)])
    BY <1>2, <1>5 DEF FoldsCells
  <1>7. ASSUME NEW k \in 1..n
        PROVE  it[1..k] = Dispatch(it[1..(k - 1)], s[k])
    <2>1. /\ 1..k \in SUBSET (1..n) /\ k \in 1..k /\ 1..k \subseteq Int
          /\ \A y \in 1..k : y <= k
      BY <1>2
    <2>2. Max(1..k) = k
      BY <2>1, MaxIs
    <2>3. (1..k) \ {k} = 1..(k - 1)
      BY <1>2
    <2>4. it[1..k] = Dispatch(it[(1..k) \ {Max(1..k)}], s[Max(1..k)])
      BY <1>6, <2>1
    <2> QED BY <2>2, <2>3, <2>4
  <1> DEFINE f == [k \in 0..n |-> it[1..k]]
             S == {k \in 0..n : it[1..k] \in X}
  <1>8. \A k \in 0..n : k \in S
    <2>1. 0 \in S
      <3>1. 1..0 = {}
        OBVIOUS
      <3> QED BY <1>2, <1>6, <3>1
    <2>2. \A k \in 0..(n - 1) : k \in S => k + 1 \in S
      <3> SUFFICES ASSUME NEW k \in 0..(n - 1), k \in S
                   PROVE  k + 1 \in S
        OBVIOUS
      <3>1. k + 1 \in 1..n /\ (k + 1) - 1 = k /\ k + 1 \in 0..n
        BY <1>2
      <3>2. it[1..(k + 1)] = Dispatch(it[1..k], s[k + 1])
        BY <1>7, <3>1
      <3> QED BY <1>2, <1>3, <3>1, <3>2
    <2> HIDE DEF S
    <2> QED BY <1>2, <2>1, <2>2, BoundedInduction
  <1>9. f \in [0..n -> X] /\ f[0] = << >> /\ f[n] = it[1..n]
    <2>1. 1..0 = {} /\ 0 \in 0..n /\ n \in 0..n
      BY <1>2
    <2> QED BY <1>6, <1>8, <2>1
  <1>10. ASSUME NEW i \in 1..n
         PROVE  f[i] = Dispatch(f[i - 1], s[i])
    <2>1. i \in 0..n /\ i - 1 \in 0..n
      BY <1>2
    <2>2. f[i] = it[1..i] /\ f[i - 1] = it[1..(i - 1)]
      BY <2>1
    <2> QED BY <1>7, <2>2
  <1> HIDE DEF f
  <1>11. Dispatches(s, f) /\ Dispatched(s) = f[Len(s)]
    BY <1>1, <1>2, <1>9, <1>10 DEF Dispatches, n, X
  <1> QED BY <1>11

(* What is dispatched of the first m cells depends on these only. *)
LEMMA DispatchesSame ==
  ASSUME NEW s \in Seq(Cell), NEW f, Dispatches(s, f),
         NEW t \in Seq(Cell), NEW g, Dispatches(t, g),
         NEW m \in Nat, m <= Len(s), m <= Len(t), \A i \in 1..m : s[i] = t[i]
  PROVE  f[m] = g[m]
  <1> DEFINE S == {i \in 0..m : f[i] = g[i]}
  <1>1. 0 \in S
    BY DEF Dispatches
  <1>2. \A i \in 0..(m - 1) : i \in S => i + 1 \in S
    <2> SUFFICES ASSUME NEW i \in 0..(m - 1), i \in S
                 PROVE  i + 1 \in S
      OBVIOUS
    <2>1. /\ i + 1 \in 1..Len(s) /\ i + 1 \in 1..Len(t) /\ i + 1 \in 1..m
          /\ i + 1 \in 0..m /\ (i + 1) - 1 = i
      OBVIOUS
    <2>2. f[i + 1] = Dispatch(f[i], s[i + 1]) /\ g[i + 1] = Dispatch(g[i], t[i + 1])
      BY <2>1 DEF Dispatches
    <2> QED BY <2>1, <2>2
  <1>3. \A i \in 0..m : i \in S
    <2> HIDE DEF S
    <2> QED BY <1>1, <1>2, BoundedInduction
  <1> QED BY <1>3

(* Nothing is dispatched of nothing. *)
LEMMA DispatchedEmpty == Dispatched(<< >>) = << >>
  <1>1. << >> \in Seq(Cell) /\ Len(<< >>) = 0
    OBVIOUS
  <1>2. PICK f : Dispatches(<< >>, f) /\ Dispatched(<< >>) = f[Len(<< >>)]
    BY <1>1, DispatchedIs
  <1> QED BY <1>1, <1>2 DEF Dispatches

(* What is dispatched of the first m cells of t, when s has these. *)
LEMMA DispatchedCut ==
  ASSUME NEW t \in Seq(Cell), NEW g, Dispatches(t, g), NEW s \in Seq(Cell),
         Len(s) <= Len(t), \A i \in 1..Len(s) : s[i] = t[i]
  PROVE  Dispatched(s) = g[Len(s)]
  <1>1. PICK f : Dispatches(s, f) /\ Dispatched(s) = f[Len(s)]
    BY DispatchedIs
  <1>2. Len(s) \in Nat /\ Len(s) <= Len(s)
    OBVIOUS
  <1>3. f[Len(s)] = g[Len(s)]
    BY <1>1, <1>2, DispatchesSame
  <1> QED BY <1>1, <1>3

(* One more cell is one more Dispatch. *)
LEMMA DispatchedAppend ==
  ASSUME NEW s \in Seq(Cell), NEW c \in Cell
  PROVE  /\ Dispatched(Append(s, c)) = Dispatch(Dispatched(s), c)
         /\ Dispatched(s) \in Seq(Cell)
  <1> DEFINE t == Append(s, c)
             n == Len(s)
  <1>1. /\ t \in Seq(Cell) /\ Len(t) = n + 1 /\ n \in Nat /\ t[n + 1] = c
        /\ \A i \in 1..n : s[i] = t[i]
    BY AppendProperties
  <1> HIDE DEF t
  <1>2. PICK g : Dispatches(t, g) /\ Dispatched(t) = g[Len(t)]
    BY <1>1, DispatchedIs
  <1>3. Dispatched(s) = g[n]
    <2>1. n <= Len(t)
      BY <1>1
    <2> QED BY <1>1, <1>2, <2>1, DispatchedCut
  <1>4. g[n + 1] = Dispatch(g[n], t[n + 1]) /\ g[n] \in Seq(Cell)
    <2>1. n + 1 \in 1..Len(t) /\ (n + 1) - 1 = n /\ n \in 0..Len(t)
      BY <1>1
    <2> QED BY <1>2, <2>1 DEF Dispatches
  <1> QED BY <1>1, <1>2, <1>3, <1>4 DEF t

(* Dispatched gives a sequence of cells. *)
LEMMA DispatchedType ==
  ASSUME NEW s \in Seq(Cell)
  PROVE  Dispatched(s) \in Seq(Cell)
  <1>1. PICK f : Dispatches(s, f) /\ Dispatched(s) = f[Len(s)]
    BY DispatchedIs
  <1>2. Len(s) \in 0..Len(s)
    OBVIOUS
  <1> QED BY <1>1, <1>2 DEF Dispatches

(* Of a prefix a prefix is dispatched. *)
LEMMA DispatchedPrefix ==
  ASSUME NEW s \in Seq(Cell), NEW t \in Seq(Cell), IsPrefix(s, t)
  PROVE  IsPrefix(Dispatched(s), Dispatched(t))
  <1> DEFINE n == Len(s)
             m == Len(t)
  <1>1. n \in Nat /\ m \in Nat /\ n <= m /\ \A i \in 1..n : s[i] = t[i]
    BY PrefixIs
  <1>2. PICK g : Dispatches(t, g) /\ Dispatched(t) = g[m]
    BY DispatchedIs
  <1>3. Dispatched(s) = g[n]
    BY <1>1, <1>2, DispatchedCut
  <1>4. \A i \in 1..m : t[i] \in Cell
    OBVIOUS
  <1> HIDE DEF n, m
  <1>5. /\ g \in [0..m -> Seq(Cell)]
        /\ \A i \in 1..m : g[i] = Dispatch(g[i - 1], t[i])
    BY <1>2 DEF Dispatches, m
  <1> DEFINE d == m - n
             S == {j \in 0..d : IsPrefix(g[n], g[n + j])}
  <1>6. d \in Nat /\ n + d = m /\ n + 0 = n /\ n \in 0..m
    BY <1>1
  <1>7. g[n] \in Seq(Cell)
    BY <1>5, <1>6
  <1>8. 0 \in S
    <2>1. IsPrefix(g[n], g[n])
      BY <1>7, PrefixIs
    <2> QED BY <1>6, <2>1
  <1>9. \A j \in 0..(d - 1) : j \in S => j + 1 \in S
    <2> SUFFICES ASSUME NEW j \in 0..(d - 1), j \in S
                 PROVE  j + 1 \in S
      OBVIOUS
    <2>1. /\ n + j \in 0..m /\ n + (j + 1) \in 1..m /\ (n + (j + 1)) - 1 = n + j
          /\ j + 1 \in 0..d
      BY <1>1
    <2> DEFINE a == g[n + j]
               c == t[n + (j + 1)]
    <2>2. a \in Seq(Cell) /\ c \in Cell /\ g[n + (j + 1)] = Dispatch(a, c)
      BY <1>4, <1>5, <2>1
    <2>3. IsPrefix(g[n], a)
      OBVIOUS
    <2> HIDE DEF a, c
    <2>4. IsPrefix(a, Dispatch(a, c)) /\ Dispatch(a, c) \in Seq(Cell)
      <3>1. CASE c.kind \in {"message", "quiet"}
        <4>1. Dispatch(a, c) = a \o <<c>> /\ <<c>> \in Seq(Cell)
          BY <2>2, <3>1, AppendIsConcat DEF Dispatch
        <4> QED BY <2>2, <4>1, PrefixOfConcat, ConcatProperties
      <3>2. CASE ~(c.kind \in {"message", "quiet"})
        <4>1. Dispatch(a, c) = a
          BY <3>2 DEF Dispatch
        <4> QED BY <2>2, <4>1, PrefixIs
      <3> QED BY <3>1, <3>2
    <2>5. IsPrefix(g[n], g[n + (j + 1)])
      BY <1>7, <2>2, <2>3, <2>4, PrefixOfPrefix
    <2> QED BY <2>1, <2>5
  <1>10. d \in S
    <2> HIDE DEF S, d
    <2>1. \A j \in 0..d : j \in S
      BY <1>6, <1>8, <1>9, BoundedInduction
    <2> QED BY <1>6, <2>1
  <1> QED BY <1>2, <1>3, <1>6, <1>10

-----------------------------------------------------------------------------
(* The inductive invariant. *)

(* What has been taken off the capture is consumed or on its way, in order: *)
(* of both the same is dispatched.                                         *)
FramesInOrder ==
  /\ Dispatched(consumed \o frames) = Dispatched(SubSeq(capture, 1, off))
  /\ \A i \in 1..off : capture[i].kind \notin {"undecodable", "partial"}

(* Once the book-update thread has seen ingest_done there are no frames but *)
(* those that it sees, and it leaves its loop when there are none.         *)
FramesDrained ==
  /\ ingest_done => ~HasFrame
  /\ book.done => ingest_done /\ framesSeen = Len(frames)
  /\ book.pc = "empty" => book.done
  /\ book.pc \in {"last", "done"} => book.done /\ frames = << >>
  /\ book_done <=> book.pc = "done"
  /\ book_done => fingerprint = consumed

(* The same for the analytics thread, book_done and the ticks. *)
TicksDrained ==
  /\ analytics.done => book_done /\ ticksSeen = Len(ticks)
  /\ analytics.pc = "empty" => analytics.done
  /\ analytics.pc = "done" => analytics.done /\ ticks = << >>

(* The ticks in the queue are the latest that were pushed. *)
TicksCounted ==
  /\ result.events + Len(ticks) = pushed.count
  /\ ticks # << >> => ticks[Len(ticks)] = pushed.last
  /\ ticks = << >> => result.last = pushed.last
  /\ result = [events |-> result.events, last |-> result.last]

Inv == TypeOK /\ FramesInOrder /\ FramesDrained /\ TicksDrained /\ TicksCounted

(* Before the threads run. *)
LEMMA InvInit == Init => Inv
  <1> SUFFICES ASSUME Init PROVE Inv
    OBVIOUS
  <1>0. /\ capture \in Seq(Cell) /\ off = 0 /\ ~ingest_done /\ ~book_done
        /\ ingest_done \in BOOLEAN /\ book_done \in BOOLEAN
        /\ frames = << >> /\ framesSeen = 0 /\ framesHeld = 0
        /\ ticks = << >> /\ ticksSeen = 0 /\ ticksHeld = 0
        /\ consumed = << >> /\ emit = {}
    BY PipelineAssumption DEF Init, Frames!Init, Ticks!Init
  <1>r. /\ book = [pc |-> "pop", done |-> FALSE]
        /\ pushed = [count |-> 0, last |-> NoTick]
        /\ analytics = [pc |-> "pop", done |-> FALSE]
        /\ result = [events |-> 0, last |-> NoTick]
    BY DEF Init
  <1>1. TypeOK
    <2>1. off \in 0..Len(capture)
      BY <1>0
    <2>2. /\ frames \in Seq(Cell) /\ ticks \in Seq(Tick) /\ consumed \in Seq(Cell)
          /\ framesSeen \in 0..Len(frames) /\ framesHeld \in Len(frames)..FrameBound
          /\ ticksSeen \in 0..Len(ticks) /\ ticksHeld \in Len(ticks)..TickBound
      BY <1>0, PipelineAssumption
    <2>3. /\ book \in [pc : {"pop", "check", "empty", "emit", "last", "done"}, done : BOOLEAN]
          /\ analytics \in [pc : {"pop", "check", "empty", "done"}, done : BOOLEAN]
          /\ pushed.count \in Nat /\ result.events \in Nat
      BY <1>r
    <2> QED BY <1>0, <2>1, <2>2, <2>3 DEF TypeOK
  <1>2. FramesInOrder
    <2>1. consumed \o frames = SubSeq(capture, 1, off)
      BY <1>0
    <2>2. Dispatched(consumed \o frames) = Dispatched(SubSeq(capture, 1, off))
      BY <2>1
    <2> QED BY <1>0, <2>2 DEF FramesInOrder
  <1>3. FramesDrained /\ TicksDrained
    BY <1>0, <1>r DEF FramesDrained, TicksDrained
  <1>4. TicksCounted
    BY <1>0, <1>r DEF TicksCounted
  <1> QED BY <1>1, <1>2, <1>3, <1>4 DEF Inv

(* The types that the steps use. *)
LEMMA Types ==
  ASSUME TypeOK
  PROVE  /\ capture \in Seq(Cell) /\ off \in Nat /\ off <= Len(capture)
         /\ frames \in Seq(Cell) /\ consumed \in Seq(Cell) /\ consumed \o frames \in Seq(Cell)
         /\ framesSeen \in Nat /\ framesHeld \in Nat /\ Len(frames) \in Nat
         /\ ticks \in Seq(Tick) /\ ticksSeen \in Nat /\ ticksHeld \in Nat /\ Len(ticks) \in Nat
         /\ SubSeq(capture, 1, off) \in Seq(Cell)
  <1>1. capture \in Seq(Cell) /\ off \in Nat /\ off <= Len(capture)
    BY DEF TypeOK
  <1>2. SubSeq(capture, 1, off) \in Seq(Cell)
    BY <1>1
  <1>3. frames \in Seq(Cell) /\ consumed \in Seq(Cell)
    BY DEF TypeOK
  <1>4. consumed \o frames \in Seq(Cell)
    BY <1>3, ConcatProperties
  <1> QED BY <1>1, <1>2, <1>3, <1>4 DEF TypeOK

(* The ingestion thread ends. *)
LEMMA IngestStopInv ==
  ASSUME Inv, IngestStop
  PROVE  Inv'
  <1> USE DEF Inv, IngestStop, frameQueue, tickQueue, bookVars, analyticsVars
  <1>1. TypeOK'
    BY DEF TypeOK
  <1>2. FramesInOrder'
    BY DEF FramesInOrder
  <1>3. FramesDrained'
    BY DEF FramesDrained, IngestEnds, HasFrame
  <1>4. TicksDrained' /\ TicksCounted'
    BY DEF TicksDrained, TicksCounted
  <1> QED BY <1>1, <1>2, <1>3, <1>4

(* The next cell of the capture, when it is taken. *)
LEMMA NextCell ==
  ASSUME TypeOK, HasFrame
  PROVE  /\ capture[off + 1] \in Cell /\ ~(off = Len(capture)) /\ off + 1 \in 0..Len(capture)
         /\ Dispatched(SubSeq(capture, 1, off + 1)) =
              Dispatch(Dispatched(SubSeq(capture, 1, off)), capture[off + 1])
  <1>1. /\ capture \in Seq(Cell) /\ off \in Nat /\ off < Len(capture) /\ Len(capture) \in Nat
    BY Types DEF HasFrame
  <1>2. /\ SubSeq(capture, 1, off) \in Seq(Cell)
        /\ SubSeq(capture, 1, off + 1) = Append(SubSeq(capture, 1, off), capture[off + 1])
    BY <1>1, CutAppend
  <1>3. capture[off + 1] \in Cell /\ ~(off = Len(capture)) /\ off + 1 \in 0..Len(capture)
    BY <1>1
  <1> QED BY <1>2, <1>3, DispatchedAppend

(* The ingestion thread passes over an oversize frame. *)
LEMMA IngestSkipInv ==
  ASSUME Inv, IngestSkip
  PROVE  Inv'
  <1> USE DEF Inv, IngestSkip, frameQueue, tickQueue, bookVars, analyticsVars
  <1>0. /\ HasFrame /\ capture[off + 1].kind = "oversize"
        /\ off' = off + 1 /\ capture' = capture /\ frames' = frames /\ consumed' = consumed
    OBVIOUS
  <1>1. TypeOK'
    <2>1. off' \in 0..Len(capture')
      BY <1>0, NextCell
    <2> QED BY <1>0, <2>1 DEF TypeOK
  <1>2. FramesInOrder'
    <2>1. Dispatched(SubSeq(capture, 1, off + 1)) = Dispatched(SubSeq(capture, 1, off))
      BY <1>0, NextCell DEF Dispatch
    <2>2. \A i \in 1..(off + 1) : capture[i].kind \notin {"undecodable", "partial"}
      BY <1>0, Types DEF HasFrame, FramesInOrder
    <2> QED BY <1>0, <2>1, <2>2 DEF FramesInOrder
  <1>3. ~ingest_done
    BY <1>0 DEF FramesDrained
  <1>4. FramesDrained'
    BY <1>3 DEF FramesDrained
  <1>5. TicksDrained' /\ TicksCounted'
    BY DEF TicksDrained, TicksCounted
  <1> QED BY <1>1, <1>2, <1>4, <1>5

(* The ingestion thread pushes a frame. *)
LEMMA IngestPushInv ==
  ASSUME Inv, IngestPush
  PROVE  Inv'
  <1> USE DEF Inv, IngestPush, tickQueue, bookVars, analyticsVars
  <1> DEFINE c == capture[off + 1]
  <1>0. /\ HasFrame /\ off' = off + 1 /\ capture' = capture /\ consumed' = consumed
        /\ frames' = Append(frames, c) /\ framesSeen' = framesSeen
        /\ \E o \in Len(frames)..framesHeld : o < FrameBound /\ framesHeld' = o + 1
    BY DEF Frames!TryPush, Frames!OccupiedNow, Frames!HasRoom
  <1>1. c \in Cell /\ off + 1 \in 0..Len(capture)
    BY <1>0, NextCell
  <1>2. /\ frames' \in Seq(Cell) /\ Len(frames') = Len(frames) + 1
    BY <1>0, <1>1, Types
  <1>3. TypeOK'
    <2>1. framesHeld' \in Len(frames')..FrameBound /\ framesSeen' \in 0..Len(frames')
      BY <1>0, <1>2, PipelineAssumption DEF TypeOK
    <2> QED BY <1>0, <1>1, <1>2, <2>1 DEF TypeOK
  <1>4. FramesInOrder'
    <2>1. consumed' \o frames' = Append(consumed \o frames, c)
      <3>1. consumed \in Seq(Cell) /\ frames \in Seq(Cell)
        BY Types
      <3> HIDE DEF c
      <3>2. consumed \o Append(frames, c) = Append(consumed \o frames, c)
        BY <1>1, <3>1, ConcatAppend
      <3> QED BY <1>0, <3>2
    <2>2. Dispatched(consumed' \o frames') = Dispatch(Dispatched(consumed \o frames), c)
      BY <1>1, <2>1, Types, DispatchedAppend
    <2>3. Dispatched(SubSeq(capture', 1, off')) = Dispatch(Dispatched(SubSeq(capture, 1, off)), c)
      BY <1>0, NextCell
    <2>4. \A i \in 1..(off + 1) : capture[i].kind \notin {"undecodable", "partial"}
      BY <1>0, Types, SMTT(30) DEF HasFrame, FramesInOrder
    <2> QED BY <1>0, <2>2, <2>3, <2>4 DEF FramesInOrder
  <1>5. ~ingest_done
    BY <1>0 DEF FramesDrained
  <1>6. FramesDrained'
    BY <1>5 DEF FramesDrained
  <1>7. TicksDrained' /\ TicksCounted'
    BY DEF TicksDrained, TicksCounted
  <1> QED BY <1>3, <1>4, <1>6, <1>7

(* A frame leaves the queue. *)
LEMMA FramePopped ==
  ASSUME TypeOK, Frames!TryPop
  PROVE  /\ frames # << >> /\ frames' = Tail(frames) /\ frames' \in Seq(Cell)
         /\ Head(frames) \in Cell /\ Len(frames') = Len(frames) - 1
         /\ framesSeen' \in 0..Len(frames') /\ framesHeld' \in Len(frames')..FrameBound
         /\ framesHeld' = framesHeld
         /\ framesSeen = Len(frames) => framesSeen' = Len(frames')
  <1>1. /\ frames' = Tail(frames) /\ framesHeld' = framesHeld
        /\ \E v \in framesSeen..Len(frames) : v > 0 /\ framesSeen' = v - 1
    BY DEF Frames!TryPop, Frames!SeenNow
  <1>2. frames \in Seq(Cell) /\ framesSeen \in 0..Len(frames)
        /\ framesHeld \in Len(frames)..FrameBound /\ Len(frames) \in Nat
    BY DEF TypeOK
  <1>3. frames # << >>
    BY <1>1, <1>2
  <1>4. /\ Head(frames) \in Cell /\ Tail(frames) \in Seq(Cell)
        /\ Len(Tail(frames)) = Len(frames) - 1
    BY <1>2, <1>3, HeadTailProperties
  <1>5. Len(frames') = Len(frames) - 1
    BY <1>1, <1>4
  <1>6. /\ framesSeen' \in 0..Len(frames') /\ framesHeld' \in Len(frames')..FrameBound
        /\ framesSeen = Len(frames) => framesSeen' = Len(frames')
    BY <1>1, <1>2, <1>5, PipelineAssumption
  <1> QED BY <1>1, <1>3, <1>4, <1>5, <1>6

(* The symbols known are symbols. *)
LEMMA KnownSymbolsType ==
  ASSUME NEW s \in Seq(Cell)
  PROVE  KnownSymbols(s) \subseteq Symbols
  <1>1. \A i \in DOMAIN s : s[i] \in Cell
    OBVIOUS
  <1>2. \A i \in DOMAIN s : s[i].sym \in Symbols
    BY <1>1 DEF Cell
  <1> QED BY <1>2 DEF KnownSymbols

(* The book-update thread applies a frame. *)
LEMMA BookPopInv ==
  ASSUME Inv, BookPop
  PROVE  Inv'
  <1>0. /\ TypeOK /\ FramesInOrder /\ FramesDrained /\ TicksDrained /\ TicksCounted
        /\ book.pc = "pop" /\ Frames!TryPop /\ consumed' = Append(consumed, Head(frames))
        /\ capture' = capture /\ off' = off /\ ingest_done' = ingest_done
        /\ ticks' = ticks /\ ticksSeen' = ticksSeen /\ ticksHeld' = ticksHeld
        /\ fingerprint' = fingerprint /\ pushed' = pushed /\ book_done' = book_done
        /\ analytics' = analytics /\ result' = result
    BY DEF Inv, BookPop, ingestVars, tickQueue, analyticsVars
  <1>b. \/ book' = [book EXCEPT !.pc = "emit"] /\ emit' = KnownSymbols(consumed')
        \/ book' = book /\ emit' = emit
    BY DEF BookPop
  <1>1. /\ frames # << >> /\ frames' = Tail(frames) /\ frames' \in Seq(Cell)
        /\ Head(frames) \in Cell
        /\ framesSeen' \in 0..Len(frames') /\ framesHeld' \in Len(frames')..FrameBound
        /\ framesSeen = Len(frames) => framesSeen' = Len(frames')
    BY <1>0, FramePopped
  <1>2. consumed' \in Seq(Cell)
    BY <1>0, <1>1, Types
  <1>3. /\ emit' \subseteq Symbols
        /\ book' \in [pc : {"pop", "check", "empty", "emit", "last", "done"}, done : BOOLEAN]
        /\ book'.done = book.done /\ book'.pc \in {"pop", "emit"}
    <2>1. book \in [pc : {"pop", "check", "empty", "emit", "last", "done"}, done : BOOLEAN]
          /\ emit \subseteq Symbols
      BY <1>0 DEF TypeOK
    <2>2. KnownSymbols(consumed') \subseteq Symbols
      BY <1>2, KnownSymbolsType
    <2>3. CASE book' = [book EXCEPT !.pc = "emit"] /\ emit' = KnownSymbols(consumed')
      BY <2>1, <2>2, <2>3
    <2>4. CASE book' = book /\ emit' = emit
      BY <1>0, <2>1, <2>4
    <2> QED BY <1>b, <2>3, <2>4
  <1>4. TypeOK'
    BY <1>0, <1>1, <1>2, <1>3 DEF TypeOK
  <1>5. FramesInOrder'
    <2>1. consumed \in Seq(Cell) /\ frames \in Seq(Cell)
      BY <1>0, Types
    <2>2. Append(consumed, Head(frames)) \o Tail(frames) = consumed \o frames
      BY <1>1, <2>1, ConcatHeadTail
    <2>3. consumed' \o frames' = consumed \o frames
      BY <1>0, <1>1, <2>2
    <2> QED BY <1>0, <2>3 DEF FramesInOrder
  <1>6. FramesDrained'
    BY <1>0, <1>1, <1>3 DEF FramesDrained, HasFrame
  <1>7. TicksDrained' /\ TicksCounted'
    BY <1>0 DEF TicksDrained, TicksCounted
  <1> QED BY <1>4, <1>5, <1>6, <1>7 DEF Inv

(* try_pop finds no frame. *)
LEMMA BookMissInv ==
  ASSUME Inv, BookMiss
  PROVE  Inv'
  <1> USE DEF Inv, BookMiss, ingestVars, frameQueue, tickQueue, analyticsVars
  <1>1. TypeOK'
    BY DEF TypeOK
  <1>2. FramesInOrder'
    BY DEF FramesInOrder
  <1>3. FramesDrained'
    BY DEF FramesDrained, TypeOK, HasFrame
  <1>4. TicksDrained' /\ TicksCounted'
    BY DEF TicksDrained, TicksCounted
  <1> QED BY <1>1, <1>2, <1>3, <1>4

(* The consumer of the frames looks at the queue. *)
LEMMA FramesLooked ==
  ASSUME TypeOK, NEW v \in framesSeen..Len(frames), Frames!Look(v)
  PROVE  /\ frames' = frames /\ framesHeld' = framesHeld /\ framesSeen' = v
         /\ frames' \in Seq(Cell) /\ framesSeen' \in 0..Len(frames')
         /\ framesHeld' \in Len(frames')..FrameBound
  BY DEF TypeOK, Frames!Look, Frames!SeenNow

(* The book-update thread sees that the ingestion thread has ended. *)
LEMMA BookSeesDoneInv ==
  ASSUME Inv, BookSeesDone
  PROVE  Inv'
  <1>0. /\ TypeOK /\ FramesInOrder /\ FramesDrained /\ TicksDrained /\ TicksCounted
        /\ book.pc = "check" /\ ingest_done /\ book' = [pc |-> "empty", done |-> TRUE]
        /\ Frames!Look(Len(frames))
        /\ capture' = capture /\ off' = off /\ ingest_done' = ingest_done
        /\ ticks' = ticks /\ ticksSeen' = ticksSeen /\ ticksHeld' = ticksHeld
        /\ consumed' = consumed /\ emit' = emit
        /\ fingerprint' = fingerprint /\ pushed' = pushed /\ book_done' = book_done
        /\ analytics' = analytics /\ result' = result
    BY DEF Inv, BookSeesDone, FramesOrdered, ingestVars, tickQueue, analyticsVars
  <1>1. /\ frames' = frames /\ framesSeen' = Len(frames) /\ frames' \in Seq(Cell)
        /\ framesSeen' \in 0..Len(frames') /\ framesHeld' \in Len(frames')..FrameBound
    <2>1. Len(frames) \in framesSeen..Len(frames)
      BY <1>0 DEF TypeOK
    <2> QED BY <1>0, <2>1, FramesLooked
  <1>2. TypeOK'
    <2>1. book' \in [pc : {"pop", "check", "empty", "emit", "last", "done"}, done : BOOLEAN]
      BY <1>0
    <2> QED BY <1>0, <1>1, <2>1 DEF TypeOK
  <1>3. FramesInOrder'
    BY <1>0, <1>1 DEF FramesInOrder
  <1>4. FramesDrained'
    BY <1>0, <1>1 DEF FramesDrained, HasFrame
  <1>5. TicksDrained' /\ TicksCounted'
    BY <1>0 DEF TicksDrained, TicksCounted
  <1> QED BY <1>2, <1>3, <1>4, <1>5 DEF Inv

(* The book-update thread sees that the ingestion thread runs. *)
LEMMA BookSeesMoreInv ==
  ASSUME Inv, BookSeesMore
  PROVE  Inv'
  <1> USE DEF Inv, BookSeesMore, ingestVars, frameQueue, tickQueue, analyticsVars
  <1>1. TypeOK'
    BY DEF TypeOK
  <1>2. FramesInOrder'
    BY DEF FramesInOrder
  <1>3. FramesDrained'
    BY DEF FramesDrained, TypeOK, HasFrame
  <1>4. TicksDrained' /\ TicksCounted'
    BY DEF TicksDrained, TicksCounted
  <1> QED BY <1>1, <1>2, <1>3, <1>4

(* frames.empty() *)
LEMMA BookCheckEmptyInv ==
  ASSUME Inv, BookCheckEmpty
  PROVE  Inv'
  <1>0. /\ TypeOK /\ FramesInOrder /\ FramesDrained /\ TicksDrained /\ TicksCounted
        /\ book.pc = "empty"
        /\ capture' = capture /\ off' = off /\ ingest_done' = ingest_done
        /\ ticks' = ticks /\ ticksSeen' = ticksSeen /\ ticksHeld' = ticksHeld
        /\ consumed' = consumed
        /\ fingerprint' = fingerprint /\ pushed' = pushed /\ book_done' = book_done
        /\ analytics' = analytics /\ result' = result
    BY DEF Inv, BookCheckEmpty, ingestVars, tickQueue, analyticsVars
  <1>1. PICK v \in framesSeen..Len(frames) :
          /\ Frames!Look(v)
          /\ IF v = 0
             THEN book' = [book EXCEPT !.pc = "last"] /\ emit' = KnownSymbols(consumed)
             ELSE book' = [book EXCEPT !.pc = "pop"] /\ emit' = emit
    BY DEF BookCheckEmpty, Frames!SeenNow
  <1>2. /\ frames' = frames /\ framesSeen' = v /\ frames' \in Seq(Cell)
        /\ framesSeen' \in 0..Len(frames') /\ framesHeld' \in Len(frames')..FrameBound
    BY <1>0, <1>1, FramesLooked
  <1>3. book.done /\ ingest_done /\ framesSeen = Len(frames) /\ v = Len(frames)
    BY <1>0, <1>1 DEF FramesDrained, TypeOK
  <1>4. v = 0 => frames = << >>
    <2>1. frames \in Seq(Cell)
      BY <1>0, Types
    <2> QED BY <1>3, <2>1, EmptySeq
  <1>5. /\ book' \in [pc : {"pop", "check", "empty", "emit", "last", "done"}, done : BOOLEAN]
        /\ book'.done = book.done /\ book'.pc = IF v = 0 THEN "last" ELSE "pop"
    <2>1. book \in [pc : {"pop", "check", "empty", "emit", "last", "done"}, done : BOOLEAN]
      BY <1>0 DEF TypeOK
    <2> QED BY <1>1, <2>1
  <1>6. emit' \subseteq Symbols
    BY <1>0, <1>1, KnownSymbolsType DEF TypeOK
  <1>7. TypeOK'
    BY <1>0, <1>2, <1>5, <1>6 DEF TypeOK
  <1>8. FramesInOrder'
    BY <1>0, <1>2 DEF FramesInOrder
  <1>9. FramesDrained'
    BY <1>0, <1>2, <1>3, <1>4, <1>5 DEF FramesDrained, HasFrame
  <1>10. TicksDrained' /\ TicksCounted'
    BY <1>0 DEF TicksDrained, TicksCounted
  <1> QED BY <1>7, <1>8, <1>9, <1>10 DEF Inv

(* emit_tick pushes the top of the book of one symbol, or drops it. *)
LEMMA BookTickInv ==
  ASSUME Inv, NEW sym \in Symbols, BookTick(sym)
  PROVE  Inv'
  <1> DEFINE t == [sym |-> sym, at |-> Len(consumed)]
  <1>0. /\ TypeOK /\ FramesInOrder /\ FramesDrained /\ TicksDrained /\ TicksCounted
        /\ book.pc \in {"emit", "last"} /\ emit' = emit \ {sym}
        /\ capture' = capture /\ off' = off /\ ingest_done' = ingest_done
        /\ frames' = frames /\ framesSeen' = framesSeen /\ framesHeld' = framesHeld
        /\ book' = book /\ consumed' = consumed
        /\ fingerprint' = fingerprint /\ book_done' = book_done
        /\ analytics' = analytics /\ result' = result
    BY DEF Inv, BookTick, ingestVars, frameQueue, analyticsVars
  <1>1. FramesInOrder' /\ FramesDrained'
    BY <1>0 DEF FramesInOrder, FramesDrained, HasFrame
  <1>2. ~book_done /\ ~analytics.done
    BY <1>0 DEF FramesDrained, TicksDrained
  <1>3. TicksDrained'
    BY <1>0, <1>2 DEF TicksDrained
  <1>4. CASE Ticks!TryPush(t) /\ pushed' = [count |-> pushed.count + 1, last |-> t]
    <2>1. /\ ticks' = Append(ticks, t) /\ ticksSeen' = ticksSeen
          /\ \E o \in Len(ticks)..ticksHeld : o < TickBound /\ ticksHeld' = o + 1
      BY <1>4 DEF Ticks!TryPush, Ticks!OccupiedNow, Ticks!HasRoom
    <2>2. t \in Tick /\ ticks \in Seq(Tick) /\ Len(ticks) \in Nat
      BY <1>0, Types DEF Tick
    <2>t. pushed'.last = t /\ pushed'.count = pushed.count + 1
      BY <1>4
    <2> HIDE DEF t
    <2>3. /\ ticks' \in Seq(Tick) /\ Len(ticks') = Len(ticks) + 1 /\ ticks' # << >>
          /\ ticks'[Len(ticks) + 1] = t
      BY <2>1, <2>2, AppendProperties
    <2>4. ticksHeld' \in Len(ticks')..TickBound /\ ticksSeen' \in 0..Len(ticks')
      BY <1>0, <2>1, <2>3, PipelineAssumption DEF TypeOK
    <2>5. pushed'.count \in Nat
      BY <1>0, <2>t DEF TypeOK
    <2>6. TypeOK'
      BY <1>0, <2>3, <2>4, <2>5 DEF TypeOK
    <2>7. TicksCounted'
      <3>1. result'.events + Len(ticks') = pushed'.count
        BY <1>0, <2>2, <2>3, <2>t DEF TicksCounted, TypeOK
      <3>2. ticks'[Len(ticks')] = pushed'.last
        BY <2>3, <2>t
      <3> QED BY <1>0, <2>3, <3>1, <3>2 DEF TicksCounted
    <2> QED BY <1>1, <1>3, <2>6, <2>7 DEF Inv
  <1>5. CASE UNCHANGED <<tickQueue, pushed>>
    <2>1. ticks' = ticks /\ ticksSeen' = ticksSeen /\ ticksHeld' = ticksHeld /\ pushed' = pushed
      BY <1>5 DEF tickQueue
    <2>2. TypeOK' /\ TicksCounted'
      BY <1>0, <2>1 DEF TypeOK, TicksCounted
    <2> QED BY <1>1, <1>3, <2>2 DEF Inv
  <1> QED BY <1>4, <1>5 DEF BookTick

(* emit_tick returns. *)
LEMMA BookTickedInv ==
  ASSUME Inv, BookTicked
  PROVE  Inv'
  <1> USE DEF Inv, BookTicked, ingestVars, frameQueue, tickQueue, analyticsVars
  <1>1. TypeOK'
    BY DEF TypeOK
  <1>2. FramesInOrder'
    BY DEF FramesInOrder
  <1>3. FramesDrained'
    BY DEF FramesDrained, TypeOK, HasFrame
  <1>4. TicksDrained' /\ TicksCounted'
    BY DEF TicksDrained, TicksCounted
  <1> QED BY <1>1, <1>2, <1>3, <1>4

(* The book-update thread ends. *)
LEMMA BookFinishInv ==
  ASSUME Inv, BookFinish
  PROVE  Inv'
  <1> USE DEF Inv, BookFinish, ingestVars, frameQueue, tickQueue, analyticsVars
  <1>1. TypeOK'
    BY DEF TypeOK
  <1>2. FramesInOrder'
    BY DEF FramesInOrder
  <1>3. FramesDrained'
    BY DEF FramesDrained, TypeOK, HasFrame
  <1>4. TicksDrained' /\ TicksCounted'
    BY DEF TicksDrained, TicksCounted
  <1> QED BY <1>1, <1>2, <1>3, <1>4

(* The analytics thread takes a tick. *)
LEMMA AnalyticsPopInv ==
  ASSUME Inv, AnalyticsPop
  PROVE  Inv'
  <1>0. /\ TypeOK /\ FramesInOrder /\ FramesDrained /\ TicksDrained /\ TicksCounted
        /\ analytics.pc = "pop"
        /\ result' = [events |-> result.events + 1, last |-> Head(ticks)]
        /\ capture' = capture /\ off' = off /\ ingest_done' = ingest_done
        /\ frames' = frames /\ framesSeen' = framesSeen /\ framesHeld' = framesHeld
        /\ book' = book /\ consumed' = consumed /\ emit' = emit
        /\ fingerprint' = fingerprint /\ pushed' = pushed /\ book_done' = book_done
        /\ analytics' = analytics
    BY DEF Inv, AnalyticsPop, ingestVars, frameQueue, bookVars
  <1>1. /\ ticks' = Tail(ticks) /\ ticksHeld' = ticksHeld
        /\ \E v \in ticksSeen..Len(ticks) : v > 0 /\ ticksSeen' = v - 1
    BY DEF AnalyticsPop, Ticks!TryPop, Ticks!SeenNow
  <1>2. /\ ticks \in Seq(Tick) /\ ticksSeen \in 0..Len(ticks)
        /\ ticksHeld \in Len(ticks)..TickBound /\ Len(ticks) \in Nat
        /\ result.events \in Nat
    BY <1>0 DEF TypeOK
  <1>3. ticks # << >>
    BY <1>1, <1>2
  <1>4. /\ ticks' \in Seq(Tick) /\ Len(ticks') = Len(ticks) - 1
        /\ \A i \in 1..Len(ticks') : ticks'[i] = ticks[i + 1]
    BY <1>1, <1>2, <1>3, HeadTailProperties
  <1>h. Head(ticks) = ticks[1]
    BY <1>2, <1>3
  <1>5. /\ ticksSeen' \in 0..Len(ticks') /\ ticksHeld' \in Len(ticks')..TickBound
        /\ ticksSeen = Len(ticks) => ticksSeen' = Len(ticks')
    <2>1. Len(ticks') = Len(ticks) - 1
      BY <1>4
    <2> QED BY <1>1, <1>2, <2>1, PipelineAssumption
  <1>6. result'.events = result.events + 1 /\ result'.last = Head(ticks)
        /\ result' = [events |-> result'.events, last |-> result'.last]
    BY <1>0
  <1>7. TypeOK'
    <2>1. result'.events \in Nat
      BY <1>2, <1>6
    <2> QED BY <1>0, <1>4, <1>5, <2>1 DEF TypeOK
  <1>8. FramesInOrder' /\ FramesDrained'
    BY <1>0 DEF FramesInOrder, FramesDrained, HasFrame
  <1>9. TicksDrained'
    BY <1>0, <1>3, <1>5 DEF TicksDrained
  <1>10. TicksCounted'
    <2>1. result'.events + Len(ticks') = pushed'.count
      BY <1>0, <1>2, <1>4, <1>6 DEF TicksCounted
    <2>2. ticks[Len(ticks)] = pushed.last
      BY <1>0, <1>3 DEF TicksCounted
    <2>3. ASSUME ticks' # << >>
          PROVE  ticks'[Len(ticks')] = pushed'.last
      <3>1. Len(ticks') \in Nat /\ Len(ticks') # 0
        BY <1>4, <2>3, EmptySeq
      <3>2. Len(ticks') \in 1..Len(ticks') /\ Len(ticks') + 1 = Len(ticks)
        BY <1>2, <1>4, <3>1
      <3> QED BY <1>0, <1>4, <2>2, <3>2
    <2>4. ASSUME ticks' = << >>
          PROVE  result'.last = pushed'.last
      <3>1. Len(ticks') = 0
        BY <2>4
      <3>2. Len(ticks) = 1
        BY <1>2, <1>4, <3>1
      <3> QED BY <1>0, <1>6, <1>h, <2>2, <3>2
    <2> QED BY <1>6, <2>1, <2>3, <2>4 DEF TicksCounted
  <1> QED BY <1>7, <1>8, <1>9, <1>10 DEF Inv

(* try_pop finds no tick. *)
LEMMA AnalyticsMissInv ==
  ASSUME Inv, AnalyticsMiss
  PROVE  Inv'
  <1> USE DEF Inv, AnalyticsMiss, ingestVars, frameQueue, tickQueue, bookVars
  <1>1. TypeOK'
    BY DEF TypeOK
  <1>2. FramesInOrder'
    BY DEF FramesInOrder
  <1>3. FramesDrained'
    BY DEF FramesDrained, HasFrame
  <1>4. TicksDrained' /\ TicksCounted'
    BY DEF TicksDrained, TicksCounted, TypeOK
  <1> QED BY <1>1, <1>2, <1>3, <1>4

(* The consumer of the ticks looks at the queue. *)
LEMMA TicksLooked ==
  ASSUME TypeOK, NEW v \in ticksSeen..Len(ticks), Ticks!Look(v)
  PROVE  /\ ticks' = ticks /\ ticksHeld' = ticksHeld /\ ticksSeen' = v
         /\ ticks' \in Seq(Tick) /\ ticksSeen' \in 0..Len(ticks')
         /\ ticksHeld' \in Len(ticks')..TickBound
  BY DEF TypeOK, Ticks!Look, Ticks!SeenNow

(* The analytics thread sees that the book-update thread has ended. *)
LEMMA AnalyticsSeesDoneInv ==
  ASSUME Inv, AnalyticsSeesDone
  PROVE  Inv'
  <1>0. /\ TypeOK /\ FramesInOrder /\ FramesDrained /\ TicksDrained /\ TicksCounted
        /\ analytics.pc = "check" /\ book_done
        /\ analytics' = [pc |-> "empty", done |-> TRUE]
        /\ Ticks!Look(Len(ticks))
        /\ capture' = capture /\ off' = off /\ ingest_done' = ingest_done
        /\ frames' = frames /\ framesSeen' = framesSeen /\ framesHeld' = framesHeld
        /\ book' = book /\ consumed' = consumed /\ emit' = emit
        /\ fingerprint' = fingerprint /\ pushed' = pushed /\ book_done' = book_done
        /\ result' = result
    BY DEF Inv, AnalyticsSeesDone, TicksOrdered, ingestVars, frameQueue, bookVars
  <1>1. /\ ticks' = ticks /\ ticksSeen' = Len(ticks) /\ ticks' \in Seq(Tick)
        /\ ticksSeen' \in 0..Len(ticks') /\ ticksHeld' \in Len(ticks')..TickBound
    <2>1. Len(ticks) \in ticksSeen..Len(ticks)
      BY <1>0 DEF TypeOK
    <2> QED BY <1>0, <2>1, TicksLooked
  <1>2. TypeOK'
    <2>1. analytics' \in [pc : {"pop", "check", "empty", "done"}, done : BOOLEAN]
      BY <1>0
    <2> QED BY <1>0, <1>1, <2>1 DEF TypeOK
  <1>3. FramesInOrder' /\ FramesDrained'
    BY <1>0 DEF FramesInOrder, FramesDrained, HasFrame
  <1>4. TicksDrained'
    BY <1>0, <1>1 DEF TicksDrained
  <1>5. TicksCounted'
    BY <1>0, <1>1 DEF TicksCounted
  <1> QED BY <1>2, <1>3, <1>4, <1>5 DEF Inv

(* The analytics thread sees that the book-update thread runs. *)
LEMMA AnalyticsSeesMoreInv ==
  ASSUME Inv, AnalyticsSeesMore
  PROVE  Inv'
  <1> USE DEF Inv, AnalyticsSeesMore, ingestVars, frameQueue, tickQueue, bookVars
  <1>1. TypeOK'
    BY DEF TypeOK
  <1>2. FramesInOrder'
    BY DEF FramesInOrder
  <1>3. FramesDrained'
    BY DEF FramesDrained, HasFrame
  <1>4. TicksDrained' /\ TicksCounted'
    BY DEF TicksDrained, TicksCounted, TypeOK
  <1> QED BY <1>1, <1>2, <1>3, <1>4

(* ticks.empty() *)
LEMMA AnalyticsCheckEmptyInv ==
  ASSUME Inv, AnalyticsCheckEmpty
  PROVE  Inv'
  <1>0. /\ TypeOK /\ FramesInOrder /\ FramesDrained /\ TicksDrained /\ TicksCounted
        /\ analytics.pc = "empty"
        /\ capture' = capture /\ off' = off /\ ingest_done' = ingest_done
        /\ frames' = frames /\ framesSeen' = framesSeen /\ framesHeld' = framesHeld
        /\ book' = book /\ consumed' = consumed /\ emit' = emit
        /\ fingerprint' = fingerprint /\ pushed' = pushed /\ book_done' = book_done
        /\ result' = result
    BY DEF Inv, AnalyticsCheckEmpty, ingestVars, frameQueue, bookVars
  <1>1. PICK v \in ticksSeen..Len(ticks) :
          /\ Ticks!Look(v)
          /\ analytics' = [analytics EXCEPT !.pc = IF v = 0 THEN "done" ELSE "pop"]
    BY DEF AnalyticsCheckEmpty, Ticks!SeenNow
  <1>2. /\ ticks' = ticks /\ ticksSeen' = v /\ ticks' \in Seq(Tick)
        /\ ticksSeen' \in 0..Len(ticks') /\ ticksHeld' \in Len(ticks')..TickBound
    BY <1>0, <1>1, TicksLooked
  <1>3. analytics.done /\ book_done /\ v = Len(ticks)
    BY <1>0, <1>1 DEF TicksDrained, TypeOK
  <1>4. v = 0 => ticks = << >>
    <2>1. ticks \in Seq(Tick)
      BY <1>0, Types
    <2> QED BY <1>3, <2>1, EmptySeq
  <1>5. /\ analytics' \in [pc : {"pop", "check", "empty", "done"}, done : BOOLEAN]
        /\ analytics'.done = analytics.done
        /\ analytics'.pc = IF v = 0 THEN "done" ELSE "pop"
    <2>1. analytics \in [pc : {"pop", "check", "empty", "done"}, done : BOOLEAN]
      BY <1>0 DEF TypeOK
    <2> QED BY <1>1, <2>1
  <1>6. TypeOK'
    BY <1>0, <1>2, <1>5 DEF TypeOK
  <1>7. FramesInOrder' /\ FramesDrained'
    BY <1>0 DEF FramesInOrder, FramesDrained, HasFrame
  <1>8. TicksDrained'
    BY <1>0, <1>2, <1>3, <1>4, <1>5 DEF TicksDrained
  <1>9. TicksCounted'
    BY <1>0, <1>2 DEF TicksCounted
  <1> QED BY <1>6, <1>7, <1>8, <1>9 DEF Inv

(* Every step of every thread preserves the invariant. *)
LEMMA InvNext == Inv /\ [Next]_vars => Inv'
  <1> SUFFICES ASSUME Inv, [Next]_vars PROVE Inv'
    OBVIOUS
  <1>1. CASE Ingest
    BY <1>1, IngestStopInv, IngestSkipInv, IngestPushInv DEF Ingest
  <1>2. CASE Book
    BY <1>2, BookPopInv, BookMissInv, BookSeesDoneInv, BookSeesMoreInv, BookCheckEmptyInv,
       BookTickInv, BookTickedInv, BookFinishInv DEF Book
  <1>3. CASE Analytics
    BY <1>3, AnalyticsPopInv, AnalyticsMissInv, AnalyticsSeesDoneInv, AnalyticsSeesMoreInv,
       AnalyticsCheckEmptyInv DEF Analytics
  <1>4. CASE UNCHANGED vars
    BY <1>4 DEF vars, Inv, TypeOK, FramesInOrder, FramesDrained, HasFrame, TicksDrained,
       TicksCounted
  <1> QED BY <1>1, <1>2, <1>3, <1>4 DEF Next

(* The invariant holds in every state. *)
LEMMA Invariant == Spec => []Inv
  BY InvInit, InvNext, PTL DEF Spec

-----------------------------------------------------------------------------
(* The ingestion thread has framed what the single-threaded parser frames,  *)
(* or a part of it while it runs.                                          *)
LEMMA FramedIs ==
  ASSUME Inv
  PROVE  /\ Framed(capture) \in Seq(Cell)
         /\ IsPrefix(SubSeq(capture, 1, off), Framed(capture))
         /\ ~HasFrame => SubSeq(capture, 1, off) = Framed(capture)
  <1> DEFINE U == Unframed(capture)
             n == Len(capture)
             m == IF U = {} THEN n ELSE (CHOOSE i \in U : \A j \in U : i <= j) - 1
  <1>1. /\ capture \in Seq(Cell) /\ n \in Nat /\ off \in 0..n /\ DOMAIN capture = 1..n
        /\ \A i \in 1..off : capture[i].kind \notin {"undecodable", "partial"}
    BY Types DEF Inv, FramesInOrder
  <1>2. Framed(capture) = SubSeq(capture, 1, m)
    BY DEF Framed
  <1>3. U = {i \in 1..n : capture[i].kind \in {"undecodable", "partial"}}
    BY <1>1 DEF Unframed
  <1> HIDE DEF U
  <1>4. m \in 0..n /\ off <= m /\ (~HasFrame => off = m)
    <2>1. CASE U = {}
      <3>1. m = n
        BY <2>1
      <3>2. ~HasFrame => off = n
        BY <1>1, <1>3, <2>1 DEF HasFrame
      <3> HIDE DEF m, n
      <3> QED BY <1>1, <3>1, <3>2
    <2>2. CASE U # {}
      <3> DEFINE x == CHOOSE i \in U : \A j \in U : i <= j
      <3>1. U \subseteq Nat
        BY <1>3
      <3>2. \E i \in U : \A j \in U : i <= j
        BY <2>2, <3>1, LeastNatural
      <3>3. x \in U /\ \A j \in U : x <= j
        BY <3>2
      <3> HIDE DEF x
      <3>4. m = x - 1
        BY <2>2 DEF x
      <3>5. x \in 1..n /\ ~(x <= off)
        BY <1>1, <1>3, <3>3
      <3>6. ~HasFrame => off + 1 >= x
        BY <1>1, <1>3, <3>3, <3>5 DEF HasFrame
      <3> HIDE DEF n, m
      <3> QED BY <1>1, <3>4, <3>5, <3>6
    <2> QED BY <2>1, <2>2
  <1> HIDE DEF m, n
  <1> DEFINE a == SubSeq(capture, 1, off)
             b == SubSeq(capture, 1, m)
  <1>5. a \in Seq(Cell) /\ Len(a) = off /\ \A i \in 1..off : a[i] = capture[i]
    BY <1>1 DEF n
  <1>6. b \in Seq(Cell) /\ Len(b) = m /\ \A i \in 1..m : b[i] = capture[i]
    BY <1>1, <1>4 DEF n
  <1> HIDE DEF a, b
  <1>7. Len(a) <= Len(b) /\ \A i \in 1..Len(a) : a[i] = b[i]
    BY <1>1, <1>4, <1>5, <1>6
  <1>8. IsPrefix(a, b)
    BY <1>5, <1>6, <1>7, PrefixIs
  <1>9. ~HasFrame => a = b
    BY <1>4 DEF a, b
  <1> QED BY <1>2, <1>6, <1>8, <1>9 DEF a, b

(* What the book-update thread has applied, from the invariant. *)
LEMMA InvSame == Inv => SameAsSingleThreaded
  <1> SUFFICES ASSUME Inv PROVE SameAsSingleThreaded
    OBVIOUS
  <1> DEFINE cut == SubSeq(capture, 1, off)
             all == Framed(capture)
  <1>1. /\ consumed \in Seq(Cell) /\ frames \in Seq(Cell) /\ consumed \o frames \in Seq(Cell)
        /\ cut \in Seq(Cell)
    BY Types DEF Inv
  <1>2. all \in Seq(Cell) /\ IsPrefix(cut, all) /\ (~HasFrame => cut = all)
    BY FramedIs
  <1>3. Dispatched(consumed \o frames) = Dispatched(cut)
    BY DEF Inv, FramesInOrder
  <1> HIDE DEF cut, all
  <1>4. IsPrefix(Dispatched(consumed), Dispatched(all))
    <2>1. IsPrefix(Dispatched(consumed), Dispatched(cut))
      <3>1. IsPrefix(consumed, consumed \o frames)
        BY <1>1, PrefixOfConcat
      <3>2. IsPrefix(Dispatched(consumed), Dispatched(consumed \o frames))
        BY <1>1, <3>1, DispatchedPrefix
      <3> QED BY <1>3, <3>2
    <2>2. IsPrefix(Dispatched(cut), Dispatched(all))
      BY <1>1, <1>2, DispatchedPrefix
    <2>3. /\ Dispatched(consumed) \in Seq(Cell) /\ Dispatched(cut) \in Seq(Cell)
          /\ Dispatched(all) \in Seq(Cell)
      BY <1>1, <1>2, DispatchedType
    <2> QED BY <2>1, <2>2, <2>3, PrefixOfPrefix
  <1>5. ASSUME book_done
        PROVE  Dispatched(fingerprint) = Dispatched(all)
    <2>1. /\ book.done /\ frames = << >> /\ ingest_done /\ fingerprint = consumed /\ ~HasFrame
      BY <1>5 DEF Inv, FramesDrained
    <2>2. consumed \o << >> = consumed
      BY <1>1, ConcatEmptySeq
    <2>3. consumed \o frames = fingerprint
      BY <2>1, <2>2
    <2>4. cut = all
      BY <1>2, <2>1
    <2> QED BY <1>3, <2>3, <2>4
  <1> QED BY <1>4, <1>5 DEF SameAsSingleThreaded, all

(* The variables of the pipeline keep their types: no thread runs past the  *)
(* capture and no queue holds more than it can.                            *)
THEOREM PipelineTypes == Spec => []TypeOK
  BY Invariant, PTL DEF Inv

(* However the three threads interleave and however stale their views of    *)
(* the queues are, the book-update thread applies what the single-threaded *)
(* parser dispatches, in order, and all of it before it computes the       *)
(* fingerprint.                                                            *)
THEOREM AlwaysSameAsSingleThreaded == Spec => []SameAsSingleThreaded
  BY Invariant, InvSame, PTL

(* Every tick that emit_tick pushed is counted by the analytics thread      *)
(* before it ends, and last_tick_ is the last of them.                     *)
THEOREM TicksAlwaysDelivered == Spec => []TicksDelivered
  <1>1. Inv => TicksDelivered
    <2> SUFFICES ASSUME Inv PROVE TicksDelivered
      OBVIOUS
    <2>1. result.events + Len(ticks) = pushed.count
      BY DEF Inv, TicksCounted
    <2>2. ASSUME analytics.pc = "done"
          PROVE  /\ book.pc = "done"
                 /\ result = [events |-> pushed.count, last |-> pushed.last]
      <3>1. ticks = << >> /\ book.pc = "done"
        BY <2>2 DEF Inv, TicksDrained, FramesDrained
      <3>2. Len(ticks) = 0 /\ result.events \in Nat
        BY <3>1 DEF Inv, TypeOK
      <3>3. result.events = pushed.count /\ result.last = pushed.last
        BY <2>1, <3>1, <3>2 DEF Inv, TicksCounted
      <3>4. result = [events |-> result.events, last |-> result.last]
        BY DEF Inv, TicksCounted
      <3> QED BY <3>1, <3>3, <3>4
    <2> QED BY <2>1, <2>2 DEF TicksDelivered
  <1> QED BY <1>1, Invariant, PTL
==============================================================================
