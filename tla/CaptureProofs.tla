---------------------------- MODULE CaptureProofs ----------------------------
(***************************************************************************)
(* Proofs about capture files, for every number of messages, of sessions   *)
(* and of parts of a message: whatever reaches the disk and whenever the   *)
(* other process looks, a reader has what the writer produced up to some   *)
(* point, and a count it finds is right; and about the driver that replays *)
(* them: paced or not, it hands on what is new, in order.                  *)
(***************************************************************************)
EXTENDS Replay, DataLemmas, FiniteSetTheorems

-----------------------------------------------------------------------------
(* Cells and frames.                                                       *)

PartCell ==
  {Part(s, m, p) : s \in 1..MaxSessions, m \in 1..MaxMessages, p \in 1..Parts}

(* A header is no part of a message, and a cell is one of the two. *)
LEMMA CellKinds ==
  /\ PartCell \subseteq Cell
  /\ \A n \in 0..MaxMessages : Header(n) \in Cell /\ Header(n).kind = "header"
                               /\ Header(n).count = n
  /\ \A c \in PartCell : c.kind = "part"
  /\ \A c \in Cell : c.kind = "header" => c.count \in 0..MaxMessages
  <1>1. PartCell \subseteq Cell
    BY DEF PartCell, Cell
  <1>2. ASSUME NEW n \in 0..MaxMessages
        PROVE  Header(n) \in Cell /\ Header(n).kind = "header" /\ Header(n).count = n
    BY DEF Cell, Header
  <1>3. \A c \in PartCell : c.kind = "part"
    BY DEF PartCell, Part
  <1>4. ASSUME NEW c \in Cell, c.kind = "header" PROVE c.count \in 0..MaxMessages
    <2>1. c \notin PartCell
      BY <1>3, <1>4
    <2>2. PICK n \in 0..MaxMessages : c = Header(n)
      BY <2>1 DEF Cell, PartCell
    <2> QED BY <1>2, <2>2
  <1> QED BY <1>1, <1>2, <1>3, <1>4

(* The cells that write gives to fwrite: all of a message, or the first k. *)
LEMMA FrameShape ==
  ASSUME NEW s \in 1..MaxSessions, NEW m \in 1..MaxMessages
  PROVE  /\ Frame(s, m) \in Seq(PartCell) /\ Len(Frame(s, m)) = Parts
         /\ \A p \in 1..Parts : Frame(s, m)[p] = Part(s, m, p)
  <1>1. Parts \in Nat
    BY CaptureAssumption
  <1>2. \A p \in 1..Parts : Part(s, m, p) \in PartCell
    BY DEF PartCell
  <1> QED BY <1>1, <1>2 DEF Frame

(* What fwrite takes of a message that it does not take whole. *)
LEMMA ShortShape ==
  ASSUME NEW s \in 1..MaxSessions, NEW m \in 1..MaxMessages, NEW k \in 0..Parts
  PROVE  LET some == SubSeq(Frame(s, m), 1, k)
         IN  /\ some \in Seq(PartCell) /\ Len(some) = k
             /\ \A p \in 1..k : some[p] = Part(s, m, p)
  <1>0. Parts \in Nat
    BY CaptureAssumption
  <1>1. /\ Frame(s, m) \in Seq(PartCell) /\ Len(Frame(s, m)) = Parts
        /\ \A p \in 1..Parts : Frame(s, m)[p] = Part(s, m, p)
    BY FrameShape
  <1> DEFINE f == Frame(s, m)
  <1> HIDE DEF f
  <1>2. f \in Seq(PartCell) /\ Len(f) = Parts /\ \A p \in 1..Parts : f[p] = Part(s, m, p)
    BY <1>1 DEF f
  <1>3. /\ SubSeq(f, 1, k) \in Seq(PartCell) /\ Len(SubSeq(f, 1, k)) = k
        /\ \A p \in 1..k : SubSeq(f, 1, k)[p] = f[p]
    BY <1>0, <1>2
  <1>4. \A p \in 1..k : SubSeq(f, 1, k)[p] = Part(s, m, p)
    BY <1>0, <1>2, <1>3
  <1> QED BY <1>3, <1>4 DEF f

-----------------------------------------------------------------------------
(* The messages that are whole in a sequence of cells.                     *)

(* WholeMessages with the session as a parameter. *)
FrameAt(cells, s, m, i) ==
  /\ i + Parts <= Len(cells)
  /\ SubSeq(cells, i + 1, i + Parts) = Frame(s, m)
WholeOf(cells, s) ==
  {m \in 1..MaxMessages : \E i \in 0..Len(cells) : FrameAt(cells, s, m, i)}

(* A frame is at a place when each of its parts is. *)
LEMMA FrameAtIs ==
  ASSUME NEW cells \in Seq(PartCell), NEW s \in 1..MaxSessions,
         NEW m \in 1..MaxMessages, NEW i \in Nat, i + Parts <= Len(cells)
  PROVE  FrameAt(cells, s, m, i) <=> \A p \in 1..Parts : cells[i + p] = Part(s, m, p)
  <1>0. Parts \in Nat \ {0} /\ Len(cells) \in Nat
    BY CaptureAssumption
  <1> DEFINE g == SubSeq(cells, i + 1, i + Parts)
             f == Frame(s, m)
  <1>1. /\ f \in Seq(PartCell) /\ Len(f) = Parts
        /\ \A p \in 1..Parts : f[p] = Part(s, m, p)
    BY FrameShape
  <1>2. /\ g \in Seq(PartCell) /\ Len(g) = Parts
        /\ \A p \in 1..Parts : g[p] = cells[i + p]
    <2>1. \A j \in (i + 1)..(i + Parts) : cells[j] \in PartCell
      BY <1>0
    <2>2. /\ g \in Seq(PartCell)
          /\ Len(g) = IF i + 1 <= i + Parts THEN i + Parts - (i + 1) + 1 ELSE 0
          /\ \A j \in 1..(i + Parts - (i + 1) + 1) : g[j] = cells[i + 1 + j - 1]
      BY <1>0, <2>1, SubSeqProperties
    <2> HIDE DEF g
    <2>3. i + Parts - (i + 1) + 1 = Parts /\ i + 1 <= i + Parts
      BY <1>0
    <2>4. ASSUME NEW p \in 1..Parts PROVE g[p] = cells[i + p]
      <3>1. i + 1 + p - 1 = i + p
        BY <1>0
      <3> QED BY <2>2, <2>3, <3>1
    <2> QED BY <2>2, <2>3, <2>4
  <1> HIDE DEF g, f
  <1>3. g = f <=> \A p \in 1..Parts : cells[i + p] = Part(s, m, p)
    <2>1. ASSUME \A p \in 1..Parts : cells[i + p] = Part(s, m, p) PROVE g = f
      BY <1>1, <1>2, <2>1, SeqEqual
    <2> QED BY <1>1, <1>2, <2>1
  <1> QED BY <1>3 DEF FrameAt, g, f

(* Cells of messages before n; the first k parts of message n. *)
Earlier(cells, n) == \A i \in 1..Len(cells) : cells[i].message < n
PartsOf(more, s, n, k) == Len(more) = k /\ \A p \in 1..k : more[p] = Part(s, n, p)

(* Cells of message n, of which the last is part k, follow cells of earlier *)
(* messages.  Then only n may have become whole, namely when k is Parts.   *)
LEMMA WholeAfter ==
  ASSUME NEW s \in 1..MaxSessions, NEW n \in 1..MaxMessages, NEW k \in 0..Parts,
         NEW cells \in Seq(PartCell), NEW more \in Seq(PartCell),
         Earlier(cells, n), PartsOf(more, s, n, k)
  PROVE  /\ n \notin WholeOf(cells, s)
         /\ k < Parts => WholeOf(cells \o more, s) = WholeOf(cells, s)
         /\ k = Parts => WholeOf(cells \o more, s) = WholeOf(cells, s) \cup {n}
  <1>0. Parts \in Nat \ {0} /\ Len(cells) \in Nat /\ MaxMessages \in Nat
    BY CaptureAssumption
  <1>h. Len(more) = k /\ \A p \in 1..k : more[p] = Part(s, n, p)
    BY DEF PartsOf
  <1>e. \A i \in 1..Len(cells) : cells[i].message < n
    BY DEF Earlier
  <1> DEFINE all == cells \o more
             l == Len(cells)
  <1>1. /\ all \in Seq(PartCell) /\ Len(all) = l + k
        /\ \A i \in 1..l : all[i] = cells[i]
        /\ \A p \in 1..k : all[l + p] = more[p]
    <2>1. /\ all \in Seq(PartCell) /\ Len(all) = Len(cells) + Len(more)
          /\ \A i \in 1..(Len(cells) + Len(more)) :
               all[i] = IF i <= Len(cells) THEN cells[i] ELSE more[i - Len(cells)]
      BY ConcatProperties
    <2> HIDE DEF all
    <2>2. \A i \in 1..l : all[i] = cells[i]
      BY <1>0, <2>1
    <2>3. ASSUME NEW p \in 1..k PROVE all[l + p] = more[p]
      <3>1. l + p \in 1..(Len(cells) + Len(more)) /\ ~(l + p <= Len(cells)) /\ l + p - Len(cells) = p
        BY <1>0, <1>h
      <3> QED BY <2>1, <3>1
    <2> QED BY <1>h, <2>1, <2>2, <2>3
  <1> HIDE DEF all
  <1>2. n \notin WholeOf(cells, s)
    <2> SUFFICES ASSUME NEW i \in 0..Len(cells), FrameAt(cells, s, n, i)
                 PROVE  FALSE
      BY DEF WholeOf
    <2>1. i + Parts <= Len(cells)
      BY DEF FrameAt
    <2>2. cells[i + 1] = Part(s, n, 1)
      BY <1>0, <2>1, FrameAtIs
    <2>3. i + 1 \in 1..Len(cells)
      BY <1>0, <2>1
    <2>4. cells[i + 1].message < n
      BY <1>e, <2>3
    <2>5. cells[i + 1].message = n
      BY <2>2 DEF Part
    <2> QED BY <1>0, <2>4, <2>5
  <1>3. ASSUME NEW m \in 1..MaxMessages, NEW i \in 0..Len(cells), FrameAt(cells, s, m, i)
        PROVE  i \in 0..Len(all) /\ FrameAt(all, s, m, i)
    <2>1. i + Parts <= Len(cells)
      BY <1>3 DEF FrameAt
    <2>2. \A p \in 1..Parts : cells[i + p] = Part(s, m, p)
      BY <1>0, <1>3, <2>1, FrameAtIs
    <2>3. ASSUME NEW p \in 1..Parts PROVE all[i + p] = cells[i + p]
      <3>1. i + p \in 1..l
        BY <1>0, <2>1
      <3> QED BY <1>1, <3>1
    <2>4. i \in Nat /\ i + Parts <= Len(all) /\ i \in 0..Len(all)
      BY <1>0, <1>1, <2>1
    <2>5. \A p \in 1..Parts : all[i + p] = Part(s, m, p)
      BY <2>2, <2>3
    <2> QED BY <1>1, <2>4, <2>5, FrameAtIs
  <1>4. ASSUME NEW m \in 1..MaxMessages, NEW i \in 0..Len(all), FrameAt(all, s, m, i)
        PROVE  \/ i \in 0..Len(cells) /\ FrameAt(cells, s, m, i)
               \/ m = n /\ k = Parts
    <2>1. i + Parts <= Len(all) /\ i \in Nat
      BY <1>4 DEF FrameAt
    <2>2. \A p \in 1..Parts : all[i + p] = Part(s, m, p)
      BY <1>1, <1>4, <2>1, FrameAtIs
    <2>3. CASE i + Parts <= l
      <3>1. ASSUME NEW p \in 1..Parts PROVE cells[i + p] = Part(s, m, p)
        <4>1. i + p \in 1..l
          BY <1>0, <2>1, <2>3
        <4>2. all[i + p] = cells[i + p]
          BY <1>1, <4>1
        <4> QED BY <2>2, <4>2
      <3>2. i \in 0..Len(cells)
        BY <1>0, <2>1, <2>3
      <3> QED BY <2>1, <2>3, <3>1, <3>2, FrameAtIs
    <2>4. CASE i + Parts > l
      <3> DEFINE q == i + Parts - l
      <3>1. q \in 1..k /\ l + q = i + Parts
        BY <1>0, <1>1, <2>1, <2>4
      <3>2. all[i + Parts] = Part(s, n, q)
        BY <1>1, <1>h, <3>1
      <3>3. all[i + Parts] = Part(s, m, Parts) /\ Parts \in 1..Parts /\ q \in 1..Parts
        BY <1>0, <2>2, <3>1
      <3>4. m = n /\ q = Parts
        BY <3>2, <3>3 DEF Part
      <3> QED BY <1>0, <3>1, <3>4
    <2> QED BY <1>0, <2>1, <2>3, <2>4
  <1>5. ASSUME k = Parts PROVE n \in WholeOf(all, s)
    <2>1. l + Parts <= Len(all) /\ l \in Nat /\ l \in 0..Len(all)
      BY <1>0, <1>1, <1>5
    <2>2. \A p \in 1..Parts : all[l + p] = Part(s, n, p)
      BY <1>1, <1>5, <1>h
    <2>3. FrameAt(all, s, n, l)
      BY <1>1, <2>1, <2>2, FrameAtIs
    <2> QED BY <2>1, <2>3 DEF WholeOf
  <1>6. WholeOf(cells, s) \subseteq WholeOf(all, s)
    BY <1>3 DEF WholeOf
  <1>7. \A m \in WholeOf(all, s) : m \in WholeOf(cells, s) \/ (m = n /\ k = Parts)
    BY <1>4 DEF WholeOf
  <1>8. ASSUME k < Parts PROVE WholeOf(all, s) = WholeOf(cells, s)
    <2>1. k # Parts
      BY <1>0, <1>8
    <2> QED BY <1>6, <1>7, <2>1
  <1>9. ASSUME k = Parts PROVE WholeOf(all, s) = WholeOf(cells, s) \cup {n}
    BY <1>5, <1>6, <1>7, <1>9
  <1> QED BY <1>2, <1>8, <1>9 DEF all

-----------------------------------------------------------------------------
(* What the file holds: a header, and the cells that fwrite took.          *)

Stream(c, t) == <<Header(c)>> \o t

(* A header and the cells behind it. *)
LEMMA StreamShape ==
  ASSUME NEW c \in 0..MaxMessages, NEW t \in Seq(PartCell)
  PROVE  /\ Stream(c, t) \in Seq(Cell) /\ Len(Stream(c, t)) = Len(t) + 1
         /\ Stream(c, t)[1] = Header(c)
         /\ \A i \in 1..Len(t) : Stream(c, t)[i + 1] = t[i]
         /\ Tail(Stream(c, t)) = t
  <1>1. <<Header(c)>> \in Seq(Cell) /\ Len(<<Header(c)>>) = 1 /\ <<Header(c)>>[1] = Header(c)
    BY CellKinds
  <1>2. t \in Seq(Cell) /\ Len(t) \in Nat
    BY CellKinds
  <1> DEFINE h == <<Header(c)>>
             u == h \o t
  <1> HIDE DEF h
  <1>3. /\ u \in Seq(Cell) /\ Len(u) = Len(t) + 1 /\ u[1] = Header(c)
        /\ \A i \in 1..Len(t) : u[i + 1] = t[i]
    <2>1. h \in Seq(Cell) /\ Len(h) = 1 /\ h[1] = Header(c)
      BY <1>1 DEF h
    <2>2a. /\ u \in Seq(Cell) /\ Len(u) = Len(h) + Len(t)
           /\ \A i \in 1..(Len(h) + Len(t)) : u[i] = IF i <= Len(h) THEN h[i] ELSE t[i - Len(h)]
      BY <1>2, <2>1, ConcatProperties, Zenon
    <2>2. /\ u \in Seq(Cell) /\ Len(u) = 1 + Len(t)
          /\ \A i \in 1..(1 + Len(t)) : u[i] = IF i <= 1 THEN h[i] ELSE t[i - 1]
      BY <2>1, <2>2a
    <2> HIDE DEF u
    <2>3. ASSUME NEW i \in 1..Len(t) PROVE u[i + 1] = t[i]
      <3>1. i + 1 \in 1..(1 + Len(t)) /\ ~(i + 1 <= 1) /\ i + 1 - 1 = i
        BY <1>2
      <3> QED BY <2>2, <3>1
    <2>4. u[1] = Header(c)
      BY <1>2, <2>1, <2>2
    <2> QED BY <1>2, <2>2, <2>3, <2>4
  <1> HIDE DEF u
  <1>4. Tail(u) = t
    <2>1. u # << >>
      BY <1>2, <1>3
    <2>2. /\ Tail(u) \in Seq(Cell) /\ Len(Tail(u)) = Len(t)
          /\ \A i \in 1..Len(Tail(u)) : Tail(u)[i] = u[i + 1]
      BY <1>2, <1>3, <2>1, HeadTailProperties
    <2> QED BY <1>2, <1>3, <2>2, SeqEqual
  <1>5. Stream(c, t) = u
    BY DEF Stream, u, h
  <1> QED BY <1>3, <1>4, <1>5

(* The file, the buffer and what fwrite takes, in one or the other order. *)
LEMMA Regroup ==
  ASSUME NEW d \in Seq(Cell), NEW b \in Seq(Cell), NEW f \in Seq(Cell)
  PROVE  (d \o b) \o f = d \o (b \o f) /\ b \o f \in Seq(Cell)
  <1>1. d \in Seq(Cell) /\ b \in Seq(Cell) /\ f \in Seq(Cell)
    OBVIOUS
  <1> QED BY <1>1, ConcatAssociative, ConcatProperties

(* File and buffer together are the stream. *)
Joined(d, b, t) == d \o b = Stream(0, t)

(* What fwrite takes goes to the end of file and buffer. *)
LEMMA StreamExtends ==
  ASSUME NEW d \in Seq(Cell), NEW b \in Seq(Cell), NEW t \in Seq(PartCell),
         NEW f \in Seq(PartCell)
  PROVE  /\ b \o f \in Seq(Cell) /\ t \o f \in Seq(PartCell)
         /\ Joined(d, b, t) => Joined(d, b \o f, t \o f)
  <1>1. f \in Seq(Cell) /\ t \in Seq(Cell) /\ <<Header(0)>> \in Seq(Cell)
    BY CellKinds, CaptureAssumption
  <1>2. (d \o b) \o f = d \o (b \o f) /\ b \o f \in Seq(Cell)
    BY <1>1, Regroup, SMTT(30)
  <1>3. (<<Header(0)>> \o t) \o f = <<Header(0)>> \o (t \o f)
    BY <1>1, Regroup
  <1>4. t \o f \in Seq(PartCell)
    BY ConcatProperties
  <1>5. ASSUME Joined(d, b, t) PROVE Joined(d, b \o f, t \o f)
    BY <1>2, <1>3, <1>5 DEF Joined, Stream
  <1> QED BY <1>2, <1>4, <1>5

(* Some of the buffer reaches the file. *)
LEMMA StreamFlushed ==
  ASSUME NEW d \in Seq(Cell), NEW b \in Seq(Cell), NEW k \in 0..Len(b)
  PROVE  LET out == d \o SubSeq(b, 1, k)
             rest == SubSeq(b, k + 1, Len(b))
         IN  /\ out \in Seq(Cell) /\ rest \in Seq(Cell)
             /\ out \o rest = d \o b
             /\ IsPrefix(out, d \o b)
  <1> DEFINE b1 == SubSeq(b, 1, k)
             b2 == SubSeq(b, k + 1, Len(b))
  <1>0. Len(b) \in Nat /\ 1 \in 1..(Len(b) + 1) /\ k \in (1 - 1)..Len(b)
        /\ Len(b) \in k..Len(b)
    OBVIOUS
  <1>1. d \in Seq(Cell) /\ b1 \in Seq(Cell) /\ b2 \in Seq(Cell)
    OBVIOUS
  <1>2. b1 \o b2 = b
    BY <1>0, ConcatAdjacentSubSeq, SubSeqFull
  <1> HIDE DEF b1, b2
  <1>3. (d \o b1) \o b2 = d \o b
    <2>1. (d \o b1) \o b2 = d \o (b1 \o b2)
      BY <1>1, ConcatAssociative, SMTT(30)
    <2> QED BY <1>2, <2>1
  <1>4. d \o b1 \in Seq(Cell)
    BY <1>1, ConcatProperties
  <1>5. IsPrefix(d \o b1, d \o b)
    <2>1. IsPrefix(d \o b1, (d \o b1) \o b2)
      BY <1>1, <1>4, PrefixOfConcat
    <2> QED BY <1>3, <2>1
  <1> QED BY <1>1, <1>3, <1>4, <1>5 DEF b1, b2

(* A file of cells has its header, if any, in the first place only. *)
FileShape(d) ==
  /\ \A i \in DOMAIN d : d[i].kind = "part" => i > 1
  /\ \A i \in DOMAIN d : d[i].kind = "header" => i = 1

(* What a reader finds in a file that is a beginning of the stream. *)
LEMMA StreamRead ==
  ASSUME NEW c \in 0..MaxMessages, NEW t \in Seq(PartCell), NEW d \in Seq(Cell),
         IsPrefix(d, Stream(c, t))
  PROVE  /\ FileShape(d)
         /\ d # << >> => /\ d[1] = Header(c) /\ Tail(d) \in Seq(PartCell)
                         /\ IsPrefix(Tail(d), t)
         /\ d = Stream(c, t) => Tail(d) = t
  <1> DEFINE u == Stream(c, t)
  <1>1. /\ u \in Seq(Cell) /\ Len(u) = Len(t) + 1 /\ u[1] = Header(c)
        /\ \A i \in 1..Len(t) : u[i + 1] = t[i]
        /\ Tail(u) = t
    BY StreamShape
  <1>2. Len(d) <= Len(u) /\ \A i \in 1..Len(d) : d[i] = u[i]
    BY <1>1, PrefixIs
  <1> HIDE DEF u
  <1>3. Len(d) \in Nat /\ Len(t) \in Nat /\ DOMAIN d = 1..Len(d)
        /\ \A i \in 1..Len(t) : t[i] \in PartCell
    OBVIOUS
  <1>4. ASSUME NEW i \in 1..Len(d), i > 1
        PROVE  d[i] \in PartCell /\ d[i] = t[i - 1] /\ i - 1 \in 1..Len(t)
    <2>1. i - 1 \in 1..Len(t) /\ i - 1 + 1 = i
      BY <1>1, <1>2, <1>3, <1>4
    <2>2. d[i] = u[i]
      BY <1>2
    <2>3. u[i - 1 + 1] = t[i - 1]
      BY <1>1, <2>1
    <2> QED BY <1>3, <2>1, <2>2, <2>3
  <1>5. d # << >> => 1 \in 1..Len(d) /\ d[1] = Header(c)
    <2>1. d # << >> => 1 \in 1..Len(d)
      BY <1>3, EmptySeq
    <2> QED BY <1>1, <1>2, <2>1
  <1>6. FileShape(d)
    <2>1. ASSUME NEW i \in 1..Len(d), d[i].kind = "part" PROVE i > 1
      <3>1. i = 1 => d[i].kind = "header"
        BY <1>1, <1>2, CellKinds
      <3> QED BY <1>3, <2>1, <3>1
    <2>2. ASSUME NEW i \in 1..Len(d), d[i].kind = "header" PROVE i = 1
      <3>1. i > 1 => d[i].kind = "part"
        BY <1>4, CellKinds
      <3> QED BY <1>3, <2>2, <3>1
    <2> QED BY <1>3, <2>1, <2>2 DEF FileShape
  <1>7. ASSUME d # << >> PROVE Tail(d) \in Seq(PartCell) /\ IsPrefix(Tail(d), t)
    <2> DEFINE r == Tail(d)
    <2>1. /\ r \in Seq(Cell) /\ Len(r) = Len(d) - 1
          /\ \A i \in 1..Len(r) : r[i] = d[i + 1]
      BY <1>7, HeadTailProperties
    <2> HIDE DEF r
    <2>2. ASSUME NEW i \in 1..Len(r) PROVE r[i] = t[i] /\ r[i] \in PartCell
      <3>1. i + 1 \in 1..Len(d) /\ i + 1 > 1 /\ i + 1 - 1 = i
        BY <1>3, <2>1
      <3>2. d[i + 1] = t[i + 1 - 1] /\ d[i + 1] \in PartCell
        BY <1>4, <3>1
      <3> QED BY <2>1, <3>1, <3>2
    <2>3. r \in Seq(PartCell)
      <3>1. Len(r) \in Nat /\ r \in [1..Len(r) -> Cell]
        BY <2>1
      <3>2. r \in [1..Len(r) -> PartCell]
        BY <2>2, <3>1
      <3> QED BY <3>1, <3>2
    <2>4. Len(r) <= Len(t)
      BY <1>1, <1>2, <1>3, <2>1
    <2>5. IsPrefix(r, t)
      BY <2>2, <2>3, <2>4, PrefixIs
    <2> QED BY <2>3, <2>5 DEF r
  <1> QED BY <1>1, <1>5, <1>6, <1>7 DEF u

-----------------------------------------------------------------------------
(* The inductive invariant.                                                *)

WriterTypes ==
  /\ state \in {"new", "open", "closed", "failed", "crashed"}
  /\ session \in 0..MaxSessions /\ offered \in 0..MaxMessages /\ count \in 0..offered
  /\ buffer \in Seq(Cell) /\ taken \in Seq(PartCell)
  /\ state # "new" => session > 0

ReaderTypes ==
  reader \in [busy : BOOLEAN, valid : BOOLEAN, count : 0..MaxMessages,
              bytes : Seq(Cell), headerOf : 0..MaxSessions, bytesOf : 0..MaxSessions]

(* Every cell that fwrite took belongs to a message that was offered. *)
CellsOffered == \A i \in 1..Len(taken) : taken[i].message <= offered

(* The count that the header has on disk, once it is there. *)
HeaderNow == IF state = "closed" THEN count ELSE 0

(* The file is a beginning of the stream, and the buffer the rest of it     *)
(* while the writer is open.                                               *)
FileIs ==
  /\ state = "new" => disk \in {<< >>, <<Foreign>>} /\ taken = << >>
  /\ state # "new" => disk \in Seq(Cell) /\ IsPrefix(disk, Stream(HeaderNow, taken))
  /\ state = "open" => Joined(disk, buffer, taken)
  /\ state = "closed" => disk = Stream(count, taken)

(* count_ is the number of messages that fwrite took whole; a crash loses   *)
(* count_ with the process.                                                *)
Counted == state # "crashed" => Cardinality(WholeOf(taken, session)) = count

(* A reader never has what is yet to come, and a count other than 0 it has  *)
(* from a file that was closed before it went on to the messages.          *)
ReaderSees ==
  /\ reader.headerOf <= session /\ reader.bytesOf <= session
  /\ reader.valid /\ reader.bytesOf = session => IsPrefix(reader.bytes, taken)
  /\ reader.headerOf = session /\ reader.count # 0 =>
       state = "closed" /\ reader.count = count
  /\ reader.valid /\ reader.count # 0 /\ reader.headerOf = session
       /\ reader.bytesOf = session => reader.bytes = taken

Inv == WriterTypes /\ ReaderTypes /\ CellsOffered /\ FileIs /\ Counted /\ ReaderSees

(* The cells of a capture, and its files, in the terms of TypeOK. *)
LEMMA InvTypes == Inv => TypeOK
  <1> SUFFICES ASSUME Inv PROVE TypeOK
    OBVIOUS
  <1>1. taken \in Seq(PartCell) /\ taken \in Seq(Cell)
    BY CellKinds DEF Inv, WriterTypes
  <1>2. CASE state = "new"
    <2>1. disk = << >> \/ disk = <<Foreign>>
      BY <1>2 DEF Inv, FileIs
    <2>2. \A i \in DOMAIN disk : disk[i].kind = "foreign"
      BY <2>1 DEF Foreign
    <2> QED BY <1>1, <2>1, <2>2 DEF Inv, WriterTypes, ReaderTypes, TypeOK
  <1>3. CASE state # "new"
    <2>1. disk \in Seq(Cell) /\ IsPrefix(disk, Stream(HeaderNow, taken))
      BY <1>3 DEF Inv, FileIs
    <2>2. HeaderNow \in 0..MaxMessages
      BY CaptureAssumption DEF Inv, WriterTypes, HeaderNow
    <2>3. FileShape(disk)
      BY <1>1, <2>1, <2>2, StreamRead
    <2> QED BY <1>1, <2>1, <2>3 DEF Inv, WriterTypes, ReaderTypes, TypeOK, FileShape
  <1> QED BY <1>2, <1>3

(* No message is whole where there is no cell. *)
LEMMA NoneWhole ==
  ASSUME NEW s
  PROVE  WholeOf(<< >>, s) = {} /\ Cardinality(WholeOf(<< >>, s)) = 0
  <1>1. WholeOf(<< >>, s) = {}
    BY CaptureAssumption DEF WholeOf, FrameAt
  <1> QED BY <1>1, FS_EmptySet

(* A writer that has not opened a file, and a reader that has read none. *)
LEMMA InitInv == Init => Inv
  <1> SUFFICES ASSUME Init PROVE Inv
    OBVIOUS
  <1>1. WriterTypes /\ ReaderTypes
    BY CaptureAssumption DEF Init, WriterTypes, ReaderTypes
  <1>2. CellsOffered /\ FileIs
    BY DEF Init, CellsOffered, FileIs
  <1>3. Counted
    BY NoneWhole DEF Init, Counted
  <1>4. ReaderSees
    BY DEF Init, ReaderSees
  <1> QED BY <1>1, <1>2, <1>3, <1>4 DEF Inv

(* What the reader has stays right while the writer goes on with the file. *)
LEMMA WriterKeepsReader ==
  ASSUME Inv, state = "open", UNCHANGED <<session, reader>>,
         taken' \in Seq(PartCell), IsPrefix(taken, taken')
  PROVE  ReaderTypes' /\ ReaderSees'
  <1>1. ReaderTypes'
    BY DEF Inv, ReaderTypes
  <1>2. taken \in Seq(Cell) /\ taken' \in Seq(Cell) /\ reader.bytes \in Seq(Cell)
    BY CellKinds DEF Inv, WriterTypes, ReaderTypes
  <1>3. reader.valid /\ reader.bytesOf = session => IsPrefix(reader.bytes, taken')
    <2>1. reader.valid /\ reader.bytesOf = session => IsPrefix(reader.bytes, taken)
      BY DEF Inv, ReaderSees
    <2> QED BY <1>2, <2>1, PrefixOfPrefix
  <1>4. /\ reader.headerOf <= session /\ reader.bytesOf <= session
        /\ ~(reader.headerOf = session /\ reader.count # 0)
    BY DEF Inv, ReaderSees
  <1> QED BY <1>1, <1>3, <1>4 DEF ReaderSees

(* CaptureWriter::open. *)
LEMMA OpenInv == Inv /\ Open => Inv'
  <1> SUFFICES ASSUME Inv, Open PROVE Inv'
    OBVIOUS
  <1> USE CaptureAssumption
  <1>1. /\ session < MaxSessions /\ disk' = << >> /\ buffer' = <<Header(0)>>
        /\ state' = "open" /\ session' = session + 1 /\ count' = 0
        /\ offered' = 0 /\ taken' = << >> /\ reader' = reader
    BY DEF Open, OpenedFile, OpenedCount
  <1>2. WriterTypes'
    <2>1. <<Header(0)>> \in Seq(Cell)
      BY CellKinds
    <2> QED BY <1>1, <2>1 DEF Inv, WriterTypes
  <1>3. CellsOffered' /\ Counted'
    BY <1>1, NoneWhole DEF CellsOffered, Counted
  <1>4. FileIs'
    <2>2. <<Header(0)>> \in Seq(Cell)
      BY CellKinds
    <2>3. << >> \o <<Header(0)>> = <<Header(0)>> /\ <<Header(0)>> \o << >> = <<Header(0)>>
      BY <2>2, ConcatEmptySeq
    <2>4. IsPrefix(<< >>, <<Header(0)>>)
      BY <2>2, EmptyIsPrefix
    <2>5. Joined(disk', buffer', taken')
      BY <1>1, <2>3 DEF Stream, Joined
    <2>6. HeaderNow' = 0
      BY <1>1 DEF HeaderNow
    <2>7. disk' \in Seq(Cell) /\ IsPrefix(disk', Stream(HeaderNow', taken'))
      BY <1>1, <2>3, <2>4, <2>6 DEF Stream
    <2> QED BY <1>1, <2>5, <2>7 DEF FileIs
  <1>5. ReaderTypes' /\ ReaderSees'
    <2>1. reader.headerOf \in Nat /\ reader.bytesOf \in Nat /\ session \in Nat
      BY DEF Inv, ReaderTypes, WriterTypes
    <2>2. reader.headerOf <= session /\ reader.bytesOf <= session
      BY DEF Inv, ReaderSees
    <2>3. reader.headerOf < session + 1 /\ reader.bytesOf < session + 1
      BY <2>1, <2>2
    <2>4. ReaderTypes'
      BY <1>1 DEF Inv, ReaderTypes
    <2> QED BY <1>1, <2>1, <2>3, <2>4 DEF ReaderSees
  <1> QED BY <1>2, <1>3, <1>4, <1>5 DEF Inv

(* CaptureWriter::write, whole or short: fwrite takes the first k cells. *)
Takes(k, some) ==
  /\ state = "open" /\ offered < MaxMessages
  /\ offered' = offered + 1
  /\ buffer' = buffer \o some /\ taken' = taken \o some
  /\ count' = IF k = Parts THEN count + 1 ELSE count
  /\ UNCHANGED <<disk, state, session, reader>>

(* Only a message that is taken whole is counted. *)
LEMMA TakeInv ==
  ASSUME Inv, NEW k \in 0..Parts, NEW some \in Seq(PartCell),
         PartsOf(some, session, offered + 1, k),
         Takes(k, some)
  PROVE  Inv'
  <1> USE CaptureAssumption
  <1>0. /\ session \in 1..MaxSessions /\ offered + 1 \in 1..MaxMessages
        /\ offered \in 0..MaxMessages /\ count \in 0..offered
        /\ buffer \in Seq(Cell) /\ taken \in Seq(PartCell)
    BY DEF Inv, WriterTypes, Takes
  <1>1. /\ some \in Seq(PartCell) /\ Len(some) = k
        /\ \A p \in 1..k : some[p] = Part(session, offered + 1, p)
    BY DEF PartsOf
  <1>2. disk \in Seq(Cell) /\ Joined(disk, buffer, taken)
    BY DEF Inv, FileIs, Takes
  <1>3. /\ buffer' \in Seq(Cell) /\ taken' \in Seq(PartCell)
        /\ Joined(disk, buffer', taken')
    <2>1. /\ buffer \o some \in Seq(Cell) /\ taken \o some \in Seq(PartCell)
          /\ Joined(disk, buffer \o some, taken \o some)
      BY <1>0, <1>2, StreamExtends
    <2> QED BY <2>1 DEF Takes
  <1>4. WriterTypes'
    BY <1>0, <1>3 DEF Inv, WriterTypes, Takes
  <1>k. taken' = taken \o some /\ offered' = offered + 1 /\ state' = "open"
        /\ session' = session /\ reader' = reader /\ state = "open" /\ disk' = disk
    BY DEF Takes
  <1>5. CellsOffered'
    <2>1. \A i \in 1..Len(taken) : taken[i].message <= offered
      BY DEF Inv, CellsOffered
    <2>2. ASSUME NEW i \in 1..Len(taken') PROVE taken'[i].message <= offered + 1
      <3>1. /\ Len(taken \o some) = Len(taken) + Len(some)
            /\ \A j \in 1..(Len(taken) + Len(some)) :
                 (taken \o some)[j] = IF j <= Len(taken) THEN taken[j] ELSE some[j - Len(taken)]
        BY <1>0, <1>1, ConcatProperties
      <3>2. Len(taken) \in Nat /\ i \in 1..(Len(taken) + k)
        BY <1>0, <1>1, <1>k, <3>1
      <3>3. CASE i <= Len(taken)
        <4>1. taken'[i] = taken[i] /\ i \in 1..Len(taken)
          BY <1>1, <1>k, <3>1, <3>2, <3>3
        <4>2. taken[i].message <= offered
          BY <2>1, <4>1
        <4>3. taken[i].message \in Nat
          <5>1. taken[i] \in PartCell
            BY <1>0, <4>1
          <5> QED BY <5>1 DEF PartCell, Part
        <4> QED BY <1>0, <4>1, <4>2, <4>3
      <3>4. CASE ~(i <= Len(taken))
        <4>1. taken'[i] = some[i - Len(taken)] /\ i - Len(taken) \in 1..k
          BY <1>1, <1>k, <3>1, <3>2, <3>4
        <4>2. taken'[i] = Part(session, offered + 1, i - Len(taken))
          BY <1>1, <4>1
        <4> QED BY <1>0, <4>2 DEF Part
      <3> QED BY <3>3, <3>4
    <2> QED BY <1>k, <2>2 DEF CellsOffered
  <1>6. FileIs'
    <2>1. IsPrefix(disk, disk \o buffer')
      BY <1>2, <1>3, PrefixOfConcat
    <2>2. HeaderNow' = 0
      BY <1>k DEF HeaderNow
    <2>3. IsPrefix(disk', Stream(HeaderNow', taken'))
      BY <1>3, <1>k, <2>1, <2>2 DEF Joined
    <2> QED BY <1>2, <1>3, <1>k, <2>3 DEF FileIs
  <1>7. Counted'
    <2>1. Earlier(taken, offered + 1)
      <3>1. ASSUME NEW i \in 1..Len(taken) PROVE taken[i].message < offered + 1
        <4>1. taken[i] \in PartCell
          BY <1>0
        <4>2. taken[i].message \in Nat
          BY <4>1 DEF PartCell, Part
        <4>3. taken[i].message <= offered
          BY DEF Inv, CellsOffered
        <4> QED BY <1>0, <4>2, <4>3
      <3> QED BY <3>1 DEF Earlier
    <2>2. /\ offered + 1 \notin WholeOf(taken, session)
          /\ k < Parts => WholeOf(taken \o some, session) = WholeOf(taken, session)
          /\ k = Parts => WholeOf(taken \o some, session)
                            = WholeOf(taken, session) \cup {offered + 1}
      BY <1>0, <1>1, <2>1, WholeAfter
    <2>3. Cardinality(WholeOf(taken, session)) = count
      BY <1>k DEF Inv, Counted
    <2>4. IsFiniteSet(WholeOf(taken, session))
      <3>1. WholeOf(taken, session) \in SUBSET (1..MaxMessages)
        BY DEF WholeOf
      <3>2. IsFiniteSet(1..MaxMessages)
        BY FS_Interval
      <3> QED BY <3>1, <3>2, FS_Subset
    <2>5. Cardinality(WholeOf(taken \o some, session)) = count'
      <3>1. CASE k = Parts
        BY <2>2, <2>3, <2>4, <3>1, FS_AddElement DEF Takes
      <3>2. CASE k # Parts
        <4>1. k < Parts
          BY <3>2
        <4> QED BY <2>2, <2>3, <3>2, <4>1 DEF Takes
      <3> QED BY <3>1, <3>2
    <2> QED BY <1>k, <2>5 DEF Counted
  <1>8. ReaderTypes' /\ ReaderSees'
    <2>1. IsPrefix(taken, taken')
      BY <1>0, <1>1, <1>k, PrefixOfConcat
    <2> QED BY <1>3, <1>k, <2>1, WriterKeepsReader
  <1> QED BY <1>4, <1>5, <1>6, <1>7, <1>8 DEF Inv

(* write of a message that fwrite takes the first k cells of. *)
WriteTakes(k) ==
  /\ k \in 0..Parts
  /\ \E some \in Seq(PartCell) : PartsOf(some, session, offered + 1, k) /\ Takes(k, some)

(* A whole message is the case of all its cells. *)
LEMMA WriteIsTake == Inv /\ Write => WriteTakes(Parts)
  <1> SUFFICES ASSUME Inv, Write PROVE WriteTakes(Parts)
    OBVIOUS
  <1> USE CaptureAssumption
  <1> DEFINE some == Frame(session, offered + 1)
  <1>1. session \in 1..MaxSessions /\ offered + 1 \in 1..MaxMessages
    BY DEF Inv, WriterTypes, Write
  <1>2. /\ some \in Seq(PartCell) /\ Len(some) = Parts
        /\ \A p \in 1..Parts : some[p] = Part(session, offered + 1, p)
    BY <1>1, FrameShape
  <1>3. Takes(Parts, some)
    BY DEF Write, Takes
  <1> HIDE DEF some
  <1>4. PartsOf(some, session, offered + 1, Parts) /\ Parts \in 0..Parts
    BY <1>2 DEF PartsOf
  <1> QED BY <1>2, <1>3, <1>4 DEF WriteTakes

(* A short one leaves its first cells, and is not counted. *)
LEMMA ShortIsTake ==
  ASSUME Inv, NEW k \in 0..(Parts - 1), WriteShort(k)
  PROVE  WriteTakes(k)
  <1> USE CaptureAssumption
  <1> DEFINE some == SubSeq(Frame(session, offered + 1), 1, k)
  <1>1. session \in 1..MaxSessions /\ offered + 1 \in 1..MaxMessages
        /\ k \in 0..Parts /\ k # Parts
    BY DEF Inv, WriterTypes, WriteShort
  <1>2. /\ some \in Seq(PartCell) /\ Len(some) = k
        /\ \A p \in 1..k : some[p] = Part(session, offered + 1, p)
    BY <1>1, ShortShape
  <1>3. Takes(k, some)
    BY <1>1 DEF WriteShort, Takes
  <1> HIDE DEF some
  <1>4. PartsOf(some, session, offered + 1, k)
    BY <1>2 DEF PartsOf
  <1> QED BY <1>1, <1>2, <1>3, <1>4 DEF WriteTakes

(* Either keeps the invariant. *)
LEMMA WriteInv ==
  ASSUME Inv, NEW k, WriteTakes(k)
  PROVE  Inv'
  BY TakeInv DEF WriteTakes

(* What a step of an open writer that takes no cells leaves as it was. *)
LEMMA SameCells ==
  ASSUME Inv, state = "open", UNCHANGED <<session, offered, taken, reader>>
  PROVE  /\ taken \in Seq(PartCell) /\ disk \in Seq(Cell) /\ buffer \in Seq(Cell)
         /\ Joined(disk, buffer, taken)
         /\ CellsOffered' /\ ReaderTypes' /\ ReaderSees'
  <1>1. /\ taken \in Seq(PartCell) /\ disk \in Seq(Cell) /\ buffer \in Seq(Cell)
        /\ Joined(disk, buffer, taken)
    BY DEF Inv, WriterTypes, FileIs
  <1>2. IsPrefix(taken, taken')
    BY <1>1, PrefixOfSelf
  <1>3. ReaderTypes' /\ ReaderSees'
    BY <1>1, <1>2, WriterKeepsReader
  <1>4. CellsOffered'
    BY DEF Inv, CellsOffered
  <1> QED BY <1>1, <1>3, <1>4

(* Some of the buffer of stdio reaches the file. *)
LEMMA FlushInv ==
  ASSUME Inv, NEW k \in Nat, Flush(k)
  PROVE  Inv'
  <1>1. /\ state = "open" /\ k <= Len(buffer)
        /\ disk' = disk \o SubSeq(buffer, 1, k)
        /\ buffer' = SubSeq(buffer, k + 1, Len(buffer))
        /\ UNCHANGED <<state, session, count, offered, taken, reader>>
    BY DEF Flush
  <1>2. /\ taken \in Seq(PartCell) /\ disk \in Seq(Cell) /\ buffer \in Seq(Cell)
        /\ Joined(disk, buffer, taken)
        /\ CellsOffered' /\ ReaderTypes' /\ ReaderSees'
    BY <1>1, SameCells
  <1>3. k \in 0..Len(buffer)
    BY <1>1, <1>2
  <1> DEFINE out == disk \o SubSeq(buffer, 1, k)
             rest == SubSeq(buffer, k + 1, Len(buffer))
  <1>4. /\ out \in Seq(Cell) /\ rest \in Seq(Cell)
        /\ out \o rest = disk \o buffer /\ IsPrefix(out, disk \o buffer)
    BY <1>2, <1>3, StreamFlushed
  <1>5. disk' = out /\ buffer' = rest
    BY <1>1
  <1> HIDE DEF out, rest
  <1>6. WriterTypes' /\ Counted'
    BY <1>1, <1>4, <1>5 DEF Inv, WriterTypes, Counted
  <1>7. FileIs'
    <2>1. HeaderNow' = 0
      BY <1>1 DEF HeaderNow
    <2>2. Joined(disk', buffer', taken') /\ IsPrefix(disk', Stream(0, taken'))
      BY <1>1, <1>2, <1>4, <1>5 DEF Joined
    <2> QED BY <1>1, <1>4, <1>5, <2>1, <2>2 DEF FileIs
  <1> QED BY <1>2, <1>6, <1>7 DEF Inv

(* CaptureWriter::close puts the count into the header. *)
LEMMA CloseInv == Inv /\ Close => Inv'
  <1> SUFFICES ASSUME Inv, Close PROVE Inv'
    OBVIOUS
  <1>1. /\ state = "open" /\ disk' = <<Header(count)>> \o Tail(disk \o buffer)
        /\ buffer' = << >> /\ state' = "closed"
        /\ UNCHANGED <<session, count, offered, taken, reader>>
    BY DEF Close, ClosedFile
  <1>2. /\ taken \in Seq(PartCell) /\ disk \in Seq(Cell) /\ buffer \in Seq(Cell)
        /\ Joined(disk, buffer, taken)
        /\ CellsOffered' /\ ReaderTypes' /\ ReaderSees'
    BY <1>1, SameCells
  <1>3. 0 \in 0..MaxMessages /\ count \in 0..MaxMessages
    BY CaptureAssumption DEF Inv, WriterTypes
  <1>4. Tail(disk \o buffer) = taken
    BY <1>2, <1>3, StreamShape DEF Joined
  <1>5. disk' = Stream(count, taken) /\ Stream(count, taken) \in Seq(Cell)
    BY <1>1, <1>2, <1>3, <1>4, StreamShape DEF Stream
  <1>6. WriterTypes' /\ Counted'
    BY <1>1 DEF Inv, WriterTypes, Counted
  <1>7. FileIs'
    <2>1. HeaderNow' = count
      BY <1>1 DEF HeaderNow
    <2>2. IsPrefix(Stream(count, taken), Stream(count, taken))
      BY <1>5, PrefixOfSelf
    <2> QED BY <1>1, <1>5, <2>1, <2>2 DEF FileIs
  <1> QED BY <1>2, <1>6, <1>7 DEF Inv

(* close on a full disk: the header keeps its 0. *)
LEMMA CloseShortInv ==
  ASSUME Inv, NEW k \in Nat, CloseShort(k)
  PROVE  Inv'
  <1>1. /\ state = "open" /\ k <= Len(buffer)
        /\ disk' = disk \o SubSeq(buffer, 1, k)
        /\ buffer' = << >> /\ state' = "failed"
        /\ UNCHANGED <<session, count, offered, taken, reader>>
    BY DEF CloseShort
  <1>2. /\ taken \in Seq(PartCell) /\ disk \in Seq(Cell) /\ buffer \in Seq(Cell)
        /\ Joined(disk, buffer, taken)
        /\ CellsOffered' /\ ReaderTypes' /\ ReaderSees'
    BY <1>1, SameCells
  <1>3. k \in 0..Len(buffer)
    BY <1>1, <1>2
  <1> DEFINE out == disk \o SubSeq(buffer, 1, k)
  <1>4. out \in Seq(Cell) /\ IsPrefix(out, disk \o buffer)
    BY <1>2, <1>3, StreamFlushed
  <1>5. disk' = out
    BY <1>1
  <1> HIDE DEF out
  <1>6. WriterTypes' /\ Counted'
    BY <1>1 DEF Inv, WriterTypes, Counted
  <1>7. FileIs'
    <2>1. HeaderNow' = 0
      BY <1>1 DEF HeaderNow
    <2>2. IsPrefix(disk', Stream(0, taken'))
      BY <1>1, <1>2, <1>4, <1>5 DEF Joined
    <2> QED BY <1>1, <1>4, <1>5, <2>1, <2>2 DEF FileIs
  <1> QED BY <1>2, <1>6, <1>7 DEF Inv

(* A crash leaves what reached the file. *)
LEMMA CrashInv == Inv /\ Crash => Inv'
  <1> SUFFICES ASSUME Inv, Crash PROVE Inv'
    OBVIOUS
  <1>1. /\ state = "open" /\ buffer' = << >> /\ count' = 0 /\ state' = "crashed"
        /\ UNCHANGED <<disk, session, offered, taken, reader>>
    BY DEF Crash
  <1>2. /\ taken \in Seq(PartCell) /\ disk \in Seq(Cell) /\ buffer \in Seq(Cell)
        /\ Joined(disk, buffer, taken)
        /\ CellsOffered' /\ ReaderTypes' /\ ReaderSees'
    BY <1>1, SameCells
  <1>3. WriterTypes' /\ Counted'
    BY <1>1 DEF Inv, WriterTypes, Counted
  <1>4. FileIs'
    <2>1. IsPrefix(disk, Stream(0, taken))
      BY <1>1 DEF Inv, FileIs, HeaderNow
    <2>2. HeaderNow' = 0
      BY <1>1 DEF HeaderNow
    <2> QED BY <1>1, <1>2, <2>1, <2>2 DEF FileIs
  <1> QED BY <1>2, <1>3, <1>4 DEF Inv

(* The first part of CaptureReader::open. *)
LEMMA ReadHeaderInv == Inv /\ ReadHeader => Inv'
  <1> SUFFICES ASSUME Inv, ReadHeader PROVE Inv'
    OBVIOUS
  <1>1. UNCHANGED <<disk, state, session, count, offered, buffer, taken>>
    BY DEF ReadHeader, writerVars
  <1>2. WriterTypes' /\ CellsOffered' /\ FileIs' /\ Counted'
    BY <1>1 DEF Inv, WriterTypes, CellsOffered, FileIs, HeaderNow, Counted
  <1>r. reader \in [busy : BOOLEAN, valid : BOOLEAN, count : 0..MaxMessages,
                    bytes : Seq(Cell), headerOf : 0..MaxSessions,
                    bytesOf : 0..MaxSessions]
    BY DEF Inv, ReaderTypes
  <1>s. /\ session \in 0..MaxSessions /\ taken \in Seq(PartCell)
        /\ reader.headerOf <= session /\ reader.bytesOf <= session
    BY DEF Inv, WriterTypes, ReaderSees
  <1>3. CASE disk # << >> /\ disk[1].kind = "header"
    <2>1. state # "new"
      BY <1>3 DEF Inv, FileIs, Foreign
    <2>2. HeaderNow \in 0..MaxMessages /\ disk \in Seq(Cell)
          /\ IsPrefix(disk, Stream(HeaderNow, taken))
      BY <2>1, CaptureAssumption DEF Inv, FileIs, HeaderNow, WriterTypes
    <2>3. disk[1] = Header(HeaderNow)
      BY <1>3, <1>s, <2>2, StreamRead
    <2>4. disk[1].count = HeaderNow
      BY <2>2, <2>3, CellKinds
    <2>5. reader' = [reader EXCEPT !.busy = TRUE, !.valid = FALSE,
                                   !.count = HeaderNow, !.headerOf = session]
      BY <1>3, <2>4 DEF ReadHeader
    <2>6. /\ reader'.valid = FALSE /\ reader'.count = HeaderNow
          /\ reader'.headerOf = session /\ reader'.bytesOf = reader.bytesOf
      BY <1>r, <2>5
    <2>7. ReaderTypes'
      BY <1>r, <1>s, <2>2, <2>5 DEF ReaderTypes
    <2>8. HeaderNow # 0 => state = "closed" /\ HeaderNow = count
      BY DEF HeaderNow
    <2>9. ReaderSees'
      BY <1>1, <1>s, <2>6, <2>8 DEF ReaderSees
    <2> QED BY <1>2, <2>7, <2>9 DEF Inv
  <1>4. CASE ~(disk # << >> /\ disk[1].kind = "header")
    <2>1. reader' = [reader EXCEPT !.valid = FALSE]
      BY <1>4 DEF ReadHeader
    <2>2. /\ reader'.valid = FALSE /\ reader'.count = reader.count
          /\ reader'.headerOf = reader.headerOf /\ reader'.bytesOf = reader.bytesOf
      BY <1>r, <2>1
    <2>3. ReaderTypes'
      BY <1>r, <2>1 DEF ReaderTypes
    <2>4. ReaderSees'
      BY <1>1, <1>s, <2>2 DEF Inv, ReaderSees
    <2> QED BY <1>2, <2>3, <2>4 DEF Inv
  <1> QED BY <1>3, <1>4

(* The message region of a file that is not empty. *)
LEMMA BodyRead ==
  ASSUME Inv, disk # << >>
  PROVE  /\ Tail(disk) \in Seq(PartCell) /\ IsPrefix(Tail(disk), taken)
         /\ state = "closed" => Tail(disk) = taken
  <1>s. taken \in Seq(PartCell)
    BY DEF Inv, WriterTypes
  <1>a. CASE state = "new"
    <2>1. disk = <<Foreign>> /\ taken = << >>
      BY <1>a DEF Inv, FileIs
    <2>2. Tail(disk) = << >>
      BY <2>1
    <2> QED BY <1>s, <1>a, <2>1, <2>2, EmptyIsPrefix
  <1>b. CASE state # "new"
    <2>1. HeaderNow \in 0..MaxMessages /\ disk \in Seq(Cell)
          /\ IsPrefix(disk, Stream(HeaderNow, taken))
      BY <1>b, CaptureAssumption DEF Inv, FileIs, HeaderNow, WriterTypes
    <2>2. state = "closed" => disk = Stream(HeaderNow, taken)
      BY DEF Inv, FileIs, HeaderNow
    <2> QED BY <1>s, <2>1, <2>2, StreamRead
  <1> QED BY <1>a, <1>b

(* The rest of CaptureReader::open, in the file as it is by then. *)
LEMMA ReadBodyInv == Inv /\ ReadBody => Inv'
  <1> SUFFICES ASSUME Inv, ReadBody PROVE Inv'
    OBVIOUS
  <1>1. /\ UNCHANGED <<disk, state, session, count, offered, buffer, taken>>
        /\ disk # << >>
        /\ reader' = [reader EXCEPT !.busy = FALSE, !.valid = TRUE,
                                    !.bytes = Tail(disk), !.bytesOf = session]
    BY DEF ReadBody, writerVars
  <1>2. WriterTypes' /\ CellsOffered' /\ FileIs' /\ Counted'
    BY <1>1 DEF Inv, WriterTypes, CellsOffered, FileIs, HeaderNow, Counted
  <1>r. reader \in [busy : BOOLEAN, valid : BOOLEAN, count : 0..MaxMessages,
                    bytes : Seq(Cell), headerOf : 0..MaxSessions,
                    bytesOf : 0..MaxSessions]
    BY DEF Inv, ReaderTypes
  <1>s. /\ session \in 0..MaxSessions /\ taken \in Seq(PartCell)
        /\ reader.headerOf <= session /\ reader.bytesOf <= session
    BY DEF Inv, WriterTypes, ReaderSees
  <1>3. /\ Tail(disk) \in Seq(PartCell) /\ IsPrefix(Tail(disk), taken)
        /\ state = "closed" => Tail(disk) = taken
    BY <1>1, BodyRead
  <1>4. /\ reader'.valid = TRUE /\ reader'.count = reader.count
        /\ reader'.headerOf = reader.headerOf /\ reader'.bytesOf = session
        /\ reader'.bytes = Tail(disk)
    BY <1>1, <1>r
  <1>5. ReaderTypes'
    <2>1. Tail(disk) \in Seq(Cell)
      BY <1>3, CellKinds
    <2> QED BY <1>1, <1>r, <1>s, <2>1 DEF ReaderTypes
  <1>6. ReaderSees'
    <2>1. reader.headerOf = session /\ reader.count # 0 =>
            state = "closed" /\ reader.count = count
      BY DEF Inv, ReaderSees
    <2> QED BY <1>1, <1>s, <1>3, <1>4, <2>1 DEF ReaderSees
  <1> QED BY <1>2, <1>5, <1>6 DEF Inv

(* CaptureReader::open that gives up. *)
LEMMA ReadFailsInv == Inv /\ ReadFails => Inv'
  <1> SUFFICES ASSUME Inv, ReadFails PROVE Inv'
    OBVIOUS
  <1>1. /\ UNCHANGED <<disk, state, session, count, offered, buffer, taken>>
        /\ reader' = [reader EXCEPT !.busy = FALSE]
    BY DEF ReadFails, writerVars
  <1>2. WriterTypes' /\ CellsOffered' /\ FileIs' /\ Counted'
    BY <1>1 DEF Inv, WriterTypes, CellsOffered, FileIs, HeaderNow, Counted
  <1>r. reader \in [busy : BOOLEAN, valid : BOOLEAN, count : 0..MaxMessages,
                    bytes : Seq(Cell), headerOf : 0..MaxSessions,
                    bytesOf : 0..MaxSessions]
    BY DEF Inv, ReaderTypes
  <1>3. /\ reader'.valid = reader.valid /\ reader'.count = reader.count
        /\ reader'.headerOf = reader.headerOf /\ reader'.bytesOf = reader.bytesOf
        /\ reader'.bytes = reader.bytes
    BY <1>1, <1>r
  <1>4. ReaderTypes'
    BY <1>1, <1>r DEF ReaderTypes
  <1>5. ReaderSees'
    BY <1>1, <1>3 DEF Inv, ReaderSees
  <1> QED BY <1>2, <1>4, <1>5 DEF Inv

(* Every step of the two processes keeps the invariant. *)
LEMMA NextInv == Inv /\ [Next]_vars => Inv'
  <1> SUFFICES ASSUME Inv, [Next]_vars PROVE Inv'
    OBVIOUS
  <1>1. CASE UNCHANGED vars
    BY <1>1 DEF vars, writerVars, Inv, WriterTypes, ReaderTypes, CellsOffered, FileIs,
                HeaderNow, Counted, ReaderSees
  <1>2. ASSUME NEW k \in 1..(1 + MaxMessages * Parts), Flush(k) PROVE Inv'
    BY <1>2, FlushInv
  <1>3. ASSUME NEW k \in 0..(1 + MaxMessages * Parts), CloseShort(k) PROVE Inv'
    BY <1>3, CloseShortInv
  <1>4. ASSUME NEW k \in 0..(Parts - 1), WriteShort(k) PROVE Inv'
    BY <1>4, ShortIsTake, WriteInv
  <1>5. CASE WriterNext
    BY <1>2, <1>3, <1>4, <1>5, OpenInv, WriteIsTake, WriteInv, CloseInv, CrashInv DEF WriterNext
  <1>6. CASE ReaderNext
    BY <1>6, ReadHeaderInv, ReadBodyInv, ReadFailsInv DEF ReaderNext
  <1> QED BY <1>1, <1>5, <1>6 DEF Next

(* A count is right because count_ is, and the messages are all there. *)
LEMMA InvCount == Inv => CountTrusted
  <1> SUFFICES ASSUME Inv, reader.valid, reader.count # 0,
                      reader.headerOf = reader.bytesOf, reader.bytesOf = session
               PROVE  Cardinality(WholeMessages(reader.bytes)) = reader.count
    BY DEF CountTrusted
  <1>1. state = "closed" /\ reader.count = count /\ reader.bytes = taken
    BY DEF Inv, ReaderSees
  <1>2. WholeMessages(taken) = WholeOf(taken, session)
    BY DEF WholeMessages, WholeOf, FrameAt
  <1>3. Cardinality(WholeOf(taken, session)) = count
    BY <1>1 DEF Inv, Counted
  <1> QED BY <1>1, <1>2, <1>3

-----------------------------------------------------------------------------
(* The writer, the file and the reader keep their types, whatever stdio,    *)
(* the disk and a crash do.                                                *)
THEOREM CaptureTypes == Spec => []TypeOK
  BY InitInv, NextInv, InvTypes, PTL DEF Spec

(* A reader of a capture, at any time and after any failure of the writer,  *)
(* has a beginning of what fwrite took, with nothing of an earlier capture. *)
THEOREM ReaderHasPrefix == Spec => []CapturePrefix
  <1>1. Inv => CapturePrefix
    BY DEF Inv, ReaderSees, CapturePrefix
  <1> QED BY <1>1, InitInv, NextInv, PTL DEF Spec

(* A count that CaptureReader::open finds is the number of whole messages   *)
(* that it has read, although writes may have failed and the file may      *)
(* still have been open when it looked.                                    *)
THEOREM CountAlwaysTrusted == Spec => []CountTrusted
  BY InitInv, NextInv, InvCount, PTL DEF Spec

(* After CaptureWriter::close the file has all that write accepted. *)
THEOREM ClosedAlwaysComplete == Spec => []ClosedIsComplete
  <1>1. Inv => ClosedIsComplete
    BY DEF Inv, FileIs, ClosedIsComplete, Stream
  <1> QED BY <1>1, InitInv, NextInv, PTL DEF Spec

(* A ReplayDriver only looks: with it, too, the two processes behave as     *)
(* Spec says, so that all of the above holds for ReplaySpec.               *)
THEOREM ReplayOnlyReads == ReplaySpec => Spec
  <1>1. ReplayInit => Init
    BY DEF ReplayInit
  <1>2. [ReplayNext]_<<vars, driver>> => [Next]_vars
    BY DEF ReplayNext, Replay, Replays, Restart
  <1> QED BY <1>1, <1>2, PTL DEF ReplaySpec, Spec

-----------------------------------------------------------------------------
(* The cells of a capture come in the order of the messages, and of the     *)
(* parts of a message.                                                     *)
Before(a, b) == a.message < b.message \/ (a.message = b.message /\ a.part < b.part)
Rising(cells) == \A i, j \in 1..Len(cells) : i < j => Before(cells[i], cells[j])

Ordered ==
  /\ Rising(taken)
  /\ reader.valid => reader.bytes \in Seq(PartCell) /\ Rising(reader.bytes)

(* The fields of a cell. *)
LEMMA PartFields ==
  ASSUME NEW c \in PartCell
  PROVE  /\ c.session \in 1..MaxSessions /\ c.message \in 1..MaxMessages /\ c.part \in 1..Parts
         /\ c = Part(c.session, c.message, c.part)
  BY DEF PartCell, Part

(* A beginning of a capture is in order, too. *)
LEMMA RisingPrefix ==
  ASSUME NEW t \in Seq(PartCell), NEW d \in Seq(PartCell), IsPrefix(d, t), Rising(t)
  PROVE  Rising(d)
  <1>1. Len(d) <= Len(t) /\ \A i \in 1..Len(d) : d[i] = t[i]
    BY PrefixIs
  <1>2. Len(d) \in Nat /\ Len(t) \in Nat
    OBVIOUS
  <1> SUFFICES ASSUME NEW i \in 1..Len(d), NEW j \in 1..Len(d), i < j
               PROVE  Before(d[i], d[j])
    BY DEF Rising
  <1>3. i \in 1..Len(t) /\ j \in 1..Len(t) /\ d[i] = t[i] /\ d[j] = t[j]
    BY <1>1, <1>2
  <1> QED BY <1>3 DEF Rising

(* What write takes comes behind all that it took before. *)
LEMMA RisingTakes ==
  ASSUME NEW s \in 1..MaxSessions, NEW n \in 1..MaxMessages, NEW k \in 0..Parts,
         NEW cells \in Seq(PartCell), NEW more \in Seq(PartCell),
         Earlier(cells, n), PartsOf(more, s, n, k), Rising(cells)
  PROVE  Rising(cells \o more)
  <1>0. Parts \in Nat \ {0} /\ Len(cells) \in Nat /\ Len(more) = k
    BY CaptureAssumption DEF PartsOf
  <1> DEFINE all == cells \o more
             l == Len(cells)
  <1>1. /\ Len(all) = l + k
        /\ \A i \in 1..(l + k) : all[i] = IF i <= l THEN cells[i] ELSE more[i - l]
    BY <1>0, ConcatProperties
  <1> HIDE DEF all
  <1>2. ASSUME NEW i \in 1..(l + k), i <= l
        PROVE  all[i] = cells[i] /\ all[i].message < n
    BY <1>0, <1>1, <1>2 DEF Earlier
  <1>3. ASSUME NEW i \in 1..(l + k), ~(i <= l)
        PROVE  all[i].message = n /\ all[i].part = i - l
    <2>1. all[i] = more[i - l] /\ i - l \in 1..k
      BY <1>0, <1>1, <1>3
    <2>2. all[i] = Part(s, n, i - l)
      BY <2>1 DEF PartsOf
    <2> QED BY <2>2 DEF Part
  <1>4. ASSUME NEW i \in 1..(l + k), NEW j \in 1..(l + k), i < j
        PROVE  Before(all[i], all[j])
    <2>1. CASE j <= l
      <3>1. i <= l /\ i \in 1..l /\ j \in 1..l
        BY <1>0, <1>4, <2>1
      <3> QED BY <1>2, <1>4, <2>1, <3>1 DEF Rising
    <2>2. CASE i <= l /\ ~(j <= l)
      BY <1>2, <1>3, <2>2 DEF Before
    <2>3. CASE ~(i <= l)
      <3>1. ~(j <= l) /\ i - l < j - l
        BY <1>0, <1>4, <2>3
      <3> QED BY <1>3, <2>3, <3>1 DEF Before
    <2> QED BY <2>1, <2>2, <2>3
  <1> QED BY <1>1, <1>4 DEF Rising, all

(* CaptureWriter::write *)
LEMMA TakeOrdered ==
  ASSUME Inv, Ordered, NEW k \in 0..Parts, NEW some \in Seq(PartCell),
         PartsOf(some, session, offered + 1, k), Takes(k, some)
  PROVE  Ordered'
  <1>0. /\ session \in 1..MaxSessions /\ offered + 1 \in 1..MaxMessages
        /\ offered \in Nat /\ taken \in Seq(PartCell)
    BY CaptureAssumption DEF Inv, WriterTypes, Takes
  <1>1. Earlier(taken, offered + 1)
    <2>1. ASSUME NEW i \in 1..Len(taken) PROVE taken[i].message < offered + 1
      <3>1. taken[i] \in PartCell
        BY <1>0
      <3>2. taken[i].message \in Nat
        BY <3>1, PartFields
      <3>3. taken[i].message <= offered
        BY DEF Inv, CellsOffered
      <3> QED BY <1>0, <3>2, <3>3
    <2> QED BY <2>1 DEF Earlier
  <1>2. Rising(taken \o some)
    BY <1>0, <1>1, RisingTakes DEF Ordered
  <1> QED BY <1>2 DEF Ordered, Takes

(* Every step keeps the order: only write takes cells, and only the reader's *)
(* open reads them.                                                        *)
LEMMA NextOrdered == Inv /\ Ordered /\ [Next]_vars => Ordered'
  <1> SUFFICES ASSUME Inv, Ordered, [Next]_vars PROVE Ordered'
    OBVIOUS
  <1>1. ASSUME taken' = taken, reader' = reader
        PROVE  Ordered'
    BY <1>1 DEF Ordered
  <1>2. ASSUME NEW k, WriteTakes(k)
        PROVE  Ordered'
    BY <1>2, TakeOrdered DEF WriteTakes
  <1>3. CASE Open
    <2>1. Rising(<< >>)
      BY DEF Rising
    <2> QED BY <1>3, <2>1 DEF Ordered, Open
  <1>4. ASSUME NEW k, Flush(k) \/ CloseShort(k)
        PROVE  taken' = taken /\ reader' = reader
    BY <1>4 DEF Flush, CloseShort
  <1>5. CASE UNCHANGED vars \/ Close \/ Crash
    <2>1. taken' = taken /\ reader' = reader
      BY <1>5 DEF vars, writerVars, Close, Crash
    <2> QED BY <1>1, <2>1
  <1>6. CASE WriterNext
    <2>1. ASSUME NEW k \in 0..(Parts - 1), WriteShort(k) PROVE Ordered'
      BY <1>2, <2>1, ShortIsTake
    <2>2. CASE Write
      BY <1>2, <2>2, WriteIsTake
    <2> QED BY <1>1, <1>3, <1>4, <1>5, <1>6, <2>1, <2>2 DEF WriterNext
  <1>7. CASE ReaderNext
    <2>0. /\ taken' = taken
          /\ reader \in [busy : BOOLEAN, valid : BOOLEAN, count : 0..MaxMessages,
                         bytes : Seq(Cell), headerOf : 0..MaxSessions,
                         bytesOf : 0..MaxSessions]
      BY <1>7 DEF ReaderNext, ReadHeader, ReadBody, ReadFails, writerVars, Inv, ReaderTypes
    <2>1. CASE ReadHeader
      <3>1. reader'.valid = FALSE
        BY <2>0, <2>1 DEF ReadHeader
      <3> QED BY <2>0, <3>1 DEF Ordered
    <2>2. CASE ReadBody
      <3>1. disk # << >> /\ reader'.bytes = Tail(disk)
        BY <2>0, <2>2 DEF ReadBody
      <3>2. Tail(disk) \in Seq(PartCell) /\ IsPrefix(Tail(disk), taken)
        BY <3>1, BodyRead
      <3>3. Rising(Tail(disk))
        BY <3>2, RisingPrefix DEF Ordered, Inv, WriterTypes
      <3> QED BY <2>0, <3>1, <3>2, <3>3 DEF Ordered
    <2>3. CASE ReadFails
      <3>1. reader'.valid = reader.valid /\ reader'.bytes = reader.bytes
        BY <2>0, <2>3 DEF ReadFails
      <3> QED BY <2>0, <3>1 DEF Ordered
    <2> QED BY <1>7, <2>1, <2>2, <2>3 DEF ReaderNext
  <1> QED BY <1>5, <1>6, <1>7 DEF Next

-----------------------------------------------------------------------------
(* The frames of a region.                                                 *)

(* A quotient, and where each of the parts is that it counts. *)
LEMMA Quotient ==
  ASSUME NEW n \in Nat, NEW p \in Nat \ {0}
  PROVE  /\ n \div p \in Nat /\ n % p \in 0..(p - 1) /\ n = p * (n \div p) + (n % p)
         /\ \A k \in 1..(n \div p) :
              (k - 1) * p \in Nat /\ (k - 1) * p + p <= n /\ k * p = (k - 1) * p + p
  <1> DEFINE q == n \div p
  <1>1. q \in Int /\ n % p \in 0..(p - 1) /\ n = p * q + (n % p)
    OBVIOUS
  <1>2. q \in Nat
    <2> DEFINE r == n % p
    <2>1. r \in 0..(p - 1) /\ n = p * q + r
      BY <1>1
    <2> HIDE DEF q, r
    <2>2. q < 0 => p * q <= 0 - p
      BY <1>1
    <2> QED BY <1>1, <2>1, <2>2
  <1>3. ASSUME NEW k \in 1..q
        PROVE  (k - 1) * p \in Nat /\ (k - 1) * p + p <= n /\ k * p = (k - 1) * p + p
    <2> DEFINE r == n % p
    <2>1. r \in 0..(p - 1) /\ n = p * q + r
      BY <1>1
    <2> HIDE DEF q, r
    <2>2. k \in Nat /\ k - 1 \in Nat /\ q - k \in Nat
      BY <1>2
    <2>3. k * p = (k - 1) * p + p /\ (k - 1) * p \in Nat
      BY <2>2
    <2>4. p * q = k * p + p * (q - k) /\ p * (q - k) \in Nat
      BY <1>2, <2>2
    <2>5. k * p \in Nat
      BY <2>2
    <2> QED BY <1>2, <2>1, <2>3, <2>4, <2>5
  <1> QED BY <1>1, <1>2, <1>3

(* Frame k of the cells, from its first cell on. *)
FrameIs(cells, k, frame, T) ==
  /\ (k - 1) * Parts \in Nat /\ (k - 1) * Parts + Parts <= Len(cells)
  /\ frame \in Seq(T) /\ Len(frame) = Parts
  /\ \A p \in 1..Parts : frame[p] = cells[(k - 1) * Parts + p]

(* Frames divides the cells into frames of Parts cells each. *)
LEMMA FramesShape ==
  ASSUME NEW T, NEW cells \in Seq(T)
  PROVE  /\ Len(cells) \div Parts \in Nat
         /\ Frames(cells) \in Seq(Seq(T)) /\ Len(Frames(cells)) = Len(cells) \div Parts
         /\ \A k \in 1..(Len(cells) \div Parts) : FrameIs(cells, k, Frames(cells)[k], T)
  <1> DEFINE n == Len(cells)
             q == n \div Parts
             f == Frames(cells)
  <1>0. Parts \in Nat \ {0} /\ n \in Nat
    BY CaptureAssumption
  <1>1. /\ q \in Nat
        /\ \A k \in 1..q : /\ (k - 1) * Parts \in Nat /\ (k - 1) * Parts + Parts <= n
                           /\ k * Parts = (k - 1) * Parts + Parts
    BY <1>0, Quotient
  <1>2. ASSUME NEW k \in 1..q
        PROVE  FrameIs(cells, k, SubSeq(cells, (k - 1) * Parts + 1, k * Parts), T)
    <2> DEFINE a == (k - 1) * Parts
               b == k * Parts
               g == SubSeq(cells, a + 1, b)
    <2>1. a \in Nat /\ a + Parts <= n /\ b = a + Parts
      BY <1>1
    <2> HIDE DEF a, b
    <2>2. \A j \in (a + 1)..b : cells[j] \in T
      BY <1>0, <2>1
    <2>3. /\ g \in Seq(T)
          /\ Len(g) = IF a + 1 <= b THEN b - (a + 1) + 1 ELSE 0
          /\ \A j \in 1..(b - (a + 1) + 1) : g[j] = cells[a + 1 + j - 1]
      BY <1>0, <2>1, <2>2, SubSeqProperties
    <2> HIDE DEF g
    <2>4. b - (a + 1) + 1 = Parts /\ a + 1 <= b
      BY <1>0, <2>1
    <2>5. ASSUME NEW p \in 1..Parts PROVE g[p] = cells[a + p]
      <3>1. a + 1 + p - 1 = a + p
        BY <1>0, <2>1
      <3> QED BY <2>3, <2>4, <3>1
    <2>6. g \in Seq(T) /\ Len(g) = Parts
      BY <2>3, <2>4
    <2> QED BY <2>1, <2>5, <2>6 DEF FrameIs, a, b, g
  <1>3. f = [k \in 1..q |-> SubSeq(cells, (k - 1) * Parts + 1, k * Parts)]
    BY DEF Frames
  <1> HIDE DEF f, q, n
  <1>4. \A k \in 1..q : FrameIs(cells, k, f[k], T)
    BY <1>2, <1>3
  <1>5. f \in [1..q -> Seq(T)]
    BY <1>2, <1>3 DEF FrameIs
  <1>6. f \in Seq(Seq(T)) /\ Len(f) = q
    BY <1>1, <1>5
  <1> QED BY <1>1, <1>4, <1>6 DEF f, q, n

(* Tailpiece is what is left of them. *)
LEMMA TailpieceShape ==
  ASSUME NEW T, NEW cells \in Seq(T)
  PROVE  LET a == Parts * (Len(cells) \div Parts)
         IN  /\ Tailpiece(cells) \in Seq(T) /\ a \in Nat
             /\ Len(cells) % Parts = 0 => Tailpiece(cells) = << >>
             /\ Tailpiece(cells) # << >> =>
                  a + 1 \in 1..Len(cells) /\ Tailpiece(cells)[1] = cells[a + 1]
  <1> DEFINE n == Len(cells)
             a == Parts * (n \div Parts)
             r == n % Parts
             t == SubSeq(cells, a + 1, n)
  <1>0. Parts \in Nat \ {0} /\ n \in Nat
    BY CaptureAssumption
  <1>1. n \div Parts \in Nat /\ r \in 0..(Parts - 1) /\ n = a + r
    BY <1>0, Quotient
  <1>2. a \in Nat
    <2> DEFINE q == n \div Parts
    <2>1. q \in Nat
      BY <1>1
    <2> HIDE DEF q
    <2>2. Parts * q \in Nat
      BY <1>0, <2>1
    <2> QED BY <2>2 DEF q
  <1>3. Tailpiece(cells) = t
    BY DEF Tailpiece
  <1> HIDE DEF a, r
  <1>4. \A j \in (a + 1)..n : cells[j] \in T
    BY <1>0, <1>2
  <1>5. /\ t \in Seq(T)
        /\ Len(t) = IF a + 1 <= n THEN n - (a + 1) + 1 ELSE 0
        /\ \A j \in 1..(n - (a + 1) + 1) : t[j] = cells[a + 1 + j - 1]
    BY <1>0, <1>1, <1>2, <1>4, SubSeqProperties
  <1> HIDE DEF t
  <1>6. r = 0 => t = << >>
    BY <1>0, <1>1, <1>2, <1>5, EmptySeq
  <1>7. t # << >> => a + 1 <= n
    BY <1>5, EmptySeq
  <1>8. a + 1 <= n => t[1] = cells[a + 1]
    <2> SUFFICES ASSUME a + 1 <= n PROVE t[1] = cells[a + 1]
      OBVIOUS
    <2>1. 1 \in 1..(n - (a + 1) + 1) /\ a + 1 + 1 - 1 = a + 1
      BY <1>0, <1>2
    <2> QED BY <1>5, <2>1
  <1> QED BY <1>0, <1>2, <1>3, <1>5, <1>6, <1>7, <1>8 DEF a, r, n

-----------------------------------------------------------------------------
(* A driver, and what a frame does to it.                                  *)

Entry == [session : 1..MaxSessions, message : 1..MaxMessages, whole : BOOLEAN]

Drivers == [residual : Seq(PartCell), next_expected : Nat, forwarded : Seq(Entry),
            garbled : BOOLEAN, left : BOOLEAN, replays : Nat]

FrameCells == {c \in Seq(PartCell) : Len(c) = Parts}

(* next_expected is the successor of the newest message that was forwarded. *)
Expects(next, seen) ==
  /\ \A i \in DOMAIN seen : seen[i].message < next
  /\ next = 1 \/ \E i \in DOMAIN seen : seen[i].message + 1 = next

(* What stays the same while frames are dispatched. *)
SameRest(e, d) == e.residual = d.residual /\ e.left = d.left /\ e.replays = d.replays

(* The entry for a frame. *)
LEMMA DispatchedType ==
  ASSUME NEW c \in FrameCells
  PROVE  /\ Dispatched(c) \in Entry /\ c[1] \in PartCell
         /\ Dispatched(c).message = c[1].message
         /\ Misread(c) <=> c[1].part # 1
  <1>1. Parts \in Nat \ {0} /\ c \in Seq(PartCell) /\ Len(c) = Parts /\ c # << >>
    BY CaptureAssumption DEF FrameCells
  <1>2. c[1] \in PartCell
    BY <1>1
  <1>3. c[1].session \in 1..MaxSessions /\ c[1].message \in 1..MaxMessages
    BY <1>2, PartFields
  <1> QED BY <1>1, <1>2, <1>3 DEF Dispatched, Entry, Misread

(* FeedHandler::accept *)
LEMMA AcceptKeeps ==
  ASSUME NEW d \in Drivers, NEW m \in Entry
  PROVE  LET e == AcceptNew(d, m)
         IN  /\ e \in Drivers /\ SameRest(e, d) /\ e.garbled = d.garbled
             /\ Expects(d.next_expected, d.forwarded) =>
                  Expects(e.next_expected, e.forwarded)
             /\ IF m.message >= d.next_expected
                THEN e.forwarded = Append(d.forwarded, m) /\ e.next_expected = m.message + 1
                ELSE e = d
  <1> DEFINE e == AcceptNew(d, m)
  <1>1. m.message \in 1..MaxMessages /\ MaxMessages \in Nat /\ d.next_expected \in Nat
        /\ d.forwarded \in Seq(Entry)
    BY CaptureAssumption DEF Entry, Drivers
  <1>2. CASE ~(m.message >= d.next_expected)
    BY <1>2 DEF AcceptNew, SameRest
  <1>3. CASE m.message >= d.next_expected
    <2> DEFINE g == Append(d.forwarded, m)
               n == m.message + 1
    <2>1. e = [d EXCEPT !.forwarded = g, !.next_expected = n]
      BY <1>3 DEF AcceptNew
    <2>2. g \in Seq(Entry) /\ n \in Nat
      BY <1>1
    <2>3. /\ Len(g) = Len(d.forwarded) + 1 /\ DOMAIN g = 1..Len(g)
          /\ DOMAIN d.forwarded = 1..Len(d.forwarded) /\ Len(d.forwarded) \in Nat
          /\ g[Len(g)] = m /\ \A i \in 1..Len(d.forwarded) : g[i] = d.forwarded[i]
      BY <1>1
    <2>4. ASSUME NEW i \in 1..Len(d.forwarded) PROVE d.forwarded[i].message \in Nat
      <3>1. d.forwarded[i] \in Entry
        BY <1>1
      <3> QED BY <1>1, <3>1 DEF Entry
    <2> HIDE DEF g
    <2>5. /\ e \in Drivers /\ SameRest(e, d) /\ e.garbled = d.garbled
          /\ e.forwarded = g /\ e.next_expected = n
      BY <2>1, <2>2 DEF Drivers, SameRest
    <2>6. ASSUME Expects(d.next_expected, d.forwarded)
          PROVE  Expects(n, g)
      <3>1. ASSUME NEW i \in 1..Len(g) PROVE g[i].message < n
        <4>1. CASE i = Len(g)
          BY <1>1, <2>3, <4>1
        <4>2. CASE i # Len(g)
          <5>1. i \in 1..Len(d.forwarded)
            BY <2>3, <4>2
          <5>2. d.forwarded[i].message < d.next_expected
            BY <2>3, <2>6, <5>1 DEF Expects
          <5> QED BY <1>1, <1>3, <2>3, <2>4, <5>1, <5>2
        <4> QED BY <4>1, <4>2
      <3>2. Len(g) \in 1..Len(g) /\ g[Len(g)].message + 1 = n
        BY <2>3
      <3> QED BY <2>3, <3>1, <3>2 DEF Expects
    <2>7. Expects(d.next_expected, d.forwarded) => Expects(e.next_expected, e.forwarded)
      BY <2>5, <2>6
    <2> HIDE DEF e, n
    <2> QED BY <1>3, <2>5, <2>7 DEF e, g, n
  <1> QED BY <1>2, <1>3

(* A frame that parse dispatches. *)
LEMMA OnFrameKeeps ==
  ASSUME NEW d \in Drivers, NEW c \in FrameCells
  PROVE  LET e == OnFrame(d, c)
         IN  /\ e \in Drivers /\ SameRest(e, d)
             /\ Expects(d.next_expected, d.forwarded) =>
                  Expects(e.next_expected, e.forwarded)
  <1>1. CASE d.garbled \/ Misread(c)
    <2>1. OnFrame(d, c) = [d EXCEPT !.garbled = TRUE]
      BY <1>1 DEF OnFrame
    <2> QED BY <2>1 DEF Drivers, SameRest
  <1>2. CASE ~(d.garbled \/ Misread(c))
    <2>1. OnFrame(d, c) = AcceptNew(d, Dispatched(c))
      BY <1>2 DEF OnFrame
    <2>2. Dispatched(c) \in Entry
      BY DispatchedType
    <2> QED BY <2>1, <2>2, AcceptKeeps
  <1> QED BY <1>1, <1>2

(* f has the driver after 0, 1, ... frames of a call of consume. *)
FrameByFrame(d, frames, f) ==
  /\ f \in [0..Len(frames) -> Drivers] /\ f[0] = d
  /\ \A i \in 1..Len(frames) : f[i] = OnFrame(f[i - 1], frames[i])

(* What MapThenFoldSet chooses there. *)
FoldsOnFrame(d, frames, iter) ==
  iter = [t \in SUBSET DOMAIN frames |->
            IF t = {} THEN d ELSE OnFrame(iter[t \ {Max(t)}], frames[Max(t)])]

(* consume goes through the frames in order. *)
LEMMA ConsumeFold ==
  ASSUME NEW d \in Drivers, NEW frames \in Seq(FrameCells)
  PROVE  \E f : FrameByFrame(d, frames, f) /\ FoldLeft(OnFrame, d, frames) = f[Len(frames)]
  <1> DEFINE n == Len(frames)
             X == Drivers
             it == CHOOSE iter : FoldsOnFrame(d, frames, iter)
             step == [a \in X \X (1..n) |-> OnFrame(a[1], frames[a[2]])]
  <1>1. FoldLeft(OnFrame, d, frames) = it[DOMAIN frames]
    BY DEF FoldLeft, MapThenFoldSet, FoldsOnFrame
  <1>2. n \in Nat /\ DOMAIN frames = 1..n /\ \A i \in 1..n : frames[i] \in FrameCells
    OBVIOUS
  <1>3. \A x \in X, c \in FrameCells : OnFrame(x, c) \in X
    BY OnFrameKeeps
  <1> HIDE DEF n, it, X
  <1>4. /\ step \in [X \X (1..n) -> X]
        /\ \A x \in X, i \in 1..n : step[<<x, i>>] = OnFrame(x, frames[i])
    <2>1. \A a \in X \X (1..n) : OnFrame(a[1], frames[a[2]]) \in X
      BY <1>2, <1>3
    <2> QED BY <2>1
  <1> HIDE DEF step
  <1>5. d \in X
    BY DEF X
  <1>6. \E iter : FoldsOnFrame(d, frames, iter)
    <2>1. PICK iter : IsFold(X, d, n, step, iter)
      BY <1>2, <1>4, <1>5, FoldExists
    <2>2. /\ iter \in [SUBSET (1..n) -> X] /\ iter[{}] = d
          /\ \A t \in SUBSET (1..n) :
               t # {} => iter[t] = step[<<iter[t \ {Max(t)}], Max(t)>>]
      BY <2>1 DEF IsFold
    <2>3. ASSUME NEW t \in SUBSET (1..n), t # {}
          PROVE  iter[t] = OnFrame(iter[t \ {Max(t)}], frames[Max(t)])
      <3>1. Max(t) \in 1..n /\ t \ {Max(t)} \in SUBSET (1..n)
        BY <1>2, <2>3, MaxOfBounded
      <3>2. iter[t \ {Max(t)}] \in X
        BY <2>2, <3>1
      <3> QED BY <1>4, <2>2, <2>3, <3>1, <3>2
    <2>4. FoldsOnFrame(d, frames, iter)
      BY <1>2, <2>2, <2>3 DEF FoldsOnFrame
    <2> QED BY <2>4
  <1>7. FoldsOnFrame(d, frames, it)
    BY <1>6 DEF it
  <1>8. /\ it[{}] = d
        /\ \A t \in SUBSET (1..n) :
             t # {} => it[t] = OnFrame(it[t \ {Max(t)}], frames[Max(t)])
    BY <1>2, <1>7 DEF FoldsOnFrame
  <1>9. ASSUME NEW t \in SUBSET (1..n), t # {}, it[t \ {Max(t)}] \in X
        PROVE  it[t] = step[<<it[t \ {Max(t)}], Max(t)>>]
    <2>1. Max(t) \in 1..n
      BY <1>2, <1>9, MaxOfBounded
    <2> QED BY <1>4, <1>8, <1>9, <2>1
  <1>10. PICK f : FoldsUp(X, d, n, step, f) /\ it[1..n] = f[n]
    <2>1. FoldsWithin(X, d, n, step, it)
      BY <1>8, <1>9 DEF FoldsWithin
    <2> QED BY <1>2, <1>4, <1>5, <2>1, FoldGoesUp
  <1>11. /\ f \in [0..n -> X] /\ f[0] = d
         /\ \A i \in 1..n : f[i] = step[<<f[i - 1], i>>]
    BY <1>10 DEF FoldsUp
  <1>12. ASSUME NEW i \in 1..n PROVE f[i] = OnFrame(f[i - 1], frames[i])
    <2>1. i - 1 \in 0..n
      BY <1>2
    <2> QED BY <1>4, <1>11, <2>1
  <1> QED BY <1>1, <1>2, <1>10, <1>11, <1>12 DEF FrameByFrame, n, X

(* The frames of a region of cells. *)
LEMMA FramesType ==
  ASSUME NEW cells \in Seq(PartCell)
  PROVE  Frames(cells) \in Seq(FrameCells)
  <1> DEFINE f == Frames(cells)
             n == Len(f)
  <1>1. /\ f \in Seq(Seq(PartCell)) /\ n \in Nat
        /\ \A k \in 1..n : FrameIs(cells, k, f[k], PartCell)
    BY FramesShape
  <1> HIDE DEF f, n
  <1>2. \A k \in 1..n : f[k] \in FrameCells
    BY <1>1 DEF FrameIs, FrameCells
  <1>3. f \in [1..n -> FrameCells]
    <2>1. DOMAIN f = 1..n /\ f = [k \in 1..n |-> f[k]]
      BY <1>1 DEF n
    <2> QED BY <1>2, <2>1
  <1>4. f \in Seq(FrameCells)
    BY <1>1, <1>3
  <1> QED BY <1>4 DEF f

(* Frame by frame, accept goes on from the newest message. *)
LEMMA FramesKeep ==
  ASSUME NEW d \in Drivers, NEW frames \in Seq(FrameCells), NEW f,
         FrameByFrame(d, frames, f)
  PROVE  \A i \in 0..Len(frames) :
           /\ SameRest(f[i], d)
           /\ Expects(d.next_expected, d.forwarded) =>
                Expects(f[i].next_expected, f[i].forwarded)
  <1> DEFINE n == Len(frames)
             Keeps(e) == /\ SameRest(e, d)
                         /\ Expects(d.next_expected, d.forwarded) =>
                              Expects(e.next_expected, e.forwarded)
             S == {i \in 0..n : Keeps(f[i])}
  <1>0. /\ n \in Nat /\ f \in [0..n -> Drivers] /\ f[0] = d
        /\ \A i \in 1..n : f[i] = OnFrame(f[i - 1], frames[i])
        /\ \A i \in 1..n : frames[i] \in FrameCells
    BY DEF FrameByFrame
  <1>1. 0 \in S
    BY <1>0 DEF SameRest
  <1>2. \A i \in 0..(n - 1) : i \in S => i + 1 \in S
    <2> SUFFICES ASSUME NEW i \in 0..(n - 1), i \in S
                 PROVE  i + 1 \in S
      OBVIOUS
    <2>1. i + 1 \in 1..n /\ i + 1 \in 0..n /\ i \in 0..n /\ (i + 1) - 1 = i
      BY <1>0
    <2>2. f[i + 1] = OnFrame(f[i], frames[i + 1]) /\ f[i] \in Drivers
          /\ frames[i + 1] \in FrameCells
      BY <1>0, <2>1
    <2>3. /\ SameRest(f[i + 1], f[i])
          /\ Expects(f[i].next_expected, f[i].forwarded) =>
               Expects(f[i + 1].next_expected, f[i + 1].forwarded)
      BY <2>2, OnFrameKeeps
    <2>4. Keeps(f[i])
      OBVIOUS
    <2>5. Keeps(f[i + 1])
      BY <2>3, <2>4 DEF SameRest
    <2> HIDE DEF Keeps
    <2> QED BY <2>1, <2>5
  <1>3. \A i \in 0..n : i \in S
    <2> HIDE DEF S
    <2> QED BY <1>0, <1>1, <1>2, BoundedInduction
  <1> QED BY <1>3

(* Driver e is x, behind whose frames rest is left. *)
LeftWith(e, x, rest) ==
  e = [x EXCEPT !.residual = rest, !.garbled = @ \/ Misread(rest)]

(* FeedHandler::consume, as a walk over the frames. *)
LEMMA ConsumeIs ==
  ASSUME NEW d \in Drivers, NEW cells \in Seq(PartCell), NEW buf, buf = d.residual \o cells
  PROVE  /\ buf \in Seq(PartCell) /\ Frames(buf) \in Seq(FrameCells)
         /\ \E f : /\ FrameByFrame(d, Frames(buf), f)
                   /\ LeftWith(Consume(d, cells), f[Len(Frames(buf))], Tailpiece(buf))
  <1>1. buf \in Seq(PartCell)
    BY ConcatProperties DEF Drivers
  <1>2. Frames(buf) \in Seq(FrameCells)
    BY <1>1, FramesType
  <1>3. PICK f : /\ FrameByFrame(d, Frames(buf), f)
                 /\ FoldLeft(OnFrame, d, Frames(buf)) = f[Len(Frames(buf))]
    BY <1>2, ConsumeFold
  <1>4. LeftWith(Consume(d, cells), FoldLeft(OnFrame, d, Frames(buf)), Tailpiece(buf))
    BY DEF Consume, LeftWith
  <1> QED BY <1>1, <1>2, <1>3, <1>4

(* consume keeps the driver's order, and with whole frames leaves nothing. *)
LEMMA ConsumeKeeps ==
  ASSUME NEW d \in Drivers, NEW cells \in Seq(PartCell)
  PROVE  LET e == Consume(d, cells)
         IN  /\ e \in Drivers /\ e.left = d.left /\ e.replays = d.replays
             /\ Expects(d.next_expected, d.forwarded) =>
                  Expects(e.next_expected, e.forwarded)
             /\ d.residual = << >> /\ ~EndsInside(cells) => e.residual = << >>
  <1> DEFINE e == Consume(d, cells)
             buf == d.residual \o cells
             fr == Frames(buf)
             n == Len(fr)
             rest == Tailpiece(buf)
  <1>1. buf \in Seq(PartCell) /\ fr \in Seq(FrameCells)
    BY ConsumeIs
  <1>2. PICK f : FrameByFrame(d, fr, f) /\ LeftWith(e, f[n], rest)
    BY ConsumeIs
  <1>3. rest \in Seq(PartCell) /\ (Len(buf) % Parts = 0 => rest = << >>)
    BY <1>1, TailpieceShape
  <1>4. d.residual = << >> => buf = cells
    BY ConcatEmptySeq
  <1> HIDE DEF e, buf, fr, n, rest
  <1>5. n \in Nat /\ n \in 0..n /\ f[n] \in Drivers
    <2>1. n \in Nat /\ f \in [0..n -> Drivers]
      BY <1>1, <1>2 DEF FrameByFrame, n
    <2> QED BY <2>1
  <1>6. /\ SameRest(f[n], d)
        /\ Expects(d.next_expected, d.forwarded) =>
             Expects(f[n].next_expected, f[n].forwarded)
    BY <1>1, <1>2, <1>5, FramesKeep DEF n
  <1>7. /\ e \in Drivers /\ e.left = f[n].left /\ e.replays = f[n].replays
        /\ e.next_expected = f[n].next_expected /\ e.forwarded = f[n].forwarded
        /\ e.residual = rest
    <2>1. Misread(rest) \in BOOLEAN
      BY DEF Misread
    <2> QED BY <1>2, <1>3, <1>5, <2>1 DEF LeftWith, Drivers
  <1>8. d.residual = << >> /\ ~EndsInside(cells) => rest = << >>
    BY <1>3, <1>4 DEF EndsInside
  <1> QED BY <1>6, <1>7, <1>8 DEF SameRest, e

(* A frame is its own only frame. *)
LEMMA FrameOfFrame ==
  ASSUME NEW c \in FrameCells
  PROVE  /\ c \in Seq(PartCell) /\ Len(Frames(c)) = 1 /\ Frames(c)[1] = c
         /\ ~EndsInside(c) /\ Tailpiece(c) = << >>
  <1>0. Parts \in Nat \ {0} /\ c \in Seq(PartCell) /\ Len(c) = Parts
    BY CaptureAssumption DEF FrameCells
  <1> DEFINE q == Parts \div Parts
             r == Parts % Parts
             g == Frames(c)[1]
  <1>1. q \in Nat /\ r \in 0..(Parts - 1) /\ Parts = Parts * q + r
    BY <1>0, Quotient
  <1>2. q = 1 /\ r = 0
    <2> HIDE DEF q, r
    <2>1. q = 0 => Parts * q = 0
      BY <1>0
    <2>2. q > 1 => Parts * q >= Parts + Parts
      BY <1>0, <1>1
    <2>3. q = 1 => Parts * q = Parts
      BY <1>0
    <2> QED BY <1>0, <1>1, <2>1, <2>2, <2>3
  <1>3. Len(Frames(c)) = q /\ \A k \in 1..q : FrameIs(c, k, Frames(c)[k], PartCell)
    BY <1>0, FramesShape
  <1>4. FrameIs(c, 1, g, PartCell)
    BY <1>2, <1>3
  <1> HIDE DEF g, q, r
  <1>5. /\ g \in Seq(PartCell) /\ Len(g) = Parts
        /\ \A p \in 1..Parts : g[p] = c[p]
    <2>1. (1 - 1) * Parts = 0
      BY <1>0
    <2>2. \A p \in 1..Parts : 0 + p = p
      OBVIOUS
    <2> QED BY <1>4, <2>1, <2>2 DEF FrameIs
  <1>6. g = c
    BY <1>0, <1>5, SeqEqual
  <1>7. ~EndsInside(c) /\ Tailpiece(c) = << >>
    <2>1. Len(c) % Parts = 0
      BY <1>0, <1>2 DEF r
    <2> QED BY <1>0, <2>1, TailpieceShape DEF EndsInside
  <1> QED BY <1>0, <1>2, <1>3, <1>6, <1>7 DEF g

(* Without a residual, giving consume one frame is dispatching it. *)
LEMMA TurnIsFrame ==
  ASSUME NEW d \in Drivers, d.residual = << >>, NEW c \in FrameCells
  PROVE  OnTurn(d, c) = OnFrame(d, c)
  <1>1. CASE d.garbled \/ Misread(c)
    BY <1>1 DEF OnTurn, OnFrame
  <1>2. CASE ~(d.garbled \/ Misread(c))
    <2>1. OnTurn(d, c) = Consume(d, c)
      BY <1>2 DEF OnTurn
    <2>2. /\ c \in Seq(PartCell) /\ Len(Frames(c)) = 1 /\ Frames(c)[1] = c
          /\ Tailpiece(c) = << >>
      BY FrameOfFrame
    <2>3. c = d.residual \o c
      BY <2>2, ConcatEmptySeq
    <2>4. PICK f : FrameByFrame(d, Frames(c), f) /\ LeftWith(Consume(d, c), f[1], << >>)
      BY <2>2, <2>3, ConsumeIs
    <2>5. f[1] = OnFrame(d, c)
      <3>1. 1 \in 1..1 /\ 1 - 1 = 0
        OBVIOUS
      <3> QED BY <2>2, <2>4, <3>1 DEF FrameByFrame
    <2> DEFINE e == OnFrame(d, c)
    <2>6. e \in Drivers /\ SameRest(e, d)
      BY OnFrameKeeps
    <2>7. ~Misread(<< >>)
      BY DEF Misread
    <2>8. Consume(d, c) = [e EXCEPT !.residual = << >>, !.garbled = @ \/ FALSE]
      BY <2>4, <2>5, <2>7 DEF LeftWith
    <2> HIDE DEF e
    <2>9. [e EXCEPT !.residual = << >>, !.garbled = @ \/ FALSE] = e
      <3>1. e.residual = << >> /\ e.garbled \in BOOLEAN
        BY <2>6 DEF SameRest, Drivers
      <3>2. (e.garbled \/ FALSE) = e.garbled
        BY <3>1
      <3> QED BY <2>6, <3>1, <3>2 DEF Drivers
    <2> QED BY <2>1, <2>8, <2>9 DEF e
  <1> QED BY <1>1, <1>2

(* A turn of the loop of the paced replay. *)
LEMMA OnTurnKeeps ==
  ASSUME NEW d \in Drivers, NEW c \in FrameCells
  PROVE  LET e == OnTurn(d, c)
         IN  /\ e \in Drivers /\ e.left = d.left /\ e.replays = d.replays
             /\ Expects(d.next_expected, d.forwarded) =>
                  Expects(e.next_expected, e.forwarded)
             /\ d.residual = << >> => e.residual = << >>
  <1>1. CASE d.garbled \/ Misread(c)
    <2>1. OnTurn(d, c) = [d EXCEPT !.garbled = TRUE]
      BY <1>1 DEF OnTurn
    <2> QED BY <2>1 DEF Drivers
  <1>2. CASE ~(d.garbled \/ Misread(c))
    <2>1. OnTurn(d, c) = Consume(d, c)
      BY <1>2 DEF OnTurn
    <2>2. c \in Seq(PartCell) /\ ~EndsInside(c)
      BY FrameOfFrame
    <2> QED BY <2>1, <2>2, ConsumeKeeps
  <1> QED BY <1>1, <1>2

(* f has the driver after 0, 1, ... turns of that loop. *)
TurnByTurn(d, frames, f) ==
  /\ f \in [0..Len(frames) -> Drivers] /\ f[0] = d
  /\ \A i \in 1..Len(frames) : f[i] = OnTurn(f[i - 1], frames[i])

(* What MapThenFoldSet chooses there. *)
FoldsOnTurn(d, frames, iter) ==
  iter = [t \in SUBSET DOMAIN frames |->
            IF t = {} THEN d ELSE OnTurn(iter[t \ {Max(t)}], frames[Max(t)])]

(* The paced replay goes through the frames in order. *)
LEMMA TimedFold ==
  ASSUME NEW d \in Drivers, NEW frames \in Seq(FrameCells)
  PROVE  \E f : TurnByTurn(d, frames, f) /\ FoldLeft(OnTurn, d, frames) = f[Len(frames)]
  <1> DEFINE n == Len(frames)
             X == Drivers
             it == CHOOSE iter : FoldsOnTurn(d, frames, iter)
             step == [a \in X \X (1..n) |-> OnTurn(a[1], frames[a[2]])]
  <1>1. FoldLeft(OnTurn, d, frames) = it[DOMAIN frames]
    BY DEF FoldLeft, MapThenFoldSet, FoldsOnTurn
  <1>2. n \in Nat /\ DOMAIN frames = 1..n /\ \A i \in 1..n : frames[i] \in FrameCells
    OBVIOUS
  <1>3. \A x \in X, c \in FrameCells : OnTurn(x, c) \in X
    BY OnTurnKeeps
  <1> HIDE DEF n, it, X
  <1>4. /\ step \in [X \X (1..n) -> X]
        /\ \A x \in X, i \in 1..n : step[<<x, i>>] = OnTurn(x, frames[i])
    <2>1. \A a \in X \X (1..n) : OnTurn(a[1], frames[a[2]]) \in X
      BY <1>2, <1>3
    <2> QED BY <2>1
  <1> HIDE DEF step
  <1>5. d \in X
    BY DEF X
  <1>6. \E iter : FoldsOnTurn(d, frames, iter)
    <2>1. PICK iter : IsFold(X, d, n, step, iter)
      BY <1>2, <1>4, <1>5, FoldExists
    <2>2. /\ iter \in [SUBSET (1..n) -> X] /\ iter[{}] = d
          /\ \A t \in SUBSET (1..n) :
               t # {} => iter[t] = step[<<iter[t \ {Max(t)}], Max(t)>>]
      BY <2>1 DEF IsFold
    <2>3. ASSUME NEW t \in SUBSET (1..n), t # {}
          PROVE  iter[t] = OnTurn(iter[t \ {Max(t)}], frames[Max(t)])
      <3>1. Max(t) \in 1..n /\ t \ {Max(t)} \in SUBSET (1..n)
        BY <1>2, <2>3, MaxOfBounded
      <3>2. iter[t \ {Max(t)}] \in X
        BY <2>2, <3>1
      <3> QED BY <1>4, <2>2, <2>3, <3>1, <3>2
    <2>4. FoldsOnTurn(d, frames, iter)
      BY <1>2, <2>2, <2>3 DEF FoldsOnTurn
    <2> QED BY <2>4
  <1>7. FoldsOnTurn(d, frames, it)
    BY <1>6 DEF it
  <1>8. /\ it[{}] = d
        /\ \A t \in SUBSET (1..n) :
             t # {} => it[t] = OnTurn(it[t \ {Max(t)}], frames[Max(t)])
    BY <1>2, <1>7 DEF FoldsOnTurn
  <1>9. ASSUME NEW t \in SUBSET (1..n), t # {}, it[t \ {Max(t)}] \in X
        PROVE  it[t] = step[<<it[t \ {Max(t)}], Max(t)>>]
    <2>1. Max(t) \in 1..n
      BY <1>2, <1>9, MaxOfBounded
    <2> QED BY <1>4, <1>8, <1>9, <2>1
  <1>10. PICK f : FoldsUp(X, d, n, step, f) /\ it[1..n] = f[n]
    <2>1. FoldsWithin(X, d, n, step, it)
      BY <1>8, <1>9 DEF FoldsWithin
    <2> QED BY <1>2, <1>4, <1>5, <2>1, FoldGoesUp
  <1>11. /\ f \in [0..n -> X] /\ f[0] = d
         /\ \A i \in 1..n : f[i] = step[<<f[i - 1], i>>]
    BY <1>10 DEF FoldsUp
  <1>12. ASSUME NEW i \in 1..n PROVE f[i] = OnTurn(f[i - 1], frames[i])
    <2>1. i - 1 \in 0..n
      BY <1>2
    <2> QED BY <1>4, <1>11, <2>1
  <1> QED BY <1>1, <1>2, <1>10, <1>11, <1>12 DEF TurnByTurn, n, X

(* Turn by turn, too, accept goes on from the newest message; and without a *)
(* residual the turns are what consume makes of the whole region.          *)
LEMMA TurnsKeep ==
  ASSUME NEW d \in Drivers, NEW frames \in Seq(FrameCells), NEW f,
         TurnByTurn(d, frames, f)
  PROVE  /\ \A i \in 0..Len(frames) :
              /\ f[i].left = d.left /\ f[i].replays = d.replays
              /\ Expects(d.next_expected, d.forwarded) =>
                   Expects(f[i].next_expected, f[i].forwarded)
              /\ d.residual = << >> => f[i].residual = << >>
         /\ d.residual = << >> => FrameByFrame(d, frames, f)
  <1> DEFINE n == Len(frames)
             Keeps(e) == /\ e.left = d.left /\ e.replays = d.replays
                         /\ Expects(d.next_expected, d.forwarded) =>
                              Expects(e.next_expected, e.forwarded)
                         /\ d.residual = << >> => e.residual = << >>
             S == {i \in 0..n : Keeps(f[i])}
  <1>0. /\ n \in Nat /\ f \in [0..n -> Drivers] /\ f[0] = d
        /\ \A i \in 1..n : f[i] = OnTurn(f[i - 1], frames[i])
        /\ \A i \in 1..n : frames[i] \in FrameCells
    BY DEF TurnByTurn
  <1>1. 0 \in S
    BY <1>0
  <1>2. \A i \in 0..(n - 1) : i \in S => i + 1 \in S
    <2> SUFFICES ASSUME NEW i \in 0..(n - 1), i \in S
                 PROVE  i + 1 \in S
      OBVIOUS
    <2>1. i + 1 \in 1..n /\ i + 1 \in 0..n /\ i \in 0..n /\ (i + 1) - 1 = i
      BY <1>0
    <2>2. f[i + 1] = OnTurn(f[i], frames[i + 1]) /\ f[i] \in Drivers
          /\ frames[i + 1] \in FrameCells
      BY <1>0, <2>1
    <2>3. /\ f[i + 1].left = f[i].left /\ f[i + 1].replays = f[i].replays
          /\ Expects(f[i].next_expected, f[i].forwarded) =>
               Expects(f[i + 1].next_expected, f[i + 1].forwarded)
          /\ f[i].residual = << >> => f[i + 1].residual = << >>
      <3> DEFINE x == f[i]
                 c == frames[i + 1]
                 y == f[i + 1]
      <3>1. x \in Drivers /\ c \in FrameCells /\ y = OnTurn(x, c)
        BY <2>2
      <3> HIDE DEF x, c, y
      <3>2. /\ y.left = x.left /\ y.replays = x.replays
            /\ Expects(x.next_expected, x.forwarded) => Expects(y.next_expected, y.forwarded)
            /\ x.residual = << >> => y.residual = << >>
        BY <3>1, OnTurnKeeps
      <3> QED BY <3>2 DEF x, y
    <2>4. Keeps(f[i])
      OBVIOUS
    <2>5. Keeps(f[i + 1])
      BY <2>3, <2>4
    <2> HIDE DEF Keeps
    <2> QED BY <2>1, <2>5
  <1>3. \A i \in 0..n : i \in S
    <2> HIDE DEF S
    <2> QED BY <1>0, <1>1, <1>2, BoundedInduction
  <1>4. ASSUME d.residual = << >>
        PROVE  FrameByFrame(d, frames, f)
    <2>1. ASSUME NEW i \in 1..n PROVE f[i] = OnFrame(f[i - 1], frames[i])
      <3>1. i - 1 \in 0..n
        BY <1>0
      <3>2. f[i - 1] \in Drivers /\ f[i - 1].residual = << >>
        BY <1>0, <1>3, <1>4, <3>1
      <3> QED BY <1>0, <3>2, TurnIsFrame
    <2> QED BY <1>0, <2>1 DEF FrameByFrame
  <1> QED BY <1>3, <1>4

-----------------------------------------------------------------------------
(* What a replay forwards.                                                 *)

(* The function that NewOf reads off at its end. *)
CountsNew(messages, seen, u) ==
  u = [k \in 0..Len(messages) |->
         IF k = 0 THEN << >>
         ELSE IF Newer(messages[k], seen) THEN Append(u[k - 1], messages[k])
         ELSE u[k - 1]]

(* u collects the messages that are new, in order. *)
Collects(messages, seen, u) ==
  /\ u \in [0..Len(messages) -> Seq(Entry)] /\ u[0] = << >>
  /\ \A k \in 1..Len(messages) :
       u[k] = IF Newer(messages[k], seen) THEN Append(u[k - 1], messages[k]) ELSE u[k - 1]

(* There is such a function, so that NewOf has its last value. *)
LEMMA NewOfIs ==
  ASSUME NEW messages \in Seq(Entry), NEW seen
  PROVE  \E u : Collects(messages, seen, u) /\ NewOf(messages, seen) = u[Len(messages)]
  <1> DEFINE X == Seq(Entry)
             L == Len(messages)
             step == [c \in (1..L) \X X |->
                        IF Newer(messages[c[1]], seen) THEN Append(c[2], messages[c[1]])
                        ELSE c[2]]
             it == CHOOSE u : CountsNew(messages, seen, u)
  <1>0. L \in Nat /\ << >> \in X /\ \A i \in 1..L : messages[i] \in Entry
    OBVIOUS
  <1>1. step \in [(1..L) \X X -> X]
    <2>1. ASSUME NEW c \in (1..L) \X X
          PROVE  (IF Newer(messages[c[1]], seen) THEN Append(c[2], messages[c[1]])
                  ELSE c[2]) \in X
      <3>1. c[2] \in Seq(Entry) /\ messages[c[1]] \in Entry
        BY <1>0
      <3>2. Append(c[2], messages[c[1]]) \in Seq(Entry)
        BY <3>1
      <3> QED BY <3>1, <3>2
    <2> HIDE DEF X
    <2> QED BY <2>1
  <1>2. \A i \in 1..L, x \in X :
          step[<<i, x>>] = IF Newer(messages[i], seen) THEN Append(x, messages[i]) ELSE x
    OBVIOUS
  <1>3. NewOf(messages, seen) = it[L]
    BY DEF NewOf, CountsNew
  <1> HIDE DEF X, step, L, it
  <1>4. PICK f : CountsUp(X, L, << >>, step, f)
    BY <1>0, <1>1, CountUpExists
  <1>5. f \in [0..L -> X] /\ f[0] = << >> /\ \A i \in 1..L : f[i] = step[<<i, f[i - 1]>>]
    BY <1>4 DEF CountsUp
  <1>6. ASSUME NEW i \in 1..L
        PROVE  f[i] = IF Newer(messages[i], seen) THEN Append(f[i - 1], messages[i])
                      ELSE f[i - 1]
    <2>1. f[i - 1] \in X
      <3>1. i - 1 \in 0..L
        BY <1>0
      <3> QED BY <1>5, <3>1
    <2> QED BY <1>2, <1>5, <2>1
  <1>7. CountsNew(messages, seen, f)
    <2>1. ASSUME NEW k \in 0..L
          PROVE  f[k] = IF k = 0 THEN << >>
                        ELSE IF Newer(messages[k], seen) THEN Append(f[k - 1], messages[k])
                        ELSE f[k - 1]
      <3>1. k # 0 => k \in 1..L
        BY <1>0
      <3> QED BY <1>5, <1>6, <3>1
    <2>2. f = [k \in 0..L |-> f[k]]
      BY <1>5
    <2> QED BY <2>1, <2>2 DEF CountsNew, L
  <1>8. CountsNew(messages, seen, it)
    BY <1>7 DEF it
  <1>9. it[0] = << >> /\ DOMAIN it = 0..L
    BY <1>0, <1>8 DEF CountsNew, L
  <1>10. ASSUME NEW i \in 1..L
         PROVE  it[i] = IF Newer(messages[i], seen) THEN Append(it[i - 1], messages[i])
                        ELSE it[i - 1]
    <2>1. i \in 0..L /\ i # 0
      BY <1>0
    <2> QED BY <1>8, <2>1 DEF CountsNew, L
  <1> DEFINE S == {i \in 0..L : it[i] \in X}
  <1>11. \A i \in 0..L : i \in S
    <2>1. 0 \in S
      BY <1>0, <1>9
    <2>2. \A i \in 0..(L - 1) : i \in S => i + 1 \in S
      <3> SUFFICES ASSUME NEW i \in 0..(L - 1), i \in S
                   PROVE  i + 1 \in S
        OBVIOUS
      <3>1. i + 1 \in 1..L /\ i + 1 \in 0..L /\ (i + 1) - 1 = i
        BY <1>0
      <3>2. it[i + 1] = IF Newer(messages[i + 1], seen) THEN Append(it[i], messages[i + 1])
                        ELSE it[i]
        BY <1>10, <3>1
      <3>3. Append(it[i], messages[i + 1]) \in X
        BY <1>0, <3>1 DEF X
      <3> QED BY <3>1, <3>2, <3>3
    <2> HIDE DEF S
    <2> QED BY <1>0, <2>1, <2>2, BoundedInduction
  <1>12. it \in [0..L -> X]
    <2>1. it = [i \in 0..L |-> it[i]]
      BY <1>8, <1>9 DEF CountsNew
    <2> QED BY <1>11, <2>1
  <1> QED BY <1>3, <1>9, <1>10, <1>12 DEF Collects, L, X

(* A message is newer than all that was forwarded when accept takes it. *)
LEMMA NewerIs ==
  ASSUME NEW next \in Nat, NEW seen \in Seq(Entry), Expects(next, seen), NEW m \in Entry
  PROVE  Newer(m, seen) <=> m.message >= next
  <1>1. MaxMessages \in Nat /\ m.message \in 1..MaxMessages
    BY CaptureAssumption DEF Entry
  <1>2. ASSUME NEW i \in DOMAIN seen PROVE seen[i].message \in Nat
    <2>1. seen[i] \in Entry
      OBVIOUS
    <2> QED BY <1>1, <2>1 DEF Entry
  <1>3. ASSUME m.message >= next, NEW i \in DOMAIN seen PROVE m.message > seen[i].message
    BY <1>1, <1>2, <1>3 DEF Expects
  <1>4. ASSUME Newer(m, seen) PROVE m.message >= next
    <2>1. CASE next = 1
      BY <1>1, <2>1
    <2>2. CASE next # 1
      <3>1. PICK i \in DOMAIN seen : seen[i].message + 1 = next
        BY <2>2 DEF Expects
      <3> QED BY <1>1, <1>2, <1>4, <3>1 DEF Newer
    <2> QED BY <2>1, <2>2
  <1> QED BY <1>3, <1>4 DEF Newer

(* Frames that begin at a first part, each of a later message. *)
Clean(frames) ==
  /\ \A k \in 1..Len(frames) : frames[k][1].part = 1
  /\ \A j, k \in 1..Len(frames) : j < k => frames[j][1].message < frames[k][1].message

MessagesIn(frames) == [k \in DOMAIN frames |-> Dispatched(frames[k])]

(* How far driver e has come from d, behind k frames with the messages ms: *)
(* it has forwarded new, and expects what d did or what follows frame k.   *)
Come(d, e, ms, k, new) ==
  /\ ~e.garbled /\ e.forwarded = d.forwarded \o new
  /\ \/ e.next_expected = d.next_expected
     \/ /\ k # 0 /\ e.next_expected = ms[k].message + 1
        /\ Newer(ms[k], d.forwarded)

(* Clean frames: exactly what is new is forwarded. *)
LEMMA CleanFrames ==
  ASSUME NEW d \in Drivers, ~d.garbled, Expects(d.next_expected, d.forwarded),
         NEW frames \in Seq(FrameCells), Clean(frames), NEW f, FrameByFrame(d, frames, f),
         NEW u, Collects(MessagesIn(frames), d.forwarded, u)
  PROVE  \A k \in 0..Len(frames) : Come(d, f[k], MessagesIn(frames), k, u[k])
  <1> DEFINE n == Len(frames)
             ms == MessagesIn(frames)
             S == {k \in 0..n : Come(d, f[k], ms, k, u[k])}
  <1>0. /\ n \in Nat /\ f \in [0..n -> Drivers] /\ f[0] = d
        /\ \A i \in 1..n : f[i] = OnFrame(f[i - 1], frames[i])
        /\ \A i \in 1..n : frames[i] \in FrameCells
        /\ DOMAIN frames = 1..n
    BY DEF FrameByFrame
  <1>1. /\ \A k \in 1..n : /\ ms[k] = Dispatched(frames[k]) /\ ms[k] \in Entry
                           /\ ms[k].message = frames[k][1].message /\ ~Misread(frames[k])
        /\ Len(ms) = n
    <2>1. \A k \in 1..n : /\ Dispatched(frames[k]) \in Entry
                          /\ Dispatched(frames[k]).message = frames[k][1].message
                          /\ Misread(frames[k]) <=> frames[k][1].part # 1
      BY <1>0, DispatchedType
    <2>2. ms = [k \in 1..n |-> Dispatched(frames[k])]
      BY <1>0 DEF MessagesIn
    <2>3. Len(ms) = n
      BY <1>0, <2>2
    <2> QED BY <2>1, <2>2, <2>3 DEF Clean
  <1>2. /\ u \in [0..n -> Seq(Entry)] /\ u[0] = << >>
        /\ \A k \in 1..n :
             u[k] = IF Newer(ms[k], d.forwarded) THEN Append(u[k - 1], ms[k]) ELSE u[k - 1]
    BY <1>1 DEF Collects
  <1>3. ASSUME NEW j \in 1..n, NEW k \in 1..n, j < k PROVE ms[j].message < ms[k].message
    BY <1>1, <1>3 DEF Clean
  <1>4. d.forwarded \in Seq(Entry) /\ d.next_expected \in Nat /\ MaxMessages \in Nat
    BY CaptureAssumption DEF Drivers
  <1> HIDE DEF n, ms
  <1>5. 0 \in S
    <2>1. d.forwarded \o << >> = d.forwarded
      BY <1>4, ConcatEmptySeq
    <2>2. Come(d, d, ms, 0, << >>)
      BY <2>1 DEF Come
    <2>3. 0 \in 0..n
      BY <1>0
    <2> QED BY <1>0, <1>2, <2>2, <2>3
  <1>6. \A k \in 0..(n - 1) : k \in S => k + 1 \in S
    <2> SUFFICES ASSUME NEW k \in 0..(n - 1), k \in S
                 PROVE  k + 1 \in S
      OBVIOUS
    <2> DEFINE i == k + 1
               e == f[k]
               m == ms[i]
    <2>1. i \in 1..n /\ i \in 0..n /\ k \in 0..n /\ i - 1 = k
      BY <1>0
    <2>2. e \in Drivers /\ frames[i] \in FrameCells /\ f[i] = OnFrame(e, frames[i])
      BY <1>0, <2>1
    <2>3. Come(d, e, ms, k, u[k])
      OBVIOUS
    <2>4. m = Dispatched(frames[i]) /\ m \in Entry /\ ~Misread(frames[i])
      BY <1>1, <2>1
    <2>5. f[i] = AcceptNew(e, m)
      BY <2>2, <2>3, <2>4 DEF OnFrame, Come
    <2>6. Newer(m, d.forwarded) <=> m.message >= d.next_expected
      BY <1>4, <2>4, NewerIs
    <2>7. m.message \in Nat
      BY <1>4, <2>4 DEF Entry
    <2>8. Newer(m, d.forwarded) <=> m.message >= e.next_expected
      <3>1. CASE e.next_expected = d.next_expected
        BY <2>6, <3>1
      <3>2. CASE k # 0 /\ e.next_expected = ms[k].message + 1 /\ Newer(ms[k], d.forwarded)
        <4>1. k \in 1..n /\ k < i
          BY <1>0, <3>2
        <4>2. ms[k].message < m.message /\ ms[k] \in Entry
          BY <1>1, <1>3, <2>1, <4>1
        <4>3. ms[k].message \in Nat
          BY <1>4, <4>2 DEF Entry
        <4>4. m.message >= e.next_expected
          BY <2>7, <3>2, <4>2, <4>3
        <4>5. ms[k].message >= d.next_expected
          BY <1>4, <3>2, <4>2, NewerIs
        <4>6. m.message >= d.next_expected
          BY <1>4, <2>7, <4>2, <4>3, <4>5
        <4> QED BY <2>6, <4>4, <4>6
      <3> QED BY <2>3, <3>1, <3>2 DEF Come
    <2>9. /\ f[i].garbled = e.garbled
          /\ IF m.message >= e.next_expected
             THEN f[i].forwarded = Append(e.forwarded, m) /\ f[i].next_expected = m.message + 1
             ELSE f[i] = e
      BY <2>2, <2>4, <2>5, AcceptKeeps
    <2>10. u[i] = IF Newer(m, d.forwarded) THEN Append(u[k], m) ELSE u[k]
      BY <1>2, <2>1
    <2>11. u[k] \in Seq(Entry)
      BY <1>2, <2>1
    <2>12. Come(d, f[i], ms, i, u[i])
      <3>1. CASE Newer(m, d.forwarded)
        <4> HIDE DEF i, e, m
        <4>1. d.forwarded \o Append(u[k], m) = Append(d.forwarded \o u[k], m)
          <5> DEFINE a == d.forwarded
                     b == u[k]
          <5>1. a \in Seq(Entry) /\ b \in Seq(Entry) /\ m \in Entry
            BY <1>4, <2>4, <2>11
          <5> HIDE DEF a, b
          <5>2. a \o Append(b, m) = Append(a \o b, m)
            BY <5>1, ConcatAppend
          <5> QED BY <5>2 DEF a, b
        <4>2. f[i].forwarded = d.forwarded \o u[i]
          BY <2>3, <2>8, <2>9, <2>10, <3>1, <4>1 DEF Come
        <4>3. ~f[i].garbled /\ f[i].next_expected = m.message + 1
          BY <2>3, <2>8, <2>9, <3>1 DEF Come
        <4>4. i # 0
          BY <2>1
        <4> QED BY <3>1, <4>2, <4>3, <4>4 DEF Come, m
      <3>2. CASE ~Newer(m, d.forwarded)
        <4>1. f[i] = e /\ u[i] = u[k]
          BY <2>8, <2>9, <2>10, <3>2
        <4>2. e.next_expected = d.next_expected
          <5>1. ASSUME k # 0, Newer(ms[k], d.forwarded) PROVE FALSE
            <6>1. k \in 1..n /\ k < i
              BY <1>0, <5>1
            <6>2. ms[k].message < m.message /\ ms[k] \in Entry
              BY <1>1, <1>3, <2>1, <6>1
            <6>3. ms[k].message \in Nat
              BY <1>4, <6>2 DEF Entry
            <6>4. ms[k].message >= d.next_expected
              BY <1>4, <5>1, <6>2, NewerIs
            <6> QED BY <1>4, <2>6, <2>7, <3>2, <6>2, <6>3, <6>4
          <5> QED BY <2>3, <5>1 DEF Come
        <4> QED BY <2>3, <4>1, <4>2 DEF Come
      <3> QED BY <3>1, <3>2
    <2> QED BY <2>1, <2>12
  <1>7. \A k \in 0..n : k \in S
    <2> HIDE DEF S
    <2> QED BY <1>0, <1>5, <1>6, BoundedInduction
  <1> QED BY <1>7 DEF n, ms

(* A region that is not torn has clean frames, and behind them again the     *)
(* beginning of a message.                                                 *)
LEMMA UntornClean ==
  ASSUME NEW cells \in Seq(PartCell), Untorn(cells), Rising(cells)
  PROVE  Clean(Frames(cells)) /\ ~Misread(Tailpiece(cells))
  <1> DEFINE f == Frames(cells)
             n == Len(f)
             L == Len(cells)
  <1>0. Parts \in Nat \ {0} /\ MaxMessages \in Nat /\ L \in Nat /\ DOMAIN cells = 1..L
    BY CaptureAssumption
  <1>1. /\ n \in Nat /\ \A k \in 1..n : FrameIs(cells, k, f[k], PartCell)
    BY FramesShape
  <1>2. ASSUME NEW i \in 1..L PROVE cells[i].part = 1 + ((i - 1) % Parts)
    <2> HIDE DEF L
    <2>1. i \in DOMAIN cells
      BY <1>0
    <2> QED BY <2>1 DEF Untorn
  <1>3. ASSUME NEW q \in Nat, NEW i \in 1..L, i = Parts * q + 1 PROVE cells[i].part = 1
    <2>1. i - 1 \in Int /\ i - 1 = 0 + Parts * q
      BY <1>0, <1>3
    <2> DEFINE v == i - 1
    <2>2. Parts \in Nat /\ Parts > 0 /\ 0 \in Int /\ q \in Int
      BY <1>0
    <2>3. v \in Int /\ v = 0 + Parts * q
      BY <2>1
    <2> HIDE DEF v
    <2>4. v % Parts = 0 % Parts
      BY <2>2, <2>3, ModMultiple
    <2>5. 0 % Parts = 0
      BY <1>0
    <2> QED BY <1>2, <2>4, <2>5 DEF v
  <1> HIDE DEF f, n, L
  <1>4. ASSUME NEW k \in 1..n
        PROVE  LET i == (k - 1) * Parts + 1
               IN  i \in 1..L /\ f[k][1] = cells[i] /\ cells[i].part = 1
    <2> DEFINE a == (k - 1) * Parts
    <2>1. /\ a \in Nat /\ a + Parts <= L
          /\ \A p \in 1..Parts : f[k][p] = cells[a + p]
      BY <1>1 DEF FrameIs, L
    <2>2. k - 1 \in Nat /\ a = Parts * (k - 1)
      BY <1>0, <1>1
    <2> HIDE DEF a
    <2>3. a + 1 \in 1..L /\ 1 \in 1..Parts
      BY <1>0, <2>1
    <2>4. cells[a + 1].part = 1
      BY <1>3, <2>2, <2>3
    <2> QED BY <2>1, <2>3, <2>4 DEF a
  <1>5. ASSUME NEW j \in 1..n, NEW k \in 1..n, j < k
        PROVE  f[j][1].message < f[k][1].message
    <2> DEFINE a == (j - 1) * Parts
               b == (k - 1) * Parts
    <2>1. /\ a + 1 \in 1..L /\ f[j][1] = cells[a + 1] /\ cells[a + 1].part = 1
          /\ b + 1 \in 1..L /\ f[k][1] = cells[b + 1] /\ cells[b + 1].part = 1
      BY <1>4
    <2>2. a \in Int /\ b \in Int /\ a < b
      <3>1. b = a + (k - j) * Parts /\ (k - j) * Parts > 0 /\ a \in Int
        <4>1. j \in Int /\ k \in Int /\ k - j > 0
          BY <1>1, <1>5
        <4> QED BY <1>0, <4>1
      <3>2. (k - j) * Parts \in Int
        BY <1>0, <1>1
      <3> HIDE DEF a, b
      <3> QED BY <3>1, <3>2
    <2> HIDE DEF a, b
    <2>3. Before(cells[a + 1], cells[b + 1])
      BY <2>1, <2>2 DEF Rising, L
    <2> QED BY <2>1, <2>3 DEF Before
  <1>6. ~Misread(Tailpiece(cells))
    <2> DEFINE q == L \div Parts
               a == Parts * q
               t == Tailpiece(cells)
    <2>1. q \in Nat
      BY <1>0, Quotient
    <2>2. t # << >> => a + 1 \in 1..L /\ t[1] = cells[a + 1]
      BY TailpieceShape DEF L
    <2> HIDE DEF q, t
    <2>3. t # << >> => t[1].part = 1
      BY <1>3, <2>1, <2>2
    <2> QED BY <2>3 DEF Misread, t
  <1> QED BY <1>4, <1>5, <1>6 DEF Clean, f, n

-----------------------------------------------------------------------------
(* The steps of the driver.                                                *)

(* The driver expects what follows the newest message it has forwarded, and *)
(* only a MaxSpeed replay of a cut-off capture leaves cells in residual_.  *)
DriverOk(d) ==
  /\ d \in Drivers /\ Expects(d.next_expected, d.forwarded)
  /\ ~d.left => d.residual = << >>

(* What a replay makes of the driver, before the replay is counted. *)
Replayed(e, d) ==
  /\ e \in Drivers /\ e.left = d.left /\ e.replays = d.replays
  /\ Expects(e.next_expected, e.forwarded)

(* A new ReplayDriver. *)
LEMMA NewDriverOk == DriverOk(NewDriver)
  <1>1. NewDriver \in Drivers
    BY DEF NewDriver, Drivers
  <1>2. Expects(1, << >>)
    BY DEF Expects
  <1> QED BY <1>1, <1>2 DEF DriverOk, NewDriver

(* The paced replay of any cells leaves nothing new behind. *)
LEMMA TimedKeeps ==
  ASSUME NEW d, DriverOk(d), NEW cells \in Seq(PartCell)
  PROVE  LET e == ReplayTimed(d, cells)
         IN  Replayed(e, d) /\ (d.residual = << >> => e.residual = << >>)
  <1> DEFINE frames == Frames(cells)
             n == Len(frames)
             e == ReplayTimed(d, cells)
  <1>0. d \in Drivers /\ Expects(d.next_expected, d.forwarded) /\ frames \in Seq(FrameCells)
    BY FramesType DEF DriverOk
  <1>1. PICK f : TurnByTurn(d, frames, f) /\ FoldLeft(OnTurn, d, frames) = f[n]
    BY <1>0, TimedFold
  <1>2. e = f[n]
    BY <1>1 DEF ReplayTimed
  <1> HIDE DEF frames, e
  <1>3. n \in 0..n /\ f[n] \in Drivers
    BY <1>0, <1>1 DEF TurnByTurn
  <1>4. /\ f[n].left = d.left /\ f[n].replays = d.replays
        /\ Expects(f[n].next_expected, f[n].forwarded)
        /\ d.residual = << >> => f[n].residual = << >>
    BY <1>0, <1>1, <1>3, TurnsKeep
  <1> QED BY <1>2, <1>3, <1>4 DEF Replayed, e

(* The replay at full speed does so when the capture ends with a message. *)
LEMMA MaxKeeps ==
  ASSUME NEW d, DriverOk(d), NEW cells \in Seq(PartCell)
  PROVE  LET e == ReplayMax(d, cells)
         IN  /\ Replayed(e, d)
             /\ d.residual = << >> /\ ~EndsInside(cells) => e.residual = << >>
  <1>1. d \in Drivers /\ Expects(d.next_expected, d.forwarded)
    BY DEF DriverOk
  <1> QED BY <1>1, ConsumeKeeps DEF ReplayMax, Replayed

(* A call of replay, in each mode. *)
LEMMA ReplayKeeps ==
  ASSUME Ordered, DriverOk(driver), Replay
  PROVE  DriverOk(driver')
  <1>1. reader.valid /\ reader.bytes \in Seq(PartCell)
    BY DEF Replay, Replays, Ordered
  <1>2. ASSUME NEW d, NEW timed \in BOOLEAN, Replays(d, timed), Replayed(d, driver),
               driver.residual = << >> /\ (timed \/ ~EndsInside(reader.bytes)) =>
                 d.residual = << >>
        PROVE  DriverOk(driver')
    <2>1. driver' = [d EXCEPT !.replays = @ + 1,
                              !.left = @ \/ (~timed /\ EndsInside(reader.bytes))]
      BY <1>2 DEF Replays
    <2>2. d \in Drivers /\ d.left = driver.left /\ Expects(d.next_expected, d.forwarded)
      BY <1>2 DEF Replayed
    <2> DEFINE some == d.left \/ (~timed /\ EndsInside(reader.bytes))
    <2>3. some \in BOOLEAN /\ d.replays + 1 \in Nat
      BY <2>2 DEF Drivers
    <2>4. driver' = [d EXCEPT !.replays = d.replays + 1, !.left = some]
      BY <2>1, <2>2 DEF Drivers
    <2> HIDE DEF some
    <2>5. /\ driver' \in Drivers /\ driver'.left = some /\ driver'.residual = d.residual
          /\ driver'.next_expected = d.next_expected /\ driver'.forwarded = d.forwarded
      BY <2>2, <2>3, <2>4 DEF Drivers
    <2>6. ~some => d.residual = << >>
      BY <1>2, <2>2 DEF some, DriverOk
    <2> QED BY <2>2, <2>5, <2>6 DEF DriverOk
  <1>3. CASE Replays(ReplayTimed(driver, reader.bytes), TRUE)
    <2>1. /\ Replayed(ReplayTimed(driver, reader.bytes), driver)
          /\ driver.residual = << >> => ReplayTimed(driver, reader.bytes).residual = << >>
      BY <1>1, TimedKeeps
    <2> QED BY <1>2, <1>3, <2>1
  <1>4. CASE Replays(ReplayMax(driver, reader.bytes), FALSE)
    <2>1. /\ Replayed(ReplayMax(driver, reader.bytes), driver)
          /\ driver.residual = << >> /\ ~EndsInside(reader.bytes) =>
               ReplayMax(driver, reader.bytes).residual = << >>
      BY <1>1, MaxKeeps
    <2> QED BY <1>2, <1>4, <2>1
  <1> QED BY <1>3, <1>4 DEF Replay

(* What ReplayAppendsNew says of the driver e that a replay makes of d. *)
Appends(e, d, cells) ==
  ~e.garbled /\ e.forwarded = d.forwarded \o NewOf(MessagesIn(Frames(cells)), d.forwarded)

(* Either replay of a capture that is not torn, by a driver with nothing in *)
(* residual_: the paced turns are the frames that consume goes through, and *)
(* behind them nothing can be misread.                                     *)
LEMMA UntornAppends ==
  ASSUME NEW d, DriverOk(d), ~d.garbled, d.residual = << >>,
         NEW cells \in Seq(PartCell), Untorn(cells), Rising(cells)
  PROVE  Appends(ReplayTimed(d, cells), d, cells) /\ Appends(ReplayMax(d, cells), d, cells)
  <1> DEFINE frames == Frames(cells)
             ms == MessagesIn(frames)
             n == Len(frames)
  <1>0. /\ d \in Drivers /\ Expects(d.next_expected, d.forwarded)
        /\ frames \in Seq(FrameCells) /\ n \in Nat
    BY FramesType DEF DriverOk
  <1>1. Clean(frames) /\ ~Misread(Tailpiece(cells))
    BY UntornClean
  <1>2. ms \in Seq(Entry) /\ Len(ms) = n
    <2> HIDE DEF frames
    <2>1. DOMAIN frames = 1..n /\ \A k \in 1..n : frames[k] \in FrameCells
      BY <1>0
    <2>2. \A k \in 1..n : Dispatched(frames[k]) \in Entry
      BY <2>1, DispatchedType
    <2>3. ms = [k \in 1..n |-> Dispatched(frames[k])]
      BY <2>1 DEF MessagesIn
    <2> HIDE DEF n, ms
    <2>4. ms \in [1..n -> Entry]
      BY <2>2, <2>3
    <2> QED BY <1>0, <2>4
  <1>3. PICK u : Collects(ms, d.forwarded, u) /\ NewOf(ms, d.forwarded) = u[n]
    BY <1>2, NewOfIs
  <1> HIDE DEF frames, ms
  <1>4. ASSUME NEW f, FrameByFrame(d, frames, f)
        PROVE  ~f[n].garbled /\ f[n].forwarded = d.forwarded \o NewOf(ms, d.forwarded)
    <2>1. n \in 0..n
      BY <1>0
    <2>2. \A k \in 0..n : Come(d, f[k], ms, k, u[k])
      BY <1>0, <1>1, <1>3, <1>4, CleanFrames DEF ms
    <2>3. Come(d, f[n], ms, n, u[n])
      BY <2>1, <2>2
    <2> QED BY <1>3, <2>3 DEF Come
  <1>5. Appends(ReplayTimed(d, cells), d, cells)
    <2>1. PICK f : TurnByTurn(d, frames, f) /\ FoldLeft(OnTurn, d, frames) = f[n]
      BY <1>0, TimedFold
    <2>2. FrameByFrame(d, frames, f)
      BY <1>0, <2>1, TurnsKeep
    <2>3. ReplayTimed(d, cells) = f[n]
      BY <2>1 DEF ReplayTimed, frames
    <2> QED BY <1>4, <2>2, <2>3 DEF Appends, frames, ms
  <1>6. Appends(ReplayMax(d, cells), d, cells)
    <2>1. cells = d.residual \o cells
      BY ConcatEmptySeq
    <2>2. PICK f : /\ FrameByFrame(d, frames, f)
                   /\ LeftWith(Consume(d, cells), f[n], Tailpiece(cells))
      BY <1>0, <2>1, ConsumeIs DEF frames
    <2>3. f[n] \in Drivers
      BY <1>0, <2>2 DEF FrameByFrame
    <2>4. /\ Consume(d, cells).garbled = (f[n].garbled \/ Misread(Tailpiece(cells)))
          /\ Consume(d, cells).forwarded = f[n].forwarded
      BY <2>2, <2>3 DEF LeftWith, Drivers
    <2> QED BY <1>1, <1>4, <2>2, <2>4 DEF ReplayMax, Appends, frames, ms
  <1> QED BY <1>5, <1>6

(* The strengthening: the order of the capture, and the driver's. *)
ReplayInv == Inv /\ Ordered /\ DriverOk(driver)

LEMMA ReplayInvInit == ReplayInit => ReplayInv
  <1> SUFFICES ASSUME ReplayInit PROVE ReplayInv
    OBVIOUS
  <1>1. Inv
    BY InitInv DEF ReplayInit
  <1>2. Ordered
    BY DEF ReplayInit, Init, Ordered, Rising
  <1>3. DriverOk(driver)
    BY NewDriverOk DEF ReplayInit
  <1> QED BY <1>1, <1>2, <1>3 DEF ReplayInv

LEMMA ReplayInvNext == ReplayInv /\ [ReplayNext]_<<vars, driver>> => ReplayInv'
  <1> SUFFICES ASSUME ReplayInv, [ReplayNext]_<<vars, driver>> PROVE ReplayInv'
    OBVIOUS
  <1>1. [Next]_vars
    BY DEF ReplayNext, Replay, Replays, Restart
  <1>2. Inv' /\ Ordered'
    BY <1>1, NextInv, NextOrdered DEF ReplayInv
  <1>3. CASE Replay
    BY <1>2, <1>3, ReplayKeeps DEF ReplayInv
  <1>4. CASE Restart
    <2>1. driver' = NewDriver
      BY <1>4 DEF Restart
    <2> QED BY <1>2, <2>1, NewDriverOk DEF ReplayInv
  <1>5. CASE UNCHANGED driver
    BY <1>2, <1>5 DEF ReplayInv
  <1> QED BY <1>3, <1>4, <1>5 DEF ReplayNext

(* The step of ReplayAppendsNew. *)
LEMMA ReplayStep ==
  ASSUME ReplayInv, Replay, Untorn(reader.bytes), ~driver.left
  PROVE  Appends(driver', driver, reader.bytes)
  <1>1. /\ reader.valid /\ reader.bytes \in Seq(PartCell) /\ Rising(reader.bytes)
        /\ ~driver.garbled
    BY DEF Replay, Replays, ReplayInv, Ordered
  <1>2. DriverOk(driver) /\ driver.residual = << >>
    BY DEF ReplayInv, DriverOk
  <1>3. /\ Appends(ReplayTimed(driver, reader.bytes), driver, reader.bytes)
        /\ Appends(ReplayMax(driver, reader.bytes), driver, reader.bytes)
    BY <1>1, <1>2, UntornAppends
  <1>4. /\ ReplayTimed(driver, reader.bytes) \in Drivers
        /\ ReplayMax(driver, reader.bytes) \in Drivers
    BY <1>1, <1>2, TimedKeeps, MaxKeeps DEF Replayed
  <1>5. ASSUME NEW d \in Drivers, NEW timed \in BOOLEAN, Replays(d, timed)
        PROVE  driver'.garbled = d.garbled /\ driver'.forwarded = d.forwarded
    BY <1>5 DEF Replays, Drivers
  <1>6. \/ Replays(ReplayTimed(driver, reader.bytes), TRUE)
        \/ Replays(ReplayMax(driver, reader.bytes), FALSE)
    BY DEF Replay
  <1> QED BY <1>3, <1>4, <1>5, <1>6 DEF Appends

(* Each replay, in each mode, of a capture that is not torn hands on exactly *)
(* its whole messages that are newer than all before, however often the    *)
(* same ReplayDriver has replayed this capture or another: unless it was   *)
(* left with a partial message.                                            *)
THEOREM ReplaysAlwaysAppendNew == ReplaySpec => ReplayAppendsNew
  <1> DEFINE A == driver'.replays > driver.replays /\ Untorn(reader.bytes) /\ ~driver.left =>
                    /\ ~driver'.garbled
                    /\ driver'.forwarded = driver.forwarded
                         \o NewOf([k \in DOMAIN Frames(reader.bytes) |->
                                     Dispatched(Frames(reader.bytes)[k])], driver.forwarded)
  <1>1. ASSUME ReplayInv, [ReplayNext]_<<vars, driver>>
        PROVE  [A]_<<vars, driver>>
    <2>1. CASE Replay
      BY <1>1, <2>1, ReplayStep DEF Appends, MessagesIn
    <2>2. driver.replays \in Nat
      BY <1>1 DEF ReplayInv, DriverOk, Drivers
    <2>3. CASE Restart
      <3>1. driver'.replays = 0
        BY <2>3 DEF Restart, NewDriver
      <3>2. ~(driver'.replays > driver.replays)
        BY <2>2, <3>1
      <3> QED BY <3>2
    <2>4. CASE UNCHANGED driver
      <3>1. ~(driver'.replays > driver.replays)
        BY <2>2, <2>4
      <3> QED BY <3>1
    <2> QED BY <1>1, <2>1, <2>3, <2>4 DEF ReplayNext
  <1>2. ReplaySpec => []ReplayInv
    BY ReplayInvInit, ReplayInvNext, PTL DEF ReplaySpec
  <1> QED BY <1>1, <1>2, PTL DEF ReplaySpec, ReplayAppendsNew
==============================================================================
