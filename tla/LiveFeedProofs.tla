---------------------------- MODULE LiveFeedProofs ---------------------------
(***************************************************************************)
(* Proofs about a live feed, for every number and size of messages, every  *)
(* size of the buffers between the two processes, and every timeout.       *)
(***************************************************************************)
EXTENDS LiveFeed, DataLemmas

-----------------------------------------------------------------------------
(* UDP.                                                                    *)

(* A quotient is not larger than d when the number is below (d + 1) * m. *)
LEMMA QuotientBelow ==
  ASSUME NEW m \in Nat, m > 0, NEW d \in Int, NEW x \in Int, x < d * m + m
  PROVE  x \div m <= d
  <1> DEFINE q == x \div m
             r == x % m
  <1>1. q \in Int /\ r \in 0..(m - 1) /\ x = m * q + r
    OBVIOUS
  <1> HIDE DEF q, r
  <1>2. CASE q > d
    <2>1. q >= d + 1
      BY <1>1, <1>2
    <2>2. m * q >= m * (d + 1)
      BY <1>1, <2>1
    <2>3. m * (d + 1) = d * m + m
      OBVIOUS
    <2> QED BY <1>1, <2>2, <2>3
  <1> QED BY <1>1, <1>2 DEF q

UdpTypes ==
  /\ sender \in {"off", "sending"} /\ sent \in 0..Datagrams /\ pause \in 0..MaxPause
  /\ receiver \in {"off", "receiving", "timeout", "error"}
  /\ idle \in 0..IdleTicks
  /\ queue \in Seq(Nat) /\ got \in Seq(Nat)
  /\ sender = "off" => sent = 0 /\ queue = << >> /\ got = << >>

(* Nothing is received that was not sent. *)
OnlySent ==
  /\ \A i \in 1..Len(queue) : queue[i] <= sent
  /\ \A i \in 1..Len(got) : got[i] <= sent

(* Each datagram since the last one received accounts for MaxPause ticks of *)
(* the present wait at most, as long as the sender goes on.                *)
Newest == got[Len(got)]
WaitAccounted ==
  Sending /\ got # << >> => idle <= (sent - Newest) * MaxPause + pause

UdpInv ==
  /\ UdpTypes /\ OnlySent /\ WaitAccounted
  /\ receiver = "timeout" => idle = IdleTicks

(* Both processes are off. *)
LEMMA UdpInitInv == UdpInit => UdpInv
  BY UdpAssumption
     DEF UdpInit, UdpInv, UdpTypes, OnlySent, WaitAccounted, Sending

(* Each step of the sender, of the receiver and of time. *)
LEMMA UdpNextInv == UdpInv /\ UdpNext => UdpInv'
  <1> SUFFICES ASSUME UdpInv, UdpNext PROVE UdpInv'
    OBVIOUS
  <1> USE UdpAssumption
  <1>t. UdpTypes /\ OnlySent /\ WaitAccounted /\ (receiver = "timeout" => idle = IdleTicks)
    BY DEF UdpInv
  <1>n. /\ sent \in Nat /\ pause \in Nat /\ idle \in Nat /\ Len(got) \in Nat
        /\ Len(queue) \in Nat
    BY <1>t DEF UdpTypes
  <1>l. got # << >> => Newest \in Nat /\ Newest <= sent /\ sent - Newest \in Nat
    <2>1. got # << >> => Len(got) \in 1..Len(got)
      BY <1>t DEF UdpTypes
    <2>2. got # << >> => Newest \in Nat /\ Newest <= sent
      BY <1>t, <2>1 DEF UdpTypes, OnlySent, Newest
    <2> QED BY <1>n, <2>2
  <1>1. CASE OpenSender \/ Bind \/ Timeout \/ RecvInterrupted
    <2>1. UNCHANGED <<sent, pause, idle, queue, got>>
      BY <1>1 DEF OpenSender, Bind, Timeout, RecvInterrupted
    <2>2. UdpTypes'
      BY <1>1, <1>t, <2>1 DEF UdpTypes, OpenSender, Bind, Timeout, RecvInterrupted
    <2>3. OnlySent'
      BY <1>t, <2>1 DEF OnlySent
    <2>4. WaitAccounted'
      <3>1. Sending' /\ got' # << >> => Sending /\ got # << >>
        BY <1>1, <1>t, <2>1
           DEF Sending, OpenSender, Bind, Timeout, RecvInterrupted, UdpTypes
      <3>2. (sent - Newest)' = sent - Newest /\ idle' = idle /\ pause' = pause
        BY <2>1 DEF Newest
      <3> QED BY <1>t, <3>1, <3>2 DEF WaitAccounted
    <2>5. receiver' = "timeout" => idle' = IdleTicks
      BY <1>1, <1>t, <2>1 DEF OpenSender, Bind, Timeout, RecvInterrupted
    <2> QED BY <2>2, <2>3, <2>4, <2>5 DEF UdpInv
  <1>2. CASE SendDatagram \/ SendLost
    <2>1. /\ Sending /\ sent' = sent + 1 /\ pause' = 0
          /\ UNCHANGED <<sender, receiver, idle, got>>
          /\ queue' = queue \/ queue' = Append(queue, sent + 1)
      BY <1>2 DEF SendDatagram, SendLost
    <2>2. UdpTypes'
      <3>1. sender = "sending" /\ sent' \in 0..Datagrams
        BY <1>t, <2>1 DEF Sending, UdpTypes
      <3>2. queue' \in Seq(Nat)
        <4>1. queue \in Seq(Nat) /\ sent + 1 \in Nat
          BY <1>t, <1>n DEF UdpTypes
        <4>2. Append(queue, sent + 1) \in Seq(Nat)
          BY <4>1, AppendProperties
        <4> QED BY <2>1, <4>1, <4>2
      <3> QED BY <1>t, <2>1, <3>1, <3>2 DEF UdpTypes
    <2>3. OnlySent'
      <3>1. ASSUME NEW i \in 1..Len(got) PROVE got[i] <= sent + 1
        BY <1>t, <1>n DEF OnlySent, UdpTypes
      <3>2. ASSUME NEW i \in 1..Len(queue') PROVE queue'[i] <= sent + 1
        <4>1. CASE queue' = queue
          BY <1>t, <1>n, <4>1 DEF OnlySent, UdpTypes
        <4>2. CASE queue' = Append(queue, sent + 1)
          <5>1. queue \in Seq(Nat) /\ sent + 1 \in Nat
            BY <1>t, <1>n DEF UdpTypes
          <5>2. /\ Len(queue') = Len(queue) + 1 /\ queue'[Len(queue) + 1] = sent + 1
                /\ \A j \in 1..Len(queue) : queue'[j] = queue[j]
            BY <4>2, <5>1, AppendProperties
          <5>3. CASE i = Len(queue) + 1
            BY <1>n, <5>2, <5>3
          <5>4. CASE i # Len(queue) + 1
            <6>1. i \in 1..Len(queue)
              BY <1>n, <5>2, <5>4
            <6>2. queue[i] <= sent /\ queue[i] \in Nat
              BY <1>t, <5>1, <6>1 DEF OnlySent
            <6> QED BY <1>n, <5>2, <6>1, <6>2
          <5> QED BY <5>3, <5>4
        <4> QED BY <2>1, <4>1, <4>2
      <3> QED BY <2>1, <3>1, <3>2 DEF OnlySent
    <2>4. WaitAccounted'
      <3>0. got' = got /\ Newest' = Newest /\ idle' = idle /\ sent' = sent + 1 /\ pause' = 0
        BY <2>1 DEF Newest
      <3> SUFFICES ASSUME got # << >>
                   PROVE  idle' <= (sent' - Newest') * MaxPause + pause'
        BY <3>0 DEF WaitAccounted
      <3> DEFINE a == sent - Newest
      <3>1. a \in Nat /\ (sent + 1) - Newest = a + 1
        BY <1>n, <1>l
      <3>2. idle <= a * MaxPause + pause
        BY <1>t, <2>1 DEF WaitAccounted
      <3> HIDE DEF a
      <3>3. (a + 1) * MaxPause = a * MaxPause + MaxPause /\ a * MaxPause \in Nat
        BY <3>1
      <3>4. pause <= MaxPause
        BY <1>t DEF UdpTypes
      <3>5. idle <= (a + 1) * MaxPause + 0
        BY <1>n, <3>1, <3>2, <3>3, <3>4
      <3>6. sent' - Newest' = a + 1
        <4>1. sent' - Newest' = (sent + 1) - Newest
          BY <3>0
        <4> QED BY <3>1, <4>1
      <3> QED BY <3>0, <3>5, <3>6, Zenon
    <2> QED BY <1>t, <2>1, <2>2, <2>3, <2>4 DEF UdpInv
  <1>3. CASE RecvDatagram
    <2>1. /\ receiver = "receiving" /\ queue # << >>
          /\ got' = Append(got, Head(queue)) /\ queue' = Tail(queue)
          /\ idle' = 0 /\ UNCHANGED <<sender, sent, pause, receiver>>
      BY <1>3 DEF RecvDatagram, IdleAfterRecv
    <2>2. /\ Head(queue) \in Nat /\ Head(queue) <= sent
          /\ Tail(queue) \in Seq(Nat) /\ Len(Tail(queue)) = Len(queue) - 1
          /\ \A i \in 1..Len(Tail(queue)) : Tail(queue)[i] = queue[i + 1]
      <3>1. queue \in Seq(Nat)
        BY <1>t DEF UdpTypes
      <3>2. Head(queue) = queue[1] /\ 1 \in 1..Len(queue)
        BY <2>1, <3>1
      <3> QED BY <1>t, <2>1, <3>1, <3>2, HeadTailProperties DEF OnlySent
    <2>3. /\ got' \in Seq(Nat) /\ Len(got') = Len(got) + 1
          /\ got'[Len(got) + 1] = Head(queue)
          /\ \A j \in 1..Len(got) : got'[j] = got[j]
      BY <1>t, <2>1, <2>2, AppendProperties DEF UdpTypes
    <2>4. UdpTypes'
      BY <1>t, <2>1, <2>2, <2>3 DEF UdpTypes
    <2>5. OnlySent'
      <3>1. ASSUME NEW i \in 1..Len(got') PROVE got'[i] <= sent
        <4>1. CASE i = Len(got) + 1
          BY <2>2, <2>3, <4>1
        <4>2. CASE i # Len(got) + 1
          <5>1. i \in 1..Len(got)
            BY <1>n, <2>3, <4>2
          <5> QED BY <1>t, <2>3, <5>1 DEF OnlySent
        <4> QED BY <4>1, <4>2
      <3>2. ASSUME NEW i \in 1..Len(queue') PROVE queue'[i] <= sent
        <4>1. i + 1 \in 1..Len(queue) /\ queue'[i] = queue[i + 1]
          BY <1>n, <2>1, <2>2
        <4> QED BY <1>t, <4>1 DEF OnlySent
      <3> QED BY <2>1, <3>1, <3>2 DEF OnlySent
    <2>6. WaitAccounted'
      <3> DEFINE a == sent - Head(queue)
      <3>1. Newest' = Head(queue) /\ a \in Nat
        BY <1>n, <2>2, <2>3 DEF Newest
      <3>2. idle' = 0 /\ (sent - Newest)' = a /\ pause' = pause
        BY <2>1, <3>1
      <3> HIDE DEF a
      <3>3. a * MaxPause \in Nat
        BY <3>1
      <3>4. 0 <= a * MaxPause + pause
        BY <1>n, <3>3
      <3>5. idle' <= (sent - Newest)' * MaxPause + pause'
        BY <3>2, <3>4
      <3> QED BY <3>5 DEF WaitAccounted
    <2> QED BY <2>1, <2>4, <2>5, <2>6 DEF UdpInv
  <1>4. CASE Tick
    <2>1. /\ Sending => pause < MaxPause
          /\ Waiting => idle < IdleTicks
          /\ pause' = IF Sending THEN pause + 1 ELSE pause
          /\ idle' = IF Waiting THEN idle + 1 ELSE idle
          /\ UNCHANGED <<sender, sent, receiver, queue, got>>
      BY <1>4 DEF Tick
    <2>2. UdpTypes'
      BY <1>t, <2>1 DEF UdpTypes
    <2>3. OnlySent'
      BY <1>t, <2>1 DEF OnlySent
    <2>4. WaitAccounted'
      <3> SUFFICES ASSUME Sending, got # << >>
                   PROVE  idle' <= (sent - Newest) * MaxPause + pause'
        BY <2>1 DEF WaitAccounted, Newest, Sending
      <3> DEFINE b == (sent - Newest) * MaxPause
      <3>1. idle <= b + pause /\ pause' = pause + 1
        BY <1>t, <2>1 DEF WaitAccounted
      <3>2. b \in Int
        BY <1>l, <1>n
      <3>3. idle' <= idle + 1
        BY <1>n, <2>1
      <3>4. idle' \in Int
        BY <1>n, <2>1
      <3> HIDE DEF b
      <3>5. idle' <= b + pause'
        BY <1>n, <3>1, <3>2, <3>3, <3>4
      <3> QED BY <3>5 DEF b
    <2>5. receiver' = "timeout" => idle' = IdleTicks
      BY <1>t, <2>1 DEF Waiting
    <2> QED BY <2>2, <2>3, <2>4, <2>5 DEF UdpInv
  <1> QED BY <1>1, <1>2, <1>3, <1>4 DEF UdpNext, UdpSender, UdpReceiver

(* What UDP keeps, a feed over TCP does not touch. *)
LEMMA UdpAlways == Spec => []UdpInv
  <1>1. Init => UdpInv
    BY UdpInitInv DEF Init
  <1>2. UdpInv /\ [Next]_vars => UdpInv'
    <2> SUFFICES ASSUME UdpInv, [Next]_vars PROVE UdpInv'
      OBVIOUS
    <2>1. CASE UNCHANGED udpVars
      BY <2>1 DEF udpVars, UdpInv, UdpTypes, OnlySent, WaitAccounted, Sending, Newest
    <2>2. CASE UdpNext
      BY <2>2, UdpNextInv
    <2> QED BY <2>1, <2>2 DEF Next, vars
  <1> QED BY <1>1, <1>2, PTL DEF Spec

(* The wait of a receiver that timed out is accounted for. *)
LEMMA UdpInvSilence == UdpInv => TimeoutMeansSilence
  <1> SUFFICES ASSUME UdpInv, receiver = "timeout", Sending, got # << >>
               PROVE  sent - Newest >= Tolerated
    BY DEF TimeoutMeansSilence, Newest
  <1> USE UdpAssumption
  <1>1. /\ idle = IdleTicks /\ pause \in 0..MaxPause /\ sent \in Nat
        /\ idle <= (sent - Newest) * MaxPause + pause
    BY DEF UdpInv, WaitAccounted, UdpTypes
  <1>2. Newest \in Nat
    <2>1. Len(got) \in 1..Len(got) /\ got \in Seq(Nat)
      BY DEF UdpInv, UdpTypes
    <2> QED BY <2>1 DEF Newest
  <1> DEFINE d == sent - Newest
  <1>3. d \in Int /\ IdleTicks <= d * MaxPause + pause
    BY <1>1, <1>2
  <1> HIDE DEF d
  <1>4. IdleTicks - 1 < d * MaxPause + MaxPause
    <2> DEFINE b == d * MaxPause
    <2>1. b \in Int
      BY <1>3
    <2>2. IdleTicks <= b + pause
      BY <1>3
    <2> HIDE DEF b
    <2>3. IdleTicks - 1 < b + MaxPause
      BY <1>1, <2>1, <2>2
    <2> QED BY <2>3 DEF b
  <1>5. (IdleTicks - 1) \div MaxPause <= d
    <2> DEFINE x == IdleTicks - 1
    <2>1. x \in Int /\ x < d * MaxPause + MaxPause
      BY <1>4
    <2> HIDE DEF x
    <2>2. x \div MaxPause <= d
      BY <1>3, <2>1, QuotientBelow
    <2> QED BY <2>2 DEF x
  <1>6. Tolerated \in Int
    BY DEF Tolerated
  <1>7. Tolerated <= d
    BY <1>5 DEF Tolerated
  <1> QED BY <1>3, <1>6, <1>7 DEF d

(* For every timeout, every pace of the sender and every loss: a receiver   *)
(* that times out while the sender goes on has missed at least Tolerated   *)
(* datagrams in a row.                                                     *)
THEOREM TimeoutAlwaysMeansSilence == Spec => []TimeoutMeansSilence
  BY UdpAlways, UdpInvSilence, PTL

-----------------------------------------------------------------------------
(* TCP: the stream of cells, and what the parser makes of it.              *)

TcpCell ==
  {c \in Nat \X Nat : c[1] \in 1..Len(Sizes) /\ c[2] \in 1..Sizes[c[1]]}

(* The cell that follows c in the stream. *)
Succ(c) == IF c[2] < Sizes[c[1]] THEN <<c[1], c[2] + 1>> ELSE <<c[1] + 1, 1>>

(* Consecutive cells of the stream. *)
Chain(u) == u \in Seq(TcpCell) /\ \A i \in 1..(Len(u) - 1) : u[i + 1] = Succ(u[i])

(* Message e begins behind the first i cells of u, and the one before ends. *)
At(u, i, e) ==
  /\ i \in 0..Len(u) /\ e \in Nat \ {0}
  /\ i < Len(u) => u[i + 1] = <<e, 1>>
  /\ i > 0 => u[i] = <<e - 1, Sizes[e - 1]>>

(* The messages have a size. *)
LEMMA SizesNat ==
  /\ Len(Sizes) \in Nat
  /\ \A m \in 1..Len(Sizes) : Sizes[m] \in Nat \ {0}
  BY TcpAssumption

(* A cell of the stream. *)
LEMMA CellIs ==
  ASSUME NEW m, NEW p
  PROVE  <<m, p>> \in TcpCell <=> m \in 1..Len(Sizes) /\ p \in 1..Sizes[m]
  <1>1. m \in 1..Len(Sizes) /\ p \in 1..Sizes[m] => m \in Nat /\ p \in Nat
    BY SizesNat
  <1> QED BY <1>1 DEF TcpCell

(* Behind the beginning of a message come its cells, in order. *)
LEMMA InMessage ==
  ASSUME NEW u, Chain(u), NEW i, NEW e, At(u, i, e), i < Len(u)
  PROVE  /\ e \in 1..Len(Sizes)
         /\ \A p \in 1..Sizes[e] : i + p <= Len(u) => u[i + p] = <<e, p>>
  <1>1. /\ u \in Seq(TcpCell) /\ Len(u) \in Nat /\ i \in 0..Len(u)
        /\ u[i + 1] = <<e, 1>> /\ i + 1 \in 1..Len(u)
    BY DEF Chain, At
  <1>2. <<e, 1>> \in TcpCell
    BY <1>1
  <1>3. e \in 1..Len(Sizes) /\ Sizes[e] \in Nat \ {0}
    BY <1>2, CellIs, SizesNat
  <1> DEFINE k == Sizes[e]
             S == {p \in Nat : i + (p + 1) <= Len(u) => u[i + (p + 1)] = <<e, p + 1>>}
  <1> HIDE DEF k
  <1>k. k \in Nat \ {0}
    BY <1>3 DEF k
  <1>4. 0 \in S
    <2>1. i + (0 + 1) = i + 1 /\ 0 + 1 = 1
      BY <1>1
    <2> QED BY <1>1, <2>1
  <1>5. ASSUME NEW p \in 0..((k - 1) - 1), p \in S PROVE p + 1 \in S
    <2> SUFFICES ASSUME i + (p + 1 + 1) <= Len(u)
                 PROVE  u[i + (p + 1 + 1)] = <<e, p + 1 + 1>>
      BY <1>k
    <2>1. p \in Nat /\ p + 1 < k /\ i + (p + 1) <= Len(u)
      BY <1>1, <1>k
    <2>2. u[i + (p + 1)] = <<e, p + 1>>
      BY <1>5, <2>1
    <2>3. i + (p + 1) \in 1..(Len(u) - 1) /\ i + (p + 1) + 1 = i + (p + 1 + 1)
      BY <1>1, <2>1
    <2>4. u[i + (p + 1) + 1] = Succ(<<e, p + 1>>)
      BY <2>2, <2>3 DEF Chain
    <2>5. Succ(<<e, p + 1>>) = <<e, p + 1 + 1>>
      BY <2>1 DEF Succ, k
    <2> QED BY <2>3, <2>4, <2>5
  <1>6. \A p \in 0..(k - 1) : p \in S
    <2> HIDE DEF S
    <2>1. k - 1 \in Nat
      BY <1>k
    <2> QED BY <1>4, <1>5, <2>1, BoundedInduction
  <1>7. ASSUME NEW p \in 1..k, i + p <= Len(u) PROVE u[i + p] = <<e, p>>
    <2>1. p - 1 \in 0..(k - 1) /\ (p - 1) + 1 = p
      BY <1>k
    <2>2. p - 1 \in S
      BY <1>6, <2>1
    <2> QED BY <1>7, <2>1, <2>2
  <1> QED BY <1>3, <1>7 DEF k

(* Behind a whole message begins the next one. *)
LEMMA PastMessage ==
  ASSUME NEW u, Chain(u), NEW i, NEW e, At(u, i, e), i < Len(u),
         i + Sizes[e] <= Len(u)
  PROVE  At(u, i + Sizes[e], e + 1)
  <1>1. /\ e \in 1..Len(Sizes) /\ Sizes[e] \in Nat \ {0}
        /\ \A p \in 1..Sizes[e] : i + p <= Len(u) => u[i + p] = <<e, p>>
    BY InMessage, SizesNat
  <1>2. Len(u) \in Nat /\ i \in 0..Len(u)
    BY DEF Chain, At
  <1> DEFINE k == Sizes[e]
  <1>3. k \in Nat \ {0} /\ i + k <= Len(u) /\ u[i + k] = <<e, k>>
    BY <1>1, <1>2
  <1>4. ASSUME i + k < Len(u) PROVE u[i + k + 1] = <<e + 1, 1>>
    <2>1. i + k \in 1..(Len(u) - 1)
      BY <1>2, <1>3, <1>4
    <2>2. u[i + k + 1] = Succ(<<e, k>>)
      BY <1>3, <2>1 DEF Chain
    <2> QED BY <1>3, <2>2 DEF Succ
  <1>5. i + k \in 0..Len(u) /\ e + 1 \in Nat \ {0}
    BY <1>1, <1>2, <1>3
  <1>6. u[i + k] = <<(e + 1) - 1, Sizes[(e + 1) - 1]>>
    <2>1. (e + 1) - 1 = e
      BY <1>1
    <2> QED BY <1>3, <2>1
  <1> QED BY <1>4, <1>5, <1>6 DEF At

-----------------------------------------------------------------------------
(* The loop of Consume: where it stops, what it then leaves, and what it    *)
(* puts before what comes of the rest.                                     *)
Stops(buf, i) == i = Len(buf) \/ i + Sizes[buf[i + 1][1]] > Len(buf)
Left(buf, i) == [out |-> << >>, rest |-> SubSeq(buf, i + 1, Len(buf))]
FrameOf(buf, i) ==
  LET m == buf[i + 1][1]
  IN  IF SubSeq(buf, i + 1, i + Sizes[m]) = Cells(m) THEN m ELSE 0
Past(buf, i) == i + Sizes[buf[i + 1][1]]
Onward(buf, i, r) == [r EXCEPT !.out = <<FrameOf(buf, i)>> \o @]
Walks(buf, w) ==
  w = [i \in 0..Len(buf) |->
         IF Stops(buf, i) THEN Left(buf, i) ELSE Onward(buf, i, w[Past(buf, i)])]

Result == [out : Seq(Nat), rest : Seq(TcpCell)]

(* What one turn of the loop gives. *)
LEMMA TurnTypes ==
  ASSUME NEW buf \in Seq(TcpCell), NEW i \in 0..Len(buf)
  PROVE  /\ Left(buf, i) \in Result
         /\ i < Len(buf) => FrameOf(buf, i) \in Nat /\ Past(buf, i) \in Nat
         /\ ~Stops(buf, i) => i < Len(buf) /\ Past(buf, i) \in (i + 1)..Len(buf)
         /\ i < Len(buf) => \A r \in Result : Onward(buf, i, r) \in Result
  <1>0. Len(buf) \in Nat
    OBVIOUS
  <1>1. SubSeq(buf, i + 1, Len(buf)) \in Seq(TcpCell)
    BY <1>0
  <1>2. Left(buf, i) \in Result
    BY <1>1 DEF Left, Result
  <1>3. ASSUME i < Len(buf)
        PROVE  buf[i + 1][1] \in 1..Len(Sizes) /\ Sizes[buf[i + 1][1]] \in Nat \ {0}
    <2>1. buf[i + 1] \in TcpCell
      BY <1>0, <1>3
    <2> QED BY <2>1, SizesNat DEF TcpCell
  <1>4. ASSUME i < Len(buf) PROVE FrameOf(buf, i) \in Nat /\ Past(buf, i) \in Nat
    BY <1>0, <1>3, <1>4, SizesNat DEF FrameOf, Past
  <1>5. ASSUME ~Stops(buf, i) PROVE i < Len(buf) /\ Past(buf, i) \in (i + 1)..Len(buf)
    <2>1. i < Len(buf)
      BY <1>0, <1>5 DEF Stops
    <2> QED BY <1>0, <1>3, <1>5, <2>1 DEF Stops, Past
  <1>6. ASSUME i < Len(buf), NEW r \in Result PROVE Onward(buf, i, r) \in Result
    <2>1. r.out \in Seq(Nat) /\ r.rest \in Seq(TcpCell)
      BY DEF Result
    <2> DEFINE x == FrameOf(buf, i)
    <2>2. x \in Nat
      BY <1>4, <1>6
    <2> HIDE DEF x
    <2>3. <<x>> \o r.out \in Seq(Nat)
      BY <2>1, <2>2
    <2>4. Onward(buf, i, r) = [r EXCEPT !.out = <<x>> \o r.out]
      BY DEF Onward, x, Result
    <2> QED BY <2>1, <2>3, <2>4 DEF Result
  <1> QED BY <1>2, <1>4, <1>5, <1>6

(* The loop of Consume has a result. *)
LEMMA WalkIs ==
  ASSUME NEW buf \in Seq(TcpCell)
  PROVE  \E w : w \in [0..Len(buf) -> Result] /\ Walks(buf, w)
  <1> DEFINE L == Len(buf)
             stop == {i \in 0..L : Stops(buf, i)}
             base == [i \in 0..L |-> Left(buf, i)]
             past == [i \in 0..L |-> IF i < L THEN Past(buf, i) ELSE 0]
             step == [c \in (0..L) \X Result |->
                        IF c[1] < L THEN Onward(buf, c[1], c[2]) ELSE c[2]]
  <1>0. L \in Nat
    OBVIOUS
  <1>1. L \in stop /\ stop \in SUBSET (0..L)
    BY <1>0 DEF Stops
  <1>2. base \in [0..L -> Result]
    BY TurnTypes
  <1>3. past \in [0..L -> Nat]
    BY TurnTypes
  <1>4. \A i \in 0..L : i \notin stop => past[i] \in (i + 1)..L
    BY TurnTypes
  <1>5. step \in [(0..L) \X Result -> Result]
    BY TurnTypes
  <1> HIDE DEF L, stop, base, past, step
  <1>6. PICK w : IsWalk(Result, L, stop, base, past, step, 0, w)
    BY <1>0, <1>1, <1>2, <1>3, <1>4, <1>5, WalkExists
  <1>7. /\ w \in [0..L -> Result]
        /\ \A i \in 0..L : w[i] = IF i \in stop THEN base[i] ELSE step[<<i, w[past[i]]>>]
    BY <1>6 DEF IsWalk
  <1>8. ASSUME NEW i \in 0..L
        PROVE  w[i] = IF Stops(buf, i) THEN Left(buf, i) ELSE Onward(buf, i, w[Past(buf, i)])
    <2>1. CASE Stops(buf, i)
      <3>1. i \in stop /\ base[i] = Left(buf, i)
        BY <2>1 DEF stop, base
      <3> QED BY <1>7, <2>1, <3>1
    <2>2. CASE ~Stops(buf, i)
      <3>1. i \notin stop
        BY <2>2 DEF stop
      <3>2. i < L /\ Past(buf, i) \in (i + 1)..L
        BY <2>2, TurnTypes DEF L
      <3>3. past[i] = Past(buf, i) /\ past[i] \in 0..L
        BY <1>0, <3>2 DEF past
      <3>4. w[past[i]] \in Result
        BY <1>7, <3>3
      <3>5. step[<<i, w[past[i]]>>] = Onward(buf, i, w[past[i]])
        BY <3>2, <3>4 DEF step
      <3> QED BY <1>7, <2>2, <3>1, <3>3, <3>5
    <2> QED BY <2>1, <2>2
  <1>9. Walks(buf, w)
    BY <1>7, <1>8 DEF Walks, L
  <1> QED BY <1>7, <1>9 DEF L

(* Consume is that result, from the first cell on. *)
LEMMA ConsumeIs ==
  ASSUME NEW buf \in Seq(TcpCell)
  PROVE  \E w : Walks(buf, w) /\ Consume(buf) = w[0]
  <1> DEFINE w == CHOOSE v : Walks(buf, v)
  <1>1. Walks(buf, w)
    BY WalkIs
  <1>2. Consume(buf) = w[0]
    BY DEF Consume, Walks, Stops, Left, Onward, FrameOf, Past
  <1> QED BY <1>1, <1>2

-----------------------------------------------------------------------------
(* r is what comes of u, from place i up to L, when message e begins at i:  *)
(* j whole messages, and the beginning of another behind place q.          *)
From(e, j) == [x \in 1..j |-> (e + x) - 1]
SplitsAt(u, L, e, r, j, q) ==
  /\ r.out = From(e, j)
  /\ r.rest = SubSeq(u, q + 1, L)
  /\ At(u, q, e + j)
  /\ q < L => q + Sizes[e + j] > L
Splits(u, L, i, e, r) ==
  r \in Result /\ \E j \in Nat, q \in i..L : SplitsAt(u, L, e, r, j, q)

(* buf is the first L cells of u. *)
IsCut(buf, u, L) == buf = SubSeq(u, 1, L)

(* The cells of buf are those of u. *)
LEMMA CutShape ==
  ASSUME NEW T, NEW u \in Seq(T), NEW L \in 0..Len(u)
  PROVE  /\ SubSeq(u, 1, L) \in Seq(T) /\ Len(SubSeq(u, 1, L)) = L
         /\ \A i \in 1..L : SubSeq(u, 1, L)[i] = u[i]
  OBVIOUS

(* A part of a beginning is a part of the whole. *)
LEMMA CutOfCut ==
  ASSUME NEW T, NEW u \in Seq(T), NEW L \in 0..Len(u), NEW i \in 0..L, NEW h \in i..L
  PROVE  /\ SubSeq(SubSeq(u, 1, L), i + 1, h) = SubSeq(u, i + 1, h)
         /\ SubSeq(u, i + 1, h) \in Seq(T) /\ Len(SubSeq(u, i + 1, h)) = h - i
         /\ \A p \in 1..(h - i) : SubSeq(u, i + 1, h)[p] = u[i + p]
  <1> DEFINE b == SubSeq(u, 1, L)
  <1>1. b \in Seq(T) /\ Len(b) = L /\ \A k \in 1..L : b[k] = u[k]
    BY CutShape
  <1>0. Len(u) \in Nat /\ L \in Nat /\ i \in Nat /\ h \in Nat /\ h <= L /\ i <= h
    OBVIOUS
  <1> HIDE DEF b
  <1> DEFINE s == SubSeq(b, i + 1, h)
             t == SubSeq(u, i + 1, h)
  <1>2. /\ t \in Seq(T) /\ Len(t) = h - i
        /\ \A p \in 1..(h - i) : t[p] = u[i + p]
    <2>1. \A k \in (i + 1)..h : u[k] \in T
      BY <1>0
    <2>2. /\ t \in Seq(T) /\ Len(t) = IF i + 1 <= h THEN h - (i + 1) + 1 ELSE 0
          /\ \A p \in 1..(h - (i + 1) + 1) : t[p] = u[i + 1 + p - 1]
      BY <1>0, <2>1, SubSeqProperties
    <2> HIDE DEF t
    <2>3. h - (i + 1) + 1 = h - i /\ (~(i + 1 <= h) => h - i = 0)
      BY <1>0
    <2>4. \A p \in 1..(h - i) : i + 1 + p - 1 = i + p
      BY <1>0
    <2> QED BY <2>2, <2>3, <2>4
  <1>3. /\ s \in Seq(T) /\ Len(s) = h - i
        /\ \A p \in 1..(h - i) : s[p] = b[i + p]
    <2>1. \A k \in (i + 1)..h : b[k] \in T
      BY <1>0, <1>1
    <2>2. /\ s \in Seq(T) /\ Len(s) = IF i + 1 <= h THEN h - (i + 1) + 1 ELSE 0
          /\ \A p \in 1..(h - (i + 1) + 1) : s[p] = b[i + 1 + p - 1]
      BY <1>0, <2>1, SubSeqProperties
    <2> HIDE DEF s
    <2>3. h - (i + 1) + 1 = h - i /\ (~(i + 1 <= h) => h - i = 0)
      BY <1>0
    <2>4. \A p \in 1..(h - i) : i + 1 + p - 1 = i + p
      BY <1>0
    <2> QED BY <2>2, <2>3, <2>4
  <1> HIDE DEF s, t
  <1>4. s = t
    <2>1. \A p \in 1..(h - i) : i + p \in 1..L
      BY <1>0
    <2>2. \A p \in 1..(h - i) : s[p] = t[p]
      BY <1>1, <1>2, <1>3, <2>1
    <2> QED BY <1>2, <1>3, <2>2, SeqEqual
  <1> QED BY <1>2, <1>4 DEF s, t, b

(* What is left of a sequence behind its first q elements. *)
LEMMA RestShape ==
  ASSUME NEW T, NEW u \in Seq(T), NEW q \in 0..Len(u)
  PROVE  /\ SubSeq(u, q + 1, Len(u)) \in Seq(T) /\ Len(SubSeq(u, q + 1, Len(u))) = Len(u) - q
         /\ \A p \in 1..(Len(u) - q) : SubSeq(u, q + 1, Len(u))[p] = u[q + p]
  <1> DEFINE L == Len(u)
  <1>1. L \in 0..Len(u) /\ q \in 0..L /\ L \in q..L
    OBVIOUS
  <1> HIDE DEF L
  <1>2. /\ SubSeq(u, q + 1, L) \in Seq(T) /\ Len(SubSeq(u, q + 1, L)) = L - q
        /\ \A p \in 1..(L - q) : SubSeq(u, q + 1, L)[p] = u[q + p]
    BY <1>1, CutOfCut
  <1> QED BY <1>2 DEF L

(* The cells of a message. *)
LEMMA CellsShape ==
  ASSUME NEW m \in 1..Len(Sizes)
  PROVE  /\ Cells(m) \in Seq(TcpCell) /\ Len(Cells(m)) = Sizes[m]
         /\ \A p \in 1..Sizes[m] : Cells(m)[p] = <<m, p>>
  <1>1. Sizes[m] \in Nat \ {0}
    BY SizesNat
  <1>2. \A p \in 1..Sizes[m] : <<m, p>> \in TcpCell
    BY CellIs
  <1> DEFINE k == Sizes[m]
  <1> HIDE DEF k
  <1>3. k \in Nat /\ \A p \in 1..k : <<m, p>> \in TcpCell
    BY <1>1, <1>2 DEF k
  <1>4. Cells(m) = [p \in 1..k |-> <<m, p>>]
    BY DEF Cells, k
  <1>5. /\ Cells(m) \in Seq(TcpCell) /\ Len(Cells(m)) = k
        /\ \A p \in 1..k : Cells(m)[p] = <<m, p>>
    BY <1>3, <1>4
  <1> QED BY <1>5 DEF k

(* The loop stops at an incomplete message. *)
LEMMA WalkStops ==
  ASSUME NEW u, Chain(u), NEW L \in 0..Len(u), NEW i \in 0..L, NEW e, At(u, i, e),
         NEW buf, IsCut(buf, u, L), Stops(buf, i)
  PROVE  Splits(u, L, i, e, Left(buf, i))
  <1>1. u \in Seq(TcpCell) /\ Len(u) \in Nat /\ i \in Nat /\ L \in Nat
        /\ e \in Nat \ {0}
    BY DEF Chain, At
  <1>2. Len(buf) = L /\ \A k \in 1..L : buf[k] = u[k]
    BY <1>1, CutShape DEF IsCut
  <1>3. SubSeq(buf, i + 1, L) = SubSeq(u, i + 1, L)
    BY <1>1, CutOfCut DEF IsCut
  <1> DEFINE r == Left(buf, i)
  <1>4. r.out = << >> /\ r.rest = SubSeq(u, i + 1, L)
    BY <1>2, <1>3 DEF Left
  <1> HIDE DEF r
  <1>5. i < L => i + Sizes[e + 0] > L
    <2>1. ASSUME i < L PROVE i + Sizes[e] > L
      <3>1. i + 1 \in 1..L /\ i < Len(u) /\ i # L
        BY <1>1, <2>1
      <3>2. buf[i + 1] = <<e, 1>>
        BY <1>2, <3>1 DEF At
      <3> QED BY <1>2, <3>1, <3>2 DEF Stops
    <2>2. e + 0 = e
      BY <1>1
    <2> QED BY <2>1, <2>2
  <1>6. At(u, i, e + 0) /\ i \in i..L /\ 0 \in Nat
    <2>1. e + 0 = e
      BY <1>1
    <2> QED BY <1>1, <2>1
  <1>7. r.out = From(e, 0)
    BY <1>4 DEF From
  <1>8. SplitsAt(u, L, e, r, 0, i)
    BY <1>4, <1>5, <1>6, <1>7 DEF SplitsAt
  <1>9. r \in Result
    <2>1. buf \in Seq(TcpCell) /\ i \in 0..Len(buf)
      BY <1>1, <1>2, CutShape DEF IsCut
    <2> QED BY <2>1, TurnTypes DEF r
  <1> QED BY <1>6, <1>8, <1>9 DEF r, Splits

(* The loop goes on behind a whole message. *)
LEMMA WalkGoesOn ==
  ASSUME NEW u, Chain(u), NEW L \in 0..Len(u), NEW i \in 0..L, NEW e, At(u, i, e),
         NEW buf, IsCut(buf, u, L), ~Stops(buf, i)
  PROVE  /\ Past(buf, i) \in (i + 1)..L /\ At(u, Past(buf, i), e + 1)
         /\ FrameOf(buf, i) = e
  <1>1. u \in Seq(TcpCell) /\ Len(u) \in Nat /\ i \in Nat /\ L \in Nat
        /\ e \in Nat \ {0}
    BY DEF Chain, At
  <1>2. buf \in Seq(TcpCell) /\ Len(buf) = L /\ \A k \in 1..L : buf[k] = u[k]
    BY <1>1, CutShape DEF IsCut
  <1>3. i < L /\ i + 1 \in 1..L /\ i < Len(u)
    BY <1>1, <1>2 DEF Stops
  <1>4. buf[i + 1] = <<e, 1>> /\ buf[i + 1][1] = e
    BY <1>2, <1>3 DEF At
  <1>5. /\ e \in 1..Len(Sizes) /\ Sizes[e] \in Nat \ {0}
        /\ \A p \in 1..Sizes[e] : i + p <= Len(u) => u[i + p] = <<e, p>>
    BY <1>3, InMessage, SizesNat
  <1> DEFINE k == Sizes[e]
  <1> HIDE DEF k
  <1>6. k \in Nat \ {0} /\ Past(buf, i) = i + k /\ i + k <= L /\ i + k <= Len(u)
    <2>1. k \in Nat \ {0} /\ Past(buf, i) = i + k
      BY <1>4, <1>5 DEF Past, k
    <2>2. ~(i + k > L)
      BY <1>2, <1>4 DEF Stops, k
    <2> QED BY <1>1, <2>1, <2>2
  <1>7. At(u, i + k, e + 1)
    BY <1>3, <1>6, PastMessage DEF k
  <1>8. SubSeq(buf, i + 1, i + k) = Cells(e)
    <2> DEFINE h == i + k
               s == SubSeq(u, i + 1, h)
               c == Cells(e)
    <2>1. h \in i..L /\ h - i = k
      BY <1>1, <1>6
    <2> HIDE DEF h
    <2>2. /\ SubSeq(SubSeq(u, 1, L), i + 1, h) = s /\ s \in Seq(TcpCell)
          /\ Len(s) = h - i
          /\ \A p \in 1..(h - i) : s[p] = u[i + p]
      BY <1>1, <2>1, CutOfCut
    <2>2a. SubSeq(buf, i + 1, i + k) = s
      BY <2>2 DEF h, IsCut
    <2>3. /\ c \in Seq(TcpCell) /\ Len(c) = k
          /\ \A p \in 1..k : c[p] = <<e, p>>
      BY <1>5, CellsShape DEF k
    <2> HIDE DEF s, c
    <2>4. \A p \in 1..k : i + p <= Len(u)
      BY <1>1, <1>6
    <2>5. \A p \in 1..k : s[p] = c[p]
      BY <1>5, <2>1, <2>2, <2>3, <2>4 DEF k
    <2>6. s = c
      BY <2>1, <2>2, <2>3, <2>5, SeqEqual
    <2> QED BY <2>2a, <2>6 DEF c
  <1>9. FrameOf(buf, i) = e
    BY <1>4, <1>8 DEF FrameOf, k
  <1>10. Past(buf, i) \in (i + 1)..L
    BY <1>1, <1>6
  <1> QED BY <1>6, <1>7, <1>9, <1>10

(* Message e before the j messages from e + 1 on. *)
LEMMA FromNext ==
  ASSUME NEW e \in Nat, NEW j \in Nat
  PROVE  /\ From(e, j) \in Seq(Nat) /\ Len(From(e, j)) = j
         /\ <<e>> \o From(e + 1, j) = From(e, j + 1)
  <1>1. ASSUME NEW a \in Nat, NEW k \in Nat
        PROVE  /\ From(a, k) \in Seq(Nat) /\ Len(From(a, k)) = k
               /\ \A x \in 1..k : From(a, k)[x] = (a + x) - 1
    <2>1. \A x \in 1..k : (a + x) - 1 \in Nat
      OBVIOUS
    <2> QED BY <2>1 DEF From
  <1> DEFINE s == <<e>>
             t == From(e + 1, j)
             v == From(e, j + 1)
  <1>2. /\ t \in Seq(Nat) /\ Len(t) = j /\ \A x \in 1..j : t[x] = (e + 1 + x) - 1
    BY <1>1
  <1>3. /\ v \in Seq(Nat) /\ Len(v) = j + 1 /\ \A x \in 1..(j + 1) : v[x] = (e + x) - 1
    BY <1>1
  <1>4. s \in Seq(Nat) /\ Len(s) = 1 /\ s[1] = e
    OBVIOUS
  <1> HIDE DEF s, t, v
  <1>5. /\ s \o t \in Seq(Nat) /\ Len(s \o t) = Len(s) + Len(t)
        /\ \A x \in 1..(Len(s) + Len(t)) :
             (s \o t)[x] = IF x <= Len(s) THEN s[x] ELSE t[x - Len(s)]
    BY <1>2, <1>4, ConcatProperties
  <1>6. Len(s \o t) = j + 1
    BY <1>2, <1>4, <1>5
  <1>7. ASSUME NEW x \in 1..(j + 1) PROVE (s \o t)[x] = v[x]
    <2>1. (s \o t)[x] = IF x <= 1 THEN s[x] ELSE t[x - 1]
      BY <1>2, <1>4, <1>5
    <2>2. CASE x = 1
      BY <1>3, <1>4, <2>1, <2>2
    <2>3. CASE x # 1
      <3>1. x - 1 \in 1..j /\ ~(x <= 1)
        BY <2>3
      <3>2. t[x - 1] = (e + 1 + (x - 1)) - 1
        BY <1>2, <3>1
      <3>3. (e + 1 + (x - 1)) - 1 = (e + x) - 1
        OBVIOUS
      <3> QED BY <1>3, <2>1, <3>1, <3>2, <3>3
    <2> QED BY <2>2, <2>3
  <1>8. s \o t = v
    BY <1>3, <1>5, <1>6, <1>7, SeqEqual
  <1>9. From(e, j) \in Seq(Nat) /\ Len(From(e, j)) = j
    BY <1>1
  <1> QED BY <1>8, <1>9 DEF s, t, v

(* What comes of the rest, with one more message before it. *)
LEMMA WalkJoins ==
  ASSUME NEW u, NEW L \in Nat, NEW i \in 0..L, NEW e \in Nat \ {0},
         NEW h \in (i + 1)..L, NEW r, Splits(u, L, h, e + 1, r),
         NEW buf \in Seq(TcpCell), i < Len(buf), FrameOf(buf, i) = e
  PROVE  Splits(u, L, i, e, Onward(buf, i, r))
  <1>1. r \in Result
    BY DEF Splits
  <1>2. PICK j \in Nat, q \in h..L : SplitsAt(u, L, e + 1, r, j, q)
    BY DEF Splits
  <1> DEFINE v == Onward(buf, i, r)
  <1>3. v \in Result
    <2>1. i \in 0..Len(buf)
      BY SMT
    <2> QED BY <1>1, <2>1, TurnTypes
  <1>4. v.out = <<e>> \o r.out /\ v.rest = r.rest
    BY <1>1 DEF Onward, Result
  <1> HIDE DEF v
  <1>5. v.out = From(e, j + 1)
    BY <1>2, <1>4, FromNext DEF SplitsAt
  <1>6. j + 1 \in Nat /\ q \in i..L /\ e + (j + 1) = e + 1 + j
    OBVIOUS
  <1>7. SplitsAt(u, L, e, v, j + 1, q)
    BY <1>2, <1>4, <1>5, <1>6 DEF SplitsAt
  <1>8. Splits(u, L, i, e, v)
    BY <1>3, <1>6, <1>7 DEF Splits
  <1> QED BY <1>8 DEF v

(* From every place where a message begins, the loop gives whole messages   *)
(* and the beginning of another.                                           *)
LEMMA WalkResult ==
  ASSUME NEW u, Chain(u), NEW L \in 0..Len(u), NEW buf, IsCut(buf, u, L),
         NEW w, Walks(buf, w)
  PROVE  \A i \in 0..L : \A e : At(u, i, e) => Splits(u, L, i, e, w[i])
  <1>1. u \in Seq(TcpCell) /\ Len(u) \in Nat /\ L \in Nat
    BY DEF Chain
  <1>2. buf \in Seq(TcpCell) /\ Len(buf) = L
    BY <1>1, CutShape DEF IsCut
  <1> DEFINE Good(i) == \A e : At(u, i, e) => Splits(u, L, i, e, w[i])
             S == {d \in 0..L : \A i \in (L - d)..L : Good(i)}
  <1>3. ASSUME NEW i \in 0..L, \A h \in (i + 1)..L : Good(h) PROVE Good(i)
    <2> SUFFICES ASSUME NEW e, At(u, i, e) PROVE Splits(u, L, i, e, w[i])
      OBVIOUS
    <2>e. e \in Nat \ {0}
      BY DEF At
    <2>1. w[i] = IF Stops(buf, i) THEN Left(buf, i) ELSE Onward(buf, i, w[Past(buf, i)])
      BY <1>2 DEF Walks
    <2>2. CASE Stops(buf, i)
      <3>1. Splits(u, L, i, e, Left(buf, i))
        BY <2>2, WalkStops
      <3> QED BY <2>1, <2>2, <3>1
    <2>3. CASE ~Stops(buf, i)
      <3> DEFINE h == Past(buf, i)
      <3>1. h \in (i + 1)..L /\ At(u, h, e + 1) /\ FrameOf(buf, i) = e
        BY <2>3, WalkGoesOn
      <3>2. i < Len(buf)
        BY <1>2, <2>3, TurnTypes
      <3> HIDE DEF h
      <3>3. Splits(u, L, h, e + 1, w[h])
        BY <1>3, <3>1
      <3>4. Splits(u, L, i, e, Onward(buf, i, w[h]))
        BY <1>1, <1>2, <2>e, <3>1, <3>2, <3>3, WalkJoins
      <3> QED BY <2>1, <2>3, <3>4 DEF h
    <2> QED BY <2>2, <2>3
  <1> HIDE DEF Good
  <1>4. 0 \in S
    <2>1. \A i \in (L - 0)..L : i \in 0..L /\ \A h \in (i + 1)..L : Good(h)
      BY <1>1
    <2> QED BY <1>1, <1>3, <2>1
  <1>5. ASSUME NEW d \in 0..(L - 1), d \in S PROVE d + 1 \in S
    <2>1. ASSUME NEW i \in (L - (d + 1))..L PROVE Good(i)
      <3>1. i \in 0..L /\ \A h \in (i + 1)..L : h \in (L - d)..L
        BY <1>1
      <3>2. \A h \in (i + 1)..L : Good(h)
        BY <1>5, <3>1
      <3> QED BY <1>3, <3>1, <3>2
    <2>2. d + 1 \in 0..L
      BY <1>1
    <2> QED BY <2>1, <2>2
  <1>6. \A d \in 0..L : d \in S
    <2> HIDE DEF S
    <2> QED BY <1>1, <1>4, <1>5, BoundedInduction
  <1>7. ASSUME NEW i \in 0..L PROVE Good(i)
    <2>1. L \in 0..L /\ i \in (L - L)..L
      BY <1>1
    <2> QED BY <1>6, <2>1
  <1> QED BY <1>7 DEF Good

(* What FeedHandler::consume makes of a part of the stream that begins with *)
(* message e.                                                              *)
LEMMA ConsumeSplits ==
  ASSUME NEW u, Chain(u), NEW L \in 0..Len(u), NEW e, At(u, 0, e),
         NEW buf, IsCut(buf, u, L)
  PROVE  Splits(u, L, 0, e, Consume(buf))
  <1>1. buf \in Seq(TcpCell)
    BY CutShape DEF IsCut, Chain
  <1>2. PICK w : Walks(buf, w) /\ Consume(buf) = w[0]
    BY <1>1, ConsumeIs
  <1>3. 0 \in 0..L
    BY DEF Chain
  <1>4. Splits(u, L, 0, e, w[0])
    BY <1>2, <1>3, WalkResult
  <1> QED BY <1>2, <1>4

-----------------------------------------------------------------------------
(* Parts of a stream.                                                      *)

(* The last cell of u is the last one of message m; if u is empty, then the *)
(* last message before it, d, is m.                                        *)
EndsWith(u, d, m) ==
  /\ u = << >> => d = m
  /\ u # << >> => u[Len(u)] = <<m, Sizes[m]>>

(* A beginning of consecutive cells. *)
LEMMA ChainCut ==
  ASSUME NEW u, Chain(u), NEW e, At(u, 0, e), NEW m \in 0..Len(u),
         NEW v, IsCut(v, u, m)
  PROVE  Chain(v) /\ At(v, 0, e)
  <1>1. u \in Seq(TcpCell) /\ Len(u) \in Nat /\ e \in Nat \ {0}
    BY DEF Chain, At
  <1>2. v \in Seq(TcpCell) /\ Len(v) = m /\ \A i \in 1..m : v[i] = u[i]
    BY <1>1, CutShape DEF IsCut
  <1>3. ASSUME NEW i \in 1..(Len(v) - 1) PROVE v[i + 1] = Succ(v[i])
    <2>1. i \in 1..(Len(u) - 1) /\ i \in 1..m /\ i + 1 \in 1..m
      BY <1>1, <1>2
    <2>2. u[i + 1] = Succ(u[i])
      BY <2>1 DEF Chain
    <2> QED BY <1>2, <2>1, <2>2
  <1>4. ASSUME 0 < Len(v) PROVE v[0 + 1] = <<e, 1>>
    <2>1. 0 < Len(u) /\ 0 + 1 \in 1..m
      BY <1>1, <1>2, <1>4
    <2>2. u[0 + 1] = <<e, 1>>
      BY <2>1 DEF At
    <2> QED BY <1>2, <2>1, <2>2
  <1>5. 0 \in 0..Len(v)
    BY <1>2
  <1> QED BY <1>1, <1>2, <1>3, <1>4, <1>5 DEF Chain, At

(* v is what is behind the first q cells of u. *)
IsRest(v, u, q) == v = SubSeq(u, q + 1, Len(u))

(* The rest of consecutive cells, behind a whole message. *)
LEMMA ChainRest ==
  ASSUME NEW u, Chain(u), NEW q, NEW e, At(u, q, e), NEW v, IsRest(v, u, q)
  PROVE  /\ Chain(v) /\ At(v, 0, e)
         /\ \A d \in Nat, m \in Nat : u # << >> /\ EndsWith(u, d, m) => EndsWith(v, e - 1, m)
  <1>1. u \in Seq(TcpCell) /\ Len(u) \in Nat /\ e \in Nat \ {0} /\ q \in 0..Len(u)
    BY DEF Chain, At
  <1>2. /\ v \in Seq(TcpCell) /\ Len(v) = Len(u) - q
        /\ \A p \in 1..(Len(u) - q) : v[p] = u[q + p]
    <2>1. Len(u) \in 0..Len(u) /\ Len(u) \in q..Len(u)
      BY <1>1
    <2> QED BY <1>1, <2>1, CutOfCut DEF IsRest
  <1>3. ASSUME NEW i \in 1..(Len(v) - 1) PROVE v[i + 1] = Succ(v[i])
    <2>1. q + i \in 1..(Len(u) - 1) /\ i \in 1..(Len(u) - q) /\ i + 1 \in 1..(Len(u) - q)
          /\ q + (i + 1) = (q + i) + 1
      BY <1>1, <1>2
    <2>2. u[(q + i) + 1] = Succ(u[q + i])
      BY <2>1 DEF Chain
    <2> QED BY <1>2, <2>1, <2>2
  <1>4. ASSUME 0 < Len(v) PROVE v[0 + 1] = <<e, 1>>
    <2>1. q < Len(u) /\ 0 + 1 \in 1..(Len(u) - q) /\ q + (0 + 1) = q + 1
      BY <1>1, <1>2, <1>4
    <2>2. u[q + 1] = <<e, 1>>
      BY <2>1 DEF At
    <2> QED BY <1>2, <2>1, <2>2
  <1>5. 0 \in 0..Len(v)
    BY <1>1, <1>2
  <1>6. ASSUME NEW d \in Nat, NEW m \in Nat, u # << >>, EndsWith(u, d, m)
        PROVE  EndsWith(v, e - 1, m)
    <2>1. Len(u) > 0
      BY <1>1, <1>6
    <2>2. u[Len(u)] = <<m, Sizes[m]>>
      BY <1>6, <2>1 DEF EndsWith
    <2>3. ASSUME v = << >> PROVE e - 1 = m
      <3>1. Len(v) = 0
        BY <2>3
      <3>2. q = Len(u)
        BY <1>1, <1>2, <3>1
      <3>3. u[q] = <<e - 1, Sizes[e - 1]>>
        BY <2>1, <3>2 DEF At
      <3> QED BY <2>2, <3>2, <3>3
    <2>4. ASSUME v # << >> PROVE v[Len(v)] = <<m, Sizes[m]>>
      <3>1. Len(v) \in 1..(Len(u) - q) /\ q + Len(v) = Len(u)
        BY <1>1, <1>2, <2>4
      <3> QED BY <1>2, <2>2, <3>1
    <2> QED BY <2>3, <2>4 DEF EndsWith
  <1> QED BY <1>1, <1>2, <1>3, <1>4, <1>5, <1>6 DEF Chain, At

(* One more message behind consecutive cells. *)
LEMMA ChainGrows ==
  ASSUME NEW u, Chain(u), NEW d \in Nat, At(u, 0, d + 1), NEW m \in Nat,
         m + 1 \in 1..Len(Sizes), EndsWith(u, d, m)
  PROVE  LET v == u \o Cells(m + 1)
         IN  Chain(v) /\ At(v, 0, d + 1) /\ EndsWith(v, d, m + 1)
  <1> DEFINE c == Cells(m + 1)
             v == u \o c
             k == Sizes[m + 1]
  <1>1. u \in Seq(TcpCell) /\ Len(u) \in Nat /\ d + 1 \in Nat \ {0}
    BY DEF Chain, At
  <1>2. k \in Nat \ {0}
    BY SizesNat
  <1>3. c \in Seq(TcpCell) /\ Len(c) = k /\ \A p \in 1..k : c[p] = <<m + 1, p>>
    BY CellsShape
  <1> HIDE DEF c
  <1>4. /\ v \in Seq(TcpCell) /\ Len(v) = Len(u) + Len(c)
        /\ \A i \in 1..(Len(u) + Len(c)) : v[i] = IF i <= Len(u) THEN u[i] ELSE c[i - Len(u)]
    BY <1>1, <1>3, ConcatProperties
  <1> HIDE DEF v, k
  <1>5. \A i \in 1..Len(u) : v[i] = u[i]
    BY <1>1, <1>2, <1>3, <1>4
  <1>6. ASSUME NEW p \in 1..k PROVE v[Len(u) + p] = <<m + 1, p>>
    <2>1. /\ Len(u) + p \in 1..(Len(u) + Len(c)) /\ ~(Len(u) + p <= Len(u))
          /\ (Len(u) + p) - Len(u) = p
      BY <1>1, <1>2, <1>3
    <2> QED BY <1>3, <1>4, <2>1
  <1>7. Len(v) = Len(u) + k /\ Len(v) > 0
    BY <1>1, <1>2, <1>3, <1>4
  <1>8. ASSUME NEW i \in 1..(Len(v) - 1) PROVE v[i + 1] = Succ(v[i])
    <2>1. CASE i < Len(u)
      <3>1. i \in 1..(Len(u) - 1) /\ i \in 1..Len(u) /\ i + 1 \in 1..Len(u)
        BY <1>1, <1>7, <2>1
      <3>2. u[i + 1] = Succ(u[i])
        BY <3>1 DEF Chain
      <3> QED BY <1>5, <3>1, <3>2
    <2>2. CASE i = Len(u)
      <3>1. u # << >> /\ i \in 1..Len(u) /\ 1 \in 1..k
        BY <1>1, <1>2, <2>2
      <3>2. v[i] = <<m, Sizes[m]>>
        BY <1>5, <2>2, <3>1 DEF EndsWith
      <3>3. v[i + 1] = <<m + 1, 1>>
        BY <1>6, <2>2, <3>1
      <3>4. Succ(<<m, Sizes[m]>>) = <<m + 1, 1>>
        <4>0. u[Len(u)] \in TcpCell /\ u[Len(u)] = <<m, Sizes[m]>>
          BY <1>1, <2>2, <3>1 DEF EndsWith
        <4>1. <<m, Sizes[m]>> \in TcpCell
          BY <4>0
        <4>2. m \in 1..Len(Sizes) /\ Sizes[m] \in Nat
          BY <4>1, CellIs, SizesNat
        <4>3. ~(Sizes[m] < Sizes[m])
          BY <4>2
        <4> QED BY <4>3 DEF Succ
      <3> QED BY <3>2, <3>3, <3>4
    <2>3. CASE i > Len(u)
      <3> DEFINE p == i - Len(u)
      <3>1. /\ p \in 1..k /\ p + 1 \in 1..k /\ p < k /\ i = Len(u) + p
            /\ i + 1 = Len(u) + (p + 1)
        BY <1>1, <1>2, <1>7, <2>3
      <3> HIDE DEF p
      <3>2. v[i] = <<m + 1, p>> /\ v[i + 1] = <<m + 1, p + 1>>
        BY <1>6, <3>1
      <3>3. Succ(<<m + 1, p>>) = <<m + 1, p + 1>>
        BY <3>1 DEF Succ, k
      <3> QED BY <3>2, <3>3
    <2> QED BY <1>1, <1>7, <2>1, <2>2, <2>3
  <1>9. v[0 + 1] = <<d + 1, 1>>
    <2>1. CASE u = << >>
      <3>1. Len(u) = 0 /\ d = m /\ 1 \in 1..k /\ Len(u) + 1 = 0 + 1
        BY <1>2, <2>1 DEF EndsWith
      <3> QED BY <1>6, <3>1
    <2>2. CASE u # << >>
      <3>1. 0 < Len(u) /\ 0 + 1 \in 1..Len(u)
        BY <1>1, <2>2
      <3> QED BY <1>5, <3>1 DEF At
    <2> QED BY <2>1, <2>2
  <1>10. EndsWith(v, d, m + 1)
    <2>1. v # << >> /\ Len(v) = Len(u) + k /\ k \in 1..k
      BY <1>2, <1>4, <1>7, SMTT(30)
    <2>2. v[Len(v)] = <<m + 1, Sizes[m + 1]>>
      BY <1>6, <2>1 DEF k
    <2> QED BY <2>1, <2>2 DEF EndsWith
  <1>11. Chain(v)
    BY <1>4, <1>8 DEF Chain
  <1>12. At(v, 0, d + 1)
    <2>1. 0 \in 0..Len(v)
      BY <1>1, <1>2, <1>7
    <2> QED BY <1>1, <1>9, <2>1 DEF At
  <1> QED BY <1>10, <1>11, <1>12 DEF v, c

(* What is cut off at k and put behind the second part stays where it is. *)
MovesUp(a, b, c, k) ==
  a \o ((b \o SubSeq(c, 1, k)) \o SubSeq(c, k + 1, Len(c))) = a \o (b \o c)

(* Cells that are sent stay in their place. *)
LEMMA MoveUp ==
  ASSUME NEW T, NEW a \in Seq(T), NEW b \in Seq(T), NEW c \in Seq(T), NEW k \in 0..Len(c)
  PROVE  /\ SubSeq(c, 1, k) \in Seq(T) /\ SubSeq(c, k + 1, Len(c)) \in Seq(T)
         /\ MovesUp(a, b, c, k)
  <1> DEFINE x == SubSeq(c, 1, k)
             y == SubSeq(c, k + 1, Len(c))
  <1>0. Len(c) \in Nat /\ k \in 0..Len(c)
    OBVIOUS
  <1>1. x \in Seq(T)
    BY CutShape
  <1>2. y \in Seq(T)
    <2>1. Len(c) \in 0..Len(c) /\ Len(c) \in k..Len(c)
      BY <1>0
    <2> QED BY <2>1, CutOfCut
  <1>3. x \o y = c
    <2>1. 1 \in 1..(Len(c) + 1) /\ k \in (1 - 1)..Len(c) /\ Len(c) \in k..Len(c)
      BY <1>0
    <2>2. SubSeq(c, 1, k) \o SubSeq(c, k + 1, Len(c)) = SubSeq(c, 1, Len(c))
      BY <2>1, ConcatAdjacentSubSeq
    <2> QED BY <2>2, SubSeqFull
  <1> HIDE DEF x, y
  <1>4. (b \o x) \o y = b \o c
    <2>1. (b \o x) \o y = b \o (x \o y)
      BY <1>1, <1>2, ConcatAssociative, SMTT(30)
    <2> QED BY <1>3, <2>1
  <1> QED BY <1>1, <1>2, <1>4 DEF x, y, MovesUp

(* A sequence and what comes behind it. *)
LEMMA ConcatParts ==
  ASSUME NEW T, NEW x \in Seq(T), NEW y \in Seq(T), NEW q \in 0..Len(x)
  PROVE  /\ IsCut(x, x \o y, Len(x))
         /\ IsRest(SubSeq(x \o y, q + 1, Len(x)) \o y, x \o y, q)
  <1> DEFINE u == x \o y
             L == Len(x)
             h == SubSeq(u, 1, L)
             t == SubSeq(u, L + 1, Len(u))
  <1>1. /\ u \in Seq(T) /\ Len(u) = Len(x) + Len(y)
        /\ \A i \in 1..(Len(x) + Len(y)) : u[i] = IF i <= Len(x) THEN x[i] ELSE y[i - Len(x)]
    BY ConcatProperties
  <1>2. L \in Nat /\ Len(y) \in Nat /\ L = Len(x)
    OBVIOUS
  <1> HIDE DEF u, L
  <1>3. L \in 0..Len(u) /\ Len(u) \in Nat /\ Len(u) \in 0..Len(u) /\ Len(u) \in L..Len(u)
    BY <1>1, <1>2
  <1>4. h \in Seq(T) /\ Len(h) = L /\ \A i \in 1..L : h[i] = u[i]
    BY <1>1, <1>3, CutShape
  <1>5. /\ t \in Seq(T) /\ Len(t) = Len(u) - L
        /\ \A p \in 1..(Len(u) - L) : t[p] = u[L + p]
    <2>1. u \in Seq(T)
      BY <1>1
    <2>2. L \in 0..Len(u)
      BY <1>3
    <2> QED BY <2>1, <2>2, RestShape
  <1> HIDE DEF h, t
  <1>6. h = x
    <2>1. \A i \in 1..L : h[i] = x[i]
      BY <1>1, <1>2, <1>4
    <2> QED BY <1>2, <1>4, <2>1, SeqEqual
  <1>7. t = y
    <2>1. Len(t) = Len(y)
      BY <1>1, <1>2, <1>5
    <2>2. ASSUME NEW p \in 1..Len(t) PROVE t[p] = y[p]
      <3>1. /\ L + p \in 1..(Len(x) + Len(y)) /\ ~(L + p <= Len(x)) /\ (L + p) - Len(x) = p
            /\ p \in 1..(Len(u) - L)
        BY <1>1, <1>2, <1>5, <2>1
      <3> QED BY <1>1, <1>5, <3>1
    <2> QED BY <1>5, <2>1, <2>2, SeqEqual
  <1>8. SubSeq(u, q + 1, L) \o SubSeq(u, L + 1, Len(u)) = SubSeq(u, q + 1, Len(u))
    <2>1. q + 1 \in 1..(Len(u) + 1) /\ L \in ((q + 1) - 1)..Len(u) /\ Len(u) \in L..Len(u)
      BY <1>2, <1>3
    <2> QED BY <1>1, <2>1, ConcatAdjacentSubSeq
  <1>9. IsCut(x, u, L)
    BY <1>6 DEF h, IsCut
  <1>10. IsRest(SubSeq(u, q + 1, L) \o y, u, q)
    BY <1>7, <1>8 DEF t, IsRest
  <1> QED BY <1>9, <1>10 DEF u, L

(* Without the third part, the first two are a beginning of all. *)
LEMMA DropLast ==
  ASSUME NEW T, NEW a \in Seq(T), NEW b \in Seq(T), NEW c \in Seq(T)
  PROVE  IsCut(a \o (b \o << >>), a \o (b \o c), Len(a) + Len(b))
         /\ Len(a) + Len(b) \in 0..Len(a \o (b \o c))
  <1> DEFINE x == a \o b
  <1>1. x \in Seq(T) /\ Len(x) = Len(a) + Len(b)
    BY ConcatProperties
  <1>2. b \o << >> = b
    BY ConcatEmptySeq
  <1>3. x \o c = a \o (b \o c)
    BY ConcatAssociative
  <1> HIDE DEF x
  <1>4. Len(x) \in Nat /\ 0 \in 0..Len(x) /\ Len(c) \in Nat
    BY <1>1
  <1>5. IsCut(x, x \o c, Len(x))
    BY <1>1, <1>4, ConcatParts
  <1>6. Len(x \o c) = Len(x) + Len(c)
    BY <1>1, ConcatProperties
  <1>7. Len(x) \in 0..Len(x \o c)
    BY <1>4, <1>6
  <1> QED BY <1>1, <1>2, <1>3, <1>5, <1>7 DEF x

(* Concatenation in either order, and in the order of four parts. *)
Regroups(a, b, c) == (a \o b) \o c = a \o (b \o c)
RegroupsFour(a, h, y, c) == (a \o h) \o (y \o c) = a \o ((h \o y) \o c)

(* Concatenation is associative. *)
LEMMA RegroupsThree ==
  ASSUME NEW T, NEW a \in Seq(T), NEW b \in Seq(T), NEW c \in Seq(T)
  PROVE  Regroups(a, b, c)
  BY ConcatAssociative DEF Regroups

(* So are four parts. *)
LEMMA FourParts ==
  ASSUME NEW T, NEW a \in Seq(T), NEW h \in Seq(T), NEW y \in Seq(T), NEW c \in Seq(T)
  PROVE  RegroupsFour(a, h, y, c)
  <1> DEFINE z == y \o c
  <1>1. z \in Seq(T)
    BY ConcatProperties
  <1>2. Regroups(h, y, c)
    BY RegroupsThree
  <1> HIDE DEF z
  <1>3. Regroups(a, h, z)
    BY <1>1, RegroupsThree
  <1>4. (h \o y) \o c = h \o z
    BY <1>2 DEF Regroups, z
  <1>5. (a \o h) \o z = a \o (h \o z)
    BY <1>3 DEF Regroups
  <1>6. (a \o h) \o z = a \o ((h \o y) \o c)
    BY <1>4, <1>5
  <1> QED BY <1>6 DEF z, RegroupsFour

(* What is received, and what is then on its way, are parts of all. *)
LEMMA ReceivedParts ==
  ASSUME NEW T, NEW a \in Seq(T), NEW b \in Seq(T), NEW c \in Seq(T), NEW k \in 0..Len(b)
  PROVE  LET u == a \o (b \o c)
             L == Len(a) + k
             y == SubSeq(b, k + 1, Len(b))
         IN  /\ IsCut(a \o SubSeq(b, 1, k), u, L) /\ L \in 0..Len(u)
             /\ y \in Seq(T)
             /\ \A q \in 0..L : IsRest(SubSeq(u, q + 1, L) \o (y \o c), u, q)
  <1> DEFINE u == a \o (b \o c)
             L == Len(a) + k
             h == SubSeq(b, 1, k)
             y == SubSeq(b, k + 1, Len(b))
             x == a \o h
             z == y \o c
  <1>0. Len(b) \in Nat /\ Len(a) \in Nat /\ k \in Nat
    OBVIOUS
  <1>1. h \in Seq(T) /\ Len(h) = k
    BY CutShape
  <1>2. y \in Seq(T)
    <2>1. Len(b) \in 0..Len(b) /\ Len(b) \in k..Len(b)
      BY <1>0
    <2> QED BY <2>1, CutOfCut
  <1>3. h \o y = b
    <2>1. 1 \in 1..(Len(b) + 1) /\ k \in (1 - 1)..Len(b) /\ Len(b) \in k..Len(b)
      BY <1>0
    <2>2. SubSeq(b, 1, k) \o SubSeq(b, k + 1, Len(b)) = SubSeq(b, 1, Len(b))
      BY <2>1, ConcatAdjacentSubSeq
    <2> QED BY <2>2, SubSeqFull
  <1> HIDE DEF h, y
  <1>4. x \in Seq(T) /\ Len(x) = L /\ z \in Seq(T)
    BY <1>1, <1>2, ConcatProperties
  <1>5. u = x \o z
    <2>1. a \in Seq(T) /\ h \in Seq(T) /\ y \in Seq(T) /\ c \in Seq(T)
      BY <1>1, <1>2
    <2>2. RegroupsFour(a, h, y, c)
      BY <2>1, FourParts
    <2> QED BY <1>3, <2>2 DEF RegroupsFour
  <1> HIDE DEF x, z, u, L
  <1>6. Len(x) \in Nat /\ 0 \in 0..Len(x) /\ Len(z) \in Nat
    BY <1>4
  <1>7. \A q \in 0..L : IsCut(x, u, L) /\ IsRest(SubSeq(u, q + 1, L) \o z, u, q)
    <2>1. \A q \in 0..Len(x) : IsCut(x, x \o z, Len(x))
            /\ IsRest(SubSeq(x \o z, q + 1, Len(x)) \o z, x \o z, q)
      BY <1>4, ConcatParts
    <2> QED BY <1>4, <1>5, <2>1
  <1>8. Len(x \o z) = Len(x) + Len(z)
    BY <1>4, ConcatProperties
  <1>9. L \in 0..Len(u) /\ 0 \in 0..L
    BY <1>4, <1>5, <1>6, <1>8
  <1> QED BY <1>2, <1>7, <1>9 DEF x, z, u, L, h, y

-----------------------------------------------------------------------------
(* TCP: the two processes.                                                 *)

(* The cells on their way: kept by the parser, in the connection, and not   *)
(* yet sent.                                                               *)
All == residual \o (pipe \o remaining)

TcpTypes ==
  /\ server \in {"off", "listening", "streaming", "exited", "killed"}
  /\ link \in {"none", "up", "broken"}
  /\ client \in {"off", "failed", "reading", "ended", "killed"}
  /\ produced \in 0..Len(Sizes) /\ n \in Nat /\ ok \in BOOLEAN
  /\ remaining \in Seq(TcpCell) /\ pipe \in Seq(TcpCell) /\ residual \in Seq(TcpCell)
  /\ dispatched \in Seq(Nat)

(* They are consecutive, and go on behind the last message dispatched. *)
InStream == Chain(All) /\ At(All, 0, Len(dispatched) + 1)

(* Whole messages are dispatched, in order, and at once. *)
Whole == \A i \in 1..Len(dispatched) : dispatched[i] = i
Short == residual # << >> => Len(residual) < Sizes[Len(dispatched) + 1]

(* As long as nothing was thrown away, they end with the newest message. *)
Ends == ok /\ server # "killed" => EndsWith(All, Len(dispatched), produced)

(* What the states of the processes and of the connection exclude. *)
Control ==
  /\ client = "off" => link = "none"
  /\ link = "up" \/ server \in {"off", "listening"} => ok
  /\ server \in {"exited", "killed"} \/ ~ok => remaining = << >>
  /\ server = "exited" => produced = Len(Sizes)
  /\ ok /\ server # "killed" => n = IF remaining = << >> THEN produced ELSE produced - 1
  /\ client = "ended" /\ link = "up" => pipe = << >> /\ server \in {"exited", "killed"}

TcpInv == TcpTypes /\ InStream /\ Whole /\ Short /\ Ends /\ Control

(* Where the cells on their way stay the same, so does what they are. *)
LEMMA SameStream ==
  ASSUME TcpInv, All' = All, UNCHANGED <<residual, dispatched>>
  PROVE  InStream' /\ Whole' /\ Short'
  <1>1. InStream /\ Whole /\ Short
    BY DEF TcpInv
  <1>2. InStream'
    BY <1>1 DEF InStream
  <1> QED BY <1>1, <1>2 DEF Whole, Short

(* Nothing has happened yet. *)
LEMMA TcpInitInv == TcpInit => TcpInv
  <1> SUFFICES ASSUME TcpInit PROVE TcpInv
    OBVIOUS
  <1> DEFINE z == << >>
  <1>0. z \in Seq(TcpCell) /\ z \in Seq(Nat) /\ Len(z) = 0
    OBVIOUS
  <1>1. /\ server = "off" /\ produced = 0 /\ n = 0 /\ ok = TRUE /\ remaining = z
        /\ link = "none" /\ pipe = z /\ client = "off" /\ residual = z /\ dispatched = z
    BY DEF TcpInit
  <1>2. All = z
    <2>1. z \o z = z
      BY <1>0, ConcatEmptySeq
    <2> QED BY <1>1, <2>1 DEF All
  <1> HIDE DEF z
  <1>3. TcpTypes
    BY <1>0, <1>1, SizesNat DEF TcpTypes
  <1>4. Chain(z) /\ At(z, 0, 1)
    BY <1>0 DEF Chain, At
  <1>5. InStream
    <2>1. Len(dispatched) + 1 = 1
      BY <1>0, <1>1
    <2> QED BY <1>2, <1>4, <2>1 DEF InStream
  <1>6. Whole
    BY <1>0, <1>1 DEF Whole
  <1>7. Short
    BY <1>1 DEF Short, z
  <1>8. Ends
    <2>1. EndsWith(z, 0, 0)
      BY DEF EndsWith, z
    <2> QED BY <1>0, <1>1, <1>2, <2>1 DEF Ends
  <1>9. Control
    BY <1>1 DEF Control, z
  <1> QED BY <1>3, <1>5, <1>6, <1>7, <1>8, <1>9 DEF TcpInv

(* The steps that move no cell. *)
Quiet ==
  \/ Listen \/ Accept \/ Finish \/ Connect \/ RecvEnds \/ RecvFails \/ KillClient \/ Break

(* They change the states of the processes only. *)
LEMMA QuietInv == TcpInv /\ Quiet => TcpInv'
  <1> SUFFICES ASSUME TcpInv, Quiet PROVE TcpInv'
    OBVIOUS
  <1>1. UNCHANGED <<produced, n, ok, remaining, pipe, residual, dispatched>>
    BY DEF Quiet, Listen, Accept, Finish, Connect, RecvEnds, RecvFails, KillClient, Break,
           serverVars, clientVars
  <1>2. TcpTypes /\ Ends /\ Control
    BY DEF TcpInv
  <1>3. All' = All
    BY <1>1 DEF All
  <1>4. InStream' /\ Whole' /\ Short'
    BY <1>1, <1>3, SameStream
  <1>5. server' # "killed" => server # "killed"
    BY DEF Quiet, Listen, Accept, Finish, Connect, RecvEnds, RecvFails, KillClient, Break,
           serverVars, clientVars
  <1>6. TcpTypes'
    BY <1>1, <1>2 DEF TcpTypes, Quiet, Listen, Accept, Finish, Connect, RecvEnds, RecvFails,
           KillClient, Break, serverVars, clientVars
  <1>7. Ends'
    BY <1>1, <1>2, <1>3, <1>5 DEF Ends
  <1>8. Control'
    <2>1. CASE Listen \/ Accept
      BY <1>1, <1>2, <2>1 DEF Control, Listen, Accept, clientVars
    <2>2. CASE Finish
      BY <1>1, <1>2, <2>2 DEF Control, Finish, clientVars
    <2>3. CASE Connect
      <3>1. link' = "up" => ok
        BY <1>2, <2>3 DEF Connect, Control, TcpTypes
      <3> QED BY <1>1, <1>2, <2>3, <3>1 DEF Control, Connect, serverVars
    <2>4. CASE RecvEnds \/ RecvFails \/ KillClient \/ Break
      BY <1>1, <1>2, <2>4 DEF Control, RecvEnds, RecvFails, KillClient, Break, serverVars, clientVars
    <2> QED BY <2>1, <2>2, <2>3, <2>4 DEF Quiet
  <1> QED BY <1>4, <1>6, <1>7, <1>8 DEF TcpInv

(* The simulator begins to send the next message. *)
LEMMA ProduceInv == TcpInv /\ Produce => TcpInv'
  <1> SUFFICES ASSUME TcpInv, Produce PROVE TcpInv'
    OBVIOUS
  <1> DEFINE z == << >>
  <1>1. /\ server = "streaming" /\ remaining = z /\ produced < Len(Sizes)
        /\ produced' = produced + 1
        /\ remaining' = IF ok THEN Cells(produced + 1) ELSE z
        /\ UNCHANGED <<server, n, ok, link, pipe, client, residual, dispatched>>
    BY DEF Produce, clientVars
  <1>2. TcpTypes /\ InStream /\ Whole /\ Short /\ Ends /\ Control
    BY DEF TcpInv
  <1>3. /\ produced \in Nat /\ produced + 1 \in 1..Len(Sizes) /\ produced' \in 0..Len(Sizes)
        /\ Len(dispatched) \in Nat
    BY <1>1, <1>2, SizesNat DEF TcpTypes
  <1> DEFINE c == Cells(produced + 1)
  <1>4. c \in Seq(TcpCell) /\ c # z
    <2>1. c \in Seq(TcpCell) /\ Len(c) = Sizes[produced + 1] /\ Sizes[produced + 1] \in Nat \ {0}
      BY <1>3, CellsShape, SizesNat
    <2> HIDE DEF c
    <2> QED BY <2>1
  <1>5. z \in Seq(TcpCell)
    OBVIOUS
  <1>6. residual \in Seq(TcpCell) /\ pipe \in Seq(TcpCell)
    BY <1>2 DEF TcpTypes
  <1>7. All \in Seq(TcpCell) /\ All = residual \o pipe
    <2>1. pipe \o << >> = pipe /\ residual \o pipe \in Seq(TcpCell)
      BY <1>6, ConcatEmptySeq, ConcatProperties
    <2> QED BY <1>1, <2>1 DEF All
  <1> HIDE DEF z, c
  <1>8. TcpTypes'
    BY <1>1, <1>2, <1>3, <1>4, <1>5 DEF TcpTypes, c
  <1>9. Whole' /\ Short'
    BY <1>1, <1>2 DEF Whole, Short
  <1>10. InStream' /\ Ends'
    <2>1. CASE ok
      <3>1. Regroups(residual, pipe, c)
        BY <1>4, <1>6, RegroupsThree
      <3>2. All' = All \o c
        <4>1. All' = residual \o (pipe \o c)
          BY <1>1, <2>1 DEF All, c
        <4> QED BY <1>7, <3>1, <4>1 DEF Regroups
      <3>3. Chain(All) /\ At(All, 0, Len(dispatched) + 1)
            /\ EndsWith(All, Len(dispatched), produced)
        BY <1>1, <1>2, <2>1 DEF InStream, Ends
      <3>4. /\ Chain(All \o c) /\ At(All \o c, 0, Len(dispatched) + 1)
            /\ EndsWith(All \o c, Len(dispatched), produced + 1)
        BY <1>3, <3>3, ChainGrows DEF c
      <3> QED BY <1>1, <3>2, <3>4 DEF InStream, Ends
    <2>2. CASE ~ok
      <3>1. All' = All
        BY <1>1, <2>2 DEF All
      <3>2. InStream'
        BY <1>1, <3>1, SameStream
      <3> QED BY <1>1, <2>2, <3>2 DEF Ends
    <2> QED BY <2>1, <2>2
  <1>11. Control'
    <2>1. ok => remaining' # << >> /\ (produced + 1) - 1 = produced
      BY <1>1, <1>3, <1>4 DEF c, z
    <2>2. ok => n = produced
      BY <1>1, <1>2 DEF Control, z
    <2>3. ~ok => remaining' = << >>
      BY <1>1 DEF z
    <2> QED BY <1>1, <1>2, <2>1, <2>2, <2>3 DEF Control
  <1> QED BY <1>8, <1>9, <1>10, <1>11 DEF TcpInv

(* Cells that are sent move on. *)
LEMMA SendSomeInv ==
  ASSUME TcpInv, NEW k \in 1..PipeSize, SendSome(k)
  PROVE  TcpInv'
  <1> DEFINE x == SubSeq(remaining, 1, k)
             y == SubSeq(remaining, k + 1, Len(remaining))
  <1>1. /\ server = "streaming" /\ k <= Len(remaining)
        /\ pipe' = pipe \o x /\ remaining' = y
        /\ n' = IF y = << >> THEN n + 1 ELSE n
        /\ UNCHANGED <<server, produced, ok, link, client, residual, dispatched>>
    BY DEF SendSome, Rest, clientVars
  <1>2. TcpTypes /\ InStream /\ Whole /\ Short /\ Ends /\ Control
    BY DEF TcpInv
  <1>3. residual \in Seq(TcpCell) /\ pipe \in Seq(TcpCell) /\ remaining \in Seq(TcpCell)
    BY <1>2 DEF TcpTypes
  <1>4. k \in 0..Len(remaining) /\ k \in Nat \ {0} /\ Len(remaining) \in Nat
    BY <1>1, <1>3, TcpAssumption
  <1>5. x \in Seq(TcpCell) /\ y \in Seq(TcpCell) /\ MovesUp(residual, pipe, remaining, k)
    BY <1>3, <1>4, MoveUp
  <1>6. remaining # << >>
    BY <1>3, <1>4
  <1> HIDE DEF x, y
  <1>7. pipe \o x \in Seq(TcpCell)
    BY <1>3, <1>5, ConcatProperties
  <1>8. All' = All
    <2>1. residual \o ((pipe \o x) \o y) = residual \o (pipe \o remaining)
      BY <1>5 DEF MovesUp, x, y
    <2> QED BY <1>1, <2>1 DEF All
  <1>9. InStream' /\ Whole' /\ Short'
    BY <1>1, <1>8, SameStream
  <1>10. TcpTypes'
    <2>1. n' \in Nat
      BY <1>1, <1>2 DEF TcpTypes
    <2> QED BY <1>1, <1>2, <1>5, <1>7, <2>1 DEF TcpTypes
  <1>11. Ends'
    BY <1>1, <1>2, <1>8 DEF Ends
  <1>12. Control'
    <2>1. ok
      BY <1>2, <1>6 DEF Control, TcpTypes
    <2>2. n = produced - 1 /\ produced \in Int
      BY <1>1, <1>2, <1>6, <2>1 DEF Control, TcpTypes
    <2>3. n' = IF remaining' = << >> THEN produced ELSE produced - 1
      BY <1>1, <2>2
    <2> QED BY <1>1, <1>2, <2>1, <2>3 DEF Control
  <1> QED BY <1>9, <1>10, <1>11, <1>12 DEF TcpInv

(* What is not sent is thrown away: by a send that fails, or with the       *)
(* process that is killed.                                                 *)
LEMMA DropInv == TcpInv /\ (SendFails \/ KillServer) => TcpInv'
  <1> SUFFICES ASSUME TcpInv, SendFails \/ KillServer PROVE TcpInv'
    OBVIOUS
  <1> DEFINE z == << >>
  <1>1. /\ remaining' = z /\ n' \in {n, n + 1}
        /\ ~ok' \/ server' = "killed"
        /\ UNCHANGED <<produced, link, pipe, client, residual, dispatched>>
    BY DEF SendFails, KillServer, clientVars
  <1>2. TcpTypes /\ InStream /\ Whole /\ Short /\ Ends /\ Control
    BY DEF TcpInv
  <1>3. residual \in Seq(TcpCell) /\ pipe \in Seq(TcpCell) /\ remaining \in Seq(TcpCell)
        /\ z \in Seq(TcpCell)
    BY <1>2 DEF TcpTypes
  <1> DEFINE m == Len(residual) + Len(pipe)
  <1>4. IsCut(All', All, m) /\ m \in 0..Len(All)
    <2>1. All' = residual \o (pipe \o << >>)
      BY <1>1 DEF All
    <2> QED BY <1>3, <2>1, DropLast DEF All
  <1> HIDE DEF z, m
  <1>5. Chain(All') /\ At(All', 0, Len(dispatched) + 1)
    <2>1. Chain(All) /\ At(All, 0, Len(dispatched) + 1)
      BY <1>2 DEF InStream
    <2> QED BY <1>4, <2>1, ChainCut
  <1>6. InStream'
    BY <1>1, <1>5 DEF InStream
  <1>7. Whole' /\ Short'
    BY <1>1, <1>2 DEF Whole, Short
  <1>8. Ends'
    BY <1>1 DEF Ends
  <1>9. TcpTypes'
    <2>1. n' \in Nat
      BY <1>1, <1>2 DEF TcpTypes
    <2>2. ok' \in BOOLEAN
      BY <1>2 DEF TcpTypes, SendFails, KillServer
    <2>3. server' \in {"off", "listening", "streaming", "exited", "killed"}
      BY <1>2 DEF TcpTypes, SendFails, KillServer
    <2> QED BY <1>1, <1>2, <1>3, <2>1, <2>2, <2>3 DEF TcpTypes
  <1>10. Control'
    <2>1. CASE SendFails
      BY <1>1, <1>2, <2>1 DEF Control, SendFails, z
    <2>2. CASE KillServer
      BY <1>1, <1>2, <2>2 DEF Control, KillServer, z
    <2> QED BY <2>1, <2>2
  <1> QED BY <1>6, <1>7, <1>8, <1>9, <1>10 DEF TcpInv

(* Messages behind messages in order. *)
LEMMA WholeGrows ==
  ASSUME NEW s \in Seq(Nat), \A i \in 1..Len(s) : s[i] = i, NEW j \in Nat
  PROVE  LET t == s \o From(Len(s) + 1, j)
         IN  /\ t \in Seq(Nat) /\ Len(t) = Len(s) + j
             /\ \A i \in 1..(Len(s) + j) : t[i] = i
  <1> DEFINE d == Len(s)
             f == From(d + 1, j)
             t == s \o f
  <1>1. d \in Nat
    OBVIOUS
  <1>2. f \in Seq(Nat) /\ Len(f) = j
    <2>1. d + 1 \in Nat
      BY <1>1
    <2> HIDE DEF d
    <2> QED BY <2>1, FromNext
  <1>3. \A x \in 1..j : f[x] = d + x
    <2>1. \A x \in 1..j : f[x] = ((d + 1) + x) - 1
      BY DEF From
    <2> HIDE DEF f, d
    <2> QED BY <1>1, <2>1
  <1> HIDE DEF f
  <1>4. /\ t \in Seq(Nat) /\ Len(t) = Len(s) + Len(f)
        /\ \A i \in 1..(Len(s) + Len(f)) : t[i] = IF i <= Len(s) THEN s[i] ELSE f[i - Len(s)]
    BY <1>2, ConcatProperties
  <1> HIDE DEF t
  <1>5. ASSUME NEW i \in 1..(d + j) PROVE t[i] = i
    <2>1. t[i] = IF i <= d THEN s[i] ELSE f[i - d]
      BY <1>2, <1>4
    <2>2. CASE i <= d
      BY <1>1, <2>1, <2>2
    <2>3. CASE ~(i <= d)
      <3>1. i - d \in 1..j /\ d + (i - d) = i
        BY <1>1, <2>3
      <3> QED BY <1>3, <2>1, <2>3, <3>1
    <2> QED BY <2>2, <2>3
  <1> QED BY <1>2, <1>4, <1>5 DEF t, f

(* Cells are received: the parser takes whole messages off the stream. *)
LEMMA RecvInv ==
  ASSUME TcpInv, NEW k \in 1..BufferSize, Recv(k)
  PROVE  TcpInv'
  <1> DEFINE buf == Received(k)
             y == SubSeq(pipe, k + 1, Len(pipe))
             d == Len(dispatched)
             L == Len(residual) + k
             r == Consume(buf)
  <1>1. /\ client = "reading" /\ k <= Len(pipe)
        /\ dispatched' = dispatched \o r.out /\ residual' = r.rest /\ pipe' = y
        /\ UNCHANGED <<server, produced, n, ok, remaining, link, client>>
    BY DEF Recv, serverVars
  <1>2. TcpTypes /\ InStream /\ Whole /\ Short /\ Ends /\ Control
    BY DEF TcpInv
  <1>3. /\ residual \in Seq(TcpCell) /\ pipe \in Seq(TcpCell) /\ remaining \in Seq(TcpCell)
        /\ dispatched \in Seq(Nat) /\ produced \in Nat
    BY <1>2, SizesNat DEF TcpTypes
  <1>4. /\ k \in 0..Len(pipe) /\ k \in Nat \ {0} /\ Len(residual) \in Nat /\ Len(pipe) \in Nat
        /\ d \in Nat /\ L \in Nat /\ L > 0
    BY <1>1, <1>3, TcpAssumption
  <1>5. /\ IsCut(buf, All, L) /\ L \in 0..Len(All)
        /\ y \in Seq(TcpCell)
        /\ \A q \in 0..L : IsRest(SubSeq(All, q + 1, L) \o (y \o remaining), All, q)
    BY <1>3, <1>4, ReceivedParts DEF All, Received
  <1>6. Chain(All) /\ At(All, 0, d + 1) /\ All \in Seq(TcpCell)
    BY <1>2 DEF InStream, Chain
  <1> HIDE DEF buf, y, L, r, d
  <1>7. Splits(All, L, 0, d + 1, r)
    BY <1>5, <1>6, ConsumeSplits DEF r
  <1>8. PICK j \in Nat, q \in 0..L : SplitsAt(All, L, d + 1, r, j, q)
    BY <1>7 DEF Splits
  <1> DEFINE e == (d + 1) + j
  <1>9. /\ r.out = From(d + 1, j) /\ r.rest = SubSeq(All, q + 1, L)
        /\ At(All, q, e) /\ (q < L => q + Sizes[e] > L)
    BY <1>8 DEF SplitsAt
  <1>10. /\ dispatched' \in Seq(Nat) /\ Len(dispatched') = d + j
         /\ \A i \in 1..(d + j) : dispatched'[i] = i
    <2>1. \A i \in 1..Len(dispatched) : dispatched[i] = i
      BY <1>2 DEF Whole
    <2>2. dispatched' = dispatched \o From(Len(dispatched) + 1, j)
      BY <1>1, <1>9 DEF d
    <2> QED BY <1>3, <2>1, <2>2, WholeGrows DEF d
  <1>11. e \in Nat \ {0} /\ Len(dispatched') + 1 = e /\ e - 1 = Len(dispatched')
    BY <1>4, <1>10
  <1>12. IsRest(All', All, q)
    <2>1. All' = SubSeq(All, q + 1, L) \o (y \o remaining)
      BY <1>1, <1>9 DEF All
    <2> QED BY <1>5, <2>1
  <1> HIDE DEF e
  <1>13. /\ Chain(All') /\ At(All', 0, e)
         /\ \A c \in Nat, m \in Nat :
              All # << >> /\ EndsWith(All, c, m) => EndsWith(All', e - 1, m)
    BY <1>6, <1>9, <1>12, ChainRest
  <1>14. residual' \in Seq(TcpCell) /\ Len(residual') = L - q
    <2>1. L \in 0..Len(All) /\ q \in 0..L /\ L \in q..L
      BY <1>4, <1>5
    <2>2. SubSeq(All, q + 1, L) \in Seq(TcpCell) /\ Len(SubSeq(All, q + 1, L)) = L - q
      BY <1>6, <2>1, CutOfCut
    <2> QED BY <1>1, <1>9, <2>2
  <1>15. TcpTypes'
    BY <1>1, <1>2, <1>5, <1>10, <1>14 DEF TcpTypes
  <1>16. InStream'
    BY <1>11, <1>13 DEF InStream
  <1>17. Whole'
    BY <1>10 DEF Whole
  <1>18. Short'
    <2> SUFFICES ASSUME residual' # << >> PROVE Len(residual') < Sizes[e]
      BY <1>11 DEF Short
    <2>1. q < L
      BY <1>4, <1>14
    <2>2. <<e, 1>> \in TcpCell
      <3>1. q < Len(All) /\ q + 1 \in 1..Len(All)
        BY <1>4, <1>5, <1>6, <2>1
      <3>2. All[q + 1] = <<e, 1>>
        BY <1>9, <3>1 DEF At
      <3> QED BY <1>6, <3>1, <3>2
    <2>3. Sizes[e] \in Nat
      BY <2>2, CellIs, SizesNat
    <2> QED BY <1>4, <1>9, <1>14, <2>1, <2>3
  <1>19. Ends'
    <2> SUFFICES ASSUME ok, server # "killed" PROVE EndsWith(All', e - 1, produced)
      BY <1>1, <1>11 DEF Ends
    <2>1. All # << >>
      BY <1>4, <1>5, <1>6
    <2>2. EndsWith(All, d, produced)
      BY <1>2 DEF Ends, d
    <2> QED BY <1>3, <1>4, <1>13, <2>1, <2>2
  <1>20. Control'
    BY <1>1, <1>2 DEF Control
  <1> QED BY <1>15, <1>16, <1>17, <1>18, <1>19, <1>20 DEF TcpInv

(* What TCP keeps, a feed over UDP does not touch. *)
LEMMA TcpAlways == Spec => []TcpInv
  <1>1. Init => TcpInv
    BY TcpInitInv DEF Init
  <1>2. TcpInv /\ [Next]_vars => TcpInv'
    <2> SUFFICES ASSUME TcpInv, [Next]_vars PROVE TcpInv'
      OBVIOUS
    <2>1. CASE UNCHANGED tcpVars
      <3>1. UNCHANGED <<server, produced, n, ok, remaining, link, pipe, client, residual, dispatched>>
        BY <2>1 DEF tcpVars, serverVars, clientVars
      <3>2. All' = All
        BY <3>1 DEF All
      <3> QED BY <3>1, <3>2 DEF TcpInv, TcpTypes, InStream, Whole, Short, Ends, Control
    <2>2. CASE TcpNext
      <3>1. CASE Quiet
        BY <3>1, QuietInv
      <3>2. CASE SendFails \/ KillServer
        BY <3>2, DropInv
      <3>3. CASE Produce
        BY <3>3, ProduceInv
      <3>4. CASE \E k \in 1..PipeSize : SendSome(k)
        BY <3>4, SendSomeInv
      <3>5. CASE \E k \in 1..BufferSize : Recv(k)
        BY <3>5, RecvInv
      <3> QED BY <2>2, <3>1, <3>2, <3>3, <3>4, <3>5 DEF TcpNext, TcpServer, TcpClient, Quiet
    <2> QED BY <2>1, <2>2 DEF Next, vars
  <1> QED BY <1>1, <1>2, PTL DEF Spec

(* What the parser keeps is a beginning of the next message. *)
LEMMA TcpInvWhole == TcpInv => TcpWholeMessages
  <1> SUFFICES ASSUME TcpInv PROVE TcpWholeMessages
    OBVIOUS
  <1>1. TcpTypes /\ InStream /\ Whole /\ Short
    BY DEF TcpInv
  <1>2. \A i \in DOMAIN dispatched : dispatched[i] = i
    <2>1. dispatched \in Seq(Nat)
      BY <1>1 DEF TcpTypes
    <2>2. DOMAIN dispatched = 1..Len(dispatched)
      BY <2>1
    <2> QED BY <1>1, <2>2 DEF Whole
  <1> DEFINE e == Len(dispatched) + 1
             c == Cells(e)
  <1>3. ASSUME residual # << >> PROVE residual # c /\ IsPrefix(residual, c)
    <2>1. /\ residual \in Seq(TcpCell) /\ pipe \in Seq(TcpCell) /\ remaining \in Seq(TcpCell)
          /\ Len(residual) \in Nat \ {0}
      BY <1>1, <1>3 DEF TcpTypes
    <2> DEFINE w == pipe \o remaining
    <2>2. w \in Seq(TcpCell)
      BY <2>1, ConcatProperties
    <2>3. All = residual \o w
      BY DEF All
    <2> HIDE DEF w
    <2>4. /\ Len(All) = Len(residual) + Len(w) /\ Len(w) \in Nat
          /\ \A i \in 1..(Len(residual) + Len(w)) :
               All[i] = IF i <= Len(residual) THEN residual[i] ELSE w[i - Len(residual)]
      BY <2>1, <2>2, <2>3, ConcatProperties
    <2>5. Chain(All) /\ At(All, 0, e) /\ 0 < Len(All)
      BY <1>1, <2>1, <2>4 DEF InStream
    <2>6. /\ e \in 1..Len(Sizes) /\ Sizes[e] \in Nat
          /\ \A p \in 1..Sizes[e] : 0 + p <= Len(All) => All[0 + p] = <<e, p>>
      BY <2>5, InMessage, SizesNat
    <2>7. c \in Seq(TcpCell) /\ Len(c) = Sizes[e] /\ \A p \in 1..Sizes[e] : c[p] = <<e, p>>
      BY <2>6, CellsShape
    <2>8. Len(residual) < Sizes[e]
      BY <1>1, <1>3 DEF Short
    <2> HIDE DEF e, c
    <2>9. ASSUME NEW p \in 1..Len(residual) PROVE residual[p] = c[p]
      <3>1. p \in 1..Sizes[e] /\ p \in 1..(Len(residual) + Len(w)) /\ 0 + p = p /\ p <= Len(All)
            /\ p <= Len(residual)
        BY <2>1, <2>4, <2>6, <2>8
      <3> QED BY <2>4, <2>6, <2>7, <3>1
    <2>10. residual # c /\ Len(residual) <= Len(c)
      BY <2>1, <2>6, <2>7, <2>8
    <2> QED BY <2>1, <2>7, <2>9, <2>10, PrefixIs
  <1> QED BY <1>2, <1>3 DEF TcpWholeMessages

(* With nothing on its way and nothing thrown away, everything is           *)
(* dispatched.                                                             *)
LEMMA TcpInvComplete == TcpInv => TcpComplete
  <1> SUFFICES ASSUME TcpInv PROVE TcpComplete
    OBVIOUS
  <1>1. TcpTypes /\ InStream /\ Whole /\ Short /\ Ends /\ Control
    BY DEF TcpInv
  <1>2. ASSUME client = "ended", link = "up", server = "exited"
        PROVE  dispatched = [i \in Messages |-> i] /\ residual = << >> /\ ok
    <2> DEFINE z == << >>
    <2>1. ok /\ pipe = z /\ remaining = z /\ produced = Len(Sizes)
      BY <1>1, <1>2 DEF Control
    <2>2. residual \in Seq(TcpCell) /\ dispatched \in Seq(Nat) /\ Len(residual) \in Nat
      BY <1>1 DEF TcpTypes
    <2>3. All = residual
      <3>1. z \o z = z /\ residual \o z = residual
        BY <2>2, ConcatEmptySeq
      <3> QED BY <2>1, <3>1 DEF All
    <2> HIDE DEF z
    <2> DEFINE e == Len(dispatched) + 1
    <2>4. EndsWith(residual, Len(dispatched), produced)
      BY <1>1, <1>2, <2>1, <2>3 DEF Ends
    <2>5. residual = << >>
      <3> SUFFICES ASSUME residual # << >> PROVE FALSE
        OBVIOUS
      <3>1. Chain(residual) /\ At(residual, 0, e) /\ 0 < Len(residual)
        BY <1>1, <2>2, <2>3 DEF InStream
      <3>2. /\ e \in 1..Len(Sizes) /\ Sizes[e] \in Nat
            /\ \A p \in 1..Sizes[e] : 0 + p <= Len(residual) => residual[0 + p] = <<e, p>>
        BY <3>1, InMessage, SizesNat
      <3>3. Len(residual) < Sizes[e]
        BY <1>1 DEF Short
      <3> HIDE DEF e
      <3> DEFINE p == Len(residual)
      <3>4. p \in 1..Sizes[e] /\ 0 + p = p /\ 0 + p <= p
        BY <2>2, <3>1, <3>2, <3>3
      <3>5. residual[p] = <<e, p>>
        BY <3>2, <3>4
      <3>6. residual[p] = <<produced, Sizes[produced]>>
        BY <2>4 DEF EndsWith
      <3>7. p = Sizes[e]
        BY <3>5, <3>6
      <3> QED BY <2>2, <3>2, <3>3, <3>7
    <2>6. Len(dispatched) = Len(Sizes)
      BY <2>1, <2>4, <2>5 DEF EndsWith
    <2>7. dispatched = [i \in Messages |-> i]
      <3>1. dispatched = [i \in 1..Len(dispatched) |-> dispatched[i]]
        BY <2>2
      <3>2. \A i \in 1..Len(dispatched) : dispatched[i] = i
        BY <1>1 DEF Whole
      <3> QED BY <2>6, <3>1, <3>2 DEF Messages
    <2> QED BY <2>1, <2>5, <2>7
  <1>3. server = "exited" /\ ok => n = Len(Sizes)
    BY <1>1 DEF Control
  <1> QED BY <1>2, <1>3 DEF TcpComplete

(* For any sizes of messages and buffers, over any partial sends and        *)
(* segments, and wherever the stream breaks off: the handler dispatches    *)
(* whole messages, in order and once.                                      *)
THEOREM TcpAlwaysWhole == Spec => []TcpWholeMessages
  BY TcpAlways, TcpInvWhole, PTL

(* A handler that ends on a sound connection to a simulator that ended by   *)
(* itself has everything, and ok=1 means that everything was sent.         *)
THEOREM TcpAlwaysComplete == Spec => []TcpComplete
  BY TcpAlways, TcpInvComplete, PTL
==============================================================================
