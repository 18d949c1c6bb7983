------------------------------- MODULE TcpFeed -------------------------------
(***************************************************************************)
(* A feed over TCP: mdfh_feedsim --tcp and mdfh_feedhandler --tcp, with    *)
(* TcpServer, TcpClient, send_all and recv_some between them.  A message   *)
(* is a sequence of cells, its header in the first, and the connection a   *)
(* bounded sequence of cells.  A call that a signal interrupts is repeated *)
(* with the same arguments: a step that changes nothing.                   *)
(***************************************************************************)
EXTENDS Naturals, Sequences, SequencesExt

CONSTANTS Sizes,      \* the number of cells of each message the simulator makes
          PipeSize,   \* cells that the two socket buffers hold
          BufferSize  \* cells of the buffer given to recv_some

ASSUME TcpAssumption ==
  /\ Sizes \in Seq(Nat \ {0})
  /\ PipeSize \in Nat \ {0} /\ BufferSize \in Nat \ {0}

Cells(m) == [p \in 1..Sizes[m] |-> <<m, p>>]

VARIABLES
  server,      \* "off", "listening", "streaming", "exited" or "killed"
  produced,    \* messages that the simulator gave to the sink
  n,           \* messages that the sink counted
  ok,          \* whether every send succeeded
  remaining,   \* cells of the message in send_all that are not sent
  link,        \* "none", "up" or "broken"
  pipe,        \* cells that were sent and not received
  client,      \* "off", "failed", "reading", "ended" or "killed"
  residual,    \* residual_ of the feed handler
  dispatched   \* what the parser dispatched: message numbers, 0 for a misframed one

clientVars == <<client, residual, dispatched>>
serverVars == <<server, produced, n, ok, remaining>>
tcpVars == <<serverVars, link, pipe, clientVars>>

TcpInit ==
  /\ server = "off" /\ produced = 0 /\ n = 0 /\ ok = TRUE /\ remaining = << >>
  /\ link = "none" /\ pipe = << >>
  /\ client = "off" /\ residual = << >> /\ dispatched = << >>

-----------------------------------------------------------------------------
(* mdfh_feedsim.                                                           *)

Listen ==
  /\ server = "off" /\ server' = "listening"
  /\ UNCHANGED <<produced, n, ok, remaining, link, pipe, clientVars>>

Accept ==
  /\ server = "listening" /\ link # "none" /\ server' = "streaming"
  /\ UNCHANGED <<produced, n, ok, remaining, link, pipe, clientVars>>

(* The simulator calls the sink, which does nothing after a failed send. *)
Produce ==
  /\ server = "streaming" /\ remaining = << >> /\ produced < Len(Sizes)
  /\ produced' = produced + 1
  /\ remaining' = IF ok THEN Cells(produced + 1) ELSE << >>
  /\ UNCHANGED <<server, n, ok, link, pipe, clientVars>>

(* Fault: a partial send is taken for the whole. *)
RestUnsent(k) == << >>

(* send_all goes on behind what send took. *)
Rest(k) == SubSeq(remaining, k + 1, Len(remaining))

(* send takes k cells; behind the last one send_all returns, and n counts. *)
SendSome(k) ==
  /\ server = "streaming" /\ k <= Len(remaining) /\ Len(pipe) + k <= PipeSize
  /\ pipe' = pipe \o SubSeq(remaining, 1, k)
  /\ remaining' = Rest(k)
  /\ n' = IF Rest(k) = << >> THEN n + 1 ELSE n
  /\ UNCHANGED <<server, produced, ok, link, clientVars>>

(* send fails: send_all returns FALSE, and n counts the message, too. *)
SendFails ==
  /\ server = "streaming" /\ remaining # << >> /\ link = "broken"
  /\ ok' = FALSE /\ remaining' = << >> /\ n' = n + 1
  /\ UNCHANGED <<server, produced, link, pipe, clientVars>>

(* run returns, main ends, and the destructor of Socket closes. *)
Finish ==
  /\ server = "streaming" /\ remaining = << >> /\ produced = Len(Sizes)
  /\ server' = "exited"
  /\ UNCHANGED <<produced, n, ok, remaining, link, pipe, clientVars>>

(* The process is killed, perhaps inside a message; its socket is closed. *)
KillServer ==
  /\ server \in {"listening", "streaming"}
  /\ server' = "killed" /\ remaining' = << >>
  /\ UNCHANGED <<produced, n, ok, link, pipe, clientVars>>

-----------------------------------------------------------------------------
(* mdfh_feedhandler.                                                       *)

(* connect succeeds as soon as the server listens, before it accepts. *)
Connect ==
  /\ client = "off"
  /\ IF server = "listening" THEN client' = "reading" /\ link' = "up"
     ELSE client' = "failed" /\ link' = link
  /\ UNCHANGED <<serverVars, pipe, residual, dispatched>>

(* consume, for cells that begin at a message: what is dispatched of buf,   *)
(* and the rest.  The header says how long a message is.                   *)
Consume(buf) ==
  LET walk[i \in 0..Len(buf)] ==
        IF i = Len(buf) \/ i + Sizes[buf[i + 1][1]] > Len(buf)
        THEN [out |-> << >>, rest |-> SubSeq(buf, i + 1, Len(buf))]
        ELSE LET m == buf[i + 1][1]
             IN  [walk[i + Sizes[m]] EXCEPT !.out =
                   <<IF SubSeq(buf, i + 1, i + Sizes[m]) = Cells(m) THEN m ELSE 0>> \o @]
  IN  walk[0]

Received(k) == residual \o SubSeq(pipe, 1, k)

Recv(k) ==
  /\ client = "reading" /\ k <= Len(pipe) /\ k <= BufferSize
  /\ dispatched' = dispatched \o Consume(Received(k)).out
  /\ residual' = Consume(Received(k)).rest
  /\ pipe' = SubSeq(pipe, k + 1, Len(pipe))
  /\ UNCHANGED <<serverVars, link, client>>

(* Fault: the loop ends when nothing is there to read. *)
RecvEndsEarly ==
  /\ client = "reading" /\ pipe = << >>
  /\ client' = "ended"
  /\ UNCHANGED <<serverVars, link, pipe, residual, dispatched>>

(* recv returns 0: the server has closed, and everything is read. *)
RecvEnds ==
  /\ client = "reading" /\ pipe = << >> /\ server \in {"exited", "killed"}
  /\ client' = "ended"
  /\ UNCHANGED <<serverVars, link, pipe, residual, dispatched>>

(* recv fails: the loop ends as if the peer had closed. *)
RecvFails ==
  /\ client = "reading" /\ link = "broken"
  /\ client' = "ended"
  /\ UNCHANGED <<serverVars, link, pipe, residual, dispatched>>

KillClient ==
  /\ client = "reading"
  /\ client' = "killed" /\ link' = "broken"
  /\ UNCHANGED <<serverVars, pipe, residual, dispatched>>

(* The connection breaks, or is reset by a peer that is gone. *)
Break ==
  /\ link = "up" /\ link' = "broken"
  /\ UNCHANGED <<serverVars, pipe, clientVars>>

-----------------------------------------------------------------------------
TcpServer == Accept \/ Produce \/ (\E k \in 1..PipeSize : SendSome(k)) \/ SendFails \/ Finish
TcpClient == (\E k \in 1..BufferSize : Recv(k)) \/ RecvEnds \/ RecvFails

TcpNext ==
  Listen \/ Connect \/ TcpServer \/ TcpClient \/ KillServer \/ KillClient \/ Break
==============================================================================
