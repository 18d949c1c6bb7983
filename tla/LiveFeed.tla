------------------------------ MODULE LiveFeed -------------------------------
(***************************************************************************)
(* mdfh_feedsim and mdfh_feedhandler, two processes that are started at    *)
(* any time and told by their arguments to use TCP or UDP.                 *)
(***************************************************************************)
EXTENDS TcpFeed, UdpFeed

VARIABLE transport   \* the flag given to both: "tcp" or "udp"

vars == <<transport, tcpVars, udpVars>>

Init == TcpInit /\ UdpInit /\ transport \in {"tcp", "udp"}

Next ==
  /\ UNCHANGED transport
  /\ \/ transport = "tcp" /\ TcpNext /\ UNCHANGED udpVars
     \/ transport = "udp" /\ UdpNext /\ UNCHANGED tcpVars

(* A process that can take a step does so in the end, and time passes.      *)
(* Nobody has to start a process, and nothing has to be killed or break.   *)
Fairness ==
  /\ WF_vars(transport = "tcp" /\ TcpServer /\ UNCHANGED <<transport, udpVars>>)
  /\ WF_vars(transport = "tcp" /\ TcpClient /\ UNCHANGED <<transport, udpVars>>)
  /\ WF_vars(transport = "udp" /\ UdpSender /\ UNCHANGED <<transport, tcpVars>>)
  /\ WF_vars(transport = "udp" /\ UdpReceiver /\ UNCHANGED <<transport, tcpVars>>)
  /\ WF_vars(transport = "udp" /\ Tick /\ UNCHANGED <<transport, tcpVars>>)

Spec == Init /\ [][Next]_vars /\ Fairness

-----------------------------------------------------------------------------
Messages == 1..Len(Sizes)
(* "TCP is a byte stream, so message boundaries are recovered by the        *)
(* parser's self-describing framing": over any partial sends and segments, *)
(* and wherever the stream breaks off, the messages come out whole, in     *)
(* order and once, and what is left over is a part of the next one.        *)
TcpWholeMessages ==
  /\ \A i \in DOMAIN dispatched : dispatched[i] = i
  /\ residual # << >> =>
       LET next == Cells(Len(dispatched) + 1)
       IN  residual # next /\ IsPrefix(residual, next)

(* A handler that ends on a connection that did not break, with a simulator *)
(* that ended by itself, has every message, although a peer that closed    *)
(* and one that was killed look alike to it.  And a simulator that reports *)
(* ok=1 has sent every message it counts to the end.                       *)
TcpComplete ==
  /\ client = "ended" /\ link = "up" /\ server = "exited" =>
       dispatched = [i \in Messages |-> i] /\ residual = << >> /\ ok
  /\ server = "exited" /\ ok => n = Len(Sizes)

(* How many datagrams in a row must be lost before the receiver takes a     *)
(* sender that goes on for one that has ended.                             *)
Tolerated == (IdleTicks - 1) \div MaxPause

(* "timeout or error -> assume feed ended": a timeout while the sender goes *)
(* on means that at least so many datagrams were lost in a row, and never  *)
(* that one datagram was lost or late, or that the feed is long.           *)
TimeoutMeansSilence ==
  receiver = "timeout" /\ Sending /\ got # << >> =>
    sent - got[Len(got)] >= Tolerated

(* Nobody waits for ever: a handler that is connected ends, once it has     *)
(* read what there is or the peer is gone, and so does a simulator that    *)
(* streams, also to a handler that was killed or a connection that broke;  *)
(* a UDP handler ends some time after the last datagram, although nothing  *)
(* tells it that the feed is over.                                         *)
LoopsEnd ==
  /\ client = "reading" ~> client \in {"ended", "killed"}
  /\ server = "streaming" ~> server \in {"exited", "killed"}
  /\ receiver = "receiving" ~> receiver \in {"timeout", "error"}
==============================================================================
