------------------------------- MODULE UdpFeed -------------------------------
(***************************************************************************)
(* A feed over UDP: mdfh_feedsim --udp and mdfh_feedhandler --udp, with    *)
(* UdpSender and UdpReceiver between them.  Nothing marks the end of the   *)
(* feed: the receiver takes an idle timeout, or any error, for it.         *)
(*                                                                         *)
(* Time passes in ticks.  The receive timeout of the socket is IdleTicks,  *)
(* and the sender, once it runs, sends again within MaxPause ticks.        *)
(***************************************************************************)
EXTENDS Naturals, Sequences

CONSTANTS Datagrams,    \* number of messages that the simulator makes
          SocketBuffer, \* datagrams that the receiving socket holds
          IdleTicks,    \* --idle-ms
          MaxPause      \* bound: ticks between two sends

ASSUME UdpAssumption ==
  /\ Datagrams \in Nat /\ SocketBuffer \in Nat \ {0}
  /\ IdleTicks \in Nat \ {0} /\ MaxPause \in Nat \ {0}

VARIABLES
  sender,    \* "off" or "sending"; it is done when sent = Datagrams
  sent,      \* datagrams given to sendto
  pause,     \* ticks since the last of them
  receiver,  \* "off", "receiving", "timeout" or "error"
  idle,      \* ticks that the present recv has waited
  queue,     \* datagrams in the buffer of the receiving socket
  got        \* datagrams given to consume_datagram

udpVars == <<sender, sent, pause, receiver, idle, queue, got>>

UdpInit ==
  /\ sender = "off" /\ sent = 0 /\ pause = 0
  /\ receiver = "off" /\ idle = 0 /\ queue = << >> /\ got = << >>

Sending == sender = "sending" /\ sent < Datagrams
Waiting == receiver = "receiving" /\ queue = << >>

-----------------------------------------------------------------------------
OpenSender ==
  /\ sender = "off" /\ sender' = "sending"
  /\ UNCHANGED <<sent, pause, receiver, idle, queue, got>>

(* send, and the datagram is in the socket of the receiver. *)
SendDatagram ==
  /\ Sending /\ receiver = "receiving" /\ Len(queue) < SocketBuffer
  /\ sent' = sent + 1 /\ pause' = 0
  /\ queue' = Append(queue, sent + 1)
  /\ UNCHANGED <<sender, receiver, idle, got>>

(* send, in vain: it failed, the network lost the datagram, nobody listens, *)
(* or the socket has no room for it.  The result of send is not used.      *)
SendLost ==
  /\ Sending
  /\ sent' = sent + 1 /\ pause' = 0
  /\ UNCHANGED <<sender, receiver, idle, queue, got>>

Bind ==
  /\ receiver = "off" /\ receiver' = "receiving"
  /\ UNCHANGED <<sender, sent, pause, idle, queue, got>>

(* Fault: the time counts from the start of the feed. *)
IdleAfterRecvTotal == idle

(* SO_RCVTIMEO holds for each call of recv. *)
IdleAfterRecv == 0

(* recv returns a datagram, and the loop calls recv again. *)
RecvDatagram ==
  /\ receiver = "receiving" /\ queue # << >>
  /\ got' = Append(got, Head(queue)) /\ queue' = Tail(queue)
  /\ idle' = IdleAfterRecv
  /\ UNCHANGED <<sender, sent, pause, receiver>>

(* Fault: recv is called again after a timeout. *)
TimeoutRetried ==
  /\ Waiting /\ idle = IdleTicks
  /\ idle' = 0
  /\ UNCHANGED <<sender, sent, pause, receiver, queue, got>>

Timeout ==
  /\ Waiting /\ idle = IdleTicks
  /\ receiver' = "timeout"
  /\ UNCHANGED <<sender, sent, pause, idle, queue, got>>

(* A signal interrupts recvfrom, which UdpReceiver::recv, unlike recv_some, *)
(* does not call again: the feed is over.                                  *)
RecvInterrupted ==
  /\ receiver = "receiving"
  /\ receiver' = "error"
  /\ UNCHANGED <<sender, sent, pause, idle, queue, got>>

(* A receiver that has not called recv yet does not wait. *)
Tick ==
  /\ Sending => pause < MaxPause
  /\ Waiting => idle < IdleTicks
  /\ Sending \/ Waiting
  /\ pause' = IF Sending THEN pause + 1 ELSE pause
  /\ idle' = IF Waiting THEN idle + 1 ELSE idle
  /\ UNCHANGED <<sender, sent, receiver, queue, got>>

-----------------------------------------------------------------------------
UdpSender == SendDatagram \/ SendLost
UdpReceiver == RecvDatagram \/ Timeout

UdpNext == OpenSender \/ UdpSender \/ Bind \/ UdpReceiver \/ RecvInterrupted \/ Tick
==============================================================================
