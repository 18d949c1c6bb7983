------------------------------- MODULE Replay --------------------------------
(***************************************************************************)
(* ReplayDriver (replay.hpp, replay.cpp) on what CaptureReader gives it: a *)
(* capture that may still be written, that a crash or a short write has    *)
(* torn, and that the same driver, whose feed handler keeps residual_ and  *)
(* the sequence numbers, may be given again in another mode.               *)
(*                                                                         *)
(* The first cell of a message holds its header.  What a parser makes of a *)
(* cell that is not at the beginning of a message is not known: a driver   *)
(* that comes to one is garbled, and not followed any further.             *)
(***************************************************************************)
EXTENDS Capture

CONSTANT MaxReplays   \* bound: calls of replay with one driver

ASSUME ReplayAssumption == MaxReplays \in Nat

VARIABLE driver   \* a ReplayDriver

NewDriver == [residual |-> << >>, next_expected |-> 1, forwarded |-> << >>,
              garbled |-> FALSE, left |-> FALSE, replays |-> 0]

ReplayInit == Init /\ driver = NewDriver

(* What is dispatched for the frame at the front of buf: the message of its *)
(* header, and whether the rest of it belongs to that message.             *)
Dispatched(buf) ==
  [session |-> buf[1].session, message |-> buf[1].message,
   whole |-> SubSeq(buf, 1, Parts) = Frame(buf[1].session, buf[1].message)]

(* Fault: late messages are forwarded, too. *)
AcceptAll(d, m) == [d EXCEPT !.forwarded = Append(@, m), !.next_expected = m.message + 1]

(* FeedHandler::accept, of messages numbered from 1: in order or a gap. *)
AcceptNew(d, m) ==
  IF m.message >= d.next_expected
  THEN [d EXCEPT !.forwarded = Append(@, m), !.next_expected = m.message + 1] ELSE d

(* The complete frames at the front of the cells, and the cells behind. *)
Frames(cells) ==
  [k \in 1..(Len(cells) \div Parts) |-> SubSeq(cells, (k - 1) * Parts + 1, k * Parts)]
Tailpiece(cells) == SubSeq(cells, Parts * (Len(cells) \div Parts) + 1, Len(cells))

Misread(cells) == cells # << >> /\ cells[1].part # 1

(* A frame that parse dispatches. *)
OnFrame(d, frame) ==
  IF d.garbled \/ Misread(frame) THEN [d EXCEPT !.garbled = TRUE]
  ELSE AcceptNew(d, Dispatched(frame))

(* FeedHandler::consume *)
Consume(d, cells) ==
  LET buf == d.residual \o cells
  IN  [FoldLeft(OnFrame, d, Frames(buf)) EXCEPT
         !.residual = Tailpiece(buf), !.garbled = @ \/ Misread(Tailpiece(buf))]

(* replay, paced: every frame by itself, up to the first that is cut off. *)
OnTurn(d, frame) ==
  IF d.garbled \/ Misread(frame) THEN [d EXCEPT !.garbled = TRUE]
  ELSE Consume(d, frame)
ReplayTimed(d, cells) == FoldLeft(OnTurn, d, Frames(cells))

(* replay at MaxSpeed: the whole region at once. *)
ReplayMax(d, cells) == Consume(d, cells)

(* The capture is a sequence of whole messages, but for the last. *)
Untorn(cells) ==
  \A i \in DOMAIN cells :
    /\ cells[i].part = 1 + ((i - 1) % Parts)
    /\ cells[i].part > 1 => cells[i].message = cells[i - 1].message

EndsInside(cells) == Len(cells) % Parts # 0

Replays(d, timed) ==
  /\ reader.valid /\ ~reader.busy
  /\ ~driver.garbled /\ driver.replays < MaxReplays
  /\ driver' = [d EXCEPT !.replays = @ + 1,
                         !.left = @ \/ (~timed /\ EndsInside(reader.bytes))]
  /\ UNCHANGED vars

Replay ==
  \/ Replays(ReplayTimed(driver, reader.bytes), TRUE)
  \/ Replays(ReplayMax(driver, reader.bytes), FALSE)

(* mdfh_replay is started anew. *)
Restart == driver.replays > 0 /\ driver' = NewDriver /\ UNCHANGED vars

ReplayNext == Replay \/ Restart \/ (Next /\ UNCHANGED driver)

ReplaySpec == ReplayInit /\ [][ReplayNext]_<<vars, driver>>

-----------------------------------------------------------------------------
(* The messages that are newer than all of those seen. *)
Newer(m, seen) == \A i \in DOMAIN seen : m.message > seen[i].message
NewOf(messages, seen) ==
  LET upTo[k \in 0..Len(messages)] ==
        IF k = 0 THEN << >>
        ELSE IF Newer(messages[k], seen) THEN Append(upTo[k - 1], messages[k])
        ELSE upTo[k - 1]
  IN  upTo[Len(messages)]

(* "The same capture replayed at any speed produces the identical final     *)
(* book state": in each mode, a replay hands on exactly the whole messages *)
(* of the capture that are newer than all before, in order, also of a      *)
(* capture that is still being written, that a crash cut off, or that the  *)
(* driver has replayed before.  Two cases are excepted, in which the       *)
(* parser takes cells of one message for a part of another: a capture with *)
(* a short write in it, and a driver that a MaxSpeed replay of a cut-off   *)
(* capture left with a partial message in residual_.                       *)
ReplayAppendsNew ==
  [][driver'.replays > driver.replays /\ Untorn(reader.bytes) /\ ~driver.left =>
       /\ ~driver'.garbled
       /\ driver'.forwarded = driver.forwarded
            \o NewOf([k \in DOMAIN Frames(reader.bytes) |->
                        Dispatched(Frames(reader.bytes)[k])], driver.forwarded)]_<<vars, driver>>
==============================================================================
