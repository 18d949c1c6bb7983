------------------------------ MODULE Capture --------------------------------
(***************************************************************************)
(* Capture files (capture.hpp, capture.cpp): CaptureWriter, as feedsim     *)
(* drives it, and CaptureReader in another process.  Between them stand    *)
(* the buffer of stdio, which reaches the file in pieces at any time, a    *)
(* disk that may be full, and a writer that may crash.                     *)
(*                                                                         *)
(* A file is a sequence of cells: the 24-byte header is one, since a part  *)
(* of it is no header to the reader, and a message has Parts of them, so   *)
(* that it can be torn.                                                    *)
(***************************************************************************)
EXTENDS Naturals, Sequences, FiniteSets, SequencesExt

CONSTANTS Parts,        \* cells of a message
          MaxMessages,  \* bound: messages given to write after one open
          MaxSessions   \* bound: calls of CaptureWriter::open

ASSUME CaptureAssumption ==
  Parts \in Nat \ {0} /\ MaxMessages \in Nat /\ MaxSessions \in Nat

Header(n) == [kind |-> "header", count |-> n]
Foreign == [kind |-> "foreign"]
Part(s, m, p) == [kind |-> "part", session |-> s, message |-> m, part |-> p]
Frame(s, m) == [p \in 1..Parts |-> Part(s, m, p)]

VARIABLES
  disk,     \* the cells of the file; << >> also when there is no file
  state,    \* of the writer: "new", "open", "closed", "failed", "crashed"
  session,  \* how often open succeeded
  count,    \* count_ of the writer
  offered,  \* messages given to write in this session
  buffer,   \* cells that fwrite took and that are not on disk
  taken,    \* all cells of messages that fwrite took in this session
  reader    \* the members of CaptureReader, and what it is doing

writerVars == <<state, session, count, offered, buffer, taken>>
vars == <<disk, writerVars, reader>>

Init ==
  /\ disk \in {<< >>, <<Foreign>>}
  /\ state = "new" /\ session = 0 /\ count = 0 /\ offered = 0
  /\ buffer = << >> /\ taken = << >>
  /\ reader = [busy |-> FALSE, valid |-> FALSE, count |-> 0, bytes |-> << >>,
               headerOf |-> 0, bytesOf |-> 0]

-----------------------------------------------------------------------------
(* The writer.                                                             *)

(* Fault: the file is opened for appending. *)
OpenedFileKept == disk

(* fopen "wb" *)
OpenedFile == << >>

(* Fault: the writer is used again with the old count_. *)
OpenedCountKept == count

OpenedCount == 0

(* open: close(), whatever was open, then fopen, and a header with a count  *)
(* of 0.  An open that fails is the close() it starts with.                *)
Open ==
  /\ session < MaxSessions
  /\ disk' = OpenedFile /\ buffer' = <<Header(0)>>
  /\ state' = "open" /\ session' = session + 1 /\ count' = OpenedCount
  /\ offered' = 0 /\ taken' = << >>
  /\ UNCHANGED reader

(* write: fwrite takes the whole message, and it is counted. *)
Write ==
  /\ state = "open" /\ offered < MaxMessages
  /\ offered' = offered + 1
  /\ buffer' = buffer \o Frame(session, offered + 1)
  /\ taken' = taken \o Frame(session, offered + 1)
  /\ count' = count + 1
  /\ UNCHANGED <<disk, state, session, reader>>

(* write, when fwrite takes less than the message: it returns FALSE without *)
(* counting, and what fwrite took stays.  feedsim does not look at the     *)
(* result and goes on.                                                     *)
WriteShort(k) ==
  /\ state = "open" /\ offered < MaxMessages
  /\ offered' = offered + 1
  /\ LET some == SubSeq(Frame(session, offered + 1), 1, k)
     IN  buffer' = buffer \o some /\ taken' = taken \o some
  /\ UNCHANGED <<disk, state, session, count, reader>>

(* stdio writes out the first k cells of its buffer. *)
Flush(k) ==
  /\ state = "open" /\ k <= Len(buffer)
  /\ disk' = disk \o SubSeq(buffer, 1, k)
  /\ buffer' = SubSeq(buffer, k + 1, Len(buffer))
  /\ UNCHANGED <<state, session, count, offered, taken, reader>>

(* Fault: without the fseek, the header goes to the end of the file. *)
ClosedFileUnseeked == disk \o buffer \o <<Header(count)>>

(* Fault: the file is closed under the buffer. *)
ClosedFileUnflushed == <<Header(count)>> \o (IF disk = << >> THEN << >> ELSE Tail(disk))

(* The buffer is written out and the header replaced. *)
ClosedFile == <<Header(count)>> \o Tail(disk \o buffer)

Close ==
  /\ state = "open"
  /\ disk' = ClosedFile
  /\ buffer' = << >> /\ state' = "closed"
  /\ UNCHANGED <<session, count, offered, taken, reader>>

(* close on a full disk: fflush and then fseek fail, so that the header     *)
(* stays, and fclose writes what it can, the first k cells.                *)
CloseShort(k) ==
  /\ state = "open" /\ k <= Len(buffer)
  /\ disk' = disk \o SubSeq(buffer, 1, k)
  /\ buffer' = << >> /\ state' = "failed"
  /\ UNCHANGED <<session, count, offered, taken, reader>>

(* The process of the writer ends without close. *)
Crash ==
  /\ state = "open"
  /\ buffer' = << >> /\ count' = 0 /\ state' = "crashed"
  /\ UNCHANGED <<disk, session, offered, taken, reader>>

-----------------------------------------------------------------------------
(* The reader.  The writer may take steps between the two parts of open,    *)
(* even empty the file.                                                    *)

(* open, up to the count: it ends here if the header is missing or wrong. *)
ReadHeader ==
  /\ ~reader.busy
  /\ IF disk # << >> /\ disk[1].kind = "header"
     THEN reader' = [reader EXCEPT !.busy = TRUE, !.valid = FALSE,
                                   !.count = disk[1].count, !.headerOf = session]
     ELSE reader' = [reader EXCEPT !.valid = FALSE]
  /\ UNCHANGED <<disk, writerVars>>

(* open, from there on: the message region. *)
ReadBody ==
  /\ reader.busy /\ disk # << >>
  /\ reader' = [reader EXCEPT !.busy = FALSE, !.valid = TRUE,
                              !.bytes = Tail(disk), !.bytesOf = session]
  /\ UNCHANGED <<disk, writerVars>>

(* open, when a seek or the read fails, or the file has become too short.   *)
(* bytes_ is not looked at again while valid_ is FALSE.                    *)
ReadFails ==
  /\ reader.busy
  /\ reader' = [reader EXCEPT !.busy = FALSE]
  /\ UNCHANGED <<disk, writerVars>>

WriterNext ==
  \/ Open \/ Write \/ Close \/ Crash
  \/ \E k \in 0..(Parts - 1) : WriteShort(k)
  \/ \E k \in 1..(1 + MaxMessages * Parts) : Flush(k)
  \/ \E k \in 0..(1 + MaxMessages * Parts) : CloseShort(k)

ReaderNext == ReadHeader \/ ReadBody \/ ReadFails

Next == WriterNext \/ ReaderNext

Spec == Init /\ [][Next]_vars

-----------------------------------------------------------------------------
Cell == {Header(n) : n \in 0..MaxMessages}
          \cup {Part(s, m, p) : s \in 1..MaxSessions, m \in 1..MaxMessages, p \in 1..Parts}

TypeOK ==
  /\ state \in {"new", "open", "closed", "failed", "crashed"}
  /\ session \in 0..MaxSessions /\ offered \in 0..MaxMessages /\ count \in 0..offered
  /\ disk \in {<< >>, <<Foreign>>} \/ disk \in Seq(Cell)
  /\ \A i \in DOMAIN disk : disk[i].kind = "part" => i > 1
  /\ \A i \in DOMAIN disk : disk[i].kind = "header" => i = 1
  /\ buffer \in Seq(Cell) /\ taken \in Seq(Cell)
  /\ reader \in [busy : BOOLEAN, valid : BOOLEAN, count : 0..MaxMessages,
                 bytes : Seq(Cell), headerOf : 0..MaxSessions, bytesOf : 0..MaxSessions]

(* The messages of which every part is there. *)
WholeMessages(cells) ==
  {m \in 1..MaxMessages :
     \E i \in 0..Len(cells) : /\ i + Parts <= Len(cells)
                              /\ SubSeq(cells, i + 1, i + Parts) = Frame(session, m)}

(* "the exact bytes that would have gone on the wire": whenever the file is *)
(* read, during the capture, after a crash or on a full disk, the region   *)
(* is what the writer produced from the beginning up to some point, with   *)
(* nothing of an earlier capture of the same name.                         *)
CapturePrefix ==
  reader.valid /\ reader.bytesOf = session => IsPrefix(reader.bytes, taken)

(* "The message count in the header is patched on close()": a reader that   *)
(* finds a count has that many whole messages, although writes may have    *)
(* failed and the file may still have been open when it looked.            *)
CountTrusted ==
  reader.valid /\ reader.count # 0 /\ reader.headerOf = reader.bytesOf
               /\ reader.bytesOf = session =>
    Cardinality(WholeMessages(reader.bytes)) = reader.count

(* After close the file has every message that write accepted, and says so. *)
ClosedIsComplete ==
  state = "closed" => disk = <<Header(count)>> \o taken
==============================================================================
