----------------------------- MODULE MCPipeline ------------------------------
(* Instances of Pipeline for TLC. *)
EXTENDS Pipeline

CONSTANT MaxCells   \* bound: the length of a capture, in cells

MCSymbols == {1, 2}

Messages == [kind : {"message"}, sym : MCSymbols]
Others(kinds) == [kind : kinds, sym : {1}]

(* Every capture of MaxCells cells, and the empty one.  Only its last cell  *)
(* can be cut off by the end of the capture.                               *)
MCCaptures ==
  LET whole == Messages \cup Others(Kinds \ {"message", "partial"})
      final == whole \cup Others({"partial"})
  IN  {<< >>} \cup
      {Append(c, last) : c \in [1..(MaxCells - 1) -> whole], last \in final}
==============================================================================
