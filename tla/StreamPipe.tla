------------------------------ MODULE StreamPipe ------------------------------
(***************************************************************************)
(* What each relayed direction of a connection, a stream, promises its two *)
(* ends: the reader reads what the writer wrote, in order and once, and    *)
(* nothing more after it was told the end; it is told an orderly end only  *)
(* when the writer has finished and it has all of the stream.              *)
(*                                                                         *)
(* The relay has no half-close: closing one direction ends both.  So a     *)
(* reader that has itself closed the direction it writes is promised no    *)
(* more than that what it reads is the beginning of the stream; and a      *)
(* connection that its writer resets, or that times out, may end like one  *)
(* that was closed.                                                        *)
(***************************************************************************)
EXTENDS Sequences, SequencesExt

CONSTANTS
  Streams,
  OtherWay  (* stream -> the one in the other direction                    *)

VARIABLES
  wrote,    (* stream -> what its writer wrote                             *)
  writer,   (* stream -> its writer is "writing", has "closed" the stream, *)
            (* or the connection to it is "broken" off                     *)
  read,     (* stream -> what its reader read                              *)
  end       (* stream -> what the reader was told: "none", "eof" or "cut"  *)

pipeVars == <<wrote, writer, read, end>>

Init ==
  /\ wrote = [s \in Streams |-> <<>>]
  /\ writer = [s \in Streams |-> "writing"]
  /\ read = [s \in Streams |-> <<>>]
  /\ end = [s \in Streams |-> "none"]

Write(s) ==
  /\ writer[s] # "closed"
  /\ writer'[s] = writer[s] \/ (writer[s] = "writing" /\ writer'[s] = "closed")
  /\ IsStrictPrefix(wrote[s], wrote'[s])
  /\ read'[s] = read[s] /\ end'[s] = end[s]

Finish(s) ==
  /\ \/ writer[s] = "writing" /\ writer'[s] = "closed"
     \/ writer[s] # "broken" /\ writer'[s] = "broken"
  /\ wrote'[s] = wrote[s] /\ read'[s] = read[s] /\ end'[s] = end[s]

Read(s) ==
  /\ end[s] = "none" /\ end'[s] = "none"
  /\ IsStrictPrefix(read[s], read'[s]) /\ IsPrefix(read'[s], wrote[s])
  /\ wrote'[s] = wrote[s] /\ writer'[s] = writer[s]

\* When a reader may be told the end: neither out of nothing, nor, as an orderly
\* one, too early.
MayEnd(s, how) ==
  LET back == writer'[OtherWay[s]] IN
  /\ writer'[s] # "writing" \/ back # "writing"
  /\ how = "eof" /\ writer'[s] # "broken" /\ back = "writing" =>
       writer'[s] = "closed" /\ read'[s] = wrote[s]

End(s) ==
  /\ end[s] = "none" /\ end'[s] \in {"eof", "cut"} /\ MayEnd(s, end'[s])
  /\ writer'[s] \in {writer[s], "broken"}
  /\ IsPrefix(read[s], read'[s]) /\ IsPrefix(read'[s], wrote[s])
  /\ wrote'[s] = wrote[s]

Idle(s) ==
  /\ wrote'[s] = wrote[s] /\ writer'[s] = writer[s]
  /\ read'[s] = read[s] /\ end'[s] = end[s]

Next == \A s \in Streams : Write(s) \/ Finish(s) \/ Read(s) \/ End(s) \/ Idle(s)

Spec == Init /\ [][Next]_pipeVars

=============================================================================
