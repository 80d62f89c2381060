-------------------------------- MODULE Pipe --------------------------------
(***************************************************************************)
(* What the chunk layer promises, with none of its chunks: the messages     *)
(* that one end has finished come out at the other one whole, in order and  *)
(* once, and what has come out never changes, until the connection breaks   *)
(* and the reader sees it.  ChunkStream implements this module; publisher   *)
(* and player of Session are the two ends of one as well.                   *)
(***************************************************************************)
EXTENDS Naturals, Sequences

VARIABLES finished,  \* the messages that are wholly sent
          returned,  \* those that have come out
          broken,    \* the connection is
          ended      \* and the reader knows

pipeVars == <<finished, returned, broken, ended>>

PipeInit ==
  /\ finished = << >>
  /\ returned = << >>
  /\ broken = FALSE
  /\ ended = FALSE

\* Any message is added to those that are finished.
Finish ==
  /\ ~broken
  /\ Len(finished') = Len(finished) + 1
  /\ finished = SubSeq(finished', 1, Len(finished))
  /\ UNCHANGED <<returned, broken, ended>>

Return ==
  /\ ~ended
  /\ Len(returned) < Len(finished)
  /\ returned' = Append(returned, finished[Len(returned) + 1])
  /\ UNCHANGED <<finished, broken, ended>>

BreakPipe ==
  /\ ~broken
  /\ broken' = TRUE
  /\ UNCHANGED <<finished, returned, ended>>

\* Only a broken connection ends; what has not come out by then never does.
End ==
  /\ broken /\ ~ended
  /\ ended' = TRUE
  /\ UNCHANGED <<finished, returned, broken>>

PipeNext == Finish \/ Return \/ BreakPipe \/ End

PipeSpec == PipeInit /\ [][PipeNext]_pipeVars

=============================================================================
