----------------------------- MODULE PlayerQueue -----------------------------
(***************************************************************************)
(* What a player's queue promises, with none of its goroutines: packets go  *)
(* out once and in the order they came in, as long as none is lost.  After  *)
(* one was lost, because the queue is full or the player's connection       *)
(* fails, the queue may also be turned round, and all but the kept kinds    *)
(* may be dropped from it.  VirWriter implements this module.               *)
(***************************************************************************)
EXTENDS Naturals, Sequences

CONSTANTS QueueKinds,  \* kinds of packets
          Kept,        \* those that are not dropped from the queue
          Limit        \* packets the queue holds

VARIABLES asked,    \* packets that have come, numbered from 1
          waiting,  \* those in the queue
          going,    \* the one on its way to the player's connection, or 0
          given,    \* numbers of those the connection has taken
          end       \* "no", "closed" for new packets, "failed": the connection is

queueVars == <<asked, waiting, going, given, end>>

\* The packets that are nowhere any more.
Lost == {n \in 1..asked :
           /\ \A i \in 1..Len(waiting) : waiting[i].id # n
           /\ n # going
           /\ \A i \in 1..Len(given) : given[i] # n}

QueueInit ==
  /\ asked = 0
  /\ waiting = << >>
  /\ going = 0
  /\ given = << >>
  /\ end = "no"

Accept(kind) ==
  /\ end = "no"
  /\ Len(waiting) < Limit
  /\ asked' = asked + 1
  /\ waiting' = Append(waiting, [id |-> asked + 1, kind |-> kind])
  /\ UNCHANGED <<going, given, end>>

\* Only a full queue refuses a packet.
Refuse ==
  /\ Len(waiting) >= Limit
  /\ asked' = asked + 1
  /\ UNCHANGED <<waiting, going, given, end>>

\* The first packet becomes the last.
Turn ==
  /\ Lost # {}
  /\ waiting # << >>
  /\ waiting' = Append(Tail(waiting), Head(waiting))
  /\ UNCHANGED <<asked, going, given, end>>

\* The last one is dropped.
Drop ==
  /\ Lost # {}
  /\ waiting # << >>
  /\ end = "no" => waiting[Len(waiting)].kind \notin Kept
  /\ waiting' = SubSeq(waiting, 1, Len(waiting) - 1)
  /\ UNCHANGED <<asked, going, given, end>>

Begin ==
  /\ end # "failed"
  /\ going = 0
  /\ waiting # << >>
  /\ going' = Head(waiting).id
  /\ waiting' = Tail(waiting)
  /\ UNCHANGED <<asked, given, end>>

Give ==
  /\ end # "failed"
  /\ going # 0
  /\ given' = Append(given, going)
  /\ going' = 0
  /\ UNCHANGED <<asked, waiting, end>>

\* The packet on its way is lost with the connection.
Fail ==
  /\ end # "failed"
  /\ going # 0
  /\ going' = 0
  /\ end' = "failed"
  /\ UNCHANGED <<asked, waiting, given>>

CloseQueue ==
  /\ end = "no"
  /\ end' = "closed"
  /\ UNCHANGED <<asked, waiting, going, given>>

QueueNext == \/ \E kind \in QueueKinds : Accept(kind)
             \/ Refuse \/ Turn \/ Drop \/ Begin \/ Give \/ Fail \/ CloseQueue

QueueSpec == QueueInit /\ [][QueueNext]_queueVars

=============================================================================
