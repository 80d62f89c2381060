------------------------------ MODULE VirWriter ------------------------------
(***************************************************************************)
(* A player's packet queue (vir.go): the publisher's goroutine puts packets *)
(* in with Write, which thins the queue out with DropPacket when it is      *)
(* nearly full; the goroutine of SendPacket takes them out; the goroutines  *)
(* of Check and of RtmpStream.CheckAlive, and the publisher's when its      *)
(* stream ends, may Close the writer, at the same time if it so happens.    *)
(***************************************************************************)
EXTENDS Integers, Sequences

CONSTANTS NumPackets,  \* packets the publisher sends in a behaviour
          Cap,         \* capacity of packetQueue     (maxQueueNum)
          High,        \* Write calls DropPacket here (maxQueueNum - 24)
          Runs,        \* iterations of DropPacket    (maxQueueNum - 84)
          VideoMark,   \* DropPacket's limit, video   (maxQueueNum - 10)
          AudioMark,   \* DropPacket's limit, audio   (maxQueueNum - 2)
          Faulty       \* TRUE: writing to the player may fail by itself

ASSUME WriterAssumption ==
  /\ {NumPackets, Cap, High, Runs, VideoMark, AudioMark} \subseteq Nat \ {0}
  /\ Runs < High /\ High <= VideoMark /\ VideoMark <= AudioMark /\ AudioMark < Cap
  /\ Faulty \in BOOLEAN

\* "key": a key frame or a sequence header; "frame": any other video frame.
Kinds   == {"audio", "key", "frame", "meta"}
Packets == [id : 1..NumPackets, kind : Kinds]
NoPacket == [id |-> 0, kind |-> "none"]
Closers == {"check", "alive", "inter"}

VARIABLES
  made,       \* packets the publisher has passed to Write
  queue,      \* packetQueue
  open,       \* packetQueue is not closed
  closed,     \* VirWriter.closed
  conn,       \* the player's connection is open
  producer,   \* publisher's goroutine: between calls, in DropPacket's loop, or
              \* done with this writer
  run,        \* DropPacket's loop variable
  hand,       \* DropPacket's tmpPkt
  sender,     \* SendPacket: idle, with a packet, returned
  sending,    \* SendPacket's p
  sent,       \* ids written to the player, in that order
  closer,     \* the callers of Close: each looks at closed before it closes
  crashed     \* a channel was closed twice outside any recover

vars == <<made, queue, open, closed, conn, producer, run, hand, sender,
          sending, sent, closer, crashed>>

Init ==
  /\ made = 0
  /\ queue = << >>
  /\ open = TRUE
  /\ closed = FALSE
  /\ conn = TRUE
  /\ producer = "idle"
  /\ run = 0
  /\ hand = NoPacket
  /\ sender = "idle"
  /\ sending = NoPacket
  /\ sent = << >>
  /\ closer = [c \in Closers |-> "idle"]
  /\ crashed = FALSE

-----------------------------------------------------------------------------
(* Write and DropPacket *)

NearlyFullOffByOne == Len(queue) > High
NearlyFull == Len(queue) >= High

\* Write of a closed writer fails, by its flag or by the panic of sending on a
\* closed channel, and the publisher removes the writer.
WriteFails ==
  /\ producer = "idle"
  /\ closed \/ (~open /\ ~NearlyFull)
  /\ producer' = "gone"
  /\ UNCHANGED <<made, queue, open, closed, conn, run, hand, sender, sending,
                 sent, closer, crashed>>

\* A packet goes in, or, when the queue is nearly full, is discarded while the
\* queue is thinned out.
Write ==
  /\ producer = "idle"
  /\ made < NumPackets
  /\ ~closed
  /\ \E k \in Kinds :
       /\ made' = made + 1
       /\ \/ /\ ~NearlyFull
             /\ open
             /\ queue' = Append(queue, [id |-> made + 1, kind |-> k])
             /\ UNCHANGED <<producer, run>>
          \/ /\ NearlyFull
             /\ producer' = "pop"
             /\ run' = 0
             /\ UNCHANGED queue
  /\ UNCHANGED <<open, closed, conn, hand, sender, sending, sent, closer, crashed>>

NextRunOffByOne == IF run = Runs
                   THEN producer' = "idle" /\ run' = 0
                   ELSE producer' = "pop" /\ run' = run + 1

\* The iteration ends; after the last one Write returns.
NextRun == IF run + 1 = Runs
           THEN producer' = "idle" /\ run' = 0
           ELSE producer' = "pop" /\ run' = run + 1

DropPeek ==
  /\ producer = "pop"
  /\ queue # << >>
  /\ hand' = Head(queue)
  /\ producer' = "judge"
  /\ UNCHANGED <<made, queue, run, open, closed, conn, sender, sending,
                 sent, closer, crashed>>

\* An iteration takes the packet at the head, and waits when there is none.  A
\* closed and empty queue yields none at once.
DropPop ==
  /\ producer = "pop"
  /\ \/ /\ queue # << >>
        /\ hand' = Head(queue)
        /\ queue' = Tail(queue)
        /\ producer' = "judge"
        /\ UNCHANGED run
     \/ /\ queue = << >>
        /\ ~open
        /\ NextRun
        /\ UNCHANGED <<queue, hand>>
  /\ UNCHANGED <<made, open, closed, conn, sender, sending, sent, closer, crashed>>

GoesBackAudioOnly(full) == hand.kind = "audio" /\ ~full

\* Audio goes back to the tail unless the queue is full, and key frames do.
GoesBack(full) == (hand.kind = "audio" /\ ~full) \/ hand.kind = "key"

\* What the iteration does with the packet: it goes back or is dropped, and a
\* packet more is dropped from the head when the queue is above the limit, of
\* audio before it goes back, of video after.  Putting a packet back into a
\* closed channel panics, which ends Write with an error.
DropJudge ==
  /\ producer = "judge"
  /\ hand' = NoPacket
  /\ LET full == Len(queue) > AudioMark
         back == GoesBack(full)
         after == IF back THEN Append(queue, hand) ELSE queue
         more == \/ hand.kind = "audio" /\ full
                 \/ hand.kind \in {"key", "frame"} /\ Len(after) > VideoMark
     IN IF back /\ ~open
        THEN /\ producer' = "gone"
             /\ run' = 0
             /\ UNCHANGED queue
        ELSE /\ queue' = IF more THEN Tail(after) ELSE after
             /\ NextRun
  /\ UNCHANGED <<made, open, closed, conn, sender, sending, sent, closer, crashed>>

-----------------------------------------------------------------------------
(* SendPacket *)

Take ==
  /\ sender = "idle"
  /\ queue # << >>
  /\ sending' = Head(queue)
  /\ queue' = Tail(queue)
  /\ sender' = "sending"
  /\ UNCHANGED <<made, open, closed, conn, producer, run, hand, sent, closer, crashed>>

\* The queue is closed and drained.
SenderReturns ==
  /\ sender = "idle"
  /\ queue = << >>
  /\ ~open
  /\ sender' = "returned"
  /\ UNCHANGED <<made, queue, open, closed, conn, producer, run, hand, sending,
                 sent, closer, crashed>>

Send ==
  /\ sender = "sending"
  /\ conn
  /\ sent' = Append(sent, sending.id)
  /\ sending' = NoPacket
  /\ sender' = "idle"
  /\ UNCHANGED <<made, queue, open, closed, conn, producer, run, hand, closer, crashed>>

SendTriesAgain ==
  /\ sender = "sending"
  /\ ~conn \/ Faulty
  /\ queue' = Append(queue, sending)
  /\ sending' = NoPacket
  /\ sender' = "idle"
  /\ UNCHANGED <<made, open, closed, conn, producer, run, hand, sent, closer, crashed>>

\* The write fails: the writer is marked closed, its channel stays open.
SendFails ==
  /\ sender = "sending"
  /\ ~conn \/ Faulty
  /\ closed' = TRUE
  /\ sending' = NoPacket
  /\ sender' = "failed"
  /\ UNCHANGED <<made, queue, open, conn, producer, run, hand, sent, closer, crashed>>

-----------------------------------------------------------------------------
(* Close *)

CloseLooksInverted(c) ==
  /\ closer[c] = "idle"
  /\ c = "inter" => producer = "idle"
  /\ closer' = [closer EXCEPT ![c] = IF closed THEN "sawOpen" ELSE "closing"]
  /\ producer' = IF c = "inter" THEN "gone" ELSE producer
  /\ UNCHANGED <<made, queue, open, closed, conn, run, hand, sender,
                 sending, sent, crashed>>

\* Close looks at the flag.  Check calls it when reading from the player fails,
\* CheckAlive when nothing was sent for 10 s, the publisher's goroutine when
\* its stream has ended.
CloseLooks(c) ==
  /\ closer[c] = "idle"
  /\ c = "inter" => producer = "idle"
  /\ closer' = [closer EXCEPT ![c] = IF closed THEN "closing" ELSE "sawOpen"]
  /\ producer' = IF c = "inter" THEN "gone" ELSE producer
  /\ UNCHANGED <<made, queue, open, closed, conn, run, hand, sender, sending,
                 sent, crashed>>

\* It saw the flag unset and closes the channel: twice if another one did.
CloseChannel(c) ==
  /\ closer[c] = "sawOpen"
  /\ IF open
     THEN /\ open' = FALSE
          /\ closer' = [closer EXCEPT ![c] = "closing"]
          /\ UNCHANGED crashed
     ELSE /\ crashed' = TRUE
          /\ UNCHANGED <<open, closer>>
  /\ UNCHANGED <<made, queue, closed, conn, producer, run, hand, sender, sending, sent>>

CloseConn(c) ==
  /\ closer[c] = "closing"
  /\ closer' = [closer EXCEPT ![c] = "done"]
  /\ closed' = TRUE
  /\ conn' = FALSE
  /\ UNCHANGED <<made, queue, open, producer, run, hand, sender, sending, sent, crashed>>

Produce == WriteFails \/ Write \/ DropPop \/ DropJudge
Consume == Take \/ SenderReturns \/ Send \/ SendFails
Close(c) == CloseLooks(c) \/ CloseChannel(c) \/ CloseConn(c)

Next == ~crashed /\ (Produce \/ Consume \/ \E c \in Closers : Close(c))

SafeSpec == Init /\ [][Next]_vars

\* The publisher's goroutine waits for a packet in DropPacket, so there is none
\* to send: after 10 s (writeTimeout) CheckAlive finds the writer dead.
Stalled == producer = "pop" /\ queue = << >> /\ open

Fairness == /\ WF_vars(~crashed /\ (DropPop \/ DropJudge))
            /\ WF_vars(~crashed /\ Consume)
            /\ WF_vars(~crashed /\ Stalled /\ CloseLooks("alive"))
            /\ \A c \in Closers : WF_vars(~crashed /\ (CloseChannel(c) \/ CloseConn(c)))

Spec == SafeSpec /\ Fairness

-----------------------------------------------------------------------------
(* Properties *)

\* Every variable has its type.
TypeOK ==
  /\ made \in 0..NumPackets
  /\ queue \in Seq(Packets)
  /\ {open, closed, conn, crashed} \subseteq BOOLEAN
  /\ producer \in {"idle", "pop", "judge", "gone"}
  /\ run \in 0..(Runs - 1)
  /\ hand \in Packets \union {NoPacket}
  /\ sender \in {"idle", "sending", "returned", "failed"}
  /\ sending \in Packets \union {NoPacket}
  /\ sent \in Seq(1..NumPackets)
  /\ closer \in [Closers -> {"idle", "sawOpen", "closing", "done"}]

\* The queue, with the packet DropPacket is about to put back, never exceeds
\* High: the publisher's goroutine never waits for room in the channel, and
\* the branches that drop a packet from the head (vir.go:74 and 89) are never
\* taken.
NeverFull ==
  Len(queue) + (IF producer = "judge" THEN 1 ELSE 0) <= High

Ids(q) == {q[i].id : i \in 1..Len(q)}
Sent == {sent[i] : i \in 1..Len(sent)}

\* No packet is in two places: thinning the queue out while the sender takes
\* from it neither duplicates a packet nor sends one twice.
EachPacketOnce ==
  /\ \A i, j \in 1..Len(queue) : queue[i].id = queue[j].id => i = j
  /\ \A i, j \in 1..Len(sent) : sent[i] = sent[j] => i = j
  /\ hand.id \notin Ids(queue) \union {sending.id} \union Sent \/ hand = NoPacket
  /\ sending.id \notin Ids(queue) \union Sent \/ sending = NoPacket
  /\ Ids(queue) \intersect Sent = {}

\* "try to don't drop audio", "don't drop key frame" (vir.go:72, 85): audio and
\* key frames that DropPacket finds in the queue stay there, are on their way,
\* or went out, as long as the channel is open.
Precious ==
  {p.id : p \in {q \in {queue[i] : i \in 1..Len(queue)} \union {hand} :
                   q.kind \in {"audio", "key"}}}
ThinningKeeps ==
  [][open' /\ sender' # "failed" =>
       \A p \in Precious : p \in Precious' \union {sending.id}' \union Sent']_vars

\* Write returns: the publisher's goroutine does not wait for ever on a queue
\* the sender emptied under it, because CheckAlive closes it; unless the sender
\* itself failed, which marks the writer closed without closing the channel.
WriteReturns ==
  producer \in {"pop", "judge"} ~>
    \/ producer \in {"idle", "gone"}
    \/ sender = "failed"
    \/ crashed

\* The queue implements PlayerQueue: packets go out in the order of Write until
\* one is lost, and the thinning, the closing and a failing connection lose and
\* disorder no more than that module allows.  When a packet is in DropPacket's
\* hand the queue has been turned already.
Waiting == IF producer = "judge" THEN Append(queue, hand) ELSE queue
End == IF sender = "failed" THEN "failed" ELSE IF open THEN "no" ELSE "closed"

Implemented == INSTANCE PlayerQueue WITH
  QueueKinds <- Kinds, Kept <- {"audio", "key"}, Limit <- High,
  asked <- made, waiting <- Waiting, going <- sending.id, given <- sent, end <- End

QueueSpec == Implemented!QueueSpec

=============================================================================
