--------------------------- MODULE VirWriterProofs ---------------------------
(***************************************************************************)
(* Proofs about a player's packet queue, for a queue of any size, any       *)
(* marks in the order the code gives them, and any number of packets.       *)
(***************************************************************************)
EXTENDS VirWriter, TLAPS

\* Packets in the sequence q are all different.
Distinct(q) == \A i, j \in 1..Len(q) : q[i].id = q[j].id => i = j

\* Write made every packet there is, and numbered it.
MadeBefore ==
  /\ Ids(queue) \subseteq 1..made
  /\ hand.id \in 0..made
  /\ sending.id \in 0..made
  /\ Sent \subseteq 1..made

\* DropPacket and SendPacket hold a packet only where their loops say so, and a
\* writer whose sender has failed is marked closed.
Holding ==
  /\ producer = "judge" <=> hand # NoPacket
  /\ sender = "sending" <=> sending # NoPacket
  /\ sender = "failed" => closed

IInv == TypeOK /\ NeverFull /\ MadeBefore /\ Holding /\ EachPacketOnce

-----------------------------------------------------------------------------
(* Sequences of packets *)

\* What the last packet adds to the ids of a queue.
LEMMA IdsAppend ==
  ASSUME NEW q \in Seq(Packets), NEW p \in Packets
  PROVE  /\ Append(q, p) \in Seq(Packets)
         /\ Ids(Append(q, p)) = Ids(q) \union {p.id}
<1> DEFINE a == Append(q, p)
<1>1. /\ a \in Seq(Packets) /\ Len(a) = Len(q) + 1 /\ Len(q) \in Nat
      /\ \A i \in 1..Len(q) : a[i] = q[i]
      /\ a[Len(q) + 1] = p
  OBVIOUS
<1>2. 1..Len(a) = 1..Len(q) \union {Len(q) + 1}
  BY <1>1
<1> HIDE DEF a
<1>3. Ids(a) = Ids(q) \union {p.id}
  BY <1>1, <1>2 DEF Ids
<1> QED
  BY <1>1, <1>3 DEF a

\* A packet with a new id leaves the queue without duplicates.
LEMMA DistinctAppend ==
  ASSUME NEW q \in Seq(Packets), NEW p \in Packets, Distinct(q), p.id \notin Ids(q)
  PROVE  Distinct(Append(q, p))
<1> DEFINE a == Append(q, p)
<1>1. /\ Len(a) = Len(q) + 1 /\ Len(q) \in Nat
      /\ \A i \in 1..Len(q) : a[i] = q[i]
      /\ a[Len(q) + 1] = p
  OBVIOUS
<1>2. \A i \in 1..Len(q) : q[i].id # p.id
  BY DEF Ids
<1> HIDE DEF a
<1>3. ASSUME NEW i \in 1..Len(a), NEW j \in 1..Len(a), a[i].id = a[j].id
      PROVE  i = j
  <2>1. CASE i \in 1..Len(q) /\ j \in 1..Len(q)
    BY <1>1, <1>3, <2>1 DEF Distinct
  <2>2. CASE i \in 1..Len(q) /\ j = Len(q) + 1
    BY <1>1, <1>2, <1>3, <2>2
  <2>3. CASE i = Len(q) + 1 /\ j \in 1..Len(q)
    BY <1>1, <1>2, <1>3, <2>3
  <2>4. CASE i = Len(q) + 1 /\ j = Len(q) + 1
    BY <2>4
  <2> QED
    BY <1>1, <2>1, <2>2, <2>3, <2>4
<1> QED
  BY <1>3 DEF Distinct, a

\* What taking the packet at the head leaves.
LEMMA TakeHead ==
  ASSUME NEW q \in Seq(Packets), q # << >>, Distinct(q)
  PROVE  /\ Head(q) \in Packets
         /\ Tail(q) \in Seq(Packets)
         /\ Len(Tail(q)) = Len(q) - 1
         /\ Len(q) \in Nat \ {0}
         /\ Head(q).id \in Ids(q)
         /\ Ids(Tail(q)) = Ids(q) \ {Head(q).id}
         /\ Distinct(Tail(q))
<1> DEFINE t == Tail(q)
           h == Head(q)
<1>1. /\ h \in Packets /\ t \in Seq(Packets) /\ Len(q) \in Nat \ {0}
      /\ Len(t) = Len(q) - 1 /\ h = q[1]
      /\ \A i \in 1..Len(t) : t[i] = q[i + 1]
  OBVIOUS
<1> HIDE DEF t, h
<1>2. Distinct(t)
  <2> SUFFICES ASSUME NEW i \in 1..Len(t), NEW j \in 1..Len(t), t[i].id = t[j].id
               PROVE  i = j
    BY DEF Distinct
  <2>1. i + 1 \in 1..Len(q) /\ j + 1 \in 1..Len(q)
    BY <1>1
  <2>2. i + 1 = j + 1
    BY <1>1, <2>1 DEF Distinct
  <2> QED
    BY <2>2
<1>3. h.id \in Ids(q)
  BY <1>1 DEF Ids
<1>4. ASSUME NEW x \in Ids(t) PROVE x \in Ids(q) /\ x # h.id
  <2>1. PICK i \in 1..Len(t) : x = t[i].id
    BY <1>4 DEF Ids
  <2>2. i + 1 \in 1..Len(q) /\ 1 \in 1..Len(q) /\ i + 1 # 1 /\ x = q[i + 1].id
    BY <1>1, <2>1
  <2> QED
    BY <1>1, <2>2 DEF Ids, Distinct
<1>5. ASSUME NEW x \in Ids(q), x # h.id PROVE x \in Ids(t)
  <2>1. PICK i \in 1..Len(q) : x = q[i].id
    BY <1>5 DEF Ids
  <2>2. i - 1 \in 1..Len(t) /\ t[i - 1] = q[i]
    BY <1>1, <1>5, <2>1
  <2> QED
    BY <2>1, <2>2 DEF Ids
<1>6. Ids(t) = Ids(q) \ {h.id}
  BY <1>4, <1>5
<1> QED
  BY <1>1, <1>2, <1>3, <1>6 DEF t, h

-----------------------------------------------------------------------------
(* The inductive invariant *)

\* What the invariant says of the packets, as facts to cite.
LEMMA Facts ==
  ASSUME IInv
  PROVE  /\ made \in Nat /\ made <= NumPackets
         /\ queue \in Seq(Packets) /\ Len(queue) \in Nat /\ Len(queue) <= High
         /\ Distinct(queue)
         /\ Ids(queue) \subseteq 1..made
         /\ {High, Runs, VideoMark, AudioMark, Cap} \subseteq Nat \ {0}
         /\ High <= VideoMark /\ VideoMark <= AudioMark
<1> QED
  BY WriterAssumption DEF IInv, TypeOK, NeverFull, MadeBefore, EachPacketOnce, Distinct

\* What the last number adds to those that were sent.
LEMMA SentAppend ==
  ASSUME NEW S, NEW q \in Seq(S), NEW n \in S, n \notin {q[i] : i \in 1..Len(q)},
         \A i, j \in 1..Len(q) : q[i] = q[j] => i = j
  PROVE  /\ Append(q, n) \in Seq(S)
         /\ {Append(q, n)[i] : i \in 1..Len(Append(q, n))} = {q[i] : i \in 1..Len(q)} \union {n}
         /\ \A i, j \in 1..Len(Append(q, n)) : Append(q, n)[i] = Append(q, n)[j] => i = j
<1> DEFINE a == Append(q, n)
<1>1. /\ a \in Seq(S) /\ Len(a) = Len(q) + 1 /\ Len(q) \in Nat
      /\ \A i \in 1..Len(q) : a[i] = q[i]
      /\ a[Len(q) + 1] = n
  OBVIOUS
<1>2. 1..Len(a) = 1..Len(q) \union {Len(q) + 1}
  BY <1>1
<1> HIDE DEF a
<1>3. {a[i] : i \in 1..Len(a)} = {q[i] : i \in 1..Len(q)} \union {n}
  BY <1>1, <1>2
<1>4. \A i \in 1..Len(q) : a[i] # n
  BY <1>1
<1>5. ASSUME NEW i \in 1..Len(a), NEW j \in 1..Len(a), a[i] = a[j]
      PROVE  i = j
  BY <1>1, <1>2, <1>4, <1>5
<1> QED
  BY <1>1, <1>3, <1>5 DEF a

LEMMA InitInv == Init => IInv
<1> SUFFICES ASSUME Init PROVE IInv
  OBVIOUS
<1>1. queue = << >> /\ Len(queue) = 0 /\ queue \in Seq(Packets) /\ Ids(queue) = {}
  BY DEF Init, Ids
<1>2. TypeOK
  <2>1. closer \in [Closers -> {"idle", "sawOpen", "closing", "done"}]
    BY DEF Init
  <2>2. made \in 0..NumPackets /\ run \in 0..(Runs - 1)
    BY WriterAssumption DEF Init
  <2>3. sent \in Seq(1..NumPackets)
    BY DEF Init
  <2> QED
    BY <1>1, <2>1, <2>2, <2>3 DEF Init, TypeOK
<1>3. NeverFull
  BY <1>1, WriterAssumption DEF Init, NeverFull
<1>4. MadeBefore /\ Holding
  BY <1>1 DEF Init, MadeBefore, Holding, NoPacket, Sent
<1>5. EachPacketOnce
  BY <1>1 DEF Init, EachPacketOnce, Sent
<1> QED
  BY <1>2, <1>3, <1>4, <1>5 DEF IInv

\* A packet that is written has a number no other has.
LEMMA WriteKeeps ==
  ASSUME IInv, Write
  PROVE  IInv'
<1> USE DEF Write
<1>0. made' = made + 1 /\ made + 1 \in 1..NumPackets
  BY Facts, WriterAssumption
<1>1. CASE NearlyFull
  <2>1. queue' = queue /\ producer' = "pop" /\ run' = 0
    BY <1>1
  <2>2. TypeOK'
    BY <1>0, <2>1, WriterAssumption DEF IInv, TypeOK
  <2>3. NeverFull' /\ EachPacketOnce'
    BY <2>1, Facts DEF IInv, NeverFull, EachPacketOnce, Sent
  <2>4. MadeBefore'
    BY <1>0, <2>1, Facts DEF IInv, MadeBefore, Sent
  <2>5. Holding'
    BY <2>1 DEF IInv, Holding
  <2> QED
    BY <2>2, <2>3, <2>4, <2>5 DEF IInv
<1>2. CASE ~NearlyFull
  <2>1. PICK k \in Kinds : queue' = Append(queue, [id |-> made + 1, kind |-> k])
    BY <1>2
  <2> DEFINE p == [id |-> made + 1, kind |-> k]
  <2>2. p \in Packets /\ p.id = made + 1 /\ queue' = Append(queue, p)
    BY <1>0, <2>1 DEF Packets
  <2>3. UNCHANGED <<producer, run>> /\ producer = "idle"
    BY <1>2
  <2> HIDE DEF p
  <2>4. made + 1 \notin Ids(queue)
    BY Facts
  <2>5. /\ queue' \in Seq(Packets)
        /\ Ids(queue)' = Ids(queue) \union {made + 1}
        /\ Len(queue') = Len(queue) + 1
    BY <2>2, Facts, IdsAppend
  <2>6. Distinct(queue')
    BY <2>2, <2>4, Facts, DistinctAppend
  <2>7. TypeOK'
    BY <1>0, <2>3, <2>5 DEF IInv, TypeOK
  <2>8. NeverFull'
    BY <1>2, <2>3, <2>5, Facts DEF NearlyFull, NeverFull
  <2>9. MadeBefore'
    <3>1. Sent' = Sent /\ UNCHANGED <<hand, sending>>
      BY DEF Sent
    <3> QED
      BY <1>0, <2>5, <3>1, Facts DEF IInv, MadeBefore
  <2>10. Holding'
    BY <2>3 DEF IInv, Holding
  <2>11. EachPacketOnce'
    <3>1. hand' = hand /\ sending' = sending /\ sent' = sent /\ Sent' = Sent
      BY DEF Sent
    <3>2. hand = NoPacket /\ made + 1 # sending.id /\ made + 1 \notin Sent
      BY <2>3, Facts DEF IInv, MadeBefore, Holding
    <3> QED
      BY <2>5, <2>6, <3>1, <3>2 DEF IInv, EachPacketOnce, Distinct
  <2> QED
    BY <2>7, <2>8, <2>9, <2>10, <2>11 DEF IInv
<1> QED
  BY <1>1, <1>2

\* DropPacket's receive moves a packet from the queue into its hand.
LEMMA DropPopKeeps ==
  ASSUME IInv, DropPop
  PROVE  IInv'
<1>1. CASE queue # << >>
  <2>1. /\ hand' = Head(queue) /\ queue' = Tail(queue) /\ producer' = "judge"
        /\ UNCHANGED <<run, made, sending, sender, sent, open, closed, conn, closer, crashed>>
    BY <1>1 DEF DropPop
  <2>2. /\ hand' \in Packets
        /\ queue' \in Seq(Packets)
        /\ Len(queue') = Len(queue) - 1
        /\ hand'.id \in Ids(queue)
        /\ Ids(queue') = Ids(queue) \ {hand'.id}
        /\ Distinct(queue')
    BY <1>1, <2>1, Facts, TakeHead
  <2>3. TypeOK'
    BY <2>1, <2>2 DEF IInv, TypeOK
  <2>4. NeverFull'
    BY <2>1, <2>2, Facts DEF NeverFull
  <2>5. MadeBefore' /\ Holding'
    BY <2>1, <2>2, Facts DEF IInv, MadeBefore, Holding, Sent, NoPacket, Packets
  <2>6. EachPacketOnce'
    BY <2>1, <2>2, Facts DEF IInv, EachPacketOnce, Distinct, NoPacket, Sent
  <2> QED
    BY <2>3, <2>4, <2>5, <2>6 DEF IInv
<1>2. CASE queue = << >>
  <2>1. /\ NextRun
        /\ UNCHANGED <<queue, hand, made, sending, sender, sent, open, closed, conn, closer, crashed>>
    BY <1>2 DEF DropPop
  <2>2. producer' \in {"idle", "pop"} /\ run' \in 0..(Runs - 1)
    BY <2>1, Facts DEF NextRun, IInv, TypeOK
  <2>3. hand = NoPacket
    BY DEF IInv, Holding, DropPop
  <2>4. TypeOK'
    BY <2>1, <2>2 DEF IInv, TypeOK
  <2>5. NeverFull'
    BY <1>2, <2>1, <2>2, Facts DEF NeverFull
  <2>6. MadeBefore' /\ Holding'
    BY <2>1, <2>2, <2>3 DEF IInv, MadeBefore, Holding, Sent
  <2>7. EachPacketOnce'
    BY <2>1 DEF IInv, EachPacketOnce, Sent
  <2> QED
    BY <2>4, <2>5, <2>6, <2>7 DEF IInv
<1> QED
  BY <1>1, <1>2

\* DropPacket's verdict: as the queue has room, the packet goes back or is
\* dropped, and no other one is.
LEMMA Verdict ==
  ASSUME IInv, DropJudge
  PROVE  /\ hand' = NoPacket
         /\ producer' \in {"idle", "pop", "gone"}
         /\ run' \in 0..(Runs - 1)
         /\ \/ /\ hand.kind \in {"audio", "key"}
               /\ open
               /\ queue' = Append(queue, hand)
            \/ /\ hand.kind \notin {"audio", "key"} \/ ~open
               /\ queue' = queue
<1> USE DEF DropJudge
<1>1. Len(queue) < High
  BY Facts DEF IInv, NeverFull
<1>2. ~(Len(queue) > AudioMark)
  BY <1>1, Facts
<1>3. Len(Append(queue, hand)) = Len(queue) + 1
  BY Facts, IdsAppend
<1>4. GoesBack(Len(queue) > AudioMark) <=> hand.kind \in {"audio", "key"}
  BY <1>2 DEF GoesBack
<1>5. producer' \in {"idle", "pop", "gone"} /\ run' \in 0..(Runs - 1)
  BY Facts DEF NextRun, IInv, TypeOK
<1>6. CASE hand.kind \in {"audio", "key"} /\ ~open
  BY <1>4, <1>5, <1>6
<1>7. CASE hand.kind \in {"audio", "key"} /\ open
  BY <1>1, <1>2, <1>3, <1>4, <1>5, <1>7, Facts
<1>8. CASE hand.kind \notin {"audio", "key"}
  BY <1>1, <1>2, <1>4, <1>5, <1>8, Facts
<1> QED
  BY <1>6, <1>7, <1>8

LEMMA DropJudgeKeeps ==
  ASSUME IInv, DropJudge
  PROVE  IInv'
<1>1. /\ hand' = NoPacket
      /\ producer' \in {"idle", "pop", "gone"}
      /\ run' \in 0..(Runs - 1)
      /\ UNCHANGED <<made, open, closed, conn, sender, sending, sent, closer, crashed>>
      /\ producer = "judge"
  BY Verdict DEF DropJudge
<1>2. CASE hand.kind \in {"audio", "key"} /\ queue' = Append(queue, hand)
  <2>1. hand \in Packets /\ hand # NoPacket
    BY <1>2 DEF IInv, TypeOK, NoPacket
  <2>2. hand.id \notin Ids(queue)
    BY <2>1 DEF IInv, EachPacketOnce
  <2>3. /\ queue' \in Seq(Packets)
        /\ Ids(queue') = Ids(queue) \union {hand.id}
        /\ Len(queue') = Len(queue) + 1
        /\ Distinct(queue')
    BY <1>2, <2>1, <2>2, Facts, IdsAppend, DistinctAppend
  <2>4. TypeOK'
    BY <1>1, <2>3 DEF IInv, TypeOK
  <2>5. NeverFull'
    BY <1>1, <2>3, Facts DEF IInv, NeverFull
  <2>6. MadeBefore'
    <3>1. hand.id \in 1..made
      BY <2>1, Facts DEF IInv, MadeBefore, Packets
    <3> QED
      BY <1>1, <2>3, <3>1, Facts DEF IInv, MadeBefore, NoPacket, Sent
  <2>7. Holding'
    BY <1>1 DEF IInv, Holding
  <2>8. EachPacketOnce'
    BY <1>1, <2>1, <2>3 DEF IInv, EachPacketOnce, Distinct, Sent
  <2> QED
    BY <2>4, <2>5, <2>6, <2>7, <2>8 DEF IInv
<1>3. CASE queue' = queue
  <2>1. TypeOK'
    BY <1>1, <1>3 DEF IInv, TypeOK
  <2>2. NeverFull'
    BY <1>1, <1>3, Facts DEF NeverFull
  <2>3. MadeBefore' /\ Holding'
    BY <1>1, <1>3, Facts DEF IInv, MadeBefore, Holding, NoPacket, Sent
  <2>4. EachPacketOnce'
    BY <1>1, <1>3 DEF IInv, EachPacketOnce, Sent
  <2> QED
    BY <2>1, <2>2, <2>3, <2>4 DEF IInv
<1> QED
  BY <1>2, <1>3, Verdict

\* The sender takes a packet out of the queue.
LEMMA TakeKeeps ==
  ASSUME IInv, Take
  PROVE  IInv'
<1>1. /\ sender' = "sending" /\ queue # << >>
      /\ sending' = Head(queue) /\ queue' = Tail(queue)
      /\ UNCHANGED <<made, open, closed, conn, producer, run, hand, sent, closer, crashed>>
  BY DEF Take
<1>2. /\ sending' \in Packets
      /\ queue' \in Seq(Packets)
      /\ Len(queue') = Len(queue) - 1
      /\ sending'.id \in Ids(queue)
      /\ Ids(queue') = Ids(queue) \ {sending'.id}
      /\ Distinct(queue')
  BY <1>1, Facts, TakeHead
<1>3. TypeOK'
  BY <1>1, <1>2 DEF IInv, TypeOK
<1>4. NeverFull'
  BY <1>1, <1>2, Facts DEF IInv, NeverFull
<1>5. sending'.id \in 1..made
  BY <1>2, Facts
<1>6. MadeBefore' /\ Holding'
  BY <1>1, <1>2, <1>5, Facts DEF IInv, MadeBefore, Holding, NoPacket, Sent
<1>7. EachPacketOnce'
  BY <1>1, <1>2 DEF IInv, EachPacketOnce, Distinct, Sent
<1> QED
  BY <1>3, <1>4, <1>6, <1>7 DEF IInv

\* It is written to the player, or is lost with the connection.
LEMMA SendKeeps ==
  ASSUME IInv, Send \/ SendFails
  PROVE  IInv'
<1>1. /\ sender = "sending" /\ sender' \in {"idle", "failed"}
      /\ sending' = NoPacket
      /\ sent' = sent \/ sent' = Append(sent, sending.id)
      /\ closed' \in BOOLEAN
      /\ UNCHANGED <<made, queue, open, conn, producer, run, hand, closer, crashed>>
  BY DEF Send, SendFails, IInv, TypeOK
<1>2. sending \in Packets /\ sending # NoPacket
  BY <1>1 DEF IInv, TypeOK, Holding
<1>3. sending.id \in 1..made /\ sending.id \in 1..NumPackets
  BY <1>2, Facts DEF IInv, MadeBefore, Packets
<1>9. closed \/ sender' = "failed" => closed'
  BY DEF Send, SendFails
<1>8. /\ sent' \in Seq(1..NumPackets)
      /\ Sent' = Sent \/ Sent' = Sent \union {sending.id}
      /\ \A i, j \in 1..Len(sent') : sent'[i] = sent'[j] => i = j
  <2>1. /\ sent \in Seq(1..NumPackets) /\ sending.id \notin Sent
        /\ \A i, j \in 1..Len(sent) : sent[i] = sent[j] => i = j
    BY <1>2 DEF IInv, TypeOK, EachPacketOnce
  <2>2. CASE sent' = Append(sent, sending.id)
    BY <1>3, <2>1, <2>2, SentAppend DEF Sent
  <2> QED
    BY <1>1, <2>1, <2>2 DEF Sent
<1>4. TypeOK'
  BY <1>1, <1>3, <1>8 DEF IInv, TypeOK
<1>5. NeverFull'
  BY <1>1 DEF IInv, NeverFull
<1>6. MadeBefore' /\ Holding'
  <2>1. MadeBefore'
    <3>1. Sent' \subseteq 1..made
      BY <1>3, <1>8 DEF IInv, MadeBefore
    <3>2. sending'.id = 0 /\ made' = made /\ hand' = hand /\ queue' = queue
      BY <1>1 DEF NoPacket
    <3> QED
      BY <3>1, <3>2, Facts DEF IInv, MadeBefore
  <2>2. Holding'
    <3>1. producer' = "judge" <=> hand' # NoPacket
      BY <1>1 DEF IInv, Holding
    <3>2. sender' = "sending" <=> sending' # NoPacket
      BY <1>1
    <3> QED
      BY <1>9, <3>1, <3>2 DEF Holding
  <2> QED
    BY <2>1, <2>2
<1>7. EachPacketOnce'
  <2>1. hand = NoPacket \/ hand.id # sending.id
    BY DEF IInv, EachPacketOnce
  <2>2. hand = NoPacket \/ hand.id # NoPacket.id
    BY DEF IInv, TypeOK, Packets, NoPacket
  <2> QED
    BY <1>1, <1>2, <1>8, <2>1, <2>2 DEF IInv, EachPacketOnce
<1> QED
  BY <1>4, <1>5, <1>6, <1>7 DEF IInv

\* Closing, giving up and returning move no packet.
LEMMA OthersKeep ==
  ASSUME IInv, WriteFails \/ SenderReturns \/ (\E c \in Closers : Close(c)) \/ UNCHANGED vars
  PROVE  IInv'
<1>1. /\ UNCHANGED <<made, queue, hand, run, sending, sent>>
      /\ producer' = producer \/ (producer = "idle" /\ producer' = "gone")
      /\ sender' = sender \/ (sender = "idle" /\ sender' = "returned")
      /\ producer = "judge" <=> producer' = "judge"
      /\ closed => closed'
  BY DEF WriteFails, SenderReturns, Close, CloseLooks, CloseChannel, CloseConn, vars
<1>2. {open, closed, conn, crashed}' \subseteq BOOLEAN
  BY DEF WriteFails, SenderReturns, Close, CloseLooks, CloseChannel, CloseConn, vars,
         IInv, TypeOK
<1>3. closer' \in [Closers -> {"idle", "sawOpen", "closing", "done"}]
  BY DEF WriteFails, SenderReturns, Close, CloseLooks, CloseChannel, CloseConn, vars,
         IInv, TypeOK
<1>4. TypeOK'
  BY <1>1, <1>2, <1>3 DEF IInv, TypeOK
<1>5. NeverFull'
  BY <1>1 DEF IInv, NeverFull
<1>6. MadeBefore' /\ Holding'
  BY <1>1 DEF IInv, MadeBefore, Holding, Sent
<1>7. EachPacketOnce'
  BY <1>1 DEF IInv, EachPacketOnce, Sent
<1> QED
  BY <1>4, <1>5, <1>6, <1>7 DEF IInv

LEMMA StepInv ==
  ASSUME IInv, [Next]_vars
  PROVE  IInv'
<1> QED
  BY WriteKeeps, DropPopKeeps, DropJudgeKeeps, TakeKeeps, SendKeeps, OthersKeep
  DEF Next, Produce, Consume

-----------------------------------------------------------------------------
(* What thinning keeps *)

\* An audio packet or key frame in the queue or in DropPacket's hand.
LEMMA PreciousIs ==
  ASSUME NEW p
  PROVE  p \in Precious <=>
           \/ \E i \in 1..Len(queue) : queue[i].id = p /\ queue[i].kind \in {"audio", "key"}
           \/ hand.id = p /\ hand.kind \in {"audio", "key"}
<1> QED
  BY DEF Precious

Keeps == open' /\ sender' # "failed" =>
           \A p \in Precious : p \in Precious' \union {sending.id}' \union Sent'

\* What stays in the queue and in the hand stays precious.
LEMMA SameQueueKeeps ==
  ASSUME queue' = queue, hand' = hand
  PROVE  Keeps
<1> QED
  BY DEF Keeps, Precious

LEMMA WriteKeepsPrecious ==
  ASSUME IInv, Write
  PROVE  Keeps
<1>1. CASE queue' = queue
  BY <1>1, SameQueueKeeps DEF Write
<1>2. CASE queue' # queue
  <2>1. PICK k \in Kinds : queue' = Append(queue, [id |-> made + 1, kind |-> k])
    BY <1>2 DEF Write
  <2>2. [id |-> made + 1, kind |-> k] \in Packets
    BY Facts, WriterAssumption DEF Write, Packets
  <2>3. hand' = hand
    BY DEF Write
  <2>4. /\ Len(queue') = Len(queue) + 1
        /\ \A i \in 1..Len(queue) : i \in 1..Len(queue') /\ queue'[i] = queue[i]
    BY <2>1, <2>2, Facts
  <2> QED
    BY <2>3, <2>4, PreciousIs DEF Keeps, Precious
<1> QED
  BY <1>1, <1>2

\* The packet at the head, and those behind it.
LEMMA HeadOrTail ==
  ASSUME NEW q \in Seq(Packets), q # << >>, NEW i \in 1..Len(q)
  PROVE  \/ q[i] = Head(q)
         \/ \E j \in 1..Len(Tail(q)) : Tail(q)[j] = q[i]
<1>1. CASE i = 1
  BY <1>1
<1>2. CASE i # 1
  <2>1. i - 1 \in 1..Len(Tail(q)) /\ Tail(q)[i - 1] = q[i]
    BY <1>2
  <2> QED
    BY <2>1
<1> QED
  BY <1>1, <1>2

LEMMA DropPopKeepsPrecious ==
  ASSUME IInv, DropPop
  PROVE  Keeps
<1>1. CASE queue = << >>
  BY <1>1, SameQueueKeeps DEF DropPop
<1>2. CASE queue # << >>
  <2>1. hand' = Head(queue) /\ queue' = Tail(queue)
    BY <1>2 DEF DropPop
  <2>2. hand.kind \notin {"audio", "key"}
    BY DEF DropPop, IInv, Holding, NoPacket
  <2>3. \A i \in 1..Len(queue) :
           queue[i] = hand' \/ \E j \in 1..Len(queue') : queue'[j] = queue[i]
    BY <1>2, <2>1, Facts, HeadOrTail
  <2>4. ASSUME NEW p \in Precious PROVE p \in Precious'
    <3>1. PICK i \in 1..Len(queue) : queue[i].id = p /\ queue[i].kind \in {"audio", "key"}
      BY <2>2, <2>4, PreciousIs
    <3> QED
      BY <2>3, <3>1 DEF Precious
  <2> QED
    BY <2>4 DEF Keeps
<1> QED
  BY <1>1, <1>2

LEMMA DropJudgeKeepsPrecious ==
  ASSUME IInv, DropJudge
  PROVE  Keeps
<1> SUFFICES ASSUME open', NEW p \in Precious PROVE p \in Precious'
  BY DEF Keeps
<1>1. open
  BY DEF DropJudge
<1>2. CASE hand.kind \in {"audio", "key"}
  <2>1. queue' = Append(queue, hand)
    BY <1>1, <1>2, Verdict
  <2>2. hand \in Packets
    BY <1>2 DEF IInv, TypeOK, NoPacket
  <2>3. /\ Len(queue') = Len(queue) + 1 /\ Len(queue) \in Nat
        /\ \A i \in 1..Len(queue) : i \in 1..Len(queue') /\ queue'[i] = queue[i]
        /\ queue'[Len(queue) + 1] = hand
        /\ Len(queue) + 1 \in 1..Len(queue')
    BY <2>1, <2>2, Facts
  <2>4. \/ \E i \in 1..Len(queue) : queue[i].id = p /\ queue[i].kind \in {"audio", "key"}
        \/ hand.id = p
    BY PreciousIs
  <2>5. \E i \in 1..Len(queue') : queue'[i].id = p /\ queue'[i].kind \in {"audio", "key"}
    BY <1>2, <2>3, <2>4
  <2> QED
    BY <2>5 DEF Precious
<1>3. CASE hand.kind \notin {"audio", "key"}
  <2>1. queue' = queue
    BY <1>3, Verdict
  <2>2. \E i \in 1..Len(queue) : queue[i].id = p /\ queue[i].kind \in {"audio", "key"}
    BY <1>3, PreciousIs
  <2> QED
    BY <2>1, <2>2 DEF Precious
<1> QED
  BY <1>2, <1>3

LEMMA TakeKeepsPrecious ==
  ASSUME IInv, Take
  PROVE  Keeps
<1>1. queue # << >> /\ sending' = Head(queue) /\ queue' = Tail(queue) /\ hand' = hand
  BY DEF Take
<1>2. \A i \in 1..Len(queue) :
         queue[i] = sending' \/ \E j \in 1..Len(queue') : queue'[j] = queue[i]
  BY <1>1, Facts, HeadOrTail
<1>3. ASSUME NEW p \in Precious PROVE p \in Precious' \/ p = sending'.id
  <2>1. CASE hand.id = p /\ hand.kind \in {"audio", "key"}
    BY <1>1, <2>1 DEF Precious
  <2>2. CASE \E i \in 1..Len(queue) : queue[i].id = p /\ queue[i].kind \in {"audio", "key"}
    <3>1. PICK i \in 1..Len(queue) : queue[i].id = p /\ queue[i].kind \in {"audio", "key"}
      BY <2>2
    <3> QED
      BY <1>2, <3>1 DEF Precious
  <2> QED
    BY <1>3, <2>1, <2>2, PreciousIs
<1> QED
  BY <1>3 DEF Keeps

LEMMA StepKeeps ==
  ASSUME IInv, [Next]_vars
  PROVE  Keeps
<1>1. WriteFails \/ (Consume /\ ~Take) \/ (\E c \in Closers : Close(c)) \/ UNCHANGED vars
        => queue' = queue /\ hand' = hand
  BY DEF WriteFails, Consume, SenderReturns, Send, SendFails, Close, CloseLooks,
         CloseChannel, CloseConn, vars
<1> QED
  BY <1>1, SameQueueKeeps, WriteKeepsPrecious, DropPopKeepsPrecious, DropJudgeKeepsPrecious,
     TakeKeepsPrecious
  DEF Next, Produce, Consume

-----------------------------------------------------------------------------
(* VirWriter implements PlayerQueue *)

\* While DropPacket works, the packet that Write discarded is nowhere.
Discarded ==
  producer \in {"pop", "judge"} =>
    made \in 1..NumPackets
      /\ made \notin Ids(queue) \union Sent \union {hand.id, sending.id}

LEMMA InitDiscarded == Init => Discarded
<1> QED
  BY DEF Init, Discarded

LEMMA StepDiscarded ==
  ASSUME IInv, Discarded, [Next]_vars
  PROVE  Discarded'
<1>1. CASE Write
  <2>1. CASE NearlyFull
    <3>1. /\ made' = made + 1 /\ made + 1 \in 1..NumPackets
          /\ UNCHANGED <<queue, sent, hand, sending>>
      BY <1>1, <2>1, Facts, WriterAssumption DEF Write
    <3>2. Ids(queue)' = Ids(queue) /\ Sent' = Sent
      BY <3>1 DEF Sent
    <3>3. made + 1 \notin Ids(queue) \union Sent \union {hand.id, sending.id}
      BY Facts DEF IInv, MadeBefore
    <3> QED
      BY <3>1, <3>2, <3>3 DEF Discarded
  <2>2. CASE ~NearlyFull
    BY <1>1, <2>2 DEF Write, Discarded
  <2> QED
    BY <2>1, <2>2
<1>2. CASE DropPop
  <2>1. CASE queue # << >>
    <3>1. /\ hand' = Head(queue) /\ queue' = Tail(queue)
          /\ UNCHANGED <<made, sent, sending>> /\ producer = "pop"
      BY <1>2, <2>1 DEF DropPop
    <3>2. Ids(queue') \subseteq Ids(queue) /\ hand'.id \in Ids(queue) /\ Sent' = Sent
      BY <2>1, <3>1, Facts, TakeHead DEF Sent
    <3> QED
      BY <3>1, <3>2 DEF Discarded
  <2>2. CASE queue = << >>
    <3>1. UNCHANGED <<queue, hand, made, sent, sending>> /\ producer = "pop"
      BY <1>2, <2>2 DEF DropPop
    <3> QED
      BY <3>1 DEF Discarded, Sent
  <2> QED
    BY <2>1, <2>2
<1>3. CASE DropJudge
  <2>1. /\ hand' = NoPacket /\ producer = "judge"
        /\ UNCHANGED <<made, sent, sending>>
        /\ queue' = queue \/ queue' = Append(queue, hand)
    BY <1>3, Verdict DEF DropJudge
  <2>2. hand \in Packets
    BY <2>1 DEF IInv, TypeOK, Holding
  <2>3. Ids(queue') \subseteq Ids(queue) \union {hand.id} /\ Sent' = Sent
    BY <2>1, <2>2, Facts, IdsAppend DEF Sent
  <2>4. hand'.id = 0
    BY <2>1 DEF NoPacket
  <2> QED
    BY <2>1, <2>3, <2>4 DEF Discarded
<1>4. CASE Take
  <2>1. /\ queue # << >> /\ sending' = Head(queue) /\ queue' = Tail(queue)
        /\ UNCHANGED <<made, sent, hand, producer>>
    BY <1>4 DEF Take
  <2>2. Ids(queue') \subseteq Ids(queue) /\ sending'.id \in Ids(queue) /\ Sent' = Sent
    BY <2>1, Facts, TakeHead DEF Sent
  <2> QED
    BY <2>1, <2>2 DEF Discarded
<1>5. CASE Send \/ SendFails
  <2>1. /\ UNCHANGED <<made, queue, hand, producer>>
        /\ sending' = NoPacket
        /\ sent' = sent \/ sent' = Append(sent, sending.id)
    BY <1>5 DEF Send, SendFails
  <2>2. Sent' \subseteq Sent \union {sending.id}
    <3>1. sent \in Seq(1..NumPackets) /\ sending.id \in Nat
      BY DEF IInv, TypeOK, Packets, NoPacket
    <3>2. \A i \in 1..Len(sent') : sent'[i] = sending.id \/ (i \in 1..Len(sent) /\ sent'[i] = sent[i])
      BY <2>1, <3>1
    <3> QED
      BY <3>2 DEF Sent
  <2>3. sending'.id = 0
    BY <2>1 DEF NoPacket
  <2> QED
    BY <2>1, <2>2, <2>3 DEF Discarded
<1>6. CASE WriteFails \/ SenderReturns \/ (\E c \in Closers : Close(c)) \/ UNCHANGED vars
  <2>1. /\ UNCHANGED <<made, queue, hand, sending, sent>>
        /\ producer' = producer \/ producer' = "gone"
    BY <1>6 DEF WriteFails, SenderReturns, Close, CloseLooks, CloseChannel, CloseConn, vars
  <2> QED
    BY <2>1 DEF Discarded, Sent
<1> QED
  BY <1>1, <1>2, <1>3, <1>4, <1>5, <1>6 DEF Next, Produce, Consume

\* So a packet is lost, as PlayerQueue sees it.
LEMMA SomeLost ==
  ASSUME IInv, Discarded, producer \in {"pop", "judge"}
  PROVE  Implemented!Lost # {}
<1>1. /\ made \in 1..made
      /\ made \notin Ids(queue) \union Sent \union {hand.id, sending.id}
  BY Facts DEF Discarded
<1>2. ASSUME NEW i \in 1..Len(Waiting) PROVE Waiting[i].id # made
  <2>1. CASE producer = "pop"
    BY <1>1, <1>2, <2>1 DEF Waiting, Ids
  <2>2. CASE producer = "judge"
    <3>1. hand \in Packets /\ Waiting = Append(queue, hand) /\ queue \in Seq(Packets)
      BY <2>2, Facts DEF IInv, TypeOK, Holding, Waiting
    <3>2. Waiting[i] = hand \/ (i \in 1..Len(queue) /\ Waiting[i] = queue[i])
      BY <3>1
    <3> QED
      BY <1>1, <3>2 DEF Ids
  <2> QED
    BY <2>1, <2>2
<1>3. made # sending.id /\ \A i \in 1..Len(sent) : sent[i] # made
  BY <1>1 DEF Sent
<1>4. made \in Implemented!Lost
  BY <1>1, <1>2, <1>3 DEF Implemented!Lost
<1> QED
  BY <1>4

\* The ends of a queue with one packet more.
LEMMA OneMore ==
  ASSUME NEW q \in Seq(Packets), NEW p \in Packets
  PROVE  /\ Append(q, p) # << >>
         /\ Append(q, p)[Len(Append(q, p))] = p
         /\ SubSeq(Append(q, p), 1, Len(Append(q, p)) - 1) = q
         /\ q # << >> => /\ Head(Append(q, p)) = Head(q)
                        /\ Tail(Append(q, p)) = Append(Tail(q), p)
<1> HIDE DEF Packets
<1>1. Len(Append(q, p)) = Len(q) + 1 /\ Len(q) \in Nat /\ Append(q, p) \in Seq(Packets)
  OBVIOUS
<1>2. SubSeq(Append(q, p), 1, Len(Append(q, p)) - 1) = q
  <2>1. Len(Append(q, p)) - 1 = Len(q)
    BY <1>1
  <2>2. SubSeq(Append(q, p), 1, Len(q)) = q
    BY <1>1
  <2> QED
    BY <2>1, <2>2
<1>3. ASSUME q # << >>
      PROVE  /\ Head(Append(q, p)) = Head(q)
             /\ Tail(Append(q, p)) = Append(Tail(q), p)
  BY <1>1, <1>3
<1>4. Append(q, p) # << >> /\ Append(q, p)[Len(Append(q, p))] = p
  BY <1>1
<1> QED
  BY <1>2, <1>3, <1>4

LEMMA InitQueue == Init => Implemented!QueueInit
<1> QED
  BY DEF Init, Implemented!QueueInit, Waiting, End, NoPacket

LEMMA WriteMaps ==
  ASSUME IInv, Write
  PROVE  Implemented!QueueNext
<1>1. /\ producer = "idle" /\ ~closed /\ made' = made + 1
      /\ UNCHANGED <<open, sender, sending, sent>>
  BY DEF Write
<1>2. Waiting = queue /\ End' = End
  BY <1>1 DEF Waiting, End
<1>3. CASE NearlyFull
  <2>1. Waiting' = queue /\ Len(queue) >= High
    BY <1>3 DEF Write, Waiting, NearlyFull
  <2>2. Implemented!Refuse
    BY <1>1, <1>2, <2>1 DEF Implemented!Refuse
  <2> QED
    BY <2>2 DEF Implemented!QueueNext
<1>4. CASE ~NearlyFull
  <2>1. PICK k \in Kinds : queue' = Append(queue, [id |-> made + 1, kind |-> k])
    BY <1>4 DEF Write
  <2>2. open /\ producer' = "idle"
    BY <1>4 DEF Write
  <2>3. sender # "failed"
    BY <1>1 DEF IInv, Holding
  <2>4. End = "no"
    BY <2>2, <2>3 DEF End
  <2>5. Waiting' = queue' /\ Len(queue) < High
    BY <1>4, <2>2, Facts DEF Waiting, NearlyFull
  <2>6. Implemented!Accept(k)
    BY <1>1, <1>2, <2>1, <2>4, <2>5 DEF Implemented!Accept
  <2> QED
    BY <2>6 DEF Implemented!QueueNext
<1> QED
  BY <1>3, <1>4

LEMMA DropPopMaps ==
  ASSUME IInv, Discarded, DropPop
  PROVE  Implemented!QueueNext \/ UNCHANGED Implemented!queueVars
<1>1. /\ producer = "pop" /\ Waiting = queue
      /\ UNCHANGED <<made, open, sender, sending, sent>>
  BY DEF DropPop, Waiting
<1>2. End' = End
  BY <1>1 DEF End
<1>3. CASE queue # << >>
  <2>1. hand' = Head(queue) /\ queue' = Tail(queue) /\ producer' = "judge"
    BY <1>3 DEF DropPop
  <2>2. Waiting' = Append(Tail(queue), Head(queue))
    BY <2>1 DEF Waiting
  <2>3. Implemented!Turn
    BY <1>1, <1>2, <1>3, <2>2, SomeLost DEF Implemented!Turn
  <2> QED
    BY <2>3 DEF Implemented!QueueNext
<1>4. CASE queue = << >>
  <2>1. queue' = queue /\ producer' # "judge"
    BY <1>4 DEF DropPop, NextRun
  <2>2. Waiting' = Waiting
    BY <1>1, <2>1 DEF Waiting
  <2> QED
    BY <1>1, <1>2, <2>2 DEF Implemented!queueVars
<1> QED
  BY <1>3, <1>4

LEMMA DropJudgeMaps ==
  ASSUME IInv, Discarded, DropJudge
  PROVE  Implemented!QueueNext \/ UNCHANGED Implemented!queueVars
<1>1. /\ producer = "judge" /\ Waiting = Append(queue, hand)
      /\ UNCHANGED <<made, open, sender, sending, sent>>
  BY DEF DropJudge, Waiting
<1>2. End' = End
  BY <1>1 DEF End
<1>3. hand \in Packets /\ queue \in Seq(Packets)
  BY <1>1, Facts DEF IInv, TypeOK, Holding
<1>4. Waiting' = queue'
  BY Verdict DEF Waiting
<1>5. CASE queue' = Append(queue, hand)
  BY <1>1, <1>2, <1>4, <1>5 DEF Implemented!queueVars
<1>6. CASE queue' = queue /\ (hand.kind \notin {"audio", "key"} \/ ~open)
  <2>1. /\ Waiting # << >> /\ Waiting[Len(Waiting)] = hand
        /\ queue = SubSeq(Waiting, 1, Len(Waiting) - 1)
    BY <1>1, <1>3, OneMore
  <2>2. End = "no" => open
    BY DEF End
  <2>3. Implemented!Drop
    BY <1>1, <1>2, <1>4, <1>6, <2>1, <2>2, SomeLost DEF Implemented!Drop
  <2> QED
    BY <2>3 DEF Implemented!QueueNext
<1> QED
  BY <1>5, <1>6, Verdict

LEMMA SenderMaps ==
  ASSUME IInv, Consume
  PROVE  Implemented!QueueNext \/ UNCHANGED Implemented!queueVars
<1>1. CASE Take
  <2>1. /\ sender = "idle" /\ sender' = "sending" /\ queue # << >>
        /\ sending' = Head(queue) /\ queue' = Tail(queue)
        /\ UNCHANGED <<made, open, producer, hand, sent>>
    BY <1>1 DEF Take
  <2>2. End' = End /\ End # "failed" /\ sending.id = 0
    BY <2>1 DEF End, IInv, Holding, NoPacket
  <2>3. /\ Waiting # << >> /\ Head(Waiting) = Head(queue)
        /\ Waiting' = Tail(Waiting)
    <3>1. CASE producer = "judge"
      <4>1. hand \in Packets /\ queue \in Seq(Packets)
        BY <3>1, Facts DEF IInv, TypeOK, Holding
      <4> QED
        BY <2>1, <3>1, <4>1, OneMore DEF Waiting
    <3>2. CASE producer # "judge"
      BY <2>1, <3>2 DEF Waiting
    <3> QED
      BY <3>1, <3>2
  <2>4. Implemented!Begin
    BY <2>1, <2>2, <2>3 DEF Implemented!Begin
  <2> QED
    BY <2>4 DEF Implemented!QueueNext
<1>2. CASE Send \/ SendFails
  <2>1. /\ sender = "sending" /\ sending' = NoPacket /\ sending'.id = 0
        /\ UNCHANGED <<made, open, producer, hand, queue>>
    BY <1>2 DEF Send, SendFails, NoPacket
  <2>2. Waiting' = Waiting
    BY <2>1 DEF Waiting
  <2>3. sending.id # 0 /\ End # "failed"
    <3>1. sending \in Packets
      BY <2>1 DEF IInv, TypeOK, Holding
    <3> QED
      BY <2>1, <3>1 DEF Packets, End
  <2>4. CASE Send
    <3>1. sent' = Append(sent, sending.id) /\ End' = End
      BY <2>1, <2>4 DEF Send, End
    <3>2. Implemented!Give
      BY <2>1, <2>2, <2>3, <3>1 DEF Implemented!Give
    <3> QED
      BY <3>2 DEF Implemented!QueueNext
  <2>5. CASE SendFails
    <3>1. sent' = sent /\ End' = "failed"
      BY <2>5 DEF SendFails, End
    <3>2. Implemented!Fail
      BY <2>1, <2>2, <2>3, <3>1 DEF Implemented!Fail
    <3> QED
      BY <3>2 DEF Implemented!QueueNext
  <2> QED
    BY <1>2, <2>4, <2>5
<1>3. CASE SenderReturns
  <2>1. UNCHANGED <<made, open, producer, hand, queue, sending, sent>>
    BY <1>3 DEF SenderReturns
  <2>2. Waiting' = Waiting /\ End' = End
    BY <1>3, <2>1 DEF SenderReturns, Waiting, End
  <2> QED
    BY <2>1, <2>2 DEF Implemented!queueVars
<1> QED
  BY <1>1, <1>2, <1>3 DEF Consume

LEMMA OthersMap ==
  ASSUME IInv, WriteFails \/ (\E c \in Closers : Close(c)) \/ UNCHANGED vars
  PROVE  Implemented!QueueNext \/ UNCHANGED Implemented!queueVars
<1>1. /\ UNCHANGED <<made, queue, hand, sending, sent, sender>>
      /\ (producer' = "judge") <=> (producer = "judge")
  BY DEF WriteFails, Close, CloseLooks, CloseChannel, CloseConn, vars
<1>2. Waiting' = Waiting
  BY <1>1 DEF Waiting
<1>3. open' = open \/ (open /\ ~open')
  BY DEF WriteFails, Close, CloseLooks, CloseChannel, CloseConn, vars
<1>4. CASE End' = End
  BY <1>1, <1>2, <1>4 DEF Implemented!queueVars
<1>5. CASE End' # End
  <2>1. End = "no" /\ End' = "closed"
    BY <1>1, <1>3, <1>5 DEF End
  <2>2. Implemented!CloseQueue
    BY <1>1, <1>2, <2>1 DEF Implemented!CloseQueue
  <2> QED
    BY <2>2 DEF Implemented!QueueNext
<1> QED
  BY <1>4, <1>5

LEMMA StepMaps ==
  ASSUME IInv, Discarded, [Next]_vars
  PROVE  [Implemented!QueueNext]_Implemented!queueVars
<1> QED
  BY WriteMaps, DropPopMaps, DropJudgeMaps, SenderMaps, OthersMap DEF Next, Produce

-----------------------------------------------------------------------------
(* Theorems *)

LEMMA Invariant == Spec => []IInv
<1> QED
  BY InitInv, StepInv, PTL DEF Spec, SafeSpec

\* Every variable keeps its type: packets are only made by Write, and the
\* loop of DropPacket stays within its bounds.
THEOREM TypeCorrect == Spec => []TypeOK
<1>1. IInv => TypeOK
  BY DEF IInv
<1> QED
  BY <1>1, Invariant, PTL

\* The publisher's goroutine never waits for room in packetQueue, whatever the
\* size of the queue: as maxQueueNum - 24 is below both limits of DropPacket.
THEOREM QueueNeverFull == Spec => []NeverFull
<1>1. IInv => NeverFull
  BY DEF IInv
<1> QED
  BY <1>1, Invariant, PTL

\* Rotating the queue while the sender takes from it duplicates no packet.
THEOREM PacketsOnce == Spec => []EachPacketOnce
<1>1. IInv => EachPacketOnce
  BY DEF IInv
<1> QED
  BY <1>1, Invariant, PTL

\* Thinning the queue out loses neither audio nor key frames: DropPacket never
\* finds the queue fuller than its limits, so that nothing but its own packet
\* can be dropped.
THEOREM ThinningKeepsPrecious == Spec => ThinningKeeps
<1>1. IInv /\ [Next]_vars =>
        [open' /\ sender' # "failed" =>
           \A p \in Precious : p \in Precious' \union {sending.id}' \union Sent']_vars
  BY StepKeeps DEF Keeps
<1> QED
  BY <1>1, Invariant, PTL DEF Spec, SafeSpec, ThinningKeeps

\* Packets reach the player once and, until one is lost, in the order in which
\* the publisher's goroutine wrote them, whatever the interleaving of Write,
\* DropPacket, SendPacket and three callers of Close: each step is one of
\* PlayerQueue or none.
THEOREM ImplementsQueue == Spec => QueueSpec
<1>1. Spec => [](IInv /\ Discarded)
  BY InitInv, StepInv, InitDiscarded, StepDiscarded, PTL DEF Spec, SafeSpec
<1> QED
  BY <1>1, InitQueue, StepMaps, PTL DEF Spec, SafeSpec, QueueSpec, Implemented!QueueSpec

=============================================================================
