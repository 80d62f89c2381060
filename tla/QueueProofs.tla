----------------------------- MODULE QueueProofs -----------------------------
(***************************************************************************)
(* Proofs about the queue that VirWriter implements, and about Relay and    *)
(* such a queue together: what goes over a player's connection.             *)
(***************************************************************************)
EXTENDS PlayerQueue, RelayProofs, SequenceTheorems

Slot == [id : Nat, kind : QueueKinds]
Given == {given[i] : i \in 1..Len(given)}

QueueTypes ==
  /\ asked \in Nat
  /\ waiting \in Seq(Slot)
  /\ \A i \in 1..Len(waiting) : waiting[i].id \in 1..asked
  /\ going \in 0..asked
  /\ given \in Seq(1..asked)

\* No packet is in two places.
Once ==
  /\ \A i, j \in 1..Len(waiting) : waiting[i].id = waiting[j].id => i = j
  /\ \A i, j \in 1..Len(given) : given[i] = given[j] => i = j
  /\ \A i \in 1..Len(waiting) : waiting[i].id # going /\ waiting[i].id \notin Given
  /\ going \notin Given

\* Those given, the one on its way and those in the queue are the packets 1, 2, ...
Ahead == Len(given) + (IF going = 0 THEN 0 ELSE 1)
InLine ==
  /\ \A i \in 1..Len(given) : given[i] = i
  /\ going # 0 => going = Len(given) + 1
  /\ \A i \in 1..Len(waiting) : waiting[i].id = Ahead + i
  /\ asked = Ahead + Len(waiting)

InOrder == Lost = {} => InLine

QueueInv == QueueTypes /\ Once /\ InOrder

-----------------------------------------------------------------------------
(* The ends of a sequence *)

LEMMA FirstAndRest ==
  ASSUME NEW S, NEW q \in Seq(S), q # << >>
  PROVE  /\ Head(q) \in S /\ Head(q) = q[1] /\ 1 \in 1..Len(q)
         /\ Tail(q) \in Seq(S) /\ Len(Tail(q)) = Len(q) - 1 /\ Len(q) \in Nat \ {0}
         /\ \A i \in 1..Len(Tail(q)) : i + 1 \in 1..Len(q) /\ Tail(q)[i] = q[i + 1]
<1> QED
  OBVIOUS

LEMMA FirstOnes ==
  ASSUME NEW S, NEW q \in Seq(S), NEW n \in Nat, n <= Len(q)
  PROVE  LET f == SubSeq(q, 1, n) IN
         f \in Seq(S) /\ Len(f) = n /\ \A i \in 1..n : f[i] = q[i]
<1>1. \A i \in 1..n : q[i] \in S
  OBVIOUS
<1>2. PICK f : f = SubSeq(q, 1, n)
  OBVIOUS
<1>3. /\ f \in Seq(S) /\ Len(f) = IF 1 <= n THEN n - 1 + 1 ELSE 0
      /\ \A i \in 1..(n - 1 + 1) : f[i] = q[1 + i - 1]
  BY <1>1, <1>2, SubSeqProperties
<1>4. Len(f) = n /\ \A i \in 1..n : 1 + i - 1 = i /\ i \in 1..(n - 1 + 1)
  BY <1>3
<1>5. f \in Seq(S) /\ Len(f) = n /\ \A i \in 1..n : f[i] = q[i]
  BY <1>3, <1>4
<1> QED
  BY <1>2, <1>5

LEMMA AllButLast ==
  ASSUME NEW S, NEW q \in Seq(S), q # << >>
  PROVE  LET f == SubSeq(q, 1, Len(q) - 1) IN
         /\ f \in Seq(S) /\ Len(f) = Len(q) - 1 /\ Len(q) \in Nat \ {0}
         /\ \A i \in 1..Len(f) : i \in 1..Len(q) /\ f[i] = q[i]
<1>1. Len(q) \in Nat \ {0}
  OBVIOUS
<1>2. PICK n \in Nat : n = Len(q) - 1 /\ n <= Len(q) /\ 1..n \subseteq 1..Len(q)
  <2>1. /\ Len(q) - 1 \in Nat /\ Len(q) - 1 <= Len(q)
        /\ 1..(Len(q) - 1) \subseteq 1..Len(q)
    BY <1>1
  <2> QED
    BY <2>1
<1>3. PICK f : f = SubSeq(q, 1, n)
  OBVIOUS
<1>4. f \in Seq(S) /\ Len(f) = n /\ \A i \in 1..n : f[i] = q[i]
  BY <1>2, <1>3, FirstOnes
<1> QED
  BY <1>1, <1>2, <1>3, <1>4

-----------------------------------------------------------------------------
(* The invariant *)

LEMMA QueueBegins == QueueInit => QueueInv
<1> QED
  BY DEF QueueInit, QueueInv, QueueTypes, Once, InOrder, InLine, Ahead, Given

\* What was lost stays lost, so that the order needs to be kept only by steps
\* after which nothing is.
LEMMA StaysLost ==
  ASSUME asked \in Nat, asked' \in Nat, asked <= asked', Lost' = {},
         \A n \in 1..asked :
           (\/ \E i \in 1..Len(waiting') : waiting'[i].id = n
            \/ n = going'
            \/ \E i \in 1..Len(given') : given'[i] = n)
           => \/ \E i \in 1..Len(waiting) : waiting[i].id = n
              \/ n = going
              \/ \E i \in 1..Len(given) : given[i] = n
  PROVE  Lost = {}
<1> SUFFICES ASSUME NEW n \in Lost PROVE FALSE
  OBVIOUS
<1>1. /\ n \in 1..asked
      /\ \A i \in 1..Len(waiting) : waiting[i].id # n
      /\ n # going
      /\ \A i \in 1..Len(given) : given[i] # n
  BY DEF Lost
<1>2. n \in 1..asked'
  BY <1>1
<1>3. n \in Lost'
  BY <1>1, <1>2 DEF Lost
<1> QED
  BY <1>3

LEMMA AcceptKeeps ==
  ASSUME QueueInv, NEW kind \in QueueKinds, Accept(kind)
  PROVE  QueueInv'
<1> DEFINE p == [id |-> asked + 1, kind |-> kind]
<1>1. /\ p \in Slot /\ p.id = asked + 1 /\ waiting' = Append(waiting, p)
      /\ asked' = asked + 1 /\ asked \in Nat
      /\ UNCHANGED <<going, given>>
  BY DEF Accept, QueueInv, QueueTypes, Slot
<1> HIDE DEF p
<1>2. /\ waiting' \in Seq(Slot) /\ Len(waiting') = Len(waiting) + 1 /\ Len(waiting) \in Nat
      /\ \A i \in 1..Len(waiting) : waiting'[i] = waiting[i]
      /\ waiting'[Len(waiting) + 1] = p
      /\ \A i \in 1..Len(waiting') : i \in 1..Len(waiting) \/ i = Len(waiting) + 1
  <2>1. waiting \in Seq(Slot)
    BY DEF QueueInv, QueueTypes
  <2> QED
    BY <1>1, <2>1, Appended
<1>3. \A i \in 1..Len(waiting') :
        \/ i \in 1..Len(waiting) /\ waiting'[i].id = waiting[i].id /\ waiting[i].id \in 1..asked
        \/ i = Len(waiting) + 1 /\ waiting'[i].id = asked + 1
  BY <1>1, <1>2 DEF QueueInv, QueueTypes
<1>4. Given' = Given /\ Given \subseteq 1..asked /\ going \in 0..asked
  BY <1>1 DEF Given, QueueInv, QueueTypes
<1>5. QueueTypes'
  <2>1. 1..asked \subseteq 1..(asked + 1)
    BY <1>1
  <2>2. given' \in Seq(1..asked')
    BY <1>1, <2>1, SeqOfMore DEF QueueInv, QueueTypes
  <2> QED
    BY <1>1, <1>2, <1>3, <1>4, <2>2 DEF QueueTypes
<1>6. Once'
  <2>1. \A i, j \in 1..Len(waiting') : waiting'[i].id = waiting'[j].id => i = j
    BY <1>1, <1>3 DEF QueueInv, Once
  <2>2. \A i \in 1..Len(waiting') : waiting'[i].id # going /\ waiting'[i].id \notin Given
    BY <1>1, <1>3, <1>4 DEF QueueInv, Once
  <2> QED
    BY <1>1, <1>4, <2>1, <2>2 DEF QueueInv, Once
<1>7. ASSUME Lost' = {} PROVE InLine'
  <2>1. Lost = {}
    BY <1>1, <1>3, <1>7, StaysLost
  <2>2. InLine /\ Ahead' = Ahead /\ Ahead \in Nat
    BY <1>1, <2>1 DEF QueueInv, QueueTypes, InOrder, Ahead
  <2> QED
    BY <1>1, <1>2, <1>3, <2>2 DEF InLine
<1> QED
  BY <1>5, <1>6, <1>7 DEF QueueInv, InOrder

\* A refused packet is lost.
LEMMA RefuseKeeps ==
  ASSUME QueueInv, Refuse
  PROVE  QueueInv'
<1>1. asked \in Nat /\ asked' = asked + 1 /\ UNCHANGED <<waiting, going, given>>
  BY DEF Refuse, QueueInv, QueueTypes
<1>2. Given' = Given /\ Given \subseteq 1..asked
  BY <1>1 DEF Given, QueueInv, QueueTypes
<1>3. QueueTypes'
  <2>1. 1..asked \subseteq 1..(asked + 1)
    BY <1>1
  <2>2. given' \in Seq(1..asked')
    BY <1>1, <2>1, SeqOfMore DEF QueueInv, QueueTypes
  <2> QED
    BY <1>1, <2>1, <2>2 DEF QueueInv, QueueTypes
<1>4. Once'
  BY <1>1, <1>2 DEF QueueInv, Once
<1>5. asked + 1 \in Lost'
  <2>1. /\ asked + 1 \in 1..(asked + 1)
        /\ \A i \in 1..Len(waiting) : waiting[i].id # asked + 1
        /\ asked + 1 # going
        /\ \A i \in 1..Len(given) : given[i] # asked + 1
    BY <1>1 DEF QueueInv, QueueTypes
  <2> QED
    BY <1>1, <2>1 DEF Lost
<1> QED
  BY <1>3, <1>4, <1>5 DEF QueueInv, InOrder

\* After a loss only the places matter.
LEMMA ThinKeeps ==
  ASSUME QueueInv, Turn \/ Drop
  PROVE  QueueInv'
<1>1. /\ Lost # {} /\ waiting # << >> /\ waiting \in Seq(Slot) /\ asked \in Nat
      /\ UNCHANGED <<asked, going, given>>
  BY DEF Turn, Drop, QueueInv, QueueTypes
<1>2. \E f \in [1..Len(waiting') -> 1..Len(waiting)] :
        /\ \A i \in 1..Len(waiting') : waiting'[i] = waiting[f[i]]
        /\ \A i, j \in 1..Len(waiting') : f[i] = f[j] => i = j
  <2>1. CASE Turn
    <3> DEFINE h == Head(waiting)
               t == Tail(waiting)
               n == Len(waiting)
    <3>1. /\ h \in Slot /\ h = waiting[1] /\ 1 \in 1..n
          /\ t \in Seq(Slot) /\ Len(t) = n - 1 /\ n \in Nat \ {0}
          /\ \A i \in 1..Len(t) : i + 1 \in 1..n /\ t[i] = waiting[i + 1]
          /\ waiting' = Append(t, h)
      BY <1>1, <2>1, FirstAndRest DEF Turn
    <3> HIDE DEF h, t, n
    <3>2. /\ Len(waiting') = n
          /\ \A i \in 1..(n - 1) : waiting'[i] = waiting[i + 1]
          /\ waiting'[n] = waiting[1]
      <4>1. /\ Len(Append(t, h)) = Len(t) + 1
            /\ \A i \in 1..Len(t) : Append(t, h)[i] = t[i]
            /\ Append(t, h)[Len(t) + 1] = h
        BY <3>1, Appended
      <4> QED
        BY <3>1, <4>1
    <3> DEFINE f == [i \in 1..n |-> IF i = n THEN 1 ELSE i + 1]
    <3>3. f \in [1..n -> 1..n]
      BY <3>1
    <3>4. \A i \in 1..n : waiting'[i] = waiting[f[i]]
      BY <3>1, <3>2
    <3>5. \A i, j \in 1..n : f[i] = f[j] => i = j
      BY <3>1
    <3> HIDE DEF f
    <3>6. Len(waiting') = n /\ Len(waiting) = n
      BY <3>2 DEF n
    <3> QED
      BY <3>3, <3>4, <3>5, <3>6
  <2>2. CASE Drop
    <3> DEFINE n == Len(waiting)
    <3>1. /\ Len(waiting') = n - 1 /\ n \in Nat \ {0}
          /\ \A i \in 1..(n - 1) : i \in 1..n /\ waiting'[i] = waiting[i]
      BY <1>1, <2>2, AllButLast DEF Drop
    <3> HIDE DEF n
    <3> DEFINE f == [i \in 1..(n - 1) |-> i]
    <3>2. f \in [1..(n - 1) -> 1..n]
      BY <3>1
    <3>3. \A i \in 1..(n - 1) : waiting'[i] = waiting[f[i]]
      BY <3>1
    <3>4. \A i, j \in 1..(n - 1) : f[i] = f[j] => i = j
      BY <3>1
    <3> HIDE DEF f
    <3>5. Len(waiting') = n - 1 /\ Len(waiting) = n
      BY <3>1 DEF n
    <3> QED
      BY <3>2, <3>3, <3>4, <3>5
  <2> QED
    BY <2>1, <2>2
<1>3. PICK f \in [1..Len(waiting') -> 1..Len(waiting)] :
        /\ \A i \in 1..Len(waiting') : waiting'[i] = waiting[f[i]]
        /\ \A i, j \in 1..Len(waiting') : f[i] = f[j] => i = j
  BY <1>2
<1>4. waiting' \in Seq(Slot)
  <2>1. CASE Turn
    BY <1>1, <2>1, FirstAndRest, Appended DEF Turn
  <2>2. CASE Drop
    BY <1>1, <2>2, AllButLast DEF Drop
  <2> QED
    BY <2>1, <2>2
<1>5. QueueTypes'
  <2>1. \A i \in 1..Len(waiting') : waiting'[i].id \in 1..asked
    BY <1>3 DEF QueueInv, QueueTypes
  <2> QED
    BY <1>1, <1>4, <2>1 DEF QueueInv, QueueTypes
<1>6. Given' = Given
  BY <1>1 DEF Given
<1>7. Once'
  <2>1. \A i, j \in 1..Len(waiting') : waiting'[i].id = waiting'[j].id => i = j
    BY <1>3 DEF QueueInv, Once
  <2>2. \A i \in 1..Len(waiting') : waiting'[i].id # going /\ waiting'[i].id \notin Given
    BY <1>3 DEF QueueInv, Once
  <2> QED
    BY <1>1, <1>6, <2>1, <2>2 DEF QueueInv, Once
<1>8. Lost' # {}
  <2>1. asked <= asked'
    BY <1>1
  <2> QED
    BY <1>1, <1>3, <2>1, StaysLost
<1> QED
  BY <1>5, <1>7, <1>8 DEF QueueInv, InOrder

LEMMA BeginKeeps ==
  ASSUME QueueInv, Begin
  PROVE  QueueInv'
<1>1. /\ going = 0 /\ waiting # << >> /\ waiting \in Seq(Slot) /\ asked \in Nat
      /\ going' = Head(waiting).id /\ waiting' = Tail(waiting)
      /\ UNCHANGED <<asked, given>>
  BY DEF Begin, QueueInv, QueueTypes
<1>2. /\ going' = waiting[1].id /\ 1 \in 1..Len(waiting)
      /\ waiting' \in Seq(Slot) /\ Len(waiting') = Len(waiting) - 1
      /\ Len(waiting) \in Nat \ {0}
      /\ \A i \in 1..Len(waiting') : i + 1 \in 1..Len(waiting) /\ waiting'[i] = waiting[i + 1]
  BY <1>1, FirstAndRest
<1>3. QueueTypes'
  BY <1>1, <1>2 DEF QueueInv, QueueTypes
<1>4. Given' = Given
  BY <1>1 DEF Given
<1>5. Once'
  <2>1. \A i \in 1..Len(waiting') : waiting'[i].id # going'
    <3> SUFFICES ASSUME NEW i \in 1..Len(waiting'), waiting'[i].id = going' PROVE FALSE
      OBVIOUS
    <3>1. i + 1 = 1
      BY <1>2 DEF QueueInv, Once
    <3> QED
      BY <3>1
  <2>2. ASSUME NEW i \in 1..Len(waiting'), NEW j \in 1..Len(waiting'),
               waiting'[i].id = waiting'[j].id
        PROVE  i = j
    <3>1. i + 1 = j + 1
      BY <1>2, <2>2 DEF QueueInv, Once
    <3> QED
      BY <3>1
  <2> QED
    BY <1>1, <1>2, <1>4, <2>1, <2>2 DEF QueueInv, Once
<1>6. ASSUME Lost' = {} PROVE InLine'
  <2>1. Lost = {}
    BY <1>1, <1>2, <1>6, StaysLost
  <2>2. InLine /\ Ahead = Len(given) /\ Len(given) \in Nat
    BY <1>1, <2>1 DEF QueueInv, QueueTypes, InOrder, Ahead
  <2>3. going' = Len(given) + 1 /\ going' # 0 /\ Ahead' = Len(given) + 1
    BY <1>1, <1>2, <2>2 DEF InLine, Ahead
  <2> QED
    BY <1>1, <1>2, <2>2, <2>3 DEF InLine
<1> QED
  BY <1>3, <1>5, <1>6 DEF QueueInv, InOrder

LEMMA GiveKeeps ==
  ASSUME QueueInv, Give
  PROVE  QueueInv'
<1>1. /\ going \in 1..asked /\ given \in Seq(1..asked) /\ asked \in Nat
      /\ given' = Append(given, going) /\ going' = 0
      /\ UNCHANGED <<asked, waiting>>
  BY DEF Give, QueueInv, QueueTypes
<1>2. /\ given' \in Seq(1..asked) /\ Len(given') = Len(given) + 1 /\ Len(given) \in Nat
      /\ \A i \in 1..Len(given) : given'[i] = given[i]
      /\ given'[Len(given) + 1] = going
      /\ \A i \in 1..Len(given') : i \in 1..Len(given) \/ i = Len(given) + 1
  BY <1>1, Appended
<1>3. QueueTypes'
  BY <1>1, <1>2 DEF QueueInv, QueueTypes
<1>4. /\ Given' \subseteq Given \union {going} /\ 0 \notin Given'
      /\ \A i \in 1..Len(given) : given[i] # going
  BY <1>1, <1>2 DEF Given, QueueInv, Once
<1>5. Once'
  <2>1. \A i, j \in 1..Len(given') : given'[i] = given'[j] => i = j
    BY <1>2, <1>4 DEF QueueInv, Once
  <2>2. \A i \in 1..Len(waiting) : waiting[i].id # 0
    BY DEF QueueInv, QueueTypes
  <2> QED
    BY <1>1, <1>4, <2>1, <2>2 DEF QueueInv, Once
<1>6. ASSUME Lost' = {} PROVE InLine'
  <2>1. \A n \in 1..asked : (\E i \in 1..Len(given') : given'[i] = n)
          => n = going \/ \E i \in 1..Len(given) : given[i] = n
    BY <1>2
  <2>2. Lost = {}
    BY <1>1, <1>6, <2>1, StaysLost
  <2>3. InLine /\ Ahead = Len(given) + 1
    BY <1>1, <2>2 DEF QueueInv, InOrder, Ahead
  <2>4. Ahead' = Len(given) + 1
    BY <1>1, <1>2 DEF Ahead
  <2> QED
    BY <1>1, <1>2, <2>3, <2>4 DEF InLine
<1> QED
  BY <1>3, <1>5, <1>6 DEF QueueInv, InOrder

\* The packet on its way is lost.
LEMMA FailKeeps ==
  ASSUME QueueInv, Fail
  PROVE  QueueInv'
<1>1. /\ going \in 1..asked /\ going' = 0 /\ asked \in Nat
      /\ UNCHANGED <<asked, waiting, given>>
  BY DEF Fail, QueueInv, QueueTypes
<1>2. Given' = Given /\ Given \subseteq 1..asked
  BY <1>1 DEF Given, QueueInv, QueueTypes
<1>3. QueueTypes'
  BY <1>1 DEF QueueInv, QueueTypes
<1>4. Once'
  <2>1. 0 \notin Given /\ \A i \in 1..Len(waiting) : waiting[i].id # 0
    BY <1>2 DEF QueueInv, QueueTypes
  <2> QED
    BY <1>1, <1>2, <2>1 DEF QueueInv, Once
<1>5. going \in Lost'
  BY <1>1 DEF Lost, QueueInv, Once, Given
<1> QED
  BY <1>3, <1>4, <1>5 DEF QueueInv, InOrder

LEMMA RestKeeps ==
  ASSUME QueueInv, CloseQueue \/ UNCHANGED queueVars
  PROVE  QueueInv'
<1>1. UNCHANGED <<asked, waiting, going, given>>
  BY DEF CloseQueue, queueVars
<1> QED
  BY <1>1 DEF QueueInv, QueueTypes, Once, InOrder, InLine, Ahead, Given, Lost

LEMMA QueueSteps ==
  ASSUME QueueInv, [QueueNext]_queueVars
  PROVE  QueueInv'
<1> QED
  BY AcceptKeeps, RefuseKeeps, ThinKeeps, BeginKeeps, GiveKeeps, FailKeeps, RestKeeps
  DEF QueueNext

LEMMA QueueInvariant == QueueSpec => []QueueInv
<1> QED
  BY QueueBegins, QueueSteps, PTL DEF QueueSpec

\* A player's connection is given no packet of its queue a second time, whatever
\* was dropped and however often the queue was turned (vir.go:66-93, 95-125).
THEOREM GivenOnce ==
  QueueSpec => [](\A i, j \in 1..Len(given) : given[i] = given[j] => i = j)
<1>1. QueueInv => \A i, j \in 1..Len(given) : given[i] = given[j] => i = j
  BY DEF QueueInv, Once
<1> QED
  BY <1>1, QueueInvariant, PTL

\* Until a packet is lost the queue is first in, first out: what the connection
\* was given, what is on its way and what waits are the packets in their order.
THEOREM FirstInFirstOut == QueueSpec => []InOrder
<1>1. QueueInv => InOrder
  BY DEF QueueInv
<1> QED
  BY <1>1, QueueInvariant, PTL

-----------------------------------------------------------------------------
(* Relay and the queue of one of its players *)

\* What the player's connection was given: the n-th packet passed to its queue is
\* the n-th that Relay sends the player.
Shown(w) == [k \in 1..Len(given) |-> got[w][given[k]]]

\* The queue of w is asked to take what Relay sends w.  Relay sends the packets
\* of the cache in one step, so the queue may be behind.
PlayerSpec(w) == Spec /\ QueueSpec /\ [](asked <= Len(got[w]))

ShownWell(w) == /\ Gapless(sent, Shown(w))
                /\ KeyFirst(sent, Shown(w))
                /\ Headed(sent, Shown(w))

\* A prefix of a good feed is one.
LEMMA PrefixIsGood ==
  ASSUME NEW s, NEW g, NEW f, Len(g) \in Nat, Len(f) \in 0..Len(g),
         \A k \in 1..Len(f) : f[k] = g[k],
         Gapless(s, g), KeyFirst(s, g), Headed(s, g)
  PROVE  Gapless(s, f) /\ KeyFirst(s, f) /\ Headed(s, f)
<1>1. \A k \in 1..Len(f) : k \in 1..Len(g) /\ f[k] = g[k]
  OBVIOUS
<1>2. Gapless(s, f)
  <2> SUFFICES ASSUME NEW i \in 1..Len(f), NEW j \in 1..Len(f),
                      i < j, IsVid(s, f[i]), IsVid(s, f[j])
               PROVE  /\ f[i] < f[j]
                      /\ \A id \in f[i]..f[j] :
                           IsVid(s, id) => \E k \in i..j : f[k] = id
    BY DEF Gapless
  <2>1. /\ g[i] < g[j]
        /\ \A id \in g[i]..g[j] : IsVid(s, id) => \E k \in i..j : g[k] = id
    BY <1>1 DEF Gapless
  <2>2. \A k \in i..j : k \in 1..Len(f)
    OBVIOUS
  <2> QED
    BY <1>1, <2>1, <2>2
<1>3. KeyFirst(s, f)
  <2> SUFFICES ASSUME NEW i \in 1..Len(f), IsVid(s, f[i]),
                      \A j \in 1..(i - 1) : ~IsVid(s, f[j])
               PROVE  s[f[i]] = "key" \/ \A id \in 1..f[i] : s[id] # "key"
    BY DEF KeyFirst
  <2>1. \A j \in 1..(i - 1) : ~IsVid(s, g[j])
    BY <1>1
  <2> QED
    BY <1>1, <2>1 DEF KeyFirst
<1>4. Headed(s, f)
  <2> SUFFICES ASSUME NEW i \in 1..Len(f), IsVid(s, f[i]), NEW h \in 1..f[i], s[h] = "header"
               PROVE  \E j \in 1..(i - 1) : f[j] >= h /\ s[f[j]] = "header"
    BY DEF Headed
  <2>1. PICK j \in 1..(i - 1) : g[j] >= h /\ s[g[j]] = "header"
    BY <1>1 DEF Headed
  <2>2. f[j] = g[j]
    BY <1>1
  <2> QED
    BY <2>1, <2>2
<1> QED
  BY <1>2, <1>3, <1>4

LEMMA ShownIsPrefix ==
  ASSUME NEW w \in Players, IInv, QueueInv, asked <= Len(got[w]), Lost = {}
  PROVE  ShownWell(w)
<1> DEFINE f == Shown(w)
           g == got[w]
<1>1. Gapless(sent, g) /\ KeyFirst(sent, g) /\ Headed(sent, g) /\ Len(g) \in Nat
  BY DEF IInv, Feed, TypeOK
<1>2. InLine /\ Len(given) \in Nat /\ Len(waiting) \in Nat /\ asked \in Nat
  BY DEF QueueInv, QueueTypes, InOrder
<1>3. Len(given) \in 0..Len(g)
  BY <1>1, <1>2 DEF InLine, Ahead
<1>4. Len(f) = Len(given)
  BY <1>2 DEF Shown
<1>5. \A k \in 1..Len(f) : f[k] = g[k]
  BY <1>2, <1>4 DEF Shown, InLine
<1> HIDE DEF f, g
<1>6. Gapless(sent, f) /\ KeyFirst(sent, f) /\ Headed(sent, f)
  BY <1>1, <1>3, <1>4, <1>5, PrefixIsGood
<1> QED
  BY <1>6 DEF ShownWell, f

\* From the publisher to the player's connection, through the cache, the Range
\* over the players and the player's queue: until the queue loses a packet, the
\* video that was shown has no gap, no repetition and no reordering, begins with
\* a key frame if there was one, and follows the last header before it
\* (stream.go:135-191, cache.go:43-84, vir.go:95-188).
THEOREM ShownUntilLost ==
  ASSUME NEW w \in Players
  PROVE  PlayerSpec(w) => [](Lost = {} => ShownWell(w))
<1>1. IInv /\ QueueInv /\ asked <= Len(got[w]) => (Lost = {} => ShownWell(w))
  BY ShownIsPrefix
<1> QED
  BY <1>1, Invariant, QueueInvariant, PTL DEF PlayerSpec

\* And even after a loss, and after the queue was turned, the same video packet
\* is not shown twice.
THEOREM NoVideoTwice ==
  ASSUME NEW w \in Players
  PROVE  PlayerSpec(w) =>
           [](\A i, j \in 1..Len(given) :
                IsVid(sent, Shown(w)[i]) /\ Shown(w)[i] = Shown(w)[j] => i = j)
<1> DEFINE ShownOnce ==
             \A i, j \in 1..Len(given) :
               IsVid(sent, Shown(w)[i]) /\ Shown(w)[i] = Shown(w)[j] => i = j
<1>1. IInv /\ QueueInv /\ asked <= Len(got[w]) => ShownOnce
  <2> SUFFICES ASSUME IInv, QueueInv, asked <= Len(got[w]),
                      NEW i \in 1..Len(given), NEW j \in 1..Len(given),
                      IsVid(sent, Shown(w)[i]), Shown(w)[i] = Shown(w)[j]
               PROVE  i = j
    OBVIOUS
  <2> DEFINE g == got[w]
  <2>1. /\ Gapless(sent, g) /\ g \in Seq(1..Len(sent)) /\ Len(g) \in Nat
        /\ \A k \in 1..Len(g) : g[k] \in Nat
    BY DEF IInv, Feed, TypeOK
  <2>2. given[i] \in 1..Len(g) /\ given[j] \in 1..Len(g)
    <3>1. given[i] \in 1..asked /\ given[j] \in 1..asked /\ asked \in Nat
      BY DEF QueueInv, QueueTypes
    <3> QED
      BY <2>1, <3>1
  <2>3. got[w][given[i]] = got[w][given[j]] /\ IsVid(sent, got[w][given[i]])
    BY DEF Shown
  <2> HIDE DEF g
  <2>4. ~(given[i] < given[j]) /\ ~(given[j] < given[i])
    <3>1. g[given[i]] \in Nat /\ g[given[i]] = g[given[j]] /\ IsVid(sent, g[given[i]])
      BY <2>1, <2>2, <2>3 DEF g
    <3>2. ~(g[given[i]] < g[given[j]]) /\ ~(g[given[j]] < g[given[i]])
      BY <3>1
    <3> QED
      BY <2>1, <2>2, <3>1, <3>2 DEF Gapless
  <2>5. given[i] = given[j]
    BY <2>2, <2>4
  <2> QED
    BY <2>5 DEF QueueInv, Once
<1> QED
  BY <1>1, Invariant, QueueInvariant, PTL DEF PlayerSpec

=============================================================================
