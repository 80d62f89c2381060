--------------------------- MODULE SessionProofs ---------------------------
(***************************************************************************)
(* Proofs about a connection, for any codec, any arguments of the other     *)
(* commands and any number of commands and messages.                        *)
(***************************************************************************)
EXTENDS Session, SequenceTheorems, FiniteSetTheorems, TLAPS

IsSeq(s) == Len(s) \in Nat /\ s = [i \in 1..Len(s) |-> s[i]]

-----------------------------------------------------------------------------
(* What is authorised *)

Talking == phase \in {"C0C1", "C2", "commands"}

AuthInv ==
  /\ Talking => granted = Nobody /\ isPublisher = FALSE
  /\ AuthorisedIsUsed

LEMMA AuthInit == Init => AuthInv
  BY DEF Init, AuthInv, Talking, AuthorisedIsUsed

LEMMA AuthPost ==
  ASSUME AuthInv, NEW type, NEW wire, NEW means, NEW kind, Post(type, wire, means, kind)
  PROVE  AuthInv'
  BY DEF Post, AuthInv, Talking, AuthorisedIsUsed, server

LEMMA AuthClient == AuthInv /\ Client => AuthInv'
<1> DEFINE Posts == \E type, wire, means, kind : Post(type, wire, means, kind)
<1> SUFFICES ASSUME AuthInv, Client
             PROVE  AuthInv'
  OBVIOUS
<1>1. Posts => AuthInv'
  BY AuthPost
<1>2. CASE Leave
  BY <1>2 DEF Leave, AuthInv, Talking, AuthorisedIsUsed, server
<1>3. CASE SendC0C1
  BY <1>1, <1>3 DEF SendC0C1
<1>4. CASE SendC2
  BY <1>1, <1>4 DEF SendC2
<1>5. CASE SendCommand
  BY <1>1, <1>5 DEF SendCommand
<1>6. CASE SendOther
  BY <1>1, <1>6 DEF SendOther
<1>7. CASE SendControl
  BY <1>1, <1>7 DEF SendControl
<1>8. CASE SendMedia
  BY <1>1, <1>8 DEF SendMedia
<1> QED
  BY <1>2, <1>3, <1>4, <1>5, <1>6, <1>7, <1>8 DEF Client

LEMMA AuthHandshake == AuthInv /\ (ReadC0C1 \/ ReadC2) => AuthInv'
<1> USE DEF AuthInv, Talking, AuthorisedIsUsed, server
<1>1. ASSUME AuthInv, ReadC0C1
      PROVE  AuthInv'
  <2>1. phase = "C0C1" /\ phase' \in {"C2", "closed"} /\ UNCHANGED server
    BY <1>1 DEF ReadC0C1, Close, Reply
  <2> QED
    BY <1>1, <2>1
<1>2. ASSUME AuthInv, ReadC2
      PROVE  AuthInv'
  <2>1. phase = "C2" /\ phase' \in {"commands", "closed"} /\ UNCHANGED server
    BY <1>2 DEF ReadC2
  <2> QED
    BY <1>2, <2>1
<1> QED
  BY <1>1, <1>2

\* The callback accepts only what is asked of it, and then something has changed.
LEMMA AuthCallback ==
  ASSUME granted = Nobody, NEW publisher \in BOOLEAN, callback(publisher), granted' # granted
  PROVE  /\ granted' = <<ConnInfo.app, PublishInfo'.name>>
         /\ ConnInfo.app \in (IF publisher THEN {"vods", "vods-relay"} ELSE {"local"})
  BY DEF callback

LEMMA AuthCommand == AuthInv /\ handleCmdMsg => AuthInv'
<1> SUFFICES ASSUME AuthInv, handleCmdMsg
             PROVE  AuthInv'
  OBVIOUS
<1> USE DEF AuthInv, Talking, AuthorisedIsUsed
<1>1. granted = Nobody /\ isPublisher = FALSE /\ phase = "commands"
  BY DEF handleCmdMsg
<1>2. PICK b : \/ DecodeFails(b) \/ HandleConnect(b) \/ HandleCreateStream(b)
               \/ HandlePublish(b) \/ HandlePlay(b) \/ HandleOther(b)
  BY DEF handleCmdMsg
<1>3. CASE DecodeFails(b)
  BY <1>3 DEF DecodeFails, Close
<1>4. CASE HandleConnect(b)
  BY <1>1, <1>4 DEF HandleConnect, Close, connectResp, Reply
<1>5. CASE HandleCreateStream(b)
  BY <1>1, <1>5 DEF HandleCreateStream, Reply
<1>6. CASE HandlePublish(b)
  <2>1. CASE granted' = granted
    BY <1>6, <2>1 DEF HandlePublish, Close
  <2>2. CASE granted' # granted
    <3>1. callback(TRUE) /\ isPublisher' = TRUE /\ phase' \in {"publishing", "closed"}
            /\ ConnInfo' = ConnInfo
      BY <1>6, <2>2 DEF HandlePublish, Reply
    <3> QED
      BY <1>1, <2>2, <3>1, AuthCallback
  <2> QED
    BY <2>1, <2>2
<1>7. CASE HandlePlay(b)
  <2>1. CASE granted' = granted
    BY <1>7, <2>1 DEF HandlePlay, Close
  <2>2. CASE granted' # granted
    <3>1. callback(FALSE) /\ isPublisher' = FALSE /\ phase' \in {"playing", "closed"}
            /\ ConnInfo' = ConnInfo
      BY <1>1, <1>7, <2>2 DEF HandlePlay, playResp, Reply
    <3> QED
      BY <1>1, <2>2, <3>1, AuthCallback
  <2> QED
    BY <2>1, <2>2
<1>8. CASE HandleOther(b)
  BY <1>8 DEF HandleOther
<1> QED
  BY <1>2, <1>3, <1>4, <1>5, <1>6, <1>7, <1>8

LEMMA AuthRest ==
  AuthInv /\ (ReadFails \/ SkipMsg \/ ReadPacket \/ Check \/ TimeOut \/ SessionEnds) => AuthInv'
<1> SUFFICES ASSUME AuthInv, ReadFails \/ SkipMsg \/ ReadPacket \/ Check \/ TimeOut \/ SessionEnds
             PROVE  AuthInv'
  OBVIOUS
<1>1. UNCHANGED server /\ (phase' = phase \/ phase' \in {"stopped", "closed"})
  BY DEF ReadFails, SkipMsg, ReadPacket, Check, TimeOut, SessionEnds, Lost, Over
<1> QED
  BY <1>1 DEF AuthInv, Talking, AuthorisedIsUsed, server

LEMMA AuthStep == AuthInv /\ [Next]_vars => AuthInv'
<1>1. AuthInv /\ UNCHANGED vars => AuthInv'
  BY DEF AuthInv, Talking, AuthorisedIsUsed, vars, server
<1> QED
  BY <1>1, AuthClient, AuthHandshake, AuthCommand, AuthRest DEF Next, Server

\* A connection publishes or plays what the auth callback has accepted, under the
\* name and application it has looked at, and as what it took the client for.
THEOREM WhatIsAuthorised == Spec => []AuthorisedIsUsed
<1>1. AuthInv => AuthorisedIsUsed
  BY DEF AuthInv
<1> QED
  BY <1>1, AuthInit, AuthStep, PTL DEF Spec

-----------------------------------------------------------------------------
(* The inductive invariant *)

Names == {"connect", "createStream", "releaseStream", "publish", "play", "checkBandwidth"}
Apps == {"vods", "local", "live"}
AnswerNames ==
  {"S0S1S2", "WindowAckSize", "SetPeerBandwidth", "SetChunkSize", "_result",
   "NetStream.Publish.Start", "SetRecorded", "SetBegin", "NetStream.Play.Reset",
   "NetStream.Play.Start", "NetStream.Data.Start", "NetStream.Play.PublishNotify"}
Answers == [msg : AnswerNames, tid : Int]
ArgKinds == {"plain", "misread", "refused", "refers", "elsewhere", "nowhere"}

Number(m) == m.means[2].num
IsOther(m) == m.means[1] = Str("checkBandwidth")

\* What a client asks as its n-th command.
Connects(means, n) == \E app \in Apps : means = <<Str("connect"), Num(n), App(app)>>
Creates(means, n) == means = <<Str("createStream"), Num(n), Nil>>
Releases(means, n) == means = <<Str("releaseStream"), Num(n), Nil, Str("live_id_key")>>
Publishes(means, n) ==
  \E s \in StreamNames : means = <<Str("publish"), Num(n), Nil, Str(s), Str("live")>>
Plays(means, n) ==
  \E s \in StreamNames : means = <<Str("play"), Num(n), Nil, Str(s), Num(-2000)>>
Requested(means, n) ==
  \/ Connects(means, n) \/ Creates(means, n) \/ Releases(means, n)
  \/ Publishes(means, n) \/ Plays(means, n)

TypeInv ==
  /\ phase \in {"C0C1", "C2", "commands", "publishing", "playing", "stopped", "closed"}
  /\ {deadline, isPublisher, playing, open} \subseteq BOOLEAN /\ causes \subseteq Causes
  /\ header \in {"none", "aac", "other"}
  /\ IsSeq(inbox) /\ Len(inbox) <= Room
  /\ buffer = << >> /\ out \in Seq(Answers)
  /\ asked \in Seq(Names) /\ Len(asked) <= MaxCommands
  /\ published \in Seq(Media) /\ Len(published) <= MaxMedia
  /\ transactionID \in Int
  /\ ConnInfo.app \in Apps \union {""}
  /\ PublishInfo.name \in StreamNames \union {""}
  /\ granted \in ({"vods", "local"} \X StreamNames) \union {Nobody}

\* Where the connection is, and what may have come and gone by then.
PlaceInv ==
  /\ phase \in {"C0C1", "C2"} => Len(inbox) <= 1 /\ asked = << >> /\ Results = {}
  /\ phase \notin {"publishing", "stopped", "closed"} =>
       published = << >> /\ ~Got("NetStream.Publish.Start")
  /\ Established => deadline = FALSE

CommandOK(m) ==
  /\ Number(m) \in DOMAIN asked
  /\ m.means # << >> /\ m.means[1] = Str(asked[Number(m)])
  /\ \/ m.kind = "plain" /\ Requested(m.means, Number(m))
     \/ m.kind \in ArgKinds /\ IsOther(m)
  /\ m.kind \in {"refused", "nowhere"} => causes # {}
  /\ m.means[1] = Str("connect") /\ Number(m) # 1 => causes # {}

MediumOK(m) ==
  LET n == m.means[1].num
  IN  /\ n \in DOMAIN published /\ m.type = published[n].type /\ m.wire = published[n].wire
      /\ published[n].body = << >> => causes # {}

MessageOK(m) ==
  /\ m.type \in {"C0C1", "C2", "command0", "command3", "control"} \/ IsMedia(m)
  /\ m.type = "C0C1" =>
       /\ phase \in {"C0C1", "stopped", "closed"}
       /\ m.wire[1].version = 0 \/ hsParse1(m.wire[1]) \/ causes # {}
  /\ m.type = "C2" =>
       /\ phase \in {"C2", "stopped", "closed"}
       /\ (m.wire[1].time /\ m.wire[1].random) \/ causes # {}
  /\ m.type \notin {"C0C1", "C2"} => Established \/ phase \in {"stopped", "closed"}
  /\ IsCommand(m) => CommandOK(m)
  /\ IsMedia(m) => MediumOK(m)

InboxInv ==
  /\ \A i \in 1..Len(inbox) : MessageOK(inbox[i])
  /\ \A i, j \in 1..Len(inbox) :
       i < j /\ IsCommand(inbox[i]) /\ IsCommand(inbox[j]) => Number(inbox[i]) < Number(inbox[j])
  /\ \A i \in 1..Len(inbox) :
       IsCommand(inbox[i]) /\ inbox[i].kind \in References => i = 1 /\ (causes # {} \/ decoder = NewTables)
  /\ decoder = NewTables \/ "checkBandwidth" \in Range(asked)

Pending(n) == \E i \in 1..Len(inbox) : IsCommand(inbox[i]) /\ Number(inbox[i]) = n
Resulted(n) == \E j \in Results : out[j].tid = n

AnswersInv ==
  /\ phase = "commands" =>
       \A n \in Numbered({"connect", "createStream"}) : Pending(n) \/ Resulted(n)
  /\ \A j \in Results, i \in 1..Len(inbox) : IsCommand(inbox[i]) => out[j].tid < Number(inbox[i])
  /\ AnswersMatch

IInv ==
  /\ AuthInv
  /\ TypeInv
  /\ PlaceInv
  /\ InboxInv
  /\ AnswersInv
  /\ ClosedForCause

LEMMA CauseAdded ==
  ASSUME NEW S, S \subseteq Causes, NEW cause \in Causes, NEW condition
  PROVE  /\ S \union If(condition, cause) \subseteq Causes
         /\ S # {} => S \union If(condition, cause) # {}
         /\ condition => S \union If(condition, cause) # {}
<1>1. CASE condition
  BY <1>1 DEF If
<1>2. CASE ~condition
  BY <1>2 DEF If
<1> QED
  BY <1>1, <1>2

LEMMA CauseKept ==
  ASSUME IInv, NEW cause \in Causes, NEW condition, causes' = causes \union If(condition, cause)
  PROVE  /\ causes' \subseteq Causes
         /\ causes # {} => causes' # {}
         /\ condition => causes' # {}
  BY CauseAdded DEF IInv, TypeInv

LEMMA Pair ==
  ASSUME NEW a, NEW b, NEW c
  PROVE  <<a, b>> \o <<c>> = <<a, b, c>>
<1> DEFINE S == {a, b, c}
           w == <<a, b>> \o <<c>>
<1>1. <<a, b>> \in Seq(S) /\ <<c>> \in Seq(S) /\ <<a, b, c>> \in Seq(S)
  OBVIOUS
<1>2. w \in Seq(S) /\ Len(w) = 3
  BY <1>1, ConcatProperties
<1>3. w[1] = a /\ w[2] = b /\ w[3] = c
  BY <1>1, ConcatProperties
<1> HIDE DEF w, S
<1>4. \A i \in 1..3 : w[i] = <<a, b, c>>[i]
  BY <1>3
<1>5. w = <<a, b, c>>
  BY <1>1, <1>2, <1>4, SeqEqual
<1> QED
  BY <1>5 DEF w
LEMMA PairPair ==
  ASSUME NEW a, NEW b, NEW c, NEW d
  PROVE  <<a, b>> \o <<c, d>> = <<a, b, c, d>>
<1> DEFINE S == {a, b, c, d}
           w == <<a, b>> \o <<c, d>>
<1>1. <<a, b>> \in Seq(S) /\ <<c, d>> \in Seq(S) /\ <<a, b, c, d>> \in Seq(S)
  OBVIOUS
<1>2. w \in Seq(S) /\ Len(w) = 4
  BY <1>1, ConcatProperties
<1>3. w[1] = a /\ w[2] = b /\ w[3] = c /\ w[4] = d
  BY <1>1, ConcatProperties
<1> HIDE DEF w, S
<1>4. \A i \in 1..4 : w[i] = <<a, b, c, d>>[i]
  BY <1>3
<1>5. w = <<a, b, c, d>>
  BY <1>1, <1>2, <1>4, SeqEqual
<1> QED
  BY <1>5 DEF w

LEMMA Triple ==
  ASSUME NEW a, NEW b, NEW c, NEW d, NEW e
  PROVE  <<a, b>> \o <<c, d, e>> = <<a, b, c, d, e>>
<1> DEFINE S == {a, b, c, d, e}
           w == <<a, b>> \o <<c, d, e>>
<1>1. <<a, b>> \in Seq(S) /\ <<c, d, e>> \in Seq(S) /\ <<a, b, c, d, e>> \in Seq(S)
  OBVIOUS
<1>2. w \in Seq(S) /\ Len(w) = 5
  BY <1>1, ConcatProperties
<1>3. w[1] = a /\ w[2] = b /\ w[3] = c /\ w[4] = d /\ w[5] = e
  BY <1>1, ConcatProperties
<1> HIDE DEF w, S
<1>4. \A i \in 1..5 : w[i] = <<a, b, c, d, e>>[i]
  BY <1>3
<1>5. w = <<a, b, c, d, e>>
  BY <1>1, <1>2, <1>4, SeqEqual
<1> QED
  BY <1>5 DEF w

-----------------------------------------------------------------------------
(* Sequences *)

LEMMA SeqIs ==
  ASSUME NEW S, NEW s \in Seq(S)
  PROVE  IsSeq(s)
  BY DEF IsSeq

LEMMA Added ==
  ASSUME NEW s, IsSeq(s), NEW x
  PROVE  /\ IsSeq(Append(s, x)) /\ Len(Append(s, x)) = Len(s) + 1
         /\ \A i \in 1..Len(s) : Append(s, x)[i] = s[i]
         /\ Append(s, x)[Len(s) + 1] = x
<1> DEFINE S == {s[i] : i \in 1..Len(s)} \union {x}
<1>1. s \in Seq(S)
  BY DEF IsSeq
<1>2. /\ Append(s, x) \in Seq(S) /\ Len(Append(s, x)) = Len(s) + 1
      /\ \A i \in 1..Len(s) : Append(s, x)[i] = s[i]
      /\ Append(s, x)[Len(s) + 1] = x
  BY <1>1
<1> HIDE DEF S
<1> QED
  BY <1>2, SeqIs

LEMMA Rest ==
  ASSUME NEW s, IsSeq(s), s # << >>
  PROVE  /\ IsSeq(Tail(s)) /\ Len(Tail(s)) = Len(s) - 1 /\ Len(s) \in Nat \ {0}
         /\ Head(s) = s[1]
         /\ \A i \in 1..Len(Tail(s)) : Tail(s)[i] = s[i + 1]
<1> DEFINE S == {s[i] : i \in 1..Len(s)}
<1>1. s \in Seq(S)
  BY DEF IsSeq
<1>2. Tail(s) \in Seq(S) /\ Len(Tail(s)) = Len(s) - 1
        /\ \A i \in 1..Len(Tail(s)) : Tail(s)[i] = s[i + 1]
  BY <1>1, HeadTailProperties
<1>3. Len(s) \in Nat \ {0} /\ Head(s) = s[1]
  BY <1>1, EmptySeq
<1> HIDE DEF S
<1> QED
  BY <1>2, <1>3, SeqIs

-----------------------------------------------------------------------------
(* The client's steps *)

Grows(s, t) == t = s \/ \E x : t = Append(s, x)

LEMMA Grown ==
  ASSUME NEW S, NEW s \in Seq(S), NEW t \in Seq(S), Grows(s, t)
  PROVE  /\ DOMAIN s \subseteq DOMAIN t
         /\ \A i \in DOMAIN s : t[i] = s[i]
  BY DEF Grows

\* A message that is waiting stays as it should be.
LEMMA MessageKept ==
  ASSUME TypeInv, NEW x, MessageOK(x), causes # {} => causes' # {},
         asked' \in Seq(Names), published' \in Seq(Media),
         Grows(asked, asked'), Grows(published, published'),
         \/ phase' = phase \/ phase' \in {"stopped", "closed"}
         \/ Established /\ Established'
  PROVE  MessageOK(x)'
<1>1. /\ DOMAIN asked \subseteq DOMAIN asked' /\ DOMAIN published \subseteq DOMAIN published'
      /\ \A i \in DOMAIN asked : asked'[i] = asked[i]
      /\ \A i \in DOMAIN published : published'[i] = published[i]
  <2> asked \in Seq(Names) /\ published \in Seq(Media)
    BY DEF TypeInv
  <2> QED
    BY Grown
<1>2. CommandOK(x) => CommandOK(x)'
  BY <1>1 DEF CommandOK
<1>3. MediumOK(x) => MediumOK(x)'
  BY <1>1 DEF MediumOK
<1> QED
  BY <1>2, <1>3 DEF MessageOK, Established

\* A message is put behind those that are waiting.
LEMMA InboxPost ==
  ASSUME TypeInv, InboxInv, NEW m, inbox' = Append(inbox, m), UNCHANGED <<phase, decoder>>,
         causes # {} => causes' # {},
         asked' \in Seq(Names), published' \in Seq(Media),
         Grows(asked, asked'), Grows(published, published'),
         MessageOK(m)',
         \A i \in 1..Len(inbox) :
           IsCommand(m) /\ IsCommand(inbox[i]) => Number(inbox[i]) < Number(m),
         IsCommand(m) /\ m.kind \in References => inbox = << >> /\ (causes' # {} \/ decoder = NewTables)
  PROVE  InboxInv'
<1>1. /\ IsSeq(inbox) /\ Len(inbox) \in Nat /\ Len(inbox') = Len(inbox) + 1
      /\ \A i \in 1..Len(inbox) : inbox'[i] = inbox[i]
      /\ inbox'[Len(inbox) + 1] = m
  <2>1. IsSeq(inbox) /\ Len(inbox) \in Nat
    BY DEF TypeInv, IsSeq
  <2> QED
    BY <2>1, Added
<1>2. \A i \in 1..Len(inbox') : i \in 1..Len(inbox) \/ i = Len(inbox) + 1
  BY <1>1
<1>3. inbox = << >> => Len(inbox) = 0
  OBVIOUS
<1>4. ASSUME NEW i \in 1..Len(inbox)'
      PROVE  MessageOK(inbox[i])'
  <2>1. CASE i \in 1..Len(inbox)
    <3> DEFINE x == inbox[i]
    <3>1. MessageOK(x) /\ (causes # {} => causes' # {})
      BY <1>1, <1>3, <2>1 DEF InboxInv
    <3>2. \A y : MessageOK(y) => MessageOK(y)'
      BY <3>1, MessageKept
    <3> QED
      BY <1>1, <2>1, <3>1, <3>2
  <2>2. CASE i = Len(inbox) + 1
    BY <1>1, <2>2
  <2> QED
    BY <1>2, <1>4, <2>1, <2>2
<1>5. ASSUME NEW i \in 1..Len(inbox)', NEW j \in 1..Len(inbox)', i < j,
             IsCommand(inbox[i])', IsCommand(inbox[j])'
      PROVE  (Number(inbox[i]) < Number(inbox[j]))'
  <2>1. i \in 1..Len(inbox)
    BY <1>1, <1>2, <1>5
  <2>2. CASE j \in 1..Len(inbox)
    BY <1>1, <1>5, <2>1, <2>2 DEF InboxInv
  <2>3. CASE j = Len(inbox) + 1
    BY <1>1, <1>5, <2>1, <2>3
  <2> QED
    BY <1>2, <2>2, <2>3
<1>6. ASSUME NEW i \in 1..Len(inbox)', IsCommand(inbox[i])', (inbox[i].kind \in References)'
      PROVE  i = 1 /\ (causes # {} \/ decoder = NewTables)'
  <2>1. CASE i \in 1..Len(inbox)
    BY <1>1, <1>3, <1>6, <2>1 DEF InboxInv
  <2>2. CASE i = Len(inbox) + 1
    BY <1>1, <1>3, <1>6, <2>2
  <2> QED
    BY <1>2, <2>1, <2>2
<1>7. (decoder = NewTables \/ "checkBandwidth" \in Range(asked))'
  <2>1. /\ DOMAIN asked \subseteq DOMAIN asked'
        /\ \A i \in DOMAIN asked : asked'[i] = asked[i]
    BY Grown DEF TypeInv
  <2> QED
    BY <2>1 DEF InboxInv, Range
<1> QED
  BY <1>4, <1>5, <1>6, <1>7 DEF InboxInv


\* A request that is put behind the others is neither answered nor overtaken.
LEMMA AnswersPost ==
  ASSUME TypeInv, AnswersInv, NEW m, inbox' = Append(inbox, m), UNCHANGED <<phase, out>>,
         asked' \in Seq(Names), Grows(asked, asked'),
         \A n \in DOMAIN asked' \ DOMAIN asked : IsCommand(m) /\ Number(m) = n,
         IsCommand(m) => \A n \in DOMAIN asked : n < Number(m)
  PROVE  AnswersInv'
<1> DEFINE R == {"connect", "createStream"}
<1>1. /\ Len(inbox) \in Nat /\ Len(inbox') = Len(inbox) + 1
      /\ \A i \in 1..Len(inbox) : inbox'[i] = inbox[i]
      /\ inbox'[Len(inbox) + 1] = m
  <2>1. IsSeq(inbox) /\ Len(inbox) \in Nat
    BY DEF TypeInv, IsSeq
  <2> QED
    BY <2>1, Added
<1>2. \A i \in 1..Len(inbox') : i \in 1..Len(inbox) \/ i = Len(inbox) + 1
  BY <1>1
<1>3. /\ DOMAIN asked \subseteq DOMAIN asked'
      /\ \A n \in DOMAIN asked : asked'[n] = asked[n]
      /\ DOMAIN asked = 1..Len(asked) /\ DOMAIN asked' = 1..Len(asked')
      /\ Len(asked) \in Nat /\ Len(asked') \in Nat
  <2>1. asked \in Seq(Names) /\ asked' \in Seq(Names)
    BY DEF TypeInv
  <2> HIDE DEF Names
  <2>2. DOMAIN asked = 1..Len(asked) /\ DOMAIN asked' = 1..Len(asked')
          /\ Len(asked) \in Nat /\ Len(asked') \in Nat
    BY <2>1, LenProperties
  <2> QED
    BY <2>1, <2>2, Grown
<1>4. Results' = Results /\ out' = out
  BY DEF Results
<1>5. \A n \in DOMAIN asked' : n \in Numbered(R)' <=> asked'[n] \in R
  BY DEF Numbered
<1>6. \A n : n \in Numbered(R) <=> n \in DOMAIN asked /\ asked[n] \in R
  BY DEF Numbered
<1>7. \A n : n \in Numbered(R)' => n \in DOMAIN asked'
  BY DEF Numbered
<1> HIDE DEF R
<1>8. ASSUME phase' = "commands", NEW n \in Numbered(R)'
      PROVE  (Pending(n) \/ Resulted(n))'
  <2>1. CASE n \in DOMAIN asked
    <3>1. Pending(n) \/ Resulted(n)
      BY <1>3, <1>5, <1>6, <1>8, <2>1 DEF AnswersInv, R
    <3>2. Pending(n) => Pending(n)'
      BY <1>1 DEF Pending
    <3>3. Resulted(n) => Resulted(n)'
      BY <1>4 DEF Resulted
    <3> QED
      BY <3>1, <3>2, <3>3
  <2>2. CASE n \notin DOMAIN asked
    <3>1. IsCommand(m) /\ Number(m) = n
      BY <1>7, <2>2
    <3>2. Len(inbox) + 1 \in 1..Len(inbox')
      BY <1>1
    <3> QED
      BY <1>1, <3>1, <3>2 DEF Pending
  <2> QED
    BY <2>1, <2>2
<1>9. \A j \in Results : out[j].tid \in DOMAIN asked
  BY <1>6 DEF AnswersInv, AnswersMatch, R
<1>10. ASSUME NEW j \in Results', NEW i \in 1..Len(inbox'), IsCommand(inbox[i])'
       PROVE  (out[j].tid < Number(inbox[i]))'
  <2>1. CASE i \in 1..Len(inbox)
    BY <1>1, <1>4, <1>10, <2>1 DEF AnswersInv
  <2>2. CASE i = Len(inbox) + 1
    BY <1>1, <1>4, <1>9, <1>10, <2>2
  <2> QED
    BY <1>2, <2>1, <2>2
<1>11. AnswersMatch'
  <2> SUFFICES ASSUME NEW i \in Results
               PROVE  /\ out[i].tid \in Numbered(R)'
                      /\ \A j \in Results : i < j => out[i].tid < out[j].tid
                      /\ \A n \in Numbered(R)' :
                           n < out[i].tid => \E j \in Results : out[j].tid = n
    BY <1>4 DEF AnswersMatch, R
  <2>1. /\ out[i].tid \in Numbered(R)
        /\ \A j \in Results : i < j => out[i].tid < out[j].tid
        /\ \A n \in Numbered(R) : n < out[i].tid => \E j \in Results : out[j].tid = n
    BY DEF AnswersInv, AnswersMatch, R
  <2>2. out[i].tid \in Numbered(R)'
    BY <1>3, <1>5, <1>6, <2>1
  <2>3. ASSUME NEW n \in Numbered(R)', n < out[i].tid
        PROVE  n \in Numbered(R)
    <3>1. n \in DOMAIN asked
      <4>1. out[i].tid \in 1..Len(asked) /\ n \in 1..Len(asked')
        BY <1>3, <1>6, <1>7, <2>1
      <4> QED
        BY <1>3, <2>3, <4>1
    <3> QED
      BY <1>3, <1>5, <1>6, <2>3, <3>1
  <2> QED
    BY <2>1, <2>2, <2>3
<1> QED
  BY <1>8, <1>10, <1>11 DEF AnswersInv, R

LEMMA ClientStep ==
  ASSUME IInv, NEW type, NEW wire, NEW means, NEW kind, NEW m,
         m = [type |-> type, wire |-> wire, means |-> means, kind |-> kind],
         Post(type, wire, means, kind),
         asked' \in Seq(Names), Len(asked') <= MaxCommands, Grows(asked, asked'),
         published' \in Seq(Media), Len(published') <= MaxMedia, Grows(published, published'),
         causes' \subseteq Causes, causes # {} => causes' # {},
         MessageOK(m)',
         \A n \in DOMAIN asked' \ DOMAIN asked : IsCommand(m) /\ Number(m) = n,
         IsCommand(m) => \A n \in DOMAIN asked : n < Number(m),
         IsCommand(m) /\ kind \in References => inbox = << >> /\ (causes' # {} \/ decoder = NewTables),
         phase \in {"C0C1", "C2"} => inbox = << >> /\ asked' = asked,
         phase \notin {"publishing", "stopped"} => published' = published
  PROVE  IInv'
<1> USE DEF IInv
<1>1. /\ inbox' = Append(inbox, m) /\ Len(inbox) < Room /\ open = TRUE /\ phase # "closed"
      /\ UNCHANGED <<phase, deadline, buffer, out, open, playing, header>>
      /\ UNCHANGED <<decoder, ConnInfo, PublishInfo, isPublisher, transactionID, granted>>
  BY DEF Post, server, player, TypeInv
<1>2. AuthInv'
  BY AuthPost
<1>3. IsSeq(inbox') /\ Len(inbox') = Len(inbox) + 1 /\ Len(inbox) \in Nat
  <2>1. IsSeq(inbox) /\ Len(inbox) \in Nat
    BY DEF TypeInv, IsSeq
  <2> QED
    BY <1>1, <2>1, Added
<1>4. TypeInv'
  <2>1. Room \in Nat
    BY SessionAssumption
  <2>2. Len(inbox') <= Room
    BY <1>1, <1>3, <2>1
  <2> QED
    BY <1>1, <1>3, <2>2 DEF TypeInv
<1>5. PlaceInv'
  <2>1. Results' = Results /\ (Got("NetStream.Publish.Start")' <=> Got("NetStream.Publish.Start"))
    BY <1>1 DEF Results, Got
  <2>2. inbox = << >> => Len(inbox') <= 1
    BY <1>3
  <2> QED
    BY <1>1, <2>1, <2>2 DEF PlaceInv, Established
<1>6. InboxInv'
  <2>1. ASSUME NEW i \in 1..Len(inbox), IsCommand(m), IsCommand(inbox[i])
        PROVE  Number(inbox[i]) < Number(m)
    <3>1. Number(inbox[i]) \in DOMAIN asked
      BY <2>1 DEF InboxInv, MessageOK, CommandOK
    <3> QED
      BY <2>1, <3>1
  <2>2. m.kind = kind
    OBVIOUS
  <2> HIDE DEF IInv
  <2>3. TypeInv /\ InboxInv
    BY DEF IInv
  <2> QED
    BY <1>1, <2>1, <2>2, <2>3, InboxPost
<1>7. AnswersInv'
  BY <1>1, AnswersPost
<1>8. ClosedForCause'
  BY <1>1 DEF ClosedForCause, Over
<1> QED
  BY <1>2, <1>4, <1>5, <1>6, <1>7, <1>8

LEMMA SendC0C1Inv == IInv /\ SendC0C1 => IInv'
<1> SUFFICES ASSUME IInv, SendC0C1
             PROVE  IInv'
  OBVIOUS
<1>1. PICK c1 \in [version : {0}, digest : {0}] \union [version : {9}, digest : {0, 8, 772}] :
        /\ Post("C0C1", <<c1>>, << >>, "plain")
        /\ causes' = causes \union If(c1.version # 0 /\ c1.digest = 0, "hello")
  BY DEF SendC0C1
<1>2. phase = "C0C1" /\ inbox = << >> /\ asked' = asked /\ published' = published
  BY DEF SendC0C1
<1> DEFINE m == [type |-> "C0C1", wire |-> <<c1>>, means |-> << >>, kind |-> "plain"]
<1>6. /\ causes' \subseteq Causes /\ (causes # {} => causes' # {})
      /\ c1.version # 0 /\ c1.digest = 0 => causes' # {}
  <2> DEFINE unsigned == c1.version # 0 /\ c1.digest = 0
  <2>1. "hello" \in Causes /\ causes \subseteq Causes
    BY DEF Causes, IInv, TypeInv
  <2>2. causes' = causes \union If(unsigned, "hello")
    BY <1>1
  <2>3. /\ causes \union If(unsigned, "hello") \subseteq Causes
        /\ causes # {} => causes \union If(unsigned, "hello") # {}
        /\ unsigned => causes \union If(unsigned, "hello") # {}
    <3> HIDE DEF unsigned
    <3> QED
      BY <2>1, CauseAdded
  <2> QED
    BY <2>2, <2>3
<1>3. c1.version = 0 \/ hsParse1(c1) \/ causes' # {}
  BY <1>1, <1>6 DEF hsParse1, hsFindDigest
<1>4. phase' = "C0C1"
  BY <1>1, <1>2 DEF Post
<1>5. MessageOK(m)' /\ ~IsCommand(m)
  BY <1>3, <1>4 DEF MessageOK, IsCommand, IsMedia
<1>7. asked' \in Seq(Names) /\ Len(asked') <= MaxCommands /\ Grows(asked, asked')
        /\ published' \in Seq(Media) /\ Len(published') <= MaxMedia /\ Grows(published, published')
  BY <1>2 DEF IInv, TypeInv, Grows
<1> QED
  BY <1>1, <1>2, <1>5, <1>6, <1>7, ClientStep

LEMMA SendC2Inv == IInv /\ SendC2 => IInv'
<1> SUFFICES ASSUME IInv, SendC2
             PROVE  IInv'
  OBVIOUS
<1>1. PICK echo \in BOOLEAN :
        /\ Post("C2", <<[time |-> echo, random |-> echo]>>, << >>, "plain")
        /\ causes' = causes \union If(~echo, "echo")
  BY DEF SendC2
<1>2. phase = "C2" /\ inbox = << >> /\ asked' = asked /\ published' = published
  BY DEF SendC2
<1> DEFINE w == <<[time |-> echo, random |-> echo]>>
           m == [type |-> "C2", wire |-> w, means |-> << >>, kind |-> "plain"]
<1>6. /\ causes' \subseteq Causes /\ (causes # {} => causes' # {})
      /\ ~echo => causes' # {}
  <2>1. "echo" \in Causes
    BY DEF Causes
  <2> QED
    BY <1>1, <2>1, CauseKept
<1>3. (w[1].time /\ w[1].random) \/ causes' # {}
  BY <1>1, <1>6
<1>4. phase' = "C2"
  BY <1>1, <1>2 DEF Post
<1>5. MessageOK(m)' /\ ~IsCommand(m)
  BY <1>3, <1>4 DEF MessageOK, IsCommand, IsMedia
<1>7. asked' \in Seq(Names) /\ Len(asked') <= MaxCommands /\ Grows(asked, asked')
        /\ published' \in Seq(Media) /\ Len(published') <= MaxMedia /\ Grows(published, published')
  BY <1>2 DEF IInv, TypeInv, Grows
<1> QED
  BY <1>1, <1>2, <1>5, <1>6, <1>7, ClientStep

LEMMA SendControlInv == IInv /\ SendControl => IInv'
<1> SUFFICES ASSUME IInv, SendControl
             PROVE  IInv'
  OBVIOUS
<1>1. /\ Established /\ inbox = << >> /\ Post("control", << >>, << >>, "plain")
      /\ asked' = asked /\ published' = published /\ causes' = causes
  BY DEF SendControl
<1> DEFINE m == [type |-> "control", wire |-> << >>, means |-> << >>, kind |-> "plain"]
<1>4. Established'
  BY <1>1 DEF Post, Established
<1>5. MessageOK(m)' /\ ~IsCommand(m)
  BY <1>4 DEF MessageOK, IsCommand, IsMedia
<1>7. asked' \in Seq(Names) /\ Len(asked') <= MaxCommands /\ Grows(asked, asked')
        /\ published' \in Seq(Media) /\ Len(published') <= MaxMedia /\ Grows(published, published')
        /\ causes' \subseteq Causes
  BY <1>1 DEF IInv, TypeInv, Grows
<1> QED
  BY <1>1, <1>5, <1>7, ClientStep

LEMMA MediaTypes == \A m \in Media : m.type \in {"video", "audio", "data0", "data3"}
  BY DEF Media, Medium

LEMMA SendMediaInv == IInv /\ SendMedia => IInv'
<1> SUFFICES ASSUME IInv, SendMedia
             PROVE  IInv'
  OBVIOUS
<1>1. PICK x \in Media :
        /\ Post(x.type, x.wire, <<Num(Len(published) + 1)>>, "plain")
        /\ published' = Append(published, x)
        /\ causes' = causes \union If(x.body = << >>, "frame")
  BY DEF SendMedia
<1>2. Got("NetStream.Publish.Start") /\ Len(published) < MaxMedia /\ asked' = asked
  BY DEF SendMedia
<1>0. PICK n : n = Len(published) + 1
  OBVIOUS
<1> DEFINE m == [type |-> x.type, wire |-> x.wire, means |-> <<Num(n)>>, kind |-> "plain"]
<1>3. phase \in {"publishing", "stopped"} /\ phase' = phase
  BY <1>1, <1>2 DEF IInv, TypeInv, PlaceInv, Post
<1>4. /\ published' \in Seq(Media) /\ Len(published') <= MaxMedia /\ Grows(published, published')
      /\ n \in DOMAIN published' /\ published'[n] = x
  <2>1. published \in Seq(Media) /\ MaxMedia \in Nat
    BY SessionAssumption DEF IInv, TypeInv
  <2>2. /\ published' \in Seq(Media) /\ Len(published') = Len(published) + 1
        /\ Len(published) \in Nat
        /\ published'[Len(published) + 1] = x
    BY <1>1, <2>1
  <2> QED
    BY <1>0, <1>1, <1>2, <2>1, <2>2 DEF Grows
<1>6. /\ causes' \subseteq Causes /\ (causes # {} => causes' # {})
      /\ x.body = << >> => causes' # {}
  <2>1. "frame" \in Causes
    BY DEF Causes
  <2> QED
    BY <1>1, <2>1, CauseKept
<1>5. MessageOK(m)' /\ ~IsCommand(m)
  <2>1. m.type \in {"video", "audio", "data0", "data3"}
    BY MediaTypes
  <2>2. MediumOK(m)'
    BY <1>4, <1>6 DEF MediumOK, Num
  <2> HIDE DEF m
  <2> QED
    BY <1>3, <2>1, <2>2 DEF MessageOK, IsCommand, IsMedia, Established
<1>7. asked' \in Seq(Names) /\ Len(asked') <= MaxCommands /\ Grows(asked, asked')
  BY <1>2 DEF IInv, TypeInv, Grows
<1> QED
  BY <1>0, <1>1, <1>2, <1>3, <1>4, <1>5, <1>6, <1>7, ClientStep

\* What Requests offers, written out.
LEMMA Asks ==
  ASSUME NEW n, NEW vals \in Requests(n)
  PROVE  Requested(vals, n)
<1> USE DEF Requested, Command
<1>1. CASE \E app \in {"vods", "local", "live"} : vals = Command("connect", n, <<App(app)>>)
  BY <1>1, Pair DEF Connects, Apps
<1>2. CASE vals = Command("createStream", n, <<Nil>>)
  BY <1>2, Pair DEF Creates
<1>3. CASE vals = Command("releaseStream", n, <<Nil, Str("live_id_key")>>)
  BY <1>3, PairPair DEF Releases
<1>4. CASE \E s \in StreamNames : vals = Command("publish", n, <<Nil, Str(s), Str("live")>>)
  BY <1>4, Triple DEF Publishes
<1>5. CASE \E s \in StreamNames : vals = Command("play", n, <<Nil, Str(s), Num(-2000)>>)
  BY <1>5, Triple DEF Plays
<1> HIDE DEF Requested, Command
<1> DEFINE C == {Command("connect", n, <<App(app)>>) : app \in IF n = 1 THEN Apps ELSE {"local"}}
           P == UNION {{Command("publish", n, <<Nil, Str(s), Str("live")>>),
                        Command("play", n, <<Nil, Str(s), Num(-2000)>>)} : s \in StreamNames}
<1>6. \/ vals \in C \/ vals = Command("createStream", n, <<Nil>>)
      \/ vals \in {Command("releaseStream", n, <<Nil, Str(s)>>) : s \in {"live_id_key"}}
      \/ vals \in P
  BY DEF Requests, Apps
<1>7. vals \in C => \E app \in {"vods", "local", "live"} : vals = Command("connect", n, <<App(app)>>)
  BY DEF Apps
<1>8. vals \in P => \/ \E s \in StreamNames : vals = Command("publish", n, <<Nil, Str(s), Str("live")>>)
                   \/ \E s \in StreamNames : vals = Command("play", n, <<Nil, Str(s), Num(-2000)>>)
  OBVIOUS
<1> HIDE DEF C, P
<1> QED
  BY <1>1, <1>2, <1>3, <1>4, <1>5, <1>6, <1>7, <1>8

\* One more place in a sequence.
LEMMA OneMore ==
  ASSUME NEW S, NEW s \in Seq(S), NEW x \in S
  PROVE  /\ Append(s, x) \in Seq(S) /\ Grows(s, Append(s, x))
         /\ Len(Append(s, x)) = Len(s) + 1 /\ Len(s) + 1 \in DOMAIN Append(s, x)
         /\ Append(s, x)[Len(s) + 1] = x
         /\ DOMAIN Append(s, x) \ DOMAIN s = {Len(s) + 1}
         /\ \A k \in DOMAIN s : k < Len(s) + 1
<1>1. /\ Append(s, x) \in Seq(S) /\ Len(Append(s, x)) = Len(s) + 1 /\ Len(s) \in Nat
      /\ Append(s, x)[Len(s) + 1] = x
      /\ DOMAIN s = 1..Len(s) /\ DOMAIN Append(s, x) = 1..(Len(s) + 1)
  OBVIOUS
<1>2. \A k : k \in 1..(Len(s) + 1) /\ k \notin 1..Len(s) <=> k = Len(s) + 1
  BY <1>1
<1>3. DOMAIN Append(s, x) \ DOMAIN s = {Len(s) + 1}
  BY <1>1, <1>2
<1>4. Len(s) + 1 \in 1..(Len(s) + 1) /\ \A k \in 1..Len(s) : k < Len(s) + 1
  BY <1>1
<1>5. Grows(s, Append(s, x))
  BY DEF Grows
<1>6. Len(s) + 1 \in DOMAIN Append(s, x) /\ \A k \in DOMAIN s : k < Len(s) + 1
  BY <1>1, <1>4
<1> QED
  BY <1>1, <1>3, <1>5, <1>6

LEMMA RequestShape ==
  ASSUME NEW vals, NEW n, Requested(vals, n)
  PROVE  /\ vals # << >> /\ vals[2] = Num(n)
         /\ vals[1].str \in Names \ {"checkBandwidth"} /\ vals[1] = Str(vals[1].str)
  BY DEF Requested, Connects, Creates, Releases, Publishes, Plays, Names, Str

LEMMA SendCommandInv == IInv /\ SendCommand => IInv'
<1> SUFFICES ASSUME IInv, SendCommand
             PROVE  IInv'
  OBVIOUS
<1>n. PICK n : n = Len(asked) + 1
  OBVIOUS
<1>0. PICK vals \in Requests(n), type \in {"command0", "command3"} : \E wire \in EncodeBatch(vals) :
        /\ Post(type, IF type = "command3" THEN Byte(0) \o wire ELSE wire, vals, "plain")
        /\ asked' = Append(asked, vals[1].str)
        /\ causes' = causes \union If(vals[1].str = "connect" /\ n # 1, "connect")
  BY <1>n DEF SendCommand
<1>1. PICK wire \in EncodeBatch(vals) :
        /\ Post(type, IF type = "command3" THEN Byte(0) \o wire ELSE wire, vals, "plain")
        /\ asked' = Append(asked, vals[1].str)
        /\ causes' = causes \union If(vals[1].str = "connect" /\ n # 1, "connect")
  BY <1>0
<1>2. Established /\ Len(asked) < MaxCommands /\ published' = published
  BY DEF SendCommand
<1> DEFINE w == IF type = "command3" THEN Byte(0) \o wire ELSE wire
           m == [type |-> type, wire |-> w, means |-> vals, kind |-> "plain"]
<1>3. /\ Requested(vals, n) /\ vals # << >> /\ vals[2] = Num(n)
      /\ vals[1].str \in Names /\ vals[1] = Str(vals[1].str)
  BY Asks, RequestShape
<1>4. /\ asked' \in Seq(Names) /\ Len(asked') <= MaxCommands /\ Grows(asked, asked')
      /\ n \in DOMAIN asked' /\ asked'[n] = vals[1].str
      /\ DOMAIN asked' \ DOMAIN asked = {n} /\ \A k \in DOMAIN asked : k < n
  <2>1. asked \in Seq(Names) /\ MaxCommands \in Nat /\ vals[1].str \in Names
    BY <1>3, SessionAssumption DEF IInv, TypeInv
  <2>2. asked' = Append(asked, vals[1].str)
    BY <1>1
  <2> HIDE DEF Names
  <2>3. Len(asked) \in Nat
    BY <2>1
  <2>4. n <= MaxCommands
    BY <1>n, <1>2, <2>1, <2>3
  <2>5. /\ Append(asked, vals[1].str) \in Seq(Names) /\ Grows(asked, Append(asked, vals[1].str))
        /\ Len(Append(asked, vals[1].str)) = Len(asked) + 1 /\ Len(asked) + 1 \in DOMAIN Append(asked, vals[1].str)
        /\ Append(asked, vals[1].str)[Len(asked) + 1] = vals[1].str
        /\ DOMAIN Append(asked, vals[1].str) \ DOMAIN asked = {Len(asked) + 1}
        /\ \A k \in DOMAIN asked : k < Len(asked) + 1
    BY <2>1, OneMore
  <2> QED
    BY <1>n, <2>2, <2>4, <2>5
<1>5. Number(m) = n
  BY <1>3 DEF Number, Num
<1>6. Established'
  BY <1>1, <1>2 DEF Established, Post
<1>c. /\ causes' \subseteq Causes /\ (causes # {} => causes' # {})
      /\ vals[1].str = "connect" /\ n # 1 => causes' # {}
  <2>1. "connect" \in Causes
    BY DEF Causes
  <2> QED
    BY <1>1, <2>1, CauseKept
<1>7. CommandOK(m)'
  <2>1. m.means = vals /\ m.kind = "plain"
    OBVIOUS
  <2>2. vals[1] = Str("connect") => vals[1].str = "connect"
    BY DEF Str
  <2> HIDE DEF m
  <2> QED
    BY <1>3, <1>4, <1>5, <1>c, <2>1, <2>2 DEF CommandOK
<1>8. MessageOK(m)' /\ IsCommand(m)
  BY <1>6, <1>7 DEF MessageOK, IsCommand, IsMedia
<1>9. published' \in Seq(Media) /\ Len(published') <= MaxMedia /\ Grows(published, published')
  BY <1>2 DEF IInv, TypeInv, Grows
<1>10. phase \notin {"C0C1", "C2"}
  BY <1>2 DEF Established
<1> HIDE DEF w
<1> QED
  BY <1>1, <1>2, <1>4, <1>5, <1>c, <1>8, <1>9, <1>10, ClientStep DEF w, References

LEMMA SendOtherInv == IInv /\ SendOther => IInv'
<1> SUFFICES ASSUME IInv, SendOther
             PROVE  IInv'
  OBVIOUS
<1>n. PICK n : n = Len(asked) + 1
  OBVIOUS
<1> DEFINE vals == Command("checkBandwidth", n, <<Nil>>)
<1>1. PICK x \in Extras, wire \in EncodeBatch(vals) :
        /\ Post("command0", wire \o x.wire, Append(vals, x.means), x.kind)
        /\ asked' = Append(asked, "checkBandwidth")
        /\ causes' = causes
             \union If(x.kind \in {"refused", "nowhere"}, "argument")
             \union If(x.kind \in References /\ "checkBandwidth" \in Range(asked), "reference")
  BY <1>n DEF SendOther
<1>2. phase = "commands" /\ inbox = << >> /\ Len(asked) < MaxOthers + 1 /\ published' = published
  BY DEF SendOther
<1> DEFINE means == Append(vals, x.means)
           m == [type |-> "command0", wire |-> wire \o x.wire, means |-> means, kind |-> x.kind]
<1>3. means # << >> /\ means[1] = Str("checkBandwidth") /\ means[2] = Num(n)
  <2>1. vals = <<Str("checkBandwidth"), Num(n), Nil>>
    BY Pair DEF Command
  <2> HIDE DEF vals
  <2> QED
    BY <2>1
<1>4. /\ asked' \in Seq(Names) /\ Len(asked') <= MaxCommands /\ Grows(asked, asked')
      /\ n \in DOMAIN asked' /\ asked'[n] = "checkBandwidth"
      /\ DOMAIN asked' \ DOMAIN asked = {n} /\ \A k \in DOMAIN asked : k < n
  <2>1. /\ asked \in Seq(Names) /\ "checkBandwidth" \in Names
        /\ MaxCommands \in Nat /\ MaxOthers \in Nat /\ MaxOthers < MaxCommands
    BY SessionAssumption DEF IInv, TypeInv, Names
  <2>2. asked' = Append(asked, "checkBandwidth")
    BY <1>1
  <2> HIDE DEF Names
  <2>3. Len(asked) \in Nat
    BY <2>1
  <2>4. n <= MaxCommands
    BY <1>n, <1>2, <2>1, <2>3
  <2>5. /\ Append(asked, "checkBandwidth") \in Seq(Names) /\ Grows(asked, Append(asked, "checkBandwidth"))
        /\ Len(Append(asked, "checkBandwidth")) = Len(asked) + 1 /\ Len(asked) + 1 \in DOMAIN Append(asked, "checkBandwidth")
        /\ Append(asked, "checkBandwidth")[Len(asked) + 1] = "checkBandwidth"
        /\ DOMAIN Append(asked, "checkBandwidth") \ DOMAIN asked = {Len(asked) + 1}
        /\ \A k \in DOMAIN asked : k < Len(asked) + 1
    BY <2>1, OneMore
  <2> QED
    BY <1>n, <2>2, <2>4, <2>5
<1>5. Number(m) = n
  <2>1. m.means = means
    OBVIOUS
  <2> HIDE DEF vals, means, m
  <2> QED
    BY <1>3, <2>1 DEF Number, Num
<1>c. /\ causes' \subseteq Causes /\ (causes # {} => causes' # {})
      /\ x.kind \in {"refused", "nowhere"} => causes' # {}
      /\ x.kind \in References /\ "checkBandwidth" \in Range(asked) => causes' # {}
  <2> DEFINE S == causes \union If(x.kind \in {"refused", "nowhere"}, "argument")
  <2>1. "argument" \in Causes /\ "reference" \in Causes /\ causes \subseteq Causes
    BY DEF Causes, IInv, TypeInv
  <2>2. /\ S \subseteq Causes /\ (causes # {} => S # {})
        /\ x.kind \in {"refused", "nowhere"} => S # {}
    BY <2>1, CauseAdded
  <2>3. causes' = S \union If(x.kind \in References /\ "checkBandwidth" \in Range(asked), "reference")
    BY <1>1
  <2> HIDE DEF S
  <2> QED
    BY <2>1, <2>2, <2>3, CauseAdded
<1>6. Established'
  BY <1>1, <1>2 DEF Established, Post
<1>7. CommandOK(m)'
  <2>1. x.kind \in ArgKinds
    BY SessionAssumption DEF ArgKinds, Kinds, References
  <2>2. Str("checkBandwidth") # Str("connect")
    BY DEF Str
  <2> HIDE DEF means
  <2> QED
    BY <1>1, <1>3, <1>4, <1>5, <1>c, <2>1, <2>2 DEF CommandOK, IsOther
<1>8. MessageOK(m)' /\ IsCommand(m)
  BY <1>6, <1>7 DEF MessageOK, IsCommand, IsMedia
<1>9. published' \in Seq(Media) /\ Len(published') <= MaxMedia /\ Grows(published, published')
  BY <1>2 DEF IInv, TypeInv, Grows
<1>10. x.kind \in References => causes' # {} \/ decoder = NewTables
  BY <1>c DEF IInv, InboxInv
<1> HIDE DEF vals, means
<1> QED
  BY <1>1, <1>2, <1>4, <1>5, <1>c, <1>8, <1>9, <1>10, ClientStep DEF means

LEMMA LeaveInv == IInv /\ Leave => IInv'
<1> SUFFICES ASSUME IInv, Leave
             PROVE  IInv'
  OBVIOUS
<1>1. /\ UNCHANGED <<phase, deadline, inbox, buffer, out, playing, header, asked, published, causes>>
      /\ UNCHANGED <<decoder, ConnInfo, PublishInfo, isPublisher, transactionID, granted>>
      /\ open' = FALSE
  BY DEF Leave, server, player
<1>2. AuthInv'
  BY AuthClient DEF Client, IInv
<1>3. TypeInv' /\ PlaceInv' /\ ClosedForCause'
  BY <1>1 DEF IInv, TypeInv, PlaceInv, ClosedForCause, Over, Results, Got, Established
<1>4. InboxInv'
  BY <1>1 DEF IInv, InboxInv, MessageOK, CommandOK, MediumOK, Established
<1>5. AnswersInv'
  BY <1>1 DEF IInv, AnswersInv, Pending, Resulted, Results, Numbered, AnswersMatch
<1> QED
  BY <1>2, <1>3, <1>4, <1>5 DEF IInv

-----------------------------------------------------------------------------
(* What the server's steps have in common *)

R == {"connect", "createStream"}

\* The message that is read was as it should be, and the others move up.
LEMMA InboxTake ==
  ASSUME TypeInv, InboxInv, Take, UNCHANGED <<asked, published>>, causes # {} => causes' # {},
         \/ phase' = phase \/ phase' \in {"stopped", "closed"}
         \/ Established /\ Established'
         \/ Len(inbox) = 1,
         decoder' = NewTables \/ "checkBandwidth" \in Range(asked)
  PROVE  InboxInv'
<1>1. /\ inbox # << >> /\ Len(inbox) \in Nat \ {0} /\ Len(inbox') = Len(inbox) - 1
      /\ \A i \in 1..Len(inbox') : inbox'[i] = inbox[i + 1]
  BY Rest DEF Take, TypeInv
<1>2. \A i \in 1..Len(inbox') : i + 1 \in 1..Len(inbox) /\ i + 1 # 1
  BY <1>1
<1>3. Grows(asked, asked') /\ Grows(published, published')
        /\ asked' \in Seq(Names) /\ published' \in Seq(Media)
  BY DEF Grows, TypeInv
<1>4. ASSUME NEW i \in 1..Len(inbox)'
      PROVE  MessageOK(inbox[i])'
  <2> DEFINE x == inbox[i + 1]
  <2>1. MessageOK(x)
    BY <1>2 DEF InboxInv
  <2>2. Len(inbox) # 1
    BY <1>1
  <2>3. \A y : MessageOK(y) => MessageOK(y)'
    BY <1>3, <2>2, MessageKept
  <2> QED
    BY <1>1, <2>1, <2>3
<1>5. ASSUME NEW i \in 1..Len(inbox)', NEW j \in 1..Len(inbox)', i < j,
             IsCommand(inbox[i])', IsCommand(inbox[j])'
      PROVE  (Number(inbox[i]) < Number(inbox[j]))'
  BY <1>1, <1>2, <1>5 DEF InboxInv
<1>6. ASSUME NEW i \in 1..Len(inbox)', IsCommand(inbox[i])', (inbox[i].kind \in References)'
      PROVE  FALSE
  BY <1>1, <1>2, <1>6 DEF InboxInv
<1>7. (decoder = NewTables \/ "checkBandwidth" \in Range(asked))'
  BY DEF Range
<1> QED
  BY <1>4, <1>5, <1>6, <1>7 DEF InboxInv

\* What the client receives is put behind what it has received.
LEMMA OutGrown ==
  ASSUME out \in Seq(Answers), NEW msgs \in Seq(Answers), out' = out \o msgs
  PROVE  /\ out' \in Seq(Answers)
         /\ Len(out) \in Nat /\ Len(msgs) \in Nat
         /\ DOMAIN out = 1..Len(out) /\ DOMAIN out' = 1..(Len(out) + Len(msgs))
         /\ \A i \in 1..Len(out) : out'[i] = out[i]
         /\ \A k \in 1..Len(msgs) : out'[Len(out) + k] = msgs[k]
         /\ \A i \in DOMAIN out' : i \in 1..Len(out) \/ \E k \in 1..Len(msgs) : i = Len(out) + k
<1> HIDE DEF Answers
<1>1. out' \in Seq(Answers) /\ Len(out') = Len(out) + Len(msgs)
        /\ Len(out) \in Nat /\ Len(msgs) \in Nat
        /\ DOMAIN out = 1..Len(out) /\ DOMAIN out' = 1..(Len(out) + Len(msgs))
  BY ConcatProperties, LenProperties
<1>2. \A i \in 1..Len(out) : out'[i] = out[i]
  BY <1>1, ConcatProperties
<1>3. \A k \in 1..Len(msgs) : out'[Len(out) + k] = msgs[k]
  <2> TAKE k \in 1..Len(msgs)
  <2>1. Len(out) + k \in 1..(Len(out) + Len(msgs)) /\ Len(out) + k > Len(out)
          /\ (Len(out) + k) - Len(out) = k
    BY <1>1
  <2> QED
    BY <1>1, <2>1, ConcatProperties
<1>4. ASSUME NEW i \in DOMAIN out'
      PROVE  i \in 1..Len(out) \/ \E k \in 1..Len(msgs) : i = Len(out) + k
  <2>1. CASE i > Len(out)
    <3>1. i - Len(out) \in 1..Len(msgs) /\ i = Len(out) + (i - Len(out))
      BY <1>1, <2>1
    <3> QED
      BY <3>1
  <2>2. CASE ~(i > Len(out))
    BY <1>1, <2>2
  <2> QED
    BY <2>1, <2>2
<1> QED
  BY <1>1, <1>2, <1>3, <1>4

\* Nothing but results makes a result.
LEMMA NoResults ==
  ASSUME out \in Seq(Answers), NEW msgs \in Seq(Answers), out' = out \o msgs,
         \A k \in 1..Len(msgs) : msgs[k].msg # "_result"
  PROVE  Results' = Results /\ \A j \in Results : out'[j] = out[j]
<1> HIDE DEF Answers
<1> QED
  BY OutGrown DEF Results

LEMMA NoStart ==
  ASSUME out \in Seq(Answers), NEW msgs \in Seq(Answers), out' = out \o msgs,
         \A k \in 1..Len(msgs) : msgs[k].msg # "NetStream.Publish.Start",
         ~Got("NetStream.Publish.Start")
  PROVE  ~Got("NetStream.Publish.Start")'
<1> HIDE DEF Answers
<1> QED
  BY OutGrown DEF Got

\* A message is read that asks for no result, or after which none is due.
LEMMA AnswersTake ==
  ASSUME TypeInv, AnswersInv, Take, asked' = asked,
         Results' = Results, \A j \in Results : out'[j] = out[j],
         phase' = "commands" =>
           \/ asked = << >>
           \/ phase = "commands"
              /\ (IsCommand(Head(inbox)) => Number(Head(inbox)) \notin Numbered(R))
  PROVE  AnswersInv'
<1>1. /\ inbox # << >> /\ Len(inbox) \in Nat \ {0} /\ Len(inbox') = Len(inbox) - 1
      /\ Head(inbox) = inbox[1]
      /\ \A i \in 1..Len(inbox') : inbox'[i] = inbox[i + 1]
  BY Rest DEF Take, TypeInv
<1>2. \A i \in 1..Len(inbox') : i + 1 \in 1..Len(inbox) /\ i + 1 # 1
  BY <1>1
<1>3. Numbered(R)' = Numbered(R) /\ (asked = << >> => Numbered(R) = {})
  BY DEF Numbered
<1>4. ASSUME phase' = "commands", NEW n \in Numbered(R)'
      PROVE  (Pending(n) \/ Resulted(n))'
  <2>1. Pending(n) \/ Resulted(n)
    BY <1>3, <1>4 DEF AnswersInv, R
  <2>2. ASSUME Pending(n)
        PROVE  Pending(n)'
    <3>1. PICK i \in 1..Len(inbox) : IsCommand(inbox[i]) /\ Number(inbox[i]) = n
      BY <2>2 DEF Pending
    <3>2. i # 1
      BY <1>1, <1>3, <1>4, <3>1
    <3>3. i - 1 \in 1..Len(inbox') /\ (i - 1) + 1 = i
      BY <1>1, <3>1, <3>2
    <3>4. inbox'[i - 1] = inbox[i]
      BY <1>1, <3>3
    <3> QED
      BY <3>1, <3>3, <3>4 DEF Pending
  <2>3. Resulted(n) => Resulted(n)'
    BY DEF Resulted
  <2> QED
    BY <2>1, <2>2, <2>3
<1>5. ASSUME NEW j \in Results', NEW i \in 1..Len(inbox'), IsCommand(inbox[i])'
      PROVE  (out[j].tid < Number(inbox[i]))'
  BY <1>1, <1>2, <1>5 DEF AnswersInv
<1>6. AnswersMatch'
  BY <1>3 DEF AnswersInv, AnswersMatch, R
<1> QED
  BY <1>4, <1>5, <1>6 DEF AnswersInv, R

\* A connect or createStream is read and its result is sent under its number.
LEMMA AnswersResult ==
  ASSUME TypeInv, InboxInv, AnswersInv, Take, asked' = asked, phase = "commands",
         IsCommand(Head(inbox)), Number(Head(inbox)) \in Numbered(R),
         NEW msgs \in Seq(Answers), out' = out \o msgs,
         NEW l \in 1..Len(msgs), msgs[l] = Answer("_result", Number(Head(inbox))),
         \A k \in 1..Len(msgs) : msgs[k].msg = "_result" => k = l
  PROVE  AnswersInv'
<1> DEFINE n == Number(Head(inbox))
           last == Len(out) + l
<1>1. /\ inbox # << >> /\ Len(inbox) \in Nat \ {0} /\ Len(inbox') = Len(inbox) - 1
      /\ Head(inbox) = inbox[1]
      /\ \A i \in 1..Len(inbox') : inbox'[i] = inbox[i + 1]
  BY Rest DEF Take, TypeInv
<1>2. \A i \in 1..Len(inbox') : i + 1 \in 1..Len(inbox) /\ i + 1 > 1
  BY <1>1
<1>3. Numbered(R)' = Numbered(R) /\ Numbered(R) \subseteq Int
  <2>1. Numbered(R)' = Numbered(R)
    BY DEF Numbered
  <2>2. DOMAIN asked = 1..Len(asked)
    BY LenProperties DEF TypeInv
  <2>3. Numbered(R) \subseteq Int
    BY <2>2 DEF Numbered
  <2> QED
    BY <2>1, <2>3
<1>4. /\ Results' = Results \union {last}
      /\ \A j \in Results : out'[j] = out[j] /\ j < last
      /\ out'[last].tid = n /\ last \in Int /\ Results \subseteq Int
  <2>1. out \in Seq(Answers)
    BY DEF TypeInv
  <2> HIDE DEF Answers, n, last
  <2>2. /\ Len(out) \in Nat /\ Len(msgs) \in Nat
        /\ DOMAIN out = 1..Len(out) /\ DOMAIN out' = 1..(Len(out) + Len(msgs))
        /\ \A i \in 1..Len(out) : out'[i] = out[i]
        /\ \A k \in 1..Len(msgs) : out'[Len(out) + k] = msgs[k]
        /\ \A i \in DOMAIN out' : i \in 1..Len(out) \/ \E k \in 1..Len(msgs) : i = Len(out) + k
    BY <2>1, OutGrown
  <2>3. out'[last] = Answer("_result", n)
    BY <2>2 DEF last, n
  <2>4. last \in DOMAIN out' /\ last \in Int /\ \A j \in 1..Len(out) : j < last /\ j \in DOMAIN out'
    BY <2>2 DEF last
  <2>5. Results \subseteq 1..Len(out)
    BY <2>2 DEF Results
  <2>6. \A i \in DOMAIN out' : out'[i].msg = "_result" => i = last \/ i \in Results
    BY <2>2 DEF last, Results
  <2>7. Results' = Results \union {last}
    BY <2>2, <2>3, <2>4, <2>5, <2>6 DEF Results, Answer
  <2>8. out'[last].tid = n
    BY <2>3 DEF Answer
  <2> QED
    BY <2>2, <2>4, <2>5, <2>7, <2>8
<1>5. \A j \in Results : out[j].tid < n
  BY <1>1 DEF AnswersInv
<1>6. \A i \in 1..Len(inbox') : IsCommand(inbox'[i]) => n < Number(inbox'[i])
  <2>1. 1 \in 1..Len(inbox)
    BY <1>1
  <2>2. \A j \in 1..Len(inbox) : 1 < j /\ IsCommand(inbox[j]) => Number(inbox[1]) < Number(inbox[j])
    BY <1>1, <2>1 DEF InboxInv
  <2>3. \A i \in 1..Len(inbox') : i + 1 \in 1..Len(inbox) /\ 1 < i + 1
    BY <1>2
  <2> QED
    BY <1>1, <2>2, <2>3
<1> HIDE DEF n, last
<1>7. ASSUME NEW k \in Numbered(R)
      PROVE  k = n \/ Resulted(k) \/ \E i \in 1..Len(inbox') :
                                        IsCommand(inbox'[i]) /\ Number(inbox'[i]) = k
  <2>1. Pending(k) \/ Resulted(k)
    BY DEF AnswersInv, R
  <2>2. ASSUME Pending(k), k # n
        PROVE  \E i \in 1..Len(inbox') : IsCommand(inbox'[i]) /\ Number(inbox'[i]) = k
    <3>1. PICK i \in 1..Len(inbox) : IsCommand(inbox[i]) /\ Number(inbox[i]) = k
      BY <2>2 DEF Pending
    <3>2. i # 1
      BY <1>1, <2>2, <3>1 DEF n
    <3>3. i - 1 \in 1..Len(inbox') /\ (i - 1) + 1 = i
      BY <1>1, <3>1, <3>2
    <3>4. inbox'[i - 1] = inbox[i]
      BY <1>1, <3>3
    <3> QED
      BY <3>1, <3>3, <3>4
  <2> QED
    BY <2>1, <2>2
<1>8. ASSUME NEW k \in Numbered(R)'
      PROVE  (Pending(k) \/ Resulted(k))'
  BY <1>3, <1>4, <1>7 DEF Pending, Resulted
<1>9. ASSUME NEW j \in Results', NEW i \in 1..Len(inbox'), IsCommand(inbox[i])'
      PROVE  (out[j].tid < Number(inbox[i]))'
  <2>1. CASE j \in Results
    BY <1>1, <1>2, <1>4, <1>9, <2>1 DEF AnswersInv
  <2>2. CASE j = last
    BY <1>4, <1>6, <1>9, <2>2
  <2> QED
    BY <1>4, <2>1, <2>2
<1>10. ASSUME NEW i \in Results'
       PROVE  /\ out'[i].tid \in Numbered(R)
              /\ \A j \in Results' : i < j => out'[i].tid < out'[j].tid
              /\ \A k \in Numbered(R) : k < out'[i].tid => \E j \in Results' : out'[j].tid = k
  <2>0. n \in Numbered(R)
    BY DEF n
  <2>1. CASE i \in Results
    <3>1. /\ out[i].tid \in Numbered(R)
          /\ \A j \in Results : i < j => out[i].tid < out[j].tid
          /\ \A k \in Numbered(R) : k < out[i].tid => \E j \in Results : out[j].tid = k
      BY <2>1 DEF AnswersInv, AnswersMatch, R
    <3> QED
      BY <1>4, <1>5, <2>1, <3>1
  <2>2. CASE i = last
    <3>1. \A j \in Results' : ~(i < j)
      BY <1>4, <2>2
    <3>2. ASSUME NEW k \in Numbered(R), k < n
          PROVE  \E j \in Results' : out'[j].tid = k
      <4>1. k \in Int /\ n \in Int
        BY <1>3, <2>0
      <4>2. Resulted(k)
        <5>1. ASSUME NEW q \in 1..Len(inbox'), IsCommand(inbox'[q]), Number(inbox'[q]) = k
              PROVE  FALSE
          BY <1>6, <3>2, <4>1, <5>1
        <5> QED
          BY <1>7, <3>2, <4>1, <5>1
      <4> QED
        BY <1>4, <4>2 DEF Resulted
    <3> QED
      BY <1>4, <2>0, <2>2, <3>1, <3>2
  <2> QED
    BY <1>4, <2>1, <2>2
<1>11. AnswersMatch'
  BY <1>3, <1>10 DEF AnswersMatch, R
<1> QED
  BY <1>8, <1>9, <1>11 DEF AnswersInv, R

-----------------------------------------------------------------------------
(* The handshake, and what takes a message without an answer *)

\* Reply writes what is given, as nothing is left in the buffer.
LEMMA Replies ==
  ASSUME TypeInv, NEW msgs \in Seq(Answers), NEW next, Reply(msgs, next)
  PROVE  /\ buffer' = << >>
         /\ \/ phase' = next /\ out' = out \o msgs
            \/ ~open /\ phase' = "closed" /\ out' = out
<1>1. buffer = << >> /\ out \in Seq(Answers)
  BY DEF TypeInv
<1> HIDE DEF Answers
<1>2. out \o buffer = out
  BY <1>1, ConcatEmptySeq
<1> QED
  BY <1>1, <1>2 DEF Reply

LEMMA OnlyOne ==
  ASSUME TypeInv, PlaceInv, InboxInv, Take
  PROVE  /\ MessageOK(inbox[1]) /\ Head(inbox) = inbox[1] /\ 1 \in 1..Len(inbox)
         /\ IsSeq(inbox') /\ Len(inbox') = Len(inbox) - 1 /\ Len(inbox) \in Nat \ {0}
         /\ Len(inbox') <= Room
         /\ phase \in {"C0C1", "C2"} => Len(inbox) = 1
<1>1. /\ IsSeq(inbox) /\ inbox # << >> /\ inbox' = Tail(inbox) /\ Len(inbox) <= Room
      /\ Room \in Nat
  BY SessionAssumption DEF Take, TypeInv
<1>2. /\ IsSeq(inbox') /\ Len(inbox') = Len(inbox) - 1 /\ Len(inbox) \in Nat \ {0}
      /\ Head(inbox) = inbox[1]
  BY <1>1, Rest
<1>3. 1 \in 1..Len(inbox) /\ Len(inbox') <= Room
  BY <1>1, <1>2
<1>4. MessageOK(inbox[1])
  BY <1>3 DEF InboxInv
<1>5. phase \in {"C0C1", "C2"} => Len(inbox) = 1
  BY <1>2 DEF PlaceInv
<1> QED
  BY <1>2, <1>3, <1>4, <1>5

LEMMA AnAnswer == \A n \in Int, name \in AnswerNames : Answer(name, n) \in Answers
  BY DEF Answer, Answers

LEMMA ReadC0C1Inv == IInv /\ AuthInv' /\ ReadC0C1 => IInv'
<1> SUFFICES ASSUME IInv, AuthInv', ReadC0C1
             PROVE  IInv'
  OBVIOUS
<1>0. TypeInv /\ PlaceInv /\ InboxInv /\ AnswersInv /\ ClosedForCause
  BY DEF IInv
<1> DEFINE c1 == Head(inbox).wire[1]
           msgs == <<Answer("S0S1S2", 0)>>
<1>1. /\ phase = "C0C1" /\ Take
      /\ UNCHANGED <<deadline, open, asked, published, causes, playing, header>>
      /\ UNCHANGED <<decoder, ConnInfo, PublishInfo, isPublisher, transactionID, granted>>
      /\ IF c1.version # 0 /\ ~hsParse1(c1) THEN Close ELSE Reply(msgs, "C2")
  BY DEF ReadC0C1, server, player, client
<1>2. /\ MessageOK(inbox[1]) /\ Head(inbox) = inbox[1]
      /\ IsSeq(inbox') /\ Len(inbox') = Len(inbox) - 1 /\ Len(inbox) = 1
  BY <1>0, <1>1, OnlyOne
<1>3. inbox[1].type = "C0C1"
  BY <1>1, <1>2 DEF MessageOK, IsMedia, Established
<1>4. c1.version = 0 \/ hsParse1(c1) \/ causes # {}
  BY <1>2, <1>3 DEF MessageOK
<1>5. msgs \in Seq(Answers) /\ Len(msgs) = 1 /\ msgs[1].msg = "S0S1S2"
  <2>1. Answer("S0S1S2", 0) \in Answers
    BY AnAnswer DEF AnswerNames
  <2>2. Answer("S0S1S2", 0).msg = "S0S1S2"
    BY DEF Answer
  <2> HIDE DEF Answers
  <2> QED
    BY <2>1, <2>2
<1> HIDE DEF c1, msgs
<1>6. /\ buffer' = << >>
      /\ \/ phase' = "C2" /\ out' = out \o msgs
         \/ (causes # {} \/ ~open) /\ phase' = "closed" /\ out' = out
  <2>1. CASE c1.version # 0 /\ ~hsParse1(c1)
    BY <1>0, <1>1, <1>4, <2>1 DEF Close, TypeInv
  <2>2. CASE ~(c1.version # 0 /\ ~hsParse1(c1))
    BY <1>0, <1>1, <1>5, <2>2, Replies
  <2> QED
    BY <2>1, <2>2
<1>7. /\ out' \in Seq(Answers) /\ Results' = Results /\ \A j \in Results : out'[j] = out[j]
      /\ ~Got("NetStream.Publish.Start")'
  <2>1. out \in Seq(Answers) /\ ~Got("NetStream.Publish.Start")
    BY <1>0, <1>1 DEF TypeInv, PlaceInv
  <2> HIDE DEF Answers
  <2>2. CASE out' = out \o msgs
    <3>1. \A k \in 1..Len(msgs) : msgs[k].msg # "_result" /\ msgs[k].msg # "NetStream.Publish.Start"
      BY <1>5
    <3>2. Results' = Results /\ \A j \in Results : out'[j] = out[j]
      BY <1>5, <2>1, <2>2, <3>1, NoResults
    <3>3. ~Got("NetStream.Publish.Start")'
      BY <1>5, <2>1, <2>2, <3>1, NoStart
    <3>4. out' \in Seq(Answers)
      BY <1>5, <2>1, <2>2, OutGrown
    <3> QED
      BY <3>2, <3>3, <3>4
  <2>3. CASE out' = out
    BY <2>1, <2>3 DEF Results, Got
  <2> QED
    BY <1>6, <2>2, <2>3
<1>8. TypeInv'
  <2>1. Len(inbox') <= Room
    BY <1>0, <1>1, OnlyOne
  <2> QED
    BY <1>0, <1>1, <1>2, <1>6, <1>7, <2>1 DEF TypeInv
<1>9. PlaceInv'
  BY <1>0, <1>1, <1>2, <1>6, <1>7 DEF PlaceInv, Established
<1>10. InboxInv'
  <2>1. decoder = NewTables \/ "checkBandwidth" \in Range(asked)
    BY <1>0 DEF InboxInv
  <2> QED
    BY <1>0, <1>1, <1>2, <2>1, InboxTake
<1>11. AnswersInv'
  BY <1>0, <1>1, <1>6, <1>7, AnswersTake
<1>12. ClosedForCause'
  BY <1>1, <1>6 DEF ClosedForCause, Over
<1> QED
  BY <1>8, <1>9, <1>10, <1>11, <1>12 DEF IInv

LEMMA ReadC2Inv == IInv /\ AuthInv' /\ ReadC2 => IInv'
<1> SUFFICES ASSUME IInv, AuthInv', ReadC2
             PROVE  IInv'
  OBVIOUS
<1>0. TypeInv /\ PlaceInv /\ InboxInv /\ AnswersInv /\ ClosedForCause
  BY DEF IInv
<1> DEFINE c2 == Head(inbox).wire[1]
<1>1. /\ phase = "C2" /\ Take
      /\ UNCHANGED <<buffer, out, open, asked, published, causes, playing, header>>
      /\ UNCHANGED <<decoder, ConnInfo, PublishInfo, isPublisher, transactionID, granted>>
      /\ IF c2.time /\ c2.random
         THEN phase' = "commands" /\ deadline' = FALSE
         ELSE phase' = "closed" /\ deadline' = deadline
  BY DEF ReadC2, server, player, client
<1>2. /\ MessageOK(inbox[1]) /\ Head(inbox) = inbox[1]
      /\ IsSeq(inbox') /\ Len(inbox') = Len(inbox) - 1 /\ Len(inbox) = 1
  BY <1>0, <1>1, OnlyOne
<1>3. inbox[1].type = "C2"
  BY <1>1, <1>2 DEF MessageOK, IsMedia, Established
<1>4. (c2.time /\ c2.random) \/ causes # {}
  BY <1>2, <1>3 DEF MessageOK
<1> HIDE DEF c2
<1>5. asked = << >> /\ Results' = Results /\ (\A j \in Results : out'[j] = out[j])
        /\ published = << >> /\ ~Got("NetStream.Publish.Start")'
  BY <1>0, <1>1 DEF PlaceInv, Results, Got
<1>8. TypeInv'
  <2>1. Len(inbox') <= Room
    BY <1>0, <1>1, OnlyOne
  <2> QED
    BY <1>0, <1>1, <1>2, <2>1 DEF TypeInv
<1>9. PlaceInv'
  BY <1>0, <1>1, <1>5 DEF PlaceInv, Established
<1>10. InboxInv'
  <2>1. decoder = NewTables \/ "checkBandwidth" \in Range(asked)
    BY <1>0 DEF InboxInv
  <2> QED
    BY <1>0, <1>1, <1>2, <2>1, InboxTake
<1>11. AnswersInv'
  BY <1>0, <1>1, <1>5, AnswersTake
<1>12. ClosedForCause'
  BY <1>1, <1>4 DEF ClosedForCause, Over
<1> QED
  BY <1>8, <1>9, <1>10, <1>11, <1>12 DEF IInv

\* Reading ends with nothing more on its way.
LEMMA Closes == IInv /\ AuthInv' /\ (ReadFails \/ TimeOut) => IInv'
<1> SUFFICES ASSUME IInv, AuthInv', ReadFails \/ TimeOut
             PROVE  IInv'
  OBVIOUS
<1>1. /\ inbox = << >> /\ phase \notin {"stopped", "closed"} /\ phase' \in {"stopped", "closed"}
      /\ phase # "publishing" => phase' = "closed"
      /\ playing' \in BOOLEAN
      /\ UNCHANGED <<deadline, inbox, buffer, out, open, asked, published, header>>
      /\ UNCHANGED <<decoder, ConnInfo, PublishInfo, isPublisher, transactionID, granted>>
  BY DEF ReadFails, TimeOut, Lost, Over, server, client
<1>2. causes' \subseteq Causes /\ (causes' # {} \/ ~open)
  <2>1. CASE ReadFails
    BY <2>1 DEF ReadFails, client, IInv, TypeInv
  <2>2. CASE TimeOut
    <3>1. deadline /\ causes' = causes \union If(phase \in {"C0C1", "C2"}, "slow")
      BY <2>2 DEF TimeOut
    <3>2. phase \in {"C0C1", "C2"}
      BY <1>1, <3>1 DEF IInv, TypeInv, PlaceInv, Established
    <3>3. "slow" \in Causes
      BY DEF Causes
    <3> QED
      BY <3>1, <3>2, <3>3, CauseKept
  <2> QED
    BY <2>1, <2>2
<1>3. TypeInv'
  BY <1>1, <1>2 DEF IInv, TypeInv
<1>4. PlaceInv'
  BY <1>1 DEF PlaceInv, Established
<1>5. InboxInv'
  BY <1>1 DEF IInv, InboxInv
<1>6. AnswersInv'
  BY <1>1 DEF IInv, AnswersInv, Results, Numbered, AnswersMatch
<1>7. ClosedForCause'
  BY <1>1, <1>2 DEF ClosedForCause, Over
<1> QED
  BY <1>3, <1>4, <1>5, <1>6, <1>7 DEF IInv

\* The connection is closed from outside.
LEMMA SessionEndsInv == IInv /\ AuthInv' /\ SessionEnds => IInv'
<1> SUFFICES ASSUME IInv, AuthInv', SessionEnds
             PROVE  IInv'
  OBVIOUS
<1>1. /\ phase' = "closed" /\ playing' = FALSE /\ causes' = causes \union {"over"}
      /\ UNCHANGED <<deadline, inbox, buffer, out, open, asked, published, header>>
      /\ UNCHANGED <<decoder, ConnInfo, PublishInfo, isPublisher, transactionID, granted>>
  BY DEF SessionEnds, server, client
<1>2. causes' \subseteq Causes /\ causes' # {}
  BY <1>1 DEF IInv, TypeInv, Causes
<1>3. TypeInv' /\ PlaceInv' /\ ClosedForCause'
  BY <1>1, <1>2 DEF IInv, TypeInv, PlaceInv, ClosedForCause, Over, Established
<1>4. InboxInv'
  BY <1>1, <1>2 DEF IInv, InboxInv, MessageOK, CommandOK, MediumOK
<1>5. AnswersInv'
  BY <1>1 DEF IInv, AnswersInv, Results, Numbered, AnswersMatch
<1> QED
  BY <1>3, <1>4, <1>5 DEF IInv

LEMMA SkipInv == IInv /\ AuthInv' /\ (SkipMsg \/ Check) => IInv'
<1> SUFFICES ASSUME IInv, AuthInv', SkipMsg \/ Check
             PROVE  IInv'
  OBVIOUS
<1>0. TypeInv /\ PlaceInv /\ InboxInv /\ AnswersInv /\ ClosedForCause
  BY DEF IInv
<1>1. /\ Take /\ phase \in {"commands", "playing"}
      /\ phase = "commands" => ~IsCommand(Head(inbox))
      /\ UNCHANGED <<phase, deadline, buffer, out, open, asked, published, causes, playing, header>>
      /\ UNCHANGED <<decoder, ConnInfo, PublishInfo, isPublisher, transactionID, granted>>
  BY DEF SkipMsg, Check, server, player, client
<1>2. IsSeq(inbox') /\ Len(inbox') = Len(inbox) - 1 /\ Len(inbox) \in Nat
  BY <1>0, <1>1, OnlyOne
<1>3. Results' = Results /\ (\A j \in Results : out'[j] = out[j])
        /\ (Got("NetStream.Publish.Start")' <=> Got("NetStream.Publish.Start"))
  BY <1>1 DEF Results, Got
<1>8. TypeInv'
  <2>1. Len(inbox') <= Room
    BY <1>0, <1>1, OnlyOne
  <2> QED
    BY <1>0, <1>1, <1>2, <2>1 DEF TypeInv
<1>9. PlaceInv'
  BY <1>0, <1>1, <1>3 DEF PlaceInv, Established
<1>10. InboxInv'
  <2>1. decoder = NewTables \/ "checkBandwidth" \in Range(asked)
    BY <1>0 DEF InboxInv
  <2> QED
    BY <1>0, <1>1, <2>1, InboxTake
<1>11. AnswersInv'
  BY <1>0, <1>1, <1>3, AnswersTake
<1>12. ClosedForCause'
  BY <1>0, <1>1 DEF ClosedForCause, Over
<1> QED
  BY <1>8, <1>9, <1>10, <1>11, <1>12 DEF IInv

-----------------------------------------------------------------------------
(* What a publisher sends *)

LEMMA FiveBytes ==
  ASSUME NEW a, NEW b, NEW c, NEW d, NEW e
  PROVE  Len(Byte(a) \o Byte(b) \o Byte(c) \o Byte(d) \o Byte(e)) = 5
<1> DEFINE S == {Byte(a)[1], Byte(b)[1], Byte(c)[1], Byte(d)[1], Byte(e)[1]}
<1>1. /\ Byte(a) \in Seq(S) /\ Byte(b) \in Seq(S) /\ Byte(c) \in Seq(S) /\ Byte(d) \in Seq(S)
      /\ Byte(e) \in Seq(S)
      /\ Len(Byte(a)) = 1 /\ Len(Byte(b)) = 1 /\ Len(Byte(c)) = 1 /\ Len(Byte(d)) = 1
      /\ Len(Byte(e)) = 1
  BY DEF Byte
<1> HIDE DEF S
<1>2. Byte(a) \o Byte(b) \in Seq(S) /\ Len(Byte(a) \o Byte(b)) = 2
  BY <1>1, ConcatProperties
<1>3. Byte(a) \o Byte(b) \o Byte(c) \in Seq(S) /\ Len(Byte(a) \o Byte(b) \o Byte(c)) = 3
  BY <1>1, <1>2, ConcatProperties
<1>4. /\ Byte(a) \o Byte(b) \o Byte(c) \o Byte(d) \in Seq(S)
      /\ Len(Byte(a) \o Byte(b) \o Byte(c) \o Byte(d)) = 4
  BY <1>1, <1>3, ConcatProperties
<1> QED
  BY <1>1, <1>4, ConcatProperties

LEMMA TwoBytes ==
  ASSUME NEW a, NEW b
  PROVE  Byte(a) \o Byte(b) # << >>
<1> DEFINE S == {Byte(a)[1], Byte(b)[1]}
<1>1. Byte(a) \in Seq(S) /\ Byte(b) \in Seq(S) /\ Len(Byte(a)) = 1 /\ Len(Byte(b)) = 1
  BY DEF Byte
<1> HIDE DEF S
<1>2. Len(Byte(a) \o Byte(b)) = Len(Byte(a)) + Len(Byte(b))
  BY <1>1, ConcatProperties
<1>3. Len(Byte(a) \o Byte(b)) = 2
  BY <1>1, <1>2
<1> HIDE DEF Byte
<1> QED
  BY <1>3

\* Only what has no picture to show is too short for a header.
LEMMA MediaHeaders ==
  ASSUME NEW x \in Media
  PROVE  \/ x.body = << >>
         \/ x.wire # << >> /\ (x.type = "video" => Len(x.wire) = 5)
<1> USE DEF Medium
<1>1. ASSUME NEW frame, NEW packet
      PROVE  Len(Video(frame, packet)) = 5 /\ Video(frame, packet) # << >>
  <2>1. Len(Video(frame, packet)) = 5
    BY FiveBytes DEF Video
  <2> HIDE DEF Video
  <2> QED
    BY <2>1
<1>2. \A p : Audio(p) # << >>
  BY TwoBytes DEF Audio
<1>3. Byte((16 * 10) + 15) # << >>
  BY DEF Byte
<1>4. << >> \notin {MetaData, Reform(MetaData, "ADD").w, Byte(0) \o Reform(MetaData, "ADD").w}
  BY ReformAssumption
<1> DEFINE data == {Medium("data0", Reform(MetaData, "ADD").w, "header", MetaData),
                    Medium("data0", MetaData, "header", MetaData),
                    Medium("data3", Byte(0) \o Reform(MetaData, "ADD").w, "header", MetaData)}
<1>5. CASE x.type = "video"
  BY <1>1, <1>5 DEF Media
<1>6. CASE x.type = "audio"
  BY <1>2, <1>3, <1>6 DEF Media
<1>7. CASE x.type \notin {"video", "audio"}
  BY <1>4, <1>7 DEF Media
<1> QED
  BY <1>5, <1>6, <1>7

LEMMA HasHeader ==
  ASSUME NEW m, IsMedia(m), m.wire # << >>, m.type = "video" => Len(m.wire) = 5
  PROVE  DemuxH(m) # ""
<1>1. CASE m.type = "video"
  <2> DEFINE w == m.wire
             frameType == At0(w, 1) \div 16
             packetType == IF frameType \in {1, 2} THEN At0(w, 2) ELSE 0
  <2>1. Len(w) = 5
    BY <1>1
  <2>2. Len(w) >= 5 /\ ~(Len(w) < 5)
    BY <2>1
  <2>3. VideoKind(w) = CASE Len(w) < 5 -> ""
                         [] Len(w) >= 5 /\ frameType = 1 /\ packetType = 0 -> "header"
                         [] Len(w) >= 5 /\ frameType = 1 /\ packetType # 0 -> "key"
                         [] Len(w) >= 5 /\ frameType # 1 -> "frame"
    BY DEF VideoKind
  <2> HIDE DEF w, frameType, packetType
  <2>4. VideoKind(w) # ""
    BY <2>2, <2>3
  <2>5. VideoKind(m.wire) # ""
    BY <2>4 DEF w
  <2> QED
    BY <1>1, <2>5 DEF DemuxH
<1>2. CASE m.type = "audio"
  <2>1. AudioKind(m.wire) # ""
    BY DEF AudioKind
  <2> QED
    BY <1>2, <2>1 DEF DemuxH
<1>3. CASE m.type \notin {"video", "audio"}
  BY <1>3 DEF DemuxH
<1> QED
  BY <1>1, <1>2, <1>3

LEMMA ReadPacketInv == IInv /\ AuthInv' /\ ReadPacket => IInv'
<1> SUFFICES ASSUME IInv, AuthInv', ReadPacket
             PROVE  IInv'
  OBVIOUS
<1>0. TypeInv /\ PlaceInv /\ InboxInv /\ AnswersInv /\ ClosedForCause
  BY DEF IInv
<1> DEFINE m == Head(inbox)
<1>1. /\ phase = "publishing" /\ Take
      /\ UNCHANGED <<deadline, buffer, out, open, asked, published, causes>>
      /\ UNCHANGED <<decoder, ConnInfo, PublishInfo, isPublisher, transactionID, granted>>
      /\ IF ~IsMedia(m) THEN UNCHANGED <<phase, player>>
         ELSE IF DemuxH(m) = "" THEN Lost /\ UNCHANGED header
         ELSE WriteToPlayer(Packet(m)) /\ header' = HeaderAfter(m) /\ UNCHANGED phase
  BY DEF ReadPacket, server, client
<1>2. /\ MessageOK(inbox[1]) /\ m = inbox[1]
      /\ IsSeq(inbox') /\ Len(inbox') = Len(inbox) - 1 /\ Len(inbox) \in Nat
      /\ Len(inbox') <= Room
  BY <1>0, <1>1, OnlyOne
<1>3. ASSUME IsMedia(m), DemuxH(m) = ""
      PROVE  causes # {}
  <2>1. PICK n \in DOMAIN published : m.type = published[n].type /\ m.wire = published[n].wire
                                        /\ (published[n].body = << >> => causes # {})
    BY <1>2, <1>3 DEF MessageOK, MediumOK
  <2>3. published \in Seq(Media)
    BY <1>0 DEF TypeInv
  <2>2. published[n] \in Media
    BY <2>3
  <2> HIDE DEF m
  <2> QED
    BY <1>3, <2>1, <2>2, MediaHeaders, HasHeader
<1> HIDE DEF m
<1>4. phase' \in {"publishing", "stopped"} /\ (phase' = "stopped" => causes # {})
  BY <1>1, <1>3 DEF Lost
<1>5. playing' \in BOOLEAN /\ header' \in {"none", "aac", "other"}
  <2>1. playing \in BOOLEAN /\ header \in {"none", "aac", "other"}
    BY <1>0 DEF TypeInv
  <2>2. HeaderAfter(m) \in {"none", "aac", "other"}
    BY <2>1 DEF HeaderAfter
  <2> QED
    BY <1>1, <2>1, <2>2 DEF WriteToPlayer, player, Lost
<1>6. Results' = Results /\ \A j \in Results : out'[j] = out[j]
  BY <1>1 DEF Results
<1>8. TypeInv'
  BY <1>0, <1>1, <1>2, <1>4, <1>5 DEF TypeInv
<1>9. PlaceInv'
  BY <1>0, <1>1, <1>4 DEF PlaceInv, Established
<1>10. InboxInv'
  <2>1. decoder = NewTables \/ "checkBandwidth" \in Range(asked)
    BY <1>0 DEF InboxInv
  <2> QED
    BY <1>0, <1>1, <1>4, <2>1, InboxTake
<1>11. AnswersInv'
  BY <1>0, <1>1, <1>4, <1>6, AnswersTake
<1>12. ClosedForCause'
  BY <1>0, <1>1, <1>4 DEF ClosedForCause, Over
<1> QED
  BY <1>8, <1>9, <1>10, <1>11, <1>12 DEF IInv

-----------------------------------------------------------------------------
(* The commands *)

LEMMA Spelt == \A x : Str(x).str = x
  BY DEF Str

\* What the server hears is what the client has asked for, and under which number.
LEMMA Understood ==
  ASSUME IInv, CommandsHeard', Take, NEW m, m = Head(inbox), IsCommand(m), NEW b, NEW fresh,
         fresh = (decoder = NewTables),
         heard' = [means |-> m.means, v |-> b.v, e |-> b.e, kind |-> m.kind, fresh |-> fresh]
  PROVE  /\ CommandOK(m)
         /\ b.e # "EOF" => causes # {}
         /\ b.e = "EOF" => b.v[1] = m.means[1]
         /\ \/ IsOther(m)
            \/ Requested(m.means, Number(m)) /\ b.v = m.means
         /\ decoder' = NewTables \/ "checkBandwidth" \in Range(asked)
<1>0. TypeInv /\ PlaceInv /\ InboxInv
  BY DEF IInv
<1>1. MessageOK(inbox[1]) /\ m = inbox[1] /\ 1 \in 1..Len(inbox)
  BY <1>0, OnlyOne
<1>2. CommandOK(m)
  BY <1>1 DEF MessageOK
<1>3. m.kind \in {"refers", "elsewhere"} => causes # {} \/ fresh
  BY <1>0, <1>1 DEF InboxInv, References
<1>4. /\ heard'.means = m.means /\ heard'.v = b.v /\ heard'.e = b.e /\ heard'.kind = m.kind
      /\ heard'.fresh = fresh
  OBVIOUS
<1>5. m.means # << >>
  BY <1>2 DEF CommandOK
<1>6. heard' # Nothing
  BY <1>4, <1>5 DEF Nothing
<1>7. /\ m.kind = "plain" \/ (m.kind = "refers" /\ fresh) => b.e = "EOF" /\ b.v = m.means
      /\ m.kind = "misread" \/ (m.kind = "elsewhere" /\ fresh) => b.e = "EOF"
      /\ b.e = "EOF" => b.v[1] = m.means[1]
      /\ fresh /\ m.means[1] # Str("checkBandwidth") => decoder' = NewTables
  BY <1>4, <1>6 DEF CommandsHeard
<1>8. m.kind \in ArgKinds
  BY <1>2 DEF CommandOK, ArgKinds
<1>9. b.e # "EOF" => causes # {}
  BY <1>2, <1>3, <1>7, <1>8 DEF CommandOK, ArgKinds
<1>10. \/ IsOther(m)
       \/ Requested(m.means, Number(m)) /\ b.v = m.means
  BY <1>2, <1>7 DEF CommandOK
<1>11. decoder' = NewTables \/ "checkBandwidth" \in Range(asked)
  <2>1. CASE ~fresh
    BY <1>0, <2>1 DEF InboxInv
  <2>2. CASE m.means[1] = Str("checkBandwidth")
    <3>1. Number(m) \in DOMAIN asked /\ asked[Number(m)] = "checkBandwidth"
      BY <1>2, <2>2, Spelt DEF CommandOK
    <3> QED
      BY <3>1 DEF Range
  <2> QED
    BY <1>7, <2>1, <2>2
<1> QED
  BY <1>2, <1>7, <1>9, <1>10, <1>11

\* Which request has which name.
LEMMA RequestOf ==
  ASSUME NEW means, NEW n, Requested(means, n) \/ means[1] = Str("checkBandwidth")
  PROVE  /\ means[1].str = "connect" => Connects(means, n)
         /\ means[1].str = "createStream" => Creates(means, n)
         /\ means[1].str = "publish" => Publishes(means, n)
         /\ means[1].str = "play" => Plays(means, n)
<1>1. CASE means[1] = Str("checkBandwidth")
  BY <1>1 DEF Str
<1>2. CASE Connects(means, n)
  BY <1>2 DEF Connects, Str
<1>3. CASE Creates(means, n)
  BY <1>3 DEF Creates, Str
<1>4. CASE Releases(means, n)
  BY <1>4 DEF Releases, Str
<1>5. CASE Publishes(means, n)
  BY <1>5 DEF Publishes, Str
<1>6. CASE Plays(means, n)
  BY <1>6 DEF Plays, Str
<1> QED
  BY <1>1, <1>2, <1>3, <1>4, <1>5, <1>6 DEF Requested

\* What all answers to commands have in common.
LEMMA CommandStep ==
  ASSUME IInv, AuthInv', phase = "commands", Take,
         UNCHANGED <<deadline, open, asked, published, playing, header>>,
         decoder' = NewTables \/ "checkBandwidth" \in Range(asked),
         causes' \subseteq Causes, causes # {} => causes' # {},
         buffer' = << >>, out' \in Seq(Answers), transactionID' \in Int, isPublisher' \in BOOLEAN,
         ConnInfo'.app \in Apps \union {""}, PublishInfo'.name \in StreamNames \union {""},
         granted' \in ({"vods", "local"} \X StreamNames) \union {Nobody},
         phase' \in {"commands", "publishing", "playing", "closed"},
         phase' = "closed" => causes' # {} \/ ~open,
         phase' \notin {"publishing", "closed"} => ~Got("NetStream.Publish.Start")',
         AnswersInv'
  PROVE  IInv'
<1>0. TypeInv /\ PlaceInv /\ InboxInv /\ AnswersInv /\ ClosedForCause
  BY DEF IInv
<1>1. IsSeq(inbox') /\ Len(inbox') <= Room
  BY <1>0, OnlyOne
<1>2. TypeInv'
  BY <1>0, <1>1 DEF TypeInv
<1>3. PlaceInv'
  BY <1>0 DEF PlaceInv, Established
<1>4. InboxInv'
  BY <1>0, InboxTake DEF Established
<1>5. ClosedForCause'
  BY DEF ClosedForCause, Over
<1> QED
  BY <1>2, <1>3, <1>4, <1>5 DEF IInv

\* A command that asks for no result, or ends the connection, leaves no result behind.
LEMMA Unanswered ==
  ASSUME IInv, Take, asked' = asked, phase = "commands",
         NEW m, m = Head(inbox), CommandOK(m), m.means[1].str \notin R \/ phase' # "commands",
         Results' = Results, \A j \in Results : out'[j] = out[j]
  PROVE  AnswersInv'
<1>1. m.means[1].str \notin R => Number(m) \notin Numbered(R)
  BY Spelt DEF CommandOK, Numbered
<1> QED
  BY <1>1, AnswersTake DEF IInv

LEMMA DecodeFailsInv ==
  ASSUME IInv, AuthInv', phase = "commands", Take,
         UNCHANGED <<deadline, open, asked, published, playing, header>>,
         NEW m, m = Head(inbox), CommandOK(m),
         decoder' = NewTables \/ "checkBandwidth" \in Range(asked),
         NEW b, b.e # "EOF" => causes # {}, DecodeFails(b)
  PROVE  IInv'
<1>1. /\ phase' = "closed" /\ UNCHANGED <<out, buffer, causes>> /\ causes # {}
      /\ UNCHANGED <<ConnInfo, PublishInfo, isPublisher, transactionID, granted>>
  BY DEF DecodeFails, Close, server
<1>2. Results' = Results /\ \A j \in Results : out'[j] = out[j]
  BY <1>1 DEF Results
<1>3. AnswersInv'
  BY <1>1, <1>2, Unanswered
<1> QED
  BY <1>1, <1>3, CommandStep DEF IInv, TypeInv

LEMMA OtherInv ==
  ASSUME IInv, AuthInv', phase = "commands", Take,
         UNCHANGED <<deadline, open, asked, published, playing, header>>,
         NEW m, m = Head(inbox), CommandOK(m),
         decoder' = NewTables \/ "checkBandwidth" \in Range(asked),
         NEW b, b.e = "EOF" => b.v[1] = m.means[1], HandleOther(b)
  PROVE  IInv'
<1>1. /\ UNCHANGED <<phase, buffer, out, causes>> /\ m.means[1].str \notin R
      /\ UNCHANGED <<ConnInfo, PublishInfo, isPublisher, transactionID, granted>>
  BY DEF HandleOther, Hear, R
<1>2. Results' = Results /\ (\A j \in Results : out'[j] = out[j])
        /\ ~Got("NetStream.Publish.Start")'
  BY <1>1 DEF Results, Got, IInv, PlaceInv
<1>3. AnswersInv'
  BY <1>1, <1>2, Unanswered
<1> QED
  BY <1>1, <1>2, <1>3, CommandStep DEF IInv, TypeInv

\* The number of a connect or of a createStream, and the application.
LEMMA ConnectArgs ==
  ASSUME NEW n \in Int, NEW app
  PROVE  LET vs == <<Num(n), App(app)>>
         IN  Numbers(vs) = {1} /\ LastNumber(vs) = n /\ App_(vs) = app
<1> DEFINE vs == <<Num(n), App(app)>>
           objs == {i \in DOMAIN vs : Is(vs[i], "obj") /\ ~Is(vs[i], "typed")
                                        /\ "app" \in DOMAIN vs[i].obj}
<1>1. DOMAIN vs = {1, 2} /\ vs[1] = Num(n) /\ vs[2] = App(app)
  OBVIOUS
<1>2. Is(Num(n), "num") /\ ~Is(App(app), "num") /\ ~Is(Num(n), "obj")
  BY DEF Is, Num, App, Obj
<1>3. Is(App(app), "obj") /\ ~Is(App(app), "typed") /\ "app" \in DOMAIN App(app).obj
        /\ App(app).obj.app.str = app
  BY DEF Is, App, Obj, Str
<1> HIDE DEF vs
<1>4. Numbers(vs) = {1} /\ objs = {2}
  BY <1>1, <1>2, <1>3 DEF Numbers
<1>5. Max({1}) = 1 /\ Max({2}) = 2
  BY DEF Max
<1>6. LastNumber(vs) = n
  BY <1>1, <1>4, <1>5 DEF LastNumber, Num
<1>7. App_(vs) = app
  BY <1>1, <1>3, <1>4, <1>5 DEF App_
<1> QED
  BY <1>4, <1>6, <1>7 DEF vs

LEMMA CreateArgs ==
  ASSUME NEW n \in Int
  PROVE  LastNumber(<<Num(n), Nil>>) = n
<1> DEFINE vs == <<Num(n), Nil>>
<1>1. DOMAIN vs = {1, 2} /\ vs[1] = Num(n) /\ vs[2] = Nil
  OBVIOUS
<1>2. Is(Num(n), "num") /\ ~Is(Nil, "num")
  BY DEF Is, Num, Nil
<1> HIDE DEF vs
<1>3. Numbers(vs) = {1}
  BY <1>1, <1>2 DEF Numbers
<1>4. Max({1}) = 1
  BY DEF Max
<1>5. LastNumber(vs) = n
  BY <1>1, <1>3, <1>4 DEF LastNumber, Num
<1> QED
  BY <1>5 DEF vs

\* A result is sent under the number of the command.
LEMMA Resulting ==
  ASSUME IInv, Take, asked' = asked, phase = "commands",
         NEW m, m = Head(inbox), IsCommand(m), CommandOK(m), m.means[1].str \in R,
         NEW msgs \in Seq(Answers), Reply(msgs, "commands"),
         NEW l \in 1..Len(msgs), msgs[l] = Answer("_result", Number(m)),
         \A k \in 1..Len(msgs) : msgs[k].msg = "_result" => k = l,
         \A k \in 1..Len(msgs) : msgs[k].msg # "NetStream.Publish.Start"
  PROVE  /\ buffer' = << >> /\ out' \in Seq(Answers) /\ phase' \in {"commands", "closed"}
         /\ phase' = "closed" => ~open
         /\ ~Got("NetStream.Publish.Start")'
         /\ AnswersInv'
<1>0. TypeInv /\ InboxInv /\ AnswersInv /\ out \in Seq(Answers) /\ ~Got("NetStream.Publish.Start")
  BY DEF IInv, TypeInv, PlaceInv
<1>1. /\ buffer' = << >>
      /\ \/ phase' = "commands" /\ out' = out \o msgs
         \/ ~open /\ phase' = "closed" /\ out' = out
  BY <1>0, Replies
<1>2. Number(m) \in Numbered(R)
  BY Spelt DEF CommandOK, Numbered
<1> HIDE DEF Answers
<1>3. CASE phase' = "commands" /\ out' = out \o msgs
  <2>1. AnswersInv'
    BY <1>0, <1>2, <1>3, AnswersResult
  <2>2. ~Got("NetStream.Publish.Start")'
    BY <1>0, <1>3, NoStart
  <2>3. out' \in Seq(Answers)
    BY <1>0, <1>3, OutGrown
  <2> QED
    BY <1>1, <1>3, <2>1, <2>2, <2>3
<1>4. CASE ~open /\ phase' = "closed" /\ out' = out
  <2>1. Results' = Results /\ (\A j \in Results : out'[j] = out[j])
          /\ ~Got("NetStream.Publish.Start")'
    BY <1>0, <1>4 DEF Results, Got
  <2>2. AnswersInv'
    BY <1>4, <2>1, Unanswered
  <2> QED
    BY <1>0, <1>1, <1>4, <2>1, <2>2
<1> QED
  BY <1>1, <1>3, <1>4

\* Status messages are sent and a stream begins.
LEMMA Beginning ==
  ASSUME IInv, Take, asked' = asked, phase = "commands",
         NEW m, m = Head(inbox), CommandOK(m),
         NEW msgs \in Seq(Answers), NEW next, Reply(msgs, next), next # "commands",
         \A k \in 1..Len(msgs) : msgs[k].msg # "_result"
  PROVE  /\ buffer' = << >> /\ out' \in Seq(Answers) /\ phase' \in {next, "closed"}
         /\ phase' = "closed" => ~open \/ next = "closed"
         /\ (\A k \in 1..Len(msgs) : msgs[k].msg # "NetStream.Publish.Start") =>
              ~Got("NetStream.Publish.Start")'
         /\ AnswersInv'
<1>0. TypeInv /\ out \in Seq(Answers) /\ ~Got("NetStream.Publish.Start")
  BY DEF IInv, TypeInv, PlaceInv
<1>1. /\ buffer' = << >>
      /\ \/ phase' = next /\ out' = out \o msgs
         \/ ~open /\ phase' = "closed" /\ out' = out
  BY <1>0, Replies
<1> HIDE DEF Answers
<1>2. /\ out' \in Seq(Answers) /\ Results' = Results /\ \A j \in Results : out'[j] = out[j]
      /\ (\A k \in 1..Len(msgs) : msgs[k].msg # "NetStream.Publish.Start") =>
           ~Got("NetStream.Publish.Start")'
  <2>1. CASE out' = out \o msgs
    <3>1. Results' = Results /\ \A j \in Results : out'[j] = out[j]
      BY <1>0, <2>1, NoResults
    <3>2. out' \in Seq(Answers)
      BY <1>0, <2>1, OutGrown
    <3> QED
      BY <1>0, <2>1, <3>1, <3>2, NoStart
  <2>2. CASE out' = out
    BY <1>0, <2>2 DEF Results, Got
  <2> QED
    BY <1>1, <2>1, <2>2
<1>3. phase' # "commands"
  BY <1>1
<1>4. AnswersInv'
  BY <1>2, <1>3, Unanswered
<1> QED
  BY <1>1, <1>2, <1>4

LEMMA HandleConnectInv ==
  ASSUME IInv, AuthInv', phase = "commands", Take,
         UNCHANGED <<deadline, open, asked, published, playing, header>>,
         NEW m, m = Head(inbox), IsCommand(m), CommandOK(m),
         decoder' = NewTables \/ "checkBandwidth" \in Range(asked),
         NEW b, b.e = "EOF" => b.v[1] = m.means[1],
         IsOther(m) \/ (Requested(m.means, Number(m)) /\ b.v = m.means),
         HandleConnect(b)
  PROVE  IInv'
<1>1. PICK n : n = Number(m)
  OBVIOUS
<1>2. m.means[1].str = "connect" /\ b.v = m.means /\ Connects(m.means, n)
  <2>1. m.means[1].str = "connect"
    BY DEF HandleConnect, Hear
  <2>2. ~IsOther(m)
    BY <2>1, Spelt DEF IsOther
  <2> QED
    BY <1>1, <2>1, <2>2, RequestOf
<1>3. PICK app \in Apps : b.v = <<Str("connect"), Num(n), App(app)>>
  BY <1>2 DEF Connects
<1>4. n \in Int /\ n \in DOMAIN asked
  <2>1. DOMAIN asked = 1..Len(asked)
    BY LenProperties DEF IInv, TypeInv
  <2> QED
    BY <1>1, <2>1 DEF CommandOK
<1> DEFINE vs == <<Num(n), App(app)>>
<1>5. Tail(b.v) = vs
  BY <1>3
<1>6. Numbers(vs) = {1} /\ LastNumber(vs) = n /\ App_(vs) = app /\ vs[1].num = n
  <2>1. vs[1].num = n
    BY DEF Num
  <2> QED
    BY <1>4, <2>1, ConnectArgs
<1> HIDE DEF vs
<1>7. /\ UNCHANGED <<PublishInfo, isPublisher, granted, causes>>
      /\ IF n # 1 THEN Close /\ UNCHANGED <<ConnInfo, transactionID>>
         ELSE transactionID' = n /\ ConnInfo' = [app |-> app] /\ connectResp(n)
  BY <1>5, <1>6 DEF HandleConnect
<1>8. CASE n # 1
  <2>1. causes # {}
    BY <1>1, <1>2, <1>3, <1>8 DEF CommandOK
  <2>2. phase' = "closed" /\ UNCHANGED <<out, buffer, ConnInfo, transactionID>>
    BY <1>7, <1>8 DEF Close
  <2>3. Results' = Results /\ \A j \in Results : out'[j] = out[j]
    BY <2>2 DEF Results
  <2>4. AnswersInv'
    BY <2>2, <2>3, Unanswered
  <2> QED
    BY <1>7, <2>1, <2>2, <2>4, CommandStep DEF IInv, TypeInv
<1>9. CASE n = 1
  <2> DEFINE msgs == <<Answer("WindowAckSize", 0), Answer("SetPeerBandwidth", 0),
                       Answer("SetChunkSize", 0), Answer("_result", n)>>
  <2>1. /\ Answer("WindowAckSize", 0) \in Answers /\ Answer("SetPeerBandwidth", 0) \in Answers
        /\ Answer("SetChunkSize", 0) \in Answers /\ Answer("_result", n) \in Answers
    BY <1>4, AnAnswer DEF AnswerNames
  <2>2. msgs \in Seq(Answers) /\ Len(msgs) = 4 /\ msgs[4] = Answer("_result", n)
    <3> HIDE DEF Answers
    <3> QED
      BY <2>1
  <2>3. \A k \in 1..4 : /\ msgs[k].msg = "_result" => k = 4
                        /\ msgs[k].msg # "NetStream.Publish.Start"
    BY DEF Answer
  <2> HIDE DEF msgs
  <2>4. /\ buffer' = << >> /\ out' \in Seq(Answers) /\ phase' \in {"commands", "closed"}
        /\ phase' = "closed" => ~open
        /\ ~Got("NetStream.Publish.Start")'
        /\ AnswersInv'
    <3>1. Reply(msgs, "commands")
      BY <1>7, <1>9 DEF connectResp, msgs
    <3>2. "connect" \in R
      BY DEF R
    <3>3. 4 \in 1..Len(msgs) /\ \A k \in 1..Len(msgs) : k \in 1..4
      BY <2>2
    <3> HIDE DEF Answers, IInv
    <3> QED
      BY <1>1, <1>2, <2>2, <2>3, <3>1, <3>2, <3>3, Resulting
  <2>5. /\ UNCHANGED <<PublishInfo, isPublisher, granted, causes>>
        /\ transactionID' \in Int /\ ConnInfo'.app \in Apps
    BY <1>4, <1>7, <1>9
  <2>6. /\ causes' \subseteq Causes /\ isPublisher' \in BOOLEAN
        /\ PublishInfo'.name \in StreamNames \union {""}
        /\ granted' \in ({"vods", "local"} \X StreamNames) \union {Nobody}
    BY <2>5 DEF IInv, TypeInv
  <2> QED
    BY <2>4, <2>5, <2>6, CommandStep
<1> QED
  BY <1>8, <1>9

LEMMA HandleCreateStreamInv ==
  ASSUME IInv, AuthInv', phase = "commands", Take,
         UNCHANGED <<deadline, open, asked, published, playing, header>>,
         NEW m, m = Head(inbox), IsCommand(m), CommandOK(m),
         decoder' = NewTables \/ "checkBandwidth" \in Range(asked),
         NEW b, b.e = "EOF" => b.v[1] = m.means[1],
         IsOther(m) \/ (Requested(m.means, Number(m)) /\ b.v = m.means),
         HandleCreateStream(b)
  PROVE  IInv'
<1>1. PICK n : n = Number(m)
  OBVIOUS
<1>2. m.means[1].str = "createStream" /\ b.v = m.means /\ Creates(m.means, n)
  <2>1. m.means[1].str = "createStream"
    BY DEF HandleCreateStream, Hear
  <2>2. ~IsOther(m)
    BY <2>1, Spelt DEF IsOther
  <2> QED
    BY <1>1, <2>1, <2>2, RequestOf
<1>3. b.v = <<Str("createStream"), Num(n), Nil>>
  BY <1>2 DEF Creates
<1>4. n \in Int /\ n \in DOMAIN asked
  <2>1. DOMAIN asked = 1..Len(asked)
    BY LenProperties DEF IInv, TypeInv
  <2> QED
    BY <1>1, <2>1 DEF CommandOK
<1>5. Tail(b.v) = <<Num(n), Nil>>
  BY <1>3
<1>6. LastNumber(<<Num(n), Nil>>) = n
  BY <1>4, CreateArgs
<1> DEFINE msgs == <<Answer("_result", n)>>
<1>7. /\ UNCHANGED <<ConnInfo, PublishInfo, isPublisher, granted, causes>>
      /\ transactionID' = n /\ Reply(msgs, "commands")
  BY <1>5, <1>6 DEF HandleCreateStream
<1>8. Answer("_result", n) \in Answers
  BY <1>4, AnAnswer DEF AnswerNames
<1>9. msgs \in Seq(Answers) /\ Len(msgs) = 1 /\ msgs[1] = Answer("_result", n)
  <2> HIDE DEF Answers
  <2> QED
    BY <1>8
<1>10. \A k \in 1..Len(msgs) : k = 1 /\ msgs[k].msg # "NetStream.Publish.Start"
  BY DEF Answer
<1> HIDE DEF msgs
<1>11. /\ buffer' = << >> /\ out' \in Seq(Answers) /\ phase' \in {"commands", "closed"}
       /\ phase' = "closed" => ~open
       /\ ~Got("NetStream.Publish.Start")'
       /\ AnswersInv'
  <2>1. "createStream" \in R /\ 1 \in 1..Len(msgs)
    BY <1>9 DEF R
  <2> HIDE DEF Answers, IInv
  <2> QED
    BY <1>1, <1>2, <1>7, <1>9, <1>10, <2>1, Resulting
<1> QED
  BY <1>4, <1>7, <1>11, CommandStep DEF IInv, TypeInv

\* What the auth callback says.
LEMMA Accepts ==
  ASSUME IInv, phase = "commands", PublishInfo'.name \in StreamNames,
         NEW publisher \in BOOLEAN, callback(publisher)
  PROVE  /\ granted' \in ({"vods", "local"} \X StreamNames) \union {Nobody}
         /\ causes' \subseteq Causes /\ (causes # {} => causes' # {})
         /\ granted' = granted => causes' # {}
<1>1. /\ granted = Nobody /\ ConnInfo.app \in Apps \union {""} /\ causes \subseteq Causes
  BY DEF IInv, AuthInv, Talking, TypeInv
<1>2. PICK ok \in BOOLEAN :
        /\ ok => IF publisher
                 THEN ConnInfo.app \in {"vods", "vods-relay"} /\ PublishInfo'.name = "live_id_key"
                 ELSE ConnInfo.app = "local"
        /\ granted' = IF ok THEN <<ConnInfo.app, PublishInfo'.name>> ELSE granted
        /\ causes' = causes \union If(~ok, "callback")
  BY DEF callback
<1>3. ok => ConnInfo.app \in {"vods", "local"}
  BY <1>1, <1>2 DEF Apps
<1>4. ok => granted' \in {"vods", "local"} \X StreamNames /\ granted' # Nobody
  BY <1>2, <1>3 DEF Nobody
<1>5. /\ causes' \subseteq Causes /\ (causes # {} => causes' # {})
      /\ ~ok => causes' # {}
  <2>1. "callback" \in Causes
    BY DEF Causes
  <2> QED
    BY <1>2, <2>1, CauseKept
<1> QED
  BY <1>1, <1>2, <1>4, <1>5

LEMMA PublishArgs ==
  ASSUME NEW n \in Int, NEW s, publishOrPlay(<<Num(n), Nil, Str(s), Str("live")>>)
  PROVE  PublishInfo'.name = s /\ transactionID' = n
<1> DEFINE vs == <<Num(n), Nil, Str(s), Str("live")>>
<1>1. /\ DOMAIN vs = {1, 2, 3, 4} /\ vs[1] = Num(n) /\ vs[2] = Nil /\ vs[3] = Str(s)
      /\ vs[4] = Str("live") /\ Len(vs) = 4
  OBVIOUS
<1>2. /\ Is(Num(n), "num") /\ ~Is(Nil, "num") /\ Is(Str(s), "str") /\ ~Is(Str(s), "num")
      /\ ~Is(Str("live"), "num")
  BY DEF Is, Num, Nil, Str
<1>3. publishOrPlay(vs)
  OBVIOUS
<1> HIDE DEF vs
<1>4. Numbers(vs) = {1} /\ Max({1}) = 1
  BY <1>1, <1>2 DEF Numbers, Max
<1>5. LastNumber(vs) = n
  BY <1>1, <1>4 DEF LastNumber, Num
<1>6. PublishInfo'.name = s
  BY <1>1, <1>2, <1>3, Spelt DEF publishOrPlay
<1> QED
  BY <1>3, <1>5, <1>6 DEF publishOrPlay

LEMMA PlayArgs ==
  ASSUME NEW n \in Int, NEW s, NEW vs, vs = <<Num(n), Nil, Str(s), Num(-2000)>>,
         publishOrPlay(vs)
  PROVE  PublishInfo'.name = s /\ transactionID' \in Int
<1>1. /\ DOMAIN vs = {1, 2, 3, 4} /\ vs[1] = Num(n) /\ vs[2] = Nil /\ vs[3] = Str(s)
      /\ vs[4] = Num(-2000) /\ Len(vs) = 4
  OBVIOUS
<1>2. /\ Is(Num(n), "num") /\ ~Is(Nil, "num") /\ Is(Str(s), "str") /\ ~Is(Str(s), "num")
      /\ Is(Num(-2000), "num")
  BY DEF Is, Num, Nil, Str
<1>4. Numbers(vs) = {1, 4}
  BY <1>1, <1>2 DEF Numbers
<1>5. Max({1, 4}) = 4
  BY DEF Max
<1>6. LastNumber(vs) = -2000
  BY <1>1, <1>4, <1>5 DEF LastNumber, Num
<1>7. PublishInfo'.name = s
  BY <1>1, <1>2, Spelt DEF publishOrPlay
<1> QED
  BY <1>6, <1>7 DEF publishOrPlay

LEMMA HandlePublishInv ==
  ASSUME IInv, AuthInv', phase = "commands", Take,
         UNCHANGED <<deadline, open, asked, published, playing, header>>,
         NEW m, m = Head(inbox), IsCommand(m), CommandOK(m),
         decoder' = NewTables \/ "checkBandwidth" \in Range(asked),
         NEW b, b.e = "EOF" => b.v[1] = m.means[1],
         IsOther(m) \/ (Requested(m.means, Number(m)) /\ b.v = m.means),
         HandlePublish(b)
  PROVE  IInv'
<1>1. PICK n : n = Number(m)
  OBVIOUS
<1>2. m.means[1].str = "publish" /\ b.v = m.means /\ Publishes(m.means, n)
  <2>1. m.means[1].str = "publish"
    BY DEF HandlePublish, Hear
  <2>2. ~IsOther(m)
    BY <2>1, Spelt DEF IsOther
  <2> QED
    BY <1>1, <2>1, <2>2, RequestOf
<1>3. PICK s \in StreamNames : b.v = <<Str("publish"), Num(n), Nil, Str(s), Str("live")>>
  BY <1>2 DEF Publishes
<1>4. n \in Int
  <2>1. DOMAIN asked = 1..Len(asked)
    BY LenProperties DEF IInv, TypeInv
  <2> QED
    BY <1>1, <2>1 DEF CommandOK
<1>5. Tail(b.v) = <<Num(n), Nil, Str(s), Str("live")>>
  BY <1>3
<1> DEFINE msgs == <<Status("NetStream.Publish.Start")>>
<1>6. /\ isPublisher' = TRUE /\ ConnInfo' = ConnInfo
      /\ PublishInfo'.name = s /\ transactionID' = n
      /\ callback(TRUE)
      /\ IF granted' = granted THEN Close ELSE Reply(msgs, "publishing")
  BY <1>4, <1>5, PublishArgs DEF HandlePublish
<1>7. /\ granted' \in ({"vods", "local"} \X StreamNames) \union {Nobody}
      /\ causes' \subseteq Causes /\ (causes # {} => causes' # {})
      /\ granted' = granted => causes' # {}
  BY <1>6, Accepts
<1>8. Answer("NetStream.Publish.Start", 0) \in Answers
  BY AnAnswer DEF AnswerNames
<1>9. msgs \in Seq(Answers) /\ Len(msgs) = 1 /\ msgs[1] = Answer("NetStream.Publish.Start", 0)
  <2> HIDE DEF Answers
  <2> QED
    BY <1>8 DEF Status
<1>10. \A k \in 1..Len(msgs) : msgs[k].msg # "_result"
  BY DEF Answer, Status
<1> HIDE DEF msgs
<1>11. /\ buffer' = << >> /\ out' \in Seq(Answers) /\ phase' \in {"publishing", "closed"}
       /\ phase' = "closed" => ~open \/ causes' # {}
       /\ AnswersInv'
  <2>1. CASE granted' = granted
    <3>1. phase' = "closed" /\ UNCHANGED <<out, buffer>>
      BY <1>6, <2>1 DEF Close
    <3>2. Results' = Results /\ \A j \in Results : out'[j] = out[j]
      BY <3>1 DEF Results
    <3>3. AnswersInv'
      BY <3>1, <3>2, Unanswered
    <3> QED
      BY <1>7, <2>1, <3>1, <3>3 DEF IInv, TypeInv
  <2>2. CASE granted' # granted
    <3> HIDE DEF Answers, IInv
    <3> QED
      BY <1>6, <1>9, <1>10, <2>2, Beginning
  <2> QED
    BY <2>1, <2>2
<1>12. /\ ConnInfo'.app \in Apps \union {""} /\ PublishInfo'.name \in StreamNames
       /\ transactionID' \in Int /\ isPublisher' \in BOOLEAN
  BY <1>4, <1>6 DEF IInv, TypeInv
<1> QED
  BY <1>7, <1>11, <1>12, CommandStep

LEMMA HandlePlayInv ==
  ASSUME IInv, AuthInv', phase = "commands", Take,
         UNCHANGED <<deadline, open, asked, published, playing, header>>,
         NEW m, m = Head(inbox), IsCommand(m), CommandOK(m),
         decoder' = NewTables \/ "checkBandwidth" \in Range(asked),
         NEW b, b.e = "EOF" => b.v[1] = m.means[1],
         IsOther(m) \/ (Requested(m.means, Number(m)) /\ b.v = m.means),
         HandlePlay(b)
  PROVE  IInv'
<1>1. PICK n : n = Number(m)
  OBVIOUS
<1>2. m.means[1].str = "play" /\ b.v = m.means /\ Plays(m.means, n)
  <2>1. m.means[1].str = "play"
    BY DEF HandlePlay, Hear
  <2>2. ~IsOther(m)
    BY <2>1, Spelt DEF IsOther
  <2> QED
    BY <1>1, <2>1, <2>2, RequestOf
<1>3. PICK s \in StreamNames : b.v = <<Str("play"), Num(n), Nil, Str(s), Num(-2000)>>
  BY <1>2 DEF Plays
<1>4. n \in Int
  <2>1. DOMAIN asked = 1..Len(asked)
    BY LenProperties DEF IInv, TypeInv
  <2> QED
    BY <1>1, <2>1 DEF CommandOK
<1>5. Tail(b.v) = <<Num(n), Nil, Str(s), Num(-2000)>>
  BY <1>3
<1>6. /\ ConnInfo' = ConnInfo
      /\ PublishInfo'.name = s /\ transactionID' \in Int
      /\ callback(FALSE) /\ isPublisher' = FALSE
      /\ IF granted' = granted THEN Close ELSE playResp
  <2>1. isPublisher = FALSE
    BY DEF IInv, AuthInv, Talking
  <2>2. /\ publishOrPlay(Tail(b.v)) /\ callback(isPublisher) /\ ConnInfo' = ConnInfo
        /\ IF granted' = granted THEN Close /\ UNCHANGED isPublisher
                                ELSE playResp /\ isPublisher' = FALSE
    BY DEF HandlePlay
  <2>3. PublishInfo'.name = s /\ transactionID' \in Int
    <3>1. PICK vs : vs = Tail(b.v)
      OBVIOUS
    <3>2. publishOrPlay(vs) /\ vs = <<Num(n), Nil, Str(s), Num(-2000)>>
      BY <1>5, <2>2, <3>1
    <3> QED
      BY <1>4, <3>2, PlayArgs
  <2>4. callback(FALSE)
    BY <2>1, <2>2
  <2>5. isPublisher' = FALSE /\ IF granted' = granted THEN Close ELSE playResp
    BY <2>1, <2>2
  <2> QED
    BY <2>2, <2>3, <2>4, <2>5
<1>7. /\ granted' \in ({"vods", "local"} \X StreamNames) \union {Nobody}
      /\ causes' \subseteq Causes /\ (causes # {} => causes' # {})
      /\ granted' = granted => causes' # {}
  BY <1>6, Accepts
<1> DEFINE msgs == <<Answer("SetRecorded", 0), Answer("SetBegin", 0),
                     Status("NetStream.Play.Reset"), Status("NetStream.Play.Start"),
                     Status("NetStream.Data.Start"), Status("NetStream.Play.PublishNotify")>>
<1>8. ASSUME NEW name \in AnswerNames
      PROVE  Status(name) \in Answers
  <2>1. Answer(name, 0) \in Answers
    BY SMTT(60), AnAnswer
  <2> QED
    BY <2>1 DEF Status
<1>9. msgs \in Seq(Answers) /\ Len(msgs) = 6
  <2>1. /\ Answer("SetRecorded", 0) \in Answers /\ Answer("SetBegin", 0) \in Answers
        /\ Status("NetStream.Play.Reset") \in Answers
        /\ Status("NetStream.Play.Start") \in Answers
        /\ Status("NetStream.Data.Start") \in Answers
        /\ Status("NetStream.Play.PublishNotify") \in Answers
    BY <1>8, AnAnswer DEF AnswerNames
  <2> HIDE DEF Answers
  <2> QED
    BY <2>1
<1>10. \A k \in 1..6 : msgs[k].msg # "_result" /\ msgs[k].msg # "NetStream.Publish.Start"
  BY DEF Answer, Status
<1>r. playResp => Reply(msgs, "playing")
  BY DEF playResp
<1> HIDE DEF msgs
<1>11. /\ buffer' = << >> /\ out' \in Seq(Answers) /\ phase' \in {"playing", "closed"}
       /\ phase' = "closed" => ~open \/ causes' # {}
       /\ AnswersInv' /\ ~Got("NetStream.Publish.Start")'
  <2>1. CASE granted' = granted
    <3>1. phase' = "closed" /\ UNCHANGED <<out, buffer>>
      BY <1>6, <2>1 DEF Close
    <3>2. Results' = Results /\ (\A j \in Results : out'[j] = out[j])
            /\ ~Got("NetStream.Publish.Start")'
      BY <3>1 DEF Results, Got, IInv, PlaceInv
    <3>3. AnswersInv'
      BY <3>1, <3>2, Unanswered
    <3> QED
      BY <1>7, <2>1, <3>1, <3>2, <3>3 DEF IInv, TypeInv
  <2>2. CASE granted' # granted
    <3>1. \A k \in 1..Len(msgs) : msgs[k].msg # "_result" /\ msgs[k].msg # "NetStream.Publish.Start"
      BY <1>9, <1>10
    <3>2. Reply(msgs, "playing")
      BY <1>6, <1>r, <2>2
    <3> HIDE DEF Answers, IInv
    <3> QED
      BY SMTT(60), <1>9, <3>1, <3>2, Beginning
  <2> QED
    BY <2>1, <2>2
<1>12. /\ ConnInfo'.app \in Apps \union {""} /\ PublishInfo'.name \in StreamNames
       /\ isPublisher' \in BOOLEAN
  BY <1>6 DEF IInv, TypeInv
<1> QED
  BY <1>6, <1>7, <1>11, <1>12, CommandStep

LEMMA CommandInv == IInv /\ AuthInv' /\ CommandsHeard' /\ handleCmdMsg => IInv'
<1> SUFFICES ASSUME IInv, AuthInv', CommandsHeard', handleCmdMsg
             PROVE  IInv'
  OBVIOUS
<1>1. PICK m : m = Head(inbox)
  OBVIOUS
<1>2. PICK fresh : fresh = (decoder = NewTables)
  OBVIOUS
<1>3. PICK b : /\ heard' = [means |-> m.means, v |-> b.v, e |-> b.e, kind |-> m.kind,
                            fresh |-> fresh]
               /\ \/ DecodeFails(b) \/ HandleConnect(b) \/ HandleCreateStream(b)
                  \/ HandlePublish(b) \/ HandlePlay(b) \/ HandleOther(b)
  BY <1>1, <1>2 DEF handleCmdMsg
<1>4. /\ phase = "commands" /\ Take /\ IsCommand(m)
      /\ UNCHANGED <<deadline, open, asked, published, playing, header>>
  BY <1>1 DEF handleCmdMsg, player, client
<1>5. /\ CommandOK(m)
      /\ b.e # "EOF" => causes # {}
      /\ b.e = "EOF" => b.v[1] = m.means[1]
      /\ \/ IsOther(m)
         \/ Requested(m.means, Number(m)) /\ b.v = m.means
      /\ decoder' = NewTables \/ "checkBandwidth" \in Range(asked)
  BY <1>1, <1>2, <1>3, <1>4, Understood
<1>6. CASE DecodeFails(b)
  BY <1>1, <1>4, <1>5, <1>6, DecodeFailsInv
<1>7. CASE HandleConnect(b)
  BY <1>1, <1>4, <1>5, <1>7, HandleConnectInv
<1>8. CASE HandleCreateStream(b)
  BY <1>1, <1>4, <1>5, <1>8, HandleCreateStreamInv
<1>9. CASE HandlePublish(b)
  BY <1>1, <1>4, <1>5, <1>9, HandlePublishInv
<1>10. CASE HandlePlay(b)
  BY <1>1, <1>4, <1>5, <1>10, HandlePlayInv
<1>11. CASE HandleOther(b)
  BY <1>1, <1>4, <1>5, <1>11, OtherInv
<1> QED
  BY <1>3, <1>6, <1>7, <1>8, <1>9, <1>10, <1>11

-----------------------------------------------------------------------------
(* The theorems *)

LEMMA Initially == Init => IInv
<1> SUFFICES ASSUME Init
             PROVE  IInv
  OBVIOUS
<1>0. inbox = << >> /\ out = << >> /\ asked = << >> /\ published = << >> /\ buffer = << >>
  BY DEF Init
<1>1. Len(inbox) = 0 /\ DOMAIN asked = {} /\ DOMAIN out = {}
  BY <1>0
<1>2. AuthInv
  BY AuthInit
<1>3. TypeInv
  <2>1. IsSeq(inbox) /\ Len(inbox) <= Room
    <3>1. Room \in Nat
      BY SessionAssumption
    <3>2. inbox \in Seq({})
      BY <1>0
    <3>3. IsSeq(inbox)
      BY <3>2, SeqIs
    <3> QED
      BY <1>1, <3>1, <3>3
  <2>2. asked \in Seq(Names) /\ published \in Seq(Media) /\ out \in Seq(Answers)
    <3> HIDE DEF Names, Media, Answers
    <3> QED
      BY <1>0
  <2>3. Len(asked) <= MaxCommands /\ Len(published) <= MaxMedia
    BY <1>0, SessionAssumption
  <2>4. /\ phase = "C0C1" /\ deadline = TRUE /\ isPublisher = FALSE /\ playing = TRUE
        /\ open = TRUE /\ causes = {} /\ header = "none" /\ transactionID = 0
        /\ granted = Nobody
    BY DEF Init
  <2>5. ConnInfo.app = "" /\ PublishInfo.name = ""
    <3>1. ConnInfo = [app |-> ""] /\ PublishInfo = [name |-> "", type |-> ""]
      BY DEF Init
    <3> QED
      BY <3>1
  <2>6. {deadline, isPublisher, playing, open} \subseteq BOOLEAN /\ causes \subseteq Causes
    BY <2>4
  <2>7. /\ phase \in {"C0C1", "C2", "commands", "publishing", "playing", "stopped", "closed"}
        /\ header \in {"none", "aac", "other"} /\ transactionID \in Int
    BY <2>4
  <2>8. /\ ConnInfo.app \in Apps \union {""} /\ PublishInfo.name \in StreamNames \union {""}
        /\ granted \in ({"vods", "local"} \X StreamNames) \union {Nobody}
    BY <2>4, <2>5
  <2> QED
    BY <1>0, <2>1, <2>2, <2>3, <2>6, <2>7, <2>8 DEF TypeInv
<1>4. Results = {} /\ ~Got("NetStream.Publish.Start")
  BY <1>1 DEF Results, Got
<1>5. PlaceInv
  <2>1. phase = "C0C1"
    BY DEF Init
  <2> QED
    BY <1>0, <1>1, <1>4, <2>1 DEF PlaceInv, Established
<1>6. InboxInv
  <2>1. decoder = NewTables
    BY DEF Init
  <2>2. 1..Len(inbox) = {}
    BY <1>1
  <2> QED
    BY <2>1, <2>2 DEF InboxInv
<1>7. AnswersInv
  BY <1>1, <1>4 DEF Init, AnswersInv, AnswersMatch
<1>8. ClosedForCause
  BY DEF Init, ClosedForCause, Over
<1> QED
  BY <1>2, <1>3, <1>5, <1>6, <1>7, <1>8 DEF IInv

LEMMA Stutters == IInv /\ UNCHANGED vars => IInv'
<1> SUFFICES ASSUME IInv, UNCHANGED vars
             PROVE  IInv'
  OBVIOUS
<1>1. /\ UNCHANGED <<phase, deadline, inbox, buffer, out, decoder, ConnInfo, PublishInfo>>
      /\ UNCHANGED <<isPublisher, transactionID, granted, playing, header>>
      /\ UNCHANGED <<open, asked, published, causes>>
  BY DEF vars, server, player, client
<1>2. AuthInv'
  BY AuthStep DEF IInv
<1>3. TypeInv' /\ PlaceInv' /\ ClosedForCause'
  BY <1>1 DEF IInv, TypeInv, PlaceInv, ClosedForCause, Over, Results, Got, Established
<1>4. InboxInv'
  BY <1>1 DEF IInv, InboxInv, MessageOK, CommandOK, MediumOK, Established
<1>5. AnswersInv'
  BY <1>1 DEF IInv, AnswersInv, Pending, Resulted, Results, Numbered, AnswersMatch
<1> QED
  BY <1>2, <1>3, <1>4, <1>5 DEF IInv

LEMMA Steps == IInv /\ CommandsHeard' /\ [Next]_vars => IInv'
<1> SUFFICES ASSUME IInv, CommandsHeard', [Next]_vars
             PROVE  IInv'
  OBVIOUS
<1>1. AuthInv'
  BY AuthStep DEF IInv
<1>2. CASE Client
  BY <1>2, SendC0C1Inv, SendC2Inv, SendCommandInv, SendOtherInv, SendControlInv, SendMediaInv,
     LeaveInv DEF Client
<1>3. CASE Server
  BY <1>1, <1>3, ReadC0C1Inv, ReadC2Inv, Closes, CommandInv, SkipInv, ReadPacketInv DEF Server
<1>4. CASE TimeOut
  BY <1>1, <1>4, Closes
<1>6. CASE SessionEnds
  BY <1>1, <1>6, SessionEndsInv
<1>5. CASE UNCHANGED vars
  BY <1>5, Stutters
<1> QED
  BY <1>2, <1>3, <1>4, <1>5, <1>6 DEF Next

\* As long as the codec does what CommandsHeard says, the invariant holds.
THEOREM Inductive == Spec /\ []CommandsHeard => []IInv
<1>1. Init => IInv
  BY Initially
<1>2. IInv /\ CommandsHeard' /\ [Next]_vars => IInv'
  BY Steps
<1> QED
  BY <1>1, <1>2, PTL DEF Spec

\* The variables have their types, and no more is sent than the bounds allow.
THEOREM SessionTypes == Spec /\ []CommandsHeard => []TypeOK
<1>1. IInv => TypeOK
  BY DEF IInv, TypeInv, TypeOK
<1> QED
  BY <1>1, Inductive, PTL

\* Results come in order and under the numbers of the requests, whatever commands
\* are sent before they are answered.
THEOREM AnswersAreMatched == Spec /\ []CommandsHeard => []AnswersMatch
<1>1. IInv => AnswersMatch
  BY DEF IInv, AnswersInv
<1> QED
  BY <1>1, Inductive, PTL

\* While the client is there the server stops reading or closes the connection only
\* for one of Causes, some of which are no fault of the client.
THEOREM ClosedOnlyForCause == Spec /\ []CommandsHeard => []ClosedForCause
<1>1. IInv => ClosedForCause
  BY DEF IInv
<1> QED
  BY <1>1, Inductive, PTL

=============================================================================
