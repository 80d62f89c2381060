------------------------------ MODULE Session ------------------------------
(***************************************************************************)
(* One connection from the handshake (handshake.go) through the commands    *)
(* (conn_server.go) until it publishes or plays, and then what a publisher  *)
(* sends: VirReader.Read takes it from the connection and ConnServer.Write  *)
(* hands it to a player.  The queue between them is VirWriter, the relay    *)
(* Relay, and how messages are cut into chunks and acknowledged ChunkStream:*)
(* here a message arrives whole.                                            *)
(*                                                                          *)
(* The client is external: it sends what such clients send, encoded as this *)
(* repository's encoders would, or with what they do not use (Extras).      *)
(***************************************************************************)
EXTENDS AmfData, FiniteSetsExt, Functions

CONSTANTS
  \* The codec: operators of Amf.
  Decode(_, _),    \* DecodeBatch
  EncodeBatch(_),  \* what a sequence of values may be encoded as
  Reform(_, _),    \* MetaDataReform
  MetaData,        \* metadata without SetDataFrame, encoded
  Extras,       \* further arguments of commands: their bytes (.wire), what the
                \* client means (.means), and what becomes of them (.kind)
  MaxCommands,  \* commands the client sends in a behaviour
  MaxMedia,     \* messages it publishes
  MaxOthers,    \* of them with an argument of any kind
  Room          \* messages on their way to the server

\* Arguments are read as they were meant, as something else, or not at all.  Those
\* that refer to something before them are read so by a decoder without any past.
References == {"refers", "elsewhere", "nowhere"}
Kinds == {"plain", "misread", "refused"} \union References

ASSUME SessionAssumption ==
  /\ {MaxCommands, MaxMedia, MaxOthers, Room} \subseteq Nat \ {0}
  /\ MaxOthers < MaxCommands
  /\ \A x \in Extras : x.kind \in Kinds

\* MetaDataReform puts SetDataFrame before metadata, and takes it away again.
ASSUME ReformAssumption ==
  LET framed == Reform(MetaData, "ADD").w IN
  /\ << >> \notin {MetaData, framed, Byte(0) \o framed}
  /\ \A w \in {MetaData, framed} :
       Reform(w, "DEL").e = "" /\ Reform(w, "DEL").w = MetaData
  /\ Reform(Byte(0) \o framed, "DEL").e # ""

VARIABLES
  phase,        \* the server: reading "C0C1" or "C2", in ReadMsg ("commands"),
                \* "publishing" or "playing", "closed"; "stopped" when it does
                \* not read any more, but has not closed the connection
  deadline,     \* the connection has a deadline
  inbox,        \* messages on their way to the server
  buffer,       \* answers in the buffered writer
  out,          \* answers the client has received
  decoder,      \* ConnServer.decoder, which lives as long as the connection
  ConnInfo,     \* .app
  PublishInfo,  \* .name
  isPublisher,
  transactionID,
  granted,      \* application and stream name that the auth callback accepted
  playing,      \* a player is attached to the published stream
  played,       \* what was written to it
  header,       \* what the relay's packet has for a header: "none" yet, that
                \* of an "aac" sequence header, or any "other"
  open,         \* the client has not gone
  asked,        \* commands it has sent
  published,    \* media it has sent
  causes,       \* what there has been for the server to stop or close
  heard         \* the command just decoded: what it meant and what was read

server == <<decoder, ConnInfo, PublishInfo, isPublisher, transactionID, granted>>
client == <<open, asked, published>>
player == <<playing, played, header>>
vars == <<phase, deadline, inbox, buffer, out, server, player, client, causes, heard>>

Nothing == [means |-> << >>, v |-> << >>, e |-> "EOF", kind |-> "plain", fresh |-> TRUE]
Nobody  == <<"", "">>

Init ==
  /\ phase = "C0C1"
  /\ deadline = TRUE
  /\ inbox = << >>
  /\ buffer = << >>
  /\ out = << >>
  /\ decoder = NewTables
  /\ ConnInfo = [app |-> ""]
  /\ PublishInfo = [name |-> "", type |-> ""]
  /\ isPublisher = FALSE
  /\ transactionID = 0
  /\ granted = Nobody
  /\ playing = TRUE
  /\ played = << >>
  /\ header = "none"
  /\ open = TRUE
  /\ asked = << >>
  /\ published = << >>
  /\ causes = {}
  /\ heard = Nothing

-----------------------------------------------------------------------------
(* The client *)

Answer(name, n) == [msg |-> name, tid |-> n]
Got(name) == \E i \in DOMAIN out : out[i].msg = name
Results == {i \in DOMAIN out : out[i].msg = "_result"}

\* Causes: a hello that is neither plain nor signed, a C2 that does not echo S1, a
\* handshake that takes too long, a connect that is not the first command, the
\* auth callback; an argument that is refused, a reference that comes after another
\* message has left something in the tables, a video command frame; and the end of
\* the session that is recorded, or of the stream that is played.
Causes == {"hello", "echo", "slow", "connect", "callback", "argument", "reference",
           "frame", "over"}
If(condition, cause) == IF condition THEN {cause} ELSE {}

\* A message on its way, with what the client means by it.
Post(type, wire, means, kind) ==
  /\ open
  /\ phase # "closed"
  /\ Len(inbox) < Room
  /\ inbox' = Append(inbox, [type |-> type, wire |-> wire, means |-> means, kind |-> kind])
  /\ heard' = Nothing
  /\ UNCHANGED <<phase, deadline, buffer, out, server, player, open>>

\* C1 names a version, 0 when it is not signed, and is signed at one of two
\* places; digest 0 is a client that gives its version and does not sign.
SendC0C1 ==
  /\ phase = "C0C1"
  /\ inbox = << >>
  /\ \E c1 \in [version : {0}, digest : {0}] \union [version : {9}, digest : {0, 8, 772}] :
       /\ Post("C0C1", <<c1>>, << >>, "plain")
       /\ causes' = causes \union If(c1.version # 0 /\ c1.digest = 0, "hello")
  /\ UNCHANGED <<asked, published>>

\* C2 echoes S1, or is a digest of its own, as signed clients may send.
SendC2 ==
  /\ Got("S0S1S2")
  /\ phase = "C2"
  /\ inbox = << >>
  /\ \E echo \in BOOLEAN :
       /\ Post("C2", <<[time |-> echo, random |-> echo]>>, << >>, "plain")
       /\ causes' = causes \union If(~echo, "echo")
  /\ UNCHANGED <<asked, published>>

Command(name, tid, args) == <<Str(name), Num(tid)>> \o args
App(app) == Obj([app |-> Str(app), objectEncoding |-> Num(0)])

StreamNames == {"live_id_key", "other"}

\* What a client asks next.  It waits for the answer to connect, and for the
\* stream of createStream; else it does not wait.
Requests(tid) ==
  {Command("connect", tid, <<App(app)>>) :
     app \in IF tid = 1 THEN {"vods", "local", "live"} ELSE {"local"}}
  \union
  IF ~Got("_result") THEN {}
  ELSE {Command("createStream", tid, <<Nil>>)}
       \union {Command("releaseStream", tid, <<Nil, Str(s)>>) : s \in {"live_id_key"}}
       \union IF Cardinality(Results) < 2 THEN {}
              ELSE UNION {{Command("publish", tid, <<Nil, Str(s), Str("live")>>),
                           Command("play", tid, <<Nil, Str(s), Num(-2000)>>)}
                           : s \in StreamNames}

\* What is sent after C2 waits until that is read.
Over == phase \in {"stopped", "closed"}
Established == phase \in {"commands", "publishing", "playing"}

\* A second connect has another number than 1, and is refused.
SendCommand ==
  /\ Established
  /\ Len(asked) < MaxCommands
  /\ LET tid == Len(asked) + 1 IN
     \E vals \in Requests(tid) : \E type \in {"command0", "command3"} :
       \E wire \in EncodeBatch(vals) :
         /\ Post(type, IF type = "command3" THEN Byte(0) \o wire ELSE wire, vals, "plain")
         /\ asked' = Append(asked, vals[1].str)
         /\ causes' = causes \union If(vals[1].str = "connect" /\ tid # 1, "connect")
  /\ UNCHANGED published

\* Another command, with an argument of any kind.  It waits until what was sent
\* before is read, and is not sent once a publisher has begun.
SendOther ==
  /\ Got("_result")
  /\ phase = "commands"
  /\ inbox = << >>
  /\ Len(asked) < MaxOthers + 1
  /\ LET tid == Len(asked) + 1
         vals == Command("checkBandwidth", tid, <<Nil>>)
     IN  \E x \in Extras : \E wire \in EncodeBatch(vals) :
           /\ Post("command0", wire \o x.wire, Append(vals, x.means), x.kind)
           /\ asked' = Append(asked, "checkBandwidth")
           /\ causes' = causes
                \union If(x.kind \in {"refused", "nowhere"}, "argument")
                \union If(x.kind \in References /\ "checkBandwidth" \in Range(asked), "reference")
  /\ UNCHANGED published

\* A chunk size or a window, which Conn.Read deals with.
SendControl ==
  /\ Established
  /\ inbox = << >>
  /\ Post("control", << >>, << >>, "plain")
  /\ UNCHANGED <<asked, published, causes>>

Video(frame, packet) == Byte((16 * frame) + 7) \o Byte(packet) \o Byte(0) \o Byte(0) \o Byte(0)
Audio(packet) == Byte((16 * 10) + 15) \o Byte(packet)

\* What it publishes, with the kind it has for Relay and what a player is to
\* get: sequence headers, pictures and sound; metadata, as FLV or librtmp send
\* it, plain, or in a message of AMF3 type; a sound that is cut off after its
\* first byte; and a video command frame.
Medium(type, wire, kind, body) == [type |-> type, wire |-> wire, kind |-> kind, body |-> body]
Media ==
  {Medium("video", Video(1, 0), "header", Video(1, 0)),
   Medium("video", Video(1, 1), "key", Video(1, 1)),
   Medium("video", Video(2, 1), "frame", Video(2, 1)),
   Medium("audio", Audio(0), "header", Audio(0)),
   Medium("audio", Audio(1), "audio", Audio(1)),
   Medium("audio", Byte((16 * 10) + 15), "cut", Byte((16 * 10) + 15)),
   Medium("data0", Reform(MetaData, "ADD").w, "header", MetaData),
   Medium("data0", MetaData, "header", MetaData),
   Medium("data3", Byte(0) \o Reform(MetaData, "ADD").w, "header", MetaData),
   Medium("video", Byte((16 * 5) + 7) \o Byte(0), "frame", << >>)}

SendMedia ==
  /\ Got("NetStream.Publish.Start")
  /\ Len(published) < MaxMedia
  /\ \E m \in Media :
       /\ Post(m.type, m.wire, <<Num(Len(published) + 1)>>, "plain")
       /\ published' = Append(published, m)
       /\ causes' = causes \union If(m.body = << >>, "frame")
  /\ UNCHANGED asked

Leave ==
  /\ open
  /\ phase # "closed"
  /\ open' = FALSE
  /\ heard' = Nothing
  /\ UNCHANGED <<phase, deadline, inbox, buffer, out, server, player, asked, published, causes>>

Client == SendC0C1 \/ SendC2 \/ SendCommand \/ SendOther \/ SendControl \/ SendMedia \/ Leave

-----------------------------------------------------------------------------
(* The handshake *)

Take == inbox # << >> /\ inbox' = Tail(inbox)
Quiet == heard' = Nothing

\* Writes answers and flushes; when the client has gone that may fail, which
\* closes the connection.
Reply(msgs, next) ==
  \/ /\ phase' = next
     /\ out' = out \o buffer \o msgs
     /\ buffer' = << >>
  \/ /\ ~open
     /\ phase' = "closed"
     /\ UNCHANGED <<out, buffer>>

Close == phase' = "closed" /\ UNCHANGED <<out, buffer>>

\* Where C1 is signed: its digest may be at either of two places.
hsFindDigest(c1, base) == c1.digest = base
hsParse1(c1) == hsFindDigest(c1, 772) \/ hsFindDigest(c1, 8)

ReadC0C1NoDeadline ==
  /\ phase = "C0C1"
  /\ Take
  /\ LET c1 == Head(inbox).wire[1] IN
     IF c1.version # 0 /\ ~hsParse1(c1) THEN Close
     ELSE Reply(<<Answer("S0S1S2", 0)>>, "C2")
  /\ deadline' = FALSE
  /\ Quiet
  /\ UNCHANGED <<server, player, client, causes>>

ReadC0C1 ==
  /\ phase = "C0C1"
  /\ Take
  /\ LET c1 == Head(inbox).wire[1] IN
     IF c1.version # 0 /\ ~hsParse1(c1) THEN Close
     ELSE Reply(<<Answer("S0S1S2", 0)>>, "C2")
  /\ Quiet
  /\ UNCHANGED <<deadline, server, player, client, causes>>

ReadC2KeepsDeadline ==
  /\ phase = "C2"
  /\ Take
  /\ LET c2 == Head(inbox).wire[1] IN
     phase' = IF c2.time /\ c2.random THEN "commands" ELSE "closed"
  /\ Quiet
  /\ UNCHANGED <<deadline, buffer, out, server, player, client, causes>>

\* C2 must have the time and the random bytes of S1.  Then the deadline is
\* taken away.
ReadC2 ==
  /\ phase = "C2"
  /\ Take
  /\ LET c2 == Head(inbox).wire[1] IN
     IF c2.time /\ c2.random
     THEN phase' = "commands" /\ deadline' = FALSE
     ELSE phase' = "closed" /\ UNCHANGED deadline
  /\ Quiet
  /\ UNCHANGED <<buffer, out, server, player, client, causes>>

\* Reading fails: TransStart stops and closes the players, but not the publisher's
\* connection, and everybody else closes the connection.
Lost ==
  /\ phase' = IF phase = "publishing" THEN "stopped" ELSE "closed"
  /\ playing' = (playing /\ phase # "publishing")
  /\ UNCHANGED played

\* Three seconds pass without what the server waits for.
TimeOut ==
  /\ deadline
  /\ inbox = << >>
  /\ ~Over
  /\ Lost
  /\ causes' = causes \union If(phase \in {"C0C1", "C2"}, "slow")
  /\ Quiet
  /\ UNCHANGED <<deadline, inbox, buffer, out, server, header, client>>

\* The client has gone and all it sent is read.
ReadFails ==
  /\ ~open
  /\ inbox = << >>
  /\ ~Over
  /\ Lost
  /\ Quiet
  /\ UNCHANGED <<deadline, inbox, buffer, out, server, header, client, causes>>

-----------------------------------------------------------------------------
(* ReadMsg and handleCmdMsg *)

IsCommand(m) == m.type \in {"command0", "command3"}

\* A message of type 17 begins with a byte that is skipped.
Decoded(m) ==
  Decode(Reader(IF m.type = "command3" THEN Tail(m.wire) ELSE m.wire, decoder), << >>)

DecodeFails(b) ==
  /\ b.e # "EOF"
  /\ Close
  /\ UNCHANGED <<server, causes>>

\* A command of these names.  (A batch of no values ends the process, and is not
\* sent; so does an index that is in no table, which here fails to be decoded.)
Hear(b, names) ==
  /\ b.e = "EOF"
  /\ b.v[1].str \in names
  /\ decoder' = b.d

\* The last number, and .app of the last object that has it.
Numbers(vs) == {i \in DOMAIN vs : Is(vs[i], "num")}
LastNumber(vs) == IF Numbers(vs) = {} THEN transactionID ELSE vs[Max(Numbers(vs))].num

App_(vs) ==
  LET objs == {i \in DOMAIN vs : Is(vs[i], "obj") /\ ~Is(vs[i], "typed")
                                   /\ "app" \in DOMAIN vs[i].obj}
  IN  IF objs = {} THEN ConnInfo.app ELSE vs[Max(objs)].obj.app.str

connectResp(tid) ==
  Reply(<<Answer("WindowAckSize", 0), Answer("SetPeerBandwidth", 0), Answer("SetChunkSize", 0),
          Answer("_result", tid)>>, "commands")

\* Any number but 1 is an error.
HandleConnect(b) ==
  /\ Hear(b, {"connect"})
  /\ IF \E i \in Numbers(Tail(b.v)) : Tail(b.v)[i].num # 1
     THEN Close /\ UNCHANGED <<ConnInfo, transactionID>>
     ELSE /\ transactionID' = LastNumber(Tail(b.v))
          /\ ConnInfo' = [app |-> App_(Tail(b.v))]
          /\ connectResp(transactionID')
  /\ UNCHANGED <<PublishInfo, isPublisher, granted, causes>>

HandleCreateStreamNoId(b) ==
  /\ Hear(b, {"createStream"})
  /\ Reply(<<Answer("_result", transactionID)>>, "commands")
  /\ UNCHANGED <<transactionID, ConnInfo, PublishInfo, isPublisher, granted, causes>>

HandleCreateStreamNoFlush(b) ==
  /\ Hear(b, {"createStream"})
  /\ transactionID' = LastNumber(Tail(b.v))
  /\ buffer' = Append(buffer, Answer("_result", transactionID'))
  /\ UNCHANGED <<phase, out, ConnInfo, PublishInfo, isPublisher, granted, causes>>

HandleCreateStream(b) ==
  /\ Hear(b, {"createStream"})
  /\ transactionID' = LastNumber(Tail(b.v))
  /\ Reply(<<Answer("_result", transactionID')>>, "commands")
  /\ UNCHANGED <<ConnInfo, PublishInfo, isPublisher, granted, causes>>

\* The strings at the places of the stream's name and of its type.
publishOrPlay(vs) ==
  LET At_(k, old) == IF k <= Len(vs) /\ Is(vs[k], "str") THEN vs[k].str ELSE old IN
  /\ PublishInfo' = [name |-> At_(3, PublishInfo.name), type |-> At_(4, PublishInfo.type)]
  /\ transactionID' = LastNumber(vs)

callbackOldName(publisher) ==
  \E ok \in BOOLEAN :
    /\ ok => IF publisher
             THEN ConnInfo.app \in {"vods", "vods-relay"} /\ PublishInfo'.name = "live_id_key"
             ELSE ConnInfo.app = "local"
    /\ granted' = IF ok THEN <<ConnInfo.app, PublishInfo.name>> ELSE granted
    /\ causes' = causes \union If(~ok, "callback")

callbackAnyApp(publisher) ==
  \E ok \in BOOLEAN :
    /\ ok /\ publisher => PublishInfo'.name = "live_id_key"
    /\ granted' = IF ok THEN <<ConnInfo.app, PublishInfo'.name>> ELSE granted
    /\ causes' = causes \union If(~ok, "callback")

\* The auth callback, with what it looks at.  Of the stream names one is a
\* key; to look it up, to take the lock or to store the document may fail, and
\* a player may not be on this host.
callback(publisher) ==
  \E ok \in BOOLEAN :
    /\ ok => IF publisher
             THEN ConnInfo.app \in {"vods", "vods-relay"} /\ PublishInfo'.name = "live_id_key"
             ELSE ConnInfo.app = "local"
    /\ granted' = IF ok THEN <<ConnInfo.app, PublishInfo'.name>> ELSE granted
    /\ causes' = causes \union If(~ok, "callback")

Status(code) == Answer(code, 0)

HandlePublish(b) ==
  /\ Hear(b, {"publish"})
  /\ isPublisher' = TRUE
  /\ publishOrPlay(Tail(b.v))
  /\ callback(TRUE)
  /\ IF granted' = granted THEN Close
     ELSE Reply(<<Status("NetStream.Publish.Start")>>, "publishing")
  /\ UNCHANGED ConnInfo

playResp ==
  Reply(<<Answer("SetRecorded", 0), Answer("SetBegin", 0), Status("NetStream.Play.Reset"),
          Status("NetStream.Play.Start"), Status("NetStream.Data.Start"),
          Status("NetStream.Play.PublishNotify")>>, "playing")

\* isPublisher is still what NewConnServer made it when the callback asks.
HandlePlay(b) ==
  /\ Hear(b, {"play"})
  /\ publishOrPlay(Tail(b.v))
  /\ callback(isPublisher)
  /\ IF granted' = granted
     THEN Close /\ UNCHANGED isPublisher
     ELSE playResp /\ isPublisher' = FALSE
  /\ UNCHANGED ConnInfo

\* releaseStream, FCPublish, FCUnpublish, deleteStream and names it does not
\* know are not answered.
HandleOther(b) ==
  /\ Hear(b, {"releaseStream", "checkBandwidth"})
  /\ UNCHANGED <<phase, buffer, out, ConnInfo, PublishInfo, isPublisher, transactionID,
                 granted, causes>>

handleCmdMsg ==
  /\ phase = "commands"
  /\ Take
  /\ IsCommand(Head(inbox))
  /\ LET m == Head(inbox) IN
     \E b \in {Decoded(m)} :
       /\ heard' = [means |-> m.means, v |-> b.v, e |-> b.e, kind |-> m.kind,
                    fresh |-> decoder = NewTables]
       /\ \/ DecodeFails(b) \/ HandleConnect(b) \/ HandleCreateStream(b)
          \/ HandlePublish(b) \/ HandlePlay(b) \/ HandleOther(b)
  /\ UNCHANGED <<deadline, player, client>>

\* Messages of other types.
SkipMsg ==
  /\ phase = "commands"
  /\ Take
  /\ ~IsCommand(Head(inbox))
  /\ Quiet
  /\ UNCHANGED <<phase, deadline, buffer, out, server, player, client, causes>>

-----------------------------------------------------------------------------
(* VirReader.Read and ConnServer.Write *)

IsMedia(m) == m.type \in {"video", "audio", "data0", "data3"}
At0(w, i) == IF i <= Len(w) THEN w[i].byte ELSE 0

\* parseVideoHeader: "" for an error, else what the relay asks of the header.
VideoKind(w) ==
  LET frameType == At0(w, 1) \div 16
      packetType == IF frameType \in {1, 2} THEN At0(w, 2) ELSE 0
  IN  CASE Len(w) < 5 -> ""
        [] Len(w) >= 5 /\ frameType = 1 /\ packetType = 0 -> "header"
        [] Len(w) >= 5 /\ frameType = 1 /\ packetType # 0 -> "key"
        [] Len(w) >= 5 /\ frameType # 1 -> "frame"

\* parseAudioHeader; of an AAC packet it takes the second byte without looking
\* whether there is one, and panics.
AudioKind(w) ==
  IF w = << >> THEN ""
  ELSE IF At0(w, 1) \div 16 = 10 /\ Len(w) = 1 THEN "panic"
  ELSE IF At0(w, 1) \div 16 = 10 /\ At0(w, 2) = 0 THEN "header" ELSE "audio"

DemuxH(m) ==
  IF m.type = "video" THEN VideoKind(m.wire)
  ELSE IF m.type = "audio" THEN AudioKind(m.wire)
  ELSE IF m.wire = << >> THEN "" ELSE "header"

\* Read recovers from the panic and returns the packet, which still has the
\* header of the one before.
Kind(m) ==
  IF DemuxH(m) # "panic" THEN DemuxH(m)
  ELSE CASE header = "none" -> "none" [] header = "aac" -> "header" [] header = "other" -> "audio"
HeaderAfter(m) ==
  IF DemuxH(m) = "panic" THEN header
  ELSE IF m.type = "audio" /\ DemuxH(m) = "header" THEN "aac" ELSE "other"

PacketOwnType(m) == [type |-> m.type, kind |-> Kind(m), body |-> m.wire]

\* What SendPacket hands to Write: metadata of either type goes as AMF0.
Packet(m) ==
  [type |-> IF m.type \in {"data0", "data3"} THEN "data0" ELSE m.type,
   kind |-> Kind(m), body |-> m.wire]

\* Without SetDataFrame; an error ends the player.
WriteToPlayer(p) ==
  LET reform == Reform(p.body, "DEL")
      body == IF p.type = "data0" THEN reform ELSE [e |-> "", w |-> p.body]
  IN  IF ~playing THEN UNCHANGED <<playing, played>>
      ELSE IF body.e # "" THEN playing' = FALSE /\ UNCHANGED played
      ELSE played' = Append(played, [p EXCEPT !.body = body.w]) /\ UNCHANGED playing

ReadPacket ==
  /\ phase = "publishing"
  /\ Take
  /\ Quiet
  /\ LET m == Head(inbox) IN
     IF ~IsMedia(m) THEN UNCHANGED <<phase, player>>
     ELSE IF DemuxH(m) = "" THEN Lost /\ UNCHANGED header
     ELSE WriteToPlayer(Packet(m)) /\ header' = HeaderAfter(m) /\ UNCHANGED phase
  /\ UNCHANGED <<deadline, buffer, out, server, client, causes>>

\* The session that is recorded is over, and its teardown closes the publisher's
\* connection; or the relay closes that of a player.
SessionEnds ==
  /\ phase \in {"publishing", "playing", "stopped"}
  /\ phase' = "closed"
  /\ playing' = FALSE
  /\ causes' = causes \union {"over"}
  /\ Quiet
  /\ UNCHANGED <<deadline, inbox, buffer, out, server, played, header, client>>

\* VirWriter.Check reads what a player sends, and forgets it.
Check ==
  /\ phase = "playing"
  /\ Take
  /\ Quiet
  /\ UNCHANGED <<phase, deadline, buffer, out, server, player, client, causes>>

-----------------------------------------------------------------------------
Server == ReadC0C1 \/ ReadC2 \/ ReadFails \/ handleCmdMsg \/ SkipMsg \/ ReadPacket \/ Check
Next == Client \/ Server \/ TimeOut \/ SessionEnds

\* A goroutine that has something to read reads it (one of Server's steps does,
\* whatever the message), sees that the client is gone, and deadlines pass.
Receive == ~Over /\ Take
Spec ==
  Init /\ [][Next]_vars /\ WF_inbox(Receive) /\ WF_vars(ReadFails) /\ WF_vars(TimeOut)

-----------------------------------------------------------------------------
(* Properties *)

\* The variables have their types.
TypeOK ==
  /\ phase \in {"C0C1", "C2", "commands", "publishing", "playing", "stopped", "closed"}
  /\ {deadline, isPublisher, playing, open} \subseteq BOOLEAN
  /\ causes \subseteq Causes
  /\ header \in {"none", "aac", "other"}
  /\ Len(inbox) <= Room
  /\ Len(asked) <= MaxCommands
  /\ Len(published) <= MaxMedia
  /\ transactionID \in Int
  /\ granted \in ({"vods", "local"} \X StreamNames) \union {Nobody}

\* What handleCmdMsg decodes of a command is what the client has encoded, whatever
\* the tables of the connection's decoder hold, and of an argument of another kind
\* it is what the kind says: read as something else, or an error that ends the
\* command.  Of references this is said of the first message with such an argument
\* only, as the tables are never emptied.  Whenever a command is decoded its name is
\* heard, and commands in AMF0 leave the tables as they are.
CommandsHeard == heard # Nothing =>
  LET decoded == heard.e = "EOF"
      asMeant == heard.v = heard.means
      Is_(kind, reference) == heard.kind = kind \/ (heard.kind = reference /\ heard.fresh)
  IN  /\ Is_("plain", "refers") => decoded /\ asMeant
      /\ Is_("misread", "elsewhere") => decoded /\ ~asMeant
      /\ Is_("refused", "nowhere") => ~decoded
      /\ decoded => heard.v[1] = heard.means[1]
      /\ heard.fresh /\ heard.means[1] # Str("checkBandwidth") => decoder = NewTables

Numbered(names) == {n \in DOMAIN asked : asked[n] \in names}

\* The results that a client gets are those of its connect and createStream, in
\* order, under their numbers and without a gap, although one transactionID is
\* kept for all commands and commands come before the last one is answered.
AnswersMatch ==
  LET requests == Numbered({"connect", "createStream"}) IN
  \A i \in Results :
    /\ out[i].tid \in requests
    /\ \A j \in Results : i < j => out[i].tid < out[j].tid
    /\ \A n \in requests : n < out[i].tid => \E j \in Results : out[j].tid = n

\* A connection publishes or plays under the application and the name that the
\* auth callback has accepted, and as what it has accepted, whatever other
\* commands come before and after.
AuthorisedIsUsed ==
  phase \in {"publishing", "playing"} =>
    /\ granted = <<ConnInfo.app, PublishInfo.name>>
    /\ isPublisher = (phase = "publishing")
    /\ ConnInfo.app \in (IF isPublisher THEN {"vods", "vods-relay"} ELSE {"local"})

\* While the client is there, the server stops reading from it or closes its
\* connection only for one of the causes listed: no deadline of the handshake
\* outlives it, and no command that is merely unknown, or comes at an odd moment, or
\* has an argument of which no reading is refused, is an error.  Not all causes are
\* faults of the client: RTMP and AMF allow the arguments and the references that
\* are refused, video command frames, and a C2 that is signed.
ClosedForCause == open /\ Over => causes # {}

\* Of what is published, the server has read all but what is on its way.
Taken ==
  LET unread == {inbox[i].means[1].num : i \in {k \in DOMAIN inbox : IsMedia(inbox[k])}}
  IN  IF unread = {} THEN Len(published) ELSE Min(unread) - 1

\* What ends a player or the publisher, of the first n messages.
Ends(n) == {i \in 1..n : published[i].type = "data3" \/ published[i].body = << >>}

\* A sound that is cut off has the kind of the last message before that is whole.
KindShown(i) ==
  LET whole == {j \in 1..i : published[j].kind # "cut"}
      last == published[Max(whole)]
  IN  IF published[i].kind # "cut" THEN published[i].kind
      ELSE IF whole = {} THEN "none"
      ELSE IF last.type = "audio" THEN last.kind ELSE "audio"
Shown(i) == [type |-> published[i].type, kind |-> KindShown(i), body |-> published[i].body]

\* A player gets what is published, in order, with the kind that the relay's
\* cache goes by, and without SetDataFrame: all of it up to the first metadata
\* of type 15, which ends the player, or to the first message that has no
\* header, which ends the publisher.  A sound that is cut off has the kind of
\* the packet before: after a sequence header it would take that one's place.
RelayedWhole ==
  LET upTo == IF Ends(Taken) = {} THEN Taken ELSE Min(Ends(Taken)) - 1
  IN  played = [i \in 1..upTo |-> Shown(i)]

\* A connect or createStream is answered, unless the connection is closed or
\* has begun to publish or play: what writeMsg buffers is flushed.
Answered ==
  \A tid \in 1..MaxCommands :
    (tid \in Numbered({"connect", "createStream"}))
      ~> \/ Answer("_result", tid) \in Range(out)
         \/ phase \in {"publishing", "playing", "stopped", "closed"}

\* No client holds a connection in the handshake: it is over, one way or the
\* other, also when nothing more comes.
HandshakeBounded == phase \in {"C0C1", "C2"} ~> phase \notin {"C0C1", "C2"}

=============================================================================
