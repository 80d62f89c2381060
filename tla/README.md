# Verification of VodTransmuxer

VodTransmuxer accepts RTMP publishers, checks their stream key against MongoDB,
makes sure that a user is recorded once, relays the stream inside the process to
an `ffmpeg` that writes it into an FLV file, and at the end queues one transcode
job per rendition on RabbitMQ. This directory holds TLA+ models of that, the TLC
runs that check them and the proofs that TLAPS checks. Paths are relative to the
repository's root; `rtmp/` is short for `src/protocol/rtmp/`.

## 1. Inventory

| Component | State | Operations | Interacts with |
|---|---|---|---|
| Stream lock and take-over (`rtmp/rtmp.go` 90-213, `svc/redis/redis.go`) | ctx, `redisCh`, the table of subscriptions, the key `streamer-live:<user>` | auth callback: find user, subscribe, publish `drop`, SetNX loop; listener; keeper (Expire every 15 s, Del at the end); dispatcher | Redis, other processes through it, the recording session through ctx |
| Recording session (`rtmp/rtmp.go` 271-515, `main.go` 136-160) | the VOD document, the FLV file, ffmpeg, `wg`, the gauge | insert, publish response, ffprobe, ffmpeg, wait for ctx, SIGINT and kill, teardown | MongoDB, RabbitMQ, ffmpeg, shutdown |
| Player queue (`rtmp/vir.go` VirWriter) | `packetQueue`, `closed` | Write, DropPacket, SendPacket, Check, Close | relay, CheckAlive, the player's connection |
| Relay and packet cache (`rtmp/stream.go`, `rtmp/cache/`) | table of streams, players of a stream, cache | HandleReader, HandleWriter, TransStart, closeInter, CheckAlive | publisher, players |
| Chunk stream and connection (`rtmp/core/conn.go`, `chunk_stream.go`, `read_writer.go`) | per chunk stream: partial message; chunk sizes, ack counters | Read, Write, ack, control messages | both ends of the relay |
| RTMP commands (`rtmp/core/conn_server.go`) | `transactionID`, `ConnInfo`, `PublishInfo`, `isPublisher`, the decoder's tables, buffered answers | ReadMsg, connect, createStream, publish, play, others; Write | auth callback, handshake, AMF, relay |
| Handshake (`rtmp/core/handshake.go`) | the connection's deadline | C0C1, S0S1S2, C2, simple or signed | connection |
| AMF codec (`protocol/amf/`) | the AMF3 tables of strings, objects and traits | encode, decode, metadata rewriting | commands, relay |
| FLV demuxer, h264 and aac parsers (`protocol/flv/`, `parser/`) | none | header bits of a packet | VirReader |
| Renditions (`rtmp.go` 400-471) | none | what ffprobe says to a list of renditions | recording session |
| Packet list (`utils/queue`) | list | Push, Pop, All | nothing uses it |
| Service clients, health, monitoring, configuration | connections | calls | the above |

What is hard here: sessions of one user in one or several processes take over
from each other through lossy pub/sub and an expiring key; a session is four or
five goroutines joined by one context; every external call can fail with or
without effect; shutdown and crashes come at any time; the relay shares maps and
channels without locks. `PROJECT.json` lists the hazards one by one, each with the
properties that cover it or the reason why none does.

What makes each component correct:

- *lock*: one recording per user; a keeper touches only its own key; a take-over
  order arrives; the key goes away when its session does;
- *recording*: a counted session settles its document; jobs are backed by a
  document and a finished file; counters are exact; cancellation and shutdown end;
- *player queue*: the publisher never waits for room; thinning neither loses what
  is precious nor duplicates anything; Write returns;
- *relay*: a player gets gapless video from a key frame, with its headers; a
  stream that ended leaves the table and its players are closed;
- *chunk layer*: a message is delivered as it was sent, however its
  chunks interleave with others and with changes of chunk size;
- *commands*: what the client encoded is what the server hears; answers reach it
  under the numbers of its requests; it publishes or plays what the auth callback
  accepted, and as long as it is there it is closed only for a reason that can be named;
- *handshake*: it ends, one way or the other, and its deadline ends with it;
- *AMF codec*: it decodes what it encodes, and what other encoders write;
- *FLV headers*: the packets that the relay's cache takes for key frames and headers
  are those.

## 2. Modules and plan

| Module | Models | Status |
|---|---|---|
| `Lease` | the promise of the take-over protocol | done |
| `StreamLock`, `MCStreamLock`, `StreamLockProofs` | lock and take-over; implements `Lease` | done |
| `Recording`, `MCRecording`, `RecordingProofs` | recording session and shutdown | done |
| `PlayerQueue` | the promise of a player's queue: first in, first out, until a packet is lost | done |
| `VirWriter`, `VirWriterProofs` | a player's queue; implements `PlayerQueue` | done |
| `Relay`, `MCRelay`, `RelayProofs` | one stream's relay and cache | done |
| `QueueProofs` | what `PlayerQueue` implies, and `Relay` and a player's queue composed | done |
| `Pipe` | the promise of the chunk layer: finished messages come out in order, once and for good | done |
| `ChunkStream`, `MCChunkStream`, `ChunkStreamProofs` | chunk reassembly, chunk sizes, acknowledgements, buffers; implements `Pipe` | done |
| `AmfData` | the values and bytes that the codec and the commands speak of | done |
| `Amf` | both AMF codecs and the rewriting of metadata, as operators | done, model-checked only (recursive) |
| `Session`, `MCSession`, `SessionProofs` | a connection from the handshake through the commands to the packets a publisher sends and a player gets; `MCSession` gives it the codec of `Amf` | done |
| `RelayedProofs` | that what a publisher sends reaches a player, on top of `SessionProofs`; that the two are ends of a `Pipe` | done |

How they compose: `StreamLock` decides *when* a session is cancelled and
`Recording` what the process then does; the shared event is the cancellation of
ctx (`Drop` and `Shutdown` in `Recording`, `Receive`, `KeeperFail` and `Shutdown`
in `StreamLock`). The publisher of `Relay` is one counted session of `Recording`,
its players are that session's ffprobe and ffmpeg; `Relay`'s `Send` to an open
player is a `Write` of a `VirWriter`, whose thinning `Relay` leaves out. `QueueProofs`
composes the two through `PlayerQueue`: the n-th packet that the queue of `w` is asked
to take is `got[w][n]`. They are coupled by `asked <= Len(got[w])` and not by
equality, as `Relay` sends the packets of the cache in one step. What
`ChunkStream` delivers are the messages of `Session`'s `inbox`, and its `PayloadKept`
is what lets `Relay` treat a packet in the cache as a value. `callback` in `Session`
is where a session of `StreamLock` and `Recording` begins: it says only which
application and name the callback looks at and that it may refuse. `Packet` in
`Session` computes the kinds that are given in `Relay` and `VirWriter`
(`header`, `key`, `frame`, `audio`), from the bytes that DemuxH reads.
`Session` relays to one player, without a queue: what the queue and the cache do to
the sequence is `VirWriter`'s and `Relay`'s subject.

## 3. How the modules correspond to the code

### StreamLock

One session per publisher connection (it has one vodID). `pc` is the position of
handleConn: `new` (before the user is found), `announce` (before PUBLISH), `lock`
(the SetNX loop), `insert` (Twitch and InsertOne), `live`, `ended`, `dead` (its
process is gone). `cancelled` is ctx. `subs` is `RedisInst.subs`, `active` the
subscriptions in force at the server, `wire` the messages on their way to a
process, `inbox` the channel `redisCh`, `listener` and `keeper` the goroutines of
lines 154-163 and 189-212. A drop is named by its vodID. Messages on `wire` and in
`inbox` form sets: a vodID is published once, and the listener's reaction does not
depend on the order.

External, from how the code uses it: Redis' key with its expiry (counted in
15-second periods, so 30 s is `LockTTL = 2`), pub/sub (a message reaches the
processes subscribed at that moment; with `Flaky` a broken connection loses what
is on its way and is subscribed again). UNSUBSCRIBE takes effect at once. A call
with ctx fails when ctx is done and, with `Flaky`, at any time; it may have had
its effect in both cases. `Deliver` is the dispatcher's whole loop body under
`subsMtx`, its panic on a closed channel included: `Fatal` ends the process (`Die`).

### Recording

`pc`: `auth`, `ready` (document inserted), `setup` (counted), `transmux` (waiting
for ctx), `waiting` (after SIGINT), `teardown`, `publish` (jobs), `closing`,
`ended`; `refused` for a return before the teardown is registered; `dead`. `ffmpeg`
is the goroutine that runs it, `process` says whether `ffmpegCmd.Process` is set,
without which `Signal` panics (`fatal`): the teardown runs and the process ends.
`old` is the minute of line 321. `UpdateFails` is where the global context
matters: it is cancelled once the process shuts down. Whatever ends a session from
outside is `Drop`. The teardown's `connServer.Close()` ends the publisher of
`Relay` (`Disconnect`) and has no variable here.

### VirWriter

The real numbers are kept in proportion: `High` (1000 of 1024) is where Write
calls DropPacket, `Runs` (940) its iterations, `VideoMark` (1014) and `AudioMark`
(1022) its limits. A goroutine switch can happen between any two channel
operations, so an iteration of DropPacket is `DropPop` (the receive, which waits)
and `DropJudge` (what it does with the packet). Close is three steps, as nothing
makes its test of `closed` and its close atomic; `crashed` is the panic of closing
twice. Timestamps are left out. `sent` is what was written to the player, in that order.

In `PlayerQueue` the packets that wait are `Waiting`: the queue and, between `DropPop`
and `DropJudge`, the packet in DropPacket's hand behind them. So `DropPop` is `Turn`
(the first packet becomes the last) and `DropJudge` is `Drop` (the last is dropped) or
nothing. `End` is how the queue ended: its channel is closed, or SendPacket failed.
`closed`, `conn` and the closers do not appear there.

### Relay

One key, as every publisher has one of its own; HandleReader's branch for a key in use
cannot be taken and is left out. Under the key there is the publisher's stream
(`Published`), or one without a reader that a player's HandleWriter made and that bears
the player's name. HandleWriter's Load and what it does then, `StoreEmpty` or
`AddWriter`, are separate steps, as the table may change in between: `at` is the
stream found, which may have been deleted by the time the player is added to it, and
`stray` are the players that were added to the empty stream of another. `check` is the
stream that CheckAlive is in; an empty one has members but nobody sends to them, so that
they are timed out. `relay` is the publisher: `stored`
(before TransStart runs), `reading`, `sending` (in the Range), `closing`, `ended`.
sync.Map's Range is not atomic: `todo` and `unseen` are the players it has still to
visit, and one that is stored meanwhile may be visited or not. The cache holds the
position of the last header (metadata, audio and video headers have a SpecialCache
each, all alike) and those of the group of pictures.

### ChunkStream

The wire is a sequence of headers, extended timestamps and units of payload. A
unit stands for at least four bytes, so that a timestamp is never part of one; its
value is the message and position it comes from. An acknowledgement is *written* when the
window is full (`acked`), into the buffered writer, where it waits with others
(`unflushed`, at most `BufferRoom`) until the writer has no room for one more or this
end flushes something else it has written (`Flush`); only then has the peer been told
(`told`). `chunks`, `remoteChunkSize`,
`remoteWindowAckSize` and `ackReceived` are Conn's fields; `mem` and `pos` the
pool's buffers, and a message's `Data` is where it is in them, so that `PayloadKept`
is about memory that later messages share. `ReadChunk` is one turn of Conn.Read's
loop, done when the whole chunk has arrived: nothing else touches the reader's
state. `ReadError` is the error kept in the ReadWriter, which makes everything
after a broken connection fail although most callers ignore it.

The peer is either this code, with `writeChunk` and `writeHeader`: `Write` is the
first turn of writeChunk's loop and `WriteOn` each further one, as Read may run
between any two of them; or another RTMP implementation (`Begin`, `Continue`), external: it may use any header
format that says what it means and interleave chunk streams. What such a peer must
do for its messages to arrive is in its guards, and in what a unit is: chunk
streams below 64; payload that does not begin with the bytes of the current timestamp, if
it does not repeat extended ones, and no chunk of one to three bytes of payload in that
case, as Peek(4) waits for four bytes, or fails when the connection ends
(`chunk_stream.go:227`); and no difference of 4.6 hours or more in a type 1 or 2 header of a
message of several chunks, if it repeats it, because readChunk compares the
repeated value with the absolute timestamp. An empty message is never written by
writeChunk, so it does not count as finished by an "own" peer; an empty one of
another peer is delivered.

### Amf

Bytes are items: a marker, a flag or one byte of a variable-length integer, a
fixed-length number, or the characters of a string, which are one item. So lengths,
markers, tables and errors are as in the code and nothing is put together character
by character. Go values are records named after their type. A decoding function
takes a reader (the rest of the bytes, the Decoder's tables, the last value and
error) and returns one. Where the AMF3 decoders do not look at how many bytes there
were, a short string is filled up with zeros (`ReadUpTo`). `io.EOF` is kept apart from all other errors, because
handleCmdMsg takes it for the end of the batch: `Wrap` is `fmt.Errorf`, which turns
it into one of those. `StringMax` stands for 65535. Go's maps have no order: encoders
return the set of what may be written. References and movie
clips of AMF0 are errors. Left out: what a type switch of Go
distinguishes in numbers (all widths are written alike). Of external handlers the
server registers none, so that their classes are refused.

`AmfData` holds what both `Amf` and `Session` speak of: items, values, an empty
reader. The decoding functions call each other and are RECURSIVE operators, which
no proof may reach, so `Session` does not extend `Amf`. It has the codec for
parameters: `Decode` (DecodeBatch), `EncodeBatch`, `Reform` (MetaDataReform) and
`MetaData`; `MCSession` extends `Amf` and gives them its operators.
`ReformAssumption`, which TLC evaluates there, is all that is assumed of them: the
rewriting that a publisher's metadata goes through undoes what `ADD` has done, leaves
plain metadata as it is, and refuses it behind another byte.

### Session

`phase` is where the connection's goroutine stands: reading C0C1 or C2, in ReadMsg,
in VirReader's loop (`publishing`), in Check (`playing`), `closed`; or `stopped`, when
it has left VirReader's loop and nobody reads from the connection any more, but the
connection is still open. When reading fails (`Lost`) TransStart closes the players and
not the publisher's connection; that is closed by the teardown of the session which is
recorded, whenever that comes (`SessionEnds`). `buffer` is
the buffered writer and `out` what the client received; `Reply` is a flush. `handleCmdMsg`
is one action: it decodes the message with the connection's decoder and does what
the command's name says; `heard` remembers what the client meant and what was read,
for `CommandsHeard` only. `granted` is what the callback last accepted. `ReadPacket`
is VirReader.Read with DemuxH, followed by the one player's Write. `header` is what
the relay's packet had for a header, because Read recovers from a panic in DemuxH and
returns the packet with the previous header in it.

The client is external: it shakes hands in any of the ways the code accepts, or
wrongly; asks for connect, createStream, publish and play in the order that clients
do, without waiting for answers it does not need, and twice where that is possible;
sends commands the server does not know, with an argument of any kind (`AllArgs`
in `MCSession`: each kind of value of AMF0 and AMF3, flex's messages, references
within a message, integers at the boundaries of their lengths); sends control
messages between them; and goes at any time.

Each argument is encoded as AMF says, with what the client means by it, and bears a
`kind` that says what the decoder makes of it; `CommandsHeard` is that it does.
`plain` arguments are read as they were meant. `misread` ones are read as something
else: integers of 2^28 and more (negative), a string of AMF3 that is shorter than it
says (filled up with zeros). `refused` ones end the command: an empty
string or array at the end of a message, an array with keys, references of AMF0, a class
without a handler. References of AMF3 are numbered as AMF3 does it, strings and
classes by themselves, objects, arrays, dates and byte arrays together from where each
begins. The decoder numbers an array behind its elements, has nil for an object, and
looks up objects and arrays under half their number. So a reference may be found
(`refers`), be read as something else (`elsewhere`) or be in no table (`nowhere`; the
code panics there, in the model the argument is not decoded). Of references all this is
said for the first message that has such an argument: later ones are off by what it has
left in the tables, and nothing is said of them.

`causes` collects what there has been for the server to stop or close, and
`ClosedForCause` says that it does neither without one of them while the client is
there. They are not all the client's fault. A hello that is neither plain nor signed, a
C2 that is no echo, a slow handshake and a connect that is not the first command are;
a C2 that is signed, an argument or reference that is refused, and a video
command frame are allowed by RTMP and AMF, and the server closes the connection, or stops
reading, all the same; the callback's refusal and the end of what is recorded or played
are none of the client's doing.

## 4. Runs

| Run | Question | Bounds |
|---|---|---|
| `stream_lock_faults` | exclusivity and refinement under failures, lost messages, crashes, shutdown | 2 sessions of a user in 2 processes, both mortal |
| `stream_lock_three` | whether a take-over order is lost when redisCh fills and is closed | 3 sessions in one process, redisCh of 2 |
| `stream_lock_live` | take-over and release of the key | 2 sessions in 2 processes, one mortal, calls succeed until ctx is done |
| `recording_faults` | counters, jobs and documents | 2 sessions, up to 2 renditions, failing services |
| `recording_live` | settling, cancellation, shutdown | 2 sessions, 1 rendition |
| `recording_queued` | finding: a recording cut by shutdown is not queued | 1 session |
| `vir_writer` | the queue under thinning and closing, and that it implements `PlayerQueue` | 4 packets, nearly full at 3, of 6 |
| `relay_safe` | what players are sent | 2 players, 4 packets, a group of at most 2 |
| `relay_live` | the table is cleaned up | 2 players, 2 packets |
| `relay_silent` | finding: a player left out of the stream that HandleWriter makes | 1 player |
| `chunk_stream` | messages through the chunk layer, and that it implements `Pipe` | 3 messages of 0 or 3 units, two media chunk streams, chunk size 2 then 1, timestamps on both sides of the mark, modulo 8, room for one acknowledgement |
| `session` | handshake, commands, answers, what is relayed | 4 commands, 2 of them with an argument of any of the kinds in `AllArgs`, 2 media messages, 2 messages on their way |

Why the bounds are enough: the lock protocol is about pairs of sessions of one
user (different users share neither channel nor key), and a third one is needed
only to fill a channel of two while two drops are to come. `MaxTries` is 1 in the
runs and 8 in the code: trying again has no effect but time, and the proofs hold
for every number. A channel of two is the smallest in which another session's drop
can be behind the session's own, and the proof covers every larger one. Sessions
of a process interact only through counters and shutdown, so two suffice; the
proofs again cover any finite number. In `VirWriter` three packets fill the queue
and the fourth starts the thinning. In `Relay` four packets are a header, a key
frame, one frame more and the one after a player joined. In `ChunkStream` three
messages let two interleave while a third changes the chunk size, and let a header
of type 3 follow one of type 1 or 2; three units are a full chunk and one that is
not, and after a change of size three full ones; a buffer of four units is left
for a new one while its messages are in use. A buffered writer with room for one
acknowledgement (`BufferRoom`) fills when there is a second; 4096 bytes are room for
about 256. The peer waits while three or more
items are unread (`WireCap`), as what Read does depends on nothing but the order
on the wire; the proof is for every such bound. In `Session` four commands are connect, createStream, publish or
play, and one more before or after any of them; two arguments of any kind let the
second be decoded with the tables the first has left; two messages on their way let a
command arrive before the last one is answered; two media messages let each kind
follow each other one, which is all that `header` can remember. `StringMax` is 25,
between the lengths of the strings that are sent, so that long strings occur.

Every property of a passing run has a mutant, an operator beside the one it
replaces that makes a plausible mistake, under which TLC finds that property
violated.

No run checks for deadlock: all systems here may stop (all sessions over, the
process gone, the publisher or the client silent).

## 5. Fairness

Weak fairness of every goroutine's own steps (the Go scheduler runs runnable
goroutines; channels, timers and calls with a deadline return), of message
delivery and of time passing. None for what nobody guarantees: that a stream
starts or ends, ffmpeg exits or obeys, a call fails, a process stops, a player or
publisher leaves. In `ChunkStream` the properties are safety: `NoneWithheld` says
what must be returned once everything is read. In `VirWriter`, CheckAlive closes a writer only when it is
`Stalled`: the publisher waits in DropPacket on an empty queue, hence nothing is
sent for 10 s. In `Session` a message that has
arrived is read (`Receive`; fairness is stated for the change of `inbox` it makes,
which is the same, as exactly one step reads each message), a connection that broke is
noticed, and a deadline passes; none for the client, so `Answered` and
`HandshakeBounded` hold for silent ones. In `Relay` strong fairness says that a check that keeps finding a
player of an ended or an empty stream will at some time find it dead: nothing is sent to
it any more, and it is alive for at most 10 s. `Flush` in `ChunkStream` has no fairness:
nothing makes this end write anything else.

## 6. What is proved

`StreamLockProofs`, for any finite set of sessions, any users, processes, tries,
channel size of at least two and expiry of at least two periods:

- `TypeCorrect`;
- `LockSafe`, assuming `Timely`: the inductive invariant is `TypeOK /\ LockInv`.
  `KeeperOwnsKey` alone is not inductive: a period may pass between two renewals,
  so one must know that a keeper that owes no renewal has a full key
  (`RenewedKey`), of which one period leaves at least one. Nobody else can set the
  key then (SetNX), and Del and Expire, which name it and not its value, reach
  only the keeper's own. `LiveHasKeeper` ties the session to the key;
- `Exclusive`: two recording sessions of a user would both own its one key;
- `Implements`, assuming `Timely`: each step is an `Acquire`, a `Retire` of one
  session or of a whole process, or a stutter of `Lease`;
- `NoDropLost`, assuming that calls succeed: a full channel of at least two
  messages holds one that is not the session's own.

`RecordingProofs`, for any finite set of sessions, with or without faults:
`TypeCorrect`; `JobsAreBacked`, `JobsFollowFfmpeg` and `SessionsSettle` from one
inductive invariant per session that says what each position of handleConn
implies about the document, jobs and ffmpeg; `CountersAreExact`, by showing for
each step how one session's move changes the two cardinalities.

`VirWriterProofs`, for any capacity, marks in the code's order (`High` at most both
marks), any number of packets and either `Faulty`: `TypeCorrect`, `QueueNeverFull`,
`PacketsOnce` and `ThinningKeepsPrecious`. The inductive invariant adds that numbers
are given out by Write only (`MadeBefore`) and that DropPacket and SendPacket hold a
packet only at their places (`Holding`), without which a packet in DropPacket's hand
could be overwritten. The key is that the queue with the packet in hand stays at
`High`: the branches of DropPacket that drop something else are dead, and
`ThinningKeeps` follows. `ImplementsQueue`: each step is one of `PlayerQueue` or a
stutter. Since `PlayerQueue` turns and thins the queue only after a packet was lost,
one must know that while DropPacket runs the packet for which Write called it is
nowhere any more.

`QueueProofs`, for any kinds of packets and any limit: the inductive invariant
`QueueInv` of `PlayerQueue` says that numbers are of packets that have come
(`QueueTypes`), that none is in two places (`Once`) and that, as long as nothing is
lost, what was given, what is on its way and what waits are 1, 2, 3, ... (`InOrder`). It is
inductive because what was lost stays lost (`StaysLost`): only steps after which
nothing is lost have to keep the order, and `Turn` and `Drop` are none. From it
`FirstInFirstOut` and `GivenOnce`. Composed with `Relay` (`PlayerSpec(w)`, for any
players and number of packets): `ShownUntilLost`, what goes over a player's
connection has the three properties of `RelayProofs` until the queue loses a packet,
because it is then the beginning of what `Relay` sent; and `NoVideoTwice`, even after
losses. `Relay` assumes that a Write to an open player returns, which is what
`QueueNeverFull` and `WriteReturns` are about.

`RelayProofs`, for any set of players, number of packets and limit of the group:
`TypeCorrect`, `FeedsHaveNoGap`, `FeedsBeginWithKey`, `HeadersComeFirst`. The three
are statements about one player's sequence, so first come lemmas about sequences: each
of them survives another publication (`PublishedKeeps`), the relaying of the next
packet (`Relayed`) and the sending of the cache (`CacheSent`). What makes that
inductive is `UpToDate`: an attached player has all video from its first on, and
the last header, up to the packet that the Range has not yet shown it (`UpTo`); and
`CacheHolds`: the cache has the last header and all video since the last key frame.
That a player is attached at most once (`Joined`) is what keeps the non-atomic Range
from skipping one that needs the packet.

`ChunkStreamProofs`, for any channels, chunk sizes, windows, lengths, timestamps,
number of messages and room on the wire: `ChunkTypes`, `ReadFaithfully`, `PayloadStays`,
`KeepsItsPlace`, `AcksAreExact` and `NothingWithheld`, from one inductive invariant
(`Inductive`), and `ImplementsPipe`. Read does not see where a header begins; what keeps it from losing
its place is that it is, chunk by chunk, where the peer was. So the invariant
(`Sync`) says that there are chunks on the wire, laid one after the other (`Laid`),
and for each the state of the peer before and after it (`Chain`); that the last of
these states is the peer's now, unless the connection broke; and that Read is in step
with the first (`InStep`, `Follows`). A step of the peer adds a chunk and a state at
the end, a step of Read takes one from the beginning. `MemInv` keeps the regions
of memory apart that are returned or still being filled, without which filling one
would change another and `PayloadKept` would not be inductive. `Total` is a recursive
function; `AcksExact` is proved through a function that witnesses the sums
(`Counted`) and is shown to be the only one. In the refinement of `Pipe` a message is
what its header says and the units of its payload; by the invariant what is returned is
the beginning of what is finished, before and after each step (`Mapped`), so that a step
which lengthens one of the two by one is `Return` or `Finish`. Induction over numbers of messages is
done with the least element of a set, as the library's induction theorems take an
operator.

`SessionProofs`, for any codec, any arguments of other commands and any number of
commands and messages:

- `WhatIsAuthorised`, of every behaviour: until the callback accepts, nothing is
  granted and the connection is no publisher (`AuthInv`), and after it no command is
  heard any more;
- `SessionTypes`, `AnswersAreMatched` and `ClosedOnlyForCause`, of every behaviour in
  which the codec does what `CommandsHeard` says (`Spec /\ []CommandsHeard => ...`).
  That hypothesis is a property of run `session`, which shows it of the codec in
  `Amf`; it cannot be proved here, as the codec is recursive. `Inductive` proves the
  invariant `IInv`: what each message on its way is and what it needs of the phase
  (`InboxInv`); the numbers of commands on their way increase, a connect or
  createStream that is not answered is still among them, and every result is of a
  smaller number than all of them (`AnswersInv`), from which it follows that one
  `transactionID` is enough; a command with references is the next to be
  read, by a decoder whose tables are empty, unless there is a cause
  to close the connection (`causes`); and before a connection publishes no medium is
  on its way (`PlaceInv`).

`RelayedProofs`, likewise under `[]CommandsHeard`: `ReachesPlayersWhole`, that is
`RelayedWhole`. On top of `IInv` its invariant `RelayedInv` says that for some `t` the
messages after the t-th are those on their way, in order (`Waiting`), the header that
the packet carries is that of the last whole one of the first `t` (`HeaderAt`), and
the player has what comes before the first of them that ends it (`PlayerInv`,
`UpTo`). `NoneMissed` covers at once all steps that read no medium; `Fitting` says
what DemuxH and MetaDataReform make of each kind of message, and `NextKind` what kind
the relay sees, the recovered panic included. `RelaysAsPipe`: publisher and player are
the two ends of a `Pipe`. Finished is what is published before anything that ends
the one or the other (`Lasts`), returned is what the player has, and the pipe is broken
when the connection is closed. What the player has is a beginning of `Lasts` before and after each
step (`PlayedFirst`), and `Lasts` itself grows by at most one when a message is published
(`OnePublished`), so that each step is one of `Pipe` or a stutter. No run checks this
refinement, as its invariant form `RelayedWhole` is checked by run `session`.

`Timely` says that a keeper does what is due before the next 15 s period ends. The
code does not guarantee it, and there is no fencing: when a process is paused for
longer, its key expires, another session takes it, and the late keeper renews and
deletes that key. Without the assumption exclusivity does not hold.

## 7. Only model-checked, or not modelled

Only model-checked:

- liveness (`TakeOver`, `LockReleased`, `CancelEnds`, `ShutdownCompletes`,
  `WriteReturns`, `EntryRemoved`, `Answered`, `HandshakeBounded`), as TLAPS has
  neither ENABLED nor fairness;
- `CommandsHeard`: the codec is recursive, and what a recursive operator computes
  for every input is beyond TLAPS. It is checked for the values in `AllArgs`, and is
  what the theorems about `Session` (all but `WhatIsAuthorised`) are conditional on;
- the two properties that the code violates (section 8).

Every other property of a run is also a theorem.

Not modelled: the renditions that ffprobe's answer gives (stateless arithmetic on
which nothing in the repository states a promise);
the components that `PROJECT.json` lists as `not_modelled`, with the reason; wording
of logs and of status messages; Prometheus' histograms; Twitch's title and category,
which go into the document and nothing else. In `Session`: acknowledgements
(`ChunkStream` has them), messages longer than the pool's buffer of 1 MiB, a command
without any value (at which the code panics), the panic at an index that is in no table
(here it closes the connection, there it ends the process), the digests of the
handshake, which are found at a place or not, and values nested without end.

## 8. Findings

1. `recording_queued`: the teardown updates the document with the global context
   (`rtmp/rtmp.go:340`), which a shutdown has cancelled. The recording stays `live`
   and unqueued, against `README.md:3`.
2. `relay_silent`: a player whose HandleWriter misses the stream is left out of the one
   that it makes and stores (`rtmp/stream.go:61`), so the timeout of `stream.go:223`
   never reaches it. In the run's trace the publisher has not sent for 10 s, CheckAlive
   closes it and deletes the stream, and the ffmpeg that was started for it asks for the
   stream after that: nobody sends to it, times it out or closes it.

What the models show and no document of the repository speaks about, so that it is
no finding:

- `Write` discards the packet that arrives when a player's queue is nearly full, key
  frames and sequence headers included (`rtmp/vir.go:110`), while DropPacket takes
  care to keep those that are in it;
- DropPacket puts the packets that it keeps behind newer ones, so that once a packet is
  lost the player may get the others out of order (`rtmp/vir.go:66-93`; `InOrder` holds
  only until then);
- a player that has found the stream may be added to it (`rtmp/stream.go:68`) after
  CheckAlive has deleted it: when the publisher has ended by then, nobody times it out
  or closes it either. `SilentPlayerClosed` is not about this one;
- an acknowledgement is written into the buffered writer and not flushed
  (`rtmp/core/conn.go:136-142`). A connection that publishes writes nothing else, so
  that the publisher is told after about 256 of them; one that waits for an
  acknowledgement at a full window waits for ever;
- two closers of a `VirWriter` may both close its channel, which panics
  (`rtmp/vir.go:169`);
- of the arguments that AMF allows, the server closes the connection at an empty
  string or array that ends a command (`src/protocol/amf/util.go:49`), at AMF3 arrays
  with keys (`decoder_amf3.go:222`) and at references of AMF0; integers from 2^28 on are
  read as negative;
- references of AMF3 do not find what they refer to: an object is nil in the table
  (`decoder_amf3.go:297`), an array enters it behind its elements (234), objects and
  arrays are looked up under half their number (206, 254), an index past the end of the
  table panics, and the tables outlive the message (`rtmp/core/conn_server.go:266`);
- a string of AMF3 that is shorter than it says is filled up with zeros
  (`decoder_amf3.go:137`);
- a client that signs C2, as signed clients may, is refused
  (`rtmp/core/handshake.go:190-197`), and a video command frame ends the relay while the
  publisher's connection stays open, unread (`rtmp/stream.go:163-167`);
- metadata sent as type 15 ends the player, because `MetaDataReform` does not skip
  the byte before it;
- an AAC packet of one byte makes DemuxH panic; it is relayed with the header of the
  packet before it, and after a sequence header takes that one's place in the cache.
