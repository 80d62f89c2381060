---------------------------- MODULE ChunkStream ----------------------------
(***************************************************************************)
(* The chunk layer of RTMP (core/): Conn.Read puts messages together from   *)
(* the chunks that arrive, and acknowledges them; Conn.Write cuts messages  *)
(* into chunks.  The peer's messages are cut by this very code ("own") or   *)
(* by another implementation, which interleaves the messages of its chunk   *)
(* streams, compresses headers (types 1 to 3) and repeats an extended       *)
(* timestamp in the chunks that go on with a message ("repeats") or does    *)
(* not ("omits"): the code accepts both.                                    *)
(*                                                                          *)
(* The wire is a sequence of chunk headers, extended timestamps and units   *)
(* of payload, of at least four bytes each: a chunk of one to three bytes,  *)
(* for which Read waits for more if it looks for an extended timestamp, is  *)
(* excluded of an "omits" peer.  Lengths and chunk sizes are counted in     *)
(* units, and a control message is one unit.  Chunk streams are             *)
(* numbered below 64, so each has an entry of its own in Conn.chunks.       *)
(* StreamID is handled as TypeID is, except that type 1 repeats it, and     *)
(* "received" is read by nobody: both are left out.                         *)
(***************************************************************************)
EXTENDS Integers, Sequences, FiniteSetsExt

CONSTANTS
  Media, Control,  \* chunk streams of media; the one of control messages
  Styles,          \* what the peer may be: of "own", "repeats", "omits"
  MaxMessages,     \* messages in a behaviour
  Lengths,         \* lengths of media messages
  ChunkSizes,      \* chunk sizes that may be set
  Windows,         \* acknowledgement windows that may be set
  ChunkSize,       \* 128: chunk size before any is set
  WindowAckSize,   \* 2500000: window before any is set
  PoolSize,        \* maxpoolsize
  Stamps,          \* timestamps of messages, below TsMod
  Mark,            \* 0xffffff: says that an extended timestamp follows
  TsMod,           \* 2^32
  BufferRoom,      \* 256: acknowledgements that the buffered writer holds
  WireCap          \* the peer waits while this much is on the wire

ASSUME ChunkAssumption ==
  /\ Control \notin Media
  /\ Styles \subseteq {"own", "repeats", "omits"}
  /\ {MaxMessages, ChunkSize, WindowAckSize, BufferRoom, WireCap} \subseteq Nat \ {0}
  /\ ChunkSizes \cup Windows \subseteq Nat \ {0}
  /\ PoolSize \in Nat \ {0} /\ Lengths \subseteq 0..PoolSize
  /\ TsMod \in Nat /\ Mark \in 1..(TsMod - 1) /\ Stamps \subseteq 0..(TsMod - 1)

Channels == Media \cup {Control}

Message ==
  [ch : Media, type : {"media"}, len : Lengths, ts : Stamps, value : {0}]
    \cup [ch : {Control}, type : {"chunksize"}, len : {1}, ts : {0}, value : ChunkSizes]
    \cup [ch : {Control}, type : {"window"}, len : {1}, ts : {0}, value : Windows]

VARIABLES
  \* the peer
  style,     \* how it cuts messages
  sent,      \* its messages
  complete,  \* numbers of those that are wholly on the wire, in that order
  size,      \* its chunk size: chunkSize of a Conn
  out,       \* per chunk stream, its current message and how much of it is out
  last,      \* per chunk stream, how the last message header was cut
  \* the wire
  wire, cut,
  \* this end: Conn
  chunks,           \* Conn.chunks
  mem, pos,         \* Pool: the buffers, pos in the last one
  remoteChunkSize, remoteWindowAckSize, ackReceived,
  acked,            \* sum of the acknowledgements written
  told, unflushed,  \* sum of those that have left the buffered writer, and
                    \* number of those still in it
  delivered,        \* what Read has returned
  failed            \* Read has returned an error

peer == <<style, sent, complete, size, out, last>>
conn == <<chunks, mem, pos, remoteChunkSize, remoteWindowAckSize, ackReceived, acked,
          told, unflushed, delivered, failed>>
vars == <<peer, wire, cut, conn>>

Empty == [i \in 1..PoolSize |-> <<0, 0>>]

NewChunk ==  \* ChunkStream{}
  [Format |-> 0, Timestamp |-> 0, Length |-> 0, TypeID |-> "none", timeDelta |-> 0,
   exted |-> FALSE, index |-> 0, remain |-> 0, got |-> FALSE, Data |-> <<1, 0>>]

Init ==
  /\ style \in Styles
  /\ sent = << >>
  /\ complete = << >>
  /\ size = ChunkSize
  /\ out = [ch \in Channels |-> [msg |-> 0, done |-> 0]]
  /\ last = [ch \in Channels |-> [fmt |-> 0, delta |-> 0, ext |-> FALSE]]
  /\ wire = << >>
  /\ cut = FALSE
  /\ chunks = [ch \in Channels |-> NewChunk]
  /\ mem = <<Empty>>
  /\ pos = 0
  /\ remoteChunkSize = ChunkSize
  /\ remoteWindowAckSize = WindowAckSize
  /\ ackReceived = 0
  /\ acked = 0
  /\ told = 0
  /\ unflushed = 0
  /\ delivered = << >>
  /\ failed = FALSE

-----------------------------------------------------------------------------
(* What is on the wire.                                                      *)

\* A header carries the fields of its format only, the others are 0.  A time
\* that does not fit its field is in the extended timestamp that follows.
HeaderOf(fmt, m, ts) ==
  [kind |-> "head", fmt |-> fmt, ch |-> m.ch,
   ts |-> IF fmt = 3 THEN 0 ELSE IF ts > Mark THEN Mark ELSE ts,
   len |-> IF fmt <= 1 THEN m.len ELSE 0,
   type |-> IF fmt <= 1 THEN m.type ELSE "none"]

ExtendedTs(ts) == <<[kind |-> "ext", ts |-> ts]>>

\* writeHeader: a chunk of type 3 has the extended timestamp as well.
writeHeader(fmt, m) ==
  <<HeaderOf(fmt, m, m.ts)>> \o (IF m.ts >= Mark THEN ExtendedTs(m.ts) ELSE << >>)

Payload(n, from, count) ==
  [i \in 1..count |-> [kind |-> "data", msg |-> n, at |-> from + i]]

-----------------------------------------------------------------------------
(* The peer.                                                                 *)

\* A chunk of message n: its header, and what comes after its first `from` units,
\* as far as a chunk goes.
Put(n, m, header, from, chunkSize) ==
  LET count == Min({chunkSize, m.len - from})
      done == from + count
  IN  /\ wire' = wire \o header \o Payload(n, from, count)
      /\ out' = [out EXCEPT ![m.ch] = [msg |-> n, done |-> done]]
      /\ complete' = IF done = m.len THEN Append(complete, n) ELSE complete

\* The previous message of a chunk stream, and whether it is out.
Previous(ch) == sent[out[ch].msg]
Finished(ch) == out[ch].msg # 0 => out[ch].done = Previous(ch).len

\* One turn of the loop of writeChunk; only the first chunk is of type 0.
writeChunk(n, m, from, chunkSize) ==
  Put(n, m, writeHeader(IF from = 0 THEN 0 ELSE 3, m), from, chunkSize)

\* Conn.Write, called when it has returned, and the first turn of the loop: a new
\* chunk size holds from its own message on, and an empty message has no chunk.
Write(m) ==
  /\ style = "own"
  /\ \A ch \in Channels : Finished(ch)
  /\ sent' = Append(sent, m)
  /\ size' = IF m.type = "chunksize" THEN m.value ELSE size
  /\ IF m.len = 0
     THEN UNCHANGED <<wire, out, complete, last>>
     ELSE /\ writeChunk(Len(sent) + 1, m, 0, size')
          /\ last' = [last EXCEPT ![m.ch] = [fmt |-> 0, delta |-> m.ts, ext |-> m.ts >= Mark]]
  /\ UNCHANGED style

\* The further turns.
WriteOn(ch) ==
  /\ style = "own"
  /\ ~Finished(ch)
  /\ writeChunk(out[ch].msg, Previous(ch), out[ch].done, size)
  /\ UNCHANGED <<style, sent, size, last>>

\* The header of a new message in another implementation: a time relative to
\* the previous message of the chunk stream, and only what has changed.
Delta(m) == (m.ts - Previous(m.ch).ts) % TsMod
Sparse(m, fmt) ==
  /\ out[m.ch].msg # 0
  /\ fmt >= 2 => m.len = Previous(m.ch).len /\ m.type = Previous(m.ch).type
  /\ fmt = 3 => /\ Delta(m) = IF last[m.ch].fmt = 0 THEN 0 ELSE last[m.ch].delta
                /\ style = "omits" => ~last[m.ch].ext
  \* A difference that needs the extended timestamp (4.6 hours) cannot be told
  \* from payload in the chunks that go on with the message, if it is repeated.
  /\ style = "repeats" /\ Delta(m) >= Mark => m.len <= size

\* The first chunk of a message, when the previous one of its stream is out.
Begin(m, fmt) ==
  LET t == IF fmt = 0 THEN m.ts ELSE Delta(m)
      ext == IF fmt = 3 THEN last[m.ch].ext ELSE t >= Mark
      stamp == IF fmt = 3 /\ last[m.ch].fmt = 0 THEN m.ts ELSE t
      header == <<HeaderOf(fmt, m, t)>> \o (IF ext THEN ExtendedTs(stamp) ELSE << >>)
  IN  /\ style # "own"
      /\ Finished(m.ch)
      /\ fmt # 0 => Sparse(m, fmt)
      /\ sent' = Append(sent, m)
      /\ last' = [last EXCEPT ![m.ch] =
                    [fmt |-> IF fmt = 3 THEN last[m.ch].fmt ELSE fmt,
                     delta |-> IF fmt = 3 THEN last[m.ch].delta ELSE t, ext |-> ext]]
      /\ Put(Len(sent) + 1, m, header, 0, size)
      /\ size' = IF m.type = "chunksize" THEN m.value ELSE size
      /\ UNCHANGED style

\* The next chunk of the message in progress in a chunk stream.
Continue(ch) ==
  LET m == Previous(ch)
      ext == style = "repeats" /\ last[ch].ext
      header == <<HeaderOf(3, m, 0)>> \o (IF ext THEN ExtendedTs(m.ts) ELSE << >>)
  IN  /\ style # "own"
      /\ ~Finished(ch)
      /\ Put(out[ch].msg, m, header, out[ch].done, size)
      /\ UNCHANGED <<style, sent, size, last>>

Send ==
  /\ ~cut /\ Len(wire) < WireCap
  /\ \/ /\ Len(sent) < MaxMessages
        /\ \E m \in Message : Write(m) \/ \E fmt \in 0..3 : Begin(m, fmt)
     \/ \E ch \in Channels : WriteOn(ch) \/ Continue(ch)
  /\ UNCHANGED <<cut, conn>>

\* The connection breaks, at any place.
Break ==
  /\ ~cut
  /\ cut' = TRUE
  /\ \E n \in 0..Len(wire) : wire' = SubSeq(wire, 1, n)
  /\ UNCHANGED <<peer, conn>>

-----------------------------------------------------------------------------
(* Conn.Read.                                                                *)

\* The header begins a message: a chunk of type 3 does if none is in progress.
IsNew(c, h) == h.fmt # 3 \/ c.remain = 0

\* exted, as the header leaves it.
Extended(c, h) == IF h.fmt = 3 THEN c.exted ELSE h.ts = Mark

\* Mistake: only the header of a new message may have an extended timestamp.
TakesExtOnce(c, h, rest) == Extended(c, h) /\ IsNew(c, h)

\* An extended timestamp is read off the wire.  In a chunk that goes on with a
\* message it is recognised by its value.
TakesExt(c, h, rest) ==
  /\ Extended(c, h)
  /\ \/ IsNew(c, h)
     \/ rest # << >> /\ Head(rest) = [kind |-> "ext", ts |-> c.Timestamp]

\* The header's time: ext is the extended timestamp, if it has one.
HeaderTime(c, h, ext) == IF Extended(c, h) THEN ext ELSE IF h.fmt = 3 THEN c.timeDelta ELSE h.ts

\* timeDelta after a header with time t; the mistake forgets that of type 2.
DeltaOfType1(c, h, t) == IF h.fmt = 1 THEN t ELSE c.timeDelta
TimeDelta(c, h, t) == IF h.fmt \in {1, 2} THEN t ELSE c.timeDelta

\* The chunk stream after the header of a new message; type 3 repeats the last
\* format, and after a type 0 the timestamp, unless there is an extended one.
Started(c, h, ext) ==
  LET format == IF h.fmt = 3 THEN c.Format ELSE h.fmt
      t == HeaderTime(c, h, ext)
  IN  [c EXCEPT
        !.Format = format,
        !.Timestamp = IF format # 0 THEN (c.Timestamp + t) % TsMod
                      ELSE IF h.fmt = 3 /\ ~c.exted THEN c.Timestamp ELSE t,
        !.Length = IF h.fmt <= 1 THEN h.len ELSE c.Length,
        !.TypeID = IF h.fmt <= 1 THEN h.type ELSE c.TypeID,
        !.timeDelta = TimeDelta(c, h, t),
        !.exted = Extended(c, h)]

\* Pool.Get: where the next len units are, in a new buffer if need be; the
\* mistakes take one only when the old one is full, or begin again in the old one.
NewBufferWhenFull(len) == pos = PoolSize
NewBuffer(len) == PoolSize - pos < len
GetReuses(len) == IF NewBuffer(len) THEN <<Len(mem), 0>> ELSE <<Len(mem), pos>>
Get(len) == IF NewBuffer(len) THEN <<Len(mem) + 1, 0>> ELSE <<Len(mem), pos>>

\* ChunkStream.new.
new(c) == [c EXCEPT !.got = FALSE, !.index = 0, !.remain = c.Length, !.Data = Get(c.Length)]

\* The units of the region that begins at data.
Region(data, len) == [i \in 1..len |-> mem[data[1]][data[2] + i]]

\* handleControlMsg: the value is in the payload of the message.
handleControlMsg(c) ==
  LET value == sent[mem'[c.Data[1]][c.Data[2] + 1][1]].value
  IN  /\ remoteChunkSize' = IF c.TypeID = "chunksize" THEN value ELSE remoteChunkSize
      /\ remoteWindowAckSize' = IF c.TypeID = "window" THEN value ELSE remoteWindowAckSize

\* An acknowledgement is written into the buffered writer, which sends what it
\* holds when there is no room for another; ack does not flush it.
WriteAck(sum) ==
  /\ acked' = acked + sum
  /\ IF unflushed < BufferRoom
     THEN unflushed' = unflushed + 1 /\ UNCHANGED told
     ELSE unflushed' = 1 /\ told' = acked

\* ack, with the window as the message leaves it; writing fails only on a broken
\* connection.  The mistake goes on counting after an acknowledgement.
ackNoReset(len) ==
  LET sum == ackReceived + len
  IN  /\ ackReceived' = sum
      /\ IF sum >= remoteWindowAckSize' THEN WriteAck(sum) ELSE UNCHANGED <<acked, told, unflushed>>
      /\ UNCHANGED failed
ack(len) ==
  LET sum == ackReceived + len
  IN  \/ /\ sum < remoteWindowAckSize'
         /\ ackReceived' = sum
         /\ UNCHANGED <<acked, told, unflushed, failed>>
      \/ /\ sum >= remoteWindowAckSize'
         /\ ackReceived' = 0
         /\ WriteAck(sum)
         /\ UNCHANGED failed
      \/ /\ sum >= remoteWindowAckSize' /\ cut
         /\ ackReceived' = sum
         /\ failed' = TRUE
         /\ UNCHANGED <<acked, told, unflushed>>

\* readChunk up to the payload: the chunk stream, what the header takes of the
\* wire, and how much payload follows.
Header(h) ==
  LET old == chunks[h.ch]
      takes == TakesExt(old, h, Tail(wire))
      ext == IF takes /\ Len(wire) > 1 THEN wire[2].ts ELSE 0
      c == IF IsNew(old, h) THEN new(Started(old, h, ext)) ELSE old
  IN  [cs |-> c, isNew |-> IsNew(old, h), length |-> IF takes THEN 2 ELSE 1,
       count |-> Min({c.remain, remoteChunkSize})]

\* readChunk refuses a new message in a chunk stream that has one in progress.
\* Where it takes payload for a header, or for a timestamp, what it would do is
\* left out: Read has lost its place, which counts as refused.
Refused ==
  /\ wire # << >>
  /\ LET h == Head(wire) IN
     \/ h.kind # "head"
     \/ /\ h.kind = "head" /\ h.fmt # 3
        /\ \/ chunks[h.ch].remain # 0
           \/ Extended(chunks[h.ch], h) /\ Len(wire) > 1 /\ wire[2].kind # "ext"

\* The whole chunk has arrived.
Arrived ==
  /\ wire # << >>
  /\ LET hdr == Header(Head(wire)) IN Len(wire) >= hdr.length + hdr.count

\* The payload that a chunk has is the rest of its message; the mistake overlooks
\* messages without any.
EndsWithData(c, count) == count > 0 /\ c.remain = count
Ends(c, count) == c.remain = count

\* The buffers with what follows wire[from] written at c.index of c.Data, payload
\* or not.
Filled(buffers, c, from, count) ==
  LET start == c.Data[2] + c.index
  IN  [buffers EXCEPT ![c.Data[1]] =
         [i \in 1..PoolSize |->
            IF i - start \notin 1..count THEN @[i]
            ELSE LET w == wire[from + i - start]
                 IN  IF w.kind = "data" THEN <<w.msg, w.at>> ELSE <<0, 0>>]]

\* One chunk; if it ends a message, Read returns it, after handleControlMsg and
\* ack, whose error it returns instead.
ReadChunk ==
  /\ ~failed /\ ~Refused /\ Arrived
  /\ LET h == Head(wire)
         hdr == Header(h)
         c == hdr.cs
         need == hdr.length + hdr.count
         done == [c EXCEPT !.index = @ + hdr.count, !.remain = @ - hdr.count,
                           !.got = Ends(c, hdr.count)]
         allocates == hdr.isNew /\ NewBuffer(c.Length)
         buffers == IF allocates THEN Append(mem, Empty) ELSE mem
     IN  /\ wire' = SubSeq(wire, need + 1, Len(wire))
         /\ chunks' = [chunks EXCEPT ![h.ch] = done]
         /\ mem' = Filled(buffers, c, hdr.length, hdr.count)
         /\ pos' = IF hdr.isNew THEN c.Data[2] + c.Length ELSE pos
         /\ IF done.got
            THEN /\ handleControlMsg(done)
                 /\ ack(done.Length)
                 /\ delivered' =
                      IF failed' THEN delivered
                      ELSE Append(delivered,
                             [ch |-> h.ch, TypeID |-> done.TypeID, Length |-> done.Length,
                              Timestamp |-> done.Timestamp, Data |-> done.Data])
            ELSE UNCHANGED <<delivered, remoteChunkSize, remoteWindowAckSize,
                             ackReceived, acked, told, unflushed, failed>>
  /\ UNCHANGED <<peer, cut>>

\* Read returns an error, and is not called again: a chunk is refused, or the
\* connection breaks within one.
ReadError ==
  /\ ~failed
  /\ Refused \/ (cut /\ ~Refused /\ ~Arrived)
  /\ failed' = TRUE
  /\ UNCHANGED <<peer, wire, cut, chunks, mem, pos, remoteChunkSize, remoteWindowAckSize,
                 ackReceived, acked, told, unflushed, delivered>>

\* This end flushes what it has written besides: answers, or packets to a player.
\* Nothing makes it write any: while a publisher publishes it does not.
Flush ==
  /\ unflushed > 0
  /\ told' = acked
  /\ unflushed' = 0
  /\ UNCHANGED <<peer, wire, cut, chunks, mem, pos, remoteChunkSize, remoteWindowAckSize,
                 ackReceived, acked, delivered, failed>>

Read == ReadChunk \/ ReadError
Next == Send \/ Break \/ Read \/ Flush

\* The goroutine that reads calls Read again and again (ReadMsg, TransStart);
\* the peer may stop at any time.
Spec == Init /\ [][Next]_vars /\ WF_vars(Read)

-----------------------------------------------------------------------------
(* Properties.                                                               *)

Unit == (0..MaxMessages) \X (0..PoolSize)

TypeOK ==
  /\ sent \in Seq(Message) /\ Len(sent) <= MaxMessages
  /\ \A ch \in Channels :
       LET c == chunks[ch] IN
       /\ c.index + c.remain = c.Length /\ (c.got => c.remain = 0)
       /\ c.Timestamp \in 0..(TsMod - 1)
       /\ c.Data[1] \in 1..Len(mem) /\ c.Data[2] + c.Length <= PoolSize
  /\ \A b \in 1..Len(mem) : mem[b] \in [1..PoolSize -> Unit]
  /\ pos \in 0..PoolSize
  /\ {remoteChunkSize, remoteWindowAckSize, size} \subseteq Nat \ {0}
  /\ unflushed \in 0..BufferRoom
  /\ {cut, failed} \subseteq BOOLEAN

\* Read returns the peer's messages in the order in which they end, each with
\* its chunk stream, type, length and time, however their chunks interleave,
\* headers are compressed and chunk sizes change, and also when the connection
\* breaks within one.
Faithful ==
  /\ Len(delivered) <= Len(complete)
  /\ \A k \in 1..Len(delivered) :
       LET d == delivered[k]
           m == sent[complete[k]]
       IN  <<d.ch, d.TypeID, d.Length, d.Timestamp>> = <<m.ch, m.type, m.len, m.ts>>

\* The payload of each is the peer's, and stays so: the relay's cache and the
\* players' queues hold it while Read goes on to fill the same buffers.
PayloadKept ==
  \A k \in 1..Len(delivered) :
    LET d == delivered[k]
    IN  Region(d.Data, d.Length) = [i \in 1..d.Length |-> <<complete[k], i>>]

\* Read never loses its place in the bytes: nothing is refused.
NeverRefuses == failed => cut

\* What acknowledgements have been written for, and what is still counted, is what
\* has arrived, and one is written once the window is full.  The peer is told of
\* it only when the buffered writer is flushed or has no room for another: what it
\* has not been told is in the BufferRoom acknowledgements at most that wait there.
Total(msgs) ==
  LET sum[k \in 0..Len(msgs)] == IF k = 0 THEN 0 ELSE sum[k - 1] + msgs[k].Length
  IN  sum[Len(msgs)]

AcksExact == ~failed =>
  /\ acked + ackReceived = Total(delivered)
  /\ ackReceived < remoteWindowAckSize
  /\ told <= acked /\ (told < acked => unflushed \in 1..BufferRoom)

\* When Read has nothing left to read, it has returned every message that the
\* peer has finished.
NoneWithheld == wire = << >> /\ ~cut /\ ~failed => Len(delivered) = Len(complete)

\* The chunk layer implements Pipe: a message is what its header says and the
\* units of its payload, which on this side are wherever in the buffers Data is.
Meant(n) ==
  [ch |-> sent[n].ch, TypeID |-> sent[n].type, Length |-> sent[n].len,
   Timestamp |-> sent[n].ts, payload |-> [i \in 1..sent[n].len |-> <<n, i>>]]
Contents(d) ==
  [ch |-> d.ch, TypeID |-> d.TypeID, Length |-> d.Length,
   Timestamp |-> d.Timestamp, payload |-> Region(d.Data, d.Length)]

Abstract == INSTANCE Pipe WITH
  finished <- [k \in 1..Len(complete) |-> Meant(complete[k])],
  returned <- [k \in 1..Len(delivered) |-> Contents(delivered[k])],
  broken <- cut,
  ended <- failed

PipeSpec == Abstract!PipeSpec

=============================================================================
