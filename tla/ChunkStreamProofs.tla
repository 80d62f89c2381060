------------------------- MODULE ChunkStreamProofs -------------------------
(***************************************************************************)
(* Proofs about the chunk layer, for any peer that the model allows, any    *)
(* number of messages and chunk streams and any sizes.                      *)
(*                                                                          *)
(* The argument: Read is always where the peer was when it began the chunk  *)
(* that is next on the wire.  So the invariant speaks of the chunks on the  *)
(* wire, of the states (snapshots) that the peer had between them, and of   *)
(* Read, which is in step with the first of these.                          *)
(***************************************************************************)
EXTENDS ChunkStream, SequenceTheorems, WellFoundedInduction, TLAPS

Times == 0..(TsMod - 1)
Kinds == {"media", "chunksize", "window"}

\* How far the peer is with a chunk stream: number, message and what of it is
\* out, and how its header was cut.
Views ==
  [msg : 0..MaxMessages, m : Message \union {0}, done : Nat,
   fmt : 0..2, delta : Times, ext : BOOLEAN]

View(ch) ==
  [msg |-> out[ch].msg, m |-> IF out[ch].msg = 0 THEN 0 ELSE sent[out[ch].msg],
   done |-> out[ch].done,
   fmt |-> last[ch].fmt, delta |-> last[ch].delta, ext |-> last[ch].ext]

Snapshots == [cur : [Channels -> Views], size : Nat \ {0}, ended : Nat]

Snapshot ==
  [cur |-> [ch \in Channels |-> View(ch)], size |-> size, ended |-> Len(complete)]

Known(n, m) == n \in 1..Len(sent) /\ sent[n] = m

ViewOK(ch, v) ==
  v.msg # 0 =>
    /\ Known(v.msg, v.m)
    /\ v.m \in Message
    /\ v.m.ch = ch
    /\ v.done <= v.m.len
    /\ v.done = 0 => v.m.len = 0

SnapshotOK(s) ==
  /\ \A ch \in Channels : ViewOK(ch, s.cur[ch])
  /\ s.ended <= Len(complete)

\* A chunk on the wire: the message it is of, its header, the extended timestamp
\* if there is one, and how much payload comes before it and in it.
ChunkSet ==
  [msg : 1..MaxMessages, m : Message, fmt : 0..3, field : Times, ext : BOOLEAN,
   stamp : Times, from : Nat, count : Nat]

Extra(d) == IF d.ext THEN 1 ELSE 0
Width(d) == 1 + Extra(d) + d.count
Token(d, j) ==
  IF j = 1 THEN HeaderOf(d.fmt, d.m, d.field)
  ELSE IF j = 2 /\ d.ext THEN [kind |-> "ext", ts |-> d.stamp]
  ELSE [kind |-> "data", msg |-> d.msg, at |-> d.from + (j - 1 - Extra(d))]

Tokens ==
  [kind : {"head"}, fmt : 0..3, ch : Channels, ts : Nat, len : Nat, type : Kinds \union {"none"}]
    \union [kind : {"ext"}, ts : Times]
    \union [kind : {"data"}, msg : 1..MaxMessages, at : 1..PoolSize]

\* The chunk d begins a message, and takes its chunk stream from v to w.
Opens(v, d, w) ==
  LET delta == (d.m.ts - v.m.ts) % TsMod
      t == IF d.fmt = 0 THEN d.m.ts ELSE delta
  IN  /\ v.msg # 0 => v.done = v.m.len
      /\ d.from = 0
      /\ d.fmt # 0 => v.msg # 0
      /\ d.field = t
      /\ d.fmt >= 2 => d.m.len = v.m.len /\ d.m.type = v.m.type
      /\ d.fmt = 3 => delta = IF v.fmt = 0 THEN 0 ELSE v.delta
      /\ d.ext = IF d.fmt = 3 THEN v.ext ELSE t >= Mark
      /\ d.stamp = IF d.fmt = 3 /\ v.fmt = 0 THEN d.m.ts ELSE t
      /\ w.fmt = IF d.fmt = 3 THEN v.fmt ELSE d.fmt
      /\ w.delta = IF d.fmt = 3 THEN v.delta ELSE t
      /\ w.ext = d.ext

\* It goes on with one.
GoesOn(v, d, w) ==
  /\ v.msg # 0
  /\ d.msg = v.msg
  /\ d.m = v.m
  /\ d.from = v.done
  /\ v.done < v.m.len
  /\ d.fmt = 3
  /\ d.ext => v.ext /\ d.stamp = d.m.ts
  /\ w.fmt = v.fmt /\ w.delta = v.delta /\ w.ext = v.ext

\* Of a peer whose state was s, the chunk d makes t.
Step(s, d, t) ==
  LET ch == d.m.ch IN
  /\ Known(d.msg, d.m)
  /\ Opens(s.cur[ch], d, t.cur[ch]) \/ GoesOn(s.cur[ch], d, t.cur[ch])
  /\ d.count = IF s.size <= d.m.len - d.from THEN s.size ELSE d.m.len - d.from
  /\ t.cur[ch].msg = d.msg
  /\ t.cur[ch].m = d.m
  /\ t.cur[ch].done = d.from + d.count
  /\ \A other \in Channels \ {ch} : t.cur[other] = s.cur[other]
  /\ t.size = IF d.m.type = "chunksize" THEN d.m.value ELSE s.size
  /\ IF d.from + d.count = d.m.len
     THEN /\ t.ended = s.ended + 1
          /\ t.ended <= Len(complete)
          /\ complete[t.ended] = d.msg
     ELSE t.ended = s.ended

-----------------------------------------------------------------------------
(* The invariant *)

\* The peer.
PeerInv ==
  /\ style \in {"own", "repeats", "omits"}
  /\ sent \in Seq(Message)
  /\ Len(sent) <= MaxMessages
  /\ complete \in Seq(1..Len(sent))
  /\ size \in Nat \ {0}
  /\ out \in [Channels -> [msg : 0..MaxMessages, done : Nat]]
  /\ last \in [Channels -> [fmt : 0..2, delta : Times, ext : BOOLEAN]]
  /\ \A ch \in Channels :
       /\ ViewOK(ch, View(ch))
       /\ style = "own" /\ out[ch].msg # 0 => last[ch].ext = (Previous(ch).ts >= Mark)

Regions == (Nat \ {0}) \X Nat

ChunkStreams ==
  [Format : 0..2, Timestamp : Times, Length : 0..PoolSize, TypeID : Kinds \union {"none"},
   timeDelta : Nat, exted : BOOLEAN, index : Nat, remain : Nat, got : BOOLEAN, Data : Regions]

Returned ==
  [ch : Channels, TypeID : Kinds \union {"none"}, Length : 0..PoolSize, Timestamp : Times,
   Data : Regions]

\* The reader.
ConnInv ==
  /\ wire \in Seq(Tokens)
  /\ cut \in BOOLEAN
  /\ failed \in BOOLEAN
  /\ chunks \in [Channels -> ChunkStreams]
  /\ \A ch \in Channels :
       /\ chunks[ch].index + chunks[ch].remain = chunks[ch].Length
       /\ chunks[ch].got => chunks[ch].remain = 0
  /\ remoteChunkSize \in Nat \ {0}
  /\ remoteWindowAckSize \in Nat \ {0}
  /\ ackReceived \in Nat
  /\ acked \in Nat
  /\ delivered \in Seq(Returned)

\* A region that Get has given out; regions that share nothing.
Given(data, len) ==
  /\ data[1] \in 1..Len(mem)
  /\ data[2] + len <= PoolSize
  /\ data[1] = Len(mem) => data[2] + len <= pos

Apart(data1, len1, data2, len2) ==
  \/ data1[1] # data2[1]
  \/ data1[2] + len1 <= data2[2]
  \/ data2[2] + len2 <= data1[2]

\* What Read has still to fill is apart from all that it has returned, and from
\* what it has to fill in other chunk streams.
MemInv ==
  /\ mem \in Seq([1..PoolSize -> Unit])
  /\ mem # << >>
  /\ pos \in 0..PoolSize
  /\ \A ch \in Channels : Given(chunks[ch].Data, chunks[ch].Length)
  /\ \A k \in 1..Len(delivered) : Given(delivered[k].Data, delivered[k].Length)
  /\ \A ch \in Channels, k \in 1..Len(delivered) :
       chunks[ch].remain > 0 =>
         Apart(chunks[ch].Data, chunks[ch].Length, delivered[k].Data, delivered[k].Length)
  /\ \A ch, other \in Channels :
       ch # other /\ chunks[ch].remain > 0 /\ chunks[other].remain > 0 =>
         Apart(chunks[ch].Data, chunks[ch].Length, chunks[other].Data, chunks[other].Length)

\* Read has taken in what the peer has put out of a chunk stream.
Follows(c, v) ==
  IF v.msg = 0 THEN c.remain = 0
  ELSE /\ c.Format = v.fmt
       /\ c.exted = v.ext
       /\ v.fmt # 0 => c.timeDelta = v.delta
       /\ c.Timestamp = v.m.ts
       /\ c.Length = v.m.len
       /\ c.TypeID = v.m.type
       /\ c.index = v.done

Holds(data, n, count) == \A i \in 1..count : mem[data[1]][data[2] + i] = <<n, i>>

InStep(s) ==
  /\ remoteChunkSize = s.size
  /\ Len(delivered) = s.ended
  /\ \A ch \in Channels :
       /\ Follows(chunks[ch], s.cur[ch])
       /\ chunks[ch].remain > 0 => Holds(chunks[ch].Data, s.cur[ch].msg, s.cur[ch].done)

\* The chunks lo to hi - 1 are on the wire, between the peer's states lo to hi;
\* chunk i begins off[i] units after some place.  What was on its way may be
\* lost when the connection breaks.
Chain(lo, hi, q, ps) ==
  /\ \A i \in lo..hi : SnapshotOK(ps[i])
  /\ \A i \in lo..(hi - 1) : Step(ps[i], q[i], ps[i + 1])

Laid(lo, hi, q, off) ==
  /\ \A i \in lo..(hi - 1) : off[i + 1] = off[i] + Width(q[i])
  /\ \A i, j \in lo..hi : i < j => off[i] < off[j]
  /\ Len(wire) <= off[hi] - off[lo]
  /\ ~cut => Len(wire) = off[hi] - off[lo]
  /\ \A i \in lo..(hi - 1) : \A j \in 1..Width(q[i]) :
       (off[i] - off[lo]) + j <= Len(wire) => wire[(off[i] - off[lo]) + j] = Token(q[i], j)

Sync ==
  \E lo, hi \in Nat :
    \E q \in [lo..(hi - 1) -> ChunkSet], ps \in [lo..hi -> Snapshots], off \in [lo..hi -> Nat] :
      /\ lo <= hi
      /\ InStep(ps[lo])
      /\ ~cut => ps[hi] = Snapshot
      /\ Chain(lo, hi, q, ps)
      /\ Laid(lo, hi, q, off)

\* f[k] is what the first k of n messages come to.
Sums(f, msgs, n) ==
  /\ f[0] = 0
  /\ \A k \in 1..n : f[k] = f[k - 1] + msgs[k].Length

Counted ==
  ~failed =>
    /\ ackReceived < remoteWindowAckSize
    /\ \E f \in [0..Len(delivered) -> Nat] :
         Sums(f, delivered, Len(delivered)) /\ acked + ackReceived = f[Len(delivered)]

\* What the peer has not been told of waits in the buffered writer.
Buffered ==
  /\ told \in Nat /\ told <= acked
  /\ unflushed \in 0..BufferRoom
  /\ told < acked => unflushed # 0

IInv ==
  /\ PeerInv
  /\ ConnInv
  /\ MemInv
  /\ Faithful
  /\ PayloadKept
  /\ NeverRefuses
  /\ ~failed => Sync
  /\ Counted
  /\ Buffered

-----------------------------------------------------------------------------
(* Numbers *)

\* A set of natural numbers has a least element: what induction is done with.
LEMMA LeastNat ==
  ASSUME NEW T, T \subseteq Nat, T # {}
  PROVE  \E n \in T : \A k \in T : n <= k
<1> DEFINE R == OpToRel(<, Nat)
<1>1. IsWellFoundedOn(R, Nat)
  BY NatLessThanWellFounded
<1> HIDE DEF R
<1>2. PICK n \in T : \A k \in T : ~(<<k, n>> \in R)
  BY <1>1, WFMin
<1>3. \A k \in T : k < n => <<k, n>> \in R
  BY DEF R, OpToRel
<1>4. ASSUME NEW k \in T
      PROVE  n <= k
  <2>1. n \in Nat /\ k \in Nat
    BY <1>4
  <2>2. ~(k < n)
    BY <1>2, <1>3
  <2> QED
    BY <2>1, <2>2
<1> QED
  BY <1>4

LEMMA MinOfTwo ==
  ASSUME NEW a \in Int, NEW b \in Int
  PROVE  Min({a, b}) = IF a <= b THEN a ELSE b
BY DEF Min

\* What is added back to a time that another was taken from.
LEMMA DeltaAdds ==
  ASSUME NEW a \in Times, NEW b \in Times
  PROVE  /\ (b - a) % TsMod \in Times
         /\ (a + ((b - a) % TsMod)) % TsMod = b
         /\ (b - a) % TsMod = 0 => b = a
<1>1. TsMod \in Nat /\ TsMod > 0
  BY ChunkAssumption
<1>2. (b - a) % TsMod = IF b >= a THEN b - a ELSE (b - a) + TsMod
  BY <1>1 DEF Times
<1> QED
  BY <1>1, <1>2 DEF Times

\* What the constants are, one by one.
LEMMA Constants ==
  /\ PoolSize \in Nat /\ PoolSize >= 1
  /\ MaxMessages \in Nat /\ MaxMessages >= 1
  /\ TsMod \in Nat /\ Mark \in Nat /\ 1 <= Mark /\ Mark < TsMod
  /\ ChunkSize \in Nat \ {0} /\ WindowAckSize \in Nat \ {0}
  /\ 0 \in Times
  /\ Lengths \subseteq 0..PoolSize /\ Stamps \subseteq Times
BY ChunkAssumption DEF Times

LEMMA Messages ==
  ASSUME NEW m \in Message
  PROVE  /\ m.ch \in Channels
         /\ m.type \in Kinds
         /\ m.len \in 0..PoolSize /\ m.len \in Nat
         /\ m.ts \in Times
         /\ m.type # "media" => m.len = 1 /\ m.value \in Nat \ {0}
<1>1. CASE m \in [ch : Media, type : {"media"}, len : Lengths, ts : Stamps, value : {0}]
  <2>1. m.len \in Lengths /\ m.ts \in Stamps /\ m.ch \in Media /\ m.type = "media"
    BY <1>1
  <2>2. m.ch \in Channels /\ m.type \in Kinds
    BY <2>1 DEF Channels, Kinds
  <2>3. m.len \in 0..PoolSize /\ m.ts \in Times
    BY <2>1, Constants
  <2>4. m.len \in Nat
    BY <2>3, Constants
  <2> QED
    BY <2>1, <2>2, <2>3, <2>4
<1>2. CASE m \in [ch : {Control}, type : {"chunksize"}, len : {1}, ts : {0}, value : ChunkSizes]
  BY <1>2, ChunkAssumption, Constants DEF Channels, Kinds, Times
<1>3. CASE m \in [ch : {Control}, type : {"window"}, len : {1}, ts : {0}, value : Windows]
  BY <1>3, ChunkAssumption, Constants DEF Channels, Kinds, Times
<1> QED
  BY <1>1, <1>2, <1>3 DEF Message

-----------------------------------------------------------------------------
(* What the peer puts on the wire *)

LEMMA TokenType ==
  ASSUME NEW d \in ChunkSet, d.from + d.count <= PoolSize, NEW j \in 1..Width(d)
  PROVE  Token(d, j) \in Tokens
<1> USE DEF ChunkSet
<1>1. CASE j = 1
  <2> DEFINE h == HeaderOf(d.fmt, d.m, d.field)
  <2>1. d.m \in Message /\ d.fmt \in 0..3 /\ d.field \in Nat /\ Mark \in Nat
    BY Constants DEF Times
  <2>2. h \in [kind : {"head"}, fmt : 0..3, ch : Channels, ts : Nat, len : Nat,
               type : Kinds \union {"none"}]
    BY <2>1, Messages DEF HeaderOf
  <2> QED
    BY <1>1, <2>2 DEF Tokens, Token
<1>2. CASE j = 2 /\ d.ext
  BY <1>2 DEF Tokens, Token
<1>3. CASE j # 1 /\ ~(j = 2 /\ d.ext)
  <2>1. d.from + (j - 1 - Extra(d)) \in 1..PoolSize
    BY <1>3, Constants DEF Width, Extra
  <2> QED
    BY <1>3, <2>1 DEF Tokens, Token
<1> QED
  BY <1>1, <1>2, <1>3

\* The elements of two sequences put together.
LEMMA Joined ==
  ASSUME NEW S, NEW w \in Seq(S), NEW p \in Seq(S)
  PROVE  /\ w \o p \in Seq(S)
         /\ Len(w \o p) = Len(w) + Len(p)
         /\ \A i \in 1..Len(w) : (w \o p)[i] = w[i]
         /\ \A j \in 1..Len(p) : (w \o p)[Len(w) + j] = p[j]
<1>1. w \o p \in Seq(S) /\ Len(w \o p) = Len(w) + Len(p)
  OBVIOUS
<1>2. ASSUME NEW i \in 1..Len(w)
      PROVE  (w \o p)[i] = w[i]
  OBVIOUS
<1>3. ASSUME NEW j \in 1..Len(p)
      PROVE  (w \o p)[Len(w) + j] = p[j]
  <2>1. (w \o p)[Len(w) + j] = p[(Len(w) + j) - Len(w)]
    OBVIOUS
  <2>2. (Len(w) + j) - Len(w) = j
    OBVIOUS
  <2> QED
    BY <2>1, <2>2
<1> QED
  BY <1>1, <1>2, <1>3

\* A sequence after two elements and another sequence have been put to it.
LEMMA PutTwo ==
  ASSUME NEW S, NEW w \in Seq(S), NEW x \in S, NEW y \in S, NEW p \in Seq(S)
  PROVE  LET a == Append(Append(w, x), y) \o p
         IN  /\ w \o (<<x>> \o <<y>>) \o p = a
             /\ a \in Seq(S)
             /\ Len(a) = Len(w) + 2 + Len(p)
             /\ \A i \in 1..Len(w) : a[i] = w[i]
             /\ a[Len(w) + 1] = x
             /\ a[Len(w) + 2] = y
             /\ \A j \in 1..Len(p) : a[(Len(w) + 2) + j] = p[j]
<1> DEFINE u == Append(w, x)
           v == Append(u, y)
           a == v \o p
<1>1. w \o (<<x>> \o <<y>>) \o p = a
  <2>1. w \o (<<x>> \o <<y>>) = (w \o <<x>>) \o <<y>>
    OBVIOUS
  <2>2. w \o <<x>> = u
    OBVIOUS
  <2>3. u \o <<y>> = v
    OBVIOUS
  <2> QED
    BY <2>1, <2>2, <2>3, Zenon
<1>2. /\ u \in Seq(S) /\ Len(u) = Len(w) + 1 /\ Len(w) \in Nat
      /\ \A i \in 1..Len(w) : u[i] = w[i]
      /\ u[Len(w) + 1] = x
  OBVIOUS
<1> HIDE DEF u
<1>3. /\ v \in Seq(S) /\ Len(v) = Len(u) + 1
      /\ \A i \in 1..Len(u) : v[i] = u[i]
      /\ v[Len(u) + 1] = y
  BY <1>2
<1> HIDE DEF v
<1>4. /\ a \in Seq(S) /\ Len(a) = Len(v) + Len(p)
      /\ \A i \in 1..Len(v) : a[i] = v[i]
      /\ \A j \in 1..Len(p) : a[Len(v) + j] = p[j]
  <2>1. v \in Seq(S)
    BY <1>3
  <2> QED
    BY <2>1, Joined
<1> HIDE DEF a
<1>5. Len(u) + 1 = Len(w) + 2
  BY <1>2
<1>6. /\ a \in Seq(S)
      /\ Len(a) = Len(w) + 2 + Len(p)
      /\ \A i \in 1..Len(w) : a[i] = w[i]
      /\ a[Len(w) + 1] = x
      /\ a[Len(w) + 2] = y
      /\ \A j \in 1..Len(p) : a[(Len(w) + 2) + j] = p[j]
  BY <1>2, <1>3, <1>4, <1>5
<1> QED
  BY <1>1, <1>6, Zenon DEF a, v, u

\* The wire w after the chunk d has been put on it.
HeaderPart(d) ==
  <<HeaderOf(d.fmt, d.m, d.field)>> \o (IF d.ext THEN ExtendedTs(d.stamp) ELSE << >>)
After(w, d) == w \o HeaderPart(d) \o Payload(d.msg, d.from, d.count)

LEMMA PutTokens ==
  ASSUME NEW w \in Seq(Tokens), NEW d \in ChunkSet, d.from + d.count <= PoolSize
  PROVE  /\ After(w, d) \in Seq(Tokens)
         /\ Len(After(w, d)) = Len(w) + Width(d)
         /\ \A i \in 1..Len(w) : After(w, d)[i] = w[i]
         /\ \A j \in 1..Width(d) : After(w, d)[Len(w) + j] = Token(d, j)
<1> DEFINE h == HeaderOf(d.fmt, d.m, d.field)
           e == [kind |-> "ext", ts |-> d.stamp]
           p == Payload(d.msg, d.from, d.count)
           after == After(w, d)
<1>0. Len(w) \in Nat
  OBVIOUS
<1>1. d.count \in Nat /\ d.from \in Nat /\ d.ext \in BOOLEAN
  BY DEF ChunkSet
<1>2. /\ Len(p) = d.count
      /\ \A j \in 1..d.count : p[j] = Token(d, 1 + Extra(d) + j)
  BY <1>1 DEF Payload, Token, Extra
<1>3. p \in Seq(Tokens)
  <2>1. \A j \in 1..d.count : 1 + Extra(d) + j \in 1..Width(d)
    BY <1>1 DEF Extra, Width
  <2>2. \A j \in 1..d.count : p[j] \in Tokens
    BY <1>2, <2>1, TokenType
  <2>3. p \in [1..d.count -> Tokens]
    <3>1. p = [j \in 1..d.count |-> p[j]]
      BY DEF Payload
    <3> HIDE DEF p
    <3> QED
      BY <2>2, <3>1
  <2> HIDE DEF p
  <2> QED
    BY <1>1, <2>3, SeqDef
<1>4. h = Token(d, 1) /\ h \in Tokens
  <2>1. 1 \in 1..Width(d)
    BY <1>1 DEF Width, Extra
  <2>2. h = Token(d, 1)
    BY DEF Token
  <2> QED
    BY <2>1, <2>2, TokenType
<1>5. ASSUME d.ext
      PROVE  /\ after \in Seq(Tokens)
             /\ Len(after) = Len(w) + Width(d)
             /\ \A i \in 1..Len(w) : after[i] = w[i]
             /\ \A j \in 1..Width(d) : after[Len(w) + j] = Token(d, j)
  <2>1. 2 \in 1..Width(d) /\ Width(d) = 2 + d.count
    BY <1>1, <1>5 DEF Width, Extra
  <2>2. e = Token(d, 2) /\ e \in Tokens
    <3>1. e = Token(d, 2)
      BY <1>5 DEF Token
    <3> QED
      BY <2>1, <3>1, TokenType
  <2>3. after = w \o (<<h>> \o <<e>>) \o p
    BY <1>5 DEF ExtendedTs, HeaderPart, After
  <2> HIDE DEF h, e, p, after
  <2>4. /\ after \in Seq(Tokens)
        /\ Len(after) = Len(w) + 2 + Len(p)
        /\ \A i \in 1..Len(w) : after[i] = w[i]
        /\ after[Len(w) + 1] = h
        /\ after[Len(w) + 2] = e
        /\ \A j \in 1..Len(p) : after[(Len(w) + 2) + j] = p[j]
    <3>1. w \in Seq(Tokens) /\ h \in Tokens /\ e \in Tokens /\ p \in Seq(Tokens)
      BY <1>3, <1>4, <2>2
    <3> DEFINE b == Append(Append(w, h), e) \o p
    <3>2. /\ w \o (<<h>> \o <<e>>) \o p = b
          /\ b \in Seq(Tokens)
          /\ Len(b) = Len(w) + 2 + Len(p)
          /\ \A i \in 1..Len(w) : b[i] = w[i]
          /\ b[Len(w) + 1] = h
          /\ b[Len(w) + 2] = e
          /\ \A j \in 1..Len(p) : b[(Len(w) + 2) + j] = p[j]
      BY <3>1, PutTwo, SMTT(30)
    <3>3. after = b
      BY <2>3, <3>2
    <3> HIDE DEF b
    <3> QED
      BY <3>2, <3>3
  <2>5. ASSUME NEW j \in 1..Width(d), j > 2
        PROVE  after[Len(w) + j] = Token(d, j)
    <3>1. j - 2 \in 1..Len(p) /\ 1 + Extra(d) + (j - 2) = j /\ (Len(w) + 2) + (j - 2) = Len(w) + j
      BY <1>1, <1>2, <1>5, <2>1, <2>5 DEF Extra
    <3> QED
      BY <1>2, <2>4, <3>1
  <2>6. Len(after) = Len(w) + Width(d)
    <3>1. /\ Len(p) = d.count /\ Width(d) = 2 + d.count
          /\ Len(after) = Len(w) + 2 + Len(p)
      BY <1>2, <2>1, <2>4
    <3> QED
      BY <1>0, <1>1, <3>1
  <2>7. ASSUME NEW j \in 1..Width(d)
        PROVE  after[Len(w) + j] = Token(d, j)
    <3>1. j = 1 \/ j = 2 \/ j > 2
      BY <1>1, <2>1
    <3> QED
      BY <1>4, <2>2, <2>4, <2>5, <3>1
  <2> QED
    BY <2>4, <2>6, <2>7
<1>6. ASSUME ~d.ext
      PROVE  /\ after \in Seq(Tokens)
             /\ Len(after) = Len(w) + Width(d)
             /\ \A i \in 1..Len(w) : after[i] = w[i]
             /\ \A j \in 1..Width(d) : after[Len(w) + j] = Token(d, j)
  <2>1. Width(d) = 1 + d.count
    BY <1>1, <1>6 DEF Width, Extra
  <2>2. after = w \o <<h>> \o p
    <3>1. HeaderPart(d) = <<h>> \o << >>
      BY <1>6 DEF HeaderPart
    <3>2. <<h>> \o << >> = <<h>>
      BY <1>4
    <3> QED
      BY <3>1, <3>2, Zenon DEF After
  <2> HIDE DEF h, e, p, after
  <2>3. /\ after \in Seq(Tokens)
        /\ Len(after) = Len(w) + 1 + Len(p)
        /\ \A i \in 1..Len(w) : after[i] = w[i]
        /\ after[Len(w) + 1] = h
        /\ \A j \in 1..Len(p) : after[(Len(w) + 1) + j] = p[j]
    <3> DEFINE v == Append(w, h)
    <3>1. after = v \o p
      BY <1>4, <2>2
    <3>2. /\ v \in Seq(Tokens) /\ Len(v) = Len(w) + 1
          /\ \A i \in 1..Len(w) : v[i] = w[i]
          /\ v[Len(w) + 1] = h
      BY <1>4
    <3> HIDE DEF v
    <3>3. /\ v \o p \in Seq(Tokens) /\ Len(v \o p) = Len(v) + Len(p)
          /\ \A i \in 1..Len(v) : (v \o p)[i] = v[i]
          /\ \A j \in 1..Len(p) : (v \o p)[Len(v) + j] = p[j]
      <4>1. v \in Seq(Tokens)
        BY <3>2
      <4> QED
        BY <1>3, <4>1, Joined
    <3> QED
      BY <1>0, <3>1, <3>2, <3>3
  <2>4. ASSUME NEW j \in 1..Width(d), j > 1
        PROVE  after[Len(w) + j] = Token(d, j)
    <3>1. j - 1 \in 1..Len(p) /\ 1 + Extra(d) + (j - 1) = j /\ (Len(w) + 1) + (j - 1) = Len(w) + j
      BY <1>1, <1>2, <1>6, <2>1, <2>4 DEF Extra
    <3> QED
      BY <1>2, <2>3, <3>1
  <2>5. Len(after) = Len(w) + Width(d)
    <3>1. /\ Len(p) = d.count /\ Width(d) = 1 + d.count
          /\ Len(after) = Len(w) + 1 + Len(p)
      BY <1>2, <2>1, <2>3
    <3> QED
      BY <1>0, <1>1, <3>1
  <2>6. ASSUME NEW j \in 1..Width(d)
        PROVE  after[Len(w) + j] = Token(d, j)
    <3>1. j = 1 \/ j > 1
      BY <1>1, <2>1
    <3> QED
      BY <1>4, <2>3, <2>4, <3>1
  <2> QED
    BY <2>3, <2>5, <2>6
<1> QED
  BY <1>5, <1>6

-----------------------------------------------------------------------------
(* More on the wire *)

\* What the peer has sent and completed stays so.
Grows ==
  /\ \A n \in 1..Len(sent) : n \in 1..Len(sent') /\ sent'[n] = sent[n]
  /\ Len(complete) \in Nat /\ Len(complete') \in Nat
  /\ Len(complete) <= Len(complete')
  /\ \A k \in 1..Len(complete) : complete'[k] = complete[k]

LEMMA StillKnown ==
  ASSUME Grows, NEW n, NEW m, Known(n, m)
  PROVE  Known(n, m)'
BY DEF Grows, Known

LEMMA StillOK ==
  ASSUME Grows, NEW s \in Snapshots, SnapshotOK(s)
  PROVE  SnapshotOK(s)'
<1>1. s.ended \in Nat
  BY DEF Snapshots
<1>2. s.ended <= Len(complete')
  BY <1>1 DEF Grows, SnapshotOK
<1>3. ASSUME NEW ch \in Channels
      PROVE  ViewOK(ch, s.cur[ch])'
  <2> DEFINE v == s.cur[ch]
  <2>1. ViewOK(ch, v)
    BY DEF SnapshotOK
  <2> HIDE DEF v
  <2>2. ViewOK(ch, v)'
    BY <2>1, StillKnown DEF ViewOK
  <2> QED
    BY <2>2 DEF v
<1> QED
  BY <1>2, <1>3 DEF SnapshotOK

LEMMA StillSteps ==
  ASSUME Grows, NEW s \in Snapshots, NEW d, NEW t \in Snapshots, Step(s, d, t)
  PROVE  Step(s, d, t)'
<1>1. Known(d.msg, d.m)'
  BY StillKnown DEF Step
<1>2. s.ended \in Nat /\ t.ended \in Nat
  BY DEF Snapshots
<1>3. ASSUME d.from + d.count = d.m.len
      PROVE  /\ t.ended = s.ended + 1
             /\ t.ended <= Len(complete')
             /\ complete'[t.ended] = d.msg
  <2>1. t.ended = s.ended + 1 /\ t.ended <= Len(complete) /\ complete[t.ended] = d.msg
    BY <1>3 DEF Step
  <2>2. t.ended \in 1..Len(complete)
    BY <1>2, <2>1 DEF Grows
  <2> QED
    BY <1>2, <2>1, <2>2 DEF Grows
<1>4. d.from + d.count # d.m.len => t.ended = s.ended
  BY DEF Step
<1> HIDE DEF Grows
<1> QED
  BY <1>1, <1>3, <1>4 DEF Step

LEMMA StillChain ==
  ASSUME Grows, NEW lo \in Nat, NEW hi \in Nat, NEW q,
         NEW ps \in [lo..hi -> Snapshots], Chain(lo, hi, q, ps)
  PROVE  Chain(lo, hi, q, ps)'
<1>1. ASSUME NEW i \in lo..hi
      PROVE  SnapshotOK(ps[i])'
  <2> DEFINE s == ps[i]
  <2>1. s \in Snapshots /\ SnapshotOK(s)
    BY DEF Chain
  <2> HIDE DEF s
  <2>2. SnapshotOK(s)'
    BY <2>1, StillOK
  <2> QED
    BY <2>2 DEF s
<1>2. ASSUME NEW i \in lo..(hi - 1)
      PROVE  Step(ps[i], q[i], ps[i + 1])'
  <2> DEFINE s == ps[i]
             t == ps[i + 1]
             d == q[i]
  <2>1. i \in lo..hi /\ i + 1 \in lo..hi
    OBVIOUS
  <2>2. s \in Snapshots /\ t \in Snapshots /\ Step(s, d, t)
    BY <2>1 DEF Chain
  <2> HIDE DEF s, t, d
  <2>3. Step(s, d, t)'
    BY <2>2, StillSteps
  <2> QED
    BY <2>3 DEF s, t, d
<1> QED
  BY <1>1, <1>2 DEF Chain

LEMMA InStepSame ==
  ASSUME UNCHANGED <<chunks, mem, remoteChunkSize, delivered>>, NEW s, InStep(s)
  PROVE  InStep(s)'
BY DEF InStep, Follows, Holds

LEMMA WidthType ==
  ASSUME NEW d \in ChunkSet
  PROVE  Width(d) \in Nat /\ Width(d) >= 1
BY DEF ChunkSet, Width, Extra

LEMMA Within ==
  ASSUME NEW a \in Nat, NEW b \in Nat, NEW c \in Nat, NEW n \in Nat, NEW j \in 1..n,
         a <= b, b + n <= c
  PROVE  (b - a) + j \in 1..(c - a)
OBVIOUS

\* A chunk more on the wire.
LEMMA SyncPut ==
  ASSUME Sync, Grows, wire \in Seq(Tokens), ~cut, UNCHANGED <<cut, conn>>,
         NEW d \in ChunkSet, d.from + d.count <= PoolSize, wire' = After(wire, d),
         NEW s, s = Snapshot, NEW t \in Snapshots, t = Snapshot',
         SnapshotOK(t)', Step(s, d, t)'
  PROVE  Sync'
<1>1. PICK lo \in Nat, hi \in Nat :
        \E q \in [lo..(hi - 1) -> ChunkSet], ps \in [lo..hi -> Snapshots], off \in [lo..hi -> Nat] :
          /\ lo <= hi
          /\ InStep(ps[lo])
          /\ ~cut => ps[hi] = Snapshot
          /\ Chain(lo, hi, q, ps)
          /\ Laid(lo, hi, q, off)
  BY DEF Sync
<1>2. PICK q \in [lo..(hi - 1) -> ChunkSet], ps \in [lo..hi -> Snapshots], off \in [lo..hi -> Nat] :
        /\ lo <= hi
        /\ InStep(ps[lo])
        /\ ~cut => ps[hi] = Snapshot
        /\ Chain(lo, hi, q, ps)
        /\ Laid(lo, hi, q, off)
  BY <1>1
<1> DEFINE Q == [i \in lo..hi |-> IF i = hi THEN d ELSE q[i]]
           P == [i \in lo..(hi + 1) |-> IF i = hi + 1 THEN t ELSE ps[i]]
           O == [i \in lo..(hi + 1) |-> IF i = hi + 1 THEN off[hi] + Width(d) ELSE off[i]]
<1>3. Width(d) \in Nat /\ Width(d) >= 1
  BY WidthType
<1>4. /\ lo \in Nat /\ hi \in Nat /\ lo <= hi /\ hi + 1 \in Nat /\ hi \in lo..hi
      /\ \A i \in lo..hi : off[i] \in Nat
  BY <1>2
<1>5. /\ Q \in [lo..((hi + 1) - 1) -> ChunkSet]
      /\ P \in [lo..(hi + 1) -> Snapshots]
      /\ O \in [lo..(hi + 1) -> Nat]
  <2>1. (hi + 1) - 1 = hi
    BY <1>4
  <2>2. Q \in [lo..hi -> ChunkSet]
    BY <1>4
  <2>3. P \in [lo..(hi + 1) -> Snapshots]
    BY <1>4
  <2>4. O \in [lo..(hi + 1) -> Nat]
    BY <1>3, <1>4
  <2> QED
    BY <2>1, <2>2, <2>3, <2>4
<1>6. /\ \A i \in lo..(hi - 1) : Q[i] = q[i]
      /\ Q[hi] = d
      /\ \A i \in lo..hi : P[i] = ps[i] /\ O[i] = off[i]
      /\ P[hi + 1] = t
      /\ O[hi + 1] = off[hi] + Width(d)
  BY <1>4
<1>7. \A i \in lo..(hi + 1) : i \in lo..hi \/ i = hi + 1
  BY <1>4
<1>8. \A i \in lo..((hi + 1) - 1) : i \in lo..hi /\ i + 1 \in lo..(hi + 1)
                                      /\ ((i \in lo..(hi - 1) /\ i + 1 \in lo..hi) \/ i = hi)
  BY <1>4
<1> HIDE DEF Q, P, O
<1>9. InStep(P[lo])'
  <2> DEFINE r == P[lo]
  <2>1. InStep(r)
    BY <1>2, <1>4, <1>6
  <2> HIDE DEF r
  <2>2. InStep(r)'
    BY <2>1, InStepSame DEF conn
  <2> QED
    BY <2>2 DEF r
<1>10. Chain(lo, hi + 1, Q, P)'
  <2>1. Chain(lo, hi, q, ps)'
    BY <1>2, StillChain
  <2>2. ASSUME NEW i \in lo..(hi + 1)
        PROVE  SnapshotOK(P[i])'
    <3>1. CASE i = hi + 1
      <4>1. P[i] = t
        BY <1>6, <3>1
      <4> QED
        BY <4>1
    <3>2. CASE i \in lo..hi
      <4>1. P[i] = ps[i]
        BY <1>6, <3>2
      <4> QED
        BY <2>1, <3>2, <4>1 DEF Chain
    <3> QED
      BY <1>7, <3>1, <3>2
  <2>3. ASSUME NEW i \in lo..((hi + 1) - 1)
        PROVE  Step(P[i], Q[i], P[i + 1])'
    <3>1. CASE i = hi
      <4>1. P[i] = s /\ Q[i] = d /\ P[i + 1] = t
        BY <1>2, <1>4, <1>6, <3>1
      <4> QED
        BY <4>1
    <3>2. CASE i \in lo..(hi - 1) /\ i + 1 \in lo..hi
      <4>1. P[i] = ps[i] /\ Q[i] = q[i] /\ P[i + 1] = ps[i + 1]
        BY <1>6, <1>8, <3>2
      <4>2. Step(ps[i], q[i], ps[i + 1])'
        BY <2>1, <3>2 DEF Chain
      <4> QED
        BY <4>1, <4>2
    <3> QED
      BY <1>8, <3>1, <3>2
  <2> QED
    BY <2>2, <2>3 DEF Chain
<1>11. Laid(lo, hi + 1, Q, O)'
  <2>1. /\ Len(wire') = Len(wire) + Width(d)
        /\ \A i \in 1..Len(wire) : wire'[i] = wire[i]
        /\ \A j \in 1..Width(d) : wire'[Len(wire) + j] = Token(d, j)
    BY PutTokens
  <2>2. Len(wire) = off[hi] - off[lo] /\ Len(wire) \in Nat
    BY <1>2 DEF Laid
  <2>3. /\ \A i \in lo..(hi - 1) : off[i + 1] = off[i] + Width(q[i])
        /\ \A i, j \in lo..hi : i < j => off[i] < off[j]
        /\ \A i \in lo..(hi - 1) : \A j \in 1..Width(q[i]) :
             (off[i] - off[lo]) + j <= Len(wire) => wire[(off[i] - off[lo]) + j] = Token(q[i], j)
    BY <1>2 DEF Laid
  <2>4. lo \in lo..hi /\ O[lo] = off[lo]
    BY <1>4, <1>6
  <2>5. ASSUME NEW i \in lo..((hi + 1) - 1)
        PROVE  O[i + 1] = O[i] + Width(Q[i])
    <3>1. CASE i = hi
      BY <1>4, <1>6, <3>1
    <3>2. CASE i \in lo..(hi - 1) /\ i + 1 \in lo..hi
      BY <1>6, <1>8, <2>3, <3>2
    <3> QED
      BY <1>8, <3>1, <3>2
  <2>6. ASSUME NEW i \in lo..(hi + 1), NEW j \in lo..(hi + 1), i < j
        PROVE  O[i] < O[j]
    <3>1. i \in lo..hi
      BY <1>4, <2>6
    <3>2. CASE j \in lo..hi
      BY <1>6, <2>3, <2>6, <3>1, <3>2
    <3>3. CASE j = hi + 1
      <4>1. off[i] <= off[hi]
        BY <1>4, <2>3, <3>1
      <4>2. off[i] < off[hi] + Width(d)
        BY <1>3, <1>4, <3>1, <4>1
      <4> QED
        BY <1>6, <3>1, <3>3, <4>2
    <3> QED
      BY <1>7, <3>2, <3>3
  <2>7. Len(wire') = O[hi + 1] - O[lo]
    BY <1>3, <1>4, <1>6, <2>1, <2>2, <2>4
  <2>8. ASSUME NEW i \in lo..((hi + 1) - 1), NEW j \in 1..Width(Q[i])
        PROVE  wire'[(O[i] - O[lo]) + j] = Token(Q[i], j)
    <3>1. CASE i = hi
      <4>1. O[i] - O[lo] = Len(wire) /\ Q[i] = d
        BY <1>4, <1>6, <2>2, <2>4, <3>1
      <4> QED
        BY <2>1, <4>1
    <3>2. CASE i \in lo..(hi - 1) /\ i + 1 \in lo..hi
      <4>1. O[i] = off[i] /\ Q[i] = q[i] /\ i \in lo..hi
        BY <1>6, <1>8, <3>2
      <4>2. off[i + 1] <= off[hi] /\ off[lo] <= off[i]
        <5>1. i + 1 = hi \/ i + 1 < hi
          BY <1>4, <3>2
        <5>2. i = lo \/ lo < i
          BY <1>4, <3>2
        <5>3. off[i + 1] <= off[hi]
          BY <1>4, <2>3, <3>2, <5>1
        <5>4. off[lo] <= off[i]
          BY <1>4, <2>3, <2>4, <4>1, <5>2
        <5> QED
          BY <5>3, <5>4
      <4>3. off[i + 1] = off[i] + Width(q[i]) /\ Width(q[i]) \in Nat
        <5>1. q[i] \in ChunkSet
          BY <1>2, <3>2
        <5> QED
          BY <2>3, <3>2, <5>1, WidthType
      <4>4. j \in 1..Width(q[i]) /\ j \in Nat
        BY <4>1, <4>3
      <4>5. (off[i] - off[lo]) + j \in 1..Len(wire)
        <5>1. off[i] \in Nat /\ off[lo] \in Nat /\ off[hi] \in Nat
          BY <1>4, <2>4, <4>1
        <5>2. off[lo] <= off[i] /\ off[i] + Width(q[i]) <= off[hi]
          BY <4>2, <4>3
        <5>3. (off[i] - off[lo]) + j \in 1..(off[hi] - off[lo])
          BY <4>3, <4>4, <5>1, <5>2, Within
        <5> QED
          BY <2>2, <5>3
      <4>6. wire[(off[i] - off[lo]) + j] = Token(q[i], j)
        <5>1. (off[i] - off[lo]) + j <= Len(wire)
          BY <4>5
        <5> QED
          BY <2>3, <3>2, <4>4, <5>1
      <4> QED
        BY <2>1, <2>4, <4>1, <4>5, <4>6
    <3> QED
      BY <1>8, <3>1, <3>2
  <2>9. Len(wire') <= O[hi + 1] - O[lo]
    BY <1>3, <1>4, <1>6, <2>1, <2>2, <2>4
  <2> QED
    BY <2>5, <2>6, <2>7, <2>8, <2>9 DEF Laid
<1>12. P[hi + 1] = Snapshot'
  BY <1>6
<1>13. lo <= hi + 1
  BY <1>4
<1> QED
  BY <1>4, <1>5, <1>9, <1>10, <1>11, <1>12, <1>13 DEF Sync

-----------------------------------------------------------------------------
(* The peer's steps *)

\* The peer puts the chunk d on the wire, which takes it from s to t.
Puts(s, d, t) ==
  /\ s = Snapshot
  /\ t = Snapshot'
  /\ d.count = IF size <= d.m.len - d.from THEN size ELSE d.m.len - d.from
  /\ d.from <= d.m.len
  /\ Opens(s.cur[d.m.ch], d, t.cur[d.m.ch]) \/ GoesOn(s.cur[d.m.ch], d, t.cur[d.m.ch])
  /\ wire' = After(wire, d)
  /\ out' = [out EXCEPT ![d.m.ch] = [msg |-> d.msg, done |-> d.from + d.count]]
  /\ complete' = IF d.from + d.count = d.m.len THEN Append(complete, d.msg) ELSE complete
  /\ sent' \in Seq(Message)
  /\ Len(sent') <= MaxMessages
  /\ \A n \in 1..Len(sent) : n \in 1..Len(sent') /\ sent'[n] = sent[n]
  /\ Known(d.msg, d.m)'
  /\ last' \in [Channels -> [fmt : 0..2, delta : Times, ext : BOOLEAN]]
  /\ \A other \in Channels \ {d.m.ch} : last'[other] = last[other]
  /\ style = "own" => last'[d.m.ch].ext = (d.m.ts >= Mark)
  /\ size' = IF d.m.type = "chunksize" THEN d.m.value ELSE size
  /\ style' = style

LEMMA SnapshotType ==
  PeerInv => Snapshot \in Snapshots /\ SnapshotOK(Snapshot)
<1> SUFFICES ASSUME PeerInv
             PROVE  Snapshot \in Snapshots /\ SnapshotOK(Snapshot)
  OBVIOUS
<1>1. ASSUME NEW ch \in Channels
      PROVE  View(ch) \in Views
  <2>1. /\ out[ch].msg \in 0..MaxMessages /\ out[ch].done \in Nat
        /\ last[ch].fmt \in 0..2 /\ last[ch].delta \in Times /\ last[ch].ext \in BOOLEAN
    BY DEF PeerInv
  <2>2. out[ch].msg # 0 => sent[out[ch].msg] \in Message
    BY DEF PeerInv, ViewOK, View
  <2> QED
    BY <2>1, <2>2 DEF View, Views
<1>2. size \in Nat \ {0} /\ Len(complete) \in Nat
  BY DEF PeerInv
<1>3. Snapshot \in Snapshots
  BY <1>1, <1>2 DEF Snapshot, Snapshots
<1>4. \A ch \in Channels : ViewOK(ch, Snapshot.cur[ch])
  BY DEF PeerInv, Snapshot
<1>5. Snapshot.ended <= Len(complete)
  BY <1>2 DEF Snapshot
<1> QED
  BY <1>3, <1>4, <1>5 DEF SnapshotOK

LEMMA PutsGrows ==
  ASSUME PeerInv, NEW d, NEW s, NEW t, Puts(s, d, t)
  PROVE  Grows
<1>1. Len(complete) \in Nat
  BY DEF PeerInv
<1>2. /\ Len(complete') \in Nat
      /\ Len(complete) <= Len(complete')
      /\ \A k \in 1..Len(complete) : complete'[k] = complete[k]
  <2>1. complete \in Seq(Nat)
    BY DEF PeerInv
  <2>2. CASE complete' = complete
    BY <1>1, <2>2
  <2>3. CASE complete' = Append(complete, d.msg)
    BY <2>1, <2>3
  <2> QED
    BY <2>2, <2>3 DEF Puts
<1> QED
  BY <1>1, <1>2 DEF Puts, Grows

LEMMA PutsViews ==
  ASSUME PeerInv, NEW d \in ChunkSet, NEW s, NEW t, Puts(s, d, t)
  PROVE  /\ t.cur[d.m.ch].msg = d.msg
         /\ t.cur[d.m.ch].m = d.m
         /\ t.cur[d.m.ch].done = d.from + d.count
         /\ \A other \in Channels \ {d.m.ch} : t.cur[other] = s.cur[other]
<1>1. d.msg \in 1..MaxMessages /\ d.msg # 0 /\ d.m.ch \in Channels
  BY Messages DEF ChunkSet
<1>2. out'[d.m.ch] = [msg |-> d.msg, done |-> d.from + d.count] /\ sent'[d.msg] = d.m
  BY <1>1 DEF PeerInv, Puts, Known
<1>3. s = Snapshot /\ t = Snapshot'
  BY DEF Puts
<1>4. ASSUME NEW other \in Channels \ {d.m.ch}
      PROVE  t.cur[other] = s.cur[other]
  <2>1. out'[other] = out[other] /\ last'[other] = last[other]
    BY DEF PeerInv, Puts
  <2>2. out[other].msg # 0 => sent'[out[other].msg] = sent[out[other].msg]
    <3>1. out[other].msg # 0 => out[other].msg \in 1..Len(sent)
      BY DEF PeerInv, ViewOK, View, Known
    <3> QED
      BY <3>1 DEF Puts
  <2> QED
    BY <1>3, <2>1, <2>2 DEF Snapshot, View
<1> QED
  BY <1>1, <1>2, <1>3, <1>4 DEF Snapshot, View

LEMMA PutsKeeps ==
  ASSUME PeerInv, NEW d \in ChunkSet, NEW s, NEW t, Puts(s, d, t)
  PROVE  PeerInv' /\ d.from + d.count <= PoolSize /\ d.from + d.count <= d.m.len
<1>1. /\ d.msg \in 1..MaxMessages /\ d.m \in Message /\ d.from \in Nat /\ d.count \in Nat
      /\ d.m.ch \in Channels /\ d.m.len \in Nat /\ d.m.len <= PoolSize
  BY Messages, Constants DEF ChunkSet
<1>2. d.from + d.count <= d.m.len /\ (d.from + d.count = 0 => d.m.len = 0)
  <2>1. size \in Nat \ {0}
    BY DEF PeerInv
  <2> QED
    BY <1>1, <2>1 DEF Puts
<1>3. Grows
  BY PutsGrows
<1>4. complete' \in Seq(1..Len(sent'))
  <2>1. Len(sent) \in Nat /\ Len(sent') \in Nat
    BY DEF PeerInv, Puts
  <2>2. 1..Len(sent) \subseteq 1..Len(sent')
    BY DEF Puts
  <2>3. complete \in Seq(1..Len(sent'))
    <3>1. complete \in Seq(1..Len(sent))
      BY DEF PeerInv
    <3> QED
      BY <2>2, <3>1
  <2>4. d.msg \in 1..Len(sent')
    BY DEF Puts, Known
  <2>5. CASE complete' = complete
    BY <2>3, <2>5
  <2>6. CASE complete' = Append(complete, d.msg)
    BY <2>3, <2>4, <2>6
  <2> QED
    BY <2>5, <2>6 DEF Puts
<1>5. size' \in Nat \ {0}
  BY <1>1, Messages DEF PeerInv, Puts
<1>6. out' \in [Channels -> [msg : 0..MaxMessages, done : Nat]]
  <2>1. [msg |-> d.msg, done |-> d.from + d.count] \in [msg : 0..MaxMessages, done : Nat]
    BY <1>1
  <2> QED
    BY <2>1 DEF PeerInv, Puts
<1>7. ASSUME NEW ch \in Channels
      PROVE  ViewOK(ch, View(ch))'
  <2> DEFINE v == t.cur[ch]
  <2>1. ViewOK(ch, v)'
    <3>1. CASE ch = d.m.ch
      <4>1. v.msg = d.msg /\ v.m = d.m /\ v.done = d.from + d.count
        BY <3>1, PutsViews
      <4> HIDE DEF v
      <4> QED
        BY <1>1, <1>2, <3>1, <4>1 DEF ViewOK, Puts
    <3>2. CASE ch # d.m.ch
      <4>1. v = s.cur[ch]
        BY <3>2, PutsViews
      <4> HIDE DEF v
      <4>2. ViewOK(ch, v)
        BY <4>1 DEF PeerInv, Puts, Snapshot
      <4>3. v.msg # 0 => Known(v.msg, v.m)'
        BY <1>3, <4>2, StillKnown, SMTT(30) DEF ViewOK
      <4> QED
        BY <4>2, <4>3 DEF ViewOK
    <3> QED
      BY <3>1, <3>2
  <2>2. v = [msg |-> out'[ch].msg, m |-> IF out'[ch].msg = 0 THEN 0 ELSE sent'[out'[ch].msg],
             done |-> out'[ch].done,
             fmt |-> last'[ch].fmt, delta |-> last'[ch].delta, ext |-> last'[ch].ext]
    BY Zenon DEF Puts, Snapshot, View
  <2> HIDE DEF v
  <2> QED
    BY <2>1, <2>2 DEF ViewOK, View
<1>8. ASSUME NEW ch \in Channels, style' = "own", out'[ch].msg # 0
      PROVE  last'[ch].ext = (sent'[out'[ch].msg].ts >= Mark)
  <2>1. style = "own"
    BY <1>8 DEF Puts
  <2>2. CASE ch = d.m.ch
    <3>1. out'[ch].msg = d.msg /\ sent'[d.msg] = d.m
      BY <1>1, <2>2 DEF PeerInv, Puts, Known
    <3> QED
      BY <2>1, <2>2, <3>1 DEF Puts
  <2>3. CASE ch # d.m.ch
    <3>1. out'[ch] = out[ch] /\ last'[ch] = last[ch]
      BY <2>3 DEF PeerInv, Puts
    <3>2. out[ch].msg \in 1..Len(sent)
      BY <1>8, <3>1 DEF PeerInv, ViewOK, View, Known
    <3>3. sent'[out[ch].msg] = sent[out[ch].msg]
      BY <3>2 DEF Puts
    <3>4. last[ch].ext = (sent[out[ch].msg].ts >= Mark)
      BY <1>8, <2>1, <3>1 DEF PeerInv, Previous
    <3> QED
      BY <3>1, <3>3, <3>4
  <2> QED
    BY <2>2, <2>3
<1>9. d.from + d.count <= PoolSize
  BY <1>1, <1>2, Constants
<1> QED
  BY <1>2, <1>4, <1>5, <1>6, <1>7, <1>8, <1>9 DEF PeerInv, Puts, Previous

LEMMA PutsStep ==
  ASSUME PeerInv, NEW d \in ChunkSet, NEW s, NEW t, Puts(s, d, t)
  PROVE  Step(s, d, t)'
<1>1. s = Snapshot /\ t = Snapshot'
  BY DEF Puts
<1>3. Opens(s.cur[d.m.ch], d, t.cur[d.m.ch]) \/ GoesOn(s.cur[d.m.ch], d, t.cur[d.m.ch])
  BY DEF Puts
<1>4. s.size = size /\ t.size = size' /\ s.ended = Len(complete) /\ t.ended = Len(complete')
  BY <1>1 DEF Snapshot
<1>5. \A other \in Channels \ {d.m.ch} : t.cur[other] = s.cur[other]
  BY PutsViews
<1>6. /\ t.cur[d.m.ch].msg = d.msg
      /\ t.cur[d.m.ch].m = d.m
      /\ t.cur[d.m.ch].done = d.from + d.count
  BY PutsViews
<1>7. IF d.from + d.count = d.m.len
      THEN /\ t.ended = s.ended + 1
           /\ t.ended <= Len(complete')
           /\ complete'[t.ended] = d.msg
      ELSE t.ended = s.ended
  <2>1. complete \in Seq(Nat) /\ Len(complete) \in Nat
    BY DEF PeerInv
  <2>2. CASE d.from + d.count = d.m.len
    <3>1. complete' = Append(complete, d.msg)
      BY <2>2 DEF Puts
    <3> QED
      BY <1>4, <2>1, <2>2, <3>1
  <2>3. CASE d.from + d.count # d.m.len
    BY <1>4, <2>3 DEF Puts
  <2> QED
    BY <2>2, <2>3
<1>8. Known(d.msg, d.m)'
  BY DEF Puts
<1>9. /\ d.count = IF s.size <= d.m.len - d.from THEN s.size ELSE d.m.len - d.from
      /\ t.size = IF d.m.type = "chunksize" THEN d.m.value ELSE s.size
  BY <1>4 DEF Puts
<1> HIDE DEF Puts, PeerInv
<1> QED
  BY <1>3, <1>5, <1>6, <1>7, <1>8, <1>9 DEF Step

\* The fields of a snapshot.
LEMMA Seen ==
  ASSUME NEW s, s = Snapshot, NEW t, t = Snapshot', NEW ch \in Channels
  PROVE  /\ s.cur[ch].msg = out[ch].msg
         /\ out[ch].msg # 0 => s.cur[ch].m = Previous(ch)
         /\ s.cur[ch].done = out[ch].done
         /\ s.cur[ch].fmt = last[ch].fmt
         /\ s.cur[ch].delta = last[ch].delta
         /\ s.cur[ch].ext = last[ch].ext
         /\ t.cur[ch].fmt = last'[ch].fmt
         /\ t.cur[ch].delta = last'[ch].delta
         /\ t.cur[ch].ext = last'[ch].ext
BY DEF Snapshot, View, Previous

LEMMA OneMore ==
  ASSUME PeerInv, Len(sent) < MaxMessages, NEW m \in Message, sent' = Append(sent, m),
         NEW num, num = Len(sent) + 1
  PROVE  /\ sent' \in Seq(Message)
         /\ Len(sent') <= MaxMessages
         /\ \A n \in 1..Len(sent) : n \in 1..Len(sent') /\ sent'[n] = sent[n]
         /\ Known(num, m)'
         /\ num \in 1..MaxMessages
<1>1. sent \in Seq(Message) /\ MaxMessages \in Nat /\ Len(sent) \in Nat
  BY Constants DEF PeerInv
<1>2. /\ sent' \in Seq(Message) /\ Len(sent') = Len(sent) + 1
      /\ \A n \in 1..Len(sent) : sent'[n] = sent[n]
      /\ sent'[Len(sent) + 1] = m
  BY <1>1
<1>3. Len(sent) + 1 \in 1..Len(sent') /\ \A n \in 1..Len(sent) : n \in 1..Len(sent')
  BY <1>1, <1>2
<1> QED
  BY <1>1, <1>2, <1>3 DEF Known

\* What Begin and Write have in common.
LEMMA FirstPuts ==
  ASSUME PeerInv, Len(sent) < MaxMessages, NEW m \in Message, sent' = Append(sent, m),
         NEW d \in ChunkSet, d.msg = Len(sent) + 1, d.m = m, d.from = 0,
         d.count = IF size <= m.len THEN size ELSE m.len,
         NEW s, s = Snapshot, NEW t, t = Snapshot',
         Opens(s.cur[m.ch], d, t.cur[m.ch]),
         wire' = After(wire, d),
         out' = [out EXCEPT ![m.ch] = [msg |-> Len(sent) + 1, done |-> d.count]],
         complete' = IF d.count = m.len THEN Append(complete, Len(sent) + 1) ELSE complete,
         NEW l \in [fmt : 0..2, delta : Times, ext : BOOLEAN],
         last' = [last EXCEPT ![m.ch] = l],
         style = "own" => l.ext = (m.ts >= Mark),
         size' = IF m.type = "chunksize" THEN m.value ELSE size,
         style' = style
  PROVE  Puts(s, d, t)
<1>1. m.ch \in Channels /\ m.len \in Nat /\ d.count \in Nat
  BY Messages DEF ChunkSet
<1>2. d.from + d.count = d.count /\ m.len - d.from = m.len /\ d.from <= m.len
  BY <1>1
<1>3. /\ last' \in [Channels -> [fmt : 0..2, delta : Times, ext : BOOLEAN]]
      /\ \A other \in Channels \ {m.ch} : last'[other] = last[other]
      /\ last'[m.ch] = l
  BY <1>1 DEF PeerInv
<1>4. /\ sent' \in Seq(Message)
      /\ Len(sent') <= MaxMessages
      /\ \A n \in 1..Len(sent) : n \in 1..Len(sent') /\ sent'[n] = sent[n]
      /\ Known(d.msg, d.m)'
  BY OneMore
<1> QED
  BY <1>2, <1>3, <1>4 DEF Puts

LEMMA BeginPuts ==
  ASSUME PeerInv, Len(sent) < MaxMessages, NEW m \in Message, NEW fmt \in 0..3, Begin(m, fmt),
         NEW s, s = Snapshot, NEW t, t = Snapshot'
  PROVE  \E d \in ChunkSet : Puts(s, d, t)
<1> DEFINE time == IF fmt = 0 THEN m.ts ELSE Delta(m)
           ext == IF fmt = 3 THEN last[m.ch].ext ELSE time >= Mark
           stamp == IF fmt = 3 /\ last[m.ch].fmt = 0 THEN m.ts ELSE time
           count == IF size <= m.len THEN size ELSE m.len
           d == [msg |-> Len(sent) + 1, m |-> m, fmt |-> fmt, field |-> time, ext |-> ext,
                 stamp |-> stamp, from |-> 0, count |-> count]
           l == [fmt |-> IF fmt = 3 THEN last[m.ch].fmt ELSE fmt,
                 delta |-> IF fmt = 3 THEN last[m.ch].delta ELSE time, ext |-> ext]
<1>1. m.ch \in Channels /\ m.ts \in Times /\ m.len \in Nat /\ size \in Nat \ {0}
  BY Messages DEF PeerInv
<1>2. out[m.ch].msg # 0 => Previous(m.ch) \in Message
  BY <1>1 DEF PeerInv, ViewOK, View, Previous
<1>3. time \in Times
  <2>1. CASE fmt = 0
    BY <1>1, <2>1
  <2>2. CASE fmt # 0
    <3>1. out[m.ch].msg # 0
      BY <2>2 DEF Begin, Sparse
    <3>2. Previous(m.ch).ts \in Times
      BY <1>2, <3>1, Messages
    <3> QED
      BY <1>1, <2>2, <3>2, DeltaAdds DEF Delta
  <2> QED
    BY <2>1, <2>2
<1>4. l \in [fmt : 0..2, delta : Times, ext : BOOLEAN]
  <2>1. last[m.ch] \in [fmt : 0..2, delta : Times, ext : BOOLEAN]
    BY <1>1 DEF PeerInv
  <2>2. ext \in BOOLEAN
    <3>1. CASE fmt = 3
      BY <2>1, <3>1
    <3>2. CASE fmt # 3
      <4>1. (time >= Mark) \in BOOLEAN
        OBVIOUS
      <4> QED
        BY <3>2, <4>1, Zenon
    <3> QED
      BY <3>1, <3>2, Zenon
  <2>3. (IF fmt = 3 THEN last[m.ch].fmt ELSE fmt) \in 0..2
    BY <2>1
  <2>4. (IF fmt = 3 THEN last[m.ch].delta ELSE time) \in Times
    BY <1>3, <2>1
  <2> HIDE DEF ext, time
  <2> QED
    BY <2>2, <2>3, <2>4
<1>5. d \in ChunkSet
  <2>1. Len(sent) + 1 \in 1..MaxMessages
    BY OneMore DEF Begin
  <2>2. ext \in BOOLEAN
    BY <1>4
  <2>3. stamp \in Times /\ count \in Nat
    BY <1>1, <1>3
  <2> HIDE DEF ext, stamp, count, time
  <2> QED
    BY <1>3, <2>1, <2>2, <2>3 DEF ChunkSet
<1>6. Min({size, m.len - 0}) = count
  <2>1. m.len - 0 = m.len
    BY <1>1
  <2> QED
    BY <1>1, <2>1, MinOfTwo
<1>7. Opens(s.cur[m.ch], d, t.cur[m.ch])
  <2> DEFINE v == s.cur[m.ch]
             w == t.cur[m.ch]
  <2>1. /\ v.msg = out[m.ch].msg
        /\ out[m.ch].msg # 0 => v.m = Previous(m.ch)
        /\ v.done = out[m.ch].done
        /\ v.fmt = last[m.ch].fmt
        /\ v.delta = last[m.ch].delta
        /\ v.ext = last[m.ch].ext
        /\ w.fmt = last'[m.ch].fmt
        /\ w.delta = last'[m.ch].delta
        /\ w.ext = last'[m.ch].ext
    BY <1>1, Seen
  <2>2. last'[m.ch] = l
    BY <1>1 DEF PeerInv, Begin
  <2>3. out[m.ch].msg # 0 => out[m.ch].done = Previous(m.ch).len
    BY DEF Begin, Finished
  <2>4. fmt # 0 => /\ out[m.ch].msg # 0
                   /\ fmt >= 2 => m.len = Previous(m.ch).len /\ m.type = Previous(m.ch).type
                   /\ fmt = 3 => Delta(m) = IF last[m.ch].fmt = 0 THEN 0 ELSE last[m.ch].delta
    BY DEF Begin, Sparse
  <2>5. out[m.ch].msg # 0 => (m.ts - v.m.ts) % TsMod = Delta(m)
    BY <2>1, SMTT(30) DEF Delta
  <2> HIDE DEF v, w
  <2> QED
    BY <2>1, <2>2, <2>3, <2>4, <2>5 DEF Opens, v, w
<1>8. wire' = After(wire, d)
  BY <1>6, Zenon DEF Begin, Put, After, HeaderPart
<1>9. /\ out' = [out EXCEPT ![m.ch] = [msg |-> Len(sent) + 1, done |-> count]]
      /\ complete' = IF count = m.len THEN Append(complete, Len(sent) + 1) ELSE complete
  <2>1. 0 + count = count
    BY <1>1
  <2> QED
    BY <1>6, <2>1 DEF Begin, Put
<1>10. /\ sent' = Append(sent, m)
       /\ last' = [last EXCEPT ![m.ch] = l]
       /\ style # "own"
       /\ style' = style
       /\ size' = IF m.type = "chunksize" THEN m.value ELSE size
  BY DEF Begin
<1>11. d.msg = Len(sent) + 1 /\ d.m = m /\ d.from = 0 /\ d.count = count
  OBVIOUS
<1> HIDE DEF d, l
<1>12. Puts(s, d, t)
  BY <1>4, <1>5, <1>7, <1>8, <1>9, <1>10, <1>11, FirstPuts
<1> QED
  BY <1>5, <1>12

LEMMA WritePuts ==
  ASSUME PeerInv, Len(sent) < MaxMessages, NEW m \in Message, Write(m), m.len # 0,
         NEW s, s = Snapshot, NEW t, t = Snapshot'
  PROVE  \E d \in ChunkSet : Puts(s, d, t)
<1> DEFINE ext == m.ts >= Mark
           count == IF size <= m.len THEN size ELSE m.len
           d == [msg |-> Len(sent) + 1, m |-> m, fmt |-> 0, field |-> m.ts, ext |-> ext,
                 stamp |-> m.ts, from |-> 0, count |-> count]
           l == [fmt |-> 0, delta |-> m.ts, ext |-> ext]
<1>1. m.ch \in Channels /\ m.ts \in Times /\ m.len \in Nat /\ size \in Nat \ {0}
  BY Messages DEF PeerInv
<1>2. /\ sent' = Append(sent, m)
      /\ last' = [last EXCEPT ![m.ch] = l]
      /\ style = "own"
      /\ style' = style
      /\ size' = IF m.type = "chunksize" THEN m.value ELSE size
      /\ \A ch \in Channels : Finished(ch)
  BY DEF Write
<1>3. l \in [fmt : 0..2, delta : Times, ext : BOOLEAN]
  <2>1. ext \in BOOLEAN
    OBVIOUS
  <2> HIDE DEF ext
  <2> QED
    BY <1>1, <2>1
<1>4. d \in ChunkSet
  <2>1. Len(sent) + 1 \in 1..MaxMessages
    BY <1>2, OneMore
  <2>2. ext \in BOOLEAN /\ count \in Nat
    BY <1>1
  <2> HIDE DEF ext, count
  <2> QED
    BY <1>1, <2>1, <2>2 DEF ChunkSet
<1>5. Min({size', m.len - 0}) = count
  <2>1. m.len - 0 = m.len
    BY <1>1
  <2>2. CASE m.type = "media"
    BY <1>1, <1>2, <2>1, <2>2, MinOfTwo
  <2>3. CASE m.type # "media"
    <3>1. m.len = 1 /\ m.value \in Nat \ {0}
      BY <2>3, Messages
    <3>2. size' \in Nat \ {0}
      BY <1>1, <1>2, <3>1
    <3> QED
      BY <1>1, <2>1, <3>1, <3>2, MinOfTwo
  <2> QED
    BY <2>2, <2>3
<1>6. Opens(s.cur[m.ch], d, t.cur[m.ch])
  <2> DEFINE v == s.cur[m.ch]
             w == t.cur[m.ch]
  <2>1. /\ v.msg = out[m.ch].msg
        /\ out[m.ch].msg # 0 => v.m = Previous(m.ch)
        /\ v.done = out[m.ch].done
        /\ w.fmt = last'[m.ch].fmt
        /\ w.delta = last'[m.ch].delta
        /\ w.ext = last'[m.ch].ext
    BY <1>1, Seen
  <2>2. last'[m.ch] = l
    BY <1>1, <1>2 DEF PeerInv
  <2>3. out[m.ch].msg # 0 => out[m.ch].done = Previous(m.ch).len
    BY <1>1, <1>2 DEF Finished
  <2> HIDE DEF v, w
  <2> QED
    BY <2>1, <2>2, <2>3 DEF Opens, v, w
<1>7. writeChunk(Len(sent) + 1, m, 0, size')
  BY DEF Write
<1>8. wire' = After(wire, d)
  BY <1>5, <1>7 DEF writeChunk, writeHeader, Put, After, HeaderPart
<1>9. /\ out' = [out EXCEPT ![m.ch] = [msg |-> Len(sent) + 1, done |-> count]]
      /\ complete' = IF count = m.len THEN Append(complete, Len(sent) + 1) ELSE complete
  <2>1. 0 + count = count
    BY <1>1
  <2> QED
    BY <1>5, <1>7, <2>1 DEF writeChunk, Put
<1>10. d.msg = Len(sent) + 1 /\ d.m = m /\ d.from = 0 /\ d.count = count
  OBVIOUS
<1>11. l.ext = (m.ts >= Mark)
  OBVIOUS
<1> HIDE DEF d, l
<1>12. Puts(s, d, t)
  BY <1>2, <1>3, <1>4, <1>6, <1>8, <1>9, <1>10, <1>11, FirstPuts
<1> QED
  BY <1>4, <1>12

\* What WriteOn and Continue have in common.
LEMMA NextPuts ==
  ASSUME PeerInv, NEW ch \in Channels, ~Finished(ch),
         NEW d \in ChunkSet, d.msg = out[ch].msg, d.m = Previous(ch), d.from = out[ch].done,
         d.fmt = 3, d.ext => last[ch].ext /\ d.stamp = Previous(ch).ts,
         Put(d.msg, d.m, HeaderPart(d), d.from, size),
         d.count = Min({size, d.m.len - d.from}),
         UNCHANGED <<style, sent, size, last>>,
         NEW s, s = Snapshot, NEW t, t = Snapshot'
  PROVE  Puts(s, d, t)
<1>1. /\ out[ch].msg # 0 /\ Known(out[ch].msg, Previous(ch)) /\ Previous(ch) \in Message
      /\ Previous(ch).ch = ch
      /\ out[ch].done <= Previous(ch).len /\ out[ch].done # Previous(ch).len
      /\ out[ch].done = 0 => Previous(ch).len = 0
  BY DEF PeerInv, ViewOK, View, Previous, Finished
<1>2. d.m.len \in Nat /\ d.from \in Nat /\ size \in Nat \ {0} /\ d.m.ch = ch
  BY <1>1, Messages DEF ChunkSet, PeerInv
<1>3. d.from < d.m.len /\ d.from # 0
  BY <1>1, <1>2
<1>4. d.count = IF size <= d.m.len - d.from THEN size ELSE d.m.len - d.from
  BY <1>2, MinOfTwo
<1>5. d.m.type # "chunksize"
  BY <1>1, <1>2, <1>3, Messages
<1>6. GoesOn(s.cur[ch], d, t.cur[ch])
  <2> DEFINE v == s.cur[ch]
             w == t.cur[ch]
  <2>1. /\ v.msg = out[ch].msg
        /\ out[ch].msg # 0 => v.m = Previous(ch)
        /\ v.done = out[ch].done
        /\ v.fmt = last[ch].fmt
        /\ v.delta = last[ch].delta
        /\ v.ext = last[ch].ext
        /\ w.fmt = last'[ch].fmt
        /\ w.delta = last'[ch].delta
        /\ w.ext = last'[ch].ext
    BY Seen
  <2> HIDE DEF v, w
  <2> QED
    BY <1>1, <1>3, <2>1 DEF GoesOn, v, w
<1>7. /\ wire' = After(wire, d)
      /\ out' = [out EXCEPT ![ch] = [msg |-> d.msg, done |-> d.from + d.count]]
      /\ complete' = IF d.from + d.count = d.m.len THEN Append(complete, d.msg) ELSE complete
  BY <1>2 DEF Put, After
<1>8. /\ sent' \in Seq(Message)
      /\ Len(sent') <= MaxMessages
      /\ \A n \in 1..Len(sent) : n \in 1..Len(sent') /\ sent'[n] = sent[n]
      /\ Known(d.msg, d.m)'
      /\ last' \in [Channels -> [fmt : 0..2, delta : Times, ext : BOOLEAN]]
  BY <1>1 DEF PeerInv, Known
<1>9. style = "own" => last'[ch].ext = (d.m.ts >= Mark)
  BY <1>1 DEF PeerInv
<1>10. /\ d.from <= d.m.len
       /\ GoesOn(s.cur[d.m.ch], d, t.cur[d.m.ch])
       /\ out' = [out EXCEPT ![d.m.ch] = [msg |-> d.msg, done |-> d.from + d.count]]
       /\ \A other \in Channels \ {d.m.ch} : last'[other] = last[other]
       /\ style = "own" => last'[d.m.ch].ext = (d.m.ts >= Mark)
       /\ size' = IF d.m.type = "chunksize" THEN d.m.value ELSE size
       /\ style' = style
  BY <1>2, <1>3, <1>5, <1>6, <1>7, <1>9
<1> QED
  BY <1>4, <1>7, <1>8, <1>10 DEF Puts

LEMMA WriteOnPuts ==
  ASSUME PeerInv, NEW ch \in Channels, WriteOn(ch),
         NEW s, s = Snapshot, NEW t, t = Snapshot'
  PROVE  \E d \in ChunkSet : Puts(s, d, t)
<1> DEFINE m == Previous(ch)
           ext == m.ts >= Mark
           count == Min({size, m.len - out[ch].done})
           d == [msg |-> out[ch].msg, m |-> m, fmt |-> 3, field |-> m.ts, ext |-> ext,
                 stamp |-> m.ts, from |-> out[ch].done, count |-> count]
<1>1. /\ out[ch].msg \in 1..MaxMessages /\ out[ch].done \in Nat
      /\ m \in Message /\ out[ch].done <= m.len /\ out[ch].done # 0
  <2>1. out[ch].msg # 0 /\ out[ch].msg \in 0..MaxMessages /\ out[ch].done \in Nat
    BY DEF WriteOn, Finished, PeerInv
  <2>2. /\ m \in Message /\ out[ch].done <= m.len /\ out[ch].done # m.len
        /\ out[ch].done = 0 => m.len = 0
    BY <2>1 DEF PeerInv, ViewOK, View, Previous, WriteOn, Finished
  <2> QED
    BY <2>1, <2>2, Constants
<1>2. m.ts \in Times /\ m.len \in Nat /\ size \in Nat \ {0}
  BY <1>1, Messages DEF PeerInv
<1>3. style = "own" /\ last[ch].ext = (m.ts >= Mark)
  BY <1>1 DEF WriteOn, PeerInv
<1>4. d \in ChunkSet
  <2>1. ext \in BOOLEAN /\ count \in Nat
    BY <1>1, <1>2, MinOfTwo
  <2> HIDE DEF ext, count, m
  <2> QED
    BY <1>1, <1>2, <2>1, Constants DEF ChunkSet
<1>5. /\ d.msg = out[ch].msg /\ d.m = Previous(ch) /\ d.from = out[ch].done /\ d.fmt = 3
      /\ d.stamp = Previous(ch).ts
      /\ d.count = Min({size, d.m.len - d.from})
  OBVIOUS
<1>6. d.ext => last[ch].ext
  BY <1>3
<1>7. Put(d.msg, d.m, HeaderPart(d), d.from, size)
  <2>1. writeChunk(d.msg, d.m, d.from, size)
    BY DEF WriteOn
  <2>2. writeHeader(3, m) = HeaderPart(d)
    BY DEF writeHeader, HeaderPart
  <2>3. d.from # 0
    BY <1>1
  <2> HIDE DEF d, m
  <2> QED
    BY <1>5, <2>1, <2>2, <2>3 DEF writeChunk, m
<1>8. ~Finished(ch) /\ UNCHANGED <<style, sent, size, last>>
  BY DEF WriteOn
<1> HIDE DEF d
<1>9. Puts(s, d, t)
  BY <1>4, <1>5, <1>6, <1>7, <1>8, NextPuts
<1> QED
  BY <1>4, <1>9

LEMMA ContinuePuts ==
  ASSUME PeerInv, NEW ch \in Channels, Continue(ch),
         NEW s, s = Snapshot, NEW t, t = Snapshot'
  PROVE  \E d \in ChunkSet : Puts(s, d, t)
<1> DEFINE m == Previous(ch)
           ext == style = "repeats" /\ last[ch].ext
           count == Min({size, m.len - out[ch].done})
           d == [msg |-> out[ch].msg, m |-> m, fmt |-> 3, field |-> 0, ext |-> ext,
                 stamp |-> m.ts, from |-> out[ch].done, count |-> count]
<1>1. /\ out[ch].msg \in 1..MaxMessages /\ out[ch].done \in Nat
      /\ m \in Message /\ out[ch].done <= m.len
  <2>1. out[ch].msg # 0 /\ out[ch].msg \in 0..MaxMessages /\ out[ch].done \in Nat
    BY DEF Continue, Finished, PeerInv
  <2>2. m \in Message /\ out[ch].done <= m.len
    BY <2>1 DEF PeerInv, ViewOK, View, Previous
  <2> QED
    BY <2>1, <2>2, Constants
<1>2. m.ts \in Times /\ m.len \in Nat /\ size \in Nat \ {0}
  BY <1>1, Messages DEF PeerInv
<1>3. d \in ChunkSet
  <2>1. ext \in BOOLEAN /\ count \in Nat
    BY <1>1, <1>2, MinOfTwo
  <2> HIDE DEF ext, count, m
  <2> QED
    BY <1>1, <1>2, <2>1, Constants DEF ChunkSet
<1>4. /\ d.msg = out[ch].msg /\ d.m = Previous(ch) /\ d.from = out[ch].done /\ d.fmt = 3
      /\ d.stamp = Previous(ch).ts
      /\ d.count = Min({size, d.m.len - d.from})
  OBVIOUS
<1>5. d.ext => last[ch].ext
  OBVIOUS
<1>6. Put(d.msg, d.m, HeaderPart(d), d.from, size)
  <2>1. Put(out[ch].msg, m, <<HeaderOf(3, m, 0)>> \o (IF ext THEN ExtendedTs(m.ts) ELSE << >>),
            out[ch].done, size)
    BY DEF Continue
  <2> QED
    BY <2>1 DEF HeaderPart
<1>7. ~Finished(ch) /\ UNCHANGED <<style, sent, size, last>>
  BY DEF Continue
<1> HIDE DEF d
<1>8. Puts(s, d, t)
  BY <1>3, <1>4, <1>5, <1>6, <1>7, NextPuts
<1> QED
  BY <1>3, <1>8

\* An empty message of the own peer: only sent knows of it.
LEMMA EmptyWrite ==
  ASSUME PeerInv, Len(sent) < MaxMessages, NEW m \in Message, Write(m), m.len = 0
  PROVE  Grows /\ PeerInv' /\ Snapshot' = Snapshot /\ wire' = wire
<1>1. /\ sent' = Append(sent, m)
      /\ size' = IF m.type = "chunksize" THEN m.value ELSE size
      /\ UNCHANGED <<wire, out, complete, last, style>>
  BY DEF Write
<1>2. size' = size
  BY <1>1, Messages
<1>3. /\ sent' \in Seq(Message)
      /\ Len(sent') <= MaxMessages
      /\ \A n \in 1..Len(sent) : n \in 1..Len(sent') /\ sent'[n] = sent[n]
  BY <1>1, OneMore
<1>4. Grows
  BY <1>1, <1>3 DEF Grows, PeerInv
<1>5. ASSUME NEW ch \in Channels
      PROVE  /\ out[ch].msg # 0 => sent'[out[ch].msg] = sent[out[ch].msg]
             /\ ViewOK(ch, View(ch))
             /\ style = "own" /\ out[ch].msg # 0 => last[ch].ext = (Previous(ch).ts >= Mark)
  BY <1>3 DEF PeerInv, ViewOK, View, Known
<1>7. Snapshot' = Snapshot
  BY <1>1, <1>2, <1>5 DEF Snapshot, View
<1>8. ASSUME NEW ch \in Channels
      PROVE  /\ ViewOK(ch, View(ch))'
             /\ style' = "own" /\ out'[ch].msg # 0 => last'[ch].ext = (Previous(ch)'.ts >= Mark)
  <2>0. PICK v : v = View(ch)
    OBVIOUS
  <2>1. ViewOK(ch, v)
    BY <1>5, <2>0
  <2>2. v.msg # 0 => Known(v.msg, v.m)'
    BY <1>4, <2>1, StillKnown DEF ViewOK
  <2>3. ViewOK(ch, v)'
    BY <2>1, <2>2 DEF ViewOK
  <2>4. v = [msg |-> out'[ch].msg, m |-> IF out'[ch].msg = 0 THEN 0 ELSE sent'[out'[ch].msg],
             done |-> out'[ch].done,
             fmt |-> last'[ch].fmt, delta |-> last'[ch].delta, ext |-> last'[ch].ext]
    BY <1>1, <1>5, <2>0 DEF View
  <2>5. ViewOK(ch, View(ch))'
    BY <2>3, <2>4 DEF ViewOK, View
  <2>6. style' = "own" /\ out'[ch].msg # 0 => last'[ch].ext = (Previous(ch)'.ts >= Mark)
    BY <1>1, <1>5 DEF Previous
  <2> QED
    BY <2>5, <2>6
<1>9. complete' \in Seq(1..Len(sent'))
  <2>1. 1..Len(sent) \subseteq 1..Len(sent')
    BY <1>3
  <2>2. complete \in Seq(1..Len(sent))
    BY DEF PeerInv
  <2> QED
    BY <1>1, <2>1, <2>2
<1> QED
  BY <1>1, <1>2, <1>3, <1>4, <1>7, <1>8, <1>9 DEF PeerInv

LEMMA SyncStays ==
  ASSUME Sync, Grows, UNCHANGED <<wire, cut, chunks, mem, remoteChunkSize, delivered>>,
         Snapshot' = Snapshot
  PROVE  Sync'
<1>1. PICK lo \in Nat, hi \in Nat :
        \E q \in [lo..(hi - 1) -> ChunkSet], ps \in [lo..hi -> Snapshots], off \in [lo..hi -> Nat] :
          /\ lo <= hi
          /\ InStep(ps[lo])
          /\ ~cut => ps[hi] = Snapshot
          /\ Chain(lo, hi, q, ps)
          /\ Laid(lo, hi, q, off)
  BY DEF Sync
<1>2. PICK q \in [lo..(hi - 1) -> ChunkSet], ps \in [lo..hi -> Snapshots], off \in [lo..hi -> Nat] :
        /\ lo <= hi
        /\ InStep(ps[lo])
        /\ ~cut => ps[hi] = Snapshot
        /\ Chain(lo, hi, q, ps)
        /\ Laid(lo, hi, q, off)
  BY <1>1
<1>3. InStep(ps[lo])'
  <2>1. PICK r : r = ps[lo]
    OBVIOUS
  <2>2. InStep(r)'
    BY <1>2, <2>1, InStepSame
  <2> QED
    BY <2>1, <2>2
<1>4. Chain(lo, hi, q, ps)'
  BY <1>2, StillChain
<1>5. Laid(lo, hi, q, off)'
  BY <1>2 DEF Laid
<1>6. ~cut' => ps[hi] = Snapshot'
  BY <1>2
<1> QED
  BY <1>2, <1>3, <1>4, <1>5, <1>6 DEF Sync

LEMMA SendKeeps ==
  ASSUME PeerInv, wire \in Seq(Tokens), Send
  PROVE  /\ PeerInv' /\ Grows
         /\ wire' \in Seq(Tokens)
         /\ Sync => Sync'
<1>1. ~cut /\ UNCHANGED <<cut, conn>>
  BY DEF Send
<1>2. PICK s, t : s = Snapshot /\ t = Snapshot'
  OBVIOUS
<1>3. CASE \E d \in ChunkSet : Puts(s, d, t)
  <2>1. PICK d \in ChunkSet : Puts(s, d, t)
    BY <1>3
  <2>2. PeerInv' /\ d.from + d.count <= PoolSize
    BY <2>1, PutsKeeps
  <2>3. Grows
    BY <2>1, PutsGrows
  <2>4. wire' = After(wire, d)
    BY <2>1 DEF Puts
  <2>5. wire' \in Seq(Tokens)
    BY <2>2, <2>4, PutTokens
  <2>6. Step(s, d, t)'
    BY <2>1, PutsStep
  <2>7. t \in Snapshots /\ SnapshotOK(t)'
    <3>1. (PeerInv => Snapshot \in Snapshots /\ SnapshotOK(Snapshot))'
      BY SnapshotType, PTL
    <3> QED
      BY <1>2, <2>2, <3>1 DEF SnapshotOK
  <2>8. Sync => Sync'
    BY <1>1, <1>2, <2>2, <2>3, <2>4, <2>6, <2>7, SyncPut
  <2> QED
    BY <2>2, <2>3, <2>5, <2>8
<1>4. CASE \E m \in Message : Len(sent) < MaxMessages /\ Write(m)
  <2>1. PICK m \in Message : Len(sent) < MaxMessages /\ Write(m)
    BY <1>4
  <2>2. CASE m.len = 0
    <3>1. Grows /\ PeerInv' /\ Snapshot' = Snapshot /\ wire' = wire
      BY <2>1, <2>2, EmptyWrite
    <3> QED
      BY <1>1, <3>1, SyncStays DEF conn
  <2>3. CASE m.len # 0
    BY <1>2, <1>3, <2>1, <2>3, WritePuts
  <2> QED
    BY <2>2, <2>3
<1>5. CASE \E m \in Message, fmt \in 0..3 : Len(sent) < MaxMessages /\ Begin(m, fmt)
  BY <1>2, <1>3, <1>5, BeginPuts
<1>6. CASE \E ch \in Channels : WriteOn(ch)
  BY <1>2, <1>3, <1>6, WriteOnPuts
<1>7. CASE \E ch \in Channels : Continue(ch)
  BY <1>2, <1>3, <1>7, ContinuePuts
<1> QED
  BY <1>4, <1>5, <1>6, <1>7 DEF Send

LEMMA BreakKeeps ==
  ASSUME wire \in Seq(Tokens), Break
  PROVE  /\ wire' \in Seq(Tokens)
         /\ Sync => Sync'
<1>1. cut' = TRUE /\ UNCHANGED <<peer, conn>>
  BY DEF Break
<1>2. PICK n \in 0..Len(wire) : wire' = SubSeq(wire, 1, n)
  BY DEF Break
<1>3. /\ wire' \in Seq(Tokens)
      /\ Len(wire') = n
      /\ \A i \in 1..n : wire'[i] = wire[i]
  BY <1>2
<1>4. ASSUME Sync
      PROVE  Sync'
  <2>1. PICK lo \in Nat, hi \in Nat :
          \E q \in [lo..(hi - 1) -> ChunkSet], ps \in [lo..hi -> Snapshots],
             off \in [lo..hi -> Nat] :
            /\ lo <= hi
            /\ InStep(ps[lo])
            /\ ~cut => ps[hi] = Snapshot
            /\ Chain(lo, hi, q, ps)
            /\ Laid(lo, hi, q, off)
    BY <1>4 DEF Sync
  <2>2. PICK q \in [lo..(hi - 1) -> ChunkSet], ps \in [lo..hi -> Snapshots],
             off \in [lo..hi -> Nat] :
          /\ lo <= hi
          /\ InStep(ps[lo])
          /\ ~cut => ps[hi] = Snapshot
          /\ Chain(lo, hi, q, ps)
          /\ Laid(lo, hi, q, off)
    BY <2>1
  <2>3. InStep(ps[lo])'
    <3>1. PICK r : r = ps[lo]
      OBVIOUS
    <3>2. InStep(r)'
      BY <1>1, <2>2, <3>1, InStepSame DEF conn
    <3> QED
      BY <3>1, <3>2
  <2>4. Chain(lo, hi, q, ps)'
    BY <1>1, <2>2 DEF Chain, peer, SnapshotOK, ViewOK, Known, Step
  <2>5. Laid(lo, hi, q, off)'
    <3>1. Len(wire') <= off[hi] - off[lo]
      <4>1. Len(wire) <= off[hi] - off[lo]
        BY <2>2 DEF Laid
      <4>2. off[hi] \in Nat /\ off[lo] \in Nat
        BY <2>2
      <4>3. Len(wire) \in Nat /\ n <= Len(wire) /\ n \in Nat
        BY <1>2
      <4> QED
        BY <1>3, <4>1, <4>2, <4>3
    <3>2. ASSUME NEW i \in lo..(hi - 1), NEW j \in 1..Width(q[i]),
                 (off[i] - off[lo]) + j <= Len(wire')
          PROVE  wire'[(off[i] - off[lo]) + j] = Token(q[i], j)
      <4>1. off[i] \in Nat /\ off[lo] \in Nat /\ off[lo] <= off[i]
        <5>1. i = lo \/ lo < i
          BY <2>2
        <5>2. i \in lo..hi /\ lo \in lo..hi
          BY <2>2
        <5> QED
          BY <2>2, <5>1, <5>2 DEF Laid
      <4>2. j \in Nat /\ j >= 1
        <5>1. q[i] \in ChunkSet
          BY <2>2
        <5> QED
          BY <5>1, WidthType
      <4>3. (off[i] - off[lo]) + j \in 1..n
        BY <1>3, <3>2, <4>1, <4>2
      <4>4. (off[i] - off[lo]) + j <= Len(wire)
        BY <1>2, <4>3
      <4> QED
        BY <1>3, <2>2, <4>3, <4>4 DEF Laid
    <3> QED
      BY <1>1, <2>2, <3>1, <3>2 DEF Laid
  <2>6. ~cut' => ps[hi] = Snapshot'
    BY <1>1
  <2> QED
    BY <2>2, <2>3, <2>4, <2>5, <2>6 DEF Sync
<1> QED
  BY <1>3, <1>4

-----------------------------------------------------------------------------
(* The chunk that is next on the wire *)

\* It is d, and takes Read from the peer's state s to its state t.
Reads(s, d, t) ==
  /\ s \in Snapshots /\ d \in ChunkSet /\ t \in Snapshots
  /\ SnapshotOK(s) /\ SnapshotOK(t)
  /\ Step(s, d, t)
  /\ InStep(s)
  /\ \A j \in 1..Width(d) : j <= Len(wire) => wire[j] = Token(d, j)

\* When Read is past d and in step with t, all is as before.
Passes(d, t) ==
  /\ wire' = SubSeq(wire, Width(d) + 1, Len(wire))
  /\ Len(wire) >= Width(d)
  /\ UNCHANGED <<peer, cut>>
  /\ InStep(t)'

LEMMA NextOnWire ==
  ASSUME Sync, wire \in Seq(Tokens), wire # << >>
  PROVE  \E s, d, t : Reads(s, d, t) /\ (Passes(d, t) => Sync')
<1>1. PICK lo \in Nat, hi \in Nat :
        \E q \in [lo..(hi - 1) -> ChunkSet], ps \in [lo..hi -> Snapshots],
           off \in [lo..hi -> Nat] :
          /\ lo <= hi
          /\ InStep(ps[lo])
          /\ ~cut => ps[hi] = Snapshot
          /\ Chain(lo, hi, q, ps)
          /\ Laid(lo, hi, q, off)
  BY DEF Sync
<1>2. PICK q \in [lo..(hi - 1) -> ChunkSet], ps \in [lo..hi -> Snapshots],
           off \in [lo..hi -> Nat] :
        /\ lo <= hi
        /\ InStep(ps[lo])
        /\ ~cut => ps[hi] = Snapshot
        /\ Chain(lo, hi, q, ps)
        /\ Laid(lo, hi, q, off)
  BY <1>1
<1>3. Len(wire) \in Nat /\ Len(wire) >= 1
  OBVIOUS
<1>4. lo < hi
  <2>1. CASE lo = hi
    <3>1. off[lo] \in Nat /\ off[hi] = off[lo]
      BY <1>2, <2>1
    <3>2. Len(wire) <= off[hi] - off[lo]
      BY <1>2 DEF Laid
    <3> QED
      BY <1>3, <3>1, <3>2
  <2> QED
    BY <1>2, <2>1
<1>5. lo \in lo..(hi - 1) /\ lo \in lo..hi /\ lo + 1 \in lo..hi /\ hi \in lo..hi
  BY <1>4
<1> DEFINE d == q[lo]
           s == ps[lo]
           t == ps[lo + 1]
<1>6. d \in ChunkSet /\ s \in Snapshots /\ t \in Snapshots
  BY <1>2, <1>5
<1>7. SnapshotOK(s) /\ SnapshotOK(t) /\ Step(s, d, t)
  BY <1>2, <1>5 DEF Chain
<1>8. ASSUME NEW j \in 1..Width(d), j <= Len(wire)
      PROVE  wire[j] = Token(d, j)
  <2>1. off[lo] \in Nat /\ j \in Nat
    BY <1>2, <1>5, <1>6, WidthType
  <2>2. (off[lo] - off[lo]) + j = j
    BY <2>1
  <2>3. (off[lo] - off[lo]) + j <= Len(wire) =>
          wire[(off[lo] - off[lo]) + j] = Token(q[lo], j)
    BY <1>2, <1>5 DEF Laid
  <2> QED
    BY <1>8, <2>2, <2>3
<1>9. Reads(s, d, t)
  BY <1>2, <1>6, <1>7, <1>8 DEF Reads
<1>10. ASSUME Passes(d, t)
       PROVE  Sync'
  <2> DEFINE Q == [i \in (lo + 1)..(hi - 1) |-> q[i]]
             P == [i \in (lo + 1)..hi |-> ps[i]]
             O == [i \in (lo + 1)..hi |-> off[i]]
             n == Width(d)
  <2>1. lo + 1 \in Nat /\ lo + 1 <= hi /\ lo + 1 \in (lo + 1)..hi /\ hi \in (lo + 1)..hi
    BY <1>4
  <2>2. /\ \A i \in (lo + 1)..hi : i \in lo..hi
        /\ \A i \in (lo + 1)..(hi - 1) : i \in lo..(hi - 1) /\ i + 1 \in (lo + 1)..hi
                                           /\ i \in (lo + 1)..hi
    BY <1>4
  <2>3. /\ Q \in [(lo + 1)..(hi - 1) -> ChunkSet]
        /\ P \in [(lo + 1)..hi -> Snapshots]
        /\ O \in [(lo + 1)..hi -> Nat]
    BY <1>2, <2>2
  <2>4. /\ \A i \in (lo + 1)..(hi - 1) : Q[i] = q[i]
        /\ \A i \in (lo + 1)..hi : P[i] = ps[i] /\ O[i] = off[i]
    OBVIOUS
  <2> HIDE DEF Q, P, O
  <2>5. InStep(P[lo + 1])'
    <3>1. P[lo + 1] = t
      BY <2>1, <2>4
    <3> QED
      BY <1>10, <3>1 DEF Passes
  <2>6. ~cut' => P[hi] = Snapshot'
    <3>1. P[hi] = ps[hi]
      BY <2>1, <2>4
    <3>2. Snapshot' = Snapshot /\ cut' = cut
      BY <1>10 DEF Passes, peer, Snapshot, View
    <3> QED
      BY <1>2, <3>1, <3>2
  <2>7. Chain(lo + 1, hi, Q, P)'
    <3>1. ASSUME NEW i \in (lo + 1)..hi
          PROVE  SnapshotOK(P[i])'
      <4>1. SnapshotOK(ps[i])
        BY <1>2, <2>2 DEF Chain
      <4> QED
        BY <1>10, <2>4, <4>1, Zenon DEF Passes, peer, SnapshotOK, ViewOK, Known
    <3>2. ASSUME NEW i \in (lo + 1)..(hi - 1)
          PROVE  Step(P[i], Q[i], P[i + 1])'
      <4>1. Step(ps[i], q[i], ps[i + 1])
        BY <1>2, <2>2 DEF Chain
      <4>2. P[i] = ps[i] /\ Q[i] = q[i] /\ P[i + 1] = ps[i + 1]
        BY <2>2, <2>4
      <4>3. UNCHANGED <<sent, complete>>
        BY <1>10 DEF Passes, peer
      <4> QED
        BY <4>1, <4>2, <4>3 DEF Step, Known
    <3> QED
      BY <3>1, <3>2 DEF Chain
  <2>8. Laid(lo + 1, hi, Q, O)'
    <3>1. /\ Len(wire) >= n /\ cut' = cut
          /\ wire' = SubSeq(wire, n + 1, Len(wire))
      BY <1>10 DEF Passes
    <3>2. n \in Nat
      BY <1>6, WidthType
    <3>3. /\ Len(wire') = Len(wire) - n
          /\ \A k \in 1..Len(wire') : wire'[k] = wire[k + n]
      <4>1. /\ Len(wire') = Len(wire) - n
            /\ \A k \in 1..(Len(wire) - n) : wire'[k] = wire[(n + 1) + k - 1]
        BY <1>3, <3>1, <3>2
      <4>2. \A k \in 1..(Len(wire) - n) : (n + 1) + k - 1 = k + n
        BY <1>3, <3>2
      <4> QED
        BY <4>1, <4>2
    <3>4. /\ off[lo + 1] = off[lo] + n
          /\ off[lo] \in Nat /\ off[hi] \in Nat /\ off[lo + 1] \in Nat
      BY <1>2, <1>5 DEF Laid
    <3>5. O[lo + 1] = off[lo + 1] /\ O[hi] = off[hi]
      BY <2>1, <2>4
    <3>6. /\ Len(wire) <= off[hi] - off[lo]
          /\ ~cut => Len(wire) = off[hi] - off[lo]
      BY <1>2 DEF Laid
    <3>7. Len(wire') <= O[hi] - O[lo + 1]
      BY <1>3, <3>2, <3>3, <3>4, <3>5, <3>6
    <3>8. ASSUME ~cut'
          PROVE  Len(wire') = O[hi] - O[lo + 1]
      <4>1. Len(wire) = off[hi] - off[lo]
        BY <3>1, <3>6, <3>8
      <4> QED
        BY <1>3, <3>2, <3>3, <3>4, <3>5, <4>1
    <3>9. ASSUME NEW i \in (lo + 1)..(hi - 1)
          PROVE  O[i + 1] = O[i] + Width(Q[i])
      <4>1. off[i + 1] = off[i] + Width(q[i])
        BY <1>2, <2>2 DEF Laid
      <4> QED
        BY <2>2, <2>4, <4>1
    <3>10. ASSUME NEW i \in (lo + 1)..hi, NEW j \in (lo + 1)..hi, i < j
           PROVE  O[i] < O[j]
      <4>1. off[i] < off[j]
        BY <1>2, <2>2, <3>10 DEF Laid
      <4> QED
        BY <2>4, <4>1
    <3>11. ASSUME NEW i \in (lo + 1)..(hi - 1), NEW j \in 1..Width(Q[i]),
                  (O[i] - O[lo + 1]) + j <= Len(wire')
           PROVE  wire'[(O[i] - O[lo + 1]) + j] = Token(Q[i], j)
      <4>1. O[i] = off[i] /\ Q[i] = q[i] /\ off[i] \in Nat
        BY <1>2, <2>2, <2>4
      <4>2. q[i] \in ChunkSet
        BY <1>2, <2>2
      <4>3. j \in Nat /\ j >= 1 /\ j \in 1..Width(q[i])
        BY <4>1, <4>2, WidthType
      <4>4. off[lo + 1] <= off[i]
        <5>1. i = lo + 1 \/ lo + 1 < i
          OBVIOUS
        <5>2. i \in lo..hi /\ lo + 1 \in lo..hi
          BY <1>5, <2>2
        <5> QED
          BY <1>2, <3>4, <5>1, <5>2 DEF Laid
      <4> DEFINE k == (off[i] - off[lo + 1]) + j
      <4>5. k \in 1..Len(wire')
        <5>1. k >= 1 /\ k \in Nat
          BY <3>4, <4>1, <4>3, <4>4
        <5>2. k <= Len(wire') /\ Len(wire') \in Int
          BY <1>3, <3>2, <3>3, <3>5, <3>11, <4>1
        <5> HIDE DEF k
        <5> QED
          BY <5>1, <5>2
      <4>6. k + n = (off[i] - off[lo]) + j
        <5>1. /\ off[lo] \in Nat /\ off[i] \in Nat /\ off[lo + 1] \in Nat
              /\ n \in Nat /\ j \in Nat /\ off[lo + 1] = off[lo] + n
          BY <3>2, <3>4, <4>1, <4>3
        <5> HIDE DEF n
        <5>2. \A a, b, c \in Nat : c = a + n => ((b - c) + j) + n = (b - a) + j
          BY <5>1
        <5> QED
          BY <5>1, <5>2
      <4>7. (off[i] - off[lo]) + j <= Len(wire)
        <5>1. k + n <= Len(wire)
          BY <1>3, <3>2, <3>3, <4>5
        <5> QED
          BY <4>6, <5>1
      <4>8. wire[(off[i] - off[lo]) + j] = Token(q[i], j)
        BY <1>2, <2>2, <4>3, <4>7 DEF Laid
      <4>9. wire'[k] = Token(q[i], j)
        BY <3>3, <4>5, <4>6, <4>8
      <4> QED
        BY <3>5, <4>1, <4>9
    <3> QED
      BY <3>7, <3>8, <3>9, <3>10, <3>11 DEF Laid
  <2> QED
    BY <1>1, <2>1, <2>3, <2>5, <2>6, <2>7, <2>8 DEF Sync
<1> QED
  BY <1>9, <1>10

\* The header of d, and what Read knows of its chunk stream.
LEMMA Place ==
  ASSUME ConnInv, wire # << >>, NEW s, NEW d, NEW t, Reads(s, d, t)
  PROVE  /\ d.m.ch \in Channels
         /\ Head(wire) = HeaderOf(d.fmt, d.m, d.field)
         /\ Head(wire).kind = "head" /\ Head(wire).fmt = d.fmt /\ Head(wire).ch = d.m.ch
         /\ chunks[d.m.ch] \in ChunkStreams
         /\ chunks[d.m.ch].index + chunks[d.m.ch].remain = chunks[d.m.ch].Length
         /\ Follows(chunks[d.m.ch], s.cur[d.m.ch])
         /\ ViewOK(d.m.ch, s.cur[d.m.ch])
         /\ s.cur[d.m.ch] \in Views
         /\ t.cur[d.m.ch] \in Views
         /\ Len(wire) > 1 => Head(Tail(wire)) = wire[2]
         /\ Tail(wire) # << >> <=> Len(wire) > 1
<1>1. d \in ChunkSet /\ s \in Snapshots /\ t \in Snapshots
  BY DEF Reads
<1>2. d.m \in Message /\ d.m.ch \in Channels
  BY <1>1, Messages DEF ChunkSet
<1>3. Len(wire) \in Nat /\ Len(wire) >= 1 /\ Head(wire) = wire[1]
  BY DEF ConnInv
<1>4. Head(wire) = HeaderOf(d.fmt, d.m, d.field)
  <2>1. 1 \in 1..Width(d)
    BY <1>1, WidthType
  <2>2. wire[1] = Token(d, 1)
    BY <1>3, <2>1 DEF Reads
  <2> QED
    BY <1>3, <2>2 DEF Token
<1>5. Head(wire).kind = "head" /\ Head(wire).fmt = d.fmt /\ Head(wire).ch = d.m.ch
  BY <1>4 DEF HeaderOf
<1>6. chunks[d.m.ch] \in ChunkStreams
        /\ chunks[d.m.ch].index + chunks[d.m.ch].remain = chunks[d.m.ch].Length
  BY <1>2 DEF ConnInv
<1>7. Follows(chunks[d.m.ch], s.cur[d.m.ch])
  BY <1>2 DEF Reads, InStep
<1>8. ViewOK(d.m.ch, s.cur[d.m.ch])
  BY <1>2 DEF Reads, SnapshotOK
<1>9. s.cur[d.m.ch] \in Views /\ t.cur[d.m.ch] \in Views
  BY <1>1, <1>2 DEF Snapshots
<1>10. /\ Len(wire) > 1 => Head(Tail(wire)) = wire[2]
       /\ Tail(wire) # << >> <=> Len(wire) > 1
  <2>1. wire \in Seq(Tokens)
    BY DEF ConnInv
  <2>2. /\ Tail(wire) \in Seq(Tokens) /\ Len(Tail(wire)) = Len(wire) - 1
        /\ \A i \in 1..(Len(wire) - 1) : Tail(wire)[i] = wire[i + 1]
    BY <2>1
  <2>3. ASSUME Len(wire) > 1
        PROVE  Head(Tail(wire)) = wire[2]
    <3>1. Tail(wire) # << >> /\ 1 \in 1..(Len(wire) - 1)
      BY <1>3, <2>2, <2>3
    <3>2. Head(Tail(wire)) = Tail(wire)[1]
      BY <2>2, <3>1
    <3> QED
      BY <2>2, <3>1, <3>2
  <2>4. Tail(wire) # << >> <=> Len(wire) > 1
    BY <1>3, <2>2
  <2> QED
    BY <2>3, <2>4
<1> QED
  BY <1>2, <1>4, <1>5, <1>6, <1>7, <1>8, <1>9, <1>10

\* The beginning of a message is taken for one.
LEMMA Opening ==
  ASSUME NEW c \in ChunkStreams, c.index + c.remain = c.Length,
         NEW ch, NEW v \in Views, ViewOK(ch, v), Follows(c, v),
         NEW d \in ChunkSet, NEW w, Opens(v, d, w),
         NEW h, h = HeaderOf(d.fmt, d.m, d.field)
  PROVE  c.remain = 0 /\ IsNew(c, h) /\ Extended(c, h) = d.ext
<1>1. c.remain = 0
  <2>1. CASE v.msg = 0
    BY <2>1 DEF Follows
  <2>2. CASE v.msg # 0
    <3>1. c.Length = v.m.len /\ c.index = v.done /\ v.done = v.m.len
      BY <2>2 DEF Follows, Opens
    <3>2. c.index \in Nat /\ c.remain \in Nat
      BY DEF ChunkStreams
    <3> QED
      BY <3>1, <3>2
  <2> QED
    BY <2>1, <2>2
<1>2. IsNew(c, h)
  BY <1>1 DEF IsNew
<1>3. Extended(c, h) = d.ext
  <2>1. h.fmt = d.fmt /\ d.ext \in BOOLEAN
    BY DEF HeaderOf, ChunkSet
  <2>2. CASE d.fmt = 3
    <3>1. v.msg # 0 /\ d.ext = v.ext
      BY <2>2 DEF Opens
    <3>2. c.exted = v.ext
      BY <3>1 DEF Follows
    <3> QED
      BY <2>1, <2>2, <3>1, <3>2 DEF Extended
  <2>3. CASE d.fmt # 3
    <3>1. h.ts = IF d.field > Mark THEN Mark ELSE d.field
      BY <2>3 DEF HeaderOf
    <3>2. d.field \in Nat /\ Mark \in Nat
      BY Constants DEF ChunkSet, Times
    <3>3. d.ext = (d.field >= Mark)
      BY <2>3 DEF Opens
    <3>4. (h.ts = Mark) <=> (d.field >= Mark)
      BY <3>1, <3>2
    <3>5. Extended(c, h) = (h.ts = Mark)
      BY <2>1, <2>3 DEF Extended
    <3> QED
      BY <3>3, <3>4, <3>5
  <2> QED
    BY <2>2, <2>3
<1> QED
  BY <1>1, <1>2, <1>3

\* The rest of a message is not.
LEMMA GoingOn ==
  ASSUME NEW c \in ChunkStreams, c.index + c.remain = c.Length,
         NEW ch, NEW v \in Views, ViewOK(ch, v), Follows(c, v),
         NEW d \in ChunkSet, NEW w, GoesOn(v, d, w),
         NEW h, h = HeaderOf(d.fmt, d.m, d.field)
  PROVE  /\ ~IsNew(c, h)
         /\ d.from < d.m.len
         /\ c.index = d.from /\ c.remain = d.m.len - d.from
         /\ c.Length = d.m.len /\ c.Timestamp = d.m.ts /\ c.TypeID = d.m.type
         /\ Extended(c, h) = v.ext
<1>1. v.msg # 0 /\ d.m = v.m /\ d.from = v.done /\ v.done < v.m.len /\ d.fmt = 3
  BY DEF GoesOn
<1>2. /\ c.Length = v.m.len /\ c.index = v.done /\ c.exted = v.ext
      /\ c.Timestamp = v.m.ts /\ c.TypeID = v.m.type
  BY <1>1 DEF Follows
<1>3. c.index \in Nat /\ c.remain \in Nat /\ d.m.len \in Nat
  BY Messages DEF ChunkStreams, ChunkSet
<1>4. c.remain = d.m.len - d.from /\ c.remain # 0
  BY <1>1, <1>2, <1>3
<1>5. h.fmt = 3
  BY <1>1 DEF HeaderOf
<1> QED
  BY <1>1, <1>2, <1>4, <1>5 DEF IsNew, Extended

\* Read never loses its place.
LEMMA NotRefused ==
  ASSUME ConnInv, Sync
  PROVE  ~Refused
<1> SUFFICES ASSUME Refused
             PROVE  FALSE
  OBVIOUS
<1>1. wire # << >> /\ wire \in Seq(Tokens)
  BY DEF Refused, ConnInv
<1>2. PICK s, d, t : Reads(s, d, t)
  BY <1>1, NextOnWire
<1> DEFINE h == Head(wire)
           c == chunks[d.m.ch]
<1>3. h = HeaderOf(d.fmt, d.m, d.field) /\ h.kind = "head" /\ h.fmt = d.fmt /\ h.ch = d.m.ch
  BY <1>1, <1>2, Place
<1>4. d.fmt # 3
  BY <1>3 DEF Refused
<1>5. Opens(s.cur[d.m.ch], d, t.cur[d.m.ch])
  BY <1>2, <1>4 DEF Reads, Step, GoesOn
<1>6. c.remain = 0 /\ Extended(c, h) = d.ext
  <2>1. /\ c \in ChunkStreams /\ c.index + c.remain = c.Length
        /\ Follows(c, s.cur[d.m.ch])
        /\ ViewOK(d.m.ch, s.cur[d.m.ch])
        /\ s.cur[d.m.ch] \in Views
    BY <1>1, <1>2, Place
  <2>2. d \in ChunkSet
    BY <1>2 DEF Reads
  <2> HIDE DEF c, h
  <2> QED
    BY <1>3, <1>5, <2>1, <2>2, Opening
<1>7. d.ext /\ Len(wire) > 1 /\ wire[2].kind # "ext"
  BY <1>3, <1>6 DEF Refused
<1>8. wire[2] = [kind |-> "ext", ts |-> d.stamp]
  <2>1. 2 \in 1..Width(d) /\ 2 <= Len(wire)
    BY <1>1, <1>2, <1>7 DEF Width, Extra, Reads, ChunkSet
  <2>2. wire[2] = Token(d, 2)
    BY <1>2, <2>1 DEF Reads
  <2> QED
    BY <1>7, <2>2 DEF Token
<1> QED
  BY <1>7, <1>8

\* d begins a message where c is in step with v; ext is the extended timestamp.
Begins(c, v, d, w, h, ext) ==
  /\ c \in ChunkStreams /\ v \in Views /\ d \in ChunkSet /\ w \in Views
  /\ ViewOK(d.m.ch, v) /\ Follows(c, v)
  /\ Opens(v, d, w)
  /\ h = HeaderOf(d.fmt, d.m, d.field)
  /\ Extended(c, h) = d.ext
  /\ d.ext => ext = d.stamp

\* What the header leaves is right, however little of it was sent.
Understands(b, d, w) ==
  /\ b.Format = w.fmt
  /\ b.Timestamp = d.m.ts
  /\ b.Length = d.m.len
  /\ b.TypeID = d.m.type
  /\ w.fmt # 0 => b.timeDelta = w.delta
  /\ b.timeDelta \in Nat
  /\ b.exted = w.ext

LEMMA Understood ==
  ASSUME NEW c, NEW v, NEW d, NEW w, NEW h, NEW ext, Begins(c, v, d, w, h, ext)
  PROVE  Understands(Started(c, h, ext), d, w)
<1> DEFINE t == HeaderTime(c, h, ext)
           delta == (d.m.ts - v.m.ts) % TsMod
           time == IF d.fmt = 0 THEN d.m.ts ELSE delta
           b == Started(c, h, ext)
<1>0. /\ c \in ChunkStreams /\ v \in Views /\ d \in ChunkSet /\ w \in Views
      /\ ViewOK(d.m.ch, v) /\ Follows(c, v)
      /\ Opens(v, d, w)
      /\ h = HeaderOf(d.fmt, d.m, d.field)
      /\ Extended(c, h) = d.ext
      /\ d.ext => ext = d.stamp
  BY DEF Begins
<1>1. /\ d.m \in Message /\ d.m.ts \in Times /\ d.field \in Times /\ d.stamp \in Times
      /\ d.ext \in BOOLEAN /\ d.fmt \in 0..3
      /\ v.fmt \in 0..2 /\ v.delta \in Times /\ v.ext \in BOOLEAN
      /\ c.timeDelta \in Nat /\ c.Timestamp \in Times
  BY <1>0, Messages DEF ChunkSet, Views, ChunkStreams
<1>2. v.msg # 0 => /\ v.m \in Message
                   /\ v.m.ts \in Times /\ delta \in Times
                   /\ (v.m.ts + delta) % TsMod = d.m.ts
                   /\ delta = 0 => d.m.ts = v.m.ts
                   /\ c.Format = v.fmt /\ c.exted = v.ext
                   /\ v.fmt # 0 => c.timeDelta = v.delta
                   /\ c.Timestamp = v.m.ts /\ c.Length = v.m.len /\ c.TypeID = v.m.type
  <2>1. ASSUME v.msg # 0
        PROVE  v.m \in Message /\ v.m.ts \in Times
    BY <1>0, <2>1, Messages DEF ViewOK
  <2> QED
    BY <1>0, <1>1, <2>1, DeltaAdds DEF Follows
<1>3. /\ d.fmt # 0 => v.msg # 0
      /\ d.field = time
      /\ d.fmt >= 2 => d.m.len = v.m.len /\ d.m.type = v.m.type
      /\ d.fmt = 3 => delta = IF v.fmt = 0 THEN 0 ELSE v.delta
      /\ d.ext = IF d.fmt = 3 THEN v.ext ELSE time >= Mark
      /\ d.stamp = IF d.fmt = 3 /\ v.fmt = 0 THEN d.m.ts ELSE time
      /\ w.fmt = IF d.fmt = 3 THEN v.fmt ELSE d.fmt
      /\ w.delta = IF d.fmt = 3 THEN v.delta ELSE time
      /\ w.ext = d.ext
  BY <1>0 DEF Opens
<1>4. /\ h.fmt = d.fmt
      /\ h.len = IF d.fmt <= 1 THEN d.m.len ELSE 0
      /\ h.type = IF d.fmt <= 1 THEN d.m.type ELSE "none"
      /\ h.ts = IF d.fmt = 3 THEN 0 ELSE IF d.field > Mark THEN Mark ELSE d.field
  BY <1>0 DEF HeaderOf
<1>5. /\ b.Format = IF d.fmt = 3 THEN c.Format ELSE d.fmt
      /\ b.Timestamp = IF b.Format # 0 THEN (c.Timestamp + t) % TsMod
                       ELSE IF d.fmt = 3 /\ ~c.exted THEN c.Timestamp ELSE t
      /\ b.Length = IF d.fmt <= 1 THEN h.len ELSE c.Length
      /\ b.TypeID = IF d.fmt <= 1 THEN h.type ELSE c.TypeID
      /\ b.timeDelta = IF d.fmt \in {1, 2} THEN t ELSE c.timeDelta
      /\ b.exted = d.ext
  BY <1>0, <1>4 DEF Started, ChunkStreams, TimeDelta
<1>6. t = IF d.ext THEN ext ELSE IF d.fmt = 3 THEN c.timeDelta ELSE h.ts
  BY <1>0, <1>4 DEF HeaderTime
<1> HIDE DEF t, b
<1>7. CASE d.fmt # 3
  <2>1. t = time
    <3>1. CASE d.ext
      BY <1>0, <1>3, <1>6, <1>7, <3>1
    <3>2. CASE ~d.ext
      <4>1. d.field \in Nat /\ Mark \in Nat /\ ~(d.field >= Mark)
        <5>1. d.field \in Nat /\ Mark \in Nat
          BY <1>1, Constants DEF Times
        <5>2. d.ext = (d.field >= Mark)
          BY <1>3, <1>7
        <5>3. ~(d.field >= Mark)
          BY <3>2, <5>2
        <5> QED
          BY <5>1, <5>3
      <4>2. h.ts = d.field
        BY <1>4, <1>7, <4>1
      <4> QED
        BY <1>3, <1>6, <1>7, <3>2, <4>2
    <3> QED
      BY <3>1, <3>2
  <2>2. b.Format = d.fmt /\ w.fmt = d.fmt
    BY <1>3, <1>5, <1>7
  <2>3. time \in Times
    BY <1>1, <1>2, <1>3
  <2>4. b.Timestamp = d.m.ts
    BY <1>2, <1>3, <1>5, <1>7, <2>1, <2>2
  <2>5. b.Length = d.m.len /\ b.TypeID = d.m.type
    <3>1. CASE d.fmt <= 1
      BY <1>4, <1>5, <3>1
    <3>2. CASE d.fmt = 2
      BY <1>2, <1>3, <1>5, <3>2
    <3> QED
      BY <1>1, <1>7, <3>1, <3>2
  <2>6. w.fmt # 0 => b.timeDelta = w.delta
    BY <1>1, <1>3, <1>5, <1>7, <2>1, <2>2
  <2>7. b.timeDelta \in Nat
    BY <1>1, <1>5, <2>1, <2>3, Constants DEF Times
  <2> QED
    BY <1>3, <1>5, <2>2, <2>4, <2>5, <2>6, <2>7 DEF b, Understands
<1>8. CASE d.fmt = 3
  <2>1. v.msg # 0 /\ d.ext = v.ext /\ c.exted = v.ext /\ c.Format = v.fmt
    BY <1>2, <1>3, <1>8
  <2>2. b.Format = v.fmt /\ w.fmt = v.fmt /\ w.delta = v.delta
    BY <1>3, <1>5, <1>8, <2>1
  <2>3. b.Timestamp = d.m.ts
    <3>1. CASE v.fmt = 0
      <4>1. delta = 0 /\ d.m.ts = v.m.ts /\ c.Timestamp = v.m.ts
        BY <1>2, <1>3, <1>8, <2>1, <3>1
      <4>2. CASE d.ext
        <5>1. t = d.m.ts
          BY <1>0, <1>3, <1>6, <1>8, <3>1, <4>2
        <5> QED
          BY <1>5, <2>1, <2>2, <3>1, <4>2, <5>1
      <4>3. CASE ~d.ext
        BY <1>5, <1>8, <2>1, <2>2, <3>1, <4>1, <4>3
      <4> QED
        BY <4>2, <4>3
    <3>2. CASE v.fmt # 0
      <4>1. delta = v.delta
        BY <1>3, <1>8, <3>2
      <4>2. t = delta
        <5>1. CASE d.ext
          BY <1>0, <1>3, <1>6, <1>8, <3>2, <5>1
        <5>2. CASE ~d.ext
          BY <1>2, <1>6, <1>8, <2>1, <3>2, <4>1, <5>2
        <5> QED
          BY <5>1, <5>2
      <4> QED
        BY <1>2, <1>5, <2>1, <2>2, <3>2, <4>2
    <3> QED
      BY <3>1, <3>2
  <2>4. b.Length = d.m.len /\ b.TypeID = d.m.type
    BY <1>2, <1>3, <1>5, <1>8, <2>1
  <2>5. b.timeDelta = c.timeDelta
    BY <1>5, <1>8
  <2>6. w.fmt # 0 => b.timeDelta = w.delta
    BY <1>2, <2>1, <2>2, <2>5
  <2> QED
    BY <1>1, <1>3, <1>5, <2>2, <2>3, <2>4, <2>5, <2>6 DEF b, Understands
<1> QED
  BY <1>7, <1>8

-----------------------------------------------------------------------------
(* Read's step *)

\* The chunk stream b, after the header of d.
Ready(b, d, w) ==
  /\ b \in ChunkStreams
  /\ b.Format = w.fmt /\ b.exted = w.ext
  /\ w.fmt # 0 => b.timeDelta = w.delta
  /\ b.Timestamp = d.m.ts /\ b.Length = d.m.len /\ b.TypeID = d.m.type
  /\ b.index = d.from /\ b.remain = d.m.len - d.from

LEMMA NewType ==
  ASSUME NEW b \in ChunkStreams, MemInv
  PROVE  /\ new(b) \in ChunkStreams
         /\ new(b).Format = b.Format /\ new(b).exted = b.exted
         /\ new(b).timeDelta = b.timeDelta /\ new(b).Timestamp = b.Timestamp
         /\ new(b).Length = b.Length /\ new(b).TypeID = b.TypeID
         /\ new(b).index = 0 /\ new(b).remain = b.Length
         /\ new(b).Data = Get(b.Length)
         /\ new(b).got = FALSE
<1>1. Get(b.Length) \in Regions
  <2>1. Len(mem) \in Nat /\ Len(mem) # 0 /\ pos \in Nat
    BY Constants DEF MemInv
  <2> QED
    BY <2>1 DEF Get, Regions
<1>2. b.Length \in Nat
  BY Constants DEF ChunkStreams
<1> DEFINE g == Get(b.Length)
<1>3. new(b) = [b EXCEPT !.got = FALSE, !.index = 0, !.remain = b.Length, !.Data = g]
  BY DEF new
<1> HIDE DEF g
<1>4. g \in Regions
  BY <1>1 DEF g
<1>5. new(b) \in ChunkStreams
  <2>1. PICK len : len = b.Length
    OBVIOUS
  <2>2. len \in Nat
    BY <1>2, <2>1
  <2>3. [b EXCEPT !.got = FALSE, !.index = 0, !.remain = len, !.Data = g] \in ChunkStreams
    BY <1>4, <2>2 DEF ChunkStreams
  <2> QED
    BY <1>3, <2>1, <2>3
<1>6. /\ new(b).Format = b.Format /\ new(b).exted = b.exted
      /\ new(b).timeDelta = b.timeDelta /\ new(b).Timestamp = b.Timestamp
      /\ new(b).Length = b.Length /\ new(b).TypeID = b.TypeID
      /\ new(b).index = 0 /\ new(b).remain = b.Length
      /\ new(b).Data = g
      /\ new(b).got = FALSE
  BY <1>3 DEF ChunkStreams
<1> QED
  BY <1>5, <1>6 DEF g

LEMMA TakenOpens ==
  ASSUME ConnInv, MemInv, wire # << >>, Arrived,
         NEW s, NEW d, NEW t, Reads(s, d, t), Opens(s.cur[d.m.ch], d, t.cur[d.m.ch]),
         NEW hdr, hdr = Header(Head(wire))
  PROVE  /\ hdr.isNew
         /\ hdr.length = 1 + Extra(d) /\ hdr.count = d.count
         /\ Ready(hdr.cs, d, t.cur[d.m.ch])
         /\ hdr.cs.Data = Get(d.m.len)
         /\ Len(wire) >= Width(d)
<1> DEFINE h == Head(wire)
           c == chunks[d.m.ch]
           v == s.cur[d.m.ch]
           w == t.cur[d.m.ch]
           takes == TakesExt(c, h, Tail(wire))
           ext == IF takes /\ Len(wire) > 1 THEN wire[2].ts ELSE 0
           b == Started(c, h, ext)
<1>1. d \in ChunkSet /\ InStep(s) /\ Step(s, d, t)
  BY DEF Reads
<1>2. /\ d.m.ch \in Channels
      /\ h = HeaderOf(d.fmt, d.m, d.field)
      /\ h.kind = "head" /\ h.fmt = d.fmt /\ h.ch = d.m.ch
      /\ c \in ChunkStreams
      /\ c.index + c.remain = c.Length
      /\ Follows(c, v)
      /\ ViewOK(d.m.ch, v)
      /\ v \in Views
      /\ w \in Views
  BY Place
<1>3. c.remain = 0 /\ IsNew(c, h) /\ Extended(c, h) = d.ext
  <2> HIDE DEF c, h, v, w
  <2> QED
    BY <1>1, <1>2, Opening DEF v, w
<1>4. takes <=> d.ext
  BY <1>3 DEF TakesExt
<1>5. /\ d.m \in Message /\ d.m.len \in Nat /\ d.m.len \in 0..PoolSize /\ d.from = 0
      /\ d.ext \in BOOLEAN /\ d.count \in Nat /\ d.m.ts \in Times /\ d.m.type \in Kinds
  BY <1>1, Messages DEF Opens, ChunkSet
<1>6. remoteChunkSize \in Nat \ {0} /\ Len(wire) \in Nat /\ Len(wire) >= 1
  BY DEF ConnInv
<1>7. hdr = [cs |-> new(b), isNew |-> TRUE, length |-> IF d.ext THEN 2 ELSE 1,
             count |-> Min({new(b).remain, remoteChunkSize})]
  <2>1. hdr = [cs |-> new(b), isNew |-> IsNew(c, h), length |-> IF takes THEN 2 ELSE 1,
               count |-> Min({new(b).remain, remoteChunkSize})]
    BY <1>2, <1>3 DEF Header
  <2>2. IsNew(c, h) = TRUE
    BY <1>3 DEF IsNew
  <2> QED
    BY <1>4, <2>1, <2>2
<1>8. d.ext => ext = d.stamp
  <2>1. ASSUME d.ext
        PROVE  ext = d.stamp
    <3>1. b.Length \in Nat
      <4>1. b.Length = IF h.fmt <= 1 THEN h.len ELSE c.Length
        BY <1>2 DEF Started, ChunkStreams
      <4>2. h.len \in Nat /\ c.Length \in Nat
        BY <1>2, <1>5, Constants DEF HeaderOf, ChunkStreams
      <4> QED
        BY <4>1, <4>2
    <3>2. new(b).remain = b.Length
      <4>1. b = [c EXCEPT !.Format = b.Format, !.Timestamp = b.Timestamp, !.Length = b.Length,
                  !.TypeID = b.TypeID, !.timeDelta = b.timeDelta, !.exted = b.exted]
        BY <1>2 DEF Started, ChunkStreams
      <4> HIDE DEF b
      <4> QED
        BY <1>2, <4>1 DEF new, ChunkStreams
    <3>3. hdr.count \in Nat /\ hdr.length = 2
      <4>1. hdr.length = 2 /\ hdr.count = Min({new(b).remain, remoteChunkSize})
        BY <1>7, <2>1
      <4>2. new(b).remain \in Nat
        BY <3>1, <3>2
      <4> HIDE DEF b
      <4>3. Min({new(b).remain, remoteChunkSize}) \in Nat
        BY <1>6, <4>2, MinOfTwo
      <4> QED
        BY <4>1, <4>3
    <3>4. Len(wire) >= hdr.length + hdr.count
      BY DEF Arrived
    <3>5. Len(wire) > 1
      BY <1>6, <3>3, <3>4
    <3>6. 2 \in 1..Width(d) /\ 2 <= Len(wire)
      BY <1>5, <1>6, <2>1, <3>5 DEF Width, Extra
    <3>7. wire[2] = [kind |-> "ext", ts |-> d.stamp]
      <4>1. wire[2] = Token(d, 2)
        BY <3>6 DEF Reads
      <4> QED
        BY <2>1, <4>1 DEF Token
    <3> QED
      BY <1>4, <2>1, <3>5, <3>7
  <2> QED
    BY <2>1
<1> HIDE DEF ext
<1>9. /\ b.Format = w.fmt /\ b.Timestamp = d.m.ts /\ b.Length = d.m.len /\ b.TypeID = d.m.type
      /\ w.fmt # 0 => b.timeDelta = w.delta
      /\ b.timeDelta \in Nat /\ b.exted = w.ext
  <2> HIDE DEF c, h, v, w
  <2>1. Begins(c, v, d, w, h, ext)
    BY <1>1, <1>2, <1>3, <1>8 DEF v, w, Begins
  <2>2. Understands(b, d, w)
    BY <2>1, Understood
  <2> QED
    BY <2>2 DEF Understands
<1>10. b \in ChunkStreams
  <2>1. b = [c EXCEPT !.Format = b.Format, !.Timestamp = b.Timestamp, !.Length = b.Length,
                  !.TypeID = b.TypeID, !.timeDelta = b.timeDelta, !.exted = b.exted]
    BY <1>2 DEF Started, ChunkStreams
  <2>2. w.fmt \in 0..2 /\ w.ext \in BOOLEAN
    BY <1>2 DEF Views
  <2> HIDE DEF b, c
  <2>3. /\ b.Format \in 0..2 /\ b.Timestamp \in Times /\ b.Length \in 0..PoolSize
        /\ b.TypeID \in Kinds \union {"none"} /\ b.timeDelta \in Nat /\ b.exted \in BOOLEAN
    BY <1>5, <1>9, <2>2
  <2> QED
    <3>1. PICK f, ts, len, type, delta, e :
            /\ f = b.Format /\ ts = b.Timestamp /\ len = b.Length
            /\ type = b.TypeID /\ delta = b.timeDelta /\ e = b.exted
      OBVIOUS
    <3>2. /\ f \in 0..2 /\ ts \in Times /\ len \in 0..PoolSize
          /\ type \in Kinds \union {"none"} /\ delta \in Nat /\ e \in BOOLEAN
      BY <2>3, <3>1
    <3>3. [c EXCEPT !.Format = f, !.Timestamp = ts, !.Length = len, !.TypeID = type,
                    !.timeDelta = delta, !.exted = e] \in ChunkStreams
      BY <1>2, <3>2 DEF ChunkStreams
    <3> QED
      BY <2>1, <3>1, <3>3
<1> HIDE DEF b
<1>11. /\ new(b) \in ChunkStreams
       /\ new(b).Format = b.Format /\ new(b).exted = b.exted
       /\ new(b).timeDelta = b.timeDelta /\ new(b).Timestamp = b.Timestamp
       /\ new(b).Length = b.Length /\ new(b).TypeID = b.TypeID
       /\ new(b).index = 0 /\ new(b).remain = b.Length
       /\ new(b).Data = Get(b.Length)
  BY <1>10, NewType
<1>12. Ready(hdr.cs, d, w) /\ hdr.cs.Data = Get(d.m.len)
  BY <1>5, <1>7, <1>9, <1>11 DEF Ready
<1>13. hdr.count = d.count
  <2>1. d.count = IF s.size <= d.m.len - d.from THEN s.size ELSE d.m.len - d.from
    BY <1>1 DEF Step
  <2>2. s.size = remoteChunkSize
    BY <1>1 DEF InStep
  <2>3. hdr.count = Min({d.m.len, remoteChunkSize})
    BY <1>7, <1>9, <1>11
  <2>4. hdr.count = IF d.m.len <= remoteChunkSize THEN d.m.len ELSE remoteChunkSize
    BY <1>5, <1>6, <2>3, MinOfTwo
  <2>5. d.m.len - d.from = d.m.len
    BY <1>5
  <2> QED
    BY <1>5, <1>6, <2>1, <2>2, <2>4, <2>5
<1>14. hdr.length = 1 + Extra(d)
  BY <1>5, <1>7 DEF Extra
<1>15. Len(wire) >= Width(d)
  <2>1. Len(wire) >= hdr.length + hdr.count
    BY DEF Arrived
  <2> QED
    BY <1>13, <1>14, <2>1 DEF Width
<1> QED
  BY <1>7, <1>12, <1>13, <1>14, <1>15

LEMMA TakenGoesOn ==
  ASSUME ConnInv, wire # << >>, Arrived,
         NEW s, NEW d, NEW t, Reads(s, d, t), GoesOn(s.cur[d.m.ch], d, t.cur[d.m.ch]),
         NEW hdr, hdr = Header(Head(wire))
  PROVE  /\ ~hdr.isNew
         /\ hdr.length = 1 + Extra(d) /\ hdr.count = d.count
         /\ Ready(hdr.cs, d, t.cur[d.m.ch])
         /\ hdr.cs = chunks[d.m.ch] /\ hdr.cs.remain > 0
         /\ Len(wire) >= Width(d)
<1> DEFINE h == Head(wire)
           c == chunks[d.m.ch]
           v == s.cur[d.m.ch]
           w == t.cur[d.m.ch]
           takes == TakesExt(c, h, Tail(wire))
<1>1. d \in ChunkSet /\ InStep(s) /\ Step(s, d, t)
  BY DEF Reads
<1>2. /\ d.m.ch \in Channels
      /\ h = HeaderOf(d.fmt, d.m, d.field)
      /\ h.kind = "head" /\ h.fmt = d.fmt /\ h.ch = d.m.ch
      /\ c \in ChunkStreams
      /\ c.index + c.remain = c.Length
      /\ Follows(c, v)
      /\ ViewOK(d.m.ch, v)
      /\ v \in Views
      /\ w \in Views
      /\ Len(wire) > 1 => Head(Tail(wire)) = wire[2]
      /\ Tail(wire) # << >> <=> Len(wire) > 1
  BY Place
<1>3. /\ ~IsNew(c, h)
      /\ d.from < d.m.len
      /\ c.index = d.from /\ c.remain = d.m.len - d.from
      /\ c.Length = d.m.len /\ c.Timestamp = d.m.ts /\ c.TypeID = d.m.type
      /\ Extended(c, h) = v.ext
  <2> HIDE DEF c, h, v, w
  <2> QED
    BY <1>1, <1>2, GoingOn DEF v, w
<1>4. /\ d.m \in Message /\ d.m.len \in Nat /\ d.from \in Nat
      /\ d.ext \in BOOLEAN /\ d.count \in Nat /\ v.ext \in BOOLEAN
  BY <1>1, <1>2, Messages DEF ChunkSet, Views
<1>5. /\ v.msg # 0
      /\ d.ext => v.ext /\ d.stamp = d.m.ts
      /\ w.fmt = v.fmt /\ w.delta = v.delta /\ w.ext = v.ext
  BY DEF GoesOn
<1>6. remoteChunkSize \in Nat \ {0} /\ Len(wire) \in Nat /\ Len(wire) >= 1
  BY DEF ConnInv
<1>7. /\ hdr.cs = c /\ ~hdr.isNew
      /\ hdr.length = IF takes THEN 2 ELSE 1
      /\ hdr.count = Min({c.remain, remoteChunkSize})
  BY <1>2, <1>3 DEF Header
<1>8. hdr.count = IF c.remain <= remoteChunkSize THEN c.remain ELSE remoteChunkSize
  BY <1>3, <1>4, <1>6, <1>7, MinOfTwo
<1>9. c.remain \in Nat /\ c.remain > 0 /\ hdr.count \in Nat /\ hdr.count >= 1
  BY <1>3, <1>4, <1>6, <1>8
<1>10. hdr.count = d.count
  <2>1. d.count = IF s.size <= d.m.len - d.from THEN s.size ELSE d.m.len - d.from
    BY <1>1 DEF Step
  <2>2. s.size = remoteChunkSize
    BY <1>1 DEF InStep
  <2> QED
    BY <1>3, <1>4, <1>6, <1>8, <2>1, <2>2
<1>11. Len(wire) > 1
  <2>1. Len(wire) >= hdr.length + hdr.count
    BY DEF Arrived
  <2> QED
    BY <1>6, <1>7, <1>9, <2>1
<1>12. wire[2] = Token(d, 2)
  <2>1. 2 \in 1..Width(d) /\ 2 <= Len(wire)
    BY <1>4, <1>6, <1>9, <1>10, <1>11 DEF Width, Extra
  <2> QED
    BY <2>1 DEF Reads
<1>13. takes <=> d.ext
  <2>1. takes <=> v.ext /\ wire[2] = [kind |-> "ext", ts |-> d.m.ts]
    BY <1>2, <1>3, <1>11 DEF TakesExt
  <2>2. CASE d.ext
    <3>1. wire[2] = [kind |-> "ext", ts |-> d.stamp]
      BY <1>12, <2>2 DEF Token
    <3> QED
      BY <1>5, <2>1, <2>2, <3>1
  <2>3. CASE ~d.ext
    <3>1. wire[2].kind = "data"
      BY <1>12, <2>3 DEF Token
    <3> QED
      BY <2>1, <2>3, <3>1
  <2> QED
    BY <2>2, <2>3
<1>14. hdr.length = 1 + Extra(d)
  BY <1>4, <1>7, <1>13 DEF Extra
<1>15. Len(wire) >= Width(d)
  <2>1. Len(wire) >= hdr.length + hdr.count
    BY DEF Arrived
  <2> QED
    BY <1>10, <1>14, <2>1 DEF Width
<1>16. Ready(c, d, w)
  <2>1. c.Format = v.fmt /\ c.exted = v.ext /\ (v.fmt # 0 => c.timeDelta = v.delta)
    BY <1>2, <1>5 DEF Follows
  <2> QED
    BY <1>2, <1>3, <1>5, <2>1 DEF Ready
<1> QED
  BY <1>7, <1>9, <1>10, <1>14, <1>15, <1>16

\* Both.
LEMMA Taken ==
  ASSUME ConnInv, MemInv, wire # << >>, Arrived, NEW s, NEW d, NEW t, Reads(s, d, t),
         NEW hdr, hdr = Header(Head(wire))
  PROVE  /\ hdr.length = 1 + Extra(d) /\ hdr.count = d.count
         /\ Ready(hdr.cs, d, t.cur[d.m.ch])
         /\ Len(wire) >= Width(d)
         /\ \/ hdr.isNew /\ d.from = 0 /\ hdr.cs.Data = Get(d.m.len)
            \/ ~hdr.isNew /\ hdr.cs = chunks[d.m.ch] /\ hdr.cs.remain > 0
                 /\ s.cur[d.m.ch].msg = d.msg /\ s.cur[d.m.ch].done = d.from
<1>1. Opens(s.cur[d.m.ch], d, t.cur[d.m.ch]) \/ GoesOn(s.cur[d.m.ch], d, t.cur[d.m.ch])
  BY DEF Reads, Step
<1>2. CASE Opens(s.cur[d.m.ch], d, t.cur[d.m.ch])
  <2>1. d.from = 0
    BY <1>2 DEF Opens
  <2> QED
    BY <1>2, <2>1, TakenOpens
<1>3. CASE GoesOn(s.cur[d.m.ch], d, t.cur[d.m.ch])
  <2>1. s.cur[d.m.ch].msg = d.msg /\ s.cur[d.m.ch].done = d.from
    BY <1>3 DEF GoesOn
  <2> QED
    BY <1>3, <2>1, TakenGoesOn
<1> QED
  BY <1>1, <1>2, <1>3

-----------------------------------------------------------------------------
(* What Read does to the buffers *)

Buffers == Seq([1..PoolSize -> Unit])

\* The chunk d is next on the wire, all of it.
OnWire(d) ==
  /\ d \in ChunkSet
  /\ d.from + d.count <= d.m.len
  /\ Len(wire) >= Width(d)
  /\ \A j \in 1..Width(d) : j <= Len(wire) => wire[j] = Token(d, j)

\* Its payload goes to the chunk stream c, which has room for it in the buffers.
Room(d, c, buffers) ==
  /\ OnWire(d)
  /\ c \in ChunkStreams
  /\ c.Length = d.m.len
  /\ c.index = d.from
  /\ buffers \in Buffers
  /\ c.Data[1] \in 1..Len(buffers)
  /\ c.Data[2] + c.Length <= PoolSize

\* Where the payload comes in a region that begins after `base`.
LEMMA Offsets ==
  ASSUME NEW base \in Nat, NEW from \in Nat, NEW count \in Nat, NEW len \in Nat,
         NEW room \in Nat, base + len <= room, from + count <= len
  PROVE  /\ \A i \in (from + 1)..(from + count) :
              base + i \in 1..room /\ (base + i) - (base + from) \in 1..count
                /\ (base + i) - base = i
         /\ \A i \in 1..room :
              i <= base + from \/ i > base + len => i - (base + from) \notin 1..count
         /\ \A i \in 1..room : i - (base + from) \in 1..count => i - base \in 0..room
OBVIOUS

\* It is written where it belongs, and nowhere else.
Written(d, c, buffers, after) ==
  /\ after \in Buffers
  /\ Len(after) = Len(buffers)
  /\ \A b \in 1..Len(buffers) : b # c.Data[1] => after[b] = buffers[b]
  /\ \A i \in 1..PoolSize :
       i <= c.Data[2] + d.from \/ i > c.Data[2] + c.Length =>
         after[c.Data[1]][i] = buffers[c.Data[1]][i]
  /\ \A i \in (d.from + 1)..(d.from + d.count) :
       after[c.Data[1]][c.Data[2] + i] = <<d.msg, i>>

LEMMA Filling ==
  ASSUME Len(wire) \in Nat, NEW d, NEW c, NEW buffers, Room(d, c, buffers),
         NEW after, after = Filled(buffers, c, 1 + Extra(d), d.count)
  PROVE  Written(d, c, buffers, after)
<1> DEFINE b1 == c.Data[1]
           base == c.Data[2]
           start == base + c.index
           first == 1 + Extra(d)
           Value(i) == LET w == wire[first + i - start]
                       IN  IF w.kind = "data" THEN <<w.msg, w.at>> ELSE <<0, 0>>
           old == buffers[b1]
           row == [i \in 1..PoolSize |-> IF i - start \notin 1..d.count THEN old[i] ELSE Value(i)]
<1>1. /\ d \in ChunkSet /\ d.msg \in 1..MaxMessages /\ d.from \in Nat /\ d.count \in Nat
      /\ d.m \in Message /\ d.m.len \in 0..PoolSize /\ d.m.len \in Nat /\ d.ext \in BOOLEAN
      /\ PoolSize \in Nat /\ MaxMessages \in Nat
  BY Messages, Constants DEF Room, OnWire, ChunkSet
<1>2. /\ c.Data \in Regions /\ base \in Nat /\ b1 \in Nat /\ start = base + d.from
      /\ base + d.m.len <= PoolSize
      /\ b1 \in 1..Len(buffers)
      /\ d.from + d.count <= d.m.len
      /\ c.Length = d.m.len
  BY DEF Room, OnWire, ChunkStreams, Regions
<1>3. after = [buffers EXCEPT ![b1] = row]
  BY DEF Filled
<1>10. /\ \A i \in (d.from + 1)..(d.from + d.count) :
            base + i \in 1..PoolSize /\ (base + i) - start \in 1..d.count /\ (base + i) - base = i
       /\ \A i \in 1..PoolSize :
            i <= base + d.from \/ i > base + c.Length => i - start \notin 1..d.count
       /\ \A i \in 1..PoolSize : i - start \in 1..d.count => i - base \in 0..PoolSize
  <2>1. PICK b, from, count, len, room :
          b = base /\ from = d.from /\ count = d.count /\ len = d.m.len /\ room = PoolSize
    OBVIOUS
  <2>2. /\ b \in Nat /\ from \in Nat /\ count \in Nat /\ len \in Nat /\ room \in Nat
        /\ b + len <= room /\ from + count <= len
    BY <1>1, <1>2, <2>1
  <2>3. /\ \A i \in (from + 1)..(from + count) :
             b + i \in 1..room /\ (b + i) - (b + from) \in 1..count /\ (b + i) - b = i
        /\ \A i \in 1..room : i <= b + from \/ i > b + len => i - (b + from) \notin 1..count
        /\ \A i \in 1..room : i - (b + from) \in 1..count => i - b \in 0..room
    BY <2>2, Offsets
  <2>4. start = b + from /\ c.Length = len
    BY <1>2, <2>1
  <2> HIDE DEF base, start
  <2> QED
    BY <2>1, <2>3, <2>4, Zenon
<1>4. ASSUME NEW i \in 1..PoolSize, i - start \in 1..d.count
      PROVE  Value(i) = <<d.msg, i - base>> /\ Value(i) \in Unit
  <2>1. PICK j : j = first + i - start
    OBVIOUS
  <2>2. first \in {1, 2} /\ first = 1 + Extra(d) /\ Extra(d) \in {0, 1}
    BY <1>1 DEF Extra
  <2>3. j \in 1..Width(d) /\ j <= Len(wire) /\ j > first
    <3>1. Width(d) = first + d.count
      BY DEF Width
    <3>2. Len(wire) >= first + d.count
      BY <3>1 DEF Room, OnWire
    <3> HIDE DEF first, start
    <3>3. i \in Int /\ start \in Int
      BY <1>1, <1>2
    <3>4. j >= 1 /\ j <= first + d.count /\ j \in Int /\ j > first
      BY <1>1, <1>4, <2>1, <2>2, <3>3
    <3> QED
      BY <1>1, <2>2, <3>1, <3>2, <3>4
  <2>4. wire[j] = Token(d, j)
    BY <2>3 DEF Room, OnWire
  <2>5. j # 1 /\ ~(j = 2 /\ d.ext)
    BY <1>1, <2>3 DEF Extra
  <2>6. wire[j] = [kind |-> "data", msg |-> d.msg, at |-> d.from + (j - 1 - Extra(d))]
    BY <2>4, <2>5 DEF Token
  <2>7. d.from + (j - 1 - Extra(d)) = i - base
    <3>1. i \in Int /\ base \in Int /\ d.from \in Int /\ Extra(d) \in Int
      BY <1>1, <1>2, <2>2
    <3>2. \A b, f, e \in Int : f + (((1 + e) + (i - (b + f))) - 1 - e) = i - b
      BY <3>1
    <3>3. j = (1 + Extra(d)) + (i - (base + d.from))
      <4>1. start = base + d.from
        BY <1>2
      <4> HIDE DEF base, start
      <4> QED
        BY <2>1, <4>1, Zenon
    <3> HIDE DEF base
    <3> QED
      BY <3>1, <3>2, <3>3, Zenon
  <2>8. Value(i) = <<d.msg, i - base>>
    BY <2>1, <2>6, <2>7
  <2>9. i - base \in 0..PoolSize /\ d.msg \in 0..MaxMessages
    BY <1>1, <1>4, <1>10
  <2> HIDE DEF Value
  <2> QED
    BY <2>8, <2>9 DEF Unit
<1>5. old \in [1..PoolSize -> Unit]
  BY <1>2 DEF Room, Buffers
<1> HIDE DEF Value, old
<1>6. row \in [1..PoolSize -> Unit]
  <2>1. ASSUME NEW i \in 1..PoolSize
        PROVE  (IF i - start \notin 1..d.count THEN old[i] ELSE Value(i)) \in Unit
    BY <1>4, <1>5
  <2> HIDE DEF start
  <2> QED
    BY <2>1
<1>7. \A i \in 1..PoolSize : i <= base + d.from \/ i > base + c.Length => row[i] = old[i]
  BY <1>10
<1>8. ASSUME NEW i \in (d.from + 1)..(d.from + d.count)
      PROVE  row[base + i] = <<d.msg, i>>
  <2>1. base + i \in 1..PoolSize /\ (base + i) - start \in 1..d.count /\ (base + i) - base = i
    BY <1>10
  <2>2. Value(base + i) = <<d.msg, i>>
    BY <1>4, <2>1
  <2> QED
    BY <2>1, <2>2
<1> HIDE DEF row
<1>9. /\ after \in Buffers /\ Len(after) = Len(buffers)
      /\ \A b \in 1..Len(buffers) : b # b1 => after[b] = buffers[b]
      /\ after[b1] = row
  <2>1. buffers \in Seq([1..PoolSize -> Unit])
    BY DEF Room, Buffers
  <2> HIDE DEF b1
  <2> QED
    BY <1>2, <1>3, <1>6, <2>1 DEF Buffers
<1> QED
  BY <1>7, <1>8, <1>9 DEF old, Written

\* The region that d's payload goes to is apart from all that is in use, in the
\* buffers as Get leaves them, with the last one used up to top.
Fills(d, c, buffers, top) ==
  /\ Room(d, c, buffers)
  /\ Len(mem) <= Len(buffers)
  /\ \A b \in 1..Len(mem) : buffers[b] = mem[b]
  /\ c.Data[1] = Len(buffers) => c.Data[2] + c.Length <= top
  /\ top \in 0..PoolSize
  /\ \A data \in Regions, n \in Nat :
       Given(data, n) /\ data[1] = Len(buffers) => data[2] + n <= top
  /\ \A k \in 1..Len(delivered) :
       Apart(c.Data, c.Length, delivered[k].Data, delivered[k].Length)
  /\ \A ch \in Channels \ {d.m.ch} :
       chunks[ch].remain > 0 => Apart(c.Data, c.Length, chunks[ch].Data, chunks[ch].Length)
  /\ \A i \in 1..d.from : buffers[c.Data[1]][c.Data[2] + i] = <<d.msg, i>>

\* What is in a region stays.
Stays(data, n) == \A i \in 1..n : mem'[data[1]][data[2] + i] = mem[data[1]][data[2] + i]

LEMMA FillsKeeps ==
  ASSUME MemInv, Len(wire) \in Nat, NEW d, NEW c, NEW buffers, NEW top,
         Fills(d, c, buffers, top),
         mem' = Filled(buffers, c, 1 + Extra(d), d.count), pos' = top
  PROVE  /\ mem' \in Buffers /\ mem' # << >> /\ pos' \in 0..PoolSize
         /\ Given(c.Data, c.Length)'
         /\ \A data \in Regions, n \in Nat : Given(data, n) => Given(data, n)'
         /\ \A data \in Regions, n \in Nat :
              Given(data, n) /\ Apart(c.Data, c.Length, data, n) => Stays(data, n)
         /\ Holds(c.Data, d.msg, d.from + d.count)'
<1> DEFINE b1 == c.Data[1]
           base == c.Data[2]
<1>1. /\ mem' \in Buffers /\ Len(mem') = Len(buffers)
      /\ \A b \in 1..Len(buffers) : b # b1 => mem'[b] = buffers[b]
      /\ \A i \in 1..PoolSize :
           i <= base + d.from \/ i > base + c.Length => mem'[b1][i] = buffers[b1][i]
      /\ \A i \in (d.from + 1)..(d.from + d.count) : mem'[b1][base + i] = <<d.msg, i>>
  <2>1. Room(d, c, buffers)
    BY DEF Fills
  <2>2. PICK after : after = mem' /\ after = Filled(buffers, c, 1 + Extra(d), d.count)
    OBVIOUS
  <2>3. Written(d, c, buffers, after)
    BY <2>1, <2>2, Filling
  <2> QED
    BY <2>2, <2>3 DEF Written
<1>2. /\ c.Data \in Regions /\ base \in Nat /\ b1 \in Nat
      /\ c.Length \in Nat /\ base + c.Length <= PoolSize
      /\ b1 \in 1..Len(buffers)
      /\ PoolSize \in Nat
      /\ d.from \in Nat /\ d.count \in Nat /\ d.from + d.count <= c.Length
  BY Constants DEF Fills, Room, OnWire, ChunkStreams, ChunkSet, Regions
<1>3. /\ Len(mem) \in Nat /\ Len(mem) # 0 /\ Len(mem) <= Len(buffers) /\ Len(buffers) \in Nat
      /\ \A b \in 1..Len(mem) : buffers[b] = mem[b]
  <2>1. Len(mem) \in Nat /\ Len(mem) # 0
    BY DEF MemInv
  <2>2. Len(buffers) \in Nat
    BY DEF Fills, Room, Buffers
  <2> QED
    BY <2>1, <2>2 DEF Fills
<1>4. mem' # << >>
  <2>1. Len(mem') # 0
    BY <1>1, <1>3
  <2> QED
    BY <2>1
<1>5. pos' \in 0..PoolSize
  BY DEF Fills
<1>6. Given(c.Data, c.Length)'
  <2>1. b1 = Len(buffers) => base + c.Length <= top
    BY DEF Fills
  <2> HIDE DEF b1, base
  <2> QED
    BY <1>1, <1>2, <2>1 DEF Given, b1, base
<1>7. ASSUME NEW data \in Regions, NEW n \in Nat, Given(data, n)
      PROVE  Given(data, n)'
  <2>1. data[1] \in 1..Len(mem) /\ data[2] + n <= PoolSize
    BY <1>7 DEF Given
  <2>2. data[1] \in 1..Len(mem')
    BY <1>1, <1>3, <2>1
  <2>3. data[1] = Len(mem') => data[2] + n <= pos'
    BY <1>1, <1>7 DEF Fills
  <2> QED
    BY <2>1, <2>2, <2>3 DEF Given
<1>8. ASSUME NEW data \in Regions, NEW n \in Nat, Given(data, n),
             Apart(c.Data, c.Length, data, n)
      PROVE  Stays(data, n)
  <2>1. data[1] \in 1..Len(mem) /\ data[2] + n <= PoolSize /\ data[2] \in Nat
    BY <1>8 DEF Given, Regions
  <2>2. data[1] \in 1..Len(buffers) /\ buffers[data[1]] = mem[data[1]]
    BY <1>3, <2>1
  <2>3. CASE data[1] # b1
    <3>1. mem'[data[1]] = mem[data[1]]
      BY <1>1, <2>2, <2>3
    <3> QED
      BY <3>1 DEF Stays
  <2>4. CASE data[1] = b1
    <3>1. base + c.Length <= data[2] \/ data[2] + n <= base
      BY <1>8, <2>4 DEF Apart
    <3>2. ASSUME NEW i \in 1..n
          PROVE  mem'[data[1]][data[2] + i] = mem[data[1]][data[2] + i]
      <4>1. PICK j : j = data[2] + i
        OBVIOUS
      <4>2. PICK a, x : a = data[2] /\ x = base
        OBVIOUS
      <4>3. /\ a \in Nat /\ x \in Nat /\ j = a + i /\ a + n <= PoolSize
            /\ x + c.Length <= a \/ a + n <= x
        BY <1>2, <2>1, <3>1, <4>1, <4>2
      <4>4. j \in 1..PoolSize /\ (j <= x + d.from \/ j > x + c.Length)
        BY <1>2, <4>3
      <4>5. mem'[b1][j] = buffers[b1][j]
        BY <1>1, <4>2, <4>4
      <4> QED
        BY <2>2, <2>4, <4>1, <4>5
    <3> QED
      BY <3>2 DEF Stays
  <2> QED
    BY <2>3, <2>4
<1>9. Holds(c.Data, d.msg, d.from + d.count)'
  <2>1. ASSUME NEW i \in 1..(d.from + d.count)
        PROVE  mem'[b1][base + i] = <<d.msg, i>>
    <3>1. CASE i \in 1..d.from
      <4>1. PICK j, x : j = base + i /\ x = base
        OBVIOUS
      <4>2. /\ x \in Nat /\ x + c.Length <= PoolSize /\ j = x + i
            /\ d.from \in Nat /\ d.from <= c.Length
        BY <1>2, <4>1
      <4>5. j \in 1..PoolSize /\ j <= x + d.from
        BY <1>2, <3>1, <4>2
      <4>3. mem'[b1][j] = buffers[b1][j]
        BY <1>1, <4>1, <4>5
      <4>4. buffers[b1][base + i] = <<d.msg, i>>
        BY <3>1 DEF Fills
      <4> QED
        BY <4>1, <4>3, <4>4
    <3>2. CASE i \in (d.from + 1)..(d.from + d.count)
      BY <1>1, <3>2
    <3> QED
      BY <1>2, <3>1, <3>2
  <2> QED
    BY <2>1 DEF Holds
<1> QED
  BY <1>1, <1>4, <1>5, <1>6, <1>7, <1>8, <1>9

LEMMA FillsNew ==
  ASSUME ConnInv, MemInv, NEW d, OnWire(d), d.from = 0,
         NEW c \in ChunkStreams, c.Length = d.m.len, c.index = 0, c.Data = Get(d.m.len),
         NEW buffers,
         buffers = IF NewBuffer(d.m.len) THEN Append(mem, Empty) ELSE mem,
         NEW top, top = c.Data[2] + d.m.len
  PROVE  Fills(d, c, buffers, top)
<1> DEFINE len == d.m.len
           b1 == c.Data[1]
           base == c.Data[2]
<1>1. d \in ChunkSet /\ len \in Nat /\ len <= PoolSize /\ d.m.ch \in Channels /\ PoolSize \in Nat
  BY Messages, Constants DEF OnWire, ChunkSet
<1>2. /\ mem \in Seq([1..PoolSize -> Unit]) /\ Len(mem) \in Nat /\ Len(mem) # 0
      /\ pos \in 0..PoolSize /\ pos \in Nat
  BY <1>1 DEF MemInv
<1>3. /\ NewBuffer(len) => b1 = Len(mem) + 1 /\ base = 0
      /\ ~NewBuffer(len) => b1 = Len(mem) /\ base = pos /\ pos + len <= PoolSize
  BY <1>1, <1>2 DEF Get, NewBuffer
<1>4. /\ buffers \in Buffers /\ Len(buffers) = b1 /\ Len(mem) <= b1
      /\ \A b \in 1..Len(mem) : buffers[b] = mem[b]
  <2>1. Empty \in [1..PoolSize -> Unit]
    BY Constants DEF Empty, Unit
  <2>2. CASE NewBuffer(len)
    BY <1>2, <1>3, <2>1, <2>2 DEF Buffers
  <2>3. CASE ~NewBuffer(len)
    BY <1>2, <1>3, <2>3 DEF Buffers
  <2> QED
    BY <2>2, <2>3
<1>5. b1 \in Nat /\ base \in Nat /\ base + len <= PoolSize /\ top = base + len
  BY <1>1, <1>2, <1>3
<1>6. top \in 0..PoolSize
  <2>1. PICK x : x = base
    OBVIOUS
  <2> HIDE DEF len, base
  <2> QED
    BY <1>1, <1>5, <2>1
<1>7. Room(d, c, buffers)
  <2>1. b1 \in 1..Len(buffers)
    BY <1>2, <1>4, <1>5
  <2> QED
    BY <1>4, <1>5, <2>1 DEF Room
<1>8. ASSUME NEW data \in Regions, NEW n \in Nat, Given(data, n)
      PROVE  /\ data[1] = Len(buffers) => data[2] + n <= top
             /\ Apart(c.Data, c.Length, data, n)
  <2>1. /\ data[1] \in 1..Len(mem)
        /\ data[1] = Len(mem) => data[2] + n <= pos
    BY <1>8 DEF Given
  <2>2. data[1] \in Nat /\ data[2] \in Nat
    BY DEF Regions
  <2>3. CASE NewBuffer(len)
    <3>1. data[1] # b1
      BY <1>2, <1>3, <2>1, <2>2, <2>3
    <3> QED
      BY <1>4, <3>1 DEF Apart
  <2>4. CASE ~NewBuffer(len) /\ data[1] = Len(mem)
    <3>1. data[2] + n <= base /\ base <= top
      BY <1>1, <1>3, <1>5, <2>1, <2>4
    <3>2. data[2] + n <= top
      BY <1>5, <1>6, <2>2, <3>1
    <3> QED
      BY <3>1, <3>2 DEF Apart
  <2>5. CASE ~NewBuffer(len) /\ data[1] # Len(mem)
    BY <1>3, <1>4, <2>5 DEF Apart
  <2> QED
    BY <2>3, <2>4, <2>5
<1>9. ASSUME NEW k \in 1..Len(delivered)
      PROVE  Apart(c.Data, c.Length, delivered[k].Data, delivered[k].Length)
  <2>1. delivered[k].Data \in Regions /\ delivered[k].Length \in Nat
    <3>1. delivered[k] \in Returned
      BY DEF ConnInv
    <3> QED
      BY <1>1, <3>1 DEF Returned
  <2>2. Given(delivered[k].Data, delivered[k].Length)
    BY DEF MemInv
  <2> QED
    BY <1>8, <2>1, <2>2
<1>10. ASSUME NEW ch \in Channels
       PROVE  Apart(c.Data, c.Length, chunks[ch].Data, chunks[ch].Length)
  <2>1. chunks[ch].Data \in Regions /\ chunks[ch].Length \in Nat
    BY <1>1 DEF ConnInv, ChunkStreams
  <2>2. Given(chunks[ch].Data, chunks[ch].Length)
    BY DEF MemInv
  <2> QED
    BY <1>8, <2>1, <2>2
<1> HIDE DEF b1, base
<1>11. c.Data[1] = Len(buffers) => c.Data[2] + c.Length <= top
  <2>1. c.Length = len
    OBVIOUS
  <2> HIDE DEF len
  <2> QED
    BY <1>1, <1>5, <2>1 DEF base
<1>12. \A i \in 1..d.from : buffers[c.Data[1]][c.Data[2] + i] = <<d.msg, i>>
  BY SMTT(30)
<1> QED
  BY <1>4, <1>6, <1>7, <1>8, <1>9, <1>10, <1>11, <1>12 DEF Fills, b1

LEMMA FillsOn ==
  ASSUME ConnInv, MemInv, NEW d, OnWire(d),
         NEW c, c = chunks[d.m.ch], c.remain > 0, c.Length = d.m.len, c.index = d.from,
         Holds(c.Data, d.msg, d.from)
  PROVE  Fills(d, c, mem, pos)
<1>1. d \in ChunkSet /\ d.m.len \in Nat /\ d.m.ch \in Channels
  BY Messages DEF OnWire, ChunkSet
<1>2. c \in ChunkStreams
  BY <1>1 DEF ConnInv
<1>3. mem \in Buffers /\ Len(mem) \in Nat
  BY DEF MemInv, Buffers
<1>4. /\ c.Data[1] \in 1..Len(mem)
      /\ c.Data[2] + c.Length <= PoolSize
      /\ c.Data[1] = Len(mem) => c.Data[2] + c.Length <= pos
  BY <1>1 DEF MemInv, Given
<1>5. Room(d, c, mem)
  BY <1>2, <1>3, <1>4 DEF Room
<1>6. \A data \in Regions, n \in Nat : Given(data, n) /\ data[1] = Len(mem) => data[2] + n <= pos
  BY DEF Given
<1>7. \A k \in 1..Len(delivered) : Apart(c.Data, c.Length, delivered[k].Data, delivered[k].Length)
  BY <1>1 DEF MemInv
<1>8. \A ch \in Channels \ {d.m.ch} :
        chunks[ch].remain > 0 => Apart(c.Data, c.Length, chunks[ch].Data, chunks[ch].Length)
  BY <1>1 DEF MemInv
<1>9. pos \in 0..PoolSize /\ Len(mem) <= Len(mem)
  BY <1>3 DEF MemInv
<1> QED
  BY <1>4, <1>5, <1>6, <1>7, <1>8, <1>9, Zenon DEF Fills, Holds

-----------------------------------------------------------------------------
(* ReadChunk *)

\* The chunk stream after the payload of d, which was c before it.
Advanced(c, d, w, done) ==
  /\ done \in ChunkStreams
  /\ done.Format = w.fmt /\ done.exted = w.ext
  /\ w.fmt # 0 => done.timeDelta = w.delta
  /\ done.Timestamp = d.m.ts /\ done.Length = d.m.len /\ done.TypeID = d.m.type
  /\ done.index = d.from + d.count /\ done.remain = d.m.len - (d.from + d.count)
  /\ done.got <=> d.from + d.count = d.m.len
  /\ done.Data = c.Data

\* How much of the message is in the chunk.
LEMMA Share ==
  ASSUME NEW s, NEW d, NEW t, Reads(s, d, t)
  PROVE  /\ d \in ChunkSet /\ d.m \in Message /\ d.m.ch \in Channels
         /\ d.from \in Nat /\ d.count \in Nat /\ d.m.len \in 0..PoolSize /\ d.m.len \in Nat
         /\ d.from + d.count <= d.m.len
         /\ d.m.type # "media" => d.from + d.count = d.m.len
<1>1. d \in ChunkSet /\ s \in Snapshots /\ Step(s, d, t)
  BY DEF Reads
<1>2. /\ d.m \in Message /\ d.m.ch \in Channels /\ d.from \in Nat /\ d.count \in Nat
      /\ d.m.len \in 0..PoolSize /\ d.m.len \in Nat
      /\ d.m.type # "media" => d.m.len = 1
      /\ s.size \in Nat \ {0}
  BY <1>1, Messages DEF ChunkSet, Snapshots
<1>3. d.from = 0 \/ d.from < d.m.len
  <2>1. CASE Opens(s.cur[d.m.ch], d, t.cur[d.m.ch])
    BY <2>1 DEF Opens
  <2>2. CASE GoesOn(s.cur[d.m.ch], d, t.cur[d.m.ch])
    BY <2>2 DEF GoesOn
  <2> QED
    BY <1>1, <2>1, <2>2 DEF Step
<1>4. d.count = IF s.size <= d.m.len - d.from THEN s.size ELSE d.m.len - d.from
  BY <1>1 DEF Step
<1>5. d.from + d.count <= d.m.len
  BY <1>2, <1>3, <1>4
<1>6. d.m.type # "media" => d.from + d.count = d.m.len
  BY <1>2, <1>3, <1>4
<1> QED
  BY <1>1, <1>2, <1>5, <1>6

LEMMA Advances ==
  ASSUME NEW s, NEW d, NEW t, Reads(s, d, t), NEW c, NEW w, Ready(c, d, w), NEW done,
         done = [c EXCEPT !.index = @ + d.count, !.remain = @ - d.count,
                          !.got = Ends(c, d.count)]
  PROVE  Advanced(c, d, w, done)
<1>1. /\ d.from \in Nat /\ d.count \in Nat /\ d.m.len \in Nat
      /\ d.from + d.count <= d.m.len
  BY Share
<1>2. c \in ChunkStreams /\ c.index = d.from /\ c.remain = d.m.len - d.from
  BY DEF Ready
<1>3. PICK x, r, g : x = c.index + d.count /\ r = c.remain - d.count /\ g = (c.remain = d.count)
  OBVIOUS
<1>4. /\ x \in Nat /\ x = d.from + d.count
      /\ r \in Nat /\ r = d.m.len - (d.from + d.count)
  BY <1>1, <1>2, <1>3
<1>5. g \in BOOLEAN
  BY <1>3
<1>6. g <=> d.from + d.count = d.m.len
  <2>1. c.remain = d.count <=> d.from + d.count = d.m.len
    BY <1>1, <1>2
  <2> QED
    BY <1>3, <2>1
<1>7. done = [c EXCEPT !.index = x, !.remain = r, !.got = g]
  <2>1. g = Ends(c, d.count)
    BY <1>3 DEF Ends
  <2> QED
    BY <1>2, <1>3, <2>1 DEF ChunkStreams
<1>8. done \in ChunkStreams
  BY <1>2, <1>4, <1>5, <1>7, Zenon DEF ChunkStreams
<1>9. /\ done.Format = c.Format /\ done.exted = c.exted /\ done.timeDelta = c.timeDelta
      /\ done.Timestamp = c.Timestamp /\ done.Length = c.Length /\ done.TypeID = c.TypeID
      /\ done.index = x /\ done.remain = r /\ done.got = g /\ done.Data = c.Data
  BY <1>2, <1>7 DEF ChunkStreams
<1> QED
  BY <1>4, <1>6, <1>8, <1>9 DEF Ready, Advanced

\* ReadChunk takes the chunk d: what it does to all that is not a message returned.
Takes(s, d, t, c, done, buffers) ==
  /\ Reads(s, d, t)
  /\ Advanced(c, d, t.cur[d.m.ch], done)
  /\ Fills(d, c, buffers, pos')
  /\ mem' = Filled(buffers, c, 1 + Extra(d), d.count)
  /\ chunks' = [chunks EXCEPT ![d.m.ch] = done]
  /\ wire' = SubSeq(wire, Width(d) + 1, Len(wire))
  /\ Len(wire) >= Width(d)
  /\ UNCHANGED <<peer, cut>>

\* The message returned, if d ends it.
Returns(d, done) ==
  IF done.got
  THEN /\ handleControlMsg(done)
       /\ ack(done.Length)
       /\ delivered' =
            IF failed' THEN delivered
            ELSE Append(delivered,
                   [ch |-> d.m.ch, TypeID |-> done.TypeID, Length |-> done.Length,
                    Timestamp |-> done.Timestamp, Data |-> done.Data])
  ELSE UNCHANGED <<delivered, remoteChunkSize, remoteWindowAckSize, ackReceived, acked, told,
                   unflushed, failed>>

LEMMA ReadChunkTakes ==
  ASSUME ConnInv, MemInv, Sync, ReadChunk
  PROVE  \E s, d, t, c, done, buffers :
           /\ Takes(s, d, t, c, done, buffers)
           /\ Returns(d, done)
           /\ Passes(d, t) => Sync'
<1>1. wire # << >> /\ Arrived
  BY DEF ReadChunk, Arrived
<1>2. wire \in Seq(Tokens) /\ Len(wire) \in Nat
  BY DEF ConnInv
<1>3. PICK s, d, t : Reads(s, d, t) /\ (Passes(d, t) => Sync')
  BY <1>1, <1>2, NextOnWire
<1>4. PICK h, hdr : h = Head(wire) /\ hdr = Header(h)
  OBVIOUS
<1>5. PICK c, w, ch : c = hdr.cs /\ w = t.cur[d.m.ch] /\ ch = d.m.ch
  OBVIOUS
<1>6. /\ hdr.length = 1 + Extra(d) /\ hdr.count = d.count
      /\ Ready(c, d, w)
      /\ Len(wire) >= Width(d)
      /\ \/ hdr.isNew /\ d.from = 0 /\ c.Data = Get(d.m.len)
         \/ ~hdr.isNew /\ c = chunks[ch] /\ c.remain > 0
              /\ s.cur[ch].msg = d.msg /\ s.cur[ch].done = d.from
  BY <1>1, <1>3, <1>4, <1>5, Taken
<1>7. h.ch = ch
  BY <1>1, <1>3, <1>4, <1>5, Place
<1>8. PICK done :
        done = [c EXCEPT !.index = @ + d.count, !.remain = @ - d.count, !.got = Ends(c, d.count)]
  OBVIOUS
<1>9. Advanced(c, d, w, done)
  BY <1>3, <1>6, <1>8, Advances
<1>10. PICK buffers : buffers = IF hdr.isNew /\ NewBuffer(c.Length) THEN Append(mem, Empty) ELSE mem
  OBVIOUS
<1>11. hdr.length + hdr.count = Width(d)
  BY <1>6 DEF Width
<1>12. /\ wire' = SubSeq(wire, Width(d) + 1, Len(wire))
       /\ chunks' = [chunks EXCEPT ![ch] = done]
       /\ mem' = Filled(buffers, c, 1 + Extra(d), d.count)
       /\ pos' = IF hdr.isNew THEN c.Data[2] + c.Length ELSE pos
       /\ UNCHANGED <<peer, cut>>
       /\ Returns(d, done)
  BY <1>4, <1>5, <1>6, <1>7, <1>8, <1>10, <1>11 DEF ReadChunk, Returns
<1>13. OnWire(d)
  <2>1. d \in ChunkSet /\ d.from + d.count <= d.m.len
    BY <1>3, Share
  <2> QED
    BY <1>3, <1>6, <2>1 DEF Reads, OnWire
<1>14. c \in ChunkStreams /\ c.Length = d.m.len /\ c.index = d.from
  BY <1>6 DEF Ready
<1>15. Fills(d, c, buffers, pos')
  <2>1. CASE hdr.isNew
    <3>1. d.from = 0 /\ c.Data = Get(d.m.len)
      BY <1>6, <2>1
    <3>2. buffers = IF NewBuffer(d.m.len) THEN Append(mem, Empty) ELSE mem
      BY <1>10, <1>14, <2>1
    <3>3. PICK top : top = pos' /\ top = c.Data[2] + d.m.len
      BY <1>12, <1>14, <2>1
    <3>4. Fills(d, c, buffers, top)
      BY <1>13, <1>14, <3>1, <3>2, <3>3, FillsNew
    <3> QED
      BY <3>3, <3>4
  <2>2. CASE ~hdr.isNew
    <3>1. c = chunks[d.m.ch] /\ c.remain > 0 /\ s.cur[ch].msg = d.msg /\ s.cur[ch].done = d.from
      BY <1>5, <1>6, <2>2
    <3>2. Holds(c.Data, d.msg, d.from)
      <4>1. d.m.ch \in Channels
        BY <1>3, Share
      <4> QED
        BY <1>3, <1>5, <3>1, <4>1 DEF Reads, InStep
    <3>3. buffers = mem /\ pos' = pos
      BY <1>10, <1>12, <2>2
    <3>4. Fills(d, c, mem, pos)
      BY <1>13, <1>14, <3>1, <3>2, FillsOn
    <3> QED
      BY <3>3, <3>4
  <2> QED
    BY <2>1, <2>2
<1>16. Takes(s, d, t, c, done, buffers)
  BY <1>3, <1>5, <1>6, <1>9, <1>12, <1>15 DEF Takes
<1> QED
  BY <1>3, <1>12, <1>16

\* The buffers and what is in them, after FillsKeeps.
Keeps(d, c) ==
  /\ mem' \in Buffers /\ mem' # << >> /\ pos' \in 0..PoolSize
  /\ Given(c.Data, c.Length)'
  /\ \A data \in Regions, n \in Nat : Given(data, n) => Given(data, n)'
  /\ \A data \in Regions, n \in Nat :
       Given(data, n) /\ Apart(c.Data, c.Length, data, n) => Stays(data, n)
  /\ Holds(c.Data, d.msg, d.from + d.count)'

LEMMA TakesKeeps ==
  ASSUME ConnInv, MemInv, NEW s, NEW d, NEW t, NEW c, NEW done, NEW buffers,
         Takes(s, d, t, c, done, buffers)
  PROVE  Keeps(d, c)
<1>1. PICK top : top = pos' /\ Fills(d, c, buffers, top)
  BY DEF Takes
<1>2. mem' = Filled(buffers, c, 1 + Extra(d), d.count)
  BY DEF Takes
<1>3. Len(wire) \in Nat
  BY DEF ConnInv
<1>4. /\ mem' \in Buffers /\ mem' # << >> /\ pos' \in 0..PoolSize
      /\ Given(c.Data, c.Length)'
      /\ \A data \in Regions, n \in Nat : Given(data, n) => Given(data, n)'
      /\ \A data \in Regions, n \in Nat :
           Given(data, n) /\ Apart(c.Data, c.Length, data, n) => Stays(data, n)
      /\ Holds(c.Data, d.msg, d.from + d.count)'
  BY <1>1, <1>2, <1>3, FillsKeeps
<1> QED
  BY <1>4 DEF Keeps

\* A message of one chunk sets what it is about, once it is there.
LEMMA Controls ==
  ASSUME PeerInv, ConnInv, MemInv, NEW s, NEW d, NEW t, NEW c, NEW done, NEW buffers,
         Takes(s, d, t, c, done, buffers), Returns(d, done)
  PROVE  /\ remoteChunkSize' = IF d.m.type = "chunksize" THEN d.m.value ELSE remoteChunkSize
         /\ remoteWindowAckSize' = IF d.m.type = "window" THEN d.m.value ELSE remoteWindowAckSize
         /\ remoteChunkSize' \in Nat \ {0}
         /\ remoteWindowAckSize' \in Nat \ {0}
<1>1. /\ Reads(s, d, t) /\ d \in ChunkSet /\ d.m \in Message
      /\ d.from \in Nat /\ d.count \in Nat
      /\ d.m.type # "media" => d.from + d.count = d.m.len /\ d.m.len = 1
                                 /\ d.m.value \in Nat \ {0}
  BY Share, Messages DEF Takes
<1>2. /\ done.got <=> d.from + d.count = d.m.len
      /\ done.TypeID = d.m.type /\ done.Data = c.Data
  BY DEF Takes, Advanced
<1>3. sent[d.msg] = d.m
  BY <1>1 DEF Reads, Step, Known
<1>4. remoteChunkSize \in Nat \ {0} /\ remoteWindowAckSize \in Nat \ {0}
  BY DEF ConnInv
<1>5. CASE d.m.type # "media"
  <2>1. done.got /\ handleControlMsg(done)
    BY <1>1, <1>2, <1>5 DEF Returns
  <2>2. mem'[c.Data[1]][c.Data[2] + 1] = <<d.msg, 1>>
    <3>1. Holds(c.Data, d.msg, d.from + d.count)'
      BY TakesKeeps DEF Keeps
    <3>2. 1 \in 1..(d.from + d.count)
      BY <1>1, <1>5
    <3> QED
      BY <3>1, <3>2 DEF Holds
  <2>3. mem'[done.Data[1]][done.Data[2] + 1][1] = d.msg
    BY <1>2, <2>2
  <2>4. sent[mem'[done.Data[1]][done.Data[2] + 1][1]].value = d.m.value
    BY <1>3, <2>3
  <2>5. /\ remoteChunkSize' = IF done.TypeID = "chunksize" THEN d.m.value ELSE remoteChunkSize
        /\ remoteWindowAckSize' =
             IF done.TypeID = "window" THEN d.m.value ELSE remoteWindowAckSize
    BY <2>1, <2>4 DEF handleControlMsg
  <2> QED
    BY <1>1, <1>2, <1>4, <1>5, <2>5
<1>6. CASE d.m.type = "media"
  <2>1. remoteChunkSize' = remoteChunkSize /\ remoteWindowAckSize' = remoteWindowAckSize
    BY <1>2, <1>6 DEF Returns, handleControlMsg
  <2> QED
    BY <1>4, <1>6, <2>1
<1> QED
  BY <1>5, <1>6

\* What is acknowledged.
LEMMA Acknowledges ==
  ASSUME ConnInv, ~failed, NEW len \in Nat, ack(len), remoteWindowAckSize' \in Nat
  PROVE  /\ ackReceived' \in Nat /\ acked' \in Nat /\ failed' \in BOOLEAN
         /\ failed' => cut
         /\ ~failed' => /\ ackReceived' < remoteWindowAckSize' \/ ackReceived' = 0
                        /\ acked' + ackReceived' = (acked + ackReceived) + len
<1>1. ackReceived \in Nat /\ acked \in Nat /\ remoteWindowAckSize' \in Nat /\ failed \in BOOLEAN
  BY DEF ConnInv
<1>2. PICK sum, window : sum = ackReceived + len /\ window = remoteWindowAckSize'
  OBVIOUS
<1>3. sum \in Nat /\ window \in Nat
  BY <1>1, <1>2
<1>4. CASE sum < window /\ ackReceived' = sum /\ UNCHANGED <<acked, told, unflushed, failed>>
  <2>1. ackReceived' < window /\ acked' + ackReceived' = (acked + ackReceived) + len
    BY <1>1, <1>2, <1>3, <1>4
  <2> QED
    BY <1>1, <1>2, <1>3, <1>4, <2>1, Zenon
<1>5. CASE sum >= window /\ ackReceived' = 0 /\ WriteAck(sum) /\ UNCHANGED failed
  <2>0. acked' = acked + sum
    BY <1>5 DEF WriteAck
  <2>1. ackReceived' \in Nat /\ acked' \in Nat
    BY <1>1, <1>3, <1>5, <2>0
  <2>2. acked' + ackReceived' = (acked + ackReceived) + len
    BY <1>1, <1>2, <1>3, <1>5, <2>0
  <2> QED
    BY <1>1, <1>5, <2>1, <2>2, Zenon
<1>6. CASE sum >= window /\ cut /\ ackReceived' = sum /\ failed' = TRUE
           /\ UNCHANGED <<acked, told, unflushed>>
  BY <1>1, <1>3, <1>6
<1> QED
  BY <1>2, <1>4, <1>5, <1>6 DEF ack

\* An acknowledgement is told, or waits behind those that do.
LEMMA AckBuffered ==
  ASSUME ConnInv, Buffered, NEW len \in Nat, ack(len)
  PROVE  Buffered'
<1>1. /\ ackReceived + len \in Nat /\ acked \in Nat /\ told \in Nat /\ told <= acked
      /\ BufferRoom \in Nat \ {0} /\ unflushed \in 0..BufferRoom
  BY ChunkAssumption DEF ConnInv, Buffered
<1>2. CASE WriteAck(ackReceived + len)
  <2>1. acked' = acked + (ackReceived + len) /\ acked <= acked'
    BY <1>1, <1>2 DEF WriteAck
  <2>2. \/ unflushed < BufferRoom /\ unflushed' = unflushed + 1 /\ told' = told
        \/ unflushed' = 1 /\ told' = acked
    BY <1>2 DEF WriteAck
  <2> QED
    BY <1>1, <2>1, <2>2 DEF Buffered
<1>3. CASE UNCHANGED <<acked, told, unflushed>>
  BY <1>3 DEF Buffered
<1> QED
  BY <1>2, <1>3 DEF ack

\* The message that r returns is that of d, in the region of c.
Tells(d, c, r) ==
  /\ r \in Returned
  /\ r.ch = d.m.ch /\ r.TypeID = d.m.type /\ r.Length = d.m.len /\ r.Timestamp = d.m.ts
  /\ r.Data = c.Data

LEMMA Result ==
  ASSUME ConnInv, NEW s, NEW d, NEW t, NEW c, NEW done, NEW buffers,
         Takes(s, d, t, c, done, buffers), Returns(d, done)
  PROVE  \E r : /\ Tells(d, c, r)
                /\ IF done.got /\ ~failed' THEN delivered' = Append(delivered, r)
                   ELSE delivered' = delivered
<1>1. /\ done \in ChunkStreams /\ done.Timestamp = d.m.ts /\ done.Length = d.m.len
      /\ done.TypeID = d.m.type /\ done.Data = c.Data
  BY DEF Takes, Advanced
<1>2. d.m.ch \in Channels
  BY Share DEF Takes
<1>3. PICK r : r = [ch |-> d.m.ch, TypeID |-> done.TypeID, Length |-> done.Length,
                    Timestamp |-> done.Timestamp, Data |-> done.Data]
  OBVIOUS
<1>4. Tells(d, c, r)
  BY <1>1, <1>2, <1>3 DEF Tells, Returned, ChunkStreams
<1>5. IF done.got /\ ~failed' THEN delivered' = Append(delivered, r) ELSE delivered' = delivered
  BY <1>3 DEF Returns
<1> QED
  BY <1>4, <1>5

\* Read has taken the chunk d of a state where the invariant holds, and r is what
\* it returns if d ends a message.
Done(s, d, t, c, done, buffers, r) ==
  /\ PeerInv /\ ConnInv /\ MemInv /\ Faithful /\ PayloadKept /\ Counted /\ ~failed
  /\ Takes(s, d, t, c, done, buffers)
  /\ Returns(d, done)
  /\ Tells(d, c, r)
  /\ IF done.got /\ ~failed' THEN delivered' = Append(delivered, r)
     ELSE delivered' = delivered

\* What follows at once.
LEMMA Effects ==
  ASSUME NEW s, NEW d, NEW t, NEW c, NEW done, NEW buffers, NEW r,
         Done(s, d, t, c, done, buffers, r)
  PROVE  /\ d.m.ch \in Channels
         /\ done \in ChunkStreams /\ done.Length = d.m.len /\ done.Data = c.Data
         /\ c.Data \in Regions /\ d.m.len \in Nat
         /\ done.index + done.remain = done.Length
         /\ done.got => done.remain = 0
         /\ ~done.got => done.remain > 0
         /\ chunks' = [chunks EXCEPT ![d.m.ch] = done]
         /\ chunks'[d.m.ch] = done
         /\ \A ch \in Channels \ {d.m.ch} : chunks'[ch] = chunks[ch]
         /\ Keeps(d, c)
         /\ delivered \in Seq(Returned) /\ delivered' \in Seq(Returned)
         /\ done.got /\ ~failed' => /\ Len(delivered') = Len(delivered) + 1
                                    /\ delivered'[Len(delivered) + 1] = r
         /\ ~(done.got /\ ~failed') => delivered' = delivered
         /\ \A k \in 1..Len(delivered) : delivered'[k] = delivered[k]
         /\ Len(delivered) \in Nat
<1> USE DEF Done
<1>1. /\ d.m.ch \in Channels /\ d.from \in Nat /\ d.count \in Nat /\ d.m.len \in Nat
      /\ d.from + d.count <= d.m.len
  BY Share DEF Takes
<1>2. /\ done \in ChunkStreams /\ done.Length = d.m.len /\ done.Data = c.Data
      /\ done.index = d.from + d.count /\ done.remain = d.m.len - (d.from + d.count)
      /\ done.got <=> d.from + d.count = d.m.len
  BY DEF Takes, Advanced
<1>3. /\ done.index + done.remain = done.Length
      /\ done.got => done.remain = 0
      /\ ~done.got => done.remain > 0
  <2>1. PICK n, len : n = d.from + d.count /\ len = d.m.len
    OBVIOUS
  <2>2. n \in Nat /\ len \in Nat /\ n <= len
    BY <1>1, <2>1
  <2>3. done.index = n /\ done.remain = len - n /\ done.Length = len /\ (done.got <=> n = len)
    BY <1>2, <2>1
  <2>4. n + (len - n) = len /\ (n = len => len - n = 0) /\ (n # len => len - n > 0)
    BY <2>2
  <2> HIDE DEF Done
  <2> QED
    BY <2>3, <2>4, Zenon
<1>4. chunks' = [chunks EXCEPT ![d.m.ch] = done]
  BY DEF Takes
<1>5. /\ chunks'[d.m.ch] = done
      /\ \A ch \in Channels \ {d.m.ch} : chunks'[ch] = chunks[ch]
  BY <1>1, <1>4 DEF ConnInv
<1>6. Keeps(d, c)
  BY TakesKeeps
<1>7. delivered \in Seq(Returned) /\ Len(delivered) \in Nat /\ r \in Returned
  BY DEF ConnInv, Tells
<1>8. /\ delivered' \in Seq(Returned)
      /\ done.got /\ ~failed' => /\ Len(delivered') = Len(delivered) + 1
                                 /\ delivered'[Len(delivered) + 1] = r
      /\ ~(done.got /\ ~failed') => delivered' = delivered
      /\ \A k \in 1..Len(delivered) : delivered'[k] = delivered[k]
  <2>1. CASE done.got /\ ~failed'
    <3>1. delivered' = Append(delivered, r)
      BY <2>1
    <3> QED
      BY <1>7, <2>1, <3>1
  <2>2. CASE ~(done.got /\ ~failed')
    <3>1. delivered' = delivered
      BY <2>2
    <3> QED
      BY <1>7, <2>2, <3>1
  <2> QED
    BY <2>1, <2>2
<1>9. c.Data \in Regions
  BY <1>2 DEF ChunkStreams
<1> QED
  BY <1>1, <1>2, <1>3, <1>4, <1>5, <1>6, <1>7, <1>8, <1>9

\* What failed and the counters are after it.
LEMMA Outcome ==
  ASSUME NEW s, NEW d, NEW t, NEW c, NEW done, NEW buffers, NEW r,
         Done(s, d, t, c, done, buffers, r)
  PROVE  /\ failed' \in BOOLEAN /\ (failed' => cut)
         /\ ackReceived' \in Nat /\ acked' \in Nat
         /\ remoteChunkSize' = IF d.m.type = "chunksize" THEN d.m.value ELSE remoteChunkSize
         /\ remoteChunkSize' \in Nat \ {0}
         /\ remoteWindowAckSize' \in Nat \ {0}
         /\ ~failed' =>
              /\ ackReceived' < remoteWindowAckSize'
              /\ done.got => acked' + ackReceived' = (acked + ackReceived) + d.m.len
              /\ ~done.got => acked' = acked /\ ackReceived' = ackReceived
<1> USE DEF Done
<1>1. /\ remoteChunkSize' = IF d.m.type = "chunksize" THEN d.m.value ELSE remoteChunkSize
      /\ remoteChunkSize' \in Nat \ {0}
      /\ remoteWindowAckSize' \in Nat \ {0}
  BY Controls
<1>2. /\ ackReceived \in Nat /\ acked \in Nat /\ failed \in BOOLEAN
      /\ ackReceived < remoteWindowAckSize
  BY DEF ConnInv, Counted
<1>3. CASE done.got
  <2>1. ack(d.m.len) /\ d.m.len \in Nat
    <3>1. done.Length = d.m.len /\ d.m.len \in Nat
      BY Effects
    <3> QED
      BY <1>3, <3>1 DEF Returns
  <2>2. /\ ackReceived' \in Nat /\ acked' \in Nat /\ failed' \in BOOLEAN
        /\ failed' => cut
        /\ ~failed' => /\ ackReceived' < remoteWindowAckSize' \/ ackReceived' = 0
                       /\ acked' + ackReceived' = (acked + ackReceived) + d.m.len
    <3>1. remoteWindowAckSize' \in Nat
      BY <1>1
    <3>2. ConnInv /\ ~failed
      OBVIOUS
    <3> HIDE DEF Done
    <3> QED
      BY <2>1, <3>1, <3>2, Acknowledges
  <2>3. ackReceived' = 0 => ackReceived' < remoteWindowAckSize'
    BY <1>1
  <2> QED
    BY <1>1, <1>3, <2>2, <2>3
<1>4. CASE ~done.got
  <2>1. UNCHANGED <<remoteWindowAckSize, ackReceived, acked, failed>>
    BY <1>4 DEF Returns
  <2> QED
    BY <1>1, <1>2, <1>4, <2>1
<1> QED
  BY <1>3, <1>4

LEMMA ReadConnInv ==
  ASSUME NEW s, NEW d, NEW t, NEW c, NEW done, NEW buffers, NEW r,
         Done(s, d, t, c, done, buffers, r)
  PROVE  ConnInv'
<1>1. wire' \in Seq(Tokens)
  <2>1. /\ wire \in Seq(Tokens) /\ Width(d) \in Nat
        /\ wire' = SubSeq(wire, Width(d) + 1, Len(wire))
    <3>1. d \in ChunkSet
      BY DEF Done, Takes, Reads
    <3> QED
      BY <3>1, WidthType DEF Done, Takes, ConnInv
  <2> QED
    BY <2>1
<1>2. chunks' \in [Channels -> ChunkStreams]
  <2>1. chunks \in [Channels -> ChunkStreams]
    BY DEF Done, ConnInv
  <2>2. chunks' = [chunks EXCEPT ![d.m.ch] = done] /\ done \in ChunkStreams
    BY Effects
  <2> QED
    BY <2>1, <2>2
<1>3. ASSUME NEW ch \in Channels
      PROVE  /\ chunks'[ch].index + chunks'[ch].remain = chunks'[ch].Length
             /\ chunks'[ch].got => chunks'[ch].remain = 0
  <2>1. CASE ch = d.m.ch
    BY <2>1, Effects
  <2>2. CASE ch # d.m.ch
    <3>1. chunks'[ch] = chunks[ch]
      BY <2>2, Effects
    <3> QED
      BY <3>1 DEF Done, ConnInv
  <2> QED
    BY <2>1, <2>2
<1>4. cut' \in BOOLEAN
  BY DEF Done, Takes, ConnInv
<1>5. /\ failed' \in BOOLEAN /\ ackReceived' \in Nat /\ acked' \in Nat
      /\ remoteChunkSize' \in Nat \ {0}
      /\ remoteWindowAckSize' \in Nat \ {0}
  BY Outcome
<1>6. delivered' \in Seq(Returned)
  BY Effects
<1> QED
  BY <1>1, <1>2, <1>3, <1>4, <1>5, <1>6 DEF ConnInv

LEMMA ApartBoth ==
  ASSUME NEW data1, NEW n1, NEW data2, NEW n2, Apart(data1, n1, data2, n2)
  PROVE  Apart(data2, n2, data1, n1)
BY DEF Apart

\* The region of the chunk read is apart from the others.
LEMMA Alone ==
  ASSUME NEW s, NEW d, NEW t, NEW c, NEW done, NEW buffers, NEW r,
         Done(s, d, t, c, done, buffers, r)
  PROVE  /\ c.Length = d.m.len
         /\ \A k \in 1..Len(delivered) :
              Apart(c.Data, d.m.len, delivered[k].Data, delivered[k].Length)
         /\ \A ch \in Channels \ {d.m.ch} :
              chunks[ch].remain > 0 =>
                Apart(c.Data, d.m.len, chunks[ch].Data, chunks[ch].Length)
<1>1. PICK top : Fills(d, c, buffers, top)
  BY DEF Done, Takes
<1>2. c.Length = d.m.len
  BY <1>1 DEF Fills, Room
<1> QED
  BY <1>1, <1>2 DEF Fills

\* What Read has returned is where it was, with what is in it.
LEMMA OldKept ==
  ASSUME NEW s, NEW d, NEW t, NEW c, NEW done, NEW buffers, NEW r,
         Done(s, d, t, c, done, buffers, r), NEW k \in 1..Len(delivered)
  PROVE  \E data \in Regions, n \in Nat :
           data = delivered[k].Data /\ n = delivered[k].Length /\ Given(data, n)' /\ Stays(data, n)
<1>1. delivered[k].Data \in Regions /\ delivered[k].Length \in Nat
  <2>1. delivered[k] \in Returned
    BY DEF Done, ConnInv
  <2> QED
    BY <2>1, Constants DEF Returned
<1>2. PICK data, n : data = delivered[k].Data /\ n = delivered[k].Length
  OBVIOUS
<1>3. Given(data, n)
  BY <1>2 DEF Done, MemInv
<1>4. Apart(c.Data, c.Length, data, n)
  BY <1>2, Alone
<1>5. Keeps(d, c)
  BY Effects
<1>6. Given(data, n)' /\ Stays(data, n)
  BY <1>1, <1>2, <1>3, <1>4, <1>5 DEF Keeps
<1> QED
  BY <1>1, <1>2, <1>6

\* The same of the messages that it is still to fill, in other chunk streams.
LEMMA OthersKept ==
  ASSUME NEW s, NEW d, NEW t, NEW c, NEW done, NEW buffers, NEW r,
         Done(s, d, t, c, done, buffers, r), NEW ch \in Channels \ {d.m.ch}
  PROVE  \E data \in Regions, n \in Nat :
           /\ data = chunks[ch].Data /\ n = chunks[ch].Length /\ Given(data, n)'
           /\ chunks[ch].remain > 0 => Stays(data, n)
<1>1. chunks[ch].Data \in Regions /\ chunks[ch].Length \in Nat
  BY Constants DEF Done, ConnInv, ChunkStreams
<1>2. PICK data, n : data = chunks[ch].Data /\ n = chunks[ch].Length
  OBVIOUS
<1>3. Given(data, n)
  BY <1>2 DEF Done, MemInv
<1>4. chunks[ch].remain > 0 => Apart(c.Data, c.Length, data, n)
  BY <1>2, Alone
<1>5. Keeps(d, c)
  BY Effects
<1>6. Given(data, n)' /\ (chunks[ch].remain > 0 => Stays(data, n))
  BY <1>1, <1>2, <1>3, <1>4, <1>5 DEF Keeps
<1> QED
  BY <1>1, <1>2, <1>6

LEMMA ReadMemInv ==
  ASSUME NEW s, NEW d, NEW t, NEW c, NEW done, NEW buffers, NEW r,
         Done(s, d, t, c, done, buffers, r)
  PROVE  MemInv'
<1>1. /\ mem' \in Seq([1..PoolSize -> Unit]) /\ mem' # << >> /\ pos' \in 0..PoolSize
  BY Effects DEF Keeps, Buffers
<1>2. PICK data, n : data = c.Data /\ n = d.m.len /\ Given(data, n)'
  <2>1. PICK data, n : data = c.Data /\ n = c.Length
    OBVIOUS
  <2>2. Given(data, n)'
    BY <2>1, Effects DEF Keeps
  <2> QED
    BY <2>1, <2>2, Alone
<1>3. /\ chunks'[d.m.ch].Data = data /\ chunks'[d.m.ch].Length = n
      /\ r.Data = data /\ r.Length = n
      /\ \A ch \in Channels \ {d.m.ch} : chunks'[ch] = chunks[ch]
  <2>1. r.Data = c.Data /\ r.Length = d.m.len
    BY DEF Done, Tells
  <2> QED
    BY <1>2, <2>1, Effects
<1>4. ASSUME NEW ch \in Channels
      PROVE  Given(chunks[ch].Data, chunks[ch].Length)'
  <2>1. CASE ch = d.m.ch
    BY <1>2, <1>3, <2>1 DEF Given
  <2>2. CASE ch # d.m.ch
    <3>1. PICK area, m : area = chunks[ch].Data /\ m = chunks[ch].Length /\ Given(area, m)'
      BY <2>2, OthersKept
    <3> QED
      BY <1>3, <2>2, <3>1 DEF Given
  <2> QED
    BY <2>1, <2>2
<1>5. \A k \in 1..Len(delivered') :
        \/ k \in 1..Len(delivered) /\ delivered'[k] = delivered[k]
        \/ delivered'[k] = r /\ done.got
  <2>1. /\ Len(delivered) \in Nat
        /\ done.got /\ ~failed' => /\ Len(delivered') = Len(delivered) + 1
                                   /\ delivered'[Len(delivered) + 1] = r
        /\ ~(done.got /\ ~failed') => delivered' = delivered
        /\ \A k \in 1..Len(delivered) : delivered'[k] = delivered[k]
    BY Effects
  <2>2. CASE done.got /\ ~failed'
    BY <2>1, <2>2
  <2>3. CASE ~(done.got /\ ~failed')
    BY <2>1, <2>3
  <2> QED
    BY <2>2, <2>3
<1>6. ASSUME NEW k \in 1..Len(delivered')
      PROVE  Given(delivered[k].Data, delivered[k].Length)'
  <2>1. CASE delivered'[k] = r
    BY <1>2, <1>3, <2>1 DEF Given
  <2>2. CASE k \in 1..Len(delivered) /\ delivered'[k] = delivered[k]
    <3>1. PICK area, m : area = delivered[k].Data /\ m = delivered[k].Length /\ Given(area, m)'
      BY <2>2, OldKept
    <3> QED
      BY <2>2, <3>1 DEF Given
  <2> QED
    BY <1>5, <2>1, <2>2
<1>7. /\ \A k \in 1..Len(delivered) : Apart(data, n, delivered[k].Data, delivered[k].Length)
      /\ \A ch \in Channels \ {d.m.ch} :
           chunks[ch].remain > 0 => Apart(data, n, chunks[ch].Data, chunks[ch].Length)
  BY <1>2, Alone
<1>8. done.got => chunks'[d.m.ch].remain = 0
  BY Effects
<1>9. ASSUME NEW ch \in Channels, NEW k \in 1..Len(delivered'), chunks'[ch].remain > 0
      PROVE  Apart(chunks'[ch].Data, chunks'[ch].Length, delivered'[k].Data, delivered'[k].Length)
  <2>1. CASE ch = d.m.ch
    <3>1. k \in 1..Len(delivered) /\ delivered'[k] = delivered[k]
      BY <1>5, <1>8, <1>9, <2>1
    <3> QED
      BY <1>3, <1>7, <2>1, <3>1
  <2>2. CASE ch # d.m.ch
    <3>1. chunks'[ch] = chunks[ch] /\ chunks[ch].remain > 0
      BY <1>3, <1>9, <2>2
    <3>2. CASE k \in 1..Len(delivered) /\ delivered'[k] = delivered[k]
      BY <3>1, <3>2 DEF Done, MemInv
    <3>3. CASE delivered'[k] = r
      BY <1>3, <1>7, <2>2, <3>1, <3>3, ApartBoth
    <3> QED
      BY <1>5, <3>2, <3>3
  <2> QED
    BY <2>1, <2>2
<1>10. ASSUME NEW ch \in Channels, NEW other \in Channels, ch # other,
              chunks'[ch].remain > 0, chunks'[other].remain > 0
       PROVE  Apart(chunks'[ch].Data, chunks'[ch].Length,
                    chunks'[other].Data, chunks'[other].Length)
  <2>1. CASE ch = d.m.ch
    BY <1>3, <1>7, <1>10, <2>1
  <2>2. CASE other = d.m.ch
    BY <1>3, <1>7, <1>10, <2>2, ApartBoth
  <2>3. CASE ch # d.m.ch /\ other # d.m.ch
    BY <1>3, <1>10, <2>3 DEF Done, MemInv
  <2> QED
    BY <2>1, <2>2, <2>3
<1> QED
  BY <1>1, <1>4, <1>6, <1>9, <1>10 DEF MemInv, Apart

\* Whether d ends its message, for the peer and for Read.
LEMMA BothEnd ==
  ASSUME NEW s, NEW d, NEW t, NEW c, NEW done, NEW buffers, NEW r,
         Done(s, d, t, c, done, buffers, r)
  PROVE  /\ Len(delivered) = s.ended
         /\ d.msg \in 1..Len(sent) /\ sent[d.msg] = d.m
         /\ ~done.got => t.ended = s.ended
         /\ done.got => /\ t.ended = s.ended + 1
                        /\ t.ended <= Len(complete)
                        /\ complete[t.ended] = d.msg
<1>1. Step(s, d, t) /\ InStep(s)
  BY DEF Done, Takes, Reads
<1>2. done.got <=> d.from + d.count = d.m.len
  BY DEF Done, Takes, Advanced
<1>3. Len(delivered) = s.ended
  BY <1>1 DEF InStep
<1> QED
  BY <1>1, <1>2, <1>3 DEF Step, Known

LEMMA ReadInStep ==
  ASSUME NEW s, NEW d, NEW t, NEW c, NEW done, NEW buffers, NEW r,
         Done(s, d, t, c, done, buffers, r), ~failed'
  PROVE  InStep(t)'
<1>1. Step(s, d, t) /\ InStep(s) /\ d \in ChunkSet /\ s \in Snapshots
  BY DEF Done, Takes, Reads
<1>2. remoteChunkSize' = t.size
  <2>1. remoteChunkSize = s.size
    BY <1>1 DEF InStep
  <2>2. t.size = IF d.m.type = "chunksize" THEN d.m.value ELSE s.size
    BY <1>1 DEF Step
  <2> QED
    BY <2>1, <2>2, Outcome
<1>3. Len(delivered') = t.ended
  <2>1. /\ done.got => Len(delivered') = Len(delivered) + 1
        /\ ~done.got => delivered' = delivered
    BY Effects
  <2> QED
    BY <2>1, BothEnd
<1>4. ASSUME NEW ch \in Channels
      PROVE  /\ Follows(chunks'[ch], t.cur[ch])
             /\ chunks'[ch].remain > 0 =>
                  \A i \in 1..t.cur[ch].done :
                    mem'[chunks'[ch].Data[1]][chunks'[ch].Data[2] + i] = <<t.cur[ch].msg, i>>
  <2>1. CASE ch = d.m.ch
    <3>1. /\ t.cur[ch].msg = d.msg /\ t.cur[ch].m = d.m /\ t.cur[ch].done = d.from + d.count
      BY <1>1, <2>1 DEF Step
    <3>2. d.msg # 0
      BY <1>1 DEF ChunkSet
    <3>3. Advanced(c, d, t.cur[ch], done) /\ chunks'[ch] = done
      <4>1. Advanced(c, d, t.cur[d.m.ch], done)
        BY DEF Done, Takes
      <4>2. chunks'[d.m.ch] = done
        BY Effects
      <4> QED
        BY <2>1, <4>1, <4>2
    <3>4. Follows(done, t.cur[ch])
      BY <3>1, <3>2, <3>3 DEF Follows, Advanced
    <3>5. \A i \in 1..(d.from + d.count) : mem'[c.Data[1]][c.Data[2] + i] = <<d.msg, i>>
      BY Effects DEF Keeps, Holds
    <3>6. done.Data = c.Data
      BY Effects
    <3> QED
      BY <3>1, <3>3, <3>4, <3>5, <3>6
  <2>2. CASE ch # d.m.ch
    <3>1. t.cur[ch] = s.cur[ch]
      BY <1>1, <2>2 DEF Step
    <3>2. chunks'[ch] = chunks[ch]
      BY <2>2, Effects
    <3>3. /\ Follows(chunks[ch], s.cur[ch])
          /\ chunks[ch].remain > 0 => Holds(chunks[ch].Data, s.cur[ch].msg, s.cur[ch].done)
      BY <1>1 DEF InStep
    <3>4. ASSUME chunks[ch].remain > 0, NEW i \in 1..s.cur[ch].done
          PROVE  mem'[chunks[ch].Data[1]][chunks[ch].Data[2] + i] = <<s.cur[ch].msg, i>>
      <4>1. PICK data, n : data = chunks[ch].Data /\ n = chunks[ch].Length /\ Stays(data, n)
        BY <2>2, <3>4, OthersKept
      <4>2. s.cur[ch].msg # 0 /\ s.cur[ch].done = chunks[ch].index
        BY <3>3, <3>4 DEF Follows
      <4>3. i \in 1..n
        <5>1. /\ chunks[ch].index \in Nat /\ chunks[ch].remain \in Nat /\ n \in Nat
              /\ chunks[ch].index + chunks[ch].remain = n
          BY <4>1, Constants DEF Done, ConnInv, ChunkStreams
        <5> QED
          BY <4>2, <5>1
      <4>4. mem[data[1]][data[2] + i] = <<s.cur[ch].msg, i>>
        BY <3>3, <3>4, <4>1 DEF Holds
      <4> QED
        BY <4>1, <4>3, <4>4 DEF Stays
    <3> QED
      BY <3>1, <3>2, <3>3, <3>4
  <2> QED
    BY <2>1, <2>2
<1> QED
  BY <1>2, <1>3, <1>4 DEF InStep, Holds, Follows

LEMMA ReadFaithful ==
  ASSUME NEW s, NEW d, NEW t, NEW c, NEW done, NEW buffers, NEW r,
         Done(s, d, t, c, done, buffers, r)
  PROVE  Faithful' /\ PayloadKept'
<1>1. UNCHANGED <<sent, complete>>
  BY DEF Done, Takes, peer
<1>2. /\ Len(delivered) \in Nat /\ Len(complete) \in Nat /\ Len(delivered) <= Len(complete)
  BY Effects DEF Done, Faithful, PeerInv
<1>3. /\ done.got /\ ~failed' => /\ Len(delivered') = Len(delivered) + 1
                                 /\ delivered'[Len(delivered) + 1] = r
      /\ ~(done.got /\ ~failed') => delivered' = delivered
      /\ \A k \in 1..Len(delivered) : delivered'[k] = delivered[k]
  BY Effects
<1>4. done.got => /\ Len(delivered) + 1 <= Len(complete)
                  /\ complete[Len(delivered) + 1] = d.msg
                  /\ sent[d.msg] = d.m
  BY BothEnd
<1>5. Len(delivered') <= Len(complete)
  BY <1>2, <1>3, <1>4
<1>6. \A k \in 1..Len(delivered') :
        \/ k \in 1..Len(delivered)
        \/ k = Len(delivered) + 1 /\ delivered'[k] = r /\ done.got
  BY <1>2, <1>3
<1>7. /\ r.ch = d.m.ch /\ r.TypeID = d.m.type /\ r.Length = d.m.len /\ r.Timestamp = d.m.ts
      /\ r.Data = c.Data
  BY DEF Done, Tells
<1>8. ASSUME NEW k \in 1..Len(delivered')
      PROVE  LET e == delivered'[k]
                 m == sent[complete[k]]
             IN  <<e.ch, e.TypeID, e.Length, e.Timestamp>> = <<m.ch, m.type, m.len, m.ts>>
  <2>1. CASE k \in 1..Len(delivered)
    BY <1>3, <2>1 DEF Done, Faithful
  <2>2. CASE k = Len(delivered) + 1 /\ delivered'[k] = r /\ done.got
    <3>1. sent[complete[k]] = d.m
      BY <1>4, <2>2
    <3> QED
      BY <1>7, <2>2, <3>1
  <2> QED
    BY <1>6, <2>1, <2>2
<1>9. ASSUME NEW k \in 1..Len(delivered')
      PROVE  [i \in 1..delivered'[k].Length |->
                mem'[delivered'[k].Data[1]][delivered'[k].Data[2] + i]]
               = [i \in 1..delivered'[k].Length |-> <<complete[k], i>>]
  <2>1. CASE k \in 1..Len(delivered)
    <3>1. PICK data, n : data = delivered[k].Data /\ n = delivered[k].Length /\ Stays(data, n)
      BY <2>1, OldKept
    <3>2. [i \in 1..n |-> mem[data[1]][data[2] + i]] = [i \in 1..n |-> <<complete[k], i>>]
      BY <2>1, <3>1 DEF Done, PayloadKept, Region
    <3>3. [i \in 1..n |-> mem'[data[1]][data[2] + i]] = [i \in 1..n |-> mem[data[1]][data[2] + i]]
      BY <3>1 DEF Stays
    <3>4. delivered'[k].Data = data /\ delivered'[k].Length = n
      BY <1>3, <2>1, <3>1
    <3> QED
      BY <3>2, <3>3, <3>4
  <2>2. CASE k = Len(delivered) + 1 /\ delivered'[k] = r /\ done.got
    <3>1. \A i \in 1..(d.from + d.count) : mem'[c.Data[1]][c.Data[2] + i] = <<d.msg, i>>
      BY Effects DEF Keeps, Holds
    <3>2. d.from + d.count = d.m.len
      BY <2>2 DEF Done, Takes, Advanced
    <3>3. complete[k] = d.msg
      BY <1>4, <2>2
    <3>4. delivered'[k].Data = c.Data /\ delivered'[k].Length = d.m.len
      BY <1>7, <2>2
    <3> QED
      BY <3>1, <3>2, <3>3, <3>4
  <2> QED
    BY <1>6, <2>1, <2>2
<1>10. Faithful'
  BY <1>1, <1>5, <1>8 DEF Faithful
<1>11. PayloadKept'
  BY <1>1, <1>9 DEF PayloadKept, Region
<1> QED
  BY <1>10, <1>11

\* The sums of the messages returned go on with one more.
LEMMA OneMoreSum ==
  ASSUME NEW n \in Nat, NEW f \in [0..n -> Nat], NEW L, Sums(f, L, n),
         L[n + 1].Length \in Nat
  PROVE  \E g \in [0..(n + 1) -> Nat] :
           Sums(g, L, n + 1) /\ g[n + 1] = f[n] + L[n + 1].Length
<1> DEFINE len == L[n + 1].Length
           g == [k \in 0..(n + 1) |-> IF k = n + 1 THEN f[n] + len ELSE f[k]]
<1>1. /\ f[n] \in Nat
      /\ \A k \in 0..n : f[k] \in Nat
      /\ f[0] = 0
      /\ \A k \in 1..n : f[k] = f[k - 1] + L[k].Length
  BY DEF Sums
<1>2. g \in [0..(n + 1) -> Nat] /\ g[0] = 0 /\ g[n + 1] = f[n] + len
  <2> HIDE DEF len
  <2>1. len \in Nat
    BY DEF len
  <2> QED
    BY <1>1, <2>1
<1>3. ASSUME NEW k \in 1..(n + 1)
      PROVE  g[k] = g[k - 1] + L[k].Length
  <2>1. CASE k = n + 1
    <3>1. g[k - 1] = f[n]
      BY <2>1
    <3> QED
      BY <1>2, <2>1, <3>1
  <2>2. CASE k \in 1..n
    <3>1. g[k - 1] = f[k - 1] /\ g[k] = f[k]
      BY <2>2
    <3> QED
      BY <1>1, <2>2, <3>1
  <2> QED
    BY <2>1, <2>2
<1> HIDE DEF g
<1>4. Sums(g, L, n + 1)
  BY <1>2, <1>3 DEF Sums
<1> QED
  BY <1>2, <1>4

LEMMA ReadCounted ==
  ASSUME NEW s, NEW d, NEW t, NEW c, NEW done, NEW buffers, NEW r,
         Done(s, d, t, c, done, buffers, r)
  PROVE  Counted'
<1> SUFFICES ASSUME ~failed'
             PROVE  /\ ackReceived' < remoteWindowAckSize'
                    /\ \E f \in [0..Len(delivered') -> Nat] :
                         Sums(f, delivered', Len(delivered')) /\ acked' + ackReceived' = f[Len(delivered')]
  BY DEF Counted
<1>1. PICK f \in [0..Len(delivered) -> Nat] :
        Sums(f, delivered, Len(delivered)) /\ acked + ackReceived = f[Len(delivered)]
  BY DEF Done, Counted
<1>2. /\ Len(delivered) \in Nat
      /\ done.got => /\ Len(delivered') = Len(delivered) + 1
                     /\ delivered'[Len(delivered) + 1] = r
      /\ ~done.got => delivered' = delivered
      /\ \A k \in 1..Len(delivered) : delivered'[k] = delivered[k]
  BY Effects
<1>3. /\ ackReceived' < remoteWindowAckSize'
      /\ done.got => acked' + ackReceived' = (acked + ackReceived) + d.m.len
      /\ ~done.got => acked' = acked /\ ackReceived' = ackReceived
  BY Outcome
<1>4. CASE done.got
  <2>1. PICK n, len, L : n = Len(delivered) /\ len = d.m.len /\ L = delivered'
    OBVIOUS
  <2>2. n \in Nat /\ len \in Nat /\ f \in [0..n -> Nat]
    BY <1>2, <2>1, Effects
  <2>3. Sums(f, L, n)
    BY <1>1, <1>2, <2>1 DEF Sums
  <2>4. L[n + 1].Length = len
    BY <1>2, <1>4, <2>1 DEF Done, Tells
  <2>5. PICK g \in [0..(n + 1) -> Nat] : Sums(g, L, n + 1) /\ g[n + 1] = f[n] + len
    BY <2>2, <2>3, <2>4, OneMoreSum
  <2>6. Len(L) = n + 1
    BY <1>2, <1>4, <2>1
  <2>7. acked' + ackReceived' = g[Len(L)]
    BY <1>1, <1>3, <1>4, <2>1, <2>5, <2>6
  <2> QED
    BY <1>3, <2>1, <2>5, <2>6, <2>7
<1>5. CASE ~done.got
  BY <1>1, <1>2, <1>3, <1>5
<1> QED
  BY <1>4, <1>5

LEMMA ReadChunkKeeps ==
  ASSUME IInv, ReadChunk
  PROVE  IInv'
<1>1. /\ PeerInv /\ ConnInv /\ MemInv /\ Faithful /\ PayloadKept /\ NeverRefuses
      /\ ~failed /\ Sync /\ Counted
  BY DEF IInv, ReadChunk
<1>2. PICK s, d, t, c, done, buffers :
        /\ Takes(s, d, t, c, done, buffers)
        /\ Returns(d, done)
        /\ Passes(d, t) => Sync'
  BY <1>1, ReadChunkTakes
<1>3. PICK r : /\ Tells(d, c, r)
               /\ IF done.got /\ ~failed' THEN delivered' = Append(delivered, r)
                  ELSE delivered' = delivered
  BY <1>1, <1>2, Result
<1>4. Done(s, d, t, c, done, buffers, r)
  BY <1>1, <1>2, <1>3 DEF Done
<1>5. UNCHANGED <<peer, cut>>
  BY <1>2 DEF Takes
<1>6. PeerInv'
  BY <1>1, <1>5 DEF PeerInv, peer, ViewOK, View, Known, Previous
<1>7. ConnInv' /\ MemInv'
  BY <1>4, ReadConnInv, ReadMemInv
<1>8. Faithful' /\ PayloadKept'
  BY <1>4, ReadFaithful
<1>9. NeverRefuses'
  BY <1>4, <1>5, Outcome DEF NeverRefuses
<1>10. ~failed' => Sync'
  <2>1. ASSUME ~failed'
        PROVE  Sync'
    <3>1. InStep(t)'
      BY <1>4, <2>1, ReadInStep
    <3>2. Passes(d, t)
      BY <1>2, <3>1 DEF Takes, Passes
    <3> QED
      BY <1>2, <3>2
  <2> QED
    BY <2>1
<1>11. Counted'
  BY <1>4, ReadCounted
<1>12. Buffered'
  <2>1. CASE done.got
    <3>1. done.Length \in Nat
      BY <1>4, Effects
    <3>2. ack(done.Length)
      BY <1>2, <2>1 DEF Returns
    <3> QED
      BY <1>1, <3>1, <3>2, AckBuffered DEF IInv
  <2>2. CASE ~done.got
    BY <1>2, <2>2 DEF Returns, IInv, Buffered
  <2> QED
    BY <2>1, <2>2
<1> QED
  BY <1>6, <1>7, <1>8, <1>9, <1>10, <1>11, <1>12 DEF IInv

-----------------------------------------------------------------------------
(* The other steps *)

\* What has been returned stays right while the peer goes on.
LEMMA GrowsKeeps ==
  ASSUME PeerInv, Faithful, PayloadKept, Grows, UNCHANGED conn
  PROVE  Faithful' /\ PayloadKept'
<1>1. UNCHANGED <<delivered, mem>>
  BY DEF conn
<1>2. /\ Len(complete) \in Nat /\ Len(complete') \in Nat /\ Len(complete) <= Len(complete')
      /\ Len(delivered) <= Len(complete)
  BY DEF Grows, Faithful
<1>3. Len(delivered') <= Len(complete')
  <2>1. CASE 1 <= Len(delivered)
    BY <1>1, <1>2 DEF PeerInv
  <2>2. CASE ~(1 <= Len(delivered))
    BY <1>1, <1>2
  <2> QED
    BY <2>1, <2>2
<1>4. ASSUME NEW k \in 1..Len(delivered)
      PROVE  complete'[k] = complete[k] /\ sent'[complete[k]] = sent[complete[k]]
  <2>1. k \in 1..Len(complete)
    BY <1>2
  <2>2. complete[k] \in 1..Len(sent)
    BY <2>1 DEF PeerInv
  <2> QED
    BY <2>1, <2>2 DEF Grows
<1>5. Faithful'
  BY <1>1, <1>3, <1>4 DEF Faithful
<1>6. PayloadKept'
  BY <1>1, <1>4 DEF PayloadKept, Region
<1> QED
  BY <1>5, <1>6

LEMMA SendInv ==
  ASSUME IInv, Send
  PROVE  IInv'
<1>1. UNCHANGED <<cut, conn>>
  BY DEF Send
<1>2. PeerInv' /\ Grows /\ wire' \in Seq(Tokens) /\ (Sync => Sync')
  BY SendKeeps DEF IInv, ConnInv
<1>3. ConnInv' /\ MemInv' /\ NeverRefuses' /\ Counted'
  BY <1>1, <1>2 DEF IInv, conn, ConnInv, MemInv, Given, Apart, NeverRefuses, Counted, Sums
<1>4. Faithful' /\ PayloadKept'
  BY <1>1, <1>2, GrowsKeeps DEF IInv
<1>5. ~failed' => Sync'
  BY <1>1, <1>2 DEF IInv, conn
<1>6. Buffered'
  BY <1>1 DEF IInv, conn, Buffered
<1> QED
  BY <1>2, <1>3, <1>4, <1>5, <1>6 DEF IInv

\* When only the wire and the error are at stake.
LEMMA SameConn ==
  ASSUME IInv, UNCHANGED peer,
         UNCHANGED <<chunks, mem, pos, remoteChunkSize, remoteWindowAckSize, ackReceived, acked,
                     delivered>>,
         wire' \in Seq(Tokens), cut' \in BOOLEAN, failed' \in BOOLEAN, failed => failed'
  PROVE  /\ PeerInv' /\ ConnInv' /\ MemInv' /\ Faithful' /\ PayloadKept' /\ Counted'
         /\ UNCHANGED <<told, unflushed>> => Buffered'
<1>1. PeerInv'
  BY DEF IInv, PeerInv, peer, ViewOK, View, Known, Previous
<1>2. ConnInv'
  BY DEF IInv, ConnInv
<1>3. MemInv'
  BY DEF IInv, MemInv, Given, Apart
<1>4. Faithful' /\ PayloadKept'
  BY DEF IInv, peer, Faithful, PayloadKept, Region
<1>5. Counted'
  BY DEF IInv, Counted, Sums
<1>6. UNCHANGED <<told, unflushed>> => Buffered'
  BY DEF IInv, Buffered
<1> QED
  BY <1>1, <1>2, <1>3, <1>4, <1>5, <1>6

LEMMA BreakInv ==
  ASSUME IInv, Break
  PROVE  IInv'
<1>1. cut' = TRUE /\ UNCHANGED <<peer, conn>>
  BY DEF Break
<1>2. failed' = failed /\ failed \in BOOLEAN
  BY <1>1 DEF conn, IInv, ConnInv
<1>3. wire' \in Seq(Tokens) /\ (Sync => Sync')
  BY BreakKeeps DEF IInv, ConnInv
<1>4. PeerInv' /\ ConnInv' /\ MemInv' /\ Faithful' /\ PayloadKept' /\ Counted' /\ Buffered'
  BY <1>1, <1>2, <1>3, SameConn DEF conn
<1>5. NeverRefuses'
  BY <1>1 DEF NeverRefuses
<1>6. ~failed' => Sync'
  BY <1>2, <1>3 DEF IInv
<1> QED
  BY <1>4, <1>5, <1>6 DEF IInv

LEMMA ReadErrorInv ==
  ASSUME IInv, ReadError
  PROVE  IInv'
<1>1. /\ ~failed /\ failed' = TRUE
      /\ Refused \/ cut
      /\ UNCHANGED <<peer, wire, cut, chunks, mem, pos, remoteChunkSize, remoteWindowAckSize,
                     ackReceived, acked, told, unflushed, delivered>>
  BY DEF ReadError
<1>2. ~Refused
  BY <1>1, NotRefused DEF IInv
<1>3. NeverRefuses'
  BY <1>1, <1>2 DEF NeverRefuses
<1>4. wire' \in Seq(Tokens) /\ cut' \in BOOLEAN /\ failed' \in BOOLEAN
  BY <1>1 DEF IInv, ConnInv
<1>5. PeerInv' /\ ConnInv' /\ MemInv' /\ Faithful' /\ PayloadKept' /\ Counted' /\ Buffered'
  BY <1>1, <1>4, SameConn
<1> QED
  BY <1>1, <1>3, <1>5 DEF IInv

LEMMA StutterInv ==
  ASSUME IInv, UNCHANGED vars
  PROVE  IInv'
<1>1. UNCHANGED <<peer, wire, cut, conn>> /\ Snapshot' = Snapshot
  BY DEF vars, peer, Snapshot, View
<1>2. wire' \in Seq(Tokens) /\ cut' \in BOOLEAN /\ failed' \in BOOLEAN /\ failed' = failed
  BY <1>1 DEF conn, IInv, ConnInv
<1>3. PeerInv' /\ ConnInv' /\ MemInv' /\ Faithful' /\ PayloadKept' /\ Counted' /\ Buffered'
  BY <1>1, <1>2, SameConn DEF conn
<1>4. NeverRefuses'
  BY <1>1, <1>2 DEF IInv, NeverRefuses
<1>5. Grows
  BY <1>1 DEF IInv, PeerInv, Grows, peer
<1>6. ~failed' => Sync'
  BY <1>1, <1>2, <1>5, SyncStays DEF IInv, conn
<1> QED
  BY <1>3, <1>4, <1>6 DEF IInv

\* Flushing tells the peer of everything.
LEMMA FlushInv ==
  ASSUME IInv, Flush
  PROVE  IInv'
<1>1. /\ told' = acked /\ unflushed' = 0
      /\ UNCHANGED <<peer, wire, cut, chunks, mem, pos, remoteChunkSize, remoteWindowAckSize,
                     ackReceived, acked, delivered, failed>>
      /\ Snapshot' = Snapshot
  BY DEF Flush, peer, Snapshot, View
<1>2. wire' \in Seq(Tokens) /\ cut' \in BOOLEAN /\ failed' \in BOOLEAN
  BY <1>1 DEF IInv, ConnInv
<1>3. PeerInv' /\ ConnInv' /\ MemInv' /\ Faithful' /\ PayloadKept' /\ Counted'
  BY <1>1, <1>2, SameConn
<1>4. NeverRefuses'
  BY <1>1 DEF IInv, NeverRefuses
<1>5. ~failed' => Sync'
  <2>1. Grows
    BY <1>1 DEF IInv, PeerInv, Grows, peer
  <2> QED
    BY <1>1, <2>1, SyncStays DEF IInv
<1>6. Buffered'
  BY <1>1, ChunkAssumption DEF IInv, ConnInv, Buffered
<1> QED
  BY <1>3, <1>4, <1>5, <1>6 DEF IInv

LEMMA InitInv ==
  ASSUME Init
  PROVE  IInv
<1> USE DEF Init
<1>1. /\ PoolSize \in Nat /\ PoolSize >= 1 /\ ChunkSize \in Nat \ {0} /\ WindowAckSize \in Nat \ {0}
      /\ 0 \in Times /\ MaxMessages \in Nat
  BY Constants
<1>2. PeerInv
  <2>1. style \in {"own", "repeats", "omits"}
    BY ChunkAssumption
  <2>2. /\ sent \in Seq(Message) /\ Len(sent) = 0
        /\ complete \in Seq(1..Len(sent))
        /\ size \in Nat \ {0}
        /\ out \in [Channels -> [msg : 0..MaxMessages, done : Nat]]
        /\ last \in [Channels -> [fmt : 0..2, delta : Times, ext : BOOLEAN]]
        /\ Len(sent) <= MaxMessages
    BY <1>1
  <2>3. \A ch \in Channels : out[ch].msg = 0 /\ ViewOK(ch, View(ch))
    BY DEF View, ViewOK
  <2> QED
    BY <2>1, <2>2, <2>3 DEF PeerInv
<1>3. ConnInv
  <2>1. NewChunk \in ChunkStreams
    BY <1>1 DEF NewChunk, ChunkStreams, Regions
  <2>2. \A ch \in Channels : /\ chunks[ch].index + chunks[ch].remain = chunks[ch].Length
                             /\ chunks[ch].got => chunks[ch].remain = 0
    BY DEF NewChunk
  <2>3. /\ wire \in Seq(Tokens) /\ delivered \in Seq(Returned)
        /\ cut \in BOOLEAN /\ failed \in BOOLEAN
        /\ remoteChunkSize \in Nat \ {0} /\ remoteWindowAckSize \in Nat \ {0}
        /\ ackReceived \in Nat /\ acked \in Nat
    <3>1. wire = << >> /\ delivered = << >>
      OBVIOUS
    <3>2. wire \in Seq(Tokens) /\ delivered \in Seq(Returned)
      BY <3>1
    <3> QED
      BY <1>1, <3>2
  <2>4. chunks \in [Channels -> ChunkStreams]
    BY <2>1
  <2> HIDE DEF Init
  <2> QED
    BY <2>2, <2>3, <2>4 DEF ConnInv
<1>4. MemInv
  <2>1. mem \in Seq([1..PoolSize -> Unit]) /\ Len(mem) = 1
    <3>1. Empty \in [1..PoolSize -> Unit]
      BY <1>1 DEF Empty, Unit
    <3> QED
      BY <3>1
  <2>2. ASSUME NEW ch \in Channels
        PROVE  /\ chunks[ch].remain = 0
               /\ Given(chunks[ch].Data, chunks[ch].Length)
    BY <1>1, <2>1 DEF NewChunk, Given
  <2>3. delivered = << >> /\ pos \in 0..PoolSize /\ mem # << >>
    BY <1>1
  <2> QED
    BY <2>1, <2>2, <2>3 DEF MemInv
<1>5. Faithful /\ PayloadKept
  BY DEF Faithful, PayloadKept
<1>6. NeverRefuses
  BY DEF NeverRefuses
<1>7. Sync
  <2>1. PICK s : s = Snapshot
    OBVIOUS
  <2>2. s \in Snapshots /\ SnapshotOK(s)
    BY <1>2, <2>1, SnapshotType
  <2>3. InStep(s)
    <3>1. ASSUME NEW ch \in Channels
          PROVE  Follows(chunks[ch], s.cur[ch]) /\ chunks[ch].remain = 0
      BY <2>1 DEF Follows, Snapshot, View, NewChunk
    <3>2. remoteChunkSize = s.size /\ Len(delivered) = s.ended
      BY <2>1 DEF Snapshot
    <3> QED
      BY <3>1, <3>2 DEF InStep
  <2> DEFINE q == [i \in 0..(0 - 1) |-> 0]
             ps == [i \in 0..0 |-> s]
             off == [i \in 0..0 |-> 0]
  <2>4. /\ q \in [0..(0 - 1) -> ChunkSet] /\ ps \in [0..0 -> Snapshots] /\ off \in [0..0 -> Nat]
        /\ ps[0] = s /\ off[0] = 0
    BY <2>2
  <2>5. Chain(0, 0, q, ps)
    BY <2>2 DEF Chain
  <2>6. Laid(0, 0, q, off)
    BY DEF Laid
  <2> HIDE DEF q, ps, off
  <2>7. InStep(ps[0]) /\ ps[0] = Snapshot /\ 0 <= 0 /\ 0 \in Nat
    BY <2>1, <2>3, <2>4
  <2> QED
    BY <2>4, <2>5, <2>6, <2>7 DEF Sync
<1>8. Counted
  <2> DEFINE f == [k \in 0..0 |-> 0]
  <2>1. f \in [0..Len(delivered) -> Nat] /\ Sums(f, delivered, Len(delivered)) /\ f[Len(delivered)] = 0
    BY DEF Sums
  <2> HIDE DEF f
  <2>2. acked + ackReceived = f[Len(delivered)] /\ ackReceived < remoteWindowAckSize
    BY <1>1, <2>1
  <2> QED
    BY <2>1, <2>2 DEF Counted
<1>9. Buffered
  BY ChunkAssumption DEF Buffered
<1> HIDE DEF Init
<1> QED
  BY <1>2, <1>3, <1>4, <1>5, <1>6, <1>7, <1>8, <1>9 DEF IInv

-----------------------------------------------------------------------------
(* Theorems *)

\* What all the others rest on: Read is in step with what the peer was when it
\* began the chunk that is next on the wire.
THEOREM Inductive == Spec => []IInv
<1>1. Init => IInv
  BY InitInv
<1>2. IInv /\ [Next]_vars => IInv'
  BY SendInv, BreakInv, ReadChunkKeeps, ReadErrorInv, FlushInv, StutterInv DEF Next, Read
<1> QED
  BY <1>1, <1>2, PTL DEF Spec

\* Read's chunk streams, its buffers and the sizes set are what they should be:
\* no message is longer than the rest of the buffer it is given.
THEOREM ChunkTypes == Spec => []TypeOK
<1>1. IInv => TypeOK
  <2> SUFFICES ASSUME IInv
               PROVE  TypeOK
    OBVIOUS
  <2>1. sent \in Seq(Message) /\ Len(sent) <= MaxMessages
    BY DEF IInv, PeerInv
  <2>2. ASSUME NEW ch \in Channels
        PROVE  LET c == chunks[ch] IN
               /\ c.index + c.remain = c.Length /\ (c.got => c.remain = 0)
               /\ c.Timestamp \in 0..(TsMod - 1)
               /\ c.Data[1] \in 1..Len(mem) /\ c.Data[2] + c.Length <= PoolSize
    <3>1. chunks[ch].Timestamp \in 0..(TsMod - 1)
      BY DEF IInv, ConnInv, ChunkStreams, Times
    <3> QED
      BY <3>1 DEF IInv, ConnInv, MemInv, Given
  <2>3. \A b \in 1..Len(mem) : mem[b] \in [1..PoolSize -> Unit]
    BY DEF IInv, MemInv
  <2>4. pos \in 0..PoolSize
    BY DEF IInv, MemInv
  <2>5. {remoteChunkSize, remoteWindowAckSize, size} \subseteq Nat \ {0}
    BY DEF IInv, ConnInv, PeerInv
  <2>6. {cut, failed} \subseteq BOOLEAN
    BY DEF IInv, ConnInv
  <2>7. unflushed \in 0..BufferRoom
    BY DEF IInv, Buffered
  <2> QED
    BY <2>1, <2>2, <2>3, <2>4, <2>5, <2>6, <2>7 DEF TypeOK
<1> QED
  BY <1>1, Inductive, PTL

\* Read returns the peer's messages, in the order in which they end, with the type,
\* length and time that each had, whatever of its headers was sent.
THEOREM ReadFaithfully == Spec => []Faithful
<1>1. IInv => Faithful
  BY DEF IInv
<1> QED
  BY <1>1, Inductive, PTL

\* Their payload is what the peer put in them, and stays so in the buffers of the
\* pool while further messages are read.
THEOREM PayloadStays == Spec => []PayloadKept
<1>1. IInv => PayloadKept
  BY DEF IInv
<1> QED
  BY <1>1, Inductive, PTL

\* readChunk never takes payload for a header, or a header for payload: Read fails
\* on a broken connection only.
THEOREM KeepsItsPlace == Spec => []NeverRefuses
<1>1. IInv => NeverRefuses
  BY DEF IInv
<1> QED
  BY <1>1, Inductive, PTL

\* Two functions that sum up the same agree.
LEMMA SumsUnique ==
  ASSUME NEW n \in Nat, NEW L, NEW f, NEW g, Sums(f, L, n), Sums(g, L, n)
  PROVE  \A k \in 0..n : f[k] = g[k]
<1> DEFINE T == {m \in 0..n : f[m] # g[m]}
<1> SUFFICES ASSUME T # {}
             PROVE  FALSE
  OBVIOUS
<1>1. PICK m \in T : \A k \in T : m <= k
  <2>1. T \subseteq Nat /\ T # {}
    OBVIOUS
  <2> HIDE DEF T
  <2> QED
    BY <2>1, LeastNat
<1>2. m \in 1..n /\ m - 1 \in 0..n /\ m - 1 \notin T
  BY <1>1 DEF Sums
<1> QED
  BY <1>1, <1>2 DEF Sums

\* The recursive function of Total is the only one there is.
LEMMA TotalIs ==
  ASSUME NEW msgs, Len(msgs) \in Nat, NEW f \in [0..Len(msgs) -> Nat],
         Sums(f, msgs, Len(msgs))
  PROVE  Total(msgs) = f[Len(msgs)]
<1> DEFINE Body(sum) ==
             [k \in 0..Len(msgs) |-> IF k = 0 THEN 0 ELSE sum[k - 1] + msgs[k].Length]
           g == CHOOSE sum : sum = Body(sum)
<1>1. f = Body(f)
  BY DEF Sums
<1>2. g = Body(g)
  BY <1>1, Zenon
<1> HIDE DEF g
<1>3. Sums(g, msgs, Len(msgs))
  BY <1>2 DEF Sums
<1>4. g[Len(msgs)] = f[Len(msgs)]
  BY <1>3, SumsUnique
<1>5. Total(msgs) = g[Len(msgs)]
  BY DEF Total, g
<1> QED
  BY <1>4, <1>5

\* ack writes an acknowledgement of all that has arrived, once the window is full,
\* and of nothing twice.  What of that has not been told to the peer, which may be
\* all of it, waits in a buffer that holds BufferRoom of them.
THEOREM AcksAreExact == Spec => []AcksExact
<1>1. IInv => AcksExact
  <2> SUFFICES ASSUME IInv, ~failed
               PROVE  /\ acked + ackReceived = Total(delivered)
                      /\ ackReceived < remoteWindowAckSize
                      /\ told <= acked /\ (told < acked => unflushed \in 1..BufferRoom)
    BY DEF AcksExact
  <2>1. PICK f \in [0..Len(delivered) -> Nat] :
          Sums(f, delivered, Len(delivered)) /\ acked + ackReceived = f[Len(delivered)]
    BY DEF IInv, Counted
  <2>2. Len(delivered) \in Nat
    BY DEF IInv, ConnInv
  <2>3. Total(delivered) = f[Len(delivered)]
    BY <2>1, <2>2, TotalIs
  <2>4. told <= acked /\ (told < acked => unflushed \in 1..BufferRoom)
    BY ChunkAssumption DEF IInv, Buffered
  <2> QED
    BY <2>1, <2>3, <2>4 DEF IInv, Counted
<1> QED
  BY <1>1, Inductive, PTL

\* What the peer has finished, Read has returned once the wire is empty: a message
\* without payload, or one that fills its last chunk, is not held back.
THEOREM NothingWithheld == Spec => []NoneWithheld
<1>1. IInv => NoneWithheld
  <2> SUFFICES ASSUME IInv, wire = << >>, ~cut, ~failed
               PROVE  Len(delivered) = Len(complete)
    BY DEF NoneWithheld
  <2>1. PICK lo \in Nat, hi \in Nat :
          \E q \in [lo..(hi - 1) -> ChunkSet], ps \in [lo..hi -> Snapshots],
             off \in [lo..hi -> Nat] :
            /\ lo <= hi
            /\ InStep(ps[lo])
            /\ ~cut => ps[hi] = Snapshot
            /\ Chain(lo, hi, q, ps)
            /\ Laid(lo, hi, q, off)
    BY DEF IInv, Sync
  <2>2. PICK q \in [lo..(hi - 1) -> ChunkSet], ps \in [lo..hi -> Snapshots],
             off \in [lo..hi -> Nat] :
          /\ lo <= hi
          /\ InStep(ps[lo])
          /\ ps[hi] = Snapshot
          /\ Laid(lo, hi, q, off)
    BY <2>1
  <2>3. lo \in lo..hi /\ hi \in lo..hi /\ off[lo] \in Nat /\ off[hi] \in Nat
    BY <2>2
  <2>4. off[hi] - off[lo] = 0
    BY <2>2 DEF Laid
  <2>5. ~(lo < hi)
    BY <2>2, <2>3, <2>4 DEF Laid
  <2>6. lo = hi
    BY <2>2, <2>5
  <2>7. InStep(Snapshot)
    BY <2>2, <2>6
  <2> QED
    BY <2>7 DEF InStep, Snapshot
<1> QED
  BY <1>1, Inductive, PTL

-----------------------------------------------------------------------------
(* ChunkStream implements Pipe *)

FinishedIs == [k \in 1..Len(complete) |-> Meant(complete[k])]
ReturnedIs == [k \in 1..Len(delivered) |-> Contents(delivered[k])]

LEMMA Listed ==
  ASSUME NEW n \in Nat, NEW f, f = [k \in 1..n |-> f[k]]
  PROVE  /\ f \in Seq({f[k] : k \in 1..n})
         /\ Len(f) = n
<1>1. PICK S : S = {f[k] : k \in 1..n}
  OBVIOUS
<1>2. \A k \in 1..n : f[k] \in S
  BY <1>1
<1>3. f \in [1..n -> S]
  BY <1>2
<1>4. f \in Seq(S)
  BY <1>3, SeqDef
<1>5. Len(f) = n
  BY <1>3
<1> QED
  BY <1>1, <1>4, <1>5

LEMMA OneMoreListed ==
  ASSUME NEW n \in Nat, NEW f, f = [k \in 1..n |-> f[k]],
         NEW g, g = [k \in 1..(n + 1) |-> g[k]], \A k \in 1..n : g[k] = f[k]
  PROVE  g = Append(f, g[n + 1]) /\ f = SubSeq(g, 1, n)
<1>1. PICK S : S = {g[k] : k \in 1..(n + 1)}
  OBVIOUS
<1>2. g \in Seq(S) /\ Len(g) = n + 1
  BY <1>1, Listed
<1>3. f \in Seq(S) /\ Len(f) = n
  <2>1. \A k \in 1..n : k \in 1..(n + 1)
    OBVIOUS
  <2>2. \A k \in 1..n : f[k] \in S
    BY <1>1, <2>1
  <2>3. f \in [1..n -> S]
    BY <2>2
  <2>4. f \in Seq(S)
    BY <2>3, SeqDef
  <2> QED
    BY <2>3, <2>4
<1>4. g[n + 1] \in S
  <2>1. n + 1 \in 1..(n + 1)
    OBVIOUS
  <2> QED
    BY <1>1, <2>1
<1>5. g = Append(f, g[n + 1])
  <2>1. PICK x : x = g[n + 1] /\ x \in S
    BY <1>4
  <2>2. PICK r : r = Append(f, x)
    OBVIOUS
  <2>3. r \in Seq(S) /\ Len(r) = n + 1 /\ r[n + 1] = x /\ \A k \in 1..n : r[k] = f[k]
    BY <1>3, <2>1, <2>2, AppendProperties
  <2>4. \A k \in 1..(n + 1) : r[k] = g[k]
    <3> TAKE k \in 1..(n + 1)
    <3>1. k \in 1..n \/ k = n + 1
      OBVIOUS
    <3> QED
      BY <2>1, <2>3, <3>1
  <2>5. r = g
    BY <1>2, <2>3, <2>4, SeqEqual
  <2> QED
    BY <2>1, <2>2, <2>5
<1>6. f = SubSeq(g, 1, n)
  <2>1. PICK r : r = SubSeq(g, 1, n)
    OBVIOUS
  <2>2. r \in Seq(S) /\ Len(r) = n /\ \A k \in 1..n : r[k] = g[k]
    <3>1. r = [k \in 1..n |-> g[k]]
      BY <1>2, <2>1
    <3>2. \A k \in 1..n : g[k] \in S
      BY <1>2
    <3>3. r \in [1..n -> S]
      BY <3>1, <3>2
    <3>4. r \in Seq(S)
      BY <3>3, SeqDef
    <3> QED
      BY <3>1, <3>3, <3>4
  <2>3. \A k \in 1..n : r[k] = f[k]
    BY <2>2
  <2>4. r = f
    BY <1>3, <2>2, <2>3, SeqEqual
  <2> QED
    BY <2>1, <2>4
<1> QED
  BY <1>5, <1>6

\* What has come out is the beginning of what is finished.
Matches ==
  /\ Len(complete) \in Nat /\ Len(delivered) \in Nat /\ Len(delivered) <= Len(complete)
  /\ FinishedIs = [k \in 1..Len(complete) |-> FinishedIs[k]]
  /\ \A k \in 1..Len(complete) : FinishedIs[k] = Meant(complete[k])
  /\ ReturnedIs = [k \in 1..Len(delivered) |-> ReturnedIs[k]]
  /\ \A k \in 1..Len(delivered) : ReturnedIs[k] = FinishedIs[k]

LEMMA Mapped == IInv => Matches
<1> SUFFICES ASSUME PeerInv, ConnInv, Faithful, PayloadKept
             PROVE  Matches
  BY DEF IInv
<1>1. Len(complete) \in Nat /\ Len(delivered) \in Nat /\ Len(delivered) <= Len(complete)
  BY LenProperties DEF PeerInv, ConnInv, Faithful
<1>2. /\ FinishedIs = [k \in 1..Len(complete) |-> FinishedIs[k]]
      /\ \A k \in 1..Len(complete) : FinishedIs[k] = Meant(complete[k])
      /\ ReturnedIs = [k \in 1..Len(delivered) |-> ReturnedIs[k]]
      /\ \A k \in 1..Len(delivered) : ReturnedIs[k] = Contents(delivered[k])
  BY DEF FinishedIs, ReturnedIs
<1>3. ASSUME NEW k \in 1..Len(delivered)
      PROVE  ReturnedIs[k] = FinishedIs[k]
  <2>1. k \in 1..Len(complete)
    BY <1>1
  <2>2. PICK d, n : d = delivered[k] /\ n = complete[k]
    OBVIOUS
  <2>3. /\ d.ch = sent[n].ch /\ d.TypeID = sent[n].type /\ d.Length = sent[n].len
        /\ d.Timestamp = sent[n].ts
    BY <2>2 DEF Faithful
  <2>4. Region(d.Data, d.Length) = [i \in 1..sent[n].len |-> <<n, i>>]
    BY <2>2, <2>3 DEF PayloadKept
  <2>5. Contents(d) = Meant(n)
    BY <2>3, <2>4 DEF Contents, Meant
  <2> QED
    BY <1>2, <2>1, <2>2, <2>5
<1> QED
  BY <1>1, <1>2, <1>3 DEF Matches

LEMMA SendFinishes ==
  ASSUME IInv, IInv', Send
  PROVE  [Abstract!PipeNext]_(Abstract!pipeVars)
<1>1. UNCHANGED <<cut, conn>> /\ ~cut
  BY DEF Send
<1>2. Grows
  BY SendKeeps DEF IInv, ConnInv
<1>3. ReturnedIs' = ReturnedIs
  BY <1>1 DEF conn, ReturnedIs, Contents, Region
<1>4. complete' = complete \/ \E n : complete' = Append(complete, n)
  BY DEF Send, Write, WriteOn, Begin, Continue, writeChunk, Put
<1>5. /\ Len(complete) \in Nat
      /\ FinishedIs = [k \in 1..Len(complete) |-> FinishedIs[k]]
      /\ \A k \in 1..Len(complete) : FinishedIs[k] = Meant(complete[k])
  BY Mapped DEF Matches
<1>6. /\ FinishedIs' = [k \in 1..Len(complete') |-> FinishedIs'[k]]
      /\ \A k \in 1..Len(complete') : FinishedIs'[k] = Meant(complete[k])'
  BY DEF FinishedIs
<1>7. ASSUME NEW k \in 1..Len(complete)
      PROVE  Meant(complete[k])' = Meant(complete[k])
  <2>1. complete'[k] = complete[k] /\ complete[k] \in 1..Len(sent)
    BY <1>2 DEF Grows, IInv, PeerInv
  <2>2. sent'[complete[k]] = sent[complete[k]]
    BY <1>2, <2>1 DEF Grows
  <2> QED
    BY <2>1, <2>2 DEF Meant
<1>8. Len(complete') = Len(complete) \/ Len(complete') = Len(complete) + 1
  <2>1. complete \in Seq(1..Len(sent))
    BY DEF IInv, PeerInv
  <2>2. ASSUME NEW n, complete' = Append(complete, n)
        PROVE  Len(complete') = Len(complete) + 1
    <3>1. complete \in Seq((1..Len(sent)) \union {n}) /\ n \in (1..Len(sent)) \union {n}
      BY <2>1, SeqMonotonic
    <3> QED
      BY <2>2, <3>1, AppendProperties
  <2> QED
    BY <1>4, <2>2
<1>9. CASE Len(complete') = Len(complete)
  <2>1. \A k \in 1..Len(complete) : FinishedIs'[k] = FinishedIs[k]
    BY <1>5, <1>6, <1>7, <1>9
  <2>2. FinishedIs' = FinishedIs
    BY <1>5, <1>6, <1>9, <2>1
  <2>3. UNCHANGED <<FinishedIs, ReturnedIs, cut, failed>>
    BY <1>1, <1>3, <2>2 DEF conn
  <2> QED
    BY <2>3 DEF Abstract!pipeVars, FinishedIs, ReturnedIs
<1>10. CASE Len(complete') = Len(complete) + 1
  <2>1. \A k \in 1..Len(complete) : k \in 1..Len(complete')
    BY <1>5, <1>10
  <2>2. \A k \in 1..Len(complete) : FinishedIs'[k] = FinishedIs[k]
    BY <1>5, <1>6, <1>7, <2>1
  <2>3. PICK n, f, g : n = Len(complete) /\ f = FinishedIs /\ g = FinishedIs'
    OBVIOUS
  <2>4. /\ n \in Nat /\ f = [k \in 1..n |-> f[k]] /\ g = [k \in 1..(n + 1) |-> g[k]]
        /\ \A k \in 1..n : g[k] = f[k]
    BY <1>5, <1>6, <1>10, <2>2, <2>3
  <2>5. Len(f) = n /\ Len(g) = n + 1 /\ f = SubSeq(g, 1, n)
    <3>1. Len(f) = n
      BY <2>4, Listed
    <3>2. n + 1 \in Nat
      BY <2>4
    <3>3. Len(g) = n + 1
      BY <2>4, <3>2, Listed
    <3>4. f = SubSeq(g, 1, n)
      BY <2>4, OneMoreListed
    <3> QED
      BY <3>1, <3>3, <3>4
  <2>6. Len(FinishedIs') = Len(FinishedIs) + 1 /\ FinishedIs = SubSeq(FinishedIs', 1, Len(FinishedIs))
    BY <2>3, <2>5
  <2>7. Abstract!Finish
    BY <1>1, <1>3, <2>6 DEF Abstract!Finish, conn, FinishedIs, ReturnedIs
  <2> QED
    BY <2>7 DEF Abstract!PipeNext
<1> QED
  BY <1>8, <1>9, <1>10

LEMMA BreakBreaks ==
  ASSUME Break
  PROVE  [Abstract!PipeNext]_(Abstract!pipeVars)
<1>1. ~cut /\ cut' = TRUE /\ UNCHANGED <<peer, conn>>
  BY DEF Break
<1>2. FinishedIs' = FinishedIs /\ ReturnedIs' = ReturnedIs /\ failed' = failed
  BY <1>1 DEF peer, conn, FinishedIs, ReturnedIs, Meant, Contents, Region
<1>3. Abstract!BreakPipe
  BY <1>1, <1>2 DEF Abstract!BreakPipe, FinishedIs, ReturnedIs
<1> QED
  BY <1>3 DEF Abstract!PipeNext

LEMMA ReadReturns ==
  ASSUME IInv, IInv', Read
  PROVE  [Abstract!PipeNext]_(Abstract!pipeVars)
<1>1. /\ ~failed /\ UNCHANGED <<peer, cut>>
      /\ \/ delivered' = delivered
         \/ failed' = failed /\ \E x : delivered' = Append(delivered, x)
  <2>1. CASE ReadError
    BY <2>1 DEF ReadError
  <2>2. CASE ReadChunk
    <3>1. ~failed /\ UNCHANGED <<peer, cut>>
      BY <2>2 DEF ReadChunk
    <3>2. failed' \in BOOLEAN
      BY DEF IInv, ConnInv
    <3>3. delivered' = delivered \/ (~failed' /\ \E x : delivered' = Append(delivered, x))
      BY <2>2 DEF ReadChunk
    <3>4. failed \in BOOLEAN
      BY DEF IInv, ConnInv
    <3> QED
      BY <3>1, <3>2, <3>3, <3>4
  <2> QED
    BY <2>1, <2>2 DEF Read
<1>2. FinishedIs' = FinishedIs /\ complete' = complete
  BY <1>1 DEF peer, FinishedIs, Meant
<1>3. /\ Len(complete) \in Nat /\ Len(delivered) \in Nat
      /\ FinishedIs = [k \in 1..Len(complete) |-> FinishedIs[k]]
      /\ ReturnedIs = [k \in 1..Len(delivered) |-> ReturnedIs[k]]
      /\ \A k \in 1..Len(delivered) : ReturnedIs[k] = FinishedIs[k]
  BY Mapped DEF Matches
<1>4. /\ Len(delivered') \in Nat /\ Len(delivered') <= Len(complete)
      /\ ReturnedIs' = [k \in 1..Len(delivered') |-> ReturnedIs'[k]]
      /\ \A k \in 1..Len(delivered') : ReturnedIs'[k] = FinishedIs[k]
  <2>1. Matches'
    BY Mapped, PTL
  <2>2. /\ Len(delivered') \in Nat /\ Len(delivered') <= Len(complete')
        /\ \A k \in 1..Len(complete') : FinishedIs'[k] = Meant(complete[k])'
        /\ ReturnedIs' = [k \in 1..Len(delivered') |-> ReturnedIs'[k]]
        /\ \A k \in 1..Len(delivered') : ReturnedIs'[k] = FinishedIs'[k]
    BY <2>1 DEF Matches
  <2> QED
    BY <1>2, <2>2
<1>5. CASE Len(delivered') = Len(delivered)
  <2>1. ReturnedIs' = ReturnedIs
    BY <1>3, <1>4, <1>5
  <2>2. CASE failed' = failed
    BY <1>1, <1>2, <2>1, <2>2 DEF Abstract!pipeVars, FinishedIs, ReturnedIs
  <2>3. CASE failed' # failed
    <3>1. failed' = TRUE /\ cut
      <4>1. failed \in BOOLEAN /\ failed' \in BOOLEAN /\ (failed' => cut')
        BY DEF IInv, ConnInv, NeverRefuses
      <4> QED
        BY <1>1, <2>3, <4>1
    <3>2. Abstract!End
      BY <1>1, <1>2, <2>1, <3>1 DEF Abstract!End, FinishedIs, ReturnedIs
    <3> QED
      BY <3>2 DEF Abstract!PipeNext
  <2> QED
    BY <2>2, <2>3
<1>6. CASE Len(delivered') = Len(delivered) + 1 /\ failed' = failed
  <2>1. PICK n, f, g, h : /\ n = Len(delivered) /\ f = ReturnedIs /\ g = ReturnedIs'
                          /\ h = FinishedIs
    OBVIOUS
  <2>2. n \in Nat /\ n < Len(complete) /\ \A k \in 1..n : k \in 1..(n + 1)
    BY <1>3, <1>4, <1>6, <2>1
  <2>3. /\ f = [k \in 1..n |-> f[k]] /\ g = [k \in 1..(n + 1) |-> g[k]]
        /\ \A k \in 1..n : g[k] = f[k]
    BY <1>3, <1>4, <1>6, <2>1, <2>2
  <2>4. g[n + 1] = h[n + 1]
    BY <1>4, <1>6, <2>1, <2>2
  <2>5. g = Append(f, h[n + 1]) /\ Len(f) = n
    <3>1. Len(f) = n
      BY <2>2, <2>3, Listed
    <3>2. g = Append(f, g[n + 1])
      BY <2>2, <2>3, OneMoreListed
    <3> QED
      BY <2>4, <3>1, <3>2
  <2>6. Len(h) = Len(complete)
    BY <1>3, <2>1, Listed
  <2>7. /\ Len(ReturnedIs) < Len(FinishedIs)
        /\ ReturnedIs' = Append(ReturnedIs, FinishedIs[Len(ReturnedIs) + 1])
    BY <2>1, <2>2, <2>5, <2>6
  <2>8. Abstract!Return
    BY <1>1, <1>2, <1>6, <2>7 DEF Abstract!Return, FinishedIs, ReturnedIs
  <2> QED
    BY <2>8 DEF Abstract!PipeNext
<1>7. \/ Len(delivered') = Len(delivered)
      \/ Len(delivered') = Len(delivered) + 1 /\ failed' = failed
  <2>1. delivered \in Seq(Returned)
    BY DEF IInv, ConnInv
  <2>2. ASSUME NEW x, delivered' = Append(delivered, x)
        PROVE  Len(delivered') = Len(delivered) + 1
    <3>1. delivered \in Seq(Returned \union {x}) /\ x \in Returned \union {x}
      BY <2>1, SeqMonotonic
    <3> QED
      BY <2>2, <3>1, AppendProperties
  <2> QED
    BY <1>1, <2>2
<1> QED
  BY <1>5, <1>6, <1>7

\* The chunk layer is a pipe: whatever the sizes, and however the peer cuts and
\* interleaves, what comes out is what was finished, once and in order, and what
\* has come out does not change while further chunks are read.
THEOREM ImplementsPipe == Spec => PipeSpec
<1>1. Init => Abstract!PipeInit
  <2> SUFFICES ASSUME Init
               PROVE  Abstract!PipeInit
    OBVIOUS
  <2>1. Len(complete) = 0 /\ Len(delivered) = 0 /\ cut = FALSE /\ failed = FALSE
    BY DEF Init
  <2>2. 1..Len(complete) = {} /\ 1..Len(delivered) = {}
    BY <2>1
  <2> QED
    BY <2>1, <2>2 DEF Abstract!PipeInit
<1>2. IInv /\ IInv' /\ [Next]_vars => [Abstract!PipeNext]_(Abstract!pipeVars)
  <2> SUFFICES ASSUME IInv, IInv', [Next]_vars
               PROVE  [Abstract!PipeNext]_(Abstract!pipeVars)
    OBVIOUS
  <2>1. CASE Send
    BY <2>1, SendFinishes
  <2>2. CASE Break
    BY <2>2, BreakBreaks
  <2>3. CASE Read
    BY <2>3, ReadReturns
  <2>4. CASE UNCHANGED vars
    BY <2>4 DEF vars, peer, conn, Abstract!pipeVars, Meant, Contents, Region
  <2>5. CASE Flush
    BY <2>5 DEF Flush, peer, Abstract!pipeVars, Meant, Contents, Region
  <2> QED
    BY <2>1, <2>2, <2>3, <2>4, <2>5 DEF Next
<1> QED
  BY <1>1, <1>2, Inductive, PTL DEF Spec, PipeSpec, Abstract!PipeSpec

=============================================================================
