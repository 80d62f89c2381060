------------------------------- MODULE Relay -------------------------------
(***************************************************************************)
(* One stream inside the process: RtmpStream and Stream (stream.go) and the *)
(* packet cache (cache/).  The publisher's goroutine relays its packets to  *)
(* the players attached to the stream, each of which gets the cache first;  *)
(* players attach in goroutines of their own, and CheckAlive removes what   *)
(* is dead every 5 s.  All of them work on sync.Maps without other locks.   *)
(*                                                                          *)
(* Every publisher has a new key (rtmp.go:372), so the streams of two share *)
(* nothing and one key is enough; HandleReader never finds it in use.       *)
(* Under the key there may be the publisher's stream, or one without a      *)
(* reader that the HandleWriter of a player made.  A player's queue is      *)
(* VirWriter: here a Write of an open player succeeds.                      *)
(***************************************************************************)
EXTENDS Integers, Sequences

CONSTANTS Players,     \* the players that ask for the stream
          Published,   \* the publisher's stream
          None,        \* no stream
          MaxPackets,  \* packets published in a behaviour
          GopCap       \* maxGOPCap

ASSUME RelayAssumption ==
  /\ {MaxPackets, GopCap} \subseteq Nat \ {0}
  /\ Published \notin Players /\ None \notin Players \union {Published}

\* The empty stream that a player's HandleWriter makes has the player's name.
Streams == Players \union {Published}

\* "header" is a sequence header or metadata, each kind of which has a
\* SpecialCache of its own; "key" and "frame" are the other video packets.
Kinds == {"header", "key", "frame", "audio"}

VARIABLES
  entry,    \* streams[key], None when the key is not there
  relay,    \* the publisher's goroutines
  conn,     \* the publisher's connection is open
  sent,     \* kinds of the packets TransStart has read
  header,   \* SpecialCache: position in sent, 0 when empty
  gop,      \* GopCache: positions in sent
  player,   \* HandleWriter: "new", "found" a stream or "missed" one, "added" to
            \* the stream found, or "orphan", whose stream was made without it
  at,       \* the stream found
  ws,       \* Stream.ws of the publisher's stream
  stray,    \* players in Stream.ws of the empty stream they found
  init,     \* PackWriterCloser.init
  todo,     \* players TransStart's Range has still to visit
  closed,   \* players whose writer is closed
  got,      \* positions in sent of what the player was sent
  check,    \* the stream CheckAlive is in, None when it waits
  counted,  \* CheckAlive's n is not 0
  unseen    \* players CheckAlive's Range has still to visit

cache == <<sent, header, gop>>
others == <<at, stray>>
checks == <<check, counted, unseen>>
vars == <<entry, relay, conn, cache, player, others, ws, init, todo, closed, got, checks>>

\* The players attached to a stream.
Members(s) == IF s = Published THEN ws ELSE {w \in stray : at[w] = s}

Init ==
  /\ entry = None
  /\ relay = "new"
  /\ conn = TRUE
  /\ sent = << >>
  /\ header = 0
  /\ gop = << >>
  /\ player = [w \in Players |-> "new"]
  /\ at = [w \in Players |-> None]
  /\ ws = {}
  /\ stray = {}
  /\ init = {}
  /\ todo = {}
  /\ closed = {}
  /\ got = [w \in Players |-> << >>]
  /\ check = None
  /\ counted = FALSE
  /\ unseen = {}

-----------------------------------------------------------------------------
(* The publisher *)

\* HandleReader stores the new stream under its key, then AddReader sets its
\* reader and starts the goroutine of TransStart, which sets isStart.
StoreStream ==
  /\ relay = "new"
  /\ entry' = Published
  /\ relay' = "stored"
  /\ UNCHANGED <<conn, cache, player, others, ws, init, todo, closed, got, checks>>

TransStart ==
  /\ relay = "stored"
  /\ relay' = "reading"
  /\ UNCHANGED <<entry, conn, cache, player, others, ws, init, todo, closed, got, checks>>

\* The publisher leaves, or handleConn's teardown closes the connection.
Disconnect ==
  /\ conn
  /\ conn' = FALSE
  /\ UNCHANGED <<entry, relay, cache, player, others, ws, init, todo, closed, got, checks>>

\* GopCache.Write: a key frame starts a new group; nothing is kept before one.
NewGop(id, kind) ==
  CASE kind = "key"   -> <<id>>
    [] kind = "frame" -> IF gop = << >> THEN gop ELSE Append(gop, id)
    [] OTHER          -> gop

\* Mutant: one packet too many.
GopFullLate(kind) == kind = "frame" /\ Len(gop) > GopCap

GopFull(kind) == kind = "frame" /\ Len(gop) >= GopCap

\* One packet is read and put into the cache; a group of more than GopCap
\* packets is an error that ends the stream.
Read ==
  /\ relay = "reading"
  /\ conn
  /\ Len(sent) < MaxPackets
  /\ \E k \in Kinds :
       LET id == Len(sent) + 1 IN
       /\ sent' = Append(sent, k)
       /\ header' = IF k = "header" THEN id ELSE header
       /\ IF GopFull(k)
          THEN relay' = "closing" /\ UNCHANGED gop
          ELSE relay' = "sending" /\ gop' = NewGop(id, k)
  /\ todo' = ws
  /\ UNCHANGED <<entry, conn, player, others, ws, init, closed, got, checks>>

ReadFails ==
  /\ relay = "reading"
  /\ ~conn
  /\ relay' = "closing"
  /\ todo' = ws
  /\ UNCHANGED <<entry, conn, cache, player, others, ws, init, closed, got, checks>>

\* Mutant: the group of pictures is not sent.
CachedHeaders == IF header = 0 THEN << >> ELSE <<header>>

\* Mutant: the group of pictures is sent first.
CachedGopFirst == gop \o (IF header = 0 THEN << >> ELSE <<header>>)

\* Cache.Send: headers, then the group of pictures.
Cached == (IF header = 0 THEN << >> ELSE <<header>>) \o gop

\* Mutant: init is not set after the cache was sent.
SendNotInit(w) ==
  /\ got' = [got EXCEPT ![w] = @ \o IF w \in init THEN <<Len(sent)>> ELSE Cached]
  /\ UNCHANGED init

\* A player gets the packet, or the cache when it is new to the stream.
Send(w) ==
  /\ got' = [got EXCEPT ![w] = @ \o IF w \in init THEN <<Len(sent)>> ELSE Cached]
  /\ init' = init \union {w}

\* Range visits a player.  Writing to a closed one fails and it is removed.
Visit(w) ==
  /\ relay = "sending"
  /\ w \in todo \intersect ws
  /\ todo' = todo \ {w}
  /\ IF w \in closed
     THEN ws' = ws \ {w} /\ UNCHANGED <<init, got>>
     ELSE Send(w) /\ UNCHANGED ws
  /\ UNCHANGED <<entry, relay, conn, cache, player, others, closed, checks>>

NextPacket ==
  /\ relay = "sending"
  /\ todo \intersect ws = {}
  /\ relay' = "reading"
  /\ todo' = {}
  /\ UNCHANGED <<entry, conn, cache, player, others, ws, init, closed, got, checks>>

\* closeInter closes the players and removes them; then isStart is unset.
CloseInter(w) ==
  /\ relay = "closing"
  /\ w \in todo \intersect ws
  /\ todo' = todo \ {w}
  /\ ws' = ws \ {w}
  /\ closed' = closed \union {w}
  /\ UNCHANGED <<entry, relay, conn, cache, player, others, init, got, checks>>

TransEnds ==
  /\ relay = "closing"
  /\ todo \intersect ws = {}
  /\ relay' = "ended"
  /\ todo' = {}
  /\ UNCHANGED <<entry, conn, cache, player, others, ws, init, closed, got, checks>>

-----------------------------------------------------------------------------
(* The players *)

\* HandleWriter looks the key up.
Load(w) ==
  /\ player[w] = "new"
  /\ relay # "new"
  /\ player' = [player EXCEPT ![w] = IF entry = None THEN "missed" ELSE "found"]
  /\ at' = [at EXCEPT ![w] = entry]
  /\ UNCHANGED <<entry, relay, conn, cache, ws, stray, init, todo, closed, got, checks>>

\* There was nothing: it stores a new stream, over whatever is there by now, and
\* does not add the player to it.
StoreEmpty(w) ==
  /\ player[w] = "missed"
  /\ player' = [player EXCEPT ![w] = "orphan"]
  /\ entry' = w
  /\ UNCHANGED <<relay, conn, cache, others, ws, init, todo, closed, got, checks>>

\* AddWriter to the stream found, which may have left the table.  A Range that is
\* under way may come across the player or not.
AddWriter(w) ==
  /\ player[w] = "found"
  /\ player' = [player EXCEPT ![w] = "added"]
  /\ IF at[w] = Published
     THEN /\ ws' = ws \union {w}
          /\ todo' \in {todo, IF relay \in {"sending", "closing"} THEN todo \union {w} ELSE todo}
          /\ UNCHANGED stray
     ELSE /\ stray' = stray \union {w}
          /\ UNCHANGED <<ws, todo>>
  /\ unseen' \in {unseen, IF check = at[w] THEN unseen \union {w} ELSE unseen}
  /\ UNCHANGED <<entry, relay, conn, cache, at, init, closed, got, check, counted>>

\* The player leaves: Check, which runs from before HandleWriter on, or
\* SendPacket marks its writer closed.
Leave(w) ==
  /\ relay # "new"
  /\ w \notin closed
  /\ closed' = closed \union {w}
  /\ UNCHANGED <<entry, relay, conn, cache, player, others, ws, init, todo, got, checks>>

-----------------------------------------------------------------------------
(* CheckAlive, which begins anew every 5 s *)

\* Mutant: isStart is not unset when the stream ends.
IsStartForever == relay \in {"reading", "sending", "closing", "ended"}

IsStart == relay \in {"reading", "sending", "closing"}

\* The reader counts while it is alive; it is closed when it has not read for
\* 10 s (writeTimeout).
CheckReader ==
  /\ check = None
  /\ entry # None
  /\ check' = entry
  /\ unseen' = Members(entry)
  /\ \/ counted' = (entry = Published /\ IsStart) /\ UNCHANGED conn
     \/ entry = Published /\ IsStart /\ counted' = FALSE /\ conn' = FALSE
  /\ UNCHANGED <<entry, relay, cache, player, others, ws, init, todo, closed, got>>

\* Something was sent to the player in the last 10 s, or it is new.
CheckAlivePlayer(w) ==
  /\ check # None
  /\ w \in unseen \intersect Members(check)
  /\ unseen' = unseen \ {w}
  /\ counted' = TRUE
  /\ UNCHANGED <<entry, relay, conn, cache, player, others, ws, init, todo, closed, got, check>>

\* Nothing was: it is removed and closed.
CheckDeadPlayer(w) ==
  /\ check # None
  /\ w \in unseen \intersect Members(check)
  /\ unseen' = unseen \ {w}
  /\ IF check = Published
     THEN ws' = ws \ {w} /\ UNCHANGED stray
     ELSE stray' = stray \ {w} /\ UNCHANGED ws
  /\ closed' = closed \union {w}
  /\ UNCHANGED <<entry, relay, conn, cache, player, at, init, todo, got, check, counted>>

\* Nothing in the stream counted: what the key leads to is deleted.
CheckEnds ==
  /\ check # None
  /\ unseen \intersect Members(check) = {}
  /\ check' = None
  /\ counted' = FALSE
  /\ unseen' = {}
  /\ entry' = IF counted THEN entry ELSE None
  /\ UNCHANGED <<relay, conn, cache, player, others, ws, init, todo, closed, got>>

-----------------------------------------------------------------------------

Publish == \/ StoreStream \/ TransStart \/ ReadFails \/ NextPacket \/ TransEnds
           \/ \E w \in Players : Visit(w) \/ CloseInter(w)
Check == \/ CheckReader \/ CheckEnds
         \/ \E w \in Players : CheckAlivePlayer(w) \/ CheckDeadPlayer(w)

Next == \/ Publish \/ Read \/ Disconnect \/ Check
        \/ \E w \in Players : Load(w) \/ StoreEmpty(w) \/ AddWriter(w) \/ Leave(w)

SafeSpec == Init /\ [][Next]_vars

\* The goroutines run.  Nothing is sent to a player once the stream has ended,
\* and never from an empty one, so after 10 s every check finds it dead.
Fairness == /\ WF_vars(Publish)
            /\ WF_vars(Check)
            /\ \A w \in Players :
                 /\ WF_vars(StoreEmpty(w) \/ AddWriter(w))
                 /\ SF_vars((relay = "ended" \/ w \in stray) /\ CheckDeadPlayer(w))

Spec == SafeSpec /\ Fairness

-----------------------------------------------------------------------------
(* Properties *)

\* Every variable has its type.
TypeOK ==
  /\ {entry, check} \subseteq Streams \union {None}
  /\ relay \in {"new", "stored", "reading", "sending", "closing", "ended"}
  /\ {conn, counted} \subseteq BOOLEAN
  /\ sent \in Seq(Kinds) /\ Len(sent) <= MaxPackets
  /\ header \in 0..MaxPackets
  /\ gop \in Seq(1..MaxPackets) /\ Len(gop) <= GopCap
  /\ player \in [Players -> {"new", "found", "missed", "added", "orphan"}]
  /\ at \in [Players -> Streams \union {None}]
  /\ ws \union stray \union init \union todo \union closed \union unseen \subseteq Players
  /\ got \in [Players -> Seq(1..MaxPackets)]

IsVideo(id) == sent[id] \in {"key", "frame"}

\* The video a player is sent has no gap, no repetition and no reordering,
\* from the cached group to the packets relayed after it, whenever it joins.
NoGap ==
  \A w \in Players : \A i, j \in 1..Len(got[w]) :
    i < j /\ IsVideo(got[w][i]) /\ IsVideo(got[w][j]) =>
      /\ got[w][i] < got[w][j]
      /\ \A id \in got[w][i]..got[w][j] :
           IsVideo(id) => \E k \in i..j : got[w][k] = id

\* It begins with a key frame if the stream had one when the player joined.
BeginsWithKey ==
  \A w \in Players : \A i \in 1..Len(got[w]) :
    IsVideo(got[w][i]) /\ (\A j \in 1..(i - 1) : ~IsVideo(got[w][j])) =>
      \/ sent[got[w][i]] = "key"
      \/ \A id \in 1..got[w][i] : sent[id] # "key"

\* Every video packet reaches the player after the last header published before
\* it, or, from the cache, after a newer one: whatever the player decodes, it has
\* a header, and of relayed packets the right one.
HeaderFirst ==
  \A w \in Players : \A i \in 1..Len(got[w]) :
    IsVideo(got[w][i]) =>
      \A h \in 1..got[w][i] :
        sent[h] = "header" =>
          \E j \in 1..(i - 1) : got[w][j] >= h /\ sent[got[w][j]] = "header"

\* A stream that has ended leaves the table, although its players, who keep it
\* there, are closed or time out in any order, and others still join.
EntryRemoved == relay = "ended" ~> entry # Published

\* "Alive from RWBaser, check last frame now - timestamp, if > timeout then
\* Remove it" (stream.go:223): a player who asked for a stream that was no longer
\* there, and to whom nothing is ever sent, is removed and closed.
SilentPlayerClosed == \A w \in Players : player[w] = "orphan" ~> w \in closed

=============================================================================
