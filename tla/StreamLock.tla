----------------------------- MODULE StreamLock -----------------------------
(***************************************************************************)
(* How one user gets one recording: the publisher's authorisation callback *)
(* in rtmp.go, the goroutines it starts, and the Redis client it talks to. *)
(*                                                                         *)
(* A session that starts subscribes to its user's channel, publishes       *)
(* "drop <its vodID>" there, and then tries to set the lock                *)
(* "streamer-live:<user>".  Its listener cancels it when another session's *)
(* drop arrives; its keeper renews the lock every 15 s and deletes it when *)
(* the session is cancelled.  Sessions are spread over processes that      *)
(* share nothing but Redis.                                                *)
(*                                                                         *)
(* Redis itself (the key, its expiry, pub/sub fan-out) is external and     *)
(* modelled from how svc/redis/redis.go and rtmp.go use it.                *)
(***************************************************************************)
EXTENDS Integers, FiniteSets

CONSTANTS Sessions,   \* publisher connections; each one has its own vodID
          Users,
          Procs,      \* process instances (a restarted process is another one)
          UserOf,     \* [Sessions -> Users]
          ProcOf,     \* [Sessions -> Procs]
          None,       \* the lock key does not exist
          MaxTries,   \* SetNX attempts (8 in the code)
          LockTTL,    \* expiry of the lock, in keeper periods (30 s / 15 s = 2)
          ChanCap,    \* capacity of redisCh (10 in the code)
          Mortal,     \* the processes that may crash or be shut down
          Timely,     \* TRUE: a keeper reacts within one period
          Flaky       \* TRUE: calls to Redis and MongoDB may fail

ASSUME SessionAssumption == /\ IsFiniteSet(Sessions)
                            /\ UserOf \in [Sessions -> Users]
                            /\ ProcOf \in [Sessions -> Procs]
                            /\ None \notin Sessions
                            /\ Mortal \subseteq Procs
ASSUME BoundAssumption == /\ MaxTries \in Nat \ {0}
                          /\ LockTTL \in Nat \ {0, 1}
                          /\ ChanCap \in Nat \ {0, 1}
ASSUME SwitchAssumption == Timely \in BOOLEAN /\ Flaky \in BOOLEAN

VARIABLES
  pc,         \* where handleConn is
  tries,      \* the loop variable i of the SetNX loop, 0 outside it
  cancelled,  \* the session's ctx is done
  subs,       \* RedisInst.subs: the sessions whose channel is registered
  active,     \* <<process, user>> whose SUBSCRIBE is in force at the server
  wire,       \* drops on their way to a process, named by their vodID
  inbox,      \* contents of a session's redisCh
  listener,   \* the goroutine that ranges over redisCh
  keeper,     \* the goroutine that renews and deletes the lock
  due,        \* the keeper's ticker has fired
  lock,       \* value of streamer-live:<user>
  ttl         \* periods until that key expires

handler == <<pc, tries>>
pubsub  == <<subs, active, wire, inbox, listener>>
key     == <<lock, ttl>>
vars    == <<pc, tries, cancelled, subs, active, wire, inbox, listener,
             keeper, due, lock, ttl>>

SessionsOn(p)  == {s \in Sessions : ProcOf[s] = p}
SessionsFor(u) == {s \in Sessions : UserOf[s] = u}
Finished(s)    == pc[s] \in {"ended", "dead"}
Holds(s)       == keeper[s] \in {"running", "releasing"}

\* The registered channels of process p for user u: subs[channel].
Registered(p, u) == subs \intersect SessionsOn(p) \intersect SessionsFor(u)

Init ==
  /\ pc        = [s \in Sessions |-> "new"]
  /\ tries     = [s \in Sessions |-> 0]
  /\ cancelled = [s \in Sessions |-> FALSE]
  /\ subs      = {}
  /\ active    = {}
  /\ wire      = [p \in Procs |-> {}]
  /\ inbox     = [s \in Sessions |-> {}]
  /\ listener  = [s \in Sessions |-> "off"]
  /\ keeper    = [s \in Sessions |-> "none"]
  /\ due       = [s \in Sessions |-> FALSE]
  /\ lock      = [u \in Users |-> None]
  /\ ttl       = [u \in Users |-> 0]

-----------------------------------------------------------------------------
(* handleConn *)

\* handleConn returns: its deferred cancel() runs.
Leave(s) == /\ pc' = [pc EXCEPT ![s] = "ended"]
            /\ tries' = [tries EXCEPT ![s] = 0]
            /\ cancelled' = [cancelled EXCEPT ![s] = TRUE]

\* A call that takes the session's ctx fails once ctx is done; a call already
\* on its way may have had its effect all the same.
MayFail(s) == cancelled[s] \/ Flaky

\* The stream key is malformed, or no user has it, or the lookup fails.
Reject(s) ==
  /\ pc[s] = "new"
  /\ Leave(s)
  /\ UNCHANGED <<pubsub, keeper, due, key>>

\* The user is found; the session registers redisCh and starts its listener.
\* Only the first channel registered for a user sends SUBSCRIBE, and nobody
\* waits for it to be in force.
Start(s) ==
  /\ pc[s] = "new"
  /\ ~cancelled[s]
  /\ pc' = [pc EXCEPT ![s] = "announce"]
  /\ subs' = subs \union {s}
  /\ listener' = [listener EXCEPT ![s] = "on"]
  /\ UNCHANGED <<tries, cancelled, active, wire, inbox, keeper, due, key>>

\* PUBLISH reaches every process that is subscribed at that moment.
FanOut(s) ==
  wire' = [p \in Procs |-> IF <<p, UserOf[s]>> \in active
                           THEN wire[p] \union {s} ELSE wire[p]]

Announce(s) ==
  /\ pc[s] = "announce"
  /\ \/ /\ ~cancelled[s]
        /\ FanOut(s)
        /\ pc' = [pc EXCEPT ![s] = "lock"]
        /\ UNCHANGED <<tries, cancelled>>
     \/ /\ MayFail(s)
        /\ FanOut(s) \/ UNCHANGED wire
        /\ Leave(s)
  /\ UNCHANGED <<subs, active, inbox, listener, keeper, due, key>>

\* Mutant: SET instead of SET NX.
SetKeyAlways(s) == /\ lock' = [lock EXCEPT ![UserOf[s]] = s]
                   /\ ttl'  = [ttl EXCEPT ![UserOf[s]] = LockTTL]

\* Mutant: SET NX without an expiry.
SetKeyForever(s) == /\ lock[UserOf[s]] = None
                    /\ lock' = [lock EXCEPT ![UserOf[s]] = s]
                    /\ UNCHANGED ttl

SetKey(s) == /\ lock[UserOf[s]] = None
             /\ lock' = [lock EXCEPT ![UserOf[s]] = s]
             /\ ttl'  = [ttl EXCEPT ![UserOf[s]] = LockTTL]

\* Mutant: one attempt too many.
TriesLeftOffByOne(s) == tries[s] <= MaxTries

TriesLeft(s) == tries[s] < MaxTries

\* SetNX: the key is set and the keeper started, or it exists and the session
\* sleeps 250 ms before the next try.
TryLock(s) ==
  /\ pc[s] = "lock"
  /\ TriesLeft(s)
  /\ ~cancelled[s]
  /\ \/ /\ SetKey(s)
        /\ keeper' = [keeper EXCEPT ![s] = "running"]
        /\ pc' = [pc EXCEPT ![s] = "insert"]
        /\ tries' = [tries EXCEPT ![s] = 0]
     \/ /\ lock[UserOf[s]] # None
        /\ tries' = [tries EXCEPT ![s] = @ + 1]
        /\ UNCHANGED <<pc, keeper, key>>
  /\ UNCHANGED <<cancelled, pubsub, due>>

\* SetNX fails: the session leaves without a keeper, even when the key was
\* set; only its expiry removes it then.
LockError(s) ==
  /\ pc[s] = "lock"
  /\ TriesLeft(s)
  /\ MayFail(s)
  /\ SetKey(s) \/ UNCHANGED key
  /\ Leave(s)
  /\ UNCHANGED <<pubsub, keeper, due>>

GiveUp(s) ==
  /\ pc[s] = "lock"
  /\ ~TriesLeft(s)
  /\ Leave(s)
  /\ UNCHANGED <<pubsub, keeper, due, key>>

\* The VOD document is inserted and the callback returns nil, or it fails.
InsertVod(s) ==
  /\ pc[s] = "insert"
  /\ \/ /\ ~cancelled[s]
        /\ pc' = [pc EXCEPT ![s] = "live"]
        /\ UNCHANGED <<tries, cancelled>>
     \/ MayFail(s) /\ Leave(s)
  /\ UNCHANGED <<pubsub, keeper, due, key>>

\* ffmpeg is gone: the goroutine that ran it cancels the session.
StreamEnds(s) ==
  /\ pc[s] = "live"
  /\ ~cancelled[s]
  /\ cancelled' = [cancelled EXCEPT ![s] = TRUE]
  /\ UNCHANGED <<handler, pubsub, keeper, due, key>>

\* The recording part of handleConn returns, after ctx is done or early,
\* because the stream was refused.
Return(s) ==
  /\ pc[s] = "live"
  /\ Leave(s)
  /\ UNCHANGED <<pubsub, keeper, due, key>>

-----------------------------------------------------------------------------
(* The listener of a session and RedisInst *)

\* Mutant: the comparison with vodID inverted.
IgnoredInverted(s, d) == d # s

Ignored(s, d) == d = s

\* The listener takes a message: its own drop is ignored, any other one makes
\* it return, which cancels the session first and closes redisCh after; what
\* is left in redisCh nobody reads.
Receive(s) ==
  /\ listener[s] = "on"
  /\ \E d \in inbox[s] :
       IF Ignored(s, d)
       THEN /\ inbox' = [inbox EXCEPT ![s] = @ \ {d}]
            /\ UNCHANGED <<cancelled, listener>>
       ELSE /\ inbox' = [inbox EXCEPT ![s] = {}]
            /\ cancelled' = [cancelled EXCEPT ![s] = TRUE]
            /\ listener' = [listener EXCEPT ![s] = "closing"]
  /\ UNCHANGED <<handler, subs, active, wire, keeper, due, key>>

CloseChannel(s) ==
  /\ listener[s] = "closing"
  /\ listener' = [listener EXCEPT ![s] = "closed"]
  /\ UNCHANGED <<handler, cancelled, subs, active, wire, inbox, keeper, due, key>>

\* The goroutine of Subscribe: ctx is done, the channel is unregistered, and
\* the last one of a user sends UNSUBSCRIBE.
Unregister(s) ==
  /\ s \in subs
  /\ cancelled[s]
  /\ subs' = subs \ {s}
  /\ active' = IF Registered(ProcOf[s], UserOf[s]) = {s}
               THEN active \ {<<ProcOf[s], UserOf[s]>>} ELSE active
  /\ UNCHANGED <<handler, cancelled, wire, inbox, listener, keeper, due, key>>

\* The process and everything in its memory are gone; Redis keeps the key.
Die(p) ==
  /\ pc' = [s \in Sessions |-> IF ProcOf[s] = p /\ pc[s] # "ended"
                               THEN "dead" ELSE pc[s]]
  /\ cancelled' = [s \in Sessions |-> ProcOf[s] = p \/ cancelled[s]]
  /\ subs' = subs \ SessionsOn(p)
  /\ active' = {a \in active : a[1] # p}
  /\ wire' = [wire EXCEPT ![p] = {}]
  /\ inbox' = [s \in Sessions |-> IF ProcOf[s] = p THEN {} ELSE inbox[s]]
  /\ listener' = [s \in Sessions |-> IF ProcOf[s] = p THEN "off" ELSE listener[s]]
  /\ keeper' = [s \in Sessions |-> IF ProcOf[s] = p THEN "none" ELSE keeper[s]]
  /\ due' = [s \in Sessions |-> ProcOf[s] # p /\ due[s]]
  /\ tries' = [s \in Sessions |-> IF ProcOf[s] = p THEN 0 ELSE tries[s]]
  /\ UNCHANGED key

\* Mutant: a channel of half the size.
HasRoomForFewer(s) == Cardinality(inbox[s]) < ChanCap - 1

HasRoom(s) == Cardinality(inbox[s]) < ChanCap

\* The dispatcher takes message d and, under subsMtx, offers it to every
\* channel registered for the user; a full channel does not get it.  Sending
\* on a channel its listener has closed panics, which ends the process.
Deliver(p, d) ==
  LET R == Registered(p, UserOf[d]) IN
  /\ d \in wire[p]
  /\ IF \E s \in R : listener[s] = "closed"
     THEN Die(p)
     ELSE /\ wire' = [wire EXCEPT ![p] = @ \ {d}]
          /\ inbox' = [s \in Sessions |->
                         IF s \in R /\ listener[s] = "on" /\ HasRoom(s)
                         THEN inbox[s] \union {d} ELSE inbox[s]]
          /\ UNCHANGED <<handler, cancelled, subs, active, listener,
                         keeper, due, key>>

-----------------------------------------------------------------------------
(* The keeper of a session *)

\* Mutant: renewed for one period only.
RenewShort(u) == ttl' = [ttl EXCEPT ![u] = IF lock[u] = None THEN 0 ELSE LockTTL - 1]

\* The ticker fired and Expire succeeds: it renews the key, whoever set it,
\* and does not look at the reply when there is no key.
Renew(u) == ttl' = [ttl EXCEPT ![u] = IF lock[u] = None THEN 0 ELSE LockTTL]

KeeperTick(s) ==
  /\ keeper[s] = "running"
  /\ due[s]
  /\ ~cancelled[s]
  /\ Renew(UserOf[s])
  /\ due' = [due EXCEPT ![s] = FALSE]
  /\ UNCHANGED <<handler, cancelled, pubsub, keeper, lock>>

\* Mutant: the keeper ends without cancelling its session.
KeeperFailQuietly(s) ==
  /\ keeper[s] = "running"
  /\ due[s]
  /\ MayFail(s)
  /\ due' = [due EXCEPT ![s] = FALSE]
  /\ keeper' = [keeper EXCEPT ![s] = "releasing"]
  /\ UNCHANGED <<handler, cancelled, pubsub, key>>

\* Expire fails, with or without effect: the keeper cancels its session.
KeeperFail(s) ==
  /\ keeper[s] = "running"
  /\ due[s]
  /\ MayFail(s)
  /\ Renew(UserOf[s]) \/ UNCHANGED ttl
  /\ due' = [due EXCEPT ![s] = FALSE]
  /\ keeper' = [keeper EXCEPT ![s] = "releasing"]
  /\ cancelled' = [cancelled EXCEPT ![s] = TRUE]
  /\ UNCHANGED <<handler, pubsub, lock>>

\* ctx is done: the keeper stops its ticker and is about to delete the key.
KeeperStop(s) ==
  /\ keeper[s] = "running"
  /\ cancelled[s]
  /\ keeper' = [keeper EXCEPT ![s] = "releasing"]
  /\ due' = [due EXCEPT ![s] = FALSE]
  /\ UNCHANGED <<handler, cancelled, pubsub, key>>

DelKey(u) == /\ lock' = [lock EXCEPT ![u] = None]
             /\ ttl'  = [ttl EXCEPT ![u] = 0]

\* Del names the key and not its value.  An error is logged and forgotten.
KeeperDel(s) ==
  /\ keeper[s] = "releasing"
  /\ DelKey(UserOf[s]) \/ (Flaky /\ UNCHANGED key)
  /\ keeper' = [keeper EXCEPT ![s] = "done"]
  /\ UNCHANGED <<handler, cancelled, pubsub, due>>

-----------------------------------------------------------------------------
(* Redis, the clock and the processes *)

\* SUBSCRIBE takes effect at the server.
Activate(p, u) ==
  /\ Registered(p, u) # {}
  /\ <<p, u>> \notin active
  /\ active' = active \union {<<p, u>>}
  /\ UNCHANGED <<handler, cancelled, subs, wire, inbox, listener, keeper, due, key>>

\* The subscriber connection of p breaks: messages on it are lost, and the
\* client library subscribes again.
Reconnect(p) ==
  /\ Flaky
  /\ \E a \in active : a[1] = p
  /\ active' = {a \in active : a[1] # p}
  /\ wire' = [wire EXCEPT ![p] = {}]
  /\ UNCHANGED <<handler, cancelled, subs, inbox, listener, keeper, due, key>>

\* 15 s pass for user u: tickers fire, the key comes one period closer to
\* its expiry.  Timely: only after the keepers have done what was due.
Elapse(u) ==
  LET running == {s \in SessionsFor(u) : keeper[s] = "running"} IN
  /\ ttl[u] > 0 \/ \E s \in running : ~due[s]
  /\ Timely => \A s \in SessionsFor(u) : ~due[s] /\ keeper[s] # "releasing"
  /\ due' = [s \in Sessions |-> s \in running \/ due[s]]
  /\ ttl' = [ttl EXCEPT ![u] = IF @ > 0 THEN @ - 1 ELSE 0]
  /\ lock' = [lock EXCEPT ![u] = IF ttl[u] = 1 THEN None ELSE @]
  /\ UNCHANGED <<handler, cancelled, pubsub, keeper>>

Crash(p) ==
  /\ p \in Mortal
  /\ \E s \in SessionsOn(p) : ~Finished(s) \/ Holds(s)
  /\ Die(p)

\* SIGINT: the global context is cancelled, and every session's with it.
Shutdown(p) ==
  /\ p \in Mortal
  /\ \E s \in SessionsOn(p) : ~cancelled[s]
  /\ cancelled' = [s \in Sessions |-> ProcOf[s] = p \/ cancelled[s]]
  /\ UNCHANGED <<handler, pubsub, keeper, due, key>>

-----------------------------------------------------------------------------

\* The steps of a session's goroutines that need nothing from outside.
HandleConn(s) == Announce(s) \/ TryLock(s) \/ LockError(s) \/ GiveUp(s) \/ InsertVod(s)
Listen(s)     == Receive(s) \/ CloseChannel(s)
Keep(s)       == KeeperTick(s) \/ KeeperFail(s) \/ KeeperStop(s) \/ KeeperDel(s)

Next ==
  \/ \E s \in Sessions : \/ Reject(s) \/ Start(s) \/ HandleConn(s)
                         \/ StreamEnds(s) \/ Return(s)
                         \/ Listen(s) \/ Unregister(s) \/ Keep(s)
  \/ \E p \in Procs : \/ \E d \in Sessions : Deliver(p, d)
                      \/ \E u \in Users : Activate(p, u)
                      \/ Reconnect(p) \/ Crash(p) \/ Shutdown(p)
  \/ \E u \in Users : Elapse(u)

SafeSpec == Init /\ [][Next]_vars

\* Goroutines run, calls return, messages that are not lost arrive, time
\* passes.  A live session returns when it is cancelled (ffmpeg is signalled,
\* then killed after 15 s).  Nothing makes a stream start, end by itself,
\* or a process stop.
Fairness ==
  /\ \A s \in Sessions : /\ WF_vars(HandleConn(s))
                         /\ WF_vars(cancelled[s] /\ Return(s))
                         /\ WF_vars(Listen(s))
                         /\ WF_vars(Unregister(s))
                         /\ WF_vars(Keep(s))
  /\ \A p \in Procs : /\ \A d \in Sessions : WF_vars(Deliver(p, d))
                      /\ \A u \in Users : WF_vars(Activate(p, u))
  /\ \A u \in Users : WF_vars(Elapse(u))

Spec == SafeSpec /\ Fairness

-----------------------------------------------------------------------------
(* Properties *)

\* Every variable has its type; a drop is only ever delivered to sessions of
\* the user it names, and redisCh never holds more than its capacity.
TypeOK ==
  /\ pc \in [Sessions -> {"new", "announce", "lock", "insert", "live", "ended", "dead"}]
  /\ tries \in [Sessions -> 0..MaxTries]
  /\ cancelled \in [Sessions -> BOOLEAN]
  /\ subs \subseteq Sessions
  /\ active \subseteq Procs \X Users
  /\ wire \in [Procs -> SUBSET Sessions]
  /\ inbox \in [Sessions -> SUBSET Sessions]
  /\ \A s \in Sessions : /\ inbox[s] \subseteq SessionsFor(UserOf[s])
                         /\ Cardinality(inbox[s]) <= ChanCap
  /\ listener \in [Sessions -> {"off", "on", "closing", "closed"}]
  /\ keeper \in [Sessions -> {"none", "running", "releasing", "done"}]
  /\ due \in [Sessions -> BOOLEAN]
  /\ lock \in [Users -> Sessions \union {None}]
  /\ ttl \in [Users -> 0..LockTTL]

\* As long as a keeper runs, and until its Del is done, the key is its
\* session's own and has not expired: Expire (rtmp.go:205) never renews and
\* Del (rtmp.go:195) never deletes the key of another session.
KeeperOwnsKey ==
  \A s \in Sessions : Holds(s) => /\ lock[UserOf[s]] = s
                                  /\ ttl[UserOf[s]] > 0

\* What makes it inductive: a keeper that owes no renewal has a full key,
\* which outlives the next tick.
RenewedKey ==
  \A s \in Sessions :
    keeper[s] = "running" /\ ~due[s] => ttl[UserOf[s]] = LockTTL

\* A session that inserts its document or records has a running keeper until
\* it is cancelled: no error path leaves it live without the lock.
LiveHasKeeper ==
  \A s \in Sessions :
    pc[s] \in {"insert", "live"} /\ ~cancelled[s] => keeper[s] = "running"

LockInv == KeeperOwnsKey /\ RenewedKey /\ LiveHasKeeper

Recording(s) == pc[s] \in {"insert", "live"} /\ ~cancelled[s]

\* Two sessions of one user never record at the same time, in whatever
\* processes they run and however their drops are lost or delayed.
OneRecordingPerUser ==
  \A s, t \in Sessions :
    Recording(s) /\ Recording(t) /\ UserOf[s] = UserOf[t] => s = t

\* The protocol implements Lease: the lease is a running keeper of a session
\* that is not cancelled.
Abstract == INSTANCE Lease WITH
  holding <- {s \in Sessions : keeper[s] = "running" /\ ~cancelled[s]},
  retired <- {s \in Sessions : cancelled[s]}

LeaseSpec == Abstract!LeaseSpec

\* A session that listens and that another session's drop is about to reach.
Condemned(s) ==
  /\ s \in subs
  /\ listener[s] = "on"
  /\ ~cancelled[s]
  /\ \E d \in SessionsFor(UserOf[s]) \ {s} : d \in wire[ProcOf[s]] \union inbox[s]

\* A drop that has reached a process is never lost on its way to a listener,
\* although the dispatcher drops messages when redisCh is full (redis.go:79):
\* a full channel already holds another session's drop.  (Redis answering.)
DropNeverLost ==
  [][\A s \in Sessions : Condemned(s) => Condemned(s)' \/ cancelled'[s]]_vars

\* A session whose drop order has been sent returns, or its process is gone.
\* (Redis answering.)
TakeOver == \A s \in Sessions : Condemned(s) ~> Finished(s)

\* The lock of a session that has ended does not stay: it is deleted, or,
\* after a crash or a failed call, expires.
LockReleased == \A s \in Sessions : Finished(s) ~> lock[UserOf[s]] # s

=============================================================================
