-------------------------- MODULE StreamLockProofs --------------------------
(***************************************************************************)
(* Theorems about StreamLock, for every number of sessions, users and      *)
(* processes and every setting of the bounds.  Those about the lock assume *)
(* Timely: the code has no fence against a keeper that is late by a whole  *)
(* period, so without it they are false.                                   *)
(***************************************************************************)
EXTENDS StreamLock, FiniteSetTheorems, TLAPS

\* The contents of redisCh form a finite set.
LEMMA InboxFinite ==
  ASSUME TypeOK, NEW s \in Sessions
  PROVE  IsFiniteSet(inbox[s])
BY SessionAssumption, FS_Subset DEF TypeOK

\* A message is added to redisCh only below its capacity.
LEMMA InboxRoom ==
  ASSUME TypeOK, NEW s \in Sessions, NEW d \in Sessions,
         Cardinality(inbox[s]) < ChanCap
  PROVE  Cardinality(inbox[s] \union {d}) <= ChanCap
<1>1. Cardinality(inbox[s]) \in Nat
  BY InboxFinite, FS_CardinalityType
<1>2. Cardinality(inbox[s] \union {d}) =
        IF d \in inbox[s] THEN Cardinality(inbox[s]) ELSE Cardinality(inbox[s]) + 1
  BY InboxFinite, FS_AddElement
<1> QED
  BY <1>1, <1>2, BoundAssumption

\* Taking a message out leaves room.
LEMMA InboxTaken ==
  ASSUME TypeOK, NEW s \in Sessions, NEW d \in inbox[s]
  PROVE  Cardinality(inbox[s] \ {d}) <= ChanCap
<1>1. /\ Cardinality(inbox[s]) \in Nat
      /\ Cardinality(inbox[s]) <= ChanCap
  BY InboxFinite, FS_CardinalityType DEF TypeOK
<1>2. Cardinality(inbox[s] \ {d}) = Cardinality(inbox[s]) - 1
  BY InboxFinite, FS_RemoveElement
<1> QED
  BY <1>1, <1>2, BoundAssumption

-----------------------------------------------------------------------------

\* The initial state is well typed.
LEMMA InitType == Init => TypeOK
BY SessionAssumption, BoundAssumption, FS_EmptySet
DEF Init, TypeOK, SessionsFor

\* A process that ends leaves every variable well typed.
LEMMA DieType ==
  ASSUME TypeOK, NEW p \in Procs, Die(p)
  PROVE  TypeOK'
<1> USE DEF TypeOK, Die, SessionsOn, key
<1>1. \A s \in Sessions : /\ inbox'[s] \subseteq SessionsFor(UserOf[s])
                          /\ Cardinality(inbox'[s]) <= ChanCap
  BY FS_EmptySet, BoundAssumption
<1> QED
  BY <1>1, BoundAssumption

\* Every step keeps the types.
LEMMA StepType ==
  ASSUME TypeOK, [Next]_vars
  PROVE  TypeOK'
<1> USE SessionAssumption, BoundAssumption
    DEF TypeOK, handler, pubsub, key, SessionsFor, TriesLeft
<1>1. ASSUME NEW s \in Sessions, Reject(s) PROVE TypeOK'
  BY <1>1 DEF Reject, Leave
<1>2. ASSUME NEW s \in Sessions, Start(s) PROVE TypeOK'
  BY <1>2 DEF Start
<1>3. ASSUME NEW s \in Sessions, Announce(s) PROVE TypeOK'
  <2>1. wire' \in [Procs -> SUBSET Sessions]
    <3>1. CASE FanOut(s)
      BY <3>1 DEF FanOut
    <3>2. CASE UNCHANGED wire
      BY <3>2
    <3> QED
      BY <1>3, <3>1, <3>2 DEF Announce
  <2>2. CASE pc' = [pc EXCEPT ![s] = "lock"] /\ UNCHANGED <<tries, cancelled>>
    BY <1>3, <2>1, <2>2 DEF Announce
  <2>3. CASE Leave(s)
    BY <1>3, <2>1, <2>3 DEF Announce, Leave
  <2> QED
    BY <1>3, <2>2, <2>3 DEF Announce
<1>4. ASSUME NEW s \in Sessions, TryLock(s) PROVE TypeOK'
  <2>1. CASE SetKey(s)
    <3>1. /\ keeper' = [keeper EXCEPT ![s] = "running"]
          /\ pc' = [pc EXCEPT ![s] = "insert"]
          /\ tries' = [tries EXCEPT ![s] = 0]
      BY <1>4, <2>1 DEF TryLock, SetKey
    <3>2. /\ lock' \in [Users -> Sessions \union {None}]
          /\ ttl' \in [Users -> 0..LockTTL]
      BY <2>1 DEF SetKey
    <3> QED
      BY <1>4, <3>1, <3>2 DEF TryLock
  <2>2. CASE lock[UserOf[s]] # None
    <3>1. /\ tries' = [tries EXCEPT ![s] = @ + 1]
          /\ UNCHANGED <<pc, keeper, key>>
      BY <1>4, <2>2 DEF TryLock, SetKey
    <3>2. tries' \in [Sessions -> 0..MaxTries]
      BY <1>4, <3>1 DEF TryLock
    <3> QED
      BY <1>4, <3>1, <3>2 DEF TryLock
  <2> QED
    BY <1>4, <2>1, <2>2 DEF TryLock
<1>5. ASSUME NEW s \in Sessions, LockError(s) PROVE TypeOK'
  BY <1>5 DEF LockError, Leave, SetKey, MayFail
<1>6. ASSUME NEW s \in Sessions, GiveUp(s) PROVE TypeOK'
  BY <1>6 DEF GiveUp, Leave
<1>7. ASSUME NEW s \in Sessions, InsertVod(s) PROVE TypeOK'
  <2>1. CASE Leave(s)
    BY <1>7, <2>1 DEF InsertVod, Leave
  <2>2. CASE pc' = [pc EXCEPT ![s] = "live"] /\ UNCHANGED <<tries, cancelled>>
    BY <1>7, <2>2 DEF InsertVod
  <2> QED
    BY <1>7, <2>1, <2>2 DEF InsertVod
<1>8. ASSUME NEW s \in Sessions, StreamEnds(s) PROVE TypeOK'
  BY <1>8 DEF StreamEnds
<1>9. ASSUME NEW s \in Sessions, Return(s) PROVE TypeOK'
  BY <1>9 DEF Return, Leave
<1>10. ASSUME NEW s \in Sessions, Receive(s) PROVE TypeOK'
  <2>1. PICK d \in inbox[s] :
          inbox' = [inbox EXCEPT ![s] = IF d = s THEN @ \ {d} ELSE {}]
    BY <1>10 DEF Receive, Ignored
  <2>2. \A t \in Sessions : /\ inbox'[t] \subseteq SessionsFor(UserOf[t])
                            /\ Cardinality(inbox'[t]) <= ChanCap
    BY <2>1, InboxTaken, FS_EmptySet
  <2>3. /\ cancelled' \in [Sessions -> BOOLEAN]
        /\ listener' \in [Sessions -> {"off", "on", "closing", "closed"}]
        /\ inbox' \in [Sessions -> SUBSET Sessions]
    BY <1>10, <2>1 DEF Receive
  <2> QED
    BY <1>10, <2>2, <2>3 DEF Receive
<1>11. ASSUME NEW s \in Sessions, CloseChannel(s) PROVE TypeOK'
  BY <1>11 DEF CloseChannel
<1>12. ASSUME NEW s \in Sessions, Unregister(s) PROVE TypeOK'
  BY <1>12 DEF Unregister, Registered, SessionsOn
<1>13. ASSUME NEW s \in Sessions, KeeperTick(s) PROVE TypeOK'
  BY <1>13 DEF KeeperTick, Renew
<1>14. ASSUME NEW s \in Sessions, KeeperFail(s) PROVE TypeOK'
  BY <1>14 DEF KeeperFail, Renew, MayFail
<1>15. ASSUME NEW s \in Sessions, KeeperStop(s) PROVE TypeOK'
  BY <1>15 DEF KeeperStop
<1>16. ASSUME NEW s \in Sessions, KeeperDel(s) PROVE TypeOK'
  <2>1. CASE DelKey(UserOf[s])
    BY <1>16, <2>1 DEF KeeperDel, DelKey
  <2>2. CASE UNCHANGED key
    BY <1>16, <2>2 DEF KeeperDel
  <2> QED
    BY <1>16, <2>1, <2>2 DEF KeeperDel
<1>17. ASSUME NEW p \in Procs, NEW d \in Sessions, Deliver(p, d) PROVE TypeOK'
  <2>1. CASE \E s \in Registered(p, UserOf[d]) : listener[s] = "closed"
    BY <1>17, <2>1, DieType DEF Deliver
  <2>2. CASE ~\E s \in Registered(p, UserOf[d]) : listener[s] = "closed"
    <3>1. \A s \in Sessions :
            IF s \in Registered(p, UserOf[d]) /\ listener[s] = "on" /\ HasRoom(s)
            THEN inbox'[s] = inbox[s] \union {d} ELSE inbox'[s] = inbox[s]
      BY <1>17, <2>2 DEF Deliver
    <3>2. \A s \in Sessions : Cardinality(inbox'[s]) <= ChanCap
      BY <3>1, InboxRoom DEF HasRoom
    <3>3. ASSUME NEW s \in Sessions PROVE inbox'[s] \subseteq SessionsFor(UserOf[s])
      <4>1. inbox[s] \subseteq SessionsFor(UserOf[s])
        BY DEF TypeOK
      <4>2. s \in Registered(p, UserOf[d]) => d \in SessionsFor(UserOf[s])
        BY DEF Registered, SessionsFor
      <4> QED
        BY <3>1, <4>1, <4>2
    <3> QED
      BY <1>17, <2>2, <3>2, <3>3 DEF Deliver
  <2> QED
    BY <2>1, <2>2
<1>18. ASSUME NEW p \in Procs, NEW u \in Users, Activate(p, u) PROVE TypeOK'
  BY <1>18 DEF Activate
<1>19. ASSUME NEW p \in Procs, Reconnect(p) PROVE TypeOK'
  BY <1>19 DEF Reconnect
<1>20. ASSUME NEW p \in Procs, Shutdown(p) PROVE TypeOK'
  BY <1>20 DEF Shutdown, SessionsOn
<1>21. ASSUME NEW p \in Procs, Crash(p) PROVE TypeOK'
  BY <1>21, DieType DEF Crash
<1>22. ASSUME NEW u \in Users, Elapse(u) PROVE TypeOK'
  BY <1>22 DEF Elapse
<1>23. CASE UNCHANGED vars
  BY <1>23 DEF vars
<1> QED
  BY <1>1, <1>2, <1>3, <1>4, <1>5, <1>6, <1>7, <1>8, <1>9, <1>10, <1>11, <1>12, <1>13, <1>14, <1>15, <1>16, <1>17, <1>18, <1>19, <1>20, <1>21, <1>22, <1>23
  DEF Next, HandleConn, Listen, Keep

\* Theorem: every variable keeps its type; in particular redisCh stays within
\* its capacity and only holds drops for the session's own user.
THEOREM TypeCorrect == SafeSpec => []TypeOK
BY InitType, StepType, PTL DEF SafeSpec

-----------------------------------------------------------------------------

\* The steps that touch neither a keeper nor a key.
LEMMA KeyFrame ==
  ASSUME KeeperOwnsKey, RenewedKey, UNCHANGED <<keeper, due, lock, ttl>>
  PROVE  KeeperOwnsKey' /\ RenewedKey'
BY DEF KeeperOwnsKey, RenewedKey, Holds

\* SetNX gives the key to a session only when no keeper has it.
LEMMA SetKeyStep ==
  ASSUME TypeOK, KeeperOwnsKey, RenewedKey, NEW s \in Sessions, SetKey(s),
         \/ keeper' = keeper
         \/ keeper' = [keeper EXCEPT ![s] = "running"],
         UNCHANGED due
  PROVE  KeeperOwnsKey' /\ RenewedKey'
<1> USE SessionAssumption, BoundAssumption DEF TypeOK, Holds, SetKey
<1>1. \A t \in Sessions : Holds(t) => UserOf[t] # UserOf[s]
  BY DEF KeeperOwnsKey
<1>2. \A t \in Sessions : UserOf[t] # UserOf[s] =>
        lock'[UserOf[t]] = lock[UserOf[t]] /\ ttl'[UserOf[t]] = ttl[UserOf[t]]
  OBVIOUS
<1>3. \A t \in Sessions : UserOf[t] = UserOf[s] =>
        lock'[UserOf[t]] = s /\ ttl'[UserOf[t]] = LockTTL
  OBVIOUS
<1>4. \A t \in Sessions : t # s => keeper'[t] = keeper[t]
  OBVIOUS
<1> QED
  BY <1>1, <1>2, <1>3, <1>4 DEF KeeperOwnsKey, RenewedKey

\* A process that ends takes its keepers with it and leaves the keys alone.
LEMMA DieStep ==
  ASSUME TypeOK, KeeperOwnsKey, RenewedKey, NEW p \in Procs, Die(p)
  PROVE  KeeperOwnsKey' /\ RenewedKey'
<1>1. \A s \in Sessions : Holds(s)' =>
        keeper'[s] = keeper[s] /\ due'[s] = due[s]
  BY SessionAssumption DEF TypeOK, Die, Holds
<1> QED
  BY <1>1 DEF Die, key, KeeperOwnsKey, RenewedKey, Holds

\* Every step keeps the part of the invariant that ties keepers to keys.
LEMMA StepKey ==
  ASSUME Timely, TypeOK, KeeperOwnsKey, RenewedKey, [Next]_vars
  PROVE  KeeperOwnsKey' /\ RenewedKey'
<1> USE SessionAssumption, BoundAssumption DEF TypeOK, Holds
<1>1. ASSUME NEW s \in Sessions,
             \/ Reject(s) \/ Start(s) \/ Announce(s) \/ GiveUp(s) \/ InsertVod(s)
             \/ StreamEnds(s) \/ Return(s)
             \/ Receive(s) \/ CloseChannel(s) \/ Unregister(s)
      PROVE  KeeperOwnsKey' /\ RenewedKey'
  BY <1>1, KeyFrame
  DEF Reject, Start, Announce, GiveUp, InsertVod, StreamEnds, Return,
      Receive, CloseChannel, Unregister, key
<1>2. ASSUME NEW s \in Sessions, TryLock(s) PROVE KeeperOwnsKey' /\ RenewedKey'
  <2>1. CASE SetKey(s)
    BY <1>2, <2>1, SetKeyStep DEF TryLock, key
  <2>2. CASE UNCHANGED <<keeper, key>>
    BY <1>2, <2>2, KeyFrame DEF TryLock, key
  <2> QED
    BY <1>2, <2>1, <2>2 DEF TryLock
<1>3. ASSUME NEW s \in Sessions, LockError(s) PROVE KeeperOwnsKey' /\ RenewedKey'
  <2>1. CASE SetKey(s)
    BY <1>3, <2>1, SetKeyStep DEF LockError
  <2>2. CASE UNCHANGED key
    BY <1>3, <2>2, KeyFrame DEF LockError, key
  <2> QED
    BY <1>3, <2>1, <2>2 DEF LockError
<1>4. ASSUME NEW s \in Sessions, KeeperTick(s) PROVE KeeperOwnsKey' /\ RenewedKey'
  <2>1. lock[UserOf[s]] = s
    BY <1>4 DEF KeeperTick, KeeperOwnsKey
  <2>2. ttl' = [ttl EXCEPT ![UserOf[s]] = LockTTL]
    BY <1>4, <2>1 DEF KeeperTick, Renew
  <2>3. \A t \in Sessions : t # s => due'[t] = due[t]
    BY <1>4 DEF KeeperTick
  <2> QED
    BY <1>4, <2>1, <2>2, <2>3 DEF KeeperTick, KeeperOwnsKey, RenewedKey
<1>5. ASSUME NEW s \in Sessions, KeeperFail(s) PROVE KeeperOwnsKey' /\ RenewedKey'
  <2>1. lock[UserOf[s]] = s
    BY <1>5 DEF KeeperFail, KeeperOwnsKey
  <2>2. \/ ttl' = [ttl EXCEPT ![UserOf[s]] = LockTTL]
        \/ ttl' = ttl
    BY <1>5, <2>1 DEF KeeperFail, Renew
  <2>3. \A t \in Sessions : t # s => due'[t] = due[t] /\ keeper'[t] = keeper[t]
    BY <1>5 DEF KeeperFail
  <2>4. keeper'[s] = "releasing" /\ Holds(s)
    BY <1>5 DEF KeeperFail
  <2> QED
    BY <1>5, <2>1, <2>2, <2>3, <2>4 DEF KeeperFail, KeeperOwnsKey, RenewedKey
<1>6. ASSUME NEW s \in Sessions, KeeperStop(s) PROVE KeeperOwnsKey' /\ RenewedKey'
  <2>1. \A t \in Sessions : t # s => due'[t] = due[t] /\ keeper'[t] = keeper[t]
    BY <1>6 DEF KeeperStop
  <2>2. keeper'[s] = "releasing" /\ Holds(s)
    BY <1>6 DEF KeeperStop
  <2> QED
    BY <1>6, <2>1, <2>2 DEF KeeperStop, key, KeeperOwnsKey, RenewedKey
<1>7. ASSUME NEW s \in Sessions, KeeperDel(s) PROVE KeeperOwnsKey' /\ RenewedKey'
  <2>1. lock[UserOf[s]] = s
    BY <1>7 DEF KeeperDel, KeeperOwnsKey
  <2>2. /\ \A t \in Sessions : t # s => keeper'[t] = keeper[t]
        /\ keeper'[s] = "done"
    BY <1>7 DEF KeeperDel
  <2>3. \A t \in Sessions : t # s /\ Holds(t) => UserOf[t] # UserOf[s]
    BY <2>1 DEF KeeperOwnsKey
  <2>4. \A t \in Sessions : UserOf[t] # UserOf[s] =>
          lock'[UserOf[t]] = lock[UserOf[t]] /\ ttl'[UserOf[t]] = ttl[UserOf[t]]
    BY <1>7 DEF KeeperDel, DelKey, key
  <2> QED
    BY <1>7, <2>2, <2>3, <2>4 DEF KeeperDel, KeeperOwnsKey, RenewedKey
<1>8. ASSUME NEW p \in Procs, NEW d \in Sessions, Deliver(p, d)
      PROVE  KeeperOwnsKey' /\ RenewedKey'
  BY <1>8, DieStep, KeyFrame DEF Deliver, key
<1>9. ASSUME NEW p \in Procs, NEW u \in Users, Activate(p, u)
      PROVE  KeeperOwnsKey' /\ RenewedKey'
  BY <1>9, KeyFrame DEF Activate, key
<1>10. ASSUME NEW p \in Procs, Reconnect(p) \/ Shutdown(p)
       PROVE  KeeperOwnsKey' /\ RenewedKey'
  BY <1>10, KeyFrame DEF Reconnect, Shutdown, key
<1>11. ASSUME NEW p \in Procs, Crash(p) PROVE KeeperOwnsKey' /\ RenewedKey'
  BY <1>11, DieStep DEF Crash
<1>12. ASSUME NEW u \in Users, Elapse(u) PROVE KeeperOwnsKey' /\ RenewedKey'
  <2>1. \A s \in SessionsFor(u) : Holds(s) => /\ keeper[s] = "running"
                                            /\ ttl[u] = LockTTL
                                            /\ lock[u] = s
    BY <1>12 DEF Elapse, SessionsFor, KeeperOwnsKey, RenewedKey
  <2>2. \A s \in SessionsFor(u) : Holds(s) => /\ due'[s]
                                            /\ ttl'[u] = LockTTL - 1
                                            /\ lock'[u] = s
    <3> SUFFICES ASSUME NEW s \in SessionsFor(u), Holds(s)
                 PROVE  due'[s] /\ ttl'[u] = LockTTL - 1 /\ lock'[u] = s
      OBVIOUS
    <3>1. due'[s]
      BY <1>12, <2>1 DEF Elapse, SessionsFor
    <3>2. ttl'[u] = LockTTL - 1
      BY <1>12, <2>1 DEF Elapse
    <3>3. lock'[u] = s
      BY <1>12, <2>1 DEF Elapse
    <3> QED
      BY <3>1, <3>2, <3>3
  <2>3. \A s \in Sessions \ SessionsFor(u) :
          /\ due'[s] = due[s]
          /\ ttl'[UserOf[s]] = ttl[UserOf[s]]
          /\ lock'[UserOf[s]] = lock[UserOf[s]]
    BY <1>12 DEF Elapse, SessionsFor
  <2> QED
    BY <1>12, <2>2, <2>3 DEF Elapse, SessionsFor, KeeperOwnsKey, RenewedKey
<1>13. CASE UNCHANGED vars
  BY <1>13, KeyFrame DEF vars
<1> QED
  BY <1>1, <1>2, <1>3, <1>4, <1>5, <1>6, <1>7, <1>8, <1>9, <1>10, <1>11, <1>12, <1>13
  DEF Next, HandleConn, Listen, Keep

\* Every step keeps a recording session's keeper running: a keeper stops only
\* with its session cancelled.
LEMMA StepLive ==
  ASSUME TypeOK, LiveHasKeeper, [Next]_vars
  PROVE  LiveHasKeeper'
<1> USE DEF TypeOK, LiveHasKeeper
<1>1. ASSUME NEW s \in Sessions,
             \/ Reject(s) \/ Start(s) \/ Announce(s) \/ LockError(s) \/ GiveUp(s)
             \/ StreamEnds(s) \/ Return(s)
      PROVE  LiveHasKeeper'
  BY <1>1 DEF Reject, Start, Announce, LockError, GiveUp, StreamEnds, Return,
              Leave, handler
<1>2. ASSUME NEW s \in Sessions, TryLock(s) PROVE LiveHasKeeper'
  <2>1. CASE SetKey(s)
    <3>1. /\ keeper' = [keeper EXCEPT ![s] = "running"]
          /\ pc' = [pc EXCEPT ![s] = "insert"]
          /\ cancelled' = cancelled
      BY <1>2, <2>1 DEF TryLock, SetKey
    <3> QED
      BY <3>1
  <2>2. CASE ~SetKey(s)
    BY <1>2, <2>2 DEF TryLock
  <2> QED
    BY <2>1, <2>2
<1>3. ASSUME NEW s \in Sessions, InsertVod(s) PROVE LiveHasKeeper'
  <2>1. CASE Leave(s)
    BY <1>3, <2>1 DEF InsertVod, Leave
  <2>2. CASE pc' = [pc EXCEPT ![s] = "live"] /\ UNCHANGED <<tries, cancelled>>
    BY <1>3, <2>2 DEF InsertVod
  <2> QED
    BY <1>3, <2>1, <2>2 DEF InsertVod
<1>4. ASSUME NEW s \in Sessions,
             \/ Receive(s) \/ CloseChannel(s) \/ Unregister(s)
             \/ KeeperTick(s) \/ KeeperStop(s)
      PROVE  LiveHasKeeper'
  BY <1>4 DEF Receive, CloseChannel, Unregister, KeeperTick, KeeperStop, handler
<1>5. ASSUME NEW s \in Sessions, KeeperFail(s) PROVE LiveHasKeeper'
  BY <1>5 DEF KeeperFail, handler
<1>6. ASSUME NEW s \in Sessions, KeeperDel(s) PROVE LiveHasKeeper'
  BY <1>6 DEF KeeperDel, handler
<1>7. ASSUME NEW p \in Procs, Die(p) PROVE LiveHasKeeper'
  <2>1. \A s \in Sessions : ~cancelled'[s] => ProcOf[s] # p
    BY <1>7 DEF Die
  <2> QED
    BY <1>7, <2>1 DEF Die
<1>8. ASSUME NEW p \in Procs, NEW d \in Sessions, Deliver(p, d)
      PROVE  LiveHasKeeper'
  BY <1>8, <1>7 DEF Deliver, handler
<1>9. ASSUME NEW p \in Procs, NEW u \in Users, Activate(p, u)
      PROVE  LiveHasKeeper'
  BY <1>9 DEF Activate, handler
<1>10. ASSUME NEW p \in Procs, Reconnect(p) \/ Crash(p) \/ Shutdown(p)
       PROVE  LiveHasKeeper'
  BY <1>10, <1>7 DEF Reconnect, Crash, Shutdown, handler
<1>11. ASSUME NEW u \in Users, Elapse(u) PROVE LiveHasKeeper'
  BY <1>11 DEF Elapse, handler
<1>12. CASE UNCHANGED vars
  BY <1>12 DEF vars
<1> QED
  BY <1>1, <1>2, <1>3, <1>4, <1>5, <1>6, <1>8, <1>9, <1>10, <1>11, <1>12
  DEF Next, HandleConn, Listen, Keep

\* The inductive invariant of the lock.
IInv == TypeOK /\ LockInv

LEMMA InitInv == Init => IInv
BY InitType DEF Init, IInv, LockInv, KeeperOwnsKey, RenewedKey, LiveHasKeeper, Holds

LEMMA StepInv ==
  ASSUME Timely, IInv, [Next]_vars
  PROVE  IInv'
BY StepType, StepKey, StepLive DEF IInv, LockInv

\* Theorem: with timely keepers a keeper's Expire and Del only ever touch the
\* key of its own session, and a recording session has a running keeper.
THEOREM LockSafe == ASSUME Timely PROVE SafeSpec => []LockInv
<1>1. IInv /\ [Next]_vars => IInv'
  BY StepInv
<1>2. IInv => LockInv
  BY DEF IInv
<1> QED
  BY InitInv, <1>1, <1>2, PTL DEF SafeSpec

\* A key has one value, so at most one session of a user records.
LEMMA OneKeyOneRecording == LockInv => OneRecordingPerUser
BY DEF LockInv, KeeperOwnsKey, LiveHasKeeper, OneRecordingPerUser, Recording, Holds

\* Theorem: with timely keepers no user has two recordings at a time, however
\* drops are lost and calls fail, in any number of processes.
THEOREM Exclusive == ASSUME Timely PROVE SafeSpec => []OneRecordingPerUser
BY LockSafe, OneKeyOneRecording, PTL

-----------------------------------------------------------------------------
(* StreamLock implements Lease *)

\* A step that cancels some sessions, or none, and starts or stops no keeper
\* of another session retires those it cancels.
LEMMA RetireStep ==
  ASSUME TypeOK,
         \A s \in Sessions : cancelled[s] => cancelled'[s],
         \A s \in Sessions : ~cancelled'[s] =>
             (keeper'[s] = "running" <=> keeper[s] = "running")
  PROVE  [Abstract!LeaseNext]_(Abstract!leaseVars)
<1> DEFINE S == {s \in Sessions : ~cancelled[s] /\ cancelled'[s]}
           holding == {s \in Sessions : keeper[s] = "running" /\ ~cancelled[s]}
           retired == {s \in Sessions : cancelled[s]}
<1>1. holding' = holding \ S
  OBVIOUS
<1>2. retired' = retired \union S
  OBVIOUS
<1>3. S \intersect retired = {}
  OBVIOUS
<1>4. CASE S = {}
  BY <1>1, <1>2, <1>4 DEF Abstract!leaseVars
<1>5. CASE S # {}
  <2>1. S \in SUBSET Sessions
    OBVIOUS
  <2>2. \E R \in SUBSET Sessions : /\ R # {}
                                  /\ R \intersect retired = {}
                                  /\ holding' = holding \ R
                                  /\ retired' = retired \union R
    BY <1>1, <1>2, <1>3, <1>5, <2>1
  <2> QED
    BY <2>2 DEF Abstract!LeaseNext, Abstract!Retire
<1> QED
  BY <1>4, <1>5

\* SetNX that starts a keeper acquires the lease: the key was free, so no
\* other keeper of the user was running.
LEMMA AcquireStep ==
  ASSUME IInv, NEW s \in Sessions, TryLock(s), SetKey(s)
  PROVE  [Abstract!LeaseNext]_(Abstract!leaseVars)
<1> DEFINE holding == {t \in Sessions : keeper[t] = "running" /\ ~cancelled[t]}
           retired == {t \in Sessions : cancelled[t]}
<1>1. /\ keeper' = [keeper EXCEPT ![s] = "running"]
      /\ cancelled' = cancelled
      /\ ~cancelled[s]
  BY DEF TryLock, SetKey
<1>2. \A t \in Sessions : Holds(t) => UserOf[t] # UserOf[s]
  BY SessionAssumption DEF IInv, LockInv, KeeperOwnsKey, SetKey, TypeOK
<1>3. /\ s \notin holding \union retired
      /\ \A t \in holding : UserOf[t] # UserOf[s]
  BY <1>1, <1>2 DEF Holds
<1>4. /\ holding' = holding \union {s}
      /\ retired' = retired
  BY <1>1 DEF IInv, TypeOK
<1>5. Abstract!Acquire(s)
  BY <1>3, <1>4 DEF Abstract!Acquire
<1> QED
  BY <1>5 DEF Abstract!LeaseNext

\* Every step of StreamLock is a step of Lease or a stutter.
LEMMA StepImplements ==
  ASSUME IInv, [Next]_vars
  PROVE  [Abstract!LeaseNext]_(Abstract!leaseVars)
<1> TypeOK
  BY DEF IInv
<1> USE DEF TypeOK, handler
<1>1. ASSUME NEW s \in Sessions,
             \/ Reject(s) \/ Start(s) \/ LockError(s) \/ GiveUp(s)
             \/ StreamEnds(s) \/ Return(s)
             \/ CloseChannel(s) \/ Unregister(s)
             \/ KeeperTick(s) \/ KeeperFail(s) \/ KeeperStop(s) \/ KeeperDel(s)
      PROVE  [Abstract!LeaseNext]_(Abstract!leaseVars)
  BY <1>1, RetireStep
  DEF Reject, Start, LockError, GiveUp, StreamEnds, Return, CloseChannel,
      Unregister, KeeperTick, KeeperFail, KeeperStop, KeeperDel, Leave
<1>2. ASSUME NEW s \in Sessions, Announce(s)
      PROVE  [Abstract!LeaseNext]_(Abstract!leaseVars)
  BY <1>2, RetireStep DEF Announce, Leave
<1>3. ASSUME NEW s \in Sessions, TryLock(s)
      PROVE  [Abstract!LeaseNext]_(Abstract!leaseVars)
  <2>1. CASE SetKey(s)
    BY <1>3, <2>1, AcquireStep
  <2>2. CASE ~SetKey(s)
    <3>1. UNCHANGED <<keeper, cancelled>>
      BY <1>3, <2>2 DEF TryLock
    <3> QED
      BY <3>1, RetireStep
  <2> QED
    BY <2>1, <2>2
<1>4. ASSUME NEW s \in Sessions, InsertVod(s)
      PROVE  [Abstract!LeaseNext]_(Abstract!leaseVars)
  BY <1>4, RetireStep DEF InsertVod, Leave
<1>5. ASSUME NEW s \in Sessions, Receive(s)
      PROVE  [Abstract!LeaseNext]_(Abstract!leaseVars)
  BY <1>5, RetireStep DEF Receive
<1>6. ASSUME NEW p \in Procs, Die(p)
      PROVE  [Abstract!LeaseNext]_(Abstract!leaseVars)
  BY <1>6, RetireStep DEF Die
<1>7. ASSUME NEW p \in Procs, NEW d \in Sessions, Deliver(p, d)
      PROVE  [Abstract!LeaseNext]_(Abstract!leaseVars)
  BY <1>6, <1>7, RetireStep DEF Deliver
<1>8. ASSUME NEW p \in Procs, NEW u \in Users, Activate(p, u)
      PROVE  [Abstract!LeaseNext]_(Abstract!leaseVars)
  BY <1>8, RetireStep DEF Activate
<1>9. ASSUME NEW p \in Procs, Reconnect(p) \/ Crash(p) \/ Shutdown(p)
      PROVE  [Abstract!LeaseNext]_(Abstract!leaseVars)
  BY <1>6, <1>9, RetireStep DEF Reconnect, Crash, Shutdown
<1>10. ASSUME NEW u \in Users, Elapse(u)
       PROVE  [Abstract!LeaseNext]_(Abstract!leaseVars)
  BY <1>10, RetireStep DEF Elapse
<1>11. CASE UNCHANGED vars
  BY <1>11, RetireStep DEF vars
<1> QED
  BY <1>1, <1>2, <1>3, <1>4, <1>5, <1>7, <1>8, <1>9, <1>10, <1>11
  DEF Next, HandleConn, Listen, Keep

LEMMA InitImplements == Init => Abstract!LeaseInit
BY DEF Init, Abstract!LeaseInit

\* Theorem: with timely keepers the protocol implements the lease: it is
\* granted only when no session of the user has it, and never twice.
THEOREM Implements == ASSUME Timely PROVE SafeSpec => LeaseSpec
<1>1. IInv /\ [Next]_vars => IInv'
  BY StepInv
<1>2. IInv /\ [Next]_vars => [Abstract!LeaseNext]_(Abstract!leaseVars)
  BY StepImplements
<1> QED
  BY InitInv, InitImplements, <1>1, <1>2, PTL
  DEF SafeSpec, LeaseSpec, Abstract!LeaseSpec

-----------------------------------------------------------------------------
(* Drops *)

\* A full channel holds the drop of another session.
LEMMA FullInbox ==
  ASSUME TypeOK, NEW s \in Sessions, Cardinality(inbox[s]) >= ChanCap
  PROVE  \E d \in inbox[s] : d # s
<1> SUFFICES ASSUME inbox[s] \subseteq {s} PROVE FALSE
  OBVIOUS
<1>1. IsFiniteSet({s}) /\ Cardinality({s}) = 1
  BY FS_Singleton
<1>2. /\ Cardinality(inbox[s]) <= Cardinality({s})
      /\ Cardinality(inbox[s]) \in Nat
  BY <1>1, FS_Subset, FS_CardinalityType, InboxFinite
<1> QED
  BY <1>1, <1>2, BoundAssumption

\* A condemned session stays condemned until it is cancelled.
LEMMA StepDrop ==
  ASSUME ~Flaky, TypeOK, [Next]_vars, NEW s \in Sessions, Condemned(s)
  PROVE  Condemned(s)' \/ cancelled'[s]
<1> USE DEF TypeOK, Condemned, handler
<1> SUFFICES ASSUME ~cancelled'[s] PROVE Condemned(s)'
  OBVIOUS
<1>1. ASSUME NEW t \in Sessions,
             \/ Reject(t) \/ TryLock(t) \/ LockError(t) \/ GiveUp(t)
             \/ InsertVod(t) \/ StreamEnds(t) \/ Return(t)
             \/ KeeperTick(t) \/ KeeperFail(t) \/ KeeperStop(t) \/ KeeperDel(t)
      PROVE  Condemned(s)'
  BY <1>1 DEF Reject, TryLock, LockError, GiveUp, InsertVod, StreamEnds, Return,
              KeeperTick, KeeperFail, KeeperStop, KeeperDel, pubsub
<1>2. ASSUME NEW t \in Sessions, Start(t) PROVE Condemned(s)'
  BY <1>2 DEF Start
<1>3. ASSUME NEW t \in Sessions, Announce(t) PROVE Condemned(s)'
  <2>1. wire[ProcOf[s]] \subseteq wire'[ProcOf[s]]
    <3>1. ProcOf[s] \in Procs
      BY SessionAssumption
    <3>2. CASE FanOut(t)
      BY <3>1, <3>2 DEF FanOut
    <3>3. CASE UNCHANGED wire
      BY <3>3
    <3> QED
      BY <1>3, <3>2, <3>3 DEF Announce
  <2> QED
    BY <1>3, <2>1 DEF Announce
<1>4. ASSUME NEW t \in Sessions, Receive(t) PROVE Condemned(s)'
  BY <1>4 DEF Receive, Ignored
<1>5. ASSUME NEW t \in Sessions, CloseChannel(t) \/ Unregister(t)
      PROVE  Condemned(s)'
  BY <1>5 DEF CloseChannel, Unregister
<1>6. ASSUME NEW p \in Procs, Die(p) PROVE Condemned(s)'
  <2>1. ProcOf[s] # p
    BY <1>6 DEF Die
  <2> QED
    BY <1>6, <2>1, SessionAssumption DEF Die, SessionsOn
<1>7. ASSUME NEW p \in Procs, NEW d \in Sessions, Deliver(p, d)
      PROVE  Condemned(s)'
  <2>1. CASE Die(p)
    BY <1>6, <2>1
  <2>2. CASE ~Die(p)
    <3>1. PICK e \in SessionsFor(UserOf[s]) \ {s} : e \in wire[ProcOf[s]] \union inbox[s]
      OBVIOUS
    <3>2. /\ wire' = [wire EXCEPT ![p] = @ \ {d}]
          /\ inbox[s] \subseteq inbox'[s]
          /\ UNCHANGED <<subs, listener, cancelled>>
      BY <1>7, <2>2 DEF Deliver
    <3>3. CASE e \in inbox[s] \/ ProcOf[s] # p \/ e # d
      BY <3>1, <3>2, <3>3, SessionAssumption
    <3>4. CASE e = d /\ ProcOf[s] = p
      <4>1. s \in Registered(p, UserOf[d])
        BY <3>1, <3>4 DEF Registered, SessionsOn, SessionsFor
      <4>2. CASE Cardinality(inbox[s]) < ChanCap
        <5>1. d \in inbox'[s]
          BY <1>7, <2>2, <4>1, <4>2 DEF Deliver, HasRoom
        <5> QED
          BY <3>1, <3>2, <3>4, <5>1
      <4>3. CASE Cardinality(inbox[s]) >= ChanCap
        <5>1. PICK f \in inbox[s] : f # s
          BY <4>3, FullInbox
        <5>2. f \in SessionsFor(UserOf[s])
          BY <5>1
        <5> QED
          BY <3>2, <5>1, <5>2
      <4>4. Cardinality(inbox[s]) \in Nat
        BY InboxFinite, FS_CardinalityType
      <4> QED
        BY <4>2, <4>3, <4>4, BoundAssumption
    <3> QED
      BY <3>3, <3>4
  <2> QED
    BY <2>1, <2>2
<1>8. ASSUME NEW p \in Procs, NEW u \in Users, Activate(p, u)
      PROVE  Condemned(s)'
  BY <1>8 DEF Activate
<1>9. ASSUME NEW p \in Procs, Reconnect(p) \/ Crash(p) \/ Shutdown(p)
      PROVE  Condemned(s)'
  BY <1>6, <1>9 DEF Reconnect, Crash, Shutdown, pubsub
<1>10. ASSUME NEW u \in Users, Elapse(u) PROVE Condemned(s)'
  BY <1>10 DEF Elapse, pubsub
<1>11. CASE UNCHANGED vars
  BY <1>11 DEF vars
<1> QED
  BY <1>1, <1>2, <1>3, <1>4, <1>5, <1>7, <1>8, <1>9, <1>10, <1>11
  DEF Next, HandleConn, Listen, Keep

\* Theorem: while Redis answers, the drop that has reached a process reaches
\* the listener it is for, whatever redisCh already holds.
THEOREM NoDropLost == ASSUME ~Flaky PROVE SafeSpec => DropNeverLost
<1>1. TypeOK /\ [Next]_vars =>
        [\A s \in Sessions : Condemned(s) => Condemned(s)' \/ cancelled'[s]]_vars
  BY StepDrop
<1> QED
  BY TypeCorrect, <1>1, PTL DEF SafeSpec, DropNeverLost

=============================================================================
