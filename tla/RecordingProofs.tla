-------------------------- MODULE RecordingProofs --------------------------
(***************************************************************************)
(* Theorems about Recording, for any number of sessions and renditions.    *)
(***************************************************************************)
EXTENDS Recording, FiniteSetTheorems, TLAPS

\* The phases from which on the renditions and the outcome of ffmpeg are fixed.
After == {"teardown", "publish", "closing", "ended"}

\* A job is published in phase "publish" only, after the document was queued.
JobsInv ==
  \A s \in Sessions :
    /\ pc[s] = "publish" => vod[s] = "queued" /\ old[s]
    /\ jobs[s] > 0 => /\ pc[s] \in {"publish", "closing", "ended", "dead"}
                      /\ vod[s] = "queued"
                      /\ old[s]
    /\ jobs[s] <= variants[s]

\* Renditions are only known once ffmpeg was asked for, and handleConn goes on
\* to the teardown only when ffmpeg is done, was killed or made it panic.
FfmpegInv ==
  \A s \in Sessions :
    /\ pc[s] \in {"auth", "ready", "refused", "setup"} => variants[s] = 0
    /\ variants[s] > 0 /\ (pc[s] \in After \/ jobs[s] > 0) =>
         ffmpeg[s] = "done" \/ killed[s] \/ fatal[s]

\* The outcome is already settled when the WaitGroup is about to be released.
SettledInv ==
  \A s \in Sessions :
    pc[s] \in {"closing", "ended"} /\ ~down /\ ~Faults =>
      \/ vod[s] = "canceled" /\ jobs[s] = 0
      \/ vod[s] = "queued" /\ jobs[s] = variants[s]

SessionInv == JobsInv /\ FfmpegInv /\ SettledInv

-----------------------------------------------------------------------------

LEMMA InitType == Init => TypeOK
<1> SUFFICES ASSUME Init PROVE TypeOK
  OBVIOUS
<1>1. pc \in [Sessions -> {"auth", "ready", "refused", "ended", "dead"} \union Counted]
  BY DEF Init
<1>2. /\ variants \in [Sessions -> 0..MaxVariants]
      /\ jobs \in [Sessions -> 0..MaxVariants]
  BY RecordingAssumption DEF Init
<1>3. vod \in [Sessions -> {"none", "live", "canceled", "queued"}]
  BY DEF Init
<1>4. ffmpeg \in [Sessions -> {"none", "starting", "running", "exited", "done"}]
  BY DEF Init
<1>5. /\ cancelled \in [Sessions -> BOOLEAN]
      /\ old \in [Sessions -> BOOLEAN]
      /\ process \in [Sessions -> BOOLEAN]
      /\ killed \in [Sessions -> BOOLEAN]
      /\ fatal \in [Sessions -> BOOLEAN]
      /\ file \in [Sessions -> BOOLEAN]
  BY DEF Init
<1>6. wg \in Int /\ gauge \in Int
  BY DEF Init
<1>7. down \in BOOLEAN
  BY DEF Init
<1>8. server \in {"serving", "drained", "exited", "crashed"}
  BY DEF Init
<1> QED
  BY <1>1, <1>2, <1>3, <1>4, <1>5, <1>6, <1>7, <1>8 DEF TypeOK

\* Every step keeps the types.
LEMMA StepType ==
  ASSUME TypeOK, [Next]_vars
  PROVE  TypeOK'
<1> USE RecordingAssumption DEF TypeOK, session, Counted, Goto
<1>1. ASSUME NEW s \in Sessions, InsertVod(s) PROVE TypeOK'
  BY <1>1 DEF InsertVod, Refuse
<1>2. ASSUME NEW s \in Sessions, Respond(s) PROVE TypeOK'
  <2>1. CASE Refuse(s)
    BY <1>2, <2>1 DEF Respond, Refuse
  <2>2. CASE ~Refuse(s)
    BY <1>2, <2>2 DEF Respond
  <2> QED
    BY <2>1, <2>2
<1>3. ASSUME NEW s \in Sessions, ProbeFails(s) PROVE TypeOK'
  BY <1>3 DEF ProbeFails
<1>4. ASSUME NEW s \in Sessions, ProbeSucceeds(s) PROVE TypeOK'
  BY <1>4 DEF ProbeSucceeds
<1>5. ASSUME NEW s \in Sessions, Interrupt(s) PROVE TypeOK'
  BY <1>5 DEF Interrupt, Signal
<1>6. ASSUME NEW s \in Sessions, FfmpegStopped(s) PROVE TypeOK'
  BY <1>6 DEF FfmpegStopped
<1>7. ASSUME NEW s \in Sessions, Kill(s) PROVE TypeOK'
  BY <1>7 DEF Kill
<1>8. ASSUME NEW s \in Sessions, Cancel(s) PROVE TypeOK'
  <2>1. /\ vod' \in [Sessions -> {"none", "live", "canceled", "queued"}]
        /\ file' \in [Sessions -> BOOLEAN]
    BY <1>8 DEF Cancel
  <2>2. /\ pc' = [pc EXCEPT ![s] = "closing"]
        /\ gauge' \in Int
    BY <1>8 DEF Cancel
  <2>3. UNCHANGED <<cancelled, old, ffmpeg, process, killed, fatal, variants,
                    jobs, wg, down, server>>
    BY <1>8 DEF Cancel
  <2> QED
    BY <2>1, <2>2, <2>3
<1>9. ASSUME NEW s \in Sessions, Queue(s) PROVE TypeOK'
  BY <1>9 DEF Queue, UpdateFails
<1>10. ASSUME NEW s \in Sessions, PublishJob(s) PROVE TypeOK'
  BY <1>10 DEF PublishJob, JobsLeft
<1>11. ASSUME NEW s \in Sessions, Close(s) PROVE TypeOK'
  BY <1>11 DEF Close, Running
<1>12. ASSUME NEW s \in Sessions, FfmpegStarts(s) PROVE TypeOK'
  BY <1>12 DEF FfmpegStarts
<1>13. ASSUME NEW s \in Sessions, RunnerReturns(s) PROVE TypeOK'
  BY <1>13 DEF RunnerReturns
<1>14. ASSUME NEW s \in Sessions, FfmpegWrites(s) PROVE TypeOK'
  BY <1>14 DEF FfmpegWrites
<1>15. ASSUME NEW s \in Sessions, FfmpegExits(s) PROVE TypeOK'
  BY <1>15 DEF FfmpegExits
<1>16. ASSUME NEW s \in Sessions, Drop(s) PROVE TypeOK'
  BY <1>16 DEF Drop, Running
<1>17. ASSUME NEW s \in Sessions, Age(s) PROVE TypeOK'
  BY <1>17 DEF Age, Running
<1>18. CASE Shutdown
  BY <1>18 DEF Shutdown
<1>19. CASE ServeReturns
  BY <1>19 DEF ServeReturns
<1>20. CASE Exit
  BY <1>20 DEF Exit, Running
<1>21. CASE UNCHANGED vars
  BY <1>21 DEF vars
<1> QED
  BY <1>1, <1>2, <1>3, <1>4, <1>5, <1>6, <1>7, <1>8, <1>9, <1>10, <1>11,
     <1>12, <1>13, <1>14, <1>15, <1>16, <1>17, <1>18, <1>19, <1>20, <1>21
  DEF Next, Step, Runner

\* Theorem: every variable keeps its type.
THEOREM TypeCorrect == SafeSpec => []TypeOK
BY InitType, StepType, PTL DEF SafeSpec

-----------------------------------------------------------------------------

LEMMA InitSession == Init => SessionInv
BY RecordingAssumption
DEF Init, SessionInv, JobsInv, FfmpegInv, SettledInv, After

\* Every step keeps what a session knows about its document and its jobs.
LEMMA StepSession ==
  ASSUME TypeOK, SessionInv, [Next]_vars
  PROVE  SessionInv'
<1> USE RecordingAssumption
    DEF TypeOK, session, Counted, Goto, SessionInv, JobsInv, FfmpegInv, SettledInv, After
<1>1. ASSUME NEW s \in Sessions, InsertVod(s) PROVE SessionInv'
  BY <1>1 DEF InsertVod, Refuse
<1>2. ASSUME NEW s \in Sessions, Respond(s) PROVE SessionInv'
  BY <1>2 DEF Respond, Refuse
<1>3. ASSUME NEW s \in Sessions, ProbeFails(s) PROVE SessionInv'
  BY <1>3 DEF ProbeFails
<1>4. ASSUME NEW s \in Sessions, ProbeSucceeds(s) PROVE SessionInv'
  BY <1>4 DEF ProbeSucceeds
<1>5. ASSUME NEW s \in Sessions, Interrupt(s) PROVE SessionInv'
  BY <1>5 DEF Interrupt, Signal
<1>6. ASSUME NEW s \in Sessions, FfmpegStopped(s) PROVE SessionInv'
  BY <1>6 DEF FfmpegStopped
<1>7. ASSUME NEW s \in Sessions, Kill(s) PROVE SessionInv'
  BY <1>7 DEF Kill
<1>8. ASSUME NEW s \in Sessions, Cancel(s) PROVE SessionInv'
  BY <1>8 DEF Cancel, UpdateFails
<1>9. ASSUME NEW s \in Sessions, Queue(s) PROVE SessionInv'
  BY <1>9 DEF Queue, UpdateFails
<1>10. ASSUME NEW s \in Sessions, PublishJob(s) PROVE SessionInv'
  BY <1>10 DEF PublishJob, JobsLeft
<1>11. ASSUME NEW s \in Sessions, Close(s) PROVE SessionInv'
  BY <1>11 DEF Close, Running
<1>12. ASSUME NEW s \in Sessions, FfmpegStarts(s) PROVE SessionInv'
  BY <1>12 DEF FfmpegStarts
<1>13. ASSUME NEW s \in Sessions, RunnerReturns(s) PROVE SessionInv'
  BY <1>13 DEF RunnerReturns
<1>14. ASSUME NEW s \in Sessions, FfmpegWrites(s) PROVE SessionInv'
  BY <1>14 DEF FfmpegWrites
<1>15. ASSUME NEW s \in Sessions, FfmpegExits(s) PROVE SessionInv'
  BY <1>15 DEF FfmpegExits
<1>16. ASSUME NEW s \in Sessions, Drop(s) PROVE SessionInv'
  BY <1>16 DEF Drop, Running
<1>17. ASSUME NEW s \in Sessions, Age(s) PROVE SessionInv'
  BY <1>17 DEF Age, Running
<1>18. CASE Shutdown
  BY <1>18 DEF Shutdown
<1>19. CASE ServeReturns
  BY <1>19 DEF ServeReturns
<1>20. CASE Exit
  BY <1>20 DEF Exit, Running
<1>21. CASE UNCHANGED vars
  BY <1>21 DEF vars
<1> QED
  BY <1>1, <1>2, <1>3, <1>4, <1>5, <1>6, <1>7, <1>8, <1>9, <1>10, <1>11,
     <1>12, <1>13, <1>14, <1>15, <1>16, <1>17, <1>18, <1>19, <1>20, <1>21
  DEF Next, Step, Runner

\* Theorem: a published job is always backed by a queued document more than a
\* minute old that lists its rendition.
THEOREM JobsAreBacked == SafeSpec => []JobsBacked
<1>1. TypeOK /\ SessionInv /\ [Next]_vars => SessionInv'
  BY StepSession
<1>2. SessionInv => JobsBacked
  BY DEF SessionInv, JobsInv, JobsBacked
<1> QED
  BY TypeCorrect, InitSession, <1>1, <1>2, PTL DEF SafeSpec

\* Theorem: no job names a file ffmpeg may still be writing, unless ffmpeg was
\* killed or handleConn panicked.
THEOREM JobsFollowFfmpeg == SafeSpec => []JobAfterFfmpeg
<1>1. TypeOK /\ SessionInv /\ [Next]_vars => SessionInv'
  BY StepSession
<1>2. TypeOK /\ SessionInv => JobAfterFfmpeg
  BY RecordingAssumption DEF TypeOK, SessionInv, JobsInv, FfmpegInv, JobAfterFfmpeg
<1> QED
  BY TypeCorrect, InitSession, <1>1, <1>2, PTL DEF SafeSpec

\* Theorem: with the services answering and no shutdown, a counted session
\* leaves a canceled document, or a queued one with all its jobs.
THEOREM SessionsSettle == SafeSpec => []Settled
<1>1. TypeOK /\ SessionInv /\ [Next]_vars => SessionInv'
  BY StepSession
<1>2. SessionInv => Settled
  BY DEF SessionInv, SettledInv, Settled
<1> QED
  BY TypeCorrect, InitSession, <1>1, <1>2, PTL DEF SafeSpec

-----------------------------------------------------------------------------
(* The counters *)

\* The sessions in one of the phases K.
In(K) == {s \in Sessions : pc[s] \in K}
One(b) == IF b THEN 1 ELSE 0

\* Moving one session from one phase to another changes the size of In(K) by
\* one, or not at all.
LEMMA Move ==
  ASSUME TypeOK, NEW K, NEW s \in Sessions, NEW next, Goto(s, next)
  PROVE  /\ Cardinality(In(K)) \in Nat
         /\ Cardinality(In(K)') =
              Cardinality(In(K)) + One(next \in K) - One(pc[s] \in K)
<1>1. IsFiniteSet(In(K)) /\ Cardinality(In(K)) \in Nat
  BY RecordingAssumption, FS_Subset, FS_CardinalityType DEF In
<1>2. pc' = [pc EXCEPT ![s] = next]
  BY DEF Goto
<1>3. CASE next \in K
  <2>1. In(K)' = In(K) \union {s}
    BY <1>2, <1>3 DEF In, TypeOK
  <2>2. Cardinality(In(K) \union {s}) =
          IF s \in In(K) THEN Cardinality(In(K)) ELSE Cardinality(In(K)) + 1
    BY <1>1, FS_AddElement
  <2> QED
    BY <1>1, <1>3, <2>1, <2>2 DEF In, One
<1>4. CASE next \notin K
  <2>1. In(K)' = In(K) \ {s}
    BY <1>2, <1>4 DEF In, TypeOK
  <2>2. Cardinality(In(K) \ {s}) =
          IF s \in In(K) THEN Cardinality(In(K)) - 1 ELSE Cardinality(In(K))
    BY <1>1, FS_RemoveElement
  <2> QED
    BY <1>1, <1>4, <2>1, <2>2 DEF In, One
<1> QED
  BY <1>3, <1>4

LEMMA InitCounters == Init => CountersExact
<1> SUFFICES ASSUME Init PROVE CountersExact
  OBVIOUS
<1>1. /\ {s \in Sessions : pc[s] \in Counted} = {}
      /\ {s \in Sessions : pc[s] \in Measured} = {}
  BY DEF Init, Counted, Measured
<1> QED
  BY <1>1, FS_EmptySet DEF Init, CountersExact

\* Every step keeps the counters exact.  The steps that move no session leave
\* both sets alone; those that do are instances of Move.
LEMMA StepCounters ==
  ASSUME TypeOK, CountersExact, [Next]_vars
  PROVE  CountersExact'
<1> USE DEF session
<1> SUFFICES ASSUME Alive' PROVE /\ wg' = Cardinality(In(Counted)')
                                 /\ gauge' = Cardinality(In(Measured)')
  BY DEF CountersExact, In
<1>1. CASE UNCHANGED <<pc, wg, gauge, server>>
  BY <1>1 DEF CountersExact, In, Alive
<1>2. CASE UNCHANGED <<pc, wg, gauge>> /\ Alive
  BY <1>2 DEF CountersExact, In
<1>3. ASSUME Alive, NEW s \in Sessions, NEW next, Goto(s, next),
             wg' = wg + One(next \in Counted) - One(pc[s] \in Counted),
             gauge' = gauge + One(next \in Measured) - One(pc[s] \in Measured)
      PROVE  /\ wg' = Cardinality(In(Counted)')
             /\ gauge' = Cardinality(In(Measured)')
  <2>1. /\ wg = Cardinality(In(Counted))
        /\ gauge = Cardinality(In(Measured))
    BY <1>3 DEF CountersExact, In
  <2>2. Cardinality(In(Counted)') =
          Cardinality(In(Counted)) + One(next \in Counted) - One(pc[s] \in Counted)
    BY <1>3, Move
  <2>3. Cardinality(In(Measured)') =
          Cardinality(In(Measured)) + One(next \in Measured) - One(pc[s] \in Measured)
    BY <1>3, Move
  <2> QED
    BY <1>3, <2>1, <2>2, <2>3
<1> USE DEF Counted, Measured, One, TypeOK
<1>4. ASSUME Alive, NEW s \in Sessions, InsertVod(s)
      PROVE  /\ wg' = Cardinality(In(Counted)')
             /\ gauge' = Cardinality(In(Measured)')
  <2>1. CASE Goto(s, "ready")
    BY <1>3, <1>4, <2>1 DEF InsertVod
  <2>2. CASE Goto(s, "refused")
    BY <1>3, <1>4, <2>2 DEF InsertVod
  <2> QED
    BY <1>4, <2>1, <2>2 DEF InsertVod, Refuse
<1>5. ASSUME Alive, NEW s \in Sessions, Respond(s)
      PROVE  /\ wg' = Cardinality(In(Counted)')
             /\ gauge' = Cardinality(In(Measured)')
  <2>1. CASE Goto(s, "setup")
    <3>1. /\ wg' = wg + One("setup" \in Counted) - One(pc[s] \in Counted)
          /\ gauge' = gauge + One("setup" \in Measured) - One(pc[s] \in Measured)
      BY <1>5, <2>1 DEF Respond, Goto, Refuse
    <3> QED
      BY <1>3, <1>5, <2>1, <3>1
  <2>2. CASE Goto(s, "refused")
    <3>1. /\ wg' = wg + One("refused" \in Counted) - One(pc[s] \in Counted)
          /\ gauge' = gauge + One("refused" \in Measured) - One(pc[s] \in Measured)
      BY <1>5, <2>2 DEF Respond, Goto, Refuse
    <3> QED
      BY <1>3, <1>5, <2>2, <3>1
  <2> QED
    BY <1>5, <2>1, <2>2 DEF Respond, Refuse
<1>6. ASSUME Alive, NEW s \in Sessions, ProbeFails(s)
      PROVE  /\ wg' = Cardinality(In(Counted)')
             /\ gauge' = Cardinality(In(Measured)')
  <2>1. Goto(s, "teardown")
    BY <1>6 DEF ProbeFails
  <2> QED
    BY <1>3, <1>6, <2>1 DEF ProbeFails
<1>7. ASSUME Alive, NEW s \in Sessions, ProbeSucceeds(s)
      PROVE  /\ wg' = Cardinality(In(Counted)')
             /\ gauge' = Cardinality(In(Measured)')
  <2>1. Goto(s, "transmux")
    BY <1>7 DEF ProbeSucceeds
  <2> QED
    BY <1>3, <1>7, <2>1 DEF ProbeSucceeds
<1>8. ASSUME Alive, NEW s \in Sessions, Interrupt(s)
      PROVE  /\ wg' = Cardinality(In(Counted)')
             /\ gauge' = Cardinality(In(Measured)')
  <2>1. CASE Goto(s, "waiting")
    <3>1. /\ wg' = wg + One("waiting" \in Counted) - One(pc[s] \in Counted)
          /\ gauge' = gauge + One("waiting" \in Measured) - One(pc[s] \in Measured)
      BY <1>8, <2>1 DEF Interrupt, Signal, Goto
    <3> QED
      BY <1>3, <1>8, <2>1, <3>1
  <2>2. CASE Goto(s, "teardown")
    <3>1. /\ wg' = wg + One("teardown" \in Counted) - One(pc[s] \in Counted)
          /\ gauge' = gauge + One("teardown" \in Measured) - One(pc[s] \in Measured)
      BY <1>8, <2>2 DEF Interrupt, Signal, Goto
    <3> QED
      BY <1>3, <1>8, <2>2, <3>1
  <2> QED
    BY <1>8, <2>1, <2>2 DEF Interrupt, Signal
<1>9. ASSUME Alive, NEW s \in Sessions, FfmpegStopped(s)
      PROVE  /\ wg' = Cardinality(In(Counted)')
             /\ gauge' = Cardinality(In(Measured)')
  <2>1. Goto(s, "teardown")
    BY <1>9 DEF FfmpegStopped
  <2> QED
    BY <1>3, <1>9, <2>1 DEF FfmpegStopped
<1>10. ASSUME Alive, NEW s \in Sessions, Kill(s)
      PROVE  /\ wg' = Cardinality(In(Counted)')
             /\ gauge' = Cardinality(In(Measured)')
  <2>1. Goto(s, "teardown")
    BY <1>10 DEF Kill
  <2> QED
    BY <1>3, <1>10, <2>1 DEF Kill
<1>11. ASSUME Alive, NEW s \in Sessions, Cancel(s)
      PROVE  /\ wg' = Cardinality(In(Counted)')
             /\ gauge' = Cardinality(In(Measured)')
  <2>1. Goto(s, "closing")
    BY <1>11 DEF Cancel
  <2> QED
    BY <1>3, <1>11, <2>1 DEF Cancel
<1>12. ASSUME Alive, NEW s \in Sessions, Queue(s)
      PROVE  /\ wg' = Cardinality(In(Counted)')
             /\ gauge' = Cardinality(In(Measured)')
  <2>1. CASE Goto(s, "publish")
    <3>1. /\ wg' = wg + One("publish" \in Counted) - One(pc[s] \in Counted)
          /\ gauge' = gauge + One("publish" \in Measured) - One(pc[s] \in Measured)
      BY <1>12, <2>1 DEF Queue, Goto
    <3> QED
      BY <1>3, <1>12, <2>1, <3>1
  <2>2. CASE Goto(s, "closing")
    <3>1. /\ wg' = wg + One("closing" \in Counted) - One(pc[s] \in Counted)
          /\ gauge' = gauge + One("closing" \in Measured) - One(pc[s] \in Measured)
      BY <1>12, <2>2 DEF Queue, Goto
    <3> QED
      BY <1>3, <1>12, <2>2, <3>1
  <2> QED
    BY <1>12, <2>1, <2>2 DEF Queue
<1>13. ASSUME Alive, NEW s \in Sessions, PublishJob(s)
      PROVE  /\ wg' = Cardinality(In(Counted)')
             /\ gauge' = Cardinality(In(Measured)')
  <2>1. CASE Goto(s, "closing")
    BY <1>3, <1>13, <2>1 DEF PublishJob, JobsLeft
  <2>2. CASE UNCHANGED pc
    BY <1>2, <1>13, <2>2 DEF PublishJob, JobsLeft
  <2> QED
    BY <1>13, <2>1, <2>2 DEF PublishJob, JobsLeft
<1>14. ASSUME Alive, NEW s \in Sessions, Close(s)
      PROVE  /\ wg' = Cardinality(In(Counted)')
             /\ gauge' = Cardinality(In(Measured)')
  <2>1. Goto(s, "ended")
    BY <1>14 DEF Close, Alive
  <2> QED
    BY <1>3, <1>14, <2>1 DEF Close
<1>15. ASSUME Alive, NEW s \in Sessions,
             \/ Runner(s) \/ FfmpegWrites(s) \/ FfmpegExits(s) \/ Drop(s) \/ Age(s)
      PROVE  /\ wg' = Cardinality(In(Counted)')
             /\ gauge' = Cardinality(In(Measured)')
  BY <1>2, <1>15 DEF Runner, FfmpegStarts, RunnerReturns, FfmpegWrites, FfmpegExits, Drop, Age
<1>16. CASE Alive /\ (Shutdown \/ ServeReturns)
  BY <1>2, <1>16 DEF Shutdown, ServeReturns
<1>17. CASE Exit
  BY <1>17 DEF Exit, Alive
<1>18. CASE UNCHANGED vars
  BY <1>1, <1>18 DEF vars
<1> QED
  BY <1>4, <1>5, <1>6, <1>7, <1>8, <1>9, <1>10, <1>11, <1>12, <1>13, <1>14, <1>15, <1>16, <1>17, <1>18
  DEF Next, Step

\* Theorem: the WaitGroup and the gauge are exact on every path, so Serve
\* returns only when every session counted so far has done its teardown.
THEOREM CountersAreExact == SafeSpec => []CountersExact
<1>1. TypeOK /\ CountersExact /\ [Next]_vars => CountersExact'
  BY StepCounters
<1> QED
  BY TypeCorrect, InitCounters, <1>1, PTL DEF SafeSpec

=============================================================================
