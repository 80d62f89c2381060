----------------------------- MODULE Recording -----------------------------
(***************************************************************************)
(* What one transmuxer process does with the publishers it has accepted:   *)
(* handleConn in rtmp.go from the insertion of the VOD document to the     *)
(* deferred teardown, the ffmpeg process it supervises, the WaitGroup that *)
(* Serve waits for, and the shutdown in main.go.                           *)
(*                                                                         *)
(* What cancels a session from outside (another session's drop, a keeper   *)
(* that fails) is the step Drop; StreamLock says when it happens.          *)
(* MongoDB, RabbitMQ, ffprobe and ffmpeg are external.                     *)
(***************************************************************************)
EXTENDS Integers, FiniteSets

CONSTANTS Sessions,     \* the publisher connections of the process
          MaxVariants,  \* renditions a recording may have (3 in the code)
          Faults        \* TRUE: MongoDB and RabbitMQ calls may fail

ASSUME RecordingAssumption == /\ IsFiniteSet(Sessions)
                              /\ MaxVariants \in Nat \ {0}
                              /\ Faults \in BOOLEAN

VARIABLES
  pc,         \* where handleConn is
  cancelled,  \* the session's ctx is done
  old,        \* the stream started more than a minute ago
  ffmpeg,     \* the goroutine that runs ffmpeg
  process,    \* ffmpegCmd.Process is set: ffmpeg was started
  killed,     \* the 15 s for ffmpeg to stop ran out
  fatal,      \* handleConn panicked and is unwinding
  file,       \* <vodID>.flv exists
  variants,   \* number of renditions found by the probe
  vod,        \* vod_state of the document, "none" before it is inserted
  jobs,       \* transcode jobs published
  wg, gauge,  \* Server.wg and the current-stream gauge
  down,       \* gCtx is cancelled
  server      \* the process

session == <<old, ffmpeg, process, killed, fatal, file, variants, vod, jobs>>
vars == <<pc, cancelled, old, ffmpeg, process, killed, fatal, file, variants,
          vod, jobs, wg, gauge, down, server>>

\* The sessions the WaitGroup counts, and those the gauge counts.
Counted  == {"setup", "transmux", "waiting", "teardown", "publish", "closing"}
Measured == {"setup", "transmux", "waiting", "teardown"}
Running(s) == pc[s] \notin {"refused", "ended", "dead"}
Alive == server \in {"serving", "drained"}

Init ==
  /\ pc        = [s \in Sessions |-> "auth"]
  /\ cancelled = [s \in Sessions |-> FALSE]
  /\ old       = [s \in Sessions |-> FALSE]
  /\ ffmpeg    = [s \in Sessions |-> "none"]
  /\ process   = [s \in Sessions |-> FALSE]
  /\ killed    = [s \in Sessions |-> FALSE]
  /\ fatal     = [s \in Sessions |-> FALSE]
  /\ file      = [s \in Sessions |-> FALSE]
  /\ variants  = [s \in Sessions |-> 0]
  /\ vod       = [s \in Sessions |-> "none"]
  /\ jobs      = [s \in Sessions |-> 0]
  /\ wg = 0
  /\ gauge = 0
  /\ down = FALSE
  /\ server = "serving"

Goto(s, next) == pc' = [pc EXCEPT ![s] = next]

-----------------------------------------------------------------------------
(* Before the session is counted *)

\* ReadMsg returns an error: the connection is closed, handleConn returns and
\* cancels ctx, and no teardown is registered yet.
Refuse(s) == /\ Goto(s, "refused")
             /\ cancelled' = [cancelled EXCEPT ![s] = TRUE]

\* The end of the auth callback: the document is inserted, or anything before
\* fails, or InsertOne fails with or without effect.
InsertVod(s) ==
  /\ pc[s] = "auth"
  /\ \/ /\ ~cancelled[s]
        /\ vod' = [vod EXCEPT ![s] = "live"]
        /\ Goto(s, "ready")
        /\ UNCHANGED cancelled
     \/ /\ UNCHANGED vod
        /\ Refuse(s)
     \/ /\ cancelled[s] \/ Faults
        /\ vod' = [vod EXCEPT ![s] = "live"]
        /\ Refuse(s)
  /\ UNCHANGED <<old, ffmpeg, process, killed, fatal, file, variants, jobs,
                 wg, gauge, down, server>>

\* The publish response reaches the publisher and the session is counted, or
\* the connection is gone and nobody settles the document.
Respond(s) ==
  /\ pc[s] = "ready"
  /\ \/ /\ Goto(s, "setup")
        /\ wg' = wg + 1
        /\ gauge' = gauge + 1
        /\ UNCHANGED cancelled
     \/ Refuse(s) /\ UNCHANGED <<wg, gauge>>
  /\ UNCHANGED <<session, down, server>>

-----------------------------------------------------------------------------
(* Probing and ffmpeg *)

\* Mutant: an early return that skips the teardown.
ProbeFailsBare(s) ==
  /\ pc[s] = "setup"
  /\ Goto(s, "ended")
  /\ UNCHANGED <<cancelled, session, wg, gauge, down, server>>

\* ffprobe fails or is killed with ctx, or what it found is not accepted.
ProbeFails(s) ==
  /\ pc[s] = "setup"
  /\ Goto(s, "teardown")
  /\ UNCHANGED <<cancelled, session, wg, gauge, down, server>>

\* The stream is accepted in n renditions and the goroutine that runs ffmpeg
\* is started; handleConn waits for ctx.
ProbeSucceeds(s) ==
  /\ pc[s] = "setup"
  /\ ~cancelled[s]
  /\ \E n \in 1..MaxVariants : variants' = [variants EXCEPT ![s] = n]
  /\ ffmpeg' = [ffmpeg EXCEPT ![s] = "starting"]
  /\ Goto(s, "transmux")
  /\ UNCHANGED <<cancelled, old, process, killed, fatal, file, vod, jobs,
                 wg, gauge, down, server>>

\* Run starts the process, or returns because it cannot.
FfmpegStarts(s) ==
  /\ ffmpeg[s] = "starting"
  /\ \/ /\ ffmpeg' = [ffmpeg EXCEPT ![s] = "running"]
        /\ process' = [process EXCEPT ![s] = TRUE]
     \/ /\ ffmpeg' = [ffmpeg EXCEPT ![s] = "exited"]
        /\ UNCHANGED process
  /\ UNCHANGED <<pc, cancelled, old, killed, fatal, file, variants, vod, jobs,
                 wg, gauge, down, server>>

FfmpegWrites(s) ==
  /\ ffmpeg[s] = "running"
  /\ ~file[s]
  /\ file' = [file EXCEPT ![s] = TRUE]
  /\ UNCHANGED <<pc, cancelled, old, ffmpeg, process, killed, fatal, variants,
                 vod, jobs, wg, gauge, down, server>>

\* The stream ended, ffmpeg failed, or it obeyed a signal.
FfmpegExits(s) ==
  /\ ffmpeg[s] = "running"
  /\ ffmpeg' = [ffmpeg EXCEPT ![s] = "exited"]
  /\ UNCHANGED <<pc, cancelled, old, process, killed, fatal, file, variants,
                 vod, jobs, wg, gauge, down, server>>

\* Run returned: the goroutine's deferred cancel() and ffmpegCancel().
RunnerReturns(s) ==
  /\ ffmpeg[s] = "exited"
  /\ ffmpeg' = [ffmpeg EXCEPT ![s] = "done"]
  /\ cancelled' = [cancelled EXCEPT ![s] = TRUE]
  /\ UNCHANGED <<pc, old, process, killed, fatal, file, variants, vod, jobs,
                 wg, gauge, down, server>>

\* ffmpeg is told to stop.  Process is nil when ffmpeg was never started or is
\* not yet, and Signal on it panics.
Signal(s) ==
  /\ Goto(s, IF process[s] THEN "waiting" ELSE "teardown")
  /\ fatal' = [fatal EXCEPT ![s] = ~process[s]]
  /\ UNCHANGED <<cancelled, old, ffmpeg, process, killed, file, variants, vod,
                 jobs, wg, gauge, down, server>>

\* Mutant: handleConn waits for ffmpeg instead of ctx.
InterruptLate(s) == pc[s] = "transmux" /\ ffmpeg[s] = "done" /\ Signal(s)

\* ctx is done.
Interrupt(s) == pc[s] = "transmux" /\ cancelled[s] /\ Signal(s)

\* Mutant: nobody waits for ffmpeg after the signal.
FfmpegNotAwaited(s) ==
  /\ pc[s] = "waiting"
  /\ Goto(s, "teardown")
  /\ UNCHANGED <<cancelled, session, wg, gauge, down, server>>

FfmpegStopped(s) ==
  /\ pc[s] = "waiting"
  /\ ffmpeg[s] = "done"
  /\ Goto(s, "teardown")
  /\ UNCHANGED <<cancelled, session, wg, gauge, down, server>>

\* Mutant: no limit on the wait.
NeverKill(s) == FALSE

\* 15 s have passed: ffmpeg is killed, and nobody waits for it to be gone.
Kill(s) ==
  /\ pc[s] = "waiting"
  /\ ffmpeg[s] # "done"
  /\ killed' = [killed EXCEPT ![s] = TRUE]
  /\ Goto(s, "teardown")
  /\ UNCHANGED <<cancelled, old, ffmpeg, process, fatal, file, variants, vod,
                 jobs, wg, gauge, down, server>>

-----------------------------------------------------------------------------
(* The deferred teardown *)

\* UpdateOne takes the global context, so it fails once the process is
\* shutting down; a call that fails may have had its effect.
UpdateFails == down \/ Faults

\* A stream of less than a minute: its document is canceled, its file removed.
Cancel(s) ==
  /\ pc[s] = "teardown"
  /\ ~old[s]
  /\ gauge' = gauge - 1
  /\ Goto(s, "closing")
  /\ \/ /\ ~down
        /\ vod' = [vod EXCEPT ![s] = "canceled"]
        /\ file' = [file EXCEPT ![s] = FALSE]
     \/ /\ UpdateFails
        /\ \/ vod' = [vod EXCEPT ![s] = "canceled"]
           \/ UNCHANGED vod
        /\ UNCHANGED file
  /\ UNCHANGED <<cancelled, old, ffmpeg, process, killed, fatal, variants, jobs,
                 wg, down, server>>

\* Mutant: the jobs are published although the update failed.
QueueRegardless(s) ==
  /\ pc[s] = "teardown"
  /\ old[s]
  /\ gauge' = gauge - 1
  /\ \/ vod' = [vod EXCEPT ![s] = "queued"]
     \/ UpdateFails /\ UNCHANGED vod
  /\ Goto(s, "publish")
  /\ UNCHANGED <<cancelled, old, ffmpeg, process, killed, fatal, file, variants,
                 jobs, wg, down, server>>

\* A longer one: its document is queued, and its jobs are published next.
Queue(s) ==
  /\ pc[s] = "teardown"
  /\ old[s]
  /\ gauge' = gauge - 1
  /\ \/ /\ ~down
        /\ vod' = [vod EXCEPT ![s] = "queued"]
        /\ Goto(s, "publish")
     \/ /\ UpdateFails
        /\ \/ vod' = [vod EXCEPT ![s] = "queued"]
           \/ UNCHANGED vod
        /\ Goto(s, "closing")
  /\ UNCHANGED <<cancelled, old, ffmpeg, process, killed, fatal, file, variants,
                 jobs, wg, down, server>>

\* Mutant: a job for a rendition that does not exist.
JobsLeftOneMore(s) == jobs[s] <= variants[s]

\* Mutant: the last rendition is forgotten.
JobsLeftOneLess(s) == jobs[s] + 1 < variants[s]

JobsLeft(s) == jobs[s] < variants[s]

\* One job per rendition; the first error skips the rest.
PublishJob(s) ==
  /\ pc[s] = "publish"
  /\ \/ /\ JobsLeft(s)
        /\ jobs' = [jobs EXCEPT ![s] = @ + 1]
        /\ UNCHANGED pc
     \/ /\ ~JobsLeft(s) \/ Faults
        /\ Goto(s, "closing")
        /\ UNCHANGED jobs
  /\ UNCHANGED <<cancelled, old, ffmpeg, process, killed, fatal, file, variants,
                 vod, wg, gauge, down, server>>

\* wg.Done() and the deferred cancel().  A panic then ends the process, and
\* every other session with it.
Close(s) ==
  /\ pc[s] = "closing"
  /\ wg' = wg - 1
  /\ cancelled' = [cancelled EXCEPT ![s] = TRUE]
  /\ IF fatal[s]
     THEN /\ pc' = [t \in Sessions |-> IF t = s THEN "ended"
                                       ELSE IF Running(t) THEN "dead" ELSE pc[t]]
          /\ server' = "crashed"
     ELSE /\ Goto(s, "ended")
          /\ UNCHANGED server
  /\ UNCHANGED <<session, gauge, down>>

-----------------------------------------------------------------------------
(* The process and its surroundings *)

\* A drop or a failing keeper cancels the session.
Drop(s) ==
  /\ Running(s)
  /\ ~cancelled[s]
  /\ cancelled' = [cancelled EXCEPT ![s] = TRUE]
  /\ UNCHANGED <<pc, session, wg, gauge, down, server>>

\* The stream has lasted a minute.  Nothing bounds the time a session spends
\* before ffmpeg runs, so this may happen to one that has recorded nothing.
Age(s) ==
  /\ Running(s)
  /\ ~old[s]
  /\ old' = [old EXCEPT ![s] = TRUE]
  /\ UNCHANGED <<pc, cancelled, ffmpeg, process, killed, fatal, file, variants,
                 vod, jobs, wg, gauge, down, server>>

\* SIGINT or SIGTERM.
Shutdown ==
  /\ ~down
  /\ down' = TRUE
  /\ cancelled' = [s \in Sessions |-> TRUE]
  /\ UNCHANGED <<pc, session, wg, gauge, server>>

\* wg.Wait() returns, so Serve does, and main is on its way to os.Exit.
ServeReturns ==
  /\ server = "serving"
  /\ down
  /\ wg = 0
  /\ server' = "drained"
  /\ UNCHANGED <<pc, cancelled, session, wg, gauge, down>>

\* os.Exit(0); or, a minute after the signal or at the second one, the forced
\* shutdown.  Sessions that have not finished are gone.
Exit ==
  /\ server = "drained" \/ down
  /\ server' = "exited"
  /\ pc' = [s \in Sessions |-> IF Running(s) THEN "dead" ELSE pc[s]]
  /\ UNCHANGED <<cancelled, session, wg, gauge, down>>

Step(s) == \/ InsertVod(s) \/ Respond(s) \/ ProbeFails(s) \/ ProbeSucceeds(s)
           \/ Interrupt(s) \/ FfmpegStopped(s) \/ Kill(s)
           \/ Cancel(s) \/ Queue(s) \/ PublishJob(s) \/ Close(s)
Runner(s) == FfmpegStarts(s) \/ RunnerReturns(s)

Next == /\ Alive
        /\ \/ \E s \in Sessions : \/ Step(s) \/ Runner(s)
                                  \/ FfmpegWrites(s) \/ FfmpegExits(s)
                                  \/ Drop(s) \/ Age(s)
           \/ Shutdown \/ ServeReturns \/ Exit

SafeSpec == Init /\ [][Next]_vars

\* handleConn and the goroutine of ffmpeg make progress; ffmpeg itself need
\* not exit, and nobody has to force the shutdown.
Fairness == /\ \A s \in Sessions : /\ WF_vars(Alive /\ Step(s))
                                   /\ WF_vars(Alive /\ Runner(s))
            /\ WF_vars(Alive /\ ServeReturns)

Spec == SafeSpec /\ Fairness

-----------------------------------------------------------------------------
(* Properties *)

\* Every variable has its type.
TypeOK ==
  /\ pc \in [Sessions -> {"auth", "ready", "refused", "ended", "dead"} \union Counted]
  /\ cancelled \in [Sessions -> BOOLEAN]
  /\ old \in [Sessions -> BOOLEAN]
  /\ ffmpeg \in [Sessions -> {"none", "starting", "running", "exited", "done"}]
  /\ process \in [Sessions -> BOOLEAN]
  /\ killed \in [Sessions -> BOOLEAN]
  /\ fatal \in [Sessions -> BOOLEAN]
  /\ file \in [Sessions -> BOOLEAN]
  /\ variants \in [Sessions -> 0..MaxVariants]
  /\ vod \in [Sessions -> {"none", "live", "canceled", "queued"}]
  /\ jobs \in [Sessions -> 0..MaxVariants]
  /\ wg \in Int
  /\ gauge \in Int
  /\ down \in BOOLEAN
  /\ server \in {"serving", "drained", "exited", "crashed"}

\* The WaitGroup and the gauge count exactly the sessions between their
\* increments and decrements, on every path out of handleConn, the panicking
\* one included: neither leaks and neither becomes negative.
CountersExact ==
  Alive => /\ wg = Cardinality({s \in Sessions : pc[s] \in Counted})
           /\ gauge = Cardinality({s \in Sessions : pc[s] \in Measured})

\* A transcode job exists only for a document that says queued, lists that
\* rendition and is more than a minute old.
JobsBacked ==
  \A s \in Sessions :
    jobs[s] > 0 => vod[s] = "queued" /\ jobs[s] <= variants[s] /\ old[s]

\* A job is published only when ffmpeg has finished with the file, unless it
\* was killed for not stopping, or never started (the panicking path).
JobAfterFfmpeg ==
  \A s \in Sessions :
    jobs[s] > 0 => ffmpeg[s] = "done" \/ killed[s] \/ fatal[s]

\* What a session that was counted leaves behind while the process is not
\* shutting down and the services answer: a canceled document, or a queued
\* one with a job for each of its renditions; never one that says live.
Settled ==
  \A s \in Sessions :
    pc[s] = "ended" /\ ~down /\ ~Faults =>
      \/ vod[s] = "canceled" /\ jobs[s] = 0
      \/ vod[s] = "queued" /\ jobs[s] = variants[s]

\* Graceful shutdown ends, even when ffmpeg ignores its signal.
ShutdownCompletes == down ~> server # "serving"

\* A cancelled session returns, or its process is gone.
CancelEnds == \A s \in Sessions : cancelled[s] ~> ~Running(s)

\* README.md:3: a stream that was transmuxed into a file (for more than the
\* minute that makes it a recording) is queued to be transcoded.
RecordedIsQueued ==
  \A s \in Sessions :
    pc[s] = "ended" /\ old[s] /\ file[s] /\ variants[s] > 0 => vod[s] # "live"

=============================================================================
