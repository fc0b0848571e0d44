---------------------- MODULE StudioBrokerProperties ----------------------
(***************************************************************************)
(* What the Studio broker promises: fairness, safety, liveness, and the    *)
(* inductive invariants of its proofs.                                     *)
(***************************************************************************)
EXTENDS StudioBroker

\* The event loop runs every task that can take a step, timers expire, and the
\* shutdown sequence goes on.  Nothing is assumed of the worker, the backend,
\* the browser or the operator.
Fairness ==
  /\ WF_vars(PreflightFails \/ \E s \in Sessions, h \in BOOLEAN : PreflightPasses(s, h))
  /\ WF_vars(LibraryDone) /\ WF_vars(CloseFindsNoSession) /\ WF_vars(CloseAwaited)
  /\ WF_vars(CloseFinishes) /\ WF_vars(LeaseReleased)
  /\ \A s \in Sessions :
       /\ WF_vars(StartStep(s)) /\ WF_vars(EndStep(s))
       /\ WF_vars(MonitorReads(s) \/ MonitorEnds(s) \/ MonitorDeletesRoom(s))
       /\ WF_vars(WatchdogExpires(s)) /\ WF_vars(CloseEndsSession(s))

FairSpec == Spec /\ Fairness

-----------------------------------------------------------------------------
(* Safety.                                                                 *)

\* Inference may be in flight, in the worker or orphaned in the backend, only
\* while the durable marker exists: a crash of the broker at any point leaves
\* the marker behind for the next start (mark_active before the spawn,
\* mark_safe after a confirmed drain).
MarkerCoversWork == ~Quiet => marker

\* The backend runs one inference at a time: no two sessions have a live worker
\* or unfinished inference, across restarts of the broker too.
OneSessionBusy == \A s, t \in Sessions : Busy(s) /\ Busy(t) => s = t

\* Admission is open only when nothing runs and nothing is unresolved.
IdleIsQuiet == up /\ phase = "idle" => Quiet /\ ~marker /\ current = NoSession

\* The watchdog ends an audition through end_audition, which raises for any
\* session but Studio.audition, and an exception would end the watchdog: while
\* the watchdog runs, the current audition is always Studio.audition.
WatchdogFindsAudition ==
  closing = "open" /\ current # NoSession => (owned[current].kind = "audition" => audition = current)

\* A sample can be fetched only when no inference is in flight or unresolved.
\* The audio of one that failed or was cancelled is gone, and later lines of its
\* worker bring none back.
SampleIsSettled ==
  \A s \in Sessions :
    /\ up /\ audition = s /\ owned[s].result = "ready" => Quiet /\ ~marker
    /\ closing = "open" /\ owned[s].result \in {"failed", "cancelled"} => owned[s].pcm = "empty"

\* "blocked" is left, short of a restart, only with the work resolved.
UnblockedOnlyWhenResolved ==
  [][up /\ up' /\ phase = "blocked" /\ phase' # "blocked" => Quiet' /\ ~marker']_vars

\* A sample that failed or was cancelled never becomes available, whatever the
\* worker still reports.
ResultIsFinal ==
  [][\A s \in Sessions :
       owned'[s].result = "ready" /\ owned[s].result # "ready" =>
         owned[s].result = "generating"]_vars

\* An orderly shutdown releases the lease with every worker drained.
DrainedAtRelease == [][closing = "cleanup" /\ ~up' => Quiet]_vars

\* A healthy worker that is ended, whenever that happens, drains and leaves
\* Studio ready for another session.
NeverBlocked == phase # "blocked"

\* What the documentation says of a shutdown timeout: the marker stays in place
\* and admission stays blocked (docs/architecture.md:104).
TimeoutKeepsMarker ==
  [][up /\ up' /\ phase = "blocked" /\ marker => marker']_vars

-----------------------------------------------------------------------------
(* Liveness.                                                               *)

\* Every worker ends: the startup, heartbeat and age limits and the bounded
\* drain reap a worker that hangs.
WorkersReaped == \A s \in Sessions : Alive(s) ~> ~Alive(s)

\* No phase of a session lasts, so that the backend comes free: startup is over in time, a
\* drain ends in "idle" or "blocked", and a session held for playback is let go though the
\* browser is gone.
SessionsPass ==
  /\ phase = "starting" ~> phase # "starting"
  /\ phase = "draining" ~> phase \in {"idle", "blocked"}
  /\ \A s \in Sessions : (current = s /\ owned[s].playback) ~> current # s

\* Shutdown completes, whatever the worker does.
CloseCompletes == closing # "open" ~> ~up

-----------------------------------------------------------------------------
(* The inductive invariant.                                                *)

\* The inductive strengthening of MarkerCoversWork, OneSessionBusy and
\* IdleIsQuiet, one conjunct per idea.
Admitting(s) == owned[s].start \in {"checks", "room"}
Spawning(s) == owned[s].start \in {"mark", "spawn"}
Said(pipe) == \E i \in 1..Len(pipe) : pipe[i] = "safe"
SaysSafe(s) == owned[s].safe \/ Said(worker[s].pipe)

DownHoldsNothing ==
  ~up => /\ phase = "idle" /\ current = NoSession /\ lock = "free"
         /\ owned = [s \in Sessions |-> NoOne]

\* A process that was never forked has no inference and has said nothing.
UnbornIsSilent ==
  \A s \in Sessions : worker[s].stage = "none" => worker[s].work = "none"

\* A worker says that it drained safely only when it will not infer again.
SafeIsTrue ==
  \A s \in Sessions : SaysSafe(s) =>
    worker[s].stage \in {"exiting", "clean", "failed"} /\ worker[s].work = "none"

\* The marker is on disk before the spawn, and as long as anything may run.
MarkedBeforeSpawn ==
  \A s \in Sessions : Busy(s) \/ owned[s].start = "spawn" => marker

\* The broker never loses the session whose worker may run.
BusyIsCurrent ==
  up => \A s \in Sessions : Busy(s) \/ Spawning(s) => current = s

\* A start that has no session yet excludes every other one.
AdmittingIsAlone ==
  \A s \in Sessions : Admitting(s) =>
    /\ current = NoSession /\ phase # "idle" /\ lock # "preflight"
    /\ \A t \in Sessions : Admitting(t) => t = s

PreflightIsAlone == lock = "preflight" => current = NoSession /\ ~marker

IdleIsOpen == up /\ phase = "idle" => current = NoSession /\ ~marker

\* Nothing but the start task knows a session that has no process.
StartingIsUnmonitored ==
  \A s \in Sessions : Admitting(s) \/ Spawning(s) =>
    owned[s].monitor = "none" /\ ~owned[s].playback

\* The monitor deletes the room of a confirmed drain only.
DeletingIsConfirmed ==
  \A s \in Sessions : owned[s].monitor = "deleting" =>
    current = s /\ owned[s].kind = "room" /\ Confirmed(owned[s], worker[s])

HeldIsUnmarked ==
  \A s \in Sessions : current = s /\ owned[s].playback => ~marker

IInv ==
  /\ TypeOK
  /\ DownHoldsNothing /\ UnbornIsSilent /\ SafeIsTrue
  /\ MarkedBeforeSpawn /\ BusyIsCurrent /\ OneSessionBusy
  /\ AdmittingIsAlone /\ PreflightIsAlone /\ IdleIsOpen
  /\ StartingIsUnmonitored /\ DeletingIsConfirmed /\ HeldIsUnmarked

-----------------------------------------------------------------------------
(* The second inductive invariant, relative to IInv.                       *)

\* The inductive strengthening of SampleIsSettled, WatchdogFindsAudition and
\* UnblockedOnlyWhenResolved: which session the sample belongs to, and what the
\* monitor and the end task of a session know of its process.
UnclaimedIsUnmarked == up /\ current = NoSession => ~marker

LibraryIsAlone ==
  lock = "library" => current = NoSession /\ \A s \in Sessions : ~Admitting(s)

\* Before its process runs a session has no audio and no result.
StartingIsBlank ==
  \A s \in Sessions :
    /\ Admitting(s) => owned[s].kind = "room" /\ audition = NoSession
    /\ Admitting(s) \/ Spawning(s) => owned[s].pcm = "empty" /\ owned[s].result # "ready"

\* A conversation drops the sample, and an audition is the sample until shutdown.
CurrentIsAudition ==
  \A s \in Sessions : current = s =>
    IF owned[s].kind = "room" THEN audition = NoSession
    ELSE audition \in {s, NoSession} /\ (closing = "open" => audition = s)

ReadyIsHeld ==
  \A s \in Sessions : current = s /\ owned[s].result = "ready" => owned[s].playback

AudioIsKept ==
  closing = "open" =>
    \A s \in Sessions : owned[s].pcm # "empty" =>
      audition = s /\ owned[s].result \in {"generating", "ready"}

\* The handle and the monitor come together; an end task that waits, and a
\* session held for playback, have a monitor.
HandleIsMonitored ==
  \A s \in Sessions :
    /\ owned[s].handle <=> owned[s].monitor # "none"
    /\ owned[s].ending \in {"ack", "drain", "resume"} => owned[s].monitor # "none"
    /\ owned[s].playback => owned[s].monitor = "done"

MonitoredIsCurrent ==
  \A s \in Sessions : owned[s].monitor \in {"reading", "deleting", "failed"} => current = s

Spent(s)       == worker[s].stage \in {"exiting", "clean", "failed"}
Unclear(pipe)  == \E i \in 1..Len(pipe) : pipe[i] = "uncertain"
Sound(pipe)    == \A i \in 1..Len(pipe) : pipe[i] # "invalid"
Orderly(pipe)  == \A i, j \in 1..Len(pipe) :
                    pipe[i] = "uncertain" /\ i <= j => pipe[j] # "invalid"

\* An audition worker says that its inference is unknown when it ends, and
\* sends no audio after that.
UncertainIsLast ==
  \A s \in Sessions : owned[s].kind = "audition" =>
    (Unclear(worker[s].pipe) => Spent(s)) /\ Orderly(worker[s].pipe)

\* A line of an audition that is still heard cannot start its end task, and so
\* take the phase to "draining", once the phase is "blocked".
BlockedIsSpent ==
  \A s \in Sessions :
    /\ phase = "blocked" /\ current = s /\ AcceptsAudio(owned[s])
    /\ owned[s].monitor \in {"none", "reading"} /\ owned[s].ending = "none"
    => Spent(s) /\ Sound(worker[s].pipe)

SInv ==
  /\ UnclaimedIsUnmarked /\ LibraryIsAlone /\ StartingIsBlank
  /\ CurrentIsAudition /\ ReadyIsHeld /\ AudioIsKept
  /\ HandleIsMonitored /\ MonitoredIsCurrent /\ UncertainIsLast /\ BlockedIsSpent

-----------------------------------------------------------------------------
(* The third inductive invariant, of a broker whose workers are healthy.   *)

\* Only auditions are asked for, and nothing fails but the broker itself.
Healthy == Faults \subseteq {"brokerCrash", "roomCleanup"} /\ Kinds \subseteq {"audition"}

\* The inductive strengthening of NeverBlocked and DrainedAtRelease.
WorkSettles == \A s \in Sessions : worker[s].work # "uncertain"

\* The current session is an audition, and has its handle once it is spawned.
AuditionIsStarted ==
  \A s \in Sessions :
    /\ owned[s].start \notin {"checks", "room", "cleanup"}
    /\ owned[s].start = "stdin" => owned[s].handle
    /\ owned[s].handle \/ current = s => owned[s].kind = "audition"
    /\ current = s => Spawning(s) \/ owned[s].handle

Clean(pipe) == \A i \in 1..Len(pipe) : pipe[i] \notin {"uncertain", "unsafe"}
Begun(pipe) == \E i \in 1..Len(pipe) : pipe[i] = "started"

\* The worker w of the session object o does not fail, is signalled only when it
\* handles signals, and says that it drained before it exits.
Fit(o, w) ==
  /\ w.stage # "failed" /\ (o.handle => w.stage # "none") /\ Clean(w.pipe)
  /\ w.stage \in {"exiting", "clean"} => o.safe \/ Said(w.pipe)
  /\ o.stopReady \/ Begun(w.pipe) => w.stage \notin {"none", "booting"}
  /\ o.finished <=> o.safe

WorkerIsFit == \A s \in Sessions : current = s => Fit(owned[s], worker[s])

\* The monitor settles a confirmed drain, and the end task returns after it.
DrainIsClean ==
  \A s \in Sessions :
    /\ owned[s].monitor \notin {"failed", "deleting"}
    /\ owned[s].monitor = "done" => worker[s].stage = "clean" /\ worker[s].work = "none"
    /\ owned[s].ending # "none" => owned[s].handle /\ owned[s].ending # "room"
    /\ owned[s].ending = "done" => owned[s].monitor = "done"

StarterSpawns == \A s \in Sessions : Spawning(s) => starter = s

\* The shutdown sequence leaves the start task, then the end task, behind it.
ClosingIsOrderly ==
  /\ closing \in {"end", "final", "cleanup"} => \A s \in Sessions : ~Spawning(s)
  /\ closing = "end" => awaited \in Sessions /\ current \in {awaited, NoSession}
  /\ closing \in {"final", "cleanup"} => Quiet

HInv ==
  /\ NeverBlocked /\ WorkSettles /\ AuditionIsStarted /\ WorkerIsFit
  /\ DrainIsClean /\ StarterSpawns /\ ClosingIsOrderly

=============================================================================
