---------------------------- MODULE StudioBroker ----------------------------
(***************************************************************************)
(* The Studio broker (examples/studio.py, class Studio and serve) with the *)
(* worker process it owns (examples/studio_worker.py and                   *)
(* examples/audition_worker.py) and the durable marker of the backend      *)
(* lease (examples/backend_lease.py).                                      *)
(*                                                                         *)
(* The broker is one asyncio event loop: an action is the code between two *)
(* awaits of one task.  Its tasks are the start task, the monitor and the  *)
(* end task of each session, the watchdog, the request handlers and the    *)
(* shutdown sequence; the worker, the backend and the operator are         *)
(* processes of their own.  Time is abstracted: a timeout may fire         *)
(* whenever its timer is running.                                          *)
(***************************************************************************)
EXTENDS Naturals, Sequences

CONSTANTS
  Sessions,   \* OwnedSession objects; an object nobody refers to is reused
  NoSession,  \* Python's None where a session is expected
  PipeCap,    \* lines the worker's stdout holds before the worker blocks
  Kinds,      \* the kinds of session requested: "room", "audition"
  Faults      \* the faults of the environment that may happen

FaultKinds == {"brokerCrash", "workerCrash", "overlongLine", "uncertain",
               "drainTimeout", "roomCleanup", "slowSpawn", "lateRequest"}

ASSUME ConstantsOK ==
  /\ NoSession \notin Sessions
  /\ PipeCap \in Nat \ {0}
  /\ Kinds \subseteq {"room", "audition"}
  /\ Faults \subseteq FaultKinds

VARIABLES
  up,        \* the broker process runs and holds the file lock of the lease
  marker,    \* the durable "unresolved work" file exists
  phase,     \* Studio.phase
  current,   \* Studio.current
  audition,  \* Studio.audition
  lock,      \* what holds Studio.lock across an await
  starter,   \* the session of Studio.start_task
  closing,   \* where the shutdown sequence of serve() stands
  awaited,   \* the session whose end task close() waits for
  owned,     \* the OwnedSession objects, with the state of their tasks
  worker     \* the worker process of each session, its pipe and its inference

vars == <<up, marker, phase, current, audition, lock, starter, closing,
          awaited, owned, worker>>
admission == <<up, marker, closing, awaited, lock, starter>>
shutdown  == <<up, closing, awaited>>

-----------------------------------------------------------------------------
(* The data of a session.                                                  *)

Event == {"started", "ready", "voiced", "silent", "invalid", "draining",
          "uncertain", "error", "safe", "unsafe"}

Owned == [kind       : {"room", "audition"},
          hold       : BOOLEAN,               \* hold_playback
          handle     : BOOLEAN,               \* process is not None
          start      : {"none", "checks", "room", "mark", "spawn", "stdin", "cleanup"},
          monitor    : {"none", "reading", "deleting", "done", "failed"},
          ending     : {"none", "new", "ack", "drain", "resume", "room", "done"}, \* end_task
          finished   : BOOLEAN,
          safe       : BOOLEAN,
          stopReady  : BOOLEAN,
          result     : {"generating", "ready", "failed", "cancelled"}, \* audition_state
          pcm        : {"empty", "silent", "voiced"},
          completed  : BOOLEAN,
          playback   : BOOLEAN]               \* playback_admitted

NewSession(k, h, at) ==
  [kind |-> k, hold |-> h, handle |-> FALSE, start |-> at, monitor |-> "none",
   ending |-> "none", finished |-> FALSE, safe |-> FALSE, stopReady |-> FALSE,
   result |-> "generating", pcm |-> "empty", completed |-> FALSE,
   playback |-> FALSE]

NoOne == NewSession("room", FALSE, "none")

AliveStages == {"booting", "starting", "serving", "draining", "exiting"}

Worker == [stage : AliveStages \cup {"none", "clean", "failed"},
            work  : {"none", "running", "uncertain"}, \* its inference
           pipe  : Seq(Event)]

NoWorker == [stage |-> "none", work |-> "none", pipe |-> <<>>]

Alive(s) == worker[s].stage \in AliveStages
Busy(s)  == Alive(s) \/ worker[s].work # "none"
Quiet    == \A s \in Sessions : ~Busy(s)

\* Slip: the return code alone is taken for a confirmed drain.
ConfirmedByExit(o, w) == w.stage = "clean"

\* The worker of w ended with return code 0 after it reported a safe drain.
Confirmed(o, w) == o.finished /\ o.safe /\ w.stage = "clean"

\* Nothing refers to the object s any more, so that it may be a new session.
Fresh(s) ==
  /\ s \notin {current, audition, awaited}
  /\ ~Busy(s)
  /\ owned[s].start = "none"
  /\ owned[s].monitor \in {"none", "done", "failed"}
  /\ owned[s].ending \in {"none", "done"}

TypeOK ==
  /\ up \in BOOLEAN
  /\ marker \in BOOLEAN
  /\ phase \in {"idle", "starting", "active", "draining", "blocked"}
  /\ current \in Sessions \cup {NoSession}
  /\ audition \in Sessions \cup {NoSession}
  /\ lock \in {"free", "preflight", "library"}
  /\ starter \in Sessions \cup {NoSession}
  /\ closing \in {"open", "start", "end", "final", "cleanup"}
  /\ awaited \in Sessions \cup {NoSession}
  /\ owned \in [Sessions -> Owned]
  /\ worker \in [Sessions -> Worker]

Init ==
  /\ up = FALSE
  /\ marker = FALSE
  /\ phase = "idle"
  /\ current = NoSession
  /\ audition = NoSession
  /\ lock = "free"
  /\ starter = NoSession
  /\ closing = "open"
  /\ awaited = NoSession
  /\ owned = [s \in Sessions |-> NoOne]
  /\ worker = [s \in Sessions |-> NoWorker]

-----------------------------------------------------------------------------
(* The lease and the life of the broker process.                           *)

\* serve() takes the lease.  Confirmation removes the marker, and it is the
\* operator's word that the backend and every worker have stopped.
Serve(confirmed) ==
  /\ ~up
  /\ confirmed => Quiet
  /\ ~confirmed => ~marker
  /\ up' = TRUE
  /\ marker' = FALSE
  /\ UNCHANGED <<phase, current, audition, lock, starter, closing, awaited,
                 owned, worker>>

\* The process is gone: the lock of the lease is free, memory is lost, the
\* marker stays.
BrokerGone ==
  /\ up' = FALSE
  /\ phase' = "idle"
  /\ current' = NoSession
  /\ audition' = NoSession
  /\ lock' = "free"
  /\ starter' = NoSession
  /\ closing' = "open"
  /\ awaited' = NoSession
  /\ owned' = [s \in Sessions |-> NoOne]
  /\ UNCHANGED <<marker, worker>>

BrokerCrashes == up /\ "brokerCrash" \in Faults /\ BrokerGone

\* With Studio down, the operator stops the workers and restarts the backend.
OperatorRestartsBackend ==
  /\ ~up
  /\ ~Quiet
  /\ worker' = [s \in Sessions |-> NoWorker]
  /\ UNCHANGED <<up, marker, phase, current, audition, lock, starter, closing,
                 awaited, owned>>

-----------------------------------------------------------------------------
(* Ending a session.                                                       *)

\* clear_audition, as it leaves the session objects given by os.
Cleared(os) ==
  IF audition = NoSession THEN os ELSE [os EXCEPT ![audition].pcm = "empty"]

\* end(): the session s, whose object is o when end() is called.
End(s, o) ==
  LET stopped == IF o.kind = "audition"
                 THEN [o EXCEPT !.pcm = "empty",
                                !.result = IF @ = "generating" THEN "cancelled" ELSE @]
                 ELSE o
      held == o.kind = "audition" /\ o.playback /\ o.handle /\ Confirmed(o, worker[s])
  IN \/ /\ held
        /\ current' = NoSession
        /\ phase' = "idle"
        /\ owned' = [owned EXCEPT ![s] = stopped]
     \/ /\ ~held
        /\ o.ending = "none"
        /\ phase' = IF phase = "blocked" THEN phase ELSE "draining"
        /\ owned' = [owned EXCEPT ![s] = [stopped EXCEPT !.ending = "new"]]
        /\ UNCHANGED current
     \/ /\ ~held
        /\ o.ending # "none"
        /\ owned' = [owned EXCEPT ![s] = stopped]
        /\ UNCHANGED <<current, phase>>

\* end_audition(): refused unless s is still the audition of the broker.
EndAudition(s, o) ==
  LET stopped == [o EXCEPT !.pcm = "empty",
                           !.result = IF @ = "failed" THEN @ ELSE "cancelled"]
  IN \/ /\ audition # s
        /\ owned' = [owned EXCEPT ![s] = o]
        /\ UNCHANGED <<current, phase>>
     \/ /\ audition = s
        /\ current = s
        /\ End(s, stopped)
     \/ /\ audition = s
        /\ current # s
        /\ owned' = [owned EXCEPT ![s] = stopped]
        /\ UNCHANGED <<current, phase>>

-----------------------------------------------------------------------------
(* The worker process.  An event is one line of its standard output.       *)

CanReport(s) == Len(worker[s].pipe) < PipeCap

Moves(s, w) ==
  /\ worker' = [worker EXCEPT ![s] = w]
  /\ UNCHANGED <<admission, phase, current, audition, owned>>

\* run() installs the signal handlers; only the audition worker says so.
WorkerBoots(s) ==
  /\ worker[s].stage = "booting"
  /\ Moves(s, [worker[s] EXCEPT
                !.stage = "starting",
                !.pipe = IF owned[s].kind = "audition" THEN Append(@, "started") ELSE @])

\* Loading the model, the warm-up, a reply or a sample.
WorkerInfers(s) ==
  /\ worker[s].stage \in {"starting", "serving"}
  /\ worker[s].work = "none"
  /\ Moves(s, [worker[s] EXCEPT !.work = "running"])

\* The inference ends, whether or not its worker is still there.
BackendSettles(s) ==
  /\ worker[s].work = "running"
  /\ Moves(s, [worker[s] EXCEPT !.work = "none"])

\* The provider loses sight of its inference for good.  The room worker says so in the warm-up,
\* in a reply and in its drain alike, since provider_error is registered before any of them.
BackendUncertain(s) ==
  /\ "uncertain" \in Faults
  /\ Alive(s)
  /\ worker[s].work = "running"
  /\ \/ Moves(s, [worker[s] EXCEPT !.work = "uncertain"])
     \/ /\ owned[s].kind = "room"
        /\ worker[s].stage \in {"starting", "serving", "draining"}
        /\ CanReport(s)
        /\ Moves(s, [worker[s] EXCEPT !.work = "uncertain",
                                      !.pipe = Append(@, "uncertain")])

WorkerReady(s) ==
  /\ worker[s].stage = "starting"
  /\ CanReport(s)
  /\ Moves(s, [worker[s] EXCEPT !.stage = "serving", !.pipe = Append(@, "ready")])

WorkerSpeaks(s) ==
  /\ owned[s].kind = "audition"
  /\ worker[s].stage = "serving"
  /\ CanReport(s)
  /\ \E chunk \in {"voiced", "silent", "invalid"} :
       Moves(s, [worker[s] EXCEPT !.pipe = Append(@, chunk)])

\* A signal, the owner leaving, the end of the sample or a failure.
WorkerStops(s) ==
  /\ worker[s].stage \in {"starting", "serving"}
  /\ CanReport(s)
  /\ \E report \in {<<"draining">>, <<"error", "draining">>} :
       Moves(s, [worker[s] EXCEPT !.stage = "draining", !.pipe = @ \o report])

\* provider.aclose() returned or raised: the report of a safe drain is the
\* worker's word that its inference is over.
WorkerFinishes(s) ==
  LET unsafe == IF owned[s].kind = "audition" THEN <<"uncertain", "unsafe">>
                                              ELSE <<"error", "unsafe">>
  IN /\ worker[s].stage = "draining"
     /\ worker[s].work # "running"
     /\ CanReport(s)
     /\ Moves(s, [worker[s] EXCEPT
                   !.stage = "exiting",
                   !.pipe = @ \o (IF worker[s].work = "none" THEN <<"safe">> ELSE unsafe)])

\* A failure in the final clauses of run() leaves a nonzero return code.
WorkerExits(s) ==
  /\ worker[s].stage = "exiting"
  /\ \E stage \in {"clean"} \cup (IF "workerCrash" \in Faults THEN {"failed"} ELSE {}) :
       Moves(s, [worker[s] EXCEPT !.stage = stage])

\* A crash, or the exit of a worker whose broker is gone.
WorkerCrashes(s) ==
  /\ Alive(s)
  /\ "workerCrash" \in Faults \/ ~up
  /\ Moves(s, [worker[s] EXCEPT !.stage = "failed"])

\* SIGTERM kills a worker that has not installed its handler; any other worker
\* may then stop, as it may at any time (WorkerStops).
Signalled(w) == IF w.stage = "booting" THEN [w EXCEPT !.stage = "failed"] ELSE w

Killed(w) == IF w.stage \in AliveStages THEN [w EXCEPT !.stage = "failed"] ELSE w

-----------------------------------------------------------------------------
(* Starting a session.                                                     *)

\* Slip: only the current session is looked at, not the phase.
RequireNoSession == closing = "open" /\ current = NoSession

\* require_idle, and the guard of create().
RequireIdle == closing = "open" /\ phase = "idle" /\ current = NoSession

\* create(), under Studio.lock.
RequestRoom(s) ==
  /\ up /\ lock = "free" /\ RequireIdle
  /\ "room" \in Kinds /\ Fresh(s)
  /\ phase' = "starting"
  /\ audition' = NoSession
  /\ owned' = [Cleared(owned) EXCEPT ![s] = NewSession("room", FALSE, "checks")]
  /\ worker' = [worker EXCEPT ![s] = NoWorker]
  /\ starter' = s
  /\ UNCHANGED <<shutdown, marker, current, lock>>

\* Slip: a failed start forgets mark_safe.
NotStartedButMarked(s, o) ==
  /\ current' = NoSession
  /\ phase' = "idle"
  /\ owned' = [owned EXCEPT ![s] = o]
  /\ UNCHANGED marker

\* What _create and _start_audition do when there is no worker: the marker is
\* cleared and admission is open again.
NotStarted(s, o) ==
  /\ marker' = FALSE
  /\ current' = NoSession
  /\ phase' = "idle"
  /\ owned' = [owned EXCEPT ![s] = o]

\* The endpoint, the recognizer and the status of the provider.
CreateChecks(s) ==
  /\ up /\ owned[s].start = "checks"
  /\ \/ NotStarted(s, [owned[s] EXCEPT !.start = "none"])
     \/ /\ owned' = [owned EXCEPT ![s].start = "room"]
        /\ UNCHANGED <<marker, current, phase>>
  /\ UNCHANGED <<shutdown, audition, lock, starter, worker>>

\* list_rooms and create_room fail, or the room exists and the work is marked.
CreateRoom(s) ==
  /\ up /\ owned[s].start = "room"
  /\ \/ NotStarted(s, [owned[s] EXCEPT !.start = "none"])
     \/ NotStarted(s, [owned[s] EXCEPT !.start = "cleanup"])
     \/ /\ marker' = TRUE
        /\ current' = s
        /\ owned' = [owned EXCEPT ![s].start = "spawn"]
        /\ UNCHANGED phase
  /\ UNCHANGED <<shutdown, audition, lock, starter, worker>>

\* create_audition() takes the lock and awaits the preflight, which may fail.
RequestAudition ==
  /\ up /\ lock = "free" /\ RequireIdle
  /\ "audition" \in Kinds
  /\ lock' = "preflight"
  /\ UNCHANGED <<shutdown, marker, phase, current, audition, starter, owned, worker>>

PreflightFails ==
  /\ up /\ lock = "preflight"
  /\ lock' = "free"
  /\ UNCHANGED <<shutdown, marker, phase, current, audition, starter, owned, worker>>

\* Nothing that require_idle checked before the await is checked again.
PreflightPasses(s, hold) ==
  /\ up /\ lock = "preflight"
  /\ closing = "open" \/ "lateRequest" \in Faults
  /\ Fresh(s)
  /\ lock' = "free"
  /\ phase' = "starting"
  /\ current' = s
  /\ audition' = s
  /\ owned' = [Cleared(owned) EXCEPT ![s] = NewSession("audition", hold, "mark")]
  /\ worker' = [worker EXCEPT ![s] = NoWorker]
  /\ starter' = s
  /\ UNCHANGED <<shutdown, marker>>

\* The first step of _start_audition.
MarkAudition(s) ==
  /\ up /\ owned[s].start = "mark"
  /\ marker' = TRUE
  /\ owned' = [owned EXCEPT ![s].start = "spawn"]
  /\ UNCHANGED <<shutdown, phase, current, audition, lock, starter, worker>>

\* create_subprocess_exec: the process runs before the call returns.
Fork(s) ==
  /\ up /\ owned[s].start = "spawn" /\ worker[s].stage = "none"
  /\ worker' = [worker EXCEPT ![s].stage = "booting"]
  /\ UNCHANGED <<admission, phase, current, audition, owned>>

\* Only the spawn itself can fail: between the assignment of the process and the return of
\* _create nothing is awaited, and its "blocked" branch (a process and a failure) has no way in.
SpawnFails(s) ==
  /\ up /\ owned[s].start = "spawn" /\ worker[s].stage = "none"
  /\ NotStarted(s, IF owned[s].kind = "room"
                   THEN [owned[s] EXCEPT !.start = "cleanup"]
                   ELSE [owned[s] EXCEPT !.start = "none", !.result = "failed"])
  /\ UNCHANGED <<shutdown, audition, lock, starter, worker>>

SpawnReturns(s) ==
  /\ up /\ owned[s].start = "spawn" /\ worker[s].stage # "none"
  /\ owned' = [owned EXCEPT
                ![s].handle = TRUE,
                ![s].monitor = "reading",
                ![s].start = IF owned[s].kind = "room" THEN "none" ELSE "stdin"]
  /\ UNCHANGED <<admission, phase, current, audition, worker>>

\* The text goes to the audition worker; the write fails if the worker is gone.
FeedAudition(s) ==
  /\ up /\ owned[s].start = "stdin"
  /\ \/ /\ owned' = [owned EXCEPT ![s].start = "none"]
        /\ UNCHANGED <<phase, current>>
     \/ /\ ~Alive(s)
        /\ EndAudition(s, [owned[s] EXCEPT !.start = "none", !.result = "failed"])
  /\ UNCHANGED <<admission, audition, worker>>

\* _delete_room after a failed start; its result is not used.
CleanUpRoom(s) ==
  /\ up /\ owned[s].start = "cleanup"
  /\ owned' = [owned EXCEPT ![s].start = "none"]
  /\ UNCHANGED <<admission, phase, current, audition, worker>>

\* The settings and voice handlers hold the lock while they read the request,
\* then change the library and drop the sample.
LibraryRequest ==
  /\ up /\ lock = "free" /\ RequireIdle
  /\ lock' = "library"
  /\ UNCHANGED <<shutdown, marker, phase, current, audition, starter, owned, worker>>

LibraryDone ==
  /\ up /\ lock = "library"
  /\ lock' = "free"
  /\ \/ audition' = NoSession /\ owned' = Cleared(owned)
     \/ UNCHANGED <<audition, owned>>
  /\ UNCHANGED <<shutdown, marker, phase, current, starter, worker>>

-----------------------------------------------------------------------------
(* The monitor of a session.                                               *)

\* Slip: audio is kept whatever has become of the audition.
AcceptsAlways(o) == o.kind = "audition"

AcceptsAudio(o) == o.kind = "audition" /\ o.result = "generating"

\* _event: what the event e makes of the session object o.
Heard(o, e) ==
  LET audio == AcceptsAudio(o) IN
  CASE e = "started" /\ o.kind = "audition" -> [o EXCEPT !.stopReady = TRUE]
    [] e = "silent" /\ audio -> [o EXCEPT !.pcm = IF @ = "empty" THEN "silent" ELSE @]
    [] e = "voiced" /\ audio -> [o EXCEPT !.pcm = "voiced"]
    [] e = "invalid" /\ audio ->
         [o EXCEPT !.pcm = "empty", !.result = "failed",
                   !.ending = IF @ = "none" THEN "new" ELSE @]
    [] e = "error" /\ o.kind = "audition" -> [o EXCEPT !.pcm = "empty", !.result = "failed"]
    [] e = "safe" -> [o EXCEPT !.finished = TRUE, !.safe = TRUE]
    [] e = "unsafe" -> [o EXCEPT !.finished = TRUE, !.safe = FALSE]
    [] OTHER -> o

\* Slip: a late "draining" line hides that completion is unknown.
PhaseAfterAnyDraining(o, e) ==
  CASE e = "ready" /\ phase = "starting" -> "active"
    [] e = "draining" -> "draining"
    [] e = "uncertain" -> "blocked"
    [] e = "invalid" /\ Heard(o, e).ending # o.ending -> "draining"
    [] OTHER -> phase

\* _event: the phase it leaves.
PhaseAfter(o, e) ==
  CASE e = "ready" /\ phase = "starting" -> "active"
    [] e = "draining" /\ phase # "blocked" -> "draining"
    [] e = "uncertain" -> "blocked"
    [] e = "invalid" /\ Heard(o, e).ending # o.ending -> "draining"
    [] OTHER -> phase

MonitorReads(s) ==
  LET e == Head(worker[s].pipe) IN
  /\ up /\ owned[s].monitor = "reading" /\ worker[s].pipe # <<>>
  /\ worker' = [worker EXCEPT ![s].pipe = Tail(@)]
  /\ IF current = s
     THEN owned' = [owned EXCEPT ![s] = Heard(@, e)] /\ phase' = PhaseAfter(owned[s], e)
     ELSE UNCHANGED <<owned, phase>>
  /\ UNCHANGED <<admission, current, audition>>

\* Slip: a cancelled audition that has drained counts as a sample.
OutcomeUnlessFailed(o) == IF o.result = "failed" THEN "failed" ELSE "ready"

Outcome(o) == IF o.result # "generating" THEN o.result
              ELSE IF o.pcm = "voiced" THEN "ready" ELSE "failed"

HoldsPlayback(o) == o.hold /\ Outcome(o) = "ready"

\* The result of an audition that drained safely.
Completed(o) == [o EXCEPT !.completed = TRUE, !.result = Outcome(o),
                          !.pcm = IF Outcome(o) = "ready" THEN @ ELSE "empty",
                          !.playback = HoldsPlayback(o)]

\* A confirmed drain: the marker goes, and admission opens unless the caller
\* holds the session for playback.
Retire(s, o) ==
  /\ marker' = FALSE
  /\ owned' = [owned EXCEPT ![s] = o]
  /\ \/ /\ o.playback
        /\ phase' = "active"
        /\ UNCHANGED current
     \/ /\ ~o.playback
        /\ phase' = "idle"
        /\ current' = NoSession

\* The finally clause of _monitor, where leaving is "done" or, when the read
\* raised, "failed".
MonitorSettles(s, leaving) ==
  LET o == owned[s]
      unconfirmed ==
        IF o.kind = "audition" THEN [o EXCEPT !.pcm = "empty", !.result = "failed"] ELSE o
  IN \/ /\ current # s
        /\ owned' = [owned EXCEPT ![s].monitor = leaving]
        /\ UNCHANGED <<marker, phase, current>>
     \/ /\ current = s /\ Confirmed(o, worker[s]) /\ o.kind = "audition"
        /\ Retire(s, Completed([o EXCEPT !.monitor = leaving]))
     \/ /\ current = s /\ Confirmed(o, worker[s]) /\ o.kind = "room"
        /\ owned' = [owned EXCEPT ![s].monitor = "deleting"]
        /\ UNCHANGED <<marker, phase, current>>
     \/ /\ current = s /\ ~Confirmed(o, worker[s])
        /\ phase' = "blocked"
        /\ owned' = [owned EXCEPT ![s] =
             [unconfirmed EXCEPT !.monitor = leaving,
                                 !.ending = IF Alive(s) /\ @ = "none" THEN "new" ELSE @]]
        /\ UNCHANGED <<marker, current>>

MonitorEnds(s) ==
  /\ up /\ owned[s].monitor = "reading"
  /\ worker[s].pipe = <<>> /\ ~Alive(s)
  /\ MonitorSettles(s, "done")
  /\ UNCHANGED <<shutdown, audition, lock, starter, worker>>

\* A line of standard output beyond the reader's limit raises in the monitor.  A
\* worker writes nothing after its last report.
MonitorFails(s) ==
  /\ up /\ owned[s].monitor = "reading" /\ "overlongLine" \in Faults
  /\ ~owned[s].finished
  /\ MonitorSettles(s, "failed")
  /\ UNCHANGED <<shutdown, audition, lock, starter, worker>>

\* _delete_room inside the monitor: the room is seen to be gone, or it is not.
MonitorDeletesRoom(s) ==
  /\ up /\ owned[s].monitor = "deleting"
  /\ \/ Retire(s, [owned[s] EXCEPT !.monitor = "done"])
     \/ /\ "roomCleanup" \in Faults
        /\ phase' = "blocked"
        /\ owned' = [owned EXCEPT ![s].monitor = "done"]
        /\ UNCHANGED <<marker, current>>
  /\ UNCHANGED <<shutdown, audition, lock, starter, worker>>

-----------------------------------------------------------------------------
(* The end task of a session.                                              *)

\* After the signal or the kill only a room has something left to clean up.
AfterDrain(s) == IF owned[s].kind = "room" THEN "room" ELSE "done"

Over(s) == owned[s].monitor \in {"done", "failed"}

\* The end task waits for the monitor, unless the monitor is over already.
AwaitMonitor(s) == IF Over(s) THEN "resume" ELSE "drain"

\* Slip: no wait for the signal handler of the audition worker.
SignalsAtOnce(o) == FALSE

AwaitsHandler(o) == o.kind = "audition" /\ ~o.stopReady

\* Slip: the deadline of the drain is forgotten.
DeadlineForgotten(s) == FALSE

\* The deadline of 150 seconds may pass while the task waits.  Between the end
\* of the monitor and the task's next step there are two turns of the loop, too
\* few for another session to become current.
DeadlinePasses(s) ==
  /\ "drainTimeout" \in Faults
  /\ Over(s) => current \in {s, NoSession}

\* _end begins.  Without a process it returns at once.
EndBegins(s) ==
  LET o == owned[s] IN
  /\ up /\ o.ending = "new"
  /\ \/ /\ ~o.handle
        /\ owned' = [owned EXCEPT ![s].ending = "done"]
        /\ UNCHANGED worker
     \/ /\ o.handle /\ AwaitsHandler(o)
        /\ owned' = [owned EXCEPT ![s].ending = "ack"]
        /\ UNCHANGED worker
     \/ /\ o.handle /\ ~AwaitsHandler(o)
        /\ owned' = [owned EXCEPT ![s].ending = AwaitMonitor(s)]
        /\ worker' = [worker EXCEPT ![s] = Signalled(@)]
  /\ UNCHANGED <<admission, phase, current, audition>>

\* The wait for an audition worker that can be signalled is over.
EndAcknowledged(s) ==
  /\ up /\ owned[s].ending = "ack"
  /\ owned[s].stopReady \/ ~Alive(s)
  /\ owned[s].stopReady \/ Over(s) \/ "drainTimeout" \in Faults
  /\ owned' = [owned EXCEPT ![s].ending = AwaitMonitor(s)]
  /\ worker' = [worker EXCEPT ![s] = Signalled(@)]
  /\ UNCHANGED <<admission, phase, current, audition>>

\* The worker is killed, and the phase tells that its drain is unknown.
EndKills(s, ending) ==
  /\ phase' = "blocked"
  /\ owned' = [owned EXCEPT ![s].ending = ending]
  /\ worker' = [worker EXCEPT ![s] = Killed(@)]
  /\ UNCHANGED <<admission, current, audition>>

EndUnacknowledged(s) ==
  /\ up /\ owned[s].ending = "ack"
  /\ ~owned[s].stopReady /\ Alive(s)
  /\ Over(s) \/ "drainTimeout" \in Faults
  /\ EndKills(s, "done")

EndDrained(s) ==
  /\ up /\ owned[s].ending \in {"drain", "resume"} /\ owned[s].monitor = "done"
  /\ owned' = [owned EXCEPT ![s].ending = AfterDrain(s)]
  /\ UNCHANGED <<admission, phase, current, audition, worker>>

EndTimesOut(s) ==
  /\ up /\ owned[s].ending = "drain" /\ DeadlinePasses(s)
  /\ EndKills(s, AfterDrain(s))

EndSeesFailure(s) ==
  /\ up /\ owned[s].ending \in {"drain", "resume"} /\ owned[s].monitor = "failed"
  /\ EndKills(s, AfterDrain(s))

EndDeletesRoom(s) ==
  /\ up /\ owned[s].ending = "room"
  /\ owned' = [owned EXCEPT ![s].ending = "done"]
  /\ UNCHANGED <<admission, phase, current, audition, worker>>

-----------------------------------------------------------------------------
(* Requests about a session, and the watchdog.                             *)

\* A browser learns the identifier of a session when its start returns.
Known(s) == owned[s].handle /\ owned[s].start = "none"

EndRequest(s) ==
  /\ up /\ current = s /\ Known(s)
  /\ End(s, owned[s])
  /\ UNCHANGED <<admission, audition, worker>>

EndAuditionRequest(s) ==
  /\ up /\ audition = s /\ Known(s)
  /\ EndAudition(s, owned[s])
  /\ UNCHANGED <<admission, audition, worker>>

\* audition_audio: the sample is handed out once.
TakeAudio(s) ==
  /\ up /\ audition = s /\ Known(s)
  /\ owned[s].result = "ready" /\ owned[s].pcm # "empty"
  /\ current = s => owned[s].hold
  /\ owned' = [owned EXCEPT ![s].pcm = "empty"]
  /\ UNCHANGED <<admission, phase, current, audition, worker>>

\* Slip: a session held for playback expires like a result.
CompletedResult == audition # NoSession /\ owned[audition].completed

ExpirableResult == audition # NoSession /\ current # audition /\ owned[audition].completed

\* The watchdog, or a request after it expired, drops the result of an audition.
ResultExpires ==
  /\ up /\ ExpirableResult
  /\ audition' = NoSession
  /\ owned' = Cleared(owned)
  /\ UNCHANGED <<admission, phase, current, worker>>

\* Slips: the watchdog takes a drain for one that ends by itself, looks only at
\* conversations that are ready, or leaves a session held for playback alone.
WatchesUnlessDraining(s) == owned[s].ending = "none" /\ phase # "draining"
WatchesActive(s) == owned[s].ending = "none" /\ phase # "starting"
WatchesUnlessHeld(s) == owned[s].ending = "none" /\ ~owned[s].playback

\* The watchdog looks at the current session until it has an end task.
Watches(s) == owned[s].ending = "none"

\* The heartbeat, the age or the startup limit of the session has run out.
WatchdogExpires(s) ==
  /\ up /\ closing = "open"
  /\ current = s /\ Watches(s)
  /\ owned[s].handle \/ "slowSpawn" \in Faults
  /\ \/ /\ owned[s].kind = "audition"
        /\ EndAudition(s, [owned[s] EXCEPT !.result = "failed"])
     \/ /\ owned[s].kind = "room"
        /\ End(s, owned[s])
  /\ UNCHANGED <<admission, audition, worker>>

-----------------------------------------------------------------------------
(* The shutdown of serve(): the watchdog is cancelled, Studio.close() runs, *)
(* the handlers in flight finish, the lease is released.                    *)

CloseBegins ==
  /\ up /\ closing = "open"
  /\ closing' = "start"
  /\ UNCHANGED <<up, marker, phase, current, audition, lock, starter, awaited, owned, worker>>

\* Slip: close() does not wait for the end task.
CloseLeavesEnding(s) == closing' = "final" /\ awaited' = NoSession

\* close() waits for the end task if there is one.
CloseAwaits(s) ==
  /\ closing' = IF owned'[s].ending = "none" THEN "final" ELSE "end"
  /\ awaited' = IF owned'[s].ending = "none" THEN NoSession ELSE s

StartDone == starter # NoSession => owned[starter].start = "none"

\* close() waits for the start task, then ends the session it finds.
CloseEndsSession(s) ==
  /\ up /\ closing = "start" /\ StartDone
  /\ current = s
  /\ End(s, owned[s])
  /\ CloseAwaits(s)
  /\ UNCHANGED <<up, marker, audition, lock, starter, worker>>

CloseFindsNoSession ==
  /\ up /\ closing = "start" /\ StartDone
  /\ current = NoSession
  /\ closing' = "final"
  /\ UNCHANGED <<up, marker, phase, current, audition, lock, starter, awaited, owned, worker>>

CloseAwaited ==
  /\ up /\ closing = "end" /\ owned[awaited].ending = "done"
  /\ closing' = "final"
  /\ awaited' = NoSession
  /\ UNCHANGED <<up, marker, phase, current, audition, lock, starter, owned, worker>>

CloseFinishes ==
  /\ up /\ closing = "final"
  /\ closing' = "cleanup"
  /\ audition' = NoSession
  /\ owned' = Cleared(owned)
  /\ UNCHANGED <<up, marker, phase, current, lock, starter, awaited, worker>>

\* runner.cleanup() also waits for handlers in flight: here they may be cut off at any point.
LeaseReleased == up /\ closing = "cleanup" /\ BrokerGone

-----------------------------------------------------------------------------
StartStep(s) == CreateChecks(s) \/ CreateRoom(s) \/ MarkAudition(s) \/ Fork(s) \/ SpawnFails(s)
                \/ SpawnReturns(s) \/ FeedAudition(s) \/ CleanUpRoom(s)

WorkerStep(s) == WorkerBoots(s) \/ WorkerInfers(s) \/ BackendSettles(s) \/ BackendUncertain(s)
                 \/ WorkerReady(s) \/ WorkerSpeaks(s) \/ WorkerStops(s) \/ WorkerFinishes(s)
                 \/ WorkerExits(s) \/ WorkerCrashes(s)

MonitorStep(s) == MonitorReads(s) \/ MonitorEnds(s) \/ MonitorFails(s) \/ MonitorDeletesRoom(s)

EndStep(s) == EndBegins(s) \/ EndAcknowledged(s) \/ EndUnacknowledged(s) \/ EndDrained(s)
              \/ EndTimesOut(s) \/ EndSeesFailure(s) \/ EndDeletesRoom(s)

RequestStep(s) == RequestRoom(s) \/ EndRequest(s) \/ EndAuditionRequest(s) \/ TakeAudio(s)
                  \/ WatchdogExpires(s) \/ CloseEndsSession(s)
                  \/ \E hold \in BOOLEAN : PreflightPasses(s, hold)

LifeStep == (\E confirmed \in BOOLEAN : Serve(confirmed)) \/ BrokerCrashes
            \/ OperatorRestartsBackend \/ LeaseReleased

LibraryStep == RequestAudition \/ PreflightFails \/ LibraryRequest \/ LibraryDone \/ ResultExpires

CloseStep == CloseBegins \/ CloseFindsNoSession \/ CloseAwaited \/ CloseFinishes

Next ==
  \/ LifeStep \/ LibraryStep \/ CloseStep
  \/ \E s \in Sessions :
       StartStep(s) \/ WorkerStep(s) \/ MonitorStep(s) \/ EndStep(s) \/ RequestStep(s)

Spec == Init /\ [][Next]_vars

=============================================================================
