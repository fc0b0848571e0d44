# A verification project for LiveKit Voice Studio

Voice Studio is a local voice application: a broker process (`examples/studio.py`) serves a web
page and a CLI, starts one worker process per conversation or audition, and guards a *backend*
(an MLX model in the worker, or a Voicebox server) that can run **one inference at a time**. What
makes the program hard is not the audio. It is the question "may another inference start?", which
has to be answered correctly after crashes, timeouts, cancelled requests, and shutdowns that race
each of them. This directory holds TLA+ models of the parts that answer that question, TLC
configurations that check them, and proofs for TLAPS.

Line numbers refer to `src/`.

## 1. Inventory

| Component | Code | State | Operations | Status |
|---|---|---|---|---|
| Studio broker | `examples/studio.py` | `phase`, `current`, `audition`, `lock`, `start_task`, an `OwnedSession` per session | create, create_audition, end, end_audition, audition_audio, monitor, watchdog, settings and voice handlers, close, serve | modelled, checked, proved |
| Backend lease | `examples/backend_lease.py` | lock file, durable marker | acquire, mark_active, mark_safe, release | within the broker; contention planned |
| Session workers | `examples/studio_worker.py`, `audition_worker.py` | life stage, inference, pipe to the broker | boot, ready, audio, drain, exit, parent watch | within the broker |
| MLX provider | `examples/fast_qwen.py` | the single job, its thread and bridge, `uncertain`, `closing` | prepare, synthesize, stop, aclose | modelled, checked, proved |
| Voicebox provider | `livekit-plugins-voicebox/.../client.py`, `tts.py` | the single job, `uncertain`, `closing`; options and the cached profile | resolve_profile, update_options, synthesize, synthesize_wav, detach, aclose | modelled, checked, proved |
| Recognizer stream | `examples/nemotron_stt.py` | audio channel, attempts, three tasks, events | push_frame, flush, commit_utterance, _run, _send, _receive, aclose | modelled, checked, proved |
| Nemotron service | `examples/nemotron_service.py` | child process under a lock | start, close | planned |
| Agent reasoning | `examples/agent_llm.py` | the lock, the owned process and its session, history, the present turn | validate, available_models, chat, turn, interrupt, stop, aclose; the reader task | Codex provider modelled, checked |
| Read-aloud tool | `tools/read_aloud.py` | receipts, two file locks, control socket; an audition per narration | codex-notify, speak, stop-speaking, mute | modelled, checked |
| Browser hooks | `web/src/useStudio.ts`, `useVoiceAudition.ts`, ... | session grant, flags, room connection | start, end, heartbeat, disconnect, pagehide | `useStudio` modelled, checked |
| Service tool | `tools/studio_service.py` | pid file, child | start, status, stop | planned, later |
| Library, bundles | `examples/studio_library.py`, `voice_bundle.py` | files on disk | publish by rename, settings, delete | planned, later |
| Setup checks | `examples/studio_setup.py` | cached result, lock | get | planned, later |
| Scripts, diagnostics | `tools/studio_doctor.py`, `setup_nemotron.py`, `evaluate.py`, ... | none that outlives a call | | not modelled: sequential input checks, downloads, printed reports |
| Pages of the UI | `web/src/App.tsx`, ... | | | not modelled: rendering of what the hooks keep |

### How they interact

* **Browser and narrator to broker**: HTTP requests (create, end, heartbeat, audition, status, audio).
  The tab owns a session by heartbeats, a narrator its audition by asking for its status; the broker's
  watchdog ends a session whose owner falls silent. Both want the same slot.
* **Narrators among themselves**: files in one directory (receipts, two `flock`s, a Unix socket).
* **Worker to agent process**: JSON lines over the pipes of a child process; a reader task hands each
  line to the pending request or to the turn.
* **Broker to worker**: `create_subprocess_exec`, the text of an audition over stdin, SIGTERM, at
  last SIGKILL. **Worker to broker**: one JSON line per event on stdout, and its return code.
  `_monitor` reads the lines; nothing else waits on the worker.
* **Broker to disk**: the lease. `fcntl.flock` dies with the process, the *marker* file does not: it
  is written before the spawn and removed after a *confirmed drain* (the worker reported
  `finished` with `safe_drain` **and** exited with 0).
* **Worker to provider to backend**: `aclose()` of the provider waits for the inference; its result
  is the worker's report of a safe drain.
* **Inside the broker**: one asyncio loop. The start task, the monitor and the end task of a
  session, the watchdog, the request handlers and the shutdown of `serve` interleave at each
  `await` and share `phase`, `current`, `audition` and the marker.

### What is hard, and what must hold

| Component | Hard behaviour | Correct means |
|---|---|---|
| Broker, lease, worker | end task, monitor and watchdog on one session; a crash between marker, fork and monitor; SIGTERM before the handler; a drain confirmed as its deadline passes; a request that awaits its preflight during shutdown; a session held for playback with a drained worker | the marker covers every inference; one session is busy at most; admission is open only when nothing runs; "blocked" is left only with the work resolved; a cancelled sample never comes back; workers are reaped, drain and shutdown end |
| MLX provider | a caller cancelled while the model thread runs; a bounded bridge whose consumer is gone; close during a job | the slot of the job is freed only after the thread has ended; close ends; a stopped job delivers nothing |
| Voicebox provider | the foreground deadline passes while the generation goes on | busy until the job is drained; `uncertain` for ever once sight is lost |
| Recognizer | sound faster than the server; a commit whose answer is late or never comes; three tasks of which any may end first; a retry with the state of the attempt before | fails and ends on overload; words belong to their utterance; no sound behind an open commit; no loss without an error |
| Agent reasoning | a turn interrupted, cancelled or failed half-way; lines in any order around the answer of a request; a stop that is cancelled | a turn is never answered with the rest of the last one; process and caller agree on the conversation; the process has an owner; calls and close end |
| Read-aloud | a kill at any step; the broker's clocks against a clip that plays; notifications at once | at most one attempt per turn; heard only while the slot is held |
| Browser hooks | end during an unfinished start; a lost answer; a refused heartbeat | no capture without a session, no session without an owner |

`PROJECT.json` lists each hazard at its line, with the properties that would catch it.

## 2. Plan

Most important behaviour first. Every module has its parameters as named CONSTANTS, no RECURSIVE
operator, one action per step of the code between two awaits, and invariants that are conjunctions of
named parts, so that it can be proved about.

1. `StudioBroker` with lease marker and worker: **done** (model, 3 passing runs, 3 findings, 13 theorems).
2. `OwnedInference`, an abstract specification of what an owner of inference promises, and `FastQwen`
   and `VoiceboxProvider`, which implement it by a refinement mapping: **done** (2 runs, 10 theorems).
   This discharges what the broker model takes from the worker: that a report of a safe drain is true.
3. `BackendLease`: several processes contend for the file lock and the marker, with crashes; the
   broker's `Serve`, `BrokerGone` and marker updates refine it. Theorem: mutual exclusion and marker
   durability for every set of processes.
4. `RecognizerStream`: **done** (2 runs, 1 finding, 7 theorems).
5. `AgentConversation`: the conversation agent with the Codex provider: **done** (1 run, 8 theorems).
6. `BrokerSlot`, the broker as its HTTP clients see it, `BrowserPage` and `ReadAloud` on top of it, and
   `StudioClients`, which composes the three under one clock: **done** (1 run, 5 theorems).
7. `NemotronService`; then `StudioService`, `VoiceBundle` (crash between the renames) and `SetupChecks`.

## 3. `StudioBroker`: the broker, the lease and the worker

### State

| Variable | Code |
|---|---|
| `up` | the process runs and holds the `flock` of `BackendLease` |
| `marker` | the marker file of `BackendLease` |
| `phase`, `current`, `audition` | the fields of `Studio` of those names |
| `lock` | what keeps `Studio.lock` across an await: a preflight, a library handler. `create` has no await inside the lock and is one action |
| `starter` | the session of `Studio.start_task` |
| `closing`, `awaited` | where the `finally` of `serve` and `Studio.close` stand |
| `owned[s]` | an `OwnedSession`, plus the program counters of its three tasks: `start`, `monitor`, `ending` |
| `worker[s]` | the process: its stage, its inference (`none`, `running`, `uncertain`), the lines in its pipe |

An event in the pipe stands for one JSON line: `started`, `ready`, audio (`voiced`, `silent` or
`invalid`, the distinctions `_event` makes with the format, the size and the samples), `draining`,
`uncertain` (`backend_uncertain`), `error`, and `safe` or `unsafe` (`finished` with `safe_drain`). Time is
abstracted: a timeout may fire whenever its timer is running. The objects in `Sessions` are reused:
`Fresh(s)` says that no field, task, process or inference refers to `s`, so two objects give unboundedly
many sessions one after the other.

### Actions

| Group | Code |
|---|---|
| `Serve`, `BrokerCrashes`, `LeaseReleased`, `OperatorRestartsBackend` | `BackendLease.acquire` and `release`; `--confirm-backend-restarted` is the operator's word that nothing runs |
| `RequestRoom`, `CreateChecks`, `CreateRoom`, `Fork`, `SpawnReturns`, `SpawnFails`, `CleanUpRoom` | `create`, `_create` (243-256, 425-547), cut at each await: the checks, the room, `mark_active` and fork, return of the spawn, the failure paths |
| `RequestAudition`, `PreflightPasses`, `PreflightFails`, `MarkAudition`, `FeedAudition` | `create_audition`, `_audition_preflight`, `_start_audition` (258-368) |
| `WorkerBoots` ... `WorkerCrashes`, `BackendSettles`, `BackendUncertain` | `run()` of both workers, `watch_parent`, and the backend |
| `MonitorReads` (`Heard`, `PhaseAfter`), `MonitorEnds`, `MonitorFails`, `MonitorDeletesRoom` | `_event`, `_monitor` with its `finally` clause (669-811) |
| `EndBegins`, `EndAcknowledged`, `EndUnacknowledged`, `EndDrained`, `EndTimesOut`, `EndSeesFailure`, `EndDeletesRoom` | `_end` (611-666) |
| `EndRequest`, `EndAuditionRequest`, `TakeAudio`, `ResultExpires`, `WatchdogExpires`, `LibraryRequest`, `LibraryDone` | the handlers and `watchdog` |
| `CloseBegins` ... `CloseFinishes` | `serve` (1299-1306), `Studio.close` (885-905) |

Two cuts deserve a note. `Fork` and `SpawnReturns` are separate because the worker runs before
`create_subprocess_exec` returns. In that window `process` is None, an end request or the watchdog
starts an end task that returns at once (613-615), and nothing ends the session after it. The window is
a few milliseconds and the startup limit (`STARTUP_SECONDS`) is 60 s, so the watchdog in that window is the fault
`slowSpawn`: safety holds with it, the liveness run excludes it. And `DeadlinePasses` allows the
deadline of `_end` between the end of the monitor and the resumption of the end task, but not
after another session has become current: there are two turns of the loop in between, and a request
needs more.

### Faults

`Faults` is the set of faults that may happen: `brokerCrash` and `workerCrash` (at any point, also a
nonzero return code after a clean drain), `overlongLine` (a line beyond the 64 KiB of the stream
reader raises in the monitor), `uncertain` (the provider loses its inference), `drainTimeout` (the
150 s of `_end` pass), `roomCleanup` (`_delete_room` fails), `slowSpawn` (above), `lateRequest` (a
preflight finishes after the shutdown began). A worker that hangs is no fault: nothing makes a
worker step happen.

### Runs

| Run | Instance | Properties |
|---|---|---|
| `broker_safety` | 2 sessions, rooms and auditions, pipe of 1, every fault | `MarkerCoversWork`, `OneSessionBusy`, `IdleIsQuiet`, `UnblockedOnlyWhenResolved`, `SampleIsSettled`, `WatchdogFindsAudition`, `ResultIsFinal` |
| `broker_healthy` | 2 sessions, auditions, no fault | `NeverBlocked`, `DrainedAtRelease` |
| `broker_liveness` | 1 session, both kinds, all faults but the crash of the broker, the slow spawn and the late request | `WorkersReaped`, `SessionsPass`, `CloseCompletes` |
| `broker_timeout_doc`, `broker_early_end_doc`, `broker_late_request_doc` | see Findings | one violated property each |

* `MarkerCoversWork`: inference may be in flight, in a worker or orphaned in the backend, only while
  the marker is on disk. With `brokerCrash` enabled this is the crash-recovery claim: whenever the
  broker dies, the next start refuses until the operator confirms.
* `OneSessionBusy`: no two sessions have a live worker or unfinished inference, across restarts too.
* `IdleIsQuiet`: `phase == "idle"`, which is what admission looks at, implies that nothing runs and
  nothing is unresolved.
* `UnblockedOnlyWhenResolved`: "blocked" is left within the life of a broker only when the work is
  resolved. (The documentation promises more; see Findings.)
* `SampleIsSettled`, `ResultIsFinal`: a sample is available only after a
  confirmed drain, a failed or cancelled one never becomes available, and late lines bring no audio back.
* `WatchdogFindsAudition`: the watchdog never meets an audition that `end_audition` refuses, which
  would raise and end the watchdog for good.
* `NeverBlocked`, `DrainedAtRelease` (auditions without faults): an audition may be ended at each
  point of its start, and the broker never blocks and releases the lease only with the worker drained.
* Liveness: workers are reaped (`WorkersReaped`); no phase of a session lasts: startup settles, a drain ends in "idle" or
  "blocked", playback ends though the browser is gone (`SessionsPass`, with a mutant for each of the three); shutdown
  completes (`CloseCompletes`).

**Bounds.** Two session objects are enough for every interference between an old session and a new
one, since at most one worker may be busy (checked) and objects are reused; the liveness run has one, reused. `PipeCap`
counts the lines a worker may be ahead of the monitor; the reports of a worker (an error and
`draining`, `uncertain` and `unsafe`) are appended together, so a pipe of 1 already holds two. Symmetry is used in safety
runs only. Deadlock is checked in every run. No counter is bounded, because there is none.

**Fairness.** `Fairness` has weak fairness for the tasks of the event loop (start, monitor, end task),
for the timers (the watchdog sweeps every few seconds, and each of its limits is finite), and for the
shutdown sequence once it began. The event loop is a FIFO scheduler and each of these steps stays enabled until it is
taken or another takes its place, so weak fairness is what asyncio gives. A wait of the code with a timeout is fair in the
model only by the step that the timeout takes. Nothing is assumed of the worker, the backend, the
browser or the operator: a worker may hang at each stage.

### Findings

Each is a passing *violation* run: TLC finds the property violated by what the code does.

1. `TimeoutKeepsMarker` (documentation and code disagree). `docs/architecture.md:104` says that a
   shutdown timeout leaves the marker in place and blocks admission. When the deadline passes while
   the monitor waits for `_delete_room`, or before it has read the last lines of a worker that exits
   cleanly, `_end` sets "blocked" but leaves the monitor running. It confirms the drain, removes the
   marker and opens admission (786-811). By `UnblockedOnlyWhenResolved` this is harmless.
2. `NeverBlocked` for rooms (bug). `_end` waits for the handler of an audition worker before it
   signals, for the reason its comment gives (618), but signals a room worker at once (635). A room ended
   while its worker imports is killed, and the broker blocks with the marker on disk though
   nothing ever ran.
3. `DrainedAtRelease` with `lateRequest` (bug). `create_audition` checks `closed`, awaits the preflight
   and does not check again (299). A shutdown in between releases the lease while the
   request spawns a worker. The marker stays, so the next start refuses: safety holds, the shutdown's
   promise does not.

## 4. The speech providers

A worker reports a safe drain when `aclose()` of its provider returns without an error
(`studio_worker.py:330-353`), and the broker then removes the marker. In `StudioBroker` that
report is simply true (`WorkerFinishes`: a *safe* line only with no inference left). The three modules
of this section say why.

### `OwnedInference`: the promise

Three variables: `inflight`, the jobs whose inference may be running; `doubt`, the provider has
lost sight of one (`BackendUncertainError`); `verdict`, how close ended. An inference begins only
with no other in flight, no doubt and no verdict; the verdict is "safe" only when nothing is in flight
and there is no doubt, and after it nothing begins. Both providers implement it, checked by TLC
(`ImplementsInference`) and proved (`Implementation`), under the mapping

| | `inflight` | `doubt` | `verdict` |
|---|---|---|---|
| `FastQwen` | the calls whose thread is at work | `uncertain` | from `closer` |
| `VoiceboxProvider` | the calls whose generation runs in the server | `uncertain` | from `closer` |

### `FastQwen`

| Variable | Code |
|---|---|
| `loaded`, `slot`, `state`, `uncertain`, `closing` | `_model is not None`, `_job` (which holds `_lock`), and the fields of those names |
| `closer` | where `_close()` stands |
| `call[c]` | a call of `prepare()` or a stream, and the chunks that reached its emitter |
| `job[c]` | its `_Job`: the task `_run_job`, the flag `stop`, the error, the thread `_work` with its pending `queue.put`, the queue, and the chunks made |

Actions: `Request`, `Admit` (`_start`), `Leave` (deadline, cancellation, `aclose()` of a stream, with
the `finally` clauses that stop the job), `Consume`, `CallReturns`; `FetchReference`, `JobDeadline`,
`JobEnds` of the task; `ThreadStops`, `ThreadLoads`, `ThreadChecks`, `ThreadGenerates`, `ThreadPolls` of the
thread, which interleaves with the event loop at every step, and `LoopPuts` for the put that it
schedules there; `CloseBegins`, `CloseStopsJob`, `CloseEndsStream`, `CloseEndedStreams`, `CloseSettles`,
`CloseTimesOut`. The deadline of a job is that of its call plus the drain timeout (385), so that it
passes only after the call has left (`DeadlinePasses`).

| Run | Instance | Properties |
|---|---|---|
| `fastqwen` | 2 calls, queue of 1, 2 chunks | `ThreadOwnsSlot`, `WholeSpeech`, `AbandonedIsStopped`, `StateIsTrue`, `ImplementsInference`, `EverythingEnds` |

`ThreadOwnsSlot`: while a thread is at work, its job holds the slot, whoever has left and whatever
deadline has passed. `WholeSpeech`: a stream that ends without an error has heard everything
that a thread which ran to its end has made. It is stated for a provider that is not closing: `close()`
stops the thread of a stream that still listens, which then ends early without an error just before
it is closed itself. `AbandonedIsStopped`: the holder of the slot is waited for, or was
asked to stop. `StateIsTrue`: "active" has a listener, and "uncertain" stays until the end.
`EverythingEnds`: though the model never returns, calls and `close()` do, a thread that waits for the
event loop gets on though its consumer is gone and its queue full, and a job ends or its provider is uncertain.

### `VoiceboxProvider`

| Variable | Code |
|---|---|
| `slot`, `state`, `uncertain`, `closing` | `VoiceboxClient`: the job that holds `_lock`, and the fields of those names |
| `closed`, `closer` | `TTS._closed`; where the two `_close()` stand, one after the other |
| `options`, `cache` | `TTS._options` with `_revision`, and `_cache` |
| `call[c]` | a stream or a call of `resolve_profile()`, with its snapshot of the options |
| `job[c]`, `backend[c]` | its `_run_job`, and the generation in the server |

Once posted, a generation runs until the server ends it, whatever the client does. A job ends in one of three ways: the whole WAV
arrived (the server has ended), a status of 400, 404 or 422 (sent before inference, 288-291), or
anything else, after which the client knows nothing and is `uncertain`. A profile carries the revision at
which its lookup began, which makes it possible to say that a stale one is not used.

| Run | Instance | Properties |
|---|---|---|
| `voicebox` | 2 calls, 2 profiles, 1 change of the options | `StateIsTrue`, `ProfileIsOfOptions`, `ImplementsInference`, `EverythingEnds` |

`StateIsTrue`: an idle client has left nothing in the server, a generation nobody waits for is
"draining", and "uncertain" is not forgotten. `EverythingEnds`: calls and `close()` return though the server never answers. `ProfileIsOfOptions`: a call speaks with
the profile that its own options name, looked up no earlier than those were set, though options change
during lookups and lookups finish in any order.

**Bounds.** Two calls: one that holds the lock, and one that waits for it, comes or goes; calls are reused, and a
third would wait like the second (the proofs have any number). A queue of 1 makes the bridge full after one chunk, and two chunks
leave one in the queue and one in the bridge. `MaxRevision` caps the changes of the options in one
behaviour: one, at any point of the two lookups, makes an old answer meet new options. The waiters of a lock are
admitted in any order, which includes the FIFO order of asyncio. These runs say `CHECK_DEADLOCK FALSE`: a closed provider
with no calls left has stopped.

**Fairness.** The event loop runs its ready tasks and expired timers (weak fairness of the steps of calls,
jobs and close, of `Leave` as the foreground deadline, of `JobDeadline`, `JobLost` and `CloseTimesOut`), and a
thread that polls every 20 ms goes on polling. Nothing is assumed of the model or of the server: a thread may
stay in the model for ever, and a server need not answer.

## 5. `RecognizerStream`: a stream of the recognizer

A worker hears the user through `NemotronSpeechStream`. The session pushes frames and, at the end of
an utterance, a flush into a bounded channel, synchronously, so that too much of it is an exception.
On each connection a sender, a receiver and a watcher for overload run, and the first of them to
finish ends the attempt (`asyncio.wait`, 371). The base class retries an attempt whose error says so.

| Variable | Code |
|---|---|
| `input` | the `_AudioChannel`: its items, its bytes, its limit, the reserve of a finalization, closed |
| `overloaded`, `sentAudio`, `commitPending`, `committed`, `started` | the fields of those names |
| `main`, `retries` | where `_main_task` and `_run` stand; the attempts used |
| `sender`, `receiver`, `watcher` | where the three tasks stand; the frame in the sender's hand, and `audio_bytes` of its utterance (`unbilled`) |
| `partial` | the utterances whose words are in `_partial` |
| `events`, `heard` | what was emitted and not read; what the reader has heard |
| `toServer`, `toClient`, `up`, `server` | the socket and the server (external) |
| `accepted`, `billed`, `dropped` | an account of the sound: taken from the session, in usage events, lost in a retry (history only) |

`PushFrame`, `CommitUtterance`, `EndInput`, `ReadEvent` and `Aclose` are the session's calls; `Connect`,
`ConnectFails`, `StreamBegins`, `StreamEnds` and `BackoffEnds` the attempts; `TakesFrame` ... `SenderReturns`
the sender, cut at the awaits of `_send`; `ReceivesWords`, `ReceivesCommitted`, `ReceivesBad` and
`FindsHangup` the receiver, one message each with every event it emits; `WatcherRaises` the watcher.
Sound is counted in units, an item 0 is a flush, and words are the number of their utterance. Three cuts
deserve a note. `FindsHangup` and `StreamEnds` are separate because the event loop runs other tasks between
the receiver's error and the return of `asyncio.wait`; `FindsHangup` decides there whether the error may
be retried, as the code does (293). `StreamEnds` leaves open which of several finished tasks is asked
first (`done` is a set). And `aclose` tells the server to clear and waits half a second at most; the
model's steps before `Aclose` are that wait. The server is used as the code uses it: it may send an
error, hang up or say nothing at any time, it has words only for sound it holds, and it answers a
commit after the last words of its utterance. Its own endpointer, which would add finals in between, is
off (docstring, 6-8).

| Run | Instance | Properties |
|---|---|---|
| `recognizer` | channel of 2 items and 1 unit (2 with the reserve), frames of 1 or 2, 3 units of sound, 3 events, 1 retry, sockets of 1 and 2 | `BacklogIsBounded`, `AudioWaitsForAck`, `SoundIsAccountedFor`, `SpeechIsBracketed`, `TextIsOfUtterance`, `RetryStartsClean`, `StreamSettles` |
| `recognizer_loss_doc` | the same | `NoSilentLoss`, violated |

* `BacklogIsBounded`: the sound in the channel is within its limit, which is raised exactly while a
  finalization goes on or its backlog has not drained; the items of the channel and the events that nobody reads are bounded too.
* `AudioWaitsForAck`: nothing is sent behind a commit, nor while its answer is on the way.
* `SoundIsAccountedFor`: the channel's count is the sound in it; a stream that ends well has had a usage event for
  all it accepted, but for what a retry dropped.
* `SpeechIsBracketed`, `TextIsOfUtterance`: however late the reader is, it hears start, words, end, usage in this order, and words
  of the utterance whose usage comes next only.
* `RetryStartsClean`: `_run` resets nothing, and need not: an attempt is retried only if nothing was heard.
* `StreamSettles`: an ended input and an overload end the stream, though the server never answers.

**Finding** (bug). The test of the stream says that audio is never silently retried, and the docstrings that it is never
dropped. The receiver computes `retryable=not self._sent_audio` when it meets the hangup (293). If the sender takes its first
frame before `_run` wakes, `_sent_audio` comes too late: the attempt is retried, the frame is gone, and the stream ends without an error.
`SoundIsAccountedFor` says that this is the only loss.

**Bounds.** `MaxAudio` caps the sound of one behaviour: three units are an utterance of two frames and the
beginning of a second one, or two utterances and a frame that does not fit. A limit of 1 and a reserve of 1 make a frame of 2 fit only during
a finalization, a channel of 2 items fills with a flush and a frame, three events fill the buffer in one utterance, and a
server socket of 1 makes the sender wait. The proofs have any of these sizes. The run says `CHECK_DEADLOCK FALSE`: a closed stream has stopped.

**Fairness.** Weak fairness of the attempts (connect and handshake have timeouts), of the sender (each of
its sends and the wait for an answer has a timeout, `SendFails`) and of the watcher. Nothing is assumed of the receiver, which waits
without a deadline, of the reader, the session or the server.

## 6. `AgentConversation`: the agent process of a session

A room worker may reason with a Codex process instead of a cloud model. `AgentLLM` owns at most one such
process. Calls (`chat()` streams, `validate()`, `available_models()`) take turns under its lock; the
first one starts the process, and each chat sends one prompt, a *snapshot* of the conversation or the
*delta* since the last reply, and reads what the transport's reader task makes of the lines. A turn
that does not finish is interrupted, and its end is awaited before the lock is free; when that fails the
adapter is poisoned (`_uncertain`) and the process stopped.

| Variable | Code |
|---|---|
| `lock` | `AgentLLM._lock`: its holder and the tasks that wait, in order |
| `owner` | the other fields of `AgentLLM` (`_client`, `_session`, `_metadata`, `_history`, `_needs_snapshot`, `_closed`, `_uncertain`, `_retired_messages`) |
| `call[c]`, `closer` | where each call and `aclose()` stand; the context of a call and the chunks it was given |
| `turn` | the locals of `_AgentStream._run` for the call that holds the lock |
| `codex` | `_CodexClient` and `_CodexSession`: how far it has booted, its reader task, `turn_id`, `retired` |
| `runtime` | external: the process, its thread, its standard input and output |
| `voice`, `lost` | external: the chat context of the voice session; history: was a stop cut short, a process forgotten |

| Group | Code |
|---|---|
| `Chats`, `Asks`, `Returns`, `Cancel` | `chat`, `validate`, `available_models`, `_check_open`; cancellation at each await |
| `StartsRuntime` ... `OpensThread`, `PreflightFails` | `_ready`, `_start_catalog_runtime`, `_CodexClient.start`, `create_session` (172-267, 701-949) |
| `PromptRefused`, `BeginsTurn`, `SendReturns`, `ReadsText`, `ReadsDone`, `TurnFails` | `_AgentStream._run` (383-554), cut at its awaits |
| `Interrupts`, `InterruptReturns`, `IsIdle`, `SettlingFails` | its `finally` clause (555-576) and `_CodexSession.abort` |
| `Stopped`, `StopFails`, `CloseBegins` ... `CloseStops` | `_stop_runtime`, `aclose` (341-373) |
| `ReadsAnswer`, `ReadsNotice`, `ReaderEnds` | `_CodexClient._read`, `_CodexSession.notify`, `on_event` (421-508, 756-797, 1015-1067) |
| `RuntimeStarts` ... `RuntimeIsLate` | external: Codex answers, streams, completes, fails, is interrupted, uses a tool, or writes a line of a turn that is over |

A message is 0 when the user says it and *n* when it is a reply of *n* parts, so that a context is a
sequence of numbers and the thread of the process can be compared with it. The voice session takes a
reply into its context whole, in part (it was interrupted while it spoke) or not at all (`Commits`). In the
preflight the requests and their answers are part of the steps: a process that dies there is a preflight that fails.
`send()`'s answer may be read long before its task is scheduled (`SendReturns`), which is the race that
`_CodexSession.retired` is for.

Run `agent` (2 calls, 2 chats, replies of 2 deltas or of an item of at most 3 parts, a queue of 1, a pipe of 1 line):

* `RepliesStayInTurn`: a caller hears the parts of its own reply, from the first, in order and without a gap,
  whatever is late, repeated or dropped because the queue is full.
* `PromptsAddUp`: while a turn runs, the thread of the process is the context of its caller: a delta goes out only when
  both agree on everything before. `_history`, `_needs_snapshot` and the finally clause have to play together for that.
* `SettledBeforeReuse`: a prompt waits in the pipe only with every earlier turn over, in the process and in the transport.
* `RuntimeIsOwned`: a process that lives has an adapter that will stop it; between two calls it is ready for use; after
  `aclose()` it is gone or known not to stop; after a turn whose end is unknown nothing is started or sent. It names one exception, `lost.cut`:
  see below.
* `EverythingEnds`: every call and `aclose()` end, whatever the process does.
* `TypeOK` also says that the queue and the replies stay within `_QUEUE_SIZE` and `_MAX_RESPONSE_CHARS`.

**Bounds.** Two calls: one that holds the lock and one that waits; a call that is over is used again, and a third would wait
like the second. `MaxCalls` (2) caps the calls of a behaviour: a turn after a turn that completed, failed or was interrupted is
there; a third one after both is not (3 calls are ten million states). A queue of 1 fills with one part; with
`MaxResponse` 2 a reply that comes as deltas (`MaxDeltas` 2) is read to its end and one that comes as an item of 3 parts
(`MaxParts`) is too long; a context of 3 messages is accepted and one of 4 refused. **Fairness**: one weak fairness for the steps of the adapter
(`AdapterStep`), each of which ends a wait that has a timeout; nothing is assumed of callers, of the reader or of the process. The run says
`CHECK_DEADLOCK FALSE`: when the calls are used up and the adapter closed, nothing is left to do.

What the model shows beside the properties (no run of its own):

* `_stop_runtime` catches `Exception`, and a second cancellation is none (351): a task that is cancelled again while it stops the
  process leaves `_client` set and the adapter not uncertain. The next `_ready` overwrites `_client` and the first process is
  forgotten (`lost`). `RuntimeIsOwned` shows that this is the only way.
* `session.idle` that meets a full queue is not queued (437): a reply that is complete then waits for its timeout and fails.
* An interrupt of a turn that has just completed and is therefore rejected poisons the adapter (565).
* Tool activity is not noticed once `accepting` is false (440): a turn that is being interrupted may use one.

## 7. The clients of the broker

A page of the web UI and narrators want the broker's slot, each over HTTP, each with timers of its own. Three modules,
and a fourth that composes them.

**`BrokerSlot`** is the broker as its clients see it: the phase, the owner of the slot, `playback_admitted`, and two clocks
(`silent`, since the last heartbeat; `age` of an audition). Its operators are what the routes do and answer
(`require_owner`, `heartbeat`, `end`, `audition_status`, `audition_audio`), its actions what the broker does by itself:
a start that fails, a worker that ends, the watchdog, a drain. What is behind (workers, marker, rooms) is `StudioBroker`; here it only takes
its time, ends well or ends blocked.

**`BrowserPage`** is `web/src/useStudio.ts`: the refs (`grant`, `busy`, `closing`, `release`), what the room is connected to (`joined`),
each call of `start()`, the call of `end()` and the heartbeat that is under way. The code between two awaits is one
action (`ClicksStart`, `StartGranted`, `Joins`, `StartFails`, `StartOver`; `Ends`, `EndingReturns`; `BeatReturns`; `ConnectionLost`, `Hides`), and an
answer is read later or lost (`LosesAnswer`). Heartbeats and ends are handled when they are sent, only their answers are delayed; a start
may be handled after its page has gone.

**`ReadAloud`** is `tools/read_aloud.py`: every command is a process. `Notifies` and `Admits` are `reserve_notification`, `ChecksMute`,
`TakesLock`, `OpensSocket` and `Finishes` are `run_narration`, `Continues`, `StartsPlayer`, `Leaves`, `PlayerStops` and `EndReturns` are
`speak` with its requests (settings, audition, status until ready, audio, status while it plays, end), `StopSpeaking` is the other side of the
socket. `Killed` ends a process anywhere; the system then frees its file locks, the socket stays.

**`StudioClients`** composes them and has the clock, `Tick`: it counts `silent`, `age`, the time of a request and of `speak()`, and
waits for a narrator whose request or narration has used its time up (`Punctual`), since a timeout is punctual next to the seconds that it is made of.

Run `clients`:

* `NarrationHoldsSlot`: while a clip is heard, its narrator owns the slot, and listens at the socket where a stop will
  reach it. The broker never gives the slot away under a clip: that the polls are heartbeats, that each request has 8 s
  and the narration 80, against 45 s and 90 s in the broker, is what makes it true, and dropping either breaks it.
* `AtMostOneAttempt`: a narration of a turn never begins with its receipt in the ledger, whoever is killed or admitted at the same time.
* `CaptureHasOwner`: a page that is connected to a room has a session that it can end, though ends, heartbeats, starts and a closed
  connection run across each other.
* `SessionsAreLetGo`: a session that no client holds (its answer was lost, its page or narrator is gone) leaves the slot, unless
  its drain fails; and a page lets go of a session that the broker has given up, with the exception below.
* `ClientsTypeOK` also says that no request and no narration passes its time limit.

**Bounds.** `MaxOwners`, `MaxStarts`, `MaxCommands` cap the sessions, starts and narrations of a behaviour at 2, and `MaxClients` caps starts and
narrations together at 2: two starts, a start and a narration in either order, or two narrations that fight for the locks. One turn that notifies (twice),
and narrations without one (`speak`); a ledger of one receipt. The clocks keep the order of the real limits:
a request (8 s) 1 tick, a heartbeat 3, a narration 4, an audition 4. **Fairness**: time passes, the watchdog and the drains run, requests are handled and programs
run (`FairSpec`); whether a start succeeds, what users do and whether an answer arrives is not assumed. `CHECK_DEADLOCK FALSE`: the commands are used up.

What the model shows beside the properties:

* `useStudio.end()` when the broker has given the session up already: `session/end` answers 404, `end()` keeps the grant, and `releaseRequested`
  stops the heartbeats that would clear it. `start()` refuses, and another try of `end()` gets 404 again, until the page is reloaded
  (the page says "start a new session when it is ready", 147). This is `EndedTooLate`, the exception in `SessionsAreLetGo`.
* A `start()` resets `releaseRequested` (76) while the `connect()` of an earlier one is pending; the page can then be in the room of a
  session before its own. `CaptureHasOwner` still holds: it can end *a* session, and ending leaves the room.
* A failed `start()` resets `busy` twice, in `end()` and in its own `finally`; the second can fall into a later `start()`.
* `mute` that comes after a narrator's check of the file and before its socket stops nothing: the narration goes on
  (`docs/read-aloud.md:27`). "Another playback controller is still stopping" (346) cannot be reached: who listens has the lock.

## 8. Proofs

### The broker

`StudioBroker_proofs` proves, for every set of sessions, every pipe capacity and every set of kinds
and faults (assumption `ConstantsOK`: `NoSession` is no session, the pipe holds a line):

| Theorem | Statement |
|---|---|
| `InductiveInvariant` | `Spec => []IInv` |
| `TypeCorrect` | `Spec => []TypeOK` |
| `MarkerSafety` | `Spec => []MarkerCoversWork` |
| `BackendExclusion` | `Spec => []OneSessionBusy` |
| `AdmissionSafety` | `Spec => []IdleIsQuiet` |

None of the three safety invariants is inductive. Why may a monitor remove the marker? Because its
session is confirmed; a confirmed session has an exited worker without inference (`SafeIsTrue`:
a *safe* line, read or still in the pipe, is the last word of a worker); and no *other* session is
busy (`OneSessionBusy`), since a busy session is `current` (`BusyIsCurrent`) and there is one current
session. Why is there no second session? Because a start that has passed admission but owns no session
yet excludes every other (`AdmittingIsAlone`), and so does a request in its preflight
(`PreflightIsAlone`). `IInv` is the conjunction of these parts; it was checked by TLC on the instance of `broker_safety`
before the proof, and no run repeats what is proved. The proof has one lemma per action. Lemmas about frames (`Frame...`) handle the actions that
leave the fields `IInv` reads alone, and one about a resolved session (`Settled...`) the four ways in which the
marker goes.

The samples of auditions have an inductive invariant of their own, `SInv`, relative to `IInv`. `StudioSamples_proofs` has it, under
the same assumption:

| Theorem | Statement |
|---|---|
| `SampleInvariant` | `Spec => [](IInv /\ SInv)` |
| `SampleSafety`, `WatchdogSafety` | `SampleIsSettled`, `WatchdogFindsAudition` always |
| `BlockedSafety`, `ResultSafety` | `Spec => UnblockedOnlyWhenResolved`, `Spec => ResultIsFinal` |

A sample is settled when its worker's work is over, and this is known from three sides: the field `sample`, the line in
the pipe and the phase. `SInv` says how the three agree while the monitor, the end task and the removal of the result run across
each other.

What only a good operator and a good machine give is proved in the second half of `StudioSamples_proofs` from the hypothesis `Healthy`: no fault but a dead
broker and a room that cannot be deleted, and auditions only. The run `broker_healthy` allows no fault at all, so the theorems say more
than it does. The invariant is `HInv`: a worker has no reason to end in any way but in a confirmed drain.

| Theorem | Statement |
|---|---|
| `HealthyInvariant` | `Healthy /\ Spec => [](IInv /\ SInv /\ HInv)` |
| `HealthySafety`, `ReleaseSafety` | `Healthy /\ Spec => []NeverBlocked`, `Healthy /\ Spec => DrainedAtRelease` |

### The providers

`FastQwen_proofs` and `VoiceboxProvider_proofs` prove, for every set of calls, every queue, every length of
speech, and every set of profile names (assumptions `ConstantsOK`):

| Module | Theorem | Statement |
|---|---|---|
| both | `InductiveInvariant` | `Spec => []IInv` |
| both | `Implementation` | `Spec => ImplementsInference`, that is, `Inference!Spec` |
| `FastQwen_proofs` | `StateSafety`, `SlotSafety`, `SpeechIsWhole`, `AbandonedJobsStop` | `StateIsTrue`, `ThreadOwnsSlot`, `WholeSpeech`, `AbandonedIsStopped` always |
| `VoiceboxProvider_proofs` | `StateSafety`, `ProfileSafety` | `StateIsTrue`, `ProfileIsOfOptions` always |

In both, the heart is that work has an owner: a thread at work belongs to the job in the slot
(`JobHoldsSlot`, `ThreadHasJob`), a generation in the server to the job in the slot unless the client is uncertain
(`WorkIsOwned`). An inference begins in the step of the job in the slot, so no other is in flight; and
the provider is then neither closed nor in doubt (`UnbornIsStopped`, `UncertainIsFree`). `WholeSpeech` follows from an account of the
chunks (`ChunksAreKept`: made is heard, queued or in the bridge) and from what an undisturbed end means
(`GoodEndIsWhole`). `ProfileIsOfOptions` follows from `ProfilesAreFresh`: a cached profile was looked up no earlier than
the revision it is kept for, since a lookup begins no earlier than its call. The refinement proofs have one lemma per
kind of step: a stutter, an end, a beginning, the loss of sight, and close.

### The recognizer

`RecognizerStream_proofs` proves, for any sizes of the channel, the reserve, the frames, the event buffer and the
sockets and any number of retries (`ConstantsOK`):

| Theorem | Statement |
|---|---|
| `InductiveInvariant` | `Spec => []IInv` |
| `BacklogSafety`, `CommitsAreSerial`, `SpeechInOrder`, `RetriesAreClean` | `BacklogIsBounded`, `AudioWaitsForAck`, `SpeechIsBracketed`, `RetryStartsClean` always |
| `TextSafety`, `SoundSafety` | `TextIsOfUtterance`, `SoundIsAccountedFor` always |

`IInv` has one part for each reason. The limit follows the backlog because a reserve is held exactly while the sender
finalizes (`ReserveIsHeld`), so that no cancelled task leaves one behind. Commits are serial because the sender has
none open unless it is finalizing (`OneCommit`). A retry is clean because nothing at all can be heard before
sound was sent, nor once the receiver has lost the server (`SilentAtFirst`). And the order of the events holds because `started` says
whether someone speaks after the last of them, as long as the receiver has not failed, and because the answer to a commit is the last word of
its utterance (`EventsInOrder`): the usage that the sender adds then comes when nobody speaks. The proof has one lemma per
part and, within it, one step per group of actions that touch what the part reads; the lemmas before it say what each edit of the channel,
each queue and each answer does.

Two properties need an inductive invariant more, each relative to `IInv`. `TextInv` counts: the usage events up to a place of the
event list (`Counts`), and the answers of the server that nobody has read (`Untold`); a final text then carries the number of the
utterance it is heard in. `LedgerInv` is the conservation of sound: what was accepted is waiting, in the hand of the sender, in the
server unbilled, billed, or lost with an error. The sum over the waiting items is a recursive function over the channel (`SumsOf`), of which TLAPS
has only the defining equation as a CHOOSE. That such a function exists and is unique is induction over the numbers. The library's induction theorems
take an operator as their parameter, which the provers cannot instantiate; the proof uses the well-foundedness of `<`
instead, which speaks of sets: a set of counterexamples would have a least element (`Least`, `Induction`). The lemmas `Total...` then say
what appending and removing an item does to the sum.

### The clients

`StudioClients_proofs` proves, for any number of sessions, starts, commands and turns, any size of the ledger, and any time limits
of which three requests fit into the heartbeat and a narration into an audition (`TimeLimits`; in the code 3 x 8 s against 45 s and
80 s against 90 s):

| Theorem | Statement |
|---|---|
| `InductiveInvariant` | `Spec => []IInv` |
| `TypeCorrect` | `Spec => []ClientsTypeOK` |
| `NarrationSafety`, `CaptureSafety` | `NarrationHoldsSlot`, `CaptureHasOwner` always |
| `OneAttempt` | `Spec => AtMostOneAttempt` |

`NarrationHoldsSlot` is about time. From the last poll that the broker has heard until a clip that plays can have the next one heard, three
requests may pass: the answer to the poll, the audio, the poll itself. `Silence` counts them at each place of `speak()`, and
`HoldsSlot` says that a narrator that knows that its sample is held (`Knows`) still owns the slot, that the broker's `silent` is within
`Silence`, and that the `age` of the audition is within the time that `speak()` has spent. `OwnerKnows` concludes that the watchdog has no reason to end it, and
`HandlesDiffer` that no page and no other command can. Each step of the slot is shown to spare every narration that it is not
about (`Spares`), each step of a command to leave the files of the others alone (`FilesSpare`); `PageFrame` and `NarrationFrame` put the two together, so that
a step needs a proof only for its own actor. A receipt is missing until it is written since `notification.lock` is held from the
check to the write (`Admission`), and a page in a room is not ending because an end leaves the room first (`PageInv`).

### The agent

`AgentConversation_proofs` and `AgentReplies_proofs`, which extends it, prove, for any number of calls and any sizes of replies, contexts,
queue and pipe (`ConstantsOK`):

| Theorem | Statement |
|---|---|
| `InductiveInvariant` | `Spec => []IInv` |
| `OwnedRuntime` | `Spec => []RuntimeIsOwned` |
| `TurnInvariant` | `Spec => [](IInv /\ TurnInv /\ SessionInv)` |
| `SettledSafety` | `Spec => []SettledBeforeReuse` |
| `RepliesInvariant` | `Spec => [](RepliesInv /\ MessagesInv)` |
| `RepliesSafety` | `Spec => []RepliesStayInTurn` |
| `PromptsSafety` | `Spec => []PromptsAddUp` |
| `TypeCorrect` | `Spec => []TypeOK` |

`RuntimeIsOwned` speaks of the process at rest; on the way there it is held together by the lock. `LockInv` says that
everyone in the lock is there once and that whoever is past the wait is its first, so that a step of the holder finds every other
task at rest (`HolderIsAlone`). `StagesAgree` ties where a call stands to what the adapter has (no session while a runtime starts or stops), and
`ClientInv` lists the only reasons for a client without a session: it is on its way in or out, poisoned, or left by a stop that was cut short. A preflight that
overwrites a client finds the lock at rest and no metadata, so the last two reasons are left (`StartsRuntimeKeeps`). `HolderFrame` proves a step of
the holder, `QuietFrame` one of anybody else; each action then needs only what it changes.

`SettledBeforeReuse` speaks of the moment at which a prompt waits for the process; what makes it true are the lines and the requests of the
turn before, wherever they are. `TurnInv` says it in three cases. Nobody prompts: `NothingRuns`, and every line in the pipe is a late
delta. `Asked`: nobody has taken the prompt, which is still in the pipe, was refused or was lost, and the end of the turn before it holds.
`Started`: the process has made one turn more than when the call began (`turn.before`); its end is in the pipe at most once and only
late deltas and the answer to an interrupt follow it (`EndIsLast`, `OneConfirms`), an interrupt is in the pipe or its answer is,
never both (`RequestsInv`), and `idle`, `turn_id` and `retired` change together when the reader takes the end (`IdleInv`), even where `send()` has
not run on yet. `SessionInv` adds that a prompt has a session. A late delta may come at any time, so all lines are
described by what they may be, not by which they are. `StepClass` sorts the steps: those that leave the turn alone (`Aside`), those
after which no turn can be (`Blank`), and those of the turn, each with a lemma. `MaxParts` is at least 1, as a late line has a part.

The two properties about texts need each other: a prompt that only adds to the conversation is right because `owner.history` is what the
process has, and it is so because the reply before was heard whole. `RepliesInv` is the account that connects them. While a turn accepts
events and has not failed there are two numbers `r` and `t` (`Accounts`): the chunks that were heard and the events in the queue go on, part
by part, up to `r` (`Follows`); the lines of this turn that the pipe holds before its end go on from `r` up to `t` (`Continues`), by
deltas or by an item that tells a reply of which nothing came before; and `t` is what the process has said, in the
running turn or as the last message of its thread (`Spoken`). A turn that ends with *done* was read with nothing left, so `r = t`, and what was heard is
what the thread gained. A dropped event breaks the account, but never silently: an event that does not fit fails the turn, so that the
next prompt is a snapshot (`SeenInv`), and the *done* that does not fit is one that its caller never reads. A prompt in
the pipe gives, when it is applied to the thread, the context of its caller (`ThreadInv`). Between two turns the thread is the history unless
a snapshot is due (`HistoryInv`), and a turn that is retired is an earlier one, never the present (`SeenInv`), so that no part of the own
reply is refused. What the account needs of the order in which the process speaks is that an item of a turn comes after its deltas or instead
of them, and that a late delta carries the number of an earlier turn.

The types come last because the number of a turn has no bound of its own: `MaxCalls` caps the calls of the voice, and a turn is counted by the
process. `CapInv` counts who may still start one: the turns so far and the callers in the lock are no more than the calls, where
close() in the lock is none and the call that prompts is in the lock and may have had its turn (`Counted`). No single step is told to keep that
sum; `StepTurns` says that a step makes a turn only by making its prompter `Counted`, or lets a counted one go at the end of its turn, and
`StepLock` that the lock grows only with a call or with close(). With it every line, event and chunk has a turn in `1..MaxCalls` (`LinesBounded`,
`ChunksAre`), a reply is within `_MAX_RESPONSE_CHARS` and the queue of the turn within `_QUEUE_SIZE`. What the thread of the process is typed by is
`RepliesInv`: when a prompt is applied to it, it is the context of a call. TLC has checked each of these invariants, `TypesInv` among them,
on the instance of the run before it was proved.

### Only model-checked

All liveness: fairness and ENABLED are out of the prover's reach. Every invariant and every action property that a run
checks is stated by a theorem.

## 9. Not modelled

Clocks (deadlines are nondeterministic, but for `StudioClients`, which counts the limits that must fit each other), HTTP status codes, the contents of pages and reports, metrics,
the conversation inside a worker (LiveKit), audio, settings and voices as data (a library change is the
loss of the kept sample), a marker that cannot be written, the phases of a recognizer stream (they word its errors), the provider's list
of streams (one at a time), the sizes of its messages beyond "too long".

Of the agent: the Copilot provider, whose process and turns are a library's, the usage figures, and the text of the messages. Of the page: the
hooks of auditions, of the recorder and of the agent settings. Of the narrator: the text, the WAV, its status file and the file of `mute`, which is an open choice.

Where a module is coarser than the code, and why that is harmless:

* `StudioBroker`: `LeaseReleased` does not wait for handlers in flight, as `runner.cleanup()` does (`studio.py:1305`): more behaviours than
  the code has. The failure of `_create` with a process assigned (526-530) is left out: nothing is awaited after the assignment, and
  what follows it makes a task and a dictionary.
* `BrowserPage`: `EndsNothing` is one step though `disconnect()` is awaited (`useStudio.ts:52-58`). Capture has stopped
  before the await, there is no session to let go, and a `start()` that is pending finds `release` either way.
* `AgentConversation`: a turn that is not safely settled may stop the process twice (`agent_llm.py:571-573`). The adapter is poisoned before, so
  only the last word counts: `Stopped` if an attempt succeeds, `StopFails` if none does.

Components with no module: the Nemotron service, the service tool, the voice library and bundles, and the setup checks (steps 3 and 7 of the plan);
scripts and diagnostics are sequential, and the pages of the UI render what the hooks keep.
