------------------------------ MODULE FastQwen ------------------------------
(***************************************************************************)
(* The local MLX speech provider (examples/fast_qwen.py): one cached model *)
(* and one job at a time.  A job is an asyncio task (_run_job) and a       *)
(* thread (_work) that hands its audio to the event loop through a bounded *)
(* queue.  The calls that ask for a job, prepare() and the streams of      *)
(* synthesize(), may leave before their job ends; the thread cannot be     *)
(* cancelled, only asked to stop.  An action is the code between two       *)
(* awaits, or one step of the thread.  Time is abstracted.                 *)
(***************************************************************************)
EXTENDS Naturals

CONSTANTS
  Calls,      \* calls of prepare() and streams; one that is over is reused
  NoCall,     \* Python's None where a job is expected
  QueueCap,   \* chunks in the queue of a job (4)
  MaxChunks   \* chunks of the longest speech (30 seconds)

ASSUME ConstantsOK ==
  /\ NoCall \notin Calls
  /\ QueueCap \in Nat \ {0}
  /\ MaxChunks \in Nat

VARIABLES
  loaded,     \* _model is not None
  slot,       \* _job: the call whose job holds _lock
  state,      \* _state
  uncertain,  \* _uncertain
  closing,    \* _closing
  closer,     \* where _close() stands
  call,       \* prepare() or ChunkedStream._run of each call
  job         \* the _Job of each call, its task and its thread

vars == <<loaded, slot, state, uncertain, closing, closer, call, job>>

Call == [kind  : {"prepare", "speech"},
         at    : {"none", "queued", "served", "ok", "failed", "left"},
         heard : 0..MaxChunks]          \* chunks that reached the emitter

Working == {"begins", "checks", "generating", "putting"}

Job == [at     : {"none", "fetching", "running", "late", "done"},
        stop   : BOOLEAN,
        failed : BOOLEAN,               \* job.error
        thread : Working \cup {"none", "whole", "cut", "raised"},
        put    : {"none", "scheduled", "done"},  \* the future of queue.put
        queue  : 0..QueueCap,
        made   : 0..MaxChunks]          \* chunks the model has produced

NewCall(kind, at) == [kind |-> kind, at |-> at, heard |-> 0]

NewJob(at) == [at |-> at, stop |-> FALSE, failed |-> FALSE, thread |-> "none",
               put |-> "none", queue |-> 0, made |-> 0]

Present(c) == call[c].at \in {"queued", "served"}
InFlight(c) == job[c].thread \in Working

TypeOK ==
  /\ loaded \in BOOLEAN /\ uncertain \in BOOLEAN /\ closing \in BOOLEAN
  /\ slot \in Calls \cup {NoCall}
  /\ state \in {"idle", "active", "draining", "uncertain", "closed"}
  /\ closer \in {"none", "stopping", "streams", "waiting", "closed", "failed"}
  /\ call \in [Calls -> Call]
  /\ job \in [Calls -> Job]

Init ==
  /\ loaded = FALSE /\ uncertain = FALSE /\ closing = FALSE
  /\ slot = NoCall
  /\ state = "idle"
  /\ closer = "none"
  /\ call = [c \in Calls |-> NewCall("prepare", "none")]
  /\ job = [c \in Calls |-> NewJob("none")]

-----------------------------------------------------------------------------
(* The calls.                                                              *)

\* Slip: a call that waited for the lock is not asked whether close has begun.
OpenUntilUncertain == ~uncertain

\* _check_open.
Open == ~uncertain /\ ~closing

\* prepare() or synthesize(): the call will wait for the lock, or find it free.
Request(c, kind) ==
  /\ Open
  /\ ~Present(c) /\ job[c].at \in {"none", "done"}
  /\ call' = [call EXCEPT ![c] = NewCall(kind, "queued")]
  /\ job' = [job EXCEPT ![c] = NewJob("none")]
  /\ UNCHANGED <<loaded, slot, state, uncertain, closing, closer>>

\* _start: the lock is taken, and what _check_open said before is asked again.
Admit(c) ==
  /\ call[c].at = "queued" /\ slot = NoCall
  /\ \/ /\ Open
        /\ slot' = c
        /\ state' = "active"
        /\ call' = [call EXCEPT ![c].at = "served"]
        /\ job' = [job EXCEPT ![c].at = "fetching"]
     \/ /\ ~Open
        /\ call' = [call EXCEPT ![c].at = "failed"]
        /\ UNCHANGED <<slot, state, job>>
  /\ UNCHANGED <<loaded, uncertain, closing, closer>>

\* _stop(job).
Stop(c) ==
  /\ job' = [job EXCEPT ![c].stop = TRUE]
  /\ state' = IF job[c].at # "done" /\ ~uncertain THEN "draining" ELSE state

\* Slip: a caller that leaves does not stop its job.
AbandonSilently(c) == UNCHANGED <<job, state>>

\* The finally clauses of prepare() and _run: a job that was created is stopped.
Abandon(c) ==
  \/ call[c].at = "served" /\ job[c].at # "done" /\ Stop(c)
  \/ ~(call[c].at = "served" /\ job[c].at # "done") /\ UNCHANGED <<job, state>>

\* Slip: the foreground deadline does not cover the wait for the lock.
MayLeaveOnceServed(c) == call[c].at = "served"

MayLeave(c) == Present(c)

\* The foreground deadline, a cancellation, or the aclose() of a stream.
Leave(c) ==
  /\ MayLeave(c)
  /\ call' = [call EXCEPT ![c].at = "left"]
  /\ Abandon(c)
  /\ UNCHANGED <<loaded, slot, uncertain, closing, closer>>

\* _consume takes a chunk from the queue and pushes it to the emitter.
Consume(c) ==
  /\ call[c].at = "served" /\ call[c].kind = "speech"
  /\ job[c].queue > 0
  /\ job' = [job EXCEPT ![c].queue = @ - 1]
  /\ call' = [call EXCEPT ![c].heard = @ + 1]
  /\ UNCHANGED <<loaded, slot, state, uncertain, closing, closer>>

\* Slip: the consumer stops at the end of the job, with audio in the queue.
FinishedWhenDone(c) == job[c].at = "done"

Finished(c) == job[c].at = "done" /\ job[c].queue = 0

CallReturns(c) ==
  /\ call[c].at = "served" /\ Finished(c)
  /\ call' = [call EXCEPT ![c].at = IF job[c].failed THEN "failed" ELSE "ok"]
  /\ UNCHANGED <<loaded, slot, state, uncertain, closing, closer, job>>

-----------------------------------------------------------------------------
(* The task of a job.                                                      *)

\* Slip: the end of a job makes an uncertain provider idle.
StateReset == state' = IF closing THEN "draining" ELSE "idle"

StateAfterJob ==
  state' = IF uncertain THEN state ELSE IF closing THEN "draining" ELSE "idle"

\* The finally clause of _run_job.
Release(c, failed) ==
  /\ job' = [job EXCEPT ![c].at = "done", ![c].failed = failed]
  /\ slot' = NoCall
  /\ StateAfterJob

\* The reference is read, unless the model has it already; then the thread runs.
FetchReference(c) ==
  /\ job[c].at = "fetching"
  /\ \/ ~loaded /\ Release(c, TRUE)
     \/ job[c].stop /\ Release(c, FALSE)
     \/ /\ ~job[c].stop
        /\ job' = [job EXCEPT ![c].at = "running", ![c].thread = "begins"]
        /\ UNCHANGED <<slot, state>>
  /\ UNCHANGED <<loaded, uncertain, closing, closer, call>>

\* Slip: the deadline of the job is forgotten.
DeadlineForgotten(c) == FALSE

\* The deadline of a job is that of its call plus the drain timeout: it passes
\* long after the call has left.
DeadlinePasses(c) == ~Present(c)

\* The thread outlives its deadline; the task goes on waiting for it.
JobDeadline(c) ==
  /\ job[c].at = "running" /\ InFlight(c)
  /\ DeadlinePasses(c)
  /\ job' = [job EXCEPT ![c].at = "late", ![c].stop = TRUE]
  /\ uncertain' = TRUE
  /\ state' = "uncertain"
  /\ UNCHANGED <<loaded, slot, closing, closer, call>>

\* Slip: the task does not wait for the thread once the deadline has passed.
ThreadEndedOrLate(c) == job[c].at = "late" \/ ~InFlight(c)

ThreadEnded(c) == ~InFlight(c)

JobEnds(c) ==
  /\ job[c].at \in {"running", "late"} /\ ThreadEnded(c)
  /\ Release(c, job[c].thread = "raised")
  /\ UNCHANGED <<loaded, uncertain, closing, closer, call>>

-----------------------------------------------------------------------------
(* The thread of a job: _work.  Any step of the model may take for ever.   *)

\* The thread sees the request to stop at its next check.
ThreadStops(c) ==
  /\ job[c].thread \in {"begins", "checks", "generating"} /\ job[c].stop
  /\ job' = [job EXCEPT ![c].thread = "cut"]
  /\ UNCHANGED <<loaded, slot, state, uncertain, closing, closer, call>>

\* _initialize, which may raise, unless the model is loaded already.  The
\* request to stop may come while it runs.
ThreadLoads(c) ==
  /\ job[c].thread = "begins"
  /\ \/ /\ ~loaded
        /\ job' = [job EXCEPT ![c].thread = "raised"]
        /\ UNCHANGED loaded
     \/ /\ loaded' = TRUE
        /\ job' = [job EXCEPT ![c].thread = "checks"]
  /\ UNCHANGED <<slot, state, uncertain, closing, closer, call>>

\* prepare() has no text: it is over when the model is loaded.
ThreadChecks(c) ==
  /\ job[c].thread = "checks" /\ ~job[c].stop
  /\ job' = [job EXCEPT ![c].thread =
               IF call[c].kind = "prepare" THEN "whole" ELSE "generating"]
  /\ UNCHANGED <<loaded, slot, state, uncertain, closing, closer, call>>

\* The model yields a chunk, unsupported audio, or the end of the speech, which
\* is an error when there was none.
ThreadGenerates(c) ==
  /\ job[c].thread = "generating" /\ ~job[c].stop
  /\ \/ /\ job[c].made < MaxChunks
        /\ job' = [job EXCEPT ![c].thread = "putting", ![c].put = "scheduled",
                              ![c].made = @ + 1]
     \/ job' = [job EXCEPT ![c].thread = "raised"]
     \/ /\ job[c].made > 0
        /\ job' = [job EXCEPT ![c].thread = "whole"]
  /\ UNCHANGED <<loaded, slot, state, uncertain, closing, closer, call>>

\* The event loop runs the put that the thread scheduled, when there is room.  (A
\* put that comes just ahead of its cancellation is a put before ThreadPolls.)
LoopPuts(c) ==
  /\ job[c].thread = "putting" /\ job[c].put = "scheduled"
  /\ job[c].queue < QueueCap
  /\ job' = [job EXCEPT ![c].queue = @ + 1, ![c].put = "done"]
  /\ UNCHANGED <<loaded, slot, state, uncertain, closing, closer, call>>

\* Slip: the thread blocks in result() until the put is done.
GivesUpNever(c) == FALSE

GivesUp(c) == job[c].stop

\* Every 20 ms the thread looks at the put and at the request to stop, which
\* cancels the put.
ThreadPolls(c) ==
  /\ job[c].thread = "putting"
  /\ \/ /\ GivesUp(c)
        /\ job' = [job EXCEPT ![c].thread = "cut", ![c].put = "none"]
     \/ /\ ~GivesUp(c) /\ job[c].put = "done"
        /\ job' = [job EXCEPT ![c].thread = "generating", ![c].put = "none"]
  /\ UNCHANGED <<loaded, slot, state, uncertain, closing, closer, call>>

-----------------------------------------------------------------------------
(* aclose() and _close().                                                  *)

CloseBegins ==
  /\ ~closing
  /\ closing' = TRUE
  /\ closer' = "stopping"
  /\ UNCHANGED <<loaded, slot, state, uncertain, call, job>>

CloseStopsJob ==
  /\ closer = "stopping"
  /\ closer' = "streams"
  /\ \/ slot # NoCall /\ Stop(slot)
     \/ slot = NoCall /\ UNCHANGED <<job, state>>
  /\ UNCHANGED <<loaded, slot, uncertain, closing, call>>

Streaming(c) == call[c].kind = "speech" /\ Present(c)

\* Streams are closed one after the other.
CloseEndsStream(c) ==
  /\ closer = "streams" /\ Streaming(c)
  /\ call' = [call EXCEPT ![c].at = "left"]
  /\ Abandon(c)
  /\ UNCHANGED <<loaded, slot, uncertain, closing, closer>>

CloseEndedStreams ==
  /\ closer = "streams" /\ \A c \in Calls : ~Streaming(c)
  /\ closer' = "waiting"
  /\ UNCHANGED <<loaded, slot, state, uncertain, closing, call, job>>

\* Slip: close does not wait for the job.
NothingToAwait == TRUE

JobAwaited == slot = NoCall

CloseSettles ==
  /\ closer = "waiting" /\ JobAwaited
  /\ closer' = IF uncertain THEN "failed" ELSE "closed"
  /\ state' = IF uncertain THEN state ELSE "closed"
  /\ UNCHANGED <<loaded, slot, uncertain, closing, call, job>>

\* Slip: close has no time limit.
CloseIsPatient == FALSE

CloseRunsOut == closer \in {"streams", "waiting"}

CloseTimesOut ==
  /\ CloseRunsOut
  /\ uncertain' = TRUE
  /\ state' = "uncertain"
  /\ closer' = "failed"
  /\ UNCHANGED <<loaded, slot, closing, call, job>>

-----------------------------------------------------------------------------
CallStep(c) == Admit(c) \/ Consume(c) \/ CallReturns(c)
JobStep(c) == FetchReference(c) \/ JobEnds(c)
ThreadStep(c) == ThreadStops(c) \/ ThreadLoads(c) \/ ThreadChecks(c) \/ ThreadGenerates(c)
CloseStep == CloseStopsJob \/ CloseEndedStreams \/ CloseSettles

Next ==
  \/ CloseBegins \/ CloseStep \/ CloseTimesOut
  \/ \E c \in Calls :
       \/ \E kind \in {"prepare", "speech"} : Request(c, kind)
       \/ CallStep(c) \/ Leave(c) \/ JobStep(c) \/ JobDeadline(c)
       \/ ThreadStep(c) \/ LoopPuts(c) \/ ThreadPolls(c) \/ CloseEndsStream(c)

Spec == Init /\ [][Next]_vars

\* The event loop runs its tasks and timers, and a thread that only waits for
\* the event loop polls.  Nothing is assumed of the model.
Fairness ==
  /\ WF_vars(CloseStep) /\ WF_vars(CloseTimesOut)
  /\ \A c \in Calls :
       /\ WF_vars(CallStep(c)) /\ WF_vars(Leave(c)) /\ WF_vars(JobStep(c))
       /\ WF_vars(JobDeadline(c)) /\ WF_vars(LoopPuts(c)) /\ WF_vars(ThreadPolls(c))
       /\ WF_vars(CloseEndsStream(c))

FairSpec == Spec /\ Fairness

-----------------------------------------------------------------------------
(* What the provider promises.                                             *)

\* The lock covers the thread, not the caller: whoever has left, and whatever
\* deadline has passed, no other job runs before the thread has ended.
ThreadOwnsSlot == \A c \in Calls : InFlight(c) => slot = c

Inference == INSTANCE OwnedInference WITH
  Jobs <- Calls,
  inflight <- {c \in Calls : InFlight(c)},
  doubt <- uncertain,
  verdict <- IF closer = "closed" THEN "safe"
             ELSE IF closer = "failed" THEN "unsafe" ELSE "none"

\* The provider is an owner of inference: a worker whose aclose() returns may
\* report a safe drain.
ImplementsInference == Inference!Spec

\* A stream that ends without an error has delivered the whole speech, unless
\* the provider was closed under it.
WholeSpeech ==
  \A c \in Calls : call[c].at = "ok" /\ call[c].kind = "speech" /\ ~closing =>
    job[c].thread = "whole" /\ call[c].heard = job[c].made

\* A job that nobody waits for has been asked to stop.
AbandonedIsStopped == slot # NoCall => Present(slot) \/ job[slot].stop

\* The state that the worker reports tells the truth about the job.
StateIsTrue ==
  /\ state = "idle" => slot = NoCall /\ ~uncertain
  /\ state = "active" => slot # NoCall /\ ~job[slot].stop
  /\ state = "draining" => closing \/ (slot # NoCall /\ job[slot].stop)
  /\ state = "closed" => slot = NoCall /\ ~uncertain
  /\ state = "uncertain" <=> uncertain

\* Whatever the model does, every call returns and so does close, a full queue whose consumer
\* is gone does not hold the thread, and a job ends or the provider says that it cannot tell.
EverythingEnds ==
  /\ \A c \in Calls : Present(c) ~> ~Present(c)
  /\ closing ~> closer \in {"closed", "failed"}
  /\ \A c \in Calls : job[c].thread = "putting" ~> job[c].thread # "putting"
  /\ \A c \in Calls : slot = c ~> slot # c \/ uncertain

-----------------------------------------------------------------------------
(* The inductive invariant of FastQwen_proofs, one conjunct per idea.      *)

HasJob(c) == job[c].at \in {"fetching", "running", "late"}

\* A job that is not done holds the slot, and a thread has such a job.
JobHoldsSlot == \A c \in Calls : HasJob(c) <=> slot = c
ThreadHasJob == \A c \in Calls : InFlight(c) => job[c].at \in {"running", "late"}

\* No thread begins for a job that was found when sight was lost, or when close
\* had begun to wait.
UnbornIsStopped ==
  \A c \in Calls : job[c].at = "fetching" =>
    (uncertain \/ closer \in {"streams", "waiting", "closed", "failed"} => job[c].stop)

CloserIsClosing == closing <=> closer # "none"
ClosedIsFree == closer = "closed" => slot = NoCall /\ ~uncertain
FailedIsUncertain == closer = "failed" => uncertain

\* The stages of the task, the thread and its put agree.
StagesAgree(c) ==
  /\ call[c].at = "queued" => job[c] = NewJob("none")
  /\ job[c].at \in {"none", "fetching"} => job[c].thread = "none"
  /\ job[c].at \in {"running", "late"} => job[c].thread # "none"
  /\ job[c].put # "none" => job[c].thread = "putting"

\* A job is stopped for a reason, and whatever ends early was stopped.
StopsHaveReasons(c) ==
  /\ job[c].stop => closing \/ ~Present(c)
  /\ HasJob(c) => Present(c) \/ job[c].stop
  /\ job[c].thread = "cut" => job[c].stop
  /\ job[c].at = "done" => job[c].failed \/ job[c].stop \/ job[c].thread = "whole"

\* A chunk is heard, in the queue, or on its way to it; only a thread that was
\* stopped drops one.
Pending(c) == IF job[c].put = "scheduled" THEN 1 ELSE 0
Accounted(c) == call[c].heard + job[c].queue + Pending(c)
ChunksAreKept(c) ==
  /\ Accounted(c) <= job[c].made
  /\ job[c].thread # "cut" => Accounted(c) = job[c].made

GoodEndIsWhole(c) ==
  call[c].at = "ok" /\ ~closing =>
    job[c].at = "done" /\ job[c].thread = "whole" /\ job[c].queue = 0

CallInv(c) == StagesAgree(c) /\ StopsHaveReasons(c) /\ ChunksAreKept(c) /\ GoodEndIsWhole(c)

SlotInv == JobHoldsSlot /\ ThreadHasJob /\ UnbornIsStopped
           /\ CloserIsClosing /\ ClosedIsFree /\ FailedIsUncertain

IInv == TypeOK /\ SlotInv /\ \A c \in Calls : CallInv(c)

\* The second one, relative to IInv: what StateIsTrue needs.
StateInv ==
  /\ StateIsTrue
  /\ state = "closed" => closing
  /\ \A c \in Calls : call[c].at = "served" => job[c].at # "none"

=============================================================================
