-------------------------- MODULE VoiceboxProvider --------------------------
(***************************************************************************)
(* The Voicebox speech provider of livekit-plugins-voicebox: the client of *)
(* the HTTP backend (client.py), which owns one submitted generation at a  *)
(* time, and the streams of the TTS plugin above it (tts.py) with their    *)
(* cache of the resolved profile.  A submitted generation cannot be taken  *)
(* back: a caller that leaves detaches from it.  An action is the code     *)
(* between two awaits.  Time is abstracted.                                *)
(***************************************************************************)
EXTENDS Naturals

CONSTANTS
  Calls,       \* streams and calls of resolve_profile; one that is over is reused
  NoCall,      \* no submitted generation
  Selectors,   \* profile names in the options
  NoProfile,   \* a profile that is not resolved yet
  MaxRevision  \* bound on the changes of the options in one behaviour

ASSUME ConstantsOK ==
  /\ NoCall \notin Calls
  /\ Selectors # {}
  /\ MaxRevision \in Nat
  /\ NoProfile \notin [selector : Selectors, since : Nat]

VARIABLES
  slot,      \* the call whose job holds VoiceboxClient._lock
  state,     \* VoiceboxClient._state
  uncertain, \* VoiceboxClient._uncertain
  closed,    \* TTS._closed
  closing,   \* VoiceboxClient._closing
  closer,    \* where TTS._close and VoiceboxClient._close stand
  options,   \* TTS._options: its selector and TTS._revision
  cache,     \* TTS._cache: a profile and the revision it is for
  call,      \* ChunkedStream._run or resolve_profile of each call
  job,       \* _run_job of each call
  backend    \* the inference of each call in the Voicebox server

vars == <<slot, state, uncertain, closed, closing, closer, options, cache, call, job, backend>>

client == <<slot, state, uncertain, closing>>
plugin == <<closed, closer, options, cache>>
work   == <<job, backend>>

Profile == [selector : Selectors, since : 0..MaxRevision]

\* A call keeps the selector and the revision of its start.
Call == [kind     : {"stream", "resolve"},
         at       : {"none", "new", "fetching", "checking", "queued", "served", "decoding",
                     "ok", "failed", "left"},
         selector : Selectors,
         revision : 0..MaxRevision,
         since    : 0..MaxRevision,    \* when the fetch of its profile began
         profile  : Profile \cup {NoProfile}]

Waiting == {"new", "fetching", "checking", "queued", "served", "decoding"}

Present(c) == call[c].at \in Waiting

TypeOK ==
  /\ slot \in Calls \cup {NoCall}
  /\ state \in {"idle", "active", "draining", "uncertain", "closed"}
  /\ uncertain \in BOOLEAN /\ closed \in BOOLEAN /\ closing \in BOOLEAN
  /\ closer \in {"none", "streams", "client", "waiting", "closed", "failed"}
  /\ options \in [selector : Selectors, revision : 0..MaxRevision]
  /\ cache \in [revision : 0..MaxRevision, profile : Profile \cup {NoProfile}]
  /\ call \in [Calls -> Call]
  /\ job \in [Calls -> {"none", "created", "posted", "done", "failed"}]
  /\ backend \in [Calls -> {"none", "running", "ended"}]

NewCall(kind, at, o) ==
  [kind |-> kind, at |-> at, selector |-> o.selector, revision |-> o.revision,
   since |-> 0, profile |-> NoProfile]

Init ==
  /\ slot = NoCall /\ state = "idle"
  /\ uncertain = FALSE /\ closed = FALSE /\ closing = FALSE
  /\ closer = "none"
  /\ \E s \in Selectors : options = [selector |-> s, revision |-> 0]
  /\ cache = [revision |-> 0, profile |-> NoProfile]
  /\ call = [c \in Calls |-> NewCall("resolve", "none", options)]
  /\ job = [c \in Calls |-> "none"]
  /\ backend = [c \in Calls |-> "none"]

-----------------------------------------------------------------------------
(* Profiles.                                                               *)

\* update_options(), or resolve_profile(refresh=True) before its first await.
Invalidate(s) ==
  /\ options.revision < MaxRevision
  /\ options' = [selector |-> s, revision |-> options.revision + 1]
  /\ cache' = [cache EXCEPT !.profile = NoProfile]

UpdateOptions ==
  /\ ~closed
  /\ \E s \in Selectors : Invalidate(s)
  /\ UNCHANGED <<client, closed, closer, call, work>>

\* synthesize(), or resolve_profile(refresh).
Request(c, kind, refresh) ==
  /\ ~closed
  /\ ~Present(c) /\ slot # c /\ backend[c] # "running"
  /\ IF refresh THEN kind = "resolve" /\ Invalidate(options.selector)
     ELSE UNCHANGED <<options, cache>>
  /\ call' = [call EXCEPT ![c] = NewCall(kind, "new", options')]
  /\ job' = [job EXCEPT ![c] = "none"]
  /\ backend' = [backend EXCEPT ![c] = "none"]
  /\ UNCHANGED <<client, closed, closer>>

Hit(c) ==
  /\ cache.profile # NoProfile
  /\ cache.revision = call[c].revision
  /\ cache.profile.selector = call[c].selector

\* Slip: a client that is not sure of its backend takes work.
OpenUntilClosed == ~closing

\* _check_open of the client.
Open == ~closing /\ ~uncertain

\* What a call does with its profile: a stream goes on to check the model, if
\* the plugin and its client are open (model_readiness).
Resolved(c) == CASE call[c].kind = "resolve" -> "ok"
                 [] call[c].kind = "stream" -> IF closed \/ ~Open THEN "failed" ELSE "checking"

\* _resolve with a profile in the cache.
ResolveFromCache(c) ==
  /\ call[c].at = "new" /\ Hit(c)
  /\ call' = [call EXCEPT ![c].at = Resolved(c), ![c].profile = cache.profile]
  /\ UNCHANGED <<client, plugin, work>>

\* _resolve asks the server, if the client is open.
ResolveFetches(c) ==
  /\ call[c].at = "new" /\ ~Hit(c)
  /\ \/ /\ Open
        /\ call' = [call EXCEPT ![c].at = "fetching", ![c].since = options.revision]
     \/ /\ ~Open
        /\ call' = [call EXCEPT ![c].at = "failed"]
  /\ UNCHANGED <<client, plugin, work>>

\* Slip: the profile is kept as that of the newest options.
KeepsAsNewest(c, p) == cache' = [revision |-> options.revision, profile |-> p]

\* The profile is kept only if no change of the options came in between.
Keeps(c, p) ==
  cache' = IF call[c].revision = options.revision
           THEN [revision |-> call[c].revision, profile |-> p] ELSE cache

ResolveReturns(c) ==
  /\ call[c].at = "fetching"
  /\ \/ LET p == [selector |-> call[c].selector, since |-> call[c].since]
        IN /\ call' = [call EXCEPT ![c].at = Resolved(c), ![c].profile = p]
           /\ Keeps(c, p)
     \/ /\ call' = [call EXCEPT ![c].at = "failed"]
        /\ UNCHANGED cache
  /\ UNCHANGED <<client, closed, closer, options, work>>

\* The model is there or it is not; then _check_open in synthesize_wav.
CheckModel(c) ==
  /\ call[c].at = "checking"
  /\ \/ /\ Open
        /\ call' = [call EXCEPT ![c].at = "queued"]
     \/ call' = [call EXCEPT ![c].at = "failed"]
  /\ UNCHANGED <<client, plugin, work>>

-----------------------------------------------------------------------------
(* The client.                                                             *)

\* synthesize_wav takes the lock, and what _check_open said is asked again; the
\* HTTP session may also have been closed by whoever supplied it.
Admit(c) ==
  /\ call[c].at = "queued" /\ slot = NoCall
  /\ \/ /\ Open
        /\ slot' = c
        /\ state' = "active"
        /\ call' = [call EXCEPT ![c].at = "served"]
        /\ job' = [job EXCEPT ![c] = "created"]
     \/ /\ call' = [call EXCEPT ![c].at = "failed"]
        /\ UNCHANGED <<slot, state, job>>
  /\ UNCHANGED <<uncertain, closing, plugin, backend>>

Done(c) == job[c] \in {"done", "failed"}

\* Slip: a detached job keeps the state "active".
DetachSilently(c) == UNCHANGED state

\* _detach(job): whoever submitted it has gone.
Detach(c) == state' = IF Done(c) \/ uncertain THEN state ELSE "draining"

\* What a call that leaves does to its job.
Leaves(c) ==
  /\ call' = [call EXCEPT ![c].at = "left"]
  /\ IF call[c].at = "served" THEN Detach(c) ELSE UNCHANGED state
  /\ UNCHANGED <<slot, uncertain, closing, closed, options, cache, work>>

\* Slip: the foreground deadline does not cover the wait for the lock.
MayLeaveOnceServed(c) == call[c].at \in Waiting \ {"queued"}

MayLeave(c) == Present(c)

\* The foreground deadline, or a cancellation.
Leave(c) == MayLeave(c) /\ Leaves(c) /\ UNCHANGED closer

\* _run_job posts the text; from here on the backend may be at work.
JobPosts(c) ==
  /\ job[c] = "created"
  /\ job' = [job EXCEPT ![c] = "posted"]
  /\ backend' = [backend EXCEPT ![c] = "running"]
  /\ UNCHANGED <<client, plugin, call>>

\* Slip: a job that failed leaves the client idle.
ForgetsFailure(known) == uncertain' = uncertain /\ state' = "idle"

\* What is left of a job whose completion is known, or is not.
Settles(known) ==
  /\ uncertain' = (uncertain \/ ~known)
  /\ state' = IF uncertain \/ ~known THEN "uncertain" ELSE "idle"

\* The finally clause of _run_job.
Release(c, result, known) ==
  /\ job' = [job EXCEPT ![c] = result]
  /\ slot' = NoCall
  /\ Settles(known)
  /\ UNCHANGED <<closing, plugin, call>>

\* The whole WAV is there, which the backend sends when it has made it.
JobCompletes(c) ==
  /\ job[c] = "posted" /\ backend[c] = "ended"
  /\ Release(c, "done", TRUE)
  /\ UNCHANGED backend

\* 400, 404 and 422 are sent before any inference.
JobRejected(c) ==
  /\ job[c] = "posted" /\ backend[c] = "running"
  /\ Release(c, "failed", TRUE)
  /\ backend' = [backend EXCEPT ![c] = "ended"]

\* Slip: no deadline for a job whose caller has left.
LostWhilePresent(c) == job[c] = "posted" /\ Present(c)

MayBeLost(c) == job[c] \in {"created", "posted"}

\* Another status, a transport error, a body beyond its limit, or the deadline
\* of the owned request.
JobLost(c) ==
  /\ MayBeLost(c)
  /\ Release(c, "failed", FALSE)
  /\ UNCHANGED backend

\* The inference ends in the backend, whoever still waits for it.
BackendEnds(c) ==
  /\ backend[c] = "running"
  /\ backend' = [backend EXCEPT ![c] = "ended"]
  /\ UNCHANGED <<client, plugin, call, job>>

\* The foreground gets the result of its job.
JobReturns(c) ==
  /\ call[c].at = "served" /\ Done(c)
  /\ call' = [call EXCEPT ![c].at = IF job[c] = "done" THEN "decoding" ELSE "failed"]
  /\ UNCHANGED <<client, plugin, work>>

\* decode_pcm and the frames of the stream.
Decode(c) ==
  /\ call[c].at = "decoding"
  /\ \E at \in {"ok", "failed"} : call' = [call EXCEPT ![c].at = at]
  /\ UNCHANGED <<client, plugin, work>>

-----------------------------------------------------------------------------
(* aclose() of the plugin, then of the client.                             *)

CloseBegins ==
  /\ ~closed
  /\ closed' = TRUE
  /\ closer' = "streams"
  /\ UNCHANGED <<client, options, cache, call, work>>

Streaming(c) == call[c].kind = "stream" /\ Present(c)

CloseEndsStream(c) ==
  /\ closer = "streams" /\ Streaming(c)
  /\ Leaves(c)
  /\ UNCHANGED closer

CloseEndedStreams ==
  /\ closer = "streams" /\ \A c \in Calls : ~Streaming(c)
  /\ closer' = "client"
  /\ closing' = TRUE
  /\ UNCHANGED <<slot, state, uncertain, closed, options, cache, call, work>>

\* VoiceboxClient._close detaches the job that is left.
CloseDetaches ==
  /\ closer = "client"
  /\ closer' = "waiting"
  /\ IF slot = NoCall THEN UNCHANGED state ELSE Detach(slot)
  /\ UNCHANGED <<slot, uncertain, closing, closed, options, cache, call, work>>

\* Slip: the client is closed under its job.
NothingToAwait == TRUE

JobAwaited == slot = NoCall

CloseSettles ==
  /\ closer = "waiting" /\ JobAwaited
  /\ closer' = IF uncertain THEN "failed" ELSE "closed"
  /\ state' = "closed"
  /\ UNCHANGED <<slot, uncertain, closing, closed, options, cache, call, work>>

-----------------------------------------------------------------------------
CallStep(c) == ResolveFromCache(c) \/ ResolveFetches(c) \/ CheckModel(c) \/ Admit(c)
               \/ JobReturns(c) \/ Decode(c)
CloseStep == CloseEndedStreams \/ CloseDetaches \/ CloseSettles

Next ==
  \/ UpdateOptions \/ CloseBegins \/ CloseStep
  \/ \E c \in Calls :
       \/ \E kind \in {"stream", "resolve"}, refresh \in BOOLEAN : Request(c, kind, refresh)
       \/ CallStep(c) \/ ResolveReturns(c) \/ Leave(c) \/ JobPosts(c) \/ JobCompletes(c)
       \/ JobRejected(c) \/ JobLost(c) \/ BackendEnds(c) \/ CloseEndsStream(c)

Spec == Init /\ [][Next]_vars

\* The event loop runs its tasks and its deadlines.  Nothing is assumed of the
\* backend: it need not answer, nor end what it began.
Fairness ==
  /\ WF_vars(CloseStep)
  /\ \A c \in Calls :
       /\ WF_vars(CallStep(c)) /\ WF_vars(Leave(c)) /\ WF_vars(JobPosts(c))
       /\ WF_vars(JobLost(c)) /\ WF_vars(CloseEndsStream(c))

FairSpec == Spec /\ Fairness

-----------------------------------------------------------------------------
(* What the provider promises.                                             *)

InFlight(c) == backend[c] = "running"

Inference == INSTANCE OwnedInference WITH
  Jobs <- Calls,
  inflight <- {c \in Calls : InFlight(c)},
  doubt <- uncertain,
  verdict <- IF closer = "closed" THEN "safe"
             ELSE IF closer = "failed" THEN "unsafe" ELSE "none"

\* The provider is an owner of inference: a worker whose aclose() returns may
\* report a safe drain.
ImplementsInference == Inference!Spec

\* What the state promises of the jobs: one that nobody waits for is draining, and
\* "uncertain" is not forgotten before the end of close.
StateAgrees ==
  /\ state = "active" => slot # NoCall /\ call[slot].at = "served"
  /\ state = "draining" => slot # NoCall
  /\ uncertain => state \in {"uncertain", "closed"}

\* The state that the worker reports tells the truth, and admission is a promise about the
\* server: an idle client left nothing there, whoever detached and whatever failed.
StateIsTrue ==
  /\ state = "idle" => \A c \in Calls : ~InFlight(c)
  /\ StateAgrees

\* A call speaks with the profile that its own options name, looked up no
\* earlier than those options were set.
ProfileIsOfOptions ==
  \A c \in Calls : call[c].profile # NoProfile =>
    /\ call[c].profile.selector = call[c].selector
    /\ call[c].profile.since >= call[c].revision

\* Every call returns, and so does close, though the backend never answers.
EverythingEnds ==
  /\ \A c \in Calls : Present(c) ~> ~Present(c)
  /\ closed ~> closer \in {"closed", "failed"}

-----------------------------------------------------------------------------
(* The inductive invariant of VoiceboxProvider_proofs.                     *)

\* A job that has not ended holds the lock, and a served call has a job.
JobHoldsSlot == \A c \in Calls : (job[c] \in {"created", "posted"}) <=> slot = c
ServedHasJob == \A c \in Calls : call[c].at = "served" => job[c] # "none"

\* Work in the backend has an owner, or the client knows that it does not know.
WorkIsOwned == \A c \in Calls : InFlight(c) => (slot = c \/ uncertain)

\* Only a job sends work, and a call that waits for the lock has none.
JobsSend ==
  \A c \in Calls :
    /\ call[c].at \in {"new", "fetching", "checking", "queued"} => job[c] = "none"
    /\ job[c] \in {"none", "created"} => backend[c] = "none"

UncertainIsFree == uncertain => slot = NoCall
IdleIsFree == state = "idle" => (slot = NoCall /\ ~uncertain)

CloserIsClosing ==
  /\ closed <=> closer # "none"
  /\ closing <=> (closer \in {"client", "waiting", "closed", "failed"})
  /\ closer = "closed" => (slot = NoCall /\ ~uncertain)
  /\ closer = "failed" => uncertain

ProfilesAreFresh ==
  /\ cache.profile # NoProfile => cache.profile.since >= cache.revision
  /\ \A c \in Calls :
       /\ call[c].revision <= options.revision
       /\ call[c].at = "fetching" => call[c].since >= call[c].revision

IInv ==
  /\ TypeOK
  /\ JobHoldsSlot /\ ServedHasJob /\ WorkIsOwned /\ JobsSend /\ UncertainIsFree /\ IdleIsFree
  /\ StateAgrees /\ CloserIsClosing /\ ProfilesAreFresh /\ ProfileIsOfOptions

=============================================================================
