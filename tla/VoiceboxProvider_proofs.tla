----------------------- MODULE VoiceboxProvider_proofs -----------------------
(***************************************************************************)
(* Proofs about the Voicebox provider, for every set of calls, of profile  *)
(* names and every bound on the changes of the options: its inductive      *)
(* invariant, the safety properties that follow, and that it implements    *)
(* OwnedInference.                                                         *)
(***************************************************************************)
EXTENDS VoiceboxProvider, TLAPS

Stages == {"none", "new", "fetching", "checking", "queued", "served", "decoding",
           "ok", "failed", "left"}
Unserved == {"new", "fetching", "checking", "queued"}
States == {"idle", "active", "draining", "uncertain", "closed"}

\* The invariant has a part about the lock and a part about the profiles.
SlotInv == /\ JobHoldsSlot /\ ServedHasJob /\ WorkIsOwned /\ JobsSend /\ UncertainIsFree
           /\ IdleIsFree /\ StateAgrees /\ CloserIsClosing
ProfileInv == ProfilesAreFresh /\ ProfileIsOfOptions

-----------------------------------------------------------------------------
(* What a step leaves alone.                                               *)

\* A step that only takes a call to another stage changes no profile.
LEMMA CallMoves ==
  ASSUME IInv, NEW c \in Calls, NEW at \in Stages \ {"fetching"},
         call' = [call EXCEPT ![c].at = at], UNCHANGED <<options, cache>>
  PROVE  /\ call' \in [Calls -> Call] /\ call'[c].at = at
         /\ \A d \in Calls \ {c} : call'[d] = call[d]
         /\ ProfileInv'
<1>1. call \in [Calls -> Call]
  BY DEF IInv, TypeOK
<1>2. call' \in [Calls -> Call]
  BY <1>1 DEF Call, Stages
<1>3. call'[c].at = at /\ \A d \in Calls \ {c} : call'[d] = call[d]
  BY <1>1 DEF Call
<1>4. \A d \in Calls : /\ call'[d].selector = call[d].selector
                       /\ call'[d].revision = call[d].revision
                       /\ call'[d].since = call[d].since
                       /\ call'[d].profile = call[d].profile
                       /\ call'[d].at = "fetching" => call[d].at = "fetching"
  BY <1>1 DEF Call
<1>5. ProfilesAreFresh'
  BY <1>4 DEF IInv, ProfilesAreFresh
<1>6. ProfileIsOfOptions'
  BY <1>4 DEF IInv, ProfileIsOfOptions
<1> QED
  BY <1>2, <1>3, <1>5, <1>6 DEF ProfileInv

\* A step that changes neither calls nor options changes no profile.
LEMMA ProfileFrame ==
  ASSUME IInv, UNCHANGED <<options, cache, call>>
  PROVE  ProfileInv'
  BY DEF IInv, ProfileInv, ProfilesAreFresh, ProfileIsOfOptions

\* A call that is new moves no slot.
LEMMA SlotFrame ==
  ASSUME IInv, NEW c \in Calls, slot # c,
         UNCHANGED <<client, closed, closer>>,
         \A d \in Calls \ {c} : /\ call'[d] = call[d]
                                /\ job'[d] = job[d] /\ backend'[d] = backend[d],
         call'[c].at # "served", job'[c] = "none", backend'[c] = "none"
  PROVE  SlotInv'
<1> USE DEF IInv, SlotInv, client
<1>1. JobHoldsSlot' /\ ServedHasJob'
  BY DEF JobHoldsSlot, ServedHasJob
<1>2. WorkIsOwned' /\ JobsSend'
  BY DEF WorkIsOwned, JobsSend, InFlight
<1>3. UncertainIsFree' /\ IdleIsFree' /\ CloserIsClosing'
  BY DEF UncertainIsFree, IdleIsFree, CloserIsClosing
<1>4. StateAgrees'
  BY DEF StateAgrees, TypeOK
<1> QED
  BY <1>1, <1>2, <1>3, <1>4

-----------------------------------------------------------------------------
(* The initial state, and the steps on profiles.                           *)

\* A new call has its type, and no profile.
LEMMA NewCalls ==
  ASSUME NEW kind \in {"stream", "resolve"}, NEW at \in Stages,
         NEW o \in [selector : Selectors, revision : 0..MaxRevision]
  PROVE  /\ NewCall(kind, at, o) \in Call
         /\ NewCall(kind, at, o).at = at
         /\ NewCall(kind, at, o).revision = o.revision
         /\ NewCall(kind, at, o).profile = NoProfile
<1>1. MaxRevision \in Nat /\ 0 \in 0..MaxRevision
  BY ConstantsOK
<1> QED
  BY <1>1 DEF NewCall, Call, Stages

\* The invariant holds at the start.
LEMMA InitIInv == Init => IInv
<1> SUFFICES ASSUME Init PROVE IInv
  OBVIOUS
<1>1. options \in [selector : Selectors, revision : 0..MaxRevision] /\ options.revision = 0
  BY ConstantsOK DEF Init
<1>2. NewCall("resolve", "none", options) \in Call
  BY <1>1, NewCalls DEF Stages
<1>3. /\ call \in [Calls -> Call]
      /\ \A c \in Calls : /\ call[c].at = "none" /\ call[c].profile = NoProfile
                          /\ call[c].revision = 0
  BY <1>1, <1>2, NewCalls DEF Init, Stages
<1>4. cache \in [revision : 0..MaxRevision, profile : Profile \cup {NoProfile}]
  BY ConstantsOK DEF Init
<1>5. TypeOK
  BY <1>1, <1>3, <1>4 DEF Init, TypeOK
<1>6. SlotInv
  BY <1>3, ConstantsOK
  DEF Init, SlotInv, JobHoldsSlot, ServedHasJob, WorkIsOwned, JobsSend, UncertainIsFree, IdleIsFree,
      StateAgrees, CloserIsClosing, InFlight
<1>7. ProfileInv
  BY <1>1, <1>3 DEF Init, ProfileInv, ProfilesAreFresh, ProfileIsOfOptions
<1> QED
  BY <1>5, <1>6, <1>7 DEF IInv, SlotInv, ProfileInv

\* New options are newer than every call, and leave no profile in the cache.
LEMMA Invalidated ==
  ASSUME IInv, NEW s \in Selectors, Invalidate(s)
  PROVE  /\ options' \in [selector : Selectors, revision : 0..MaxRevision]
         /\ cache' \in [revision : 0..MaxRevision, profile : Profile \cup {NoProfile}]
         /\ cache'.profile = NoProfile
         /\ \A d \in Calls : call[d].revision <= options'.revision
<1>1. /\ options \in [selector : Selectors, revision : 0..MaxRevision]
      /\ cache \in [revision : 0..MaxRevision, profile : Profile \cup {NoProfile}]
      /\ call \in [Calls -> Call]
  BY DEF IInv, TypeOK
<1>2. options.revision \in Nat /\ MaxRevision \in Nat /\ options.revision < MaxRevision
  BY <1>1, ConstantsOK DEF Invalidate
<1>3. options' = [selector |-> s, revision |-> options.revision + 1]
  BY DEF Invalidate
<1>4. cache' = [cache EXCEPT !.profile = NoProfile]
  BY DEF Invalidate
<1>5. \A d \in Calls : call[d].revision \in Nat
  BY <1>1, ConstantsOK DEF Call
<1>6. options.revision + 1 \in 0..MaxRevision
  BY <1>2
<1> QED
  BY <1>1, <1>2, <1>3, <1>4, <1>5, <1>6 DEF IInv, ProfilesAreFresh

LEMMA UpdateOptionsIInv ==
  ASSUME IInv, UpdateOptions
  PROVE  IInv'
<1>1. PICK s \in Selectors : Invalidate(s)
  BY DEF UpdateOptions
<1>2. UNCHANGED <<slot, state, uncertain, closing, closed, closer, call, job, backend>>
  BY DEF UpdateOptions, client, work
<1>3. TypeOK'
  BY <1>1, <1>2, Invalidated DEF IInv, TypeOK
<1>4. SlotInv'
  BY <1>2
  DEF IInv, SlotInv, JobHoldsSlot, ServedHasJob, WorkIsOwned, JobsSend, UncertainIsFree, IdleIsFree,
      StateAgrees, CloserIsClosing, InFlight
<1>5. ProfilesAreFresh'
  BY <1>1, <1>2, Invalidated DEF IInv, ProfilesAreFresh
<1>6. ProfileIsOfOptions'
  BY <1>2 DEF IInv, ProfileIsOfOptions
<1> QED
  BY <1>3, <1>4, <1>5, <1>6 DEF IInv, SlotInv, ProfileInv

LEMMA RequestIInv ==
  ASSUME IInv, NEW c \in Calls, NEW kind \in {"stream", "resolve"}, NEW refresh \in BOOLEAN,
         Request(c, kind, refresh)
  PROVE  IInv'
<1> DEFINE k == NewCall(kind, "new", options')
<1>1. /\ options' \in [selector : Selectors, revision : 0..MaxRevision]
      /\ cache' \in [revision : 0..MaxRevision, profile : Profile \cup {NoProfile}]
      /\ cache'.profile # NoProfile => cache'.profile.since >= cache'.revision
      /\ \A d \in Calls : call[d].revision <= options'.revision
  <2>1. CASE Invalidate(options.selector)
    BY <2>1, Invalidated DEF IInv, TypeOK
  <2>2. CASE UNCHANGED <<options, cache>>
    BY <2>2 DEF IInv, TypeOK, ProfilesAreFresh
  <2> QED
    BY <2>1, <2>2 DEF Request
<1>2. k \in Call /\ k.at = "new" /\ k.revision = options'.revision /\ k.profile = NoProfile
  BY <1>1, NewCalls DEF Stages
<1>3. /\ call' = [call EXCEPT ![c] = k]
      /\ job' = [job EXCEPT ![c] = "none"] /\ backend' = [backend EXCEPT ![c] = "none"]
      /\ slot # c
      /\ UNCHANGED <<slot, state, uncertain, closing, closed, closer>>
  BY DEF Request, client
<1> HIDE DEF k
<1>4. TypeOK'
  BY <1>1, <1>2, <1>3 DEF IInv, TypeOK
<1>5. /\ call'[c] = k /\ job'[c] = "none" /\ backend'[c] = "none"
      /\ \A d \in Calls \ {c} : /\ call'[d] = call[d]
                                /\ job'[d] = job[d] /\ backend'[d] = backend[d]
  BY <1>3 DEF IInv, TypeOK
<1>6. SlotInv'
  BY <1>2, <1>3, <1>5, SlotFrame DEF client, InFlight
<1>7. options'.revision \in Nat
  BY <1>1, ConstantsOK
<1>8. ProfilesAreFresh'
  BY <1>1, <1>2, <1>5, <1>7 DEF IInv, ProfilesAreFresh
<1>9. ProfileIsOfOptions'
  BY <1>2, <1>5 DEF IInv, ProfileIsOfOptions
<1> QED
  BY <1>4, <1>6, <1>8, <1>9 DEF IInv, SlotInv, ProfileInv

\* A call that is not served moves to another stage.
LEMMA UnservedMoves ==
  ASSUME IInv, NEW c \in Calls, NEW at \in Stages \ {"fetching", "served"},
         call[c].at # "served" \/ Done(c),
         at \in Unserved => call[c].at \in Unserved,
         call' = [call EXCEPT ![c].at = at],
         UNCHANGED <<client, plugin, work>>
  PROVE  IInv'
<1> USE DEF client, plugin, work
<1>1. /\ call' \in [Calls -> Call] /\ call'[c].at = at
      /\ \A d \in Calls \ {c} : call'[d] = call[d]
      /\ ProfileInv'
  BY CallMoves
<1>2. TypeOK'
  BY <1>1 DEF IInv, TypeOK
<1>3. \A d \in Calls : call'[d].at = "served" => call[d].at = "served"
  BY <1>1
<1>4. StateAgrees'
  BY <1>1 DEF IInv, TypeOK, StateAgrees, JobHoldsSlot, Done
<1>5. SlotInv'
  BY <1>1, <1>3, <1>4
  DEF IInv, SlotInv, JobHoldsSlot, ServedHasJob, WorkIsOwned, JobsSend, UncertainIsFree, IdleIsFree,
      CloserIsClosing, InFlight, Unserved
<1> QED
  BY <1>1, <1>2, <1>5 DEF IInv, SlotInv, ProfileInv

\* A call gets its profile.
LEMMA GetsProfile ==
  ASSUME IInv, NEW c \in Calls, NEW p \in Profile, call[c].at \in {"new", "fetching"},
         call' = [call EXCEPT ![c].at = Resolved(c), ![c].profile = p],
         p.selector = call[c].selector, p.since >= call[c].revision,
         cache' = cache \/ cache' = [revision |-> call[c].revision, profile |-> p],
         UNCHANGED <<client, closed, closer, options, work>>
  PROVE  IInv'
<1> USE DEF client, work
<1>1. call \in [Calls -> Call]
  BY DEF IInv, TypeOK
<1>2. Resolved(c) \in {"ok", "failed", "checking"}
  BY <1>1 DEF Resolved, Call
<1>3. call' \in [Calls -> Call]
  <2> DEFINE k == [call[c] EXCEPT !.at = Resolved(c), !.profile = p]
  <2>1. k \in Call
    BY <1>1, <1>2 DEF Call
  <2>2. call' = [call EXCEPT ![c] = k]
    OBVIOUS
  <2> HIDE DEF k
  <2> QED
    BY <1>1, <2>1, <2>2
<1>4. /\ call'[c].at = Resolved(c) /\ call'[c].profile = p
      /\ call'[c].selector = call[c].selector /\ call'[c].revision = call[c].revision
      /\ \A d \in Calls \ {c} : call'[d] = call[d]
  BY <1>1 DEF Call
<1>5. cache' \in [revision : 0..MaxRevision, profile : Profile \cup {NoProfile}]
  BY <1>1 DEF IInv, TypeOK, Call
<1>6. TypeOK'
  BY <1>3, <1>5 DEF IInv, TypeOK
<1>7. SlotInv'
  BY <1>2, <1>4
  DEF IInv, TypeOK, SlotInv, JobHoldsSlot, ServedHasJob, WorkIsOwned, JobsSend, UncertainIsFree,
      IdleIsFree, StateAgrees, CloserIsClosing, InFlight
<1>8. ProfilesAreFresh'
  <2>1. cache'.profile # NoProfile => cache'.profile.since >= cache'.revision
    BY DEF IInv, ProfilesAreFresh
  <2>2. \A d \in Calls :
          /\ call'[d].revision <= options'.revision
          /\ call'[d].at = "fetching" => call'[d].since >= call'[d].revision
    BY <1>2, <1>4 DEF IInv, ProfilesAreFresh
  <2> QED
    BY <2>1, <2>2 DEF ProfilesAreFresh
<1>9. ProfileIsOfOptions'
  BY <1>4 DEF IInv, ProfileIsOfOptions
<1> QED
  BY <1>6, <1>7, <1>8, <1>9 DEF IInv, SlotInv, ProfileInv

LEMMA ResolveFromCacheIInv ==
  ASSUME IInv, NEW c \in Calls, ResolveFromCache(c)
  PROVE  IInv'
<1>1. cache.profile \in Profile /\ cache.profile.selector = call[c].selector
  BY DEF ResolveFromCache, Hit, IInv, TypeOK
<1>2. cache.profile.since >= call[c].revision
  BY DEF ResolveFromCache, Hit, IInv, ProfilesAreFresh
<1>3. /\ call[c].at = "new"
      /\ call' = [call EXCEPT ![c].at = Resolved(c), ![c].profile = cache.profile]
      /\ UNCHANGED <<client, closed, closer, options, work>>
      /\ cache' = cache
  BY DEF ResolveFromCache, plugin
<1> QED
  BY <1>1, <1>2, <1>3, GetsProfile

\* The fetch begins: the profile will be one of the newest options.
LEMMA ResolveFetchesIInv ==
  ASSUME IInv, NEW c \in Calls, ResolveFetches(c)
  PROVE  IInv'
<1>1. CASE call' = [call EXCEPT ![c].at = "failed"]
  <2>1. call[c].at # "served" /\ UNCHANGED <<client, plugin, work>>
    BY DEF ResolveFetches
  <2> QED
    BY <1>1, <2>1, UnservedMoves DEF Stages, Unserved
<1>2. CASE call' = [call EXCEPT ![c].at = "fetching", ![c].since = options.revision]
  <2>1. call \in [Calls -> Call] /\ options.revision \in 0..MaxRevision
    BY DEF IInv, TypeOK
  <2>2. call' \in [Calls -> Call]
    <3> DEFINE k == [call[c] EXCEPT !.at = "fetching", !.since = options.revision]
    <3>1. k \in Call
      BY <2>1 DEF Call
    <3>2. call' = [call EXCEPT ![c] = k]
      BY <1>2
    <3> HIDE DEF k
    <3> QED
      BY <2>1, <3>1, <3>2
  <2>3. /\ call'[c].at = "fetching" /\ call'[c].since = options.revision
        /\ call'[c].selector = call[c].selector /\ call'[c].revision = call[c].revision
        /\ call'[c].profile = call[c].profile
        /\ \A d \in Calls \ {c} : call'[d] = call[d]
    BY <1>2, <2>1 DEF Call
  <2>4. UNCHANGED <<client, plugin, work>> /\ call[c].at = "new"
    BY DEF ResolveFetches
  <2> USE DEF client, plugin, work
  <2>5. TypeOK'
    BY <2>2, <2>4 DEF IInv, TypeOK
  <2>6. SlotInv'
    BY <2>3, <2>4
    DEF IInv, TypeOK, SlotInv, JobHoldsSlot, ServedHasJob, WorkIsOwned, JobsSend, UncertainIsFree,
        IdleIsFree, StateAgrees, CloserIsClosing, InFlight
  <2>7. call[c].revision \in Nat /\ options.revision \in Nat
    BY <2>1, ConstantsOK DEF Call
  <2>8. ProfilesAreFresh'
    BY <2>3, <2>4, <2>7 DEF IInv, ProfilesAreFresh
  <2>9. ProfileIsOfOptions'
    BY <2>3, <2>4 DEF IInv, ProfileIsOfOptions
  <2> QED
    BY <2>5, <2>6, <2>8, <2>9 DEF IInv, SlotInv, ProfileInv
<1> QED
  BY <1>1, <1>2 DEF ResolveFetches

LEMMA ResolveReturnsIInv ==
  ASSUME IInv, NEW c \in Calls, ResolveReturns(c)
  PROVE  IInv'
<1> DEFINE p == [selector |-> call[c].selector, since |-> call[c].since]
<1>1. CASE call' = [call EXCEPT ![c].at = "failed"] /\ UNCHANGED cache
  <2>1. call[c].at # "served" /\ UNCHANGED <<client, plugin, work>>
    BY <1>1 DEF ResolveReturns, plugin
  <2> QED
    BY <1>1, <2>1, UnservedMoves DEF Stages, Unserved
<1>2. CASE call' = [call EXCEPT ![c].at = Resolved(c), ![c].profile = p] /\ Keeps(c, p)
  <2>1. call[c] \in Call
    BY DEF IInv, TypeOK
  <2>2. p \in Profile /\ p.selector = call[c].selector /\ p.since = call[c].since
    BY <2>1 DEF Profile, Call
  <2>3. p.since >= call[c].revision
    BY <2>2 DEF ResolveReturns, IInv, ProfilesAreFresh
  <2>4. cache' = cache \/ cache' = [revision |-> call[c].revision, profile |-> p]
    BY <1>2 DEF Keeps
  <2>5. call[c].at = "fetching" /\ UNCHANGED <<client, closed, closer, options, work>>
    BY DEF ResolveReturns
  <2> HIDE DEF p
  <2> QED
    BY <1>2, <2>2, <2>3, <2>4, <2>5, GetsProfile
<1> QED
  BY <1>1, <1>2 DEF ResolveReturns

-----------------------------------------------------------------------------
(* The steps of the client.                                                *)

LEMMA CallStepUnserved ==
  ASSUME IInv, NEW c \in Calls, CheckModel(c) \/ JobReturns(c) \/ Decode(c)
  PROVE  IInv'
<1>1. CASE CheckModel(c)
  <2>1. call[c].at = "checking" /\ UNCHANGED <<client, plugin, work>>
    BY <1>1 DEF CheckModel
  <2>2. \/ call' = [call EXCEPT ![c].at = "queued"]
        \/ call' = [call EXCEPT ![c].at = "failed"]
    BY <1>1 DEF CheckModel
  <2> QED
    BY <2>1, <2>2, UnservedMoves DEF Stages, Unserved
<1>2. CASE JobReturns(c)
  <2>1. Done(c) /\ UNCHANGED <<client, plugin, work>>
    BY <1>2 DEF JobReturns
  <2>2. \/ call' = [call EXCEPT ![c].at = "decoding"]
        \/ call' = [call EXCEPT ![c].at = "failed"]
    BY <1>2 DEF JobReturns
  <2> QED
    BY <2>1, <2>2, UnservedMoves DEF Stages, Unserved
<1>3. CASE Decode(c)
  <2>1. call[c].at = "decoding" /\ UNCHANGED <<client, plugin, work>>
    BY <1>3 DEF Decode
  <2>2. \E at \in {"ok", "failed"} : call' = [call EXCEPT ![c].at = at]
    BY <1>3 DEF Decode
  <2> QED
    BY <2>1, <2>2, UnservedMoves DEF Stages, Unserved
<1> QED
  BY <1>1, <1>2, <1>3

\* A call takes the lock of an open client, or fails.
LEMMA AdmitIInv ==
  ASSUME IInv, NEW c \in Calls, Admit(c)
  PROVE  IInv'
<1> USE DEF client, plugin
<1>1. call[c].at = "queued" /\ slot = NoCall /\ UNCHANGED <<uncertain, closing, plugin, backend>>
  BY DEF Admit
<1>2. CASE /\ call' = [call EXCEPT ![c].at = "failed"]
           /\ UNCHANGED <<slot, state, job>>
  <2>1. call[c].at # "served" /\ UNCHANGED <<client, plugin, work>>
    BY <1>1, <1>2 DEF work
  <2> QED
    BY <1>2, <2>1, UnservedMoves DEF Stages, Unserved
<1>3. CASE /\ Open /\ slot' = c /\ state' = "active"
           /\ call' = [call EXCEPT ![c].at = "served"]
           /\ job' = [job EXCEPT ![c] = "created"]
  <2>1. /\ call' \in [Calls -> Call] /\ call'[c].at = "served"
        /\ \A d \in Calls \ {c} : call'[d] = call[d]
        /\ ProfileInv'
    BY <1>1, <1>3, CallMoves DEF Stages
  <2>2. job'[c] = "created" /\ \A d \in Calls \ {c} : job'[d] = job[d]
    BY <1>3 DEF IInv, TypeOK
  <2>3. TypeOK'
    BY <1>1, <1>3, <2>1 DEF IInv, TypeOK
  <2>4. JobHoldsSlot'
    BY <1>1, <1>3, <2>2, ConstantsOK DEF IInv, JobHoldsSlot
  <2>5. ServedHasJob'
    BY <2>1, <2>2 DEF IInv, ServedHasJob
  <2>6. ~uncertain /\ ~closing
    BY <1>3 DEF Open
  <2>7. WorkIsOwned'
    BY <1>1, <2>6, ConstantsOK DEF IInv, WorkIsOwned, InFlight
  <2>10. JobsSend'
    BY <1>1, <2>1, <2>2 DEF IInv, JobsSend
  <2>8. UncertainIsFree' /\ IdleIsFree' /\ StateAgrees'
    BY <1>1, <1>3, <2>1, <2>6, ConstantsOK DEF UncertainIsFree, IdleIsFree, StateAgrees
  <2>9. CloserIsClosing'
    BY <1>1, <2>6 DEF IInv, CloserIsClosing
  <2> QED
    BY <2>1, <2>3, <2>4, <2>5, <2>7, <2>8, <2>9, <2>10 DEF IInv, SlotInv, ProfileInv
<1> QED
  BY <1>2, <1>3 DEF Admit

\* A call that leaves keeps the lock with its job.
LEMMA LeavesIInv ==
  ASSUME IInv, NEW c \in Calls, Leaves(c), UNCHANGED closer
  PROVE  IInv'
<1>1. /\ call' = [call EXCEPT ![c].at = "left"]
      /\ UNCHANGED <<slot, uncertain, closing, closed, closer, options, cache, job, backend>>
  BY DEF Leaves, work
<1>2. /\ call' \in [Calls -> Call] /\ call'[c].at = "left"
      /\ \A d \in Calls \ {c} : call'[d] = call[d]
      /\ ProfileInv'
  BY <1>1, CallMoves DEF Stages
<1>3. state' = state \/ (state' = "draining" /\ call[c].at = "served" /\ ~Done(c) /\ ~uncertain)
  BY DEF Leaves, Detach
<1>4. state' = "draining" /\ call[c].at = "served" /\ ~Done(c) => slot = c
  BY DEF IInv, TypeOK, ServedHasJob, JobHoldsSlot, Done
<1>5. TypeOK'
  BY <1>1, <1>2, <1>3 DEF IInv, TypeOK
<1>6. /\ JobHoldsSlot' /\ ServedHasJob' /\ WorkIsOwned' /\ JobsSend' /\ UncertainIsFree'
      /\ CloserIsClosing'
  BY <1>1, <1>2
  DEF IInv, JobHoldsSlot, ServedHasJob, WorkIsOwned, JobsSend, UncertainIsFree,
      CloserIsClosing, InFlight
<1>7. IdleIsFree'
  BY <1>1, <1>3 DEF IInv, IdleIsFree
<1>8. StateAgrees'
  <2>1. CASE state' = "draining"
    BY <1>1, <1>3, <1>4, <2>1, ConstantsOK DEF IInv, StateAgrees
  <2>2. CASE state' = state /\ state' # "draining"
    <3>1. slot = c /\ call[c].at = "served" /\ state = "active" => FALSE
      BY <2>2, ConstantsOK DEF Leaves, Detach, IInv, JobHoldsSlot, UncertainIsFree, Done
    <3>2. state = "active" => slot # c
      BY <3>1 DEF IInv, StateAgrees
    <3>3. slot \in Calls \cup {NoCall}
      BY DEF IInv, TypeOK
    <3> QED
      BY <1>1, <1>2, <2>2, <3>2, <3>3 DEF IInv, StateAgrees
  <2> QED
    BY <1>3, <2>1, <2>2
<1> QED
  BY <1>2, <1>5, <1>6, <1>7, <1>8 DEF IInv, SlotInv, ProfileInv

LEMMA JobPostsIInv ==
  ASSUME IInv, NEW c \in Calls, JobPosts(c)
  PROVE  IInv'
<1> USE DEF client, plugin
<1>1. /\ job[c] = "created" /\ job' = [job EXCEPT ![c] = "posted"]
      /\ backend' = [backend EXCEPT ![c] = "running"]
      /\ UNCHANGED <<client, plugin, call>>
  BY DEF JobPosts
<1>2. slot = c
  BY <1>1 DEF IInv, JobHoldsSlot
<1>3. /\ job'[c] = "posted" /\ backend'[c] = "running"
      /\ \A d \in Calls \ {c} : job'[d] = job[d] /\ backend'[d] = backend[d]
  BY <1>1 DEF IInv, TypeOK
<1>4. TypeOK'
  BY <1>1 DEF IInv, TypeOK
<1>5. JobHoldsSlot' /\ ServedHasJob' /\ WorkIsOwned' /\ JobsSend'
  BY <1>1, <1>2, <1>3 DEF IInv, JobHoldsSlot, ServedHasJob, WorkIsOwned, JobsSend, InFlight
<1>6. UncertainIsFree' /\ IdleIsFree' /\ StateAgrees' /\ CloserIsClosing'
  BY <1>1 DEF IInv, UncertainIsFree, IdleIsFree, StateAgrees, CloserIsClosing
<1> QED
  BY <1>1, <1>4, <1>5, <1>6, ProfileFrame DEF IInv, SlotInv, ProfileInv

\* The job that holds the lock ends: nothing is left in the backend, or the
\* client is uncertain.
LEMMA ReleaseIInv ==
  ASSUME IInv, NEW c \in Calls, NEW result \in {"done", "failed"}, NEW known \in BOOLEAN,
         job[c] \in {"created", "posted"}, Release(c, result, known),
         backend' \in [Calls -> {"none", "running", "ended"}],
         \A d \in Calls : backend'[d] = backend[d] \/ (backend[d] # "none" /\ backend'[d] = "ended"),
         known => ~InFlight(c)'
  PROVE  IInv'
<1> USE DEF plugin
<1>1. slot = c
  BY DEF IInv, JobHoldsSlot
<1>2. ~uncertain
  BY <1>1, ConstantsOK DEF IInv, UncertainIsFree
<1>3. /\ slot' = NoCall /\ uncertain' = ~known
      /\ state' = IF known THEN "idle" ELSE "uncertain"
      /\ UNCHANGED <<closing, closed, closer, options, cache, call>>
  BY <1>2 DEF Release, Settles
<1>4. job' = [job EXCEPT ![c] = result]
  BY DEF Release
<1>5. job'[c] = result /\ \A d \in Calls \ {c} : job'[d] = job[d]
  BY <1>4 DEF IInv, TypeOK
<1>6. TypeOK'
  BY <1>3, <1>4 DEF IInv, TypeOK
<1>7. JobHoldsSlot' /\ ServedHasJob'
  BY <1>1, <1>3, <1>5, ConstantsOK DEF IInv, JobHoldsSlot, ServedHasJob
<1>8. WorkIsOwned' /\ JobsSend'
  <2>1. \A d \in Calls : InFlight(d)' => uncertain'
    BY <1>1, <1>2, <1>3 DEF IInv, WorkIsOwned, InFlight
  <2>2. JobsSend'
    BY <1>3, <1>5 DEF IInv, JobsSend
  <2> QED
    BY <2>1, <2>2 DEF WorkIsOwned
<1>9. UncertainIsFree' /\ IdleIsFree' /\ StateAgrees'
  BY <1>3 DEF UncertainIsFree, IdleIsFree, StateAgrees
<1>10. CloserIsClosing'
  BY <1>1, <1>2, <1>3, ConstantsOK DEF IInv, CloserIsClosing
<1> QED
  BY <1>3, <1>6, <1>7, <1>8, <1>9, <1>10, ProfileFrame DEF IInv, SlotInv, ProfileInv

LEMMA JobEndsIInv ==
  ASSUME IInv, NEW c \in Calls, JobCompletes(c) \/ JobRejected(c) \/ JobLost(c)
  PROVE  IInv'
<1>1. backend \in [Calls -> {"none", "running", "ended"}]
  BY DEF IInv, TypeOK
<1>2. CASE JobCompletes(c)
  <2>1. job[c] = "posted" /\ Release(c, "done", TRUE) /\ UNCHANGED backend /\ ~InFlight(c)
    BY <1>2 DEF JobCompletes, InFlight
  <2>2. /\ backend' \in [Calls -> {"none", "running", "ended"}]
        /\ \A d \in Calls :
             backend'[d] = backend[d] \/ (backend[d] # "none" /\ backend'[d] = "ended")
        /\ ~InFlight(c)'
    BY <1>1, <2>1 DEF InFlight
  <2> QED
    BY <2>1, <2>2, ReleaseIInv
<1>3. CASE JobRejected(c)
  <2>1. /\ job[c] = "posted" /\ backend[c] = "running" /\ Release(c, "failed", TRUE)
        /\ backend' = [backend EXCEPT ![c] = "ended"]
    BY <1>3 DEF JobRejected
  <2>2. /\ backend' \in [Calls -> {"none", "running", "ended"}]
        /\ \A d \in Calls :
             backend'[d] = backend[d] \/ (backend[d] # "none" /\ backend'[d] = "ended")
        /\ ~InFlight(c)'
    BY <1>1, <2>1 DEF InFlight
  <2> QED
    BY <2>1, <2>2, ReleaseIInv
<1>4. CASE JobLost(c)
  <2>1. job[c] \in {"created", "posted"} /\ Release(c, "failed", FALSE) /\ UNCHANGED backend
    BY <1>4 DEF JobLost, MayBeLost
  <2>2. /\ backend' \in [Calls -> {"none", "running", "ended"}]
        /\ \A d \in Calls :
             backend'[d] = backend[d] \/ (backend[d] # "none" /\ backend'[d] = "ended")
    BY <1>1, <2>1 DEF InFlight
  <2> QED
    BY <2>1, <2>2, ReleaseIInv
<1> QED
  BY <1>2, <1>3, <1>4

LEMMA BackendEndsIInv ==
  ASSUME IInv, NEW c \in Calls, BackendEnds(c)
  PROVE  IInv'
<1> USE DEF client, plugin
<1>1. /\ backend[c] = "running" /\ backend' = [backend EXCEPT ![c] = "ended"]
      /\ UNCHANGED <<client, plugin, call, job>>
  BY DEF BackendEnds
<1>2. backend'[c] = "ended" /\ \A d \in Calls \ {c} : backend'[d] = backend[d]
  BY <1>1 DEF IInv, TypeOK
<1>3. TypeOK'
  BY <1>1 DEF IInv, TypeOK
<1>4. WorkIsOwned' /\ JobsSend'
  BY <1>1, <1>2 DEF IInv, WorkIsOwned, JobsSend, InFlight
<1>5. /\ JobHoldsSlot' /\ ServedHasJob' /\ UncertainIsFree' /\ IdleIsFree'
      /\ StateAgrees' /\ CloserIsClosing'
  BY <1>1
  DEF IInv, JobHoldsSlot, ServedHasJob, UncertainIsFree, IdleIsFree, StateAgrees,
      CloserIsClosing
<1> QED
  BY <1>1, <1>3, <1>4, <1>5, ProfileFrame DEF IInv, SlotInv, ProfileInv

-----------------------------------------------------------------------------
(* The steps of close.                                                     *)

\* What close leaves alone: the lock, the jobs, the calls and the profiles.
LEMMA CloseFrame ==
  ASSUME IInv, UNCHANGED <<slot, uncertain, options, cache, work>>, UNCHANGED call
  PROVE  /\ JobHoldsSlot' /\ ServedHasJob' /\ WorkIsOwned' /\ JobsSend' /\ UncertainIsFree'
         /\ ProfileInv'
<1>1. ProfileInv'
  BY ProfileFrame
<1> QED
  BY <1>1
  DEF work, IInv, JobHoldsSlot, ServedHasJob, WorkIsOwned, JobsSend, UncertainIsFree, InFlight

LEMMA CloseBeginsIInv ==
  ASSUME IInv, CloseBegins
  PROVE  IInv'
<1>1. /\ ~closed /\ closer' = "streams" /\ closed' = TRUE
      /\ UNCHANGED <<slot, state, uncertain, closing, options, cache, call, work>>
  BY DEF CloseBegins, client
<1>2. ~closing
  BY <1>1 DEF IInv, CloserIsClosing
<1>3. TypeOK' /\ CloserIsClosing'
  BY <1>1, <1>2 DEF IInv, TypeOK, CloserIsClosing, work
<1>4. StateAgrees' /\ IdleIsFree'
  BY <1>1 DEF IInv, StateAgrees, IdleIsFree
<1> QED
  BY <1>1, <1>3, <1>4, CloseFrame DEF IInv, SlotInv, ProfileInv

LEMMA CloseEndedStreamsIInv ==
  ASSUME IInv, CloseEndedStreams
  PROVE  IInv'
<1>1. /\ closer = "streams" /\ closer' = "client" /\ closing' = TRUE
      /\ UNCHANGED <<slot, state, uncertain, closed, options, cache, call, work>>
  BY DEF CloseEndedStreams
<1>2. TypeOK' /\ CloserIsClosing'
  BY <1>1 DEF IInv, TypeOK, CloserIsClosing, work
<1>3. StateAgrees' /\ IdleIsFree'
  BY <1>1 DEF IInv, StateAgrees, IdleIsFree
<1> QED
  BY <1>1, <1>2, <1>3, CloseFrame DEF IInv, SlotInv, ProfileInv

LEMMA CloseDetachesIInv ==
  ASSUME IInv, CloseDetaches
  PROVE  IInv'
<1>1. /\ closer = "client" /\ closer' = "waiting"
      /\ UNCHANGED <<slot, uncertain, closing, closed, options, cache, call, work>>
  BY DEF CloseDetaches
<1>2. state' = state \/ (state' = "draining" /\ slot # NoCall /\ ~uncertain)
  BY DEF CloseDetaches, Detach
<1>3. TypeOK' /\ CloserIsClosing'
  BY <1>1, <1>2 DEF IInv, TypeOK, CloserIsClosing, work
<1>4. StateAgrees' /\ IdleIsFree'
  BY <1>1, <1>2 DEF IInv, StateAgrees, IdleIsFree
<1> QED
  BY <1>1, <1>3, <1>4, CloseFrame DEF IInv, SlotInv, ProfileInv

LEMMA CloseSettlesIInv ==
  ASSUME IInv, CloseSettles
  PROVE  IInv'
<1>1. /\ closer = "waiting" /\ slot = NoCall
      /\ closer' = IF uncertain THEN "failed" ELSE "closed"
      /\ state' = "closed"
      /\ UNCHANGED <<slot, uncertain, closing, closed, options, cache, call, work>>
  BY DEF CloseSettles, JobAwaited
<1>2. TypeOK' /\ CloserIsClosing'
  BY <1>1 DEF IInv, TypeOK, CloserIsClosing, work
<1>3. StateAgrees' /\ IdleIsFree'
  BY <1>1 DEF StateAgrees, IdleIsFree
<1> QED
  BY <1>1, <1>2, <1>3, CloseFrame DEF IInv, SlotInv, ProfileInv

-----------------------------------------------------------------------------
\* Every step keeps the invariant.
LEMMA NextIInv == IInv /\ [Next]_vars => IInv'
<1> SUFFICES ASSUME IInv, [Next]_vars PROVE IInv'
  OBVIOUS
<1>1. CASE UNCHANGED vars
  <2>1. UNCHANGED <<slot, state, uncertain, closing, closed, closer, options, cache, call, work>>
    BY <1>1 DEF vars, work
  <2>2. TypeOK' /\ CloserIsClosing' /\ StateAgrees' /\ IdleIsFree'
    BY <2>1 DEF IInv, TypeOK, CloserIsClosing, StateAgrees, IdleIsFree, work
  <2> QED
    BY <2>1, <2>2, CloseFrame DEF IInv, SlotInv, ProfileInv
<1>2. CASE UpdateOptions \/ CloseBegins \/ CloseStep
  BY <1>2, UpdateOptionsIInv, CloseBeginsIInv, CloseEndedStreamsIInv, CloseDetachesIInv,
     CloseSettlesIInv
  DEF CloseStep
<1>3. ASSUME NEW c \in Calls,
             \E kind \in {"stream", "resolve"}, refresh \in BOOLEAN : Request(c, kind, refresh)
      PROVE  IInv'
  BY <1>3, RequestIInv
<1>4. ASSUME NEW c \in Calls, CallStep(c) \/ ResolveReturns(c) PROVE IInv'
  BY <1>4, ResolveFromCacheIInv, ResolveFetchesIInv, ResolveReturnsIInv, CallStepUnserved,
     AdmitIInv
  DEF CallStep
<1>5. ASSUME NEW c \in Calls, Leave(c) \/ CloseEndsStream(c) PROVE IInv'
  BY <1>5, LeavesIInv DEF Leave, CloseEndsStream
<1>6. ASSUME NEW c \in Calls,
             JobPosts(c) \/ JobCompletes(c) \/ JobRejected(c) \/ JobLost(c) \/ BackendEnds(c)
      PROVE  IInv'
  BY <1>6, JobPostsIInv, JobEndsIInv, BackendEndsIInv
<1> QED
  BY <1>1, <1>2, <1>3, <1>4, <1>5, <1>6 DEF Next

\* The inductive invariant holds in every reachable state of the provider.
THEOREM InductiveInvariant == Spec => []IInv
  BY InitIInv, NextIInv, PTL DEF Spec

\* The state that _detach and _run_job write names what is there, and "idle" leaves no
\* generation in the server.
THEOREM StateSafety == Spec => []StateIsTrue
<1>1. IInv => (state = "idle" => \A c \in Calls : ~InFlight(c))
  BY ConstantsOK DEF IInv, IdleIsFree, WorkIsOwned
<1>2. IInv => StateIsTrue
  BY <1>1 DEF IInv, StateIsTrue
<1> QED
  BY <1>2, InductiveInvariant, PTL

\* No stream speaks with the profile of other options than its own.
THEOREM ProfileSafety == Spec => []ProfileIsOfOptions
<1>1. IInv => ProfileIsOfOptions
  BY DEF IInv
<1> QED
  BY <1>1, InductiveInvariant, PTL

-----------------------------------------------------------------------------
(* The provider implements OwnedInference.                                 *)

\* A step in which the inferences, the doubt and the verdict stay as they are.
LEMMA Stutter ==
  ASSUME \A c \in Calls : InFlight(c)' <=> InFlight(c), UNCHANGED uncertain,
         \/ closer' \notin {"closed", "failed"} /\ closer \notin {"closed", "failed"}
         \/ UNCHANGED closer
  PROVE  UNCHANGED Inference!inference
<1>1. {c \in Calls : InFlight(c)}' = {c \in Calls : InFlight(c)}
  OBVIOUS
<1> QED
  BY <1>1 DEF Inference!inference

\* Initial states map to initial states.
LEMMA InitImplements == Init => Inference!Init
<1> SUFFICES ASSUME Init PROVE Inference!Init
  OBVIOUS
<1>1. {c \in Calls : InFlight(c)} = {}
  BY DEF Init, InFlight
<1>2. uncertain = FALSE /\ closer = "none"
  BY DEF Init
<1> QED
  BY <1>1, <1>2 DEF Inference!Init

\* What is not a step of a job, of the backend or the end of close moves nothing.
LEMMA OthersStutter ==
  ASSUME IInv, NEW c \in Calls,
         \/ UpdateOptions \/ CloseBegins \/ CloseEndedStreams \/ CloseDetaches
         \/ \E kind \in {"stream", "resolve"}, refresh \in BOOLEAN : Request(c, kind, refresh)
         \/ CallStep(c) \/ ResolveReturns(c) \/ Leave(c) \/ CloseEndsStream(c)
  PROVE  [Inference!Next]_Inference!inference
<1>1. backend \in [Calls -> {"none", "running", "ended"}]
  BY DEF IInv, TypeOK
<1>2. \A d \in Calls : InFlight(d)' <=> InFlight(d)
  BY <1>1
  DEF InFlight, work, UpdateOptions, CloseBegins, CloseEndedStreams, CloseDetaches, Request,
      CallStep, ResolveFromCache, ResolveFetches, CheckModel, Admit, JobReturns, Decode,
      ResolveReturns, Leave, Leaves, CloseEndsStream
<1>3. UNCHANGED uncertain
  BY DEF client, UpdateOptions, CloseBegins, CloseEndedStreams, CloseDetaches, Request,
      CallStep, ResolveFromCache, ResolveFetches, CheckModel, Admit, JobReturns, Decode,
      ResolveReturns, Leave, Leaves, CloseEndsStream
<1>4. \/ closer' \notin {"closed", "failed"} /\ closer \notin {"closed", "failed"}
      \/ UNCHANGED closer
  <2>1. CASE CloseBegins
    BY <2>1 DEF CloseBegins, IInv, CloserIsClosing
  <2>2. CASE CloseEndedStreams \/ CloseDetaches
    BY <2>2 DEF CloseEndedStreams, CloseDetaches
  <2>3. CASE ~CloseBegins /\ ~CloseEndedStreams /\ ~CloseDetaches
    BY <2>3
    DEF plugin, UpdateOptions, Request, CallStep, ResolveFromCache, ResolveFetches,
        CheckModel, Admit, JobReturns, Decode, ResolveReturns, Leave, CloseEndsStream
  <2> QED
    BY <2>1, <2>2, <2>3
<1> QED
  BY <1>2, <1>3, <1>4, Stutter

\* A job begins an inference when there is no other and none is in doubt.
LEMMA PostImplements ==
  ASSUME IInv, NEW c \in Calls, JobPosts(c)
  PROVE  [Inference!Next]_Inference!inference
<1>1. slot = c /\ slot # NoCall
  BY ConstantsOK DEF JobPosts, IInv, JobHoldsSlot
<1>2. ~uncertain /\ closer \notin {"closed", "failed"}
  BY <1>1 DEF IInv, UncertainIsFree, CloserIsClosing
<1>3. \A d \in Calls : ~InFlight(d)
  BY <1>1, <1>2 DEF JobPosts, IInv, WorkIsOwned, JobsSend, InFlight
<1>4. backend' = [backend EXCEPT ![c] = "running"] /\ backend \in [Calls -> {"none", "running", "ended"}]
  BY DEF JobPosts, IInv, TypeOK
<1>5. {d \in Calls : InFlight(d)} = {} /\ {d \in Calls : InFlight(d)}' = {c}
  BY <1>3, <1>4 DEF InFlight
<1>6. UNCHANGED <<uncertain, closer>>
  BY DEF JobPosts, client, plugin
<1>7. Inference!Begin(c)
  BY <1>2, <1>5, <1>6 DEF Inference!Begin
<1> QED
  BY <1>7 DEF Inference!Next

\* A backend that ends, or says that it never began, ends an inference.
LEMMA EndImplements ==
  ASSUME IInv, NEW c \in Calls, InFlight(c), backend' = [backend EXCEPT ![c] = "ended"],
         UNCHANGED <<uncertain, closer>>
  PROVE  [Inference!Next]_Inference!inference
<1>1. {d \in Calls : InFlight(d)}' = {d \in Calls : InFlight(d)} \ {c}
  BY DEF InFlight, IInv, TypeOK
<1>2. c \in {d \in Calls : InFlight(d)}
  OBVIOUS
<1>3. Inference!End(c)
  BY <1>1, <1>2 DEF Inference!End
<1> QED
  BY <1>3 DEF Inference!Next

\* The end of a job that completed is a stutter, and a lost one is lost sight of.
LEMMA JobImplements ==
  ASSUME IInv, NEW c \in Calls,
         JobCompletes(c) \/ JobRejected(c) \/ JobLost(c) \/ BackendEnds(c)
  PROVE  [Inference!Next]_Inference!inference
<1>1. CASE BackendEnds(c)
  BY <1>1, EndImplements DEF BackendEnds, InFlight, client, plugin
<1>2. CASE JobRejected(c)
  BY <1>2, EndImplements DEF JobRejected, Release, Settles, InFlight, plugin, IInv, TypeOK
<1>3. CASE JobCompletes(c)
  <2>1. UNCHANGED <<backend, closer, uncertain>>
    BY <1>3 DEF JobCompletes, Release, Settles, plugin, IInv, TypeOK
  <2> QED
    BY <2>1, Stutter DEF InFlight
<1>4. CASE JobLost(c)
  <2>1. slot = c /\ slot # NoCall
    BY <1>4, ConstantsOK DEF JobLost, MayBeLost, IInv, JobHoldsSlot
  <2>2. closer \notin {"closed", "failed"}
    BY <2>1 DEF IInv, UncertainIsFree, CloserIsClosing
  <2>3. uncertain' = TRUE /\ UNCHANGED <<backend, closer>>
    BY <1>4 DEF JobLost, Release, Settles, plugin
  <2>4. {d \in Calls : InFlight(d)}' = {d \in Calls : InFlight(d)} \ {}
    BY <2>3 DEF InFlight
  <2>5. Inference!LoseSight({})
    BY <2>2, <2>3, <2>4 DEF Inference!LoseSight
  <2> QED
    BY <2>5 DEF Inference!Next
<1> QED
  BY <1>1, <1>2, <1>3, <1>4

\* close ends safe with nothing in the backend, or it raises.
LEMMA CloseImplements ==
  ASSUME IInv, CloseSettles
  PROVE  [Inference!Next]_Inference!inference
<1>1. /\ closer = "waiting" /\ slot = NoCall
      /\ closer' = IF uncertain THEN "failed" ELSE "closed"
      /\ UNCHANGED <<uncertain, backend>> /\ uncertain \in BOOLEAN
  BY DEF CloseSettles, JobAwaited, work, IInv, TypeOK
<1>2. {d \in Calls : InFlight(d)}' = {d \in Calls : InFlight(d)}
  BY <1>1 DEF InFlight
<1>3. ~uncertain => {d \in Calls : InFlight(d)} = {}
  BY <1>1, ConstantsOK DEF IInv, WorkIsOwned
<1>4. Inference!Close
  BY <1>1, <1>2, <1>3 DEF Inference!Close
<1> QED
  BY <1>4 DEF Inference!Next

\* Every step maps to a step or a stutter.
LEMMA StepImplements == IInv /\ [Next]_vars => [Inference!Next]_Inference!inference
<1> SUFFICES ASSUME IInv, [Next]_vars PROVE [Inference!Next]_Inference!inference
  OBVIOUS
<1>1. CASE UNCHANGED vars
  BY <1>1, Stutter DEF vars, InFlight
<1>2. CASE UpdateOptions \/ CloseBegins \/ CloseStep
  <2>1. CASE Calls = {}
    <3>1. {c \in Calls : InFlight(c)} = {} /\ {c \in Calls : InFlight(c)}' = {}
      BY <2>1
    <3>2. CASE CloseSettles
      BY <3>2, CloseImplements
    <3>3. CASE ~CloseSettles
      BY <1>2, <3>1, <3>3
      DEF UpdateOptions, CloseBegins, CloseStep, CloseEndedStreams, CloseDetaches, client,
          Inference!inference, IInv, CloserIsClosing
    <3> QED
      BY <3>2, <3>3
  <2>2. CASE Calls # {}
    BY <1>2, <2>2, OthersStutter, CloseImplements DEF CloseStep
  <2> QED
    BY <2>1, <2>2
<1>3. ASSUME NEW c \in Calls,
             \/ \E kind \in {"stream", "resolve"}, refresh \in BOOLEAN :
                  Request(c, kind, refresh)
             \/ CallStep(c) \/ ResolveReturns(c) \/ Leave(c) \/ CloseEndsStream(c)
      PROVE  [Inference!Next]_Inference!inference
  BY <1>3, OthersStutter
<1>4. ASSUME NEW c \in Calls,
             JobPosts(c) \/ JobCompletes(c) \/ JobRejected(c) \/ JobLost(c) \/ BackendEnds(c)
      PROVE  [Inference!Next]_Inference!inference
  BY <1>4, PostImplements, JobImplements
<1> QED
  BY <1>1, <1>2, <1>3, <1>4 DEF Next

\* The provider keeps what OwnedInference promises: a worker whose aclose()
\* returned without an error may report a safe drain.
THEOREM Implementation == Spec => ImplementsInference
<1>1. Spec => Inference!Init /\ [][Inference!Next]_Inference!inference
  BY InitImplements, StepImplements, InductiveInvariant, PTL DEF Spec
<1> QED
  BY <1>1 DEF ImplementsInference, Inference!Spec
=============================================================================
