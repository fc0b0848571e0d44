--------------------------- MODULE FastQwen_proofs ---------------------------
(***************************************************************************)
(* Proofs about the MLX provider, for every set of calls, every capacity   *)
(* of the queue and every length of speech: its inductive invariant, the   *)
(* safety properties that follow, and that it implements OwnedInference.   *)
(***************************************************************************)
EXTENDS FastQwen, TLAPS

States == {"idle", "active", "draining", "uncertain", "closed"}

-----------------------------------------------------------------------------
(* What a step leaves alone.                                               *)

\* What TypeOK and the invariant say of one call and its job.
LEMMA Known ==
  ASSUME IInv, NEW c \in Calls
  PROVE  /\ job[c] \in Job /\ call[c] \in Call
         /\ CallInv(c)
         /\ HasJob(c) <=> slot = c
         /\ InFlight(c) => job[c].at \in {"running", "late"}
         /\ job \in [Calls -> Job] /\ call \in [Calls -> Call]
  BY DEF IInv, TypeOK, SlotInv, JobHoldsSlot, ThreadHasJob

\* A step that replaces the record of one call and of its job.
LEMMA OneCall ==
  ASSUME IInv, NEW c \in Calls, NEW o \in Job, NEW k \in Call,
         job' = [job EXCEPT ![c] = o], call' = [call EXCEPT ![c] = k],
         UNCHANGED closing
  PROVE  /\ job' \in [Calls -> Job] /\ call' \in [Calls -> Call]
         /\ job'[c] = o /\ call'[c] = k
         /\ \A d \in Calls \ {c} : job'[d] = job[d] /\ call'[d] = call[d] /\ CallInv(d)'
<1>1. /\ job' \in [Calls -> Job] /\ call' \in [Calls -> Call]
      /\ job'[c] = o /\ call'[c] = k
      /\ \A d \in Calls \ {c} : job'[d] = job[d] /\ call'[d] = call[d]
  BY Known
<1>2. ASSUME NEW d \in Calls \ {c} PROVE CallInv(d)'
  <2>1. CallInv(d) /\ job'[d] = job[d] /\ call'[d] = call[d]
    BY <1>1, Known
  <2> QED
    BY <2>1
    DEF CallInv, StagesAgree, StopsHaveReasons, ChunksAreKept, GoodEndIsWhole, Present,
        HasJob, Pending, Accounted, NewJob
<1> QED
  BY <1>1, <1>2

\* Steps that move neither the slot nor what close and the errors say.
LEMMA SlotFrame ==
  ASSUME IInv,
         UNCHANGED <<slot, uncertain, closing, closer>>,
         \A c \in Calls :
           /\ HasJob(c)' <=> HasJob(c)
           /\ job'[c].at = "fetching" =>
                job[c].at = "fetching" /\ (job[c].stop => job'[c].stop)
           /\ InFlight(c)' => InFlight(c) /\ job'[c].at = job[c].at
  PROVE  SlotInv'
<1> USE DEF IInv, SlotInv
<1>1. JobHoldsSlot' /\ ThreadHasJob'
  BY DEF JobHoldsSlot, ThreadHasJob
<1>2. UnbornIsStopped'
  BY DEF UnbornIsStopped
<1>3. CloserIsClosing' /\ ClosedIsFree' /\ FailedIsUncertain'
  BY DEF CloserIsClosing, ClosedIsFree, FailedIsUncertain
<1> QED
  BY <1>1, <1>2, <1>3

\* A step of one call, its job or its thread that moves no slot.
LEMMA LocalStep ==
  ASSUME IInv, NEW c \in Calls, NEW o \in Job, NEW k \in Call,
         job' = [job EXCEPT ![c] = o], call' = [call EXCEPT ![c] = k],
         UNCHANGED <<slot, uncertain, closing, closer>>,
         loaded' \in BOOLEAN, state' \in States,
         o.at \in {"fetching", "running", "late"} <=> HasJob(c),
         o.at = "fetching" => job[c].at = "fetching" /\ (job[c].stop => o.stop),
         o.thread \in Working => InFlight(c) /\ o.at = job[c].at,
         CallInv(c)'
  PROVE  IInv'
<1>1. /\ job' \in [Calls -> Job] /\ call' \in [Calls -> Call]
      /\ job'[c] = o
      /\ \A d \in Calls \ {c} : job'[d] = job[d] /\ call'[d] = call[d] /\ CallInv(d)'
  BY OneCall
<1>2. TypeOK'
  BY <1>1 DEF IInv, TypeOK, States
<1>3. SlotInv'
  BY <1>1, SlotFrame DEF HasJob, InFlight
<1> QED
  BY <1>1, <1>2, <1>3 DEF IInv

-----------------------------------------------------------------------------
(* The initial state, and the steps of one call.                           *)

\* New objects have their types.
LEMMA NewObjects ==
  /\ NewJob("none") \in Job /\ NewJob("fetching") \in Job
  /\ \A kind \in {"prepare", "speech"}, at \in {"none", "queued"} :
       /\ NewCall(kind, at) \in Call
       /\ NewCall(kind, at).at = at /\ NewCall(kind, at).heard = 0
  BY ConstantsOK DEF NewJob, NewCall, Job, Call, Working

\* The invariant holds at the start.
LEMMA InitIInv == Init => IInv
<1> SUFFICES ASSUME Init PROVE IInv
  OBVIOUS
<1>1. TypeOK
  BY NewObjects, ConstantsOK DEF Init, TypeOK
<1>2. \A c \in Calls : /\ job[c] = NewJob("none") /\ slot # c
                       /\ call[c].at = "none" /\ call[c].heard = 0
  BY NewObjects, ConstantsOK DEF Init
<1>3. closing = FALSE /\ closer = "none"
  BY DEF Init
<1>4. SlotInv
  BY <1>2, <1>3
  DEF SlotInv, JobHoldsSlot, ThreadHasJob, UnbornIsStopped, CloserIsClosing,
      ClosedIsFree, FailedIsUncertain, HasJob, InFlight, Working, NewJob
<1>5. ASSUME NEW c \in Calls PROVE CallInv(c)
  <2>1. /\ job[c].at = "none" /\ job[c].stop = FALSE /\ job[c].thread = "none"
        /\ job[c].put = "none" /\ job[c].queue = 0 /\ job[c].made = 0
        /\ job[c] = NewJob("none")
    BY <1>2 DEF NewJob
  <2>2. call[c].at = "none" /\ call[c].heard = 0
    BY <1>2
  <2>3. StagesAgree(c) /\ StopsHaveReasons(c) /\ GoodEndIsWhole(c)
    BY <2>1, <2>2 DEF StagesAgree, StopsHaveReasons, GoodEndIsWhole, HasJob
  <2>4. ChunksAreKept(c)
    BY <2>1, <2>2 DEF ChunksAreKept, Accounted, Pending
  <2> QED
    BY <2>3, <2>4 DEF CallInv
<1> QED
  BY <1>1, <1>4, <1>5 DEF IInv

\* A call is asked for.
LEMMA RequestIInv ==
  ASSUME IInv, NEW c \in Calls, NEW kind \in {"prepare", "speech"}, Request(c, kind)
  PROVE  IInv'
<1> DEFINE o == NewJob("none")
           k == NewCall(kind, "queued")
<1>1. /\ job[c] \in Job /\ call[c] \in Call /\ CallInv(c)
      /\ HasJob(c) <=> slot = c
      /\ InFlight(c) => job[c].at \in {"running", "late"}
      /\ job \in [Calls -> Job] /\ call \in [Calls -> Call]
  BY Known
<1>2. /\ job[c].made \in 0..MaxChunks /\ job[c].queue \in 0..QueueCap
      /\ call[c].heard \in 0..MaxChunks
      /\ MaxChunks \in Nat /\ QueueCap \in Nat
  BY <1>1, ConstantsOK DEF Job, Call
<1>3. /\ job' = [job EXCEPT ![c] = o] /\ call' = [call EXCEPT ![c] = k]
      /\ UNCHANGED <<slot, uncertain, closing, closer>>
      /\ loaded' \in BOOLEAN /\ state' \in States
  BY <1>1 DEF Request, States, IInv, TypeOK
<1>4. /\ o \in Job
      /\ o.at = "none" /\ o.stop = FALSE /\ o.failed = FALSE /\ o.thread = "none"
           /\ o.put = "none" /\ o.queue = 0 /\ o.made = 0
  BY <1>1, <1>2
  DEF Request, Job, Working, CallInv, ChunksAreKept, Accounted, Pending, StagesAgree,
      NewJob, NewCall, Call
<1>5. k \in Call /\ k.at = "queued" /\ k.heard = 0 /\ k.kind = kind
  BY <1>1, <1>2
  DEF Request, Call, CallInv, ChunksAreKept, Accounted, Pending, StagesAgree, NewCall
<1> HIDE DEF o, k
<1>6. job'[c] = o /\ call'[c] = k /\ closing' = closing
  BY <1>1, <1>3
<1>7. CallInv(c)'
  <2>1. StagesAgree(c)' /\ GoodEndIsWhole(c)'
    BY <1>1, <1>4, <1>5, <1>6
    DEF Request, CallInv, StagesAgree, GoodEndIsWhole, Present, NewJob,
        StopsHaveReasons, InFlight, Working
  <2>2. StopsHaveReasons(c)'
    BY <1>1, <1>4, <1>5, <1>6
    DEF Request, CallInv, StopsHaveReasons, StagesAgree, Present, HasJob, InFlight,
        Working, NewJob
  <2>3. ChunksAreKept(c)'
    BY <1>1, <1>2, <1>4, <1>5, <1>6
    DEF Request, CallInv, StagesAgree, ChunksAreKept, Accounted, Pending,
        StopsHaveReasons, NewJob
  <2> QED
    BY <2>1, <2>2, <2>3 DEF CallInv
<1>8. /\ o.at \in {"fetching", "running", "late"} <=> HasJob(c)
      /\ o.at = "fetching" => job[c].at = "fetching" /\ (job[c].stop => o.stop)
      /\ o.thread \in Working => InFlight(c) /\ o.at = job[c].at
  BY <1>1, <1>4 DEF Request, HasJob, InFlight, Working
<1> QED
  BY <1>3, <1>4, <1>5, <1>7, <1>8, LocalStep

\* A call leaves before it has a job, or after its job is done.
LEMMA LeavingAlone ==
  ASSUME IInv, NEW c \in Calls, call' = [call EXCEPT ![c].at = "left"], Present(c),
         ~(call[c].at = "served" /\ job[c].at # "done"), UNCHANGED <<job, state>>,
         UNCHANGED <<loaded, slot, uncertain, closing, closer>>
  PROVE  IInv'
<1> DEFINE o == job[c]
           k == [call[c] EXCEPT !.at = "left"]
<1>1. /\ job[c] \in Job /\ call[c] \in Call /\ CallInv(c)
      /\ HasJob(c) <=> slot = c
      /\ InFlight(c) => job[c].at \in {"running", "late"}
      /\ job \in [Calls -> Job] /\ call \in [Calls -> Call]
  BY Known
<1>2. /\ job[c].made \in 0..MaxChunks /\ job[c].queue \in 0..QueueCap
      /\ call[c].heard \in 0..MaxChunks
      /\ MaxChunks \in Nat /\ QueueCap \in Nat
  BY <1>1, ConstantsOK DEF Job, Call
<1>3. /\ job' = [job EXCEPT ![c] = o] /\ call' = [call EXCEPT ![c] = k]
      /\ UNCHANGED <<slot, uncertain, closing, closer>>
      /\ loaded' \in BOOLEAN /\ state' \in States
  BY <1>1 DEF Present, States, IInv, TypeOK
<1>4. /\ o \in Job
      /\ o.at = job[c].at /\ o.stop = job[c].stop /\ o.failed = job[c].failed /\ o.thread = job[c].thread
           /\ o.put = job[c].put /\ o.queue = job[c].queue /\ o.made = job[c].made
  BY <1>1, <1>2
  DEF Present, Job, Working, CallInv, ChunksAreKept, Accounted, Pending, StagesAgree
<1>5. k \in Call /\ k.at = "left" /\ k.heard = call[c].heard /\ k.kind = call[c].kind
  BY <1>1, <1>2
  DEF Present, Call, CallInv, ChunksAreKept, Accounted, Pending, StagesAgree
<1> HIDE DEF o, k
<1>6. job'[c] = o /\ call'[c] = k /\ closing' = closing
  BY <1>1, <1>3
<1>7. CallInv(c)'
  <2>1. StagesAgree(c)' /\ GoodEndIsWhole(c)'
    BY <1>1, <1>4, <1>5, <1>6
    DEF Present, CallInv, StagesAgree, GoodEndIsWhole, NewJob, StopsHaveReasons,
        InFlight, Working
  <2>2. StopsHaveReasons(c)'
    BY <1>1, <1>4, <1>5, <1>6
    DEF Present, CallInv, StopsHaveReasons, StagesAgree, HasJob, InFlight, Working,
        NewJob
  <2>3. ChunksAreKept(c)'
    BY <1>1, <1>2, <1>4, <1>5, <1>6
    DEF Present, CallInv, StagesAgree, ChunksAreKept, Accounted, Pending,
        StopsHaveReasons, NewJob
  <2> QED
    BY <2>1, <2>2, <2>3 DEF CallInv
<1>8. /\ o.at \in {"fetching", "running", "late"} <=> HasJob(c)
      /\ o.at = "fetching" => job[c].at = "fetching" /\ (job[c].stop => o.stop)
      /\ o.thread \in Working => InFlight(c) /\ o.at = job[c].at
  BY <1>1, <1>4 DEF Present, HasJob, InFlight, Working
<1> QED
  BY <1>3, <1>4, <1>5, <1>7, <1>8, LocalStep

\* A call leaves its job behind.
LEMMA LeavingStops ==
  ASSUME IInv, NEW c \in Calls, call' = [call EXCEPT ![c].at = "left"], Present(c),
         call[c].at = "served" /\ job[c].at # "done", Stop(c),
         UNCHANGED <<loaded, slot, uncertain, closing, closer>>
  PROVE  IInv'
<1> DEFINE o == [job[c] EXCEPT !.stop = TRUE]
           k == [call[c] EXCEPT !.at = "left"]
<1>1. /\ job[c] \in Job /\ call[c] \in Call /\ CallInv(c)
      /\ HasJob(c) <=> slot = c
      /\ InFlight(c) => job[c].at \in {"running", "late"}
      /\ job \in [Calls -> Job] /\ call \in [Calls -> Call]
  BY Known
<1>2. /\ job[c].made \in 0..MaxChunks /\ job[c].queue \in 0..QueueCap
      /\ call[c].heard \in 0..MaxChunks
      /\ MaxChunks \in Nat /\ QueueCap \in Nat
  BY <1>1, ConstantsOK DEF Job, Call
<1>3. /\ job' = [job EXCEPT ![c] = o] /\ call' = [call EXCEPT ![c] = k]
      /\ UNCHANGED <<slot, uncertain, closing, closer>>
      /\ loaded' \in BOOLEAN /\ state' \in States
  BY <1>1 DEF Stop, States, IInv, TypeOK
<1>4. /\ o \in Job
      /\ o.at = job[c].at /\ o.stop = TRUE /\ o.failed = job[c].failed /\ o.thread = job[c].thread
           /\ o.put = job[c].put /\ o.queue = job[c].queue /\ o.made = job[c].made
  BY <1>1, <1>2
  DEF Stop, Job, Working, CallInv, ChunksAreKept, Accounted, Pending, StagesAgree
<1>5. k \in Call /\ k.at = "left" /\ k.heard = call[c].heard /\ k.kind = call[c].kind
  BY <1>1, <1>2 DEF Stop, Call, CallInv, ChunksAreKept, Accounted, Pending, StagesAgree
<1> HIDE DEF o, k
<1>6. job'[c] = o /\ call'[c] = k /\ closing' = closing
  BY <1>1, <1>3
<1>7. CallInv(c)'
  <2>1. StagesAgree(c)' /\ GoodEndIsWhole(c)'
    BY <1>1, <1>4, <1>5, <1>6
    DEF Stop, CallInv, StagesAgree, GoodEndIsWhole, Present, NewJob, StopsHaveReasons,
        InFlight, Working
  <2>2. StopsHaveReasons(c)'
    BY <1>1, <1>4, <1>5, <1>6
    DEF Stop, CallInv, StopsHaveReasons, StagesAgree, Present, HasJob, InFlight,
        Working, NewJob
  <2>3. ChunksAreKept(c)'
    BY <1>1, <1>2, <1>4, <1>5, <1>6
    DEF Stop, CallInv, StagesAgree, ChunksAreKept, Accounted, Pending, StopsHaveReasons,
        NewJob
  <2> QED
    BY <2>1, <2>2, <2>3 DEF CallInv
<1>8. /\ o.at \in {"fetching", "running", "late"} <=> HasJob(c)
      /\ o.at = "fetching" => job[c].at = "fetching" /\ (job[c].stop => o.stop)
      /\ o.thread \in Working => InFlight(c) /\ o.at = job[c].at
  BY <1>1, <1>4 DEF Stop, HasJob, InFlight, Working
<1> QED
  BY <1>3, <1>4, <1>5, <1>7, <1>8, LocalStep

\* The lock is free, and the provider is not open any more.
LEMMA AdmitRefuses ==
  ASSUME IInv, NEW c \in Calls, call[c].at = "queued", call' = [call EXCEPT ![c].at = "failed"],
         UNCHANGED <<slot, state, job, loaded, uncertain, closing, closer>>
  PROVE  IInv'
<1> DEFINE o == job[c]
           k == [call[c] EXCEPT !.at = "failed"]
<1>1. /\ job[c] \in Job /\ call[c] \in Call /\ CallInv(c)
      /\ HasJob(c) <=> slot = c
      /\ InFlight(c) => job[c].at \in {"running", "late"}
      /\ job \in [Calls -> Job] /\ call \in [Calls -> Call]
  BY Known
<1>2. /\ job[c].made \in 0..MaxChunks /\ job[c].queue \in 0..QueueCap
      /\ call[c].heard \in 0..MaxChunks
      /\ MaxChunks \in Nat /\ QueueCap \in Nat
  BY <1>1, ConstantsOK DEF Job, Call
<1>3. /\ job' = [job EXCEPT ![c] = o] /\ call' = [call EXCEPT ![c] = k]
      /\ UNCHANGED <<slot, uncertain, closing, closer>>
      /\ loaded' \in BOOLEAN /\ state' \in States
  BY <1>1 DEF Working, States, IInv, TypeOK
<1>4. /\ o \in Job
      /\ o.at = job[c].at /\ o.stop = job[c].stop /\ o.failed = job[c].failed /\ o.thread = job[c].thread
           /\ o.put = job[c].put /\ o.queue = job[c].queue /\ o.made = job[c].made
  BY <1>1, <1>2
  DEF Working, Job, CallInv, ChunksAreKept, Accounted, Pending, StagesAgree
<1>5. k \in Call /\ k.at = "failed" /\ k.heard = call[c].heard /\ k.kind = call[c].kind
  BY <1>1, <1>2
  DEF Working, Call, CallInv, ChunksAreKept, Accounted, Pending, StagesAgree
<1> HIDE DEF o, k
<1>6. job'[c] = o /\ call'[c] = k /\ closing' = closing
  BY <1>1, <1>3
<1>7. CallInv(c)'
  <2>1. StagesAgree(c)' /\ GoodEndIsWhole(c)'
    BY <1>1, <1>4, <1>5, <1>6
    DEF Working, CallInv, StagesAgree, GoodEndIsWhole, Present, NewJob,
        StopsHaveReasons, InFlight
  <2>2. StopsHaveReasons(c)'
    BY <1>1, <1>4, <1>5, <1>6
    DEF Working, CallInv, StopsHaveReasons, StagesAgree, Present, HasJob, InFlight,
        NewJob
  <2>3. ChunksAreKept(c)'
    BY <1>1, <1>2, <1>4, <1>5, <1>6
    DEF Working, CallInv, StagesAgree, ChunksAreKept, Accounted, Pending,
        StopsHaveReasons, NewJob
  <2> QED
    BY <2>1, <2>2, <2>3 DEF CallInv
<1>8. /\ o.at \in {"fetching", "running", "late"} <=> HasJob(c)
      /\ o.at = "fetching" => job[c].at = "fetching" /\ (job[c].stop => o.stop)
      /\ o.thread \in Working => InFlight(c) /\ o.at = job[c].at
  BY <1>1, <1>4 DEF Working, HasJob, InFlight
<1> QED
  BY <1>3, <1>4, <1>5, <1>7, <1>8, LocalStep

\* The consumer takes a chunk.
LEMMA ConsumeIInv ==
  ASSUME IInv, NEW c \in Calls, Consume(c)
  PROVE  IInv'
<1> DEFINE o == [job[c] EXCEPT !.queue = job[c].queue - 1]
           k == [call[c] EXCEPT !.heard = call[c].heard + 1]
<1>1. /\ job[c] \in Job /\ call[c] \in Call /\ CallInv(c)
      /\ HasJob(c) <=> slot = c
      /\ InFlight(c) => job[c].at \in {"running", "late"}
      /\ job \in [Calls -> Job] /\ call \in [Calls -> Call]
  BY Known
<1>2. /\ job[c].made \in 0..MaxChunks /\ job[c].queue \in 0..QueueCap
      /\ call[c].heard \in 0..MaxChunks
      /\ MaxChunks \in Nat /\ QueueCap \in Nat
  BY <1>1, ConstantsOK DEF Job, Call
<1>3. /\ job' = [job EXCEPT ![c] = o] /\ call' = [call EXCEPT ![c] = k]
      /\ UNCHANGED <<slot, uncertain, closing, closer>>
      /\ loaded' \in BOOLEAN /\ state' \in States
  BY <1>1 DEF Consume, States, IInv, TypeOK
<1>4. /\ o \in Job
      /\ o.at = job[c].at /\ o.stop = job[c].stop /\ o.failed = job[c].failed /\ o.thread = job[c].thread
           /\ o.put = job[c].put /\ o.queue = job[c].queue - 1 /\ o.made = job[c].made
  BY <1>1, <1>2
  DEF Consume, Job, Working, CallInv, ChunksAreKept, Accounted, Pending, StagesAgree
<1>5. k \in Call /\ k.at = call[c].at /\ k.heard = call[c].heard + 1 /\ k.kind = call[c].kind
  BY <1>1, <1>2
  DEF Consume, Call, CallInv, ChunksAreKept, Accounted, Pending, StagesAgree
<1> HIDE DEF o, k
<1>6. job'[c] = o /\ call'[c] = k /\ closing' = closing
  BY <1>1, <1>3
<1>7. CallInv(c)'
  <2>1. StagesAgree(c)' /\ GoodEndIsWhole(c)'
    BY <1>1, <1>4, <1>5, <1>6
    DEF Consume, CallInv, StagesAgree, GoodEndIsWhole, Present, NewJob,
        StopsHaveReasons, InFlight, Working
  <2>2. StopsHaveReasons(c)'
    BY <1>1, <1>4, <1>5, <1>6
    DEF Consume, CallInv, StopsHaveReasons, StagesAgree, Present, HasJob, InFlight,
        Working, NewJob
  <2>3. ChunksAreKept(c)'
    BY <1>1, <1>2, <1>4, <1>5, <1>6
    DEF Consume, CallInv, StagesAgree, ChunksAreKept, Accounted, Pending,
        StopsHaveReasons, NewJob
  <2> QED
    BY <2>1, <2>2, <2>3 DEF CallInv
<1>8. /\ o.at \in {"fetching", "running", "late"} <=> HasJob(c)
      /\ o.at = "fetching" => job[c].at = "fetching" /\ (job[c].stop => o.stop)
      /\ o.thread \in Working => InFlight(c) /\ o.at = job[c].at
  BY <1>1, <1>4 DEF Consume, HasJob, InFlight, Working
<1> QED
  BY <1>3, <1>4, <1>5, <1>7, <1>8, LocalStep

\* The call returns, and its job had no error.
LEMMA ReturnOk ==
  ASSUME IInv, NEW c \in Calls, CallReturns(c), ~job[c].failed
  PROVE  IInv'
<1> DEFINE o == job[c]
           k == [call[c] EXCEPT !.at = "ok"]
<1>1. /\ job[c] \in Job /\ call[c] \in Call /\ CallInv(c)
      /\ HasJob(c) <=> slot = c
      /\ InFlight(c) => job[c].at \in {"running", "late"}
      /\ job \in [Calls -> Job] /\ call \in [Calls -> Call]
  BY Known
<1>2. /\ job[c].made \in 0..MaxChunks /\ job[c].queue \in 0..QueueCap
      /\ call[c].heard \in 0..MaxChunks
      /\ MaxChunks \in Nat /\ QueueCap \in Nat
  BY <1>1, ConstantsOK DEF Job, Call
<1>3. /\ job' = [job EXCEPT ![c] = o] /\ call' = [call EXCEPT ![c] = k]
      /\ UNCHANGED <<slot, uncertain, closing, closer>>
      /\ loaded' \in BOOLEAN /\ state' \in States
  BY <1>1 DEF CallReturns, Finished, States, IInv, TypeOK
<1>4. /\ o \in Job
      /\ o.at = job[c].at /\ o.stop = job[c].stop /\ o.failed = job[c].failed /\ o.thread = job[c].thread
           /\ o.put = job[c].put /\ o.queue = job[c].queue /\ o.made = job[c].made
  BY <1>1, <1>2
  DEF CallReturns, Finished, Job, Working, CallInv, ChunksAreKept, Accounted, Pending,
      StagesAgree
<1>5. k \in Call /\ k.at = "ok" /\ k.heard = call[c].heard /\ k.kind = call[c].kind
  BY <1>1, <1>2
  DEF CallReturns, Finished, Call, CallInv, ChunksAreKept, Accounted, Pending,
      StagesAgree
<1> HIDE DEF o, k
<1>6. job'[c] = o /\ call'[c] = k /\ closing' = closing
  BY <1>1, <1>3
<1>7. CallInv(c)'
  <2>1. StagesAgree(c)' /\ GoodEndIsWhole(c)'
    BY <1>1, <1>4, <1>5, <1>6
    DEF CallReturns, Finished, CallInv, StagesAgree, GoodEndIsWhole, Present, NewJob,
        StopsHaveReasons, InFlight, Working
  <2>2. StopsHaveReasons(c)'
    BY <1>1, <1>4, <1>5, <1>6
    DEF CallReturns, Finished, CallInv, StopsHaveReasons, StagesAgree, Present, HasJob,
        InFlight, Working, NewJob
  <2>3. ChunksAreKept(c)'
    BY <1>1, <1>2, <1>4, <1>5, <1>6
    DEF CallReturns, Finished, CallInv, StagesAgree, ChunksAreKept, Accounted, Pending,
        StopsHaveReasons, NewJob
  <2> QED
    BY <2>1, <2>2, <2>3 DEF CallInv
<1>8. /\ o.at \in {"fetching", "running", "late"} <=> HasJob(c)
      /\ o.at = "fetching" => job[c].at = "fetching" /\ (job[c].stop => o.stop)
      /\ o.thread \in Working => InFlight(c) /\ o.at = job[c].at
  BY <1>1, <1>4 DEF CallReturns, Finished, HasJob, InFlight, Working
<1> QED
  BY <1>3, <1>4, <1>5, <1>7, <1>8, LocalStep

\* The call raises the error of its job.
LEMMA ReturnFailed ==
  ASSUME IInv, NEW c \in Calls, CallReturns(c), job[c].failed
  PROVE  IInv'
<1> DEFINE o == job[c]
           k == [call[c] EXCEPT !.at = "failed"]
<1>1. /\ job[c] \in Job /\ call[c] \in Call /\ CallInv(c)
      /\ HasJob(c) <=> slot = c
      /\ InFlight(c) => job[c].at \in {"running", "late"}
      /\ job \in [Calls -> Job] /\ call \in [Calls -> Call]
  BY Known
<1>2. /\ job[c].made \in 0..MaxChunks /\ job[c].queue \in 0..QueueCap
      /\ call[c].heard \in 0..MaxChunks
      /\ MaxChunks \in Nat /\ QueueCap \in Nat
  BY <1>1, ConstantsOK DEF Job, Call
<1>3. /\ job' = [job EXCEPT ![c] = o] /\ call' = [call EXCEPT ![c] = k]
      /\ UNCHANGED <<slot, uncertain, closing, closer>>
      /\ loaded' \in BOOLEAN /\ state' \in States
  BY <1>1 DEF CallReturns, Finished, States, IInv, TypeOK
<1>4. /\ o \in Job
      /\ o.at = job[c].at /\ o.stop = job[c].stop /\ o.failed = job[c].failed /\ o.thread = job[c].thread
           /\ o.put = job[c].put /\ o.queue = job[c].queue /\ o.made = job[c].made
  BY <1>1, <1>2
  DEF CallReturns, Finished, Job, Working, CallInv, ChunksAreKept, Accounted, Pending,
      StagesAgree
<1>5. k \in Call /\ k.at = "failed" /\ k.heard = call[c].heard /\ k.kind = call[c].kind
  BY <1>1, <1>2
  DEF CallReturns, Finished, Call, CallInv, ChunksAreKept, Accounted, Pending,
      StagesAgree
<1> HIDE DEF o, k
<1>6. job'[c] = o /\ call'[c] = k /\ closing' = closing
  BY <1>1, <1>3
<1>7. CallInv(c)'
  <2>1. StagesAgree(c)' /\ GoodEndIsWhole(c)'
    BY <1>1, <1>4, <1>5, <1>6
    DEF CallReturns, Finished, CallInv, StagesAgree, GoodEndIsWhole, Present, NewJob,
        StopsHaveReasons, InFlight, Working
  <2>2. StopsHaveReasons(c)'
    BY <1>1, <1>4, <1>5, <1>6
    DEF CallReturns, Finished, CallInv, StopsHaveReasons, StagesAgree, Present, HasJob,
        InFlight, Working, NewJob
  <2>3. ChunksAreKept(c)'
    BY <1>1, <1>2, <1>4, <1>5, <1>6
    DEF CallReturns, Finished, CallInv, StagesAgree, ChunksAreKept, Accounted, Pending,
        StopsHaveReasons, NewJob
  <2> QED
    BY <2>1, <2>2, <2>3 DEF CallInv
<1>8. /\ o.at \in {"fetching", "running", "late"} <=> HasJob(c)
      /\ o.at = "fetching" => job[c].at = "fetching" /\ (job[c].stop => o.stop)
      /\ o.thread \in Working => InFlight(c) /\ o.at = job[c].at
  BY <1>1, <1>4 DEF CallReturns, Finished, HasJob, InFlight, Working
<1> QED
  BY <1>3, <1>4, <1>5, <1>7, <1>8, LocalStep

\* The thread sees the request to stop.
LEMMA ThreadStopsIInv ==
  ASSUME IInv, NEW c \in Calls, ThreadStops(c)
  PROVE  IInv'
<1> DEFINE o == [job[c] EXCEPT !.thread = "cut"]
           k == call[c]
<1>1. /\ job[c] \in Job /\ call[c] \in Call /\ CallInv(c)
      /\ HasJob(c) <=> slot = c
      /\ InFlight(c) => job[c].at \in {"running", "late"}
      /\ job \in [Calls -> Job] /\ call \in [Calls -> Call]
  BY Known
<1>2. /\ job[c].made \in 0..MaxChunks /\ job[c].queue \in 0..QueueCap
      /\ call[c].heard \in 0..MaxChunks
      /\ MaxChunks \in Nat /\ QueueCap \in Nat
  BY <1>1, ConstantsOK DEF Job, Call
<1>3. /\ job' = [job EXCEPT ![c] = o] /\ call' = [call EXCEPT ![c] = k]
      /\ UNCHANGED <<slot, uncertain, closing, closer>>
      /\ loaded' \in BOOLEAN /\ state' \in States
  BY <1>1 DEF ThreadStops, States, IInv, TypeOK
<1>4. /\ o \in Job
      /\ o.at = job[c].at /\ o.stop = job[c].stop /\ o.failed = job[c].failed /\ o.thread = "cut"
           /\ o.put = job[c].put /\ o.queue = job[c].queue /\ o.made = job[c].made
  BY <1>1, <1>2
  DEF ThreadStops, Job, Working, CallInv, ChunksAreKept, Accounted, Pending, StagesAgree
<1>5. k \in Call /\ k.at = call[c].at /\ k.heard = call[c].heard /\ k.kind = call[c].kind
  BY <1>1, <1>2
  DEF ThreadStops, Call, CallInv, ChunksAreKept, Accounted, Pending, StagesAgree
<1> HIDE DEF o, k
<1>6. job'[c] = o /\ call'[c] = k /\ closing' = closing
  BY <1>1, <1>3
<1>7. CallInv(c)'
  <2>1. StagesAgree(c)' /\ GoodEndIsWhole(c)'
    BY <1>1, <1>4, <1>5, <1>6
    DEF ThreadStops, CallInv, StagesAgree, GoodEndIsWhole, Present, NewJob,
        StopsHaveReasons, InFlight, Working
  <2>2. StopsHaveReasons(c)'
    BY <1>1, <1>4, <1>5, <1>6
    DEF ThreadStops, CallInv, StopsHaveReasons, StagesAgree, Present, HasJob, InFlight,
        Working, NewJob
  <2>3. ChunksAreKept(c)'
    BY <1>1, <1>2, <1>4, <1>5, <1>6
    DEF ThreadStops, CallInv, StagesAgree, ChunksAreKept, Accounted, Pending,
        StopsHaveReasons, NewJob
  <2> QED
    BY <2>1, <2>2, <2>3 DEF CallInv
<1>8. /\ o.at \in {"fetching", "running", "late"} <=> HasJob(c)
      /\ o.at = "fetching" => job[c].at = "fetching" /\ (job[c].stop => o.stop)
      /\ o.thread \in Working => InFlight(c) /\ o.at = job[c].at
  BY <1>1, <1>4 DEF ThreadStops, HasJob, InFlight, Working
<1> QED
  BY <1>3, <1>4, <1>5, <1>7, <1>8, LocalStep

\* The model cannot be loaded, or its audio is not supported.
LEMMA ThreadFails ==
  ASSUME IInv, NEW c \in Calls, job[c].thread \in {"begins", "generating"},
         job' = [job EXCEPT ![c].thread = "raised"], UNCHANGED loaded,
         UNCHANGED <<slot, state, uncertain, closing, closer, call>>
  PROVE  IInv'
<1> DEFINE o == [job[c] EXCEPT !.thread = "raised"]
           k == call[c]
<1>1. /\ job[c] \in Job /\ call[c] \in Call /\ CallInv(c)
      /\ HasJob(c) <=> slot = c
      /\ InFlight(c) => job[c].at \in {"running", "late"}
      /\ job \in [Calls -> Job] /\ call \in [Calls -> Call]
  BY Known
<1>2. /\ job[c].made \in 0..MaxChunks /\ job[c].queue \in 0..QueueCap
      /\ call[c].heard \in 0..MaxChunks
      /\ MaxChunks \in Nat /\ QueueCap \in Nat
  BY <1>1, ConstantsOK DEF Job, Call
<1>3. /\ job' = [job EXCEPT ![c] = o] /\ call' = [call EXCEPT ![c] = k]
      /\ UNCHANGED <<slot, uncertain, closing, closer>>
      /\ loaded' \in BOOLEAN /\ state' \in States
  BY <1>1 DEF Working, States, IInv, TypeOK
<1>4. /\ o \in Job
      /\ o.at = job[c].at /\ o.stop = job[c].stop /\ o.failed = job[c].failed /\ o.thread = "raised"
           /\ o.put = job[c].put /\ o.queue = job[c].queue /\ o.made = job[c].made
  BY <1>1, <1>2
  DEF Working, Job, CallInv, ChunksAreKept, Accounted, Pending, StagesAgree
<1>5. k \in Call /\ k.at = call[c].at /\ k.heard = call[c].heard /\ k.kind = call[c].kind
  BY <1>1, <1>2
  DEF Working, Call, CallInv, ChunksAreKept, Accounted, Pending, StagesAgree
<1> HIDE DEF o, k
<1>6. job'[c] = o /\ call'[c] = k /\ closing' = closing
  BY <1>1, <1>3
<1>7. CallInv(c)'
  <2>1. StagesAgree(c)' /\ GoodEndIsWhole(c)'
    BY <1>1, <1>4, <1>5, <1>6
    DEF Working, CallInv, StagesAgree, GoodEndIsWhole, Present, NewJob,
        StopsHaveReasons, InFlight
  <2>2. StopsHaveReasons(c)'
    BY <1>1, <1>4, <1>5, <1>6
    DEF Working, CallInv, StopsHaveReasons, StagesAgree, Present, HasJob, InFlight,
        NewJob
  <2>3. ChunksAreKept(c)'
    BY <1>1, <1>2, <1>4, <1>5, <1>6
    DEF Working, CallInv, StagesAgree, ChunksAreKept, Accounted, Pending,
        StopsHaveReasons, NewJob
  <2> QED
    BY <2>1, <2>2, <2>3 DEF CallInv
<1>8. /\ o.at \in {"fetching", "running", "late"} <=> HasJob(c)
      /\ o.at = "fetching" => job[c].at = "fetching" /\ (job[c].stop => o.stop)
      /\ o.thread \in Working => InFlight(c) /\ o.at = job[c].at
  BY <1>1, <1>4 DEF Working, HasJob, InFlight
<1> QED
  BY <1>3, <1>4, <1>5, <1>7, <1>8, LocalStep

\* The thread has loaded the model, or has a text to speak.
LEMMA ThreadGoesOn ==
  ASSUME IInv, NEW c \in Calls, NEW x \in {"checks", "generating"}, job[c].thread \in {"begins", "checks"},
         job' = [job EXCEPT ![c].thread = x], loaded' \in BOOLEAN,
         UNCHANGED <<slot, state, uncertain, closing, closer, call>>
  PROVE  IInv'
<1> DEFINE o == [job[c] EXCEPT !.thread = x]
           k == call[c]
<1>1. /\ job[c] \in Job /\ call[c] \in Call /\ CallInv(c)
      /\ HasJob(c) <=> slot = c
      /\ InFlight(c) => job[c].at \in {"running", "late"}
      /\ job \in [Calls -> Job] /\ call \in [Calls -> Call]
  BY Known
<1>2. /\ job[c].made \in 0..MaxChunks /\ job[c].queue \in 0..QueueCap
      /\ call[c].heard \in 0..MaxChunks
      /\ MaxChunks \in Nat /\ QueueCap \in Nat
  BY <1>1, ConstantsOK DEF Job, Call
<1>3. /\ job' = [job EXCEPT ![c] = o] /\ call' = [call EXCEPT ![c] = k]
      /\ UNCHANGED <<slot, uncertain, closing, closer>>
      /\ loaded' \in BOOLEAN /\ state' \in States
  BY <1>1 DEF Working, States, IInv, TypeOK
<1>4. /\ o \in Job
      /\ o.at = job[c].at /\ o.stop = job[c].stop /\ o.failed = job[c].failed /\ o.thread = x
           /\ o.put = job[c].put /\ o.queue = job[c].queue /\ o.made = job[c].made
  BY <1>1, <1>2
  DEF Working, Job, CallInv, ChunksAreKept, Accounted, Pending, StagesAgree
<1>5. k \in Call /\ k.at = call[c].at /\ k.heard = call[c].heard /\ k.kind = call[c].kind
  BY <1>1, <1>2
  DEF Working, Call, CallInv, ChunksAreKept, Accounted, Pending, StagesAgree
<1> HIDE DEF o, k
<1>6. job'[c] = o /\ call'[c] = k /\ closing' = closing
  BY <1>1, <1>3
<1>7. CallInv(c)'
  <2>1. StagesAgree(c)' /\ GoodEndIsWhole(c)'
    BY <1>1, <1>4, <1>5, <1>6
    DEF Working, CallInv, StagesAgree, GoodEndIsWhole, Present, NewJob,
        StopsHaveReasons, InFlight
  <2>2. StopsHaveReasons(c)'
    BY <1>1, <1>4, <1>5, <1>6
    DEF Working, CallInv, StopsHaveReasons, StagesAgree, Present, HasJob, InFlight,
        NewJob
  <2>3. ChunksAreKept(c)'
    BY <1>1, <1>2, <1>4, <1>5, <1>6
    DEF Working, CallInv, StagesAgree, ChunksAreKept, Accounted, Pending,
        StopsHaveReasons, NewJob
  <2> QED
    BY <2>1, <2>2, <2>3 DEF CallInv
<1>8. /\ o.at \in {"fetching", "running", "late"} <=> HasJob(c)
      /\ o.at = "fetching" => job[c].at = "fetching" /\ (job[c].stop => o.stop)
      /\ o.thread \in Working => InFlight(c) /\ o.at = job[c].at
  BY <1>1, <1>4 DEF Working, HasJob, InFlight
<1> QED
  BY <1>3, <1>4, <1>5, <1>7, <1>8, LocalStep

\* The thread has done all it was asked for.
LEMMA ThreadCompletes ==
  ASSUME IInv, NEW c \in Calls, job[c].thread \in {"checks", "generating"},
         job' = [job EXCEPT ![c].thread = "whole"], UNCHANGED loaded,
         UNCHANGED <<slot, state, uncertain, closing, closer, call>>
  PROVE  IInv'
<1> DEFINE o == [job[c] EXCEPT !.thread = "whole"]
           k == call[c]
<1>1. /\ job[c] \in Job /\ call[c] \in Call /\ CallInv(c)
      /\ HasJob(c) <=> slot = c
      /\ InFlight(c) => job[c].at \in {"running", "late"}
      /\ job \in [Calls -> Job] /\ call \in [Calls -> Call]
  BY Known
<1>2. /\ job[c].made \in 0..MaxChunks /\ job[c].queue \in 0..QueueCap
      /\ call[c].heard \in 0..MaxChunks
      /\ MaxChunks \in Nat /\ QueueCap \in Nat
  BY <1>1, ConstantsOK DEF Job, Call
<1>3. /\ job' = [job EXCEPT ![c] = o] /\ call' = [call EXCEPT ![c] = k]
      /\ UNCHANGED <<slot, uncertain, closing, closer>>
      /\ loaded' \in BOOLEAN /\ state' \in States
  BY <1>1 DEF Working, States, IInv, TypeOK
<1>4. /\ o \in Job
      /\ o.at = job[c].at /\ o.stop = job[c].stop /\ o.failed = job[c].failed /\ o.thread = "whole"
           /\ o.put = job[c].put /\ o.queue = job[c].queue /\ o.made = job[c].made
  BY <1>1, <1>2
  DEF Working, Job, CallInv, ChunksAreKept, Accounted, Pending, StagesAgree
<1>5. k \in Call /\ k.at = call[c].at /\ k.heard = call[c].heard /\ k.kind = call[c].kind
  BY <1>1, <1>2
  DEF Working, Call, CallInv, ChunksAreKept, Accounted, Pending, StagesAgree
<1> HIDE DEF o, k
<1>6. job'[c] = o /\ call'[c] = k /\ closing' = closing
  BY <1>1, <1>3
<1>7. CallInv(c)'
  <2>1. StagesAgree(c)' /\ GoodEndIsWhole(c)'
    BY <1>1, <1>4, <1>5, <1>6
    DEF Working, CallInv, StagesAgree, GoodEndIsWhole, Present, NewJob,
        StopsHaveReasons, InFlight
  <2>2. StopsHaveReasons(c)'
    BY <1>1, <1>4, <1>5, <1>6
    DEF Working, CallInv, StopsHaveReasons, StagesAgree, Present, HasJob, InFlight,
        NewJob
  <2>3. ChunksAreKept(c)'
    BY <1>1, <1>2, <1>4, <1>5, <1>6
    DEF Working, CallInv, StagesAgree, ChunksAreKept, Accounted, Pending,
        StopsHaveReasons, NewJob
  <2> QED
    BY <2>1, <2>2, <2>3 DEF CallInv
<1>8. /\ o.at \in {"fetching", "running", "late"} <=> HasJob(c)
      /\ o.at = "fetching" => job[c].at = "fetching" /\ (job[c].stop => o.stop)
      /\ o.thread \in Working => InFlight(c) /\ o.at = job[c].at
  BY <1>1, <1>4 DEF Working, HasJob, InFlight
<1> QED
  BY <1>3, <1>4, <1>5, <1>7, <1>8, LocalStep

\* The model yields a chunk.
LEMMA ThreadYields ==
  ASSUME IInv, NEW c \in Calls, job[c].thread = "generating", job[c].made < MaxChunks,
         job' = [job EXCEPT ![c].thread = "putting", ![c].put = "scheduled",
                            ![c].made = @ + 1],
         UNCHANGED loaded, UNCHANGED <<slot, state, uncertain, closing, closer, call>>
  PROVE  IInv'
<1> DEFINE o == [job[c] EXCEPT !.thread = "putting", !.put = "scheduled", !.made = job[c].made + 1]
           k == call[c]
<1>1. /\ job[c] \in Job /\ call[c] \in Call /\ CallInv(c)
      /\ HasJob(c) <=> slot = c
      /\ InFlight(c) => job[c].at \in {"running", "late"}
      /\ job \in [Calls -> Job] /\ call \in [Calls -> Call]
  BY Known
<1>2. /\ job[c].made \in 0..MaxChunks /\ job[c].queue \in 0..QueueCap
      /\ call[c].heard \in 0..MaxChunks
      /\ MaxChunks \in Nat /\ QueueCap \in Nat
  BY <1>1, ConstantsOK DEF Job, Call
<1>3. /\ job' = [job EXCEPT ![c] = o] /\ call' = [call EXCEPT ![c] = k]
      /\ UNCHANGED <<slot, uncertain, closing, closer>>
      /\ loaded' \in BOOLEAN /\ state' \in States
  BY <1>1 DEF Working, States, IInv, TypeOK
<1>4. /\ o \in Job
      /\ o.at = job[c].at /\ o.stop = job[c].stop /\ o.failed = job[c].failed /\ o.thread = "putting"
           /\ o.put = "scheduled" /\ o.queue = job[c].queue /\ o.made = job[c].made + 1
  BY <1>1, <1>2
  DEF Working, Job, CallInv, ChunksAreKept, Accounted, Pending, StagesAgree
<1>5. k \in Call /\ k.at = call[c].at /\ k.heard = call[c].heard /\ k.kind = call[c].kind
  BY <1>1, <1>2
  DEF Working, Call, CallInv, ChunksAreKept, Accounted, Pending, StagesAgree
<1> HIDE DEF o, k
<1>6. job'[c] = o /\ call'[c] = k /\ closing' = closing
  BY <1>1, <1>3
<1>7. CallInv(c)'
  <2>1. StagesAgree(c)' /\ GoodEndIsWhole(c)'
    BY <1>1, <1>4, <1>5, <1>6
    DEF Working, CallInv, StagesAgree, GoodEndIsWhole, Present, NewJob,
        StopsHaveReasons, InFlight
  <2>2. StopsHaveReasons(c)'
    BY <1>1, <1>4, <1>5, <1>6
    DEF Working, CallInv, StopsHaveReasons, StagesAgree, Present, HasJob, InFlight,
        NewJob
  <2>3. ChunksAreKept(c)'
    BY <1>1, <1>2, <1>4, <1>5, <1>6
    DEF Working, CallInv, StagesAgree, ChunksAreKept, Accounted, Pending,
        StopsHaveReasons, NewJob
  <2> QED
    BY <2>1, <2>2, <2>3 DEF CallInv
<1>8. /\ o.at \in {"fetching", "running", "late"} <=> HasJob(c)
      /\ o.at = "fetching" => job[c].at = "fetching" /\ (job[c].stop => o.stop)
      /\ o.thread \in Working => InFlight(c) /\ o.at = job[c].at
  BY <1>1, <1>4 DEF Working, HasJob, InFlight
<1> QED
  BY <1>3, <1>4, <1>5, <1>7, <1>8, LocalStep

\* The event loop runs the put.
LEMMA LoopPutsIInv ==
  ASSUME IInv, NEW c \in Calls, LoopPuts(c)
  PROVE  IInv'
<1> DEFINE o == [job[c] EXCEPT !.queue = job[c].queue + 1, !.put = "done"]
           k == call[c]
<1>1. /\ job[c] \in Job /\ call[c] \in Call /\ CallInv(c)
      /\ HasJob(c) <=> slot = c
      /\ InFlight(c) => job[c].at \in {"running", "late"}
      /\ job \in [Calls -> Job] /\ call \in [Calls -> Call]
  BY Known
<1>2. /\ job[c].made \in 0..MaxChunks /\ job[c].queue \in 0..QueueCap
      /\ call[c].heard \in 0..MaxChunks
      /\ MaxChunks \in Nat /\ QueueCap \in Nat
  BY <1>1, ConstantsOK DEF Job, Call
<1>3. /\ job' = [job EXCEPT ![c] = o] /\ call' = [call EXCEPT ![c] = k]
      /\ UNCHANGED <<slot, uncertain, closing, closer>>
      /\ loaded' \in BOOLEAN /\ state' \in States
  BY <1>1 DEF LoopPuts, States, IInv, TypeOK
<1>4. /\ o \in Job
      /\ o.at = job[c].at /\ o.stop = job[c].stop /\ o.failed = job[c].failed /\ o.thread = job[c].thread
           /\ o.put = "done" /\ o.queue = job[c].queue + 1 /\ o.made = job[c].made
  BY <1>1, <1>2
  DEF LoopPuts, Job, Working, CallInv, ChunksAreKept, Accounted, Pending, StagesAgree
<1>5. k \in Call /\ k.at = call[c].at /\ k.heard = call[c].heard /\ k.kind = call[c].kind
  BY <1>1, <1>2
  DEF LoopPuts, Call, CallInv, ChunksAreKept, Accounted, Pending, StagesAgree
<1> HIDE DEF o, k
<1>6. job'[c] = o /\ call'[c] = k /\ closing' = closing
  BY <1>1, <1>3
<1>7. CallInv(c)'
  <2>1. StagesAgree(c)' /\ GoodEndIsWhole(c)'
    BY <1>1, <1>4, <1>5, <1>6
    DEF LoopPuts, CallInv, StagesAgree, GoodEndIsWhole, Present, NewJob,
        StopsHaveReasons, InFlight, Working
  <2>2. StopsHaveReasons(c)'
    BY <1>1, <1>4, <1>5, <1>6
    DEF LoopPuts, CallInv, StopsHaveReasons, StagesAgree, Present, HasJob, InFlight,
        Working, NewJob
  <2>3. ChunksAreKept(c)'
    BY <1>1, <1>2, <1>4, <1>5, <1>6
    DEF LoopPuts, CallInv, StagesAgree, ChunksAreKept, Accounted, Pending,
        StopsHaveReasons, NewJob
  <2> QED
    BY <2>1, <2>2, <2>3 DEF CallInv
<1>8. /\ o.at \in {"fetching", "running", "late"} <=> HasJob(c)
      /\ o.at = "fetching" => job[c].at = "fetching" /\ (job[c].stop => o.stop)
      /\ o.thread \in Working => InFlight(c) /\ o.at = job[c].at
  BY <1>1, <1>4 DEF LoopPuts, HasJob, InFlight, Working
<1> QED
  BY <1>3, <1>4, <1>5, <1>7, <1>8, LocalStep

\* A thread that waits for its put gives up.
LEMMA PollStops ==
  ASSUME IInv, NEW c \in Calls, job[c].thread = "putting", GivesUp(c),
         job' = [job EXCEPT ![c].thread = "cut", ![c].put = "none"],
         UNCHANGED loaded, UNCHANGED <<slot, state, uncertain, closing, closer, call>>
  PROVE  IInv'
<1> DEFINE o == [job[c] EXCEPT !.thread = "cut", !.put = "none"]
           k == call[c]
<1>1. /\ job[c] \in Job /\ call[c] \in Call /\ CallInv(c)
      /\ HasJob(c) <=> slot = c
      /\ InFlight(c) => job[c].at \in {"running", "late"}
      /\ job \in [Calls -> Job] /\ call \in [Calls -> Call]
  BY Known
<1>2. /\ job[c].made \in 0..MaxChunks /\ job[c].queue \in 0..QueueCap
      /\ call[c].heard \in 0..MaxChunks
      /\ MaxChunks \in Nat /\ QueueCap \in Nat
  BY <1>1, ConstantsOK DEF Job, Call
<1>3. /\ job' = [job EXCEPT ![c] = o] /\ call' = [call EXCEPT ![c] = k]
      /\ UNCHANGED <<slot, uncertain, closing, closer>>
      /\ loaded' \in BOOLEAN /\ state' \in States
  BY <1>1 DEF GivesUp, States, IInv, TypeOK
<1>4. /\ o \in Job
      /\ o.at = job[c].at /\ o.stop = job[c].stop /\ o.failed = job[c].failed /\ o.thread = "cut"
           /\ o.put = "none" /\ o.queue = job[c].queue /\ o.made = job[c].made
  BY <1>1, <1>2
  DEF GivesUp, Job, Working, CallInv, ChunksAreKept, Accounted, Pending, StagesAgree
<1>5. k \in Call /\ k.at = call[c].at /\ k.heard = call[c].heard /\ k.kind = call[c].kind
  BY <1>1, <1>2
  DEF GivesUp, Call, CallInv, ChunksAreKept, Accounted, Pending, StagesAgree
<1> HIDE DEF o, k
<1>6. job'[c] = o /\ call'[c] = k /\ closing' = closing
  BY <1>1, <1>3
<1>7. CallInv(c)'
  <2>1. StagesAgree(c)' /\ GoodEndIsWhole(c)'
    BY <1>1, <1>4, <1>5, <1>6
    DEF GivesUp, CallInv, StagesAgree, GoodEndIsWhole, Present, NewJob,
        StopsHaveReasons, InFlight, Working
  <2>2. StopsHaveReasons(c)'
    BY <1>1, <1>4, <1>5, <1>6
    DEF GivesUp, CallInv, StopsHaveReasons, StagesAgree, Present, HasJob, InFlight,
        Working, NewJob
  <2>3. ChunksAreKept(c)'
    BY <1>1, <1>2, <1>4, <1>5, <1>6
    DEF GivesUp, CallInv, StagesAgree, ChunksAreKept, Accounted, Pending,
        StopsHaveReasons, NewJob
  <2> QED
    BY <2>1, <2>2, <2>3 DEF CallInv
<1>8. /\ o.at \in {"fetching", "running", "late"} <=> HasJob(c)
      /\ o.at = "fetching" => job[c].at = "fetching" /\ (job[c].stop => o.stop)
      /\ o.thread \in Working => InFlight(c) /\ o.at = job[c].at
  BY <1>1, <1>4 DEF GivesUp, HasJob, InFlight, Working
<1> QED
  BY <1>3, <1>4, <1>5, <1>7, <1>8, LocalStep

\* A thread that waits for its put goes on.
LEMMA PollContinues ==
  ASSUME IInv, NEW c \in Calls, job[c].thread = "putting", job[c].put = "done",
         job' = [job EXCEPT ![c].thread = "generating", ![c].put = "none"],
         UNCHANGED loaded, UNCHANGED <<slot, state, uncertain, closing, closer, call>>
  PROVE  IInv'
<1> DEFINE o == [job[c] EXCEPT !.thread = "generating", !.put = "none"]
           k == call[c]
<1>1. /\ job[c] \in Job /\ call[c] \in Call /\ CallInv(c)
      /\ HasJob(c) <=> slot = c
      /\ InFlight(c) => job[c].at \in {"running", "late"}
      /\ job \in [Calls -> Job] /\ call \in [Calls -> Call]
  BY Known
<1>2. /\ job[c].made \in 0..MaxChunks /\ job[c].queue \in 0..QueueCap
      /\ call[c].heard \in 0..MaxChunks
      /\ MaxChunks \in Nat /\ QueueCap \in Nat
  BY <1>1, ConstantsOK DEF Job, Call
<1>3. /\ job' = [job EXCEPT ![c] = o] /\ call' = [call EXCEPT ![c] = k]
      /\ UNCHANGED <<slot, uncertain, closing, closer>>
      /\ loaded' \in BOOLEAN /\ state' \in States
  BY <1>1 DEF Working, States, IInv, TypeOK
<1>4. /\ o \in Job
      /\ o.at = job[c].at /\ o.stop = job[c].stop /\ o.failed = job[c].failed /\ o.thread = "generating"
           /\ o.put = "none" /\ o.queue = job[c].queue /\ o.made = job[c].made
  BY <1>1, <1>2
  DEF Working, Job, CallInv, ChunksAreKept, Accounted, Pending, StagesAgree
<1>5. k \in Call /\ k.at = call[c].at /\ k.heard = call[c].heard /\ k.kind = call[c].kind
  BY <1>1, <1>2
  DEF Working, Call, CallInv, ChunksAreKept, Accounted, Pending, StagesAgree
<1> HIDE DEF o, k
<1>6. job'[c] = o /\ call'[c] = k /\ closing' = closing
  BY <1>1, <1>3
<1>7. CallInv(c)'
  <2>1. StagesAgree(c)' /\ GoodEndIsWhole(c)'
    BY <1>1, <1>4, <1>5, <1>6
    DEF Working, CallInv, StagesAgree, GoodEndIsWhole, Present, NewJob,
        StopsHaveReasons, InFlight
  <2>2. StopsHaveReasons(c)'
    BY <1>1, <1>4, <1>5, <1>6
    DEF Working, CallInv, StopsHaveReasons, StagesAgree, Present, HasJob, InFlight,
        NewJob
  <2>3. ChunksAreKept(c)'
    BY <1>1, <1>2, <1>4, <1>5, <1>6
    DEF Working, CallInv, StagesAgree, ChunksAreKept, Accounted, Pending,
        StopsHaveReasons, NewJob
  <2> QED
    BY <2>1, <2>2, <2>3 DEF CallInv
<1>8. /\ o.at \in {"fetching", "running", "late"} <=> HasJob(c)
      /\ o.at = "fetching" => job[c].at = "fetching" /\ (job[c].stop => o.stop)
      /\ o.thread \in Working => InFlight(c) /\ o.at = job[c].at
  BY <1>1, <1>4 DEF Working, HasJob, InFlight
<1> QED
  BY <1>3, <1>4, <1>5, <1>7, <1>8, LocalStep

\* A call that leaves, whoever makes it leave.
LEMMA LeavingIInv ==
  ASSUME IInv, NEW c \in Calls, call' = [call EXCEPT ![c].at = "left"], Present(c),
         Abandon(c), UNCHANGED <<loaded, slot, uncertain, closing, closer>>
  PROVE  IInv'
<1>1. CASE call[c].at = "served" /\ job[c].at # "done"
  BY <1>1, LeavingStops DEF Abandon
<1>2. CASE ~(call[c].at = "served" /\ job[c].at # "done")
  BY <1>2, LeavingAlone DEF Abandon
<1> QED
  BY <1>1, <1>2

\* The steps of the thread.
LEMMA ThreadIInv ==
  ASSUME IInv, NEW c \in Calls, ThreadStep(c) \/ ThreadPolls(c)
  PROVE  IInv'
<1> USE DEF IInv, TypeOK
<1>1. CASE ThreadStops(c)
  BY <1>1, ThreadStopsIInv
<1>2. CASE ThreadLoads(c)
  BY <1>2, ThreadFails, ThreadGoesOn DEF ThreadLoads
<1>3. CASE ThreadChecks(c)
  <2>1. CASE call[c].kind = "prepare"
    BY <1>3, <2>1, ThreadCompletes DEF ThreadChecks
  <2>2. CASE call[c].kind # "prepare"
    BY <1>3, <2>2, ThreadGoesOn DEF ThreadChecks
  <2> QED
    BY <2>1, <2>2
<1>4. CASE ThreadGenerates(c)
  BY <1>4, ThreadYields, ThreadFails, ThreadCompletes DEF ThreadGenerates
<1>5. CASE ThreadPolls(c)
  BY <1>5, PollStops, PollContinues DEF ThreadPolls
<1> QED
  BY <1>1, <1>2, <1>3, <1>4, <1>5 DEF ThreadStep

-----------------------------------------------------------------------------
(* The steps that give a job the slot, start its thread, or end it.        *)

\* What is left to show when a step replaces the record of one job.
LEMMA JobStepInv ==
  ASSUME IInv, NEW c \in Calls, NEW o \in Job, NEW k \in Call,
         job' = [job EXCEPT ![c] = o], call' = [call EXCEPT ![c] = k],
         UNCHANGED <<loaded, closing, closer>>,
         uncertain' \in BOOLEAN, state' \in States,
         \/ slot' = c /\ (slot = c \/ slot = NoCall)
         \/ slot' = NoCall /\ slot = c,
         o.at \in {"fetching", "running", "late"} <=> slot' = c,
         o.thread \in Working => o.at \in {"running", "late"},
         uncertain => uncertain',
         uncertain' => uncertain \/ slot' = c,
         o.at = "fetching" /\ (uncertain' \/ closing) => o.stop,
         closer = "closed" => UNCHANGED <<slot, uncertain>>,
         CallInv(c)'
  PROVE  IInv'
<1>1. /\ job' \in [Calls -> Job] /\ call' \in [Calls -> Call]
      /\ job'[c] = o
      /\ \A d \in Calls \ {c} : job'[d] = job[d] /\ call'[d] = call[d] /\ CallInv(d)'
  BY OneCall
<1>2. TypeOK'
  BY <1>1, ConstantsOK DEF IInv, TypeOK, States
<1>3. JobHoldsSlot' /\ ThreadHasJob'
  BY <1>1, ConstantsOK DEF IInv, SlotInv, JobHoldsSlot, ThreadHasJob, HasJob, InFlight
<1>4. UnbornIsStopped'
  <2> SUFFICES ASSUME NEW d \in Calls, job'[d].at = "fetching",
                      uncertain' \/ closer' \in {"streams", "waiting", "closed", "failed"}
               PROVE  job'[d].stop
    BY DEF UnbornIsStopped
  <2>1. CASE d = c
    BY <1>1, <2>1 DEF IInv, SlotInv, CloserIsClosing
  <2>2. CASE d # c
    BY <1>1, <1>3, <2>2 DEF IInv, SlotInv, UnbornIsStopped, JobHoldsSlot, HasJob
  <2> QED
    BY <2>1, <2>2
<1>5. CloserIsClosing' /\ ClosedIsFree' /\ FailedIsUncertain'
  BY DEF IInv, SlotInv, CloserIsClosing, ClosedIsFree, FailedIsUncertain
<1> QED
  BY <1>1, <1>2, <1>3, <1>4, <1>5 DEF IInv, SlotInv

\* The job of an admitted call holds the slot.
LEMMA AdmitServes ==
  ASSUME IInv, NEW c \in Calls, Admit(c), Open
  PROVE  IInv'
<1> DEFINE o == [job[c] EXCEPT !.at = "fetching"]
           k == [call[c] EXCEPT !.at = "served"]
<1>1. /\ job[c] \in Job /\ call[c] \in Call /\ CallInv(c)
      /\ HasJob(c) <=> slot = c
      /\ InFlight(c) => job[c].at \in {"running", "late"}
      /\ job \in [Calls -> Job] /\ call \in [Calls -> Call]
  BY Known
<1>2. TypeOK /\ UnbornIsStopped /\ CloserIsClosing /\ ClosedIsFree
  BY DEF IInv, SlotInv
<1>3. /\ job' = [job EXCEPT ![c] = o] /\ call' = [call EXCEPT ![c] = k]
      /\ UNCHANGED <<loaded, closing, closer>>
  BY <1>1 DEF Admit
<1>4. /\ o \in Job
      /\ o.at = "fetching" /\ o.stop = job[c].stop /\ o.failed = job[c].failed /\ o.thread = job[c].thread
      /\ o.put = job[c].put /\ o.queue = job[c].queue /\ o.made = job[c].made
  BY <1>1 DEF Admit, Job, Working, CallInv, StagesAgree, NewJob
<1>5. k \in Call /\ k.at = "served" /\ k.heard = call[c].heard /\ k.kind = call[c].kind
  BY <1>1 DEF Call
<1>6. /\ uncertain' \in BOOLEAN /\ state' \in States
      /\ \/ slot' = c /\ (slot = c \/ slot = NoCall)
         \/ slot' = NoCall /\ slot = c
      /\ o.at \in {"fetching", "running", "late"} <=> slot' = c
      /\ o.thread \in Working => o.at \in {"running", "late"}
      /\ uncertain => uncertain'
      /\ uncertain' => uncertain \/ slot' = c
      /\ closer = "closed" => UNCHANGED <<slot, uncertain>>
  BY <1>1, <1>2, <1>4, ConstantsOK
  DEF Admit, States, TypeOK, HasJob, InFlight, CallInv, StagesAgree, ClosedIsFree,
      Working, CloserIsClosing, NewJob, Open
<1>7. o.at = "fetching" /\ (uncertain' \/ closing) => o.stop
  BY <1>1, <1>2, <1>4 DEF Admit, Open
<1> HIDE DEF o, k
<1>8. job'[c] = o /\ call'[c] = k /\ closing' = closing
  BY <1>1, <1>3
<1>9. CallInv(c)'
  <2>1. StagesAgree(c)' /\ GoodEndIsWhole(c)'
    BY <1>1, <1>4, <1>5, <1>8
    DEF Admit, CallInv, StagesAgree, GoodEndIsWhole, NewJob, StopsHaveReasons, InFlight,
        Working, Present
  <2>2. StopsHaveReasons(c)'
    BY <1>1, <1>4, <1>5, <1>8
    DEF Admit, CallInv, StopsHaveReasons, StagesAgree, Present, HasJob, InFlight,
        Working, NewJob
  <2>3. ChunksAreKept(c)'
    BY <1>1, <1>4, <1>5, <1>8
    DEF Admit, CallInv, StagesAgree, ChunksAreKept, Accounted, Pending,
        StopsHaveReasons, NewJob
  <2> QED
    BY <2>1, <2>2, <2>3 DEF CallInv
<1> QED
  BY <1>3, <1>4, <1>5, <1>6, <1>7, <1>9, JobStepInv

\* The slot is released when no thread runs, and a job without an error was
\* stopped or is whole.
LEMMA ReleaseIInv ==
  ASSUME IInv, NEW c \in Calls, NEW failed \in BOOLEAN, slot = c, Release(c, failed),
         failed \/ job[c].stop \/ job[c].thread = "whole", ~InFlight(c),
         UNCHANGED <<loaded, uncertain, closing, closer, call>>
  PROVE  IInv'
<1> DEFINE o == [job[c] EXCEPT !.at = "done", !.failed = failed]
           k == call[c]
<1>1. /\ job[c] \in Job /\ call[c] \in Call /\ CallInv(c)
      /\ HasJob(c) <=> slot = c
      /\ InFlight(c) => job[c].at \in {"running", "late"}
      /\ job \in [Calls -> Job] /\ call \in [Calls -> Call]
  BY Known
<1>2. TypeOK /\ UnbornIsStopped /\ CloserIsClosing /\ ClosedIsFree
  BY DEF IInv, SlotInv
<1>3. /\ job' = [job EXCEPT ![c] = o] /\ call' = [call EXCEPT ![c] = k]
      /\ UNCHANGED <<loaded, closing, closer>>
  BY <1>1 DEF Release, StateAfterJob
<1>4. /\ o \in Job
      /\ o.at = "done" /\ o.stop = job[c].stop /\ o.failed = failed /\ o.thread = job[c].thread
      /\ o.put = job[c].put /\ o.queue = job[c].queue /\ o.made = job[c].made
  BY <1>1 DEF Release, StateAfterJob, Job, Working, CallInv, StagesAgree, NewJob
<1>5. k \in Call /\ k.at = call[c].at /\ k.heard = call[c].heard /\ k.kind = call[c].kind
  BY <1>1 DEF Call
<1>6. /\ uncertain' \in BOOLEAN /\ state' \in States
      /\ \/ slot' = c /\ (slot = c \/ slot = NoCall)
         \/ slot' = NoCall /\ slot = c
      /\ o.at \in {"fetching", "running", "late"} <=> slot' = c
      /\ o.thread \in Working => o.at \in {"running", "late"}
      /\ uncertain => uncertain'
      /\ uncertain' => uncertain \/ slot' = c
      /\ closer = "closed" => UNCHANGED <<slot, uncertain>>
  BY <1>1, <1>2, <1>4, ConstantsOK
  DEF Release, StateAfterJob, States, TypeOK, HasJob, InFlight, CallInv, StagesAgree,
      ClosedIsFree, Working, CloserIsClosing, NewJob, Open
<1>7. o.at = "fetching" /\ (uncertain' \/ closing) => o.stop
  BY <1>1, <1>2, <1>4 DEF Release, StateAfterJob, Open
<1> HIDE DEF o, k
<1>8. job'[c] = o /\ call'[c] = k /\ closing' = closing
  BY <1>1, <1>3
<1>9. CallInv(c)'
  <2>1. StagesAgree(c)' /\ GoodEndIsWhole(c)'
    BY <1>1, <1>4, <1>5, <1>8
    DEF Release, StateAfterJob, CallInv, StagesAgree, GoodEndIsWhole, NewJob,
        StopsHaveReasons, InFlight, Working, Present
  <2>2. StopsHaveReasons(c)'
    BY <1>1, <1>4, <1>5, <1>8
    DEF Release, StateAfterJob, CallInv, StopsHaveReasons, StagesAgree, Present, HasJob,
        InFlight, Working, NewJob
  <2>3. ChunksAreKept(c)'
    BY <1>1, <1>4, <1>5, <1>8
    DEF Release, StateAfterJob, CallInv, StagesAgree, ChunksAreKept, Accounted, Pending,
        StopsHaveReasons, NewJob
  <2> QED
    BY <2>1, <2>2, <2>3 DEF CallInv
<1> QED
  BY <1>3, <1>4, <1>5, <1>6, <1>7, <1>9, JobStepInv

\* The thread begins for a job that was not stopped.
LEMMA ThreadBeginsIInv ==
  ASSUME IInv, NEW c \in Calls, job[c].at = "fetching", ~job[c].stop, ~uncertain,
         closer \notin {"streams", "waiting", "closed", "failed"},
         job' = [job EXCEPT ![c].at = "running", ![c].thread = "begins"],
         UNCHANGED <<loaded, slot, state, uncertain, closing, closer, call>>
  PROVE  IInv'
<1> DEFINE o == [job[c] EXCEPT !.at = "running", !.thread = "begins"]
           k == call[c]
<1>1. /\ job[c] \in Job /\ call[c] \in Call /\ CallInv(c)
      /\ HasJob(c) <=> slot = c
      /\ InFlight(c) => job[c].at \in {"running", "late"}
      /\ job \in [Calls -> Job] /\ call \in [Calls -> Call]
  BY Known
<1>2. TypeOK /\ UnbornIsStopped /\ CloserIsClosing /\ ClosedIsFree
  BY DEF IInv, SlotInv
<1>3. /\ job' = [job EXCEPT ![c] = o] /\ call' = [call EXCEPT ![c] = k]
      /\ UNCHANGED <<loaded, closing, closer>>
  BY <1>1 DEF Working
<1>4. /\ o \in Job
      /\ o.at = "running" /\ o.stop = job[c].stop /\ o.failed = job[c].failed /\ o.thread = "begins"
      /\ o.put = job[c].put /\ o.queue = job[c].queue /\ o.made = job[c].made
  BY <1>1 DEF Working, Job, CallInv, StagesAgree, NewJob
<1>5. k \in Call /\ k.at = call[c].at /\ k.heard = call[c].heard /\ k.kind = call[c].kind
  BY <1>1 DEF Call
<1>6. /\ uncertain' \in BOOLEAN /\ state' \in States
      /\ \/ slot' = c /\ (slot = c \/ slot = NoCall)
         \/ slot' = NoCall /\ slot = c
      /\ o.at \in {"fetching", "running", "late"} <=> slot' = c
      /\ o.thread \in Working => o.at \in {"running", "late"}
      /\ uncertain => uncertain'
      /\ uncertain' => uncertain \/ slot' = c
      /\ closer = "closed" => UNCHANGED <<slot, uncertain>>
  BY <1>1, <1>2, <1>4, ConstantsOK
  DEF Working, States, TypeOK, HasJob, InFlight, CallInv, StagesAgree, ClosedIsFree,
      CloserIsClosing, NewJob, Open
<1>7. o.at = "fetching" /\ (uncertain' \/ closing) => o.stop
  BY <1>1, <1>2, <1>4 DEF Working, Open
<1> HIDE DEF o, k
<1>8. job'[c] = o /\ call'[c] = k /\ closing' = closing
  BY <1>1, <1>3
<1>9. CallInv(c)'
  <2>1. StagesAgree(c)' /\ GoodEndIsWhole(c)'
    BY <1>1, <1>4, <1>5, <1>8
    DEF Working, CallInv, StagesAgree, GoodEndIsWhole, NewJob, StopsHaveReasons,
        InFlight, Present
  <2>2. StopsHaveReasons(c)'
    BY <1>1, <1>4, <1>5, <1>8
    DEF Working, CallInv, StopsHaveReasons, StagesAgree, Present, HasJob, InFlight,
        NewJob
  <2>3. ChunksAreKept(c)'
    BY <1>1, <1>4, <1>5, <1>8
    DEF Working, CallInv, StagesAgree, ChunksAreKept, Accounted, Pending,
        StopsHaveReasons, NewJob
  <2> QED
    BY <2>1, <2>2, <2>3 DEF CallInv
<1> QED
  BY <1>3, <1>4, <1>5, <1>6, <1>7, <1>9, JobStepInv

\* The thread outlives the deadline of its job.
LEMMA JobDeadlineIInv ==
  ASSUME IInv, NEW c \in Calls, JobDeadline(c)
  PROVE  IInv'
<1> DEFINE o == [job[c] EXCEPT !.at = "late", !.stop = TRUE]
           k == call[c]
<1>1. /\ job[c] \in Job /\ call[c] \in Call /\ CallInv(c)
      /\ HasJob(c) <=> slot = c
      /\ InFlight(c) => job[c].at \in {"running", "late"}
      /\ job \in [Calls -> Job] /\ call \in [Calls -> Call]
  BY Known
<1>2. TypeOK /\ UnbornIsStopped /\ CloserIsClosing /\ ClosedIsFree
  BY DEF IInv, SlotInv
<1>3. /\ job' = [job EXCEPT ![c] = o] /\ call' = [call EXCEPT ![c] = k]
      /\ UNCHANGED <<loaded, closing, closer>>
  BY <1>1 DEF JobDeadline, DeadlinePasses
<1>4. /\ o \in Job
      /\ o.at = "late" /\ o.stop = TRUE /\ o.failed = job[c].failed /\ o.thread = job[c].thread
      /\ o.put = job[c].put /\ o.queue = job[c].queue /\ o.made = job[c].made
  BY <1>1 DEF JobDeadline, DeadlinePasses, Job, Working, CallInv, StagesAgree, NewJob
<1>5. k \in Call /\ k.at = call[c].at /\ k.heard = call[c].heard /\ k.kind = call[c].kind
  BY <1>1 DEF Call
<1>6. /\ uncertain' \in BOOLEAN /\ state' \in States
      /\ \/ slot' = c /\ (slot = c \/ slot = NoCall)
         \/ slot' = NoCall /\ slot = c
      /\ o.at \in {"fetching", "running", "late"} <=> slot' = c
      /\ o.thread \in Working => o.at \in {"running", "late"}
      /\ uncertain => uncertain'
      /\ uncertain' => uncertain \/ slot' = c
      /\ closer = "closed" => UNCHANGED <<slot, uncertain>>
  BY <1>1, <1>2, <1>4, ConstantsOK
  DEF JobDeadline, DeadlinePasses, States, TypeOK, HasJob, InFlight, CallInv,
      StagesAgree, ClosedIsFree, Working, CloserIsClosing, NewJob, Open
<1>7. o.at = "fetching" /\ (uncertain' \/ closing) => o.stop
  BY <1>1, <1>2, <1>4 DEF JobDeadline, DeadlinePasses, Open
<1> HIDE DEF o, k
<1>8. job'[c] = o /\ call'[c] = k /\ closing' = closing
  BY <1>1, <1>3
<1>9. CallInv(c)'
  <2>1. StagesAgree(c)' /\ GoodEndIsWhole(c)'
    BY <1>1, <1>4, <1>5, <1>8
    DEF JobDeadline, DeadlinePasses, CallInv, StagesAgree, GoodEndIsWhole, NewJob,
        StopsHaveReasons, InFlight, Working, Present
  <2>2. StopsHaveReasons(c)'
    <3>1. ~Present(c)'
      BY <1>5, <1>8 DEF JobDeadline, DeadlinePasses, Present
    <3>2. job'[c].stop /\ job'[c].at = "late"
      BY <1>4, <1>8
    <3> QED
      BY <3>1, <3>2 DEF StopsHaveReasons
  <2>3. ChunksAreKept(c)'
    BY <1>1, <1>4, <1>5, <1>8
    DEF JobDeadline, DeadlinePasses, CallInv, StagesAgree, ChunksAreKept, Accounted,
        Pending, StopsHaveReasons, NewJob
  <2> QED
    BY <2>1, <2>2, <2>3 DEF CallInv
<1> QED
  BY <1>3, <1>4, <1>5, <1>6, <1>7, <1>9, JobStepInv

\* The steps that take the lock.
LEMMA AdmitIInv ==
  ASSUME IInv, NEW c \in Calls, Admit(c)
  PROVE  IInv'
<1>1. CASE Open
  BY <1>1, AdmitServes
<1>2. CASE ~Open
  BY <1>2, AdmitRefuses DEF Admit
<1> QED
  BY <1>1, <1>2

\* The reference is there, or the job is over.
LEMMA FetchIInv ==
  ASSUME IInv, NEW c \in Calls, FetchReference(c)
  PROVE  IInv'
<1>1. slot = c /\ ~InFlight(c)
  BY Known DEF FetchReference, HasJob
<1>2. ~job[c].stop => ~uncertain /\ closer \notin {"streams", "waiting", "closed", "failed"}
  BY DEF FetchReference, IInv, SlotInv, UnbornIsStopped
<1>3. CASE Release(c, TRUE)
  BY <1>1, <1>3, ReleaseIInv DEF FetchReference
<1>4. CASE job[c].stop /\ Release(c, FALSE)
  BY <1>1, <1>4, ReleaseIInv DEF FetchReference
<1>5. CASE /\ ~job[c].stop
           /\ job' = [job EXCEPT ![c].at = "running", ![c].thread = "begins"]
           /\ UNCHANGED <<slot, state>>
  BY <1>2, <1>5, ThreadBeginsIInv DEF FetchReference
<1> QED
  BY <1>3, <1>4, <1>5 DEF FetchReference

\* The job ends with its thread.
LEMMA JobEndsIInv ==
  ASSUME IInv, NEW c \in Calls, JobEnds(c)
  PROVE  IInv'
<1> DEFINE failed == job[c].thread = "raised"
<1>1. slot = c /\ ~InFlight(c)
  BY Known DEF JobEnds, ThreadEnded, HasJob
<1>2. CallInv(c) /\ job[c] \in Job
  BY Known
<1>3. failed \/ job[c].stop \/ job[c].thread = "whole"
  BY <1>1, <1>2
  DEF JobEnds, CallInv, StagesAgree, StopsHaveReasons, InFlight, Job, Working
<1>4. failed \in BOOLEAN /\ Release(c, failed)
  BY DEF JobEnds
<1>5. UNCHANGED <<loaded, uncertain, closing, closer, call>>
  BY DEF JobEnds
<1> HIDE DEF failed
<1> QED
  BY <1>1, <1>3, <1>4, <1>5, ReleaseIInv

-----------------------------------------------------------------------------
(* The steps of close.                                                     *)

\* Once close has begun, what CallInv says of a call only becomes weaker.
LEMMA CloseFrame ==
  ASSUME IInv, UNCHANGED <<call, job>>, closing => closing'
  PROVE  \A c \in Calls : CallInv(c)'
<1> SUFFICES ASSUME NEW c \in Calls PROVE CallInv(c)'
  OBVIOUS
<1>1. CallInv(c)
  BY Known
<1> QED
  BY <1>1
  DEF CallInv, StagesAgree, StopsHaveReasons, ChunksAreKept, GoodEndIsWhole, Present,
      HasJob, Pending, Accounted

\* aclose() refuses new calls.
LEMMA CloseBeginsIInv ==
  ASSUME IInv, CloseBegins
  PROVE  IInv'
<1>1. TypeOK'
  BY DEF IInv, TypeOK, CloseBegins
<1>2. SlotInv'
  BY
  DEF IInv, SlotInv, CloseBegins, JobHoldsSlot, ThreadHasJob, UnbornIsStopped,
      CloserIsClosing, ClosedIsFree, FailedIsUncertain, HasJob, InFlight
<1>3. \A c \in Calls : CallInv(c)'
  BY CloseFrame DEF CloseBegins
<1> QED
  BY <1>1, <1>2, <1>3 DEF IInv

\* Only the job in the slot could be without a thread yet.
LEMMA CloseStopsIInv ==
  ASSUME IInv, CloseStopsJob
  PROVE  IInv'
<1>1. closing /\ closer = "stopping" /\ closer' = "streams"
      /\ UNCHANGED <<loaded, slot, uncertain, closing, call>>
  BY DEF IInv, SlotInv, CloserIsClosing, CloseStopsJob
<1>2. CASE slot = NoCall /\ UNCHANGED <<job, state>>
  <2>1. TypeOK'
    BY <1>1, <1>2 DEF IInv, TypeOK
  <2>2. \A c \in Calls : job[c].at # "fetching"
    BY <1>2, Known, ConstantsOK DEF HasJob
  <2>3. SlotInv'
    BY <1>1, <1>2, <2>2
    DEF IInv, SlotInv, JobHoldsSlot, ThreadHasJob, UnbornIsStopped, CloserIsClosing,
        ClosedIsFree, FailedIsUncertain, HasJob, InFlight
  <2>4. \A c \in Calls : CallInv(c)'
    BY <1>1, <1>2, CloseFrame
  <2> QED
    BY <2>1, <2>3, <2>4 DEF IInv
<1>3. CASE slot # NoCall /\ Stop(slot)
  <2> DEFINE o == [job[slot] EXCEPT !.stop = TRUE]
  <2>1. slot \in Calls
    BY <1>3 DEF IInv, TypeOK
  <2>2. job[slot] \in Job /\ call[slot] \in Call /\ CallInv(slot)
        /\ job \in [Calls -> Job] /\ call \in [Calls -> Call]
    BY <2>1, Known
  <2>3. job' = [job EXCEPT ![slot] = o] /\ call' = [call EXCEPT ![slot] = call[slot]]
    BY <1>1, <1>3, <2>2 DEF Stop
  <2>4. /\ o \in Job
        /\ o.at = job[slot].at /\ o.stop = TRUE /\ o.failed = job[slot].failed
        /\ o.thread = job[slot].thread /\ o.put = job[slot].put
        /\ o.queue = job[slot].queue /\ o.made = job[slot].made
    BY <2>2 DEF Job
  <2> HIDE DEF o
  <2>5. /\ job' \in [Calls -> Job] /\ job'[slot] = o
        /\ \A d \in Calls \ {slot} : job'[d] = job[d] /\ call'[d] = call[d] /\ CallInv(d)'
    <3>1. UNCHANGED closing
      BY <1>1
    <3> QED
      BY <2>1, <2>2, <2>3, <2>4, <3>1, OneCall
  <2>6. CallInv(slot)'
    <3>1. HasJob(slot)
      BY <2>1, Known
    <3>2. /\ job'[slot].at = job[slot].at /\ job'[slot].thread = job[slot].thread
          /\ job'[slot].put = job[slot].put /\ job'[slot].queue = job[slot].queue
          /\ job'[slot].made = job[slot].made /\ job'[slot].stop = TRUE
          /\ slot' = slot /\ call' = call /\ closing' = TRUE
      BY <1>1, <2>4, <2>5
    <3>3. call[slot].at # "queued"
      BY <2>2, <3>1 DEF CallInv, StagesAgree, HasJob, NewJob
    <3>4. StagesAgree(slot)'
      BY <2>2, <3>2, <3>3 DEF CallInv, StagesAgree
    <3>5. StopsHaveReasons(slot)' /\ GoodEndIsWhole(slot)'
      BY <3>2 DEF StopsHaveReasons, GoodEndIsWhole
    <3>6. ChunksAreKept(slot)'
      BY <2>2, <3>2 DEF CallInv, ChunksAreKept, Accounted, Pending
    <3> QED
      BY <3>4, <3>5, <3>6 DEF CallInv
  <2>7. \A c \in Calls : CallInv(c)'
    <3>1. ASSUME NEW c \in Calls PROVE CallInv(c)'
      <4>1. CASE c = slot
        <5>1. slot' = slot
          BY <1>1
        <5> QED
          BY <2>6, <4>1, <5>1
          DEF CallInv, StagesAgree, StopsHaveReasons, ChunksAreKept, GoodEndIsWhole,
              Present, HasJob, Pending, Accounted
      <4>2. CASE c # slot
        BY <2>5, <4>2
      <4> QED
        BY <4>1, <4>2
    <3> QED
      BY <3>1
  <2>8. TypeOK'
    BY <1>1, <1>3, <2>5 DEF IInv, TypeOK, Stop
  <2>9. \A c \in Calls : job'[c].at = job[c].at /\ job'[c].thread = job[c].thread
    BY <2>4, <2>5
  <2>10. JobHoldsSlot' /\ ThreadHasJob'
    BY <1>1, <2>9 DEF IInv, SlotInv, JobHoldsSlot, ThreadHasJob, HasJob, InFlight
  <2>11. UnbornIsStopped'
    <3> SUFFICES ASSUME NEW c \in Calls, job'[c].at = "fetching" PROVE job'[c].stop
      BY DEF UnbornIsStopped
    <3>1. slot = c
      BY <2>9, Known DEF HasJob
    <3> QED
      BY <2>4, <2>5, <3>1
  <2>12. CloserIsClosing' /\ ClosedIsFree' /\ FailedIsUncertain'
    BY <1>1 DEF IInv, SlotInv, CloserIsClosing, ClosedIsFree, FailedIsUncertain
  <2> QED
    BY <2>7, <2>8, <2>10, <2>11, <2>12 DEF IInv, SlotInv
<1> QED
  BY <1>2, <1>3 DEF CloseStopsJob

\* close() waits, then settles.
LEMMA CloseAwaitsIInv ==
  ASSUME IInv, CloseEndedStreams \/ CloseSettles
  PROVE  IInv'
<1>1. closer \in {"streams", "waiting"} /\ UNCHANGED <<loaded, slot, uncertain, closing, call, job>>
  BY DEF CloseEndedStreams, CloseSettles
<1>2. TypeOK'
  BY <1>1 DEF IInv, TypeOK, CloseEndedStreams, CloseSettles
<1>3. JobHoldsSlot' /\ ThreadHasJob' /\ UnbornIsStopped'
  BY <1>1
  DEF IInv, SlotInv, JobHoldsSlot, ThreadHasJob, UnbornIsStopped, HasJob, InFlight
<1>4. CloserIsClosing' /\ ClosedIsFree' /\ FailedIsUncertain'
  BY <1>1
  DEF IInv, SlotInv, CloserIsClosing, ClosedIsFree, FailedIsUncertain,
      CloseEndedStreams, CloseSettles, JobAwaited
<1>5. \A c \in Calls : CallInv(c)'
  BY <1>1, CloseFrame
<1> QED
  BY <1>2, <1>3, <1>4, <1>5 DEF IInv, SlotInv

\* close() runs out of time.
LEMMA CloseTimesOutIInv ==
  ASSUME IInv, CloseTimesOut
  PROVE  IInv'
<1>1. closer \in {"streams", "waiting"} /\ uncertain' = TRUE /\ closer' = "failed"
      /\ UNCHANGED <<loaded, slot, closing, call, job>>
  BY DEF CloseTimesOut, CloseRunsOut
<1>2. TypeOK'
  BY <1>1 DEF IInv, TypeOK, CloseTimesOut
<1>3. JobHoldsSlot' /\ ThreadHasJob' /\ UnbornIsStopped'
  BY <1>1
  DEF IInv, SlotInv, JobHoldsSlot, ThreadHasJob, UnbornIsStopped, HasJob, InFlight
<1>4. CloserIsClosing' /\ ClosedIsFree' /\ FailedIsUncertain'
  BY <1>1 DEF IInv, SlotInv, CloserIsClosing, ClosedIsFree, FailedIsUncertain
<1>5. \A c \in Calls : CallInv(c)'
  BY <1>1, CloseFrame
<1> QED
  BY <1>2, <1>3, <1>4, <1>5 DEF IInv, SlotInv

-----------------------------------------------------------------------------
\* Every step keeps the invariant.
LEMMA NextIInv == IInv /\ [Next]_vars => IInv'
<1> SUFFICES ASSUME IInv, [Next]_vars PROVE IInv'
  OBVIOUS
<1>1. CASE UNCHANGED vars
  BY <1>1
  DEF vars, IInv, TypeOK, SlotInv, JobHoldsSlot, ThreadHasJob, UnbornIsStopped,
      CloserIsClosing, ClosedIsFree, FailedIsUncertain, HasJob, InFlight, CallInv,
      StagesAgree, StopsHaveReasons, ChunksAreKept, GoodEndIsWhole, Present, Pending,
      Accounted
<1>2. CASE CloseBegins \/ CloseStep \/ CloseTimesOut
  BY <1>2, CloseBeginsIInv, CloseStopsIInv, CloseAwaitsIInv, CloseTimesOutIInv
  DEF CloseStep
<1>3. ASSUME NEW c \in Calls, \E kind \in {"prepare", "speech"} : Request(c, kind) PROVE IInv'
  BY <1>3, RequestIInv
<1>4. ASSUME NEW c \in Calls, CallStep(c) PROVE IInv'
  BY <1>4, AdmitIInv, ConsumeIInv, ReturnOk, ReturnFailed DEF CallStep
<1>5. ASSUME NEW c \in Calls, Leave(c) \/ CloseEndsStream(c) PROVE IInv'
  BY <1>5, LeavingIInv DEF Leave, CloseEndsStream, MayLeave, Streaming
<1>6. ASSUME NEW c \in Calls, JobStep(c) \/ JobDeadline(c) PROVE IInv'
  BY <1>6, FetchIInv, JobEndsIInv, JobDeadlineIInv DEF JobStep
<1>7. ASSUME NEW c \in Calls, ThreadStep(c) \/ ThreadPolls(c) PROVE IInv'
  BY <1>7, ThreadIInv
<1>8. ASSUME NEW c \in Calls, LoopPuts(c) PROVE IInv'
  BY <1>8, LoopPutsIInv
<1> QED
  BY <1>1, <1>2, <1>3, <1>4, <1>5, <1>6, <1>7, <1>8 DEF Next

\* The inductive invariant holds in every reachable state of the provider.
THEOREM InductiveInvariant == Spec => []IInv
  BY InitIInv, NextIInv, PTL DEF Spec

\* The slot of _run_job covers the thread until it ends, whoever has left and
\* whatever deadline has passed.
THEOREM SlotSafety == Spec => []ThreadOwnsSlot
<1>1. IInv => ThreadOwnsSlot
  BY Known DEF ThreadOwnsSlot, HasJob
<1> QED
  BY <1>1, InductiveInvariant, PTL

\* A stream that _consume ends without an error has heard every chunk.
THEOREM SpeechIsWhole == Spec => []WholeSpeech
<1>1. IInv => WholeSpeech
  <2> SUFFICES ASSUME IInv, NEW c \in Calls, call[c].at = "ok", ~closing
               PROVE  job[c].thread = "whole" /\ call[c].heard = job[c].made
    BY DEF WholeSpeech
  <2>1. CallInv(c) /\ call[c] \in Call
    BY Known
  <2>2. job[c].thread = "whole" /\ job[c].queue = 0 /\ job[c].put = "none"
    BY <2>1 DEF CallInv, GoodEndIsWhole, StagesAgree
  <2>3. Accounted(c) = job[c].made /\ Accounted(c) = call[c].heard
    BY <2>1, <2>2 DEF CallInv, ChunksAreKept, Accounted, Pending, Call
  <2> QED
    BY <2>2, <2>3
<1> QED
  BY <1>1, InductiveInvariant, PTL

\* Whoever leaves a job has stopped it.
THEOREM AbandonedJobsStop == Spec => []AbandonedIsStopped
<1>1. IInv => AbandonedIsStopped
  <2> SUFFICES ASSUME IInv, slot # NoCall PROVE Present(slot) \/ job[slot].stop
    BY DEF AbandonedIsStopped
  <2>1. slot \in Calls
    BY DEF IInv, TypeOK
  <2> QED
    BY <2>1, Known DEF CallInv, StopsHaveReasons
<1> QED
  BY <1>1, InductiveInvariant, PTL

-----------------------------------------------------------------------------
(* The state tells the truth about the job.                                *)

\* The state and the slot stay; the job in the slot is stopped or not as before.
LEMMA StateFrame ==
  ASSUME IInv, StateInv, UNCHANGED <<state, slot, uncertain>>, closing => closing',
         slot # NoCall => job'[slot].stop = job[slot].stop,
         \A c \in Calls : call'[c].at = "served" /\ job'[c].at = "none" =>
           call[c].at = "served" /\ job[c].at = "none"
  PROVE  StateInv'
  BY DEF StateInv, StateIsTrue

\* The record of one job is replaced, but for where its task and its stop stand.
LEMMA JobFrame ==
  ASSUME IInv, StateInv, UNCHANGED <<state, slot, uncertain, closing>>,
         NEW c \in Calls, NEW o, job' = [job EXCEPT ![c] = o],
         o.at = job[c].at, o.stop = job[c].stop,
         \A d \in Calls : call'[d].at = "served" => call[d].at = "served"
  PROVE  StateInv'
<1>1. \A d \in Calls : job'[d].at = job[d].at /\ job'[d].stop = job[d].stop
  BY Known
<1>2. slot # NoCall => slot \in Calls
  BY DEF IInv, TypeOK
<1>3. QED
  BY <1>1, <1>2, StateFrame

\* A call without a job, or with one that is over, changes.
LEMMA CallFrame ==
  ASSUME IInv, StateInv, UNCHANGED <<state, slot, uncertain, closing, job>>,
         NEW c \in Calls, NEW v, v # "served", call' = [call EXCEPT ![c].at = v]
  PROVE  StateInv'
<1>1. \A d \in Calls : call'[d].at = "served" => call[d].at = "served"
  BY Known DEF Call
<1>2. QED
  BY <1>1, StateFrame

\* _stop of the job in the slot.
LEMMA StopIsTrue ==
  ASSUME IInv, StateInv, UNCHANGED <<slot, uncertain, closing>>,
         NEW c \in Calls, HasJob(c), Stop(c),
         \A d \in Calls : call'[d].at = "served" => call[d].at = "served"
  PROVE  StateInv'
<1>1. /\ slot = c /\ slot # NoCall
      /\ job[c].at # "done"
  BY Known, ConstantsOK DEF HasJob
<1>2. job'[c].stop = TRUE /\ \A d \in Calls : job'[d].at = job[d].at
  BY Known DEF Stop, Job
<1>3. state' = IF ~uncertain THEN "draining" ELSE state
  BY <1>1 DEF Stop
<1>4. QED
  BY <1>1, <1>2, <1>3 DEF StateInv, StateIsTrue

LEMMA LeavingIsTrue ==
  ASSUME IInv, StateInv, NEW c \in Calls, call' = [call EXCEPT ![c].at = "left"], Abandon(c),
         UNCHANGED <<slot, uncertain, closing>>
  PROVE  StateInv'
<1>1. \A d \in Calls : call'[d].at = "served" => call[d].at = "served"
  BY Known DEF Call
<1>2. CASE call[c].at = "served" /\ job[c].at # "done" /\ Stop(c)
  <2>1. HasJob(c)
    BY <1>2, Known DEF HasJob, Job, StateInv
  <2>2. QED
    BY <1>1, <1>2, <2>1, StopIsTrue
<1>3. CASE UNCHANGED <<job, state>>
  BY <1>3, CallFrame
<1>4. QED
  BY <1>2, <1>3 DEF Abandon

LEMMA CallIsTrue ==
  ASSUME IInv, StateInv, NEW c \in Calls,
         CallStep(c) \/ \E kind \in {"prepare", "speech"} : Request(c, kind)
  PROVE  StateInv'
<1>0. /\ job \in [Calls -> Job] /\ call \in [Calls -> Call] /\ job[c] \in Job /\ call[c] \in Call
      /\ NoCall \notin Calls
  BY Known, ConstantsOK
<1>1. ASSUME NEW kind \in {"prepare", "speech"}, Request(c, kind)
      PROVE  StateInv'
  <2>1. slot # c
    BY <1>1, Known DEF Request, HasJob
  <2>2. \A d \in Calls : d # c => job'[d] = job[d] /\ call'[d] = call[d]
    BY <1>0, <1>1 DEF Request
  <2>3. call'[c].at = "queued"
    BY <1>0, <1>1 DEF Request, NewCall
  <2>4. slot # NoCall => slot \in Calls
    BY DEF IInv, TypeOK
  <2>5. UNCHANGED <<state, slot, uncertain, closing>>
    BY <1>1 DEF Request
  <2>6. QED
    BY <2>1, <2>2, <2>3, <2>4, <2>5, StateFrame
<1>2. CASE Admit(c)
  <2>1. CASE Open /\ slot' = c /\ state' = "active"
    <3>1. /\ call' = [call EXCEPT ![c].at = "served"] /\ job' = [job EXCEPT ![c].at = "fetching"]
          /\ UNCHANGED <<uncertain, closing>> /\ ~uncertain /\ job[c] = NewJob("none")
      BY <1>2, <2>1, Known DEF Admit, Open, CallInv, StagesAgree
    <3>2. job'[c].stop = FALSE /\ job'[c].at = "fetching"
      BY <1>0, <3>1 DEF Job, NewJob
    <3>3. \A d \in Calls : d # c => job'[d] = job[d] /\ call'[d] = call[d]
      BY <1>0, <3>1
    <3>4. QED
      BY <1>0, <2>1, <3>1, <3>2, <3>3 DEF StateInv, StateIsTrue
  <2>2. CASE call' = [call EXCEPT ![c].at = "failed"] /\ UNCHANGED <<slot, state, job>>
    BY <1>2, <2>2, CallFrame DEF Admit
  <2>3. QED
    BY <1>2, <2>1, <2>2 DEF Admit
<1>3. CASE Consume(c)
  <2>. DEFINE o == [job[c] EXCEPT !.queue = @ - 1]
  <2>1. o.at = job[c].at /\ o.stop = job[c].stop
    BY <1>0 DEF Job
  <2>2. \A d \in Calls : call'[d].at = call[d].at
    BY <1>0, <1>3 DEF Consume, Call
  <2>3. job' = [job EXCEPT ![c] = o] /\ UNCHANGED <<state, slot, uncertain, closing>>
    BY <1>3 DEF Consume
  <2>. HIDE DEF o
  <2>4. QED
    BY <2>1, <2>2, <2>3, JobFrame
<1>4. CASE CallReturns(c)
  <2>1. PICK v \in {"failed", "ok"} : call' = [call EXCEPT ![c].at = v]
    BY <1>4 DEF CallReturns
  <2>2. QED
    BY <1>4, <2>1, CallFrame DEF CallReturns
<1>5. QED
  BY <1>1, <1>2, <1>3, <1>4 DEF CallStep

LEMMA ThreadIsTrue ==
  ASSUME IInv, StateInv, NEW c \in Calls, ThreadStep(c) \/ LoopPuts(c) \/ ThreadPolls(c)
  PROVE  StateInv'
<1>0. job \in [Calls -> Job] /\ job[c] \in Job
  BY Known
<1>1. UNCHANGED <<state, slot, uncertain, closing, call>>
  BY DEF ThreadStep, ThreadStops, ThreadLoads, ThreadChecks, ThreadGenerates, LoopPuts, ThreadPolls
<1>2. \A d \in Calls : job'[d].at = job[d].at /\ job'[d].stop = job[d].stop
  <2>1. CASE ThreadStops(c) \/ ThreadLoads(c) \/ ThreadChecks(c)
    BY <1>0, <2>1 DEF ThreadStops, ThreadLoads, ThreadChecks, Job
  <2>2. CASE ThreadGenerates(c)
    BY <1>0, <2>2 DEF ThreadGenerates, Job
  <2>3. CASE LoopPuts(c)
    BY <1>0, <2>3 DEF LoopPuts, Job
  <2>4. CASE ThreadPolls(c)
    BY <1>0, <2>4 DEF ThreadPolls, Job
  <2>5. QED
    BY <2>1, <2>2, <2>3, <2>4 DEF ThreadStep
<1>3. slot # NoCall => slot \in Calls
  BY DEF IInv, TypeOK
<1>4. QED
  BY <1>1, <1>2, <1>3, StateFrame

\* The end of the task of a job.
LEMMA ReleaseIsTrue ==
  ASSUME IInv, StateInv, NEW c \in Calls, NEW failed \in BOOLEAN, Release(c, failed),
         UNCHANGED <<uncertain, closing, call>>, HasJob(c)
  PROVE  StateInv'
<1>0. job \in [Calls -> Job] /\ job[c] \in Job /\ slot = c /\ NoCall \notin Calls
  BY Known, ConstantsOK
<1>1. \A d \in Calls : job'[d].at = (IF d = c THEN "done" ELSE job[d].at)
  BY <1>0 DEF Release, Job
<1>2. state # "closed" /\ slot' = NoCall
  BY <1>0 DEF StateInv, StateIsTrue, Release
<1>3. state' = IF uncertain THEN state ELSE IF closing THEN "draining" ELSE "idle"
  BY DEF Release, StateAfterJob
<1>4. QED
  BY <1>1, <1>2, <1>3 DEF StateInv, StateIsTrue

LEMMA JobIsTrue ==
  ASSUME IInv, StateInv, NEW c \in Calls, JobStep(c) \/ JobDeadline(c)
  PROVE  StateInv'
<1>0. job \in [Calls -> Job] /\ job[c] \in Job
  BY Known
<1>1. CASE \E failed \in BOOLEAN : Release(c, failed) /\ JobStep(c)
  BY <1>1, ReleaseIsTrue DEF JobStep, FetchReference, JobEnds, HasJob
<1>2. CASE /\ FetchReference(c) /\ UNCHANGED <<slot, state>>
           /\ job' = [job EXCEPT ![c].at = "running", ![c].thread = "begins"]
  <2>1. \A d \in Calls : /\ job'[d].stop = job[d].stop
                         /\ job'[d].at = (IF d = c THEN "running" ELSE job[d].at)
    BY <1>0, <1>2 DEF Job
  <2>2. UNCHANGED <<uncertain, closing, call, slot, state>>
    BY <1>2 DEF FetchReference
  <2>3. QED
    BY <2>1, <2>2, StateFrame DEF IInv, TypeOK
<1>3. CASE JobDeadline(c)
  <2>1. \A d \in Calls : job'[d].at = (IF d = c THEN "late" ELSE job[d].at)
    BY <1>0, <1>3 DEF JobDeadline, Job
  <2>2. uncertain' = TRUE /\ state' = "uncertain" /\ UNCHANGED <<closing, call>>
    BY <1>3 DEF JobDeadline
  <2>3. QED
    BY <2>1, <2>2 DEF StateInv, StateIsTrue
<1>4. QED
  BY <1>1, <1>2, <1>3 DEF JobStep, FetchReference, JobEnds

LEMMA CloseIsTrue ==
  ASSUME IInv, StateInv, CloseBegins \/ CloseStep \/ CloseTimesOut
  PROVE  StateInv'
<1>1. CASE CloseBegins \/ CloseEndedStreams
  BY <1>1, StateFrame DEF CloseBegins, CloseEndedStreams
<1>2. CASE CloseStopsJob /\ slot # NoCall /\ Stop(slot)
  <2>1. slot \in Calls
    BY <1>2 DEF IInv, TypeOK
  <2>2. QED
    BY <1>2, <2>1, Known, StopIsTrue DEF CloseStopsJob
<1>3. CASE CloseStopsJob /\ UNCHANGED <<job, state>>
  BY <1>3, StateFrame DEF CloseStopsJob
<1>4. CASE CloseSettles
  <2>1. slot = NoCall /\ closing
    BY <1>4 DEF CloseSettles, JobAwaited, IInv, SlotInv, CloserIsClosing
  <2>2. QED
    BY <1>4, <2>1 DEF CloseSettles, StateInv, StateIsTrue
<1>5. CASE CloseTimesOut
  BY <1>5 DEF CloseTimesOut, StateInv, StateIsTrue
<1>6. QED
  BY <1>1, <1>2, <1>3, <1>4, <1>5 DEF CloseStep, CloseStopsJob

\* What the worker reports: "idle" and "closed" leave nothing behind, "active" has
\* a job that nobody has stopped, and "uncertain" is for good (FastQwenTTS.state).
THEOREM StateSafety == Spec => []StateIsTrue
<1>1. Init => StateInv
  BY DEF Init, StateInv, StateIsTrue, NewCall, NewJob
<1>2. IInv /\ StateInv /\ [Next]_vars => StateInv'
  <2>. SUFFICES ASSUME IInv, StateInv, [Next]_vars PROVE StateInv'
    OBVIOUS
  <2>1. CASE UNCHANGED vars
    BY <2>1 DEF vars, StateInv, StateIsTrue
  <2>2. CASE CloseBegins \/ CloseStep \/ CloseTimesOut
    BY <2>2, CloseIsTrue
  <2>3. ASSUME NEW c \in Calls, Leave(c) \/ CloseEndsStream(c)
        PROVE  StateInv'
    BY <2>3, LeavingIsTrue DEF Leave, CloseEndsStream
  <2>4. ASSUME NEW c \in Calls,
               CallStep(c) \/ \E kind \in {"prepare", "speech"} : Request(c, kind)
        PROVE  StateInv'
    BY <2>4, CallIsTrue
  <2>5. ASSUME NEW c \in Calls, JobStep(c) \/ JobDeadline(c)
        PROVE  StateInv'
    BY <2>5, JobIsTrue
  <2>6. ASSUME NEW c \in Calls, ThreadStep(c) \/ LoopPuts(c) \/ ThreadPolls(c)
        PROVE  StateInv'
    BY <2>6, ThreadIsTrue
  <2>7. QED
    BY <2>1, <2>2, <2>3, <2>4, <2>5, <2>6 DEF Next
<1>3. StateInv => StateIsTrue
  BY DEF StateInv
<1>4. QED
  BY <1>1, <1>2, <1>3, InductiveInvariant, PTL DEF Spec

-----------------------------------------------------------------------------
(* The provider implements OwnedInference.                                 *)

\* The verdict of close, as the abstract specification sees it.
LEMMA VerdictIs ==
  ASSUME TypeOK
  PROVE  /\ Inference!Init <=> /\ {c \in Calls : InFlight(c)} = {}
                               /\ uncertain = FALSE
                               /\ closer \notin {"closed", "failed"}
  BY DEF Inference!Init, TypeOK

\* Initial states map to initial states.
LEMMA InitImplements == Init => Inference!Init
<1> SUFFICES ASSUME Init PROVE Inference!Init
  OBVIOUS
<1>1. \A c \in Calls : ~InFlight(c)
  BY DEF Init, InFlight, NewJob, Working
<1> QED
  BY <1>1, InitIInv, VerdictIs DEF IInv, Init

\* A step in which the inferences, the doubt and the verdict stay as they are.
LEMMA Stutter ==
  ASSUME \A c \in Calls : InFlight(c)' <=> InFlight(c), UNCHANGED uncertain,
         \/ closer' \notin {"closed", "failed"} /\ closer \notin {"closed", "failed"}
         \/ UNCHANGED closer
  PROVE  UNCHANGED Inference!inference
<1>1. {c \in Calls : InFlight(c)}' = {c \in Calls : InFlight(c)}
  OBVIOUS
<1> QED
  BY <1>1 DEF Inference!inference

\* A step that starts no thread, and of the threads ends at most that of c.
LEMMA NoThreadBegins ==
  ASSUME NEW c \in Calls, UNCHANGED <<uncertain, closer>>,
         \A d \in Calls \ {c} : job'[d].thread = job[d].thread,
         InFlight(c)' => InFlight(c)
  PROVE  [Inference!Next]_Inference!inference
<1>1. CASE InFlight(c)' <=> InFlight(c)
  BY <1>1, Stutter DEF InFlight
<1>2. CASE InFlight(c) /\ ~InFlight(c)'
  <2>1. {d \in Calls : InFlight(d)}' = {d \in Calls : InFlight(d)} \ {c}
    BY <1>2 DEF InFlight
  <2>2. c \in {d \in Calls : InFlight(d)}
    BY <1>2
  <2>3. Inference!End(c)
    BY <2>1, <2>2 DEF Inference!End
  <2> QED
    BY <2>3 DEF Inference!Next
<1> QED
  BY <1>1, <1>2

\* The steps of a call begin no inference.
LEMMA CallImplements ==
  ASSUME IInv, NEW c \in Calls,
         (\E kind \in {"prepare", "speech"} : Request(c, kind)) \/ CallStep(c) \/ LoopPuts(c)
  PROVE  [Inference!Next]_Inference!inference
<1>1. job \in [Calls -> Job] /\ (InFlight(c) => job[c].at \in {"running", "late"})
  BY Known
<1>2. CASE \E kind \in {"prepare", "speech"} : Request(c, kind)
  BY <1>1, <1>2, NoThreadBegins DEF Request, InFlight, NewJob, Working
<1>3. CASE Admit(c)
  BY <1>1, <1>3, NoThreadBegins DEF Admit, InFlight, Job
<1>4. CASE Consume(c)
  BY <1>1, <1>4, NoThreadBegins DEF Consume, InFlight, Job
<1>5. CASE CallReturns(c)
  BY <1>1, <1>5, NoThreadBegins DEF CallReturns, InFlight, Job
<1>6. CASE LoopPuts(c)
  BY <1>1, <1>6, NoThreadBegins DEF LoopPuts, InFlight, Job
<1> QED
  BY <1>2, <1>3, <1>4, <1>5, <1>6 DEF CallStep

\* A call that leaves ends no inference.
LEMMA LeaveImplements ==
  ASSUME IInv, NEW c \in Calls, Leave(c) \/ CloseEndsStream(c)
  PROVE  [Inference!Next]_Inference!inference
<1>1. job \in [Calls -> Job]
  BY Known
<1>2. Abandon(c) /\ UNCHANGED <<uncertain, closer>>
  BY DEF Leave, CloseEndsStream
<1>3. \A d \in Calls : job'[d].thread = job[d].thread
  BY <1>1, <1>2 DEF Abandon, Stop, Job
<1> QED
  BY <1>2, <1>3, NoThreadBegins DEF InFlight

\* A step of a thread ends its inference, or is a stutter.
LEMMA ThreadImplements ==
  ASSUME IInv, NEW c \in Calls, ThreadStep(c) \/ ThreadPolls(c)
  PROVE  [Inference!Next]_Inference!inference
<1>1. job \in [Calls -> Job] /\ InFlight(c) /\ UNCHANGED <<uncertain, closer>>
  BY Known
  DEF ThreadStep, ThreadStops, ThreadLoads, ThreadChecks, ThreadGenerates, ThreadPolls,
      InFlight, Working
<1>2. \A d \in Calls \ {c} : job'[d].thread = job[d].thread
  BY <1>1
  DEF ThreadStep, ThreadStops, ThreadLoads, ThreadChecks, ThreadGenerates, ThreadPolls
<1> QED
  BY <1>1, <1>2, NoThreadBegins

\* A thread begins when no other runs and nothing was lost sight of; a job that
\* outlives its deadline is the loss of sight.
LEMMA JobImplements ==
  ASSUME IInv, NEW c \in Calls, JobStep(c) \/ JobDeadline(c)
  PROVE  [Inference!Next]_Inference!inference
<1>1. job \in [Calls -> Job]
  BY Known
<1>2. CASE JobEnds(c)
  BY <1>1, <1>2, NoThreadBegins DEF JobEnds, Release, InFlight, Job
<1>3. CASE FetchReference(c)
  <2>1. CASE job' = [job EXCEPT ![c].at = "running", ![c].thread = "begins"] /\ ~job[c].stop
    <3>1. slot = c /\ ~uncertain /\ closer \notin {"closed", "failed"}
      BY <1>3, <2>1, Known DEF FetchReference, HasJob, IInv, SlotInv, UnbornIsStopped
    <3>2. \A d \in Calls : ~InFlight(d)
      BY <1>3, <3>1, Known DEF HasJob, FetchReference
    <3>3. job'[c].thread = "begins" /\ \A d \in Calls \ {c} : job'[d] = job[d]
      BY <1>1, <2>1 DEF Job
    <3>4. {d \in Calls : InFlight(d)} = {}
      BY <3>2
    <3>5. {d \in Calls : InFlight(d)}' = {c}
      BY <3>2, <3>3 DEF InFlight, Working
    <3>6. UNCHANGED <<uncertain, closer>>
      BY <1>3 DEF FetchReference
    <3>7. Inference!Begin(c)
      BY <3>1, <3>4, <3>5, <3>6 DEF Inference!Begin
    <3> QED
      BY <3>7 DEF Inference!Next
  <2>2. CASE Release(c, TRUE) \/ Release(c, FALSE)
    BY <1>1, <1>3, <2>2, NoThreadBegins DEF FetchReference, Release, InFlight, Job
  <2> QED
    BY <1>3, <2>1, <2>2 DEF FetchReference
<1>4. CASE JobDeadline(c)
  <2>1. \A d \in Calls : job'[d].thread = job[d].thread
    BY <1>1, <1>4 DEF JobDeadline, Job
  <2>2. uncertain' = TRUE /\ closer' = closer /\ closer # "closed"
    <3>1. slot = c
      BY <1>4, Known DEF JobDeadline, HasJob
    <3> QED
      BY <1>4, <3>1, ConstantsOK DEF JobDeadline, IInv, SlotInv, ClosedIsFree
  <2>3. {d \in Calls : InFlight(d)}' = {d \in Calls : InFlight(d)}
    BY <2>1 DEF InFlight
  <2>4. CASE closer = "failed"
    <3>1. uncertain' = uncertain
      BY <2>2, <2>4 DEF IInv, SlotInv, FailedIsUncertain, TypeOK
    <3> QED
      BY <2>1, <2>2, <3>1, Stutter DEF InFlight
  <2>5. CASE closer # "failed"
    <3>1. Inference!LoseSight({})
      BY <2>2, <2>3, <2>5 DEF Inference!LoseSight
    <3> QED
      BY <3>1 DEF Inference!Next
  <2> QED
    BY <2>4, <2>5
<1> QED
  BY <1>2, <1>3, <1>4 DEF JobStep

\* close() ends safe with nothing in flight, or unsafe.
LEMMA CloseImplements ==
  ASSUME IInv, CloseBegins \/ CloseStep \/ CloseTimesOut
  PROVE  [Inference!Next]_Inference!inference
<1>1. job \in [Calls -> Job]
  BY DEF IInv, TypeOK
<1>2. CASE CloseBegins \/ CloseEndedStreams
  BY <1>2, Stutter
  DEF CloseBegins, CloseEndedStreams, InFlight, IInv, SlotInv, CloserIsClosing
<1>3. CASE CloseStopsJob
  <2>1. \A d \in Calls : job'[d].thread = job[d].thread
    BY <1>1, <1>3 DEF CloseStopsJob, Stop, Job
  <2> QED
    BY <1>3, <2>1, Stutter DEF CloseStopsJob, InFlight
<1>4. CASE CloseSettles
  <2>1. \A d \in Calls : ~InFlight(d)
    BY <1>4, Known, ConstantsOK DEF CloseSettles, JobAwaited, HasJob
  <2>2. {d \in Calls : InFlight(d)} = {} /\ {d \in Calls : InFlight(d)}' = {}
    BY <1>4, <2>1 DEF CloseSettles, InFlight
  <2>3. Inference!Close
    BY <1>4, <2>2 DEF CloseSettles, Inference!Close, IInv, TypeOK
  <2> QED
    BY <2>3 DEF Inference!Next
<1>5. CASE CloseTimesOut
  <2>1. {d \in Calls : InFlight(d)}' = {d \in Calls : InFlight(d)}
    BY <1>5 DEF CloseTimesOut, InFlight
  <2>2. Inference!Close
    BY <1>5, <2>1 DEF CloseTimesOut, CloseRunsOut, Inference!Close
  <2> QED
    BY <2>2 DEF Inference!Next
<1> QED
  BY <1>2, <1>3, <1>4, <1>5 DEF CloseStep

\* Every step maps to a step or a stutter.
LEMMA StepImplements == IInv /\ [Next]_vars => [Inference!Next]_Inference!inference
<1> SUFFICES ASSUME IInv, [Next]_vars PROVE [Inference!Next]_Inference!inference
  OBVIOUS
<1>1. CASE UNCHANGED vars
  BY <1>1, Stutter DEF vars, InFlight
<1>2. CASE Next
  BY <1>2, CallImplements, LeaveImplements, ThreadImplements, JobImplements, CloseImplements
  DEF Next
<1> QED
  BY <1>1, <1>2

\* The provider keeps what OwnedInference promises: a worker whose aclose()
\* returned without an error may report a safe drain.
THEOREM Implementation == Spec => ImplementsInference
<1>1. Spec => Inference!Init /\ [][Inference!Next]_Inference!inference
  BY InitImplements, StepImplements, InductiveInvariant, PTL DEF Spec
<1> QED
  BY <1>1 DEF ImplementsInference, Inference!Spec
=============================================================================
