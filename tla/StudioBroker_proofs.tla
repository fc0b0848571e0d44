------------------------ MODULE StudioBroker_proofs ------------------------
(***************************************************************************)
(* Proofs of the safety of the Studio broker for every number of sessions, *)
(* every pipe capacity and every set of faults.  IInv is inductive:        *)
(* WorkerKeepsIInv, EndTaskKeepsIInv, MonitorKeepsIInv, StartKeepsIInv,    *)
(* RequestKeepsIInv, LibraryKeepsIInv and LifeKeepsIInv show that each     *)
(* group of actions keeps it, and the theorems at the end draw the         *)
(* conclusions.                                                            *)
(*                                                                         *)
(* Most actions only move a task from one await to the next: Frame says    *)
(* once what such a step may change.  Settled covers the steps after which *)
(* nothing runs.                                                           *)
(***************************************************************************)
EXTENDS StudioBrokerProperties, TLAPS

-----------------------------------------------------------------------------
(* Records: what an update of a session or of a worker leaves alone.       *)

\* p is o, further on: nothing that IInv sees has changed, but the start task
\* may have ended.
Alike(o, p) ==
  /\ p \in Owned
  /\ p.kind = o.kind /\ p.monitor = o.monitor /\ p.start \in {o.start, "none"}
  /\ p.finished = o.finished /\ p.safe = o.safe /\ p.playback = o.playback

LEMMA AlikeFields ==
  ASSUME NEW o \in Owned
  PROVE  /\ \A v \in {"empty", "silent", "voiced"} : Alike(o, [o EXCEPT !.pcm = v])
         /\ \A v \in {"generating", "ready", "failed", "cancelled"} :
              Alike(o, [o EXCEPT !.result = v])
         /\ \A v \in {"none", "new", "ack", "drain", "resume", "room", "done"} :
              Alike(o, [o EXCEPT !.ending = v])
         /\ Alike(o, [o EXCEPT !.handle = TRUE])
         /\ Alike(o, [o EXCEPT !.start = "none"])
<1>. USE DEF Alike, Owned
<1>1. \A v \in {"empty", "silent", "voiced"} : Alike(o, [o EXCEPT !.pcm = v])
  OBVIOUS
<1>2. \A v \in {"generating", "ready", "failed", "cancelled"} :
        Alike(o, [o EXCEPT !.result = v])
  OBVIOUS
<1>3. \A v \in {"none", "new", "ack", "drain", "resume", "room", "done"} :
        Alike(o, [o EXCEPT !.ending = v])
  OBVIOUS
<1>4. Alike(o, [o EXCEPT !.handle = TRUE])
  OBVIOUS
<1>5. Alike(o, [o EXCEPT !.start = "none"])
  OBVIOUS
<1>6. QED
  BY <1>1, <1>2, <1>3, <1>4, <1>5

LEMMA AlikeReflexive ==
  ASSUME NEW o \in Owned
  PROVE  Alike(o, o)
  BY DEF Alike

LEMMA AlikeTransitive ==
  ASSUME NEW o, NEW p, NEW q, Alike(o, p), Alike(p, q)
  PROVE  Alike(o, q)
  BY DEF Alike

LEMMA PlaybackField ==
  ASSUME NEW o \in Owned, NEW v \in BOOLEAN
  PROVE  LET p == [o EXCEPT !.playback = v] IN
         /\ p \in Owned /\ p.playback = v /\ p.kind = o.kind /\ p.start = o.start
         /\ p.finished = o.finished /\ p.safe = o.safe /\ p.monitor = o.monitor
  BY DEF Owned

LEMMA SafeField ==
  ASSUME NEW o \in Owned, NEW v \in BOOLEAN
  PROVE  LET p == [o EXCEPT !.finished = TRUE, !.safe = v] IN
         /\ p \in Owned /\ p.safe = v /\ p.kind = o.kind /\ p.start = o.start
         /\ p.monitor = o.monitor /\ p.playback = o.playback
<1>. DEFINE q == [o EXCEPT !.finished = TRUE]
<1>1. /\ q \in Owned /\ q.kind = o.kind /\ q.start = o.start
      /\ q.monitor = o.monitor /\ q.playback = o.playback
  BY DEF Owned
<1>2. \A r \in Owned :
        LET p == [r EXCEPT !.safe = v] IN
        /\ p \in Owned /\ p.safe = v /\ p.kind = r.kind /\ p.start = r.start
        /\ p.monitor = r.monitor /\ p.playback = r.playback
  BY DEF Owned
<1>3. [o EXCEPT !.finished = TRUE, !.safe = v] = [q EXCEPT !.safe = v]
  OBVIOUS
<1>4. QED
  BY <1>1, <1>2, <1>3

LEMMA NewIsOwned ==
  ASSUME NEW k \in {"room", "audition"}, NEW h \in BOOLEAN,
         NEW a \in {"none", "checks", "room", "mark", "spawn", "stdin", "cleanup"}
  PROVE  LET o == NewSession(k, h, a) IN
         /\ o \in Owned /\ o.start = a /\ o.monitor = "none"
         /\ o.playback = FALSE /\ o.safe = FALSE
  BY DEF NewSession, Owned

LEMMA StageField ==
  ASSUME NEW w \in Worker, NEW v \in AliveStages \cup {"none", "clean", "failed"}
  PROVE  LET u == [w EXCEPT !.stage = v] IN
         u \in Worker /\ u.stage = v /\ u.work = w.work /\ u.pipe = w.pipe
  BY DEF Worker

LEMMA WorkField ==
  ASSUME NEW w \in Worker, NEW v \in {"none", "running", "uncertain"}
  PROVE  LET u == [w EXCEPT !.work = v] IN
         u \in Worker /\ u.stage = w.stage /\ u.work = v /\ u.pipe = w.pipe
  BY DEF Worker

LEMMA PipeField ==
  ASSUME NEW w \in Worker, NEW v \in Seq(Event)
  PROVE  LET u == [w EXCEPT !.pipe = v] IN
         u \in Worker /\ u.stage = w.stage /\ u.work = w.work /\ u.pipe = v
  BY DEF Worker

LEMMA NoWorkerIsWorker ==
  NoWorker \in Worker /\ NoWorker.stage = "none" /\ NoWorker.work = "none" /\ ~Said(NoWorker.pipe)
  BY DEF NoWorker, Worker, Said

LEMMA SignalledIsWorker ==
  ASSUME NEW w \in Worker, NEW u \in {Signalled(w), Killed(w)}
  PROVE  /\ u \in Worker /\ u.work = w.work /\ u.pipe = w.pipe
         /\ u.stage = w.stage \/ (u.stage = "failed" /\ w.stage \in AliveStages)
<1>1. LET v == [w EXCEPT !.stage = "failed"] IN
      v \in Worker /\ v.stage = "failed" /\ v.work = w.work /\ v.pipe = w.pipe
  BY StageField
<1>2. u = w \/ (u = [w EXCEPT !.stage = "failed"] /\ w.stage \in AliveStages)
  BY DEF Signalled, Killed, AliveStages
<1>3. QED
  BY <1>1, <1>2

-----------------------------------------------------------------------------
(* The lines of the pipe: which updates can bring the report "safe".       *)

LEMMA Appended ==
  ASSUME NEW p \in Seq(Event), NEW e \in Event
  PROVE  Append(p, e) \in Seq(Event) /\ (Said(Append(p, e)) => Said(p) \/ e = "safe")
  BY DEF Said

LEMMA Joined ==
  ASSUME NEW p \in Seq(Event), NEW q \in Seq(Event)
  PROVE  p \o q \in Seq(Event) /\ (Said(p \o q) => Said(p) \/ Said(q))
  BY DEF Said

LEMMA Taken ==
  ASSUME NEW p \in Seq(Event), p # <<>>
  PROVE  /\ Tail(p) \in Seq(Event) /\ Head(p) \in Event
         /\ Said(Tail(p)) \/ Head(p) = "safe" => Said(p)
  BY DEF Said

LEMMA Lines ==
  /\ <<"safe">> \in Seq(Event)
  /\ \A q \in {<<"draining">>, <<"error", "draining">>, <<"uncertain", "unsafe">>,
               <<"error", "unsafe">>} : q \in Seq(Event) /\ ~Said(q)
<1>1. \A a, b \in Event :
        /\ <<a>> \in Seq(Event) /\ <<a, b>> \in Seq(Event)
        /\ Said(<<a>>) => a = "safe"
        /\ Said(<<a, b>>) => "safe" \in {a, b}
  BY DEF Said
<1>2. {"draining", "error", "safe", "uncertain", "unsafe"} \subseteq Event
  BY DEF Event
<1>3. QED
  BY <1>1, <1>2

-----------------------------------------------------------------------------
(* What a step may change without disturbing IInv.                         *)

Steady(t) ==
  /\ owned'[t].start \in {"checks", "room", "mark", "spawn"} =>
       /\ owned'[t].start = owned[t].start
       /\ owned'[t].monitor = owned[t].monitor
       /\ owned'[t].playback = owned[t].playback
  /\ owned'[t].monitor = "deleting" =>
       /\ owned[t].monitor = "deleting"
       /\ owned'[t].kind = owned[t].kind
       /\ Confirmed(owned[t], worker[t]) => Confirmed(owned'[t], worker'[t])
  /\ owned'[t].playback => owned[t].playback
  /\ Busy(t)' => Busy(t)
  /\ worker'[t].stage = "none" => worker'[t].work = "none"
  /\ SaysSafe(t)' =>
       worker'[t].stage \in {"exiting", "clean", "failed"} /\ worker'[t].work = "none"

LEMMA Frame ==
  ASSUME IInv, TypeOK', UNCHANGED <<up, marker, current>>,
         up \/ UNCHANGED <<phase, lock, owned>>,
         lock' = "preflight" => lock = "preflight",
         phase' = "idle" => phase = "idle",
         \A t \in Sessions : Steady(t)
  PROVE  IInv'
<1>. USE DEF IInv, Steady
<1>1. DownHoldsNothing'
  BY DEF DownHoldsNothing
<1>2. UnbornIsSilent' /\ SafeIsTrue'
  BY DEF UnbornIsSilent, SafeIsTrue
<1>3. MarkedBeforeSpawn'
  BY DEF MarkedBeforeSpawn
<1>4. BusyIsCurrent' /\ OneSessionBusy'
  BY DEF BusyIsCurrent, Spawning, OneSessionBusy
<1>5. AdmittingIsAlone'
  BY DEF AdmittingIsAlone, Admitting
<1>6. PreflightIsAlone' /\ IdleIsOpen'
  BY DEF PreflightIsAlone, IdleIsOpen
<1>7. StartingIsUnmonitored'
  BY DEF StartingIsUnmonitored, Admitting, Spawning
<1>8. DeletingIsConfirmed'
  BY DEF DeletingIsConfirmed
<1>9. HeldIsUnmarked'
  BY DEF HeldIsUnmarked
<1>10. QED
  BY <1>1, <1>2, <1>3, <1>4, <1>5, <1>6, <1>7, <1>8, <1>9

\* After the step nothing runs, and nothing is being started.
LEMMA Settled ==
  ASSUME TypeOK', up', Quiet', ~marker',
         lock' = "preflight" \/ phase' = "idle" => current' = NoSession,
         UnbornIsSilent', SafeIsTrue',
         \A t \in Sessions :
           ~Admitting(t)' /\ ~Spawning(t)' /\ owned'[t].monitor # "deleting"
  PROVE  IInv'
<1>1. DownHoldsNothing' /\ MarkedBeforeSpawn'
  BY DEF DownHoldsNothing, MarkedBeforeSpawn, Quiet, Spawning
<1>2. BusyIsCurrent' /\ OneSessionBusy'
  BY DEF BusyIsCurrent, OneSessionBusy, Quiet
<1>3. AdmittingIsAlone' /\ PreflightIsAlone' /\ IdleIsOpen'
  BY DEF AdmittingIsAlone, PreflightIsAlone, IdleIsOpen
<1>4. StartingIsUnmonitored' /\ DeletingIsConfirmed' /\ HeldIsUnmarked'
  BY DEF StartingIsUnmonitored, DeletingIsConfirmed, HeldIsUnmarked
<1>5. QED
  BY <1>1, <1>2, <1>3, <1>4 DEF IInv

\* A step of a task that leaves every session alike, and at most kills workers.
Kept(t) ==
  /\ worker'[t].work = worker[t].work
  /\ worker'[t].pipe = worker[t].pipe
  /\ worker'[t].stage = worker[t].stage \/ (worker'[t].stage = "failed" /\ Alive(t))

LEMMA TaskFrame ==
  ASSUME IInv, TypeOK', up, UNCHANGED <<up, marker, current>>,
         lock' = "preflight" => lock = "preflight",
         phase' = "idle" => phase = "idle",
         \A t \in Sessions : Alike(owned[t], owned'[t]) /\ Kept(t)
  PROVE  IInv'
<1>1. ASSUME NEW t \in Sessions
      PROVE  Steady(t)
  <2>1. /\ worker[t].stage = "none" => worker[t].work = "none"
        /\ SaysSafe(t) => worker[t].stage \in {"exiting", "clean", "failed"} /\ worker[t].work = "none"
    BY DEF IInv, UnbornIsSilent, SafeIsTrue
  <2>2. Busy(t)' => Busy(t)
    BY DEF Kept, Busy, Alive, AliveStages
  <2>3. SaysSafe(t)' => SaysSafe(t)
    BY DEF Kept, Alike, SaysSafe
  <2>4. Confirmed(owned[t], worker[t]) => Confirmed(owned'[t], worker'[t])
    BY DEF Kept, Alike, Confirmed, Alive, AliveStages
  <2>5. QED
    BY <2>1, <2>2, <2>3, <2>4 DEF Steady, Alike, Kept
<1>2. QED
  BY <1>1, Frame

-----------------------------------------------------------------------------
(* The worker.                                                             *)

LEMMA WorkerFrame ==
  ASSUME IInv, NEW s \in Sessions, NEW w \in Worker, Moves(s, w),
         w.stage \in AliveStages \/ w.work # "none" => Busy(s),
         w.stage = "none" => w.work = "none",
         worker[s].stage = "clean" => w.stage = "clean",
         owned[s].safe \/ Said(w.pipe) =>
           w.stage \in {"exiting", "clean", "failed"} /\ w.work = "none"
  PROVE  IInv'
<1>. USE DEF Moves, admission
<1>1. TypeOK'
  BY DEF IInv, TypeOK
<1>2. \A t \in Sessions : worker'[t] = IF t = s THEN w ELSE worker[t]
  BY DEF IInv, TypeOK
<1>3. ASSUME NEW t \in Sessions
      PROVE  Steady(t)
  <2>. USE DEF Steady, Busy, Alive, SaysSafe, Confirmed
  <2>1. CASE t = s
    BY <1>2, <2>1
  <2>2. CASE t # s
    BY <1>2, <2>2 DEF IInv, UnbornIsSilent, SafeIsTrue
  <2>3. QED
    BY <2>1, <2>2
<1>4. QED
  BY <1>1, <1>3, Frame

LEMMA BootsKeepsIInv ==
  ASSUME IInv, NEW s \in Sessions, WorkerBoots(s)
  PROVE  IInv'
<1>. DEFINE p == IF owned[s].kind = "audition" THEN Append(worker[s].pipe, "started")
                                               ELSE worker[s].pipe
            w == [worker[s] EXCEPT !.stage = "starting", !.pipe = p]
            v == [worker[s] EXCEPT !.stage = "starting"]
<1>1. worker[s] \in Worker /\ worker[s].stage = "booting" /\ ~SaysSafe(s)
  BY DEF IInv, TypeOK, SafeIsTrue, WorkerBoots
<1>2. worker[s].pipe \in Seq(Event) /\ ~Said(worker[s].pipe) /\ ~owned[s].safe
  BY <1>1 DEF SaysSafe, Worker
<1>3. p \in Seq(Event) /\ ~Said(p)
  BY <1>2, Appended DEF Event
<1>4. v \in Worker /\ v.stage = "starting"
  BY <1>1, StageField DEF AliveStages
<1>5. w = [v EXCEPT !.pipe = p]
  OBVIOUS
<1>6. w \in Worker /\ w.stage = "starting" /\ w.pipe = p
  BY <1>3, <1>4, <1>5, PipeField
<1>7. Moves(s, w) /\ Busy(s)
  BY <1>1 DEF WorkerBoots, Busy, Alive, AliveStages
<1>. HIDE DEF w, p
<1>8. QED
  BY <1>1, <1>2, <1>3, <1>6, <1>7, WorkerFrame

LEMMA InfersKeepsIInv ==
  ASSUME IInv, NEW s \in Sessions, WorkerInfers(s) \/ BackendSettles(s)
  PROVE  IInv'
<1>1. /\ worker[s] \in Worker /\ ~SaysSafe(s) /\ Busy(s)
      /\ worker[s].stage = "none" => worker[s].work = "none"
  BY DEF IInv, TypeOK, SafeIsTrue, UnbornIsSilent, WorkerInfers, BackendSettles, Busy, Alive, AliveStages
<1>2. PICK v \in {"none", "running"} :
        /\ Moves(s, [worker[s] EXCEPT !.work = v])
        /\ worker[s].stage = "none" => v = "none"
  BY DEF WorkerInfers, BackendSettles
<1>. DEFINE w == [worker[s] EXCEPT !.work = v]
<1>3. w \in Worker /\ w.stage = worker[s].stage /\ w.work = v /\ w.pipe = worker[s].pipe
  BY <1>1 DEF Worker
<1>. HIDE DEF w
<1>4. QED
  BY <1>1, <1>2, <1>3, WorkerFrame DEF SaysSafe, w

LEMMA UncertainKeepsIInv ==
  ASSUME IInv, NEW s \in Sessions, BackendUncertain(s)
  PROVE  IInv'
<1>. DEFINE v == [worker[s] EXCEPT !.work = "uncertain"]
            p == Append(worker[s].pipe, "uncertain")
            w == [worker[s] EXCEPT !.work = "uncertain", !.pipe = p]
<1>1. worker[s] \in Worker /\ ~SaysSafe(s) /\ Busy(s) /\ worker[s].stage \in AliveStages
  BY DEF IInv, TypeOK, SafeIsTrue, BackendUncertain, Busy, Alive
<1>2. worker[s].pipe \in Seq(Event) /\ ~Said(worker[s].pipe) /\ ~owned[s].safe
  BY <1>1 DEF SaysSafe, Worker
<1>3. p \in Seq(Event) /\ ~Said(p)
  BY <1>2, Appended DEF Event
<1>4. v \in Worker /\ v.stage = worker[s].stage /\ v.pipe = worker[s].pipe
  BY <1>1, WorkField
<1>5. w = [v EXCEPT !.pipe = p]
  OBVIOUS
<1>6. w \in Worker /\ w.stage = worker[s].stage /\ w.pipe = p
  BY <1>3, <1>4, <1>5, PipeField
<1>7. Moves(s, v) \/ Moves(s, w)
  BY DEF BackendUncertain
<1>. HIDE DEF v, w, p
<1>8. QED
  BY <1>1, <1>2, <1>3, <1>4, <1>6, <1>7, WorkerFrame DEF AliveStages

\* A live worker that has not said "safe" goes to another live stage and adds q.
LEMMA ReportKeepsIInv ==
  ASSUME IInv, NEW s \in Sessions, NEW stage \in AliveStages, NEW q \in Seq(Event),
         Alive(s), ~SaysSafe(s),
         Said(q) => stage = "exiting" /\ worker[s].work = "none",
         Moves(s, [worker[s] EXCEPT !.stage = stage, !.pipe = @ \o q])
  PROVE  IInv'
<1>. DEFINE p == worker[s].pipe \o q
            v == [worker[s] EXCEPT !.stage = stage]
            w == [worker[s] EXCEPT !.stage = stage, !.pipe = p]
<1>1. worker[s] \in Worker
  BY DEF IInv, TypeOK
<1>2. worker[s].pipe \in Seq(Event) /\ ~Said(worker[s].pipe) /\ ~owned[s].safe
  BY <1>1 DEF SaysSafe, Worker
<1>3. p \in Seq(Event) /\ (Said(p) => Said(q))
  BY <1>2, Joined
<1>4. v \in Worker /\ v.stage = stage /\ v.work = worker[s].work
  BY <1>1, StageField
<1>5. w = [v EXCEPT !.pipe = p]
  OBVIOUS
<1>6. w \in Worker /\ w.stage = stage /\ w.pipe = p /\ w.work = worker[s].work
  BY <1>3, <1>4, <1>5, PipeField
<1>7. Moves(s, w) /\ Busy(s)
  BY DEF Busy
<1>. HIDE DEF w, p
<1>8. QED
  BY <1>2, <1>3, <1>6, <1>7, WorkerFrame DEF AliveStages, Alive

LEMMA ReadyKeepsIInv ==
  ASSUME IInv, NEW s \in Sessions, WorkerReady(s) \/ WorkerSpeaks(s)
  PROVE  IInv'
<1>. DEFINE w(stage, e) == [worker[s] EXCEPT !.stage = stage, !.pipe = Append(@, e)]
<1>1. worker[s] \in Worker /\ ~SaysSafe(s) /\ Alive(s)
  BY DEF IInv, TypeOK, SafeIsTrue, WorkerReady, WorkerSpeaks, Alive, AliveStages
<1>2. \A e \in Event : [worker[s] EXCEPT !.pipe = Append(@, e)] = w(worker[s].stage, e)
  BY <1>1 DEF Worker
<1>3. \E stage \in AliveStages, e \in Event \ {"safe"} : Moves(s, w(stage, e))
  BY ZenonT(60), <1>1, <1>2 DEF WorkerReady, WorkerSpeaks, Event, AliveStages, Alive
<1>4. PICK stage \in AliveStages, e \in Event \ {"safe"} : Moves(s, w(stage, e))
  BY <1>3
<1>5. Append(worker[s].pipe, e) = worker[s].pipe \o <<e>>
  BY <1>1 DEF Worker
<1>6. <<e>> \in Seq(Event) /\ ~Said(<<e>>)
  BY DEF Said
<1>7. QED
  BY <1>1, <1>4, <1>5, <1>6, ReportKeepsIInv

LEMMA StopsKeepsIInv ==
  ASSUME IInv, NEW s \in Sessions, WorkerStops(s)
  PROVE  IInv'
<1>1. Alive(s) /\ ~SaysSafe(s)
  BY DEF IInv, SafeIsTrue, WorkerStops, Alive, AliveStages
<1>2. PICK q \in {<<"draining">>, <<"error", "draining">>} :
        Moves(s, [worker[s] EXCEPT !.stage = "draining", !.pipe = @ \o q])
  BY DEF WorkerStops
<1>3. q \in Seq(Event) /\ ~Said(q)
  BY Lines
<1>4. QED
  BY <1>1, <1>2, <1>3, ReportKeepsIInv DEF AliveStages

LEMMA FinishesKeepsIInv ==
  ASSUME IInv, NEW s \in Sessions, WorkerFinishes(s)
  PROVE  IInv'
<1>1. Alive(s) /\ ~SaysSafe(s)
  BY DEF IInv, SafeIsTrue, WorkerFinishes, Alive, AliveStages
<1>2. PICK q \in {<<"safe">>, <<"uncertain", "unsafe">>, <<"error", "unsafe">>} :
        /\ worker[s].work = "none" \/ q # <<"safe">>
        /\ Moves(s, [worker[s] EXCEPT !.stage = "exiting", !.pipe = @ \o q])
  <2>1. CASE worker[s].work = "none"
    BY <2>1 DEF WorkerFinishes
  <2>2. CASE worker[s].work # "none" /\ owned[s].kind = "audition"
    <3>1. <<"uncertain", "unsafe">> # <<"safe">>
      OBVIOUS
    <3>2. Moves(s, [worker[s] EXCEPT !.stage = "exiting", !.pipe = @ \o <<"uncertain", "unsafe">>])
      BY <2>2 DEF WorkerFinishes
    <3>3. QED
      BY <3>1, <3>2
  <2>3. CASE worker[s].work # "none" /\ owned[s].kind # "audition"
    <3>1. <<"error", "unsafe">> # <<"safe">>
      OBVIOUS
    <3>2. Moves(s, [worker[s] EXCEPT !.stage = "exiting", !.pipe = @ \o <<"error", "unsafe">>])
      BY <2>3 DEF WorkerFinishes
    <3>3. QED
      BY <3>1, <3>2
  <2>4. QED
    BY <2>1, <2>2, <2>3
<1>3. q \in Seq(Event) /\ (Said(q) => q = <<"safe">>)
  BY Lines
<1>4. QED
  BY <1>1, <1>2, <1>3, ReportKeepsIInv DEF AliveStages

LEMMA ExitsKeepsIInv ==
  ASSUME IInv, NEW s \in Sessions, WorkerExits(s) \/ WorkerCrashes(s)
  PROVE  IInv'
<1>1. /\ worker[s] \in Worker /\ Alive(s)
      /\ SaysSafe(s) => worker[s].work = "none"
  BY DEF IInv, TypeOK, SafeIsTrue, WorkerExits, WorkerCrashes, Alive, AliveStages
<1>2. PICK stage \in {"clean", "failed"} : Moves(s, [worker[s] EXCEPT !.stage = stage])
  BY DEF WorkerExits, WorkerCrashes
<1>. DEFINE w == [worker[s] EXCEPT !.stage = stage]
<1>3. w \in Worker /\ w.stage = stage /\ w.work = worker[s].work /\ w.pipe = worker[s].pipe
  BY <1>1, StageField
<1>4. Moves(s, w)
  BY <1>2
<1>. HIDE DEF w
<1>5. QED
  BY <1>1, <1>3, <1>4, WorkerFrame DEF Alive, Busy, AliveStages, SaysSafe

LEMMA WorkerKeepsIInv ==
  ASSUME IInv, NEW s \in Sessions, WorkerStep(s)
  PROVE  IInv'
  BY BootsKeepsIInv, InfersKeepsIInv, UncertainKeepsIInv, ReadyKeepsIInv, StopsKeepsIInv,
     FinishesKeepsIInv, ExitsKeepsIInv DEF WorkerStep

-----------------------------------------------------------------------------
(* The end task, and the requests that only end a session.                 *)

LEMMA ClearedIsAlike ==
  ASSUME TypeOK
  PROVE  /\ Cleared(owned) \in [Sessions -> Owned]
         /\ \A t \in Sessions : Alike(owned[t], Cleared(owned)[t])
<1>1. \A t \in Sessions : owned[t] \in Owned /\ Alike(owned[t], owned[t])
  BY AlikeReflexive DEF TypeOK
<1>2. CASE audition = NoSession
  BY <1>1, <1>2 DEF Cleared, TypeOK
<1>3. CASE audition \in Sessions
  <2>. DEFINE o == [owned[audition] EXCEPT !.pcm = "empty"]
  <2>1. Alike(owned[audition], o) /\ o \in Owned
    BY <1>1, <1>3, AlikeFields DEF Alike
  <2>2. audition # NoSession
    BY <1>3, ConstantsOK
  <2>3. Cleared(owned) = [owned EXCEPT ![audition] = o]
    BY <2>2 DEF Cleared
  <2>. HIDE DEF o
  <2>4. QED
    BY <1>1, <1>3, <2>1, <2>3 DEF TypeOK
<1>4. QED
  BY <1>2, <1>3 DEF TypeOK

\* The object of s becomes o, and the worker of s at most is killed.
LEMMA TaskStep ==
  ASSUME IInv, up, NEW s \in Sessions, NEW o, Alike(owned[s], o),
         owned' = [owned EXCEPT ![s] = o],
         worker' = worker \/ worker' = [worker EXCEPT ![s] = Signalled(@)]
                          \/ worker' = [worker EXCEPT ![s] = Killed(@)],
         UNCHANGED <<up, marker, current, lock, starter>>,
         phase' \in {"draining", "blocked", phase},
         audition' \in Sessions \cup {NoSession},
         closing' \in {"open", "start", "end", "final", "cleanup"},
         awaited' \in Sessions \cup {NoSession}
  PROVE  IInv'
<1>1. o \in Owned /\ \A t \in Sessions : owned[t] \in Owned /\ Alike(owned[t], owned[t])
  BY AlikeReflexive DEF IInv, TypeOK, Alike
<1>2. PICK w \in Worker :
        /\ worker' = [worker EXCEPT ![s] = w]
        /\ w.work = worker[s].work /\ w.pipe = worker[s].pipe
        /\ w.stage = worker[s].stage \/ (w.stage = "failed" /\ Alive(s))
  <2>1. worker[s] \in Worker /\ worker = [worker EXCEPT ![s] = worker[s]]
    BY DEF IInv, TypeOK
  <2>2. CASE worker' = worker
    BY <2>1, <2>2
  <2>3. CASE worker' = [worker EXCEPT ![s] = Signalled(@)]
    BY <2>1, <2>3, SignalledIsWorker DEF Alive
  <2>4. CASE worker' = [worker EXCEPT ![s] = Killed(@)]
    BY <2>1, <2>4, SignalledIsWorker DEF Alive
  <2>5. QED
    BY <2>2, <2>3, <2>4
<1>3. TypeOK'
  BY <1>1, <1>2 DEF IInv, TypeOK
<1>4. \A t \in Sessions : Alike(owned[t], owned'[t]) /\ Kept(t)
  BY <1>1, <1>2 DEF IInv, TypeOK, Kept
<1>5. QED
  BY <1>3, <1>4, TaskFrame

LEMMA EndTaskKeepsIInv ==
  ASSUME IInv, NEW s \in Sessions, EndStep(s) \/ CleanUpRoom(s) \/ TakeAudio(s)
  PROVE  IInv'
<1>. USE DEF admission
<1>0. owned[s] \in Owned
  BY DEF IInv, TypeOK
<1>1. \A e \in {"none", "new", "ack", "drain", "resume", "room", "done"} :
        Alike(owned[s], [owned[s] EXCEPT !.ending = e])
  BY <1>0, AlikeFields
<1>2. AfterDrain(s) \in {"room", "done"} /\ AwaitMonitor(s) \in {"resume", "drain"}
  BY DEF AfterDrain, AwaitMonitor
<1>3. /\ up /\ phase \in {"idle", "starting", "active", "draining", "blocked"}
      /\ audition \in Sessions \cup {NoSession} /\ awaited \in Sessions \cup {NoSession}
      /\ closing \in {"open", "start", "end", "final", "cleanup"}
  BY DEF IInv, TypeOK, EndStep, EndBegins, EndAcknowledged, EndUnacknowledged, EndDrained,
         EndTimesOut, EndSeesFailure, EndDeletesRoom, CleanUpRoom, TakeAudio
<1>4. CASE EndBegins(s)
  <2>1. PICK e \in {"done", "ack", "resume", "drain"} :
          /\ owned' = [owned EXCEPT ![s] = [owned[s] EXCEPT !.ending = e]]
          /\ worker' = worker \/ worker' = [worker EXCEPT ![s] = Signalled(@)]
    BY <1>2, <1>4 DEF EndBegins
  <2>2. QED
    BY ZenonT(60), <1>1, <1>3, <1>4, <2>1, TaskStep DEF EndBegins
<1>5. CASE EndAcknowledged(s)
  BY <1>1, <1>2, <1>3, <1>5, TaskStep DEF EndAcknowledged
<1>6. CASE EndUnacknowledged(s) \/ EndTimesOut(s) \/ EndSeesFailure(s)
  <2>1. PICK e \in {"room", "done"} : EndKills(s, e)
    BY <1>2, <1>6 DEF EndUnacknowledged, EndTimesOut, EndSeesFailure
  <2>2. QED
    BY <1>1, <1>3, <2>1, TaskStep DEF EndKills
<1>7. CASE EndDrained(s) \/ EndDeletesRoom(s)
  <2>1. PICK e \in {"room", "done"} :
          /\ owned' = [owned EXCEPT ![s] = [owned[s] EXCEPT !.ending = e]]
          /\ UNCHANGED <<admission, phase, current, audition, worker>>
    BY <1>2, <1>7 DEF EndDrained, EndDeletesRoom
  <2>2. QED
    BY <1>1, <1>3, <2>1, TaskStep
<1>8. CASE CleanUpRoom(s)
  <2>1. Alike(owned[s], [owned[s] EXCEPT !.start = "none"])
    BY <1>0, AlikeFields
  <2>2. QED
    BY <1>3, <1>8, <2>1, TaskStep DEF CleanUpRoom
<1>9. CASE TakeAudio(s)
  <2>1. Alike(owned[s], [owned[s] EXCEPT !.pcm = "empty"])
    BY <1>0, AlikeFields
  <2>2. QED
    BY <1>3, <1>9, <2>1, TaskStep DEF TakeAudio
<1>10. QED
  BY <1>4, <1>5, <1>6, <1>7, <1>8, <1>9 DEF EndStep

\* end() for the current session: the session goes on to its end task, or a
\* session that was held for playback is let go.
LEMMA EndKeepsIInv ==
  ASSUME IInv, up, NEW s \in Sessions, current = s, NEW o, Alike(owned[s], o), End(s, o),
         UNCHANGED <<up, marker, lock, starter, worker>>,
         audition' \in Sessions \cup {NoSession},
         closing' \in {"open", "start", "end", "final", "cleanup"},
         awaited' \in Sessions \cup {NoSession}
  PROVE  IInv'
<1>. DEFINE r == IF o.result = "generating" THEN "cancelled" ELSE o.result
            stopped == IF o.kind = "audition"
                       THEN [o EXCEPT !.pcm = "empty",
                                      !.result = IF @ = "generating" THEN "cancelled" ELSE @]
                       ELSE o
            held == o.kind = "audition" /\ o.playback /\ o.handle /\ Confirmed(o, worker[s])
<1>0. phase \in {"idle", "starting", "active", "draining", "blocked"} /\ owned \in [Sessions -> Owned]
  BY DEF IInv, TypeOK
<1>1. o \in Owned
  BY DEF Alike
<1>2. Alike(o, stopped)
  <2>1. r \in {"generating", "ready", "failed", "cancelled"}
    BY <1>1 DEF Owned
  <2>. DEFINE p == [o EXCEPT !.pcm = "empty"]
  <2>2. Alike(o, p) /\ p \in Owned
    BY <1>1, AlikeFields DEF Alike
  <2>. HIDE DEF r, p
  <2>3. Alike(p, [p EXCEPT !.result = r])
    BY <2>1, <2>2, AlikeFields
  <2>4. Alike(o, [p EXCEPT !.result = r])
    BY <2>2, <2>3, AlikeTransitive
  <2>5. [o EXCEPT !.pcm = "empty", !.result = r] = [p EXCEPT !.result = r]
    BY DEF p
  <2>6. QED
    BY <1>1, <2>4, <2>5, AlikeReflexive DEF r
<1>3. Alike(owned[s], stopped)
  BY <1>2, AlikeTransitive
<1>4. \/ /\ held /\ current' = NoSession /\ phase' = "idle"
         /\ owned' = [owned EXCEPT ![s] = stopped]
      \/ /\ phase' \in {"draining", "blocked"} /\ current' = current
         /\ owned' = [owned EXCEPT ![s] = [stopped EXCEPT !.ending = "new"]]
      \/ /\ current' = current /\ phase' = phase
         /\ owned' = [owned EXCEPT ![s] = stopped]
  BY DEF End
<1>. HIDE DEF stopped
<1>5. CASE owned' = [owned EXCEPT ![s] = stopped] /\ current' = current /\ phase' = phase
  BY <1>3, <1>5, TaskStep
<1>6. CASE /\ phase' \in {"draining", "blocked"} /\ current' = current
           /\ owned' = [owned EXCEPT ![s] = [stopped EXCEPT !.ending = "new"]]
  <2>1. Alike(stopped, [stopped EXCEPT !.ending = "new"])
    BY <1>3, AlikeFields DEF Alike
  <2>2. Alike(owned[s], [stopped EXCEPT !.ending = "new"])
    BY <1>3, <2>1, AlikeTransitive
  <2>3. QED
    BY <1>6, <2>2, TaskStep
<1>7. CASE /\ held /\ current' = NoSession /\ phase' = "idle"
           /\ owned' = [owned EXCEPT ![s] = stopped]
  <2>1. owned[s].playback /\ Confirmed(owned[s], worker[s]) /\ owned[s].kind = "audition"
    BY <1>7 DEF Alike, Confirmed
  <2>2. ~marker
    BY <2>1 DEF IInv, HeldIsUnmarked
  <2>3. Quiet
    BY <2>2 DEF IInv, MarkedBeforeSpawn, Quiet
  <2>4. \A t \in Sessions :
          /\ ~Admitting(t) /\ ~Spawning(t) /\ owned[t].monitor # "deleting"
    BY <2>1, ConstantsOK DEF IInv, AdmittingIsAlone, StartingIsUnmonitored, BusyIsCurrent,
       DeletingIsConfirmed
  <2>5. /\ \A t \in Sessions : t # s => owned'[t] = owned[t]
        /\ owned'[s] = stopped /\ owned' \in [Sessions -> Owned]
    BY <1>0, <1>3, <1>7 DEF Alike
  <2>6. Quiet' /\ UnbornIsSilent'
    BY <2>3 DEF Quiet, Busy, Alive, IInv, UnbornIsSilent
  <2>7. SafeIsTrue'
    BY <1>3, <2>5 DEF IInv, SafeIsTrue, SaysSafe, Alike
  <2>8. \A t \in Sessions : ~Admitting(t)' /\ ~Spawning(t)' /\ owned'[t].monitor # "deleting"
    BY <1>3, <2>4, <2>5 DEF Alike, Admitting, Spawning
  <2>9. TypeOK'
    BY <1>7, <2>5 DEF IInv, TypeOK
  <2>10. QED
    BY <1>7, <2>2, <2>6, <2>7, <2>8, <2>9, Settled
<1>8. QED
  BY <1>4, <1>5, <1>6, <1>7

LEMMA EndAuditionKeepsIInv ==
  ASSUME IInv, up, NEW s \in Sessions, NEW o, Alike(owned[s], o), EndAudition(s, o),
         UNCHANGED <<up, marker, lock, starter, worker, audition, closing, awaited>>
  PROVE  IInv'
<1>. DEFINE r == IF o.result = "failed" THEN o.result ELSE "cancelled"
            p == [o EXCEPT !.pcm = "empty"]
            stopped == [o EXCEPT !.pcm = "empty",
                                 !.result = IF @ = "failed" THEN @ ELSE "cancelled"]
<1>1. o \in Owned /\ r \in {"generating", "ready", "failed", "cancelled"}
  BY DEF Alike, Owned
<1>2. Alike(o, p) /\ p \in Owned
  BY <1>1, AlikeFields DEF Alike
<1>3. Alike(p, [p EXCEPT !.result = r])
  BY <1>1, <1>2, AlikeFields
<1>4. stopped = [p EXCEPT !.result = r]
  OBVIOUS
<1>5. Alike(owned[s], stopped)
  BY <1>2, <1>3, <1>4, AlikeTransitive
<1>6. \/ owned' = [owned EXCEPT ![s] = o] /\ UNCHANGED <<current, phase>>
      \/ owned' = [owned EXCEPT ![s] = stopped] /\ UNCHANGED <<current, phase>>
      \/ current = s /\ End(s, stopped)
  BY DEF EndAudition
<1>7. /\ audition \in Sessions \cup {NoSession} /\ awaited \in Sessions \cup {NoSession}
      /\ closing \in {"open", "start", "end", "final", "cleanup"}
  BY DEF IInv, TypeOK
<1>. HIDE DEF stopped, p, r
<1>8. QED
  BY <1>5, <1>6, <1>7, TaskStep, EndKeepsIInv

LEMMA RequestsKeepIInv ==
  ASSUME IInv, NEW s \in Sessions,
         \/ EndRequest(s) \/ EndAuditionRequest(s) \/ WatchdogExpires(s)
         \/ FeedAudition(s) \/ CloseEndsSession(s)
  PROVE  IInv'
<1>0. /\ owned[s] \in Owned /\ Alike(owned[s], owned[s])
      /\ audition \in Sessions \cup {NoSession} /\ awaited \in Sessions \cup {NoSession}
      /\ closing \in {"open", "start", "end", "final", "cleanup"}
  BY AlikeReflexive DEF IInv, TypeOK
<1>1. CASE EndRequest(s)
  BY <1>0, <1>1, EndKeepsIInv DEF EndRequest, admission
<1>2. CASE EndAuditionRequest(s)
  BY <1>0, <1>2, EndAuditionKeepsIInv DEF EndAuditionRequest, admission
<1>3. CASE WatchdogExpires(s)
  <2>1. Alike(owned[s], [owned[s] EXCEPT !.result = "failed"])
    BY <1>0, AlikeFields
  <2>2. QED
    BY <1>0, <1>3, <2>1, EndAuditionKeepsIInv, EndKeepsIInv DEF WatchdogExpires, admission
<1>4. CASE FeedAudition(s)
  <2>. DEFINE p == [owned[s] EXCEPT !.start = "none"]
  <2>1. Alike(owned[s], p) /\ p \in Owned
    BY <1>0, AlikeFields DEF Alike
  <2>2. Alike(p, [p EXCEPT !.result = "failed"])
    BY <2>1, AlikeFields
  <2>3. [owned[s] EXCEPT !.start = "none", !.result = "failed"] = [p EXCEPT !.result = "failed"]
    OBVIOUS
  <2>4. Alike(owned[s], [owned[s] EXCEPT !.start = "none", !.result = "failed"])
    BY <2>1, <2>2, <2>3, AlikeTransitive
  <2>5. CASE owned' = [owned EXCEPT ![s] = p] /\ UNCHANGED <<phase, current>>
    BY <1>0, <1>4, <2>1, <2>5, TaskStep DEF FeedAudition, admission
  <2>6. CASE EndAudition(s, [owned[s] EXCEPT !.start = "none", !.result = "failed"])
    BY <1>4, <2>4, <2>6, EndAuditionKeepsIInv DEF FeedAudition, admission
  <2>7. QED
    BY <1>4, <2>5, <2>6 DEF FeedAudition
<1>5. CASE CloseEndsSession(s)
  BY <1>0, <1>5, EndKeepsIInv DEF CloseEndsSession, CloseAwaits
<1>6. QED
  BY <1>1, <1>2, <1>3, <1>4, <1>5

-----------------------------------------------------------------------------
(* The monitor.                                                            *)

LEMMA HeardIsOwned ==
  ASSUME NEW o \in Owned, NEW e \in Event
  PROVE  LET p == Heard(o, e) IN
         /\ p \in Owned /\ p.kind = o.kind /\ p.start = o.start /\ p.monitor = o.monitor
         /\ p.playback = o.playback /\ (p.safe => o.safe \/ e = "safe")
<1>. DEFINE p == Heard(o, e)
            Right(q) == /\ q \in Owned /\ q.kind = o.kind /\ q.start = o.start
                        /\ q.monitor = o.monitor /\ q.playback = o.playback
                        /\ q.safe => o.safe \/ e = "safe"
<1>1. Right(o)
  OBVIOUS
<1>2. CASE e = "started" \/ e = "silent" \/ e = "voiced"
  <2>1. \/ p = [o EXCEPT !.stopReady = TRUE]
        \/ p = [o EXCEPT !.pcm = IF @ = "empty" THEN "silent" ELSE @]
        \/ p = [o EXCEPT !.pcm = "voiced"]
        \/ p = o
    BY <1>2 DEF Heard
  <2>2. Right([o EXCEPT !.stopReady = TRUE])
    BY DEF Owned
  <2>3. Right([o EXCEPT !.pcm = IF @ = "empty" THEN "silent" ELSE @])
    BY DEF Owned
  <2>4. Right([o EXCEPT !.pcm = "voiced"])
    BY DEF Owned
  <2>5. QED
    BY <1>1, <2>1, <2>2, <2>3, <2>4
<1>3. CASE e = "invalid"
  <2>. DEFINE a == [o EXCEPT !.pcm = "empty"]
              b == [a EXCEPT !.result = "failed"]
              f == IF o.ending = "none" THEN "new" ELSE o.ending
              c == [b EXCEPT !.ending = f]
  <2>1. p = [o EXCEPT !.pcm = "empty", !.result = "failed",
                      !.ending = IF @ = "none" THEN "new" ELSE @] \/ p = o
    BY <1>3 DEF Heard
  <2>2. [o EXCEPT !.pcm = "empty", !.result = "failed",
                  !.ending = IF @ = "none" THEN "new" ELSE @] = c
    OBVIOUS
  <2>3. f \in {"none", "new", "ack", "drain", "resume", "room", "done"}
    BY DEF Owned
  <2>4. Alike(o, a) /\ a \in Owned
    BY AlikeFields DEF Alike
  <2>5. Alike(a, b) /\ b \in Owned
    BY <2>4, AlikeFields DEF Alike
  <2>6. a.start = o.start /\ b.start = a.start
    BY <2>4 DEF Owned
  <2>. HIDE DEF a, b, f
  <2>7. Alike(b, c)
    BY <2>3, <2>5, AlikeFields
  <2>8. c.start = b.start
    BY <2>5 DEF Owned
  <2>. HIDE DEF c
  <2>9. Right(c)
    BY <2>4, <2>5, <2>6, <2>7, <2>8 DEF Alike
  <2>10. QED
    BY <1>1, <2>1, <2>2, <2>9
<1>4. CASE e = "error"
  <2>. DEFINE a == [o EXCEPT !.pcm = "empty"]
              b == [a EXCEPT !.result = "failed"]
  <2>1. p = b \/ p = o
    BY <1>4 DEF Heard
  <2>2. Right(a)
    BY DEF Owned
  <2>. HIDE DEF a
  <2>3. Right(b)
    BY <2>2 DEF Owned
  <2>. HIDE DEF b
  <2>4. QED
    BY <1>1, <2>1, <2>3
<1>5. CASE e = "safe" \/ e = "unsafe"
  <2>1. /\ e = "safe" => p = [o EXCEPT !.finished = TRUE, !.safe = TRUE]
        /\ e = "unsafe" => p = [o EXCEPT !.finished = TRUE, !.safe = FALSE]
    BY <1>5 DEF Heard
  <2>2. QED
    BY <1>5, <2>1, SafeField
<1>6. CASE e \in {"ready", "draining", "uncertain"}
  <2>1. p = o
    BY <1>6 DEF Heard
  <2>2. QED
    BY <1>1, <2>1
<1>7. QED
  BY <1>2, <1>3, <1>4, <1>5, <1>6 DEF Event

LEMMA ReadsKeepsIInv ==
  ASSUME IInv, NEW s \in Sessions, MonitorReads(s)
  PROVE  IInv'
<1>. DEFINE e == Head(worker[s].pipe)
            w == [worker[s] EXCEPT !.pipe = Tail(@)]
            o == owned'[s]
<1>1. /\ owned[s] \in Owned /\ worker[s] \in Worker /\ owned \in [Sessions -> Owned]
      /\ worker \in [Sessions -> Worker]
  BY DEF IInv, TypeOK
<1>2. worker[s].pipe \in Seq(Event) /\ worker[s].pipe # <<>> /\ owned[s].monitor = "reading" /\ up
  BY <1>1 DEF Worker, MonitorReads
<1>3. /\ e \in Event /\ Tail(worker[s].pipe) \in Seq(Event)
      /\ Said(Tail(worker[s].pipe)) \/ e = "safe" => Said(worker[s].pipe)
  BY <1>2, Taken
<1>4. /\ w \in Worker /\ w.stage = worker[s].stage /\ w.work = worker[s].work
      /\ w.pipe = Tail(worker[s].pipe)
  BY <1>1, <1>3, PipeField
<1>5. worker' = [worker EXCEPT ![s] = w]
  BY DEF MonitorReads
<1>. HIDE DEF w
<1>6. \/ owned' = [owned EXCEPT ![s] = Heard(owned[s], e)] /\ phase' = PhaseAfter(owned[s], e)
      \/ UNCHANGED <<owned, phase>>
  BY DEF MonitorReads
<1>7. phase' \in {"active", "draining", "blocked", phase}
  BY <1>6 DEF PhaseAfter
<1>8. /\ o \in Owned /\ o.kind = owned[s].kind /\ o.start = owned[s].start
      /\ o.monitor = owned[s].monitor /\ o.playback = owned[s].playback
      /\ o.safe => owned[s].safe \/ e = "safe"
      /\ owned' = [owned EXCEPT ![s] = o]
  <2>. HIDE DEF e
  <2>1. CASE owned' = owned
    BY <1>1, <2>1
  <2>2. CASE owned' = [owned EXCEPT ![s] = Heard(owned[s], e)]
    <3>1. o = Heard(owned[s], e)
      BY <1>1, <2>2
    <3>. HIDE DEF o
    <3>2. QED
      BY <1>1, <1>3, <2>2, <3>1, HeardIsOwned
  <2>3. QED
    BY <1>6, <2>1, <2>2
<1>. HIDE DEF o, e
<1>9. TypeOK'
  BY SMTT(30), <1>1, <1>4, <1>5, <1>7, <1>8 DEF IInv, TypeOK, MonitorReads, admission
<1>10. ASSUME NEW t \in Sessions
       PROVE  Steady(t)
  <2>1. CASE t # s
    <3>1. owned'[t] = owned[t] /\ worker'[t] = worker[t]
      BY <1>5, <1>8, <2>1
    <3>2. QED
      BY <3>1 DEF Steady, IInv, UnbornIsSilent, SafeIsTrue, SaysSafe, Busy, Alive, Confirmed
  <2>2. CASE t = s
    <3>1. owned'[s] = o /\ worker'[s] = w
      BY <1>1, <1>5, <1>8
    <3>2. SaysSafe(s)' => SaysSafe(s)
      BY <1>3, <1>4, <1>8, <3>1 DEF SaysSafe
    <3>3. QED
      BY <1>2, <1>4, <1>8, <2>2, <3>1, <3>2 DEF Steady, IInv, UnbornIsSilent, SafeIsTrue, Busy, Alive
  <2>3. QED
    BY <2>1, <2>2
<1>11. UNCHANGED <<up, marker, current, lock>>
  BY DEF MonitorReads, admission
<1>12. QED
  BY <1>2, <1>7, <1>9, <1>10, <1>11, Frame

\* The current session, whose drain is confirmed, becomes o.
LEMMA RetireKeepsIInv ==
  ASSUME IInv, up, NEW s \in Sessions, current = s, Confirmed(owned[s], worker[s]),
         owned[s].monitor \in {"reading", "deleting"},
         NEW o \in Owned, o.start = owned[s].start, o.safe = owned[s].safe,
         o.monitor \in {"done", "failed"},
         Retire(s, o), UNCHANGED <<shutdown, audition, lock, starter, worker>>
  PROVE  IInv'
<1>1. /\ owned' \in [Sessions -> Owned] /\ owned'[s] = o
      /\ \A t \in Sessions : t # s => owned'[t] = owned[t]
  BY DEF Retire, IInv, TypeOK
<1>2. TypeOK'
  BY <1>1 DEF Retire, IInv, TypeOK, shutdown
<1>3. worker[s].stage = "clean" /\ worker[s].work = "none"
  BY DEF Confirmed, IInv, SafeIsTrue, SaysSafe
<1>4. Quiet' /\ UnbornIsSilent'
  BY <1>3 DEF IInv, BusyIsCurrent, UnbornIsSilent, Quiet, Busy, Alive, AliveStages
<1>5. SafeIsTrue'
  BY <1>1 DEF IInv, SafeIsTrue, SaysSafe
<1>6. \A t \in Sessions : ~Admitting(t) /\ ~Spawning(t) /\ (t # s => owned[t].monitor # "deleting")
  BY ConstantsOK DEF IInv, AdmittingIsAlone, StartingIsUnmonitored, BusyIsCurrent, DeletingIsConfirmed
<1>7. \A t \in Sessions : ~Admitting(t)' /\ ~Spawning(t)' /\ owned'[t].monitor # "deleting"
  BY <1>1, <1>6 DEF Admitting, Spawning
<1>8. up' /\ ~marker' /\ (lock' = "preflight" \/ phase' = "idle" => current' = NoSession)
  BY ConstantsOK DEF Retire, shutdown, IInv, PreflightIsAlone
<1>9. QED
  BY <1>2, <1>4, <1>5, <1>7, <1>8, Settled

LEMMA CompletedIsOwned ==
  ASSUME NEW o \in Owned
  PROVE  LET p == Completed(o) IN
         p \in Owned /\ p.start = o.start /\ p.safe = o.safe /\ p.monitor = o.monitor
<1>. DEFINE c == IF Outcome(o) = "ready" THEN o.pcm ELSE "empty"
            h == HoldsPlayback(o)
            p1 == [o EXCEPT !.completed = TRUE]
            p2 == [p1 EXCEPT !.result = Outcome(o)]
            p3 == [p2 EXCEPT !.pcm = c]
            p4 == [p3 EXCEPT !.playback = h]
            Right(p) == p \in Owned /\ p.start = o.start /\ p.safe = o.safe /\ p.monitor = o.monitor
<1>1. Completed(o) = p4
  BY DEF Completed
<1>2. Outcome(o) \in {"generating", "ready", "failed", "cancelled"} /\ c \in {"empty", "silent", "voiced"}
  BY DEF Outcome, Owned
<1>3. h \in BOOLEAN
  BY DEF HoldsPlayback, Owned
<1>. HIDE DEF c, h
<1>4. Right(p1)
  BY DEF Owned
<1>. HIDE DEF p1
<1>5. Right(p2)
  BY <1>2, <1>4 DEF Owned
<1>. HIDE DEF p2
<1>6. Right(p3)
  BY <1>2, <1>5 DEF Owned
<1>. HIDE DEF p3
<1>7. Right(p4)
  BY <1>3, <1>6, PlaybackField
<1>8. QED
  BY <1>1, <1>7

LEMMA MonitorFrame ==
  ASSUME IInv, up, NEW s \in Sessions, owned[s].monitor \in {"reading", "deleting"},
         NEW o \in Owned, o.kind = owned[s].kind, o.start = owned[s].start,
         o.finished = owned[s].finished, o.safe = owned[s].safe, o.playback = owned[s].playback,
         o.monitor = "deleting" =>
           current = s /\ o.kind = "room" /\ Confirmed(owned[s], worker[s]),
         owned' = [owned EXCEPT ![s] = o],
         UNCHANGED <<shutdown, marker, current, audition, lock, starter, worker>>,
         phase' \in {phase, "blocked"}
  PROVE  IInv'
<1>. USE DEF shutdown
<1>1. /\ owned' \in [Sessions -> Owned] /\ owned'[s] = o
      /\ \A t \in Sessions : t # s => owned'[t] = owned[t]
  BY DEF IInv, TypeOK
<1>2. TypeOK' /\ DownHoldsNothing' /\ UnbornIsSilent'
  BY <1>1 DEF IInv, TypeOK, DownHoldsNothing, UnbornIsSilent
<1>3. SafeIsTrue' /\ OneSessionBusy'
  BY <1>1 DEF IInv, SafeIsTrue, SaysSafe, OneSessionBusy, Busy, Alive
<1>4. ~Admitting(s) /\ ~Spawning(s)
  BY DEF IInv, StartingIsUnmonitored
<1>5. /\ \A t \in Sessions : Admitting(t)' <=> Admitting(t)
      /\ \A t \in Sessions : Spawning(t)' <=> Spawning(t)
  BY <1>1 DEF Admitting, Spawning
<1>6. MarkedBeforeSpawn' /\ BusyIsCurrent'
  BY <1>1, <1>5 DEF IInv, MarkedBeforeSpawn, BusyIsCurrent, Busy, Alive
<1>7. AdmittingIsAlone' /\ PreflightIsAlone' /\ IdleIsOpen'
  BY <1>5 DEF IInv, AdmittingIsAlone, PreflightIsAlone, IdleIsOpen
<1>8. StartingIsUnmonitored' /\ HeldIsUnmarked'
  BY <1>1, <1>4, <1>5 DEF IInv, StartingIsUnmonitored, HeldIsUnmarked
<1>9. DeletingIsConfirmed'
  BY <1>1 DEF IInv, DeletingIsConfirmed, Confirmed
<1>10. QED
  BY <1>2, <1>3, <1>6, <1>7, <1>8, <1>9 DEF IInv

LEMMA SettlesKeepsIInv ==
  ASSUME IInv, up, NEW s \in Sessions, owned[s].monitor = "reading",
         NEW leaving \in {"done", "failed"}, MonitorSettles(s, leaving),
         UNCHANGED <<shutdown, audition, lock, starter, worker>>
  PROVE  IInv'
<1>. DEFINE o == owned[s]
            left == [o EXCEPT !.monitor = leaving]
<1>0. o \in Owned
  BY DEF IInv, TypeOK
<1>1. \A v \in {"done", "failed", "deleting"} :
        LET p == [o EXCEPT !.monitor = v] IN
        /\ p \in Owned /\ p.monitor = v /\ p.kind = o.kind /\ p.start = o.start
        /\ p.finished = o.finished /\ p.safe = o.safe /\ p.playback = o.playback
  BY <1>0 DEF Owned
<1>2. CASE /\ current # s
           /\ owned' = [owned EXCEPT ![s].monitor = leaving]
           /\ UNCHANGED <<marker, phase, current>>
  BY <1>1, <1>2, MonitorFrame
<1>3. CASE current = s /\ Confirmed(o, worker[s]) /\ Retire(s, Completed(left))
  <2>1. left \in Owned /\ left.start = o.start /\ left.safe = o.safe /\ left.monitor = leaving
    BY <1>1
  <2>. HIDE DEF left
  <2>2. /\ Completed(left) \in Owned /\ Completed(left).start = o.start
        /\ Completed(left).safe = o.safe /\ Completed(left).monitor = leaving
    BY <2>1, CompletedIsOwned
  <2>3. QED
    BY <1>3, <2>2, RetireKeepsIInv
<1>4. CASE /\ current = s /\ Confirmed(o, worker[s]) /\ o.kind = "room"
           /\ owned' = [owned EXCEPT ![s].monitor = "deleting"]
           /\ UNCHANGED <<marker, phase, current>>
  BY <1>1, <1>4, MonitorFrame
<1>5. CASE /\ current = s /\ phase' = "blocked"
           /\ \E p : /\ owned' = [owned EXCEPT ![s] = p]
                     /\ p = [(IF o.kind = "audition"
                              THEN [o EXCEPT !.pcm = "empty", !.result = "failed"] ELSE o)
                              EXCEPT !.monitor = leaving,
                                     !.ending = IF Alive(s) /\ @ = "none" THEN "new" ELSE @]
           /\ UNCHANGED <<marker, current>>
  <2>. DEFINE a == [o EXCEPT !.pcm = "empty"]
              b == [a EXCEPT !.result = "failed"]
              u == IF o.kind = "audition" THEN [o EXCEPT !.pcm = "empty", !.result = "failed"] ELSE o
              m == [u EXCEPT !.monitor = leaving]
              f == IF Alive(s) /\ u.ending = "none" THEN "new" ELSE u.ending
              p == [m EXCEPT !.ending = f]
  <2>1. Alike(o, a) /\ a \in Owned
    BY ZenonT(60), <1>0, AlikeFields DEF Alike
  <2>2. Alike(a, b) /\ b \in Owned
    BY <2>1, AlikeFields DEF Alike
  <2>3. b.start = o.start
    BY <2>1, <2>2 DEF Owned
  <2>4. u = b \/ u = o
    OBVIOUS
  <2>5. owned' = [owned EXCEPT ![s] = p]
    BY <1>5
  <2>. HIDE DEF a, b
  <2>6. /\ u \in Owned /\ u.kind = o.kind /\ u.start = o.start /\ u.finished = o.finished
        /\ u.safe = o.safe /\ u.playback = o.playback
    BY <1>0, <2>1, <2>2, <2>3, <2>4 DEF Alike
  <2>. HIDE DEF u
  <2>7. f \in {"none", "new", "ack", "drain", "resume", "room", "done"}
    BY <2>6 DEF Owned
  <2>8. /\ m \in Owned /\ m.monitor = leaving /\ m.kind = o.kind /\ m.start = o.start
        /\ m.finished = o.finished /\ m.safe = o.safe /\ m.playback = o.playback
    BY <2>6 DEF Owned
  <2>. HIDE DEF m, f
  <2>9. Alike(m, p) /\ p.start = m.start
    BY <2>7, <2>8, AlikeFields DEF Owned
  <2>. HIDE DEF p
  <2>10. QED
    BY ZenonT(60), <1>5, <2>5, <2>8, <2>9, MonitorFrame DEF Alike
<1>6. QED
  BY <1>2, <1>3, <1>4, <1>5 DEF MonitorSettles

LEMMA MonitorKeepsIInv ==
  ASSUME IInv, NEW s \in Sessions, MonitorStep(s)
  PROVE  IInv'
<1>1. CASE MonitorReads(s)
  BY <1>1, ReadsKeepsIInv
<1>2. CASE MonitorEnds(s) \/ MonitorFails(s)
  BY <1>2, SettlesKeepsIInv DEF MonitorEnds, MonitorFails
<1>3. CASE MonitorDeletesRoom(s)
  <2>. DEFINE o == [owned[s] EXCEPT !.monitor = "done"]
  <2>1. owned[s] \in Owned
    BY DEF IInv, TypeOK
  <2>2. /\ o \in Owned /\ o.monitor = "done" /\ o.kind = owned[s].kind /\ o.start = owned[s].start
        /\ o.finished = owned[s].finished /\ o.safe = owned[s].safe
        /\ o.playback = owned[s].playback
    BY <2>1 DEF Owned
  <2>3. /\ up /\ owned[s].monitor = "deleting" /\ current = s /\ Confirmed(owned[s], worker[s])
        /\ UNCHANGED <<shutdown, audition, lock, starter, worker>>
    BY <1>3 DEF MonitorDeletesRoom, IInv, DeletingIsConfirmed
  <2>4. \/ Retire(s, o)
        \/ /\ phase' = "blocked" /\ owned' = [owned EXCEPT ![s] = o]
           /\ UNCHANGED <<marker, current>>
    BY <1>3 DEF MonitorDeletesRoom
  <2>. HIDE DEF o
  <2>5. QED
    BY <2>2, <2>3, <2>4, RetireKeepsIInv, MonitorFrame
<1>4. QED
  BY <1>1, <1>2, <1>3 DEF MonitorStep

-----------------------------------------------------------------------------
(* Starting a session.                                                     *)

LEMMA NotStartedKeepsIInv ==
  ASSUME IInv, up, NEW s \in Sessions,
         Admitting(s) \/ (owned[s].start = "spawn" /\ worker[s].stage = "none"),
         NEW o \in Owned, o.start \in {"none", "cleanup"}, o.monitor = owned[s].monitor,
         o.safe = owned[s].safe,
         NotStarted(s, o), UNCHANGED <<shutdown, audition, lock, starter, worker>>
  PROVE  IInv'
<1>. USE DEF NotStarted, shutdown
<1>1. /\ owned' \in [Sessions -> Owned] /\ owned'[s] = o
      /\ \A t \in Sessions : t # s => owned'[t] = owned[t]
  BY DEF IInv, TypeOK
<1>2. TypeOK'
  BY <1>1 DEF IInv, TypeOK
<1>3. /\ \A t \in Sessions : t # s => ~Admitting(t) /\ ~Spawning(t) /\ ~Busy(t)
      /\ \A t \in Sessions : owned[t].monitor # "deleting"
      /\ ~Busy(s)
  <2>1. CASE Admitting(s)
    BY <2>1, ConstantsOK DEF IInv, AdmittingIsAlone, BusyIsCurrent, DeletingIsConfirmed
  <2>2. CASE owned[s].start = "spawn" /\ worker[s].stage = "none"
    <3>1. current = s /\ owned[s].monitor = "none" /\ worker[s].work = "none"
      BY <2>2 DEF IInv, BusyIsCurrent, StartingIsUnmonitored, UnbornIsSilent, Spawning
    <3>2. QED
      BY <2>2, <3>1, ConstantsOK
      DEF IInv, AdmittingIsAlone, BusyIsCurrent, DeletingIsConfirmed, Busy, Alive, AliveStages
  <2>3. QED
    BY <2>1, <2>2
<1>4. Quiet' /\ UnbornIsSilent'
  BY <1>3 DEF Quiet, Busy, Alive, IInv, UnbornIsSilent
<1>5. SafeIsTrue'
  BY <1>1 DEF IInv, SafeIsTrue, SaysSafe
<1>6. \A t \in Sessions : ~Admitting(t)' /\ ~Spawning(t)' /\ owned'[t].monitor # "deleting"
  BY <1>1, <1>3 DEF Admitting, Spawning
<1>7. QED
  BY <1>2, <1>4, <1>5, <1>6, Settled

\* A step of the start task of s that keeps the rest of its object.
LEMMA NextStageKeepsIInv ==
  ASSUME IInv, up, NEW s \in Sessions, NEW stage \in {"room", "spawn"},
         owned' = [owned EXCEPT ![s].start = stage],
         \/ owned[s].start = "checks" /\ stage = "room" /\ UNCHANGED <<marker, current>>
         \/ owned[s].start \in {"room", "mark"} /\ stage = "spawn" /\ marker' = TRUE /\ current' = s,
         UNCHANGED <<shutdown, phase, audition, lock, starter, worker>>
  PROVE  IInv'
<1>. DEFINE o == [owned[s] EXCEPT !.start = stage]
<1>0. owned[s] \in Owned
  BY DEF IInv, TypeOK
<1>1. /\ o \in Owned /\ o.start = stage /\ o.kind = owned[s].kind /\ o.monitor = owned[s].monitor
      /\ o.finished = owned[s].finished /\ o.safe = owned[s].safe /\ o.playback = owned[s].playback
  BY <1>0 DEF Owned
<1>2. owned' = [owned EXCEPT ![s] = o]
  OBVIOUS
<1>. HIDE DEF o
<1>3. /\ owned' \in [Sessions -> Owned] /\ owned'[s] = o
      /\ \A t \in Sessions : t # s => owned'[t] = owned[t]
  BY <1>1, <1>2 DEF IInv, TypeOK
<1>4. TypeOK' /\ DownHoldsNothing' /\ UnbornIsSilent'
  BY ZenonT(60), <1>3 DEF IInv, TypeOK, DownHoldsNothing, UnbornIsSilent, shutdown
<1>5. SafeIsTrue' /\ OneSessionBusy'
  BY <1>1, <1>3 DEF IInv, SafeIsTrue, SaysSafe, OneSessionBusy, Busy, Alive
<1>6. /\ owned[s].monitor = "none" /\ ~owned[s].playback
      /\ \A t \in Sessions : t # s => ~Admitting(t) /\ ~Spawning(t) /\ ~Busy(t)
      /\ \A t \in Sessions : owned[t].monitor # "deleting"
      /\ phase # "idle" /\ lock # "preflight"
  <2>1. CASE Admitting(s)
    BY <2>1, ConstantsOK DEF IInv, AdmittingIsAlone, BusyIsCurrent, DeletingIsConfirmed, StartingIsUnmonitored
  <2>2. CASE owned[s].start = "mark"
    <3>1. current = s /\ owned[s].monitor = "none" /\ ~owned[s].playback
      BY <2>2 DEF IInv, BusyIsCurrent, StartingIsUnmonitored, Spawning
    <3>2. QED
      BY <3>1, ConstantsOK
      DEF IInv, AdmittingIsAlone, BusyIsCurrent, DeletingIsConfirmed, IdleIsOpen, PreflightIsAlone
  <2>3. QED
    BY <2>1, <2>2 DEF Admitting
<1>7. MarkedBeforeSpawn' /\ BusyIsCurrent'
  <2>1. CASE stage = "room"
    BY <1>1, <1>3, <1>6, <2>1 DEF IInv, MarkedBeforeSpawn, BusyIsCurrent, Spawning, Busy, Alive, shutdown
  <2>2. CASE stage = "spawn"
    BY <1>1, <1>3, <1>6, <2>2 DEF IInv, MarkedBeforeSpawn, BusyIsCurrent, Spawning, Busy, Alive, shutdown
  <2>3. QED
    BY <2>1, <2>2
<1>8. AdmittingIsAlone' /\ PreflightIsAlone' /\ IdleIsOpen'
  BY <1>1, <1>3, <1>6 DEF IInv, AdmittingIsAlone, PreflightIsAlone, IdleIsOpen, Admitting
<1>9. StartingIsUnmonitored' /\ DeletingIsConfirmed'
  BY <1>1, <1>3, <1>6 DEF IInv, StartingIsUnmonitored, DeletingIsConfirmed, Admitting, Spawning
<1>10. HeldIsUnmarked'
  BY <1>1, <1>3, <1>6 DEF IInv, HeldIsUnmarked
<1>11. QED
  BY <1>4, <1>5, <1>7, <1>8, <1>9, <1>10 DEF IInv

LEMMA ForkKeepsIInv ==
  ASSUME IInv, NEW s \in Sessions, Fork(s)
  PROVE  IInv'
<1>. DEFINE w == [worker[s] EXCEPT !.stage = "booting"]
<1>. USE DEF admission
<1>0. worker[s] \in Worker /\ worker[s].stage = "none" /\ owned[s].start = "spawn" /\ up
  BY DEF IInv, TypeOK, Fork
<1>1. w \in Worker /\ w.stage = "booting" /\ w.work = worker[s].work /\ w.pipe = worker[s].pipe
  BY <1>0, StageField DEF AliveStages
<1>2. worker' = [worker EXCEPT ![s] = w]
  BY DEF Fork
<1>. HIDE DEF w
<1>3. /\ worker' \in [Sessions -> Worker] /\ worker'[s] = w
      /\ \A t \in Sessions : t # s => worker'[t] = worker[t]
  BY <1>1, <1>2 DEF IInv, TypeOK
<1>4. UNCHANGED <<up, marker, closing, awaited, lock, starter, phase, current, audition, owned>>
  BY DEF Fork
<1>5. /\ current = s /\ marker /\ owned[s].monitor = "none" /\ ~SaysSafe(s)
      /\ \A t \in Sessions : Busy(t) => t = s
  BY <1>0 DEF IInv, BusyIsCurrent, Spawning, MarkedBeforeSpawn, StartingIsUnmonitored, SafeIsTrue
<1>6. \A t \in Sessions : Busy(t)' => t = s
  BY <1>3, <1>5 DEF Busy, Alive
<1>7. TypeOK' /\ DownHoldsNothing' /\ UnbornIsSilent'
  BY <1>1, <1>3, <1>4 DEF IInv, TypeOK, DownHoldsNothing, UnbornIsSilent
<1>8. SafeIsTrue'
  BY <1>1, <1>3, <1>4, <1>5 DEF IInv, SafeIsTrue, SaysSafe
<1>9. MarkedBeforeSpawn' /\ BusyIsCurrent' /\ OneSessionBusy'
  BY <1>4, <1>5, <1>6 DEF IInv, MarkedBeforeSpawn, BusyIsCurrent, OneSessionBusy, Spawning
<1>10. AdmittingIsAlone' /\ PreflightIsAlone' /\ IdleIsOpen' /\ StartingIsUnmonitored' /\ HeldIsUnmarked'
  BY <1>4 DEF IInv, AdmittingIsAlone, PreflightIsAlone, IdleIsOpen, StartingIsUnmonitored,
              HeldIsUnmarked, Admitting, Spawning
<1>11. DeletingIsConfirmed'
  BY <1>3, <1>4, <1>5 DEF IInv, DeletingIsConfirmed
<1>12. QED
  BY <1>7, <1>8, <1>9, <1>10, <1>11 DEF IInv

LEMMA ReturnsKeepsIInv ==
  ASSUME IInv, NEW s \in Sessions, SpawnReturns(s)
  PROVE  IInv'
<1>. DEFINE at == IF owned[s].kind = "room" THEN "none" ELSE "stdin"
            a == [owned[s] EXCEPT !.handle = TRUE]
            b == [a EXCEPT !.monitor = "reading"]
            o == [b EXCEPT !.start = at]
<1>. USE DEF admission
<1>0. /\ up /\ owned[s] \in Owned /\ owned \in [Sessions -> Owned]
      /\ UNCHANGED <<up, marker, closing, awaited, lock, starter, phase, current, audition, worker>>
  BY DEF IInv, TypeOK, SpawnReturns
<1>1. owned' = [owned EXCEPT ![s] = o]
  BY <1>0 DEF SpawnReturns
<1>2. Alike(owned[s], a) /\ a \in Owned
  BY <1>0, AlikeFields DEF Alike
<1>. HIDE DEF a
<1>3. b \in Owned /\ b.safe = a.safe /\ b.playback = a.playback /\ b.monitor = "reading"
  BY <1>2 DEF Owned
<1>. HIDE DEF b
<1>4. /\ o \in Owned /\ o.safe = owned[s].safe /\ o.playback = owned[s].playback
      /\ o.monitor = "reading" /\ o.start \in {"none", "stdin"}
  BY <1>2, <1>3 DEF Owned, Alike
<1>. HIDE DEF o
<1>5. /\ owned' \in [Sessions -> Owned] /\ owned'[s] = o
      /\ \A t \in Sessions : t # s => owned'[t] = owned[t]
  BY <1>0, <1>1, <1>4
<1>6. TypeOK'
  BY <1>0, <1>5 DEF IInv, TypeOK
<1>7. ASSUME NEW t \in Sessions
      PROVE  Steady(t)
  <2>. USE DEF Steady, IInv, UnbornIsSilent, SafeIsTrue, SaysSafe, Busy, Alive, Confirmed
  <2>1. CASE t = s
    BY <1>0, <1>4, <1>5, <2>1
  <2>2. CASE t # s
    BY <1>0, <1>5, <2>2
  <2>3. QED
    BY <2>1, <2>2
<1>8. QED
  BY <1>0, <1>6, <1>7, Frame

LEMMA StartKeepsIInv ==
  ASSUME IInv, NEW s \in Sessions, StartStep(s)
  PROVE  IInv'
<1>0. owned[s] \in Owned
  BY DEF IInv, TypeOK
<1>1. \A v \in {"none", "cleanup"} :
        LET o == [owned[s] EXCEPT !.start = v] IN
        o \in Owned /\ o.start = v /\ o.monitor = owned[s].monitor /\ o.safe = owned[s].safe
  BY <1>0 DEF Owned
<1>2. CASE CreateChecks(s)
  <2>1. CASE NotStarted(s, [owned[s] EXCEPT !.start = "none"])
    BY <1>1, <1>2, <2>1, NotStartedKeepsIInv DEF CreateChecks, Admitting
  <2>2. CASE owned' = [owned EXCEPT ![s].start = "room"] /\ UNCHANGED <<marker, current, phase>>
    BY <1>2, <2>2, NextStageKeepsIInv DEF CreateChecks
  <2>3. QED
    BY <1>2, <2>1, <2>2 DEF CreateChecks
<1>3. CASE CreateRoom(s)
  <2>1. CASE \E v \in {"none", "cleanup"} : NotStarted(s, [owned[s] EXCEPT !.start = v])
    BY <1>1, <1>3, <2>1, NotStartedKeepsIInv DEF CreateRoom, Admitting
  <2>2. CASE /\ marker' = TRUE /\ current' = s /\ owned' = [owned EXCEPT ![s].start = "spawn"]
             /\ UNCHANGED phase
    BY <1>3, <2>2, NextStageKeepsIInv DEF CreateRoom
  <2>3. QED
    BY <1>3, <2>1, <2>2 DEF CreateRoom
<1>4. CASE MarkAudition(s)
  <2>1. current = s
    BY <1>4 DEF MarkAudition, IInv, BusyIsCurrent, Spawning
  <2>2. QED
    BY <1>4, <2>1, NextStageKeepsIInv DEF MarkAudition
<1>5. CASE Fork(s) \/ SpawnReturns(s)
  BY <1>5, ForkKeepsIInv, ReturnsKeepsIInv
<1>6. CASE SpawnFails(s)
  <2>. DEFINE a == [owned[s] EXCEPT !.start = "none"]
              b == [a EXCEPT !.result = "failed"]
  <2>1. a \in Owned /\ a.start = "none" /\ a.monitor = owned[s].monitor /\ a.safe = owned[s].safe
    BY <1>1
  <2>2. [owned[s] EXCEPT !.start = "none", !.result = "failed"] = b
    OBVIOUS
  <2>. HIDE DEF a
  <2>3. b \in Owned /\ b.start = "none" /\ b.monitor = owned[s].monitor /\ b.safe = owned[s].safe
    BY <2>1 DEF Owned
  <2>. HIDE DEF b
  <2>4. NotStarted(s, [owned[s] EXCEPT !.start = "cleanup"]) \/ NotStarted(s, b)
    BY <1>6, <2>2 DEF SpawnFails
  <2>5. QED
    BY <1>1, <1>6, <2>3, <2>4, NotStartedKeepsIInv DEF SpawnFails
<1>7. CASE FeedAudition(s) \/ CleanUpRoom(s)
  BY <1>7, RequestsKeepIInv, EndTaskKeepsIInv
<1>8. QED
  BY <1>2, <1>3, <1>4, <1>5, <1>6, <1>7 DEF StartStep

-----------------------------------------------------------------------------
(* Requests that begin a session.                                          *)

\* With the session s, which starts at the stage "checks" or "mark", every other
\* session is at rest.
LEMMA AdmittedKeepsIInv ==
  ASSUME IInv, up, NEW s \in Sessions, Fresh(s), current = NoSession, ~marker,
         \A t \in Sessions : ~Admitting(t),
         NEW o \in Owned, ~o.safe, ~o.playback, o.monitor = "none",
         owned' = [Cleared(owned) EXCEPT ![s] = o],
         worker' = [worker EXCEPT ![s] = NoWorker],
         phase' = "starting", lock' = "free", starter' = s,
         audition' \in Sessions \cup {NoSession},
         UNCHANGED <<shutdown, marker>>,
         \/ o.start = "checks" /\ current' = NoSession
         \/ o.start = "mark" /\ current' = s
  PROVE  IInv'
<1>. USE DEF shutdown
<1>1. /\ Cleared(owned) \in [Sessions -> Owned]
      /\ \A t \in Sessions : Alike(owned[t], Cleared(owned)[t])
  BY ClearedIsAlike DEF IInv
<1>2. /\ owned' \in [Sessions -> Owned] /\ owned'[s] = o
      /\ \A t \in Sessions : t # s => Alike(owned[t], owned'[t])
  BY <1>1
<1>3. /\ worker' \in [Sessions -> Worker] /\ worker'[s] = NoWorker
      /\ \A t \in Sessions : t # s => worker'[t] = worker[t]
  BY NoWorkerIsWorker DEF IInv, TypeOK
<1>4. TypeOK' /\ DownHoldsNothing' /\ UnbornIsSilent'
  BY <1>2, <1>3, NoWorkerIsWorker DEF IInv, TypeOK, DownHoldsNothing, UnbornIsSilent
<1>5. ASSUME NEW t \in Sessions, SaysSafe(t)'
      PROVE  worker'[t].stage \in {"exiting", "clean", "failed"} /\ worker'[t].work = "none"
  <2>1. CASE t = s
    BY <1>2, <1>3, <1>5, <2>1, NoWorkerIsWorker DEF SaysSafe
  <2>2. CASE t # s
    <3>1. SaysSafe(t)
      BY <1>2, <1>3, <1>5, <2>2 DEF SaysSafe, Alike
    <3>2. QED
      BY <1>3, <2>2, <3>1 DEF IInv, SafeIsTrue
  <2>3. QED
    BY <2>1, <2>2
<1>6. \A t \in Sessions :
        ~Busy(t) /\ ~Spawning(t) /\ owned[t].monitor # "deleting"
  BY ConstantsOK DEF IInv, BusyIsCurrent, DeletingIsConfirmed
<1>7. \A t \in Sessions :
        ~Busy(t)' /\ (t # s => ~Spawning(t)' /\ ~Admitting(t)') /\ owned'[t].monitor # "deleting"
  <2>1. \A t \in Sessions : ~Busy(t)'
    BY <1>3, <1>6, NoWorkerIsWorker DEF Busy, Alive, AliveStages
  <2>2. \A t \in Sessions : t # s => ~Spawning(t)' /\ ~Admitting(t)'
    BY <1>2, <1>6 DEF Alike, Spawning, Admitting
  <2>3. \A t \in Sessions : owned'[t].monitor # "deleting"
    BY <1>2, <1>6 DEF Alike
  <2>4. QED
    BY <2>1, <2>2, <2>3
<1>8. SafeIsTrue' /\ OneSessionBusy' /\ DeletingIsConfirmed'
  BY <1>5, <1>7 DEF SafeIsTrue, OneSessionBusy, DeletingIsConfirmed
<1>9. BusyIsCurrent'
  BY <1>2, <1>7 DEF BusyIsCurrent, Spawning
<1>10. MarkedBeforeSpawn'
  BY <1>2, <1>7 DEF MarkedBeforeSpawn, Spawning
<1>11. AdmittingIsAlone' /\ PreflightIsAlone' /\ IdleIsOpen'
  BY <1>2, <1>7 DEF AdmittingIsAlone, PreflightIsAlone, IdleIsOpen, Admitting
<1>12. StartingIsUnmonitored' /\ HeldIsUnmarked'
  BY <1>2, <1>7 DEF StartingIsUnmonitored, HeldIsUnmarked
<1>13. QED
  BY <1>4, <1>8, <1>9, <1>10, <1>11, <1>12 DEF IInv

LEMMA RequestKeepsIInv ==
  ASSUME IInv, NEW s \in Sessions, RequestStep(s)
  PROVE  IInv'
<1>1. CASE RequestRoom(s)
  <2>. DEFINE o == NewSession("room", FALSE, "checks")
  <2>1. o \in Owned /\ o.start = "checks" /\ o.monitor = "none" /\ ~o.playback /\ ~o.safe
    BY ZenonT(60), NewIsOwned
  <2>. HIDE DEF o
  <2>2. /\ up /\ current = NoSession /\ Fresh(s) /\ ~marker
        /\ \A t \in Sessions : ~Admitting(t)
    BY <1>1 DEF RequestRoom, RequireIdle, IInv, IdleIsOpen, AdmittingIsAlone
  <2>3. /\ owned' = [Cleared(owned) EXCEPT ![s] = o]
        /\ worker' = [worker EXCEPT ![s] = NoWorker]
        /\ phase' = "starting" /\ lock' = "free" /\ starter' = s /\ audition' = NoSession
        /\ UNCHANGED <<shutdown, marker, current>>
    BY <1>1 DEF RequestRoom, o
  <2>4. QED
    BY <2>1, <2>2, <2>3, AdmittedKeepsIInv
<1>2. ASSUME NEW hold \in BOOLEAN, PreflightPasses(s, hold)
      PROVE  IInv'
  <2>. DEFINE o == NewSession("audition", hold, "mark")
  <2>1. o \in Owned /\ o.start = "mark" /\ o.monitor = "none" /\ ~o.playback /\ ~o.safe
    BY DEF NewSession, Owned
  <2>. HIDE DEF o
  <2>2. /\ up /\ current = NoSession /\ Fresh(s) /\ ~marker
        /\ \A t \in Sessions : ~Admitting(t)
    BY <1>2 DEF PreflightPasses, IInv, PreflightIsAlone, AdmittingIsAlone
  <2>3. /\ owned' = [Cleared(owned) EXCEPT ![s] = o]
        /\ worker' = [worker EXCEPT ![s] = NoWorker]
        /\ phase' = "starting" /\ lock' = "free" /\ starter' = s /\ audition' = s /\ current' = s
        /\ UNCHANGED <<shutdown, marker>>
    BY <1>2 DEF PreflightPasses, o
  <2>4. QED
    BY <2>1, <2>2, <2>3, AdmittedKeepsIInv
<1>3. CASE \/ EndRequest(s) \/ EndAuditionRequest(s) \/ TakeAudio(s)
           \/ WatchdogExpires(s) \/ CloseEndsSession(s)
  BY <1>3, RequestsKeepIInv, EndTaskKeepsIInv
<1>4. QED
  BY <1>1, <1>2, <1>3 DEF RequestStep

-----------------------------------------------------------------------------
(* The library, the shutdown sequence and the life of the broker.          *)

LEMMA LibraryKeepsIInv ==
  ASSUME IInv, LibraryStep \/ CloseStep
  PROVE  IInv'
<1>. USE DEF LibraryStep, CloseStep, RequestAudition, PreflightFails, LibraryRequest, LibraryDone,
             ResultExpires, CloseBegins, CloseFindsNoSession, CloseAwaited, CloseFinishes
<1>1. /\ up /\ UNCHANGED <<up, marker, phase, current, starter, worker>>
      /\ audition' \in {NoSession, audition}
  BY DEF admission, shutdown
<1>2. CASE RequestAudition
  <2>1. phase = "idle" /\ current = NoSession /\ UNCHANGED <<closing, awaited, audition, owned>>
        /\ lock' = "preflight"
    BY <1>2 DEF RequireIdle, shutdown
  <2>2. \A t \in Sessions : Admitting(t)' <=> Admitting(t)
    BY <2>1 DEF Admitting
  <2>3. TypeOK' /\ DownHoldsNothing' /\ UnbornIsSilent' /\ SafeIsTrue'
    BY <1>1, <2>1 DEF IInv, TypeOK, DownHoldsNothing, UnbornIsSilent, SafeIsTrue, SaysSafe
  <2>4. MarkedBeforeSpawn' /\ BusyIsCurrent' /\ OneSessionBusy' /\ HeldIsUnmarked'
    BY <1>1, <2>1 DEF IInv, MarkedBeforeSpawn, BusyIsCurrent, OneSessionBusy, HeldIsUnmarked,
                      Busy, Alive, Spawning
  <2>5. AdmittingIsAlone'
    BY <1>1, <2>1, <2>2 DEF IInv, AdmittingIsAlone
  <2>6. PreflightIsAlone' /\ IdleIsOpen'
    BY <1>1, <2>1 DEF IInv, PreflightIsAlone, IdleIsOpen
  <2>7. StartingIsUnmonitored' /\ DeletingIsConfirmed'
    BY <1>1, <2>1 DEF IInv, StartingIsUnmonitored, DeletingIsConfirmed, Admitting, Spawning, Confirmed
  <2>8. QED
    BY <2>3, <2>4, <2>5, <2>6, <2>7 DEF IInv
<1>3. CASE ~RequestAudition
  <2>1. /\ lock' \in {"free", "library", lock} /\ (owned' = owned \/ owned' = Cleared(owned))
        /\ closing' \in {"start", "final", "cleanup", closing} /\ awaited' \in {NoSession, awaited}
    BY <1>3 DEF admission, shutdown
  <2>2. TypeOK /\ \A t \in Sessions : Alike(owned[t], owned[t])
    BY AlikeReflexive DEF IInv, TypeOK
  <2>3. owned' \in [Sessions -> Owned] /\ \A t \in Sessions : Alike(owned[t], owned'[t])
    BY <2>1, <2>2, ClearedIsAlike DEF TypeOK
  <2>4. TypeOK'
    BY <1>1, <2>1, <2>3 DEF IInv, TypeOK
  <2>5. \A t \in Sessions : Kept(t)
    BY <1>1 DEF Kept
  <2>6. QED
    BY <1>1, <2>1, <2>3, <2>4, <2>5, TaskFrame
<1>4. QED
  BY <1>2, <1>3

LEMMA NoOneIsOwned ==
  NoOne \in Owned /\ NoOne.start = "none" /\ NoOne.monitor = "none" /\ ~NoOne.playback /\ ~NoOne.safe
  BY ZenonT(60), NewIsOwned DEF NoOne

\* No broker runs after the step: only what the marker covers is left.
LEMMA DownKeepsIInv ==
  ASSUME TypeOK', ~up', phase' = "idle", current' = NoSession, lock' = "free",
         owned' = [s \in Sessions |-> NoOne],
         UnbornIsSilent', SafeIsTrue', OneSessionBusy', \A s \in Sessions : Busy(s)' => marker'
  PROVE  IInv'
<1>1. \A s \in Sessions : owned'[s] = NoOne
  OBVIOUS
<1>2. \A s \in Sessions :
        ~Admitting(s)' /\ ~Spawning(s)' /\ owned'[s].monitor # "deleting" /\ ~owned'[s].playback
  BY <1>1, NoOneIsOwned DEF Admitting, Spawning
<1>3. DownHoldsNothing' /\ MarkedBeforeSpawn' /\ BusyIsCurrent'
  BY <1>2 DEF DownHoldsNothing, MarkedBeforeSpawn, BusyIsCurrent, Spawning
<1>4. AdmittingIsAlone' /\ PreflightIsAlone' /\ IdleIsOpen'
  BY <1>2 DEF AdmittingIsAlone, PreflightIsAlone, IdleIsOpen
<1>5. StartingIsUnmonitored' /\ DeletingIsConfirmed' /\ HeldIsUnmarked'
  BY <1>2 DEF StartingIsUnmonitored, DeletingIsConfirmed, HeldIsUnmarked
<1>6. QED
  BY <1>3, <1>4, <1>5 DEF IInv

LEMMA LifeKeepsIInv ==
  ASSUME IInv, LifeStep
  PROVE  IInv'
<1>1. ASSUME NEW confirmed \in BOOLEAN, Serve(confirmed)
      PROVE  IInv'
  <2>1. /\ ~up /\ phase = "idle" /\ current = NoSession /\ lock = "free" /\ Quiet
        /\ \A s \in Sessions : owned[s] = NoOne
    BY <1>1 DEF Serve, IInv, DownHoldsNothing, MarkedBeforeSpawn, Quiet
  <2>2. /\ up' /\ ~marker'
        /\ UNCHANGED <<phase, current, audition, lock, starter, closing, awaited, owned, worker>>
    BY <1>1 DEF Serve
  <2>3. \A s \in Sessions : ~Admitting(s)' /\ ~Spawning(s)' /\ owned'[s].monitor # "deleting"
    BY <2>1, <2>2, NoOneIsOwned DEF Admitting, Spawning
  <2>4. TypeOK' /\ Quiet' /\ UnbornIsSilent' /\ SafeIsTrue'
    BY <1>1, <2>1, <2>2 DEF Serve, IInv, TypeOK, Quiet, Busy, Alive, UnbornIsSilent, SafeIsTrue, SaysSafe
  <2>5. QED
    BY <2>1, <2>2, <2>3, <2>4, Settled
<1>2. CASE BrokerGone
  <2>. USE DEF BrokerGone
  <2>1. TypeOK'
    BY <1>2, NoOneIsOwned DEF IInv, TypeOK
  <2>2. UnbornIsSilent' /\ OneSessionBusy' /\ \A s \in Sessions : Busy(s)' => marker'
    BY <1>2 DEF IInv, UnbornIsSilent, OneSessionBusy, MarkedBeforeSpawn, Busy, Alive
  <2>3. \A s \in Sessions : SaysSafe(s)' => SaysSafe(s)
    BY <1>2, NoOneIsOwned DEF SaysSafe
  <2>4. SafeIsTrue'
    BY <1>2, <2>3 DEF IInv, SafeIsTrue
  <2>5. QED
    BY <1>2, <2>1, <2>2, <2>4, DownKeepsIInv
<1>3. CASE OperatorRestartsBackend
  <2>. USE DEF OperatorRestartsBackend
  <2>1. /\ ~up' /\ phase' = "idle" /\ current' = NoSession /\ lock' = "free"
        /\ owned' = [s \in Sessions |-> NoOne]
    BY <1>3 DEF IInv, DownHoldsNothing
  <2>2. TypeOK'
    BY <1>3, NoWorkerIsWorker DEF IInv, TypeOK
  <2>3. \A s \in Sessions : worker'[s] = NoWorker /\ ~Busy(s)' /\ ~SaysSafe(s)'
    BY <1>3, <2>1, NoWorkerIsWorker, NoOneIsOwned DEF Busy, Alive, AliveStages, SaysSafe
  <2>4. UnbornIsSilent' /\ SafeIsTrue' /\ OneSessionBusy'
    BY <2>3, NoWorkerIsWorker DEF UnbornIsSilent, SafeIsTrue, OneSessionBusy
  <2>5. QED
    BY <2>1, <2>2, <2>3, <2>4, DownKeepsIInv
<1>4. QED
  BY <1>1, <1>2, <1>3 DEF LifeStep, BrokerCrashes, LeaseReleased

-----------------------------------------------------------------------------
(* The invariant, and the theorems.                                        *)

LEMMA InitImpliesIInv ==
  ASSUME Init
  PROVE  IInv
<1>. USE DEF Init
<1>1. TypeOK
  BY NoOneIsOwned, NoWorkerIsWorker DEF TypeOK
<1>2. \A s \in Sessions : owned[s] = NoOne /\ worker[s] = NoWorker
  OBVIOUS
<1>3. \A s \in Sessions : ~Busy(s) /\ ~SaysSafe(s) /\ ~Admitting(s) /\ ~Spawning(s)
  BY <1>2, NoOneIsOwned, NoWorkerIsWorker
  DEF Busy, Alive, AliveStages, SaysSafe, Admitting, Spawning
<1>4. DownHoldsNothing /\ UnbornIsSilent /\ SafeIsTrue
  BY <1>2, <1>3, NoWorkerIsWorker DEF DownHoldsNothing, UnbornIsSilent, SafeIsTrue
<1>5. MarkedBeforeSpawn /\ BusyIsCurrent /\ OneSessionBusy
  BY <1>3 DEF MarkedBeforeSpawn, BusyIsCurrent, OneSessionBusy, Spawning
<1>6. AdmittingIsAlone /\ PreflightIsAlone /\ IdleIsOpen /\ StartingIsUnmonitored
  BY <1>3 DEF AdmittingIsAlone, PreflightIsAlone, IdleIsOpen, StartingIsUnmonitored
<1>7. DeletingIsConfirmed /\ HeldIsUnmarked
  BY <1>2, NoOneIsOwned DEF DeletingIsConfirmed, HeldIsUnmarked
<1>8. QED
  BY <1>1, <1>4, <1>5, <1>6, <1>7 DEF IInv

LEMMA NextKeepsIInv ==
  ASSUME IInv, [Next]_vars
  PROVE  IInv'
<1>1. CASE LifeStep
  BY <1>1, LifeKeepsIInv
<1>2. CASE LibraryStep \/ CloseStep
  BY <1>2, LibraryKeepsIInv
<1>3. ASSUME NEW s \in Sessions,
             StartStep(s) \/ WorkerStep(s) \/ MonitorStep(s) \/ EndStep(s) \/ RequestStep(s)
      PROVE  IInv'
  BY <1>3, StartKeepsIInv, WorkerKeepsIInv, MonitorKeepsIInv, EndTaskKeepsIInv, RequestKeepsIInv
<1>4. CASE UNCHANGED vars
  BY <1>4 DEF vars, IInv, TypeOK, DownHoldsNothing, UnbornIsSilent, SafeIsTrue, SaysSafe,
              MarkedBeforeSpawn, BusyIsCurrent, OneSessionBusy, AdmittingIsAlone, PreflightIsAlone,
              IdleIsOpen, StartingIsUnmonitored, DeletingIsConfirmed, HeldIsUnmarked, Admitting,
              Spawning, Busy, Alive, Confirmed
<1>5. QED
  BY <1>1, <1>2, <1>3, <1>4 DEF Next

\* IInv is an invariant of the broker with its worker, its pipe, its marker and
\* its crashes.
THEOREM InductiveInvariant == Spec => []IInv
  BY InitImpliesIInv, NextKeepsIInv, PTL DEF Spec

\* Every variable keeps its type: phases, the stages of the tasks of a session
\* and the lines of the worker's pipe.
THEOREM TypeCorrect == Spec => []TypeOK
<1>1. IInv => TypeOK
  BY DEF IInv
<1>2. QED
  BY <1>1, InductiveInvariant, PTL

\* The marker of the lease is on disk whenever inference may be in flight or is
\* unresolved, so that a crash of the broker at any point leaves it behind.
THEOREM MarkerSafety == Spec => []MarkerCoversWork
<1>1. IInv => MarkerCoversWork
  BY DEF IInv, MarkedBeforeSpawn, MarkerCoversWork, Quiet
<1>2. QED
  BY <1>1, InductiveInvariant, PTL

\* At most one session has a live worker or unfinished inference.
THEOREM BackendExclusion == Spec => []OneSessionBusy
<1>1. IInv => OneSessionBusy
  BY DEF IInv
<1>2. QED
  BY <1>1, InductiveInvariant, PTL

\* A broker that admits sessions has nothing running and nothing unresolved.
THEOREM AdmissionSafety == Spec => []IdleIsQuiet
<1>1. IInv => IdleIsQuiet
  BY DEF IInv, IdleIsOpen, MarkedBeforeSpawn, IdleIsQuiet, Quiet
<1>2. QED
  BY <1>1, InductiveInvariant, PTL

=============================================================================
