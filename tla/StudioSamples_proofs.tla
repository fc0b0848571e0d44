------------------------ MODULE StudioSamples_proofs ------------------------
(***************************************************************************)
(* Proofs about the sample of an audition and about the phase "blocked",   *)
(* for every number of sessions, every pipe capacity and every set of      *)
(* faults.  SInv is inductive relative to IInv.  Each group of actions is  *)
(* shown to make Progress: it keeps SInv, brings no failed or cancelled    *)
(* sample back, and leaves "blocked" only with the work resolved.          *)
(*                                                                         *)
(* CalmFrame says once what a step that only ends, drops or forgets may    *)
(* change; the worker, the monitor, the start task and the requests that   *)
(* begin a session are taken one by one.                                   *)
(*                                                                         *)
(* The second half is about a broker whose workers are healthy.            *)
(***************************************************************************)
EXTENDS StudioBroker_proofs

-----------------------------------------------------------------------------
(* What every step must do.                                                *)

KeepsResults ==
  \A s \in Sessions :
    owned'[s].result = "ready" /\ owned[s].result # "ready" => owned[s].result = "generating"

Unblocks == up /\ up' /\ phase = "blocked" /\ phase' # "blocked" => Quiet' /\ ~marker'

Progress == SInv' /\ KeepsResults /\ Unblocks

LEMMA UnmarkedUnblocks ==
  ASSUME IInv', up' => (phase' \in {"blocked", "idle", phase} \/ ~marker')
  PROVE  Unblocks
<1>1. up' /\ phase' = "idle" => ~marker'
  BY DEF IInv, IdleIsOpen
<1>2. ~marker' => Quiet'
  BY DEF IInv, MarkedBeforeSpawn, Quiet
<1>3. QED
  BY <1>1, <1>2 DEF Unblocks

-----------------------------------------------------------------------------
(* Records and lines.                                                      *)

\* p is o, further on: it has lost audio, or its result, or its end task has gone on.
Calm(o, p) ==
  /\ Alike(o, p) /\ p.handle = o.handle
  /\ p.pcm \in {o.pcm, "empty"}
  /\ p.result \in {o.result, "failed", "cancelled"}
  /\ p.ending = "none" => o.ending = "none"
  /\ p.ending \in {"ack", "drain", "resume"} => o.ending \in {"ack", "drain", "resume"} \/ o.handle

LEMMA CalmFields ==
  ASSUME NEW o \in Owned
  PROVE  /\ Calm(o, o) /\ Calm(o, [o EXCEPT !.pcm = "empty"]) /\ Calm(o, [o EXCEPT !.start = "none"])
         /\ \A v \in {o.result, "failed", "cancelled"} : Calm(o, [o EXCEPT !.result = v])
         /\ \A v \in {"new", "ack", "drain", "resume", "room", "done"} :
              (v \in {"ack", "drain", "resume"} => o.ending \in {"ack", "drain", "resume"} \/ o.handle)
              => Calm(o, [o EXCEPT !.ending = v])
<1>. USE DEF Calm, Alike, Owned
<1>1. Calm(o, o)
  OBVIOUS
<1>2. Calm(o, [o EXCEPT !.pcm = "empty"])
  OBVIOUS
<1>3. Calm(o, [o EXCEPT !.start = "none"])
  OBVIOUS
<1>4. \A v \in {o.result, "failed", "cancelled"} : Calm(o, [o EXCEPT !.result = v])
  OBVIOUS
<1>5. \A v \in {"new", "ack", "drain", "resume", "room", "done"} :
        (v \in {"ack", "drain", "resume"} => o.ending \in {"ack", "drain", "resume"} \/ o.handle)
        => Calm(o, [o EXCEPT !.ending = v])
  OBVIOUS
<1>6. QED
  BY <1>1, <1>2, <1>3, <1>4, <1>5

LEMMA CalmTransitive ==
  ASSUME NEW o, NEW p, NEW q, Calm(o, p), Calm(p, q)
  PROVE  Calm(o, q)
  BY DEF Calm, Alike

\* The lines of the worker: a worker that says "uncertain" says no more of its audio.
LEMMA OrderlyJoined ==
  ASSUME NEW p \in Seq(Event), NEW q \in Seq(Event), ~Unclear(p), Orderly(q)
  PROVE  Orderly(p \o q) /\ (Unclear(p \o q) => Unclear(q))
<1>. DEFINE r == p \o q
<1>1. /\ Len(p) \in Nat /\ Len(q) \in Nat /\ Len(r) = Len(p) + Len(q)
      /\ \A i \in 1..Len(p) : r[i] = p[i] /\ p[i] # "uncertain"
      /\ \A i \in Len(p) + 1 .. Len(r) : r[i] = q[i - Len(p)] /\ i - Len(p) \in 1..Len(q)
  BY DEF Unclear
<1>. HIDE DEF r
<1>2. ASSUME NEW i \in 1..Len(r), r[i] = "uncertain"
      PROVE  i - Len(p) \in 1..Len(q) /\ q[i - Len(p)] = "uncertain" /\ i > Len(p)
  BY <1>1, <1>2
<1>3. ASSUME NEW i \in 1..Len(r), NEW j \in 1..Len(r), r[i] = "uncertain", i <= j
      PROVE  r[j] # "invalid"
  <2>. DEFINE a == i - Len(p)
              b == j - Len(p)
  <2>1. a \in 1..Len(q) /\ q[a] = "uncertain" /\ i > Len(p)
    BY <1>2, <1>3
  <2>2. b \in 1..Len(q) /\ q[b] = r[j] /\ a <= b
    BY <1>1, <1>3, <2>1
  <2>. HIDE DEF a, b
  <2>3. QED
    BY <2>1, <2>2 DEF Orderly
<1>4. Unclear(r) => Unclear(q)
  BY <1>2 DEF Unclear
<1>5. QED
  BY <1>3, <1>4 DEF Orderly, r

LEMMA OrderlyTaken ==
  ASSUME NEW p \in Seq(Event), p # <<>>
  PROVE  /\ Unclear(Tail(p)) => Unclear(p)
         /\ Orderly(p) => Orderly(Tail(p))
         /\ Sound(p) => Sound(Tail(p)) /\ Head(p) # "invalid"
         /\ Orderly(p) /\ Head(p) = "uncertain" => Unclear(p) /\ Sound(Tail(p))
<1>. DEFINE t == Tail(p)
<1>1. /\ Len(p) \in Nat /\ Len(t) \in Nat /\ Len(p) = Len(t) + 1 /\ Head(p) = p[1]
      /\ \A i \in 1..Len(t) : t[i] = p[i + 1] /\ i + 1 \in 1..Len(p)
  OBVIOUS
<1>. HIDE DEF t
<1>2. Unclear(t) => Unclear(p)
  BY <1>1 DEF Unclear
<1>3. Orderly(p) => Orderly(t)
  BY <1>1 DEF Orderly
<1>4. Sound(p) => Sound(t) /\ Head(p) # "invalid"
  BY <1>1 DEF Sound
<1>5. Orderly(p) /\ Head(p) = "uncertain" => Unclear(p) /\ Sound(t)
  BY <1>1 DEF Orderly, Unclear, Sound
<1>6. QED
  BY <1>2, <1>3, <1>4, <1>5 DEF t

LEMMA ShortReports ==
  /\ \A e \in Event : /\ <<e>> \in Seq(Event) /\ Orderly(<<e>>)
                      /\ Unclear(<<e>>) => e = "uncertain"
  /\ \A a, b \in Event \ {"invalid"} :
       /\ <<a, b>> \in Seq(Event) /\ Orderly(<<a, b>>)
       /\ Unclear(<<a, b>>) => "uncertain" \in {a, b}
<1>1. ASSUME NEW e \in Event
      PROVE  <<e>> \in Seq(Event) /\ Orderly(<<e>>) /\ (Unclear(<<e>>) => e = "uncertain")
  BY DEF Orderly, Unclear
<1>2. ASSUME NEW a \in Event \ {"invalid"}, NEW b \in Event \ {"invalid"}
      PROVE  <<a, b>> \in Seq(Event) /\ Orderly(<<a, b>>) /\ (Unclear(<<a, b>>) => "uncertain" \in {a, b})
  BY DEF Orderly, Unclear
<1>3. QED
  BY <1>1, <1>2

LEMMA EmptyPipe ==
  Orderly(<<>>) /\ ~Unclear(<<>>) /\ Orderly(NoWorker.pipe) /\ ~Unclear(NoWorker.pipe)
  BY DEF Orderly, Unclear, NoWorker

-----------------------------------------------------------------------------
(* A step that starts nothing, hears nothing and settles nothing.          *)

LEMMA CalmFrame ==
  ASSUME IInv, SInv, IInv', UNCHANGED <<up, marker>>, up,
         current' \in {current, NoSession},
         \A t \in Sessions : current = t /\ current' # t =>
           ~marker /\ owned[t].monitor \notin {"reading", "deleting", "failed"},
         lock' = "library" => lock = "library" \/ (current = NoSession /\ \A t \in Sessions : ~Admitting(t)),
         audition' \in {audition, NoSession},
         audition' # audition /\ closing' = "open" =>
           current = NoSession /\ \A t \in Sessions : owned'[t].pcm = "empty",
         closing' = "open" => closing = "open",
         phase = "blocked" => phase' \in {"blocked", "idle"},
         phase' = "blocked" /\ phase # "blocked" =>
           \A t \in Sessions : current' = t => owned'[t].ending # "none",
         \A t \in Sessions :
           /\ Calm(owned[t], owned'[t]) /\ Kept(t)
           /\ closing' = "open" => owned'[t].result = owned[t].result \/ owned'[t].pcm = "empty"
  PROVE  Progress
<1>. USE DEF Calm, Alike
<1>0. NoSession \notin Sessions /\ current \in Sessions \cup {NoSession}
  BY ConstantsOK DEF IInv, TypeOK
<1>1. UnclaimedIsUnmarked'
  BY <1>0 DEF SInv, UnclaimedIsUnmarked
<1>2. LibraryIsAlone'
  <2>1. \A t \in Sessions : Admitting(t)' => Admitting(t)
    BY DEF Admitting
  <2>2. QED
    BY <2>1 DEF SInv, LibraryIsAlone
<1>3. StartingIsBlank'
  <2>1. \A t \in Sessions : (Admitting(t)' => Admitting(t)) /\ (Spawning(t)' => Spawning(t))
    BY DEF Admitting, Spawning
  <2>2. QED
    BY <2>1 DEF SInv, StartingIsBlank
<1>4. CurrentIsAudition'
  BY <1>0 DEF SInv, CurrentIsAudition
<1>5. ReadyIsHeld'
  BY <1>0 DEF SInv, ReadyIsHeld
<1>6. AudioIsKept'
  BY DEF SInv, AudioIsKept
<1>7. HandleIsMonitored'
  BY DEF SInv, HandleIsMonitored
<1>8. MonitoredIsCurrent'
  BY <1>0 DEF SInv, MonitoredIsCurrent
<1>9. \A t \in Sessions : Spent(t) => Spent(t)'
  BY DEF Kept, Spent
<1>10. UncertainIsLast'
  BY <1>9 DEF SInv, UncertainIsLast, Kept
<1>11. BlockedIsSpent'
  BY <1>0, <1>9 DEF SInv, BlockedIsSpent, Kept, AcceptsAudio
<1>12. KeepsResults
  BY DEF KeepsResults
<1>13. Unblocks
  BY UnmarkedUnblocks DEF Unblocks
<1>14. QED
  BY <1>1, <1>2, <1>3, <1>4, <1>5, <1>6, <1>7, <1>8, <1>10, <1>11, <1>12, <1>13 DEF Progress, SInv

\* What a calm step does to the audio: it is gone when the result has changed,
\* unless the broker shuts down.
Drops(o, p) == closing = "open" => p.result = o.result \/ p.pcm = "empty"

LEMMA CalmStep ==
  ASSUME IInv, SInv, IInv', up, NEW s \in Sessions, NEW o, Calm(owned[s], o), Drops(owned[s], o),
         owned' = [owned EXCEPT ![s] = o],
         worker' = worker \/ worker' = [worker EXCEPT ![s] = Signalled(@)]
                          \/ worker' = [worker EXCEPT ![s] = Killed(@)],
         UNCHANGED <<up, marker, current, audition, lock>>,
         closing' = "open" => closing = "open",
         \/ phase' = phase
         \/ phase' = "draining" /\ phase # "blocked"
         \/ phase' = "blocked" /\ o.ending # "none" /\ current \in {s, NoSession}
  PROVE  Progress
<1>1. o \in Owned /\ \A t \in Sessions : owned[t] \in Owned /\ Calm(owned[t], owned[t])
  BY CalmFields DEF IInv, TypeOK, Calm, Alike
<1>2. PICK w \in Worker :
        /\ worker' = [worker EXCEPT ![s] = w]
        /\ w.work = worker[s].work /\ w.pipe = worker[s].pipe
        /\ w.stage = worker[s].stage \/ (w.stage = "failed" /\ Alive(s))
  <2>1. worker[s] \in Worker /\ worker = [worker EXCEPT ![s] = worker[s]]
    BY DEF IInv, TypeOK
  <2>2. CASE worker' = worker
    BY <2>1, <2>2
  <2>3. CASE worker' = [worker EXCEPT ![s] = Signalled(@)]
    BY <2>1, <2>3, SignalledIsWorker DEF Alive
  <2>4. CASE worker' = [worker EXCEPT ![s] = Killed(@)]
    BY <2>1, <2>4, SignalledIsWorker DEF Alive
  <2>5. QED
    BY <2>2, <2>3, <2>4
<1>3. owned'[s] = o /\ \A t \in Sessions : t # s => owned'[t] = owned[t]
  BY DEF IInv, TypeOK
<1>4. \A t \in Sessions : Kept(t)
  BY <1>2 DEF IInv, TypeOK, Kept
<1>5. \A t \in Sessions : Calm(owned[t], owned'[t]) /\ Drops(owned[t], owned'[t])
  BY <1>1, <1>3 DEF Drops
<1>6. NoSession \notin Sessions
  BY ConstantsOK
<1>7. phase' = "blocked" /\ phase # "blocked" =>
        \A t \in Sessions : current' = t => owned'[t].ending # "none"
  BY <1>3, <1>6
<1>8. \A t \in Sessions :
        closing' = "open" => owned'[t].result = owned[t].result \/ owned'[t].pcm = "empty"
  BY <1>5 DEF Drops
<1>9. QED
  BY <1>4, <1>5, <1>7, <1>8, CalmFrame

\* end() for the current session.
LEMMA EndIsCalm ==
  ASSUME IInv, SInv, IInv', up, NEW s \in Sessions, current = s, NEW o, Calm(owned[s], o),
         o.kind = "audition" \/ Drops(owned[s], o), End(s, o),
         UNCHANGED <<up, marker, audition, lock, worker>>,
         closing' = "open" => closing = "open"
  PROVE  Progress
<1>. DEFINE r == IF o.result = "generating" THEN "cancelled" ELSE o.result
            p == [o EXCEPT !.pcm = "empty"]
            q == [p EXCEPT !.result = r]
            stopped == IF o.kind = "audition"
                       THEN [o EXCEPT !.pcm = "empty",
                                      !.result = IF @ = "generating" THEN "cancelled" ELSE @]
                       ELSE o
            held == o.kind = "audition" /\ o.playback /\ o.handle /\ Confirmed(o, worker[s])
<1>0. /\ owned \in [Sessions -> Owned] /\ NoSession \notin Sessions
      /\ phase \in {"idle", "starting", "active", "draining", "blocked"}
  BY ConstantsOK DEF IInv, TypeOK
<1>1. o \in Owned
  BY DEF Calm, Alike
<1>2. Calm(o, p) /\ p \in Owned /\ p.pcm = "empty" /\ p.result = o.result
  <2>1. p.pcm = "empty" /\ p.result = o.result
    BY <1>1 DEF Owned
  <2>2. Calm(o, p)
    BY <1>1, CalmFields
  <2>. HIDE DEF p
  <2>3. QED
    BY <2>1, <2>2 DEF Calm, Alike
<1>3. Calm(p, q) /\ q \in Owned /\ q.pcm = "empty"
  <2>1. r \in {p.result, "failed", "cancelled"}
    BY <1>2
  <2>. HIDE DEF p, r
  <2>2. Calm(p, q)
    BY <1>2, <2>1, CalmFields
  <2>3. q.pcm = "empty"
    BY <1>2 DEF Owned
  <2>4. QED
    BY <2>2, <2>3 DEF Calm, Alike
<1>4. Calm(o, q)
  BY <1>2, <1>3, CalmTransitive
<1>5. stopped = q \/ (stopped = o /\ o.kind # "audition")
  OBVIOUS
<1>. HIDE DEF p, q, r
<1>6. Calm(owned[s], stopped) /\ Drops(owned[s], stopped)
  BY <1>3, <1>4, <1>5, CalmTransitive DEF Drops
<1>7. \/ /\ held /\ current' = NoSession /\ phase' = "idle"
         /\ owned' = [owned EXCEPT ![s] = stopped]
      \/ /\ phase' = IF phase = "blocked" THEN phase ELSE "draining"
         /\ current' = current
         /\ owned' = [owned EXCEPT ![s] = [stopped EXCEPT !.ending = "new"]]
      \/ /\ current' = current /\ phase' = phase
         /\ owned' = [owned EXCEPT ![s] = stopped]
  BY DEF End
<1>. HIDE DEF stopped
<1>8. CASE owned' = [owned EXCEPT ![s] = stopped] /\ current' = current /\ phase' = phase
  BY <1>6, <1>8, CalmStep
<1>9. CASE /\ phase' = IF phase = "blocked" THEN phase ELSE "draining"
           /\ current' = current
           /\ owned' = [owned EXCEPT ![s] = [stopped EXCEPT !.ending = "new"]]
  <2>. DEFINE n == [stopped EXCEPT !.ending = "new"]
  <2>1. stopped \in Owned
    BY <1>6 DEF Calm, Alike
  <2>2. Calm(stopped, n) /\ n.pcm = stopped.pcm /\ n.result = stopped.result
    <3>1. n.pcm = stopped.pcm /\ n.result = stopped.result
      BY <2>1 DEF Owned
    <3>2. QED
      BY <2>1, <3>1, CalmFields
  <2>. HIDE DEF n
  <2>3. Calm(owned[s], n) /\ Drops(owned[s], n)
    BY <1>6, <2>2, CalmTransitive DEF Drops
  <2>4. owned' = [owned EXCEPT ![s] = n] /\ (phase' = phase \/ (phase' = "draining" /\ phase # "blocked"))
    BY <1>9 DEF n
  <2>5. QED
    BY <1>9, <2>3, <2>4, CalmStep
<1>10. CASE /\ held /\ current' = NoSession /\ phase' = "idle"
            /\ owned' = [owned EXCEPT ![s] = stopped]
  <2>1. owned[s].playback
    BY <1>10 DEF Calm, Alike
  <2>2. ~marker /\ owned[s].monitor = "done"
    BY <2>1 DEF IInv, HeldIsUnmarked, SInv, HandleIsMonitored
  <2>3. owned'[s] = stopped /\ \A t \in Sessions : t # s => owned'[t] = owned[t]
    BY <1>0, <1>10
  <2>4. \A t \in Sessions : /\ Calm(owned[t], owned'[t]) /\ Kept(t)
                            /\ closing' = "open" =>
                                 owned'[t].result = owned[t].result \/ owned'[t].pcm = "empty"
    BY <1>0, <1>6, <2>3, CalmFields DEF Kept, Drops
  <2>5. QED
    BY <1>0, <1>10, <2>2, <2>4, CalmFrame
<1>11. QED
  BY <1>7, <1>8, <1>9, <1>10

\* end_audition(): a session that is no longer the audition has no audio left.
LEMMA EndAuditionIsCalm ==
  ASSUME IInv, SInv, IInv', up, NEW s \in Sessions, NEW o, Calm(owned[s], o), EndAudition(s, o),
         UNCHANGED <<up, marker, lock, worker, audition, closing>>
  PROVE  Progress
<1>. DEFINE r == IF o.result = "failed" THEN o.result ELSE "cancelled"
            p == [o EXCEPT !.pcm = "empty"]
            q == [p EXCEPT !.result = r]
            stopped == [o EXCEPT !.pcm = "empty",
                                 !.result = IF @ = "failed" THEN @ ELSE "cancelled"]
<1>1. o \in Owned
  BY DEF Calm, Alike
<1>2. Calm(o, p) /\ p \in Owned /\ p.pcm = "empty" /\ p.result = o.result
  <2>1. p.pcm = "empty" /\ p.result = o.result
    BY <1>1 DEF Owned
  <2>2. Calm(o, p)
    BY <1>1, CalmFields
  <2>. HIDE DEF p
  <2>3. QED
    BY <2>1, <2>2 DEF Calm, Alike
<1>3. stopped = q /\ r \in {p.result, "failed", "cancelled"}
  BY <1>2
<1>. HIDE DEF stopped, p, r
<1>4. Calm(p, q)
  BY <1>2, <1>3, CalmFields
<1>5. q.pcm = "empty"
  BY <1>2 DEF Owned
<1>6. Calm(owned[s], stopped) /\ Drops(owned[s], stopped)
  BY <1>2, <1>3, <1>4, <1>5, CalmTransitive DEF Drops
<1>7. CASE audition # s /\ owned' = [owned EXCEPT ![s] = o] /\ UNCHANGED <<current, phase>>
  <2>1. Drops(owned[s], o)
    BY <1>7 DEF SInv, AudioIsKept, Calm, Drops
  <2>2. QED
    BY <1>7, <2>1, CalmStep
<1>8. CASE owned' = [owned EXCEPT ![s] = stopped] /\ UNCHANGED <<current, phase>>
  BY <1>6, <1>8, CalmStep
<1>9. CASE current = s /\ End(s, stopped)
  BY <1>6, <1>9, EndIsCalm
<1>10. QED
  BY <1>7, <1>8, <1>9 DEF EndAudition, stopped

LEMMA RequestsProgress ==
  ASSUME IInv, SInv, IInv', NEW s \in Sessions,
         \/ EndRequest(s) \/ EndAuditionRequest(s) \/ WatchdogExpires(s) \/ TakeAudio(s)
         \/ FeedAudition(s) \/ CleanUpRoom(s) \/ CloseEndsSession(s)
  PROVE  Progress
<1>. USE DEF admission
<1>0. owned[s] \in Owned /\ Calm(owned[s], owned[s]) /\ Drops(owned[s], owned[s])
  BY CalmFields DEF IInv, TypeOK, Drops
<1>1. CASE EndRequest(s)
  BY <1>0, <1>1, EndIsCalm DEF EndRequest
<1>2. CASE EndAuditionRequest(s)
  BY <1>0, <1>2, EndAuditionIsCalm DEF EndAuditionRequest
<1>3. CASE WatchdogExpires(s)
  <2>1. Calm(owned[s], [owned[s] EXCEPT !.result = "failed"])
    BY <1>0, CalmFields
  <2>2. QED
    BY <1>0, <1>3, <2>1, EndAuditionIsCalm, EndIsCalm DEF WatchdogExpires
<1>4. CASE TakeAudio(s)
  <2>. DEFINE o == [owned[s] EXCEPT !.pcm = "empty"]
  <2>1. Calm(owned[s], o) /\ o.pcm = "empty"
    <3>1. o.pcm = "empty"
      BY <1>0 DEF Owned
    <3>2. QED
      BY <1>0, <3>1, CalmFields
  <2>2. Drops(owned[s], o) /\ owned' = [owned EXCEPT ![s] = o]
    BY <1>4, <2>1 DEF TakeAudio, Drops
  <2>. HIDE DEF o
  <2>3. QED
    BY <1>4, <2>1, <2>2, CalmStep DEF TakeAudio
<1>5. CASE CleanUpRoom(s) \/ FeedAudition(s)
  <2>. DEFINE p == [owned[s] EXCEPT !.start = "none"]
              q == [p EXCEPT !.result = "failed"]
  <2>1. Calm(owned[s], p) /\ p.result = owned[s].result
    <3>1. p.result = owned[s].result
      BY <1>0 DEF Owned
    <3>2. QED
      BY <1>0, <3>1, CalmFields
  <2>2. [owned[s] EXCEPT !.start = "none", !.result = "failed"] = q
    OBVIOUS
  <2>. HIDE DEF p
  <2>3. p \in Owned
    BY <2>1 DEF Calm, Alike
  <2>4. Calm(owned[s], q)
    BY <2>1, <2>3, CalmFields, CalmTransitive
  <2>5. CASE owned' = [owned EXCEPT ![s] = p] /\ UNCHANGED <<phase, current>>
    BY <1>5, <2>1, <2>5, CalmStep DEF CleanUpRoom, FeedAudition, Drops
  <2>6. CASE EndAudition(s, q) /\ FeedAudition(s)
    BY <2>4, <2>6, EndAuditionIsCalm DEF FeedAudition
  <2>7. QED
    BY <1>5, <2>2, <2>5, <2>6 DEF CleanUpRoom, FeedAudition, p
<1>6. CASE CloseEndsSession(s)
  <2>1. closing' # "open"
    BY <1>6 DEF CloseEndsSession, CloseAwaits
  <2>2. QED
    BY <1>0, <1>6, <2>1, EndIsCalm DEF CloseEndsSession
<1>7. QED
  BY <1>1, <1>2, <1>3, <1>4, <1>5, <1>6

LEMMA EndTaskProgress ==
  ASSUME IInv, SInv, IInv', NEW s \in Sessions, EndStep(s)
  PROVE  Progress
<1>. USE DEF admission
<1>. DEFINE n(e) == [owned[s] EXCEPT !.ending = e]
            Waits == {"ack", "drain", "resume"}
<1>0. owned[s] \in Owned /\ current \in Sessions \cup {NoSession} /\ up
  BY DEF IInv, TypeOK, EndStep, EndBegins, EndAcknowledged, EndUnacknowledged, EndDrained,
         EndTimesOut, EndSeesFailure, EndDeletesRoom
<1>1. \A e \in {"new", "ack", "drain", "resume", "room", "done"} :
        (e \in Waits => owned[s].ending \in Waits \/ owned[s].handle) =>
          Calm(owned[s], n(e)) /\ Drops(owned[s], n(e)) /\ n(e).ending # "none"
  <2>1. \A e \in {"new", "ack", "drain", "resume", "room", "done"} :
          n(e).result = owned[s].result /\ n(e).ending = e
    BY <1>0 DEF Owned
  <2>2. QED
    BY <1>0, <2>1, CalmFields DEF Drops
<1>2. AfterDrain(s) \in {"room", "done"} /\ AwaitMonitor(s) \in {"resume", "drain"}
  BY DEF AfterDrain, AwaitMonitor
<1>3. CASE EndBegins(s) \/ EndAcknowledged(s)
  <2>1. PICK e \in {"done", "ack", "resume", "drain"} :
          /\ owned' = [owned EXCEPT ![s] = n(e)]
          /\ e \in Waits => owned[s].ending \in Waits \/ owned[s].handle
          /\ worker' = worker \/ worker' = [worker EXCEPT ![s] = Signalled(@)]
    BY <1>2, <1>3 DEF EndBegins, EndAcknowledged
  <2>2. UNCHANGED <<up, marker, current, audition, lock, closing, phase>>
    BY <1>3 DEF EndBegins, EndAcknowledged
  <2>3. Calm(owned[s], n(e)) /\ Drops(owned[s], n(e))
    BY <1>1, <2>1
  <2>. HIDE DEF n
  <2>4. QED
    BY <1>0, <2>1, <2>2, <2>3, CalmStep
<1>4. CASE EndDrained(s) \/ EndDeletesRoom(s)
  <2>1. PICK e \in {"room", "done"} : owned' = [owned EXCEPT ![s] = n(e)]
    BY <1>2, <1>4 DEF EndDrained, EndDeletesRoom
  <2>2. UNCHANGED <<up, marker, current, audition, lock, closing, phase, worker>>
    BY <1>4 DEF EndDrained, EndDeletesRoom
  <2>3. Calm(owned[s], n(e)) /\ Drops(owned[s], n(e))
    BY <1>1, <2>1
  <2>. HIDE DEF n
  <2>4. QED
    BY <1>0, <2>1, <2>2, <2>3, CalmStep
<1>5. CASE EndUnacknowledged(s) \/ EndTimesOut(s) \/ EndSeesFailure(s)
  <2>1. PICK e \in {"room", "done"} : EndKills(s, e)
    BY <1>2, <1>5 DEF EndUnacknowledged, EndTimesOut, EndSeesFailure
  <2>2. current \in {s, NoSession}
    <3>1. owned[s].monitor \in {"none", "reading", "deleting", "done", "failed"}
      BY <1>0 DEF Owned
    <3>2. CASE EndUnacknowledged(s)
      BY <1>0, <3>2 DEF EndUnacknowledged, IInv, BusyIsCurrent, Busy
    <3>3. CASE EndTimesOut(s) \/ EndSeesFailure(s)
      BY <3>1, <3>3 DEF EndTimesOut, EndSeesFailure, DeadlinePasses, Over, SInv,
                        HandleIsMonitored, MonitoredIsCurrent
    <3>4. QED
      BY <1>5, <3>2, <3>3
  <2>3. Calm(owned[s], n(e)) /\ Drops(owned[s], n(e)) /\ n(e).ending # "none"
    BY <1>1
  <2>4. owned' = [owned EXCEPT ![s] = n(e)]
    BY <2>1 DEF EndKills
  <2>. HIDE DEF n
  <2>5. QED
    BY <1>0, <2>1, <2>2, <2>3, <2>4, CalmStep DEF EndKills
<1>6. QED
  BY <1>3, <1>4, <1>5 DEF EndStep

-----------------------------------------------------------------------------
(* The library and the shutdown sequence.                                  *)

LEMMA ClearedIsCalm ==
  ASSUME IInv
  PROVE  \A t \in Sessions :
           /\ Calm(owned[t], Cleared(owned)[t])
           /\ Cleared(owned)[t].result = owned[t].result
           /\ audition = t => Cleared(owned)[t].pcm = "empty"
<1>1. \A t \in Sessions : owned[t] \in Owned /\ Calm(owned[t], owned[t])
  BY CalmFields DEF IInv, TypeOK
<1>2. CASE audition = NoSession
  BY <1>1, <1>2, ConstantsOK DEF Cleared
<1>3. CASE audition \in Sessions
  <2>. DEFINE o == [owned[audition] EXCEPT !.pcm = "empty"]
  <2>1. Calm(owned[audition], o)
    BY <1>1, <1>3, CalmFields
  <2>2. o.pcm = "empty" /\ o.result = owned[audition].result
    BY <1>1, <1>3 DEF Owned
  <2>3. Cleared(owned) = [owned EXCEPT ![audition] = o]
    BY <1>3, ConstantsOK DEF Cleared
  <2>. HIDE DEF o
  <2>4. /\ Cleared(owned)[audition] = o
        /\ \A t \in Sessions : t # audition => Cleared(owned)[t] = owned[t]
    BY <1>3, <2>3 DEF IInv, TypeOK
  <2>5. QED
    BY <1>1, <2>1, <2>2, <2>4
<1>4. QED
  BY <1>2, <1>3 DEF IInv, TypeOK

LEMMA LibraryProgress ==
  ASSUME IInv, SInv, IInv', LibraryStep \/ CloseStep
  PROVE  Progress
<1>. USE DEF LibraryStep, CloseStep, RequestAudition, PreflightFails, LibraryRequest, LibraryDone,
             ResultExpires, CloseBegins, CloseFindsNoSession, CloseAwaited, CloseFinishes
<1>1. /\ up /\ UNCHANGED <<up, marker, phase, current, starter, worker>>
      /\ audition' \in {NoSession, audition}
      /\ closing' = "open" => closing = "open"
  BY DEF admission, shutdown
<1>2. owned' = Cleared(owned) \/ (owned' = owned /\ audition' = audition)
  BY DEF admission, shutdown
<1>3. \A t \in Sessions : owned[t] \in Owned /\ Calm(owned[t], owned[t])
  BY CalmFields DEF IInv, TypeOK
<1>4. \A t \in Sessions : Calm(owned[t], owned'[t]) /\ owned'[t].result = owned[t].result /\ Kept(t)
  BY <1>1, <1>2, <1>3, ClearedIsCalm DEF Kept
<1>5. lock' = "library" =>
        lock = "library" \/ (current = NoSession /\ \A t \in Sessions : ~Admitting(t))
  BY DEF admission, shutdown, RequireIdle, IInv, AdmittingIsAlone
<1>6. ASSUME audition' # audition, closing' = "open"
      PROVE  current = NoSession /\ \A t \in Sessions : owned'[t].pcm = "empty"
  <2>1. owned' = Cleared(owned) /\ closing = "open"
    BY <1>1, <1>2, <1>6
  <2>2. current = NoSession
    <3>1. CASE LibraryDone
      BY <3>1 DEF SInv, LibraryIsAlone
    <3>2. CASE ResultExpires
      BY <2>1, <3>2 DEF ExpirableResult, SInv, CurrentIsAudition, IInv, TypeOK
    <3>3. QED
      BY <1>6, <3>1, <3>2 DEF admission, shutdown
  <2>3. ASSUME NEW t \in Sessions
        PROVE  owned'[t].pcm = "empty"
    <3>1. CASE audition = t
      BY <2>1, <3>1, ClearedIsCalm
    <3>2. CASE audition # t
      BY <1>4, <2>1, <3>2 DEF SInv, AudioIsKept, Calm
    <3>3. QED
      BY <3>1, <3>2
  <2>4. QED
    BY <2>2, <2>3
<1>7. NoSession \notin Sessions
  BY ConstantsOK
<1>. HIDE DEF LibraryStep, CloseStep
<1>8. QED
  BY <1>1, <1>4, <1>5, <1>6, <1>7, CalmFrame

-----------------------------------------------------------------------------
(* The worker, and the steps that change only its stage and its pipe.      *)

\* Nothing but the worker of s changes, into w.
LEMMA WorkerProgressFrame ==
  ASSUME IInv, SInv, IInv', NEW s \in Sessions, NEW w, worker' = [worker EXCEPT ![s] = w],
         UNCHANGED <<admission, phase, current, audition, owned>>,
         Spent(s) => w.stage \in {"exiting", "clean", "failed"} /\ w.pipe = worker[s].pipe,
         owned[s].kind = "audition" =>
           (Unclear(w.pipe) => w.stage \in {"exiting", "clean", "failed"}) /\ Orderly(w.pipe)
  PROVE  Progress
<1>. USE DEF admission
<1>1. worker'[s] = w /\ \A t \in Sessions : t # s => worker'[t] = worker[t]
  BY DEF IInv, TypeOK
<1>2. UnclaimedIsUnmarked' /\ LibraryIsAlone'
  BY DEF SInv, UnclaimedIsUnmarked, LibraryIsAlone, Admitting
<1>3. StartingIsBlank'
  BY DEF SInv, StartingIsBlank, Admitting, Spawning
<1>4. CurrentIsAudition' /\ ReadyIsHeld' /\ AudioIsKept'
  BY DEF SInv, CurrentIsAudition, ReadyIsHeld, AudioIsKept
<1>5. HandleIsMonitored' /\ MonitoredIsCurrent'
  BY DEF SInv, HandleIsMonitored, MonitoredIsCurrent
<1>6. UncertainIsLast'
  BY <1>1 DEF SInv, UncertainIsLast, Spent
<1>7. BlockedIsSpent'
  BY <1>1 DEF SInv, BlockedIsSpent, Spent, AcceptsAudio
<1>8. KeepsResults /\ Unblocks
  BY DEF KeepsResults, Unblocks
<1>9. QED
  BY <1>2, <1>3, <1>4, <1>5, <1>6, <1>7, <1>8 DEF Progress, SInv

\* A worker that has not ended goes to the stage given, and adds q.
LEMMA ReportProgress ==
  ASSUME IInv, SInv, IInv', NEW s \in Sessions, ~Spent(s), NEW stage, NEW q \in Seq(Event),
         stage \in AliveStages \cup {"clean", "failed"},
         owned[s].kind = "audition" => (Unclear(q) => stage = "exiting") /\ Orderly(q),
         NEW w, w.stage = stage, w.pipe = worker[s].pipe \o q,
         Moves(s, w)
  PROVE  Progress
<1>1. worker[s].pipe \in Seq(Event)
  BY DEF IInv, TypeOK, Worker
<1>2. owned[s].kind = "audition" => ~Unclear(worker[s].pipe)
  BY DEF SInv, UncertainIsLast
<1>3. owned[s].kind = "audition" =>
        Orderly(worker[s].pipe \o q) /\ (Unclear(worker[s].pipe \o q) => Unclear(q))
  BY <1>1, <1>2, OrderlyJoined
<1>4. QED
  BY <1>3, WorkerProgressFrame DEF Moves

LEMMA WorkerFields ==
  ASSUME NEW w \in Worker
  PROVE  \A q \in Seq(Event), v \in AliveStages \cup {"none", "clean", "failed"} :
           /\ [w EXCEPT !.stage = v, !.pipe = @ \o q].stage = v
           /\ [w EXCEPT !.stage = v, !.pipe = @ \o q].pipe = w.pipe \o q
<1>. TAKE q \in Seq(Event), v \in AliveStages \cup {"none", "clean", "failed"}
<1>. DEFINE a == [w EXCEPT !.stage = v]
            p == w.pipe \o q
            b == [a EXCEPT !.pipe = p]
<1>1. [w EXCEPT !.stage = v, !.pipe = @ \o q] = b /\ p \in Seq(Event)
  BY DEF Worker
<1>2. a \in Worker /\ a.stage = v /\ a.pipe = w.pipe
  BY StageField
<1>. HIDE DEF a, p
<1>3. b.stage = v /\ b.pipe = p
  BY <1>1, <1>2, PipeField
<1>4. QED
  BY <1>1, <1>3 DEF p

LEMMA WorkerProgress ==
  ASSUME IInv, SInv, IInv', NEW s \in Sessions, WorkerStep(s) \/ Fork(s)
  PROVE  Progress
<1>. DEFINE W(v, q) == [worker[s] EXCEPT !.stage = v, !.pipe = @ \o q]
<1>0. /\ worker[s] \in Worker /\ worker[s].pipe \in Seq(Event)
      /\ worker[s].stage \in AliveStages \cup {"none", "clean", "failed"}
  BY DEF IInv, TypeOK, Worker
<1>1. \A q \in Seq(Event), v \in AliveStages :
        W(v, q).stage = v /\ W(v, q).pipe = worker[s].pipe \o q
  BY <1>0, WorkerFields
<1>2. /\ <<>> \in Seq(Event) /\ worker[s].pipe \o <<>> = worker[s].pipe
      /\ \A e \in Event : Append(worker[s].pipe, e) = worker[s].pipe \o <<e>>
  BY <1>0
<1>3. CASE \E w : /\ w.pipe = worker[s].pipe
                  /\ w.stage = worker[s].stage \/ w.stage \in {"clean", "failed"} \/ ~Spent(s)
                  /\ worker' = [worker EXCEPT ![s] = w]
                  /\ UNCHANGED <<admission, phase, current, audition, owned>>
  <2>1. PICK w : /\ w.pipe = worker[s].pipe
                 /\ w.stage = worker[s].stage \/ w.stage \in {"clean", "failed"} \/ ~Spent(s)
                 /\ worker' = [worker EXCEPT ![s] = w]
                 /\ UNCHANGED <<admission, phase, current, audition, owned>>
    BY <1>3
  <2>2. QED
    BY <2>1, WorkerProgressFrame DEF SInv, UncertainIsLast, Spent
<1>4. CASE Fork(s)
  <2>. DEFINE w == [worker[s] EXCEPT !.stage = "booting"]
  <2>1. w.pipe = worker[s].pipe
    BY <1>0 DEF Worker
  <2>2. worker' = [worker EXCEPT ![s] = w] /\ ~Spent(s)
    BY <1>4 DEF Fork, Spent
  <2>. HIDE DEF w
  <2>3. QED
    BY <1>3, <1>4, <2>1, <2>2 DEF Fork
<1>5. CASE WorkerInfers(s) \/ BackendSettles(s)
  <2>1. PICK v \in {"none", "running"} : Moves(s, [worker[s] EXCEPT !.work = v])
    BY <1>5 DEF WorkerInfers, BackendSettles
  <2>. DEFINE w == [worker[s] EXCEPT !.work = v]
  <2>2. w.pipe = worker[s].pipe /\ w.stage = worker[s].stage
    BY <1>0 DEF Worker
  <2>3. Moves(s, w)
    BY <2>1
  <2>. HIDE DEF w
  <2>4. QED
    BY <1>3, <2>2, <2>3 DEF Moves
<1>6. CASE WorkerExits(s) \/ WorkerCrashes(s)
  <2>1. PICK v \in {"clean", "failed"} : Moves(s, [worker[s] EXCEPT !.stage = v])
    BY <1>6 DEF WorkerExits, WorkerCrashes
  <2>. DEFINE w == [worker[s] EXCEPT !.stage = v]
  <2>2. w.pipe = worker[s].pipe /\ w.stage = v
    BY <1>0 DEF Worker
  <2>3. Moves(s, w)
    BY <2>1
  <2>. HIDE DEF w
  <2>4. QED
    BY <1>3, <2>2, <2>3 DEF Moves
<1>7. CASE BackendUncertain(s)
  <2>. DEFINE v == [worker[s] EXCEPT !.work = "uncertain"]
              p == Append(worker[s].pipe, "uncertain")
              w == [v EXCEPT !.pipe = p]
  <2>1. v.pipe = worker[s].pipe /\ v.stage = worker[s].stage /\ v \in Worker
    BY <1>0 DEF Worker
  <2>2. w = [worker[s] EXCEPT !.work = "uncertain", !.pipe = Append(@, "uncertain")]
    OBVIOUS
  <2>3. p \in Seq(Event)
    BY <1>0 DEF Event
  <2>4. Moves(s, v) \/ (Moves(s, w) /\ owned[s].kind = "room" /\ ~Spent(s))
    BY <1>7, <2>2 DEF BackendUncertain, Spent
  <2>. HIDE DEF v, p
  <2>5. w.pipe = p
    BY <2>1, <2>3, PipeField
  <2>. HIDE DEF w
  <2>6. CASE Moves(s, v)
    BY <1>3, <2>1, <2>6 DEF Moves
  <2>7. CASE Moves(s, w) /\ owned[s].kind = "room" /\ ~Spent(s)
    BY <2>7, WorkerProgressFrame DEF Moves
  <2>8. QED
    BY <2>4, <2>6, <2>7
<1>8. ASSUME ~Spent(s), NEW v \in AliveStages, NEW q \in Seq(Event), Moves(s, W(v, q)),
             (Unclear(q) => v = "exiting") /\ Orderly(q)
      PROVE  Progress
  <2>1. W(v, q).stage = v /\ W(v, q).pipe = worker[s].pipe \o q
    BY <1>1
  <2>. HIDE DEF W
  <2>2. QED
    BY <1>8, <2>1, ReportProgress
<1>9. CASE WorkerBoots(s)
  <2>1. CASE owned[s].kind = "audition"
    <3>1. Moves(s, W("starting", <<"started">>)) /\ ~Spent(s)
      BY <1>2, <1>9, <2>1 DEF WorkerBoots, Spent, Event
    <3>2. <<"started">> \in Seq(Event) /\ Orderly(<<"started">>) /\ ~Unclear(<<"started">>)
      BY ShortReports DEF Event
    <3>. HIDE DEF W
    <3>3. QED
      BY <1>8, <3>1, <3>2 DEF AliveStages
  <2>2. CASE owned[s].kind # "audition"
    <3>1. Moves(s, W("starting", <<>>)) /\ ~Spent(s)
      BY <1>2, <1>9, <2>2 DEF WorkerBoots, Spent
    <3>. HIDE DEF W
    <3>2. QED
      BY <1>2, <1>8, <3>1, EmptyPipe DEF AliveStages
  <2>3. QED
    BY <2>1, <2>2
<1>10. CASE WorkerReady(s) \/ WorkerSpeaks(s)
  <2>1. \A e : [worker[s] EXCEPT !.pipe = Append(@, e)]
               = [worker[s] EXCEPT !.stage = worker[s].stage, !.pipe = Append(@, e)]
    BY <1>0 DEF Worker
  <2>2. \E e \in Event \ {"uncertain"} :
          Moves(s, [worker[s] EXCEPT !.stage = "serving", !.pipe = Append(@, e)])
    BY <1>10, <2>1 DEF WorkerReady, WorkerSpeaks, Event
  <2>3. PICK e \in Event \ {"uncertain"} :
          Moves(s, [worker[s] EXCEPT !.stage = "serving", !.pipe = Append(@, e)])
    BY <2>2
  <2>4. Moves(s, W("serving", <<e>>)) /\ ~Spent(s)
    BY <1>2, <1>10, <2>3 DEF WorkerReady, WorkerSpeaks, Spent
  <2>5. <<e>> \in Seq(Event) /\ Orderly(<<e>>) /\ ~Unclear(<<e>>)
    BY ShortReports
  <2>. HIDE DEF W
  <2>6. QED
    BY <1>8, <2>4, <2>5 DEF AliveStages
<1>11. CASE WorkerStops(s)
  <2>1. PICK q \in {<<"draining">>, <<"error", "draining">>} : Moves(s, W("draining", q))
    BY <1>11 DEF WorkerStops
  <2>2. q \in Seq(Event) /\ Orderly(q) /\ ~Unclear(q)
    <3>1. {"draining", "error"} \subseteq Event \ {"invalid"}
      BY DEF Event
    <3>2. CASE q = <<"draining">>
      BY <3>1, <3>2, ShortReports
    <3>3. CASE q = <<"error", "draining">>
      BY <3>1, <3>3, ShortReports
    <3>4. QED
      BY <3>2, <3>3
  <2>3. ~Spent(s)
    BY <1>11 DEF WorkerStops, Spent
  <2>. HIDE DEF W
  <2>4. QED
    BY <1>8, <2>1, <2>2, <2>3 DEF AliveStages
<1>12. CASE WorkerFinishes(s)
  <2>1. PICK q \in {<<"safe">>, <<"uncertain", "unsafe">>, <<"error", "unsafe">>} :
          Moves(s, W("exiting", q))
    <3>1. CASE worker[s].work = "none"
      BY <1>12, <3>1 DEF WorkerFinishes
    <3>2. CASE worker[s].work # "none" /\ owned[s].kind = "audition"
      BY <1>12, <3>2 DEF WorkerFinishes
    <3>3. CASE worker[s].work # "none" /\ owned[s].kind # "audition"
      BY <1>12, <3>3 DEF WorkerFinishes
    <3>4. QED
      BY <3>1, <3>2, <3>3
  <2>2. q \in Seq(Event) /\ Orderly(q)
    <3>1. {"safe", "unsafe", "uncertain", "error"} \subseteq Event \ {"invalid"}
      BY DEF Event
    <3>2. CASE q = <<"safe">>
      BY <3>1, <3>2, ShortReports
    <3>3. CASE q = <<"uncertain", "unsafe">> \/ q = <<"error", "unsafe">>
      BY ZenonT(60), <3>1, <3>3, ShortReports
    <3>4. QED
      BY <3>2, <3>3
  <2>3. ~Spent(s)
    BY <1>12 DEF WorkerFinishes, Spent
  <2>. HIDE DEF W
  <2>4. QED
    BY <1>8, <2>1, <2>2, <2>3 DEF AliveStages
<1>13. QED
  BY <1>4, <1>5, <1>6, <1>7, <1>9, <1>10, <1>11, <1>12 DEF WorkerStep

-----------------------------------------------------------------------------
(* The monitor.                                                            *)

LEMMA HeardSample ==
  ASSUME NEW o \in Owned, NEW e \in Event
  PROVE  LET p == Heard(o, e) IN
         /\ p.handle = o.handle /\ p.result \in {o.result, "failed"}
         /\ p.pcm # "empty" => p.result = o.result /\ (o.pcm # "empty" \/ AcceptsAudio(o))
         /\ p.ending \in {o.ending, "new"} /\ (p.ending = "none" => o.ending = "none")
<1>. DEFINE p == Heard(o, e)
            Right(q) == /\ q.handle = o.handle /\ q.result \in {o.result, "failed"}
                        /\ q.pcm # "empty" => q.result = o.result /\ (o.pcm # "empty" \/ AcceptsAudio(o))
                        /\ q.ending \in {o.ending, "new"} /\ (q.ending = "none" => o.ending = "none")
<1>1. Right(o)
  OBVIOUS
<1>2. CASE e = "started" \/ e = "silent" \/ e = "voiced"
  <2>1. \/ p = [o EXCEPT !.stopReady = TRUE]
        \/ p = [o EXCEPT !.pcm = IF @ = "empty" THEN "silent" ELSE @] /\ AcceptsAudio(o)
        \/ p = [o EXCEPT !.pcm = "voiced"] /\ AcceptsAudio(o)
        \/ p = o
    BY <1>2 DEF Heard
  <2>2. Right([o EXCEPT !.stopReady = TRUE])
    BY DEF Owned
  <2>3. AcceptsAudio(o) => Right([o EXCEPT !.pcm = IF @ = "empty" THEN "silent" ELSE @])
    BY DEF Owned
  <2>4. AcceptsAudio(o) => Right([o EXCEPT !.pcm = "voiced"])
    BY DEF Owned
  <2>5. QED
    BY <1>1, <2>1, <2>2, <2>3, <2>4
<1>3. CASE e = "invalid" \/ e = "error"
  <2>. DEFINE a == [o EXCEPT !.pcm = "empty"]
              b == [a EXCEPT !.result = "failed"]
              f == IF o.ending = "none" THEN "new" ELSE o.ending
              c == [b EXCEPT !.ending = f]
  <2>1. p = c \/ p = b \/ p = o
    BY <1>3 DEF Heard
  <2>2. a \in Owned /\ a.pcm = "empty" /\ a.ending = o.ending /\ a.handle = o.handle
    BY DEF Owned
  <2>. HIDE DEF a
  <2>3. /\ b \in Owned /\ b.pcm = "empty" /\ b.result = "failed" /\ b.ending = o.ending
        /\ b.handle = o.handle
    BY <2>2 DEF Owned
  <2>. HIDE DEF b
  <2>4. c.pcm = "empty" /\ c.result = "failed" /\ c.ending = f /\ c.handle = o.handle
    BY <2>3 DEF Owned
  <2>. HIDE DEF c
  <2>5. QED
    BY <1>1, <2>1, <2>3, <2>4
<1>4. CASE e = "safe" \/ e = "unsafe"
  <2>. DEFINE a == [o EXCEPT !.finished = TRUE]
              v == e = "safe"
              b == [a EXCEPT !.safe = v]
  <2>1. p = b
    BY <1>4 DEF Heard
  <2>2. a \in Owned /\ a.pcm = o.pcm /\ a.result = o.result /\ a.ending = o.ending /\ a.handle = o.handle
    BY DEF Owned
  <2>. HIDE DEF a, v
  <2>3. b.pcm = o.pcm /\ b.result = o.result /\ b.ending = o.ending /\ b.handle = o.handle
    BY <2>2 DEF Owned
  <2>. HIDE DEF b
  <2>4. QED
    BY <2>1, <2>3
<1>5. CASE e \in {"ready", "draining", "uncertain"}
  <2>1. p = o
    BY <1>5 DEF Heard
  <2>2. QED
    BY <1>1, <2>1
<1>6. QED
  BY <1>2, <1>3, <1>4, <1>5 DEF Event

\* A line that is heard ends an audition, and takes the phase to "draining", only
\* when the audition still accepts audio.
LEMMA HeardPhase ==
  ASSUME NEW o \in Owned, NEW e \in Event
  PROVE  /\ PhaseAfter(o, e) = "blocked" => phase = "blocked" \/ e = "uncertain"
         /\ phase = "blocked" /\ PhaseAfter(o, e) # "blocked" =>
              e = "invalid" /\ AcceptsAudio(o) /\ o.ending = "none"
<1>1. e = "invalid" /\ Heard(o, e).ending # o.ending => AcceptsAudio(o) /\ o.ending = "none"
  <2>. DEFINE a == [o EXCEPT !.pcm = "empty"]
              b == [a EXCEPT !.result = "failed"]
              f == IF o.ending = "none" THEN "new" ELSE o.ending
              c == [b EXCEPT !.ending = f]
  <2>1. e = "invalid" => Heard(o, e) = IF AcceptsAudio(o) THEN c ELSE o
    BY DEF Heard
  <2>2. a \in Owned
    BY DEF Owned
  <2>. HIDE DEF a
  <2>3. b \in Owned
    BY <2>2 DEF Owned
  <2>. HIDE DEF b
  <2>4. c.ending = f
    BY <2>3 DEF Owned
  <2>. HIDE DEF c
  <2>5. QED
    BY <2>1, <2>4
<1>2. QED
  BY <1>1 DEF PhaseAfter

LEMMA ReadsProgress ==
  ASSUME IInv, SInv, IInv', NEW s \in Sessions, MonitorReads(s)
  PROVE  Progress
<1>. DEFINE e == Head(worker[s].pipe)
            w == [worker[s] EXCEPT !.pipe = Tail(@)]
            o == owned[s]
            p == Heard(o, e)
<1>1. /\ o \in Owned /\ worker[s] \in Worker /\ owned \in [Sessions -> Owned]
      /\ worker \in [Sessions -> Worker] /\ NoSession \notin Sessions
  BY ConstantsOK DEF IInv, TypeOK
<1>2. /\ worker[s].pipe \in Seq(Event) /\ worker[s].pipe # <<>> /\ o.monitor = "reading" /\ up
      /\ UNCHANGED <<admission, current, audition>>
  BY <1>1 DEF Worker, MonitorReads
<1>3. /\ e \in Event /\ Tail(worker[s].pipe) \in Seq(Event)
  BY <1>2, Taken
<1>4. /\ w \in Worker /\ w.stage = worker[s].stage /\ w.pipe = Tail(worker[s].pipe)
  BY <1>1, <1>3, PipeField
<1>5. worker' = [worker EXCEPT ![s] = w]
  BY DEF MonitorReads
<1>6. current = s
  BY <1>2 DEF SInv, MonitoredIsCurrent
<1>7. owned' = [owned EXCEPT ![s] = p] /\ phase' = PhaseAfter(o, e)
  BY <1>6 DEF MonitorReads
<1>8. /\ p \in Owned /\ p.kind = o.kind /\ p.start = o.start /\ p.monitor = o.monitor
      /\ p.playback = o.playback
  BY <1>1, <1>3, HeardIsOwned
<1>9. /\ p.handle = o.handle /\ p.result \in {o.result, "failed"}
      /\ p.pcm # "empty" => p.result = o.result /\ (o.pcm # "empty" \/ AcceptsAudio(o))
      /\ p.ending \in {o.ending, "new"} /\ (p.ending = "none" => o.ending = "none")
  BY <1>1, <1>3, HeardSample
<1>10. /\ phase' = "blocked" => phase = "blocked" \/ e = "uncertain"
       /\ phase = "blocked" /\ phase' # "blocked" =>
            e = "invalid" /\ AcceptsAudio(o) /\ o.ending = "none"
  BY <1>1, <1>3, <1>7, HeardPhase
<1>11. /\ Unclear(w.pipe) => Unclear(worker[s].pipe)
       /\ Orderly(worker[s].pipe) => Orderly(w.pipe)
       /\ Sound(worker[s].pipe) => Sound(w.pipe) /\ e # "invalid"
       /\ Orderly(worker[s].pipe) /\ e = "uncertain" => Unclear(worker[s].pipe) /\ Sound(w.pipe)
  BY <1>2, <1>4, OrderlyTaken
<1>. HIDE DEF w, p
<1>12. /\ owned'[s] = p /\ worker'[s] = w
       /\ \A t \in Sessions : t # s => owned'[t] = owned[t] /\ worker'[t] = worker[t]
  BY <1>1, <1>5, <1>7
<1>. HIDE DEF e
<1>13. UnclaimedIsUnmarked'
  BY <1>2 DEF admission, SInv, UnclaimedIsUnmarked
<1>14. LibraryIsAlone'
  BY <1>1, <1>2, <1>6 DEF admission, SInv, LibraryIsAlone
<1>15. StartingIsBlank'
  BY <1>2, <1>8, <1>12 DEF StartingIsBlank, SInv, IInv, StartingIsUnmonitored, Admitting, Spawning
<1>16. CurrentIsAudition' /\ ReadyIsHeld'
  BY <1>2, <1>8, <1>9, <1>12 DEF admission, SInv, CurrentIsAudition, ReadyIsHeld
<1>17. AudioIsKept'
  <2>1. AcceptsAudio(o) /\ closing = "open" => audition = s /\ o.result = "generating"
    BY <1>6 DEF SInv, CurrentIsAudition, AcceptsAudio
  <2>2. QED
    BY <1>2, <1>9, <1>12, <2>1 DEF admission, SInv, AudioIsKept
<1>18. HandleIsMonitored' /\ MonitoredIsCurrent'
  BY <1>2, <1>8, <1>9, <1>12 DEF admission, SInv, HandleIsMonitored, MonitoredIsCurrent
<1>19. UncertainIsLast'
  BY <1>4, <1>8, <1>11, <1>12 DEF SInv, UncertainIsLast, Spent
<1>20. BlockedIsSpent'
  <2>1. AcceptsAudio(p) => AcceptsAudio(o)
    BY <1>8, <1>9 DEF AcceptsAudio
  <2>2. ASSUME phase' = "blocked", AcceptsAudio(p), p.ending = "none"
        PROVE  Spent(s)' /\ Sound(w.pipe)
    <3>1. AcceptsAudio(o) /\ o.ending = "none" /\ o.kind = "audition"
      BY <1>9, <2>1, <2>2 DEF AcceptsAudio
    <3>2. Spent(s) /\ Sound(w.pipe)
      BY <1>2, <1>6, <1>10, <1>11, <2>2, <3>1 DEF SInv, BlockedIsSpent, UncertainIsLast
    <3>3. QED
      BY <1>4, <1>12, <3>2 DEF Spent
  <2>3. QED
    BY <1>2, <1>6, <1>12, <2>2 DEF BlockedIsSpent
<1>21. KeepsResults
  BY <1>9, <1>12 DEF KeepsResults
<1>22. Unblocks
  BY <1>2, <1>6, <1>10, <1>11 DEF SInv, BlockedIsSpent, Unblocks
<1>23. QED
  BY <1>13, <1>14, <1>15, <1>16, <1>17, <1>18, <1>19, <1>20, <1>21, <1>22 DEF Progress, SInv

\* The monitor of the current session is over, and its object becomes p.
LEMMA SettledProgress ==
  ASSUME IInv, SInv, IInv', up, NEW s \in Sessions, current = s,
         owned[s].monitor \in {"reading", "deleting"},
         NEW p, p.kind = owned[s].kind, p.start = owned[s].start, p.handle = owned[s].handle,
         p.monitor \in {"done", "failed", "deleting"},
         p.pcm # "empty" => owned[s].pcm # "empty" /\ p.result \in {owned[s].result, "ready"},
         p.result = "ready" => owned[s].result \in {"ready", "generating"},
         p.ending \in {owned[s].ending, "new"},
         p.playback => p.monitor = "done",
         owned' = [owned EXCEPT ![s] = p],
         \/ current' = s /\ (p.result = "ready" => p.playback)
         \/ current' = NoSession /\ p.monitor = "done" /\ ~marker',
         phase' \in {"blocked", "idle", phase} \/ ~marker',
         UNCHANGED <<shutdown, audition, lock, starter, worker>>
  PROVE  Progress
<1>. USE DEF shutdown
<1>1. owned'[s] = p /\ \A t \in Sessions : t # s => owned'[t] = owned[t]
  BY DEF IInv, TypeOK
<1>2. NoSession \notin Sessions
  BY ConstantsOK
<1>3. ~Admitting(s) /\ ~Spawning(s)
  BY DEF IInv, StartingIsUnmonitored
<1>4. UnclaimedIsUnmarked' /\ LibraryIsAlone'
  BY <1>2 DEF SInv, UnclaimedIsUnmarked, LibraryIsAlone
<1>5. StartingIsBlank'
  BY <1>1, <1>3 DEF SInv, StartingIsBlank, Admitting, Spawning
<1>6. CurrentIsAudition' /\ ReadyIsHeld'
  BY <1>1, <1>2 DEF SInv, CurrentIsAudition, ReadyIsHeld
<1>7. AudioIsKept'
  BY <1>1 DEF SInv, AudioIsKept
<1>8. HandleIsMonitored' /\ MonitoredIsCurrent'
  BY <1>1 DEF SInv, HandleIsMonitored, MonitoredIsCurrent
<1>9. UncertainIsLast'
  BY <1>1 DEF SInv, UncertainIsLast, Spent
<1>10. BlockedIsSpent'
  BY <1>1, <1>2 DEF BlockedIsSpent
<1>11. KeepsResults
  BY <1>1 DEF KeepsResults
<1>12. Unblocks
  BY UnmarkedUnblocks
<1>13. QED
  BY <1>4, <1>5, <1>6, <1>7, <1>8, <1>9, <1>10, <1>11, <1>12 DEF Progress, SInv

LEMMA CompletedSample ==
  ASSUME NEW o \in Owned
  PROVE  LET p == Completed(o) IN
         /\ p.kind = o.kind /\ p.start = o.start /\ p.handle = o.handle
         /\ p.monitor = o.monitor /\ p.ending = o.ending
         /\ p.finished = o.finished /\ p.safe = o.safe /\ p.stopReady = o.stopReady
         /\ p.pcm # "empty" => p.result = "ready" /\ o.pcm # "empty"
         /\ p.result = "ready" => o.result \in {"ready", "generating"}
<1>. DEFINE c == IF Outcome(o) = "ready" THEN o.pcm ELSE "empty"
            h == HoldsPlayback(o)
            p1 == [o EXCEPT !.completed = TRUE]
            p2 == [p1 EXCEPT !.result = Outcome(o)]
            p3 == [p2 EXCEPT !.pcm = c]
            p4 == [p3 EXCEPT !.playback = h]
            Same(p) == /\ p \in Owned /\ p.kind = o.kind /\ p.start = o.start /\ p.handle = o.handle
                       /\ p.monitor = o.monitor /\ p.ending = o.ending
                       /\ p.finished = o.finished /\ p.safe = o.safe /\ p.stopReady = o.stopReady
<1>1. Completed(o) = p4
  BY DEF Completed
<1>2. /\ Outcome(o) \in {"generating", "ready", "failed", "cancelled"}
      /\ c \in {"empty", "silent", "voiced"}
      /\ c # "empty" => Outcome(o) = "ready" /\ o.pcm # "empty"
      /\ Outcome(o) = "ready" => o.result \in {"ready", "generating"}
  BY DEF Outcome, Owned
<1>3. h \in BOOLEAN
  BY DEF HoldsPlayback, Owned
<1>. HIDE DEF c, h
<1>4. Same(p1)
  BY DEF Owned
<1>. HIDE DEF p1
<1>5. Same(p2) /\ p2.result = Outcome(o)
  BY <1>2, <1>4 DEF Owned
<1>. HIDE DEF p2
<1>6. Same(p3) /\ p3.result = Outcome(o) /\ p3.pcm = c
  BY <1>2, <1>5 DEF Owned
<1>. HIDE DEF p3
<1>7. Same(p4) /\ p4.result = p3.result /\ p4.pcm = p3.pcm
  BY <1>3, <1>6 DEF Owned
<1>. HIDE DEF p4
<1>8. QED
  BY <1>1, <1>2, <1>6, <1>7

LEMMA SettlesProgress ==
  ASSUME IInv, SInv, IInv', up, NEW s \in Sessions, owned[s].monitor = "reading",
         NEW leaving \in {"done", "failed"}, leaving = "failed" => ~owned[s].finished,
         MonitorSettles(s, leaving), UNCHANGED <<shutdown, audition, lock, starter, worker>>
  PROVE  Progress
<1>. DEFINE o == owned[s]
            left == [o EXCEPT !.monitor = leaving]
<1>0. o \in Owned /\ current = s
  BY DEF IInv, TypeOK, SInv, MonitoredIsCurrent
<1>1. \A v \in {"done", "failed", "deleting"} :
        LET p == [o EXCEPT !.monitor = v] IN
        /\ p \in Owned /\ p.monitor = v /\ p.kind = o.kind /\ p.start = o.start
        /\ p.handle = o.handle /\ p.playback = o.playback /\ p.pcm = o.pcm
        /\ p.result = o.result /\ p.ending = o.ending
  BY <1>0 DEF Owned
<1>2. ~o.playback /\ o.result # "ready"
  BY <1>0 DEF SInv, HandleIsMonitored, ReadyIsHeld
<1>3. CASE Confirmed(o, worker[s]) /\ o.kind = "audition" /\ Retire(s, Completed(left))
  <2>. DEFINE p == Completed(left)
  <2>1. /\ left \in Owned /\ left.kind = o.kind /\ left.start = o.start /\ left.handle = o.handle
        /\ left.monitor = "done" /\ left.ending = o.ending /\ left.pcm = o.pcm /\ left.result = o.result
    BY <1>1, <1>3 DEF Confirmed
  <2>. HIDE DEF left
  <2>2. /\ p.kind = o.kind /\ p.start = o.start /\ p.handle = o.handle
        /\ p.monitor = "done" /\ p.ending = o.ending
        /\ p.pcm # "empty" => p.result = "ready" /\ o.pcm # "empty"
        /\ p.result = "ready" => o.result \in {"ready", "generating"}
    BY <2>1, CompletedSample
  <2>. HIDE DEF p
  <2>3. Retire(s, p)
    BY <1>3 DEF p
  <2>4. QED
    BY <1>0, <2>2, <2>3, SettledProgress DEF Retire
<1>4. CASE /\ o.kind = "room" /\ owned' = [owned EXCEPT ![s].monitor = "deleting"]
           /\ UNCHANGED <<marker, phase, current>>
  <2>. DEFINE p == [o EXCEPT !.monitor = "deleting"]
  <2>1. /\ p.monitor = "deleting" /\ p.kind = o.kind /\ p.start = o.start
        /\ p.handle = o.handle /\ p.playback = o.playback /\ p.pcm = o.pcm
        /\ p.result = o.result /\ p.ending = o.ending
    BY <1>1
  <2>2. owned' = [owned EXCEPT ![s] = p]
    BY <1>4
  <2>. HIDE DEF p
  <2>3. ~p.playback /\ p.result # "ready"
    BY <1>2, <2>1
  <2>4. /\ p.kind = o.kind /\ p.start = o.start /\ p.handle = o.handle
        /\ p.monitor \in {"done", "failed", "deleting"} /\ p.ending \in {o.ending, "new"}
        /\ p.pcm # "empty" => o.pcm # "empty" /\ p.result \in {o.result, "ready"}
        /\ p.result = "ready" => o.result \in {"ready", "generating"}
        /\ p.playback => p.monitor = "done"
    BY <2>1, <2>3
  <2>5. /\ current' = s /\ (p.result = "ready" => p.playback)
        /\ phase' \in {"blocked", "idle", phase}
    BY <1>0, <1>4, <2>3
  <2>6. QED
    BY <1>0, <2>2, <2>4, <2>5, SettledProgress
<1>5. CASE /\ phase' = "blocked"
           /\ owned' = [owned EXCEPT ![s] =
                [(IF o.kind = "audition"
                  THEN [o EXCEPT !.pcm = "empty", !.result = "failed"] ELSE o)
                   EXCEPT !.monitor = leaving,
                          !.ending = IF Alive(s) /\ @ = "none" THEN "new" ELSE @]]
           /\ UNCHANGED <<marker, current>>
  <2>. DEFINE a == [o EXCEPT !.pcm = "empty"]
              b == [a EXCEPT !.result = "failed"]
              u == IF o.kind = "audition" THEN [o EXCEPT !.pcm = "empty", !.result = "failed"] ELSE o
              m == [u EXCEPT !.monitor = leaving]
              f == IF Alive(s) /\ u.ending = "none" THEN "new" ELSE u.ending
              p == [m EXCEPT !.ending = f]
              Same(q) == /\ q \in Owned /\ q.kind = o.kind /\ q.start = o.start
                         /\ q.handle = o.handle /\ q.playback = o.playback
              Less(q) == (q.pcm = o.pcm /\ q.result = o.result) \/ (q.pcm = "empty" /\ q.result = "failed")
  <2>1. owned' = [owned EXCEPT ![s] = p]
    BY <1>5
  <2>2. u = b \/ u = o
    OBVIOUS
  <2>3. Same(a) /\ a.pcm = "empty" /\ a.ending = o.ending
    BY <1>0 DEF Owned
  <2>. HIDE DEF a
  <2>4. Same(b) /\ b.pcm = "empty" /\ b.result = "failed" /\ b.ending = o.ending
    BY <2>3 DEF Owned
  <2>. HIDE DEF b
  <2>5. Same(u) /\ Less(u) /\ u.ending = o.ending
    BY <1>0, <2>2, <2>4
  <2>. HIDE DEF u
  <2>6. Same(m) /\ Less(m) /\ m.ending = u.ending /\ m.monitor = leaving
    BY <2>5 DEF Owned
  <2>7. f \in {o.ending, "new"}
    BY <2>5
  <2>. HIDE DEF m, f
  <2>8. /\ p.kind = o.kind /\ p.start = o.start /\ p.handle = o.handle /\ p.playback = o.playback
        /\ Less(p) /\ p.monitor = leaving /\ p.ending = f
    BY <2>6 DEF Owned
  <2>. HIDE DEF p
  <2>9. ~p.playback /\ p.result # "ready"
    BY <1>2, <2>8
  <2>10. /\ p.kind = o.kind /\ p.start = o.start /\ p.handle = o.handle
         /\ p.monitor \in {"done", "failed", "deleting"} /\ p.ending \in {o.ending, "new"}
         /\ p.pcm # "empty" => o.pcm # "empty" /\ p.result \in {o.result, "ready"}
         /\ p.result = "ready" => o.result \in {"ready", "generating"}
         /\ p.playback => p.monitor = "done"
    BY <2>7, <2>8, <2>9
  <2>11. /\ current' = s /\ (p.result = "ready" => p.playback)
         /\ phase' \in {"blocked", "idle", phase}
    BY <1>0, <1>5, <2>9
  <2>. HIDE DEF left, Same, Less
  <2>12. QED
    BY <1>0, <2>1, <2>10, <2>11, SettledProgress
<1>6. QED
  BY <1>0, <1>3, <1>4, <1>5 DEF MonitorSettles

LEMMA MonitorProgress ==
  ASSUME IInv, SInv, IInv', NEW s \in Sessions, MonitorStep(s)
  PROVE  Progress
<1>1. CASE MonitorReads(s)
  BY <1>1, ReadsProgress
<1>2. CASE MonitorEnds(s) \/ MonitorFails(s)
  BY <1>2, SettlesProgress DEF MonitorEnds, MonitorFails
<1>3. CASE MonitorDeletesRoom(s)
  <2>. DEFINE p == [owned[s] EXCEPT !.monitor = "done"]
  <2>1. /\ owned[s] \in Owned /\ owned[s].monitor = "deleting" /\ current = s
        /\ ~owned[s].playback /\ owned[s].result # "ready" /\ up
    BY <1>3 DEF MonitorDeletesRoom, IInv, TypeOK, DeletingIsConfirmed, SInv, HandleIsMonitored,
                ReadyIsHeld
  <2>2. /\ p.monitor = "done" /\ p.kind = owned[s].kind /\ p.start = owned[s].start
        /\ p.handle = owned[s].handle /\ p.playback = owned[s].playback /\ p.pcm = owned[s].pcm
        /\ p.result = owned[s].result /\ p.ending = owned[s].ending
    BY <2>1 DEF Owned
  <2>3. \/ Retire(s, p)
        \/ /\ phase' = "blocked" /\ owned' = [owned EXCEPT ![s] = p] /\ current' = current
    BY <1>3 DEF MonitorDeletesRoom
  <2>4. UNCHANGED <<shutdown, audition, lock, starter, worker>>
    BY <1>3 DEF MonitorDeletesRoom
  <2>. HIDE DEF p
  <2>5. QED
    BY <2>1, <2>2, <2>3, <2>4, SettledProgress DEF Retire
<1>4. QED
  BY <1>1, <1>2, <1>3 DEF MonitorStep

-----------------------------------------------------------------------------
(* Starting a session.                                                     *)

\* p is the session object o when its start has failed.
Unstarted(o, p) ==
  /\ p.start \in {"none", "cleanup"} /\ p.kind = o.kind /\ p.monitor = o.monitor
  /\ p.handle = o.handle /\ p.pcm = o.pcm /\ p.playback = o.playback /\ p.ending = o.ending
  /\ p.result \in {o.result, "failed"}

\* There is no worker, and the object of s becomes o.
LEMMA NotStartedProgress ==
  ASSUME IInv, SInv, IInv', up, NEW s \in Sessions, Admitting(s) \/ owned[s].start = "spawn",
         NEW o, Unstarted(owned[s], o), NotStarted(s, o),
         UNCHANGED <<shutdown, audition, lock, starter, worker>>
  PROVE  Progress
<1>. USE DEF Unstarted, NotStarted, shutdown
<1>1. owned'[s] = o /\ \A t \in Sessions : t # s => owned'[t] = owned[t]
  BY DEF IInv, TypeOK
<1>2. /\ owned[s].pcm = "empty" /\ owned[s].monitor = "none" /\ ~Admitting(s)' /\ ~Spawning(s)'
      /\ current \in {s, NoSession}
  BY <1>1 DEF SInv, StartingIsBlank, IInv, StartingIsUnmonitored, AdmittingIsAlone, BusyIsCurrent,
              Admitting, Spawning
<1>3. NoSession \notin Sessions
  BY ConstantsOK
<1>4. \A t \in Sessions : (Admitting(t)' => Admitting(t)) /\ (Spawning(t)' => Spawning(t))
  BY <1>1, <1>2 DEF Admitting, Spawning
<1>5. UnclaimedIsUnmarked' /\ LibraryIsAlone'
  BY <1>4 DEF SInv, UnclaimedIsUnmarked, LibraryIsAlone
<1>6. StartingIsBlank'
  BY <1>1, <1>2, <1>4 DEF SInv, StartingIsBlank
<1>7. CurrentIsAudition' /\ ReadyIsHeld' /\ BlockedIsSpent'
  BY <1>3 DEF CurrentIsAudition, ReadyIsHeld, BlockedIsSpent
<1>8. AudioIsKept'
  BY <1>1, <1>2 DEF SInv, AudioIsKept
<1>9. HandleIsMonitored'
  BY <1>1 DEF SInv, HandleIsMonitored
<1>10. MonitoredIsCurrent'
  BY <1>1, <1>2, <1>3 DEF SInv, MonitoredIsCurrent
<1>11. UncertainIsLast'
  BY <1>1 DEF SInv, UncertainIsLast, Spent
<1>12. KeepsResults
  BY <1>1 DEF KeepsResults
<1>13. Unblocks
  BY UnmarkedUnblocks
<1>14. QED
  BY <1>5, <1>6, <1>7, <1>8, <1>9, <1>10, <1>11, <1>12, <1>13 DEF Progress, SInv

\* The start task of s goes on; a conversation becomes the current session when
\* its worker is about to be spawned.
LEMMA NextStageProgress ==
  ASSUME IInv, SInv, IInv', up, NEW s \in Sessions, NEW stage \in {"room", "spawn"},
         owned' = [owned EXCEPT ![s].start = stage],
         \/ owned[s].start = "checks" /\ stage = "room" /\ UNCHANGED <<marker, current>>
         \/ owned[s].start \in {"room", "mark"} /\ stage = "spawn" /\ marker' = TRUE /\ current' = s,
         UNCHANGED <<shutdown, phase, audition, lock, starter, worker>>
  PROVE  Progress
<1>. DEFINE o == [owned[s] EXCEPT !.start = stage]
<1>. USE DEF shutdown
<1>1. /\ o.start = stage /\ o.kind = owned[s].kind /\ o.monitor = owned[s].monitor
      /\ o.handle = owned[s].handle /\ o.pcm = owned[s].pcm /\ o.playback = owned[s].playback
      /\ o.ending = owned[s].ending /\ o.result = owned[s].result
  BY DEF IInv, TypeOK, Owned
<1>2. owned' = [owned EXCEPT ![s] = o]
  OBVIOUS
<1>. HIDE DEF o
<1>3. owned'[s] = o /\ \A t \in Sessions : t # s => owned'[t] = owned[t]
  BY <1>2 DEF IInv, TypeOK
<1>4. /\ owned[s].pcm = "empty" /\ owned[s].result # "ready" /\ owned[s].monitor = "none"
      /\ current \in {s, NoSession}
      /\ owned[s].start \in {"checks", "room"} =>
           owned[s].kind = "room" /\ audition = NoSession /\ current = NoSession
      /\ owned[s].start = "mark" => current = s
  BY DEF SInv, StartingIsBlank, IInv, StartingIsUnmonitored, AdmittingIsAlone, BusyIsCurrent,
         Admitting, Spawning
<1>5. NoSession \notin Sessions
  BY ConstantsOK
<1>6. UnclaimedIsUnmarked'
  BY <1>5 DEF SInv, UnclaimedIsUnmarked
<1>7. LibraryIsAlone'
  <2>1. lock # "library"
    BY <1>4, <1>5 DEF SInv, LibraryIsAlone, Admitting
  <2>2. QED
    BY <2>1 DEF LibraryIsAlone
<1>8. StartingIsBlank'
  <2>1. Admitting(s)' => owned[s].kind = "room" /\ audition = NoSession
    BY <1>1, <1>3, <1>4 DEF Admitting
  <2>2. \A t \in Sessions : t # s =>
          (Admitting(t)' <=> Admitting(t)) /\ (Spawning(t)' <=> Spawning(t))
    BY <1>3 DEF Admitting, Spawning
  <2>3. QED
    BY <1>1, <1>3, <1>4, <2>1, <2>2 DEF SInv, StartingIsBlank
<1>9. CurrentIsAudition'
  BY <1>1, <1>3, <1>4 DEF SInv, CurrentIsAudition
<1>10. ReadyIsHeld' /\ AudioIsKept'
  BY <1>1, <1>3, <1>4 DEF SInv, ReadyIsHeld, AudioIsKept
<1>11. HandleIsMonitored' /\ MonitoredIsCurrent'
  BY <1>1, <1>3, <1>4, <1>5 DEF SInv, HandleIsMonitored, MonitoredIsCurrent
<1>12. UncertainIsLast'
  BY <1>1, <1>3 DEF SInv, UncertainIsLast, Spent
<1>13. BlockedIsSpent'
  BY <1>1, <1>3, <1>4 DEF SInv, BlockedIsSpent, AcceptsAudio, Spent
<1>14. KeepsResults
  BY <1>1, <1>3 DEF KeepsResults
<1>15. Unblocks
  BY DEF Unblocks
<1>16. QED
  BY <1>6, <1>7, <1>8, <1>9, <1>10, <1>11, <1>12, <1>13, <1>14, <1>15 DEF Progress, SInv

LEMMA ReturnsProgress ==
  ASSUME IInv, SInv, IInv', NEW s \in Sessions, SpawnReturns(s)
  PROVE  Progress
<1>. DEFINE at == IF owned[s].kind = "room" THEN "none" ELSE "stdin"
            a == [owned[s] EXCEPT !.handle = TRUE]
            b == [a EXCEPT !.monitor = "reading"]
            o == [b EXCEPT !.start = at]
            Same(p) == /\ p.kind = owned[s].kind /\ p.pcm = owned[s].pcm /\ p.result = owned[s].result
                       /\ p.playback = owned[s].playback /\ p.ending = owned[s].ending
<1>. USE DEF admission
<1>0. /\ up /\ owned[s] \in Owned /\ owned[s].start = "spawn"
      /\ UNCHANGED <<up, marker, closing, awaited, lock, starter, phase, current, audition, worker>>
  BY DEF IInv, TypeOK, SpawnReturns
<1>1. owned' = [owned EXCEPT ![s] = o] /\ at \in {"none", "stdin"}
  BY <1>0 DEF SpawnReturns
<1>2. a \in Owned /\ a.handle = TRUE /\ Same(a)
  BY <1>0 DEF Owned
<1>. HIDE DEF a, at
<1>3. b \in Owned /\ b.handle = TRUE /\ b.monitor = "reading" /\ Same(b)
  BY <1>2 DEF Owned
<1>. HIDE DEF b
<1>4. o.handle = TRUE /\ o.monitor = "reading" /\ o.start = at /\ Same(o)
  BY <1>3 DEF Owned
<1>. HIDE DEF o
<1>5. owned'[s] = o /\ \A t \in Sessions : t # s => owned'[t] = owned[t]
  BY <1>1 DEF IInv, TypeOK
<1>6. /\ current = s /\ owned[s].monitor = "none" /\ ~owned[s].playback
      /\ ~Admitting(s)' /\ ~Spawning(s)'
  BY <1>0, <1>1, <1>4, <1>5 DEF IInv, BusyIsCurrent, StartingIsUnmonitored, Spawning, Admitting
<1>7. UnclaimedIsUnmarked' /\ LibraryIsAlone'
  BY <1>0, <1>5, <1>6 DEF SInv, UnclaimedIsUnmarked, LibraryIsAlone, Admitting
<1>8. StartingIsBlank'
  BY <1>0, <1>5, <1>6 DEF SInv, StartingIsBlank, Admitting, Spawning
<1>9. CurrentIsAudition' /\ ReadyIsHeld' /\ AudioIsKept'
  BY <1>0, <1>4, <1>5 DEF SInv, CurrentIsAudition, ReadyIsHeld, AudioIsKept
<1>10. HandleIsMonitored' /\ MonitoredIsCurrent'
  BY <1>0, <1>4, <1>5, <1>6 DEF SInv, HandleIsMonitored, MonitoredIsCurrent
<1>11. UncertainIsLast'
  BY <1>0, <1>4, <1>5 DEF SInv, UncertainIsLast, Spent
<1>12. BlockedIsSpent'
  BY <1>0, <1>4, <1>5, <1>6 DEF SInv, BlockedIsSpent, AcceptsAudio, Spent
<1>13. KeepsResults /\ Unblocks
  BY <1>0, <1>4, <1>5 DEF KeepsResults, Unblocks
<1>14. QED
  BY <1>7, <1>8, <1>9, <1>10, <1>11, <1>12, <1>13 DEF Progress, SInv

LEMMA StartProgress ==
  ASSUME IInv, SInv, IInv', NEW s \in Sessions, StartStep(s)
  PROVE  Progress
<1>0. owned[s] \in Owned
  BY DEF IInv, TypeOK
<1>1. \A v \in {"none", "cleanup"} :
        LET o == [owned[s] EXCEPT !.start = v] IN o \in Owned /\ Unstarted(owned[s], o)
  BY <1>0 DEF Owned, Unstarted
<1>2. CASE CreateChecks(s)
  <2>1. CASE NotStarted(s, [owned[s] EXCEPT !.start = "none"])
    <3>1. \E o : Unstarted(owned[s], o) /\ NotStarted(s, o)
      BY <1>1, <2>1
    <3>2. QED
      BY <1>2, <3>1, NotStartedProgress DEF CreateChecks, Admitting
  <2>2. CASE owned' = [owned EXCEPT ![s].start = "room"] /\ UNCHANGED <<marker, current, phase>>
    BY <1>2, <2>2, NextStageProgress DEF CreateChecks
  <2>3. QED
    BY <1>2, <2>1, <2>2 DEF CreateChecks
<1>3. CASE CreateRoom(s)
  <2>1. CASE \E v \in {"none", "cleanup"} : NotStarted(s, [owned[s] EXCEPT !.start = v])
    <3>1. \E o : Unstarted(owned[s], o) /\ NotStarted(s, o)
      BY <1>1, <2>1
    <3>2. QED
      BY <1>3, <3>1, NotStartedProgress DEF CreateRoom, Admitting
  <2>2. CASE /\ marker' = TRUE /\ current' = s /\ owned' = [owned EXCEPT ![s].start = "spawn"]
             /\ UNCHANGED phase
    BY <1>3, <2>2, NextStageProgress DEF CreateRoom
  <2>3. QED
    BY <1>3, <2>1, <2>2 DEF CreateRoom
<1>4. CASE MarkAudition(s)
  <2>1. current = s
    BY <1>4 DEF MarkAudition, IInv, BusyIsCurrent, Spawning
  <2>2. QED
    BY <1>4, <2>1, NextStageProgress DEF MarkAudition
<1>5. CASE Fork(s) \/ SpawnReturns(s)
  BY <1>5, WorkerProgress, ReturnsProgress
<1>6. CASE SpawnFails(s)
  <2>. DEFINE a == [owned[s] EXCEPT !.start = "none"]
              b == [a EXCEPT !.result = "failed"]
  <2>1. a \in Owned /\ Unstarted(owned[s], a) /\ a.result = owned[s].result
    BY <1>0, <1>1 DEF Owned
  <2>2. [owned[s] EXCEPT !.start = "none", !.result = "failed"] = b
    OBVIOUS
  <2>. HIDE DEF a
  <2>3. Unstarted(owned[s], b)
    BY <2>1 DEF Owned, Unstarted
  <2>. HIDE DEF b
  <2>4. NotStarted(s, [owned[s] EXCEPT !.start = "cleanup"]) \/ NotStarted(s, b)
    BY <1>6, <2>2 DEF SpawnFails
  <2>5. \E o : Unstarted(owned[s], o) /\ NotStarted(s, o)
    BY <1>1, <2>3, <2>4
  <2>6. QED
    BY <1>6, <2>5, NotStartedProgress DEF SpawnFails
<1>7. CASE FeedAudition(s) \/ CleanUpRoom(s)
  BY <1>7, RequestsProgress
<1>8. QED
  BY <1>2, <1>3, <1>4, <1>5, <1>6, <1>7 DEF StartStep

-----------------------------------------------------------------------------
(* Requests that begin a session.                                          *)

\* With the session s, whose object is o, every other session is at rest.
LEMMA AdmittedProgress ==
  ASSUME IInv, SInv, IInv', up, NEW s \in Sessions, Fresh(s), current = NoSession, ~marker,
         \A t \in Sessions : ~Admitting(t),
         NEW kind \in {"room", "audition"}, NEW hold, NEW at,
         owned' = [Cleared(owned) EXCEPT ![s] = NewSession(kind, hold, at)],
         worker' = [worker EXCEPT ![s] = NoWorker],
         phase' = "starting", lock' = "free", UNCHANGED <<shutdown, marker>>,
         \/ kind = "room" /\ at = "checks" /\ current' = NoSession /\ audition' = NoSession
         \/ kind = "audition" /\ at = "mark" /\ current' = s /\ audition' = s
  PROVE  Progress
<1>. DEFINE o == NewSession(kind, hold, at)
<1>. USE DEF shutdown
<1>1. /\ o.kind = kind /\ o.start = at /\ o.monitor = "none" /\ o.handle = FALSE
      /\ o.playback = FALSE /\ o.pcm = "empty" /\ o.result = "generating" /\ o.ending = "none"
  BY DEF NewSession
<1>2. owned' = [Cleared(owned) EXCEPT ![s] = o] /\ Cleared(owned) \in [Sessions -> Owned]
  BY ClearedIsAlike DEF IInv
<1>. HIDE DEF o
<1>3. /\ owned'[s] = o /\ worker'[s] = NoWorker
      /\ \A t \in Sessions : t # s => worker'[t] = worker[t] /\ owned'[t] = Cleared(owned)[t]
  BY <1>2 DEF IInv, TypeOK
<1>4. \A t \in Sessions : t # s =>
        /\ Calm(owned[t], owned'[t]) /\ owned'[t].result = owned[t].result
        /\ audition = t => owned'[t].pcm = "empty"
  BY <1>3, ClearedIsCalm
<1>5. \A t \in Sessions : t # s => ~Admitting(t)' /\ ~Spawning(t)'
  BY <1>4, ConstantsOK DEF Calm, Alike, IInv, BusyIsCurrent, Admitting, Spawning
<1>6. UnclaimedIsUnmarked' /\ LibraryIsAlone'
  BY DEF UnclaimedIsUnmarked, LibraryIsAlone
<1>7. StartingIsBlank'
  BY <1>1, <1>3, <1>5 DEF StartingIsBlank, Admitting
<1>8. CurrentIsAudition' /\ ReadyIsHeld'
  BY <1>1, <1>3, ConstantsOK DEF CurrentIsAudition, ReadyIsHeld
<1>9. AudioIsKept'
  BY <1>1, <1>3, <1>4 DEF SInv, AudioIsKept, Calm
<1>10. HandleIsMonitored'
  BY <1>1, <1>3, <1>4 DEF SInv, HandleIsMonitored, Calm, Alike
<1>11. MonitoredIsCurrent'
  BY <1>1, <1>3, <1>4, ConstantsOK DEF SInv, MonitoredIsCurrent, Calm, Alike
<1>12. UncertainIsLast'
  BY <1>3, <1>4, EmptyPipe DEF SInv, UncertainIsLast, Calm, Alike, Spent
<1>13. BlockedIsSpent'
  BY DEF BlockedIsSpent
<1>14. KeepsResults
  BY <1>1, <1>3, <1>4 DEF KeepsResults
<1>15. Unblocks
  BY UnmarkedUnblocks
<1>16. QED
  BY <1>6, <1>7, <1>8, <1>9, <1>10, <1>11, <1>12, <1>13, <1>14, <1>15 DEF Progress, SInv

LEMMA RequestProgress ==
  ASSUME IInv, SInv, IInv', NEW s \in Sessions, RequestStep(s)
  PROVE  Progress
<1>1. CASE RequestRoom(s)
  <2>1. /\ up /\ current = NoSession /\ Fresh(s) /\ ~marker
        /\ \A t \in Sessions : ~Admitting(t)
    BY <1>1 DEF RequestRoom, RequireIdle, IInv, IdleIsOpen, AdmittingIsAlone
  <2>2. /\ owned' = [Cleared(owned) EXCEPT ![s] = NewSession("room", FALSE, "checks")]
        /\ worker' = [worker EXCEPT ![s] = NoWorker]
        /\ phase' = "starting" /\ lock' = "free" /\ audition' = NoSession /\ current' = NoSession
        /\ UNCHANGED <<shutdown, marker>>
    BY <1>1, <2>1 DEF RequestRoom
  <2>3. QED
    BY <2>1, <2>2, AdmittedProgress
<1>2. ASSUME NEW hold \in BOOLEAN, PreflightPasses(s, hold)
      PROVE  Progress
  <2>1. /\ up /\ current = NoSession /\ Fresh(s) /\ ~marker
        /\ \A t \in Sessions : ~Admitting(t)
    BY <1>2 DEF PreflightPasses, IInv, PreflightIsAlone, AdmittingIsAlone
  <2>2. /\ owned' = [Cleared(owned) EXCEPT ![s] = NewSession("audition", hold, "mark")]
        /\ worker' = [worker EXCEPT ![s] = NoWorker]
        /\ phase' = "starting" /\ lock' = "free" /\ audition' = s /\ current' = s
        /\ UNCHANGED <<shutdown, marker>>
    BY <1>2 DEF PreflightPasses
  <2>3. QED
    BY <2>1, <2>2, AdmittedProgress
<1>3. CASE \/ EndRequest(s) \/ EndAuditionRequest(s) \/ TakeAudio(s)
           \/ WatchdogExpires(s) \/ CloseEndsSession(s)
  BY <1>3, RequestsProgress
<1>4. QED
  BY <1>1, <1>2, <1>3 DEF RequestStep

-----------------------------------------------------------------------------
(* The life of the broker, and the theorems.                               *)

\* No session is known after the step.
LEMMA BareProgress ==
  ASSUME \A s \in Sessions : owned'[s] = NoOne, current' = NoSession, lock' = "free",
         up' => ~marker', ~up \/ ~up'
  PROVE  Progress
<1>1. \A s \in Sessions :
        /\ ~Admitting(s)' /\ ~Spawning(s)' /\ owned'[s].kind = "room" /\ owned'[s].pcm = "empty"
        /\ owned'[s].monitor = "none" /\ owned'[s].handle = FALSE /\ owned'[s].ending = "none"
        /\ owned'[s].playback = FALSE /\ owned'[s].result = "generating"
  BY DEF NoOne, NewSession, Admitting, Spawning
<1>2. UnclaimedIsUnmarked' /\ LibraryIsAlone' /\ StartingIsBlank'
  BY <1>1 DEF UnclaimedIsUnmarked, LibraryIsAlone, StartingIsBlank
<1>3. CurrentIsAudition' /\ ReadyIsHeld' /\ AudioIsKept'
  BY <1>1, ConstantsOK DEF CurrentIsAudition, ReadyIsHeld, AudioIsKept
<1>4. HandleIsMonitored' /\ MonitoredIsCurrent' /\ UncertainIsLast' /\ BlockedIsSpent'
  BY <1>1, ConstantsOK
  DEF HandleIsMonitored, MonitoredIsCurrent, UncertainIsLast, BlockedIsSpent
<1>5. KeepsResults /\ Unblocks
  BY <1>1 DEF KeepsResults, Unblocks
<1>6. QED
  BY <1>2, <1>3, <1>4, <1>5 DEF Progress, SInv

LEMMA LifeProgress ==
  ASSUME IInv, SInv, IInv', LifeStep
  PROVE  Progress
<1>1. ASSUME ~up
      PROVE  /\ current = NoSession /\ lock = "free" /\ \A s \in Sessions : owned[s] = NoOne
  BY <1>1 DEF IInv, DownHoldsNothing
<1>2. CASE (\E confirmed \in BOOLEAN : Serve(confirmed)) \/ OperatorRestartsBackend
  BY <1>1, <1>2, BareProgress DEF Serve, OperatorRestartsBackend
<1>3. CASE BrokerGone
  BY <1>3, BareProgress DEF BrokerGone
<1>4. QED
  BY <1>2, <1>3 DEF LifeStep, BrokerCrashes, LeaseReleased

LEMMA NextProgress ==
  ASSUME IInv, SInv, [Next]_vars
  PROVE  Progress
<1>0. IInv'
  BY NextKeepsIInv
<1>1. CASE LifeStep
  BY <1>0, <1>1, LifeProgress
<1>2. CASE LibraryStep \/ CloseStep
  BY <1>0, <1>2, LibraryProgress
<1>3. ASSUME NEW s \in Sessions,
             StartStep(s) \/ WorkerStep(s) \/ MonitorStep(s) \/ EndStep(s) \/ RequestStep(s)
      PROVE  Progress
  BY <1>0, <1>3, StartProgress, WorkerProgress, MonitorProgress, EndTaskProgress, RequestProgress
<1>4. CASE UNCHANGED vars
  <2>. USE <1>4 DEF vars
  <2>1. UnclaimedIsUnmarked' /\ LibraryIsAlone' /\ StartingIsBlank'
    BY DEF SInv, UnclaimedIsUnmarked, LibraryIsAlone, StartingIsBlank, Admitting, Spawning
  <2>2. CurrentIsAudition' /\ ReadyIsHeld' /\ AudioIsKept'
    BY DEF SInv, CurrentIsAudition, ReadyIsHeld, AudioIsKept
  <2>3. HandleIsMonitored' /\ MonitoredIsCurrent'
    BY DEF SInv, HandleIsMonitored, MonitoredIsCurrent
  <2>4. UncertainIsLast' /\ BlockedIsSpent'
    BY DEF SInv, UncertainIsLast, BlockedIsSpent, Spent, AcceptsAudio
  <2>5. KeepsResults /\ Unblocks
    BY DEF KeepsResults, Unblocks
  <2>6. QED
    BY <2>1, <2>2, <2>3, <2>4, <2>5 DEF Progress, SInv
<1>5. QED
  BY <1>1, <1>2, <1>3, <1>4 DEF Next

LEMMA InitImpliesSInv ==
  ASSUME Init
  PROVE  SInv
<1>. USE DEF Init
<1>1. \A s \in Sessions :
        /\ owned[s] = NoOne /\ ~Admitting(s) /\ ~Spawning(s)
        /\ NoOne.kind = "room" /\ NoOne.pcm = "empty" /\ NoOne.monitor = "none"
        /\ NoOne.handle = FALSE /\ NoOne.ending = "none" /\ NoOne.playback = FALSE
  BY DEF NoOne, NewSession, Admitting, Spawning
<1>2. UnclaimedIsUnmarked /\ LibraryIsAlone /\ StartingIsBlank
  BY <1>1 DEF UnclaimedIsUnmarked, LibraryIsAlone, StartingIsBlank
<1>3. CurrentIsAudition /\ ReadyIsHeld /\ AudioIsKept
  BY <1>1, ConstantsOK DEF CurrentIsAudition, ReadyIsHeld, AudioIsKept
<1>4. HandleIsMonitored /\ MonitoredIsCurrent /\ UncertainIsLast /\ BlockedIsSpent
  BY <1>1, ConstantsOK
  DEF HandleIsMonitored, MonitoredIsCurrent, UncertainIsLast, BlockedIsSpent
<1>5. QED
  BY <1>2, <1>3, <1>4 DEF SInv

\* SInv is an invariant of the broker.
THEOREM SampleInvariant == Spec => [](IInv /\ SInv)
<1>1. Init => IInv /\ SInv
  BY InitImpliesIInv, InitImpliesSInv
<1>2. IInv /\ SInv /\ [Next]_vars => IInv' /\ SInv'
  BY NextKeepsIInv, NextProgress DEF Progress
<1>3. QED
  BY <1>1, <1>2, PTL DEF Spec

\* A sample that can be fetched is one of an inference that is over, and the
\* audio of a sample that failed or was cancelled is gone.
THEOREM SampleSafety == Spec => []SampleIsSettled
<1>1. ASSUME IInv, SInv
      PROVE  SampleIsSettled
  <2>1. ASSUME NEW s \in Sessions, up, audition = s, owned[s].result = "ready"
        PROVE  Quiet /\ ~marker
    <3>1. ~marker
      <4>1. CASE current = NoSession
        BY <1>1, <2>1, <4>1 DEF SInv, UnclaimedIsUnmarked
      <4>2. CASE current \in Sessions
        <5>1. current = s
          BY <1>1, <2>1, <4>2, ConstantsOK DEF SInv, CurrentIsAudition
        <5>2. QED
          BY <1>1, <2>1, <5>1 DEF SInv, ReadyIsHeld, IInv, HeldIsUnmarked
      <4>3. QED
        BY <1>1, <4>1, <4>2 DEF IInv, TypeOK
    <3>2. QED
      BY <1>1, <3>1 DEF IInv, MarkedBeforeSpawn, Quiet
  <2>2. ASSUME NEW s \in Sessions, closing = "open", owned[s].result \in {"failed", "cancelled"}
        PROVE  owned[s].pcm = "empty"
    BY <1>1, <2>2 DEF SInv, AudioIsKept
  <2>3. QED
    BY <2>1, <2>2 DEF SampleIsSettled
<1>2. QED
  BY <1>1, SampleInvariant, PTL

\* The watchdog never asks end_audition for a session that is not the audition,
\* which would raise and end the watchdog.
THEOREM WatchdogSafety == Spec => []WatchdogFindsAudition
<1>1. IInv /\ SInv => WatchdogFindsAudition
  BY DEF IInv, TypeOK, SInv, CurrentIsAudition, WatchdogFindsAudition
<1>2. QED
  BY <1>1, SampleInvariant, PTL

\* The phase "blocked" is left, short of a restart, only with nothing running and
\* the marker removed.
THEOREM BlockedSafety == Spec => UnblockedOnlyWhenResolved
<1>1. IInv /\ SInv /\ [Next]_vars =>
        [up /\ up' /\ phase = "blocked" /\ phase' # "blocked" => Quiet' /\ ~marker']_vars
  BY NextProgress DEF Progress, Unblocks
<1>2. QED
  BY <1>1, SampleInvariant, PTL DEF Spec, UnblockedOnlyWhenResolved

\* A sample that failed or was cancelled never becomes available.
THEOREM ResultSafety == Spec => ResultIsFinal
<1>1. IInv /\ SInv /\ [Next]_vars =>
        [\A s \in Sessions :
           owned'[s].result = "ready" /\ owned[s].result # "ready" =>
             owned[s].result = "generating"]_vars
  BY NextProgress DEF Progress, KeepsResults
<1>2. QED
  BY <1>1, SampleInvariant, PTL DEF Spec, ResultIsFinal

-----------------------------------------------------------------------------
(***************************************************************************)
(* A broker whose workers are healthy (Healthy), for every number of       *)
(* sessions and every pipe capacity: however auditions are started, ended  *)
(* and replaced, the phase is never "blocked", and an orderly shutdown     *)
(* releases the lease with nothing running.  HInv is inductive relative to *)
(* IInv and SInv.                                                          *)
(*                                                                         *)
(* Most steps leave the worker alone and only move a task on: TameFrame    *)
(* covers them.  The ones that would block the broker, or kill a worker,   *)
(* are shown to be impossible where they come up.                          *)
(***************************************************************************)


-----------------------------------------------------------------------------
(* Records and lines.                                                      *)

\* p is o, further on: its worker, its monitor and what it was told are the same,
\* the start task may have ended after the spawn, and the end task only goes on
\* with a process, and returns only after the monitor.
Tame(o, p) ==
  /\ p \in Owned /\ p.kind = o.kind /\ p.monitor = o.monitor /\ p.handle = o.handle
  /\ p.finished = o.finished /\ p.safe = o.safe /\ p.stopReady = o.stopReady
  /\ p.start = o.start \/ (p.start = "none" /\ o.start \in {"stdin", "cleanup"})
  /\ p.ending # "none" => (o.ending # "none" \/ o.handle) /\ (p.ending = "room" => o.ending = "room")
  /\ p.ending = "done" => o.ending = "done" \/ o.monitor = "done"

LEMMA TameFields ==
  ASSUME NEW o \in Owned
  PROVE  /\ Tame(o, o) /\ Tame(o, [o EXCEPT !.pcm = "empty"])
         /\ o.start \in {"stdin", "cleanup"} => Tame(o, [o EXCEPT !.start = "none"])
         /\ \A v \in {"generating", "ready", "failed", "cancelled"} : Tame(o, [o EXCEPT !.result = v])
         /\ \A v \in {"new", "ack", "drain", "resume", "done"} :
              (o.ending # "none" \/ o.handle) /\ (v = "done" => o.monitor = "done")
              => Tame(o, [o EXCEPT !.ending = v])
<1>. USE DEF Tame, Owned
<1>1. Tame(o, o)
  OBVIOUS
<1>2. Tame(o, [o EXCEPT !.pcm = "empty"])
  OBVIOUS
<1>3. o.start \in {"stdin", "cleanup"} => Tame(o, [o EXCEPT !.start = "none"])
  OBVIOUS
<1>4. \A v \in {"generating", "ready", "failed", "cancelled"} : Tame(o, [o EXCEPT !.result = v])
  OBVIOUS
<1>5. \A v \in {"new", "ack", "drain", "resume", "done"} :
        (o.ending # "none" \/ o.handle) /\ (v = "done" => o.monitor = "done")
        => Tame(o, [o EXCEPT !.ending = v])
  OBVIOUS
<1>6. QED
  BY <1>1, <1>2, <1>3, <1>4, <1>5

LEMMA TameTransitive ==
  ASSUME NEW o, NEW p, NEW q, Tame(o, p), Tame(p, q)
  PROVE  Tame(o, q)
  BY DEF Tame

LEMMA FitJoined ==
  ASSUME NEW p \in Seq(Event), NEW q \in Seq(Event)
  PROVE  /\ Clean(p) /\ Clean(q) => Clean(p \o q)
         /\ Begun(p \o q) => Begun(p) \/ Begun(q)
         /\ Said(p) \/ Said(q) => Said(p \o q)
<1>. DEFINE r == p \o q
<1>1. /\ Len(p) \in Nat /\ Len(q) \in Nat /\ Len(r) = Len(p) + Len(q)
      /\ \A i \in 1..Len(p) : r[i] = p[i] /\ i \in 1..Len(r)
      /\ \A i \in 1..Len(r) : i \in 1..Len(p) \/ (i - Len(p) \in 1..Len(q) /\ r[i] = q[i - Len(p)])
      /\ \A i \in 1..Len(q) : r[i + Len(p)] = q[i] /\ i + Len(p) \in 1..Len(r)
  OBVIOUS
<1>. HIDE DEF r
<1>2. Clean(p) /\ Clean(q) => Clean(r)
  BY <1>1 DEF Clean
<1>3. Begun(r) => Begun(p) \/ Begun(q)
  BY <1>1 DEF Begun
<1>4. Said(p) \/ Said(q) => Said(r)
  BY <1>1 DEF Said
<1>5. QED
  BY <1>2, <1>3, <1>4 DEF r

LEMMA FitTaken ==
  ASSUME NEW p \in Seq(Event), p # <<>>
  PROVE  /\ Clean(p) => Clean(Tail(p)) /\ Head(p) \notin {"uncertain", "unsafe"}
         /\ Begun(Tail(p)) \/ Head(p) = "started" => Begun(p)
         /\ Said(p) => Said(Tail(p)) \/ Head(p) = "safe"
<1>. DEFINE t == Tail(p)
<1>1. /\ Len(p) \in Nat /\ Len(t) \in Nat /\ Len(p) = Len(t) + 1 /\ Head(p) = p[1]
      /\ \A i \in 1..Len(t) : t[i] = p[i + 1] /\ i + 1 \in 1..Len(p)
      /\ \A i \in 1..Len(p) : i = 1 \/ (i - 1 \in 1..Len(t) /\ p[i] = t[i - 1])
  OBVIOUS
<1>. HIDE DEF t
<1>2. Clean(p) => Clean(t) /\ Head(p) \notin {"uncertain", "unsafe"}
  BY <1>1 DEF Clean
<1>3. Begun(t) \/ Head(p) = "started" => Begun(p)
  BY <1>1 DEF Begun
<1>4. Said(p) => Said(t) \/ Head(p) = "safe"
  BY <1>1 DEF Said
<1>5. QED
  BY <1>2, <1>3, <1>4 DEF t

LEMMA FitReports ==
  \A a, b \in Event :
    /\ <<a>> \in Seq(Event) /\ <<a, b>> \in Seq(Event)
    /\ a \notin {"uncertain", "unsafe"} => Clean(<<a>>)
    /\ {a, b} \cap {"uncertain", "unsafe"} = {} => Clean(<<a, b>>)
    /\ Begun(<<a>>) => a = "started"
    /\ Begun(<<a, b>>) => "started" \in {a, b}
<1>1. ASSUME NEW a \in Event, NEW b \in Event
      PROVE  /\ <<a>> \in Seq(Event) /\ <<a, b>> \in Seq(Event)
             /\ a \notin {"uncertain", "unsafe"} => Clean(<<a>>)
             /\ {a, b} \cap {"uncertain", "unsafe"} = {} => Clean(<<a, b>>)
             /\ Begun(<<a>>) => a = "started"
             /\ Begun(<<a, b>>) => "started" \in {a, b}
  <2>1. <<a>> \in Seq(Event) /\ Len(<<a>>) = 1 /\ <<a>>[1] = a
    OBVIOUS
  <2>2. <<a, b>> \in Seq(Event) /\ Len(<<a, b>>) = 2 /\ <<a, b>>[1] = a /\ <<a, b>>[2] = b
    OBVIOUS
  <2>3. \A i \in 1..2 : i = 1 \/ i = 2
    OBVIOUS
  <2>4. \A i \in 1..1 : i = 1
    OBVIOUS
  <2>5. a \notin {"uncertain", "unsafe"} => Clean(<<a>>)
    BY <2>1, <2>4 DEF Clean
  <2>6. ASSUME {a, b} \cap {"uncertain", "unsafe"} = {}
        PROVE  Clean(<<a, b>>)
    <3>1. a \notin {"uncertain", "unsafe"} /\ b \notin {"uncertain", "unsafe"}
      BY <2>6
    <3>2. QED
      BY <3>1, <2>2, <2>3 DEF Clean
  <2>7. Begun(<<a>>) => a = "started"
    BY <2>1, <2>4 DEF Begun
  <2>8. Begun(<<a, b>>) => "started" \in {a, b}
    BY <2>2, <2>3 DEF Begun
  <2>9. QED
    BY <2>1, <2>2, <2>5, <2>6, <2>7, <2>8
<1>2. QED
  BY <1>1

-----------------------------------------------------------------------------
(* A step that leaves the worker alone and only moves tasks on.            *)

LEMMA TameFrame ==
  ASSUME IInv, SInv, HInv, IInv', UNCHANGED <<up, starter, worker>>,
         current' \in {current, NoSession}, phase' # "blocked",
         UNCHANGED <<closing, awaited>> \/ ClosingIsOrderly',
         \A t \in Sessions : Tame(owned[t], owned'[t])
  PROVE  HInv'
<1>. USE DEF HInv, Tame
<1>0. NoSession \notin Sessions
  BY ConstantsOK
<1>1. NeverBlocked' /\ WorkSettles'
  BY DEF NeverBlocked, WorkSettles
<1>2. \A t \in Sessions : Spawning(t)' <=> Spawning(t)
  BY DEF Spawning
<1>3. AuditionIsStarted'
  BY <1>0, <1>2 DEF AuditionIsStarted
<1>4. WorkerIsFit'
  BY <1>0 DEF WorkerIsFit, Fit
<1>5. DrainIsClean'
  BY DEF DrainIsClean
<1>6. StarterSpawns'
  BY <1>2 DEF StarterSpawns
<1>7. ClosingIsOrderly'
  BY <1>2 DEF ClosingIsOrderly, Quiet, Busy, Alive
<1>8. QED
  BY <1>1, <1>3, <1>4, <1>5, <1>6, <1>7

LEMMA TameStep ==
  ASSUME IInv, SInv, HInv, IInv', NEW s \in Sessions, NEW o, Tame(owned[s], o),
         owned' = [owned EXCEPT ![s] = o], UNCHANGED <<up, starter, worker>>,
         current' \in {current, NoSession}, phase' # "blocked",
         UNCHANGED <<closing, awaited>> \/ ClosingIsOrderly'
  PROVE  HInv'
<1>1. \A t \in Sessions : Tame(owned[t], owned'[t])
  BY TameFields DEF IInv, TypeOK
<1>2. QED
  BY <1>1, TameFrame

\* The session s goes on as p, and has an end task or leaves the phase "idle".
Ends(s, p) == Tame(owned[s], p) /\ owned' = [owned EXCEPT ![s] = p]
              /\ (p.ending = "none" => phase' = "idle")

\* end() for a session that has a process: it gets an end task unless it was
\* held for playback, and then the phase is "idle".
LEMMA EndEffect ==
  ASSUME IInv, HInv, NEW s \in Sessions, NEW o, Tame(owned[s], o), owned[s].handle, End(s, o)
  PROVE  /\ current' \in {current, NoSession} /\ phase' # "blocked"
         /\ \E p \in Owned : Ends(s, p)
<1>. DEFINE r == IF o.result = "generating" THEN "cancelled" ELSE o.result
            p == [o EXCEPT !.pcm = "empty"]
            q == [p EXCEPT !.result = r]
            stopped == IF o.kind = "audition"
                       THEN [o EXCEPT !.pcm = "empty",
                                      !.result = IF @ = "generating" THEN "cancelled" ELSE @]
                       ELSE o
            n == [stopped EXCEPT !.ending = "new"]
            held == o.kind = "audition" /\ o.playback /\ o.handle /\ Confirmed(o, worker[s])
<1>1. o \in Owned
  BY DEF Tame
<1>2. stopped = q \/ stopped = o
  OBVIOUS
<1>3. r \in {"generating", "ready", "failed", "cancelled"}
  BY <1>1 DEF Owned
<1>4. Tame(o, p) /\ p.ending = o.ending
  BY <1>1, TameFields DEF Owned
<1>. HIDE DEF p, r
<1>5. p \in Owned
  BY <1>4 DEF Tame
<1>6. Tame(p, q) /\ q.ending = p.ending
  BY <1>3, <1>5, TameFields DEF Owned
<1>7. /\ phase # "blocked" /\ current' \in {current, NoSession} /\ phase' # "blocked"
      /\ \/ owned' = [owned EXCEPT ![s] = stopped] /\ (o.ending = "none" => phase' = "idle")
         \/ owned' = [owned EXCEPT ![s] = n]
  BY DEF End, HInv, NeverBlocked
<1>. HIDE DEF q, stopped
<1>8. Tame(owned[s], stopped) /\ stopped.ending = o.ending
  BY <1>2, <1>4, <1>6, TameTransitive
<1>9. stopped \in Owned /\ stopped.handle
  BY <1>8 DEF Tame
<1>10. Tame(stopped, n) /\ n.ending # "none"
  BY <1>9, TameFields DEF Owned
<1>. HIDE DEF n
<1>11. Tame(owned[s], n)
  BY <1>8, <1>10, TameTransitive
<1>12. QED
  BY <1>7, <1>8, <1>9, <1>10, <1>11 DEF Ends, Tame

LEMMA EndIsTame ==
  ASSUME IInv, SInv, HInv, IInv', NEW s \in Sessions, NEW o, Tame(owned[s], o), owned[s].handle,
         End(s, o), UNCHANGED <<up, starter, worker, closing, awaited>>
  PROVE  HInv'
<1>1. /\ current' \in {current, NoSession} /\ phase' # "blocked"
      /\ \E p \in Owned : Ends(s, p)
  BY EndEffect
<1>2. PICK p \in Owned : Ends(s, p)
  BY <1>1
<1>3. QED
  BY <1>1, <1>2, TameStep DEF Ends

LEMMA EndAuditionIsTame ==
  ASSUME IInv, SInv, HInv, IInv', NEW s \in Sessions, NEW o, Tame(owned[s], o), owned[s].handle,
         EndAudition(s, o), UNCHANGED <<up, starter, worker, closing, awaited>>
  PROVE  HInv'
<1>. DEFINE r == IF o.result = "failed" THEN o.result ELSE "cancelled"
            p == [o EXCEPT !.pcm = "empty"]
            q == [p EXCEPT !.result = r]
            stopped == [o EXCEPT !.pcm = "empty",
                                 !.result = IF @ = "failed" THEN @ ELSE "cancelled"]
<1>1. o \in Owned
  BY DEF Tame
<1>2. r \in {"failed", "cancelled"}
  OBVIOUS
<1>3. Tame(o, p)
  BY <1>1, TameFields
<1>4. stopped = q
  BY <1>1 DEF Owned
<1>. HIDE DEF p, r, stopped
<1>5. p \in Owned
  BY <1>3 DEF Tame
<1>6. Tame(p, q)
  BY <1>2, <1>5, TameFields
<1>. HIDE DEF q
<1>7. Tame(owned[s], stopped)
  BY <1>3, <1>4, <1>6, TameTransitive
<1>8. \/ owned' = [owned EXCEPT ![s] = o] /\ UNCHANGED <<current, phase>>
      \/ owned' = [owned EXCEPT ![s] = stopped] /\ UNCHANGED <<current, phase>>
      \/ End(s, stopped)
  BY DEF EndAudition, stopped
<1>9. phase # "blocked"
  BY DEF HInv, NeverBlocked
<1>10. QED
  BY <1>7, <1>8, <1>9, TameStep, EndIsTame

-----------------------------------------------------------------------------
(* Requests, the watchdog, and the end of the current session at shutdown. *)

\* close() ends the current session only once its start task is done.
LEMMA CloseEndsTame ==
  ASSUME IInv, SInv, HInv, IInv', NEW s \in Sessions, CloseEndsSession(s)
  PROVE  HInv'
<1>. USE DEF CloseEndsSession
<1>1. owned[s] \in Owned /\ Tame(owned[s], owned[s])
  BY TameFields DEF IInv, TypeOK
<1>2. \A t \in Sessions : ~Spawning(t)
  BY ConstantsOK DEF StartDone, Spawning, HInv, StarterSpawns
<1>3. owned[s].handle
  BY <1>2 DEF HInv, AuditionIsStarted
<1>4. End(s, owned[s])
  OBVIOUS
<1>5. /\ current' \in {current, NoSession} /\ phase' # "blocked"
      /\ \E p \in Owned : Ends(s, p)
  BY <1>1, <1>3, <1>4, EndEffect
<1>6. PICK p \in Owned : Ends(s, p)
  BY <1>5
<1>7. owned'[s] = p
  BY <1>6 DEF IInv, TypeOK, Ends
<1>8. \A t \in Sessions : ~Spawning(t)'
  BY <1>2, <1>6 DEF IInv, TypeOK, Tame, Ends, Spawning
<1>9. phase' = "idle" => Quiet'
  BY DEF IInv, IdleIsOpen, MarkedBeforeSpawn, Quiet
<1>10. ClosingIsOrderly'
  BY <1>5, <1>6, <1>7, <1>8, <1>9 DEF ClosingIsOrderly, CloseAwaits, Ends
<1>11. UNCHANGED <<up, starter, worker>>
  OBVIOUS
<1>12. QED
  BY <1>5, <1>6, <1>10, <1>11, TameStep DEF Ends

LEMMA RequestsTame ==
  ASSUME Healthy, IInv, SInv, HInv, IInv', NEW s \in Sessions,
         \/ EndRequest(s) \/ EndAuditionRequest(s) \/ WatchdogExpires(s) \/ TakeAudio(s)
         \/ FeedAudition(s) \/ CleanUpRoom(s)
  PROVE  HInv'
<1>. USE DEF admission
<1>0. owned[s] \in Owned /\ Tame(owned[s], owned[s])
  BY TameFields DEF IInv, TypeOK
<1>1. CASE EndRequest(s)
  BY <1>0, <1>1, EndIsTame DEF EndRequest, Known
<1>2. CASE EndAuditionRequest(s)
  BY <1>0, <1>2, EndAuditionIsTame DEF EndAuditionRequest, Known
<1>3. CASE WatchdogExpires(s)
  <2>. DEFINE o == [owned[s] EXCEPT !.result = "failed"]
  <2>1. Tame(owned[s], o)
    BY <1>0, TameFields
  <2>2. owned[s].handle
    BY <1>3 DEF WatchdogExpires, Healthy
  <2>3. owned[s].kind = "audition"
    BY <1>3 DEF WatchdogExpires, HInv, AuditionIsStarted
  <2>4. EndAudition(s, o) /\ UNCHANGED <<up, starter, worker, closing, awaited>>
    BY <1>3, <2>3 DEF WatchdogExpires
  <2>. HIDE DEF o
  <2>5. QED
    BY <2>1, <2>2, <2>4, EndAuditionIsTame
<1>4. CASE TakeAudio(s)
  <2>. DEFINE o == [owned[s] EXCEPT !.pcm = "empty"]
  <2>1. Tame(owned[s], o)
    BY <1>0, TameFields
  <2>2. owned' = [owned EXCEPT ![s] = o] /\ UNCHANGED <<admission, phase, current, worker>>
    BY <1>4 DEF TakeAudio, IInv, TypeOK
  <2>. HIDE DEF o
  <2>3. phase' # "blocked"
    BY <2>2 DEF HInv, NeverBlocked
  <2>4. QED
    BY <2>1, <2>2, <2>3, TameStep
<1>5. CASE FeedAudition(s)
  <2>. DEFINE o == [owned[s] EXCEPT !.start = "none"]
              p == [o EXCEPT !.result = "failed"]
              e == [owned[s] EXCEPT !.start = "none", !.result = "failed"]
  <2>1. owned[s].start = "stdin" /\ owned[s].handle
    BY <1>5 DEF FeedAudition, HInv, AuditionIsStarted
  <2>2. Tame(owned[s], o)
    BY <1>0, <2>1, TameFields
  <2>3. e = p
    BY <1>0 DEF Owned
  <2>4. \/ owned' = [owned EXCEPT ![s] = o] /\ UNCHANGED <<admission, phase, current, worker>>
        \/ EndAudition(s, e) /\ UNCHANGED <<admission, worker>>
    BY <1>5 DEF FeedAudition, IInv, TypeOK
  <2>. HIDE DEF o, e
  <2>5. o \in Owned
    BY <2>2 DEF Tame
  <2>6. Tame(o, p)
    BY <2>5, TameFields
  <2>. HIDE DEF p
  <2>7. Tame(owned[s], e)
    BY <2>2, <2>3, <2>6, TameTransitive
  <2>8. phase # "blocked"
    BY DEF HInv, NeverBlocked
  <2>9. CASE owned' = [owned EXCEPT ![s] = o] /\ UNCHANGED <<admission, phase, current, worker>>
    BY <2>2, <2>8, <2>9, TameStep
  <2>10. CASE EndAudition(s, e) /\ UNCHANGED <<admission, worker>>
    BY <2>1, <2>7, <2>10, EndAuditionIsTame
  <2>11. QED
    BY <2>4, <2>9, <2>10
<1>6. CASE CleanUpRoom(s)
  BY <1>6 DEF CleanUpRoom, HInv, AuditionIsStarted
<1>7. QED
  BY <1>1, <1>2, <1>3, <1>4, <1>5, <1>6

-----------------------------------------------------------------------------
(* The end task, the library and the shutdown sequence.                    *)

\* The end task signals a worker that handles signals, and does nothing to one
\* that is gone.
LEMMA SignalIsHarmless ==
  ASSUME IInv, HInv, up, NEW s \in Sessions, owned[s].stopReady \/ ~Alive(s)
  PROVE  [worker EXCEPT ![s] = Signalled(@)] = worker
<1>1. worker \in [Sessions -> Worker]
  BY DEF IInv, TypeOK
<1>2. worker[s].stage # "booting"
  BY DEF IInv, BusyIsCurrent, Busy, Alive, AliveStages, HInv, WorkerIsFit, Fit
<1>3. Signalled(worker[s]) = worker[s]
  BY <1>2 DEF Signalled
<1>4. QED
  BY <1>1, <1>3

LEMMA EndTaskTame ==
  ASSUME Healthy, IInv, SInv, HInv, IInv', NEW s \in Sessions, EndStep(s)
  PROVE  HInv'
<1>0. /\ up /\ owned \in [Sessions -> Owned] /\ owned[s] \in Owned /\ phase # "blocked"
      /\ owned[s].ending \notin {"none", "room"} /\ owned[s].handle
      /\ owned[s].kind = "audition" /\ owned[s].monitor # "failed"
      /\ Over(s) => owned[s].monitor = "done" /\ ~Alive(s)
  <2>1. up /\ owned[s].ending # "none"
    BY DEF EndStep, EndBegins, EndAcknowledged, EndUnacknowledged, EndDrained, EndTimesOut,
           EndSeesFailure, EndDeletesRoom
  <2>2. QED
    BY <2>1 DEF IInv, TypeOK, HInv, NeverBlocked, DrainIsClean, AuditionIsStarted, Over, Alive,
                AliveStages
<1>1. PICK v \in {"ack", "drain", "resume", "done"} :
        /\ v = "done" => owned[s].monitor = "done"
        /\ owned' = [owned EXCEPT ![s].ending = v] /\ worker' = worker
        /\ UNCHANGED <<admission, phase, current>>
  <2>. DEFINE GoesTo(v) ==
         /\ v = "done" => owned[s].monitor = "done"
         /\ owned' = [owned EXCEPT ![s].ending = v] /\ worker' = worker
         /\ UNCHANGED <<admission, phase, current>>
  <2>1. AwaitMonitor(s) \in {"drain", "resume"} /\ AfterDrain(s) = "done"
    BY <1>0 DEF AwaitMonitor, AfterDrain
  <2>2. CASE EndBegins(s)
    <3>1. ~AwaitsHandler(owned[s]) => owned[s].stopReady
      BY <1>0 DEF AwaitsHandler
    <3>2. \/ GoesTo("ack")
          \/ owned[s].stopReady /\ owned' = [owned EXCEPT ![s].ending = AwaitMonitor(s)]
             /\ worker' = [worker EXCEPT ![s] = Signalled(@)]
             /\ UNCHANGED <<admission, phase, current>>
      BY <1>0, <2>2, <3>1 DEF EndBegins
    <3>3. GoesTo("ack") \/ GoesTo(AwaitMonitor(s))
      BY <1>0, <2>1, <3>2, SignalIsHarmless
    <3>4. QED
      BY <2>1, <3>3
  <2>3. CASE EndAcknowledged(s)
    <3>1. GoesTo(AwaitMonitor(s))
      BY <1>0, <2>1, <2>3, SignalIsHarmless DEF EndAcknowledged
    <3>2. QED
      BY <2>1, <3>1
  <2>4. CASE EndDrained(s)
    BY <2>1, <2>4 DEF EndDrained
  <2>5. ~EndUnacknowledged(s) /\ ~EndTimesOut(s)
    BY <1>0 DEF EndUnacknowledged, EndTimesOut, DeadlinePasses, Healthy
  <2>6. ~EndSeesFailure(s) /\ ~EndDeletesRoom(s)
    BY <1>0 DEF EndSeesFailure, EndDeletesRoom
  <2>7. QED
    BY <2>2, <2>3, <2>4, <2>5, <2>6 DEF EndStep
<1>. DEFINE o == [owned[s] EXCEPT !.ending = v]
<1>2. Tame(owned[s], o)
  BY <1>0, <1>1, TameFields
<1>3. owned' = [owned EXCEPT ![s] = o]
  BY <1>0, <1>1
<1>. HIDE DEF o
<1>4. QED
  BY <1>0, <1>1, <1>2, <1>3, TameStep DEF admission

LEMMA ClearedIsTame ==
  ASSUME IInv, NEW t \in Sessions
  PROVE  Tame(owned[t], Cleared(owned)[t])
<1>1. owned \in [Sessions -> Owned] /\ audition \in Sessions \cup {NoSession}
  BY DEF IInv, TypeOK
<1>2. Tame(owned[t], owned[t]) /\ Tame(owned[t], [owned[t] EXCEPT !.pcm = "empty"])
  BY <1>1, TameFields
<1>3. Cleared(owned)[t] \in {owned[t], [owned[t] EXCEPT !.pcm = "empty"]}
  BY <1>1 DEF Cleared
<1>4. QED
  BY <1>2, <1>3

LEMMA LibraryTame ==
  ASSUME IInv, SInv, HInv, IInv', LibraryStep \/ CloseStep
  PROVE  HInv'
<1>. USE DEF admission, shutdown
<1>0. owned \in [Sessions -> Owned]
  BY DEF IInv, TypeOK
<1>1. UNCHANGED <<up, starter, worker, current, phase>> /\ owned' \in {owned, Cleared(owned)}
  BY DEF LibraryStep, CloseStep, RequestAudition, PreflightFails, LibraryRequest, LibraryDone,
         ResultExpires, CloseBegins, CloseFindsNoSession, CloseAwaited, CloseFinishes
<1>2. \A t \in Sessions : Tame(owned[t], owned'[t])
  BY <1>0, <1>1, ClearedIsTame, TameFields
<1>3. UNCHANGED <<closing, awaited>> \/ ClosingIsOrderly'
  <2>1. \A t \in Sessions : Spawning(t)' => Spawning(t)
    BY <1>2 DEF Spawning, Tame
  <2>2. Quiet' <=> Quiet
    BY <1>1 DEF Quiet, Busy, Alive
  <2>3. ClosingIsOrderly
    BY DEF HInv
  <2>4. ASSUME up, current = NoSession
        PROVE  Quiet /\ \A t \in Sessions : ~Spawning(t)
    BY <2>4, ConstantsOK DEF IInv, BusyIsCurrent, Quiet
  <2>5. CASE CloseBegins
    BY <2>5 DEF CloseBegins, ClosingIsOrderly
  <2>6. CASE CloseFindsNoSession
    BY <2>1, <2>2, <2>4, <2>6 DEF CloseFindsNoSession, ClosingIsOrderly
  <2>7. CASE CloseAwaited
    <3>1. closing = "end" /\ owned[awaited].ending = "done" /\ closing' = "final" /\ up
      BY <2>7 DEF CloseAwaited
    <3>2. awaited \in Sessions /\ current \in {awaited, NoSession} /\ \A t \in Sessions : ~Spawning(t)
      BY <2>3, <3>1 DEF ClosingIsOrderly
    <3>3. ~Busy(awaited)
      BY <3>1, <3>2 DEF HInv, DrainIsClean, Busy, Alive, AliveStages
    <3>4. Quiet
      BY <3>1, <3>2, <3>3, <2>4 DEF IInv, BusyIsCurrent, Quiet
    <3>5. QED
      BY <2>1, <2>2, <3>1, <3>2, <3>4 DEF ClosingIsOrderly
  <2>8. CASE CloseFinishes
    BY <2>1, <2>2, <2>3, <2>8 DEF CloseFinishes, ClosingIsOrderly
  <2>9. CASE LibraryStep
    BY <2>9 DEF LibraryStep, RequestAudition, PreflightFails, LibraryRequest, LibraryDone,
                ResultExpires
  <2>10. QED
    BY <2>5, <2>6, <2>7, <2>8, <2>9 DEF CloseStep
<1>4. phase' # "blocked"
  BY <1>1 DEF HInv, NeverBlocked
<1>5. QED
  BY <1>1, <1>2, <1>3, <1>4, TameFrame

-----------------------------------------------------------------------------
(* The worker, and the call that spawns it.                                *)

\* Nothing but the worker of s changes, into w, which was not over.
LEMMA FitFrame ==
  ASSUME IInv, SInv, HInv, IInv', NEW s \in Sessions, NEW w, worker' = [worker EXCEPT ![s] = w],
         UNCHANGED <<admission, phase, current, owned>>, Busy(s) \/ Spawning(s),
         w.work # "uncertain", current = s => Fit(owned[s], w)
  PROVE  HInv'
<1>. USE DEF admission, HInv
<1>1. worker'[s] = w /\ \A t \in Sessions : t # s => worker'[t] = worker[t]
  BY DEF IInv, TypeOK
<1>2. NeverBlocked' /\ WorkSettles'
  BY <1>1 DEF NeverBlocked, WorkSettles
<1>3. AuditionIsStarted' /\ StarterSpawns'
  BY DEF AuditionIsStarted, StarterSpawns, Spawning
<1>4. WorkerIsFit'
  BY <1>1 DEF WorkerIsFit, Fit
<1>5. owned[s].monitor # "done"
  BY DEF DrainIsClean, Busy, Alive, AliveStages, IInv, StartingIsUnmonitored
<1>6. DrainIsClean'
  BY <1>1, <1>5 DEF DrainIsClean
<1>7. closing \notin {"final", "cleanup"}
  BY DEF ClosingIsOrderly, Quiet
<1>8. ClosingIsOrderly'
  BY <1>7 DEF ClosingIsOrderly, Spawning
<1>9. QED
  BY <1>2, <1>3, <1>4, <1>6, <1>8

LEMMA WorkerKeepsWork ==
  ASSUME NEW w \in Worker
  PROVE  \A q \in Seq(Event), v \in AliveStages :
           [w EXCEPT !.stage = v, !.pipe = @ \o q].work = w.work
<1>. TAKE q \in Seq(Event), v \in AliveStages
<1>. DEFINE a == [w EXCEPT !.stage = v]
            p == w.pipe \o q
            b == [a EXCEPT !.pipe = p]
<1>1. [w EXCEPT !.stage = v, !.pipe = @ \o q] = b /\ p \in Seq(Event)
  BY DEF Worker
<1>2. a \in Worker /\ a.work = w.work
  BY StageField
<1>. HIDE DEF a, p
<1>3. b.work = w.work
  BY <1>1, <1>2, PipeField
<1>4. QED
  BY <1>1, <1>3

\* A worker that is alive goes on to the stage given, and adds the clean report q.
LEMMA ReportTame ==
  ASSUME IInv, SInv, HInv, IInv', NEW s \in Sessions, Alive(s),
         NEW stage \in AliveStages \ {"booting"}, NEW q \in Seq(Event), Clean(q),
         stage = "exiting" => Said(q),
         Moves(s, [worker[s] EXCEPT !.stage = stage, !.pipe = @ \o q])
  PROVE  HInv'
<1>. DEFINE w == [worker[s] EXCEPT !.stage = stage, !.pipe = @ \o q]
<1>0. worker[s] \in Worker /\ worker[s].pipe \in Seq(Event)
  BY DEF IInv, TypeOK, Worker
<1>1. w.stage = stage /\ w.pipe = worker[s].pipe \o q /\ w.work = worker[s].work
  BY <1>0, WorkerFields, WorkerKeepsWork
<1>2. Moves(s, w)
  OBVIOUS
<1>. HIDE DEF w
<1>3. worker' = [worker EXCEPT ![s] = w] /\ UNCHANGED <<admission, phase, current, owned>>
  BY <1>2 DEF Moves
<1>4. w.work # "uncertain"
  BY <1>1 DEF HInv, WorkSettles
<1>5. ASSUME current = s
      PROVE  Fit(owned[s], w)
  <2>1. Fit(owned[s], worker[s])
    BY <1>5 DEF HInv, WorkerIsFit
  <2>2. Clean(w.pipe) /\ (Said(q) => Said(w.pipe))
    BY <1>0, <1>1, <2>1, FitJoined DEF Fit
  <2>3. QED
    BY <1>1, <2>1, <2>2 DEF Fit, AliveStages
<1>6. QED
  BY <1>3, <1>4, <1>5, FitFrame DEF Busy

LEMMA WorkerTame ==
  ASSUME Healthy, IInv, SInv, HInv, IInv', NEW s \in Sessions, WorkerStep(s) \/ Fork(s)
  PROVE  HInv'
<1>. DEFINE W(v, q) == [worker[s] EXCEPT !.stage = v, !.pipe = @ \o q]
<1>0. /\ worker[s] \in Worker /\ worker[s].pipe \in Seq(Event)
      /\ worker[s].work \in {"none", "running"}
      /\ \A e \in Event : Append(worker[s].pipe, e) = worker[s].pipe \o <<e>>
      /\ current = s => Fit(owned[s], worker[s])
  <2>1. worker[s] \in Worker
    BY DEF IInv, TypeOK
  <2>2. worker[s].pipe \in Seq(Event) /\ worker[s].work \in {"none", "running", "uncertain"}
    BY <2>1 DEF Worker
  <2>3. worker[s].work # "uncertain" /\ (current = s => Fit(owned[s], worker[s]))
    BY DEF HInv, WorkSettles, WorkerIsFit
  <2>4. \A e \in Event : Append(worker[s].pipe, e) = worker[s].pipe \o <<e>>
    BY <2>2
  <2>5. QED
    BY <2>1, <2>2, <2>3, <2>4
<1>1. ASSUME Alive(s), NEW v \in AliveStages \ {"booting"}, NEW q \in Seq(Event), Clean(q),
             v = "exiting" => Said(q), Moves(s, W(v, q))
      PROVE  HInv'
  BY <1>1, ReportTame
<1>2. CASE Fork(s)
  <2>. DEFINE w == [worker[s] EXCEPT !.stage = "booting"]
  <2>1. w.pipe = worker[s].pipe /\ w.stage = "booting" /\ w.work = worker[s].work
    BY <1>0 DEF Worker
  <2>2. /\ worker' = [worker EXCEPT ![s] = w] /\ worker[s].stage = "none" /\ Spawning(s)
        /\ UNCHANGED <<admission, phase, current, owned>>
    BY <1>2 DEF Fork, Spawning
  <2>. HIDE DEF w
  <2>3. current = s => Fit(owned[s], w)
    BY <1>0, <2>1, <2>2 DEF Fit
  <2>4. QED
    BY <1>0, <2>1, <2>2, <2>3, FitFrame
<1>3. CASE WorkerInfers(s) \/ BackendSettles(s)
  <2>1. PICK v \in {"none", "running"} : Moves(s, [worker[s] EXCEPT !.work = v])
    BY <1>3 DEF WorkerInfers, BackendSettles
  <2>. DEFINE w == [worker[s] EXCEPT !.work = v]
  <2>2. w.pipe = worker[s].pipe /\ w.stage = worker[s].stage /\ w.work = v
    BY <1>0 DEF Worker
  <2>3. Moves(s, w)
    BY <2>1
  <2>. HIDE DEF w
  <2>4. Busy(s)
    BY <1>3 DEF WorkerInfers, BackendSettles, Busy, Alive, AliveStages
  <2>5. current = s => Fit(owned[s], w)
    BY <1>0, <2>2 DEF Fit
  <2>6. QED
    BY <2>2, <2>3, <2>4, <2>5, FitFrame DEF Moves
<1>4. CASE WorkerExits(s) \/ WorkerCrashes(s)
  <2>1. PICK v \in {"clean", "failed"} : Moves(s, [worker[s] EXCEPT !.stage = v])
    BY <1>4 DEF WorkerExits, WorkerCrashes
  <2>. DEFINE w == [worker[s] EXCEPT !.stage = v]
  <2>2. w.pipe = worker[s].pipe /\ w.stage = v /\ w.work = worker[s].work
    BY <1>0 DEF Worker
  <2>3. Moves(s, w) /\ worker'[s].stage = w.stage
    BY <2>1 DEF Moves, IInv, TypeOK
  <2>. HIDE DEF w
  <2>4. Busy(s) /\ (up => worker[s].stage = "exiting" /\ worker'[s].stage = "clean")
    <3>1. Busy(s)
      BY <1>4 DEF WorkerExits, WorkerCrashes, Busy, Alive, AliveStages
    <3>2. up => ~WorkerCrashes(s)
      BY DEF WorkerCrashes, Healthy
    <3>3. WorkerExits(s) => worker[s].stage = "exiting"
                            /\ Moves(s, [worker[s] EXCEPT !.stage = "clean"])
      BY DEF WorkerExits, Healthy
    <3>4. WorkerExits(s) => worker'[s].stage = "clean"
      BY <1>0, <3>3 DEF Moves, IInv, TypeOK, Worker
    <3>5. QED
      BY <1>4, <3>1, <3>2, <3>3, <3>4
  <2>5. current = s => up
    BY ConstantsOK DEF IInv, DownHoldsNothing
  <2>6. current = s => Fit(owned[s], w)
    BY <1>0, <2>2, <2>3, <2>4, <2>5 DEF Fit
  <2>7. QED
    BY <1>0, <2>2, <2>3, <2>4, <2>6, FitFrame DEF Moves
<1>5. ~BackendUncertain(s)
  BY DEF BackendUncertain, Healthy
<1>6. CASE WorkerBoots(s)
  <2>1. Alive(s)
    BY <1>6 DEF WorkerBoots, Alive, AliveStages
  <2>2. CASE owned[s].kind = "audition"
    <3>1. Moves(s, W("starting", <<"started">>))
      BY <1>0, <1>6, <2>2 DEF WorkerBoots, Event
    <3>2. <<"started">> \in Seq(Event) /\ Clean(<<"started">>)
      BY FitReports DEF Event
    <3>. HIDE DEF W
    <3>3. QED
      BY <1>1, <2>1, <3>1, <3>2 DEF AliveStages
  <2>3. CASE owned[s].kind # "audition"
    <3>1. Moves(s, W("starting", <<>>))
      BY <1>0, <1>6, <2>3 DEF WorkerBoots
    <3>2. <<>> \in Seq(Event) /\ Clean(<<>>)
      BY DEF Clean
    <3>. HIDE DEF W
    <3>3. QED
      BY <1>1, <2>1, <3>1, <3>2 DEF AliveStages
  <2>4. QED
    BY <2>2, <2>3
<1>7. CASE WorkerReady(s) \/ WorkerSpeaks(s)
  <2>1. \A e : [worker[s] EXCEPT !.pipe = Append(@, e)]
               = [worker[s] EXCEPT !.stage = worker[s].stage, !.pipe = Append(@, e)]
    BY <1>0 DEF Worker
  <2>2. \E e \in Event \ {"uncertain", "unsafe"} :
          Moves(s, [worker[s] EXCEPT !.stage = "serving", !.pipe = Append(@, e)])
    BY <1>7, <2>1 DEF WorkerReady, WorkerSpeaks, Event
  <2>3. PICK e \in Event \ {"uncertain", "unsafe"} :
          Moves(s, [worker[s] EXCEPT !.stage = "serving", !.pipe = Append(@, e)])
    BY <2>2
  <2>4. Moves(s, W("serving", <<e>>)) /\ Alive(s)
    BY <1>0, <1>7, <2>3 DEF WorkerReady, WorkerSpeaks, Alive, AliveStages
  <2>5. <<e>> \in Seq(Event) /\ Clean(<<e>>)
    BY FitReports
  <2>. HIDE DEF W
  <2>6. QED
    BY <1>1, <2>4, <2>5 DEF AliveStages
<1>8. CASE WorkerStops(s)
  <2>1. PICK q \in {<<"draining">>, <<"error", "draining">>} : Moves(s, W("draining", q))
    BY <1>8 DEF WorkerStops
  <2>2. q \in Seq(Event) /\ Clean(q)
    <3>1. /\ {"draining", "error"} \subseteq Event \ {"uncertain", "unsafe"}
          /\ {"error", "draining"} \cap {"uncertain", "unsafe"} = {}
      BY DEF Event
    <3>2. CASE q = <<"draining">>
      BY <3>1, <3>2, FitReports
    <3>3. CASE q = <<"error", "draining">>
      BY <3>1, <3>3, FitReports
    <3>4. QED
      BY <3>2, <3>3
  <2>3. Alive(s)
    BY <1>8 DEF WorkerStops, Alive, AliveStages
  <2>. HIDE DEF W
  <2>4. QED
    BY <1>1, <2>1, <2>2, <2>3 DEF AliveStages
<1>9. CASE WorkerFinishes(s)
  <2>1. Moves(s, W("exiting", <<"safe">>)) /\ Alive(s)
    BY <1>0, <1>9 DEF WorkerFinishes, Alive, AliveStages
  <2>2. <<"safe">> \in Seq(Event) /\ Clean(<<"safe">>)
    BY FitReports DEF Event
  <2>3. Said(<<"safe">>)
    BY DEF Said
  <2>. HIDE DEF W
  <2>4. QED
    BY <1>1, <2>1, <2>2, <2>3 DEF AliveStages
<1>10. QED
  BY <1>2, <1>3, <1>4, <1>5, <1>6, <1>7, <1>8, <1>9 DEF WorkerStep

-----------------------------------------------------------------------------
(* The monitor.                                                            *)

\* What a line says of the worker.
LEMMA HeardWorker ==
  ASSUME NEW o \in Owned, NEW e \in Event, e # "unsafe"
  PROVE  LET p == Heard(o, e) IN
         /\ p.stopReady => o.stopReady \/ e = "started"
         /\ IF e = "safe" THEN p.finished /\ p.safe
            ELSE p.finished = o.finished /\ p.safe = o.safe
<1>. DEFINE p == Heard(o, e)
            Same(q) == q.finished = o.finished /\ q.safe = o.safe /\ q.stopReady = o.stopReady
<1>1. CASE e = "started" \/ e = "silent" \/ e = "voiced"
  <2>1. \/ p = [o EXCEPT !.stopReady = TRUE] /\ e = "started"
        \/ p = [o EXCEPT !.pcm = IF @ = "empty" THEN "silent" ELSE @]
        \/ p = [o EXCEPT !.pcm = "voiced"]
        \/ p = o
    BY <1>1 DEF Heard
  <2>2. /\ [o EXCEPT !.stopReady = TRUE].finished = o.finished
        /\ [o EXCEPT !.stopReady = TRUE].safe = o.safe
    BY DEF Owned
  <2>3. /\ Same([o EXCEPT !.pcm = IF @ = "empty" THEN "silent" ELSE @])
        /\ Same([o EXCEPT !.pcm = "voiced"])
    BY DEF Owned
  <2>4. QED
    BY <1>1, <2>1, <2>2, <2>3
<1>2. CASE e = "invalid" \/ e = "error"
  <2>. DEFINE a == [o EXCEPT !.pcm = "empty"]
              b == [a EXCEPT !.result = "failed"]
              f == IF o.ending = "none" THEN "new" ELSE o.ending
              c == [b EXCEPT !.ending = f]
  <2>1. p \in {o, b, c}
    BY <1>2 DEF Heard
  <2>2. a \in Owned /\ Same(a)
    BY DEF Owned
  <2>. HIDE DEF a
  <2>3. b \in Owned /\ Same(b)
    BY <2>2 DEF Owned
  <2>. HIDE DEF b, f
  <2>4. Same(c)
    BY <2>3 DEF Owned
  <2>. HIDE DEF c
  <2>5. QED
    BY <1>2, <2>1, <2>3, <2>4
<1>3. CASE e = "safe"
  <2>. DEFINE a == [o EXCEPT !.finished = TRUE]
              b == [a EXCEPT !.safe = TRUE]
  <2>1. p = b
    BY <1>3 DEF Heard
  <2>2. a \in Owned /\ a.finished /\ a.stopReady = o.stopReady
    BY DEF Owned
  <2>. HIDE DEF a
  <2>3. b.finished /\ b.safe /\ b.stopReady = o.stopReady
    BY <2>2 DEF Owned
  <2>. HIDE DEF b
  <2>4. QED
    BY <1>3, <2>1, <2>3
<1>4. CASE e \in {"ready", "draining", "uncertain"}
  <2>1. p = o
    BY <1>4 DEF Heard
  <2>2. QED
    BY <1>4, <2>1
<1>5. QED
  BY <1>1, <1>2, <1>3, <1>4 DEF Event

LEMMA ReadsTame ==
  ASSUME IInv, SInv, HInv, IInv', NEW s \in Sessions, MonitorReads(s)
  PROVE  HInv'
<1>. DEFINE e == Head(worker[s].pipe)
            w == [worker[s] EXCEPT !.pipe = Tail(@)]
            o == owned[s]
            p == Heard(o, e)
<1>1. /\ o \in Owned /\ worker[s] \in Worker /\ owned \in [Sessions -> Owned]
      /\ worker \in [Sessions -> Worker] /\ NoSession \notin Sessions
  BY ConstantsOK DEF IInv, TypeOK
<1>2. /\ worker[s].pipe \in Seq(Event) /\ worker[s].pipe # <<>> /\ o.monitor = "reading" /\ up
      /\ UNCHANGED <<up, starter, closing, awaited, current>>
  BY <1>1 DEF Worker, MonitorReads, admission
<1>3. e \in Event /\ Tail(worker[s].pipe) \in Seq(Event)
  BY <1>2, Taken
<1>4. w \in Worker /\ w.stage = worker[s].stage /\ w.work = worker[s].work
      /\ w.pipe = Tail(worker[s].pipe)
  BY <1>1, <1>3, PipeField
<1>5. worker' = [worker EXCEPT ![s] = w]
  BY DEF MonitorReads
<1>6. current = s /\ o.handle
  BY <1>2 DEF SInv, MonitoredIsCurrent, HandleIsMonitored
<1>7. owned' = [owned EXCEPT ![s] = p] /\ phase' = PhaseAfter(o, e)
  BY <1>6 DEF MonitorReads
<1>8. Fit(o, worker[s]) /\ o.kind = "audition"
  BY <1>6 DEF HInv, WorkerIsFit, AuditionIsStarted
<1>9. /\ e \notin {"uncertain", "unsafe"} /\ Clean(w.pipe)
      /\ Begun(w.pipe) \/ e = "started" => Begun(worker[s].pipe)
      /\ Said(worker[s].pipe) => Said(w.pipe) \/ e = "safe"
  BY <1>2, <1>4, <1>8, FitTaken DEF Fit
<1>10. p.kind = o.kind /\ p.start = o.start /\ p.monitor = o.monitor
  BY <1>1, <1>3, HeardIsOwned
<1>11. p.handle = o.handle /\ p.ending \in {o.ending, "new"}
  BY <1>1, <1>3, HeardSample
<1>12. /\ p.stopReady => o.stopReady \/ e = "started"
       /\ IF e = "safe" THEN p.finished /\ p.safe
          ELSE p.finished = o.finished /\ p.safe = o.safe
  BY <1>1, <1>3, <1>9, HeardWorker
<1>13. phase' # "blocked"
  BY <1>1, <1>3, <1>7, <1>9, HeardPhase DEF HInv, NeverBlocked
<1>. HIDE DEF w, p, e
<1>14. /\ owned'[s] = p /\ worker'[s] = w
       /\ \A t \in Sessions : t # s => owned'[t] = owned[t] /\ worker'[t] = worker[t]
  BY <1>1, <1>5, <1>7
<1>. HIDE DEF o
<1>15. \A t \in Sessions : (Busy(t)' <=> Busy(t)) /\ (Spawning(t)' <=> Spawning(t))
  BY <1>4, <1>10, <1>14 DEF Busy, Alive, Spawning, o
<1>. USE DEF HInv
<1>16. NeverBlocked' /\ WorkSettles'
  BY <1>4, <1>13, <1>14 DEF NeverBlocked, WorkSettles
<1>17. AuditionIsStarted'
  BY <1>2, <1>10, <1>11, <1>14, <1>15 DEF AuditionIsStarted, o
<1>18. WorkerIsFit'
  <2>1. Fit(p, w)
    BY <1>4, <1>8, <1>9, <1>11, <1>12 DEF Fit
  <2>2. QED
    BY <1>2, <1>6, <1>14, <2>1 DEF WorkerIsFit
<1>19. DrainIsClean'
  <2>1. /\ p.monitor = "reading" /\ p.ending \notin {"room", "done"}
        /\ p.ending # "none" => p.handle
    BY <1>2, <1>6, <1>10, <1>11 DEF DrainIsClean, o
  <2>2. QED
    BY <1>14, <2>1 DEF DrainIsClean
<1>20. StarterSpawns'
  BY <1>2, <1>15 DEF StarterSpawns
<1>21. ClosingIsOrderly'
  BY <1>2, <1>15 DEF ClosingIsOrderly, Quiet
<1>22. QED
  BY <1>16, <1>17, <1>18, <1>19, <1>20, <1>21

\* A worker that has left, and every line read: the drain is confirmed.
LEMMA EndsTame ==
  ASSUME IInv, SInv, HInv, IInv', NEW s \in Sessions, MonitorEnds(s)
  PROVE  HInv'
<1>. DEFINE o == owned[s]
            left == [o EXCEPT !.monitor = "done"]
            p == Completed(left)
<1>1. /\ up /\ o.monitor = "reading" /\ worker[s].pipe = <<>> /\ ~Alive(s)
      /\ MonitorSettles(s, "done") /\ UNCHANGED <<up, closing, awaited, starter, worker>>
  BY DEF MonitorEnds, shutdown
<1>2. /\ o \in Owned /\ owned \in [Sessions -> Owned] /\ NoSession \notin Sessions
      /\ worker[s].stage \in AliveStages \cup {"none", "clean", "failed"}
  BY ConstantsOK DEF IInv, TypeOK, Worker
<1>3. current = s /\ o.handle
  BY <1>1 DEF SInv, MonitoredIsCurrent, HandleIsMonitored
<1>4. Fit(o, worker[s]) /\ o.kind = "audition"
  BY <1>3 DEF HInv, WorkerIsFit, AuditionIsStarted
<1>5. ~Said(worker[s].pipe)
  BY <1>1 DEF Said
<1>6. worker[s].stage = "clean" /\ o.safe /\ o.finished
  BY <1>1, <1>2, <1>3, <1>4, <1>5 DEF Fit, Alive
<1>7. worker[s].work = "none"
  BY <1>6 DEF IInv, SafeIsTrue, SaysSafe
<1>8. Confirmed(o, worker[s])
  BY <1>6 DEF Confirmed
<1>9. Retire(s, p)
  BY <1>1, <1>3, <1>4, <1>8 DEF MonitorSettles
<1>10. /\ left \in Owned /\ left.monitor = "done" /\ left.kind = o.kind /\ left.start = o.start
       /\ left.handle = o.handle /\ left.ending = o.ending
       /\ left.finished = o.finished /\ left.safe = o.safe /\ left.stopReady = o.stopReady
  BY <1>2 DEF Owned
<1>. HIDE DEF left
<1>11. /\ p.monitor = "done" /\ p.kind = o.kind /\ p.start = o.start
       /\ p.handle = o.handle /\ p.ending = o.ending
       /\ p.finished = o.finished /\ p.safe = o.safe /\ p.stopReady = o.stopReady
  BY <1>10, CompletedSample
<1>. HIDE DEF p
<1>12. /\ owned' = [owned EXCEPT ![s] = p] /\ current' \in {s, NoSession} /\ phase' # "blocked"
  BY <1>3, <1>9 DEF Retire
<1>13. owned'[s] = p /\ \A t \in Sessions : t # s => owned'[t] = owned[t]
  BY <1>2, <1>12
<1>. HIDE DEF o
<1>14. \A t \in Sessions : Spawning(t)' <=> Spawning(t)
  BY <1>11, <1>13 DEF Spawning, o
<1>. USE DEF HInv
<1>15. NeverBlocked' /\ WorkSettles'
  BY <1>1, <1>12 DEF NeverBlocked, WorkSettles
<1>16. AuditionIsStarted'
  BY ZenonT(60), <1>2, <1>3, <1>11, <1>12, <1>13, <1>14 DEF AuditionIsStarted, o
<1>17. WorkerIsFit'
  <2>1. Fit(p, worker[s])
    BY <1>4, <1>11 DEF Fit
  <2>2. QED
    BY <1>1, <1>2, <1>3, <1>12, <1>13, <2>1 DEF WorkerIsFit
<1>18. DrainIsClean'
  BY <1>1, <1>6, <1>7, <1>11, <1>13 DEF DrainIsClean, o
<1>19. StarterSpawns'
  BY <1>1, <1>14 DEF StarterSpawns
<1>20. ClosingIsOrderly'
  BY <1>1, <1>3, <1>12, <1>14 DEF ClosingIsOrderly, Quiet, Busy, Alive
<1>21. QED
  BY <1>15, <1>16, <1>17, <1>18, <1>19, <1>20

LEMMA MonitorTame ==
  ASSUME Healthy, IInv, SInv, HInv, IInv', NEW s \in Sessions, MonitorStep(s)
  PROVE  HInv'
<1>1. ~MonitorFails(s) /\ ~MonitorDeletesRoom(s)
  BY DEF MonitorFails, MonitorDeletesRoom, Healthy, HInv, DrainIsClean
<1>2. QED
  BY <1>1, ReadsTame, EndsTame DEF MonitorStep

-----------------------------------------------------------------------------
(* Starting a session.                                                     *)

\* The start task of the current session, an audition that is spawning, leaves
\* its object as o, and the current session is current'.
LEMMA StartingFrame ==
  ASSUME IInv, SInv, HInv, IInv', up, NEW s \in Sessions, Spawning(s), NEW o,
         owned' = [owned EXCEPT ![s] = o],
         o.kind = owned[s].kind, o.ending = owned[s].ending, o.stopReady = owned[s].stopReady,
         o.finished = owned[s].finished, o.safe = owned[s].safe,
         \/ /\ o.start = "spawn" /\ o.handle = owned[s].handle /\ o.monitor = owned[s].monitor
            /\ current' = current
         \/ /\ o.start = "none" /\ o.handle = owned[s].handle /\ o.monitor = owned[s].monitor
            /\ current' = NoSession
         \/ /\ o.start \in {"none", "stdin"} /\ o.handle /\ o.monitor = "reading"
            /\ worker[s].stage # "none" /\ current' = current,
         UNCHANGED <<shutdown, starter, worker>>, phase' \in {phase, "idle"}
  PROVE  HInv'
<1>. USE DEF shutdown, HInv
<1>1. owned'[s] = o /\ \A t \in Sessions : t # s => owned'[t] = owned[t]
  BY DEF IInv, TypeOK
<1>2. current = s /\ NoSession \notin Sessions /\ \A t \in Sessions : Spawning(t) => t = s
  BY ConstantsOK DEF IInv, BusyIsCurrent
<1>3. \A t \in Sessions : Spawning(t)' => Spawning(t)
  BY <1>1, <1>2 DEF Spawning
<1>4. owned[s].kind = "audition" /\ owned[s].monitor = "none"
  BY <1>2 DEF AuditionIsStarted, IInv, StartingIsUnmonitored
<1>5. owned[s].ending # "none" => owned[s].handle
  BY DEF DrainIsClean
<1>6. NeverBlocked' /\ WorkSettles'
  BY DEF NeverBlocked, WorkSettles
<1>7. AuditionIsStarted'
  BY <1>1, <1>2, <1>4 DEF AuditionIsStarted, Spawning
<1>8. WorkerIsFit'
  <2>1. Fit(owned[s], worker[s])
    BY <1>2 DEF WorkerIsFit
  <2>2. current' = s => Fit(o, worker[s])
    BY <1>2, <2>1 DEF Fit
  <2>3. QED
    BY <1>1, <1>2, <2>2 DEF WorkerIsFit
<1>9. DrainIsClean'
  BY <1>1, <1>4, <1>5 DEF DrainIsClean
<1>10. StarterSpawns'
  BY <1>3 DEF StarterSpawns
<1>11. ClosingIsOrderly'
  BY DEF ClosingIsOrderly, IInv
<1>12. QED
  BY <1>6, <1>7, <1>8, <1>9, <1>10, <1>11

\* A new audition: its start task is the one close() waits for.
LEMMA AdmittedTame ==
  ASSUME Healthy, IInv, SInv, HInv, IInv', NEW s \in Sessions, NEW hold \in BOOLEAN,
         PreflightPasses(s, hold)
  PROVE  HInv'
<1>. DEFINE o == NewSession("audition", hold, "mark")
<1>. USE DEF HInv
<1>1. /\ o.kind = "audition" /\ o.start = "mark" /\ o.monitor = "none" /\ o.handle = FALSE
      /\ o.ending = "none" /\ o.stopReady = FALSE /\ o.finished = FALSE /\ o.safe = FALSE
  BY DEF NewSession
<1>2. /\ up /\ closing = "open" /\ current = NoSession /\ NoSession \notin Sessions
      /\ current' = s /\ starter' = s /\ phase' = "starting"
      /\ UNCHANGED <<up, closing, awaited>> /\ worker' = [worker EXCEPT ![s] = NoWorker]
      /\ owned' = [Cleared(owned) EXCEPT ![s] = o]
  BY ConstantsOK DEF PreflightPasses, Healthy, IInv, PreflightIsAlone, shutdown
<1>. HIDE DEF o
<1>3. Cleared(owned) \in [Sessions -> Owned]
  BY ClearedIsAlike DEF IInv
<1>4. /\ owned'[s] = o /\ worker'[s] = NoWorker
      /\ \A t \in Sessions : t # s => worker'[t] = worker[t] /\ owned'[t] = Cleared(owned)[t]
  BY <1>2, <1>3 DEF IInv, TypeOK
<1>5. \A t \in Sessions : t # s => Tame(owned[t], owned'[t])
  BY <1>4, ClearedIsTame
<1>6. /\ NoWorker.work = "none" /\ NoWorker.stage = "none" /\ NoWorker.pipe = <<>>
      /\ Clean(<<>>) /\ ~Begun(<<>>)
  BY DEF NoWorker, Clean, Begun
<1>7. \A t \in Sessions : ~Spawning(t)
  BY <1>2 DEF IInv, BusyIsCurrent
<1>8. NeverBlocked' /\ WorkSettles'
  BY <1>2, <1>4, <1>6 DEF NeverBlocked, WorkSettles
<1>9. AuditionIsStarted'
  <2>1. \A t \in Sessions : t # s =>
          /\ owned'[t].start \notin {"checks", "room", "cleanup"}
          /\ owned'[t].start = "stdin" => owned'[t].handle
          /\ owned'[t].handle => owned'[t].kind = "audition"
    BY <1>5 DEF AuditionIsStarted, Tame
  <2>2. QED
    BY <1>1, <1>2, <1>4, <2>1 DEF AuditionIsStarted, Spawning
<1>10. WorkerIsFit'
  BY <1>1, <1>2, <1>4, <1>6 DEF WorkerIsFit, Fit
<1>11. DrainIsClean'
  BY <1>1, <1>4, <1>5 DEF DrainIsClean, Tame
<1>12. StarterSpawns'
  BY <1>2, <1>5, <1>7 DEF StarterSpawns, Spawning, Tame
<1>13. ClosingIsOrderly'
  BY <1>2 DEF ClosingIsOrderly
<1>14. QED
  BY <1>8, <1>9, <1>10, <1>11, <1>12, <1>13

LEMMA StartTame ==
  ASSUME Healthy, IInv, SInv, HInv, IInv', NEW s \in Sessions, StartStep(s)
  PROVE  HInv'
<1>0. owned[s] \in Owned /\ up
  BY DEF IInv, TypeOK, StartStep, CreateChecks, CreateRoom, MarkAudition, Fork, SpawnFails,
         SpawnReturns, FeedAudition, CleanUpRoom
<1>1. ~CreateChecks(s) /\ ~CreateRoom(s)
  BY DEF CreateChecks, CreateRoom, HInv, AuditionIsStarted
<1>2. CASE MarkAudition(s)
  <2>. DEFINE o == [owned[s] EXCEPT !.start = "spawn"]
  <2>1. /\ o.start = "spawn" /\ o.kind = owned[s].kind /\ o.ending = owned[s].ending
        /\ o.stopReady = owned[s].stopReady /\ o.finished = owned[s].finished
        /\ o.safe = owned[s].safe /\ o.handle = owned[s].handle /\ o.monitor = owned[s].monitor
    BY <1>0 DEF Owned
  <2>2. /\ owned' = [owned EXCEPT ![s] = o] /\ Spawning(s) /\ current' = current
        /\ UNCHANGED <<shutdown, starter, worker>> /\ phase' \in {phase, "idle"}
    BY <1>2 DEF MarkAudition, Spawning, shutdown
  <2>. HIDE DEF o
  <2>3. QED
    BY <1>0, <2>1, <2>2, StartingFrame
<1>3. CASE SpawnFails(s)
  <2>. DEFINE a == [owned[s] EXCEPT !.start = "none"]
              o == [a EXCEPT !.result = "failed"]
  <2>1. Spawning(s) /\ owned[s].kind = "audition"
    BY <1>3 DEF SpawnFails, Spawning, IInv, BusyIsCurrent, HInv, AuditionIsStarted
  <2>2. [owned[s] EXCEPT !.start = "none", !.result = "failed"] = o
    OBVIOUS
  <2>3. /\ a \in Owned
        /\ a.start = "none" /\ a.kind = owned[s].kind /\ a.ending = owned[s].ending
        /\ a.stopReady = owned[s].stopReady /\ a.finished = owned[s].finished
        /\ a.safe = owned[s].safe /\ a.handle = owned[s].handle /\ a.monitor = owned[s].monitor
    BY <1>0 DEF Owned
  <2>. HIDE DEF a
  <2>4. /\ o.start = "none" /\ o.kind = owned[s].kind /\ o.ending = owned[s].ending
        /\ o.stopReady = owned[s].stopReady /\ o.finished = owned[s].finished
        /\ o.safe = owned[s].safe /\ o.handle = owned[s].handle /\ o.monitor = owned[s].monitor
    BY <2>3 DEF Owned
  <2>. HIDE DEF o
  <2>5. /\ owned' = [owned EXCEPT ![s] = o] /\ current' = NoSession
        /\ UNCHANGED <<shutdown, starter, worker>> /\ phase' \in {phase, "idle"}
    BY <1>3, <2>1, <2>2 DEF SpawnFails, NotStarted
  <2>6. QED
    BY <1>0, <2>1, <2>4, <2>5, StartingFrame
<1>4. CASE SpawnReturns(s)
  <2>. DEFINE v == IF owned[s].kind = "room" THEN "none" ELSE "stdin"
              a == [owned[s] EXCEPT !.handle = TRUE]
              b == [a EXCEPT !.monitor = "reading"]
              o == [b EXCEPT !.start = v]
              Same(q) == /\ q \in Owned /\ q.kind = owned[s].kind /\ q.ending = owned[s].ending
                         /\ q.stopReady = owned[s].stopReady /\ q.finished = owned[s].finished
                         /\ q.safe = owned[s].safe
  <2>1. owned' = [owned EXCEPT ![s] = o]
    BY <1>4 DEF SpawnReturns, IInv, TypeOK
  <2>2. /\ Spawning(s) /\ worker[s].stage # "none" /\ current' = current
        /\ UNCHANGED <<shutdown, starter, worker>> /\ phase' \in {phase, "idle"}
    BY <1>4 DEF SpawnReturns, Spawning, admission, shutdown
  <2>3. Same(a) /\ a.handle = TRUE
    BY <1>0 DEF Owned
  <2>. HIDE DEF a
  <2>4. Same(b) /\ b.handle = TRUE /\ b.monitor = "reading"
    BY <2>3 DEF Owned
  <2>5. v \in {"none", "stdin"}
    OBVIOUS
  <2>. HIDE DEF b, v
  <2>6. Same(o) /\ o.handle = TRUE /\ o.monitor = "reading" /\ o.start = v
    BY <2>4, <2>5 DEF Owned
  <2>. HIDE DEF o
  <2>7. QED
    BY <1>0, <2>1, <2>2, <2>5, <2>6, StartingFrame
<1>5. QED
  BY <1>1, <1>2, <1>3, <1>4, WorkerTame, RequestsTame DEF StartStep

LEMMA RequestStepTame ==
  ASSUME Healthy, IInv, SInv, HInv, IInv', NEW s \in Sessions, RequestStep(s)
  PROVE  HInv'
<1>1. ~RequestRoom(s)
  BY DEF RequestRoom, Healthy
<1>2. QED
  BY <1>1, RequestsTame, CloseEndsTame, AdmittedTame DEF RequestStep

-----------------------------------------------------------------------------
(* The life of the broker, and the theorems.                               *)

\* With no session object in use, whatever runs is an orphan.
LEMMA BareTame ==
  ASSUME WorkSettles', \A s \in Sessions : owned'[s] = NoOne, current' = NoSession,
         phase' = "idle", ClosingIsOrderly'
  PROVE  HInv'
<1>1. \A s \in Sessions :
        /\ owned'[s].start = "none" /\ owned'[s].handle = FALSE /\ owned'[s].monitor = "none"
        /\ owned'[s].ending = "none"
  BY DEF NoOne, NewSession
<1>2. NeverBlocked'
  BY DEF NeverBlocked
<1>3. AuditionIsStarted' /\ StarterSpawns' /\ DrainIsClean' /\ WorkerIsFit'
  BY <1>1, ConstantsOK DEF AuditionIsStarted, StarterSpawns, Spawning, DrainIsClean, WorkerIsFit
<1>4. QED
  BY <1>2, <1>3 DEF HInv

LEMMA LifeTame ==
  ASSUME IInv, SInv, HInv, IInv', LifeStep
  PROVE  HInv'
<1>. USE DEF HInv
<1>1. ASSUME ~up
      PROVE  /\ current = NoSession /\ phase = "idle" /\ \A s \in Sessions : owned[s] = NoOne
  BY <1>1 DEF IInv, DownHoldsNothing
<1>2. CASE \E confirmed \in BOOLEAN : Serve(confirmed)
  <2>1. ~up /\ UNCHANGED <<phase, current, closing, awaited, owned, worker>>
    BY <1>2 DEF Serve
  <2>2. WorkSettles' /\ ClosingIsOrderly'
    BY <2>1 DEF WorkSettles, ClosingIsOrderly, Spawning, Quiet, Busy, Alive
  <2>3. QED
    BY <1>1, <2>1, <2>2, BareTame
<1>3. CASE OperatorRestartsBackend
  <2>1. /\ ~up /\ UNCHANGED <<phase, current, closing, awaited, owned>>
        /\ \A s \in Sessions : worker'[s] = NoWorker
    BY <1>3 DEF OperatorRestartsBackend
  <2>2. WorkSettles' /\ Quiet'
    BY <2>1, NoWorkerIsWorker DEF WorkSettles, Quiet, Busy, Alive, AliveStages
  <2>3. ClosingIsOrderly'
    BY <2>1, <2>2 DEF ClosingIsOrderly, Spawning
  <2>4. QED
    BY <1>1, <2>1, <2>2, <2>3, BareTame
<1>4. CASE BrokerGone
  <2>1. WorkSettles' /\ ClosingIsOrderly'
    BY <1>4 DEF BrokerGone, WorkSettles, ClosingIsOrderly
  <2>2. QED
    BY <1>4, <2>1, BareTame DEF BrokerGone
<1>5. QED
  BY <1>2, <1>3, <1>4 DEF LifeStep, BrokerCrashes, LeaseReleased

LEMMA InitImpliesHInv ==
  ASSUME Init
  PROVE  HInv
<1>. USE DEF Init
<1>1. \A s \in Sessions :
        /\ owned[s].start = "none" /\ owned[s].handle = FALSE /\ owned[s].monitor = "none"
        /\ owned[s].ending = "none" /\ worker[s].work = "none"
  BY DEF NoOne, NewSession, NoWorker
<1>2. NeverBlocked /\ ClosingIsOrderly /\ WorkSettles
  BY <1>1 DEF NeverBlocked, ClosingIsOrderly, WorkSettles
<1>3. AuditionIsStarted /\ StarterSpawns /\ DrainIsClean /\ WorkerIsFit
  BY <1>1, ConstantsOK DEF AuditionIsStarted, StarterSpawns, Spawning, DrainIsClean, WorkerIsFit
<1>4. QED
  BY <1>2, <1>3 DEF HInv

LEMMA NextKeepsHInv ==
  ASSUME Healthy, IInv, SInv, HInv, [Next]_vars
  PROVE  HInv'
<1>0. IInv'
  BY NextKeepsIInv
<1>1. CASE LifeStep
  BY <1>0, <1>1, LifeTame
<1>2. CASE LibraryStep \/ CloseStep
  BY <1>0, <1>2, LibraryTame
<1>3. ASSUME NEW s \in Sessions, StartStep(s)
      PROVE  HInv'
  BY <1>0, <1>3, StartTame
<1>4. ASSUME NEW s \in Sessions, WorkerStep(s)
      PROVE  HInv'
  BY <1>0, <1>4, WorkerTame
<1>5. ASSUME NEW s \in Sessions, MonitorStep(s)
      PROVE  HInv'
  BY <1>0, <1>5, MonitorTame
<1>6. ASSUME NEW s \in Sessions, EndStep(s)
      PROVE  HInv'
  BY <1>0, <1>6, EndTaskTame
<1>7. ASSUME NEW s \in Sessions, RequestStep(s)
      PROVE  HInv'
  BY <1>0, <1>7, RequestStepTame
<1>8. CASE UNCHANGED vars
  <2>. USE DEF vars
  <2>1. NeverBlocked' /\ WorkSettles' /\ AuditionIsStarted' /\ StarterSpawns'
    BY <1>8 DEF HInv, NeverBlocked, WorkSettles, AuditionIsStarted, StarterSpawns, Spawning
  <2>2. WorkerIsFit' /\ DrainIsClean'
    BY <1>8 DEF HInv, WorkerIsFit, DrainIsClean
  <2>3. ClosingIsOrderly'
    BY <1>8 DEF HInv, ClosingIsOrderly, Spawning, Quiet, Busy, Alive
  <2>4. QED
    BY <2>1, <2>2, <2>3 DEF HInv
<1>9. QED
  BY <1>1, <1>2, <1>3, <1>4, <1>5, <1>6, <1>7, <1>8 DEF Next

\* The third inductive invariant.
THEOREM HealthyInvariant ==
  ASSUME Healthy
  PROVE  Spec => [](IInv /\ SInv /\ HInv)
<1>1. Init => HInv
  BY InitImpliesHInv
<1>2. IInv /\ SInv /\ HInv /\ [Next]_vars => HInv'
  BY NextKeepsHInv
<1>3. Spec => [](IInv /\ SInv)
  BY SampleInvariant
<1>4. QED
  BY <1>1, <1>2, <1>3, PTL DEF Spec

\* With healthy workers no audition, however it is ended, replaced or left behind
\* by a crash of the broker, takes the phase to "blocked": the monitor always
\* finds return code 0 after a report of a safe drain, and the end task never has
\* to kill (Studio._monitor, Studio._end).
THEOREM HealthySafety ==
  ASSUME Healthy
  PROVE  Spec => []NeverBlocked
<1>1. IInv /\ SInv /\ HInv => NeverBlocked
  BY DEF HInv
<1>2. QED
  BY <1>1, HealthyInvariant, PTL

\* When serve() releases the lease at the end of an orderly shutdown no worker of
\* an audition runs and no inference is in flight: close() waits for the start task,
\* and then for the end task of the session it finds.
THEOREM ReleaseSafety ==
  ASSUME Healthy
  PROVE  Spec => DrainedAtRelease
<1>1. IInv /\ SInv /\ HInv => [closing = "cleanup" /\ ~up' => Quiet]_vars
  BY DEF HInv, ClosingIsOrderly
<1>2. QED
  BY <1>1, HealthyInvariant, PTL DEF DrainedAtRelease

=============================================================================
