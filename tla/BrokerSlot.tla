----------------------------- MODULE BrokerSlot -----------------------------
(***************************************************************************)
(* The studio broker as its clients see it through the HTTP API: one slot  *)
(* that a browser's session or a narration owns, and what the routes do to *)
(* it and answer.  StudioBroker has what is behind it (workers, marker,    *)
(* rooms); here these only take their time, end well or end blocked.       *)
(***************************************************************************)
EXTENDS Naturals

CONSTANTS
  MaxOwners,      \* bound on the owners of the slot in one behaviour
  HeartbeatTicks, \* HEARTBEAT_SECONDS
  AuditionTicks   \* AUDITION_SECONDS

ASSUME SlotConstants == {MaxOwners, HeartbeatTicks, AuditionTicks} \subseteq Nat

VARIABLES slot

Ids == 1..MaxOwners

Slot == [phase  : {"idle", "starting", "active", "draining", "blocked"},
         owner  : 0..MaxOwners,           \* Studio.current, 0 for None
         kind   : {"room", "audition"},
         held   : BOOLEAN,                \* playback_admitted
         made   : 0..MaxOwners,           \* the owners so far
         silent : 0..HeartbeatTicks + 1,  \* time since the heartbeat of the owner
         age    : 0..AuditionTicks + 1]   \* time since an audition was created; both count while
                                          \* the watchdog looks at them

Free(made) == [phase |-> "idle", owner |-> 0, kind |-> "room", held |-> FALSE, made |-> made,
               silent |-> 0, age |-> 0]

SlotInit == slot = Free(0)

-----------------------------------------------------------------------------
(* The routes: the slot after a request, and whether it is granted.        *)

Owns(id) == id # 0 /\ slot.owner = id

\* create() and create_audition(): the slot must be idle.
CanCreate == slot.phase = "idle" /\ slot.made < MaxOwners

Created(kind) ==
  [Free(slot.made + 1) EXCEPT !.phase = "starting", !.owner = slot.made + 1, !.kind = kind]

\* heartbeat(): not for a stranger, nor for a session that is ending.
MayBeat(id) == Owns(id) /\ slot.phase \notin {"draining", "blocked"}

Beaten == [slot EXCEPT !.silent = 0]

\* end(): a playback that is held is over at once, a worker has to drain.
Ended ==
  IF slot.held THEN Free(slot.made)
  ELSE [slot EXCEPT !.phase = IF @ = "blocked" THEN @ ELSE "draining", !.silent = 0, !.age = 0]

\* audition_status() is the heartbeat of an audition.
AuditionSeen(id) == IF Owns(id) /\ slot.phase \notin {"draining", "blocked"} THEN Beaten ELSE slot

\* audition_audio(): the result of a generation that has ended and whose playback is held.
AudioReady(id) == Owns(id) /\ slot.held

-----------------------------------------------------------------------------
(* The broker's own steps.                                                 *)

\* The session is not started after all: the checks or the local services fail.
CreateFails ==
  /\ slot.phase = "starting"
  /\ slot' = Free(slot.made)

\* The worker reports that it is ready.  An audition counts as starting until it is held:
\* nothing that its client may do changes in between.
BecomesActive ==
  /\ slot.phase = "starting" /\ slot.kind = "room"
  /\ slot' = [slot EXCEPT !.phase = "active"]

\* The worker of the audition has drained with a sample: the narration holds the slot.
HoldsPlayback ==
  /\ slot.phase = "starting" /\ slot.kind = "audition"
  /\ slot' = [slot EXCEPT !.phase = "active", !.held = TRUE]

\* The worker stops by itself.
WorkerEnds ==
  /\ slot.phase \in {"starting", "active"} /\ ~slot.held
  /\ slot' = Ended

\* The watchdog gives up an owner that is silent, or an audition that takes too long.
Expires ==
  /\ slot.phase \in {"starting", "active"}
  /\ \/ slot.silent > HeartbeatTicks
     \/ slot.kind = "audition" /\ slot.age > AuditionTicks
  /\ slot' = Ended

\* The worker is gone, and so is the room.
Drains ==
  /\ slot.phase = "draining"
  /\ slot' = Free(slot.made)

DrainFails ==
  /\ slot.phase = "draining"
  /\ slot' = [slot EXCEPT !.phase = "blocked"]

BrokerStep ==
  CreateFails \/ BecomesActive \/ HoldsPlayback \/ WorkerEnds \/ Expires \/ Drains \/ DrainFails

\* Time as the broker counts it.
Later(n, bound) == IF n > bound THEN n ELSE n + 1

SlotAfterTick ==
  IF slot.phase \notin {"starting", "active"} THEN slot
  ELSE [slot EXCEPT !.silent = Later(@, HeartbeatTicks),
                    !.age = IF slot.kind = "audition" THEN Later(@, AuditionTicks) ELSE 0]
=============================================================================
