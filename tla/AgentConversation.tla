------------------------- MODULE AgentConversation -------------------------
(***************************************************************************)
(* The conversation agent of a session (examples/agent_llm.py) with the    *)
(* Codex provider: calls of AgentLLM take turns under its lock, the first  *)
(* starts the owned runtime process, and each chat sends one prompt and    *)
(* reads the reply that the transport's reader task turns into events.  A  *)
(* turn that does not finish is interrupted and awaited before the lock is *)
(* free; when that fails the adapter is poisoned and the process stopped.  *)
(* An action is the code between two awaits.  Time is abstracted: a        *)
(* timeout may fire whenever its wait is on.                               *)
(***************************************************************************)
EXTENDS Naturals, Sequences, SequencesExt

CONSTANTS
  Calls,       \* chat streams, validate() and available_models(); reused when over
  Closer,      \* the task in aclose()
  NoCall,      \* no call
  MaxCalls,    \* bound on the calls of one behaviour
  MaxParts,    \* bound on the parts of a reply of the runtime
  MaxDeltas,   \* bound on the parts of a reply that come one by one
  MaxContext,  \* the messages of _MAX_CONTEXT_CHARS
  MaxResponse, \* the parts of _MAX_RESPONSE_CHARS
  QueueSize,   \* _QUEUE_SIZE
  PipeCap      \* lines that the standard output of the process holds

ASSUME ConstantsOK ==
  /\ Closer \notin Calls /\ NoCall \notin Calls /\ Closer # NoCall
  /\ {MaxCalls, MaxContext} \subseteq Nat /\ MaxDeltas \in 0..MaxParts
  /\ {MaxParts, MaxResponse, QueueSize, PipeCap} \subseteq Nat \ {0}

VARIABLES
  lock,    \* AgentLLM._lock: its holder and then those that wait, first come first served
  owner,   \* the other fields of AgentLLM
  closer,  \* where aclose() stands and the stream that it awaits
  call,    \* each call
  turn,    \* the locals of _AgentStream._run of the call that holds the lock
  codex,   \* _CodexClient and _CodexSession
  runtime, \* external: the process, its thread and its pipes
  voice,   \* external: the chat context of the voice session, and its calls so far
  lost     \* history: was a stop cut short, was a process forgotten

vars == <<lock, owner, closer, call, turn, codex, runtime, voice, lost>>

(* A message is 0 when the user says it and n when it is a reply of n parts. *)
Messages == Seq(0..MaxParts)

Owner == [client : BOOLEAN, session : BOOLEAN, metadata : BOOLEAN,
          snapshot : BOOLEAN,              \* _needs_snapshot
          closed : BOOLEAN, uncertain : BOOLEAN,
          history : Messages,
          retired : SUBSET (1..MaxCalls)]  \* _retired_messages

Settling == {"settling", "interrupting", "idling"}
Subscribed == {"sending", "reading"} \cup Settling

Call == [kind : {"chat", "validate", "models"},
         at : {"none", "queued", "starting", "ready", "stopping", "ended"} \cup Subscribed,
         context : Messages,
         heard : Seq((1..MaxCalls) \X (1..MaxParts))]  \* the chunks: a turn and a part

Event == [kind : {"text", "done", "error"}, turn : 0..MaxCalls, first : 0..MaxParts, last : 0..MaxParts]

Turn == [queue : Seq(Event), idle : BOOLEAN, failed : BOOLEAN, accepting : BOOLEAN,
         safety : BOOLEAN,                \* safety_failed
         seen : SUBSET (1..MaxCalls),     \* seen_messages
         sent : {"none", "pending", "answered", "done", "failed"},  \* sent_task
         id : 0..MaxCalls,                \* the turn that the answer names
         abort : {"none", "pending", "answered", "failed"},
         before : 0..MaxCalls]            \* history: the turns made before this one

Boot == {"none", "discovering", "attesting", "listing", "opening", "open"}

Codex == [boot : Boot,
          reader : BOOLEAN,               \* the reader task runs
          turn : 0..MaxCalls,             \* _CodexSession.turn_id, 0 for None
          retired : SUBSET (1..MaxCalls)] \* _CodexSession.retired

Request == [kind : {"start", "interrupt"}, turn : 0..MaxCalls,
            replace : BOOLEAN,            \* the mode is "snapshot"
            messages : Messages]

Line == [kind : {"answer", "reject", "stopped", "unstopped", "started", "delta", "item",
                 "completed", "failed", "error", "tool"},
         turn : 0..MaxCalls, part : 0..MaxParts]

Runtime == [alive : BOOLEAN,
            made : 0..MaxCalls,           \* the turns so far
            running : 0..MaxCalls,        \* the turn in progress, 0 for none
            said : 0..MaxParts,           \* the parts of its reply so far
            thread : Messages,            \* what it takes the conversation to be
            requests : Seq(Request),      \* its standard input
            lines : Seq(Line)]            \* its standard output

TypeOK ==
  /\ lock \in Seq(Calls \cup {Closer})
  /\ owner \in Owner
  /\ closer \in [at : {"none", "streams", "queued", "stopping", "done"}, awaits : Calls \cup {NoCall}]
  /\ call \in [Calls -> Call]
  /\ turn \in Turn
  /\ codex \in Codex
  /\ runtime \in Runtime
  /\ voice \in [context : Messages, calls : 0..MaxCalls]
  /\ lost \in [cut : BOOLEAN, forgotten : BOOLEAN]
  /\ Len(turn.queue) <= QueueSize
  /\ \A c \in Calls : Len(call[c].heard) <= MaxResponse

NewCall(kind, at, context) == [kind |-> kind, at |-> at, context |-> context, heard |-> <<>>]

NewTurn(made) ==
  [queue |-> <<>>, idle |-> FALSE, failed |-> FALSE, accepting |-> TRUE, safety |-> FALSE,
   seen |-> {}, sent |-> "pending", id |-> 0, abort |-> "none", before |-> made]

NoTurn == [NewTurn(0) EXCEPT !.accepting = FALSE, !.sent = "none"]

Launched(boot) == [boot |-> boot, reader |-> TRUE, turn |-> 0, retired |-> {}]
NoCodex == [Launched("none") EXCEPT !.reader = FALSE]

NewProcess ==
  [alive |-> TRUE, made |-> 0, running |-> 0, said |-> 0, thread |-> <<>>,
   requests |-> <<>>, lines |-> <<>>]
NoProcess == [NewProcess EXCEPT !.alive = FALSE]

Init ==
  /\ lock = <<>>
  /\ owner = [client |-> FALSE, session |-> FALSE, metadata |-> FALSE, snapshot |-> TRUE,
              closed |-> FALSE, uncertain |-> FALSE, history |-> <<>>, retired |-> {}]
  /\ closer = [at |-> "none", awaits |-> NoCall]
  /\ call = [c \in Calls |-> NewCall("chat", "none", <<>>)]
  /\ turn = NoTurn /\ codex = NoCodex /\ runtime = NoProcess
  /\ voice = [context |-> <<>>, calls |-> 0]
  /\ lost = [cut |-> FALSE, forgotten |-> FALSE]

Holds(c) == lock # <<>> /\ Head(lock) = c
Moves(c, at) == call' = [call EXCEPT ![c].at = at]

\* The call is over and leaves the lock.
Leaves(c) == Moves(c, "ended") /\ lock' = Tail(lock)

\* The first statements of _stop_runtime(): nothing that the process still says matters.
Drops(o) ==
  /\ owner' = [o EXCEPT !.session = FALSE, !.metadata = FALSE]
  /\ codex' = NoCodex
  /\ runtime' = [NoProcess EXCEPT !.alive = runtime.alive]

Stops(c, o) == Moves(c, "stopping") /\ Drops(o)

-----------------------------------------------------------------------------
(* The callers.                                                            *)

\* A call that is not in use: which one does not matter.
FreeCall ==
  IF \E c \in Calls : call[c].at = "none" THEN CHOOSE c \in Calls : call[c].at = "none" ELSE NoCall

\* chat(): the context is the session's, with or without a new message of the user.
Chats(c) ==
  /\ c = FreeCall /\ voice.calls < MaxCalls
  /\ ~owner.uncertain /\ ~owner.closed
  /\ \E context \in {voice.context, Append(voice.context, 0)} :
       /\ call' = [call EXCEPT ![c] = NewCall("chat", "queued", context)]
       /\ voice' = [context |-> context, calls |-> voice.calls + 1]
  /\ lock' = Append(lock, c)
  /\ UNCHANGED <<owner, closer, turn, codex, runtime, lost>>

\* validate() and available_models().
Asks(c, kind) ==
  /\ c = FreeCall /\ voice.calls < MaxCalls
  /\ call' = [call EXCEPT ![c] = NewCall(kind, "queued", <<>>)]
  /\ voice' = [voice EXCEPT !.calls = @ + 1]
  /\ lock' = Append(lock, c)
  /\ UNCHANGED <<owner, closer, turn, codex, runtime, lost>>

\* The session takes what was spoken of the reply into its context, all, a part or nothing.
Commits(c) ==
  /\ call[c].at = "ended"
  /\ \E n \in 0..Len(call[c].heard) :
       voice' = [voice EXCEPT !.context = IF n = 0 THEN @ ELSE Append(@, n)]
  /\ call' = [call EXCEPT ![c] = NewCall("chat", "none", <<>>)]
  /\ UNCHANGED <<lock, owner, closer, turn, codex, runtime, lost>>

-----------------------------------------------------------------------------
(* The preflight, _ready() and available_models().  Its requests and their *)
(* answers are part of its steps: the pipes are modelled while a session   *)
(* is open, and a process that dies before is a preflight that fails.      *)

\* _check_open() refuses, or available_models() finds a runtime, or validate() has its answer.
Returns(c) ==
  /\ Holds(c) /\ call[c].at = "queued"
  /\ \/ owner.uncertain \/ owner.closed
     \/ call[c].kind = "models" /\ owner.client
     \/ call[c].kind = "validate" /\ owner.metadata
  /\ Leaves(c)
  /\ UNCHANGED <<owner, closer, turn, codex, runtime, voice, lost>>

MayStart(c) ==
  /\ Holds(c) /\ call[c].at = "queued"
  /\ ~owner.uncertain /\ ~owner.closed /\ ~owner.metadata
  /\ call[c].kind = "models" => ~owner.client

FindsNoBinary(c) ==
  /\ MayStart(c)
  /\ Stops(c, owner)
  /\ UNCHANGED <<lock, closer, turn, voice, lost>>

\* A client that is still there is overwritten: nobody stops its process any more.
StartsRuntime(c) ==
  /\ MayStart(c)
  /\ Moves(c, "starting")
  /\ owner' = [owner EXCEPT !.client = TRUE]
  /\ codex' = Launched("discovering") /\ runtime' = NewProcess
  /\ lost' = [lost EXCEPT !.forgotten = @ \/ owner.client]
  /\ UNCHANGED <<lock, closer, turn, voice>>

Boots(c, boot) == call[c].at = "starting" /\ codex.boot = boot

\* start(): what is installed is now known, and a second process gets it disabled.
Relaunches(c) ==
  /\ Boots(c, "discovering")
  /\ codex' = Launched("attesting") /\ runtime' = NewProcess
  /\ UNCHANGED <<lock, owner, closer, call, turn, voice, lost>>

\* Nothing external is enabled and the sandbox denies what it must.
Attests(c) ==
  /\ Boots(c, "attesting")
  /\ codex' = [codex EXCEPT !.boot = "listing"]
  /\ UNCHANGED <<lock, owner, closer, call, turn, runtime, voice, lost>>

\* The model and its effort are offered; available_models() only wanted the list.
Lists(c) ==
  /\ Boots(c, "listing")
  /\ IF call[c].kind = "models" THEN Stops(c, owner)
     ELSE /\ owner' = [owner EXCEPT !.metadata = TRUE]
          /\ codex' = [codex EXCEPT !.boot = "opening"]
          /\ UNCHANGED <<call, runtime>>
  /\ UNCHANGED <<lock, closer, turn, voice, lost>>

\* create_session(): thread/start applied every setting and nothing external appeared.
OpensThread(c) ==
  /\ Boots(c, "opening")
  /\ codex' = [codex EXCEPT !.boot = "open"]
  /\ owner' = [owner EXCEPT !.session = TRUE]
  /\ IF call[c].kind = "validate" THEN Leaves(c) ELSE Moves(c, "ready") /\ UNCHANGED lock
  /\ UNCHANGED <<closer, turn, runtime, voice, lost>>

\* Slip: the runtime of a preflight that fails is left running.
PreflightLeaves(c) ==
  /\ call[c].at = "starting"
  /\ Leaves(c)
  /\ UNCHANGED <<owner, closer, turn, codex, runtime, voice, lost>>

\* A request fails or is refused, a check does not hold, or the time is up.
PreflightFails(c) ==
  /\ call[c].at = "starting"
  /\ Stops(c, owner)
  /\ UNCHANGED <<lock, closer, turn, voice, lost>>

-----------------------------------------------------------------------------
(* A turn, _AgentStream._run().                                            *)

Snapshot(context) == owner.snapshot \/ ~IsPrefix(owner.history, context)

Additions(context) ==
  IF Snapshot(context) THEN context
  ELSE SubSeq(context, Len(owner.history) + 1, Len(context))

MayPrompt(c) ==
  /\ Holds(c)
  /\ \/ call[c].at = "ready"
     \/ /\ call[c].at = "queued" /\ call[c].kind = "chat"
        /\ owner.metadata /\ ~owner.uncertain /\ ~owner.closed

\* _messages() refuses the context, or it says nothing new.
NothingToSend(c) ==
  LET context == call[c].context IN
    context = <<>> \/ Len(context) > MaxContext \/ Additions(context) = <<>>

PromptRefused(c) ==
  /\ MayPrompt(c) /\ NothingToSend(c)
  /\ Leaves(c)
  /\ UNCHANGED <<owner, closer, turn, codex, runtime, voice, lost>>

\* The task of send() writes turn/start; a process that is gone may not be noticed yet.
BeginsTurn(c) ==
  LET context == call[c].context
      prompt == [kind |-> "start", turn |-> 0, replace |-> Snapshot(context),
                 messages |-> Additions(context)] IN
    /\ MayPrompt(c) /\ ~NothingToSend(c)
    /\ Moves(c, "sending")
    /\ \E sent \in {"pending"} \cup (IF runtime.alive THEN {} ELSE {"failed"}) :
         turn' = [NewTurn(runtime.made) EXCEPT !.sent = sent]
    /\ runtime' = [runtime EXCEPT !.requests = IF runtime.alive THEN Append(@, prompt) ELSE @]
    /\ UNCHANGED <<lock, owner, closer, codex, voice, lost>>

\* send() has its answer: the turn may be over before the task is scheduled.
Sent == IF turn.id \in codex.retired THEN codex ELSE [codex EXCEPT !.turn = turn.id]

SendReturns(c) ==
  /\ call[c].at = "sending" /\ turn.sent = "answered"
  /\ Moves(c, "reading")
  /\ codex' = Sent /\ turn' = [turn EXCEPT !.sent = "done"]
  /\ UNCHANGED <<lock, owner, closer, runtime, voice, lost>>

\* The finally clause when the turn has not finished.
Settles(c) ==
  /\ Moves(c, "settling")
  /\ turn' = [turn EXCEPT !.accepting = FALSE]
  /\ owner' = [owner EXCEPT !.snapshot = TRUE]

\* The send fails, an event has failed the turn, or the time of the turn is up.
TurnFails(c) ==
  /\ \/ call[c].at = "sending"
     \/ call[c].at = "reading"
  /\ Settles(c)
  /\ UNCHANGED <<lock, closer, codex, runtime, voice, lost>>

\* The end of the finally clause of a turn that leaves no doubt about the runtime.
TurnOver(c, o) ==
  LET after == [o EXCEPT !.retired = @ \cup turn.seen] IN
    /\ turn' = NoTurn
    /\ IF turn.safety
         THEN Stops(c, [after EXCEPT !.uncertain = TRUE]) /\ UNCHANGED lock
         ELSE Leaves(c) /\ owner' = after /\ UNCHANGED <<codex, runtime>>

Gets(kind) == ~turn.failed /\ turn.queue # <<>> /\ Head(turn.queue).kind = kind

\* Slip: a reply may have any length.
ReadsTextUnchecked(c) ==
  /\ call[c].at = "reading" /\ Gets("text")
  /\ LET e == Head(turn.queue)
         parts == [i \in 1..(e.last - e.first + 1) |-> <<e.turn, e.first + i - 1>>] IN
       /\ call' = [call EXCEPT ![c].heard = @ \o parts]
       /\ turn' = [turn EXCEPT !.queue = Tail(@)]
       /\ UNCHANGED owner
  /\ UNCHANGED <<lock, closer, codex, runtime, voice, lost>>

\* A chunk for the caller, or one that makes the reply too long.
ReadsText(c) ==
  /\ call[c].at = "reading" /\ Gets("text")
  /\ LET e == Head(turn.queue)
         parts == [i \in 1..(e.last - e.first + 1) |-> <<e.turn, e.first + i - 1>>] IN
       IF Len(call[c].heard \o parts) > MaxResponse THEN Settles(c)
       ELSE /\ call' = [call EXCEPT ![c].heard = @ \o parts]
            /\ turn' = [turn EXCEPT !.queue = Tail(@)]
            /\ UNCHANGED owner
  /\ UNCHANGED <<lock, closer, codex, runtime, voice, lost>>

\* Slip: the reply is not added to the history.
ReadsDoneUnrecorded(c) ==
  /\ call[c].at = "reading" /\ Gets("done")
  /\ LET n == Len(call[c].heard) IN
       TurnOver(c, IF n = 0 THEN [owner EXCEPT !.snapshot = TRUE]
                   ELSE [owner EXCEPT !.snapshot = FALSE, !.history = call[c].context])
  /\ UNCHANGED <<closer, voice, lost>>

\* The reply is whole.  One without a word is an error, and the next prompt a snapshot.
ReadsDone(c) ==
  /\ call[c].at = "reading" /\ Gets("done")
  /\ LET n == Len(call[c].heard) IN
       TurnOver(c, IF n = 0 THEN [owner EXCEPT !.snapshot = TRUE]
                   ELSE [owner EXCEPT !.snapshot = FALSE,
                                      !.history = Append(call[c].context, n)])
  /\ UNCHANGED <<closer, voice, lost>>

\* shield(sent_task) is over; abort() asks for the interrupt of the turn the session has.
Interrupts(c) ==
  LET session == IF turn.sent = "answered" THEN Sent ELSE codex
      request == [kind |-> "interrupt", turn |-> session.turn, replace |-> FALSE,
                  messages |-> <<>>] IN
    /\ call[c].at = "settling" /\ turn.sent \in {"answered", "done"}
    /\ codex' = session
    /\ IF session.turn = 0
         THEN /\ Moves(c, "idling") /\ turn' = [turn EXCEPT !.sent = "done"]
              /\ UNCHANGED runtime
         ELSE /\ Moves(c, "interrupting")
              /\ turn' = [turn EXCEPT !.sent = "done", !.abort = "pending"]
              /\ runtime' = [runtime EXCEPT
                   !.requests = IF runtime.alive THEN Append(@, request) ELSE @]
    /\ UNCHANGED <<lock, owner, closer, voice, lost>>

InterruptReturns(c) ==
  /\ call[c].at = "interrupting" /\ turn.abort = "answered"
  /\ Moves(c, "idling")
  /\ UNCHANGED <<lock, owner, closer, turn, codex, runtime, voice, lost>>

\* Slip: the answer to the interrupt is taken for the end of the turn.
IsIdleAtOnce(c) ==
  /\ call[c].at = "idling"
  /\ TurnOver(c, owner)
  /\ UNCHANGED <<closer, voice, lost>>

IsIdle(c) ==
  /\ call[c].at = "idling" /\ turn.idle
  /\ TurnOver(c, owner)
  /\ UNCHANGED <<closer, voice, lost>>

\* The adapter is poisoned: what the runtime still does of this turn is unknown.
Poisons(c) ==
  /\ turn' = NoTurn
  /\ Stops(c, [owner EXCEPT !.uncertain = TRUE, !.retired = @ \cup turn.seen])

\* Slip: the end of the turn is awaited without a timeout.
SettlingFailsOnError(c) ==
  /\ call[c].at \in Settling
  /\ turn.sent = "failed" \/ turn.abort = "failed"
  /\ Poisons(c)
  /\ UNCHANGED <<lock, closer, voice, lost>>

\* The send or the interrupt fails, or abort_timeout is up.
SettlingFails(c) ==
  /\ call[c].at \in Settling
  /\ Poisons(c)
  /\ UNCHANGED <<lock, closer, voice, lost>>

\* The caller closes its stream or is cancelled.
Cancelled(c) ==
  \/ /\ call[c].at = "queued"
     /\ Moves(c, "ended")
     /\ \E i \in DOMAIN lock : lock[i] = c /\ lock' = RemoveAt(lock, i)
     /\ UNCHANGED <<owner, turn, codex, runtime, lost>>
  \/ /\ call[c].at = "starting"
     /\ Stops(c, owner)
     /\ UNCHANGED <<lock, turn, lost>>
  \/ /\ call[c].at \in {"sending", "reading"}
     /\ Settles(c)
     /\ UNCHANGED <<lock, codex, runtime, lost>>
  \/ /\ call[c].at \in Settling
     /\ Poisons(c)
     /\ UNCHANGED <<lock, lost>>
  \/ /\ call[c].at = "stopping" /\ owner.client  \* CancelledError is no Exception: the client stays
     /\ Leaves(c)
     /\ lost' = [lost EXCEPT !.cut = TRUE]
     /\ UNCHANGED <<owner, turn, codex, runtime>>

Cancel(c) == Cancelled(c) /\ UNCHANGED <<closer, voice>>

-----------------------------------------------------------------------------
(* _stop_runtime() and aclose().                                           *)

Stopping(x) == IF x = Closer THEN closer.at = "stopping" ELSE call[x].at = "stopping"

StopReturns(x) ==
  /\ Stopping(x)
  /\ lock' = Tail(lock)
  /\ IF x = Closer THEN closer' = [closer EXCEPT !.at = "done"] /\ UNCHANGED call
     ELSE Moves(x, "ended") /\ UNCHANGED closer

\* The process group has ended, or there was none.
Stopped(x) ==
  /\ StopReturns(x)
  /\ owner' = [owner EXCEPT !.client = FALSE]
  /\ runtime' = NoProcess
  /\ UNCHANGED <<turn, codex, voice, lost>>

\* Neither stop() nor force_stop() returns in time.  A turn that could not be settled safely
\* tries twice: Stopped is that one of the attempts succeeds, StopFails that none does.
StopFails(x) ==
  /\ StopReturns(x) /\ owner.client
  /\ owner' = [owner EXCEPT !.uncertain = TRUE]
  /\ UNCHANGED <<turn, codex, runtime, voice, lost>>

CloseBegins ==
  /\ closer.at = "none"
  /\ closer' = [closer EXCEPT !.at = "streams"]
  /\ owner' = [owner EXCEPT !.closed = TRUE]
  /\ UNCHANGED <<lock, call, turn, codex, runtime, voice, lost>>

\* _streams: the chats that have not ended.
Streams == {c \in Calls : call[c].kind = "chat" /\ call[c].at \notin {"none", "ended"}}

CloseCancels(c) ==
  /\ closer.at = "streams" /\ closer.awaits = NoCall /\ c \in Streams
  /\ Cancelled(c)
  /\ closer' = [closer EXCEPT !.awaits = c]
  /\ UNCHANGED voice

CloseAwaited ==
  /\ closer.at = "streams" /\ closer.awaits \notin Streams \cup {NoCall}
  /\ closer' = [closer EXCEPT !.awaits = NoCall]
  /\ UNCHANGED <<lock, owner, call, turn, codex, runtime, voice, lost>>

CloseQueues ==
  /\ closer.at = "streams" /\ closer.awaits = NoCall /\ Streams = {}
  /\ closer' = [closer EXCEPT !.at = "queued"]
  /\ lock' = Append(lock, Closer)
  /\ UNCHANGED <<owner, call, turn, codex, runtime, voice, lost>>

CloseStops ==
  /\ closer.at = "queued" /\ Holds(Closer)
  /\ closer' = [closer EXCEPT !.at = "stopping"]
  /\ Drops(owner)
  /\ UNCHANGED <<lock, call, turn, voice, lost>>

-----------------------------------------------------------------------------
(* The reader task of the transport and the events of the turn, on_event().*)

\* Slip: the queue of the turn has no bound.
PutAnyway(t, kind, n, first, last) ==
  [t EXCEPT !.queue = Append(@, [kind |-> kind, turn |-> n, first |-> first, last |-> last])]

Put(t, kind, n, first, last) ==
  IF Len(t.queue) = QueueSize THEN t
  ELSE [t EXCEPT !.queue = Append(@, [kind |-> kind, turn |-> n, first |-> first, last |-> last])]

Fails(t) == [Put(t, "error", 0, 0, 0) EXCEPT !.failed = TRUE]

OnError(t) == IF t.accepting THEN Fails(t) ELSE t

OnTool(t) == IF t.accepting THEN [Fails(t) EXCEPT !.safety = TRUE] ELSE t

OnIdle(t) == [IF t.accepting THEN Put(t, "done", 0, 0, 0) ELSE t EXCEPT !.idle = TRUE]

OnText(t, n, first, last) ==
  LET seen == [t EXCEPT !.seen = @ \cup {n}] IN
    IF ~t.accepting \/ n \in owner.retired THEN t
    ELSE IF Len(t.queue) = QueueSize THEN Fails(seen)
    ELSE Put(seen, "text", n, first, last)

\* An item that is completed is news only when it has come without deltas.
OnItem(t, n, last) == IF n \in t.seen THEN t ELSE OnText(t, n, 1, last)

HasHandler == \E c \in Calls : call[c].at \in Subscribed

\* What emit() does to the turn, when one has subscribed.
Emits(t) == turn' = IF HasHandler THEN t ELSE turn

Reads(kinds) ==
  /\ owner.session /\ codex.reader /\ runtime.lines # <<>>
  /\ Head(runtime.lines).kind \in kinds
  /\ runtime' = [runtime EXCEPT !.lines = Tail(@)]

\* The answer to a request that still waits for it.
ReadsAnswer ==
  LET line == Head(runtime.lines) IN
    /\ Reads({"answer", "reject", "stopped", "unstopped"})
    /\ turn' =
         IF line.kind \in {"answer", "reject"} /\ turn.sent = "pending"
           THEN [turn EXCEPT !.sent = IF line.kind = "answer" THEN "answered" ELSE "failed",
                             !.id = line.turn]
         ELSE IF line.kind \in {"stopped", "unstopped"} /\ turn.abort = "pending"
           THEN [turn EXCEPT !.abort = IF line.kind = "stopped" THEN "answered" ELSE "failed"]
         ELSE turn
    /\ UNCHANGED <<lock, owner, closer, call, codex, voice, lost>>

\* Slip: the turns that are over are not remembered.
TakenLate(line) == codex.turn \in {0, line.turn} \/ line.kind = "started"

\* notify() takes no line of a turn that is retired, nor one of another turn than the present.
Taken(line) ==
  /\ line.turn \notin codex.retired
  /\ codex.turn \in {0, line.turn} \/ line.kind = "started"

ReadsNotice ==
  LET line == Head(runtime.lines) IN
    /\ Reads({"started", "delta", "item", "tool", "completed", "failed", "error"})
    /\ IF ~Taken(line) THEN UNCHANGED <<turn, codex>>
       ELSE \/ /\ line.kind = "started"
               /\ codex' = [codex EXCEPT !.turn = line.turn]
               /\ UNCHANGED turn
            \/ /\ line.kind = "delta" /\ Emits(OnText(turn, line.turn, line.part, line.part))
               /\ UNCHANGED codex
            \/ /\ line.kind = "item" /\ Emits(OnItem(turn, line.turn, line.part))
               /\ UNCHANGED codex
            \/ /\ line.kind = "tool" /\ Emits(OnTool(turn))
               /\ UNCHANGED codex
            \/ /\ line.kind = "error" /\ Emits(OnError(turn))
               /\ UNCHANGED codex
            \/ /\ line.kind \in {"completed", "failed"}
               /\ Emits(OnIdle(IF line.kind = "failed" THEN OnError(turn) ELSE turn))
               /\ codex' = [codex EXCEPT !.turn = 0, !.retired = @ \cup {line.turn}]
    /\ UNCHANGED <<lock, owner, closer, call, voice, lost>>

\* The end of the output, a line that is no message, or a denial of what the process asks
\* for that cannot be written.  (A denial that is written changes nothing.)
ReaderEnds ==
  LET failed == [turn EXCEPT !.sent = IF @ = "pending" THEN "failed" ELSE @,
                             !.abort = IF @ = "pending" THEN "failed" ELSE @] IN
    /\ owner.session /\ codex.reader
    /\ codex' = [codex EXCEPT !.reader = FALSE]
    /\ turn' = IF HasHandler THEN OnError(failed) ELSE failed
    /\ \E alive \in BOOLEAN :
         runtime' = [runtime EXCEPT !.alive = alive, !.requests = <<>>, !.lines = <<>>]
    /\ UNCHANGED <<lock, owner, closer, call, voice, lost>>

-----------------------------------------------------------------------------
(* External: the Codex process.                                            *)

Line0(kind, t, n) == [kind |-> kind, turn |-> t, part |-> n]

Writes(r, lines) ==
  /\ owner.session /\ codex.reader /\ Len(runtime.lines) < PipeCap
  /\ runtime' = [r EXCEPT !.lines = runtime.lines \o lines]
  /\ UNCHANGED <<lock, owner, closer, call, turn, codex, voice, lost>>

NextRequest(kind) == runtime.requests # <<>> /\ Head(runtime.requests).kind = kind
Handled == [runtime EXCEPT !.requests = Tail(@)]

\* The prompt adds to the thread or replaces it, and a turn starts.
RuntimeStarts ==
  LET request == Head(runtime.requests)
      n == runtime.made + 1
      started == [Handled EXCEPT !.made = n, !.running = n, !.said = 0,
                    !.thread = IF request.replace THEN request.messages ELSE @ \o request.messages]
      lines == <<Line0("answer", n, 0), Line0("started", n, 0)>> IN
    /\ NextRequest("start")
    /\ Writes(started, lines) \/ Writes(started, Reverse(lines))

RuntimeRejects == NextRequest("start") /\ Writes(Handled, <<Line0("reject", 0, 0)>>)

RuntimeSpeaks ==
  /\ runtime.running # 0 /\ runtime.said < MaxDeltas
  /\ Writes([runtime EXCEPT !.said = @ + 1],
            <<Line0("delta", runtime.running, runtime.said + 1)>>)

\* The turn is over; what was said of its reply stays in the thread.
Over(r, said) ==
  [r EXCEPT !.running = 0, !.said = 0, !.thread = IF said = 0 THEN @ ELSE Append(@, said)]

\* With the whole reply, which may not have come in parts.
RuntimeCompletes ==
  LET t == runtime.running IN
    /\ t # 0
    /\ \E said \in IF runtime.said = 0 THEN 0..MaxParts ELSE {runtime.said} :
         Writes(Over(runtime, said),
                (IF said = 0 THEN <<>> ELSE <<Line0("item", t, said)>>)
                  \o <<Line0("completed", t, 0)>>)

RuntimeFails ==
  /\ runtime.running # 0
  /\ \/ Writes(Over(runtime, runtime.said), <<Line0("failed", runtime.running, 0)>>)
     \/ Writes(runtime, <<Line0("error", runtime.running, 0)>>)

\* An interrupt that finds its turn over may be rejected.
RuntimeInterrupts ==
  LET t == Head(runtime.requests).turn IN
    /\ NextRequest("interrupt")
    /\ \/ /\ runtime.running = t
          /\ Writes(Over(Handled, runtime.said),
                    <<Line0("stopped", t, 0), Line0("completed", t, 0)>>)
       \/ /\ runtime.running # t
          /\ \E kind \in {"stopped", "unstopped"} : Writes(Handled, <<Line0(kind, t, 0)>>)

RuntimeUsesTool ==
  /\ runtime.running # 0
  /\ Writes(runtime, <<Line0("tool", runtime.running, 0)>>)

\* A line of a turn that is over.
RuntimeIsLate ==
  \E t \in 1..runtime.made : t # runtime.running /\ Writes(runtime, <<Line0("delta", t, 1)>>)

-----------------------------------------------------------------------------
Preflight(c) ==
  \/ Returns(c) \/ FindsNoBinary(c) \/ StartsRuntime(c) \/ Relaunches(c) \/ Attests(c)
  \/ Lists(c) \/ OpensThread(c) \/ PreflightFails(c)

TurnStep(c) ==
  \/ PromptRefused(c) \/ BeginsTurn(c) \/ SendReturns(c) \/ TurnFails(c) \/ ReadsText(c)
  \/ ReadsDone(c) \/ Interrupts(c) \/ InterruptReturns(c) \/ IsIdle(c) \/ SettlingFails(c)

StopStep(x) == Stopped(x) \/ StopFails(x)

CloseStep ==
  \/ \E c \in Calls : CloseCancels(c)
  \/ CloseAwaited \/ CloseQueues \/ CloseStops \/ StopStep(Closer)

CallerStep(c) ==
  Chats(c) \/ (\E kind \in {"validate", "models"} : Asks(c, kind)) \/ Commits(c) \/ Cancel(c)

ReaderStep == ReadsAnswer \/ ReadsNotice \/ ReaderEnds

RuntimeStep ==
  \/ RuntimeStarts \/ RuntimeRejects \/ RuntimeSpeaks \/ RuntimeCompletes \/ RuntimeFails
  \/ RuntimeInterrupts \/ RuntimeUsesTool \/ RuntimeIsLate

Next ==
  \/ \E c \in Calls : CallerStep(c) \/ Preflight(c) \/ TurnStep(c) \/ StopStep(c)
  \/ CloseBegins \/ CloseStep \/ ReaderStep \/ RuntimeStep

Spec == Init /\ [][Next]_vars

AdapterStep ==
  \/ \E c \in Calls : Preflight(c) \/ TurnStep(c) \/ StopStep(c)
  \/ CloseStep

\* Every wait of the adapter has a timeout, also the one for the process to stop; nothing is
\* assumed of the callers, of the reader or of the process.
FairSpec == Spec /\ WF_vars(AdapterStep)

-----------------------------------------------------------------------------
(* Properties.                                                             *)

\* A caller hears the parts of its own reply, from the first, in order and without a gap:
\* nothing of an earlier turn that is late, nothing twice (notify, on_event).
RepliesStayInTurn ==
  \A c \in Calls : call[c].at \in Subscribed =>
    \A i \in DOMAIN call[c].heard : call[c].heard[i] = <<turn.before + 1, i>>

\* The runtime answers exactly the conversation of the caller: a delta is only sent when the
\* runtime's thread and the context agree on all that came before (_run, _history).
PromptsAddUp ==
  \A c \in Calls : call[c].at \in Subscribed /\ runtime.running # 0 =>
    runtime.thread = call[c].context

\* A prompt is sent when every earlier turn is over in the runtime and in the transport, so
\* that a runtime that is reused has nothing left of an interrupted turn (_run, abort).
SettledBeforeReuse ==
  NextRequest("start") =>
    /\ runtime.running = 0 /\ codex.turn = 0
    /\ codex.retired = 1..runtime.made

\* A process that lives has an adapter that will stop it: between two calls it is ready for
\* use, and after aclose() it is gone, unless it cannot be stopped.  A process is forgotten
\* only when a task is cancelled again while it stops the runtime (_stop_runtime).  After a
\* turn whose end is unknown nothing is started or sent (_check_open).
RuntimeIsOwned ==
  /\ runtime.alive => owner.client
  /\ lock = <<>> /\ owner.client => owner.session \/ owner.uncertain \/ lost.cut
  /\ closer.at = "done" => ~runtime.alive \/ owner.uncertain
  /\ lost.forgotten => lost.cut
  /\ owner.uncertain => \A c \in Calls : call[c].at \notin {"starting", "ready"} \cup Subscribed

\* Every call returns and aclose() completes, whatever the process does or does not do.
EverythingEnds == []<>(lock = <<>> /\ closer.at \in {"none", "done"})
=============================================================================
