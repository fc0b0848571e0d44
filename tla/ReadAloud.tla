----------------------------- MODULE ReadAloud ------------------------------
(***************************************************************************)
(* The narrator (tools/read_aloud.py): commands that read a finished reply *)
(* aloud, each a process of its own.  They share a directory: the ledger   *)
(* of notifications under one file lock, the narration lock, and the       *)
(* control socket.  A command holds the broker's slot while its speech is  *)
(* made and played, polls it, and gives it back.  Any process may be       *)
(* killed at any step; the system then frees its file locks.               *)
(***************************************************************************)
EXTENDS BrokerSlot, Sequences, SequencesExt

CONSTANTS
  MaxCommands,    \* bound on the processes that narrate, each used once
  Turns,          \* finished turns of the coding agent that notify
  NoTurn,         \* no turn
  LedgerSize,     \* the receipts that are kept
  ApiTicks,       \* how long a request may take
  NarrationTicks  \* how long speak() may take

ASSUME NarrationConstants ==
  /\ NoTurn \notin Turns
  /\ MaxCommands \in Nat \ {0} /\ {LedgerSize, ApiTicks, NarrationTicks} \subseteq Nat

\* The limits of the narrator (8 s, 80 s) against those of the broker (45 s, 90 s): up to three
\* requests lie between two polls of the status that the broker has heard.
ASSUME TimeLimits ==
  /\ 3 * ApiTicks <= HeartbeatTicks
  /\ NarrationTicks <= AuditionTicks

VARIABLES
  command,   \* each process
  files,     \* the shared directory
  attempts   \* history: how often the narration of a turn was begun

narration == <<command, files, attempts>>

Commands == 1..MaxCommands
Nobody == 0

Stoppable == {"asking", "waiting", "fetching", "playing"}
Speaking == Stoppable \cup {"leaving", "stopping", "ending"}
Alive == Speaking \cup {"admitting", "admitted", "unmuted", "claiming"}

Command == [at : Alive \cup {"none", "over"},
            turn : Turns \cup {NoTurn},    \* the turn it asks to be admitted for
            stop : BOOLEAN,
            handle : 0..MaxOwners,
            playing : BOOLEAN,             \* the player thread writes to the device
            call : {"none", "sent", "ok", "later", "refused"},
            waited : 0..ApiTicks,          \* time of this request
            spent : 0..NarrationTicks]     \* time of speak()

Files == [ledger : Seq(Turns),
          admission : Commands \cup {Nobody},  \* notification.lock
          lock : Commands \cup {Nobody},       \* narration.lock
          socket : Commands \cup {Nobody}]     \* who made read-aloud.sock

NarrationTypeOK ==
  /\ command \in [Commands -> Command]
  /\ files \in Files
  /\ Len(files.ledger) <= LedgerSize
  /\ attempts \in [Turns -> Nat]

NewCommand == [at |-> "none", turn |-> NoTurn, stop |-> FALSE, handle |-> 0, playing |-> FALSE,
               call |-> "none", waited |-> 0, spent |-> 0]

NarrationInit ==
  /\ command = [n \in Commands |-> NewCommand]
  /\ files = [ledger |-> <<>>, admission |-> Nobody, lock |-> Nobody, socket |-> Nobody]
  /\ attempts = [t \in Turns |-> 0]

\* The command goes on at another place, with a request or without one, or it is over.
Goes(n, at) == command' = [command EXCEPT ![n].at = at, ![n].call = "none", ![n].waited = 0]
Requests(n, at) == command' = [command EXCEPT ![n].at = at, ![n].call = "sent", ![n].waited = 0]
IsOver(n) == command' = [command EXCEPT ![n] = [NewCommand EXCEPT !.at = "over"]]

\* The processes begin in the order of their numbers.
Begins(n) == command[n].at = "none" /\ \A m \in 1..n - 1 : command[m].at # "none"

-----------------------------------------------------------------------------
(* The notification and its receipt.                                       *)

\* Slip: the receipts are read without the lock.
NotifiesUnlocked(n, t) ==
  /\ Begins(n)
  /\ IF ~Contains(files.ledger, t)
       THEN /\ command' = [command EXCEPT ![n].at = "admitting", ![n].turn = t]
            /\ files' = [files EXCEPT !.admission = n]
       ELSE IsOver(n) /\ UNCHANGED files
  /\ UNCHANGED <<slot, attempts>>

\* reserve_notification(): another one that is being admitted refuses it, and so does the
\* receipt of its turn.
Notifies(n, t) ==
  /\ Begins(n)
  /\ IF files.admission = Nobody /\ ~Contains(files.ledger, t)
       THEN /\ command' = [command EXCEPT ![n].at = "admitting", ![n].turn = t]
            /\ files' = [files EXCEPT !.admission = n]
       ELSE IsOver(n) /\ UNCHANGED files
  /\ UNCHANGED <<slot, attempts>>

\* The receipt is on disk before the narration begins: at most one attempt.
Admits(n) ==
  LET t == command[n].turn
      kept == Append(files.ledger, t) IN
    /\ command[n].at = "admitting"
    /\ command' = [command EXCEPT ![n].at = "admitted", ![n].turn = NoTurn]
    /\ files' = [files EXCEPT !.admission = Nobody,
                   !.ledger = IF Len(kept) > LedgerSize THEN Tail(kept) ELSE kept]
    /\ attempts' = [attempts EXCEPT ![t] = @ + 1]
    /\ UNCHANGED slot

\* "speak" has no receipt.
Speaks(n) ==
  /\ Begins(n)
  /\ Goes(n, "admitted")
  /\ UNCHANGED <<slot, files, attempts>>

-----------------------------------------------------------------------------
(* run_narration() around speak().                                         *)

\* Whether the file of "mute" is there is left open.
ChecksMute(n) ==
  /\ command[n].at = "admitted"
  /\ IsOver(n) \/ Goes(n, "unmuted")
  /\ UNCHANGED <<slot, files, attempts>>

TakesLock(n) ==
  /\ command[n].at = "unmuted"
  /\ IF files.lock = Nobody THEN Goes(n, "claiming") /\ files' = [files EXCEPT !.lock = n]
     ELSE IsOver(n) /\ UNCHANGED files
  /\ UNCHANGED <<slot, attempts>>

\* A process that listens at the socket of its own.
Listening(n) == n # Nobody /\ command[n].at \in Speaking

\* A socket that is there is of a process that was killed, for who listens has the lock.
OpensSocket(n) ==
  /\ command[n].at = "claiming"
  /\ ~Listening(files.socket)
  /\ Goes(n, "asking")
  /\ files' = [files EXCEPT !.socket = n]
  /\ UNCHANGED <<slot, attempts>>

\* The socket goes before the lock.
CloseSocket(n) ==
  files' = [files EXCEPT !.socket = IF @ = n THEN Nobody ELSE @, !.lock = Nobody]

-----------------------------------------------------------------------------
(* speak().                                                                *)

Answered(n, at) == command[n].at = at /\ command[n].call = "sent"

Answers(n, reply) == command' = [command EXCEPT ![n].call = reply]

\* The broker creates the audition; the answer, which may be lost, names it.
ServesAsk(n) ==
  /\ Answered(n, "asking")
  /\ IF CanCreate
       THEN /\ slot' = Created("audition")
            /\ \/ command' = [command EXCEPT ![n].call = "ok", ![n].handle = slot'.owner]
               \/ Answers(n, "refused")
       ELSE Answers(n, "refused") /\ UNCHANGED slot
  /\ UNCHANGED <<files, attempts>>

\* Slip: asking for the status is not a heartbeat.
ServesPollUnheard(n) ==
  LET id == command[n].handle IN
    /\ \E at \in {"waiting", "playing"} : Answered(n, at)
    /\ Answers(n, IF ~Owns(id) \/ slot.phase \in {"draining", "blocked"} THEN "refused"
                  ELSE IF slot.held THEN "ok" ELSE "later")
    /\ UNCHANGED <<slot, files, attempts>>

\* "ok" for a sample that is ready and held, "later" for one in the making.
ServesPoll(n) ==
  LET id == command[n].handle IN
    /\ \E at \in {"waiting", "playing"} : Answered(n, at)
    /\ slot' = AuditionSeen(id)
    /\ Answers(n, IF ~Owns(id) \/ slot.phase \in {"draining", "blocked"} THEN "refused"
                  ELSE IF slot.held THEN "ok" ELSE "later")
    /\ UNCHANGED <<files, attempts>>

ServesAudio(n) ==
  /\ Answered(n, "fetching")
  /\ Answers(n, IF AudioReady(command[n].handle) THEN "ok" ELSE "refused")
  /\ UNCHANGED <<slot, files, attempts>>

ServesEnd(n) ==
  /\ Answered(n, "ending")
  /\ slot' = IF Owns(command[n].handle) THEN Ended ELSE slot
  /\ Answers(n, "ok")
  /\ UNCHANGED <<files, attempts>>

Got(n, at, reply) == command[n].at = at /\ command[n].call = reply

\* Unless it is to stop, an answer leads to the next request: the audition, its status until
\* the sample is ready, the sample, and its status while it plays.
Continues(n) ==
  /\ ~command[n].stop
  /\ \/ Got(n, "asking", "none") /\ Requests(n, "asking")
     \/ (Got(n, "asking", "ok") \/ Got(n, "waiting", "later")) /\ Requests(n, "waiting")
     \/ Got(n, "waiting", "ok") /\ Requests(n, "fetching")
     \/ (Got(n, "playing", "none") \/ Got(n, "playing", "ok")) /\ Requests(n, "playing")
  /\ UNCHANGED <<slot, files, attempts>>

StartsPlayer(n) ==
  /\ Got(n, "fetching", "ok")
  /\ command' = [command EXCEPT ![n].at = "playing", ![n].call = "none", ![n].waited = 0,
                                ![n].playing = TRUE]
  /\ UNCHANGED <<slot, files, attempts>>

\* Stop is asked for, the clip is over, a request is refused or has no answer in time, or the
\* time of the narration is up.  Without an answer the audition has no handle.
Leaves(n) ==
  LET c == command[n] IN
    /\ c.at \in Stoppable
    /\ c.stop \/ c.at = "playing" \/ c.call # "none" \/ c.spent = NarrationTicks
    /\ command' = [command EXCEPT ![n] = [c EXCEPT !.at = "leaving", !.call = "none", !.waited = 0,
                                                   !.stop = FALSE]]
    /\ UNCHANGED <<slot, files, attempts>>

\* The player is told to stop and awaited, and only then the slot is given back.
PlayerStops(n) ==
  LET c == command[n] IN
    /\ c.at = "leaving"
    /\ command' = [command EXCEPT ![n] = [c EXCEPT !.playing = FALSE, !.spent = 0,
                     !.at = IF c.handle = 0 THEN "stopping" ELSE "ending",
                     !.call = IF c.handle = 0 THEN "none" ELSE "sent"]]
    /\ UNCHANGED <<slot, files, attempts>>

\* The answer to the end, or none.
EndReturns(n) ==
  /\ command[n].at = "ending" /\ command[n].call # "none"
  /\ Goes(n, "stopping")
  /\ UNCHANGED <<slot, files, attempts>>

Finishes(n) ==
  /\ command[n].at = "stopping"
  /\ IsOver(n)
  /\ CloseSocket(n)
  /\ UNCHANGED <<slot, attempts>>

-----------------------------------------------------------------------------
(* The other commands, and the end of a process.                           *)

\* stop_speaking(), of "stop-speaking" and of "mute": whoever listens at the socket is asked to
\* stop, which one that is leaving does anyway.
StopSpeaking ==
  /\ Listening(files.socket)
  /\ command[files.socket].at \in Stoppable
  /\ command' = [command EXCEPT ![files.socket].stop = TRUE]
  /\ UNCHANGED <<slot, files, attempts>>

Killed(n) ==
  /\ command[n].at \in Alive
  /\ IsOver(n)
  /\ files' = [files EXCEPT !.admission = IF @ = n THEN Nobody ELSE @,
                            !.lock = IF @ = n THEN Nobody ELSE @]
  /\ UNCHANGED <<slot, attempts>>

NarratorStep(n) ==
  \/ (\E t \in Turns : Notifies(n, t)) \/ Admits(n) \/ Speaks(n) \/ ChecksMute(n)
  \/ TakesLock(n) \/ OpensSocket(n) \/ Continues(n) \/ StartsPlayer(n)
  \/ Leaves(n) \/ PlayerStops(n) \/ EndReturns(n) \/ Finishes(n) \/ Killed(n)

ServesNarrator(n) == ServesAsk(n) \/ ServesPoll(n) \/ ServesAudio(n) \/ ServesEnd(n)

\* Slip: a request has no timeout.
PunctualAtLast(n) ==
  LET c == command[n] IN
    c.at \in Speaking =>
      /\ c.call # "none"
      /\ c.at = "ending" \/ c.spent < NarrationTicks

\* A request is answered or given up in its time, and speak() ends in its own; what is
\* between two requests takes no time next to that.
Punctual(n) ==
  LET c == command[n] IN
    c.at \in Speaking =>
      /\ c.call # "none" /\ c.waited < ApiTicks
      /\ c.at = "ending" \/ c.spent < NarrationTicks

CommandAfterTick(n) ==
  IF command[n].at \in Speaking
    THEN [command[n] EXCEPT !.waited = @ + 1,
                            !.spent = IF command[n].at = "ending" THEN @ ELSE @ + 1]
    ELSE command[n]
=============================================================================
