---------------------------- MODULE BrowserPage -----------------------------
(***************************************************************************)
(* The page of the web UI that owns a conversation (web/src/useStudio.ts): *)
(* its references and flags, the start()s that are under way, end(), the   *)
(* heartbeat, the polls of the status, and its LiveKit connection.  The    *)
(* code between two awaits is one action; an answer is read some time      *)
(* after the broker has handled the request, or it is lost.                *)
(***************************************************************************)
EXTENDS BrokerSlot

CONSTANTS
  MaxStarts   \* bound on the calls of start() that post in one behaviour

ASSUME PageConstants == MaxStarts \in Nat

VARIABLES
  page,   \* the refs of the hook and the room's connection
  start,  \* each call of start()
  ender,  \* the answer to the call of end() that is under way, "none" without one
  beat    \* the session whose heartbeat was refused, which the page has not read yet, 0 for none

browser == <<page, start, ender, beat>>

Starts == 1..MaxStarts

\* A request is granted or refused, and it counts as refused when there is no answer.
Code == {"none", "sent", "ok", "refused"}

Page == [open    : BOOLEAN,
         grant   : 0..MaxOwners,   \* grantRef and grant, 0 for null
         busy    : BOOLEAN,
         closing : BOOLEAN,        \* closing and ending
         release : BOOLEAN,        \* releaseRequested
         idle    : BOOLEAN,        \* online, and the last status has the phase "idle"
         joined  : 0..MaxOwners,   \* the session whose room is connected
         posted  : 0..MaxStarts]   \* the starts so far

NewPage == [open |-> TRUE, grant |-> 0, busy |-> FALSE, closing |-> FALSE, release |-> FALSE,
            idle |-> FALSE, joined |-> 0, posted |-> 0]
NoStart == [at |-> "none", code |-> "none", id |-> 0]

PageTypeOK ==
  /\ page \in Page
  /\ start \in [Starts -> [at : {"none", "posting", "joining", "ending"},
                           code : Code, id : 0..MaxOwners]]
  /\ ender \in Code
  /\ beat \in 0..MaxOwners

PageInit ==
  /\ page = NewPage
  /\ start = [s \in Starts |-> NoStart]
  /\ ender = "none"
  /\ beat = 0

-----------------------------------------------------------------------------
(* end().                                                                  *)

\* What end() does before its first await.  disconnect() makes a connect() that has begun fail,
\* not one that begins later; the broker ends the session, unless it does not hear of it.
Ends ==
  /\ page.grant # 0 /\ ~page.closing
  /\ page' = [page EXCEPT !.closing = TRUE, !.release = TRUE, !.joined = 0]
  /\ \/ Owns(page.grant) /\ slot' = Ended /\ ender' = "ok"
     \/ UNCHANGED slot /\ ender' = "refused"

\* With no session to tell the broker of, end() is over when the room is left.  Capture has
\* stopped before that is awaited, so that leaving the room is part of the step.
EndsNothing ==
  /\ page.grant = 0 /\ ~page.closing
  /\ page' = [page EXCEPT !.release = TRUE, !.joined = 0, !.busy = FALSE]
  /\ UNCHANGED <<slot, ender>>

\* The handler of Disconnected leaves to others an end and a start that are under way.
EndsWhenDropped == page.grant # 0 /\ ~page.closing /\ ~page.busy

\* The button is there while the page has a session.
ClicksEnd ==
  /\ page.open
  /\ Ends
  /\ UNCHANGED <<start, beat>>

\* The session is let go when the broker confirms; else its reference stays for another try.
EndingReturns ==
  /\ page.open /\ ender # "none"
  /\ page' = [page EXCEPT !.grant = IF ender = "ok" THEN 0 ELSE @,
                          !.idle = @ /\ ender = "refused",
                          !.busy = FALSE, !.closing = FALSE]
  /\ ender' = "none"
  /\ UNCHANGED <<slot, start, beat>>

-----------------------------------------------------------------------------
(* start().                                                                *)

ClicksStart(s) ==
  /\ page.open /\ s = page.posted + 1
  /\ ~page.busy /\ page.grant = 0 /\ page.idle
  /\ page' = [page EXCEPT !.busy = TRUE, !.release = FALSE, !.posted = @ + 1]
  /\ start' = [start EXCEPT ![s] = [at |-> "posting", code |-> "sent", id |-> 0]]
  /\ UNCHANGED <<slot, ender, beat>>

\* The broker starts the session even when nobody waits for the answer any more.
ServesStart(s) ==
  /\ start[s].code = "sent"
  /\ IF CanCreate
       THEN /\ slot' = Created("room")
            /\ start' = [start EXCEPT ![s].code = "ok", ![s].id = slot'.owner]
       ELSE start' = [start EXCEPT ![s].code = "refused"] /\ UNCHANGED slot
  /\ UNCHANGED <<page, ender, beat>>

StartGranted(s) ==
  /\ page.open /\ start[s].at = "posting" /\ start[s].code = "ok"
  /\ page' = [page EXCEPT !.grant = start[s].id]
  /\ start' = [start EXCEPT ![s].at = "joining", ![s].code = "none"]
  /\ UNCHANGED <<slot, ender, beat>>

\* Slip: what was let go while connect() was under way is not looked at.
JoinsAnyway(s) ==
  /\ page.open /\ start[s].at = "joining"
  /\ start' = [start EXCEPT ![s] = NoStart]
  /\ page' = [page EXCEPT !.busy = FALSE, !.joined = IF @ = 0 THEN start[s].id ELSE @]
  /\ UNCHANGED <<slot, ender, beat>>

\* connect() returns, to the room that is connected already if there is one, and the finally
\* clause is next.  A session that was let go meanwhile is left, which may end it once more.
Joins(s) ==
  /\ page.open /\ start[s].at = "joining"
  /\ start' = [start EXCEPT ![s] = NoStart]
  /\ \/ /\ page.grant # 0 /\ ~page.release
        /\ page' = [page EXCEPT !.busy = FALSE, !.joined = IF @ = 0 THEN start[s].id ELSE @]
        /\ UNCHANGED <<slot, ender>>
     \/ page.release /\ EndsWhenDropped /\ Ends
     \/ /\ page.grant = 0 \/ page.release
        /\ ~EndsWhenDropped
        /\ page' = [page EXCEPT !.busy = FALSE, !.joined = 0]
        /\ UNCHANGED <<slot, ender>>
  /\ UNCHANGED beat

\* The request is refused or not answered, or connect() fails: start() awaits end(), which
\* returns at once when another one is under way.
StartFails(s) ==
  /\ page.open
  /\ \/ start[s].at = "joining"
     \/ start[s].at = "posting" /\ start[s].code = "refused"
  /\ \/ Ends /\ start' = [start EXCEPT ![s] = [NoStart EXCEPT !.at = "ending"]]
     \/ EndsNothing /\ start' = [start EXCEPT ![s] = NoStart]
     \/ /\ page.closing
        /\ page' = [page EXCEPT !.busy = FALSE] /\ UNCHANGED <<slot, ender>>
        /\ start' = [start EXCEPT ![s] = NoStart]
  /\ UNCHANGED beat

\* Its finally clause, which resets busy even when another start() has begun meanwhile.
StartOver(s) ==
  /\ page.open /\ start[s].at = "ending" /\ ender = "none"
  /\ page' = [page EXCEPT !.busy = FALSE]
  /\ start' = [start EXCEPT ![s] = NoStart]
  /\ UNCHANGED <<slot, ender, beat>>

-----------------------------------------------------------------------------
(* The heartbeat, the status, and the connection.                          *)

\* Nothing comes of a heartbeat that is granted or lost.
Beats ==
  /\ page.open /\ page.grant # 0 /\ ~page.closing /\ ~page.release
  /\ beat = 0
  /\ beat' = IF MayBeat(page.grant) THEN 0 ELSE page.grant
  /\ slot' = IF MayBeat(page.grant) THEN Beaten ELSE slot
  /\ UNCHANGED <<page, start, ender>>

\* Slip: a refusal is taken for a broker that cannot be reached.
BeatReturnsUnread ==
  /\ page.open /\ beat # 0
  /\ beat' = 0
  /\ UNCHANGED <<slot, page, start, ender>>

\* A refusal means that the session is not the page's any more, unless it is of one before.  An
\* end() stops the heartbeat for good, so that its answer is not read after a refused end().
BeatReturns ==
  /\ page.open /\ beat # 0
  /\ IF ~page.release /\ page.grant = beat
       THEN page' = [page EXCEPT !.grant = 0, !.joined = 0]
       ELSE UNCHANGED page
  /\ beat' = 0
  /\ UNCHANGED <<slot, start, ender>>

\* refresh(): the phase, which may change as soon as it is read, or no answer.  Only a start
\* looks at it, so that what is read at other times is left out.
Refreshes ==
  /\ page.open /\ page.grant = 0 /\ ~page.busy
  /\ \E idle \in {slot.phase = "idle", FALSE} : page' = [page EXCEPT !.idle = idle]
  /\ UNCHANGED <<slot, start, ender, beat>>

\* The room is deleted or the network fails.
ConnectionLost ==
  /\ page.open /\ page.joined # 0
  /\ EndsWhenDropped /\ Ends
  /\ UNCHANGED <<start, beat>>

\* The answer to a start or to an end is lost, or too late; or the request for a start is.
LosesAnswer ==
  /\ page.open
  /\ \/ /\ \E s \in Starts : /\ start[s].code \in {"sent", "ok"}
                             /\ start' = [start EXCEPT ![s].code = "refused"]
        /\ UNCHANGED ender
     \/ ender = "ok" /\ ender' = "refused" /\ UNCHANGED start
  /\ UNCHANGED <<slot, page, beat>>

\* pagehide: the page is gone, and the broker hears of it or not.  A start that is on its way
\* is still handled.
Hides ==
  /\ page.open
  /\ page' = [NewPage EXCEPT !.open = FALSE, !.posted = page.posted]
  /\ slot' \in {slot, IF Owns(page.grant) THEN Ended ELSE slot}
  /\ start' = [s \in Starts |-> IF start[s].code = "sent" THEN start[s] ELSE NoStart]
  /\ ender' = "none" /\ beat' = 0

PageStep ==
  \/ ClicksEnd \/ EndingReturns \/ Beats \/ BeatReturns \/ Refreshes
  \/ ConnectionLost \/ LosesAnswer \/ Hides
  \/ \E s \in Starts : ClicksStart(s) \/ StartGranted(s) \/ Joins(s) \/ StartFails(s) \/ StartOver(s)

ServesPage == \E s \in Starts : ServesStart(s)
=============================================================================
