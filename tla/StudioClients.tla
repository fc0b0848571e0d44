--------------------------- MODULE StudioClients ----------------------------
(***************************************************************************)
(* The clients of the broker together: a page of the web UI and commands   *)
(* of the narrator that want the same slot, and the clock that the time    *)
(* limits of the broker and of the narrator are counted by.                *)
(***************************************************************************)
EXTENDS BrowserPage, ReadAloud

CONSTANTS
  MaxClients  \* bound on the starts and narrations together

ASSUME ClientConstants == MaxClients \in Nat

vars == <<slot, page, start, ender, beat, command, files, attempts>>

ClientsTypeOK == slot \in Slot /\ PageTypeOK /\ NarrationTypeOK

Init == SlotInit /\ PageInit /\ NarrationInit

Clients == page.posted + Cardinality({n \in Commands : command[n].at # "none"})

Broker == BrokerStep /\ UNCHANGED <<browser, narration>>
PageDoes == PageStep /\ UNCHANGED narration /\ Clients' <= MaxClients
PageServed == ServesPage /\ UNCHANGED narration
NarratorDoes == (\E n \in Commands : NarratorStep(n)) /\ UNCHANGED browser /\ Clients' <= MaxClients
NarratorServed == (\E n \in Commands : ServesNarrator(n)) /\ UNCHANGED browser
OtherCommand == StopSpeaking /\ UNCHANGED browser

Tick ==
  /\ \A n \in Commands : Punctual(n)
  /\ slot' = SlotAfterTick
  /\ command' = [n \in Commands |-> CommandAfterTick(n)]
  /\ UNCHANGED <<browser, files, attempts>>

Next ==
  \/ Broker \/ PageDoes \/ PageServed \/ NarratorDoes \/ NarratorServed \/ OtherCommand
  \/ Tick

Spec == Init /\ [][Next]_vars

\* Time goes on, the broker's watchdog and drains do, requests are handled and the programs
\* run; what a user does, and whether an answer arrives, is not assumed.
FairSpec ==
  /\ Spec
  /\ WF_vars(Tick)
  /\ WF_vars((Expires \/ Drains \/ DrainFails) /\ UNCHANGED <<browser, narration>>)
  /\ WF_vars(PageServed)
  /\ WF_vars(NarratorServed)
  /\ WF_vars(NarratorDoes)
  /\ WF_vars((EndingReturns \/ BeatReturns) /\ UNCHANGED narration)
  /\ WF_vars(Beats /\ UNCHANGED narration)

-----------------------------------------------------------------------------
\* A narration is heard only while it holds the broker's slot, so that no room has capture
\* then, and Stop reaches it: it listens at the socket (speak, run_narration, end).
NarrationHoldsSlot ==
  \A n \in Commands : command[n].playing =>
    /\ Owns(command[n].handle) /\ slot.held
    /\ files.socket = n /\ files.lock = n

\* A narration of a turn begins only when no recent one has, whatever was killed meanwhile.
AtMostOneAttempt ==
  [][\A t \in Turns : attempts'[t] # attempts[t] => ~Contains(files.ledger, t)]_vars

\* A page that is in a room has a session that it can end, whatever ran across each other.
CaptureHasOwner == page.joined # 0 => page.open /\ page.grant # 0 /\ ~page.closing

Holds(id) ==
  \/ page.open /\ page.grant = id
  \/ page.open /\ \E s \in Starts : start[s].at = "posting" /\ start[s].id = id
  \/ \E n \in Commands : command[n].at \in Alive /\ command[n].handle = id

\* end() came after the broker had let the session go: neither a heartbeat nor a start follows.
EndedTooLate == page.release /\ ~page.closing

\* A session that nobody holds is freed, unless its drain fails; and a page lets go of a
\* session that the broker has given up, unless its end() was too late.
SessionsAreLetGo ==
  /\ (slot.owner # 0 /\ ~Holds(slot.owner)) ~>
       (slot.owner = 0 \/ Holds(slot.owner) \/ slot.phase = "blocked")
  /\ (page.open /\ page.grant # 0 /\ ~Owns(page.grant)) ~>
       (~page.open \/ page.grant = 0 \/ Owns(page.grant) \/ EndedTooLate)
=============================================================================
