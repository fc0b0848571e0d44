------------------------ MODULE StudioClients_proofs -------------------------
(***************************************************************************)
(* Proofs about the clients of the broker, for any number of sessions,     *)
(* starts, commands and turns and any time limits that TimeLimits allows:  *)
(* the inductive invariant, and the safety properties that follow from it. *)
(***************************************************************************)
EXTENDS StudioClients, TLAPS

-----------------------------------------------------------------------------
(* The inductive invariant.                                                *)

\* Who owns the slot, and whom a client takes for the owner, has been made.
IdsAreMade ==
  /\ slot.owner <= slot.made
  /\ page.grant <= slot.made
  /\ \A s \in Starts : start[s].id <= slot.made
  /\ \A n \in Commands : command[n].handle <= slot.made

\* The handle of a narration is known to no other command and to no page.
HandlesDiffer ==
  \A n \in Commands : command[n].handle # 0 =>
    /\ \A m \in Commands \ {n} : command[m].handle # command[n].handle
    /\ page.grant # command[n].handle
    /\ \A s \in Starts : start[s].id # command[n].handle

PlaybackIsActive == slot.held => slot.phase = "active"

\* end() is under way when its answer is, and only with a session; a start that is granted has one.
PageInv ==
  /\ CaptureHasOwner
  /\ ender # "none" => page.closing
  /\ page.closing => page.grant # 0 /\ page.release
  /\ \A s \in Starts : start[s].code = "ok" => start[s].id # 0

\* While a notification is admitted no other is, and its turn has no receipt.
Admission(n) ==
  command[n].at = "admitting" =>
    /\ files.admission = n
    /\ command[n].turn \in Turns
    /\ ~Contains(files.ledger, command[n].turn)

\* Who speaks has the lock and the socket; others have no handle.  Without a request no time
\* passes, and none is open while the player is awaited.
Locks(n) ==
  /\ command[n].at \in Speaking \cup {"claiming"} => files.lock = n
  /\ IF command[n].at \in Speaking THEN files.socket = n ELSE command[n].handle = 0
  /\ command[n].playing => command[n].at \in {"playing", "leaving"}
  /\ command[n].at = "playing" => command[n].playing /\ command[n].call \in {"none", "sent", "ok"}
  /\ command[n].at = "leaving" => command[n].call = "none"
  /\ command[n].call = "none" => command[n].waited = 0

\* The narrator knows that its sample is held.
Knows(n) ==
  \/ command[n].at = "waiting" /\ command[n].call = "ok"
  \/ command[n].at = "fetching" /\ command[n].call \in {"sent", "ok"}
  \/ command[n].playing

\* The time that may have passed since the broker heard a poll of this narrator.
Silence(n) ==
  LET c == command[n] IN
    IF c.at = "leaving" THEN 3 * ApiTicks
    ELSE IF c.call = "ok" /\ c.at \in {"waiting", "playing"} THEN c.waited
    ELSE IF c.at = "fetching" THEN ApiTicks + c.waited
    ELSE 2 * ApiTicks + c.waited

HoldsSlot(n) ==
  /\ Knows(n) => Owns(command[n].handle) /\ slot.held /\ slot.silent <= Silence(n)
  /\ command[n].at \in Stoppable \cup {"leaving"} /\ Owns(command[n].handle)
       => slot.age <= command[n].spent

CommandInv(n) == Admission(n) /\ Locks(n) /\ HoldsSlot(n)

IInv ==
  /\ ClientsTypeOK /\ IdsAreMade /\ HandlesDiffer /\ PlaybackIsActive /\ PageInv
  /\ \A n \in Commands : CommandInv(n)

-----------------------------------------------------------------------------
(* What a step of the slot does to a narration that it is not about.       *)

\* The slot as the invariant wants it, whoever owns it.
SlotInv ==
  /\ slot \in Slot
  /\ slot.owner <= slot.made
  /\ PlaybackIsActive

\* The slot is not taken from command m, nor is it given the slot of another one.
Spares(m) ==
  /\ slot'.owner = command[m].handle /\ command[m].handle # 0
       => slot.owner = command[m].handle /\ slot'.age <= slot.age
  /\ Knows(m) => slot'.owner = command[m].handle /\ slot'.held /\ slot'.silent <= slot.silent

FilesSpare(m) ==
  /\ command[m].at \in Speaking \cup {"claiming"} => files'.lock = files.lock
  /\ command[m].at \in Speaking => files'.socket = files.socket
  /\ command[m].at = "admitting" =>
       files'.admission = files.admission /\ files'.ledger = files.ledger

LEMMA ConstantsAreNumbers ==
  /\ MaxOwners \in Nat /\ HeartbeatTicks \in Nat /\ AuditionTicks \in Nat
  /\ MaxStarts \in Nat /\ MaxCommands \in Nat /\ LedgerSize \in Nat
  /\ ApiTicks \in Nat /\ NarrationTicks \in Nat
BY SlotConstants, PageConstants, NarrationConstants

\* What the invariant says of the slot and of one command.
LEMMA Known ==
  ASSUME IInv, NEW n \in Commands
  PROVE  /\ SlotInv /\ slot.made \in Nat /\ slot.owner \in Nat
         /\ command \in [Commands -> Command] /\ command[n] \in Command
         /\ command[n].handle <= slot.made
         /\ CommandInv(n)
BY ConstantsAreNumbers DEF IInv, ClientsTypeOK, NarrationTypeOK, IdsAreMade, SlotInv, Slot

LEMMA Spared ==
  ASSUME IInv, NEW m \in Commands, command'[m] = command[m], FilesSpare(m), Spares(m),
         slot' \in Slot
  PROVE  CommandInv(m)'
<1> DEFINE c == command[m]
<1>1. CommandInv(m) /\ c \in Command /\ slot \in Slot
  BY Known DEF SlotInv
<1>2. Admission(m)'
  BY <1>1 DEF Admission, CommandInv, FilesSpare
<1>3. Locks(m)'
  BY <1>1 DEF Locks, CommandInv, FilesSpare
<1>4. HoldsSlot(m)'
  <2>1. (Knows(m)' <=> Knows(m)) /\ Silence(m)' = Silence(m) /\ Silence(m) \in Nat
    BY <1>1, ConstantsAreNumbers DEF Knows, Silence, Command
  <2>2. /\ slot.silent \in Nat /\ slot.age \in Nat /\ slot'.silent \in Nat /\ slot'.age \in Nat
        /\ command[m].spent \in Nat
    BY <1>1, ConstantsAreNumbers DEF Slot, Command
  <2>3. /\ Knows(m) => Owns(command[m].handle) /\ slot.silent <= Silence(m)
        /\ command[m].at \in Stoppable \cup {"leaving"} /\ Owns(command[m].handle)
             => slot.age <= command[m].spent
    BY <1>1 DEF CommandInv, HoldsSlot
  <2>4. Knows(m)' => Owns(command[m].handle)' /\ slot'.held /\ slot'.silent <= Silence(m)'
    BY <2>1, <2>2, <2>3 DEF Spares, Owns
  <2>5. command'[m].at \in Stoppable \cup {"leaving"} /\ Owns(command[m].handle)'
          => slot'.age <= command'[m].spent
    BY <2>2, <2>3 DEF Spares, Owns
  <2> QED
    BY <2>4, <2>5 DEF HoldsSlot
<1> QED
  BY <1>2, <1>3, <1>4 DEF CommandInv

LEMMA SlotStays ==
  ASSUME IInv, UNCHANGED slot, NEW m \in Commands
  PROVE  SlotInv' /\ Spares(m)
<1>1. CommandInv(m) /\ SlotInv /\ slot.silent \in Nat /\ slot.age \in Nat
  BY Known, ConstantsAreNumbers DEF SlotInv, Slot
<1>2. SlotInv'
  BY <1>1 DEF SlotInv, PlaybackIsActive
<1>3. Spares(m)
  BY <1>1 DEF Spares, Owns, CommandInv, HoldsSlot
<1> QED
  BY <1>2, <1>3

LEMMA SlotIsCreated ==
  ASSUME IInv, CanCreate, NEW kind \in {"room", "audition"}, slot' = Created(kind),
         NEW m \in Commands
  PROVE  SlotInv' /\ Spares(m) /\ slot'.made = slot.made + 1 /\ slot'.owner = slot'.made
<1>1. /\ CommandInv(m) /\ SlotInv /\ slot.made \in Nat
      /\ command[m].handle <= slot.made /\ command[m].handle \in Nat
  BY Known, ConstantsAreNumbers DEF Command
<1>2. slot' = [phase |-> "starting", owner |-> slot.made + 1, kind |-> kind, held |-> FALSE,
               made |-> slot.made + 1, silent |-> 0, age |-> 0]
  BY DEF Created, Free
<1>3. SlotInv'
  BY <1>1, <1>2, ConstantsAreNumbers DEF SlotInv, PlaybackIsActive, Slot, CanCreate
<1>4. ~Knows(m)
  BY <1>1 DEF CanCreate, CommandInv, HoldsSlot, SlotInv, PlaybackIsActive
<1> QED
  BY <1>1, <1>2, <1>3, <1>4 DEF Spares

LEMMA SlotIsFreed ==
  ASSUME IInv, slot' = Free(slot.made), NEW m \in Commands, ~Knows(m)
  PROVE  SlotInv' /\ Spares(m) /\ slot'.made = slot.made
<1>1. SlotInv /\ slot.made \in Nat
  BY Known
<1>2. SlotInv'
  BY <1>1, ConstantsAreNumbers DEF SlotInv, PlaybackIsActive, Slot, Free
<1> QED
  BY <1>2 DEF Spares, Free

\* A session that ends is not that of a narration that knows it has the slot.
LEMMA SlotIsEnded ==
  ASSUME IInv, slot' = Ended, NEW m \in Commands, ~Knows(m)
  PROVE  SlotInv' /\ Spares(m) /\ slot'.made = slot.made
<1>1. SlotInv /\ slot.made \in Nat /\ slot.owner \in Nat /\ slot.age \in Nat
  BY Known, ConstantsAreNumbers DEF SlotInv, Slot
<1>2. CASE slot.held
  BY <1>2, SlotIsFreed DEF Ended
<1>3. CASE ~slot.held
  <2>1. SlotInv'
    <3>1. PICK p \in {"draining", "blocked"} :
            slot' = [slot EXCEPT !.phase = p, !.silent = 0, !.age = 0]
      BY <1>3 DEF Ended
    <3>2. slot' \in Slot
      <4>1. 0 \in 0..HeartbeatTicks + 1 /\ 0 \in 0..AuditionTicks + 1
        BY ConstantsAreNumbers
      <4>2. p \in {"idle", "starting", "active", "draining", "blocked"}
        OBVIOUS
      <4> QED
        BY <1>1, <3>1, <4>1, <4>2 DEF SlotInv, Slot
    <3>3. slot'.owner = slot.owner /\ slot'.made = slot.made /\ slot'.held = slot.held
      BY <1>1, <3>1 DEF SlotInv, Slot
    <3> QED
      BY <1>1, <1>3, <3>2, <3>3 DEF SlotInv, PlaybackIsActive
  <2>2. slot'.owner = slot.owner /\ slot'.age = 0 /\ slot'.made = slot.made
    BY <1>1, <1>3 DEF Ended, SlotInv, Slot
  <2> QED
    BY <1>1, <2>1, <2>2 DEF Spares
<1> QED
  BY <1>2, <1>3

LEMMA SlotIsBeaten ==
  ASSUME IInv, slot' = Beaten, NEW m \in Commands
  PROVE  /\ SlotInv' /\ Spares(m) /\ slot'.made = slot.made
         /\ slot'.silent = 0 /\ slot'.owner = slot.owner /\ slot'.held = slot.held
         /\ slot'.phase = slot.phase /\ slot'.age = slot.age
<1>1. SlotInv /\ CommandInv(m) /\ slot.age \in Nat /\ slot.silent \in Nat
  BY Known, ConstantsAreNumbers DEF SlotInv, Slot
<1>2. /\ slot'.silent = 0 /\ slot'.owner = slot.owner /\ slot'.held = slot.held
      /\ slot'.phase = slot.phase /\ slot'.age = slot.age /\ slot'.made = slot.made
      /\ slot' \in Slot
  BY <1>1, ConstantsAreNumbers DEF Beaten, SlotInv, Slot
<1>3. SlotInv'
  BY <1>1, <1>2 DEF SlotInv, PlaybackIsActive
<1>4. Spares(m)
  BY <1>1, <1>2 DEF Spares, CommandInv, HoldsSlot, Owns
<1> QED
  BY <1>2, <1>3, <1>4

\* Nobody but the owner of the slot knows that it is held.
LEMMA OwnerKnows ==
  ASSUME IInv, NEW m \in Commands, Knows(m)
  PROVE  /\ slot.owner = command[m].handle /\ slot.owner # 0 /\ slot.held /\ slot.phase = "active"
         /\ slot.silent <= HeartbeatTicks /\ slot.age <= AuditionTicks
<1>1. SlotInv /\ CommandInv(m) /\ command[m] \in Command /\ slot.silent \in Nat /\ slot.age \in Nat
  BY Known, ConstantsAreNumbers DEF SlotInv, Slot
<1>2. Owns(command[m].handle) /\ slot.held /\ slot.silent <= Silence(m)
  BY <1>1 DEF CommandInv, HoldsSlot
<1>3. command[m].waited \in 0..ApiTicks /\ command[m].spent \in 0..NarrationTicks
  BY <1>1 DEF Command
<1>4. Silence(m) \in Nat /\ Silence(m) <= 3 * ApiTicks
  BY <1>3, ConstantsAreNumbers DEF Silence
<1>5. command[m].at \in Stoppable \cup {"leaving"}
  BY <1>1 DEF Knows, CommandInv, Locks, Stoppable
<1>6. slot.age <= command[m].spent
  BY <1>1, <1>2, <1>5 DEF CommandInv, HoldsSlot
<1>7. slot.silent <= HeartbeatTicks
  BY <1>1, <1>2, <1>4, ConstantsAreNumbers, TimeLimits
<1>8. slot.age <= AuditionTicks
  BY <1>1, <1>3, <1>6, ConstantsAreNumbers, TimeLimits
<1> QED
  BY <1>1, <1>2, <1>7, <1>8 DEF Owns, SlotInv, PlaybackIsActive

LEMMA BrokerSpares ==
  ASSUME IInv, BrokerStep, NEW m \in Commands
  PROVE  SlotInv' /\ Spares(m) /\ slot'.made = slot.made
<1>1. SlotInv /\ CommandInv(m) /\ slot.silent \in Nat /\ slot.age \in Nat /\ slot.made \in Nat
  BY Known, ConstantsAreNumbers DEF SlotInv, Slot
<1>2. CASE CreateFails
  BY <1>2, SlotIsFreed, OwnerKnows DEF CreateFails
<1>3. CASE BecomesActive
  <2>1. SlotInv' /\ slot' = [slot EXCEPT !.phase = "active"]
    BY <1>1, <1>3 DEF BecomesActive, SlotInv, Slot, PlaybackIsActive
  <2> QED
    BY <1>1, <2>1 DEF Spares, CommandInv, HoldsSlot, Owns, SlotInv, Slot
<1>4. CASE HoldsPlayback
  <2>1. SlotInv' /\ slot' = [slot EXCEPT !.phase = "active", !.held = TRUE]
    BY <1>1, <1>4 DEF HoldsPlayback, SlotInv, Slot, PlaybackIsActive
  <2> QED
    BY <1>1, <2>1 DEF Spares, CommandInv, HoldsSlot, Owns, SlotInv, Slot
<1>5. CASE WorkerEnds
  BY <1>5, SlotIsEnded, OwnerKnows DEF WorkerEnds
<1>6. CASE Expires
  <2>1. ~Knows(m)
    BY <1>1, <1>6, OwnerKnows, ConstantsAreNumbers DEF Expires
  <2> QED
    BY <1>6, <2>1, SlotIsEnded DEF Expires
<1>7. CASE Drains
  BY <1>7, SlotIsFreed, OwnerKnows DEF Drains
<1>8. CASE DrainFails
  <2>1. SlotInv' /\ slot' = [slot EXCEPT !.phase = "blocked"]
    BY <1>1, <1>8 DEF DrainFails, SlotInv, Slot, PlaybackIsActive
  <2> QED
    BY <1>1, <2>1 DEF Spares, CommandInv, HoldsSlot, Owns, SlotInv, Slot
<1> QED
  BY <1>2, <1>3, <1>4, <1>5, <1>6, <1>7, <1>8 DEF BrokerStep

-----------------------------------------------------------------------------
(* The page.                                                               *)

\* The page takes no session for its own but one that was made for it.
PageIds ==
  /\ page'.grant \in {0, page.grant} \cup {start[s].id : s \in Starts}
  /\ \A s \in Starts :
       \/ start'[s].id \in {0, start[s].id}
       \/ slot'.made = slot.made + 1 /\ start'[s].id = slot'.made

PageKeeps == PageTypeOK' /\ PageInv' /\ PageIds

LEMMA PageFrame ==
  ASSUME IInv, UNCHANGED narration, SlotInv', slot'.made \in {slot.made, slot.made + 1},
         \A m \in Commands : Spares(m), PageKeeps
  PROVE  IInv'
<1>1. SlotInv /\ slot.made \in Nat /\ slot'.made \in Nat
  BY ConstantsAreNumbers DEF IInv, ClientsTypeOK, IdsAreMade, SlotInv, Slot
<1>2. ClientsTypeOK'
  BY DEF IInv, ClientsTypeOK, PageKeeps, SlotInv, NarrationTypeOK, narration
<1>3. page' \in Page /\ page \in Page /\ \A s \in Starts : start[s].id \in Nat
  BY ConstantsAreNumbers DEF IInv, ClientsTypeOK, PageKeeps, PageTypeOK
<1>4. \A m \in Commands : command[m].handle \in Nat /\ command[m].handle <= slot.made
  BY Known, ConstantsAreNumbers DEF Command
<1>5. IdsAreMade'
  <2>1. page'.grant <= slot'.made
    <3>1. page.grant <= slot.made /\ \A s \in Starts : start[s].id <= slot.made
      BY DEF IInv, IdsAreMade
    <3>2. PICK g \in {0, page.grant} \cup {start[s].id : s \in Starts} : page'.grant = g
      BY DEF PageKeeps, PageIds
    <3>3. g \in Nat /\ g <= slot.made
      <4>1. page.grant \in Nat
        BY <1>3, ConstantsAreNumbers DEF Page
      <4> QED
        BY <1>1, <1>3, <3>1, <4>1
    <3> QED
      BY <1>1, <3>2, <3>3
  <2>2. ASSUME NEW s \in Starts PROVE start'[s].id <= slot'.made
    BY <1>1, <1>3 DEF IInv, IdsAreMade, PageKeeps, PageIds
  <2>3. ASSUME NEW m \in Commands PROVE command'[m].handle <= slot'.made
    BY <1>1, <1>4 DEF narration
  <2> QED
    BY <2>1, <2>2, <2>3 DEF IdsAreMade, SlotInv
<1>6. HandlesDiffer'
  <2> SUFFICES ASSUME NEW n \in Commands, command[n].handle # 0
               PROVE  /\ \A m \in Commands \ {n} : command[m].handle # command[n].handle
                      /\ page'.grant # command[n].handle
                      /\ \A s \in Starts : start'[s].id # command[n].handle
    BY DEF HandlesDiffer, narration
  <2>1. /\ \A m \in Commands \ {n} : command[m].handle # command[n].handle
        /\ page.grant # command[n].handle
        /\ \A s \in Starts : start[s].id # command[n].handle
    BY DEF IInv, HandlesDiffer
  <2>2. page'.grant # command[n].handle
    BY <2>1 DEF PageKeeps, PageIds
  <2>3. ASSUME NEW s \in Starts PROVE start'[s].id # command[n].handle
    BY <1>1, <1>4, <2>1 DEF PageKeeps, PageIds
  <2> QED
    BY <2>1, <2>2, <2>3
<1>7. \A m \in Commands : CommandInv(m)'
  <2> SUFFICES ASSUME NEW m \in Commands PROVE CommandInv(m)'
    OBVIOUS
  <2> QED
    BY Spared DEF SlotInv, FilesSpare, narration
<1> QED
  BY <1>2, <1>5, <1>6, <1>7 DEF IInv, PageKeeps, SlotInv

LEMMA PageKnown ==
  ASSUME IInv
  PROVE  /\ page \in Page /\ PageInv /\ beat \in 0..MaxOwners /\ ender \in Code
         /\ start \in [Starts -> [at : {"none", "posting", "joining", "ending"},
                                  code : Code, id : 0..MaxOwners]]
BY DEF IInv, ClientsTypeOK, PageTypeOK

\* No narration has the session that the page takes for its own.
LEMMA GrantIsOfPage ==
  ASSUME IInv, NEW m \in Commands, Owns(page.grant)
  PROVE  ~Knows(m)
BY OwnerKnows DEF IInv, HandlesDiffer, Owns

LEMMA PageEnds ==
  ASSUME IInv, Ends, NEW m \in Commands
  PROVE  SlotInv' /\ Spares(m) /\ slot'.made = slot.made
<1>1. CASE Owns(page.grant) /\ slot' = Ended
  BY <1>1, GrantIsOfPage, SlotIsEnded
<1>2. CASE UNCHANGED slot
  BY <1>2, SlotStays
<1> QED
  BY <1>1, <1>2 DEF Ends

\* The slot after a step of the page.
LEMMA PageSpares ==
  ASSUME IInv, PageStep, NEW m \in Commands
  PROVE  SlotInv' /\ Spares(m) /\ slot'.made = slot.made
<1>1. CASE Beats
  BY <1>1, SlotIsBeaten, SlotStays DEF Beats
<1>2. CASE Hides
  BY <1>2, GrantIsOfPage, SlotIsEnded, SlotStays DEF Hides
<1>3. CASE Ends
  BY <1>3, PageEnds
<1>4. CASE UNCHANGED slot
  BY <1>4, SlotStays
<1>5. ASSUME NEW s \in Starts, Joins(s) \/ StartFails(s) PROVE Ends \/ UNCHANGED slot
  BY <1>5 DEF Joins, StartFails, EndsNothing
<1>6. ASSUME NEW s \in Starts, ClicksStart(s) \/ StartGranted(s) \/ StartOver(s)
      PROVE  UNCHANGED slot
  BY <1>6 DEF ClicksStart, StartGranted, StartOver
<1> QED
  BY <1>1, <1>2, <1>3, <1>4, <1>5, <1>6
  DEF PageStep, ClicksEnd, EndingReturns, BeatReturns, Refreshes, ConnectionLost, LosesAnswer

\* What end() leaves of the page is what the invariant says of an end under way.
LEMMA EndsKeeps ==
  ASSUME IInv, Ends, page.open, beat' = beat,
         NEW s \in Starts, start' \in {start, [start EXCEPT ![s] = NoStart],
                                       [start EXCEPT ![s] = [NoStart EXCEPT !.at = "ending"]]}
  PROVE  PageKeeps
<1>1. page' \in Page /\ page'.joined = 0 /\ page'.grant = page.grant /\ page'.grant # 0
      /\ page'.closing /\ page'.release
  <2>1. /\ page' = [page EXCEPT !.closing = TRUE, !.release = TRUE, !.joined = 0]
        /\ page \in Page /\ page.grant # 0 /\ 0 \in 0..MaxOwners
    BY PageKnown, ConstantsAreNumbers DEF Ends
  <2> QED
    BY <2>1 DEF Page
<1>2. /\ start' \in [Starts -> [at : {"none", "posting", "joining", "ending"},
                                code : Code, id : 0..MaxOwners]]
      /\ \A r \in Starts : start'[r] = start[r] \/ (start'[r].id = 0 /\ start'[r].code = "none")
  <2> DEFINE ended == [NoStart EXCEPT !.at = "ending"]
  <2>1. /\ \A x \in {NoStart, ended} : /\ x.id = 0 /\ x.code = "none"
                                       /\ x \in [at : {"none", "posting", "joining", "ending"},
                                                 code : Code, id : 0..MaxOwners]
    BY ConstantsAreNumbers DEF NoStart, Code
  <2> HIDE DEF ended
  <2> QED
    BY <2>1, PageKnown DEF ended
<1>3. ender' \in Code
  BY DEF Ends, Code
<1>4. PageTypeOK'
  BY <1>1, <1>2, <1>3, PageKnown DEF PageTypeOK
<1>5. PageInv'
  BY <1>1, <1>2, PageKnown DEF PageInv, CaptureHasOwner
<1>6. PageIds
  BY <1>1, <1>2 DEF PageIds
<1> QED
  BY <1>4, <1>5, <1>6 DEF PageKeeps

\* A step that leaves the starts alone.
LEMMA StartsStay ==
  ASSUME IInv, start' = start, page' \in Page, ender' \in Code, beat' \in 0..MaxOwners,
         CaptureHasOwner', ender' # "none" => page'.closing,
         page'.closing => page'.grant # 0 /\ page'.release,
         page'.grant \in {0, page.grant}
  PROVE  PageKeeps
BY PageKnown DEF PageKeeps, PageTypeOK, PageInv, PageIds

\* A step of one call of start() that has no end() under it.
LEMMA OneStart ==
  ASSUME IInv, NEW s \in Starts, start' = [start EXCEPT ![s] = start'[s]],
         start'[s] \in [at : {"none", "posting", "joining", "ending"}, code : Code, id : 0..MaxOwners],
         start'[s].code = "ok" => start'[s].id # 0,
         start'[s].id \in {0, start[s].id},
         page' \in Page, UNCHANGED <<ender, beat>>,
         CaptureHasOwner', ender # "none" => page'.closing,
         page'.closing => page'.grant # 0 /\ page'.release,
         page'.grant \in {0, page.grant, start[s].id}
  PROVE  PageKeeps
<1>1. /\ start' \in [Starts -> [at : {"none", "posting", "joining", "ending"},
                                code : Code, id : 0..MaxOwners]]
      /\ \A r \in Starts \ {s} : start'[r] = start[r]
  BY PageKnown
<1>2. PageTypeOK'
  BY <1>1, PageKnown DEF PageTypeOK
<1>3. PageInv'
  BY <1>1, PageKnown DEF PageInv
<1>4. PageIds
  BY <1>1 DEF PageIds
<1> QED
  BY <1>2, <1>3, <1>4 DEF PageKeeps

LEMMA NoStartIsStart ==
  NoStart \in [at : {"none", "posting", "joining", "ending"}, code : Code, id : 0..MaxOwners]
BY ConstantsAreNumbers DEF NoStart, Code

LEMMA PageStepKeeps ==
  ASSUME IInv, PageStep
  PROVE  PageKeeps
<1> USE PageKnown
<1>1. CASE ClicksEnd
  <2>2. page' \in Page /\ page'.joined = 0 /\ page'.grant = page.grant /\ page'.grant # 0
        /\ page'.closing /\ page'.release
    <3>1. page' = [page EXCEPT !.closing = TRUE, !.release = TRUE, !.joined = 0]
          /\ page.grant # 0 /\ 0 \in 0..MaxOwners
      BY <1>1, ConstantsAreNumbers DEF ClicksEnd, Ends
    <3> QED
      BY <3>1 DEF Page
  <2>3. ender' \in Code
    BY <1>1 DEF ClicksEnd, Ends, Code
  <2> QED
    BY <1>1, <2>2, <2>3, StartsStay DEF ClicksEnd, CaptureHasOwner
<1>2. CASE ConnectionLost
  <2>2. page' \in Page /\ page'.joined = 0 /\ page'.grant = page.grant /\ page'.grant # 0
        /\ page'.closing /\ page'.release
    <3>1. page' = [page EXCEPT !.closing = TRUE, !.release = TRUE, !.joined = 0]
          /\ page.grant # 0 /\ 0 \in 0..MaxOwners
      BY <1>2, ConstantsAreNumbers DEF ConnectionLost, Ends
    <3> QED
      BY <3>1 DEF Page
  <2>3. ender' \in Code
    BY <1>2 DEF ConnectionLost, Ends, Code
  <2> QED
    BY <1>2, <2>2, <2>3, StartsStay DEF ConnectionLost, CaptureHasOwner
<1>3. CASE EndingReturns
  <2>1. page' = [page EXCEPT !.grant = IF ender = "ok" THEN 0 ELSE @,
                             !.idle = @ /\ ender = "refused",
                             !.busy = FALSE, !.closing = FALSE]
    BY <1>3 DEF EndingReturns
  <2>2. page' \in Page /\ page'.grant \in {0, page.grant} /\ ~page'.closing
        /\ page'.joined = page.joined
    <3>1. (IF ender = "ok" THEN 0 ELSE page.grant) \in 0..MaxOwners
      BY ConstantsAreNumbers DEF Page
    <3>2. (page.idle /\ ender = "refused") \in BOOLEAN
      OBVIOUS
    <3> QED
      BY <2>1, <3>1, <3>2 DEF Page
  <2>3. page.joined = 0
    BY <1>3 DEF EndingReturns, PageInv, CaptureHasOwner
  <2> QED
    BY <1>3, <2>2, <2>3, StartsStay DEF EndingReturns, CaptureHasOwner, Code
<1>4. CASE Beats
  BY <1>4, StartsStay, ConstantsAreNumbers DEF Beats, PageInv, CaptureHasOwner, Page
<1>5. CASE BeatReturns
  <2>1. page' \in {page, [page EXCEPT !.grant = 0, !.joined = 0]} /\ (page' # page => ~page.closing)
    BY <1>5 DEF BeatReturns, PageInv
  <2>2. 0 \in 0..MaxOwners
    BY ConstantsAreNumbers
  <2>3. page' \in Page /\ page'.grant \in {0, page.grant} /\ page'.closing = page.closing
    BY <2>1, <2>2 DEF Page
  <2>4. CaptureHasOwner' /\ (page'.closing => page'.grant # 0 /\ page'.release)
    BY <2>1 DEF Page, PageInv, CaptureHasOwner
  <2> QED
    BY <1>5, <2>2, <2>3, <2>4, StartsStay DEF BeatReturns, PageInv
<1>6. CASE Refreshes
  <2>1. PICK idle \in BOOLEAN : page' = [page EXCEPT !.idle = idle]
    BY <1>6 DEF Refreshes
  <2>2. /\ page' \in Page /\ page'.grant = page.grant /\ page'.closing = page.closing
        /\ page'.joined = page.joined /\ page'.release = page.release /\ page'.open = page.open
    BY <2>1 DEF Page
  <2> QED
    BY <1>6, <2>2, StartsStay DEF Refreshes, PageInv, CaptureHasOwner
<1>7. CASE LosesAnswer
  <2>1. CASE start' = start
    BY <1>7, <2>1, StartsStay DEF LosesAnswer, PageInv, CaptureHasOwner, Code
  <2>2. ASSUME NEW s \in Starts, start' = [start EXCEPT ![s].code = "refused"], UNCHANGED ender
        PROVE  PageKeeps
    <3>1. /\ start'[s].code = "refused" /\ start'[s].id = start[s].id
          /\ start'[s] \in [at : {"none", "posting", "joining", "ending"}, code : Code,
                            id : 0..MaxOwners]
          /\ start' = [start EXCEPT ![s] = start'[s]]
      BY <2>2 DEF Code
    <3>2. UNCHANGED <<page, beat>>
      BY <1>7 DEF LosesAnswer
    <3> QED
      BY <2>2, <3>1, <3>2, OneStart DEF PageInv, CaptureHasOwner
  <2> QED
    BY <1>7, <2>1, <2>2 DEF LosesAnswer
<1>8. CASE Hides
  <2>1. page' \in Page /\ page'.grant = 0 /\ page'.joined = 0 /\ ~page'.closing
    <3>1. page' = [open |-> FALSE, grant |-> 0, busy |-> FALSE, closing |-> FALSE,
                   release |-> FALSE, idle |-> FALSE, joined |-> 0, posted |-> page.posted]
      BY <1>8 DEF Hides, NewPage
    <3>2. page.posted \in 0..MaxStarts /\ 0 \in 0..MaxOwners
      BY ConstantsAreNumbers DEF Page
    <3> QED
      BY <3>1, <3>2 DEF Page
  <2>2. \A s \in Starts : start'[s] = NoStart \/ (start'[s] = start[s] /\ start[s].code = "sent")
    BY <1>8 DEF Hides
  <2>3. PageTypeOK'
    BY <1>8, <2>1, NoStartIsStart, ConstantsAreNumbers DEF PageTypeOK, Hides, Code
  <2>4. PageInv'
    BY <1>8, <2>1, <2>2 DEF PageInv, Hides, CaptureHasOwner, NoStart
  <2>5. PageIds
    BY <2>1, <2>2 DEF PageIds, NoStart
  <2> QED
    BY <2>3, <2>4, <2>5 DEF PageKeeps
<1>9. ASSUME NEW s \in Starts, ClicksStart(s) PROVE PageKeeps
  <2>1. page' = [page EXCEPT !.busy = TRUE, !.release = FALSE, !.posted = @ + 1]
        /\ page.posted + 1 \in 0..MaxStarts
    BY <1>9, ConstantsAreNumbers DEF ClicksStart, Starts, Page
  <2>2. /\ page' \in Page /\ page'.grant = page.grant /\ page'.closing = page.closing
        /\ page'.joined = page.joined /\ page'.open = page.open
    BY <2>1 DEF Page
  <2>3. start'[s] = [at |-> "posting", code |-> "sent", id |-> 0]
    BY <1>9 DEF ClicksStart
  <2>4. start'[s] \in [at : {"none", "posting", "joining", "ending"}, code : Code, id : 0..MaxOwners]
    BY <2>3, ConstantsAreNumbers DEF Code
  <2>5. ~page.closing
    BY <1>9 DEF ClicksStart, PageInv
  <2>6. CaptureHasOwner'
    BY <2>2 DEF PageInv, CaptureHasOwner
  <2> QED
    BY <1>9, <2>2, <2>3, <2>4, <2>5, <2>6, OneStart DEF ClicksStart, PageInv
<1>10. ASSUME NEW s \in Starts, StartGranted(s) PROVE PageKeeps
  <2>1. /\ page' = [page EXCEPT !.grant = start[s].id]
        /\ start[s].id \in 0..MaxOwners /\ start[s].id # 0
    BY <1>10 DEF StartGranted, PageInv
  <2>2. /\ page' \in Page /\ page'.grant = start[s].id /\ page'.closing = page.closing
        /\ page'.joined = page.joined /\ page'.open = page.open /\ page'.release = page.release
    BY <2>1 DEF Page
  <2>3. start' = [start EXCEPT ![s].at = "joining", ![s].code = "none"]
    BY <1>10 DEF StartGranted
  <2>4. /\ start'[s] \in [at : {"none", "posting", "joining", "ending"}, code : Code, id : 0..MaxOwners]
        /\ start'[s].id = start[s].id /\ start'[s].code = "none"
    BY <2>3 DEF Code
  <2>5. start' = [start EXCEPT ![s] = start'[s]]
    BY <2>3
  <2>6. CaptureHasOwner' /\ (ender # "none" => page'.closing)
        /\ (page'.closing => page'.grant # 0 /\ page'.release)
    BY <2>1, <2>2 DEF PageInv, CaptureHasOwner
  <2> QED
    BY <1>10, <2>2, <2>4, <2>5, <2>6, OneStart DEF StartGranted
<1>11. ASSUME NEW s \in Starts, Joins(s) PROVE PageKeeps
  <2>1. start' = [start EXCEPT ![s] = NoStart] /\ page.open /\ beat' = beat /\ start'[s] = NoStart
    BY <1>11 DEF Joins
  <2>2. CASE Ends
    BY <2>1, <2>2, EndsKeeps
  <2>3. ASSUME NEW j \in 0..MaxOwners, page' = [page EXCEPT !.busy = FALSE, !.joined = j],
               UNCHANGED ender, j # 0 => page.grant # 0 /\ ~page.release
        PROVE  PageKeeps
    <3>1. /\ page' \in Page /\ page'.grant = page.grant /\ page'.closing = page.closing
          /\ page'.joined = j /\ page'.open = page.open /\ page'.release = page.release
      BY <2>3 DEF Page
    <3>2. CaptureHasOwner'
      BY <2>1, <2>3, <3>1 DEF PageInv, CaptureHasOwner
    <3> QED
      BY <2>1, <2>3, <3>1, <3>2, NoStartIsStart, OneStart DEF PageInv, NoStart
  <2>4. (IF page.joined = 0 THEN start[s].id ELSE page.joined) \in 0..MaxOwners /\ 0 \in 0..MaxOwners
    BY ConstantsAreNumbers DEF Page
  <2> QED
    BY <1>11, <2>2, <2>3, <2>4 DEF Joins
<1>12. ASSUME NEW s \in Starts, StartFails(s) PROVE PageKeeps
  <2>1. page.open /\ beat' = beat
    BY <1>12 DEF StartFails
  <2>2. CASE Ends /\ start' = [start EXCEPT ![s] = [NoStart EXCEPT !.at = "ending"]]
    BY <2>1, <2>2, EndsKeeps
  <2>3. CASE EndsNothing /\ start' = [start EXCEPT ![s] = NoStart]
    <3>1. page' = [page EXCEPT !.release = TRUE, !.joined = 0, !.busy = FALSE] /\ 0 \in 0..MaxOwners
      BY <2>3, ConstantsAreNumbers DEF EndsNothing
    <3>2. page' \in Page /\ page'.grant = page.grant /\ page'.joined = 0 /\ page'.closing = page.closing
      BY <3>1 DEF Page
    <3> QED
      BY <2>1, <2>3, <3>2, NoStartIsStart, OneStart
      DEF EndsNothing, PageInv, NoStart, CaptureHasOwner
  <2>4. CASE /\ page.closing /\ page' = [page EXCEPT !.busy = FALSE] /\ UNCHANGED ender
             /\ start' = [start EXCEPT ![s] = NoStart]
    <3>1. /\ page' \in Page /\ page'.grant = page.grant /\ page'.closing = page.closing
          /\ page'.joined = page.joined /\ page'.open = page.open /\ page'.release = page.release
      BY <2>4 DEF Page
    <3> QED
      BY <2>1, <2>4, <3>1, NoStartIsStart, OneStart DEF PageInv, NoStart, CaptureHasOwner
  <2> QED
    BY <1>12, <2>2, <2>3, <2>4 DEF StartFails
<1>13. ASSUME NEW s \in Starts, StartOver(s) PROVE PageKeeps
  <2>1. /\ page' = [page EXCEPT !.busy = FALSE] /\ UNCHANGED <<ender, beat>>
        /\ start' = [start EXCEPT ![s] = NoStart]
    BY <1>13 DEF StartOver
  <2>2. /\ page' \in Page /\ page'.grant = page.grant /\ page'.closing = page.closing
        /\ page'.joined = page.joined /\ page'.open = page.open /\ page'.release = page.release
    BY <2>1 DEF Page
  <2> QED
    BY <2>1, <2>2, NoStartIsStart, OneStart DEF PageInv, NoStart, CaptureHasOwner
<1> QED
  BY <1>1, <1>2, <1>3, <1>4, <1>5, <1>6, <1>7, <1>8, <1>9, <1>10, <1>11, <1>12, <1>13
  DEF PageStep

LEMMA PageServesKeeps ==
  ASSUME IInv, NEW s \in Starts, ServesStart(s), UNCHANGED narration
  PROVE  IInv'
<1> USE PageKnown
<1>1. CASE CanCreate
  <2>1. /\ slot' = Created("room") /\ UNCHANGED <<page, ender, beat>>
        /\ start' = [start EXCEPT ![s].code = "ok", ![s].id = slot'.owner]
    BY <1>1 DEF ServesStart
  <2>2. \A m \in Commands : Spares(m)
    BY <1>1, <2>1, SlotIsCreated
  <2>3. /\ slot'.made = slot.made + 1 /\ slot'.owner = slot'.made
        /\ slot' \in Slot /\ SlotInv'
    <3>1. slot' = [phase |-> "starting", owner |-> slot.made + 1, kind |-> "room", held |-> FALSE,
                   made |-> slot.made + 1, silent |-> 0, age |-> 0]
      BY <2>1 DEF Created, Free
    <3>2. slot.made + 1 \in 0..MaxOwners /\ slot.made \in Nat
      BY <1>1, ConstantsAreNumbers DEF CanCreate, IInv, ClientsTypeOK, Slot
    <3> QED
      BY <3>1, <3>2, ConstantsAreNumbers DEF SlotInv, PlaybackIsActive, Slot
  <2>4. slot'.owner \in 0..MaxOwners /\ slot'.owner # 0
    BY <2>3, ConstantsAreNumbers DEF IInv, ClientsTypeOK, Slot
  <2>5. /\ start' \in [Starts -> [at : {"none", "posting", "joining", "ending"},
                                  code : Code, id : 0..MaxOwners]]
        /\ start'[s].id = slot'.owner
        /\ \A r \in Starts \ {s} : start'[r] = start[r]
    BY <2>1, <2>4 DEF Code
  <2>6. PageTypeOK'
    BY <2>1, <2>5 DEF PageTypeOK
  <2>7. PageInv'
    BY <2>1, <2>4, <2>5 DEF PageInv, CaptureHasOwner
  <2>8. PageIds
    BY <2>1, <2>3, <2>5 DEF PageIds
  <2> QED
    BY <2>2, <2>3, <2>6, <2>7, <2>8, PageFrame DEF PageKeeps
<1>2. CASE ~CanCreate
  <2>1. UNCHANGED <<slot, page, ender, beat>> /\ start' = [start EXCEPT ![s].code = "refused"]
    BY <1>2 DEF ServesStart
  <2>2. /\ start'[s].code = "refused" /\ start'[s].id = start[s].id
        /\ start'[s] \in [at : {"none", "posting", "joining", "ending"}, code : Code,
                          id : 0..MaxOwners]
        /\ start' = [start EXCEPT ![s] = start'[s]]
    BY <2>1 DEF Code
  <2>3. PageKeeps
    BY <2>1, <2>2, OneStart DEF PageInv, CaptureHasOwner
  <2>4. SlotInv' /\ \A m \in Commands : Spares(m)
    <3>1. SlotInv'
      BY <2>1 DEF IInv, ClientsTypeOK, IdsAreMade, SlotInv, PlaybackIsActive
    <3> QED
      BY <2>1, <3>1, SlotStays
  <2> QED
    BY <2>1, <2>3, <2>4, PageFrame
<1> QED
  BY <1>1, <1>2

-----------------------------------------------------------------------------
(* The narrator.                                                           *)

LEMMA NarrationKnown ==
  ASSUME IInv
  PROVE  /\ SlotInv /\ slot.made \in Nat
         /\ command \in [Commands -> Command] /\ files \in Files /\ Len(files.ledger) <= LedgerSize
         /\ attempts \in [Turns -> Nat]
BY ConstantsAreNumbers DEF IInv, ClientsTypeOK, NarrationTypeOK, IdsAreMade, SlotInv, Slot

\* A step of command n is right when it leaves the others alone and is right for n.
LEMMA NarrationFrame ==
  ASSUME IInv, UNCHANGED browser, NEW n \in Commands, NEW c \in Command,
         command' = [command EXCEPT ![n] = c],
         \/ c.handle \in {0, command[n].handle}
         \/ slot'.made = slot.made + 1 /\ c.handle = slot'.made,
         SlotInv', slot'.made \in {slot.made, slot.made + 1},
         files' \in Files, Len(files'.ledger) <= LedgerSize, attempts' \in [Turns -> Nat],
         CommandInv(n)',
         \A m \in Commands \ {n} : Spares(m) /\ FilesSpare(m)
  PROVE  IInv'
<1>1. /\ command' \in [Commands -> Command] /\ command'[n] = c
      /\ \A m \in Commands \ {n} : command'[m] = command[m]
  BY NarrationKnown
<1>2. ClientsTypeOK'
  BY <1>1 DEF IInv, ClientsTypeOK, NarrationTypeOK, SlotInv, PageTypeOK, browser
<1>3. /\ slot.made \in Nat /\ page.grant \in Nat /\ \A s \in Starts : start[s].id \in Nat
      /\ \A m \in Commands : command[m].handle \in Nat
      /\ c.handle \in Nat
  <2>1. page.grant \in Nat /\ \A s \in Starts : start[s].id \in Nat
    BY PageKnown, ConstantsAreNumbers DEF Page
  <2>2. \A d \in Command : d.handle \in Nat
    BY ConstantsAreNumbers DEF Command
  <2> QED
    BY <2>1, <2>2, NarrationKnown
<1>4. /\ page.grant <= slot.made /\ \A s \in Starts : start[s].id <= slot.made
      /\ \A m \in Commands : command[m].handle <= slot.made
  BY DEF IInv, IdsAreMade
<1>5. IdsAreMade'
  <2>1. c.handle <= slot'.made
    BY <1>3, <1>4
  <2>2. \A m \in Commands : command'[m].handle <= slot'.made
    BY <1>1, <1>3, <1>4, <2>1
  <2>3. page'.grant <= slot'.made /\ \A s \in Starts : start'[s].id <= slot'.made
    BY <1>3, <1>4 DEF browser
  <2> QED
    BY <2>2, <2>3 DEF IdsAreMade, SlotInv
<1>6. HandlesDiffer'
  <2> SUFFICES ASSUME NEW k \in Commands, command'[k].handle # 0
               PROVE  /\ \A m \in Commands \ {k} : command'[m].handle # command'[k].handle
                      /\ page.grant # command'[k].handle
                      /\ \A s \in Starts : start[s].id # command'[k].handle
    BY DEF HandlesDiffer, browser
  <2>1. \A m \in Commands : command'[m].handle # 0 /\ command'[m].handle # slot.made + 1 =>
          command'[m].handle = command[m].handle
    BY <1>1, <1>3
  <2>2. \A m \in Commands \ {n} : command'[m].handle = command[m].handle
    BY <1>1
  <2>3. CASE command'[k].handle = slot.made + 1
    <3>1. k = n
      BY <1>3, <1>4, <2>2, <2>3
    <3> QED
      BY <1>3, <1>4, <2>2, <2>3, <3>1
  <2>4. CASE command'[k].handle # slot.made + 1
    <3>1. command'[k].handle = command[k].handle /\ command[k].handle # 0
      BY <2>1, <2>4
    <3>2. /\ \A m \in Commands \ {k} : command[m].handle # command[k].handle
          /\ page.grant # command[k].handle
          /\ \A s \in Starts : start[s].id # command[k].handle
      BY <3>1 DEF IInv, HandlesDiffer
    <3> QED
      BY <2>1, <2>4, <3>1, <3>2
  <2> QED
    BY <2>3, <2>4
<1>7. PageInv'
  BY DEF IInv, PageInv, CaptureHasOwner, browser
<1>8. \A m \in Commands : CommandInv(m)'
  <2> SUFFICES ASSUME NEW m \in Commands \ {n} PROVE CommandInv(m)'
    OBVIOUS
  <2> QED
    BY <1>1, Spared DEF SlotInv
<1> QED
  BY <1>2, <1>5, <1>6, <1>7, <1>8 DEF IInv, SlotInv

\* Who has a lock has it alone.
LEMMA LocksAreOfOne ==
  ASSUME IInv, NEW n \in Commands, NEW m \in Commands \ {n}
  PROVE  /\ files.lock \in {n, Nobody} => command[m].at \notin Speaking \cup {"claiming"}
         /\ files.admission \in {n, Nobody} => command[m].at # "admitting"
<1>1. CommandInv(m) /\ m # Nobody
  BY Known DEF Commands, Nobody
<1> QED
  BY <1>1 DEF CommandInv, Locks, Admission

\* The step of one command that leaves the slot and the receipts alone.
LEMMA CommandFrame ==
  ASSUME IInv, UNCHANGED browser, UNCHANGED slot, UNCHANGED attempts,
         NEW n \in Commands, NEW c \in Command,
         command' = [command EXCEPT ![n] = c], c.handle \in {0, command[n].handle},
         files' \in Files, files'.ledger = files.ledger,
         CommandInv(n)',
         \A m \in Commands \ {n} : FilesSpare(m)
  PROVE  IInv'
<1>1. SlotInv' /\ \A m \in Commands : Spares(m)
  BY SlotStays
<1> QED
  BY <1>1, NarrationFrame, NarrationKnown

LEMMA NewCommandIsOne ==
  \A at \in Alive \cup {"none", "over"} : [NewCommand EXCEPT !.at = at] \in Command
<1>1. /\ 0 \in 0..MaxOwners /\ 0 \in 0..ApiTicks /\ 0 \in 0..NarrationTicks
  BY ConstantsAreNumbers
<1>2. NewCommand \in Command
  BY <1>1 DEF NewCommand, Command
<1> QED
  BY <1>2 DEF Command

\* A command that is over, or that has begun without a receipt to write.
LEMMA OverIsRight ==
  ASSUME NEW n \in Commands, command'[n] = [NewCommand EXCEPT !.at = "over"]
  PROVE  CommandInv(n)'
BY DEF CommandInv, Admission, Locks, HoldsSlot, Knows, Speaking, Stoppable, NewCommand

LEMMA Over ==
  ASSUME IInv, UNCHANGED <<browser, slot, attempts>>, NEW n \in Commands, IsOver(n),
         files' \in Files, files'.ledger = files.ledger,
         \A m \in Commands \ {n} : FilesSpare(m)
  PROVE  IInv'
<1> DEFINE c == [NewCommand EXCEPT !.at = "over"]
<1>1. c \in Command /\ c.handle = 0
  BY NewCommandIsOne DEF NewCommand
<1>2. command' = [command EXCEPT ![n] = c] /\ command'[n] = c
  BY NarrationKnown DEF IsOver
<1>3. CommandInv(n)'
  BY <1>2, OverIsRight
<1> HIDE DEF c
<1> QED
  BY <1>1, <1>2, <1>3, CommandFrame

\* The places before speak(): there is no handle and nothing plays.
LEMMA EarlyPlace ==
  ASSUME IInv, NEW n \in Commands, command[n].at \notin Speaking,
         NEW at \in {"admitted", "unmuted", "claiming", "asking"}, Goes(n, at)
  PROVE  \E c \in Command :
           /\ command' = [command EXCEPT ![n] = c] /\ command'[n] = c
           /\ c.handle = 0 /\ ~c.playing /\ c.at = at /\ c.call = "none" /\ c.waited = 0
<1> DEFINE c == [command[n] EXCEPT !.at = at, !.call = "none", !.waited = 0]
<1>1. command[n] \in Command /\ CommandInv(n) /\ command \in [Commands -> Command]
  BY Known
<1>2. c \in Command
  <2>1. 0 \in 0..ApiTicks
    BY ConstantsAreNumbers
  <2>2. at \in Alive
    BY DEF Alive, Speaking, Stoppable
  <2> QED
    BY <1>1, <2>1, <2>2 DEF Command
<1>3. c.handle = 0 /\ ~c.playing /\ c.at = at /\ c.call = "none" /\ c.waited = 0
  BY <1>1 DEF Command, CommandInv, Locks, Speaking, Stoppable
<1>4. command' = [command EXCEPT ![n] = c]
  BY <1>1 DEF Goes
<1>5. command'[n] = c
  BY <1>1, <1>4
<1> QED
  BY <1>2, <1>3, <1>4, <1>5

LEMMA FilesKnown ==
  ASSUME IInv, NEW n \in Commands
  PROVE  /\ \A x \in {n, Nobody} :
              /\ [files EXCEPT !.admission = x] \in Files
              /\ [files EXCEPT !.lock = x] \in Files
              /\ [files EXCEPT !.socket = x] \in Files
         /\ files \in Files
BY NarrationKnown DEF Files

LEMMA NotifiesKeeps ==
  ASSUME IInv, UNCHANGED browser, NEW n \in Commands, NEW t \in Turns, Notifies(n, t)
  PROVE  IInv'
<1>1. command[n] \in Command /\ CommandInv(n) /\ command \in [Commands -> Command]
  BY Known
<1>2. CASE files.admission = Nobody /\ ~Contains(files.ledger, t)
  <2> DEFINE c == [command[n] EXCEPT !.at = "admitting", !.turn = t]
  <2>1. c \in Command
    BY <1>1 DEF Command, Alive
  <2>2. command[n].at = "none"
    BY DEF Notifies, Begins
  <2>3. /\ c.handle = 0 /\ ~c.playing /\ c.at = "admitting" /\ c.turn = t
        /\ c.call = command[n].call /\ c.waited = command[n].waited
    BY <1>1, <2>2 DEF Command, CommandInv, Locks, Speaking, Stoppable
  <2>4. /\ command' = [command EXCEPT ![n] = c]
        /\ files' = [files EXCEPT !.admission = n] /\ UNCHANGED <<slot, attempts>>
    BY <1>1, <1>2 DEF Notifies
  <2>5. command'[n] = c
    BY <1>1, <2>4
  <2>6. /\ files' \in Files /\ files'.ledger = files.ledger /\ files'.admission = n
        /\ files'.lock = files.lock /\ files'.socket = files.socket
    BY <2>4, FilesKnown DEF Files
  <2>7. \A m \in Commands \ {n} : FilesSpare(m)
    BY <1>2, <2>6, LocksAreOfOne DEF FilesSpare
  <2> HIDE DEF c
  <2>8. CommandInv(n)'
    BY <1>1, <1>2, <2>3, <2>5, <2>6
    DEF CommandInv, Admission, Locks, HoldsSlot, Knows, Speaking, Stoppable
  <2> QED
    BY <2>1, <2>3, <2>4, <2>6, <2>7, <2>8, CommandFrame
<1>3. CASE ~(files.admission = Nobody /\ ~Contains(files.ledger, t))
  BY <1>3, Over, FilesKnown DEF Notifies, FilesSpare
<1> QED
  BY <1>2, <1>3

LEMMA AdmitsKeeps ==
  ASSUME IInv, UNCHANGED browser, NEW n \in Commands, Admits(n)
  PROVE  IInv'
<1> DEFINE c == [command[n] EXCEPT !.at = "admitted", !.turn = NoTurn]
           t == command[n].turn
           kept == Append(files.ledger, t)
           ledger == IF Len(kept) > LedgerSize THEN Tail(kept) ELSE kept
<1>1. command[n] \in Command /\ CommandInv(n) /\ command \in [Commands -> Command]
  BY Known
<1>2. command[n].at = "admitting" /\ files.admission = n /\ t \in Turns
  BY <1>1 DEF Admits, CommandInv, Admission
<1>3. c \in Command
  BY <1>1 DEF Command, Alive
<1>4. /\ c.handle = 0 /\ ~c.playing /\ c.at = "admitted"
      /\ c.call = command[n].call /\ c.waited = command[n].waited
  BY <1>1, <1>2 DEF Command, CommandInv, Locks, Speaking, Stoppable
<1>5. /\ command' = [command EXCEPT ![n] = c]
      /\ files' = [files EXCEPT !.admission = Nobody, !.ledger = ledger]
      /\ attempts' = [attempts EXCEPT ![t] = @ + 1] /\ UNCHANGED slot
  BY <1>1 DEF Admits
<1>6. command'[n] = c
  BY <1>1, <1>5
<1>7. ledger \in Seq(Turns) /\ Len(ledger) <= LedgerSize
  <2>1. files.ledger \in Seq(Turns) /\ Len(files.ledger) <= LedgerSize /\ LedgerSize \in Nat
    BY NarrationKnown, ConstantsAreNumbers DEF Files
  <2>2. kept \in Seq(Turns) /\ Len(kept) = Len(files.ledger) + 1 /\ kept # <<>>
    BY <1>2, <2>1
  <2> HIDE DEF kept
  <2>3. Tail(kept) \in Seq(Turns) /\ Len(Tail(kept)) = Len(kept) - 1
    BY <2>2
  <2>4. Len(files.ledger) \in Nat
    BY <2>1
  <2> QED
    BY <2>1, <2>2, <2>3, <2>4
<1>8. attempts' \in [Turns -> Nat]
  BY <1>2, <1>5, NarrationKnown
<1> HIDE DEF c, ledger
<1>9. /\ files' \in Files /\ files'.ledger = ledger
      /\ files'.lock = files.lock /\ files'.socket = files.socket
  BY <1>5, <1>7, NarrationKnown DEF Files
<1>10. \A m \in Commands \ {n} : FilesSpare(m)
  BY <1>2, <1>9, LocksAreOfOne DEF FilesSpare
<1>11. CommandInv(n)'
  BY <1>1, <1>4, <1>6 DEF CommandInv, Admission, Locks, HoldsSlot, Knows, Speaking, Stoppable
<1>12. SlotInv' /\ \A m \in Commands : Spares(m)
  BY <1>5, SlotStays
<1> QED
  BY <1>3, <1>4, <1>5, <1>7, <1>8, <1>9, <1>10, <1>11, <1>12, NarrationFrame, NarrationKnown

\* What comes before speak(): nothing is asked of the broker.
LEMMA EarlyKeeps ==
  ASSUME IInv, UNCHANGED browser, NEW n \in Commands,
         Speaks(n) \/ ChecksMute(n) \/ TakesLock(n) \/ OpensSocket(n)
  PROVE  IInv'
<1>1. command[n] \in Command /\ CommandInv(n)
  BY Known
<1>2. CASE IsOver(n) /\ UNCHANGED <<slot, files, attempts>>
  BY <1>2, Over, FilesKnown DEF FilesSpare
<1>3. ASSUME NEW at \in {"admitted", "unmuted", "claiming", "asking"}, Goes(n, at),
             command[n].at \notin Speaking, UNCHANGED <<slot, attempts>>,
             files' \in Files, files'.ledger = files.ledger,
             at \in {"claiming", "asking"} => files'.lock = n,
             at = "asking" => files'.socket = n,
             \A m \in Commands \ {n} : FilesSpare(m)
      PROVE  IInv'
  <2>1. PICK c \in Command :
          /\ command' = [command EXCEPT ![n] = c] /\ command'[n] = c
          /\ c.handle = 0 /\ ~c.playing /\ c.at = at /\ c.call = "none" /\ c.waited = 0
    BY <1>3, EarlyPlace
  <2>2. CommandInv(n)'
    BY <1>3, <2>1 DEF CommandInv, Admission, Locks, HoldsSlot, Knows, Owns, Speaking, Stoppable
  <2> QED
    BY <1>3, <2>1, <2>2, CommandFrame
<1>4. CASE Speaks(n)
  BY <1>3, <1>4, FilesKnown DEF Speaks, Begins, FilesSpare, Speaking, Stoppable
<1>5. CASE ChecksMute(n)
  BY <1>2, <1>3, <1>5, FilesKnown DEF ChecksMute, FilesSpare, Speaking, Stoppable
<1>6. CASE TakesLock(n)
  <2>1. CASE files.lock = Nobody
    <3>1. /\ Goes(n, "claiming") /\ UNCHANGED <<slot, attempts>> /\ command[n].at \notin Speaking
          /\ files' = [files EXCEPT !.lock = n]
      BY <1>6, <2>1 DEF TakesLock, Speaking, Stoppable
    <3>2. /\ files' \in Files /\ files'.lock = n /\ files'.socket = files.socket
          /\ files'.admission = files.admission /\ files'.ledger = files.ledger
      BY <3>1, FilesKnown DEF Files
    <3>3. \A m \in Commands \ {n} : FilesSpare(m)
      BY <2>1, <3>2, LocksAreOfOne DEF FilesSpare
    <3> QED
      BY <1>3, <3>1, <3>2, <3>3
  <2>2. CASE files.lock # Nobody
    BY <1>2, <1>6, <2>2 DEF TakesLock
  <2> QED
    BY <2>1, <2>2
<1>7. CASE OpensSocket(n)
  <2>1. /\ Goes(n, "asking") /\ UNCHANGED <<slot, attempts>> /\ command[n].at \notin Speaking
        /\ files' = [files EXCEPT !.socket = n] /\ command[n].at = "claiming"
    BY <1>7 DEF OpensSocket, Speaking, Stoppable
  <2>2. /\ files' \in Files /\ files'.socket = n /\ files'.lock = files.lock
        /\ files'.admission = files.admission /\ files'.ledger = files.ledger
    BY <2>1, FilesKnown DEF Files
  <2>3. files.lock = n
    BY <1>1, <2>1 DEF CommandInv, Locks
  <2>4. \A m \in Commands \ {n} : FilesSpare(m)
    BY <2>2, <2>3, LocksAreOfOne DEF FilesSpare
  <2> QED
    BY <1>3, <2>1, <2>2, <2>3, <2>4
<1> QED
  BY <1>4, <1>5, <1>6, <1>7

\* A step within speak() that asks nothing of the broker, keeps the handle and moves no file.
LEMMA SpeakFrame ==
  ASSUME IInv, UNCHANGED <<browser, slot, files, attempts>>, NEW n \in Commands,
         command[n].at \in Speaking, NEW c \in Command,
         command' = [command EXCEPT ![n] = c],
         c.handle = command[n].handle, c.at \in Speaking,
         c.playing => c.at \in {"playing", "leaving"},
         c.at = "playing" => c.playing /\ c.call \in {"none", "sent", "ok"},
         c.at = "leaving" => c.call = "none", c.call = "none" => c.waited = 0,
         HoldsSlot(n)'
  PROVE  IInv'
<1>1. command'[n] = c /\ CommandInv(n)
  BY Known
<1>2. CommandInv(n)'
  BY <1>1 DEF CommandInv, Admission, Locks, Speaking, Stoppable
<1> QED
  BY <1>2, CommandFrame, NarrationKnown DEF FilesSpare

LEMMA ActorHolds ==
  ASSUME NEW n \in Commands,
         Knows(n)' => /\ slot'.owner = command'[n].handle /\ command'[n].handle # 0
                      /\ slot'.held /\ slot'.silent <= Silence(n)',
         (command'[n].at \in Stoppable \cup {"leaving"} /\ slot'.owner = command'[n].handle
            /\ command'[n].handle # 0) => slot'.age <= command'[n].spent
  PROVE  HoldsSlot(n)'
BY DEF HoldsSlot, Owns

LEMMA ContinuesKeeps ==
  ASSUME IInv, UNCHANGED browser, NEW n \in Commands, Continues(n)
  PROVE  IInv'
<1>1. command[n] \in Command /\ CommandInv(n) /\ command \in [Commands -> Command]
  BY Known
<1>2. PICK at \in {"asking", "waiting", "fetching", "playing"} :
        /\ Requests(n, at) /\ command[n].at \in Stoppable
        /\ at = "playing" <=> command[n].at = "playing"
        /\ at = "fetching" => Got(n, "waiting", "ok")
        /\ at = "playing" => command[n].call \in {"none", "ok"}
  BY DEF Continues, Got, Stoppable
<1> DEFINE c == [command[n] EXCEPT !.at = at, !.call = "sent", !.waited = 0]
<1>3. c \in Command
  <2>1. 0 \in 0..ApiTicks /\ at \in Alive
    BY ConstantsAreNumbers DEF Alive, Speaking, Stoppable
  <2> QED
    BY <1>1, <2>1 DEF Command
<1>4. /\ c.at = at /\ c.call = "sent" /\ c.waited = 0 /\ c.handle = command[n].handle
      /\ c.playing = command[n].playing /\ c.spent = command[n].spent
  BY <1>1 DEF Command
<1>5. command' = [command EXCEPT ![n] = c] /\ UNCHANGED <<slot, files, attempts>>
  BY <1>1, <1>2 DEF Requests, Continues
<1>6. command'[n] = c
  BY <1>1, <1>5
<1> HIDE DEF c
<1>7. c.playing <=> at = "playing"
  BY <1>1, <1>2, <1>4 DEF CommandInv, Locks, Stoppable
<1>8. HoldsSlot(n)'
  <2>1. slot.silent \in Nat /\ command[n].waited \in 0..ApiTicks
    BY <1>1, NarrationKnown, ConstantsAreNumbers DEF SlotInv, Slot, Command
  <2>2. Knows(n)' => Knows(n) /\ at \in {"fetching", "playing"}
    BY <1>2, <1>4, <1>6, <1>7 DEF Knows, Got
  <2>3. at = "fetching" => Silence(n) <= ApiTicks /\ Silence(n)' = ApiTicks
    BY <1>2, <1>4, <1>6, <2>1, ConstantsAreNumbers DEF Silence, Got
  <2>4. at = "playing" => Silence(n) <= 2 * ApiTicks /\ Silence(n)' = 2 * ApiTicks
    BY <1>1, <1>2, <1>4, <1>6, <2>1, ConstantsAreNumbers DEF Silence, CommandInv, Locks
  <2>5. Silence(n) \in Nat
    BY <2>1, ConstantsAreNumbers DEF Silence
  <2>6. Knows(n)' => /\ slot'.owner = command'[n].handle /\ command'[n].handle # 0
                     /\ slot'.held /\ slot'.silent <= Silence(n)'
    <3>1. Knows(n) => Owns(command[n].handle) /\ slot.held /\ slot.silent <= Silence(n)
      BY <1>1 DEF CommandInv, HoldsSlot
    <3> QED
      BY <1>4, <1>5, <1>6, <2>1, <2>2, <2>3, <2>4, <2>5, <3>1, ConstantsAreNumbers DEF Owns
  <2>7. slot'.owner = command'[n].handle /\ command'[n].handle # 0 =>
          slot'.age <= command'[n].spent
    BY <1>1, <1>2, <1>4, <1>5, <1>6 DEF CommandInv, HoldsSlot, Owns
  <2> QED
    BY <2>6, <2>7, ActorHolds
<1> QED
  BY <1>2, <1>3, <1>4, <1>5, <1>7, <1>8, SpeakFrame DEF Speaking, Stoppable

LEMMA StartsPlayerKeeps ==
  ASSUME IInv, UNCHANGED browser, NEW n \in Commands, StartsPlayer(n)
  PROVE  IInv'
<1> DEFINE c == [command[n] EXCEPT !.at = "playing", !.call = "none", !.waited = 0,
                                   !.playing = TRUE]
<1>1. command[n] \in Command /\ CommandInv(n) /\ command \in [Commands -> Command]
  BY Known
<1>2. command[n].at = "fetching" /\ command[n].call = "ok" /\ UNCHANGED <<slot, files, attempts>>
  BY DEF StartsPlayer, Got
<1>3. c \in Command
  <2>1. 0 \in 0..ApiTicks
    BY ConstantsAreNumbers
  <2> QED
    BY <1>1, <2>1 DEF Command, Alive, Speaking, Stoppable
<1>4. /\ c.at = "playing" /\ c.call = "none" /\ c.waited = 0 /\ c.handle = command[n].handle
      /\ c.playing /\ c.spent = command[n].spent
  BY <1>1 DEF Command
<1>5. command' = [command EXCEPT ![n] = c] /\ command'[n] = c
  BY <1>1 DEF StartsPlayer
<1> HIDE DEF c
<1>6. HoldsSlot(n)'
  <2>1. slot.silent \in Nat /\ command[n].waited \in 0..ApiTicks
    BY <1>1, NarrationKnown, ConstantsAreNumbers DEF SlotInv, Slot, Command
  <2>2. Owns(command[n].handle) /\ slot.held /\ slot.silent <= Silence(n)
    BY <1>1, <1>2 DEF CommandInv, HoldsSlot, Knows
  <2>3. Silence(n) \in Nat /\ Silence(n) <= 2 * ApiTicks /\ Silence(n)' = 2 * ApiTicks
    BY <1>2, <1>4, <1>5, <2>1, ConstantsAreNumbers DEF Silence
  <2>4. slot.silent <= 2 * ApiTicks
    BY <2>1, <2>2, <2>3, ConstantsAreNumbers
  <2>5. slot.age <= command[n].spent
    BY <1>1, <1>2, <2>2 DEF CommandInv, HoldsSlot, Stoppable
  <2> QED
    BY <1>2, <1>4, <1>5, <2>2, <2>3, <2>4, <2>5, ActorHolds DEF Owns
<1> QED
  BY <1>2, <1>3, <1>4, <1>5, <1>6, SpeakFrame DEF Speaking, Stoppable

LEMMA LeavesKeeps ==
  ASSUME IInv, UNCHANGED browser, NEW n \in Commands, Leaves(n)
  PROVE  IInv'
<1> DEFINE c == [command[n] EXCEPT !.at = "leaving", !.call = "none", !.waited = 0, !.stop = FALSE]
<1>1. command[n] \in Command /\ CommandInv(n) /\ command \in [Commands -> Command]
  BY Known
<1>2. command[n].at \in Stoppable /\ UNCHANGED <<slot, files, attempts>>
  BY DEF Leaves
<1>3. c \in Command
  <2>1. 0 \in 0..ApiTicks
    BY ConstantsAreNumbers
  <2> QED
    BY <1>1, <2>1 DEF Command, Alive, Speaking
<1>4. /\ c.at = "leaving" /\ c.call = "none" /\ c.waited = 0 /\ c.handle = command[n].handle
      /\ c.playing = command[n].playing /\ c.spent = command[n].spent
  BY <1>1 DEF Command
<1>5. command' = [command EXCEPT ![n] = c] /\ command'[n] = c
  BY <1>1 DEF Leaves
<1> HIDE DEF c
<1>6. HoldsSlot(n)'
  <2>1. slot.silent \in Nat /\ command[n].waited \in 0..ApiTicks
    BY <1>1, NarrationKnown, ConstantsAreNumbers DEF SlotInv, Slot, Command
  <2>2. Knows(n)' => Knows(n)
    BY <1>4, <1>5 DEF Knows
  <2>3. /\ Knows(n) => Owns(command[n].handle) /\ slot.held /\ slot.silent <= Silence(n)
        /\ Owns(command[n].handle) => slot.age <= command[n].spent
    BY <1>1, <1>2 DEF CommandInv, HoldsSlot
  <2>4. Silence(n) \in Nat /\ Silence(n) <= 3 * ApiTicks /\ Silence(n)' = 3 * ApiTicks
    BY <1>4, <1>5, <2>1, ConstantsAreNumbers DEF Silence
  <2>5. Knows(n) => slot.silent <= 3 * ApiTicks
    BY <2>1, <2>3, <2>4, ConstantsAreNumbers
  <2> QED
    BY <1>2, <1>4, <1>5, <2>2, <2>3, <2>4, <2>5, ActorHolds DEF Owns
<1> QED
  BY <1>1, <1>2, <1>3, <1>4, <1>5, <1>6, SpeakFrame DEF Speaking

LEMMA PlayerStopsKeeps ==
  ASSUME IInv, UNCHANGED browser, NEW n \in Commands, PlayerStops(n)
  PROVE  IInv'
<1> DEFINE k == command[n]
           c == [k EXCEPT !.playing = FALSE, !.spent = 0,
                          !.at = IF k.handle = 0 THEN "stopping" ELSE "ending",
                          !.call = IF k.handle = 0 THEN "none" ELSE "sent"]
<1>1. command[n] \in Command /\ CommandInv(n) /\ command \in [Commands -> Command]
  BY Known
<1>2. command[n].at = "leaving" /\ UNCHANGED <<slot, files, attempts>>
  BY DEF PlayerStops
<1>3. command[n].waited = 0
  BY <1>1, <1>2 DEF CommandInv, Locks
<1>4. PICK at \in {"stopping", "ending"}, reply \in {"none", "sent"} :
        c = [command[n] EXCEPT !.playing = FALSE, !.spent = 0, !.at = at, !.call = reply]
  OBVIOUS
<1>5. c \in Command
  <2>1. 0 \in 0..NarrationTicks /\ at \in Alive
    BY ConstantsAreNumbers DEF Alive, Speaking
  <2> QED
    BY ZenonT(60), <1>1, <1>4, <2>1 DEF Command
<1>6. c.at = at /\ ~c.playing /\ c.waited = 0 /\ c.handle = command[n].handle
  BY <1>1, <1>3, <1>4 DEF Command
<1>7. command' = [command EXCEPT ![n] = c] /\ command'[n] = c
  BY <1>1 DEF PlayerStops
<1> HIDE DEF c
<1>8. HoldsSlot(n)'
  BY <1>6, <1>7 DEF HoldsSlot, Knows, Stoppable
<1> QED
  BY <1>2, <1>5, <1>6, <1>7, <1>8, SpeakFrame DEF Speaking

LEMMA EndReturnsKeeps ==
  ASSUME IInv, UNCHANGED browser, NEW n \in Commands, EndReturns(n)
  PROVE  IInv'
<1> DEFINE c == [command[n] EXCEPT !.at = "stopping", !.call = "none", !.waited = 0]
<1>1. command[n] \in Command /\ CommandInv(n) /\ command \in [Commands -> Command]
  BY Known
<1>2. command[n].at = "ending" /\ UNCHANGED <<slot, files, attempts>>
  BY DEF EndReturns
<1>3. c \in Command
  <2>1. 0 \in 0..ApiTicks
    BY ConstantsAreNumbers
  <2> QED
    BY <1>1, <2>1 DEF Command, Alive, Speaking
<1>4. /\ c.at = "stopping" /\ c.waited = 0 /\ c.handle = command[n].handle /\ ~c.playing
  BY <1>1, <1>2 DEF Command, CommandInv, Locks
<1>5. command' = [command EXCEPT ![n] = c] /\ command'[n] = c
  BY <1>1 DEF EndReturns, Goes
<1> HIDE DEF c
<1>6. HoldsSlot(n)'
  BY <1>4, <1>5 DEF HoldsSlot, Knows, Stoppable
<1> QED
  BY <1>2, <1>3, <1>4, <1>5, <1>6, SpeakFrame DEF Speaking

\* The process is gone, and what it had locked is free.
LEMMA ProcessEndsKeeps ==
  ASSUME IInv, UNCHANGED browser, NEW n \in Commands, Finishes(n) \/ Killed(n)
  PROVE  IInv'
<1>1. CommandInv(n)
  BY Known
<1>2. CASE Finishes(n)
  <2>1. /\ command[n].at = "stopping" /\ IsOver(n) /\ UNCHANGED <<slot, attempts>>
        /\ files' = [files EXCEPT !.socket = IF @ = n THEN Nobody ELSE @, !.lock = Nobody]
    BY <1>2 DEF Finishes, CloseSocket
  <2>2. /\ files' \in Files /\ files'.ledger = files.ledger
        /\ files'.admission = files.admission
    BY <2>1, NarrationKnown DEF Files
  <2>3. files.lock = n
    BY <1>1, <2>1 DEF CommandInv, Locks, Speaking
  <2>4. \A m \in Commands \ {n} : FilesSpare(m)
    BY <2>2, <2>3, LocksAreOfOne DEF FilesSpare
  <2> QED
    BY <2>1, <2>2, <2>4, Over
<1>3. CASE Killed(n)
  <2>1. /\ IsOver(n) /\ UNCHANGED <<slot, attempts>>
        /\ files' = [files EXCEPT !.admission = IF @ = n THEN Nobody ELSE @,
                                  !.lock = IF @ = n THEN Nobody ELSE @]
    BY <1>3 DEF Killed
  <2>2. /\ files' \in Files /\ files'.ledger = files.ledger /\ files'.socket = files.socket
        /\ files'.admission = files.admission \/ files.admission = n
        /\ files'.lock = files.lock \/ files.lock = n
    BY <2>1, NarrationKnown DEF Files
  <2>3. \A m \in Commands \ {n} : FilesSpare(m)
    BY <2>2, LocksAreOfOne DEF FilesSpare
  <2> QED
    BY <2>1, <2>2, <2>3, Over
<1> QED
  BY <1>2, <1>3

-----------------------------------------------------------------------------
(* The broker's answers to the narrator.                                   *)

\* What an answer does to the command that waits for it.
LEMMA AnswerFrame ==
  ASSUME IInv, UNCHANGED <<browser, files, attempts>>, NEW n \in Commands,
         command[n].at \in Speaking \ {"leaving"}, NEW c \in Command,
         command' = [command EXCEPT ![n] = c],
         c.at = command[n].at, c.playing = command[n].playing,
         c.call \in {"ok", "later", "refused"}, c.at = "playing" => c.call = "ok",
         \/ c.handle \in {0, command[n].handle}
         \/ slot'.made = slot.made + 1 /\ c.handle = slot'.made,
         SlotInv', slot'.made \in {slot.made, slot.made + 1},
         \A m \in Commands \ {n} : Spares(m),
         HoldsSlot(n)'
  PROVE  IInv'
<1>1. command'[n] = c /\ CommandInv(n)
  BY Known
<1>2. CommandInv(n)'
  BY <1>1 DEF CommandInv, Admission, Locks, Speaking, Stoppable
<1> QED
  BY <1>2, NarrationFrame, NarrationKnown DEF FilesSpare

LEMMA AnswerIsCommand ==
  ASSUME IInv, NEW n \in Commands, NEW reply \in {"ok", "later", "refused"}, Answers(n, reply)
  PROVE  \E c \in Command :
           /\ c.at = command[n].at /\ c.playing = command[n].playing /\ c.call = reply
           /\ c.handle = command[n].handle /\ c.waited = command[n].waited
           /\ c.spent = command[n].spent
           /\ command' = [command EXCEPT ![n] = c] /\ command'[n] = c
<1> DEFINE c == [command[n] EXCEPT !.call = reply]
<1>1. command[n] \in Command /\ command \in [Commands -> Command]
  BY Known
<1>2. /\ c \in Command
      /\ c.at = command[n].at /\ c.playing = command[n].playing /\ c.call = reply
      /\ c.handle = command[n].handle /\ c.waited = command[n].waited
      /\ c.spent = command[n].spent
  BY <1>1 DEF Command
<1>3. command' = [command EXCEPT ![n] = c] /\ command'[n] = c
  BY <1>1 DEF Answers
<1> QED
  BY <1>2, <1>3

LEMMA ServesAskKeeps ==
  ASSUME IInv, UNCHANGED browser, NEW n \in Commands, ServesAsk(n)
  PROVE  IInv'
<1>1. command[n] \in Command /\ CommandInv(n) /\ command \in [Commands -> Command]
  BY Known
<1>2. command[n].at = "asking" /\ command[n].call = "sent" /\ UNCHANGED <<files, attempts>>
  BY DEF ServesAsk, Answered
<1>3. ~command[n].playing
  BY <1>1, <1>2 DEF CommandInv, Locks
<1>4. CASE CanCreate
  <2>1. slot' = Created("audition")
    BY <1>4 DEF ServesAsk
  <2>2. /\ SlotInv' /\ slot'.made = slot.made + 1 /\ slot'.owner = slot'.made
        /\ \A m \in Commands : Spares(m)
    BY <1>4, <2>1, SlotIsCreated
  <2>3. slot'.age = 0 /\ slot'.owner \in 0..MaxOwners
    BY <2>1, <2>2 DEF Created, Free, SlotInv, Slot
  <2>4. PICK reply \in {"ok", "refused"}, id \in {command[n].handle, slot'.owner} :
          command' = [command EXCEPT ![n] = [command[n] EXCEPT !.call = reply, !.handle = id]]
    <3>1. command[n] = [command[n] EXCEPT !.handle = command[n].handle]
      BY <1>1 DEF Command
    <3>2. CASE command' = [command EXCEPT ![n].call = "ok", ![n].handle = slot'.owner]
      BY <1>1, <3>2
    <3>3. CASE Answers(n, "refused")
      BY ZenonT(60), <1>1, <3>1, <3>3 DEF Answers, Command
    <3> QED
      BY <1>4, <3>2, <3>3 DEF ServesAsk
  <2> DEFINE c == [command[n] EXCEPT !.call = reply, !.handle = id]
  <2>5. c \in Command
    BY <1>1, <2>3 DEF Command
  <2>6. /\ c.at = "asking" /\ c.playing = command[n].playing /\ c.call = reply /\ c.handle = id
        /\ c.spent \in Nat
    BY <1>1, <1>2, <1>3, ConstantsAreNumbers DEF Command
  <2>7. command' = [command EXCEPT ![n] = c] /\ command'[n] = c
    BY <1>1, <2>4
  <2> HIDE DEF c
  <2>8. HoldsSlot(n)'
    BY <1>3, <2>3, <2>6, <2>7, ConstantsAreNumbers DEF HoldsSlot, Knows
  <2> QED
    BY <1>2, <1>3, <2>2, <2>5, <2>6, <2>7, <2>8, AnswerFrame DEF Speaking, Stoppable
<1>5. CASE ~CanCreate
  <2>1. Answers(n, "refused") /\ UNCHANGED slot
    BY <1>5 DEF ServesAsk
  <2>2. PICK c \in Command :
          /\ c.at = "asking" /\ c.playing = command[n].playing /\ c.call = "refused" /\ c.handle = command[n].handle
          /\ c.spent = command[n].spent
          /\ command' = [command EXCEPT ![n] = c] /\ command'[n] = c
    BY <1>2, <1>3, <2>1, AnswerIsCommand
  <2>3. HoldsSlot(n)'
    BY <1>1, <1>2, <1>3, <2>1, <2>2 DEF HoldsSlot, Knows, Owns, CommandInv
  <2>4. SlotInv' /\ \A m \in Commands : Spares(m)
    BY <2>1, SlotStays
  <2> QED
    BY <1>2, <1>3, <2>1, <2>2, <2>3, <2>4, AnswerFrame DEF Speaking, Stoppable
<1> QED
  BY <1>4, <1>5

LEMMA ServesPollKeeps ==
  ASSUME IInv, UNCHANGED browser, NEW n \in Commands, ServesPoll(n)
  PROVE  IInv'
<1> DEFINE id == command[n].handle
           reply == IF ~Owns(id) \/ slot.phase \in {"draining", "blocked"} THEN "refused"
                    ELSE IF slot.held THEN "ok" ELSE "later"
<1>1. command[n] \in Command /\ CommandInv(n) /\ SlotInv
  BY Known
<1>2. /\ command[n].at \in {"waiting", "playing"} /\ command[n].call = "sent"
      /\ UNCHANGED <<files, attempts>> /\ slot' = AuditionSeen(id) /\ Answers(n, reply)
  BY DEF ServesPoll, Answered
<1>3. PICK c \in Command :
        /\ c.at = command[n].at /\ c.playing = command[n].playing /\ c.call = reply
        /\ c.handle = id /\ c.waited = command[n].waited /\ c.spent = command[n].spent
        /\ command' = [command EXCEPT ![n] = c] /\ command'[n] = c
  BY <1>2, AnswerIsCommand
<1>4. /\ SlotInv' /\ slot'.made = slot.made /\ \A m \in Commands : Spares(m)
      /\ slot'.owner = slot.owner /\ slot'.held = slot.held /\ slot'.age = slot.age
  BY <1>2, SlotIsBeaten, SlotStays DEF AuditionSeen
<1>5. reply # "refused" => slot'.silent = 0
  BY <1>2, SlotIsBeaten DEF AuditionSeen
<1>6. command[n].at = "playing" => reply = "ok"
  <2>1. command[n].at = "playing" => Knows(n)
    BY <1>1 DEF CommandInv, Locks, Knows
  <2> QED
    BY <2>1, OwnerKnows DEF Owns
<1>7. HoldsSlot(n)'
  <2>1. Knows(n)' => reply = "ok"
    BY <1>1, <1>2, <1>3, <1>6 DEF Knows, CommandInv, Locks
  <2>2. reply = "ok" => /\ slot'.owner = id /\ id # 0 /\ slot'.held /\ slot'.silent = 0
    BY <1>4, <1>5 DEF Owns
  <2>3. reply = "ok" => Silence(n)' = command[n].waited /\ command[n].waited \in Nat
    BY <1>1, <1>2, <1>3, ConstantsAreNumbers DEF Silence, Command
  <2>4. slot'.owner = id /\ id # 0 => slot'.age <= command[n].spent
    BY <1>1, <1>2, <1>4 DEF CommandInv, HoldsSlot, Owns, Stoppable
  <2> HIDE DEF reply
  <2>5. Knows(n)' => /\ slot'.owner = command'[n].handle /\ command'[n].handle # 0
                     /\ slot'.held /\ slot'.silent <= Silence(n)'
    BY <1>3, <2>1, <2>2, <2>3
  <2> QED
    BY <1>3, <2>4, <2>5, ActorHolds
<1>8. reply \in {"ok", "later", "refused"}
  OBVIOUS
<1> HIDE DEF reply
<1> QED
  BY <1>2, <1>3, <1>4, <1>6, <1>7, <1>8, AnswerFrame DEF Speaking, Stoppable

LEMMA ServesAudioKeeps ==
  ASSUME IInv, UNCHANGED browser, NEW n \in Commands, ServesAudio(n)
  PROVE  IInv'
<1>1. command[n] \in Command /\ CommandInv(n)
  BY Known
<1>2. PICK reply \in {"ok", "refused"} :
        /\ command[n].at = "fetching" /\ command[n].call = "sent"
        /\ Answers(n, reply) /\ UNCHANGED <<slot, files, attempts>>
  BY DEF ServesAudio, Answered
<1>3. PICK c \in Command :
        /\ c.at = "fetching" /\ c.playing = command[n].playing /\ c.call = reply
        /\ c.handle = command[n].handle /\ c.waited = command[n].waited
        /\ c.spent = command[n].spent
        /\ command' = [command EXCEPT ![n] = c] /\ command'[n] = c
  BY <1>2, AnswerIsCommand
<1>4. SlotInv' /\ \A m \in Commands : Spares(m)
  BY <1>2, SlotStays
<1>5. HoldsSlot(n)'
  <2>1. Knows(n) /\ Silence(n)' = Silence(n)
    BY <1>2, <1>3 DEF Knows, Silence
  <2> QED
    BY <1>1, <1>2, <1>3, <2>1, ActorHolds DEF CommandInv, HoldsSlot, Owns
<1> QED
  BY <1>2, <1>3, <1>4, <1>5, AnswerFrame DEF Speaking, Stoppable

LEMMA ServesEndKeeps ==
  ASSUME IInv, UNCHANGED browser, NEW n \in Commands, ServesEnd(n)
  PROVE  IInv'
<1>1. command[n] \in Command /\ CommandInv(n)
  BY Known
<1>2. /\ command[n].at = "ending" /\ command[n].call = "sent"
      /\ Answers(n, "ok") /\ UNCHANGED <<files, attempts>>
      /\ slot' = IF Owns(command[n].handle) THEN Ended ELSE slot
  BY DEF ServesEnd, Answered
<1>3. PICK c \in Command :
        /\ c.at = "ending" /\ c.playing = command[n].playing /\ c.call = "ok"
        /\ c.handle = command[n].handle
        /\ command' = [command EXCEPT ![n] = c] /\ command'[n] = c
  BY <1>2, AnswerIsCommand
<1>4. ~command[n].playing
  BY <1>1, <1>2 DEF CommandInv, Locks
<1>5. \A m \in Commands : Owns(command[n].handle) => ~Knows(m)
  <2> SUFFICES ASSUME NEW m \in Commands, Owns(command[n].handle), Knows(m) PROVE FALSE
    OBVIOUS
  <2>1. command[m].handle = command[n].handle /\ command[n].handle # 0
    BY OwnerKnows DEF Owns
  <2>2. m = n
    BY <2>1 DEF IInv, HandlesDiffer
  <2> QED
    BY <1>2, <1>4, <2>2 DEF Knows
<1>6. SlotInv' /\ slot'.made = slot.made /\ \A m \in Commands : Spares(m)
  BY <1>1, <1>2, <1>5, SlotIsEnded, SlotStays
<1>7. HoldsSlot(n)'
  BY <1>3, <1>4 DEF HoldsSlot, Knows, Stoppable
<1> QED
  BY <1>2, <1>3, <1>6, <1>7, AnswerFrame DEF Speaking, Stoppable

\* A command that is asked to stop goes on as before.
LEMMA StopSpeakingKeeps ==
  ASSUME IInv, UNCHANGED browser, StopSpeaking
  PROVE  IInv'
<1>1. PICK n \in Commands : n = files.socket
  BY NarrationKnown DEF StopSpeaking, Listening, Files
<1> DEFINE c == [command[n] EXCEPT !.stop = TRUE]
<1>2. command[n] \in Command /\ CommandInv(n) /\ command \in [Commands -> Command]
  BY Known
<1>3. command[n].at \in Stoppable /\ UNCHANGED <<slot, files, attempts>>
  BY <1>1 DEF StopSpeaking
<1>4. /\ c \in Command /\ c.at = command[n].at /\ c.playing = command[n].playing
      /\ c.call = command[n].call /\ c.handle = command[n].handle
      /\ c.waited = command[n].waited /\ c.spent = command[n].spent
  BY <1>2 DEF Command
<1>5. command' = [command EXCEPT ![n] = c] /\ command'[n] = c
  BY <1>1, <1>2 DEF StopSpeaking
<1> HIDE DEF c
<1>6. HoldsSlot(n)'
  <2>1. (Knows(n)' <=> Knows(n)) /\ Silence(n)' = Silence(n)
    BY <1>4, <1>5 DEF Knows, Silence
  <2> QED
    BY <1>2, <1>3, <1>4, <1>5, <2>1, ActorHolds DEF CommandInv, HoldsSlot, Owns
<1> QED
  BY <1>2, <1>3, <1>4, <1>5, <1>6, SpeakFrame DEF Speaking, CommandInv, Locks

-----------------------------------------------------------------------------
(* Time.                                                                   *)

LEMMA SlotTicks ==
  ASSUME IInv, slot' = SlotAfterTick
  PROVE  /\ SlotInv' /\ slot'.made = slot.made /\ slot'.owner = slot.owner
         /\ slot'.held = slot.held
         /\ slot'.silent <= slot.silent + 1 /\ slot'.age <= slot.age + 1
<1>1. SlotInv
  BY NarrationKnown
<1>2. /\ slot.silent \in 0..HeartbeatTicks + 1 /\ slot.age \in 0..AuditionTicks + 1
  BY <1>1 DEF SlotInv, Slot
<1>3. CASE slot.phase \notin {"starting", "active"}
  BY <1>1, <1>2, <1>3, ConstantsAreNumbers DEF SlotAfterTick, SlotInv, PlaybackIsActive
<1>4. CASE slot.phase \in {"starting", "active"}
  <2>1. PICK silent \in 0..HeartbeatTicks + 1, age \in 0..AuditionTicks + 1 :
          /\ slot' = [slot EXCEPT !.silent = silent, !.age = age]
          /\ silent <= slot.silent + 1 /\ age <= slot.age + 1
    <3> DEFINE silent == Later(slot.silent, HeartbeatTicks)
               age == IF slot.kind = "audition" THEN Later(slot.age, AuditionTicks) ELSE 0
    <3>1. silent \in 0..HeartbeatTicks + 1 /\ silent <= slot.silent + 1
      BY <1>2, ConstantsAreNumbers DEF Later
    <3>2. age \in 0..AuditionTicks + 1 /\ age <= slot.age + 1
      BY <1>2, ConstantsAreNumbers DEF Later
    <3>3. slot' = [slot EXCEPT !.silent = silent, !.age = age]
      BY <1>4 DEF SlotAfterTick
    <3> HIDE DEF silent, age
    <3> QED
      BY <3>1, <3>2, <3>3
  <2>2. /\ slot' \in Slot /\ slot'.silent = silent /\ slot'.age = age /\ slot'.made = slot.made
        /\ slot'.owner = slot.owner /\ slot'.held = slot.held /\ slot'.phase = slot.phase
    BY <1>1, <2>1 DEF SlotInv, Slot
  <2> QED
    BY <1>1, <2>1, <2>2 DEF SlotInv, PlaybackIsActive
<1> QED
  BY <1>3, <1>4

\* A command that waits grows older by as much as the slot does.
LEMMA CommandTicks ==
  ASSUME IInv, Tick, NEW n \in Commands
  PROVE  /\ command'[n] \in Command /\ command'[n].handle = command[n].handle
         /\ CommandInv(n)'
<1>1. command[n] \in Command /\ CommandInv(n) /\ SlotInv
  BY Known
<1>2. /\ command'[n] = CommandAfterTick(n) /\ Punctual(n) /\ UNCHANGED files
      /\ slot' = SlotAfterTick
  BY DEF Tick
<1>3. CASE command[n].at \notin Speaking
  <2>1. command'[n] = command[n]
    BY <1>2, <1>3 DEF CommandAfterTick
  <2>2. CommandInv(n)'
    BY <1>1, <1>2, <1>3, <2>1
    DEF CommandInv, Admission, Locks, HoldsSlot, Knows, Speaking, Stoppable
  <2> QED
    BY <1>1, <2>1, <2>2
<1>4. CASE command[n].at \in Speaking
  <2>1. command[n].call # "none" /\ command[n].waited \in 0..ApiTicks
        /\ command[n].spent \in 0..NarrationTicks
    BY <1>1, <1>2, <1>4 DEF Punctual, Command
  <2>2. PICK spent \in 0..NarrationTicks :
          /\ command'[n] = [command[n] EXCEPT !.waited = @ + 1, !.spent = spent]
          /\ command[n].at # "ending" => spent = command[n].spent + 1
    <3> DEFINE spent == IF command[n].at = "ending" THEN command[n].spent
                        ELSE command[n].spent + 1
    <3>1. spent \in 0..NarrationTicks
      BY <1>2, <1>4, <2>1, ConstantsAreNumbers DEF Punctual
    <3>2. command'[n] = [command[n] EXCEPT !.waited = @ + 1, !.spent = spent]
      BY <1>2, <1>4 DEF CommandAfterTick
    <3>3. command[n].at # "ending" => spent = command[n].spent + 1
      OBVIOUS
    <3> HIDE DEF spent
    <3> QED
      BY <3>1, <3>2, <3>3
  <2>3. command[n].waited + 1 \in 0..ApiTicks
    BY <1>2, <1>4, <2>1, ConstantsAreNumbers DEF Punctual
  <2>4. /\ command'[n] \in Command /\ command'[n].at = command[n].at
        /\ command'[n].handle = command[n].handle /\ command'[n].call = command[n].call
        /\ command'[n].playing = command[n].playing /\ command'[n].turn = command[n].turn
        /\ command'[n].waited = command[n].waited + 1 /\ command'[n].spent = spent
    BY <1>1, <2>2, <2>3 DEF Command
  <2>5. Admission(n)' /\ Locks(n)'
    BY <1>1, <1>2, <2>1, <2>4 DEF CommandInv, Admission, Locks
  <2>6. /\ slot'.owner = slot.owner /\ slot'.held = slot.held
        /\ slot'.silent <= slot.silent + 1 /\ slot'.age <= slot.age + 1
        /\ slot.silent \in Nat /\ slot.age \in Nat /\ slot' \in Slot
    BY <1>1, <1>2, SlotTicks, ConstantsAreNumbers DEF SlotInv, Slot
  <2>7. slot'.silent \in Nat /\ slot'.age \in Nat
    BY <2>6, ConstantsAreNumbers DEF Slot
  <2>8. Knows(n)' => /\ slot'.owner = command'[n].handle /\ command'[n].handle # 0
                     /\ slot'.held /\ slot'.silent <= Silence(n)'
    <3> SUFFICES ASSUME Knows(n)'
                 PROVE  /\ slot'.owner = command[n].handle /\ command[n].handle # 0
                        /\ slot'.held /\ slot'.silent <= Silence(n)'
      BY <2>4
    <3>1. Knows(n)
      BY <2>4 DEF Knows
    <3>2. command[n].at # "leaving"
      BY <1>1, <2>1 DEF CommandInv, Locks
    <3>3. Silence(n)' = Silence(n) + 1 /\ Silence(n) \in Nat
      BY <2>1, <2>4, <3>2, ConstantsAreNumbers DEF Silence
    <3>4. Owns(command[n].handle) /\ slot.held /\ slot.silent <= Silence(n)
      BY <1>1, <3>1 DEF CommandInv, HoldsSlot
    <3> QED
      BY <2>6, <2>7, <3>3, <3>4 DEF Owns
  <2>9. (command'[n].at \in Stoppable \cup {"leaving"} /\ slot'.owner = command'[n].handle
           /\ command'[n].handle # 0) => slot'.age <= command'[n].spent
    <3> SUFFICES ASSUME command[n].at \in Stoppable \cup {"leaving"}, Owns(command[n].handle)
                 PROVE  slot'.age <= spent
      BY <2>4, <2>6 DEF Owns
    <3>1. slot.age <= command[n].spent /\ spent = command[n].spent + 1
      BY <1>1, <2>2 DEF CommandInv, HoldsSlot, Stoppable
    <3> QED
      BY <2>1, <2>6, <2>7, <3>1, ConstantsAreNumbers
  <2>10. HoldsSlot(n)'
    BY <2>8, <2>9, ActorHolds
  <2> QED
    BY <2>4, <2>5, <2>10 DEF CommandInv
<1> QED
  BY <1>3, <1>4

LEMMA TickKeeps ==
  ASSUME IInv, Tick
  PROVE  IInv'
<1>1. /\ slot' = SlotAfterTick /\ UNCHANGED <<page, start, ender, beat, files, attempts>>
      /\ command' = [n \in Commands |-> CommandAfterTick(n)]
  BY DEF Tick, browser
<1>2. SlotInv' /\ slot'.made = slot.made
  BY <1>1, SlotTicks
<1>3. \A n \in Commands : /\ command'[n] \in Command /\ command'[n].handle = command[n].handle
                          /\ CommandInv(n)'
  BY CommandTicks
<1>4. command' \in [Commands -> Command]
  BY <1>1, <1>3
<1>5. ClientsTypeOK'
  BY <1>1, <1>2, <1>4 DEF IInv, ClientsTypeOK, NarrationTypeOK, PageTypeOK, SlotInv
<1>6. IdsAreMade' /\ HandlesDiffer' /\ PageInv'
  BY <1>1, <1>2, <1>3 DEF IInv, IdsAreMade, HandlesDiffer, PageInv, CaptureHasOwner, SlotInv
<1> QED
  BY <1>2, <1>3, <1>5, <1>6 DEF IInv, SlotInv

-----------------------------------------------------------------------------
(* The theorems.                                                           *)

LEMMA SomeCommand == \E n \in Commands : TRUE
<1>1. 1 \in Commands
  BY NarrationConstants DEF Commands
<1> QED
  BY <1>1

LEMMA InitHolds ==
  ASSUME Init
  PROVE  IInv
<1> USE DEF Init, SlotInit, PageInit, NarrationInit
<1>1. slot \in Slot
  BY ConstantsAreNumbers DEF Slot, Free
<1>2. PageTypeOK
  BY ConstantsAreNumbers DEF PageTypeOK, Page, NewPage, NoStart, Code
<1>3. NewCommand \in Command
  <2>1. /\ 0 \in 0..MaxOwners /\ 0 \in 0..ApiTicks /\ 0 \in 0..NarrationTicks
    BY ConstantsAreNumbers
  <2> QED
    BY <2>1 DEF NewCommand, Command
<1>4. NarrationTypeOK
  BY <1>3, ConstantsAreNumbers DEF NarrationTypeOK, Files
<1>5. IdsAreMade /\ HandlesDiffer /\ PlaybackIsActive
  BY DEF IdsAreMade, HandlesDiffer, PlaybackIsActive, Free, NewPage, NoStart, NewCommand
<1>6. PageInv
  BY DEF PageInv, CaptureHasOwner, NewPage, NoStart
<1>7. \A n \in Commands : CommandInv(n)
  BY DEF CommandInv, Admission, Locks, HoldsSlot, Knows, NewCommand, Speaking, Stoppable
<1> QED
  BY <1>1, <1>2, <1>4, <1>5, <1>6, <1>7 DEF IInv, ClientsTypeOK

LEMMA StepKeeps ==
  ASSUME IInv, [Next]_vars
  PROVE  IInv'
<1>1. CASE Broker
  <2>1. PageKeeps
    BY <1>1, StartsStay, PageKnown DEF Broker, browser, PageInv, CaptureHasOwner
  <2>2. SlotInv' /\ slot'.made = slot.made /\ \A m \in Commands : Spares(m)
    BY <1>1, BrokerSpares, SomeCommand DEF Broker
  <2> QED
    BY <1>1, <2>1, <2>2, PageFrame DEF Broker
<1>2. CASE PageDoes
  <2>1. SlotInv' /\ slot'.made = slot.made /\ \A m \in Commands : Spares(m)
    BY <1>2, PageSpares, SomeCommand DEF PageDoes
  <2> QED
    BY <1>2, <2>1, PageStepKeeps, PageFrame DEF PageDoes
<1>3. CASE PageServed
  BY <1>3, PageServesKeeps DEF PageServed, ServesPage
<1>4. CASE NarratorDoes
  <2> SUFFICES ASSUME NEW n \in Commands, NarratorStep(n), UNCHANGED browser PROVE IInv'
    BY <1>4 DEF NarratorDoes
  <2>1. CASE \E t \in Turns : Notifies(n, t)
    BY <2>1, NotifiesKeeps
  <2>2. CASE Admits(n)
    BY <2>2, AdmitsKeeps
  <2>3. CASE Speaks(n) \/ ChecksMute(n) \/ TakesLock(n) \/ OpensSocket(n)
    BY <2>3, EarlyKeeps
  <2>4. CASE Continues(n)
    BY <2>4, ContinuesKeeps
  <2>5. CASE StartsPlayer(n)
    BY <2>5, StartsPlayerKeeps
  <2>6. CASE Leaves(n)
    BY <2>6, LeavesKeeps
  <2>7. CASE PlayerStops(n)
    BY <2>7, PlayerStopsKeeps
  <2>8. CASE EndReturns(n)
    BY <2>8, EndReturnsKeeps
  <2>9. CASE Finishes(n) \/ Killed(n)
    BY <2>9, ProcessEndsKeeps
  <2> QED
    BY <2>1, <2>2, <2>3, <2>4, <2>5, <2>6, <2>7, <2>8, <2>9 DEF NarratorStep
<1>5. CASE NarratorServed
  <2> SUFFICES ASSUME NEW n \in Commands, ServesNarrator(n), UNCHANGED browser PROVE IInv'
    BY <1>5 DEF NarratorServed
  <2> QED
    BY ServesAskKeeps, ServesPollKeeps, ServesAudioKeeps, ServesEndKeeps DEF ServesNarrator
<1>6. CASE OtherCommand
  BY <1>6, StopSpeakingKeeps DEF OtherCommand
<1>7. CASE Tick
  BY <1>7, TickKeeps
<1>8. CASE UNCHANGED vars
  BY <1>8 DEF vars, IInv, ClientsTypeOK, NarrationTypeOK, PageTypeOK, IdsAreMade, HandlesDiffer,
              PlaybackIsActive, PageInv, CaptureHasOwner, CommandInv, Admission, Locks,
              HoldsSlot, Knows, Silence, Owns
<1> QED
  BY <1>1, <1>2, <1>3, <1>4, <1>5, <1>6, <1>7, <1>8 DEF Next

\* Every reachable state has the inductive invariant.
THEOREM InductiveInvariant == Spec => []IInv
<1>1. Init => IInv
  BY InitHolds
<1>2. IInv /\ [Next]_vars => IInv'
  BY StepKeeps
<1> QED
  BY <1>1, <1>2, PTL DEF Spec

\* The variables keep their types, so that no request and no narration passes its time limit.
THEOREM TypeCorrect == Spec => []ClientsTypeOK
<1>1. IInv => ClientsTypeOK
  BY DEF IInv
<1> QED
  BY <1>1, InductiveInvariant, PTL

\* A narration is heard only while it holds the slot, whoever else wants the slot and however
\* late the answers come, by the time limits of the narrator and of the broker.
THEOREM NarrationSafety == Spec => []NarrationHoldsSlot
<1>1. IInv => NarrationHoldsSlot
  <2> SUFFICES ASSUME IInv, NEW n \in Commands, command[n].playing
               PROVE  /\ Owns(command[n].handle) /\ slot.held
                      /\ files.socket = n /\ files.lock = n
    BY DEF NarrationHoldsSlot
  <2>1. CommandInv(n) /\ Knows(n)
    BY Known DEF Knows
  <2>2. command[n].at \in Speaking
    BY <2>1 DEF CommandInv, Locks, Speaking, Stoppable
  <2> QED
    BY <2>1, <2>2 DEF CommandInv, Locks, HoldsSlot
<1> QED
  BY <1>1, InductiveInvariant, PTL

\* A page that is in a room has a session that it can end, whatever ran across each other in it.
THEOREM CaptureSafety == Spec => []CaptureHasOwner
<1>1. IInv => CaptureHasOwner
  BY DEF IInv, PageInv
<1> QED
  BY <1>1, InductiveInvariant, PTL

\* The narration of a turn that has a receipt is never begun again.
THEOREM OneAttempt == Spec => AtMostOneAttempt
<1>1. IInv /\ [Next]_vars =>
        [\A t \in Turns : attempts'[t] # attempts[t] => ~Contains(files.ledger, t)]_vars
  <2> SUFFICES ASSUME IInv, Next, NEW t \in Turns, attempts'[t] # attempts[t]
               PROVE  ~Contains(files.ledger, t)
    OBVIOUS
  <2>1. PICK n \in Commands : Admits(n)
    BY DEF Next, Broker, PageDoes, PageServed, NarratorDoes, NarratorServed, OtherCommand, Tick,
           narration, NarratorStep, ServesNarrator, Notifies, Speaks, ChecksMute, TakesLock,
           OpensSocket, Continues, StartsPlayer, Leaves, PlayerStops, EndReturns, Finishes,
           Killed, ServesAsk, ServesPoll, ServesAudio, ServesEnd, StopSpeaking
  <2>2. command[n].turn = t
    BY <2>1, NarrationKnown DEF Admits
  <2> QED
    BY <2>1, <2>2, Known DEF Admits, CommandInv, Admission
<1> QED
  BY <1>1, InductiveInvariant, PTL DEF Spec, AtMostOneAttempt

=============================================================================
