-------------------------- MODULE RecognizerStream --------------------------
(***************************************************************************)
(* A stream of the Nemotron recognizer (examples/nemotron_stt.py): the     *)
(* bounded audio channel that the session fills, the attempts to connect   *)
(* to the local server, and on each connection a sender, a receiver and a  *)
(* watcher for overload, of which the first to finish ends the attempt.    *)
(* An action is the code of one task between two awaits.  Sound is counted *)
(* in units, words are the number of the utterance they belong to, and the *)
(* phases, which only word the errors, are left out.                       *)
(***************************************************************************)
EXTENDS Integers, Sequences

CONSTANTS
  BaseLimit,   \* max_buffer_bytes
  Reserve,     \* what a finalization adds to it: finalize_timeout of sound
  MaxItems,    \* maxsize of the channel: 2048
  EventLimit,  \* events that nobody has read: 128
  MaxRetry,    \* conn_options.max_retry
  SendCap, ReceiveCap,  \* messages the socket holds on the way to the server and back
  MaxFrame,    \* the longest frame, in units
  MaxAudio     \* bound on the sound accepted in one behaviour

ASSUME ConstantsOK ==
  /\ BaseLimit \in Nat \ {0} /\ Reserve \in Nat \ {0} /\ MaxItems \in Nat \ {0}
  /\ EventLimit \in Nat \ {0} /\ MaxRetry \in Nat /\ SendCap \in Nat \ {0}
  /\ ReceiveCap \in Nat \ {0, 1}
  /\ MaxFrame \in Nat \ {0} /\ MaxAudio \in Nat

VARIABLES
  input,         \* the _AudioChannel
  overloaded,    \* _overloaded
  main,          \* where _main_task and _run stand
  retries,       \* attempts that ended in a retry
  sentAudio,     \* _sent_audio
  sender,        \* _send: its place, the frame in its hand, audio_bytes
  receiver,      \* _receive
  watcher,       \* _wait_overload
  commitPending, \* _commit_pending
  committed,     \* the event _committed
  started,       \* _started
  partial,       \* the utterances whose words are in _partial
  events,        \* events that were emitted and not read
  toServer, toClient, up,  \* the socket
  server,        \* the recognizer: it holds sound; the commits it has answered
  heard,         \* what the reader knows: someone speaks; the usages it got
  accepted, billed, dropped  \* sound taken from the session; in usages; lost in a retry

channel == <<input, overloaded>>
commits == <<commitPending, committed>>
speech  == <<started, partial>>
socket  == <<toServer, toClient, up, server>>
ledger  == <<accepted, billed, dropped>>

vars == <<channel, main, retries, sentAudio, sender, receiver, watcher, commits, speech, events,
          socket, heard, ledger>>

\* Channel and socket hold frames, as their length, and the end of an utterance.
Flush == 0
Item  == 0..MaxFrame

Event  == [type : {"start", "interim", "final", "end", "usage"}, text : SUBSET Nat]
Answer == [kind : {"delta", "completed", "committed", "bad"}, text : SUBSET Nat]

Mark(type) == [type |-> type, text |-> {}]

Over == main \in {"ended", "failed", "closed"}

TypeOK ==
  /\ input \in [items : Seq(Item), bytes : Int, limit : Nat, reserved : BOOLEAN, closed : BOOLEAN]
  /\ Len(input.items) <= MaxItems
  /\ overloaded \in BOOLEAN /\ sentAudio \in BOOLEAN
  /\ main \in {"connection", "handshake", "streaming", "backoff", "ended", "failed", "closed"}
  /\ retries \in 0..MaxRetry
  /\ sender \in [at : {"off", "receiving", "sending", "committing", "finalizing", "returned",
                       "failed"}, holding : Item, unbilled : Nat]
  /\ receiver \in {"off", "reading", "lost", "failed"}
  /\ watcher \in {"off", "waiting", "raised"}
  /\ commitPending \in BOOLEAN /\ committed \in BOOLEAN
  /\ started \in BOOLEAN /\ partial \in SUBSET Nat
  /\ events \in Seq(Event) /\ Len(events) <= EventLimit
  /\ toServer \in Seq(Item) /\ toClient \in Seq(Answer) /\ up \in BOOLEAN
  /\ server \in [audio : BOOLEAN, commits : Nat]
  /\ heard \in [speaking : BOOLEAN, usages : Nat]
  /\ accepted \in Nat /\ billed \in Nat /\ dropped \in Nat

Idle  == [at |-> "off", holding |-> 0, unbilled |-> 0]
Fresh == [audio |-> FALSE, commits |-> 0]

Init ==
  /\ input = [items |-> <<>>, bytes |-> 0, limit |-> BaseLimit,
              reserved |-> FALSE, closed |-> FALSE]
  /\ overloaded = FALSE /\ main = "connection" /\ retries = 0 /\ sentAudio = FALSE
  /\ sender = Idle /\ receiver = "off" /\ watcher = "off"
  /\ commitPending = FALSE /\ committed = FALSE
  /\ started = FALSE /\ partial = {} /\ events = <<>>
  /\ toServer = <<>> /\ toClient = <<>> /\ up = FALSE /\ server = Fresh
  /\ heard = [speaking |-> FALSE, usages |-> 0]
  /\ accepted = 0 /\ billed = 0 /\ dropped = 0

-----------------------------------------------------------------------------
(* The audio channel.                                                      *)

\* Slip: only the sound is bounded.
FitsSound(n) == input.bytes + n <= input.limit

Fits(n) == Len(input.items) < MaxItems /\ input.bytes + n <= input.limit

\* Slip: the limit shrinks under a backlog that is above it.
TrimAlways(ch) == IF ch.reserved THEN ch ELSE [ch EXCEPT !.limit = BaseLimit]

Trim(ch) ==
  IF ~ch.reserved /\ ch.bytes <= BaseLimit THEN [ch EXCEPT !.limit = BaseLimit] ELSE ch

Reserved(ch) == [ch EXCEPT !.reserved = TRUE, !.limit = BaseLimit + Reserve]
Released(ch) == Trim([ch EXCEPT !.reserved = FALSE])

\* recv_nowait()
Taken ==
  LET rest == [input EXCEPT !.items = Tail(@), !.bytes = @ - Head(input.items)]
  IN IF Head(input.items) = Flush THEN rest ELSE Trim(rest)

Session == UNCHANGED <<main, retries, sentAudio, sender, receiver, watcher, commits, speech,
                       events, socket, heard, billed, dropped>>

Queued(item, closes) ==
  IF Fits(item)
  THEN /\ input' = [input EXCEPT !.items = Append(@, item), !.bytes = @ + item, !.closed = closes]
       /\ UNCHANGED overloaded
  ELSE /\ overloaded' = TRUE      \* _record_overload, and a BufferError for the caller
       /\ UNCHANGED input

Writable == ~Over /\ ~input.closed

PushFrame(n) ==
  /\ Writable
  /\ accepted + n <= MaxAudio
  /\ Queued(n, FALSE)
  /\ accepted' = accepted + (IF Fits(n) THEN n ELSE 0)
  /\ Session

CommitUtterance ==
  /\ Writable /\ ~overloaded
  /\ Queued(Flush, FALSE)
  /\ Session /\ UNCHANGED accepted

\* end_input() flushes first: when that fails, the input stays open.
EndInput ==
  /\ Writable
  /\ Queued(Flush, TRUE)
  /\ Session /\ UNCHANGED accepted

ReadEvent ==
  /\ events # <<>> /\ main # "closed"
  /\ events' = Tail(events)
  /\ heard' = LET type == Head(events).type
              IN [speaking |-> type = "start" \/ (heard.speaking /\ type # "end"),
                  usages |-> heard.usages + (IF type = "usage" THEN 1 ELSE 0)]
  /\ UNCHANGED <<channel, main, retries, sentAudio, sender, receiver, watcher, commits, speech,
                 socket, ledger>>

-----------------------------------------------------------------------------
(* The attempts.                                                           *)

\* The tasks are cancelled; a finalization gives its reserve back.
TasksEnd ==
  /\ input' = IF input.reserved THEN Released(input) ELSE input
  /\ sender' = Idle /\ receiver' = "off" /\ watcher' = "off"

\* Slip: whatever has not been acknowledged may be tried again.
MayRetryUnlessBilled(retryable) == billed = 0 /\ retries < MaxRetry

MayRetry(retryable) == retryable /\ retries < MaxRetry

\* _main_task of the base class, on an error of the attempt.
GiveUp(retryable) ==
  IF MayRetry(retryable)
  THEN /\ main' = "backoff" /\ retries' = retries + 1
       /\ dropped' = dropped + sender.holding + sender.unbilled
  ELSE /\ main' = "failed"
       /\ UNCHANGED <<retries, dropped>>

Hangup == toServer' = <<>> /\ toClient' = <<>> /\ up' = FALSE /\ server' = Fresh

Attempt == UNCHANGED <<overloaded, sentAudio, commits, speech, events, heard, accepted, billed>>

Connect ==
  /\ main = "connection"
  /\ main' = "handshake" /\ up' = TRUE
  /\ Attempt
  /\ UNCHANGED <<input, sender, receiver, watcher, retries, dropped, toServer, toClient, server>>

\* Refused, timed out, redirected, or not the answers of the protocol.
ConnectFails ==
  /\ main \in {"connection", "handshake"}
  /\ \E retryable \in {~sentAudio, FALSE} : GiveUp(retryable)
  /\ Hangup /\ Attempt
  /\ UNCHANGED <<input, sender, receiver, watcher>>

StreamBegins ==
  /\ main = "handshake"
  /\ main' = "streaming"
  /\ sender' = [Idle EXCEPT !.at = "receiving"] /\ receiver' = "reading" /\ watcher' = "waiting"
  /\ Attempt
  /\ UNCHANGED <<input, retries, dropped, socket>>

Fatal == sender.at = "failed" \/ receiver = "failed" \/ watcher = "raised"

\* asyncio.wait returned: whatever task is done by now, in any order.  A sender
\* returns after the input has ended; an overload was before, and its watcher,
\* woken first, is done too.
StreamEnds ==
  /\ main = "streaming"
  /\ \/ Fatal /\ GiveUp(FALSE)
     \/ receiver = "lost" /\ GiveUp(TRUE)
     \/ /\ sender.at = "returned" /\ receiver = "reading" /\ watcher = "waiting"
        /\ ~overloaded
        /\ main' = "ended" /\ UNCHANGED <<retries, dropped>>
  /\ TasksEnd /\ Hangup /\ Attempt

BackoffEnds ==
  /\ main = "backoff" /\ main' = "connection"
  /\ Attempt
  /\ UNCHANGED <<input, sender, receiver, watcher, retries, dropped, socket>>

Aclose ==
  /\ main # "closed" /\ main' = "closed"
  /\ input' = [(IF input.reserved THEN Released(input) ELSE input) EXCEPT !.closed = TRUE]
  /\ sender' = Idle /\ receiver' = "off" /\ watcher' = "off"
  /\ Hangup /\ Attempt
  /\ UNCHANGED <<retries, dropped>>

-----------------------------------------------------------------------------
(* The sender.                                                             *)

Sending == UNCHANGED <<overloaded, main, retries, receiver, watcher, speech, heard, accepted, dropped>>

TakesFrame ==
  /\ sender.at = "receiving" /\ input.items # <<>> /\ ~overloaded
  /\ Head(input.items) # Flush
  /\ input' = Taken
  /\ sentAudio' = TRUE
  /\ sender' = [sender EXCEPT !.at = "sending", !.holding = Head(input.items)]
  /\ Sending /\ UNCHANGED <<commits, events, socket, billed>>

\* Slip: a single frame is no utterance.
UtteranceOpenIfLong == sender.unbilled > 1

\* A flush after no sound is forgotten.
UtteranceOpen == sender.unbilled > 0

TakesFlush ==
  /\ sender.at = "receiving" /\ input.items # <<>> /\ ~overloaded
  /\ Head(input.items) = Flush
  /\ IF UtteranceOpen
     THEN /\ input' = Reserved(Taken)
          /\ sender' = [sender EXCEPT !.at = "committing"]
          /\ committed' = FALSE /\ commitPending' = TRUE
     ELSE input' = Taken /\ UNCHANGED <<sender, commits>>
  /\ Sending /\ UNCHANGED <<sentAudio, events, socket, billed>>

FindsOverload ==
  /\ sender.at = "receiving" /\ input.items # <<>> /\ overloaded
  /\ input' = Taken
  /\ sender' = [sender EXCEPT !.at = "failed"]
  /\ Sending /\ UNCHANGED <<sentAudio, commits, events, socket, billed>>

SendsFrame ==
  /\ sender.at = "sending" /\ up /\ Len(toServer) < SendCap
  /\ toServer' = Append(toServer, sender.holding)
  /\ sender' = [at |-> "receiving", holding |-> 0, unbilled |-> sender.unbilled + sender.holding]
  /\ Sending /\ UNCHANGED <<input, sentAudio, commits, events, toClient, up, server, billed>>

SendsCommit ==
  /\ sender.at = "committing" /\ up /\ Len(toServer) < SendCap
  /\ toServer' = Append(toServer, Flush)
  /\ sender' = [sender EXCEPT !.at = "finalizing"]
  /\ Sending /\ UNCHANGED <<input, sentAudio, commits, events, toClient, up, server, billed>>

Timed == {"sending", "committing", "finalizing"}

\* The socket is gone, or the timeout of the send or of the finalization has
\* passed.  Sound was sent, so none of them may be retried.
SendFails ==
  /\ sender.at \in Timed
  /\ input' = IF sender.at = "sending" THEN input ELSE Released(input)
  /\ sender' = [sender EXCEPT !.at = "failed"]
  /\ Sending /\ UNCHANGED <<sentAudio, commits, events, socket, billed>>

\* Slip: a commit that was sent is as good as done.
AnsweredOnceSent == TRUE

Answered == committed

Acknowledged ==
  /\ sender.at = "finalizing" /\ Answered
  /\ input' = Released(input)
  /\ IF Len(events) < EventLimit
     THEN /\ events' = Append(events, Mark("usage"))
          /\ billed' = billed + sender.unbilled
          /\ sender' = [sender EXCEPT !.at = "receiving", !.unbilled = 0]
     ELSE /\ sender' = [sender EXCEPT !.at = "failed"]
          /\ UNCHANGED <<events, billed>>
  /\ Sending /\ UNCHANGED <<sentAudio, commits, socket>>

SenderReturns ==
  /\ sender.at = "receiving" /\ input.items = <<>> /\ input.closed
  /\ sender' = [sender EXCEPT !.at = "returned"]
  /\ Sending /\ UNCHANGED <<input, sentAudio, commits, events, socket, billed>>

-----------------------------------------------------------------------------
(* The receiver and the watcher.                                           *)

Receiving == UNCHANGED <<channel, main, retries, sentAudio, sender, watcher, toServer, up, server,
                         heard, ledger>>

\* _emit of events in a row; the first that finds the buffer full fails the stream.
Emit(es) ==
  LET room == EventLimit - Len(events)
      fits == Len(es) <= room
  IN /\ events' = events \o SubSeq(es, 1, IF fits THEN Len(es) ELSE room)
     /\ receiver' = IF fits THEN "reading" ELSE "failed"

\* Words, after a start if they are the first.
Spoken(words) == IF started THEN words ELSE <<Mark("start")>> \o words

\* Slip: the words of the utterance before stay.
PartialGrows(m) == partial \cup m.text

PartialAfter(m) == IF m.kind = "completed" THEN {} ELSE partial \cup m.text

\* Slip: a final without words does not end the speech.
StartedUntilWords(m) == m.kind = "delta" \/ (started /\ m.text = {})

StartedAfter(m) == m.kind = "delta"

ReceivesWords ==
  /\ receiver = "reading" /\ toClient # <<>>
  /\ LET m == Head(toClient) IN
     /\ m.kind \in {"delta", "completed"}
     /\ partial' = PartialAfter(m)
     /\ started' = StartedAfter(m)
     /\ CASE m.kind = "delta" ->
               Emit(Spoken(<<[type |-> "interim", text |-> partial']>>))
          [] m.kind = "completed" /\ m.text # {} ->
               Emit(Spoken(<<[type |-> "final", text |-> m.text], Mark("end")>>))
          [] OTHER -> Emit(IF started THEN <<Mark("end")>> ELSE <<>>)
  /\ toClient' = Tail(toClient)
  /\ Receiving /\ UNCHANGED commits

ReceivesCommitted ==
  /\ receiver = "reading" /\ toClient # <<>> /\ Head(toClient).kind = "committed"
  /\ IF commitPending
     THEN commitPending' = FALSE /\ committed' = TRUE /\ UNCHANGED receiver
     ELSE receiver' = "failed" /\ UNCHANGED commits
  /\ toClient' = Tail(toClient)
  /\ Receiving /\ UNCHANGED <<speech, events>>

\* An error, what is not of the protocol, or a transcript that is too long.
ReceivesBad ==
  /\ receiver = "reading" /\ toClient # <<>> /\ Head(toClient).kind = "bad"
  /\ receiver' = "failed"
  /\ toClient' = Tail(toClient)
  /\ Receiving /\ UNCHANGED <<commits, speech, events>>

\* The error says now whether it may be retried.
FindsHangup ==
  /\ receiver = "reading" /\ toClient = <<>> /\ ~up
  /\ receiver' = IF sentAudio THEN "failed" ELSE "lost"
  /\ Receiving /\ UNCHANGED <<commits, speech, events, toClient>>

\* Slip: an overload is left to the sender.
OverloadInSend == overloaded /\ sender.at # "receiving"

OverloadSeen == overloaded

WatcherRaises ==
  /\ watcher = "waiting" /\ OverloadSeen
  /\ watcher' = "raised"
  /\ UNCHANGED <<channel, main, retries, sentAudio, sender, receiver, commits, speech, events,
                 socket, heard, ledger>>

-----------------------------------------------------------------------------
(* The recognizer of the local server, as the code uses it: it speaks only *)
(* of sound it holds, and answers a commit after the last words.           *)

Serving == /\ main = "streaming" /\ up
           /\ UNCHANGED <<channel, main, retries, sentAudio, sender, receiver, watcher, commits,
                          speech, events, heard, ledger>>

Says(answers) ==
  /\ Len(toClient) + Len(answers) <= ReceiveCap
  /\ toClient' = toClient \o answers

Words == {server.commits}

ServerTakesFrame ==
  /\ Serving
  /\ toServer # <<>> /\ Head(toServer) # Flush
  /\ toServer' = Tail(toServer)
  /\ server' = [server EXCEPT !.audio = TRUE]
  /\ UNCHANGED <<toClient, up>>

ServerCommits ==
  /\ Serving
  /\ toServer # <<>> /\ Head(toServer) = Flush
  /\ toServer' = Tail(toServer)
  /\ \E text \in {Words, {}} :
       Says(<<[kind |-> "completed", text |-> text], [kind |-> "committed", text |-> {}]>>)
  /\ server' = [audio |-> FALSE, commits |-> server.commits + 1]
  /\ UNCHANGED up

\* Its own endpointer, which would add finals, is off.
ServerSpeaks ==
  /\ Serving
  /\ server.audio
  /\ Says(<<[kind |-> "delta", text |-> Words]>>)
  /\ UNCHANGED <<toServer, up, server>>

ServerFails ==
  /\ Serving
  /\ \/ Says(<<[kind |-> "bad", text |-> {}]>>) /\ UNCHANGED up
     \/ up' = FALSE /\ UNCHANGED toClient
  /\ UNCHANGED <<toServer, server>>

-----------------------------------------------------------------------------
MainStep == Connect \/ ConnectFails \/ StreamBegins \/ StreamEnds \/ BackoffEnds

SenderStep ==
  \/ TakesFrame \/ TakesFlush \/ FindsOverload \/ SendsFrame \/ SendsCommit
  \/ SendFails \/ Acknowledged \/ SenderReturns

ReceiverStep == ReceivesWords \/ ReceivesCommitted \/ ReceivesBad \/ FindsHangup

Caller ==
  \/ CommitUtterance \/ EndInput \/ ReadEvent \/ Aclose
  \/ \E n \in 1..MaxFrame : PushFrame(n)

ServerStep == ServerTakesFrame \/ ServerCommits \/ ServerSpeaks \/ ServerFails

Next == MainStep \/ SenderStep \/ ReceiverStep \/ WatcherRaises \/ Caller \/ ServerStep

Spec == Init /\ [][Next]_vars

\* The tasks run, and every wait of theirs but the receiver's has a timeout.  The
\* session and the server may do nothing, and nothing depends on the receiver.
FairSpec == Spec /\ WF_vars(MainStep) /\ WF_vars(SenderStep) /\ WF_vars(WatcherRaises)

-----------------------------------------------------------------------------
(* What is promised.                                                       *)

\* A reserve granted for a finalization stays until its backlog has drained, and
\* no longer (_trim_limit).
LimitFollowsBacklog ==
  /\ input.bytes <= input.limit
  /\ input.limit \in {BaseLimit, BaseLimit + Reserve}
  /\ input.limit > BaseLimit <=> (input.reserved \/ input.bytes > BaseLimit)

\* However fast the session speaks and however slow the server and the reader are, what waits
\* is within its bounds: the sound, whose limit follows the backlog, the items of the channel
\* (send_nowait), and the events that nobody reads (_emit).
BacklogIsBounded ==
  /\ LimitFollowsBacklog
  /\ Len(input.items) <= MaxItems /\ Len(events) <= EventLimit

\* Sound is never sent into an utterance whose commit has no answer yet (_send):
\* the next one would lose its first words.
AudioWaitsForAck ==
  /\ \A i \in 1..Len(toServer) : toServer[i] = Flush => i = Len(toServer)
  /\ (\E i \in 1..Len(toClient) : toClient[i].kind = "committed") => toServer = <<>>

\* The sound of the items up to each of them.
SumsOf(items) == LET sum[i \in 0..Len(items)] == IF i = 0 THEN 0 ELSE sum[i - 1] + items[i] IN sum

TotalOf(items) == SumsOf(items)[Len(items)]

\* The channel counts the sound it holds, and a stream that ends without an error
\* has had an answer for all it took (_send, _run), except for what it was sending
\* when an attempt was retried.
SoundIsAccountedFor ==
  /\ input.bytes = TotalOf(input.items)
  /\ main = "ended" =>
       /\ input.items = <<>>
       /\ billed + dropped = accepted
       /\ dropped > 0 => retries > 0

\* The reader hears a start before any words, an end after them, and the usage
\* of an utterance when nobody speaks (_receive, _send).
SpeechIsBracketed ==
  events # <<>> =>
    CASE Head(events).type \in {"start", "usage"} -> ~heard.speaking
      [] OTHER -> heard.speaking

\* Words are of the utterance whose usage comes next: none arrive after it, and
\* none of the utterance before are told again (_receive).
TextIsOfUtterance == events # <<>> => Head(events).text \subseteq {heard.usages}

\* An attempt starts over only when nothing was heard on the one before, so the
\* state that _run does not reset is as it was at first.
RetryStartsClean ==
  main \in {"backoff", "connection", "handshake"} =>
    /\ ~started /\ partial = {} /\ events = <<>> /\ ~committed /\ ~input.reserved
    /\ heard = [speaking |-> FALSE, usages |-> 0]

\* A reserve lasts as long as a finalization.
ReserveIsHeld == input.reserved <=> sender.at \in {"committing", "finalizing"}

\* The socket carries at most one commit or its answer, and it is last; the sender
\* takes up sound again when neither is left, and what it holds then is sound.
OneCommit ==
  /\ \A i \in 1..Len(toClient) :
       toClient[i].kind = "committed" =>
         /\ \A j \in 1..Len(toClient) : toClient[j].kind = "committed" => i = j
         /\ toServer = <<>>
  /\ (sender.at \notin {"finalizing", "failed"} \/ (sender.at = "finalizing" /\ committed)) =>
       /\ \A i \in 1..Len(toServer) : toServer[i] # Flush
       /\ \A i \in 1..Len(toClient) : toClient[i].kind # "committed"
  /\ sender.at = "committing" => ~committed
  /\ sender.at = "sending" => sender.holding # Flush

Clean == ~started /\ partial = {} /\ events = <<>> /\ ~committed
         /\ heard = [speaking |-> FALSE, usages |-> 0]

\* Nothing is heard before sound was sent, nor after the receiver has lost the server.
SilentAtFirst ==
  /\ main \in {"backoff", "connection", "handshake"} => Clean
  /\ main # "streaming" => sender = Idle /\ receiver = "off" /\ toServer = <<>> /\ toClient = <<>>
                           /\ server = Fresh
  /\ receiver = "lost" => Clean /\ toClient = <<>> /\ ~up
  /\ ~sentAudio =>
       /\ main \in {"streaming", "ended", "failed", "closed"} => Clean
       /\ sender.at \notin {"sending", "committing", "finalizing"} /\ sender.unbilled = 0
       /\ toServer = <<>> /\ ~server.audio
       /\ \A i \in 1..Len(toClient) : toClient[i].kind = "bad"

\* Whether someone speaks after the first i of the events that are not read.
SpeaksAfter(i) ==
  IF i = 0 THEN heard.speaking ELSE events[i].type \in {"start", "interim", "final"}

InStep == started <=> SpeaksAfter(Len(events))

\* The answer to a commit follows the last words, and no words follow it.
EventsInOrder ==
  /\ \A i \in 1..Len(events) : events[i].type \in {"start", "usage"} <=> ~SpeaksAfter(i - 1)
  /\ receiver \in {"reading", "lost"} => InStep
  /\ \A i \in 1..Len(toClient) :
       toClient[i].kind = "committed" =>
         /\ ~server.audio
         /\ \A j \in (i + 1)..Len(toClient) : toClient[j].kind = "bad"
         /\ IF i = 1 THEN ~started ELSE toClient[i - 1].kind = "completed"
  /\ (sender.at = "finalizing" /\ committed) =>
       /\ InStep /\ ~started
       /\ toServer = <<>> /\ ~server.audio
       /\ \A i \in 1..Len(toClient) : toClient[i].kind = "bad"

IInv ==
  /\ TypeOK /\ LimitFollowsBacklog /\ ReserveIsHeld
  /\ AudioWaitsForAck /\ OneCommit /\ SilentAtFirst /\ EventsInOrder

\* The second inductive invariant, relative to IInv, of TextIsOfUtterance: n counts the
\* usages up to each event that is not read, and words are of the usage that comes next.
Counts(n) ==
  /\ n[0] = heard.usages
  /\ \A i \in 1..Len(events) :
       /\ n[i] = n[i - 1] + (IF events[i].type = "usage" THEN 1 ELSE 0)
       /\ events[i].text \subseteq {n[i - 1]}

\* What is still to be told, and what the server may still say, when u usages are.
Untold(u) ==
  /\ partial \subseteq {u} /\ (~started => partial = {})
  /\ \A i \in 1..Len(toClient) :
       /\ toClient[i].text \subseteq {u}
       /\ toClient[i].kind = "bad" => toClient[i].text = {}
       /\ toClient[i].kind = "committed" => server.commits = u + 1
  /\ toServer # <<>> \/ server.audio \/ sender.at \in {"receiving", "sending", "committing"}
     => server.commits = u
  /\ sender.at = "finalizing" /\ committed => server.commits = u + 1

TextInv == \E n \in [0..Len(events) -> Nat] : Counts(n) /\ Untold(n[Len(events)])

\* The third one, of SoundIsAccountedFor: what was accepted waits, is in hand, is with the
\* server, was billed or was lost in a retry, as long as the stream has no error; and the
\* flush of end_input is the last item, so that the sender returns with nothing unbilled.
LedgerInv ==
  /\ input.bytes = TotalOf(input.items)
  /\ sender.at \notin {"sending", "failed"} => sender.holding = 0
  /\ main \notin {"failed", "closed"} /\ ~overloaded =>
       accepted = input.bytes + sender.holding + sender.unbilled + billed + dropped
  /\ input.closed /\ main # "closed" =>
       IF input.items = <<>>
       THEN sender.at # "sending" /\ (sender.at \in {"receiving", "returned"} => sender.unbilled = 0)
       ELSE input.items[Len(input.items)] = Flush
  /\ sender.at = "returned" => input.closed /\ input.items = <<>>
  /\ main = "ended" => input.items = <<>> /\ ~overloaded
  /\ dropped > 0 => retries > 0

\* Once the input has ended, or the channel has overflowed, the stream comes to
\* an end, whatever the server does (_wait_overload, the timeouts of _send).
StreamSettles == input.closed \/ overloaded ~> Over

\* "Overload is an explicit BufferError rather than silent audio loss", and
\* audio is never silently retried (NemotronSTT; test_nemotron_stt.py).
NoSilentLoss == main = "ended" => billed = accepted

=============================================================================
