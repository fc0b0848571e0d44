----------------------- MODULE RecognizerStream_proofs -----------------------
(***************************************************************************)
(* Proofs about a stream of the recognizer, for every size of its channel, *)
(* of its buffers and of a frame, and any number of retries: the inductive *)
(* invariant and the safety properties that follow from it.                *)
(***************************************************************************)
EXTENDS RecognizerStream, SequenceTheorems, WellFoundedInduction, TLAPS

Channel == [items : Seq(Item), bytes : Int, limit : Nat, reserved : BOOLEAN, closed : BOOLEAN]
Places  == {"off", "receiving", "sending", "committing", "finalizing", "returned", "failed"}
Sender  == [at : Places, holding : Item, unbilled : Nat]

-----------------------------------------------------------------------------
(* The audio channel, whoever touches it.                                  *)

ChannelOK(ch) ==
  /\ ch \in Channel /\ Len(ch.items) <= MaxItems
  /\ ch.bytes <= ch.limit
  /\ ch.limit \in {BaseLimit, BaseLimit + Reserve}
  /\ ch.limit > BaseLimit <=> (ch.reserved \/ ch.bytes > BaseLimit)

LEMMA InputOK == IInv <=> IInv /\ ChannelOK(input)
  BY DEF IInv, TypeOK, LimitFollowsBacklog, ChannelOK, Channel

\* The fields of the channel, and what an edit changes and keeps.
LEMMA Fields ==
  ASSUME NEW ch \in Channel
  PROVE  /\ ch.items \in Seq(Item) /\ ch.bytes \in Int /\ ch.limit \in Nat
         /\ ch.reserved \in BOOLEAN /\ ch.closed \in BOOLEAN
  BY DEF Channel

LEMMA LimitEdits ==
  ASSUME NEW ch \in Channel, NEW l \in Nat
  PROVE  LET k == [ch EXCEPT !.limit = l] IN
           /\ k \in Channel /\ k.items = ch.items /\ k.bytes = ch.bytes /\ k.limit = l
           /\ k.reserved = ch.reserved
  BY DEF Channel

LEMMA FlagEdits ==
  ASSUME NEW ch \in Channel, NEW b \in BOOLEAN
  PROVE  LET k == [ch EXCEPT !.reserved = b] IN
           /\ k \in Channel /\ k.items = ch.items /\ k.bytes = ch.bytes
           /\ k.limit = ch.limit /\ k.reserved = b
  BY DEF Channel

LEMMA ReserveEdits ==
  ASSUME NEW ch \in Channel, NEW b \in BOOLEAN, NEW l \in Nat
  PROVE  LET k == [ch EXCEPT !.reserved = b, !.limit = l] IN
           /\ k \in Channel /\ k.items = ch.items /\ k.bytes = ch.bytes
           /\ k.limit = l /\ k.reserved = b
  BY DEF Channel

LEMMA CloseEdits ==
  ASSUME NEW ch \in Channel
  PROVE  LET k == [ch EXCEPT !.closed = TRUE] IN
           /\ k \in Channel /\ k.items = ch.items /\ k.bytes = ch.bytes
           /\ k.limit = ch.limit /\ k.reserved = ch.reserved
  BY DEF Channel

\* Taking an item away leaves the rest within its limit.
LEMMA Takes ==
  ASSUME IInv, input.items # <<>>
  PROVE  /\ ChannelOK(Taken) /\ Taken.reserved = input.reserved
         /\ Head(input.items) \in Item
<1>1. ChannelOK(input) /\ Head(input.items) \in Item /\ Tail(input.items) \in Seq(Item)
      /\ Len(Tail(input.items)) <= MaxItems
  BY InputOK, ConstantsOK DEF ChannelOK, Channel
<1>2. Head(input.items) \in Nat /\ input \in Channel
      /\ input.bytes - Head(input.items) \in Int
  BY <1>1, Fields DEF ChannelOK, Item
<1> DEFINE s == Tail(input.items)
           b == input.bytes - Head(input.items)
           rest == [input EXCEPT !.items = s, !.bytes = b]
<1>3. s \in Seq(Item) /\ Len(s) <= MaxItems /\ b \in Int /\ b <= input.bytes
      /\ (Head(input.items) = 0 => b = input.bytes)
  BY <1>1, <1>2, Fields
<1>4. Taken = IF Head(input.items) = Flush THEN rest ELSE Trim(rest)
  BY DEF Taken
<1> HIDE DEF s, b
<1>8. /\ rest \in Channel /\ rest.items = s /\ rest.bytes = b
      /\ rest.limit = input.limit /\ rest.reserved = input.reserved
  BY <1>2, <1>3 DEF Channel
<1> HIDE DEF rest
<1>5. CASE Head(input.items) = Flush
  BY <1>1, <1>3, <1>4, <1>5, <1>8, Fields DEF ChannelOK, Flush
<1>6. CASE Head(input.items) # Flush /\ ~rest.reserved /\ rest.bytes <= BaseLimit
  <2> DEFINE k == [rest EXCEPT !.limit = BaseLimit]
  <2>1. Taken = k
    BY <1>4, <1>6 DEF Trim
  <2>2. /\ k \in Channel /\ k.items = rest.items /\ k.bytes = rest.bytes /\ k.limit = BaseLimit
        /\ k.reserved = rest.reserved
    BY <1>8, ConstantsOK DEF Channel
  <2> HIDE DEF k
  <2> QED
    BY <1>1, <1>3, <1>6, <1>8, <2>1, <2>2, Fields, ConstantsOK DEF ChannelOK
<1>7. CASE Head(input.items) # Flush /\ ~(~rest.reserved /\ rest.bytes <= BaseLimit)
  <2>1. Taken = rest
    BY <1>4, <1>7 DEF Trim
  <2> QED
    BY SMTT(30), <1>1, <1>2, <1>3, <1>7, <1>8, <2>1, Fields, ConstantsOK DEF ChannelOK
<1> QED
  BY <1>1, <1>5, <1>6, <1>7

\* The reserve of a finalization, and its return.
LEMMA Reserves ==
  ASSUME NEW ch, ChannelOK(ch)
  PROVE  ChannelOK(Reserved(ch)) /\ Reserved(ch).reserved = TRUE
<1>1. ch \in Channel /\ BaseLimit + Reserve \in Nat
  BY ConstantsOK DEF ChannelOK
<1>2. /\ Reserved(ch) \in Channel
      /\ Reserved(ch).items = ch.items /\ Reserved(ch).bytes = ch.bytes
      /\ Reserved(ch).limit = BaseLimit + Reserve /\ Reserved(ch).reserved = TRUE
  BY ZenonT(60), <1>1, ReserveEdits DEF Reserved
<1> QED
  BY <1>1, <1>2, Fields, ConstantsOK DEF ChannelOK

LEMMA Releases ==
  ASSUME NEW ch, ChannelOK(ch)
  PROVE  ChannelOK(Released(ch)) /\ Released(ch).reserved = FALSE
<1> DEFINE k == [ch EXCEPT !.reserved = FALSE]
<1>1. /\ k \in Channel /\ k.items = ch.items /\ k.bytes = ch.bytes /\ k.limit = ch.limit
      /\ k.reserved = FALSE
  BY FlagEdits DEF ChannelOK
<1>2. Released(ch) = Trim(k)
  BY DEF Released
<1> HIDE DEF k
<1>3. CASE k.bytes <= BaseLimit
  <2>1. Trim(k) = [k EXCEPT !.limit = BaseLimit]
    BY <1>1, <1>3 DEF Trim
  <2>2. /\ Trim(k) \in Channel /\ Trim(k).items = k.items /\ Trim(k).bytes = k.bytes
        /\ Trim(k).limit = BaseLimit /\ Trim(k).reserved = FALSE
    BY <1>1, <2>1, LimitEdits, ConstantsOK
  <2> QED
    BY <1>1, <1>2, <1>3, <2>2, Fields, ConstantsOK DEF ChannelOK
<1>4. CASE ~(k.bytes <= BaseLimit)
  <2>1. Trim(k) = k
    BY <1>1, <1>4 DEF Trim
  <2> QED
    BY <1>1, <1>2, <1>4, <2>1, Fields, ConstantsOK DEF ChannelOK
<1> QED
  BY <1>3, <1>4

\* What fits stays within the limit; what does not fit marks the overload.
LEMMA Queues ==
  ASSUME IInv, NEW item \in Item, NEW closes \in BOOLEAN, Queued(item, closes)
  PROVE  ChannelOK(input') /\ input'.reserved = input.reserved /\ overloaded' \in BOOLEAN
<1>1. ChannelOK(input) /\ overloaded \in BOOLEAN
  BY InputOK DEF IInv, TypeOK
<1>2. CASE Fits(item)
  <2> DEFINE s == Append(input.items, item)
             b == input.bytes + item
             k == [input EXCEPT !.items = s, !.bytes = b, !.closed = closes]
  <2>1. input' = k /\ overloaded' = overloaded
    BY <1>2 DEF Queued
  <2>2. input \in Channel /\ item \in Nat
    BY <1>1 DEF ChannelOK, Item
  <2>3. s \in Seq(Item) /\ Len(s) <= MaxItems
    BY <1>1, <1>2, <2>2, Fields, ConstantsOK DEF Fits, ChannelOK
  <2>4. b \in Int /\ b <= input.limit /\ b >= input.bytes
    BY <1>2, <2>2, Fields DEF Fits
  <2> HIDE DEF s, b
  <2>5. /\ k \in Channel /\ k.items = s /\ k.bytes = b
        /\ k.limit = input.limit /\ k.reserved = input.reserved
    BY <2>2, <2>3, <2>4 DEF Channel
  <2> HIDE DEF k
  <2> QED
    BY <1>1, <2>1, <2>2, <2>3, <2>4, <2>5, Fields, ConstantsOK DEF ChannelOK
<1>3. CASE ~Fits(item)
  BY <1>1, <1>3 DEF Queued
<1> QED
  BY <1>2, <1>3

-----------------------------------------------------------------------------
(* The channel and the sender.                                             *)

LEMMA SenderFields ==
  ASSUME IInv
  PROVE  /\ sender \in Sender
         /\ sender.at \in Places /\ sender.holding \in Item /\ sender.unbilled \in Nat
         /\ sender.holding \in Nat
  BY DEF IInv, TypeOK, Sender, Places, Item

\* The sender goes to another place.
LEMMA SenderMoves ==
  ASSUME IInv, NEW at \in Places, sender' = [sender EXCEPT !.at = at]
  PROVE  /\ sender' \in Sender /\ sender'.at = at
         /\ sender'.holding = sender.holding /\ sender'.unbilled = sender.unbilled
<1>1. sender \in Sender
  BY SenderFields
<1> QED
  BY <1>1 DEF Sender

LEMMA IdleSender == Idle \in Sender /\ Idle.at = "off" /\ Idle.holding = 0 /\ Idle.unbilled = 0
  BY ConstantsOK DEF Idle, Sender, Places, Item

ChannelInv == ChannelOK(input) /\ ReserveIsHeld

\* The tasks end, and with them a finalization.
LEMMA TasksEndOK ==
  ASSUME IInv, NEW ch, ch = IF input.reserved THEN Released(input) ELSE input
  PROVE  ChannelOK(ch) /\ ch.reserved = FALSE
<1>1. ChannelOK(input)
  BY InputOK
<1> QED
  BY <1>1, Releases, Fields DEF ChannelOK

\* The channel after a step of the session.
LEMMA SessionChannel ==
  ASSUME IInv, Caller
  PROVE  ChannelInv' /\ overloaded' \in BOOLEAN
<1>1. ChannelOK(input) /\ ReserveIsHeld /\ overloaded \in BOOLEAN
  BY InputOK DEF IInv, TypeOK
<1>2. ASSUME NEW item \in Item, NEW closes \in BOOLEAN, Queued(item, closes), sender' = sender
      PROVE  ChannelInv' /\ overloaded' \in BOOLEAN
  BY <1>1, <1>2, Queues DEF ChannelInv, ReserveIsHeld, ChannelOK
<1>3. Flush \in Item
  BY ConstantsOK DEF Flush, Item
<1>4. CASE CommitUtterance
  BY <1>2, <1>3, <1>4 DEF CommitUtterance, Session
<1>5. CASE EndInput
  BY <1>2, <1>3, <1>5 DEF EndInput, Session
<1>6. CASE \E n \in 1..MaxFrame : PushFrame(n)
  <2>1. PICK n \in 1..MaxFrame : PushFrame(n)
    BY <1>6
  <2>2. n \in Item
    BY <2>1, ConstantsOK DEF Item
  <2> QED
    BY <1>2, <2>1, <2>2 DEF PushFrame, Session
<1>7. CASE ReadEvent
  BY <1>1, <1>7 DEF ReadEvent, channel, ChannelInv, ReserveIsHeld, ChannelOK
<1>8. CASE Aclose
  <2> DEFINE ch == IF input.reserved THEN Released(input) ELSE input
  <2>0. ch = IF input.reserved THEN Released(input) ELSE input
    OBVIOUS
  <2>2. input' = [ch EXCEPT !.closed = TRUE] /\ sender' = Idle /\ overloaded' = overloaded
    BY <1>8 DEF Aclose, Attempt
  <2> HIDE DEF ch
  <2>1. ChannelOK(ch) /\ ch.reserved = FALSE
    BY <2>0, TasksEndOK
  <2>3. /\ ch \in Channel /\ input' \in Channel /\ input'.items = ch.items
        /\ input'.bytes = ch.bytes /\ input'.limit = ch.limit /\ input'.reserved = ch.reserved
    BY <2>1, <2>2 DEF ChannelOK, Channel
  <2>4. ChannelOK(input') /\ input'.reserved = FALSE
    BY <2>1, <2>3, Fields, ConstantsOK DEF ChannelOK
  <2> QED
    BY <1>1, <2>2, <2>4, IdleSender DEF ChannelInv, ReserveIsHeld, ChannelOK
<1> QED
  BY <1>4, <1>5, <1>6, <1>7, <1>8 DEF Caller

\* The channel after a step of the sender.
LEMMA SenderChannel ==
  ASSUME IInv, SenderStep
  PROVE  ChannelInv'
<1>1. ChannelOK(input) /\ ReserveIsHeld /\ input.reserved \in BOOLEAN
  BY InputOK, Fields DEF IInv, ChannelOK
<1> SUFFICES ChannelOK(input') /\ (input'.reserved <=> sender'.at \in {"committing", "finalizing"})
  BY DEF ChannelInv, ReserveIsHeld, ChannelOK
<1>2. CASE TakesFrame
  <2>1. sender'.at = "sending"
    BY <1>2, SenderFields DEF TakesFrame, Sender
  <2> QED
    BY <1>1, <1>2, <2>1, Takes DEF TakesFrame, ReserveIsHeld
<1>3. CASE TakesFlush /\ UtteranceOpen
  <2>1. sender'.at = "committing"
    BY <1>3, SenderMoves DEF TakesFlush, Places
  <2> QED
    BY <1>3, <2>1, Takes, Reserves DEF TakesFlush
<1>4. CASE TakesFlush /\ ~UtteranceOpen
  BY <1>1, <1>4, Takes DEF TakesFlush, ReserveIsHeld
<1>5. CASE FindsOverload
  <2>1. sender'.at = "failed"
    BY <1>5, SenderMoves DEF FindsOverload, Places
  <2> QED
    BY <1>1, <1>5, <2>1, Takes DEF FindsOverload, ReserveIsHeld
<1>6. CASE SendsFrame
  BY <1>1, <1>6 DEF SendsFrame, ReserveIsHeld
<1>7. CASE SendsCommit
  <2>1. sender'.at = "finalizing"
    BY <1>7, SenderMoves DEF SendsCommit, Places
  <2> QED
    BY <1>1, <1>7, <2>1 DEF SendsCommit, ReserveIsHeld
<1>8. CASE SendFails
  <2>1. sender'.at = "failed"
    BY <1>8, SenderMoves DEF SendFails, Places
  <2>2. sender.at = "sending" => input' = input
    BY <1>8 DEF SendFails
  <2>3. sender.at # "sending" => input' = Released(input)
    BY <1>8 DEF SendFails
  <2> QED
    BY <1>1, <2>1, <2>2, <2>3, Releases DEF ReserveIsHeld
<1>9. CASE Acknowledged
  <2>1. sender'.at \in {"receiving", "failed"}
    BY <1>9, SenderFields DEF Acknowledged, Sender
  <2> QED
    BY <1>1, <1>9, <2>1, Releases DEF Acknowledged
<1>10. CASE SenderReturns
  <2>1. sender'.at = "returned"
    BY <1>10, SenderMoves DEF SenderReturns, Places
  <2> QED
    BY <1>1, <1>10, <2>1 DEF SenderReturns, ReserveIsHeld
<1> QED
  BY <1>2, <1>3, <1>4, <1>5, <1>6, <1>7, <1>8, <1>9, <1>10 DEF SenderStep

\* The channel after a step of an attempt.
LEMMA MainChannel ==
  ASSUME IInv, MainStep
  PROVE  ChannelInv'
<1>1. ChannelOK(input) /\ ReserveIsHeld
  BY InputOK DEF IInv
<1>2. CASE UNCHANGED <<input, sender>>
  BY <1>1, <1>2 DEF ChannelInv, ReserveIsHeld, ChannelOK
<1>3. CASE StreamBegins
  <2>1. sender = Idle /\ input' = input /\ sender'.at = "receiving"
    BY <1>3, IdleSender DEF StreamBegins, IInv, SilentAtFirst, Idle
  <2> QED
    BY <1>1, <2>1, IdleSender DEF ChannelInv, ReserveIsHeld, ChannelOK
<1>4. CASE StreamEnds
  BY <1>4, TasksEndOK, IdleSender DEF StreamEnds, TasksEnd, ChannelInv, ReserveIsHeld, ChannelOK
<1> QED
  BY <1>2, <1>3, <1>4 DEF MainStep, Connect, ConnectFails, BackoffEnds

LEMMA ChannelStep ==
  ASSUME IInv, [Next]_vars
  PROVE  ChannelInv'
<1>1. ChannelOK(input) /\ ReserveIsHeld
  BY InputOK DEF IInv
<1>2. CASE UNCHANGED <<input, sender>>
  BY <1>1, <1>2 DEF ChannelInv, ReserveIsHeld, ChannelOK
<1>3. CASE ReceiverStep
  BY <1>2, <1>3 DEF ReceiverStep, ReceivesWords, ReceivesCommitted, ReceivesBad, FindsHangup,
                    Receiving, channel
<1>4. CASE ServerStep
  BY <1>2, <1>4 DEF ServerStep, ServerTakesFrame, ServerCommits, ServerSpeaks, ServerFails,
                    Serving, channel
<1>5. CASE WatcherRaises
  BY <1>2, <1>5 DEF WatcherRaises, channel
<1>6. CASE UNCHANGED vars
  BY <1>2, <1>6 DEF vars, channel
<1> QED
  BY <1>3, <1>4, <1>5, <1>6, SessionChannel, SenderChannel, MainChannel DEF Next

-----------------------------------------------------------------------------
(* The types.                                                              *)

TasksTyped ==
  /\ overloaded \in BOOLEAN /\ sentAudio \in BOOLEAN
  /\ main \in {"connection", "handshake", "streaming", "backoff", "ended", "failed", "closed"}
  /\ retries \in 0..MaxRetry
  /\ receiver \in {"off", "reading", "lost", "failed"}
  /\ watcher \in {"off", "waiting", "raised"}
  /\ commitPending \in BOOLEAN /\ committed \in BOOLEAN
  /\ accepted \in Nat /\ billed \in Nat /\ dropped \in Nat

WordsTyped ==
  /\ started \in BOOLEAN /\ partial \in SUBSET Nat
  /\ events \in Seq(Event) /\ Len(events) <= EventLimit
  /\ heard \in [speaking : BOOLEAN, usages : Nat]

SocketTyped ==
  /\ toServer \in Seq(Item) /\ toClient \in Seq(Answer) /\ up \in BOOLEAN
  /\ server \in [audio : BOOLEAN, commits : Nat]

LEMMA TypeParts == TypeOK <=> /\ input \in Channel /\ Len(input.items) <= MaxItems
                              /\ sender \in Sender /\ TasksTyped /\ WordsTyped /\ SocketTyped
  BY DEF TypeOK, Channel, Sender, Places, TasksTyped, WordsTyped, SocketTyped

LEMMA TasksStep ==
  ASSUME IInv, [Next]_vars
  PROVE  TasksTyped'
<1>1. TasksTyped /\ MaxRetry \in Nat /\ sender.unbilled \in Nat /\ sender.holding \in Nat
  BY TypeParts, SenderFields, ConstantsOK DEF IInv
<1>2. CASE MainStep
  <2>1. ASSUME NEW b, GiveUp(b)
        PROVE  main' \in {"backoff", "failed"} /\ retries' \in 0..MaxRetry /\ dropped' \in Nat
    BY <1>1, <2>1 DEF GiveUp, MayRetry, TasksTyped
  <2>2. CASE Connect \/ StreamBegins \/ BackoffEnds
    BY <1>1, <2>2 DEF Connect, StreamBegins, BackoffEnds, Attempt, commits, TasksTyped
  <2>3. CASE ConnectFails
    BY <1>1, <2>1, <2>3 DEF ConnectFails, Attempt, commits, TasksTyped
  <2>4. CASE StreamEnds
    BY <1>1, <2>1, <2>4 DEF StreamEnds, TasksEnd, Attempt, commits, TasksTyped
  <2> QED
    BY <1>2, <2>2, <2>3, <2>4 DEF MainStep
<1>3. CASE SenderStep
  <2>1. UNCHANGED <<overloaded, main, retries, receiver, watcher, accepted, dropped>>
    BY <1>3 DEF SenderStep, TakesFrame, TakesFlush, FindsOverload, SendsFrame, SendsCommit,
                SendFails, Acknowledged, SenderReturns, Sending
  <2>2. CASE Acknowledged
    BY <1>1, <2>1, <2>2 DEF Acknowledged, commits, TasksTyped
  <2>3. CASE TakesFlush
    BY <1>1, <2>1, <2>3 DEF TakesFlush, commits, TasksTyped
  <2>4. CASE TakesFrame
    BY <1>1, <2>1, <2>4 DEF TakesFrame, commits, TasksTyped
  <2>5. CASE UNCHANGED <<sentAudio, commits, billed>>
    BY <1>1, <2>1, <2>5 DEF commits, TasksTyped
  <2> QED
    BY <1>3, <2>2, <2>3, <2>4, <2>5
      DEF SenderStep, FindsOverload, SendsFrame, SendsCommit, SendFails, SenderReturns
<1>4. CASE ReceiverStep
  BY <1>1, <1>4 DEF ReceiverStep, ReceivesWords, ReceivesCommitted, ReceivesBad, FindsHangup,
                    Receiving, Emit, channel, commits, ledger, TasksTyped
<1>5. CASE WatcherRaises
  BY <1>1, <1>5 DEF WatcherRaises, channel, commits, ledger, TasksTyped
<1>6. CASE Caller
  <2>1. overloaded' \in BOOLEAN
    BY <1>6, SessionChannel
  <2>2. accepted' \in Nat
    <3>1. CASE \E n \in 1..MaxFrame : PushFrame(n)
      <4>1. PICK n \in 1..MaxFrame : accepted' = accepted + (IF Fits(n) THEN n ELSE 0)
        BY <3>1 DEF PushFrame
      <4> QED
        BY <1>1, <4>1, ConstantsOK DEF TasksTyped
    <3>2. CASE accepted' = accepted
      BY <1>1, <3>2 DEF TasksTyped
    <3> QED
      BY <1>6, <3>1, <3>2 DEF Caller, CommitUtterance, EndInput, ReadEvent, Aclose, Attempt, ledger
  <2>3. CASE Session
    BY <1>1, <2>1, <2>2, <2>3 DEF Session, commits, TasksTyped
  <2>4. CASE ReadEvent
    BY <1>1, <2>1, <2>2, <2>4 DEF ReadEvent, commits, ledger, TasksTyped
  <2>5. CASE Aclose
    BY <1>1, <2>1, <2>2, <2>5 DEF Aclose, Attempt, commits, TasksTyped
  <2>6. Session \/ ReadEvent \/ Aclose
    BY <1>6 DEF Caller, CommitUtterance, EndInput, PushFrame
  <2> QED
    BY <2>3, <2>4, <2>5, <2>6
<1>7. CASE ServerStep
  BY <1>1, <1>7 DEF ServerStep, ServerTakesFrame, ServerCommits, ServerSpeaks, ServerFails, Serving,
                    channel, commits, ledger, TasksTyped
<1>8. CASE UNCHANGED vars
  BY <1>1, <1>8 DEF vars, channel, commits, ledger, TasksTyped
<1> QED
  BY <1>2, <1>3, <1>4, <1>5, <1>6, <1>7, <1>8 DEF Next

-----------------------------------------------------------------------------
(* Sequences.                                                              *)

LEMMA Join ==
  ASSUME NEW S, NEW a \in S, NEW s \in Seq(S)
  PROVE  /\ <<a>> \o s \in Seq(S) /\ Len(<<a>> \o s) = 1 + Len(s)
         /\ (<<a>> \o s)[1] = a /\ \A i \in 1..Len(s) : (<<a>> \o s)[i + 1] = s[i]
<1>1. <<a>> \in Seq(S) /\ Len(<<a>>) = 1 /\ <<a>>[1] = a
  OBVIOUS
<1> DEFINE t == <<a>>
<1>2. t \in Seq(S) /\ Len(t) = 1 /\ t[1] = a
  BY <1>1
<1> HIDE DEF t
<1>4. Len(s) \in Nat
  OBVIOUS
<1>3. /\ t \o s \in Seq(S) /\ Len(t \o s) = 1 + Len(s) /\ (t \o s)[1] = a
      /\ \A i \in 1..Len(s) : (t \o s)[i + 1] = s[i]
  BY <1>2, <1>4, ConcatProperties
<1> QED
  BY <1>3 DEF t

LEMMA JoinPrefix ==
  ASSUME NEW E, NEW s \in Seq(E), NEW es \in Seq(E), NEW n \in 0..Len(es)
  PROVE  LET r == s \o SubSeq(es, 1, n) IN
           /\ r \in Seq(E) /\ Len(r) = Len(s) + n
           /\ \A i \in 1..Len(s) : r[i] = s[i]
           /\ \A i \in 1..n : r[Len(s) + i] = es[i]
<1> DEFINE t == SubSeq(es, 1, n)
           r == s \o t
<1>1. t \in Seq(E) /\ Len(t) = n /\ \A i \in 1..n : t[i] = es[i]
  OBVIOUS
<1> HIDE DEF t
<1>2. /\ r \in Seq(E) /\ Len(r) = Len(s) + n
      /\ \A i \in 1..Len(s) + n : r[i] = IF i <= Len(s) THEN s[i] ELSE t[i - Len(s)]
  BY <1>1, ConcatProperties
<1>3. Len(s) \in Nat /\ n \in Nat
  OBVIOUS
<1> HIDE DEF r
<1>4. ASSUME NEW i \in 1..n
      PROVE  r[Len(s) + i] = es[i]
  BY <1>1, <1>2, <1>3
<1>5. \A i \in 1..Len(s) : r[i] = s[i]
  BY <1>2, <1>3
<1>6. r \in Seq(E) /\ Len(r) = Len(s) + n
  BY <1>2
<1> QED
  BY <1>4, <1>5, <1>6 DEF r, t

-----------------------------------------------------------------------------
(* What the receiver tells.                                                *)

\* The words of an answer, and whether someone speaks after the first i of them.
Talk == {"start", "interim", "final"}

SpeaksAfterOf(es, i) == IF i = 0 THEN started ELSE es[i].type \in Talk

Ordered(es) ==
  /\ es \in Seq(Event)
  /\ \A i \in 1..Len(es) : es[i].type \in {"start", "usage"} <=> ~SpeaksAfterOf(es, i - 1)

LEMMA Told ==
  ASSUME IInv, ReceivesWords
  PROVE  \E es : /\ Ordered(es) /\ Emit(es)
                 /\ started' <=> SpeaksAfterOf(es, Len(es))
                 /\ started' \in BOOLEAN /\ partial' \in SUBSET Nat
<1> DEFINE m == Head(toClient)
<1>0. toClient \in Seq(Answer) /\ toClient # <<>> /\ started \in BOOLEAN /\ partial \in SUBSET Nat
  BY DEF ReceivesWords, IInv, TypeOK
<1>1. m \in Answer
  BY <1>0
<1>11. m.text \in SUBSET Nat
  BY <1>1 DEF Answer
<1>2. m.kind \in {"delta", "completed"} /\ partial' \in SUBSET Nat /\ started' = (m.kind = "delta")
  BY <1>0, <1>11 DEF ReceivesWords, PartialAfter, StartedAfter
<1>3. Mark("start") \in Event /\ Mark("end") \in Event /\ Mark("start").type = "start"
      /\ Mark("end").type = "end"
  BY DEF Mark, Event
\* A start comes first unless someone speaks already.
<1>4. ASSUME NEW w \in Seq(Event), Len(w) # 0, w[1].type \in {"interim", "final"},
             \A i \in 2..Len(w) : w[i].type = "end" /\ w[i - 1].type \in Talk
      PROVE  /\ Ordered(Spoken(w))
             /\ SpeaksAfterOf(Spoken(w), Len(Spoken(w))) <=> w[Len(w)].type \in Talk
  <2>0. Len(w) \in Nat
    BY <1>4
  <2>1. CASE started
    BY <1>4, <2>0, <2>1 DEF Ordered, Spoken, SpeaksAfterOf, Talk
  <2>2. CASE ~started
    <3> DEFINE es == <<Mark("start")>> \o w
    <3>1. /\ es \in Seq(Event) /\ Len(es) = 1 + Len(w) /\ es[1] = Mark("start")
          /\ \A i \in 1..Len(w) : es[i + 1] = w[i]
      BY <1>3, <1>4, Join
    <3>2. Spoken(w) = es
      BY <2>2 DEF Spoken
    <3> HIDE DEF es
    <3>3. ASSUME NEW i \in 1..Len(es)
          PROVE  es[i].type \in {"start", "usage"} <=> ~SpeaksAfterOf(es, i - 1)
      <4>1. CASE i = 1
        BY <1>3, <2>2, <3>1, <4>1 DEF SpeaksAfterOf
      <4>2. CASE i = 2
        BY <1>3, <1>4, <2>0, <3>1, <4>2 DEF SpeaksAfterOf, Talk
      <4>3. CASE i > 2
        <5>1. i - 1 \in 2..Len(w) /\ es[(i - 1) + 1] = w[i - 1] /\ es[(i - 2) + 1] = w[i - 2]
          BY <2>0, <3>1, <4>3
        <5> QED
          BY <1>4, <2>0, <3>1, <4>3, <5>1 DEF SpeaksAfterOf, Talk
      <4> QED
        BY <2>0, <3>1, <4>1, <4>2, <4>3
    <3>4. es[Len(es)] = w[Len(w)] /\ Len(es) # 0
      BY <1>4, <2>0, <3>1
    <3> QED
      BY <3>1, <3>2, <3>3, <3>4 DEF Ordered, SpeaksAfterOf
  <2> QED
    BY <2>1, <2>2
<1>5. CASE m.kind = "delta"
  <2> DEFINE e == [type |-> "interim", text |-> partial']
             w == <<e>>
  <2>1. e \in Event /\ e.type = "interim"
    BY <1>2 DEF Event
  <2>2. Emit(Spoken(w))
    BY <1>5 DEF ReceivesWords
  <2> HIDE DEF e
  <2>3. w \in Seq(Event) /\ Len(w) = 1 /\ w[1].type = "interim"
    BY <2>1
  <2> HIDE DEF w
  <2>4. Ordered(Spoken(w)) /\ (SpeaksAfterOf(Spoken(w), Len(Spoken(w))) <=> TRUE)
    BY <1>4, <2>3 DEF Talk
  <2> QED
    BY <1>2, <1>5, <2>2, <2>4
<1>6. CASE m.kind = "completed" /\ m.text # {}
  <2> DEFINE e == [type |-> "final", text |-> m.text]
             w == <<e, Mark("end")>>
  <2>1. e \in Event /\ e.type = "final"
    BY <1>11 DEF Event
  <2>2. Emit(Spoken(w))
    BY <1>6 DEF ReceivesWords
  <2> HIDE DEF e
  <2>3. w \in Seq(Event) /\ Len(w) = 2 /\ w[1].type = "final" /\ w[2].type = "end"
    BY <1>3, <2>1
  <2> HIDE DEF w
  <2>5. ASSUME NEW i \in 2..Len(w)
        PROVE  w[i].type = "end" /\ w[i - 1].type \in Talk
    <3>1. i = 2 /\ i - 1 = 1
      BY <2>3
    <3> QED
      BY <2>3, <3>1 DEF Talk
  <2>6. Len(w) # 0 /\ w[1].type \in {"interim", "final"} /\ w[Len(w)].type \notin Talk
    BY <2>3 DEF Talk
  <2>4. Ordered(Spoken(w)) /\ ~SpeaksAfterOf(Spoken(w), Len(Spoken(w)))
    BY <1>4, <2>3, <2>5, <2>6
  <2> QED
    BY <1>2, <1>6, <2>2, <2>4
<1>7. CASE m.kind = "completed" /\ m.text = {}
  <2> DEFINE w == IF started THEN <<Mark("end")>> ELSE <<>>
  <2>1. Emit(w)
    BY <1>7 DEF ReceivesWords
  <2>2. /\ w \in Seq(Event)
        /\ started => Len(w) = 1 /\ w[1].type = "end"
        /\ ~started => Len(w) = 0
    BY <1>3
  <2> HIDE DEF w
  <2>3. Ordered(w)
    <3> SUFFICES ASSUME NEW i \in 1..Len(w)
                 PROVE  w[i].type \in {"start", "usage"} <=> ~SpeaksAfterOf(w, i - 1)
      BY <2>2 DEF Ordered
    <3>0. started
      <4>1. CASE ~started
        <5>1. Len(w) = 0
          BY <2>2, <4>1
        <5> QED
          BY <5>1
      <4> QED
        BY <4>1
    <3>1. started /\ i = 1 /\ i - 1 = 0
      <4>1. Len(w) = 1
        BY <2>2, <3>0
      <4> QED
        BY <3>0, <4>1
    <3>2. SpeaksAfterOf(w, 0)
      BY <3>1 DEF SpeaksAfterOf
    <3> QED
      BY <2>2, <3>1, <3>2
  <2>4. ~SpeaksAfterOf(w, Len(w))
    BY <1>0, <2>2 DEF SpeaksAfterOf, Talk
  <2> QED
    BY <1>0, <1>2, <1>7, <2>1, <2>3, <2>4
<1> QED
  BY <1>2, <1>5, <1>6, <1>7

\* What fits is added to the events, in order.
LEMMA Emits ==
  ASSUME IInv, NEW es \in Seq(Event), Emit(es)
  PROVE  \E n \in 0..Len(es) :
           /\ events' \in Seq(Event) /\ Len(events') = Len(events) + n /\ Len(events') <= EventLimit
           /\ \A i \in 1..Len(events) : events'[i] = events[i]
           /\ \A i \in 1..n : events'[Len(events) + i] = es[i]
           /\ receiver' \in {"reading", "failed"} /\ (receiver' = "reading" => n = Len(es))
<1>1. events \in Seq(Event) /\ Len(events) <= EventLimit /\ Len(events) \in Nat /\ Len(es) \in Nat
      /\ EventLimit \in Nat
  BY ConstantsOK DEF IInv, TypeOK
<1> DEFINE room == EventLimit - Len(events)
           n == IF Len(es) <= room THEN Len(es) ELSE room
<1>2. /\ n \in 0..Len(es) /\ Len(events) + n <= EventLimit
      /\ Len(es) <= room => n = Len(es)
  BY <1>1
<1>3. /\ events' = events \o SubSeq(es, 1, n)
      /\ receiver' = IF Len(es) <= room THEN "reading" ELSE "failed"
  BY DEF Emit
<1> HIDE DEF n, room
<1>4. receiver' \in {"reading", "failed"} /\ (receiver' = "reading" => n = Len(es))
  BY <1>2, <1>3
<1>5. /\ events' \in Seq(Event) /\ Len(events') = Len(events) + n
      /\ \A i \in 1..Len(events) : events'[i] = events[i]
      /\ \A i \in 1..n : events'[Len(events) + i] = es[i]
  BY <1>1, <1>2, <1>3, JoinPrefix
<1> QED
  BY <1>2, <1>4, <1>5

\* Only these steps change the events, or what is known of the speech.
LEMMA WordsKept ==
  ASSUME [Next]_vars
  PROVE  ReceivesWords \/ ReadEvent \/ Acknowledged \/ UNCHANGED <<speech, events, heard>>
<1>1. MainStep \/ Aclose => UNCHANGED <<speech, events, heard>>
  BY DEF MainStep, Connect, ConnectFails, StreamBegins, StreamEnds, BackoffEnds, Aclose, Attempt
<1>2. SenderStep => Acknowledged \/ UNCHANGED <<speech, events, heard>>
  BY DEF SenderStep, TakesFrame, TakesFlush, FindsOverload, SendsFrame, SendsCommit, SendFails,
         SenderReturns, Sending
<1>3. ReceiverStep => ReceivesWords \/ UNCHANGED <<speech, events, heard>>
  BY DEF ReceiverStep, ReceivesCommitted, ReceivesBad, FindsHangup, Receiving
<1>4. ASSUME Caller PROVE ReadEvent \/ UNCHANGED <<speech, events, heard>>
  BY <1>1, <1>4 DEF Caller, CommitUtterance, EndInput, PushFrame, Session
<1>5. ServerStep \/ WatcherRaises \/ UNCHANGED vars => UNCHANGED <<speech, events, heard>>
  BY DEF ServerStep, ServerTakesFrame, ServerCommits, ServerSpeaks, ServerFails, Serving,
         WatcherRaises, vars
<1> QED
  BY <1>1, <1>2, <1>3, <1>4, <1>5 DEF Next

LEMMA WordsStep ==
  ASSUME IInv, [Next]_vars
  PROVE  WordsTyped'
<1>1. WordsTyped /\ EventLimit \in Nat /\ Len(events) \in Nat
  BY TypeParts, ConstantsOK DEF IInv, WordsTyped
<1>2. CASE ReceivesWords
  <2>1. PICK es : /\ Ordered(es) /\ Emit(es) /\ started' \in BOOLEAN /\ partial' \in SUBSET Nat
    BY <1>2, Told
  <2>2. events' \in Seq(Event) /\ Len(events') <= EventLimit
    BY <2>1, Emits DEF Ordered
  <2> QED
    BY <1>1, <1>2, <2>1, <2>2 DEF WordsTyped, ReceivesWords, Receiving
<1>3. CASE ReadEvent
  <2>1. events' \in Seq(Event) /\ Len(events') <= EventLimit
    BY <1>1, <1>3 DEF ReadEvent, WordsTyped
  <2>2. heard' \in [speaking : BOOLEAN, usages : Nat]
    BY <1>1, <1>3 DEF ReadEvent, WordsTyped
  <2> QED
    BY <1>1, <1>3, <2>1, <2>2 DEF WordsTyped, ReadEvent, speech
<1>4. CASE Acknowledged
  <2>1. Mark("usage") \in Event
    BY DEF Mark, Event
  <2>2. events' \in Seq(Event) /\ Len(events') <= EventLimit
    <3>1. CASE Len(events) < EventLimit
      <4>1. events' = Append(events, Mark("usage"))
        BY <1>4, <3>1 DEF Acknowledged
      <4> HIDE DEF Mark
      <4> QED
        BY <1>1, <2>1, <3>1, <4>1, AppendProperties DEF WordsTyped
    <3>2. CASE ~(Len(events) < EventLimit)
      BY <1>1, <1>4, <3>2 DEF Acknowledged, WordsTyped
    <3> QED
      BY <3>1, <3>2
  <2> QED
    BY <1>1, <1>4, <2>2 DEF WordsTyped, Acknowledged, Sending, speech
<1>5. CASE UNCHANGED <<speech, events, heard>>
  BY <1>1, <1>5 DEF WordsTyped, speech
<1> QED
  BY <1>2, <1>3, <1>4, <1>5, WordsKept

\* Only these steps change the sender.
LEMMA SenderKept ==
  ASSUME [Next]_vars
  PROVE  SenderStep \/ StreamBegins \/ StreamEnds \/ Aclose \/ UNCHANGED sender
<1>1. Connect \/ ConnectFails \/ BackoffEnds => UNCHANGED sender
  BY DEF Connect, ConnectFails, BackoffEnds
<1>2. ReceiverStep \/ ServerStep \/ WatcherRaises \/ UNCHANGED vars => UNCHANGED sender
  BY DEF ReceiverStep, ReceivesWords, ReceivesCommitted, ReceivesBad, FindsHangup, Receiving,
         ServerStep, ServerTakesFrame, ServerCommits, ServerSpeaks, ServerFails, Serving,
         WatcherRaises, vars
<1>3. ASSUME Caller PROVE Aclose \/ UNCHANGED sender
  BY <1>3 DEF Caller, CommitUtterance, EndInput, PushFrame, ReadEvent, Session
<1> QED
  BY <1>1, <1>2, <1>3 DEF Next, MainStep

LEMMA SenderTyped ==
  ASSUME IInv, [Next]_vars
  PROVE  sender' \in Sender
<1>1. sender \in Sender /\ sender.unbilled \in Nat /\ sender.holding \in Nat
  BY SenderFields
<1>2. CASE TakesFrame
  <2>1. Head(input.items) \in Item
    BY <1>2, Takes DEF TakesFrame
  <2> DEFINE h == Head(input.items)
  <2>2. h \in Item /\ sender' = [sender EXCEPT !.at = "sending", !.holding = h]
    BY <1>2, <2>1 DEF TakesFrame
  <2> HIDE DEF h
  <2> QED
    BY <1>1, <2>2 DEF Sender, Places
<1>3. CASE TakesFlush \/ FindsOverload \/ SendsCommit \/ SendFails \/ SenderReturns
  <2>1. \/ sender' = sender
        \/ \E at \in Places : sender' = [sender EXCEPT !.at = at]
    BY <1>3 DEF TakesFlush, FindsOverload, SendsCommit, SendFails, SenderReturns, Places
  <2> QED
    BY <1>1, <2>1, SenderMoves
<1>4. CASE SendsFrame
  <2> DEFINE n == sender.unbilled + sender.holding
  <2>1. n \in Nat /\ 0 \in Item
    BY <1>1, ConstantsOK DEF Item
  <2>2. sender' = [at |-> "receiving", holding |-> 0, unbilled |-> n]
    BY <1>4 DEF SendsFrame
  <2> HIDE DEF n
  <2> QED
    BY <2>1, <2>2 DEF Sender, Places
<1>5. CASE Acknowledged
  <2>1. \/ sender' = [sender EXCEPT !.at = "receiving", !.unbilled = 0]
        \/ sender' = [sender EXCEPT !.at = "failed"]
    BY <1>5 DEF Acknowledged
  <2>2. [sender EXCEPT !.at = "receiving", !.unbilled = 0] \in Sender
    BY <1>1 DEF Sender, Places
  <2>3. [sender EXCEPT !.at = "failed"] \in Sender
    BY <1>1 DEF Sender, Places
  <2> QED
    BY <2>1, <2>2, <2>3
<1>6. CASE StreamBegins
  BY <1>6, IdleSender DEF StreamBegins, Sender, Places
<1>7. CASE StreamEnds \/ Aclose
  BY <1>7, IdleSender DEF StreamEnds, TasksEnd, Aclose
<1>8. CASE UNCHANGED sender
  BY <1>1, <1>8
<1> QED
  BY <1>2, <1>3, <1>4, <1>5, <1>6, <1>7, <1>8, SenderKept DEF SenderStep

\* Only these steps change what the socket holds, or the server.
LEMMA SocketKept ==
  ASSUME [Next]_vars
  PROVE  \/ SendsFrame \/ SendsCommit \/ ReceivesWords \/ ReceivesCommitted \/ ReceivesBad
         \/ Connect \/ ServerStep \/ Hangup \/ UNCHANGED socket
<1>1. SenderStep => SendsFrame \/ SendsCommit \/ UNCHANGED socket
  BY DEF SenderStep, TakesFrame, TakesFlush, FindsOverload, SendFails, Acknowledged, SenderReturns
<1>2. MainStep => Connect \/ Hangup \/ UNCHANGED socket
  BY DEF MainStep, ConnectFails, StreamBegins, StreamEnds, BackoffEnds
<1>3. ASSUME Caller PROVE Hangup \/ UNCHANGED socket
  BY <1>3 DEF Caller, CommitUtterance, EndInput, PushFrame, ReadEvent, Aclose, Session
<1>4. FindsHangup \/ WatcherRaises \/ UNCHANGED vars => UNCHANGED socket
  BY DEF FindsHangup, Receiving, WatcherRaises, vars, socket
<1> QED
  BY <1>1, <1>2, <1>3, <1>4 DEF Next, ReceiverStep

LEMMA SocketStep ==
  ASSUME IInv, [Next]_vars
  PROVE  SocketTyped'
<1>1. SocketTyped /\ sender.holding \in Item /\ Flush \in Item
  BY TypeParts, SenderFields, ConstantsOK DEF IInv, Flush, Item
<1>0. /\ toServer \in Seq(Item) /\ toClient \in Seq(Answer) /\ up \in BOOLEAN
      /\ server \in [audio : BOOLEAN, commits : Nat]
  BY <1>1 DEF SocketTyped
<1>2. CASE SendsFrame \/ SendsCommit
  <2>1. PICK item \in Item : toServer' = Append(toServer, item)
    BY <1>1, <1>2 DEF SendsFrame, SendsCommit
  <2>2. toServer' \in Seq(Item)
    BY <1>0, <2>1
  <2> QED
    BY <1>0, <1>2, <2>2 DEF SendsFrame, SendsCommit, SocketTyped
<1>3. CASE ReceivesWords \/ ReceivesCommitted \/ ReceivesBad
  <2>1. toClient # <<>> /\ toClient' = Tail(toClient)
    BY <1>3 DEF ReceivesWords, ReceivesCommitted, ReceivesBad
  <2>2. toClient' \in Seq(Answer)
    BY <1>0, <2>1
  <2> QED
    BY <1>0, <1>3, <2>2 DEF ReceivesWords, ReceivesCommitted, ReceivesBad, Receiving, SocketTyped
<1>4. CASE Connect
  <2>1. UNCHANGED <<toServer, toClient, server>> /\ up' = TRUE
    BY <1>4 DEF Connect
  <2> QED
    BY <1>0, <2>1 DEF SocketTyped
<1>5. CASE Hangup
  <2>1. toServer' = <<>> /\ toClient' = <<>> /\ up' = FALSE /\ server' = Fresh
    BY <1>5 DEF Hangup
  <2>2. Fresh \in [audio : BOOLEAN, commits : Nat]
    BY DEF Fresh
  <2>3. toServer' \in Seq(Item) /\ toClient' \in Seq(Answer)
    BY <2>1
  <2>4. up' \in BOOLEAN /\ server' \in [audio : BOOLEAN, commits : Nat]
    BY <2>1, <2>2
  <2> QED
    BY <2>3, <2>4 DEF SocketTyped
<1>6. CASE ServerStep
  <2>1. Words \in SUBSET Nat /\ {} \in SUBSET Nat
    BY <1>1 DEF Words, SocketTyped
  <2>2. ASSUME NEW as \in Seq(Answer), Says(as)
        PROVE  toClient' \in Seq(Answer)
    BY <1>1, <2>2, ConcatProperties DEF Says, SocketTyped
  <2>3. CASE ServerTakesFrame
    <3>1. toServer' \in Seq(Item)
      BY <1>0, <2>3 DEF ServerTakesFrame
    <3>2. server' \in [audio : BOOLEAN, commits : Nat]
      BY <1>0, <2>3 DEF ServerTakesFrame
    <3> QED
      BY <1>0, <2>3, <3>1, <3>2 DEF ServerTakesFrame, SocketTyped
  <2>4. CASE ServerCommits
    <3>1. PICK text \in {Words, {}} :
            Says(<<[kind |-> "completed", text |-> text], [kind |-> "committed", text |-> {}]>>)
      BY <2>4 DEF ServerCommits
    <3>2. <<[kind |-> "completed", text |-> text], [kind |-> "committed", text |-> {}]>> \in Seq(Answer)
      BY <2>1 DEF Answer
    <3>3. toClient' \in Seq(Answer)
      BY <2>2, <3>1, <3>2
    <3>4. toServer' \in Seq(Item)
      BY <1>0, <2>4 DEF ServerCommits
    <3>5. server' \in [audio : BOOLEAN, commits : Nat] /\ up' \in BOOLEAN
      BY <1>0, <2>4 DEF ServerCommits
    <3> QED
      BY <3>3, <3>4, <3>5 DEF SocketTyped
  <2>5. CASE ServerSpeaks
    <3>1. <<[kind |-> "delta", text |-> Words]>> \in Seq(Answer)
      BY <2>1 DEF Answer
    <3>2. toClient' \in Seq(Answer)
      BY <2>2, <2>5, <3>1 DEF ServerSpeaks
    <3> QED
      BY <1>1, <2>5, <3>2 DEF ServerSpeaks, SocketTyped
  <2>6. CASE ServerFails
    <3>1. <<[kind |-> "bad", text |-> {}]>> \in Seq(Answer)
      BY <2>1 DEF Answer
    <3>2. toClient' \in Seq(Answer) /\ up' \in BOOLEAN
      BY <1>1, <2>2, <2>6, <3>1 DEF ServerFails, SocketTyped
    <3> QED
      BY <1>1, <2>6, <3>2 DEF ServerFails, SocketTyped
  <2> QED
    BY <1>6, <2>3, <2>4, <2>5, <2>6 DEF ServerStep
<1>7. CASE UNCHANGED socket
  BY <1>1, <1>7 DEF socket, SocketTyped
<1> QED
  BY <1>2, <1>3, <1>4, <1>5, <1>6, <1>7, SocketKept

LEMMA TypeStep ==
  ASSUME IInv, [Next]_vars
  PROVE  TypeOK'
<1>1. /\ input' \in Channel /\ Len(input'.items) <= MaxItems
      /\ sender' \in Sender /\ TasksTyped' /\ WordsTyped' /\ SocketTyped'
  BY ChannelStep, SenderTyped, TasksStep, WordsStep, SocketStep DEF ChannelInv, ChannelOK
<1> QED
  BY <1>1 DEF TypeOK, Channel, Sender, Places, TasksTyped, WordsTyped, SocketTyped

-----------------------------------------------------------------------------
(* The queues of the socket.                                               *)

LEMMA Drops ==
  ASSUME NEW S, NEW s \in Seq(S), s # <<>>
  PROVE  /\ Len(s) \in Nat /\ Len(s) >= 1 /\ Head(s) = s[1]
         /\ Len(Tail(s)) = Len(s) - 1
         /\ \A i \in 1..Len(s) - 1 : Tail(s)[i] = s[i + 1] /\ i + 1 \in 1..Len(s)
  OBVIOUS

LEMMA Adds ==
  ASSUME NEW S, NEW s \in Seq(S), NEW a \in S
  PROVE  /\ Len(Append(s, a)) = Len(s) + 1 /\ Append(s, a)[Len(s) + 1] = a
         /\ \A i \in 1..Len(s) : Append(s, a)[i] = s[i]
         /\ Len(s) \in Nat
  BY AppendProperties

\* The server says one thing, or two.
LEMMA SaysOne ==
  ASSUME IInv, NEW a \in Answer, Says(<<a>>)
  PROVE  /\ Len(toClient) \in Nat /\ Len(toClient') = Len(toClient) + 1
         /\ toClient'[Len(toClient) + 1] = a
         /\ \A i \in 1..Len(toClient) : toClient'[i] = toClient[i]
<1> DEFINE t == <<a>>
<1>1. t \in Seq(Answer) /\ Len(t) = 1 /\ t[1] = a
  OBVIOUS
<1>2. toClient' = toClient \o t /\ toClient \in Seq(Answer)
  BY DEF Says, IInv, TypeOK
<1> HIDE DEF t
<1>4. Len(toClient) \in Nat
  BY <1>2
<1> DEFINE r == toClient \o t
<1>5. /\ Len(r) = Len(toClient) + 1
      /\ \A i \in 1..Len(toClient) + 1 :
           r[i] = IF i <= Len(toClient) THEN toClient[i] ELSE t[i - Len(toClient)]
  <2>1. ASSUME NEW u \in Seq(Answer), NEW v \in Seq(Answer)
        PROVE  /\ Len(u \o v) = Len(u) + Len(v)
               /\ \A i \in 1..Len(u) + Len(v) :
                    (u \o v)[i] = IF i <= Len(u) THEN u[i] ELSE v[i - Len(u)]
    BY ConcatProperties
  <2> QED
    BY <1>1, <1>2, <2>1
<1>6. toClient' = r
  BY <1>2
<1> HIDE DEF r
<1>3. /\ Len(toClient') = Len(toClient) + 1
      /\ \A i \in 1..Len(toClient) + 1 :
           toClient'[i] = IF i <= Len(toClient) THEN toClient[i] ELSE t[i - Len(toClient)]
  BY <1>5, <1>6
<1> QED
  BY <1>1, <1>3, <1>4

LEMMA SaysTwo ==
  ASSUME IInv, NEW a \in Answer, NEW b \in Answer, Says(<<a, b>>)
  PROVE  /\ Len(toClient) \in Nat /\ Len(toClient') = Len(toClient) + 2
         /\ toClient'[Len(toClient) + 1] = a /\ toClient'[Len(toClient) + 2] = b
         /\ \A i \in 1..Len(toClient) : toClient'[i] = toClient[i]
<1> DEFINE t == <<a, b>>
<1>1. t \in Seq(Answer) /\ Len(t) = 2 /\ t[1] = a /\ t[2] = b
  OBVIOUS
<1>2. toClient' = toClient \o t /\ toClient \in Seq(Answer)
  BY DEF Says, IInv, TypeOK
<1> HIDE DEF t
<1>4. Len(toClient) \in Nat
  BY <1>2
<1> DEFINE r == toClient \o t
<1>5. /\ Len(r) = Len(toClient) + 2
      /\ \A i \in 1..Len(toClient) + 2 :
           r[i] = IF i <= Len(toClient) THEN toClient[i] ELSE t[i - Len(toClient)]
  <2>1. ASSUME NEW u \in Seq(Answer), NEW v \in Seq(Answer)
        PROVE  /\ Len(u \o v) = Len(u) + Len(v)
               /\ \A i \in 1..Len(u) + Len(v) :
                    (u \o v)[i] = IF i <= Len(u) THEN u[i] ELSE v[i - Len(u)]
    BY ConcatProperties
  <2> QED
    BY <1>1, <1>2, <2>1
<1>6. toClient' = r
  BY <1>2
<1> HIDE DEF r
<1>3. /\ Len(toClient') = Len(toClient) + 2
      /\ \A i \in 1..Len(toClient) + 2 :
           toClient'[i] = IF i <= Len(toClient) THEN toClient[i] ELSE t[i - Len(toClient)]
  BY <1>5, <1>6
<1> QED
  BY <1>1, <1>3, <1>4

\* What the server says or takes, as its steps put it.
LEMMA ServerSays ==
  ASSUME IInv, ServerStep
  PROVE  \/ /\ toServer # <<>> /\ toServer[1] # Flush /\ toServer' = Tail(toServer)
            /\ UNCHANGED <<toClient, up>> /\ server'.audio = TRUE
         \/ /\ toServer # <<>> /\ toServer[1] = Flush /\ toServer' = Tail(toServer)
            /\ UNCHANGED up /\ server'.audio = FALSE
            /\ Len(toClient') = Len(toClient) + 2
            /\ toClient'[Len(toClient) + 1].kind = "completed"
            /\ toClient'[Len(toClient) + 2].kind = "committed"
            /\ \A i \in 1..Len(toClient) : toClient'[i] = toClient[i]
         \/ /\ UNCHANGED <<toServer, server, up>>
            /\ Len(toClient') = Len(toClient) + 1
            /\ \/ toClient'[Len(toClient) + 1].kind = "delta" /\ server.audio
               \/ toClient'[Len(toClient) + 1].kind = "bad"
            /\ \A i \in 1..Len(toClient) : toClient'[i] = toClient[i]
         \/ UNCHANGED <<toServer, toClient, server>> /\ up' = FALSE
<1>1. toServer \in Seq(Item) /\ server \in [audio : BOOLEAN, commits : Nat]
  BY DEF IInv, TypeOK
<1>2. toServer # <<>> => Head(toServer) = toServer[1]
  BY <1>1
<1>3. Words \in SUBSET Nat /\ {} \in SUBSET Nat
  BY <1>1 DEF Words
<1>4. CASE ServerTakesFrame
  <2>1. server'.audio = TRUE
    BY <1>1, <1>4 DEF ServerTakesFrame
  <2> QED
    BY <1>2, <1>4, <2>1 DEF ServerTakesFrame
<1>5. CASE ServerCommits
  <2>1. PICK text \in {Words, {}} :
          Says(<<[kind |-> "completed", text |-> text], [kind |-> "committed", text |-> {}]>>)
    BY <1>5 DEF ServerCommits
  <2> DEFINE a == [kind |-> "completed", text |-> text]
             b == [kind |-> "committed", text |-> {}]
  <2>2. a \in Answer /\ b \in Answer /\ a.kind = "completed" /\ b.kind = "committed"
    BY <1>3 DEF Answer
  <2>3. Says(<<a, b>>)
    BY <2>1
  <2> HIDE DEF a, b
  <2>4. server'.audio = FALSE
    BY <1>5 DEF ServerCommits
  <2>5. /\ toServer # <<>> /\ toServer[1] = Flush /\ toServer' = Tail(toServer)
        /\ UNCHANGED up
    BY <1>2, <1>5 DEF ServerCommits
  <2>6. /\ Len(toClient') = Len(toClient) + 2
        /\ toClient'[Len(toClient) + 1] = a /\ toClient'[Len(toClient) + 2] = b
        /\ \A i \in 1..Len(toClient) : toClient'[i] = toClient[i]
    BY <2>2, <2>3, SaysTwo
  <2> QED
    BY <2>2, <2>4, <2>5, <2>6
<1>6. CASE ServerSpeaks
  <2> DEFINE a == [kind |-> "delta", text |-> Words]
  <2>1. a \in Answer /\ a.kind = "delta" /\ Says(<<a>>)
    BY <1>3, <1>6 DEF Answer, ServerSpeaks
  <2> HIDE DEF a
  <2> QED
    BY <1>6, <2>1, SaysOne DEF ServerSpeaks
<1>7. CASE ServerFails
  <2> DEFINE a == [kind |-> "bad", text |-> {}]
  <2>1. a \in Answer /\ a.kind = "bad"
    BY <1>3 DEF Answer
  <2>2. \/ Says(<<a>>) /\ UNCHANGED up
        \/ up' = FALSE /\ UNCHANGED toClient
    BY <1>7 DEF ServerFails
  <2> HIDE DEF a
  <2>3. UNCHANGED <<toServer, server>>
    BY <1>7 DEF ServerFails
  <2>4. Says(<<a>>) => /\ Len(toClient') = Len(toClient) + 1
                       /\ toClient'[Len(toClient) + 1] = a
                       /\ \A i \in 1..Len(toClient) : toClient'[i] = toClient[i]
    BY <2>1, SaysOne
  <2> QED
    BY <2>1, <2>2, <2>3, <2>4
<1> QED
  BY <1>4, <1>5, <1>6, <1>7 DEF ServerStep

-----------------------------------------------------------------------------
(* One commit at a time.                                                   *)

Flushes == \E i \in 1..Len(toServer) : toServer[i] = Flush
Acks    == \E i \in 1..Len(toClient) : toClient[i].kind = "committed"

LEMMA CommitsKept ==
  ASSUME IInv, [Next]_vars, ~SendsFrame, ~SendsCommit, ~ReceivesWords, ~ReceivesCommitted,
         ~ReceivesBad, ~ServerStep
  PROVE  \/ toServer' = <<>> /\ toClient' = <<>> /\ sender' = Idle
         \/ /\ UNCHANGED <<toServer, toClient>>
            /\ \/ UNCHANGED <<sender, committed>>
               \/ sender'.at = "failed"
               \/ /\ sender'.at = "committing" => ~committed'
                  /\ sender'.at = "sending" => sender'.holding # Flush
                  /\ \/ sender.at \notin {"finalizing", "failed"}
                     \/ sender.at = "finalizing" /\ committed
<1>1. sender \in Sender /\ (main # "streaming" => sender = Idle)
  BY SenderFields DEF IInv, SilentAtFirst
<1>2. CASE SenderStep
  <2>1. UNCHANGED <<toServer, toClient>>
    BY <1>2 DEF SenderStep, TakesFrame, TakesFlush, FindsOverload, SendFails, Acknowledged,
                SenderReturns, socket
  <2>2. CASE FindsOverload \/ SendFails
    BY <1>1, <2>1, <2>2 DEF FindsOverload, SendFails, Sender
  <2>3. CASE TakesFrame \/ SenderReturns
    BY <1>1, <2>1, <2>3 DEF TakesFrame, SenderReturns, Sender
  <2>4. CASE TakesFlush
    BY <1>1, <2>1, <2>4 DEF TakesFlush, commits, Sender
  <2>5. CASE Acknowledged
    BY <1>1, <2>1, <2>5 DEF Acknowledged, Answered, Sender
  <2> QED
    BY <1>2, <2>2, <2>3, <2>4, <2>5 DEF SenderStep
<1>3. CASE ConnectFails \/ StreamEnds \/ Aclose
  BY <1>1, <1>3 DEF ConnectFails, StreamEnds, Aclose, TasksEnd, Hangup
<1>4. CASE StreamBegins
  <2>1. sender.at = "off" /\ sender'.at = "receiving"
    BY <1>1, <1>4, IdleSender DEF StreamBegins, Idle
  <2> QED
    BY <1>4, <2>1 DEF StreamBegins, socket
<1>5. CASE Connect \/ BackoffEnds
  BY <1>5 DEF Connect, BackoffEnds, Attempt, socket, commits
<1>6. CASE FindsHangup \/ WatcherRaises \/ UNCHANGED vars
  BY <1>6 DEF FindsHangup, Receiving, WatcherRaises, vars, socket, commits
<1>7. CASE Caller /\ ~Aclose
  BY <1>7 DEF Caller, CommitUtterance, EndInput, PushFrame, ReadEvent, Session, socket, commits
<1> QED
  BY <1>2, <1>3, <1>4, <1>5, <1>6, <1>7 DEF Next, MainStep, ReceiverStep

LEMMA CommitsStep ==
  ASSUME IInv, [Next]_vars
  PROVE  AudioWaitsForAck' /\ OneCommit'
<1>1. /\ AudioWaitsForAck /\ OneCommit /\ EventsInOrder
      /\ toServer \in Seq(Item) /\ toClient \in Seq(Answer)
      /\ Len(toServer) \in Nat /\ Len(toClient) \in Nat
      /\ sender \in Sender /\ sender.holding \in Item
  BY SenderFields DEF IInv, TypeOK
<1>2. Idle.at = "off"
  BY IdleSender
<1>3. CASE SendsFrame
  <2>1. sender'.at = "receiving" /\ UNCHANGED toClient /\ sender.at = "sending"
        /\ toServer' = Append(toServer, sender.holding)
    BY <1>3 DEF SendsFrame
  <2>2. sender.holding # Flush
    BY <1>1, <2>1 DEF OneCommit
  <2>3. /\ Len(toServer') = Len(toServer) + 1 /\ toServer'[Len(toServer) + 1] # Flush
        /\ \A i \in 1..Len(toServer) : toServer'[i] = toServer[i]
    BY <1>1, <2>1, <2>2, Adds
  <2>4. /\ \A i \in 1..Len(toServer) : toServer[i] # Flush
        /\ \A i \in 1..Len(toClient) : toClient[i].kind # "committed"
    BY <1>1, <2>1 DEF OneCommit
  <2>5. \A i \in 1..Len(toServer') : toServer'[i] # Flush
    BY <1>1, <2>3, <2>4
  <2> QED
    BY <2>1, <2>4, <2>5 DEF AudioWaitsForAck, OneCommit
<1>4. CASE SendsCommit
  <2>1. /\ sender'.at = "finalizing" /\ UNCHANGED <<toClient, committed>>
        /\ sender.at = "committing" /\ toServer' = Append(toServer, Flush)
    BY <1>1, <1>4 DEF SendsCommit, commits, Sender
  <2>2. Flush \in Item
    BY ConstantsOK DEF Flush, Item
  <2> QED
    BY <1>1, <2>1, <2>2, Adds DEF AudioWaitsForAck, OneCommit
<1>5. CASE ReceivesWords \/ ReceivesCommitted \/ ReceivesBad
  <2>1. /\ toClient # <<>> /\ toClient' = Tail(toClient) /\ UNCHANGED <<toServer, sender>>
    BY <1>5 DEF ReceivesWords, ReceivesCommitted, ReceivesBad, Receiving
  <2>2. \A i \in 1..Len(toClient') : toClient'[i] = toClient[i + 1] /\ i + 1 \in 1..Len(toClient)
    BY <1>1, <2>1, Drops
  <2>3. committed' = committed \/ (toClient[1].kind = "committed" /\ 1 \in 1..Len(toClient))
    BY <1>1, <1>5, <2>1, Drops
      DEF ReceivesWords, ReceivesCommitted, ReceivesBad, Receiving, commits
  <2> QED
    BY <1>1, <2>1, <2>2, <2>3 DEF AudioWaitsForAck, OneCommit
<1>6. CASE ServerStep
  <2>1. UNCHANGED <<sender, committed>>
    BY <1>6 DEF ServerStep, ServerTakesFrame, ServerCommits, ServerSpeaks, ServerFails, Serving,
                commits
  <2>2. CASE /\ toServer # <<>> /\ toServer' = Tail(toServer)
             /\ \/ toServer[1] # Flush /\ UNCHANGED toClient
                \/ /\ toServer[1] = Flush
                   /\ Len(toClient') = Len(toClient) + 2
                   /\ toClient'[Len(toClient) + 1].kind = "completed"
                   /\ toClient'[Len(toClient) + 2].kind = "committed"
                   /\ \A i \in 1..Len(toClient) : toClient'[i] = toClient[i]
    <3>1. /\ Len(toServer') = Len(toServer) - 1 /\ Len(toServer) >= 1
          /\ \A i \in 1..Len(toServer') : toServer'[i] = toServer[i + 1] /\ i + 1 \in 1..Len(toServer)
      BY <1>1, <2>2, Drops
    <3>2. \A i \in 1..Len(toClient) : toClient[i].kind # "committed"
      BY <1>1, <2>2 DEF AudioWaitsForAck
    <3>3. CASE toServer[1] # Flush /\ UNCHANGED toClient
      BY <1>1, <2>1, <3>1, <3>2, <3>3 DEF AudioWaitsForAck, OneCommit
    <3>4. CASE toServer[1] = Flush
      <4>1. Len(toServer) = 1
        BY <1>1, <3>1, <3>4 DEF AudioWaitsForAck
      <4>2. toServer' = <<>>
        BY <1>1, <2>2, <4>1
      <4>3. \A i \in 1..Len(toClient') : toClient'[i].kind = "committed" => i = Len(toClient')
        BY <1>1, <2>2, <3>2, <3>4
      <4>4. sender.at \in {"finalizing", "failed"} /\ (sender.at = "finalizing" => ~committed)
        BY <1>1, <3>4, <4>1 DEF OneCommit
      <4> QED
        BY <1>1, <2>1, <4>2, <4>3, <4>4 DEF AudioWaitsForAck, OneCommit
    <3> QED
      BY <2>2, <3>3, <3>4
  <2>3. CASE /\ UNCHANGED toServer /\ Len(toClient') = Len(toClient) + 1
             /\ toClient'[Len(toClient) + 1].kind # "committed"
             /\ \A i \in 1..Len(toClient) : toClient'[i] = toClient[i]
    <3>1. \A i \in 1..Len(toClient') :
            toClient'[i].kind = "committed" => i \in 1..Len(toClient) /\ toClient'[i] = toClient[i]
      BY <1>1, <2>3
    <3> QED
      BY <1>1, <2>1, <2>3, <3>1 DEF AudioWaitsForAck, OneCommit
  <2>4. CASE UNCHANGED <<toServer, toClient>>
    BY <1>1, <2>1, <2>4 DEF AudioWaitsForAck, OneCommit
  <2> QED
    BY <1>6, <2>2, <2>3, <2>4, ServerSays
<1>7. CASE ~(SendsFrame \/ SendsCommit \/ ReceivesWords \/ ReceivesCommitted \/ ReceivesBad
             \/ ServerStep)
  <2>1. CASE toServer' = <<>> /\ toClient' = <<>> /\ sender' = Idle
    BY <1>2, <2>1 DEF AudioWaitsForAck, OneCommit
  <2> QED
    BY <1>1, <1>7, <2>1, CommitsKept DEF AudioWaitsForAck, OneCommit
<1> QED
  BY <1>3, <1>4, <1>5, <1>6, <1>7

-----------------------------------------------------------------------------
(* Nothing is heard before sound was sent.                                 *)

Bad(s) == \A i \in 1..Len(s) : s[i].kind = "bad"

LEMMA BadTail ==
  ASSUME NEW s \in Seq(Answer), s # <<>>, Bad(s)
  PROVE  Bad(Tail(s)) /\ Head(s).kind = "bad"
  BY Drops DEF Bad

\* The four parts of SilentAtFirst.
LEMMA SilentParts ==
  SilentAtFirst <=>
    /\ main \in {"backoff", "connection", "handshake"} => Clean
    /\ main # "streaming" => sender = Idle /\ receiver = "off" /\ toServer = <<>>
                             /\ toClient = <<>> /\ server = Fresh
    /\ receiver = "lost" => Clean /\ toClient = <<>> /\ ~up
    /\ ~sentAudio =>
         /\ main \in {"streaming", "ended", "failed", "closed"} => Clean
         /\ sender.at \notin {"sending", "committing", "finalizing"} /\ sender.unbilled = 0
         /\ toServer = <<>> /\ ~server.audio /\ Bad(toClient)
  BY DEF SilentAtFirst, Bad

LEMMA SilentMain ==
  ASSUME IInv, MainStep \/ Aclose
  PROVE  SilentAtFirst'
<1>1. SilentAtFirst /\ TypeOK
  BY DEF IInv
<1>2. UNCHANGED <<sentAudio, Clean>>
  <2>1. Attempt
    BY DEF MainStep, Connect, ConnectFails, StreamBegins, StreamEnds, BackoffEnds, Aclose
  <2> QED
    BY <2>1 DEF Attempt, Clean, speech, commits
<1>3. /\ Idle.at = "off" /\ Idle.unbilled = 0 /\ Idle \in Sender
      /\ ~Fresh.audio /\ Len(<<>>) = 0
  BY IdleSender DEF Fresh
<1>4. Clean \/ (sentAudio /\ receiver # "lost" /\ main \in {"streaming", "ended", "failed", "closed"})
  BY <1>1 DEF SilentAtFirst, TypeOK
<1>5. CASE Connect \/ ConnectFails \/ BackoffEnds
  <2>1. /\ main \in {"connection", "handshake", "backoff"}
        /\ main' \in {"handshake", "connection", "backoff", "failed"}
        /\ UNCHANGED <<sender, receiver>>
        /\ \/ UNCHANGED <<toServer, toClient, server>>
           \/ toServer' = <<>> /\ toClient' = <<>> /\ server' = Fresh
    BY <1>5 DEF Connect, ConnectFails, BackoffEnds, GiveUp, Hangup, socket
  <2>2. Clean' /\ sender' = Idle /\ receiver' = "off" /\ toServer' = <<>> /\ toClient' = <<>>
        /\ server' = Fresh
    BY <1>1, <1>2, <2>1 DEF SilentAtFirst
  <2> QED
    BY <1>3, <2>1, <2>2 DEF SilentAtFirst
<1>6. CASE StreamBegins
  <2>1. sender'.at = "receiving" /\ sender'.unbilled = 0
    BY <1>3, <1>6 DEF StreamBegins, Sender
  <2>2. Clean' /\ main' = "streaming" /\ receiver' = "reading" /\ toServer' = <<>>
        /\ toClient' = <<>> /\ server' = Fresh
    BY <1>1, <1>2, <1>6 DEF SilentAtFirst, StreamBegins, socket
  <2> QED
    BY <1>3, <2>1, <2>2 DEF SilentAtFirst
<1>7. CASE StreamEnds \/ Aclose
  <2>1. /\ sender' = Idle /\ receiver' = "off" /\ toServer' = <<>> /\ toClient' = <<>>
        /\ server' = Fresh
    BY <1>7 DEF StreamEnds, Aclose, TasksEnd, Hangup
  <2>2. main' \in {"ended", "failed", "closed"} \/ (main' = "backoff" /\ receiver = "lost")
    BY <1>7 DEF StreamEnds, Aclose, GiveUp, MayRetry
  <2>3. Clean' \/ (sentAudio' /\ main' # "backoff")
    BY <1>1, <1>2, <1>4, <2>2 DEF SilentAtFirst
  <2> QED
    BY <1>3, <2>1, <2>2, <2>3 DEF SilentAtFirst
<1> QED
  BY <1>5, <1>6, <1>7 DEF MainStep

LEMMA SilentSender ==
  ASSUME IInv, SenderStep
  PROVE  SilentAtFirst'
<1>1. SilentAtFirst /\ TypeOK /\ OneCommit
  BY DEF IInv
<1>2. sender \in Sender /\ sender.unbilled \in Nat /\ Idle.at = "off"
  BY SenderFields, IdleSender
<1>3. main = "streaming" /\ main' = "streaming" /\ UNCHANGED receiver
  BY <1>1, <1>2
    DEF SenderStep, TakesFrame, TakesFlush, FindsOverload, SendsFrame, SendsCommit, SendFails,
        Acknowledged, SenderReturns, Sending, SilentAtFirst, Timed
<1>4. CASE TakesFrame
  BY <1>1, <1>3, <1>4 DEF TakesFrame, Sending, SilentAtFirst, Clean, speech, commits, socket
<1>5. CASE TakesFlush
  <2>1. Clean => Clean'
    BY <1>5 DEF TakesFlush, Sending, Clean, speech, commits
  <2>2. UNCHANGED <<sentAudio, toServer, toClient, up, server>>
    BY <1>5 DEF TakesFlush, socket
  <2>3. ~sentAudio => UNCHANGED sender
    BY <1>1, <1>2, <1>5 DEF TakesFlush, UtteranceOpen, SilentAtFirst
  <2> QED
    BY <1>1, <1>3, <2>1, <2>2, <2>3 DEF SilentAtFirst
<1>6. CASE FindsOverload \/ SenderReturns \/ SendFails
  <2>1. UNCHANGED <<Clean, sentAudio, toServer, toClient, up, server>>
    BY <1>6 DEF FindsOverload, SenderReturns, SendFails, Sending, Clean, speech, commits, socket
  <2>2. sender'.at \in {"failed", "returned"} /\ sender'.unbilled = sender.unbilled
    BY <1>2, <1>6 DEF FindsOverload, SenderReturns, SendFails, Sender
  <2> QED
    BY <1>1, <1>3, <2>1, <2>2 DEF SilentAtFirst
<1>7. CASE SendsFrame \/ SendsCommit
  <2>1. sentAudio /\ UNCHANGED <<Clean, sentAudio>> /\ up /\ UNCHANGED up
    BY <1>1, <1>7 DEF SendsFrame, SendsCommit, Sending, Clean, speech, commits, SilentAtFirst
  <2> QED
    BY <1>1, <1>3, <2>1 DEF SilentAtFirst
<1>8. CASE Acknowledged
  <2>1. sender.at = "finalizing" /\ committed /\ UNCHANGED sentAudio
    BY <1>8 DEF Acknowledged, Answered
  <2>2. sentAudio /\ receiver # "lost"
    BY <1>1, <2>1 DEF SilentAtFirst, Clean
  <2> QED
    BY <1>3, <2>1, <2>2 DEF SilentAtFirst
<1> QED
  BY <1>4, <1>5, <1>6, <1>7, <1>8 DEF SenderStep

LEMMA SilentReceiver ==
  ASSUME IInv, ReceiverStep
  PROVE  SilentAtFirst'
<1>1. SilentAtFirst /\ TypeOK /\ toClient \in Seq(Answer)
  BY DEF IInv, TypeOK
<1>2. receiver = "reading" /\ main = "streaming" /\ UNCHANGED <<main, sentAudio, sender, toServer, up, server>>
  BY <1>1 DEF ReceiverStep, ReceivesWords, ReceivesCommitted, ReceivesBad, FindsHangup, Receiving,
              SilentAtFirst
<1>3. CASE FindsHangup
  BY <1>1, <1>2, <1>3 DEF FindsHangup, SilentAtFirst, Clean, Receiving, speech, commits
<1>4. CASE ReceivesWords \/ ReceivesCommitted \/ ReceivesBad
  <2>1. toClient # <<>> /\ toClient' = Tail(toClient)
    BY <1>4 DEF ReceivesWords, ReceivesCommitted, ReceivesBad
  <2>2. receiver' # "lost"
    BY <1>2, <1>4 DEF ReceivesWords, ReceivesCommitted, ReceivesBad, Emit
  <2>3. CASE ~sentAudio
    <3>1. Bad(toClient') /\ Head(toClient).kind = "bad"
      BY <1>1, <2>1, <2>3, BadTail, SilentParts
    <3>2. UNCHANGED Clean
      BY <1>4, <3>1 DEF ReceivesWords, ReceivesCommitted, ReceivesBad, Receiving, Clean, speech,
                        commits
    <3> QED
      BY <1>1, <1>2, <2>2, <3>1, <3>2 DEF SilentAtFirst, Bad
  <2>4. CASE sentAudio
    BY <1>2, <2>2, <2>4 DEF SilentAtFirst
  <2> QED
    BY <2>3, <2>4, <1>1 DEF TypeOK
<1> QED
  BY <1>3, <1>4 DEF ReceiverStep

LEMMA SilentServer ==
  ASSUME IInv, ServerStep
  PROVE  SilentAtFirst'
<1>1. SilentAtFirst /\ TypeOK
  BY DEF IInv
<1>2. main = "streaming" /\ up /\ UNCHANGED <<Clean, main, sentAudio, sender, receiver>>
  BY DEF ServerStep, ServerTakesFrame, ServerCommits, ServerSpeaks, ServerFails, Serving, Clean,
         speech, commits
<1>3. receiver # "lost"
  BY <1>1, <1>2 DEF SilentAtFirst
<1>4. ASSUME ~sentAudio
      PROVE  toServer' = <<>> /\ ~server'.audio /\ Bad(toClient')
  <2>1. toServer = <<>> /\ ~server.audio /\ Bad(toClient)
    BY <1>1, <1>4, SilentParts
  <2>2. CASE UNCHANGED <<toServer, toClient, server>>
    BY <2>1, <2>2 DEF Bad
  <2>3. CASE /\ UNCHANGED <<toServer, server>> /\ Len(toClient') = Len(toClient) + 1
             /\ toClient'[Len(toClient) + 1].kind = "bad"
             /\ \A i \in 1..Len(toClient) : toClient'[i] = toClient[i]
    <3>1. Len(toClient) \in Nat
      BY <1>1 DEF TypeOK
    <3> QED
      BY <2>1, <2>3, <3>1 DEF Bad
  <2> QED
    BY <2>1, <2>2, <2>3, ServerSays
<1> QED
  BY <1>1, <1>2, <1>3, <1>4 DEF SilentAtFirst, Bad

LEMMA SilentStep ==
  ASSUME IInv, [Next]_vars
  PROVE  SilentAtFirst'
<1>1. SilentAtFirst
  BY DEF IInv
<1>2. CASE WatcherRaises \/ UNCHANGED vars
  BY <1>1, <1>2 DEF WatcherRaises, vars, SilentAtFirst, Clean, speech, commits, socket
<1>3. CASE Caller /\ ~Aclose /\ ~ReadEvent
  <2>1. Session
    BY <1>3 DEF Caller, CommitUtterance, EndInput, PushFrame
  <2>2. UNCHANGED <<Clean, main, sender, receiver, sentAudio, toServer, toClient, up, server>>
    BY <2>1 DEF Session, Clean, speech, commits, socket
  <2> QED
    BY <1>1, <2>2 DEF SilentAtFirst
<1>4. CASE ReadEvent
  <2>1. ~Clean
    BY <1>4 DEF ReadEvent, Clean
  <2>2. main \in {"streaming", "ended", "failed"}
    BY <1>1, <1>4, <2>1 DEF SilentAtFirst, ReadEvent, IInv, TypeOK
  <2> QED
    BY <1>1, <1>4, <2>1, <2>2 DEF SilentAtFirst, ReadEvent, socket
<1> QED
  BY <1>2, <1>3, <1>4, SilentMain, SilentSender, SilentReceiver, SilentServer DEF Next, Caller

-----------------------------------------------------------------------------
(* The order of what is heard.                                             *)

Bracketed == \A i \in 1..Len(events) : events[i].type \in {"start", "usage"} <=> ~SpeaksAfter(i - 1)

ReceiverInStep == receiver \in {"reading", "lost"} => InStep

LEMMA HeardWords ==
  ASSUME IInv, ReceivesWords
  PROVE  Bracketed' /\ ReceiverInStep'
<1>1. Bracketed /\ InStep /\ events \in Seq(Event) /\ Len(events) \in Nat /\ heard' = heard
      /\ started \in BOOLEAN /\ heard.speaking \in BOOLEAN
  BY DEF IInv, TypeOK, EventsInOrder, Bracketed, ReceivesWords, Receiving
<1>2. PICK es : Ordered(es) /\ Emit(es) /\ (started' <=> SpeaksAfterOf(es, Len(es)))
  BY Told
<1>3. es \in Seq(Event) /\ Len(es) \in Nat
  BY <1>2 DEF Ordered
<1>4. PICK n \in 0..Len(es) :
           /\ events' \in Seq(Event) /\ Len(events') = Len(events) + n
           /\ \A i \in 1..Len(events) : events'[i] = events[i]
           /\ \A i \in 1..n : events'[Len(events) + i] = es[i]
           /\ receiver' \in {"reading", "failed"} /\ (receiver' = "reading" => n = Len(es))
  BY <1>2, <1>3, Emits
<1>5. ASSUME NEW i \in 0..Len(events)
      PROVE  SpeaksAfter(i)' <=> SpeaksAfter(i)
  BY <1>1, <1>4, <1>5 DEF SpeaksAfter
<1>9. PICK l \in Nat : l = Len(events)
  BY <1>1
<1>6. ASSUME NEW k \in 0..n
      PROVE  SpeaksAfter(l + k)' <=> SpeaksAfterOf(es, k)
  <2>1. CASE k = 0
    <3>1. l + k = l /\ l \in 0..Len(events) /\ (SpeaksAfter(l) <=> started)
      BY <1>1, <1>9, <2>1 DEF InStep
    <3>2. SpeaksAfter(l)' <=> SpeaksAfter(l)
      BY <1>5, <3>1
    <3> QED
      BY <2>1, <3>1, <3>2 DEF SpeaksAfterOf
  <2>2. CASE k # 0
    <3>1. k \in 1..n /\ l + k # 0
      BY <1>1, <1>3, <2>2
    <3>2. events'[l + k] = es[k]
      BY <1>4, <1>9, <3>1
    <3> QED
      BY <2>2, <3>1, <3>2 DEF SpeaksAfter, SpeaksAfterOf, Talk
  <2> QED
    BY <2>1, <2>2
<1>7. ASSUME NEW i \in 1..Len(events')
      PROVE  events'[i].type \in {"start", "usage"} <=> ~SpeaksAfter(i - 1)'
  <2>1. CASE i <= Len(events)
    <3>1. i \in 1..Len(events) /\ i - 1 \in 0..Len(events)
      BY <1>1, <1>4, <2>1
    <3> QED
      BY <1>1, <1>4, <1>5, <3>1 DEF Bracketed
  <2>2. CASE i > Len(events)
    <3> DEFINE k == i - Len(events)
    <3>1. k \in 1..n /\ k - 1 \in 0..n /\ i = l + k /\ i - 1 = l + (k - 1)
          /\ k \in 1..Len(es)
      BY <1>1, <1>3, <1>4, <1>9, <2>2
    <3> HIDE DEF k
    <3>2. SpeaksAfter(i - 1)' <=> SpeaksAfterOf(es, k - 1)
      BY <1>6, <3>1
    <3> QED
      BY <1>2, <1>4, <1>9, <3>1, <3>2 DEF Ordered
  <2> QED
    BY <1>1, <1>4, <2>1, <2>2
<1>8. ASSUME receiver' = "reading"
      PROVE  InStep'
  <2>1. n = Len(es) /\ Len(events') = l + n /\ n \in 0..n
    BY <1>3, <1>4, <1>8, <1>9
  <2>3. SpeaksAfter(l + n)' <=> SpeaksAfterOf(es, Len(es))
    BY <1>6, <2>1
  <2>2. SpeaksAfter(Len(events))' <=> SpeaksAfterOf(es, Len(es))
    BY <2>1, <2>3 DEF SpeaksAfter
  <2> QED
    BY <1>2, <2>2 DEF InStep
<1> QED
  BY <1>4, <1>7, <1>8 DEF Bracketed, ReceiverInStep

LEMMA HeardRead ==
  ASSUME IInv, ReadEvent
  PROVE  Bracketed' /\ (InStep => InStep')
<1>1. Bracketed /\ events \in Seq(Event) /\ events # <<>> /\ events' = Tail(events)
      /\ started \in BOOLEAN /\ heard \in [speaking : BOOLEAN, usages : Nat] /\ started' = started
  BY DEF IInv, TypeOK, EventsInOrder, Bracketed, ReadEvent, speech
<1>2. /\ Len(events) \in Nat /\ Len(events) >= 1 /\ Head(events) = events[1]
      /\ Len(events') = Len(events) - 1
      /\ \A i \in 1..Len(events) - 1 : events'[i] = events[i + 1]
  BY <1>1, Drops
<1>3. heard'.speaking <=> events[1].type = "start" \/ (heard.speaking /\ events[1].type # "end")
  BY <1>1, <1>2 DEF ReadEvent
<1>4. events[1] \in Event /\ (events[1].type \in {"start", "usage"} <=> ~heard.speaking)
  BY <1>1, <1>2 DEF Bracketed, SpeaksAfter
<1>5. heard'.speaking <=> events[1].type \in {"start", "interim", "final"}
  BY <1>1, <1>3, <1>4 DEF Event
<1>6. ASSUME NEW i \in 0..Len(events')
      PROVE  SpeaksAfter(i)' <=> SpeaksAfter(i + 1)
  <2>1. CASE i = 0
    BY <1>5, <2>1 DEF SpeaksAfter
  <2>2. CASE i # 0
    <3>1. i \in 1..Len(events) - 1 /\ i + 1 # 0
      BY <1>2, <2>2
    <3> QED
      BY <1>2, <2>2, <3>1 DEF SpeaksAfter
  <2> QED
    BY <2>1, <2>2
<1>7. ASSUME NEW i \in 1..Len(events')
      PROVE  events'[i].type \in {"start", "usage"} <=> ~SpeaksAfter(i - 1)'
  <2>1. i - 1 \in 0..Len(events') /\ i + 1 \in 1..Len(events) /\ (i - 1) + 1 = i /\ (i + 1) - 1 = i
        /\ events'[i] = events[i + 1]
    BY <1>2
  <2>2. SpeaksAfter(i - 1)' <=> SpeaksAfter(i)
    BY <1>6, <2>1
  <2>3. events[i + 1].type \in {"start", "usage"} <=> ~SpeaksAfter(i)
    BY <1>1, <2>1 DEF Bracketed
  <2> QED
    BY <2>1, <2>2, <2>3
<1>8. SpeaksAfter(Len(events))' <=> SpeaksAfter(Len(events))
  <2>1. PICK l \in Nat : l = Len(events')
    BY <1>2
  <2>2. l \in 0..Len(events') /\ l + 1 = Len(events)
    BY <1>2, <2>1
  <2>3. SpeaksAfter(l)' <=> SpeaksAfter(l + 1)
    BY <1>6, <2>2
  <2>4. SpeaksAfter(l)' <=> SpeaksAfter(Len(events))'
    BY <2>1 DEF SpeaksAfter
  <2> QED
    BY <2>2, <2>3, <2>4
<1> QED
  BY <1>1, <1>7, <1>8 DEF Bracketed, InStep

LEMMA HeardAcknowledged ==
  ASSUME IInv, Acknowledged
  PROVE  Bracketed' /\ InStep'
<1>1. Bracketed /\ events \in Seq(Event) /\ Len(events) \in Nat /\ started \in BOOLEAN
      /\ UNCHANGED <<started, heard>>
  BY DEF IInv, TypeOK, EventsInOrder, Bracketed, Acknowledged, Sending, speech
<1>2. InStep /\ ~started
  BY DEF IInv, EventsInOrder, Acknowledged, Answered
<1>3. CASE UNCHANGED events
  BY <1>1, <1>2, <1>3 DEF Bracketed, InStep, SpeaksAfter
<1>4. CASE events' = Append(events, Mark("usage"))
  <2> DEFINE e == Mark("usage")
  <2>1. e \in Event /\ e.type = "usage" /\ events' = Append(events, e)
    BY <1>4 DEF Mark, Event
  <2> HIDE DEF e
  <2>2. /\ Len(events') = Len(events) + 1 /\ events'[Len(events) + 1] = e
        /\ \A i \in 1..Len(events) : events'[i] = events[i]
    BY <1>1, <2>1, Adds
  <2>3. ASSUME NEW i \in 0..Len(events)
        PROVE  SpeaksAfter(i)' <=> SpeaksAfter(i)
    BY <1>1, <2>2 DEF SpeaksAfter
  <2>4. ASSUME NEW i \in 1..Len(events')
        PROVE  events'[i].type \in {"start", "usage"} <=> ~SpeaksAfter(i - 1)'
    <3>1. i - 1 \in 0..Len(events)
      BY <1>1, <2>2
    <3>2. CASE i = Len(events) + 1
      <4>1. ~SpeaksAfter(i - 1)
        BY <1>1, <1>2, <3>2 DEF InStep
      <4> QED
        BY <2>1, <2>2, <2>3, <3>1, <3>2, <4>1
    <3>3. CASE i # Len(events) + 1
      <4>1. i \in 1..Len(events)
        BY <1>1, <2>2, <3>3
      <4> QED
        BY <1>1, <2>2, <2>3, <3>1, <4>1 DEF Bracketed
    <3> QED
      BY <3>2, <3>3
  <2>5. ~SpeaksAfter(Len(events))'
    BY <1>1, <2>1, <2>2 DEF SpeaksAfter
  <2> QED
    BY <1>1, <1>2, <2>4, <2>5 DEF Bracketed, InStep
<1> QED
  BY <1>3, <1>4 DEF Acknowledged

LEMMA HeardStep ==
  ASSUME IInv, [Next]_vars
  PROVE  /\ Bracketed' /\ ReceiverInStep'
         /\ ~ReceivesWords /\ InStep => InStep'
<1>1. Bracketed /\ ReceiverInStep /\ SilentAtFirst /\ started \in BOOLEAN
  BY DEF IInv, TypeOK, EventsInOrder, Bracketed, ReceiverInStep
<1>2. CASE ReceivesWords
  BY <1>2, HeardWords
<1>3. CASE ReadEvent
  BY <1>1, <1>3, HeardRead DEF ReceiverInStep, ReadEvent
<1>4. CASE Acknowledged
  BY <1>4, HeardAcknowledged DEF ReceiverInStep
<1>5. CASE UNCHANGED <<speech, events, heard>>
  <2>1. Bracketed' /\ (InStep => InStep')
    BY <1>1, <1>5 DEF Bracketed, InStep, SpeaksAfter, speech
  <2>2. ASSUME receiver' \in {"reading", "lost"}
        PROVE  InStep
    <3>1. CASE StreamBegins
      <4>1. Clean /\ Len(<<>>) = 0
        BY <1>1, <3>1 DEF StreamBegins, SilentAtFirst
      <4> QED
        BY <4>1 DEF Clean, InStep, SpeaksAfter
    <3>2. CASE receiver \in {"reading", "lost"}
      BY <1>1, <3>2 DEF ReceiverInStep
    <3>3. CASE receiver' = receiver
      BY <2>2, <3>2, <3>3
    <3>4. MainStep \/ Aclose => StreamBegins \/ receiver' = receiver \/ receiver' = "off"
      BY DEF MainStep, Connect, ConnectFails, StreamEnds, TasksEnd, BackoffEnds, Aclose
    <3>5. SenderStep \/ ServerStep \/ WatcherRaises \/ UNCHANGED vars => receiver' = receiver
      BY DEF SenderStep, TakesFrame, TakesFlush, FindsOverload, SendsFrame, SendsCommit, SendFails,
             Acknowledged, SenderReturns, Sending, ServerStep, ServerTakesFrame, ServerCommits,
             ServerSpeaks, ServerFails, Serving, WatcherRaises, vars
    <3>6. ReceiverStep => receiver = "reading"
      BY DEF ReceiverStep, ReceivesWords, ReceivesCommitted, ReceivesBad, FindsHangup
    <3>7. Caller /\ ~Aclose => receiver' = receiver
      BY DEF Caller, CommitUtterance, EndInput, PushFrame, ReadEvent, Session
    <3> QED
      BY <2>2, <3>1, <3>2, <3>3, <3>4, <3>5, <3>6, <3>7 DEF Next
  <2> QED
    BY <2>1, <2>2 DEF ReceiverInStep
<1> QED
  BY <1>2, <1>3, <1>4, <1>5, WordsKept

\* The last two parts of EventsInOrder.
AckIsLast ==
  \A i \in 1..Len(toClient) :
    toClient[i].kind = "committed" =>
      /\ ~server.audio
      /\ \A j \in (i + 1)..Len(toClient) : toClient[j].kind = "bad"
      /\ IF i = 1 THEN ~started ELSE toClient[i - 1].kind = "completed"

AckHeard ==
  (sender.at = "finalizing" /\ committed) =>
    InStep /\ ~started /\ toServer = <<>> /\ ~server.audio /\ Bad(toClient)

LEMMA OrderParts == EventsInOrder <=> Bracketed /\ ReceiverInStep /\ AckIsLast /\ AckHeard
  BY DEF EventsInOrder, Bracketed, ReceiverInStep, AckIsLast, AckHeard, Bad

LEMMA AckIsLastStep ==
  ASSUME IInv, [Next]_vars
  PROVE  AckIsLast'
<1>1. AckIsLast /\ AudioWaitsForAck /\ toClient \in Seq(Answer) /\ Len(toClient) \in Nat
      /\ toServer \in Seq(Item) /\ started \in BOOLEAN
  BY OrderParts DEF IInv, TypeOK
<1>2. CASE ReceivesWords \/ ReceivesCommitted \/ ReceivesBad
  <2>1. toClient # <<>> /\ toClient' = Tail(toClient) /\ UNCHANGED server
    BY <1>2 DEF ReceivesWords, ReceivesCommitted, ReceivesBad, Receiving
  <2>2. /\ Head(toClient) = toClient[1] /\ Len(toClient) >= 1
        /\ Len(toClient') = Len(toClient) - 1
        /\ \A i \in 1..Len(toClient') : toClient'[i] = toClient[i + 1] /\ i + 1 \in 1..Len(toClient)
    BY <1>1, <2>1, Drops
  <2>3. toClient[1].kind = "completed" => ~started'
    BY <1>2, <2>2 DEF ReceivesWords, ReceivesCommitted, ReceivesBad, StartedAfter
  <2> SUFFICES ASSUME NEW i \in 1..Len(toClient'), toClient'[i].kind = "committed"
               PROVE  /\ ~server'.audio
                      /\ \A j \in (i + 1)..Len(toClient') : toClient'[j].kind = "bad"
                      /\ IF i = 1 THEN ~started' ELSE toClient'[i - 1].kind = "completed"
    BY DEF AckIsLast
  <2>4. /\ ~server.audio /\ \A j \in (i + 2)..Len(toClient) : toClient[j].kind = "bad"
        /\ toClient[i].kind = "completed"
    BY <1>1, <2>2 DEF AckIsLast
  <2>5. ASSUME NEW j \in (i + 1)..Len(toClient')
        PROVE  toClient'[j].kind = "bad"
    <3>1. j \in 1..Len(toClient') /\ j + 1 \in (i + 2)..Len(toClient)
      BY <1>1, <2>2
    <3> QED
      BY <2>2, <2>4, <3>1
  <2>6. i # 1 => i - 1 \in 1..Len(toClient') /\ (i - 1) + 1 = i
    BY <2>2
  <2> QED
    BY <2>1, <2>2, <2>3, <2>4, <2>5, <2>6
<1>3. CASE ServerStep
  <2>1. started' = started
    BY <1>3 DEF ServerStep, ServerTakesFrame, ServerCommits, ServerSpeaks, ServerFails, Serving,
                speech
  <2>2. CASE toServer # <<>> /\ ~(Len(toClient') = Len(toClient) + 1)
    <3>1. \A i \in 1..Len(toClient) : toClient[i].kind # "committed"
      BY <1>1, <2>2 DEF AudioWaitsForAck
    <3>2. CASE UNCHANGED toClient
      BY <3>1, <3>2 DEF AckIsLast
    <3>3. CASE /\ server'.audio = FALSE /\ Len(toClient') = Len(toClient) + 2
               /\ toClient'[Len(toClient) + 1].kind = "completed"
               /\ toClient'[Len(toClient) + 2].kind = "committed"
               /\ \A i \in 1..Len(toClient) : toClient'[i] = toClient[i]
      <4>1. \A i \in 1..Len(toClient') : toClient'[i].kind = "committed" => i = Len(toClient) + 2
        BY SMTT(30), <1>1, <3>1, <3>3
      <4> QED
        BY <1>1, <3>3, <4>1 DEF AckIsLast
    <3> QED
      BY <1>3, <2>2, <3>2, <3>3, ServerSays
  <2>3. CASE Len(toClient') = Len(toClient) + 1
    <3>1. /\ UNCHANGED server
          /\ \/ toClient'[Len(toClient) + 1].kind = "delta" /\ server.audio
             \/ toClient'[Len(toClient) + 1].kind = "bad"
          /\ \A i \in 1..Len(toClient) : toClient'[i] = toClient[i]
      <4>1. ~UNCHANGED toClient /\ Len(toClient') # Len(toClient) + 2
        BY <1>1, <2>3
      <4> QED
        BY <1>3, <4>1, ServerSays
    <3> SUFFICES ASSUME NEW i \in 1..Len(toClient'), toClient'[i].kind = "committed"
                 PROVE  /\ ~server'.audio
                        /\ \A j \in (i + 1)..Len(toClient') : toClient'[j].kind = "bad"
                        /\ IF i = 1 THEN ~started' ELSE toClient'[i - 1].kind = "completed"
      BY DEF AckIsLast
    <3>2. i \in 1..Len(toClient) /\ toClient[i].kind = "committed"
      BY <1>1, <2>3, <3>1
    <3>3. /\ ~server.audio /\ \A j \in (i + 1)..Len(toClient) : toClient[j].kind = "bad"
          /\ IF i = 1 THEN ~started ELSE toClient[i - 1].kind = "completed"
      BY <1>1, <3>2 DEF AckIsLast
    <3>4. \A j \in (i + 1)..Len(toClient') : toClient'[j].kind = "bad"
      BY <1>1, <2>3, <3>1, <3>2, <3>3
    <3>5. i # 1 => i - 1 \in 1..Len(toClient)
      BY <3>2
    <3> QED
      BY <2>1, <3>1, <3>3, <3>4, <3>5
  <2>4. CASE UNCHANGED <<toClient, server>>
    BY <1>1, <2>1, <2>4 DEF AckIsLast
  <2> QED
    BY <1>3, <2>2, <2>3, <2>4, ServerSays
<1>4. CASE Hangup
  <2>1. Len(toClient') = 0
    BY <1>4 DEF Hangup
  <2> QED
    BY <2>1 DEF AckIsLast
<1>5. CASE UNCHANGED <<toClient, server, started>>
  BY <1>1, <1>5 DEF AckIsLast
<1>6. SendsFrame \/ SendsCommit \/ Connect \/ UNCHANGED socket => UNCHANGED <<toClient, server>>
  BY DEF SendsFrame, SendsCommit, Connect, socket
<1>7. ~ReceivesWords => UNCHANGED started
  BY WordsKept DEF ReadEvent, Acknowledged, Sending, speech
<1> QED
  BY <1>2, <1>3, <1>4, <1>5, <1>6, <1>7, SocketKept

LEMMA AckHeardStep ==
  ASSUME IInv, [Next]_vars
  PROVE  AckHeard'
<1>1. /\ AckHeard /\ AckIsLast /\ OneCommit /\ AudioWaitsForAck /\ ReceiverInStep
      /\ toClient \in Seq(Answer) /\ Len(toClient) \in Nat /\ sender \in Sender
      /\ toServer \in Seq(Item)
  BY OrderParts, SenderFields DEF IInv, TypeOK
<1>2. ASSUME SenderStep
      PROVE  sender'.at # "finalizing" \/ ~committed'
  <2>1. CASE SendsCommit
    <3>1. ~committed /\ committed' = committed
      BY <1>1, <2>1 DEF SendsCommit, commits, OneCommit
    <3> QED
      BY <3>1
  <2>2. CASE TakesFlush
    BY <1>1, <2>2 DEF TakesFlush, Sender
  <2>3. CASE TakesFrame \/ FindsOverload \/ SendsFrame \/ SendFails \/ Acknowledged \/ SenderReturns
    <3>1. sender'.at \in {"sending", "receiving", "failed", "returned"}
      <4>1. CASE TakesFrame
        BY <1>1, <4>1 DEF TakesFrame, Sender
      <4>4. CASE SendsFrame
        BY <4>4 DEF SendsFrame
      <4>2. CASE FindsOverload \/ SendFails \/ SenderReturns
        BY <1>1, <4>2 DEF FindsOverload, SendFails, SenderReturns, Sender
      <4>3. CASE Acknowledged
        BY <1>1, <4>3 DEF Acknowledged, Sender
      <4> QED
        BY <2>3, <4>1, <4>2, <4>3, <4>4
    <3> QED
      BY <3>1
  <2> QED
    BY <1>2, <2>1, <2>2, <2>3 DEF SenderStep
<1>6. StreamBegins \/ StreamEnds \/ Aclose => sender'.at # "finalizing"
  BY IdleSender DEF StreamBegins, StreamEnds, TasksEnd, Aclose, Sender
<1>3. CASE ReceivesCommitted
  <2>1. /\ toClient # <<>> /\ toClient' = Tail(toClient) /\ Head(toClient).kind = "committed"
        /\ UNCHANGED <<sender, started, toServer, server>>
    BY <1>3 DEF ReceivesCommitted, Receiving, speech
  <2>2. /\ Head(toClient) = toClient[1] /\ 1 \in 1..Len(toClient)
        /\ Len(toClient') = Len(toClient) - 1
        /\ \A i \in 1..Len(toClient') : toClient'[i] = toClient[i + 1]
    BY <1>1, <2>1, Drops
  <2>3. ~server.audio /\ ~started /\ toServer = <<>>
    BY <1>1, <2>1, <2>2 DEF AckIsLast, OneCommit
  <2>4. \A j \in (1 + 1)..Len(toClient) : toClient[j].kind = "bad"
    BY <1>1, <2>1, <2>2 DEF AckIsLast
  <2>5. Bad(toClient')
    BY <1>1, <2>2, <2>4 DEF Bad
  <2>6. InStep /\ ~ReceivesWords
    BY <1>1, <1>3 DEF ReceivesCommitted, ReceivesWords, ReceiverInStep
  <2>7. InStep'
    BY <2>6, HeardStep
  <2> QED
    BY <2>1, <2>3, <2>5, <2>7 DEF AckHeard
<1>4. CASE UNCHANGED <<sender, committed>> /\ ~ReceivesCommitted
  <2> SUFFICES ASSUME sender.at = "finalizing", committed
               PROVE  InStep' /\ ~started' /\ toServer' = <<>> /\ ~server'.audio /\ Bad(toClient')
    BY <1>4 DEF AckHeard
  <2>1. InStep /\ ~started /\ toServer = <<>> /\ ~server.audio /\ Bad(toClient)
    BY <1>1 DEF AckHeard
  <2>2. ~ReceivesWords
    BY <1>1, <2>1, BadTail DEF ReceivesWords
  <2>3. InStep' /\ ~started'
    BY <2>1, <2>2, HeardStep, WordsKept DEF ReadEvent, Acknowledged, Sending, speech
  <2>4. ~SendsFrame /\ ~SendsCommit
    BY <1>4 DEF SendsFrame, SendsCommit
  <2>5. CASE ReceivesBad
    BY <1>1, <2>1, <2>3, <2>5, BadTail DEF ReceivesBad, Receiving
  <2>6. CASE ServerStep
    <3>1. UNCHANGED <<toServer, server>>
      BY <1>4, <2>1, <2>6, ServerSays
    <3>2. CASE UNCHANGED toClient
      BY <2>1, <2>3, <3>1, <3>2 DEF Bad
    <3>3. CASE /\ Len(toClient') = Len(toClient) + 1 /\ toClient'[Len(toClient) + 1].kind = "bad"
               /\ \A i \in 1..Len(toClient) : toClient'[i] = toClient[i]
      BY <1>1, <2>1, <2>3, <3>1, <3>3 DEF Bad
    <3> QED
      BY <2>1, <2>6, <3>2, <3>3, ServerSays
  <2>7. CASE Hangup
    BY <2>3, <2>7 DEF Hangup, Fresh, Bad
  <2>8. CASE Connect \/ UNCHANGED socket
    BY <2>1, <2>3, <2>8 DEF Connect, socket, Bad
  <2> QED
    BY <1>4, <2>2, <2>4, <2>5, <2>6, <2>7, <2>8, SocketKept
<1>5. ASSUME UNCHANGED sender, ~SenderStep, ~ReceivesCommitted
      PROVE  UNCHANGED committed
  <2>1. MainStep \/ Aclose => UNCHANGED committed
    BY DEF MainStep, Connect, ConnectFails, StreamBegins, StreamEnds, BackoffEnds, Aclose, Attempt,
           commits
  <2>2. ReceiverStep \/ ServerStep \/ WatcherRaises \/ UNCHANGED vars => UNCHANGED committed
    BY <1>5 DEF ReceiverStep, ReceivesWords, ReceivesBad, FindsHangup, ServerStep, ServerTakesFrame,
           ServerCommits, ServerSpeaks, ServerFails, Serving, WatcherRaises, vars, commits
  <2>3. Caller /\ ~Aclose => UNCHANGED committed
    BY DEF Caller, CommitUtterance, EndInput, PushFrame, ReadEvent, Session, commits
  <2> QED
    BY <1>5, <2>1, <2>2, <2>3 DEF Next
<1> QED
  BY <1>2, <1>3, <1>4, <1>5, <1>6, SenderKept DEF AckHeard

-----------------------------------------------------------------------------
(* The theorems.                                                           *)

LEMMA InitOK == Init => IInv
<1> SUFFICES ASSUME Init PROVE IInv
  OBVIOUS
<1>1. /\ Idle \in Sender /\ Idle.at = "off" /\ Fresh \in [audio : BOOLEAN, commits : Nat]
      /\ ~Fresh.audio
  BY IdleSender DEF Fresh
<1>2. ChannelOK(input) /\ input.reserved = FALSE
  <2> DEFINE b == 0
             l == BaseLimit
  <2>1. b \in Int /\ l \in Nat /\ <<>> \in Seq(Item) /\ Len(<<>>) = 0 /\ MaxItems \in Nat
    BY ConstantsOK
  <2>2. input = [items |-> <<>>, bytes |-> b, limit |-> l, reserved |-> FALSE, closed |-> FALSE]
    BY DEF Init
  <2> HIDE DEF b, l
  <2>3. input \in Channel /\ input.items = <<>> /\ input.bytes = b /\ input.limit = l
        /\ input.reserved = FALSE
    BY <2>1, <2>2 DEF Channel
  <2> QED
    BY <2>1, <2>3, ConstantsOK DEF ChannelOK, b, l
<1>8. /\ main = "connection" /\ sender = Idle /\ receiver = "off" /\ watcher = "off"
      /\ toServer = <<>> /\ toClient = <<>> /\ up = FALSE /\ server = Fresh
      /\ started = FALSE /\ partial = {} /\ events = <<>> /\ committed = FALSE
      /\ heard = [speaking |-> FALSE, usages |-> 0]
  BY DEF Init
<1>9. /\ overloaded = FALSE /\ sentAudio = FALSE /\ retries = 0 /\ commitPending = FALSE
      /\ accepted = 0 /\ billed = 0 /\ dropped = 0
  BY DEF Init
<1>3. TypeOK
  <2>1. TasksTyped
    <3>1. 0 \in 0..MaxRetry
      BY ConstantsOK
    <3> QED
      BY <1>8, <1>9, <3>1 DEF TasksTyped
  <2>2. WordsTyped
    <3>1. events \in Seq(Event) /\ Len(events) = 0 /\ EventLimit \in Nat
      BY <1>8, ConstantsOK
    <3>2. heard \in [speaking : BOOLEAN, usages : Nat]
      BY <1>8
    <3>3. partial \in SUBSET Nat /\ started \in BOOLEAN
      BY <1>8
    <3> QED
      BY <3>1, <3>2, <3>3 DEF WordsTyped
  <2>3. SocketTyped
    <3>1. toServer \in Seq(Item) /\ toClient \in Seq(Answer)
      BY <1>8
    <3>2. up \in BOOLEAN /\ server \in [audio : BOOLEAN, commits : Nat]
      BY <1>1, <1>8
    <3> QED
      BY <3>1, <3>2 DEF SocketTyped
  <2>4. sender \in Sender
    BY <1>1, <1>8
  <2> QED
    BY <1>2, <2>1, <2>2, <2>3, <2>4, TypeParts DEF ChannelOK
<1>4. LimitFollowsBacklog
  BY <1>2 DEF LimitFollowsBacklog, ChannelOK
<1>5. ReserveIsHeld /\ AudioWaitsForAck /\ OneCommit
  BY <1>1, <1>2 DEF Init, ReserveIsHeld, AudioWaitsForAck, OneCommit
<1>6. SilentAtFirst
  <2>1. Clean
    BY <1>8 DEF Clean
  <2> QED
    BY <1>1, <1>8, <2>1, IdleSender DEF SilentAtFirst
<1>7. EventsInOrder
  BY <1>1 DEF Init, EventsInOrder
<1> QED
  BY <1>3, <1>4, <1>5, <1>6, <1>7 DEF IInv

\* What is checked as IInv holds whatever the sizes, and is preserved by every step.
THEOREM InductiveInvariant == Spec => []IInv
<1>1. ASSUME IInv, [Next]_vars
      PROVE  IInv'
  <2>1. LimitFollowsBacklog' /\ ReserveIsHeld'
    BY <1>1, ChannelStep DEF ChannelInv, ChannelOK, LimitFollowsBacklog
  <2>2. TypeOK' /\ AudioWaitsForAck' /\ OneCommit' /\ SilentAtFirst'
    BY <1>1, TypeStep, CommitsStep, SilentStep
  <2>3. Bracketed' /\ ReceiverInStep' /\ AckIsLast' /\ AckHeard'
    BY <1>1, HeardStep, AckIsLastStep, AckHeardStep
  <2>4. EventsInOrder'
    BY <2>3 DEF EventsInOrder, Bracketed, ReceiverInStep, AckIsLast, AckHeard, Bad
  <2> QED
    BY <2>1, <2>2, <2>4 DEF IInv
<1> QED
  BY <1>1, InitOK, PTL DEF Spec

\* The channel and the events stay within their bounds, and the limit of the sound, raised
\* for a finalization, is given back as its backlog drains (_AudioChannel, _emit).
THEOREM BacklogSafety == Spec => []BacklogIsBounded
<1>1. IInv => BacklogIsBounded
  BY DEF IInv, TypeOK, BacklogIsBounded
<1> QED
  BY <1>1, InductiveInvariant, PTL

\* No sound is sent behind a commit that has no answer (_send).
THEOREM CommitsAreSerial == Spec => []AudioWaitsForAck
<1>1. IInv => AudioWaitsForAck
  BY DEF IInv
<1> QED
  BY <1>1, InductiveInvariant, PTL

\* Start, words, end, usage: the reader hears them in this order (_receive, _send).
THEOREM SpeechInOrder == Spec => []SpeechIsBracketed
<1>1. ASSUME IInv
      PROVE  SpeechIsBracketed
  <2> SUFFICES ASSUME events # <<>>
               PROVE  CASE Head(events).type \in {"start", "usage"} -> ~heard.speaking
                        [] OTHER -> heard.speaking
    BY DEF SpeechIsBracketed
  <2>1. Bracketed /\ events \in Seq(Event)
    BY <1>1, OrderParts DEF IInv, TypeOK
  <2>2. Head(events) = events[1] /\ 1 \in 1..Len(events)
    BY <2>1
  <2> QED
    BY <2>1, <2>2 DEF Bracketed, SpeaksAfter
<1> QED
  BY <1>1, InductiveInvariant, PTL

\* A retry finds the stream as it was at first (_run resets only a part of it).
THEOREM RetriesAreClean == Spec => []RetryStartsClean
<1>1. ASSUME IInv
      PROVE  RetryStartsClean
  <2>1. SilentAtFirst /\ ReserveIsHeld /\ Idle.at = "off" /\ input.reserved \in BOOLEAN
    BY <1>1, InputOK, Fields, IdleSender DEF IInv, ChannelOK
  <2> QED
    BY <2>1 DEF SilentAtFirst, ReserveIsHeld, RetryStartsClean, Clean
<1> QED
  BY <1>1, InductiveInvariant, PTL

-----------------------------------------------------------------------------
(* The words are of the utterance that is told.                            *)

\* The parts of Untold: what the receiver has, what is on its way to it, and what the
\* server will still say.
PartialOf(u) == partial \subseteq {u} /\ (~started => partial = {})

AnswersOf(u) ==
  \A i \in 1..Len(toClient) :
    /\ toClient[i].text \subseteq {u}
    /\ toClient[i].kind = "bad" => toClient[i].text = {}
    /\ toClient[i].kind = "committed" => server.commits = u + 1

SoundOf(u) ==
  toServer # <<>> \/ server.audio \/ sender.at \in {"receiving", "sending", "committing"}
    => server.commits = u

CommitOf(u) == sender.at = "finalizing" /\ committed => server.commits = u + 1

LEMMA UntoldParts ==
  ASSUME NEW u
  PROVE  Untold(u) <=> PartialOf(u) /\ AnswersOf(u) /\ SoundOf(u) /\ CommitOf(u)
  BY DEF Untold, PartialOf, AnswersOf, SoundOf, CommitOf

LEMMA UntoldMain ==
  ASSUME IInv, MainStep \/ Aclose, NEW u \in Nat, Untold(u), main = "handshake" => u = 0
  PROVE  Untold(u)'
<1>1. /\ PartialOf(u) /\ AnswersOf(u) /\ SoundOf(u) /\ CommitOf(u) /\ SilentAtFirst
      /\ Idle.at = "off" /\ Fresh.audio = FALSE /\ Fresh.commits = 0 /\ Len(<<>>) = 0
  BY UntoldParts, IdleSender DEF IInv, Fresh
<1>2. UNCHANGED <<partial, started, committed>>
  <2>1. Attempt
    BY DEF MainStep, Connect, ConnectFails, StreamBegins, StreamEnds, BackoffEnds, Aclose
  <2> QED
    BY <2>1 DEF Attempt, speech, commits
<1>3. PartialOf(u)'
  BY <1>1, <1>2 DEF PartialOf
<1>4. CASE Connect \/ BackoffEnds
  <2>1. UNCHANGED <<toServer, toClient, server, sender>>
    BY <1>4 DEF Connect, BackoffEnds, socket
  <2> QED
    BY <1>1, <1>2, <1>3, <2>1, UntoldParts DEF Untold, PartialOf, AnswersOf, SoundOf, CommitOf
<1>5. CASE ConnectFails \/ StreamEnds \/ Aclose
  <2>1. toServer' = <<>> /\ toClient' = <<>> /\ server' = Fresh /\ sender' = Idle
    <3>1. CASE ConnectFails
      BY <1>1, <3>1 DEF ConnectFails, Hangup, SilentAtFirst
    <3>2. CASE StreamEnds \/ Aclose
      BY <3>2 DEF StreamEnds, Aclose, TasksEnd, Hangup
    <3> QED
      BY <1>5, <3>1, <3>2
  <2> QED
    BY <1>1, <1>3, <2>1 DEF Untold, PartialOf
<1>6. CASE StreamBegins
  <2>1. toServer' = <<>> /\ toClient' = <<>> /\ server' = Fresh /\ u = 0
    BY <1>1, <1>6 DEF StreamBegins, SilentAtFirst, socket
  <2>2. sender'.at = "receiving"
    BY <1>1, <1>6, IdleSender DEF StreamBegins, Sender
  <2> QED
    BY <1>1, <1>3, <2>1, <2>2 DEF Untold, PartialOf
<1> QED
  BY <1>4, <1>5, <1>6 DEF MainStep

LEMMA UntoldSender ==
  ASSUME IInv, SenderStep, ~Acknowledged, NEW u \in Nat, Untold(u)
  PROVE  Untold(u)'
<1>1. /\ PartialOf(u) /\ AnswersOf(u) /\ SoundOf(u) /\ CommitOf(u) /\ OneCommit
      /\ sender \in Sender /\ toServer \in Seq(Item)
  BY UntoldParts, SenderFields DEF IInv, TypeOK
<1>2. UNCHANGED <<partial, started, toClient, server>>
  BY DEF SenderStep, TakesFrame, TakesFlush, FindsOverload, SendsFrame, SendsCommit, SendFails,
         SenderReturns, Sending, speech, socket
<1>3. PartialOf(u)' /\ AnswersOf(u)'
  BY <1>1, <1>2 DEF PartialOf, AnswersOf
<1>4. CASE TakesFrame
  <2>1. sender.at = "receiving" /\ sender'.at = "sending"
    BY <1>1, <1>4 DEF TakesFrame, Sender
  <2> QED
    BY <1>1, <1>2, <1>3, <2>1 DEF Untold, PartialOf, AnswersOf, SoundOf
<1>5. CASE TakesFlush
  <2>1. sender.at = "receiving" /\ sender'.at \in {"receiving", "committing"}
    BY <1>1, <1>5 DEF TakesFlush, Sender
  <2> QED
    BY <1>1, <1>2, <1>3, <2>1 DEF Untold, PartialOf, AnswersOf, SoundOf
<1>6. CASE FindsOverload \/ SendFails \/ SenderReturns
  <2>1. sender'.at \in {"failed", "returned"} /\ UNCHANGED toServer
    BY <1>1, <1>6 DEF FindsOverload, SendFails, SenderReturns, Sender, socket
  <2> QED
    BY <1>1, <1>2, <1>3, <2>1 DEF Untold, PartialOf, AnswersOf, SoundOf
<1>7. CASE SendsFrame
  <2>1. sender.at = "sending" /\ sender'.at = "receiving"
    BY <1>1, <1>7 DEF SendsFrame
  <2> QED
    BY <1>1, <1>2, <1>3, <2>1 DEF Untold, PartialOf, AnswersOf, SoundOf
<1>8. CASE SendsCommit
  <2>1. sender.at = "committing" /\ sender'.at = "finalizing" /\ ~committed /\ committed' = committed
    BY <1>1, <1>8 DEF SendsCommit, Sender, OneCommit, commits
  <2> QED
    BY <1>1, <1>2, <1>3, <2>1 DEF Untold, PartialOf, AnswersOf, SoundOf
<1> QED
  BY <1>4, <1>5, <1>6, <1>7, <1>8 DEF SenderStep

LEMMA UntoldReceiver ==
  ASSUME IInv, ReceiverStep, NEW u \in Nat, Untold(u)
  PROVE  Untold(u)'
<1>1. /\ PartialOf(u) /\ AnswersOf(u) /\ SoundOf(u) /\ CommitOf(u)
      /\ toClient \in Seq(Answer) /\ Len(toClient) \in Nat
  BY UntoldParts DEF IInv, TypeOK
<1>2. UNCHANGED <<toServer, server, sender>>
  BY DEF ReceiverStep, ReceivesWords, ReceivesCommitted, ReceivesBad, FindsHangup, Receiving
<1>3. SoundOf(u)'
  BY <1>1, <1>2 DEF SoundOf
<1>4. CASE FindsHangup
  <2>1. UNCHANGED <<toClient, partial, started, committed>>
    BY <1>4 DEF FindsHangup, commits, speech
  <2> QED
    BY <1>1, <1>2, <1>3, <2>1 DEF Untold, PartialOf, AnswersOf, SoundOf, CommitOf
<1>5. CASE ReceivesWords \/ ReceivesCommitted \/ ReceivesBad
  <2>1. toClient # <<>> /\ toClient' = Tail(toClient)
    BY <1>5 DEF ReceivesWords, ReceivesCommitted, ReceivesBad
  <2>2. /\ Len(toClient) >= 1 /\ Head(toClient) = toClient[1]
        /\ Len(toClient') = Len(toClient) - 1
        /\ \A i \in 1..Len(toClient') : toClient'[i] = toClient[i + 1] /\ i + 1 \in 1..Len(toClient)
    BY <1>1, <2>1, Drops
  <2>3. AnswersOf(u)'
    BY <1>1, <1>2, <2>2 DEF AnswersOf
  <2>4. /\ Head(toClient).text \subseteq {u}
        /\ Head(toClient).kind = "committed" => server.commits = u + 1
    BY <1>1, <2>2 DEF AnswersOf
  <2>5. PartialOf(u)' /\ CommitOf(u)'
    <3>1. CASE ReceivesWords
      <4>1. /\ partial' = PartialAfter(Head(toClient)) /\ started' = StartedAfter(Head(toClient))
            /\ Head(toClient).kind \in {"delta", "completed"} /\ UNCHANGED committed
        BY <3>1 DEF ReceivesWords, commits
      <4> QED
        BY <1>1, <1>2, <2>4, <4>1 DEF PartialOf, PartialAfter, StartedAfter, CommitOf
    <3>2. CASE ReceivesCommitted
      BY <1>1, <1>2, <2>4, <3>2 DEF ReceivesCommitted, PartialOf, CommitOf, speech, commits
    <3>3. CASE ReceivesBad
      BY <1>1, <1>2, <3>3 DEF ReceivesBad, PartialOf, CommitOf, speech, commits
    <3> QED
      BY <1>5, <3>1, <3>2, <3>3
  <2> QED
    BY <1>3, <2>3, <2>5 DEF Untold, PartialOf, AnswersOf, SoundOf, CommitOf
<1> QED
  BY <1>4, <1>5 DEF ReceiverStep

LEMMA UntoldServer ==
  ASSUME IInv, ServerStep, NEW u \in Nat, Untold(u)
  PROVE  Untold(u)'
<1>1. /\ PartialOf(u) /\ AnswersOf(u) /\ SoundOf(u) /\ CommitOf(u) /\ AudioWaitsForAck /\ OneCommit
      /\ toClient \in Seq(Answer) /\ Len(toClient) \in Nat /\ toServer \in Seq(Item)
      /\ Len(toServer) \in Nat /\ server \in [audio : BOOLEAN, commits : Nat]
  BY UntoldParts DEF IInv, TypeOK
<1>2. UNCHANGED <<partial, started, committed, sender>>
  BY DEF ServerStep, ServerTakesFrame, ServerCommits, ServerSpeaks, ServerFails, Serving,
         speech, commits
<1>3. PartialOf(u)'
  BY <1>1, <1>2 DEF PartialOf
<1>4. Words = {server.commits} /\ Words \in SUBSET Nat /\ {} \in SUBSET Nat
  BY <1>1 DEF Words
<1>5. CASE ServerTakesFrame
  <2>1. server' = [server EXCEPT !.audio = TRUE] /\ toServer # <<>> /\ UNCHANGED toClient
    BY <1>5 DEF ServerTakesFrame
  <2>2. server.commits = u /\ server'.commits = server.commits
    BY <1>1, <2>1 DEF SoundOf
  <2> QED
    BY <1>1, <1>2, <1>3, <2>1, <2>2 DEF Untold, PartialOf, AnswersOf, CommitOf
<1>6. CASE ServerCommits
  <2>1. /\ server' = [audio |-> FALSE, commits |-> server.commits + 1]
        /\ toServer # <<>> /\ Head(toServer) = Flush /\ toServer' = Tail(toServer)
    BY <1>6 DEF ServerCommits
  <2>2. server.commits = u /\ server'.commits = u + 1 /\ server'.audio = FALSE
    BY <1>1, <2>1 DEF SoundOf
  <2>3. toServer[1] = Flush /\ 1 \in 1..Len(toServer)
    BY <1>1, <2>1
  <2>4. toServer' = <<>>
    <3>1. Len(toServer) = 1
      BY <1>1, <2>3 DEF AudioWaitsForAck
    <3> QED
      BY <1>1, <2>1, <3>1
  <2>5. sender.at \in {"finalizing", "failed"}
    BY <1>1, <2>3 DEF OneCommit
  <2>6. PICK text \in {Words, {}} :
          Says(<<[kind |-> "completed", text |-> text], [kind |-> "committed", text |-> {}]>>)
    BY <1>6 DEF ServerCommits
  <2> DEFINE a == [kind |-> "completed", text |-> text]
             b == [kind |-> "committed", text |-> {}]
  <2>7. /\ a \in Answer /\ b \in Answer /\ Says(<<a, b>>)
        /\ a.kind = "completed" /\ a.text \subseteq {u}
        /\ b.kind = "committed" /\ b.text = {}
    BY <1>4, <2>2, <2>6 DEF Answer
  <2> HIDE DEF a, b
  <2>8. /\ Len(toClient') = Len(toClient) + 2
        /\ toClient'[Len(toClient) + 1] = a /\ toClient'[Len(toClient) + 2] = b
        /\ \A i \in 1..Len(toClient) : toClient'[i] = toClient[i]
    BY <2>7, SaysTwo
  <2>9. AnswersOf(u)'
    <3> SUFFICES ASSUME NEW i \in 1..Len(toClient')
                 PROVE  /\ toClient'[i].text \subseteq {u}
                        /\ toClient'[i].kind = "bad" => toClient'[i].text = {}
                        /\ toClient'[i].kind = "committed" => server'.commits = u + 1
      BY DEF AnswersOf
    <3>1. CASE i \in 1..Len(toClient)
      BY <1>1, <2>2, <2>8, <3>1 DEF AnswersOf
    <3>2. CASE i \notin 1..Len(toClient)
      <4>1. i = Len(toClient) + 1 \/ i = Len(toClient) + 2
        BY <1>1, <2>8, <3>2
      <4> QED
        BY <2>2, <2>7, <2>8, <4>1
    <3> QED
      BY <3>1, <3>2
  <2> QED
    BY <1>2, <1>3, <2>2, <2>4, <2>5, <2>9 DEF Untold, PartialOf, AnswersOf
<1>7. ASSUME NEW a \in Answer, Says(<<a>>), a.kind \in {"delta", "bad"}, a.text \subseteq {u},
             a.kind = "bad" => a.text = {}, UNCHANGED <<toServer, server>>
      PROVE  Untold(u)'
  <2>1. /\ Len(toClient') = Len(toClient) + 1
        /\ toClient'[Len(toClient) + 1] = a
        /\ \A i \in 1..Len(toClient) : toClient'[i] = toClient[i]
    BY <1>7, SaysOne
  <2>2. AnswersOf(u)'
    <3> SUFFICES ASSUME NEW i \in 1..Len(toClient')
                 PROVE  /\ toClient'[i].text \subseteq {u}
                        /\ toClient'[i].kind = "bad" => toClient'[i].text = {}
                        /\ toClient'[i].kind = "committed" => server'.commits = u + 1
      BY DEF AnswersOf
    <3>1. CASE i \in 1..Len(toClient)
      BY <1>1, <1>7, <2>1, <3>1 DEF AnswersOf
    <3>2. CASE i \notin 1..Len(toClient)
      <4>1. i = Len(toClient) + 1
        BY <1>1, <2>1, <3>2
      <4> QED
        BY <1>7, <2>1, <4>1
    <3> QED
      BY <3>1, <3>2
  <2> QED
    BY <1>1, <1>2, <1>3, <1>7, <2>2 DEF Untold, PartialOf, AnswersOf, SoundOf, CommitOf
<1>8. CASE ServerSpeaks
  <2> DEFINE a == [kind |-> "delta", text |-> Words]
  <2>1. server.commits = u /\ UNCHANGED <<toServer, server>>
    BY <1>1, <1>8 DEF ServerSpeaks, SoundOf
  <2>2. a \in Answer /\ a.kind = "delta" /\ a.text \subseteq {u} /\ Says(<<a>>)
    BY <1>4, <1>8, <2>1 DEF Answer, ServerSpeaks
  <2> HIDE DEF a
  <2> QED
    BY <1>7, <2>1, <2>2
<1>9. CASE ServerFails
  <2> DEFINE a == [kind |-> "bad", text |-> {}]
  <2>1. a \in Answer /\ a.kind = "bad" /\ a.text = {}
    BY <1>4 DEF Answer
  <2>2. Says(<<a>>) \/ UNCHANGED toClient
    BY <1>9 DEF ServerFails
  <2> HIDE DEF a
  <2>3. UNCHANGED <<toServer, server>>
    BY <1>9 DEF ServerFails
  <2>4. CASE Says(<<a>>)
    BY <1>7, <2>1, <2>3, <2>4
  <2>5. CASE UNCHANGED toClient
    BY <1>1, <1>2, <1>3, <2>3, <2>5 DEF Untold, PartialOf, AnswersOf, SoundOf, CommitOf
  <2> QED
    BY <2>2, <2>4, <2>5
<1> QED
  BY <1>5, <1>6, <1>8, <1>9 DEF ServerStep

\* The other steps touch nothing of this.
LEMMA UntoldKept ==
  ASSUME UNCHANGED <<partial, started, committed, sender, toServer, toClient, server>>,
         NEW u \in Nat, Untold(u)
  PROVE  Untold(u)'
  BY UntoldParts DEF Untold, PartialOf, AnswersOf, SoundOf, CommitOf

\* Once its usage is told, the next utterance is to be told.
LEMMA UntoldAcknowledged ==
  ASSUME IInv, Acknowledged, NEW u \in Nat, Untold(u)
  PROVE  IF UNCHANGED events THEN Untold(u)'
                             ELSE events' = Append(events, Mark("usage")) /\ Untold(u + 1)'
<1>1. /\ PartialOf(u) /\ AnswersOf(u) /\ CommitOf(u) /\ AckHeard
      /\ sender \in Sender
  BY UntoldParts, OrderParts, SenderFields DEF IInv
<1>2. /\ server.commits = u + 1 /\ ~started /\ partial = {} /\ toServer = <<>> /\ ~server.audio
      /\ \A i \in 1..Len(toClient) : toClient[i].kind = "bad" /\ toClient[i].text = {}
  BY <1>1 DEF Acknowledged, Answered, CommitOf, AckHeard, PartialOf, AnswersOf, Bad
<1>3. UNCHANGED <<partial, started, committed, toServer, toClient, server>>
  BY DEF Acknowledged, Sending, speech, commits, socket
<1>4. CASE Len(events) < EventLimit
  <2>1. events' = Append(events, Mark("usage")) /\ sender'.at = "receiving"
    BY <1>1, <1>4 DEF Acknowledged, Sender
  <2>2. events' # events
    <3> HIDE DEF Mark
    <3>1. events \in Seq(Event) /\ Mark("usage") \in Event
      BY DEF IInv, TypeOK, Mark, Event
    <3>2. Len(events') = Len(events) + 1 /\ Len(events) \in Nat
      BY <2>1, <3>1, Adds
    <3> QED
      BY <3>2
  <2>3. Untold(u + 1)'
    BY <1>2, <1>3, <2>1 DEF Untold
  <2> QED
    BY <2>1, <2>2, <2>3
<1>5. CASE ~(Len(events) < EventLimit)
  <2>1. UNCHANGED events /\ sender'.at = "failed"
    BY <1>1, <1>5 DEF Acknowledged, Sender
  <2> QED
    BY <1>2, <1>3, <2>1 DEF Untold
<1> QED
  BY <1>4, <1>5

\* What the receiver emits holds no usage, and only words of the utterance that is told.
LEMMA ToldOf ==
  ASSUME IInv, ReceivesWords, NEW u \in Nat, Untold(u)
  PROVE  \E es \in Seq(Event) :
           /\ Emit(es)
           /\ \A i \in 1..Len(es) : es[i].type # "usage" /\ es[i].text \subseteq {u}
<1> DEFINE m == Head(toClient)
           Of(es) == \A i \in 1..Len(es) : es[i].type # "usage" /\ es[i].text \subseteq {u}
<1>1. /\ PartialOf(u) /\ AnswersOf(u) /\ toClient # <<>> /\ toClient \in Seq(Answer)
      /\ started \in BOOLEAN
  BY UntoldParts DEF ReceivesWords, IInv, TypeOK
<1>2. m \in Answer /\ m = toClient[1] /\ 1 \in 1..Len(toClient)
  BY <1>1
<1>3. m.text \in SUBSET Nat /\ m.text \subseteq {u}
  BY <1>1, <1>2 DEF Answer, AnswersOf
<1>4. m.kind \in {"delta", "completed"} /\ partial' = PartialAfter(m)
  BY DEF ReceivesWords
<1>5. partial' \in SUBSET Nat /\ partial' \subseteq {u}
  BY <1>1, <1>3, <1>4 DEF PartialAfter, PartialOf
<1>6. /\ Mark("start") \in Event /\ Mark("end") \in Event
      /\ Mark("start").type = "start" /\ Mark("end").type = "end"
      /\ Mark("start").text = {} /\ Mark("end").text = {}
  BY DEF Mark, Event
<1>7. ASSUME NEW w \in Seq(Event), Of(w)
      PROVE  Spoken(w) \in Seq(Event) /\ Of(Spoken(w))
  <2>1. CASE started
    BY <1>7, <2>1 DEF Spoken
  <2>2. CASE ~started
    <3> DEFINE es == <<Mark("start")>> \o w
    <3>1. /\ es \in Seq(Event) /\ Len(es) = 1 + Len(w) /\ es[1] = Mark("start")
          /\ \A i \in 1..Len(w) : es[i + 1] = w[i]
      BY <1>6, <1>7, Join
    <3>2. Spoken(w) = es
      BY <2>2 DEF Spoken
    <3> HIDE DEF es
    <3>3. ASSUME NEW i \in 1..Len(es)
          PROVE  es[i].type # "usage" /\ es[i].text \subseteq {u}
      <4>1. CASE i = 1
        BY <1>6, <3>1, <4>1
      <4>2. CASE i # 1
        <5>1. i - 1 \in 1..Len(w) /\ es[(i - 1) + 1] = w[i - 1] /\ (i - 1) + 1 = i
          BY <1>7, <3>1, <4>2
        <5> QED
          BY <1>7, <5>1
      <4> QED
        BY <4>1, <4>2
    <3> QED
      BY <3>1, <3>2, <3>3
  <2> QED
    BY <2>1, <2>2
<1>8. CASE m.kind = "delta"
  <2> DEFINE e == [type |-> "interim", text |-> partial']
             w == <<e>>
  <2>1. e \in Event /\ e.type = "interim" /\ e.text \subseteq {u}
    BY <1>5 DEF Event
  <2>2. Emit(Spoken(w))
    BY <1>8 DEF ReceivesWords
  <2> HIDE DEF e
  <2>3. w \in Seq(Event) /\ Of(w)
    BY <2>1
  <2> HIDE DEF w
  <2> QED
    BY <1>7, <2>2, <2>3
<1>9. CASE m.kind = "completed" /\ m.text # {}
  <2> DEFINE e == [type |-> "final", text |-> m.text]
             w == <<e, Mark("end")>>
  <2>1. e \in Event /\ e.type = "final" /\ e.text \subseteq {u}
    BY <1>3 DEF Event
  <2>2. Emit(Spoken(w))
    BY <1>9 DEF ReceivesWords
  <2> HIDE DEF e
  <2>3. w \in Seq(Event) /\ Len(w) = 2 /\ w[1] = e /\ w[2] = Mark("end")
    BY <1>6, <2>1
  <2> HIDE DEF w
  <2>4. ASSUME NEW i \in 1..Len(w)
        PROVE  w[i].type # "usage" /\ w[i].text \subseteq {u}
    <3>1. i = 1 \/ i = 2
      BY <2>3
    <3> QED
      BY <1>6, <2>1, <2>3, <3>1
  <2> QED
    BY <1>7, <2>2, <2>3, <2>4
<1>10. CASE m.kind = "completed" /\ m.text = {}
  <2> DEFINE w == IF started THEN <<Mark("end")>> ELSE <<>>
  <2>1. Emit(w)
    BY <1>10 DEF ReceivesWords
  <2>2. /\ w \in Seq(Event)
        /\ started => Len(w) = 1 /\ w[1] = Mark("end")
        /\ ~started => Len(w) = 0
    BY <1>6
  <2> HIDE DEF w
  <2>3. ASSUME NEW i \in 1..Len(w)
        PROVE  w[i].type # "usage" /\ w[i].text \subseteq {u}
    <3>1. i = 1 /\ w[1] = Mark("end")
      <4>1. Len(w) = 1 \/ Len(w) = 0
        BY <1>1, <2>2
      <4>2. Len(w) = 1
        BY <4>1
      <4>3. started
        BY <1>1, <2>2, <4>2
      <4> QED
        BY <2>2, <4>2, <4>3
    <3> QED
      BY <1>6, <3>1
  <2> QED
    BY <2>1, <2>2, <2>3
<1> QED
  BY <1>4, <1>8, <1>9, <1>10

\* Events that are added: d is the usage among them, which then comes alone.
LEMMA CountsMore ==
  ASSUME NEW n \in [0..Len(events) -> Nat], Counts(n), NEW k \in Nat, NEW d \in {0, 1},
         events \in Seq(Event), Len(events') = Len(events) + k, heard' = heard,
         \A i \in 1..Len(events) : events'[i] = events[i],
         \A j \in 1..k : /\ events'[Len(events) + j].text \subseteq {n[Len(events)]}
                         /\ (events'[Len(events) + j].type = "usage") <=> (d = 1),
         d = 1 => k = 1
  PROVE  \E m \in [0..Len(events') -> Nat] :
           Counts(m)' /\ m[Len(events')] = n[Len(events)] + d
<1>1. PICK l \in Nat : l = Len(events)
  OBVIOUS
<1> DEFINE m == [i \in 0..(l + k) |-> IF i <= l THEN n[i] ELSE n[l] + d]
<1>2. \A i \in 0..l : n[i] \in Nat
  BY <1>1
<1>3. m \in [0..(l + k) -> Nat] /\ m[l + k] = n[l] + d
  <2>1. n[l] \in Nat /\ n[l] + d \in Nat /\ l + k \in 0..(l + k)
    BY <1>2
  <2>2. m \in [0..(l + k) -> Nat]
    BY <1>2, <2>1
  <2>3. ASSUME k = 0
        PROVE  m[l + k] = n[l] + d
    <3>1. d = 0 /\ l + k = l
      BY <2>3
    <3> QED
      BY <2>1, <3>1
  <2>4. ASSUME k # 0
        PROVE  m[l + k] = n[l] + d
    <3>1. ~(l + k <= l)
      BY <2>4
    <3> QED
      BY <2>1, <3>1
  <2> QED
    BY <2>2, <2>3, <2>4
<1>4. /\ \A i \in 0..l : m[i] = n[i]
      /\ \A i \in 0..(l + k) : i > l => m[i] = n[l] + d
  BY <1>2
<1> HIDE DEF m
<1>5. m[0] = heard'.usages
  BY <1>4 DEF Counts
<1>6. ASSUME NEW i \in 1..(l + k)
      PROVE  /\ m[i] = m[i - 1] + (IF events'[i].type = "usage" THEN 1 ELSE 0)
             /\ events'[i].text \subseteq {m[i - 1]}
  <2>1. CASE i <= l
    <3>1. i \in 1..Len(events) /\ i \in 0..l /\ i - 1 \in 0..l
      BY <1>1, <2>1
    <3>2. /\ n[i] = n[i - 1] + (IF events[i].type = "usage" THEN 1 ELSE 0)
          /\ events[i].text \subseteq {n[i - 1]} /\ events'[i] = events[i]
      BY <3>1 DEF Counts
    <3> QED
      BY <1>4, <3>1, <3>2
  <2>2. CASE i > l
    <3>1. PICK j \in 1..k : i = l + j
      <4>1. i - l \in 1..k /\ i = l + (i - l)
        BY <2>2
      <4> QED
        BY <4>1
    <3>2. /\ events'[i].text \subseteq {n[l]}
          /\ events'[i].type = "usage" <=> d = 1
      BY <1>1, <3>1
    <3>3. m[i] = n[l] + d /\ n[l] \in Nat
      BY <1>2, <1>4, <2>2
    <3>4. m[i - 1] = n[l]
      <4>1. CASE j = 1
        BY <1>4, <3>1, <4>1
      <4>2. CASE j # 1
        <5>1. d = 0 /\ i - 1 \in 0..(l + k) /\ i - 1 > l
          BY <3>1, <4>2
        <5> QED
          BY <1>4, <3>3, <5>1
      <4> QED
        BY <4>1, <4>2
    <3> QED
      BY <3>2, <3>3, <3>4
  <2> QED
    BY <2>1, <2>2
<1>7. Len(events') = l + k
  BY <1>1
<1> QED
  BY <1>1, <1>3, <1>5, <1>6, <1>7 DEF Counts

\* An event that is read: what it counted is known.
LEMMA CountsRead ==
  ASSUME IInv, ReadEvent, NEW n \in [0..Len(events) -> Nat], Counts(n)
  PROVE  \E m \in [0..Len(events') -> Nat] :
           Counts(m)' /\ m[Len(events')] = n[Len(events)]
<1>1. events \in Seq(Event) /\ events # <<>> /\ events' = Tail(events)
  BY DEF IInv, TypeOK, ReadEvent
<1>2. PICK l \in Nat : l + 1 = Len(events)
  BY <1>1
<1>3. /\ Head(events) = events[1] /\ Len(events') = l
      /\ \A i \in 1..l : events'[i] = events[i + 1]
  BY <1>1, <1>2, Drops
<1> DEFINE m == [i \in 0..l |-> n[i + 1]]
<1>4. m \in [0..l -> Nat] /\ m[l] = n[l + 1] /\ \A i \in 0..l : m[i] = n[i + 1]
  BY <1>2
<1> HIDE DEF m
<1>5. m[0] = heard'.usages
  <2>1. n[1] = n[0] + (IF events[1].type = "usage" THEN 1 ELSE 0) /\ n[0] = heard.usages
    BY <1>2 DEF Counts
  <2>2. heard'.usages = heard.usages + (IF events[1].type = "usage" THEN 1 ELSE 0)
    BY <1>3 DEF ReadEvent
  <2> QED
    BY <1>4, <2>1, <2>2
<1>6. ASSUME NEW i \in 1..l
      PROVE  /\ m[i] = m[i - 1] + (IF events'[i].type = "usage" THEN 1 ELSE 0)
             /\ events'[i].text \subseteq {m[i - 1]}
  <2>1. i + 1 \in 1..Len(events) /\ (i + 1) - 1 = i /\ i \in 0..l /\ i - 1 \in 0..l /\ (i - 1) + 1 = i
    BY <1>2
  <2>2. /\ n[i + 1] = n[i] + (IF events[i + 1].type = "usage" THEN 1 ELSE 0)
        /\ events[i + 1].text \subseteq {n[i]}
    BY <2>1 DEF Counts
  <2>3. m[i] = n[i + 1] /\ m[i - 1] = n[i] /\ events'[i] = events[i + 1]
    BY <1>3, <1>4, <2>1
  <2> QED
    BY <2>2, <2>3
<1> QED
  BY <1>2, <1>3, <1>4, <1>5, <1>6 DEF Counts

LEMMA TextStep ==
  ASSUME IInv, TextInv, [Next]_vars
  PROVE  TextInv'
<1>1. PICK n \in [0..Len(events) -> Nat] : Counts(n) /\ Untold(n[Len(events)])
  BY DEF TextInv
<1>2. events \in Seq(Event) /\ Len(events) \in Nat
  BY DEF IInv, TypeOK
<1>3. PICK u \in Nat : u = n[Len(events)]
  BY <1>1, <1>2
<1>4. Untold(u)
  BY <1>1, <1>3
<1>5. ASSUME UNCHANGED <<events, heard>>, Untold(u)'
      PROVE  TextInv'
  <2>1. n \in [0..Len(events') -> Nat] /\ Counts(n)' /\ n[Len(events')] = u
    BY <1>1, <1>3, <1>5 DEF Counts
  <2> QED
    BY <1>5, <2>1 DEF TextInv
<1>6. ASSUME NEW v, Untold(v)', \E m \in [0..Len(events') -> Nat] : Counts(m)' /\ m[Len(events')] = v
      PROVE  TextInv'
  BY <1>6 DEF TextInv
<1>7. CASE MainStep \/ Aclose
  <2>1. UNCHANGED <<events, heard>>
    BY <1>7 DEF MainStep, Connect, ConnectFails, StreamBegins, StreamEnds, BackoffEnds, Aclose,
                Attempt
  <2>2. main = "handshake" => u = 0
    <3> SUFFICES ASSUME main = "handshake" PROVE u = 0
      OBVIOUS
    <3>1. Clean
      BY DEF IInv, SilentAtFirst
    <3>2. Len(events) = 0 /\ heard.usages = 0
      BY <3>1 DEF Clean
    <3> QED
      BY <1>1, <1>3, <3>2 DEF Counts
  <2>3. Untold(u)'
    BY <1>4, <1>7, <2>2, UntoldMain
  <2> QED
    BY <1>5, <2>1, <2>3
<1>8. CASE Acknowledged
  <2>1. heard' = heard
    BY <1>8 DEF Acknowledged, Sending
  <2>2. CASE UNCHANGED events
    BY <1>4, <1>5, <1>8, <2>1, <2>2, UntoldAcknowledged
  <2>3. CASE ~UNCHANGED events
    <3> DEFINE e == Mark("usage")
    <3>1. events' = Append(events, e) /\ Untold(u + 1)'
      BY <1>4, <1>8, <2>3, UntoldAcknowledged
    <3>2. e \in Event /\ e.type = "usage" /\ e.text = {}
      BY DEF Mark, Event
    <3> HIDE DEF e
    <3>3. /\ Len(events') = Len(events) + 1 /\ events'[Len(events) + 1] = e
          /\ \A i \in 1..Len(events) : events'[i] = events[i]
      BY <1>2, <3>1, <3>2, Adds
    <3>4. \A j \in 1..1 : /\ events'[Len(events) + j].text \subseteq {n[Len(events)]}
                          /\ (events'[Len(events) + j].type = "usage") <=> (1 = 1)
      BY <3>2, <3>3
    <3>5. \E m \in [0..Len(events') -> Nat] : Counts(m)' /\ m[Len(events')] = n[Len(events)] + 1
      BY <1>1, <1>2, <2>1, <3>3, <3>4, CountsMore
    <3> QED
      BY <1>3, <1>6, <3>1, <3>5
  <2> QED
    BY <2>2, <2>3
<1>9. CASE SenderStep /\ ~Acknowledged
  <2>1. UNCHANGED <<events, heard>>
    BY <1>9 DEF SenderStep, TakesFrame, TakesFlush, FindsOverload, SendsFrame, SendsCommit, SendFails,
                SenderReturns, Sending
  <2> QED
    BY <1>4, <1>5, <1>9, <2>1, UntoldSender
<1>10. CASE ReceivesWords
  <2>1. PICK es \in Seq(Event) :
          /\ Emit(es)
          /\ \A i \in 1..Len(es) : es[i].type # "usage" /\ es[i].text \subseteq {u}
    BY <1>4, <1>10, ToldOf
  <2>2. PICK k \in 0..Len(es) :
          /\ Len(events') = Len(events) + k
          /\ \A i \in 1..Len(events) : events'[i] = events[i]
          /\ \A i \in 1..k : events'[Len(events) + i] = es[i]
    BY <2>1, Emits
  <2>3. k \in Nat /\ \A j \in 1..k : j \in 1..Len(es)
    BY <2>1, <2>2
  <2>4. heard' = heard
    BY <1>10 DEF ReceivesWords, Receiving
  <2>5. ASSUME NEW j \in 1..k
        PROVE  /\ events'[Len(events) + j].text \subseteq {n[Len(events)]}
               /\ events'[Len(events) + j].type # "usage"
    BY <1>3, <2>1, <2>2, <2>3
  <2> DEFINE d == 0
  <2>7. d \in {0, 1} /\ d # 1 /\ u + d = u
    OBVIOUS
  <2> HIDE DEF d
  <2>8. \A j \in 1..k : /\ events'[Len(events) + j].text \subseteq {n[Len(events)]}
                        /\ (events'[Len(events) + j].type = "usage") <=> (d = 1)
    BY <2>5, <2>7
  <2>6. \E m \in [0..Len(events') -> Nat] : Counts(m)' /\ m[Len(events')] = n[Len(events)] + d
    BY <1>1, <1>2, <2>2, <2>3, <2>4, <2>7, <2>8, CountsMore
  <2> QED
    BY <1>3, <1>4, <1>6, <1>10, <2>6, <2>7, UntoldReceiver DEF ReceiverStep
<1>11. CASE ReceiverStep /\ ~ReceivesWords
  <2>1. UNCHANGED <<events, heard>>
    BY <1>11 DEF ReceiverStep, ReceivesCommitted, ReceivesBad, FindsHangup, Receiving
  <2> QED
    BY <1>4, <1>5, <1>11, <2>1, UntoldReceiver
<1>12. CASE ServerStep
  <2>1. UNCHANGED <<events, heard>>
    BY <1>12 DEF ServerStep, ServerTakesFrame, ServerCommits, ServerSpeaks, ServerFails, Serving
  <2> QED
    BY <1>4, <1>5, <1>12, <2>1, UntoldServer
<1>13. CASE ReadEvent
  <2>1. \E m \in [0..Len(events') -> Nat] : Counts(m)' /\ m[Len(events')] = u
    BY <1>1, <1>3, <1>13, CountsRead
  <2>2. UNCHANGED <<partial, started, committed, sender, toServer, toClient, server>>
    BY <1>13 DEF ReadEvent, speech, commits, socket
  <2> QED
    BY <1>4, <1>6, <2>1, <2>2, UntoldKept
<1>14. CASE WatcherRaises \/ (Caller /\ ~ReadEvent /\ ~Aclose) \/ UNCHANGED vars
  <2>1. CASE WatcherRaises \/ UNCHANGED vars
    <3>1. UNCHANGED <<events, heard, partial, started, committed, sender, toServer, toClient, server>>
      BY <2>1 DEF WatcherRaises, vars, speech, commits, socket
    <3> QED
      BY <1>4, <1>5, <3>1, UntoldKept
  <2>2. CASE Caller /\ ~ReadEvent /\ ~Aclose
    <3>1. Session
      BY <2>2 DEF Caller, CommitUtterance, EndInput, PushFrame
    <3>2. UNCHANGED <<events, heard, partial, started, committed, sender, toServer, toClient, server>>
      BY <3>1 DEF Session, speech, commits, socket
    <3> QED
      BY <1>4, <1>5, <3>2, UntoldKept
  <2> QED
    BY <1>14, <2>1, <2>2
<1> QED
  BY <1>7, <1>8, <1>9, <1>10, <1>11, <1>12, <1>13, <1>14 DEF Next

\* The words that the reader gets are of the utterance whose usage comes next: none of the one
\* before are told again, and none of the next one are told early (_receive, _send).
THEOREM TextSafety == Spec => []TextIsOfUtterance
<1>1. Init => TextInv
  <2> SUFFICES ASSUME Init PROVE TextInv
    OBVIOUS
  <2>1. /\ events = <<>> /\ heard.usages = 0 /\ Len(events) = 0 /\ partial = {} /\ toServer = <<>>
        /\ Len(toClient) = 0 /\ sender.at = "off" /\ server.audio = FALSE
    BY IdleSender DEF Init, Fresh
  <2> DEFINE n == [i \in 0..Len(events) |-> 0]
  <2>2. n \in [0..Len(events) -> Nat] /\ n[Len(events)] = 0 /\ n[0] = 0
    BY <2>1
  <2> HIDE DEF n
  <2>3. Counts(n)
    BY <2>1, <2>2 DEF Counts
  <2>4. Untold(0)
    BY <2>1 DEF Untold
  <2> QED
    BY <2>2, <2>3, <2>4 DEF TextInv
<1>2. ASSUME IInv, TextInv
      PROVE  TextIsOfUtterance
  <2> SUFFICES ASSUME events # <<>>
               PROVE  Head(events).text \subseteq {heard.usages}
    BY DEF TextIsOfUtterance
  <2>1. PICK n \in [0..Len(events) -> Nat] : Counts(n)
    BY <1>2 DEF TextInv
  <2>2. events \in Seq(Event)
    BY <1>2 DEF IInv, TypeOK
  <2>3. Head(events) = events[1] /\ 1 \in 1..Len(events) /\ 1 - 1 = 0
    BY <2>2
  <2> QED
    BY <2>1, <2>3 DEF Counts
<1> QED
  BY <1>1, <1>2, TextStep, InductiveInvariant, PTL DEF Spec

-----------------------------------------------------------------------------
(* Sums.  The induction theorems of the library are about a formula; this  *)
(* one is about a set, which follows from the order of the numbers.        *)

LEMMA Least ==
  ASSUME NEW T \in SUBSET Nat, T # {}
  PROVE  \E x \in T : \A y \in T : x <= y
<1> DEFINE R == OpToRel(<, Nat)
<1>1. IsWellFoundedOn(R, Nat)
  BY NatLessThanWellFounded
<1>2. R = {r \in Nat \X Nat : r[1] < r[2]}
  BY DEF OpToRel
<1> HIDE DEF R
<1>3. PICK x \in T : \A y \in T : ~ (<<y, x>> \in R)
  BY <1>1, WFMin
<1>4. ASSUME NEW y \in T
      PROVE  x <= y
  <2>1. <<y, x>> \notin R /\ x \in Nat /\ y \in Nat
    BY <1>3
  <2>2. ~(y < x)
    BY <1>2, <2>1
  <2> QED
    BY <2>1, <2>2
<1> QED
  BY <1>4

LEMMA Induction ==
  ASSUME NEW T \in SUBSET Nat, 0 \in T, \A n \in T : n + 1 \in T
  PROVE  T = Nat
<1> SUFFICES ASSUME T # Nat PROVE FALSE
  OBVIOUS
<1> DEFINE U == Nat \ T
<1>1. PICK x \in U : \A y \in U : x <= y
  BY Least
<1>2. x \in Nat /\ x \notin T /\ x # 0
  BY <1>1
<1>3. x - 1 \in Nat /\ x - 1 \notin U
  BY <1>1, <1>2
<1>4. x - 1 \in T /\ (x - 1) + 1 = x
  BY <1>2, <1>3
<1> QED
  BY <1>2, <1>4

\* f sums up the first l items of s.
Steps(f, s, l) == \A i \in 1..l : f[i] = f[i - 1] + s[i]

SumsUp(f, s, l) == f \in [0..l -> Nat] /\ f[0] = 0 /\ Steps(f, s, l)

LEMMA Unique ==
  ASSUME NEW s, NEW l \in Nat, NEW f, NEW g,
         f[0] = g[0], Steps(f, s, l), Steps(g, s, l)
  PROVE  \A i \in 0..l : f[i] = g[i]
<1> DEFINE T == {i \in Nat : i <= l => f[i] = g[i]}
<1>1. 0 \in T
  OBVIOUS
<1>2. ASSUME NEW n \in T
      PROVE  n + 1 \in T
  <2> SUFFICES ASSUME n + 1 <= l PROVE f[n + 1] = g[n + 1]
    OBVIOUS
  <2>1. f[n] = g[n] /\ n + 1 \in 1..l /\ (n + 1) - 1 = n
    BY <1>2
  <2> QED
    BY <2>1 DEF Steps
<1> HIDE DEF T
<1>3. T = Nat
  <2>1. T \in SUBSET Nat
    BY DEF T
  <2> QED
    BY <1>1, <1>2, <2>1, Induction
<1> QED
  BY <1>3 DEF T

LEMMA Exists ==
  ASSUME NEW s \in Seq(Nat)
  PROVE  \E f : SumsUp(f, s, Len(s))
<1> DEFINE T == {l \in Nat : l <= Len(s) => \E f : SumsUp(f, s, l)}
<1>0. Len(s) \in Nat /\ \A i \in 1..Len(s) : s[i] \in Nat
  OBVIOUS
<1>1. 0 \in T
  <2>1. SumsUp([i \in 0..0 |-> 0], s, 0)
    BY DEF SumsUp, Steps
  <2> QED
    BY <2>1
<1>2. ASSUME NEW n \in T
      PROVE  n + 1 \in T
  <2> SUFFICES ASSUME n + 1 <= Len(s) PROVE \E f : SumsUp(f, s, n + 1)
    OBVIOUS
  <2>0. n \in Nat /\ n <= Len(s)
    BY <1>0
  <2>1. PICK f : SumsUp(f, s, n)
    BY <1>2, <2>0
  <2> DEFINE g == [i \in 0..(n + 1) |-> IF i <= n THEN f[i] ELSE f[n] + s[n + 1]]
  <2>2. /\ f \in [0..n -> Nat] /\ s[n + 1] \in Nat /\ f[n] \in Nat /\ f[0] = 0
        /\ \A i \in 1..n : f[i] = f[i - 1] + s[i]
    BY <1>0, <2>0, <2>1 DEF SumsUp, Steps
  <2>3. g \in [0..(n + 1) -> Nat]
    BY <2>0, <2>2
  <2>4. /\ \A i \in 0..n : g[i] = f[i]
        /\ g[n + 1] = f[n] + s[n + 1]
    BY <2>0, <2>2
  <2> HIDE DEF g
  <2>5. ASSUME NEW i \in 1..(n + 1)
        PROVE  g[i] = g[i - 1] + s[i]
    <3>1. CASE i = n + 1
      BY <2>0, <2>4, <3>1
    <3>2. CASE i # n + 1
      <4>1. i \in 1..n /\ i \in 0..n /\ i - 1 \in 0..n
        BY <2>0, <3>2
      <4> QED
        BY <2>2, <2>4, <4>1
    <3> QED
      BY <3>1, <3>2
  <2>6. SumsUp(g, s, n + 1)
    BY <2>0, <2>2, <2>3, <2>4, <2>5 DEF SumsUp, Steps
  <2> QED
    BY <2>6
<1> HIDE DEF T
<1>3. T = Nat
  <2>1. T \in SUBSET Nat
    BY DEF T
  <2> QED
    BY <1>1, <1>2, <2>1, Induction
<1> QED
  BY <1>0, <1>3 DEF T

\* So that the sums are what their definition says.
LEMMA Sums ==
  ASSUME NEW s \in Seq(Nat)
  PROVE  SumsUp(SumsOf(s), s, Len(s))
<1> DEFINE Of(f) == f = [i \in 0..Len(s) |-> IF i = 0 THEN 0 ELSE f[i - 1] + s[i]]
<1>0. Len(s) \in Nat
  OBVIOUS
<1>1. PICK f : SumsUp(f, s, Len(s))
  BY Exists
<1>2. Of(f)
  <2>1. f \in [0..Len(s) -> Nat]
    BY <1>1 DEF SumsUp, Steps
  <2>2. ASSUME NEW i \in 0..Len(s)
        PROVE  f[i] = IF i = 0 THEN 0 ELSE f[i - 1] + s[i]
    BY <1>0, <1>1 DEF SumsUp, Steps
  <2> QED
    BY <2>1, <2>2
<1>3. SumsOf(s) = CHOOSE h : Of(h)
  BY DEF SumsOf
<1> DEFINE g == SumsOf(s)
<1>4. Of(g)
  BY <1>2, <1>3
<1> HIDE DEF g
<1>5. /\ DOMAIN g = 0..Len(s) /\ g[0] = 0
      /\ \A i \in 1..Len(s) : g[i] = g[i - 1] + s[i]
  BY <1>0, <1>4
<1>6. \A i \in 0..Len(s) : g[i] = f[i]
  <2>1. g[0] = f[0] /\ Steps(g, s, Len(s)) /\ Steps(f, s, Len(s))
    BY <1>1, <1>5 DEF SumsUp, Steps
  <2> QED
    BY <1>0, <2>1, Unique
<1>7. g \in [0..Len(s) -> Nat]
  <2>1. g = [i \in 0..Len(s) |-> g[i]]
    BY <1>4
  <2>2. \A i \in 0..Len(s) : g[i] \in Nat
    BY <1>1, <1>6 DEF SumsUp, Steps
  <2> QED
    BY <2>1, <2>2
<1> QED
  BY <1>5, <1>7 DEF SumsUp, Steps, g

LEMMA TotalEmpty == TotalOf(<<>>) = 0
<1> DEFINE e == <<>>
<1>1. e \in Seq(Nat) /\ Len(e) = 0
  OBVIOUS
<1> HIDE DEF e
<1>2. TotalOf(e) = 0
  BY <1>1, Sums DEF TotalOf, SumsUp
<1> QED
  BY <1>2 DEF e

LEMMA TotalNat ==
  ASSUME NEW s \in Seq(Nat)
  PROVE  TotalOf(s) \in Nat
  BY Sums DEF TotalOf, SumsUp

LEMMA TotalAppend ==
  ASSUME NEW s \in Seq(Nat), NEW a \in Nat
  PROVE  TotalOf(Append(s, a)) = TotalOf(s) + a
<1> DEFINE t == Append(s, a)
           f == SumsOf(s)
           g == SumsOf(t)
<1>1. /\ t \in Seq(Nat) /\ Len(t) = Len(s) + 1 /\ t[Len(s) + 1] = a /\ Len(s) \in Nat
      /\ \A i \in 1..Len(s) : t[i] = s[i]
  BY AppendProperties
<1> HIDE DEF t
<1>2. SumsUp(f, s, Len(s)) /\ SumsUp(g, t, Len(t))
  BY <1>1, Sums
<1> HIDE DEF f, g
<1>3. f[0] = 0 /\ g[0] = 0 /\ g[Len(s) + 1] = g[(Len(s) + 1) - 1] + a
  BY <1>1, <1>2 DEF SumsUp, Steps
<1>6. ASSUME NEW i \in 1..Len(s)
      PROVE  f[i] = f[i - 1] + s[i] /\ g[i] = g[i - 1] + s[i]
  <2>1. i \in 1..Len(t)
    BY <1>1
  <2> QED
    BY <1>1, <1>2, <2>1 DEF SumsUp, Steps
<1>4. \A i \in 0..Len(s) : f[i] = g[i]
  <2>1. f[0] = g[0] /\ Steps(f, s, Len(s)) /\ Steps(g, s, Len(s))
    BY <1>3, <1>6 DEF Steps
  <2> QED
    BY <1>1, <2>1, Unique
<1>5. (Len(s) + 1) - 1 = Len(s) /\ Len(s) \in 0..Len(s)
  BY <1>1
<1> QED
  BY <1>1, <1>3, <1>4, <1>5 DEF TotalOf, f, g, t

LEMMA TotalTail ==
  ASSUME NEW s \in Seq(Nat), s # <<>>
  PROVE  TotalOf(Tail(s)) = TotalOf(s) - Head(s)
<1> DEFINE t == Tail(s)
           f == SumsOf(s)
           g == SumsOf(t)
<1>1. PICK l \in Nat : l + 1 = Len(s)
  OBVIOUS
<1>2. /\ t \in Seq(Nat) /\ Len(t) = l /\ Head(s) = s[1] /\ s[1] \in Nat
      /\ \A i \in 1..l : t[i] = s[i + 1]
  BY <1>1
<1> HIDE DEF t
<1>3. SumsUp(f, s, l + 1) /\ SumsUp(g, t, l)
  BY <1>1, <1>2, Sums
<1> HIDE DEF f, g
<1> DEFINE h == [i \in 0..l |-> g[i] + s[1]]
           k == [i \in 0..l |-> f[i + 1]]
<1>4. /\ \A i \in 0..l : h[i] = g[i] + s[1] /\ k[i] = f[i + 1] /\ g[i] \in Nat
  BY <1>3 DEF SumsUp, Steps
<1> HIDE DEF h, k
<1>5. h[0] = k[0]
  <2>1. f[1] = f[1 - 1] + s[1] /\ 1 - 1 = 0 /\ f[0] = 0 /\ g[0] = 0
    BY <1>3 DEF SumsUp, Steps
  <2> QED
    BY <1>2, <1>4, <2>1
<1>6. ASSUME NEW i \in 1..l
      PROVE  h[i] = h[i - 1] + t[i] /\ k[i] = k[i - 1] + t[i]
  <2>1. i - 1 \in 0..l /\ i \in 0..l /\ i + 1 \in 1..(l + 1) /\ (i + 1) - 1 = i /\ (i - 1) + 1 = i
    OBVIOUS
  <2>8. g[i] = g[i - 1] + t[i]
    BY <1>3, <2>1 DEF SumsUp, Steps
  <2>10. t[i] = s[i + 1]
    BY <1>2
  <2>9. t[i] \in Nat /\ t[i] = s[i + 1]
    <3>1. i \in 1..Len(t) /\ t \in Seq(Nat)
      BY <1>2
    <3>2. t[i] \in Nat
      BY <3>1, ElementOfSeq
    <3> QED
      BY <2>10, <3>2
  <2>2. g[i] = g[i - 1] + t[i] /\ t[i] \in Nat /\ t[i] = s[i + 1] /\ g[i - 1] \in Nat
    BY <1>4, <2>1, <2>8, <2>9
  <2>3. f[i + 1] = f[(i + 1) - 1] + s[i + 1]
    BY <1>3, <2>1 DEF SumsUp, Steps
  <2>4. h[i] = g[i] + s[1] /\ h[i - 1] = g[i - 1] + s[1] /\ k[i] = f[i + 1] /\ k[i - 1] = f[i]
    BY <1>4, <2>1
  <2>5. f[i + 1] = f[i] + s[i + 1]
    BY <2>1, <2>3
  <2>6. k[i] = k[i - 1] + t[i]
    BY <2>2, <2>4, <2>5
  <2>7. h[i] = h[i - 1] + t[i]
    <3>1. PICK a \in Nat, b \in Nat, c \in Nat : a = g[i - 1] /\ b = t[i] /\ c = s[1]
      BY <1>2, <2>2
    <3>2. h[i] = (a + b) + c
      BY <2>2, <2>4, <3>1
    <3>3. h[i - 1] + t[i] = (a + c) + b
      BY <2>4, <3>1
    <3> QED
      BY <3>2, <3>3
  <2> QED
    BY <2>6, <2>7
<1>7. \A i \in 0..l : h[i] = k[i]
  <2>1. h[0] = k[0] /\ Steps(h, t, l) /\ Steps(k, t, l)
    BY <1>5, <1>6 DEF Steps
  <2> QED
    BY <2>1, Unique
<1>8. f[l + 1] = g[l] + s[1] /\ g[l] \in Nat
  BY <1>4, <1>7
<1> QED
  BY <1>1, <1>2, <1>8 DEF TotalOf, f, g, t

-----------------------------------------------------------------------------
(* The sound is accounted for.                                             *)

\* The parts of LedgerInv.
Counted == input.bytes = TotalOf(input.items)

HandEmpty == sender.at \notin {"sending", "failed"} => sender.holding = 0

Balanced ==
  main \notin {"failed", "closed"} /\ ~overloaded =>
    accepted = input.bytes + sender.holding + sender.unbilled + billed + dropped

FlushIsLast ==
  input.closed /\ main # "closed" =>
    IF input.items = <<>>
    THEN sender.at # "sending" /\ (sender.at \in {"receiving", "returned"} => sender.unbilled = 0)
    ELSE input.items[Len(input.items)] = Flush

ReturnsLast == sender.at = "returned" => input.closed /\ input.items = <<>>

EndsDry == main = "ended" => input.items = <<>> /\ ~overloaded

LossIsRetried == dropped > 0 => retries > 0

LEMMA LedgerParts ==
  LedgerInv <=> /\ Counted /\ HandEmpty /\ Balanced /\ FlushIsLast /\ ReturnsLast /\ EndsDry
                /\ LossIsRetried
  BY DEF LedgerInv, Counted, HandEmpty, Balanced, FlushIsLast, ReturnsLast, EndsDry, LossIsRetried

\* The numbers of the ledger.
LEMMA Numbers ==
  ASSUME IInv
  PROVE  /\ input \in Channel /\ input.items \in Seq(Item) /\ input.bytes \in Int
         /\ input.closed \in BOOLEAN /\ sender \in Sender
         /\ sender.holding \in Nat /\ sender.unbilled \in Nat
         /\ accepted \in Nat /\ billed \in Nat /\ dropped \in Nat /\ retries \in Nat
         /\ overloaded \in BOOLEAN
  BY InputOK, Fields, SenderFields DEF IInv, TypeOK, ChannelOK

LEMMA ItemsNat ==
  ASSUME NEW s \in Seq(Item)
  PROVE  s \in Seq(Nat)
  BY ConstantsOK DEF Item

\* A reserve, granted or given back, is no sound.
LEMMA ReserveKeeps ==
  ASSUME NEW ch \in Channel, NEW k, k = Reserved(ch) \/ k = Released(ch)
  PROVE  k.items = ch.items /\ k.bytes = ch.bytes /\ k.closed = ch.closed
<1>1. CASE k = Reserved(ch)
  BY <1>1 DEF Reserved, Channel
<1>2. CASE k = Released(ch)
  <2> DEFINE r == [ch EXCEPT !.reserved = FALSE]
  <2>1. r \in Channel /\ r.items = ch.items /\ r.bytes = ch.bytes /\ r.closed = ch.closed
    BY DEF Channel
  <2>2. k = Trim(r)
    BY <1>2 DEF Released
  <2> HIDE DEF r
  <2>3. k = [r EXCEPT !.limit = BaseLimit] \/ k = r
    BY <2>2 DEF Trim
  <2>4. k.items = r.items /\ k.bytes = r.bytes /\ k.closed = r.closed
    BY <2>1, <2>3 DEF Channel
  <2> QED
    BY <2>1, <2>4
<1> QED
  BY <1>1, <1>2

\* What the sender takes is no longer counted.
LEMMA TakenKeeps ==
  ASSUME NEW ch \in Channel, ch = input, input.items # <<>>
  PROVE  /\ Taken.items = Tail(input.items) /\ Taken.bytes = input.bytes - Head(input.items)
         /\ Taken.closed = input.closed /\ Taken \in Channel
<1>1. /\ Tail(ch.items) \in Seq(Item) /\ Head(ch.items) \in Item /\ ch.bytes \in Int
      /\ Head(ch.items) \in Nat
  BY ConstantsOK DEF Channel, Item
<1> DEFINE s == Tail(ch.items)
           b == ch.bytes - Head(ch.items)
           r == [ch EXCEPT !.items = s, !.bytes = b]
<1>2. s \in Seq(Item) /\ b \in Int
  BY <1>1
<1>3. Taken = IF Head(input.items) = Flush THEN r ELSE Trim(r)
  BY DEF Taken
<1> HIDE DEF s, b
<1>4. r \in Channel /\ r.items = s /\ r.bytes = b /\ r.closed = ch.closed
  BY <1>2 DEF Channel
<1> HIDE DEF r
<1>5. Taken = [r EXCEPT !.limit = BaseLimit] \/ Taken = r
  BY <1>3 DEF Trim
<1>6. Taken.items = r.items /\ Taken.bytes = r.bytes /\ Taken.closed = r.closed /\ Taken \in Channel
  BY <1>4, <1>5, ConstantsOK DEF Channel
<1> QED
  BY <1>4, <1>6 DEF s, b

LEMMA LedgerSession ==
  ASSUME IInv, LedgerInv, CommitUtterance \/ EndInput \/ \E n \in 1..MaxFrame : PushFrame(n)
  PROVE  LedgerInv'
<1>1. /\ Counted /\ HandEmpty /\ Balanced /\ FlushIsLast /\ ReturnsLast /\ EndsDry /\ LossIsRetried
      /\ ~input.closed /\ main \notin {"ended", "failed", "closed"}
  BY LedgerParts DEF CommitUtterance, EndInput, PushFrame, Writable, Over
<1>2. /\ input \in Channel /\ input.items \in Seq(Item) /\ input.bytes \in Int
      /\ accepted \in Nat /\ overloaded \in BOOLEAN
  BY Numbers
<1>3. PICK item \in Item, closes \in BOOLEAN :
        /\ Queued(item, closes) /\ (closes => item = Flush)
        /\ accepted' = accepted + (IF Fits(item) THEN item ELSE 0)
  <2>1. CASE CommitUtterance \/ EndInput
    <3>4. Flush \in Item /\ Flush = 0
      BY ConstantsOK DEF Flush, Item
    <3>5. accepted' = accepted
      BY <2>1 DEF CommitUtterance, EndInput
    <3>1. Flush \in Item /\ Flush = 0 /\ accepted' = accepted
      BY <3>4, <3>5
    <3>2. PICK closes \in BOOLEAN : Queued(Flush, closes)
      BY <2>1 DEF CommitUtterance, EndInput
    <3>3. accepted' = accepted + (IF Fits(Flush) THEN Flush ELSE 0)
      BY <1>2, <3>1
    <3> QED
      BY <3>1, <3>2, <3>3
  <2>2. CASE \E n \in 1..MaxFrame : PushFrame(n)
    <3>1. PICK n \in 1..MaxFrame : PushFrame(n)
      BY <2>2
    <3>2. n \in Item
      BY <3>1, ConstantsOK DEF Item
    <3> QED
      BY <3>1, <3>2 DEF PushFrame
  <2> QED
    BY <2>1, <2>2
<1>4. UNCHANGED <<main, retries, sender, billed, dropped>>
  BY DEF CommitUtterance, EndInput, PushFrame, Session
<1>5. CASE ~Fits(item)
  <2>1. input' = input /\ overloaded' = TRUE
    BY <1>3, <1>5 DEF Queued
  <2> QED
    BY <1>1, <1>4, <2>1 DEF LedgerInv, Counted, HandEmpty, Balanced, FlushIsLast, ReturnsLast,
                            EndsDry, LossIsRetried
<1>6. CASE Fits(item)
  <2> DEFINE s == Append(input.items, item)
             b == input.bytes + item
             k == [input EXCEPT !.items = s, !.bytes = b, !.closed = closes]
  <2>1. input' = k /\ overloaded' = overloaded
    BY <1>3, <1>6 DEF Queued
  <2>2. /\ item \in Nat /\ accepted' = accepted + item /\ input.items \in Seq(Nat)
        /\ s \in Seq(Item)
    BY <1>2, <1>3, <1>6, ConstantsOK, ItemsNat DEF Item
  <2>3. b \in Int
    BY <1>2, <2>2
  <2>4. TotalOf(s) = TotalOf(input.items) + item
    BY <2>2, TotalAppend
  <2>5. s # <<>> /\ s[Len(s)] = item
    BY <1>2, AppendProperties
  <2> HIDE DEF s, b
  <2>6. k.items = s /\ k.bytes = b /\ k.closed = closes
    BY <1>2 DEF Channel
  <2> HIDE DEF k
  <2>7. Counted'
    BY <1>1, <2>1, <2>4, <2>6 DEF Counted, b
  <2>8. Balanced'
    <3> SUFFICES ASSUME ~overloaded
                 PROVE  accepted' = k.bytes + sender.holding + sender.unbilled + billed + dropped
      BY <1>4, <2>1 DEF Balanced
    <3>1. accepted = input.bytes + sender.holding + sender.unbilled + billed + dropped
      BY <1>1 DEF Balanced
    <3>2. /\ sender.holding \in Nat /\ sender.unbilled \in Nat /\ billed \in Nat /\ dropped \in Nat
      BY Numbers
    <3>3. k.bytes = input.bytes + item
      BY <2>6 DEF b
    <3>4. accepted' = accepted + item /\ item \in Nat /\ input.bytes \in Int
      BY <1>2, <2>2
    <3>5. \A x \in Int, i, h, u, l, d \in Nat : (x + h + u + l + d) + i = (x + i) + h + u + l + d
      OBVIOUS
    <3>6. (input.bytes + sender.holding + sender.unbilled + billed + dropped) + item
            = (input.bytes + item) + sender.holding + sender.unbilled + billed + dropped
      BY <3>2, <3>4, <3>5
    <3> QED
      BY <3>1, <3>3, <3>4, <3>6, Zenon
  <2>9. FlushIsLast'
    BY <1>3, <1>4, <2>1, <2>5, <2>6 DEF FlushIsLast
  <2>10. ReturnsLast' /\ EndsDry' /\ HandEmpty' /\ LossIsRetried'
    BY <1>1, <1>4 DEF ReturnsLast, EndsDry, HandEmpty, LossIsRetried
  <2> QED
    BY <2>7, <2>8, <2>9, <2>10 DEF LedgerInv, Counted, HandEmpty, Balanced, FlushIsLast, ReturnsLast,
                                   EndsDry, LossIsRetried
<1> QED
  BY <1>5, <1>6

LEMMA LedgerMain ==
  ASSUME IInv, LedgerInv, MainStep \/ Aclose
  PROVE  LedgerInv'
<1>1. /\ Counted /\ HandEmpty /\ Balanced /\ FlushIsLast /\ ReturnsLast /\ EndsDry /\ LossIsRetried
      /\ SilentAtFirst
  BY LedgerParts DEF IInv
<1>2. /\ input \in Channel /\ input.bytes \in Int
      /\ sender.holding \in Nat /\ sender.unbilled \in Nat
      /\ accepted \in Nat /\ billed \in Nat /\ dropped \in Nat /\ retries \in Nat
  BY Numbers
<1>3. UNCHANGED <<overloaded, accepted, billed>>
  <2>1. Attempt
    BY DEF MainStep, Connect, ConnectFails, StreamBegins, StreamEnds, BackoffEnds, Aclose
  <2> QED
    BY <2>1 DEF Attempt
<1>4. Idle.at = "off" /\ Idle.holding = 0 /\ Idle.unbilled = 0
  BY IdleSender
<1>5. CASE Connect \/ BackoffEnds
  <2>1. /\ UNCHANGED <<input, sender, retries, dropped>> /\ main' \in {"handshake", "connection"}
        /\ main \in {"connection", "backoff"}
    BY <1>5 DEF Connect, BackoffEnds
  <2> QED
    BY <1>1, <1>3, <2>1 DEF LedgerInv, Counted, HandEmpty, Balanced, FlushIsLast, ReturnsLast,
                            EndsDry, LossIsRetried
<1>6. CASE StreamBegins
  <2>1. /\ UNCHANGED <<input, retries, dropped>> /\ main' = "streaming" /\ main = "handshake"
    BY <1>6 DEF StreamBegins
  <2>2. sender'.at = "receiving" /\ sender'.holding = 0 /\ sender'.unbilled = 0
    BY <1>4, <1>6, IdleSender DEF StreamBegins, Sender
  <2>3. sender.holding = 0 /\ sender.unbilled = 0 /\ sender.at = "off"
    BY <1>1, <1>4, <2>1 DEF SilentAtFirst
  <2> QED
    BY <1>1, <1>3, <2>1, <2>2, <2>3
      DEF LedgerInv, Counted, HandEmpty, Balanced, FlushIsLast, ReturnsLast, EndsDry, LossIsRetried
\* What is given up is lost, and with it a retry is spent.
<1>7. ASSUME NEW b, GiveUp(b)
      PROVE  /\ main' \in {"backoff", "failed"}
             /\ main' = "backoff" => /\ retries' = retries + 1
                                     /\ dropped' = dropped + sender.holding + sender.unbilled
             /\ main' = "failed" => UNCHANGED <<retries, dropped>>
  BY <1>7 DEF GiveUp
<1>8. CASE ConnectFails
  <2>1. /\ UNCHANGED <<input, sender>> /\ main \in {"connection", "handshake"}
        /\ \E b : GiveUp(b)
    BY <1>8 DEF ConnectFails
  <2>2. sender.holding = 0 /\ sender.unbilled = 0 /\ sender.at = "off"
    BY <1>1, <1>4, <2>1 DEF SilentAtFirst
  <2>3. CASE main' = "failed"
    BY <1>1, <1>3, <1>7, <2>1, <2>2, <2>3
      DEF LedgerInv, Counted, HandEmpty, Balanced, FlushIsLast, ReturnsLast, EndsDry, LossIsRetried
  <2>4. CASE main' = "backoff"
    <3>1. retries' = retries + 1 /\ dropped' = dropped + 0 + 0
      BY <1>7, <2>1, <2>2, <2>4
    <3>2. retries' > 0 /\ dropped' = dropped
      BY <1>2, <3>1
    <3> QED
      BY <1>1, <1>3, <2>1, <2>2, <2>4, <3>2
        DEF LedgerInv, Counted, HandEmpty, Balanced, FlushIsLast, ReturnsLast, EndsDry, LossIsRetried
  <2> QED
    BY <1>7, <2>1, <2>3, <2>4
<1>9. CASE StreamEnds
  <2>1. sender' = Idle /\ main = "streaming"
    BY <1>9 DEF StreamEnds, TasksEnd
  <2>2. /\ input'.items = input.items /\ input'.bytes = input.bytes
        /\ input'.closed = input.closed
    BY <1>2, <1>9, ReserveKeeps DEF StreamEnds, TasksEnd
  <2>3. Counted' /\ HandEmpty' /\ ReturnsLast'
    BY <1>1, <1>4, <2>1, <2>2 DEF Counted, HandEmpty, ReturnsLast
  <2>4. FlushIsLast'
    BY <1>1, <1>4, <2>1, <2>2 DEF FlushIsLast
  <2>5. CASE \E b : GiveUp(b)
    <3>1. CASE main' = "failed"
      BY <1>1, <1>3, <1>7, <2>3, <2>4, <2>5, <3>1
        DEF LedgerInv, Counted, HandEmpty, Balanced, FlushIsLast, ReturnsLast, EndsDry, LossIsRetried
    <3>2. CASE main' = "backoff"
      <4>1. /\ retries' = retries + 1
            /\ dropped' = dropped + sender.holding + sender.unbilled
        BY <1>7, <2>5, <3>2
      <4>2. LossIsRetried'
        BY <1>2, <4>1 DEF LossIsRetried
      <4>3. ASSUME ~overloaded
            PROVE  accepted = input.bytes + 0 + 0 + billed + dropped'
        <5>1. accepted = input.bytes + sender.holding + sender.unbilled + billed + dropped
          BY <1>1, <2>1, <4>3 DEF Balanced
        <5> QED
          BY <1>2, <4>1, <5>1
      <4>4. Balanced'
        BY <1>3, <1>4, <2>1, <2>2, <4>3 DEF Balanced
      <4>5. EndsDry'
        BY <3>2 DEF EndsDry
      <4> QED
        BY <2>3, <2>4, <4>2, <4>4, <4>5
          DEF LedgerInv, Counted, HandEmpty, Balanced, FlushIsLast, ReturnsLast, EndsDry,
              LossIsRetried
    <3> QED
      BY <1>7, <2>5, <3>1, <3>2
  <2>6. CASE /\ sender.at = "returned" /\ ~overloaded
             /\ main' = "ended" /\ UNCHANGED <<retries, dropped>>
    <3>1. input.items = <<>> /\ input.closed
      BY <1>1, <2>6 DEF ReturnsLast
    <3>2. sender.holding = 0 /\ sender.unbilled = 0
      BY <1>1, <2>1, <2>6, <3>1 DEF HandEmpty, FlushIsLast
    <3>3. Balanced'
      BY <1>1, <1>3, <1>4, <2>1, <2>2, <2>6, <3>2 DEF Balanced
    <3>4. EndsDry' /\ LossIsRetried'
      BY <1>1, <1>3, <2>2, <2>6, <3>1 DEF EndsDry, LossIsRetried
    <3> QED
      BY <2>3, <2>4, <3>3, <3>4
        DEF LedgerInv, Counted, HandEmpty, Balanced, FlushIsLast, ReturnsLast, EndsDry, LossIsRetried
  <2> QED
    BY <1>9, <2>5, <2>6 DEF StreamEnds
<1>10. CASE Aclose
  <2> DEFINE ch == IF input.reserved THEN Released(input) ELSE input
  <2>0. ch = Released(input) \/ ch = input
    OBVIOUS
  <2>1. /\ sender' = Idle /\ main' = "closed" /\ input' = [ch EXCEPT !.closed = TRUE]
        /\ UNCHANGED <<retries, dropped>>
    BY <1>10 DEF Aclose
  <2>2. ch \in Channel
    BY TasksEndOK DEF ChannelOK
  <2> HIDE DEF ch
  <2>3. ch.items = input.items /\ ch.bytes = input.bytes
    BY <1>2, <2>0, ReserveKeeps
  <2>4. input'.items = input.items /\ input'.bytes = input.bytes
    BY <2>1, <2>2, <2>3 DEF Channel
  <2> QED
    BY <1>1, <1>3, <1>4, <2>1, <2>4
      DEF LedgerInv, Counted, HandEmpty, Balanced, FlushIsLast, ReturnsLast, EndsDry, LossIsRetried
<1> QED
  BY <1>5, <1>6, <1>8, <1>9, <1>10 DEF MainStep

LEMMA LedgerSender ==
  ASSUME IInv, LedgerInv, SenderStep
  PROVE  LedgerInv'
<1>1. Counted /\ HandEmpty /\ Balanced /\ FlushIsLast /\ ReturnsLast /\ EndsDry /\ LossIsRetried
  BY LedgerParts
<1>2. /\ input \in Channel /\ input.items \in Seq(Item) /\ input.bytes \in Int
      /\ sender \in Sender /\ sender.holding \in Nat /\ sender.unbilled \in Nat
      /\ accepted \in Nat /\ billed \in Nat /\ dropped \in Nat /\ overloaded \in BOOLEAN
  BY Numbers
<1>3. UNCHANGED <<main, retries, overloaded, accepted, dropped>>
  BY DEF SenderStep, TakesFrame, TakesFlush, FindsOverload, SendsFrame, SendsCommit, SendFails,
         Acknowledged, SenderReturns, Sending
<1>4. main = "streaming"
  <2>1. Idle.at = "off"
    BY IdleSender
  <2>2. sender.at # "off"
    BY DEF SenderStep, TakesFrame, TakesFlush, FindsOverload, SendsFrame, SendsCommit, SendFails,
           Acknowledged, SenderReturns, Timed
  <2> QED
    BY <2>1, <2>2 DEF IInv, SilentAtFirst
<1>5. LossIsRetried' /\ EndsDry'
  BY <1>1, <1>3, <1>4 DEF LossIsRetried, EndsDry
\* It takes an item.
<1>6. ASSUME input.items # <<>>, input' = Taken \/ input' = Reserved(Taken)
      PROVE  /\ Counted' /\ input'.closed = input.closed
             /\ Head(input.items) \in Nat /\ input'.bytes = input.bytes - Head(input.items)
             /\ \/ input'.items = <<>> /\ input.items[Len(input.items)] = Head(input.items)
                \/ /\ input'.items # <<>>
                   /\ input'.items[Len(input'.items)] = input.items[Len(input.items)]
  <2>1. /\ Taken.items = Tail(input.items) /\ Taken.bytes = input.bytes - Head(input.items)
        /\ Taken.closed = input.closed /\ Taken \in Channel
    BY <1>2, <1>6, TakenKeeps
  <2>2. /\ input'.items = Tail(input.items) /\ input'.bytes = input.bytes - Head(input.items)
        /\ input'.closed = input.closed
    BY <1>6, <2>1, ReserveKeeps
  <2>3. input.items \in Seq(Nat)
    BY <1>2, ItemsNat
  <2>4. TotalOf(Tail(input.items)) = TotalOf(input.items) - Head(input.items)
    BY <1>6, <2>3, TotalTail
  <2>5. Counted'
    BY <1>1, <2>2, <2>4 DEF Counted
  <2>6. /\ Len(input.items) \in Nat /\ Len(input.items) >= 1 /\ Head(input.items) = input.items[1]
        /\ Len(Tail(input.items)) = Len(input.items) - 1
        /\ \A i \in 1..Len(input.items) - 1 : Tail(input.items)[i] = input.items[i + 1]
    BY <1>6, <2>3, Drops
  <2>7. Head(input.items) \in Nat
    BY <1>6, <2>3
  <2> DEFINE t == Tail(input.items)
             l == Len(input.items)
  <2>10. t \in Seq(Nat) /\ (t = <<>> <=> Len(t) = 0)
    <3>1. t \in Seq(Nat)
      BY <1>6, <2>3
    <3> QED
      BY <3>1, EmptySeq
  <2>11. /\ input'.items = t /\ l \in Nat /\ l >= 1 /\ Head(input.items) = input.items[1]
         /\ Len(t) = l - 1 /\ \A i \in 1..l - 1 : t[i] = input.items[i + 1]
    BY <2>2, <2>6
  <2>12. l = Len(input.items)
    OBVIOUS
  <2> HIDE DEF t, l
  <2>8. CASE l = 1
    <3>1. t = <<>>
      BY <2>8, <2>10, <2>11
    <3> QED
      BY <2>2, <2>5, <2>7, <2>8, <2>11, <2>12, <3>1
  <2>9. CASE l # 1
    <3>1. l - 1 \in 1..l - 1 /\ (l - 1) + 1 = l /\ t # <<>>
      BY <2>9, <2>10, <2>11
    <3>2. t[Len(t)] = input.items[l]
      BY <2>11, <3>1
    <3> QED
      BY <2>2, <2>5, <2>7, <2>11, <2>12, <3>1, <3>2
  <2> QED
    BY <2>8, <2>9
<1> USE DEF LedgerInv
<1>7. CASE TakesFrame
  <2>1. /\ sender.at = "receiving" /\ sender'.at = "sending" /\ UNCHANGED billed
        /\ sender'.holding = Head(input.items) /\ sender'.unbilled = sender.unbilled
        /\ input.items # <<>> /\ input' = Taken /\ Head(input.items) # Flush
    BY <1>2, <1>7 DEF TakesFrame, Sender
  <2>2. Counted' /\ ReturnsLast' /\ HandEmpty'
    BY <1>6, <2>1 DEF ReturnsLast, HandEmpty
  <2>3. FlushIsLast'
    BY <1>1, <1>3, <1>6, <2>1 DEF FlushIsLast
  <2>4. ASSUME ~overloaded
        PROVE  accepted = input'.bytes + sender'.holding + sender'.unbilled + billed + dropped
    <3>1. accepted = input.bytes + 0 + sender.unbilled + billed + dropped
      BY <1>1, <1>4, <2>1, <2>4 DEF Balanced, HandEmpty
    <3> QED
      BY <1>2, <1>6, <2>1, <3>1
  <2>5. Balanced'
    BY <1>3, <2>1, <2>4 DEF Balanced
  <2> QED
    BY <1>5, <2>2, <2>3, <2>5 DEF Counted, HandEmpty, Balanced, FlushIsLast, ReturnsLast,
                                  EndsDry, LossIsRetried
<1>8. CASE TakesFlush
  <2>1. /\ sender.at = "receiving" /\ UNCHANGED billed /\ Head(input.items) = Flush
        /\ sender'.holding = sender.holding /\ sender'.unbilled = sender.unbilled
        /\ input.items # <<>> /\ (input' = Taken \/ input' = Reserved(Taken))
        /\ \/ sender'.at = "committing"
           \/ sender'.at = "receiving" /\ sender.unbilled = 0
    BY <1>2, <1>8 DEF TakesFlush, Sender, UtteranceOpen
  <2>2. input'.bytes = input.bytes
    BY <1>2, <1>6, <2>1 DEF Flush
  <2>3. Counted' /\ ReturnsLast' /\ HandEmpty'
    BY <1>1, <1>6, <2>1 DEF ReturnsLast, HandEmpty
  <2>4. FlushIsLast'
    BY <1>1, <1>3, <1>6, <2>1 DEF FlushIsLast
  <2>5. Balanced'
    BY <1>1, <1>3, <2>1, <2>2 DEF Balanced
  <2> QED
    BY <1>5, <2>3, <2>4, <2>5 DEF Counted, HandEmpty, Balanced, FlushIsLast, ReturnsLast,
                                  EndsDry, LossIsRetried
<1>9. CASE FindsOverload
  <2>1. /\ sender'.at = "failed" /\ overloaded
        /\ input.items # <<>> /\ input' = Taken
    BY <1>2, <1>9 DEF FindsOverload, Sender
  <2>2. Counted' /\ ReturnsLast' /\ HandEmpty' /\ Balanced'
    BY <1>3, <1>6, <2>1 DEF ReturnsLast, HandEmpty, Balanced
  <2>3. FlushIsLast'
    BY <1>1, <1>3, <1>6, <2>1 DEF FlushIsLast
  <2> QED
    BY <1>5, <2>2, <2>3 DEF Counted, HandEmpty, Balanced, FlushIsLast, ReturnsLast,
                            EndsDry, LossIsRetried
<1>10. CASE SendsFrame
  <2>1. /\ sender.at = "sending" /\ sender'.at = "receiving" /\ sender'.holding = 0
        /\ sender'.unbilled = sender.unbilled + sender.holding /\ UNCHANGED <<input, billed>>
    BY <1>10 DEF SendsFrame
  <2>2. sender.unbilled + sender.holding = sender.holding + sender.unbilled
    BY <1>2
  <2>3. Balanced'
    <3> SUFFICES ASSUME ~overloaded
                 PROVE  accepted = input.bytes + sender'.holding + sender'.unbilled + billed + dropped
      BY <1>3, <2>1 DEF Balanced
    <3>1. accepted = input.bytes + sender.holding + sender.unbilled + billed + dropped
      BY <1>1, <1>4 DEF Balanced
    <3> QED
      BY <1>2, <2>1, <3>1
  <2>4. FlushIsLast'
    BY <1>1, <1>3, <1>4, <2>1 DEF FlushIsLast
  <2> QED
    BY <1>1, <1>5, <2>1, <2>3, <2>4 DEF Counted, HandEmpty, Balanced, FlushIsLast, ReturnsLast,
                                        EndsDry, LossIsRetried
<1>11. CASE SendsCommit \/ SenderReturns
  <2>1. /\ sender'.holding = sender.holding /\ sender'.unbilled = sender.unbilled
        /\ UNCHANGED <<input, billed>> /\ sender.at \notin {"sending", "failed"}
        /\ \/ sender'.at = "finalizing"
           \/ /\ sender.at = "receiving" /\ sender'.at = "returned"
              /\ input.items = <<>> /\ input.closed
    BY <1>2, <1>11 DEF SendsCommit, SenderReturns, Sender
  <2> QED
    BY <1>1, <1>3, <1>5, <2>1 DEF Counted, HandEmpty, Balanced, FlushIsLast, ReturnsLast,
                                  EndsDry, LossIsRetried
\* It gives back the reserve, or keeps it.
<1>12. ASSUME input' = Released(input) \/ input' = input
       PROVE  /\ input'.items = input.items /\ input'.bytes = input.bytes
              /\ input'.closed = input.closed
  BY <1>2, <1>12, ReserveKeeps
<1>13. CASE SendFails
  <2>1. /\ sender'.at = "failed" /\ sender'.holding = sender.holding
        /\ sender'.unbilled = sender.unbilled /\ UNCHANGED billed
        /\ (input' = Released(input) \/ input' = input)
    BY <1>2, <1>13 DEF SendFails, Sender
  <2> QED
    BY <1>1, <1>3, <1>5, <1>12, <2>1 DEF Counted, HandEmpty, Balanced, FlushIsLast, ReturnsLast,
                                         EndsDry, LossIsRetried
<1>14. CASE Acknowledged
  <2>1. /\ sender.at = "finalizing" /\ input' = Released(input) /\ sender'.holding = sender.holding
        /\ \/ /\ sender'.at = "receiving" /\ sender'.unbilled = 0
              /\ billed' = billed + sender.unbilled
           \/ sender'.at = "failed" /\ sender'.unbilled = sender.unbilled /\ UNCHANGED billed
    BY <1>2, <1>14 DEF Acknowledged, Sender
  <2>2. Balanced'
    <3> SUFFICES ASSUME ~overloaded
                 PROVE  accepted = input.bytes + sender'.holding + sender'.unbilled + billed' + dropped
      BY <1>3, <1>12, <2>1 DEF Balanced
    <3>1. accepted = input.bytes + sender.holding + sender.unbilled + billed + dropped
      BY <1>1, <1>4 DEF Balanced
    <3> QED
      BY <1>2, <2>1, <3>1
  <2>3. FlushIsLast' /\ HandEmpty' /\ Counted' /\ ReturnsLast'
    BY <1>1, <1>3, <1>12, <2>1 DEF FlushIsLast, HandEmpty, Counted, ReturnsLast
  <2> QED
    BY <1>5, <2>2, <2>3 DEF Counted, HandEmpty, Balanced, FlushIsLast, ReturnsLast,
                            EndsDry, LossIsRetried
<1> QED
  BY <1>7, <1>8, <1>9, <1>10, <1>11, <1>13, <1>14 DEF SenderStep

LEMMA LedgerStep ==
  ASSUME IInv, LedgerInv, [Next]_vars
  PROVE  LedgerInv'
<1>1. CASE UNCHANGED <<input, overloaded, main, retries, sender, accepted, billed, dropped>>
  BY <1>1 DEF LedgerInv
<1>2. CASE ReceiverStep \/ ReadEvent \/ WatcherRaises \/ ServerStep \/ UNCHANGED vars
  <2>1. UNCHANGED <<input, overloaded, main, retries, sender, accepted, billed, dropped>>
    BY <1>2 DEF ReceiverStep, ReceivesWords, ReceivesCommitted, ReceivesBad, FindsHangup, Receiving,
                ReadEvent, WatcherRaises, ServerStep, ServerTakesFrame, ServerCommits, ServerSpeaks,
                ServerFails, Serving, vars, channel, ledger
  <2> QED
    BY <1>1, <2>1
<1>3. CASE CommitUtterance \/ EndInput \/ \E n \in 1..MaxFrame : PushFrame(n)
  BY <1>3, LedgerSession
<1>4. CASE SenderStep
  BY <1>4, LedgerSender
<1>5. CASE MainStep \/ Aclose
  BY <1>5, LedgerMain
<1> QED
  BY <1>2, <1>3, <1>4, <1>5 DEF Next, Caller

\* No sound is lost silently: the channel counts what it holds, and a stream that ends without an
\* error has billed all the sound it took, or has lost it in a retry (_send, _run).
THEOREM SoundSafety == Spec => []SoundIsAccountedFor
<1>1. Init => LedgerInv
  <2> SUFFICES ASSUME Init PROVE LedgerInv
    OBVIOUS
  <2>1. /\ input.items = <<>> /\ input.bytes = 0 /\ input.closed = FALSE
        /\ overloaded = FALSE /\ main = "connection" /\ sender = Idle
        /\ accepted = 0 /\ billed = 0 /\ dropped = 0
    BY DEF Init
  <2> QED
    BY <2>1, TotalEmpty, IdleSender DEF LedgerInv
<1>2. ASSUME IInv, LedgerInv
      PROVE  SoundIsAccountedFor
  <2>1. /\ input.bytes = TotalOf(input.items) /\ (dropped > 0 => retries > 0)
        /\ main = "ended" => input.items = <<>> /\ ~overloaded
    BY <1>2 DEF LedgerInv
  <2>2. ASSUME main = "ended"
        PROVE  billed + dropped = accepted
    <3>1. sender = Idle /\ input.bytes = 0
      BY <1>2, <2>1, <2>2, TotalEmpty DEF IInv, SilentAtFirst
    <3>2. accepted = 0 + 0 + 0 + billed + dropped
      BY <1>2, <2>1, <2>2, <3>1, IdleSender DEF LedgerInv
    <3>3. billed \in Nat /\ dropped \in Nat
      BY <1>2, Numbers
    <3> QED
      BY <3>2, <3>3
  <2> QED
    BY <2>1, <2>2 DEF SoundIsAccountedFor
<1> QED
  BY <1>1, <1>2, LedgerStep, InductiveInvariant, PTL DEF Spec

=============================================================================
