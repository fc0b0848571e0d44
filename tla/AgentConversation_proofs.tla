---------------------- MODULE AgentConversation_proofs ----------------------
(***************************************************************************)
(* Proofs about the conversation agent, for any number of calls and any    *)
(* sizes of its replies, contexts, queue and pipe.  First the lock is held *)
(* by one call at a time, and the process of the runtime always has an     *)
(* owner.  Then where a turn stands in the adapter agrees with where it    *)
(* stands in the transport and in the process, so that a runtime that is   *)
(* used again is settled.                                                  *)
(***************************************************************************)
EXTENDS AgentConversation, SequenceTheorems, TLAPS

-----------------------------------------------------------------------------
(* The inductive invariant.                                                *)

\* Records keep their fields; what is in them matters only where the other parts say so.
Shape ==
  /\ call = [c \in Calls |-> call[c]]
  /\ \A c \in Calls : call[c] = [kind |-> call[c].kind, at |-> call[c].at,
                                 context |-> call[c].context, heard |-> call[c].heard]
  /\ owner = [client |-> owner.client, session |-> owner.session, metadata |-> owner.metadata,
              snapshot |-> owner.snapshot, closed |-> owner.closed,
              uncertain |-> owner.uncertain, history |-> owner.history,
              retired |-> owner.retired]
  /\ closer = [at |-> closer.at, awaits |-> closer.awaits]
  /\ codex = [boot |-> codex.boot, reader |-> codex.reader, turn |-> codex.turn,
              retired |-> codex.retired]
  /\ runtime = [alive |-> runtime.alive, made |-> runtime.made, running |-> runtime.running,
                said |-> runtime.said, thread |-> runtime.thread,
                requests |-> runtime.requests, lines |-> runtime.lines]
  /\ lost = [cut |-> lost.cut, forgotten |-> lost.forgotten]

\* The call is past the wait for the lock.
Active(c) == call[c].at \notin {"none", "queued", "ended"}

Waits(x) == \E i \in 1..Len(lock) : lock[i] = x

\* Who is in the lock is there once, and who is past the wait is its first.
LockInv ==
  /\ lock \in Seq(Calls \cup {Closer})
  /\ \A i, j \in 1..Len(lock) : lock[i] = lock[j] => i = j
  /\ \A c \in Calls : call[c].at \notin {"none", "ended"} <=> Waits(c)
  /\ closer.at \in {"queued", "stopping"} <=> Waits(Closer)
  /\ \A c \in Calls : Active(c) => lock[1] = c
  /\ closer.at = "stopping" => lock[1] = Closer

\* While a call starts the runtime there is no session yet, and who stops it has dropped it.
StagesAgree ==
  /\ \A c \in Calls : call[c].at = "starting" =>
       owner.client /\ ~owner.session /\ (codex.boot = "opening" => owner.metadata)
  /\ \A c \in Calls : call[c].at = "stopping" => ~owner.session
  /\ closer.at \in {"stopping", "done"} => ~owner.session
  /\ closer.at # "none" => owner.closed
  /\ closer.at = "done" => \A c \in Calls : ~Active(c)

\* A client without a session is on its way in or out, is poisoned, or its stop was cut short.
ClientInv ==
  /\ runtime.alive => owner.client
  /\ owner.session => owner.client /\ owner.metadata
  /\ owner.client =>
       \/ owner.session \/ owner.uncertain \/ lost.cut \/ closer.at = "stopping"
       \/ \E c \in Calls : call[c].at \in {"starting", "stopping"}
  /\ closer.at = "done" /\ owner.client => owner.uncertain
  /\ lost.forgotten => lost.cut
  /\ owner.uncertain => \A c \in Calls : call[c].at \notin {"starting", "ready"} \cup Subscribed

IInv == Shape /\ LockInv /\ StagesAgree /\ ClientInv

-----------------------------------------------------------------------------
(* The lock.                                                               *)

\* Nobody else is past the wait for the lock.
Alone(c) == closer.at # "stopping" /\ \A d \in Calls \ {c} : ~Active(d)

LEMMA HolderIsAlone ==
  ASSUME IInv, NEW c \in Calls, Active(c) \/ (Holds(c) /\ call[c].at = "queued")
  PROVE  Alone(c) /\ lock # <<>> /\ lock[1] = c
<1>1. Waits(c) /\ lock \in Seq(Calls \cup {Closer})
  BY DEF IInv, LockInv, Active
<1>2. lock # <<>> /\ lock[1] = c
  BY <1>1 DEF IInv, LockInv, Waits, Holds
<1> QED
  BY <1>2, ConstantsOK DEF IInv, LockInv, Alone

LEMMA CloserIsAlone ==
  ASSUME IInv, closer.at = "stopping" \/ Holds(Closer)
  PROVE  \A c \in Calls : ~Active(c)
BY ConstantsOK DEF IInv, LockInv, Holds

\* The callers keep their places.
LEMMA LockStays ==
  ASSUME IInv, lock' = lock, closer'.at = closer.at,
         \A c \in Calls : /\ call'[c].at \in {"none", "ended"} <=> call[c].at \in {"none", "ended"}
                          /\ Active(c)' => Active(c) \/ Holds(c)
  PROVE  LockInv'
BY DEF IInv, LockInv, Waits, Active, Holds

LEMMA LockGrows ==
  ASSUME IInv, NEW x \in Calls \cup {Closer}, ~Waits(x), lock' = Append(lock, x),
         x \in Calls => call'[x].at = "queued" /\ closer'.at = closer.at,
         x = Closer => closer'.at = "queued",
         \A c \in Calls \ {x} : call'[c].at = call[c].at
  PROVE  LockInv'
<1>1. /\ lock \in Seq(Calls \cup {Closer}) /\ lock' \in Seq(Calls \cup {Closer})
      /\ Len(lock') = Len(lock) + 1 /\ lock'[Len(lock) + 1] = x
      /\ \A i \in 1..Len(lock) : lock'[i] = lock[i]
  BY DEF IInv, LockInv
<1>2. \A i, j \in 1..Len(lock') : lock'[i] = lock'[j] => i = j
  BY <1>1 DEF IInv, LockInv, Waits
<1>3. \A y : Waits(y)' <=> Waits(y) \/ y = x
  BY <1>1 DEF Waits
<1>4. Waits(lock[1]) => lock'[1] = lock[1]
  BY <1>1 DEF Waits
<1>5. \A c \in Calls : Active(c)' => lock'[1] = c
  BY SMTT(30), <1>1, <1>4, ConstantsOK DEF IInv, LockInv, Active, Waits
<1>6. closer'.at = "stopping" => lock'[1] = Closer
  BY <1>1, <1>4, ConstantsOK DEF IInv, LockInv, Waits
<1> QED
  BY <1>1, <1>2, <1>3, <1>5, <1>6, ConstantsOK DEF IInv, LockInv, Active

\* The first leaves, and nobody is past the wait.
LEMMA LockIsFreed ==
  ASSUME IInv, NEW x \in Calls \cup {Closer}, lock # <<>>, lock[1] = x, lock' = Tail(lock),
         x \in Calls => call'[x].at = "ended" /\ closer'.at = closer.at,
         x = Closer => closer'.at = "done",
         \A c \in Calls \ {x} : call'[c].at = call[c].at
  PROVE  LockInv'
<1>1. /\ lock \in Seq(Calls \cup {Closer}) /\ lock' \in Seq(Calls \cup {Closer})
      /\ Len(lock') = Len(lock) - 1 /\ Len(lock) \in Nat \ {0}
      /\ \A i \in 1..Len(lock') : lock'[i] = lock[i + 1]
  BY DEF IInv, LockInv
<1>2. \A i, j \in 1..Len(lock') : lock'[i] = lock'[j] => i = j
  <2> SUFFICES ASSUME NEW i \in 1..Len(lock'), NEW j \in 1..Len(lock'), lock'[i] = lock'[j]
               PROVE  i = j
    OBVIOUS
  <2>1. i + 1 \in 1..Len(lock) /\ j + 1 \in 1..Len(lock) /\ lock[i + 1] = lock[j + 1]
    BY <1>1
  <2>2. i + 1 = j + 1
    BY <2>1 DEF IInv, LockInv
  <2> QED
    BY <1>1, <2>2
<1>3. \A y : Waits(y)' <=> Waits(y) /\ y # x
  <2> SUFFICES ASSUME NEW y PROVE Waits(y)' <=> Waits(y) /\ y # x
    OBVIOUS
  <2>1. ASSUME Waits(y)' PROVE Waits(y) /\ y # x
    <3>1. PICK i \in 1..Len(lock') : lock'[i] = y
      BY <2>1 DEF Waits
    <3>2. i + 1 \in 1..Len(lock) /\ i + 1 # 1 /\ lock[i + 1] = y /\ 1 \in 1..Len(lock)
      BY <1>1, <3>1
    <3> QED
      BY <3>2 DEF Waits, IInv, LockInv
  <2>2. ASSUME Waits(y), y # x PROVE Waits(y)'
    <3>1. PICK i \in 1..Len(lock) : lock[i] = y
      BY <2>2 DEF Waits
    <3>2. i - 1 \in 1..Len(lock') /\ lock'[i - 1] = lock[i]
      BY <1>1, <2>2, <3>1
    <3> QED
      BY <3>1, <3>2 DEF Waits
  <2> QED
    BY <2>1, <2>2
<1>4. \A c \in Calls : ~Active(c)'
  BY ConstantsOK DEF IInv, LockInv, Active
<1>5. closer'.at # "stopping"
  BY ConstantsOK DEF IInv, LockInv
<1> QED
  BY <1>1, <1>2, <1>3, <1>4, <1>5, ConstantsOK DEF IInv, LockInv

\* A call that waits gives up its place.
LEMMA LockIsLeft ==
  ASSUME IInv, NEW c \in Calls, call[c].at = "queued", call'[c].at = "ended",
         NEW k \in 1..Len(lock), lock[k] = c, lock' = RemoveAt(lock, k), closer'.at = closer.at,
         \A d \in Calls \ {c} : call'[d].at = call[d].at
  PROVE  LockInv'
<1>1. lock \in Seq(Calls \cup {Closer}) /\ Len(lock) \in Nat
  BY DEF IInv, LockInv
<1> DEFINE a == SubSeq(lock, 1, k - 1)
           b == SubSeq(lock, k + 1, Len(lock))
<1>2. /\ a \in Seq(Calls \cup {Closer}) /\ Len(a) = k - 1
      /\ \A i \in 1..(k - 1) : a[i] = lock[i]
  BY <1>1
<1>3. /\ b \in Seq(Calls \cup {Closer}) /\ Len(b) = Len(lock) - k
      /\ \A i \in 1..(Len(lock) - k) : b[i] = lock[k + i]
  BY <1>1
<1>4. lock' = a \o b
  BY DEF RemoveAt
<1> HIDE DEF a, b
<1>5. /\ lock' \in Seq(Calls \cup {Closer}) /\ Len(lock') = Len(lock) - 1
      /\ \A i \in 1..(Len(lock) - 1) : lock'[i] = IF i < k THEN lock[i] ELSE lock[i + 1]
  <2>1. lock' \in Seq(Calls \cup {Closer}) /\ Len(lock') = Len(lock) - 1
    BY <1>1, <1>2, <1>3, <1>4
  <2>2. ASSUME NEW i \in 1..(Len(lock) - 1), i < k PROVE lock'[i] = lock[i]
    BY <1>1, <1>2, <1>3, <1>4, <2>2
  <2>3. ASSUME NEW i \in 1..(Len(lock) - 1), ~(i < k) PROVE lock'[i] = lock[i + 1]
    <3>1. lock'[i] = b[i - (k - 1)] /\ i - (k - 1) \in 1..(Len(lock) - k)
      BY <1>1, <1>2, <1>3, <1>4, <2>3
    <3> QED
      BY <1>1, <1>3, <3>1
  <2> QED
    BY <2>1, <2>2, <2>3
<1>6. \A i, j \in 1..Len(lock) : lock[i] = lock[j] => i = j
  BY DEF IInv, LockInv
<1>7. \A i, j \in 1..Len(lock') : lock'[i] = lock'[j] => i = j
  <2> SUFFICES ASSUME NEW i \in 1..Len(lock'), NEW j \in 1..Len(lock'), lock'[i] = lock'[j]
               PROVE  i = j
    OBVIOUS
  <2> DEFINE old(n) == IF n < k THEN n ELSE n + 1
  <2>1. /\ old(i) \in 1..Len(lock) /\ lock'[i] = lock[old(i)]
        /\ old(j) \in 1..Len(lock) /\ lock'[j] = lock[old(j)]
    BY <1>1, <1>5
  <2>2. old(i) = old(j)
    BY ZenonT(60), <1>6, <2>1
  <2> QED
    BY <1>1, <2>2
<1>8. \A y : Waits(y)' <=> Waits(y) /\ y # c
  <2> SUFFICES ASSUME NEW y PROVE Waits(y)' <=> Waits(y) /\ y # c
    OBVIOUS
  <2>1. ASSUME Waits(y)' PROVE Waits(y) /\ y # c
    <3>1. PICK i \in 1..Len(lock') : lock'[i] = y
      BY <2>1 DEF Waits
    <3>2. PICK j \in 1..Len(lock) : lock[j] = y /\ j # k
      <4>1. i \in 1..(Len(lock) - 1)
        BY <1>5, <3>1
      <4>2. CASE i < k
        BY <1>1, <1>5, <3>1, <4>1, <4>2
      <4>3. CASE ~(i < k)
        <5>1. i + 1 \in 1..Len(lock) /\ i + 1 # k
          BY <1>1, <4>1, <4>3
        <5>2. lock'[i] = lock[i + 1]
          BY <1>5, <4>1, <4>3
        <5> QED
          BY <3>1, <5>1, <5>2
      <4> QED
        BY <4>2, <4>3
    <3> QED
      BY <1>6, <3>2 DEF Waits
  <2>2. ASSUME Waits(y), y # c PROVE Waits(y)'
    <3>1. PICK i \in 1..Len(lock) : lock[i] = y
      BY <2>2 DEF Waits
    <3>2. CASE i < k
      <4>1. i \in 1..Len(lock') /\ lock'[i] = y
        BY <1>1, <1>5, <3>1, <3>2
      <4> QED
        BY <4>1 DEF Waits
    <3>3. CASE i > k
      <4>1. i - 1 \in 1..(Len(lock) - 1) /\ ~(i - 1 < k) /\ (i - 1) + 1 = i
        BY <1>1, <3>1, <3>3
      <4>2. i - 1 \in 1..Len(lock') /\ lock'[i - 1] = y
        BY <1>5, <3>1, <4>1
      <4> QED
        BY <4>2 DEF Waits
    <3> QED
      BY <1>1, <2>2, <3>1, <3>2, <3>3
  <2> QED
    BY <2>1, <2>2
<1>9. \A d \in Calls : Active(d)' => Active(d) /\ lock'[1] = d
  <2> SUFFICES ASSUME NEW d \in Calls, Active(d)' PROVE Active(d) /\ lock'[1] = d
    OBVIOUS
  <2>1. Active(d) /\ d # c
    BY DEF Active
  <2>2. lock[1] = d /\ k # 1
    BY <2>1 DEF IInv, LockInv
  <2>3. 1 < k /\ 1 \in 1..(Len(lock) - 1)
    BY <1>1, <2>2
  <2> QED
    BY <1>5, <2>1, <2>2, <2>3
<1>10. closer'.at = "stopping" => lock'[1] = Closer
  <2> SUFFICES ASSUME closer.at = "stopping" PROVE lock'[1] = Closer
    OBVIOUS
  <2>1. lock[1] = Closer /\ k # 1
    BY ConstantsOK DEF IInv, LockInv
  <2>2. 1 < k /\ 1 \in 1..(Len(lock) - 1)
    BY <1>1, <2>1
  <2> QED
    BY <1>5, <2>1, <2>2
<1>11. \A d \in Calls : call'[d].at \notin {"none", "ended"} <=> Waits(d)'
  BY <1>8 DEF IInv, LockInv
<1>12. closer'.at \in {"queued", "stopping"} <=> Waits(Closer)'
  BY <1>8, ConstantsOK DEF IInv, LockInv
<1> QED
  BY <1>5, <1>7, <1>9, <1>10, <1>11, <1>12 DEF LockInv

-----------------------------------------------------------------------------
(* Records.                                                                *)

CallShape ==
  /\ call = [c \in Calls |-> call[c]]
  /\ \A c \in Calls : call[c] = [kind |-> call[c].kind, at |-> call[c].at,
                                 context |-> call[c].context, heard |-> call[c].heard]

OwnerShape ==
  owner = [client |-> owner.client, session |-> owner.session, metadata |-> owner.metadata,
           snapshot |-> owner.snapshot, closed |-> owner.closed,
           uncertain |-> owner.uncertain, history |-> owner.history,
           retired |-> owner.retired]

CodexShape ==
  codex = [boot |-> codex.boot, reader |-> codex.reader, turn |-> codex.turn,
           retired |-> codex.retired]

RuntimeShape ==
  runtime = [alive |-> runtime.alive, made |-> runtime.made, running |-> runtime.running,
             said |-> runtime.said, thread |-> runtime.thread,
             requests |-> runtime.requests, lines |-> runtime.lines]

LEMMA ShapeParts ==
  /\ Shape <=> /\ CallShape /\ OwnerShape /\ CodexShape /\ RuntimeShape
               /\ closer = [at |-> closer.at, awaits |-> closer.awaits]
               /\ lost = [cut |-> lost.cut, forgotten |-> lost.forgotten]
  /\ Shape' <=> /\ CallShape' /\ OwnerShape' /\ CodexShape' /\ RuntimeShape'
                /\ closer' = [at |-> closer'.at, awaits |-> closer'.awaits]
                /\ lost' = [cut |-> lost'.cut, forgotten |-> lost'.forgotten]
BY DEF Shape, CallShape, OwnerShape, CodexShape, RuntimeShape

LEMMA MoveOfCall ==
  ASSUME Shape, NEW c \in Calls, NEW at, Moves(c, at)
  PROVE  /\ CallShape' /\ call'[c].at = at /\ call'[c].kind = call[c].kind
         /\ \A d \in Calls \ {c} : call'[d] = call[d]
BY DEF Shape, CallShape, Moves

\* The fields of the adapter that the invariant reads.
OwnerIs(client, session, metadata, closed, uncertain) ==
  /\ owner'.client = client /\ owner'.session = session /\ owner'.metadata = metadata
  /\ owner'.closed = closed /\ owner'.uncertain = uncertain
  /\ OwnerShape'

LEMMA OwnerStays ==
  ASSUME Shape
  PROVE  /\ owner' = owner =>
              OwnerIs(owner.client, owner.session, owner.metadata, owner.closed, owner.uncertain)
         /\ \A x : owner' = [owner EXCEPT !.snapshot = x] =>
              OwnerIs(owner.client, owner.session, owner.metadata, owner.closed, owner.uncertain)
         /\ owner' = [owner EXCEPT !.client = TRUE] =>
              OwnerIs(TRUE, owner.session, owner.metadata, owner.closed, owner.uncertain)
         /\ owner' = [owner EXCEPT !.client = FALSE] =>
              OwnerIs(FALSE, owner.session, owner.metadata, owner.closed, owner.uncertain)
         /\ owner' = [owner EXCEPT !.metadata = TRUE] =>
              OwnerIs(owner.client, owner.session, TRUE, owner.closed, owner.uncertain)
         /\ owner' = [owner EXCEPT !.session = TRUE] =>
              OwnerIs(owner.client, TRUE, owner.metadata, owner.closed, owner.uncertain)
         /\ owner' = [owner EXCEPT !.closed = TRUE] =>
              OwnerIs(owner.client, owner.session, owner.metadata, TRUE, owner.uncertain)
         /\ owner' = [owner EXCEPT !.uncertain = TRUE] =>
              OwnerIs(owner.client, owner.session, owner.metadata, owner.closed, TRUE)
<1>1. OwnerShape
  BY ShapeParts
<1> QED
  BY <1>1 DEF OwnerShape, OwnerIs

\* Dropping a runtime keeps the client and whether its process lives.
LEMMA DropOfOwner ==
  ASSUME Shape, NEW o, Drops(o),
         o = [client |-> o.client, session |-> o.session, metadata |-> o.metadata,
              snapshot |-> o.snapshot, closed |-> o.closed, uncertain |-> o.uncertain,
              history |-> o.history, retired |-> o.retired]
  PROVE  /\ OwnerIs(o.client, FALSE, FALSE, o.closed, o.uncertain)
         /\ CodexShape' /\ RuntimeShape' /\ runtime'.alive = runtime.alive
BY DEF Drops, OwnerIs, OwnerShape, CodexShape, RuntimeShape, NoCodex, Launched, NoProcess,
       NewProcess

LEMMA OwnerFields ==
  ASSUME NEW client, NEW session, NEW metadata, NEW closed, NEW uncertain,
         OwnerIs(client, session, metadata, closed, uncertain)
  PROVE  /\ owner'.client = client /\ owner'.session = session /\ owner'.metadata = metadata
         /\ owner'.closed = closed /\ owner'.uncertain = uncertain /\ OwnerShape'
BY DEF OwnerIs

-----------------------------------------------------------------------------
(* Frames.                                                                 *)

\* Steps of which no call that is past the wait takes part, and none that close() has in its
\* stop: the process may die, or live on while it has an owner.
LEMMA QuietFrame ==
  ASSUME IInv, Shape', LockInv',
         \A c \in Calls : Active(c) \/ Active(c)' => call'[c].at = call[c].at,
         closer'.at # closer.at =>
           closer.at \notin {"stopping", "done"} /\ closer'.at \in {"streams", "queued"},
         closer'.at # "none" => owner'.closed,
         owner'.client = owner.client, owner'.session = owner.session,
         owner'.metadata = owner.metadata, owner'.uncertain = owner.uncertain,
         (\E c \in Calls : call[c].at = "starting") => codex'.boot = codex.boot,
         runtime'.alive => owner.client,
         lost' = lost
  PROVE  IInv'
<1>1. \A c \in Calls : /\ Active(c)' <=> Active(c)
                       /\ \A at \in {"starting", "stopping", "ready"} \cup Subscribed :
                            call'[c].at = at <=> call[c].at = at
  BY DEF Active, Subscribed, Settling
<1>2. StagesAgree'
  BY <1>1 DEF IInv, StagesAgree
<1>3. ClientInv'
  BY <1>1 DEF IInv, ClientInv
<1> QED
  BY <1>2, <1>3 DEF IInv

\* A client that nobody starts or stops has a session, is poisoned, or its stop was cut short.
LEMMA AtRest ==
  ASSUME IInv, NEW c \in Calls, Alone(c), call[c].at \notin {"starting", "stopping"}, owner.client
  PROVE  owner.session \/ owner.uncertain \/ lost.cut
BY DEF IInv, ClientInv, Alone, Active

\* A step of the call that holds the lock, which goes on or leaves.
LEMMA HolderFrame ==
  ASSUME IInv, NEW c \in Calls, Active(c) \/ (Holds(c) /\ call[c].at = "queued"),
         Shape', closer'.at = closer.at,
         \A d \in Calls \ {c} : call'[d].at = call[d].at,
         \/ lock' = lock /\ Active(c)'
         \/ lock' = Tail(lock) /\ call'[c].at = "ended",
         Active(c)' => Active(c) \/ ~owner.closed,
         call'[c].at = "starting" =>
           owner'.client /\ ~owner'.session /\ (codex'.boot = "opening" => owner'.metadata),
         call'[c].at = "stopping" => ~owner'.session,
         owner'.closed = owner.closed,
         closer.at = "done" => owner' = owner,
         runtime'.alive => owner'.client,
         owner'.session => owner'.client /\ owner'.metadata,
         owner'.client => \/ owner'.session \/ owner'.uncertain \/ lost'.cut
                          \/ call'[c].at \in {"starting", "stopping"},
         lost'.forgotten => lost'.cut,
         owner'.uncertain => call'[c].at \notin {"starting", "ready"} \cup Subscribed
  PROVE  IInv'
<1>1. Alone(c) /\ lock # <<>> /\ lock[1] = c
  BY HolderIsAlone
<1>2. LockInv'
  <2>1. CASE lock' = lock /\ Active(c)'
    <3>1. \A d \in Calls : call'[d].at \in {"none", "ended"} <=> call[d].at \in {"none", "ended"}
      BY <2>1 DEF Active
    <3>2. \A d \in Calls : Active(d)' => Active(d) \/ Holds(d)
      BY <1>1, <2>1 DEF Active, Holds
    <3> QED
      BY <2>1, <3>1, <3>2, LockStays
  <2>2. CASE lock' = Tail(lock) /\ call'[c].at = "ended"
    BY <1>1, <2>2, ConstantsOK, LockIsFreed
  <2> QED
    BY <2>1, <2>2
<1>3. \A d \in Calls \ {c} :
        /\ ~Active(d) /\ ~Active(d)'
        /\ call'[d].at \notin {"starting", "stopping", "ready"} \cup Subscribed
  BY <1>1 DEF Alone, Active, Subscribed, Settling
<1>4. closer.at # "stopping" /\ (closer.at = "done" => ~Active(c) /\ ~Active(c)')
  BY <1>1 DEF Alone, IInv, StagesAgree
<1>5. StagesAgree'
  BY <1>3, <1>4 DEF IInv, StagesAgree
<1>6. ClientInv'
  BY <1>3, <1>4 DEF IInv, ClientInv
<1> QED
  BY <1>2, <1>5, <1>6 DEF IInv

-----------------------------------------------------------------------------
(* The callers, and what close() does before it has the lock.              *)

LEMMA FreeCallIsFree ==
  ASSUME NEW c \in Calls, c = FreeCall
  PROVE  call[c].at = "none"
BY ConstantsOK DEF FreeCall

\* A call that begins, joins the queue.
LEMMA CallJoins ==
  ASSUME IInv, NEW c \in Calls, call[c].at = "none", NEW kind, NEW context,
         call' = [call EXCEPT ![c] = NewCall(kind, "queued", context)],
         lock' = Append(lock, c), UNCHANGED <<owner, closer, codex, runtime, lost>>
  PROVE  IInv'
<1>1. Shape /\ CallShape /\ ~Waits(c)
  BY ShapeParts DEF IInv, LockInv
<1>2. /\ CallShape' /\ call'[c].at = "queued"
      /\ \A d \in Calls \ {c} : call'[d] = call[d]
  BY <1>1 DEF CallShape, NewCall
<1>3. Shape'
  BY <1>1, <1>2, ShapeParts DEF OwnerShape, CodexShape, RuntimeShape
<1>4. LockInv'
  BY <1>1, <1>2, ConstantsOK, LockGrows
<1>5. \A d \in Calls : Active(d) \/ Active(d)' => call'[d].at = call[d].at
  BY <1>2 DEF Active
<1> QED
  BY <1>3, <1>4, <1>5, QuietFrame DEF IInv, StagesAgree, ClientInv

LEMMA CallerKeeps ==
  ASSUME IInv, NEW c \in Calls,
         Chats(c) \/ (\E kind \in {"validate", "models"} : Asks(c, kind)) \/ Commits(c)
  PROVE  IInv'
<1>1. CASE Chats(c)
  <2>1. PICK context : call' = [call EXCEPT ![c] = NewCall("chat", "queued", context)]
    BY <1>1 DEF Chats
  <2> QED
    BY <1>1, <2>1, FreeCallIsFree, CallJoins DEF Chats
<1>2. ASSUME NEW kind \in {"validate", "models"}, Asks(c, kind) PROVE IInv'
  BY <1>2, FreeCallIsFree, CallJoins DEF Asks
<1>3. CASE Commits(c)
  <2>1. /\ call[c].at = "ended" /\ UNCHANGED <<lock, owner, closer, codex, runtime, lost>>
        /\ call' = [call EXCEPT ![c] = NewCall("chat", "none", <<>>)]
    BY <1>3 DEF Commits
  <2>2. Shape /\ CallShape
    BY ShapeParts DEF IInv
  <2>3. /\ CallShape' /\ call'[c].at = "none"
        /\ \A d \in Calls \ {c} : call'[d] = call[d]
    BY <2>1, <2>2 DEF CallShape, NewCall
  <2>4. Shape'
    BY <2>1, <2>2, <2>3, ShapeParts DEF OwnerShape, CodexShape, RuntimeShape
  <2>5. \A d \in Calls : Active(d) \/ Active(d)' => call'[d].at = call[d].at
    BY <2>1, <2>3 DEF Active
  <2>6. \A d \in Calls : call'[d].at \in {"none", "ended"} <=> call[d].at \in {"none", "ended"}
    BY <2>1, <2>3
  <2>7. LockInv'
    BY <2>1, <2>5, <2>6, LockStays DEF Active
  <2> QED
    BY <2>1, <2>4, <2>5, <2>7, QuietFrame DEF IInv, StagesAgree, ClientInv
<1> QED
  BY <1>1, <1>2, <1>3

\* The steps of close() outside the lock.
LEMMA CloseOutsideKeeps ==
  ASSUME IInv, CloseBegins \/ CloseAwaited \/ CloseQueues
  PROVE  IInv'
<1>1. Shape /\ closer = [at |-> closer.at, awaits |-> closer.awaits] /\ OwnerShape
  BY ShapeParts DEF IInv
<1>2. UNCHANGED <<call, codex, runtime, lost>>
  BY DEF CloseBegins, CloseAwaited, CloseQueues
<1>3. /\ CallShape' /\ CodexShape' /\ RuntimeShape'
      /\ lost' = [cut |-> lost'.cut, forgotten |-> lost'.forgotten]
  BY <1>1, <1>2, ShapeParts DEF CallShape, CodexShape, RuntimeShape
<1>4. CASE CloseBegins
  <2>1. /\ closer' = [closer EXCEPT !.at = "streams"] /\ closer.at = "none"
        /\ owner' = [owner EXCEPT !.closed = TRUE] /\ lock' = lock
    BY <1>4 DEF CloseBegins
  <2>2. OwnerIs(owner.client, owner.session, owner.metadata, TRUE, owner.uncertain)
    BY <1>1, <2>1, OwnerStays
  <2>3. closer'.at = "streams" /\ closer' = [at |-> closer'.at, awaits |-> closer'.awaits]
    BY <1>1, <2>1
  <2>4. Shape'
    BY <1>3, <2>2, <2>3, ShapeParts, OwnerFields
  <2>5. LockInv'
    BY <1>2, <2>1, <2>3 DEF IInv, LockInv, Waits, Active
  <2> QED
    BY <1>2, <2>1, <2>2, <2>3, <2>4, <2>5, OwnerFields, QuietFrame DEF IInv, ClientInv
<1>5. CASE CloseAwaited
  <2>1. closer' = [closer EXCEPT !.awaits = NoCall] /\ owner' = owner /\ lock' = lock
    BY <1>5 DEF CloseAwaited
  <2>2. closer'.at = closer.at /\ closer' = [at |-> closer'.at, awaits |-> closer'.awaits]
    BY <1>1, <2>1
  <2>3. Shape'
    BY <1>1, <1>3, <2>1, <2>2, ShapeParts DEF OwnerShape
  <2>4. LockInv'
    BY <1>2, <2>1, <2>2, LockStays DEF Active
  <2> QED
    BY <1>2, <2>1, <2>2, <2>3, <2>4, QuietFrame DEF IInv, StagesAgree, ClientInv
<1>6. CASE CloseQueues
  <2>1. /\ closer' = [closer EXCEPT !.at = "queued"] /\ closer.at = "streams"
        /\ owner' = owner /\ lock' = Append(lock, Closer)
    BY <1>6 DEF CloseQueues
  <2>2. closer'.at = "queued" /\ closer' = [at |-> closer'.at, awaits |-> closer'.awaits]
    BY <1>1, <2>1
  <2>3. Shape'
    BY <1>1, <1>3, <2>1, <2>2, ShapeParts DEF OwnerShape
  <2>4. LockInv'
    <3>1. ~Waits(Closer)
      BY <2>1 DEF IInv, LockInv
    <3> QED
      BY <1>2, <2>1, <2>2, <3>1, ConstantsOK, LockGrows
  <2> QED
    BY <1>2, <2>1, <2>2, <2>3, <2>4, QuietFrame DEF IInv, StagesAgree, ClientInv, Active
<1> QED
  BY <1>4, <1>5, <1>6

-----------------------------------------------------------------------------
(* The reader task and the process.                                        *)

\* The codex record n is of the process that starts as the present one.
IsCodex(n) ==
  n = [boot |-> codex.boot, reader |-> n.reader, turn |-> n.turn, retired |-> n.retired]

LEMMA CodexStays ==
  ASSUME Shape
  PROVE  /\ IsCodex(codex) /\ IsCodex(Sent)
         /\ \A x, y : IsCodex([codex EXCEPT !.turn = x, !.retired = y])
         /\ \A x : IsCodex([codex EXCEPT !.turn = x]) /\ IsCodex([codex EXCEPT !.reader = x])
<1>1. CodexShape
  BY ShapeParts
<1>2. \A x : IsCodex([codex EXCEPT !.turn = x])
  BY <1>1 DEF CodexShape, IsCodex
<1>3. \A x : IsCodex([codex EXCEPT !.reader = x])
  BY <1>1 DEF CodexShape, IsCodex
<1>4. ASSUME NEW x, NEW y PROVE IsCodex([codex EXCEPT !.turn = x, !.retired = y])
  <2> DEFINE n == [codex EXCEPT !.turn = x]
  <2>1. n = [boot |-> codex.boot, reader |-> codex.reader, turn |-> x, retired |-> codex.retired]
    BY <1>1 DEF CodexShape
  <2>2. [codex EXCEPT !.turn = x, !.retired = y] = [n EXCEPT !.retired = y]
    OBVIOUS
  <2> HIDE DEF n
  <2>3. [n EXCEPT !.retired = y]
          = [boot |-> codex.boot, reader |-> codex.reader, turn |-> x, retired |-> y]
    BY <2>1
  <2> QED
    BY <2>2, <2>3 DEF IsCodex
<1>5. IsCodex(codex)
  BY <1>1 DEF CodexShape, IsCodex
<1>6. IsCodex(Sent)
  BY <1>2, <1>5 DEF Sent
<1> QED
  BY <1>2, <1>3, <1>4, <1>5, <1>6

\* The process r is the present one, which lives or not.
IsProcess(r, alive) ==
  r = [alive |-> alive, made |-> r.made, running |-> r.running, said |-> r.said,
       thread |-> r.thread, requests |-> r.requests, lines |-> r.lines]

LEMMA ProcessStays ==
  ASSUME Shape
  PROVE  /\ IsProcess(runtime, runtime.alive)
         /\ \A x : /\ IsProcess([runtime EXCEPT !.lines = x], runtime.alive)
                   /\ IsProcess([runtime EXCEPT !.requests = x], runtime.alive)
                   /\ IsProcess([runtime EXCEPT !.said = x], runtime.alive)
<1>1. RuntimeShape
  BY ShapeParts
<1>2. IsProcess(runtime, runtime.alive)
  BY <1>1 DEF RuntimeShape, IsProcess
<1>3. \A x : IsProcess([runtime EXCEPT !.lines = x], runtime.alive)
  BY <1>1 DEF RuntimeShape, IsProcess
<1>4. \A x : IsProcess([runtime EXCEPT !.requests = x], runtime.alive)
  BY <1>1 DEF RuntimeShape, IsProcess
<1>5. \A x : IsProcess([runtime EXCEPT !.said = x], runtime.alive)
  BY <1>1 DEF RuntimeShape, IsProcess
<1> QED
  BY <1>2, <1>3, <1>4, <1>5

LEMMA ProcessField ==
  ASSUME NEW r, NEW alive, IsProcess(r, alive), NEW x
  PROVE  /\ IsProcess([r EXCEPT !.made = x], alive) /\ IsProcess([r EXCEPT !.running = x], alive)
         /\ IsProcess([r EXCEPT !.said = x], alive) /\ IsProcess([r EXCEPT !.thread = x], alive)
         /\ IsProcess([r EXCEPT !.lines = x], alive) /\ IsProcess([r EXCEPT !.requests = x], alive)
<1>1. IsProcess([r EXCEPT !.made = x], alive)
  BY DEF IsProcess
<1>2. IsProcess([r EXCEPT !.running = x], alive)
  BY DEF IsProcess
<1>3. IsProcess([r EXCEPT !.said = x], alive)
  BY DEF IsProcess
<1>4. IsProcess([r EXCEPT !.thread = x], alive)
  BY DEF IsProcess
<1>5. IsProcess([r EXCEPT !.lines = x], alive)
  BY DEF IsProcess
<1>6. IsProcess([r EXCEPT !.requests = x], alive)
  BY DEF IsProcess
<1> QED
  BY <1>1, <1>2, <1>3, <1>4, <1>5, <1>6

LEMMA ProcessFields ==
  ASSUME NEW r, NEW alive, IsProcess(r, alive), NEW m, NEW n, NEW k, NEW t
  PROVE  /\ IsProcess([r EXCEPT !.running = n, !.said = k, !.thread = t], alive)
         /\ IsProcess([r EXCEPT !.made = m, !.running = n, !.said = k, !.thread = t], alive)
<1>1. ASSUME NEW q, IsProcess(q, alive)
      PROVE  IsProcess([q EXCEPT !.running = n, !.said = k, !.thread = t], alive)
  <2> DEFINE a == [q EXCEPT !.running = n]
             b == [a EXCEPT !.said = k]
  <2>1. IsProcess(a, alive)
    BY <1>1, ProcessField
  <2>2. [q EXCEPT !.running = n, !.said = k, !.thread = t] = [b EXCEPT !.thread = t]
    OBVIOUS
  <2> HIDE DEF a
  <2>3. IsProcess(b, alive)
    BY <2>1, ProcessField
  <2> HIDE DEF b
  <2> QED
    BY <2>2, <2>3, ProcessField
<1> DEFINE e == [r EXCEPT !.made = m]
<1>2. [r EXCEPT !.made = m, !.running = n, !.said = k, !.thread = t]
        = [e EXCEPT !.running = n, !.said = k, !.thread = t]
  OBVIOUS
<1>3. IsProcess(e, alive)
  BY ProcessField
<1> HIDE DEF e
<1> QED
  BY <1>1, <1>2, <1>3

\* What leaves the calls, the adapter and close() alone, and the process as live as it was or
\* with an owner.
LEMMA OutsideKeeps ==
  ASSUME IInv, UNCHANGED <<lock, owner, closer, call, lost>>, IsCodex(codex'),
         NEW alive, IsProcess(runtime', alive), alive => owner.client
  PROVE  IInv'
<1>1. Shape /\ CallShape /\ OwnerShape /\ closer = [at |-> closer.at, awaits |-> closer.awaits]
      /\ lost = [cut |-> lost.cut, forgotten |-> lost.forgotten]
  BY ShapeParts DEF IInv
<1>2. CodexShape' /\ codex'.boot = codex.boot
  BY DEF IsCodex, CodexShape
<1>3. RuntimeShape' /\ runtime'.alive = alive
  BY DEF IsProcess, RuntimeShape
<1>4. Shape'
  BY <1>1, <1>2, <1>3, ShapeParts DEF CallShape, OwnerShape
<1>5. LockInv'
  BY LockStays DEF Active
<1> QED
  BY <1>2, <1>3, <1>4, <1>5, QuietFrame DEF IInv, StagesAgree, Active

LEMMA ReaderKeeps ==
  ASSUME IInv, ReaderStep
  PROVE  IInv'
<1>1. Shape /\ (owner.session => owner.client) /\ (runtime.alive => owner.client)
  BY DEF IInv, ClientInv
<1>2. CASE ReadsAnswer
  <2>1. /\ UNCHANGED <<lock, owner, closer, call, codex, lost>>
        /\ runtime' = [runtime EXCEPT !.lines = Tail(@)]
    BY <1>2 DEF ReadsAnswer, Reads
  <2>2. IsProcess(runtime', runtime.alive) /\ IsCodex(codex')
    BY <1>1, <2>1, ProcessStays, CodexStays
  <2> QED
    BY <1>1, <2>1, <2>2, OutsideKeeps
<1>3. CASE ReadsNotice
  <2>1. /\ UNCHANGED <<lock, owner, closer, call, lost>>
        /\ runtime' = [runtime EXCEPT !.lines = Tail(@)]
    BY <1>3 DEF ReadsNotice, Reads
  <2>2. \/ codex' = codex
        \/ \E x : codex' = [codex EXCEPT !.turn = x]
        \/ \E x, y : codex' = [codex EXCEPT !.turn = x, !.retired = y]
    BY <1>3, Zenon DEF ReadsNotice
  <2>3. IsCodex(codex')
    <3>1. CASE codex' = codex
      BY <1>1, <3>1, CodexStays
    <3>2. ASSUME NEW x, codex' = [codex EXCEPT !.turn = x] PROVE IsCodex(codex')
      BY <1>1, <3>2, CodexStays, Zenon
    <3>3. ASSUME NEW x, NEW y, codex' = [codex EXCEPT !.turn = x, !.retired = y]
          PROVE  IsCodex(codex')
      BY <1>1, <3>3, CodexStays, Zenon
    <3> QED
      BY <2>2, <3>1, <3>2, <3>3
  <2>4. IsProcess(runtime', runtime.alive)
    BY <1>1, <2>1, ProcessStays
  <2> QED
    BY <1>1, <2>1, <2>3, <2>4, OutsideKeeps
<1>4. CASE ReaderEnds
  <2>1. /\ UNCHANGED <<lock, owner, closer, call, lost>> /\ owner.session
        /\ codex' = [codex EXCEPT !.reader = FALSE]
    BY <1>4 DEF ReaderEnds
  <2>2. PICK alive \in BOOLEAN :
          runtime' = [runtime EXCEPT !.alive = alive, !.requests = <<>>, !.lines = <<>>]
    BY <1>4 DEF ReaderEnds
  <2>3. IsProcess(runtime', alive) /\ IsCodex(codex')
    <3>1. RuntimeShape
      BY <1>1, ShapeParts
    <3> QED
      BY <1>1, <2>1, <2>2, <3>1, CodexStays DEF RuntimeShape, IsProcess
  <2> QED
    BY <1>1, <2>1, <2>3, OutsideKeeps
<1> QED
  BY <1>2, <1>3, <1>4 DEF ReaderStep

LEMMA WritesKeeps ==
  ASSUME IInv, NEW r, NEW lines, Writes(r, lines), IsProcess(r, runtime.alive)
  PROVE  IInv'
<1>1. UNCHANGED <<lock, owner, closer, call, codex, lost>>
  BY DEF Writes
<1>2. IsProcess(runtime', runtime.alive)
  BY ProcessField DEF Writes
<1>3. IsCodex(codex') /\ (runtime.alive => owner.client)
  BY <1>1, CodexStays DEF IInv, ClientInv
<1> QED
  BY <1>1, <1>2, <1>3, OutsideKeeps

LEMMA RuntimeKeeps ==
  ASSUME IInv, RuntimeStep
  PROVE  IInv'
<1>1. Shape /\ RuntimeShape
  BY ShapeParts DEF IInv
<1>2. IsProcess(runtime, runtime.alive) /\ IsProcess(Handled, runtime.alive)
  BY <1>1, ProcessStays DEF Handled
<1>3. \A r, said : IsProcess(r, runtime.alive) => IsProcess(Over(r, said), runtime.alive)
  BY ProcessFields DEF Over
<1>4. CASE RuntimeStarts
  <2> DEFINE request == Head(runtime.requests)
             n == runtime.made + 1
             started == [Handled EXCEPT !.made = n, !.running = n, !.said = 0,
               !.thread = IF request.replace THEN request.messages ELSE @ \o request.messages]
  <2>1. PICK lines : Writes(started, lines)
    BY <1>4 DEF RuntimeStarts
  <2>2. IsProcess(started, runtime.alive)
    BY <1>2, ProcessFields
  <2> QED
    BY <2>1, <2>2, WritesKeeps
<1>5. CASE RuntimeRejects \/ RuntimeUsesTool \/ RuntimeIsLate
  BY <1>2, <1>5, WritesKeeps DEF RuntimeRejects, RuntimeUsesTool, RuntimeIsLate
<1>6. CASE RuntimeSpeaks
  BY <1>1, <1>6, ProcessStays, WritesKeeps DEF RuntimeSpeaks
<1>7. CASE RuntimeCompletes
  BY <1>2, <1>3, <1>7, WritesKeeps DEF RuntimeCompletes
<1>8. CASE RuntimeFails
  BY <1>2, <1>3, <1>8, WritesKeeps DEF RuntimeFails
<1>9. CASE RuntimeInterrupts
  BY <1>2, <1>3, <1>9, WritesKeeps DEF RuntimeInterrupts
<1> QED
  BY <1>4, <1>5, <1>6, <1>7, <1>8, <1>9 DEF RuntimeStep

-----------------------------------------------------------------------------
(* What the steps of the holder have in common.                            *)

\* The adapter o has the runtime of the present one.
IsOwner(o, uncertain) ==
  o = [client |-> owner.client, session |-> owner.session, metadata |-> owner.metadata,
       snapshot |-> o.snapshot, closed |-> owner.closed, uncertain |-> uncertain,
       history |-> o.history, retired |-> o.retired]

LEMMA OwnerField ==
  ASSUME NEW o, NEW u, IsOwner(o, u), NEW x
  PROVE  /\ IsOwner([o EXCEPT !.snapshot = x], u) /\ IsOwner([o EXCEPT !.history = x], u)
         /\ IsOwner([o EXCEPT !.retired = x], u) /\ IsOwner([o EXCEPT !.uncertain = x], x)
<1>1. IsOwner([o EXCEPT !.snapshot = x], u)
  BY DEF IsOwner
<1>2. IsOwner([o EXCEPT !.history = x], u)
  BY DEF IsOwner
<1>3. IsOwner([o EXCEPT !.retired = x], u)
  BY DEF IsOwner
<1>4. IsOwner([o EXCEPT !.uncertain = x], x)
  <2>1. [o EXCEPT !.uncertain = x]
          = [client |-> owner.client, session |-> owner.session, metadata |-> owner.metadata,
             snapshot |-> o.snapshot, closed |-> owner.closed, uncertain |-> x,
             history |-> o.history, retired |-> o.retired]
    BY DEF IsOwner
  <2> QED
    BY <2>1 DEF IsOwner
<1> QED
  BY <1>1, <1>2, <1>3, <1>4

LEMMA OwnerIsOwner ==
  ASSUME Shape
  PROVE  IsOwner(owner, owner.uncertain)
<1>1. OwnerShape
  BY ShapeParts
<1> QED
  BY <1>1 DEF OwnerShape, IsOwner

LEMMA FieldsOfOwner ==
  ASSUME NEW u, IsOwner(owner', u)
  PROVE  OwnerIs(owner.client, owner.session, owner.metadata, owner.closed, u)
BY DEF IsOwner, OwnerIs, OwnerShape

\* close() stays where it is; the stream that it awaits may be another.
CloserStays == closer'.at = closer.at /\ closer' = [at |-> closer'.at, awaits |-> closer'.awaits]

\* The holder drops the runtime and begins to stop it.
LEMMA StopsKeeps ==
  ASSUME IInv, NEW c \in Calls, Active(c) \/ (Holds(c) /\ call[c].at = "queued"),
         Active(c) \/ ~owner.closed, NEW o, NEW u, IsOwner(o, u), u \/ u = owner.uncertain,
         Stops(c, o), UNCHANGED <<lock, lost>>, closer' = closer \/ CloserStays
  PROVE  IInv'
<1>1. Shape /\ CloserStays
      /\ lost = [cut |-> lost.cut, forgotten |-> lost.forgotten]
  BY ShapeParts DEF IInv, CloserStays
<1>2. /\ OwnerIs(owner.client, FALSE, FALSE, owner.closed, u)
      /\ CodexShape' /\ RuntimeShape' /\ runtime'.alive = runtime.alive
  <2>1. /\ o = [client |-> o.client, session |-> o.session, metadata |-> o.metadata,
                snapshot |-> o.snapshot, closed |-> o.closed, uncertain |-> o.uncertain,
                history |-> o.history, retired |-> o.retired]
        /\ o.client = owner.client /\ o.closed = owner.closed /\ o.uncertain = u
    BY DEF IsOwner
  <2>2. Drops(o)
    BY DEF Stops
  <2> QED
    BY <1>1, <2>1, <2>2, DropOfOwner
<1>3. /\ CallShape' /\ call'[c].at = "stopping"
      /\ \A d \in Calls \ {c} : call'[d] = call[d]
  BY <1>1, MoveOfCall DEF Stops
<1>4. Shape'
  BY <1>1, <1>2, <1>3, ShapeParts, OwnerFields DEF CloserStays
<1>5. /\ owner'.client = owner.client /\ owner'.session = FALSE /\ owner'.closed = owner.closed
  BY ZenonT(60), <1>2, OwnerFields
<1>6. closer.at # "done"
  BY DEF IInv, StagesAgree
<1>7. (runtime.alive => owner.client) /\ (lost.forgotten => lost.cut)
  BY DEF IInv, ClientInv
<1>8. Active(c)'
  BY <1>3 DEF Active
<1> QED
  BY <1>1, <1>2, <1>3, <1>4, <1>5, <1>6, <1>7, <1>8, HolderFrame
     DEF Subscribed, Settling, CloserStays

\* The holder leaves with nothing started.
LEMMA LeavesKeeps ==
  ASSUME IInv, NEW c \in Calls, Active(c) \/ (Holds(c) /\ call[c].at = "queued"),
         call[c].at \notin {"starting", "stopping"},
         IsOwner(owner', owner.uncertain), Active(c) \/ owner' = owner,
         Leaves(c), UNCHANGED <<closer, codex, runtime, lost>>
  PROVE  IInv'
<1>1. Shape /\ closer = [at |-> closer.at, awaits |-> closer.awaits] /\ CodexShape /\ RuntimeShape
      /\ lost = [cut |-> lost.cut, forgotten |-> lost.forgotten]
  BY ShapeParts DEF IInv
<1>2. OwnerIs(owner.client, owner.session, owner.metadata, owner.closed, owner.uncertain)
  BY FieldsOfOwner
<1>3. /\ CallShape' /\ call'[c].at = "ended"
      /\ \A d \in Calls \ {c} : call'[d] = call[d]
  BY <1>1, MoveOfCall DEF Leaves
<1>4. Shape'
  BY <1>1, <1>2, <1>3, ShapeParts, OwnerFields DEF CodexShape, RuntimeShape
<1>5. owner.client => owner.session \/ owner.uncertain \/ lost.cut
  BY HolderIsAlone, AtRest
<1>6. closer.at = "done" => owner' = owner
  BY DEF IInv, StagesAgree
<1>7. /\ runtime.alive => owner.client
      /\ owner.session => owner.client /\ owner.metadata
      /\ lost.forgotten => lost.cut
  BY DEF IInv, ClientInv
<1>8. lock' = Tail(lock) /\ ~Active(c)'
  BY <1>3 DEF Leaves, Active
<1> QED
  BY <1>2, <1>3, <1>4, <1>5, <1>6, <1>7, <1>8, OwnerFields, HolderFrame DEF Subscribed, Settling

\* The holder goes on with its turn.
LEMMA TurnGoesOn ==
  ASSUME IInv, NEW c \in Calls, Active(c) \/ (Holds(c) /\ call[c].at = "queued" /\ ~owner.closed),
         call[c].at \notin {"starting", "stopping"}, ~owner.uncertain,
         CallShape', call'[c].at \in Subscribed, \A d \in Calls \ {c} : call'[d] = call[d],
         IsOwner(owner', owner.uncertain), IsCodex(codex'), IsProcess(runtime', runtime.alive),
         UNCHANGED <<lock, lost>>, closer' = closer \/ CloserStays
  PROVE  IInv'
<1>1. Shape /\ CloserStays
      /\ lost = [cut |-> lost.cut, forgotten |-> lost.forgotten]
  BY ShapeParts DEF IInv, CloserStays
<1>2. OwnerIs(owner.client, owner.session, owner.metadata, owner.closed, owner.uncertain)
  BY FieldsOfOwner
<1>3. CodexShape' /\ RuntimeShape' /\ runtime'.alive = runtime.alive
  BY DEF IsCodex, CodexShape, IsProcess, RuntimeShape
<1>4. Shape'
  BY <1>1, <1>2, <1>3, ShapeParts, OwnerFields DEF CloserStays
<1>5. owner.client => owner.session \/ owner.uncertain \/ lost.cut
  BY HolderIsAlone, AtRest
<1>6. closer.at # "done"
  BY DEF IInv, StagesAgree
<1>7. /\ runtime.alive => owner.client
      /\ owner.session => owner.client /\ owner.metadata
      /\ lost.forgotten => lost.cut
  BY DEF IInv, ClientInv
<1>8. Active(c)' /\ call'[c].at \notin {"starting", "stopping", "ended"}
  BY DEF Active, Subscribed, Settling
<1> QED
  BY <1>1, <1>2, <1>3, <1>4, <1>5, <1>6, <1>7, <1>8, OwnerFields, HolderFrame
     DEF CloserStays

-----------------------------------------------------------------------------
(* The preflight.                                                          *)

\* A client that the queue finds without a session is poisoned, or its stop was cut short.
LEMMA StartsRuntimeKeeps ==
  ASSUME IInv, NEW c \in Calls, StartsRuntime(c)
  PROVE  IInv'
<1>1. Shape /\ closer = [at |-> closer.at, awaits |-> closer.awaits]
      /\ lost = [cut |-> lost.cut, forgotten |-> lost.forgotten]
  BY ShapeParts DEF IInv
<1>2. /\ Holds(c) /\ call[c].at = "queued" /\ ~owner.uncertain /\ ~owner.closed
      /\ ~owner.metadata /\ UNCHANGED <<lock, closer>> /\ Moves(c, "starting")
      /\ owner' = [owner EXCEPT !.client = TRUE]
      /\ codex' = Launched("discovering") /\ runtime' = NewProcess
      /\ lost' = [lost EXCEPT !.forgotten = @ \/ owner.client]
  BY DEF StartsRuntime, MayStart
<1>3. /\ CallShape' /\ call'[c].at = "starting"
      /\ \A d \in Calls \ {c} : call'[d] = call[d]
  BY <1>1, <1>2, MoveOfCall
<1>4. OwnerIs(TRUE, owner.session, owner.metadata, owner.closed, owner.uncertain)
  BY <1>1, <1>2, OwnerStays
<1>5. CodexShape' /\ codex'.boot = "discovering"
  BY <1>2 DEF Launched, CodexShape
<1>6. RuntimeShape'
  BY <1>2 DEF NewProcess, RuntimeShape
<1>7. lost' = [cut |-> lost.cut, forgotten |-> lost.forgotten \/ owner.client]
  BY <1>1, <1>2
<1>8. Shape'
  BY <1>1, <1>2, <1>3, <1>4, <1>5, <1>6, <1>7, ShapeParts, OwnerFields
<1>9. owner.client => lost.cut
  <2>1. ~owner.session
    BY <1>2 DEF IInv, ClientInv
  <2> QED
    BY <1>2, <2>1, HolderIsAlone, AtRest
<1>10. lost'.forgotten => lost'.cut
  BY <1>7, <1>9 DEF IInv, ClientInv
<1>11. closer.at # "done" /\ ~owner.session
  BY <1>2 DEF IInv, StagesAgree, ClientInv
<1>12. Active(c)'
  BY <1>3 DEF Active
<1>13. /\ owner'.client /\ owner'.session = owner.session /\ owner'.closed = owner.closed
       /\ owner'.uncertain = owner.uncertain
  BY <1>4, OwnerFields
<1> QED
  BY <1>2, <1>3, <1>5, <1>8, <1>10, <1>11, <1>12, <1>13, HolderFrame

\* The process starts further, or has a thread for the conversation.
LEMMA StartGoesOn ==
  ASSUME IInv, NEW c \in Calls, call[c].at = "starting",
         Relaunches(c) \/ Attests(c) \/ (Lists(c) /\ call[c].kind # "models")
  PROVE  IInv'
<1>1. Shape /\ CallShape /\ closer = [at |-> closer.at, awaits |-> closer.awaits] /\ CodexShape
      /\ lost = [cut |-> lost.cut, forgotten |-> lost.forgotten] /\ OwnerShape /\ RuntimeShape
  BY ShapeParts DEF IInv
<1>2. UNCHANGED <<lock, closer, call, lost>>
  BY DEF Relaunches, Attests, Lists
<1>3. \/ owner' = owner /\ codex' = Launched("attesting") /\ runtime' = NewProcess
      \/ owner' = owner /\ codex' = [codex EXCEPT !.boot = "listing"] /\ runtime' = runtime
      \/ /\ owner' = [owner EXCEPT !.metadata = TRUE]
         /\ codex' = [codex EXCEPT !.boot = "opening"] /\ runtime' = runtime
  BY DEF Relaunches, Attests, Lists
<1>4. /\ owner.client /\ ~owner.session /\ Active(c) /\ closer.at # "done" /\ ~owner.uncertain
      /\ (lost.forgotten => lost.cut)
  BY DEF IInv, StagesAgree, ClientInv, Active
<1>5. \E metadata :
        /\ OwnerIs(owner.client, owner.session, metadata, owner.closed, owner.uncertain)
        /\ codex'.boot = "opening" => metadata
  <2>1. CASE owner' = owner /\ codex' = Launched("attesting")
    <3>1. codex'.boot = "attesting"
      BY <2>1 DEF Launched
    <3> QED
      BY <1>1, <2>1, <3>1, OwnerStays
  <2>2. CASE owner' = owner /\ codex' = [codex EXCEPT !.boot = "listing"]
    <3>1. codex'.boot = "listing"
      BY <1>1, <2>2 DEF CodexShape
    <3> QED
      BY <1>1, <2>2, <3>1, OwnerStays
  <2>3. CASE owner' = [owner EXCEPT !.metadata = TRUE]
    BY <1>1, <2>3, OwnerStays
  <2> QED
    BY <1>3, <2>1, <2>2, <2>3
<1>6. CodexShape' /\ RuntimeShape'
  BY <1>1, <1>3 DEF CodexShape, Launched, RuntimeShape, NewProcess
<1>7. Shape'
  BY <1>1, <1>2, <1>5, <1>6, ShapeParts, OwnerFields DEF CallShape
<1>8. /\ owner'.client /\ ~owner'.session /\ (codex'.boot = "opening" => owner'.metadata)
      /\ owner'.closed = owner.closed /\ owner'.uncertain = owner.uncertain
  <2>1. PICK metadata :
          /\ OwnerIs(owner.client, owner.session, metadata, owner.closed, owner.uncertain)
          /\ codex'.boot = "opening" => metadata
    BY <1>5
  <2>2. /\ owner'.client = owner.client /\ owner'.session = owner.session
        /\ owner'.metadata = metadata /\ owner'.closed = owner.closed
        /\ owner'.uncertain = owner.uncertain
    BY <2>1, OwnerFields
  <2> QED
    BY <1>4, <2>1, <2>2
<1>9. Active(c)' /\ call'[c].at = "starting"
  BY <1>2, <1>4 DEF Active
<1> QED
  BY <1>2, <1>4, <1>7, <1>8, <1>9, HolderFrame

LEMMA OpensThreadKeeps ==
  ASSUME IInv, NEW c \in Calls, OpensThread(c)
  PROVE  IInv'
<1>1. Shape /\ closer = [at |-> closer.at, awaits |-> closer.awaits] /\ CodexShape /\ RuntimeShape
      /\ lost = [cut |-> lost.cut, forgotten |-> lost.forgotten]
  BY ShapeParts DEF IInv
<1>2. /\ call[c].at = "starting" /\ codex.boot = "opening"
      /\ codex' = [codex EXCEPT !.boot = "open"] /\ owner' = [owner EXCEPT !.session = TRUE]
      /\ UNCHANGED <<closer, runtime, lost>>
      /\ \/ Moves(c, "ended") /\ lock' = Tail(lock)
         \/ Moves(c, "ready") /\ lock' = lock
  BY DEF OpensThread, Boots, Leaves
<1>3. /\ CallShape' /\ \A d \in Calls \ {c} : call'[d] = call[d]
      /\ \/ call'[c].at = "ended" /\ lock' = Tail(lock)
         \/ call'[c].at = "ready" /\ lock' = lock
  BY <1>1, <1>2, MoveOfCall
<1>4. OwnerIs(owner.client, TRUE, owner.metadata, owner.closed, owner.uncertain)
  BY <1>1, <1>2, OwnerStays
<1>5. CodexShape' /\ RuntimeShape'
  BY <1>1, <1>2 DEF CodexShape, RuntimeShape
<1>6. Shape'
  BY <1>1, <1>2, <1>3, <1>4, <1>5, ShapeParts, OwnerFields
<1>7. /\ owner.client /\ owner.metadata /\ Active(c) /\ closer.at # "done" /\ ~owner.uncertain
      /\ (lost.forgotten => lost.cut)
  BY <1>2 DEF IInv, StagesAgree, ClientInv, Active
<1>8. call'[c].at = "ready" => Active(c)'
  BY DEF Active
<1> QED
  BY <1>2, <1>3, <1>4, <1>6, <1>7, <1>8, OwnerFields, HolderFrame

LEMMA PreflightKeeps ==
  ASSUME IInv, NEW c \in Calls, Preflight(c)
  PROVE  IInv'
<1>1. Shape /\ IsOwner(owner, owner.uncertain)
  BY OwnerIsOwner DEF IInv
<1>2. CASE Returns(c)
  BY <1>1, <1>2, LeavesKeeps DEF Returns
<1>3. CASE FindsNoBinary(c)
  BY <1>1, <1>3, StopsKeeps DEF FindsNoBinary, MayStart
<1>4. CASE Relaunches(c) \/ Attests(c) \/ (Lists(c) /\ call[c].kind # "models")
  BY <1>4, StartGoesOn DEF Relaunches, Attests, Lists, Boots
<1>5. CASE PreflightFails(c) \/ (Lists(c) /\ call[c].kind = "models")
  <2>1. call[c].at = "starting" /\ Stops(c, owner) /\ UNCHANGED <<lock, closer, lost>>
    BY <1>5 DEF PreflightFails, Lists, Boots
  <2> QED
    BY <1>1, <2>1, StopsKeeps DEF Active
<1> QED
  BY <1>2, <1>3, <1>4, <1>5, StartsRuntimeKeeps, OpensThreadKeeps DEF Preflight

-----------------------------------------------------------------------------
(* A turn.                                                                 *)

\* The end of a turn, which may stop the runtime.
LEMMA TurnOverKeeps ==
  ASSUME IInv, NEW c \in Calls, call[c].at \in Subscribed, NEW o, IsOwner(o, owner.uncertain),
         TurnOver(c, o), UNCHANGED <<closer, lost>>
  PROVE  IInv'
<1> DEFINE after == [o EXCEPT !.retired = @ \cup turn.seen]
<1>1. Active(c) /\ call[c].at \notin {"starting", "stopping"}
  BY DEF Active, Subscribed, Settling
<1>2. IsOwner(after, owner.uncertain)
  BY OwnerField
<1>3. \/ Stops(c, [after EXCEPT !.uncertain = TRUE]) /\ lock' = lock
      \/ Leaves(c) /\ owner' = after /\ UNCHANGED <<codex, runtime>>
  BY DEF TurnOver
<1> HIDE DEF after
<1>4. CASE Stops(c, [after EXCEPT !.uncertain = TRUE]) /\ lock' = lock
  BY <1>1, <1>2, <1>4, OwnerField, StopsKeeps
<1>5. CASE Leaves(c) /\ owner' = after /\ UNCHANGED <<codex, runtime>>
  BY <1>1, <1>2, <1>5, LeavesKeeps
<1> QED
  BY <1>3, <1>4, <1>5

LEMMA PoisonsKeeps ==
  ASSUME IInv, NEW c \in Calls, call[c].at \in Subscribed, Poisons(c),
         UNCHANGED <<lock, lost>>, closer' = closer \/ CloserStays
  PROVE  IInv'
<1> DEFINE doubted == [owner EXCEPT !.uncertain = TRUE]
           o == [owner EXCEPT !.uncertain = TRUE, !.retired = @ \cup turn.seen]
<1>1. IsOwner(doubted, TRUE)
  BY OwnerIsOwner, OwnerField DEF IInv
<1>2. o = [doubted EXCEPT !.retired = owner.retired \cup turn.seen]
  OBVIOUS
<1>3. Stops(c, o)
  BY DEF Poisons
<1> HIDE DEF doubted
<1>4. IsOwner(o, TRUE)
  BY <1>1, <1>2, OwnerField
<1> HIDE DEF o
<1> QED
  BY <1>3, <1>4, StopsKeeps DEF Active, Subscribed, Settling

\* The turn is to be settled: the next prompt is a snapshot.
LEMMA SettlesKeeps ==
  ASSUME IInv, NEW c \in Calls, call[c].at \in Subscribed, Settles(c),
         UNCHANGED <<lock, codex, runtime, lost>>, closer' = closer \/ CloserStays
  PROVE  IInv'
<1>1. Shape /\ Active(c) /\ ~owner.uncertain
  BY DEF IInv, ClientInv, Active, Subscribed, Settling
<1>2. /\ CallShape' /\ call'[c].at = "settling"
      /\ \A d \in Calls \ {c} : call'[d] = call[d]
  BY <1>1, MoveOfCall DEF Settles
<1>3. IsOwner(owner', owner.uncertain)
  BY <1>1, OwnerIsOwner, OwnerField DEF Settles
<1>4. IsCodex(codex') /\ IsProcess(runtime', runtime.alive)
  BY <1>1, CodexStays, ProcessStays
<1> QED
  BY <1>1, <1>2, <1>3, <1>4, TurnGoesOn DEF Subscribed, Settling

LEMMA BeginsTurnKeeps ==
  ASSUME IInv, NEW c \in Calls, BeginsTurn(c)
  PROVE  IInv'
<1>1. Shape /\ IsOwner(owner, owner.uncertain)
  BY OwnerIsOwner DEF IInv
<1>2. /\ MayPrompt(c) /\ Moves(c, "sending") /\ UNCHANGED <<lock, owner, closer, codex, lost>>
      /\ \E x : runtime' = [runtime EXCEPT !.requests = x]
  BY DEF BeginsTurn
<1>3. /\ CallShape' /\ call'[c].at = "sending"
      /\ \A d \in Calls \ {c} : call'[d] = call[d]
  BY <1>1, <1>2, MoveOfCall
<1>4. IsProcess(runtime', runtime.alive) /\ IsCodex(codex')
  <2>1. PICK x : runtime' = [runtime EXCEPT !.requests = x]
    BY <1>2
  <2>2. IsProcess(runtime', runtime.alive)
    BY <1>1, <2>1, ProcessStays, ProcessField, Zenon
  <2> QED
    BY <1>1, <1>2, <2>2, CodexStays
<1>5. /\ Active(c) \/ (Holds(c) /\ call[c].at = "queued" /\ ~owner.closed)
      /\ call[c].at \notin {"starting", "stopping"}
      /\ ~owner.uncertain
  BY <1>2 DEF MayPrompt, Active, IInv, ClientInv
<1> QED
  BY <1>1, <1>2, <1>3, <1>4, <1>5, TurnGoesOn DEF Subscribed

\* The turn goes from one of its waits to the next.
LEMMA WaitsGoOn ==
  ASSUME IInv, NEW c \in Calls, SendReturns(c) \/ Interrupts(c) \/ InterruptReturns(c)
  PROVE  IInv'
<1>1. Shape /\ IsOwner(owner, owner.uncertain)
  BY OwnerIsOwner DEF IInv
<1>2. /\ call[c].at \in Subscribed /\ UNCHANGED <<lock, owner, closer, lost>>
      /\ Moves(c, "reading") \/ Moves(c, "idling") \/ Moves(c, "interrupting")
      /\ codex' = Sent \/ codex' = codex
      /\ runtime' = runtime \/ \E x : runtime' = [runtime EXCEPT !.requests = x]
  BY DEF SendReturns, Interrupts, InterruptReturns, Subscribed, Settling
<1>3. /\ CallShape' /\ call'[c].at \in Subscribed
      /\ \A d \in Calls \ {c} : call'[d] = call[d]
  BY <1>1, <1>2, MoveOfCall DEF Subscribed, Settling
<1>4. IsCodex(codex')
  BY <1>1, <1>2, CodexStays
<1>5. IsProcess(runtime', runtime.alive)
  <2>1. CASE runtime' = runtime
    BY <1>1, <2>1, ProcessStays
  <2>2. ASSUME NEW x, runtime' = [runtime EXCEPT !.requests = x]
        PROVE  IsProcess(runtime', runtime.alive)
    BY <1>1, <2>2, ProcessStays, ProcessField, Zenon
  <2> QED
    BY <1>2, <2>1, <2>2
<1>6. Active(c) /\ ~owner.uncertain /\ call[c].at \notin {"starting", "stopping"}
  BY <1>2 DEF IInv, ClientInv, Active, Subscribed, Settling
<1> QED
  BY <1>1, <1>2, <1>3, <1>4, <1>5, <1>6, TurnGoesOn

LEMMA ReadsTextKeeps ==
  ASSUME IInv, NEW c \in Calls, ReadsText(c)
  PROVE  IInv'
<1>1. Shape /\ CallShape /\ IsOwner(owner, owner.uncertain)
  BY OwnerIsOwner, ShapeParts DEF IInv
<1>2. /\ call[c].at = "reading" /\ UNCHANGED <<lock, closer, codex, runtime, lost>>
      /\ \/ Settles(c)
         \/ owner' = owner /\ \E x : call' = [call EXCEPT ![c].heard = x]
  BY DEF ReadsText
<1>3. ASSUME NEW x, owner' = owner, call' = [call EXCEPT ![c].heard = x] PROVE IInv'
  <2>1. /\ CallShape' /\ call'[c].at = "reading"
        /\ \A d \in Calls \ {c} : call'[d] = call[d]
    BY <1>1, <1>2, <1>3 DEF CallShape
  <2>2. IsCodex(codex') /\ IsProcess(runtime', runtime.alive)
    BY <1>1, <1>2, CodexStays, ProcessStays
  <2>3. Active(c) /\ ~owner.uncertain
    BY <1>2 DEF IInv, ClientInv, Active, Subscribed
  <2> QED
    BY <1>1, <1>2, <1>3, <2>1, <2>2, <2>3, TurnGoesOn DEF Subscribed
<1> QED
  BY <1>2, <1>3, SettlesKeeps DEF Subscribed

LEMMA ReadsDoneKeeps ==
  ASSUME IInv, NEW c \in Calls, ReadsDone(c)
  PROVE  IInv'
<1> DEFINE short == [owner EXCEPT !.snapshot = TRUE]
           known == [owner EXCEPT !.snapshot = FALSE]
<1>1. IsOwner(short, owner.uncertain) /\ IsOwner(known, owner.uncertain)
  BY OwnerIsOwner, OwnerField DEF IInv
<1>2. \A x : [owner EXCEPT !.snapshot = FALSE, !.history = x] = [known EXCEPT !.history = x]
  OBVIOUS
<1>3. /\ call[c].at = "reading" /\ UNCHANGED <<closer, lost>>
      /\ \/ TurnOver(c, short)
         \/ \E x : TurnOver(c, [owner EXCEPT !.snapshot = FALSE, !.history = x])
  BY DEF ReadsDone
<1> HIDE DEF short, known
<1>4. CASE TurnOver(c, short)
  BY <1>1, <1>3, <1>4, TurnOverKeeps DEF Subscribed
<1>5. ASSUME NEW x, TurnOver(c, [owner EXCEPT !.snapshot = FALSE, !.history = x]) PROVE IInv'
  <2>1. IsOwner([owner EXCEPT !.snapshot = FALSE, !.history = x], owner.uncertain)
    BY <1>1, <1>2, OwnerField, Zenon
  <2> QED
    BY <1>3, <1>5, <2>1, TurnOverKeeps DEF Subscribed
<1> QED
  BY <1>3, <1>4, <1>5

LEMMA TurnKeeps ==
  ASSUME IInv, NEW c \in Calls, TurnStep(c)
  PROVE  IInv'
<1>1. IsOwner(owner, owner.uncertain)
  BY OwnerIsOwner DEF IInv
<1>2. CASE PromptRefused(c)
  <2>1. /\ Active(c) \/ (Holds(c) /\ call[c].at = "queued")
        /\ call[c].at \notin {"starting", "stopping"}
    BY <1>2 DEF PromptRefused, MayPrompt, Active
  <2> QED
    BY <1>1, <1>2, <2>1, LeavesKeeps DEF PromptRefused
<1>3. CASE TurnFails(c)
  BY <1>3, SettlesKeeps DEF TurnFails, Subscribed
<1>4. CASE IsIdle(c)
  BY <1>1, <1>4, TurnOverKeeps DEF IsIdle, Subscribed, Settling
<1>5. CASE SettlingFails(c)
  BY <1>5, PoisonsKeeps DEF SettlingFails, Subscribed
<1> QED
  BY <1>2, <1>3, <1>4, <1>5, BeginsTurnKeeps, WaitsGoOn, ReadsTextKeeps, ReadsDoneKeeps
     DEF TurnStep

-----------------------------------------------------------------------------
(* The end of a call from outside, and the end of a stop.                  *)

\* A task that is cancelled while it stops the runtime leaves the client behind.
LEMMA CutShortKeeps ==
  ASSUME IInv, NEW c \in Calls, call[c].at = "stopping", Leaves(c),
         lost' = [lost EXCEPT !.cut = TRUE], CloserStays, UNCHANGED <<owner, codex, runtime>>
  PROVE  IInv'
<1>1. Shape /\ OwnerShape /\ CodexShape /\ RuntimeShape
      /\ lost = [cut |-> lost.cut, forgotten |-> lost.forgotten]
  BY ShapeParts DEF IInv
<1>2. /\ CallShape' /\ call'[c].at = "ended" /\ lock' = Tail(lock)
      /\ \A d \in Calls \ {c} : call'[d] = call[d]
  BY <1>1, MoveOfCall DEF Leaves
<1>3. lost' = [cut |-> TRUE, forgotten |-> lost.forgotten]
  BY <1>1
<1>4. Shape'
  BY <1>1, <1>2, <1>3, ShapeParts DEF CloserStays, OwnerShape, CodexShape, RuntimeShape
<1>5. /\ runtime.alive => owner.client
      /\ owner.session => owner.client /\ owner.metadata
  BY DEF IInv, ClientInv
<1>6. Active(c) /\ ~Active(c)'
  BY <1>2 DEF Active
<1> QED
  BY <1>2, <1>3, <1>4, <1>5, <1>6, HolderFrame DEF CloserStays, Subscribed, Settling

LEMMA CancelledKeeps ==
  ASSUME IInv, NEW c \in Calls, Cancelled(c), CloserStays
  PROVE  IInv'
<1>1. Shape /\ IsOwner(owner, owner.uncertain)
  BY OwnerIsOwner DEF IInv
<1>2. CASE /\ call[c].at = "queued" /\ Moves(c, "ended")
           /\ \E i \in DOMAIN lock : lock[i] = c /\ lock' = RemoveAt(lock, i)
           /\ UNCHANGED <<owner, codex, runtime, lost>>
  <2>1. /\ CallShape' /\ call'[c].at = "ended"
        /\ \A d \in Calls \ {c} : call'[d] = call[d]
    BY <1>1, <1>2, MoveOfCall
  <2>2. PICK k \in 1..Len(lock) : lock[k] = c /\ lock' = RemoveAt(lock, k)
    BY <1>2 DEF IInv, LockInv
  <2>3. LockInv'
    BY <1>2, <2>1, <2>2, LockIsLeft DEF CloserStays
  <2>4. Shape'
    BY <1>1, <1>2, <2>1, ShapeParts DEF CloserStays, OwnerShape, CodexShape, RuntimeShape
  <2>5. \A d \in Calls : Active(d) \/ Active(d)' => call'[d].at = call[d].at
    BY <1>2, <2>1 DEF Active
  <2>6. (closer'.at # "none" => owner'.closed) /\ (runtime'.alive => owner.client)
    BY <1>2 DEF CloserStays, IInv, StagesAgree, ClientInv
  <2> QED
    BY <1>2, <2>3, <2>4, <2>5, <2>6, QuietFrame DEF CloserStays
<1>3. CASE call[c].at = "starting" /\ Stops(c, owner) /\ UNCHANGED <<lock, lost>>
  BY <1>1, <1>3, StopsKeeps DEF Active
<1>4. CASE /\ call[c].at \in {"sending", "reading"} /\ Settles(c)
           /\ UNCHANGED <<lock, codex, runtime, lost>>
  BY <1>4, SettlesKeeps DEF Subscribed
<1>5. CASE call[c].at \in Settling /\ Poisons(c) /\ UNCHANGED <<lock, lost>>
  BY <1>5, PoisonsKeeps DEF Subscribed
<1>6. CASE /\ call[c].at = "stopping" /\ Leaves(c) /\ lost' = [lost EXCEPT !.cut = TRUE]
           /\ UNCHANGED <<owner, codex, runtime>>
  BY <1>6, CutShortKeeps
<1> QED
  BY <1>2, <1>3, <1>4, <1>5, <1>6 DEF Cancelled

\* What the end of a stop leaves of the adapter: no client, or one that is poisoned.
LEMMA StopEnds ==
  ASSUME IInv, NEW x, StopStep(x)
  PROVE  /\ UNCHANGED <<codex, lost>>
         /\ \/ /\ OwnerIs(FALSE, owner.session, owner.metadata, owner.closed, owner.uncertain)
               /\ RuntimeShape' /\ ~runtime'.alive
            \/ /\ OwnerIs(owner.client, owner.session, owner.metadata, owner.closed, TRUE)
               /\ runtime' = runtime
<1>1. Shape
  BY DEF IInv
<1>2. CASE Stopped(x)
  BY <1>1, <1>2, OwnerStays DEF Stopped, NoProcess, NewProcess, RuntimeShape
<1>3. CASE StopFails(x)
  BY <1>1, <1>3, OwnerStays DEF StopFails
<1> QED
  BY <1>2, <1>3 DEF StopStep

LEMMA CallStopKeeps ==
  ASSUME IInv, NEW c \in Calls, StopStep(c)
  PROVE  IInv'
<1>1. Shape /\ closer = [at |-> closer.at, awaits |-> closer.awaits] /\ CodexShape /\ RuntimeShape
      /\ lost = [cut |-> lost.cut, forgotten |-> lost.forgotten]
  BY ShapeParts DEF IInv
<1>2. /\ call[c].at = "stopping" /\ Moves(c, "ended") /\ lock' = Tail(lock) /\ closer' = closer
  BY ConstantsOK DEF StopStep, Stopped, StopFails, StopReturns, Stopping
<1>3. /\ CallShape' /\ call'[c].at = "ended"
      /\ \A d \in Calls \ {c} : call'[d] = call[d]
  BY <1>1, <1>2, MoveOfCall
<1>4. Active(c) /\ ~Active(c)' /\ closer.at # "done" /\ ~owner.session
      /\ (runtime.alive => owner.client) /\ (lost.forgotten => lost.cut)
  BY <1>2, <1>3 DEF IInv, StagesAgree, ClientInv, Active
<1>5. /\ UNCHANGED <<codex, lost>> /\ OwnerShape' /\ RuntimeShape'
      /\ owner'.session = owner.session /\ owner'.closed = owner.closed
      /\ (owner'.client => owner'.uncertain) /\ (runtime'.alive => owner'.client)
  BY ZenonT(60), <1>1, <1>4, StopEnds, OwnerFields DEF RuntimeShape
<1>6. Shape'
  BY <1>1, <1>2, <1>3, <1>5, ShapeParts DEF CodexShape
<1> QED
  BY <1>2, <1>3, <1>4, <1>5, <1>6, HolderFrame DEF Subscribed, Settling

LEMMA CloserStopKeeps ==
  ASSUME IInv, StopStep(Closer)
  PROVE  IInv'
<1>1. Shape /\ CallShape /\ closer = [at |-> closer.at, awaits |-> closer.awaits]
      /\ CodexShape /\ RuntimeShape /\ lost = [cut |-> lost.cut, forgotten |-> lost.forgotten]
  BY ShapeParts DEF IInv
<1>2. /\ closer.at = "stopping" /\ call' = call /\ lock' = Tail(lock)
      /\ closer' = [closer EXCEPT !.at = "done"]
  BY DEF StopStep, Stopped, StopFails, StopReturns, Stopping
<1>3. closer'.at = "done" /\ closer' = [at |-> closer'.at, awaits |-> closer'.awaits]
  BY <1>1, <1>2
<1>4. /\ ~owner.session /\ owner.closed /\ \A c \in Calls : ~Active(c)
      /\ (runtime.alive => owner.client) /\ (lost.forgotten => lost.cut)
  BY <1>2, CloserIsAlone DEF IInv, StagesAgree, ClientInv
<1>5. /\ UNCHANGED <<codex, lost>> /\ OwnerShape' /\ RuntimeShape'
      /\ owner'.session = owner.session /\ owner'.closed = owner.closed
      /\ (owner'.client => owner'.uncertain) /\ (runtime'.alive => owner'.client)
  BY ZenonT(60), <1>1, <1>4, StopEnds, OwnerFields DEF RuntimeShape
<1>6. Shape'
  BY <1>1, <1>2, <1>3, <1>5, ShapeParts DEF CodexShape, CallShape
<1>7. LockInv'
  <2>1. Waits(Closer) /\ lock[1] = Closer /\ lock \in Seq(Calls \cup {Closer})
    BY <1>2 DEF IInv, LockInv
  <2>2. lock # <<>>
    BY <2>1 DEF Waits
  <2> QED
    BY <1>2, <1>3, <2>1, <2>2, ConstantsOK, LockIsFreed
<1>8. \A c \in Calls : /\ ~Active(c)'
                       /\ call'[c].at \notin {"starting", "stopping", "ready"} \cup Subscribed
  BY <1>2, <1>4 DEF Active, Subscribed, Settling
<1>9. StagesAgree'
  BY <1>3, <1>4, <1>5, <1>8 DEF StagesAgree
<1>10. ClientInv'
  BY <1>3, <1>4, <1>5, <1>8 DEF ClientInv
<1> QED
  BY <1>6, <1>7, <1>9, <1>10 DEF IInv

\* close() has the lock: it drops the runtime, with no call past the wait.
LEMMA CloseStopsKeeps ==
  ASSUME IInv, CloseStops
  PROVE  IInv'
<1>1. Shape /\ CallShape /\ OwnerShape /\ closer = [at |-> closer.at, awaits |-> closer.awaits]
      /\ lost = [cut |-> lost.cut, forgotten |-> lost.forgotten]
  BY ShapeParts DEF IInv
<1>2. /\ closer.at = "queued" /\ Holds(Closer) /\ Drops(owner)
      /\ closer' = [closer EXCEPT !.at = "stopping"] /\ UNCHANGED <<lock, call, lost>>
  BY DEF CloseStops
<1>3. closer'.at = "stopping" /\ closer' = [at |-> closer'.at, awaits |-> closer'.awaits]
  BY <1>1, <1>2
<1>4. /\ OwnerIs(owner.client, FALSE, FALSE, owner.closed, owner.uncertain)
      /\ CodexShape' /\ RuntimeShape' /\ runtime'.alive = runtime.alive
  BY <1>1, <1>2, DropOfOwner DEF OwnerShape
<1>5. Shape'
  BY <1>1, <1>2, <1>3, <1>4, ShapeParts, OwnerFields DEF CallShape
<1>6. \A c \in Calls : /\ ~Active(c) /\ ~Active(c)'
                       /\ call'[c].at \notin {"starting", "stopping", "ready"} \cup Subscribed
  BY <1>2, CloserIsAlone DEF Active, Subscribed, Settling
<1>7. LockInv'
  BY <1>2, <1>3, <1>6 DEF IInv, LockInv, Waits, Holds, Active
<1>8. StagesAgree'
  <2>1. owner.closed /\ owner'.closed = owner.closed /\ ~owner'.session
    BY ZenonT(60), <1>2, <1>4, OwnerFields DEF IInv, StagesAgree
  <2> QED
    BY <1>3, <1>6, <2>1 DEF StagesAgree
<1>9. ClientInv'
  BY <1>2, <1>3, <1>4, <1>6, OwnerFields DEF IInv, ClientInv
<1> QED
  BY <1>5, <1>7, <1>8, <1>9 DEF IInv

-----------------------------------------------------------------------------
(* The theorems.                                                           *)

LEMMA InitHolds == Init => IInv
<1> SUFFICES ASSUME Init PROVE IInv
  OBVIOUS
<1>1. Shape
  BY DEF Init, Shape, NewCall, NoCodex, Launched, NoProcess, NewProcess
<1>2. /\ lock = <<>> /\ \A c \in Calls : call[c].at = "none"
      /\ closer.at = "none" /\ ~owner.client /\ ~owner.session /\ ~owner.uncertain
      /\ ~runtime.alive /\ ~lost.forgotten
  BY DEF Init, NewCall, NoProcess, NewProcess
<1>3. LockInv
  BY <1>2 DEF LockInv, Waits, Active
<1>4. StagesAgree /\ ClientInv
  BY <1>2 DEF StagesAgree, ClientInv, Subscribed, Settling
<1> QED
  BY <1>1, <1>3, <1>4 DEF IInv

LEMMA StepKeeps == IInv /\ [Next]_vars => IInv'
<1> SUFFICES ASSUME IInv, [Next]_vars PROVE IInv'
  OBVIOUS
<1>1. Shape /\ closer = [at |-> closer.at, awaits |-> closer.awaits]
  BY ShapeParts DEF IInv
<1>2. ASSUME NEW c \in Calls, Cancel(c) \/ CloseCancels(c) PROVE IInv'
  <2>1. Cancelled(c) /\ (closer' = closer \/ closer' = [closer EXCEPT !.awaits = c])
    BY <1>2 DEF Cancel, CloseCancels
  <2>2. CloserStays
    BY <1>1, <2>1 DEF CloserStays
  <2> QED
    BY <2>1, <2>2, CancelledKeeps
<1>3. ASSUME NEW c \in Calls, CallerStep(c) \/ Preflight(c) \/ TurnStep(c) \/ StopStep(c)
      PROVE  IInv'
  BY <1>2, <1>3, CallerKeeps, PreflightKeeps, TurnKeeps, CallStopKeeps DEF CallerStep
<1>4. CASE CloseBegins \/ CloseStep
  BY <1>2, <1>4, CloseOutsideKeeps, CloseStopsKeeps, CloserStopKeeps DEF CloseStep
<1>5. CASE UNCHANGED vars
  BY <1>5 DEF vars, IInv, Shape, LockInv, Waits, Active, StagesAgree, ClientInv
<1> QED
  BY <1>3, <1>4, <1>5, ReaderKeeps, RuntimeKeeps DEF Next

\* One task at a time works with the runtime, and where it stands agrees with what the
\* adapter holds.
THEOREM InductiveInvariant == Spec => []IInv
<1> QED
  BY InitHolds, StepKeeps, PTL DEF Spec

\* A process that lives has an owner: between two calls it is ready for use, after close() it
\* is gone or known to be poisoned, and it is only forgotten when its stop was cut short.
THEOREM OwnedRuntime == Spec => []RuntimeIsOwned
<1>1. IInv => RuntimeIsOwned
  <2> SUFFICES ASSUME IInv PROVE RuntimeIsOwned
    OBVIOUS
  <2>1. ASSUME lock = <<>>
        PROVE  closer.at # "stopping" /\ \A c \in Calls : call[c].at \notin {"starting", "stopping"}
    BY <2>1 DEF IInv, LockInv, Waits
  <2> QED
    BY <2>1 DEF IInv, ClientInv, RuntimeIsOwned
<1> QED
  BY <1>1, InductiveInvariant, PTL


-----------------------------------------------------------------------------
(* The second inductive invariant: where a turn stands in the adapter, in  *)
(* the transport and in the process.                                       *)

\* The lines that end a turn, and the answers to an interrupt.
Ends == {"completed", "failed"}
Confirms == {"stopped", "unstopped"}

\* A line of the process and an event of the turn, whatever the numbers of their turns.
AgentLine == [kind : {"answer", "reject", "started", "delta", "item", "error", "tool"}
                       \cup Ends \cup Confirms,
              turn : Nat, part : 0..MaxParts]
AgentEvent == [kind : {"text", "done", "error"}, turn : Nat,
               first : 0..MaxParts, last : 0..MaxParts]

Prompting(c) == call[c].at \in Subscribed

Has(s, kinds) == \E i \in 1..Len(s) : s[i].kind \in kinds

IsTurn(t) ==
  t = [queue |-> t.queue, idle |-> t.idle, failed |-> t.failed, accepting |-> t.accepting,
       safety |-> t.safety, seen |-> t.seen, sent |-> t.sent, id |-> t.id, abort |-> t.abort,
       before |-> t.before]

Typed ==
  /\ IsTurn(turn) /\ turn.before \in Nat /\ runtime.made \in Nat
  /\ turn.queue \in Seq(AgentEvent) /\ runtime.lines \in Seq(AgentLine)
  /\ runtime.said \in 0..MaxParts

\* Between two turns, all that the process may still say is late.
LateLines(s, n) == \A i \in 1..Len(s) : s[i].kind = "delta" /\ s[i].turn \in 1..n

NothingRuns ==
  /\ runtime.running = 0 /\ runtime.requests = <<>> /\ LateLines(runtime.lines, runtime.made)
  /\ codex.turn = 0 /\ codex.retired = 1..runtime.made
  /\ ~owner.session => runtime.made = 0

\* The prompt is on its way, was refused, or is lost.
AskedLines(s, n) ==
  \A i \in 1..Len(s) : \/ s[i].kind = "delta" /\ s[i].turn \in 1..n
                       \/ s[i].kind = "reject" /\ s[i].turn = 0

Asked(c) ==
  /\ call[c].at \in {"sending", "settling"}
  /\ turn.sent \in {"pending", "failed"} /\ turn.abort = "none" /\ ~turn.idle
  /\ runtime.made = turn.before /\ runtime.running = 0
  /\ codex.turn = 0 /\ codex.retired = 1..turn.before
  /\ ~Has(turn.queue, {"text"}) /\ ~Has(turn.queue, {"done"})
  /\ \/ runtime.requests = <<>>
     \/ /\ runtime.requests = <<runtime.requests[1]>> /\ runtime.requests[1].kind = "start"
        /\ ~Has(runtime.lines, {"reject"})
  /\ AskedLines(runtime.lines, turn.before)

\* The turn n has started: its lines, of which no more come after its end, ...
LinesOf(s, n) ==
  \A i \in 1..Len(s) : /\ s[i].kind # "reject" /\ s[i].turn \in 1..n
                       /\ s[i].kind # "delta" => s[i].turn = n
EndIsLast(s) ==
  \A i, j \in 1..Len(s) :
    i < j /\ s[i].kind \in Ends => s[j].kind \in {"delta"} \cup Confirms
OneConfirms(s) ==
  \A i, j \in 1..Len(s) : s[i].kind \in Confirms /\ s[j].kind \in Confirms => i = j

LinesInv ==
  /\ LinesOf(runtime.lines, runtime.made)
  /\ EndIsLast(runtime.lines) /\ OneConfirms(runtime.lines)
  /\ Has(runtime.lines, Ends) => runtime.running = 0

\* ... its requests, of which an interrupt is answered once, ...
RequestsInv(c) ==
  /\ call[c].at # "interrupting" => turn.abort # "pending"
  /\ turn.abort # "pending" => runtime.requests = <<>> /\ ~Has(runtime.lines, Confirms)
  /\ \/ runtime.requests = <<>>
     \/ /\ runtime.requests = <<runtime.requests[1]>> /\ ~Has(runtime.lines, Confirms)
        /\ runtime.requests[1].kind = "interrupt" /\ runtime.requests[1].turn = runtime.made

\* ... and its end, which the transport and the turn learn of together.
IdleInv ==
  /\ Has(turn.queue, {"done"}) => turn.idle
  /\ IF turn.idle
       THEN /\ codex.turn = 0 /\ codex.retired = 1..runtime.made /\ runtime.running = 0
            /\ ~Has(runtime.lines, {"answer", "reject", "started", "item", "error", "tool"} \cup Ends)
       ELSE codex.turn \in {0, runtime.made} /\ codex.retired = 1..turn.before

Started(c) ==
  /\ runtime.made = turn.before + 1 /\ runtime.running \in {0, runtime.made}
  /\ call[c].at \in {"reading", "interrupting", "idling"} => turn.sent = "done"
  /\ turn.sent \in {"answered", "done"} => turn.id = runtime.made
  /\ LinesInv /\ RequestsInv(c) /\ IdleInv

\* Who is ready to prompt has a session.
SessionInv ==
  /\ owner.metadata => owner.session \/ \E c \in Calls : call[c].at = "starting"
  /\ \A c \in Calls : Prompting(c) \/ call[c].at = "ready" => owner.session

TurnInv ==
  /\ Typed
  /\ ~HasHandler => NothingRuns
  /\ \A c \in Calls : Prompting(c) => Asked(c) \/ Started(c)

-----------------------------------------------------------------------------
(* Which steps there are.                                                  *)

LEMMA OnePrompts ==
  ASSUME IInv, NEW c \in Calls, NEW d \in Calls, Prompting(c), Prompting(d)
  PROVE  c = d
BY DEF IInv, LockInv, Active, Prompting, Subscribed, Settling

LEMMA NonePrompts ==
  ASSUME IInv, NEW c \in Calls, Active(c) \/ (Holds(c) /\ call[c].at = "queued"), ~Prompting(c)
  PROVE  ~HasHandler
BY HolderIsAlone DEF Alone, HasHandler, Prompting, Active, Subscribed, Settling

\* There is no session yet, or the one there was is poisoned or closed.
Unused ==
  \/ ~owner.session /\ ~owner.uncertain /\ ~owner.closed
  \/ \E c \in Calls : call[c].at = "starting"

\* Outside a turn nobody hears anything, nor is the adapter new again.
Waiting == {"queued", "starting", "ready"}
NobodyHears ==
  \A c \in Calls : call'[c].at \in Waiting =>
    call'[c].heard = <<>> \/ (call[c].at \in Waiting /\ call'[c].heard = call[c].heard)
Outside ==
  /\ Unused' => Unused /\ owner'.snapshot = owner.snapshot /\ owner'.retired = owner.retired
  /\ owner'.session => owner.session \/ Unused
  /\ NobodyHears

\* The turn, if there is one, is left alone.
Aside ==
  /\ Outside
  /\ turn' = turn /\ runtime' = runtime
  /\ codex'.turn = codex.turn /\ codex'.retired = codex.retired
  /\ \A c \in Calls : Prompting(c) \/ Prompting(c)' => call'[c] = call[c]
  /\ owner.session => owner'.session
  /\ owner'.snapshot = owner.snapshot /\ owner'.history = owner.history
  /\ owner'.retired = owner.retired

\* There is no turn, and the process that will be used is new or gone.
Blank ==
  /\ Outside /\ ~owner'.session
  /\ ~HasHandler' /\ turn' \in {turn, NoTurn}
  /\ runtime'.made = 0 /\ runtime'.running = 0 /\ runtime'.said = 0 /\ runtime'.thread = <<>>
  /\ runtime'.requests = <<>> /\ runtime'.lines = <<>>
  /\ codex'.turn = 0 /\ codex'.retired = {}

\* The turn is to be settled.
Unsettled(c) ==
  /\ call[c].at \in {"sending", "reading"} /\ Settles(c)
  /\ UNCHANGED <<codex, runtime>>

\* The caller has a chunk.
Hears(c) == call[c].at = "reading" /\ Gets("text") /\ ReadsText(c) /\ owner' = owner

\* The turn is over.
Finishes(c) == (ReadsDone(c) \/ IsIdle(c)) /\ ~turn.safety

LEMMA MoveHears ==
  ASSUME Shape, NEW c \in Calls, NEW at, Moves(c, at)
  PROVE  /\ \A d \in Calls : call'[d].heard = call[d].heard
         /\ at \notin Waiting \/ call[c].at \in Waiting => NobodyHears
<1>1. \A d \in Calls : call'[d].heard = call[d].heard
  BY ShapeParts DEF CallShape, Moves
<1> QED
  BY <1>1, MoveOfCall DEF NobodyHears

LEMMA DropIsBlank ==
  ASSUME Shape, NEW o, NEW u, IsOwner(o, u), Drops(o), ~HasHandler', turn' \in {turn, NoTurn},
         NobodyHears, \A c \in Calls : call'[c].at # "starting",
         u \/ owner.closed \/ (Unused /\ o = owner)
  PROVE  Blank
<1>1. /\ o = [client |-> o.client, session |-> o.session, metadata |-> o.metadata,
              snapshot |-> o.snapshot, closed |-> o.closed, uncertain |-> o.uncertain,
              history |-> o.history, retired |-> o.retired]
      /\ o.closed = owner.closed /\ o.uncertain = u
  BY DEF IsOwner
<1>2. ~owner'.session /\ owner'.uncertain = u /\ owner'.closed = owner.closed
  <2>1. OwnerIs(o.client, FALSE, FALSE, o.closed, o.uncertain)
    BY <1>1, DropOfOwner
  <2> QED
    BY <1>1, <2>1 DEF OwnerIs
<1>3. /\ ~owner'.session /\ owner'.uncertain = u /\ owner'.closed = owner.closed
      /\ owner'.snapshot = o.snapshot /\ owner'.retired = o.retired
  BY <1>1, <1>2 DEF Drops
<1>4. Outside
  BY <1>3 DEF Outside, Unused
<1> QED
  BY <1>3, <1>4 DEF Drops, Blank, NoCodex, Launched, NoProcess, NewProcess

LEMMA StopIsBlank ==
  ASSUME IInv, NEW c \in Calls, Active(c) \/ (Holds(c) /\ call[c].at = "queued"),
         NEW o, NEW u, IsOwner(o, u), Stops(c, o), turn' \in {turn, NoTurn},
         u \/ (Unused /\ o = owner)
  PROVE  Blank
<1>1. Alone(c) /\ Drops(o) /\ Moves(c, "stopping")
  BY HolderIsAlone DEF Stops
<1>2. call'[c].at = "stopping" /\ \A d \in Calls \ {c} : call'[d] = call[d]
  BY <1>1, MoveOfCall DEF IInv
<1>3. ~HasHandler' /\ \A d \in Calls : call'[d].at # "starting"
  BY <1>1, <1>2 DEF HasHandler, Alone, Active, Subscribed, Settling
<1>4. NobodyHears
  BY <1>1, MoveHears DEF IInv, Waiting
<1> QED
  BY <1>1, <1>3, <1>4, DropIsBlank DEF IInv

LEMMA PoisonsIsBlank ==
  ASSUME IInv, NEW c \in Calls, call[c].at \in Subscribed, Poisons(c)
  PROVE  Blank
<1> DEFINE doubted == [owner EXCEPT !.uncertain = TRUE]
           o == [owner EXCEPT !.uncertain = TRUE, !.retired = @ \cup turn.seen]
<1>1. IsOwner(doubted, TRUE)
  BY OwnerIsOwner, OwnerField DEF IInv
<1>2. o = [doubted EXCEPT !.retired = owner.retired \cup turn.seen]
  OBVIOUS
<1>3. Stops(c, o) /\ turn' = NoTurn
  BY DEF Poisons
<1> HIDE DEF doubted
<1>4. IsOwner(o, TRUE)
  BY <1>1, <1>2, OwnerField
<1> HIDE DEF o
<1> QED
  BY <1>3, <1>4, StopIsBlank DEF Active, Subscribed, Settling

\* A call moves outside a turn.
LEMMA MoveIsAside ==
  ASSUME IInv, NEW c \in Calls, NEW at, Moves(c, at), ~Prompting(c), at \notin Subscribed \cup Waiting,
         UNCHANGED <<turn, runtime, owner>>, codex'.turn = codex.turn, codex'.retired = codex.retired
  PROVE  Aside
<1>1. call'[c].at = at /\ \A d \in Calls \ {c} : call'[d] = call[d]
  BY MoveOfCall DEF IInv
<1>2. Outside
  <2>1. NobodyHears
    BY MoveHears DEF IInv
  <2> QED
    BY <1>1, <2>1 DEF Outside, Unused, Waiting
<1> QED
  BY <1>1, <1>2 DEF Aside, Prompting

LEMMA NewCallIsAside ==
  ASSUME IInv, NEW c \in Calls, NEW kind, NEW at \in {"queued", "none"}, NEW context,
         call' = [call EXCEPT ![c] = NewCall(kind, at, context)],
         call[c].at \in {"none", "ended"}, UNCHANGED <<owner, turn, codex, runtime>>
  PROVE  Aside
<1>1. CallShape
  BY ShapeParts DEF IInv
<1>2. call'[c].at = at /\ call'[c].heard = <<>> /\ \A d \in Calls \ {c} : call'[d] = call[d]
  BY <1>1 DEF CallShape, NewCall
<1>3. Outside
  BY <1>2 DEF Outside, Unused, NobodyHears
<1> QED
  BY <1>2, <1>3 DEF Aside, Prompting, Subscribed, Settling

LEMMA CallerClass ==
  ASSUME IInv, NEW c \in Calls,
         Chats(c) \/ (\E kind \in {"validate", "models"} : Asks(c, kind)) \/ Commits(c)
  PROVE  Aside
<1>1. CASE Chats(c)
  <2>1. PICK context : call' = [call EXCEPT ![c] = NewCall("chat", "queued", context)]
    BY <1>1 DEF Chats
  <2> QED
    BY <1>1, <2>1, FreeCallIsFree, NewCallIsAside DEF Chats
<1>2. ASSUME NEW kind \in {"validate", "models"}, Asks(c, kind) PROVE Aside
  BY <1>2, FreeCallIsFree, NewCallIsAside DEF Asks
<1>3. CASE Commits(c)
  BY <1>3, NewCallIsAside DEF Commits
<1> QED
  BY <1>1, <1>2, <1>3

LEMMA PreflightClass ==
  ASSUME IInv, NEW c \in Calls, Preflight(c)
  PROVE  Aside \/ Blank
<1>1. /\ Active(c) \/ (Holds(c) /\ call[c].at = "queued")
      /\ ~Prompting(c) /\ call[c].at \in {"queued", "starting"}
  BY DEF Preflight, Returns, FindsNoBinary, StartsRuntime, Relaunches, Attests, Lists, OpensThread,
         PreflightFails, MayStart, Boots, Active, Prompting, Subscribed, Settling
<1>2. Shape /\ OwnerShape /\ CodexShape /\ ~HasHandler
  BY <1>1, ShapeParts, NonePrompts DEF IInv
<1>3. CASE Returns(c)
  BY <1>1, <1>3, MoveIsAside DEF Returns, Leaves, Subscribed, Settling, Waiting
<1>4. CASE FindsNoBinary(c) \/ PreflightFails(c) \/ (Lists(c) /\ call[c].kind = "models")
  <2>1. Stops(c, owner) /\ turn' = turn
    BY <1>4 DEF FindsNoBinary, PreflightFails, Lists
  <2>2. Unused
    BY <1>4 DEF FindsNoBinary, PreflightFails, Lists, MayStart, Boots, Unused, IInv, ClientInv
  <2> QED
    BY <1>1, <1>2, <2>1, <2>2, OwnerIsOwner, StopIsBlank
<1>5. CASE StartsRuntime(c) \/ Relaunches(c)
  <2>1. /\ runtime' = NewProcess /\ turn' = turn
        /\ codex' = Launched("discovering") \/ codex' = Launched("attesting")
        /\ call' = call \/ Moves(c, "starting")
    BY <1>5 DEF StartsRuntime, Relaunches
  <2>2. ~HasHandler'
    BY <1>2, <2>1, MoveOfCall DEF HasHandler, Subscribed, Settling
  <2>3. ~owner.session /\ Unused
    BY <1>5 DEF StartsRuntime, Relaunches, MayStart, Boots, Unused, IInv, ClientInv, StagesAgree
  <2>4. NobodyHears
    BY <1>1, <1>2, <2>1, MoveHears DEF Waiting, NobodyHears
  <2>5. owner' = owner \/ owner' = [owner EXCEPT !.client = TRUE]
    BY <1>5 DEF StartsRuntime, Relaunches
  <2>6. /\ owner'.snapshot = owner.snapshot /\ owner'.retired = owner.retired
        /\ owner'.session = owner.session
    BY <1>2, <2>5 DEF OwnerShape
  <2> QED
    BY <2>1, <2>2, <2>3, <2>4, <2>6 DEF Blank, Outside, NewProcess, Launched
<1>6. CASE Attests(c) \/ (Lists(c) /\ call[c].kind # "models")
  <2>1. /\ UNCHANGED <<call, turn, runtime>>
        /\ owner' = owner \/ owner' = [owner EXCEPT !.metadata = TRUE]
        /\ \E boot : codex' = [codex EXCEPT !.boot = boot]
    BY <1>6 DEF Attests, Lists
  <2>2. Unused
    BY <1>6 DEF Attests, Lists, Boots, Unused
  <2>3. Outside
    BY <1>2, <2>1, <2>2 DEF Outside, OwnerShape, NobodyHears
  <2> QED
    BY <1>2, <2>1, <2>3 DEF Aside, Prompting, HasHandler, OwnerShape, CodexShape
<1>7. CASE OpensThread(c)
  <2>1. /\ UNCHANGED <<turn, runtime>> /\ owner' = [owner EXCEPT !.session = TRUE]
        /\ codex' = [codex EXCEPT !.boot = "open"] /\ (Moves(c, "ended") \/ Moves(c, "ready"))
    BY <1>7 DEF OpensThread, Leaves
  <2>2. ~HasHandler'
    BY <1>2, <2>1, MoveOfCall DEF HasHandler, Subscribed, Settling
  <2>3. Unused
    BY <1>7 DEF OpensThread, Boots, Unused
  <2>4. Outside
    <3>1. NobodyHears
      BY <1>1, <1>2, <2>1, MoveHears DEF Waiting
    <3> QED
      BY <1>2, <2>1, <2>3, <3>1 DEF Outside, OwnerShape
  <2> QED
    BY <1>2, <2>1, <2>2, <2>4 DEF Aside, Prompting, HasHandler, OwnerShape, CodexShape
<1> QED
  BY <1>3, <1>4, <1>5, <1>6, <1>7 DEF Preflight

\* A stop, of a call or of close(), finds the process without a turn, and leaves it so.
LEMMA StopClass ==
  ASSUME IInv, TurnInv, NEW x \in Calls \cup {Closer}, StopStep(x)
  PROVE  Aside \/ Blank
<1>1. /\ Shape /\ OwnerShape
      /\ \/ x \in Calls /\ call[x].at = "stopping" /\ Moves(x, "ended")
         \/ x = Closer /\ closer.at = "stopping" /\ call' = call
      /\ UNCHANGED <<turn, codex>>
  BY ShapeParts, ConstantsOK
     DEF IInv, StopStep, Stopped, StopFails, StopReturns, Stopping
<1>2. ~HasHandler /\ ~owner.session
  <2>1. CASE x \in Calls /\ call[x].at = "stopping"
    BY <2>1, NonePrompts DEF Active, Prompting, Subscribed, Settling, IInv, StagesAgree
  <2>2. CASE closer.at = "stopping"
    BY <2>2, CloserIsAlone DEF Active, HasHandler, Subscribed, Settling, IInv, StagesAgree
  <2> QED
    BY <1>1, <2>1, <2>2
<1>3. ~HasHandler' /\ \A c \in Calls : ~Prompting(c) /\ ~Prompting(c)'
  BY <1>1, <1>2, MoveOfCall DEF HasHandler, Prompting, Subscribed, Settling
<1>4. runtime.made = 0 /\ codex.turn = 0 /\ codex.retired = {}
  BY <1>2 DEF TurnInv, NothingRuns
<1>7. NobodyHears /\ \A c \in Calls : call'[c].at = "starting" => call[c].at = "starting"
  BY <1>1, MoveOfCall, MoveHears DEF NobodyHears, Waiting
<1>5. CASE Stopped(x)
  <2>1. owner' = [owner EXCEPT !.client = FALSE]
    BY <1>5 DEF Stopped
  <2>2. Outside /\ ~owner'.session
    BY <1>1, <1>2, <1>7, <2>1 DEF Outside, Unused, OwnerShape
  <2> QED
    BY <1>1, <1>3, <1>4, <1>5, <2>2 DEF Stopped, Blank, NoProcess, NewProcess
<1>6. CASE StopFails(x)
  <2>1. runtime' = runtime /\ owner' = [owner EXCEPT !.uncertain = TRUE]
    BY <1>6 DEF StopFails
  <2>2. Outside
    BY <1>1, <1>2, <1>7, <2>1 DEF Outside, Unused, OwnerShape
  <2> QED
    BY <1>1, <1>3, <2>1, <2>2 DEF Aside, OwnerShape
<1> QED
  BY <1>5, <1>6 DEF StopStep

LEMMA CancelledClass ==
  ASSUME IInv, NEW c \in Calls, Cancelled(c)
  PROVE  Aside \/ Blank \/ Unsettled(c)
<1>1. CASE \/ call[c].at = "queued" /\ Moves(c, "ended") /\ UNCHANGED <<owner, turn, codex, runtime>>
           \/ call[c].at = "stopping" /\ Leaves(c) /\ UNCHANGED <<owner, turn, codex, runtime>>
  BY <1>1, MoveIsAside DEF Leaves, Prompting, Subscribed, Settling, Waiting
<1>2. CASE call[c].at = "starting" /\ Stops(c, owner) /\ turn' = turn
  BY <1>2, OwnerIsOwner, StopIsBlank DEF Active, Unused, IInv
<1>3. CASE call[c].at \in {"sending", "reading"} /\ Settles(c) /\ UNCHANGED <<codex, runtime>>
  BY <1>3 DEF Unsettled
<1>4. CASE call[c].at \in Settling /\ Poisons(c)
  BY <1>4, PoisonsIsBlank DEF Subscribed
<1> QED
  BY <1>1, <1>2, <1>3, <1>4 DEF Cancelled

LEMMA CloseClass ==
  ASSUME IInv, CloseBegins \/ CloseAwaited \/ CloseQueues \/ CloseStops
  PROVE  Aside \/ Blank
<1>1. OwnerShape
  BY ShapeParts DEF IInv
<1>2. CASE CloseBegins \/ CloseAwaited \/ CloseQueues
  <2>1. /\ UNCHANGED <<call, turn, codex, runtime>>
        /\ owner' = owner \/ owner' = [owner EXCEPT !.closed = TRUE]
    BY <1>2 DEF CloseBegins, CloseAwaited, CloseQueues
  <2>2. Outside
    BY <1>1, <2>1 DEF Outside, Unused, NobodyHears, OwnerShape
  <2> QED
    BY <1>1, <2>1, <2>2 DEF Aside, OwnerShape
<1>3. CASE CloseStops
  <2>1. Drops(owner) /\ UNCHANGED <<call, turn>> /\ Holds(Closer)
    BY <1>3 DEF CloseStops
  <2>2. ~HasHandler' /\ \A c \in Calls : call'[c].at # "starting"
    BY <2>1, CloserIsAlone DEF HasHandler, Active, Subscribed, Settling
  <2>3. owner.closed /\ NobodyHears
    BY <1>3, <2>1 DEF CloseStops, IInv, StagesAgree, NobodyHears
  <2>4. IsOwner(owner, owner.uncertain)
    BY OwnerIsOwner DEF IInv
  <2> QED
    BY <2>1, <2>2, <2>3, <2>4, DropIsBlank DEF IInv
<1> QED
  BY <1>2, <1>3

\* What the adapter has after a turn that is over.
LEMMA OverOwner ==
  ASSUME IInv, NEW c \in Calls, ReadsDone(c) \/ IsIdle(c)
  PROVE  \E o : IsOwner(o, owner.uncertain) /\ TurnOver(c, o)
<1> DEFINE short == [owner EXCEPT !.snapshot = TRUE]
           known == [owner EXCEPT !.snapshot = FALSE]
<1>1. /\ IsOwner(owner, owner.uncertain)
      /\ IsOwner(short, owner.uncertain) /\ IsOwner(known, owner.uncertain)
  BY OwnerIsOwner, OwnerField DEF IInv
<1>2. \/ TurnOver(c, owner) \/ TurnOver(c, short)
      \/ \E x : TurnOver(c, [known EXCEPT !.history = x])
  BY DEF ReadsDone, IsIdle
<1> HIDE DEF short, known
<1>3. \A x : IsOwner([known EXCEPT !.history = x], owner.uncertain)
  BY <1>1, OwnerField, Zenon
<1> QED
  BY <1>1, <1>2, <1>3

LEMMA TurnClass ==
  ASSUME IInv, NEW c \in Calls, TurnStep(c)
  PROVE  \/ Aside \/ Blank \/ BeginsTurn(c) \/ SendReturns(c) \/ Unsettled(c) \/ Hears(c)
         \/ Interrupts(c) \/ InterruptReturns(c) \/ Finishes(c)
<1>1. CASE PromptRefused(c)
  <2>1. /\ Moves(c, "ended") /\ UNCHANGED <<turn, runtime, owner, codex>>
        /\ call[c].at \in {"ready", "queued"}
    BY <1>1 DEF PromptRefused, Leaves, MayPrompt
  <2> QED
    BY <2>1, MoveIsAside DEF Prompting, Subscribed, Settling, Waiting
<1>2. CASE TurnFails(c)
  BY <1>2 DEF TurnFails, Unsettled
<1>3. CASE ReadsText(c)
  BY <1>3 DEF ReadsText, Unsettled, Hears
<1>4. CASE (ReadsDone(c) \/ IsIdle(c)) /\ turn.safety
  <2>1. PICK o : IsOwner(o, owner.uncertain) /\ TurnOver(c, o)
    BY <1>4, OverOwner
  <2>2. Active(c)
    BY <1>4 DEF ReadsDone, IsIdle, Active
  <2> DEFINE rest == [o EXCEPT !.retired = @ \cup turn.seen]
             doubted == [rest EXCEPT !.uncertain = TRUE]
  <2>3. Stops(c, doubted) /\ turn' = NoTurn
    BY <1>4, <2>1 DEF TurnOver
  <2>4. IsOwner(rest, owner.uncertain)
    BY <2>1, OwnerField
  <2> HIDE DEF rest
  <2>5. IsOwner(doubted, TRUE)
    BY <2>4, OwnerField
  <2> HIDE DEF doubted
  <2> QED
    BY <2>2, <2>3, <2>5, StopIsBlank
<1>5. CASE SettlingFails(c)
  BY <1>5, PoisonsIsBlank DEF SettlingFails, Subscribed
<1> QED
  BY <1>1, <1>2, <1>3, <1>4, <1>5 DEF TurnStep, Finishes

\* A step leaves the turn alone, is one of it, or is one of the transport or the process.
LEMMA StepClass ==
  ASSUME IInv, TurnInv, [Next]_vars
  PROVE  \/ Aside \/ Blank \/ ReaderStep \/ RuntimeStep
         \/ \E c \in Calls : \/ BeginsTurn(c) \/ SendReturns(c) \/ Unsettled(c) \/ Hears(c)
                             \/ Interrupts(c) \/ InterruptReturns(c) \/ Finishes(c)
<1>1. ASSUME NEW c \in Calls, Cancel(c) \/ CloseCancels(c) PROVE Aside \/ Blank \/ Unsettled(c)
  BY <1>1, CancelledClass DEF Cancel, CloseCancels
<1>2. ASSUME UNCHANGED vars PROVE Aside
  BY <1>2 DEF Aside, Outside, Unused, NobodyHears, vars
<1>3. ASSUME NEW c \in Calls, CallerStep(c) PROVE Aside \/ Blank \/ Unsettled(c)
  BY <1>1, <1>3, CallerClass DEF CallerStep
<1>4. ASSUME NEW c \in Calls, StopStep(c) PROVE Aside \/ Blank
  BY <1>4, StopClass
<1>5. ASSUME CloseBegins \/ CloseStep
      PROVE  Aside \/ Blank \/ \E c \in Calls : Unsettled(c)
  BY <1>1, <1>5, CloseClass, StopClass DEF CloseStep
<1> QED
  BY <1>2, <1>3, <1>4, <1>5, PreflightClass, TurnClass DEF Next

-----------------------------------------------------------------------------
(* The lines of the process.                                               *)

LEMMA LineTypes ==
  /\ \A kind \in {"answer", "reject", "started", "delta", "item", "error", "tool"}
                   \cup Ends \cup Confirms, n \in Nat, k \in 0..MaxParts :
       /\ Line0(kind, n, k) \in AgentLine
       /\ Line0(kind, n, k).kind = kind /\ Line0(kind, n, k).turn = n
       /\ Line0(kind, n, k).part = k
  /\ <<>> \in Seq(AgentLine)
BY DEF Line0, AgentLine

\* One line is taken.
LEMMA TailOfLines ==
  ASSUME NEW s \in Seq(AgentLine), s # <<>>
  PROVE  /\ Tail(s) \in Seq(AgentLine) /\ Head(s) \in AgentLine /\ Head(s) = s[1]
         /\ Len(s) \in Nat \ {0} /\ Len(Tail(s)) = Len(s) - 1
         /\ \A i \in 1..Len(Tail(s)) : i + 1 \in 1..Len(s) /\ Tail(s)[i] = s[i + 1]
OBVIOUS

LEMMA HasTail ==
  ASSUME NEW s \in Seq(AgentLine), s # <<>>
  PROVE  /\ \A kinds : Has(Tail(s), kinds) => Has(s, kinds)
         /\ \A kinds : Head(s).kind \in kinds => Has(s, kinds)
<1>1. \A kinds : Has(Tail(s), kinds) => Has(s, kinds)
  BY TailOfLines DEF Has
<1>2. \A kinds : Head(s).kind \in kinds => Has(s, kinds)
  <2>1. 1 \in 1..Len(s) /\ Head(s) = s[1]
    BY TailOfLines
  <2> QED
    BY <2>1 DEF Has
<1> QED
  BY <1>1, <1>2

LEMMA TailKeeps ==
  ASSUME NEW s \in Seq(AgentLine), s # <<>>
  PROVE  /\ \A n : LateLines(s, n) => LateLines(Tail(s), n)
         /\ \A n : AskedLines(s, n) => AskedLines(Tail(s), n)
         /\ \A n : LinesOf(s, n) => LinesOf(Tail(s), n)
         /\ EndIsLast(s) => EndIsLast(Tail(s))
         /\ OneConfirms(s) => OneConfirms(Tail(s))
         /\ OneConfirms(s) /\ Head(s).kind \in Confirms => ~Has(Tail(s), Confirms)
         /\ EndIsLast(s) /\ Head(s).kind \in Ends =>
              ~Has(Tail(s), {"answer", "started", "item", "error", "tool"} \cup Ends)
<1>1. /\ Tail(s) \in Seq(AgentLine) /\ Head(s) = s[1] /\ 1 \in 1..Len(s) /\ Len(Tail(s)) \in Nat
      /\ \A i \in 1..Len(Tail(s)) : i + 1 \in 1..Len(s) /\ 1 < i + 1 /\ i \in Nat
                                    /\ Tail(s)[i] = s[i + 1]
  BY TailOfLines
<1>2. \A n : LateLines(s, n) => LateLines(Tail(s), n)
  BY <1>1 DEF LateLines
<1>3. \A n : AskedLines(s, n) => AskedLines(Tail(s), n)
  BY <1>1 DEF AskedLines
<1>4. \A n : LinesOf(s, n) => LinesOf(Tail(s), n)
  BY <1>1 DEF LinesOf
<1>5. ASSUME EndIsLast(s) PROVE EndIsLast(Tail(s))
  <2> SUFFICES ASSUME NEW i \in 1..Len(Tail(s)), NEW j \in 1..Len(Tail(s)), i < j,
                      Tail(s)[i].kind \in Ends
               PROVE  Tail(s)[j].kind \in {"delta"} \cup Confirms
    BY DEF EndIsLast
  <2>1. i + 1 < j + 1
    BY <1>1
  <2> QED
    BY <1>1, <1>5, <2>1 DEF EndIsLast
<1>6. ASSUME OneConfirms(s) PROVE OneConfirms(Tail(s))
  <2> SUFFICES ASSUME NEW i \in 1..Len(Tail(s)), NEW j \in 1..Len(Tail(s)),
                      Tail(s)[i].kind \in Confirms, Tail(s)[j].kind \in Confirms
               PROVE  i = j
    BY DEF OneConfirms
  <2>1. i + 1 = j + 1
    BY <1>1, <1>6 DEF OneConfirms
  <2> QED
    BY <1>1, <2>1
<1>7. ASSUME OneConfirms(s), Head(s).kind \in Confirms PROVE ~Has(Tail(s), Confirms)
  BY <1>1, <1>7 DEF OneConfirms, Has
<1>8. ASSUME EndIsLast(s), Head(s).kind \in Ends
      PROVE  ~Has(Tail(s), {"answer", "started", "item", "error", "tool"} \cup Ends)
  BY <1>1, <1>8 DEF EndIsLast, Has, Ends, Confirms
<1> QED
  BY <1>2, <1>3, <1>4, <1>5, <1>6, <1>7, <1>8

\* Lines are added.
LEMMA JoinOfLines ==
  ASSUME NEW s \in Seq(AgentLine), NEW t \in Seq(AgentLine)
  PROVE  /\ s \o t \in Seq(AgentLine) /\ Len(s) \in Nat /\ Len(t) \in Nat
         /\ Len(s \o t) = Len(s) + Len(t)
         /\ \A i \in 1..Len(s) : i \in 1..Len(s \o t) /\ (s \o t)[i] = s[i]
         /\ \A i \in 1..Len(t) : Len(s) + i \in 1..Len(s \o t) /\ (s \o t)[Len(s) + i] = t[i]
         /\ \A i \in 1..Len(s \o t) :
              i \in 1..Len(s) \/ (i - Len(s) \in 1..Len(t) /\ (s \o t)[i] = t[i - Len(s)])
OBVIOUS

LEMMA JoinKeeps ==
  ASSUME NEW s \in Seq(AgentLine), NEW t \in Seq(AgentLine)
  PROVE  /\ \A n : LateLines(s, n) /\ LateLines(t, n) => LateLines(s \o t, n)
         /\ \A n : AskedLines(s, n) /\ AskedLines(t, n) => AskedLines(s \o t, n)
         /\ \A n : LinesOf(s, n) /\ LinesOf(t, n) => LinesOf(s \o t, n)
         /\ \A kinds : Has(s \o t, kinds) <=> Has(s, kinds) \/ Has(t, kinds)
<1> DEFINE r == s \o t
<1>1. /\ \A i \in 1..Len(s) : i \in 1..Len(r) /\ r[i] = s[i]
      /\ \A i \in 1..Len(t) : Len(s) + i \in 1..Len(r) /\ r[Len(s) + i] = t[i]
  BY JoinOfLines
<1>6. \A i \in 1..Len(r) : (\E j \in 1..Len(s) : r[i] = s[j]) \/ (\E j \in 1..Len(t) : r[i] = t[j])
  BY JoinOfLines
<1> HIDE DEF r
<1>2. \A n : LateLines(s, n) /\ LateLines(t, n) => LateLines(r, n)
  <2> SUFFICES ASSUME NEW n, LateLines(s, n), LateLines(t, n), NEW i \in 1..Len(r)
               PROVE  r[i].kind = "delta" /\ r[i].turn \in 1..n
    BY DEF LateLines
  <2> QED
    BY <1>6 DEF LateLines
<1>3. \A n : AskedLines(s, n) /\ AskedLines(t, n) => AskedLines(r, n)
  <2> SUFFICES ASSUME NEW n, AskedLines(s, n), AskedLines(t, n), NEW i \in 1..Len(r)
               PROVE  \/ r[i].kind = "delta" /\ r[i].turn \in 1..n
                      \/ r[i].kind = "reject" /\ r[i].turn = 0
    BY DEF AskedLines
  <2> QED
    BY <1>6 DEF AskedLines
<1>4. \A n : LinesOf(s, n) /\ LinesOf(t, n) => LinesOf(r, n)
  <2> SUFFICES ASSUME NEW n, LinesOf(s, n), LinesOf(t, n), NEW i \in 1..Len(r)
               PROVE  /\ r[i].kind # "reject" /\ r[i].turn \in 1..n
                      /\ r[i].kind # "delta" => r[i].turn = n
    BY DEF LinesOf
  <2> QED
    BY <1>6 DEF LinesOf
<1>5. \A kinds : Has(r, kinds) <=> Has(s, kinds) \/ Has(t, kinds)
  BY <1>1, <1>6 DEF Has
<1> QED
  BY <1>2, <1>3, <1>4, <1>5 DEF r

LEMMA JoinKeepsOrder ==
  ASSUME NEW s \in Seq(AgentLine), NEW t \in Seq(AgentLine)
  PROVE  /\ EndIsLast(s) /\ EndIsLast(t) /\ ~Has(s, Ends) => EndIsLast(s \o t)
         /\ EndIsLast(s) /\ ~Has(t, {"answer", "reject", "started", "item", "error", "tool"} \cup Ends)
              => EndIsLast(s \o t)
         /\ OneConfirms(s) /\ OneConfirms(t) /\ ~(Has(s, Confirms) /\ Has(t, Confirms))
              => OneConfirms(s \o t)
<1> DEFINE r == s \o t
<1>1. /\ r \in Seq(AgentLine) /\ Len(s) \in Nat /\ Len(t) \in Nat /\ Len(r) = Len(s) + Len(t)
      /\ \A i \in 1..Len(s) : i \in 1..Len(r) /\ r[i] = s[i]
      /\ \A i \in 1..Len(r) :
           i \in 1..Len(s) \/ (i - Len(s) \in 1..Len(t) /\ r[i] = t[i - Len(s)])
  BY JoinOfLines
<1> HIDE DEF r
<1>2. ASSUME EndIsLast(s), EndIsLast(t), ~Has(s, Ends) PROVE EndIsLast(r)
  <2> SUFFICES ASSUME NEW i \in 1..Len(r), NEW j \in 1..Len(r), i < j, r[i].kind \in Ends
               PROVE  r[j].kind \in {"delta"} \cup Confirms
    BY DEF EndIsLast
  <2>1. i \notin 1..Len(s)
    BY <1>1, <1>2 DEF Has
  <2>2. /\ i - Len(s) \in 1..Len(t) /\ r[i] = t[i - Len(s)]
        /\ j - Len(s) \in 1..Len(t) /\ r[j] = t[j - Len(s)] /\ i - Len(s) < j - Len(s)
    BY <1>1, <2>1
  <2> QED
    BY <1>2, <2>2 DEF EndIsLast
<1>3. ASSUME EndIsLast(s),
             ~Has(t, {"answer", "reject", "started", "item", "error", "tool"} \cup Ends)
      PROVE  EndIsLast(r)
  <2> SUFFICES ASSUME NEW i \in 1..Len(r), NEW j \in 1..Len(r), i < j, r[i].kind \in Ends
               PROVE  r[j].kind \in {"delta"} \cup Confirms
    BY DEF EndIsLast
  <2>1. CASE j \in 1..Len(s)
    <3>1. i \in 1..Len(s)
      BY <1>1, <2>1
    <3> QED
      BY <1>1, <1>3, <2>1, <3>1 DEF EndIsLast
  <2>2. CASE j - Len(s) \in 1..Len(t) /\ r[j] = t[j - Len(s)]
    <3>1. r[j] \in AgentLine
      BY <1>1, ElementOfSeq
    <3>2. r[j].kind \in {"answer", "reject", "started", "delta", "item", "error", "tool"}
                          \cup Ends \cup Confirms
      BY <3>1 DEF AgentLine
    <3>3. r[j].kind \notin {"answer", "reject", "started", "item", "error", "tool"} \cup Ends
      BY <1>3, <2>2 DEF Has
    <3> QED
      BY <3>2, <3>3
  <2> QED
    BY <1>1, <2>1, <2>2
<1>4. ASSUME OneConfirms(s), OneConfirms(t), ~(Has(s, Confirms) /\ Has(t, Confirms))
      PROVE  OneConfirms(r)
  <2> SUFFICES ASSUME NEW i \in 1..Len(r), NEW j \in 1..Len(r),
                      r[i].kind \in Confirms, r[j].kind \in Confirms
               PROVE  i = j
    BY DEF OneConfirms
  <2>1. CASE Has(s, Confirms)
    BY <1>1, <1>4, <2>1 DEF Has, OneConfirms
  <2>2. CASE ~Has(s, Confirms)
    <3>1. /\ i - Len(s) \in 1..Len(t) /\ r[i] = t[i - Len(s)]
          /\ j - Len(s) \in 1..Len(t) /\ r[j] = t[j - Len(s)]
      BY <1>1, <2>2 DEF Has
    <3>2. i - Len(s) = j - Len(s)
      BY <1>4, <3>1 DEF OneConfirms
    <3> QED
      BY <1>1, <3>2
  <2> QED
    BY <2>1, <2>2
<1> QED
  BY <1>2, <1>3, <1>4 DEF r

\* One or two lines at once.
LEMMA OneLine ==
  ASSUME NEW a \in AgentLine
  PROVE  /\ <<a>> \in Seq(AgentLine) /\ EndIsLast(<<a>>) /\ OneConfirms(<<a>>)
         /\ \A kinds : Has(<<a>>, kinds) <=> a.kind \in kinds
         /\ \A n : LinesOf(<<a>>, n) <=>
                     /\ a.kind # "reject" /\ a.turn \in 1..n /\ (a.kind # "delta" => a.turn = n)
         /\ \A n : LateLines(<<a>>, n) <=> a.kind = "delta" /\ a.turn \in 1..n
         /\ \A n : AskedLines(<<a>>, n) <=> \/ a.kind = "delta" /\ a.turn \in 1..n
                                            \/ a.kind = "reject" /\ a.turn = 0
<1> DEFINE s == <<a>>
<1>1. s \in Seq(AgentLine) /\ Len(s) = 1 /\ s[1] = a
  OBVIOUS
<1> HIDE DEF s
<1>2. 1..Len(s) = {1}
  BY <1>1
<1> QED
  BY <1>1, <1>2 DEF s, EndIsLast, OneConfirms, Has, LinesOf, LateLines, AskedLines

LEMMA TwoLines ==
  ASSUME NEW a \in AgentLine, NEW b \in AgentLine
  PROVE  /\ <<a, b>> \in Seq(AgentLine)
         /\ a.kind \notin Ends => EndIsLast(<<a, b>>)
         /\ a.kind \notin Confirms \/ b.kind \notin Confirms => OneConfirms(<<a, b>>)
         /\ \A kinds : Has(<<a, b>>, kinds) <=> a.kind \in kinds \/ b.kind \in kinds
         /\ \A n : LinesOf(<<a>>, n) /\ LinesOf(<<b>>, n) => LinesOf(<<a, b>>, n)
<1>1. <<a>> \in Seq(AgentLine) /\ <<b>> \in Seq(AgentLine)
  OBVIOUS
<1>3. /\ <<a, b>> \in Seq(AgentLine) /\ <<a>> \o <<b>> \in Seq(AgentLine)
      /\ Len(<<a, b>>) = 2 /\ Len(<<a>> \o <<b>>) = 2
      /\ <<a, b>>[1] = (<<a>> \o <<b>>)[1] /\ <<a, b>>[2] = (<<a>> \o <<b>>)[2]
  OBVIOUS
<1>2. <<a, b>> = <<a>> \o <<b>>
  <2>1. \A i \in 1..2 : i = 1 \/ i = 2
    OBVIOUS
  <2> QED
    BY <1>3, <2>1, SeqEqual
<1>4. /\ a.kind \notin Ends => EndIsLast(<<a>> \o <<b>>)
      /\ a.kind \notin Confirms \/ b.kind \notin Confirms => OneConfirms(<<a>> \o <<b>>)
  BY <1>1, OneLine, JoinKeepsOrder
<1>5. \A kinds : Has(<<a>> \o <<b>>, kinds) <=> a.kind \in kinds \/ b.kind \in kinds
  BY <1>1, OneLine, JoinKeeps
<1>6. \A n : LinesOf(<<a>>, n) /\ LinesOf(<<b>>, n) => LinesOf(<<a>> \o <<b>>, n)
  BY <1>1, JoinKeeps
<1> QED
  BY <1>2, <1>3, <1>4, <1>5, <1>6

-----------------------------------------------------------------------------
(* The fields of a turn, and its events.                                   *)

LEMMA TurnField ==
  ASSUME NEW t, IsTurn(t), NEW x
  PROVE  /\ [t EXCEPT !.queue = x] =
              [queue |-> x, idle |-> t.idle, failed |-> t.failed, accepting |-> t.accepting,
               safety |-> t.safety, seen |-> t.seen, sent |-> t.sent, id |-> t.id,
               abort |-> t.abort, before |-> t.before]
         /\ [t EXCEPT !.idle = x] =
              [queue |-> t.queue, idle |-> x, failed |-> t.failed, accepting |-> t.accepting,
               safety |-> t.safety, seen |-> t.seen, sent |-> t.sent, id |-> t.id,
               abort |-> t.abort, before |-> t.before]
         /\ [t EXCEPT !.failed = x] =
              [queue |-> t.queue, idle |-> t.idle, failed |-> x, accepting |-> t.accepting,
               safety |-> t.safety, seen |-> t.seen, sent |-> t.sent, id |-> t.id,
               abort |-> t.abort, before |-> t.before]
         /\ [t EXCEPT !.accepting = x] =
              [queue |-> t.queue, idle |-> t.idle, failed |-> t.failed, accepting |-> x,
               safety |-> t.safety, seen |-> t.seen, sent |-> t.sent, id |-> t.id,
               abort |-> t.abort, before |-> t.before]
         /\ [t EXCEPT !.safety = x] =
              [queue |-> t.queue, idle |-> t.idle, failed |-> t.failed, accepting |-> t.accepting,
               safety |-> x, seen |-> t.seen, sent |-> t.sent, id |-> t.id,
               abort |-> t.abort, before |-> t.before]
         /\ [t EXCEPT !.seen = x] =
              [queue |-> t.queue, idle |-> t.idle, failed |-> t.failed, accepting |-> t.accepting,
               safety |-> t.safety, seen |-> x, sent |-> t.sent, id |-> t.id,
               abort |-> t.abort, before |-> t.before]
         /\ [t EXCEPT !.sent = x] =
              [queue |-> t.queue, idle |-> t.idle, failed |-> t.failed, accepting |-> t.accepting,
               safety |-> t.safety, seen |-> t.seen, sent |-> x, id |-> t.id,
               abort |-> t.abort, before |-> t.before]
         /\ [t EXCEPT !.id = x] =
              [queue |-> t.queue, idle |-> t.idle, failed |-> t.failed, accepting |-> t.accepting,
               safety |-> t.safety, seen |-> t.seen, sent |-> t.sent, id |-> x,
               abort |-> t.abort, before |-> t.before]
         /\ [t EXCEPT !.abort = x] =
              [queue |-> t.queue, idle |-> t.idle, failed |-> t.failed, accepting |-> t.accepting,
               safety |-> t.safety, seen |-> t.seen, sent |-> t.sent, id |-> t.id,
               abort |-> x, before |-> t.before]
BY DEF IsTurn

\* Turn u has the requests and the answers of turn t, and ...
Talk(t, u) == u.sent = t.sent /\ u.id = t.id /\ u.abort = t.abort /\ u.before = t.before

\* ... more events, of certain kinds.
News(t, u, kinds) ==
  /\ IsTurn(u) /\ Talk(t, u) /\ u.accepting = t.accepting
  /\ u.queue \in Seq(AgentEvent)
  /\ Len(t.queue) <= QueueSize => Len(u.queue) <= QueueSize
  /\ \A k \in {"text", "done", "error"} : Has(u.queue, {k}) => Has(t.queue, {k}) \/ k \in kinds

LEMMA HasAppend ==
  ASSUME NEW s \in Seq(AgentEvent), NEW e \in AgentEvent
  PROVE  /\ Append(s, e) \in Seq(AgentEvent) /\ Len(Append(s, e)) = Len(s) + 1 /\ Len(s) \in Nat
         /\ \A kinds : Has(Append(s, e), kinds) <=> (Has(s, kinds) \/ e.kind \in kinds)
<1> DEFINE r == Append(s, e)
<1>1. /\ r \in Seq(AgentEvent) /\ Len(r) = Len(s) + 1 /\ Len(s) \in Nat /\ r[Len(s) + 1] = e
      /\ \A i \in 1..Len(s) : r[i] = s[i]
  BY AppendProperties
<1> HIDE DEF r
<1>2. \A i \in 1..Len(r) : i \in 1..Len(s) \/ i = Len(s) + 1
  BY <1>1
<1>3. Len(s) + 1 \in 1..Len(r) /\ \A i \in 1..Len(s) : i \in 1..Len(r)
  BY <1>1
<1>4. \A kinds : Has(r, kinds) <=> (Has(s, kinds) \/ e.kind \in kinds)
  BY <1>1, <1>2, <1>3 DEF Has
<1> QED
  BY <1>1, <1>4 DEF r

LEMMA HasTailEvent ==
  ASSUME NEW s \in Seq(AgentEvent), s # <<>>
  PROVE  /\ Tail(s) \in Seq(AgentEvent) /\ Len(Tail(s)) <= Len(s) /\ Len(s) \in Nat
         /\ \A kinds : Has(Tail(s), kinds) => Has(s, kinds)
         /\ \A kinds : Head(s).kind \in kinds => Has(s, kinds)
<1>1. /\ Tail(s) \in Seq(AgentEvent) /\ Len(Tail(s)) <= Len(s) /\ Len(s) \in Nat
      /\ Head(s) = s[1] /\ 1 \in 1..Len(s)
      /\ \A i \in 1..Len(Tail(s)) : i + 1 \in 1..Len(s) /\ Tail(s)[i] = s[i + 1]
  OBVIOUS
<1> QED
  BY <1>1 DEF Has

LEMMA NoNews ==
  ASSUME NEW t, IsTurn(t), t.queue \in Seq(AgentEvent)
  PROVE  News(t, t, {})
BY DEF News, Talk

LEMMA NewsOfPut ==
  ASSUME NEW t, IsTurn(t), t.queue \in Seq(AgentEvent), NEW kind \in {"text", "done", "error"},
         NEW n \in Nat, NEW first \in 0..MaxParts, NEW last \in 0..MaxParts
  PROVE  /\ News(t, Put(t, kind, n, first, last), {kind})
         /\ Put(t, kind, n, first, last).idle = t.idle
<1> DEFINE e == [kind |-> kind, turn |-> n, first |-> first, last |-> last]
           u == [t EXCEPT !.queue = Append(t.queue, e)]
<1>1. e \in AgentEvent /\ e.kind = kind
  BY DEF AgentEvent
<1>2. Put(t, kind, n, first, last) = IF Len(t.queue) = QueueSize THEN t ELSE u
  BY DEF Put
<1> HIDE DEF e
<1>3. IsTurn(u) /\ Talk(t, u) /\ u.accepting = t.accepting /\ u.idle = t.idle
      /\ u.queue = Append(t.queue, e)
  <2> DEFINE q == Append(t.queue, e)
  <2>1. u = [t EXCEPT !.queue = q]
    OBVIOUS
  <2> HIDE DEF q
  <2>2. u = [queue |-> q, idle |-> t.idle, failed |-> t.failed, accepting |-> t.accepting,
             safety |-> t.safety, seen |-> t.seen, sent |-> t.sent, id |-> t.id,
             abort |-> t.abort, before |-> t.before]
    BY <2>1, TurnField
  <2> HIDE DEF u
  <2>3. u.queue = q /\ u.idle = t.idle /\ u.failed = t.failed /\ u.accepting = t.accepting
        /\ u.safety = t.safety /\ u.seen = t.seen /\ u.sent = t.sent /\ u.id = t.id
        /\ u.abort = t.abort /\ u.before = t.before
    BY <2>2
  <2>4. IsTurn(u)
    BY <2>2, <2>3 DEF IsTurn
  <2> QED
    BY <2>3, <2>4 DEF Talk, q
<1> HIDE DEF u
<1>4. Len(t.queue) <= QueueSize /\ Len(t.queue) # QueueSize => Len(u.queue) <= QueueSize
  BY <1>1, <1>3, HasAppend, ConstantsOK
<1>5. Len(t.queue) # QueueSize => News(t, u, {kind})
  BY <1>1, <1>3, <1>4, HasAppend DEF News
<1>6. News(t, t, {kind})
  BY DEF News, Talk
<1> QED
  BY <1>2, <1>3, <1>5, <1>6

LEMMA NewsOfFails ==
  ASSUME NEW t, IsTurn(t), t.queue \in Seq(AgentEvent)
  PROVE  News(t, Fails(t), {"error"}) /\ Fails(t).idle = t.idle /\ Fails(t).failed
<1> DEFINE u == Put(t, "error", 0, 0, 0)
<1>1. News(t, u, {"error"}) /\ u.idle = t.idle
  BY NewsOfPut, ConstantsOK
<1>2. Fails(t) = [u EXCEPT !.failed = TRUE]
  BY DEF Fails
<1> HIDE DEF u
<1>3. /\ IsTurn(Fails(t)) /\ Talk(u, Fails(t)) /\ Fails(t).queue = u.queue /\ Fails(t).failed
      /\ Fails(t).accepting = u.accepting /\ Fails(t).idle = u.idle
  BY <1>1, <1>2, TurnField DEF IsTurn, Talk, News
<1> QED
  BY <1>1, <1>3 DEF News, Talk

LEMMA NewsOfError ==
  ASSUME NEW t, IsTurn(t), t.queue \in Seq(AgentEvent)
  PROVE  News(t, OnError(t), {"error"}) /\ OnError(t).idle = t.idle
BY NewsOfFails, NoNews DEF OnError, News

LEMMA NewsOfTool ==
  ASSUME NEW t, IsTurn(t), t.queue \in Seq(AgentEvent)
  PROVE  News(t, OnTool(t), {"error"}) /\ OnTool(t).idle = t.idle
<1> DEFINE f == Fails(t)
           u == [f EXCEPT !.safety = TRUE]
<1>1. OnTool(t) = IF t.accepting THEN u ELSE t
  BY DEF OnTool
<1>2. News(t, f, {"error"}) /\ f.idle = t.idle
  BY NewsOfFails
<1> HIDE DEF f
<1>3. IsTurn(u) /\ Talk(f, u) /\ u.queue = f.queue /\ u.accepting = f.accepting /\ u.idle = f.idle
  BY ZenonT(60), <1>2, TurnField DEF IsTurn, Talk, News
<1> HIDE DEF u
<1> QED
  BY <1>1, <1>2, <1>3, NoNews DEF News, Talk

LEMMA NewsOfIdle ==
  ASSUME NEW t, IsTurn(t), t.queue \in Seq(AgentEvent)
  PROVE  News(t, OnIdle(t), {"done"}) /\ OnIdle(t).idle = TRUE
<1> DEFINE p == Put(t, "done", 0, 0, 0)
           q == IF t.accepting THEN p ELSE t
           u == [q EXCEPT !.idle = TRUE]
<1>1. OnIdle(t) = u
  BY DEF OnIdle
<1>2. News(t, q, {"done"})
  <2>1. News(t, p, {"done"})
    BY NewsOfPut, ConstantsOK
  <2> QED
    BY <2>1, NoNews DEF News
<1> HIDE DEF q
<1>3. IsTurn(u) /\ Talk(q, u) /\ u.queue = q.queue /\ u.accepting = q.accepting /\ u.idle = TRUE
  BY ZenonT(60), <1>2, TurnField DEF IsTurn, Talk, News
<1> HIDE DEF u
<1> QED
  BY <1>1, <1>2, <1>3 DEF News, Talk

LEMMA NewsOfText ==
  ASSUME NEW t, IsTurn(t), t.queue \in Seq(AgentEvent), NEW n \in Nat,
         NEW first \in 0..MaxParts, NEW last \in 0..MaxParts
  PROVE  /\ News(t, OnText(t, n, first, last), {"text", "error"})
         /\ OnText(t, n, first, last).idle = t.idle
<1> DEFINE s == [t EXCEPT !.seen = t.seen \cup {n}]
           p == Put(s, "text", n, first, last)
<1>1. /\ OnText(t, n, first, last) = t \/ OnText(t, n, first, last) = Fails(s)
         \/ OnText(t, n, first, last) = p
  BY DEF OnText
<1>2. IsTurn(s) /\ Talk(t, s) /\ s.queue = t.queue /\ s.accepting = t.accepting /\ s.idle = t.idle
  BY ZenonT(60), TurnField DEF IsTurn, Talk
<1> HIDE DEF s
<1>3. News(s, Fails(s), {"error"}) /\ Fails(s).idle = s.idle
  BY <1>2, NewsOfFails
<1>4. News(s, p, {"text"}) /\ p.idle = s.idle
  BY <1>2, NewsOfPut
<1> HIDE DEF p
<1>5. News(t, Fails(s), {"text", "error"}) /\ News(t, p, {"text", "error"})
  BY <1>2, <1>3, <1>4 DEF News, Talk
<1> QED
  BY <1>1, <1>2, <1>3, <1>4, <1>5, NoNews DEF News

LEMMA NewsOfItem ==
  ASSUME NEW t, IsTurn(t), t.queue \in Seq(AgentEvent), NEW n \in Nat, NEW last \in 0..MaxParts
  PROVE  /\ News(t, OnItem(t, n, last), {"text", "error"})
         /\ OnItem(t, n, last).idle = t.idle
<1>1. 1 \in 0..MaxParts
  BY ConstantsOK
<1> DEFINE u == OnText(t, n, 1, last)
<1>2. News(t, u, {"text", "error"}) /\ u.idle = t.idle
  BY <1>1, NewsOfText
<1>3. News(t, t, {"text", "error"})
  BY NoNews DEF News
<1>4. OnItem(t, n, last) = IF n \in t.seen THEN t ELSE u
  BY DEF OnItem
<1> HIDE DEF u
<1> QED
  BY <1>2, <1>3, <1>4

LEMMA NewsAfter ==
  ASSUME NEW t, NEW u, NEW v, NEW j, NEW k, News(t, u, j), News(u, v, k)
  PROVE  News(t, v, j \cup k)
BY DEF News, Talk

-----------------------------------------------------------------------------
(* Who is ready to prompt has a session.                                   *)

LEMMA SessionStays ==
  ASSUME SessionInv, owner'.session = owner.session, owner'.metadata = owner.metadata,
         \A c \in Calls : /\ call'[c].at \in Subscribed \cup {"ready"} =>
                               call[c].at \in Subscribed \cup {"ready"}
                          /\ call[c].at = "starting" => call'[c].at = "starting"
  PROVE  SessionInv'
BY DEF SessionInv, Prompting

LEMMA SessionDropped ==
  ASSUME Shape, OwnerShape, NEW o, Drops(o), IsOwner(o, o.uncertain),
         \A c \in Calls : call'[c].at \notin Subscribed \cup {"ready"}
  PROVE  SessionInv'
<1>1. o = [client |-> o.client, session |-> o.session, metadata |-> o.metadata,
           snapshot |-> o.snapshot, closed |-> o.closed, uncertain |-> o.uncertain,
           history |-> o.history, retired |-> o.retired]
  BY DEF IsOwner
<1>2. OwnerIs(o.client, FALSE, FALSE, o.closed, o.uncertain)
  BY <1>1, DropOfOwner
<1>3. ~owner'.session /\ ~owner'.metadata
  BY <1>2, OwnerFields
<1> QED
  BY <1>3 DEF SessionInv, Prompting

LEMMA SessionStopped ==
  ASSUME IInv, NEW c \in Calls, Active(c) \/ (Holds(c) /\ call[c].at = "queued"),
         NEW o, Stops(c, o), IsOwner(o, o.uncertain)
  PROVE  SessionInv'
<1>1. Alone(c) /\ Drops(o) /\ Moves(c, "stopping") /\ Shape /\ OwnerShape
  BY HolderIsAlone, ShapeParts DEF Stops, IInv
<1>2. call'[c].at = "stopping" /\ \A d \in Calls \ {c} : call'[d] = call[d]
  BY <1>1, MoveOfCall
<1>3. \A d \in Calls : call'[d].at \notin Subscribed \cup {"ready"}
  BY <1>1, <1>2 DEF Alone, Active, Subscribed, Settling
<1> QED
  BY <1>1, <1>3, SessionDropped

\* A call moves, to where it needs no session or from where it has one.
LEMMA SessionMoves ==
  ASSUME IInv, SessionInv, NEW c \in Calls, NEW at, Moves(c, at),
         owner'.session = owner.session, owner'.metadata = owner.metadata,
         call[c].at # "starting",
         at \in Subscribed \cup {"ready"} => call[c].at \in Subscribed \cup {"ready"}
  PROVE  SessionInv'
<1>1. call'[c].at = at /\ \A d \in Calls \ {c} : call'[d] = call[d]
  BY MoveOfCall DEF IInv
<1> QED
  BY <1>1, SessionStays

LEMMA SessionOfCancelled ==
  ASSUME IInv, SessionInv, NEW c \in Calls, Cancelled(c)
  PROVE  SessionInv'
<1>1. IsOwner(owner, owner.uncertain)
  BY OwnerIsOwner DEF IInv
<1>2. CASE call[c].at \in {"queued", "stopping"} /\ Moves(c, "ended") /\ owner' = owner
  BY <1>2, SessionMoves DEF Subscribed, Settling
<1>3. CASE call[c].at = "starting" /\ Stops(c, owner)
  BY <1>1, <1>3, SessionStopped DEF Active
<1>4. CASE call[c].at \in {"sending", "reading"} /\ Settles(c)
  <2>1. owner'.session = owner.session /\ owner'.metadata = owner.metadata
    BY <1>4, OwnerStays, OwnerFields DEF Settles, IInv
  <2> QED
    BY <1>4, <2>1, SessionMoves DEF Settles, Subscribed, Settling
<1>5. CASE call[c].at \in Settling /\ Poisons(c)
  <2> DEFINE a == [owner EXCEPT !.uncertain = TRUE]
             o == [a EXCEPT !.retired = owner.retired \cup turn.seen]
  <2>1. Stops(c, o)
    BY <1>5 DEF Poisons
  <2>2. IsOwner(a, TRUE)
    BY <1>1, OwnerField
  <2> HIDE DEF a
  <2>3. IsOwner(o, TRUE)
    BY <2>2, OwnerField
  <2> HIDE DEF o
  <2>4. IsOwner(o, o.uncertain)
    BY <2>3 DEF IsOwner
  <2> QED
    BY <1>5, <2>1, <2>4, SessionStopped DEF Active, Settling
<1> QED
  BY <1>2, <1>3, <1>4, <1>5 DEF Cancelled, Leaves

LEMMA SessionOfPreflight ==
  ASSUME IInv, SessionInv, NEW c \in Calls, Preflight(c)
  PROVE  SessionInv'
<1>1. Shape /\ IsOwner(owner, owner.uncertain)
  BY OwnerIsOwner DEF IInv
<1>2. CASE Returns(c)
  BY <1>2, SessionMoves DEF Returns, Leaves, Subscribed, Settling
<1>3. CASE FindsNoBinary(c) \/ PreflightFails(c) \/ (Lists(c) /\ call[c].kind = "models")
  <2>1. Stops(c, owner) /\ (Active(c) \/ (Holds(c) /\ call[c].at = "queued"))
    BY <1>3 DEF FindsNoBinary, MayStart, PreflightFails, Lists, Boots, Active
  <2> QED
    BY <1>1, <2>1, SessionStopped
<1>4. CASE StartsRuntime(c)
  <2>1. /\ Moves(c, "starting") /\ owner' = [owner EXCEPT !.client = TRUE]
        /\ call[c].at = "queued"
    BY <1>4 DEF StartsRuntime, MayStart
  <2>2. owner'.session = owner.session /\ owner'.metadata = owner.metadata
    BY <1>1, <2>1, OwnerStays, OwnerFields
  <2> QED
    BY <2>1, <2>2, SessionMoves DEF Subscribed, Settling
<1>5. CASE Relaunches(c) \/ Attests(c)
  BY <1>5, SessionStays DEF Relaunches, Attests
<1>6. CASE Lists(c) /\ call[c].kind # "models"
  <2>1. call[c].at = "starting" /\ owner' = [owner EXCEPT !.metadata = TRUE] /\ call' = call
    BY <1>6 DEF Lists, Boots
  <2>2. owner'.session = owner.session
    BY <1>1, <2>1, OwnerStays, OwnerFields
  <2> QED
    BY <2>1, <2>2 DEF SessionInv, Prompting
<1>7. CASE OpensThread(c)
  <2>1. owner' = [owner EXCEPT !.session = TRUE]
    BY <1>7 DEF OpensThread
  <2>2. owner'.session
    BY <1>1, <2>1, OwnerStays, OwnerFields
  <2> QED
    BY <2>2 DEF SessionInv
<1> QED
  BY <1>2, <1>3, <1>4, <1>5, <1>6, <1>7 DEF Preflight

LEMMA SessionOfTurnOver ==
  ASSUME IInv, SessionInv, NEW c \in Calls, call[c].at \in Subscribed,
         NEW o, IsOwner(o, owner.uncertain), TurnOver(c, o)
  PROVE  SessionInv'
<1> DEFINE after == [o EXCEPT !.retired = @ \cup turn.seen]
           doubted == [after EXCEPT !.uncertain = TRUE]
<1>1. \/ Stops(c, doubted)
      \/ Leaves(c) /\ owner' = after
  BY DEF TurnOver
<1>2. IsOwner(after, owner.uncertain)
  BY OwnerField
<1> HIDE DEF after
<1>3. IsOwner(doubted, TRUE)
  BY <1>2, OwnerField
<1> HIDE DEF doubted
<1>4. CASE Stops(c, doubted)
  <2>1. IsOwner(doubted, doubted.uncertain)
    BY <1>3 DEF IsOwner
  <2> QED
    BY <1>4, <2>1, SessionStopped DEF Active, Subscribed, Settling
<1>5. CASE Leaves(c) /\ owner' = after
  <2>1. owner'.session = owner.session /\ owner'.metadata = owner.metadata
    BY <1>2, <1>5 DEF IsOwner
  <2> QED
    BY <1>5, <2>1, SessionMoves DEF Leaves, Subscribed, Settling
<1> QED
  BY <1>1, <1>4, <1>5

LEMMA SessionOfTurn ==
  ASSUME IInv, SessionInv, NEW c \in Calls, TurnStep(c)
  PROVE  SessionInv'
<1>1. Shape /\ IsOwner(owner, owner.uncertain)
  BY OwnerIsOwner DEF IInv
<1>2. CASE PromptRefused(c)
  BY <1>2, SessionMoves DEF PromptRefused, MayPrompt, Leaves, Subscribed, Settling
<1>3. CASE BeginsTurn(c)
  <2>1. /\ Moves(c, "sending") /\ owner' = owner /\ Holds(c)
        /\ call[c].at = "ready" \/ (call[c].at = "queued" /\ owner.metadata)
    BY <1>3 DEF BeginsTurn, MayPrompt
  <2>2. CASE call[c].at = "ready"
    BY <2>1, <2>2, SessionMoves
  <2>3. CASE call[c].at = "queued" /\ owner.metadata
    <3>1. owner.session
      BY <2>1, <2>3, HolderIsAlone DEF SessionInv, Alone, Active
    <3> QED
      BY <2>1, <3>1 DEF SessionInv
  <2> QED
    BY <2>1, <2>2, <2>3
<1>4. CASE SendReturns(c) \/ Interrupts(c) \/ InterruptReturns(c)
  <2>1. /\ Moves(c, "reading") \/ Moves(c, "idling") \/ Moves(c, "interrupting")
        /\ owner' = owner /\ call[c].at \in Subscribed
    BY <1>4 DEF SendReturns, Interrupts, InterruptReturns, Subscribed, Settling
  <2> QED
    BY <2>1, SessionMoves DEF Subscribed, Settling
<1>5. CASE TurnFails(c) \/ (ReadsText(c) /\ Settles(c))
  <2>1. call[c].at \in {"sending", "reading"} /\ Settles(c)
    BY <1>5 DEF TurnFails, ReadsText
  <2>2. owner'.session = owner.session /\ owner'.metadata = owner.metadata
    BY <1>1, <2>1, OwnerStays, OwnerFields DEF Settles
  <2> QED
    BY <2>1, <2>2, SessionMoves DEF Settles, Subscribed, Settling
<1>6. CASE ReadsText(c) /\ ~Settles(c)
  <2>1. owner' = owner /\ \E x : call' = [call EXCEPT ![c].heard = x]
    BY <1>6 DEF ReadsText
  <2>2. CallShape
    BY <1>1, ShapeParts
  <2>3. \A d \in Calls : call'[d].at = call[d].at
    BY <2>1, <2>2 DEF CallShape
  <2> QED
    BY <2>1, <2>3, SessionStays
<1>7. CASE ReadsDone(c)
  <2> DEFINE short == [owner EXCEPT !.snapshot = TRUE]
             known == [owner EXCEPT !.snapshot = FALSE]
  <2>1. IsOwner(short, owner.uncertain) /\ IsOwner(known, owner.uncertain)
    BY <1>1, OwnerField
  <2>2. /\ call[c].at = "reading"
        /\ \/ TurnOver(c, short)
           \/ \E x : TurnOver(c, [known EXCEPT !.history = x])
    BY <1>7 DEF ReadsDone
  <2> HIDE DEF short, known
  <2>3. \A x : IsOwner([known EXCEPT !.history = x], owner.uncertain)
    BY <2>1, OwnerField, Zenon
  <2> QED
    BY <2>1, <2>2, <2>3, SessionOfTurnOver DEF Subscribed
<1>8. CASE IsIdle(c)
  BY <1>1, <1>8, SessionOfTurnOver DEF IsIdle, Subscribed, Settling
<1>9. CASE SettlingFails(c)
  BY <1>9, SessionOfCancelled DEF SettlingFails, Cancelled
<1> QED
  BY <1>2, <1>3, <1>4, <1>5, <1>6, <1>7, <1>8, <1>9 DEF TurnStep

LEMMA SessionKeeps ==
  ASSUME IInv, SessionInv, [Next]_vars
  PROVE  SessionInv'
<1>1. Shape /\ CallShape /\ OwnerShape /\ IsOwner(owner, owner.uncertain)
  BY OwnerIsOwner, ShapeParts DEF IInv
<1>2. ASSUME UNCHANGED <<call, owner>> PROVE SessionInv'
  BY <1>2 DEF SessionInv, Prompting
<1>3. ASSUME NEW c \in Calls, CallerStep(c) PROVE SessionInv'
  <2>1. CASE Cancel(c)
    BY <2>1, SessionOfCancelled DEF Cancel
  <2>2. CASE ~Cancel(c)
    <3>1. /\ owner' = owner /\ call[c].at \in {"none", "ended"}
          /\ \E kind, context, at : /\ call' = [call EXCEPT ![c] = NewCall(kind, at, context)]
                                    /\ at \in {"queued", "none"}
      BY <1>3, <2>2, FreeCallIsFree DEF CallerStep, Chats, Asks, Commits
    <3>2. call'[c].at \in {"queued", "none"} /\ \A d \in Calls \ {c} : call'[d] = call[d]
      BY <1>1, <3>1 DEF CallShape, NewCall
    <3> QED
      BY <3>1, <3>2, SessionStays DEF Subscribed, Settling
  <2> QED
    BY <2>1, <2>2
<1>4. ASSUME NEW x \in Calls \cup {Closer}, StopStep(x) PROVE SessionInv'
  <2>1. \/ x \in Calls /\ call[x].at = "stopping" /\ Moves(x, "ended")
        \/ call' = call
    BY <1>4 DEF StopStep, Stopped, StopFails, StopReturns, Stopping
  <2>2. owner'.session = owner.session /\ owner'.metadata = owner.metadata
    BY ZenonT(60), <1>1, <1>4, OwnerStays, OwnerFields DEF StopStep, Stopped, StopFails
  <2> QED
    BY <2>1, <2>2, SessionMoves, SessionStays DEF Subscribed, Settling
<1>5. ASSUME CloseBegins \/ CloseStep PROVE SessionInv'
  <2>1. CASE CloseBegins \/ CloseAwaited \/ CloseQueues
    <3>1. call' = call /\ (owner' = owner \/ owner' = [owner EXCEPT !.closed = TRUE])
      BY <2>1 DEF CloseBegins, CloseAwaited, CloseQueues
    <3>2. owner'.session = owner.session /\ owner'.metadata = owner.metadata
      BY ZenonT(60), <1>1, <3>1, OwnerStays, OwnerFields
    <3> QED
      BY <3>1, <3>2, SessionStays
  <2>2. CASE CloseStops
    <3>1. Drops(owner) /\ call' = call /\ Holds(Closer)
      BY <2>2 DEF CloseStops
    <3>2. \A d \in Calls : call'[d].at \notin Subscribed \cup {"ready"}
      BY <3>1, CloserIsAlone DEF Active, Subscribed, Settling
    <3> QED
      BY <1>1, <3>1, <3>2, SessionDropped
  <2>3. ASSUME NEW c \in Calls, CloseCancels(c) PROVE SessionInv'
    BY <2>3, SessionOfCancelled DEF CloseCancels
  <2> QED
    BY <1>4, <1>5, <2>1, <2>2, <2>3 DEF CloseStep
<1>6. CASE ReaderStep \/ RuntimeStep \/ UNCHANGED vars
  <2>1. UNCHANGED <<call, owner>>
    BY <1>6 DEF ReaderStep, ReadsAnswer, ReadsNotice, ReaderEnds, vars, RuntimeStep, Writes,
        RuntimeStarts, RuntimeRejects, RuntimeSpeaks, RuntimeCompletes, RuntimeFails,
        RuntimeInterrupts, RuntimeUsesTool, RuntimeIsLate
  <2> QED
    BY <1>2, <2>1
<1> QED
  BY <1>3, <1>4, <1>5, <1>6, SessionOfPreflight, SessionOfTurn DEF Next

-----------------------------------------------------------------------------
(* The steps of the adapter keep the turn in order.                        *)

LEMMA TurnFrame ==
  ASSUME IInv, NEW c \in Calls, Typed', Prompting(c)',
         \A d \in Calls \ {c} : ~Prompting(d)', Asked(c)' \/ Started(c)'
  PROVE  TurnInv'
BY DEF TurnInv, HasHandler, Prompting

LEMMA RestFrame ==
  ASSUME Typed', ~HasHandler', NothingRuns'
  PROVE  TurnInv'
BY DEF TurnInv, HasHandler, Prompting

\* The call of the turn stays in it.
LEMMA TurnStays ==
  ASSUME IInv, NEW c \in Calls, Active(c) \/ (Holds(c) /\ call[c].at = "queued"),
         call'[c].at \in Subscribed, \A d \in Calls \ {c} : call'[d].at = call[d].at
  PROVE  Prompting(c)' /\ \A d \in Calls \ {c} : ~Prompting(d)'
BY HolderIsAlone DEF Prompting, Alone, Active, Subscribed, Settling

LEMMA AsideKeeps ==
  ASSUME TurnInv, Aside
  PROVE  TurnInv'
<1>1. \A c \in Calls : Prompting(c)' <=> Prompting(c)
  BY DEF Aside, Prompting
<1>2. HasHandler' <=> HasHandler
  BY <1>1 DEF HasHandler, Prompting
<1>3. Typed'
  BY DEF Aside, TurnInv, Typed
<1>4. ~HasHandler => NothingRuns'
  BY DEF Aside, TurnInv, NothingRuns
<1>5. ASSUME NEW c \in Calls, Prompting(c) PROVE Asked(c)' \/ Started(c)'
  <2>1. call'[c] = call[c] /\ (Asked(c) \/ Started(c))
    BY <1>5 DEF Aside, TurnInv
  <2>2. Asked(c) => Asked(c)'
    BY <2>1 DEF Aside, Asked
  <2>3. Started(c) => Started(c)'
    BY <2>1 DEF Aside, Started, LinesInv, RequestsInv, IdleInv
  <2> QED
    BY <2>1, <2>2, <2>3
<1> QED
  BY <1>1, <1>2, <1>3, <1>4, <1>5 DEF TurnInv

LEMMA NoTurnIsTurn ==
  IsTurn(NoTurn) /\ NoTurn.before = 0 /\ NoTurn.queue = <<>>
<1> DEFINE r == NewTurn(0)
           t == [r EXCEPT !.accepting = FALSE]
<1>1. NoTurn = [t EXCEPT !.sent = "none"]
  BY DEF NoTurn
<1>2. IsTurn(r) /\ r.before = 0 /\ r.queue = <<>>
  BY DEF NewTurn, IsTurn
<1> HIDE DEF r
<1>3. IsTurn(t) /\ t.before = 0 /\ t.queue = <<>>
  BY ZenonT(60), <1>2, TurnField DEF IsTurn
<1> HIDE DEF t
<1> QED
  BY <1>1, <1>3, TurnField DEF IsTurn

\* A new turn, of which only the prompt is sent.
Begun(t, n, sent) ==
  /\ IsTurn(t) /\ t.before = n /\ t.queue = <<>> /\ t.sent = sent /\ t.abort = "none"
  /\ ~t.idle /\ ~t.failed /\ t.accepting /\ t.seen = {}

LEMMA BeginsIsTurn ==
  ASSUME NEW n, NEW sent, NEW t, t = [NewTurn(n) EXCEPT !.sent = sent]
  PROVE  Begun(t, n, sent)
<1>1. t = [queue |-> <<>>, idle |-> FALSE, failed |-> FALSE, accepting |-> TRUE,
           safety |-> FALSE, seen |-> {}, sent |-> sent, id |-> 0, abort |-> "none",
           before |-> n]
  BY DEF NewTurn
<1>2. /\ t.queue = <<>> /\ t.idle = FALSE /\ t.failed = FALSE
      /\ t.accepting = TRUE /\ t.safety = FALSE /\ t.seen = {}
      /\ t.sent = sent /\ t.id = 0 /\ t.abort = "none" /\ t.before = n
  BY <1>1
<1> QED
  BY <1>1, <1>2 DEF IsTurn, Begun

LEMMA NoLines ==
  /\ <<>> \in Seq(AgentLine) /\ <<>> \in Seq(AgentEvent)
  /\ \A n : LateLines(<<>>, n) /\ AskedLines(<<>>, n) /\ LinesOf(<<>>, n)
  /\ EndIsLast(<<>>) /\ OneConfirms(<<>>) /\ \A kinds : ~Has(<<>>, kinds)
<1>1. 1..Len(<<>>) = {}
  OBVIOUS
<1> QED
  BY <1>1 DEF LateLines, AskedLines, LinesOf, EndIsLast, OneConfirms, Has

LEMMA BlankKeeps ==
  ASSUME TurnInv, Blank
  PROVE  TurnInv'
<1>1. Typed'
  <2>1. IsTurn(turn') /\ turn'.before \in Nat /\ turn'.queue \in Seq(AgentEvent)
    <3>1. CASE turn' = turn
      BY <3>1 DEF TurnInv, Typed
    <3>2. CASE turn' = NoTurn
      BY <3>2, NoTurnIsTurn, NoLines
    <3> QED
      BY <3>1, <3>2 DEF Blank
  <2>2. runtime'.made \in Nat /\ runtime'.lines \in Seq(AgentLine) /\ runtime'.said \in 0..MaxParts
    BY NoLines, ConstantsOK DEF Blank
  <2>3. Typed' <=> /\ IsTurn(turn') /\ turn'.before \in Nat /\ runtime'.made \in Nat
                   /\ turn'.queue \in Seq(AgentEvent) /\ runtime'.lines \in Seq(AgentLine)
                   /\ runtime'.said \in 0..MaxParts
    BY DEF Typed, IsTurn
  <2> QED
    BY <2>1, <2>2, <2>3
<1>2. NothingRuns'
  BY NoLines DEF Blank, NothingRuns
<1> QED
  BY <1>1, <1>2, RestFrame DEF Blank

LEMMA LateIsAsked ==
  ASSUME NEW s, NEW n, LateLines(s, n)
  PROVE  AskedLines(s, n) /\ ~Has(s, {"reject"})
BY DEF LateLines, AskedLines, Has

LEMMA BeginsTurnAsks ==
  ASSUME IInv, TurnInv, NEW c \in Calls, BeginsTurn(c)
  PROVE  TurnInv'
<1>1. Shape /\ RuntimeShape /\ (Active(c) \/ (Holds(c) /\ call[c].at = "queued")) /\ ~Prompting(c)
      /\ Moves(c, "sending") /\ codex' = codex
  BY ShapeParts DEF IInv, BeginsTurn, MayPrompt, Prompting, Active, Subscribed, Settling
<1>2. NothingRuns /\ Typed
  BY <1>1, NonePrompts DEF TurnInv
<1>3. call'[c].at = "sending" /\ \A d \in Calls \ {c} : call'[d] = call[d]
  BY <1>1, MoveOfCall
<1>4. Prompting(c)' /\ \A d \in Calls \ {c} : ~Prompting(d)'
  BY <1>1, <1>3, TurnStays DEF Subscribed
<1>5. PICK sent \in {"pending", "failed"} : turn' = [NewTurn(runtime.made) EXCEPT !.sent = sent]
  BY DEF BeginsTurn
<1>6. Begun(turn', runtime.made, sent)
  BY <1>5, BeginsIsTurn, Zenon
<1>7. /\ runtime'.made = runtime.made /\ runtime'.running = runtime.running
      /\ runtime'.said = runtime.said /\ runtime'.lines = runtime.lines
      /\ \/ runtime'.requests = runtime.requests
         \/ \E r : r.kind = "start" /\ runtime'.requests = Append(runtime.requests, r)
  BY <1>1 DEF BeginsTurn, RuntimeShape
<1>8. \/ runtime'.requests = <<>>
      \/ /\ runtime'.requests = <<runtime'.requests[1]>>
         /\ runtime'.requests[1].kind = "start"
  <2>1. CASE runtime'.requests = runtime.requests
    BY <1>2, <2>1 DEF NothingRuns
  <2>2. ASSUME NEW r, r.kind = "start", runtime'.requests = Append(<<>>, r)
        PROVE  runtime'.requests = <<runtime'.requests[1]>> /\ runtime'.requests[1].kind = "start"
    BY <2>2
  <2> QED
    BY <1>2, <1>7, <2>1, <2>2 DEF NothingRuns
<1>9. Typed'
  BY <1>2, <1>6, <1>7, NoLines DEF Typed, IsTurn, Begun
<1>10. Asked(c)'
  BY <1>1, <1>2, <1>3, <1>6, <1>7, <1>8, NoLines, LateIsAsked DEF Asked, NothingRuns, Begun
<1> QED
  BY <1>4, <1>9, <1>10, TurnFrame

LEMMA UnsettledKeeps ==
  ASSUME IInv, TurnInv, NEW c \in Calls, Unsettled(c)
  PROVE  TurnInv'
<1>1. /\ Shape /\ Active(c) /\ Prompting(c) /\ Moves(c, "settling") /\ UNCHANGED <<codex, runtime>>
      /\ turn' = [turn EXCEPT !.accepting = FALSE] /\ call[c].at \in {"sending", "reading"}
  BY DEF IInv, Unsettled, Settles, Active, Prompting, Subscribed
<1>2. call'[c].at = "settling" /\ \A d \in Calls \ {c} : call'[d] = call[d]
  BY <1>1, MoveOfCall
<1>3. Prompting(c)' /\ \A d \in Calls \ {c} : ~Prompting(d)'
  BY <1>1, <1>2, TurnStays DEF Subscribed, Settling
<1>4. Typed /\ (Asked(c) \/ Started(c))
  BY <1>1 DEF TurnInv
<1>5. IsTurn(turn') /\ Talk(turn, turn') /\ turn'.queue = turn.queue /\ turn'.idle = turn.idle
  BY <1>1, <1>4, TurnField DEF Typed, IsTurn, Talk
<1>6. Typed'
  BY <1>1, <1>4, <1>5 DEF Typed, IsTurn, Talk
<1>7. Asked(c) => Asked(c)'
  BY <1>1, <1>2, <1>5 DEF Asked, Talk
<1>8. Started(c) => Started(c)'
  BY <1>1, <1>2, <1>5 DEF Started, Talk, LinesInv, RequestsInv, IdleInv
<1> QED
  BY <1>3, <1>4, <1>6, <1>7, <1>8, TurnFrame

LEMMA HearsKeeps ==
  ASSUME IInv, TurnInv, NEW c \in Calls, Hears(c)
  PROVE  TurnInv'
<1>1. Shape /\ CallShape /\ Active(c) /\ Prompting(c) /\ call[c].at = "reading"
      /\ turn.queue # <<>> /\ UNCHANGED <<codex, runtime>>
  BY ShapeParts DEF IInv, Hears, Gets, ReadsText, Active, Prompting, Subscribed
<1>2. Typed /\ Started(c)
  BY <1>1 DEF TurnInv, Asked
<1>3. \/ Unsettled(c)
      \/ /\ \E x : call' = [call EXCEPT ![c].heard = x]
         /\ turn' = [turn EXCEPT !.queue = Tail(@)]
  BY DEF Hears, ReadsText, Unsettled
<1>4. ASSUME NEW x, call' = [call EXCEPT ![c].heard = x], turn' = [turn EXCEPT !.queue = Tail(@)]
      PROVE  TurnInv'
  <2>1. \A d \in Calls : call'[d].at = call[d].at
    BY <1>1, <1>4 DEF CallShape
  <2>2. Prompting(c)' /\ \A d \in Calls \ {c} : ~Prompting(d)'
    BY <1>1, <2>1, TurnStays DEF Subscribed, Settling
  <2>3. /\ IsTurn(turn') /\ Talk(turn, turn') /\ turn'.queue = Tail(turn.queue)
        /\ turn'.idle = turn.idle
    <3> DEFINE q == Tail(turn.queue)
    <3>1. turn' = [turn EXCEPT !.queue = q]
      BY <1>4
    <3> HIDE DEF q
    <3>2. IsTurn(turn') /\ Talk(turn, turn') /\ turn'.queue = q /\ turn'.idle = turn.idle
      BY <1>2, <3>1, TurnField DEF Typed, IsTurn, Talk
    <3> QED
      BY <3>2 DEF q
  <2>4. Typed'
    BY <1>1, <1>2, <2>3, HasTailEvent DEF Typed, IsTurn, Talk
  <2>5. Started(c)'
    BY <1>1, <1>2, <2>1, <2>3, HasTailEvent
       DEF Typed, Started, Talk, LinesInv, RequestsInv, IdleInv
  <2> QED
    BY <2>2, <2>4, <2>5, TurnFrame
<1> QED
  BY <1>3, <1>4, UnsettledKeeps

\* The turns that are over, and the one more.
LEMMA UpTo ==
  ASSUME NEW n \in Nat
  PROVE  (1..n) \cup {n + 1} = 1..(n + 1) /\ n + 1 \notin 1..n /\ n + 1 \in 1..(n + 1) /\ n + 1 # 0
OBVIOUS

\* What the session has of a turn that was answered.
LEMMA SentIsOf ==
  ASSUME Shape, NEW c \in Calls, Typed, Started(c), turn.sent = "answered"
  PROVE  /\ Sent.retired = codex.retired
         /\ Sent.turn = IF turn.idle THEN codex.turn ELSE runtime.made
<1>1. CodexShape
  BY ShapeParts
<1>2. turn.id = turn.before + 1 /\ turn.before \in Nat /\ runtime.made = turn.before + 1
  BY DEF Started, Typed
<1>3. turn.id \in codex.retired <=> turn.idle
  BY <1>2, UpTo DEF Started, IdleInv
<1> QED
  BY <1>1, <1>2, <1>3 DEF Sent, CodexShape

LEMMA SendReturnsKeeps ==
  ASSUME IInv, TurnInv, NEW c \in Calls, SendReturns(c)
  PROVE  TurnInv'
<1>1. /\ Shape /\ Active(c) /\ Prompting(c) /\ Moves(c, "reading") /\ UNCHANGED runtime
      /\ turn' = [turn EXCEPT !.sent = "done"] /\ codex' = Sent
      /\ call[c].at = "sending" /\ turn.sent = "answered"
  BY DEF IInv, SendReturns, Active, Prompting, Subscribed
<1>2. call'[c].at = "reading" /\ \A d \in Calls \ {c} : call'[d] = call[d]
  BY <1>1, MoveOfCall
<1>3. Prompting(c)' /\ \A d \in Calls \ {c} : ~Prompting(d)'
  BY <1>1, <1>2, TurnStays DEF Subscribed
<1>4. Typed /\ Started(c)
  BY <1>1 DEF TurnInv, Asked
<1>5. /\ IsTurn(turn') /\ turn'.queue = turn.queue /\ turn'.idle = turn.idle /\ turn'.id = turn.id
      /\ turn'.abort = turn.abort /\ turn'.before = turn.before /\ turn'.sent = "done"
  BY <1>1, <1>4, TurnField DEF Typed, IsTurn
<1>6. Typed'
  BY <1>1, <1>4, <1>5 DEF Typed, IsTurn
<1>7. IdleInv'
  BY <1>1, <1>4, <1>5, SentIsOf DEF Started, IdleInv
<1>8. LinesInv' /\ RequestsInv(c)'
  BY <1>1, <1>2, <1>4, <1>5 DEF Started, LinesInv, RequestsInv
<1>9. Started(c)'
  BY <1>1, <1>4, <1>5, <1>7, <1>8 DEF Started
<1> QED
  BY <1>3, <1>6, <1>9, TurnFrame

LEMMA InterruptReturnsKeeps ==
  ASSUME IInv, TurnInv, NEW c \in Calls, InterruptReturns(c)
  PROVE  TurnInv'
<1>1. /\ Shape /\ Active(c) /\ Prompting(c) /\ Moves(c, "idling")
      /\ UNCHANGED <<turn, codex, runtime>>
      /\ call[c].at = "interrupting" /\ turn.abort = "answered"
  BY DEF IInv, InterruptReturns, Active, Prompting, Subscribed, Settling
<1>2. call'[c].at = "idling" /\ \A d \in Calls \ {c} : call'[d] = call[d]
  BY <1>1, MoveOfCall
<1>3. Prompting(c)' /\ \A d \in Calls \ {c} : ~Prompting(d)'
  BY <1>1, <1>2, TurnStays DEF Subscribed, Settling
<1>4. Typed /\ Started(c)
  BY <1>1 DEF TurnInv, Asked
<1>5. Typed' /\ LinesInv' /\ IdleInv'
  BY <1>1, <1>4 DEF Typed, Started, LinesInv, IdleInv
<1>6. RequestsInv(c)'
  BY <1>1, <1>4 DEF Started, RequestsInv
<1>7. Started(c)'
  BY <1>1, <1>2, <1>4, <1>5, <1>6 DEF Started
<1> QED
  BY <1>3, <1>5, <1>7, TurnFrame

LEMMA InterruptsKeeps ==
  ASSUME IInv, TurnInv, NEW c \in Calls, Interrupts(c)
  PROVE  TurnInv'
<1> DEFINE session == IF turn.sent = "answered" THEN Sent ELSE codex
           request == [kind |-> "interrupt", turn |-> session.turn, replace |-> FALSE,
                       messages |-> <<>>]
<1>1. /\ Shape /\ RuntimeShape /\ Active(c) /\ Prompting(c) /\ codex' = session
      /\ call[c].at = "settling" /\ turn.sent \in {"answered", "done"}
  BY ShapeParts DEF IInv, Interrupts, Active, Prompting, Subscribed, Settling
<1>2. Typed /\ Started(c)
  BY <1>1 DEF TurnInv, Asked
<1>3. /\ session.retired = codex.retired
      /\ session.turn = IF turn.idle THEN codex.turn
                        ELSE IF turn.sent = "answered" THEN runtime.made ELSE codex.turn
  BY <1>1, <1>2, SentIsOf
<1>4. session.turn # 0 => session.turn = runtime.made /\ ~turn.idle
  BY <1>2, <1>3 DEF Started, IdleInv
<1>5. turn.abort # "pending" /\ runtime.requests = <<>> /\ ~Has(runtime.lines, Confirms)
  BY <1>1, <1>2 DEF Started, RequestsInv
<1>6. \/ /\ session.turn = 0 /\ Moves(c, "idling") /\ runtime' = runtime
         /\ turn' = [turn EXCEPT !.sent = "done"]
      \/ /\ session.turn # 0 /\ Moves(c, "interrupting")
         /\ turn' = [turn EXCEPT !.sent = "done", !.abort = "pending"]
         /\ runtime' = [runtime EXCEPT
              !.requests = IF runtime.alive THEN Append(@, request) ELSE @]
  BY DEF Interrupts
<1> HIDE DEF session
<1>7. \/ call'[c].at = "idling" \/ call'[c].at = "interrupting"
  BY <1>1, <1>6, MoveOfCall
<1>8. \A d \in Calls \ {c} : call'[d] = call[d]
  BY <1>1, <1>6, MoveOfCall
<1>9. Prompting(c)' /\ \A d \in Calls \ {c} : ~Prompting(d)'
  BY <1>1, <1>7, <1>8, TurnStays DEF Subscribed, Settling
<1>10. IdleInv /\ LinesInv
  BY <1>2 DEF Started
<1>11. /\ IsTurn(turn') /\ turn'.queue = turn.queue /\ turn'.idle = turn.idle /\ turn'.id = turn.id
       /\ turn'.before = turn.before /\ turn'.sent = "done"
       /\ turn'.abort = IF session.turn = 0 THEN turn.abort ELSE "pending"
  <2> DEFINE t == [turn EXCEPT !.sent = "done"]
  <2>1. /\ IsTurn(t) /\ t.queue = turn.queue /\ t.idle = turn.idle /\ t.id = turn.id
        /\ t.before = turn.before /\ t.sent = "done" /\ t.abort = turn.abort
    BY ZenonT(60), <1>2, TurnField DEF Typed, IsTurn
  <2>2. turn' = IF session.turn = 0 THEN t ELSE [t EXCEPT !.abort = "pending"]
    BY <1>6
  <2> HIDE DEF t
  <2>3. CASE session.turn = 0
    BY <2>1, <2>2, <2>3
  <2>4. CASE session.turn # 0
    <3>1. turn' = [t EXCEPT !.abort = "pending"]
      BY <2>2, <2>4
    <3> QED
      BY <2>1, <2>4, <3>1, TurnField DEF IsTurn
  <2> QED
    BY <2>3, <2>4
<1>12. /\ runtime'.made = runtime.made /\ runtime'.running = runtime.running
       /\ runtime'.said = runtime.said /\ runtime'.lines = runtime.lines
       /\ \/ runtime'.requests = <<>>
          \/ session.turn # 0 /\ runtime'.requests = Append(<<>>, request)
  BY <1>1, <1>5, <1>6 DEF RuntimeShape
<1>13. Typed'
  BY <1>2, <1>11, <1>12 DEF Typed, IsTurn
<1>14. LinesInv' /\ IdleInv'
  <2>1. LinesInv'
    BY <1>10, <1>12 DEF LinesInv
  <2>2. turn.sent = "answered" => turn.id = runtime.made
    BY <1>2 DEF Started
  <2> QED
    BY <1>1, <1>3, <1>4, <1>10, <1>11, <1>12, <2>1 DEF IdleInv
<1>15. RequestsInv(c)'
  <2>1. session.turn = 0 => call'[c].at = "idling" /\ runtime'.requests = <<>>
    BY <1>1, <1>6, <1>12, MoveOfCall
  <2>2. session.turn # 0 => call'[c].at = "interrupting"
    BY <1>1, <1>6, MoveOfCall
  <2>3. ASSUME session.turn # 0, runtime'.requests = Append(<<>>, request)
        PROVE  /\ runtime'.requests = <<runtime'.requests[1]>>
               /\ runtime'.requests[1].kind = "interrupt"
               /\ runtime'.requests[1].turn = runtime.made
    BY <1>4, <2>3
  <2> QED
    BY <1>5, <1>11, <1>12, <2>1, <2>2, <2>3 DEF RequestsInv
<1>16. Started(c)'
  BY <1>1, <1>2, <1>11, <1>12, <1>14, <1>15 DEF Started
<1> QED
  BY <1>9, <1>13, <1>16, TurnFrame

\* After the end of a turn and with no interrupt under way, the lines left are late.
LEMMA LinesAreLate ==
  ASSUME NEW s \in Seq(AgentLine), NEW n, LinesOf(s, n), ~Has(s, Confirms),
         ~Has(s, {"answer", "reject", "started", "item", "error", "tool"} \cup Ends)
  PROVE  LateLines(s, n)
<1> SUFFICES ASSUME NEW i \in 1..Len(s)
             PROVE  s[i].kind = "delta" /\ s[i].turn \in 1..n
  BY DEF LateLines
<1>1. s[i] \in AgentLine
  BY ElementOfSeq
<1>2. s[i].kind \in {"answer", "reject", "started", "delta", "item", "error", "tool"}
                      \cup Ends \cup Confirms
  BY <1>1 DEF AgentLine
<1>3. s[i].kind \notin {"answer", "reject", "started", "item", "error", "tool"} \cup Ends \cup Confirms
  BY DEF Has
<1> QED
  BY <1>2, <1>3 DEF LinesOf

LEMMA FinishedIsOver ==
  ASSUME IInv, TurnInv, NEW c \in Calls, Finishes(c)
  PROVE  /\ Started(c) /\ turn.idle /\ turn.sent = "done" /\ Prompting(c) /\ Typed
         /\ call[c].at \in {"reading", "idling"}
<1>1. \/ call[c].at = "reading" /\ turn.queue # <<>> /\ Head(turn.queue).kind = "done"
      \/ call[c].at = "idling" /\ turn.idle
  BY DEF Finishes, ReadsDone, IsIdle, Gets
<1>2. Prompting(c) /\ Typed /\ Started(c)
  BY <1>1 DEF Prompting, Subscribed, Settling, TurnInv, Asked
<1>3. call[c].at = "reading" => Has(turn.queue, {"done"})
  BY <1>1, <1>2, HasTailEvent DEF Typed
<1> QED
  BY <1>1, <1>2, <1>3 DEF Started, IdleInv

\* How the owner is after a turn that is over.
LEMMA FinishLeaves ==
  ASSUME IInv, NEW c \in Calls, Finishes(c)
  PROVE  /\ turn' = NoTurn /\ Leaves(c) /\ UNCHANGED <<codex, runtime>>
         /\ owner'.session = owner.session
<1> DEFINE short == [owner EXCEPT !.snapshot = TRUE]
           known == [owner EXCEPT !.snapshot = FALSE]
<1>1. Shape /\ IsOwner(owner, owner.uncertain)
  BY OwnerIsOwner DEF IInv
<1>2. IsOwner(short, owner.uncertain) /\ IsOwner(known, owner.uncertain)
  BY <1>1, OwnerField
<1>3. \/ TurnOver(c, short) \/ TurnOver(c, owner)
      \/ \E x : TurnOver(c, [known EXCEPT !.history = x])
  BY DEF Finishes, ReadsDone, IsIdle
<1> HIDE DEF short, known
<1>4. \A x : IsOwner([known EXCEPT !.history = x], owner.uncertain)
  BY <1>2, OwnerField, Zenon
<1>5. PICK o : TurnOver(c, o) /\ IsOwner(o, owner.uncertain)
  BY <1>1, <1>2, <1>3, <1>4
<1> DEFINE after == [o EXCEPT !.retired = @ \cup turn.seen]
<1>6. turn' = NoTurn /\ Leaves(c) /\ owner' = after /\ UNCHANGED <<codex, runtime>>
  BY <1>5 DEF Finishes, TurnOver
<1>7. IsOwner(after, owner.uncertain)
  BY <1>5, OwnerField
<1> HIDE DEF after
<1> QED
  BY <1>6, <1>7 DEF IsOwner

LEMMA FinishesKeeps ==
  ASSUME IInv, TurnInv, SessionInv, NEW c \in Calls, Finishes(c)
  PROVE  TurnInv'
<1>1. /\ Started(c) /\ turn.idle /\ Prompting(c) /\ Typed
      /\ call[c].at \in {"reading", "idling"}
  BY FinishedIsOver
<1>2. /\ turn' = NoTurn /\ Moves(c, "ended") /\ UNCHANGED <<codex, runtime>>
      /\ owner'.session /\ Shape /\ Alone(c)
  BY <1>1, FinishLeaves, HolderIsAlone
     DEF SessionInv, Leaves, IInv, Active, Prompting, Subscribed, Settling
<1>3. ~HasHandler'
  BY <1>2, MoveOfCall DEF HasHandler, Alone, Active, Subscribed, Settling
<1>4. runtime.requests = <<>> /\ ~Has(runtime.lines, Confirms)
  BY <1>1 DEF Started, RequestsInv
<1>5. /\ codex.turn = 0 /\ codex.retired = 1..runtime.made /\ runtime.running = 0
      /\ LateLines(runtime.lines, runtime.made)
  BY <1>1, <1>4, LinesAreLate DEF Started, IdleInv, LinesInv, Typed
<1>6. NothingRuns'
  BY <1>2, <1>4, <1>5 DEF NothingRuns
<1>7. Typed'
  BY <1>1, <1>2, NoTurnIsTurn, NoLines DEF Typed, IsTurn
<1> QED
  BY <1>3, <1>6, <1>7, RestFrame

-----------------------------------------------------------------------------
(* The reader task keeps the turn in order.                                *)

LEMMA OutsideFrame ==
  ASSUME UNCHANGED <<call, owner>>, Typed', ~HasHandler => NothingRuns',
         \A c \in Calls : Prompting(c) => Asked(c)' \/ Started(c)'
  PROVE  TurnInv'
BY DEF TurnInv, HasHandler, Prompting

\* A line is read.
TakesLine ==
  /\ runtime.lines # <<>> /\ runtime'.lines = Tail(runtime.lines)
  /\ runtime'.made = runtime.made /\ runtime'.running = runtime.running
  /\ runtime'.said = runtime.said /\ runtime'.requests = runtime.requests
  /\ runtime'.thread = runtime.thread

LEMMA ReadTakesLine ==
  ASSUME Shape, NEW kinds, Reads(kinds)
  PROVE  TakesLine /\ Head(runtime.lines).kind \in kinds /\ owner.session
<1>1. RuntimeShape
  BY ShapeParts
<1> QED
  BY <1>1 DEF Reads, TakesLine, RuntimeShape

\* What the lines that are left say, they said before.
LEMMA LinesLeft ==
  ASSUME Typed, TakesLine
  PROVE  /\ runtime'.lines \in Seq(AgentLine) /\ Head(runtime.lines) \in AgentLine
         /\ LinesInv => LinesInv'
         /\ \A n : LateLines(runtime.lines, n) => LateLines(runtime'.lines, n)
         /\ \A n : AskedLines(runtime.lines, n) => AskedLines(runtime'.lines, n)
         /\ \A kinds : Has(runtime'.lines, kinds) => Has(runtime.lines, kinds)
         /\ \A kinds : Head(runtime.lines).kind \in kinds => Has(runtime.lines, kinds)
<1>1. runtime.lines \in Seq(AgentLine)
  BY DEF Typed
<1>2. LinesInv => LinesInv'
  BY <1>1, TailKeeps, HasTail DEF LinesInv, TakesLine
<1> QED
  BY <1>1, <1>2, TailKeeps, HasTail, TailOfLines DEF TakesLine

LEMMA HeadOfLines ==
  ASSUME NEW s \in Seq(AgentLine), s # <<>>
  PROVE  /\ \A n : LateLines(s, n) => Head(s).kind = "delta" /\ Head(s).turn \in 1..n
         /\ \A n : AskedLines(s, n) => \/ Head(s).kind = "delta" /\ Head(s).turn \in 1..n
                                       \/ Head(s).kind = "reject" /\ Head(s).turn = 0
         /\ \A n : LinesOf(s, n) => /\ Head(s).kind # "reject" /\ Head(s).turn \in 1..n
                                    /\ Head(s).kind # "delta" => Head(s).turn = n
<1>1. 1 \in 1..Len(s) /\ Head(s) = s[1]
  BY TailOfLines
<1> QED
  BY <1>1 DEF LateLines, AskedLines, LinesOf

\* Without a turn, only a late line is read, and it changes nothing.
LEMMA RestReads ==
  ASSUME Typed, NothingRuns, TakesLine, UNCHANGED <<owner, turn, codex>>
  PROVE  NothingRuns'
BY LinesLeft DEF NothingRuns, TakesLine

LEMMA TypedReads ==
  ASSUME Typed, TakesLine, IsTurn(turn'), turn'.before = turn.before,
         turn'.queue \in Seq(AgentEvent)
  PROVE  Typed'
BY LinesLeft DEF Typed, TakesLine, IsTurn

LEMMA AskedReads ==
  ASSUME Typed, TakesLine, NEW c \in Calls, Asked(c), UNCHANGED <<call, codex>>,
         turn'.sent \in {"pending", "failed"}, turn'.abort = turn.abort, turn'.idle = turn.idle,
         turn'.before = turn.before, turn'.queue = turn.queue
  PROVE  Asked(c)'
BY LinesLeft DEF Asked, TakesLine

LEMMA ReadsAnswerKeeps ==
  ASSUME IInv, TurnInv, ReadsAnswer
  PROVE  TurnInv'
<1> DEFINE line == Head(runtime.lines)
           answered == [turn EXCEPT !.sent = IF line.kind = "answer" THEN "answered" ELSE "failed",
                                    !.id = line.turn]
           stopped == [turn EXCEPT !.abort = IF line.kind = "stopped" THEN "answered" ELSE "failed"]
<1>1. /\ TakesLine /\ line.kind \in {"answer", "reject", "stopped", "unstopped"}
      /\ UNCHANGED <<owner, call, codex>> /\ Typed
      /\ turn' = IF line.kind \in {"answer", "reject"} /\ turn.sent = "pending" THEN answered
                 ELSE IF line.kind \in {"stopped", "unstopped"} /\ turn.abort = "pending" THEN stopped
                 ELSE turn
  BY ReadTakesLine DEF ReadsAnswer, TurnInv, IInv
<1>2. /\ runtime.lines \in Seq(AgentLine) /\ runtime.lines # <<>> /\ line \in AgentLine
      /\ line = Head(runtime.lines)
  BY <1>1, LinesLeft DEF Typed, TakesLine
<1> HIDE DEF line
<1>3. /\ IsTurn(answered) /\ answered.queue = turn.queue /\ answered.idle = turn.idle
      /\ answered.id = line.turn /\ answered.before = turn.before /\ answered.abort = turn.abort
      /\ answered.sent = IF line.kind = "answer" THEN "answered" ELSE "failed"
  <2> DEFINE sent == IF line.kind = "answer" THEN "answered" ELSE "failed"
             t == [turn EXCEPT !.sent = sent]
  <2> HIDE DEF sent
  <2>1. /\ IsTurn(t) /\ t.queue = turn.queue /\ t.idle = turn.idle
        /\ t.before = turn.before /\ t.abort = turn.abort /\ t.sent = sent
    BY ZenonT(60), <1>1, TurnField DEF Typed, IsTurn
  <2> DEFINE n == line.turn
  <2>2. answered = [t EXCEPT !.id = n]
    BY DEF sent
  <2> HIDE DEF t, n, answered
  <2>3. /\ IsTurn(answered) /\ answered.queue = t.queue /\ answered.idle = t.idle
        /\ answered.id = n /\ answered.before = t.before /\ answered.abort = t.abort
        /\ answered.sent = t.sent
    BY <2>1, <2>2, TurnField DEF IsTurn
  <2> USE DEF n
  <2> QED
    BY <2>1, <2>3 DEF sent
<1>4. /\ IsTurn(stopped) /\ stopped.queue = turn.queue /\ stopped.idle = turn.idle
      /\ stopped.id = turn.id /\ stopped.before = turn.before /\ stopped.sent = turn.sent
      /\ stopped.abort \in {"answered", "failed"}
  <2> DEFINE abort == IF line.kind = "stopped" THEN "answered" ELSE "failed"
  <2>1. abort \in {"answered", "failed"} /\ stopped = [turn EXCEPT !.abort = abort]
    OBVIOUS
  <2> HIDE DEF abort, stopped
  <2> QED
    BY <1>1, <2>1, TurnField DEF Typed, IsTurn
<1> HIDE DEF answered, stopped
<1>5. /\ IsTurn(turn') /\ turn'.queue = turn.queue /\ turn'.idle = turn.idle
      /\ turn'.before = turn.before
  BY <1>1, <1>3, <1>4 DEF Typed
<1>6. Typed'
  BY <1>1, <1>5, TypedReads DEF Typed
<1>7. HasHandler
  BY <1>1, <1>2, HeadOfLines DEF TurnInv, NothingRuns
<1>8. ASSUME NEW c \in Calls, Asked(c) PROVE Asked(c)'
  <2>1. line.kind = "reject" /\ turn.sent \in {"pending", "failed"}
    BY <1>1, <1>2, <1>8, HeadOfLines DEF Asked
  <2>2. turn'.sent \in {"pending", "failed"} /\ turn'.abort = turn.abort
    BY <1>1, <1>3, <2>1
  <2> QED
    BY <1>1, <1>5, <1>8, <2>2, AskedReads
<1>9. ASSUME NEW c \in Calls, Started(c) PROVE Started(c)'
  <2>1. LinesInv /\ RequestsInv(c) /\ IdleInv
    BY <1>9 DEF Started
  <2>2. line.kind # "reject" /\ (line.kind = "answer" => line.turn = runtime.made)
    BY <1>2, <2>1, HeadOfLines DEF LinesInv
  <2>3. LinesInv' /\ IdleInv'
    BY <1>1, <1>5, <2>1, LinesLeft DEF IdleInv, TakesLine
  <2>4. \/ turn'.sent = turn.sent /\ turn'.id = turn.id
        \/ turn.sent = "pending" /\ turn'.sent = "answered" /\ turn'.id = runtime.made
    BY <1>1, <1>3, <1>4, <2>2
  <2>5. turn'.abort = turn.abort \/ (line.kind \in Confirms /\ turn'.abort \in {"answered", "failed"})
    BY <1>1, <1>3, <1>4 DEF Confirms
  <2>6. RequestsInv(c)'
    <3>1. CASE turn'.abort = turn.abort
      BY <1>1, <2>1, <3>1, LinesLeft DEF RequestsInv, TakesLine
    <3>2. CASE line.kind \in Confirms /\ turn'.abort \in {"answered", "failed"}
      <4>1. Has(runtime.lines, Confirms) /\ ~Has(runtime'.lines, Confirms)
        BY <1>1, <1>2, <2>1, <3>2, LinesLeft, TailKeeps DEF LinesInv, TakesLine
      <4>2. runtime'.requests = <<>>
        BY <1>1, <2>1, <4>1 DEF RequestsInv, TakesLine
      <4> QED
        BY <3>2, <4>1, <4>2 DEF RequestsInv
    <3> QED
      BY <2>5, <3>1, <3>2
  <2> QED
    BY <1>1, <1>5, <1>9, <2>3, <2>4, <2>6 DEF Started, TakesLine
<1> QED
  BY <1>1, <1>6, <1>7, <1>8, <1>9, OutsideFrame DEF TurnInv

\* What an event does to the turn.
LEMMA NoticeNews ==
  ASSUME Typed, HasHandler, ReadsNotice, runtime.lines # <<>>,
         Taken(Head(runtime.lines)), Head(runtime.lines) \in AgentLine
  PROVE  \/ /\ Head(runtime.lines).kind = "started" /\ turn' = turn
            /\ codex' = [codex EXCEPT !.turn = Head(runtime.lines).turn]
         \/ News(turn, turn', {"text", "error"}) /\ turn'.idle = turn.idle /\ codex' = codex
         \/ /\ Head(runtime.lines).kind \in Ends
            /\ News(turn, turn', {"done", "error"}) /\ turn'.idle = TRUE
            /\ codex' = [codex EXCEPT !.turn = 0, !.retired = @ \cup {Head(runtime.lines).turn}]
<1> DEFINE line == Head(runtime.lines)
<1>1. IsTurn(turn) /\ turn.queue \in Seq(AgentEvent) /\ line.turn \in Nat /\ line.part \in 0..MaxParts
  BY DEF Typed, AgentLine
<1>2. \/ line.kind = "started" /\ turn' = turn /\ codex' = [codex EXCEPT !.turn = line.turn]
      \/ turn' = OnText(turn, line.turn, line.part, line.part) /\ codex' = codex
      \/ turn' = OnItem(turn, line.turn, line.part) /\ codex' = codex
      \/ turn' = OnTool(turn) /\ codex' = codex
      \/ turn' = OnError(turn) /\ codex' = codex
      \/ /\ line.kind \in Ends
         /\ turn' = OnIdle(IF line.kind = "failed" THEN OnError(turn) ELSE turn)
         /\ codex' = [codex EXCEPT !.turn = 0, !.retired = @ \cup {line.turn}]
  BY DEF ReadsNotice, Emits, Ends
<1> HIDE DEF line
<1>3. ASSUME turn' = OnText(turn, line.turn, line.part, line.part)
      PROVE  News(turn, turn', {"text", "error"}) /\ turn'.idle = turn.idle
  BY <1>1, <1>3, NewsOfText
<1>4. ASSUME turn' = OnItem(turn, line.turn, line.part)
      PROVE  News(turn, turn', {"text", "error"}) /\ turn'.idle = turn.idle
  BY <1>1, <1>4, NewsOfItem
<1>5. ASSUME turn' = OnTool(turn) \/ turn' = OnError(turn)
      PROVE  News(turn, turn', {"text", "error"}) /\ turn'.idle = turn.idle
  BY <1>1, <1>5, NewsOfTool, NewsOfError DEF News
<1>6. ASSUME turn' = OnIdle(IF line.kind = "failed" THEN OnError(turn) ELSE turn)
      PROVE  News(turn, turn', {"done", "error"}) /\ turn'.idle = TRUE
  <2> DEFINE t == IF line.kind = "failed" THEN OnError(turn) ELSE turn
  <2>1. News(turn, t, {"error"})
    <3>1. News(turn, OnError(turn), {"error"})
      BY <1>1, NewsOfError
    <3>2. News(turn, turn, {"error"})
      BY <1>1, NoNews DEF News
    <3> QED
      BY <3>1, <3>2
  <2>2. turn' = OnIdle(t)
    BY <1>6
  <2> HIDE DEF t
  <2>3. News(t, turn', {"done"}) /\ turn'.idle = TRUE
    BY <2>1, <2>2, NewsOfIdle DEF News
  <2> QED
    BY <2>1, <2>3 DEF News, Talk
<1> QED
  BY <1>2, <1>3, <1>4, <1>5, <1>6 DEF line

LEMMA ReadsNoticeKeeps ==
  ASSUME IInv, TurnInv, ReadsNotice
  PROVE  TurnInv'
<1> DEFINE line == Head(runtime.lines)
<1>1. /\ TakesLine /\ UNCHANGED <<owner, call>> /\ Typed /\ CodexShape
      /\ ~Taken(line) => UNCHANGED <<turn, codex>>
  BY ReadTakesLine, ShapeParts DEF ReadsNotice, TurnInv, IInv
<1>2. /\ runtime.lines \in Seq(AgentLine) /\ runtime.lines # <<>> /\ line \in AgentLine
      /\ line = Head(runtime.lines)
  BY <1>1, LinesLeft DEF Typed, TakesLine
<1>3. \/ UNCHANGED <<turn, codex>>
      \/ HasHandler /\ Taken(line)
  <2>1. ASSUME ~HasHandler, Taken(line) PROVE FALSE
    BY <1>2, <2>1, HeadOfLines DEF TurnInv, NothingRuns, Taken
  <2> QED
    BY <1>1, <2>1
<1>4. HasHandler /\ Taken(line) =>
      \/ line.kind = "started" /\ turn' = turn /\ codex' = [codex EXCEPT !.turn = line.turn]
      \/ News(turn, turn', {"text", "error"}) /\ turn'.idle = turn.idle /\ codex' = codex
      \/ /\ line.kind \in Ends
         /\ News(turn, turn', {"done", "error"}) /\ turn'.idle = TRUE
         /\ codex' = [codex EXCEPT !.turn = 0, !.retired = @ \cup {line.turn}]
  BY <1>1, <1>2, NoticeNews
<1> HIDE DEF line
<1>5. /\ IsTurn(turn') /\ Talk(turn, turn') /\ turn'.queue \in Seq(AgentEvent)
  BY <1>1, <1>3, <1>4 DEF News, Talk, Typed
<1>6. Typed'
  BY <1>1, <1>5, TypedReads DEF Talk
<1>7. ASSUME ~HasHandler PROVE NothingRuns'
  BY <1>1, <1>3, <1>7, RestReads DEF TurnInv
<1>8. ASSUME NEW c \in Calls, Asked(c) PROVE Asked(c)'
  <2>1. line.kind = "reject" \/ (line.kind = "delta" /\ line.turn \in codex.retired)
    BY <1>2, <1>8, HeadOfLines DEF Asked
  <2>2. line.kind # "reject"
    BY ReadTakesLine DEF ReadsNotice, IInv, line
  <2>3. UNCHANGED <<turn, codex>>
    BY <1>3, <2>1, <2>2 DEF Taken
  <2> QED
    BY <1>1, <1>8, <2>3, AskedReads DEF Asked
<1>9. ASSUME NEW c \in Calls, Started(c) PROVE Started(c)'
  <2>1. /\ LinesInv /\ RequestsInv(c) /\ IdleInv /\ runtime.made = turn.before + 1
        /\ turn.before \in Nat
    BY <1>1, <1>9 DEF Started, Typed
  <2>2. line.kind # "delta" => line.turn = runtime.made
    BY <1>2, <2>1, HeadOfLines DEF LinesInv
  <2>3. LinesInv'
    BY <1>1, <2>1, LinesLeft
  <2>4. RequestsInv(c)'
    BY <1>1, <1>5, <2>1, LinesLeft DEF RequestsInv, TakesLine, Talk
  <2>5. IdleInv'
    <3>1. CASE UNCHANGED <<turn, codex>>
      BY <1>1, <2>1, <3>1, LinesLeft DEF IdleInv, TakesLine
    <3>2. CASE line.kind = "started" /\ turn' = turn /\ codex' = [codex EXCEPT !.turn = line.turn]
      <4>1. codex'.turn = runtime.made /\ codex'.retired = codex.retired
        BY <1>1, <2>2, <3>2 DEF CodexShape
      <4>2. Has(runtime.lines, {"answer", "reject", "started", "item", "error", "tool"} \cup Ends)
        <5>1. line.kind \in {"answer", "reject", "started", "item", "error", "tool"} \cup Ends
          BY <3>2
        <5> QED
          BY <1>1, <1>2, <5>1, LinesLeft
      <4>3. ~turn.idle
        BY <2>1, <4>2 DEF IdleInv
      <4> QED
        BY <1>1, <2>1, <3>2, <4>1, <4>3 DEF IdleInv, TakesLine
    <3>3. CASE News(turn, turn', {"text", "error"}) /\ turn'.idle = turn.idle /\ codex' = codex
      <4>1. Has(turn'.queue, {"done"}) => turn'.idle
        BY <2>1, <3>3 DEF News, IdleInv
      <4> QED
        BY <1>1, <1>5, <2>1, <3>3, <4>1, LinesLeft DEF IdleInv, TakesLine, Talk
    <3>4. CASE /\ line.kind \in Ends
               /\ News(turn, turn', {"done", "error"}) /\ turn'.idle = TRUE
               /\ codex' = [codex EXCEPT !.turn = 0, !.retired = @ \cup {line.turn}]
      <4>1. /\ Has(runtime.lines, Ends)
            /\ Has(runtime.lines, {"answer", "reject", "started", "item", "error", "tool"} \cup Ends)
        BY <1>1, <1>2, <3>4, LinesLeft
      <4>2. ~turn.idle /\ runtime.running = 0 /\ line.turn = runtime.made
        BY <2>1, <2>2, <3>4, <4>1 DEF IdleInv, LinesInv, Ends
      <4>3. codex'.turn = 0 /\ codex'.retired = codex.retired \cup {line.turn}
        <5> DEFINE a == [codex EXCEPT !.turn = 0]
                   r == codex.retired \cup {line.turn}
        <5>1. a = [boot |-> codex.boot, reader |-> codex.reader, turn |-> 0,
                   retired |-> codex.retired]
          BY <1>1 DEF CodexShape
        <5>2. codex' = [a EXCEPT !.retired = r]
          BY <3>4
        <5> HIDE DEF a, r
        <5> QED
          BY <5>1, <5>2 DEF r
      <4>4. codex'.retired = 1..runtime.made
        BY <2>1, <4>2, <4>3, UpTo DEF IdleInv
      <4>5. ~Has(runtime'.lines, {"answer", "reject", "started", "item", "error", "tool"} \cup Ends)
        <5>1. ~Has(Tail(runtime.lines), {"answer", "started", "item", "error", "tool"} \cup Ends)
          BY <1>2, <2>1, <3>4, TailKeeps DEF LinesInv
        <5>2. LinesOf(runtime'.lines, runtime'.made) /\ runtime'.lines = Tail(runtime.lines)
          BY <1>1, <2>3 DEF LinesInv, TakesLine
        <5> QED
          BY <5>1, <5>2 DEF LinesOf, Has
      <4> QED
        BY <1>1, <3>4, <4>2, <4>3, <4>4, <4>5 DEF IdleInv, TakesLine
    <3> QED
      BY <1>3, <1>4, <3>1, <3>2, <3>3, <3>4
  <2> QED
    BY <1>1, <1>5, <1>9, <2>3, <2>4, <2>5 DEF Started, TakesLine, Talk
<1> QED
  BY <1>1, <1>6, <1>7, <1>8, <1>9, OutsideFrame DEF TurnInv

\* The turn after the end of the output: what waits for an answer fails.
LEMMA EndNews ==
  ASSUME Typed, ReaderEnds
  PROVE  /\ IsTurn(turn') /\ turn'.queue \in Seq(AgentEvent) /\ turn'.idle = turn.idle
         /\ turn'.id = turn.id /\ turn'.before = turn.before
         /\ turn'.sent = IF turn.sent = "pending" THEN "failed" ELSE turn.sent
         /\ turn'.abort = IF turn.abort = "pending" THEN "failed" ELSE turn.abort
         /\ \A k \in {"text", "done"} : Has(turn'.queue, {k}) => Has(turn.queue, {k})
<1> DEFINE sent == IF turn.sent = "pending" THEN "failed" ELSE turn.sent
           abort == IF turn.abort = "pending" THEN "failed" ELSE turn.abort
           t == [turn EXCEPT !.sent = sent]
           failed == [t EXCEPT !.abort = abort]
<1>1. turn' = failed \/ turn' = OnError(failed)
  BY DEF ReaderEnds
<1> HIDE DEF sent, abort
<1>2. /\ IsTurn(t) /\ t.queue = turn.queue /\ t.idle = turn.idle /\ t.id = turn.id
      /\ t.before = turn.before /\ t.abort = turn.abort /\ t.sent = sent
  BY ZenonT(60), TurnField DEF Typed, IsTurn
<1> HIDE DEF t
<1>3. /\ IsTurn(failed) /\ failed.queue = t.queue /\ failed.idle = t.idle /\ failed.id = t.id
      /\ failed.before = t.before /\ failed.abort = abort /\ failed.sent = t.sent
  BY ZenonT(60), <1>2, TurnField DEF IsTurn
<1> HIDE DEF failed
<1>4. News(failed, turn', {"error"}) /\ turn'.idle = failed.idle
  BY <1>1, <1>2, <1>3, NewsOfError, NoNews DEF News, Typed
<1> QED
  BY <1>2, <1>3, <1>4 DEF News, Talk, sent, abort

LEMMA ReaderEndsKeeps ==
  ASSUME IInv, TurnInv, ReaderEnds
  PROVE  TurnInv'
<1>1. Shape /\ RuntimeShape /\ CodexShape /\ Typed
  BY ShapeParts DEF IInv, TurnInv
<1>2. PICK alive \in BOOLEAN :
        runtime' = [runtime EXCEPT !.alive = alive, !.requests = <<>>, !.lines = <<>>]
  BY DEF ReaderEnds
<1>3. /\ runtime'.made = runtime.made /\ runtime'.running = runtime.running
      /\ runtime'.said = runtime.said /\ runtime'.requests = <<>> /\ runtime'.lines = <<>>
  BY <1>1, <1>2 DEF RuntimeShape
<1>4. /\ UNCHANGED <<owner, call>> /\ codex'.turn = codex.turn /\ codex'.retired = codex.retired
  BY <1>1 DEF ReaderEnds, CodexShape
<1>5. /\ IsTurn(turn') /\ turn'.queue \in Seq(AgentEvent) /\ turn'.idle = turn.idle
      /\ turn'.id = turn.id /\ turn'.before = turn.before
      /\ turn'.sent = IF turn.sent = "pending" THEN "failed" ELSE turn.sent
      /\ turn'.abort = IF turn.abort = "pending" THEN "failed" ELSE turn.abort
      /\ \A k \in {"text", "done"} : Has(turn'.queue, {k}) => Has(turn.queue, {k})
  BY <1>1, EndNews
<1>6. Typed'
  BY <1>1, <1>3, <1>5, NoLines DEF Typed, IsTurn
<1>7. ~HasHandler => NothingRuns'
  BY <1>3, <1>4, NoLines DEF TurnInv, NothingRuns
<1>8. ASSUME NEW c \in Calls, Asked(c) PROVE Asked(c)'
  <2>1. /\ turn'.sent \in {"pending", "failed"} /\ turn'.abort = "none"
        /\ ~Has(turn'.queue, {"text"}) /\ ~Has(turn'.queue, {"done"})
    BY <1>5, <1>8 DEF Asked
  <2> QED
    BY <1>3, <1>4, <1>5, <1>8, <2>1, NoLines DEF Asked
<1>9. ASSUME NEW c \in Calls, Started(c) PROVE Started(c)'
  <2>1. LinesInv' /\ RequestsInv(c)'
    BY <1>3, <1>5, NoLines DEF LinesInv, RequestsInv
  <2>2. IdleInv'
    BY <1>3, <1>4, <1>5, <1>9, NoLines DEF Started, IdleInv
  <2> QED
    BY <1>3, <1>4, <1>5, <1>9, <2>1, <2>2 DEF Started
<1> QED
  BY <1>4, <1>6, <1>7, <1>8, <1>9, OutsideFrame DEF TurnInv

-----------------------------------------------------------------------------
(* The process keeps the turn in order.                                    *)

\* The process writes, and nothing else changes.
WritesLines(r, lines) ==
  /\ UNCHANGED <<call, owner, turn, codex>> /\ owner.session
  /\ runtime'.made = r.made /\ runtime'.running = r.running /\ runtime'.said = r.said
  /\ runtime'.thread = r.thread /\ runtime'.requests = r.requests
  /\ runtime'.lines = runtime.lines \o lines

LEMMA WriteFields ==
  ASSUME NEW r, NEW alive, IsProcess(r, alive), NEW lines, Writes(r, lines)
  PROVE  WritesLines(r, lines)
<1> DEFINE x == runtime.lines \o lines
<1>1. runtime' = [r EXCEPT !.lines = x]
  BY DEF Writes
<1> HIDE DEF x
<1>2. runtime' = [alive |-> alive, made |-> r.made, running |-> r.running, said |-> r.said,
                  thread |-> r.thread, requests |-> r.requests, lines |-> x]
  BY <1>1 DEF IsProcess
<1>3. UNCHANGED <<call, owner, turn, codex>> /\ owner.session
  BY DEF Writes
<1> QED
  BY <1>2, <1>3 DEF WritesLines, x

\* The turn that runs, and the request that is handled.
LEMMA HandledFields ==
  ASSUME Shape
  PROVE  /\ Handled.made = runtime.made /\ Handled.running = runtime.running
         /\ Handled.said = runtime.said /\ Handled.thread = runtime.thread
         /\ Handled.requests = Tail(runtime.requests)
         /\ IsProcess(Handled, runtime.alive) /\ IsProcess(runtime, runtime.alive)
<1>1. RuntimeShape
  BY ShapeParts
<1> QED
  BY <1>1, ProcessStays DEF Handled, RuntimeShape

LEMMA OverFields ==
  ASSUME NEW r, IsProcess(r, runtime.alive), NEW said
  PROVE  /\ IsProcess(Over(r, said), runtime.alive) /\ Over(r, said).made = r.made
         /\ Over(r, said).running = 0 /\ Over(r, said).said = 0
         /\ Over(r, said).requests = r.requests
         /\ Over(r, said).thread = IF said = 0 THEN r.thread ELSE Append(r.thread, said)
<1> DEFINE thread == IF said = 0 THEN r.thread ELSE Append(r.thread, said)
           a == [r EXCEPT !.running = 0]
           b == [a EXCEPT !.said = 0]
           d == [b EXCEPT !.thread = thread]
<1>1. Over(r, said) = d
  BY DEF Over
<1> HIDE DEF thread
<1>2. a = [alive |-> runtime.alive, made |-> r.made, running |-> 0, said |-> r.said,
           thread |-> r.thread, requests |-> r.requests, lines |-> r.lines]
  BY DEF IsProcess
<1> HIDE DEF a
<1>3. b = [alive |-> runtime.alive, made |-> r.made, running |-> 0, said |-> 0,
           thread |-> r.thread, requests |-> r.requests, lines |-> r.lines]
  BY <1>2
<1> HIDE DEF b
<1>4. d = [alive |-> runtime.alive, made |-> r.made, running |-> 0, said |-> 0,
           thread |-> thread, requests |-> r.requests, lines |-> r.lines]
  BY <1>3
<1> HIDE DEF d
<1> QED
  BY <1>1, <1>4 DEF IsProcess, thread

\* A turn that runs has a call, and has not ended.
LEMMA RunningTurn ==
  ASSUME TurnInv, runtime.running # 0
  PROVE  /\ HasHandler /\ Typed /\ \A c \in Calls : Prompting(c) => Started(c)
         /\ runtime.running = runtime.made /\ runtime.made \in Nat \ {0} /\ LinesInv
         /\ ~turn.idle /\ ~Has(runtime.lines, Ends)
<1>1. HasHandler
  BY DEF TurnInv, NothingRuns
<1>2. \A c \in Calls : Prompting(c) => Started(c)
  BY DEF TurnInv, Asked
<1>3. PICK c \in Calls : Prompting(c)
  BY <1>1 DEF HasHandler, Prompting
<1>4. Started(c) /\ Typed
  BY <1>2, <1>3 DEF TurnInv
<1> QED
  BY <1>1, <1>2, <1>4 DEF Started, LinesInv, IdleInv, Typed

LEMMA StartedWrites ==
  ASSUME Typed, NEW c \in Calls, Started(c), NEW r, NEW t \in Seq(AgentLine), WritesLines(r, t),
         r.made = runtime.made, r.running \in {0, runtime.running},
         LinesOf(t, runtime.made), EndIsLast(t), OneConfirms(t),
         \/ ~Has(runtime.lines, Ends)
         \/ ~Has(t, {"answer", "reject", "started", "item", "error", "tool"} \cup Ends),
         turn.idle => ~Has(t, {"answer", "reject", "started", "item", "error", "tool"} \cup Ends),
         Has(t, Ends) => r.running = 0,
         \/ r.requests = runtime.requests /\ ~Has(t, Confirms)
         \/ runtime.requests # <<>> /\ r.requests = <<>>
  PROVE  Started(c)'
<1>1. LinesInv /\ RequestsInv(c) /\ IdleInv /\ runtime.lines \in Seq(AgentLine)
  BY DEF Started, Typed
<1>2. runtime.requests # <<>> => ~Has(runtime.lines, Confirms) /\ turn.abort = "pending"
  BY <1>1 DEF RequestsInv
<1>3. /\ LinesOf(runtime.lines \o t, runtime.made)
      /\ \A kinds : Has(runtime.lines \o t, kinds) <=> Has(runtime.lines, kinds) \/ Has(t, kinds)
  BY <1>1, JoinKeeps DEF LinesInv
<1>4. EndIsLast(runtime.lines \o t) /\ OneConfirms(runtime.lines \o t)
  <2>1. EndIsLast(runtime.lines) /\ OneConfirms(runtime.lines)
    BY <1>1 DEF LinesInv
  <2>2. ~(Has(runtime.lines, Confirms) /\ Has(t, Confirms))
    BY <1>2
  <2> QED
    BY <1>1, <2>1, <2>2, JoinKeepsOrder
<1>5. LinesInv'
  BY <1>1, <1>3, <1>4 DEF LinesInv, WritesLines
<1>6. RequestsInv(c)'
  BY <1>1, <1>2, <1>3 DEF RequestsInv, WritesLines
<1>7. IdleInv'
  <2>1. turn.idle => r.running = 0
    BY <1>1 DEF IdleInv
  <2> QED
    BY <1>1, <1>3, <2>1 DEF IdleInv, WritesLines
<1> QED
  BY <1>5, <1>6, <1>7 DEF Started, WritesLines

LEMMA TypedWrites ==
  ASSUME Typed, NEW r, NEW t \in Seq(AgentLine), WritesLines(r, t),
         r.made \in Nat, r.said \in 0..MaxParts
  PROVE  Typed'
<1>1. runtime.lines \o t \in Seq(AgentLine)
  BY JoinOfLines DEF Typed
<1> QED
  BY <1>1 DEF Typed, WritesLines, IsTurn

LEMMA RunningWrites ==
  ASSUME TurnInv, runtime.running # 0, NEW r, NEW t \in Seq(AgentLine), WritesLines(r, t),
         r.made = runtime.made, r.running \in {0, runtime.running}, r.said \in 0..MaxParts,
         r.requests = runtime.requests, ~Has(t, Confirms),
         LinesOf(t, runtime.made), EndIsLast(t), OneConfirms(t), Has(t, Ends) => r.running = 0
  PROVE  TurnInv'
<1>1. /\ HasHandler /\ Typed /\ \A c \in Calls : Prompting(c) => Started(c)
      /\ ~turn.idle /\ ~Has(runtime.lines, Ends)
  BY RunningTurn
<1>2. Typed'
  BY <1>1, TypedWrites DEF Typed
<1>3. \A c \in Calls : Prompting(c) => Started(c)'
  BY <1>1, StartedWrites
<1> QED
  BY <1>1, <1>2, <1>3, OutsideFrame DEF WritesLines

\* One line of the turn that runs.
LEMMA RunningLine ==
  ASSUME NEW n \in Nat \ {0}, NEW k \in 0..MaxParts,
         NEW kind \in {"delta", "item", "error", "tool"} \cup Ends
  PROVE  /\ <<Line0(kind, n, k)>> \in Seq(AgentLine) /\ ~Has(<<Line0(kind, n, k)>>, Confirms)
         /\ LinesOf(<<Line0(kind, n, k)>>, n) /\ EndIsLast(<<Line0(kind, n, k)>>)
         /\ OneConfirms(<<Line0(kind, n, k)>>)
         /\ Has(<<Line0(kind, n, k)>>, Ends) <=> kind \in Ends
<1> DEFINE a == Line0(kind, n, k)
<1>1. a \in AgentLine /\ a.kind = kind /\ a.turn = n
  BY LineTypes
<1> HIDE DEF a
<1>2. kind \notin Confirms /\ kind # "reject" /\ n \in 1..n
  BY DEF Ends, Confirms
<1>3. /\ <<a>> \in Seq(AgentLine) /\ ~Has(<<a>>, Confirms)
      /\ LinesOf(<<a>>, n) /\ EndIsLast(<<a>>) /\ OneConfirms(<<a>>)
      /\ \A kinds : Has(<<a>>, kinds) <=> kind \in kinds
  BY <1>1, <1>2, OneLine
<1> QED
  BY <1>3 DEF a

LEMMA SpeaksKeeps ==
  ASSUME IInv, TurnInv, RuntimeSpeaks
  PROVE  TurnInv'
<1> DEFINE r == [runtime EXCEPT !.said = @ + 1]
           k == runtime.said + 1
           t == <<Line0("delta", runtime.running, k)>>
<1>1. Shape /\ RuntimeShape /\ runtime.running # 0 /\ Writes(r, t)
  BY ShapeParts DEF IInv, RuntimeSpeaks
<1>2. runtime.running = runtime.made /\ runtime.made \in Nat \ {0}
  BY <1>1, RunningTurn
<1>3. k \in 0..MaxParts
  BY SMTT(30), ConstantsOK DEF RuntimeSpeaks, TurnInv, Typed
<1>4. /\ r.made = runtime.made /\ r.running = runtime.running /\ r.said = k
      /\ r.requests = runtime.requests /\ IsProcess(r, runtime.alive)
  BY <1>1, ProcessStays DEF RuntimeShape
<1> HIDE DEF r, k
<1>5. /\ t \in Seq(AgentLine) /\ ~Has(t, Confirms) /\ LinesOf(t, runtime.made) /\ EndIsLast(t)
      /\ OneConfirms(t) /\ ~Has(t, Ends)
  <2>1. "delta" \notin Ends
    BY DEF Ends
  <2> QED
    BY <1>2, <1>3, <2>1, RunningLine
<1> HIDE DEF t
<1>6. WritesLines(r, t)
  BY <1>1, <1>4, WriteFields
<1> QED
  BY <1>1, <1>3, <1>4, <1>5, <1>6, RunningWrites

LEMMA FailsKeeps ==
  ASSUME IInv, TurnInv, RuntimeFails \/ RuntimeUsesTool
  PROVE  TurnInv'
<1>1. Shape /\ runtime.running # 0 /\ IsProcess(runtime, runtime.alive)
  BY HandledFields DEF IInv, RuntimeFails, RuntimeUsesTool
<1>2. /\ runtime.running = runtime.made /\ runtime.made \in Nat \ {0}
      /\ 0 \in 0..MaxParts /\ runtime.said \in 0..MaxParts
  BY <1>1, RunningTurn, ConstantsOK DEF Typed
<1>3. ASSUME NEW kind \in {"error", "tool"}, Writes(runtime, <<Line0(kind, runtime.running, 0)>>)
      PROVE  TurnInv'
  <2> DEFINE t == <<Line0(kind, runtime.running, 0)>>
  <2>1. /\ t \in Seq(AgentLine) /\ ~Has(t, Confirms) /\ LinesOf(t, runtime.made) /\ EndIsLast(t)
        /\ OneConfirms(t) /\ ~Has(t, Ends)
    <3>1. kind \notin Ends /\ kind \in {"delta", "item", "error", "tool"} \cup Ends
      BY DEF Ends
    <3> QED
      BY <1>2, <3>1, RunningLine
  <2>2. Writes(runtime, t)
    BY <1>3
  <2> HIDE DEF t
  <2>3. WritesLines(runtime, t)
    BY <1>1, <2>2, WriteFields
  <2> QED
    BY <1>1, <1>2, <2>1, <2>3, RunningWrites
<1>4. ASSUME Writes(Over(runtime, runtime.said), <<Line0("failed", runtime.running, 0)>>)
      PROVE  TurnInv'
  <2> DEFINE t == <<Line0("failed", runtime.running, 0)>>
             r == Over(runtime, runtime.said)
  <2>1. /\ t \in Seq(AgentLine) /\ ~Has(t, Confirms) /\ LinesOf(t, runtime.made) /\ EndIsLast(t)
        /\ OneConfirms(t)
    BY <1>2, RunningLine DEF Ends
  <2>2. Writes(r, t)
    BY <1>4
  <2> HIDE DEF t
  <2>3. /\ r.made = runtime.made /\ r.running = 0 /\ r.said = 0
        /\ r.requests = runtime.requests /\ IsProcess(r, runtime.alive)
    BY <1>1, OverFields
  <2> HIDE DEF r
  <2>4. WritesLines(r, t)
    BY <2>2, <2>3, WriteFields
  <2> QED
    BY <1>1, <1>2, <2>1, <2>3, <2>4, RunningWrites
<1> QED
  BY <1>3, <1>4 DEF RuntimeFails, RuntimeUsesTool

LEMMA CompletesKeeps ==
  ASSUME IInv, TurnInv, RuntimeCompletes
  PROVE  TurnInv'
<1> DEFINE n == runtime.running
           done == Line0("completed", n, 0)
<1>1. Shape /\ runtime.running # 0 /\ IsProcess(runtime, runtime.alive)
  BY HandledFields DEF IInv, RuntimeCompletes
<1>2. /\ n = runtime.made /\ n \in Nat \ {0}
      /\ 0 \in 0..MaxParts /\ runtime.said \in 0..MaxParts
  BY <1>1, RunningTurn, ConstantsOK DEF Typed
<1>3. PICK said \in 0..MaxParts :
        Writes(Over(runtime, said),
               (IF said = 0 THEN <<>> ELSE <<Line0("item", n, said)>>) \o <<done>>)
  BY <1>2 DEF RuntimeCompletes
<1> DEFINE r == Over(runtime, said)
           item == Line0("item", n, said)
           t == (IF said = 0 THEN <<>> ELSE <<item>>) \o <<done>>
<1>4. /\ done \in AgentLine /\ done.kind = "completed" /\ done.turn = n
      /\ item \in AgentLine /\ item.kind = "item" /\ item.turn = n
  BY <1>2, LineTypes DEF Ends
<1>5. /\ <<done>> \in Seq(AgentLine) /\ ~Has(<<done>>, Confirms) /\ LinesOf(<<done>>, n)
      /\ EndIsLast(<<done>>) /\ OneConfirms(<<done>>)
  BY <1>2, RunningLine DEF Ends
<1>6. LinesOf(<<item>>, n)
  BY <1>2, RunningLine
<1>7. Writes(r, t)
  BY <1>3
<1> HIDE DEF done, item, n
<1>8. /\ t \in Seq(AgentLine) /\ ~Has(t, Confirms) /\ LinesOf(t, n) /\ EndIsLast(t)
      /\ OneConfirms(t)
  <2>1. CASE said = 0
    <3>1. t = <<done>>
      BY <2>1
    <3> QED
      BY <1>5, <3>1
  <2>2. CASE said # 0
    <3>1. t = <<item>> \o <<done>> /\ <<item>> \in Seq(AgentLine)
      BY <1>4, <2>2
    <3>2. /\ EndIsLast(<<item>>) /\ OneConfirms(<<item>>)
          /\ \A kinds : Has(<<item>>, kinds) <=> item.kind \in kinds
      BY <1>4, OneLine
    <3>3. ~Has(<<item>>, Confirms) /\ ~Has(<<item>>, Ends)
      BY <1>4, <3>2 DEF Ends, Confirms
    <3> QED
      BY <1>5, <1>6, <3>1, <3>2, <3>3, JoinKeeps, JoinKeepsOrder, JoinOfLines
  <2> QED
    BY <2>1, <2>2
<1>9. /\ r.made = runtime.made /\ r.running = 0 /\ r.said = 0
      /\ r.requests = runtime.requests /\ IsProcess(r, runtime.alive)
  BY <1>1, OverFields
<1> HIDE DEF r, t
<1>10. WritesLines(r, t)
  BY <1>7, <1>9, WriteFields
<1> QED
  BY <1>1, <1>2, <1>8, <1>9, <1>10, RunningWrites

LEMMA LateKeeps ==
  ASSUME IInv, TurnInv, RuntimeIsLate
  PROVE  TurnInv'
<1>1. Shape /\ IsProcess(runtime, runtime.alive) /\ Typed
  BY HandledFields DEF IInv, TurnInv
<1>2. PICK n \in 1..runtime.made :
        n # runtime.running /\ Writes(runtime, <<Line0("delta", n, 1)>>)
  BY DEF RuntimeIsLate
<1> DEFINE a == Line0("delta", n, 1)
           t == <<a>>
<1>3. a \in AgentLine /\ a.kind = "delta" /\ a.turn = n
  <2>1. n \in Nat /\ 1 \in 0..MaxParts
    BY <1>1, ConstantsOK DEF Typed
  <2> QED
    BY <2>1, LineTypes
<1>4. WritesLines(runtime, t)
  BY <1>1, <1>2, WriteFields
<1> HIDE DEF a
<1>5. /\ t \in Seq(AgentLine) /\ EndIsLast(t) /\ OneConfirms(t)
      /\ \A kinds : Has(t, kinds) <=> a.kind \in kinds
      /\ LinesOf(t, runtime.made) /\ LateLines(t, runtime.made) /\ AskedLines(t, runtime.made)
  BY <1>3, OneLine
<1>6. /\ ~Has(t, Confirms) /\ ~Has(t, Ends) /\ ~Has(t, {"reject"})
      /\ ~Has(t, {"answer", "reject", "started", "item", "error", "tool"} \cup Ends)
  BY <1>3, <1>5 DEF Confirms, Ends
<1> HIDE DEF t
<1>7. Typed'
  BY <1>1, <1>4, <1>5, TypedWrites DEF Typed
<1>8. ASSUME ~HasHandler PROVE NothingRuns'
  <2>1. NothingRuns /\ runtime.lines \in Seq(AgentLine)
    BY <1>8 DEF TurnInv, Typed
  <2> QED
    BY <1>4, <1>5, <2>1, JoinKeeps DEF NothingRuns, WritesLines
<1>9. ASSUME NEW c \in Calls, Asked(c) PROVE Asked(c)'
  <2>1. runtime.lines \in Seq(AgentLine)
    BY <1>1 DEF Typed
  <2> QED
    BY <1>4, <1>5, <1>6, <1>9, <2>1, JoinKeeps DEF Asked, WritesLines
<1>10. ASSUME NEW c \in Calls, Started(c) PROVE Started(c)'
  BY <1>1, <1>4, <1>5, <1>6, <1>10, StartedWrites
<1> QED
  BY <1>4, <1>7, <1>8, <1>9, <1>10, OutsideFrame DEF TurnInv, WritesLines

\* Who asked.
LEMMA RequestIs ==
  ASSUME TurnInv, NEW kind, NextRequest(kind)
  PROVE  /\ HasHandler
         /\ \A c \in Calls : Prompting(c) =>
              /\ Head(runtime.requests) = runtime.requests[1] /\ Tail(runtime.requests) = <<>>
              /\ \/ kind = "start" /\ Asked(c) /\ ~Has(runtime.lines, {"reject"})
                 \/ /\ kind = "interrupt" /\ Started(c) /\ ~Has(runtime.lines, Confirms)
                    /\ Head(runtime.requests).turn = runtime.made
<1>1. HasHandler
  BY DEF TurnInv, NothingRuns, NextRequest
<1>2. ASSUME NEW c \in Calls, Prompting(c)
      PROVE  /\ Head(runtime.requests) = runtime.requests[1] /\ Tail(runtime.requests) = <<>>
             /\ \/ kind = "start" /\ Asked(c) /\ ~Has(runtime.lines, {"reject"})
                \/ /\ kind = "interrupt" /\ Started(c) /\ ~Has(runtime.lines, Confirms)
                   /\ Head(runtime.requests).turn = runtime.made
  <2> DEFINE p == runtime.requests[1]
  <2>1. \/ /\ Asked(c) /\ runtime.requests = <<p>> /\ p.kind = "start"
           /\ ~Has(runtime.lines, {"reject"})
        \/ /\ Started(c) /\ runtime.requests = <<p>> /\ ~Has(runtime.lines, Confirms)
           /\ p.kind = "interrupt" /\ p.turn = runtime.made
    BY <1>2 DEF TurnInv, NextRequest, Asked, Started, RequestsInv
  <2>2. runtime.requests = <<p>>
    BY <2>1
  <2> HIDE DEF p
  <2>3. Head(runtime.requests) = p /\ Tail(runtime.requests) = <<>>
    BY <2>2
  <2>4. p.kind = kind
    BY <2>3 DEF NextRequest
  <2> QED
    BY <2>1, <2>3, <2>4 DEF p
<1> QED
  BY <1>1, <1>2

LEMMA RejectsKeeps ==
  ASSUME IInv, TurnInv, RuntimeRejects
  PROVE  TurnInv'
<1> DEFINE a == Line0("reject", 0, 0)
           t == <<a>>
<1>1. Shape /\ Typed /\ NextRequest("start")
  BY DEF IInv, TurnInv, RuntimeRejects
<1>2. a \in AgentLine /\ a.kind = "reject" /\ a.turn = 0
  BY LineTypes, ConstantsOK
<1>3. WritesLines(Handled, t)
  BY <1>1, HandledFields, WriteFields DEF RuntimeRejects
<1> HIDE DEF a
<1>4. t \in Seq(AgentLine) /\ \A n : AskedLines(t, n)
  BY <1>2, OneLine
<1> HIDE DEF t
<1>5. Typed'
  BY <1>1, <1>3, <1>4, HandledFields, TypedWrites DEF Typed
<1>6. ASSUME NEW c \in Calls, Prompting(c) PROVE Asked(c)'
  <2>1. Asked(c) /\ Tail(runtime.requests) = <<>> /\ runtime.lines \in Seq(AgentLine)
    BY <1>1, <1>6, RequestIs DEF Typed
  <2>2. AskedLines(runtime.lines \o t, turn.before)
    BY <1>4, <2>1, JoinKeeps DEF Asked
  <2> QED
    BY <1>1, <1>3, <2>1, <2>2, HandledFields DEF Asked, WritesLines
<1>7. HasHandler
  BY <1>1, RequestIs
<1> QED
  BY <1>3, <1>5, <1>6, <1>7, OutsideFrame DEF WritesLines

LEMMA InterruptedKeeps ==
  ASSUME IInv, TurnInv, RuntimeInterrupts
  PROVE  TurnInv'
<1> DEFINE n == Head(runtime.requests).turn
<1>1. Shape /\ Typed /\ NextRequest("interrupt") /\ HasHandler /\ 0 \in 0..MaxParts
  BY RequestIs, ConstantsOK DEF IInv, TurnInv, RuntimeInterrupts
<1>2. PICK c \in Calls : Prompting(c)
  BY <1>1 DEF HasHandler, Prompting
<1>3. \A d \in Calls : Prompting(d) =>
        Started(d) /\ Tail(runtime.requests) = <<>> /\ ~Has(runtime.lines, Confirms)
  BY <1>1, RequestIs
<1>4. /\ n = runtime.made /\ n \in Nat \ {0} /\ runtime.running \in {0, n}
      /\ Tail(runtime.requests) = <<>> /\ runtime.requests # <<>>
  BY <1>1, <1>2, RequestIs DEF Started, Typed, NextRequest
<1>5. ASSUME NEW r, NEW t, Writes(r, t), IsProcess(r, runtime.alive), t \in Seq(AgentLine),
             r.made = runtime.made, r.said \in 0..MaxParts, r.requests = <<>>,
             LinesOf(t, runtime.made), EndIsLast(t), OneConfirms(t),
             \/ /\ r.running = 0 /\ runtime.running # 0
             \/ /\ r.running = runtime.running
                /\ ~Has(t, {"answer", "reject", "started", "item", "error", "tool"} \cup Ends)
                /\ ~Has(t, Ends)
      PROVE  TurnInv'
  <2>1. WritesLines(r, t)
    BY <1>5, WriteFields
  <2>2. Typed'
    BY <1>1, <1>5, <2>1, TypedWrites DEF Typed
  <2>3. ASSUME NEW d \in Calls, Prompting(d) PROVE Started(d)'
    <3>1. Started(d)
      BY <1>3, <2>3
    <3>2. runtime.running # 0 => ~Has(runtime.lines, Ends) /\ ~turn.idle
      BY <3>1 DEF Started, LinesInv, IdleInv
    <3> QED
      BY <1>1, <1>4, <1>5, <2>1, <3>1, <3>2, StartedWrites
  <2> QED
    BY <1>1, <2>1, <2>2, <2>3, OutsideFrame DEF WritesLines
<1>6. CASE /\ runtime.running = n
           /\ Writes(Over(Handled, runtime.said),
                     <<Line0("stopped", n, 0), Line0("completed", n, 0)>>)
  <2> DEFINE a == Line0("stopped", n, 0)
             b == Line0("completed", n, 0)
             r == Over(Handled, runtime.said)
  <2>1. /\ a \in AgentLine /\ a.kind = "stopped" /\ a.turn = n
        /\ b \in AgentLine /\ b.kind = "completed" /\ b.turn = n
    BY <1>1, <1>4, LineTypes DEF Ends, Confirms
  <2>2. Writes(r, <<a, b>>)
    BY <1>6
  <2> HIDE DEF a, b
  <2>3. LinesOf(<<a>>, n) /\ LinesOf(<<b>>, n)
    BY <1>4, <2>1, OneLine
  <2>4. a.kind \notin Ends /\ b.kind \notin Confirms
    BY <2>1 DEF Ends, Confirms
  <2>5. /\ <<a, b>> \in Seq(AgentLine) /\ LinesOf(<<a, b>>, n)
        /\ EndIsLast(<<a, b>>) /\ OneConfirms(<<a, b>>)
    BY <2>1, <2>3, <2>4, TwoLines
  <2>6. /\ r.made = runtime.made /\ r.running = 0 /\ r.said = 0
        /\ r.requests = <<>> /\ IsProcess(r, runtime.alive)
    <3>1. /\ IsProcess(Handled, runtime.alive) /\ Handled.made = runtime.made
          /\ Handled.requests = <<>>
      BY <1>1, <1>4, HandledFields
    <3>2. /\ IsProcess(r, runtime.alive) /\ r.made = Handled.made /\ r.running = 0 /\ r.said = 0
          /\ r.requests = Handled.requests
      BY <3>1, OverFields
    <3> QED
      BY <3>1, <3>2
  <2> HIDE DEF r
  <2>7. runtime.running # 0
    BY <1>4, <1>6
  <2> QED
    BY <1>1, <1>4, <1>5, <2>2, <2>5, <2>6, <2>7
<1>7. ASSUME NEW kind \in {"stopped", "unstopped"}, Writes(Handled, <<Line0(kind, n, 0)>>)
      PROVE  TurnInv'
  <2> DEFINE a == Line0(kind, n, 0)
             t == <<a>>
  <2>1. a \in AgentLine /\ a.kind = kind /\ a.turn = n
    BY <1>1, <1>4, LineTypes DEF Confirms
  <2>2. Writes(Handled, t)
    BY <1>7
  <2> HIDE DEF a
  <2>3. /\ t \in Seq(AgentLine) /\ LinesOf(t, n) /\ EndIsLast(t) /\ OneConfirms(t)
        /\ \A kinds : Has(t, kinds) <=> a.kind \in kinds
    BY <1>4, <2>1, OneLine
  <2>4. /\ ~Has(t, {"answer", "reject", "started", "item", "error", "tool"} \cup Ends)
        /\ ~Has(t, Ends)
    BY <2>1, <2>3 DEF Ends
  <2> HIDE DEF t
  <2>5. /\ Handled.made = runtime.made /\ Handled.running = runtime.running
        /\ Handled.said \in 0..MaxParts
        /\ Handled.requests = <<>> /\ IsProcess(Handled, runtime.alive)
    BY <1>1, <1>4, HandledFields DEF Typed
  <2> QED
    BY <1>4, <1>5, <2>2, <2>3, <2>4, <2>5
<1> QED
  BY <1>6, <1>7 DEF RuntimeInterrupts

Begins(r, n, thread) ==
  [r EXCEPT !.made = n, !.running = n, !.said = 0, !.thread = thread]

LEMMA StartedFields ==
  ASSUME NEW r, IsProcess(r, runtime.alive), NEW n, NEW thread
  PROVE  /\ IsProcess(Begins(r, n, thread), runtime.alive)
         /\ Begins(r, n, thread).made = n /\ Begins(r, n, thread).running = n
         /\ Begins(r, n, thread).said = 0 /\ Begins(r, n, thread).thread = thread
         /\ Begins(r, n, thread).requests = r.requests
<1> DEFINE a == [r EXCEPT !.made = n]
           b == [a EXCEPT !.running = n]
           d == [b EXCEPT !.said = 0]
           e == [d EXCEPT !.thread = thread]
<1>1. Begins(r, n, thread) = e
  BY DEF Begins
<1>2. a = [alive |-> runtime.alive, made |-> n, running |-> r.running, said |-> r.said,
           thread |-> r.thread, requests |-> r.requests, lines |-> r.lines]
  BY DEF IsProcess
<1> HIDE DEF a
<1>3. b = [alive |-> runtime.alive, made |-> n, running |-> n, said |-> r.said,
           thread |-> r.thread, requests |-> r.requests, lines |-> r.lines]
  BY <1>2
<1> HIDE DEF b
<1>4. d = [alive |-> runtime.alive, made |-> n, running |-> n, said |-> 0,
           thread |-> r.thread, requests |-> r.requests, lines |-> r.lines]
  BY <1>3
<1> HIDE DEF d
<1>5. e = [alive |-> runtime.alive, made |-> n, running |-> n, said |-> 0,
           thread |-> thread, requests |-> r.requests, lines |-> r.lines]
  BY <1>4
<1> HIDE DEF e
<1> QED
  BY <1>1, <1>5 DEF IsProcess

\* The lines that a start writes, in one order or the other.
LEMMA StartLines ==
  ASSUME NEW n \in Nat \ {0}
  PROVE  LET a == Line0("answer", n, 0)
             b == Line0("started", n, 0)
         IN \A t \in {<<a, b>>, Reverse(<<a, b>>)} :
              /\ t \in Seq(AgentLine) /\ LinesOf(t, n) /\ EndIsLast(t) /\ OneConfirms(t)
              /\ ~Has(t, Confirms) /\ ~Has(t, Ends)
<1> DEFINE a == Line0("answer", n, 0)
           b == Line0("started", n, 0)
<1>1. /\ a \in AgentLine /\ a.kind = "answer" /\ a.turn = n
      /\ b \in AgentLine /\ b.kind = "started" /\ b.turn = n
  BY LineTypes, ConstantsOK
<1> HIDE DEF a, b
<1>2. Reverse(<<a, b>>) = <<b, a>>
  BY DEF Reverse
<1>3. LinesOf(<<a>>, n) /\ LinesOf(<<b>>, n)
  BY <1>1, OneLine
<1>4. a.kind \notin Ends \cup Confirms /\ b.kind \notin Ends \cup Confirms
  BY <1>1 DEF Ends, Confirms
<1>5. /\ <<a, b>> \in Seq(AgentLine) /\ LinesOf(<<a, b>>, n)
      /\ EndIsLast(<<a, b>>) /\ OneConfirms(<<a, b>>)
      /\ ~Has(<<a, b>>, Confirms) /\ ~Has(<<a, b>>, Ends)
  BY <1>1, <1>3, <1>4, TwoLines
<1>6. /\ <<b, a>> \in Seq(AgentLine) /\ LinesOf(<<b, a>>, n)
      /\ EndIsLast(<<b, a>>) /\ OneConfirms(<<b, a>>)
      /\ ~Has(<<b, a>>, Confirms) /\ ~Has(<<b, a>>, Ends)
  BY <1>1, <1>3, <1>4, TwoLines
<1> QED
  BY <1>2, <1>5, <1>6 DEF a, b

LEMMA StartsKeeps ==
  ASSUME IInv, TurnInv, RuntimeStarts
  PROVE  TurnInv'
<1> DEFINE request == Head(runtime.requests)
           n == runtime.made + 1
           thread == IF request.replace THEN request.messages
                     ELSE Handled.thread \o request.messages
           r == Begins(Handled, n, thread)
           a == Line0("answer", n, 0)
           b == Line0("started", n, 0)
<1>1. Shape /\ Typed /\ NextRequest("start") /\ HasHandler /\ n \in Nat \ {0}
  BY RequestIs DEF IInv, TurnInv, RuntimeStarts, Typed
<1>2. PICK t \in {<<a, b>>, Reverse(<<a, b>>)} : Writes(r, t)
  BY DEF RuntimeStarts, Begins
<1>3. /\ t \in Seq(AgentLine) /\ LinesOf(t, n) /\ EndIsLast(t) /\ OneConfirms(t)
      /\ ~Has(t, Confirms) /\ ~Has(t, Ends)
  BY <1>1, StartLines
<1> HIDE DEF thread
<1>4. /\ IsProcess(r, runtime.alive) /\ r.made = n /\ r.running = n /\ r.said = 0
      /\ r.requests = Tail(runtime.requests)
  <2>1. IsProcess(Handled, runtime.alive) /\ Handled.requests = Tail(runtime.requests)
    BY <1>1, HandledFields
  <2> HIDE DEF n
  <2> QED
    BY <2>1, StartedFields
<1> HIDE DEF r
<1>5. WritesLines(r, t)
  BY <1>2, <1>4, WriteFields
<1>6. Typed'
  BY <1>1, <1>3, <1>4, <1>5, TypedWrites, ConstantsOK
<1>7. ASSUME NEW c \in Calls, Prompting(c) PROVE Started(c)'
  <2>1. /\ Asked(c) /\ Tail(runtime.requests) = <<>> /\ runtime.lines \in Seq(AgentLine)
        /\ ~Has(runtime.lines, {"reject"}) /\ runtime.made \in Nat
    BY <1>1, <1>7, RequestIs DEF Typed
  <2>2. /\ LinesOf(runtime.lines, n) /\ ~Has(runtime.lines, Confirms) /\ ~Has(runtime.lines, Ends)
        /\ EndIsLast(runtime.lines) /\ OneConfirms(runtime.lines)
    <3>1. \A i \in 1..Len(runtime.lines) :
            runtime.lines[i].kind = "delta" /\ runtime.lines[i].turn \in 1..runtime.made
      BY <2>1 DEF Asked, AskedLines, Has
    <3>2. 1..runtime.made \subseteq 1..n
      BY <2>1
    <3> QED
      BY <3>1, <3>2 DEF LinesOf, Has, Confirms, Ends, EndIsLast, OneConfirms
  <2>3. LinesInv'
    <3>1. /\ LinesOf(runtime.lines \o t, n) /\ EndIsLast(runtime.lines \o t)
          /\ OneConfirms(runtime.lines \o t) /\ ~Has(runtime.lines \o t, Ends)
      BY <1>3, <2>1, <2>2, JoinKeeps, JoinKeepsOrder
    <3> QED
      BY <1>4, <1>5, <3>1 DEF LinesInv, WritesLines
  <2>4. RequestsInv(c)'
    <3>1. ~Has(runtime.lines \o t, Confirms)
      BY <1>3, <2>1, <2>2, JoinKeeps
    <3> QED
      BY <1>4, <1>5, <2>1, <3>1 DEF RequestsInv, WritesLines, Asked
  <2>5. IdleInv'
    BY <1>4, <1>5, <2>1 DEF IdleInv, WritesLines, Asked
  <2> QED
    BY <1>1, <1>4, <1>5, <2>1, <2>3, <2>4, <2>5 DEF Started, WritesLines, Asked
<1> QED
  BY <1>1, <1>5, <1>6, <1>7, OutsideFrame DEF WritesLines

-----------------------------------------------------------------------------
(* The turn is in order in every state.                                    *)

LEMMA TurnStepKeeps ==
  ASSUME IInv, TurnInv, SessionInv, [Next]_vars
  PROVE  TurnInv'
<1>1. RuntimeStep => TurnInv'
  BY SpeaksKeeps, FailsKeeps, CompletesKeeps, LateKeeps, RejectsKeeps, InterruptedKeeps,
     StartsKeeps DEF RuntimeStep
<1>2. ReaderStep => TurnInv'
  BY ReadsAnswerKeeps, ReadsNoticeKeeps, ReaderEndsKeeps DEF ReaderStep
<1>3. ASSUME NEW c \in Calls,
             \/ BeginsTurn(c) \/ SendReturns(c) \/ Unsettled(c) \/ Hears(c)
             \/ Interrupts(c) \/ InterruptReturns(c) \/ Finishes(c)
      PROVE  TurnInv'
  BY <1>3, BeginsTurnAsks, SendReturnsKeeps, UnsettledKeeps, HearsKeeps, InterruptsKeeps,
     InterruptReturnsKeeps, FinishesKeeps
<1> QED
  BY <1>1, <1>2, <1>3, StepClass, AsideKeeps, BlankKeeps

LEMMA TurnInit ==
  ASSUME Init
  PROVE  TurnInv /\ SessionInv
<1>1. /\ turn = NoTurn /\ runtime = NoProcess /\ codex = NoCodex
      /\ \A c \in Calls : call[c].at = "none"
      /\ ~owner.session /\ ~owner.metadata
  BY DEF Init, NewCall
<1>2. /\ runtime.made = 0 /\ runtime.running = 0 /\ runtime.said = 0
      /\ runtime.requests = <<>> /\ runtime.lines = <<>>
      /\ codex.turn = 0 /\ codex.retired = {}
  BY <1>1 DEF NoProcess, NewProcess, NoCodex, Launched
<1>3. Typed
  BY <1>1, <1>2, NoTurnIsTurn, NoLines, ConstantsOK DEF Typed
<1>4. NothingRuns
  BY <1>2, NoLines DEF NothingRuns
<1>5. \A c \in Calls : ~Prompting(c) /\ call[c].at # "ready"
  BY <1>1 DEF Prompting, Subscribed, Settling
<1> QED
  BY <1>1, <1>3, <1>4, <1>5 DEF TurnInv, SessionInv

\* Where a turn stands in the adapter agrees with where it stands in the transport and in the
\* process: a prompt that nobody took, a turn that started, or nothing at all.
THEOREM TurnInvariant == Spec => [](IInv /\ TurnInv /\ SessionInv)
<1>1. Init => IInv /\ TurnInv /\ SessionInv
  BY InitHolds, TurnInit
<1>2. IInv /\ TurnInv /\ SessionInv /\ [Next]_vars => (IInv /\ TurnInv /\ SessionInv)'
  BY StepKeeps, TurnStepKeeps, SessionKeeps
<1> QED
  BY <1>1, <1>2, PTL DEF Spec

\* A prompt is sent when every earlier turn is over in the runtime and in the transport, so
\* that a runtime that is reused has nothing left of an interrupted turn.
THEOREM SettledSafety == Spec => []SettledBeforeReuse
<1>1. TurnInv => SettledBeforeReuse
  <2> SUFFICES ASSUME TurnInv, NextRequest("start")
               PROVE  /\ runtime.running = 0 /\ codex.turn = 0
                      /\ codex.retired = 1..runtime.made
    BY DEF SettledBeforeReuse
  <2>1. PICK c \in Calls : Prompting(c)
    BY RequestIs DEF HasHandler, Prompting
  <2> QED
    BY <2>1, RequestIs DEF Asked
<1> QED
  BY <1>1, TurnInvariant, PTL

=============================================================================
