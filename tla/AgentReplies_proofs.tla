------------------------- MODULE AgentReplies_proofs -------------------------
(***************************************************************************)
(* Proofs about the replies of the conversation agent, for any number of   *)
(* calls and any sizes of its replies, contexts, queue and pipe.  What a   *)
(* caller heard, what is in the queue of its turn and what is in the pipe  *)
(* of the process continue each other up to what the process has said, so  *)
(* that a reply that was read to its end is what the thread has gained.    *)
(* RepliesInv and MessagesInv are inductive relative to IInv, TurnInv and  *)
(* SessionInv.  The types come last, with TypesInv: that the process makes *)
(* no more turns than there are calls takes a count of who may start one.  *)
(*                                                                         *)
(* The lemmas about Follows and Continues say what each edit of the queue  *)
(* and of the pipe does.  Then there is one lemma per kind of step: those  *)
(* that leave the turn alone, those of the turn, of the reader task and of *)
(* the process.                                                            *)
(***************************************************************************)
EXTENDS AgentConversation_proofs

-----------------------------------------------------------------------------
(* The third inductive invariant: what was heard, what is in the queue and *)
(* what is in the pipe of a reply continue each other, and the process has *)
(* the conversation that the adapter takes it to have.                     *)

\* The turn of the caller that prompts.
Mine == turn.before + 1

\* The events of the queue go on with the turn n, of which h parts were heard, up to part r.
Edge(q, h, i) == IF i = 0 THEN h ELSE q[i].last
Follows(q, n, h, r) ==
  /\ \A i \in 1..Len(q) :
       /\ q[i].kind = "text" => /\ q[i].turn = n /\ q[i].first = Edge(q, h, i - 1) + 1
                                /\ q[i].first <= q[i].last
       /\ q[i].kind # "text" => q[i].kind = "done" /\ i = Len(q)
  /\ r = Edge(q, h, IF Has(q, {"done"}) THEN Len(q) - 1 ELSE Len(q))

\* The lines of the turn n that come before its end go on from part r up to part t: by its
\* deltas, or by an item that tells all of a reply of which nothing was said before.
Speaks(s, n, i) ==
  /\ s[i].kind = "delta" /\ s[i].turn = n
  /\ \A j \in 1..Len(s) : j < i => s[j].kind \notin Ends
Continues(s, n, r, t) ==
  /\ \A i \in 1..Len(s) : Speaks(s, n, i) => s[i].part \in (r + 1)..t
  /\ \A i, j \in 1..Len(s) : i < j /\ Speaks(s, n, i) /\ Speaks(s, n, j) => s[i].part < s[j].part
  /\ \A i \in 1..Len(s) : s[i].kind = "item" =>
       s[i].part = t /\ t > 0 /\ \A j \in 1..Len(s) : i < j => ~Speaks(s, n, j)
  /\ \/ \A k \in (r + 1)..t : \E i \in 1..Len(s) : Speaks(s, n, i) /\ s[i].part = k
     \/ r = 0 /\ Has(s, {"item"}) /\ \A i \in 1..Len(s) : ~Speaks(s, n, i)

\* A conversation after a reply of k parts.
Said(context, k) == IF k = 0 THEN context ELSE Append(context, k)

\* What the process has of a reply, of which parts up to r are in the adapter.
Spoken(c, r, t) ==
  IF runtime.made = Mine
    THEN /\ IF runtime.running # 0 THEN t = runtime.said
                                   ELSE runtime.thread = Said(call[c].context, t)
         /\ IF turn.idle THEN r = t
            ELSE /\ Continues(runtime.lines, Mine, r, t)
                 /\ runtime.running = 0 => Has(runtime.lines, Ends)
                 /\ Has(runtime.lines, {"item"}) => runtime.running = 0
    ELSE t = 0

\* All of a reply is accounted for, unless an event was dropped or failed the turn.
Accounts(c, r, t) ==
  /\ Follows(turn.queue, Mine, Len(call[c].heard), r) /\ r <= t
  /\ r = 0 <=> turn.seen = {}
  /\ Spoken(c, r, t)
Account(c) == turn.accepting /\ ~turn.failed => \E r, t \in 0..MaxParts : Accounts(c, r, t)

\* The conversation of the process once it takes the prompt.
Applied(p) == IF p.replace THEN p.messages ELSE runtime.thread \o p.messages

ThreadInv(c) ==
  /\ NextRequest("start") => Applied(Head(runtime.requests)) = call[c].context
  /\ runtime.running # 0 => runtime.thread = call[c].context

HeardInv(c) ==
  /\ call[c].at = "sending" => call[c].heard = <<>>
  /\ \A i \in 1..Len(call[c].heard) : call[c].heard[i] = <<Mine, i>>

\* The next prompt is a snapshot from when the turn is to be settled.
SeenInv(c) ==
  /\ owner.retired \subseteq 1..turn.before
  /\ turn.seen \subseteq {Mine} /\ (turn.seen # {} => runtime.made = Mine)
  /\ turn.accepting <=> call[c].at \in {"sending", "reading"}
  /\ ~turn.accepting => owner.snapshot

ReplyInv(c) == HeardInv(c) /\ ThreadInv(c) /\ SeenInv(c) /\ Account(c)

\* Between two turns the process has the history, or the next prompt replaces it.
HistoryInv ==
  /\ Unused => owner.snapshot /\ owner.retired = {}
  /\ owner.session /\ ~HasHandler =>
       owner.retired \subseteq 1..runtime.made /\ (~owner.snapshot => runtime.thread = owner.history)

\* The messages of the callers and of the adapter, and the chunks.
MessagesInv ==
  /\ voice.context \in Messages /\ owner.history \in Messages
  /\ \A c \in Calls : /\ call[c].context \in Messages
                      /\ call[c].heard \in Seq(Nat \X Nat) /\ Len(call[c].heard) <= MaxParts

RepliesInv ==
  /\ HistoryInv
  /\ \A c \in Calls : call[c].at \in Waiting => call[c].heard = <<>>
  /\ \A c \in Calls : Prompting(c) => ReplyInv(c)

-----------------------------------------------------------------------------
(* The queue of a reply.                                                   *)

LEMMA FollowsNone ==
  \A n, h : Follows(<<>>, n, h, h)
BY DEF Follows, Edge, Has

LEMMA FollowsAppend ==
  ASSUME NEW q \in Seq(AgentEvent), NEW e \in AgentEvent, NEW n, NEW h \in Nat, NEW r,
         Follows(q, n, h, r), ~Has(q, {"done"})
  PROVE  /\ e.kind = "text" /\ e.turn = n /\ e.first = r + 1 /\ e.first <= e.last =>
              Follows(Append(q, e), n, h, e.last)
         /\ e.kind = "done" => Follows(Append(q, e), n, h, r)
<1> DEFINE p == Append(q, e)
<1>1. /\ p \in Seq(AgentEvent) /\ Len(q) \in Nat /\ Len(p) = Len(q) + 1 /\ p[Len(q) + 1] = e
      /\ \A i \in 1..Len(q) : p[i] = q[i]
  OBVIOUS
<1> HIDE DEF p
<1>2. \A i \in 1..Len(q) : q[i].kind = "text"
  BY DEF Follows, Has
<1>3. r = Edge(q, h, Len(q))
  BY DEF Follows
<1>4. \A i \in 0..Len(q) : Edge(p, h, i) = Edge(q, h, i)
  BY <1>1 DEF Edge
<1>5. Has(p, {"done"}) <=> e.kind = "done"
  BY <1>1, <1>2 DEF Has
<1>6. \A i \in 1..Len(q) : /\ p[i].kind = "text" /\ p[i].turn = n
                           /\ p[i].first = Edge(p, h, i - 1) + 1 /\ p[i].first <= p[i].last
  BY <1>1, <1>2, <1>4 DEF Follows
<1>7. CASE e.kind = "text" /\ e.turn = n /\ e.first = r + 1 /\ e.first <= e.last
  <2>1. Edge(p, h, Len(p)) = e.last /\ Edge(p, h, Len(p) - 1) = r
    BY <1>1, <1>3, <1>4 DEF Edge
  <2>2. ~Has(p, {"done"})
    BY <1>5, <1>7
  <2> QED
    BY <1>1, <1>6, <1>7, <2>1, <2>2 DEF Follows, p
<1>8. CASE e.kind = "done"
  <2>1. Edge(p, h, Len(p) - 1) = r /\ Has(p, {"done"})
    BY <1>1, <1>3, <1>4, <1>5, <1>8 DEF Edge
  <2> QED
    BY <1>1, <1>6, <1>8, <2>1 DEF Follows, p
<1> QED
  BY <1>7, <1>8

LEMMA FollowsTail ==
  ASSUME NEW q \in Seq(AgentEvent), q # <<>>, NEW n, NEW h \in Nat, NEW r, Follows(q, n, h, r)
  PROVE  /\ Head(q).kind = "text" =>
              /\ Head(q).turn = n /\ Head(q).first = h + 1 /\ Head(q).first <= Head(q).last
              /\ Head(q) \in AgentEvent /\ Follows(Tail(q), n, Head(q).last, r)
         /\ Head(q).kind = "done" => r = h
<1> DEFINE p == Tail(q)
           e == Head(q)
<1>1. /\ p \in Seq(AgentEvent) /\ Len(q) \in Nat \ {0} /\ Len(p) = Len(q) - 1
      /\ e = q[1] /\ e \in AgentEvent /\ \A i \in 1..Len(p) : p[i] = q[i + 1]
  OBVIOUS
<1> HIDE DEF p, e
<1>2. CASE e.kind = "text"
  <2>1. e.turn = n /\ e.first = h + 1 /\ e.first <= e.last
    BY <1>1, <1>2 DEF Follows, Edge
  <2>2. \A i \in 0..Len(p) : Edge(p, e.last, i) = Edge(q, h, i + 1)
    BY <1>1 DEF Edge
  <2>3. Has(p, {"done"}) <=> Has(q, {"done"})
    <3>1. ASSUME Has(q, {"done"}) PROVE Has(p, {"done"})
      <4>1. PICK i \in 1..Len(q) : q[i].kind = "done"
        BY <3>1 DEF Has
      <4>2. i # 1 /\ i - 1 \in 1..Len(p) /\ p[i - 1] = q[i]
        BY <1>1, <1>2, <4>1
      <4> QED
        BY <4>1, <4>2 DEF Has
    <3> QED
      BY <1>1, <3>1 DEF Has
  <2>4. \A i \in 1..Len(p) :
          /\ p[i].kind = "text" => /\ p[i].turn = n /\ p[i].first = Edge(p, e.last, i - 1) + 1
                                   /\ p[i].first <= p[i].last
          /\ p[i].kind # "text" => p[i].kind = "done" /\ i = Len(p)
    <3> SUFFICES ASSUME NEW i \in 1..Len(p)
                 PROVE  /\ p[i].kind = "text" =>
                             /\ p[i].turn = n /\ p[i].first = Edge(p, e.last, i - 1) + 1
                             /\ p[i].first <= p[i].last
                        /\ p[i].kind # "text" => p[i].kind = "done" /\ i = Len(p)
      OBVIOUS
    <3>1. /\ i + 1 \in 1..Len(q) /\ p[i] = q[i + 1] /\ i - 1 \in 0..Len(p)
          /\ Edge(p, e.last, i - 1) = Edge(q, h, i)
      BY <1>1, <2>2
    <3> QED
      BY <1>1, <3>1 DEF Follows
  <2>5. r = Edge(p, e.last, IF Has(p, {"done"}) THEN Len(p) - 1 ELSE Len(p))
    <3>1. r = Edge(q, h, IF Has(q, {"done"}) THEN Len(q) - 1 ELSE Len(q))
      BY DEF Follows
    <3>2. Has(p, {"done"}) => Len(p) # 0
      BY <1>1 DEF Has
    <3> QED
      BY <1>1, <2>2, <2>3, <3>1, <3>2
  <2>6. Follows(p, n, e.last, r)
    BY <2>4, <2>5 DEF Follows
  <2> QED
    BY <1>1, <1>2, <2>1, <2>6 DEF e, p
<1>3. CASE e.kind = "done"
  <2>1. Len(q) = 1 /\ Has(q, {"done"})
    BY <1>1, <1>3 DEF Follows, Has
  <2> QED
    BY <1>3, <2>1 DEF Follows, Edge, e
<1> QED
  BY <1>2, <1>3 DEF e

-----------------------------------------------------------------------------
(* The lines of a reply.                                                   *)

\* Nothing has come of a turn whose lines begin here.
LEMMA ContinuesNone ==
  ASSUME NEW s \in Seq(AgentLine), NEW n, NEW r \in Nat,
         \A i \in 1..Len(s) : s[i].kind # "item" /\ (s[i].kind = "delta" => s[i].turn # n)
  PROVE  Continues(s, n, r, r)
BY DEF Continues, Speaks

\* Lines that do not belong to the reply, or come when it is over.
LEMMA ContinuesAppend ==
  ASSUME NEW s \in Seq(AgentLine), NEW u \in Seq(AgentLine), NEW n, NEW r \in Nat, NEW t \in Nat,
         Continues(s, n, r, t),
         \A i \in 1..Len(u) : /\ u[i].kind # "item"
                              /\ u[i].kind = "delta" /\ u[i].turn = n => Has(s, Ends)
  PROVE  Continues(s \o u, n, r, t)
<1> DEFINE p == s \o u
<1>1. /\ Len(s) \in Nat /\ Len(p) = Len(s) + Len(u) /\ p \in Seq(AgentLine) /\ Len(u) \in Nat
      /\ \A i \in 1..Len(s) : i \in 1..Len(p) /\ p[i] = s[i]
      /\ \A i \in 1..Len(p) : i \in 1..Len(s) \/ (i - Len(s) \in 1..Len(u) /\ p[i] = u[i - Len(s)])
  BY JoinOfLines
<1> HIDE DEF p
<1>2. \A i \in 1..Len(p) : Speaks(p, n, i) => i \in 1..Len(s)
  <2> SUFFICES ASSUME NEW i \in 1..Len(p), Speaks(p, n, i), i \notin 1..Len(s)
               PROVE  FALSE
    OBVIOUS
  <2>1. i - Len(s) \in 1..Len(u) /\ p[i] = u[i - Len(s)] /\ i > Len(s)
    BY <1>1
  <2>2. PICK j \in 1..Len(s) : s[j].kind \in Ends
    BY <2>1 DEF Speaks, Has
  <2>3. j < i /\ j \in 1..Len(p) /\ p[j].kind \in Ends
    BY <1>1, <2>1, <2>2
  <2> QED
    BY <2>3 DEF Speaks
<1>3. \A i \in 1..Len(s) : Speaks(p, n, i) <=> Speaks(s, n, i)
  <2> SUFFICES ASSUME NEW i \in 1..Len(s) PROVE Speaks(p, n, i) <=> Speaks(s, n, i)
    OBVIOUS
  <2>1. \A j \in 1..Len(p) : j < i => j \in 1..Len(s)
    BY <1>1
  <2> QED
    BY <1>1, <2>1 DEF Speaks
<1>4. \A i \in 1..Len(p) : p[i].kind = "item" => i \in 1..Len(s)
  BY <1>1
<1>5. \A i \in 1..Len(p) : Speaks(p, n, i) => p[i].part \in (r + 1)..t
  BY <1>1, <1>2, <1>3 DEF Continues
<1>6. \A i, j \in 1..Len(p) :
        i < j /\ Speaks(p, n, i) /\ Speaks(p, n, j) => p[i].part < p[j].part
  BY <1>1, <1>2, <1>3 DEF Continues
<1>7. \A i \in 1..Len(p) : p[i].kind = "item" =>
        p[i].part = t /\ t > 0 /\ \A j \in 1..Len(p) : i < j => ~Speaks(p, n, j)
  BY <1>1, <1>2, <1>3, <1>4 DEF Continues
<1>8. \/ \A k \in (r + 1)..t : \E i \in 1..Len(p) : Speaks(p, n, i) /\ p[i].part = k
      \/ r = 0 /\ Has(p, {"item"}) /\ \A i \in 1..Len(p) : ~Speaks(p, n, i)
  <2>1. CASE \A k \in (r + 1)..t : \E i \in 1..Len(s) : Speaks(s, n, i) /\ s[i].part = k
    BY <1>1, <1>3, <2>1
  <2>2. CASE r = 0 /\ Has(s, {"item"}) /\ \A i \in 1..Len(s) : ~Speaks(s, n, i)
    <3>1. Has(p, {"item"})
      BY <1>1, <2>2 DEF Has
    <3> QED
      BY <1>2, <1>3, <2>2, <3>1
  <2> QED
    BY <2>1, <2>2 DEF Continues
<1> QED
  BY <1>5, <1>6, <1>7, <1>8 DEF Continues, p

\* The next part of the reply.
LEMMA ContinuesDelta ==
  ASSUME NEW s \in Seq(AgentLine), NEW n, NEW r \in Nat, NEW t \in Nat, r <= t,
         Continues(s, n, r, t), ~Has(s, Ends), ~Has(s, {"item"}),
         NEW a \in AgentLine, a.kind = "delta", a.turn = n, a.part = t + 1
  PROVE  Continues(s \o <<a>>, n, r, t + 1)
<1> DEFINE p == s \o <<a>>
           l == Len(s) + 1
<1>1. /\ Len(s) \in Nat /\ Len(p) = l /\ p \in Seq(AgentLine) /\ p[l] = a
      /\ \A i \in 1..Len(s) : i \in 1..Len(p) /\ p[i] = s[i]
      /\ \A i \in 1..Len(p) : i \in 1..Len(s) \/ i = l
  OBVIOUS
<1> HIDE DEF p
<1>2. \A i \in 1..Len(s) : s[i].kind \notin Ends /\ s[i].kind # "item"
  BY DEF Has
<1>3. \A i \in 1..Len(s) : Speaks(p, n, i) <=> Speaks(s, n, i)
  <2> SUFFICES ASSUME NEW i \in 1..Len(s) PROVE Speaks(p, n, i) <=> Speaks(s, n, i)
    OBVIOUS
  <2>1. \A j \in 1..Len(p) : j < i => j \in 1..Len(s)
    BY <1>1
  <2> QED
    BY <1>1, <2>1 DEF Speaks
<1>4. Speaks(p, n, l)
  <2>1. \A j \in 1..Len(p) : j < l => j \in 1..Len(s)
    BY <1>1
  <2> QED
    BY <1>1, <1>2, <2>1 DEF Speaks
<1>5. \A i \in 1..Len(p) : Speaks(p, n, i) => p[i].part \in (r + 1)..(t + 1)
  BY <1>1, <1>3 DEF Continues
<1>6. \A i, j \in 1..Len(p) :
        i < j /\ Speaks(p, n, i) /\ Speaks(p, n, j) => p[i].part < p[j].part
  <2> SUFFICES ASSUME NEW i \in 1..Len(p), NEW j \in 1..Len(p), i < j, Speaks(p, n, i),
                      Speaks(p, n, j)
               PROVE  p[i].part < p[j].part
    OBVIOUS
  <2>1. i \in 1..Len(s) /\ p[i] = s[i] /\ Speaks(s, n, i) /\ s[i].part \in (r + 1)..t
    BY <1>1, <1>3 DEF Continues
  <2>2. CASE j = l
    BY <1>1, <2>1, <2>2
  <2>3. CASE j \in 1..Len(s)
    BY <1>1, <1>3, <2>1, <2>3 DEF Continues
  <2> QED
    BY <1>1, <2>2, <2>3
<1>7. \A i \in 1..Len(p) : p[i].kind # "item"
  BY <1>1, <1>2
<1>8. \A k \in (r + 1)..(t + 1) : \E i \in 1..Len(p) : Speaks(p, n, i) /\ p[i].part = k
  <2> SUFFICES ASSUME NEW k \in (r + 1)..(t + 1)
               PROVE  \E i \in 1..Len(p) : Speaks(p, n, i) /\ p[i].part = k
    OBVIOUS
  <2>1. CASE k = t + 1
    BY <1>1, <1>4, <2>1
  <2>2. CASE k # t + 1
    <3>1. k \in (r + 1)..t
      BY <2>2
    <3>2. PICK i \in 1..Len(s) : Speaks(s, n, i) /\ s[i].part = k
      BY <3>1 DEF Continues, Has
    <3> QED
      BY <1>1, <1>3, <3>2
  <2> QED
    BY <2>1, <2>2
<1> QED
  BY <1>5, <1>6, <1>7, <1>8 DEF Continues, p

\* The whole reply, of which all or nothing was said before.
LEMMA ContinuesItem ==
  ASSUME NEW s \in Seq(AgentLine), NEW n, NEW r \in Nat, NEW t \in Nat, r <= t,
         Continues(s, n, r, t), ~Has(s, Ends), ~Has(s, {"item"}),
         NEW a \in AgentLine, a.kind = "item", a.part > 0, a.part = t \/ t = 0
  PROVE  Continues(s \o <<a>>, n, r, a.part)
<1> DEFINE p == s \o <<a>>
           l == Len(s) + 1
           k == a.part
<1>1. /\ Len(s) \in Nat /\ Len(p) = l /\ p \in Seq(AgentLine) /\ p[l] = a
      /\ \A i \in 1..Len(s) : i \in 1..Len(p) /\ p[i] = s[i]
      /\ \A i \in 1..Len(p) : i \in 1..Len(s) \/ i = l
  OBVIOUS
<1> HIDE DEF p
<1>2. \A i \in 1..Len(s) : s[i].kind # "item"
  BY DEF Has
<1>3. \A i \in 1..Len(s) : Speaks(p, n, i) <=> Speaks(s, n, i)
  <2> SUFFICES ASSUME NEW i \in 1..Len(s) PROVE Speaks(p, n, i) <=> Speaks(s, n, i)
    OBVIOUS
  <2>1. \A j \in 1..Len(p) : j < i => j \in 1..Len(s)
    BY <1>1
  <2> QED
    BY <1>1, <2>1 DEF Speaks
<1>4. \A i \in 1..Len(p) : Speaks(p, n, i) => i \in 1..Len(s)
  BY <1>1 DEF Speaks
<1>5. \A i \in 1..Len(s) : Speaks(s, n, i) => s[i].part \in (r + 1)..t /\ t = k
  BY DEF Continues, AgentLine
<1>6. \A i \in 1..Len(p) : Speaks(p, n, i) => p[i].part \in (r + 1)..k
  BY <1>1, <1>3, <1>4, <1>5
<1>7. \A i, j \in 1..Len(p) :
        i < j /\ Speaks(p, n, i) /\ Speaks(p, n, j) => p[i].part < p[j].part
  BY <1>1, <1>3, <1>4 DEF Continues
<1>8. \A i \in 1..Len(p) : p[i].kind = "item" =>
        p[i].part = k /\ k > 0 /\ \A j \in 1..Len(p) : i < j => ~Speaks(p, n, j)
  <2>1. \A j \in 1..Len(p) : ~(l < j)
    BY <1>1
  <2>2. \A i \in 1..Len(p) : p[i].kind = "item" => i = l
    BY <1>1, <1>2
  <2> QED
    BY <1>1, <2>1, <2>2
<1>9. \/ \A m \in (r + 1)..k : \E i \in 1..Len(p) : Speaks(p, n, i) /\ p[i].part = m
      \/ r = 0 /\ Has(p, {"item"}) /\ \A i \in 1..Len(p) : ~Speaks(p, n, i)
  <2>1. CASE t = k
    <3>1. \A m \in (r + 1)..k : \E i \in 1..Len(s) : Speaks(s, n, i) /\ s[i].part = m
      BY <1>2, <2>1 DEF Continues, Has
    <3> QED
      BY <1>1, <1>3, <3>1
  <2>2. CASE t # k
    <3>1. r = 0 /\ \A i \in 1..Len(p) : ~Speaks(p, n, i)
      BY <1>3, <1>4, <1>5, <2>2
    <3>2. Has(p, {"item"})
      BY <1>1 DEF Has
    <3> QED
      BY <3>1, <3>2
  <2> QED
    BY <2>1, <2>2
<1> QED
  BY <1>6, <1>7, <1>8, <1>9 DEF Continues, p

\* The first line is read.
LEMMA ContinuesTail ==
  ASSUME NEW s \in Seq(AgentLine), s # <<>>, NEW n, NEW r \in Nat, NEW t \in Nat, r <= t,
         Continues(s, n, r, t), EndIsLast(s)
  PROVE  /\ Head(s).kind = "delta" /\ Head(s).turn = n =>
              Head(s).part = r + 1 /\ r + 1 <= t /\ Continues(Tail(s), n, r + 1, t)
         /\ Head(s).kind = "item" =>
              /\ Head(s).part = t /\ t > 0
              /\ IF r = 0 THEN Continues(Tail(s), n, t, t) ELSE Continues(Tail(s), n, r, t)
         /\ Head(s).kind \in Ends => r = t
         /\ Head(s).kind \notin {"delta", "item"} \cup Ends => Continues(Tail(s), n, r, t)
         /\ Head(s).kind = "delta" /\ Head(s).turn # n => Continues(Tail(s), n, r, t)
<1> DEFINE p == Tail(s)
           e == Head(s)
<1>1. /\ p \in Seq(AgentLine) /\ e \in AgentLine /\ e = s[1]
      /\ Len(s) \in Nat \ {0} /\ Len(p) = Len(s) - 1
      /\ \A i \in 1..Len(p) : i + 1 \in 1..Len(s) /\ p[i] = s[i + 1]
      /\ \A i \in 1..Len(s) : i = 1 \/ i - 1 \in 1..Len(p)
  BY TailOfLines
<1> HIDE DEF p, e
<1>2. ASSUME e.kind \notin Ends
      PROVE  \A i \in 1..Len(p) : Speaks(p, n, i) <=> Speaks(s, n, i + 1)
  <2> SUFFICES ASSUME NEW i \in 1..Len(p) PROVE Speaks(p, n, i) <=> Speaks(s, n, i + 1)
    OBVIOUS
  <2>1. ASSUME Speaks(p, n, i) PROVE Speaks(s, n, i + 1)
    <3> SUFFICES ASSUME NEW j \in 1..Len(s), j < i + 1 PROVE s[j].kind \notin Ends
      BY <1>1, <2>1 DEF Speaks
    <3>1. CASE j = 1
      BY <1>1, <1>2, <3>1
    <3>2. CASE j # 1
      <4>1. j - 1 \in 1..Len(p) /\ j - 1 < i /\ p[j - 1] = s[j]
        BY <1>1, <3>2
      <4> QED
        BY <2>1, <4>1 DEF Speaks
    <3> QED
      BY <3>1, <3>2
  <2>2. ASSUME Speaks(s, n, i + 1) PROVE Speaks(p, n, i)
    <3> SUFFICES ASSUME NEW j \in 1..Len(p), j < i PROVE p[j].kind \notin Ends
      BY <1>1, <2>2 DEF Speaks
    <3>1. j + 1 \in 1..Len(s) /\ j + 1 < i + 1 /\ p[j] = s[j + 1]
      BY <1>1
    <3> QED
      BY <2>2, <3>1 DEF Speaks
  <2> QED
    BY <2>1, <2>2
\* What is left continues the reply if the first line is not of it.
<1>3. ASSUME e.kind \notin Ends, NEW q \in Nat, q >= r,
             \A i \in 1..Len(p) : Speaks(p, n, i) => p[i].part \in (q + 1)..t,
             \/ \A k \in (q + 1)..t : \E i \in 1..Len(p) : Speaks(p, n, i) /\ p[i].part = k
             \/ q = 0 /\ Has(p, {"item"}) /\ \A i \in 1..Len(p) : ~Speaks(p, n, i)
      PROVE  Continues(p, n, q, t)
  <2>1. \A i, j \in 1..Len(p) :
          i < j /\ Speaks(p, n, i) /\ Speaks(p, n, j) => p[i].part < p[j].part
    <3> SUFFICES ASSUME NEW i \in 1..Len(p), NEW j \in 1..Len(p), i < j, Speaks(p, n, i),
                        Speaks(p, n, j)
                 PROVE  p[i].part < p[j].part
      OBVIOUS
    <3>1. /\ i + 1 \in 1..Len(s) /\ j + 1 \in 1..Len(s) /\ i + 1 < j + 1
          /\ p[i] = s[i + 1] /\ p[j] = s[j + 1] /\ Speaks(s, n, i + 1) /\ Speaks(s, n, j + 1)
      BY <1>1, <1>2, <1>3
    <3> QED
      BY <3>1 DEF Continues
  <2>2. \A i \in 1..Len(p) : p[i].kind = "item" =>
          p[i].part = t /\ t > 0 /\ \A j \in 1..Len(p) : i < j => ~Speaks(p, n, j)
    <3> SUFFICES ASSUME NEW i \in 1..Len(p), p[i].kind = "item"
                 PROVE  p[i].part = t /\ t > 0 /\ \A j \in 1..Len(p) : i < j => ~Speaks(p, n, j)
      OBVIOUS
    <3>1. i + 1 \in 1..Len(s) /\ p[i] = s[i + 1]
      BY <1>1
    <3>2. ASSUME NEW j \in 1..Len(p), i < j PROVE ~Speaks(p, n, j)
      <4>1. j + 1 \in 1..Len(s) /\ i + 1 < j + 1
        BY <1>1, <3>2
      <4> QED
        BY <1>2, <1>3, <3>1, <4>1 DEF Continues
    <3> QED
      BY <3>1, <3>2 DEF Continues
  <2> QED
    BY <1>3, <2>1, <2>2 DEF Continues
<1>4. \/ \A k \in (r + 1)..t : \E i \in 1..Len(s) : Speaks(s, n, i) /\ s[i].part = k
      \/ r = 0 /\ Has(s, {"item"}) /\ \A i \in 1..Len(s) : ~Speaks(s, n, i)
  BY DEF Continues
<1>5. \A i \in 1..Len(s) : Speaks(s, n, i) => s[i].part \in (r + 1)..t
  BY DEF Continues
<1>6. Speaks(s, n, 1) <=> e.kind = "delta" /\ e.turn = n
  <2>1. \A j \in 1..Len(s) : ~(j < 1)
    BY <1>1
  <2> QED
    BY <1>1, <2>1 DEF Speaks
<1>7. CASE e.kind = "delta" /\ e.turn = n
  <2>1. e.kind \notin Ends /\ Speaks(s, n, 1) /\ e.part \in (r + 1)..t
    BY <1>1, <1>5, <1>6, <1>7 DEF Ends
  <2>2. \A i \in 1..Len(s) : i # 1 /\ Speaks(s, n, i) => e.part < s[i].part
    BY <1>1, <2>1 DEF Continues
  <2>3. \A k \in (r + 1)..t : \E i \in 1..Len(s) : Speaks(s, n, i) /\ s[i].part = k
    BY SMTT(30), <1>1, <1>4, <2>1
  <2>4. e.part = r + 1
    <3>1. r + 1 \in (r + 1)..t
      BY <2>1
    <3>2. PICK i \in 1..Len(s) : Speaks(s, n, i) /\ s[i].part = r + 1
      BY <2>3, <3>1
    <3> QED
      BY <1>1, <2>1, <2>2, <3>2
  <2>5. \A i \in 1..Len(p) : Speaks(p, n, i) => p[i].part \in ((r + 1) + 1)..t
    <3> SUFFICES ASSUME NEW i \in 1..Len(p), Speaks(p, n, i)
                 PROVE  p[i].part \in ((r + 1) + 1)..t
      OBVIOUS
    <3>1. i + 1 \in 1..Len(s) /\ i + 1 # 1 /\ p[i] = s[i + 1] /\ Speaks(s, n, i + 1)
      BY <1>1, <1>2, <2>1
    <3>2. e.part < p[i].part /\ p[i].part \in (r + 1)..t
      BY <1>5, <2>2, <3>1
    <3> QED
      BY <2>4, <3>2
  <2>6. \A k \in ((r + 1) + 1)..t : \E i \in 1..Len(p) : Speaks(p, n, i) /\ p[i].part = k
    <3> SUFFICES ASSUME NEW k \in ((r + 1) + 1)..t
                 PROVE  \E i \in 1..Len(p) : Speaks(p, n, i) /\ p[i].part = k
      OBVIOUS
    <3>1. k \in (r + 1)..t /\ k # r + 1
      OBVIOUS
    <3>2. PICK i \in 1..Len(s) : Speaks(s, n, i) /\ s[i].part = k
      BY <2>3, <3>1
    <3>3. i # 1
      BY <1>1, <2>4, <3>1, <3>2
    <3>4. i - 1 \in 1..Len(p) /\ p[i - 1] = s[i] /\ (i - 1) + 1 = i
      BY <1>1, <3>3
    <3> QED
      BY <1>2, <2>1, <3>2, <3>4
  <2>7. Continues(p, n, r + 1, t)
    BY <1>3, <2>1, <2>5, <2>6
  <2> QED
    BY <1>7, <2>1, <2>4, <2>7 DEF p, e, Ends
<1>8. CASE e.kind = "item"
  <2>1. /\ e.kind \notin Ends /\ e.part = t /\ t > 0 /\ ~Speaks(s, n, 1)
        /\ \A j \in 1..Len(s) : ~Speaks(s, n, j)
    <3>1. e.part = t /\ t > 0 /\ \A j \in 1..Len(s) : 1 < j => ~Speaks(s, n, j)
      BY <1>1, <1>8 DEF Continues
    <3> QED
      BY <1>1, <1>6, <1>8, <3>1 DEF Ends
  <2>2. \A i \in 1..Len(p) : ~Speaks(p, n, i)
    BY <1>1, <1>2, <2>1
  <2>3. CASE r = 0
    <3>1. Continues(p, n, t, t)
      BY <1>3, <2>1, <2>2
    <3> QED
      BY <1>8, <2>1, <2>3, <3>1 DEF p, e
  <2>4. CASE r # 0
    <3>1. r = t
      <4>1. t \in (r + 1)..t \/ r = t
        OBVIOUS
      <4> QED
        BY <1>4, <2>1, <2>4, <4>1
    <3>2. Continues(p, n, r, t)
      BY <1>3, <2>1, <2>2, <3>1
    <3> QED
      BY <1>8, <2>1, <2>4, <3>2 DEF p, e
  <2> QED
    BY <2>3, <2>4
<1>9. CASE e.kind \in Ends
  <2>1. \A i \in 1..Len(s) : ~Speaks(s, n, i) /\ s[i].kind # "item"
    <3> SUFFICES ASSUME NEW i \in 1..Len(s) PROVE ~Speaks(s, n, i) /\ s[i].kind # "item"
      OBVIOUS
    <3>1. CASE i = 1
      BY <1>1, <1>6, <1>9, <3>1 DEF Ends
    <3>2. CASE i # 1
      <4>1. 1 \in 1..Len(s) /\ 1 < i /\ s[1].kind \in Ends
        BY <1>1, <1>9, <3>2
      <4>2. s[i].kind \in {"delta"} \cup Confirms
        BY <4>1 DEF EndIsLast
      <4> QED
        BY <4>1, <4>2 DEF Speaks, Confirms
    <3> QED
      BY <3>1, <3>2
  <2>2. r = t
    <3>1. t \in (r + 1)..t \/ r = t
      OBVIOUS
    <3>2. ~Has(s, {"item"})
      BY <2>1 DEF Has
    <3> QED
      BY <1>4, <2>1, <3>1, <3>2
  <2> QED
    BY <1>9, <2>2 DEF e, Ends
<1>10. CASE e.kind \notin {"delta", "item"} \cup Ends \/ (e.kind = "delta" /\ e.turn # n)
  <2>1. e.kind \notin Ends /\ ~Speaks(s, n, 1) /\ e.kind # "item"
    BY <1>6, <1>10 DEF Ends
  <2>2. \A i \in 1..Len(p) : Speaks(p, n, i) => p[i].part \in (r + 1)..t
    BY <1>1, <1>2, <1>5, <2>1
  <2>3. \A i \in 1..Len(s) : Speaks(s, n, i) \/ s[i].kind = "item" =>
          /\ i - 1 \in 1..Len(p) /\ p[i - 1] = s[i]
          /\ Speaks(p, n, i - 1) <=> Speaks(s, n, i)
    <3> SUFFICES ASSUME NEW i \in 1..Len(s), Speaks(s, n, i) \/ s[i].kind = "item"
                 PROVE  /\ i - 1 \in 1..Len(p) /\ p[i - 1] = s[i]
                        /\ Speaks(p, n, i - 1) <=> Speaks(s, n, i)
      OBVIOUS
    <3>1. i # 1
      BY <1>1, <2>1
    <3>2. i - 1 \in 1..Len(p) /\ (i - 1) + 1 = i
      BY <1>1, <3>1
    <3> QED
      BY <1>1, <1>2, <2>1, <3>2
  <2>4. \/ \A k \in (r + 1)..t : \E i \in 1..Len(p) : Speaks(p, n, i) /\ p[i].part = k
        \/ r = 0 /\ Has(p, {"item"}) /\ \A i \in 1..Len(p) : ~Speaks(p, n, i)
    <3>1. CASE \A k \in (r + 1)..t : \E i \in 1..Len(s) : Speaks(s, n, i) /\ s[i].part = k
      BY <2>3, <3>1
    <3>2. CASE r = 0 /\ Has(s, {"item"}) /\ \A i \in 1..Len(s) : ~Speaks(s, n, i)
      <4>1. Has(p, {"item"})
        BY <2>3, <3>2 DEF Has
      <4> QED
        BY <1>1, <1>2, <2>1, <3>2, <4>1
    <3> QED
      BY <1>4, <3>1, <3>2
  <2>5. Continues(p, n, r, t)
    BY <1>3, <2>1, <2>2, <2>4
  <2> QED
    BY <1>10, <2>1, <2>5 DEF p, e
<1> QED
  BY <1>7, <1>8, <1>9, <1>10 DEF e, Ends

-----------------------------------------------------------------------------
(* The steps of the adapter keep the replies in order.                     *)

\* Who prompts has a session, so that the adapter is no longer new.
LEMMA RepliesFrame ==
  ASSUME IInv', SessionInv', NEW c \in Calls, Prompting(c)', ReplyInv(c)',
         \A d \in Calls \ {c} : ~Prompting(d)',
         \A d \in Calls : call'[d].at \in Waiting => call'[d].heard = <<>>
  PROVE  RepliesInv'
<1>1. owner'.session /\ HasHandler'
  BY DEF SessionInv, Prompting, HasHandler
<1>2. \A d \in Calls : call'[d].at # "starting"
  BY <1>1 DEF IInv, StagesAgree
<1>3. ~Unused'
  BY <1>1, <1>2 DEF Unused
<1>4. HistoryInv'
  BY <1>1, <1>3 DEF HistoryInv
<1> QED
  BY <1>4 DEF RepliesInv

\* What is said of a reply only depends on its call, its turn and the process.
LEMMA ReplyStays ==
  ASSUME NEW c \in Calls, ReplyInv(c), call'[c] = call[c], turn' = turn, runtime' = runtime,
         owner'.snapshot = owner.snapshot, owner'.retired = owner.retired
  PROVE  ReplyInv(c)'
BY DEF ReplyInv, HeardInv, ThreadInv, SeenInv, Account, Accounts, Spoken, Mine, Applied, NextRequest

LEMMA AsideReplies ==
  ASSUME RepliesInv, Aside
  PROVE  RepliesInv'
<1>1. \A c \in Calls : Prompting(c)' => ReplyInv(c)'
  <2> SUFFICES ASSUME NEW c \in Calls, Prompting(c)' PROVE ReplyInv(c)'
    OBVIOUS
  <2>1. call'[c] = call[c] /\ Prompting(c)
    BY DEF Aside, Prompting
  <2>2. /\ turn' = turn /\ runtime' = runtime
        /\ owner'.snapshot = owner.snapshot /\ owner'.retired = owner.retired
    BY DEF Aside
  <2> QED
    BY <2>1, <2>2, ReplyStays DEF RepliesInv
<1>2. \A c \in Calls : call'[c].at \in Waiting => call'[c].heard = <<>>
  BY DEF RepliesInv, Aside, Outside, NobodyHears
<1>3. ~HasHandler' => ~HasHandler
  BY DEF Aside, Prompting, HasHandler
<1>4. HistoryInv'
  <2>1. Unused' => Unused
    BY DEF Aside, Outside
  <2>2. owner'.session => owner.session \/ Unused
    BY DEF Aside, Outside
  <2>3. /\ owner'.snapshot = owner.snapshot /\ owner'.retired = owner.retired
        /\ owner'.history = owner.history /\ runtime' = runtime
    BY DEF Aside
  <2>4. HistoryInv
    BY DEF RepliesInv
  <2>5. Unused' => owner'.snapshot /\ owner'.retired = {}
    BY <2>1, <2>3, <2>4 DEF HistoryInv
  <2>6. owner'.session /\ ~HasHandler' =>
          /\ owner'.retired \subseteq 1..runtime'.made
          /\ ~owner'.snapshot => runtime'.thread = owner'.history
    BY <1>3, <2>2, <2>3, <2>4 DEF HistoryInv
  <2> QED
    BY <2>5, <2>6 DEF HistoryInv
<1> QED
  BY <1>1, <1>2, <1>4 DEF RepliesInv

LEMMA BlankReplies ==
  ASSUME RepliesInv, Blank
  PROVE  RepliesInv'
<1>1. \A c \in Calls : ~Prompting(c)'
  BY DEF Blank, Prompting, HasHandler
<1>2. \A c \in Calls : call'[c].at \in Waiting => call'[c].heard = <<>>
  BY DEF RepliesInv, Blank, Outside, NobodyHears
<1>3. HistoryInv'
  BY DEF Blank, Outside, RepliesInv, HistoryInv
<1> QED
  BY <1>1, <1>2, <1>3 DEF RepliesInv

-----------------------------------------------------------------------------
(* The messages and the chunks.                                            *)

\* The callers keep their messages, and the adapter keeps or learns a history.
SameMessages ==
  /\ owner'.history = owner.history /\ voice' = voice
  /\ \A d \in Calls : call'[d].context = call[d].context /\ call'[d].heard = call[d].heard

LEMMA SameKeeps ==
  ASSUME MessagesInv, SameMessages
  PROVE  MessagesInv'
BY DEF MessagesInv, SameMessages

LEMMA MoveSays ==
  ASSUME Shape, NEW c \in Calls, NEW at, Moves(c, at)
  PROVE  \A d \in Calls : call'[d].context = call[d].context /\ call'[d].heard = call[d].heard
BY ShapeParts DEF CallShape, Moves

LEMMA HistoryStays ==
  ASSUME Shape
  PROVE  /\ \A x : owner' = [owner EXCEPT !.snapshot = x] => owner'.history = owner.history
         /\ \A x : owner' = [owner EXCEPT !.client = x] => owner'.history = owner.history
         /\ \A x : owner' = [owner EXCEPT !.metadata = x] => owner'.history = owner.history
         /\ \A x : owner' = [owner EXCEPT !.session = x] => owner'.history = owner.history
         /\ \A x : owner' = [owner EXCEPT !.closed = x] => owner'.history = owner.history
         /\ \A x : owner' = [owner EXCEPT !.uncertain = x] => owner'.history = owner.history
<1>1. OwnerShape
  BY ShapeParts
<1> QED
  BY <1>1 DEF OwnerShape

LEMMA DropHistory ==
  ASSUME NEW o, NEW u, IsOwner(o, u), Drops(o)
  PROVE  owner'.history = o.history
BY DEF IsOwner, Drops

LEMMA FieldHistory ==
  ASSUME NEW o, NEW u, IsOwner(o, u), NEW x
  PROVE  /\ [o EXCEPT !.retired = x].history = o.history
         /\ [o EXCEPT !.uncertain = x].history = o.history
BY DEF IsOwner

LEMMA PoisonsSays ==
  ASSUME Shape, NEW c \in Calls, Poisons(c), voice' = voice
  PROVE  SameMessages
<1> DEFINE p == [owner EXCEPT !.uncertain = TRUE]
           q == [p EXCEPT !.retired = @ \cup turn.seen]
<1>1. IsOwner(owner, owner.uncertain)
  BY OwnerIsOwner
<1>2. IsOwner(p, TRUE) /\ p.history = owner.history
  BY <1>1, OwnerField, FieldHistory
<1>3. Stops(c, q)
  BY <1>1 DEF Poisons, IsOwner
<1> HIDE DEF p
<1>4. IsOwner(q, TRUE) /\ q.history = p.history
  BY <1>2, OwnerField, FieldHistory
<1> HIDE DEF q
<1> QED
  BY <1>2, <1>3, <1>4, DropHistory, MoveSays DEF Stops, SameMessages

LEMMA TurnOverSays ==
  ASSUME Shape, NEW c \in Calls, NEW o, IsOwner(o, owner.uncertain), TurnOver(c, o)
  PROVE  /\ owner'.history = o.history
         /\ \A d \in Calls : call'[d].context = call[d].context /\ call'[d].heard = call[d].heard
<1> DEFINE p == [o EXCEPT !.retired = @ \cup turn.seen]
           q == [p EXCEPT !.uncertain = TRUE]
<1>1. \/ Stops(c, q)
      \/ Leaves(c) /\ owner' = p
  BY DEF TurnOver
<1>2. IsOwner(p, owner.uncertain) /\ p.history = o.history
  BY OwnerField, FieldHistory
<1> HIDE DEF p
<1>3. IsOwner(q, TRUE) /\ q.history = p.history
  BY <1>2, OwnerField, FieldHistory
<1> HIDE DEF q
<1> QED
  BY <1>1, <1>2, <1>3, DropHistory, MoveSays DEF Stops, Leaves

LEMMA CallerSays ==
  ASSUME Shape, MessagesInv, NEW c \in Calls,
         Chats(c) \/ (\E kind \in {"validate", "models"} : Asks(c, kind)) \/ Commits(c)
  PROVE  MessagesInv'
<1>1. CallShape /\ owner' = owner
  BY ShapeParts DEF Chats, Asks, Commits
<1>2. ASSUME NEW kind, NEW at, NEW context \in Messages,
             call' = [call EXCEPT ![c] = NewCall(kind, at, context)]
      PROVE  \A d \in Calls : /\ call'[d].context \in Messages
                              /\ call'[d].heard \in Seq(Nat \X Nat) /\ Len(call'[d].heard) <= MaxParts
  <2>1. \A d \in Calls \ {c} : call'[d] = call[d]
    BY <1>1, <1>2 DEF CallShape
  <2>2. call'[c].context = context /\ call'[c].heard = <<>>
    BY <1>1, <1>2 DEF CallShape, NewCall
  <2>3. 0 <= MaxParts /\ <<>> \in Seq(Nat \X Nat) /\ Len(<<>>) = 0
    BY ConstantsOK
  <2> QED
    BY <2>1, <2>2, <2>3 DEF MessagesInv
<1>3. <<>> \in Messages /\ 0 \in 0..MaxParts
  BY ConstantsOK DEF Messages
<1>4. voice.context \in Messages
  BY DEF MessagesInv
<1>5. \A n \in 0..MaxParts : Append(voice.context, n) \in Messages
  BY <1>4 DEF Messages
<1>6. CASE Chats(c)
  <2>1. PICK context \in {voice.context, Append(voice.context, 0)} :
          /\ call' = [call EXCEPT ![c] = NewCall("chat", "queued", context)]
          /\ voice' = [context |-> context, calls |-> voice.calls + 1]
    BY <1>6 DEF Chats
  <2>2. context \in Messages /\ voice'.context = context
    BY <1>3, <1>4, <1>5, <2>1
  <2> QED
    BY <1>1, <1>2, <2>1, <2>2 DEF MessagesInv
<1>7. CASE \E kind \in {"validate", "models"} : Asks(c, kind)
  <2>1. PICK kind : /\ call' = [call EXCEPT ![c] = NewCall(kind, "queued", <<>>)]
                    /\ voice' = [voice EXCEPT !.calls = @ + 1]
    BY <1>7 DEF Asks
  <2>2. voice'.context = voice.context
    BY <2>1
  <2> QED
    BY <1>1, <1>2, <1>3, <2>1, <2>2 DEF MessagesInv
<1>8. CASE Commits(c)
  <2>1. PICK n \in 0..Len(call[c].heard) :
          voice' = [voice EXCEPT !.context = IF n = 0 THEN @ ELSE Append(@, n)]
    BY <1>8 DEF Commits
  <2>2. n \in 0..MaxParts
    BY <2>1, ConstantsOK DEF MessagesInv
  <2>3. voice'.context \in Messages \/ voice'.context = voice.context
    BY <1>4, <1>5, <2>1, <2>2
  <2>4. call' = [call EXCEPT ![c] = NewCall("chat", "none", <<>>)]
    BY <1>8 DEF Commits
  <2> QED
    BY <1>1, <1>2, <1>3, <1>4, <2>3, <2>4 DEF MessagesInv
<1> QED
  BY <1>6, <1>7, <1>8

\* The parts of an event are those that come next, and the queue goes on after them.
LEMMA NextParts ==
  ASSUME NEW s \in Seq(Nat \X Nat), NEW n \in Nat, \A i \in 1..Len(s) : s[i] = <<n, i>>,
         NEW e \in AgentEvent, e.turn = n, e.first = Len(s) + 1, e.first <= e.last
  PROVE  LET p == s \o [i \in 1..(e.last - e.first + 1) |-> <<e.turn, e.first + i - 1>>] IN
           /\ p \in Seq(Nat \X Nat) /\ Len(p) = e.last /\ e.last \in 0..MaxParts
           /\ \A i \in 1..Len(p) : p[i] = <<n, i>>
<1> DEFINE m == e.last - e.first + 1
           u == [i \in 1..m |-> <<e.turn, e.first + i - 1>>]
           p == s \o u
<1>1. /\ e.first \in Nat /\ e.last \in 0..MaxParts /\ e.last \in Nat /\ m \in Nat /\ Len(s) \in Nat
      /\ Len(s) + m = e.last
  <2>1. e.first \in 0..MaxParts /\ e.last \in 0..MaxParts
    BY DEF AgentEvent
  <2>2. MaxParts \in Nat /\ Len(s) \in Nat
    BY ConstantsOK, LenProperties
  <2> DEFINE a == e.first
             b == e.last
  <2>3. a \in 0..MaxParts /\ b \in 0..MaxParts /\ a = Len(s) + 1 /\ a <= b /\ m = b - a + 1
    BY <2>1
  <2> HIDE DEF a, b, m
  <2>4. a \in Nat /\ b \in Nat /\ m \in Nat /\ Len(s) + m = b
    BY <2>2, <2>3
  <2> QED
    BY <2>2, <2>3, <2>4 DEF a, b
<1>2. \A i \in 1..m : u[i] = <<n, Len(s) + i>> /\ u[i] \in Nat \X Nat
  BY SMTT(30), <1>1
<1>3. u \in Seq(Nat \X Nat) /\ Len(u) = m
  <2>1. u = [i \in 1..m |-> u[i]]
    OBVIOUS
  <2> HIDE DEF u, m
  <2>2. u \in [1..m -> Nat \X Nat]
    BY <1>2, <2>1
  <2>3. u \in Seq(Nat \X Nat)
    BY <1>1, <2>2, SeqDef
  <2> QED
    BY <1>1, <2>2, <2>3, LenProperties
<1> HIDE DEF u, m
<1>4. /\ p \in Seq(Nat \X Nat) /\ Len(p) = e.last
      /\ \A i \in 1..Len(p) : p[i] = IF i <= Len(s) THEN s[i] ELSE u[i - Len(s)]
  <2>1. /\ s \o u \in Seq(Nat \X Nat) /\ Len(s \o u) = Len(s) + Len(u)
        /\ \A i \in 1..Len(s) + Len(u) :
              (s \o u)[i] = IF i <= Len(s) THEN s[i] ELSE u[i - Len(s)]
    <3> HIDE DEF u, m
    <3> QED
      BY <1>3, ConcatProperties
  <2>2. Len(s) + Len(u) = e.last
    BY <1>1, <1>3
  <2> HIDE DEF u, m
  <2> QED
    BY <2>1, <2>2
<1> HIDE DEF p
<1>5. ASSUME NEW i \in 1..Len(p) PROVE p[i] = <<n, i>>
  <2>1. CASE i <= Len(s)
    <3>1. p[i] = s[i] /\ i \in 1..Len(s)
      BY <1>1, <1>4, <2>1
    <3> QED
      BY <3>1
  <2>2. CASE ~(i <= Len(s))
    <3>1. i - Len(s) \in 1..m /\ Len(s) + (i - Len(s)) = i
      BY <1>1, <1>4, <2>2
    <3> QED
      BY <1>2, <1>4, <2>2, <3>1
  <2> QED
    BY <2>1, <2>2
<1> QED
  BY <1>1, <1>4, <1>5 DEF p, u, m

\* A caller that takes an event hears the next parts, up to its last.
LEMMA HearsParts ==
  ASSUME IInv, TurnInv, RepliesInv, MessagesInv, NEW c \in Calls, Hears(c), ~Unsettled(c)
  PROVE  /\ UNCHANGED <<owner, codex, runtime, voice>> /\ Prompting(c) /\ call[c].at = "reading"
         /\ \A d \in Calls \ {c} : call'[d] = call[d]
         /\ call'[c].at = call[c].at /\ call'[c].context = call[c].context
         /\ turn'.queue = Tail(turn.queue) /\ turn'.idle = turn.idle /\ turn'.failed = turn.failed
         /\ turn'.accepting = turn.accepting /\ turn'.seen = turn.seen /\ turn'.before = turn.before
         /\ call'[c].heard \in Seq(Nat \X Nat) /\ Len(call'[c].heard) <= MaxParts
         /\ \A i \in 1..Len(call'[c].heard) : call'[c].heard[i] = <<Mine, i>>
         /\ \E r, t \in 0..MaxParts :
              /\ Accounts(c, r, t)
              /\ Follows(Tail(turn.queue), Mine, Len(call'[c].heard), r)
<1> DEFINE e == Head(turn.queue)
           u == [i \in 1..(e.last - e.first + 1) |-> <<e.turn, e.first + i - 1>>]
           x == call[c].heard \o u
           q == Tail(turn.queue)
<1>1. /\ Shape /\ CallShape /\ Prompting(c) /\ call[c].at = "reading" /\ ~turn.failed
      /\ turn.queue # <<>> /\ e.kind = "text" /\ UNCHANGED <<owner, codex, runtime, voice>>
  BY ShapeParts DEF IInv, Hears, Gets, ReadsText, Prompting, Subscribed
<1>2. /\ call' = [call EXCEPT ![c].heard = x]
      /\ turn' = [turn EXCEPT !.queue = q]
  BY DEF Hears, ReadsText, Unsettled
<1>3. Typed /\ ReplyInv(c)
  BY <1>1 DEF TurnInv, RepliesInv
<1>4. PICK r, t \in 0..MaxParts : Accounts(c, r, t)
  BY <1>1, <1>3 DEF ReplyInv, SeenInv, Account
<1>5. Mine \in Nat /\ turn.queue \in Seq(AgentEvent)
  BY <1>3 DEF Typed, Mine
<1>6. /\ call[c].heard \in Seq(Nat \X Nat) /\ Len(call[c].heard) \in Nat
      /\ \A i \in 1..Len(call[c].heard) : call[c].heard[i] = <<Mine, i>>
  BY <1>3, LenProperties DEF MessagesInv, ReplyInv, HeardInv
<1>7. /\ e.turn = Mine /\ e.first = Len(call[c].heard) + 1 /\ e.first <= e.last
      /\ e \in AgentEvent /\ Follows(q, Mine, e.last, r)
  BY ZenonT(60), <1>1, <1>4, <1>5, <1>6, FollowsTail DEF Accounts
<1> HIDE DEF e, q
<1>8. /\ x \in Seq(Nat \X Nat) /\ Len(x) = e.last /\ e.last \in 0..MaxParts
      /\ \A i \in 1..Len(x) : x[i] = <<Mine, i>>
  BY <1>5, <1>6, <1>7, NextParts
<1> HIDE DEF x
<1>9. /\ \A d \in Calls \ {c} : call'[d] = call[d]
      /\ call'[c].at = call[c].at /\ call'[c].context = call[c].context /\ call'[c].heard = x
  BY <1>1, <1>2 DEF CallShape
<1>10. /\ turn'.queue = q /\ turn'.idle = turn.idle /\ turn'.failed = turn.failed
       /\ turn'.accepting = turn.accepting /\ turn'.seen = turn.seen /\ turn'.before = turn.before
  BY <1>2, <1>3, TurnField DEF Typed
<1>11. Len(x) <= MaxParts
  BY <1>8, ConstantsOK
<1> QED
  BY <1>1, <1>4, <1>7, <1>8, <1>9, <1>10, <1>11 DEF q

LEMMA HearsReplies ==
  ASSUME IInv, TurnInv, RepliesInv, MessagesInv, IInv', SessionInv',
         NEW c \in Calls, Hears(c), ~Unsettled(c)
  PROVE  RepliesInv' /\ MessagesInv'
<1>1. /\ UNCHANGED <<owner, codex, runtime, voice>> /\ Prompting(c) /\ call[c].at = "reading"
      /\ \A d \in Calls \ {c} : call'[d] = call[d]
      /\ call'[c].at = call[c].at /\ call'[c].context = call[c].context
      /\ turn'.queue = Tail(turn.queue) /\ turn'.idle = turn.idle /\ turn'.failed = turn.failed
      /\ turn'.accepting = turn.accepting /\ turn'.seen = turn.seen /\ turn'.before = turn.before
      /\ call'[c].heard \in Seq(Nat \X Nat) /\ Len(call'[c].heard) <= MaxParts
      /\ \A i \in 1..Len(call'[c].heard) : call'[c].heard[i] = <<Mine, i>>
      /\ \E r, t \in 0..MaxParts :
           Accounts(c, r, t) /\ Follows(Tail(turn.queue), Mine, Len(call'[c].heard), r)
  BY HearsParts
<1>2. Active(c)
  BY <1>1 DEF Active
<1>3. Prompting(c)' /\ \A d \in Calls \ {c} : ~Prompting(d)'
  BY <1>1, <1>2, TurnStays DEF Subscribed
<1>4. Mine' = Mine
  BY <1>1 DEF Mine
<1>5. ReplyInv(c)
  BY <1>1 DEF RepliesInv
<1>6. HeardInv(c)'
  BY <1>1, <1>4 DEF HeardInv
<1>7. ThreadInv(c)'
  BY <1>1, <1>5 DEF ReplyInv, ThreadInv, Applied, NextRequest
<1>8. SeenInv(c)'
  BY <1>1, <1>4, <1>5 DEF ReplyInv, SeenInv
<1>9. Account(c)'
  <2>1. PICK r, t \in 0..MaxParts :
          Accounts(c, r, t) /\ Follows(Tail(turn.queue), Mine, Len(call'[c].heard), r)
    BY <1>1
  <2>2. Spoken(c, r, t)'
    BY <1>1, <1>4, <2>1 DEF Accounts, Spoken
  <2>3. Accounts(c, r, t)'
    BY <1>1, <1>4, <2>1, <2>2 DEF Accounts
  <2> QED
    BY <2>3 DEF Account
<1>10. \A d \in Calls : call'[d].at \in Waiting => call'[d].heard = <<>>
  BY <1>1 DEF RepliesInv, Waiting
<1>11. RepliesInv'
  <2>1. ReplyInv(c)'
    BY <1>6, <1>7, <1>8, <1>9 DEF ReplyInv
  <2> QED
    BY <1>3, <1>10, <2>1, RepliesFrame
<1>12. MessagesInv'
  BY <1>1 DEF MessagesInv
<1> QED
  BY <1>11, <1>12

-----------------------------------------------------------------------------
(* The waits of a turn.                                                    *)

\* The turn has the events that it had.
SameEvents ==
  /\ turn'.queue = turn.queue /\ turn'.idle = turn.idle /\ turn'.failed = turn.failed
  /\ turn'.seen = turn.seen /\ turn'.before = turn.before

\* The process does what it did, and has no prompt that it had not.
SameProcess ==
  /\ runtime'.made = runtime.made /\ runtime'.running = runtime.running
  /\ runtime'.said = runtime.said /\ runtime'.thread = runtime.thread
  /\ runtime'.lines = runtime.lines
  /\ NextRequest("start")' => runtime'.requests = runtime.requests

LEMMA WaitReplies ==
  ASSUME IInv, RepliesInv, IInv', SessionInv', NEW c \in Calls, Prompting(c),
         NEW at \in {"reading"} \cup Settling, Moves(c, at),
         SameEvents, SameProcess, turn'.accepting <=> turn.accepting /\ at = "reading",
         at = "reading" => call[c].at \in {"sending", "reading"},
         owner'.retired = owner.retired, at # "reading" => owner'.snapshot
  PROVE  RepliesInv'
<1>1. Active(c) /\ ReplyInv(c) /\ Shape
  BY DEF IInv, Active, Prompting, Subscribed, Settling, RepliesInv
<1>2. /\ call'[c].at = at /\ \A d \in Calls \ {c} : call'[d] = call[d]
      /\ \A d \in Calls : call'[d].heard = call[d].heard /\ call'[d].context = call[d].context
  BY <1>1, MoveOfCall, MoveSays
<1>3. Prompting(c)' /\ \A d \in Calls \ {c} : ~Prompting(d)'
  BY <1>1, <1>2, TurnStays DEF Subscribed, Settling
<1>4. Mine' = Mine
  BY DEF Mine, SameEvents
<1>5. HeardInv(c)'
  BY <1>1, <1>2, <1>4 DEF ReplyInv, HeardInv, Settling
<1>6. ThreadInv(c)'
  <2>1. NextRequest("start")' => NextRequest("start") /\ runtime'.requests = runtime.requests
    BY DEF SameProcess, NextRequest
  <2> QED
    BY <1>1, <1>2, <2>1 DEF ReplyInv, ThreadInv, Applied, SameProcess
<1>7. SeenInv(c)'
  <2>1. turn'.accepting <=> at = "reading"
    BY <1>1 DEF ReplyInv, SeenInv
  <2>2. (turn'.accepting <=> call'[c].at \in {"sending", "reading"}) /\ (~turn'.accepting => owner'.snapshot)
    BY <1>2, <2>1 DEF Settling
  <2> QED
    BY <1>1, <1>4, <2>2 DEF SameEvents, SameProcess, ReplyInv, SeenInv
<1>8. Account(c)'
  <2>1. turn'.accepting => turn.accepting
    OBVIOUS
  <2>2. ASSUME NEW r, NEW t, Accounts(c, r, t) PROVE Accounts(c, r, t)'
    BY <1>2, <1>4, <2>2 DEF Accounts, Spoken, SameEvents, SameProcess
  <2> QED
    BY <1>1, <2>1, <2>2 DEF ReplyInv, Account, SameEvents
<1>9. \A d \in Calls : call'[d].at \in Waiting => call'[d].heard = <<>>
  BY <1>2 DEF RepliesInv, Waiting, Settling
<1>10. ReplyInv(c)'
  BY <1>5, <1>6, <1>7, <1>8 DEF ReplyInv
<1> QED
  BY <1>3, <1>9, <1>10, RepliesFrame

LEMMA UnsettledReplies ==
  ASSUME IInv, TurnInv, RepliesInv, IInv', SessionInv', NEW c \in Calls, Unsettled(c)
  PROVE  RepliesInv'
<1>1. /\ OwnerShape /\ Prompting(c) /\ Moves(c, "settling") /\ UNCHANGED <<codex, runtime>>
      /\ turn' = [turn EXCEPT !.accepting = FALSE] /\ owner' = [owner EXCEPT !.snapshot = TRUE]
  BY ShapeParts DEF IInv, Unsettled, Settles, Prompting, Subscribed
<1>2. Typed
  BY <1>1 DEF TurnInv
<1>3. SameEvents /\ ~turn'.accepting
  BY <1>1, <1>2, TurnField DEF Typed, IsTurn, SameEvents
<1>4. owner'.retired = owner.retired /\ owner'.snapshot
  BY <1>1 DEF OwnerShape
<1>5. SameProcess
  BY <1>1 DEF SameProcess
<1> QED
  BY <1>1, <1>3, <1>4, <1>5, WaitReplies DEF Settling

LEMMA WaitsReplies ==
  ASSUME IInv, TurnInv, RepliesInv, IInv', SessionInv', NEW c \in Calls,
         SendReturns(c) \/ InterruptReturns(c)
  PROVE  RepliesInv'
<1>1. Prompting(c) /\ runtime' = runtime /\ owner' = owner
  BY DEF SendReturns, InterruptReturns, Prompting, Subscribed, Settling
<1>2. Typed /\ ReplyInv(c) /\ SameProcess
  BY <1>1 DEF TurnInv, RepliesInv, SameProcess
<1>3. CASE SendReturns(c)
  <2>1. /\ Moves(c, "reading") /\ call[c].at = "sending" /\ turn' = [turn EXCEPT !.sent = "done"]
        /\ turn.accepting
    BY <1>2, <1>3 DEF SendReturns, ReplyInv, SeenInv
  <2>2. SameEvents /\ turn'.accepting = turn.accepting
    <3> DEFINE u == [turn EXCEPT !.sent = "done"]
    <3>1. /\ u.queue = turn.queue /\ u.idle = turn.idle /\ u.failed = turn.failed
          /\ u.seen = turn.seen /\ u.before = turn.before /\ u.accepting = turn.accepting
      BY <1>2, TurnField DEF Typed, IsTurn
    <3>2. turn' = u
      BY <2>1
    <3> HIDE DEF u
    <3> QED
      BY <3>1, <3>2 DEF SameEvents
  <2> QED
    BY <1>1, <1>2, <2>1, <2>2, WaitReplies
<1>4. CASE InterruptReturns(c)
  <2>1. /\ Moves(c, "idling") /\ turn' = turn /\ ~turn.accepting /\ owner'.snapshot
    BY <1>1, <1>2, <1>4 DEF InterruptReturns, ReplyInv, SeenInv
  <2>2. SameEvents
    BY <2>1 DEF SameEvents
  <2> QED
    BY <1>1, <1>2, <2>1, <2>2, WaitReplies DEF Settling
<1> QED
  BY <1>3, <1>4

LEMMA InterruptsReplies ==
  ASSUME IInv, TurnInv, RepliesInv, IInv', SessionInv', NEW c \in Calls, Interrupts(c)
  PROVE  RepliesInv'
<1>1. /\ RuntimeShape /\ Prompting(c) /\ call[c].at = "settling" /\ owner' = owner
      /\ turn.sent \in {"answered", "done"}
  BY ShapeParts DEF IInv, Interrupts, Prompting, Subscribed, Settling
<1>2. Typed /\ Started(c) /\ ReplyInv(c)
  BY <1>1 DEF TurnInv, Asked, RepliesInv
<1>3. runtime.requests = <<>> /\ ~turn.accepting /\ owner.snapshot
  BY <1>1, <1>2 DEF Started, RequestsInv, ReplyInv, SeenInv
<1> DEFINE m == (IF turn.sent = "answered" THEN Sent ELSE codex).turn
           a == [kind |-> "interrupt", turn |-> m, replace |-> FALSE, messages |-> <<>>]
           u == [turn EXCEPT !.sent = "done"]
<1>4. \/ Moves(c, "idling") /\ runtime' = runtime /\ turn' = u
      \/ /\ Moves(c, "interrupting") /\ turn' = [u EXCEPT !.abort = "pending"]
         /\ runtime' = [runtime EXCEPT !.requests = IF runtime.alive THEN Append(@, a) ELSE @]
  BY DEF Interrupts
<1>5. IsTurn(u) /\ u.queue = turn.queue /\ u.idle = turn.idle /\ u.failed = turn.failed
      /\ u.seen = turn.seen /\ u.before = turn.before /\ u.accepting = turn.accepting
  BY ZenonT(60), <1>2, TurnField DEF Typed, IsTurn
<1> HIDE DEF u
<1>6. SameEvents /\ ~turn'.accepting
  <2>1. CASE turn' = u
    BY <1>3, <1>5, <2>1 DEF SameEvents
  <2>2. CASE turn' = [u EXCEPT !.abort = "pending"]
    <3>1. SameEvents /\ turn'.accepting = u.accepting
      BY <1>5, <2>2, TurnField DEF SameEvents
    <3> QED
      BY <1>3, <1>5, <3>1
  <2> QED
    BY <1>4, <2>1, <2>2
<1>7. SameProcess
  <2>1. a.kind = "interrupt"
    OBVIOUS
  <2> HIDE DEF a
  <2>2. CASE runtime' = runtime
    BY <2>2 DEF SameProcess
  <2>3. CASE runtime' = [runtime EXCEPT !.requests = IF runtime.alive THEN Append(@, a) ELSE @]
    <3>1. /\ runtime'.made = runtime.made /\ runtime'.running = runtime.running
          /\ runtime'.said = runtime.said /\ runtime'.thread = runtime.thread
          /\ runtime'.lines = runtime.lines
          /\ runtime'.requests = <<>> \/ runtime'.requests = Append(<<>>, a)
      BY <1>1, <1>3, <2>3 DEF RuntimeShape
    <3>2. runtime'.requests # <<>> => Head(runtime'.requests) = a
      BY <3>1
    <3> QED
      BY <2>1, <3>1, <3>2 DEF SameProcess, NextRequest
  <2> QED
    BY <1>4, <2>2, <2>3
<1>8. PICK at \in {"idling", "interrupting"} : Moves(c, at)
  BY <1>4
<1> QED
  BY <1>1, <1>3, <1>6, <1>7, <1>8, WaitReplies DEF Settling

-----------------------------------------------------------------------------
(* The end of a turn.                                                      *)

LEMMA OverLeaves ==
  ASSUME NEW c \in Calls, NEW o, IsOwner(o, owner.uncertain), TurnOver(c, o), ~turn.safety
  PROVE  /\ owner'.retired = o.retired \cup turn.seen
         /\ owner'.snapshot = o.snapshot /\ owner'.history = o.history
<1> DEFINE u == o.retired \cup turn.seen
<1>1. owner' = [o EXCEPT !.retired = u]
  BY DEF TurnOver
<1> HIDE DEF u
<1>2. owner'.retired = u /\ owner'.snapshot = o.snapshot /\ owner'.history = o.history
  BY <1>1 DEF IsOwner
<1> QED
  BY <1>2 DEF u

LEMMA DoneOwner ==
  ASSUME Shape, NEW c \in Calls, ReadsDone(c)
  PROVE  \E o : /\ IsOwner(o, owner.uncertain) /\ TurnOver(c, o) /\ o.retired = owner.retired
                /\ \/ Len(call[c].heard) = 0 /\ o.snapshot /\ o.history = owner.history
                   \/ /\ Len(call[c].heard) # 0
                      /\ o.history = Append(call[c].context, Len(call[c].heard))
<1> DEFINE n == Len(call[c].heard)
           x == Append(call[c].context, n)
           p == [owner EXCEPT !.snapshot = TRUE]
           q == [owner EXCEPT !.snapshot = FALSE]
           u == [q EXCEPT !.history = x]
<1>1. IsOwner(owner, owner.uncertain) /\ OwnerShape
  BY OwnerIsOwner, ShapeParts
<1>2. TurnOver(c, IF n = 0 THEN p ELSE u)
  BY DEF ReadsDone
<1>3. IsOwner(p, owner.uncertain) /\ IsOwner(q, owner.uncertain)
  BY <1>1, OwnerField
<1>4. /\ p.retired = owner.retired /\ q.retired = owner.retired
      /\ p.snapshot /\ p.history = owner.history
  BY <1>1 DEF OwnerShape
<1> HIDE DEF p, q, x
<1>5. u.retired = q.retired /\ u.history = x
  BY <1>3 DEF IsOwner
<1>6. IsOwner(u, owner.uncertain)
  BY <1>3, OwnerField, Zenon
<1> HIDE DEF u
<1>7. CASE n = 0
  BY <1>2, <1>3, <1>4, <1>7
<1>8. CASE n # 0
  BY <1>2, <1>4, <1>5, <1>6, <1>8 DEF x
<1> QED
  BY <1>7, <1>8

LEMMA FinishHistory ==
  ASSUME IInv, TurnInv, RepliesInv, MessagesInv, NEW c \in Calls, Finishes(c)
  PROVE  /\ owner'.retired \subseteq 1..runtime.made
         /\ ~owner'.snapshot => runtime.thread = owner'.history
<1>1. /\ Started(c) /\ turn.idle /\ Prompting(c) /\ Typed /\ ReplyInv(c) /\ Shape
      /\ runtime.running = 0 /\ runtime.made = Mine /\ ~turn.safety
  BY FinishedIsOver DEF RepliesInv, Finishes, IInv, Started, IdleInv, Mine
<1>2. ASSUME NEW o, o.retired = owner.retired, IsOwner(o, owner.uncertain), TurnOver(c, o)
      PROVE  owner'.retired \subseteq 1..runtime.made
  <2>1. turn.before \in Nat /\ runtime.made = turn.before + 1
    BY <1>1 DEF Typed, Mine
  <2>2. owner.retired \subseteq 1..turn.before /\ turn.seen \subseteq {runtime.made}
    BY <1>1 DEF ReplyInv, SeenInv
  <2>3. owner'.retired = owner.retired \cup turn.seen
    BY <1>1, <1>2, OverLeaves
  <2> QED
    BY <2>1, <2>2, <2>3
<1>3. CASE IsIdle(c)
  <2>1. TurnOver(c, owner) /\ IsOwner(owner, owner.uncertain) /\ call[c].at = "idling"
    BY <1>1, <1>3, OwnerIsOwner DEF IsIdle
  <2>2. owner'.snapshot = owner.snapshot
    BY <1>1, <2>1, OverLeaves
  <2>3. owner.snapshot
    BY <1>1, <2>1 DEF ReplyInv, SeenInv
  <2> QED
    BY <1>2, <2>1, <2>2, <2>3
<1>4. CASE ReadsDone(c)
  <2>1. PICK o : /\ IsOwner(o, owner.uncertain) /\ TurnOver(c, o) /\ o.retired = owner.retired
                 /\ \/ Len(call[c].heard) = 0 /\ o.snapshot /\ o.history = owner.history
                    \/ /\ Len(call[c].heard) # 0
                       /\ o.history = Append(call[c].context, Len(call[c].heard))
    BY <1>1, <1>4, DoneOwner
  <2>2. owner'.snapshot = o.snapshot /\ owner'.history = o.history
    BY <1>1, <2>1, OverLeaves
  <2>3. /\ call[c].at = "reading" /\ ~turn.failed /\ turn.queue # <<>> /\ turn.accepting
        /\ Head(turn.queue).kind = "done"
    BY <1>1, <1>4 DEF ReadsDone, Gets, ReplyInv, SeenInv
  <2>4. PICK r, t \in 0..MaxParts : Accounts(c, r, t)
    BY <1>1, <2>3 DEF ReplyInv, Account
  <2>5. r = t /\ runtime.thread = Said(call[c].context, t)
    BY <1>1, <2>4 DEF Accounts, Spoken
  <2>6. r = Len(call[c].heard)
    <3>1. Len(call[c].heard) \in Nat
      BY LenProperties DEF MessagesInv
    <3> QED
      BY <1>1, <2>3, <2>4, <3>1, FollowsTail DEF Accounts, Typed
  <2> QED
    BY <1>2, <2>1, <2>2, <2>5, <2>6 DEF Said
<1> QED
  BY <1>3, <1>4 DEF Finishes

LEMMA FinishesReplies ==
  ASSUME IInv, TurnInv, SessionInv, RepliesInv, MessagesInv, NEW c \in Calls, Finishes(c)
  PROVE  RepliesInv'
<1>1. /\ Prompting(c) /\ Active(c) /\ owner.session /\ Shape
      /\ Moves(c, "ended") /\ UNCHANGED <<codex, runtime>> /\ owner'.session = owner.session
  BY FinishedIsOver, FinishLeaves DEF IInv, SessionInv, Prompting, Active, Subscribed, Settling, Leaves
<1>2. call'[c].at = "ended" /\ \A d \in Calls \ {c} : call'[d] = call[d] /\ ~Active(d)
  BY <1>1, MoveOfCall, HolderIsAlone DEF Alone
<1>3. \A d \in Calls : ~Prompting(d)' /\ call'[d].at # "starting"
  BY <1>2 DEF Prompting, Active, Subscribed, Settling
<1>4. ~HasHandler' /\ ~Unused'
  BY <1>1, <1>3 DEF HasHandler, Prompting, Unused
<1>5. HistoryInv'
  BY <1>1, <1>4, FinishHistory DEF HistoryInv
<1>6. \A d \in Calls : call'[d].at \in Waiting => call'[d].heard = <<>>
  BY <1>2 DEF RepliesInv, Waiting
<1> QED
  BY <1>3, <1>5, <1>6 DEF RepliesInv

-----------------------------------------------------------------------------
(* A turn begins.                                                          *)

\* A conversation is what it begins with and the rest.
LEMMA PrefixAndRest ==
  ASSUME NEW S, NEW s \in Seq(S), NEW t \in Seq(S), IsPrefix(s, t)
  PROVE  s \o SubSeq(t, Len(s) + 1, Len(t)) = t
<1> DEFINE m == Len(s)
           n == Len(t)
           u == SubSeq(t, m + 1, n)
<1>1. m \in Nat /\ n \in Nat /\ m <= n
  BY LenProperties DEF IsPrefix
<1>2. \A i \in 1..m : s[i] = t[i]
  <2>1. \A i \in 1..m : s[i] \in S /\ t[i] \in S
    BY <1>1
  <2> HIDE DEF m
  <2>2. \A i \in 1..m - 1 + 1 : SubSeq(s, 1, m)[i] = s[1 + i - 1] /\ SubSeq(t, 1, m)[i] = t[1 + i - 1]
    BY <1>1, <2>1, SubSeqProperties
  <2>3. SubSeq(s, 1, m) = SubSeq(t, 1, m)
    BY DEF IsPrefix, m
  <2> QED
    BY <1>1, <2>2, <2>3
<1>3. /\ u \in Seq(S) /\ Len(u) = n - m
      /\ \A i \in 1..(n - m) : u[i] = t[m + i]
  <2>1. \A i \in (m + 1)..n : t[i] \in S
    BY <1>1
  <2> HIDE DEF m, n
  <2>2. /\ u \in Seq(S) /\ Len(u) = IF m + 1 <= n THEN n - (m + 1) + 1 ELSE 0
        /\ \A i \in 1..(n - (m + 1) + 1) : u[i] = t[m + 1 + i - 1]
    BY <1>1, <2>1, SubSeqProperties
  <2> HIDE DEF u
  <2>3. n - (m + 1) + 1 = n - m
    BY <1>1
  <2>4. Len(u) = n - m
    BY <1>1, <2>2
  <2>5. ASSUME NEW i \in 1..(n - m) PROVE u[i] = t[m + i]
    <3>1. m + 1 + i - 1 = m + i
      BY <1>1
    <3> QED
      BY <2>2, <2>3, <3>1
  <2> QED
    BY <2>2, <2>4, <2>5
<1> HIDE DEF u
<1>4. /\ s \o u \in Seq(S) /\ Len(s \o u) = n
      /\ \A i \in 1..n : (s \o u)[i] = IF i <= m THEN s[i] ELSE u[i - m]
  <2>1. m + (n - m) = n
    BY <1>1
  <2> QED
    BY <1>3, <2>1, ConcatProperties
<1>5. ASSUME NEW i \in 1..n PROVE (s \o u)[i] = t[i]
  <2>1. CASE i <= m
    BY <1>1, <1>2, <1>4, <2>1
  <2>2. CASE ~(i <= m)
    <3>1. i - m \in 1..(n - m) /\ m + (i - m) = i
      BY <1>1, <2>2
    <3> QED
      BY <1>3, <1>4, <2>2, <3>1
  <2> QED
    BY <2>1, <2>2
<1>6. s \o u = t
  BY <1>4, <1>5, SeqEqual
<1> QED
  BY <1>6 DEF u

\* Who prompts finds a session whose process has the history.
LEMMA BeginsFinds ==
  ASSUME IInv, TurnInv, SessionInv, RepliesInv, NEW c \in Calls, MayPrompt(c)
  PROVE  /\ ~Prompting(c) /\ call[c].heard = <<>> /\ NothingRuns
         /\ owner.retired \subseteq 1..runtime.made
         /\ ~owner.snapshot => runtime.thread = owner.history
<1>1. /\ Active(c) \/ (Holds(c) /\ call[c].at = "queued")
      /\ ~Prompting(c) /\ call[c].at \in Waiting
  BY DEF MayPrompt, Prompting, Active, Subscribed, Settling, Waiting
<1>2. ~HasHandler /\ Alone(c)
  BY <1>1, NonePrompts, HolderIsAlone
<1>3. \A d \in Calls : call[d].at # "starting"
  BY <1>2 DEF Alone, Active, MayPrompt
<1>4. owner.session
  BY <1>3 DEF MayPrompt, SessionInv
<1> QED
  BY <1>1, <1>2, <1>4 DEF TurnInv, RepliesInv, HistoryInv

LEMMA BeginsReplies ==
  ASSUME IInv, TurnInv, SessionInv, RepliesInv, MessagesInv, IInv', SessionInv',
         NEW c \in Calls, BeginsTurn(c)
  PROVE  RepliesInv'
<1> DEFINE context == call[c].context
           prompt == [kind |-> "start", turn |-> 0, replace |-> Snapshot(context),
                      messages |-> Additions(context)]
<1>1. /\ Shape /\ RuntimeShape /\ (Active(c) \/ (Holds(c) /\ call[c].at = "queued")) /\ MayPrompt(c)
      /\ Moves(c, "sending") /\ owner' = owner
      /\ runtime' = [runtime EXCEPT !.requests = IF runtime.alive THEN Append(@, prompt) ELSE @]
  BY ShapeParts DEF IInv, BeginsTurn, MayPrompt, Active
<1>2. /\ ~Prompting(c) /\ call[c].heard = <<>> /\ NothingRuns
      /\ owner.retired \subseteq 1..runtime.made
      /\ ~owner.snapshot => runtime.thread = owner.history
  BY <1>1, BeginsFinds
<1>3. Typed
  BY DEF TurnInv
<1>4. /\ call'[c].at = "sending" /\ \A d \in Calls \ {c} : call'[d] = call[d]
      /\ call'[c].context = context /\ call'[c].heard = <<>>
  BY <1>1, <1>2, MoveOfCall, MoveSays
<1>5. Prompting(c)' /\ \A d \in Calls \ {c} : ~Prompting(d)'
  BY <1>1, <1>4, TurnStays DEF Subscribed
<1>6. \E sent : Begun(turn', runtime.made, sent)
  <2>1. PICK sent : turn' = [NewTurn(runtime.made) EXCEPT !.sent = sent]
    BY DEF BeginsTurn
  <2> QED
    BY <2>1, BeginsIsTurn, Zenon
<1>7. /\ turn'.before = runtime.made /\ turn'.queue = <<>> /\ ~turn'.idle /\ ~turn'.failed
      /\ turn'.accepting /\ turn'.seen = {}
  BY <1>6 DEF Begun
<1>8. /\ runtime'.made = runtime.made /\ runtime'.running = 0
      /\ runtime'.said = runtime.said /\ runtime'.lines = runtime.lines
      /\ runtime'.thread = runtime.thread
      /\ runtime'.requests = <<>> \/ runtime'.requests = Append(<<>>, prompt)
  <2> HIDE DEF prompt
  <2> QED
    BY <1>1, <1>2 DEF RuntimeShape, NothingRuns
<1>9. IF prompt.replace THEN prompt.messages = context
                        ELSE runtime.thread \o prompt.messages = context
  <2>1. prompt.replace = Snapshot(context) /\ prompt.messages = Additions(context)
    OBVIOUS
  <2>2. CASE Snapshot(context)
    BY <2>1, <2>2 DEF Additions
  <2>3. CASE ~Snapshot(context)
    <3>1. ~owner.snapshot /\ IsPrefix(owner.history, context)
      BY <2>3 DEF Snapshot
    <3>2. owner.history \in Messages /\ context \in Messages
      BY DEF MessagesInv
    <3>3. owner.history \o SubSeq(context, Len(owner.history) + 1, Len(context)) = context
      BY <3>1, <3>2, PrefixAndRest DEF Messages
    <3> QED
      BY <1>2, <2>1, <2>3, <3>1, <3>3 DEF Additions
  <2> QED
    BY <2>2, <2>3
<1> HIDE DEF prompt
<1>10. HeardInv(c)'
  BY <1>4 DEF HeardInv
<1>11. ThreadInv(c)'
  <2>1. CASE runtime'.requests = <<>>
    BY <1>8, <2>1 DEF ThreadInv, NextRequest
  <2>2. CASE runtime'.requests = Append(<<>>, prompt)
    <3>1. Head(runtime'.requests) = prompt
      BY <2>2
    <3> QED
      BY <1>4, <1>8, <1>9, <3>1 DEF ThreadInv, Applied
  <2> QED
    BY <1>8, <2>1, <2>2
<1>12. SeenInv(c)'
  BY <1>1, <1>2, <1>4, <1>7, <1>8 DEF SeenInv
<1>13. Account(c)'
  <2>1. 0 \in 0..MaxParts
    BY ConstantsOK
  <2>2. Follows(turn'.queue, Mine', Len(call'[c].heard), 0)
    BY <1>4, <1>7, FollowsNone
  <2>3. runtime'.made # Mine'
    BY <1>3, <1>7, <1>8 DEF Mine, Typed
  <2>4. Spoken(c, 0, 0)'
    BY <2>3 DEF Spoken
  <2>5. Accounts(c, 0, 0)'
    BY <1>7, <2>2, <2>4 DEF Accounts
  <2> QED
    BY <2>1, <2>5 DEF Account
<1>14. \A d \in Calls : call'[d].at \in Waiting => call'[d].heard = <<>>
  BY <1>4 DEF RepliesInv, Waiting
<1>15. ReplyInv(c)'
  BY <1>10, <1>11, <1>12, <1>13 DEF ReplyInv
<1> QED
  BY <1>5, <1>14, <1>15, RepliesFrame

-----------------------------------------------------------------------------
(* What the events do to a reply.                                          *)

\* Turn u has the event in its queue, unless the queue is full.
Queues(t, u, kind, n, first, last) ==
  /\ IsTurn(u) /\ u.seen = t.seen /\ u.failed = t.failed
  /\ u.queue = IF Len(t.queue) = QueueSize THEN t.queue
               ELSE Append(t.queue, [kind |-> kind, turn |-> n, first |-> first, last |-> last])

LEMMA PutFields ==
  ASSUME NEW t, IsTurn(t), NEW kind \in {"text", "done", "error"}, NEW n \in Nat,
         NEW first \in 0..MaxParts, NEW last \in 0..MaxParts
  PROVE  Queues(t, Put(t, kind, n, first, last), kind, n, first, last)
<1> DEFINE e == [kind |-> kind, turn |-> n, first |-> first, last |-> last]
           q == Append(t.queue, e)
           u == Put(t, kind, n, first, last)
<1>1. CASE Len(t.queue) = QueueSize
  BY <1>1 DEF Put, Queues
<1>2. CASE Len(t.queue) # QueueSize
  <2>1. u = [t EXCEPT !.queue = q]
    BY <1>2 DEF Put
  <2> HIDE DEF q
  <2>2. u = [queue |-> q, idle |-> t.idle, failed |-> t.failed, accepting |-> t.accepting,
             safety |-> t.safety, seen |-> t.seen, sent |-> t.sent, id |-> t.id,
             abort |-> t.abort, before |-> t.before]
    BY <2>1, TurnField
  <2> HIDE DEF u
  <2>3. u.queue = q /\ u.idle = t.idle /\ u.failed = t.failed /\ u.accepting = t.accepting
        /\ u.safety = t.safety /\ u.seen = t.seen /\ u.sent = t.sent /\ u.id = t.id
        /\ u.abort = t.abort /\ u.before = t.before
    BY <2>2
  <2>4. IsTurn(u)
    BY <2>2, <2>3 DEF IsTurn
  <2> QED
    BY <1>2, <2>3, <2>4 DEF q, u, Queues
<1> QED
  BY <1>1, <1>2

LEMMA FailsFields ==
  ASSUME NEW t, IsTurn(t)
  PROVE  IsTurn(Fails(t)) /\ Fails(t).failed /\ Fails(t).seen = t.seen
<1> DEFINE u == Put(t, "error", 0, 0, 0)
<1>1. IsTurn(u) /\ u.seen = t.seen
  <2>1. Queues(t, u, "error", 0, 0, 0)
    BY PutFields, ConstantsOK
  <2> QED
    BY <2>1 DEF Queues
<1>2. Fails(t) = [u EXCEPT !.failed = TRUE]
  BY DEF Fails
<1> HIDE DEF u
<1>3. IsTurn(Fails(t)) /\ Fails(t).failed /\ Fails(t).seen = u.seen
  BY <1>1, <1>2, TurnField DEF IsTurn
<1> QED
  BY <1>1, <1>3

\* An error fails the turn that takes events, and no event is seen.
LEMMA ErrorFields ==
  ASSUME NEW t, IsTurn(t)
  PROVE  /\ OnError(t).seen = t.seen /\ (t.accepting => OnError(t).failed) /\ IsTurn(OnError(t))
         /\ OnTool(t).seen = t.seen /\ (t.accepting => OnTool(t).failed)
<1> DEFINE f == Fails(t)
           u == [f EXCEPT !.safety = TRUE]
<1>1. IsTurn(f) /\ f.failed /\ f.seen = t.seen
  BY FailsFields
<1>2. OnError(t) = (IF t.accepting THEN f ELSE t) /\ OnTool(t) = IF t.accepting THEN u ELSE t
  BY DEF OnError, OnTool
<1> HIDE DEF f
<1>3. u.failed = f.failed /\ u.seen = f.seen
  BY <1>1, TurnField DEF IsTurn
<1> HIDE DEF u
<1> QED
  BY <1>1, <1>2, <1>3

LEMMA IdleFields ==
  ASSUME NEW t, IsTurn(t)
  PROVE  /\ OnIdle(t).seen = t.seen /\ OnIdle(t).failed = t.failed
         /\ \/ OnIdle(t).queue = t.queue
            \/ OnIdle(t).queue = Append(t.queue, [kind |-> "done", turn |-> 0, first |-> 0, last |-> 0])
<1> DEFINE p == Put(t, "done", 0, 0, 0)
           e == [kind |-> "done", turn |-> 0, first |-> 0, last |-> 0]
           u == IF t.accepting THEN p ELSE t
<1>1. /\ IsTurn(p) /\ p.seen = t.seen /\ p.failed = t.failed
      /\ p.queue = t.queue \/ p.queue = Append(t.queue, e)
  <2>1. Queues(t, p, "done", 0, 0, 0)
    BY PutFields, ConstantsOK
  <2> QED
    BY <2>1 DEF Queues
<1>2. OnIdle(t) = [u EXCEPT !.idle = TRUE]
  BY DEF OnIdle
<1> HIDE DEF p, e
<1>3. /\ IsTurn(u) /\ u.seen = t.seen /\ u.failed = t.failed
      /\ u.queue = t.queue \/ u.queue = Append(t.queue, e)
  BY <1>1
<1> HIDE DEF u
<1>4. OnIdle(t).seen = u.seen /\ OnIdle(t).failed = u.failed /\ OnIdle(t).queue = u.queue
  BY <1>2, <1>3, TurnField DEF IsTurn
<1> QED
  BY <1>3, <1>4 DEF e

\* A text is queued, or fails the turn, or the turn takes none.
LEMMA TextFields ==
  ASSUME NEW t, IsTurn(t), NEW n \in Nat, NEW first \in 0..MaxParts, NEW last \in 0..MaxParts,
         n \notin owner.retired
  PROVE  LET u == OnText(t, n, first, last) IN
           /\ u.seen \in {t.seen, t.seen \cup {n}}
           /\ \/ ~t.accepting
              \/ u.failed
              \/ /\ u.failed = t.failed /\ u.seen = t.seen \cup {n}
                 /\ u.queue = Append(t.queue, [kind |-> "text", turn |-> n, first |-> first,
                                               last |-> last])
<1> DEFINE x == t.seen \cup {n}
           s == [t EXCEPT !.seen = x]
           f == Fails(s)
           p == Put(s, "text", n, first, last)
           u == OnText(t, n, first, last)
           e == [kind |-> "text", turn |-> n, first |-> first, last |-> last]
<1>1. u = IF ~t.accepting THEN t ELSE IF Len(t.queue) = QueueSize THEN f ELSE p
  BY DEF OnText
<1> HIDE DEF x
<1>2. IsTurn(s) /\ s.queue = t.queue /\ s.failed = t.failed /\ s.seen = x
  BY ZenonT(60), TurnField DEF IsTurn
<1> HIDE DEF s, u
<1>3. f.failed /\ f.seen = x
  BY <1>2, FailsFields
<1>4. /\ p.failed = t.failed /\ p.seen = x
      /\ Len(t.queue) # QueueSize => p.queue = Append(t.queue, e)
  <2>1. Queues(s, p, "text", n, first, last)
    BY <1>2, PutFields
  <2> HIDE DEF p
  <2> QED
    BY <1>2, <2>1 DEF Queues
<1> HIDE DEF f, p, e
<1> QED
  BY <1>1, <1>3, <1>4 DEF x, e, u

LEMMA TextSees ==
  ASSUME NEW t, IsTurn(t), NEW n \in Nat, NEW first \in 0..MaxParts, NEW last \in 0..MaxParts,
         n \notin owner.retired
  PROVE  /\ OnText(t, n, first, last).seen \subseteq t.seen \cup {n}
         /\ t.accepting /\ t.failed => OnText(t, n, first, last).failed
<1> DEFINE u == OnText(t, n, first, last)
           e == [kind |-> "text", turn |-> n, first |-> first, last |-> last]
<1>1. /\ u.seen \in {t.seen, t.seen \cup {n}}
      /\ \/ ~t.accepting
         \/ u.failed
         \/ u.failed = t.failed /\ u.seen = t.seen \cup {n} /\ u.queue = Append(t.queue, e)
  BY TextFields
<1> HIDE DEF u, e
<1>2. u.seen \subseteq t.seen \cup {n}
  BY <1>1
<1>3. t.accepting /\ t.failed => u.failed
  BY <1>1
<1> QED
  BY <1>2, <1>3 DEF u

-----------------------------------------------------------------------------
(* The reader task keeps the replies in order.                             *)

LEMMA OutsideReplies ==
  ASSUME RepliesInv, UNCHANGED <<call, owner>>,
         ~HasHandler => runtime'.made = runtime.made /\ runtime'.thread = runtime.thread,
         \A c \in Calls : Prompting(c) => ReplyInv(c)'
  PROVE  RepliesInv'
<1>1. (HasHandler' <=> HasHandler) /\ (Unused' <=> Unused)
  BY DEF HasHandler, Unused
<1>2. HistoryInv
  BY DEF RepliesInv
<1>3. HistoryInv'
  BY <1>1, <1>2 DEF HistoryInv
<1> QED
  BY <1>3 DEF RepliesInv, Prompting

LEMMA HasLeft ==
  ASSUME NEW s \in Seq(AgentLine), s # <<>>, NEW kinds, Has(s, kinds), Head(s).kind \notin kinds
  PROVE  Has(Tail(s), kinds)
<1>1. PICK i \in 1..Len(s) : s[i].kind \in kinds
  BY DEF Has
<1>2. /\ Head(s) = s[1] /\ Len(s) \in Nat /\ Len(Tail(s)) = Len(s) - 1
      /\ \A j \in 1..Len(Tail(s)) : Tail(s)[j] = s[j + 1]
  BY TailOfLines
<1>3. i # 1
  BY <1>1, <1>2
<1>4. i - 1 \in 1..Len(Tail(s)) /\ (i - 1) + 1 = i
  BY <1>1, <1>2, <1>3
<1> QED
  BY <1>1, <1>2, <1>4 DEF Has

\* What is left to read of a reply after one line.
LEMMA SpokenTail ==
  ASSUME Typed, TakesLine, NEW c \in Calls, Started(c), call' = call, turn'.before = turn.before,
         ~turn.idle, NEW r \in Nat, NEW t \in Nat, r <= t, Spoken(c, r, t)
  PROVE  LET line == Head(runtime.lines) IN
           /\ line.kind \notin {"delta", "item"} \cup Ends \/ (line.kind = "delta" /\ line.turn # Mine)
                => (~turn'.idle => Spoken(c, r, t)')
           /\ line.kind = "delta" /\ line.turn = Mine =>
                line.part = r + 1 /\ r + 1 <= t /\ (~turn'.idle => Spoken(c, r + 1, t)')
           /\ line.kind = "item" =>
                /\ line.part = t /\ t > 0
                /\ ~turn'.idle => IF r = 0 THEN Spoken(c, t, t)' ELSE Spoken(c, r, t)'
           /\ line.kind \in Ends => r = t /\ (turn'.idle => Spoken(c, r, t)')
<1> DEFINE s == runtime.lines
           line == Head(s)
<1>1. /\ s \in Seq(AgentLine) /\ s # <<>> /\ runtime'.lines = Tail(s)
      /\ runtime.made = Mine /\ runtime'.made = Mine' /\ Mine' = Mine
      /\ runtime'.running = runtime.running /\ runtime'.said = runtime.said
      /\ runtime'.thread = runtime.thread
  BY DEF Typed, TakesLine, Started, Mine
<1>2. EndIsLast(s)
  BY DEF Started, LinesInv
<1>3. /\ Continues(s, Mine, r, t)
      /\ runtime.running = 0 => Has(s, Ends)
      /\ Has(s, {"item"}) => runtime.running = 0
      /\ IF runtime.running # 0 THEN t = runtime.said
                                ELSE runtime.thread = Said(call[c].context, t)
  BY <1>1 DEF Spoken
<1>0. line = Head(s)
  OBVIOUS
<1> HIDE DEF s, line
<1>4. ASSUME NEW q, Continues(Tail(s), Mine, q, t), line.kind \notin Ends, ~turn'.idle
      PROVE  Spoken(c, q, t)'
  <2>1. Has(Tail(s), {"item"}) => runtime.running = 0
    BY <1>1, <1>3, HasTail
  <2>2. runtime.running = 0 => Has(Tail(s), Ends)
    <3>1. Head(s).kind \notin Ends
      BY <1>0, <1>4
    <3> QED
      BY <1>1, <1>3, <3>1, HasLeft
  <2> QED
    BY <1>1, <1>3, <1>4, <2>1, <2>2 DEF Spoken
<1>5. ASSUME turn'.idle, r = t PROVE Spoken(c, r, t)'
  <2> QED
    BY <1>1, <1>3, <1>5 DEF Spoken
<1>6. /\ line.kind = "delta" /\ line.turn = Mine =>
           line.part = r + 1 /\ r + 1 <= t /\ Continues(Tail(s), Mine, r + 1, t)
      /\ line.kind = "item" =>
           /\ line.part = t /\ t > 0
           /\ IF r = 0 THEN Continues(Tail(s), Mine, t, t) ELSE Continues(Tail(s), Mine, r, t)
      /\ line.kind \in Ends => r = t
      /\ line.kind \notin {"delta", "item"} \cup Ends => Continues(Tail(s), Mine, r, t)
      /\ line.kind = "delta" /\ line.turn # Mine => Continues(Tail(s), Mine, r, t)
  <2>1. Continues(s, Mine, r, t)
    BY <1>3
  <2> QED
    BY <1>0, <1>1, <1>2, <2>1, ContinuesTail
<1>7. "delta" \notin Ends /\ "item" \notin Ends
  BY DEF Ends
<1>8. \A q : Continues(Tail(s), Mine, q, t) /\ line.kind \notin Ends /\ ~turn'.idle => Spoken(c, q, t)'
  BY <1>4
<1> QED
  BY <1>5, <1>6, <1>7, <1>8 DEF s, line

\* All of the reply is still accounted for after the line that is read.
LEMMA ReadReplies ==
  ASSUME Typed, RepliesInv, TakesLine, UNCHANGED <<call, owner>>, NEW c \in Calls, Prompting(c),
         turn'.before = turn.before, turn'.accepting = turn.accepting,
         turn'.seen \subseteq {Mine}, turn'.seen # {} => runtime.made = Mine, Account(c)'
  PROVE  ReplyInv(c)'
<1>1. ReplyInv(c) /\ Mine' = Mine
  BY DEF RepliesInv, Mine
<1>2. HeardInv(c)'
  BY <1>1 DEF ReplyInv, HeardInv
<1>3. (NextRequest("start")' <=> NextRequest("start")) /\ runtime'.requests = runtime.requests
  BY DEF TakesLine, NextRequest
<1>4. ThreadInv(c)'
  <2>1. NextRequest("start")' => Applied(Head(runtime.requests))' = call'[c].context
    BY <1>1, <1>3 DEF ReplyInv, ThreadInv, Applied, TakesLine
  <2> QED
    BY <1>1, <1>3, <2>1 DEF ReplyInv, ThreadInv, TakesLine
<1>5. SeenInv(c)'
  BY <1>1 DEF ReplyInv, SeenInv, TakesLine
<1> QED
  BY <1>2, <1>4, <1>5 DEF ReplyInv

\* A line that is not of the reply, or comes when it is over.
LEMMA PassesReplies ==
  ASSUME TurnInv, RepliesInv, TakesLine, UNCHANGED <<call, owner>>, NEW c \in Calls, Prompting(c),
         SameEvents, turn'.accepting = turn.accepting,
         LET line == Head(runtime.lines) IN Started(c) /\ ~turn.idle =>
           line.kind \notin {"delta", "item"} \cup Ends \/ (line.kind = "delta" /\ line.turn # Mine)
  PROVE  ReplyInv(c)'
<1>1. ReplyInv(c) /\ Mine' = Mine /\ Typed /\ (Asked(c) \/ Started(c))
  BY DEF RepliesInv, Mine, SameEvents, TurnInv
<1>2. ASSUME NEW r \in 0..MaxParts, NEW t \in 0..MaxParts, Accounts(c, r, t)
      PROVE  Accounts(c, r, t)'
  <2>1. r <= t /\ Spoken(c, r, t) /\ r \in Nat /\ t \in Nat
    BY <1>2 DEF Accounts
  <2>2. Spoken(c, r, t)'
    <3>1. CASE Asked(c)
      <4>1. runtime.made # Mine /\ runtime'.made # Mine'
        BY <1>1, <3>1 DEF Asked, Mine, TakesLine, Typed
      <4> QED
        BY <2>1, <4>1 DEF Spoken
    <3>2. CASE Started(c) /\ turn.idle
      <4>1. runtime.made = Mine /\ runtime'.made = Mine'
        BY <1>1, <3>2 DEF Started, Mine, TakesLine
      <4> QED
        BY <1>1, <2>1, <3>2, <4>1 DEF Spoken, TakesLine, SameEvents
    <3>3. CASE Started(c) /\ ~turn.idle
      BY <1>1, <2>1, <3>3, SpokenTail DEF SameEvents
    <3> QED
      BY <1>1, <3>1, <3>2, <3>3
  <2> QED
    BY <1>1, <1>2, <2>2 DEF Accounts, SameEvents
<1>3. Account(c)'
  BY <1>1, <1>2 DEF ReplyInv, Account, SameEvents
<1>4. turn'.seen \subseteq {Mine} /\ (turn'.seen # {} => runtime.made = Mine)
  BY <1>1 DEF ReplyInv, SeenInv, SameEvents
<1> QED
  BY <1>1, <1>3, <1>4, ReadReplies DEF SameEvents

LEMMA AnswerReplies ==
  ASSUME IInv, TurnInv, RepliesInv, ReadsAnswer
  PROVE  RepliesInv'
<1>1. Shape /\ Typed
  BY DEF IInv, TurnInv
<1>2. /\ TakesLine /\ UNCHANGED <<owner, call>>
      /\ Head(runtime.lines).kind \in {"answer", "reject", "stopped", "unstopped"}
  BY <1>1, ReadTakesLine DEF ReadsAnswer
<1>3. \/ turn' = turn
      \/ \E x, y : turn' = [turn EXCEPT !.sent = x, !.id = y]
      \/ \E x : turn' = [turn EXCEPT !.abort = x]
  BY DEF ReadsAnswer
<1>4. SameEvents /\ turn'.accepting = turn.accepting
  <2>1. CASE turn' = turn
    BY <2>1 DEF SameEvents
  <2>2. CASE \E x, y : turn' = [turn EXCEPT !.sent = x, !.id = y]
    <3>1. PICK x, y : turn' = [turn EXCEPT !.sent = x, !.id = y]
      BY <2>2
    <3> DEFINE u == [turn EXCEPT !.sent = x]
    <3>2. turn' = [u EXCEPT !.id = y]
      BY <3>1
    <3>3. IsTurn(u) /\ u.queue = turn.queue /\ u.idle = turn.idle /\ u.failed = turn.failed
          /\ u.seen = turn.seen /\ u.before = turn.before /\ u.accepting = turn.accepting
      BY ZenonT(60), <1>1, TurnField DEF IsTurn, Typed
    <3> HIDE DEF u
    <3> QED
      BY <3>2, <3>3, TurnField DEF SameEvents
  <2>3. CASE \E x : turn' = [turn EXCEPT !.abort = x]
    BY <1>1, <2>3, TurnField DEF SameEvents, Typed
  <2> QED
    BY <1>3, <2>1, <2>2, <2>3
<1>5. Head(runtime.lines).kind \notin {"delta", "item"} \cup Ends
  BY <1>2 DEF Ends
<1>6. \A c \in Calls : Prompting(c) => ReplyInv(c)'
  BY <1>2, <1>4, <1>5, PassesReplies
<1> QED
  BY <1>2, <1>6, OutsideReplies DEF TakesLine

\* The lines that the session takes are of a reply that is not over, and no others are.
LEMMA TakenIs ==
  ASSUME TurnInv, NEW c \in Calls, Prompting(c), runtime.lines # <<>>,
         Head(runtime.lines).kind \in {"started", "delta", "item", "tool", "error"} \cup Ends
  PROVE  LET line == Head(runtime.lines) IN
           /\ Taken(line) => Started(c) /\ ~turn.idle /\ line.turn = Mine
           /\ ~Taken(line) /\ Started(c) /\ ~turn.idle => line.kind = "delta" /\ line.turn # Mine
<1> DEFINE s == runtime.lines
           line == Head(s)
<1>1. Typed /\ (Asked(c) \/ Started(c)) /\ s \in Seq(AgentLine) /\ s # <<>>
  BY DEF TurnInv, Typed
<1>2. CASE Asked(c)
  <2>1. line.kind = "delta" /\ line.turn \in 1..turn.before
    BY <1>1, <1>2, HeadOfLines DEF Asked, Ends
  <2>2. ~Started(c) /\ codex.retired = 1..turn.before
    BY <1>1, <1>2 DEF Asked, Started, Typed
  <2> QED
    BY <2>1, <2>2 DEF Taken
<1>3. CASE Started(c)
  <2>1. /\ line.turn \in 1..runtime.made
        /\ line.kind # "delta" => line.turn = runtime.made
    BY <1>1, <1>3, HeadOfLines DEF Started, LinesInv
  <2>2. runtime.made = Mine /\ turn.before \in Nat
    BY <1>1, <1>3 DEF Started, Mine, Typed
  <2>3. CASE turn.idle
    BY <1>3, <2>1, <2>3 DEF Taken, Started, IdleInv
  <2>4. CASE ~turn.idle
    <3>1. codex.turn \in {0, Mine} /\ codex.retired = 1..turn.before /\ Mine = turn.before + 1
      BY <1>3, <2>2, <2>4 DEF Started, IdleInv, Mine
    <3> HIDE DEF line
    <3>2. Taken(line) => line.turn = Mine
      BY <2>1, <2>2, <3>1 DEF Taken
    <3>3. ~Taken(line) => line.kind = "delta" /\ line.turn # Mine
      BY <2>1, <2>2, <3>1 DEF Taken
    <3> QED
      BY <1>3, <2>4, <3>2, <3>3 DEF line
  <2> QED
    BY <2>3, <2>4
<1> QED
  BY <1>1, <1>2, <1>3

\* A text of the reply goes on with it.
LEMMA TextReplies ==
  ASSUME Typed, NEW c \in Calls, call[c].heard \in Seq(Nat \X Nat), call' = call,
         ~Has(turn.queue, {"done"}), Mine \notin owner.retired, Mine' = Mine,
         turn.seen \subseteq {Mine}, NEW r \in 0..MaxParts, NEW t \in 0..MaxParts,
         NEW q \in 0..MaxParts, Accounts(c, r, t), r + 1 <= q, q <= t, Spoken(c, q, t)',
         turn' = OnText(turn, Mine, r + 1, q), turn'.accepting = turn.accepting
  PROVE  turn'.seen \subseteq {Mine} /\ Account(c)'
<1> DEFINE h == Len(call[c].heard)
           e == [kind |-> "text", turn |-> Mine, first |-> r + 1, last |-> q]
<1>1. h \in Nat /\ turn.queue \in Seq(AgentEvent) /\ Follows(turn.queue, Mine, h, r)
      /\ IsTurn(turn) /\ Mine \in Nat /\ r + 1 \in 0..MaxParts /\ MaxParts \in Nat
  <2>1. h \in Nat
    BY LenProperties
  <2>2. Mine \in Nat /\ MaxParts \in Nat
    <3>1. MaxParts \in Nat
      BY ConstantsOK
    <3>2. turn.before \in Nat
      BY DEF Typed
    <3> QED
      BY <3>1, <3>2 DEF Mine
  <2>3. r + 1 \in 0..MaxParts
    BY <2>2
  <2> QED
    BY <2>1, <2>2, <2>3 DEF Accounts, Typed
<1>2. e \in AgentEvent /\ e.kind = "text" /\ e.turn = Mine /\ e.first = r + 1 /\ e.last = q
  BY <1>1 DEF AgentEvent
<1>3. LET u == OnText(turn, Mine, r + 1, q) IN
        /\ u.seen \in {turn.seen, turn.seen \cup {Mine}}
        /\ \/ ~turn.accepting
           \/ u.failed
           \/ /\ u.failed = turn.failed /\ u.seen = turn.seen \cup {Mine}
              /\ u.queue = Append(turn.queue, [kind |-> "text", turn |-> Mine, first |-> r + 1,
                                               last |-> q])
  BY ZenonT(60), <1>1, TextFields
<1>4. /\ turn'.seen \in {turn.seen, turn.seen \cup {Mine}}
      /\ \/ ~turn.accepting
         \/ turn'.failed
         \/ /\ turn'.failed = turn.failed /\ turn'.seen = turn.seen \cup {Mine}
            /\ turn'.queue = Append(turn.queue, e)
  BY <1>3
<1> HIDE DEF h, e
<1>5. Follows(Append(turn.queue, e), Mine, h, q)
  BY <1>1, <1>2, FollowsAppend
<1>6. ASSUME turn'.seen = turn.seen \cup {Mine}, turn'.queue = Append(turn.queue, e)
      PROVE  Accounts(c, q, t)'
  <2>1. Follows(turn'.queue, Mine', Len(call'[c].heard), q)
    BY <1>5, <1>6 DEF h
  <2>2. q # 0
    BY <1>1
  <2>3. Mine \in turn'.seen
    BY <1>6
  <2> QED
    BY <2>1, <2>2, <2>3 DEF Accounts
<1>7. Account(c)'
  BY <1>4, <1>6 DEF Account
<1> QED
  BY <1>4, <1>7

\* What a line of the reply does to its account.
LEMMA TakenReplies ==
  ASSUME IInv, TurnInv, RepliesInv, MessagesInv, TakesLine, UNCHANGED <<call, owner>>, NEW c \in Calls,
         Prompting(c), Started(c), ~turn.idle, turn'.before = turn.before,
         turn'.accepting = turn.accepting,
         LET line == Head(runtime.lines) IN
           /\ line.kind \in {"delta", "item", "tool", "error"} \cup Ends => line.turn = Mine
           /\ \/ /\ line.kind = "delta" /\ ~turn'.idle
                 /\ turn' = OnText(turn, line.turn, line.part, line.part)
              \/ line.kind = "item" /\ ~turn'.idle /\ turn' = OnItem(turn, line.turn, line.part)
              \/ line.kind = "tool" /\ turn' = OnTool(turn)
              \/ line.kind = "error" /\ turn' = OnError(turn)
              \/ /\ line.kind \in Ends /\ turn'.idle
                 /\ turn' = OnIdle(IF line.kind = "failed" THEN OnError(turn) ELSE turn)
  PROVE  turn'.seen \subseteq {Mine} /\ Account(c)'
<1> DEFINE line == Head(runtime.lines)
<1>1. ReplyInv(c) /\ Mine' = Mine /\ Typed /\ IsTurn(turn) /\ runtime.lines # <<>>
  BY DEF RepliesInv, Mine, TurnInv, Typed, TakesLine
<1>2. line \in AgentLine /\ line.part \in 0..MaxParts
  <2>1. line \in AgentLine
    BY <1>1, HeadOfLines, LinesLeft
  <2> QED
    BY <2>1 DEF AgentLine
<1>3. /\ call[c].heard \in Seq(Nat \X Nat) /\ ~Has(turn.queue, {"done"})
      /\ Mine \notin owner.retired /\ turn.seen \subseteq {Mine}
  <2>1. Mine \notin 1..turn.before
    BY <1>1 DEF Mine, Typed
  <2> QED
    BY <1>1, <2>1 DEF MessagesInv, Started, IdleInv, ReplyInv, SeenInv
<1>4. ASSUME NEW r \in 0..MaxParts, NEW t \in 0..MaxParts, Accounts(c, r, t)
      PROVE  /\ r \in Nat /\ t \in Nat /\ r <= t /\ (r = 0 <=> turn.seen = {})
             /\ line.kind = "delta" /\ line.turn = Mine /\ ~turn'.idle =>
                  line.part = r + 1 /\ r + 1 <= t /\ Spoken(c, r + 1, t)'
             /\ line.kind = "item" /\ ~turn'.idle =>
                  /\ line.part = t /\ t > 0
                  /\ IF r = 0 THEN Spoken(c, t, t)' ELSE Spoken(c, r, t)'
             /\ line.kind \in Ends /\ turn'.idle => Spoken(c, r, t)'
  <2>1. r \in Nat /\ t \in Nat /\ r <= t /\ Spoken(c, r, t)
    BY <1>4 DEF Accounts
  <2>2. \A k \in Ends : k # "delta" /\ k # "item"
    BY DEF Ends
  <2> QED
    BY <1>1, <1>4, <2>1, <2>2, SpokenTail DEF Accounts
<1>5. ASSUME ~turn.accepting \/ turn'.failed PROVE Account(c)'
  BY <1>5 DEF Account
<1>6. Account(c)
  BY <1>1 DEF ReplyInv
<1> HIDE DEF line
<1>7. CASE line.kind = "delta" /\ ~turn'.idle /\ turn' = OnText(turn, line.turn, line.part, line.part)
  <2>1. line.turn = Mine
    BY <1>7 DEF line
  <2>2. turn'.seen \subseteq {Mine} /\ (turn.failed /\ turn.accepting => turn'.failed)
    <3>1. Mine \in Nat
      BY <1>1 DEF Mine, Typed
    <3>2. /\ turn'.seen \subseteq turn.seen \cup {Mine}
          /\ turn.accepting /\ turn.failed => turn'.failed
      BY <1>1, <1>2, <1>3, <1>7, <2>1, <3>1, TextSees
    <3> QED
      BY <1>3, <3>2
  <2>3. CASE turn.accepting /\ ~turn.failed
    <3>1. PICK r \in 0..MaxParts, t \in 0..MaxParts : Accounts(c, r, t)
      BY <1>6, <2>3 DEF Account
    <3>2. line.part = r + 1 /\ r + 1 <= t /\ Spoken(c, r + 1, t)' /\ r + 1 <= r + 1
      BY <1>4, <1>7, <2>1, <3>1
    <3> QED
      BY <1>1, <1>2, <1>3, <1>7, <2>1, <3>1, <3>2, TextReplies
  <2> QED
    BY <1>5, <2>2, <2>3
<1>8. CASE line.kind = "item" /\ ~turn'.idle /\ turn' = OnItem(turn, line.turn, line.part)
  <2>1. line.turn = Mine
    BY <1>8 DEF line
  <2>2. CASE Mine \in turn.seen
    <3>1. turn' = turn
      BY <1>8, <2>1, <2>2 DEF OnItem
    <3>2. ASSUME NEW r \in 0..MaxParts, NEW t \in 0..MaxParts, Accounts(c, r, t)
          PROVE  Accounts(c, r, t)'
      <4>1. Spoken(c, r, t)'
        BY <1>4, <1>8, <2>2, <3>2
      <4> QED
        BY <1>1, <3>1, <3>2, <4>1 DEF Accounts
    <3> QED
      BY <1>3, <1>6, <3>1, <3>2 DEF Account
  <2>3. CASE Mine \notin turn.seen
    <3>1. turn' = OnText(turn, Mine, 1, line.part) /\ turn.seen = {}
      BY <1>3, <1>8, <2>1, <2>3 DEF OnItem
    <3>2. MaxParts \in Nat /\ 1 \in 0..MaxParts
      BY ConstantsOK
    <3>3. turn'.seen \subseteq {Mine} /\ (turn.failed /\ turn.accepting => turn'.failed)
      <4>1. Mine \in Nat
        BY <1>1 DEF Mine, Typed
      <4>2. /\ turn'.seen \subseteq turn.seen \cup {Mine}
            /\ turn.accepting /\ turn.failed => turn'.failed
        BY <1>1, <1>2, <1>3, <3>1, <3>2, <4>1, TextSees
      <4> QED
        BY <1>3, <4>2
    <3>4. CASE turn.accepting /\ ~turn.failed
      <4>1. PICK r \in 0..MaxParts, t \in 0..MaxParts : Accounts(c, r, t)
        BY <1>6, <3>4 DEF Account
      <4>2. r = 0 /\ line.part = t /\ t > 0 /\ Spoken(c, t, t)'
        BY <1>4, <1>8, <3>1, <4>1
      <4>3. 0 + 1 = 1 /\ 0 + 1 <= t /\ t <= t
        BY <4>2
      <4> QED
        BY <1>1, <1>2, <1>3, <3>1, <4>1, <4>2, <4>3, TextReplies
    <3> QED
      BY <1>5, <3>3, <3>4
  <2> QED
    BY <2>2, <2>3
<1>9. CASE turn' = OnTool(turn) \/ turn' = OnError(turn)
  <2>1. turn'.seen = turn.seen /\ (turn.accepting => turn'.failed)
    BY <1>1, <1>9, ErrorFields
  <2> QED
    BY <1>3, <1>5, <2>1
<1>10. CASE line.kind \in Ends /\ turn'.idle /\ turn' = OnIdle(OnError(turn))
  <2>1. turn'.seen = turn.seen /\ (turn.accepting => turn'.failed)
    BY <1>1, <1>10, ErrorFields, IdleFields
  <2> QED
    BY <1>3, <1>5, <2>1
<1>11. CASE line.kind \in Ends /\ turn'.idle /\ turn' = OnIdle(turn)
  <2> DEFINE e == [kind |-> "done", turn |-> 0, first |-> 0, last |-> 0]
  <2>1. /\ turn'.seen = turn.seen /\ turn'.failed = turn.failed
        /\ turn'.queue = turn.queue \/ turn'.queue = Append(turn.queue, e)
    BY <1>1, <1>11, IdleFields
  <2>2. e \in AgentEvent /\ e.kind = "done"
    BY ConstantsOK DEF AgentEvent
  <2> HIDE DEF e
  <2>3. ASSUME NEW r \in 0..MaxParts, NEW t \in 0..MaxParts, Accounts(c, r, t)
        PROVE  Accounts(c, r, t)'
    <3>1. Spoken(c, r, t)' /\ r \in Nat
      BY <1>4, <1>11, <2>3
    <3>2. Follows(turn.queue, Mine, Len(call[c].heard), r) /\ Len(call[c].heard) \in Nat
      BY <1>3, <2>3, LenProperties DEF Accounts
    <3>3. Follows(Append(turn.queue, e), Mine, Len(call[c].heard), r)
      <4>1. turn.queue \in Seq(AgentEvent)
        BY <1>1 DEF Typed
      <4> QED
        BY <1>3, <2>2, <3>2, <4>1, FollowsAppend
    <3>4. Follows(turn'.queue, Mine, Len(call[c].heard), r)
      BY <2>1, <3>2, <3>3
    <3> QED
      BY <1>1, <2>1, <2>3, <3>1, <3>4 DEF Accounts
  <2> QED
    BY <1>3, <1>6, <2>1, <2>3 DEF Account
<1> QED
  BY <1>7, <1>8, <1>9, <1>10, <1>11 DEF line

LEMMA NoticeReplies ==
  ASSUME IInv, TurnInv, RepliesInv, MessagesInv, ReadsNotice
  PROVE  RepliesInv'
<1> DEFINE line == Head(runtime.lines)
<1>1. Shape /\ Typed
  BY DEF IInv, TurnInv
<1>2. /\ TakesLine /\ UNCHANGED <<owner, call>>
      /\ line.kind \in {"started", "delta", "item", "tool", "completed", "failed", "error"}
  BY <1>1, ReadTakesLine DEF ReadsNotice
<1>3. runtime.lines # <<>> /\ line \in AgentLine
      /\ line.kind \in {"started", "delta", "item", "tool", "error"} \cup Ends
  <2>1. line \in AgentLine /\ runtime.lines # <<>>
    BY <1>1, <1>2, LinesLeft DEF TakesLine
  <2> HIDE DEF line
  <2> QED
    BY <1>2, <2>1 DEF Ends
<1>4. ASSUME NEW c \in Calls, Prompting(c) PROVE ReplyInv(c)'
  <2>1. /\ Taken(line) => Started(c) /\ ~turn.idle /\ line.turn = Mine
        /\ ~Taken(line) /\ Started(c) /\ ~turn.idle => line.kind = "delta" /\ line.turn # Mine
    BY <1>3, <1>4, TakenIs
  <2>2. CASE ~Taken(line)
    <3>1. SameEvents /\ turn'.accepting = turn.accepting
      BY <2>2 DEF ReadsNotice, SameEvents
    <3> QED
      BY <1>2, <1>4, <2>1, <2>2, <3>1, PassesReplies
  <2>3. CASE Taken(line)
    <3>1. HasHandler
      BY <1>4 DEF HasHandler, Prompting
    <3>2. \/ line.kind = "started" /\ turn' = turn
          \/ News(turn, turn', {"text", "error"}) /\ turn'.idle = turn.idle
          \/ line.kind \in Ends /\ News(turn, turn', {"done", "error"}) /\ turn'.idle = TRUE
      BY <1>1, <1>3, <2>3, <3>1, NoticeNews
    <3>3. turn'.before = turn.before /\ turn'.accepting = turn.accepting
      BY <3>2 DEF News, Talk
    <3>4. CASE line.kind = "started"
      <4>1. turn' = turn
        BY <2>3, <3>4 DEF ReadsNotice
      <4>2. SameEvents /\ line.kind \notin {"delta", "item"} \cup Ends
        BY <3>4, <4>1 DEF SameEvents, Ends
      <4> QED
        BY <1>2, <1>4, <3>3, <4>2, PassesReplies
    <3>5. CASE line.kind # "started"
      <4>1. \/ line.kind = "delta" /\ turn' = OnText(turn, line.turn, line.part, line.part)
            \/ line.kind = "item" /\ turn' = OnItem(turn, line.turn, line.part)
            \/ line.kind = "tool" /\ turn' = OnTool(turn)
            \/ line.kind = "error" /\ turn' = OnError(turn)
            \/ /\ line.kind \in {"completed", "failed"}
               /\ turn' = OnIdle(IF line.kind = "failed" THEN OnError(turn) ELSE turn)
        BY <2>3, <3>1, <3>5 DEF ReadsNotice, Emits
      <4>2. line.kind \in {"delta", "item"} => ~turn'.idle
        BY <2>1, <2>3, <3>2 DEF Ends
      <4>3. line.kind \in Ends => turn'.idle
        <5>1. CASE line.kind \in Ends
          <6> DEFINE u == IF line.kind = "failed" THEN OnError(turn) ELSE turn
          <6>1. turn' = OnIdle(u)
            BY <4>1, <5>1 DEF Ends
          <6>2. IsTurn(u) /\ u.queue \in Seq(AgentEvent)
            BY <1>1, NewsOfError DEF News, Typed
          <6> HIDE DEF u
          <6> QED
            BY <6>1, <6>2, NewsOfIdle
        <5> QED
          BY <5>1
      <4>4. /\ \/ /\ line.kind = "delta" /\ ~turn'.idle
                  /\ turn' = OnText(turn, line.turn, line.part, line.part)
               \/ line.kind = "item" /\ ~turn'.idle /\ turn' = OnItem(turn, line.turn, line.part)
               \/ line.kind = "tool" /\ turn' = OnTool(turn)
               \/ line.kind = "error" /\ turn' = OnError(turn)
               \/ /\ line.kind \in Ends /\ turn'.idle
                  /\ turn' = OnIdle(IF line.kind = "failed" THEN OnError(turn) ELSE turn)
        <5> HIDE DEF line
        <5> QED
          BY <4>1, <4>2, <4>3 DEF Ends
      <4>5. turn'.seen \subseteq {Mine} /\ Account(c)'
        BY <1>2, <1>4, <2>1, <2>3, <3>3, <4>4, TakenReplies
      <4>6. runtime.made = Mine
        BY <2>1, <2>3 DEF Started, Mine
      <4> QED
        BY <1>1, <1>2, <1>4, <3>3, <4>5, <4>6, ReadReplies
    <3> QED
      BY <3>4, <3>5
  <2> QED
    BY <2>2, <2>3
<1> QED
  BY <1>2, <1>4, OutsideReplies DEF TakesLine

\* The output ends, and fails a turn that takes events.
LEMMA EndReplies ==
  ASSUME IInv, TurnInv, RepliesInv, ReaderEnds
  PROVE  RepliesInv'
<1>1. Shape /\ IsTurn(turn)
  BY DEF IInv, TurnInv, Typed
<1>2. /\ UNCHANGED <<owner, call>> /\ runtime'.made = runtime.made
      /\ runtime'.running = runtime.running /\ runtime'.thread = runtime.thread
      /\ runtime'.requests = <<>>
  <2>1. PICK x : runtime' = [runtime EXCEPT !.alive = x, !.requests = <<>>, !.lines = <<>>]
    BY DEF ReaderEnds
  <2> QED
    BY <1>1, <2>1 DEF Shape, ReaderEnds
<1> DEFINE x == IF turn.sent = "pending" THEN "failed" ELSE turn.sent
           y == IF turn.abort = "pending" THEN "failed" ELSE turn.abort
           v == [turn EXCEPT !.sent = x]
           u == [v EXCEPT !.abort = y]
<1>3. turn' = IF HasHandler THEN OnError(u) ELSE u
  BY DEF ReaderEnds
<1> HIDE DEF x, y
<1>4. IsTurn(v) /\ v.queue = turn.queue /\ v.seen = turn.seen /\ v.before = turn.before
      /\ v.accepting = turn.accepting
  BY ZenonT(60), <1>1, TurnField DEF IsTurn
<1> HIDE DEF v
<1>5. IsTurn(u) /\ u.queue = turn.queue /\ u.seen = turn.seen /\ u.before = turn.before
      /\ u.accepting = turn.accepting
  BY ZenonT(60), <1>4, TurnField DEF IsTurn
<1> HIDE DEF u
<1>6. ASSUME NEW c \in Calls, Prompting(c) PROVE ReplyInv(c)'
  <2>1. HasHandler /\ turn' = OnError(u)
    BY <1>3, <1>6 DEF HasHandler, Prompting
  <2>2. News(u, OnError(u), {"error"}) /\ OnError(u).seen = u.seen
        /\ (u.accepting => OnError(u).failed)
    BY <1>5, NewsOfError, ErrorFields DEF TurnInv, Typed
  <2>3. /\ turn'.before = turn.before /\ turn'.accepting = turn.accepting
        /\ turn'.seen = turn.seen /\ (turn.accepting => turn'.failed)
    BY <1>5, <2>1, <2>2 DEF News, Talk
  <2>4. ReplyInv(c) /\ Mine' = Mine
    BY <1>6, <2>3 DEF RepliesInv, Mine
  <2>5. HeardInv(c)' /\ SeenInv(c)' /\ Account(c)'
    BY <1>2, <2>3, <2>4 DEF ReplyInv, HeardInv, SeenInv, Account
  <2>6. ThreadInv(c)'
    BY <1>2, <2>4 DEF ReplyInv, ThreadInv, NextRequest
  <2> QED
    BY <2>5, <2>6 DEF ReplyInv
<1> QED
  BY <1>2, <1>6, OutsideReplies

-----------------------------------------------------------------------------
(* The process keeps the replies in order.                                 *)

\* The process writes: what is left to show of the reply.
LEMMA WriteReply ==
  ASSUME RepliesInv, NEW q, NEW s, WritesLines(q, s), NEW c \in Calls, Prompting(c),
         ThreadInv(c)', turn.seen # {} => q.made = Mine,
         \A r, t \in 0..MaxParts : Accounts(c, r, t) => \E k \in 0..MaxParts : r <= k /\ Spoken(c, r, k)'
  PROVE  ReplyInv(c)'
<1>1. /\ ReplyInv(c) /\ Mine' = Mine /\ UNCHANGED <<call, owner, turn>> /\ runtime'.made = q.made
  BY DEF RepliesInv, Mine, WritesLines
<1>2. HeardInv(c)' /\ SeenInv(c)'
  BY <1>1 DEF ReplyInv, HeardInv, SeenInv
<1>3. ASSUME turn'.accepting, ~turn'.failed PROVE \E r, t \in 0..MaxParts : Accounts(c, r, t)'
  <2>1. PICK r \in 0..MaxParts, t \in 0..MaxParts : Accounts(c, r, t)
    BY <1>1, <1>3 DEF ReplyInv, Account
  <2>2. PICK k \in 0..MaxParts : r <= k /\ Spoken(c, r, k)'
    BY <2>1
  <2>3. Accounts(c, r, k)'
    BY <1>1, <2>1, <2>2 DEF Accounts
  <2> QED
    BY <2>3
<1>4. Account(c)'
  BY <1>3 DEF Account
<1> QED
  BY <1>2, <1>4 DEF ReplyInv

\* The thread of a turn that runs stays, and no prompt is added.
LEMMA ThreadStays ==
  ASSUME NEW c, ThreadInv(c), call' = call, runtime'.thread = runtime.thread,
         runtime'.running = runtime.running, runtime'.requests \in {runtime.requests, <<>>}
  PROVE  ThreadInv(c)'
<1>1. NextRequest("start")' => NextRequest("start") /\ runtime'.requests = runtime.requests
  BY DEF NextRequest
<1> QED
  BY <1>1 DEF ThreadInv, Applied

\* Lines that do not tell of the reply, or come when it is over.
Others(s, n) ==
  \A i \in 1..Len(s) :
    /\ s[i].kind # "item"
    /\ s[i].kind = "delta" /\ s[i].turn = n => turn.idle \/ Has(runtime.lines, Ends)

LEMMA OtherLines ==
  ASSUME NEW n, NEW a, a.kind \notin {"delta", "item"}
  PROVE  Others(<<a>>, n) /\ \A b : b.kind \notin {"delta", "item"} => Others(<<a, b>>, n)
<1>1. Others(<<a>>, n)
  <2> DEFINE s == <<a>>
  <2>1. Len(s) = 1 /\ s[1] = a
    OBVIOUS
  <2> HIDE DEF s
  <2> QED
    BY <2>1 DEF Others, s
<1>2. ASSUME NEW b, b.kind \notin {"delta", "item"} PROVE Others(<<a, b>>, n)
  <2> DEFINE s == <<a, b>>
  <2>1. Len(s) = 2 /\ s[1] = a /\ s[2] = b
    OBVIOUS
  <2> HIDE DEF s
  <2>2. \A i \in 1..Len(s) : s[i] = a \/ s[i] = b
    BY <2>1
  <2> QED
    BY <1>2, <2>2 DEF Others, s
<1> QED
  BY <1>1, <1>2

LEMMA OthersContinue ==
  ASSUME NEW s \in Seq(AgentLine), s = runtime.lines, NEW u \in Seq(AgentLine), NEW n, Others(u, n),
         ~turn.idle, NEW r \in Nat, NEW t \in Nat, Continues(s, n, r, t)
  PROVE  Continues(s \o u, n, r, t) /\ (Has(s \o u, {"item"}) => Has(s, {"item"}))
<1>1. Continues(s \o u, n, r, t)
  BY ContinuesAppend DEF Others
<1>2. ~Has(u, {"item"})
  BY DEF Others, Has
<1> QED
  BY <1>1, <1>2, JoinKeeps

\* The process writes such lines, and goes on as it was.
LEMMA OthersSpoken ==
  ASSUME Typed, NEW q, NEW u \in Seq(AgentLine), WritesLines(q, u), Others(u, Mine),
         q.made = runtime.made, q.running = runtime.running, q.said = runtime.said,
         q.thread = runtime.thread, NEW c, NEW r \in Nat, NEW t \in Nat, Spoken(c, r, t)
  PROVE  Spoken(c, r, t)'
<1>1. /\ runtime.lines \in Seq(AgentLine) /\ Mine' = Mine /\ turn' = turn /\ call' = call
      /\ runtime'.made = runtime.made /\ runtime'.running = runtime.running
      /\ runtime'.said = runtime.said /\ runtime'.thread = runtime.thread
      /\ runtime'.lines = runtime.lines \o u
  BY DEF Typed, WritesLines, Mine
<1>2. CASE runtime.made = Mine /\ ~turn.idle
  <2>1. /\ Continues(runtime.lines, Mine, r, t)
        /\ runtime.running = 0 => Has(runtime.lines, Ends)
        /\ Has(runtime.lines, {"item"}) => runtime.running = 0
    BY <1>2 DEF Spoken
  <2>2. /\ Continues(runtime.lines \o u, Mine, r, t)
        /\ Has(runtime.lines \o u, {"item"}) => Has(runtime.lines, {"item"})
    BY <1>1, <1>2, <2>1, OthersContinue
  <2>3. Has(runtime.lines, Ends) => Has(runtime.lines \o u, Ends)
    BY <1>1, JoinKeeps
  <2> QED
    BY <1>1, <1>2, <2>1, <2>2, <2>3 DEF Spoken
<1>3. CASE runtime.made # Mine \/ turn.idle
  BY <1>1, <1>3 DEF Spoken
<1> QED
  BY <1>2, <1>3

\* The turn ends, and what was said of its reply is in the thread.
LEMMA OverSpoken ==
  ASSUME NEW c, runtime.made = Mine, runtime.running # 0, runtime.thread = call[c].context,
         ~turn.idle, NEW q, NEW s, WritesLines(q, s), q.made = runtime.made, q.running = 0,
         NEW r, NEW t, q.thread = Said(runtime.thread, t),
         Continues(runtime.lines \o s, Mine, r, t), Has(runtime.lines \o s, Ends)
  PROVE  Spoken(c, r, t)'
<1>1. /\ Mine' = Mine /\ turn' = turn /\ call' = call /\ runtime'.made = runtime.made
      /\ runtime'.running = 0 /\ runtime'.thread = Said(call[c].context, t)
      /\ runtime'.lines = runtime.lines \o s
  BY DEF WritesLines, Mine
<1> QED
  BY <1>1 DEF Spoken

\* A step that only adds such lines, and perhaps takes the request.
LEMMA OthersReplies ==
  ASSUME TurnInv, RepliesInv, NEW q, NEW u \in Seq(AgentLine), WritesLines(q, u),
         \A c \in Calls : Prompting(c) => Others(u, Mine),
         q.made = runtime.made, q.running = runtime.running, q.said = runtime.said,
         q.thread = runtime.thread, q.requests \in {runtime.requests, <<>>}
  PROVE  RepliesInv'
<1>1. ASSUME NEW c \in Calls, Prompting(c) PROVE ReplyInv(c)'
  <2>1. ReplyInv(c) /\ Typed /\ Others(u, Mine)
    BY <1>1 DEF RepliesInv, TurnInv
  <2>2. ThreadInv(c)'
    BY <2>1, ThreadStays DEF ReplyInv, WritesLines
  <2>3. turn.seen # {} => q.made = Mine
    BY <2>1 DEF ReplyInv, SeenInv
  <2>4. ASSUME NEW r \in 0..MaxParts, NEW t \in 0..MaxParts, Accounts(c, r, t)
        PROVE  \E k \in 0..MaxParts : r <= k /\ Spoken(c, r, k)'
    <3>1. r \in Nat /\ t \in Nat /\ r <= t /\ Spoken(c, r, t)
      BY <2>4 DEF Accounts
    <3>2. Spoken(c, r, t)'
      BY <2>1, <3>1, OthersSpoken
    <3> QED
      BY <3>1, <3>2
  <2> QED
    BY <1>1, <2>2, <2>3, <2>4, WriteReply
<1> QED
  BY <1>1, OutsideReplies DEF WritesLines

LEMMA RejectsReplies ==
  ASSUME IInv, TurnInv, RepliesInv, RuntimeRejects
  PROVE  RepliesInv'
<1> DEFINE a == Line0("reject", 0, 0)
<1>1. Shape /\ HasHandler /\ NextRequest("start")
  BY RequestIs DEF IInv, RuntimeRejects
<1>2. a \in AgentLine /\ a.kind = "reject" /\ <<a>> \in Seq(AgentLine)
  <2>1. a \in AgentLine /\ a.kind = "reject"
    BY LineTypes, ConstantsOK
  <2> QED
    BY <2>1, OneLine
<1>3. WritesLines(Handled, <<a>>)
  BY <1>1, HandledFields, WriteFields DEF RuntimeRejects
<1> HIDE DEF a
<1>4. Others(<<a>>, Mine)
  BY <1>2, OtherLines
<1>5. Tail(runtime.requests) = <<>>
  BY <1>1, RequestIs DEF HasHandler, Prompting
<1> QED
  BY <1>1, <1>2, <1>3, <1>4, <1>5, HandledFields, OthersReplies

LEMMA LateReplies ==
  ASSUME IInv, TurnInv, RepliesInv, RuntimeIsLate
  PROVE  RepliesInv'
<1>1. Shape /\ IsProcess(runtime, runtime.alive) /\ Typed
  BY HandledFields DEF IInv, TurnInv
<1>2. PICK n \in 1..runtime.made :
        n # runtime.running /\ Writes(runtime, <<Line0("delta", n, 1)>>)
  BY DEF RuntimeIsLate
<1> DEFINE a == Line0("delta", n, 1)
<1>3. a \in AgentLine /\ a.kind = "delta" /\ a.turn = n
  <2>1. n \in Nat /\ 1 \in 0..MaxParts
    BY <1>1, ConstantsOK DEF Typed
  <2> QED
    BY <2>1, LineTypes
<1>4. WritesLines(runtime, <<a>>)
  BY <1>1, <1>2, WriteFields
<1> HIDE DEF a
<1>5. <<a>> \in Seq(AgentLine)
  BY <1>3, OneLine
<1>6. ASSUME NEW c \in Calls, Prompting(c), \E r, t \in 0..MaxParts : Accounts(c, r, t)
      PROVE  Others(<<a>>, Mine)
  <2>1. PICK r \in 0..MaxParts, t \in 0..MaxParts : Accounts(c, r, t)
    BY <1>6
  <2>2. n = Mine => turn.idle \/ Has(runtime.lines, Ends)
    <3>1. Asked(c) => n # Mine
      BY <1>1, <1>2 DEF Asked, Mine, Typed
    <3>2. Started(c) /\ n = Mine => runtime.made = Mine /\ runtime.running = 0
      BY <1>1, <1>2 DEF Started, Mine, Typed
    <3>3. runtime.made = Mine /\ runtime.running = 0 => turn.idle \/ Has(runtime.lines, Ends)
      BY <2>1 DEF Accounts, Spoken
    <3> QED
      BY <1>6, <3>1, <3>2, <3>3 DEF TurnInv
  <2> DEFINE s == <<a>>
  <2>3. Len(s) = 1 /\ s[1] = a
    OBVIOUS
  <2> HIDE DEF s
  <2> QED
    BY <1>3, <2>2, <2>3 DEF Others, s
<1>7. ASSUME NEW c \in Calls, Prompting(c) PROVE ReplyInv(c)'
  <2>1. ReplyInv(c)
    BY <1>7 DEF RepliesInv
  <2>2. ThreadInv(c)'
    BY <1>4, <2>1, ThreadStays DEF ReplyInv, WritesLines
  <2>3. turn.seen # {} => runtime.made = Mine
    BY <2>1 DEF ReplyInv, SeenInv
  <2>4. ASSUME NEW r \in 0..MaxParts, NEW t \in 0..MaxParts, Accounts(c, r, t)
        PROVE  \E k \in 0..MaxParts : r <= k /\ Spoken(c, r, k)'
    <3>1. r \in Nat /\ t \in Nat /\ r <= t /\ Spoken(c, r, t)
      BY <2>4 DEF Accounts
    <3>2. Others(<<a>>, Mine)
      BY <1>6, <1>7, <2>4
    <3>3. Spoken(c, r, t)'
      BY <1>1, <1>4, <1>5, <3>1, <3>2, OthersSpoken
    <3> QED
      BY <3>1, <3>3
  <2> QED
    BY <1>4, <1>7, <2>2, <2>3, <2>4, WriteReply
<1> QED
  BY <1>4, <1>7, OutsideReplies DEF WritesLines

\* What a turn that runs says of its reply.
LEMMA RunningReply ==
  ASSUME TurnInv, RepliesInv, runtime.running # 0, NEW c \in Calls, Prompting(c)
  PROVE  /\ runtime.made = Mine /\ runtime.thread = call[c].context /\ ~NextRequest("start")
         /\ \A r, t \in 0..MaxParts : Accounts(c, r, t) =>
              /\ r \in Nat /\ t \in Nat /\ r <= t /\ t = runtime.said
              /\ Continues(runtime.lines, Mine, r, t) /\ ~Has(runtime.lines, {"item"})
<1>1. Started(c) /\ Typed /\ ~turn.idle
  BY RunningTurn
<1>2. runtime.made = Mine
  BY <1>1 DEF Started, Mine
<1>3. runtime.thread = call[c].context
  BY DEF RepliesInv, ReplyInv, ThreadInv
<1>4. ~NextRequest("start")
  <2>1. \/ runtime.requests = <<>>
        \/ runtime.requests = <<runtime.requests[1]>> /\ runtime.requests[1].kind = "interrupt"
    BY <1>1 DEF Started, RequestsInv
  <2>2. ASSUME NEW s, s = <<s[1]>> PROVE Head(s) = s[1]
    BY <2>2
  <2> QED
    BY <2>1, <2>2 DEF NextRequest
<1>5. ASSUME NEW r \in 0..MaxParts, NEW t \in 0..MaxParts, Accounts(c, r, t)
      PROVE  /\ r \in Nat /\ t \in Nat /\ r <= t /\ t = runtime.said
             /\ Continues(runtime.lines, Mine, r, t) /\ ~Has(runtime.lines, {"item"})
  <2>1. r <= t /\ Spoken(c, r, t)
    BY <1>5 DEF Accounts
  <2>2. r \in Nat /\ t \in Nat
    OBVIOUS
  <2>3. t = runtime.said
    BY <1>2, <2>1 DEF Spoken
  <2>4. Continues(runtime.lines, Mine, r, t) /\ ~Has(runtime.lines, {"item"})
    BY <1>1, <1>2, <2>1 DEF Spoken
  <2> QED
    BY <2>1, <2>2, <2>3, <2>4
<1> QED
  BY <1>2, <1>3, <1>4, <1>5

\* The turn that runs ends without a word.
LEMMA OverReplies ==
  ASSUME TurnInv, RepliesInv, runtime.running # 0, NEW q, NEW u \in Seq(AgentLine),
         WritesLines(q, u), Others(u, Mine), Has(u, Ends), q.made = runtime.made, q.running = 0,
         q.thread = Said(runtime.thread, runtime.said), q.requests \in {runtime.requests, <<>>}
  PROVE  RepliesInv'
<1>1. HasHandler /\ Typed /\ ~turn.idle /\ runtime.lines \in Seq(AgentLine)
  BY RunningTurn DEF Typed
<1>2. ASSUME NEW c \in Calls, Prompting(c) PROVE ReplyInv(c)'
  <2>1. runtime.made = Mine /\ runtime.thread = call[c].context /\ ~NextRequest("start")
    BY <1>2, RunningReply
  <2>2. ThreadInv(c)'
    BY <2>1 DEF ThreadInv, NextRequest, WritesLines
  <2>3. ASSUME NEW r \in 0..MaxParts, NEW t \in 0..MaxParts, Accounts(c, r, t)
        PROVE  \E k \in 0..MaxParts : r <= k /\ Spoken(c, r, k)'
    <3>1. /\ r \in Nat /\ t \in Nat /\ r <= t /\ t = runtime.said
          /\ Continues(runtime.lines, Mine, r, t)
      BY <1>2, <2>3, RunningReply
    <3>2. Continues(runtime.lines \o u, Mine, r, t)
      BY <1>1, <3>1, OthersContinue
    <3>3. Has(runtime.lines \o u, Ends)
      BY <1>1, JoinKeeps
    <3>4. Spoken(c, r, t)'
      BY <1>1, <2>1, <3>1, <3>2, <3>3, OverSpoken
    <3> QED
      BY <3>1, <3>4
  <2> QED
    BY <1>2, <2>1, <2>2, <2>3, WriteReply
<1> QED
  BY <1>1, <1>2, OutsideReplies DEF WritesLines

LEMMA FailsReplies ==
  ASSUME IInv, TurnInv, RepliesInv, RuntimeFails \/ RuntimeUsesTool
  PROVE  RepliesInv'
<1> DEFINE n == runtime.running
           r == Over(runtime, runtime.said)
<1>1. Shape /\ runtime.running # 0 /\ IsProcess(runtime, runtime.alive)
  BY HandledFields DEF IInv, RuntimeFails, RuntimeUsesTool
<1>2. n = runtime.made /\ n \in Nat \ {0} /\ 0 \in 0..MaxParts
  BY <1>1, RunningTurn, ConstantsOK DEF Typed
<1>3. \/ Writes(r, <<Line0("failed", n, 0)>>)
      \/ Writes(runtime, <<Line0("error", n, 0)>>)
      \/ Writes(runtime, <<Line0("tool", n, 0)>>)
  BY DEF RuntimeFails, RuntimeUsesTool
<1>4. ASSUME NEW kind \in {"error", "tool", "failed"}
      PROVE  /\ <<Line0(kind, n, 0)>> \in Seq(AgentLine) /\ Others(<<Line0(kind, n, 0)>>, Mine)
             /\ kind = "failed" => Has(<<Line0(kind, n, 0)>>, Ends)
  <2> DEFINE a == Line0(kind, n, 0)
  <2>1. a \in AgentLine /\ a.kind = kind
    BY <1>2, <1>4, LineTypes DEF Ends
  <2> HIDE DEF a
  <2> QED
    BY <1>4, <2>1, OneLine, OtherLines DEF a, Ends
<1>5. CASE Writes(r, <<Line0("failed", n, 0)>>)
  <2>1. /\ IsProcess(r, runtime.alive) /\ r.made = runtime.made /\ r.running = 0
        /\ r.requests = runtime.requests /\ r.thread = Said(runtime.thread, runtime.said)
    BY <1>1, OverFields DEF Said
  <2> HIDE DEF r
  <2>2. WritesLines(r, <<Line0("failed", n, 0)>>)
    BY <1>5, <2>1, WriteFields
  <2> QED
    BY <1>1, <1>4, <2>1, <2>2, OverReplies
<1>6. ASSUME NEW kind \in {"error", "tool"}, Writes(runtime, <<Line0(kind, n, 0)>>)
      PROVE  RepliesInv'
  <2>1. WritesLines(runtime, <<Line0(kind, n, 0)>>)
    BY <1>1, <1>6, WriteFields
  <2> QED
    BY <1>4, <1>6, <2>1, OthersReplies
<1> QED
  BY <1>3, <1>5, <1>6

LEMMA StoppedReplies ==
  ASSUME IInv, TurnInv, RepliesInv, RuntimeInterrupts
  PROVE  RepliesInv'
<1> DEFINE n == Head(runtime.requests).turn
           r == Over(Handled, runtime.said)
           a == Line0("stopped", n, 0)
           b == Line0("completed", n, 0)
<1>1. Shape /\ Typed /\ NextRequest("interrupt") /\ HasHandler /\ 0 \in 0..MaxParts
  BY RequestIs, ConstantsOK DEF IInv, TurnInv, RuntimeInterrupts
<1>2. PICK c \in Calls : Prompting(c)
  BY <1>1 DEF HasHandler, Prompting
<1>3. n = runtime.made /\ n \in Nat \ {0} /\ Tail(runtime.requests) = <<>>
  BY <1>1, <1>2, RequestIs DEF Started, Typed
<1>4. ASSUME NEW kind \in {"stopped", "unstopped", "completed"}
      PROVE  Line0(kind, n, 0) \in AgentLine /\ Line0(kind, n, 0).kind = kind
  BY <1>1, <1>3, <1>4, LineTypes DEF Ends, Confirms
<1>5. CASE runtime.running = n /\ Writes(r, <<a, b>>)
  <2>1. /\ a \in AgentLine /\ b \in AgentLine /\ a.kind = "stopped" /\ b.kind = "completed"
    BY <1>4
  <2>2. /\ IsProcess(r, runtime.alive) /\ r.made = runtime.made /\ r.running = 0
        /\ r.requests = <<>> /\ r.thread = Said(runtime.thread, runtime.said)
    <3>1. /\ IsProcess(Handled, runtime.alive) /\ Handled.made = runtime.made
          /\ Handled.requests = <<>> /\ Handled.thread = runtime.thread
      BY <1>1, <1>3, HandledFields
    <3>2. /\ IsProcess(r, runtime.alive) /\ r.made = Handled.made /\ r.running = 0
          /\ r.requests = Handled.requests
          /\ r.thread = IF runtime.said = 0 THEN Handled.thread ELSE Append(Handled.thread, runtime.said)
      BY <3>1, OverFields
    <3> HIDE DEF r
    <3> QED
      BY <3>1, <3>2 DEF Said
  <2> HIDE DEF r
  <2>3. WritesLines(r, <<a, b>>)
    BY <1>5, <2>2, WriteFields
  <2> HIDE DEF a, b
  <2>4. <<a, b>> \in Seq(AgentLine) /\ Others(<<a, b>>, Mine) /\ Has(<<a, b>>, Ends)
    BY <2>1, TwoLines, OtherLines DEF Ends
  <2> QED
    BY <1>3, <1>5, <2>2, <2>3, <2>4, OverReplies
<1>6. ASSUME NEW kind \in {"stopped", "unstopped"}, Writes(Handled, <<Line0(kind, n, 0)>>)
      PROVE  RepliesInv'
  <2> DEFINE x == Line0(kind, n, 0)
  <2>1. x \in AgentLine /\ x.kind = kind
    BY <1>4
  <2>2. WritesLines(Handled, <<x>>)
    BY <1>1, <1>6, HandledFields, WriteFields
  <2> HIDE DEF x
  <2>3. <<x>> \in Seq(AgentLine) /\ Others(<<x>>, Mine)
    BY <1>6, <2>1, OneLine, OtherLines
  <2> QED
    BY <1>1, <1>3, <2>2, <2>3, HandledFields, OthersReplies
<1> QED
  BY <1>5, <1>6 DEF RuntimeInterrupts

LEMMA SpeaksReplies ==
  ASSUME IInv, TurnInv, RepliesInv, RuntimeSpeaks
  PROVE  RepliesInv'
<1>0. Shape /\ runtime.running # 0
  BY DEF IInv, RuntimeSpeaks
<1>2. /\ HasHandler /\ Typed /\ runtime.running \in Nat /\ ~turn.idle /\ ~Has(runtime.lines, Ends)
      /\ runtime.lines \in Seq(AgentLine) /\ runtime.running = runtime.made
  BY <1>0, RunningTurn DEF Typed
<1>3. runtime.said + 1 \in 0..MaxParts /\ runtime.said \in Nat
  <2>1. runtime.said \in Nat /\ MaxParts \in Nat /\ MaxDeltas \in 0..MaxParts
    BY <1>2, ConstantsOK DEF Typed
  <2>2. runtime.said < MaxDeltas
    BY DEF RuntimeSpeaks
  <2> QED
    BY <2>1, <2>2
<1>k. PICK k \in 0..MaxParts : k = runtime.said + 1
  BY <1>3
<1> DEFINE q == [runtime EXCEPT !.said = k]
           a == Line0("delta", runtime.running, k)
<1>1. Shape /\ runtime.running # 0 /\ Writes(q, <<a>>)
  BY <1>0, <1>k DEF RuntimeSpeaks
<1>4. a \in AgentLine /\ a.kind = "delta" /\ a.turn = runtime.running /\ a.part = k
  BY <1>2, <1>k, LineTypes
<1>5. /\ IsProcess(q, runtime.alive) /\ q.said = k /\ q.made = runtime.made
      /\ q.running = runtime.running /\ q.thread = runtime.thread /\ q.requests = runtime.requests
  BY <1>1, ProcessStays DEF Shape
<1> HIDE DEF q
<1>6. WritesLines(q, <<a>>)
  BY <1>1, <1>5, WriteFields
<1> HIDE DEF a
<1>7. ASSUME NEW c \in Calls, Prompting(c) PROVE ReplyInv(c)'
  <2>1. runtime.made = Mine /\ runtime.thread = call[c].context /\ Mine' = Mine
    BY <1>1, <1>6, <1>7, RunningReply DEF Mine, WritesLines
  <2>2. ThreadInv(c)'
    BY <1>5, <1>6, <1>7, ThreadStays DEF RepliesInv, ReplyInv, WritesLines
  <2>3. ASSUME NEW r \in 0..MaxParts, NEW t \in 0..MaxParts, Accounts(c, r, t)
        PROVE  \E m \in 0..MaxParts : r <= m /\ Spoken(c, r, m)'
    <3>1. /\ r \in Nat /\ t \in Nat /\ r <= t /\ t = runtime.said
          /\ Continues(runtime.lines, Mine, r, t) /\ ~Has(runtime.lines, {"item"})
      BY <1>1, <1>7, <2>3, RunningReply
    <3>2. a.turn = Mine /\ a.part = t + 1 /\ k = t + 1 /\ r <= k
      BY <1>2, <1>3, <1>k, <1>4, <2>1, <3>1
    <3>3. Continues(runtime.lines \o <<a>>, Mine, r, k)
      BY <1>2, <1>4, <3>1, <3>2, ContinuesDelta
    <3>4. ~Has(runtime.lines \o <<a>>, {"item"})
      BY <1>2, <1>4, <3>1, OneLine, JoinKeeps
    <3>5. /\ runtime'.made = Mine' /\ runtime'.running # 0 /\ runtime'.said = k
          /\ runtime'.lines = runtime.lines \o <<a>>
      BY <1>1, <1>5, <1>6, <2>1 DEF WritesLines
    <3>6. Spoken(c, r, k)'
      BY <1>2, <1>6, <2>1, <3>3, <3>4, <3>5 DEF Spoken, WritesLines
    <3> QED
      BY <3>2, <3>6
  <2> QED
    BY <1>5, <1>6, <1>7, <2>1, <2>2, <2>3, WriteReply
<1> QED
  BY <1>2, <1>6, <1>7, OutsideReplies DEF WritesLines

LEMMA CompletesReplies ==
  ASSUME IInv, TurnInv, RepliesInv, RuntimeCompletes
  PROVE  RepliesInv'
<1>1. Shape /\ runtime.running # 0 /\ IsProcess(runtime, runtime.alive)
  BY HandledFields DEF IInv, RuntimeCompletes
<1>2. /\ HasHandler /\ Typed /\ ~turn.idle /\ ~Has(runtime.lines, Ends)
      /\ runtime.lines \in Seq(AgentLine) /\ runtime.running = runtime.made
      /\ runtime.running \in Nat \ {0} /\ 0 \in 0..MaxParts /\ runtime.said \in 0..MaxParts
  BY <1>1, RunningTurn, ConstantsOK DEF Typed
<1>3. PICK said \in 0..MaxParts :
        /\ runtime.said = 0 \/ said = runtime.said
        /\ Writes(Over(runtime, said),
                  (IF said = 0 THEN <<>> ELSE <<Line0("item", runtime.running, said)>>)
                    \o <<Line0("completed", runtime.running, 0)>>)
  BY <1>2 DEF RuntimeCompletes
<1> DEFINE q == Over(runtime, said)
           x == Line0("item", runtime.running, said)
           y == Line0("completed", runtime.running, 0)
           s == (IF said = 0 THEN <<>> ELSE <<x>>) \o <<y>>
<1>4. /\ y \in AgentLine /\ y.kind = "completed" /\ x \in AgentLine /\ x.kind = "item"
      /\ x.part = said
  BY <1>2, LineTypes DEF Ends
<1>5. /\ IsProcess(q, runtime.alive) /\ q.made = runtime.made /\ q.running = 0
      /\ q.requests = runtime.requests /\ q.thread = Said(runtime.thread, said)
  BY <1>1, OverFields DEF Said
<1>6. Writes(q, s)
  BY <1>3
<1> HIDE DEF q, x, y
<1>7. WritesLines(q, s)
  BY <1>5, <1>6, WriteFields
<1>8. <<y>> \in Seq(AgentLine) /\ <<x>> \in Seq(AgentLine) /\ Others(<<y>>, Mine) /\ Has(<<y>>, Ends)
  BY <1>4, OneLine, OtherLines DEF Ends
<1>9. CASE said = 0
  <2>1. s = <<y>> /\ runtime.said = 0
    BY <1>3, <1>9
  <2>2. WritesLines(q, <<y>>)
    BY <1>7, <2>1
  <2> HIDE DEF s
  <2>3. q.thread = Said(runtime.thread, runtime.said)
    BY <1>5, <1>9, <2>1
  <2> QED
    BY <1>1, <1>5, <1>8, <2>2, <2>3, OverReplies
<1>10. CASE said # 0
  <2>1. s = <<x>> \o <<y>>
    BY <1>10
  <2> HIDE DEF s
  <2>2. runtime.lines \o s = (runtime.lines \o <<x>>) \o <<y>>
    BY <1>2, <1>8, <2>1, ConcatAssociative
  <2>3. ASSUME NEW c \in Calls, Prompting(c) PROVE ReplyInv(c)'
    <3>1. runtime.made = Mine /\ runtime.thread = call[c].context /\ ~NextRequest("start")
      BY <1>1, <2>3, RunningReply
    <3>2. ThreadInv(c)'
      BY <1>5, <1>7, <3>1 DEF ThreadInv, NextRequest, WritesLines
    <3>3. ASSUME NEW r \in 0..MaxParts, NEW t \in 0..MaxParts, Accounts(c, r, t)
          PROVE  \E k \in 0..MaxParts : r <= k /\ Spoken(c, r, k)'
      <4>1. /\ r \in Nat /\ t \in Nat /\ r <= t /\ t = runtime.said
            /\ Continues(runtime.lines, Mine, r, t) /\ ~Has(runtime.lines, {"item"})
        BY <1>1, <2>3, <3>3, RunningReply
      <4>2. /\ said > 0 /\ r <= said /\ said \in Nat
            /\ said = t \/ t = 0
        <5>1. said \in Nat
          OBVIOUS
        <5> QED
          BY <1>3, <1>10, <4>1, <5>1
      <4>3. Continues(runtime.lines \o <<x>>, Mine, r, said)
        BY <1>2, <1>4, <4>1, <4>2, ContinuesItem
      <4>4. runtime.lines \o <<x>> \in Seq(AgentLine)
        BY <1>2, <1>8, JoinOfLines
      <4>5. \A i \in 1..Len(<<y>>) : <<y>>[i].kind # "item" /\ <<y>>[i].kind # "delta"
        <5> DEFINE u == <<y>>
        <5>1. Len(u) = 1 /\ u[1] = y
          OBVIOUS
        <5> HIDE DEF u
        <5>2. \A i \in 1..Len(u) : u[i].kind # "item" /\ u[i].kind # "delta"
          BY <1>4, <5>1
        <5> QED
          BY <5>2 DEF u
      <4>6. Continues((runtime.lines \o <<x>>) \o <<y>>, Mine, r, said)
        BY <1>8, <4>1, <4>2, <4>3, <4>4, <4>5, ContinuesAppend
      <4>7. Continues(runtime.lines \o s, Mine, r, said) /\ Has(runtime.lines \o s, Ends)
        BY <1>8, <2>2, <4>4, <4>6, JoinKeeps
      <4>8. Spoken(c, r, said)'
        BY <1>1, <1>2, <1>5, <1>7, <3>1, <4>7, OverSpoken
      <4> QED
        BY <4>2, <4>8
    <3> QED
      BY <1>5, <1>7, <2>3, <3>1, <3>2, <3>3, WriteReply
  <2> QED
    BY <1>2, <1>7, <2>3, OutsideReplies DEF WritesLines
<1> QED
  BY <1>9, <1>10

\* The process takes the prompt: nothing has come of the turn that it starts.
LEMMA StartsReplies ==
  ASSUME IInv, TurnInv, RepliesInv, RuntimeStarts
  PROVE  RepliesInv'
<1> DEFINE request == Head(runtime.requests)
           n == runtime.made + 1
           thread == Applied(request)
           q == Begins(Handled, n, thread)
           a == Line0("answer", n, 0)
           b == Line0("started", n, 0)
<1>1. /\ Shape /\ Typed /\ NextRequest("start") /\ HasHandler /\ n \in Nat \ {0}
      /\ runtime.lines \in Seq(AgentLine) /\ 0 \in 0..MaxParts
  BY SMTT(30), RequestIs, ConstantsOK DEF IInv, TurnInv, RuntimeStarts, Typed
<1>2. Handled.thread = runtime.thread
  BY <1>1, HandledFields
<1>3. PICK s \in {<<a, b>>, Reverse(<<a, b>>)} : Writes(q, s)
  BY <1>2 DEF RuntimeStarts, Begins, Applied
<1>4. s \in Seq(AgentLine) /\ ~Has(s, Ends)
  BY <1>1, <1>3, StartLines
<1>5. \A i \in 1..Len(s) : s[i].kind \in {"answer", "started"}
  <2>1. a.kind = "answer" /\ b.kind = "started"
    BY <1>1, LineTypes
  <2> HIDE DEF a, b
  <2>2. s = <<a, b>> \/ s = <<b, a>>
    BY <1>3 DEF Reverse
  <2>3. Len(s) = 2 /\ \A i \in 1..2 : s[i] = a \/ s[i] = b
    BY <2>2
  <2> QED
    BY <2>1, <2>3
<1> HIDE DEF thread
<1>6. /\ IsProcess(q, runtime.alive) /\ q.made = n /\ q.running = n /\ q.said = 0
      /\ q.requests = Tail(runtime.requests) /\ q.thread = thread
  <2>1. IsProcess(Handled, runtime.alive) /\ Handled.requests = Tail(runtime.requests)
    BY <1>1, HandledFields
  <2> HIDE DEF n
  <2> QED
    BY <2>1, StartedFields
<1> HIDE DEF q
<1>7. WritesLines(q, s)
  BY <1>3, <1>6, WriteFields
<1>8. ASSUME NEW c \in Calls, Prompting(c) PROVE ReplyInv(c)'
  <2>1. Asked(c) /\ Tail(runtime.requests) = <<>> /\ ReplyInv(c)
    BY <1>1, <1>8, RequestIs DEF RepliesInv
  <2>2. /\ n = Mine /\ runtime.made # Mine /\ Mine' = Mine /\ ~turn.idle /\ Mine \in Nat
        /\ turn.before \in Nat /\ Mine = turn.before + 1
    BY <1>1, <1>7, <2>1 DEF Asked, Mine, Typed, WritesLines
  <2>3. thread = call[c].context
    BY <1>1, <2>1 DEF ReplyInv, ThreadInv, thread
  <2>4. ThreadInv(c)'
    BY <1>6, <1>7, <2>1, <2>3 DEF ThreadInv, NextRequest, WritesLines
  <2>5. \A i \in 1..Len(runtime.lines) :
          /\ runtime.lines[i].kind # "item"
          /\ runtime.lines[i].kind = "delta" => runtime.lines[i].turn # Mine
    BY <2>1, <2>2 DEF Asked, AskedLines
  <2>6. Continues(runtime.lines \o s, Mine, 0, 0) /\ ~Has(runtime.lines \o s, {"item"})
    <3>1. Continues(runtime.lines, Mine, 0, 0)
      BY <1>1, <2>5, ContinuesNone
    <3>2. Continues(runtime.lines \o s, Mine, 0, 0)
      BY <1>1, <1>4, <1>5, <3>1, ContinuesAppend
    <3>3. ~Has(runtime.lines, {"item"}) /\ ~Has(s, {"item"})
      BY <1>5, <2>5 DEF Has
    <3> QED
      BY <1>1, <1>4, <3>2, <3>3, JoinKeeps
  <2>7. ASSUME NEW r \in 0..MaxParts, NEW t \in 0..MaxParts, Accounts(c, r, t)
        PROVE  \E k \in 0..MaxParts : r <= k /\ Spoken(c, r, k)'
    <3>1. r = 0
      BY <2>2, <2>7 DEF Accounts, Spoken
    <3>2. Spoken(c, r, 0)'
      BY <1>1, <1>6, <1>7, <2>2, <2>6, <3>1 DEF Spoken, WritesLines
    <3> QED
      BY <1>1, <3>1, <3>2
  <2> QED
    BY <1>6, <1>7, <1>8, <2>2, <2>4, <2>7, WriteReply
<1> QED
  BY <1>1, <1>7, <1>8, OutsideReplies DEF WritesLines

-----------------------------------------------------------------------------
(* Every step keeps the messages and the replies.                          *)

LEMMA ClientHistory ==
  ASSUME Shape
  PROVE  \A x : owner' = [owner EXCEPT !.client = x] => owner'.history = owner.history
BY DEF Shape

\* A call moves, and the adapter keeps its history.
LEMMA MovesSays ==
  ASSUME Shape, NEW c \in Calls, NEW at, Moves(c, at), voice' = voice
  PROVE  /\ owner'.history = owner.history => SameMessages
         /\ owner' = owner => SameMessages
         /\ \A x : owner' = [owner EXCEPT !.snapshot = x] => SameMessages
         /\ Drops(owner) => SameMessages
<1>1. \A d \in Calls : call'[d].context = call[d].context /\ call'[d].heard = call[d].heard
  BY MoveSays
<1>2. owner'.history = owner.history => SameMessages
  BY <1>1 DEF SameMessages
<1>3. Drops(owner) => owner'.history = owner.history
  BY OwnerIsOwner, DropHistory
<1> QED
  BY <1>2, <1>3, HistoryStays

LEMMA CancelledSays ==
  ASSUME IInv, NEW c \in Calls, Cancelled(c), voice' = voice
  PROVE  SameMessages
<1>1. Shape
  BY DEF IInv
<1>2. ASSUME NEW at, Moves(c, at), owner' = owner PROVE SameMessages
  BY <1>1, <1>2, MovesSays
<1>3. Stops(c, owner) => SameMessages
  BY <1>1, MovesSays DEF Stops
<1>4. Settles(c) => SameMessages
  BY <1>1, MovesSays DEF Settles
<1>5. Poisons(c) => SameMessages
  BY <1>1, PoisonsSays
<1> QED
  BY <1>2, <1>3, <1>4, <1>5 DEF Cancelled, Leaves

LEMMA PreflightSays ==
  ASSUME IInv, NEW c \in Calls, Preflight(c)
  PROVE  SameMessages
<1>1. Shape /\ voice' = voice
  BY DEF IInv, Preflight, Returns, FindsNoBinary, StartsRuntime, Relaunches, Attests, Lists,
         OpensThread, PreflightFails
<1>2. ASSUME NEW at, Moves(c, at), owner' = owner PROVE SameMessages
  BY <1>1, <1>2, MovesSays
<1>3. Stops(c, owner) => SameMessages
  BY <1>1, MovesSays DEF Stops
<1>4. ASSUME NEW at, Moves(c, at), owner'.history = owner.history PROVE SameMessages
  BY <1>1, <1>4, MovesSays
<1>5. call' = call /\ owner'.history = owner.history => SameMessages
  BY <1>1 DEF SameMessages
<1>6. StartsRuntime(c) => SameMessages
  BY <1>1, <1>4, HistoryStays DEF StartsRuntime
<1>7. Lists(c) => SameMessages
  BY <1>1, <1>3, <1>5, HistoryStays DEF Lists
<1>8. OpensThread(c) => SameMessages
  BY <1>1, <1>4, HistoryStays DEF OpensThread, Leaves
<1> QED
  BY <1>2, <1>3, <1>5, <1>6, <1>7, <1>8
     DEF Preflight, Returns, FindsNoBinary, Relaunches, Attests, PreflightFails, Leaves

LEMMA StopSays ==
  ASSUME IInv, NEW x \in Calls \cup {Closer}, StopStep(x)
  PROVE  SameMessages
<1>1. Shape /\ voice' = voice
  BY DEF IInv, StopStep, Stopped, StopFails
<1>2. owner'.history = owner.history
  BY <1>1, HistoryStays DEF StopStep, Stopped, StopFails
<1>3. \/ call' = call
      \/ x \in Calls /\ Moves(x, "ended")
  BY DEF StopStep, Stopped, StopFails, StopReturns
<1>4. CASE call' = call
  BY <1>1, <1>2, <1>4 DEF SameMessages
<1>5. CASE x \in Calls /\ Moves(x, "ended")
  BY <1>1, <1>2, <1>5, MovesSays
<1> QED
  BY <1>3, <1>4, <1>5

LEMMA CloseSays ==
  ASSUME IInv, CloseBegins \/ CloseAwaited \/ CloseQueues \/ CloseStops
  PROVE  SameMessages
<1>1. Shape /\ voice' = voice /\ call' = call
  BY DEF IInv, CloseBegins, CloseAwaited, CloseQueues, CloseStops
<1>2. owner'.history = owner.history
  <2>1. CloseStops => owner'.history = owner.history
    BY <1>1, OwnerIsOwner, DropHistory DEF CloseStops
  <2>2. CloseBegins => owner'.history = owner.history
    BY <1>1, HistoryStays DEF CloseBegins
  <2> QED
    BY <2>1, <2>2 DEF CloseAwaited, CloseQueues
<1> QED
  BY <1>1, <1>2 DEF SameMessages

\* The reply that is whole joins the history.
LEMMA DoneSays ==
  ASSUME IInv, MessagesInv, NEW c \in Calls, ReadsDone(c)
  PROVE  MessagesInv'
<1>1. Shape /\ voice' = voice
  BY DEF IInv, ReadsDone
<1>2. PICK o : /\ IsOwner(o, owner.uncertain) /\ TurnOver(c, o)
               /\ \/ o.history = owner.history
                  \/ o.history = Append(call[c].context, Len(call[c].heard))
  BY <1>1, DoneOwner
<1>3. /\ owner'.history = o.history
      /\ \A d \in Calls : call'[d].context = call[d].context /\ call'[d].heard = call[d].heard
  BY <1>1, <1>2, TurnOverSays
<1>4. o.history \in Messages
  <2>1. call[c].context \in Seq(0..MaxParts) /\ owner.history \in Messages
        /\ call[c].heard \in Seq(Nat \X Nat) /\ Len(call[c].heard) <= MaxParts
    BY DEF MessagesInv, Messages
  <2>2. Len(call[c].heard) \in 0..MaxParts
    BY <2>1, LenProperties, ConstantsOK
  <2>3. \A n \in 0..MaxParts : Append(call[c].context, n) \in Seq(0..MaxParts)
    BY <2>1
  <2>4. Append(call[c].context, Len(call[c].heard)) \in Messages
    BY <2>2, <2>3 DEF Messages
  <2> QED
    BY <1>2, <2>1, <2>4
<1> QED
  BY <1>1, <1>3, <1>4 DEF MessagesInv

LEMMA TurnSays ==
  ASSUME IInv, TurnInv, RepliesInv, MessagesInv, IInv', SessionInv', NEW c \in Calls, TurnStep(c)
  PROVE  MessagesInv'
<1>1. Shape /\ voice' = voice
  BY DEF IInv, TurnStep, PromptRefused, BeginsTurn, SendReturns, TurnFails, ReadsText, ReadsDone,
         Interrupts, InterruptReturns, IsIdle, SettlingFails
<1>2. ASSUME NEW at, Moves(c, at), owner' = owner PROVE SameMessages
  BY <1>1, <1>2, MovesSays
<1>3. PromptRefused(c) \/ BeginsTurn(c) \/ SendReturns(c) \/ InterruptReturns(c) => SameMessages
  BY <1>2 DEF PromptRefused, BeginsTurn, SendReturns, InterruptReturns, Leaves
<1>4. Interrupts(c) => SameMessages
  BY <1>2 DEF Interrupts
<1>5. Settles(c) => SameMessages
  BY <1>1, MovesSays DEF Settles
<1>6. SettlingFails(c) => SameMessages
  BY <1>1, PoisonsSays DEF SettlingFails
<1>7. IsIdle(c) => SameMessages
  <2>1. ASSUME IsIdle(c)
        PROVE  /\ owner'.history = owner.history
               /\ \A d \in Calls : call'[d].context = call[d].context /\ call'[d].heard = call[d].heard
    BY <1>1, <2>1, OwnerIsOwner, TurnOverSays DEF IsIdle
  <2> QED
    BY <1>1, <2>1 DEF SameMessages
<1>8. ReadsText(c) => Settles(c) \/ Hears(c)
  BY DEF ReadsText, Hears
<1>9. Hears(c) /\ ~Settles(c) => MessagesInv'
  BY HearsReplies DEF Unsettled
<1> QED
  BY <1>3, <1>4, <1>5, <1>6, <1>7, <1>8, <1>9, DoneSays, SameKeeps DEF TurnStep, TurnFails

LEMMA MessagesKeeps ==
  ASSUME IInv, TurnInv, RepliesInv, MessagesInv, IInv', SessionInv', [Next]_vars
  PROVE  MessagesInv'
<1>1. ASSUME NEW c \in Calls, CallerStep(c) PROVE MessagesInv'
  <2>1. Cancel(c) => MessagesInv'
    BY CancelledSays, SameKeeps DEF Cancel
  <2> QED
    BY <1>1, <2>1, CallerSays DEF CallerStep, IInv
<1>2. ASSUME NEW c \in Calls, Preflight(c) \/ StopStep(c) \/ TurnStep(c) PROVE MessagesInv'
  BY <1>2, PreflightSays, StopSays, TurnSays, SameKeeps
<1>3. CloseBegins \/ CloseStep => MessagesInv'
  <2>1. ASSUME NEW c \in Calls, CloseCancels(c) PROVE MessagesInv'
    BY <2>1, CancelledSays, SameKeeps DEF CloseCancels
  <2>2. StopStep(Closer) => MessagesInv'
    BY StopSays, SameKeeps
  <2> QED
    BY <2>1, <2>2, CloseSays, SameKeeps DEF CloseStep
<1>4. UNCHANGED <<owner, call, voice>> => MessagesInv'
  BY SameKeeps DEF SameMessages
<1>5. ReaderStep => UNCHANGED <<owner, call, voice>>
  BY DEF ReaderStep, ReadsAnswer, ReadsNotice, ReaderEnds
<1>6. RuntimeStep => UNCHANGED <<owner, call, voice>>
  BY DEF RuntimeStep, RuntimeStarts, RuntimeRejects, RuntimeSpeaks, RuntimeCompletes,
         RuntimeFails, RuntimeInterrupts, RuntimeUsesTool, RuntimeIsLate, Writes
<1> QED
  BY <1>1, <1>2, <1>3, <1>4, <1>5, <1>6 DEF Next, vars

LEMMA RepliesKeeps ==
  ASSUME IInv, TurnInv, SessionInv, RepliesInv, MessagesInv, IInv', SessionInv', [Next]_vars
  PROVE  RepliesInv'
<1>1. RuntimeStep => RepliesInv'
  BY RejectsReplies, LateReplies, FailsReplies, StoppedReplies, SpeaksReplies, CompletesReplies,
     StartsReplies DEF RuntimeStep
<1>2. ReaderStep => RepliesInv'
  BY AnswerReplies, NoticeReplies, EndReplies DEF ReaderStep
<1>3. ASSUME NEW c \in Calls,
             \/ BeginsTurn(c) \/ SendReturns(c) \/ Unsettled(c) \/ Hears(c)
             \/ Interrupts(c) \/ InterruptReturns(c) \/ Finishes(c)
      PROVE  RepliesInv'
  BY <1>3, BeginsReplies, WaitsReplies, UnsettledReplies, HearsReplies, InterruptsReplies,
     FinishesReplies
<1> QED
  BY <1>1, <1>2, <1>3, StepClass, AsideReplies, BlankReplies

LEMMA RepliesInit ==
  ASSUME Init
  PROVE  RepliesInv /\ MessagesInv
<1>1. /\ \A c \in Calls : call[c].at = "none" /\ call[c].heard = <<>> /\ call[c].context = <<>>
      /\ owner.snapshot /\ owner.retired = {} /\ ~owner.session /\ owner.history = <<>>
      /\ voice.context = <<>>
  BY DEF Init, NewCall
<1>2. <<>> \in Messages /\ <<>> \in Seq(Nat \X Nat) /\ Len(<<>>) = 0 /\ 0 <= MaxParts
  BY ConstantsOK DEF Messages
<1>3. MessagesInv
  BY <1>1, <1>2 DEF MessagesInv
<1>4. RepliesInv
  BY <1>1 DEF RepliesInv, HistoryInv, Prompting, Subscribed, Settling
<1> QED
  BY <1>3, <1>4

\* What the caller heard, what is in the queue and what is in the pipe continue each other, and
\* the process takes the conversation to be what the adapter takes it to be.
THEOREM RepliesInvariant == Spec => [](RepliesInv /\ MessagesInv)
<1> DEFINE J == IInv /\ TurnInv /\ SessionInv /\ RepliesInv /\ MessagesInv
<1>1. Init => J
  BY InitHolds, TurnInit, RepliesInit
<1>2. J /\ [Next]_vars => J'
  BY StepKeeps, TurnStepKeeps, SessionKeeps, RepliesKeeps, MessagesKeeps
<1>3. J => RepliesInv /\ MessagesInv
  OBVIOUS
<1> QED
  BY <1>1, <1>2, <1>3, PTL DEF Spec

\* A caller hears the parts of its own reply, from the first, in order and without a gap.
THEOREM RepliesSafety == Spec => []RepliesStayInTurn
<1>1. RepliesInv /\ MessagesInv => RepliesStayInTurn
  <2> SUFFICES ASSUME RepliesInv, MessagesInv, NEW c \in Calls, Prompting(c),
                      NEW i \in DOMAIN call[c].heard
               PROVE  call[c].heard[i] = <<turn.before + 1, i>>
    BY DEF RepliesStayInTurn, Prompting
  <2>1. call[c].heard \in Seq(Nat \X Nat) /\ HeardInv(c)
    BY DEF MessagesInv, RepliesInv, ReplyInv
  <2>2. DOMAIN call[c].heard = 1..Len(call[c].heard)
    BY <2>1, LenProperties
  <2> QED
    BY <2>1, <2>2 DEF HeardInv, Mine
<1> QED
  BY <1>1, RepliesInvariant, PTL

\* The runtime answers exactly the conversation of the caller: a delta is only sent when the
\* thread of the process and the context agree on all that came before.
THEOREM PromptsSafety == Spec => []PromptsAddUp
<1>1. RepliesInv => PromptsAddUp
  BY DEF RepliesInv, ReplyInv, ThreadInv, PromptsAddUp, Prompting
<1> QED
  BY <1>1, RepliesInvariant, PTL

-----------------------------------------------------------------------------
(* The process makes no more turns than there are calls.                   *)

One(b) == IF b THEN 1 ELSE 0

\* The call that prompts has its turn, and close() waits for the lock.
Counted == HasHandler /\ runtime.made = Mine
Closing == closer.at \in {"queued", "stopping"}

\* The turns before, and the one that each call in the lock may still start, are one for each
\* call so far.
CapInv ==
  /\ voice \in [context : Messages, calls : 0..MaxCalls]
  /\ runtime.made + Len(lock) <= voice.calls + One(Closing) + One(Counted)

LEMMA OneIs ==
  ASSUME NEW a, NEW b
  PROVE  /\ One(a) \in {0, 1} /\ (a => One(a) = 1) /\ (~a => One(a) = 0)
         /\ (a <=> b) => One(a) = One(b)
BY DEF One

LEMMA CapBounds ==
  ASSUME IInv, TurnInv, CapInv
  PROVE  runtime.made \in 0..MaxCalls
<1>1. /\ lock \in Seq(Calls \cup {Closer}) /\ Len(lock) \in Nat /\ runtime.made \in Nat
      /\ voice.calls \in 0..MaxCalls /\ MaxCalls \in Nat
  BY ConstantsOK DEF IInv, LockInv, TurnInv, Typed, CapInv
<1>2. Closing => \E i \in 1..Len(lock) : lock[i] = Closer
  BY DEF IInv, LockInv, Closing, Waits
<1>3. Counted => \E c \in Calls : lock[1] = c /\ Len(lock) >= 1
  <2> SUFFICES ASSUME Counted PROVE \E c \in Calls : lock[1] = c /\ Len(lock) >= 1
    OBVIOUS
  <2>1. PICK c \in Calls : call[c].at \in Subscribed
    BY DEF Counted, HasHandler
  <2>2. Active(c) /\ Waits(c)
    BY <2>1 DEF Active, Subscribed, Settling, IInv, LockInv
  <2> QED
    BY <1>1, <2>2 DEF IInv, LockInv, Waits
<1>4. One(Closing) + One(Counted) <= Len(lock)
  <2>1. CASE Closing /\ Counted
    <3>1. PICK i \in 1..Len(lock) : lock[i] = Closer
      BY <1>2, <2>1
    <3>2. i # 1
      BY <1>3, <2>1, <3>1, ConstantsOK
    <3>3. Len(lock) >= 2
      BY <1>1, <3>1, <3>2
    <3>4. One(Closing) = 1 /\ One(Counted) = 1
      BY <2>1, OneIs
    <3> QED
      BY <1>1, <3>3, <3>4
  <2>2. CASE Closing /\ ~Counted
    <3>1. One(Closing) = 1 /\ One(Counted) = 0
      BY <2>2, OneIs
    <3>2. Len(lock) >= 1
      BY <1>1, <1>2, <2>2
    <3> QED
      BY <1>1, <3>1, <3>2
  <2>3. CASE ~Closing /\ Counted
    <3>1. One(Closing) = 0 /\ One(Counted) = 1
      BY <2>3, OneIs
    <3>2. Len(lock) >= 1
      BY <1>3, <2>3
    <3> QED
      BY <1>1, <3>1, <3>2
  <2>4. CASE ~Closing /\ ~Counted
    <3>1. One(Closing) = 0 /\ One(Counted) = 0
      BY <2>4, OneIs
    <3> QED
      BY <1>1, <3>1
  <2> QED
    BY <2>1, <2>2, <2>3, <2>4
<1>5. One(Closing) \in {0, 1} /\ One(Counted) \in {0, 1}
  BY OneIs
<1>6. runtime.made + Len(lock) <= voice.calls + One(Closing) + One(Counted)
  BY DEF CapInv
<1> QED
  BY <1>1, <1>4, <1>5, <1>6

\* The turns before the present one.
FewerTurns == runtime'.made + One(Counted) <= runtime.made + One(Counted')

LEMMA SameTurns ==
  ASSUME runtime.made \in Nat, runtime'.made = runtime.made,
         HasHandler => Mine' = Mine, HasHandler' <=> HasHandler
  PROVE  FewerTurns
<1>1. Counted' <=> Counted
  BY DEF Counted
<1>2. One(Counted') = One(Counted) /\ One(Counted) \in {0, 1}
  BY <1>1, OneIs
<1> QED
  BY <1>2 DEF FewerTurns

LEMMA WritesTurns ==
  ASSUME IInv, TurnInv, NEW r, NEW s, Writes(r, s), IsProcess(r, runtime.alive),
         r.made = runtime.made
  PROVE  FewerTurns
<1>1. WritesLines(r, s)
  BY WriteFields
<1>2. runtime.made \in Nat
  BY DEF TurnInv, Typed
<1> QED
  BY <1>1, <1>2, SameTurns DEF WritesLines, Mine, HasHandler

\* The process starts a turn when a call has asked for it.
LEMMA StartsTurns ==
  ASSUME IInv, TurnInv, RuntimeStarts
  PROVE  FewerTurns
<1>1. HasHandler /\ Shape /\ runtime.made \in Nat
  BY RequestIs DEF RuntimeStarts, IInv, TurnInv, Typed
<1>2. PICK c \in Calls : Prompting(c)
  BY <1>1 DEF HasHandler, Prompting
<1>3. Asked(c)
  BY <1>2, RequestIs DEF RuntimeStarts
<1> DEFINE request == Head(runtime.requests)
           n == runtime.made + 1
           thread == IF request.replace THEN request.messages
                     ELSE Handled.thread \o request.messages
           r == Begins(Handled, n, thread)
<1>4. PICK t : Writes(r, t)
  BY DEF RuntimeStarts, Begins
<1> HIDE DEF thread
<1>5. IsProcess(r, runtime.alive) /\ r.made = n
  <2>1. IsProcess(Handled, runtime.alive)
    BY <1>1, HandledFields
  <2> HIDE DEF n
  <2> QED
    BY <2>1, StartedFields
<1> HIDE DEF r
<1>6. WritesLines(r, t)
  BY <1>4, <1>5, WriteFields
<1>7. ~Counted /\ Counted'
  BY <1>1, <1>3, <1>5, <1>6 DEF WritesLines, Counted, HasHandler, Mine, Asked
<1>8. One(Counted) = 0 /\ One(Counted') = 1
  BY <1>7, OneIs
<1> QED
  BY <1>1, <1>5, <1>6, <1>8 DEF FewerTurns, WritesLines

LEMMA RuntimeTurns ==
  ASSUME IInv, TurnInv, RuntimeStep
  PROVE  FewerTurns
<1>1. /\ IsProcess(Handled, runtime.alive) /\ Handled.made = runtime.made
      /\ IsProcess(runtime, runtime.alive)
  BY HandledFields DEF IInv
<1>2. ASSUME NEW r \in {Handled, runtime}, NEW said
      PROVE  IsProcess(Over(r, said), runtime.alive) /\ Over(r, said).made = runtime.made
  BY <1>1, <1>2, OverFields
<1>3. ASSUME NEW x
      PROVE  /\ IsProcess([runtime EXCEPT !.said = x], runtime.alive)
             /\ [runtime EXCEPT !.said = x].made = runtime.made
  BY <1>1, <1>3, ProcessStays DEF IsProcess, IInv
<1>4. RuntimeRejects => FewerTurns
  BY <1>1, WritesTurns DEF RuntimeRejects
<1>5. RuntimeSpeaks => FewerTurns
  BY <1>3, WritesTurns DEF RuntimeSpeaks
<1>6. RuntimeCompletes => FewerTurns
  BY <1>2, WritesTurns DEF RuntimeCompletes
<1>7. RuntimeFails => FewerTurns
  BY <1>1, <1>2, WritesTurns DEF RuntimeFails
<1>8. RuntimeInterrupts => FewerTurns
  BY <1>1, <1>2, WritesTurns DEF RuntimeInterrupts
<1>9. RuntimeUsesTool \/ RuntimeIsLate => FewerTurns
  BY <1>1, WritesTurns DEF RuntimeUsesTool, RuntimeIsLate
<1> QED
  BY <1>4, <1>5, <1>6, <1>7, <1>8, <1>9, StartsTurns DEF RuntimeStep

LEMMA ReaderTurns ==
  ASSUME IInv, TurnInv, ReaderStep
  PROVE  FewerTurns
<1>1. runtime.made \in Nat /\ Shape /\ Typed /\ call' = call
  BY DEF IInv, TurnInv, Typed, ReaderStep, ReadsAnswer, ReadsNotice, ReaderEnds
<1>2. HasHandler' <=> HasHandler
  BY <1>1 DEF HasHandler
<1>3. CASE ReadsAnswer
  <2>1. TakesLine
    BY <1>1, <1>3, ReadTakesLine DEF ReadsAnswer
  <2>2. turn'.before = turn.before
    BY <1>1, <1>3 DEF ReadsAnswer, Typed, IsTurn
  <2> QED
    BY <1>1, <1>2, <2>1, <2>2, SameTurns DEF TakesLine, Mine
<1>4. CASE ReadsNotice
  <2>1. TakesLine
    BY <1>1, <1>4, ReadTakesLine DEF ReadsNotice
  <2>2. HasHandler => turn'.before = turn.before
    <3> SUFFICES ASSUME HasHandler PROVE turn'.before = turn.before
      OBVIOUS
    <3>1. CASE ~Taken(Head(runtime.lines))
      BY <1>4, <3>1 DEF ReadsNotice
    <3>2. CASE Taken(Head(runtime.lines))
      <4>1. runtime.lines # <<>> /\ Head(runtime.lines) \in AgentLine
        BY <1>1, <2>1, LinesLeft DEF TakesLine
      <4> QED
        BY <1>1, <1>4, <3>2, <4>1, NoticeNews DEF News, Talk
    <3> QED
      BY <3>1, <3>2
  <2> QED
    BY <1>1, <1>2, <2>1, <2>2, SameTurns DEF TakesLine, Mine
<1>5. CASE ReaderEnds
  <2>1. turn'.before = turn.before
    BY <1>1, <1>5, EndNews
  <2>2. runtime'.made = runtime.made
    BY <1>1, <1>5 DEF ReaderEnds, Shape
  <2> QED
    BY <1>1, <1>2, <2>1, <2>2, SameTurns DEF Mine
<1> QED
  BY <1>3, <1>4, <1>5 DEF ReaderStep

\* A call goes on with its turn.
LEMMA TurnTurns ==
  ASSUME IInv, TurnInv, NEW c \in Calls,
         \/ SendReturns(c) \/ Unsettled(c) \/ Hears(c) \/ Interrupts(c) \/ InterruptReturns(c)
  PROVE  FewerTurns
<1>1. runtime.made \in Nat /\ Shape /\ Typed
  BY DEF IInv, TurnInv, Typed
<1>2. Prompting(c)
  BY DEF SendReturns, Unsettled, Hears, Interrupts, InterruptReturns, Prompting, Subscribed, Settling
<1>3. runtime'.made = runtime.made
  <2>1. Interrupts(c) => runtime'.made = runtime.made
    BY <1>1 DEF Interrupts, Shape
  <2>2. Hears(c) => runtime' = runtime
    BY DEF Hears, ReadsText
  <2> QED
    BY <2>1, <2>2 DEF SendReturns, Unsettled, InterruptReturns
<1>4. turn'.before = turn.before
  <2>1. Settles(c) => turn'.before = turn.before
    BY <1>1 DEF Settles, Typed, IsTurn
  <2>2. Hears(c) => turn'.before = turn.before
    BY <1>1, <2>1 DEF Hears, ReadsText, Typed, IsTurn
  <2>3. Interrupts(c) => turn'.before = turn.before
    BY <1>1 DEF Interrupts, Typed, IsTurn
  <2>4. SendReturns(c) => turn'.before = turn.before
    BY <1>1 DEF SendReturns, Typed, IsTurn
  <2> QED
    BY <2>1, <2>2, <2>3, <2>4 DEF Unsettled, InterruptReturns
<1>5. call'[c].at \in Subscribed
  <2>1. ASSUME NEW at \in Subscribed, Moves(c, at) PROVE call'[c].at \in Subscribed
    BY <1>1, <2>1, MoveOfCall
  <2>2. Settles(c) => call'[c].at \in Subscribed
    BY <2>1 DEF Settles, Subscribed, Settling
  <2>3. Hears(c) => call'[c].at \in Subscribed
    <3>1. ASSUME NEW x, call' = [call EXCEPT ![c].heard = x] PROVE call'[c].at = call[c].at
      BY <1>1, <3>1 DEF Shape
    <3> QED
      BY <1>2, <2>2, <3>1 DEF Hears, ReadsText, Prompting
  <2>4. Interrupts(c) => call'[c].at \in Subscribed
    BY <2>1 DEF Interrupts, Subscribed, Settling
  <2>5. SendReturns(c) \/ InterruptReturns(c) => call'[c].at \in Subscribed
    BY <2>1 DEF SendReturns, InterruptReturns, Subscribed, Settling
  <2> QED
    BY <2>2, <2>3, <2>4, <2>5 DEF Unsettled
<1>6. HasHandler /\ HasHandler'
  BY <1>2, <1>5 DEF HasHandler, Prompting
<1> QED
  BY <1>1, <1>3, <1>4, <1>6, SameTurns DEF Mine

\* The turns before the present one only grow when a call ends its turn.
LEMMA StepTurns ==
  ASSUME IInv, TurnInv, [Next]_vars
  PROVE  \/ FewerTurns
         \/ runtime' = runtime /\ \E c \in Calls : Finishes(c)
<1>1. runtime.made \in Nat /\ Shape /\ Typed /\ One(Counted) \in {0, 1} /\ One(Counted') \in {0, 1}
  BY OneIs DEF IInv, TurnInv, Typed
<1>2. Aside => FewerTurns
  <2> SUFFICES ASSUME Aside PROVE FewerTurns
    OBVIOUS
  <2>1. \A c \in Calls : Prompting(c)' <=> Prompting(c)
    BY DEF Aside, Prompting
  <2>2. HasHandler' <=> HasHandler
    BY <2>1 DEF HasHandler, Prompting
  <2> QED
    BY <1>1, <2>2, SameTurns DEF Aside, Mine
<1>3. Blank => FewerTurns
  <2> SUFFICES ASSUME Blank PROVE FewerTurns
    OBVIOUS
  <2>1. runtime'.made = 0
    BY DEF Blank
  <2>2. One(Counted) <= runtime.made
    <3>1. Counted => runtime.made >= 1
      BY <1>1 DEF Counted, Mine, Typed
    <3>2. CASE Counted
      <4>1. One(Counted) = 1 /\ runtime.made >= 1
        BY <3>1, <3>2, OneIs
      <4> QED
        BY <4>1
    <3>3. CASE ~Counted
      <4>1. One(Counted) = 0 /\ runtime.made \in Nat
        BY <1>1, <3>3, OneIs
      <4> QED
        BY <4>1
    <3> QED
      BY <3>2, <3>3
  <2> QED
    BY <1>1, <2>1, <2>2 DEF FewerTurns
<1>4. ASSUME NEW c \in Calls, BeginsTurn(c) PROVE FewerTurns
  <2>1. ~HasHandler
    BY <1>4, NonePrompts DEF BeginsTurn, MayPrompt, Active, Prompting, Subscribed, Settling
  <2>2. One(Counted) = 0
    BY <2>1, OneIs DEF Counted
  <2>3. runtime'.made = runtime.made
    BY <1>1, <1>4 DEF BeginsTurn, Shape
  <2> QED
    BY <1>1, <2>2, <2>3 DEF FewerTurns
<1>5. ASSUME NEW c \in Calls, Finishes(c) PROVE runtime' = runtime
  BY <1>5, FinishLeaves
<1> QED
  BY <1>2, <1>3, <1>4, <1>5, StepClass, RuntimeTurns, ReaderTurns, TurnTurns

\* The lock has one call fewer for each call that has left, and k more have.
Lighter(k) ==
  Len(lock') + k + voice.calls + One(Closing) <= Len(lock) + voice'.calls + One(Closing')

SameCalls == closer'.at = closer.at /\ voice'.calls = voice.calls

LEMMA LighterLock ==
  ASSUME IInv, CapInv, SameCalls
  PROVE  /\ lock' = lock => Lighter(0)
         /\ lock' = Tail(lock) /\ lock # <<>> => Lighter(1) /\ Lighter(0)
         /\ \A i \in DOMAIN lock : lock' = RemoveAt(lock, i) => Lighter(0)
<1>1. lock \in Seq(Calls \cup {Closer}) /\ Len(lock) \in Nat /\ voice.calls \in Nat
  BY ConstantsOK DEF IInv, LockInv, CapInv
<1>2. One(Closing') = One(Closing) /\ One(Closing) \in {0, 1}
  <2>1. Closing' <=> Closing
    BY DEF Closing, SameCalls
  <2> QED
    BY <2>1, OneIs
<1>3. lock' = Tail(lock) /\ lock # <<>> => Len(lock') = Len(lock) - 1
  BY <1>1
<1>4. ASSUME NEW i \in DOMAIN lock, lock' = RemoveAt(lock, i) PROVE Len(lock') = Len(lock) - 1
  <2>1. i \in 1..Len(lock)
    BY <1>1, <1>4
  <2> DEFINE a == SubSeq(lock, 1, i - 1)
             b == SubSeq(lock, i + 1, Len(lock))
  <2>2. a \in Seq(Calls \cup {Closer}) /\ Len(a) = i - 1
    BY <1>1, <2>1
  <2>3. b \in Seq(Calls \cup {Closer}) /\ Len(b) = Len(lock) - i
    BY <1>1, <2>1
  <2>4. lock' = a \o b
    BY <1>4 DEF RemoveAt
  <2> HIDE DEF a, b
  <2> QED
    BY <1>1, <2>1, <2>2, <2>3, <2>4
<1>5. lock' = lock => Lighter(0)
  BY <1>1, <1>2 DEF Lighter, SameCalls
<1>6. lock' = Tail(lock) /\ lock # <<>> => Lighter(1) /\ Lighter(0)
  BY <1>1, <1>2, <1>3 DEF Lighter, SameCalls
<1>7. ASSUME NEW i \in DOMAIN lock, lock' = RemoveAt(lock, i) PROVE Lighter(0)
  <2>1. Len(lock') = Len(lock) - 1
    BY <1>4, <1>7
  <2> QED
    BY <1>1, <1>2, <2>1 DEF Lighter, SameCalls
<1> QED
  BY <1>5, <1>6, <1>7

\* The steps of the holder: it stays, or it leaves.
LEMMA HolderLock ==
  ASSUME IInv, NEW c \in Calls, Preflight(c) \/ TurnStep(c) \/ StopStep(c)
  PROVE  /\ closer' = closer /\ voice' = voice
         /\ lock' = lock \/ (lock' = Tail(lock) /\ lock # <<>>)
<1>1. Active(c) \/ (Holds(c) /\ call[c].at = "queued")
  <2>1. StopStep(c) => Active(c)
    BY ConstantsOK DEF StopStep, Stopped, StopFails, StopReturns, Stopping, Active
  <2>2. Preflight(c) => Active(c) \/ (Holds(c) /\ call[c].at = "queued")
    BY DEF Preflight, Returns, FindsNoBinary, StartsRuntime, MayStart, Relaunches, Attests, Lists,
           OpensThread, PreflightFails, Boots, Active
  <2>3. TurnStep(c) => Active(c) \/ (Holds(c) /\ call[c].at = "queued")
    BY DEF TurnStep, PromptRefused, BeginsTurn, MayPrompt, SendReturns, TurnFails, ReadsText,
           ReadsDone, Interrupts, InterruptReturns, IsIdle, SettlingFails, Settling, Active
  <2> QED
    BY <2>1, <2>2, <2>3
<1>2. lock # <<>>
  BY <1>1, HolderIsAlone
<1>3. closer' = closer /\ voice' = voice
  BY ConstantsOK
     DEF Preflight, Returns, FindsNoBinary, StartsRuntime, Relaunches, Attests, Lists,
         OpensThread, PreflightFails, TurnStep, PromptRefused, BeginsTurn, SendReturns, TurnFails,
         ReadsText, ReadsDone, Interrupts, InterruptReturns, IsIdle, SettlingFails,
         StopStep, Stopped, StopFails, StopReturns
<1>4. Preflight(c) => lock' = lock \/ lock' = Tail(lock)
  BY DEF Preflight, Returns, FindsNoBinary, StartsRuntime, Relaunches, Attests, Lists,
         OpensThread, PreflightFails, Leaves
<1>5. TurnStep(c) => lock' = lock \/ lock' = Tail(lock)
  BY DEF TurnStep, PromptRefused, BeginsTurn, SendReturns, TurnFails, ReadsText, ReadsDone,
         Interrupts, InterruptReturns, IsIdle, SettlingFails, TurnOver, Leaves
<1>6. StopStep(c) => lock' = Tail(lock)
  BY DEF StopStep, Stopped, StopFails, StopReturns
<1> QED
  BY <1>2, <1>3, <1>4, <1>5, <1>6

LEMMA CancelledLock ==
  ASSUME IInv, CapInv, NEW c \in Calls, Cancelled(c), SameCalls
  PROVE  Lighter(0)
<1>1. CASE call[c].at = "stopping"
  <2>1. lock # <<>>
    BY <1>1, HolderIsAlone DEF Active
  <2>2. lock' = Tail(lock)
    BY <1>1 DEF Cancelled, Leaves, Settling
  <2> QED
    BY <2>1, <2>2, LighterLock
<1>2. CASE call[c].at = "queued"
  <2>1. \E i \in DOMAIN lock : lock' = RemoveAt(lock, i)
    BY <1>2 DEF Cancelled, Settling
  <2> QED
    BY <2>1, LighterLock
<1>3. CASE call[c].at \notin {"queued", "stopping"}
  <2>1. lock' = lock
    BY <1>3 DEF Cancelled
  <2> QED
    BY <2>1, LighterLock
<1> QED
  BY <1>1, <1>2, <1>3

\* The calls that join, and what the session keeps of a reply.
LEMMA CallerLock ==
  ASSUME IInv, CapInv, NEW c \in Calls,
         Chats(c) \/ (\E kind \in {"validate", "models"} : Asks(c, kind)) \/ Commits(c)
  PROVE  Lighter(0)
<1>1. /\ lock \in Seq(Calls \cup {Closer}) /\ Len(lock) \in Nat /\ voice.calls \in Nat
      /\ voice \in [context : Messages, calls : 0..MaxCalls]
  BY ConstantsOK DEF IInv, LockInv, CapInv
<1>2. One(Closing') = One(Closing) /\ One(Closing) \in {0, 1} /\ closer' = closer
  <2>1. closer' = closer
    BY DEF Chats, Asks, Commits
  <2>2. Closing' <=> Closing
    BY <2>1 DEF Closing
  <2> QED
    BY <2>1, <2>2, OneIs
<1>3. CASE lock' = Append(lock, c) /\ voice'.calls = voice.calls + 1
  <2>1. Len(lock') = Len(lock) + 1
    BY <1>1, <1>3
  <2> QED
    BY <1>1, <1>2, <1>3, <2>1 DEF Lighter
<1>4. CASE Commits(c)
  <2>1. voice'.calls = voice.calls /\ lock' = lock
    BY <1>1, <1>4 DEF Commits
  <2> QED
    BY <1>2, <2>1, LighterLock DEF SameCalls
<1>5. Chats(c) => lock' = Append(lock, c) /\ voice'.calls = voice.calls + 1
  BY DEF Chats
<1>6. ASSUME NEW kind, Asks(c, kind) PROVE lock' = Append(lock, c) /\ voice'.calls = voice.calls + 1
  BY <1>1, <1>6 DEF Asks
<1> QED
  BY <1>3, <1>4, <1>5, <1>6

\* close() joins as one that is no call, and leaves so.
LEMMA CloseLock ==
  ASSUME IInv, CapInv, CloseBegins \/ CloseAwaited \/ CloseQueues \/ CloseStops \/ StopStep(Closer)
  PROVE  Lighter(0)
<1>1. /\ lock \in Seq(Calls \cup {Closer}) /\ Len(lock) \in Nat /\ voice.calls \in Nat
      /\ voice' = voice /\ closer = [at |-> closer.at, awaits |-> closer.awaits]
  BY ConstantsOK DEF IInv, LockInv, CapInv, Shape, CloseBegins, CloseAwaited, CloseQueues, CloseStops,
                     StopStep, Stopped, StopFails
<1>2. CASE CloseBegins \/ CloseAwaited \/ CloseStops
  <2>1. lock' = lock
    BY <1>2 DEF CloseBegins, CloseAwaited, CloseStops
  <2>2. Closing' <=> Closing
    BY <1>1, <1>2 DEF CloseBegins, CloseAwaited, CloseStops, Closing
  <2>3. One(Closing') = One(Closing) /\ One(Closing) \in {0, 1}
    BY <2>2, OneIs
  <2> QED
    BY <1>1, <2>1, <2>3 DEF Lighter
<1>3. CASE CloseQueues
  <2>1. ~Closing /\ Closing' /\ lock' = Append(lock, Closer)
    BY <1>1, <1>3 DEF CloseQueues, Closing
  <2>2. One(Closing) = 0 /\ One(Closing') = 1
    BY <2>1, OneIs
  <2>3. Len(lock') = Len(lock) + 1
    BY <1>1, <2>1
  <2> QED
    BY <1>1, <2>2, <2>3 DEF Lighter
<1>4. CASE StopStep(Closer)
  <2>1. Closing /\ ~Closing' /\ lock' = Tail(lock) /\ closer.at = "stopping"
    BY <1>1, <1>4 DEF StopStep, Stopped, StopFails, StopReturns, Stopping, Closing
  <2>2. One(Closing) = 1 /\ One(Closing') = 0
    BY <2>1, OneIs
  <2>3. lock # <<>>
    BY <1>1, <2>1 DEF IInv, LockInv, Waits
  <2>4. Len(lock') = Len(lock) - 1
    BY <1>1, <2>1, <2>3
  <2> QED
    BY <1>1, <2>2, <2>4 DEF Lighter
<1> QED
  BY <1>2, <1>3, <1>4

LEMMA StepLock ==
  ASSUME IInv, CapInv, [Next]_vars
  PROVE  Lighter(0)
<1>1. ASSUME NEW c \in Calls, Preflight(c) \/ TurnStep(c) \/ StopStep(c) PROVE Lighter(0)
  BY <1>1, HolderLock, LighterLock DEF SameCalls
<1>2. ASSUME NEW c \in Calls, CallerStep(c) PROVE Lighter(0)
  <2>1. Cancel(c) => Lighter(0)
    BY CancelledLock DEF Cancel, SameCalls
  <2> QED
    BY <1>2, <2>1, CallerLock DEF CallerStep
<1>3. ASSUME NEW c \in Calls, CloseCancels(c) PROVE Lighter(0)
  <2>1. closer'.at = closer.at /\ voice' = voice
    BY <1>3 DEF CloseCancels, IInv, Shape
  <2> QED
    BY <1>3, <2>1, CancelledLock DEF CloseCancels, SameCalls
<1>4. ReaderStep \/ RuntimeStep \/ UNCHANGED vars => Lighter(0)
  <2>1. ReaderStep => UNCHANGED <<lock, closer, voice>>
    BY DEF ReaderStep, ReadsAnswer, ReadsNotice, ReaderEnds
  <2>2. RuntimeStep => UNCHANGED <<lock, closer, voice>>
    BY DEF RuntimeStep, RuntimeStarts, RuntimeRejects, RuntimeSpeaks, RuntimeCompletes,
           RuntimeFails, RuntimeInterrupts, RuntimeUsesTool, RuntimeIsLate, Writes
  <2> QED
    BY <2>1, <2>2, LighterLock DEF vars, SameCalls
<1> QED
  BY <1>1, <1>2, <1>3, <1>4, CloseLock DEF Next, CloseStep

LEMMA VoiceTyped ==
  ASSUME MessagesInv', CapInv, [Next]_vars
  PROVE  voice' \in [context : Messages, calls : 0..MaxCalls]
<1>1. voice \in [context : Messages, calls : 0..MaxCalls] /\ voice'.context \in Messages
      /\ MaxCalls \in Nat
  BY ConstantsOK DEF CapInv, MessagesInv
<1>2. CASE voice' = voice
  BY <1>1, <1>2
<1>3. ASSUME NEW c \in Calls, Chats(c) PROVE voice' \in [context : Messages, calls : 0..MaxCalls]
  BY <1>1, <1>3 DEF Chats
<1>4. ASSUME NEW c \in Calls, NEW kind, Asks(c, kind)
      PROVE  voice' \in [context : Messages, calls : 0..MaxCalls]
  BY <1>1, <1>4 DEF Asks
<1>5. ASSUME NEW c \in Calls, Commits(c) PROVE voice' \in [context : Messages, calls : 0..MaxCalls]
  <2>1. PICK x : voice' = [voice EXCEPT !.context = x]
    BY <1>5 DEF Commits
  <2>2. x \in Messages
    BY <1>1, <2>1
  <2> QED
    BY <1>1, <2>1, <2>2
<1>6. \/ voice' = voice
      \/ \E c \in Calls : \/ Chats(c) \/ Commits(c)
                          \/ \E kind \in {"validate", "models"} : Asks(c, kind)
  <2>1. ASSUME NEW x, StopStep(x) PROVE voice' = voice
    BY <2>1 DEF StopStep, Stopped, StopFails
  <2>2. ASSUME NEW c, Preflight(c) \/ TurnStep(c) PROVE voice' = voice
    BY <2>2 DEF Preflight, Returns, FindsNoBinary, StartsRuntime, Relaunches, Attests, Lists,
         OpensThread, PreflightFails, TurnStep, PromptRefused, BeginsTurn, SendReturns, TurnFails,
         ReadsText, ReadsDone, Interrupts, InterruptReturns, IsIdle, SettlingFails
  <2>3. ReaderStep \/ RuntimeStep => voice' = voice
    BY DEF ReaderStep, ReadsAnswer, ReadsNotice, ReaderEnds,
           RuntimeStep, RuntimeStarts, RuntimeRejects, RuntimeSpeaks, RuntimeCompletes,
           RuntimeFails, RuntimeInterrupts, RuntimeUsesTool, RuntimeIsLate, Writes
  <2>4. CloseBegins \/ CloseStep => voice' = voice
    BY <2>1 DEF CloseBegins, CloseStep, CloseCancels, CloseAwaited, CloseQueues, CloseStops
  <2> QED
    BY <2>1, <2>2, <2>3, <2>4 DEF Next, CallerStep, Cancel, vars
<1> QED
  BY <1>2, <1>3, <1>4, <1>5, <1>6

LEMMA CapKeeps ==
  ASSUME IInv, TurnInv, CapInv, IInv', TurnInv', MessagesInv', [Next]_vars
  PROVE  CapInv'
<1>1. /\ Len(lock) \in Nat /\ Len(lock') \in Nat /\ voice.calls \in Nat /\ voice'.calls \in Nat
      /\ runtime.made \in Nat /\ runtime'.made \in Nat
      /\ voice' \in [context : Messages, calls : 0..MaxCalls]
  <2>1. voice' \in [context : Messages, calls : 0..MaxCalls]
    BY VoiceTyped
  <2>2. lock \in Seq(Calls \cup {Closer}) /\ lock' \in Seq(Calls \cup {Closer})
    BY DEF IInv, LockInv
  <2> QED
    BY <2>1, <2>2, LenProperties, ConstantsOK DEF CapInv, TurnInv, Typed
<1>2. /\ One(Counted) \in {0, 1} /\ One(Counted') \in {0, 1}
      /\ One(Closing) \in {0, 1} /\ One(Closing') \in {0, 1}
  BY OneIs
<1>3. runtime.made + Len(lock) <= voice.calls + One(Closing) + One(Counted)
  BY DEF CapInv
<1>4. runtime'.made + Len(lock') <= voice'.calls + One(Closing') + One(Counted')
  <2> DEFINE a == runtime.made
             b == runtime'.made
             x == Len(lock)
             y == Len(lock')
             v == voice.calls
             w == voice'.calls
             p == One(Counted)
             q == One(Counted')
             r == One(Closing)
             s == One(Closing')
  <2>3. /\ {a, b, x, y, v, w} \subseteq Nat /\ {p, q, r, s} \subseteq {0, 1}
        /\ a + x <= v + r + p
    BY <1>1, <1>2, <1>3
  <2>1. CASE FewerTurns
    <3>1. b + p <= a + q
      BY <2>1 DEF FewerTurns
    <3>2. y + 0 + v + r <= x + w + s
      BY StepLock DEF Lighter
    <3>3. b + y <= w + s + q
      <4> HIDE DEF a, b, x, y, v, w, p, q, r, s
      <4> QED
        BY <2>3, <3>1, <3>2
    <3> QED
      BY <3>3
  <2>2. CASE runtime' = runtime /\ \E c \in Calls : Finishes(c)
    <3>1. PICK c \in Calls : Finishes(c)
      BY <2>2
    <3>2. lock' = Tail(lock) /\ closer' = closer /\ voice' = voice
      BY <3>1, FinishLeaves DEF Leaves, Finishes, ReadsDone, IsIdle
    <3>3. lock # <<>>
      BY <3>1, HolderIsAlone DEF Finishes, ReadsDone, IsIdle, Active
    <3>4. Lighter(1)
      BY <3>2, <3>3, LighterLock DEF SameCalls
    <3>5. y + 1 + v + r <= x + w + s
      BY <3>4 DEF Lighter
    <3>6. b = a
      BY <2>2
    <3>7. b + y <= w + s + q
      <4> HIDE DEF a, b, x, y, v, w, p, q, r, s
      <4> QED
        BY <2>3, <3>5, <3>6
    <3> QED
      BY <3>7
  <2> QED
    BY <2>1, <2>2, StepTurns
<1> QED
  BY <1>1, <1>4 DEF CapInv

-----------------------------------------------------------------------------
(* The types of the adapter.                                               *)

LEMMA OwnerEdits ==
  ASSUME NEW o \in Owner
  PROVE  /\ [o EXCEPT !.client = TRUE] \in Owner /\ [o EXCEPT !.client = FALSE] \in Owner
         /\ [o EXCEPT !.session = TRUE] \in Owner /\ [o EXCEPT !.metadata = TRUE] \in Owner
         /\ [o EXCEPT !.snapshot = TRUE] \in Owner /\ [o EXCEPT !.closed = TRUE] \in Owner
         /\ [o EXCEPT !.uncertain = TRUE] \in Owner
         /\ \A h \in Messages : [o EXCEPT !.snapshot = FALSE, !.history = h] \in Owner
         /\ \A s \in SUBSET (1..MaxCalls) :
              /\ [o EXCEPT !.retired = @ \cup s] \in Owner
              /\ [o EXCEPT !.uncertain = TRUE, !.retired = @ \cup s] \in Owner
         /\ Drops(o) => owner' \in Owner
<1>1. /\ [o EXCEPT !.client = TRUE] \in Owner /\ [o EXCEPT !.client = FALSE] \in Owner
      /\ [o EXCEPT !.session = TRUE] \in Owner /\ [o EXCEPT !.metadata = TRUE] \in Owner
  BY DEF Owner
<1>2. /\ [o EXCEPT !.snapshot = TRUE] \in Owner /\ [o EXCEPT !.closed = TRUE] \in Owner
      /\ [o EXCEPT !.uncertain = TRUE] \in Owner
  BY DEF Owner
<1>3. ASSUME NEW h \in Messages PROVE [o EXCEPT !.snapshot = FALSE, !.history = h] \in Owner
  BY <1>3 DEF Owner
<1>4. ASSUME NEW s \in SUBSET (1..MaxCalls)
      PROVE  /\ [o EXCEPT !.retired = @ \cup s] \in Owner
             /\ [o EXCEPT !.uncertain = TRUE, !.retired = @ \cup s] \in Owner
  BY <1>4 DEF Owner
<1>5. Drops(o) => owner' \in Owner
  BY DEF Owner, Drops
<1> QED
  BY <1>1, <1>2, <1>3, <1>4, <1>5

LEMMA OwnerOver ==
  ASSUME NEW c, NEW o \in Owner, turn.seen \in SUBSET (1..MaxCalls), TurnOver(c, o)
  PROVE  owner' \in Owner
<1> DEFINE after == [o EXCEPT !.retired = @ \cup turn.seen]
<1>1. after \in Owner
  BY OwnerEdits
<1>2. CASE turn.safety
  <2>1. Drops([after EXCEPT !.uncertain = TRUE])
    BY <1>2 DEF TurnOver, Stops
  <2> HIDE DEF after
  <2>2. [after EXCEPT !.uncertain = TRUE] \in Owner
    BY <1>1, OwnerEdits
  <2> QED
    BY <2>1, <2>2, OwnerEdits
<1>3. CASE ~turn.safety
  BY <1>1, <1>3 DEF TurnOver
<1> QED
  BY <1>2, <1>3

\* A conversation and the reply that was heard.
LEMMA HeardIsMessage ==
  ASSUME MessagesInv, NEW c \in Calls
  PROVE  Append(call[c].context, Len(call[c].heard)) \in Messages
<1>1. /\ call[c].context \in Seq(0..MaxParts)
      /\ call[c].heard \in Seq(Nat \X Nat) /\ Len(call[c].heard) <= MaxParts
  BY DEF MessagesInv, Messages
<1>2. Len(call[c].heard) \in 0..MaxParts
  BY <1>1, LenProperties, ConstantsOK
<1>3. \A n \in 0..MaxParts : Append(call[c].context, n) \in Seq(0..MaxParts)
  BY <1>1
<1> QED
  BY <1>2, <1>3 DEF Messages

LEMMA OwnerTyped ==
  ASSUME MessagesInv, owner \in Owner, turn.seen \in SUBSET (1..MaxCalls), [Next]_vars
  PROVE  owner' \in Owner
<1>1. Drops(owner) => owner' \in Owner
  BY OwnerEdits
<1>2. ASSUME NEW c, Settles(c) PROVE owner' \in Owner
  BY <1>2, OwnerEdits DEF Settles
<1>3. ASSUME NEW c, Poisons(c) PROVE owner' \in Owner
  <2> DEFINE o == [owner EXCEPT !.uncertain = TRUE, !.retired = @ \cup turn.seen]
  <2>1. o \in Owner
    BY OwnerEdits
  <2>2. Drops(o)
    BY <1>3 DEF Poisons, Stops
  <2> HIDE DEF o
  <2> QED
    BY <2>1, <2>2, OwnerEdits
<1>4. ASSUME NEW c \in Calls, ReadsDone(c) PROVE owner' \in Owner
  <2> DEFINE n == Len(call[c].heard)
             o == IF n = 0 THEN [owner EXCEPT !.snapshot = TRUE]
                  ELSE [owner EXCEPT !.snapshot = FALSE, !.history = Append(call[c].context, n)]
  <2>1. TurnOver(c, o)
    BY <1>4 DEF ReadsDone
  <2>2. o \in Owner
    BY OwnerEdits, HeardIsMessage
  <2> HIDE DEF o
  <2> QED
    BY <2>1, <2>2, OwnerOver
<1>5. ASSUME NEW c \in Calls, TurnStep(c) PROVE owner' \in Owner
  <2>1. IsIdle(c) => owner' \in Owner
    BY OwnerOver DEF IsIdle
  <2>2. TurnFails(c) \/ ReadsText(c) => owner' = owner \/ Settles(c)
    BY DEF TurnFails, ReadsText
  <2>3. PromptRefused(c) \/ BeginsTurn(c) \/ SendReturns(c) \/ InterruptReturns(c) => owner' = owner
    BY DEF PromptRefused, BeginsTurn, SendReturns, InterruptReturns
  <2>4. Interrupts(c) => owner' = owner
    BY DEF Interrupts
  <2>5. SettlingFails(c) => Poisons(c)
    BY DEF SettlingFails
  <2> QED
    BY <1>2, <1>3, <1>4, <1>5, <2>1, <2>2, <2>3, <2>4, <2>5 DEF TurnStep
<1>6. ASSUME NEW c \in Calls, Preflight(c) PROVE owner' \in Owner
  <2>1. StartsRuntime(c) => owner' \in Owner
    BY OwnerEdits DEF StartsRuntime
  <2>2. Lists(c) => owner' \in Owner
    BY <1>1, OwnerEdits DEF Lists, Stops
  <2>3. OpensThread(c) => owner' \in Owner
    BY OwnerEdits DEF OpensThread
  <2>4. Returns(c) \/ Relaunches(c) \/ Attests(c) => owner' = owner
    BY DEF Returns, Relaunches, Attests
  <2>5. FindsNoBinary(c) \/ PreflightFails(c) => Drops(owner)
    BY DEF FindsNoBinary, PreflightFails, Stops
  <2> QED
    BY <1>1, <1>6, <2>1, <2>2, <2>3, <2>4, <2>5 DEF Preflight
<1>7. ASSUME NEW x, StopStep(x) PROVE owner' \in Owner
  BY <1>7, OwnerEdits DEF StopStep, Stopped, StopFails
<1>8. ASSUME NEW c \in Calls, Cancelled(c) PROVE owner' \in Owner
  BY <1>1, <1>2, <1>3, <1>8 DEF Cancelled, Stops
<1>9. ASSUME NEW c \in Calls, CallerStep(c) PROVE owner' \in Owner
  <2>1. Chats(c) \/ Commits(c) \/ (\E kind \in {"validate", "models"} : Asks(c, kind)) => owner' = owner
    BY DEF Chats, Commits, Asks
  <2> QED
    BY <1>8, <1>9, <2>1 DEF CallerStep, Cancel
<1>10. CloseBegins \/ CloseStep => owner' \in Owner
  <2>1. CloseBegins => owner' \in Owner
    BY OwnerEdits DEF CloseBegins
  <2>2. CloseStops => Drops(owner)
    BY DEF CloseStops
  <2>3. CloseAwaited \/ CloseQueues => owner' = owner
    BY DEF CloseAwaited, CloseQueues
  <2> QED
    BY <1>1, <1>7, <1>8, <2>1, <2>2, <2>3 DEF CloseStep, CloseCancels
<1>11. ReaderStep \/ RuntimeStep => owner' = owner
  BY DEF ReaderStep, ReadsAnswer, ReadsNotice, ReaderEnds,
         RuntimeStep, RuntimeStarts, RuntimeRejects, RuntimeSpeaks, RuntimeCompletes,
         RuntimeFails, RuntimeInterrupts, RuntimeUsesTool, RuntimeIsLate, Writes
<1> QED
  BY <1>5, <1>6, <1>7, <1>9, <1>10, <1>11 DEF Next, vars

\* close() and the history of the runtime.
LEMMA CloserTyped ==
  ASSUME closer \in [at : {"none", "streams", "queued", "stopping", "done"}, awaits : Calls \cup {NoCall}],
         lost \in [cut : BOOLEAN, forgotten : BOOLEAN], owner \in Owner, [Next]_vars
  PROVE  /\ closer' \in [at : {"none", "streams", "queued", "stopping", "done"},
                         awaits : Calls \cup {NoCall}]
         /\ lost' \in [cut : BOOLEAN, forgotten : BOOLEAN]
<1> DEFINE CloserOK == closer' \in [at : {"none", "streams", "queued", "stopping", "done"},
                                    awaits : Calls \cup {NoCall}]
           LostOK == lost' \in [cut : BOOLEAN, forgotten : BOOLEAN]
<1>1. closer' = closer => CloserOK
  OBVIOUS
<1>2. lost' = lost => LostOK
  OBVIOUS
<1>3. ASSUME NEW x \in {"none", "streams", "queued", "stopping", "done"},
             closer' = [closer EXCEPT !.at = x]
      PROVE  CloserOK
  BY <1>3
<1>4. ASSUME NEW x \in Calls \cup {NoCall}, closer' = [closer EXCEPT !.awaits = x]
      PROVE  CloserOK
  BY <1>4
<1>5. lost' = [lost EXCEPT !.cut = TRUE] => LostOK
  OBVIOUS
<1>6. lost' = [lost EXCEPT !.forgotten = @ \/ owner.client] => LostOK
  OBVIOUS
<1> HIDE DEF CloserOK, LostOK
<1>7. ASSUME NEW x, StopStep(x) PROVE CloserOK /\ LostOK
  BY <1>1, <1>2, <1>3, <1>7 DEF StopStep, Stopped, StopFails, StopReturns
<1>8. ASSUME NEW c \in Calls, Preflight(c) PROVE CloserOK /\ LostOK
  <2>1. closer' = closer
    BY <1>8 DEF Preflight, Returns, FindsNoBinary, StartsRuntime, Relaunches, Attests, Lists,
                OpensThread, PreflightFails
  <2>2. lost' = lost \/ lost' = [lost EXCEPT !.forgotten = @ \/ owner.client]
    BY <1>8 DEF Preflight, Returns, FindsNoBinary, StartsRuntime, Relaunches, Attests, Lists,
                OpensThread, PreflightFails
  <2> QED
    BY <1>1, <1>2, <1>6, <2>1, <2>2
<1>9. ASSUME NEW c \in Calls, TurnStep(c) PROVE CloserOK /\ LostOK
  <2>1. closer' = closer /\ lost' = lost
    BY <1>9 DEF TurnStep, PromptRefused, BeginsTurn, SendReturns, TurnFails, ReadsText, ReadsDone,
                Interrupts, InterruptReturns, IsIdle, SettlingFails
  <2> QED
    BY <1>1, <1>2, <2>1
<1>10. ASSUME NEW c \in Calls, Cancelled(c) PROVE LostOK
  BY <1>2, <1>5, <1>10 DEF Cancelled
<1>11. ASSUME NEW c \in Calls, CallerStep(c) PROVE CloserOK /\ LostOK
  <2>1. Cancel(c) => CloserOK /\ LostOK
    BY <1>1, <1>10 DEF Cancel
  <2>2. Chats(c) \/ Commits(c) \/ (\E kind \in {"validate", "models"} : Asks(c, kind)) =>
          closer' = closer /\ lost' = lost
    BY DEF Chats, Commits, Asks
  <2> QED
    BY <1>1, <1>2, <1>11, <2>1, <2>2 DEF CallerStep
<1>12. CloseBegins \/ CloseStep => CloserOK /\ LostOK
  <2>1. ASSUME NEW c \in Calls, CloseCancels(c) PROVE CloserOK /\ LostOK
    BY <1>4, <1>10, <2>1 DEF CloseCancels
  <2>2. CloseBegins \/ CloseQueues \/ CloseStops => CloserOK /\ LostOK
    BY <1>2, <1>3 DEF CloseBegins, CloseQueues, CloseStops
  <2>3. CloseAwaited => CloserOK /\ LostOK
    BY <1>2, <1>4 DEF CloseAwaited
  <2> QED
    BY <1>7, <2>1, <2>2, <2>3 DEF CloseStep
<1>13. ReaderStep \/ RuntimeStep => closer' = closer /\ lost' = lost
  BY DEF ReaderStep, ReadsAnswer, ReadsNotice, ReaderEnds,
         RuntimeStep, RuntimeStarts, RuntimeRejects, RuntimeSpeaks, RuntimeCompletes,
         RuntimeFails, RuntimeInterrupts, RuntimeUsesTool, RuntimeIsLate, Writes
<1>14. CloserOK /\ LostOK
  BY <1>1, <1>2, <1>7, <1>8, <1>9, <1>11, <1>12, <1>13 DEF Next, vars
<1> QED
  BY <1>14 DEF CloserOK, LostOK

-----------------------------------------------------------------------------
(* The types of the calls.                                                 *)

Places == {"none", "queued", "starting", "ready", "stopping", "ended"} \cup Subscribed
Chunks == Seq((1..MaxCalls) \X (1..MaxParts))

CallsTyped == call \in [Calls -> Call] /\ \A c \in Calls : Len(call[c].heard) <= MaxResponse

LEMMA SameCallsTyped ==
  ASSUME CallsTyped, call' = call
  PROVE  CallsTyped'
BY DEF CallsTyped

LEMMA CallEdit ==
  ASSUME CallsTyped, NEW c \in Calls, NEW k \in Call, Len(k.heard) <= MaxResponse,
         call' = [call EXCEPT ![c] = k]
  PROVE  CallsTyped'
<1>1. call' \in [Calls -> Call]
  BY DEF CallsTyped
<1>2. \A d \in Calls : call'[d] = IF d = c THEN k ELSE call[d]
  BY DEF CallsTyped
<1> QED
  BY <1>1, <1>2 DEF CallsTyped

LEMMA MoveTyped ==
  ASSUME CallsTyped, NEW c \in Calls, NEW at \in Places, Moves(c, at)
  PROVE  CallsTyped'
<1> DEFINE k == [call[c] EXCEPT !.at = at]
<1>1. call[c] \in Call
  BY DEF CallsTyped
<1>2. k \in Call /\ k.heard = call[c].heard
  BY <1>1 DEF Call, Places
<1>3. call' = [call EXCEPT ![c] = k]
  BY DEF Moves
<1> HIDE DEF k
<1> QED
  BY <1>2, <1>3, CallEdit DEF CallsTyped

LEMMA NewCallTyped ==
  ASSUME CallsTyped, NEW c \in Calls, NEW kind \in {"chat", "validate", "models"},
         NEW at \in {"none", "queued"}, NEW context \in Messages,
         call' = [call EXCEPT ![c] = NewCall(kind, at, context)]
  PROVE  CallsTyped'
<1> DEFINE k == NewCall(kind, at, context)
<1>1. k = [kind |-> kind, at |-> at, context |-> context, heard |-> <<>>] /\ k.heard = <<>>
  BY DEF NewCall
<1>2. <<>> \in Chunks /\ Len(<<>>) = 0 /\ 0 <= MaxResponse
  BY ConstantsOK DEF Chunks
<1>3. k \in Call
  BY <1>1, <1>2 DEF Call, Chunks
<1>4. call' = [call EXCEPT ![c] = k]
  OBVIOUS
<1> HIDE DEF k
<1>5. Len(k.heard) <= MaxResponse
  BY <1>1, <1>2
<1> QED
  BY <1>3, <1>4, <1>5, CallEdit

\* Chunks of a turn of which there can be one.
LEMMA ChunksAre ==
  ASSUME NEW s \in Seq(Nat \X Nat), NEW n \in 1..MaxCalls, Len(s) <= MaxParts,
         \A i \in 1..Len(s) : s[i] = <<n, i>>
  PROVE  s \in Chunks
<1> DEFINE P == (1..MaxCalls) \X (1..MaxParts)
           k == Len(s)
<1>2. Len(s) \in Nat /\ s = [i \in 1..Len(s) |-> s[i]]
  BY LenProperties
<1>1. ASSUME NEW i \in 1..Len(s) PROVE s[i] \in P
  <2>1. i \in 1..MaxParts
    BY <1>2, ConstantsOK
  <2>2. s[i] = <<n, i>>
    OBVIOUS
  <2> QED
    BY <2>1, <2>2
<1>4. Chunks = Seq(P)
  BY DEF Chunks
<1> HIDE DEF P
<1>3. k \in Nat /\ s \in [1..k -> P]
  BY <1>1, <1>2
<1> HIDE DEF k
<1>5. s \in Seq(P)
  BY <1>3, SeqDef
<1> QED
  BY <1>4, <1>5

\* A caller that hears a chunk hears one of its turn, which has started.
LEMMA HearsTyped ==
  ASSUME IInv, TurnInv, RepliesInv, MessagesInv, CapInv, CallsTyped, NEW c \in Calls,
         Hears(c), ~Unsettled(c)
  PROVE  CallsTyped'
<1>1. /\ Prompting(c) /\ \A d \in Calls \ {c} : call'[d] = call[d]
      /\ call'[c].at = call[c].at /\ call'[c].context = call[c].context
      /\ call'[c].heard \in Seq(Nat \X Nat) /\ Len(call'[c].heard) <= MaxParts
      /\ \A i \in 1..Len(call'[c].heard) : call'[c].heard[i] = <<Mine, i>>
  BY HearsParts
<1>2. Mine \in 1..MaxCalls
  <2>1. Asked(c) \/ Started(c)
    BY <1>1 DEF TurnInv
  <2>2. ~Asked(c)
    <3>1. turn.queue \in Seq(AgentEvent) /\ turn.queue # <<>> /\ Head(turn.queue).kind = "text"
      BY DEF TurnInv, Typed, Hears, Gets
    <3>2. Has(turn.queue, {"text"})
      BY <3>1, HasTailEvent
    <3> QED
      BY <3>2 DEF Asked
  <2>3. runtime.made = Mine
    BY <2>1, <2>2 DEF Started, Mine
  <2> QED
    BY <2>3, CapBounds, ConstantsOK DEF TurnInv, Typed, Mine
<1>3. call'[c].heard \in Chunks
  BY <1>1, <1>2, ChunksAre
<1> DEFINE e == Head(turn.queue)
           heard == call[c].heard
                      \o [i \in 1..(e.last - e.first + 1) |-> <<e.turn, e.first + i - 1>>]
<1>4. ~(Len(heard) > MaxResponse) /\ call' = [call EXCEPT ![c].heard = heard]
  BY DEF Hears, ReadsText, Unsettled
<1> HIDE DEF heard
<1>5. call[c] \in Call /\ call \in [Calls -> Call]
  BY DEF CallsTyped
<1> DEFINE k == [call[c] EXCEPT !.heard = heard]
<1>6. call' = [call EXCEPT ![c] = k] /\ call'[c].heard = heard /\ k.heard = heard
  BY <1>4, <1>5 DEF Call
<1>7. k \in Call
  BY <1>3, <1>5, <1>6 DEF Call, Chunks
<1>8. Len(k.heard) <= MaxResponse
  <2>1. Len(heard) \in Nat
    BY <1>1, <1>6, LenProperties
  <2> QED
    BY <1>4, <1>6, <2>1, ConstantsOK
<1> HIDE DEF k
<1> QED
  BY <1>6, <1>7, <1>8, CallEdit

LEMMA CallTyped ==
  ASSUME IInv, TurnInv, RepliesInv, MessagesInv, CapInv, CallsTyped, MessagesInv', [Next]_vars
  PROVE  CallsTyped'
<1>1. ASSUME NEW c \in Calls, NEW at \in Places, Moves(c, at) PROVE CallsTyped'
  BY <1>1, MoveTyped
<1>2. ASSUME NEW c \in Calls, NEW o, Leaves(c) \/ Stops(c, o) \/ Settles(c) PROVE CallsTyped'
  <2>1. {"ended", "stopping", "settling"} \subseteq Places
    BY DEF Places, Subscribed, Settling
  <2> QED
    BY <1>1, <1>2, <2>1 DEF Leaves, Stops, Settles
<1>3. ASSUME NEW c \in Calls, Poisons(c) PROVE CallsTyped'
  BY <1>2, <1>3 DEF Poisons
<1>4. ASSUME NEW c \in Calls, NEW o, TurnOver(c, o) PROVE CallsTyped'
  BY <1>2, <1>4 DEF TurnOver
<1>5. ASSUME NEW c \in Calls, Cancelled(c) PROVE CallsTyped'
  <2>1. "ended" \in Places
    BY DEF Places
  <2> QED
    BY <1>1, <1>2, <1>3, <1>5, <2>1 DEF Cancelled
<1>6. ASSUME NEW c \in Calls, CallerStep(c) PROVE CallsTyped'
  <2>1. Commits(c) => CallsTyped'
    <3>1. <<>> \in Messages
      BY DEF Messages
    <3> QED
      BY <3>1, NewCallTyped DEF Commits
  <2>2. ASSUME NEW kind \in {"validate", "models"}, Asks(c, kind) PROVE CallsTyped'
    <3>1. <<>> \in Messages
      BY DEF Messages
    <3> QED
      BY <2>2, <3>1, NewCallTyped DEF Asks
  <2>3. ASSUME Chats(c) PROVE CallsTyped'
    <3>1. PICK context : /\ call' = [call EXCEPT ![c] = NewCall("chat", "queued", context)]
                         /\ voice' = [context |-> context, calls |-> voice.calls + 1]
      BY <2>3 DEF Chats
    <3>2. context \in Messages
      <4>1. voice'.context = context
        BY <3>1
      <4> QED
        BY <4>1 DEF MessagesInv
    <3> QED
      BY <3>1, <3>2, NewCallTyped
  <2> QED
    BY <1>5, <1>6, <2>1, <2>2, <2>3 DEF CallerStep, Cancel
<1>7. ASSUME NEW c \in Calls, Preflight(c) PROVE CallsTyped'
  <2>1. "starting" \in Places /\ "ready" \in Places
    BY DEF Places
  <2>2. Lists(c) => CallsTyped'
    BY <1>2, SameCallsTyped DEF Lists
  <2>3. OpensThread(c) => CallsTyped'
    BY <1>1, <1>2, <2>1 DEF OpensThread
  <2>4. StartsRuntime(c) => CallsTyped'
    BY <1>1, <2>1 DEF StartsRuntime
  <2>5. Returns(c) \/ FindsNoBinary(c) \/ PreflightFails(c) => CallsTyped'
    BY <1>2 DEF Returns, FindsNoBinary, PreflightFails
  <2>6. Relaunches(c) \/ Attests(c) => CallsTyped'
    BY SameCallsTyped DEF Relaunches, Attests
  <2> QED
    BY <1>7, <2>2, <2>3, <2>4, <2>5, <2>6 DEF Preflight
<1>8. ASSUME NEW c \in Calls, TurnStep(c) PROVE CallsTyped'
  <2>1. {"sending", "reading", "idling", "interrupting"} \subseteq Places
    BY DEF Places, Subscribed, Settling
  <2>2. Interrupts(c) => CallsTyped'
    BY <1>1, <2>1 DEF Interrupts
  <2>3. BeginsTurn(c) \/ SendReturns(c) \/ InterruptReturns(c) => CallsTyped'
    BY <1>1, <2>1 DEF BeginsTurn, SendReturns, InterruptReturns
  <2>4. PromptRefused(c) \/ TurnFails(c) => CallsTyped'
    BY <1>2 DEF PromptRefused, TurnFails
  <2>5. ReadsText(c) => Hears(c) \/ Settles(c)
    BY DEF ReadsText, Hears
  <2>6. Hears(c) => CallsTyped'
    BY <1>2, HearsTyped DEF Unsettled
  <2>7. ReadsDone(c) \/ IsIdle(c) => CallsTyped'
    BY <1>4 DEF ReadsDone, IsIdle
  <2>8. SettlingFails(c) => CallsTyped'
    BY <1>3 DEF SettlingFails
  <2> QED
    BY <1>2, <1>8, <2>2, <2>3, <2>4, <2>5, <2>6, <2>7, <2>8 DEF TurnStep
<1>9. ASSUME NEW x \in Calls \cup {Closer}, StopStep(x) PROVE CallsTyped'
  <2>1. call' = call \/ (x \in Calls /\ Moves(x, "ended"))
    BY <1>9 DEF StopStep, Stopped, StopFails, StopReturns
  <2>2. "ended" \in Places
    BY DEF Places
  <2> QED
    BY <1>1, <2>1, <2>2, SameCallsTyped
<1>10. CloseBegins \/ CloseStep => CallsTyped'
  BY <1>5, <1>9, SameCallsTyped
     DEF CloseBegins, CloseStep, CloseCancels, CloseAwaited, CloseQueues, CloseStops
<1>11. ReaderStep \/ RuntimeStep => call' = call
  BY DEF ReaderStep, ReadsAnswer, ReadsNotice, ReaderEnds,
         RuntimeStep, RuntimeStarts, RuntimeRejects, RuntimeSpeaks, RuntimeCompletes,
         RuntimeFails, RuntimeInterrupts, RuntimeUsesTool, RuntimeIsLate, Writes
<1> QED
  BY <1>6, <1>7, <1>8, <1>9, <1>10, <1>11, SameCallsTyped DEF Next, vars

-----------------------------------------------------------------------------
(* The types of the turn.                                                  *)

Answers == {"none", "pending", "answered", "failed"}

TurnTyped(t) == t \in Turn /\ Len(t.queue) <= QueueSize

LEMMA TurnEdits ==
  ASSUME NEW t, TurnTyped(t)
  PROVE  /\ TurnTyped([t EXCEPT !.idle = TRUE]) /\ TurnTyped([t EXCEPT !.failed = TRUE])
         /\ TurnTyped([t EXCEPT !.accepting = FALSE]) /\ TurnTyped([t EXCEPT !.safety = TRUE])
         /\ \A n \in 1..MaxCalls : TurnTyped([t EXCEPT !.seen = @ \cup {n}])
         /\ \A q \in Seq(Event) : Len(q) <= QueueSize => TurnTyped([t EXCEPT !.queue = q])
         /\ \A x \in Answers \cup {"done"} :
              /\ TurnTyped([t EXCEPT !.sent = x])
              /\ \A n \in 0..MaxCalls : TurnTyped([t EXCEPT !.sent = x, !.id = n])
              /\ \A y \in Answers : TurnTyped([t EXCEPT !.sent = x, !.abort = y])
         /\ \A x \in Answers : TurnTyped([t EXCEPT !.abort = x])
<1>1. TurnTyped([t EXCEPT !.idle = TRUE]) /\ TurnTyped([t EXCEPT !.failed = TRUE])
  BY DEF TurnTyped, Turn
<1>2. TurnTyped([t EXCEPT !.accepting = FALSE]) /\ TurnTyped([t EXCEPT !.safety = TRUE])
  BY DEF TurnTyped, Turn
<1>3. ASSUME NEW n \in 1..MaxCalls PROVE TurnTyped([t EXCEPT !.seen = @ \cup {n}])
  BY <1>3 DEF TurnTyped, Turn
<1>4. ASSUME NEW q \in Seq(Event), Len(q) <= QueueSize PROVE TurnTyped([t EXCEPT !.queue = q])
  BY <1>4 DEF TurnTyped, Turn
<1>5. ASSUME NEW x \in Answers \cup {"done"} PROVE TurnTyped([t EXCEPT !.sent = x])
  BY <1>5 DEF TurnTyped, Turn, Answers
<1>6. ASSUME NEW x \in Answers \cup {"done"}, NEW n \in 0..MaxCalls
      PROVE  TurnTyped([t EXCEPT !.sent = x, !.id = n])
  BY <1>6 DEF TurnTyped, Turn, Answers
<1>7. ASSUME NEW x \in Answers \cup {"done"}, NEW y \in Answers
      PROVE  TurnTyped([t EXCEPT !.sent = x, !.abort = y])
  BY <1>7 DEF TurnTyped, Turn, Answers
<1>8. ASSUME NEW x \in Answers PROVE TurnTyped([t EXCEPT !.abort = x])
  BY <1>8 DEF TurnTyped, Turn, Answers
<1> QED
  BY <1>1, <1>2, <1>3, <1>4, <1>5, <1>6, <1>7, <1>8

LEMMA NewTurnTyped ==
  /\ TurnTyped(NoTurn)
  /\ \A n \in 0..MaxCalls, x \in {"pending", "failed"} : TurnTyped([NewTurn(n) EXCEPT !.sent = x])
<1>1. /\ <<>> \in Seq(Event) /\ Len(<<>>) = 0 /\ 0 <= QueueSize /\ 0 \in 0..MaxCalls
      /\ {} \in SUBSET (1..MaxCalls)
  BY ConstantsOK
<1>2. ASSUME NEW n \in 0..MaxCalls PROVE TurnTyped(NewTurn(n))
  <2>1. NewTurn(n).queue = <<>>
    BY DEF NewTurn
  <2>2. NewTurn(n) \in Turn
    BY <1>1, <1>2 DEF NewTurn, Turn
  <2> QED
    BY <1>1, <2>1, <2>2 DEF TurnTyped
<1>3. ASSUME NEW n \in 0..MaxCalls, NEW x \in {"pending", "failed"}
      PROVE  TurnTyped([NewTurn(n) EXCEPT !.sent = x])
  BY <1>2, <1>3, TurnEdits DEF Answers
<1>4. TurnTyped(NoTurn)
  <2> DEFINE t == [NewTurn(0) EXCEPT !.accepting = FALSE]
  <2>1. TurnTyped(t)
    BY <1>1, <1>2, TurnEdits
  <2>2. NoTurn = [t EXCEPT !.sent = "none"]
    BY DEF NoTurn
  <2> HIDE DEF t
  <2> QED
    BY <2>1, <2>2, TurnEdits DEF Answers
<1> QED
  BY <1>3, <1>4

LEMMA PutTyped ==
  ASSUME NEW t, TurnTyped(t), NEW kind \in {"text", "done", "error"}, NEW n \in 0..MaxCalls,
         NEW first \in 0..MaxParts, NEW last \in 0..MaxParts
  PROVE  TurnTyped(Put(t, kind, n, first, last))
<1>1. t.queue \in Seq(Event) /\ Len(t.queue) <= QueueSize /\ Len(t.queue) \in Nat
  BY LenProperties DEF TurnTyped, Turn
<1>2. CASE Len(t.queue) = QueueSize
  BY <1>2 DEF Put
<1>3. CASE Len(t.queue) # QueueSize
  <2> DEFINE e == [kind |-> kind, turn |-> n, first |-> first, last |-> last]
             q == Append(t.queue, e)
  <2>1. e \in Event
    BY DEF Event
  <2> HIDE DEF e
  <2>2. q \in Seq(Event) /\ Len(q) = Len(t.queue) + 1
    BY <1>1, <2>1
  <2>3. Len(q) <= QueueSize
    BY <1>1, <1>3, <2>2, ConstantsOK
  <2> HIDE DEF q
  <2>4. TurnTyped([t EXCEPT !.queue = q])
    BY <2>2, <2>3, TurnEdits
  <2>5. Put(t, kind, n, first, last) = [t EXCEPT !.queue = q]
    BY <1>3 DEF Put, q, e
  <2> QED
    BY <2>4, <2>5
<1> QED
  BY <1>2, <1>3

\* What the events do to the turn.
LEMMA EventsTyped ==
  ASSUME NEW t, TurnTyped(t)
  PROVE  /\ TurnTyped(Fails(t)) /\ TurnTyped(OnError(t)) /\ TurnTyped(OnTool(t))
         /\ TurnTyped(OnIdle(t))
         /\ \A n \in 1..MaxCalls, first, last \in 0..MaxParts :
              TurnTyped(OnText(t, n, first, last))
         /\ \A n \in 1..MaxCalls, last \in 0..MaxParts : TurnTyped(OnItem(t, n, last))
<1>1. 0 \in 0..MaxCalls /\ 0 \in 0..MaxParts /\ 1 \in 0..MaxParts /\ 1..MaxCalls \subseteq 0..MaxCalls
  BY ConstantsOK
<1>2. ASSUME NEW u, TurnTyped(u) PROVE TurnTyped(Fails(u))
  <2> DEFINE v == Put(u, "error", 0, 0, 0)
  <2>1. TurnTyped(v)
    BY <1>1, <1>2, PutTyped
  <2>2. Fails(u) = [v EXCEPT !.failed = TRUE]
    BY DEF Fails
  <2> HIDE DEF v
  <2> QED
    BY <2>1, <2>2, TurnEdits
<1>3. TurnTyped(OnError(t))
  BY <1>2 DEF OnError
<1>4. TurnTyped(OnTool(t))
  <2> DEFINE v == Fails(t)
  <2>1. TurnTyped(v)
    BY <1>2
  <2>2. OnTool(t) = IF t.accepting THEN [v EXCEPT !.safety = TRUE] ELSE t
    BY DEF OnTool
  <2> HIDE DEF v
  <2> QED
    BY <2>1, <2>2, TurnEdits
<1>5. TurnTyped(OnIdle(t))
  <2> DEFINE v == IF t.accepting THEN Put(t, "done", 0, 0, 0) ELSE t
  <2>1. TurnTyped(v)
    BY <1>1, PutTyped
  <2>2. OnIdle(t) = [v EXCEPT !.idle = TRUE]
    BY DEF OnIdle
  <2> HIDE DEF v
  <2> QED
    BY <2>1, <2>2, TurnEdits
<1>6. ASSUME NEW n \in 1..MaxCalls, NEW first \in 0..MaxParts, NEW last \in 0..MaxParts
      PROVE  TurnTyped(OnText(t, n, first, last))
  <2> DEFINE v == [t EXCEPT !.seen = @ \cup {n}]
  <2>1. TurnTyped(v)
    BY TurnEdits
  <2>2. OnText(t, n, first, last) = IF ~t.accepting \/ n \in owner.retired THEN t
                                    ELSE IF Len(t.queue) = QueueSize THEN Fails(v)
                                    ELSE Put(v, "text", n, first, last)
    BY DEF OnText
  <2> HIDE DEF v
  <2>3. TurnTyped(Fails(v)) /\ TurnTyped(Put(v, "text", n, first, last))
    BY <1>1, <1>2, <2>1, PutTyped
  <2> QED
    BY <2>2, <2>3
<1>7. ASSUME NEW n \in 1..MaxCalls, NEW last \in 0..MaxParts PROVE TurnTyped(OnItem(t, n, last))
  BY <1>1, <1>6 DEF OnItem
<1> QED
  BY <1>2, <1>3, <1>4, <1>5, <1>6, <1>7

\* The lines in the pipe are of turns that there can be.
LEMMA LinesBounded ==
  ASSUME IInv, TurnInv, CapInv
  PROVE  \A i \in 1..Len(runtime.lines) : runtime.lines[i].turn \in 0..MaxCalls
<1>1. runtime.made \in 0..MaxCalls /\ MaxCalls \in Nat
  BY CapBounds, ConstantsOK
<1>2. 0 \in 0..MaxCalls /\ 1..runtime.made \subseteq 0..MaxCalls
  BY <1>1
<1>3. CASE ~HasHandler
  BY <1>2, <1>3 DEF TurnInv, NothingRuns, LateLines
<1>4. CASE HasHandler
  <2>1. PICK c \in Calls : Prompting(c)
    BY <1>4 DEF HasHandler, Prompting
  <2>2. CASE Asked(c)
    <3>1. runtime.made = turn.before
      BY <2>2 DEF Asked
    <3> QED
      BY <1>2, <2>2, <3>1 DEF Asked, AskedLines
  <2>3. CASE Started(c)
    BY <1>2, <2>3 DEF Started, LinesInv, LinesOf
  <2> QED
    BY <2>1, <2>2, <2>3 DEF TurnInv
<1> QED
  BY <1>3, <1>4

LEMMA AnswerTyped ==
  ASSUME IInv, TurnInv, CapInv, TurnTyped(turn), ReadsAnswer
  PROVE  TurnTyped(turn')
<1> DEFINE line == Head(runtime.lines)
<1>1. runtime.lines \in Seq(AgentLine) /\ runtime.lines # <<>>
  BY DEF TurnInv, Typed, ReadsAnswer, Reads
<1>2. line = runtime.lines[1] /\ 1 \in 1..Len(runtime.lines)
  BY <1>1, TailOfLines
<1>3. line.turn \in 0..MaxCalls
  BY <1>2, LinesBounded
<1>4. \/ turn' = turn
      \/ turn' = [turn EXCEPT !.sent = "answered", !.id = line.turn]
      \/ turn' = [turn EXCEPT !.sent = "failed", !.id = line.turn]
      \/ turn' = [turn EXCEPT !.abort = "answered"]
      \/ turn' = [turn EXCEPT !.abort = "failed"]
  BY DEF ReadsAnswer
<1> DEFINE n == line.turn
<1>5. n \in 0..MaxCalls
  BY <1>3
<1> HIDE DEF line, n
<1>6. /\ TurnTyped([turn EXCEPT !.sent = "answered", !.id = n])
      /\ TurnTyped([turn EXCEPT !.sent = "failed", !.id = n])
      /\ TurnTyped([turn EXCEPT !.abort = "answered"])
      /\ TurnTyped([turn EXCEPT !.abort = "failed"])
  BY <1>5, TurnEdits DEF Answers
<1> QED
  BY <1>4, <1>6 DEF n

LEMMA NoticeTyped ==
  ASSUME IInv, TurnInv, CapInv, TurnTyped(turn), ReadsNotice
  PROVE  TurnTyped(turn')
<1> DEFINE line == Head(runtime.lines)
<1>1. CASE ~HasHandler \/ ~Taken(line)
  <2>1. turn' = turn
    BY <1>1 DEF ReadsNotice, Emits
  <2> QED
    BY <2>1
<1>2. CASE HasHandler /\ Taken(line)
  <2>1. /\ runtime.lines \in Seq(AgentLine) /\ runtime.lines # <<>>
        /\ line.kind \in {"started", "delta", "item", "tool", "error"} \cup Ends
    BY DEF TurnInv, Typed, ReadsNotice, Reads, Ends
  <2>2. PICK c \in Calls : Prompting(c)
    BY <1>2 DEF HasHandler, Prompting
  <2>3. Started(c) /\ line.turn = Mine
    BY <1>2, <2>1, <2>2, TakenIs
  <2>4. line.turn \in 1..MaxCalls
    <3>1. runtime.made = turn.before + 1 /\ turn.before \in Nat /\ line.turn = turn.before + 1
      BY <2>3 DEF Started, Mine, TurnInv, Typed
    <3>2. runtime.made \in 0..MaxCalls /\ MaxCalls \in Nat
      BY CapBounds, ConstantsOK
    <3> QED
      BY <3>1, <3>2
  <2>5. line.part \in 0..MaxParts
    <3>1. line \in AgentLine
      BY <2>1, TailOfLines
    <3> HIDE DEF line
    <3> QED
      BY <3>1 DEF AgentLine
  <2>6. \/ turn' = turn
        \/ turn' = OnText(turn, line.turn, line.part, line.part)
        \/ turn' = OnItem(turn, line.turn, line.part)
        \/ turn' = OnTool(turn) \/ turn' = OnError(turn)
        \/ turn' = OnIdle(IF line.kind = "failed" THEN OnError(turn) ELSE turn)
    BY <1>2 DEF ReadsNotice, Emits
  <2> HIDE DEF line
  <2>7. TurnTyped(OnIdle(IF line.kind = "failed" THEN OnError(turn) ELSE turn))
    BY EventsTyped
  <2> QED
    BY <2>4, <2>5, <2>6, <2>7, EventsTyped
<1> QED
  BY <1>1, <1>2

LEMMA EndTyped ==
  ASSUME TurnTyped(turn), ReaderEnds
  PROVE  TurnTyped(turn')
<1> DEFINE x == IF turn.sent = "pending" THEN "failed" ELSE turn.sent
           y == IF turn.abort = "pending" THEN "failed" ELSE turn.abort
           failed == [turn EXCEPT !.sent = x, !.abort = y]
<1>1. x \in Answers \cup {"done"} /\ y \in Answers
  BY DEF TurnTyped, Turn, Answers
<1>2. turn' = OnError(failed) \/ turn' = failed
  BY DEF ReaderEnds
<1> HIDE DEF x, y
<1>3. TurnTyped(failed)
  BY <1>1, TurnEdits
<1> HIDE DEF failed
<1> QED
  BY <1>2, <1>3, EventsTyped

LEMMA TurnStepTyped ==
  ASSUME IInv, TurnInv, CapInv, TurnTyped(turn), [Next]_vars
  PROVE  TurnTyped(turn')
<1>1. Aside \/ Blank => TurnTyped(turn')
  BY NewTurnTyped DEF Aside, Blank
<1>2. RuntimeStep => turn' = turn
  BY DEF RuntimeStep, RuntimeStarts, RuntimeRejects, RuntimeSpeaks, RuntimeCompletes,
         RuntimeFails, RuntimeInterrupts, RuntimeUsesTool, RuntimeIsLate, Writes
<1>3. ASSUME NEW c, Settles(c) PROVE TurnTyped(turn')
  BY <1>3, TurnEdits DEF Settles
<1>4. ASSUME NEW c \in Calls, BeginsTurn(c) PROVE TurnTyped(turn')
  <2>1. PICK x \in {"pending", "failed"} : turn' = [NewTurn(runtime.made) EXCEPT !.sent = x]
    BY <1>4 DEF BeginsTurn
  <2> QED
    BY <2>1, NewTurnTyped, CapBounds
<1>5. ASSUME NEW c \in Calls, Hears(c) PROVE TurnTyped(turn')
  <2>1. CASE Settles(c)
    BY <1>3, <2>1
  <2>2. CASE ~Settles(c)
    <3> DEFINE q == Tail(turn.queue)
    <3>1. turn' = [turn EXCEPT !.queue = q] /\ turn.queue # <<>>
      BY <1>5, <2>2 DEF Hears, ReadsText, Gets
    <3>2. turn.queue \in Seq(Event) /\ Len(turn.queue) <= QueueSize
      BY DEF TurnTyped, Turn
    <3>3. q \in Seq(Event) /\ Len(q) <= QueueSize
      BY <3>1, <3>2, ConstantsOK
    <3> HIDE DEF q
    <3>4. TurnTyped([turn EXCEPT !.queue = q])
      BY <3>3, TurnEdits
    <3> QED
      BY <3>1, <3>4
  <2> QED
    BY <2>1, <2>2
<1>6. ASSUME NEW c \in Calls, Interrupts(c) PROVE TurnTyped(turn')
  <2>1. \/ turn' = [turn EXCEPT !.sent = "done"]
        \/ turn' = [turn EXCEPT !.sent = "done", !.abort = "pending"]
    BY <1>6 DEF Interrupts
  <2>2. "done" \in Answers \cup {"done"} /\ "pending" \in Answers
    BY DEF Answers
  <2>3. TurnTyped([turn EXCEPT !.sent = "done"])
    BY <2>2, TurnEdits
  <2>4. TurnTyped([turn EXCEPT !.sent = "done", !.abort = "pending"])
    BY <2>2, TurnEdits
  <2> QED
    BY <2>1, <2>3, <2>4
<1>7. ASSUME NEW c \in Calls, SendReturns(c) PROVE TurnTyped(turn')
  BY <1>7, TurnEdits DEF SendReturns
<1>8. ASSUME NEW c \in Calls, Unsettled(c) \/ InterruptReturns(c) \/ Finishes(c)
      PROVE  TurnTyped(turn')
  BY <1>3, <1>8, FinishLeaves, NewTurnTyped DEF Unsettled, InterruptReturns
<1>9. ReaderStep => TurnTyped(turn')
  BY AnswerTyped, NoticeTyped, EndTyped DEF ReaderStep
<1> QED
  BY <1>1, <1>2, <1>4, <1>5, <1>6, <1>7, <1>8, <1>9, StepClass

-----------------------------------------------------------------------------
(* The types of the transport and of the process.                          *)

CodexTyped(k) == k.boot \in Boot /\ k.reader \in BOOLEAN

LEMMA CodexKeeps ==
  ASSUME Shape, CodexTyped(codex), [Next]_vars
  PROVE  CodexTyped(codex')
<1>1. codex' = codex => CodexTyped(codex')
  OBVIOUS
<1>2. codex' = NoCodex => CodexTyped(codex')
  BY DEF NoCodex, Launched, CodexTyped, Boot
<1>3. ASSUME NEW b \in Boot
      PROVE  /\ codex' = Launched(b) => CodexTyped(codex')
             /\ codex' = [codex EXCEPT !.boot = b] => CodexTyped(codex')
  <2>1. CodexTyped(Launched(b))
    BY DEF Launched, CodexTyped
  <2>2. codex' = [codex EXCEPT !.boot = b] => CodexTyped(codex')
    BY <1>3 DEF CodexTyped, Shape, CodexShape
  <2> QED
    BY <2>1, <2>2
<1>4. ASSUME NEW x, NEW y
      PROVE  /\ codex' = [codex EXCEPT !.turn = x] => CodexTyped(codex')
             /\ codex' = [codex EXCEPT !.turn = x, !.retired = y] => CodexTyped(codex')
  BY <1>4 DEF CodexTyped, Shape
<1>5. codex' = [codex EXCEPT !.reader = FALSE] => CodexTyped(codex')
  BY DEF CodexTyped, Shape
<1>6. codex' = Sent => CodexTyped(codex')
  BY <1>1, <1>4 DEF Sent
<1> HIDE DEF CodexTyped
<1>7. ASSUME NEW x, NEW o, Stops(x, o) PROVE CodexTyped(codex')
  BY <1>2, <1>7 DEF Stops, Drops
<1>8. ASSUME NEW c, Cancelled(c) PROVE CodexTyped(codex')
  BY <1>1, <1>7, <1>8 DEF Cancelled, Poisons
<1>9. ASSUME NEW x, StopStep(x) PROVE CodexTyped(codex')
  BY <1>1, <1>9 DEF StopStep, Stopped, StopFails
<1>10. ASSUME NEW c, CallerStep(c) PROVE CodexTyped(codex')
  BY <1>1, <1>8, <1>10 DEF CallerStep, Chats, Asks, Commits, Cancel
<1>11. ASSUME NEW c, Preflight(c) PROVE CodexTyped(codex')
  <2>1. {"discovering", "attesting", "listing", "opening", "open"} \subseteq Boot
    BY DEF Boot
  <2>2. Lists(c) => CodexTyped(codex')
    BY <1>3, <1>7, <2>1 DEF Lists
  <2>3. StartsRuntime(c) \/ Relaunches(c) \/ Attests(c) \/ OpensThread(c) => CodexTyped(codex')
    BY <1>3, <2>1 DEF StartsRuntime, Relaunches, Attests, OpensThread
  <2>4. FindsNoBinary(c) \/ PreflightFails(c) => CodexTyped(codex')
    BY <1>7 DEF FindsNoBinary, PreflightFails
  <2>5. Returns(c) => CodexTyped(codex')
    BY <1>1 DEF Returns
  <2> QED
    BY <1>11, <2>2, <2>3, <2>4, <2>5 DEF Preflight
<1>12. ASSUME NEW c, TurnStep(c) PROVE CodexTyped(codex')
  <2>1. ASSUME NEW o, TurnOver(c, o) PROVE CodexTyped(codex')
    BY <1>1, <1>7, <2>1 DEF TurnOver
  <2>2. ReadsDone(c) \/ IsIdle(c) => CodexTyped(codex')
    BY <2>1 DEF ReadsDone, IsIdle
  <2>3. SettlingFails(c) => CodexTyped(codex')
    BY <1>7 DEF SettlingFails, Poisons
  <2>4. SendReturns(c) \/ Interrupts(c) => CodexTyped(codex')
    BY <1>1, <1>6 DEF SendReturns, Interrupts
  <2>5. PromptRefused(c) \/ BeginsTurn(c) \/ TurnFails(c) \/ ReadsText(c) \/ InterruptReturns(c)
          => codex' = codex
    BY DEF PromptRefused, BeginsTurn, TurnFails, ReadsText, InterruptReturns
  <2> QED
    BY <1>1, <1>12, <2>2, <2>3, <2>4, <2>5 DEF TurnStep
<1>13. CloseBegins \/ CloseStep => CodexTyped(codex')
  BY <1>1, <1>2, <1>8, <1>9
     DEF CloseBegins, CloseStep, CloseCancels, CloseAwaited, CloseQueues, CloseStops, Drops
<1>14. ReaderStep => CodexTyped(codex')
  BY <1>1, <1>4, <1>5 DEF ReaderStep, ReadsAnswer, ReadsNotice, ReaderEnds
<1>15. RuntimeStep => codex' = codex
  BY DEF RuntimeStep, RuntimeStarts, RuntimeRejects, RuntimeSpeaks, RuntimeCompletes,
         RuntimeFails, RuntimeInterrupts, RuntimeUsesTool, RuntimeIsLate, Writes
<1> QED
  BY <1>1, <1>9, <1>10, <1>11, <1>12, <1>13, <1>14, <1>15 DEF Next, vars

\* What a request of the adapter and a thread are.
ProcessTyped(r) == r.thread \in Messages /\ r.requests \in Seq(Request)

\* The process r is the present one, and lives as it did.
LEMMA ProcessesOf ==
  ASSUME Shape
  PROVE  /\ IsProcess(Handled, runtime.alive) /\ IsProcess(runtime, runtime.alive)
         /\ \A x : IsProcess([runtime EXCEPT !.said = x], runtime.alive)
         /\ \A x : IsProcess(Over(runtime, x), runtime.alive)
         /\ \A x : IsProcess(Over(Handled, x), runtime.alive)
         /\ \A n, x : IsProcess(Begins(Handled, n, x), runtime.alive)
<1>1. IsProcess(Handled, runtime.alive) /\ IsProcess(runtime, runtime.alive)
  BY HandledFields
<1> QED
  BY <1>1, ProcessStays, OverFields, StartedFields

LEMMA AliveWrites ==
  ASSUME NEW r, NEW s, Writes(r, s), IsProcess(r, runtime.alive)
  PROVE  runtime'.alive = runtime.alive
<1>1. runtime' = [r EXCEPT !.lines = runtime.lines \o s]
  BY DEF Writes
<1>2. \A x : IsProcess([r EXCEPT !.lines = x], runtime.alive)
  BY ProcessField
<1> QED
  BY <1>1, <1>2 DEF IsProcess

LEMMA RuntimeAlive ==
  ASSUME Shape, RuntimeStep
  PROVE  runtime'.alive = runtime.alive
<1>1. RuntimeStarts => runtime'.alive = runtime.alive
  <2> SUFFICES ASSUME RuntimeStarts PROVE runtime'.alive = runtime.alive
    OBVIOUS
  <2>1. PICK n, x, s : Writes(Begins(Handled, n, x), s)
    BY DEF RuntimeStarts, Begins
  <2> QED
    BY <2>1, ProcessesOf, AliveWrites
<1>2. RuntimeRejects => runtime'.alive = runtime.alive
  BY ProcessesOf, AliveWrites DEF RuntimeRejects
<1>3. RuntimeSpeaks => runtime'.alive = runtime.alive
  BY ProcessesOf, AliveWrites DEF RuntimeSpeaks
<1>4. RuntimeCompletes => runtime'.alive = runtime.alive
  BY ProcessesOf, AliveWrites DEF RuntimeCompletes
<1>5. RuntimeFails => runtime'.alive = runtime.alive
  BY ProcessesOf, AliveWrites DEF RuntimeFails
<1>6. RuntimeInterrupts => runtime'.alive = runtime.alive
  BY ProcessesOf, AliveWrites DEF RuntimeInterrupts
<1>7. RuntimeUsesTool \/ RuntimeIsLate => runtime'.alive = runtime.alive
  BY ProcessesOf, AliveWrites DEF RuntimeUsesTool, RuntimeIsLate
<1> QED
  BY <1>1, <1>2, <1>3, <1>4, <1>5, <1>6, <1>7 DEF RuntimeStep

LEMMA AliveTyped ==
  ASSUME Shape, runtime.alive \in BOOLEAN, [Next]_vars
  PROVE  runtime'.alive \in BOOLEAN
<1>1. runtime' = runtime => runtime'.alive \in BOOLEAN
  OBVIOUS
<1>2. runtime' = NoProcess \/ runtime' = NewProcess => runtime'.alive \in BOOLEAN
  <2>1. NewProcess.alive = TRUE /\ NoProcess.alive = FALSE
    BY DEF NoProcess, NewProcess
  <2> QED
    BY <2>1
<1>3. ASSUME NEW o, Drops(o) PROVE runtime'.alive \in BOOLEAN
  BY <1>3 DEF Drops, NoProcess, NewProcess
<1>4. ASSUME NEW x, runtime' = [runtime EXCEPT !.requests = x] \/ runtime' = [runtime EXCEPT !.lines = x]
      PROVE  runtime'.alive \in BOOLEAN
  BY <1>4 DEF Shape
<1>5. ASSUME NEW a \in BOOLEAN, runtime' = [runtime EXCEPT !.alive = a, !.requests = <<>>, !.lines = <<>>]
      PROVE  runtime'.alive \in BOOLEAN
  BY <1>5 DEF Shape
<1>6. ASSUME NEW c, Cancelled(c) PROVE runtime'.alive \in BOOLEAN
  BY <1>1, <1>3, <1>6 DEF Cancelled, Poisons, Stops
<1>7. ASSUME NEW x, StopStep(x) PROVE runtime'.alive \in BOOLEAN
  BY <1>1, <1>2, <1>7 DEF StopStep, Stopped, StopFails
<1>8. ASSUME NEW c, CallerStep(c) PROVE runtime'.alive \in BOOLEAN
  BY <1>1, <1>6, <1>8 DEF CallerStep, Chats, Asks, Commits, Cancel
<1>9. ASSUME NEW c, Preflight(c) PROVE runtime'.alive \in BOOLEAN
  <2>1. Lists(c) => runtime'.alive \in BOOLEAN
    BY <1>1, <1>3 DEF Lists, Stops
  <2>2. StartsRuntime(c) \/ Relaunches(c) => runtime' = NewProcess
    BY DEF StartsRuntime, Relaunches
  <2>3. FindsNoBinary(c) \/ PreflightFails(c) => Drops(owner)
    BY DEF FindsNoBinary, PreflightFails, Stops
  <2>4. Returns(c) \/ Attests(c) \/ OpensThread(c) => runtime' = runtime
    BY DEF Returns, Attests, OpensThread
  <2> QED
    BY <1>1, <1>2, <1>3, <1>9, <2>1, <2>2, <2>3, <2>4 DEF Preflight
<1>10. ASSUME NEW c, TurnStep(c) PROVE runtime'.alive \in BOOLEAN
  <2>1. ASSUME NEW o, TurnOver(c, o) PROVE runtime'.alive \in BOOLEAN
    BY <1>1, <1>3, <2>1 DEF TurnOver, Stops
  <2>2. ReadsDone(c) \/ IsIdle(c) => runtime'.alive \in BOOLEAN
    BY <2>1 DEF ReadsDone, IsIdle
  <2>3. SettlingFails(c) => runtime'.alive \in BOOLEAN
    BY <1>3 DEF SettlingFails, Poisons, Stops
  <2>4. BeginsTurn(c) => runtime'.alive \in BOOLEAN
    BY <1>4 DEF BeginsTurn
  <2>5. Interrupts(c) => runtime'.alive \in BOOLEAN
    BY <1>1, <1>4 DEF Interrupts
  <2>6. PromptRefused(c) \/ SendReturns(c) \/ TurnFails(c) \/ ReadsText(c) \/ InterruptReturns(c)
          => runtime' = runtime
    BY DEF PromptRefused, SendReturns, TurnFails, ReadsText, InterruptReturns
  <2> QED
    BY <1>1, <1>10, <2>2, <2>3, <2>4, <2>5, <2>6 DEF TurnStep
<1>11. CloseBegins \/ CloseStep => runtime'.alive \in BOOLEAN
  BY <1>1, <1>3, <1>6, <1>7
     DEF CloseBegins, CloseStep, CloseCancels, CloseAwaited, CloseQueues, CloseStops
<1>12. ReaderStep => runtime'.alive \in BOOLEAN
  BY <1>4, <1>5 DEF ReaderStep, ReadsAnswer, ReadsNotice, Reads, ReaderEnds
<1>13. RuntimeStep => runtime'.alive \in BOOLEAN
  BY RuntimeAlive
<1> QED
  BY <1>1, <1>7, <1>8, <1>9, <1>10, <1>11, <1>12, <1>13 DEF Next, vars

\* A process that is written to or read from keeps its conversation.
LEMMA ProcessEdits ==
  ASSUME NEW r, NEW alive, IsProcess(r, alive), ProcessTyped(r), NEW x
  PROVE  /\ ProcessTyped([r EXCEPT !.lines = x]) /\ ProcessTyped([r EXCEPT !.said = x])
         /\ x \in Seq(Request) => ProcessTyped([r EXCEPT !.requests = x])
         /\ x \in 0..MaxParts => ProcessTyped(Over(r, x))
<1>1. /\ ProcessTyped([r EXCEPT !.lines = x]) /\ ProcessTyped([r EXCEPT !.said = x])
  BY DEF ProcessTyped, IsProcess
<1>2. x \in Seq(Request) => ProcessTyped([r EXCEPT !.requests = x])
  BY DEF ProcessTyped, IsProcess
<1>3. ASSUME x \in 0..MaxParts PROVE ProcessTyped(Over(r, x))
  <2> DEFINE t == r.thread
             u == Over(r, x)
  <2>1. u.requests = r.requests /\ u.thread = IF x = 0 THEN t ELSE Append(t, x)
    <3>1. [r EXCEPT !.running = 0, !.said = 0, !.thread = t].requests = r.requests
      BY DEF IsProcess
    <3> DEFINE w == IF x = 0 THEN t ELSE Append(t, x)
    <3>2. u = [r EXCEPT !.running = 0, !.said = 0, !.thread = w]
      BY DEF Over
    <3> HIDE DEF w, u
    <3>3. u.requests = r.requests /\ u.thread = w
      BY <3>2 DEF IsProcess
    <3> QED
      BY <3>3 DEF w
  <2>2. t \in Seq(0..MaxParts)
    BY DEF ProcessTyped, Messages
  <2> HIDE DEF t, u
  <2>3. Append(t, x) \in Seq(0..MaxParts)
    BY <1>3, <2>2
  <2>4. u.thread \in Messages
    BY <2>1, <2>2, <2>3 DEF Messages
  <2> QED
    BY <2>1, <2>4 DEF ProcessTyped, u
<1> QED
  BY <1>1, <1>2, <1>3

LEMMA WritesTyped ==
  ASSUME NEW r, NEW s, NEW alive, Writes(r, s), IsProcess(r, alive), ProcessTyped(r)
  PROVE  ProcessTyped(runtime')
BY ProcessEdits DEF Writes

LEMMA RuntimeTyped ==
  ASSUME IInv, TurnInv, RepliesInv, MessagesInv, ProcessTyped(runtime), RuntimeStep
  PROVE  ProcessTyped(runtime')
<1>1. /\ Shape /\ IsProcess(runtime, runtime.alive) /\ IsProcess(Handled, runtime.alive)
      /\ runtime.said \in 0..MaxParts
  BY ProcessesOf DEF IInv, TurnInv, Typed
<1>2. ASSUME NEW kind, NextRequest(kind) PROVE ProcessTyped(Handled)
  <2> DEFINE x == Tail(runtime.requests)
  <2>1. x \in Seq(Request)
    BY <1>2 DEF ProcessTyped, NextRequest
  <2> HIDE DEF x
  <2>2. Handled = [runtime EXCEPT !.requests = x]
    BY DEF Handled, x
  <2> QED
    BY <1>1, <2>1, <2>2, ProcessEdits
<1>3. RuntimeStarts => ProcessTyped(runtime')
  <2> SUFFICES ASSUME RuntimeStarts PROVE ProcessTyped(runtime')
    OBVIOUS
  <2> DEFINE n == runtime.made + 1
             thread == Applied(Head(runtime.requests))
             q == Begins(Handled, n, thread)
  <2>1. Handled.thread = runtime.thread /\ NextRequest("start")
    BY <1>1, HandledFields DEF RuntimeStarts
  <2>2. PICK s : Writes(q, s)
    BY <2>1 DEF RuntimeStarts, Begins, Applied
  <2>3. PICK c \in Calls : Prompting(c)
    BY <2>1, RequestIs DEF HasHandler, Prompting
  <2>4. thread = call[c].context /\ thread \in Messages
    BY <2>1, <2>3 DEF RepliesInv, ReplyInv, ThreadInv, MessagesInv
  <2> HIDE DEF n, thread
  <2>5. IsProcess(q, runtime.alive) /\ q.thread = thread /\ q.requests = Handled.requests
    BY <1>1, StartedFields
  <2>6. Handled.requests \in Seq(Request)
    BY <1>2, <2>1 DEF ProcessTyped
  <2> HIDE DEF q
  <2> QED
    BY <2>2, <2>4, <2>5, <2>6, WritesTyped DEF ProcessTyped
<1>4. RuntimeRejects => ProcessTyped(runtime')
  BY <1>1, <1>2, WritesTyped DEF RuntimeRejects
<1>5. RuntimeSpeaks => ProcessTyped(runtime')
  <2> DEFINE r == [runtime EXCEPT !.said = @ + 1]
  <2>1. IsProcess(r, runtime.alive) /\ ProcessTyped(r)
    BY <1>1, ProcessesOf, ProcessEdits
  <2> QED
    BY <2>1, WritesTyped DEF RuntimeSpeaks
<1>6. RuntimeCompletes => ProcessTyped(runtime')
  <2> SUFFICES ASSUME RuntimeCompletes PROVE ProcessTyped(runtime')
    OBVIOUS
  <2>1. PICK said \in 0..MaxParts : \E s : Writes(Over(runtime, said), s)
    BY <1>1 DEF RuntimeCompletes
  <2>2. ProcessTyped(Over(runtime, said)) /\ IsProcess(Over(runtime, said), runtime.alive)
    BY <1>1, ProcessEdits, ProcessesOf
  <2> QED
    BY <2>1, <2>2, WritesTyped
<1>7. RuntimeFails => ProcessTyped(runtime')
  <2>1. /\ ProcessTyped(Over(runtime, runtime.said))
        /\ IsProcess(Over(runtime, runtime.said), runtime.alive)
    BY <1>1, ProcessEdits, ProcessesOf
  <2> QED
    BY <1>1, <2>1, WritesTyped DEF RuntimeFails
<1>8. RuntimeInterrupts => ProcessTyped(runtime')
  <2> SUFFICES ASSUME RuntimeInterrupts PROVE ProcessTyped(runtime')
    OBVIOUS
  <2>1. ProcessTyped(Handled)
    BY <1>2 DEF RuntimeInterrupts
  <2>2. /\ ProcessTyped(Over(Handled, runtime.said))
        /\ IsProcess(Over(Handled, runtime.said), runtime.alive)
    BY <1>1, <2>1, ProcessEdits, ProcessesOf
  <2>3. PICK s : Writes(Over(Handled, runtime.said), s) \/ Writes(Handled, s)
    BY DEF RuntimeInterrupts
  <2> QED
    BY <1>1, <2>1, <2>2, <2>3, WritesTyped
<1>9. RuntimeUsesTool \/ RuntimeIsLate => ProcessTyped(runtime')
  BY <1>1, WritesTyped DEF RuntimeUsesTool, RuntimeIsLate
<1> QED
  BY <1>3, <1>4, <1>5, <1>6, <1>7, <1>8, <1>9 DEF RuntimeStep

\* What the adapter sends.
LEMMA PromptTyped ==
  ASSUME MessagesInv, ProcessTyped(runtime), NEW c \in Calls
  PROVE  [kind |-> "start", turn |-> 0, replace |-> Snapshot(call[c].context),
          messages |-> Additions(call[c].context)] \in Request
<1> DEFINE context == call[c].context
           b == Snapshot(context)
           m == Additions(context)
<1>1. context \in Seq(0..MaxParts) /\ owner.history \in Seq(0..MaxParts)
  BY DEF MessagesInv, Messages
<1>2. m \in Messages
  <2>1. CASE b
    BY <1>1, <2>1 DEF Additions, Messages
  <2>2. CASE ~b
    <3> DEFINE h == owner.history
    <3>1. Len(h) \in Nat /\ Len(context) \in Nat
      BY <1>1, LenProperties
    <3>2. m = SubSeq(context, Len(h) + 1, Len(context))
      BY <2>2 DEF Additions
    <3> HIDE DEF context, h, m, b
    <3> DEFINE first == Len(h) + 1
               last == Len(context)
    <3>3. first \in Int /\ last \in Int /\ \A i \in first..last : i \in 1..Len(context)
      BY <3>1
    <3> HIDE DEF first, last
    <3>4. \A i \in first..last : context[i] \in 0..MaxParts
      BY <1>1, <3>3, ElementOfSeq
    <3>5. SubSeq(context, first, last) \in Seq(0..MaxParts)
      BY <3>3, <3>4, SubSeqProperties
    <3> QED
      BY <3>2, <3>5 DEF Messages, first, last
  <2> QED
    BY <2>1, <2>2
<1>3. b \in BOOLEAN
  BY DEF Snapshot
<1>4. 0 \in 0..MaxCalls
  BY ConstantsOK
<1> HIDE DEF b, m
<1>5. [kind |-> "start", turn |-> 0, replace |-> b, messages |-> m] \in Request
  BY <1>2, <1>3, <1>4 DEF Request
<1> QED
  BY <1>5 DEF b, m

LEMMA RequestSent ==
  ASSUME Shape, ProcessTyped(runtime), NEW x \in Request,
         runtime' = [runtime EXCEPT !.requests = IF runtime.alive THEN Append(@, x) ELSE @]
  PROVE  ProcessTyped(runtime')
<1> DEFINE q == runtime.requests
           p == IF runtime.alive THEN Append(q, x) ELSE q
<1>1. q \in Seq(Request)
  BY DEF ProcessTyped
<1>2. runtime' = [runtime EXCEPT !.requests = p]
  OBVIOUS
<1>3. IsProcess(runtime, runtime.alive)
  BY ProcessStays
<1> HIDE DEF q
<1>4. Append(q, x) \in Seq(Request)
  BY <1>1
<1>5. p \in Seq(Request)
  BY <1>1, <1>4
<1> HIDE DEF p
<1>6. ProcessTyped([runtime EXCEPT !.requests = p])
  BY <1>3, <1>5, ProcessEdits
<1> QED
  BY <1>2, <1>6

LEMMA CodexBounded ==
  ASSUME IInv, TurnInv, CapInv
  PROVE  /\ codex.turn \in 0..MaxCalls /\ codex.retired \in SUBSET (1..MaxCalls)
         /\ runtime.running \in 0..MaxCalls
<1>1. /\ runtime.made \in 0..MaxCalls /\ MaxCalls \in Nat /\ turn.before \in Nat
  BY CapBounds, ConstantsOK DEF TurnInv, Typed
<1>2. 0 \in 0..MaxCalls /\ 1..runtime.made \subseteq 1..MaxCalls
  BY <1>1
<1>3. CASE ~HasHandler
  BY <1>2, <1>3 DEF TurnInv, NothingRuns
<1>4. CASE HasHandler
  <2>1. PICK c \in Calls : Prompting(c)
    BY <1>4 DEF HasHandler, Prompting
  <2>2. CASE Asked(c)
    <3>1. runtime.made = turn.before
      BY <2>2 DEF Asked
    <3> QED
      BY <1>2, <2>2, <3>1 DEF Asked
  <2>3. CASE Started(c)
    <3>1. runtime.made = turn.before + 1 /\ runtime.running \in {0, runtime.made}
      BY <2>3 DEF Started
    <3>2. 1..turn.before \subseteq 1..MaxCalls
      BY <1>1, <3>1
    <3>3. codex.turn \in {0, runtime.made} /\ codex.retired \in {1..runtime.made, 1..turn.before}
      BY <2>3 DEF Started, IdleInv
    <3> QED
      BY <1>1, <1>2, <3>1, <3>2, <3>3
  <2> QED
    BY <2>1, <2>2, <2>3 DEF TurnInv
<1> QED
  BY <1>3, <1>4

LEMMA ProcessKeeps ==
  ASSUME IInv, TurnInv, RepliesInv, MessagesInv, CapInv, TurnTyped(turn),
         ProcessTyped(runtime), [Next]_vars
  PROVE  ProcessTyped(runtime')
<1>1. Shape /\ IsProcess(runtime, runtime.alive)
  BY ProcessStays DEF IInv
<1>2. <<>> \in Messages /\ <<>> \in Seq(Request)
  BY DEF Messages
<1>3. Aside => ProcessTyped(runtime')
  BY DEF Aside
<1>4. Blank => ProcessTyped(runtime')
  BY <1>2 DEF Blank, ProcessTyped
<1>5. ReaderStep => ProcessTyped(runtime')
  <2>1. ReadsAnswer \/ ReadsNotice => ProcessTyped(runtime')
    <3>1. \A x : ProcessTyped([runtime EXCEPT !.lines = x])
      BY <1>1, ProcessEdits
    <3> QED
      BY <3>1 DEF ReadsAnswer, ReadsNotice, Reads
  <2>2. ReaderEnds => ProcessTyped(runtime')
    <3> SUFFICES ASSUME ReaderEnds PROVE ProcessTyped(runtime')
      OBVIOUS
    <3>1. PICK alive : runtime' = [runtime EXCEPT !.alive = alive, !.requests = <<>>, !.lines = <<>>]
      BY DEF ReaderEnds
    <3>2. runtime'.thread = runtime.thread /\ runtime'.requests = <<>>
      BY <1>1, <3>1 DEF IsProcess
    <3> QED
      BY <1>2, <3>2 DEF ProcessTyped
  <2> QED
    BY <2>1, <2>2 DEF ReaderStep
<1>6. RuntimeStep => ProcessTyped(runtime')
  BY RuntimeTyped
<1>7. ASSUME NEW c \in Calls, BeginsTurn(c) PROVE ProcessTyped(runtime')
  <2> DEFINE x == [kind |-> "start", turn |-> 0, replace |-> Snapshot(call[c].context),
                   messages |-> Additions(call[c].context)]
  <2>1. x \in Request
    BY PromptTyped
  <2>2. runtime' = [runtime EXCEPT !.requests = IF runtime.alive THEN Append(@, x) ELSE @]
    BY <1>7 DEF BeginsTurn
  <2> HIDE DEF x
  <2> QED
    BY <1>1, <2>1, <2>2, RequestSent
<1>8. ASSUME NEW c \in Calls, Interrupts(c) PROVE ProcessTyped(runtime')
  <2> DEFINE session == IF turn.sent = "answered" THEN Sent ELSE codex
             n == session.turn
             x == [kind |-> "interrupt", turn |-> n, replace |-> FALSE, messages |-> <<>>]
  <2>1. n \in 0..MaxCalls
    <3>1. turn.id \in 0..MaxCalls /\ codex.turn \in 0..MaxCalls
      BY CodexBounded DEF TurnTyped, Turn
    <3>2. [codex EXCEPT !.turn = turn.id].turn = turn.id
      BY <1>1 DEF Shape
    <3> QED
      BY <3>1, <3>2 DEF Sent
  <2>2. \/ runtime' = runtime
        \/ runtime' = [runtime EXCEPT !.requests = IF runtime.alive THEN Append(@, x) ELSE @]
    BY <1>8 DEF Interrupts
  <2> HIDE DEF n
  <2>3. x \in Request
    BY <1>2, <2>1 DEF Request
  <2> HIDE DEF x
  <2> QED
    BY <1>1, <2>2, <2>3, RequestSent
<1>9. ASSUME NEW c \in Calls, SendReturns(c) \/ Unsettled(c) \/ InterruptReturns(c) \/ Finishes(c)
      PROVE  ProcessTyped(runtime')
  BY <1>9, FinishLeaves DEF SendReturns, Unsettled, InterruptReturns
<1>10. ASSUME NEW c \in Calls, Hears(c) PROVE ProcessTyped(runtime')
  BY <1>10 DEF Hears, ReadsText
<1> QED
  BY <1>3, <1>4, <1>5, <1>6, <1>7, <1>8, <1>9, <1>10, StepClass

-----------------------------------------------------------------------------
(* The fourth inductive invariant: the types.                              *)

TypesInv ==
  /\ CapInv /\ owner \in Owner
  /\ closer \in [at : {"none", "streams", "queued", "stopping", "done"}, awaits : Calls \cup {NoCall}]
  /\ lost \in [cut : BOOLEAN, forgotten : BOOLEAN]
  /\ CallsTyped /\ TurnTyped(turn) /\ CodexTyped(codex)
  /\ runtime.alive \in BOOLEAN /\ ProcessTyped(runtime)

LEMMA TypesInit ==
  ASSUME Init
  PROVE  TypesInv
<1>1. /\ <<>> \in Messages /\ <<>> \in Seq(Request) /\ <<>> \in Chunks /\ Len(<<>>) = 0
      /\ 0 <= MaxResponse /\ 0 \in 0..MaxCalls
  BY ConstantsOK DEF Messages, Chunks
<1>2. CapInv
  <2>1. runtime.made = 0 /\ lock = <<>> /\ voice = [context |-> <<>>, calls |-> 0]
    BY DEF Init, NoProcess, NewProcess
  <2>2. One(Closing) \in {0, 1} /\ One(Counted) \in {0, 1}
    BY OneIs
  <2>3. voice \in [context : Messages, calls : 0..MaxCalls] /\ voice.calls = 0
    BY <1>1, <2>1
  <2> QED
    BY <1>1, <2>1, <2>2, <2>3 DEF CapInv
<1>3. owner \in Owner
  BY <1>1 DEF Init, Owner
<1>4. /\ closer \in [at : {"none", "streams", "queued", "stopping", "done"},
                     awaits : Calls \cup {NoCall}]
      /\ lost \in [cut : BOOLEAN, forgotten : BOOLEAN]
  BY DEF Init
<1>5. CallsTyped
  <2> DEFINE k == NewCall("chat", "none", <<>>)
  <2>1. k \in Call /\ Len(k.heard) <= MaxResponse
    BY <1>1 DEF NewCall, Call, Chunks
  <2>2. call = [c \in Calls |-> k]
    BY DEF Init
  <2> HIDE DEF k
  <2> QED
    BY <2>1, <2>2 DEF CallsTyped
<1>6. TurnTyped(turn)
  BY NewTurnTyped DEF Init
<1>7. CodexTyped(codex)
  BY DEF Init, NoCodex, Launched, CodexTyped, Boot
<1>8. runtime.alive \in BOOLEAN /\ ProcessTyped(runtime)
  <2>1. runtime.alive = FALSE /\ runtime.thread = <<>> /\ runtime.requests = <<>>
    BY DEF Init, NoProcess, NewProcess
  <2> QED
    BY <1>1, <2>1 DEF ProcessTyped
<1> QED
  BY <1>2, <1>3, <1>4, <1>5, <1>6, <1>7, <1>8 DEF TypesInv

LEMMA TypesKeeps ==
  ASSUME IInv, TurnInv, RepliesInv, MessagesInv, TypesInv, IInv', TurnInv', MessagesInv',
         [Next]_vars
  PROVE  TypesInv'
<1>1. Shape /\ turn.seen \in SUBSET (1..MaxCalls)
  BY DEF IInv, TypesInv, TurnTyped, Turn
<1>2. CapInv'
  BY CapKeeps DEF TypesInv
<1>3. owner' \in Owner
  BY <1>1, OwnerTyped DEF TypesInv
<1>4. /\ closer' \in [at : {"none", "streams", "queued", "stopping", "done"},
                      awaits : Calls \cup {NoCall}]
      /\ lost' \in [cut : BOOLEAN, forgotten : BOOLEAN]
  BY CloserTyped DEF TypesInv
<1>5. CallsTyped'
  BY CallTyped DEF TypesInv
<1>6. TurnTyped(turn')
  BY TurnStepTyped DEF TypesInv
<1>7. CodexTyped(codex')
  BY <1>1, CodexKeeps DEF TypesInv
<1>8. runtime'.alive \in BOOLEAN
  BY <1>1, AliveTyped DEF TypesInv
<1>9. ProcessTyped(runtime')
  BY ProcessKeeps DEF TypesInv
<1> QED
  BY <1>2, <1>3, <1>4, <1>5, <1>6, <1>7, <1>8, <1>9 DEF TypesInv, TurnTyped, CodexTyped, ProcessTyped

\* The lines of the process have the turns that there can be.
LEMMA LinesTyped ==
  ASSUME IInv, TurnInv, CapInv
  PROVE  runtime.lines \in Seq(Line)
<1> DEFINE s == runtime.lines
           k == Len(s)
<1>1. s \in Seq(AgentLine)
  BY DEF TurnInv, Typed
<1>2. k \in Nat /\ s = [i \in 1..k |-> s[i]]
  BY <1>1, LenProperties
<1>3. \A i \in 1..k : s[i] \in AgentLine /\ s[i].turn \in 0..MaxCalls
  BY <1>1, LinesBounded, ElementOfSeq
<1> HIDE DEF s, k
<1>4. \A i \in 1..k : s[i] \in Line
  BY <1>3 DEF AgentLine, Line, Ends, Confirms
<1>5. s \in [1..k -> Line]
  BY <1>2, <1>4
<1> QED
  BY <1>2, <1>5, SeqDef DEF s

LEMMA TypesImply ==
  ASSUME IInv, TurnInv, TypesInv
  PROVE  TypeOK
<1>1. Shape /\ CapInv
  BY DEF IInv, TypesInv
<1>2. lock \in Seq(Calls \cup {Closer})
  BY DEF IInv, LockInv
<1>3. codex \in Codex
  <2>1. /\ codex = [boot |-> codex.boot, reader |-> codex.reader, turn |-> codex.turn,
                    retired |-> codex.retired]
        /\ codex.boot \in Boot /\ codex.reader \in BOOLEAN
        /\ codex.turn \in 0..MaxCalls /\ codex.retired \in SUBSET (1..MaxCalls)
    BY <1>1, CodexBounded DEF TypesInv, CodexTyped, Shape
  <2> QED
    BY <2>1 DEF Codex
<1>4. runtime \in Runtime
  <2>1. /\ runtime = [alive |-> runtime.alive, made |-> runtime.made, running |-> runtime.running,
                      said |-> runtime.said, thread |-> runtime.thread,
                      requests |-> runtime.requests, lines |-> runtime.lines]
        /\ runtime.alive \in BOOLEAN /\ runtime.made \in 0..MaxCalls
        /\ runtime.running \in 0..MaxCalls /\ runtime.said \in 0..MaxParts
    BY <1>1, CapBounds, CodexBounded DEF TypesInv, TurnInv, Typed, Shape
  <2>2. runtime.thread \in Messages /\ runtime.requests \in Seq(Request) /\ runtime.lines \in Seq(Line)
    BY <1>1, LinesTyped DEF TypesInv, ProcessTyped
  <2> QED
    BY <2>1, <2>2 DEF Runtime
<1> QED
  BY <1>2, <1>3, <1>4 DEF TypesInv, CapInv, CallsTyped, TurnTyped, TypeOK

\* The turns of the process are no more than the calls: each call in the lock may start one, and
\* the one that prompts has started its own or not; with it, every variable keeps its type.
THEOREM TypeCorrect == Spec => []TypeOK
<1> DEFINE J == IInv /\ TurnInv /\ SessionInv /\ RepliesInv /\ MessagesInv /\ TypesInv
<1>1. Init => J
  BY InitHolds, TurnInit, RepliesInit, TypesInit
<1>2. J /\ [Next]_vars => J'
  BY StepKeeps, TurnStepKeeps, SessionKeeps, RepliesKeeps, MessagesKeeps, TypesKeeps
<1>3. J => TypeOK
  BY TypesImply
<1> QED
  BY <1>1, <1>2, <1>3, PTL DEF Spec

=============================================================================
