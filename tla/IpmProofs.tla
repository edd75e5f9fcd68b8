----------------------------- MODULE IpmProofs -----------------------------
(***************************************************************************)
(* Theorems about Ipm: the message that a TLB shootdown keeps on its stack *)
(* and the flushes it waits for, whatever the number of cpus, the depth of *)
(* nested handlers and the places of preemption; and, without preemption,  *)
(* that every message is noticed.                                          *)
(***************************************************************************)
EXTENDS Ipm, TLAPS

-----------------------------------------------------------------------------
(* What is needed of sequences. *)

\* The length, the domain and the elements of a sequence.
LEMMA SeqElement ==
    ASSUME NEW S, NEW q \in Seq(S)
    PROVE  /\ Len(q) \in Nat /\ DOMAIN q = 1 .. Len(q)
           /\ q # <<>> => Len(q) # 0
           /\ \A i \in 1 .. Len(q) : q[i] \in S
OBVIOUS

\* A sequence is one over any larger set.
LEMMA SeqFunction ==
    ASSUME NEW S, NEW n \in Nat, NEW f \in [1 .. n -> S]
    PROVE  f \in Seq(S)
OBVIOUS

\* An element of a sequence is replaced...
LEMMA SeqReplace ==
    ASSUME NEW S, NEW q \in Seq(S), NEW k \in 1 .. Len(q), NEW x \in S
    PROVE  LET r == [q EXCEPT ![k] = x] IN
           r \in Seq(S) /\ Len(r) = Len(q) /\ \A i \in 1 .. Len(q) : r[i] = IF i = k THEN x ELSE q[i]
OBVIOUS

\* ...an element comes after the last one...
LEMMA SeqAppend ==
    ASSUME NEW S, NEW q \in Seq(S), NEW x \in S
    PROVE  LET r == Append(q, x) IN
           r \in Seq(S) /\ Len(r) = Len(q) + 1 /\ r[Len(q) + 1] = x /\ \A i \in 1 .. Len(q) : r[i] = q[i]
OBVIOUS

\* ...the last one goes...
LEMMA SeqFront ==
    ASSUME NEW S, NEW q \in Seq(S), q # <<>>
    PROVE  LET r == SubSeq(q, 1, Len(q) - 1) IN
           r \in Seq(S) /\ Len(r) = Len(q) - 1 /\ \A i \in 1 .. Len(q) - 1 : r[i] = q[i]
OBVIOUS

\* ...or the first one goes...
LEMMA SeqHeadTail ==
    ASSUME NEW S, NEW q \in Seq(S), q # <<>>
    PROVE  /\ Head(q) = q[1] /\ Head(q) \in S
           /\ Tail(q) \in Seq(S) /\ Len(Tail(q)) = Len(q) - 1 /\ \A i \in 1 .. Len(q) - 1 : Tail(q)[i] = q[i + 1]
OBVIOUS

\* ...or an element comes before the first one.
LEMMA SeqCons ==
    ASSUME NEW S, NEW q \in Seq(S), NEW x \in S
    PROVE  LET r == <<x>> \o q IN
           r \in Seq(S) /\ Len(r) = Len(q) + 1 /\ r[1] = x /\ \A i \in 2 .. Len(q) + 1 : r[i] = q[i - 1]
OBVIOUS

-----------------------------------------------------------------------------
Messages == [tag : {"tlb"}, data : Tasks \X Nat] \cup [tag : {"call"}, data : CallIds]

\* What frames look like: where a shootdown is, what it waits for, and which
\* messages a handler can have at its locations.
TlbFrames ==
    {x \in [fn : {"tlb"}, at : {"inval", "next", "ipi", "wait"}, cpu : 0 .. NCpus, wait : {0, 1},
            irqs : BOOLEAN, stale : SUBSET Cpus] :
        /\ x.at = "inval" => x.cpu = 0
        /\ x.at \in {"inval", "next"} => x.wait = 0
        /\ x.at \in {"ipi", "wait"} => x.cpu # NCpus}

CallFrames ==
    {x \in [fn : {"call"}, at : {"send", "wait"}, id : CallIds, i : Nat, last : Cpus, broadcast : BOOLEAN] :
        x.broadcast \/ x.i \in {x.last, x.last + 1}}

IrqFrames ==
    {x \in [fn : {"irq"}, at : {"entry", "loop", "copy", "flush", "ack", "call", "func", "complete", "forever", "exit"},
            msg : Messages \cup {CallMessage(<<>>)}] :
        /\ x.at \in {"copy", "flush", "ack"} => x.msg \in Messages
        /\ x.at \in {"flush", "ack"} => x.msg.tag = "tlb"}

AllFrames == TlbFrames \cup CallFrames \cup IrqFrames

TypeInv ==
    /\ message_queue \in [Cpus -> Seq(Messages)]
    /\ pending \in [Cpus -> BOOLEAN]
    /\ running \in [Cpus -> Tasks]
    /\ \A c, d \in Cpus : running[c] = running[d] => c = d
    /\ stack \in [Tasks -> Seq(AllFrames)]
    /\ iflag \in [Tasks -> BOOLEAN]
    /\ ops \in [Procs -> 0 .. MaxOps]

\* The shootdown with frame <<t, d>> has sent its message to cpu c and has no
\* acknowledgement yet.
Awaiting(t, d, c) ==
    /\ d \in 1 .. Len(stack[t])
    /\ stack[t][d].fn = "tlb" /\ stack[t][d].at \in {"ipi", "wait"}
    /\ stack[t][d].wait = 1 /\ stack[t][d].cpu = c

\* The handler with frame <<u, e>> has the message of the shootdown <<t, d>>.
Handles(u, e, t, d) ==
    /\ e \in 1 .. Len(stack[u])
    /\ stack[u][e].fn = "irq" /\ stack[u][e].at \in {"copy", "flush", "ack"}
    /\ stack[u][e].msg = TlbMessage(t, d)

\* That message is at position i of the queue of cpu c.
Waiting(c, i, t, d) ==
    /\ i \in 1 .. Len(message_queue[c])
    /\ message_queue[c][i] = TlbMessage(t, d)

\* A message is in one place at most, and only while its shootdown awaits its
\* acknowledgement.  The handler that has it is not preempted, so that it runs
\* on the cpu that the message was sent to.
MessageInv ==
    /\ \A c \in Cpus : \A i \in Nat : \A t \in Tasks : \A d \in Nat :
          Waiting(c, i, t, d) => Awaiting(t, d, c) /\ \A j \in Nat : Waiting(c, j, t, d) => i = j
    /\ \A u \in Tasks : \A e \in Nat : \A t \in Tasks : \A d \in Nat :
          Handles(u, e, t, d) =>
             /\ \E c \in Cpus : Awaiting(t, d, c) /\ running[c] = u
             /\ \A c \in Cpus : \A i \in Nat : ~Waiting(c, i, t, d)
             /\ \A v \in Tasks : \A f \in Nat : Handles(v, f, t, d) => u = v /\ e = f

\* The cpus behind the loop variable have flushed, and so have the cpu that the
\* shootdown runs on and the cpu whose acknowledgement has come...
FlushInv ==
    \A t \in Tasks : \A d \in 1 .. Len(stack[t]) :
        stack[t][d].fn = "tlb" /\ stack[t][d].at # "inval" =>
            /\ \A c \in stack[t][d].stale : c >= stack[t][d].cpu /\ running[c] # t
            /\ stack[t][d].at \in {"ipi", "wait"} /\ stack[t][d].wait = 0 => stack[t][d].cpu \notin stack[t][d].stale

\* ...or is about to.
AckInv ==
    \A u \in Tasks : \A e \in Nat : \A t \in Tasks : \A d \in Nat :
        Handles(u, e, t, d) /\ stack[u][e].at = "ack" => stack[t][d].cpu \notin stack[t][d].stale

IInv == TypeInv /\ MessageInv /\ FlushInv /\ AckInv

-----------------------------------------------------------------------------
(* How steps change the stacks. *)

\* s are the stacks with g on top of t's.
Replaced(s, t, g) ==
    /\ \A u \in Tasks : Len(s[u]) = Len(stack[u])
    /\ \A u \in Tasks : \A d \in 1 .. Len(stack[u]) :
          s[u][d] = IF u = t /\ d = Len(stack[t]) THEN g ELSE stack[u][d]

\* g is a new frame on top of it.
Pushed(t, g) ==
    /\ \A u \in Tasks : Len(stack'[u]) = IF u = t THEN Len(stack[t]) + 1 ELSE Len(stack[u])
    /\ \A u \in Tasks : \A d \in 1 .. Len(stack[u]) : stack'[u][d] = stack[u][d]
    /\ stack'[t][Len(stack[t]) + 1] = g

\* The frame is gone.
Popped(t) ==
    /\ \A u \in Tasks : Len(stack'[u]) = IF u = t THEN Len(stack[t]) - 1 ELSE Len(stack[u])
    /\ \A u \in Tasks : \A d \in 1 .. Len(stack'[u]) : stack'[u][d] = stack[u][d]

\* f is frame g after cpu c has flushed its TLB.
AfterFlush(f, g, c) ==
    /\ f.fn = g.fn /\ f.at = g.at
    /\ g.fn = "tlb" => f.cpu = g.cpu /\ f.wait = g.wait /\ f.stale = g.stale \ {c}
    /\ g.fn # "tlb" => f = g

Typed(s) == s \in [Tasks -> Seq(AllFrames)]

\* A task that executes a frame has one, and knows its cpu.
LEMMA Running ==
    ASSUME TypeInv, NEW t \in Tasks, NEW fn, NEW loc, At(t, fn, loc)
    PROVE  /\ Len(stack[t]) \in Nat \ {0} /\ Len(stack[t]) \in 1 .. Len(stack[t])
           /\ Top(t) = stack[t][Len(stack[t])] /\ Top(t) \in AllFrames /\ Top(t).fn = fn /\ Top(t).at = loc
           /\ cpu_id(t) \in Cpus /\ running[cpu_id(t)] = t
           /\ \A c \in Cpus : running[c] = t => c = cpu_id(t)
<1>1. PICK c \in Cpus : running[c] = t
  BY Zenon DEF At
<1>2. cpu_id(t) \in Cpus /\ running[cpu_id(t)] = t
  BY Zenon, <1>1 DEF cpu_id
<1>3. stack[t] \in Seq(AllFrames) /\ stack[t] # <<>>
  BY Zenon DEF TypeInv, At
<1>4. Len(stack[t]) \in Nat \ {0}
  BY Zenon, <1>3, SeqElement
<1>5. stack[t][Len(stack[t])] \in AllFrames
  BY <1>3, <1>4, SeqElement
<1>6. QED
  BY <1>2, <1>4, <1>5 DEF At, Top, depth, TypeInv

\* Update(): the frame is replaced.
LEMMA Updating ==
    ASSUME TypeInv, NEW t \in Tasks, stack[t] # <<>>, NEW g, NEW s, s = Update(t, g)
    PROVE  Replaced(s, t, g) /\ (g \in AllFrames => Typed(s))
<1> DEFINE S == AllFrames \cup {g}
           n == Len(stack[t])
<1>1. stack[t] \in Seq(AllFrames) /\ n \in Nat /\ n \in 1 .. n
  BY SeqElement DEF TypeInv
<1>2. stack[t] \in Seq(S)
  BY <1>1, SeqFunction
<1>3. s = [stack EXCEPT ![t] = [stack[t] EXCEPT ![n] = g]]
  BY Zenon DEF Update, depth
<1>4. /\ [stack[t] EXCEPT ![n] = g] \in Seq(S)
      /\ Len([stack[t] EXCEPT ![n] = g]) = n
      /\ \A j \in 1 .. n : [stack[t] EXCEPT ![n] = g][j] = IF j = n THEN g ELSE stack[t][j]
  BY <1>1, <1>2, SeqReplace
<1>5. g \in AllFrames => S = AllFrames
  BY Zenon
<1>6. QED
  BY <1>1, <1>3, <1>4, <1>5 DEF TypeInv, Typed, Replaced

\* Goto() is an update, too.
LEMMA Going ==
    ASSUME NEW t, NEW loc
    PROVE  Goto(t, loc) = Update(t, [Top(t) EXCEPT !.at = loc])
BY Zenon DEF Goto, Update, Top, depth

\* Push(): a new frame.
LEMMA Pushing ==
    ASSUME TypeInv, NEW t \in Tasks, NEW g \in AllFrames, stack' = Push(t, g)
    PROVE  Typed(stack') /\ Pushed(t, g)
<1>1. stack[t] \in Seq(AllFrames)
  BY Zenon DEF TypeInv
<1>2. stack' = [stack EXCEPT ![t] = Append(stack[t], g)]
  BY Zenon DEF Push
<1>3. /\ Append(stack[t], g) \in Seq(AllFrames)
      /\ Len(Append(stack[t], g)) = Len(stack[t]) + 1
      /\ \A i \in 1 .. Len(stack[t]) : Append(stack[t], g)[i] = stack[t][i]
      /\ Append(stack[t], g)[Len(stack[t]) + 1] = g
  BY <1>1, SeqAppend
<1>4. QED
  BY <1>2, <1>3 DEF TypeInv, Typed, Pushed

\* Pop(): one frame less.
LEMMA Popping ==
    ASSUME TypeInv, NEW t \in Tasks, stack[t] # <<>>, stack' = Pop(t)
    PROVE  Typed(stack') /\ Popped(t)
<1>1. stack[t] \in Seq(AllFrames) /\ Len(stack[t]) \in Nat \ {0}
  BY Zenon, SeqElement DEF TypeInv
<1>2. stack' = [stack EXCEPT ![t] = SubSeq(stack[t], 1, Len(stack[t]) - 1)]
  BY Zenon DEF Pop
<1>3. /\ SubSeq(stack[t], 1, Len(stack[t]) - 1) \in Seq(AllFrames)
      /\ Len(SubSeq(stack[t], 1, Len(stack[t]) - 1)) = Len(stack[t]) - 1
      /\ \A i \in 1 .. Len(stack[t]) - 1 : SubSeq(stack[t], 1, Len(stack[t]) - 1)[i] = stack[t][i]
  BY Zenon, <1>1, SeqFront
<1>4. QED
  BY <1>1, <1>2, <1>3 DEF TypeInv, Typed, Popped

\* Flushed(): cpu c is not stale any more, for any shootdown.
LEMMA Flushing ==
    ASSUME NEW s, Typed(s), NEW c \in Cpus
    PROVE  /\ Typed(Flushed(s, c))
           /\ \A u \in Tasks : Len(Flushed(s, c)[u]) = Len(s[u])
           /\ \A u \in Tasks : \A d \in 1 .. Len(s[u]) :
                 AfterFlush(Flushed(s, c)[u][d], s[u][d], c)
<1>1. ASSUME NEW u \in Tasks
      PROVE  /\ Flushed(s, c)[u] \in Seq(AllFrames)
             /\ Len(Flushed(s, c)[u]) = Len(s[u])
  <2> DEFINE n == Len(s[u])
             F(d) == IF s[u][d].fn = "tlb" THEN [s[u][d] EXCEPT !.stale = @ \ {c}] ELSE s[u][d]
             f == [d \in 1 .. n |-> F(d)]
  <2>1. s[u] \in Seq(AllFrames) /\ n \in Nat
    BY DEF Typed
  <2>2. \A d \in 1 .. n : s[u][d] \in AllFrames
    BY Zenon, <2>1, SeqElement
  <2>3. ASSUME NEW d \in 1 .. n
        PROVE  F(d) \in AllFrames
    <3>1. CASE s[u][d] \in TlbFrames
      BY Zenon, <3>1 DEF AllFrames, TlbFrames
    <3>2. CASE s[u][d] \in CallFrames \cup IrqFrames
      BY Zenon, <3>2 DEF AllFrames, CallFrames, IrqFrames
    <3>3. QED
      BY Zenon, <2>2, <3>1, <3>2 DEF AllFrames
  <2>4. f \in [1 .. n -> AllFrames]
    BY Zenon, <2>3
  <2>5. f \in Seq(AllFrames)
    BY Zenon, <2>1, <2>4, SeqFunction
  <2>6. DOMAIN f = 1 .. Len(f) /\ Len(f) \in Nat
    BY Zenon, <2>5, SeqElement
  <2>7. Len(f) = n
    BY <2>1, <2>4, <2>6
  <2>8. Flushed(s, c)[u] = f
    BY Zenon DEF Flushed
  <2>9. QED
    BY Zenon, <2>5, <2>7, <2>8
<1>2. ASSUME NEW u \in Tasks, NEW d \in 1 .. Len(s[u])
      PROVE  AfterFlush(Flushed(s, c)[u][d], s[u][d], c)
  <2>1. s[u] \in Seq(AllFrames) /\ s[u][d] \in AllFrames
    BY Zenon, SeqElement DEF Typed
  <2>2. Flushed(s, c)[u][d] = IF s[u][d].fn = "tlb" THEN [s[u][d] EXCEPT !.stale = @ \ {c}] ELSE s[u][d]
    BY Zenon DEF Flushed
  <2>3. QED
    BY Zenon, <2>1, <2>2 DEF AfterFlush, AllFrames, TlbFrames, CallFrames, IrqFrames
<1>3. QED
  BY Zenon, <1>1, <1>2 DEF Flushed, Typed

-----------------------------------------------------------------------------
(* Steps that take no message, send none and acknowledge none. *)

NoNewMessages ==
    \A c \in Cpus : \A i \in Nat : \A t \in Tasks : \A d \in Nat : Waiting(c, i, t, d)' => Waiting(c, i, t, d)

NoNewHandlers ==
    \A u \in Tasks : \A e \in Nat : \A t \in Tasks : \A d \in Nat : Handles(u, e, t, d)' => Handles(u, e, t, d)

NoNewAcks ==
    \A u \in Tasks : \A e \in Nat : \A t \in Tasks : \A d \in Nat :
        Handles(u, e, t, d)' /\ stack'[u][e].at = "ack" => stack[u][e].at = "ack"

\* A shootdown that awaits its acknowledgement goes on doing so...
AwaitingKept ==
    \A t \in Tasks : \A d \in Nat : \A c \in Cpus :
        Awaiting(t, d, c) => Awaiting(t, d, c)' /\ stack'[t][d].stale \subseteq stack[t][d].stale

\* ...and the one with frame <<t, d>> was past its own flush before.
Kept(t, d) ==
    /\ d \in 1 .. Len(stack[t]) /\ stack[t][d].fn = "tlb" /\ stack[t][d].at # "inval"
    /\ stack'[t][d].cpu = stack[t][d].cpu /\ stack'[t][d].stale \subseteq stack[t][d].stale
    /\ stack'[t][d].at \in {"ipi", "wait"} /\ stack'[t][d].wait = 0 =>
          stack[t][d].at \in {"ipi", "wait"} /\ stack[t][d].wait = 0

ShootdownsKept ==
    \A t \in Tasks : \A d \in 1 .. Len(stack'[t]) : stack'[t][d].fn = "tlb" /\ stack'[t][d].at # "inval" => Kept(t, d)

\* Messages stay where they can be, as long as no step adds a copy of one or ends
\* the wait for it.
LEMMA MessagesKept ==
    ASSUME IInv, NoNewMessages, NoNewHandlers, AwaitingKept, running' = running
    PROVE  MessageInv'
<1>1. ASSUME NEW c \in Cpus, NEW i \in Nat, NEW t \in Tasks, NEW d \in Nat, Waiting(c, i, t, d)'
      PROVE  Awaiting(t, d, c)' /\ \A j \in Nat : Waiting(c, j, t, d)' => i = j
  BY <1>1 DEF IInv, MessageInv, NoNewMessages, AwaitingKept
<1>2. ASSUME NEW u \in Tasks, NEW e \in Nat, NEW t \in Tasks, NEW d \in Nat, Handles(u, e, t, d)'
      PROVE  /\ \E c \in Cpus : Awaiting(t, d, c)' /\ running'[c] = u
             /\ \A c \in Cpus : \A i \in Nat : ~Waiting(c, i, t, d)'
             /\ \A v \in Tasks : \A f \in Nat : Handles(v, f, t, d)' => u = v /\ e = f
  BY <1>2 DEF IInv, MessageInv, NoNewMessages, NoNewHandlers, AwaitingKept
<1>3. QED
  BY Zenon, <1>1, <1>2 DEF MessageInv

\* An acknowledgement that is about to be sent stays justified by its flush...
LEMMA AcksKept ==
    ASSUME IInv, NoNewHandlers, NoNewAcks, AwaitingKept
    PROVE  AckInv'
<1>1. ASSUME NEW u \in Tasks, NEW e \in Nat, NEW t \in Tasks, NEW d \in Nat,
             Handles(u, e, t, d)', stack'[u][e].at = "ack"
      PROVE  stack'[t][d].cpu \notin stack'[t][d].stale
  <2>1. Handles(u, e, t, d) /\ stack[u][e].at = "ack"
    BY Zenon, <1>1 DEF NoNewHandlers, NoNewAcks
  <2>2. stack[t][d].cpu \notin stack[t][d].stale
    BY Zenon, <2>1 DEF IInv, AckInv
  <2>3. PICK c \in Cpus : Awaiting(t, d, c)
    BY Zenon, <2>1 DEF IInv, MessageInv
  <2>4. Awaiting(t, d, c)' /\ stack'[t][d].stale \subseteq stack[t][d].stale
    BY Zenon, <2>3 DEF AwaitingKept
  <2>5. QED
    BY Zenon, <2>2, <2>3, <2>4 DEF Awaiting
<1>2. QED
  BY Zenon, <1>1 DEF AckInv

\* ...and the cpus that a shootdown is done with stay flushed.
LEMMA FlushesKept ==
    ASSUME IInv, running' = running, NEW t \in Tasks, NEW d \in 1 .. Len(stack'[t]), Kept(t, d)
    PROVE  /\ \A c \in stack'[t][d].stale : c >= stack'[t][d].cpu /\ running'[c] # t
           /\ stack'[t][d].at \in {"ipi", "wait"} /\ stack'[t][d].wait = 0 =>
                 stack'[t][d].cpu \notin stack'[t][d].stale
BY Zenon DEF IInv, FlushInv, Kept

\* Such a step keeps what is said of messages and flushes.
LEMMA QuietStep ==
    ASSUME IInv, NoNewMessages, NoNewHandlers, NoNewAcks, AwaitingKept, ShootdownsKept, running' = running
    PROVE  MessageInv' /\ FlushInv' /\ AckInv'
<1>1. FlushInv'
  BY Zenon, FlushesKept DEF FlushInv, ShootdownsKept
<1>2. QED
  BY Zenon, <1>1, MessagesKept, AcksKept

\* Replacing a frame that is not a shootdown's.
LEMMA QuietReplace ==
    ASSUME IInv, NEW t \in Tasks, Len(stack[t]) \in Nat \ {0}, NEW g, Replaced(stack', t, g),
           Top(t).fn # "tlb", g.fn # "tlb",
           g.fn = "irq" /\ g.at \in {"copy", "flush", "ack"} =>
              Top(t).fn = "irq" /\ Top(t).at \in {"copy", "flush"} /\ g.msg = Top(t).msg /\ g.at # "ack",
           NoNewMessages, running' = running
    PROVE  MessageInv' /\ FlushInv' /\ AckInv'
<1>1. Top(t) = stack[t][Len(stack[t])] /\ \A u \in Tasks : Len(stack[u]) \in Nat
  BY DEF Top, depth, IInv, TypeInv
<1>2. NoNewHandlers /\ NoNewAcks
  BY SMTT(30), <1>1 DEF NoNewHandlers, NoNewAcks, Handles, Replaced
<1>3. AwaitingKept /\ ShootdownsKept
  BY SMTT(30), <1>1 DEF AwaitingKept, ShootdownsKept, Kept, Awaiting, Replaced
<1>4. QED
  BY Zenon, <1>2, <1>3, QuietStep

\* A new frame: a shootdown that has not flushed, a call, or a handler that has
\* no message.
LEMMA QuietPush ==
    ASSUME IInv, NEW t \in Tasks, NEW g, Pushed(t, g), g.fn = "tlb" => g.at = "inval",
           g.fn = "irq" => g.at = "entry", NoNewMessages, running' = running
    PROVE  MessageInv' /\ FlushInv' /\ AckInv'
<1>1. \A u \in Tasks : Len(stack[u]) \in Nat
  BY DEF IInv, TypeInv
<1>2. \A u \in Tasks : \A d \in 1 .. Len(stack'[u]) :
         \/ d \in 1 .. Len(stack[u]) /\ stack'[u][d] = stack[u][d]
         \/ u = t /\ d = Len(stack[t]) + 1 /\ stack'[u][d] = g
  BY <1>1 DEF Pushed
<1>3. \A u \in Tasks : \A d \in 1 .. Len(stack[u]) : d \in 1 .. Len(stack'[u])
  BY <1>1 DEF Pushed
<1>4. NoNewHandlers /\ NoNewAcks
  BY ZenonT(30), <1>1, <1>2 DEF NoNewHandlers, NoNewAcks, Handles
<1>5. AwaitingKept /\ ShootdownsKept
  BY SMTT(30), <1>1, <1>2, <1>3 DEF AwaitingKept, ShootdownsKept, Kept, Awaiting, Pushed
<1>6. QED
  BY Zenon, <1>4, <1>5, QuietStep

\* A return: of a handler, of a call, or of a shootdown that awaits nothing.
LEMMA QuietPop ==
    ASSUME IInv, NEW t \in Tasks, Len(stack[t]) \in Nat \ {0}, Popped(t), Top(t).fn = "tlb" => Top(t).at = "next",
           NoNewMessages, running' = running
    PROVE  MessageInv' /\ FlushInv' /\ AckInv'
<1>1. Top(t) = stack[t][Len(stack[t])] /\ \A u \in Tasks : Len(stack[u]) \in Nat
  BY DEF Top, depth, IInv, TypeInv
<1>2. \A u \in Tasks : \A d \in 1 .. Len(stack'[u]) : d \in 1 .. Len(stack[u]) /\ stack'[u][d] = stack[u][d]
  BY <1>1 DEF Popped
<1>3. \A u \in Tasks : \A d \in 1 .. Len(stack[u]) :
         d \in 1 .. Len(stack'[u]) \/ (u = t /\ d = Len(stack[t]))
  BY <1>1 DEF Popped
<1>4. NoNewHandlers /\ NoNewAcks
  BY <1>1, <1>2 DEF NoNewHandlers, NoNewAcks, Handles
<1>5. AwaitingKept /\ ShootdownsKept
  BY SMTT(30), <1>1, <1>2, <1>3 DEF AwaitingKept, ShootdownsKept, Kept, Awaiting
<1>6. QED
  BY Zenon, <1>4, <1>5, QuietStep

\* A step that leaves the queues alone adds no message.
LEMMA SameQueues ==
    ASSUME message_queue' = message_queue
    PROVE  NoNewMessages
BY Zenon DEF NoNewMessages, Waiting

\* A process starts an operation: BeginShootdown(), BeginCall(), BeginBroadcast().
LEMMA Beginning ==
    ASSUME IInv, NEW p \in Procs, BeginShootdown(p) \/ BeginCall(p) \/ BeginBroadcast(p)
    PROVE  IInv'
<1>1. \E b \in BOOLEAN : Begin(p, b)
  BY Zenon, FlagsAssumption DEF BeginShootdown, BeginCall, BeginBroadcast
<1>2. p \in Tasks /\ <<p, ops[p] + 1>> \in CallIds
  BY <1>1, BoundsAssumption DEF Begin, Tasks, CallIds, IInv, TypeInv
<1>3. \E g \in AllFrames : stack' = Push(p, g) /\ g.fn # "irq" /\ (g.fn = "tlb" => g.at = "inval")
  <2>1. TlbFrame \in AllFrames /\ TlbFrame.fn = "tlb" /\ TlbFrame.at = "inval"
    BY NCpusAssumption DEF TlbFrame, AllFrames, TlbFrames
  <2>2. \A c \in Cpus : LET g == CallFrame(<<p, ops[p] + 1>>, c, c, FALSE) IN g \in AllFrames /\ g.fn = "call"
    BY <1>2, NCpusAssumption DEF CallFrame, AllFrames, CallFrames, Cpus
  <2>3. LET g == CallFrame(<<p, ops[p] + 1>>, 0, NCpus - 1, TRUE) IN g \in AllFrames /\ g.fn = "call"
    BY <1>2, NCpusAssumption DEF CallFrame, AllFrames, CallFrames, Cpus
  <2>4. CASE BeginShootdown(p)
    BY Zenon, <2>1, <2>4 DEF BeginShootdown
  <2>5. CASE BeginCall(p)
    BY Zenon, <2>2, <2>5 DEF BeginCall
  <2>6. CASE BeginBroadcast(p)
    BY Zenon, <2>3, <2>6 DEF BeginBroadcast
  <2>7. QED
    BY Zenon, <2>4, <2>5, <2>6
<1>4. PICK g \in AllFrames : stack' = Push(p, g) /\ g.fn # "irq" /\ (g.fn = "tlb" => g.at = "inval")
  BY Zenon, <1>3
<1>5. Typed(stack') /\ Pushed(p, g)
  BY Zenon, <1>2, <1>4, Pushing DEF IInv
<1>6. TypeInv'
  <2>1. PICK b \in BOOLEAN : Begin(p, b)
    BY Zenon, <1>1
  <2>2. iflag' \in [Tasks -> BOOLEAN]
    BY Zenon, <1>2, <2>1 DEF IInv, TypeInv, Begin
  <2>3. ops' \in [Procs -> 0 .. MaxOps]
    BY <2>1, BoundsAssumption DEF IInv, TypeInv, Begin
  <2>4. QED
    BY Zenon, <1>5, <2>1, <2>2, <2>3 DEF IInv, TypeInv, Typed, Begin
<1>7. MessageInv' /\ FlushInv' /\ AckInv'
  BY Zenon, <1>1, <1>2, <1>4, <1>5, SameQueues, QuietPush DEF Begin
<1>8. QED
  BY Zenon, <1>6, <1>7 DEF IInv

\* NestedShootdown() and Interrupt() push a frame, too.
LEMMA Nesting ==
    ASSUME IInv, NEW t \in Tasks, NestedShootdown(t)
    PROVE  IInv'
<1>1. TlbFrame \in AllFrames /\ TlbFrame.fn = "tlb" /\ TlbFrame.at = "inval"
  BY NCpusAssumption DEF TlbFrame, AllFrames, TlbFrames
<1>2. Typed(stack') /\ Pushed(t, TlbFrame)
  BY Zenon, <1>1, Pushing DEF IInv, NestedShootdown
<1>3. TypeInv'
  BY Zenon, <1>2 DEF IInv, TypeInv, Typed, NestedShootdown
<1>4. MessageInv' /\ FlushInv' /\ AckInv'
  BY Zenon, <1>1, <1>2, SameQueues, QuietPush DEF NestedShootdown
<1>5. QED
  BY Zenon, <1>3, <1>4 DEF IInv

\* Interrupt(): the handler starts on top of what the cpu was doing, without a message.
LEMMA Interrupting ==
    ASSUME IInv, NEW c \in Cpus, Interrupt(c)
    PROVE  IInv'
<1>1. IrqFrame \in AllFrames /\ IrqFrame.fn = "irq" /\ IrqFrame.at = "entry" /\ running[c] \in Tasks
  BY Zenon DEF IrqFrame, AllFrames, IrqFrames, IInv, TypeInv
<1>2. Typed(stack') /\ Pushed(running[c], IrqFrame)
  BY Zenon, <1>1, Pushing DEF IInv, Interrupt
<1>3. TypeInv'
  BY Zenon, <1>2 DEF IInv, TypeInv, Typed, Interrupt
<1>4. MessageInv' /\ FlushInv' /\ AckInv'
  BY Zenon, <1>1, <1>2, SameQueues, QuietPush DEF Interrupt
<1>5. QED
  BY Zenon, <1>3, <1>4 DEF IInv

\* The handler goes from one location to the next, without a message, with a
\* message that it starts to process, or with a remote call.
LEMMA HandlerGoesOn ==
    ASSUME IInv, NEW t \in Tasks, NEW loc, NEW new, At(t, "irq", loc), stack' = Goto(t, new),
           message_queue' = message_queue, pending' = pending, running' = running, iflag' = iflag, ops' = ops,
           new \in {"entry", "loop", "call", "func", "complete", "forever", "exit"}
              \/ (loc = "copy" /\ new = "flush" /\ Top(t).msg.tag = "tlb")
    PROVE  IInv'
<1> DEFINE g == [Top(t) EXCEPT !.at = new]
<1>1. /\ Len(stack[t]) \in Nat \ {0} /\ stack[t] # <<>>
      /\ Top(t) \in AllFrames /\ Top(t).fn = "irq" /\ Top(t).at = loc
  BY Running DEF IInv, At
<1>2. Top(t) \in IrqFrames
  BY Zenon, <1>1 DEF AllFrames, TlbFrames, CallFrames
<1>3. g \in IrqFrames /\ g.at = new /\ g.fn = "irq" /\ g.msg = Top(t).msg
  BY Zenon, <1>1, <1>2 DEF IrqFrames
<1>4. Typed(stack') /\ Replaced(stack', t, g)
  <2>1. stack' = Update(t, g)
    BY Zenon, Going
  <2>2. g \in AllFrames
    BY Zenon, <1>3 DEF AllFrames
  <2> HIDE DEF g
  <2>3. QED
    BY Zenon, <1>1, <2>1, <2>2, Updating DEF IInv
<1>5. TypeInv'
  BY Zenon, <1>4 DEF IInv, TypeInv, Typed
<1>6. NoNewMessages
  BY Zenon, SameQueues
<1>7. MessageInv' /\ FlushInv' /\ AckInv'
  <2> HIDE DEF g
  <2>1. QED
    BY Zenon, <1>1, <1>3, <1>4, <1>6, QuietReplace
<1>8. QED
  BY Zenon, <1>5, <1>7 DEF IInv

\* EnterHandler(), LeaveHandler(), CopyMessage(), StartCall(), FuncReturns(),
\* Complete() and FuncLoops().
LEMMA HandlerSteps ==
    ASSUME IInv, NEW t \in Tasks,
           EnterHandler(t) \/ LeaveHandler(t) \/ CopyMessage(t) \/ StartCall(t) \/ FuncReturns(t)
              \/ Complete(t) \/ FuncLoops(t)
    PROVE  IInv'
<1>1. CASE EnterHandler(t)
  BY Zenon, <1>1, HandlerGoesOn DEF EnterHandler
<1>2. CASE LeaveHandler(t)
  BY Zenon, <1>2, HandlerGoesOn DEF LeaveHandler
<1>3. CASE CopyMessage(t)
  <2>1. CASE Top(t).msg.tag = "tlb"
    BY Zenon, <1>3, <2>1, HandlerGoesOn DEF CopyMessage
  <2>2. CASE Top(t).msg.tag # "tlb"
    BY Zenon, <1>3, <2>2, HandlerGoesOn DEF CopyMessage
  <2>3. QED
    BY Zenon, <2>1, <2>2
<1>4. CASE StartCall(t)
  BY Zenon, <1>4, HandlerGoesOn DEF StartCall
<1>5. CASE FuncReturns(t)
  <2>1. \/ stack' = Goto(t, "complete")
        \/ stack' = Goto(t, "loop")
    BY Zenon, <1>5 DEF FuncReturns
  <2>2. QED
    BY Zenon, <1>5, <2>1, HandlerGoesOn DEF FuncReturns
<1>6. CASE Complete(t)
  BY Zenon, <1>6, HandlerGoesOn DEF Complete
<1>7. CASE FuncLoops(t)
  BY Zenon, <1>7, HandlerGoesOn DEF FuncLoops
<1>8. QED
  BY Zenon, <1>1, <1>2, <1>3, <1>4, <1>5, <1>6, <1>7
\* The frame on top returns.
LEMMA Returning ==
    ASSUME IInv, NEW t \in Tasks, NEW fn, NEW loc, At(t, fn, loc), fn = "tlb" => loc = "next", stack' = Pop(t),
           message_queue' = message_queue, running' = running, ops' = ops,
           pending' \in [Cpus -> BOOLEAN], iflag' \in [Tasks -> BOOLEAN]
    PROVE  IInv'
<1>1. Len(stack[t]) \in Nat \ {0} /\ stack[t] # <<>> /\ (Top(t).fn = "tlb" => Top(t).at = "next")
  BY Running DEF IInv, At
<1>2. Typed(stack') /\ Popped(t)
  BY Zenon, <1>1, Popping DEF IInv
<1>3. TypeInv'
  BY Zenon, <1>2 DEF IInv, TypeInv, Typed
<1>4. MessageInv' /\ FlushInv' /\ AckInv'
  BY Zenon, <1>1, <1>2, SameQueues, QuietPop
<1>5. QED
  BY Zenon, <1>3, <1>4 DEF IInv

\* ShootdownReturns(), CallReturns() and ReturnFromInterrupt().
LEMMA Returns ==
    ASSUME IInv, NEW t \in Tasks, ShootdownReturns(t) \/ CallReturns(t) \/ ReturnFromInterrupt(t)
    PROVE  IInv'
<1>1. pending \in [Cpus -> BOOLEAN] /\ iflag \in [Tasks -> BOOLEAN]
  BY Zenon DEF IInv, TypeInv
<1>2. \A b : [iflag EXCEPT ![t] = @ \/ b = <<>>] \in [Tasks -> BOOLEAN]
  BY Zenon, <1>1
<1>3. CASE ShootdownReturns(t)
  BY Zenon, <1>1, <1>2, <1>3, Returning DEF ShootdownReturns, Return
<1>4. CASE CallReturns(t)
  BY Zenon, <1>1, <1>2, <1>4, Returning DEF CallReturns, Return
<1>5. CASE ReturnFromInterrupt(t)
  BY Zenon, <1>1, <1>5, Returning DEF ReturnFromInterrupt
<1>6. QED
  BY Zenon, <1>3, <1>4, <1>5

\* do_send_ipm() puts the message of a remote call into a queue.
LEMMA Sending ==
    ASSUME IInv, NEW t \in Tasks, SendMessage(t)
    PROVE  IInv'
<1> DEFINE g == [Top(t) EXCEPT !.i = @ + 1]
           m == CallMessage(Top(t).id)
<1>1. /\ Len(stack[t]) \in Nat \ {0} /\ stack[t] # <<>>
      /\ Top(t) \in AllFrames /\ Top(t).fn = "call" /\ Top(t).at = "send"
  BY Running DEF IInv, At, SendMessage
<1>2. Top(t) \in CallFrames
  BY Zenon, <1>1 DEF AllFrames, TlbFrames, IrqFrames
<1>3. g \in CallFrames /\ g.fn = "call" /\ Top(t).i \in Cpus /\ m \in Messages /\ m.tag = "call"
  <2>1. g \in CallFrames /\ g.fn = "call"
    BY <1>2, NCpusAssumption DEF CallFrames, SendMessage, Cpus
  <2>2. Top(t).i \in Cpus
    BY <1>2, NCpusAssumption DEF CallFrames, SendMessage, Cpus
  <2>3. m \in Messages /\ m.tag = "call"
    BY Zenon, <1>2 DEF CallFrames, Messages, CallMessage
  <2>4. QED
    BY Zenon, <2>1, <2>2, <2>3
<1> HIDE DEF g, m
<1>4. Typed(stack') /\ Replaced(stack', t, g)
  BY Zenon, <1>1, <1>3, Updating DEF IInv, SendMessage, g, AllFrames
<1>5. /\ message_queue' \in [Cpus -> Seq(Messages)]
      /\ NoNewMessages
  <2>1. CASE message_queue' = message_queue
    BY Zenon, <2>1, SameQueues DEF IInv, TypeInv
  <2>2. CASE message_queue' = [message_queue EXCEPT ![Top(t).i] = Append(@, m)]
    <3> DEFINE q == message_queue[Top(t).i]
    <3>1. q \in Seq(Messages) /\ message_queue' = [message_queue EXCEPT ![Top(t).i] = Append(q, m)]
      BY Zenon, <1>3, <2>2 DEF IInv, TypeInv
    <3>2. /\ Append(q, m) \in Seq(Messages)
          /\ Len(Append(q, m)) = Len(q) + 1
          /\ \A i \in 1 .. Len(q) : Append(q, m)[i] = q[i]
          /\ Append(q, m)[Len(q) + 1] = m
      BY <1>3, <3>1, SeqAppend
    <3>3. message_queue' \in [Cpus -> Seq(Messages)]
      BY Zenon, <1>3, <3>1, <3>2 DEF IInv, TypeInv
    <3>4. ASSUME NEW c \in Cpus, NEW i \in Nat, NEW u \in Tasks, NEW d \in Nat, Waiting(c, i, u, d)'
          PROVE  Waiting(c, i, u, d)
      <4>1. i \in 1 .. Len(message_queue'[c]) /\ message_queue'[c][i] = TlbMessage(u, d) /\ message_queue'[c][i].tag = "tlb"
        BY <3>4 DEF Waiting, TlbMessage
      <4>2. CASE c = Top(t).i
        BY <1>3, <3>1, <3>2, <4>1, <4>2, SeqElement DEF Waiting, IInv, TypeInv
      <4>3. CASE c # Top(t).i
        BY Zenon, <3>1, <4>1, <4>3 DEF Waiting, IInv, TypeInv
      <4>4. QED
        BY Zenon, <4>2, <4>3
    <3>5. QED
      BY Zenon, <3>3, <3>4 DEF NoNewMessages
  <2>3. QED
    BY Zenon, <2>1, <2>2 DEF SendMessage, m
<1>6. TypeInv'
  BY Zenon, <1>4, <1>5 DEF IInv, TypeInv, Typed, SendMessage
<1>7. MessageInv' /\ FlushInv' /\ AckInv'
  BY Zenon, <1>1, <1>3, <1>4, <1>5, QuietReplace DEF SendMessage
<1>8. QED
  BY Zenon, <1>6, <1>7 DEF IInv

\* The IPI of a remote call.
LEMMA CallIpi ==
    ASSUME IInv, NEW t \in Tasks, SendCallIpi(t)
    PROVE  IInv'
<1>1. /\ Len(stack[t]) \in Nat \ {0} /\ stack[t] # <<>>
      /\ Top(t) \in AllFrames /\ Top(t).fn = "call" /\ Top(t).at = "send" /\ At(t, "call", "send")
  BY Running DEF IInv, At, SendCallIpi
<1>2. pending' \in [Cpus -> BOOLEAN] /\ iflag \in [Tasks -> BOOLEAN]
  BY Zenon DEF IInv, TypeInv, SendCallIpi
<1>3. CASE stack' = Pop(t) /\ iflag' = [iflag EXCEPT ![t] = @ \/ Pop(t)[t] = <<>>]
  BY Zenon, <1>1, <1>2, <1>3, Returning DEF SendCallIpi
<1>4. CASE stack' = Goto(t, "wait") /\ iflag' = iflag
  <2> DEFINE g == [Top(t) EXCEPT !.at = "wait"]
  <2>1. g \in AllFrames /\ g.fn = "call"
    BY Zenon, <1>1 DEF AllFrames, TlbFrames, IrqFrames, CallFrames
  <2>2. stack' = Update(t, g)
    BY Zenon, <1>4, Going
  <2> HIDE DEF g
  <2>3. Typed(stack') /\ Replaced(stack', t, g)
    BY Zenon, <1>1, <2>1, <2>2, Updating DEF IInv
  <2>4. TypeInv'
    BY Zenon, <1>2, <1>4, <2>3 DEF IInv, TypeInv, Typed, SendCallIpi
  <2>5. MessageInv' /\ FlushInv' /\ AckInv'
    BY Zenon, <1>1, <2>1, <2>3, SameQueues, QuietReplace DEF SendCallIpi
  <2>6. QED
    BY Zenon, <2>4, <2>5 DEF IInv
<1>5. QED
  BY Zenon, <1>3, <1>4 DEF SendCallIpi, Return

-----------------------------------------------------------------------------
(* The steps of a shootdown. *)

\* The frame of a shootdown that t executes.
LEMMA RunningShootdown ==
    ASSUME TypeInv, NEW t \in Tasks, NEW loc, At(t, "tlb", loc)
    PROVE  Top(t) \in TlbFrames /\ Top(t).at = loc /\ Top(t).fn = "tlb"
<1>1. Top(t) \in AllFrames /\ Top(t).fn = "tlb" /\ Top(t).at = loc
  BY Running
<1>2. QED
  BY Zenon, <1>1 DEF AllFrames, CallFrames, IrqFrames

\* Replacing it by one that is past its flush: what is to be shown of the new
\* frame.
LEMMA ShootdownStep ==
    ASSUME IInv, NEW t \in Tasks, NEW loc \in {"next", "ipi", "wait"}, At(t, "tlb", loc),
           NEW g, Replaced(stack', t, g), g.fn = "tlb", NoNewMessages, running' = running,
           \A c \in Cpus : Awaiting(t, Len(stack[t]), c) =>
              g.at \in {"ipi", "wait"} /\ g.wait = 1 /\ g.cpu = c,
           g.stale = Top(t).stale,
           \A c \in g.stale : c >= g.cpu /\ running[c] # t,
           g.at \in {"ipi", "wait"} /\ g.wait = 0 => g.cpu \notin g.stale
    PROVE  MessageInv' /\ FlushInv' /\ AckInv'
<1>1. /\ Len(stack[t]) \in Nat \ {0} /\ Top(t) = stack[t][Len(stack[t])] /\ Top(t).fn = "tlb" /\ Top(t).at = loc
      /\ \A u \in Tasks : Len(stack[u]) \in Nat
  BY SMTT(30), Running DEF IInv, TypeInv
<1>2. NoNewHandlers /\ NoNewAcks
  <2>1. ASSUME NEW u \in Tasks, NEW e \in Nat, NEW v \in Tasks, NEW d \in Nat, Handles(u, e, v, d)'
        PROVE  Handles(u, e, v, d) /\ stack'[u][e] = stack[u][e]
    <3>1. e \in 1 .. Len(stack[u]) /\ stack'[u][e].fn = "irq"
      BY Zenon, <2>1 DEF Handles, Replaced
    <3>2. stack'[u][e] = IF u = t /\ e = Len(stack[t]) THEN g ELSE stack[u][e]
      BY Zenon, <3>1 DEF Replaced
    <3>3. stack'[u][e] = stack[u][e]
      BY Zenon, <3>1, <3>2
    <3>4. QED
      BY Zenon, <2>1, <3>1, <3>3 DEF Handles
  <2>2. QED
    BY Zenon, <2>1 DEF NoNewHandlers, NoNewAcks
<1>3. AwaitingKept
  BY <1>1 DEF AwaitingKept, Awaiting, Replaced
<1>4. FlushInv'
  <2>1. ASSUME NEW u \in Tasks, NEW d \in 1 .. Len(stack'[u]), stack'[u][d].fn = "tlb", stack'[u][d].at # "inval"
        PROVE  /\ \A c \in stack'[u][d].stale : c >= stack'[u][d].cpu /\ running'[c] # u
               /\ stack'[u][d].at \in {"ipi", "wait"} /\ stack'[u][d].wait = 0 =>
                     stack'[u][d].cpu \notin stack'[u][d].stale
    <3>1. CASE u = t /\ d = Len(stack[t])
      BY Zenon, <1>1, <3>1 DEF Replaced
    <3>2. CASE ~(u = t /\ d = Len(stack[t]))
      <4>1. Kept(u, d)
        BY Zenon, <1>1, <2>1, <3>2 DEF Kept, Replaced
      <4>2. QED
        BY Zenon, <4>1, FlushesKept
    <3>3. QED
      BY Zenon, <3>1, <3>2
  <2>2. QED
    BY Zenon, <2>1 DEF FlushInv
<1>5. QED
  BY Zenon, <1>2, <1>3, <1>4, MessagesKept, AcksKept

\* The IPI of a shootdown.
LEMMA TlbIpi ==
    ASSUME IInv, NEW t \in Tasks, SendTlbIpi(t)
    PROVE  IInv'
<1> DEFINE g == [Top(t) EXCEPT !.at = "wait", !.irqs = iflag[t]]
<1>1. Top(t) \in TlbFrames /\ Top(t).at = "ipi" /\ stack[t] # <<>> /\ At(t, "tlb", "ipi")
  BY Zenon, RunningShootdown DEF IInv, SendTlbIpi, At
<1>2. /\ g \in TlbFrames /\ g.fn = "tlb" /\ g.at = "wait" /\ g.wait = Top(t).wait /\ g.cpu = Top(t).cpu
      /\ g.stale = Top(t).stale
  <2>1. iflag[t] \in BOOLEAN
    BY Zenon DEF IInv, TypeInv
  <2>2. QED
    BY Zenon, <1>1, <2>1 DEF TlbFrames
<1> HIDE DEF g
<1>3. Typed(stack') /\ Replaced(stack', t, g)
  BY Zenon, <1>1, <1>2, Updating DEF IInv, SendTlbIpi, g, AllFrames
<1>4. TypeInv'
  <2>1. pending' \in [Cpus -> BOOLEAN] /\ iflag' \in [Tasks -> BOOLEAN]
    BY Zenon DEF IInv, TypeInv, SendTlbIpi
  <2>2. QED
    BY Zenon, <1>3, <2>1 DEF IInv, TypeInv, Typed, SendTlbIpi
<1>5. /\ Top(t) = stack[t][Len(stack[t])] /\ Len(stack[t]) \in 1 .. Len(stack[t]) /\ Top(t).fn = "tlb"
  BY <1>1, Running DEF IInv
<1>6. /\ \A c \in g.stale : c >= g.cpu /\ running[c] # t
      /\ g.wait = 0 => g.cpu \notin g.stale
  BY Zenon, <1>1, <1>2, <1>5 DEF IInv, FlushInv
<1>7. \A c \in Cpus : Awaiting(t, Len(stack[t]), c) => g.wait = 1 /\ g.cpu = c
  BY Zenon, <1>2, <1>5 DEF Awaiting
<1>8. NoNewMessages /\ running' = running
  BY Zenon, SameQueues DEF SendTlbIpi
<1>9. MessageInv' /\ FlushInv' /\ AckInv'
  BY Zenon, <1>1, <1>2, <1>3, <1>6, <1>7, <1>8, ShootdownStep
<1>10. QED
  BY Zenon, <1>4, <1>9 DEF IInv

\* The cpu that a shootdown runs on has flushed; the loop goes on.
LEMMA Skipping ==
    ASSUME IInv, NEW t \in Tasks, SkipSelf(t)
    PROVE  IInv'
<1> DEFINE g == [Top(t) EXCEPT !.cpu = @ + 1]
<1>1. Top(t) \in TlbFrames /\ Top(t).at = "next" /\ stack[t] # <<>> /\ At(t, "tlb", "next")
  BY Zenon, RunningShootdown DEF IInv, SkipSelf, At
<1>2. /\ g \in TlbFrames /\ g.fn = "tlb" /\ g.at = "next" /\ g.cpu = Top(t).cpu + 1
      /\ g.stale = Top(t).stale
  BY <1>1, NCpusAssumption DEF TlbFrames, SkipSelf
<1> HIDE DEF g
<1>3. Typed(stack') /\ Replaced(stack', t, g)
  BY Zenon, <1>1, <1>2, Updating DEF IInv, SkipSelf, g, AllFrames
<1>4. TypeInv'
  BY Zenon, <1>3 DEF IInv, TypeInv, Typed, SkipSelf
<1>5. /\ Top(t) = stack[t][Len(stack[t])] /\ Len(stack[t]) \in 1 .. Len(stack[t]) /\ Top(t).fn = "tlb"
      /\ running[Top(t).cpu] = t
  BY <1>1, Running DEF IInv, SkipSelf
<1>6. \A c \in g.stale : c >= g.cpu /\ running[c] # t
  <2>1. \A c \in Top(t).stale : c >= Top(t).cpu /\ running[c] # t /\ c \in Nat
    BY <1>1, <1>5, NCpusAssumption DEF IInv, FlushInv, TlbFrames, Cpus
  <2>2. Top(t).cpu \in Nat
    BY <1>1, NCpusAssumption DEF TlbFrames
  <2>3. QED
    BY <1>2, <1>5, <2>1, <2>2
<1>7. \A c \in Cpus : ~Awaiting(t, Len(stack[t]), c)
  BY Zenon, <1>1, <1>5 DEF Awaiting
<1>8. NoNewMessages /\ running' = running
  BY Zenon, SameQueues DEF SkipSelf
<1>9. MessageInv' /\ FlushInv' /\ AckInv'
  BY Zenon, <1>1, <1>2, <1>3, <1>6, <1>7, <1>8, ShootdownStep
<1>10. QED
  BY Zenon, <1>4, <1>9 DEF IInv

\* A shootdown goes on to the next cpu once it has the acknowledgement.
LEMMA Acked ==
    ASSUME IInv, NEW t \in Tasks, TlbAcked(t)
    PROVE  IInv'
<1> DEFINE g == [Top(t) EXCEPT !.at = "next", !.cpu = @ + 1]
<1>1. /\ Top(t) \in TlbFrames /\ Top(t).at = "wait" /\ Top(t).wait = 0
      /\ stack[t] # <<>> /\ At(t, "tlb", "wait")
  BY Zenon, RunningShootdown DEF IInv, TlbAcked, At
<1>2. /\ g \in TlbFrames /\ g.fn = "tlb" /\ g.at = "next" /\ g.cpu = Top(t).cpu + 1
      /\ g.stale = Top(t).stale
  <2>1. Top(t).cpu + 1 \in 0 .. NCpus /\ Top(t).cpu + 1 # 0
    BY <1>1, NCpusAssumption DEF TlbFrames
  <2>2. QED
    BY Zenon, <1>1, <2>1 DEF TlbFrames
<1> HIDE DEF g
<1>3. Typed(stack') /\ Replaced(stack', t, g)
  BY Zenon, <1>1, <1>2, Updating DEF IInv, TlbAcked, g, AllFrames
<1>4. TypeInv'
  <2>1. iflag' \in [Tasks -> BOOLEAN]
    <3>1. Top(t).irqs \in BOOLEAN
      BY Zenon, <1>1 DEF TlbFrames
    <3>2. QED
      BY Zenon, <3>1 DEF IInv, TypeInv, TlbAcked
  <2>2. QED
    BY Zenon, <1>3, <2>1 DEF IInv, TypeInv, Typed, TlbAcked
<1>5. /\ Top(t) = stack[t][Len(stack[t])] /\ Len(stack[t]) \in 1 .. Len(stack[t]) /\ Top(t).fn = "tlb"
  BY <1>1, Running DEF IInv
<1>6. \A c \in g.stale : c >= g.cpu /\ running[c] # t
  <2>1. /\ \A c \in Top(t).stale : c >= Top(t).cpu /\ running[c] # t /\ c \in Nat
        /\ Top(t).cpu \notin Top(t).stale
    BY <1>1, <1>5, NCpusAssumption DEF IInv, FlushInv, TlbFrames, Cpus
  <2>2. Top(t).cpu \in Nat
    BY <1>1, NCpusAssumption DEF TlbFrames
  <2>3. QED
    BY <1>2, <2>1, <2>2
<1>7. \A c \in Cpus : ~Awaiting(t, Len(stack[t]), c)
  BY <1>1, <1>5 DEF Awaiting
<1>8. NoNewMessages /\ running' = running
  BY Zenon, SameQueues DEF TlbAcked
<1>9. MessageInv' /\ FlushInv' /\ AckInv'
  BY Zenon, <1>1, <1>2, <1>3, <1>6, <1>7, <1>8, ShootdownStep
<1>10. QED
  BY Zenon, <1>4, <1>9 DEF IInv

\* The shootdown's message goes to the head of a queue.
LEMMA Enqueueing ==
    ASSUME IInv, NEW t \in Tasks, EnqueueTlb(t)
    PROVE  IInv'
<1>1. Top(t) \in TlbFrames /\ Top(t).at = "next" /\ stack[t] # <<>> /\ At(t, "tlb", "next")
  BY Zenon, RunningShootdown DEF IInv, EnqueueTlb, At
<1>2. PICK c \in Cpus : c = Top(t).cpu
  BY <1>1, NCpusAssumption DEF TlbFrames, EnqueueTlb, Cpus
<1>3. PICK n \in Nat : n = Len(stack[t])
  BY DEF IInv, TypeInv
<1> DEFINE g == [Top(t) EXCEPT !.at = "ipi", !.wait = 1]
           m == TlbMessage(t, n)
           q == message_queue[c]
<1>4. /\ g \in TlbFrames /\ g.fn = "tlb" /\ g.at = "ipi" /\ g.wait = 1 /\ g.cpu = c
      /\ g.stale = Top(t).stale
  <2>1. c # NCpus
    BY <1>2, NCpusAssumption DEF Cpus
  <2>2. QED
    BY Zenon, <1>1, <1>2, <2>1 DEF TlbFrames
<1> HIDE DEF g
<1>5. Typed(stack') /\ Replaced(stack', t, g)
  BY Zenon, <1>1, <1>4, Updating DEF IInv, EnqueueTlb, g, AllFrames
<1>6. /\ Top(t) = stack[t][n] /\ n \in Nat \ {0} /\ n \in 1 .. n /\ Top(t).fn = "tlb"
      /\ \A u \in Tasks : Len(stack[u]) \in Nat
  BY <1>1, <1>3, Running DEF IInv, TypeInv
<1>7. m \in Messages /\ q \in Seq(Messages) /\ \A e \in Cpus : message_queue[e] \in Seq(Messages)
  BY Zenon, <1>2, <1>6 DEF Messages, TlbMessage, IInv, TypeInv
<1>8. message_queue' = [message_queue EXCEPT ![c] = <<m>> \o q]
  BY Zenon, <1>2, <1>3 DEF EnqueueTlb, depth, IInv, TypeInv
<1>9. /\ <<m>> \o q \in Seq(Messages) /\ Len(<<m>> \o q) = Len(q) + 1 /\ Len(q) \in Nat
      /\ (<<m>> \o q)[1] = m
      /\ \A i \in 2 .. Len(q) + 1 : (<<m>> \o q)[i] = q[i - 1]
  BY <1>7, SeqElement, SeqCons
<1>10. TypeInv'
  <2>1. message_queue' \in [Cpus -> Seq(Messages)]
    BY Zenon, <1>2, <1>7, <1>8, <1>9 DEF IInv, TypeInv
  <2>2. QED
    BY Zenon, <1>5, <2>1 DEF IInv, TypeInv, Typed, EnqueueTlb
<1> HIDE DEF m, q
\* Nobody had a message of this shootdown.
<1>11. /\ \A e \in Cpus : ~Awaiting(t, n, e)
       /\ \A e \in Cpus : \A i \in Nat : ~Waiting(e, i, t, n)
       /\ \A u \in Tasks : \A e \in Nat : ~Handles(u, e, t, n)
  <2>1. \A e \in Cpus : ~Awaiting(t, n, e)
    BY Zenon, <1>1, <1>6 DEF Awaiting
  <2>2. QED
    BY Zenon, <1>6, <2>1 DEF IInv, MessageInv
<1>12. ASSUME NEW e \in Cpus, NEW i \in Nat, NEW u \in Tasks, NEW d \in Nat, Waiting(e, i, u, d)'
       PROVE  \/ e = c /\ i = 1 /\ u = t /\ d = n
              \/ e = c /\ i # 1 /\ i - 1 \in Nat /\ Waiting(e, i - 1, u, d)
              \/ e # c /\ Waiting(e, i, u, d)
  <2>1. i \in 1 .. Len(message_queue'[e]) /\ message_queue'[e][i] = TlbMessage(u, d)
    BY Zenon, <1>12 DEF Waiting
  <2>2. CASE e # c
    BY Zenon, <1>2, <1>8, <2>1, <2>2 DEF Waiting, IInv, TypeInv
  <2>3. CASE e = c /\ i = 1
    <3>1. m = TlbMessage(u, d)
      BY Zenon, <1>2, <1>8, <1>9, <2>1, <2>3 DEF IInv, TypeInv
    <3>2. QED
      BY Zenon, <2>3, <3>1 DEF TlbMessage, m
  <2>4. CASE e = c /\ i # 1
    <3>1. i \in 2 .. Len(q) + 1 /\ q[i - 1] = TlbMessage(u, d)
      BY <1>2, <1>8, <1>9, <2>1, <2>4 DEF IInv, TypeInv
    <3>2. QED
      BY <1>9, <2>4, <3>1 DEF Waiting, q
  <2>5. QED
    BY Zenon, <2>2, <2>3, <2>4
<1>13. NoNewHandlers /\ NoNewAcks
  BY SMTT(30), <1>4, <1>5, <1>6, <1>3 DEF NoNewHandlers, NoNewAcks, Handles, Replaced
<1>14. AwaitingKept /\ Awaiting(t, n, c)'
  <2>1. AwaitingKept
    BY <1>5, <1>6, <1>3, <1>11 DEF AwaitingKept, Awaiting, Replaced
  <2>2. Awaiting(t, n, c)'
    BY Zenon, <1>4, <1>5, <1>6, <1>3 DEF Awaiting, Replaced
  <2>3. QED
    BY Zenon, <2>1, <2>2
<1>15. MessageInv'
  <2>1. ASSUME NEW e \in Cpus, NEW i \in Nat, NEW u \in Tasks, NEW d \in Nat, Waiting(e, i, u, d)'
        PROVE  Awaiting(u, d, e)'
    <3>1. CASE u = t /\ d = n /\ e = c
      BY Zenon, <1>14, <3>1
    <3>2. CASE ~(u = t /\ d = n /\ e = c)
      <4>1. \E j \in Nat : Waiting(e, j, u, d)
        BY Zenon, <1>12, <2>1, <3>2
      <4>2. Awaiting(u, d, e)
        BY Zenon, <4>1 DEF IInv, MessageInv
      <4>3. QED
        BY Zenon, <1>14, <4>2 DEF AwaitingKept
    <3>3. QED
      BY Zenon, <3>1, <3>2
  <2>2. ASSUME NEW e \in Cpus, NEW i \in Nat, NEW u \in Tasks, NEW d \in Nat, NEW j \in Nat,
               Waiting(e, i, u, d)', Waiting(e, j, u, d)'
        PROVE  i = j
    <3>1. CASE u = t /\ d = n
      BY Zenon, <1>11, <1>12, <2>2, <3>1
    <3>2. CASE ~(u = t /\ d = n)
      BY <1>12, <2>2, <3>2 DEF IInv, MessageInv
    <3>3. QED
      BY Zenon, <3>1, <3>2
  <2>3. ASSUME NEW u \in Tasks, NEW e \in Nat, NEW v \in Tasks, NEW d \in Nat, Handles(u, e, v, d)'
        PROVE  /\ \E f \in Cpus : Awaiting(v, d, f)' /\ running'[f] = u
               /\ \A f \in Cpus : \A i \in Nat : ~Waiting(f, i, v, d)'
               /\ \A w \in Tasks : \A f \in Nat : Handles(w, f, v, d)' => u = w /\ e = f
    <3>1. Handles(u, e, v, d) /\ ~(v = t /\ d = n) /\ running' = running
      BY <1>11, <1>13, <2>3 DEF NoNewHandlers, EnqueueTlb
    <3>2. \E f \in Cpus : Awaiting(v, d, f)' /\ running'[f] = u
      BY ZenonT(30), <1>14, <3>1 DEF AwaitingKept, IInv, MessageInv
    <3>3. \A f \in Cpus : \A i \in Nat : ~Waiting(f, i, v, d)'
      BY <1>12, <3>1 DEF IInv, MessageInv
    <3>4. \A w \in Tasks : \A f \in Nat : Handles(w, f, v, d)' => u = w /\ e = f
      BY <1>13, <3>1 DEF NoNewHandlers, IInv, MessageInv
    <3>5. QED
      BY Zenon, <3>2, <3>3, <3>4
  <2>4. QED
    BY ZenonT(30), <2>1, <2>2, <2>3 DEF MessageInv
<1>16. FlushInv'
  <2>1. ASSUME NEW u \in Tasks, NEW d \in 1 .. Len(stack'[u]), stack'[u][d].fn = "tlb", stack'[u][d].at # "inval"
        PROVE  Kept(u, d)
    <3>1. CASE u = t /\ d = n
      BY <1>1, <1>2, <1>4, <1>5, <1>6, <1>3, <3>1 DEF Kept, Replaced
    <3>2. CASE ~(u = t /\ d = n)
      BY <1>5, <1>6, <1>3, <2>1, <3>2 DEF Kept, Replaced
    <3>3. QED
      BY Zenon, <3>1, <3>2
  <2>2. running' = running
    BY Zenon DEF EnqueueTlb
  <2>3. QED
    BY Zenon, <2>1, <2>2, FlushesKept DEF FlushInv
<1>17. AckInv'
  BY Zenon, <1>13, <1>14, AcksKept
<1>18. QED
  BY Zenon, <1>10, <1>15, <1>16, <1>17 DEF IInv

-----------------------------------------------------------------------------
(* Flushes. *)

\* A frame is replaced, and cpu c flushes its TLB.
LEMMA GoingAndFlushing ==
    ASSUME TypeInv, NEW t \in Tasks, stack[t] # <<>>, NEW g \in AllFrames, NEW c \in Cpus,
           stack' = Flushed(Update(t, g), c)
    PROVE  /\ Typed(stack')
           /\ \A u \in Tasks : Len(stack'[u]) = Len(stack[u])
           /\ \A u \in Tasks : \A d \in 1 .. Len(stack[u]) :
                 AfterFlush(stack'[u][d], IF u = t /\ d = Len(stack[t]) THEN g ELSE stack[u][d], c)
<1> DEFINE s == Update(t, g)
<1>1. Typed(s) /\ Replaced(s, t, g)
  BY Zenon, Updating
<1> HIDE DEF s
<1>2. /\ Typed(stack')
      /\ \A u \in Tasks : Len(stack'[u]) = Len(s[u])
      /\ \A u \in Tasks : \A d \in 1 .. Len(s[u]) : AfterFlush(stack'[u][d], s[u][d], c)
  BY Zenon, <1>1, Flushing DEF s
<1>3. QED
  BY Zenon, <1>1, <1>2 DEF Replaced

\* The cpu that starts a shootdown flushes its own TLB.
LEMMA Invalidating ==
    ASSUME IInv, NEW t \in Tasks, Invalidate(t)
    PROVE  IInv'
<1> DEFINE g == [Top(t) EXCEPT !.at = "next"]
<1>1. /\ Top(t) \in TlbFrames /\ Top(t).at = "inval" /\ Top(t).fn = "tlb"
      /\ stack[t] # <<>> /\ At(t, "tlb", "inval")
  BY Zenon, RunningShootdown DEF IInv, Invalidate, At
<1>2. PICK c \in Cpus : c = cpu_id(t)
  BY Zenon, <1>1, Running DEF IInv
<1>3. /\ g \in TlbFrames /\ g \in AllFrames /\ g.fn = "tlb" /\ g.at = "next" /\ g.cpu = 0 /\ g.stale = Top(t).stale
      /\ Top(t).stale \subseteq Cpus
  BY Zenon, <1>1, NCpusAssumption DEF TlbFrames, AllFrames
<1> HIDE DEF g
<1>4. /\ Typed(stack')
      /\ \A u \in Tasks : Len(stack'[u]) = Len(stack[u])
      /\ \A u \in Tasks : \A d \in 1 .. Len(stack[u]) :
            AfterFlush(stack'[u][d], IF u = t /\ d = Len(stack[t]) THEN g ELSE stack[u][d], c)
  BY <1>1, <1>2, <1>3, Going, GoingAndFlushing DEF IInv, Invalidate, g
<1>5. /\ Top(t) = stack[t][Len(stack[t])] /\ Len(stack[t]) \in 1 .. Len(stack[t])
      /\ \A e \in Cpus : running[e] = t => e = c
      /\ \A u \in Tasks : Len(stack[u]) \in Nat
  BY <1>1, <1>2, Running DEF IInv, TypeInv
<1>6. TypeInv'
  BY Zenon, <1>4 DEF IInv, TypeInv, Typed, Invalidate
<1>7. running' = running /\ NoNewMessages
  BY ZenonT(30), SameQueues DEF Invalidate
<1>8. NoNewHandlers /\ NoNewAcks
  <2>1. ASSUME NEW u \in Tasks, NEW e \in Nat, NEW v \in Tasks, NEW d \in Nat, Handles(u, e, v, d)'
        PROVE  Handles(u, e, v, d) /\ stack'[u][e] = stack[u][e]
    <3>1. e \in 1 .. Len(stack[u]) /\ stack'[u][e].fn = "irq"
      BY Zenon, <1>4, <2>1 DEF Handles
    <3>2. AfterFlush(stack'[u][e], IF u = t /\ e = Len(stack[t]) THEN g ELSE stack[u][e], c)
      BY Zenon, <1>4, <3>1
    <3>3. stack'[u][e] = stack[u][e]
      BY Zenon, <1>3, <3>1, <3>2 DEF AfterFlush
    <3>4. QED
      BY Zenon, <2>1, <3>1, <3>3 DEF Handles
  <2>2. QED
    BY Zenon, <2>1 DEF NoNewHandlers, NoNewAcks
<1>9. AwaitingKept
  BY <1>1, <1>4, <1>5 DEF AwaitingKept, Awaiting, AfterFlush
<1>10. FlushInv'
  <2>1. ASSUME NEW u \in Tasks, NEW d \in 1 .. Len(stack'[u]), stack'[u][d].fn = "tlb", stack'[u][d].at # "inval"
        PROVE  /\ \A e \in stack'[u][d].stale : e >= stack'[u][d].cpu /\ running'[e] # u
               /\ stack'[u][d].at \in {"ipi", "wait"} /\ stack'[u][d].wait = 0 =>
                     stack'[u][d].cpu \notin stack'[u][d].stale
    <3>1. CASE u = t /\ d = Len(stack[t])
      <4>1. AfterFlush(stack'[t][d], g, c)
        BY Zenon, <1>4, <1>5, <3>1
      <4>2. stack'[u][d].at = "next" /\ stack'[u][d].cpu = 0 /\ stack'[u][d].stale = Top(t).stale \ {c}
        BY Zenon, <1>3, <3>1, <4>1 DEF AfterFlush
      <4>3. QED
        BY <1>3, <1>5, <1>7, <3>1, <4>2, NCpusAssumption DEF Cpus
    <3>2. CASE ~(u = t /\ d = Len(stack[t]))
      <4>1. Kept(u, d)
        BY <1>4, <1>5, <2>1, <3>2 DEF Kept, AfterFlush
      <4>2. QED
        BY Zenon, <1>7, <4>1, FlushesKept
    <3>3. QED
      BY Zenon, <3>1, <3>2
  <2>2. QED
    BY Zenon, <2>1 DEF FlushInv
<1>11. QED
  BY ZenonT(30), <1>6, <1>7, <1>8, <1>9, <1>10, MessagesKept, AcksKept DEF IInv

\* The handler flushes the TLB of the cpu that the shootdown awaits.
LEMMA HandlerFlushes ==
    ASSUME IInv, NEW t \in Tasks, FlushTlb(t)
    PROVE  IInv'
<1> DEFINE g == [Top(t) EXCEPT !.at = "ack"]
<1>1. /\ Top(t) \in AllFrames /\ Top(t).at = "flush" /\ Top(t).fn = "irq"
      /\ stack[t] # <<>> /\ At(t, "irq", "flush")
  BY Zenon, Running DEF IInv, FlushTlb, At
<1>2. PICK c \in Cpus : c = cpu_id(t)
  BY Zenon, <1>1, Running DEF IInv
<1>3. g \in AllFrames /\ g.fn = "irq" /\ g.at = "ack" /\ g.msg = Top(t).msg
  BY Zenon, <1>1 DEF AllFrames, IrqFrames, TlbFrames, CallFrames
<1> HIDE DEF g
<1>4. /\ Typed(stack')
      /\ \A u \in Tasks : Len(stack'[u]) = Len(stack[u])
      /\ \A u \in Tasks : \A d \in 1 .. Len(stack[u]) :
            AfterFlush(stack'[u][d], IF u = t /\ d = Len(stack[t]) THEN g ELSE stack[u][d], c)
  BY <1>1, <1>2, <1>3, Going, GoingAndFlushing DEF IInv, FlushTlb, g
<1>5. /\ Top(t) = stack[t][Len(stack[t])] /\ Len(stack[t]) \in 1 .. Len(stack[t])
      /\ \A e \in Cpus : running[e] = t => e = c
      /\ \A u \in Tasks : Len(stack[u]) \in Nat
  BY <1>1, <1>2, Running DEF IInv, TypeInv
<1>6. TypeInv'
  BY Zenon, <1>4 DEF IInv, TypeInv, Typed, FlushTlb
<1>7. running' = running /\ NoNewMessages
  BY ZenonT(30), SameQueues DEF FlushTlb
<1>8. NoNewHandlers
  BY SMTT(30), <1>1, <1>3, <1>4, <1>5 DEF NoNewHandlers, Handles, AfterFlush
<1>9. AwaitingKept
  BY <1>1, <1>4, <1>5 DEF AwaitingKept, Awaiting, AfterFlush
<1>10. FlushInv'
  <2>1. ShootdownsKept
    BY <1>3, <1>4, <1>5 DEF ShootdownsKept, Kept, AfterFlush
  <2>2. QED
    BY ZenonT(30), <1>7, <2>1, FlushesKept DEF FlushInv, ShootdownsKept
<1>11. AckInv'
  <2>1. ASSUME NEW u \in Tasks, NEW e \in Nat, NEW v \in Tasks, NEW d \in Nat,
               Handles(u, e, v, d)', stack'[u][e].at = "ack"
        PROVE  stack'[v][d].cpu \notin stack'[v][d].stale
    <3>1. Handles(u, e, v, d)
      BY Zenon, <1>8, <2>1 DEF NoNewHandlers
    <3>2. PICK f \in Cpus : Awaiting(v, d, f) /\ running[f] = u
      BY Zenon, <3>1 DEF IInv, MessageInv
    <3>3. Awaiting(v, d, f)' /\ stack'[v][d].stale \subseteq stack[v][d].stale
      BY Zenon, <1>9, <3>2 DEF AwaitingKept
    <3>4. CASE u = t /\ e = Len(stack[t])
      <4>1. f = c
        BY Zenon, <1>5, <3>2, <3>4
      <4>2. AfterFlush(stack'[v][d], stack[v][d], c)
        BY Zenon, <1>1, <1>4, <1>5, <3>2 DEF Awaiting
      <4>3. QED
        BY Zenon, <3>2, <3>3, <4>1, <4>2 DEF Awaiting, AfterFlush
    <3>5. CASE ~(u = t /\ e = Len(stack[t]))
      <4>1. stack[u][e].at = "ack"
        BY Zenon, <1>4, <2>1, <3>1, <3>5 DEF Handles, AfterFlush
      <4>2. QED
        BY Zenon, <3>1, <3>2, <3>3, <4>1 DEF IInv, AckInv, Awaiting
    <3>6. QED
      BY Zenon, <3>4, <3>5
  <2>2. QED
    BY Zenon, <2>1 DEF AckInv
<1>12. QED
  BY Zenon, <1>6, <1>7, <1>8, <1>9, <1>10, <1>11, MessagesKept DEF IInv

\* schedule() switches to another task, on a cpu whose handlers have no message.
LEMMA Scheduling ==
    ASSUME IInv, NEW c \in Cpus, Schedule(c)
    PROVE  IInv'
<1>1. PICK t \in Tasks : (\A d \in Cpus : running[d] # t) /\ running' = [running EXCEPT ![c] = t]
  BY Zenon DEF Schedule, Tasks
<1>2. running[c] \in Tasks /\ \A u \in Tasks : Len(stack[u]) \in Nat
  BY DEF IInv, TypeInv
<1>3. /\ Typed(stack')
      /\ \A u \in Tasks : Len(stack'[u]) = Len(stack[u])
      /\ \A u \in Tasks : \A d \in 1 .. Len(stack[u]) : AfterFlush(stack'[u][d], stack[u][d], c)
  BY Zenon, Flushing DEF IInv, TypeInv, Typed, Schedule
<1>4. /\ running'[c] = t
      /\ \A d \in Cpus : d # c => running'[d] = running[d]
  BY Zenon, <1>1 DEF IInv, TypeInv
<1>5. TypeInv'
  <2>1. \A d, e \in Cpus : running'[d] = running'[e] => d = e
    BY Zenon, <1>1, <1>4 DEF IInv, TypeInv
  <2>2. running' \in [Cpus -> Tasks]
    BY Zenon, <1>1 DEF IInv, TypeInv
  <2>3. QED
    BY Zenon, <1>3, <2>1, <2>2 DEF IInv, TypeInv, Typed, Schedule
<1>6. NoNewMessages
  BY Zenon, SameQueues DEF Schedule
<1>7. NoNewHandlers /\ NoNewAcks
  BY <1>2, <1>3 DEF NoNewHandlers, NoNewAcks, Handles, AfterFlush
<1>8. AwaitingKept
  BY <1>2, <1>3 DEF AwaitingKept, Awaiting, AfterFlush
<1>9. MessageInv'
  <2>1. ASSUME NEW u \in Tasks, NEW e \in Nat, NEW v \in Tasks, NEW d \in Nat, Handles(u, e, v, d)'
        PROVE  \E f \in Cpus : Awaiting(v, d, f)' /\ running'[f] = u
    <3>1. Handles(u, e, v, d)
      BY Zenon, <1>7, <2>1 DEF NoNewHandlers
    <3>2. PICK f \in Cpus : Awaiting(v, d, f) /\ running[f] = u
      BY <3>1 DEF IInv, MessageInv
    <3>3. u # running[c]
      BY Zenon, <3>1 DEF Handles, Schedule, preemptible, depth
    <3>4. QED
      BY Zenon, <1>4, <1>8, <3>2, <3>3 DEF AwaitingKept
  <2>2. ASSUME NEW f \in Cpus, NEW i \in Nat, NEW v \in Tasks, NEW d \in Nat, Waiting(f, i, v, d)'
        PROVE  Awaiting(v, d, f)' /\ \A j \in Nat : Waiting(f, j, v, d)' => i = j
    BY <1>6, <1>8, <2>2 DEF IInv, MessageInv, NoNewMessages, AwaitingKept
  <2>3. ASSUME NEW u \in Tasks, NEW e \in Nat, NEW v \in Tasks, NEW d \in Nat, Handles(u, e, v, d)'
        PROVE  /\ \A f \in Cpus : \A i \in Nat : ~Waiting(f, i, v, d)'
               /\ \A w \in Tasks : \A f \in Nat : Handles(w, f, v, d)' => u = w /\ e = f
    BY <1>6, <1>7, <2>3 DEF IInv, MessageInv, NoNewMessages, NoNewHandlers
  <2>4. QED
    BY SMTT(30), <2>1, <2>2, <2>3 DEF MessageInv
<1>10. FlushInv'
  <2>1. ASSUME NEW u \in Tasks, NEW d \in 1 .. Len(stack'[u]), stack'[u][d].fn = "tlb", stack'[u][d].at # "inval"
        PROVE  /\ \A e \in stack'[u][d].stale : e >= stack'[u][d].cpu /\ running'[e] # u
               /\ stack'[u][d].at \in {"ipi", "wait"} /\ stack'[u][d].wait = 0 =>
                     stack'[u][d].cpu \notin stack'[u][d].stale
    <3>1. d \in 1 .. Len(stack[u]) /\ AfterFlush(stack'[u][d], stack[u][d], c)
      BY Zenon, <1>3
    <3>2. stack[u][d].stale \subseteq Cpus
      <4>1. stack[u][d] \in AllFrames
        BY Zenon, <3>1, SeqElement DEF IInv, TypeInv
      <4>2. QED
        BY Zenon, <2>1, <3>1, <4>1 DEF AllFrames, TlbFrames, CallFrames, IrqFrames, AfterFlush
    <3>3. QED
      BY <1>4, <2>1, <3>1, <3>2 DEF IInv, FlushInv, AfterFlush
  <2>2. QED
    BY ZenonT(30), <2>1 DEF FlushInv
<1>11. QED
  BY Zenon, <1>5, <1>7, <1>8, <1>9, <1>10, AcksKept DEF IInv

-----------------------------------------------------------------------------
(* The handler takes a message, and acknowledges it. *)

\* process_messages() takes the first message of a queue.
LEMMA Taking ==
    ASSUME IInv, NEW t \in Tasks, TakeMessage(t)
    PROVE  IInv'
<1>1. /\ Top(t) \in AllFrames /\ Top(t).at = "loop" /\ Top(t).fn = "irq" /\ stack[t] # <<>>
      /\ At(t, "irq", "loop")
  BY Zenon, Running DEF IInv, TakeMessage, At
<1>2. PICK c \in Cpus : c = cpu_id(t) /\ running[c] = t
  BY Zenon, <1>1, Running DEF IInv
<1>3. PICK n \in Nat : n = Len(stack[t])
  BY DEF IInv, TypeInv
<1> DEFINE q == message_queue[c]
           m == Head(q)
           g == [Top(t) EXCEPT !.at = "copy", !.msg = m]
<1>4. q \in Seq(Messages) /\ q # <<>> /\ message_queue' = [message_queue EXCEPT ![c] = Tail(q)]
  BY Zenon, <1>2 DEF IInv, TypeInv, TakeMessage
<1>5. /\ Len(q) \in Nat \ {0} /\ m \in Messages /\ m = q[1]
      /\ Tail(q) \in Seq(Messages) /\ Len(Tail(q)) = Len(q) - 1
      /\ \A i \in 1 .. Len(Tail(q)) : Tail(q)[i] = q[i + 1]
  BY Zenon, <1>4, SeqElement, SeqHeadTail
<1>6. g \in AllFrames /\ g.fn = "irq" /\ g.at = "copy" /\ g.msg = m
  <2> HIDE DEF m
  <2>1. QED
    BY Zenon, <1>1, <1>5 DEF AllFrames, IrqFrames, TlbFrames, CallFrames
<1>7. stack' = Update(t, g)
  BY Zenon, <1>2 DEF TakeMessage
<1> HIDE DEF g, m
<1>8. Typed(stack') /\ Replaced(stack', t, g)
  BY Zenon, <1>1, <1>6, <1>7, Updating DEF IInv
<1>9. /\ Top(t) = stack[t][n] /\ n \in 1 .. Len(stack[t])
      /\ \A u \in Tasks : Len(stack[u]) \in Nat
  BY <1>1, <1>3, Running DEF IInv, TypeInv
<1>10. TypeInv'
  <2>1. message_queue' \in [Cpus -> Seq(Messages)]
    BY Zenon, <1>2, <1>4, <1>5 DEF IInv, TypeInv
  <2>2. QED
    BY Zenon, <1>8, <2>1 DEF IInv, TypeInv, Typed, TakeMessage
<1>11. running' = running
  BY Zenon DEF TakeMessage
\* The messages in the queue of this cpu move up.
<1>12. ASSUME NEW e \in Cpus, NEW i \in Nat, NEW u \in Tasks, NEW d \in Nat, Waiting(e, i, u, d)'
       PROVE  \/ e = c /\ i + 1 # 1 /\ Waiting(e, i + 1, u, d)
              \/ e # c /\ Waiting(e, i, u, d)
  <2>1. CASE e = c
    BY <1>2, <1>4, <1>5, <1>12, <2>1 DEF Waiting, IInv, TypeInv
  <2>2. CASE e # c
    BY Zenon, <1>2, <1>4, <1>12, <2>2 DEF Waiting, IInv, TypeInv
  <2>3. QED
    BY Zenon, <2>1, <2>2
<1>13. ASSUME NEW u \in Tasks, NEW e \in Nat, NEW v \in Tasks, NEW d \in Nat, Handles(u, e, v, d)'
       PROVE  \/ u = t /\ e = n /\ Waiting(c, 1, v, d) /\ stack'[u][e].at = "copy"
              \/ ~(u = t /\ e = n) /\ Handles(u, e, v, d) /\ stack'[u][e].at = stack[u][e].at
  <2>1. CASE u = t /\ e = n
    <3>1. m = TlbMessage(v, d) /\ stack'[u][e].at = "copy"
      BY Zenon, <1>3, <1>6, <1>8, <1>9, <1>13, <2>1 DEF Handles, Replaced
    <3>2. QED
      BY <1>5, <2>1, <3>1 DEF Waiting
  <2>2. CASE ~(u = t /\ e = n)
    BY ZenonT(30), <1>3, <1>8, <1>9, <1>13, <2>2 DEF Handles, Replaced
  <2>3. QED
    BY Zenon, <2>1, <2>2
<1>14. AwaitingKept
  BY <1>1, <1>3, <1>8, <1>9 DEF AwaitingKept, Awaiting, Replaced
<1>15. MessageInv'
  <2>1. ASSUME NEW e \in Cpus, NEW i \in Nat, NEW u \in Tasks, NEW d \in Nat, Waiting(e, i, u, d)'
        PROVE  Awaiting(u, d, e)' /\ \A j \in Nat : Waiting(e, j, u, d)' => i = j
    <3>1. Awaiting(u, d, e)
      BY <1>12, <2>1 DEF IInv, MessageInv
    <3>2. ASSUME NEW j \in Nat, Waiting(e, j, u, d)'
          PROVE  i = j
      BY <1>12, <2>1, <3>2 DEF IInv, MessageInv
    <3>3. QED
      BY Zenon, <1>14, <3>1, <3>2 DEF AwaitingKept
  <2>2. ASSUME NEW u \in Tasks, NEW e \in Nat, NEW v \in Tasks, NEW d \in Nat, Handles(u, e, v, d)'
        PROVE  /\ \E f \in Cpus : Awaiting(v, d, f)' /\ running'[f] = u
               /\ \A f \in Cpus : \A i \in Nat : ~Waiting(f, i, v, d)'
               /\ \A w \in Tasks : \A f \in Nat : Handles(w, f, v, d)' => u = w /\ e = f
    <3>1. CASE u = t /\ e = n
      <4>1. Waiting(c, 1, v, d)
        BY Zenon, <1>13, <2>2, <3>1
      <4>2. Awaiting(v, d, c) /\ \A j \in Nat : Waiting(c, j, v, d) => j = 1
        BY SMTT(30), <4>1 DEF IInv, MessageInv
      <4>3. \A f \in Cpus : \A i \in Nat : Waiting(f, i, v, d) => f = c
        BY <4>2 DEF IInv, MessageInv, Awaiting
      <4>4. \A f \in Cpus : \A i \in Nat : ~Waiting(f, i, v, d)'
        BY <1>12, <4>2, <4>3
      <4>5. \A w \in Tasks : \A f \in Nat : ~Handles(w, f, v, d)
        BY Zenon, <4>1 DEF IInv, MessageInv
      <4>6. QED
        BY ZenonT(30), <1>2, <1>11, <1>13, <1>14, <3>1, <4>2, <4>4, <4>5 DEF AwaitingKept
    <3>2. CASE ~(u = t /\ e = n)
      <4>1. Handles(u, e, v, d)
        BY Zenon, <1>13, <2>2, <3>2
      <4>2. \A f \in Cpus : \A i \in Nat : ~Waiting(f, i, v, d)
        BY Zenon, <4>1 DEF IInv, MessageInv
      <4>3. \A f \in Cpus : \A i \in Nat : ~Waiting(f, i, v, d)'
        BY <1>12, <4>2
      <4>4. \A w \in Tasks : \A f \in Nat : Handles(w, f, v, d)' => u = w /\ e = f
        BY <1>13, <4>1, <4>2 DEF IInv, MessageInv
      <4>5. QED
        BY ZenonT(30), <1>11, <1>14, <4>1, <4>3, <4>4 DEF AwaitingKept, IInv, MessageInv
    <3>3. QED
      BY Zenon, <3>1, <3>2
  <2>3. QED
    BY ZenonT(30), <2>1, <2>2 DEF MessageInv
<1>16. FlushInv'
  <2>1. ShootdownsKept
    BY <1>3, <1>6, <1>8, <1>9 DEF ShootdownsKept, Kept, Replaced
  <2>2. QED
    BY Zenon, <1>11, <2>1, FlushesKept DEF FlushInv, ShootdownsKept
<1>17. AckInv'
  <2>1. ASSUME NEW u \in Tasks, NEW e \in Nat, NEW v \in Tasks, NEW d \in Nat,
               Handles(u, e, v, d)', stack'[u][e].at = "ack"
        PROVE  stack'[v][d].cpu \notin stack'[v][d].stale
    <3>1. Handles(u, e, v, d) /\ stack[u][e].at = "ack"
      BY Zenon, <1>13, <2>1
    <3>2. PICK f \in Cpus : Awaiting(v, d, f)
      BY Zenon, <3>1 DEF IInv, MessageInv
    <3>3. QED
      BY <1>14, <3>1, <3>2 DEF AwaitingKept, Awaiting, IInv, AckInv
  <2>2. QED
    BY Zenon, <2>1 DEF AckInv
<1>18. QED
  BY Zenon, <1>10, <1>15, <1>16, <1>17 DEF IInv

\* atomic_dec(wait): the handler on top of t's stack becomes g, and the frame of
\* the shootdown, which awaits cpu c, becomes h.
AckShape(t, v, k, c, g, h) ==
    /\ Handles(t, Len(stack[t]), v, k) /\ stack[t][Len(stack[t])].at = "ack" /\ Awaiting(v, k, c)
    /\ g.fn = "irq" /\ g.at = "loop"
    /\ h.fn = "tlb" /\ h.at = stack[v][k].at /\ h.wait = 0 /\ h.cpu = c /\ h.stale = stack[v][k].stale
    /\ Typed(stack')
    /\ \A u \in Tasks : Len(stack'[u]) = Len(stack[u])
    /\ \A u \in Tasks : \A d \in 1 .. Len(stack[u]) :
          stack'[u][d] = IF u = t /\ d = Len(stack[t]) THEN g ELSE IF u = v /\ d = k THEN h ELSE stack[u][d]

\* AckTlb() has that shape: the frame that the message points to is a shootdown
\* that still waits.
LEMMA AckSteps ==
    ASSUME IInv, NEW t \in Tasks, AckTlb(t)
    PROVE  \E v \in Tasks, k \in Nat, c \in Cpus, g, h \in AllFrames : AckShape(t, v, k, c, g, h)
<1>1. /\ Top(t) \in AllFrames /\ Top(t).at = "ack" /\ Top(t).fn = "irq" /\ stack[t] # <<>>
      /\ At(t, "irq", "ack")
  BY Zenon, Running DEF IInv, AckTlb, At
<1>2. PICK n \in Nat : n = Len(stack[t])
  BY DEF IInv, TypeInv
<1>3. /\ Top(t) = stack[t][n] /\ n \in 1 .. Len(stack[t])
      /\ \A u \in Tasks : Len(stack[u]) \in Nat
  BY <1>1, <1>2, Running DEF IInv, TypeInv
<1>4. Top(t).msg \in Messages /\ Top(t).msg.tag = "tlb"
  BY Zenon, <1>1 DEF AllFrames, IrqFrames, TlbFrames, CallFrames
<1>5. PICK v \in Tasks, k \in Nat : Top(t).msg = TlbMessage(v, k)
  BY <1>4 DEF Messages, TlbMessage
<1>6. Handles(t, n, v, k)
  BY Zenon, <1>1, <1>3, <1>5 DEF Handles
<1>7. PICK c \in Cpus : Awaiting(v, k, c)
  BY Zenon, <1>6 DEF IInv, MessageInv
<1>8. ~(v = t /\ k = n)
  BY Zenon, <1>1, <1>3, <1>7 DEF Awaiting
<1> DEFINE g == [Top(t) EXCEPT !.at = "loop"]
           s == Update(t, g)
           h == [stack[v][k] EXCEPT !.wait = @ - 1]
<1>9. g \in AllFrames /\ g.fn = "irq" /\ g.at = "loop"
  BY Zenon, <1>1 DEF AllFrames, IrqFrames, TlbFrames, CallFrames
<1>10. /\ stack[v][k] \in TlbFrames
       /\ h \in AllFrames /\ h.fn = "tlb" /\ h.at = stack[v][k].at /\ h.wait = 0 /\ h.cpu = stack[v][k].cpu
       /\ h.stale = stack[v][k].stale
  <2>1. stack[v][k] \in AllFrames
    BY Zenon, <1>7, SeqElement DEF Awaiting, IInv, TypeInv
  <2>2. stack[v][k] \in TlbFrames
    BY Zenon, <1>7, <2>1 DEF Awaiting, AllFrames, CallFrames, IrqFrames
  <2>3. stack[v][k].wait - 1 = 0 /\ stack[v][k].at \in {"ipi", "wait"}
    BY <1>7 DEF Awaiting
  <2>4. QED
    BY Zenon, <2>2, <2>3 DEF AllFrames, TlbFrames
<1> HIDE DEF g
<1>11. Typed(s) /\ Replaced(s, t, g)
  BY Zenon, <1>1, <1>9, Updating DEF IInv
<1>12. s[v][k] = stack[v][k]
  BY Zenon, <1>2, <1>7, <1>8, <1>11 DEF Replaced, Awaiting
<1>13. stack' = [s EXCEPT ![v] = [s[v] EXCEPT ![k] = h]]
  <2>1. Top(t).msg.data[1] = v /\ Top(t).msg.data[2] = k
    BY <1>5 DEF TlbMessage
  <2>2. stack' = [s EXCEPT ![v][k].wait = @ - 1]
    BY Zenon, <2>1, Going DEF AckTlb, g
  <2> HIDE DEF s
  <2>3. QED
    BY Zenon, <1>12, <2>2
<1> HIDE DEF s, h
<1>14. /\ Typed(stack')
       /\ \A u \in Tasks : Len(stack'[u]) = Len(stack[u])
       /\ \A u \in Tasks : \A d \in 1 .. Len(stack[u]) :
             stack'[u][d] = IF u = t /\ d = n THEN g ELSE IF u = v /\ d = k THEN h ELSE stack[u][d]
  <2>1. s[v] \in Seq(AllFrames) /\ k \in 1 .. Len(s[v])
    BY Zenon, <1>7, <1>11 DEF Typed, Replaced, Awaiting
  <2>2. /\ [s[v] EXCEPT ![k] = h] \in Seq(AllFrames)
        /\ Len([s[v] EXCEPT ![k] = h]) = Len(s[v])
        /\ \A j \in 1 .. Len(s[v]) : [s[v] EXCEPT ![k] = h][j] = IF j = k THEN h ELSE s[v][j]
    BY <1>10, <2>1, SeqReplace
  <2>3. Typed(stack') /\ \A u \in Tasks : Len(stack'[u]) = Len(s[u])
    BY Zenon, <1>11, <1>13, <2>2 DEF Typed
  <2>4. ASSUME NEW u \in Tasks, NEW d \in 1 .. Len(s[u])
        PROVE  stack'[u][d] = IF u = v /\ d = k THEN h ELSE s[u][d]
    BY ZenonT(30), <1>11, <1>13, <2>2 DEF Typed
  <2>5. QED
    BY <1>2, <1>8, <1>11, <2>3, <2>4 DEF Replaced
<1>15. AckShape(t, v, k, c, g, h)
  BY Zenon, <1>1, <1>2, <1>3, <1>6, <1>7, <1>9, <1>10, <1>14 DEF AckShape, Awaiting
<1>16. QED
  BY Zenon, <1>9, <1>10, <1>15

\* The shootdown has its acknowledgement.
LEMMA Acknowledging ==
    ASSUME IInv, NEW t \in Tasks, AckTlb(t)
    PROVE  IInv'
<1>1. PICK v \in Tasks, k \in Nat, c \in Cpus, g, h \in AllFrames : AckShape(t, v, k, c, g, h)
  BY Zenon, AckSteps
<1>2. PICK n \in Nat : n = Len(stack[t])
  BY SMTT(30) DEF IInv, TypeInv
<1>3. Handles(t, n, v, k) /\ Awaiting(v, k, c) /\ \A u \in Tasks : Len(stack[u]) \in Nat
  <2>1. Handles(t, n, v, k) /\ Awaiting(v, k, c)
    BY Zenon, <1>1, <1>2 DEF AckShape
  <2>2. \A u \in Tasks : Len(stack[u]) \in Nat
    BY DEF IInv, TypeInv
  <2>3. QED
    BY Zenon, <2>1, <2>2
<1>4. /\ \A e \in Cpus : \A i \in Nat : ~Waiting(e, i, v, k)
      /\ \A w \in Tasks : \A f \in Nat : Handles(w, f, v, k) => w = t /\ f = n
  BY <1>3 DEF IInv, MessageInv
<1>5. stack[v][k].cpu \notin stack[v][k].stale /\ ~(v = t /\ k = n)
  BY Zenon, <1>1, <1>2, <1>3 DEF AckShape, IInv, AckInv, Awaiting, Handles
<1>6. g.fn = "irq" /\ g.at = "loop"
  BY Zenon, <1>1 DEF AckShape
<1>7. h.fn = "tlb" /\ h.at = stack[v][k].at /\ h.wait = 0 /\ h.cpu = stack[v][k].cpu /\ h.stale = stack[v][k].stale
  BY Zenon, <1>1, <1>3 DEF AckShape, Awaiting
<1>8. /\ Typed(stack')
      /\ \A u \in Tasks : Len(stack'[u]) = Len(stack[u])
      /\ \A u \in Tasks : \A d \in 1 .. Len(stack[u]) :
            stack'[u][d] = IF u = t /\ d = n THEN g ELSE IF u = v /\ d = k THEN h ELSE stack[u][d]
  BY <1>1, <1>2 DEF AckShape
<1>9. TypeInv'
  BY Zenon, <1>8 DEF IInv, TypeInv, Typed, AckTlb
<1>10. running' = running /\ NoNewMessages
  BY Zenon, SameQueues DEF AckTlb
<1>11. ASSUME NEW u \in Tasks, NEW e \in Nat, NEW w \in Tasks, NEW d \in Nat, Handles(u, e, w, d)'
       PROVE  Handles(u, e, w, d) /\ stack'[u][e].at = stack[u][e].at /\ ~(w = v /\ d = k)
  <2>1. e \in 1 .. Len(stack[u]) /\ ~(u = t /\ e = n) /\ ~(u = v /\ e = k)
    BY SMTT(30), <1>5, <1>6, <1>7, <1>8, <1>11 DEF Handles
  <2>2. stack'[u][e] = stack[u][e]
    BY Zenon, <1>8, <2>1
  <2>3. QED
    BY Zenon, <1>4, <1>11, <2>1, <2>2 DEF Handles
<1>12. \A w \in Tasks : \A d \in Nat : \A e \in Cpus :
          ~(w = v /\ d = k) /\ Awaiting(w, d, e) => Awaiting(w, d, e)' /\ stack'[w][d] = stack[w][d]
  BY SMTT(30), <1>3, <1>8 DEF Awaiting, Handles
<1>13. MessageInv'
  <2>1. ASSUME NEW e \in Cpus, NEW i \in Nat, NEW u \in Tasks, NEW d \in Nat, Waiting(e, i, u, d)'
        PROVE  Awaiting(u, d, e)' /\ \A j \in Nat : Waiting(e, j, u, d)' => i = j
    BY SMTT(30), <1>4, <1>10, <1>12, <2>1 DEF NoNewMessages, IInv, MessageInv
  <2>2. ASSUME NEW u \in Tasks, NEW e \in Nat, NEW w \in Tasks, NEW d \in Nat, Handles(u, e, w, d)'
        PROVE  /\ \E f \in Cpus : Awaiting(w, d, f)' /\ running'[f] = u
               /\ \A f \in Cpus : \A i \in Nat : ~Waiting(f, i, w, d)'
               /\ \A x \in Tasks : \A f \in Nat : Handles(x, f, w, d)' => u = x /\ e = f
    <3>1. Handles(u, e, w, d) /\ ~(w = v /\ d = k)
      BY Zenon, <1>11, <2>2
    <3>2. \E f \in Cpus : Awaiting(w, d, f)' /\ running'[f] = u
      BY ZenonT(30), <1>10, <1>12, <3>1 DEF IInv, MessageInv
    <3>3. \A f \in Cpus : \A i \in Nat : ~Waiting(f, i, w, d)'
      BY Zenon, <1>10, <3>1 DEF NoNewMessages, IInv, MessageInv
    <3>4. \A x \in Tasks : \A f \in Nat : Handles(x, f, w, d)' => u = x /\ e = f
      <4>1. \A x \in Tasks : \A f \in Nat : Handles(x, f, w, d) => u = x /\ e = f
        BY Zenon, <3>1 DEF IInv, MessageInv
      <4>2. \A x \in Tasks : \A f \in Nat : Handles(x, f, w, d)' => Handles(x, f, w, d)
        BY Zenon, <1>11
      <4>3. QED
        BY Zenon, <4>1, <4>2
    <3>5. QED
      BY Zenon, <3>2, <3>3, <3>4
  <2>3. QED
    BY Zenon, <2>1, <2>2 DEF MessageInv
<1>14. FlushInv'
  <2>1. ASSUME NEW u \in Tasks, NEW d \in 1 .. Len(stack'[u]), stack'[u][d].fn = "tlb", stack'[u][d].at # "inval"
        PROVE  /\ \A e \in stack'[u][d].stale : e >= stack'[u][d].cpu /\ running'[e] # u
               /\ stack'[u][d].at \in {"ipi", "wait"} /\ stack'[u][d].wait = 0 =>
                     stack'[u][d].cpu \notin stack'[u][d].stale
    <3>1. ~(u = t /\ d = n) /\ d \in 1 .. Len(stack[u])
      BY Zenon, <1>6, <1>8, <2>1
    <3>2. CASE u = v /\ d = k
      <4>1. stack'[u][d] = h
        BY Zenon, <1>8, <3>1, <3>2
      <4>2. \A e \in h.stale : e >= h.cpu /\ running[e] # u
        BY Zenon, <1>3, <1>7, <3>1, <3>2 DEF IInv, FlushInv, Awaiting
      <4>3. QED
        BY Zenon, <1>5, <1>7, <1>10, <4>1, <4>2
    <3>3. CASE ~(u = v /\ d = k)
      BY <1>8, <1>10, <2>1, <3>1, <3>3 DEF IInv, FlushInv
    <3>4. QED
      BY Zenon, <3>2, <3>3
  <2>2. QED
    BY Zenon, <2>1 DEF FlushInv
<1>15. AckInv'
  <2>1. ASSUME NEW u \in Tasks, NEW e \in Nat, NEW w \in Tasks, NEW d \in Nat,
               Handles(u, e, w, d)', stack'[u][e].at = "ack"
        PROVE  stack'[w][d].cpu \notin stack'[w][d].stale
    <3>1. Handles(u, e, w, d) /\ stack[u][e].at = "ack" /\ ~(w = v /\ d = k)
      BY ZenonT(30), <1>11, <2>1
    <3>2. PICK f \in Cpus : Awaiting(w, d, f)
      BY Zenon, <3>1 DEF IInv, MessageInv
    <3>3. QED
      BY Zenon, <1>12, <3>1, <3>2 DEF IInv, AckInv
  <2>2. QED
    BY Zenon, <2>1 DEF AckInv
<1>16. QED
  BY Zenon, <1>9, <1>13, <1>14, <1>15 DEF IInv

-----------------------------------------------------------------------------
(* The invariant and what it says of shootdowns. *)

\* init_ipm(): the queues and the stacks are empty.
LEMMA Initially == Init => IInv
<1> SUFFICES ASSUME Init PROVE IInv
  BY Zenon
<1>1. \A t \in Tasks : stack[t] = <<>> /\ Len(stack[t]) = 0
  BY Zenon DEF Init
<1>2. \A c \in Cpus : message_queue[c] = <<>> /\ Len(message_queue[c]) = 0
  BY Zenon DEF Init
<1>3. TypeInv
  <2>1. message_queue \in [Cpus -> Seq(Messages)] /\ stack \in [Tasks -> Seq(AllFrames)]
    BY DEF Init
  <2>2. \A c, d \in Cpus : running[c] = running[d] => c = d
    BY Zenon DEF Init
  <2>3. /\ pending \in [Cpus -> BOOLEAN] /\ iflag \in [Tasks -> BOOLEAN] /\ running \in [Cpus -> Tasks]
        /\ ops \in [Procs -> 0 .. MaxOps]
    BY SMTT(30), BoundsAssumption DEF Init
  <2>4. QED
    BY Zenon, <2>1, <2>2, <2>3 DEF TypeInv
<1>4. MessageInv
  BY <1>1, <1>2 DEF MessageInv, Waiting, Handles
<1>5. FlushInv /\ AckInv
  BY <1>1 DEF FlushInv, AckInv, Handles
<1>6. QED
  BY Zenon, <1>3, <1>4, <1>5 DEF IInv

\* Every step keeps the invariant.
LEMMA Inductive == IInv /\ [Next]_vars => IInv'
<1> SUFFICES ASSUME IInv, [Next]_vars PROVE IInv'
  BY Zenon
<1>1. ASSUME NEW p \in Procs, BeginShootdown(p) \/ BeginCall(p) \/ BeginBroadcast(p)
      PROVE  IInv'
  BY Zenon, <1>1, Beginning
<1>2. ASSUME NEW t \in Tasks, Step(t)
      PROVE  IInv'
  BY Zenon, <1>2, Invalidating, Skipping, Enqueueing, TlbIpi, Acked, Returns, Sending, CallIpi, HandlerSteps, Taking,
     HandlerFlushes, Acknowledging DEF Step
<1>3. ASSUME NEW t \in Tasks, NestedShootdown(t) \/ FuncLoops(t)
      PROVE  IInv'
  BY Zenon, <1>3, Nesting, HandlerSteps
<1>4. ASSUME NEW c \in Cpus, Interrupt(c) \/ Schedule(c)
      PROVE  IInv'
  BY Zenon, <1>4, Interrupting, Scheduling
<1>5. CASE UNCHANGED vars
  <2>1. TypeInv'
    BY ZenonT(30), <1>5 DEF vars, IInv, TypeInv
  <2>2. NoNewMessages /\ NoNewHandlers /\ NoNewAcks /\ AwaitingKept /\ ShootdownsKept /\ running' = running
    BY <1>5, SameQueues DEF vars, NoNewHandlers, NoNewAcks, Handles, AwaitingKept, Awaiting, ShootdownsKept, Kept
  <2>3. QED
    BY Zenon, <2>1, <2>2, QuietStep DEF IInv
<1>6. QED
  BY Zenon, <1>1, <1>2, <1>3, <1>4, <1>5 DEF Next

\* The invariant holds for any number of cpus, processes, operations and nested
\* shootdowns, with and without preemption.
THEOREM Invariant == Spec => []IInv
BY Initially, Inductive, PTL DEF Spec

\* What it says of messages in queues...
LEMMA QueuedSafe ==
    ASSUME IInv, NEW c \in Cpus, NEW i \in 1 .. Len(message_queue[c]), message_queue[c][i].tag = "tlb"
    PROVE  LET p == message_queue[c][i].data IN
           /\ p \in Frames
           /\ FrameAt(p).fn = "tlb" /\ FrameAt(p).cpu = c
           /\ FrameAt(p).wait = 1 /\ FrameAt(p).at \in {"ipi", "wait"}
           /\ Queued(message_queue[c][i]) = {<<c, i>>}
<1>1. message_queue[c] \in Seq(Messages) /\ Len(message_queue[c]) \in Nat
  BY DEF IInv, TypeInv
<1>2. message_queue[c][i] \in Messages
  BY Zenon, <1>1, SeqElement
<1>3. PICK t \in Tasks, d \in Nat : message_queue[c][i] = TlbMessage(t, d)
  BY <1>2 DEF Messages, TlbMessage
<1>4. Waiting(c, i, t, d)
  BY Zenon, <1>3 DEF Waiting
<1>5. Awaiting(t, d, c) /\ \A j \in Nat : Waiting(c, j, t, d) => j = i
  BY SMTT(30), <1>1, <1>4 DEF IInv, MessageInv
<1>6. <<t, d>> \in Frames /\ FrameAt(<<t, d>>) = stack[t][d] /\ message_queue[c][i].data = <<t, d>>
  BY <1>3, <1>5 DEF Frames, FrameAt, Awaiting, depth, TlbMessage
<1>7. \A e \in Cpus : \A j \in 1 .. Len(message_queue[e]) :
         message_queue[e][j] = message_queue[c][i] <=> e = c /\ j = i
  <2>1. ASSUME NEW e \in Cpus, NEW j \in 1 .. Len(message_queue[e]), message_queue[e][j] = message_queue[c][i]
        PROVE  e = c /\ j = i
    <3>1. Waiting(e, j, t, d) /\ j \in Nat
      BY SMTT(30), <1>3, <2>1 DEF Waiting, IInv, TypeInv
    <3>2. Awaiting(t, d, e)
      BY Zenon, <3>1 DEF IInv, MessageInv
    <3>3. QED
      BY Zenon, <1>5, <3>1, <3>2 DEF Awaiting
  <2>2. QED
    BY Zenon, <2>1
<1>8. Queued(message_queue[c][i]) = {<<c, i>>}
  BY <1>7 DEF Queued
<1>9. QED
  BY Zenon, <1>5, <1>6, <1>8 DEF Awaiting

\* ...and of messages that handlers have taken.
LEMMA TakenSafe ==
    ASSUME IInv, NEW f \in Handling({"copy", "flush", "ack"}), FrameAt(f).msg.tag = "tlb"
    PROVE  LET p == FrameAt(f).msg.data IN
           /\ p \in Frames
           /\ FrameAt(p).fn = "tlb" /\ FrameAt(p).wait = 1
           /\ Queued(FrameAt(f).msg) = {}
           /\ \A g \in Handling({"copy", "flush", "ack"}) : FrameAt(g).msg = FrameAt(f).msg => g = f
<1>1. ASSUME NEW g \in Handling({"copy", "flush", "ack"})
      PROVE  /\ g[1] \in Tasks /\ g[2] \in 1 .. Len(stack[g[1]]) /\ g = <<g[1], g[2]>> /\ g[2] \in Nat
             /\ FrameAt(g) = stack[g[1]][g[2]] /\ FrameAt(g).fn = "irq" /\ FrameAt(g).at \in {"copy", "flush", "ack"}
  <2>1. \A u \in Tasks : Len(stack[u]) \in Nat
    BY SMTT(30) DEF IInv, TypeInv
  <2>2. QED
    BY <2>1 DEF Handling, Frames, FrameAt, depth
<1>2. FrameAt(f) \in IrqFrames
  <2>1. stack[f[1]][f[2]] \in AllFrames
    BY Zenon, <1>1, SeqElement DEF IInv, TypeInv
  <2>2. QED
    BY Zenon, <1>1, <2>1 DEF AllFrames, TlbFrames, CallFrames
<1>3. FrameAt(f).msg \in Messages
  BY Zenon, <1>1, <1>2 DEF IrqFrames
<1>4. PICK t \in Tasks, d \in Nat : FrameAt(f).msg = TlbMessage(t, d)
  BY <1>3 DEF Messages, TlbMessage
<1>5. Handles(f[1], f[2], t, d)
  BY Zenon, <1>1, <1>4 DEF Handles
<1>6. PICK c \in Cpus : Awaiting(t, d, c)
  BY SMTT(30), <1>1, <1>5 DEF IInv, MessageInv
<1>7. <<t, d>> \in Frames /\ FrameAt(<<t, d>>) = stack[t][d] /\ FrameAt(f).msg.data = <<t, d>>
  BY SMTT(30), <1>4, <1>6 DEF Frames, FrameAt, Awaiting, depth, TlbMessage
<1>8. Queued(FrameAt(f).msg) = {}
  <2>1. \A e \in Cpus : \A j \in 1 .. Len(message_queue[e]) : message_queue[e][j] # FrameAt(f).msg
    <3>1. \A e \in Cpus : Len(message_queue[e]) \in Nat
      BY DEF IInv, TypeInv
    <3>2. \A e \in Cpus : \A j \in Nat : ~Waiting(e, j, t, d)
      BY Zenon, <1>1, <1>5 DEF IInv, MessageInv
    <3>3. QED
      BY <1>4, <3>1, <3>2 DEF Waiting
  <2>2. QED
    BY <2>1 DEF Queued
<1>9. ASSUME NEW g \in Handling({"copy", "flush", "ack"}), FrameAt(g).msg = FrameAt(f).msg
      PROVE  g = f
  <2>1. Handles(g[1], g[2], t, d)
    BY Zenon, <1>1, <1>4, <1>9 DEF Handles
  <2>2. g[1] = f[1] /\ g[2] = f[2]
    BY <1>1, <1>5, <2>1 DEF IInv, MessageInv
  <2>3. QED
    BY Zenon, <1>1, <2>2
<1>10. QED
  BY Zenon, <1>6, <1>7, <1>8, <1>9 DEF Awaiting

\* exec_tlb_shootdown() keeps its message and its counter in its stack frame: no
\* queue and no handler refers to a frame that was left or reinitialised.
THEOREM TlbMessageSafeTheorem == Spec => []TlbMessageSafe
<1>1. IInv => TlbMessageSafe
  BY Zenon, QueuedSafe, TakenSafe DEF TlbMessageSafe
<1>2. QED
  BY <1>1, Invariant, PTL

\* exec_tlb_shootdown() returns only when every cpu has flushed its TLB since
\* paging_map_in() or paging_unmap_in() changed the page tables, wherever the
\* caller has been preempted and migrated to in the meantime.
THEOREM ShootdownCompleteTheorem == Spec => []ShootdownComplete
<1>1. IInv => ShootdownComplete
  <2> SUFFICES ASSUME IInv, NEW f \in Frames, FrameAt(f).fn = "tlb", FrameAt(f).cpu = NCpus
               PROVE  FrameAt(f).stale = {}
    BY Zenon DEF ShootdownComplete
  <2>1. f[1] \in Tasks /\ f[2] \in 1 .. Len(stack[f[1]]) /\ FrameAt(f) = stack[f[1]][f[2]]
    BY SMTT(30) DEF Frames, FrameAt, depth
  <2>2. FrameAt(f) \in TlbFrames
    <3>1. FrameAt(f) \in AllFrames
      BY <2>1, SeqElement DEF IInv, TypeInv
    <3>2. QED
      BY Zenon, <3>1 DEF AllFrames, CallFrames, IrqFrames
  <2>3. FrameAt(f).at # "inval" /\ FrameAt(f).stale \subseteq Cpus
    BY Zenon, <2>2, NCpusAssumption DEF TlbFrames
  <2>4. \A c \in FrameAt(f).stale : c >= NCpus
    BY Zenon, <2>1, <2>3 DEF IInv, FlushInv
  <2>5. QED
    BY <2>3, <2>4, NCpusAssumption DEF Cpus
<1>2. QED
  BY <1>1, Invariant, PTL

-----------------------------------------------------------------------------
(* Messages are noticed: the invariant without preemption, and with remote     *)
(* functions that return.                                                      *)

\* Frame f of task u will see to the messages of cpu c: a handler that runs
\* there, or a sender on its way to the IPI.
Notices(f, u, c) ==
    \/ f.fn = "irq" /\ f.at \notin {"exit", "forever"} /\ running[c] = u
    \/ f.fn = "tlb" /\ f.at = "ipi" /\ f.cpu = c
    \/ f.fn = "call" /\ f.at = "send" /\ c \in Destinations(f, cpu_id(u))

NoticedInv ==
    \A c \in Cpus :
        message_queue[c] # <<>> =>
            pending[c] \/ \E u \in Tasks : \E d \in 1 .. Len(stack[u]) : Notices(stack[u][d], u, c)

\* What notices the messages of a cpu in the next state, by its primed frame.
LEMMA StillNotices ==
    ASSUME running' = running, NEW u \in Tasks, NEW d \in 1 .. Len(stack'[u]), NEW c, Notices(stack'[u][d], u, c)
    PROVE  \E v \in Tasks : \E e \in 1 .. Len(stack'[v]) : Notices(stack[v][e], v, c)'
<1>1. Notices(stack[u][d], u, c)'
  BY Zenon DEF Notices, cpu_id
<1>2. QED
  BY Zenon, <1>1

\* A step forgets no messages if what notices them is as before, or an IPI is
\* pending, or there are none.
LEMMA NoticedStep ==
    ASSUME NoticedInv, running' = running,
           \A c \in Cpus : message_queue'[c] # <<>> =>
              \/ pending'[c]
              \/ \E u \in Tasks : \E d \in 1 .. Len(stack'[u]) : Notices(stack'[u][d], u, c)
              \/ /\ message_queue[c] # <<>> /\ ~pending[c]
                 /\ \A u \in Tasks : \A d \in 1 .. Len(stack[u]) :
                       Notices(stack[u][d], u, c) => d \in 1 .. Len(stack'[u]) /\ Notices(stack'[u][d], u, c)
    PROVE  NoticedInv'
<1>1. ASSUME NEW c \in Cpus, message_queue'[c] # <<>>, ~pending'[c]
      PROVE  \E u \in Tasks : \E d \in 1 .. Len(stack'[u]) : Notices(stack[u][d], u, c)'
  <2>1. \E u \in Tasks : \E d \in 1 .. Len(stack'[u]) : Notices(stack'[u][d], u, c)
    BY Zenon, <1>1 DEF NoticedInv
  <2>2. QED
    BY Zenon, <2>1, StillNotices
<1>2. QED
  BY Zenon, <1>1 DEF NoticedInv

\* A frame is replaced...
LEMMA NoticedReplace ==
    ASSUME TypeInv, NoticedInv, NEW t \in Tasks, stack[t] # <<>>, NEW g, stack' = Update(t, g),
           running' = running,
           \A c \in Cpus :
              /\ message_queue'[c] # <<>> => message_queue[c] # <<>> \/ Notices(g, t, c)
              /\ pending[c] => pending'[c]
              /\ Notices(Top(t), t, c) => Notices(g, t, c) \/ pending'[c] \/ message_queue'[c] = <<>>
    PROVE  NoticedInv'
<1>1. Replaced(stack', t, g)
  BY ZenonT(30), Updating
<1>2. /\ Top(t) = stack[t][Len(stack[t])] /\ Len(stack[t]) \in 1 .. Len(stack[t])
      /\ \A u \in Tasks : Len(stack[u]) \in Nat
  <2>1. \A u \in Tasks : stack[u] \in Seq(AllFrames)
    BY Zenon DEF TypeInv
  <2>2. Len(stack[t]) \in 1 .. Len(stack[t]) /\ \A u \in Tasks : Len(stack[u]) \in Nat
    BY <2>1, SeqElement
  <2>3. QED
    BY Zenon, <2>2 DEF Top, depth
<1>3. ASSUME NEW c \in Cpus, message_queue'[c] # <<>>, ~pending'[c]
      PROVE  \/ \E u \in Tasks : \E d \in 1 .. Len(stack'[u]) : Notices(stack'[u][d], u, c)
             \/ /\ message_queue[c] # <<>> /\ ~pending[c]
                /\ \A u \in Tasks : \A d \in 1 .. Len(stack[u]) :
                      Notices(stack[u][d], u, c) => d \in 1 .. Len(stack'[u]) /\ Notices(stack'[u][d], u, c)
  <2>1. stack'[t][Len(stack[t])] = g /\ Len(stack[t]) \in 1 .. Len(stack'[t])
    BY Zenon, <1>1, <1>2 DEF Replaced
  <2>2. CASE Notices(g, t, c)
    BY Zenon, <2>1, <2>2
  <2>3. CASE ~Notices(g, t, c)
    <3>1. message_queue[c] # <<>> /\ ~pending[c] /\ ~Notices(Top(t), t, c)
      BY Zenon, <1>3, <2>3
    <3>2. QED
      BY <1>1, <1>2, <3>1 DEF Replaced
  <2>4. QED
    BY Zenon, <2>2, <2>3
<1>4. QED
  BY Zenon, <1>3, NoticedStep

\* ...pushed...
LEMMA NoticedPush ==
    ASSUME TypeInv, NoticedInv, NEW t \in Tasks, NEW g \in AllFrames, stack' = Push(t, g),
           running' = running, message_queue' = message_queue,
           \A c \in Cpus : pending[c] => pending'[c] \/ Notices(g, t, c)
    PROVE  NoticedInv'
<1>1. Pushed(t, g) /\ \A u \in Tasks : Len(stack[u]) \in Nat
  BY SMTT(30), Pushing DEF TypeInv
<1>2. \A u \in Tasks : \A d \in 1 .. Len(stack[u]) : d \in 1 .. Len(stack'[u]) /\ stack'[u][d] = stack[u][d]
  BY <1>1 DEF Pushed
<1>3. stack'[t][Len(stack[t]) + 1] = g /\ Len(stack[t]) + 1 \in 1 .. Len(stack'[t])
  BY SMTT(30), <1>1 DEF Pushed
<1>4. QED
  BY Zenon, <1>2, <1>3, NoticedStep

\* ...or popped.
LEMMA NoticedPop ==
    ASSUME TypeInv, NoticedInv, NEW t \in Tasks, stack[t] # <<>>, stack' = Pop(t),
           running' = running, message_queue' = message_queue,
           \A c \in Cpus : pending[c] \/ Notices(Top(t), t, c) => pending'[c]
    PROVE  NoticedInv'
<1>1. Popped(t) /\ \A u \in Tasks : Len(stack[u]) \in Nat
  BY Popping DEF TypeInv
<1>2. Top(t) = stack[t][Len(stack[t])] /\ Len(stack[t]) \in 1 .. Len(stack[t])
  BY SMTT(30), SeqElement DEF Top, depth, TypeInv
<1>3. \A u \in Tasks : \A d \in 1 .. Len(stack[u]) :
         (d \in 1 .. Len(stack'[u]) /\ stack'[u][d] = stack[u][d]) \/ (u = t /\ d = Len(stack[t]))
  BY <1>1 DEF Popped
<1>4. QED
  BY <1>2, <1>3, NoticedStep

\* Operations and interrupts push frames: a handler for the IPI it takes.
LEMMA NoticedPushes ==
    ASSUME IInv, NoticedInv,
           \/ \E p \in Procs : BeginShootdown(p) \/ BeginCall(p) \/ BeginBroadcast(p)
           \/ \E t \in Tasks : NestedShootdown(t)
           \/ \E c \in Cpus : Interrupt(c)
    PROVE  NoticedInv'
<1>1. TlbFrame \in AllFrames
  BY SMTT(30), NCpusAssumption DEF TlbFrame, AllFrames, TlbFrames
<1>2. CASE \E p \in Procs : BeginShootdown(p) \/ BeginCall(p) \/ BeginBroadcast(p)
  <2>1. PICK p \in Procs : BeginShootdown(p) \/ BeginCall(p) \/ BeginBroadcast(p)
    BY Zenon, <1>2
  <2>2. PICK b : Begin(p, b)
    BY Zenon, <2>1 DEF BeginShootdown, BeginCall, BeginBroadcast
  <2>3. p \in Tasks /\ <<p, ops[p] + 1>> \in CallIds
    BY <2>2, BoundsAssumption DEF Begin, Tasks, CallIds, IInv, TypeInv
  <2>4. \E g \in AllFrames : stack' = Push(p, g)
    <3>1. CASE BeginShootdown(p)
      BY Zenon, <1>1, <3>1 DEF BeginShootdown
    <3>2. CASE BeginCall(p)
      <4>1. \A c \in Cpus : CallFrame(<<p, ops[p] + 1>>, c, c, FALSE) \in AllFrames
        BY <2>3, NCpusAssumption DEF CallFrame, AllFrames, CallFrames, Cpus
      <4>2. QED
        BY Zenon, <3>2, <4>1 DEF BeginCall
    <3>3. CASE BeginBroadcast(p)
      <4>1. CallFrame(<<p, ops[p] + 1>>, 0, NCpus - 1, TRUE) \in AllFrames
        BY <2>3, NCpusAssumption DEF CallFrame, AllFrames, CallFrames, Cpus
      <4>2. QED
        BY Zenon, <3>3, <4>1 DEF BeginBroadcast
    <3>4. QED
      BY Zenon, <2>1, <3>1, <3>2, <3>3
  <2>5. QED
    BY Zenon, <2>2, <2>3, <2>4, NoticedPush DEF IInv, Begin
<1>3. CASE \E t \in Tasks : NestedShootdown(t)
  BY Zenon, <1>1, <1>3, NoticedPush DEF IInv, NestedShootdown
<1>4. CASE \E c \in Cpus : Interrupt(c)
  <2>1. PICK c \in Cpus : Interrupt(c)
    BY Zenon, <1>4
  <2>2. running[c] \in Tasks /\ IrqFrame \in AllFrames /\ Notices(IrqFrame, running[c], c)
    BY Zenon DEF IInv, TypeInv, IrqFrame, AllFrames, IrqFrames, Notices
  <2>3. \A e \in Cpus : pending[e] => pending'[e] \/ Notices(IrqFrame, running[c], e)
    BY Zenon, <2>1, <2>2 DEF Interrupt, IInv, TypeInv
  <2>4. QED
    BY Zenon, <2>1, <2>2, <2>3, NoticedPush DEF IInv, Interrupt
<1>5. QED
  BY Zenon, <1>2, <1>3, <1>4

\* Returning frames have sent their IPIs, or have left an empty queue.
LEMMA NoticedPops ==
    ASSUME IInv, NoticedInv, NEW t \in Tasks,
           ShootdownReturns(t) \/ CallReturns(t) \/ ReturnFromInterrupt(t)
    PROVE  NoticedInv'
<1>1. stack' = Pop(t) /\ running' = running /\ message_queue' = message_queue /\ pending' = pending
  BY Zenon DEF ShootdownReturns, CallReturns, ReturnFromInterrupt, Return
<1>2. /\ stack[t] # <<>>
      /\ \/ Top(t).fn = "tlb" /\ Top(t).at = "next"
         \/ Top(t).fn = "call" /\ Top(t).at = "wait"
         \/ Top(t).fn = "irq" /\ Top(t).at = "exit"
  BY Zenon DEF ShootdownReturns, CallReturns, ReturnFromInterrupt, At, Top
<1>3. \A c : ~Notices(Top(t), t, c)
  BY Zenon, <1>2 DEF Notices
<1>4. QED
  BY Zenon, <1>1, <1>2, <1>3, NoticedPop DEF IInv

\* The handler goes on with the queue, or leaves it empty.
LEMMA NoticedGoto ==
    ASSUME IInv, NoticedInv, NEW t \in Tasks, NEW loc, NEW new, At(t, "irq", loc), stack' = Goto(t, new),
           new # "forever", new = "exit" => message_queue[cpu_id(t)] = <<>>,
           message_queue' = message_queue, pending' = pending, running' = running
    PROVE  NoticedInv'
<1> DEFINE g == [Top(t) EXCEPT !.at = new]
<1>1. /\ Top(t) \in AllFrames /\ Top(t).fn = "irq" /\ stack[t] # <<>>
      /\ \A c \in Cpus : running[c] = t => c = cpu_id(t)
  BY Running DEF IInv, At
<1>2. g.fn = "irq" /\ g.at = new
  BY Zenon, <1>1 DEF AllFrames, TlbFrames, CallFrames, IrqFrames
<1>3. stack' = Update(t, g)
  BY Zenon, Going
<1> HIDE DEF g
<1>4. \A c \in Cpus : Notices(Top(t), t, c) => Notices(g, t, c) \/ message_queue'[c] = <<>>
  BY Zenon, <1>1, <1>2 DEF Notices
<1>5. QED
  BY ZenonT(30), <1>1, <1>3, <1>4, NoticedReplace DEF IInv

\* The handler looks at its queue before it returns.
LEMMA NoticedHandler ==
    ASSUME IInv, NoticedInv, NEW t \in Tasks,
           EnterHandler(t) \/ LeaveHandler(t) \/ CopyMessage(t) \/ StartCall(t) \/ FuncReturns(t) \/ Complete(t)
    PROVE  NoticedInv'
<1>1. CASE EnterHandler(t)
  BY Zenon, <1>1, NoticedGoto DEF EnterHandler
<1>2. CASE LeaveHandler(t)
  BY Zenon, <1>2, NoticedGoto DEF LeaveHandler
<1>3. CASE CopyMessage(t)
  <2>1. stack' = Goto(t, "flush") \/ stack' = Goto(t, "call")
    BY ZenonT(30), <1>3 DEF CopyMessage
  <2>2. QED
    BY Zenon, <1>3, <2>1, NoticedGoto DEF CopyMessage
<1>4. CASE StartCall(t)
  BY Zenon, <1>4, NoticedGoto DEF StartCall
<1>5. CASE FuncReturns(t)
  <2>1. stack' = Goto(t, "complete") \/ stack' = Goto(t, "loop")
    BY Zenon, <1>5 DEF FuncReturns
  <2>2. QED
    BY Zenon, <1>5, <2>1, NoticedGoto DEF FuncReturns
<1>6. CASE Complete(t)
  BY Zenon, <1>6, NoticedGoto DEF Complete
<1>7. QED
  BY Zenon, <1>1, <1>2, <1>3, <1>4, <1>5, <1>6

\* process_messages() takes a message and will look for more.
LEMMA NoticedTake ==
    ASSUME IInv, NoticedInv, NEW t \in Tasks, TakeMessage(t)
    PROVE  NoticedInv'
<1> DEFINE m == Head(message_queue[cpu_id(t)])
           g == [Top(t) EXCEPT !.at = "copy", !.msg = m]
<1>1. /\ Top(t) \in AllFrames /\ Top(t).fn = "irq" /\ stack[t] # <<>>
      /\ cpu_id(t) \in Cpus
  BY Zenon, Running DEF IInv, At, TakeMessage
<1>2. g.fn = "irq" /\ g.at = "copy"
  <2> HIDE DEF m
  <2>1. QED
    BY Zenon, <1>1 DEF AllFrames, TlbFrames, CallFrames, IrqFrames
<1>3. stack' = Update(t, g) /\ running' = running /\ pending' = pending
  BY Zenon DEF TakeMessage
<1> HIDE DEF g
<1>4. \A c \in Cpus : Notices(Top(t), t, c) => Notices(g, t, c)
  BY Zenon, <1>1, <1>2 DEF Notices
<1>5. \A c \in Cpus : message_queue'[c] # <<>> => message_queue[c] # <<>>
  BY Zenon, <1>1 DEF TakeMessage, IInv, TypeInv
<1>6. QED
  BY Zenon, <1>1, <1>3, <1>4, <1>5, NoticedReplace DEF IInv

\* A shootdown goes on, sends its message, or sends the IPI for it.
LEMMA NoticedShootdown ==
    ASSUME IInv, NoticedInv, NEW t \in Tasks, SkipSelf(t) \/ EnqueueTlb(t) \/ SendTlbIpi(t) \/ TlbAcked(t)
    PROVE  NoticedInv'
<1>1. /\ stack[t] # <<>> /\ running' = running /\ Top(t) \in TlbFrames /\ Top(t).fn = "tlb"
      /\ Top(t).at \in {"next", "ipi", "wait"}
  BY ZenonT(30), RunningShootdown DEF IInv, At, SkipSelf, EnqueueTlb, SendTlbIpi, TlbAcked
<1>2. CASE SkipSelf(t)
  <2> DEFINE g == [Top(t) EXCEPT !.cpu = @ + 1]
  <2>1. stack' = Update(t, g) /\ message_queue' = message_queue /\ pending' = pending
    BY Zenon, <1>2 DEF SkipSelf
  <2>2. \A c : ~Notices(Top(t), t, c)
    BY Zenon, <1>1, <1>2 DEF Notices, SkipSelf, At, Top
  <2> HIDE DEF g
  <2>3. QED
    BY Zenon, <1>1, <2>1, <2>2, NoticedReplace DEF IInv
<1>3. CASE TlbAcked(t)
  <2> DEFINE g == [Top(t) EXCEPT !.at = "next", !.cpu = @ + 1]
  <2>1. stack' = Update(t, g) /\ message_queue' = message_queue /\ pending' = pending
    BY Zenon, <1>3 DEF TlbAcked
  <2>2. \A c : ~Notices(Top(t), t, c)
    BY ZenonT(30), <1>1, <1>3 DEF Notices, TlbAcked, At, Top
  <2> HIDE DEF g
  <2>3. QED
    BY Zenon, <1>1, <2>1, <2>2, NoticedReplace DEF IInv
<1>4. CASE EnqueueTlb(t)
  <2> DEFINE g == [Top(t) EXCEPT !.at = "ipi", !.wait = 1]
  <2>1. stack' = Update(t, g) /\ pending' = pending
    BY Zenon, <1>4 DEF EnqueueTlb
  <2>2. \A c : ~Notices(Top(t), t, c)
    BY Zenon, <1>1, <1>4 DEF Notices, EnqueueTlb, At, Top
  <2>3. Notices(g, t, Top(t).cpu)
    BY Zenon, <1>1 DEF Notices, TlbFrames
  <2>4. \A c \in Cpus : c # Top(t).cpu => message_queue'[c] = message_queue[c]
    BY ZenonT(30), <1>4 DEF EnqueueTlb, IInv, TypeInv
  <2> HIDE DEF g
  <2>5. QED
    BY Zenon, <1>1, <2>1, <2>2, <2>3, <2>4, NoticedReplace DEF IInv
<1>5. CASE SendTlbIpi(t)
  <2> DEFINE g == [Top(t) EXCEPT !.at = "wait", !.irqs = iflag[t]]
  <2>1. stack' = Update(t, g) /\ message_queue' = message_queue
    BY Zenon, <1>5 DEF SendTlbIpi
  <2>2. \A c \in Cpus : pending[c] => pending'[c]
    BY Zenon, <1>5 DEF SendTlbIpi, IInv, TypeInv
  <2>3. \A c \in Cpus : Notices(Top(t), t, c) => pending'[c]
    BY ZenonT(30), <1>1, <1>5 DEF SendTlbIpi, IInv, TypeInv, Notices
  <2> HIDE DEF g
  <2>4. QED
    BY Zenon, <1>1, <2>1, <2>2, <2>3, NoticedReplace DEF IInv
<1>6. QED
  BY Zenon, <1>2, <1>3, <1>4, <1>5

\* do_send_ipm() puts messages into the queues of the cpus that its IPI will
\* go to.
LEMMA NoticedSend ==
    ASSUME IInv, NoticedInv, NEW t \in Tasks, SendMessage(t)
    PROVE  NoticedInv'
<1> DEFINE g == [Top(t) EXCEPT !.i = @ + 1]
<1>1. stack[t] # <<>> /\ Top(t) \in AllFrames /\ Top(t).fn = "call" /\ Top(t).at = "send"
  BY Zenon, Running DEF IInv, At, SendMessage
<1>2. Top(t) \in CallFrames
  BY Zenon, <1>1 DEF AllFrames, TlbFrames, IrqFrames
<1>3. /\ g.fn = "call" /\ g.at = "send" /\ g.last = Top(t).last /\ g.broadcast = Top(t).broadcast
  BY Zenon, <1>1, <1>2 DEF CallFrames
<1>4. stack' = Update(t, g) /\ pending' = pending /\ running' = running
  BY Zenon DEF SendMessage
<1> HIDE DEF g
<1>5. \A c \in Cpus : Notices(g, t, c) <=> c \in Destinations(Top(t), cpu_id(t))
  BY ZenonT(30), <1>3 DEF Notices, Destinations
<1>6. \A c \in Cpus : Notices(Top(t), t, c) => Notices(g, t, c)
  BY Zenon, <1>1, <1>5 DEF Notices
<1>7. ASSUME NEW c \in Cpus, message_queue'[c] # message_queue[c]
      PROVE  c \in Destinations(Top(t), cpu_id(t))
  <2>1. c = Top(t).i /\ ~(Top(t).broadcast /\ Top(t).i = cpu_id(t))
    BY Zenon, <1>7 DEF SendMessage, IInv, TypeInv
  <2>2. ~Top(t).broadcast => c = Top(t).last
    BY <1>2, <2>1, NCpusAssumption DEF CallFrames, SendMessage, Cpus
  <2>3. QED
    BY Zenon, <2>1, <2>2 DEF Destinations
<1>8. \A c \in Cpus : message_queue'[c] # <<>> => message_queue[c] # <<>> \/ Notices(g, t, c)
  BY Zenon, <1>5, <1>7
<1>9. QED
  BY Zenon, <1>1, <1>4, <1>6, <1>8, NoticedReplace DEF IInv

\* The IPI of a remote call comes after its message, and a broadcast reaches every
\* cpu that got one.
LEMMA NoticedCallIpi ==
    ASSUME IInv, NoticedInv, NEW t \in Tasks, SendCallIpi(t)
    PROVE  NoticedInv'
<1>1. stack[t] # <<>> /\ Top(t).fn = "call" /\ Top(t).at = "send"
  BY Zenon DEF At, SendCallIpi, Top
<1>2. \A c \in Cpus : pending[c] \/ Notices(Top(t), t, c) => pending'[c]
  BY Zenon, <1>1 DEF SendCallIpi, Notices
<1>3. running' = running /\ message_queue' = message_queue
  BY Zenon DEF SendCallIpi
<1>4. CASE stack' = Pop(t)
  BY Zenon, <1>1, <1>2, <1>3, <1>4, NoticedPop DEF IInv
<1>5. CASE stack' = Goto(t, "wait")
  <2>1. PICK g : stack' = Update(t, g)
    BY ZenonT(30), <1>5, Going
  <2>2. QED
    BY Zenon, <1>1, <1>2, <1>3, <2>1, NoticedReplace DEF IInv
<1>6. QED
  BY Zenon, <1>4, <1>5 DEF SendCallIpi, Return

\* Flushes and acknowledgements change nothing of this.
LEMMA NoticedFlush ==
    ASSUME IInv, NoticedInv, NEW t \in Tasks, Invalidate(t) \/ FlushTlb(t)
    PROVE  NoticedInv'
<1>1. /\ stack[t] # <<>> /\ running' = running /\ message_queue' = message_queue /\ pending' = pending
      /\ Top(t) \in AllFrames /\ cpu_id(t) \in Cpus
      /\ Top(t) = stack[t][Len(stack[t])] /\ Len(stack[t]) \in 1 .. Len(stack[t])
      /\ \/ Top(t).fn = "tlb" /\ Top(t).at = "inval"
         \/ Top(t).fn = "irq" /\ Top(t).at = "flush"
  BY Running DEF IInv, At, Invalidate, FlushTlb
<1>2. \E g \in AllFrames : stack' = Flushed(Update(t, g), cpu_id(t)) /\ (Top(t).fn = "irq" => g.fn = "irq" /\ g.at = "ack")
  <2>1. CASE Invalidate(t)
    <3>1. [Top(t) EXCEPT !.at = "next"] \in AllFrames /\ Top(t).fn = "tlb"
      BY <1>1, <2>1, RunningShootdown DEF IInv, Invalidate, AllFrames, TlbFrames
    <3>2. QED
      BY Zenon, <2>1, <3>1, Going DEF Invalidate
  <2>2. CASE FlushTlb(t)
    <3> DEFINE g == [Top(t) EXCEPT !.at = "ack"]
    <3>1. Top(t).fn = "irq" /\ Top(t).at = "flush"
      BY Zenon, <2>2 DEF FlushTlb, At, Top
    <3>2. g \in AllFrames /\ g.fn = "irq" /\ g.at = "ack"
      BY Zenon, <1>1, <3>1 DEF AllFrames, IrqFrames, TlbFrames, CallFrames
    <3>3. stack' = Flushed(Update(t, g), cpu_id(t))
      BY Zenon, <2>2, Going DEF FlushTlb
    <3> HIDE DEF g
    <3>4. QED
      BY ZenonT(30), <3>2, <3>3
  <2>3. QED
    BY Zenon, <2>1, <2>2
<1>3. PICK g \in AllFrames :
         stack' = Flushed(Update(t, g), cpu_id(t)) /\ (Top(t).fn = "irq" => g.fn = "irq" /\ g.at = "ack")
  BY Zenon, <1>2
<1>4. /\ \A u \in Tasks : Len(stack'[u]) = Len(stack[u])
      /\ \A u \in Tasks : \A d \in 1 .. Len(stack[u]) :
            AfterFlush(stack'[u][d], IF u = t /\ d = Len(stack[t]) THEN g ELSE stack[u][d], cpu_id(t))
  BY Zenon, <1>1, <1>3, GoingAndFlushing DEF IInv
<1>5. ASSUME NEW c \in Cpus, NEW u \in Tasks, NEW d \in 1 .. Len(stack[u]), Notices(stack[u][d], u, c)
      PROVE  d \in 1 .. Len(stack'[u]) /\ Notices(stack'[u][d], u, c)
  <2>1. CASE u = t /\ d = Len(stack[t])
    BY Zenon, <1>1, <1>3, <1>4, <1>5, <2>1 DEF AfterFlush, Notices
  <2>2. CASE ~(u = t /\ d = Len(stack[t]))
    <3>1. AfterFlush(stack'[u][d], stack[u][d], cpu_id(t)) /\ d \in 1 .. Len(stack'[u])
      BY Zenon, <1>4, <2>2
    <3>2. QED
      BY Zenon, <1>5, <3>1 DEF AfterFlush, Notices
  <2>3. QED
    BY Zenon, <2>1, <2>2
<1>6. QED
  BY Zenon, <1>1, <1>5, NoticedStep

\* AckTlb() writes into the frame of the shootdown, which notices nothing.
LEMMA NoticedAck ==
    ASSUME IInv, NoticedInv, NEW t \in Tasks, AckTlb(t)
    PROVE  NoticedInv'
<1>1. PICK v \in Tasks, k \in Nat, c \in Cpus, g, h \in AllFrames : AckShape(t, v, k, c, g, h)
  BY Zenon, AckSteps
<1>2. running' = running /\ message_queue' = message_queue /\ pending' = pending
  BY ZenonT(30) DEF AckTlb
<1>3. ASSUME NEW e \in Cpus, NEW u \in Tasks, NEW d \in 1 .. Len(stack[u]), Notices(stack[u][d], u, e)
      PROVE  d \in 1 .. Len(stack'[u]) /\ Notices(stack'[u][d], u, e)
  <2>1. d \in 1 .. Len(stack'[u])
    BY Zenon, <1>1 DEF AckShape
  <2>2. CASE u = t /\ d = Len(stack[t])
    <3>1. stack'[u][d] = g /\ g.fn = "irq" /\ g.at = "loop" /\ stack[u][d].fn = "irq"
      BY Zenon, <1>1, <2>2 DEF AckShape, Handles
    <3>2. QED
      BY Zenon, <1>3, <2>1, <3>1 DEF Notices
  <2>3. CASE u = v /\ d = k /\ ~(u = t /\ d = Len(stack[t]))
    <3>1. /\ stack'[u][d] = h /\ h.fn = "tlb" /\ h.at = stack[u][d].at /\ h.cpu = stack[u][d].cpu
          /\ stack[u][d].fn = "tlb"
      BY Zenon, <1>1, <2>3 DEF AckShape, Awaiting
    <3>2. QED
      BY Zenon, <1>3, <2>1, <3>1 DEF Notices
  <2>4. CASE ~(u = v /\ d = k) /\ ~(u = t /\ d = Len(stack[t]))
    BY Zenon, <1>1, <1>3, <2>1, <2>4 DEF AckShape
  <2>5. QED
    BY Zenon, <2>2, <2>3, <2>4
<1>4. QED
  BY Zenon, <1>2, <1>3, NoticedStep

\* Every step keeps the messages noticed.
LEMMA NoticedInductive ==
    ASSUME ~Preemption, ~NeverReturns, IInv, NoticedInv, [Next]_vars
    PROVE  NoticedInv'
<1>1. ASSUME NEW p \in Procs, BeginShootdown(p) \/ BeginCall(p) \/ BeginBroadcast(p)
      PROVE  NoticedInv'
  BY Zenon, <1>1, NoticedPushes
<1>2. ASSUME NEW t \in Tasks, Step(t)
      PROVE  NoticedInv'
  BY Zenon, <1>2, NoticedShootdown, NoticedPops, NoticedSend, NoticedCallIpi, NoticedHandler, NoticedTake, NoticedFlush,
     NoticedAck DEF Step
<1>3. ASSUME NEW t \in Tasks, NestedShootdown(t) \/ FuncLoops(t)
      PROVE  NoticedInv'
  BY Zenon, <1>3, NoticedPushes DEF FuncLoops
<1>4. ASSUME NEW c \in Cpus, Interrupt(c) \/ Schedule(c)
      PROVE  NoticedInv'
  BY Zenon, <1>4, NoticedPushes DEF Schedule
<1>5. CASE UNCHANGED vars
  BY Zenon, <1>5, NoticedStep DEF vars, NoticedInv
<1>6. QED
  BY Zenon, <1>1, <1>2, <1>3, <1>4, <1>5 DEF Next

\* What the invariant says in terms of the frames.
LEMMA Noticed ==
    ASSUME IInv, NoticedInv
    PROVE  MessagesNoticed
<1> SUFFICES ASSUME NEW c \in Cpus, message_queue[c] # <<>>, ~pending[c]
             PROVE  \/ \E f \in Handling(Locations \ {"exit", "forever"}) : \A d \in Cpus \ {c} : running[d] # f[1]
                    \/ \E f \in Frames : FrameAt(f).fn = "tlb" /\ FrameAt(f).at = "ipi" /\ FrameAt(f).cpu = c
                    \/ \E f \in Frames : FrameAt(f).fn = "call" /\ FrameAt(f).at = "send"
                                            /\ c \in Destinations(FrameAt(f), cpu_id(f[1]))
  BY Zenon DEF MessagesNoticed
<1>1. PICK u \in Tasks : \E d \in 1 .. Len(stack[u]) : Notices(stack[u][d], u, c)
  BY Zenon DEF NoticedInv
<1>2. PICK d \in 1 .. Len(stack[u]) : Notices(stack[u][d], u, c)
  BY Zenon, <1>1
<1>3. <<u, d>> \in Frames /\ FrameAt(<<u, d>>) = stack[u][d] /\ <<u, d>>[1] = u
  BY SMTT(30) DEF Frames, FrameAt, depth
<1>4. CASE stack[u][d].fn = "irq"
  <2>1. stack[u][d] \in AllFrames
    BY Zenon, SeqElement DEF IInv, TypeInv
  <2>2. stack[u][d].at \in Locations
    BY Zenon, <1>4, <2>1 DEF AllFrames, IrqFrames, TlbFrames, CallFrames, Locations
  <2>3. stack[u][d].at \notin {"exit", "forever"} /\ running[c] = u
    BY Zenon, <1>2, <1>4 DEF Notices
  <2>4. <<u, d>> \in Handling(Locations \ {"exit", "forever"})
    BY Zenon, <1>3, <1>4, <2>2, <2>3 DEF Handling
  <2>5. \A e \in Cpus \ {c} : running[e] # u
    BY ZenonT(30), <2>3 DEF IInv, TypeInv
  <2>6. QED
    BY Zenon, <1>3, <2>4, <2>5
<1>5. CASE stack[u][d].fn # "irq"
  BY Zenon, <1>2, <1>3, <1>5 DEF Notices
<1>6. QED
  BY Zenon, <1>4, <1>5

\* A message in a queue is noticed, however IPIs that arrive together collapse
\* into one, wherever do_send_ipm(), exec_tlb_shootdown() and the handlers are
\* interrupted: as long as handlers are not preempted before they have looked at
\* the queue, and remote functions return.
THEOREM MessagesNoticedTheorem ==
    ASSUME ~Preemption, ~NeverReturns
    PROVE  Spec => []MessagesNoticed
<1>1. Init => NoticedInv
  BY DEF Init, NoticedInv
<1>2. IInv /\ NoticedInv /\ [Next]_vars => NoticedInv'
  BY Zenon, NoticedInductive
<1>3. IInv /\ NoticedInv => MessagesNoticed
  BY Zenon, Noticed
<1>4. QED
  BY <1>1, <1>2, <1>3, Invariant, PTL DEF Spec
=============================================================================
