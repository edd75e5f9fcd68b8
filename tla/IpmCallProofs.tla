--------------------------- MODULE IpmCallProofs ---------------------------
(***************************************************************************)
(* Remote calls of Ipm.tla: the invariant that says, cpu by cpu, who       *)
(* refers to a remote_call_data, and the steps that keep it without        *)
(* counting cpus.                                                          *)
(***************************************************************************)
EXTENDS IpmProofs

-----------------------------------------------------------------------------
(* Remote calls: who refers to a remote_call_data, cpu by cpu. *)

\* The frame of the sender of call id, while it is there.
SenderFrame(id) == stack[id[1]][1]
Sends(id) == Len(stack[id[1]]) # 0 /\ SenderFrame(id).fn = "call" /\ SenderFrame(id).id = id

\* The message for cpu c is still to be sent...
Unsent(id, c) ==
    /\ Sends(id) /\ SenderFrame(id).at = "send" /\ SenderFrame(id).i <= c /\ c <= SenderFrame(id).last
    /\ SenderFrame(id).broadcast => running[c] # id[1]

\* ...or at position i of its queue...
Posted(id, c, i) == i \in 1 .. Len(message_queue[c]) /\ message_queue[c][i] = CallMessage(id)

\* ...or taken by the handler with frame d on the stack that cpu c runs on, which
\* is at location a.
Uses(id, c, d, a) ==
    /\ d \in 1 .. Len(stack[running[c]])
    /\ stack[running[c]][d].fn = "irq" /\ stack[running[c]][d].at = a
    /\ stack[running[c]][d].msg = CallMessage(id)

UsePcs == {"copy", "call", "func", "complete"}

\* The handler has a reference, or has still to notify the completion.
Refers(id, c, d) ==
    Uses(id, c, d, "copy") \/ Uses(id, c, d, "call") \/ (calls[id].is_synchronous /\ Uses(id, c, d, "func"))
Busy(id, c, d) == Refers(id, c, d) \/ Uses(id, c, d, "complete")

\* The cpus that a reference is counted for, and those that have not completed.
Owes(id, c) == Unsent(id, c) \/ (\E i \in Nat : Posted(id, c, i)) \/ (\E d \in Nat : Refers(id, c, d))
Left(id) == {c \in Cpus : Owes(id, c)}
Open(id) == {c \in Cpus : Owes(id, c) \/ \E d \in Nat : Uses(id, c, d, "complete")}

\* The cpus that the call of a sender addresses.
Targets(id) == IF SenderFrame(id).broadcast THEN {c \in Cpus : running[c] # id[1]} ELSE {SenderFrame(id).last}

CallTypes ==
    calls \in [CallIds -> [state : {"none", "live", "freed"}, ref_count : Nat, is_synchronous : BOOLEAN,
                           completed_count : Nat, executed : SUBSET Cpus]]

\* A sender's frame is at the bottom of its stack; the handler of a call is not
\* preempted.
CallFrameOk(t, d, f, on, n, remote) ==
    /\ f.fn = "call" =>
          /\ t \in Procs /\ d = 1 /\ f.id = <<t, n[t]>>
          /\ f.at = "wait" => remote[f.id].is_synchronous
          /\ f.broadcast => f.last = NCpus - 1 /\ "broadcast" \in Kinds
    /\ f.fn = "irq" /\ f.at \in UsePcs => \E c \in Cpus : on[c] = t
    /\ f.fn = "irq" /\ f.at \in UsePcs \ {"copy"} => \E id \in CallIds : f.msg = CallMessage(id)

CallFrameInv ==
    \A t \in Tasks : \A d \in 1 .. Len(stack[t]) : CallFrameOk(t, d, stack[t][d], running, ops, calls)

\* Without preemption every process has its cpu.
RunningInv == Preemption \/ \A p \in Procs : \E c \in Cpus : running[c] = p

\* Each cpu has one message of a call at most, in one place.
PlaceInv(id) ==
    /\ \A c \in Cpus : \A i \in Nat :
          Posted(id, c, i) =>
             /\ ~Unsent(id, c)
             /\ \A j \in Nat : Posted(id, c, j) => i = j
             /\ \A d \in Nat : ~Busy(id, c, d)
    /\ \A c \in Cpus : \A d \in Nat : Busy(id, c, d) => ~Unsent(id, c) /\ \A e \in Nat : Busy(id, c, e) => d = e
    /\ \A c \in Cpus : \A d \in Nat : Uses(id, c, d, "complete") => calls[id].is_synchronous

Known(id) ==
    /\ id[2] > ops[id[1]] => calls[id].state = "none"
    /\ \A c \in Cpus : \A d \in Nat : \A a \in UsePcs : Uses(id, c, d, a) => calls[id].state # "none"

\* A cpu that is in func, or past it, has run it.
Ran(id) ==
    \A c \in Cpus : \A d \in Nat :
        Uses(id, c, d, "func") \/ Uses(id, c, d, "complete") => c \in calls[id].executed

\* ref_count and completed_count count cpus.
CallCounts(id) ==
    /\ calls[id].state = "live" =>
          /\ calls[id].is_synchronous => Sends(id) /\ calls[id].ref_count = Cardinality(Left(id)) + 1
          /\ ~calls[id].is_synchronous => Left(id) # {} /\ calls[id].ref_count = Cardinality(Left(id))
    /\ calls[id].state # "live" => Open(id) = {} /\ ~(calls[id].is_synchronous /\ Sends(id))
    /\ calls[id].is_synchronous /\ Sends(id) =>
          /\ calls[id].completed_count + Cardinality(Open(id)) = Awaited(SenderFrame(id))
          /\ calls[id].executed \cup Open(id) = Targets(id)
          /\ Ran(id)

CallInv ==
    CallTypes /\ CallFrameInv /\ RunningInv /\ \A id \in CallIds : PlaceInv(id) /\ Known(id) /\ CallCounts(id)

-----------------------------------------------------------------------------
(* Steps that leave call id alone. *)

\* Frame f is that of the sender of call id, or of a handler that has it.
IsSender(f, id) == f.fn = "call" /\ f.id = id
IsUser(f, id) == f.fn = "irq" /\ f.at \in UsePcs /\ f.msg = CallMessage(id)

SenderFrames(id) ==
    \A t \in Tasks : \A d \in Nat :
        /\ d \in 1 .. Len(stack[t]) /\ IsSender(stack[t][d], id) =>
              d \in 1 .. Len(stack'[t]) /\ stack'[t][d] = stack[t][d]
        /\ d \in 1 .. Len(stack'[t]) /\ IsSender(stack'[t][d], id) =>
              d \in 1 .. Len(stack[t]) /\ stack'[t][d] = stack[t][d]

UserFrames(id) ==
    \A t \in Tasks : \A d \in Nat :
        /\ d \in 1 .. Len(stack[t]) /\ IsUser(stack[t][d], id) =>
              d \in 1 .. Len(stack'[t]) /\ stack'[t][d] = stack[t][d]
        /\ d \in 1 .. Len(stack'[t]) /\ IsUser(stack'[t][d], id) =>
              d \in 1 .. Len(stack[t]) /\ stack'[t][d] = stack[t][d]

\* Its sender and its handlers are as before.
SameSender(id) ==
    /\ Sends(id)' <=> Sends(id)
    /\ Sends(id) => SenderFrame(id)' = SenderFrame(id) /\ Targets(id)' = Targets(id)
    /\ \A c \in Cpus : Unsent(id, c)' <=> Unsent(id, c)

SameUses(id) == \A c \in Cpus : \A d \in Nat : \A a \in UsePcs : Uses(id, c, d, a)' <=> Uses(id, c, d, a)

\* Its messages may move in their queues.
SamePosts(id) ==
    \A c \in Cpus :
        /\ (\E i \in Nat : Posted(id, c, i)') <=> (\E i \in Nat : Posted(id, c, i))
        /\ (\A i, j \in Nat : Posted(id, c, i) /\ Posted(id, c, j) => i = j) =>
              \A i, j \in Nat : Posted(id, c, i)' /\ Posted(id, c, j)' => i = j

LEMMA CallId ==
    ASSUME NEW id \in CallIds
    PROVE  id[1] \in Procs /\ id[1] \in Tasks /\ id[2] \in 1 .. MaxOps /\ id[2] \in Nat /\ id = <<id[1], id[2]>>
BY BoundsAssumption DEF CallIds, Tasks

\* The lengths of stacks and queues.
LEMMA Lengths ==
    ASSUME TypeInv
    PROVE  /\ \A t \in Tasks : Len(stack[t]) \in Nat
           /\ \A c \in Cpus : Len(message_queue[c]) \in Nat /\ running[c] \in Tasks
BY DEF TypeInv

LEMMA SenderKept ==
    ASSUME TypeInv, TypeInv', NEW id \in CallIds, SenderFrames(id), running' = running
    PROVE  SameSender(id)
<1>1. id[1] \in Tasks /\ 1 \in Nat
  BY Zenon, CallId
<1>2. Len(stack[id[1]]) \in Nat /\ Len(stack'[id[1]]) \in Nat
  BY <1>1 DEF TypeInv
<1>3. /\ Sends(id) => IsSender(stack[id[1]][1], id) /\ 1 \in 1 .. Len(stack[id[1]])
      /\ Sends(id)' => IsSender(stack'[id[1]][1], id) /\ 1 \in 1 .. Len(stack'[id[1]])
  BY <1>2 DEF Sends, SenderFrame, IsSender
<1>4. /\ Sends(id) => 1 \in 1 .. Len(stack'[id[1]]) /\ stack'[id[1]][1] = stack[id[1]][1]
      /\ Sends(id)' => 1 \in 1 .. Len(stack[id[1]]) /\ stack'[id[1]][1] = stack[id[1]][1]
  BY Zenon, <1>1, <1>3 DEF SenderFrames
<1>5. /\ 1 \in 1 .. Len(stack[id[1]]) <=> Len(stack[id[1]]) # 0
      /\ 1 \in 1 .. Len(stack'[id[1]]) <=> Len(stack'[id[1]]) # 0
  BY <1>2
<1>6. (Sends(id)' <=> Sends(id)) /\ (Sends(id) => SenderFrame(id)' = SenderFrame(id))
  BY Zenon, <1>4, <1>5 DEF Sends, SenderFrame
<1>7. Sends(id) => Targets(id)' = Targets(id)
  BY Zenon, <1>6 DEF Targets
<1>8. \A c \in Cpus : Unsent(id, c)' <=> Unsent(id, c)
  BY Zenon, <1>6 DEF Unsent
<1>9. QED
  BY Zenon, <1>6, <1>7, <1>8 DEF SameSender

LEMMA UsersKept ==
    ASSUME TypeInv, NEW id \in CallIds, UserFrames(id), running' = running
    PROVE  SameUses(id)
<1>1. ASSUME NEW c \in Cpus, NEW d \in Nat, NEW a \in UsePcs
      PROVE  Uses(id, c, d, a)' <=> Uses(id, c, d, a)
  <2>1. running[c] \in Tasks
    BY Zenon DEF TypeInv
  <2>2. QED
    BY Zenon, <2>1 DEF Uses, UserFrames, IsUser
<1>2. QED
  BY Zenon, <1>1 DEF SameUses

\* What the invariant says of a call depends on nothing else.
LEMMA CallKept ==
    ASSUME CallInv, NEW id \in CallIds, SameSender(id), SameUses(id), SamePosts(id), calls'[id] = calls[id],
           \A p \in Procs : ops[p] \in Nat /\ ops'[p] \in Nat /\ ops'[p] >= ops[p]
    PROVE  PlaceInv(id)' /\ Known(id)' /\ CallCounts(id)'
<1>1. PlaceInv(id) /\ Known(id) /\ CallCounts(id)
  BY Zenon DEF CallInv
<1>2. "copy" \in UsePcs /\ "call" \in UsePcs /\ "func" \in UsePcs /\ "complete" \in UsePcs
  BY Zenon DEF UsePcs
<1>3. \A c \in Cpus : \A d \in Nat :
         /\ Uses(id, c, d, "complete")' <=> Uses(id, c, d, "complete")
         /\ Uses(id, c, d, "func")' <=> Uses(id, c, d, "func")
         /\ Refers(id, c, d)' <=> Refers(id, c, d)
  BY Zenon, <1>2 DEF SameUses, Refers
<1>4. \A c \in Cpus : \A d \in Nat : Busy(id, c, d)' <=> Busy(id, c, d)
  BY Zenon, <1>3 DEF Busy
<1>5. \A c \in Cpus : Owes(id, c)' <=> Owes(id, c)
  BY Zenon, <1>3 DEF Owes, SameSender, SamePosts
<1>6. Left(id)' = Left(id)
  BY Zenon, <1>5 DEF Left
<1>7. Open(id)' = Open(id)
  BY Zenon, <1>3, <1>5 DEF Open
<1>8. PlaceInv(id)'
  <2>1. ASSUME NEW c \in Cpus, NEW i \in Nat, Posted(id, c, i)'
        PROVE  /\ ~Unsent(id, c)'
               /\ \A j \in Nat : Posted(id, c, j)' => i = j
               /\ \A d \in Nat : ~Busy(id, c, d)'
    <3>1. PICK k \in Nat : Posted(id, c, k)
      BY Zenon, <2>1 DEF SamePosts
    <3>2. ~Unsent(id, c)' /\ \A d \in Nat : ~Busy(id, c, d)'
      BY Zenon, <1>1, <1>4, <3>1 DEF PlaceInv, SameSender
    <3>3. \A j, k2 \in Nat : Posted(id, c, j) /\ Posted(id, c, k2) => j = k2
      BY Zenon, <1>1 DEF PlaceInv
    <3>4. \A j \in Nat : Posted(id, c, j)' => i = j
      BY Zenon, <2>1, <3>3 DEF SamePosts
    <3>5. QED
      BY Zenon, <3>2, <3>4
  <2>2. QED
    BY Zenon, <1>1, <1>3, <1>4, <2>1 DEF PlaceInv, SameSender
<1>9. Known(id)'
  <2>1. id[2] > ops'[id[1]] => id[2] > ops[id[1]]
    BY CallId
  <2>2. QED
    BY Zenon, <1>1, <2>1 DEF Known, SameUses
<1>10. CallCounts(id)'
  <2>1. Ran(id)' <=> Ran(id)
    BY Zenon, <1>3 DEF Ran
  <2>2. QED
    BY Zenon, <1>1, <1>6, <1>7, <2>1 DEF CallCounts, SameSender
<1>11. QED
  BY Zenon, <1>8, <1>9, <1>10

-----------------------------------------------------------------------------
(* Steps that have nothing to do with remote calls. *)

\* A shootdown, or a handler without the message of a call.
NoCallFrame(f) ==
    f.fn = "tlb" \/ (f.fn = "irq" /\ (f.at \in UsePcs => f.at = "copy" /\ f.msg.tag = "tlb"))

QuietFrames ==
    \A u \in Tasks : \A d \in Nat :
        \/ /\ d \in 1 .. Len(stack[u]) /\ d \in 1 .. Len(stack'[u])
           /\ stack'[u][d] = stack[u][d]
        \/ /\ d \in 1 .. Len(stack[u]) => NoCallFrame(stack[u][d])
           /\ d \in 1 .. Len(stack'[u]) =>
                 /\ NoCallFrame(stack'[u][d])
                 /\ stack'[u][d].fn = "irq" /\ stack'[u][d].at = "copy" => \E c \in Cpus : running[c] = u

LEMMA NoCallConcerns ==
    ASSUME NEW f, NoCallFrame(f), NEW id
    PROVE  ~IsSender(f, id) /\ ~IsUser(f, id)
<1>1. CallMessage(id).tag = "call"
  BY Zenon DEF CallMessage
<1>2. QED
  BY Zenon, <1>1 DEF NoCallFrame, IsSender, IsUser

LEMMA QuietSame ==
    ASSUME QuietFrames, NEW id
    PROVE  SenderFrames(id) /\ UserFrames(id)
BY Zenon, NoCallConcerns DEF QuietFrames, SenderFrames, UserFrames

\* Such a step keeps the invariant, given what it does to the queues.
LEMMA CallsQuiet ==
    ASSUME IInv, IInv', CallInv, QuietFrames, running' = running, calls' = calls,
           \A p \in Procs : ops'[p] = ops[p] \/ (ops'[p] = ops[p] + 1 /\ stack[p] = <<>>),
           \A id \in CallIds : SamePosts(id)
    PROVE  CallInv'
<1>1. \A t \in Tasks : Len(stack'[t]) \in Nat
  BY DEF IInv, TypeInv
<1>2. CallFrameInv'
  <2>1. ASSUME NEW t \in Tasks, NEW d \in 1 .. Len(stack'[t])
        PROVE  CallFrameOk(t, d, stack'[t][d], running, ops', calls)
    <3>1. d \in Nat
      BY <1>1
    <3>2. CASE d \in 1 .. Len(stack[t]) /\ stack'[t][d] = stack[t][d]
      <4>1. CallFrameOk(t, d, stack[t][d], running, ops, calls)
        BY Zenon, <3>2 DEF CallInv, CallFrameInv
      <4>2. stack[t] # <<>>
        BY <3>2
      <4>3. t \in Procs => ops'[t] = ops[t]
        BY Zenon, <4>2
      <4>4. QED
        BY Zenon, <3>2, <4>1, <4>3 DEF CallFrameOk
    <3>3. CASE NoCallFrame(stack'[t][d]) /\ (stack'[t][d].fn = "irq" /\ stack'[t][d].at = "copy" => \E c \in Cpus : running[c] = t)
      BY Zenon, <3>3 DEF CallFrameOk, NoCallFrame
    <3>4. QED
      BY Zenon, <3>1, <3>2, <3>3 DEF QuietFrames
  <2>2. QED
    BY Zenon, <2>1 DEF CallFrameInv
<1>3. ASSUME NEW p \in Procs PROVE ops[p] \in Nat /\ ops'[p] \in Nat /\ ops'[p] >= ops[p]
  <2>1. ops[p] \in Nat /\ ops'[p] \in Nat
    BY BoundsAssumption DEF IInv, TypeInv
  <2>2. ops'[p] = ops[p] \/ ops'[p] = ops[p] + 1
    BY Zenon
  <2>3. QED
    BY <2>1, <2>2
<1>4. ASSUME NEW id \in CallIds
      PROVE  PlaceInv(id)' /\ Known(id)' /\ CallCounts(id)'
  <2>1. SenderFrames(id) /\ UserFrames(id)
    BY Zenon, QuietSame
  <2>2. SameSender(id) /\ SameUses(id)
    BY Zenon, <2>1, SenderKept, UsersKept DEF IInv
  <2>3. QED
    BY Zenon, <1>3, <2>2, CallKept
<1>5. CallTypes' /\ RunningInv'
  BY Zenon DEF CallInv, CallTypes, RunningInv
<1>6. QED
  BY Zenon, <1>2, <1>4, <1>5 DEF CallInv

LEMMA SameQueue ==
    ASSUME message_queue' = message_queue, NEW id
    PROVE  SamePosts(id)
BY Zenon DEF SamePosts, Posted

\* The top frame is replaced...
LEMMA QuietUpdate ==
    ASSUME TypeInv, NEW t \in Tasks, NEW fn, NEW loc, At(t, fn, loc), NEW g, stack' = Update(t, g),
           NoCallFrame(Top(t)), NoCallFrame(g)
    PROVE  QuietFrames
<1>1. Replaced(stack', t, g)
  BY Zenon, Updating DEF At
<1>2. Top(t) = stack[t][Len(stack[t])] /\ \E c \in Cpus : running[c] = t
  BY Zenon DEF Top, depth, At
<1>3. \A u \in Tasks : Len(stack'[u]) = Len(stack[u])
  BY Zenon, <1>1 DEF Replaced
<1>4. \A u \in Tasks : \A d \in 1 .. Len(stack[u]) :
         IF u = t /\ d = Len(stack[t]) THEN stack'[u][d] = g ELSE stack'[u][d] = stack[u][d]
  BY Zenon, <1>1 DEF Replaced
<1>5. ASSUME NEW u \in Tasks, NEW d \in Nat, d \in 1 .. Len(stack[u]), u = t, d = Len(stack[t])
      PROVE  NoCallFrame(stack[u][d]) /\ NoCallFrame(stack'[u][d])
  <2>1. stack[u][d] = Top(t)
    BY Zenon, <1>2, <1>5
  <2>2. stack'[u][d] = g
    BY Zenon, <1>4, <1>5
  <2>3. QED
    BY Zenon, <2>1, <2>2
<1>6. ASSUME NEW u \in Tasks, NEW d \in Nat, d \in 1 .. Len(stack[u]), ~(u = t /\ d = Len(stack[t]))
      PROVE  stack'[u][d] = stack[u][d]
  BY Zenon, <1>4, <1>6
<1>7. SUFFICES ASSUME NEW u \in Tasks, NEW d \in Nat
               PROVE  \/ /\ d \in 1 .. Len(stack[u]) /\ d \in 1 .. Len(stack'[u])
                         /\ stack'[u][d] = stack[u][d]
                      \/ /\ d \in 1 .. Len(stack[u]) => NoCallFrame(stack[u][d])
                         /\ d \in 1 .. Len(stack'[u]) =>
                               /\ NoCallFrame(stack'[u][d])
                               /\ stack'[u][d].fn = "irq" /\ stack'[u][d].at = "copy" =>
                                     \E c \in Cpus : running[c] = u
  BY Zenon DEF QuietFrames
<1>8. d \in 1 .. Len(stack'[u]) <=> d \in 1 .. Len(stack[u])
  BY Zenon, <1>3
<1>9. CASE d \notin 1 .. Len(stack[u])
  BY Zenon, <1>8, <1>9
<1>10. CASE d \in 1 .. Len(stack[u]) /\ u = t /\ d = Len(stack[t])
  <2>1. NoCallFrame(stack[u][d]) /\ NoCallFrame(stack'[u][d])
    BY Zenon, <1>5, <1>10
  <2>2. \E c \in Cpus : running[c] = u
    BY Zenon, <1>2, <1>10
  <2>3. QED
    BY Zenon, <2>1, <2>2
<1>11. CASE d \in 1 .. Len(stack[u]) /\ ~(u = t /\ d = Len(stack[t]))
  BY Zenon, <1>6, <1>8, <1>11
<1>12. QED
  BY Zenon, <1>9, <1>10, <1>11

\* ...or a new one...
LEMMA QuietPushes ==
    ASSUME TypeInv, NEW t \in Tasks, NEW g \in AllFrames, stack' = Push(t, g), NoCallFrame(g),
           g.fn = "irq" => g.at # "copy"
    PROVE  QuietFrames
<1>1. Pushed(t, g) /\ \A u \in Tasks : Len(stack[u]) \in Nat
  BY Pushing DEF TypeInv
<1>2. \A u \in Tasks : \A d \in Nat :
         /\ d \in 1 .. Len(stack[u]) => d \in 1 .. Len(stack'[u]) /\ stack'[u][d] = stack[u][d]
         /\ d \in 1 .. Len(stack'[u]) => d \in 1 .. Len(stack[u]) \/ (u = t /\ d = Len(stack[t]) + 1)
  BY <1>1 DEF Pushed
<1>3. stack'[t][Len(stack[t]) + 1] = g
  BY Zenon, <1>1 DEF Pushed
<1>4. \A u \in Tasks : \A d \in Nat :
         d \in 1 .. Len(stack'[u]) /\ d \notin 1 .. Len(stack[u]) =>
            NoCallFrame(stack'[u][d]) /\ (stack'[u][d].fn = "irq" => stack'[u][d].at # "copy")
  BY Zenon, <1>2, <1>3
<1>5. QED
  BY Zenon, <1>2, <1>4 DEF QuietFrames

\* ...or it goes.
LEMMA QuietPops ==
    ASSUME TypeInv, NEW t \in Tasks, stack[t] # <<>>, stack' = Pop(t), NoCallFrame(Top(t))
    PROVE  QuietFrames
<1>1. Popped(t) /\ \A u \in Tasks : Len(stack[u]) \in Nat
  BY Popping DEF TypeInv
<1>2. \A u \in Tasks : \A d \in Nat :
         /\ d \in 1 .. Len(stack'[u]) => d \in 1 .. Len(stack[u]) /\ stack'[u][d] = stack[u][d]
         /\ d \in 1 .. Len(stack[u]) => d \in 1 .. Len(stack'[u]) \/ (u = t /\ d = Len(stack[t]))
  BY <1>1 DEF Popped
<1>3. Top(t) = stack[t][Len(stack[t])]
  BY Zenon DEF Top, depth
<1>4. \A u \in Tasks : \A d \in Nat :
         d \in 1 .. Len(stack[u]) /\ d \notin 1 .. Len(stack'[u]) => NoCallFrame(stack[u][d])
  BY Zenon, <1>2, <1>3
<1>5. QED
  BY Zenon, <1>2, <1>4 DEF QuietFrames

\* A flush changes frames of shootdowns only.
LEMMA QuietFlushes ==
    ASSUME TypeInv, NEW t \in Tasks, NEW fn, NEW loc, At(t, fn, loc), NEW g \in AllFrames, NEW c \in Cpus,
           stack' = Flushed(Update(t, g), c), NoCallFrame(Top(t)), NoCallFrame(g), g.fn = "irq" => g.at # "copy"
    PROVE  QuietFrames
<1>1. stack[t] # <<>> /\ Top(t) = stack[t][Len(stack[t])]
  BY Zenon DEF Top, depth, At
<1>2. /\ \A u \in Tasks : Len(stack'[u]) = Len(stack[u])
      /\ \A u \in Tasks : \A d \in 1 .. Len(stack[u]) :
            AfterFlush(stack'[u][d], IF u = t /\ d = Len(stack[t]) THEN g ELSE stack[u][d], c)
  BY Zenon, <1>1, GoingAndFlushing
<1>3. ASSUME NEW u \in Tasks, NEW d \in 1 .. Len(stack[u])
      PROVE  \/ stack'[u][d] = stack[u][d]
             \/ /\ NoCallFrame(stack[u][d]) /\ NoCallFrame(stack'[u][d])
                /\ stack'[u][d].fn = "irq" => stack'[u][d].at # "copy"
  <2>1. CASE u = t /\ d = Len(stack[t])
    <3>1. AfterFlush(stack'[u][d], g, c)
      BY Zenon, <1>2, <2>1
    <3>2. g.fn # "tlb" => stack'[u][d] = g
      BY Zenon, <3>1 DEF AfterFlush
    <3>3. g.fn = "tlb" => stack'[u][d].fn = "tlb"
      BY Zenon, <3>1 DEF AfterFlush
    <3>4. NoCallFrame(stack'[u][d]) /\ (stack'[u][d].fn = "irq" => stack'[u][d].at # "copy")
      BY Zenon, <3>2, <3>3 DEF NoCallFrame
    <3>5. QED
      BY Zenon, <1>1, <2>1, <3>4
  <2>2. CASE ~(u = t /\ d = Len(stack[t]))
    <3>1. AfterFlush(stack'[u][d], stack[u][d], c)
      BY Zenon, <1>2, <2>2
    <3>2. stack[u][d].fn = "tlb" => stack'[u][d].fn = "tlb"
      BY Zenon, <3>1 DEF AfterFlush
    <3>3. stack[u][d].fn # "tlb" => stack'[u][d] = stack[u][d]
      BY Zenon, <3>1 DEF AfterFlush
    <3>4. QED
      BY Zenon, <3>2, <3>3 DEF NoCallFrame
  <2>3. QED
    BY Zenon, <2>1, <2>2
<1>4. QED
  BY Zenon, <1>2, <1>3 DEF QuietFrames

LEMMA ShootdownFrames ==
    ASSUME NEW f, f.fn = "tlb"
    PROVE  NoCallFrame(f)
BY Zenon DEF NoCallFrame

LEMMA HandlerFrames ==
    ASSUME NEW f, f.fn = "irq", f.at \notin UsePcs \/ (f.at = "copy" /\ f.msg.tag = "tlb")
    PROVE  NoCallFrame(f)
BY Zenon DEF NoCallFrame

\* The steps of a shootdown that change its own frame.
LEMMA CallsShootdown ==
    ASSUME IInv, IInv', CallInv, NEW t \in Tasks,
           SkipSelf(t) \/ SendTlbIpi(t) \/ TlbAcked(t) \/ Invalidate(t) \/ ShootdownReturns(t)
    PROVE  CallInv'
<1>1. running' = running /\ calls' = calls /\ ops' = ops /\ message_queue' = message_queue
  BY Zenon DEF SkipSelf, SendTlbIpi, TlbAcked, Invalidate, ShootdownReturns
<1>2. \A id \in CallIds : SamePosts(id)
  BY Zenon, <1>1, SameQueue
<1>3. PICK loc : At(t, "tlb", loc)
  BY Zenon DEF SkipSelf, SendTlbIpi, TlbAcked, Invalidate, ShootdownReturns
<1>4. Top(t) \in TlbFrames /\ Top(t).fn = "tlb" /\ stack[t] # <<>> /\ cpu_id(t) \in Cpus
  <2>1. TypeInv
    BY Zenon DEF IInv
  <2>2. cpu_id(t) \in Cpus
    BY Zenon, <1>3, <2>1, Running
  <2>3. QED
    BY Zenon, <1>3, <2>1, <2>2, RunningShootdown DEF At
<1>5. NoCallFrame(Top(t))
  BY Zenon, <1>4, ShootdownFrames
<1>6. QuietFrames
  <2>1. CASE SkipSelf(t)
    <3> DEFINE g == [Top(t) EXCEPT !.cpu = @ + 1]
    <3>1. g.fn = "tlb" /\ stack' = Update(t, g)
      BY Zenon, <1>4, <2>1 DEF TlbFrames, SkipSelf
    <3> HIDE DEF g
    <3>2. QED
      BY Zenon, <1>3, <1>5, <3>1, ShootdownFrames, QuietUpdate DEF IInv
  <2>2. CASE SendTlbIpi(t)
    <3> DEFINE g == [Top(t) EXCEPT !.at = "wait", !.irqs = iflag[t]]
    <3>1. g.fn = "tlb" /\ stack' = Update(t, g)
      BY Zenon, <1>4, <2>2 DEF TlbFrames, SendTlbIpi
    <3> HIDE DEF g
    <3>2. QED
      BY Zenon, <1>3, <1>5, <3>1, ShootdownFrames, QuietUpdate DEF IInv
  <2>3. CASE TlbAcked(t)
    <3> DEFINE g == [Top(t) EXCEPT !.at = "next", !.cpu = @ + 1]
    <3>1. g.fn = "tlb" /\ stack' = Update(t, g)
      BY Zenon, <1>4, <2>3 DEF TlbFrames, TlbAcked
    <3> HIDE DEF g
    <3>2. QED
      BY Zenon, <1>3, <1>5, <3>1, ShootdownFrames, QuietUpdate DEF IInv
  <2>4. CASE Invalidate(t)
    <3> DEFINE g == [Top(t) EXCEPT !.at = "next"]
    <3>1. g.fn = "tlb" /\ g \in AllFrames /\ stack' = Flushed(Update(t, g), cpu_id(t))
      BY Zenon, <1>4, <2>4, Going DEF TlbFrames, AllFrames, Invalidate, At, Top
    <3> HIDE DEF g
    <3>2. QED
      BY Zenon, <1>3, <1>4, <1>5, <3>1, ShootdownFrames, QuietFlushes DEF IInv
  <2>5. CASE ShootdownReturns(t)
    <3>1. stack' = Pop(t)
      BY Zenon, <2>5 DEF ShootdownReturns, Return
    <3>2. QED
      BY Zenon, <1>4, <1>5, <3>1, QuietPops DEF IInv
  <2>6. QED
    BY Zenon, <2>1, <2>2, <2>3, <2>4, <2>5
<1>7. QED
  BY Zenon, <1>1, <1>2, <1>6, CallsQuiet

\* A shootdown, or a handler, starts.
LEMMA CallsPushes ==
    ASSUME IInv, IInv', CallInv,
           (\E t \in Tasks : NestedShootdown(t)) \/ (\E c \in Cpus : Interrupt(c))
    PROVE  CallInv'
<1>1. running' = running /\ calls' = calls /\ ops' = ops /\ message_queue' = message_queue
  BY Zenon DEF NestedShootdown, Interrupt
<1>2. \A id \in CallIds : SamePosts(id)
  BY Zenon, <1>1, SameQueue
<1>3. /\ TlbFrame \in AllFrames /\ TlbFrame.fn = "tlb"
      /\ IrqFrame \in AllFrames /\ IrqFrame.fn = "irq" /\ IrqFrame.at = "entry"
  BY NCpusAssumption DEF TlbFrame, IrqFrame, AllFrames, TlbFrames, IrqFrames
<1>4. NoCallFrame(TlbFrame) /\ NoCallFrame(IrqFrame)
  BY Zenon, <1>3 DEF NoCallFrame, UsePcs
<1>5. PICK t \in Tasks : stack' = Push(t, TlbFrame) \/ stack' = Push(t, IrqFrame)
  <2>1. \A c \in Cpus : running[c] \in Tasks
    BY Zenon DEF IInv, TypeInv
  <2>2. QED
    BY Zenon, <2>1 DEF NestedShootdown, Interrupt
<1>6. QuietFrames
  <2>1. CASE stack' = Push(t, TlbFrame)
    BY Zenon, <1>3, <1>4, <2>1, QuietPushes DEF IInv
  <2>2. CASE stack' = Push(t, IrqFrame)
    BY Zenon, <1>3, <1>4, <2>2, QuietPushes DEF IInv
  <2>3. QED
    BY Zenon, <1>5, <2>1, <2>2
<1>7. QED
  BY Zenon, <1>1, <1>2, <1>6, CallsQuiet

\* A message that is not of call id comes to the head of a queue...
LEMMA PostsCons ==
    ASSUME TypeInv, NEW c \in Cpus, NEW m \in Messages, NEW id, m # CallMessage(id),
           message_queue' = [message_queue EXCEPT ![c] = <<m>> \o @]
    PROVE  SamePosts(id)
<1>1. PICK q \in Seq(Messages) : q = message_queue[c]
  BY Zenon DEF TypeInv
<1>2. message_queue'[c] = <<m>> \o q /\ \A e \in Cpus : e # c => message_queue'[e] = message_queue[e]
  BY Zenon, <1>1 DEF TypeInv
<1>3. /\ Len(q) \in Nat /\ Len(<<m>> \o q) = Len(q) + 1 /\ (<<m>> \o q)[1] = m
      /\ \A i \in 2 .. Len(q) + 1 : (<<m>> \o q)[i] = q[i - 1]
  BY SeqElement, SeqCons
<1>4. \A i \in Nat : Posted(id, c, i) => i + 1 \in Nat /\ Posted(id, c, i + 1)'
  <2>1. \A i \in 1 .. Len(q) : i + 1 \in 2 .. Len(q) + 1 /\ i + 1 \in 1 .. Len(q) + 1 /\ (i + 1) - 1 = i
    BY <1>3
  <2>2. \A i \in 1 .. Len(q) : (<<m>> \o q)[i + 1] = q[i]
    BY Zenon, <1>3, <2>1
  <2>3. QED
    BY <1>1, <1>2, <1>3, <2>1, <2>2 DEF Posted
<1>5. \A i \in Nat : Posted(id, c, i)' => i - 1 \in Nat /\ Posted(id, c, i - 1)
  <2>1. ASSUME NEW i \in Nat, Posted(id, c, i)'
        PROVE  i - 1 \in Nat /\ Posted(id, c, i - 1)
    <3>1. i \in 1 .. Len(q) + 1 /\ (<<m>> \o q)[i] = CallMessage(id)
      BY Zenon, <1>2, <1>3, <2>1 DEF Posted
    <3>2. i # 1
      BY Zenon, <1>3, <3>1
    <3>3. i \in 2 .. Len(q) + 1 /\ i - 1 \in 1 .. Len(q)
      BY <1>3, <3>1, <3>2
    <3>4. QED
      BY <1>1, <1>3, <3>1, <3>3 DEF Posted
  <2>2. QED
    BY Zenon, <2>1
<1>6. \A e \in Cpus : e # c => \A i \in Nat : Posted(id, e, i)' <=> Posted(id, e, i)
  BY Zenon, <1>2 DEF Posted
<1>7. ASSUME \A i, j \in Nat : Posted(id, c, i) /\ Posted(id, c, j) => i = j,
             NEW i \in Nat, NEW j \in Nat, Posted(id, c, i)', Posted(id, c, j)'
      PROVE  i = j
  <2>1. i - 1 = j - 1
    BY Zenon, <1>5, <1>7
  <2>2. QED
    BY <2>1
<1>8. ASSUME NEW e \in Cpus
      PROVE  /\ (\E i \in Nat : Posted(id, e, i)') <=> (\E i \in Nat : Posted(id, e, i))
             /\ (\A i, j \in Nat : Posted(id, e, i) /\ Posted(id, e, j) => i = j) =>
                   \A i, j \in Nat : Posted(id, e, i)' /\ Posted(id, e, j)' => i = j
  <2>1. CASE e = c
    BY Zenon, <1>4, <1>5, <1>7, <2>1
  <2>2. CASE e # c
    BY Zenon, <1>6, <2>2
  <2>3. QED
    BY Zenon, <2>1, <2>2
<1>9. QED
  BY Zenon, <1>8 DEF SamePosts

\* ...leaves the head...
LEMMA PostsTail ==
    ASSUME TypeInv, NEW c \in Cpus, NEW id, message_queue[c] # <<>>, Head(message_queue[c]) # CallMessage(id),
           message_queue' = [message_queue EXCEPT ![c] = Tail(@)]
    PROVE  SamePosts(id)
<1>1. PICK q \in Seq(Messages) : q = message_queue[c]
  BY Zenon DEF TypeInv
<1>2. PICK r : r = Tail(q) /\ r = message_queue'[c] /\ \A e \in Cpus : e # c => message_queue'[e] = message_queue[e]
  BY Zenon, <1>1 DEF TypeInv
<1>3. /\ Len(q) \in Nat /\ Len(r) = Len(q) - 1 /\ q[1] # CallMessage(id)
      /\ \A i \in 1 .. Len(q) - 1 : r[i] = q[i + 1]
  <2>1. q # <<>> /\ Head(q) # CallMessage(id)
    BY Zenon, <1>1
  <2>2. Head(q) = q[1] /\ Len(Tail(q)) = Len(q) - 1 /\ \A i \in 1 .. Len(q) - 1 : Tail(q)[i] = q[i + 1]
    BY Zenon, <2>1, SeqHeadTail
  <2>3. Len(q) \in Nat
    BY Zenon, SeqElement
  <2>4. QED
    BY Zenon, <1>2, <2>1, <2>2, <2>3
<1>4. ASSUME NEW i \in Nat, Posted(id, c, i)' PROVE i + 1 \in Nat /\ Posted(id, c, i + 1)
  <2>1. i \in 1 .. Len(q) - 1 /\ r[i] = CallMessage(id)
    BY Zenon, <1>2, <1>3, <1>4 DEF Posted
  <2>2. i + 1 \in 1 .. Len(q) /\ i + 1 \in Nat
    BY <1>3, <2>1
  <2>3. q[i + 1] = CallMessage(id)
    BY Zenon, <1>3, <2>1
  <2>4. QED
    BY Zenon, <1>1, <2>2, <2>3 DEF Posted
<1>5. \A i \in Nat : Posted(id, c, i) => i - 1 \in Nat /\ Posted(id, c, i - 1)'
  <2>1. ASSUME NEW i \in Nat, Posted(id, c, i)
        PROVE  i - 1 \in Nat /\ Posted(id, c, i - 1)'
    <3>1. i \in 1 .. Len(q) /\ q[i] = CallMessage(id) /\ i # 1
      BY Zenon, <1>1, <1>3, <2>1 DEF Posted
    <3>2. i - 1 \in 1 .. Len(q) - 1 /\ (i - 1) + 1 = i
      BY <1>3, <3>1
    <3>3. r[i - 1] = q[i]
      <4>1. r[i - 1] = q[(i - 1) + 1]
        BY Zenon, <1>3, <3>2
      <4>2. QED
        BY Zenon, <3>2, <4>1
    <3>4. i - 1 \in 1 .. Len(r) /\ i - 1 \in Nat
      BY <1>3, <3>2
    <3>5. QED
      BY Zenon, <1>2, <3>1, <3>3, <3>4 DEF Posted
  <2>2. QED
    BY Zenon, <2>1
<1>6. \A e \in Cpus : e # c => \A i \in Nat : Posted(id, e, i)' <=> Posted(id, e, i)
  BY Zenon, <1>2 DEF Posted
<1>7. ASSUME \A i, j \in Nat : Posted(id, c, i) /\ Posted(id, c, j) => i = j,
             NEW i \in Nat, NEW j \in Nat, Posted(id, c, i)', Posted(id, c, j)'
      PROVE  i = j
  <2>1. i + 1 = j + 1
    BY Zenon, <1>4, <1>7
  <2>2. QED
    BY <2>1
<1>8. ASSUME NEW e \in Cpus
      PROVE  /\ (\E i \in Nat : Posted(id, e, i)') <=> (\E i \in Nat : Posted(id, e, i))
             /\ (\A i, j \in Nat : Posted(id, e, i) /\ Posted(id, e, j) => i = j) =>
                   \A i, j \in Nat : Posted(id, e, i)' /\ Posted(id, e, j)' => i = j
  <2>1. CASE e = c
    BY Zenon, <1>4, <1>5, <1>7, <2>1
  <2>2. CASE e # c
    BY Zenon, <1>6, <2>2
  <2>3. QED
    BY Zenon, <2>1, <2>2
<1>9. QED
  BY Zenon, <1>8 DEF SamePosts

\* ...or comes to the tail.
LEMMA PostsAppend ==
    ASSUME TypeInv, NEW c \in Cpus, NEW m \in Messages, NEW id,
           message_queue' = [message_queue EXCEPT ![c] = Append(@, m)]
    PROVE  /\ \A e \in Cpus : e # c => \A i \in Nat : Posted(id, e, i)' <=> Posted(id, e, i)
           /\ \A i \in Nat : Posted(id, c, i)' <=> Posted(id, c, i) \/ (i = Len(message_queue[c]) + 1 /\ m = CallMessage(id))
           /\ Len(message_queue[c]) + 1 \in Nat
<1>1. PICK q \in Seq(Messages) : q = message_queue[c]
  BY Zenon DEF TypeInv
<1>2. message_queue'[c] = Append(q, m) /\ \A e \in Cpus : e # c => message_queue'[e] = message_queue[e]
  BY Zenon, <1>1 DEF TypeInv
<1>3. /\ Len(q) \in Nat /\ Len(Append(q, m)) = Len(q) + 1 /\ Append(q, m)[Len(q) + 1] = m
      /\ \A i \in 1 .. Len(q) : Append(q, m)[i] = q[i]
  BY SeqElement, SeqAppend
<1>4. \A i \in Nat : i \in 1 .. Len(q) + 1 <=> i \in 1 .. Len(q) \/ i = Len(q) + 1
  BY <1>3
<1>5. \A i \in Nat : i \in 1 .. Len(q) => i # Len(q) + 1
  BY <1>3
<1>6. \A i \in Nat : Posted(id, c, i)' <=> Posted(id, c, i) \/ (i = Len(q) + 1 /\ m = CallMessage(id))
  BY Zenon, <1>1, <1>2, <1>3, <1>4, <1>5 DEF Posted
<1>7. \A e \in Cpus : e # c => \A i \in Nat : Posted(id, e, i)' <=> Posted(id, e, i)
  BY Zenon, <1>2 DEF Posted
<1>8. QED
  BY <1>1, <1>3, <1>6, <1>7

\* The message of a shootdown comes to the head of a queue.
LEMMA CallsEnqueue ==
    ASSUME IInv, IInv', CallInv, NEW t \in Tasks, EnqueueTlb(t)
    PROVE  CallInv'
<1> DEFINE g == [Top(t) EXCEPT !.at = "ipi", !.wait = 1]
<1>1. Top(t) \in TlbFrames /\ Top(t).fn = "tlb" /\ At(t, "tlb", "next")
  BY Zenon, RunningShootdown DEF IInv, EnqueueTlb
<1>2. g.fn = "tlb" /\ stack' = Update(t, g)
  BY Zenon, <1>1 DEF TlbFrames, EnqueueTlb
<1> HIDE DEF g
<1>3. QuietFrames
  BY Zenon, <1>1, <1>2, ShootdownFrames, QuietUpdate DEF IInv
<1>4. PICK c \in Cpus : c = Top(t).cpu
  BY <1>1, NCpusAssumption DEF TlbFrames, EnqueueTlb, Cpus
<1>5. PICK m \in Messages : m = TlbMessage(t, depth(t)) /\ m.tag = "tlb"
  <2>1. depth(t) \in Nat
    BY DEF IInv, TypeInv, depth
  <2>2. TlbMessage(t, depth(t)) \in Messages /\ TlbMessage(t, depth(t)).tag = "tlb"
    BY Zenon, <2>1 DEF TlbMessage, Messages
  <2>3. QED
    BY Zenon, <2>2
<1>6. message_queue' = [message_queue EXCEPT ![c] = <<m>> \o @]
  BY Zenon, <1>4, <1>5 DEF EnqueueTlb
<1>7. ASSUME NEW id \in CallIds PROVE SamePosts(id)
  <2>1. m # CallMessage(id)
    BY <1>5 DEF CallMessage
  <2>2. QED
    BY Zenon, <1>6, <2>1, PostsCons DEF IInv
<1>8. running' = running /\ calls' = calls /\ ops' = ops
  BY Zenon DEF EnqueueTlb
<1>9. QED
  BY Zenon, <1>3, <1>7, <1>8, CallsQuiet

\* A handler takes it, copies it, flushes, or has no message at all.
LEMMA CallsHandler ==
    ASSUME IInv, IInv', CallInv, NEW t \in Tasks,
           \/ EnterHandler(t) \/ LeaveHandler(t) \/ ReturnFromInterrupt(t) \/ FlushTlb(t)
           \/ CopyMessage(t) /\ Top(t).msg.tag = "tlb"
           \/ TakeMessage(t) /\ Head(message_queue[cpu_id(t)]).tag = "tlb"
    PROVE  CallInv'
<1>1. running' = running /\ calls' = calls /\ ops' = ops
  BY Zenon DEF EnterHandler, LeaveHandler, ReturnFromInterrupt, FlushTlb, CopyMessage, TakeMessage
<1>2. PICK loc : At(t, "irq", loc) /\ (loc \in {"entry", "loop", "exit", "flush"} \/ (loc = "copy" /\ Top(t).msg.tag = "tlb"))
  BY Zenon DEF EnterHandler, LeaveHandler, ReturnFromInterrupt, FlushTlb, CopyMessage, TakeMessage
<1>3. /\ Top(t) \in AllFrames /\ Top(t).fn = "irq" /\ Top(t).at = loc /\ stack[t] # <<>>
      /\ cpu_id(t) \in Cpus
  BY Zenon, <1>2, Running DEF IInv, At
<1>4. Top(t) \in IrqFrames
  BY Zenon, <1>3 DEF AllFrames, TlbFrames, CallFrames
<1>5. NoCallFrame(Top(t))
  BY Zenon, <1>2, <1>3 DEF NoCallFrame, UsePcs
<1>6. \A id \in CallIds : SamePosts(id)
  <2>1. CASE message_queue' = message_queue
    BY Zenon, <2>1, SameQueue
  <2>2. CASE TakeMessage(t) /\ Head(message_queue[cpu_id(t)]).tag = "tlb"
    <3>1. /\ message_queue[cpu_id(t)] # <<>>
          /\ message_queue' = [message_queue EXCEPT ![cpu_id(t)] = Tail(@)]
      BY Zenon, <2>2 DEF TakeMessage
    <3>2. \A id : Head(message_queue[cpu_id(t)]) # CallMessage(id)
      BY <2>2 DEF CallMessage
    <3>3. QED
      BY Zenon, <1>3, <3>1, <3>2, PostsTail DEF IInv
  <2>3. QED
    BY Zenon, <2>1, <2>2 DEF EnterHandler, LeaveHandler, ReturnFromInterrupt, FlushTlb, CopyMessage
<1>7. ASSUME NEW new, new \in {"loop", "exit", "flush"}, stack' = Goto(t, new)
      PROVE  QuietFrames
  <2> DEFINE g == [Top(t) EXCEPT !.at = new]
  <2>1. stack' = Update(t, g)
    BY Zenon, <1>7, Going
  <2>2. g.fn = "irq" /\ g.at = new
    BY Zenon, <1>4 DEF IrqFrames
  <2> HIDE DEF g
  <2>3. NoCallFrame(g)
    BY Zenon, <1>7, <2>2 DEF NoCallFrame, UsePcs
  <2>4. QED
    BY Zenon, <1>2, <1>5, <2>1, <2>3, QuietUpdate DEF IInv
<1>8. QuietFrames
  <2>1. CASE EnterHandler(t)
    BY Zenon, <1>7, <2>1 DEF EnterHandler
  <2>2. CASE LeaveHandler(t)
    BY Zenon, <1>7, <2>2 DEF LeaveHandler
  <2>3. CASE ReturnFromInterrupt(t)
    BY Zenon, <1>3, <1>5, <2>3, QuietPops DEF ReturnFromInterrupt, IInv
  <2>4. CASE CopyMessage(t) /\ Top(t).msg.tag = "tlb"
    BY Zenon, <1>7, <2>4 DEF CopyMessage
  <2>5. CASE FlushTlb(t)
    <3> DEFINE g == [Top(t) EXCEPT !.at = "ack"]
    <3>1. stack' = Flushed(Update(t, g), cpu_id(t))
      BY Zenon, <2>5, Going DEF FlushTlb
    <3>2. Top(t).at = "flush"
      BY Zenon, <2>5 DEF FlushTlb, At, Top
    <3>3. g \in AllFrames /\ g.fn = "irq" /\ g.at = "ack"
      BY Zenon, <1>4, <3>2 DEF IrqFrames, AllFrames
    <3> HIDE DEF g
    <3>4. NoCallFrame(g) /\ g.at # "copy"
      BY Zenon, <3>3 DEF NoCallFrame, UsePcs
    <3>5. QED
      BY Zenon, <1>2, <1>3, <1>5, <3>1, <3>3, <3>4, QuietFlushes DEF IInv
  <2>6. CASE TakeMessage(t) /\ Head(message_queue[cpu_id(t)]).tag = "tlb"
    <3> DEFINE g == [Top(t) EXCEPT !.at = "copy", !.msg = Head(message_queue[cpu_id(t)])]
    <3>1. stack' = Update(t, g)
      BY Zenon, <2>6 DEF TakeMessage
    <3>2. g.fn = "irq" /\ g.at = "copy" /\ g.msg = Head(message_queue[cpu_id(t)])
      BY Zenon, <1>4 DEF IrqFrames
    <3> HIDE DEF g
    <3>3. NoCallFrame(g)
      BY Zenon, <2>6, <3>2 DEF NoCallFrame
    <3>4. QED
      BY Zenon, <1>2, <1>5, <3>1, <3>3, QuietUpdate DEF IInv
  <2>7. QED
    BY Zenon, <2>1, <2>2, <2>3, <2>4, <2>5, <2>6
<1>9. QED
  BY Zenon, <1>1, <1>6, <1>8, CallsQuiet

\* A handler acknowledges a shootdown.
LEMMA CallsAck ==
    ASSUME IInv, IInv', CallInv, NEW t \in Tasks, AckTlb(t)
    PROVE  CallInv'
<1>1. PICK v \in Tasks, k \in Nat, c \in Cpus, g, h \in AllFrames : AckShape(t, v, k, c, g, h)
  BY Zenon, AckSteps
<1>2. running' = running /\ calls' = calls /\ ops' = ops /\ message_queue' = message_queue
  BY Zenon DEF AckTlb
<1>3. \A id \in CallIds : SamePosts(id)
  BY Zenon, <1>2, SameQueue
<1>4. /\ NoCallFrame(g) /\ NoCallFrame(h) /\ g.at # "copy" /\ h.fn # "irq"
      /\ NoCallFrame(stack[t][Len(stack[t])]) /\ NoCallFrame(stack[v][k])
  <2>1. /\ g.fn = "irq" /\ g.at = "loop" /\ h.fn = "tlb" /\ stack[v][k].fn = "tlb"
        /\ stack[t][Len(stack[t])].fn = "irq" /\ stack[t][Len(stack[t])].at = "ack"
    BY Zenon, <1>1 DEF AckShape, Handles, Awaiting
  <2>2. QED
    BY Zenon, <2>1 DEF NoCallFrame, UsePcs
<1>5. /\ \A u \in Tasks : Len(stack'[u]) = Len(stack[u])
      /\ \A u \in Tasks : \A d \in 1 .. Len(stack[u]) :
            stack'[u][d] = IF u = t /\ d = Len(stack[t]) THEN g ELSE IF u = v /\ d = k THEN h ELSE stack[u][d]
  BY Zenon, <1>1 DEF AckShape
<1>6. QuietFrames
  <2>1. ASSUME NEW u \in Tasks, NEW d \in 1 .. Len(stack[u])
        PROVE  \/ stack'[u][d] = stack[u][d]
               \/ /\ NoCallFrame(stack[u][d]) /\ NoCallFrame(stack'[u][d])
                  /\ stack'[u][d].fn = "irq" => stack'[u][d].at # "copy"
    <3>1. CASE u = t /\ d = Len(stack[t])
      BY Zenon, <1>4, <1>5, <3>1
    <3>2. CASE ~(u = t /\ d = Len(stack[t])) /\ u = v /\ d = k
      BY Zenon, <1>4, <1>5, <3>2
    <3>3. CASE ~(u = t /\ d = Len(stack[t])) /\ ~(u = v /\ d = k)
      BY Zenon, <1>5, <3>3
    <3>4. QED
      BY Zenon, <3>1, <3>2, <3>3
  <2>2. QED
    BY Zenon, <1>5, <2>1 DEF QuietFrames
<1>7. QED
  BY Zenon, <1>2, <1>3, <1>6, CallsQuiet

\* A process starts a shootdown.
LEMMA CallsBeginShootdown ==
    ASSUME IInv, IInv', CallInv, NEW p \in Procs, BeginShootdown(p)
    PROVE  CallInv'
<1>1. /\ running' = running /\ calls' = calls /\ message_queue' = message_queue /\ stack' = Push(p, TlbFrame)
      /\ stack[p] = <<>> /\ ops' = [ops EXCEPT ![p] = @ + 1]
  BY Zenon DEF BeginShootdown, Begin
<1>2. \A id \in CallIds : SamePosts(id)
  BY Zenon, <1>1, SameQueue
<1>3. TlbFrame \in AllFrames /\ TlbFrame.fn = "tlb"
  BY NCpusAssumption DEF TlbFrame, AllFrames, TlbFrames
<1>4. NoCallFrame(TlbFrame) /\ p \in Tasks
  BY Zenon, <1>3 DEF NoCallFrame, Tasks
<1>5. QuietFrames
  BY Zenon, <1>1, <1>3, <1>4, QuietPushes DEF IInv
<1>6. \A q \in Procs : ops'[q] = ops[q] \/ (ops'[q] = ops[q] + 1 /\ stack[q] = <<>>)
  BY Zenon, <1>1 DEF IInv, TypeInv
<1>7. QED
  BY Zenon, <1>1, <1>2, <1>5, <1>6, CallsQuiet

-----------------------------------------------------------------------------
(* Handlers of calls. *)

\* A handler at location a has a reference of call id; it still has to complete.
ReferAt(id, a) == a = "copy" \/ a = "call" \/ (calls[id].is_synchronous /\ a = "func")
BusyAt(id, a) == ReferAt(id, a) \/ a = "complete"

\* The handler of call id with frame n on cpu c goes from location a to b.
Moves(id, c, n, a, b) ==
    /\ \A e \in UsePcs : Uses(id, c, n, e) <=> e = a
    /\ \A e \in UsePcs : Uses(id, c, n, e)' <=> e = b
    /\ \A k \in Cpus : \A d \in Nat : \A e \in UsePcs :
          ~(k = c /\ d = n) => (Uses(id, k, d, e)' <=> Uses(id, k, d, e))

\* Frames and locations.
LEMMA ReferFrames ==
    ASSUME NEW id, NEW c, NEW d
    PROVE  /\ Refers(id, c, d) <=> \E a \in UsePcs : Uses(id, c, d, a) /\ ReferAt(id, a)
           /\ Busy(id, c, d) <=> \E a \in UsePcs : Uses(id, c, d, a) /\ BusyAt(id, a)
<1>1. "copy" \in UsePcs /\ "call" \in UsePcs /\ "func" \in UsePcs /\ "complete" \in UsePcs
  BY Zenon DEF UsePcs
<1>2. \A a \in UsePcs : a = "copy" \/ a = "call" \/ a = "func" \/ a = "complete"
  BY Zenon DEF UsePcs
<1>3. QED
  BY Zenon, <1>1, <1>2 DEF Refers, Busy, ReferAt, BusyAt

\* Such a move gives up what location b does not have.
LEMMA MoveReferences ==
    ASSUME NEW id \in CallIds, NEW c \in Cpus, NEW n \in Nat, NEW a \in UsePcs, NEW b, Moves(id, c, n, a, b),
           calls'[id].is_synchronous = calls[id].is_synchronous,
           b \in UsePcs \/ ~BusyAt(id, b)
    PROVE  /\ Refers(id, c, n) <=> ReferAt(id, a)
           /\ Busy(id, c, n) <=> BusyAt(id, a)
           /\ Refers(id, c, n)' <=> ReferAt(id, b)
           /\ Busy(id, c, n)' <=> BusyAt(id, b)
           /\ \A k \in Cpus : \A d \in Nat :
                 ~(k = c /\ d = n) => (Refers(id, k, d)' <=> Refers(id, k, d)) /\ (Busy(id, k, d)' <=> Busy(id, k, d))
<1>1. \A e : (ReferAt(id, e)' <=> ReferAt(id, e)) /\ (BusyAt(id, e)' <=> BusyAt(id, e))
  BY Zenon DEF ReferAt, BusyAt
<1>2. \A k \in Cpus : \A d \in Nat :
         /\ Refers(id, k, d)' <=> \E e \in UsePcs : Uses(id, k, d, e)' /\ ReferAt(id, e)
         /\ Busy(id, k, d)' <=> \E e \in UsePcs : Uses(id, k, d, e)' /\ BusyAt(id, e)
  <2>1. "copy" \in UsePcs /\ "call" \in UsePcs /\ "func" \in UsePcs /\ "complete" \in UsePcs
    BY Zenon DEF UsePcs
  <2>2. \A e \in UsePcs : e = "copy" \/ e = "call" \/ e = "func" \/ e = "complete"
    BY Zenon DEF UsePcs
  <2>3. QED
    BY Zenon, <1>1, <2>1, <2>2 DEF Refers, Busy, ReferAt, BusyAt
<1>3. \A e : ReferAt(id, e) => BusyAt(id, e)
  BY Zenon DEF BusyAt
<1>4. (Refers(id, c, n) <=> ReferAt(id, a)) /\ (Busy(id, c, n) <=> BusyAt(id, a))
  BY Zenon, ReferFrames DEF Moves
<1>5. (Refers(id, c, n)' <=> ReferAt(id, b)) /\ (Busy(id, c, n)' <=> BusyAt(id, b))
  <2>1. \A e \in UsePcs : Uses(id, c, n, e)' <=> e = b
    BY Zenon DEF Moves
  <2>2. CASE b \in UsePcs
    BY Zenon, <1>2, <2>1, <2>2
  <2>3. CASE b \notin UsePcs
    <3>1. ~BusyAt(id, b) /\ ~ReferAt(id, b)
      BY Zenon, <1>3, <2>3
    <3>2. \A e \in UsePcs : ~Uses(id, c, n, e)'
      BY Zenon, <2>1, <2>3
    <3>3. QED
      BY Zenon, <1>2, <3>1, <3>2
  <2>4. QED
    BY Zenon, <2>2, <2>3
<1>6. ASSUME NEW k \in Cpus, NEW d \in Nat, ~(k = c /\ d = n)
      PROVE  (Refers(id, k, d)' <=> Refers(id, k, d)) /\ (Busy(id, k, d)' <=> Busy(id, k, d))
  <2>1. \A e \in UsePcs : Uses(id, k, d, e)' <=> Uses(id, k, d, e)
    BY Zenon, <1>6 DEF Moves
  <2>2. QED
    BY Zenon, <1>2, <2>1, ReferFrames
<1>7. QED
  BY Zenon, <1>4, <1>5, <1>6

\* The cpu is off the lists if the handler gives up its reference, or completes.
LEMMA MoveSets ==
    ASSUME CallInv, NEW id \in CallIds, NEW c \in Cpus, NEW n \in Nat, NEW a \in UsePcs, NEW b, Moves(id, c, n, a, b),
           SameSender(id), message_queue' = message_queue,
           calls'[id].is_synchronous = calls[id].is_synchronous,
           b \in UsePcs \/ ~BusyAt(id, b), ReferAt(id, b) => ReferAt(id, a), BusyAt(id, b) => BusyAt(id, a),
           b = "complete" => calls[id].is_synchronous
    PROVE  /\ PlaceInv(id)'
           /\ ReferAt(id, a) => c \in Left(id)
           /\ BusyAt(id, a) => c \in Open(id)
           /\ Left(id)' = IF ReferAt(id, a) /\ ~ReferAt(id, b) THEN Left(id) \ {c} ELSE Left(id)
           /\ Open(id)' = IF BusyAt(id, a) /\ ~BusyAt(id, b) THEN Open(id) \ {c} ELSE Open(id)
<1>1. PlaceInv(id)
  BY Zenon DEF CallInv
<1>2. /\ Refers(id, c, n) <=> ReferAt(id, a)
      /\ Busy(id, c, n) <=> BusyAt(id, a)
      /\ Refers(id, c, n)' <=> ReferAt(id, b)
      /\ Busy(id, c, n)' <=> BusyAt(id, b)
      /\ \A k \in Cpus : \A d \in Nat :
            ~(k = c /\ d = n) => (Refers(id, k, d)' <=> Refers(id, k, d)) /\ (Busy(id, k, d)' <=> Busy(id, k, d))
  BY Zenon, MoveReferences
<1>3. \A k \in Cpus : \A i \in Nat : Posted(id, k, i)' <=> Posted(id, k, i)
  BY Zenon DEF Posted
<1>4. \A k \in Cpus : Unsent(id, k)' <=> Unsent(id, k)
  BY Zenon DEF SameSender
<1>5. \A k \in Cpus : \A d \in Nat : Busy(id, k, d)' => Busy(id, k, d)
  BY Zenon, <1>2
<1>6. "complete" \in UsePcs
  BY Zenon DEF UsePcs
<1>7. \A k \in Cpus : \A d \in Nat : Uses(id, k, d, "complete")' => calls[id].is_synchronous
  <2>1. \A k \in Cpus : \A d \in Nat : Uses(id, k, d, "complete")' => Uses(id, k, d, "complete") \/ b = "complete"
    BY Zenon, <1>6 DEF Moves
  <2>2. QED
    BY Zenon, <1>1, <2>1 DEF PlaceInv
<1>8. PlaceInv(id)'
  BY Zenon, <1>1, <1>3, <1>4, <1>5, <1>7 DEF PlaceInv
<1>9. \A k \in Cpus : \A d \in Nat : Refers(id, k, d) => Busy(id, k, d)
  BY Zenon DEF Busy
<1>10. ASSUME BusyAt(id, a)
       PROVE  /\ ~Unsent(id, c) /\ \A i \in Nat : ~Posted(id, c, i)
              /\ \A d \in Nat : d # n => ~Busy(id, c, d)
  BY Zenon, <1>1, <1>2, <1>10 DEF PlaceInv
<1>11. \A k \in Cpus : k # c => (Owes(id, k)' <=> Owes(id, k))
  BY Zenon, <1>2, <1>3, <1>4 DEF Owes
<1>12. (ReferAt(id, a) => Owes(id, c)) /\ (ReferAt(id, a) => BusyAt(id, a))
  BY Zenon, <1>2 DEF Owes, BusyAt
<1>13. Owes(id, c)' <=> IF ReferAt(id, a) /\ ~ReferAt(id, b) THEN FALSE ELSE Owes(id, c)
  <2>1. CASE ReferAt(id, a) /\ ~ReferAt(id, b)
    BY Zenon, <1>2, <1>3, <1>4, <1>9, <1>10, <1>12, <2>1 DEF Owes
  <2>2. CASE ~(ReferAt(id, a) /\ ~ReferAt(id, b))
    <3>1. \A d \in Nat : Refers(id, c, d)' <=> Refers(id, c, d)
      BY Zenon, <1>2, <2>2
    <3>2. QED
      BY Zenon, <1>3, <1>4, <2>2, <3>1 DEF Owes
  <2>3. QED
    BY Zenon, <2>1, <2>2
<1>14. Left(id)' = IF ReferAt(id, a) /\ ~ReferAt(id, b) THEN Left(id) \ {c} ELSE Left(id)
  <2>1. CASE ReferAt(id, a) /\ ~ReferAt(id, b)
    BY <1>11, <1>13, <2>1 DEF Left
  <2>2. CASE ~(ReferAt(id, a) /\ ~ReferAt(id, b))
    <3>1. \A k \in Cpus : Owes(id, k)' <=> Owes(id, k)
      BY Zenon, <1>11, <1>13, <2>2
    <3>2. QED
      BY Zenon, <2>2, <3>1 DEF Left
  <2>3. QED
    BY Zenon, <2>1, <2>2
\* The same with completion.
<1> DEFINE Has(k) == Owes(id, k) \/ \E d \in Nat : Uses(id, k, d, "complete")
           HasNext(k) == Owes(id, k)' \/ \E d \in Nat : Uses(id, k, d, "complete")'
<1>15. /\ Open(id) = {k \in Cpus : Has(k)}
       /\ Open(id)' = {k \in Cpus : HasNext(k)}
  BY Zenon DEF Open
<1>16. /\ \A k \in Cpus : Has(k) <=> Unsent(id, k) \/ (\E i \in Nat : Posted(id, k, i)) \/ (\E d \in Nat : Busy(id, k, d))
       /\ \A k \in Cpus : HasNext(k) <=> Unsent(id, k) \/ (\E i \in Nat : Posted(id, k, i)) \/ (\E d \in Nat : Busy(id, k, d)')
  BY Zenon, <1>3, <1>4 DEF Owes, Busy
<1> HIDE DEF Has, HasNext
<1>17. \A k \in Cpus : k # c => (HasNext(k) <=> Has(k))
  BY Zenon, <1>2, <1>16
<1>18. BusyAt(id, a) => Has(c)
  BY Zenon, <1>2, <1>16
<1>19. HasNext(c) <=> IF BusyAt(id, a) /\ ~BusyAt(id, b) THEN FALSE ELSE Has(c)
  <2>1. CASE BusyAt(id, a) /\ ~BusyAt(id, b)
    BY Zenon, <1>2, <1>10, <1>16, <2>1
  <2>2. CASE ~(BusyAt(id, a) /\ ~BusyAt(id, b))
    <3>1. \A d \in Nat : Busy(id, c, d)' <=> Busy(id, c, d)
      BY Zenon, <1>2, <2>2
    <3>2. QED
      BY Zenon, <1>16, <2>2, <3>1
  <2>3. QED
    BY Zenon, <2>1, <2>2
<1>20. Open(id)' = IF BusyAt(id, a) /\ ~BusyAt(id, b) THEN Open(id) \ {c} ELSE Open(id)
  <2>1. CASE BusyAt(id, a) /\ ~BusyAt(id, b)
    BY Zenon, <1>15, <1>17, <1>19, <2>1
  <2>2. CASE ~(BusyAt(id, a) /\ ~BusyAt(id, b))
    <3>1. \A k \in Cpus : HasNext(k) <=> Has(k)
      BY Zenon, <1>17, <1>19, <2>2
    <3>2. QED
      BY Zenon, <1>15, <2>2, <3>1
  <2>3. QED
    BY Zenon, <2>1, <2>2
<1>21. (ReferAt(id, a) => c \in Left(id)) /\ (BusyAt(id, a) => c \in Open(id))
  BY Zenon, <1>12, <1>15, <1>18 DEF Left
<1>22. QED
  BY Zenon, <1>8, <1>14, <1>20, <1>21

\* The frame of a running handler of a call.
LEMMA RunningUser ==
    ASSUME IInv, CallInv, NEW t \in Tasks, NEW a \in UsePcs, At(t, "irq", a), a = "copy" => Top(t).msg.tag # "tlb"
    PROVE  /\ Top(t) \in IrqFrames /\ Top(t).at = a /\ stack[t] # <<>>
           /\ Len(stack[t]) \in Nat \ {0} /\ Top(t) = stack[t][Len(stack[t])]
           /\ cpu_id(t) \in Cpus /\ running[cpu_id(t)] = t
           /\ \A c \in Cpus : running[c] = t => c = cpu_id(t)
           /\ Top(t).msg.data \in CallIds /\ Top(t).msg = CallMessage(Top(t).msg.data)
<1>1. /\ Len(stack[t]) \in Nat \ {0} /\ Len(stack[t]) \in 1 .. Len(stack[t])
      /\ Top(t) = stack[t][Len(stack[t])] /\ Top(t) \in AllFrames /\ Top(t).fn = "irq" /\ Top(t).at = a
      /\ cpu_id(t) \in Cpus /\ running[cpu_id(t)] = t
      /\ \A c \in Cpus : running[c] = t => c = cpu_id(t)
  BY Zenon, Running DEF IInv
<1>2. Top(t) \in IrqFrames
  BY Zenon, <1>1 DEF AllFrames, TlbFrames, CallFrames
<1>3. \E id \in CallIds : Top(t).msg = CallMessage(id)
  <2>1. CASE a = "copy"
    <3>1. Top(t).msg \in Messages /\ Top(t).msg.tag # "tlb"
      BY Zenon, <1>1, <1>2, <2>1 DEF IrqFrames
    <3>2. QED
      BY Zenon, <3>1 DEF Messages, CallMessage
  <2>2. CASE a # "copy"
    <3>1. CallFrameOk(t, Len(stack[t]), Top(t), running, ops, calls)
      BY Zenon, <1>1 DEF CallInv, CallFrameInv
    <3>2. QED
      BY Zenon, <1>1, <2>2, <3>1 DEF CallFrameOk
  <2>3. QED
    BY Zenon, <2>1, <2>2
<1>4. Top(t).msg.data \in CallIds /\ Top(t).msg = CallMessage(Top(t).msg.data)
  BY <1>3 DEF CallMessage
<1>5. QED
  BY Zenon, <1>1, <1>2, <1>4 DEF At

\* Frame n of task t becomes g.
Becomes(t, n, g) ==
    /\ \A u \in Tasks : Len(stack'[u]) = Len(stack[u])
    /\ \A u \in Tasks : \A d \in 1 .. Len(stack[u]) :
          stack'[u][d] = IF u = t /\ d = n THEN g ELSE stack[u][d]

\* It has nothing to do with the call, before or after.
LEMMA OtherFrames ==
    ASSUME NEW t \in Tasks, NEW n, NEW g, NEW id, Becomes(t, n, g)
    PROVE  /\ ~IsSender(g, id) /\ ~IsSender(stack[t][n], id) => SenderFrames(id)
           /\ ~IsUser(g, id) /\ ~IsUser(stack[t][n], id) => UserFrames(id)
<1>1. \A u \in Tasks : \A d \in 1 .. Len(stack[u]) :
         /\ u = t /\ d = n => stack'[u][d] = g /\ stack[u][d] = stack[t][n]
         /\ u # t \/ d # n => stack'[u][d] = stack[u][d]
  BY Zenon DEF Becomes
<1>2. ASSUME ~IsSender(g, id), ~IsSender(stack[t][n], id), NEW u \in Tasks, NEW d \in Nat
      PROVE  /\ d \in 1 .. Len(stack[u]) /\ IsSender(stack[u][d], id) =>
                   d \in 1 .. Len(stack'[u]) /\ stack'[u][d] = stack[u][d]
             /\ d \in 1 .. Len(stack'[u]) /\ IsSender(stack'[u][d], id) =>
                   d \in 1 .. Len(stack[u]) /\ stack'[u][d] = stack[u][d]
  <2>1. Len(stack'[u]) = Len(stack[u])
    BY Zenon DEF Becomes
  <2>2. CASE u = t /\ d = n
    BY Zenon, <1>1, <1>2, <2>1, <2>2
  <2>3. CASE u # t \/ d # n
    BY Zenon, <1>1, <2>1, <2>3
  <2>4. QED
    BY Zenon, <2>2, <2>3
<1>3. ASSUME ~IsUser(g, id), ~IsUser(stack[t][n], id), NEW u \in Tasks, NEW d \in Nat
      PROVE  /\ d \in 1 .. Len(stack[u]) /\ IsUser(stack[u][d], id) =>
                   d \in 1 .. Len(stack'[u]) /\ stack'[u][d] = stack[u][d]
             /\ d \in 1 .. Len(stack'[u]) /\ IsUser(stack'[u][d], id) =>
                   d \in 1 .. Len(stack[u]) /\ stack'[u][d] = stack[u][d]
  <2>1. Len(stack'[u]) = Len(stack[u])
    BY Zenon DEF Becomes
  <2>2. CASE u = t /\ d = n
    BY Zenon, <1>1, <1>3, <2>1, <2>2
  <2>3. CASE u # t \/ d # n
    BY Zenon, <1>1, <2>1, <2>3
  <2>4. QED
    BY Zenon, <2>2, <2>3
<1>4. QED
  BY Zenon, <1>2, <1>3 DEF SenderFrames, UserFrames

\* It goes to location b: what remains to be shown is about its own call.
LEMMA HandlerMoves ==
    ASSUME IInv, IInv', CallInv, NEW t \in Tasks, NEW a \in UsePcs, At(t, "irq", a), a = "copy" => Top(t).msg.tag # "tlb",
           NEW b, stack' = Goto(t, b), b # "copy", running' = running, ops' = ops, message_queue' = message_queue,
           NEW x, x = Top(t).msg.data, NEW c, c = cpu_id(t), NEW n, n = Len(stack[t]), CallTypes',
           \A id \in CallIds : id # x => calls'[id] = calls[id],
           calls'[x].is_synchronous = calls[x].is_synchronous
    PROVE  /\ SameSender(x) /\ Moves(x, c, n, a, b)
           /\ PlaceInv(x)' /\ Known(x)' /\ CallCounts(x)' => CallInv'
<1> DEFINE g == [Top(t) EXCEPT !.at = b]
<1>1. /\ Top(t) \in IrqFrames /\ Top(t).at = a /\ stack[t] # <<>>
      /\ n \in Nat \ {0} /\ Top(t) = stack[t][n]
      /\ c \in Cpus /\ running[c] = t
      /\ \A k \in Cpus : running[k] = t => k = c
      /\ x \in CallIds /\ Top(t).msg = CallMessage(x)
  BY Zenon, RunningUser
<1>2. g.fn = "irq" /\ g.at = b /\ g.msg = CallMessage(x) /\ Top(t).fn = "irq"
  BY Zenon, <1>1 DEF IrqFrames
<1>3. stack' = Update(t, g)
  BY Zenon, Going
<1> HIDE DEF g
<1>4. Replaced(stack', t, g)
  BY Zenon, <1>1, <1>3, Updating DEF IInv
<1>5. n \in 1 .. n
  BY <1>1
<1>6. /\ \A u \in Tasks : Len(stack'[u]) = Len(stack[u])
      /\ \A u \in Tasks : \A d \in 1 .. Len(stack[u]) :
            stack'[u][d] = IF u = t /\ d = n THEN g ELSE stack[u][d]
  BY Zenon, <1>4 DEF Replaced
<1>7. \A u \in Tasks : \A d \in 1 .. Len(stack[u]) :
          /\ u = t /\ d = n => stack'[u][d] = g /\ stack[u][d] = Top(t)
          /\ ~(u = t /\ d = n) => stack'[u][d] = stack[u][d]
  BY Zenon, <1>1, <1>6
<1>8. \A id : ~IsSender(g, id) /\ ~IsSender(stack[t][n], id)
  BY Zenon, <1>1, <1>2 DEF IsSender
<1>9. Becomes(t, n, g)
  BY Zenon, <1>6 DEF Becomes
<1>10. \A id \in CallIds : SenderFrames(id)
  BY Zenon, <1>9, <1>8, OtherFrames
<1>11. \A id \in CallIds : SameSender(id)
  BY Zenon, <1>10, SenderKept DEF IInv
<1>12. ASSUME NEW id \in CallIds, id # x PROVE SameUses(id)
  <2>1. CallMessage(id) # CallMessage(x)
    BY Zenon, <1>12 DEF CallMessage
  <2>2. ~IsUser(g, id) /\ ~IsUser(stack[t][n], id)
    BY Zenon, <1>1, <1>2, <2>1 DEF IsUser
  <2>3. UserFrames(id)
    BY Zenon, <1>9, <2>2, OtherFrames
  <2>4. QED
    BY Zenon, <2>3, UsersKept DEF IInv
<1>13. Moves(x, c, n, a, b)
  <2>1. \A e \in UsePcs : Uses(x, c, n, e) <=> e = a
    BY Zenon, <1>1, <1>2, <1>5 DEF Uses
  <2>2. \A e \in UsePcs : Uses(x, c, n, e)' <=> e = b
    <3>1. running'[c] = t /\ n \in 1 .. Len(stack'[t]) /\ n \in 1 .. Len(stack[t])
      BY Zenon, <1>1, <1>5, <1>6
    <3>2. stack'[t][n] = g
      BY Zenon, <1>7, <3>1
    <3>3. QED
      BY Zenon, <1>2, <3>1, <3>2 DEF Uses
  <2>3. ASSUME NEW k \in Cpus, NEW d \in Nat, NEW e \in UsePcs, ~(k = c /\ d = n)
        PROVE  Uses(x, k, d, e)' <=> Uses(x, k, d, e)
    <3>1. running[k] \in Tasks /\ ~(running[k] = t /\ d = n)
      <4>1. running[k] \in Tasks
        BY Zenon DEF IInv, TypeInv
      <4>2. QED
        BY Zenon, <1>1, <2>3, <4>1
    <3>2. QED
      BY Zenon, <1>6, <3>1 DEF Uses
  <2>4. QED
    BY Zenon, <2>1, <2>2, <2>3 DEF Moves
<1>14. CallFrameInv'
  <2>1. ASSUME NEW u \in Tasks, NEW d \in 1 .. Len(stack'[u])
        PROVE  CallFrameOk(u, d, stack'[u][d], running, ops, calls')
    <3>1. d \in 1 .. Len(stack[u]) /\ CallFrameOk(u, d, stack[u][d], running, ops, calls)
      BY Zenon, <1>6 DEF CallInv, CallFrameInv
    <3>2. CASE u = t /\ d = n
      <4>1. stack'[u][d] = g
        BY Zenon, <1>6, <3>1, <3>2
      <4>2. g.fn # "call" /\ \E k \in Cpus : running[k] = u
        BY Zenon, <1>1, <1>2, <3>2
      <4>3. QED
        BY Zenon, <1>1, <1>2, <4>1, <4>2 DEF CallFrameOk
    <3>3. CASE ~(u = t /\ d = n)
      <4>1. stack'[u][d] = stack[u][d]
        BY Zenon, <1>6, <3>1, <3>3
      <4>2. stack[u][d].fn = "call" => stack[u][d].id \in CallIds
        <5>1. stack[u][d] \in AllFrames
          BY Zenon, <3>1, SeqElement DEF IInv, TypeInv
        <5>2. QED
          BY Zenon, <5>1 DEF AllFrames, CallFrames, TlbFrames, IrqFrames
      <4>3. stack[u][d].fn = "call" => calls'[stack[u][d].id].is_synchronous = calls[stack[u][d].id].is_synchronous
        BY Zenon, <4>2
      <4>4. QED
        BY Zenon, <3>1, <4>1, <4>3 DEF CallFrameOk
    <3>4. QED
      BY Zenon, <3>2, <3>3
  <2>2. QED
    BY Zenon, <2>1 DEF CallFrameInv
<1>15. \A p \in Procs : ops[p] \in Nat /\ ops'[p] \in Nat /\ ops'[p] >= ops[p]
  BY BoundsAssumption DEF IInv, TypeInv
<1>16. ASSUME NEW id \in CallIds, id # x
       PROVE  PlaceInv(id)' /\ Known(id)' /\ CallCounts(id)'
  BY Zenon, <1>11, <1>12, <1>15, <1>16, SameQueue, CallKept
<1>17. RunningInv'
  BY Zenon DEF CallInv, RunningInv
<1>18. PlaceInv(x)' /\ Known(x)' /\ CallCounts(x)' => CallInv'
  BY Zenon, <1>14, <1>16, <1>17 DEF CallInv
<1>19. QED
  BY Zenon, <1>1, <1>11, <1>13, <1>18

LEMMA Lists ==
    ASSUME NEW id
    PROVE  Left(id) \in SUBSET Cpus /\ Open(id) \in SUBSET Cpus /\ Left(id) \subseteq Open(id)
BY Zenon DEF Left, Open

\* A call that a handler has was made, and is live while the handler is busy with it.
LEMMA UserKnown ==
    ASSUME CallInv, NEW id \in CallIds, NEW c \in Cpus, NEW n \in Nat, NEW a \in UsePcs, Uses(id, c, n, a)
    PROVE  /\ calls[id].state # "none" /\ ~(id[2] > ops[id[1]])
           /\ BusyAt(id, a) => calls[id].state = "live"
<1>1. Known(id) /\ CallCounts(id)
  BY Zenon DEF CallInv
<1>2. calls[id].state # "none" /\ ~(id[2] > ops[id[1]])
  BY Zenon, <1>1 DEF Known
<1>3. ASSUME BusyAt(id, a) PROVE calls[id].state = "live"
  <2>1. Busy(id, c, n)
    BY Zenon, <1>3, ReferFrames
  <2>2. c \in Open(id)
    BY Zenon, <2>1 DEF Open, Busy, Owes
  <2>3. QED
    BY Zenon, <1>1, <2>2 DEF CallCounts
<1>4. QED
  BY Zenon, <1>2, <1>3

\* What is known of it, after a move.
LEMMA MoveKnown ==
    ASSUME CallInv, NEW id \in CallIds, NEW c \in Cpus, NEW n \in Nat, NEW a \in UsePcs, NEW b, Moves(id, c, n, a, b),
           ops' = ops, calls'[id].state # "none"
    PROVE  Known(id)'
<1>1. Uses(id, c, n, a)
  BY Zenon DEF Moves
<1>2. ~(id[2] > ops[id[1]])
  BY Zenon, <1>1, UserKnown
<1>3. QED
  BY Zenon, <1>2 DEF Known

LEMMA MoveRan ==
    ASSUME NEW id \in CallIds, Ran(id), NEW c \in Cpus, NEW n \in Nat, NEW a \in UsePcs, NEW b, Moves(id, c, n, a, b),
           calls[id].executed \subseteq calls'[id].executed, b = "func" \/ b = "complete" => c \in calls'[id].executed
    PROVE  Ran(id)'
<1>1. "func" \in UsePcs /\ "complete" \in UsePcs
  BY Zenon DEF UsePcs
<1>2. QED
  BY Zenon, <1>1 DEF Ran, Moves

\* CopyMessage()
LEMMA CallsCopy ==
    ASSUME IInv, IInv', CallInv, NEW t \in Tasks, CopyMessage(t), Top(t).msg.tag # "tlb"
    PROVE  CallInv'
<1>1. PICK x, c, n : x = Top(t).msg.data /\ c = cpu_id(t) /\ n = Len(stack[t])
  BY Zenon
<1>2. /\ At(t, "irq", "copy") /\ stack' = Goto(t, "call") /\ running' = running /\ ops' = ops
      /\ message_queue' = message_queue /\ calls' = calls
  BY Zenon, <1>1 DEF CopyMessage
<1>3. "copy" \in UsePcs /\ "call" \in UsePcs
  BY Zenon DEF UsePcs
<1>4. x \in CallIds /\ c \in Cpus /\ n \in Nat
  BY Zenon, <1>1, <1>2, <1>3, RunningUser
<1>5. CallTypes' /\ CallTypes
  BY Zenon, <1>2 DEF CallInv, CallTypes
<1>6. SameSender(x) /\ Moves(x, c, n, "copy", "call") /\ (PlaceInv(x)' /\ Known(x)' /\ CallCounts(x)' => CallInv')
  BY Zenon, <1>1, <1>2, <1>3, <1>5, HandlerMoves
<1>7. ReferAt(x, "copy") /\ ReferAt(x, "call") /\ BusyAt(x, "copy") /\ BusyAt(x, "call")
  BY Zenon DEF ReferAt, BusyAt
<1>8. PlaceInv(x)' /\ Left(x)' = Left(x) /\ Open(x)' = Open(x)
  BY Zenon, <1>2, <1>3, <1>4, <1>6, <1>7, MoveSets
<1>9. calls[x].state # "none"
  BY Zenon, <1>3, <1>4, <1>6, UserKnown DEF Moves
<1>10. Known(x)'
  BY Zenon, <1>2, <1>3, <1>4, <1>6, <1>9, MoveKnown
<1>11. CallCounts(x)
  BY Zenon, <1>4 DEF CallInv
<1>12. Ran(x) => Ran(x)'
  BY Zenon, <1>2, <1>3, <1>4, <1>6, MoveRan
<1>13. CallCounts(x)'
  BY Zenon, <1>2, <1>6, <1>8, <1>11, <1>12 DEF CallCounts, SameSender
<1>14. QED
  BY Zenon, <1>6, <1>8, <1>10, <1>13

\* The fields of a call after it has changed.
LEMMA CallRecord ==
    ASSUME CallTypes, NEW x \in CallIds
    PROVE  /\ calls[x].state \in {"none", "live", "freed"} /\ calls[x].ref_count \in Nat
           /\ calls[x].is_synchronous \in BOOLEAN /\ calls[x].completed_count \in Nat
           /\ calls[x].executed \in SUBSET Cpus
BY Zenon DEF CallTypes

\* StartCall() of a synchronous call: func runs.
LEMMA CallsStartSync ==
    ASSUME IInv, IInv', CallInv, NEW t \in Tasks, StartCall(t), calls[Top(t).msg.data].is_synchronous
    PROVE  CallInv'
<1>1. PICK x, c, n : x = Top(t).msg.data /\ c = cpu_id(t) /\ n = Len(stack[t])
  BY Zenon
<1>2. /\ At(t, "irq", "call") /\ stack' = Goto(t, "func") /\ running' = running /\ ops' = ops
      /\ message_queue' = message_queue /\ calls' = [calls EXCEPT ![x].executed = @ \cup {c}]
  BY Zenon, <1>1 DEF StartCall
<1>3. "call" \in UsePcs /\ "func" \in UsePcs /\ "call" # "copy"
  BY Zenon DEF UsePcs
<1>4. x \in CallIds /\ c \in Cpus /\ n \in Nat
  BY Zenon, <1>1, <1>2, <1>3, RunningUser
<1>5. CallTypes
  BY Zenon DEF CallInv
<1>6. /\ CallTypes'
      /\ calls'[x] = [calls[x] EXCEPT !.executed = @ \cup {c}]
      /\ \A id \in CallIds : id # x => calls'[id] = calls[id]
  BY <1>2, <1>4, <1>5 DEF CallTypes
<1>7. /\ calls'[x].state = calls[x].state /\ calls'[x].ref_count = calls[x].ref_count
      /\ calls'[x].is_synchronous = calls[x].is_synchronous
      /\ calls'[x].completed_count = calls[x].completed_count
      /\ calls'[x].executed = calls[x].executed \cup {c}
  BY <1>4, <1>5, <1>6 DEF CallTypes
<1>8. SameSender(x) /\ Moves(x, c, n, "call", "func") /\ (PlaceInv(x)' /\ Known(x)' /\ CallCounts(x)' => CallInv')
  BY Zenon, <1>1, <1>2, <1>3, <1>6, <1>7, HandlerMoves
<1>9. ReferAt(x, "call") /\ ReferAt(x, "func") /\ BusyAt(x, "call") /\ BusyAt(x, "func")
  BY Zenon, <1>1 DEF ReferAt, BusyAt
<1>10. PlaceInv(x)' /\ Left(x)' = Left(x) /\ Open(x)' = Open(x) /\ c \in Open(x)
  BY Zenon, <1>2, <1>3, <1>4, <1>7, <1>8, <1>9, MoveSets
<1>11. calls[x].state # "none"
  BY Zenon, <1>3, <1>4, <1>8, UserKnown DEF Moves
<1>12. Known(x)'
  BY Zenon, <1>2, <1>3, <1>4, <1>7, <1>8, <1>11, MoveKnown
<1>13. CallCounts(x)
  BY Zenon, <1>4 DEF CallInv
<1>14. Ran(x) => Ran(x)'
  <2>1. calls[x].executed \subseteq calls'[x].executed /\ c \in calls'[x].executed
    BY Zenon, <1>7
  <2>2. QED
    BY Zenon, <1>3, <1>4, <1>8, <2>1, MoveRan
<1>15. calls'[x].executed \cup Open(x) = calls[x].executed \cup Open(x)
  BY Zenon, <1>7, <1>10
<1>16. CallCounts(x)'
  BY Zenon, <1>7, <1>8, <1>10, <1>13, <1>14, <1>15 DEF CallCounts, SameSender
<1>17. QED
  BY Zenon, <1>8, <1>10, <1>12, <1>16

\* The end of an asynchronous func, or its loop: the call is no longer used.
LEMMA CallsReturnAsync ==
    ASSUME IInv, IInv', CallInv, NEW t \in Tasks, FuncReturns(t) \/ FuncLoops(t), ~calls[Top(t).msg.data].is_synchronous
    PROVE  CallInv'
<1>1. PICK x, c, n : x = Top(t).msg.data /\ c = cpu_id(t) /\ n = Len(stack[t])
  BY Zenon
<1>2. /\ At(t, "irq", "func") /\ (stack' = Goto(t, "loop") \/ stack' = Goto(t, "forever")) /\ running' = running /\ ops' = ops
      /\ message_queue' = message_queue /\ calls' = calls
  BY Zenon, <1>1 DEF FuncReturns, FuncLoops
<1>3. PICK b \in {"loop", "forever"} : stack' = Goto(t, b)
  BY Zenon, <1>2
<1>4. /\ "func" \in UsePcs /\ b \notin UsePcs /\ b # "copy" /\ b # "call" /\ b # "func" /\ b # "complete"
      /\ "func" # "copy" /\ "func" # "call" /\ "func" # "complete"
  BY Zenon DEF UsePcs
<1>5. x \in CallIds /\ c \in Cpus /\ n \in Nat
  BY Zenon, <1>1, <1>2, <1>4, RunningUser
<1>6. CallTypes' /\ CallTypes
  BY Zenon, <1>2 DEF CallInv, CallTypes
<1>7. SameSender(x) /\ Moves(x, c, n, "func", b) /\ (PlaceInv(x)' /\ Known(x)' /\ CallCounts(x)' => CallInv')
  BY Zenon, <1>1, <1>2, <1>3, <1>4, <1>6, HandlerMoves
<1>8. ~ReferAt(x, "func") /\ ~ReferAt(x, b) /\ ~BusyAt(x, "func") /\ ~BusyAt(x, b)
  BY Zenon, <1>1, <1>4 DEF ReferAt, BusyAt
<1>9. PlaceInv(x)' /\ Left(x)' = Left(x) /\ Open(x)' = Open(x)
  BY Zenon, <1>2, <1>4, <1>5, <1>7, <1>8, MoveSets
<1>10. calls[x].state # "none"
  BY Zenon, <1>4, <1>5, <1>7, UserKnown DEF Moves
<1>11. Known(x)'
  BY Zenon, <1>2, <1>4, <1>5, <1>7, <1>10, MoveKnown
<1>12. CallCounts(x)
  BY Zenon, <1>5 DEF CallInv
<1>13. Ran(x) => Ran(x)'
  BY Zenon, <1>2, <1>4, <1>5, <1>7, MoveRan
<1>14. CallCounts(x)'
  BY Zenon, <1>2, <1>7, <1>9, <1>12, <1>13 DEF CallCounts, SameSender
<1>15. QED
  BY Zenon, <1>7, <1>9, <1>11, <1>14

-----------------------------------------------------------------------------
(* Senders. *)

\* The frame of a running sender.
LEMMA RunningSender ==
    ASSUME IInv, CallInv, NEW t \in Tasks, NEW a, At(t, "call", a)
    PROVE  /\ Top(t) \in CallFrames /\ Top(t).at = a /\ Top(t).id \in CallIds /\ stack[t] # <<>>
           /\ t \in Procs /\ Len(stack[t]) = 1 /\ Top(t) = stack[t][1] /\ Top(t).id = <<t, ops[t]>> /\ Top(t).id[1] = t
           /\ cpu_id(t) \in Cpus /\ running[cpu_id(t)] = t
           /\ \A c \in Cpus : running[c] = t => c = cpu_id(t)
           /\ Sends(Top(t).id) /\ SenderFrame(Top(t).id) = Top(t)
           /\ CallFrameOk(t, 1, Top(t), running, ops, calls)
<1>1. /\ Len(stack[t]) \in Nat \ {0} /\ Len(stack[t]) \in 1 .. Len(stack[t])
      /\ Top(t) = stack[t][Len(stack[t])] /\ Top(t) \in AllFrames /\ Top(t).fn = "call" /\ Top(t).at = a
      /\ cpu_id(t) \in Cpus /\ running[cpu_id(t)] = t
      /\ \A c \in Cpus : running[c] = t => c = cpu_id(t)
  BY Zenon, Running DEF IInv
<1>2. Top(t) \in CallFrames
  BY Zenon, <1>1 DEF AllFrames, TlbFrames, IrqFrames
<1>3. Top(t).id \in CallIds
  BY Zenon, <1>2 DEF CallFrames
<1>4. CallFrameOk(t, Len(stack[t]), Top(t), running, ops, calls)
  BY Zenon, <1>1 DEF CallInv, CallFrameInv
<1>5. t \in Procs /\ Len(stack[t]) = 1 /\ Top(t).id = <<t, ops[t]>>
  BY Zenon, <1>1, <1>4 DEF CallFrameOk
<1>6. Top(t).id[1] = t
  BY <1>5
<1>7. Sends(Top(t).id) /\ SenderFrame(Top(t).id) = Top(t)
  <2>1. Len(stack[t]) # 0
    BY Zenon, <1>1
  <2>2. QED
    BY Zenon, <1>1, <1>5, <1>6, <2>1 DEF Sends, SenderFrame
<1>8. QED
  BY Zenon, <1>1, <1>2, <1>3, <1>4, <1>5, <1>6, <1>7 DEF At

\* It goes on: what is left to show is about its call.
LEMMA SenderMoves ==
    ASSUME IInv, IInv', CallInv, NEW t \in Tasks, NEW a, At(t, "call", a), NEW g, stack' = Update(t, g),
           g.fn = "call", g.id = Top(t).id, g.broadcast = Top(t).broadcast, g.last = Top(t).last,
           g.at = "wait" => calls[Top(t).id].is_synchronous,
           NEW x, x = Top(t).id, running' = running, ops' = ops, calls' = calls,
           \A id \in CallIds : id # x => SamePosts(id)
    PROVE  /\ Sends(x)' /\ SenderFrame(x)' = g /\ Targets(x)' = Targets(x) /\ SameUses(x)
           /\ PlaceInv(x)' /\ Known(x)' /\ CallCounts(x)' => CallInv'
<1>1. /\ x \in CallIds /\ stack[t] # <<>> /\ Top(t).fn = "call"
      /\ t \in Procs /\ Len(stack[t]) = 1 /\ Top(t) = stack[t][1] /\ x = <<t, ops[t]>> /\ x[1] = t
      /\ Sends(x) /\ SenderFrame(x) = Top(t)
      /\ CallFrameOk(t, 1, Top(t), running, ops, calls)
  BY Zenon, RunningSender DEF At, Top
<1>2. /\ \A u \in Tasks : Len(stack'[u]) = Len(stack[u])
      /\ \A u \in Tasks : \A d \in 1 .. Len(stack[u]) : stack'[u][d] = IF u = t /\ d = 1 THEN g ELSE stack[u][d]
  <2>1. Replaced(stack', t, g)
    BY Zenon, <1>1, Updating DEF IInv
  <2>2. Becomes(t, Len(stack[t]), g)
    BY Zenon, <2>1 DEF Replaced, Becomes
  <2>3. Becomes(t, 1, g)
    BY Zenon, <1>1, <2>2
  <2>4. QED
    BY Zenon, <2>3 DEF Becomes
<1>3. Becomes(t, 1, g)
  BY Zenon, <1>2 DEF Becomes
<1>4. 1 \in 1 .. Len(stack[t]) /\ Len(stack'[t]) # 0
  BY <1>1, <1>2
<1>5. stack'[t][1] = g
  BY Zenon, <1>2, <1>4
<1>6. Sends(x)' /\ SenderFrame(x)' = g
  BY Zenon, <1>1, <1>4, <1>5 DEF Sends, SenderFrame
<1>7. Targets(x)' = Targets(x)
  BY Zenon, <1>1, <1>6 DEF Targets
<1>8. ASSUME NEW id \in CallIds PROVE SameUses(id)
  <2>1. UserFrames(id)
    <3>1. ~IsUser(g, id) /\ ~IsUser(stack[t][1], id)
      BY Zenon, <1>1 DEF IsUser
    <3>2. QED
      BY Zenon, <1>3, <3>1, OtherFrames
  <2>2. QED
    BY Zenon, <2>1, UsersKept DEF IInv
<1>9. ASSUME NEW id \in CallIds, id # x PROVE SameSender(id)
  <2>1. ~IsSender(g, id) /\ ~IsSender(stack[t][1], id)
    BY Zenon, <1>1, <1>9 DEF IsSender
  <2>2. SenderFrames(id)
    BY Zenon, <1>3, <2>1, OtherFrames
  <2>3. QED
    BY Zenon, <2>2, SenderKept DEF IInv
<1>10. CallFrameInv'
  <2>1. ASSUME NEW u \in Tasks, NEW d \in 1 .. Len(stack'[u])
        PROVE  CallFrameOk(u, d, stack'[u][d], running, ops, calls)
    <3>1. d \in 1 .. Len(stack[u]) /\ CallFrameOk(u, d, stack[u][d], running, ops, calls)
      BY Zenon, <1>2 DEF CallInv, CallFrameInv
    <3>2. CASE u = t /\ d = 1
      <4>1. g.fn # "irq"
        BY Zenon
      <4>2. CallFrameOk(t, 1, g, running, ops, calls)
        BY Zenon, <1>1, <4>1 DEF CallFrameOk
      <4>3. QED
        BY Zenon, <1>5, <3>2, <4>2
    <3>3. CASE ~(u = t /\ d = 1)
      BY Zenon, <1>2, <3>1, <3>3
    <3>4. QED
      BY Zenon, <3>2, <3>3
  <2>2. QED
    BY Zenon, <2>1 DEF CallFrameInv
<1>11. \A p \in Procs : ops[p] \in Nat /\ ops'[p] \in Nat /\ ops'[p] >= ops[p]
  BY BoundsAssumption DEF IInv, TypeInv
<1>12. ASSUME NEW id \in CallIds, id # x
       PROVE  PlaceInv(id)' /\ Known(id)' /\ CallCounts(id)'
  BY Zenon, <1>8, <1>9, <1>11, <1>12, CallKept
<1>13. CallTypes' /\ RunningInv'
  BY Zenon DEF CallInv, CallTypes, RunningInv
<1>14. PlaceInv(x)' /\ Known(x)' /\ CallCounts(x)' => CallInv'
  BY Zenon, <1>10, <1>12, <1>13 DEF CallInv
<1>15. QED
  BY Zenon, <1>1, <1>6, <1>7, <1>8, <1>14

\* A message on its way counts whether it is sent or not.
LEMMA CountsKept ==
    ASSUME CallInv, NEW x \in CallIds, calls' = calls, ops' = ops, SameUses(x),
           Sends(x), Sends(x)', SenderFrame(x)'.broadcast = SenderFrame(x).broadcast, Targets(x)' = Targets(x),
           \A c \in Cpus : Unsent(x, c)' \/ (\E i \in Nat : Posted(x, c, i)') <=>
                           Unsent(x, c) \/ (\E i \in Nat : Posted(x, c, i))
    PROVE  Known(x)' /\ CallCounts(x)'
<1>1. Known(x) /\ CallCounts(x)
  BY Zenon DEF CallInv
<1>2. "copy" \in UsePcs /\ "call" \in UsePcs /\ "func" \in UsePcs /\ "complete" \in UsePcs
  BY Zenon DEF UsePcs
<1>3. \A c \in Cpus : \A d \in Nat :
         /\ Uses(x, c, d, "complete")' <=> Uses(x, c, d, "complete")
         /\ Uses(x, c, d, "func")' <=> Uses(x, c, d, "func")
         /\ Refers(x, c, d)' <=> Refers(x, c, d)
  BY Zenon, <1>2 DEF SameUses, Refers
<1>4. \A c \in Cpus : Owes(x, c)' <=> Owes(x, c)
  BY Zenon, <1>3 DEF Owes
<1>5. Left(x)' = Left(x)
  BY Zenon, <1>4 DEF Left
<1>6. Open(x)' = Open(x)
  BY Zenon, <1>3, <1>4 DEF Open
<1>7. Known(x)'
  BY Zenon, <1>1 DEF Known, SameUses
<1>8. Ran(x)' <=> Ran(x)
  BY Zenon, <1>3 DEF Ran
<1>9. Awaited(SenderFrame(x)') = Awaited(SenderFrame(x))
  BY Zenon DEF Awaited
<1>10. CallCounts(x)'
  BY Zenon, <1>1, <1>5, <1>6, <1>8, <1>9 DEF CallCounts
<1>11. QED
  BY Zenon, <1>7, <1>10

\* One message goes from the loop of do_send_ipm() into a queue.
LEMMA CallsSend ==
    ASSUME IInv, IInv', CallInv, NEW t \in Tasks, SendMessage(t)
    PROVE  CallInv'
<1>1. PICK x, i0 : x = Top(t).id /\ i0 = Top(t).i
  BY Zenon
<1> DEFINE g == [Top(t) EXCEPT !.i = @ + 1]
<1>2. /\ At(t, "call", "send") /\ i0 <= Top(t).last /\ stack' = Update(t, g) /\ running' = running /\ ops' = ops
      /\ calls' = calls
      /\ message_queue' = IF Top(t).broadcast /\ i0 = cpu_id(t)
                          THEN message_queue
                          ELSE [message_queue EXCEPT ![i0] = Append(@, CallMessage(x))]
  BY Zenon, <1>1 DEF SendMessage
<1>3. /\ Top(t) \in CallFrames /\ Top(t).at = "send" /\ x \in CallIds
      /\ x[1] = t /\ Sends(x) /\ SenderFrame(x) = Top(t)
      /\ cpu_id(t) \in Cpus /\ running[cpu_id(t)] = t
      /\ \A c \in Cpus : running[c] = t => c = cpu_id(t)
  BY Zenon, <1>1, <1>2, RunningSender
<1>4. i0 \in Nat /\ Top(t).last \in Cpus
  BY Zenon, <1>1, <1>3 DEF CallFrames
<1>5. i0 \in Cpus
  BY <1>2, <1>4, NCpusAssumption DEF Cpus
<1>6. /\ g.fn = "call" /\ g.id = x /\ g.broadcast = Top(t).broadcast /\ g.last = Top(t).last /\ g.at = "send"
      /\ g.i = i0 + 1 /\ g.at # "wait"
  BY Zenon, <1>1, <1>3 DEF CallFrames
<1>7. CallMessage(x) \in Messages /\ \A id \in CallIds : id # x => CallMessage(id) # CallMessage(x)
  BY Zenon, <1>3 DEF CallMessage, Messages
<1> HIDE DEF g
<1>8. ASSUME NEW id \in CallIds, id # x PROVE SamePosts(id)
  <2>1. CASE message_queue' = message_queue
    BY Zenon, <2>1, SameQueue
  <2>2. CASE message_queue' = [message_queue EXCEPT ![i0] = Append(@, CallMessage(x))]
    <3>1. \A c \in Cpus : \A i \in Nat : Posted(id, c, i)' <=> Posted(id, c, i)
      BY Zenon, <1>5, <1>7, <1>8, <2>2, PostsAppend DEF IInv
    <3>2. QED
      BY Zenon, <3>1 DEF SamePosts
  <2>3. QED
    BY Zenon, <1>2, <2>1, <2>2
<1>9. /\ Sends(x)' /\ SenderFrame(x)' = g /\ Targets(x)' = Targets(x) /\ SameUses(x)
      /\ PlaceInv(x)' /\ Known(x)' /\ CallCounts(x)' => CallInv'
  BY Zenon, <1>1, <1>2, <1>6, <1>8, SenderMoves
<1>10. \A c \in Cpus :
         /\ Unsent(x, c) <=> i0 <= c /\ c <= Top(t).last /\ (Top(t).broadcast => running[c] # t)
         /\ Unsent(x, c)' <=> i0 + 1 <= c /\ c <= Top(t).last /\ (Top(t).broadcast => running[c] # t)
  BY Zenon, <1>2, <1>3, <1>6, <1>9, <1>1 DEF Unsent
<1>11. \A c \in Cpus : c # i0 => (Unsent(x, c)' <=> Unsent(x, c))
  <2>1. \A c \in Cpus : c # i0 => (i0 + 1 <= c <=> i0 <= c)
    BY <1>4, NCpusAssumption DEF Cpus
  <2>2. QED
    BY Zenon, <1>10, <2>1
<1>12. ~Unsent(x, i0)' /\ (Unsent(x, i0) <=> ~(Top(t).broadcast /\ i0 = cpu_id(t)))
  <2>1. ~(i0 + 1 <= i0) /\ i0 <= i0
    BY <1>4
  <2>2. QED
    BY Zenon, <1>2, <1>3, <1>5, <1>10, <2>1
<1>13. \A c \in Cpus : \A d \in Nat : Busy(x, c, d)' <=> Busy(x, c, d)
  <2>1. "copy" \in UsePcs /\ "call" \in UsePcs /\ "func" \in UsePcs /\ "complete" \in UsePcs
    BY Zenon DEF UsePcs
  <2>2. QED
    BY Zenon, <1>2, <1>9, <2>1 DEF SameUses, Refers, Busy
<1>14. \A c \in Cpus : \A d \in Nat : Uses(x, c, d, "complete")' => calls'[x].is_synchronous
  <2>1. "complete" \in UsePcs
    BY Zenon DEF UsePcs
  <2>2. QED
    BY Zenon, <1>2, <1>3, <1>9, <2>1 DEF SameUses, CallInv, PlaceInv
<1>15. PlaceInv(x)
  BY Zenon, <1>3 DEF CallInv
<1>16. /\ PlaceInv(x)'
       /\ \A c \in Cpus : Unsent(x, c)' \/ (\E i \in Nat : Posted(x, c, i)') <=>
                           Unsent(x, c) \/ (\E i \in Nat : Posted(x, c, i))
  <2>1. CASE Top(t).broadcast /\ i0 = cpu_id(t)
    <3>1. \A c \in Cpus : \A i \in Nat : Posted(x, c, i)' <=> Posted(x, c, i)
      BY Zenon, <1>2, <2>1 DEF Posted
    <3>2. \A c \in Cpus : Unsent(x, c)' <=> Unsent(x, c)
      BY Zenon, <1>11, <1>12, <2>1
    <3>3. PlaceInv(x)'
      BY Zenon, <1>13, <1>14, <1>15, <3>1, <3>2 DEF PlaceInv
    <3>4. QED
      BY Zenon, <3>1, <3>2, <3>3
  <2>2. CASE ~(Top(t).broadcast /\ i0 = cpu_id(t))
    <3>1. PICK k \in Nat :
             /\ \A e \in Cpus : e # i0 => \A i \in Nat : Posted(x, e, i)' <=> Posted(x, e, i)
             /\ \A i \in Nat : Posted(x, i0, i)' <=> Posted(x, i0, i) \/ i = k
      BY ZenonT(30), <1>2, <1>5, <1>7, <2>2, PostsAppend DEF IInv
    <3>2. Unsent(x, i0) /\ ~Unsent(x, i0)'
      BY Zenon, <1>12, <2>2
    <3>3. (\A i \in Nat : ~Posted(x, i0, i)) /\ (\A d \in Nat : ~Busy(x, i0, d))
      BY Zenon, <1>5, <1>15, <3>2 DEF PlaceInv
    <3>4. \A i \in Nat : Posted(x, i0, i)' <=> i = k
      BY Zenon, <3>1, <3>3
    <3>5. ASSUME NEW c \in Cpus, NEW i \in Nat, Posted(x, c, i)'
          PROVE  /\ ~Unsent(x, c)'
                 /\ \A j \in Nat : Posted(x, c, j)' => i = j
                 /\ \A d \in Nat : ~Busy(x, c, d)'
      <4>1. CASE c = i0
        BY Zenon, <1>13, <3>2, <3>3, <3>4, <3>5, <4>1
      <4>2. CASE c # i0
        BY Zenon, <1>11, <1>13, <1>15, <3>1, <3>5, <4>2 DEF PlaceInv
      <4>3. QED
        BY Zenon, <4>1, <4>2
    <3>6. \A c \in Cpus : Unsent(x, c)' => Unsent(x, c)
      BY Zenon, <1>11, <3>2
    <3>7. PlaceInv(x)'
      BY Zenon, <1>13, <1>14, <1>15, <3>5, <3>6 DEF PlaceInv
    <3>8. \A c \in Cpus : Unsent(x, c)' \/ (\E i \in Nat : Posted(x, c, i)') <=>
                           Unsent(x, c) \/ (\E i \in Nat : Posted(x, c, i))
      BY Zenon, <1>5, <1>11, <3>1, <3>2, <3>4
    <3>9. QED
      BY Zenon, <3>7, <3>8
  <2>3. QED
    BY Zenon, <2>1, <2>2
<1>17. Known(x)' /\ CallCounts(x)'
  BY Zenon, <1>2, <1>3, <1>6, <1>9, <1>16, CountsKept
<1>18. QED
  BY Zenon, <1>9, <1>16, <1>17

\* The sender waits.
LEMMA CallsIpiSync ==
    ASSUME IInv, IInv', CallInv, NEW t \in Tasks, SendCallIpi(t), calls[Top(t).id].is_synchronous
    PROVE  CallInv'
<1>1. PICK x : x = Top(t).id
  BY Zenon
<1> DEFINE g == [Top(t) EXCEPT !.at = "wait"]
<1>2. /\ At(t, "call", "send") /\ Top(t).i > Top(t).last /\ stack' = Goto(t, "wait") /\ running' = running /\ ops' = ops
      /\ calls' = calls /\ message_queue' = message_queue
  BY Zenon DEF SendCallIpi
<1>3. /\ Top(t) \in CallFrames /\ Top(t).at = "send" /\ x \in CallIds
      /\ x[1] = t /\ Sends(x) /\ SenderFrame(x) = Top(t)
  BY ZenonT(30), <1>1, <1>2, RunningSender
<1>4. Top(t).i \in Nat /\ Top(t).last \in Cpus
  BY Zenon, <1>3 DEF CallFrames
<1>5. /\ g.fn = "call" /\ g.id = x /\ g.broadcast = Top(t).broadcast /\ g.last = Top(t).last /\ g.at = "wait"
      /\ g.at # "send"
  BY Zenon, <1>1, <1>3 DEF CallFrames
<1>6. stack' = Update(t, g)
  BY Zenon, <1>2, Going
<1>7. \A id : SamePosts(id)
  BY Zenon, <1>2, SameQueue
<1> HIDE DEF g
<1>8. /\ Sends(x)' /\ SenderFrame(x)' = g /\ Targets(x)' = Targets(x) /\ SameUses(x)
      /\ PlaceInv(x)' /\ Known(x)' /\ CallCounts(x)' => CallInv'
  BY Zenon, <1>1, <1>2, <1>5, <1>6, <1>7, SenderMoves
<1>9. \A c \in Cpus : ~Unsent(x, c) /\ ~Unsent(x, c)'
  <2>1. \A c \in Cpus : ~(Top(t).i <= c /\ c <= Top(t).last)
    BY <1>2, <1>4, NCpusAssumption DEF Cpus
  <2>2. QED
    BY Zenon, <1>3, <1>5, <1>8, <2>1 DEF Unsent
<1>10. \A c \in Cpus : \A i \in Nat : Posted(x, c, i)' <=> Posted(x, c, i)
  BY Zenon, <1>2 DEF Posted
<1>11. "copy" \in UsePcs /\ "call" \in UsePcs /\ "func" \in UsePcs /\ "complete" \in UsePcs
  BY Zenon DEF UsePcs
<1>12. \A c \in Cpus : \A d \in Nat :
          (Busy(x, c, d)' <=> Busy(x, c, d)) /\ (Uses(x, c, d, "complete")' <=> Uses(x, c, d, "complete"))
  BY Zenon, <1>2, <1>8, <1>11 DEF SameUses, Refers, Busy
<1>13. PlaceInv(x)'
  <2>1. PlaceInv(x)
    BY Zenon, <1>3 DEF CallInv
  <2>2. QED
    BY Zenon, <1>2, <1>9, <1>10, <1>12, <2>1 DEF PlaceInv
<1>14. Known(x)' /\ CallCounts(x)'
  BY Zenon, <1>2, <1>3, <1>5, <1>8, <1>9, <1>10, CountsKept
<1>15. QED
  BY Zenon, <1>8, <1>13, <1>14

\* The only frame of task t is gone: other calls do not see it.
LEMMA GoneFrame ==
    ASSUME TypeInv, NEW t \in Tasks, stack[t] # <<>>, Len(stack[t]) = 1, stack' = Pop(t), NEW id
    PROVE  /\ Len(stack'[t]) = 0
           /\ \A u \in Tasks : u # t => Len(stack'[u]) = Len(stack[u])
           /\ \A u \in Tasks : \A d \in 1 .. Len(stack'[u]) : d \in 1 .. Len(stack[u]) /\ stack'[u][d] = stack[u][d]
           /\ ~IsSender(stack[t][1], id) => SenderFrames(id)
           /\ ~IsUser(stack[t][1], id) => UserFrames(id)
<1>1. Popped(t)
  BY Zenon, Popping
<1>2. Len(stack'[t]) = Len(stack[t]) - 1
  BY Zenon, <1>1 DEF Popped
<1>3. Len(stack'[t]) = 0 /\ \A d \in Nat : d \notin 1 .. Len(stack'[t]) /\ (d \in 1 .. Len(stack[t]) => d = 1)
  BY <1>2
<1>4. \A u \in Tasks : u # t => Len(stack'[u]) = Len(stack[u])
  BY Zenon, <1>1 DEF Popped
<1>5. \A d \in 1 .. Len(stack'[t]) : d \in Nat
  BY <1>3
<1>6. \A u \in Tasks : \A d \in 1 .. Len(stack'[u]) : d \in 1 .. Len(stack[u]) /\ stack'[u][d] = stack[u][d]
  BY Zenon, <1>1, <1>3, <1>4, <1>5 DEF Popped
<1>7. \A u \in Tasks : \A d \in Nat : d \in 1 .. Len(stack[u]) => d \in 1 .. Len(stack'[u]) \/ (u = t /\ d = 1)
  BY Zenon, <1>3, <1>4
<1>8. ASSUME ~IsSender(stack[t][1], id) PROVE SenderFrames(id)
  BY Zenon, <1>6, <1>7, <1>8 DEF SenderFrames
<1>9. ASSUME ~IsUser(stack[t][1], id) PROVE UserFrames(id)
  BY Zenon, <1>6, <1>7, <1>9 DEF UserFrames
<1>10. QED
  BY Zenon, <1>3, <1>4, <1>6, <1>8, <1>9

\* The sender returns: an asynchronous one, or one whose call is freed.
LEMMA SenderReturns ==
    ASSUME IInv, IInv', CallInv, NEW t \in Tasks, NEW a, At(t, "call", a), stack' = Pop(t),
           NEW x, x = Top(t).id, running' = running, ops' = ops, message_queue' = message_queue, CallTypes',
           \A id \in CallIds : id # x => calls'[id] = calls[id],
           calls'[x].is_synchronous = calls[x].is_synchronous,
           \A c \in Cpus : ~Unsent(x, c), calls'[x].state = "none" => calls[x].state = "none",
           CallCounts(x)'
    PROVE  CallInv'
<1>1. /\ x \in CallIds /\ stack[t] # <<>> /\ Top(t).fn = "call"
      /\ t \in Procs /\ Len(stack[t]) = 1 /\ Top(t) = stack[t][1] /\ x = <<t, ops[t]>> /\ x[1] = t
  BY Zenon, RunningSender DEF At, Top
<1>2. /\ Len(stack'[t]) = 0
      /\ \A u \in Tasks : u # t => Len(stack'[u]) = Len(stack[u])
      /\ \A u \in Tasks : \A d \in 1 .. Len(stack'[u]) : d \in 1 .. Len(stack[u]) /\ stack'[u][d] = stack[u][d]
      /\ \A id : ~IsSender(stack[t][1], id) => SenderFrames(id)
      /\ \A id : ~IsUser(stack[t][1], id) => UserFrames(id)
  BY Zenon, <1>1, GoneFrame DEF IInv
<1>3. ASSUME NEW id \in CallIds PROVE SameUses(id)
  <2>1. ~IsUser(stack[t][1], id)
    BY Zenon, <1>1 DEF IsUser
  <2>2. UserFrames(id)
    BY Zenon, <1>2, <2>1
  <2>3. QED
    BY Zenon, <2>2, UsersKept DEF IInv
<1>4. ASSUME NEW id \in CallIds, id # x PROVE SameSender(id)
  <2>1. ~IsSender(stack[t][1], id)
    BY Zenon, <1>1, <1>4 DEF IsSender
  <2>2. SenderFrames(id)
    BY Zenon, <1>2, <2>1
  <2>3. QED
    BY Zenon, <2>2, SenderKept DEF IInv
<1>5. CallFrameInv'
  <2>1. ASSUME NEW u \in Tasks, NEW d \in 1 .. Len(stack'[u])
        PROVE  CallFrameOk(u, d, stack'[u][d], running, ops, calls')
    <3>1. d \in 1 .. Len(stack[u]) /\ stack'[u][d] = stack[u][d]
      BY Zenon, <1>2
    <3>2. CallFrameOk(u, d, stack[u][d], running, ops, calls)
      BY Zenon, <3>1 DEF CallInv, CallFrameInv
    <3>3. stack[u][d].fn = "call" => stack[u][d].id \in CallIds
      <4>1. stack[u][d] \in AllFrames
        BY Zenon, <3>1, SeqElement DEF IInv, TypeInv
      <4>2. QED
        BY Zenon, <4>1 DEF AllFrames, CallFrames, TlbFrames, IrqFrames
    <3>4. stack[u][d].fn = "call" => calls'[stack[u][d].id].is_synchronous = calls[stack[u][d].id].is_synchronous
      BY Zenon, <3>3
    <3>5. QED
      BY Zenon, <3>1, <3>2, <3>4 DEF CallFrameOk
  <2>2. QED
    BY Zenon, <2>1 DEF CallFrameInv
<1>6. \A p \in Procs : ops[p] \in Nat /\ ops'[p] \in Nat /\ ops'[p] >= ops[p]
  BY BoundsAssumption DEF IInv, TypeInv
<1>7. ASSUME NEW id \in CallIds, id # x
      PROVE  PlaceInv(id)' /\ Known(id)' /\ CallCounts(id)'
  BY Zenon, <1>3, <1>4, <1>6, <1>7, SameQueue, CallKept
<1>8. ~Sends(x)' /\ \A c \in Cpus : ~Unsent(x, c)'
  BY Zenon, <1>1, <1>2 DEF Sends, Unsent
<1>9. "copy" \in UsePcs /\ "call" \in UsePcs /\ "func" \in UsePcs /\ "complete" \in UsePcs
  BY Zenon DEF UsePcs
<1>10. \A c \in Cpus : \A d \in Nat :
          (Busy(x, c, d)' <=> Busy(x, c, d)) /\ (Uses(x, c, d, "complete")' <=> Uses(x, c, d, "complete"))
  BY Zenon, <1>1, <1>3, <1>9 DEF SameUses, Refers, Busy
<1>11. \A c \in Cpus : \A i \in Nat : Posted(x, c, i)' <=> Posted(x, c, i)
  BY Zenon DEF Posted
<1>12. PlaceInv(x)' /\ Known(x)'
  <2>1. PlaceInv(x) /\ Known(x)
    BY Zenon, <1>1 DEF CallInv
  <2>2. PlaceInv(x)'
    BY Zenon, <1>8, <1>10, <1>11, <2>1 DEF PlaceInv
  <2>3. ~(x[2] > ops[x[1]])
    <3>1. x[2] = ops[t] /\ ops[t] \in Nat
      BY <1>1, <1>6
    <3>2. QED
      BY <1>1, <3>1
  <2>4. Known(x)'
    BY Zenon, <1>1, <1>3, <2>1, <2>3 DEF Known, SameUses
  <2>5. QED
    BY Zenon, <2>2, <2>4
<1>13. RunningInv'
  BY Zenon DEF CallInv, RunningInv
<1>14. QED
  BY Zenon, <1>5, <1>7, <1>12, <1>13 DEF CallInv

\* What is on the lists of its call is there afterwards.
LEMMA ReturnLists ==
    ASSUME IInv, IInv', CallInv, NEW t \in Tasks, NEW a, At(t, "call", a), stack' = Pop(t),
           NEW x, x = Top(t).id, running' = running, message_queue' = message_queue,
           calls'[x].is_synchronous = calls[x].is_synchronous,
           \A c \in Cpus : ~Unsent(x, c)
    PROVE  Left(x)' = Left(x) /\ Open(x)' = Open(x) /\ ~Sends(x)'
<1>1. x \in CallIds /\ stack[t] # <<>> /\ Top(t).fn = "call" /\ Len(stack[t]) = 1 /\ Top(t) = stack[t][1] /\ x[1] = t
  BY Zenon, RunningSender DEF At, Top
<1>2. /\ Len(stack'[t]) = 0
      /\ \A u \in Tasks : u # t => Len(stack'[u]) = Len(stack[u])
      /\ \A u \in Tasks : \A d \in 1 .. Len(stack'[u]) : d \in 1 .. Len(stack[u]) /\ stack'[u][d] = stack[u][d]
      /\ \A id : ~IsSender(stack[t][1], id) => SenderFrames(id)
      /\ \A id : ~IsUser(stack[t][1], id) => UserFrames(id)
  BY Zenon, <1>1, GoneFrame DEF IInv
<1>3. SameUses(x)
  <2>1. ~IsUser(stack[t][1], x)
    BY Zenon, <1>1 DEF IsUser
  <2>2. UserFrames(x)
    BY Zenon, <1>2, <2>1
  <2>3. QED
    BY Zenon, <1>1, <2>2, UsersKept DEF IInv
<1>4. ~Sends(x)' /\ \A c \in Cpus : ~Unsent(x, c)'
  BY Zenon, <1>1, <1>2 DEF Sends, Unsent
<1>5. "copy" \in UsePcs /\ "call" \in UsePcs /\ "func" \in UsePcs /\ "complete" \in UsePcs
  BY Zenon DEF UsePcs
<1>6. \A c \in Cpus : \A d \in Nat :
          (Refers(x, c, d)' <=> Refers(x, c, d)) /\ (Uses(x, c, d, "complete")' <=> Uses(x, c, d, "complete"))
  BY Zenon, <1>3, <1>5 DEF SameUses, Refers
<1>7. \A c \in Cpus : \A i \in Nat : Posted(x, c, i)' <=> Posted(x, c, i)
  BY Zenon DEF Posted
<1>8. \A c \in Cpus : Owes(x, c)' <=> Owes(x, c)
  BY Zenon, <1>4, <1>6, <1>7 DEF Owes
<1>9. QED
  BY Zenon, <1>4, <1>6, <1>8 DEF Left, Open

\* exec_remote_call() of an asynchronous call returns.
LEMMA CallsIpiAsync ==
    ASSUME IInv, IInv', CallInv, NEW t \in Tasks, SendCallIpi(t), ~calls[Top(t).id].is_synchronous
    PROVE  CallInv'
<1>1. PICK x : x = Top(t).id
  BY Zenon
<1>2. /\ At(t, "call", "send") /\ Top(t).i > Top(t).last /\ stack' = Pop(t) /\ running' = running /\ ops' = ops
      /\ calls' = calls /\ message_queue' = message_queue
  BY Zenon DEF SendCallIpi, Return
<1>3. /\ Top(t) \in CallFrames /\ x \in CallIds /\ SenderFrame(x) = Top(t)
  BY Zenon, <1>1, <1>2, RunningSender
<1>4. Top(t).i \in Nat /\ Top(t).last \in Cpus
  BY Zenon, <1>3 DEF CallFrames
<1>5. \A c \in Cpus : ~Unsent(x, c)
  <2>1. \A c \in Cpus : ~(Top(t).i <= c /\ c <= Top(t).last)
    BY <1>2, <1>4, NCpusAssumption DEF Cpus
  <2>2. QED
    BY Zenon, <1>3, <2>1 DEF Unsent
<1>6. Left(x)' = Left(x) /\ Open(x)' = Open(x)
  BY Zenon, <1>1, <1>2, <1>5, ReturnLists
<1>7. CallCounts(x)'
  <2>1. CallCounts(x) /\ ~calls[x].is_synchronous
    BY Zenon, <1>1, <1>3 DEF CallInv
  <2>2. QED
    BY Zenon, <1>2, <1>6, <2>1 DEF CallCounts
<1>8. CallTypes'
  BY Zenon, <1>2 DEF CallInv, CallTypes
<1>9. QED
  BY Zenon, <1>1, <1>2, <1>5, <1>7, <1>8, SenderReturns

\* A handler takes the message of a call.
LEMMA CallsTake ==
    ASSUME IInv, IInv', CallInv, NEW t \in Tasks, TakeMessage(t), Head(message_queue[cpu_id(t)]).tag # "tlb"
    PROVE  CallInv'
<1>1. PICK c, n : c = cpu_id(t) /\ n = Len(stack[t])
  BY Zenon
<1> DEFINE q == message_queue[c]
           g == [Top(t) EXCEPT !.at = "copy", !.msg = Head(q)]
<1>2. /\ At(t, "irq", "loop") /\ q # <<>> /\ message_queue' = [message_queue EXCEPT ![c] = Tail(@)]
      /\ stack' = Update(t, g) /\ running' = running /\ ops' = ops /\ calls' = calls
  BY Zenon, <1>1 DEF TakeMessage
<1>3. /\ n \in Nat \ {0} /\ n \in 1 .. n /\ Top(t) = stack[t][n] /\ Top(t) \in AllFrames /\ Top(t).fn = "irq" /\ Top(t).at = "loop"
      /\ c \in Cpus /\ running[c] = t /\ \A k \in Cpus : running[k] = t => k = c
  <2>1. /\ Len(stack[t]) \in Nat \ {0} /\ Len(stack[t]) \in 1 .. Len(stack[t])
        /\ Top(t) = stack[t][Len(stack[t])] /\ Top(t) \in AllFrames /\ Top(t).fn = "irq" /\ Top(t).at = "loop"
        /\ cpu_id(t) \in Cpus /\ running[cpu_id(t)] = t
        /\ \A k \in Cpus : running[k] = t => k = cpu_id(t)
    BY Zenon, <1>2, Running DEF IInv
  <2>2. QED
    BY Zenon, <1>1, <2>1
<1>4. q \in Seq(Messages)
  BY Zenon, <1>3 DEF IInv, TypeInv
<1>5. /\ Head(q) = q[1] /\ Head(q) \in Messages /\ Len(q) \in Nat \ {0} /\ Len(Tail(q)) = Len(q) - 1
      /\ \A i \in 1 .. Len(q) - 1 : Tail(q)[i] = q[i + 1]
  <2>1. Len(q) \in Nat \ {0}
    BY Zenon, <1>2, <1>4, SeqElement
  <2>2. QED
    BY Zenon, <1>2, <1>4, <2>1, SeqHeadTail
<1>6. PICK x \in CallIds : Head(q) = CallMessage(x)
  <2>1. Head(q).tag # "tlb"
    BY Zenon, <1>1
  <2>2. QED
    BY Zenon, <1>5, <2>1 DEF Messages, CallMessage
<1>7. g.fn = "irq" /\ g.at = "copy" /\ g.msg = CallMessage(x)
  <2>1. Top(t) \in IrqFrames
    BY Zenon, <1>3 DEF AllFrames, TlbFrames, CallFrames
  <2>2. QED
    BY Zenon, <1>6, <2>1 DEF IrqFrames
<1> HIDE DEF g
<1>8. /\ \A u \in Tasks : Len(stack'[u]) = Len(stack[u])
      /\ \A u \in Tasks : \A d \in 1 .. Len(stack[u]) : stack'[u][d] = IF u = t /\ d = n THEN g ELSE stack[u][d]
  <2>1. Replaced(stack', t, g)
    BY Zenon, <1>2, Updating DEF IInv, At
  <2>2. QED
    BY Zenon, <1>1, <2>1 DEF Replaced
<1>9. Becomes(t, n, g)
  BY Zenon, <1>8 DEF Becomes
<1>10. \A id \in CallIds : ~IsSender(g, id) /\ ~IsSender(stack[t][n], id) /\ ~IsUser(stack[t][n], id) /\ (IsUser(g, id) => id = x)
  BY <1>3, <1>7 DEF IsSender, IsUser, UsePcs, CallMessage
<1>11. /\ message_queue'[c] = Tail(q)
      /\ \A e \in Cpus : e # c => message_queue'[e] = message_queue[e]
  BY Zenon, <1>2, <1>3 DEF IInv, TypeInv
<1>12. \A id \in CallIds : id # x => Head(q) # CallMessage(id)
  BY <1>6 DEF CallMessage
<1>13. \A id \in CallIds : id # x => SamePosts(id)
  BY Zenon, <1>1, <1>2, <1>3, <1>12, PostsTail DEF IInv
<1>14. \A i \in Nat : Posted(x, c, i)' => i + 1 \in Nat /\ i + 1 # 1 /\ Posted(x, c, i + 1)
  BY <1>5, <1>11 DEF Posted
<1>15. Posted(x, c, 1) /\ 1 \in Nat
  BY <1>5, <1>6 DEF Posted
<1> HIDE DEF q
<1>16. \A id \in CallIds : SameSender(id)
  <2>1. \A id \in CallIds : SenderFrames(id)
    BY Zenon, <1>9, <1>10, OtherFrames
  <2>2. QED
    BY Zenon, <1>2, <2>1, SenderKept DEF IInv
<1>17. ASSUME NEW id \in CallIds, id # x PROVE SameUses(id)
  <2>1. UserFrames(id)
    BY Zenon, <1>9, <1>10, <1>17, OtherFrames
  <2>2. QED
    BY Zenon, <1>2, <2>1, UsersKept DEF IInv
<1>18. PlaceInv(x) /\ Known(x) /\ CallCounts(x)
  BY Zenon DEF CallInv
<1>19. ~Unsent(x, c) /\ (\A i \in Nat : Posted(x, c, i) => i = 1) /\ \A d \in Nat : ~Busy(x, c, d)
  BY Zenon, <1>3, <1>15, <1>18 DEF PlaceInv
<1>20. (\A i \in Nat : ~Posted(x, c, i)') /\ \A k \in Cpus : k # c => \A i \in Nat : Posted(x, k, i)' <=> Posted(x, k, i)
  <2>1. \A i \in Nat : ~Posted(x, c, i)'
    BY Zenon, <1>14, <1>19
  <2>2. QED
    BY Zenon, <1>11, <2>1 DEF Posted
<1>21. /\ Uses(x, c, n, "copy")' /\ \A a \in UsePcs : Uses(x, c, n, a)' => a = "copy"
       /\ \A a \in UsePcs : ~Uses(x, c, n, a)
       /\ \A k \in Cpus : \A d \in Nat : \A a \in UsePcs :
             ~(k = c /\ d = n) => (Uses(x, k, d, a)' <=> Uses(x, k, d, a))
  <2>1. Uses(x, c, n, "copy")' /\ \A a \in UsePcs : Uses(x, c, n, a)' => a = "copy"
    BY Zenon, <1>1, <1>2, <1>3, <1>7, <1>8 DEF Uses
  <2>2. \A a \in UsePcs : ~Uses(x, c, n, a)
    <3>1. "loop" \notin UsePcs
      BY Zenon DEF UsePcs
    <3>2. QED
      BY Zenon, <1>3, <3>1 DEF Uses
  <2>3. ASSUME NEW k \in Cpus, NEW d \in Nat, NEW a \in UsePcs, ~(k = c /\ d = n)
        PROVE  Uses(x, k, d, a)' <=> Uses(x, k, d, a)
    <3>1. running[k] \in Tasks
      BY Zenon DEF IInv, TypeInv
    <3>2. ~(running[k] = t /\ d = n)
      BY Zenon, <1>3, <2>3
    <3>3. QED
      BY Zenon, <1>2, <1>8, <3>1, <3>2 DEF Uses
  <2>4. QED
    BY Zenon, <2>1, <2>2, <2>3
<1>22. "copy" \in UsePcs /\ "call" \in UsePcs /\ "func" \in UsePcs /\ "complete" \in UsePcs /\ "copy" # "func" /\ "copy" # "complete"
  BY Zenon DEF UsePcs
<1>23. \A k \in Cpus : \A d \in Nat :
          /\ Busy(x, k, d)' <=> Busy(x, k, d) \/ (k = c /\ d = n)
          /\ Refers(x, k, d)' <=> Refers(x, k, d) \/ (k = c /\ d = n)
          /\ Uses(x, k, d, "complete")' <=> Uses(x, k, d, "complete")
          /\ Uses(x, k, d, "func")' <=> Uses(x, k, d, "func")
  <2>1. ASSUME NEW k \in Cpus, NEW d \in Nat, ~(k = c /\ d = n)
        PROVE  /\ (Busy(x, k, d)' <=> Busy(x, k, d)) /\ (Refers(x, k, d)' <=> Refers(x, k, d))
               /\ Uses(x, k, d, "complete")' <=> Uses(x, k, d, "complete")
               /\ Uses(x, k, d, "func")' <=> Uses(x, k, d, "func")
    BY Zenon, <1>2, <1>21, <1>22, <2>1 DEF Refers, Busy
  <2>2. /\ Busy(x, c, n)' /\ Refers(x, c, n)' /\ ~Uses(x, c, n, "complete")' /\ ~Uses(x, c, n, "complete")
        /\ ~Uses(x, c, n, "func")' /\ ~Uses(x, c, n, "func")
    BY Zenon, <1>21, <1>22 DEF Refers, Busy
  <2>3. QED
    BY Zenon, <2>1, <2>2
<1>24. \A k \in Cpus : Unsent(x, k)' <=> Unsent(x, k)
  BY Zenon, <1>16 DEF SameSender
<1>25. PlaceInv(x)'
  <2>1. ASSUME NEW k \in Cpus, NEW i \in Nat, Posted(x, k, i)'
        PROVE  /\ ~Unsent(x, k)'
               /\ \A j \in Nat : Posted(x, k, j)' => i = j
               /\ \A d \in Nat : ~Busy(x, k, d)'
    <3>1. k # c
      BY Zenon, <1>20, <2>1
    <3>2. /\ Posted(x, k, i) /\ (\A j \in Nat : Posted(x, k, j)' <=> Posted(x, k, j))
          /\ \A d \in Nat : Busy(x, k, d)' <=> Busy(x, k, d)
      BY Zenon, <1>20, <1>23, <2>1, <3>1
    <3>3. QED
      BY Zenon, <1>18, <1>24, <3>2 DEF PlaceInv
  <2>2. ASSUME NEW k \in Cpus, NEW d \in Nat, Busy(x, k, d)'
        PROVE  ~Unsent(x, k)' /\ \A e \in Nat : Busy(x, k, e)' => d = e
    <3>1. CASE k = c
      BY Zenon, <1>19, <1>23, <1>24, <2>2, <3>1
    <3>2. CASE k # c
      BY Zenon, <1>18, <1>23, <1>24, <2>2, <3>2 DEF PlaceInv
    <3>3. QED
      BY Zenon, <3>1, <3>2
  <2>3. \A k \in Cpus : \A d \in Nat : Uses(x, k, d, "complete")' => calls'[x].is_synchronous
    BY Zenon, <1>2, <1>18, <1>23 DEF PlaceInv
  <2>4. QED
    BY Zenon, <2>1, <2>2, <2>3 DEF PlaceInv
<1>26. \A k \in Cpus : Owes(x, k)' <=> Owes(x, k)
  <2>1. Owes(x, c)' /\ Owes(x, c)
    <3>1. n \in Nat
      BY Zenon, <1>3
    <3>2. QED
      BY Zenon, <1>3, <1>15, <1>23, <3>1 DEF Owes
  <2>2. ASSUME NEW k \in Cpus, k # c PROVE Owes(x, k)' <=> Owes(x, k)
    BY Zenon, <1>20, <1>23, <1>24, <2>2 DEF Owes
  <2>3. QED
    BY Zenon, <2>1, <2>2
<1>27. Left(x)' = Left(x) /\ Open(x)' = Open(x) /\ c \in Open(x)
  <2>1. Left(x)' = Left(x)
    BY Zenon, <1>26 DEF Left
  <2>2. Open(x)' = Open(x)
    BY Zenon, <1>23, <1>26 DEF Open
  <2>3. c \in Open(x)
    BY Zenon, <1>3, <1>15 DEF Open, Owes
  <2>4. QED
    BY Zenon, <2>1, <2>2, <2>3
<1>28. calls[x].state = "live"
  BY Zenon, <1>18, <1>27 DEF CallCounts
<1>29. Known(x)'
  <2>1. calls'[x].state # "none"
    BY Zenon, <1>2, <1>28
  <2>2. x[2] > ops'[x[1]] => calls'[x].state = "none"
    BY Zenon, <1>2, <1>18 DEF Known
  <2>3. QED
    BY Zenon, <2>1, <2>2 DEF Known
<1>30. CallCounts(x)'
  <2>1. Ran(x)' <=> Ran(x)
    BY Zenon, <1>2, <1>23 DEF Ran
  <2>2. QED
    BY Zenon, <1>2, <1>16, <1>18, <1>27, <2>1 DEF CallCounts, SameSender
<1>31. CallFrameInv'
  <2>1. ASSUME NEW u \in Tasks, NEW d \in 1 .. Len(stack'[u])
        PROVE  CallFrameOk(u, d, stack'[u][d], running, ops, calls)
    <3>1. d \in 1 .. Len(stack[u]) /\ CallFrameOk(u, d, stack[u][d], running, ops, calls)
      BY Zenon, <1>8 DEF CallInv, CallFrameInv
    <3>2. CASE u = t /\ d = n
      <4>1. stack'[u][d] = g /\ g.fn # "call" /\ \E k \in Cpus : running[k] = u
        BY SMTT(30), <1>3, <1>7, <1>8, <3>1, <3>2
      <4>2. QED
        BY Zenon, <1>7, <4>1 DEF CallFrameOk
    <3>3. CASE ~(u = t /\ d = n)
      BY Zenon, <1>8, <3>1, <3>3
    <3>4. QED
      BY Zenon, <3>2, <3>3
  <2>2. QED
    BY Zenon, <1>2, <2>1 DEF CallFrameInv
<1>32. \A p \in Procs : ops[p] \in Nat /\ ops'[p] \in Nat /\ ops'[p] >= ops[p]
  BY <1>2, BoundsAssumption DEF IInv, TypeInv
<1>33. ASSUME NEW id \in CallIds, id # x
       PROVE  PlaceInv(id)' /\ Known(id)' /\ CallCounts(id)'
  BY Zenon, <1>2, <1>13, <1>16, <1>17, <1>32, <1>33, CallKept
<1>34. CallTypes' /\ RunningInv'
  BY Zenon, <1>2 DEF CallInv, CallTypes, RunningInv
<1>35. QED
  BY Zenon, <1>25, <1>29, <1>30, <1>31, <1>33, <1>34 DEF CallInv

\* The context that broadcast_remote_call() needs.  It compares every cpu with a
\* fresh cpu_id(), so that its caller must not migrate, and an asynchronous
\* broadcast on a machine with one cpu has a reference count of 0 that nobody
\* decrements.
BroadcastContext == "broadcast" \in Kinds => ~Preemption /\ NCpus # 1

\* schedule() moves neither a broadcast nor a handler that has a message.
LEMMA CallsSchedule ==
    ASSUME BroadcastContext, IInv, IInv', CallInv, NEW c \in Cpus, Schedule(c)
    PROVE  CallInv'
<1>1. PICK t \in Tasks : (\A d \in Cpus : running[d] # t) /\ running' = [running EXCEPT ![c] = t]
  BY Zenon DEF Schedule, Tasks
<1>2. /\ Preemption /\ preemptible(running[c]) /\ stack' = Flushed(stack, c) /\ message_queue' = message_queue
      /\ calls' = calls /\ ops' = ops /\ "broadcast" \notin Kinds
  BY Zenon DEF Schedule, BroadcastContext
<1>3. /\ \A u \in Tasks : Len(stack'[u]) = Len(stack[u])
      /\ \A u \in Tasks : \A d \in 1 .. Len(stack[u]) : AfterFlush(stack'[u][d], stack[u][d], c)
  BY Zenon, <1>2, Flushing DEF IInv, TypeInv, Typed
<1>4. /\ running'[c] = t /\ running[c] \in Tasks
      /\ \A d \in Cpus : d # c => running'[d] = running[d]
  BY Zenon, <1>1 DEF IInv, TypeInv
<1>5. \A u \in Tasks : \A d \in 1 .. Len(stack[u]) :
         /\ stack[u][d].fn # "tlb" => stack'[u][d] = stack[u][d]
         /\ stack[u][d].fn = "tlb" => stack'[u][d].fn = "tlb"
  BY Zenon, <1>3 DEF AfterFlush
<1>6. \A u \in Tasks : \A d \in 1 .. Len(stack[u]) :
         stack[u][d].fn = "irq" /\ stack[u][d].at \in UsePcs =>
            u # running[c] /\ \E k \in Cpus : running[k] = u /\ running'[k] = u
  <2>1. ASSUME NEW u \in Tasks, NEW d \in 1 .. Len(stack[u]), stack[u][d].fn = "irq", stack[u][d].at \in UsePcs
        PROVE  u # running[c] /\ \E k \in Cpus : running[k] = u /\ running'[k] = u
    <3>1. stack[u][d].at \notin {"entry", "exit"}
      BY Zenon, <2>1 DEF UsePcs
    <3>2. u # running[c]
      BY Zenon, <1>2, <2>1, <3>1 DEF preemptible, depth
    <3>3. CallFrameOk(u, d, stack[u][d], running, ops, calls)
      BY Zenon DEF CallInv, CallFrameInv
    <3>4. PICK k \in Cpus : running[k] = u
      BY Zenon, <2>1, <3>3 DEF CallFrameOk
    <3>5. QED
      BY Zenon, <1>4, <3>2, <3>4
  <2>2. QED
    BY Zenon, <2>1
<1>7. CallFrameInv'
  <2>1. ASSUME NEW u \in Tasks, NEW d \in 1 .. Len(stack'[u])
        PROVE  CallFrameOk(u, d, stack'[u][d], running', ops, calls)
    <3>1. d \in 1 .. Len(stack[u]) /\ CallFrameOk(u, d, stack[u][d], running, ops, calls)
      BY Zenon, <1>3 DEF CallInv, CallFrameInv
    <3>2. CASE stack[u][d].fn = "tlb"
      <4>1. stack'[u][d].fn = "tlb"
        BY Zenon, <1>5, <3>1, <3>2
      <4>2. QED
        BY Zenon, <4>1 DEF CallFrameOk
    <3>3. CASE stack[u][d].fn # "tlb"
      <4>1. stack'[u][d] = stack[u][d]
        BY Zenon, <1>5, <3>1, <3>3
      <4>2. stack[u][d].fn = "irq" /\ stack[u][d].at \in UsePcs => \E k \in Cpus : running'[k] = u
        BY Zenon, <1>6, <3>1
      <4>3. CallFrameOk(u, d, stack[u][d], running', ops, calls)
        BY Zenon, <3>1, <4>2 DEF CallFrameOk
      <4>4. QED
        BY Zenon, <4>1, <4>3
    <3>4. QED
      BY Zenon, <3>2, <3>3
  <2>2. QED
    BY Zenon, <1>2, <2>1 DEF CallFrameInv
<1>8. ASSUME NEW id \in CallIds, NEW k \in Cpus, NEW d \in Nat, NEW a \in UsePcs
      PROVE  Uses(id, k, d, a)' <=> Uses(id, k, d, a)
  <2>1. CASE k = c
    <3>1. ~Uses(id, k, d, a)
      BY Zenon, <1>4, <1>6, <2>1 DEF Uses
    <3>2. ~Uses(id, k, d, a)'
      <4>1. SUFFICES ASSUME Uses(id, k, d, a)' PROVE FALSE
        BY Zenon
      <4>2. d \in 1 .. Len(stack[t]) /\ stack'[t][d].fn = "irq" /\ stack'[t][d].at = a
        BY Zenon, <1>3, <1>4, <2>1, <4>1 DEF Uses
      <4>3. stack'[t][d] = stack[t][d]
        <5>1. stack'[t][d].fn # "tlb"
          BY Zenon, <4>2
        <5>2. QED
          BY Zenon, <1>5, <4>2, <5>1
      <4>4. QED
        BY Zenon, <1>1, <1>6, <4>2, <4>3
    <3>3. QED
      BY Zenon, <3>1, <3>2
  <2>2. CASE k # c
    <3>1. running[k] \in Tasks /\ running'[k] = running[k]
      <4>1. running[k] \in Tasks
        BY Zenon DEF IInv, TypeInv
      <4>2. QED
        BY Zenon, <1>4, <2>2, <4>1
    <3>2. "irq" # "tlb"
      BY Zenon
    <3>3. QED
      BY ZenonT(30), <1>3, <1>5, <3>1, <3>2 DEF Uses
  <2>3. QED
    BY Zenon, <2>1, <2>2
<1>9. ASSUME NEW id \in CallIds PROVE SameSender(id)
  <2>1. id[1] \in Tasks
    BY Zenon, CallId
  <2>2. Len(stack[id[1]]) \in Nat /\ "call" # "tlb"
    BY <2>1 DEF IInv, TypeInv
  <2>3. Len(stack[id[1]]) # 0 => 1 \in 1 .. Len(stack[id[1]])
    BY <2>2
  <2>4. /\ Sends(id)' <=> Sends(id)
        /\ Sends(id) => SenderFrame(id)' = SenderFrame(id)
    BY Zenon, <1>3, <1>5, <2>1, <2>2, <2>3 DEF Sends, SenderFrame
  <2>5. Sends(id) => ~SenderFrame(id).broadcast
    <3>1. ASSUME Sends(id) PROVE ~SenderFrame(id).broadcast
      <4>1. CallFrameOk(id[1], 1, SenderFrame(id), running, ops, calls)
        BY Zenon, <2>1, <2>3, <3>1 DEF Sends, SenderFrame, CallInv, CallFrameInv
      <4>2. QED
        BY Zenon, <1>2, <3>1, <4>1 DEF CallFrameOk, Sends
    <3>2. QED
      BY Zenon, <3>1
  <2>6. Sends(id) => Targets(id)' = Targets(id)
    BY Zenon, <2>4, <2>5 DEF Targets
  <2>7. \A k \in Cpus : Unsent(id, k)' <=> Unsent(id, k)
    BY Zenon, <2>4, <2>5 DEF Unsent
  <2>8. QED
    BY Zenon, <2>4, <2>6, <2>7 DEF SameSender
<1>10. \A p \in Procs : ops[p] \in Nat /\ ops'[p] \in Nat /\ ops'[p] >= ops[p]
  BY <1>2, BoundsAssumption DEF IInv, TypeInv
<1>11. ASSUME NEW id \in CallIds
       PROVE  PlaceInv(id)' /\ Known(id)' /\ CallCounts(id)'
  <2>1. SameUses(id)
    BY Zenon, <1>8 DEF SameUses
  <2>2. QED
    BY Zenon, <1>2, <1>9, <1>10, <2>1, SameQueue, CallKept
<1>12. CallTypes' /\ RunningInv'
  BY Zenon, <1>2 DEF CallInv, CallTypes, RunningInv
<1>13. QED
  BY Zenon, <1>7, <1>11, <1>12 DEF CallInv

-----------------------------------------------------------------------------
(* The invariant of remote calls. *)

\* init_ipm(): no call has been made.
LEMMA CallsInitially == Init => CallInv
<1> SUFFICES ASSUME Init PROVE CallInv
  BY Zenon
<1>1. \A t \in Tasks : stack[t] = <<>> /\ Len(stack[t]) = 0
  BY Zenon DEF Init
<1>2. \A c \in Cpus : message_queue[c] = <<>> /\ Len(message_queue[c]) = 0 /\ running[c] \in Tasks
  BY Zenon DEF Init
<1>3. \A id \in CallIds : calls[id] = NoCall
  BY Zenon DEF Init
<1>4. /\ NoCall.state = "none" /\ ~NoCall.is_synchronous
      /\ NoCall \in [state : {"none", "live", "freed"}, ref_count : Nat, is_synchronous : BOOLEAN,
                     completed_count : Nat, executed : SUBSET Cpus]
  BY Zenon DEF NoCall, Call
<1>5. CallTypes
  <2>1. calls = [id \in CallIds |-> NoCall]
    BY Zenon DEF Init
  <2>2. QED
    BY Zenon, <1>4, <2>1 DEF CallTypes
<1>6. \A d : d \notin 1 .. 0
  OBVIOUS
<1>7. CallFrameInv
  BY Zenon, <1>1, <1>6 DEF CallFrameInv
<1>8. RunningInv
  BY Zenon DEF Init, RunningInv
<1>9. ASSUME NEW id \in CallIds
      PROVE  PlaceInv(id) /\ Known(id) /\ CallCounts(id)
  <2>1. ~Sends(id)
    BY Zenon, <1>1, CallId DEF Sends
  <2>2. \A c \in Cpus : \A i \in Nat : ~Posted(id, c, i)
    BY Zenon, <1>2, <1>6 DEF Posted
  <2>3. \A c \in Cpus : \A d \in Nat : \A a : ~Uses(id, c, d, a)
    BY Zenon, <1>1, <1>2, <1>6 DEF Uses
  <2>4. \A c \in Cpus : \A d \in Nat : ~Refers(id, c, d) /\ ~Busy(id, c, d)
    BY Zenon, <2>3 DEF Refers, Busy
  <2>5. \A c \in Cpus : ~Owes(id, c)
    BY Zenon, <2>1, <2>2, <2>4 DEF Owes, Unsent
  <2>6. Open(id) = {}
    BY Zenon, <2>3, <2>5 DEF Open
  <2>7. PlaceInv(id) /\ Known(id)
    BY Zenon, <1>3, <1>4, <2>2, <2>3, <2>4 DEF PlaceInv, Known
  <2>8. calls[id].state # "live" /\ ~calls[id].is_synchronous
    BY Zenon, <1>3, <1>4
  <2>9. QED
    BY Zenon, <2>6, <2>7, <2>8 DEF CallCounts
<1>10. QED
  BY Zenon, <1>5, <1>7, <1>8, <1>9 DEF CallInv

=============================================================================
