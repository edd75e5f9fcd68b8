------------------------- MODULE IpmRefCountProofs -------------------------
(***************************************************************************)
(* Remote calls of Ipm.tla: the steps that count cpus, and what ref_count  *)
(* and the wait of exec_remote_call() say, for any number of cpus.         *)
(***************************************************************************)
EXTENDS IpmCallProofs, FiniteSetTheorems

\* Sets of cpus are finite.
LEMMA CpuSets ==
    ASSUME NEW S \in SUBSET Cpus
    PROVE  /\ IsFiniteSet(S) /\ Cardinality(S) \in Nat /\ (Cardinality(S) = 0 <=> S = {})
           /\ \A c \in S : Cardinality(S \ {c}) = Cardinality(S) - 1 /\ Cardinality(S) # 0
           /\ \A c : S = {c} => Cardinality(S) = 1
<1>1. 0 \in Int /\ NCpus - 1 \in Int
  BY NCpusAssumption
<1>2. IsFiniteSet(Cpus)
  BY Zenon, <1>1, FS_Interval DEF Cpus
<1>3. IsFiniteSet(S)
  BY Zenon, <1>2, FS_Subset
<1>4. Cardinality(S) \in Nat /\ (Cardinality(S) = 0 <=> S = {})
  BY Zenon, <1>3, FS_CardinalityType, FS_EmptySet
<1>5. \A c \in S : Cardinality(S \ {c}) = Cardinality(S) - 1
  BY Zenon, <1>3, FS_RemoveElement
<1>6. \A c : S = {c} => Cardinality(S) = 1
  BY Zenon, FS_Singleton
<1>7. QED
  BY Zenon, <1>3, <1>4, <1>5, <1>6

\* StartCall() of an asynchronous call drops the reference first, and frees the
\* call with the last one.
LEMMA CallsStartAsync ==
    ASSUME IInv, IInv', CallInv, NEW t \in Tasks, StartCall(t), ~calls[Top(t).msg.data].is_synchronous
    PROVE  CallInv'
<1>1. PICK x, c, n : x = Top(t).msg.data /\ c = cpu_id(t) /\ n = Len(stack[t])
  BY Zenon
<1>2. /\ At(t, "irq", "call") /\ stack' = Goto(t, "func") /\ running' = running /\ ops' = ops
      /\ message_queue' = message_queue
      /\ calls' = [calls EXCEPT ![x].executed = @ \cup {c}, ![x].ref_count = @ - 1,
                                ![x].state = IF calls[x].ref_count = 1 THEN "freed" ELSE @]
  BY Zenon, <1>1 DEF StartCall
<1>3. "call" \in UsePcs /\ "func" \in UsePcs /\ "call" # "copy" /\ "func" # "copy" /\ "func" # "call" /\ "func" # "complete"
  BY Zenon DEF UsePcs
<1>4. x \in CallIds /\ c \in Cpus /\ n \in Nat
  BY Zenon, <1>1, <1>2, <1>3, RunningUser
<1>5. At(t, "irq", "call") /\ Uses(x, c, n, "call")
  <2>1. Top(t) = stack[t][n] /\ Top(t).at = "call" /\ running[c] = t /\ Top(t).msg = CallMessage(x) /\ Len(stack[t]) \in Nat \ {0}
    BY Zenon, <1>1, <1>2, <1>3, RunningUser
  <2>2. n \in 1 .. Len(stack[t])
    BY <1>1, <2>1
  <2>3. Top(t).fn = "irq"
    BY Zenon, <1>2 DEF At, Top
  <2>4. QED
    BY Zenon, <1>2, <2>1, <2>2, <2>3 DEF Uses
<1>6. ReferAt(x, "call") /\ ~ReferAt(x, "func") /\ BusyAt(x, "call") /\ ~BusyAt(x, "func") /\ ~calls[x].is_synchronous
  BY Zenon, <1>1, <1>3 DEF ReferAt, BusyAt
<1>7. calls[x].state = "live"
  BY Zenon, <1>3, <1>4, <1>5, <1>6, UserKnown
<1>8. CallCounts(x) /\ PlaceInv(x) /\ CallTypes
  BY Zenon, <1>4 DEF CallInv
<1>9. Left(x) # {} /\ calls[x].ref_count = Cardinality(Left(x)) /\ Left(x) \in SUBSET Cpus
  BY Zenon, <1>6, <1>7, <1>8, Lists DEF CallCounts
<1>10. calls[x].ref_count \in Nat \ {0}
  <2>1. Cardinality(Left(x)) \in Nat /\ Cardinality(Left(x)) # 0
    BY Zenon, <1>9, CpuSets
  <2>2. QED
    BY <1>9, <2>1
<1>11. /\ CallTypes'
       /\ calls'[x] = [calls[x] EXCEPT !.executed = @ \cup {c}, !.ref_count = @ - 1,
                                       !.state = IF calls[x].ref_count = 1 THEN "freed" ELSE @]
       /\ \A id \in CallIds : id # x => calls'[id] = calls[id]
  BY <1>2, <1>4, <1>8, <1>10 DEF CallTypes
<1>12. /\ calls'[x].state = IF calls[x].ref_count = 1 THEN "freed" ELSE "live"
       /\ calls'[x].ref_count = calls[x].ref_count - 1
       /\ calls'[x].is_synchronous = calls[x].is_synchronous
  BY Zenon, <1>4, <1>7, <1>8, <1>11 DEF CallTypes
<1>13. SameSender(x) /\ Moves(x, c, n, "call", "func") /\ (PlaceInv(x)' /\ Known(x)' /\ CallCounts(x)' => CallInv')
  BY Zenon, <1>1, <1>2, <1>3, <1>11, <1>12, HandlerMoves
<1>14. PlaceInv(x)' /\ Left(x)' = Left(x) \ {c} /\ Open(x)' = Open(x) \ {c} /\ c \in Left(x)
  BY Zenon, <1>2, <1>3, <1>4, <1>6, <1>12, <1>13, MoveSets
<1>15. Known(x)'
  <2>1. calls'[x].state # "none"
    BY <1>12
  <2>2. QED
    BY Zenon, <1>2, <1>3, <1>4, <1>13, <2>1, MoveKnown
<1>16. Open(x) = Left(x)
  BY Zenon, <1>6, <1>8 DEF Open, Left, PlaceInv
<1>17. Cardinality(Left(x)') = calls'[x].ref_count /\ (calls'[x].ref_count = 0 <=> calls[x].ref_count = 1)
  <2>1. Cardinality(Left(x) \ {c}) = Cardinality(Left(x)) - 1
    BY Zenon, <1>9, <1>14, CpuSets
  <2>2. Cardinality(Left(x)') = calls'[x].ref_count
    BY Zenon, <1>9, <1>12, <1>14, <2>1
  <2>3. QED
    BY <1>10, <1>12, <2>2
<1>18. Left(x)' = {} <=> calls[x].ref_count = 1
  <2>1. Left(x)' \in SUBSET Cpus
    BY Zenon, <1>9, <1>14
  <2>2. Cardinality(Left(x)') = 0 <=> Left(x)' = {}
    BY Zenon, <2>1, CpuSets
  <2>3. QED
    BY Zenon, <1>17, <2>2
<1>19. CallCounts(x)'
  <2>1. ~calls'[x].is_synchronous
    BY Zenon, <1>6, <1>12
  <2>2. calls'[x].state = "live" <=> calls[x].ref_count # 1
    BY <1>12
  <2>3. Open(x)' = Left(x)'
    BY Zenon, <1>14, <1>16
  <2>4. QED
    BY Zenon, <1>17, <1>18, <2>1, <2>2, <2>3 DEF CallCounts
<1>20. QED
  BY Zenon, <1>13, <1>14, <1>15, <1>19

\* FuncReturns() of a synchronous call drops the reference...
LEMMA CallsReturnSync ==
    ASSUME IInv, IInv', CallInv, NEW t \in Tasks, FuncReturns(t), calls[Top(t).msg.data].is_synchronous
    PROVE  CallInv'
<1>1. PICK x, c, n : x = Top(t).msg.data /\ c = cpu_id(t) /\ n = Len(stack[t])
  BY Zenon
<1>2. /\ At(t, "irq", "func") /\ stack' = Goto(t, "complete") /\ running' = running /\ ops' = ops
      /\ message_queue' = message_queue /\ calls' = [calls EXCEPT ![x].ref_count = @ - 1]
  BY Zenon, <1>1 DEF FuncReturns
<1>3. /\ "func" \in UsePcs /\ "complete" \in UsePcs /\ "func" # "copy" /\ "complete" # "copy" /\ "complete" # "call"
      /\ "complete" # "func"
  BY Zenon DEF UsePcs
<1>4. x \in CallIds /\ c \in Cpus /\ n \in Nat
  BY Zenon, <1>1, <1>2, <1>3, RunningUser
<1>5. Uses(x, c, n, "func")
  <2>1. Top(t) = stack[t][n] /\ Top(t).at = "func" /\ running[c] = t /\ Top(t).msg = CallMessage(x) /\ Len(stack[t]) \in Nat \ {0}
    BY Zenon, <1>1, <1>2, <1>3, RunningUser
  <2>2. n \in 1 .. Len(stack[t])
    BY <1>1, <2>1
  <2>3. Top(t).fn = "irq"
    BY Zenon, <1>2 DEF At, Top
  <2>4. QED
    BY Zenon, <1>2, <2>1, <2>2, <2>3 DEF Uses
<1>6. ReferAt(x, "func") /\ ~ReferAt(x, "complete") /\ BusyAt(x, "func") /\ BusyAt(x, "complete") /\ calls[x].is_synchronous
  BY Zenon, <1>1, <1>3 DEF ReferAt, BusyAt
<1>7. calls[x].state = "live"
  BY Zenon, <1>3, <1>4, <1>5, <1>6, UserKnown
<1>8. CallCounts(x) /\ CallTypes
  BY Zenon, <1>4 DEF CallInv
<1>9. Sends(x) /\ calls[x].ref_count = Cardinality(Left(x)) + 1 /\ Left(x) \in SUBSET Cpus /\ Ran(x)
  BY Zenon, <1>6, <1>7, <1>8, Lists DEF CallCounts
<1>10. Cardinality(Left(x)) \in Nat
  BY Zenon, <1>9, CpuSets
<1>11. /\ CallTypes'
       /\ calls'[x] = [calls[x] EXCEPT !.ref_count = @ - 1]
       /\ \A id \in CallIds : id # x => calls'[id] = calls[id]
  BY <1>2, <1>4, <1>8, <1>9, <1>10 DEF CallTypes
<1>12. /\ calls'[x].state = calls[x].state /\ calls'[x].ref_count = calls[x].ref_count - 1
       /\ calls'[x].is_synchronous = calls[x].is_synchronous
       /\ calls'[x].completed_count = calls[x].completed_count
       /\ calls'[x].executed = calls[x].executed
  BY <1>4, <1>8, <1>11 DEF CallTypes
<1>13. SameSender(x) /\ Moves(x, c, n, "func", "complete") /\ (PlaceInv(x)' /\ Known(x)' /\ CallCounts(x)' => CallInv')
  BY Zenon, <1>1, <1>2, <1>3, <1>11, <1>12, HandlerMoves
<1>14. PlaceInv(x)' /\ Left(x)' = Left(x) \ {c} /\ Open(x)' = Open(x) /\ c \in Left(x)
  BY Zenon, <1>2, <1>3, <1>4, <1>6, <1>12, <1>13, MoveSets
<1>15. Known(x)'
  <2>1. calls'[x].state # "none"
    BY <1>7, <1>12
  <2>2. QED
    BY Zenon, <1>2, <1>3, <1>4, <1>13, <2>1, MoveKnown
<1>16. Ran(x)'
  <2>1. c \in calls'[x].executed /\ calls[x].executed \subseteq calls'[x].executed
    BY Zenon, <1>4, <1>5, <1>9, <1>12 DEF Ran
  <2>2. QED
    BY Zenon, <1>3, <1>4, <1>9, <1>13, <2>1, MoveRan
<1>17. calls'[x].ref_count = Cardinality(Left(x)') + 1
  <2>1. Cardinality(Left(x) \ {c}) = Cardinality(Left(x)) - 1
    BY Zenon, <1>9, <1>14, CpuSets
  <2>2. QED
    BY <1>9, <1>10, <1>12, <1>14, <2>1
<1>18. CallCounts(x)'
  <2>1. Sends(x)' /\ SenderFrame(x)' = SenderFrame(x) /\ Targets(x)' = Targets(x)
    BY Zenon, <1>9, <1>13 DEF SameSender
  <2>2. /\ calls[x].completed_count + Cardinality(Open(x)) = Awaited(SenderFrame(x))
        /\ calls[x].executed \cup Open(x) = Targets(x)
    BY Zenon, <1>6, <1>8, <1>9 DEF CallCounts
  <2>3. /\ calls'[x].completed_count + Cardinality(Open(x)') = Awaited(SenderFrame(x)')
        /\ calls'[x].executed \cup Open(x)' = Targets(x)'
    BY Zenon, <1>12, <1>14, <2>1, <2>2
  <2>4. calls'[x].state = "live" /\ calls'[x].is_synchronous
    BY Zenon, <1>6, <1>7, <1>12
  <2>5. QED
    BY Zenon, <1>16, <1>17, <2>1, <2>3, <2>4 DEF CallCounts
<1>19. QED
  BY Zenon, <1>13, <1>14, <1>15, <1>18

\* ...and Complete() notifies the completion.
LEMMA CallsComplete ==
    ASSUME IInv, IInv', CallInv, NEW t \in Tasks, Complete(t)
    PROVE  CallInv'
<1>1. PICK x, c, n : x = Top(t).msg.data /\ c = cpu_id(t) /\ n = Len(stack[t])
  BY Zenon
<1>2. /\ At(t, "irq", "complete") /\ stack' = Goto(t, "loop") /\ running' = running /\ ops' = ops
      /\ message_queue' = message_queue /\ calls' = [calls EXCEPT ![x].completed_count = @ + 1]
  BY Zenon, <1>1 DEF Complete
<1>3. /\ "complete" \in UsePcs /\ "loop" \notin UsePcs /\ "complete" # "copy" /\ "complete" # "call" /\ "complete" # "func"
      /\ "loop" # "copy" /\ "loop" # "call" /\ "loop" # "func" /\ "loop" # "complete"
  BY Zenon DEF UsePcs
<1>4. x \in CallIds /\ c \in Cpus /\ n \in Nat
  BY Zenon, <1>1, <1>2, <1>3, RunningUser
<1>5. Uses(x, c, n, "complete")
  <2>1. Top(t) = stack[t][n] /\ Top(t).at = "complete" /\ running[c] = t /\ Top(t).msg = CallMessage(x) /\ Len(stack[t]) \in Nat \ {0}
    BY Zenon, <1>1, <1>2, <1>3, RunningUser
  <2>2. n \in 1 .. Len(stack[t])
    BY <1>1, <2>1
  <2>3. Top(t).fn = "irq"
    BY Zenon, <1>2 DEF At, Top
  <2>4. QED
    BY Zenon, <1>2, <2>1, <2>2, <2>3 DEF Uses
<1>6. ~ReferAt(x, "complete") /\ ~ReferAt(x, "loop") /\ BusyAt(x, "complete") /\ ~BusyAt(x, "loop")
  BY Zenon, <1>3 DEF ReferAt, BusyAt
<1>7. calls[x].state = "live"
  BY Zenon, <1>3, <1>4, <1>5, <1>6, UserKnown
<1>8. CallCounts(x) /\ PlaceInv(x) /\ CallTypes
  BY Zenon, <1>4 DEF CallInv
<1>9. calls[x].is_synchronous
  BY Zenon, <1>4, <1>5, <1>8 DEF PlaceInv
<1>10. /\ Sends(x) /\ calls[x].ref_count = Cardinality(Left(x)) + 1 /\ Open(x) \in SUBSET Cpus /\ Ran(x)
      /\ calls[x].completed_count + Cardinality(Open(x)) = Awaited(SenderFrame(x))
      /\ calls[x].executed \cup Open(x) = Targets(x)
  BY Zenon, <1>7, <1>8, <1>9, Lists DEF CallCounts
<1>11. /\ CallTypes'
       /\ calls'[x] = [calls[x] EXCEPT !.completed_count = @ + 1]
       /\ \A id \in CallIds : id # x => calls'[id] = calls[id]
  BY <1>2, <1>4, <1>8 DEF CallTypes
<1>12. /\ calls'[x].state = calls[x].state /\ calls'[x].ref_count = calls[x].ref_count
       /\ calls'[x].is_synchronous = calls[x].is_synchronous
       /\ calls'[x].completed_count = calls[x].completed_count + 1
       /\ calls'[x].executed = calls[x].executed
  BY Zenon, <1>4, <1>8, <1>11 DEF CallTypes
<1>13. SameSender(x) /\ Moves(x, c, n, "complete", "loop") /\ (PlaceInv(x)' /\ Known(x)' /\ CallCounts(x)' => CallInv')
  BY Zenon, <1>1, <1>2, <1>3, <1>11, <1>12, HandlerMoves
<1>14. PlaceInv(x)' /\ Left(x)' = Left(x) /\ Open(x)' = Open(x) \ {c} /\ c \in Open(x)
  BY Zenon, <1>2, <1>3, <1>4, <1>6, <1>12, <1>13, MoveSets
<1>15. Known(x)'
  <2>1. calls'[x].state # "none"
    BY <1>7, <1>12
  <2>2. QED
    BY Zenon, <1>2, <1>3, <1>4, <1>13, <2>1, MoveKnown
<1>16. Ran(x)'
  <2>1. calls[x].executed \subseteq calls'[x].executed
    BY Zenon, <1>12
  <2>2. QED
    BY Zenon, <1>3, <1>4, <1>10, <1>13, <2>1, MoveRan
<1>17. calls'[x].completed_count + Cardinality(Open(x)') = Awaited(SenderFrame(x))
  <2>1. Cardinality(Open(x)') = Cardinality(Open(x)) - 1 /\ Cardinality(Open(x)) \in Nat
    BY ZenonT(30), <1>10, <1>14, CpuSets
  <2>2. calls[x].completed_count \in Nat
    BY Zenon, <1>4, <1>8, CallRecord
  <2>3. QED
    BY <1>10, <1>12, <2>1, <2>2
<1>18. calls'[x].executed \cup Open(x)' = Targets(x)
  <2>1. c \in calls[x].executed
    BY Zenon, <1>4, <1>5, <1>10 DEF Ran
  <2>2. QED
    BY <1>10, <1>12, <1>14, <2>1
<1>19. CallCounts(x)'
  <2>1. Sends(x)' /\ SenderFrame(x)' = SenderFrame(x) /\ Targets(x)' = Targets(x)
    BY Zenon, <1>10, <1>13 DEF SameSender
  <2>2. calls'[x].completed_count + Cardinality(Open(x)') = Awaited(SenderFrame(x)')
    BY Zenon, <1>17, <2>1
  <2>3. calls'[x].executed \cup Open(x)' = Targets(x)'
    BY Zenon, <1>18, <2>1
  <2>4. calls'[x].state = "live" /\ calls'[x].is_synchronous /\ calls'[x].ref_count = Cardinality(Left(x)') + 1
    BY Zenon, <1>7, <1>9, <1>10, <1>12, <1>14
  <2>5. QED
    BY Zenon, <1>16, <2>1, <2>2, <2>3, <2>4 DEF CallCounts
<1>20. QED
  BY Zenon, <1>13, <1>14, <1>15, <1>19

\* A synchronous one is freed when all its completions are there.
LEMMA CallsReturn ==
    ASSUME IInv, IInv', CallInv, NEW t \in Tasks, CallReturns(t)
    PROVE  CallInv'
<1>1. PICK x : x = Top(t).id
  BY Zenon
<1>2. /\ At(t, "call", "wait") /\ stack' = Pop(t) /\ running' = running /\ ops' = ops
      /\ calls' = [calls EXCEPT ![x].state = "freed"] /\ message_queue' = message_queue
      /\ calls[x].completed_count = Awaited(Top(t))
  BY Zenon, <1>1 DEF CallReturns, Return
<1>3. /\ Top(t) \in CallFrames /\ Top(t).at = "wait" /\ x \in CallIds /\ Sends(x) /\ SenderFrame(x) = Top(t)
      /\ CallFrameOk(t, 1, Top(t), running, ops, calls)
  BY Zenon, <1>1, <1>2, RunningSender
<1>4. Top(t).fn = "call" /\ Top(t).at # "send"
  BY Zenon, <1>3 DEF CallFrames
<1>5. calls[x].is_synchronous /\ CallTypes /\ CallCounts(x)
  BY Zenon, <1>1, <1>3, <1>4 DEF CallFrameOk, CallInv
<1>6. /\ CallTypes'
      /\ calls'[x] = [calls[x] EXCEPT !.state = "freed"]
      /\ \A id \in CallIds : id # x => calls'[id] = calls[id]
  <2>1. DOMAIN calls = CallIds
    BY Zenon, <1>5 DEF CallTypes
  <2>2. calls'[x] = [calls[x] EXCEPT !.state = "freed"] /\ \A id \in CallIds : id # x => calls'[id] = calls[id]
    BY Zenon, <1>2, <1>3, <2>1
  <2>3. [calls[x] EXCEPT !.state = "freed"] \in
           [state : {"none", "live", "freed"}, ref_count : Nat, is_synchronous : BOOLEAN,
            completed_count : Nat, executed : SUBSET Cpus]
    BY <1>3, <1>5 DEF CallTypes
  <2>4. CallTypes'
    BY Zenon, <1>2, <1>5, <2>3 DEF CallTypes
  <2>5. QED
    BY Zenon, <2>2, <2>4
<1>7. calls'[x].state = "freed" /\ calls'[x].is_synchronous = calls[x].is_synchronous
  <2>1. PICK v : v = calls[x]
    BY Zenon
  <2>2. v \in [state : {"none", "live", "freed"}, ref_count : Nat, is_synchronous : BOOLEAN,
                completed_count : Nat, executed : SUBSET Cpus]
    BY Zenon, <1>3, <1>5, <2>1 DEF CallTypes
  <2>3. [v EXCEPT !.state = "freed"].state = "freed" /\ [v EXCEPT !.state = "freed"].is_synchronous = v.is_synchronous
    BY <2>2
  <2>4. QED
    BY Zenon, <1>6, <2>1, <2>3
<1>8. \A c \in Cpus : ~Unsent(x, c)
  BY Zenon, <1>3, <1>4 DEF Unsent
<1>9. Open(x)' = Open(x) /\ ~Sends(x)'
  BY Zenon, <1>1, <1>2, <1>7, <1>8, ReturnLists
<1>10. Open(x) = {}
  <2>1. calls[x].completed_count + Cardinality(Open(x)) = calls[x].completed_count
    BY Zenon, <1>2, <1>3, <1>5 DEF CallCounts
  <2>2. calls[x].completed_count \in Nat
    BY Zenon, <1>3, <1>5, CallRecord
  <2>3. Cardinality(Open(x)) \in Nat /\ (Cardinality(Open(x)) = 0 <=> Open(x) = {})
    BY Zenon, Lists, CpuSets
  <2>4. QED
    BY <2>1, <2>2, <2>3
<1>11. CallCounts(x)'
  <2>1. calls'[x].state # "live"
    BY Zenon, <1>7
  <2>2. QED
    BY Zenon, <1>9, <1>10, <2>1 DEF CallCounts
<1>12. calls'[x].state # "none"
  BY <1>7
<1>13. QED
  BY Zenon, <1>2, <1>6, <1>7, <1>8, <1>11, <1>12, <1>1, SenderReturns

-----------------------------------------------------------------------------
(* New calls. *)

\* Process p begins call x, with r references, that addresses the cpus T: one
\* reference for each of them and one for a sender that waits.
Opens(p, x, first, last, broadcast, r, w, T) ==
    /\ x = <<p, ops[p] + 1>> /\ first \in Cpus /\ last \in Cpus /\ broadcast \in BOOLEAN /\ r \in Nat /\ w \in BOOLEAN
    /\ stack' = Push(p, CallFrame(x, first, last, broadcast)) /\ calls' = [calls EXCEPT ![x] = Call(r, w)]
    /\ broadcast => last = NCpus - 1 /\ "broadcast" \in Kinds
    /\ ~broadcast => first = last
    /\ T \in SUBSET Cpus /\ (broadcast => T = {c \in Cpus : running[c] # p}) /\ (~broadcast => T = {last})
    /\ \A c \in Cpus : first <= c /\ c <= last /\ (broadcast => running[c] # p) <=> c \in T
    /\ (w => r = Cardinality(T) + 1) /\ (~w => r = Cardinality(T)) /\ T # {}
    /\ (broadcast => Cardinality(T) = NCpus - 1) /\ (~broadcast => Cardinality(T) = 1)

LEMMA NewCall ==
    ASSUME IInv, IInv', CallInv, NEW p \in Procs, \E b \in BOOLEAN : Begin(p, b),
           NEW x, NEW first, NEW last, NEW broadcast, NEW r, NEW w, NEW T,
           Opens(p, x, first, last, broadcast, r, w, T)
    PROVE  CallInv'
<1> USE DEF Opens
<1> DEFINE g == CallFrame(x, first, last, broadcast)
<1>1. /\ stack[p] = <<>> /\ ops' = [ops EXCEPT ![p] = @ + 1] /\ running' = running /\ message_queue' = message_queue
      /\ ops[p] < MaxOps
  BY Zenon DEF Begin
<1>2. /\ \A q \in Procs : ops[q] \in Nat /\ ops'[q] \in Nat /\ ops'[q] >= ops[q]
      /\ ops'[p] = ops[p] + 1 /\ \A q \in Procs : q # p => ops'[q] = ops[q]
  BY <1>1, BoundsAssumption DEF IInv, TypeInv
<1>3. x \in CallIds /\ x[1] = p /\ x[2] = ops[p] + 1 /\ p \in Tasks
  BY <1>1, <1>2, BoundsAssumption DEF CallIds, Tasks
<1>4. /\ g.fn = "call" /\ g.id = x /\ g.at = "send" /\ g.i = first /\ g.last = last /\ g.broadcast = broadcast
      /\ g \in AllFrames
  BY <1>3, NCpusAssumption DEF CallFrame, AllFrames, CallFrames, Cpus
<1>5. /\ g.fn # "irq" /\ g.at # "wait"
  BY Zenon, <1>4
<1> HIDE DEF g
<1>6. /\ Len(stack'[p]) = 1 /\ stack'[p][1] = g /\ Len(stack[p]) = 0
      /\ \A u \in Tasks : u # p => Len(stack'[u]) = Len(stack[u])
      /\ \A u \in Tasks : \A d \in 1 .. Len(stack[u]) : stack'[u][d] = stack[u][d]
  <2>1. Pushed(p, g)
    BY Zenon, <1>3, <1>4, Pushing DEF IInv, g
  <2>2. Len(stack[p]) = 0
    BY <1>1
  <2>3. Len(stack'[p]) = Len(stack[p]) + 1 /\ stack'[p][Len(stack[p]) + 1] = g
    BY Zenon, <1>3, <2>1 DEF Pushed
  <2>4. Len(stack'[p]) = 1 /\ stack'[p][1] = g
    BY <2>2, <2>3
  <2>5. QED
    BY Zenon, <2>1, <2>2, <2>4 DEF Pushed
<1>7. /\ \A d \in 1 .. Len(stack'[p]) : d = 1 /\ stack'[p][d] = g
      /\ \A d \in 1 .. Len(stack[p]) : FALSE
      /\ 1 \in 1 .. Len(stack'[p]) /\ Len(stack'[p]) # 0
  <2>1. /\ \A d \in 1 .. Len(stack'[p]) : d = 1
        /\ \A d \in 1 .. Len(stack[p]) : FALSE
        /\ 1 \in 1 .. Len(stack'[p]) /\ Len(stack'[p]) # 0
    <3>1. Len(stack'[p]) = 1 /\ Len(stack[p]) = 0
      BY Zenon, <1>6
    <3>2. (\A d \in 1 .. 1 : d = 1) /\ (\A d \in 1 .. 0 : FALSE) /\ 1 \in 1 .. 1 /\ 1 # 0
      OBVIOUS
    <3>3. QED
      BY Zenon, <3>1, <3>2
  <2>2. QED
    BY Zenon, <1>6, <2>1
<1>8. /\ \A id \in CallIds : id # x => calls'[id] = calls[id]
      /\ calls'[x] = Call(r, w) /\ CallTypes'
  <2>1. CallTypes
    BY Zenon DEF CallInv
  <2>2. Call(r, w) \in [state : {"none", "live", "freed"}, ref_count : Nat, is_synchronous : BOOLEAN,
                        completed_count : Nat, executed : SUBSET Cpus]
    BY Zenon DEF Call
  <2>3. QED
    BY Zenon, <1>3, <2>1, <2>2 DEF CallTypes
<1>9. /\ calls'[x].state = "live" /\ calls'[x].ref_count = r /\ calls'[x].is_synchronous = w
      /\ calls'[x].completed_count = 0 /\ calls'[x].executed = {}
  BY <1>8 DEF Call
<1>10. ASSUME NEW id \in CallIds PROVE SameUses(id)
  <2>1. ~IsUser(g, id)
    BY Zenon, <1>5 DEF IsUser
  <2>2. UserFrames(id)
    BY ZenonT(30), <1>6, <1>7, <2>1 DEF UserFrames
  <2>3. QED
    BY Zenon, <1>1, <2>2, UsersKept DEF IInv
<1>11. ASSUME NEW id \in CallIds, id # x PROVE SameSender(id)
  <2>1. ~IsSender(g, id)
    BY Zenon, <1>4, <1>11 DEF IsSender
  <2>2. SenderFrames(id)
    BY Zenon, <1>6, <1>7, <2>1 DEF SenderFrames
  <2>3. QED
    BY Zenon, <1>1, <2>2, SenderKept DEF IInv
<1>12. ASSUME NEW id \in CallIds, id # x
       PROVE  PlaceInv(id)' /\ Known(id)' /\ CallCounts(id)'
  BY Zenon, <1>1, <1>2, <1>8, <1>10, <1>11, <1>12, SameQueue, CallKept
\* Nobody has heard of the call before.
<1>13. /\ \A c \in Cpus : \A d \in Nat : \A a \in UsePcs : ~Uses(x, c, d, a)
       /\ \A c \in Cpus : \A i \in Nat : ~Posted(x, c, i)
  <2>1. x[2] > ops[x[1]]
    BY <1>2, <1>3
  <2>2. Known(x) /\ CallCounts(x)
    BY Zenon, <1>3 DEF CallInv
  <2>3. calls[x].state = "none"
    BY Zenon, <2>1, <2>2 DEF Known
  <2>4. calls[x].state # "live"
    BY <2>3
  <2>5. Open(x) = {}
    BY Zenon, <2>2, <2>4 DEF CallCounts
  <2>6. \A c \in Cpus : \A i \in Nat : ~Posted(x, c, i)
    BY Zenon, <2>5 DEF Open, Owes
  <2>7. QED
    BY Zenon, <2>2, <2>3, <2>6 DEF Known
<1>14. /\ \A c \in Cpus : \A d \in Nat : \A a \in UsePcs : ~Uses(x, c, d, a)'
       /\ \A c \in Cpus : \A i \in Nat : ~Posted(x, c, i)'
  BY Zenon, <1>1, <1>3, <1>10, <1>13 DEF SameUses, Posted
<1>15. "copy" \in UsePcs /\ "call" \in UsePcs /\ "func" \in UsePcs /\ "complete" \in UsePcs
  BY Zenon DEF UsePcs
<1>16. \A c \in Cpus : \A d \in Nat :
          ~Busy(x, c, d)' /\ ~Refers(x, c, d)' /\ ~Uses(x, c, d, "complete")' /\ ~Uses(x, c, d, "func")'
  BY Zenon, <1>14, <1>15 DEF Busy, Refers
<1>17. Sends(x)' /\ SenderFrame(x)' = g
  BY Zenon, <1>3, <1>4, <1>6, <1>7 DEF Sends, SenderFrame
<1>18. \A c \in Cpus : Unsent(x, c)' <=> c \in T
  BY Zenon, <1>1, <1>3, <1>4, <1>17 DEF Unsent
<1>19. \A c \in Cpus : Owes(x, c)' <=> c \in T
  BY Zenon, <1>14, <1>16, <1>18 DEF Owes
<1>20. Left(x)' = T
  <2>1. Left(x)' = {c \in Cpus : Owes(x, c)'}
    BY Zenon DEF Left
  <2>2. QED
    BY Zenon, <1>19, <2>1
<1>21. Open(x)' = T
  <2>1. Open(x)' = {c \in Cpus : Owes(x, c)' \/ \E d \in Nat : Uses(x, c, d, "complete")'}
    BY Zenon DEF Open
  <2>2. QED
    BY Zenon, <1>16, <1>19, <2>1
<1>22. Targets(x)' = T
  BY Zenon, <1>1, <1>3, <1>4, <1>17 DEF Targets
<1>23. PlaceInv(x)'
  BY Zenon, <1>14, <1>16 DEF PlaceInv
<1>24. Known(x)'
  <2>1. ~(x[2] > ops'[x[1]])
    BY <1>2, <1>3
  <2>2. QED
    BY Zenon, <1>14, <2>1 DEF Known
<1>25. Ran(x)'
  BY Zenon, <1>16 DEF Ran
<1>26. CallCounts(x)'
  <2>1. 0 + Cardinality(T) = Awaited(g)
    <3>1. Cardinality(T) \in Nat
      BY Zenon, CpuSets
    <3>2. 0 + Cardinality(T) = Cardinality(T)
      BY <3>1
    <3>3. QED
      BY Zenon, <1>4, <3>2 DEF Awaited
  <2>2. {} \cup T = T
    BY Zenon
  <2>3. QED
    BY Zenon, <1>9, <1>17, <1>20, <1>21, <1>22, <1>25, <2>1, <2>2 DEF CallCounts
<1>27. CallFrameInv'
  <2>1. ASSUME NEW u \in Tasks, NEW d \in 1 .. Len(stack'[u])
        PROVE  CallFrameOk(u, d, stack'[u][d], running, ops', calls')
    <3>1. CASE u = p
      <4>1. d = 1 /\ stack'[u][d] = g
        BY Zenon, <1>7, <3>1
      <4>2. x = <<p, ops'[p]>>
        BY Zenon, <1>2
      <4>3. QED
        BY Zenon, <1>4, <1>5, <3>1, <4>1, <4>2 DEF CallFrameOk
    <3>2. CASE u # p
      <4>1. d \in 1 .. Len(stack[u])
        BY Zenon, <1>6, <3>2
      <4>2. stack'[u][d] = stack[u][d] /\ CallFrameOk(u, d, stack[u][d], running, ops, calls)
        BY ZenonT(30), <1>6, <4>1 DEF CallInv, CallFrameInv
      <4>3. stack[u][d].fn = "call" => stack[u][d].id \in CallIds
        <5>1. stack[u][d] \in AllFrames
          BY Zenon, <4>1, SeqElement DEF IInv, TypeInv
        <5>2. QED
          BY <5>1 DEF AllFrames, CallFrames, TlbFrames, IrqFrames
      <4>4. stack[u][d].fn = "call" => stack[u][d].id # x
        <5>1. <<u, ops[u]>> # x
          BY <3>2
        <5>2. QED
          BY Zenon, <4>2, <5>1 DEF CallFrameOk
      <4>5. stack[u][d].fn = "call" => calls'[stack[u][d].id] = calls[stack[u][d].id]
        BY Zenon, <1>8, <4>3, <4>4
      <4>6. QED
        BY Zenon, <1>2, <3>2, <4>2, <4>5 DEF CallFrameOk
    <3>3. QED
      BY Zenon, <3>1, <3>2
  <2>2. QED
    BY Zenon, <1>1, <2>1 DEF CallFrameInv
<1>28. RunningInv'
  BY Zenon, <1>1 DEF CallInv, RunningInv
<1>29. QED
  BY Zenon, <1>8, <1>12, <1>23, <1>24, <1>26, <1>27, <1>28 DEF CallInv

\* exec_remote_call()
LEMMA CallsBegin ==
    ASSUME IInv, IInv', CallInv, NEW p \in Procs, BeginCall(p)
    PROVE  CallInv'
<1>1. PICK x : x = <<p, ops[p] + 1>>
  BY Zenon
<1>2. PICK c \in Cpus, w \in BOOLEAN :
         /\ \E b \in (IF w THEN CallIF ELSE BOOLEAN) : Begin(p, b)
         /\ calls' = [calls EXCEPT ![x] = Call(IF w THEN 2 ELSE 1, w)]
         /\ stack' = Push(p, CallFrame(x, c, c, FALSE))
  BY Zenon, <1>1 DEF BeginCall
<1>3. \E b \in BOOLEAN : Begin(p, b)
  BY <1>2, FlagsAssumption
<1>4. PICK T \in SUBSET Cpus : T = {c}
  BY Zenon
<1>5. Cardinality(T) = 1 /\ T # {}
  BY Zenon, <1>4, CpuSets
<1>6. PICK r \in Nat : r = IF w THEN 2 ELSE 1
  BY Zenon
<1>7. (w => r = Cardinality(T) + 1) /\ (~w => r = Cardinality(T))
  BY <1>5, <1>6
<1>8. PICK broadcast \in BOOLEAN : broadcast = FALSE
  BY Zenon
<1>9. \A k \in Cpus : c <= k /\ k <= c /\ (broadcast => running[k] # p) <=> k \in T
  BY <1>4, <1>8, NCpusAssumption DEF Cpus
<1>10. calls' = [calls EXCEPT ![x] = Call(r, w)] /\ stack' = Push(p, CallFrame(x, c, c, broadcast))
  BY Zenon, <1>2, <1>6, <1>8
<1>11. ~broadcast
  BY Zenon, <1>8
<1>12. Opens(p, x, c, c, broadcast, r, w, T)
  BY Zenon, <1>1, <1>4, <1>5, <1>7, <1>9, <1>10, <1>11 DEF Opens
<1>13. QED
  BY Zenon, <1>3, <1>12, NewCall

LEMMA CallsBroadcast ==
    ASSUME BroadcastContext, IInv, IInv', CallInv, NEW p \in Procs, BeginBroadcast(p)
    PROVE  CallInv'
<1>1. PICK x : x = <<p, ops[p] + 1>>
  BY Zenon
<1>2. PICK w \in BOOLEAN :
         /\ \E b \in (IF w THEN CallIF ELSE BOOLEAN) : Begin(p, b)
         /\ calls' = [calls EXCEPT ![x] = Call(NCpus - (IF w THEN 0 ELSE 1), w)]
         /\ stack' = Push(p, CallFrame(x, 0, NCpus - 1, TRUE))
  BY Zenon, <1>1 DEF BeginBroadcast
<1>3. \E b \in BOOLEAN : Begin(p, b)
  BY <1>2, FlagsAssumption
<1>4. "broadcast" \in Kinds /\ NCpus # 1
  BY Zenon DEF BeginBroadcast, BroadcastContext
<1>5. PICK r \in Nat : r = NCpus - (IF w THEN 0 ELSE 1)
  BY NCpusAssumption
<1>6. 0 \in Cpus /\ NCpus - 1 \in Cpus /\ \A c \in Cpus : 0 <= c /\ c <= NCpus - 1
  BY NCpusAssumption DEF Cpus
<1>7. PICK T \in SUBSET Cpus : T = {c \in Cpus : running[c] # p}
  BY Zenon
<1>8. Cardinality(T) = NCpus - 1
  <2>1. PICK c \in Cpus : running[c] = p
    BY Zenon, <1>3 DEF Begin
  <2>2. \A k \in Cpus : running[k] = p => k = c
    BY Zenon, <2>1 DEF IInv, TypeInv
  <2>3. T = Cpus \ {c}
    BY SMTT(30), <1>7, <2>1, <2>2
  <2>4. Cardinality(Cpus) = NCpus
    <3>1. 0 \in Int /\ NCpus - 1 \in Int
      BY NCpusAssumption
    <3>2. Cardinality(Cpus) = IF 0 > NCpus - 1 THEN 0 ELSE NCpus - 1 - 0 + 1
      BY Zenon, <3>1, FS_Interval DEF Cpus
    <3>3. QED
      BY <3>2, NCpusAssumption
  <2>5. Cpus \in SUBSET Cpus
    BY Zenon
  <2>6. Cardinality(Cpus \ {c}) = Cardinality(Cpus) - 1
    BY Zenon, <2>5, CpuSets
  <2>7. QED
    BY Zenon, <2>3, <2>4, <2>6
<1>9. T # {}
  <2>1. Cardinality(T) # 0
    BY SMTT(30), <1>4, <1>8, NCpusAssumption
  <2>2. QED
    BY Zenon, <2>1, CpuSets
<1>10. (w => r = Cardinality(T) + 1) /\ (~w => r = Cardinality(T))
  BY SMTT(30), <1>5, <1>8, NCpusAssumption
<1>11. PICK broadcast \in BOOLEAN : broadcast = TRUE
  BY Zenon
<1>12. \A k \in Cpus : 0 <= k /\ k <= NCpus - 1 /\ (broadcast => running[k] # p) <=> k \in T
  BY Zenon, <1>6, <1>7, <1>11
<1>13. calls' = [calls EXCEPT ![x] = Call(r, w)] /\ stack' = Push(p, CallFrame(x, 0, NCpus - 1, broadcast))
  BY Zenon, <1>2, <1>5, <1>11
<1>14. broadcast
  BY Zenon, <1>11
<1>15. Opens(p, x, 0, NCpus - 1, broadcast, r, w, T)
  BY Zenon, <1>1, <1>4, <1>6, <1>7, <1>8, <1>9, <1>10, <1>12, <1>13, <1>14 DEF Opens
<1>16. QED
  BY Zenon, <1>3, <1>15, NewCall

\* Every step keeps the invariant.
LEMMA CallsInductive ==
    ASSUME BroadcastContext, IInv, IInv', CallInv, [Next]_vars
    PROVE  CallInv'
<1>1. ASSUME NEW p \in Procs, BeginShootdown(p) \/ BeginCall(p) \/ BeginBroadcast(p)
      PROVE  CallInv'
  BY Zenon, <1>1, CallsBeginShootdown, CallsBegin, CallsBroadcast
<1>2. ASSUME NEW t \in Tasks, Step(t)
      PROVE  CallInv'
  <2>1. CASE \/ Invalidate(t) \/ SkipSelf(t) \/ EnqueueTlb(t) \/ SendTlbIpi(t) \/ TlbAcked(t)
             \/ ShootdownReturns(t)
    BY Zenon, <2>1, CallsShootdown, CallsEnqueue
  <2>2. CASE SendMessage(t) \/ SendCallIpi(t) \/ CallReturns(t)
    BY Zenon, <2>2, CallsSend, CallsIpiSync, CallsIpiAsync, CallsReturn
  <2>3. CASE \/ EnterHandler(t) \/ TakeMessage(t) \/ LeaveHandler(t) \/ ReturnFromInterrupt(t)
             \/ CopyMessage(t) \/ FlushTlb(t) \/ AckTlb(t)
    BY Zenon, <2>3, CallsHandler, CallsTake, CallsCopy, CallsAck
  <2>4. CASE StartCall(t) \/ FuncReturns(t) \/ Complete(t)
    BY Zenon, <2>4, CallsStartSync, CallsStartAsync, CallsReturnSync, CallsReturnAsync, CallsComplete
  <2>5. QED
    BY Zenon, <1>2, <2>1, <2>2, <2>3, <2>4 DEF Step
<1>3. ASSUME NEW t \in Tasks, NestedShootdown(t) \/ FuncLoops(t)
      PROVE  CallInv'
  <2>1. FuncLoops(t) => ~calls[Top(t).msg.data].is_synchronous
    BY Zenon DEF FuncLoops
  <2>2. QED
    BY Zenon, <1>3, <2>1, CallsPushes, CallsReturnAsync
<1>4. ASSUME NEW c \in Cpus, Interrupt(c) \/ Schedule(c)
      PROVE  CallInv'
  BY Zenon, <1>4, CallsPushes, CallsSchedule
<1>5. CASE UNCHANGED vars
  <2>1. /\ stack' = stack /\ running' = running /\ calls' = calls /\ ops' = ops
        /\ message_queue' = message_queue
    BY Zenon, <1>5 DEF vars
  <2>2. ASSUME NEW id \in CallIds
        PROVE  PlaceInv(id)' /\ Known(id)' /\ CallCounts(id)'
    <3>1. SenderFrames(id) /\ UserFrames(id)
      BY Zenon, <2>1 DEF SenderFrames, UserFrames
    <3>2. SameSender(id) /\ SameUses(id) /\ SamePosts(id)
      BY Zenon, <2>1, <3>1, SenderKept, UsersKept, SameQueue DEF IInv
    <3>3. \A p \in Procs : ops[p] \in Nat /\ ops'[p] \in Nat /\ ops'[p] >= ops[p]
      BY <2>1, BoundsAssumption DEF IInv, TypeInv
    <3>4. QED
      BY Zenon, <2>1, <3>2, <3>3, CallKept
  <2>3. CallTypes' /\ CallFrameInv' /\ RunningInv'
    BY Zenon, <2>1 DEF CallInv, CallTypes, CallFrameInv, RunningInv
  <2>4. QED
    BY Zenon, <2>2, <2>3 DEF CallInv
<1>6. QED
  BY Zenon, <1>1, <1>2, <1>3, <1>4, <1>5 DEF Next

-----------------------------------------------------------------------------
(* From cpus to references. *)

\* A set whose elements are told apart by their cpus, and which has one for each
\* cpu of T.
LEMMA OneEach ==
    ASSUME NEW T \in SUBSET Cpus, NEW S, NEW f \in [S -> T],
           \A x, y \in S : f[x] = f[y] => x = y,
           \A c \in T : \E x \in S : f[x] = c
    PROVE  Cardinality(S) = Cardinality(T)
<1>1. f \in Injection(S, T) /\ f \in Surjection(S, T)
  BY Zenon DEF Injection, IsInjective, Surjection
<1>2. IsFiniteSet(T)
  BY Zenon, CpuSets
<1>3. QED
  BY Zenon, <1>1, <1>2, FS_Injection

\* The cpus with a message to be sent, in the queue, taken.
UnsentCpus(id) == {c \in Cpus : Unsent(id, c)}
PostedCpus(id) == {c \in Cpus : \E i \in Nat : Posted(id, c, i)}
ReferCpus(id) == {c \in Cpus : \E d \in Nat : Refers(id, c, d)}

LEMMA LeftSum ==
    ASSUME NEW id \in CallIds, PlaceInv(id)
    PROVE  /\ Cardinality(Left(id)) =
                 Cardinality(PostedCpus(id)) + Cardinality(ReferCpus(id)) + Cardinality(UnsentCpus(id))
           /\ Cardinality(PostedCpus(id)) \in Nat /\ Cardinality(ReferCpus(id)) \in Nat
           /\ Cardinality(UnsentCpus(id)) \in Nat
<1> DEFINE A == PostedCpus(id)
           B == ReferCpus(id)
           C == UnsentCpus(id)
<1>1. A \in SUBSET Cpus /\ B \in SUBSET Cpus /\ C \in SUBSET Cpus
  BY Zenon DEF PostedCpus, ReferCpus, UnsentCpus
<1>2. Left(id) = (A \cup B) \cup C
  BY Zenon DEF Left, Owes, PostedCpus, ReferCpus, UnsentCpus
<1>3. A \cap B = {}
  BY Zenon DEF PlaceInv, Busy, PostedCpus, ReferCpus
<1>4. (A \cup B) \cap C = {}
  BY Zenon DEF PlaceInv, Busy, PostedCpus, ReferCpus, UnsentCpus
<1> HIDE DEF A, B, C
<1>5. A \cup B \in SUBSET Cpus
  BY Zenon, <1>1
<1>6. IsFiniteSet(A) /\ IsFiniteSet(B) /\ IsFiniteSet(C) /\ IsFiniteSet(A \cup B)
  BY Zenon, <1>1, <1>5, CpuSets
<1>7. Cardinality(A) \in Nat /\ Cardinality(B) \in Nat /\ Cardinality(C) \in Nat /\ Cardinality(A \cup B) \in Nat
  BY Zenon, <1>1, <1>5, CpuSets
<1>8. Cardinality({}) = 0
  BY Zenon, FS_EmptySet
<1>9. Cardinality(A \cup B) = Cardinality(A) + Cardinality(B) - Cardinality(A \cap B)
  BY Zenon, <1>6, FS_Union
<1>10. Cardinality((A \cup B) \cup C) = Cardinality(A \cup B) + Cardinality(C) - Cardinality((A \cup B) \cap C)
  BY Zenon, <1>6, FS_Union
<1>11. Cardinality(A \cup B) = Cardinality(A) + Cardinality(B)
  <2>1. Cardinality(A \cap B) = 0
    BY Zenon, <1>3, <1>8
  <2>2. QED
    BY SMTT(30), <1>7, <1>9, <2>1
<1>12. Cardinality((A \cup B) \cup C) = Cardinality(A \cup B) + Cardinality(C)
  <2>1. Cardinality((A \cup B) \cap C) = 0
    BY Zenon, <1>4, <1>8
  <2>2. QED
    BY <1>7, <1>10, <2>1
<1>13. Cardinality(Left(id)) = Cardinality(A) + Cardinality(B) + Cardinality(C)
  BY <1>2, <1>7, <1>11, <1>12
<1>14. QED
  BY Zenon, <1>7, <1>13 DEF A, B, C

LEMMA CountQueued ==
    ASSUME NEW id \in CallIds, TypeInv, PlaceInv(id)
    PROVE  Cardinality(Queued(CallMessage(id))) = Cardinality(PostedCpus(id))
<1> DEFINE Q == Queued(CallMessage(id))
           f == [x \in Q |-> x[1]]
<1>1. \A x \in Q : \E c \in Cpus : \E i \in Nat : x = <<c, i>> /\ Posted(id, c, i)
  <2>1. \A c \in Cpus : Len(message_queue[c]) \in Nat
    BY Zenon, Lengths
  <2>2. ASSUME NEW x \in Q
        PROVE  \E c \in Cpus : \E i \in Nat : x = <<c, i>> /\ Posted(id, c, i)
    <3>1. PICK c \in Cpus : x \in {c} \X {i \in 1 .. Len(message_queue[c]) : message_queue[c][i] = CallMessage(id)}
      BY Zenon DEF Queued
    <3>2. PICK i \in 1 .. Len(message_queue[c]) : x = <<c, i>> /\ message_queue[c][i] = CallMessage(id)
      BY <3>1
    <3>3. i \in Nat
      BY <2>1
    <3>4. QED
      BY Zenon, <3>2, <3>3 DEF Posted
  <2>3. QED
    BY Zenon, <2>2
<1>2. \A c \in Cpus : \A i \in Nat : Posted(id, c, i) => <<c, i>> \in Q
  BY DEF Queued, Posted
<1> HIDE DEF Q
<1>3. \A c, i : <<c, i>>[1] = c
  BY Zenon
<1>4. \A x \in Q : f[x] = x[1]
  BY Zenon
<1>5. \A x \in Q : f[x] \in PostedCpus(id)
  BY Zenon, <1>1, <1>3, <1>4 DEF PostedCpus
<1>6. f \in [Q -> PostedCpus(id)]
  BY Zenon, <1>4, <1>5
<1>7. \A x, y \in Q : f[x] = f[y] => x = y
  <2>1. ASSUME NEW x \in Q, NEW y \in Q, f[x] = f[y] PROVE x = y
    <3>1. PICK c \in Cpus : \E i \in Nat : x = <<c, i>> /\ Posted(id, c, i)
      BY Zenon, <1>1
    <3>2. PICK k \in Cpus : \E i \in Nat : y = <<k, i>> /\ Posted(id, k, i)
      BY Zenon, <1>1
    <3>3. c = k
      <4>1. x[1] = c /\ y[1] = k
        BY Zenon, <1>3, <3>1, <3>2
      <4>2. x[1] = y[1]
        BY Zenon, <1>4, <2>1
      <4>3. QED
        BY Zenon, <4>1, <4>2
    <3>4. QED
      BY Zenon, <3>1, <3>2, <3>3 DEF PlaceInv
  <2>2. QED
    BY Zenon, <2>1
<1>8. \A c \in PostedCpus(id) : \E x \in Q : f[x] = c
  <2>1. ASSUME NEW c \in PostedCpus(id) PROVE \E x \in Q : f[x] = c
    <3>1. PICK i \in Nat : Posted(id, c, i) /\ c \in Cpus
      BY Zenon DEF PostedCpus
    <3>2. <<c, i>> \in Q /\ f[<<c, i>>] = c
      BY Zenon, <1>2, <1>3, <1>4, <3>1
    <3>3. QED
      BY Zenon, <3>2
  <2>2. QED
    BY Zenon, <2>1
<1>9. PostedCpus(id) \in SUBSET Cpus
  BY Zenon DEF PostedCpus
<1> HIDE DEF f
<1>10. QED
  BY Zenon, <1>6, <1>7, <1>8, <1>9, OneEach DEF Q

\* The frames that a handler has with a reference, those of the sender, and the
\* messages that it has not sent.
Taken(id) == {"copy", "call"} \cup (IF calls[id].is_synchronous THEN {"func"} ELSE {})
Held(id) == {f \in Handling(Taken(id)) : FrameAt(f).msg = CallMessage(id)}
Senders(id) == {f \in Frames : FrameAt(f).fn = "call" /\ FrameAt(f).id = id}
Unsents(id) ==
    {x \in Senders(id) \X Cpus :
        FrameAt(x[1]).at = "send" /\
        x[2] \in {i \in FrameAt(x[1]).i .. FrameAt(x[1]).last :
                    FrameAt(x[1]).broadcast => i # cpu_id(x[1][1])}}

LEMMA ReferencesSum ==
    ASSUME NEW id
    PROVE  References(id) =
               Cardinality(Queued(CallMessage(id))) + Cardinality(Held(id)) + Cardinality(Unsents(id))
               + (IF calls[id].is_synchronous THEN Cardinality(Senders(id)) ELSE 0)
BY Zenon DEF References, Taken, Held, Senders, Unsents

\* Frames are pairs of a task and a position on its stack.
LEMMA FramePair ==
    ASSUME TypeInv
    PROVE  /\ \A f \in Frames : \E t \in Tasks : \E d \in Nat :
                 f = <<t, d>> /\ f[1] = t /\ d \in 1 .. Len(stack[t]) /\ FrameAt(f) = stack[t][d]
           /\ \A t \in Tasks : \A d \in 1 .. Len(stack[t]) :
                 <<t, d>> \in Frames /\ FrameAt(<<t, d>>) = stack[t][d]
<1>1. \A t \in Tasks : Len(stack[t]) \in Nat
  BY Zenon, Lengths
<1>2. ASSUME NEW f \in Frames
      PROVE  \E t \in Tasks : \E d \in Nat :
                 f = <<t, d>> /\ f[1] = t /\ d \in 1 .. Len(stack[t]) /\ FrameAt(f) = stack[t][d]
  <2>1. PICK t \in Tasks : f \in {t} \X (1 .. Len(stack[t]))
    BY Zenon DEF Frames, depth
  <2>2. PICK d \in 1 .. Len(stack[t]) : f = <<t, d>>
    BY <2>1
  <2>3. d \in Nat
    BY <1>1
  <2>4. f[1] = t /\ f[2] = d
    BY <2>2
  <2>5. QED
    BY Zenon, <2>2, <2>3, <2>4 DEF FrameAt
<1>3. ASSUME NEW t \in Tasks, NEW d \in 1 .. Len(stack[t])
      PROVE  <<t, d>> \in Frames /\ FrameAt(<<t, d>>) = stack[t][d]
  <2>1. <<t, d>> \in {t} \X (1 .. Len(stack[t]))
    BY Zenon
  <2>2. <<t, d>>[1] = t /\ <<t, d>>[2] = d
    BY Zenon
  <2>3. QED
    BY Zenon, <2>1, <2>2 DEF Frames, FrameAt, depth
<1>4. QED
  BY Zenon, <1>2, <1>3

\* cpu_id() of a task that runs.
LEMMA CpuId ==
    ASSUME TypeInv, NEW t, NEW c \in Cpus, running[c] = t
    PROVE  cpu_id(t) = c
<1>1. cpu_id(t) \in Cpus /\ running[cpu_id(t)] = t
  BY Zenon DEF cpu_id
<1>2. QED
  BY Zenon, <1>1 DEF TypeInv

LEMMA CountHeld ==
    ASSUME NEW id \in CallIds, TypeInv, PlaceInv(id), CallFrameInv
    PROVE  Cardinality(Held(id)) = Cardinality(ReferCpus(id))
<1> DEFINE H == Held(id)
           f == [x \in H |-> cpu_id(x[1])]
<1>1. \A a : a \in Taken(id) <=> a = "copy" \/ a = "call" \/ (calls[id].is_synchronous /\ a = "func")
  BY Zenon DEF Taken
<1>2. \A a : a \in Taken(id) => a \in UsePcs
  BY <1>1 DEF UsePcs
<1>3. ASSUME NEW x \in H
      PROVE  \E c \in Cpus : \E d \in Nat : x = <<running[c], d>> /\ cpu_id(x[1]) = c /\ Refers(id, c, d)
  <2>1. x \in Frames /\ FrameAt(x).fn = "irq" /\ FrameAt(x).at \in Taken(id) /\ FrameAt(x).msg = CallMessage(id)
    BY Zenon DEF Held, Handling
  <2>2. PICK t \in Tasks, d \in Nat : x = <<t, d>> /\ x[1] = t /\ d \in 1 .. Len(stack[t]) /\ FrameAt(x) = stack[t][d]
    BY Zenon, <2>1, FramePair
  <2>3. CallFrameOk(t, d, stack[t][d], running, ops, calls)
    BY Zenon, <2>2 DEF CallFrameInv
  <2>4. PICK c \in Cpus : running[c] = t
    BY Zenon, <1>2, <2>1, <2>2, <2>3 DEF CallFrameOk
  <2>5. cpu_id(x[1]) = c
    BY Zenon, <2>2, <2>4, CpuId
  <2>6. Refers(id, c, d)
    BY Zenon, <1>1, <2>1, <2>2, <2>4 DEF Refers, Uses
  <2>7. QED
    BY Zenon, <2>2, <2>4, <2>5, <2>6
<1>4. ASSUME NEW c \in Cpus, NEW d \in Nat, Refers(id, c, d)
      PROVE  <<running[c], d>> \in H
  <2>1. running[c] \in Tasks /\ d \in 1 .. Len(stack[running[c]])
    BY Zenon, <1>4, Lengths DEF Refers, Uses
  <2>2. <<running[c], d>> \in Frames /\ FrameAt(<<running[c], d>>) = stack[running[c]][d]
    BY Zenon, <2>1, FramePair
  <2>3. QED
    BY Zenon, <1>1, <1>4, <2>2 DEF Held, Handling, Refers, Uses
<1> HIDE DEF H
<1>5. \A x \in H : f[x] = cpu_id(x[1])
  BY Zenon
<1>6. \A x \in H : f[x] \in ReferCpus(id)
  BY Zenon, <1>3, <1>5 DEF ReferCpus
<1>7. f \in [H -> ReferCpus(id)]
  BY <1>5, <1>6
<1>8. \A x, y \in H : f[x] = f[y] => x = y
  <2>1. ASSUME NEW x \in H, NEW y \in H, f[x] = f[y] PROVE x = y
    <3>1. PICK c \in Cpus : \E d \in Nat : x = <<running[c], d>> /\ f[x] = c /\ Refers(id, c, d)
      BY Zenon, <1>3, <1>5
    <3>2. PICK k \in Cpus : \E d \in Nat : y = <<running[k], d>> /\ f[y] = k /\ Refers(id, k, d)
      BY Zenon, <1>3, <1>5
    <3>3. c = k
      BY Zenon, <2>1, <3>1, <3>2
    <3>4. QED
      BY Zenon, <3>1, <3>2, <3>3 DEF PlaceInv, Busy
  <2>2. QED
    BY Zenon, <2>1
<1>9. \A c \in ReferCpus(id) : \E x \in H : f[x] = c
  <2>1. ASSUME NEW c \in ReferCpus(id) PROVE \E x \in H : f[x] = c
    <3>1. PICK d \in Nat : Refers(id, c, d) /\ c \in Cpus
      BY Zenon DEF ReferCpus
    <3>2. <<running[c], d>> \in H
      BY Zenon, <1>4, <3>1
    <3>3. cpu_id(<<running[c], d>>[1]) = c
      <4>1. <<running[c], d>>[1] = running[c]
        BY Zenon
      <4>2. QED
        BY Zenon, <3>1, <4>1, CpuId
    <3>4. QED
      BY Zenon, <1>5, <3>2, <3>3
  <2>2. QED
    BY Zenon, <2>1
<1>10. ReferCpus(id) \in SUBSET Cpus
  BY Zenon DEF ReferCpus
<1> HIDE DEF f
<1>11. QED
  BY Zenon, <1>7, <1>8, <1>9, <1>10, OneEach DEF H

\* A call has one sender at most.
LEMMA OneSender ==
    ASSUME NEW id \in CallIds, TypeInv, CallFrameInv
    PROVE  /\ Sends(id) => Senders(id) = {<<id[1], 1>>} /\ FrameAt(<<id[1], 1>>) = SenderFrame(id)
           /\ ~Sends(id) => Senders(id) = {}
<1>1. id[1] \in Tasks
  BY Zenon, CallId
<1>2. Len(stack[id[1]]) \in Nat
  BY Zenon, <1>1, Lengths
<1>3. ASSUME NEW f \in Senders(id) PROVE f = <<id[1], 1>> /\ Sends(id)
  <2>1. f \in Frames /\ FrameAt(f).fn = "call" /\ FrameAt(f).id = id
    BY Zenon DEF Senders
  <2>2. PICK t \in Tasks, d \in Nat : f = <<t, d>> /\ d \in 1 .. Len(stack[t]) /\ FrameAt(f) = stack[t][d]
    BY Zenon, <2>1, FramePair
  <2>3. CallFrameOk(t, d, stack[t][d], running, ops, calls)
    BY Zenon, <2>2 DEF CallFrameInv
  <2>4. d = 1 /\ id = <<t, ops[t]>>
    BY Zenon, <2>1, <2>2, <2>3 DEF CallFrameOk
  <2>5. id[1] = t
    BY <2>4
  <2>6. Len(stack[t]) # 0
    BY <2>2
  <2>7. QED
    BY Zenon, <2>1, <2>2, <2>4, <2>5, <2>6 DEF Sends, SenderFrame
<1>4. ASSUME Sends(id) PROVE <<id[1], 1>> \in Senders(id) /\ FrameAt(<<id[1], 1>>) = SenderFrame(id)
  <2>1. 1 \in 1 .. Len(stack[id[1]])
    BY <1>2, <1>4 DEF Sends
  <2>2. <<id[1], 1>> \in Frames /\ FrameAt(<<id[1], 1>>) = stack[id[1]][1]
    BY Zenon, <1>1, <2>1, FramePair
  <2>3. QED
    BY Zenon, <1>4, <2>2 DEF Senders, Sends, SenderFrame
<1>5. Sends(id) => Senders(id) = {<<id[1], 1>>}
  BY Zenon, <1>3, <1>4
<1>6. QED
  BY Zenon, <1>3, <1>4, <1>5

\* A broadcast runs on its cpu.
LEMMA BroadcastRuns ==
    ASSUME BroadcastContext, NEW id \in CallIds, TypeInv, CallFrameInv, RunningInv, Sends(id), SenderFrame(id).broadcast
    PROVE  cpu_id(id[1]) \in Cpus /\ \A c \in Cpus : running[c] = id[1] <=> c = cpu_id(id[1])
<1>1. id[1] \in Tasks /\ id[1] \in Procs
  BY Zenon, CallId
<1>2. Len(stack[id[1]]) \in Nat
  BY Zenon, <1>1, Lengths
<1>3. 1 \in 1 .. Len(stack[id[1]])
  BY <1>2 DEF Sends
<1>4. CallFrameOk(id[1], 1, SenderFrame(id), running, ops, calls)
  BY Zenon, <1>1, <1>3 DEF CallFrameInv, SenderFrame
<1>5. "broadcast" \in Kinds
  BY Zenon, <1>4 DEF CallFrameOk, Sends
<1>6. PICK c \in Cpus : running[c] = id[1]
  BY Zenon, <1>1, <1>5 DEF BroadcastContext, RunningInv
<1>7. QED
  BY Zenon, <1>6, CpuId

LEMMA CountUnsent ==
    ASSUME BroadcastContext, NEW id \in CallIds, TypeInv, CallFrameInv, RunningInv
    PROVE  Cardinality(Unsents(id)) = Cardinality(UnsentCpus(id))
<1> DEFINE U == Unsents(id)
           f == [x \in U |-> x[2]]
           s == <<id[1], 1>>
<1>1. id[1] \in Tasks /\ s[1] = id[1]
  BY CallId
<1>2. Sends(id) => SenderFrame(id).i \in Nat /\ SenderFrame(id).last \in Nat
  <2>1. SUFFICES ASSUME Sends(id) PROVE SenderFrame(id).i \in Nat /\ SenderFrame(id).last \in Nat
    BY Zenon
  <2>2. Len(stack[id[1]]) \in Nat
    BY Zenon, <1>1, Lengths
  <2>3. 1 \in 1 .. Len(stack[id[1]])
    BY <2>1, <2>2 DEF Sends
  <2>4. SenderFrame(id) \in AllFrames
    BY Zenon, <1>1, <2>3, SeqElement DEF TypeInv, SenderFrame
  <2>5. SenderFrame(id).fn = "call"
    BY Zenon, <2>1 DEF Sends
  <2>6. QED
    BY <2>4, <2>5, NCpusAssumption DEF AllFrames, CallFrames, TlbFrames, IrqFrames, Cpus
<1>3. \A c \in Cpus : Sends(id) =>
         (c \in SenderFrame(id).i .. SenderFrame(id).last <=> SenderFrame(id).i <= c /\ c <= SenderFrame(id).last)
  BY <1>2, NCpusAssumption DEF Cpus
<1>4. \A c \in Cpus : Sends(id) /\ SenderFrame(id).broadcast => (running[c] # id[1] <=> c # cpu_id(id[1]))
  BY Zenon, BroadcastRuns
<1>5. ASSUME NEW x \in U
      PROVE  x[2] \in Cpus /\ x = <<s, x[2]>> /\ Unsent(id, x[2])
  <2>1. /\ x \in Senders(id) \X Cpus /\ FrameAt(x[1]).at = "send"
        /\ x[2] \in FrameAt(x[1]).i .. FrameAt(x[1]).last
        /\ FrameAt(x[1]).broadcast => x[2] # cpu_id(x[1][1])
    BY Zenon DEF Unsents
  <2>2. x[1] \in Senders(id) /\ x[2] \in Cpus /\ x = <<x[1], x[2]>>
    BY <2>1
  <2>3. x[1] = s /\ Sends(id) /\ FrameAt(s) = SenderFrame(id)
    BY Zenon, <2>2, OneSender
  <2>4. QED
    BY Zenon, <1>1, <1>3, <1>4, <2>1, <2>2, <2>3 DEF Unsent
<1>6. ASSUME NEW c \in Cpus, Unsent(id, c)
      PROVE  <<s, c>> \in U /\ <<s, c>>[2] = c
  <2>1. Sends(id)
    BY Zenon, <1>6 DEF Unsent
  <2>2. s \in Senders(id) /\ FrameAt(s) = SenderFrame(id)
    BY Zenon, <2>1, OneSender
  <2>3. <<s, c>>[1] = s /\ <<s, c>>[2] = c /\ <<s, c>> \in Senders(id) \X Cpus
    BY <2>2
  <2>4. QED
    BY Zenon, <1>1, <1>3, <1>4, <1>6, <2>1, <2>2, <2>3 DEF Unsent, Unsents
<1> HIDE DEF U, s
<1>7. \A x \in U : f[x] = x[2]
  BY Zenon
<1>8. \A x \in U : f[x] \in UnsentCpus(id)
  BY Zenon, <1>5, <1>7 DEF UnsentCpus
<1>9. f \in [U -> UnsentCpus(id)]
  BY <1>7, <1>8
<1>10. \A x, y \in U : f[x] = f[y] => x = y
  BY Zenon, <1>5, <1>7
<1>11. \A c \in UnsentCpus(id) : \E x \in U : f[x] = c
  BY Zenon, <1>6, <1>7 DEF UnsentCpus
<1>12. UnsentCpus(id) \in SUBSET Cpus
  BY Zenon DEF UnsentCpus
<1> HIDE DEF f
<1>13. QED
  BY Zenon, <1>9, <1>10, <1>11, <1>12, OneEach DEF U

LEMMA CountReferences ==
    ASSUME BroadcastContext, IInv, CallInv, NEW id \in CallIds
    PROVE  /\ References(id) = Cardinality(Left(id)) + (IF calls[id].is_synchronous /\ Sends(id) THEN 1 ELSE 0)
           /\ Cardinality(Left(id)) \in Nat
<1>1. PlaceInv(id) /\ TypeInv /\ CallFrameInv /\ RunningInv
  BY Zenon DEF CallInv, IInv
<1>2. /\ Cardinality(Queued(CallMessage(id))) = Cardinality(PostedCpus(id))
      /\ Cardinality(Held(id)) = Cardinality(ReferCpus(id))
      /\ Cardinality(Unsents(id)) = Cardinality(UnsentCpus(id))
  BY Zenon, <1>1, CountQueued, CountHeld, CountUnsent
<1>3. Cardinality(Senders(id)) = IF Sends(id) THEN 1 ELSE 0
  <2>1. CASE Sends(id)
    BY Zenon, <1>1, <2>1, OneSender, FS_Singleton
  <2>2. CASE ~Sends(id)
    BY Zenon, <1>1, <2>2, OneSender, FS_EmptySet
  <2>3. QED
    BY Zenon, <2>1, <2>2
<1>4. Cardinality(Left(id)) =
         Cardinality(Queued(CallMessage(id))) + Cardinality(Held(id)) + Cardinality(Unsents(id))
  BY Zenon, <1>1, <1>2, LeftSum
<1>5. Cardinality(Left(id)) \in Nat
  BY Zenon, Lists, CpuSets
<1>6. References(id) = Cardinality(Left(id)) + (IF calls[id].is_synchronous THEN Cardinality(Senders(id)) ELSE 0)
  BY Zenon, <1>4, ReferencesSum
<1>7. QED
  BY SMTT(30), <1>3, <1>5, <1>6

\* What the invariant says of reference counts...
LEMMA CountsExact ==
    ASSUME BroadcastContext, IInv, CallInv
    PROVE  RefCountExact
<1>1. ASSUME NEW id \in CallIds, calls[id].state = "live"
      PROVE  calls[id].ref_count = References(id) /\ References(id) > 0
  <2>1. CallCounts(id)
    BY Zenon DEF CallInv
  <2>2. CASE calls[id].is_synchronous
    <3>1. Sends(id) /\ calls[id].ref_count = Cardinality(Left(id)) + 1
      BY Zenon, <1>1, <2>1, <2>2 DEF CallCounts
    <3>2. QED
      BY <2>2, <3>1, CountReferences
  <2>3. CASE ~calls[id].is_synchronous
    <3>1. Left(id) # {} /\ calls[id].ref_count = Cardinality(Left(id))
      BY Zenon, <1>1, <2>1, <2>3 DEF CallCounts
    <3>2. Cardinality(Left(id)) # 0
      BY Zenon, <3>1, Lists, CpuSets
    <3>3. QED
      BY <2>3, <3>1, <3>2, CountReferences
  <2>4. QED
    BY Zenon, <2>2, <2>3
<1>2. ASSUME NEW id \in CallIds, calls[id].state # "live"
      PROVE  References(id) = 0
  <2>1. Open(id) = {} /\ ~(calls[id].is_synchronous /\ Sends(id))
    BY Zenon, <1>2 DEF CallInv, CallCounts
  <2>2. Left(id) = {}
    BY Zenon, <2>1, Lists
  <2>3. Cardinality(Left(id)) = 0
    BY Zenon, <2>2, FS_EmptySet
  <2>4. QED
    BY <2>1, <2>3, CountReferences
<1>3. QED
  BY Zenon, <1>1, <1>2 DEF RefCountExact

\* ...and of the sender that waits.
LEMMA WaitDone ==
    ASSUME BroadcastContext, IInv, CallInv
    PROVE  SyncCallDone
<1>1. ASSUME NEW f \in Frames, FrameAt(f).fn = "call", FrameAt(f).at = "wait",
             calls[FrameAt(f).id].completed_count = Awaited(FrameAt(f))
      PROVE  /\ calls[FrameAt(f).id].ref_count = 1
             /\ calls[FrameAt(f).id].executed = Destinations(FrameAt(f), cpu_id(f[1]))
  <2>1. TypeInv /\ CallFrameInv /\ RunningInv
    BY Zenon DEF CallInv, IInv
  <2>2. PICK t \in Tasks, d \in Nat :
           f = <<t, d>> /\ f[1] = t /\ d \in 1 .. Len(stack[t]) /\ FrameAt(f) = stack[t][d]
    BY Zenon, <2>1, FramePair
  <2>3. FrameAt(f) \in AllFrames
    <3>1. stack[t] \in Seq(AllFrames)
      BY Zenon, <2>1 DEF TypeInv
    <3>2. stack[t][d] \in AllFrames
      BY Zenon, <2>2, <3>1, SeqElement
    <3>3. QED
      BY Zenon, <2>2, <3>2
  <2>4. PICK id \in CallIds : FrameAt(f).id = id
    BY <1>1, <2>3 DEF AllFrames, CallFrames, TlbFrames, IrqFrames
  <2>5. f \in Senders(id)
    BY Zenon, <1>1, <2>4 DEF Senders
  <2>6. Sends(id) /\ FrameAt(f) = SenderFrame(id) /\ f = <<id[1], 1>>
    BY Zenon, <2>1, <2>5, OneSender
  <2>7. t = id[1]
    BY <2>2, <2>6
  <2>8. calls[id].is_synchronous
    <3>1. CallFrameOk(t, d, stack[t][d], running, ops, calls)
      BY Zenon, <2>1, <2>2 DEF CallFrameInv
    <3>2. QED
      BY Zenon, <1>1, <2>2, <2>4, <3>1 DEF CallFrameOk
  <2>9. CallCounts(id)
    BY Zenon DEF CallInv
  <2>10. /\ calls[id].completed_count + Cardinality(Open(id)) = Awaited(SenderFrame(id))
         /\ calls[id].executed \cup Open(id) = Targets(id)
    BY Zenon, <2>6, <2>8, <2>9 DEF CallCounts
  <2>11. calls[id].state = "live"
    BY Zenon, <2>6, <2>8, <2>9 DEF CallCounts
  <2>12. calls[id].ref_count = Cardinality(Left(id)) + 1
    BY Zenon, <2>8, <2>9, <2>11 DEF CallCounts
  <2>13. Open(id) = {}
    <3>1. calls[id].completed_count \in Nat
      BY Zenon DEF CallInv, CallTypes
    <3>2. Cardinality(Open(id)) \in Nat /\ (Cardinality(Open(id)) = 0 => Open(id) = {})
      BY Zenon, Lists, CpuSets
    <3>3. calls[id].completed_count + Cardinality(Open(id)) = calls[id].completed_count
      BY Zenon, <1>1, <2>4, <2>6, <2>10
    <3>4. Cardinality(Open(id)) = 0
      BY <3>1, <3>2, <3>3
    <3>5. QED
      BY Zenon, <3>2, <3>4
  <2>14. Cardinality(Left(id)) = 0
    <3>1. Left(id) = {}
      BY Zenon, <2>13, Lists
    <3>2. QED
      BY Zenon, <3>1, FS_EmptySet
  <2>15. calls[id].executed = Targets(id)
    BY <2>10, <2>13
  <2>16. Targets(id) = Destinations(FrameAt(f), cpu_id(f[1]))
    <3>1. CASE SenderFrame(id).broadcast
      <4>1. \A c \in Cpus : running[c] = id[1] <=> c = cpu_id(id[1])
        BY Zenon, <2>1, <2>6, <3>1, BroadcastRuns
      <4>2. {c \in Cpus : running[c] # id[1]} = Cpus \ {cpu_id(id[1])}
        BY Zenon, <4>1
      <4>3. QED
        BY Zenon, <2>2, <2>6, <2>7, <3>1, <4>2 DEF Targets, Destinations
    <3>2. CASE ~SenderFrame(id).broadcast
      BY Zenon, <2>6, <3>2 DEF Targets, Destinations
    <3>3. QED
      BY Zenon, <3>1, <3>2
  <2>17. calls[id].ref_count = 1
    BY SMTT(30), <2>12, <2>14
  <2>18. QED
    BY Zenon, <2>4, <2>15, <2>16, <2>17
<1>2. QED
  BY Zenon, <1>1 DEF SyncCallDone

\* Cpu by cpu, a remote_call_data has one reference at most: the sender has still
\* to enqueue the message, a queue has it, or the handler on that cpu does;
\* ref_count and completed_count of exec_remote_call() count these cpus.
THEOREM CallInvariant ==
    ASSUME BroadcastContext
    PROVE  Spec => [](IInv /\ CallInv)
<1>1. Init => IInv /\ CallInv
  BY Initially, CallsInitially
<1>2. (IInv /\ CallInv) /\ [Next]_vars => (IInv /\ CallInv)'
  BY Inductive, CallsInductive
<1>3. QED
  BY <1>1, <1>2, PTL DEF Spec

\* ref_count of a remote_call_data that is allocated is the number of the messages
\* and frames that will still use it, and the structure is freed when there is
\* none: handle_remote_call() and the sender never use it after it is freed.
THEOREM RefCountExactTheorem ==
    ASSUME BroadcastContext
    PROVE  Spec => []RefCountExact
<1>1. IInv /\ CallInv => RefCountExact
  BY Zenon, CountsExact
<1>2. QED
  BY <1>1, CallInvariant, PTL

\* When exec_remote_call() or broadcast_remote_call() has seen the completions it
\* waits for, every cpu that it addressed has run the function, and ref_count is 1
\* as it asserts.
THEOREM SyncCallDoneTheorem ==
    ASSUME BroadcastContext
    PROVE  Spec => []SyncCallDone
<1>1. IInv /\ CallInv => SyncCallDone
  BY Zenon, WaitDone
<1>2. QED
  BY <1>1, CallInvariant, PTL

=============================================================================
