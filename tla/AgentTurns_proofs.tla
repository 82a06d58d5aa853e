------------------------- MODULE AgentTurns_proofs -------------------------
(***************************************************************************)
(* Proofs about AgentTurns, for any number of turns, conversations and     *)
(* shutdowns.  LockInv says that a turn that works is the first in the     *)
(* queue of the lock it took.  On top of it WarmInv says that, while       *)
(* nothing forgets the process of a warm conversation, all its turns take  *)
(* the same lock; OneInv the same of a conversation that has no process    *)
(* yet; and OwnInv what a process holds when turns do not overlap.         *)
(***************************************************************************)
EXTENDS AgentTurns, TLAPS

Holds ==
    \A t \in Tasks :
        /\ pc[t] \in Locked \cup {"lock"} => taken[t] \in LockObjects
        /\ pc[t] \in Locked => HasLock(t)

LockInv == TypeOK /\ Holds

(* What a task that queues up does to the queues.                          *)
LEMMA QueueUpFacts ==
  ASSUME TypeOK, NEW t \in Tasks, NEW l \in LockObjects, QueueUp(t, l)
  PROVE  /\ taken' = [taken EXCEPT ![t] = l]
         /\ taken' \in [Tasks -> LockObjects \cup {None}]
         /\ queue' \in [LockObjects -> Seq(Tasks)]
         /\ \A k \in LockObjects : queue[k] # <<>> =>
                queue'[k] # <<>> /\ Head(queue'[k]) = Head(queue[k])
         /\ queue[l] = <<>> => queue'[l] # <<>> /\ Head(queue'[l]) = t
<1>1. queue' = [queue EXCEPT ![l] = Append(queue[l], t)]
  BY DEF QueueUp
<1>2. queue[l] \in Seq(Tasks)
  BY DEF TypeOK
<1>3. /\ Append(queue[l], t) \in Seq(Tasks)
      /\ Append(queue[l], t) # <<>>
      /\ queue[l] # <<>> => Head(Append(queue[l], t)) = Head(queue[l])
      /\ queue[l] = <<>> => Head(Append(queue[l], t)) = t
  BY <1>2
<1>. QED
  BY <1>1, <1>2, <1>3 DEF QueueUp, TypeOK

(* A holder that leaves hands its lock over and touches no other queue.    *)
LEMMA LeaveFacts ==
  ASSUME LockInv, NEW t \in Tasks, NEW outcome \in Steps, Leave(t, outcome),
         taken[t] \in LockObjects, HasLock(t)
  PROVE  /\ queue' \in [LockObjects -> Seq(Tasks)]
         /\ pc' = [pc EXCEPT ![t] = outcome]
         /\ pc' \in [Tasks -> Steps]
         /\ \A k \in LockObjects : k # taken[t] => queue'[k] = queue[k]
<1>1. queue' = [queue EXCEPT ![taken[t]] = Tail(queue[taken[t]])]
  BY DEF Leave
<1>2. queue[taken[t]] \in Seq(Tasks) /\ queue[taken[t]] # <<>>
  BY DEF LockInv, TypeOK, HasLock
<1>3. Tail(queue[taken[t]]) \in Seq(Tasks)
  BY <1>2
<1>. QED
  BY <1>1, <1>3 DEF Leave, Goto, LockInv, TypeOK

-----------------------------------------------------------------------------
(* Three ways a task's step keeps Holds: it goes on under its lock, it     *)
(* gives its lock up, it neither has a lock nor takes one.                 *)

LEMMA StayingHolds ==
  ASSUME LockInv, NEW t \in Tasks, NEW step \in Locked, pc[t] \in Locked,
         Goto(t, step), UNCHANGED lockVars
  PROVE  Holds' /\ pc' \in [Tasks -> Steps]
  BY DEF LockInv, TypeOK, Holds, HasLock, Goto, lockVars, Steps

LEMMA LeavingHolds ==
  ASSUME LockInv, NEW t \in Tasks, NEW outcome \in Ended \cup {"next"},
         Leave(t, outcome), taken[t] \in LockObjects, HasLock(t), UNCHANGED taken
  PROVE  /\ Holds'
         /\ pc' \in [Tasks -> Steps]
         /\ queue' \in [LockObjects -> Seq(Tasks)]
<1>1. outcome \in Steps /\ outcome \notin Locked \cup {"lock"}
  BY DEF Steps, Ended, Locked, Waiting
<1>2. /\ queue' \in [LockObjects -> Seq(Tasks)]
      /\ pc' = [pc EXCEPT ![t] = outcome]
      /\ pc' \in [Tasks -> Steps]
      /\ \A k \in LockObjects : k # taken[t] => queue'[k] = queue[k]
  BY <1>1, LeaveFacts
<1>3. ASSUME NEW u \in Tasks, pc'[u] \in Locked \cup {"lock"}
      PROVE  /\ taken'[u] \in LockObjects
             /\ pc'[u] \in Locked => HasLock(u)'
  <2>1. u # t /\ pc'[u] = pc[u]
    BY <1>1, <1>2, <1>3 DEF LockInv, TypeOK
  <2>2. taken[u] \in LockObjects /\ (pc[u] \in Locked => HasLock(u))
    BY <1>3, <2>1 DEF LockInv, Holds
  <2>3. pc[u] \in Locked => taken[u] # taken[t]
    BY <2>1, <2>2 DEF HasLock
  <2>. QED
    BY <1>2, <2>1, <2>2, <2>3 DEF HasLock
<1>. QED
  BY <1>2, <1>3 DEF Holds

LEMMA OutsideHolds ==
  ASSUME LockInv, NEW t \in Tasks, NEW step \in Steps \ (Locked \cup {"lock"}),
         Goto(t, step), UNCHANGED lockVars
  PROVE  Holds' /\ pc' \in [Tasks -> Steps]
  BY DEF LockInv, TypeOK, Holds, HasLock, Goto, lockVars, Steps

(* Queueing up: at the head of an empty queue, or behind its holder.       *)
LEMMA QueueingHolds ==
  ASSUME LockInv, NEW t \in Tasks, NEW l \in LockObjects, QueueUp(t, l),
         NEW step \in Steps, Goto(t, step),
         step \in Locked => queue[l] = <<>>,
         pc[t] \notin Locked
  PROVE  Holds' /\ pc' \in [Tasks -> Steps]
<1>1. /\ taken' = [taken EXCEPT ![t] = l]
      /\ \A k \in LockObjects : queue[k] # <<>> =>
             queue'[k] # <<>> /\ Head(queue'[k]) = Head(queue[k])
      /\ queue[l] = <<>> => queue'[l] # <<>> /\ Head(queue'[l]) = t
  BY QueueUpFacts DEF LockInv
<1>2. pc' = [pc EXCEPT ![t] = step] /\ pc' \in [Tasks -> Steps]
  BY DEF Goto, LockInv, TypeOK
<1>3. ASSUME NEW u \in Tasks, pc'[u] \in Locked \cup {"lock"}
      PROVE  /\ taken'[u] \in LockObjects
             /\ pc'[u] \in Locked => HasLock(u)'
  <2>1. CASE u = t
    BY <1>1, <1>2, <2>1 DEF LockInv, TypeOK, HasLock
  <2>2. CASE u # t
    <3>1. pc'[u] = pc[u] /\ taken'[u] = taken[u]
      BY <1>1, <1>2, <2>2 DEF LockInv, TypeOK
    <3>2. taken[u] \in LockObjects /\ (pc[u] \in Locked => HasLock(u))
      BY <1>3, <3>1 DEF LockInv, Holds
    <3>. QED
      BY <1>1, <3>1, <3>2 DEF HasLock
  <2>. QED
    BY <2>1, <2>2
<1>. QED
  BY <1>2, <1>3 DEF Holds

(* Entering, for a task that has the lock: it spawns or it has a process.  *)
LEMMA EnterFacts ==
  ASSUME LockInv, NEW t \in Turns, Enter(t)
  PROVE  \E step \in {"spawn", "send"} :
            /\ Goto(t, step)
            /\ proc' \in [Tasks -> Processes \cup {None}]
            /\ step = "send" => proc'[t] # None
            /\ \A u \in Tasks : u # t => proc'[u] = proc[u]
<1>1. t \in Tasks /\ Conv[t] \in Conversations
  BY TasksAssumption DEF Tasks
<1>2. agents[Conv[t]] \in Processes \cup {None}
  BY <1>1 DEF LockInv, TypeOK
<1>3. CASE agents[Conv[t]] = None
  BY <1>1, <1>2, <1>3 DEF Enter, LockInv, TypeOK
<1>4. CASE agents[Conv[t]] # None
  BY <1>1, <1>2, <1>4 DEF Enter, LockInv, TypeOK
<1>. QED
  BY <1>3, <1>4

-----------------------------------------------------------------------------
(* The steps of a turn keep LockInv.                                       *)

LEMMA TurnFacts ==
  ASSUME NEW t \in Turns
  PROVE  t \in Tasks /\ t \notin Shutdowns /\ Conv[t] \in Conversations
  BY TasksAssumption DEF Tasks

LEMMA ArriveKeeps ==
  ASSUME LockInv, NEW t \in Turns, Arrive(t)
  PROVE  LockInv'
<1>. DEFINE l == LockOf(Conv[t], Lock(Conv[t], t, "arrive"))
<1>1. l \in LockObjects
  BY TurnFacts DEF LockOf, Lock, LockObjects, LockInv, TypeOK
<1>2. PICK step \in {"spawn", "send", "lock"} :
        /\ Goto(t, step)
        /\ step # "lock" => queue[l] = <<>>
        /\ proc' \in [Tasks -> Processes \cup {None}]
        /\ step = "send" => proc'[t] # None
        /\ \A u \in Tasks : u # t => proc'[u] = proc[u]
  <2>1. CASE queue[l] = <<>>
    BY <2>1, EnterFacts DEF Arrive
  <2>2. CASE queue[l] # <<>>
    BY <2>2 DEF Arrive, LockInv, TypeOK
  <2>. QED
    BY <2>1, <2>2
<1>3. step \in Steps /\ (step \in Locked => step # "lock") /\ pc[t] \notin Locked
  BY DEF Steps, Locked, Waiting, Arrive
<1>4. QueueUp(t, l)
  BY DEF Arrive
<1>5. Holds' /\ pc' \in [Tasks -> Steps]
  BY <1>1, <1>2, <1>3, <1>4, TurnFacts, QueueingHolds
<1>6. taken' \in [Tasks -> LockObjects \cup {None}] /\ queue' \in [LockObjects -> Seq(Tasks)]
  BY <1>1, <1>4, TurnFacts, QueueUpFacts DEF LockInv
<1>7. locks' \in [Conversations -> LockObjects \cup {None}]
  BY <1>1 DEF Arrive, LockInv, TypeOK
<1>8. \A u \in Turns : pc'[u] \in Locked \ {"spawn"} => proc'[u] # None
  BY <1>2, TurnFacts DEF Goto, Locked, Waiting, LockInv, TypeOK
<1>. QED
  BY <1>2, <1>5, <1>6, <1>7, <1>8 DEF Arrive, processVars, LockInv, TypeOK

LEMMA AcquireKeeps ==
  ASSUME LockInv, NEW t \in Turns, Acquire(t)
  PROVE  LockInv'
<1>1. PICK step \in {"spawn", "send"} :
        /\ Goto(t, step)
        /\ proc' \in [Tasks -> Processes \cup {None}]
        /\ step = "send" => proc'[t] # None
        /\ \A u \in Tasks : u # t => proc'[u] = proc[u]
  BY EnterFacts DEF Acquire
<1>2. /\ pc[t] = "lock" /\ HasLock(t) /\ UNCHANGED lockVars
      /\ step \in Locked /\ Locked \subseteq Steps
  BY DEF Acquire, Locked, Steps, Waiting
<1>3. Holds' /\ pc' \in [Tasks -> Steps]
  BY <1>1, <1>2, TurnFacts DEF LockInv, TypeOK, Holds, HasLock, Goto, lockVars
<1>4. \A u \in Turns : pc'[u] \in Locked \ {"spawn"} => proc'[u] # None
  BY <1>1, TurnFacts DEF Goto, Locked, Waiting, LockInv, TypeOK
<1>. QED
  BY <1>1, <1>3, <1>4 DEF Acquire, managerVars, lockVars, processVars, LockInv, TypeOK

LEMMA SpawnKeeps ==
  ASSUME LockInv, NEW t \in Turns, Spawn(t)
  PROVE  LockInv'
<1>1. /\ t \in Tasks /\ Conv[t] \in Conversations /\ t \in Processes
      /\ pc[t] \in Locked /\ taken[t] \in LockObjects /\ HasLock(t)
  BY TurnFacts DEF Processes, Spawn, Locked, LockInv, Holds
<1>2. CASE Goto(t, "send") /\ UNCHANGED queue
           /\ agents' = [agents EXCEPT ![Conv[t]] = t]
           /\ locks' = [locks EXCEPT ![Conv[t]] = Lock(Conv[t], t, "spawn")]
           /\ running' = running \cup {t}
           /\ proc' = [proc EXCEPT ![t] = t]
  <2>1. Holds' /\ pc' \in [Tasks -> Steps]
    BY <1>1, <1>2, StayingHolds DEF Spawn, Locked, lockVars
  <2>2. Lock(Conv[t], t, "spawn") \in LockObjects
    BY <1>1 DEF Lock, LockObjects
  <2>3. \A u \in Turns : pc'[u] \in Locked \ {"spawn"} => proc'[u] # None
    BY <1>1, <1>2, TurnFacts, TasksAssumption DEF Goto, Tasks, LockInv, TypeOK
  <2>4. /\ agents' \in [Conversations -> Processes \cup {None}]
        /\ locks' \in [Conversations -> LockObjects \cup {None}]
        /\ proc' \in [Tasks -> Processes \cup {None}]
    BY <1>1, <1>2, <2>2 DEF LockInv, TypeOK
  <2>. QED
    BY <1>1, <1>2, <2>1, <2>3, <2>4 DEF Spawn, LockInv, TypeOK
<1>3. CASE /\ locks' = [locks EXCEPT ![Conv[t]] = None]
           /\ Leave(t, "failed") /\ UNCHANGED <<agents, running, proc>>
  <2>1. Holds' /\ pc' \in [Tasks -> Steps] /\ queue' \in [LockObjects -> Seq(Tasks)]
    BY <1>1, <1>3, LeavingHolds DEF Spawn, Ended
  <2>2. pc' = [pc EXCEPT ![t] = "failed"]
    BY <1>3 DEF Leave, Goto
  <2>3. \A u \in Turns : pc'[u] \in Locked \ {"spawn"} => proc'[u] # None
    BY <1>3, <2>2, TurnFacts DEF Locked, Waiting, LockInv, TypeOK
  <2>. QED
    BY <1>1, <1>3, <2>1, <2>3 DEF Spawn, LockInv, TypeOK
<1>. QED
  BY <1>2, <1>3 DEF Spawn

(* A turn that works on a process writes a line to it or reads one.        *)
LEMMA WriteTyped ==
  ASSUME LockInv, NEW t \in Turns, NEW what \in Waiting, Write(t, what),
         pc[t] \in Locked \ {"spawn"}
  PROVE  stdin' \in [Processes -> Seq(Inputs)]
<1>1. proc[t] \in Processes
  BY TurnFacts DEF LockInv, TypeOK
<1>2. Append(stdin[proc[t]], <<t, what>>) \in Seq(Inputs)
  BY <1>1 DEF LockInv, TypeOK, Inputs
<1>. QED
  BY <1>1, <1>2 DEF Write, LockInv, TypeOK

LEMMA ConsumeTyped ==
  ASSUME LockInv, NEW t \in Turns, Consume(t), Out(t) # <<>>,
         pc[t] \in Locked \ {"spawn"}
  PROVE  stdout' \in [Processes -> Seq(Lines)]
<1>1. proc[t] \in Processes
  BY TurnFacts DEF LockInv, TypeOK
<1>2. Tail(stdout[proc[t]]) \in Seq(Lines)
  BY <1>1 DEF LockInv, TypeOK, Out
<1>. QED
  BY <1>1, <1>2 DEF Consume, LockInv, TypeOK

(* A turn that goes on under its lock, or leaves, keeps what is said of    *)
(* tasks and queues.                                                       *)
LEMMA StayingKeeps ==
  ASSUME LockInv, NEW t \in Turns, NEW step \in Locked, Goto(t, step),
         pc[t] \in Locked \ {"spawn"}, UNCHANGED <<queue, taken, proc>>
  PROVE  /\ Holds'
         /\ pc' \in [Tasks -> Steps]
         /\ \A u \in Turns : pc'[u] \in Locked \ {"spawn"} => proc'[u] # None
<1>1. Holds' /\ pc' \in [Tasks -> Steps]
  BY TurnFacts, StayingHolds DEF lockVars
<1>. QED
  BY <1>1, TurnFacts DEF Goto, LockInv, TypeOK

LEMMA LeavingKeeps ==
  ASSUME LockInv, NEW t \in Turns, NEW outcome \in Ended, Leave(t, outcome),
         pc[t] \in Locked, UNCHANGED <<taken, proc>>
  PROVE  /\ Holds'
         /\ pc' \in [Tasks -> Steps]
         /\ queue' \in [LockObjects -> Seq(Tasks)]
         /\ \A u \in Turns : pc'[u] \in Locked \ {"spawn"} => proc'[u] # None
<1>1. t \in Tasks /\ taken[t] \in LockObjects /\ HasLock(t)
  BY TurnFacts DEF LockInv, Holds
<1>2. Holds' /\ pc' \in [Tasks -> Steps] /\ queue' \in [LockObjects -> Seq(Tasks)]
  BY <1>1, LeavingHolds
<1>3. pc' = [pc EXCEPT ![t] = outcome] /\ outcome \notin Locked
  BY DEF Leave, Goto, Locked, Waiting, Ended
<1>. QED
  BY <1>1, <1>2, <1>3, TurnFacts DEF LockInv, TypeOK

LEMMA SendPromptKeeps ==
  ASSUME LockInv, NEW t \in Turns, SendPrompt(t)
  PROVE  LockInv'
<1>1. /\ pc[t] \in Locked \ {"spawn"}
      /\ "stream" \in Locked /\ "stream" \in Waiting /\ "failed" \in Ended
  BY DEF SendPrompt, Locked, Waiting, Ended
<1>2. CASE Write(t, "stream") /\ Goto(t, "stream") /\ UNCHANGED <<queue, running>>
  BY <1>1, <1>2, StayingKeeps, WriteTyped DEF SendPrompt, managerVars, LockInv, TypeOK
<1>3. CASE Leave(t, "failed") /\ running' \subseteq running /\ UNCHANGED stdin
  BY <1>1, <1>3, LeavingKeeps DEF SendPrompt, managerVars, LockInv, TypeOK
<1>. QED
  BY <1>2, <1>3 DEF SendPrompt

LEMMA ReadTurnKeeps ==
  ASSUME LockInv, NEW t \in Turns, ReadTurn(t)
  PROVE  LockInv'
<1>1. /\ pc[t] \in Locked \ {"spawn"} /\ "askContext" \in Locked /\ "failed" \in Ended
  BY DEF ReadTurn, Locked, Waiting, Ended
<1>2. stdout' \in [Processes -> Seq(Lines)]
  BY <1>1, ConsumeTyped DEF ReadTurn
<1>3. CASE Goto(t, "askContext") /\ UNCHANGED <<agents, queue>>
  BY <1>1, <1>2, <1>3, StayingKeeps DEF ReadTurn, LockInv, TypeOK
<1>4. CASE agents' = [agents EXCEPT ![Conv[t]] = None] /\ Leave(t, "failed")
  BY <1>1, <1>2, <1>4, LeavingKeeps DEF ReadTurn, LockInv, TypeOK
<1>. QED
  BY <1>3, <1>4 DEF ReadTurn

LEMMA ExpireTurnKeeps ==
  ASSUME LockInv, NEW t \in Turns, ExpireTurn(t)
  PROVE  LockInv'
<1>1. pc[t] \in Locked \ {"spawn"} /\ "askContext" \in Locked
  BY DEF ExpireTurn, Locked, Waiting
<1>. QED
  BY <1>1, StayingKeeps DEF ExpireTurn, managerVars, lockVars, processVars, LockInv, TypeOK

LEMMA PollStatusKeeps ==
  ASSUME LockInv, NEW t \in Turns, PollStatus(t)
  PROVE  LockInv'
<1>1. ASSUME NEW step \in {"askContext", "askCost"}, NEW what \in {"context", "cost"},
             Ask(t, step, what)
      PROVE  LockInv'
  <2>1. /\ pc[t] \in Locked \ {"spawn"}
        /\ what \in Locked /\ what \in Waiting /\ "done" \in Ended
    BY <1>1 DEF Ask, Locked, Waiting, Ended
  <2>2. CASE Write(t, what) /\ Goto(t, what) /\ UNCHANGED queue
    BY <1>1, <2>1, <2>2, StayingKeeps, WriteTyped DEF Ask, managerVars, LockInv, TypeOK
  <2>3. CASE Leave(t, "done") /\ UNCHANGED stdin
    BY <1>1, <2>1, <2>3, LeavingKeeps DEF Ask, managerVars, LockInv, TypeOK
  <2>. QED
    BY <1>1, <2>2, <2>3 DEF Ask
<1>2. ASSUME NEW what \in {"context", "cost"}, NEW next \in {"askCost", "done"},
             Answered(t, what, next)
      PROVE  LockInv'
  <2>1. pc[t] \in Locked \ {"spawn"} /\ "askCost" \in Locked /\ "done" \in Ended
    BY <1>2 DEF Answered, Locked, Waiting, Ended
  <2>2. stdout' \in [Processes -> Seq(Lines)]
    BY <1>2, <2>1, ConsumeTyped DEF Answered, LockInv, TypeOK
  <2>3. CASE Proceed(t, next)
    <3>1. CASE next = "done"
      BY <1>2, <2>1, <2>2, <2>3, <3>1, LeavingKeeps
      DEF Proceed, Answered, managerVars, LockInv, TypeOK
    <3>2. CASE next # "done"
      BY <1>2, <2>1, <2>2, <2>3, <3>2, StayingKeeps
      DEF Proceed, Answered, managerVars, LockInv, TypeOK
    <3>. QED
      BY <3>1, <3>2
  <2>4. CASE UNCHANGED <<pc, queue>>
    BY <1>2, <2>2, <2>4
    DEF Answered, managerVars, LockInv, TypeOK, Holds, HasLock
  <2>. QED
    BY <1>2, <2>3, <2>4 DEF Answered
<1>. QED
  BY <1>1, <1>2 DEF PollStatus

(* A waiter that leaves its place is not the holder if there is one.       *)
LEMMA RemoveAtFacts ==
  ASSUME NEW S, NEW q \in Seq(S), NEW i \in 1..Len(q)
  PROVE  /\ RemoveAt(q, i) \in Seq(S)
         /\ i # 1 => RemoveAt(q, i) # <<>> /\ Head(RemoveAt(q, i)) = Head(q)
<1>. DEFINE front == SubSeq(q, 1, i - 1)
            back == SubSeq(q, i + 1, Len(q))
<1>1. front \in Seq(S) /\ back \in Seq(S)
  OBVIOUS
<1>2. RemoveAt(q, i) = front \o back
  BY DEF RemoveAt
<1>3. ASSUME i # 1 PROVE Len(front) = i - 1 /\ i - 1 >= 1 /\ front[1] = q[1]
  BY <1>3
<1>4. RemoveAt(q, i) \in Seq(S)
  BY <1>1, <1>2
<1>5. ASSUME i # 1 PROVE RemoveAt(q, i)[1] = q[1] /\ Len(RemoveAt(q, i)) >= 1
  BY <1>1, <1>2, <1>3, <1>5
<1>. QED
  BY <1>4, <1>5

LEMMA AbortKeeps ==
  ASSUME LockInv, NEW t \in Turns, Abort(t)
  PROVE  LockInv'
<1>1. CASE pc[t] \in Locked /\ Leave(t, "failed")
  BY <1>1, LeavingKeeps DEF Abort, Ended, managerVars, processVars, LockInv, TypeOK
<1>2. ASSUME pc[t] = "lock",
             NEW i \in DOMAIN queue[taken[t]], queue[taken[t]][i] = t,
             queue' = [queue EXCEPT ![taken[t]] = RemoveAt(queue[taken[t]], i)],
             Goto(t, "failed")
      PROVE  LockInv'
  <2>. DEFINE l == taken[t]
  <2>1. /\ t \in Tasks /\ l \in LockObjects
        /\ queue[l] \in Seq(Tasks) /\ i \in 1..Len(queue[l])
    BY <1>2, TurnFacts DEF LockInv, TypeOK, Holds
  <2>2. /\ RemoveAt(queue[l], i) \in Seq(Tasks)
        /\ i # 1 => /\ RemoveAt(queue[l], i) # <<>>
                     /\ Head(RemoveAt(queue[l], i)) = Head(queue[l])
    BY <2>1, RemoveAtFacts, Zenon
  <2>3. queue' \in [LockObjects -> Seq(Tasks)]
    BY <1>2, <2>1, <2>2 DEF LockInv, TypeOK
  <2>4. pc' = [pc EXCEPT ![t] = "failed"] /\ pc' \in [Tasks -> Steps]
    BY <1>2 DEF Goto, LockInv, TypeOK, Steps, Ended
  <2>5. ASSUME NEW u \in Tasks, pc'[u] \in Locked \cup {"lock"}
        PROVE  taken'[u] \in LockObjects /\ (pc'[u] \in Locked => HasLock(u)')
    <3>1. u # t /\ pc'[u] = pc[u] /\ taken'[u] = taken[u]
      BY <2>1, <2>4, <2>5 DEF Abort, LockInv, TypeOK, Locked, Waiting
    <3>2. taken[u] \in LockObjects /\ (pc[u] \in Locked => HasLock(u))
      BY <2>5, <3>1 DEF LockInv, Holds
    <3>3. CASE taken[u] # l
      BY <1>2, <2>1, <3>1, <3>2, <3>3 DEF HasLock, LockInv, TypeOK
    <3>4. CASE taken[u] = l
      <4>1. pc[u] \in Locked => i # 1
        BY <1>2, <2>1, <3>1, <3>2, <3>4 DEF HasLock
      <4>. QED
        BY <1>2, <2>1, <2>2, <3>1, <3>2, <3>4, <4>1 DEF HasLock, LockInv, TypeOK
    <3>. QED
      BY <3>3, <3>4
  <2>6. Holds'
    BY <2>5 DEF Holds
  <2>7. \A u \in Turns : pc'[u] \in Locked \ {"spawn"} => proc'[u] # None
    BY <2>1, <2>4, TurnFacts DEF Abort, Locked, Waiting, LockInv, TypeOK
  <2>. QED
    BY <2>3, <2>4, <2>6, <2>7 DEF Abort, managerVars, processVars, LockInv, TypeOK
<1>. QED
  BY <1>1, <1>2 DEF Abort

-----------------------------------------------------------------------------
(* The steps of a shutdown and of the CLI keep LockInv.                    *)

LEMMA ShutdownFacts ==
  ASSUME NEW s \in Shutdowns
  PROVE  s \in Tasks /\ \A u \in Turns : u \in Tasks /\ u # s
  BY TasksAssumption DEF Tasks

LEMMA TerminatedTyped ==
  ASSUME TypeOK, NEW c, NEW p, Terminated(c, p)
  PROVE  /\ running' \subseteq Processes
         /\ agents' \in [Conversations -> Processes \cup {None}]
         /\ locks' \in [Conversations -> LockObjects \cup {None}]
  BY DEF Terminated, TypeOK

LEMMA BeginShutdownKeeps ==
  ASSUME LockInv, NEW s \in Shutdowns, BeginShutdown(s)
  PROVE  LockInv'
<1>1. "next" \in Steps \ (Locked \cup {"lock"})
  BY DEF Steps, Locked, Waiting, Ended
<1>2. Holds' /\ pc' \in [Tasks -> Steps]
  BY <1>1, ShutdownFacts, OutsideHolds DEF BeginShutdown
<1>. QED
  BY <1>2, ShutdownFacts
  DEF BeginShutdown, Goto, managerVars, lockVars, processVars, LockInv, TypeOK

LEMMA EndShutdownKeeps ==
  ASSUME LockInv, NEW s \in Shutdowns, EndShutdown(s)
  PROVE  LockInv'
<1>1. "done" \in Steps \ (Locked \cup {"lock"})
  BY DEF Steps, Locked, Waiting, Ended
<1>2. Holds' /\ pc' \in [Tasks -> Steps]
  BY <1>1, ShutdownFacts, OutsideHolds DEF EndShutdown
<1>. QED
  BY <1>2, ShutdownFacts
  DEF EndShutdown, Goto, managerVars, lockVars, processVars, LockInv, TypeOK

LEMMA TerminateLockedKeeps ==
  ASSUME LockInv, NEW s \in Shutdowns, TerminateLocked(s)
  PROVE  LockInv'
<1>1. s \in Tasks /\ taken[s] \in LockObjects /\ HasLock(s)
  BY ShutdownFacts DEF TerminateLocked, LockInv, Holds
<1>2. Holds' /\ pc' \in [Tasks -> Steps] /\ queue' \in [LockObjects -> Seq(Tasks)]
  BY <1>1, LeavingHolds DEF TerminateLocked
<1>3. pc' = [pc EXCEPT ![s] = "next"]
  BY DEF TerminateLocked, Leave, Goto
<1>4. \A u \in Turns : pc'[u] \in Locked \ {"spawn"} => proc'[u] # None
  BY <1>3, ShutdownFacts DEF TerminateLocked, LockInv, TypeOK
<1>5. /\ running' \subseteq Processes
      /\ agents' \in [Conversations -> Processes \cup {None}]
      /\ locks' \in [Conversations -> LockObjects \cup {None}]
  BY TerminatedTyped DEF TerminateLocked, LockInv
<1>. QED
  BY <1>2, <1>4, <1>5 DEF TerminateLocked, LockInv, TypeOK

LEMMA TerminateNextKeeps ==
  ASSUME LockInv, NEW s \in Shutdowns, TerminateNext(s)
  PROVE  LockInv'
<1>1. PICK c \in todo[s] :
        /\ todo' = [todo EXCEPT ![s] = @ \ {c}]
        /\ LET l == LockOf(c, Lock(c, s, "stop"))
           IN  \/ /\ agents[c] = None
                  /\ UNCHANGED <<managerVars, lockVars, proc, running, pc>>
               \/ /\ agents[c] # None
                  /\ queue[l] = <<>>
                  /\ Terminated(c, agents[c])
                  /\ UNCHANGED <<lockVars, proc, pc>>
               \/ /\ agents[c] # None
                  /\ queue[l] # <<>>
                  /\ QueueUp(s, l)
                  /\ proc' = [proc EXCEPT ![s] = agents[c]]
                  /\ Goto(s, "lock")
                  /\ UNCHANGED <<managerVars, running>>
  BY DEF TerminateNext
<1>. DEFINE l == LockOf(c, Lock(c, s, "stop"))
<1>2. c \in Conversations /\ s \in Tasks /\ todo' \in [Shutdowns -> SUBSET Conversations]
  BY <1>1, ShutdownFacts DEF LockInv, TypeOK
<1>3. l \in LockObjects
  BY <1>2 DEF LockOf, Lock, LockObjects, LockInv, TypeOK
<1>4. UNCHANGED <<exited, stdin, stdout>> /\ pc[s] = "next"
  BY DEF TerminateNext
<1>5. CASE UNCHANGED <<managerVars, lockVars, proc, running, pc>>
  BY <1>2, <1>4, <1>5 DEF managerVars, lockVars, LockInv, TypeOK, Holds, HasLock
<1>6. CASE Terminated(c, agents[c]) /\ UNCHANGED <<lockVars, proc, pc>>
  BY <1>2, <1>4, <1>6, TerminatedTyped DEF lockVars, LockInv, TypeOK, Holds, HasLock
<1>7. CASE /\ QueueUp(s, l)
           /\ proc' = [proc EXCEPT ![s] = agents[c]]
           /\ Goto(s, "lock")
           /\ UNCHANGED <<managerVars, running>>
  <2>1. "lock" \in Steps /\ "lock" \notin Locked /\ pc[s] \notin Locked
    BY <1>4 DEF Steps, Locked, Waiting
  <2>2. Holds' /\ pc' \in [Tasks -> Steps]
    BY <1>2, <1>3, <1>7, <2>1, QueueingHolds
  <2>3. taken' \in [Tasks -> LockObjects \cup {None}] /\ queue' \in [LockObjects -> Seq(Tasks)]
    BY <1>2, <1>3, <1>7, QueueUpFacts DEF LockInv
  <2>4. proc' \in [Tasks -> Processes \cup {None}]
    BY <1>2, <1>7 DEF LockInv, TypeOK
  <2>5. \A u \in Turns : pc'[u] \in Locked \ {"spawn"} => proc'[u] # None
    BY <1>2, <1>7, ShutdownFacts DEF Goto, LockInv, TypeOK
  <2>. QED
    BY <1>2, <1>4, <1>7, <2>2, <2>3, <2>4, <2>5 DEF managerVars, LockInv, TypeOK
<1>. QED
  BY <1>1, <1>5, <1>6, <1>7

LEMMA AnswerFacts ==
  ASSUME TypeOK, NEW p \in Processes, Answer(p)
  PROVE  \E kind \in {"result", "exhausted"} :
            LET line == [of |-> Head(stdin[p]), kind |-> kind]
            IN  /\ kind = "exhausted" => "exhausted" \in Faults
                /\ line \in Lines
                /\ stdout' = [stdout EXCEPT ![p] = Append(stdout[p], line)]
                /\ stdin' \in [Processes -> Seq(Inputs)]
<1>1. stdin[p] \in Seq(Inputs) /\ stdin[p] # <<>>
  BY DEF Answer, TypeOK
<1>2. Head(stdin[p]) \in Inputs /\ Tail(stdin[p]) \in Seq(Inputs)
  BY <1>1
<1>3. stdin' \in [Processes -> Seq(Inputs)]
  BY <1>2 DEF Answer, TypeOK
<1>. QED
  BY <1>2, <1>3 DEF Answer, Lines

LEMMA AnswerKeeps ==
  ASSUME LockInv, NEW p \in Processes, Answer(p)
  PROVE  LockInv'
<1>1. PICK line \in Lines :
        /\ stdout' = [stdout EXCEPT ![p] = Append(stdout[p], line)]
        /\ stdin' \in [Processes -> Seq(Inputs)]
  BY AnswerFacts DEF LockInv
<1>2. Append(stdout[p], line) \in Seq(Lines)
  BY DEF LockInv, TypeOK
<1>3. stdout' \in [Processes -> Seq(Lines)]
  BY <1>1, <1>2 DEF LockInv, TypeOK
<1>. QED
  BY <1>1, <1>3
  DEF Answer, managerVars, lockVars, LockInv, TypeOK, Holds, HasLock

LEMMA ExitKeeps ==
  ASSUME LockInv, NEW p \in Processes, Exit(p)
  PROVE  LockInv'
  BY DEF Exit, managerVars, lockVars, LockInv, TypeOK, Holds, HasLock

LEMMA StutterKeeps ==
  ASSUME LockInv, UNCHANGED vars
  PROVE  LockInv'
  BY DEF vars, managerVars, lockVars, processVars, LockInv, TypeOK, Holds, HasLock

LEMMA InitLocks == Init => LockInv
<1>1. ASSUME Init PROVE LockInv
  <2>1. /\ agents \in [Conversations -> Processes \cup {None}]
        /\ running \subseteq Processes
    BY <1>1, SettingsAssumption DEF Init, Processes
  <2>2. locks \in [Conversations -> LockObjects \cup {None}]
    BY <1>1 DEF Init, Lock, LockObjects
  <2>3. \A t \in Tasks : pc[t] = "idle"
    BY <1>1 DEF Init
  <2>4. pc \in [Tasks -> Steps] /\ "idle" \notin Locked \cup {"lock"}
    BY <1>1 DEF Init, Steps, Locked, Waiting
  <2>5. \A u \in Turns : u \in Tasks
    BY TurnFacts
  <2>. QED
    BY <1>1, <2>1, <2>2, <2>3, <2>4, <2>5 DEF Init, LockInv, TypeOK, Holds
<1>. QED
  BY <1>1

LEMMA NextKeepsLocks == LockInv /\ [Next]_vars => LockInv'
<1>1. ASSUME LockInv, [Next]_vars PROVE LockInv'
  <2>1. ASSUME NEW t \in Turns, Arrive(t) \/ TurnStep(t) \/ Abort(t) PROVE LockInv'
    BY <1>1, <2>1, ArriveKeeps, AcquireKeeps, SpawnKeeps, SendPromptKeeps,
       ReadTurnKeeps, ExpireTurnKeeps, PollStatusKeeps, AbortKeeps DEF TurnStep
  <2>2. ASSUME NEW s \in Shutdowns, BeginShutdown(s) \/ ShutdownStep(s) PROVE LockInv'
    BY <1>1, <2>2, BeginShutdownKeeps, TerminateNextKeeps, TerminateLockedKeeps,
       EndShutdownKeeps DEF ShutdownStep
  <2>3. ASSUME NEW p \in Processes, Answer(p) \/ Exit(p) PROVE LockInv'
    BY <1>1, <2>3, AnswerKeeps, ExitKeeps
  <2>4. CASE UNCHANGED vars
    BY <1>1, <2>4, StutterKeeps
  <2>. QED
    BY <1>1, <2>1, <2>2, <2>3, <2>4 DEF Next, Finished
<1>. QED
  BY <1>1

LEMMA LocksHold == Spec => []LockInv
  BY InitLocks, NextKeepsLocks, PTL DEF Spec

(* Every variable keeps its type, for any turns, conversations, shutdowns  *)
(* and faults; a turn that works on a process has one.                     *)
THEOREM TypeCorrect == Spec => []TypeOK
<1>1. LockInv => TypeOK
  BY DEF LockInv
<1>. QED
  BY <1>1, LocksHold, PTL

-----------------------------------------------------------------------------
(* A CLI that never gives a turn up answers with results only.             *)

OnlyResults ==
    \A p \in Processes : \A i \in 1..Len(stdout[p]) : stdout[p][i].kind = "result"

LEMMA ConsumedResults ==
  ASSUME LockInv, OnlyResults, NEW t \in Turns, Consume(t), Out(t) # <<>>,
         pc[t] \in Locked \ {"spawn"}
  PROVE  Head(Out(t)).kind = "result" /\ OnlyResults'
<1>1. proc[t] \in Processes
  BY TurnFacts DEF LockInv, TypeOK
<1>2. stdout[proc[t]] \in Seq(Lines) /\ stdout[proc[t]] # <<>>
  BY <1>1 DEF Out, LockInv, TypeOK
<1>3. Head(Out(t)) = stdout[proc[t]][1] /\ 1 \in 1..Len(stdout[proc[t]])
  BY <1>2 DEF Out
<1>4. \A i \in 1..Len(Tail(stdout[proc[t]])) :
        Tail(stdout[proc[t]])[i] = stdout[proc[t]][i + 1] /\ i + 1 \in 1..Len(stdout[proc[t]])
  BY <1>2
<1>5. \A p \in Processes :
        stdout'[p] = IF p = proc[t] THEN Tail(stdout[proc[t]]) ELSE stdout[p]
  BY <1>1 DEF Consume, LockInv, TypeOK
<1>6. \A i \in 1..Len(stdout[proc[t]]) : stdout[proc[t]][i].kind = "result"
  BY <1>1 DEF OnlyResults
<1>7. ASSUME NEW p \in Processes, NEW i \in 1..Len(stdout'[p])
      PROVE  stdout'[p][i].kind = "result"
  <2>1. CASE p = proc[t]
    <3>1. stdout'[p] = Tail(stdout[proc[t]])
      BY <1>5, <2>1
    <3>2. stdout'[p][i] = stdout[proc[t]][i + 1] /\ i + 1 \in 1..Len(stdout[proc[t]])
      BY <1>4, <1>7, <3>1
    <3>. QED
      BY <1>6, <3>2
  <2>2. CASE p # proc[t]
    BY <1>5, <1>7, <2>2 DEF OnlyResults
  <2>. QED
    BY <2>1, <2>2
<1>. QED
  BY <1>3, <1>6, <1>7 DEF OnlyResults

LEMMA AnsweredResults ==
  ASSUME LockInv, OnlyResults, "exhausted" \notin Faults, NEW p \in Processes, Answer(p)
  PROVE  OnlyResults'
<1>1. PICK line \in Lines :
        line.kind = "result" /\ stdout' = [stdout EXCEPT ![p] = Append(stdout[p], line)]
  BY AnswerFacts DEF LockInv
<1>2. \A i \in 1..Len(Append(stdout[p], line)) :
        Append(stdout[p], line)[i] =
            IF i \in 1..Len(stdout[p]) THEN stdout[p][i] ELSE line
  BY DEF LockInv, TypeOK
<1>3. \A q \in Processes :
        stdout'[q] = IF q = p THEN Append(stdout[p], line) ELSE stdout[q]
  BY <1>1 DEF LockInv, TypeOK
<1>. QED
  BY <1>1, <1>2, <1>3 DEF OnlyResults

LEMMA NextKeepsResults ==
  ASSUME "exhausted" \notin Faults, LockInv, OnlyResults, [Next]_vars
  PROVE  OnlyResults'
<1>1. CASE UNCHANGED stdout
  BY <1>1 DEF OnlyResults
<1>2. ASSUME NEW t \in Turns, Consume(t), Out(t) # <<>>, pc[t] \in Waiting
      PROVE  OnlyResults'
  BY <1>2, ConsumedResults DEF Locked, Waiting
<1>3. ASSUME NEW t \in Turns, Arrive(t) \/ TurnStep(t) \/ Abort(t) PROVE OnlyResults'
  <2>1. CASE ReadTurn(t)
    BY <1>2, <2>1 DEF ReadTurn, Waiting
  <2>2. CASE Answered(t, "context", "askCost") \/ Answered(t, "cost", "done")
    BY <1>1, <1>2, <2>2 DEF Answered, Waiting
  <2>. QED
    BY <1>1, <1>3, <2>1, <2>2
    DEF Arrive, TurnStep, Acquire, Spawn, SendPrompt, ExpireTurn, PollStatus, Ask,
        Abort, processVars
<1>4. ASSUME NEW s \in Shutdowns, BeginShutdown(s) \/ ShutdownStep(s) PROVE OnlyResults'
  BY <1>1, <1>4
  DEF BeginShutdown, ShutdownStep, TerminateNext, TerminateLocked, EndShutdown, processVars
<1>5. ASSUME NEW p \in Processes, Answer(p) \/ Exit(p) PROVE OnlyResults'
  BY <1>1, <1>5, AnsweredResults DEF Exit
<1>6. CASE UNCHANGED vars
  BY <1>1, <1>6 DEF vars, processVars
<1>. QED
  BY <1>3, <1>4, <1>5, <1>6 DEF Next, Finished

LEMMA OnlyResultsHold ==
  ASSUME "exhausted" \notin Faults
  PROVE  Spec => []OnlyResults
<1>1. Init => OnlyResults
  BY DEF Init, OnlyResults
<1>2. LockInv /\ OnlyResults /\ [Next]_vars => OnlyResults'
  BY NextKeepsResults
<1>. QED
  BY <1>1, <1>2, LocksHold, PTL DEF Spec

-----------------------------------------------------------------------------
(* As long as no turn is given up and nothing is shut down, a conversation *)
(* whose process runs keeps its process and its lock.                      *)

WarmLock(c) == Lock(c, None, "spawn")

WarmInv ==
    /\ \A c \in Warm : agents[c] = c /\ locks[c] = WarmLock(c)
    /\ \A t \in Turns : Conv[t] \in Warm =>
            /\ pc[t] # "spawn"
            /\ pc[t] \in Locked \cup {"lock"} => taken[t] = WarmLock(Conv[t])

LEMMA WarmFacts ==
  ASSUME NEW c \in Warm
  PROVE  c \in Conversations /\ c # None /\ WarmLock(c) # None
  BY SettingsAssumption, TasksAssumption DEF WarmLock, Lock, LockObjects

LEMMA WarmArrive ==
  ASSUME LockInv, WarmInv, NEW t \in Turns, Arrive(t)
  PROVE  WarmInv'
<1>1. t \in Tasks /\ Conv[t] \in Conversations
  BY TurnFacts
<1>. DEFINE l == LockOf(Conv[t], Lock(Conv[t], t, "arrive"))
<1>2. /\ locks' = [locks EXCEPT ![Conv[t]] = l]
      /\ taken' = [taken EXCEPT ![t] = l]
      /\ UNCHANGED agents
  BY DEF Arrive, QueueUp
<1>3. Conv[t] \in Warm => l = WarmLock(Conv[t])
  BY WarmFacts DEF LockOf, WarmInv
<1>4. /\ \A u \in Turns : u # t => pc'[u] = pc[u]
      /\ Conv[t] \in Warm => pc'[t] # "spawn"
  BY <1>1, WarmFacts, TurnFacts DEF Arrive, Enter, Goto, WarmInv, LockInv, TypeOK
<1>. QED
  BY <1>1, <1>2, <1>3, <1>4, WarmFacts, TurnFacts DEF WarmInv, LockInv, TypeOK

LEMMA WarmAcquire ==
  ASSUME LockInv, WarmInv, NEW t \in Turns, Acquire(t)
  PROVE  WarmInv'
<1>1. /\ \A u \in Turns : u # t => pc'[u] = pc[u]
      /\ Conv[t] \in Warm => pc'[t] # "spawn"
      /\ pc[t] = "lock"
  BY WarmFacts, TurnFacts DEF Acquire, Enter, Goto, WarmInv, LockInv, TypeOK
<1>. QED
  BY <1>1 DEF Acquire, managerVars, lockVars, WarmInv

LEMMA WarmSpawn ==
  ASSUME LockInv, WarmInv, NEW t \in Turns, Spawn(t)
  PROVE  WarmInv'
<1>1. t \in Tasks /\ Conv[t] \in Conversations /\ Conv[t] \notin Warm
  BY TurnFacts DEF Spawn, WarmInv
<1>2. /\ \A c \in Warm : agents'[c] = agents[c] /\ locks'[c] = locks[c]
      /\ \A u \in Turns : u # t => pc'[u] = pc[u]
      /\ UNCHANGED taken
  BY <1>1, SettingsAssumption, TurnFacts DEF Spawn, Leave, Goto, LockInv, TypeOK
<1>. QED
  BY <1>1, <1>2 DEF WarmInv

(* Every other step of a turn moves it on under its lock, or ends it, and  *)
(* leaves the manager's dictionaries as they are.                          *)
MovesOn(t) ==
    /\ \/ UNCHANGED pc
       \/ \E step \in Steps \ {"spawn", "lock"} :
            /\ pc' = [pc EXCEPT ![t] = step]
            /\ step \in Locked => pc[t] \in Locked
    /\ UNCHANGED <<managerVars, taken>>
    /\ running' \subseteq running

LEMMA TurnMovesOn ==
  ASSUME LockInv, OnlyResults, NEW t \in Turns,
         SendPrompt(t) \/ ReadTurn(t) \/ ExpireTurn(t) \/ PollStatus(t) \/ Abort(t)
  PROVE  MovesOn(t)
<1>1. /\ {"stream", "askContext", "context", "askCost", "cost"} \subseteq Locked
      /\ {"stream", "askContext", "context", "askCost", "cost", "done", "failed"}
            \subseteq Steps \ {"spawn", "lock"}
      /\ {"done", "failed"} \cap Locked = {}
  BY DEF Locked, Steps, Waiting, Ended
<1>2. CASE SendPrompt(t)
  <2>1. \E step \in {"stream", "failed"} : pc' = [pc EXCEPT ![t] = step]
    BY <1>2 DEF SendPrompt, Leave, Goto
  <2>2. pc[t] \in Locked /\ running' \subseteq running /\ UNCHANGED <<managerVars, taken>>
    BY <1>2 DEF SendPrompt, Locked
  <2>. QED
    BY <1>1, <2>1, <2>2, Zenon DEF MovesOn
<1>3. CASE ReadTurn(t)
  <2>1. Head(Out(t)).kind = "result" /\ pc[t] \in Locked
    BY <1>3, ConsumedResults DEF ReadTurn, Locked, Waiting
  <2>2. pc' = [pc EXCEPT ![t] = "askContext"] /\ UNCHANGED <<managerVars, taken, running>>
    BY <1>3, <2>1 DEF ReadTurn, Goto, managerVars
  <2>. QED
    BY <1>1, <2>1, <2>2 DEF MovesOn
<1>4. CASE ExpireTurn(t)
  BY <1>1, <1>4 DEF MovesOn, ExpireTurn, Goto, lockVars, processVars
<1>5. ASSUME NEW step \in {"askContext", "askCost"}, NEW what \in {"context", "cost"},
             Ask(t, step, what)
      PROVE  MovesOn(t)
  <2>1. \E next \in {what, "done"} : pc' = [pc EXCEPT ![t] = next]
    BY <1>5 DEF Ask, Leave, Goto
  <2>2. pc[t] \in Locked /\ UNCHANGED <<managerVars, taken, running>>
    BY <1>1, <1>5 DEF Ask
  <2>. QED
    BY <1>1, <2>1, <2>2, Zenon DEF MovesOn
<1>6. ASSUME NEW what \in {"context", "cost"}, NEW next \in {"askCost", "done"},
             Answered(t, what, next)
      PROVE  MovesOn(t)
  <2>1. pc' = [pc EXCEPT ![t] = next] \/ UNCHANGED pc
    BY <1>6 DEF Answered, Proceed, Leave, Goto
  <2>2. pc[t] \in Locked /\ UNCHANGED <<managerVars, taken, running>>
    BY <1>1, <1>6 DEF Answered
  <2>. QED
    BY <1>1, <2>1, <2>2, Zenon DEF MovesOn
<1>7. CASE Abort(t)
  <2>1. pc' = [pc EXCEPT ![t] = "failed"]
    BY <1>7 DEF Abort, Leave, Goto
  <2>2. UNCHANGED <<managerVars, taken, running>>
    BY <1>7 DEF Abort, processVars
  <2>. QED
    BY <1>1, <2>1, <2>2, Zenon DEF MovesOn
<1>. QED
  BY <1>2, <1>3, <1>4, <1>5, <1>6, <1>7 DEF PollStatus

LEMMA WarmMove ==
  ASSUME LockInv, WarmInv, NEW t \in Turns, MovesOn(t)
  PROVE  WarmInv'
  BY TurnFacts DEF MovesOn, managerVars, WarmInv, LockInv, TypeOK

LEMMA InitWarm == Init => WarmInv
<1>1. ASSUME Init PROVE WarmInv
  <2>1. \A c \in Warm : agents[c] = c /\ locks[c] = WarmLock(c)
    BY <1>1, SettingsAssumption DEF Init, WarmLock
  <2>2. \A t \in Turns : pc[t] = "idle"
    BY <1>1, TurnFacts DEF Init
  <2>. QED
    BY <2>1, <2>2 DEF WarmInv, Locked, Waiting
<1>. QED
  BY <1>1

LEMMA NextKeepsWarm ==
  ASSUME Shutdowns = {}, LockInv, OnlyResults, WarmInv, [Next]_vars
  PROVE  WarmInv'
<1>1. ASSUME NEW t \in Turns, Arrive(t) \/ TurnStep(t) \/ Abort(t) PROVE WarmInv'
  BY <1>1, WarmArrive, WarmAcquire, WarmSpawn, TurnMovesOn, WarmMove DEF TurnStep
<1>2. CASE UNCHANGED <<managerVars, taken, pc>>
  BY <1>2 DEF managerVars, WarmInv
<1>3. ASSUME NEW p \in Processes, Answer(p) \/ Exit(p) PROVE WarmInv'
  BY <1>2, <1>3 DEF Answer, Exit, lockVars
<1>4. CASE UNCHANGED vars
  BY <1>2, <1>4 DEF vars, lockVars
<1>. QED
  BY <1>1, <1>3, <1>4 DEF Next, Finished

(* As long as no turn is given up after its last retry and the workspace   *)
(* is not shut down, a conversation whose agent runs has one turn at a     *)
(* time, whatever else fails and however many clients send to it.          *)
THEOREM WarmTurnsAreSerialized ==
  ASSUME Shutdowns = {}, "exhausted" \notin Faults
  PROVE  Spec => []WarmSerialized
<1>1. LockInv /\ WarmInv => WarmSerialized
  <2>. SUFFICES ASSUME LockInv, WarmInv, NEW c \in Warm, NEW t \in Turns, NEW u \in Turns,
                       Conv[t] = c, Conv[u] = c, pc[t] \in Locked, pc[u] \in Locked
                PROVE  t = u
    BY DEF WarmSerialized, Serialized
  <2>1. HasLock(t) /\ HasLock(u)
    BY TurnFacts DEF LockInv, Holds
  <2>2. taken[t] = taken[u]
    BY DEF WarmInv
  <2>. QED
    BY <2>1, <2>2 DEF HasLock
<1>2. Init => WarmInv
  BY InitWarm
<1>3. LockInv /\ OnlyResults /\ WarmInv /\ [Next]_vars => WarmInv'
  BY NextKeepsWarm
<1>4. Spec => []OnlyResults
  BY OnlyResultsHold
<1>. QED
  BY <1>1, <1>2, <1>3, <1>4, LocksHold, PTL DEF Spec

-----------------------------------------------------------------------------
(* OneInv says that, while nothing forgets a process or a lock, all turns  *)
(* of a conversation without a process queue at the same lock, so that one *)
(* of them spawns it; every process that runs stays registered.            *)

OneInv ==
    /\ \A t \in Turns : agents[Conv[t]] = None =>
            (pc[t] \in Locked \cup {"lock"} => taken[t] = locks[Conv[t]])
    /\ \A t \in Turns : pc[t] = "spawn" => agents[Conv[t]] = None
    /\ OneProcess

LEMMA OneArrive ==
  ASSUME LockInv, OneInv, NEW t \in Turns, Arrive(t)
  PROVE  OneInv'
<1>1. t \in Tasks /\ Conv[t] \in Conversations
  BY TurnFacts
<1>. DEFINE l == LockOf(Conv[t], Lock(Conv[t], t, "arrive"))
<1>2. /\ locks' = [locks EXCEPT ![Conv[t]] = l]
      /\ taken' = [taken EXCEPT ![t] = l]
      /\ UNCHANGED <<agents, running>>
  BY DEF Arrive, QueueUp, processVars
<1>3. /\ \A u \in Turns : u # t => pc'[u] = pc[u]
      /\ pc'[t] = "spawn" => agents[Conv[t]] = None
  BY <1>1, TurnFacts DEF Arrive, Enter, Goto, LockInv, TypeOK
<1>4. ASSUME NEW u \in Turns, agents[Conv[u]] = None, pc'[u] \in Locked \cup {"lock"}
      PROVE  taken'[u] = locks'[Conv[u]]
  <2>1. CASE u = t
    BY <1>1, <1>2, <2>1 DEF LockInv, TypeOK
  <2>2. CASE u # t
    <3>1. taken[u] = locks[Conv[u]] /\ taken[u] \in LockObjects /\ u \in Tasks
      BY <1>3, <1>4, <2>2, TurnFacts DEF OneInv, LockInv, Holds
    <3>2. locks[Conv[u]] # None
      BY <3>1, TasksAssumption
    <3>3. locks'[Conv[u]] = locks[Conv[u]]
      BY <1>1, <1>2, <3>2, TurnFacts DEF LockOf, LockInv, TypeOK
    <3>. QED
      BY <1>1, <1>2, <2>2, <3>1, <3>3 DEF LockInv, TypeOK
  <2>. QED
    BY <2>1, <2>2
<1>. QED
  BY <1>2, <1>3, <1>4 DEF OneInv, OneProcess

LEMMA OneAcquire ==
  ASSUME LockInv, OneInv, NEW t \in Turns, Acquire(t)
  PROVE  OneInv'
<1>1. /\ \A u \in Turns : u # t => pc'[u] = pc[u]
      /\ pc'[t] = "spawn" => agents[Conv[t]] = None
      /\ pc[t] = "lock"
  BY TurnFacts DEF Acquire, Enter, Goto, LockInv, TypeOK
<1>. QED
  BY <1>1 DEF Acquire, managerVars, lockVars, processVars, OneInv, OneProcess

LEMMA OneSpawn ==
  ASSUME LockInv, OneInv, "spawn" \notin Faults, NEW t \in Turns, Spawn(t)
  PROVE  OneInv'
<1>1. /\ t \in Tasks /\ Conv[t] \in Conversations /\ t # None
      /\ pc[t] = "spawn" /\ pc[t] \in Locked /\ agents[Conv[t]] = None
  BY TurnFacts, TasksAssumption DEF Spawn, OneInv, Tasks, Locked
<1>2. /\ agents' = [agents EXCEPT ![Conv[t]] = t]
      /\ locks' = [locks EXCEPT ![Conv[t]] = Lock(Conv[t], t, "spawn")]
      /\ running' = running \cup {t}
      /\ pc' = [pc EXCEPT ![t] = "send"]
      /\ UNCHANGED taken
  BY DEF Spawn, Goto
<1>3. ASSUME NEW u \in Turns, u # t, pc[u] = "spawn" PROVE Conv[u] # Conv[t]
  <2>1. SUFFICES ASSUME Conv[u] = Conv[t] PROVE FALSE
    OBVIOUS
  <2>2. HasLock(u) /\ HasLock(t) /\ taken[u] = taken[t]
    BY <1>1, <1>3, <2>1, TurnFacts DEF LockInv, Holds, OneInv, Locked
  <2>. QED
    BY <1>3, <2>2 DEF HasLock
<1>4. \A u \in Turns : u # t => pc'[u] = pc[u]
  BY <1>2, TurnFacts DEF LockInv, TypeOK
<1>5. pc'[t] = "send" /\ agents'[Conv[t]] = t
  BY <1>1, <1>2 DEF LockInv, TypeOK
<1>6. \A c \in Conversations : c # Conv[t] => agents'[c] = agents[c] /\ locks'[c] = locks[c]
  BY <1>1, <1>2 DEF LockInv, TypeOK
<1>7. OneProcess'
  <2>1. ASSUME NEW p \in running PROVE \E c \in Conversations : agents'[c] = p
    <3>1. PICK c \in Conversations : agents[c] = p
      BY DEF OneInv, OneProcess
    <3>2. p # None
      BY TasksAssumption DEF LockInv, TypeOK, Processes, Tasks
    <3>. QED
      BY <1>1, <1>6, <3>1, <3>2
  <2>. QED
    BY <1>1, <1>2, <1>5, <2>1 DEF OneProcess
<1>8. ASSUME NEW u \in Turns, agents'[Conv[u]] = None, pc'[u] \in Locked \cup {"lock"}
      PROVE  taken'[u] = locks'[Conv[u]]
  BY <1>1, <1>2, <1>4, <1>5, <1>6, <1>8, TurnFacts DEF OneInv
<1>9. ASSUME NEW u \in Turns, pc'[u] = "spawn" PROVE agents'[Conv[u]] = None
  BY <1>3, <1>4, <1>5, <1>6, <1>9, TurnFacts DEF OneInv
<1>. QED
  BY <1>7, <1>8, <1>9 DEF OneInv

LEMMA OneMove ==
  ASSUME LockInv, OneInv, NEW t \in Turns, MovesOn(t)
  PROVE  OneInv'
<1>1. OneProcess'
  BY DEF MovesOn, managerVars, OneInv, OneProcess
<1>2. \A u \in Turns : /\ pc'[u] \in Locked \cup {"lock"} => pc[u] \in Locked \cup {"lock"}
                       /\ pc'[u] = "spawn" => pc[u] = "spawn"
  BY TurnFacts DEF MovesOn, LockInv, TypeOK
<1>. QED
  BY <1>1, <1>2 DEF MovesOn, managerVars, OneInv

LEMMA InitOne == Init => OneInv
<1>1. ASSUME Init PROVE OneInv
  <2>1. OneProcess
    BY <1>1, SettingsAssumption DEF Init, OneProcess
  <2>2. \A t \in Turns : pc[t] = "idle"
    BY <1>1, TurnFacts DEF Init
  <2>. QED
    BY <2>1, <2>2 DEF OneInv, Locked, Waiting
<1>. QED
  BY <1>1

LEMMA NextKeepsOne ==
  ASSUME Shutdowns = {}, "spawn" \notin Faults, LockInv, OnlyResults, OneInv, [Next]_vars
  PROVE  OneInv'
<1>1. ASSUME NEW t \in Turns, Arrive(t) \/ TurnStep(t) \/ Abort(t) PROVE OneInv'
  BY <1>1, OneArrive, OneAcquire, OneSpawn, TurnMovesOn, OneMove DEF TurnStep
<1>2. CASE UNCHANGED <<managerVars, taken, running, pc>>
  BY <1>2 DEF managerVars, OneInv, OneProcess
<1>3. ASSUME NEW p \in Processes, Answer(p) \/ Exit(p) PROVE OneInv'
  BY <1>2, <1>3 DEF Answer, Exit, lockVars
<1>4. CASE UNCHANGED vars
  BY <1>2, <1>4 DEF vars, lockVars, processVars
<1>. QED
  BY <1>1, <1>3, <1>4 DEF Next, Finished

(* As long as every spawn succeeds, no turn is given up after its last     *)
(* retry and the workspace is not shut down, a process that the server has *)
(* not stopped is registered for a conversation, also when any number of   *)
(* first turns of a conversation arrive together, time out or disconnect.  *)
THEOREM ProcessesStayRegistered ==
  ASSUME Shutdowns = {}, {"spawn", "exhausted"} \cap Faults = {}
  PROVE  Spec => []OneProcess
<1>1. OneInv => OneProcess
  BY DEF OneInv
<1>2. Init => OneInv
  BY InitOne
<1>3. LockInv /\ OnlyResults /\ OneInv /\ [Next]_vars => OneInv'
  BY NextKeepsOne
<1>4. Spec => []OnlyResults
  BY OnlyResultsHold
<1>. QED
  BY <1>1, <1>2, <1>3, <1>4, LocksHold, PTL DEF Spec

-----------------------------------------------------------------------------
(* OwnInv says that a conversation has one turn at a time, that a process  *)
(* works for its own conversation only, and that every process is done     *)
(* with what it was asked or holds exactly the question of the turn that   *)
(* waits for it, or the answer to it.                                      *)

Working(t) == pc[t] \notin {"idle"} \cup Ended

OneAtATime ==
    \A t, u \in Turns : Conv[t] = Conv[u] /\ Working(t) /\ Working(u) => t = u

ConversationOf(p) == IF p \in Turns THEN Conv[p] ELSE p

OfItsConversation ==
    /\ \A c \in Conversations : agents[c] # None => ConversationOf(agents[c]) = c
    /\ \A t \in Turns : proc[t] # None => ConversationOf(proc[t]) = Conv[t]

(* A process that is still to be spawned is nobody's.                      *)
Unspawned ==
    \A t \in Turns : pc[t] \in {"idle", "lock", "spawn"} =>
        /\ \A c \in Conversations : agents[c] # t
        /\ \A u \in Turns : proc[u] # t

Settled(p) == stdout[p] = <<>> /\ (p \in exited \/ stdin[p] = <<>>)

Asked(p, t) ==
    /\ pc[t] \in Waiting
    /\ proc[t] = p
    /\ \/ stdin[p] = <<<<t, pc[t]>>>> /\ stdout[p] = <<>>
       \/ \E kind \in {"result", "exhausted"} :
            /\ kind = "exhausted" => pc[t] = "stream"
            /\ stdin[p] = <<>>
            /\ stdout[p] = <<[of |-> <<t, pc[t]>>, kind |-> kind]>>

Answering == \A p \in Processes : Settled(p) \/ \E t \in Turns : Asked(p, t)

OwnInv == OneAtATime /\ OfItsConversation /\ Unspawned /\ Answering

(* The turn that waits for a process is the one that works on it.          *)
LEMMA AskedAlone ==
  ASSUME LockInv, OwnInv, NEW t \in Turns, NEW u \in Turns,
         pc[t] \in Locked \ {"spawn"}, Asked(proc[t], u)
  PROVE  u = t
<1>1. proc[t] # None /\ Working(t) /\ Working(u)
  BY DEF LockInv, TypeOK, Working, Locked, Waiting, Ended, Asked
<1>2. Conv[u] = Conv[t]
  BY <1>1 DEF Asked, OwnInv, OfItsConversation
<1>. QED
  BY <1>1, <1>2 DEF OwnInv, OneAtATime

(* What a turn finds at its process: while it works on it, nobody else     *)
(* waits for it.                                                           *)
LEMMA ProcessOfTurn ==
  ASSUME LockInv, OwnInv, NEW t \in Turns, pc[t] \in Locked \ {"spawn"}
  PROVE  proc[t] \in Processes /\ (Settled(proc[t]) \/ Asked(proc[t], t))
<1>1. proc[t] \in Processes
  BY TurnFacts DEF LockInv, TypeOK
<1>. QED
  BY <1>1, AskedAlone DEF OwnInv, Answering

(* A step in which no turn is begun or gets a process, and no dictionary   *)
(* entry is added.                                                         *)
LEMMA KnownKept ==
  ASSUME OwnInv,
         \A u \in Turns : pc'[u] = pc[u] \/ (Working(u) /\ pc'[u] \notin {"idle", "lock", "spawn"}),
         \A u \in Turns : proc'[u] = proc[u],
         \A c \in Conversations : agents'[c] \in {agents[c], None}
  PROVE  OneAtATime' /\ OfItsConversation' /\ Unspawned'
<1>1. \A u \in Turns : Working(u)' => Working(u)
  BY DEF Working
<1>2. OneAtATime'
  BY <1>1 DEF OwnInv, OneAtATime
<1>3. OfItsConversation'
  BY DEF OwnInv, OfItsConversation, ConversationOf
<1>4. Unspawned'
  BY TasksAssumption DEF OwnInv, Unspawned, Tasks
<1>. QED
  BY <1>2, <1>3, <1>4

(* A step that leaves the processes alone, and every turn that waits.      *)
LEMMA AnsweringKept ==
  ASSUME OwnInv, UNCHANGED <<stdin, stdout>>, exited \subseteq exited',
         \A u \in Turns : pc[u] \in Waiting => pc'[u] = pc[u] /\ proc'[u] = proc[u]
  PROVE  Answering'
<1>1. ASSUME NEW p \in Processes, Settled(p) PROVE Settled(p)'
  BY <1>1 DEF Settled
<1>2. ASSUME NEW p \in Processes, NEW u \in Turns, Asked(p, u) PROVE Asked(p, u)'
  BY <1>2 DEF Asked
<1>. QED
  BY <1>1, <1>2 DEF OwnInv, Answering

(* A turn that works goes on with its process settled: it stops waiting.   *)
LEMMA AnsweringSettled ==
  ASSUME LockInv, OwnInv, NEW t \in Turns, pc[t] \in Locked \ {"spawn"}, UNCHANGED <<proc, exited>>,
         \A u \in Turns : u # t => pc'[u] = pc[u],
         \A p \in Processes : p # proc[t] => stdin'[p] = stdin[p] /\ stdout'[p] = stdout[p],
         Settled(proc[t])'
  PROVE  Answering'
<1>1. ASSUME NEW p \in Processes, p # proc[t] PROVE Settled(p)' \/ \E u \in Turns : Asked(p, u)'
  <2>1. CASE Settled(p)
    BY <1>1, <2>1 DEF Settled
  <2>2. ASSUME NEW u \in Turns, Asked(p, u) PROVE Asked(p, u)'
    BY <1>1, <2>2 DEF Asked
  <2>. QED
    BY <2>1, <2>2 DEF OwnInv, Answering
<1>. QED
  BY <1>1 DEF Answering

(* A turn that did not wait writes to its process and waits.               *)
LEMMA AnsweringAsked ==
  ASSUME LockInv, OwnInv, NEW t \in Turns, NEW what \in Waiting,
         pc[t] \in Locked \ ({"spawn"} \cup Waiting), proc[t] \notin exited,
         Write(t, what), Goto(t, what), UNCHANGED <<proc, exited, stdout>>
  PROVE  Answering'
<1>1. proc[t] \in Processes /\ Settled(proc[t])
  BY ProcessOfTurn DEF Asked
<1>2. /\ pc'[t] = what /\ \A u \in Turns : u # t => pc'[u] = pc[u]
      /\ \A p \in Processes : p # proc[t] => stdin'[p] = stdin[p]
      /\ stdin'[proc[t]] = Append(stdin[proc[t]], <<t, what>>)
  BY <1>1, TurnFacts DEF Write, Goto, LockInv, TypeOK
<1>3. stdin'[proc[t]] = <<<<t, what>>>> /\ stdout'[proc[t]] = <<>>
  <2>1. stdin[proc[t]] = <<>> /\ stdout[proc[t]] = <<>>
    BY <1>1 DEF Settled
  <2>2. Append(<<>>, <<t, what>>) = <<<<t, what>>>>
    OBVIOUS
  <2>. QED
    BY <1>2, <2>1, <2>2
<1>4. Asked(proc[t], t)'
  BY <1>2, <1>3 DEF Asked
<1>5. ASSUME NEW p \in Processes, p # proc[t] PROVE Settled(p)' \/ \E u \in Turns : Asked(p, u)'
  <2>1. CASE Settled(p)
    BY <1>2, <1>5, <2>1, <1>1 DEF Settled
  <2>2. ASSUME NEW u \in Turns, Asked(p, u) PROVE Asked(p, u)'
    BY <1>2, <1>5, <2>2 DEF Asked
  <2>. QED
    BY <2>1, <2>2 DEF OwnInv, Answering
<1>. QED
  BY <1>4, <1>5 DEF Answering

(* A turn reads the answer to its own question, and there is no other.     *)
LEMMA ConsumedOwn ==
  ASSUME LockInv, OwnInv, NEW t \in Turns, pc[t] \in Waiting, Out(t) # <<>>
  PROVE  /\ Head(Out(t)).of = <<t, pc[t]>>
         /\ Head(Out(t)).kind # "result" => pc[t] = "stream"
         /\ Consume(t) /\ UNCHANGED <<stdin, exited, proc>> =>
                /\ Settled(proc[t])'
                /\ \A p \in Processes : p # proc[t] => stdout'[p] = stdout[p]
<1>1. proc[t] \in Processes /\ Asked(proc[t], t)
  BY ProcessOfTurn DEF Settled, Out, Locked, Waiting
<1>2. PICK kind \in {"result", "exhausted"} :
        /\ kind = "exhausted" => pc[t] = "stream"
        /\ stdin[proc[t]] = <<>>
        /\ stdout[proc[t]] = <<[of |-> <<t, pc[t]>>, kind |-> kind]>>
  BY <1>1 DEF Asked, Out
<1>3. Head(Out(t)) = [of |-> <<t, pc[t]>>, kind |-> kind] /\ Tail(Out(t)) = <<>>
  BY <1>2 DEF Out
<1>4. ASSUME Consume(t), UNCHANGED <<stdin, exited, proc>>
      PROVE  /\ Settled(proc[t])'
             /\ \A p \in Processes : p # proc[t] => stdout'[p] = stdout[p]
  <2>1. stdout' = [stdout EXCEPT ![proc[t]] = Tail(Out(t))]
    BY <1>4 DEF Consume, Out
  <2>. QED
    BY <1>1, <1>2, <1>3, <1>4, <2>1 DEF Settled, LockInv, TypeOK
<1>. QED
  BY <1>2, <1>3, <1>4

-----------------------------------------------------------------------------
(* The steps keep OwnInv.                                                  *)

LEMMA OwnArrive ==
  ASSUME LockInv, OwnInv, Sequential, NEW t \in Turns, Arrive(t)
  PROVE  OwnInv'
<1>1. /\ t \in Tasks /\ Conv[t] \in Conversations /\ pc[t] = "idle"
      /\ \A u \in Turns : Conv[u] = Conv[t] => ~Working(u)
      /\ UNCHANGED <<agents, stdin, stdout, exited>>
  BY TurnFacts DEF Arrive, InFlight, Working, processVars
<1>2. /\ pc'[t] \in {"lock", "spawn", "send"}
      /\ pc'[t] = "send" => agents[Conv[t]] # None
      /\ proc'[t] \in {proc[t], agents[Conv[t]]}
      /\ \A u \in Turns : u # t => pc'[u] = pc[u] /\ proc'[u] = proc[u]
  BY <1>1, TurnFacts DEF Arrive, Enter, Goto, LockInv, TypeOK
<1>3. OneAtATime'
  BY <1>1, <1>2 DEF OwnInv, OneAtATime, Working
<1>4. OfItsConversation'
  BY <1>1, <1>2 DEF OwnInv, OfItsConversation, ConversationOf
<1>5. Unspawned'
  BY <1>1, <1>2 DEF OwnInv, Unspawned
<1>6. Answering'
  BY <1>1, <1>2, AnsweringKept DEF Waiting
<1>. QED
  BY <1>3, <1>4, <1>5, <1>6 DEF OwnInv

LEMMA OwnAcquire ==
  ASSUME LockInv, OwnInv, NEW t \in Turns, Acquire(t)
  PROVE  OwnInv'
<1>1. /\ t \in Tasks /\ Conv[t] \in Conversations /\ pc[t] = "lock"
      /\ UNCHANGED <<agents, stdin, stdout, exited>>
  BY TurnFacts DEF Acquire, managerVars, processVars
<1>2. /\ pc'[t] \in {"spawn", "send"}
      /\ proc'[t] = agents[Conv[t]]
      /\ \A u \in Turns : u # t => pc'[u] = pc[u] /\ proc'[u] = proc[u]
  BY <1>1, TurnFacts DEF Acquire, Enter, Goto, LockInv, TypeOK
<1>3. OneAtATime'
  BY <1>1, <1>2 DEF OwnInv, OneAtATime, Working, Ended
<1>4. OfItsConversation'
  BY <1>1, <1>2 DEF OwnInv, OfItsConversation, ConversationOf
<1>5. Unspawned'
  BY <1>1, <1>2 DEF OwnInv, Unspawned
<1>6. Answering'
  BY <1>1, <1>2, AnsweringKept DEF Waiting
<1>. QED
  BY <1>3, <1>4, <1>5, <1>6 DEF OwnInv

LEMMA OwnSpawn ==
  ASSUME LockInv, OwnInv, NEW t \in Turns, Spawn(t)
  PROVE  OwnInv'
<1>1. /\ t \in Tasks /\ Conv[t] \in Conversations /\ pc[t] = "spawn"
      /\ UNCHANGED <<stdin, stdout, exited>>
  BY TurnFacts DEF Spawn
<1>2. CASE /\ agents' = [agents EXCEPT ![Conv[t]] = t]
           /\ proc' = [proc EXCEPT ![t] = t]
           /\ Goto(t, "send")
  <2>1. /\ pc'[t] = "send" /\ proc'[t] = t
        /\ \A u \in Turns : u # t => pc'[u] = pc[u] /\ proc'[u] = proc[u]
        /\ \A c \in Conversations : agents'[c] = IF c = Conv[t] THEN t ELSE agents[c]
    BY <1>1, <1>2, TurnFacts DEF Goto, LockInv, TypeOK
  <2>2. OneAtATime'
    BY <1>1, <2>1 DEF OwnInv, OneAtATime, Working, Ended
  <2>3. OfItsConversation'
    BY <1>1, <2>1 DEF OwnInv, OfItsConversation, ConversationOf
  <2>4. Unspawned'
    BY <1>1, <2>1 DEF OwnInv, Unspawned
  <2>5. Answering'
    BY <1>1, <2>1, AnsweringKept DEF Waiting
  <2>. QED
    BY <2>2, <2>3, <2>4, <2>5 DEF OwnInv
<1>3. CASE Leave(t, "failed") /\ UNCHANGED <<agents, proc>>
  <2>1. pc'[t] = "failed" /\ \A u \in Turns : u # t => pc'[u] = pc[u]
    BY <1>1, <1>3, TurnFacts DEF Leave, Goto, LockInv, TypeOK
  <2>2. OneAtATime' /\ OfItsConversation' /\ Unspawned'
    BY <1>1, <1>3, <2>1, KnownKept DEF Working, Ended
  <2>3. Answering'
    BY <1>1, <1>3, <2>1, AnsweringKept DEF Waiting
  <2>. QED
    BY <2>2, <2>3 DEF OwnInv
<1>. QED
  BY <1>2, <1>3 DEF Spawn

(* The part of OwnInv about turns and dictionaries, in the steps of a turn *)
(* that works on a process.                                                *)
LEMMA WorkingKnown ==
  ASSUME LockInv, OwnInv, NEW t \in Turns, pc[t] \in Locked \ {"spawn"},
         NEW step \in Steps \ {"idle", "lock", "spawn"}, pc' = [pc EXCEPT ![t] = step],
         UNCHANGED proc,
         UNCHANGED agents \/ agents' = [agents EXCEPT ![Conv[t]] = None]
  PROVE  /\ OneAtATime' /\ OfItsConversation' /\ Unspawned'
         /\ \A u \in Turns : u # t => pc'[u] = pc[u]
<1>1. /\ \A u \in Turns : u # t => pc'[u] = pc[u]
      /\ pc'[t] \notin {"idle", "lock", "spawn"} /\ Working(t)
  BY TurnFacts DEF LockInv, TypeOK, Working, Locked, Waiting, Ended
<1>2. \A c \in Conversations : agents'[c] \in {agents[c], None}
  BY TurnFacts DEF LockInv, TypeOK
<1>. QED
  BY <1>1, <1>2, KnownKept

LEMMA OwnSendPrompt ==
  ASSUME LockInv, OwnInv, NEW t \in Turns, SendPrompt(t)
  PROVE  OwnInv'
<1>1. /\ pc[t] \in Locked \ ({"spawn"} \cup Waiting) /\ "stream" \in Waiting
      /\ {"stream", "failed"} \subseteq Steps \ {"idle", "lock", "spawn"}
      /\ UNCHANGED <<agents, proc, stdout, exited>>
  BY DEF SendPrompt, Locked, Waiting, Steps, Ended, managerVars
<1>2. CASE proc[t] \in running \ exited /\ Write(t, "stream") /\ Goto(t, "stream")
  BY <1>1, <1>2, WorkingKnown, AnsweringAsked DEF Goto, OwnInv
<1>3. CASE Leave(t, "failed") /\ UNCHANGED stdin
  BY <1>1, <1>3, WorkingKnown, AnsweringKept DEF Leave, Goto, OwnInv
<1>. QED
  BY <1>2, <1>3 DEF SendPrompt

LEMMA OwnReadTurn ==
  ASSUME LockInv, OwnInv, NEW t \in Turns, ReadTurn(t)
  PROVE  OwnInv'
<1>1. /\ pc[t] \in Locked \ {"spawn"} /\ pc[t] \in Waiting
      /\ {"askContext", "failed"} \subseteq Steps \ {"idle", "lock", "spawn"}
      /\ Consume(t) /\ Out(t) # <<>> /\ UNCHANGED <<proc, exited, stdin>>
  BY DEF ReadTurn, Locked, Waiting, Steps, Ended
<1>2. /\ Settled(proc[t])'
      /\ \A p \in Processes : p # proc[t] => stdout'[p] = stdout[p]
  BY <1>1, ConsumedOwn
<1>3. PICK step \in {"askContext", "failed"} :
        /\ pc' = [pc EXCEPT ![t] = step]
        /\ UNCHANGED agents \/ agents' = [agents EXCEPT ![Conv[t]] = None]
  BY DEF ReadTurn, Leave, Goto
<1>4. /\ OneAtATime' /\ OfItsConversation' /\ Unspawned'
      /\ \A u \in Turns : u # t => pc'[u] = pc[u]
  BY <1>1, <1>3, WorkingKnown
<1>. QED
  BY <1>1, <1>2, <1>4, AnsweringSettled DEF OwnInv

(* Nothing is cut short: only a process that is gone is silent.            *)
LEMMA SilentSettled ==
  ASSUME "timeout" \notin Faults, LockInv, OwnInv, NEW t \in Turns, Silent(t)
  PROVE  Settled(proc[t])
  BY DEF Silent, Settled, Out

LEMMA OwnExpireTurn ==
  ASSUME "timeout" \notin Faults, LockInv, OwnInv, NEW t \in Turns, ExpireTurn(t)
  PROVE  OwnInv'
<1>1. /\ pc[t] \in Locked \ {"spawn"}
      /\ "askContext" \in Steps \ {"idle", "lock", "spawn"}
      /\ pc' = [pc EXCEPT ![t] = "askContext"]
      /\ UNCHANGED <<agents, proc, exited, stdin, stdout>>
  BY DEF ExpireTurn, Goto, Locked, Waiting, Steps, managerVars, processVars
<1>2. Settled(proc[t])'
  BY <1>1, SilentSettled DEF ExpireTurn, Settled
<1>3. /\ OneAtATime' /\ OfItsConversation' /\ Unspawned'
      /\ \A u \in Turns : u # t => pc'[u] = pc[u]
  BY <1>1, WorkingKnown
<1>. QED
  BY <1>1, <1>2, <1>3, AnsweringSettled DEF OwnInv

LEMMA OwnPollStatus ==
  ASSUME "timeout" \notin Faults, LockInv, OwnInv, NEW t \in Turns, PollStatus(t)
  PROVE  OwnInv'
<1>1. ASSUME NEW step \in {"askContext", "askCost"}, NEW what \in {"context", "cost"},
             Ask(t, step, what)
      PROVE  OwnInv'
  <2>1. /\ pc[t] \in Locked \ ({"spawn"} \cup Waiting) /\ what \in Waiting
        /\ {what, "done"} \subseteq Steps \ {"idle", "lock", "spawn"}
        /\ UNCHANGED <<agents, proc, stdout, exited>>
    BY <1>1 DEF Ask, Locked, Waiting, Steps, Ended, managerVars
  <2>2. CASE proc[t] \in running \ exited /\ Write(t, what) /\ Goto(t, what)
    BY <2>1, <2>2, WorkingKnown, AnsweringAsked DEF Goto, OwnInv
  <2>3. CASE Leave(t, "done") /\ UNCHANGED stdin
    BY <2>1, <2>3, WorkingKnown, AnsweringKept DEF Leave, Goto, OwnInv
  <2>. QED
    BY <1>1, <2>2, <2>3 DEF Ask
<1>2. ASSUME NEW what \in {"context", "cost"}, NEW next \in {"askCost", "done"},
             Answered(t, what, next)
      PROVE  OwnInv'
  <2>1. /\ pc[t] \in Locked \ {"spawn"} /\ pc[t] \in Waiting /\ pc[t] # "stream"
        /\ next \in Steps \ {"idle", "lock", "spawn"}
        /\ UNCHANGED <<agents, proc, stdin, exited>>
    BY <1>2 DEF Answered, Locked, Waiting, Steps, Ended, managerVars
  <2>2. ~(Out(t) # <<>> /\ Head(Out(t)).kind # "result")
    BY <2>1, ConsumedOwn
  <2>3. /\ Proceed(t, next)
        /\ \/ Out(t) # <<>> /\ Consume(t)
           \/ Silent(t) /\ UNCHANGED stdout
    BY <1>2, <2>2 DEF Answered
  <2>4. /\ Settled(proc[t])'
        /\ \A p \in Processes : p # proc[t] => stdout'[p] = stdout[p]
    BY <2>1, <2>3, ConsumedOwn, SilentSettled DEF Settled
  <2>5. pc' = [pc EXCEPT ![t] = next]
    BY <2>3 DEF Proceed, Leave, Goto
  <2>6. /\ OneAtATime' /\ OfItsConversation' /\ Unspawned'
        /\ \A u \in Turns : u # t => pc'[u] = pc[u]
    BY <2>1, <2>5, WorkingKnown
  <2>. QED
    BY <2>1, <2>4, <2>6, AnsweringSettled DEF OwnInv
<1>. QED
  BY <1>1, <1>2 DEF PollStatus

LEMMA OwnShutdown ==
  ASSUME LockInv, OwnInv, NEW s \in Shutdowns, BeginShutdown(s) \/ ShutdownStep(s)
  PROVE  OwnInv'
<1>1. /\ \A u \in Turns : pc'[u] = pc[u] /\ proc'[u] = proc[u]
      /\ UNCHANGED <<stdin, stdout, exited>>
  BY ShutdownFacts
  DEF BeginShutdown, ShutdownStep, TerminateNext, TerminateLocked, EndShutdown, Leave, Goto,
      processVars, LockInv, TypeOK
<1>2. \A c \in Conversations : agents'[c] \in {agents[c], None}
  <2>1. ASSUME NEW d, NEW p, Terminated(d, p)
        PROVE  \A c \in Conversations : agents'[c] \in {agents[c], None}
    BY <2>1 DEF Terminated, LockInv, TypeOK
  <2>2. UNCHANGED agents \/ \E d, p : Terminated(d, p)
    BY DEF BeginShutdown, ShutdownStep, TerminateNext, TerminateLocked, EndShutdown, managerVars
  <2>. QED
    BY <2>1, <2>2
<1>. QED
  BY <1>1, <1>2, KnownKept, AnsweringKept DEF OwnInv

LEMMA OwnCli ==
  ASSUME LockInv, OwnInv, NEW p \in Processes, Answer(p)
  PROVE  OwnInv'
<1>1. /\ UNCHANGED <<agents, proc, exited, pc>>
      /\ p \notin exited /\ stdin[p] # <<>>
  BY DEF Answer, managerVars
<1>2. PICK u \in Turns : Asked(p, u)
  BY <1>1 DEF OwnInv, Answering, Settled
<1>3. stdin[p] = <<<<u, pc[u]>>>> /\ stdout[p] = <<>>
  BY <1>1, <1>2 DEF Asked
<1>4. PICK kind \in {"result", "exhausted"} :
        /\ kind = "exhausted" => Head(stdin[p])[2] = "stream"
        /\ stdout' = [stdout EXCEPT ![p] =
                        Append(stdout[p], [of |-> Head(stdin[p]), kind |-> kind])]
  BY DEF Answer
<1>5. stdin' = [stdin EXCEPT ![p] = Tail(stdin[p])]
  BY DEF Answer
<1>6. Head(stdin[p]) = <<u, pc[u]>> /\ Tail(stdin[p]) = <<>>
  BY <1>3
<1>7. /\ stdin'[p] = <<>> /\ stdout'[p] = <<[of |-> <<u, pc[u]>>, kind |-> kind]>>
      /\ kind = "exhausted" => pc[u] = "stream"
      /\ \A q \in Processes : q # p => stdin'[q] = stdin[q] /\ stdout'[q] = stdout[q]
  BY <1>3, <1>4, <1>5, <1>6 DEF LockInv, TypeOK
<1>8. Asked(p, u)'
  BY <1>1, <1>2, <1>7 DEF Asked
<1>9. ASSUME NEW q \in Processes, q # p PROVE Settled(q)' \/ \E v \in Turns : Asked(q, v)'
  <2>1. CASE Settled(q)
    BY <1>1, <1>7, <1>9, <2>1 DEF Settled
  <2>2. ASSUME NEW v \in Turns, Asked(q, v) PROVE Asked(q, v)'
    BY <1>1, <1>7, <1>9, <2>2 DEF Asked
  <2>. QED
    BY <2>1, <2>2 DEF OwnInv, Answering
<1>10. Answering'
  BY <1>8, <1>9 DEF Answering
<1>. QED
  BY <1>1, <1>10, KnownKept DEF OwnInv

LEMMA InitOwn == Init => OwnInv
<1>1. ASSUME Init PROVE OwnInv
  <2>1. /\ \A t \in Turns : pc[t] = "idle" /\ proc[t] = None
        /\ \A p \in Processes : stdin[p] = <<>> /\ stdout[p] = <<>>
        /\ \A c \in Conversations : agents[c] \in {c, None}
    BY <1>1, TurnFacts DEF Init
  <2>2. OneAtATime
    BY <2>1 DEF OneAtATime, Working
  <2>3. OfItsConversation
    BY <2>1, TasksAssumption DEF OfItsConversation, ConversationOf
  <2>4. Unspawned
    BY <2>1, TasksAssumption DEF Unspawned, Tasks
  <2>5. Answering
    BY <2>1 DEF Answering, Settled
  <2>. QED
    BY <2>2, <2>3, <2>4, <2>5 DEF OwnInv
<1>. QED
  BY <1>1

LEMMA NextKeepsOwn ==
  ASSUME Sequential, {"timeout", "abort"} \cap Faults = {}, LockInv, OwnInv, [Next]_vars
  PROVE  OwnInv'
<1>1. ASSUME NEW t \in Turns, Arrive(t) \/ TurnStep(t) \/ Abort(t) PROVE OwnInv'
  BY <1>1, OwnArrive, OwnAcquire, OwnSpawn, OwnSendPrompt, OwnReadTurn, OwnExpireTurn,
     OwnPollStatus DEF TurnStep, Abort
<1>2. ASSUME NEW s \in Shutdowns, BeginShutdown(s) \/ ShutdownStep(s) PROVE OwnInv'
  BY <1>2, OwnShutdown
<1>3. CASE /\ UNCHANGED <<agents, proc, pc, stdin, stdout>>
           /\ exited \subseteq exited'
  BY <1>3, KnownKept, AnsweringKept DEF OwnInv
<1>4. ASSUME NEW p \in Processes, Answer(p) \/ Exit(p) PROVE OwnInv'
  BY <1>3, <1>4, OwnCli DEF Exit, managerVars
<1>5. CASE UNCHANGED vars
  BY <1>3, <1>5 DEF vars, managerVars, processVars
<1>. QED
  BY <1>1, <1>2, <1>4, <1>5 DEF Next, Finished

(* When a client waits for the end of a turn before it sends the next one  *)
(* of the conversation, and no turn is cut short by a deadline or by its   *)
(* client, what a turn or a status command reads is the answer to what it  *)
(* wrote: for any turns, conversations and shutdowns, through failed       *)
(* spawns and writes, exits of the CLI, given-up turns and respawns.       *)
THEOREM TurnsReadTheirOwnAnswers ==
  ASSUME Sequential, {"timeout", "abort"} \cap Faults = {}
  PROVE  Spec => []OwnAnswer
<1>1. ASSUME LockInv, OwnInv PROVE OwnAnswer
  BY <1>1, ConsumedOwn DEF OwnAnswer
<1>2. Init => OwnInv
  BY InitOwn
<1>3. LockInv /\ OwnInv /\ [Next]_vars => OwnInv'
  BY NextKeepsOwn
<1>. QED
  BY <1>1, <1>2, <1>3, LocksHold, PTL DEF Spec

=============================================================================
