----------------------------- MODULE AgentTurns -----------------------------
(***************************************************************************)
(* The agents of one workspace: AgentManager keeps one long-lived CLI      *)
(* process per conversation and one lock per conversation; AgentProcess    *)
(* writes prompts and commands to the CLI's stdin and reads its stdout     *)
(* through a queue.  Turns (calls of send_message) of any conversation run *)
(* concurrently with each other and with shutdown_all.                     *)
(*                                                                         *)
(* A lock object and a process are named by what made them, so that the    *)
(* dictionaries _locks and _agents can be seen to forget or replace them.  *)
(*                                                                         *)
(* A definition whose comment starts with "Variant" is a wrong form of the *)
(* definition below it, kept to show that a property would notice it.      *)
(***************************************************************************)
EXTENDS Integers, Sequences, SequencesExt

CONSTANTS
    Turns,          (* calls of AgentManager.send_message                  *)
    Conversations,
    Conv,           (* the conversation of each turn                       *)
    Shutdowns,      (* calls of AgentManager.shutdown_all                  *)
    Warm,           (* conversations whose process is already running      *)
    Sequential,     (* TRUE: a client waits for the end of a turn before   *)
                    (* it sends the next one of the conversation           *)
    Faults,         (* what the environment may do, a subset of FaultKinds *)
    None            (* no entry in a dictionary, nothing taken yet         *)

FaultKinds ==
    {"spawn",       (* start_session raises                                *)
     "stdin",       (* send_stdin raises, but the process is there         *)
     "exit",        (* the CLI process exits                               *)
     "exhausted",   (* the CLI gives a turn up after its last API retry    *)
     "timeout",     (* a turn or a status command takes too long           *)
     "abort"}       (* the client of a turn disconnects                    *)

Tasks == Turns \cup Shutdowns
Processes == Turns \cup Conversations
LockObjects ==
    [of : Conversations, by : Tasks \cup {None}, at : {"arrive", "spawn", "stop"}]

ASSUME TasksAssumption ==
    /\ Turns \cap (Shutdowns \cup Conversations) = {}
    /\ Shutdowns \cap Conversations = {}
    /\ None \notin Tasks \cup Conversations \cup LockObjects
    /\ Conv \in [Turns -> Conversations]

ASSUME SettingsAssumption ==
    /\ Warm \subseteq Conversations
    /\ Sequential \in BOOLEAN
    /\ Faults \subseteq FaultKinds

VARIABLES
    agents,     (* AgentManager._agents                                    *)
    locks,      (* AgentManager._locks                                     *)
    queue,      (* the holder of each lock object, then its waiters        *)
    taken,      (* the lock object a task holds or waits for               *)
    proc,       (* the process a task works on                             *)
    running,    (* processes with AgentProcess._running                    *)
    exited,     (* processes whose CLI is gone                             *)
    stdin,      (* lines a CLI has not worked on yet                       *)
    stdout,     (* AgentProcess._stdout_queue                              *)
    todo,       (* conversations a shutdown still has to terminate         *)
    pc          (* where each task is                                      *)

managerVars == <<agents, locks>>
lockVars == <<queue, taken>>
processVars == <<running, exited, stdin, stdout>>
vars == <<managerVars, lockVars, proc, processVars, todo, pc>>

Waiting == {"stream", "context", "cost"}
Locked == {"spawn", "send", "askContext", "askCost"} \cup Waiting
Ended == {"done", "failed"}
Steps == Locked \cup Ended \cup {"idle", "lock", "next"}

(* A line on stdin is the task that wrote it and what the task then waits  *)
(* for; a line on stdout says which line on stdin it answers.              *)
Inputs == Turns \X Waiting
Lines == [of : Inputs, kind : {"result", "exhausted"}]

Goto(t, step) == pc' = [pc EXCEPT ![t] = step]

-----------------------------------------------------------------------------
(* Locks: asyncio.Lock is fair, and taken at once when nobody queues.      *)

Lock(c, by, at) == [of |-> c, by |-> by, at |-> at]

(* setdefault(conversation_id, asyncio.Lock())                             *)
LockOf(c, fresh) == IF locks[c] = None THEN fresh ELSE locks[c]

HasLock(t) == queue[taken[t]] # <<>> /\ Head(queue[taken[t]]) = t

(* Under the lock a turn finds its conversation's process or spawns it.    *)
Enter(t) ==
    /\ proc' = [proc EXCEPT ![t] = agents[Conv[t]]]
    /\ Goto(t, IF agents[Conv[t]] = None THEN "spawn" ELSE "send")

(* Variant: the lock is not released when the turn fails.                  *)
LeaveLocked(t, outcome) ==
    /\ queue' = IF outcome = "done" THEN [queue EXCEPT ![taken[t]] = Tail(@)] ELSE queue
    /\ Goto(t, outcome)

Leave(t, outcome) ==
    /\ queue' = [queue EXCEPT ![taken[t]] = Tail(@)]
    /\ Goto(t, outcome)

-----------------------------------------------------------------------------
(* A turn: AgentManager.send_message.                                      *)

InFlight(c) == \E u \in Turns : Conv[u] = c /\ pc[u] \notin {"idle"} \cup Ended

QueueUp(t, l) ==
    /\ taken' = [taken EXCEPT ![t] = l]
    /\ queue' = [queue EXCEPT ![l] = Append(@, t)]

(* Variant: every turn brings a lock of its own.                           *)
ArriveAlone(t) ==
    /\ pc[t] = "idle"
    /\ LET l == Lock(Conv[t], t, "arrive")
       IN  /\ locks' = [locks EXCEPT ![Conv[t]] = l]
           /\ QueueUp(t, l)
           /\ Enter(t)
    /\ UNCHANGED <<agents, processVars, todo>>

Arrive(t) ==
    /\ pc[t] = "idle"
    /\ Sequential => ~InFlight(Conv[t])
    /\ LET l == LockOf(Conv[t], Lock(Conv[t], t, "arrive"))
       IN  /\ locks' = [locks EXCEPT ![Conv[t]] = l]
           /\ QueueUp(t, l)
           /\ IF queue[l] = <<>> THEN Enter(t) ELSE Goto(t, "lock") /\ UNCHANGED proc
    /\ UNCHANGED <<agents, processVars, todo>>

(* Variant: whether to spawn was decided before the lock was asked for.    *)
AcquireStale(t) ==
    /\ pc[t] = "lock"
    /\ HasLock(t)
    /\ Goto(t, "spawn")
    /\ UNCHANGED <<managerVars, lockVars, proc, processVars, todo>>

Acquire(t) ==
    /\ pc[t] = "lock"
    /\ HasLock(t)
    /\ Enter(t)
    /\ UNCHANGED <<managerVars, lockVars, processVars, todo>>

(* _spawn_agent registers the process together with a new lock, while the  *)
(* turn still holds the old one.  A failure forgets the lock.              *)
Spawn(t) ==
    /\ pc[t] = "spawn"
    /\ \/ /\ agents' = [agents EXCEPT ![Conv[t]] = t]
          /\ locks' = [locks EXCEPT ![Conv[t]] = Lock(Conv[t], t, "spawn")]
          /\ running' = running \cup {t}
          /\ proc' = [proc EXCEPT ![t] = t]
          /\ Goto(t, "send")
          /\ UNCHANGED queue
       \/ /\ "spawn" \in Faults
          /\ locks' = [locks EXCEPT ![Conv[t]] = None]
          /\ Leave(t, "failed")
          /\ UNCHANGED <<agents, running, proc>>
    /\ UNCHANGED <<taken, exited, stdin, stdout, todo>>

Write(t, what) ==
    stdin' = [stdin EXCEPT ![proc[t]] = Append(@, <<t, what>>)]

(* send_prompt: three attempts on a process that is not found, then it is  *)
(* no longer running; it stays registered.                                 *)
SendPrompt(t) ==
    /\ pc[t] = "send"
    /\ \/ /\ proc[t] \in running \ exited
          /\ Write(t, "stream")
          /\ Goto(t, "stream")
          /\ UNCHANGED <<queue, running>>
       \/ /\ proc[t] \notin running \/ "stdin" \in Faults
          /\ Leave(t, "failed")
          /\ UNCHANGED <<running, stdin>>
       \/ /\ proc[t] \in running \cap exited
          /\ running' = running \ {proc[t]}
          /\ Leave(t, "failed")
          /\ UNCHANGED stdin
    /\ UNCHANGED <<managerVars, taken, proc, exited, stdout, todo>>

Out(t) == stdout[proc[t]]
Consume(t) == stdout' = [stdout EXCEPT ![proc[t]] = Tail(@)]

(* stream_turn reads until a result.  When the agent gives up after its    *)
(* last retry the process is forgotten, and not stopped: send_message      *)
(* returns before stream_turn goes on to _terminate_after_retries.         *)
ReadTurn(t) ==
    /\ pc[t] = "stream"
    /\ Out(t) # <<>>
    /\ Consume(t)
    /\ IF Head(Out(t)).kind = "result"
       THEN Goto(t, "askContext") /\ UNCHANGED <<agents, queue>>
       ELSE /\ agents' = [agents EXCEPT ![Conv[t]] = None]
            /\ Leave(t, "failed")
    /\ UNCHANGED <<locks, taken, proc, running, exited, stdin, todo>>

Silent(t) == "timeout" \in Faults \/ (proc[t] \in exited /\ Out(t) = <<>>)

(* The deadline of the turn: an error event, then the turn goes on to poll *)
(* as after a result.                                                      *)
ExpireTurn(t) ==
    /\ pc[t] = "stream"
    /\ Silent(t)
    /\ Goto(t, "askContext")
    /\ UNCHANGED <<managerVars, lockVars, proc, processVars, todo>>

(* poll_status: /context, then /cost.  A process that is not running and a *)
(* write that raises end the poll.                                         *)
Ask(t, step, what) ==
    /\ pc[t] = step
    /\ \/ /\ proc[t] \in running \ exited
          /\ Write(t, what)
          /\ Goto(t, what)
          /\ UNCHANGED queue
       \/ /\ proc[t] \notin running \ exited \/ "stdin" \in Faults
          /\ Leave(t, "done")
          /\ UNCHANGED stdin
    /\ UNCHANGED <<managerVars, taken, proc, running, exited, stdout, todo>>

Proceed(t, next) ==
    IF next = "done" THEN Leave(t, next) ELSE Goto(t, next) /\ UNCHANGED queue

(* Variant: a command does not wait for its result.                        *)
AnsweredUnread(t, what, next) ==
    /\ pc[t] = what
    /\ Proceed(t, next)
    /\ UNCHANGED <<managerVars, taken, proc, processVars, todo>>

(* send_command skips every line that is not a result.                     *)
Answered(t, what, next) ==
    /\ pc[t] = what
    /\ \/ /\ Out(t) # <<>>
          /\ Head(Out(t)).kind = "result"
          /\ Consume(t)
          /\ Proceed(t, next)
       \/ /\ Out(t) # <<>>
          /\ Head(Out(t)).kind # "result"
          /\ Consume(t)
          /\ UNCHANGED <<pc, queue>>
       \/ /\ Silent(t)
          /\ Proceed(t, next)
          /\ UNCHANGED stdout
    /\ UNCHANGED <<managerVars, taken, proc, running, exited, stdin, todo>>

PollStatus(t) ==
    \/ Ask(t, "askContext", "context") \/ Answered(t, "context", "askCost")
    \/ Ask(t, "askCost", "cost")       \/ Answered(t, "cost", "done")

(* The client disconnects: "async with" releases the lock, a waiter leaves *)
(* its place.  What the CLI was asked for it still answers.                *)
Abort(t) ==
    /\ "abort" \in Faults
    /\ \/ pc[t] \in Locked /\ Leave(t, "failed")
       \/ /\ pc[t] = "lock"
          /\ \E i \in DOMAIN queue[taken[t]] :
                /\ queue[taken[t]][i] = t
                /\ queue' = [queue EXCEPT ![taken[t]] = RemoveAt(@, i)]
          /\ Goto(t, "failed")
    /\ UNCHANGED <<managerVars, taken, proc, processVars, todo>>

TurnStep(t) ==
    \/ Acquire(t) \/ Spawn(t) \/ SendPrompt(t) \/ ReadTurn(t)
    \/ ExpireTurn(t) \/ PollStatus(t)

-----------------------------------------------------------------------------
(* shutdown_all: terminate_agent for every conversation there was when it  *)
(* began, one after the other.                                             *)

BeginShutdown(s) ==
    /\ pc[s] = "idle"
    /\ todo' = [todo EXCEPT ![s] = {c \in Conversations : agents[c] # None}]
    /\ Goto(s, "next")
    /\ UNCHANGED <<managerVars, lockVars, proc, processVars>>

(* Under the lock the process is told to stop, then both entries go; the   *)
(* stop only ends the reading: the CLI itself is left to the machine.      *)
Terminated(c, p) ==
    /\ running' = running \ {p}
    /\ agents' = [agents EXCEPT ![c] = None]
    /\ locks' = [locks EXCEPT ![c] = None]

TerminateNext(s) ==
    /\ pc[s] = "next"
    /\ \E c \in todo[s] :
        /\ todo' = [todo EXCEPT ![s] = @ \ {c}]
        /\ LET l == LockOf(c, Lock(c, s, "stop"))
           IN  \/ /\ agents[c] = None
                  /\ UNCHANGED <<managerVars, lockVars, proc, running, pc>>
               \/ /\ agents[c] # None
                  /\ queue[l] = <<>>
                  /\ Terminated(c, agents[c])
                  /\ UNCHANGED <<lockVars, proc, pc>>
               \/ /\ agents[c] # None
                  /\ queue[l] # <<>>
                  /\ QueueUp(s, l)
                  /\ proc' = [proc EXCEPT ![s] = agents[c]]
                  /\ Goto(s, "lock")
                  /\ UNCHANGED <<managerVars, running>>
    /\ UNCHANGED <<exited, stdin, stdout>>

(* The process it waited for is stopped, whichever is registered now.      *)
TerminateLocked(s) ==
    /\ pc[s] = "lock"
    /\ HasLock(s)
    /\ Terminated(taken[s].of, proc[s])
    /\ Leave(s, "next")
    /\ UNCHANGED <<taken, proc, exited, stdin, stdout, todo>>

EndShutdown(s) ==
    /\ pc[s] = "next"
    /\ todo[s] = {}
    /\ Goto(s, "done")
    /\ UNCHANGED <<managerVars, lockVars, proc, processVars, todo>>

ShutdownStep(s) == TerminateNext(s) \/ TerminateLocked(s) \/ EndShutdown(s)

-----------------------------------------------------------------------------
(* The CLI in the sandbox.                                                 *)

Answer(p) ==
    /\ p \notin exited
    /\ stdin[p] # <<>>
    /\ stdin' = [stdin EXCEPT ![p] = Tail(@)]
    /\ \E kind \in {"result", "exhausted"} :
        /\ kind = "exhausted" =>
                "exhausted" \in Faults /\ Head(stdin[p])[2] = "stream"
        /\ stdout' = [stdout EXCEPT ![p] =
                        Append(@, [of |-> Head(stdin[p]), kind |-> kind])]
    /\ UNCHANGED <<managerVars, lockVars, proc, running, exited, todo, pc>>

Exit(p) ==
    /\ "exit" \in Faults
    /\ p \in running \ exited
    /\ exited' = exited \cup {p}
    /\ UNCHANGED <<managerVars, lockVars, proc, running, stdin, stdout, todo, pc>>

-----------------------------------------------------------------------------
Init ==
    /\ agents = [c \in Conversations |-> IF c \in Warm THEN c ELSE None]
    /\ locks = [c \in Conversations |->
                    IF c \in Warm THEN Lock(c, None, "spawn") ELSE None]
    /\ queue = [l \in LockObjects |-> <<>>]
    /\ taken = [t \in Tasks |-> None]
    /\ proc = [t \in Tasks |-> None]
    /\ running = Warm
    /\ exited = {}
    /\ stdin = [p \in Processes |-> <<>>]
    /\ stdout = [p \in Processes |-> <<>>]
    /\ todo = [s \in Shutdowns |-> {}]
    /\ pc = [t \in Tasks |-> "idle"]

Finished ==
    /\ \A t \in Tasks : pc[t] \in Ended
    /\ UNCHANGED vars

Next ==
    \/ \E t \in Turns : Arrive(t) \/ TurnStep(t) \/ Abort(t)
    \/ \E s \in Shutdowns : BeginShutdown(s) \/ ShutdownStep(s)
    \/ \E p \in Processes : Answer(p) \/ Exit(p)
    \/ Finished

Spec == Init /\ [][Next]_vars

(* The event loop runs every task that can run, timeouts fire, and the CLI *)
(* works on its input as long as it lives.  Nobody has to send a prompt,   *)
(* to shut down, to disconnect or to exit.                                 *)
FairSpec ==
    /\ Spec
    /\ \A t \in Turns : WF_vars(TurnStep(t))
    /\ \A s \in Shutdowns : WF_vars(ShutdownStep(s))
    /\ \A p \in Processes : WF_vars(Answer(p))

-----------------------------------------------------------------------------
(* Every variable keeps its type; a task that works on a process has one.  *)
TypeOK ==
    /\ agents \in [Conversations -> Processes \cup {None}]
    /\ locks \in [Conversations -> LockObjects \cup {None}]
    /\ queue \in [LockObjects -> Seq(Tasks)]
    /\ taken \in [Tasks -> LockObjects \cup {None}]
    /\ proc \in [Tasks -> Processes \cup {None}]
    /\ running \subseteq Processes
    /\ exited \subseteq Processes
    /\ stdin \in [Processes -> Seq(Inputs)]
    /\ stdout \in [Processes -> Seq(Lines)]
    /\ todo \in [Shutdowns -> SUBSET Conversations]
    /\ pc \in [Tasks -> Steps]
    /\ \A t \in Turns : pc[t] \in Locked \ {"spawn"} => proc[t] # None

(* When a client sends one prompt at a time and no turn is cut short, what *)
(* a turn or a status command is about to read answers what it wrote, also *)
(* after failed writes, exits, given-up turns, respawns and shutdowns:     *)
(* AgentProcess matches answers to questions by order alone.               *)
OwnAnswer ==
    \A t \in Turns :
        pc[t] \in Waiting /\ Out(t) # <<>> => Head(Out(t)).of = <<t, pc[t]>>

(* Every turn that was sent ends and every shutdown_all returns, whatever  *)
(* fails: nobody keeps a conversation lock.                                *)
EveryTurnEnds == \A t \in Tasks : pc[t] # "idle" ~> pc[t] \in Ended

Serialized(c) ==
    \A t, u \in Turns :
        Conv[t] = c /\ Conv[u] = c /\ pc[t] \in Locked /\ pc[u] \in Locked => t = u

(* A conversation whose agent runs already has one turn at a time.         *)
WarmSerialized == \A c \in Warm : Serialized(c)

(* CONTEXT.md: HarnessBox serializes turns within the same conversation,   *)
(* the first turns of a conversation included.  It does not hold (see      *)
(* README.md).                                                             *)
TurnsSerialized == \A c \in Conversations : Serialized(c)

(* A process the server has not stopped is the registered process of its   *)
(* conversation: concurrent first turns do not leave a second CLI behind,  *)
(* which nothing would ever stop.                                          *)
OneProcess == \A p \in running : \E c \in Conversations : agents[c] = p
=============================================================================
