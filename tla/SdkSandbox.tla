------------------------------ MODULE SdkSandbox ------------------------------
(***************************************************************************)
(* The public SDK's Sandbox on one E2B machine: its setup, pause, resume,  *)
(* kill and end (SandboxSession), and the turns of the agent in it         *)
(* (AgentRuntime and AgentProcess), which resume a paused sandbox and      *)
(* start a dead agent again by themselves.                                 *)
(*                                                                         *)
(* Pause, resume and kill hold the sandbox's lock; setup, end and a turn   *)
(* do not.  One task sends prompts, one after the other; others call.      *)
(***************************************************************************)
EXTENDS E2BProvider, FiniteSets

CONSTANTS
  Callers,     \* the tasks that call setup, pause, resume, kill and end
  Sender,      \* the task that sends prompts
  None,        \* nobody holds the lock; no agent process
  Attempts,    \* _EGRESS_PROBE_MAX_ATTEMPTS
  TurnLimit,   \* AgentProcess's turn_timeout
  MaxTurns, MaxCalls,   \* bounds: prompts sent, calls made
  Faults       \* what may go wrong: see FaultKinds

FaultKinds ==
  {"steps", "pause", "connect", "stdin", "dead", "start", "write", "exhausted", "kill", "lost"}

Tasks == Callers \cup {Sender}

(* The agent's process: it takes prompts, its output is subscribed to on   *)
(* the connection there is, turns counted in its metrics.                  *)
Processes == [running : BOOLEAN, heard : BOOLEAN, count : Nat]

ASSUME SdkAssumption ==
  /\ Sender \notin Callers /\ None \notin Tasks \cup Processes
  /\ {Attempts, TurnLimit} \subseteq Nat \ {0}
  /\ {MaxTurns, MaxCalls} \subseteq Nat
  /\ Faults \subseteq FaultKinds

VARIABLES
  state,       \* SandboxSession._state
  pausedId,    \* _paused_sandbox_id is set
  lock,        \* who holds Sandbox._lock
  pc,          \* pc[p]: where task p is
  probes,      \* egress probes made by the resume in progress
  proc,        \* _agent_process
  kept,        \* turns counted in _cost_metrics
  again,       \* the turn is sending its prompt a second time
  usage,       \* the result of the turn held model_usage
  counted,     \* history: turns whose cost was recorded
  interrupted, \* history: a restart of the agent did not get to its prompt
  turns, calls

turnVars == <<proc, kept, again, usage, counted, interrupted>>
vars == <<pvars, state, pausedId, lock, pc, probes, turnVars, turns, calls>>

(* An agent process that was created and not yet started.                  *)
NewProcess == [running |-> FALSE, heard |-> FALSE, count |-> 0]

R == INSTANCE RuntimeState WITH runtime_state <- state

CanMove(target) == R!ValidateRuntimeTransition(state, target)

(* Sandbox.cost_metrics.                                                   *)
Cost == IF proc # None THEN proc.count ELSE kept

(* A request that finds the machine suspended wakes it before it is served. *)
Answered == ~(handle /\ machine = "paused")
Reached == handle /\ machine = "running"

Goto(p, l) == pc' = [pc EXCEPT ![p] = l]
Release(p) == lock' = IF lock = p THEN None ELSE lock

Fault(kind) == kind \in Faults

(* A restart begins where the dead process was dropped and is over when    *)
(* the second prompt has been taken.                                       *)
Restarting ==
  again /\ pc[Sender] \in {"resume", "connect", "connected", "probing", "start", "prompt"}

Interrupts(is) == interrupted' = (interrupted \/ (is /\ Restarting))

(* The call or the turn of p is over: it returned, or an exception left it. *)
Return(p) == Goto(p, "idle") /\ Release(p)
Leave(p) == Return(p) /\ Interrupts(p = Sender)

Init ==
  /\ ProviderInit
  /\ state = "starting" /\ pausedId = FALSE /\ lock = None
  /\ pc = [p \in Tasks |-> "idle"]
  /\ probes = 0 /\ proc = None /\ kept = 0
  /\ again = FALSE /\ usage = FALSE /\ counted = 0 /\ interrupted = FALSE
  /\ turns = 0 /\ calls = 0

Calling(c) ==
  /\ pc[c] = "idle" /\ calls < MaxCalls
  /\ calls' = calls + 1

-----------------------------------------------------------------------------
(* setup(): create the machine, run the steps in it, become active.        *)

Setup(c) ==
  /\ Calling(c) /\ state = "starting" /\ machine = "none"
  /\ \A d \in Callers : pc[d] \notin {"creating", "created", "steps"}
  /\ Goto(c, "creating")
  /\ UNCHANGED <<pvars, state, pausedId, lock, probes, turnVars, turns>>

Create(c) ==
  /\ pc[c] = "creating"
  /\ CreateEffect /\ Goto(c, "created")
  /\ UNCHANGED <<state, pausedId, lock, probes, turnVars, turns, calls>>

Created(c) ==
  /\ pc[c] = "created"
  /\ CreateReturn /\ Goto(c, "steps")
  /\ UNCHANGED <<state, pausedId, lock, probes, turnVars, turns, calls>>

(* The rest of the pipeline and activate(): the steps run commands in the  *)
(* machine, and what fails leaves it running.                              *)
Steps(c) ==
  /\ pc[c] = "steps"
  /\ Answered
  /\ \E failed \in {FALSE, Fault("steps")} :
       state' = IF ~failed /\ Reached /\ CanMove("active") THEN "active" ELSE state
  /\ Return(c)
  /\ UNCHANGED <<pvars, pausedId, probes, turnVars, turns, calls>>

-----------------------------------------------------------------------------
(* pause(), resume(), kill(): under the lock.                              *)

(* A sandbox is set up before it is paused or resumed, and may be killed   *)
(* before it is.                                                           *)
Call(c) ==
  /\ Calling(c)
  /\ \E op \in {"pause", "resume", "kill"} :
       (state = "starting" => op = "kill") /\ Goto(c, op)
  /\ UNCHANGED <<pvars, state, pausedId, lock, probes, turnVars, turns>>

(* Variant: the machine is paused and the state is not.                    *)
PauseFirst(c) ==
  /\ pc[c] = "pause" /\ lock = None
  /\ IF CanMove("paused") /\ handle
     THEN lock' = c /\ Goto(c, "pausing") /\ UNCHANGED state
     ELSE Return(c) /\ UNCHANGED state
  /\ UNCHANGED <<pvars, pausedId, probes, turnVars, turns, calls>>

(* The transition comes first; a provider without a handle then refuses.   *)
Pause(c) ==
  /\ pc[c] = "pause" /\ lock = None
  /\ IF CanMove("paused")
     THEN /\ state' = "paused"
          /\ IF handle THEN lock' = c /\ Goto(c, "pausing") ELSE Return(c)
     ELSE Return(c) /\ UNCHANGED state
  /\ UNCHANGED <<pvars, pausedId, probes, turnVars, turns, calls>>

(* The agent's stdout was subscribed to on the connection that ends.       *)
Deafen == proc' = IF proc = None THEN None ELSE [proc EXCEPT !.heard = FALSE]

Suspend(c) ==
  /\ pc[c] = "pausing"
  /\ \/ PauseEffect /\ Deafen /\ Goto(c, "paused") /\ UNCHANGED lock
     \/ /\ machine = "gone" \/ Fault("pause")
        /\ Return(c) /\ UNCHANGED <<pvars, proc>>
  /\ UNCHANGED <<state, pausedId, probes, kept, again, usage, counted, interrupted, turns, calls>>

PauseReturn(c) ==
  /\ pc[c] = "paused"
  /\ DropHandle
  /\ pausedId' = TRUE
  /\ Return(c)
  /\ UNCHANGED <<state, probes, turnVars, turns, calls>>

(* SandboxSession.resume takes the lock for a caller and for a turn.       *)
Resume(p) ==
  /\ pc[p] = "resume" /\ lock = None
  /\ lock' = p /\ Goto(p, "connect")
  /\ UNCHANGED <<pvars, state, pausedId, probes, turnVars, turns, calls>>

(* stop_agent_process, which kill() and end() call.                        *)
StopAgent == kept' = Cost /\ proc' = None /\ Interrupts(TRUE)

Kill(c) ==
  /\ pc[c] = "kill" /\ lock = None
  /\ IF state \in {"ended", "dead"}
     THEN Return(c) /\ UNCHANGED <<state, proc, kept, interrupted>>
     ELSE /\ StopAgent
          /\ IF handle
             THEN lock' = c /\ Goto(c, "killing") /\ UNCHANGED state
             ELSE Return(c) /\ state' = "dead"
  /\ UNCHANGED <<pvars, pausedId, probes, again, usage, counted, turns, calls>>

(* provider.kill: the request, and whatever came of it the handle goes.    *)
Destroy(c) ==
  /\ pc[c] \in {"killing", "ending"}
  /\ \E failed \in {FALSE, Fault("kill")} : IF failed THEN UNCHANGED pvars ELSE KillEffect
  /\ Goto(c, IF pc[c] = "killing" THEN "killed" ELSE "ended")
  /\ UNCHANGED <<state, pausedId, lock, probes, turnVars, turns, calls>>

Destroyed(c) ==
  /\ pc[c] \in {"killed", "ended"}
  /\ DropHandle
  /\ state' = IF pc[c] = "killed" THEN "dead" ELSE "ended"
  /\ Return(c)
  /\ UNCHANGED <<pausedId, probes, turnVars, turns, calls>>

(* end(): without the lock.                                                *)
End(c) ==
  /\ Calling(c) /\ CanMove("dying")
  /\ StopAgent
  /\ state' = "dying"
  /\ Goto(c, IF handle THEN "ending" ELSE "ended")
  /\ UNCHANGED <<pvars, pausedId, lock, probes, again, usage, counted, turns>>

-----------------------------------------------------------------------------
(* provider.resume, then the transition: of a caller or of a turn.         *)

(* mark_dead.                                                              *)
MarkDead == state' = IF CanMove("dead") THEN "dead" ELSE state

Connect(p) ==
  /\ pc[p] = "connect"
  /\ \/ ConnectEffect /\ Goto(p, "connected") /\ UNCHANGED <<lock, interrupted>>
     \/ /\ machine \in {"none", "gone"} \/ Fault("connect")
        /\ Leave(p) /\ UNCHANGED pvars
  /\ UNCHANGED <<state, pausedId, probes, proc, kept, again, usage, counted, turns, calls>>

Connected(p) ==
  /\ pc[p] = "connected"
  /\ ConnectReturn
  /\ Goto(p, "probing")
  /\ UNCHANGED <<probes, state, pausedId, lock, turnVars, turns, calls>>

(* Variant: the lock stays taken when the egress never comes up.           *)
ProbeHolding(p) ==
  /\ pc[p] = "probing" /\ Answered /\ ~(Reached /\ egress)
  /\ probes' = (probes + 1) % Attempts
  /\ IF probes' = 0 THEN Goto(p, "idle") ELSE UNCHANGED pc
  /\ UNCHANGED <<pvars, state, pausedId, lock, turnVars, turns, calls>>

(* _wait_for_anthropic_egress: a probe that fails, also because the handle *)
(* is gone, is made again until the attempts are used up.                  *)
Probe(p) ==
  /\ pc[p] = "probing" /\ Answered /\ ~(Reached /\ egress)
  /\ probes' = (probes + 1) % Attempts
  /\ IF probes' = 0 THEN Leave(p) ELSE UNCHANGED <<pc, lock, interrupted>>
  /\ UNCHANGED <<pvars, state, pausedId, proc, kept, again, usage, counted, turns, calls>>

(* SandboxDeadError: a caller of resume only fails, the turn says so first. *)
SandboxDead(p) ==
  /\ IF p = Sender THEN NotifyTurnEnd /\ Goto(p, "dead") ELSE UNCHANGED pvars /\ Goto(p, "idle")
  /\ Release(p) /\ Interrupts(p = Sender)
  /\ UNCHANGED state

ProbeDead(p) ==
  /\ pc[p] = "probing" /\ probes' = 0 /\ handle
  /\ machine = "gone" \/ Fault("dead")
  /\ SandboxDead(p)
  /\ UNCHANGED <<pausedId, proc, kept, again, usage, counted, turns, calls>>

(* Once the error event was taken the turn marks the sandbox dead.         *)
OnSandboxDead ==
  /\ pc[Sender] = "dead"
  /\ MarkDead /\ Goto(Sender, "idle")
  /\ UNCHANGED <<pvars, pausedId, lock, probes, turnVars, turns, calls>>

(* A caller's resume is over; the sandbox need not have been paused.       *)
Resumed(c) ==
  /\ pc[c] = "probing" /\ probes' = 0 /\ Reached /\ egress
  /\ pausedId' = TRUE
  /\ state' = IF CanMove("active") THEN "active" ELSE state
  /\ Leave(c)
  /\ UNCHANGED <<pvars, proc, kept, again, usage, counted, turns, calls>>

-----------------------------------------------------------------------------
(* A turn: _ensure_agent_ready, send_prompt, stream_turn, poll_status.     *)

(* Variant: the metrics of the dead process are not carried over.          *)
SendPromptAfresh(agent, second) ==
  /\ Goto(Sender, "prompt")
  /\ proc' = agent
  /\ IF second THEN UNCHANGED pvars ELSE NotifyTurnStart

(* The process is ready.  A first prompt starts the provider's clock, a    *)
(* second one takes the metrics of the process that died along.            *)
SendPrompt(agent, second) ==
  /\ Goto(Sender, "prompt")
  /\ IF second THEN proc' = [agent EXCEPT !.count = kept] /\ UNCHANGED pvars
              ELSE proc' = agent /\ NotifyTurnStart

(* The process is replaced before it is started, and its metrics with it.  *)
EnsureProcess(agent, second) ==
  IF agent # None /\ agent.running
  THEN SendPrompt(agent, second)
  ELSE proc' = NewProcess /\ Goto(Sender, "start") /\ UNCHANGED pvars

EnsureReady(agent, second) ==
  IF state = "paused" /\ pausedId
  THEN proc' = agent /\ Goto(Sender, "resume") /\ UNCHANGED pvars
  ELSE EnsureProcess(agent, second)

Turn ==
  /\ pc[Sender] = "idle" /\ turns < MaxTurns
  /\ turns' = turns + 1
  /\ again' = FALSE /\ usage' = FALSE
  /\ EnsureReady(proc, FALSE)
  /\ UNCHANGED <<state, pausedId, lock, probes, kept, counted, interrupted, calls>>

(* A resume that finds the sandbox active already fails, and the turn too. *)
TurnResumed ==
  /\ pc[Sender] = "probing" /\ probes' = 0 /\ Reached /\ egress
  /\ Release(Sender)
  /\ IF CanMove("active")
     THEN state' = "active" /\ pausedId' = FALSE /\ EnsureProcess(proc, again) /\ UNCHANGED interrupted
     ELSE /\ pausedId' = TRUE /\ Goto(Sender, "idle") /\ Interrupts(TRUE)
          /\ UNCHANGED <<state, proc, pvars>>
  /\ UNCHANGED <<kept, again, usage, counted, turns, calls>>

(* A request of the turn that finds no handle, or fails in a way nobody    *)
(* handles, ends the turn.                                                 *)
TurnRaises ==
  /\ Leave(Sender)
  /\ UNCHANGED <<pvars, state, proc, kept, again>>

(* start_session.  A kill or an end may have dropped the process meanwhile. *)
Start ==
  /\ pc[Sender] = "start" /\ Answered
  /\ \/ /\ Reached /\ proc # None
        /\ SendPrompt([proc EXCEPT !.running = TRUE, !.heard = TRUE], again)
        /\ UNCHANGED <<state, lock, kept, again, interrupted>>
     \/ /\ handle
        /\ machine = "gone" \/ Fault("dead")
        /\ SandboxDead(Sender) /\ UNCHANGED <<proc, kept, again>>
     \/ (~handle \/ proc = None \/ Fault("start")) /\ TurnRaises
  /\ UNCHANGED <<pausedId, probes, usage, counted, turns, calls>>

(* send_prompt.  "Not found", three times: the process counts as dead and  *)
(* the turn starts another one, once.  Another failure of the write leaves *)
(* the process as it is and ends the turn.                                 *)
Prompt ==
  /\ pc[Sender] = "prompt" /\ Answered
  /\ \/ /\ Reached /\ proc # None
        /\ Goto(Sender, "stream") /\ again' = FALSE
        /\ UNCHANGED <<pvars, state, lock, proc, kept, interrupted>>
     \/ /\ handle /\ ~again
        /\ machine = "gone" \/ Fault("stdin")
        /\ kept' = Cost /\ again' = TRUE
        /\ EnsureReady(None, TRUE)
        /\ UNCHANGED <<state, lock, interrupted>>
     \/ handle /\ Fault("dead") /\ SandboxDead(Sender) /\ UNCHANGED <<proc, kept, again>>
     \/ /\ handle /\ again
        /\ machine = "gone" \/ Fault("stdin")
        /\ proc' = IF proc = None THEN None ELSE [proc EXCEPT !.running = FALSE]
        /\ Leave(Sender) /\ UNCHANGED <<pvars, state, kept, again>>
     \/ (~handle \/ (Reached /\ proc = None) \/ Fault("write")) /\ TurnRaises
  /\ UNCHANGED <<pausedId, probes, usage, counted, turns, calls>>

Hears == pc[Sender] = "stream" /\ proc # None /\ proc.heard /\ machine = "running"

(* An event of the turn, after which the provider may extend the timeout.  *)
TurnExtends ==
  /\ Hears /\ Extend
  /\ UNCHANGED <<state, pausedId, lock, pc, probes, turnVars, turns, calls>>

(* The result of the turn, with or without its usage by model.             *)
Result ==
  /\ Hears
  /\ NotifyTurnEnd
  /\ usage' \in BOOLEAN
  /\ Goto(Sender, "cost")
  /\ UNCHANGED <<state, pausedId, lock, probes, proc, kept, again, counted, interrupted, turns, calls>>

(* The deadline of the turn, or the last retry of the agent, ends it       *)
(* without a result; the process whose retries failed is terminated.       *)
TurnFails ==
  /\ pc[Sender] = "stream"
  /\ \E exhausted \in {FALSE, Fault("exhausted")} :
       IF exhausted THEN Hears /\ proc' = [proc EXCEPT !.running = FALSE]
                    ELSE elapsed >= TurnLimit /\ UNCHANGED proc
  /\ Goto(Sender, "poll")
  /\ UNCHANGED <<pvars, state, pausedId, lock, probes, kept, again, usage, counted, interrupted, turns, calls>>

Count == proc' = [proc EXCEPT !.count = @ + 1] /\ counted' = counted + 1

(* cost_update_from_result, on the process there is now, if there is one.  *)
RecordCost ==
  /\ pc[Sender] = "cost"
  /\ IF proc # None /\ usage THEN Count ELSE UNCHANGED <<proc, counted>>
  /\ Goto(Sender, IF proc = None THEN "idle" ELSE "poll")
  /\ usage' = (usage /\ proc # None)
  /\ UNCHANGED <<pvars, state, pausedId, lock, probes, kept, again, interrupted, turns, calls>>

(* poll_status asks for the cost itself when the result had no usage.      *)
Poll ==
  /\ pc[Sender] = "poll"
  /\ \/ proc # None /\ proc.running /\ proc.heard /\ Reached /\ ~usage /\ Count
     \/ UNCHANGED <<proc, counted>>
  /\ Leave(Sender) /\ usage' = FALSE
  /\ UNCHANGED <<pvars, state, pausedId, probes, kept, again, turns, calls>>

-----------------------------------------------------------------------------
(* E2B and the time.                                                       *)

Requests == {"steps", "probing", "start", "prompt"}

WakeUp ==
  /\ \E p \in Tasks : pc[p] \in Requests
  /\ Wake
  /\ UNCHANGED <<state, pausedId, lock, pc, probes, turnVars, turns, calls>>

(* A unit of time is long next to a request: time passes while a turn      *)
(* streams and between calls and turns.                                    *)
(* Bound: the clock of a turn that timed out stops at twice the limit.     *)
Passes ==
  /\ pc[Sender] \in {"idle", "stream"}
  /\ \A c \in Callers : pc[c] = "idle"
  /\ elapsed < (IF pc[Sender] = "stream" THEN TurnLimit ELSE 2 * TurnLimit)
  /\ Tick
  /\ UNCHANGED <<state, pausedId, lock, pc, probes, turnVars, turns, calls>>

Expires ==
  /\ AutoPause /\ Deafen
  /\ UNCHANGED <<state, pausedId, lock, pc, probes, kept, again, usage, counted, interrupted, turns, calls>>

NetworkUp ==
  /\ EgressUp
  /\ UNCHANGED <<state, pausedId, lock, pc, probes, turnVars, turns, calls>>

Disappears ==
  /\ Fault("lost") /\ Lost
  /\ UNCHANGED <<state, pausedId, lock, pc, probes, turnVars, turns, calls>>

-----------------------------------------------------------------------------
(* What a task that was called does next, and what starts a call.          *)

CallerStep(c) ==
  \/ Create(c) \/ Created(c) \/ Steps(c)
  \/ Pause(c) \/ Suspend(c) \/ PauseReturn(c)
  \/ Kill(c) \/ Destroy(c) \/ Destroyed(c)
  \/ Resumed(c)

ResumeStep(p) ==
  \/ Resume(p) \/ Connect(p) \/ Connected(p) \/ Probe(p) \/ ProbeDead(p)

TurnStep ==
  \/ TurnResumed \/ Start \/ Prompt \/ TurnExtends \/ Result \/ TurnFails
  \/ RecordCost \/ Poll \/ OnSandboxDead

Next ==
  \/ \E c \in Callers : Setup(c) \/ Call(c) \/ End(c) \/ CallerStep(c)
  \/ \E p \in Tasks : ResumeStep(p)
  \/ Turn \/ TurnStep
  \/ WakeUp \/ Passes \/ Expires \/ NetworkUp \/ Disappears

Spec == Init /\ [][Next]_vars

(* A task that can go on does, requests are answered, and time passes.     *)
Fairness ==
  /\ \A c \in Callers : WF_vars(CallerStep(c) \/ ResumeStep(c))
  /\ WF_vars(ResumeStep(Sender) \/ TurnStep)
  /\ WF_vars(WakeUp \/ Passes \/ Expires)

FairSpec == Spec /\ Fairness

-----------------------------------------------------------------------------
TypeOK ==
  /\ ProviderTypeOK
  /\ state \in R!RuntimeStates
  /\ interrupted \in BOOLEAN /\ pausedId \in BOOLEAN /\ again \in BOOLEAN /\ usage \in BOOLEAN
  /\ lock \in Tasks \cup {None}
  /\ \A p \in Tasks : pc[p] \in Requests \cup
       {"idle", "creating", "created", "pause", "pausing", "paused", "resume", "connect",
        "connected", "kill", "killing", "killed", "ending", "ended", "stream", "cost", "poll", "dead"}
  /\ proc \in Processes \cup {None} /\ Cost <= MaxTurns
  /\ probes \in 0..Attempts - 1
  /\ kept \in 0..MaxTurns /\ counted \in 0..MaxTurns

(* Who has the sandbox can reach its machine: an active sandbox has a      *)
(* handle, and a paused one a handle or the id to connect to, whatever     *)
(* setup, pause, resume, kill, end and turns do at the same time and       *)
(* whichever of their requests fail.                                       *)
Reachable ==
  /\ state = "active" => handle
  /\ state = "paused" => handle \/ pausedId

(* Sandbox.cost_metrics counts every turn whose cost was recorded ("an     *)
(* immutable snapshot of accumulated costs across all turns"), also when   *)
(* the agent's process died and a new one, that takes the metrics over, was *)
(* started without being interrupted itself, and no kill is under way.      *)
CostKept ==
  /\ state = "active" /\ \A c \in Callers : pc[c] \notin {"killing", "killed"}
  /\ pc[Sender] = "idle" /\ ~interrupted
  => Cost = counted

(* A turn ends, and a call returns, whatever fails on the way: no request  *)
(* waits for a lock that nobody gives back.                                *)
EverythingReturns == <>[](\A p \in Tasks : pc[p] = "idle")
=============================================================================
