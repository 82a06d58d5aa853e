------------------------- MODULE WorkspaceLifecycle -------------------------
(***************************************************************************)
(* One workspace of the HarnessBox server and everything that may touch    *)
(* it at the same time: prompts (SessionRouter.prompt), pause, resume,     *)
(* stop, destroy and retry requests, the background provisioning task and  *)
(* the idle timer.  It composes WorkspaceManager, WorkspaceRegistry,       *)
(* IdleOrchestrator, SessionRouter and the SandboxSession of the workspace.*)
(*                                                                         *)
(* The server is one asyncio event loop: code between two awaits is one    *)
(* atomic step, and every await on something slow (lock, condition,        *)
(* provider, storage, agent) is a value of pc.  A request is issued once.  *)
(*                                                                         *)
(* A definition whose comment starts with "Variant" is a wrong form of the *)
(* definition below it, kept to show that a property would notice it.      *)
(***************************************************************************)
EXTENDS Integers, FiniteSets

CONSTANTS
    Prompts,     (* calls of SessionRouter.prompt                          *)
    Pauses,      (* POST .../pause                                         *)
    Resumes,     (* POST .../resume                                        *)
    Stops,       (* POST .../stop                                          *)
    Destroys,    (* DELETE .../{id}                                        *)
    Retries,     (* POST .../retry, and the provisioning it schedules      *)
    Creator,     (* the provisioning task of POST .../create               *)
    Timer,       (* the task in IdleOrchestrator._idle_timers              *)
    NoTask,      (* an asyncio.Lock nobody holds                           *)
    AutoPause,   (* WorkspaceManager(auto_pause=...)                       *)
    ColdStart,   (* TRUE: begin at registration; FALSE: once provisioned   *)
    Faults,      (* what the environment may do, a subset of FaultKinds    *)
    MaxRestarts  (* bound on server restarts                               *)

FaultKinds ==
    {"abort",    (* the client of a prompt disconnects                     *)
     "setup",    (* Sandbox.setup raises                                   *)
     "save",     (* save_workspace raises: UNIQUE (remote, branch)         *)
     "pause",    (* provider.pause raises                                  *)
     "resume",   (* provider.resume raises                                 *)
     "storage",  (* the update of last_active raises                       *)
     "turn"}     (* a turn ends without a turn.ended event                 *)

Pausers == Pauses \cup {Timer}
Killers == Stops \cup Destroys
Provisioners == Retries \cup {Creator}
Requests == Pauses \cup Resumes \cup Killers \cup Retries
Tasks == Prompts \cup Requests \cup {Creator, Timer}

ASSUME TasksAssumption ==
    /\ IsFiniteSet(Prompts)
    /\ Prompts \cap (Requests \cup {Creator, Timer}) = {}
    /\ Pauses \cap (Resumes \cup Killers \cup Retries \cup {Creator, Timer}) = {}
    /\ Resumes \cap (Killers \cup Retries \cup {Creator, Timer}) = {}
    /\ Killers \cap (Retries \cup {Creator, Timer}) = {}
    /\ Retries \cap {Creator, Timer} = {}
    /\ Stops \cap Destroys = {}
    /\ Creator # Timer
    /\ NoTask \notin Tasks

ASSUME SettingsAssumption ==
    /\ AutoPause \in BOOLEAN
    /\ ColdStart \in BOOLEAN
    /\ Faults \subseteq FaultKinds
    /\ MaxRestarts \in Nat

VARIABLES
    state,       (* WorkspaceInstance.runtime_state                        *)
    sess,        (* SandboxSession._state of info.sandbox_conn, or "none"  *)
    vm,          (* the provider's machine behind info.sandbox_conn        *)
    attached,    (* E2BProvider._sandbox is not None                       *)
    registered,  (* the id is in WorkspaceRegistry._workspaces             *)
    stored,      (* runtime_state of the row in storage, "none": no row    *)
    announced,   (* the last runtime.state event emitted                   *)
    lock,        (* holder of WorkspaceRegistry._locks[id]                 *)
    draining,    (* the id is in IdleOrchestrator._draining                *)
    condReg,     (* the drain waiter's Condition is in _conditions         *)
    active,      (* IdleOrchestrator._active_turns.get(id, 0)              *)
    pinned,      (* prompts whose send_message holds the lock that         *)
                 (* AgentManager._locks has for their conversation         *)
    pc,          (* where each task is                                     *)
    restarts     (* number of server restarts so far                       *)

sandboxVars == <<sess, vm, attached>>
recordVars == <<registered, stored, announced>>
turnVars == <<active, pinned>>
vars == <<state, sandboxVars, recordVars, lock, draining, condReg, turnVars,
          pc, restarts>>

RuntimeStates ==
    {"starting", "active", "paused", "dying", "ended", "dead", "error"}
VmStates == {"none", "running", "paused", "killed"}

(* Steps a task takes while it holds the workspace lock.                   *)
DrainSteps == {"drain", "parked", "snapshot", "suspend", "vmPause",
               "pausePersist", "shutdown", "kill"}
LockedSteps == DrainSteps \cup {"connecting", "resuming", "resumed", "resumePersist"}
OtherSteps == {"idle", "off", "sleep", "pauseLock", "killLock", "killPersist",
               "connectLock", "connPersist", "resumeLock", "resolve", "admit",
               "touch", "turn", "ending", "poll", "leaked", "setup",
               "provSave", "provFail", "done", "failed"}
Steps == LockedSteps \cup OtherSteps

(* Settled: nothing in flight for the task. "leaked": the prompt is over   *)
(* but its turn was never given back to the idle orchestrator.             *)
SettledSteps == {"idle", "done", "failed", "leaked", "off", "sleep"}

Goto(t, step) == pc' = [pc EXCEPT ![t] = step]

-----------------------------------------------------------------------------
(* IdleOrchestrator.                                                       *)

(* cancel_timer: the timer task stops at the await it is suspended on,     *)
(* also in the middle of an auto-pause, whose "finally" ends the drain and *)
(* whose "async with" releases the lock.  A write or a provider call under *)
(* way may or may not have taken effect.                                   *)
CancelTimer ==
    /\ lock' = IF lock = Timer THEN NoTask ELSE lock
    /\ draining' = (draining /\ lock # Timer)
    /\ vm' \in {vm} \cup (IF pc[Timer] = "vmPause" THEN {"paused"} ELSE {})

StoredAfterCancel ==
    {stored} \cup (IF pc[Timer] = "pausePersist" /\ stored # "none"
                   THEN {"paused"} ELSE {})

(* cancel_timer as part of task t going to its next step.                  *)
GotoCancelling(t, step) ==
    /\ pc' = [pc EXCEPT ![t] = step, ![Timer] = "off"]
    /\ CancelTimer

(* start_timer: cancel, then a new countdown; a no-op without auto_pause.  *)
GotoStarting(t, step) ==
    IF AutoPause
    THEN /\ pc' = [pc EXCEPT ![t] = step, ![Timer] = "sleep"]
         /\ CancelTimer
    ELSE Goto(t, step) /\ UNCHANGED <<lock, draining, vm>>

(* Variant: the waiters are not notified.                                  *)
WokenNever(f) == f

(* _notify_turn_waiters reaches the parked drain only while its condition  *)
(* is registered.                                                          *)
Woken(f) ==
    [t \in Tasks |-> IF f[t] = "parked" /\ condReg THEN "drain" ELSE f[t]]

(* Variant: the countdown is restarted by the count before the decrement.  *)
EndTurnStale(p, step, rearm) ==
    LET woken == Woken([pc EXCEPT ![p] = step])
        start == AutoPause /\ rearm /\ active = 0
    IN  /\ active' = IF active = 0 THEN 0 ELSE active - 1
        /\ pc' = IF start THEN [woken EXCEPT ![Timer] = "sleep"] ELSE woken
        /\ UNCHANGED <<lock, draining, vm, stored>>

(* turn_ended / turn_errored: one turn less, wake the drain, and restart   *)
(* the countdown when no turn is left.                                     *)
EndTurn(p, step, rearm) ==
    LET left == IF active = 0 THEN 0 ELSE active - 1
        start == AutoPause /\ rearm /\ left = 0
        woken == Woken([pc EXCEPT ![p] = step])
    IN  /\ active' = left
        /\ IF start
           THEN /\ pc' = [woken EXCEPT ![Timer] = "sleep"]
                /\ CancelTimer
                /\ stored' \in StoredAfterCancel
           ELSE /\ pc' = woken
                /\ UNCHANGED <<lock, draining, vm, stored>>

(* _idle_countdown wakes up and calls _auto_pause_workspace.               *)
TimerFires ==
    /\ pc[Timer] = "sleep"
    /\ IF registered /\ state = "active" /\ sess # "none"
       THEN Goto(Timer, "pauseLock")
       ELSE Goto(Timer, "off")
    /\ UNCHANGED <<state, sandboxVars, recordVars, lock, draining, condReg,
                   turnVars, restarts>>

-----------------------------------------------------------------------------
(* Draining, shared by pause, stop and destroy: begin_drain under the      *)
(* lock, then wait_for_turns_idle.                                         *)

(* Variant: the lifecycle operation does not wait for the turns.           *)
AfterDrainCheckSkipped(t) == IF t \in Pausers THEN "snapshot" ELSE "shutdown"

(* The wait_for predicate: no active turn, or park on the condition.       *)
AfterDrainCheck(t) ==
    IF active > 0 THEN "parked" ELSE IF t \in Pausers THEN "snapshot" ELSE "shutdown"

BeginDrain(t) ==
    /\ lock' = t
    /\ draining' = TRUE
    /\ condReg' = TRUE
    /\ Goto(t, AfterDrainCheck(t))

(* A drain that was woken looks at the predicate again.                    *)
DrainCheck(t) ==
    /\ pc[t] = "drain"
    /\ Goto(t, AfterDrainCheck(t))
    /\ UNCHANGED <<state, sandboxVars, recordVars, lock, draining, condReg,
                   turnVars, restarts>>

(* Variant: end_drain is not in a "finally".                               *)
ReleaseDraining(t, step) ==
    /\ lock' = NoTask
    /\ UNCHANGED draining
    /\ Goto(t, step)

(* The "finally" of the locked section: end_drain, then release.           *)
Release(t, step) ==
    /\ lock' = NoTask
    /\ draining' = FALSE
    /\ Goto(t, step)

(* A timer that is done with its callback is just a finished task.         *)
Finish(t, outcome) == IF t = Timer THEN "off" ELSE outcome

-----------------------------------------------------------------------------
(* Pause: WorkspaceManager.pause_workspace, or the auto-pause callback.    *)

PauseRequest(t) ==
    /\ t \in Pauses
    /\ pc[t] = "idle"
    /\ IF registered
       THEN /\ GotoCancelling(t, "pauseLock")
            /\ stored' \in StoredAfterCancel
       ELSE /\ Goto(t, "failed")
            /\ UNCHANGED <<lock, draining, vm, stored>>
    /\ UNCHANGED <<state, sess, attached, registered, announced, condReg,
                   turnVars, restarts>>

(* Variant: the pause does not take the workspace lock.                    *)
PauseAcquireUnlocked(t) ==
    /\ pc[t] = "pauseLock"
    /\ state = "active"
    /\ BeginDrain(t)
    /\ UNCHANGED <<state, sandboxVars, recordVars, turnVars, restarts>>

PauseAcquire(t) ==
    /\ pc[t] = "pauseLock"
    /\ lock = NoTask
    /\ IF state = "active"
       THEN BeginDrain(t)
       ELSE /\ Goto(t, Finish(t, "failed"))
            /\ UNCHANGED <<lock, draining, condReg>>
    /\ UNCHANGED <<state, sandboxVars, recordVars, turnVars, restarts>>

(* create_snapshot (its failure is caught), then emit "paused".            *)
PauseSnapshot(t) ==
    /\ pc[t] = "snapshot"
    /\ announced' = IF registered THEN "paused" ELSE announced
    /\ Goto(t, "suspend")
    /\ UNCHANGED <<state, sandboxVars, registered, stored, lock, draining,
                   condReg, turnVars, restarts>>

(* SandboxSession.pause changes its own state before it calls the provider *)
(* and refuses unless that state was "active".                             *)
PauseSession(t) ==
    /\ pc[t] = "suspend"
    /\ IF sess = "active"
       THEN /\ sess' = "paused"
            /\ Goto(t, "vmPause")
            /\ UNCHANGED <<lock, draining>>
       ELSE /\ Release(t, Finish(t, "failed"))
            /\ UNCHANGED sess
    /\ UNCHANGED <<state, vm, attached, recordVars, condReg, turnVars, restarts>>

PauseVm(t) ==
    /\ pc[t] = "vmPause"
    /\ \/ /\ attached
          /\ vm' = "paused"
          /\ attached' = FALSE
          /\ state' = "paused"
          /\ Goto(t, "pausePersist")
          /\ UNCHANGED <<lock, draining>>
       \/ /\ "pause" \in Faults \/ ~attached
          /\ Release(t, Finish(t, "failed"))
          /\ UNCHANGED <<state, vm, attached>>
    /\ UNCHANGED <<sess, recordVars, condReg, turnVars, restarts>>

(* Variant: the pause is not written to storage.                           *)
PausePersistSkipped(t) ==
    /\ pc[t] = "pausePersist"
    /\ Release(t, Finish(t, "done"))
    /\ UNCHANGED <<state, sandboxVars, recordVars, condReg, turnVars, restarts>>

(* update_workspace raises KeyError when there is no row.                  *)
PausePersist(t) ==
    /\ pc[t] = "pausePersist"
    /\ stored' = IF stored = "none" THEN "none" ELSE "paused"
    /\ Release(t, Finish(t, IF stored = "none" THEN "failed" ELSE "done"))
    /\ UNCHANGED <<state, sandboxVars, registered, announced, condReg,
                   turnVars, restarts>>

Pause(t) ==
    \/ PauseRequest(t) \/ PauseAcquire(t) \/ PauseSnapshot(t)
    \/ PauseSession(t) \/ PauseVm(t) \/ PausePersist(t)

-----------------------------------------------------------------------------
(* Connect and resume, on behalf of a resume request or of a prompt        *)
(* (ensure_sandbox).                                                       *)

(* Where the task goes once the sandbox is up; a request then restarts the *)
(* idle countdown, a prompt does not.                                      *)
SandboxReady(t) ==
    IF t \in Resumes
    THEN GotoStarting(t, "done")
    ELSE Goto(t, "resolve") /\ UNCHANGED <<lock, draining, vm>>

Needed(t) ==
    CASE sess = "none"     -> Goto(t, "connectLock")
      [] sess # "none" /\ (state = "paused" \/ t \in Resumes)
                           -> Goto(t, "resumeLock")
      [] OTHER             -> Goto(t, "resolve")

(* POST .../resume, or prompt: the router refuses a dead workspace (409),  *)
(* ensure_sandbox connects, resumes or goes on.                            *)
SandboxRequest(t) ==
    /\ t \in Resumes \cup Prompts
    /\ pc[t] = "idle"
    /\ IF registered /\ (t \in Prompts => state # "dead")
       THEN Needed(t)
       ELSE Goto(t, "failed")
    /\ UNCHANGED <<state, sandboxVars, recordVars, lock, draining, condReg,
                   turnVars, restarts>>

(* _connect_sandbox: nothing to do when another task connected first; no   *)
(* entry or no row, no way to connect.  The runtime state is not looked    *)
(* at.                                                                     *)
ConnectAcquire(t) ==
    /\ pc[t] = "connectLock"
    /\ lock = NoTask
    /\ CASE registered /\ sess # "none" ->
              SandboxReady(t) /\ stored' \in StoredAfterCancel
         [] ~registered \/ (sess = "none" /\ stored = "none") ->
              Goto(t, "failed") /\ UNCHANGED <<lock, draining, vm, stored>>
         [] OTHER ->
              /\ lock' = t
              /\ Goto(t, "connecting")
              /\ UNCHANGED <<draining, vm, stored>>
    /\ UNCHANGED <<state, sess, attached, registered, announced, condReg,
                   turnVars, restarts>>

Reachable == vm \in {"running", "paused"}

(* The machine of the row, or one made from the snapshot when it is gone.  *)
Connect(t) ==
    /\ pc[t] = "connecting"
    /\ lock' = NoTask
    /\ \/ /\ vm' = "running"
          /\ attached' = TRUE
          /\ sess' = "active"
          /\ state' = "active"
          /\ Goto(t, "connPersist")
       \/ /\ "resume" \in Faults \/ ~Reachable
          /\ Goto(t, "failed")
          /\ UNCHANGED <<state, sandboxVars>>
    /\ UNCHANGED <<recordVars, draining, condReg, turnVars, restarts>>

(* The row is updated after the lock was released.                         *)
ConnectPersist(t) ==
    /\ pc[t] = "connPersist"
    /\ SandboxReady(t)
    /\ stored' = "active"
    /\ UNCHANGED <<state, sess, attached, registered, announced, condReg,
                   turnVars, restarts>>

ResumeAcquire(t) ==
    /\ pc[t] = "resumeLock"
    /\ lock = NoTask
    /\ IF state = "paused"
       THEN lock' = t /\ Goto(t, "resuming")
       ELSE Goto(t, "failed") /\ UNCHANGED lock
    /\ UNCHANGED <<state, sandboxVars, recordVars, draining, condReg,
                   turnVars, restarts>>

(* Variant: the session is not told that its machine resumed.              *)
ResumeSessionUntold(t) ==
    /\ pc[t] = "resuming"
    /\ Reachable
    /\ vm' = "running"
    /\ attached' = TRUE
    /\ Goto(t, "resumed")
    /\ UNCHANGED <<sess, state, recordVars, lock, draining, condReg, turnVars,
                   restarts>>

(* Variant: the lock is only held while the provider resumes.              *)
ResumeSessionUnlocking(t) ==
    /\ pc[t] = "resuming"
    /\ Reachable /\ sess = "paused"
    /\ vm' = "running"
    /\ attached' = TRUE
    /\ sess' = "active"
    /\ lock' = NoTask
    /\ Goto(t, "resumed")
    /\ UNCHANGED <<state, recordVars, draining, condReg, turnVars, restarts>>

(* SandboxSession.resume: the provider first, then the session's state,    *)
(* which cannot go from "active" to "active".  A failure after connecting  *)
(* (no egress) leaves the machine running.                                 *)
ResumeSession(t) ==
    /\ pc[t] = "resuming"
    /\ \/ /\ Reachable
          /\ vm' = "running"
          /\ attached' = TRUE
          /\ IF sess = "paused"
             THEN /\ sess' = "active"
                  /\ Goto(t, "resumed")
                  /\ UNCHANGED lock
             ELSE /\ lock' = NoTask
                  /\ Goto(t, "failed")
                  /\ UNCHANGED sess
       \/ /\ "resume" \in Faults \/ ~Reachable
          /\ lock' = NoTask
          /\ Goto(t, "failed")
          /\ \/ UNCHANGED <<vm, attached>>
             \/ Reachable /\ vm' = "running" /\ attached' = TRUE
          /\ UNCHANGED sess
    /\ UNCHANGED <<state, recordVars, draining, condReg, turnVars, restarts>>

(* _recover_from_snapshot, when the machine has expired or cannot reach    *)
(* the network: once the agents have gone a new machine takes its place,   *)
(* and the session's state is moved, which fails unless it was paused.     *)
Recover(t) ==
    /\ pc[t] = "resuming"
    /\ "resume" \in Faults \/ ~Reachable
    /\ pinned = {}
    /\ vm' = "running"
    /\ attached' = TRUE
    /\ IF sess = "paused"
       THEN sess' = "active" /\ Goto(t, "resumed") /\ UNCHANGED lock
       ELSE lock' = NoTask /\ Goto(t, "failed") /\ UNCHANGED sess
    /\ UNCHANGED <<state, recordVars, draining, condReg, turnVars, restarts>>

(* agent_manager.shutdown_all takes each conversation's lock, so it waits  *)
(* for the prompts that hold one (none after a recovery); then the         *)
(* workspace is active again.                                              *)
ResumeShutdownAgents(t) ==
    /\ pc[t] = "resumed"
    /\ pinned = {}
    /\ state' = "active"
    /\ announced' = IF registered THEN "active" ELSE announced
    /\ Goto(t, "resumePersist")
    /\ UNCHANGED <<sandboxVars, registered, stored, lock, draining, condReg,
                   turnVars, restarts>>

(* The timer cannot be holding the lock here: restarting it releases       *)
(* nothing.                                                                *)
ResumePersist(t) ==
    /\ pc[t] = "resumePersist"
    /\ lock' = NoTask
    /\ stored' = IF stored = "none" THEN "none" ELSE "active"
    /\ CASE stored = "none" -> Goto(t, "failed")
         [] stored # "none" /\ t \in Resumes /\ AutoPause ->
              pc' = [pc EXCEPT ![t] = "done", ![Timer] = "sleep"]
         [] OTHER -> Goto(t, IF t \in Resumes THEN "done" ELSE "resolve")
    /\ UNCHANGED <<state, sandboxVars, registered, announced, draining,
                   condReg, turnVars, restarts>>

EnsureSandbox(t) ==
    \/ SandboxRequest(t) \/ ConnectAcquire(t) \/ Connect(t) \/ ConnectPersist(t)
    \/ ResumeAcquire(t) \/ ResumeSession(t) \/ Recover(t)
    \/ ResumeShutdownAgents(t) \/ ResumePersist(t)

-----------------------------------------------------------------------------
(* Stop and destroy.                                                       *)

(* WorkspaceManager forgets the idle state (remove_workspace) before the   *)
(* registry takes the lock.  A parked drain loses its condition.           *)
KillRequest(t) ==
    /\ t \in Killers
    /\ pc[t] = "idle"
    /\ IF registered
       THEN /\ pc' = [pc EXCEPT ![t] = "killLock", ![Timer] = "off"]
            /\ lock' = IF lock = Timer THEN NoTask ELSE lock
            /\ vm' \in {vm} \cup (IF pc[Timer] = "vmPause" THEN {"paused"} ELSE {})
            /\ stored' \in StoredAfterCancel
            /\ active' = 0
            /\ draining' = FALSE
            /\ condReg' = FALSE
       ELSE /\ Goto(t, "failed")
            /\ UNCHANGED <<lock, draining, condReg, active, vm, stored>>
    /\ UNCHANGED <<state, sess, attached, registered, announced, pinned, restarts>>

KillAcquire(t) ==
    /\ pc[t] = "killLock"
    /\ lock = NoTask
    /\ BeginDrain(t)
    /\ UNCHANGED <<state, sandboxVars, recordVars, turnVars, restarts>>

KillShutdownAgents(t) ==
    /\ pc[t] = "shutdown"
    /\ pinned = {}
    /\ announced' = IF registered THEN "dead" ELSE announced
    /\ Goto(t, "kill")
    /\ UNCHANGED <<state, sandboxVars, registered, stored, lock, draining,
                   condReg, turnVars, restarts>>

(* SandboxSession.kill does nothing when already dead, E2BProvider.kill    *)
(* does nothing when not attached.                                         *)
Kill(t) ==
    /\ pc[t] = "kill"
    /\ IF sess \in {"none", "dead"}
       THEN UNCHANGED sandboxVars
       ELSE /\ sess' = "dead"
            /\ vm' = IF attached THEN "killed" ELSE vm
            /\ attached' = FALSE
    /\ state' = "dead"
    /\ Release(t, "killPersist")
    /\ UNCHANGED <<recordVars, condReg, turnVars, restarts>>

(* After the lock: the row (a missing one is only logged), and for destroy *)
(* the registry's own entries.                                             *)
KillPersist(t) ==
    /\ pc[t] = "killPersist"
    /\ stored' = IF stored = "none" THEN "none" ELSE "dead"
    /\ registered' = (registered /\ t \in Stops)
    /\ Goto(t, "done")
    /\ UNCHANGED <<state, sandboxVars, announced, lock, draining, condReg,
                   turnVars, restarts>>

KillWorkspace(t) ==
    \/ KillRequest(t) \/ KillAcquire(t) \/ KillShutdownAgents(t)
    \/ Kill(t) \/ KillPersist(t)

-----------------------------------------------------------------------------
(* Provisioning, which takes no lock.                                      *)

(* prepare_retry: ERROR -> STARTING, if this process still has the config. *)
(* The write of STARTING that it schedules finds no row: a workspace that  *)
(* failed to provision in this process was never saved.                    *)
RetryRequest(t) ==
    /\ t \in Retries
    /\ pc[t] = "idle"
    /\ IF registered /\ state = "error" /\ restarts = 0
       THEN /\ state' = "starting"
            /\ Goto(t, "setup")
       ELSE /\ Goto(t, "failed")
            /\ UNCHANGED state
    /\ UNCHANGED <<sandboxVars, recordVars, lock, draining, condReg, turnVars,
                   restarts>>

ProvisionSetup(t) ==
    /\ pc[t] = "setup"
    /\ \/ /\ state' = "active"
          /\ sess' = "active"
          /\ vm' = "running"
          /\ attached' = TRUE
          /\ announced' = IF registered THEN "active" ELSE announced
          /\ Goto(t, "provSave")
       \/ /\ "setup" \in Faults
          /\ state' = "error"
          /\ announced' = IF registered THEN "error" ELSE announced
          /\ vm' \in {vm, "running"}
          /\ Goto(t, "provFail")
          /\ UNCHANGED <<sess, attached>>
    /\ UNCHANGED <<registered, stored, lock, draining, condReg, turnVars, restarts>>

(* save_workspace inserts the row as the record is now; a failure is       *)
(* logged.  Then the manager starts the idle countdown.                    *)
ProvisionSave(t) ==
    /\ pc[t] = "provSave"
    /\ \/ stored' = state
       \/ "save" \in Faults /\ UNCHANGED stored
    /\ IF state = "active"
       THEN GotoStarting(t, "done")
       ELSE Goto(t, "done") /\ UNCHANGED <<lock, draining, vm>>
    /\ UNCHANGED <<state, sess, attached, registered, announced, condReg,
                   turnVars, restarts>>

ProvisionFail(t) ==
    /\ pc[t] = "provFail"
    /\ stored' = IF stored = "none" THEN "none" ELSE "error"
    /\ Goto(t, "failed")
    /\ UNCHANGED <<state, sandboxVars, registered, announced, lock, draining,
                   condReg, turnVars, restarts>>

Provision(t) ==
    RetryRequest(t) \/ ProvisionSetup(t) \/ ProvisionSave(t) \/ ProvisionFail(t)

-----------------------------------------------------------------------------
(* SessionRouter.prompt after ensure_sandbox.                              *)

ResolveConversation(p) ==
    /\ pc[p] = "resolve"
    /\ Goto(p, "admit")
    /\ UNCHANGED <<state, sandboxVars, recordVars, lock, draining, condReg,
                   turnVars, restarts>>

(* The admission lock is held over no await: check, turn_started (which    *)
(* refuses while draining and cancels the countdown), release.             *)
Admit(p) ==
    /\ p \in Prompts
    /\ pc[p] = "admit"
    /\ lock = NoTask
    /\ IF state = "active" /\ sess # "none" /\ ~draining
       THEN /\ active' = active + 1
            /\ GotoCancelling(p, "touch")
       ELSE /\ Goto(p, "failed")
            /\ UNCHANGED <<active, lock, draining, vm>>
    /\ UNCHANGED <<state, sess, attached, recordVars, condReg, pinned, restarts>>

(* update_workspace(last_active) is outside the try: when it raises, the   *)
(* admitted turn is never given back.  The prompt then reaches             *)
(* send_message, which holds the conversation's registered lock unless it  *)
(* has just spawned the agent process.                                     *)
TouchLastActive(p) ==
    /\ pc[p] = "touch"
    /\ \/ /\ stored # "none"
          /\ Goto(p, "turn")
          /\ pinned' \in {pinned, pinned \cup {p}}
       \/ /\ stored = "none" \/ "storage" \in Faults
          /\ Goto(p, "leaked")
          /\ UNCHANGED pinned
    /\ UNCHANGED <<state, sandboxVars, recordVars, lock, draining, condReg,
                   active, restarts>>

(* The turn.ended event: from here on the "finally" leaves the turn alone  *)
(* (turn_ended_seen), but two writes to storage come before it is given    *)
(* back, and the turn still counts.  The event is the turn's last: results *)
(* carry a cost or a duration, without which stream_turn would read on.    *)
TurnEnded(p) ==
    /\ pc[p] = "turn"
    /\ Goto(p, "ending")
    /\ UNCHANGED <<state, sandboxVars, recordVars, lock, draining, condReg,
                   turnVars, restarts>>

(* Whether or not the writes failed, the turn is given back, while         *)
(* send_message goes on to poll /context and /cost.                        *)
GiveTurnBack(p) ==
    /\ pc[p] = "ending"
    /\ EndTurn(p, "poll", TRUE)
    /\ UNCHANGED <<state, sess, attached, registered, announced, condReg,
                   pinned, restarts>>

(* The turn times out or send_message raises: the "finally" gives it back. *)
TurnErrored(p) ==
    /\ pc[p] = "turn"
    /\ "turn" \in Faults
    /\ EndTurn(p, "done", state = "active")
    /\ pinned' = pinned \ {p}
    /\ UNCHANGED <<state, sess, attached, registered, announced, condReg, restarts>>

(* Variant: the "finally" does not ask whether the end of the turn was     *)
(* seen.                                                                   *)
PollStatusTwice(p) ==
    /\ pc[p] = "poll"
    /\ EndTurn(p, "done", state = "active")
    /\ pinned' = pinned \ {p}
    /\ UNCHANGED <<state, sess, attached, registered, announced, condReg, restarts>>

PollStatus(p) ==
    /\ pc[p] = "poll"
    /\ Goto(p, "done")
    /\ pinned' = pinned \ {p}
    /\ UNCHANGED <<state, sandboxVars, recordVars, lock, draining, condReg,
                   active, restarts>>

(* The client disconnects: CancelledError at whatever the prompt awaits.   *)
(* A turn under way is given back by the "finally"; before the "try" it is *)
(* not, and not any more once its end was seen; a resume is left wherever  *)
(* it was, its lock released.  While the agent is polled it does what      *)
(* PollStatus does.                                                        *)
AbortEarly(p) ==
    /\ pc[p] \in {"connectLock", "connPersist", "resumeLock", "resolve", "admit",
                  "connecting", "resuming", "resumed", "resumePersist", "touch"}
    /\ lock' = IF pc[p] \in LockedSteps THEN NoTask ELSE lock
    /\ Goto(p, IF pc[p] = "touch" THEN "leaked" ELSE "failed")
    /\ \/ UNCHANGED <<vm, attached>>
       \/ pc[p] = "connecting" /\ vm' = "running" /\ UNCHANGED attached
       \/ pc[p] = "resuming" /\ vm' = "running" /\ attached' = TRUE
    /\ UNCHANGED <<state, sess, recordVars, draining, condReg, turnVars, restarts>>

AbortTurn(p) ==
    /\ pc[p] = "turn"
    /\ EndTurn(p, "done", state = "active")
    /\ pinned' = pinned \ {p}
    /\ UNCHANGED <<state, sess, attached, registered, announced, condReg, restarts>>

(* During the writes after turn.ended: CancelledError passes the handlers  *)
(* of the writes, and the "finally" sees an ended turn.                    *)
AbortEnding(p) ==
    /\ pc[p] = "ending"
    /\ Goto(p, "leaked")
    /\ pinned' = pinned \ {p}
    /\ UNCHANGED <<state, sandboxVars, recordVars, lock, draining, condReg,
                   active, restarts>>

Abort(p) ==
    /\ p \in Prompts
    /\ "abort" \in Faults
    /\ AbortEarly(p) \/ AbortTurn(p) \/ AbortEnding(p)

Turn(p) ==
    \/ ResolveConversation(p) \/ Admit(p) \/ TouchLastActive(p)
    \/ TurnEnded(p) \/ GiveTurnBack(p) \/ TurnErrored(p) \/ PollStatus(p)

-----------------------------------------------------------------------------
(* Variants: an ACTIVE row is loaded as it is, or as ERROR.                *)
LoadedAsIs == IF stored = "none" THEN state ELSE stored
LoadedAsError ==
    IF stored = "none" THEN state ELSE IF stored = "active" THEN "error" ELSE stored

(* load_workspaces: a row says what the state was, but its sandbox object  *)
(* is gone; the record keeps its last state when there is no row.          *)
LoadedState ==
    CASE stored = "none"     -> state
      [] stored = "active"   -> "paused"
      [] stored = "starting" -> "error"
      [] OTHER               -> stored

(* The server process dies and starts again: load_workspaces brings the    *)
(* row back without a sandbox; ACTIVE is read as PAUSED.                   *)
Restart ==
    /\ restarts < MaxRestarts
    /\ restarts' = restarts + 1
    /\ registered' = (stored # "none")
    /\ state' = LoadedState
    /\ sess' = "none"
    /\ attached' = FALSE
    /\ lock' = NoTask
    /\ draining' = FALSE
    /\ condReg' = FALSE
    /\ active' = 0
    /\ pinned' = {}
    /\ pc' = [t \in Tasks |-> IF t = Timer THEN "off"
                              ELSE IF pc[t] \in {"idle", "done"} THEN pc[t]
                              ELSE "failed"]
    /\ UNCHANGED <<vm, stored, announced>>

-----------------------------------------------------------------------------
Init ==
    /\ state = IF ColdStart THEN "starting" ELSE "active"
    /\ sess = IF ColdStart THEN "none" ELSE "active"
    /\ vm = IF ColdStart THEN "none" ELSE "running"
    /\ attached = ~ColdStart
    /\ registered = TRUE
    /\ stored \in IF ColdStart THEN {"none"}
                  ELSE IF "save" \in Faults THEN {"none", "active"} ELSE {"active"}
    /\ announced = IF ColdStart THEN "none" ELSE "active"
    /\ lock = NoTask
    /\ draining = FALSE
    /\ condReg = FALSE
    /\ active = 0
    /\ pinned = {}
    /\ pc = [t \in Tasks |->
               IF t = Creator THEN IF ColdStart THEN "setup" ELSE "done"
               ELSE IF t = Timer
                    THEN IF AutoPause /\ ~ColdStart THEN "sleep" ELSE "off"
                    ELSE "idle"]
    /\ restarts = 0

Settled == \A t \in Tasks : pc[t] \in SettledSteps

(* Every request has been served and nothing is left to happen: not a      *)
(* deadlock.                                                               *)
Finished ==
    /\ Settled
    /\ \A t \in Tasks : pc[t] \notin {"idle", "sleep"}
    /\ UNCHANGED vars

Next ==
    \/ TimerFires
    \/ \E t \in Pausers : Pause(t)
    \/ \E t \in Resumes \cup Prompts : EnsureSandbox(t)
    \/ \E t \in Killers : KillWorkspace(t)
    \/ \E t \in Provisioners : Provision(t)
    \/ \E p \in Prompts : Turn(p) \/ Abort(p)
    \/ \E t \in Pausers \cup Killers : DrainCheck(t)
    \/ Restart
    \/ Finished

Spec == Init /\ [][Next]_vars

(* asyncio keeps running whatever is runnable; asyncio.Lock wakes its      *)
(* waiters in FIFO order, so a task that waits for the lock and finds it   *)
(* free again and again gets it.  Clients need not issue a request, fail   *)
(* or disconnect.                                                          *)
Step(t) ==
    \/ t = Timer /\ TimerFires
    \/ t \in Pausers /\ Pause(t)
    \/ t \in Resumes \cup Prompts /\ EnsureSandbox(t)
    \/ t \in Killers /\ KillWorkspace(t)
    \/ t \in Provisioners /\ Provision(t)
    \/ t \in Prompts /\ Turn(t)
    \/ t \in Pausers \cup Killers /\ DrainCheck(t)

Fairness == \A t \in Tasks : SF_vars(pc[t] # "idle" /\ Step(t))

FairSpec == Spec /\ Fairness

-----------------------------------------------------------------------------
(* Every variable has its type.                                            *)
TypeOK ==
    /\ state \in RuntimeStates
    /\ sess \in {"none", "active", "paused", "dead"}
    /\ vm \in VmStates
    /\ attached \in BOOLEAN
    /\ registered \in BOOLEAN
    /\ stored \in RuntimeStates \cup {"none"}
    /\ announced \in RuntimeStates \cup {"none"}
    /\ lock \in Tasks \cup {NoTask}
    /\ draining \in BOOLEAN
    /\ condReg \in BOOLEAN
    /\ active \in Nat
    /\ pinned \subseteq Prompts
    /\ pc \in [Tasks -> Steps]
    /\ restarts \in Nat

InTurn == {p \in Prompts : pc[p] \in {"touch", "turn", "ending"}}

(* Lifecycle operations never interleave on one machine: whoever is in the *)
(* section the workspace lock guards holds it, also after cancellations.   *)
LockOwner == \A t \in Tasks : pc[t] \in LockedSteps => lock = t

(* The drain flag makes turn_started refuse every prompt, so it must never *)
(* outlive the operation that raised it: whoever leaves the locked         *)
(* section, by any path, cancellation included, has lowered it.            *)
DrainOwned ==
    draining => \E t \in Tasks : lock = t /\ pc[t] \in DrainSteps

(* _pause_workspace_locked and the router assert that an ACTIVE workspace  *)
(* has a sandbox object; nothing checks it where ACTIVE is assigned, and a *)
(* restart drops the sandbox but keeps the row.                            *)
ActiveHasSandbox == (registered /\ state = "active") => sess # "none"

(* Stop and destroy forget the turns (remove_workspace): what follows is   *)
(* promised only as long as nobody asked for one.                          *)
NotKilled == \A t \in Killers : pc[t] = "idle"

(* From the moment the pause has drained until it is over no admitted turn *)
(* is running: the machine is never snapshotted or suspended under one.    *)
Suspending == \E t \in Pausers :
    pc[t] \in {"snapshot", "suspend", "vmPause", "pausePersist"}
PauseDrainsTurns == (NotKilled /\ Suspending) => InTurn = {}

(* Stop and destroy take the machine away only when no admitted turn runs. *)
KillDrainsTurns == (\E t \in Killers : pc[t] \in {"shutdown", "kill"}) => InTurn = {}

(* Whatever fails, and wherever a client disconnects, the counter is the   *)
(* number of turns admitted and not given back: no turn is given back      *)
(* twice (turn_ended, then turn_errored), which the clamp at zero would    *)
(* hide, and a turn is lost for good in two places only, the await before  *)
(* the "try" and the awaits between turn.ended and idle.turn_ended.        *)
Admitted == {p \in Prompts : pc[p] \in {"touch", "turn", "ending", "leaked"}}
TurnsAccounted == NotKilled => active = Cardinality(Admitted)

(* With auto_pause, a workspace left ACTIVE with no turn has a countdown   *)
(* running; otherwise its machine would run, and cost, forever.            *)
IdleTimerArmed ==
    (AutoPause /\ Settled /\ registered /\ state = "active" /\ active = 0)
        => pc[Timer] = "sleep"

(* When nothing is in flight, the record, the row in storage, the last     *)
(* event clients saw and the sandbox session agree on the runtime state.   *)
RecordsAgree ==
    (Settled /\ registered) => stored = state /\ announced = state
SessionAgrees ==
    Settled => /\ state = "active" => sess = "active"
               /\ state = "paused" => sess \in {"paused", "none"}

(* A stop request that has been answered has stopped the workspace.  It    *)
(* does not hold while the workspace is STARTING (see README.md).          *)
StoppedStaysDead == \A t \in Stops : pc[t] = "done" => state = "dead"

(* Every assignment of runtime_state is a transition lifecycle.py allows.  *)
Runtime == INSTANCE RuntimeState WITH runtime_state <- state
RuntimeContract == Runtime!Spec

(* As long as nobody stops or destroys the workspace, that holds whatever  *)
(* fails, and of what a restarted server makes of the stored row too,      *)
(* unless the row says ERROR because a failed provisioning wrote that      *)
(* after its retry had saved the workspace.                                *)
NotRetried == \A t \in Retries : pc[t] = "idle"
TransitionsLegal ==
    [][NotKilled /\ (restarts' = 0 \/ NotRetried)
        => Runtime!ValidateRuntimeTransition(state, state')]_state

(* Every request that was accepted is eventually answered: no drain waits  *)
(* forever, no lock is held forever.                                       *)
EveryTaskSettles ==
    \A t \in Tasks : pc[t] \notin SettledSteps ~> pc[t] \in SettledSteps

(* With auto_pause, an ACTIVE workspace does not stay ACTIVE.              *)
EventuallyPaused == state = "active" ~> state # "active"
=============================================================================
