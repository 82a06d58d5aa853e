----------------------- MODULE RuntimeContract_proofs -----------------------
(***************************************************************************)
(* The workspace lifecycle implements RuntimeState: from the moment a      *)
(* workspace is provisioned until the server process ends, its             *)
(* runtime_state only makes the transitions lifecycle.py allows, whatever  *)
(* pauses, resumes, stops, destroys and prompts interleave.  The registry  *)
(* checks the state when a task enters the locked section and assigns it   *)
(* some awaits later; LiveInv says the check still holds then.  LegalInv   *)
(* says the same through failures, retries and restarts, and AgreeInv what *)
(* the record, the row, the last event and the session say of each other.  *)
(***************************************************************************)
EXTENDS WorkspaceLifecycle_proofs

(* Where a pause relies on the workspace being ACTIVE.                     *)
PauseSection == {"drain", "parked", "snapshot", "suspend", "vmPause"}
Unprovisioned == {"setup", "provSave", "provFail", "connecting"}

LiveInv ==
    /\ restarts = 0
    /\ sess # "none"
    /\ state \in {"active", "paused", "dead"}
    /\ \A t \in Tasks : pc[t] \notin Unprovisioned
    /\ \A t \in Pausers : pc[t] \in PauseSection => state = "active"
    /\ \A t \in Tasks : pc[t] \in {"resuming", "resumed"} => state = "paused"

PlainSteps == Steps \ (Unprovisioned \cup PauseSection \cup {"resuming",
                                                             "resumed"})

(* A task that goes on under a condition it has checked.                   *)
LEMMA LiveEnter ==
  ASSUME LiveInv, UNCHANGED <<state, sess, restarts>>, TypeOK,
         NEW t \in Tasks, NEW step \in Steps \ Unprovisioned, Goto(t, step),
         t \in Pausers /\ step \in PauseSection => state = "active",
         step \in {"resuming", "resumed"} => state = "paused"
  PROVE LiveInv'
<1>1. \A u \in Tasks : pc'[u] = IF u = t THEN step ELSE pc[u]
  BY DEF TypeOK, Goto
<1>. QED BY <1>1, TaskFacts DEF LiveInv

(* The holder of the lock changes the state as it leaves the checked       *)
(* part: no other task has checked the old state.                          *)
LEMMA LiveMoved ==
  ASSUME LockInv, LiveInv, NEW t \in Tasks, NEW step \in PlainSteps,
   UNCHANGED restarts, sess' # "none", state' \in {"active", "paused",
                                                   "dead"}, pc[t] \in LockedSteps, Goto(t, step)
  PROVE LiveInv'
<1>1. \A u \in Tasks : pc'[u] = IF u = t THEN step ELSE pc[u]
  BY DEF LockInv, TypeOK, Goto
<1>2. \A u \in Tasks : pc[u] \in LockedSteps => u = t
  BY DEF LockInv, LockOwner
<1>3. PauseSection \subseteq LockedSteps /\ {"resuming", "resumed"} \subseteq LockedSteps
  BY DrainFacts, ConnFacts, Disjoint DEF PauseSection
<1>4. \A u \in Tasks : pc'[u] \notin PauseSection \cup {"resuming", "resumed"}
  BY <1>1, <1>2, <1>3 DEF PlainSteps
<1>5. \A u \in Tasks : pc'[u] \notin Unprovisioned
  BY <1>1 DEF LiveInv, PlainSteps
<1>. QED BY <1>4, <1>5, TaskFacts DEF LiveInv

(* Steps at which a task relies on no state.                               *)
LEMMA PlainFacts ==
  {"idle", "off", "sleep", "pauseLock", "killLock", "killPersist",
   "connectLock", "connPersist", "resumeLock", "resolve", "admit", "touch",
   "turn", "ending", "poll", "leaked", "done", "failed", "resumePersist",
   "pausePersist", "shutdown", "kill"} \subseteq PlainSteps
  BY StepFacts DEF PlainSteps, Unprovisioned, PauseSection

(* Steps to a place where no state is relied on.                           *)
LEMMA LivePlain ==
  ASSUME LiveInv, UNCHANGED <<state, sess, restarts>>,
         \A u \in Tasks : \/ pc'[u] = pc[u]
                          \/ pc'[u] \in PlainSteps
                          \/ pc'[u] = "drain" /\ pc[u] = "parked"
  PROVE LiveInv'
<1>1. \A u \in Tasks : pc'[u] \notin Unprovisioned
  BY DEF LiveInv, Unprovisioned, PlainSteps
<1>2. \A u \in Pausers : pc'[u] \in PauseSection => state = "active"
  BY TaskFacts DEF LiveInv, PauseSection, PlainSteps
<1>3. \A u \in Tasks : pc'[u] \in {"resuming", "resumed"} => state = "paused"
  BY DEF LiveInv, PlainSteps
<1>. QED BY <1>1, <1>2, <1>3 DEF LiveInv

(* Steps at which a task relies on the state it checked.                   *)
LEMMA SectionFacts ==
  /\ {"drain", "parked", "snapshot", "suspend", "vmPause", "resuming",
      "resumed", "shutdown", "resumePersist"} \subseteq Steps \ Unprovisioned
  /\ {"shutdown", "resuming", "resumed"} \cap PauseSection = {}
  /\ {"drain", "parked", "snapshot", "suspend", "vmPause"} = PauseSection
  /\ PauseSection \cap {"resuming", "resumed"} = {}
  BY StepFacts DEF Unprovisioned, PauseSection

(* Every step keeps LiveInv and is a transition lifecycle.py allows, or    *)
(* leaves the state alone.                                                 *)
LEMMA LiveInductive ==
  ASSUME MaxRestarts = 0, LockInv, LiveInv,
    [Next]_vars PROVE LiveInv' /\ [Runtime!Next]_state
<1>. TypeOK BY DEF LockInv
<1>0. UNCHANGED state => [Runtime!Next]_state
  OBVIOUS
<1>. SUFFICES LiveInv' /\ (state' # state => Runtime!Next)
  BY <1>0
<1>. DEFINE Goal == LiveInv' /\ (state' # state => Runtime!Next)
<1>. USE TaskFacts, Sep, PlainFacts DEF TypeOK, Goto
<1>1. ASSUME TimerFires PROVE Goal
  BY <1>1, LivePlain DEF TimerFires, sandboxVars, PauseSection
<1>2. ASSUME NEW t \in Pausers, Pause(t) PROVE Goal
  <2>1. CASE PauseRequest(t)
    BY <2>1, LivePlain DEF PauseRequest, GotoCancelling
  <2>2. CASE PauseAcquire(t)
    <3>1. CASE state = "active"
      BY <2>2, <3>1, LiveEnter, SectionFacts
      DEF PauseAcquire, BeginDrain, AfterDrainCheck, sandboxVars
    <3>2. CASE state # "active"
      BY <2>2, <3>2, LivePlain DEF PauseAcquire, Finish, sandboxVars
    <3>. QED BY <3>1, <3>2
  <2>3. CASE PauseSnapshot(t)
    BY <2>3, LiveEnter, SectionFacts DEF PauseSnapshot, sandboxVars, LiveInv
  <2>4. CASE PauseSession(t)
    <3>1. CASE sess = "active"
      BY <2>4, <3>1 DEF PauseSession, LiveInv, PauseSection, Unprovisioned
    <3>2. CASE sess # "active"
      BY <2>4, <3>2, LivePlain DEF PauseSession, Release, Finish
    <3>. QED BY <3>1, <3>2
  <2>5. CASE PauseVm(t)
    <3>1. CASE state' = "paused" /\ Goto(t, "pausePersist")
      <4>1. state = "active" BY <2>5 DEF PauseVm, LiveInv, PauseSection
      <4>2. Runtime!Next
        BY <3>1, <4>1
        DEF Runtime!Next, Runtime!ValidateRuntimeTransition,
            Runtime!ValidRuntimeTransitions, Runtime!RuntimeStates
      <4>3. LiveInv'
        BY <2>5, <3>1, LiveMoved, DrainFacts, Disjoint
        DEF PauseVm, LiveInv, PauseSection
      <4>. QED BY <4>2, <4>3
    <3>2. CASE UNCHANGED state /\ Goto(t, Finish(t, "failed"))
      BY <2>5, <3>2, LivePlain DEF PauseVm, Finish
    <3>. QED BY <2>5, <3>1, <3>2 DEF PauseVm, Release
  <2>6. CASE PausePersist(t)
    BY <2>6, LivePlain DEF PausePersist, Release, Finish, sandboxVars
  <2>. QED BY <1>2, <2>1, <2>2, <2>3, <2>4, <2>5, <2>6 DEF Pause
<1>3. ASSUME NEW t \in Resumes \cup Prompts, EnsureSandbox(t) PROVE Goal
  <2>1. CASE SandboxRequest(t)
    BY <2>1, LivePlain DEF SandboxRequest, Needed, sandboxVars
  <2>2. CASE ConnectAcquire(t)
    <3>1. sess # "none" BY DEF LiveInv
    <3>. QED
      BY <2>2, <3>1, LivePlain DEF ConnectAcquire, SandboxReady, GotoStarting
  <2>3. CASE Connect(t)
    <3>1. t \in Tasks /\ pc[t] = "connecting" BY <2>3 DEF Connect
    <3>. QED BY <3>1 DEF LiveInv, Unprovisioned
  <2>4. CASE ConnectPersist(t)
    BY <2>4, LivePlain DEF ConnectPersist, SandboxReady, GotoStarting
  <2>5. CASE ResumeAcquire(t)
    <3>1. CASE state = "paused"
      BY <2>5, <3>1, LiveEnter, SectionFacts DEF ResumeAcquire, sandboxVars
    <3>2. CASE state # "paused"
      BY <2>5, <3>2, LivePlain DEF ResumeAcquire, sandboxVars
    <3>. QED BY <3>1, <3>2
  <2>6. CASE ResumeSession(t)
    <3>1. state = "paused" BY <2>6 DEF ResumeSession, LiveInv
    <3>2. UNCHANGED <<state, restarts>> /\ pc[t] = "resuming"
      BY <2>6 DEF ResumeSession
    <3>3. CASE sess' = "active" /\ Goto(t, "resumed")
      <4>1. \A u \in Tasks : pc'[u] = IF u = t THEN "resumed" ELSE pc[u]
        BY <3>3
      <4>. QED BY <3>1, <3>2, <3>3, <4>1, SectionFacts DEF LiveInv
    <3>4. CASE UNCHANGED sess /\ Goto(t, "failed")
      BY <3>2, <3>4, LivePlain
    <3>. QED BY <2>6, <3>3, <3>4 DEF ResumeSession
  <2>9. CASE Recover(t)
    <3>1. state = "paused" BY <2>9 DEF Recover, LiveInv
    <3>2. UNCHANGED <<state, restarts>> /\ pc[t] = "resuming" BY <2>9 DEF Recover
    <3>3. CASE sess' = "active" /\ Goto(t, "resumed")
      <4>1. \A u \in Tasks : pc'[u] = IF u = t THEN "resumed" ELSE pc[u]
        BY <3>3
      <4>. QED BY <3>1, <3>2, <3>3, <4>1, SectionFacts DEF LiveInv
    <3>4. CASE UNCHANGED sess /\ Goto(t, "failed")
      BY <3>2, <3>4, LivePlain
    <3>. QED BY <2>9, <3>3, <3>4 DEF Recover
  <2>7. CASE ResumeShutdownAgents(t)
    <3>1. state = "paused" /\ state' = "active"
      BY <2>7 DEF ResumeShutdownAgents, LiveInv
    <3>2. Runtime!Next
      BY <3>1
      DEF Runtime!Next, Runtime!ValidateRuntimeTransition,
          Runtime!ValidRuntimeTransitions, Runtime!RuntimeStates
    <3>3. LiveInv'
      BY <2>7, <3>1, LiveMoved, ConnFacts
      DEF ResumeShutdownAgents, LiveInv, PauseSection, sandboxVars
    <3>. QED BY <3>2, <3>3
  <2>8. CASE ResumePersist(t)
    BY <2>8, LivePlain DEF ResumePersist, sandboxVars
  <2>. QED
    BY <1>3, <2>1, <2>2, <2>3, <2>4, <2>5, <2>6, <2>7, <2>8, <2>9
    DEF EnsureSandbox
<1>4. ASSUME NEW t \in Killers, KillWorkspace(t) PROVE Goal
  <2>1. CASE KillRequest(t) BY <2>1, LivePlain DEF KillRequest
  <2>2. CASE KillAcquire(t)
    BY <2>2, LiveEnter, SectionFacts
    DEF KillAcquire, BeginDrain, AfterDrainCheck, sandboxVars
  <2>3. CASE KillShutdownAgents(t)
    BY <2>3, LivePlain DEF KillShutdownAgents, sandboxVars
  <2>4. CASE Kill(t)
    <3>1. state' = "dead" /\ state \in {"active", "paused", "dead"}
      BY <2>4 DEF Kill, LiveInv
    <3>2. state' # state => Runtime!Next
      BY <3>1
      DEF Runtime!Next, Runtime!ValidateRuntimeTransition,
          Runtime!ValidRuntimeTransitions, Runtime!RuntimeStates
    <3>3. sess' # "none" BY <2>4 DEF Kill, LiveInv, sandboxVars
    <3>4. LiveInv'
      BY <2>4, <3>1, <3>3, LiveMoved, DrainFacts, Disjoint
      DEF Kill, Release, PauseSection
    <3>. QED BY <3>2, <3>4
  <2>5. CASE KillPersist(t) BY <2>5, LivePlain DEF KillPersist, sandboxVars
  <2>. QED BY <1>4, <2>1, <2>2, <2>3, <2>4, <2>5 DEF KillWorkspace
<1>5. ASSUME NEW t \in Provisioners, Provision(t) PROVE Goal
  <2>1. CASE RetryRequest(t)
    BY <2>1, LivePlain DEF RetryRequest, sandboxVars, LiveInv
  <2>2. CASE ProvisionSetup(t) \/ ProvisionSave(t) \/ ProvisionFail(t)
    BY <2>2
    DEF ProvisionSetup, ProvisionSave, ProvisionFail, LiveInv, Unprovisioned
  <2>. QED BY <1>5, <2>1, <2>2 DEF Provision
<1>6. ASSUME NEW p \in Prompts, Turn(p) \/ Abort(p) PROVE Goal
  <2>1. CASE ResolveConversation(p)
    BY <2>1, LivePlain DEF ResolveConversation, sandboxVars
  <2>2. CASE Admit(p) BY <2>2, LivePlain DEF Admit, GotoCancelling
  <2>3. CASE TouchLastActive(p)
    BY <2>3, LivePlain DEF TouchLastActive, sandboxVars
  <2>4. CASE TurnEnded(p) BY <2>4, LivePlain DEF TurnEnded, sandboxVars
  <2>9. CASE GiveTurnBack(p) BY <2>9, LivePlain DEF GiveTurnBack, EndTurn, Woken
  <2>5. CASE TurnErrored(p) BY <2>5, LivePlain DEF TurnErrored, EndTurn, Woken
  <2>6. CASE PollStatus(p) BY <2>6, LivePlain DEF PollStatus, sandboxVars
  <2>7. CASE AbortEarly(p) BY <2>7, LivePlain DEF AbortEarly
  <2>8. CASE AbortTurn(p) BY <2>8, LivePlain DEF AbortTurn, EndTurn, Woken
  <2>10. CASE AbortEnding(p) BY <2>10, LivePlain DEF AbortEnding, sandboxVars
  <2>. QED
    BY <1>6, <2>1, <2>2, <2>3, <2>4, <2>5, <2>6, <2>7, <2>8, <2>9, <2>10
    DEF Turn, Abort
<1>7. ASSUME NEW t \in Pausers \cup Killers, DrainCheck(t) PROVE Goal
  <2>1. t \in Pausers => state = "active"
    BY <1>7 DEF DrainCheck, LiveInv, PauseSection
  <2>. QED
    BY <1>7, <2>1, LiveEnter, SectionFacts
    DEF DrainCheck, AfterDrainCheck, sandboxVars
<1>8. ASSUME Restart PROVE Goal
  BY <1>8 DEF Restart, LiveInv
<1>9. ASSUME UNCHANGED vars PROVE Goal
  BY <1>9 DEF vars, sandboxVars, LiveInv
<1>. QED
  BY <1>1, <1>2, <1>3, <1>4, <1>5, <1>6, <1>7, <1>8, <1>9 DEF Next, Finished

(* From provisioning to the end of the server process, every change of     *)
(* runtime_state is a transition of lifecycle.py's table.                  *)
THEOREM LifecycleImplementsRuntimeState ==
  ASSUME ~ColdStart, MaxRestarts = 0 PROVE Spec => RuntimeContract
<1>1. Init => LiveInv /\ Runtime!Init
  <2>1. ASSUME Init PROVE LiveInv
    BY <2>1, TaskFacts DEF Init, LiveInv, Unprovisioned, PauseSection
  <2>2. ASSUME Init PROVE Runtime!Init
    BY <2>2 DEF Init, Runtime!Init, Runtime!RuntimeStates
  <2>. QED BY <2>1, <2>2
<1>2. LockInv /\ LiveInv /\ [Next]_vars => LiveInv' /\ [Runtime!Next]_state
  BY LiveInductive
<1>. QED
  BY <1>1, <1>2, LockInvariant, PTL DEF Spec, RuntimeContract, Runtime!Spec

-----------------------------------------------------------------------------

(* With failures, retries and restarts the same argument takes more: what  *)
(* a task relies on in the sections it runs without looking again, which   *)
(* steps belong to the first server process, and what the stored row can   *)
(* say, since a restarted server takes the state from there.               *)
Provisioning == {"setup", "provSave", "provFail"}
Connecting == {"connecting", "connPersist"}

LegalSections ==
    /\ state \in {"starting", "active", "paused", "error"}
    /\ \A t \in Pausers : pc[t] \in PauseSection => state = "active"
    /\ \A t \in Tasks : pc[t] \in {"resuming", "resumed"} => state = "paused"
    /\ \A t \in Tasks : pc[t] = "setup" => state = "starting"
    /\ \A t, u \in Tasks : pc[t] = "setup" /\ pc[u] = "setup" => t = u

LegalProcess ==
    /\ \A t \in Tasks : pc[t] \in Provisioning => restarts = 0
    /\ \A t \in Tasks : pc[t] = "provSave" => sess # "none"
    /\ restarts = 0 => /\ sess = "none" => stored = "none"
                       /\ \A t \in Tasks : pc[t] \notin Connecting
    /\ restarts > 0 /\ ~registered => \A t \in Tasks : pc[t] \notin Connecting

LegalRow ==
    /\ stored \in {"none", "starting", "active", "paused", "error"}
    /\ NotRetried =>
         /\ stored \in {"none", "active", "paused"}
         /\ stored # "none" => state \in {"active", "paused"}
         /\ pc[Creator] \in {"setup", "provFail"} => stored = "none"
         /\ pc[Creator] = "provSave" => state \in {"active", "paused"}
         /\ restarts > 0 /\ registered => stored # "none"

LegalParts == LegalSections /\ LegalProcess /\ LegalRow
LegalInv == NotKilled => LegalParts

LegalStep ==
    restarts' = 0 \/ NotRetried => Runtime!ValidateRuntimeTransition(state, state')

LegalPlainSteps == PlainSteps \ {"connPersist"}

LEMMA LegalPlainFacts ==
  /\ {"idle", "off", "sleep", "pauseLock", "killLock", "killPersist",
      "connectLock", "resumeLock", "resolve", "admit", "touch",
      "turn", "ending", "poll", "leaked", "done", "failed", "resumePersist",
      "pausePersist", "shutdown", "kill"} \subseteq LegalPlainSteps
  /\ LegalPlainSteps \cap (PauseSection \cup {"resuming", "resumed"}
                           \cup Provisioning \cup Connecting) = {}
  /\ PauseSection \cap ({"resuming", "resumed"} \cup Provisioning \cup Connecting) = {}
  BY PlainFacts, StepFacts
  DEF LegalPlainSteps, PlainSteps, Unprovisioned, Provisioning, Connecting,
      PauseSection

LEMMA CreatorFacts == Creator \in Tasks /\ Retries \subseteq Tasks
  BY DEF Tasks, Requests

LEMMA NotRetriedBefore ==
  ASSUME TypeOK, [Next]_vars, NotRetried' PROVE NotRetried
<1>1. CASE Next BY <1>1, IdleBefore, CreatorFacts DEF NotRetried
<1>2. CASE UNCHANGED vars BY <1>2 DEF NotRetried, vars
<1>. QED BY <1>1, <1>2

(* Steps that only take tasks to places where nothing is relied on, and    *)
(* write no row where there was none.                                      *)
LEMMA LegalPlain ==
  ASSUME LegalParts, UNCHANGED <<state, sess, registered, restarts>>,
         stored' = stored \/ (stored # "none" /\ stored' \in {"active", "paused"}),
         NotRetried' => NotRetried,
         \A u \in Tasks : \/ pc'[u] = pc[u]
                          \/ pc'[u] \in LegalPlainSteps
                          \/ pc'[u] = "drain" /\ pc[u] = "parked"
  PROVE LegalParts'
<1>. USE TaskFacts, CreatorFacts, LegalPlainFacts DEF LegalParts
<1>1. \A u \in Tasks :
         /\ pc'[u] \in {"resuming", "resumed"} \cup Provisioning \cup Connecting
              => pc[u] = pc'[u]
         /\ pc'[u] \in PauseSection => pc[u] \in PauseSection
  BY DEF PauseSection
<1>2. LegalSections' BY <1>1 DEF LegalSections, Provisioning
<1>3. LegalProcess' BY <1>1 DEF LegalProcess, Provisioning
<1>4. LegalRow' BY <1>1 DEF LegalRow, Provisioning
<1>. QED BY <1>2, <1>3, <1>4

(* A task enters a section under the condition it has just checked.        *)
LEMMA LegalEnter ==
  ASSUME TypeOK, LegalParts, UNCHANGED <<state, sess, registered, restarts, stored>>,
         NotRetried' => NotRetried,
         NEW t \in Tasks, NEW step, Goto(t, step),
         step \notin Provisioning \cup Connecting,
         t \in Pausers /\ step \in PauseSection => state = "active",
         step \in {"resuming", "resumed"} => state = "paused"
  PROVE LegalParts'
<1>. USE TaskFacts, CreatorFacts, LegalPlainFacts DEF LegalParts
<1>1. \A u \in Tasks : pc'[u] = IF u = t THEN step ELSE pc[u]
  BY DEF TypeOK, Goto
<1>2. LegalSections' BY <1>1 DEF LegalSections, Provisioning
<1>3. LegalProcess' BY <1>1 DEF LegalProcess, Provisioning
<1>4. LegalRow' BY <1>1 DEF LegalRow, Provisioning
<1>. QED BY <1>2, <1>3, <1>4

(* The holder of the lock changes the state between ACTIVE and PAUSED.     *)
LEMMA LegalMoved ==
  ASSUME LockInv, LegalParts, NEW t \in Tasks, NEW step, Goto(t, step),
         UNCHANGED <<registered, restarts, stored>>, pc[t] \in LockedSteps,
         step \in LegalPlainSteps \/ (step = "connPersist" /\ pc[t] = "connecting"),
         state \in {"active", "paused"} \/ restarts > 0,
         state' \in {"active", "paused"}, sess' = sess \/ sess' # "none",
         NotRetried' => NotRetried
  PROVE LegalParts'
<1>. USE TaskFacts, CreatorFacts, LegalPlainFacts DEF LegalParts
<1>1. \A u \in Tasks : pc'[u] = IF u = t THEN step ELSE pc[u]
  BY DEF LockInv, TypeOK, Goto
<1>2. \A u \in Tasks : pc[u] \in LockedSteps => u = t
  BY DEF LockInv, LockOwner
<1>3. PauseSection \subseteq LockedSteps /\ {"resuming", "resumed"} \subseteq LockedSteps
  BY DrainFacts, ConnFacts, Disjoint DEF PauseSection
<1>4. step \notin PauseSection \cup {"resuming", "resumed"} \cup Provisioning
  BY DEF PauseSection, Provisioning
<1>5. \A u \in Tasks : pc'[u] \notin PauseSection \cup {"resuming", "resumed"}
  BY <1>1, <1>2, <1>3, <1>4
<1>6. \A u \in Tasks : pc'[u] \in Provisioning => pc'[u] = pc[u]
  BY <1>1, <1>4
<1>7. \A u \in Tasks : pc'[u] # "setup"
  BY <1>6 DEF LegalSections, LegalProcess, Provisioning
<1>8. \A u \in Tasks : pc'[u] \in Connecting => pc'[u] = pc[u] \/ pc[t] \in Connecting
  BY <1>1 DEF Connecting
<1>9. LegalSections' BY <1>5, <1>7 DEF LegalSections
<1>10. LegalProcess' BY <1>6, <1>8 DEF LegalProcess, Provisioning
<1>11. LegalRow' BY <1>6, <1>7 DEF LegalRow, Provisioning
<1>. QED BY <1>9, <1>10, <1>11

(* Every step keeps LegalInv and, until the workspace is killed, changes   *)
(* the state as lifecycle.py allows.                                       *)
LEMMA LegalInductive ==
  ASSUME LockInv, LegalInv, [Next]_vars
  PROVE LegalInv' /\ (NotKilled /\ state' # state => LegalStep)
<1>. TypeOK BY DEF LockInv
<1>. DEFINE Goal == LegalParts' /\ (state' # state => LegalStep)
<1>0. (NotRetried' => NotRetried) /\ (NotKilled' => NotKilled)
  BY NotRetriedBefore, NotKilledBefore
<1>. USE TaskFacts, CreatorFacts, Sep, LegalPlainFacts DEF Goto
<1>1. ASSUME LegalParts, TimerFires PROVE Goal
  BY <1>0, <1>1, LegalPlain DEF TimerFires, sandboxVars, recordVars, TypeOK
<1>2. ASSUME LegalParts, NEW t \in Pausers, Pause(t) PROVE Goal
  <2>1. CASE PauseRequest(t)
    BY <1>0, <1>2, <2>1, LegalPlain
    DEF PauseRequest, GotoCancelling, StoredAfterCancel, TypeOK
  <2>2. CASE PauseAcquire(t)
    <3>1. CASE state = "active"
      BY <1>0, <1>2, <2>2, <3>1, LegalEnter, SectionFacts
      DEF PauseAcquire, BeginDrain, AfterDrainCheck, sandboxVars, recordVars
    <3>2. CASE state # "active"
      BY <1>0, <1>2, <2>2, <3>2, LegalPlain
      DEF PauseAcquire, Finish, sandboxVars, recordVars, TypeOK
    <3>. QED BY <3>1, <3>2
  <2>3. CASE PauseSnapshot(t)
    <3>1. state = "active"
      BY <1>2, <2>3 DEF PauseSnapshot, LegalParts, LegalSections, PauseSection
    <3>. QED
      BY <1>0, <1>2, <2>3, <3>1, LegalEnter, SectionFacts DEF PauseSnapshot, sandboxVars
  <2>4. CASE PauseSession(t)
    <3>1. CASE sess = "active"
      <4>1. \A u \in Tasks : pc'[u] = IF u = t THEN "vmPause" ELSE pc[u]
        BY <2>4, <3>1 DEF PauseSession, TypeOK
      <4>2. state = "active" /\ sess' # "none" /\ UNCHANGED <<state, recordVars, restarts>>
        BY <1>2, <2>4, <3>1
        DEF PauseSession, LegalParts, LegalSections, PauseSection
      <4>3. LegalSections'
        BY <1>2, <4>1, <4>2 DEF LegalParts, LegalSections
      <4>4. LegalProcess' /\ LegalRow'
        BY <1>0, <1>2, <3>1, <4>1, <4>2, SectionFacts
        DEF LegalParts, LegalProcess, LegalRow, Provisioning, Connecting, recordVars
      <4>. QED BY <4>2, <4>3, <4>4 DEF LegalParts
    <3>2. CASE sess # "active"
      BY <1>0, <1>2, <2>4, <3>2, LegalPlain
      DEF PauseSession, Release, Finish, recordVars, TypeOK
    <3>. QED BY <3>1, <3>2
  <2>5. CASE PauseVm(t)
    <3>1. CASE state' = "paused" /\ Goto(t, "pausePersist")
      <4>1. state = "active"
        BY <1>2, <2>5 DEF PauseVm, LegalParts, LegalSections, PauseSection
      <4>2. LegalStep
        BY <3>1, <4>1
        DEF LegalStep, Runtime!ValidateRuntimeTransition,
            Runtime!ValidRuntimeTransitions
      <4>3. LegalParts'
        BY <1>0, <1>2, <2>5, <3>1, <4>1, LegalMoved, DrainFacts, Disjoint
        DEF PauseVm, recordVars
      <4>. QED BY <4>2, <4>3
    <3>2. CASE UNCHANGED state /\ Goto(t, Finish(t, "failed"))
      BY <1>0, <1>2, <2>5, <3>2, LegalPlain DEF PauseVm, Finish, recordVars, TypeOK
    <3>. QED BY <2>5, <3>1, <3>2 DEF PauseVm, Release
  <2>6. CASE PausePersist(t)
    BY <1>0, <1>2, <2>6, LegalPlain
    DEF PausePersist, Release, Finish, sandboxVars, TypeOK
  <2>. QED BY <1>2, <2>1, <2>2, <2>3, <2>4, <2>5, <2>6 DEF Pause
<1>3. ASSUME LegalParts, NEW t \in Resumes \cup Prompts, EnsureSandbox(t) PROVE Goal
  <2>1. CASE SandboxRequest(t)
    BY <1>0, <1>3, <2>1, LegalPlain
    DEF SandboxRequest, Needed, sandboxVars, recordVars, TypeOK
  <2>2. CASE ConnectAcquire(t)
    <3>1. CASE Goto(t, "connecting") /\ UNCHANGED stored /\ registered /\ sess = "none" /\ stored # "none"
      <4>1. \A u \in Tasks : pc'[u] = IF u = t THEN "connecting" ELSE pc[u]
        BY <3>1 DEF TypeOK
      <4>2. restarts # 0
        BY <1>3, <3>1 DEF LegalParts, LegalProcess
      <4>3. UNCHANGED <<state, sess, registered, stored, restarts>>
        BY <2>2, <3>1 DEF ConnectAcquire
      <4>4. LegalSections'
        BY <1>3, <4>1, <4>3 DEF LegalParts, LegalSections, PauseSection
      <4>5. LegalProcess' /\ LegalRow'
        BY <1>0, <1>3, <3>1, <4>1, <4>2, <4>3
        DEF LegalParts, LegalProcess, LegalRow, Provisioning, Connecting
      <4>. QED BY <4>3, <4>4, <4>5 DEF LegalParts
    <3>2. CASE registered /\ sess # "none"
      BY <1>0, <1>3, <2>2, <3>2, LegalPlain
      DEF ConnectAcquire, SandboxReady, GotoStarting, StoredAfterCancel, TypeOK
    <3>3. CASE Goto(t, "failed") /\ UNCHANGED stored
      BY <1>0, <1>3, <2>2, <3>3, LegalPlain DEF ConnectAcquire, TypeOK
    <3>. QED BY <2>2, <3>1, <3>2, <3>3 DEF ConnectAcquire
  <2>3. CASE Connect(t)
    <3>1. CASE state' = "active" /\ Goto(t, "connPersist") /\ sess' = "active"
      <4>1. pc[t] = "connecting" /\ UNCHANGED <<recordVars, restarts>>
        BY <2>3 DEF Connect
      <4>2. restarts # 0 /\ registered
        BY <1>3, <4>1 DEF LegalParts, LegalProcess, Connecting, TypeOK
      <4>3. restarts > 0 /\ pc[t] \in LockedSteps
        BY <4>1, <4>2, ConnFacts DEF TypeOK
      <4>4. LegalParts'
        BY <1>0, <1>3, <3>1, <4>1, <4>3, LegalMoved DEF recordVars
      <4>5. restarts' # 0 /\ (NotRetried => state \in {"active", "paused"})
        BY <1>3, <4>1, <4>2 DEF LegalParts, LegalRow, TypeOK
      <4>6. state' # state => LegalStep
        BY <3>1, <4>5
        DEF LegalStep, Runtime!ValidateRuntimeTransition,
            Runtime!ValidRuntimeTransitions
      <4>. QED BY <4>4, <4>6
    <3>2. CASE Goto(t, "failed") /\ UNCHANGED <<state, sandboxVars>>
      BY <1>0, <1>3, <2>3, <3>2, LegalPlain DEF Connect, recordVars, sandboxVars, TypeOK
    <3>. QED BY <2>3, <3>1, <3>2 DEF Connect
  <2>4. CASE ConnectPersist(t)
    <3>1. pc[t] = "connPersist" BY <2>4 DEF ConnectPersist
    <3>2. restarts # 0 /\ registered
      BY <1>3, <3>1 DEF LegalParts, LegalProcess, Connecting, TypeOK
    <3>3. UNCHANGED <<state, sess, registered, restarts>> /\ stored' = "active"
      BY <2>4 DEF ConnectPersist
    <3>4. \A u \in Tasks : pc'[u] = pc[u] \/ pc'[u] \in LegalPlainSteps
      BY <2>4 DEF ConnectPersist, SandboxReady, GotoStarting, TypeOK
    <3>5. LegalSections'
      BY <1>3, <3>3, <3>4 DEF LegalParts, LegalSections, Provisioning
    <3>6. LegalProcess'
      BY <1>3, <3>2, <3>3, <3>4 DEF LegalParts, LegalProcess, Provisioning, TypeOK
    <3>7. pc'[Creator] \notin Provisioning
      BY <1>3, <3>2, <3>4 DEF LegalParts, LegalProcess
    <3>8. LegalRow'
      BY <1>0, <1>3, <3>2, <3>3, <3>7
      DEF LegalParts, LegalRow, Provisioning, TypeOK
    <3>. QED BY <3>3, <3>5, <3>6, <3>8 DEF LegalParts
  <2>5. CASE ResumeAcquire(t)
    <3>1. CASE state = "paused"
      BY <1>0, <1>3, <2>5, <3>1, LegalEnter, SectionFacts
      DEF ResumeAcquire, sandboxVars, recordVars, Provisioning, Connecting
    <3>2. CASE state # "paused"
      BY <1>0, <1>3, <2>5, <3>2, LegalPlain
      DEF ResumeAcquire, sandboxVars, recordVars, TypeOK
    <3>. QED BY <3>1, <3>2
  <2>6. CASE ResumeSession(t) \/ Recover(t)
    <3>1. state = "paused" /\ pc[t] = "resuming"
      BY <1>3, <2>6 DEF ResumeSession, Recover, LegalParts, LegalSections
    <3>2. UNCHANGED <<state, recordVars, restarts>>
      BY <2>6 DEF ResumeSession, Recover
    <3>3. CASE sess' = "active" /\ Goto(t, "resumed")
      <4>1. \A u \in Tasks : pc'[u] = IF u = t THEN "resumed" ELSE pc[u]
        BY <3>3 DEF TypeOK
      <4>2. LegalSections'
        BY <1>3, <3>1, <3>2, <4>1, SectionFacts DEF LegalParts, LegalSections
      <4>3. LegalProcess' /\ LegalRow'
        BY <1>0, <1>3, <3>2, <3>3, <4>1
        DEF LegalParts, LegalProcess, LegalRow, Provisioning, Connecting, recordVars
      <4>. QED BY <3>2, <4>2, <4>3 DEF LegalParts
    <3>4. CASE UNCHANGED sess /\ Goto(t, "failed")
      BY <1>0, <1>3, <3>2, <3>4, LegalPlain DEF recordVars, TypeOK
    <3>. QED BY <2>6, <3>3, <3>4 DEF ResumeSession, Recover
  <2>7. CASE ResumeShutdownAgents(t)
    <3>1. state = "paused" /\ state' = "active"
      BY <1>3, <2>7 DEF ResumeShutdownAgents, LegalParts, LegalSections
    <3>2. LegalStep
      BY <3>1
      DEF LegalStep, Runtime!ValidateRuntimeTransition,
          Runtime!ValidRuntimeTransitions
    <3>3. LegalParts'
      BY <1>0, <1>3, <2>7, <3>1, LegalMoved, ConnFacts
      DEF ResumeShutdownAgents, sandboxVars
    <3>. QED BY <3>2, <3>3
  <2>8. CASE ResumePersist(t)
    BY <1>0, <1>3, <2>8, LegalPlain DEF ResumePersist, sandboxVars, TypeOK
  <2>. QED
    BY <1>3, <2>1, <2>2, <2>3, <2>4, <2>5, <2>6, <2>7, <2>8 DEF EnsureSandbox
<1>4. ASSUME NEW t \in Killers, KillWorkspace(t)
      PROVE ~NotKilled' /\ (NotKilled => UNCHANGED state)
  <2>1. ~NotKilled' BY <1>4, KillIsFinal
  <2>2. CASE Kill(t) BY <2>1, <2>2 DEF Kill, NotKilled
  <2>3. CASE KillRequest(t) \/ KillAcquire(t) \/ KillShutdownAgents(t) \/ KillPersist(t)
    BY <2>1, <2>3 DEF KillRequest, KillAcquire, KillShutdownAgents, KillPersist
  <2>. QED BY <1>4, <2>1, <2>2, <2>3 DEF KillWorkspace
<1>5. ASSUME LegalParts, NEW t \in Provisioners, Provision(t) PROVE Goal
  <2>0. NotRetried => pc[t] = "idle" \/ t = Creator
    BY DEF NotRetried, Provisioners
  <2>1. CASE RetryRequest(t)
    <3>1. CASE state' = "starting" /\ Goto(t, "setup") /\ state = "error" /\ restarts = 0
      <4>1. \A u \in Tasks : pc'[u] = IF u = t THEN "setup" ELSE pc[u]
        BY <3>1 DEF TypeOK
      <4>2. ~NotRetried' /\ UNCHANGED <<sandboxVars, recordVars, restarts>>
        BY <2>1, <4>1 DEF RetryRequest, NotRetried
      <4>3. LegalSections'
        BY <1>5, <3>1, <4>1 DEF LegalParts, LegalSections, PauseSection
      <4>4. LegalProcess' /\ LegalRow'
        BY <1>5, <3>1, <4>1, <4>2
        DEF LegalParts, LegalProcess, LegalRow, Connecting, sandboxVars, recordVars
      <4>5. LegalStep
        BY <3>1
        DEF LegalStep, Runtime!ValidateRuntimeTransition,
            Runtime!ValidRuntimeTransitions
      <4>. QED BY <4>3, <4>4, <4>5 DEF LegalParts
    <3>2. CASE Goto(t, "failed") /\ UNCHANGED state
      BY <1>0, <1>5, <2>1, <3>2, LegalPlain
      DEF RetryRequest, sandboxVars, recordVars, TypeOK
    <3>. QED BY <2>1, <3>1, <3>2 DEF RetryRequest
  <2>2. CASE ProvisionSetup(t)
    <3>1. pc[t] = "setup" /\ state = "starting" /\ restarts = 0
      BY <1>5, <2>2
      DEF ProvisionSetup, LegalParts, LegalSections, LegalProcess, Provisioning
    <3>2. \A u \in Tasks : u # t => pc[u] # "setup"
      BY <1>5, <3>1 DEF LegalParts, LegalSections
    <3>3. \A u \in Tasks : pc[u] \notin {"resuming", "resumed"} \cup Connecting
      BY <1>5, <3>1 DEF LegalParts, LegalSections, LegalProcess
    <3>4. \A u \in Pausers : pc[u] \notin PauseSection
      BY <1>5, <3>1 DEF LegalParts, LegalSections
    <3>5. UNCHANGED <<registered, stored, restarts>> BY <2>2 DEF ProvisionSetup
    <3>6. NotRetried => t = Creator /\ stored = "none"
      BY <1>5, <2>0, <3>1 DEF LegalParts, LegalRow
    <3>7. CASE state' = "active" /\ sess' = "active" /\ Goto(t, "provSave")
      <4>1. \A u \in Tasks : pc'[u] = IF u = t THEN "provSave" ELSE pc[u]
        BY <3>7 DEF TypeOK
      <4>2. LegalSections'
        BY <3>2, <3>3, <3>7, <4>1 DEF LegalSections
      <4>3. LegalProcess'
        BY <1>5, <3>1, <3>3, <3>5, <3>7, <4>1
        DEF LegalParts, LegalProcess, Connecting
      <4>4. LegalRow'
        BY <1>0, <1>5, <3>1, <3>5, <3>6, <3>7, <4>1 DEF LegalParts, LegalRow
      <4>5. LegalStep
        BY <3>1, <3>7
        DEF LegalStep, Runtime!ValidateRuntimeTransition,
            Runtime!ValidRuntimeTransitions
      <4>. QED BY <4>2, <4>3, <4>4, <4>5 DEF LegalParts
    <3>8. CASE state' = "error" /\ Goto(t, "provFail") /\ UNCHANGED sess
      <4>1. \A u \in Tasks : pc'[u] = IF u = t THEN "provFail" ELSE pc[u]
        BY <3>8 DEF TypeOK
      <4>2. LegalSections'
        BY <3>2, <3>3, <3>4, <3>8, <4>1 DEF LegalSections, PauseSection
      <4>3. LegalProcess'
        BY <1>5, <3>1, <3>3, <3>5, <3>8, <4>1
        DEF LegalParts, LegalProcess, Connecting
      <4>4. LegalRow'
        BY <1>0, <1>5, <3>1, <3>5, <3>6, <3>8, <4>1 DEF LegalParts, LegalRow
      <4>5. LegalStep
        BY <3>1, <3>8
        DEF LegalStep, Runtime!ValidateRuntimeTransition,
            Runtime!ValidRuntimeTransitions
      <4>. QED BY <4>2, <4>3, <4>4, <4>5 DEF LegalParts
    <3>. QED BY <2>2, <3>7, <3>8 DEF ProvisionSetup
  <2>3. CASE ProvisionSave(t)
    <3>1. pc[t] = "provSave" /\ restarts = 0 /\ sess # "none"
      BY <1>5, <2>3 DEF ProvisionSave, LegalParts, LegalProcess, Provisioning
    <3>2. UNCHANGED <<state, sess, registered, restarts>>
          /\ stored' \in {state, stored}
      BY <2>3 DEF ProvisionSave
    <3>3. \A u \in Tasks : pc'[u] = pc[u] \/ pc'[u] \in LegalPlainSteps
      BY <2>3 DEF ProvisionSave, GotoStarting, TypeOK
    <3>4. pc'[t] = "done"
      BY <2>3 DEF ProvisionSave, GotoStarting, TypeOK
    <3>5. NotRetried => t = Creator /\ state \in {"active", "paused"}
      BY <1>5, <2>0, <3>1 DEF LegalParts, LegalRow
    <3>6. LegalSections'
      BY <1>5, <3>2, <3>3 DEF LegalParts, LegalSections, Provisioning
    <3>7. LegalProcess'
      BY <1>5, <3>1, <3>2, <3>3 DEF LegalParts, LegalProcess, Provisioning
    <3>8. LegalRow'
      BY <1>0, <1>5, <3>1, <3>2, <3>4, <3>5
      DEF LegalParts, LegalSections, LegalRow
    <3>. QED BY <3>2, <3>6, <3>7, <3>8 DEF LegalParts
  <2>4. CASE ProvisionFail(t)
    <3>1. pc[t] = "provFail" BY <2>4 DEF ProvisionFail
    <3>2. UNCHANGED <<state, sess, registered, restarts>>
          /\ stored' \in {stored, "error"} /\ (stored = "none" => stored' = stored)
      BY <2>4 DEF ProvisionFail, sandboxVars
    <3>3. \A u \in Tasks : pc'[u] = IF u = t THEN "failed" ELSE pc[u]
      BY <2>4 DEF ProvisionFail, TypeOK
    <3>4. NotRetried => t = Creator /\ stored = "none"
      BY <1>5, <2>0, <3>1 DEF LegalParts, LegalRow
    <3>5. LegalSections'
      BY <1>5, <3>2, <3>3 DEF LegalParts, LegalSections, PauseSection
    <3>6. LegalProcess'
      BY <1>5, <3>2, <3>3 DEF LegalParts, LegalProcess, Provisioning, Connecting
    <3>7. LegalRow'
      BY <1>0, <1>5, <3>2, <3>3, <3>4 DEF LegalParts, LegalRow
    <3>. QED BY <3>2, <3>5, <3>6, <3>7 DEF LegalParts
  <2>. QED BY <1>5, <2>1, <2>2, <2>3, <2>4 DEF Provision
<1>6. ASSUME LegalParts, NEW p \in Prompts, Turn(p) \/ Abort(p) PROVE Goal
  <2>1. CASE ResolveConversation(p)
    BY <1>0, <1>6, <2>1, LegalPlain
    DEF ResolveConversation, sandboxVars, recordVars, TypeOK
  <2>2. CASE Admit(p)
    BY <1>0, <1>6, <2>2, LegalPlain DEF Admit, GotoCancelling, recordVars, TypeOK
  <2>3. CASE TouchLastActive(p)
    BY <1>0, <1>6, <2>3, LegalPlain
    DEF TouchLastActive, sandboxVars, recordVars, TypeOK
  <2>4. CASE GiveTurnBack(p) \/ TurnErrored(p) \/ AbortTurn(p)
    BY <1>0, <1>6, <2>4, LegalPlain
    DEF GiveTurnBack, TurnErrored, AbortTurn, EndTurn, Woken, StoredAfterCancel,
        TypeOK
  <2>7. CASE TurnEnded(p) \/ AbortEnding(p)
    BY <1>0, <1>6, <2>7, LegalPlain
    DEF TurnEnded, AbortEnding, sandboxVars, recordVars, TypeOK
  <2>5. CASE PollStatus(p)
    BY <1>0, <1>6, <2>5, LegalPlain DEF PollStatus, sandboxVars, recordVars, TypeOK
  <2>6. CASE AbortEarly(p)
    BY <1>0, <1>6, <2>6, LegalPlain DEF AbortEarly, recordVars, TypeOK
  <2>. QED
    BY <1>6, <2>1, <2>2, <2>3, <2>4, <2>5, <2>6, <2>7 DEF Turn, Abort
<1>7. ASSUME LegalParts, NEW t \in Pausers \cup Killers, DrainCheck(t) PROVE Goal
  <2>1. t \in Pausers => state = "active"
    BY <1>7 DEF DrainCheck, LegalParts, LegalSections, PauseSection
  <2>. QED
    BY <1>0, <1>7, <2>1, LegalEnter, SectionFacts
    DEF DrainCheck, AfterDrainCheck, sandboxVars, recordVars
<1>8. ASSUME LegalParts, Restart PROVE Goal
  <2>1. \A u \in Tasks : pc'[u] \in {"off", "idle", "done", "failed"}
    BY <1>8 DEF Restart
  <2>2. restarts' > 0 /\ UNCHANGED stored /\ registered' = (stored # "none")
    BY <1>8 DEF Restart, TypeOK
  <2>3. state' \in {"starting", "active", "paused", "error"}
        /\ (NotRetried /\ stored # "none" => state' = "paused")
        /\ (stored = "none" => state' = state)
    BY <1>8 DEF Restart, LoadedState, LegalParts, LegalSections, LegalRow
  <2>4. LegalSections'
    BY <2>1, <2>3 DEF LegalSections, PauseSection
  <2>5. LegalProcess'
    BY <2>1, <2>2 DEF LegalProcess, Provisioning, Connecting, TypeOK
  <2>6. LegalRow'
    BY <1>0, <1>8, <2>1, <2>2, <2>3 DEF LegalParts, LegalRow
  <2>7. NotRetried /\ state' # state => state = "active" /\ state' = "paused"
    BY <1>8, <2>3 DEF LegalParts, LegalRow
  <2>8. state' # state => LegalStep
    BY <2>2, <2>7
    DEF LegalStep, Runtime!ValidateRuntimeTransition,
        Runtime!ValidRuntimeTransitions
  <2>. QED BY <2>4, <2>5, <2>6, <2>8 DEF LegalParts
<1>9. ASSUME LegalParts, UNCHANGED vars PROVE Goal
  BY <1>0, <1>9, LegalPlain DEF vars, sandboxVars, recordVars
<1>10. NotKilled => LegalParts BY DEF LegalInv
<1>11. CASE ~NotKilled BY <1>0, <1>11 DEF LegalInv
<1>12. CASE NotKilled
  BY <1>1, <1>2, <1>3, <1>4, <1>5, <1>6, <1>7, <1>8, <1>9, <1>10, <1>12
  DEF Next, Finished, LegalInv
<1>. QED BY <1>11, <1>12

(* Until somebody stops or destroys the workspace, whatever fails, is      *)
(* retried, disconnects or restarts, every change of runtime_state is a    *)
(* transition of lifecycle.py's table (after a restart: unless the         *)
(* workspace was retried).                                                 *)
THEOREM TransitionsAreLegal == Spec => TransitionsLegal
<1>1. Init => LegalInv
  <2>. SUFFICES ASSUME Init PROVE LegalParts
    BY DEF LegalInv
  <2>. USE TaskFacts, CreatorFacts DEF Init
  <2>1. \A u \in Tasks : /\ pc[u] \in {"setup", "done", "sleep", "off", "idle"}
                         /\ pc[u] = "setup" => u = Creator /\ ColdStart
    OBVIOUS
  <2>2. LegalSections BY <2>1 DEF LegalSections, PauseSection
  <2>3. LegalProcess BY <2>1 DEF LegalProcess, Connecting
  <2>4. LegalRow BY <2>1 DEF LegalRow
  <2>. QED BY <2>2, <2>3, <2>4 DEF LegalParts
<1>2. LockInv /\ LegalInv /\ [Next]_vars
        => LegalInv' /\ [NotKilled /\ (restarts' = 0 \/ NotRetried)
             => Runtime!ValidateRuntimeTransition(state, state')]_state
  BY LegalInductive DEF LegalStep
<1>. QED
  BY <1>1, <1>2, LockInvariant, PTL DEF Spec, TransitionsLegal

-----------------------------------------------------------------------------

(* When nothing is in flight the records of the workspace agree.  That is  *)
(* shown of a workspace provisioned once in a server that is not           *)
(* restarted, as long as nothing stops an operation halfway: no client     *)
(* disconnects, the provider pauses what it is told to pause, the record   *)
(* was saved, and auto-pause and pause requests are not used together (a   *)
(* pause request cancels an auto-pause wherever it is).                    *)
Undisturbed ==
    /\ ~ColdStart
    /\ MaxRestarts = 0
    /\ Pauses = {} \/ ~AutoPause
    /\ {"abort", "pause", "save"} \cap Faults = {}

(* What is known of a workspace that is being, or has been, killed.        *)
KilledInv ==
    /\ stored # "none"
    /\ registered \/ state = "dead"
    /\ \A t \in Tasks : /\ pc[t] # "connPersist"
                        /\ pc[t] = "pausePersist" => state = "paused"
                        /\ pc[t] = "resumePersist" => state = "active"
    /\ \A k \in Killers :
         /\ \/ pc[k] \in {"idle", "killLock", "drain", "parked", "shutdown", "kill"}
            \/ state = "dead"
         /\ pc[k] = "kill" => announced = "dead" \/ ~registered
    /\ state = "dead" => /\ announced = "dead" \/ ~registered
                         /\ stored = "dead" \/ \E k \in Killers : pc[k] = "killPersist"

Connectors == Resumes \cup Prompts

(* The session follows the state, except while a task is between the two.  *)
SessionInv ==
    /\ state = "active" =>
         /\ attached
         /\ sess = IF \E t \in Pausers : pc[t] = "vmPause" THEN "paused" ELSE "active"
    /\ state = "paused" =>
         /\ sess = IF \E t \in Connectors : pc[t] = "resumed" THEN "active" ELSE "paused"
         /\ sess = "active" => attached

(* So do the row and the last event.                                       *)
RecordInv ==
    /\ state = "active" =>
         /\ (\A t \in Connectors : pc[t] # "resumePersist") => stored = "active"
         /\ announced = IF \E t \in Pausers : pc[t] \in {"suspend", "vmPause"}
                        THEN "paused" ELSE "active"
    /\ state = "paused" =>
         /\ (\A t \in Pausers : pc[t] # "pausePersist") => stored = "paused"
         /\ announced = "paused"

(* An ACTIVE workspace without a turn has a countdown, or a task that will *)
(* start one or admit a turn.                                              *)
TimerInv ==
    /\ ~AutoPause => pc[Timer] = "off"
    /\ AutoPause /\ state = "active" /\ active = 0 =>
         \/ pc[Timer] \in {"sleep", "pauseLock"} \cup PauseSection
         \/ \E t \in Tasks : pc[t] \in {"resumePersist", "resolve", "admit"}

AgreeInv ==
    /\ KilledInv
    /\ NotKilled => state # "dead" /\ SessionInv /\ RecordInv /\ TimerInv

(* Only a stop or a destroy kills.                                         *)
LEMMA KillerFacts ==
    Killers \cap (Prompts \cup Pausers \cup Resumes \cup Provisioners) = {}
  BY TasksAssumption DEF Pausers, Killers, Provisioners, Requests

(* Steps that neither write the records nor are part of a kill.            *)
LEMMA KilledPlain ==
  ASSUME KilledInv, UNCHANGED <<state, registered, announced>>,
         stored' = stored \/ (stored' # "none" /\ state # "dead"),
         \A u \in Tasks :
            \/ pc'[u] = pc[u]
            \/ /\ u \in Killers => pc[u] = "parked" /\ pc'[u] = "drain"
               /\ pc'[u] \notin {"connPersist", "pausePersist", "resumePersist"}
  PROVE KilledInv'
<1>1. \A k \in Killers : pc'[k] = pc[k] \/ (pc[k] = "parked" /\ pc'[k] = "drain")
  BY TaskFacts
<1>. QED BY <1>1 DEF KilledInv

(* The holder of the lock goes on inside the section it alone is in.       *)
LEMMA KilledMoved ==
  ASSUME LockInv, KilledInv, NEW t \in Tasks \ Killers, NEW step,
         pc[t] \in LockedSteps, Goto(t, step), UNCHANGED <<registered, stored>>,
         step # "connPersist",
         step = "pausePersist" => state' = "paused",
         step = "resumePersist" => state' = "active",
         state # "dead", state' # "dead"
  PROVE KilledInv'
<1>1. \A u \in Tasks : pc'[u] = IF u = t THEN step ELSE pc[u]
  BY DEF LockInv, TypeOK, Goto
<1>2. \A u \in Tasks : pc[u] \in LockedSteps => u = t
  BY DEF LockInv, LockOwner
<1>3. {"pausePersist", "resumePersist", "kill"} \subseteq LockedSteps
  BY DrainFacts, ConnFacts, Disjoint
<1>. QED BY <1>1, <1>2, <1>3, TaskFacts DEF KilledInv

(* Every step keeps KilledInv.                                             *)
LEMMA KilledInductive ==
  ASSUME MaxRestarts = 0, LockInv, LiveInv, KilledInv, [Next]_vars
  PROVE KilledInv'
<1>. TypeOK BY DEF LockInv
<1>. USE TaskFacts, Sep, KillerFacts DEF Goto
<1>0. ("pausePersist" = pc[Timer] => state = "paused") /\ stored # "none"
  BY DEF KilledInv
<1>1. ASSUME TimerFires PROVE KilledInv'
  BY <1>1, KilledPlain DEF TimerFires, recordVars, TypeOK
<1>2. ASSUME NEW t \in Pausers, Pause(t) PROVE KilledInv'
  <2>1. CASE PauseRequest(t)
    BY <1>0, <2>1, KilledPlain
    DEF PauseRequest, GotoCancelling, StoredAfterCancel, TypeOK
  <2>2. CASE PauseAcquire(t)
    BY <2>2, KilledPlain
    DEF PauseAcquire, BeginDrain, AfterDrainCheck, Finish, recordVars, TypeOK
  <2>3. CASE PauseSnapshot(t)
    <3>1. state = "active" /\ pc[t] \in LockedSteps
      BY <2>3, DrainFacts, Disjoint DEF PauseSnapshot, LiveInv, PauseSection
    <3>. QED BY <2>3, <3>1, KilledMoved DEF PauseSnapshot
  <2>4. CASE PauseSession(t)
    BY <2>4, KilledPlain DEF PauseSession, Release, Finish, recordVars, TypeOK
  <2>5. CASE PauseVm(t)
    <3>1. state = "active" /\ pc[t] \in LockedSteps
      BY <2>5, DrainFacts, Disjoint DEF PauseVm, LiveInv, PauseSection
    <3>2. CASE state' = "paused" /\ Goto(t, "pausePersist")
      BY <2>5, <3>1, <3>2, KilledMoved DEF PauseVm, recordVars
    <3>3. CASE UNCHANGED state /\ Goto(t, Finish(t, "failed"))
      BY <2>5, <3>1, <3>3, KilledPlain DEF PauseVm, Finish, recordVars, TypeOK
    <3>. QED BY <2>5, <3>2, <3>3 DEF PauseVm, Release
  <2>6. CASE PausePersist(t)
    <3>1. state = "paused" BY <2>6 DEF PausePersist, KilledInv
    <3>. QED
      BY <1>0, <2>6, <3>1, KilledPlain DEF PausePersist, Release, Finish, TypeOK
  <2>. QED BY <1>2, <2>1, <2>2, <2>3, <2>4, <2>5, <2>6 DEF Pause
<1>3. ASSUME NEW t \in Resumes \cup Prompts, EnsureSandbox(t) PROVE KilledInv'
  <2>1. CASE SandboxRequest(t)
    BY <2>1, KilledPlain DEF SandboxRequest, Needed, recordVars, TypeOK
  <2>2. CASE ConnectAcquire(t)
    <3>1. sess # "none" BY DEF LiveInv
    <3>. QED
      BY <1>0, <2>2, <3>1, KilledPlain
      DEF ConnectAcquire, SandboxReady, GotoStarting, StoredAfterCancel, TypeOK
  <2>3. CASE Connect(t) \/ ConnectPersist(t)
    BY <2>3 DEF Connect, ConnectPersist, LiveInv, Unprovisioned, KilledInv
  <2>4. CASE ResumeAcquire(t)
    BY <2>4, KilledPlain DEF ResumeAcquire, recordVars, TypeOK
  <2>5. CASE ResumeSession(t)
    BY <2>5, KilledPlain DEF ResumeSession, recordVars, TypeOK
  <2>6. CASE Recover(t)
    BY <2>6, KilledPlain DEF Recover, recordVars, TypeOK
  <2>7. CASE ResumeShutdownAgents(t)
    <3>1. state = "paused" /\ pc[t] \in LockedSteps
      BY <2>7, ConnFacts DEF ResumeShutdownAgents, LiveInv
    <3>. QED BY <2>7, <3>1, KilledMoved DEF ResumeShutdownAgents
  <2>8. CASE ResumePersist(t)
    <3>1. state = "active" BY <2>8 DEF ResumePersist, KilledInv
    <3>. QED BY <1>0, <2>8, <3>1, KilledPlain DEF ResumePersist, TypeOK
  <2>. QED
    BY <1>3, <2>1, <2>2, <2>3, <2>4, <2>5, <2>6, <2>7, <2>8 DEF EnsureSandbox
<1>4. ASSUME NEW t \in Killers, KillWorkspace(t) PROVE KilledInv'
  <2>1. CASE KillRequest(t)
    <3>1. UNCHANGED <<state, registered, announced>>
      BY <2>1 DEF KillRequest
    <3>2. stored' = stored \/ (stored' # "none" /\ state # "dead")
      BY <1>0, <2>1 DEF KillRequest, StoredAfterCancel
    <3>3. \A u \in Tasks : pc'[u] = pc[u] \/ u \in {t, Timer}
      BY <2>1 DEF KillRequest, TypeOK
    <3>4. pc'[t] = "killLock" \/ (pc'[t] = "failed" /\ ~registered)
      BY <2>1 DEF KillRequest, TypeOK
    <3>5. pc'[Timer] \in {"off", pc[Timer]} /\ pc[t] = "idle"
      BY <2>1 DEF KillRequest, TypeOK
    <3>. QED BY <3>1, <3>2, <3>3, <3>4, <3>5 DEF KilledInv
  <2>2. CASE KillAcquire(t)
    <3>1. UNCHANGED recordVars /\ UNCHANGED state /\ pc[t] = "killLock"
      BY <2>2 DEF KillAcquire
    <3>2. PICK step \in {"parked", "shutdown"} : pc' = [pc EXCEPT ![t] = step]
      BY <2>2 DEF KillAcquire, BeginDrain, AfterDrainCheck
    <3>3. \A u \in Tasks : pc'[u] = IF u = t THEN step ELSE pc[u]
      BY <3>2 DEF TypeOK
    <3>. QED BY <3>1, <3>2, <3>3 DEF KilledInv, recordVars
  <2>3. CASE KillShutdownAgents(t)
    <3>1. \A u \in Tasks : pc'[u] = IF u = t THEN "kill" ELSE pc[u]
      BY <2>3 DEF KillShutdownAgents, TypeOK
    <3>2. /\ UNCHANGED <<state, registered, stored>> /\ pc[t] = "shutdown"
          /\ announced' = "dead" \/ (announced' = announced /\ ~registered)
      BY <2>3 DEF KillShutdownAgents
    <3>. QED BY <3>1, <3>2 DEF KilledInv
  <2>4. CASE Kill(t)
    <3>1. \A u \in Tasks : pc'[u] = IF u = t THEN "killPersist" ELSE pc[u]
      BY <2>4 DEF Kill, Release, TypeOK
    <3>2. UNCHANGED recordVars /\ state' = "dead" /\ pc[t] = "kill"
      BY <2>4 DEF Kill
    <3>3. \A u \in Tasks : pc[u] \in LockedSteps => u = t
      BY <3>2, DrainFacts, Disjoint DEF LockInv, LockOwner
    <3>4. \A u \in Tasks : pc'[u] \notin {"pausePersist", "resumePersist"}
      BY <3>1, <3>3, DrainFacts, ConnFacts, Disjoint
    <3>. QED BY <3>1, <3>2, <3>4 DEF KilledInv, recordVars
  <2>5. CASE KillPersist(t)
    <3>1. \A u \in Tasks : pc'[u] = IF u = t THEN "done" ELSE pc[u]
      BY <2>5 DEF KillPersist, TypeOK
    <3>2. /\ UNCHANGED <<state, announced>> /\ pc[t] = "killPersist"
          /\ stored' = "dead" /\ (registered' => registered)
      BY <1>0, <2>5, Zenon DEF KillPersist
    <3>3. state = "dead" BY <3>2 DEF KilledInv
    <3>. QED BY <3>1, <3>2, <3>3 DEF KilledInv
  <2>. QED BY <1>4, <2>1, <2>2, <2>3, <2>4, <2>5 DEF KillWorkspace
<1>5. ASSUME NEW t \in Provisioners, Provision(t) PROVE KilledInv'
  <2>1. CASE RetryRequest(t)
    BY <2>1, KilledPlain DEF RetryRequest, recordVars, LiveInv, TypeOK
  <2>2. CASE ProvisionSetup(t) \/ ProvisionSave(t) \/ ProvisionFail(t)
    BY <2>2
    DEF ProvisionSetup, ProvisionSave, ProvisionFail, LiveInv, Unprovisioned
  <2>. QED BY <1>5, <2>1, <2>2 DEF Provision
<1>6. ASSUME NEW p \in Prompts, Turn(p) \/ Abort(p) PROVE KilledInv'
  <2>1. CASE ResolveConversation(p)
    BY <2>1, KilledPlain DEF ResolveConversation, recordVars, TypeOK
  <2>2. CASE Admit(p)
    BY <2>2, KilledPlain DEF Admit, GotoCancelling, recordVars, TypeOK
  <2>3. CASE TouchLastActive(p)
    BY <2>3, KilledPlain DEF TouchLastActive, recordVars, TypeOK
  <2>4. CASE GiveTurnBack(p) \/ TurnErrored(p) \/ AbortTurn(p)
    <3>1. stored' = stored \/ (stored' # "none" /\ state # "dead")
      BY <1>0, <2>4 DEF GiveTurnBack, TurnErrored, AbortTurn, EndTurn, StoredAfterCancel
    <3>2. UNCHANGED <<state, registered, announced>>
      BY <2>4 DEF GiveTurnBack, TurnErrored, AbortTurn
    <3>3. \A u \in Tasks : \/ pc'[u] = pc[u]
                           \/ pc[u] = "parked" /\ pc'[u] = "drain"
                           \/ u \in {p, Timer} /\ pc'[u] \in {"poll", "done", "sleep"}
      <4>1. CASE GiveTurnBack(p)
        BY <4>1 DEF GiveTurnBack, EndTurn, Woken, TypeOK
      <4>2. CASE TurnErrored(p)
        BY <4>2 DEF TurnErrored, EndTurn, Woken, TypeOK
      <4>3. CASE AbortTurn(p)
        BY <4>3 DEF AbortTurn, EndTurn, Woken, TypeOK
      <4>. QED BY <2>4, <4>1, <4>2, <4>3
    <3>. QED BY <3>1, <3>2, <3>3, KilledPlain
  <2>7. CASE TurnEnded(p) \/ AbortEnding(p)
    BY <2>7, KilledPlain DEF TurnEnded, AbortEnding, recordVars, TypeOK
  <2>5. CASE PollStatus(p)
    BY <2>5, KilledPlain DEF PollStatus, recordVars, TypeOK
  <2>6. CASE AbortEarly(p)
    BY <2>6, KilledPlain DEF AbortEarly, recordVars, TypeOK
  <2>. QED BY <1>6, <2>1, <2>2, <2>3, <2>4, <2>5, <2>6, <2>7 DEF Turn, Abort
<1>7. ASSUME NEW t \in Pausers \cup Killers, DrainCheck(t) PROVE KilledInv'
  <2>1. PICK step \in {"parked", "snapshot", "shutdown"} : pc' = [pc EXCEPT ![t] = step]
        /\ (t \in Killers => step # "snapshot")
    BY <1>7 DEF DrainCheck, AfterDrainCheck
  <2>2. \A u \in Tasks : pc'[u] = IF u = t THEN step ELSE pc[u]
    BY <2>1 DEF TypeOK
  <2>3. UNCHANGED <<state, recordVars>> /\ pc[t] = "drain"
    BY <1>7 DEF DrainCheck
  <2>. QED BY <2>1, <2>2, <2>3 DEF KilledInv, recordVars
<1>8. ASSUME Restart PROVE KilledInv'
  BY <1>8 DEF Restart, LiveInv
<1>9. ASSUME UNCHANGED vars PROVE KilledInv'
  BY <1>9, KilledPlain DEF vars, recordVars
<1>. QED
  BY <1>1, <1>2, <1>3, <1>4, <1>5, <1>6, <1>7, <1>8, <1>9 DEF Next, Finished

(* Steps of tasks that are not between two records.                        *)
LEMMA AgreePlain ==
  ASSUME SessionInv, RecordInv,
         UNCHANGED <<state, sess, attached, stored, announced>>,
         \A u \in Pausers :
            \/ pc'[u] = pc[u]
            \/ {pc[u], pc'[u]} \cap {"suspend", "vmPause", "pausePersist"} = {},
         \A u \in Connectors :
            \/ pc'[u] = pc[u]
            \/ {pc[u], pc'[u]} \cap {"resumed", "resumePersist"} = {}
  PROVE SessionInv' /\ RecordInv'
<1>1. \A u \in Pausers : /\ pc'[u] = "vmPause" <=> pc[u] = "vmPause"
                         /\ pc'[u] = "suspend" <=> pc[u] = "suspend"
                         /\ pc'[u] = "pausePersist" <=> pc[u] = "pausePersist"
  OBVIOUS
<1>2. \A u \in Connectors : /\ pc'[u] = "resumed" <=> pc[u] = "resumed"
                            /\ pc'[u] = "resumePersist" <=> pc[u] = "resumePersist"
  OBVIOUS
<1>3. SessionInv' BY <1>1, <1>2 DEF SessionInv
<1>4. RecordInv' BY <1>1, <1>2 DEF RecordInv
<1>. QED BY <1>3, <1>4

(* Steps that leave the countdown alone.                                   *)
LEMMA TimerPlain ==
  ASSUME TimerInv, UNCHANGED <<state, active>>, pc'[Timer] = pc[Timer],
         \A u \in Tasks : pc[u] \in {"resumePersist", "resolve", "admit"} =>
                             pc'[u] \in {"resumePersist", "resolve", "admit"}
  PROVE TimerInv'
  BY DEF TimerInv

(* A turn that is under way is counted.                                    *)
LEMMA TurnCounted ==
  ASSUME Counted, NEW p \in Prompts, pc[p] \in {"turn", "ending"} PROVE active # 0
<1>1. p \in Admitted BY DEF Admitted
<1>. QED BY <1>1, AdmittedFinite, FS_EmptySet DEF Counted

(* Every step keeps the records in agreement, until the workspace is       *)
(* stopped or destroyed.                                                   *)
LEMMA AgreeStep ==
  ASSUME Undisturbed, LockInv, PauseInv, LiveInv, KilledInv, [Next]_vars,
         NotKilled, NotKilled', state # "dead", SessionInv, RecordInv, TimerInv
  PROVE state' # "dead" /\ SessionInv' /\ RecordInv' /\ TimerInv'
<1>. TypeOK /\ Counted /\ SuspendIdle /\ registered /\ sess # "none"
  BY DEF LockInv, PauseInv, KilledInv, LiveInv
<1>. DEFINE Goal == state' # "dead" /\ SessionInv' /\ RecordInv' /\ TimerInv'
<1>. DEFINE Alone(t) == \A u \in Tasks : pc[u] \in LockedSteps => u = t
<1>a. \A t \in Tasks : pc[t] \in LockedSteps => Alone(t)
  BY DEF LockInv, LockOwner
<1>b. lock = NoTask => (\A u \in Tasks : pc[u] \notin LockedSteps) /\ ~draining
  BY TaskFacts DEF LockInv, LockOwner, DrainOwned
<1>c. /\ {"drain", "parked", "snapshot", "suspend", "vmPause", "pausePersist"}
           \subseteq LockedSteps
      /\ {"connecting", "resuming", "resumed", "resumePersist"} \subseteq LockedSteps
  BY DrainFacts, ConnFacts, Disjoint
<1>d. Connectors \subseteq Tasks /\ Timer \notin Connectors /\ Pausers \cap Connectors = {}
  BY TaskFacts, Sep DEF Connectors
<1>e. stored # "none" /\ (~AutoPause => pc[Timer] = "off")
  BY DEF KilledInv, TimerInv
<1>. USE TaskFacts, Sep, <1>d DEF Goto
<1>1. ASSUME TimerFires PROVE Goal
  <2>1. SessionInv' /\ RecordInv'
    BY <1>1, AgreePlain DEF TimerFires, sandboxVars, recordVars, TypeOK
  <2>2. TimerInv'
    BY <1>1, <1>e DEF TimerFires, TimerInv, TypeOK
  <2>. QED BY <1>1, <2>1, <2>2 DEF TimerFires
<1>2. ASSUME NEW t \in Pausers, Pause(t) PROVE Goal
  <2>1. CASE PauseRequest(t)
    <3>1. ~AutoPause /\ t # Timer
      BY <2>1, TasksAssumption DEF PauseRequest, Undisturbed
    <3>2. UNCHANGED <<state, sess, attached, stored, announced>>
      BY <1>e, <2>1, <3>1 DEF PauseRequest, StoredAfterCancel
    <3>3. /\ pc'[t] \in {"pauseLock", "failed"} /\ pc'[Timer] = "off" /\ pc[t] = "idle"
          /\ \A u \in Tasks : u \notin {t, Timer} => pc'[u] = pc[u]
      BY <1>e, <2>1, <3>1 DEF PauseRequest, GotoCancelling, TypeOK
    <3>4. SessionInv' /\ RecordInv'
      BY <1>e, <3>1, <3>2, <3>3, AgreePlain
    <3>5. TimerInv' BY <3>1, <3>3 DEF TimerInv
    <3>. QED BY <3>2, <3>4, <3>5
  <2>2. CASE PauseAcquire(t)
    <3>1. UNCHANGED <<state, sess, attached, stored, announced, active>>
      BY <2>2 DEF PauseAcquire, sandboxVars, recordVars, turnVars
    <3>2. /\ pc[t] = "pauseLock"
          /\ IF state = "active" THEN pc'[t] \in {"parked", "snapshot"}
                                 ELSE pc'[t] \in {"failed", "off"}
          /\ \A u \in Tasks : u # t => pc'[u] = pc[u]
      BY <2>2 DEF PauseAcquire, BeginDrain, AfterDrainCheck, Finish, TypeOK
    <3>3. SessionInv' /\ RecordInv' BY <3>1, <3>2, AgreePlain
    <3>4. ASSUME t = Timer PROVE TimerInv'
      BY <1>e, <3>1, <3>2, <3>4 DEF TimerInv, PauseSection
    <3>5. ASSUME t # Timer PROVE TimerInv'
      BY <3>1, <3>2, <3>5, TimerPlain
    <3>. QED BY <3>1, <3>3, <3>4, <3>5
  <2>3. CASE PauseSnapshot(t)
    <3>1. state = "active" /\ pc[t] = "snapshot"
      BY <2>3 DEF PauseSnapshot, LiveInv, PauseSection
    <3>2. /\ UNCHANGED <<state, sess, attached, stored, active>>
          /\ announced' = "paused"
      BY <2>3 DEF PauseSnapshot, sandboxVars, turnVars
    <3>3. \A u \in Tasks : pc'[u] = IF u = t THEN "suspend" ELSE pc[u]
      BY <2>3 DEF PauseSnapshot, TypeOK
    <3>4. SessionInv' BY <3>1, <3>2, <3>3 DEF SessionInv
    <3>5. RecordInv' BY <3>1, <3>2, <3>3 DEF RecordInv
    <3>6. TimerInv' BY <1>e, <3>1, <3>2, <3>3 DEF TimerInv, PauseSection
    <3>. QED BY <3>2, <3>4, <3>5, <3>6
  <2>4. CASE PauseSession(t)
    <3>1. state = "active" /\ pc[t] = "suspend" /\ Alone(t)
      BY <1>a, <1>c, <2>4 DEF PauseSession, LiveInv, PauseSection
    <3>2. sess = "active" BY <1>c, <3>1 DEF SessionInv
    <3>3. UNCHANGED <<state, attached, stored, announced, active>> /\ sess' = "paused"
      BY <2>4, <3>2 DEF PauseSession, recordVars, turnVars
    <3>4. \A u \in Tasks : pc'[u] = IF u = t THEN "vmPause" ELSE pc[u]
      BY <2>4, <3>2 DEF PauseSession, TypeOK
    <3>5. SessionInv' BY <3>1, <3>3, <3>4 DEF SessionInv
    <3>6. RecordInv' BY <3>1, <3>3, <3>4 DEF RecordInv
    <3>7. TimerInv' BY <1>e, <3>1, <3>3, <3>4 DEF TimerInv, PauseSection
    <3>. QED BY <3>1, <3>3, <3>5, <3>6, <3>7
  <2>5. CASE PauseVm(t)
    <3>1. state = "active" /\ pc[t] = "vmPause"
      BY <2>5 DEF PauseVm, LiveInv, PauseSection
    <3>2. attached /\ sess = "paused" /\ announced = "paused"
      BY <3>1 DEF SessionInv, RecordInv
    <3>3. state' = "paused" /\ Goto(t, "pausePersist")
          /\ UNCHANGED <<sess, announced>>
      BY <2>5, <3>2 DEF PauseVm, Undisturbed, recordVars
    <3>4. \A u \in Tasks : pc'[u] = IF u = t THEN "pausePersist" ELSE pc[u]
      BY <3>3 DEF TypeOK
    <3>5. \A u \in Connectors : pc'[u] # "resumed"
      BY <3>1, <3>4 DEF LiveInv
    <3>6. SessionInv' BY <3>2, <3>3, <3>5 DEF SessionInv
    <3>7. RecordInv' BY <3>2, <3>3, <3>4 DEF RecordInv
    <3>8. TimerInv' BY <1>e, <3>1, <3>3, <3>4 DEF TimerInv
    <3>. QED BY <3>3, <3>6, <3>7, <3>8
  <2>6. CASE PausePersist(t)
    <3>1. state = "paused" /\ pc[t] = "pausePersist"
      BY <2>6 DEF PausePersist, KilledInv
    <3>2. /\ UNCHANGED <<state, sess, attached, announced, active>>
          /\ stored' = "paused"
      BY <1>e, <2>6 DEF PausePersist, sandboxVars, turnVars
    <3>3. /\ \A u \in Tasks : u # t => pc'[u] = pc[u]
          /\ pc'[t] \in {"off", "done"}
      BY <1>e, <2>6 DEF PausePersist, Release, Finish, TypeOK
    <3>4. SessionInv' BY <3>1, <3>2, <3>3 DEF SessionInv
    <3>5. RecordInv' BY <3>1, <3>2 DEF RecordInv
    <3>6. TimerInv' BY <1>e, <3>1, <3>2, <3>3 DEF TimerInv
    <3>. QED BY <3>1, <3>2, <3>4, <3>5, <3>6
  <2>. QED BY <1>2, <2>1, <2>2, <2>3, <2>4, <2>5, <2>6 DEF Pause
<1>3. ASSUME NEW t \in Connectors, EnsureSandbox(t) PROVE Goal
  <2>0. t \in Tasks /\ t # Timer /\ t \notin Pausers OBVIOUS
  <2>1. CASE SandboxRequest(t)
    <3>1. UNCHANGED <<state, sess, attached, stored, announced, active>>
      BY <2>1 DEF SandboxRequest, sandboxVars, recordVars, turnVars
    <3>2. /\ pc[t] = "idle" /\ pc'[t] \in {"connectLock", "resumeLock", "resolve", "failed"}
          /\ \A u \in Tasks : u # t => pc'[u] = pc[u]
      BY <2>0, <2>1 DEF SandboxRequest, Needed, TypeOK
    <3>. QED BY <2>0, <3>1, <3>2, AgreePlain, TimerPlain
  <2>2. CASE ConnectAcquire(t)
    <3>1. \A u \in Tasks : pc[u] \notin LockedSteps BY <1>b, <2>2 DEF ConnectAcquire
    <3>2. UNCHANGED <<state, sess, attached, stored, announced, active>>
      BY <1>c, <2>2, <3>1 DEF ConnectAcquire, StoredAfterCancel, turnVars
    <3>3. /\ pc[t] = "connectLock" /\ pc'[t] \in {"done", "resolve"}
          /\ \A u \in Tasks : u \notin {t, Timer} => pc'[u] = pc[u]
          /\ pc'[Timer] = pc[Timer] \/ (AutoPause /\ pc'[Timer] = "sleep")
      BY <2>0, <2>2 DEF ConnectAcquire, SandboxReady, GotoStarting, TypeOK
    <3>4. pc[Timer] \notin LockedSteps BY <3>1
    <3>5. SessionInv' /\ RecordInv'
      BY <1>c, <2>0, <3>2, <3>3, <3>4, AgreePlain
    <3>6. TimerInv' BY <2>0, <3>2, <3>3 DEF TimerInv
    <3>. QED BY <3>2, <3>5, <3>6
  <2>3. CASE Connect(t) \/ ConnectPersist(t)
    BY <2>0, <2>3 DEF Connect, ConnectPersist, LiveInv, Unprovisioned, KilledInv
  <2>4. CASE ResumeAcquire(t)
    <3>1. UNCHANGED <<state, sess, attached, stored, announced, active>>
      BY <2>4 DEF ResumeAcquire, sandboxVars, recordVars, turnVars
    <3>2. /\ pc[t] = "resumeLock" /\ pc'[t] \in {"resuming", "failed"}
          /\ \A u \in Tasks : u # t => pc'[u] = pc[u]
      BY <2>0, <2>4 DEF ResumeAcquire, TypeOK
    <3>. QED BY <2>0, <3>1, <3>2, AgreePlain, TimerPlain
  <2>5. CASE ResumeSession(t) \/ Recover(t)
    <3>1. state = "paused" /\ pc[t] = "resuming" /\ Alone(t)
      BY <1>a, <1>c, <2>0, <2>5 DEF ResumeSession, Recover, LiveInv
    <3>2. sess = "paused" BY <1>c, <3>1 DEF SessionInv
    <3>3. UNCHANGED <<state, stored, announced, active>>
      BY <2>5 DEF ResumeSession, Recover, recordVars, turnVars
    <3>4. \/ sess' = "active" /\ attached' = TRUE /\ Goto(t, "resumed")
          \/ UNCHANGED sess /\ Goto(t, "failed")
      BY <2>5, <3>2 DEF ResumeSession, Recover
    <3>5. /\ pc'[t] = IF sess' = "active" THEN "resumed" ELSE "failed"
          /\ \A u \in Tasks : u # t => pc'[u] = pc[u]
      BY <2>0, <3>2, <3>4 DEF TypeOK
    <3>6. SessionInv' BY <1>c, <2>0, <3>1, <3>2, <3>3, <3>4, <3>5 DEF SessionInv
    <3>7. RecordInv' BY <2>0, <3>1, <3>3, <3>5 DEF RecordInv
    <3>8. TimerInv' BY <2>0, <3>1, <3>3, <3>5 DEF TimerInv
    <3>. QED BY <3>1, <3>3, <3>6, <3>7, <3>8
  <2>6. CASE ResumeShutdownAgents(t)
    <3>1. state = "paused" /\ pc[t] = "resumed" /\ Alone(t)
      BY <1>a, <1>c, <2>0, <2>6 DEF ResumeShutdownAgents, LiveInv
    <3>2. sess = "active" /\ attached BY <3>1 DEF SessionInv
    <3>3. state' = "active" /\ announced' = "active" /\ UNCHANGED <<sess, attached>>
      BY <2>6 DEF ResumeShutdownAgents, sandboxVars
    <3>4. \A u \in Tasks : pc'[u] = IF u = t THEN "resumePersist" ELSE pc[u]
      BY <2>6 DEF ResumeShutdownAgents, TypeOK
    <3>5. \A u \in Pausers : pc'[u] \notin {"suspend", "vmPause"}
      BY <1>c, <2>0, <3>1, <3>4
    <3>6. SessionInv' BY <3>2, <3>3, <3>5 DEF SessionInv
    <3>7. RecordInv' BY <3>3, <3>4, <3>5 DEF RecordInv
    <3>8. TimerInv' BY <1>e, <2>0, <3>4 DEF TimerInv
    <3>. QED BY <3>3, <3>6, <3>7, <3>8
  <2>7. CASE ResumePersist(t)
    <3>1. state = "active" /\ pc[t] = "resumePersist" /\ Alone(t)
      BY <1>a, <1>c, <2>0, <2>7 DEF ResumePersist, KilledInv
    <3>2. /\ UNCHANGED <<state, sess, attached, announced>>
          /\ stored' = "active"
      BY <1>e, <2>7 DEF ResumePersist, sandboxVars
    <3>3. /\ \A u \in Tasks : u \notin {t, Timer} => pc'[u] = pc[u]
          /\ pc'[t] \in {"done", "resolve"}
          /\ IF AutoPause /\ t \in Resumes THEN pc'[Timer] = "sleep"
                                           ELSE pc'[Timer] = pc[Timer]
          /\ t \notin Resumes => pc'[t] = "resolve"
      BY <1>e, <2>0, <2>7 DEF ResumePersist, TypeOK
    <3>4. \A u \in Pausers : pc[u] \notin {"suspend", "vmPause"}
                             /\ pc'[u] \notin {"suspend", "vmPause"}
      BY <1>c, <2>0, <3>1, <3>3
    <3>5. SessionInv' BY <3>1, <3>2, <3>4 DEF SessionInv
    <3>6. RecordInv' BY <3>1, <3>2, <3>4 DEF RecordInv
    <3>7. TimerInv' BY <1>e, <2>0, <3>3 DEF TimerInv
    <3>. QED BY <3>1, <3>2, <3>5, <3>6, <3>7
  <2>. QED
    BY <1>3, <2>1, <2>2, <2>3, <2>4, <2>5, <2>6, <2>7 DEF EnsureSandbox
<1>4. ASSUME NEW t \in Killers, KillWorkspace(t) PROVE Goal
  BY <1>4, KillIsFinal
<1>5. ASSUME NEW t \in Provisioners, Provision(t) PROVE Goal
  <2>1. CASE RetryRequest(t)
    <3>1. UNCHANGED <<state, sess, attached, stored, announced, active>>
      BY <2>1 DEF RetryRequest, sandboxVars, recordVars, turnVars, LiveInv
    <3>2. /\ pc[t] = "idle" /\ pc'[t] = "failed"
          /\ \A u \in Tasks : u # t => pc'[u] = pc[u]
      BY <2>1 DEF RetryRequest, LiveInv, TypeOK
    <3>3. t # Timer BY <2>1, TasksAssumption DEF RetryRequest
    <3>. QED BY <3>1, <3>2, <3>3, AgreePlain, TimerPlain
  <2>2. CASE ProvisionSetup(t) \/ ProvisionSave(t) \/ ProvisionFail(t)
    BY <2>2
    DEF ProvisionSetup, ProvisionSave, ProvisionFail, LiveInv, Unprovisioned
  <2>. QED BY <1>5, <2>1, <2>2 DEF Provision
<1>6. ASSUME NEW p \in Prompts, Turn(p) PROVE Goal
  <2>0. p \in Connectors /\ p \in Tasks /\ p # Timer /\ p \notin Pausers
    BY DEF Connectors
  <2>1. CASE \/ ResolveConversation(p) \/ TouchLastActive(p)
            \/ TurnEnded(p) \/ PollStatus(p)
    <3>1. UNCHANGED <<state, sess, attached, stored, announced, active>>
      BY <2>1
      DEF ResolveConversation, TouchLastActive, TurnEnded, PollStatus,
          sandboxVars, recordVars, turnVars
    <3>2. /\ \/ pc[p] = "resolve" /\ pc'[p] = "admit"
             \/ /\ pc[p] \in {"touch", "turn", "poll"}
                /\ pc'[p] \in {"turn", "ending", "leaked", "done"}
          /\ \A u \in Tasks : u # p => pc'[u] = pc[u]
      BY <2>0, <2>1
      DEF ResolveConversation, TouchLastActive, TurnEnded, PollStatus, TypeOK
    <3>. QED BY <2>0, <3>1, <3>2, AgreePlain, TimerPlain
  <2>2. CASE Admit(p)
    <3>1. UNCHANGED <<state, sess, attached, stored, announced>>
      BY <2>2 DEF Admit, recordVars
    <3>2. pc[Timer] \notin LockedSteps /\ ~draining BY <1>b, <2>2 DEF Admit
    <3>3. /\ pc[p] = "admit" /\ pc'[p] \in {"touch", "failed"}
          /\ \A u \in Tasks : u \notin {p, Timer} => pc'[u] = pc[u]
          /\ pc'[Timer] \in {"off", pc[Timer]}
      BY <2>0, <2>2 DEF Admit, GotoCancelling, TypeOK
    <3>4. state = "active" => active' = active + 1
      BY <2>2, <3>2 DEF Admit
    <3>5. SessionInv' /\ RecordInv'
      BY <1>c, <2>0, <3>1, <3>2, <3>3, AgreePlain
    <3>6. state = "active" => active' # 0 BY <3>4 DEF TypeOK
    <3>7. TimerInv' BY <1>e, <3>1, <3>3, <3>6 DEF TimerInv
    <3>. QED BY <3>1, <3>5, <3>7
  <2>3. CASE GiveTurnBack(p) \/ TurnErrored(p)
    <3>1. pc[p] \in {"turn", "ending"} /\ UNCHANGED <<state, sess, attached, announced>>
      BY <2>3 DEF GiveTurnBack, TurnErrored
    <3>2. active # 0 BY <3>1, TurnCounted
    <3>3. pc[Timer] \notin {"snapshot", "suspend", "vmPause", "pausePersist"}
      BY <3>2 DEF SuspendIdle, Suspending
    <3>4. PICK step \in {"poll", "done"}, rearm \in BOOLEAN :
             EndTurn(p, step, rearm) /\ (state = "active" => rearm)
      BY <2>3, Zenon DEF GiveTurnBack, TurnErrored
    <3>5. stored' = stored
      BY <3>3, <3>4 DEF EndTurn, StoredAfterCancel
    <3>6. /\ pc'[p] = step
          /\ \A u \in Tasks : u \notin {p, Timer} =>
                pc'[u] = pc[u] \/ (pc[u] = "parked" /\ pc'[u] = "drain")
          /\ \/ pc'[Timer] = "sleep" /\ AutoPause
             \/ /\ pc'[Timer] = pc[Timer] \/ (pc[Timer] = "parked" /\ pc'[Timer] = "drain")
                /\ AutoPause /\ state = "active" => active' # 0
      BY <2>0, <3>4 DEF EndTurn, Woken, TypeOK
    <3>7. SessionInv' /\ RecordInv'
      BY <2>0, <3>1, <3>3, <3>5, <3>6, AgreePlain
    <3>8. TimerInv' BY <1>e, <3>1, <3>6 DEF TimerInv
    <3>. QED BY <3>1, <3>7, <3>8
  <2>. QED BY <1>6, <2>1, <2>2, <2>3 DEF Turn
<1>7. ASSUME NEW t \in Pausers \cup Killers, DrainCheck(t) PROVE Goal
  <2>1. UNCHANGED <<state, sess, attached, stored, announced, active>>
    BY <1>7 DEF DrainCheck, sandboxVars, recordVars, turnVars
  <2>2. /\ pc[t] = "drain" /\ \A u \in Tasks : u # t => pc'[u] = pc[u]
        /\ pc'[t] \in IF t \in Pausers THEN {"parked", "snapshot"} ELSE {"parked", "shutdown"}
    BY <1>7 DEF DrainCheck, AfterDrainCheck, TypeOK
  <2>3. SessionInv' /\ RecordInv' BY <2>1, <2>2, AgreePlain
  <2>4. ASSUME t = Timer PROVE TimerInv'
    BY <1>e, <2>1, <2>2, <2>4 DEF TimerInv, PauseSection
  <2>5. ASSUME t # Timer PROVE TimerInv'
    BY <2>1, <2>2, <2>5, TimerPlain
  <2>. QED BY <2>1, <2>3, <2>4, <2>5
<1>8. ~Restart BY DEF Restart, LiveInv, Undisturbed
<1>9. ASSUME UNCHANGED vars PROVE Goal
  BY <1>9, AgreePlain, TimerPlain DEF vars, sandboxVars, recordVars, turnVars
<1>10. \A p \in Prompts : ~Abort(p) BY DEF Abort, Undisturbed
<1>. QED
  BY <1>1, <1>2, <1>3, <1>4, <1>5, <1>6, <1>7, <1>8, <1>9, <1>10
  DEF Next, Finished, Connectors

(* The conjuncts hold together in every reachable state.                   *)
LEMMA AgreeInvariant == ASSUME Undisturbed PROVE Spec => [](LiveInv /\ AgreeInv)
<1>1. Init => LiveInv /\ AgreeInv
  <2>. SUFFICES ASSUME Init PROVE LiveInv /\ AgreeInv
    OBVIOUS
  <2>. USE TaskFacts DEF Init, Undisturbed
  <2>1. \A u \in Tasks : pc[u] \in {"done", "sleep", "off", "idle"}
    OBVIOUS
  <2>2. pc[Timer] = IF AutoPause THEN "sleep" ELSE "off"
    BY TasksAssumption
  <2>3. state = "active" /\ sess = "active" /\ attached /\ registered
        /\ stored = "active" /\ announced = "active" /\ restarts = 0
    OBVIOUS
  <2>4. LiveInv BY <2>1, <2>3 DEF LiveInv, Unprovisioned, PauseSection
  <2>5. \A k \in Killers : pc[k] = "idle"
    BY KillerFacts, TasksAssumption DEF Killers, Tasks, Requests
  <2>6. KilledInv BY <2>1, <2>3, <2>5 DEF KilledInv
  <2>7. SessionInv /\ RecordInv
    BY <2>1, <2>3 DEF SessionInv, RecordInv, Connectors
  <2>8. TimerInv BY <2>2 DEF TimerInv
  <2>. QED BY <2>3, <2>4, <2>6, <2>7, <2>8 DEF AgreeInv
<1>2. LockInv /\ PauseInv /\ LiveInv /\ AgreeInv /\ [Next]_vars
        => LiveInv' /\ AgreeInv'
  <2>. SUFFICES ASSUME LockInv, PauseInv, LiveInv, AgreeInv, [Next]_vars
                PROVE LiveInv' /\ AgreeInv'
    OBVIOUS
  <2>1. MaxRestarts = 0 /\ TypeOK BY DEF Undisturbed, LockInv
  <2>2. LiveInv' BY <2>1, LiveInductive
  <2>3. KilledInv' BY <2>1, KilledInductive DEF AgreeInv
  <2>4. NotKilled' => NotKilled BY <2>1, NotKilledBefore
  <2>5. NotKilled' => state' # "dead" /\ SessionInv' /\ RecordInv' /\ TimerInv'
    BY <2>4, AgreeStep DEF AgreeInv
  <2>. QED BY <2>2, <2>3, <2>5 DEF AgreeInv
<1>. QED BY <1>1, <1>2, LockInvariant, PauseInvariant, PTL DEF Spec

(* When nothing is in flight and somebody asked for a stop, it has         *)
(* happened.                                                               *)
LEMMA SettledDead ==
  ASSUME TypeOK, KilledInv, Settled, ~NotKilled
  PROVE /\ state = "dead"
        /\ registered => stored = "dead" /\ announced = "dead"
<1>1. PICK k \in Killers : pc[k] # "idle" BY DEF NotKilled
<1>2. \A t \in Tasks : pc[t] \in SettledSteps BY DEF Settled
<1>3. state = "dead" BY <1>1, <1>2, TaskFacts DEF KilledInv, SettledSteps
<1>4. \A t \in Killers : pc[t] # "killPersist" BY <1>2, TaskFacts DEF SettledSteps
<1>. QED BY <1>3, <1>4 DEF KilledInv

(* When nothing is in flight, an ACTIVE workspace with no turn has an idle *)
(* countdown running, whatever turns failed or were never given back.      *)
THEOREM IdleTimerIsArmed == ASSUME Undisturbed PROVE Spec => []IdleTimerArmed
<1>1. TypeOK /\ AgreeInv => IdleTimerArmed
  <2>. SUFFICES ASSUME TypeOK, AgreeInv, AutoPause, Settled, registered,
                       state = "active", active = 0
                PROVE pc[Timer] = "sleep"
    BY DEF IdleTimerArmed
  <2>1. NotKilled BY SettledDead DEF AgreeInv
  <2>2. \A t \in Tasks : pc[t] \in SettledSteps BY DEF Settled
  <2>. QED
    BY <2>1, <2>2, TaskFacts DEF AgreeInv, TimerInv, PauseSection, SettledSteps
<1>. QED BY <1>1, AgreeInvariant, TypeCorrect, PTL

(* When nothing is in flight, the row in storage and the last event say    *)
(* what the record says.                                                   *)
THEOREM RecordsAreInAgreement == ASSUME Undisturbed PROVE Spec => []RecordsAgree
<1>1. TypeOK /\ LiveInv /\ AgreeInv => RecordsAgree
  <2>. SUFFICES ASSUME TypeOK, LiveInv, AgreeInv, Settled, registered
                PROVE stored = state /\ announced = state
    BY DEF RecordsAgree
  <2>1. CASE ~NotKilled BY <2>1, SettledDead DEF AgreeInv
  <2>2. CASE NotKilled
    <3>1. \A t \in Tasks : pc[t] \notin {"suspend", "vmPause", "pausePersist", "resumePersist"}
      BY DEF Settled, SettledSteps
    <3>2. state \in {"active", "paused"} /\ RecordInv
      BY <2>2 DEF AgreeInv, LiveInv
    <3>. QED BY <3>1, <3>2, TaskFacts DEF RecordInv, Connectors
  <2>. QED BY <2>1, <2>2
<1>. QED BY <1>1, AgreeInvariant, TypeCorrect, PTL

(* When nothing is in flight, the sandbox session is where the record says *)
(* it is.                                                                  *)
THEOREM SessionIsInAgreement == ASSUME Undisturbed PROVE Spec => []SessionAgrees
<1>1. TypeOK /\ LiveInv /\ AgreeInv => SessionAgrees
  <2>. SUFFICES ASSUME TypeOK, LiveInv, AgreeInv, Settled
                PROVE /\ state = "active" => sess = "active"
                      /\ state = "paused" => sess \in {"paused", "none"}
    BY DEF SessionAgrees
  <2>1. CASE ~NotKilled BY <2>1, SettledDead DEF AgreeInv
  <2>2. CASE NotKilled
    <3>1. \A t \in Tasks : pc[t] \notin {"vmPause", "resumed"}
      BY DEF Settled, SettledSteps
    <3>2. SessionInv BY <2>2 DEF AgreeInv
    <3>. QED BY <3>1, <3>2, TaskFacts DEF SessionInv, Connectors
  <2>. QED BY <2>1, <2>2
<1>. QED BY <1>1, AgreeInvariant, TypeCorrect, PTL

=============================================================================
