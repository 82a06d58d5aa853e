--------------------- MODULE WorkspaceLifecycle_proofs ---------------------
(***************************************************************************)
(* Proofs about WorkspaceLifecycle, for any number of prompts, requests,   *)
(* retries and restarts, and any set of faults.  The argument is three     *)
(* inductive invariants, each a conjunction the next one rests on:         *)
(*   LockInv     whoever is in the section the workspace lock guards holds *)
(*               it, and only a drain in that section refuses turns;       *)
(*   SandboxInv  whoever is about to mark the workspace ACTIVE has seen    *)
(*               its sandbox;                                              *)
(*   PauseInv    the turn counter counts the admitted turns, so the drain  *)
(*               of a pause waits for every one of them.                   *)
(***************************************************************************)
EXTENDS WorkspaceLifecycle, FiniteSetTheorems, TLAPS

(* Which sets a task belongs to.                                           *)
LEMMA TaskFacts ==
    /\ Prompts \subseteq Tasks /\ Pausers \subseteq Tasks /\ Resumes \subseteq Tasks
    /\ Killers \subseteq Tasks /\ Provisioners \subseteq Tasks
    /\ Timer \in Tasks /\ Timer \in Pausers /\ Timer \notin Prompts /\ NoTask \notin Tasks
  BY TasksAssumption DEF Tasks, Requests, Pausers, Killers, Provisioners

(* Every step a task can be at is in Steps.                                *)
LEMMA StepFacts ==
    {"idle", "off", "sleep", "pauseLock", "killLock", "killPersist",
     "connectLock", "connPersist", "resumeLock", "resolve", "admit",
     "touch", "turn", "ending", "poll", "leaked", "setup", "provSave", "provFail",
     "done", "failed", "connecting", "resuming", "resumed", "resumePersist",
     "drain", "parked", "snapshot", "suspend", "vmPause", "pausePersist",
     "shutdown", "kill"} \subseteq Steps
  BY DEF Steps, LockedSteps, DrainSteps, OtherSteps

(* Giving a turn back (turn_ended, turn_errored) keeps the types.          *)
LEMMA EndTurnTypes ==
  ASSUME TypeOK, NEW p \in Prompts, NEW step \in Steps, NEW rearm,
         EndTurn(p, step, rearm)
  PROVE /\ pc' \in [Tasks -> Steps]
        /\ active' \in Nat
        /\ lock' \in Tasks \cup {NoTask}
        /\ draining' \in BOOLEAN
        /\ vm' \in VmStates
        /\ stored' \in RuntimeStates \cup {"none"}
<1>1. pc' \in [Tasks -> Steps]
  BY TaskFacts, StepFacts DEF TypeOK, EndTurn, Woken
<1>2. draining' \in BOOLEAN BY Zenon DEF TypeOK, EndTurn, CancelTimer
<1>3. stored' \in RuntimeStates \cup {"none"}
  BY DEF TypeOK, EndTurn, StoredAfterCancel, RuntimeStates
<1>4. vm' \in VmStates BY DEF TypeOK, EndTurn, CancelTimer, VmStates
<1>5. lock' \in Tasks \cup {NoTask} BY DEF TypeOK, EndTurn, CancelTimer
<1>6. active' \in Nat BY DEF TypeOK, EndTurn
<1>7. QED BY <1>1, <1>2, <1>3, <1>4, <1>5, <1>6

(* Every step keeps the types.                                             *)
LEMMA TypeInductive == TypeOK /\ [Next]_vars => TypeOK'
<1>. SUFFICES ASSUME TypeOK, [Next]_vars PROVE TypeOK'
  OBVIOUS
<1>. USE TaskFacts, StepFacts
DEF TypeOK, Goto, sandboxVars, recordVars, turnVars
<1>1. ASSUME TimerFires PROVE TypeOK'
  <2>1. pc' \in [Tasks -> Steps]
    BY <1>1 DEF TimerFires
  <2>. QED
    BY <1>1, <2>1, SettingsAssumption DEF TimerFires, RuntimeStates, VmStates
<1>2. ASSUME NEW t \in Pausers, PauseRequest(t) PROVE TypeOK'
  <2>1. pc' \in [Tasks -> Steps]
    BY <1>2 DEF PauseRequest, GotoCancelling, CancelTimer, StoredAfterCancel
  <2>2. draining' \in BOOLEAN
    BY <1>2, Zenon
    DEF PauseRequest, GotoCancelling, CancelTimer, StoredAfterCancel
  <2>3. lock' \in Tasks \cup {NoTask}
    BY <1>2 DEF PauseRequest, GotoCancelling, CancelTimer, StoredAfterCancel
  <2>4. vm' \in VmStates
    BY <1>2
    DEF PauseRequest, GotoCancelling, CancelTimer, StoredAfterCancel, VmStates
  <2>5. stored' \in RuntimeStates \cup {"none"}
    BY <1>2
    DEF PauseRequest, GotoCancelling, CancelTimer, StoredAfterCancel,
        RuntimeStates
  <2>. QED
    BY <1>2, <2>1, <2>2, <2>3, <2>4, <2>5, SettingsAssumption
    DEF PauseRequest, GotoCancelling, CancelTimer, StoredAfterCancel,
        RuntimeStates, VmStates
<1>3. ASSUME NEW t \in Pausers, PauseAcquire(t) PROVE TypeOK'
  <2>1. pc' \in [Tasks -> Steps]
    BY <1>3 DEF PauseAcquire, BeginDrain, AfterDrainCheck, Finish
  <2>2. draining' \in BOOLEAN /\ condReg' \in BOOLEAN
    BY <1>3, Zenon DEF PauseAcquire, BeginDrain, AfterDrainCheck, Finish
  <2>3. lock' \in Tasks \cup {NoTask}
    BY <1>3 DEF PauseAcquire, BeginDrain, AfterDrainCheck, Finish
  <2>. QED
    BY <1>3, <2>1, <2>2, <2>3, SettingsAssumption
    DEF PauseAcquire, BeginDrain, AfterDrainCheck, Finish, RuntimeStates,
        VmStates
<1>4. ASSUME NEW t \in Pausers, PauseSnapshot(t) PROVE TypeOK'
  <2>1. pc' \in [Tasks -> Steps]
    BY <1>4 DEF PauseSnapshot
  <2>. QED
    BY <1>4, <2>1, SettingsAssumption
    DEF PauseSnapshot, RuntimeStates, VmStates
<1>5. ASSUME NEW t \in Pausers, PauseSession(t) PROVE TypeOK'
  <2>1. pc' \in [Tasks -> Steps]
    BY <1>5 DEF PauseSession, Release, Finish
  <2>2. draining' \in BOOLEAN
    BY <1>5, Zenon DEF PauseSession, Release, Finish
  <2>. QED
    BY <1>5, <2>1, <2>2, SettingsAssumption
    DEF PauseSession, Release, Finish, RuntimeStates, VmStates
<1>6. ASSUME NEW t \in Pausers, PauseVm(t) PROVE TypeOK'
  <2>1. pc' \in [Tasks -> Steps]
    BY <1>6 DEF PauseVm, Release, Finish
  <2>2. attached' \in BOOLEAN /\ draining' \in BOOLEAN
    BY <1>6, Zenon DEF PauseVm, Release, Finish
  <2>. QED
    BY <1>6, <2>1, <2>2, SettingsAssumption
    DEF PauseVm, Release, Finish, RuntimeStates, VmStates
<1>7. ASSUME NEW t \in Pausers, PausePersist(t) PROVE TypeOK'
  <2>1. pc' \in [Tasks -> Steps]
    BY <1>7 DEF PausePersist, Release, Finish
  <2>2. draining' \in BOOLEAN
    BY <1>7, Zenon DEF PausePersist, Release, Finish
  <2>. QED
    BY <1>7, <2>1, <2>2, SettingsAssumption
    DEF PausePersist, Release, Finish, RuntimeStates, VmStates
<1>8. ASSUME NEW t \in Resumes \cup Prompts, SandboxRequest(t) PROVE TypeOK'
  <2>1. pc' \in [Tasks -> Steps]
    BY <1>8 DEF SandboxRequest, Needed
  <2>. QED
    BY <1>8, <2>1, SettingsAssumption
    DEF SandboxRequest, Needed, RuntimeStates, VmStates
<1>9. ASSUME NEW t \in Resumes \cup Prompts, ConnectAcquire(t) PROVE TypeOK'
  <2>1. pc' \in [Tasks -> Steps]
    BY <1>9
    DEF ConnectAcquire, SandboxReady, GotoStarting, CancelTimer,
        StoredAfterCancel
  <2>2. draining' \in BOOLEAN
    BY <1>9, Zenon
    DEF ConnectAcquire, SandboxReady, GotoStarting, CancelTimer,
        StoredAfterCancel
  <2>3. lock' \in Tasks \cup {NoTask}
    BY <1>9
    DEF ConnectAcquire, SandboxReady, GotoStarting, CancelTimer,
        StoredAfterCancel
  <2>4. vm' \in VmStates
    BY <1>9
    DEF ConnectAcquire, SandboxReady, GotoStarting, CancelTimer,
        StoredAfterCancel, VmStates
  <2>5. stored' \in RuntimeStates \cup {"none"}
    BY <1>9
    DEF ConnectAcquire, SandboxReady, GotoStarting, CancelTimer,
        StoredAfterCancel, RuntimeStates
  <2>. QED
    BY <1>9, <2>1, <2>2, <2>3, <2>4, <2>5, SettingsAssumption
    DEF ConnectAcquire, SandboxReady, GotoStarting, CancelTimer,
        StoredAfterCancel, RuntimeStates, VmStates
<1>10. ASSUME NEW t \in Resumes \cup Prompts, Connect(t) PROVE TypeOK'
  <2>1. pc' \in [Tasks -> Steps]
    BY <1>10 DEF Connect, Reachable
  <2>2. attached' \in BOOLEAN
    BY <1>10, Zenon DEF Connect, Reachable
  <2>. QED
    BY <1>10, <2>1, <2>2, SettingsAssumption
    DEF Connect, Reachable, RuntimeStates, VmStates
<1>11. ASSUME NEW t \in Resumes \cup Prompts, ConnectPersist(t) PROVE TypeOK'
  <2>1. pc' \in [Tasks -> Steps]
    BY <1>11 DEF ConnectPersist, SandboxReady, GotoStarting, CancelTimer
  <2>2. draining' \in BOOLEAN
    BY <1>11, Zenon DEF ConnectPersist, SandboxReady, GotoStarting, CancelTimer
  <2>3. lock' \in Tasks \cup {NoTask}
    BY <1>11 DEF ConnectPersist, SandboxReady, GotoStarting, CancelTimer
  <2>4. vm' \in VmStates
    BY <1>11
    DEF ConnectPersist, SandboxReady, GotoStarting, CancelTimer, VmStates
  <2>. QED
    BY <1>11, <2>1, <2>2, <2>3, <2>4, SettingsAssumption
    DEF ConnectPersist, SandboxReady, GotoStarting, CancelTimer,
        RuntimeStates, VmStates
<1>12. ASSUME NEW t \in Resumes \cup Prompts, ResumeAcquire(t) PROVE TypeOK'
  <2>1. pc' \in [Tasks -> Steps]
    BY <1>12 DEF ResumeAcquire
  <2>. QED
    BY <1>12, <2>1, SettingsAssumption
    DEF ResumeAcquire, RuntimeStates, VmStates
<1>13. ASSUME NEW t \in Resumes \cup Prompts, ResumeSession(t) PROVE TypeOK'
  <2>1. pc' \in [Tasks -> Steps]
    BY <1>13 DEF ResumeSession, Reachable
  <2>2. attached' \in BOOLEAN
    BY <1>13, Zenon DEF ResumeSession, Reachable
  <2>. QED
    BY <1>13, <2>1, <2>2, SettingsAssumption
    DEF ResumeSession, Reachable, RuntimeStates, VmStates
<1>36. ASSUME NEW t \in Resumes \cup Prompts, Recover(t) PROVE TypeOK'
  <2>1. pc' \in [Tasks -> Steps]
    BY <1>36 DEF Recover
  <2>. QED
    BY <1>36, <2>1, SettingsAssumption DEF Recover, RuntimeStates, VmStates
<1>14. ASSUME NEW t \in Resumes \cup Prompts,
  ResumeShutdownAgents(t) PROVE TypeOK'
  <2>1. pc' \in [Tasks -> Steps]
    BY <1>14 DEF ResumeShutdownAgents
  <2>. QED
    BY <1>14, <2>1, SettingsAssumption
    DEF ResumeShutdownAgents, RuntimeStates, VmStates
<1>15. ASSUME NEW t \in Resumes \cup Prompts, ResumePersist(t) PROVE TypeOK'
  <2>1. pc' \in [Tasks -> Steps]
    BY <1>15 DEF ResumePersist
  <2>. QED
    BY <1>15, <2>1, SettingsAssumption
    DEF ResumePersist, RuntimeStates, VmStates
<1>16. ASSUME NEW t \in Killers, KillRequest(t) PROVE TypeOK'
  <2>1. pc' \in [Tasks -> Steps]
    BY <1>16 DEF KillRequest, StoredAfterCancel
  <2>2. draining' \in BOOLEAN /\ condReg' \in BOOLEAN
    BY <1>16, Zenon DEF KillRequest, StoredAfterCancel
  <2>3. lock' \in Tasks \cup {NoTask}
    BY <1>16 DEF KillRequest, StoredAfterCancel
  <2>4. vm' \in VmStates
    BY <1>16 DEF KillRequest, StoredAfterCancel, VmStates
  <2>5. stored' \in RuntimeStates \cup {"none"}
    BY <1>16 DEF KillRequest, StoredAfterCancel, RuntimeStates
  <2>. QED
    BY <1>16, <2>1, <2>2, <2>3, <2>4, <2>5, SettingsAssumption
    DEF KillRequest, StoredAfterCancel, RuntimeStates, VmStates
<1>17. ASSUME NEW t \in Killers, KillAcquire(t) PROVE TypeOK'
  <2>1. pc' \in [Tasks -> Steps]
    BY <1>17 DEF KillAcquire, BeginDrain, AfterDrainCheck
  <2>2. draining' \in BOOLEAN /\ condReg' \in BOOLEAN
    BY <1>17, Zenon DEF KillAcquire, BeginDrain, AfterDrainCheck
  <2>3. lock' \in Tasks \cup {NoTask}
    BY <1>17 DEF KillAcquire, BeginDrain, AfterDrainCheck
  <2>. QED
    BY <1>17, <2>1, <2>2, <2>3, SettingsAssumption
    DEF KillAcquire, BeginDrain, AfterDrainCheck, RuntimeStates, VmStates
<1>18. ASSUME NEW t \in Killers, KillShutdownAgents(t) PROVE TypeOK'
  <2>1. pc' \in [Tasks -> Steps]
    BY <1>18 DEF KillShutdownAgents
  <2>. QED
    BY <1>18, <2>1, SettingsAssumption
    DEF KillShutdownAgents, RuntimeStates, VmStates
<1>19. ASSUME NEW t \in Killers, Kill(t) PROVE TypeOK'
  <2>1. pc' \in [Tasks -> Steps]
    BY <1>19 DEF Kill, Release
  <2>2. attached' \in BOOLEAN /\ draining' \in BOOLEAN
    BY <1>19, Zenon DEF Kill, Release
  <2>. QED
    BY <1>19, <2>1, <2>2, SettingsAssumption
    DEF Kill, Release, RuntimeStates, VmStates
<1>20. ASSUME NEW t \in Killers, KillPersist(t) PROVE TypeOK'
  <2>1. pc' \in [Tasks -> Steps]
    BY <1>20 DEF KillPersist
  <2>2. registered' \in BOOLEAN
    BY <1>20, Zenon DEF KillPersist
  <2>. QED
    BY <1>20, <2>1, <2>2, SettingsAssumption
    DEF KillPersist, RuntimeStates, VmStates
<1>21. ASSUME NEW t \in Provisioners, RetryRequest(t) PROVE TypeOK'
  <2>1. pc' \in [Tasks -> Steps]
    BY <1>21 DEF RetryRequest
  <2>. QED
    BY <1>21, <2>1, SettingsAssumption
    DEF RetryRequest, RuntimeStates, VmStates
<1>22. ASSUME NEW t \in Provisioners, ProvisionSetup(t) PROVE TypeOK'
  <2>1. pc' \in [Tasks -> Steps]
    BY <1>22 DEF ProvisionSetup
  <2>2. attached' \in BOOLEAN
    BY <1>22, Zenon DEF ProvisionSetup
  <2>3. vm' \in VmStates
    BY <1>22 DEF ProvisionSetup, VmStates
  <2>. QED
    BY <1>22, <2>1, <2>2, <2>3, SettingsAssumption
    DEF ProvisionSetup, RuntimeStates, VmStates
<1>23. ASSUME NEW t \in Provisioners, ProvisionSave(t) PROVE TypeOK'
  <2>1. pc' \in [Tasks -> Steps]
    BY <1>23 DEF ProvisionSave, GotoStarting, CancelTimer
  <2>2. draining' \in BOOLEAN
    BY <1>23, Zenon DEF ProvisionSave, GotoStarting, CancelTimer
  <2>3. lock' \in Tasks \cup {NoTask}
    BY <1>23 DEF ProvisionSave, GotoStarting, CancelTimer
  <2>4. vm' \in VmStates
    BY <1>23 DEF ProvisionSave, GotoStarting, CancelTimer, VmStates
  <2>5. stored' \in RuntimeStates \cup {"none"}
    BY <1>23 DEF ProvisionSave, GotoStarting, CancelTimer, RuntimeStates
  <2>. QED
    BY <1>23, <2>1, <2>2, <2>3, <2>4, <2>5, SettingsAssumption
    DEF ProvisionSave, GotoStarting, CancelTimer, RuntimeStates, VmStates
<1>24. ASSUME NEW t \in Provisioners, ProvisionFail(t) PROVE TypeOK'
  <2>1. pc' \in [Tasks -> Steps]
    BY <1>24 DEF ProvisionFail
  <2>. QED
    BY <1>24, <2>1, SettingsAssumption
    DEF ProvisionFail, RuntimeStates, VmStates
<1>25. ASSUME NEW t \in Prompts, ResolveConversation(t) PROVE TypeOK'
  <2>1. pc' \in [Tasks -> Steps]
    BY <1>25 DEF ResolveConversation
  <2>. QED
    BY <1>25, <2>1, SettingsAssumption
    DEF ResolveConversation, RuntimeStates, VmStates
<1>26. ASSUME NEW t \in Prompts, Admit(t) PROVE TypeOK'
  <2>1. pc' \in [Tasks -> Steps]
    BY <1>26 DEF Admit, GotoCancelling, CancelTimer
  <2>2. draining' \in BOOLEAN
    BY <1>26, Zenon DEF Admit, GotoCancelling, CancelTimer
  <2>3. lock' \in Tasks \cup {NoTask}
    BY <1>26 DEF Admit, GotoCancelling, CancelTimer
  <2>4. vm' \in VmStates
    BY <1>26 DEF Admit, GotoCancelling, CancelTimer, VmStates
  <2>. QED
    BY <1>26, <2>1, <2>2, <2>3, <2>4, SettingsAssumption
    DEF Admit, GotoCancelling, CancelTimer, RuntimeStates, VmStates
<1>27. ASSUME NEW t \in Prompts, TouchLastActive(t) PROVE TypeOK'
  <2>1. pc' \in [Tasks -> Steps]
    BY <1>27 DEF TouchLastActive
  <2>2. pinned' \in SUBSET Prompts
    BY <1>27 DEF TouchLastActive
  <2>. QED
    BY <1>27, <2>1, <2>2, SettingsAssumption
    DEF TouchLastActive, RuntimeStates, VmStates
<1>28. ASSUME NEW t \in Prompts, TurnEnded(t) PROVE TypeOK'
  <2>1. pc' \in [Tasks -> Steps]
    BY <1>28 DEF TurnEnded
  <2>. QED
    BY <1>28, <2>1, SettingsAssumption DEF TurnEnded, RuntimeStates, VmStates
<1>37. ASSUME NEW t \in Prompts, GiveTurnBack(t) PROVE TypeOK'
  BY <1>37, EndTurnTypes DEF GiveTurnBack
<1>29. ASSUME NEW t \in Prompts, TurnErrored(t) PROVE TypeOK'
  BY <1>29, EndTurnTypes DEF TurnErrored
<1>30. ASSUME NEW t \in Prompts, PollStatus(t) PROVE TypeOK'
  <2>1. pc' \in [Tasks -> Steps]
    BY <1>30 DEF PollStatus
  <2>. QED
    BY <1>30, <2>1, SettingsAssumption DEF PollStatus, RuntimeStates, VmStates
<1>31. ASSUME NEW t \in Prompts, AbortEarly(t) PROVE TypeOK'
  <2>1. pc' \in [Tasks -> Steps]
    BY <1>31 DEF AbortEarly, Reachable
  <2>2. attached' \in BOOLEAN
    BY <1>31, Zenon DEF AbortEarly, Reachable
  <2>3. lock' \in Tasks \cup {NoTask}
    BY <1>31 DEF AbortEarly, Reachable
  <2>4. vm' \in VmStates
    BY <1>31 DEF AbortEarly, Reachable, VmStates
  <2>. QED
    BY <1>31, <2>1, <2>2, <2>3, <2>4, SettingsAssumption
    DEF AbortEarly, Reachable, RuntimeStates, VmStates
<1>32. ASSUME NEW t \in Prompts, AbortTurn(t) PROVE TypeOK'
  BY <1>32, EndTurnTypes DEF AbortTurn
<1>38. ASSUME NEW t \in Prompts, AbortEnding(t) PROVE TypeOK'
  <2>1. pc' \in [Tasks -> Steps]
    BY <1>38 DEF AbortEnding
  <2>. QED
    BY <1>38, <2>1, SettingsAssumption DEF AbortEnding, RuntimeStates, VmStates
<1>33. ASSUME NEW t \in Pausers \cup Killers, DrainCheck(t) PROVE TypeOK'
  <2>1. pc' \in [Tasks -> Steps]
    BY <1>33 DEF DrainCheck, AfterDrainCheck
  <2>. QED
    BY <1>33, <2>1, SettingsAssumption
    DEF DrainCheck, AfterDrainCheck, RuntimeStates, VmStates
<1>34. ASSUME Restart PROVE TypeOK'
  <2>1. pc' \in [Tasks -> Steps]
    BY <1>34 DEF Restart, LoadedState
  <2>2. /\ registered' \in BOOLEAN /\ attached' \in BOOLEAN
        /\ draining' \in BOOLEAN /\ condReg' \in BOOLEAN
    BY <1>34, Zenon DEF Restart, LoadedState
  <2>3. state' \in RuntimeStates
    BY <1>34 DEF Restart, LoadedState, RuntimeStates
  <2>. QED
    BY <1>34, <2>1, <2>2, <2>3, SettingsAssumption DEF Restart
<1>35. ASSUME UNCHANGED vars PROVE TypeOK'
  BY <1>35 DEF vars
<1>. QED
  BY <1>1, <1>2, <1>3, <1>4, <1>5, <1>6, <1>7, <1>8, <1>9, <1>10, <1>11,
     <1>12, <1>13, <1>14, <1>15, <1>16, <1>17, <1>18, <1>19, <1>20, <1>21,
     <1>22, <1>23, <1>24, <1>25, <1>26, <1>27, <1>28, <1>29, <1>30, <1>31,
     <1>32, <1>33, <1>34, <1>35, <1>36, <1>37, <1>38
  DEF Next, Pause, EnsureSandbox, KillWorkspace, Provision, Turn, Abort,
      Finished

LEMMA TypeInitially == Init => TypeOK
<1>. SUFFICES ASSUME Init PROVE TypeOK
  OBVIOUS
<1>1. pc \in [Tasks -> Steps]
  BY StepFacts DEF Init
<1>2. /\ registered \in BOOLEAN /\ attached \in BOOLEAN
      /\ draining \in BOOLEAN /\ condReg \in BOOLEAN
  BY Zenon, SettingsAssumption DEF Init
<1>. QED
  BY <1>1, <1>2, SettingsAssumption DEF Init, TypeOK, RuntimeStates, VmStates

(* The types hold in every reachable state.                                *)
THEOREM TypeCorrect == Spec => []TypeOK
  BY TypeInitially, TypeInductive, PTL DEF Spec

-----------------------------------------------------------------------------

(* Steps outside the section the workspace lock guards.                    *)
LEMMA OtherFacts ==
    {"idle", "off", "sleep", "pauseLock", "killLock", "killPersist",
     "connectLock", "connPersist", "resumeLock", "resolve", "admit",
     "touch", "turn", "ending", "poll", "leaked", "setup", "provSave", "provFail",
     "done", "failed"} \subseteq OtherSteps
 BY DEF OtherSteps

(* Steps of a drain.                                                       *)
LEMMA DrainFacts ==
    {"drain", "parked", "snapshot", "suspend", "vmPause", "pausePersist",
     "shutdown", "kill"} \subseteq DrainSteps
 BY DEF DrainSteps

(* Steps under the lock that are no drain: connect and resume.             *)
LEMMA ConnFacts ==
    {"connecting", "resuming", "resumed", "resumePersist"} \subseteq LockedSteps \ DrainSteps
 BY DEF LockedSteps, DrainSteps

(* A step is inside the locked section or outside.                         *)
LEMMA Disjoint == OtherSteps \cap LockedSteps = {} /\ DrainSteps \subseteq LockedSteps
 BY DEF OtherSteps, LockedSteps, DrainSteps

(* The lock part of the argument.                                          *)
LockInv == TypeOK /\ LockOwner /\ DrainOwned

(* A task that moves outside the locked section disturbs nobody.           *)
LEMMA Outside ==
  ASSUME LockInv, NEW t \in Tasks, NEW step \in OtherSteps,
    pc[t] \in OtherSteps, Goto(t, step), UNCHANGED <<lock, draining>>
  PROVE LockOwner' /\ DrainOwned'
<1>1. \A u \in Tasks : pc'[u] \in LockedSteps => u # t /\ pc'[u] = pc[u]
  BY Disjoint DEF LockInv, TypeOK, Goto
<1>2. LockOwner'
  BY <1>1 DEF LockInv, LockOwner
<1>3. \A u \in Tasks : pc[u] \in DrainSteps => pc'[u] = pc[u]
  BY Disjoint DEF LockInv, TypeOK, Goto
<1>. QED BY <1>2, <1>3 DEF LockInv, DrainOwned

(* A task that moves inside the locked section still holds the lock.       *)
LEMMA Inside ==
  ASSUME LockInv, NEW t \in Tasks, NEW step \in LockedSteps,
    pc[t] \in LockedSteps, pc[t] \in DrainSteps => step \in DrainSteps,
    Goto(t, step), UNCHANGED <<lock, draining>>
  PROVE LockOwner' /\ DrainOwned'
<1>1. \A u \in Tasks : pc'[u] = IF u = t THEN step ELSE pc[u]
  BY DEF LockInv, TypeOK, Goto
<1>2. LockOwner'
  BY <1>1 DEF LockInv, LockOwner
<1>. QED BY <1>2, <1>1 DEF LockInv, DrainOwned

(* A task that takes the free lock is alone in the section.                *)
LEMMA Acquiring ==
  ASSUME LockInv, NEW t \in Tasks, NEW step \in LockedSteps, lock = NoTask,
    lock' = t,
         step \in DrainSteps \/ UNCHANGED draining, Goto(t, step)
  PROVE LockOwner' /\ DrainOwned'
<1>1. \A u \in Tasks : pc'[u] = IF u = t THEN step ELSE pc[u]
  BY DEF LockInv, TypeOK, Goto
<1>2. \A u \in Tasks : pc[u] \notin LockedSteps
  BY TaskFacts DEF LockInv, LockOwner
<1>3. LockOwner'
  BY <1>1, <1>2 DEF LockInv, LockOwner
<1>4. ~draining
  BY TaskFacts DEF LockInv, DrainOwned
<1>. QED BY <1>1, <1>3, <1>4 DEF LockInv, DrainOwned

(* A task that releases the lock leaves the section, and no drain behind.  *)
LEMMA Releasing ==
  ASSUME LockInv, NEW t \in Tasks, NEW step \in OtherSteps,
    pc[t] \in LockedSteps, lock' = NoTask,
         draining' = FALSE \/ (pc[t] \notin DrainSteps /\ UNCHANGED draining),
           Goto(t, step)
  PROVE LockOwner' /\ DrainOwned'
<1>1. \A u \in Tasks : pc'[u] = IF u = t THEN step ELSE pc[u]
  BY DEF LockInv, TypeOK, Goto
<1>2. \A u \in Tasks : pc[u] \in LockedSteps => u = t
  BY TaskFacts DEF LockInv, LockOwner
<1>3. LockOwner'
  BY <1>1, <1>2, Disjoint DEF LockInv, LockOwner
<1>4. ~draining'
  BY <1>2, Disjoint DEF LockInv, DrainOwned, LockOwner
<1>. QED BY <1>3, <1>4 DEF LockInv, DrainOwned

(* Cancelling the countdown takes the lock and the drain of an auto-pause  *)
(* away with it, and nobody else's.                                        *)
LEMMA Cancelling ==
  ASSUME LockInv, NEW t \in Tasks, NEW step \in OtherSteps,
    NEW timer \in OtherSteps, pc[t] \in OtherSteps, CancelTimer,
    pc' = [pc EXCEPT ![t] = step, ![Timer] = timer]
  PROVE LockOwner' /\ DrainOwned'
<1>1. \A u \in Tasks : pc'[u] = IF u = Timer THEN timer ELSE IF u = t THEN step ELSE pc[u]
  BY TaskFacts DEF LockInv, TypeOK
<1>2. \A u \in Tasks : pc'[u] \in LockedSteps => u # Timer /\ pc[u] \in LockedSteps
  BY <1>1, Disjoint
<1>3. LockOwner'
  BY <1>2, TaskFacts DEF LockInv, LockOwner, CancelTimer
<1>4. draining' => draining /\ lock # Timer
  BY Zenon DEF CancelTimer
<1>5. ASSUME draining' PROVE \E u \in Tasks : lock' = u /\ pc'[u] \in DrainSteps
  <2>1. PICK u \in Tasks : lock = u /\ pc[u] \in DrainSteps
    BY <1>4, <1>5 DEF LockInv, DrainOwned
  <2>2. u # Timer /\ u # t
    BY <1>4, <1>5, <2>1, Disjoint
  <2>. QED BY <1>1, <1>4, <1>5, <2>1, <2>2 DEF CancelTimer
<1>. QED BY <1>3, <1>5 DEF DrainOwned

(* Giving a turn back may wake a drain and may cancel an auto-pause.       *)
LEMMA EndTurnLock ==
  ASSUME LockInv, NEW p \in Prompts, NEW step \in OtherSteps, NEW rearm,
    pc[p] \in {"turn", "ending"}, EndTurn(p, step, rearm)
  PROVE LockOwner' /\ DrainOwned'
<1>. DEFINE woken(u) == IF u = p THEN step
                        ELSE IF pc[u] = "parked" /\ condReg THEN "drain" ELSE pc[u]
<1>1. p \in Tasks /\ p # Timer /\ Timer \in Tasks /\ step # "parked"
  BY TaskFacts, Disjoint, DrainFacts
<1>2. \A u \in Tasks : woken(u) \in DrainSteps <=> (u # p /\ pc[u] \in DrainSteps)
  BY Disjoint, DrainFacts
<1>3. \A u \in Tasks : woken(u) \in LockedSteps => pc[u] \in LockedSteps
  BY Disjoint, DrainFacts
<1>4. CASE UNCHANGED <<lock, draining>> /\ \A u \in Tasks : pc'[u] = woken(u)
  <2>1. LockOwner'
    BY <1>3, <1>4 DEF LockInv, LockOwner
  <2>2. pc[p] \notin DrainSteps
    BY OtherFacts, Disjoint
  <2>. QED BY <1>1, <1>2, <1>4, <2>1, <2>2 DEF LockInv, DrainOwned
<1>5. CASE CancelTimer /\ \A u \in Tasks : pc'[u] = IF u = Timer THEN "sleep" ELSE woken(u)
  <2>1. LockOwner'
    BY <1>1, <1>3, <1>5, OtherFacts, Disjoint
    DEF LockInv, LockOwner, CancelTimer
  <2>2. draining' => draining /\ lock # Timer
    BY <1>5, Zenon DEF CancelTimer
  <2>3. ASSUME draining' PROVE \E u \in Tasks : lock' = u /\ pc'[u] \in DrainSteps
    <3>1. PICK u \in Tasks : lock = u /\ pc[u] \in DrainSteps
      BY <2>2, <2>3 DEF LockInv, DrainOwned
    <3>2. u # Timer /\ u # p
      BY <2>2, <2>3, <3>1, OtherFacts, Disjoint
    <3>. QED BY <1>2, <1>5, <2>2, <2>3, <3>1, <3>2 DEF CancelTimer
  <2>. QED BY <2>1, <2>3 DEF DrainOwned
<1>. QED
  BY <1>1, <1>4, <1>5 DEF EndTurn, Woken, LockInv, TypeOK

(* Every step keeps LockInv.                                               *)
LEMMA LockInductive == ASSUME LockInv, TypeOK', [Next]_vars PROVE LockInv'
<1>. SUFFICES LockOwner' /\ DrainOwned'
  BY DEF LockInv
<1>1. ASSUME TimerFires PROVE LockOwner' /\ DrainOwned'
  BY <1>1, Outside, OtherFacts, TaskFacts DEF TimerFires
<1>2. ASSUME NEW t \in Pausers, PauseRequest(t) PROVE LockOwner' /\ DrainOwned'
  <2>1. CASE registered
    BY <1>2, <2>1, Cancelling, OtherFacts, TaskFacts
    DEF PauseRequest, GotoCancelling
  <2>2. CASE ~registered
    BY <1>2, <2>2, Outside, OtherFacts, TaskFacts DEF PauseRequest
  <2>. QED BY <2>1, <2>2
<1>3. ASSUME NEW t \in Pausers, PauseAcquire(t) PROVE LockOwner' /\ DrainOwned'
  BY <1>3, Acquiring, Outside, OtherFacts, DrainFacts, Disjoint, TaskFacts
  DEF PauseAcquire, BeginDrain, AfterDrainCheck, Finish
<1>4. ASSUME NEW t \in Pausers,
  PauseSnapshot(t) PROVE LockOwner' /\ DrainOwned'
  BY <1>4, Inside, DrainFacts, Disjoint, TaskFacts DEF PauseSnapshot
<1>5. ASSUME NEW t \in Pausers, PauseSession(t) PROVE LockOwner' /\ DrainOwned'
  BY <1>5, Inside, Releasing, DrainFacts, OtherFacts, Disjoint, TaskFacts
  DEF PauseSession, Release, Finish
<1>6. ASSUME NEW t \in Pausers, PauseVm(t) PROVE LockOwner' /\ DrainOwned'
  BY <1>6, Inside, Releasing, DrainFacts, OtherFacts, Disjoint, TaskFacts
  DEF PauseVm, Release, Finish
<1>7. ASSUME NEW t \in Pausers, PausePersist(t) PROVE LockOwner' /\ DrainOwned'
  BY <1>7, Releasing, DrainFacts, OtherFacts, Disjoint, TaskFacts
  DEF PausePersist, Release, Finish
<1>8. ASSUME NEW t \in Resumes \cup Prompts,
  SandboxRequest(t) PROVE LockOwner' /\ DrainOwned'
  BY <1>8, Outside, OtherFacts, TaskFacts DEF SandboxRequest, Needed
<1>9. ASSUME NEW t \in Resumes \cup Prompts,
  ConnectAcquire(t) PROVE LockOwner' /\ DrainOwned'
  <2>1. CASE registered /\ sess # "none"
    BY <1>9, <2>1, Cancelling, Outside, OtherFacts, TaskFacts
    DEF ConnectAcquire, SandboxReady, GotoStarting
  <2>2. CASE ~(registered /\ sess # "none")
    BY <1>9, <2>2, Acquiring, Outside, OtherFacts, ConnFacts, TaskFacts
    DEF ConnectAcquire
  <2>. QED BY <2>1, <2>2
<1>10. ASSUME NEW t \in Resumes \cup Prompts,
  Connect(t) PROVE LockOwner' /\ DrainOwned'
  BY <1>10, Releasing, ConnFacts, OtherFacts, TaskFacts DEF Connect
<1>11. ASSUME NEW t \in Resumes \cup Prompts,
  ConnectPersist(t) PROVE LockOwner' /\ DrainOwned'
  BY <1>11, Cancelling, Outside, OtherFacts, TaskFacts
  DEF ConnectPersist, SandboxReady, GotoStarting
<1>12. ASSUME NEW t \in Resumes \cup Prompts,
  ResumeAcquire(t) PROVE LockOwner' /\ DrainOwned'
  BY <1>12, Acquiring, Outside, OtherFacts, ConnFacts, TaskFacts
  DEF ResumeAcquire
<1>13. ASSUME NEW t \in Resumes \cup Prompts,
  ResumeSession(t) PROVE LockOwner' /\ DrainOwned'
  BY <1>13, Inside, Releasing, OtherFacts, ConnFacts, TaskFacts
  DEF ResumeSession
<1>36. ASSUME NEW t \in Resumes \cup Prompts,
  Recover(t) PROVE LockOwner' /\ DrainOwned'
  BY <1>36, Inside, Releasing, OtherFacts, ConnFacts, TaskFacts DEF Recover
<1>14. ASSUME NEW t \in Resumes \cup Prompts,
  ResumeShutdownAgents(t) PROVE LockOwner' /\ DrainOwned'
  BY <1>14, Inside, ConnFacts, TaskFacts DEF ResumeShutdownAgents
<1>15. ASSUME NEW t \in Resumes \cup Prompts,
  ResumePersist(t) PROVE LockOwner' /\ DrainOwned'
  <2>1. CASE Goto(t, "failed") \/ Goto(t, "done") \/ Goto(t, "resolve")
    BY <1>15, <2>1, Releasing, OtherFacts, ConnFacts, TaskFacts
    DEF ResumePersist
  <2>2. CASE pc' = [pc EXCEPT ![t] = "done", ![Timer] = "sleep"]
    <3>1. \A u \in Tasks : pc[u] \in LockedSteps => u = t
      BY <1>15, ConnFacts, TaskFacts DEF ResumePersist, LockInv, LockOwner
    <3>2. LockOwner'
      BY <2>2, <3>1, OtherFacts, Disjoint, TaskFacts
      DEF LockInv, TypeOK, LockOwner
    <3>3. ~draining
      BY <1>15, <3>1, ConnFacts, Disjoint
      DEF ResumePersist, LockInv, DrainOwned
    <3>. QED BY <1>15, <3>2, <3>3 DEF ResumePersist, DrainOwned
  <2>. QED BY <1>15, <2>1, <2>2 DEF ResumePersist, Goto
<1>16. ASSUME NEW t \in Killers, KillRequest(t) PROVE LockOwner' /\ DrainOwned'
  <2>1. CASE registered
    <3>1. \A u \in Tasks :
            pc'[u] = IF u = Timer THEN "off" ELSE IF u = t THEN "killLock" ELSE pc[u]
      BY <1>16, <2>1, TaskFacts DEF KillRequest, LockInv, TypeOK
    <3>2. LockOwner'
      BY <1>16, <2>1, <3>1, OtherFacts, Disjoint, TaskFacts
      DEF KillRequest, LockInv, LockOwner
    <3>. QED BY <1>16, <2>1, <3>2 DEF KillRequest, DrainOwned
  <2>2. CASE ~registered
    BY <1>16, <2>2, Outside, OtherFacts, TaskFacts DEF KillRequest
  <2>. QED BY <2>1, <2>2
<1>17. ASSUME NEW t \in Killers, KillAcquire(t) PROVE LockOwner' /\ DrainOwned'
  BY <1>17, Acquiring, DrainFacts, Disjoint, TaskFacts
  DEF KillAcquire, BeginDrain, AfterDrainCheck
<1>18. ASSUME NEW t \in Killers,
  KillShutdownAgents(t) PROVE LockOwner' /\ DrainOwned'
  BY <1>18, Inside, DrainFacts, Disjoint, TaskFacts DEF KillShutdownAgents
<1>19. ASSUME NEW t \in Killers, Kill(t) PROVE LockOwner' /\ DrainOwned'
  BY <1>19, Releasing, DrainFacts, OtherFacts, Disjoint, TaskFacts
  DEF Kill, Release
<1>20. ASSUME NEW t \in Killers, KillPersist(t) PROVE LockOwner' /\ DrainOwned'
  BY <1>20, Outside, OtherFacts, TaskFacts DEF KillPersist
<1>21. ASSUME NEW t \in Provisioners,
  RetryRequest(t) PROVE LockOwner' /\ DrainOwned'
  BY <1>21, Outside, OtherFacts, TaskFacts DEF RetryRequest
<1>22. ASSUME NEW t \in Provisioners,
  ProvisionSetup(t) PROVE LockOwner' /\ DrainOwned'
  BY <1>22, Outside, OtherFacts, TaskFacts DEF ProvisionSetup
<1>23. ASSUME NEW t \in Provisioners,
  ProvisionSave(t) PROVE LockOwner' /\ DrainOwned'
  BY <1>23, Cancelling, Outside, OtherFacts, TaskFacts
  DEF ProvisionSave, GotoStarting
<1>24. ASSUME NEW t \in Provisioners,
  ProvisionFail(t) PROVE LockOwner' /\ DrainOwned'
  BY <1>24, Outside, OtherFacts, TaskFacts DEF ProvisionFail
<1>25. ASSUME NEW p \in Prompts,
  ResolveConversation(p) PROVE LockOwner' /\ DrainOwned'
  BY <1>25, Outside, OtherFacts, TaskFacts DEF ResolveConversation
<1>26. ASSUME NEW p \in Prompts, Admit(p) PROVE LockOwner' /\ DrainOwned'
  BY <1>26, Cancelling, Outside, OtherFacts, TaskFacts
  DEF Admit, GotoCancelling
<1>27. ASSUME NEW p \in Prompts,
  TouchLastActive(p) PROVE LockOwner' /\ DrainOwned'
  BY <1>27, Outside, OtherFacts, TaskFacts DEF TouchLastActive
<1>28. ASSUME NEW p \in Prompts, TurnEnded(p) PROVE LockOwner' /\ DrainOwned'
  BY <1>28, Outside, OtherFacts, TaskFacts DEF TurnEnded
<1>37. ASSUME NEW p \in Prompts, GiveTurnBack(p) PROVE LockOwner' /\ DrainOwned'
  <2>1. pc[p] \in {"turn", "ending"} /\ "poll" \in OtherSteps
    BY <1>37, OtherFacts DEF GiveTurnBack
  <2>2. PICK rearm \in BOOLEAN : EndTurn(p, "poll", rearm)
    BY <1>37, Zenon DEF GiveTurnBack
  <2>. QED BY <2>1, <2>2, EndTurnLock
<1>29. ASSUME NEW p \in Prompts, TurnErrored(p) PROVE LockOwner' /\ DrainOwned'
  BY <1>29, EndTurnLock, OtherFacts DEF TurnErrored
<1>30. ASSUME NEW p \in Prompts, PollStatus(p) PROVE LockOwner' /\ DrainOwned'
  BY <1>30, Outside, OtherFacts, TaskFacts DEF PollStatus
<1>31. ASSUME NEW p \in Prompts, AbortEarly(p) PROVE LockOwner' /\ DrainOwned'
  <2>1. CASE pc[p] \in LockedSteps
    BY <1>31, <2>1, Releasing, ConnFacts, OtherFacts, Disjoint, TaskFacts
    DEF AbortEarly
  <2>2. CASE pc[p] \notin LockedSteps
    BY <1>31, <2>2, Outside, ConnFacts, OtherFacts, TaskFacts DEF AbortEarly
  <2>. QED BY <2>1, <2>2
<1>32. ASSUME NEW p \in Prompts, AbortTurn(p) PROVE LockOwner' /\ DrainOwned'
  BY <1>32, EndTurnLock, OtherFacts DEF AbortTurn
<1>38. ASSUME NEW p \in Prompts, AbortEnding(p) PROVE LockOwner' /\ DrainOwned'
  BY <1>38, Outside, OtherFacts, TaskFacts DEF AbortEnding
<1>33. ASSUME NEW t \in Pausers \cup Killers,
  DrainCheck(t) PROVE LockOwner' /\ DrainOwned'
  BY <1>33, Inside, DrainFacts, Disjoint, TaskFacts
  DEF DrainCheck, AfterDrainCheck
<1>34. ASSUME Restart PROVE LockOwner' /\ DrainOwned'
  BY <1>34, OtherFacts, Disjoint DEF Restart, LockOwner, DrainOwned
<1>35. ASSUME UNCHANGED vars PROVE LockOwner' /\ DrainOwned'
  BY <1>35 DEF LockInv, LockOwner, DrainOwned, vars
<1>. QED
  BY <1>1, <1>2, <1>3, <1>4, <1>5, <1>6, <1>7, <1>8, <1>9, <1>10, <1>11,
     <1>12, <1>13, <1>14, <1>15, <1>16, <1>17, <1>18, <1>19, <1>20, <1>21,
     <1>22, <1>23, <1>24, <1>25, <1>26, <1>27, <1>28, <1>29, <1>30, <1>31,
     <1>32, <1>33, <1>34, <1>35, <1>36, <1>37, <1>38
  DEF Next, Pause, EnsureSandbox, KillWorkspace, Provision, Turn, Abort,
      Finished

LEMMA LockInvariant == Spec => []LockInv
<1>1. Init => LockInv
  <2>1. Init => LockOwner /\ DrainOwned
    BY OtherFacts, Disjoint DEF Init, LockOwner, DrainOwned
  <2>. QED BY <2>1, TypeInitially DEF LockInv
<1>2. LockInv /\ [Next]_vars => LockInv'
  BY TypeInductive, LockInductive DEF LockInv
<1>. QED BY <1>1, <1>2, PTL DEF Spec

(* Lifecycle operations exclude each other: a task is inside the section   *)
(* the workspace lock guards only while it holds the lock, through every   *)
(* cancellation of the auto-pause and every restart.                       *)
THEOREM LifecycleExclusion == Spec => []LockOwner
  BY LockInvariant, PTL DEF LockInv

(* Whoever leaves the locked section, by whatever path, has lowered the    *)
(* drain flag: prompts are never refused by a drain that is over.          *)
THEOREM DrainEnds == Spec => []DrainOwned
  BY LockInvariant, PTL DEF LockInv

-----------------------------------------------------------------------------

(* The sandbox part: a resume that is about to mark the workspace ACTIVE   *)
(* has a sandbox.                                                          *)
ResumedHasSandbox == \A t \in Tasks : pc[t] = "resumed" => sess # "none"
SandboxInv == ActiveHasSandbox /\ ResumedHasSandbox

(* Steps that leave the state and the sandbox alone.                       *)
LEMMA SandboxKept ==
  ASSUME TypeOK, SandboxInv, UNCHANGED <<state, sess>>,
    registered' => registered,
         \A u \in Tasks : pc'[u] = "resumed" => pc[u] = "resumed"
  PROVE SandboxInv'
  BY DEF SandboxInv, ActiveHasSandbox, ResumedHasSandbox

(* Steps after which there is a sandbox.                                   *)
LEMMA SandboxGained ==
  ASSUME sess' # "none" PROVE SandboxInv'
  BY DEF SandboxInv, ActiveHasSandbox, ResumedHasSandbox

(* Every step keeps SandboxInv.                                            *)
LEMMA SandboxInductive == ASSUME TypeOK, SandboxInv,
  [Next]_vars PROVE SandboxInv'
<1>. USE TaskFacts DEF TypeOK, Goto
<1>1. ASSUME TimerFires PROVE SandboxInv'
  BY <1>1, SandboxKept DEF TimerFires, sandboxVars, recordVars
<1>2. ASSUME NEW t \in Pausers, Pause(t) PROVE SandboxInv'
  <2>1. CASE PauseRequest(t)
    BY <2>1, SandboxKept DEF PauseRequest, GotoCancelling
  <2>2. CASE PauseAcquire(t)
    BY <2>2, SandboxKept
    DEF PauseAcquire, BeginDrain, AfterDrainCheck, Finish, sandboxVars,
        recordVars
  <2>3. CASE PauseSnapshot(t)
    BY <2>3, SandboxKept DEF PauseSnapshot, sandboxVars
  <2>4. CASE PauseSession(t)
    <3>1. CASE sess = "active" BY <2>4, <3>1, SandboxGained DEF PauseSession
    <3>2. CASE sess # "active"
      BY <2>4, <3>2, SandboxKept DEF PauseSession, Release, Finish, recordVars
    <3>. QED BY <3>1, <3>2
  <2>5. CASE PauseVm(t)
    BY <2>5
    DEF PauseVm, Release, Finish, recordVars, SandboxInv, ActiveHasSandbox,
        ResumedHasSandbox
  <2>6. CASE PausePersist(t)
    BY <2>6, SandboxKept DEF PausePersist, Release, Finish, sandboxVars
  <2>. QED BY <1>2, <2>1, <2>2, <2>3, <2>4, <2>5, <2>6 DEF Pause
<1>3. ASSUME NEW t \in Resumes \cup Prompts, EnsureSandbox(t) PROVE SandboxInv'
  <2>1. CASE SandboxRequest(t)
    BY <2>1, SandboxKept DEF SandboxRequest, Needed, sandboxVars, recordVars
  <2>2. CASE ConnectAcquire(t)
    BY <2>2, SandboxKept DEF ConnectAcquire, SandboxReady, GotoStarting
  <2>3. CASE Connect(t)
    <3>1. CASE sess' = "active" BY <3>1, SandboxGained
    <3>2. CASE UNCHANGED <<state, sandboxVars>> /\ Goto(t, "failed")
      BY <2>3, <3>2, SandboxKept DEF Connect, sandboxVars, recordVars
    <3>. QED BY <2>3, <3>1, <3>2 DEF Connect
  <2>4. CASE ConnectPersist(t)
    BY <2>4, SandboxKept DEF ConnectPersist, SandboxReady, GotoStarting
  <2>5. CASE ResumeAcquire(t)
    BY <2>5, SandboxKept DEF ResumeAcquire, sandboxVars, recordVars
  <2>6. CASE ResumeSession(t)
    <3>1. CASE sess' = "active" BY <3>1, SandboxGained
    <3>2. CASE UNCHANGED sess /\ Goto(t, "failed")
      BY <2>6, <3>2, SandboxKept DEF ResumeSession, recordVars
    <3>. QED BY <2>6, <3>1, <3>2 DEF ResumeSession
  <2>9. CASE Recover(t)
    <3>1. CASE sess' = "active" BY <3>1, SandboxGained
    <3>2. CASE UNCHANGED sess /\ Goto(t, "failed")
      BY <2>9, <3>2, SandboxKept DEF Recover, recordVars
    <3>. QED BY <2>9, <3>1, <3>2 DEF Recover
  <2>7. CASE ResumeShutdownAgents(t)
    <3>1. sess # "none"
      BY <2>7 DEF ResumeShutdownAgents, SandboxInv, ResumedHasSandbox
    <3>. QED
      BY <2>7, <3>1, SandboxGained DEF ResumeShutdownAgents, sandboxVars
  <2>8. CASE ResumePersist(t)
    BY <2>8, SandboxKept DEF ResumePersist, sandboxVars
  <2>. QED
    BY <1>3, <2>1, <2>2, <2>3, <2>4, <2>5, <2>6, <2>7, <2>8, <2>9
    DEF EnsureSandbox
<1>4. ASSUME NEW t \in Killers, KillWorkspace(t) PROVE SandboxInv'
  <2>1. CASE KillRequest(t) BY <2>1, SandboxKept DEF KillRequest
  <2>2. CASE KillAcquire(t)
    BY <2>2, SandboxKept
    DEF KillAcquire, BeginDrain, AfterDrainCheck, sandboxVars, recordVars
  <2>3. CASE KillShutdownAgents(t)
    BY <2>3, SandboxKept DEF KillShutdownAgents, sandboxVars
  <2>4. CASE Kill(t)
    <3>1. sess = "none" => sess' = "none" /\ state' # "active"
      BY <2>4 DEF Kill, sandboxVars
    <3>2. sess # "none" => sess' # "none" BY <2>4 DEF Kill, sandboxVars
    <3>3. \A u \in Tasks : pc'[u] = "resumed" => pc[u] = "resumed"
      BY <2>4 DEF Kill, Release
    <3>. QED
      BY <3>1, <3>2, <3>3 DEF SandboxInv, ActiveHasSandbox, ResumedHasSandbox
  <2>5. CASE KillPersist(t) BY <2>5, SandboxKept DEF KillPersist, sandboxVars
  <2>. QED BY <1>4, <2>1, <2>2, <2>3, <2>4, <2>5 DEF KillWorkspace
<1>5. ASSUME NEW t \in Provisioners, Provision(t) PROVE SandboxInv'
  <2>1. CASE RetryRequest(t)
    BY <2>1
    DEF RetryRequest, sandboxVars, recordVars, SandboxInv, ActiveHasSandbox,
        ResumedHasSandbox
  <2>2. CASE ProvisionSetup(t)
    <3>1. CASE sess' = "active" BY <3>1, SandboxGained
    <3>2. CASE UNCHANGED sess /\ state' = "error" /\ Goto(t, "provFail")
      BY <3>2 DEF SandboxInv, ActiveHasSandbox, ResumedHasSandbox
    <3>. QED BY <2>2, <3>1, <3>2 DEF ProvisionSetup
  <2>3. CASE ProvisionSave(t)
    BY <2>3, SandboxKept DEF ProvisionSave, GotoStarting
  <2>4. CASE ProvisionFail(t)
    BY <2>4, SandboxKept DEF ProvisionFail, sandboxVars
  <2>. QED BY <1>5, <2>1, <2>2, <2>3, <2>4 DEF Provision
<1>6. ASSUME NEW p \in Prompts, Turn(p) \/ Abort(p) PROVE SandboxInv'
  <2>1. CASE ResolveConversation(p)
    BY <2>1, SandboxKept DEF ResolveConversation, sandboxVars, recordVars
  <2>2. CASE Admit(p)
    BY <2>2, SandboxKept DEF Admit, GotoCancelling, recordVars
  <2>3. CASE TouchLastActive(p)
    BY <2>3, SandboxKept DEF TouchLastActive, sandboxVars, recordVars
  <2>4. CASE TurnEnded(p)
    BY <2>4, SandboxKept DEF TurnEnded, sandboxVars, recordVars
  <2>9. CASE GiveTurnBack(p)
    BY <2>9, SandboxKept DEF GiveTurnBack, EndTurn, Woken
  <2>5. CASE TurnErrored(p)
    BY <2>5, SandboxKept DEF TurnErrored, EndTurn, Woken
  <2>6. CASE PollStatus(p)
    BY <2>6, SandboxKept DEF PollStatus, sandboxVars, recordVars
  <2>7. CASE AbortEarly(p) BY <2>7, SandboxKept DEF AbortEarly, recordVars
  <2>8. CASE AbortTurn(p) BY <2>8, SandboxKept DEF AbortTurn, EndTurn, Woken
  <2>10. CASE AbortEnding(p)
    BY <2>10, SandboxKept DEF AbortEnding, sandboxVars, recordVars
  <2>. QED
    BY <1>6, <2>1, <2>2, <2>3, <2>4, <2>5, <2>6, <2>7, <2>8, <2>9, <2>10
    DEF Turn, Abort
<1>7. ASSUME NEW t \in Pausers \cup Killers, DrainCheck(t) PROVE SandboxInv'
  BY <1>7, SandboxKept DEF DrainCheck, AfterDrainCheck, sandboxVars, recordVars
<1>8. ASSUME Restart PROVE SandboxInv'
  <2>1. registered' => state' # "active" BY <1>8 DEF Restart, LoadedState
  <2>2. \A u \in Tasks : pc'[u] # "resumed" BY <1>8 DEF Restart
  <2>. QED BY <2>1, <2>2 DEF SandboxInv, ActiveHasSandbox, ResumedHasSandbox
<1>9. ASSUME UNCHANGED vars PROVE SandboxInv'
  BY <1>9
  DEF vars, sandboxVars, recordVars, SandboxInv, ActiveHasSandbox,
      ResumedHasSandbox
<1>. QED
  BY <1>1, <1>2, <1>3, <1>4, <1>5, <1>6, <1>7, <1>8, <1>9 DEF Next, Finished

(* An ACTIVE workspace that can be looked up has a sandbox object, as the  *)
(* prompt router and the pause assert, also after any restart.             *)
THEOREM ActiveIsConnected == Spec => []ActiveHasSandbox
<1>1. Init => SandboxInv
  BY DEF Init, SandboxInv, ActiveHasSandbox, ResumedHasSandbox
<1>2. TypeOK /\ SandboxInv /\ [Next]_vars => SandboxInv'
  BY SandboxInductive
<1>3. SandboxInv => ActiveHasSandbox
  BY DEF SandboxInv
<1>. QED BY <1>1, <1>2, <1>3, TypeCorrect, PTL DEF Spec

-----------------------------------------------------------------------------

(* A prompt is no lifecycle request, a pause no other request.             *)
LEMMA Sep == /\ Prompts \cap (Pausers \cup Resumes \cup Killers \cup Provisioners) = {}
             /\ Pausers \cap (Resumes \cup Prompts \cup Killers \cup Provisioners) = {}
  BY TasksAssumption DEF Pausers, Killers, Provisioners, Requests

(* The counter is right, and zero once a pause has drained.               *)
Counted == active = Cardinality(Admitted)
SuspendIdle == Suspending => active = 0
PauseInv == NotKilled => Counted /\ SuspendIdle

(* The admitted turns are finitely many.                                   *)
LEMMA AdmittedFinite == IsFiniteSet(Admitted) /\ Cardinality(Admitted) \in Nat
<1>1. Admitted \subseteq Prompts BY DEF Admitted
<1>. QED BY <1>1, TasksAssumption, FS_Subset, FS_CardinalityType

(* Steps that neither admit a turn nor give one back.                      *)
LEMMA CountKept ==
  ASSUME Counted, UNCHANGED active,
         \A p \in Prompts :
            pc'[p] \in {"touch", "turn", "ending", "leaked"}
              <=> pc[p] \in {"touch", "turn", "ending", "leaked"}
  PROVE Counted'
<1>1. Admitted' = Admitted BY DEF Admitted
<1>. QED BY <1>1 DEF Counted

(* Steps that let no task into the suspension with a turn running.         *)
LEMMA SuspendKept ==
  ASSUME SuspendIdle, active' = active \/ active' = 0,
         \A u \in Pausers :
            pc'[u] \in {"snapshot", "suspend", "vmPause", "pausePersist"} =>
                \/ active = 0
                \/ pc[u] \in {"snapshot", "suspend", "vmPause", "pausePersist"}
  PROVE SuspendIdle'
  BY DEF SuspendIdle, Suspending

(* A turn that is given back was counted: the clamp is not reached.        *)
LEMMA EndTurnPause ==
  ASSUME TypeOK, Counted, SuspendIdle, NEW p \in Prompts, NEW step \in {"poll", "done"},
    NEW rearm, pc[p] \in {"turn", "ending"}, EndTurn(p, step, rearm)
  PROVE Counted' /\ SuspendIdle'
<1>1. /\ p \in Tasks /\ p # Timer /\ p \notin Pausers
      /\ Timer \notin Prompts /\ Timer \in Tasks
      /\ Prompts \subseteq Tasks /\ Pausers \subseteq Tasks
  BY TaskFacts, Sep
<1>2. \A u \in Tasks \ {p} : \/ pc'[u] = pc[u]
                             \/ pc'[u] = "drain" /\ pc[u] = "parked"
                             \/ u = Timer /\ pc'[u] = "sleep"
  BY <1>1 DEF TypeOK, EndTurn, Woken
<1>3. pc'[p] = step
  BY <1>1 DEF TypeOK, EndTurn, Woken
<1>4. Admitted' = Admitted \ {p}
  BY <1>1, <1>2, <1>3 DEF Admitted
<1>5. p \in Admitted
  BY DEF Admitted
<1>6. active # 0 /\ active' = active - 1
  BY <1>5, AdmittedFinite, FS_EmptySet DEF EndTurn, Counted
<1>7. Counted'
  BY <1>4, <1>5, <1>6, AdmittedFinite, FS_RemoveElement
  DEF Counted
<1>8. SuspendIdle'
  BY <1>1, <1>2, <1>6 DEF SuspendIdle, Suspending
<1>. QED BY <1>7, <1>8

(* No task goes back to "idle": a request is issued once.                  *)
LEMMA IdleBefore ==
  ASSUME TypeOK, Next, NEW u \in Tasks, pc'[u] = "idle" PROVE pc[u] = "idle"
<1>. USE TaskFacts DEF TypeOK, Goto
<1>1. CASE TimerFires BY <1>1 DEF TimerFires
<1>2. ASSUME NEW t \in Pausers, Pause(t) PROVE pc[u] = "idle"
  BY <1>2
  DEF Pause, PauseRequest, PauseAcquire, PauseSnapshot, PauseSession, PauseVm,
      PausePersist, GotoCancelling, BeginDrain, AfterDrainCheck, Release, Finish
<1>3. ASSUME NEW t \in Resumes \cup Prompts, EnsureSandbox(t) PROVE pc[u] = "idle"
  BY <1>3
  DEF EnsureSandbox, SandboxRequest, Needed, ConnectAcquire, Connect,
      ConnectPersist, SandboxReady, GotoStarting, ResumeAcquire, ResumeSession,
      Recover, ResumeShutdownAgents, ResumePersist
<1>4. ASSUME NEW t \in Killers, KillWorkspace(t) PROVE pc[u] = "idle"
  BY <1>4
  DEF KillWorkspace, KillRequest, KillAcquire, BeginDrain, AfterDrainCheck,
      KillShutdownAgents, Kill, Release, KillPersist
<1>5. ASSUME NEW t \in Provisioners, Provision(t) PROVE pc[u] = "idle"
  BY <1>5
  DEF Provision, RetryRequest, ProvisionSetup, ProvisionSave, ProvisionFail,
      GotoStarting
<1>6. ASSUME NEW p \in Prompts, Turn(p) \/ Abort(p) PROVE pc[u] = "idle"
  BY <1>6
  DEF Turn, Abort, ResolveConversation, Admit, GotoCancelling, TouchLastActive,
      TurnEnded, GiveTurnBack, TurnErrored, PollStatus, AbortEarly, AbortTurn,
      AbortEnding, EndTurn, Woken
<1>7. ASSUME NEW t \in Pausers \cup Killers, DrainCheck(t) PROVE pc[u] = "idle"
  BY <1>7 DEF DrainCheck, AfterDrainCheck
<1>8. CASE Restart BY <1>8 DEF Restart
<1>9. CASE Finished BY <1>9 DEF Finished, vars
<1>. QED BY <1>1, <1>2, <1>3, <1>4, <1>5, <1>6, <1>7, <1>8, <1>9 DEF Next

LEMMA NotKilledBefore ==
  ASSUME TypeOK, [Next]_vars, NotKilled' PROVE NotKilled
<1>. Killers \subseteq Tasks BY DEF Killers, Tasks, Requests
<1>1. CASE Next BY <1>1, IdleBefore DEF NotKilled
<1>2. CASE UNCHANGED vars BY <1>2 DEF NotKilled, vars
<1>. QED BY <1>1, <1>2

(* Every step of a stop or a destroy is one after its request.             *)
LEMMA KillIsFinal ==
  ASSUME TypeOK, NEW t \in Killers, KillWorkspace(t) PROVE ~NotKilled'
<1>. t \in Tasks BY DEF Tasks, Requests
<1>1. pc'[t] # "idle"
  BY TaskFacts
  DEF TypeOK, Goto, KillWorkspace, KillRequest, KillAcquire, BeginDrain,
      AfterDrainCheck, KillShutdownAgents, Kill, Release, KillPersist
<1>. QED BY <1>1 DEF NotKilled

(* Every step keeps PauseInv.                                              *)
LEMMA PauseInductive ==
  ASSUME LockInv, PauseInv, [Next]_vars PROVE PauseInv'
<1>. SUFFICES ASSUME NotKilled' PROVE Counted' /\ SuspendIdle'
  BY DEF PauseInv
<1>. TypeOK /\ Counted /\ SuspendIdle
  BY NotKilledBefore DEF LockInv, PauseInv
<1>. USE TaskFacts, Sep DEF TypeOK, Goto
<1>1. ASSUME TimerFires PROVE Counted' /\ SuspendIdle'
  BY <1>1, CountKept, SuspendKept DEF TimerFires, turnVars
<1>2. ASSUME NEW t \in Pausers, Pause(t) PROVE Counted' /\ SuspendIdle'
  <2>1. CASE PauseRequest(t)
    BY <2>1, CountKept, SuspendKept DEF PauseRequest, GotoCancelling, turnVars
  <2>2. CASE PauseAcquire(t)
    BY <2>2, CountKept, SuspendKept
    DEF PauseAcquire, BeginDrain, AfterDrainCheck, Finish, turnVars
  <2>3. CASE PauseSnapshot(t)
    BY <2>3, CountKept, SuspendKept DEF PauseSnapshot, turnVars
  <2>4. CASE PauseSession(t)
    BY <2>4, CountKept, SuspendKept DEF PauseSession, Release, Finish, turnVars
  <2>5. CASE PauseVm(t)
    BY <2>5, CountKept, SuspendKept DEF PauseVm, Release, Finish, turnVars
  <2>6. CASE PausePersist(t)
    BY <2>6, CountKept, SuspendKept DEF PausePersist, Release, Finish, turnVars
  <2>. QED BY <1>2, <2>1, <2>2, <2>3, <2>4, <2>5, <2>6 DEF Pause
<1>3. ASSUME NEW t \in Resumes \cup Prompts,
  EnsureSandbox(t) PROVE Counted' /\ SuspendIdle'
  <2>1. CASE SandboxRequest(t)
    BY <2>1, CountKept, SuspendKept DEF SandboxRequest, Needed, turnVars
  <2>2. CASE ConnectAcquire(t)
    BY <2>2, CountKept, SuspendKept
    DEF ConnectAcquire, SandboxReady, GotoStarting, turnVars
  <2>3. CASE Connect(t) BY <2>3, CountKept, SuspendKept DEF Connect, turnVars
  <2>4. CASE ConnectPersist(t)
    BY <2>4, CountKept, SuspendKept
    DEF ConnectPersist, SandboxReady, GotoStarting, turnVars
  <2>5. CASE ResumeAcquire(t)
    BY <2>5, CountKept, SuspendKept DEF ResumeAcquire, turnVars
  <2>6. CASE ResumeSession(t)
    BY <2>6, CountKept, SuspendKept DEF ResumeSession, turnVars
  <2>9. CASE Recover(t) BY <2>9, CountKept, SuspendKept DEF Recover, turnVars
  <2>7. CASE ResumeShutdownAgents(t)
    BY <2>7, CountKept, SuspendKept DEF ResumeShutdownAgents, turnVars
  <2>8. CASE ResumePersist(t)
    BY <2>8, CountKept, SuspendKept DEF ResumePersist, turnVars
  <2>. QED
    BY <1>3, <2>1, <2>2, <2>3, <2>4, <2>5, <2>6, <2>7, <2>8, <2>9
    DEF EnsureSandbox
<1>4. ASSUME NEW t \in Killers, KillWorkspace(t) PROVE Counted' /\ SuspendIdle'
  BY <1>4, KillIsFinal
<1>5. ASSUME NEW t \in Provisioners,
  Provision(t) PROVE Counted' /\ SuspendIdle'
  <2>1. CASE RetryRequest(t)
    BY <2>1, CountKept, SuspendKept DEF RetryRequest, turnVars
  <2>2. CASE ProvisionSetup(t)
    BY <2>2, CountKept, SuspendKept DEF ProvisionSetup, turnVars
  <2>3. CASE ProvisionSave(t)
    BY <2>3, CountKept, SuspendKept DEF ProvisionSave, GotoStarting, turnVars
  <2>4. CASE ProvisionFail(t)
    BY <2>4, CountKept, SuspendKept DEF ProvisionFail, turnVars
  <2>. QED BY <1>5, <2>1, <2>2, <2>3, <2>4 DEF Provision
<1>6. ASSUME NEW p \in Prompts,
  Turn(p) \/ Abort(p) PROVE Counted' /\ SuspendIdle'
  <2>1. CASE ResolveConversation(p)
    BY <2>1, CountKept, SuspendKept DEF ResolveConversation, turnVars
  <2>2. CASE Admit(p)
    <3>1. CASE active' = active + 1 /\ pc' = [pc EXCEPT ![p] = "touch",
      ![Timer] = "off"]
      <4>1. p \notin Admitted
        BY <2>2 DEF Admit, Admitted
      <4>2. Admitted' = Admitted \cup {p}
        BY <3>1 DEF Admitted
      <4>3. Counted'
        BY <3>1, <4>1, <4>2, AdmittedFinite, FS_AddElement DEF Counted
      <4>4. \A u \in Pausers : pc[u] \notin LockedSteps
        BY <2>2 DEF Admit, LockInv, LockOwner
      <4>5. ~Suspending'
        BY <3>1, <4>4, Disjoint, DrainFacts DEF Suspending
      <4>. QED BY <4>3, <4>5 DEF SuspendIdle
    <3>2. CASE Goto(p, "failed") /\ UNCHANGED active
      BY <2>2, <3>2, CountKept, SuspendKept DEF Admit
    <3>. QED BY <2>2, <3>1, <3>2 DEF Admit, GotoCancelling
  <2>3. CASE TouchLastActive(p)
    BY <2>3, CountKept, SuspendKept DEF TouchLastActive
  <2>4. CASE TurnEnded(p)
    BY <2>4, CountKept, SuspendKept DEF TurnEnded, turnVars
  <2>9. CASE GiveTurnBack(p)
    <3>1. pc[p] \in {"turn", "ending"} BY <2>9 DEF GiveTurnBack
    <3>2. PICK rearm \in BOOLEAN : EndTurn(p, "poll", rearm)
      BY <2>9, Zenon DEF GiveTurnBack
    <3>. QED BY <3>1, <3>2, EndTurnPause
  <2>5. CASE TurnErrored(p) BY <2>5, EndTurnPause DEF TurnErrored
  <2>6. CASE PollStatus(p) BY <2>6, CountKept, SuspendKept DEF PollStatus
  <2>7. CASE AbortEarly(p)
    BY <2>7, CountKept, SuspendKept DEF AbortEarly, turnVars
  <2>8. CASE AbortTurn(p) BY <2>8, EndTurnPause DEF AbortTurn
  <2>10. CASE AbortEnding(p)
    BY <2>10, CountKept, SuspendKept DEF AbortEnding
  <2>. QED
    BY <1>6, <2>1, <2>2, <2>3, <2>4, <2>5, <2>6, <2>7, <2>8, <2>9, <2>10
    DEF Turn, Abort
<1>7. ASSUME NEW t \in Pausers \cup Killers,
  DrainCheck(t) PROVE Counted' /\ SuspendIdle'
  BY <1>7, CountKept, SuspendKept DEF DrainCheck, AfterDrainCheck, turnVars
<1>8. ASSUME Restart PROVE Counted' /\ SuspendIdle'
  <2>1. Admitted' = {} BY <1>8 DEF Restart, Admitted
  <2>2. active' = 0 BY <1>8 DEF Restart
  <2>. QED BY <2>1, <2>2, FS_EmptySet DEF Counted, SuspendIdle
<1>9. ASSUME UNCHANGED vars PROVE Counted' /\ SuspendIdle'
  BY <1>9, CountKept, SuspendKept DEF vars, turnVars
<1>. QED BY <1>1, <1>2, <1>3, <1>4, <1>5, <1>6, <1>7, <1>8, <1>9 DEF Next, Finished

LEMMA PauseInvariant == Spec => []PauseInv
<1>1. Init => PauseInv
  <2>1. ASSUME Init PROVE Counted
    <3>1. Admitted = {}
      BY <2>1, TaskFacts DEF Init, Admitted
    <3>. QED BY <2>1, <3>1, FS_EmptySet DEF Init, Counted
  <2>2. ASSUME Init PROVE SuspendIdle
    BY <2>2 DEF Init, SuspendIdle
  <2>. QED BY <2>1, <2>2 DEF PauseInv
<1>2. LockInv /\ PauseInv /\ [Next]_vars => PauseInv'
  BY PauseInductive
<1>. QED BY <1>1, <1>2, LockInvariant, PTL DEF Spec

(* Until the workspace is stopped or destroyed (which forgets the counter) *)
(* active_turns is the number of turns admitted and not given back,        *)
(* whatever fails and whoever disconnects, the turns lost before the "try" *)
(* and between turn.ended and idle.turn_ended included: no turn is given   *)
(* back twice, and a turn that ends any other way is given back.           *)
THEOREM TurnsAreAccounted == Spec => []TurnsAccounted
<1>1. PauseInv => TurnsAccounted BY DEF PauseInv, Counted, TurnsAccounted
<1>. QED BY <1>1, PauseInvariant, PTL

(* Until the workspace is stopped or destroyed, its machine is never       *)
(* snapshotted or suspended under an admitted turn, by no pause and by no  *)
(* auto-pause.                                                             *)
THEOREM PauseWaitsForTurns == Spec => []PauseDrainsTurns
<1>1. PauseInv => PauseDrainsTurns
  <2>1. SUFFICES ASSUME PauseInv, NotKilled, Suspending PROVE InTurn = {}
    BY DEF PauseDrainsTurns
  <2>2. Cardinality(Admitted) = 0
    BY <2>1 DEF PauseInv, SuspendIdle, Counted
  <2>3. Admitted = {}
    BY <2>2, AdmittedFinite, FS_EmptySet
  <2>. QED BY <2>3 DEF Admitted, InTurn
<1>. QED BY <1>1, PauseInvariant, PTL
=============================================================================
