--------------------------- MODULE SdkSandbox_proofs ---------------------------
(***************************************************************************)
(* Theorems about E2BProvider: its timeout extension, for every timeout    *)
(* and for every order in which a caller may use the provider.  Then about *)
(* SdkSandbox: whatever is called on the sandbox, and whatever E2B does,   *)
(* its machine stays in reach (SdkInv); the cost of the turns is kept      *)
(* across the agents it goes through (CostInv); and it uses its provider   *)
(* as E2BProvider allows, so that what is proved there holds of the        *)
(* machine of a sandbox.                                                   *)
(***************************************************************************)
EXTENDS SdkSandbox, TLAPS

(* In a turn whose machine nobody else gave time to, and that was not      *)
(* extended yet, what is left and what has passed fit into the timeout.    *)
WithinTimeout ==
  machine = "running" /\ elapsed # Idle /\ ~renewed /\ ~extended
  => ttl + elapsed <= Timeout

ProviderInv == ProviderTypeOK /\ WithinTimeout

(* What one extension grants is a natural number, and never too much.      *)
LEMMA ExtensionBounds ==
  ASSUME granted \in 0..MaxExtra
  PROVE  /\ Extension \in Nat
         /\ Extension <= Timeout \div 2
         /\ granted + Extension \in 0..MaxExtra
  BY TimeoutAssumption, SMT DEF Extension, Smaller, MaxExtra

(* Past the half of the turn, the new time is within the timeout.          *)
LEMMA ExtendedTime ==
  ASSUME ProviderTypeOK, ExtensionDue
  PROVE  Remaining + Extension \in 0..Timeout
<1>1. elapsed \in Nat /\ 2 * elapsed >= Timeout
  BY SMT DEF ProviderTypeOK, ExtensionDue, Idle
<1>2. Remaining \in Nat /\ Remaining <= Timeout \div 2
  BY <1>1, TimeoutAssumption, SMT DEF Remaining, Larger
<1>3. Extension \in Nat /\ Extension <= Timeout \div 2
  BY ExtensionBounds DEF ProviderTypeOK
<1> QED
  BY <1>2, <1>3, TimeoutAssumption, SMT

(* With the time left bounded by the timeout less what has passed, the new *)
(* time is not shorter, unless the cap cuts the extension itself to less   *)
(* than nothing.                                                           *)
LEMMA NoTimeLost ==
  ASSUME ProviderInv, ExtensionDue, machine = "running", ~renewed
  PROVE  Remaining + Extension >= ttl
<1>1. elapsed \in Nat /\ ttl \in Nat /\ ttl + elapsed <= Timeout
  BY SMT DEF ProviderInv, ProviderTypeOK, WithinTimeout, ExtensionDue, Idle
<1>2. Remaining \in Nat /\ Remaining >= Timeout - elapsed
  BY <1>1, TimeoutAssumption, SMT DEF Remaining, Larger
<1>3. Extension \in Nat
  BY ExtensionBounds DEF ProviderInv, ProviderTypeOK
<1> QED
  BY <1>1, <1>2, <1>3, TimeoutAssumption, SMT

(* The type invariant by what its proofs need: truth values and numbers.    *)
Flags ==
  /\ handle \in BOOLEAN /\ egress \in BOOLEAN
  /\ extended \in BOOLEAN /\ renewed \in BOOLEAN
  /\ machine \in {"none", "running", "paused", "gone"}

Numbers ==
  ttl \in 0..Timeout /\ elapsed \in Nat \cup {Idle} /\ granted \in 0..MaxExtra

LEMMA Parts == ProviderTypeOK <=> Flags /\ Numbers
  BY DEF ProviderTypeOK, Flags, Numbers

LEMMA ProviderInitial == ProviderInit => ProviderInv
<1> SUFFICES ASSUME ProviderInit PROVE ProviderInv
  OBVIOUS
<1>1. Flags
  BY DEF ProviderInit, Flags
<1>2. Numbers
  BY TimeoutAssumption, SMT DEF ProviderInit, Numbers, MaxExtra, Idle
<1>3. WithinTimeout
  BY DEF ProviderInit, WithinTimeout
<1> QED
  BY <1>1, <1>2, <1>3, Parts DEF ProviderInv

LEMMA FlagsStep == Flags /\ [ProviderNext]_pvars => Flags'
<1> SUFFICES ASSUME Flags, [ProviderNext]_pvars PROVE Flags'
  OBVIOUS
<1> USE DEF Flags
<1>1. CASE CreateEffect \/ Wake \/ ConnectEffect \/ CreateReturn
  BY <1>1, Zenon DEF CreateEffect, Alive, Wake, ConnectEffect, CreateReturn
<1>2. CASE PauseEffect \/ AutoPause \/ KillEffect \/ Lost
  BY <1>2, Zenon DEF PauseEffect, AutoPause, Suspended, KillEffect, Lost
<1>3. CASE EgressUp \/ Tick \/ ConnectReturn \/ DropHandle
  BY <1>3, Zenon DEF EgressUp, Tick, ConnectReturn, DropHandle
<1>4. CASE NotifyTurnStart \/ NotifyTurnEnd \/ Extend
  BY <1>4, Zenon DEF NotifyTurnStart, NotifyTurnEnd, Extend
<1>5. CASE UNCHANGED pvars
  BY <1>5 DEF pvars
<1> QED
  BY <1>1, <1>2, <1>3, <1>4, <1>5 DEF ProviderNext

LEMMA ProviderStep == ProviderInv /\ [ProviderNext]_pvars => ProviderInv'
<1> SUFFICES ASSUME ProviderInv, [ProviderNext]_pvars PROVE ProviderInv'
  OBVIOUS
<1>0. Numbers /\ WithinTimeout /\ Flags'
  BY FlagsStep, Parts DEF ProviderInv
<1>f. ASSUME Numbers', WithinTimeout' PROVE ProviderInv'
  <2>1. ProviderTypeOK' <=> Flags' /\ Numbers'
    BY DEF ProviderTypeOK, Flags, Numbers
  <2> QED
    BY <2>1, <1>0, <1>f DEF ProviderInv
<1> USE <1>0, TimeoutAssumption DEF Numbers, WithinTimeout, Idle, MaxExtra
<1>1. CASE CreateEffect
  <2>1. Numbers'
    BY <1>1, SMT DEF CreateEffect, Alive
  <2>2. WithinTimeout'
    BY <1>1, Zenon DEF CreateEffect, Alive
  <2> QED
    BY <2>1, <2>2, <1>f
<1>2. CASE PauseEffect
  <2>1. Numbers'
    BY <1>2, SMT DEF PauseEffect, Suspended
  <2>2. WithinTimeout'
    BY <1>2, SMT DEF PauseEffect, Suspended
  <2> QED
    BY <2>1, <2>2, <1>f
<1>3. CASE AutoPause
  <2>1. Numbers'
    BY <1>3, SMT DEF AutoPause, Suspended
  <2>2. WithinTimeout'
    BY <1>3, SMT DEF AutoPause, Suspended
  <2> QED
    BY <2>1, <2>2, <1>f
<1>4. CASE Wake
  <2>1. Numbers'
    BY <1>4, SMT DEF Wake, Alive
  <2>2. WithinTimeout'
    BY <1>4, Zenon DEF Wake, Alive
  <2> QED
    BY <2>1, <2>2, <1>f
<1>5. CASE ConnectEffect
  <2>1. Numbers'
    BY <1>5, SMT DEF ConnectEffect, Alive, Larger
  <2>2. WithinTimeout'
    BY <1>5, Zenon DEF ConnectEffect, Alive, Larger
  <2> QED
    BY <2>1, <2>2, <1>f
<1>6. CASE KillEffect
  <2>1. Numbers'
    BY <1>6, SMT DEF KillEffect
  <2>2. WithinTimeout'
    BY <1>6, SMT DEF KillEffect
  <2> QED
    BY <2>1, <2>2, <1>f
<1>7. CASE EgressUp
  <2>1. Numbers'
    BY <1>7, SMT DEF EgressUp
  <2>2. WithinTimeout'
    BY <1>7, SMT DEF EgressUp
  <2> QED
    BY <2>1, <2>2, <1>f
<1>8. CASE Lost
  <2>1. Numbers'
    BY <1>8, SMT DEF Lost
  <2>2. WithinTimeout'
    BY <1>8, SMT DEF Lost
  <2> QED
    BY <2>1, <2>2, <1>f
<1>9. CASE Tick
  <2>1. Numbers'
    BY <1>9, SMT DEF Tick
  <2>2. WithinTimeout'
    BY <1>9, SMT DEF Tick
  <2> QED
    BY <2>1, <2>2, <1>f
<1>10. CASE CreateReturn
  <2>1. Numbers'
    BY <1>10, SMT DEF CreateReturn
  <2>2. WithinTimeout'
    BY <1>10, Zenon DEF CreateReturn
  <2> QED
    BY <2>1, <2>2, <1>f
<1>11. CASE ConnectReturn
  <2>1. Numbers'
    BY <1>11, SMT DEF ConnectReturn
  <2>2. WithinTimeout'
    BY <1>11, SMT DEF ConnectReturn
  <2> QED
    BY <2>1, <2>2, <1>f
<1>12. CASE DropHandle
  <2>1. Numbers'
    BY <1>12, SMT DEF DropHandle
  <2>2. WithinTimeout'
    BY <1>12, SMT DEF DropHandle
  <2> QED
    BY <2>1, <2>2, <1>f
<1>13. CASE NotifyTurnStart
  <2>1. Numbers'
    BY <1>13, SMT DEF NotifyTurnStart
  <2>2. WithinTimeout'
    BY <1>13, SMT DEF NotifyTurnStart
  <2> QED
    BY <2>1, <2>2, <1>f
<1>14. CASE NotifyTurnEnd
  <2>1. Numbers'
    BY <1>14, SMT DEF NotifyTurnEnd
  <2>2. WithinTimeout'
    BY <1>14, SMT DEF NotifyTurnEnd
  <2> QED
    BY <2>1, <2>2, <1>f
<1>15. CASE Extend
  <2>1. ExtensionDue /\ ttl' = Remaining + Extension /\ granted' = granted + Extension
    BY <1>15 DEF Extend
  <2>2. ttl' \in 0..Timeout
    BY <2>1, ExtendedTime DEF ProviderInv
  <2>3. granted' \in 0..MaxExtra
    BY <2>1, ExtensionBounds DEF MaxExtra
  <2>4. Numbers'
    BY <1>15, <2>2, <2>3 DEF Extend
  <2>5. WithinTimeout'
    BY <1>15 DEF Extend
  <2> QED
    BY <2>4, <2>5, <1>f
<1>16. CASE UNCHANGED pvars
  BY <1>16, <1>f DEF pvars
<1> QED
  BY <1>1, <1>2, <1>3, <1>4, <1>5, <1>6, <1>7, <1>8, <1>9, <1>10, <1>11, <1>12,
     <1>13, <1>14, <1>15, <1>16 DEF ProviderNext

LEMMA ProviderAlways == ProviderSpec => []ProviderInv
  BY ProviderInitial, ProviderStep, PTL DEF ProviderSpec

(* The types, with the cap on what all extensions of a machine grant.      *)
THEOREM ProviderTypes == ProviderSpec => []ProviderTypeOK
  BY ProviderAlways, PTL DEF ProviderInv

(* Only Extend raises what has been granted.                               *)
LEMMA OnlyExtendGrants ==
  ASSUME ProviderTypeOK, [ProviderNext]_pvars, granted' > granted
  PROVE  Extend
  BY TimeoutAssumption, SMT
     DEF ProviderTypeOK, MaxExtra, ProviderNext, CreateEffect, PauseEffect, AutoPause, Wake,
         ConnectEffect, KillEffect, EgressUp, Lost, Tick, CreateReturn, ConnectReturn,
         DropHandle, NotifyTurnStart, NotifyTurnEnd, pvars

LEMMA GrantStep ==
  ASSUME ProviderInv, [ProviderNext]_pvars
  PROVE  [granted' > granted /\ ~renewed => ttl' >= ttl]_pvars
<1> SUFFICES ASSUME granted' > granted, ~renewed PROVE ttl' >= ttl
  OBVIOUS
<1>1. Extend
  BY OnlyExtendGrants DEF ProviderInv
<1> QED
  BY <1>1, NoTimeLost DEF Extend

(* However the provider is used, and whatever the timeout, an extension    *)
(* leaves the machine no less time than it had.                            *)
THEOREM ExtensionsAddTime == ProviderSpec => ExtensionAddsTime
<1>1. ProviderInv /\ [ProviderNext]_pvars
      => [granted' > granted /\ ~renewed => ttl' >= ttl]_pvars
  BY GrantStep
<1> QED
  BY <1>1, ProviderAlways, PTL DEF ProviderSpec, ExtensionAddsTime

-----------------------------------------------------------------------------
SetupSteps == {"creating", "created", "steps"}
PauseSteps == {"pausing", "paused"}
KillSteps == {"killing", "killed"}
ResumeSteps == {"connect", "connected", "probing"}
LockSteps == PauseSteps \cup KillSteps \cup ResumeSteps

(* Whoever is in a section that Sandbox._lock guards holds it.             *)
LockHeld == \A p \in Tasks : pc[p] \in LockSteps => lock = p

(* One setup at a time, by a caller; until it is over nobody has made the  *)
(* sandbox active, and it cannot be paused.                                *)
OneSetup == \A p, q \in Tasks : pc[p] \in SetupSteps /\ pc[q] \in SetupSteps => p = q
SetupFirst == \A p \in Tasks : pc[p] \in SetupSteps => p # Sender /\ state \notin {"active", "paused"}

(* Pause and resume come after the setup.                                  *)
SetUp == \A p \in Tasks :
  pc[p] \in {"pause", "resume"} \cup PauseSteps \cup ResumeSteps => state # "starting"

(* The sandbox is not active while its machine is being suspended.         *)
NotActive == \A p \in Tasks : pc[p] \in PauseSteps => state # "active"

Typed == state \in R!RuntimeStates /\ DOMAIN pc = Tasks

SdkInv == Typed /\ LockHeld /\ OneSetup /\ SetupFirst /\ SetUp /\ NotActive /\ Reachable

-----------------------------------------------------------------------------
(* The transition table: what an active and a paused sandbox came from.    *)
LEMMA Sources ==
  ASSUME state \in R!RuntimeStates
  PROVE  /\ CanMove("active") => state \in {"starting", "paused"}
         /\ CanMove("paused") => state = "active"
  BY DEF CanMove, R!RuntimeStates, R!ValidateRuntimeTransition, R!ValidRuntimeTransitions

Terminal == {"dying", "ended", "dead"}

(* What a step of one task must see to for the invariant to be kept.       *)
LEMMA OneMoves ==
  ASSUME SdkInv, NEW p \in Tasks, NEW l,
         pc' = [pc EXCEPT ![p] = l],
         \A q \in Tasks \ {p} : lock = q => lock' = q,
         l \in LockSteps => lock' = p,
         l \in SetupSteps => /\ p # Sender /\ state' \notin {"active", "paused"}
                             /\ pc[p] \in SetupSteps \/ \A q \in Tasks : pc[q] \notin SetupSteps,
         l \in {"pause", "resume"} \cup PauseSteps \cup ResumeSteps => state' # "starting",
         l \in PauseSteps => state' # "active",
         \/ state' = state
         \/ state' \in Terminal
         \/ state' = "paused" /\ state = "active"
         \/ /\ state' = "active" /\ state \in {"starting", "paused"}
            /\ \A q \in Tasks \ {p} : pc[q] \notin PauseSteps \cup SetupSteps,
         Reachable'
  PROVE  SdkInv'
<1> USE DEF SdkInv, Typed
<1>1. /\ DOMAIN pc' = Tasks
      /\ \A q \in Tasks : pc'[q] = IF q = p THEN l ELSE pc[q]
  OBVIOUS
<1>2. Typed'
  BY <1>1 DEF R!RuntimeStates, Terminal
<1>3. LockHeld'
  BY <1>1 DEF LockHeld
<1>4. OneSetup'
  BY <1>1 DEF OneSetup
<1>5. SetupFirst'
  BY <1>1 DEF SetupFirst, Terminal
<1>6. SetUp'
  BY <1>1 DEF SetUp, Terminal
<1>7. NotActive'
  BY <1>1 DEF NotActive, Terminal
<1> QED
  BY <1>2, <1>3, <1>4, <1>5, <1>6, <1>7

(* Nothing the invariant speaks of changes, but that a handle may appear.  *)
LEMMA NoneMoves ==
  ASSUME SdkInv, UNCHANGED <<state, pausedId, lock, pc, handle>>
  PROVE  SdkInv'
  BY DEF SdkInv, Typed, LockHeld, OneSetup, SetupFirst, SetUp, NotActive, Reachable

(* The calls, step by step.                                                *)
LEMMA CallsKeep ==
  ASSUME SdkInv, NEW c \in Callers, Setup(c) \/ Call(c) \/ End(c) \/ CallerStep(c)
  PROVE  SdkInv'
<1> c \in Tasks /\ c # Sender /\ c # None /\ state \in R!RuntimeStates
  BY SdkAssumption DEF Tasks, SdkInv, Typed
<1> USE Sources
<1> USE DEF Goto, Release, Return, Leave, Interrupts, Calling, Fault, pvars, turnVars, Reachable,
            SetupSteps, PauseSteps, KillSteps, ResumeSteps, LockSteps
<1>0. pc[c] \in LockSteps => lock = c
  BY DEF SdkInv, LockHeld
<1>1. CASE Setup(c)
  <2>1. \A q \in Tasks : pc[q] \notin SetupSteps
    BY <1>1 DEF Setup, Tasks, SdkInv, SetupFirst
  <2> QED
    BY <1>1, <2>1, OneMoves DEF Setup, SdkInv
<1>2. CASE Call(c)
  BY <1>2, OneMoves DEF Call, SdkInv
<1>3. CASE End(c)
  BY <1>3, OneMoves DEF End, StopAgent, SdkInv, Terminal
<1>4. CASE Create(c)
  BY <1>4, OneMoves DEF Create, CreateEffect, SdkInv, SetupFirst
<1>5. CASE Created(c)
  BY <1>5, OneMoves DEF Created, CreateReturn, SdkInv, SetupFirst
<1>6. CASE Steps(c)
  <2>1. state # "paused" /\ \A q \in Tasks \ {c} : pc[q] \notin SetupSteps
    BY <1>6 DEF Steps, SdkInv, SetupFirst, OneSetup
  <2>2. state = "starting" => \A q \in Tasks : pc[q] \notin PauseSteps
    BY DEF SdkInv, SetUp
  <2>3. state' = state \/ (state = "starting" /\ state' = "active" /\ handle)
    BY <1>6, <2>1 DEF Steps, Reached
  <2>4. /\ pc' = [pc EXCEPT ![c] = "idle"]
        /\ handle' = handle /\ pausedId' = pausedId
        /\ \A q \in Tasks \ {c} : lock = q => lock' = q
    BY <1>6 DEF Steps
  <2>5. Reachable'
    BY <2>3, <2>4 DEF SdkInv
  <2> QED
    BY <2>1, <2>2, <2>3, <2>4, <2>5, OneMoves
<1>7. CASE Pause(c)
  <2>1. CASE lock' = c
    <3>1. lock = None /\ state = "active" /\ state' = "paused" /\ handle /\ handle'
      BY <1>7, <2>1 DEF Pause
    <3>2. pc' = [pc EXCEPT ![c] = "pausing"]
      BY <1>7, <2>1 DEF Pause
    <3> QED
      BY <2>1, <3>1, <3>2, OneMoves, SdkAssumption
  <2>2. CASE lock' # c
    <3>1. /\ pc' = [pc EXCEPT ![c] = "idle"]
          /\ lock = None /\ lock' = None
          /\ handle' = handle /\ pausedId' = pausedId
      BY <1>7, <2>2 DEF Pause
    <3>2. state' = state \/ (state = "active" /\ state' = "paused")
      BY <1>7 DEF Pause
    <3>3. Reachable'
      BY <3>1, <3>2 DEF SdkInv
    <3> QED
      BY <3>1, <3>2, <3>3, OneMoves
  <2> QED
    BY <2>1, <2>2
<1>8. CASE Suspend(c)
  <2>1. state' = state /\ pausedId' = pausedId /\ handle' = handle /\ Reachable'
    BY <1>8 DEF Suspend, PauseEffect, SdkInv
  <2>2. lock = c /\ state # "starting" /\ state # "active"
    BY <1>8, <1>0 DEF Suspend, SdkInv, SetUp, NotActive
  <2>3. \/ pc' = [pc EXCEPT ![c] = "paused"] /\ lock' = c
        \/ pc' = [pc EXCEPT ![c] = "idle"] /\ lock' = None
    BY <1>8, <2>2 DEF Suspend
  <2>4. CASE pc' = [pc EXCEPT ![c] = "paused"] /\ lock' = c
    BY <2>1, <2>2, <2>4, OneMoves
  <2>5. CASE pc' = [pc EXCEPT ![c] = "idle"] /\ lock' = None
    BY <2>1, <2>2, <2>5, OneMoves
  <2> QED
    BY <2>3, <2>4, <2>5
<1>9. CASE PauseReturn(c)
  BY <1>9, OneMoves DEF PauseReturn, DropHandle, SdkInv, NotActive
<1>10. CASE Kill(c)
  <2>1. lock = None /\ handle' = handle /\ pausedId' = pausedId
    BY <1>10 DEF Kill
  <2>2. \/ pc' = [pc EXCEPT ![c] = "killing"] /\ lock' = c /\ state' = state
        \/ pc' = [pc EXCEPT ![c] = "idle"] /\ lock' = None /\ state' \in {state, "dead"}
    BY <1>10 DEF Kill
  <2>3. Reachable'
    BY <2>1, <2>2 DEF SdkInv
  <2>4. CASE pc' = [pc EXCEPT ![c] = "killing"] /\ lock' = c /\ state' = state
    BY <2>1, <2>3, <2>4, OneMoves, SdkAssumption
  <2>5. CASE pc' = [pc EXCEPT ![c] = "idle"] /\ lock' = None /\ state' \in {state, "dead"}
    BY <2>1, <2>3, <2>5, OneMoves DEF Terminal
  <2> QED
    BY <2>2, <2>4, <2>5
<1>11. CASE Destroy(c)
  <2>1. UNCHANGED <<state, lock, pausedId, handle>> /\ Reachable'
    BY <1>11 DEF Destroy, KillEffect, SdkInv
  <2>2. CASE pc[c] = "killing"
    <3>1. lock = c /\ pc' = [pc EXCEPT ![c] = "killed"]
      BY <1>11, <1>0, <2>2 DEF Destroy
    <3> QED
      BY <2>1, <3>1, OneMoves
  <2>3. CASE pc[c] # "killing"
    <3>1. pc' = [pc EXCEPT ![c] = "ended"]
      BY <1>11, <2>3 DEF Destroy
    <3> QED
      BY <2>1, <3>1, OneMoves
  <2> QED
    BY <2>2, <2>3
<1>12. CASE Destroyed(c)
  BY <1>12, OneMoves DEF Destroyed, DropHandle, SdkInv, Terminal
<1>13. CASE Resumed(c)
  <2>1. lock = c /\ state # "starting" /\ handle
    BY <1>13, <1>0 DEF Resumed, SdkInv, SetUp, Reached
  <2>2. \A q \in Tasks \ {c} : pc[q] \notin PauseSteps
    BY <2>1 DEF SdkInv, LockHeld
  <2>3. state = "paused" => \A q \in Tasks : pc[q] \notin SetupSteps
    BY DEF SdkInv, SetupFirst
  <2>4. state' = state \/ (state = "paused" /\ state' = "active")
    BY <1>13, <2>1 DEF Resumed
  <2>5. /\ pc' = [pc EXCEPT ![c] = "idle"]
        /\ handle' = handle /\ lock' = None
    BY <1>13, <2>1 DEF Resumed
  <2>6. Reachable'
    BY <2>1, <2>4, <2>5 DEF SdkInv
  <2> QED
    BY <2>1, <2>2, <2>3, <2>4, <2>5, <2>6, OneMoves
<1> QED
  BY <1>1, <1>2, <1>3, <1>4, <1>5, <1>6, <1>7, <1>8, <1>9, <1>10, <1>11, <1>12, <1>13
     DEF CallerStep

(* Resume, of a caller or of the turn.                                     *)
LEMMA ResumesKeep ==
  ASSUME SdkInv, NEW p \in Tasks, ResumeStep(p)
  PROVE  SdkInv'
<1> p # None /\ state \in R!RuntimeStates
  BY SdkAssumption DEF Tasks, SdkInv, Typed
<1> USE DEF Goto, Release, Return, Leave, Interrupts, Fault, pvars, turnVars,
            SetupSteps, PauseSteps, KillSteps, ResumeSteps, LockSteps
<1>0. pc[p] \in LockSteps => lock = p
  BY DEF SdkInv, LockHeld
<1>1. CASE Resume(p)
  <2>1. /\ lock = None /\ lock' = p /\ pc' = [pc EXCEPT ![p] = "connect"]
        /\ UNCHANGED <<state, handle, pausedId>>
        /\ state # "starting"
    BY <1>1 DEF Resume, SdkInv, SetUp
  <2>2. Reachable'
    BY <2>1 DEF Reachable, SdkInv
  <2> QED
    BY <2>1, <2>2, OneMoves, SdkAssumption
<1>2. CASE Connect(p)
  <2>1. UNCHANGED <<state, handle, pausedId>> /\ lock = p /\ state # "starting"
    BY <1>2, <1>0 DEF Connect, ConnectEffect, SdkInv, SetUp
  <2>2. Reachable'
    BY <2>1 DEF Reachable, SdkInv
  <2>3. \/ pc' = [pc EXCEPT ![p] = "connected"] /\ lock' = p
        \/ pc' = [pc EXCEPT ![p] = "idle"] /\ lock' = None
    BY <1>2, <2>1 DEF Connect
  <2>4. CASE pc' = [pc EXCEPT ![p] = "connected"] /\ lock' = p
    BY <2>1, <2>2, <2>4, OneMoves
  <2>5. CASE pc' = [pc EXCEPT ![p] = "idle"] /\ lock' = None
    BY <2>1, <2>2, <2>5, OneMoves
  <2> QED
    BY <2>3, <2>4, <2>5
<1>3. CASE Connected(p)
  <2>1. /\ UNCHANGED <<state, pausedId, lock>> /\ handle'
        /\ lock = p /\ state # "starting"
        /\ pc' = [pc EXCEPT ![p] = "probing"]
    BY <1>3, <1>0 DEF Connected, ConnectReturn, SdkInv, SetUp
  <2>2. Reachable'
    BY <2>1 DEF Reachable, SdkInv
  <2> QED
    BY <2>1, <2>2, OneMoves
<1>4. CASE Probe(p)
  <2>1. UNCHANGED <<state, handle, pausedId>>
    BY <1>4 DEF Probe
  <2>2. Reachable'
    BY <2>1 DEF Reachable, SdkInv
  <2>3. \/ UNCHANGED <<pc, lock>>
        \/ pc' = [pc EXCEPT ![p] = "idle"] /\ \A q \in Tasks \ {p} : lock = q => lock' = q
    BY <1>4 DEF Probe
  <2>4. CASE UNCHANGED <<pc, lock>>
    BY <2>1, <2>4, NoneMoves
  <2>5. CASE pc' = [pc EXCEPT ![p] = "idle"] /\ \A q \in Tasks \ {p} : lock = q => lock' = q
    BY <2>1, <2>2, <2>5, OneMoves
  <2> QED
    BY <2>3, <2>4, <2>5
<1>5. CASE ProbeDead(p)
  <2>1. /\ handle' = handle /\ pausedId' = pausedId /\ state' = state
        /\ \A q \in Tasks \ {p} : lock = q => lock' = q
    BY <1>5 DEF ProbeDead, SandboxDead, NotifyTurnEnd
  <2>2. PICK l \in {"idle", "dead"} : pc' = [pc EXCEPT ![p] = l]
    BY <1>5 DEF ProbeDead, SandboxDead
  <2>3. Reachable'
    BY <2>1 DEF Reachable, SdkInv
  <2> QED
    BY <2>1, <2>2, <2>3, OneMoves
       DEF LockSteps, SetupSteps, PauseSteps, KillSteps, ResumeSteps
<1> QED
  BY <1>1, <1>2, <1>3, <1>4, <1>5 DEF ResumeStep

(* A turn that gets its agent ready resumes a sandbox only if it is paused. *)
LEMMA ReadyMoves ==
  ASSUME NEW agent, NEW second, EnsureReady(agent, second)
  PROVE  /\ handle' = handle
         /\ \E l \in {"resume", "start", "prompt"} :
              pc' = [pc EXCEPT ![Sender] = l] /\ (l = "resume" => state = "paused")
  BY DEF EnsureReady, EnsureProcess, SendPrompt, NotifyTurnStart, Goto, pvars

(* Where a step of the turn may go, with the state it may leave.           *)
LEMMA TurnMoves ==
  ASSUME SdkInv, pausedId' = pausedId, handle' = handle,
         state' \in {state, "dead"},
         \A q \in Tasks \ {Sender} : lock = q => lock' = q,
         NEW l \in {"idle", "resume", "start", "prompt", "stream", "cost", "poll", "dead"},
         pc' = [pc EXCEPT ![Sender] = l],
         l = "resume" => state' = "paused"
  PROVE  SdkInv'
<1>1. Sender \in Tasks
  BY DEF Tasks
<1>2. Reachable'
  BY DEF Reachable, SdkInv
<1> QED
  BY <1>1, <1>2, OneMoves
     DEF LockSteps, SetupSteps, PauseSteps, KillSteps, ResumeSteps, Terminal

LEMMA TurnsKeep ==
  ASSUME SdkInv, Turn \/ TurnStep
  PROVE  SdkInv'
<1> Sender \in Tasks /\ Sender # None /\ None \notin Tasks /\ state \in R!RuntimeStates
  BY SdkAssumption DEF Tasks, SdkInv, Typed
<1> USE DEF Goto, Release, Return, Leave, Interrupts, Fault, pvars, turnVars
<1>1. CASE Turn
  <2>1. UNCHANGED <<state, pausedId, lock>> /\ EnsureReady(proc, FALSE)
    BY <1>1 DEF Turn
  <2> QED
    BY <2>1, ReadyMoves, TurnMoves
<1>2. CASE TurnResumed
  <2>1. lock = Sender /\ state # "starting" /\ handle /\ lock' = None
    BY <1>2 DEF TurnResumed, Reached, SdkInv, LockHeld, SetUp, LockSteps, ResumeSteps
  <2>2. CASE CanMove("active")
    <3>1. state = "paused" /\ state' = "active"
      BY <1>2, <2>1, <2>2, Sources DEF TurnResumed
    <3>2. EnsureProcess(proc, again)
      BY <1>2, <2>2 DEF TurnResumed
    <3>3. handle' = handle /\ \E l \in {"start", "prompt"} : pc' = [pc EXCEPT ![Sender] = l]
      BY <3>2 DEF EnsureProcess, SendPrompt, NotifyTurnStart
    <3>4. Reachable'
      BY <2>1, <3>1, <3>3 DEF Reachable
    <3>5. \A q \in Tasks \ {Sender} : pc[q] \notin PauseSteps \cup SetupSteps
      BY <2>1, <3>1 DEF SdkInv, LockHeld, SetupFirst, LockSteps
    <3>6. \A q \in Tasks \ {Sender} : lock = q => lock' = q
      BY <2>1
    <3> QED
      BY <3>1, <3>3, <3>4, <3>5, <3>6, OneMoves
         DEF LockSteps, SetupSteps, PauseSteps, KillSteps, ResumeSteps
  <2>3. CASE ~CanMove("active")
    <3>1. /\ UNCHANGED <<state, handle>>
          /\ pc' = [pc EXCEPT ![Sender] = "idle"]
      BY <1>2, <2>3 DEF TurnResumed
    <3>2. Reachable'
      BY <2>1, <3>1 DEF SdkInv, Reachable
    <3> QED
      BY <2>1, <3>1, <3>2, OneMoves
         DEF LockSteps, SetupSteps, PauseSteps, KillSteps, ResumeSteps
  <2> QED
    BY <2>2, <2>3
<1>3. CASE Start
  <2>1. pausedId' = pausedId /\ handle' = handle /\ state' \in {state, "dead"}
    BY <1>3 DEF Start, SendPrompt, NotifyTurnStart, SandboxDead, MarkDead, NotifyTurnEnd, TurnRaises
  <2>2. \A q \in Tasks \ {Sender} : lock = q => lock' = q
    BY <1>3 DEF Start, SandboxDead, TurnRaises
  <2>3. \E l \in {"prompt", "idle", "dead"} : pc' = [pc EXCEPT ![Sender] = l]
    BY <1>3 DEF Start, SendPrompt, SandboxDead, TurnRaises
  <2> QED
    BY <2>1, <2>2, <2>3, TurnMoves
<1>4. CASE Prompt
  <2>1. CASE EnsureReady(None, TRUE) /\ UNCHANGED <<state, lock>>
    <3>1. pausedId' = pausedId
      BY <1>4 DEF Prompt
    <3> QED
      BY <2>1, <3>1, ReadyMoves, TurnMoves
  <2>2. CASE ~(EnsureReady(None, TRUE) /\ UNCHANGED <<state, lock>>)
    <3>1. pausedId' = pausedId /\ handle' = handle /\ state' \in {state, "dead"}
      BY <1>4, <2>2 DEF Prompt, SandboxDead, MarkDead, NotifyTurnEnd, TurnRaises
    <3>2. \A q \in Tasks \ {Sender} : lock = q => lock' = q
      BY <1>4, <2>2 DEF Prompt, SandboxDead, TurnRaises
    <3>3. \E l \in {"stream", "idle", "dead"} : pc' = [pc EXCEPT ![Sender] = l]
      BY <1>4, <2>2 DEF Prompt, SandboxDead, TurnRaises
    <3> QED
      BY <3>1, <3>2, <3>3, TurnMoves
  <2> QED
    BY <2>1, <2>2
<1>5. CASE TurnExtends
  BY <1>5, NoneMoves DEF TurnExtends, Extend
<1>6. CASE Result
  BY <1>6, TurnMoves DEF Result, NotifyTurnEnd
<1>7. CASE TurnFails
  BY <1>7, TurnMoves DEF TurnFails
<1>8. CASE RecordCost
  BY <1>8, TurnMoves DEF RecordCost
<1>9. CASE Poll
  BY <1>9, TurnMoves DEF Poll
<1>10. CASE OnSandboxDead
  BY <1>10, TurnMoves DEF OnSandboxDead, MarkDead
<1> QED
  BY <1>1, <1>2, <1>3, <1>4, <1>5, <1>6, <1>7, <1>8, <1>9, <1>10 DEF TurnStep

(* E2B and the time.                                                       *)
LEMMA OthersKeep ==
  ASSUME SdkInv, WakeUp \/ Passes \/ Expires \/ NetworkUp \/ Disappears \/ UNCHANGED vars
  PROVE  SdkInv'
<1>1. UNCHANGED <<state, pausedId, lock, pc, handle>>
  BY DEF WakeUp, Passes, Expires, NetworkUp, Disappears, Wake, Tick, AutoPause, EgressUp,
         Lost, vars, pvars
<1> QED
  BY <1>1, NoneMoves

LEMMA InitKeeps == Init => SdkInv
  BY SdkAssumption
     DEF Init, SdkInv, Typed, LockHeld, OneSetup, SetupFirst, SetUp, NotActive, Reachable,
         LockSteps, SetupSteps, PauseSteps, KillSteps, ResumeSteps, R!RuntimeStates

LEMMA StepKeeps == SdkInv /\ [Next]_vars => SdkInv'
  BY CallsKeep, ResumesKeep, TurnsKeep, OthersKeep DEF Next

(* Whatever setup, pause, resume, kill, end and the turns do at the same    *)
(* time, and whichever request to E2B fails, an active sandbox has a handle *)
(* on its machine and a paused one a handle or the id to connect to.       *)
THEOREM SandboxStaysReachable == Spec => []Reachable
<1>1. SdkInv => Reachable
  BY DEF SdkInv
<1> QED
  BY <1>1, InitKeeps, StepKeeps, PTL DEF Spec

-----------------------------------------------------------------------------
(* The cost of the turns, as long as the sandbox may be active, is not     *)
(* being killed, and no restart of its agent was interrupted.              *)

Live ==
  /\ state \notin Terminal /\ ~interrupted
  /\ \A c \in Callers : pc[c] \notin KillSteps

RestartSteps == {"resume", "connect", "connected", "probing", "start", "prompt"}

(* The steps that rely on the agent the turn got ready.                    *)
Answering == {"prompt", "stream", "cost"}

(* The second agent of a turn has not been started yet.                    *)
HandedOver == again /\ pc[Sender] \in RestartSteps \ {"prompt"}

AgentTyped ==
  /\ proc \in Processes \cup {None}
  /\ kept \in Nat /\ counted \in Nat
  /\ again \in BOOLEAN /\ usage \in BOOLEAN /\ interrupted \in BOOLEAN

(* The metrics of an agent that died are kept until its successor has them *)
(* from the start; an agent that is replaced otherwise has counted nothing. *)
CostInv ==
  /\ AgentTyped
  /\ Live =>
       /\ again => pc[Sender] \in RestartSteps
       /\ IF HandedOver THEN kept = counted ELSE Cost = counted
       /\ ~HandedOver /\ (proc = None \/ ~proc.running) => counted = 0
       /\ pc[Sender] \in Answering => proc # None /\ proc.running

-----------------------------------------------------------------------------
(* What is over stays over.                                                *)
LEMMA TerminalMoves ==
  ASSUME state \in Terminal, NEW target \in {"active", "paused"}
  PROVE  ~CanMove(target)
  BY DEF Terminal, CanMove, R!ValidateRuntimeTransition, R!ValidRuntimeTransitions

LEMMA CallsEnd ==
  ASSUME SdkInv, NEW c \in Callers, Setup(c) \/ Call(c) \/ End(c) \/ CallerStep(c)
  PROVE  Live' => Live
<1> USE TerminalMoves DEF Goto, Release, Return, Leave, Interrupts, Calling, Fault, turnVars
<1>0. c \in Tasks /\ Callers \subseteq Tasks /\ DOMAIN pc = Tasks
  BY DEF Tasks, SdkInv, Typed
<1>1. state \in Terminal => state' \in Terminal
  BY DEF Setup, Call, End, CallerStep, Create, Created, Steps, Pause, Suspend, PauseReturn,
         Kill, Destroy, Destroyed, Resumed, Terminal
<1>2. interrupted => interrupted'
  BY DEF Setup, Call, End, CallerStep, Create, Created, Steps, Pause, Suspend, PauseReturn,
         Kill, Destroy, Destroyed, Resumed, StopAgent
<1>3. \E l : pc' = [pc EXCEPT ![c] = l]
  BY DEF Setup, Call, End, CallerStep, Create, Created, Steps, Pause, Suspend, PauseReturn,
         Kill, Destroy, Destroyed, Resumed
<1>4. \A d \in Callers : pc[d] \in KillSteps /\ d # c => pc'[d] \in KillSteps
  BY <1>0, <1>3
<1>5. pc[c] \in KillSteps => pc'[c] \in KillSteps \/ state' \in Terminal
  <2>1. CASE pc[c] = "killing"
    <3>1. Destroy(c)
      BY <2>1 DEF Setup, Call, End, CallerStep, Create, Created, Steps, Pause, Suspend, PauseReturn,
         Kill, Destroy, Destroyed, Resumed
    <3> QED
      BY <1>0, <2>1, <3>1 DEF Destroy, KillSteps
  <2>2. CASE pc[c] = "killed"
    <3>1. Destroyed(c)
      BY <2>2 DEF Setup, Call, End, CallerStep, Create, Created, Steps, Pause, Suspend, PauseReturn,
         Kill, Destroy, Destroyed, Resumed
    <3> QED
      BY <2>2, <3>1 DEF Destroyed, Terminal
  <2> QED
    BY <2>1, <2>2 DEF KillSteps
<1> QED
  BY <1>1, <1>2, <1>4, <1>5 DEF Live

LEMMA ResumesEnd ==
  ASSUME SdkInv, NEW p \in Tasks, ResumeStep(p)
  PROVE  Live' => Live
<1> USE DEF Goto, Release, Return, Leave, Interrupts, Fault, turnVars
<1>0. Callers \subseteq Tasks /\ DOMAIN pc = Tasks
  BY DEF Tasks, SdkInv, Typed
<1>1. state \in Terminal => state' \in Terminal
  BY DEF ResumeStep, Resume, Connect, Connected, Probe, ProbeDead, SandboxDead, MarkDead, Terminal
<1>2. interrupted => interrupted'
  BY DEF ResumeStep, Resume, Connect, Connected, Probe, ProbeDead, SandboxDead
<1>3. pc' = pc \/ \E l : pc' = [pc EXCEPT ![p] = l]
  BY DEF ResumeStep, Resume, Connect, Connected, Probe, ProbeDead, SandboxDead
<1>4. pc[p] \notin KillSteps
  BY DEF ResumeStep, Resume, Connect, Connected, Probe, ProbeDead, KillSteps
<1> QED
  BY <1>0, <1>1, <1>2, <1>3, <1>4 DEF Live

LEMMA TurnsEnd ==
  ASSUME SdkInv, Turn \/ TurnStep
  PROVE  Live' => Live
<1> USE TerminalMoves DEF Goto, Release, Return, Leave, Interrupts, Fault, turnVars
<1>0. Callers \subseteq Tasks /\ DOMAIN pc = Tasks /\ Sender \notin Callers
  BY SdkAssumption DEF Tasks, SdkInv, Typed
<1>1. state \in Terminal => state' \in Terminal
  BY DEF Turn, TurnStep, TurnResumed, Start, Prompt, TurnExtends, Result, TurnFails, RecordCost,
         Poll, OnSandboxDead, SandboxDead, MarkDead, TurnRaises, Terminal
<1>2. interrupted => interrupted'
  BY DEF Turn, TurnStep, TurnResumed, Start, Prompt, TurnExtends, Result, TurnFails, RecordCost,
         Poll, OnSandboxDead, SandboxDead, TurnRaises
<1>3. pc' = pc \/ \E l : pc' = [pc EXCEPT ![Sender] = l]
  BY DEF Turn, TurnStep, TurnResumed, Start, Prompt, TurnExtends, Result, TurnFails, RecordCost,
         Poll, OnSandboxDead, SandboxDead, TurnRaises, EnsureReady, EnsureProcess, SendPrompt
<1> QED
  BY <1>0, <1>1, <1>2, <1>3 DEF Live

-----------------------------------------------------------------------------
(* An agent that at most stopped being heard is the same to its metrics.   *)
SameAgent ==
  \/ proc' = proc
  \/ proc \in Processes /\ proc' = [proc EXCEPT !.heard = FALSE]

LEMMA ProcessFacts ==
  /\ NewProcess \in Processes /\ NewProcess # None
  /\ NewProcess.count = 0 /\ ~NewProcess.running
  /\ \A agent \in Processes : agent # None /\ agent.count \in Nat
<1>1. None \notin Processes
  BY SdkAssumption
<1>2. NewProcess \in Processes /\ NewProcess.count = 0 /\ ~NewProcess.running
  BY DEF NewProcess, Processes
<1>3. \A agent \in Processes : agent.count \in Nat
  BY DEF Processes
<1> QED
  BY <1>1, <1>2, <1>3, Zenon

LEMMA SameMetrics ==
  ASSUME AgentTyped, SameAgent
  PROVE  /\ proc' \in Processes \cup {None}
         /\ proc' = None <=> proc = None
         /\ proc # None => proc'.running = proc.running /\ proc'.count = proc.count
<1>1. CASE proc' = proc
  BY <1>1 DEF AgentTyped
<1>2. CASE proc \in Processes /\ proc' = [proc EXCEPT !.heard = FALSE]
  <2>1. proc' \in Processes /\ proc'.running = proc.running /\ proc'.count = proc.count
    BY <1>2 DEF Processes
  <2> QED
    BY <1>2, <2>1, ProcessFacts
<1> QED
  BY <1>1, <1>2 DEF SameAgent

LEMMA AgentUntouched ==
  ASSUME CostInv, Live' => Live, SameAgent,
         UNCHANGED <<kept, counted, again>>, usage' \in BOOLEAN, interrupted' \in BOOLEAN,
         pc'[Sender] \in Answering => pc[Sender] \in Answering,
         Live' => \/ pc'[Sender] = pc[Sender]
                  \/ ~again
                  \/ {pc[Sender], pc'[Sender]} \subseteq RestartSteps \ {"prompt"}
  PROVE  CostInv'
<1>1. AgentTyped'
  BY SameMetrics DEF CostInv, AgentTyped
<1>2. ASSUME Live' PROVE HandedOver' <=> HandedOver
  BY <1>2 DEF HandedOver
<1>3. Cost' = Cost
  BY SameMetrics DEF Cost, CostInv
<1>4. ASSUME Live', again PROVE pc'[Sender] \in RestartSteps
  BY <1>4 DEF CostInv
<1>5. (proc' = None \/ ~proc'.running) <=> (proc = None \/ ~proc.running)
  BY SameMetrics DEF CostInv
<1>6. ASSUME Live', pc'[Sender] \in Answering PROVE proc' # None /\ proc'.running
  BY <1>5, <1>6 DEF CostInv
<1> QED
  BY <1>1, <1>2, <1>3, <1>4, <1>5, <1>6 DEF CostInv

(* A kill and an end that stop the agent are the end of the sandbox.       *)
LEMMA CallsCost ==
  ASSUME SdkInv, CostInv, NEW c \in Callers, Setup(c) \/ Call(c) \/ End(c) \/ CallerStep(c)
  PROVE  CostInv'
<1>0. /\ c \in Tasks /\ c # Sender /\ Sender \in Tasks /\ DOMAIN pc = Tasks /\ AgentTyped
      /\ Live' => Live
  BY SdkAssumption, CallsEnd DEF Tasks, SdkInv, Typed, CostInv
<1> USE DEF Goto, Release, Return, Leave, Interrupts, Calling, Fault, turnVars
<1>1. \E l : pc' = [pc EXCEPT ![c] = l]
  BY DEF Setup, Call, End, CallerStep, Create, Created, Steps, Pause, Suspend, PauseReturn,
         Kill, Destroy, Destroyed, Resumed
<1>2. pc'[Sender] = pc[Sender]
  BY <1>0, <1>1
<1>3. CASE StopAgent /\ UNCHANGED <<again, usage, counted>> /\ ~Live'
  <2>1. Cost \in Nat
    BY <1>0, ProcessFacts DEF AgentTyped, Cost
  <2>2. interrupted' \in BOOLEAN
    BY <1>0, <1>3 DEF AgentTyped, StopAgent, Restarting
  <2> QED
    BY <1>0, <1>3, <2>1, <2>2 DEF StopAgent, CostInv, AgentTyped
<1>4. CASE Suspend(c)
  <2>1. SameAgent /\ UNCHANGED <<kept, counted, again, usage, interrupted>>
    BY <1>0, <1>4 DEF Suspend, Deafen, SameAgent, AgentTyped
  <2> QED
    BY <1>0, <1>2, <2>1, AgentUntouched DEF AgentTyped
<1>5. CASE Kill(c)
  <2>1. CASE state \in {"ended", "dead"}
    <3>1. UNCHANGED <<proc, kept, counted, again, usage, interrupted>>
      BY <1>5, <2>1 DEF Kill
    <3> QED
      BY <1>0, <1>2, <3>1, AgentUntouched DEF AgentTyped, SameAgent
  <2>2. CASE state \notin {"ended", "dead"}
    <3>1. StopAgent /\ UNCHANGED <<again, usage, counted>>
      BY <1>5, <2>2 DEF Kill
    <3>2. state' = "dead" \/ pc'[c] = "killing"
      BY <1>0, <1>5, <2>2 DEF Kill
    <3> QED
      BY <1>3, <3>1, <3>2 DEF Live, Terminal, KillSteps
  <2> QED
    BY <2>1, <2>2
<1>6. CASE End(c)
  <2>1. StopAgent /\ UNCHANGED <<again, usage, counted>> /\ state' = "dying"
    BY <1>6 DEF End
  <2> QED
    BY <1>3, <2>1 DEF Live, Terminal
<1>7. CASE ~(Suspend(c) \/ Kill(c) \/ End(c))
  <2>1. UNCHANGED <<proc, kept, counted, again, usage>>
    BY <1>7 DEF Setup, Call, CallerStep, Create, Created, Steps, Pause, PauseReturn,
       Destroy, Destroyed, Resumed
  <2>2. interrupted' \in BOOLEAN
    BY <1>0, <1>7 DEF Setup, Call, CallerStep, Create, Created, Steps, Pause, PauseReturn,
       Destroy, Destroyed, Resumed, AgentTyped, Restarting
  <2> QED
    BY <1>0, <1>2, <2>1, <2>2, AgentUntouched DEF SameAgent, AgentTyped
<1> QED
  BY <1>4, <1>5, <1>6, <1>7

(* A resume leaves the agent alone; of a turn, it goes on or interrupts.   *)
LEMMA ResumesCost ==
  ASSUME SdkInv, CostInv, NEW p \in Tasks, ResumeStep(p)
  PROVE  CostInv'
<1>0. /\ Sender \in Tasks /\ DOMAIN pc = Tasks /\ AgentTyped
      /\ Live' => Live
  BY ResumesEnd DEF Tasks, SdkInv, Typed, CostInv
<1> USE DEF Goto, Release, Return, Leave, Interrupts, Fault, turnVars
<1>1. UNCHANGED <<proc, kept, counted, again, usage>>
  BY DEF ResumeStep, Resume, Connect, Connected, Probe, ProbeDead, SandboxDead
<1>2. interrupted' \in BOOLEAN
  <2>1. interrupted' = interrupted \/ interrupted' = (interrupted \/ (p = Sender /\ Restarting))
    BY DEF ResumeStep, Resume, Connect, Connected, Probe, ProbeDead, SandboxDead
  <2>2. (interrupted \/ (p = Sender /\ Restarting)) \in BOOLEAN
    OBVIOUS
  <2> QED
    BY <1>0, <2>1, <2>2, Zenon DEF AgentTyped
<1>3. \/ UNCHANGED <<pc, interrupted>>
      \/ \E l \in {"connect", "connected", "probing"} :
            pc' = [pc EXCEPT ![p] = l] /\ pc[p] \in RestartSteps \ {"prompt"}
      \/ (\E l \in {"idle", "dead"} : pc' = [pc EXCEPT ![p] = l]) /\ pc[p] \in RestartSteps
         /\ interrupted' = (interrupted \/ (p = Sender /\ Restarting))
  BY DEF ResumeStep, Resume, Connect, Connected, Probe, ProbeDead, SandboxDead, RestartSteps
<1>4. Live' => \/ pc'[Sender] = pc[Sender]
               \/ ~again
               \/ {pc[Sender], pc'[Sender]} \subseteq RestartSteps \ {"prompt"}
  <2>1. CASE p # Sender
    <3>1. pc' = pc \/ \E l : pc' = [pc EXCEPT ![p] = l]
      BY <1>3
    <3>2. pc'[Sender] = pc[Sender]
      BY <1>0, <2>1, <3>1
    <3> QED
      BY <3>2
  <2>2. CASE p = Sender
    <3>1. ASSUME NEW l \in {"connect", "connected", "probing"},
                 pc' = [pc EXCEPT ![p] = l], pc[p] \in RestartSteps \ {"prompt"}
          PROVE  {pc[Sender], pc'[Sender]} \subseteq RestartSteps \ {"prompt"}
      BY <1>0, <2>2, <3>1 DEF RestartSteps
    <3>2. ASSUME interrupted' = (interrupted \/ (p = Sender /\ Restarting)), pc[p] \in RestartSteps
          PROVE  Live' => ~again
      BY <2>2, <3>2 DEF Live, Restarting, RestartSteps
    <3> QED
      BY <1>3, <3>1, <3>2
  <2> QED
    BY <2>1, <2>2
<1>5. pc'[Sender] \in Answering => pc[Sender] \in Answering
  <2>1. CASE p # Sender
    <3>1. pc' = pc \/ \E l : pc' = [pc EXCEPT ![p] = l]
      BY <1>3
    <3> QED
      BY <1>0, <2>1, <3>1
  <2>2. CASE p = Sender
    BY <1>0, <1>3, <2>2 DEF Answering
  <2> QED
    BY <2>1, <2>2
<1>6. SameAgent /\ usage' \in BOOLEAN
  BY <1>0, <1>1 DEF SameAgent, AgentTyped
<1> QED
  BY <1>0, <1>1, <1>2, <1>4, <1>5, <1>6, AgentUntouched, Zenon

(* Getting the agent of a first prompt ready replaces only one that has    *)
(* counted nothing; of a second one, the new agent takes over what is kept. *)
LEMMA ReadyCost ==
  ASSUME SdkInv, AgentTyped, AgentTyped', NEW second \in BOOLEAN, NEW agent \in Processes \cup {None},
         again' = second, counted' = counted,
         second => kept' = counted /\ (agent = None \/ kept = counted),
         ~second => /\ agent = proc /\ kept' = kept /\ Cost = counted
                    /\ proc = None \/ ~proc.running => counted = 0,
         \/ EnsureProcess(agent, second)
         \/ proc' = agent /\ Goto(Sender, "resume")
  PROVE  CostInv'
<1>0. Sender \in Tasks /\ DOMAIN pc = Tasks
  BY DEF Tasks, SdkInv, Typed
<1> USE DEF Goto
<1>1. (again' <=> second) /\ (HandedOver' <=> second /\ pc'[Sender] \in RestartSteps \ {"prompt"})
  BY DEF HandedOver
<1>2. CASE proc' = NewProcess /\ pc' = [pc EXCEPT ![Sender] = "start"]
           /\ (agent = None \/ ~agent.running)
  <2>1. pc'[Sender] = "start"
    BY <1>0, <1>2
  <2>2. Cost' = 0 /\ (~second => counted = 0)
    BY <1>2, ProcessFacts DEF Cost
  <2> QED
    BY <1>1, <2>1, <2>2 DEF CostInv, RestartSteps, Answering
<1>3. CASE proc' = agent /\ pc' = [pc EXCEPT ![Sender] = "resume"]
  <2>1. pc'[Sender] = "resume"
    BY <1>0, <1>3
  <2>2. ~second => Cost' = Cost
    BY <1>3 DEF Cost
  <2> QED
    BY <1>1, <1>3, <2>1, <2>2 DEF CostInv, RestartSteps, Answering
<1>4. CASE agent # None /\ agent.running /\ SendPrompt(agent, second)
  <2>1. pc'[Sender] = "prompt" /\ agent \in Processes
    BY <1>0, <1>4 DEF SendPrompt
  <2>2. CASE second
    <3>1. proc' \in Processes /\ proc' # None /\ proc'.running /\ proc'.count = kept
      BY <1>4, <2>1, <2>2, ProcessFacts DEF SendPrompt, Processes, AgentTyped
    <3> QED
      BY <1>1, <1>4, <2>1, <2>2, <3>1 DEF CostInv, RestartSteps, Answering, Cost
  <2>3. CASE ~second
    <3>1. proc' = proc /\ Cost' = Cost
      BY <1>4, <2>3 DEF SendPrompt, Cost
    <3> QED
      BY <1>1, <1>4, <2>1, <2>3, <3>1 DEF CostInv, RestartSteps, Answering
  <2> QED
    BY <2>2, <2>3
<1> QED
  BY <1>2, <1>3, <1>4 DEF EnsureProcess

(* The records of a process stay within their type.                        *)
LEMMA ProcessSteps ==
  ASSUME NEW agent \in Processes
  PROVE  /\ \A n \in Nat : [agent EXCEPT !.count = n] \in Processes
         /\ [agent EXCEPT !.running = FALSE] \in Processes
         /\ [agent EXCEPT !.running = TRUE, !.heard = TRUE] \in Processes
         /\ [agent EXCEPT !.count = @ + 1] \in Processes
<1>1. ASSUME NEW n \in Nat PROVE [agent EXCEPT !.count = n] \in Processes
  BY <1>1 DEF Processes
<1>2. [agent EXCEPT !.running = FALSE] \in Processes
  BY DEF Processes
<1>3. [agent EXCEPT !.running = TRUE, !.heard = TRUE] \in Processes
  BY DEF Processes
<1>4. [agent EXCEPT !.count = @ + 1] \in Processes
  <2>1. agent.count + 1 \in Nat
    BY DEF Processes
  <2> QED
    BY <1>1, <2>1
<1> QED
  BY <1>1, <1>2, <1>3, <1>4

LEMMA TurnsTyped ==
  ASSUME AgentTyped, Turn \/ TurnStep
  PROVE  AgentTyped'
<1> USE DEF Goto, Release, Return, Leave, Interrupts, Fault, turnVars
<1>1. NewProcess \in Processes /\ Cost \in Nat
  BY ProcessFacts DEF Cost, AgentTyped
<1>2. counted' \in Nat
  <2>1. counted' = counted \/ counted' = counted + 1
    BY DEF Turn, TurnStep, TurnResumed, Start, Prompt, TurnExtends, Result, TurnFails, RecordCost,
         Poll, OnSandboxDead, Count
  <2> QED
    BY <2>1 DEF AgentTyped
<1>3. kept' \in Nat
  <2>1. kept' = kept \/ kept' = Cost
    BY DEF Turn, TurnStep, TurnResumed, Start, Prompt, TurnExtends, Result, TurnFails, RecordCost,
         Poll, OnSandboxDead, SandboxDead, TurnRaises
  <2> QED
    BY <1>1, <2>1 DEF AgentTyped
<1>4. again' \in BOOLEAN
  <2>1. again' \in {again, FALSE, TRUE}
    BY DEF Turn, TurnStep, TurnResumed, Start, Prompt, TurnExtends, Result, TurnFails, RecordCost,
         Poll, OnSandboxDead, SandboxDead, TurnRaises
  <2> QED
    BY <2>1 DEF AgentTyped
<1>5. usage' \in BOOLEAN
  BY DEF AgentTyped, Turn, TurnStep, TurnResumed, Start, Prompt, TurnExtends, Result, TurnFails,
         RecordCost, Poll, OnSandboxDead
<1>6. interrupted' \in BOOLEAN
  BY DEF AgentTyped, Turn, TurnStep, TurnResumed, Start, Prompt, TurnExtends, Result, TurnFails,
         RecordCost, Poll, OnSandboxDead, SandboxDead, TurnRaises
<1>7. proc' \in Processes \cup {None}
  <2>1. ASSUME NEW agent \in Processes \cup {None}, NEW second,
               EnsureProcess(agent, second) \/ EnsureReady(agent, second)
        PROVE  proc' \in Processes \cup {None}
    <3>1. CASE proc' = agent \/ proc' = NewProcess
      BY <1>1, <3>1
    <3>2. CASE agent # None /\ proc' = [agent EXCEPT !.count = kept]
      BY <3>2, ProcessSteps DEF AgentTyped
    <3> QED
      BY <2>1, <3>1, <3>2 DEF EnsureProcess, EnsureReady, SendPrompt
  <2>2. CASE Turn
    BY <2>1, <2>2 DEF Turn, AgentTyped
  <2>3. CASE TurnResumed
    BY <2>1, <2>3 DEF TurnResumed, AgentTyped
  <2>4. CASE Start
    <3>1. CASE proc' = proc
      BY <3>1 DEF AgentTyped
    <3>2. CASE proc # None /\ SendPrompt([proc EXCEPT !.running = TRUE, !.heard = TRUE], again)
      <4>1. PICK agent : agent = [proc EXCEPT !.running = TRUE, !.heard = TRUE]
        OBVIOUS
      <4>2. agent \in Processes
        BY <3>2, <4>1, ProcessSteps DEF AgentTyped
      <4>3. proc' = agent \/ proc' = [agent EXCEPT !.count = kept]
        BY <3>2, <4>1 DEF SendPrompt
      <4> QED
        BY <4>2, <4>3, ProcessSteps DEF AgentTyped
    <3> QED
      BY <2>4, <3>1, <3>2 DEF Start, TurnRaises
  <2>5. CASE Prompt
    <3>1. proc' = proc \/ EnsureReady(None, TRUE) \/ (proc' = [proc EXCEPT !.running = FALSE] /\ proc # None)
      BY <2>5 DEF Prompt, TurnRaises
    <3> QED
      BY <2>1, <3>1, ProcessSteps DEF AgentTyped
  <2>6. CASE TurnExtends \/ Result
    BY <2>6 DEF TurnExtends, Result, AgentTyped
  <2>7. CASE TurnFails
    <3>1. proc' = proc \/ (proc' = [proc EXCEPT !.running = FALSE] /\ proc # None)
      BY <2>7 DEF TurnFails, Hears
    <3> QED
      BY <3>1, ProcessSteps DEF AgentTyped
  <2>9. CASE OnSandboxDead
    BY <2>9 DEF OnSandboxDead, AgentTyped
  <2>8. CASE RecordCost \/ Poll
    <3>1. proc' = proc \/ (proc' = [proc EXCEPT !.count = @ + 1] /\ proc # None)
      BY <2>8 DEF RecordCost, Poll, Count
    <3> QED
      BY <3>1, ProcessSteps DEF AgentTyped
  <2> QED
    BY <2>2, <2>3, <2>4, <2>5, <2>6, <2>7, <2>8, <2>9 DEF TurnStep
<1> QED
  BY <1>2, <1>3, <1>4, <1>5, <1>6, <1>7 DEF AgentTyped

(* A step of a turn that only moves it, or ends it.                        *)
LEMMA TurnMovesCost ==
  ASSUME SdkInv, CostInv, Turn \/ TurnStep, SameAgent,
         UNCHANGED <<kept, counted>>,
         \/ again' = again /\ pc' = pc
         \/ (\E l \in {"idle", "dead"} : pc' = [pc EXCEPT ![Sender] = l]) /\ again' = again
            /\ interrupted' = (interrupted \/ Restarting)
         \/ ~again /\ again' = again /\ \E l : pc' = [pc EXCEPT ![Sender] = l]
              /\ (l \in Answering => pc[Sender] \in Answering)
  PROVE  CostInv'
<1>0. /\ Sender \in Tasks /\ DOMAIN pc = Tasks /\ AgentTyped /\ AgentTyped'
      /\ Live' => Live
  BY TurnsTyped, TurnsEnd DEF Tasks, SdkInv, Typed, CostInv
<1>1. pc'[Sender] \in Answering => pc[Sender] \in Answering
  BY <1>0 DEF Answering
<1>2. Live' => pc'[Sender] = pc[Sender] \/ ~again
  <2>1. ASSUME Live', again PROVE pc[Sender] \in RestartSteps
    BY <1>0, <2>1 DEF CostInv
  <2>2. ASSUME interrupted' = (interrupted \/ Restarting) PROVE Live' => ~again
    BY <2>1, <2>2 DEF Live, Restarting, RestartSteps
  <2> QED
    BY <2>2
<1>3. again' = again
  OBVIOUS
<1> QED
  BY <1>0, <1>1, <1>2, <1>3, AgentUntouched DEF AgentTyped

(* A turn counts what it costs once, on the agent there is.                *)
LEMMA CountCost ==
  ASSUME CostInv, AgentTyped', Live' => Live, Count, proc # None, UNCHANGED <<kept, again>>,
         Live => ~again, pc'[Sender] \notin Answering, Live => proc.running
  PROVE  CostInv'
<1>1. /\ proc \in Processes /\ proc' \in Processes /\ proc' # None
      /\ proc'.count = proc.count + 1 /\ proc'.running = proc.running
  <2>1. proc \in Processes
    BY DEF CostInv, AgentTyped
  <2>2. proc' = [proc EXCEPT !.count = proc.count + 1]
    BY DEF Count
  <2>3. proc' \in Processes
    BY <2>1, <2>2, ProcessSteps DEF Count
  <2>4. proc'.count = proc.count + 1 /\ proc'.running = proc.running
    BY <2>1, <2>2 DEF Processes
  <2> QED
    BY <2>1, <2>3, <2>4, ProcessFacts
<1>2. Cost = proc.count /\ Cost' = proc.count + 1 /\ counted' = counted + 1
  BY <1>1 DEF Cost, Count
<1>3. Live' => ~again'
  OBVIOUS
<1> QED
  BY <1>1, <1>2, <1>3 DEF CostInv, HandedOver

LEMMA TurnsCost ==
  ASSUME "exhausted" \notin Faults, SdkInv, CostInv, Turn \/ TurnStep
  PROVE  CostInv'
<1>0. /\ Sender \in Tasks /\ DOMAIN pc = Tasks /\ AgentTyped /\ AgentTyped'
      /\ Live' => Live
  BY TurnsTyped, TurnsEnd DEF Tasks, SdkInv, Typed, CostInv
<1>a. SUFFICES ASSUME Live' PROVE CostInv'
  BY <1>0 DEF CostInv
<1>b. /\ Live
      /\ again => pc[Sender] \in RestartSteps
      /\ IF HandedOver THEN kept = counted ELSE Cost = counted
      /\ ~HandedOver /\ (proc = None \/ ~proc.running) => counted = 0
      /\ pc[Sender] \in Answering => proc # None /\ proc.running
  BY <1>0, <1>a DEF CostInv
<1> USE DEF Goto, Release, Return, Leave, Interrupts, Fault, turnVars
<1>1. CASE Turn
  <2>1. ~again /\ ~HandedOver
    BY <1>b, <1>1 DEF Turn, RestartSteps, HandedOver
  <2>2. again' = FALSE /\ UNCHANGED <<kept, counted>>
    BY <1>1 DEF Turn
  <2>3. EnsureProcess(proc, FALSE) \/ (proc' = proc /\ Goto(Sender, "resume"))
    BY <1>1 DEF Turn, EnsureReady
  <2> QED
    BY <1>0, <1>b, <2>1, <2>2, <2>3, ReadyCost DEF AgentTyped
<1>2. CASE TurnResumed
  <2>1. again => HandedOver
    BY <1>2 DEF TurnResumed, HandedOver, RestartSteps
  <2>2. UNCHANGED <<kept, counted, again>>
    BY <1>2 DEF TurnResumed
  <2>3. CASE EnsureProcess(proc, again)
    <3>1. PICK second \in BOOLEAN : second = again
      BY <1>0 DEF AgentTyped
    <3>2. PICK agent \in Processes \cup {None} : agent = proc
      BY <1>0 DEF AgentTyped
    <3>3. second => kept' = counted /\ (agent = None \/ kept = counted)
      BY <1>b, <2>1, <2>2, <3>1
    <3>4. ~second => /\ agent = proc /\ kept' = kept /\ Cost = counted
                     /\ proc = None \/ ~proc.running => counted = 0
      BY <1>b, <2>2, <3>1, <3>2 DEF HandedOver
    <3>5. again' = second /\ counted' = counted /\ EnsureProcess(agent, second)
      BY <2>2, <2>3, <3>1, <3>2
    <3> QED
      BY <1>0, <3>3, <3>4, <3>5, ReadyCost
  <2>4. CASE Goto(Sender, "idle") /\ Interrupts(TRUE) /\ UNCHANGED proc
    <3>1. interrupted' = (interrupted \/ Restarting)
      BY <2>4
    <3> QED
      BY <1>2, <2>2, <2>4, <3>1, TurnMovesCost DEF SameAgent
  <2> QED
    BY <1>2, <2>3, <2>4 DEF TurnResumed
<1>3. CASE Start
  <2>1. UNCHANGED <<kept, counted, again>>
    BY <1>3 DEF Start, TurnRaises
  <2>2. CASE UNCHANGED proc /\ Leave(Sender)
    <3>1. interrupted' = (interrupted \/ Restarting)
      BY <2>2
    <3> QED
      BY <1>3, <2>1, <2>2, <3>1, TurnMovesCost DEF SameAgent
  <2>3. CASE proc # None /\ SendPrompt([proc EXCEPT !.running = TRUE, !.heard = TRUE], again)
    <3>1. PICK agent : agent = [proc EXCEPT !.running = TRUE, !.heard = TRUE]
      OBVIOUS
    <3>2. proc \in Processes
      BY <1>0, <2>3 DEF AgentTyped
    <3>3. agent \in Processes /\ agent.running /\ agent.count = proc.count
      BY <3>1, <3>2 DEF Processes
    <3>4. pc'[Sender] = "prompt"
      BY <1>0, <2>3 DEF SendPrompt
    <3>5. ~HandedOver'
      BY <3>4 DEF HandedOver
    <3>6. CASE again
      <4>1. kept = counted
        BY <1>b, <1>3, <3>6 DEF HandedOver, RestartSteps, Start
      <4>2. proc' = [agent EXCEPT !.count = kept]
        BY <2>3, <3>1, <3>6 DEF SendPrompt
      <4>3. proc' \in Processes /\ proc'.running /\ proc'.count = kept /\ kept \in Nat
        BY <1>0, <3>3, <4>2 DEF Processes, AgentTyped
      <4>4. proc' # None
        BY <4>3, ProcessFacts
      <4>5. Cost' = counted'
        BY <2>1, <4>1, <4>3, <4>4 DEF Cost
      <4> QED
        BY <1>0, <3>4, <3>5, <4>3, <4>4, <4>5 DEF CostInv, RestartSteps
    <3>7. CASE ~again
      <4>1. Cost = counted
        BY <1>b, <3>7 DEF HandedOver
      <4>2. proc' = agent
        BY <2>3, <3>1, <3>7 DEF SendPrompt
      <4>3. proc' # None
        BY <3>3, <4>2, ProcessFacts
      <4>4. Cost' = counted'
        BY <2>1, <2>3, <3>3, <4>1, <4>2, <4>3 DEF Cost
      <4> QED
        BY <1>0, <3>3, <3>4, <3>5, <4>2, <4>3, <4>4 DEF CostInv, RestartSteps
    <3> QED
      BY <3>6, <3>7
  <2>4. CASE SandboxDead(Sender) /\ UNCHANGED proc
    <3>1. pc' = [pc EXCEPT ![Sender] = "dead"] /\ interrupted' = (interrupted \/ Restarting)
      BY <2>4 DEF SandboxDead
    <3> QED
      BY <1>3, <2>1, <2>4, <3>1, TurnMovesCost DEF SameAgent
  <2> QED
    BY <1>3, <2>2, <2>3, <2>4 DEF Start, TurnRaises
<1>4. CASE Prompt
  <2>1. counted' = counted
    BY <1>4 DEF Prompt
  <2>2. pc[Sender] = "prompt" /\ ~HandedOver /\ proc # None /\ proc.running /\ Cost = counted
    BY <1>b, <1>4 DEF Prompt, HandedOver, Answering
  <2>3. CASE Goto(Sender, "stream") /\ again' = FALSE /\ UNCHANGED <<proc, kept>>
    <3>1. pc'[Sender] = "stream" /\ ~HandedOver' /\ Cost' = counted'
      BY <1>0, <2>1, <2>2, <2>3 DEF HandedOver, Cost
    <3> QED
      BY <1>0, <2>2, <2>3, <3>1 DEF CostInv
  <2>4. CASE ~again /\ kept' = Cost /\ again' = TRUE /\ EnsureReady(None, TRUE)
    <3>1. kept' = counted
      BY <2>2, <2>4
    <3>2. EnsureProcess(None, TRUE) \/ (proc' = None /\ Goto(Sender, "resume"))
      BY <2>4 DEF EnsureReady
    <3> QED
      BY <1>0, <2>1, <2>4, <3>1, <3>2, ReadyCost
  <2>5. CASE Leave(Sender) /\ UNCHANGED <<proc, kept, again>>
    <3>1. interrupted' = (interrupted \/ Restarting)
      BY <2>5
    <3> QED
      BY <1>4, <2>1, <2>5, <3>1, TurnMovesCost DEF SameAgent
  <2>6. CASE again /\ Leave(Sender)
    <3>1. interrupted'
      BY <2>2, <2>6 DEF Restarting
    <3> QED
      BY <1>a, <3>1 DEF Live
  <2>7. CASE SandboxDead(Sender) /\ UNCHANGED <<proc, kept, again>>
    <3>1. pc' = [pc EXCEPT ![Sender] = "dead"] /\ interrupted' = (interrupted \/ Restarting)
      BY <2>7 DEF SandboxDead
    <3> QED
      BY <1>4, <2>1, <2>7, <3>1, TurnMovesCost DEF SameAgent
  <2> QED
    BY <1>4, <2>3, <2>4, <2>5, <2>6, <2>7 DEF Prompt, TurnRaises
<1>5. CASE TurnExtends
  BY <1>5, TurnMovesCost DEF TurnExtends, SameAgent
<1>6. CASE Result
  <2>1. ~again /\ pc[Sender] \in Answering
    BY <1>b, <1>6 DEF Result, Hears, RestartSteps, Answering
  <2>2. UNCHANGED <<proc, kept, again, counted>> /\ pc' = [pc EXCEPT ![Sender] = "cost"]
    BY <1>6 DEF Result
  <2> QED
    BY <1>6, <2>1, <2>2, TurnMovesCost DEF SameAgent
<1>7. CASE TurnFails
  <2>1. ~again
    BY <1>b, <1>7 DEF TurnFails, RestartSteps
  <2>2. UNCHANGED <<proc, kept, again, counted>> /\ pc' = [pc EXCEPT ![Sender] = "poll"]
    BY <1>7 DEF TurnFails
  <2>3. "poll" \notin Answering
    BY DEF Answering
  <2> QED
    BY <1>7, <2>1, <2>2, <2>3, TurnMovesCost DEF SameAgent
<1>8. CASE RecordCost
  <2>1. ~again /\ proc # None /\ proc.running
    BY <1>b, <1>8 DEF RecordCost, RestartSteps, Answering
  <2>2. UNCHANGED <<kept, again>> /\ pc' = [pc EXCEPT ![Sender] = "poll"]
    BY <1>8, <2>1 DEF RecordCost
  <2>3. pc'[Sender] \notin Answering
    BY <1>0, <2>2 DEF Answering
  <2>4. CASE Count
    BY <1>0, <2>1, <2>2, <2>3, <2>4, CountCost
  <2>5. CASE UNCHANGED <<proc, counted>>
    <3>1. "poll" \notin Answering
      BY DEF Answering
    <3> QED
      BY <1>8, <2>1, <2>2, <2>5, <3>1, TurnMovesCost DEF SameAgent
  <2> QED
    BY <1>8, <2>4, <2>5 DEF RecordCost
<1>9. CASE Poll
  <2>1. ~again
    BY <1>b, <1>9 DEF Poll, RestartSteps
  <2>2. UNCHANGED <<kept, again>> /\ pc' = [pc EXCEPT ![Sender] = "idle"]
    BY <1>9 DEF Poll
  <2>3. pc'[Sender] \notin Answering
    BY <1>0, <2>2 DEF Answering
  <2>4. CASE proc # None /\ proc.running /\ Count
    BY <1>0, <2>1, <2>2, <2>3, <2>4, CountCost
  <2>5. CASE UNCHANGED <<proc, counted>>
    <3>1. "idle" \notin Answering
      BY DEF Answering
    <3> QED
      BY <1>9, <2>1, <2>2, <2>5, <3>1, TurnMovesCost DEF SameAgent
  <2> QED
    BY <1>9, <2>4, <2>5 DEF Poll
<1>10. CASE OnSandboxDead
  <2>1. ~Restarting
    BY <1>10 DEF OnSandboxDead, Restarting
  <2>2. UNCHANGED <<proc, kept, again, counted>> /\ pc' = [pc EXCEPT ![Sender] = "idle"]
    BY <1>10 DEF OnSandboxDead
  <2>3. interrupted' = (interrupted \/ Restarting)
    BY <1>0, <1>10, <2>1, Zenon DEF OnSandboxDead, AgentTyped
  <2> QED
    BY <1>10, <2>2, <2>3, TurnMovesCost DEF SameAgent
<1> QED
  BY <1>1, <1>2, <1>3, <1>4, <1>5, <1>6, <1>7, <1>8, <1>9, <1>10 DEF TurnStep

LEMMA OthersCost ==
  ASSUME SdkInv, CostInv, WakeUp \/ Passes \/ Expires \/ NetworkUp \/ Disappears \/ UNCHANGED vars
  PROVE  CostInv'
<1>1. UNCHANGED <<state, pc, kept, again, usage, counted, interrupted>>
  BY DEF WakeUp, Passes, Expires, NetworkUp, Disappears, vars, turnVars
<1>2. SameAgent
  <2>1. proc' = proc \/ Deafen
    BY DEF WakeUp, Passes, Expires, NetworkUp, Disappears, vars, turnVars
  <2> QED
    BY <2>1 DEF Deafen, SameAgent, CostInv, AgentTyped
<1>3. Live' <=> Live
  BY <1>1 DEF Live
<1>4. AgentTyped
  BY DEF CostInv
<1> QED
  BY <1>1, <1>2, <1>3, <1>4, AgentUntouched DEF AgentTyped

LEMMA InitCost == Init => CostInv
<1> SUFFICES ASSUME Init PROVE CostInv
  OBVIOUS
<1>1. Sender \in Tasks
  BY DEF Tasks
<1>2. pc[Sender] = "idle" /\ again = FALSE /\ proc = None /\ kept = 0 /\ counted = 0
  BY <1>1 DEF Init
<1>3. AgentTyped
  BY DEF Init, AgentTyped
<1> QED
  BY <1>2, <1>3 DEF CostInv, HandedOver, Cost, RestartSteps, Answering

(* Unless an agent gave up after its last retry, whatever else fails and   *)
(* whoever pauses, resumes or kills meanwhile, an active sandbox that is   *)
(* not being killed reports every turn whose cost was recorded, across the *)
(* agents it went through, when no restart of an agent was interrupted.    *)
THEOREM CostSurvivesRestarts ==
  ASSUME "exhausted" \notin Faults
  PROVE  Spec => []CostKept
<1>1. SdkInv /\ CostInv /\ [Next]_vars => CostInv'
  BY CallsCost, ResumesCost, TurnsCost, OthersCost DEF Next
<1>2. CostInv => CostKept
  BY DEF CostInv, CostKept, HandedOver, Live, KillSteps, Terminal, RestartSteps
<1> QED
  BY <1>1, <1>2, InitKeeps, InitCost, StepKeeps, PTL DEF Spec

-----------------------------------------------------------------------------
(* The sandbox uses its provider one call at a time.                       *)

LEMMA CallsProvide ==
  ASSUME NEW c \in Callers, Setup(c) \/ Call(c) \/ End(c) \/ CallerStep(c)
  PROVE  [ProviderNext]_pvars
  BY DEF Setup, Call, End, CallerStep, Create, Created, Steps, Pause, Suspend, PauseReturn,
         Kill, Destroy, Destroyed, Resumed, ProviderNext

LEMMA ResumesProvide ==
  ASSUME NEW p \in Tasks, ResumeStep(p)
  PROVE  [ProviderNext]_pvars
  BY DEF ResumeStep, Resume, Connect, Connected, Probe, ProbeDead, SandboxDead, ProviderNext

LEMMA TurnsProvide ==
  ASSUME Turn \/ TurnStep
  PROVE  [ProviderNext]_pvars
  BY DEF Turn, TurnStep, TurnResumed, Start, Prompt, TurnExtends, Result, TurnFails, RecordCost,
         Poll, OnSandboxDead, EnsureReady, EnsureProcess, SendPrompt, SandboxDead, TurnRaises,
         ProviderNext

LEMMA OthersProvide ==
  ASSUME WakeUp \/ Passes \/ Expires \/ NetworkUp \/ Disappears \/ UNCHANGED vars
  PROVE  [ProviderNext]_pvars
  BY DEF WakeUp, Passes, Expires, NetworkUp, Disappears, vars, ProviderNext

(* Every behaviour of a sandbox is one of the provider: nothing it does    *)
(* goes past the provider's own calls.                                     *)
THEOREM SandboxUsesProvider == Spec => ProviderSpec
<1>1. Init => ProviderInit
  BY DEF Init
<1>2. [Next]_vars => [ProviderNext]_pvars
  BY CallsProvide, ResumesProvide, TurnsProvide, OthersProvide DEF Next
<1> QED
  BY <1>1, <1>2, PTL DEF Spec, ProviderSpec

(* So the extensions that a sandbox's turns ask for add time.              *)
THEOREM SandboxExtensionsAddTime == Spec => ExtensionAddsTime
  BY SandboxUsesProvider, ExtensionsAddTime
=============================================================================
