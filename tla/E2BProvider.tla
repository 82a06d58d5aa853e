----------------------------- MODULE E2BProvider -----------------------------
(***************************************************************************)
(* One E2B machine and the provider object that drives it, whoever calls:  *)
(* the handle of _providers/e2b.py, the time the machine has left before   *)
(* E2B suspends it, and the extensions a long turn asks for.  Every call   *)
(* of the provider is a request that takes effect at E2B and a return that *)
(* changes the object; the two are steps of their own.                     *)
(*                                                                         *)
(* Time passes in whole units; no unit is shorter than a request.          *)
(***************************************************************************)
EXTENDS Naturals, Integers

CONSTANTS
  Timeout,      \* the timeout the provider was made with
  CreateTimeout,\* the timeout create() was told, for the machine
  ConnectTtl    \* the time E2B gives a machine that is connected to or woken

(* resume() connects without a timeout, so that E2B's default applies: the  *)
(* SDK's own default is the same 300 s.  Sandbox makes its provider with   *)
(* the timeout it then passes to create(); a provider of the caller's own  *)
(* may have been made with another one, here with none that is shorter.    *)
ASSUME TimeoutAssumption ==
  /\ Timeout \in Nat /\ Timeout > 0
  /\ {CreateTimeout, ConnectTtl} \subseteq 0..Timeout

VARIABLES
  handle,     \* self._sandbox is set
  machine,    \* what E2B holds: "none", "running", "paused" or "gone"
  egress,     \* the machine reaches the agent's API
  ttl,        \* time left before E2B suspends the running machine
  elapsed,    \* time since notify_turn_start, Idle between turns
  extended,   \* _extended_this_turn
  granted,    \* _total_extensions
  renewed     \* history: in this turn something else than an extension set ttl

pvars == <<handle, machine, egress, ttl, elapsed, extended, granted, renewed>>

Idle == -1
MaxExtra == 2 * Timeout

Smaller(a, b) == IF a < b THEN a ELSE b
Larger(a, b) == IF a < b THEN b ELSE a

ProviderInit ==
  /\ handle = FALSE /\ machine = "none" /\ egress = FALSE /\ ttl = 0
  /\ elapsed = Idle /\ extended = FALSE /\ granted = 0 /\ renewed = FALSE

-----------------------------------------------------------------------------
(* The machine.                                                            *)

Alive(left) ==
  /\ machine' = "running" /\ ttl' = left
  /\ renewed' = (renewed \/ elapsed # Idle)

CreateEffect ==
  /\ machine = "none"
  /\ Alive(CreateTimeout)
  /\ egress' = TRUE
  /\ UNCHANGED <<handle, elapsed, extended, granted>>

Suspended == machine' = "paused" /\ egress' = FALSE /\ ttl' = 0

PauseEffect ==
  /\ machine \in {"running", "paused"}
  /\ Suspended
  /\ UNCHANGED <<handle, elapsed, extended, granted, renewed>>

(* lifecycle: on_timeout "pause".                                          *)
AutoPause ==
  /\ machine = "running" /\ ttl = 0
  /\ Suspended
  /\ UNCHANGED <<handle, elapsed, extended, granted, renewed>>

(* lifecycle: auto_resume, when a request reaches a suspended machine.     *)
Wake ==
  /\ handle /\ machine = "paused"
  /\ Alive(ConnectTtl)
  /\ UNCHANGED <<handle, egress, elapsed, extended, granted>>

(* AsyncSandbox.connect: a running machine keeps the longer of the times.  *)
ConnectEffect ==
  /\ machine \in {"running", "paused"}
  /\ Alive(Larger(ttl, ConnectTtl))
  /\ UNCHANGED <<handle, egress, elapsed, extended, granted>>

KillEffect ==
  /\ machine # "none"
  /\ machine' = "gone" /\ egress' = FALSE /\ ttl' = 0
  /\ UNCHANGED <<handle, elapsed, extended, granted, renewed>>

EgressUp ==
  /\ machine = "running" /\ ~egress
  /\ egress' = TRUE
  /\ UNCHANGED <<handle, machine, ttl, elapsed, extended, granted, renewed>>

Lost ==
  /\ machine \in {"running", "paused"}
  /\ machine' = "gone" /\ egress' = FALSE /\ ttl' = 0
  /\ UNCHANGED <<handle, elapsed, extended, granted, renewed>>

Tick ==
  /\ machine = "running" => ttl > 0
  /\ ttl' = IF machine = "running" THEN ttl - 1 ELSE ttl
  /\ elapsed' = IF elapsed = Idle THEN Idle ELSE elapsed + 1
  /\ UNCHANGED <<handle, machine, egress, extended, granted, renewed>>

-----------------------------------------------------------------------------
(* The provider object.                                                    *)

CreateReturn ==
  /\ handle' = TRUE /\ granted' = 0 /\ extended' = FALSE
  /\ renewed' = (renewed \/ elapsed # Idle)
  /\ UNCHANGED <<machine, egress, ttl, elapsed>>

ConnectReturn ==
  /\ handle' = TRUE
  /\ UNCHANGED <<machine, egress, ttl, elapsed, extended, granted, renewed>>

(* pause() and kill() drop the handle of a machine the other left behind.  *)
DropHandle ==
  /\ handle' = FALSE
  /\ UNCHANGED <<machine, egress, ttl, elapsed, extended, granted, renewed>>

(* Variant: a turn that was not told to end keeps its time.                *)
NotifyTurnStartOnce ==
  /\ elapsed' = (IF elapsed = Idle THEN 0 ELSE elapsed) /\ extended' = FALSE
  /\ renewed' = FALSE
  /\ UNCHANGED <<handle, machine, egress, ttl, granted>>

NotifyTurnStart ==
  /\ elapsed' = 0 /\ extended' = FALSE /\ renewed' = FALSE
  /\ UNCHANGED <<handle, machine, egress, ttl, granted>>

NotifyTurnEnd ==
  /\ elapsed' = Idle /\ extended' = FALSE /\ renewed' = FALSE
  /\ UNCHANGED <<handle, machine, egress, ttl, granted>>

Extension == Smaller(Timeout \div 2, MaxExtra - granted)

Remaining == Larger(0, Timeout - elapsed)

ExtensionDue ==
  /\ handle /\ elapsed # Idle /\ ~extended
  /\ 2 * elapsed >= Timeout
  /\ granted < MaxExtra

(* maybe_extend_timeout, when set_timeout succeeds.                        *)
Extend ==
  /\ ExtensionDue /\ machine = "running"
  /\ ttl' = Remaining + Extension
  /\ granted' = granted + Extension /\ extended' = TRUE
  /\ UNCHANGED <<handle, machine, egress, elapsed, renewed>>

-----------------------------------------------------------------------------
ProviderNext ==
  \/ CreateEffect \/ PauseEffect \/ AutoPause \/ Wake \/ ConnectEffect
  \/ KillEffect \/ EgressUp \/ Lost \/ Tick
  \/ CreateReturn \/ ConnectReturn \/ DropHandle
  \/ NotifyTurnStart \/ NotifyTurnEnd \/ Extend

ProviderSpec == ProviderInit /\ [][ProviderNext]_pvars

ProviderTypeOK ==
  /\ handle \in BOOLEAN /\ egress \in BOOLEAN
  /\ machine \in {"none", "running", "paused", "gone"}
  /\ ttl \in 0..Timeout
  /\ elapsed \in Nat \cup {Idle}
  /\ extended \in BOOLEAN /\ renewed \in BOOLEAN
  /\ granted \in 0..MaxExtra

(* An extension never takes time from the machine: set_timeout replaces the *)
(* time that is left, which maybe_extend_timeout only estimates from the    *)
(* start of the turn ("so we don't accidentally shrink the sandbox TTL").   *)
(* It does when the machine was connected to or woken in mid-turn.          *)
ExtensionAddsTime == [][granted' > granted /\ ~renewed => ttl' >= ttl]_pvars
=============================================================================
