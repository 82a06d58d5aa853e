---------------------------- MODULE RuntimeState ----------------------------
(***************************************************************************)
(* The contract of a workspace's runtime state: the seven states of        *)
(* lifecycle.RuntimeState and the only transitions lifecycle.py allows     *)
(* between them.  This is the abstract specification that the workspace    *)
(* lifecycle (registry, idle orchestrator and prompt router together) is   *)
(* checked to implement: the registry assigns runtime_state in a dozen     *)
(* places and consults the table in only one of them (prepare_retry).      *)
(***************************************************************************)

VARIABLE runtime_state

RuntimeStates ==
    {"starting", "active", "paused", "dying", "ended", "dead", "error"}

(* The states that may follow each state.  "ended" and "dead" are          *)
(* terminal; "error" leaves only through a retry.                          *)
ValidRuntimeTransitions ==
    [ starting |-> {"active", "dead", "error"},
      active   |-> {"paused", "dying", "dead"},
      paused   |-> {"active", "dying", "dead"},
      dying    |-> {"ended", "dead"},
      ended    |-> {},
      dead     |-> {},
      error    |-> {"starting"} ]

ValidateRuntimeTransition(current, target) ==
    target \in ValidRuntimeTransitions[current]

(* A workspace record enters memory by registration ("starting") or is     *)
(* loaded from storage in the state it was saved in.                       *)
Init == runtime_state \in RuntimeStates

Next ==
    /\ runtime_state' \in RuntimeStates
    /\ ValidateRuntimeTransition(runtime_state, runtime_state')

Spec == Init /\ [][Next]_runtime_state
=============================================================================
