---------------------------- MODULE MCAgentTurns ----------------------------
(* Instances of AgentTurns for TLC.                                        *)
EXTENDS AgentTurns, TLC

CONSTANTS t1, t2, t3, t4, c1, c2

(* Two turns of one conversation and one of another.                       *)
TwoAndOne == (t1 :> c1) @@ (t2 :> c1) @@ (t3 :> c2)

(* Two turns of each conversation.                                         *)
TwoAndTwo == (t1 :> c1) @@ (t2 :> c1) @@ (t3 :> c2) @@ (t4 :> c2)

SequentialFaults == {"spawn", "stdin", "exit", "exhausted"}
ConcurrentFaults == {"stdin", "exit", "abort"}
=============================================================================
