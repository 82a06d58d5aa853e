---------------------------- MODULE MCSdkSandbox ----------------------------
(* Two tasks that call and one that sends prompts, on one machine.         *)
EXTENDS SdkSandbox
=============================================================================
