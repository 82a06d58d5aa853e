------------------------ MODULE MCWorkspaceLifecycle ------------------------
(* WorkspaceLifecycle on small instances; each .cfg picks the requests and *)
(* the faults of one question.                                             *)
EXTENDS WorkspaceLifecycle

NoFaults == {}
ResumeFaults == {"turn", "resume"}
AllFaults == FaultKinds
=============================================================================
