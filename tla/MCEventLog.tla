----------------------------- MODULE MCEventLog -----------------------------
(* EventLog on small instances.                                            *)
EXTENDS EventLog

ReaderFaults == {"leave", "close"}
AllFaults == FaultKinds
=============================================================================
