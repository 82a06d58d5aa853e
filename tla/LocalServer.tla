----------------------------- MODULE LocalServer -----------------------------
(***************************************************************************)
(* hbox sessions of one user and the API servers they attach to, spawn and *)
(* stop: ServerManager, the REPL around it, and the start of a server,     *)
(* which runs the migrations of the database all of them share.            *)
(*                                                                         *)
(* A session spawns at most one server, so that server has its name.       *)
(***************************************************************************)
EXTENDS Naturals, FiniteSets

CONSTANTS
  MaxSessions,  \* runs of the hbox command, numbered as they start
  AtOnce,       \* runs at a time
  MaxPort,      \* preferred port and the tries after it
  Version,      \* the schema version of the database before them
  None, Torn    \* no server.json; server.json truncated and not yet written

Ports == 1..MaxPort
Sessions == 1..MaxSessions

ASSUME LocalServerAssumption ==
  /\ {MaxPort, MaxSessions, AtOnce} \subseteq Nat /\ Version \in 0..8
  /\ None # Torn /\ {None, Torn} \cap [pid : Sessions, port : Ports \cup {None}] = {}

VARIABLES
  record,      \* server.json
  hbox,        \* hbox[h]: where session h is
  seen,        \* seen[h]: the record session h read, while it uses it
  port,        \* port[s]: the port server s was told to use
  listens,     \* listens[s]: the port it is bound to
  schema, version, row, phase, at, crowded,   \* the database: see Migrations
  disturbed    \* history: overlapping sessions, a slow probe, an interrupt

DB == INSTANCE Migrations WITH Servers <- Sessions, StartVersions <- {Version},
        LegacyStatuses <- {"active"}, disturbed <- crowded

dbVars == <<schema, version, row, phase, at, crowded>>
serverVars == <<port, listens, dbVars>>
vars == <<record, hbox, seen, serverVars, disturbed>>

Ensuring == {"probe", "spawn", "wait", "torn"}
Stopping == {"stop", "stopping"}
Busy == Ensuring \cup Stopping
Over == {"left", "exited", "timeout"}

Live(s) == port[s] # None /\ phase[s] \notin {"failed", "dead"}
Answers(p) == \E s \in Sessions : listens[s] = p

(* kill(pid, 0): the child of a session is never waited for, so that its    *)
(* pid stays with its zombie as long as the session runs.                  *)
PidAlive(s) == Live(s) \/ (port[s] # None /\ hbox[s] \notin Over)

Recorded(r) == r \notin {None, Torn} /\ PidAlive(r.pid)

Overlaps(h) == \E g \in Sessions \ {h} : hbox[g] \in Busy

Init ==
  /\ record = None
  /\ hbox = [h \in Sessions |-> "off"]
  /\ seen = [h \in Sessions |-> None]
  /\ port = [s \in Sessions |-> None] /\ listens = [s \in Sessions |-> None]
  /\ DB!Init
  /\ disturbed = FALSE

Goto(h, place) == hbox' = [hbox EXCEPT ![h] = place]
Forget(h) == seen' = [seen EXCEPT ![h] = None]

-----------------------------------------------------------------------------
(* ensure(): attach to the recorded server.                                *)

Open(h) == hbox[h] \notin Over \cup {"off"}

(* Variant: a server of another session is not attached to. *)
ReadRecordOwn(h) ==
  /\ hbox[h] = "off" /\ \A g \in 1..h - 1 : hbox[g] # "off"
  /\ Cardinality({g \in Sessions : Open(g)}) < AtOnce
  /\ disturbed' = (disturbed \/ Overlaps(h))
  /\ Goto(h, "spawn")
  /\ UNCHANGED <<record, seen, serverVars>>

ReadRecord(h) ==
  /\ hbox[h] = "off" /\ \A g \in 1..h - 1 : hbox[g] # "off"
  /\ Cardinality({g \in Sessions : Open(g)}) < AtOnce
  /\ disturbed' = (disturbed \/ Overlaps(h))
  /\ seen' = [seen EXCEPT ![h] = IF Recorded(record) THEN record ELSE None]
  /\ \/ record \in {None, Torn} /\ Goto(h, "spawn") /\ UNCHANGED record
     \/ Recorded(record) /\ Goto(h, "probe") /\ UNCHANGED record
     \/ record \notin {None, Torn} /\ ~Recorded(record) /\ Goto(h, "spawn") /\ record' = None
  /\ UNCHANGED serverVars

Attach(h) ==
  /\ hbox[h] = "probe" /\ Answers(seen[h].port)
  /\ Goto(h, "running")
  /\ Forget(h)
  /\ UNCHANGED <<record, serverVars, disturbed>>

(* No answer within a second, from a live server or a dead one: the record *)
(* goes, the process stays.                                                *)
ProbeFails(h) ==
  /\ hbox[h] = "probe"
  /\ record' = None
  /\ Goto(h, "spawn")
  /\ Forget(h)
  /\ disturbed' = (disturbed \/ Live(seen[h].pid))
  /\ UNCHANGED serverVars

(* ensure(): spawn a server and wait until its port answers.               *)

FreePorts == {p \in Ports : ~Answers(p)}

Spawn(h) ==
  /\ hbox[h] = "spawn" /\ FreePorts # {}
  /\ port' = [port EXCEPT ![h] = CHOOSE p \in FreePorts : \A q \in FreePorts : p <= q]
  /\ Goto(h, "wait")
  /\ UNCHANGED <<record, seen, listens, dbVars, disturbed>>

(* No port is free, or the process cannot be started.                      *)
SpawnFails(h) ==
  /\ hbox[h] = "spawn"
  /\ Goto(h, "exited")
  /\ UNCHANGED <<record, seen, serverVars, disturbed>>

(* The record is written in two steps: write_text truncates, then writes.  *)
Poll(h) ==
  /\ hbox[h] = "wait"
  /\ IF PidAlive(h)
       THEN Answers(port[h]) /\ Goto(h, "torn") /\ record' = Torn
       ELSE Goto(h, "exited") /\ UNCHANGED record
  /\ UNCHANGED <<seen, serverVars, disturbed>>

WriteRecord(h) ==
  /\ hbox[h] = "torn"
  /\ record' = [pid |-> h, port |-> port[h]]
  /\ Goto(h, "running")
  /\ UNCHANGED <<seen, serverVars, disturbed>>

(* SIGKILL, or the end of a process for whatever reason.                   *)
Ends(s) ==
  /\ listens' = [listens EXCEPT ![s] = None]
  /\ DB!Die(s)

Kill(s) == IF Live(s) THEN Ends(s) ELSE UNCHANGED <<listens, dbVars>>

(* Variant: no cleanup after the deadline. *)
GiveUpLeaving(h) ==
  /\ hbox[h] = "wait"
  /\ record' = None
  /\ Goto(h, "timeout")
  /\ UNCHANGED <<seen, serverVars, disturbed>>

(* Variant: a live server is waited for however long it takes. *)
GiveUpExited(h) ==
  /\ hbox[h] = "wait" /\ ~Live(h)
  /\ record' = None
  /\ Goto(h, "timeout")
  /\ UNCHANGED <<seen, serverVars, disturbed>>

(* The 15 seconds are over.                                                *)
GiveUp(h) ==
  /\ hbox[h] = "wait"
  /\ Kill(h)
  /\ record' = None
  /\ Goto(h, "timeout")
  /\ UNCHANGED <<seen, port, disturbed>>

Ensure(h) ==
  \/ ReadRecord(h) \/ Attach(h) \/ ProbeFails(h) \/ Spawn(h)
  \/ SpawnFails(h) \/ Poll(h) \/ WriteRecord(h) \/ GiveUp(h)

-----------------------------------------------------------------------------
(* The session: the REPL ends at the end of its input, or with /exit, which *)
(* stops the recorded server, its own or not.                              *)

Quit(h) ==
  /\ hbox[h] = "running"
  /\ Goto(h, "left")
  /\ UNCHANGED <<record, seen, serverVars, disturbed>>

Exit(h) ==
  /\ hbox[h] = "running"
  /\ Goto(h, "stop")
  /\ disturbed' = (disturbed \/ Overlaps(h))
  /\ UNCHANGED <<record, seen, serverVars>>

StopNothing(h) ==
  /\ hbox[h] = "stop" /\ ~Recorded(record)
  /\ record' = None
  /\ Goto(h, "left")
  /\ UNCHANGED <<seen, serverVars, disturbed>>

StopRecorded(h) ==
  /\ hbox[h] = "stop" /\ Recorded(record)
  /\ seen' = [seen EXCEPT ![h] = record]
  /\ Goto(h, "stopping")
  /\ UNCHANGED <<record, port, listens, dbVars, disturbed>>

(* Variant: no SIGKILL after the 5 seconds. *)
StopWaitedOnce(h) ==
  /\ hbox[h] = "stopping"
  /\ record' = None
  /\ Goto(h, "left")
  /\ Forget(h)
  /\ UNCHANGED <<serverVars, disturbed>>

(* SIGTERM has ended it (see Stops), or SIGKILL does after 5 seconds.       *)
StopWaited(h) ==
  /\ hbox[h] = "stopping"
  /\ Kill(seen[h].pid)
  /\ record' = None
  /\ Goto(h, "left")
  /\ Forget(h)
  /\ UNCHANGED <<port, disturbed>>

(* Ctrl-C while ensure() or stop() runs is caught by nobody.               *)
Interrupt(h) ==
  /\ hbox[h] \in Busy
  /\ Goto(h, "left")
  /\ Forget(h)
  /\ disturbed' = TRUE
  /\ UNCHANGED <<record, serverVars>>

Stop(h) == StopNothing(h) \/ StopRecorded(h) \/ StopWaited(h)

-----------------------------------------------------------------------------
(* A server: the lifespan opens the database, then uvicorn binds the port   *)
(* or, when another server has it, exits.                                  *)

Migrate(s) ==
  /\ Live(s)
  /\ DB!RunMigrations(s)
  /\ UNCHANGED <<record, hbox, seen, port, listens, disturbed>>

Bind(s) ==
  /\ Live(s) /\ phase[s] = "serving" /\ listens[s] = None
  /\ IF Answers(port[s])
       THEN Ends(s)
       ELSE listens' = [listens EXCEPT ![s] = port[s]] /\ UNCHANGED dbVars
  /\ UNCHANGED <<record, hbox, seen, port, disturbed>>

(* A SIGTERM is obeyed, or the server crashes.                             *)
Stops(s) ==
  /\ Live(s)
  /\ Ends(s)
  /\ UNCHANGED <<record, hbox, seen, port, disturbed>>

Server(s) == Migrate(s) \/ Bind(s) \/ Stops(s)

-----------------------------------------------------------------------------
Done == (\A h \in Sessions : hbox[h] \in Over \cup {"running"}) /\ UNCHANGED vars

Next ==
  \/ \E h \in Sessions : Ensure(h) \/ Quit(h) \/ Exit(h) \/ Stop(h) \/ Interrupt(h)
  \/ \E s \in Sessions : Server(s)
  \/ Done

Spec == Init /\ [][Next]_vars

(* A session that has begun ensure() or stop() goes on: both run in the     *)
(* foreground, and each of their loops has a deadline.                     *)
Goes(h) == (hbox[h] # "off" /\ Ensure(h)) \/ Stop(h)
FairSpec == Spec /\ \A h \in Sessions : WF_vars(Goes(h))

-----------------------------------------------------------------------------
Records == [pid : Sessions, port : Ports]

TypeOK ==
  /\ record \in Records \cup {None, Torn}
  /\ hbox \in [Sessions -> Busy \cup Over \cup {"off", "running"}]
  /\ seen \in [Sessions -> Records \cup {None, Torn}]
  /\ port \in [Sessions -> Ports \cup {None}]
  /\ listens \in [Sessions -> Ports \cup {None}]
  /\ phase \in [Sessions -> {"off", "migrating", "serving", "failed", "dead"}]
  /\ disturbed \in BOOLEAN

Awaited(s) == hbox[s] \in {"wait", "torn"}
BeingStopped(s) == \E h \in Sessions : hbox[h] = "stopping" /\ seen[h].pid = s

(* What the cleanup after the deadline is for, "so we do not leave orphans  *)
(* + stale json": every server is recorded, or the session that spawned it *)
(* is waiting for it, or a session is stopping it.                         *)
NoOrphan ==
  \A s \in Sessions : Live(s) =>
    (record \notin {None, Torn} /\ record.pid = s) \/ Awaited(s) \/ BeingStopped(s)

NoOrphanUndisturbed == disturbed \/ NoOrphan

(* The sessions of one user share one server.                              *)
OneServer == disturbed \/ Cardinality({s \in Sessions : Live(s)}) <= 1

(* The record of ensure() is that of a server that bound its port, "spawn  *)
(* (bind-then-record)": the one that answered the probe is the one spawned. *)
(* It does not hold (see README.md).                                       *)
RightServer ==
  [][\A h \in Sessions :
       hbox[h] = "wait" /\ hbox'[h] = "torn" => listens[h] = port[h]]_vars

(* After /exit no server is left.                                          *)
ExitStops ==
  [][\A h \in Sessions : ~disturbed /\ hbox[h] \in Stopping /\ hbox'[h] = "left" =>
       disturbed' \/ \A s \in Sessions : ~Live(s)']_vars

(* ensure() returns a server or fails, and /exit comes to its end.         *)
EnsureReturns ==
  \A h \in Sessions : (hbox[h] \in Busy) ~> (hbox[h] \notin Busy)

(* "Local server exited before becoming ready": an ensure() whose server   *)
(* has exited says so and does not wait for its deadline.  It does not     *)
(* hold (see README.md).                                                   *)
EarlyExitReported ==
  [][\A h \in Sessions : hbox[h] = "wait" /\ hbox'[h] = "timeout" => Live(h)]_vars
=============================================================================
