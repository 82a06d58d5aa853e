-------------------------- MODULE LocalServer_proofs --------------------------
(***************************************************************************)
(* Theorems about LocalServer: for any number of sessions, at any number   *)
(* of a time, on a database of any version, the sessions of one user share *)
(* one server, no server is orphaned and /exit leaves none, until the      *)
(* sessions overlap, a live server misses a probe or Ctrl-C comes.         *)
(***************************************************************************)
EXTENDS LocalServer, FiniteSetTheorems, WellFoundedInduction, TLAPS

Shape ==
  /\ hbox \in [Sessions -> Busy \cup Over \cup {"off", "running"}]
  /\ DOMAIN seen = Sessions /\ DOMAIN phase = Sessions
  /\ port \in [Sessions -> Ports \cup {None}]
  /\ disturbed \in BOOLEAN

(* While nothing is disturbed: one session starts or stops a server at a   *)
(* time,                                                                   *)
OneBusy ==
  \A g, h \in Sessions : hbox[g] \in Busy /\ hbox[h] \in Busy => g = h

(* what it read of the record is still what the record says,               *)
SeenRecord ==
  \A h \in Sessions : hbox[h] \in {"probe", "stopping"} =>
    seen[h] = record /\ record \notin {None, Torn}

(* and no server but its own is alive when it spawns one.                  *)
Alone ==
  \A h, s \in Sessions : Live(s) => hbox[h] # "spawn" /\ (Awaited(h) => s = h)

Calm == OneBusy /\ SeenRecord /\ Alone /\ NoOrphan

LocalInv == Shape /\ (disturbed \/ Calm)

-----------------------------------------------------------------------------
(* Spawn's choice of a port is one: a set of ports has a smallest member.  *)
LEMMA SmallestPort ==
  ASSUME FreePorts # {}
  PROVE  (CHOOSE p \in FreePorts : \A q \in FreePorts : p <= q) \in Ports
<1>1. FreePorts \subseteq Nat /\ FreePorts \subseteq Ports
  BY LocalServerAssumption DEF FreePorts, Ports
<1>2. PICK p \in FreePorts : \A q \in FreePorts : ~ (<<q, p>> \in OpToRel(<, Nat))
  BY <1>1, NatLessThanWellFounded, WFMin
<1>3. ASSUME NEW q \in FreePorts PROVE p <= q
  <2>1. <<q, p>> \in OpToRel(<, Nat) <=> <<q, p>> \in {ss \in Nat \X Nat : ss[1] < ss[2]}
    BY Zenon DEF OpToRel
  <2>2. ~ (q < p)
    BY <1>1, <1>2, <2>1
  <2> QED
    BY <1>1, <2>2, SMT
<1> QED
  BY <1>1, <1>3

(* Every part of Calm is about fewer servers when servers only end.        *)
LEMMA FewerServers ==
  ASSUME Calm, UNCHANGED <<record, hbox, seen>>,
         \A s \in Sessions : Live(s)' => Live(s)
  PROVE  Calm'
  BY DEF Calm, OneBusy, SeenRecord, Alone, NoOrphan, Awaited, BeingStopped

(* A server that runs migrations, binds or ends makes no other one alive.  *)
LEMMA ServerStep ==
  ASSUME Shape, NEW s \in Sessions, Server(s)
  PROVE  /\ UNCHANGED <<record, hbox, seen, port, disturbed>>
         /\ DOMAIN phase' = Sessions
         /\ \A r \in Sessions : Live(r)' => Live(r)
<1>1. Live(s) /\ UNCHANGED <<record, hbox, seen, port, disturbed>>
  BY DEF Server, Migrate, Bind, Stops
<1>2. DOMAIN phase' = Sessions /\ \A r \in Sessions \ {s} : phase'[r] = phase[r]
  <2>1. CASE Migrate(s)
    BY <2>1 DEF Shape, Migrate, DB!RunMigrations, DB!Open, DB!Execute, DB!Commit, DB!Serve
  <2>2. CASE Bind(s)
    BY <2>2 DEF Shape, Bind, Ends, DB!Die, dbVars
  <2>3. CASE Stops(s)
    BY <2>3 DEF Shape, Stops, Ends, DB!Die
  <2> QED
    BY <2>1, <2>2, <2>3 DEF Server
<1> QED
  BY <1>1, <1>2 DEF Live

(* After a kill the server is not alive, and the others are what they were. *)
LEMMA Killed ==
  ASSUME Shape, NEW p, Kill(p), UNCHANGED port
  PROVE  /\ DOMAIN phase' = Sessions
         /\ \A s \in Sessions : Live(s)' => Live(s) /\ s # p
<1>1. CASE Live(p) /\ Ends(p)
  <2>1. phase' = [phase EXCEPT ![p] = "dead"]
    BY <1>1 DEF Ends, DB!Die
  <2> QED
    BY <2>1 DEF Live, Shape
<1>2. CASE ~Live(p) /\ UNCHANGED dbVars
  BY <1>2 DEF Live, Shape, dbVars
<1> QED
  BY <1>1, <1>2 DEF Kill

(* A session is undisturbed only if nothing disturbed the sessions before. *)
LEMMA Monotone == ASSUME LocalInv, [Next]_vars, ~disturbed' PROVE Calm
<1>1. disturbed \in BOOLEAN /\ (disturbed \/ Calm)
  BY DEF LocalInv, Shape
<1>2. ~disturbed
  <2> SUFFICES ASSUME disturbed PROVE disturbed'
    OBVIOUS
  <2>1. CASE UNCHANGED vars
    BY <2>1 DEF vars
  <2>2. ASSUME NEW h \in Sessions, Ensure(h) \/ Quit(h) \/ Exit(h) \/ Stop(h) \/ Interrupt(h)
        PROVE  disturbed'
    BY <2>2 DEF Ensure, ReadRecord, Attach, ProbeFails, Spawn, SpawnFails, Poll, WriteRecord,
       GiveUp, Quit, Exit, Stop, StopNothing, StopRecorded, StopWaited, Interrupt
  <2>3. ASSUME NEW s \in Sessions, Server(s) PROVE disturbed'
    BY <2>3 DEF Server, Migrate, Bind, Stops
  <2> QED
    BY <2>1, <2>2, <2>3 DEF Next, Done
<1> QED
  BY <1>1, <1>2

-----------------------------------------------------------------------------
Places == Busy \cup Over \cup {"off", "running"}

(* Where a session goes, and that the others stay.                         *)
LEMMA Moves ==
  ASSUME Shape, NEW h \in Sessions, NEW place \in Places, Goto(h, place)
  PROVE  /\ hbox' \in [Sessions -> Places]
         /\ \A g \in Sessions : hbox'[g] = IF g = h THEN place ELSE hbox[g]
  BY DEF Shape, Goto, Places

(* A session's step moves it to a place it has, and leaves the tables of   *)
(* sessions and servers tables of sessions and servers.                    *)
LEMMA SessionShape ==
  ASSUME Shape, NEW h \in Sessions,
         Ensure(h) \/ Quit(h) \/ Exit(h) \/ Stop(h) \/ Interrupt(h)
  PROVE  Shape'
<1>1. \E place \in Places : Goto(h, place)
  BY Zenon DEF Ensure, ReadRecord, Attach, ProbeFails, Spawn, SpawnFails, Poll, WriteRecord,
     GiveUp, Quit, Exit, Stop, StopNothing, StopRecorded, StopWaited, Interrupt,
     Places, Busy, Ensuring, Stopping, Over
<1>2. hbox' \in [Sessions -> Places]
  BY <1>1, Moves
<1>3. DOMAIN seen' = Sessions
  BY Zenon DEF Shape, Ensure, ReadRecord, Attach, ProbeFails, Spawn, SpawnFails, Poll,
     WriteRecord, GiveUp, Quit, Exit, Stop, StopNothing, StopRecorded, StopWaited,
     Interrupt, Forget
<1>4. CASE Spawn(h)
  <2>1. port' \in [Sessions -> Ports \cup {None}]
    BY <1>4, SmallestPort DEF Spawn, Shape
  <2> QED
    BY <2>1, <1>2, <1>3, <1>4 DEF Spawn, Shape, Places, dbVars
<1>5. CASE GiveUp(h)
  BY <1>2, <1>3, <1>5, Killed DEF GiveUp, Shape, Places
<1>6. CASE StopWaited(h)
  BY <1>2, <1>3, <1>6, Killed DEF StopWaited, Shape, Places
<1>7. CASE ReadRecord(h) \/ Attach(h) \/ ProbeFails(h) \/ SpawnFails(h) \/ Poll(h)
           \/ WriteRecord(h) \/ Quit(h) \/ Exit(h) \/ StopNothing(h) \/ StopRecorded(h)
           \/ Interrupt(h)
  <2>1. UNCHANGED <<port, phase>> /\ disturbed' \in BOOLEAN
    BY <1>7, Zenon DEF Shape, ReadRecord, Attach, ProbeFails, SpawnFails, Poll, WriteRecord,
       Quit, Exit, StopNothing, StopRecorded, Interrupt, serverVars, dbVars
  <2> QED
    BY <2>1, <1>2, <1>3 DEF Shape, Places
<1> QED
  BY <1>4, <1>5, <1>6, <1>7 DEF Ensure, Stop

LEMMA ShapeStep == Shape /\ [Next]_vars => Shape'
<1> SUFFICES ASSUME Shape, [Next]_vars PROVE Shape'
  OBVIOUS
<1>1. CASE UNCHANGED vars
  BY <1>1 DEF vars, serverVars, dbVars, Shape
<1>2. ASSUME NEW h \in Sessions, Ensure(h) \/ Quit(h) \/ Exit(h) \/ Stop(h) \/ Interrupt(h)
      PROVE  Shape'
  BY <1>2, SessionShape
<1>3. ASSUME NEW s \in Sessions, Server(s) PROVE Shape'
  BY <1>3, ServerStep DEF Shape
<1> QED
  BY <1>1, <1>2, <1>3 DEF Next, Done

-----------------------------------------------------------------------------
(* Only one session is busy: whoever is spawning, awaited or stopping is it. *)
LEMMA BusyPlaces ==
  /\ \A h \in Sessions : hbox[h] = "spawn" \/ Awaited(h) \/ hbox[h] \in {"probe", "stop", "stopping"}
       => hbox[h] \in Busy
  BY DEF Awaited, Busy, Ensuring, Stopping

(* When a session other than the only busy one is not, a server lives by   *)
(* the record, by that session's wait or by its stop.                      *)
LEMMA Kept ==
  ASSUME Calm, NEW h \in Sessions, hbox[h] \in Busy
  PROVE  \A s \in Sessions : Live(s) =>
           \/ record \notin {None, Torn} /\ record.pid = s
           \/ s = h /\ Awaited(h)
  BY BusyPlaces DEF Calm, NoOrphan, OneBusy, SeenRecord, BeingStopped

(* An idle session that starts: the record is all there is to know.        *)
LEMMA KeptAlone ==
  ASSUME Calm, NEW h \in Sessions, hbox[h] \notin Busy, ~Overlaps(h)
  PROVE  \A s \in Sessions : hbox[s] \notin Busy /\
           (Live(s) => record \notin {None, Torn} /\ record.pid = s)
  BY BusyPlaces DEF Calm, NoOrphan, BeingStopped, Overlaps

LEMMA RecordedLive ==
  ASSUME NEW s \in Sessions, Live(s), record \notin {None, Torn}, record.pid = s
  PROVE  Recorded(record)
  BY DEF Recorded, PidAlive

(* What Calm needs of a step of the only busy session, of which the new     *)
(* state is known.                                                         *)
LEMMA CalmMove ==
  ASSUME Shape, NEW h \in Sessions, NEW place \in Places, Goto(h, place),
         \A g \in Sessions \ {h} : hbox[g] \notin Busy,
         place \in {"probe", "stopping"} => seen'[h] = record' /\ record' \notin {None, Torn},
         \A s \in Sessions : Live(s)' =>
           /\ place # "spawn"
           /\ place \in {"wait", "torn"} => s = h
           /\ \/ record' \notin {None, Torn} /\ record'.pid = s
              \/ s = h /\ place \in {"wait", "torn"}
              \/ place = "stopping" /\ seen'[h].pid = s
  PROVE  Calm'
<1>1. \A g \in Sessions : hbox'[g] = IF g = h THEN place ELSE hbox[g]
  BY Moves
<1>2. \A g \in Sessions \ {h} : hbox'[g] \notin {"spawn", "wait", "torn", "probe", "stopping"}
  BY <1>1 DEF Busy, Ensuring, Stopping
<1>3. OneBusy'
  BY <1>1 DEF OneBusy
<1>4. SeenRecord'
  BY <1>1, <1>2 DEF SeenRecord
<1>5. Alone'
  BY <1>1, <1>2 DEF Alone, Awaited
<1>6. NoOrphan'
  BY <1>1, <1>2 DEF NoOrphan, Awaited, BeingStopped
<1> QED
  BY <1>3, <1>4, <1>5, <1>6 DEF Calm

(* The steps that begin: ReadRecord and Exit, of an idle session.          *)
LEMMA BeginStep ==
  ASSUME Shape, Calm, ~disturbed', NEW h \in Sessions, ReadRecord(h) \/ Exit(h)
  PROVE  Calm'
<1>1. hbox[h] \notin Busy /\ ~Overlaps(h)
  BY DEF ReadRecord, Exit, Busy, Ensuring, Stopping
<1>2. \A s \in Sessions : hbox[s] \notin Busy /\
        (Live(s) => record \notin {None, Torn} /\ record.pid = s)
  BY <1>1, KeptAlone
<1>3. \A s \in Sessions : Live(s)' <=> Live(s)
  BY Zenon DEF ReadRecord, Exit, serverVars, dbVars, Live
<1>4. CASE Exit(h)
  <2>1. Goto(h, "stop") /\ UNCHANGED record /\ "stop" \in Places
    BY <1>4 DEF Exit, Places, Busy, Stopping
  <2> QED
    BY <2>1, <1>2, <1>3, CalmMove
<1>5. CASE ReadRecord(h) /\ Recorded(record)
  <2>1. Goto(h, "probe") /\ UNCHANGED record /\ "probe" \in Places
    BY <1>5, Zenon DEF ReadRecord, Recorded, Places, Busy, Ensuring
  <2>2. seen'[h] = record
    BY <1>5 DEF ReadRecord, Shape
  <2>3. record \notin {None, Torn}
    BY <1>5 DEF Recorded
  <2> QED
    BY <2>1, <2>2, <2>3, <1>2, <1>3, CalmMove
<1>6. CASE ReadRecord(h) /\ ~Recorded(record)
  <2>1. Goto(h, "spawn") /\ "spawn" \in Places
    BY <1>6, Zenon DEF ReadRecord, Recorded, Places, Busy, Ensuring
  <2>2. \A s \in Sessions : ~Live(s)'
    BY <1>2, <1>3, <1>6, RecordedLive
  <2> QED
    BY <2>1, <2>2, <1>2, CalmMove
<1> QED
  BY <1>4, <1>5, <1>6

(* A session that goes on is the only busy one.                            *)
LEMMA OnlyBusy ==
  ASSUME Calm, NEW h \in Sessions, hbox[h] \in Busy
  PROVE  \A g \in Sessions \ {h} : hbox[g] \notin Busy
  BY DEF Calm, OneBusy

(* The steps of ensure() after its beginning.                              *)
LEMMA EnsureStep ==
  ASSUME Shape, Calm, ~disturbed', NEW h \in Sessions,
         Attach(h) \/ ProbeFails(h) \/ Spawn(h) \/ SpawnFails(h) \/ Poll(h)
           \/ WriteRecord(h) \/ GiveUp(h)
  PROVE  Calm'
<1>1. hbox[h] \in Busy
  BY Zenon DEF Attach, ProbeFails, Spawn, SpawnFails, Poll, WriteRecord, GiveUp, Busy, Ensuring
<1>2. \A g \in Sessions \ {h} : hbox[g] \notin Busy
  BY <1>1, OnlyBusy
<1>3. \A s \in Sessions : Live(s) =>
        (record \notin {None, Torn} /\ record.pid = s) \/ (s = h /\ Awaited(h))
  BY <1>1, Kept
<1>4. \A s \in Sessions : Live(s) => hbox[h] # "spawn" /\ (Awaited(h) => s = h)
  BY DEF Calm, Alone
<1>5. {"running", "spawn", "wait", "torn", "exited", "timeout"} \subseteq Places
  BY DEF Places, Busy, Ensuring, Over
<1>6. CASE Attach(h)
  <2>1. Goto(h, "running") /\ UNCHANGED record /\ ~Awaited(h)
    BY <1>6 DEF Attach, Awaited
  <2>2. \A s \in Sessions : Live(s)' <=> Live(s)
    BY <1>6, Zenon DEF Attach, serverVars, dbVars, Live
  <2> QED
    BY <2>1, <2>2, <1>2, <1>3, <1>5, CalmMove
<1>7. CASE ProbeFails(h)
  <2>1. Goto(h, "spawn") /\ ~Awaited(h) /\ hbox[h] = "probe"
    BY <1>7 DEF ProbeFails, Awaited
  <2>2. seen[h] = record /\ ~Live(seen[h].pid)
    BY <1>7, <2>1 DEF ProbeFails, Calm, SeenRecord, Shape
  <2>3. \A s \in Sessions : Live(s)' <=> Live(s)
    BY <1>7, Zenon DEF ProbeFails, serverVars, dbVars, Live
  <2>4. \A s \in Sessions : ~Live(s)'
    BY <2>1, <2>2, <2>3, <1>3
  <2> QED
    BY <2>1, <2>4, <1>2, <1>5, CalmMove
<1>8. CASE Spawn(h)
  <2>1. Goto(h, "wait") /\ hbox[h] = "spawn"
    BY <1>8 DEF Spawn
  <2>2. \A s \in Sessions : Live(s)' => s = h
    BY <2>1, <1>4, <1>8 DEF Spawn, Live, dbVars, Shape
  <2> QED
    BY <2>1, <2>2, <1>2, <1>5, CalmMove
<1>9. CASE SpawnFails(h)
  <2>1. Goto(h, "exited") /\ hbox[h] = "spawn"
    BY <1>9 DEF SpawnFails
  <2>2. \A s \in Sessions : ~Live(s)'
    BY <2>1, <1>4, <1>9, Zenon DEF SpawnFails, serverVars, dbVars, Live
  <2> QED
    BY <2>1, <2>2, <1>2, <1>5, CalmMove
<1>10. CASE Poll(h)
  <2>1. Awaited(h)
    BY <1>10 DEF Poll, Awaited
  <2>2. \A s \in Sessions : (Live(s)' <=> Live(s)) /\ (Live(s)' => s = h)
    BY <2>1, <1>4, <1>10, Zenon DEF Poll, serverVars, dbVars, Live
  <2>3. CASE PidAlive(h)
    <3>1. Goto(h, "torn")
      BY <2>3, <1>10 DEF Poll
    <3> QED
      BY <3>1, <2>2, <1>2, <1>5, CalmMove
  <2>4. CASE ~PidAlive(h)
    <3>1. Goto(h, "exited")
      BY <2>4, <1>10 DEF Poll
    <3>2. \A s \in Sessions : ~Live(s)'
      BY <2>2, <2>4 DEF PidAlive
    <3> QED
      BY <3>1, <3>2, <1>2, <1>5, CalmMove
  <2> QED
    BY <2>3, <2>4
<1>11. CASE WriteRecord(h)
  <2>1. Goto(h, "running") /\ Awaited(h) /\ record' = [pid |-> h, port |-> port[h]]
    BY <1>11 DEF WriteRecord, Awaited
  <2>2. \A s \in Sessions : Live(s)' => s = h
    BY <2>1, <1>4, <1>11, Zenon DEF WriteRecord, serverVars, dbVars, Live
  <2>3. record'.pid = h /\ record' \notin {None, Torn}
    BY <2>1, LocalServerAssumption DEF Shape
  <2> QED
    BY <2>1, <2>2, <2>3, <1>2, <1>5, CalmMove
<1>12. CASE GiveUp(h)
  <2>1. Goto(h, "timeout") /\ Awaited(h) /\ Kill(h) /\ UNCHANGED port
    BY <1>12 DEF GiveUp, Awaited
  <2>2. \A s \in Sessions : ~Live(s)'
    BY <2>1, <1>4, Killed
  <2> QED
    BY <2>1, <2>2, <1>2, <1>5, CalmMove
<1> QED
  BY <1>6, <1>7, <1>8, <1>9, <1>10, <1>11, <1>12

(* What stop() leaves behind: nothing.                                     *)
LEMMA StopLeavesNone ==
  ASSUME Shape, Calm, NEW h \in Sessions, StopNothing(h) \/ StopWaited(h)
  PROVE  \A s \in Sessions : ~Live(s)'
<1>1. hbox[h] \in Busy /\ ~Awaited(h)
  BY DEF StopNothing, StopWaited, Busy, Stopping, Awaited
<1>2. \A s \in Sessions : Live(s) => record \notin {None, Torn} /\ record.pid = s
  BY <1>1, Kept
<1>3. CASE StopNothing(h)
  <2>1. \A s \in Sessions : Live(s)' <=> Live(s)
    BY <1>3, Zenon DEF StopNothing, serverVars, dbVars, Live
  <2> QED
    BY <2>1, <1>2, <1>3, RecordedLive DEF StopNothing
<1>4. CASE StopWaited(h)
  <2>1. Kill(seen[h].pid) /\ UNCHANGED port /\ seen[h] = record
    BY <1>4 DEF StopWaited, Calm, SeenRecord
  <2> QED
    BY <2>1, <1>2, Killed
<1> QED
  BY <1>3, <1>4

(* The steps of stop(), and the end of a session that stops nothing.       *)
LEMMA StopStep ==
  ASSUME Shape, Calm, ~disturbed', NEW h \in Sessions, Stop(h)
  PROVE  Calm'
<1>1. hbox[h] \in Busy /\ ~Awaited(h)
  BY DEF Stop, StopNothing, StopRecorded, StopWaited, Busy, Stopping, Awaited
<1>2. \A g \in Sessions \ {h} : hbox[g] \notin Busy
  BY <1>1, OnlyBusy
<1>3. {"left", "stopping"} \subseteq Places
  BY DEF Places, Busy, Stopping, Over
<1>4. CASE StopNothing(h) \/ StopWaited(h)
  <2>1. Goto(h, "left")
    BY <1>4 DEF StopNothing, StopWaited
  <2>2. \A s \in Sessions : ~Live(s)'
    BY <1>4, StopLeavesNone
  <2> QED
    BY <2>1, <2>2, <1>2, <1>3, CalmMove
<1>5. CASE StopRecorded(h)
  <2>1. Goto(h, "stopping") /\ UNCHANGED record /\ record \notin {None, Torn}
    BY <1>5 DEF StopRecorded, Recorded
  <2>2. seen'[h] = record
    BY <1>5 DEF StopRecorded, Shape
  <2>3. \A s \in Sessions : Live(s)' <=> Live(s)
    BY <1>5, Zenon DEF StopRecorded, serverVars, dbVars, Live
  <2>4. \A s \in Sessions : Live(s) => record.pid = s
    BY <1>1, Kept
  <2> QED
    BY <2>1, <2>2, <2>3, <2>4, <1>2, <1>3, CalmMove
<1> QED
  BY <1>4, <1>5 DEF Stop

LEMMA QuitStep ==
  ASSUME Calm, Shape, NEW h \in Sessions, Quit(h)
  PROVE  Calm'
<1>1. \A s \in Sessions : Live(s)' <=> Live(s)
  BY Zenon DEF Quit, serverVars, dbVars, Live
<1>2. "left" \in Places /\ Goto(h, "left") /\ hbox[h] = "running" /\ UNCHANGED <<record, seen>>
  BY DEF Quit, Places, Over
<1>3. \A g \in Sessions : hbox'[g] = IF g = h THEN "left" ELSE hbox[g]
  BY <1>2, Moves
<1> QED
  BY <1>1, <1>2, <1>3 DEF Calm, OneBusy, SeenRecord, Alone, NoOrphan, Awaited, BeingStopped,
     Busy, Ensuring, Stopping

-----------------------------------------------------------------------------
LEMMA LocalInitial == Init => LocalInv
  BY DEF Init, DB!Init, LocalInv, Shape, Calm, OneBusy, SeenRecord, Alone, NoOrphan, Live,
     Busy, Ensuring, Stopping

LEMMA LocalStep == LocalInv /\ [Next]_vars => LocalInv'
<1> SUFFICES ASSUME LocalInv, [Next]_vars PROVE LocalInv'
  OBVIOUS
<1>0. Shape /\ Shape'
  BY ShapeStep DEF LocalInv
<1> SUFFICES ASSUME ~disturbed' PROVE Calm'
  BY <1>0 DEF LocalInv
<1>1. Calm
  BY Monotone
<1>2. CASE UNCHANGED vars
  BY <1>1, <1>2, FewerServers DEF vars, serverVars, dbVars, Live
<1>3. ASSUME NEW h \in Sessions, Ensure(h) \/ Quit(h) \/ Exit(h) \/ Stop(h) \/ Interrupt(h)
      PROVE  Calm'
  <2>1. CASE ReadRecord(h) \/ Exit(h)
    BY <2>1, <1>0, <1>1, BeginStep
  <2>2. CASE Ensure(h) /\ ~ReadRecord(h)
    BY <2>2, <1>0, <1>1, EnsureStep DEF Ensure
  <2>3. CASE Stop(h)
    BY <2>3, <1>0, <1>1, StopStep
  <2>4. CASE Quit(h)
    BY <2>4, <1>0, <1>1, QuitStep
  <2>5. CASE Interrupt(h)
    BY <2>5 DEF Interrupt
  <2> QED
    BY <1>3, <2>1, <2>2, <2>3, <2>4, <2>5
<1>4. ASSUME NEW s \in Sessions, Server(s) PROVE Calm'
  BY <1>4, <1>0, <1>1, ServerStep, FewerServers
<1> QED
  BY <1>2, <1>3, <1>4 DEF Next, Done

LEMMA LocalSafe == Spec => []LocalInv
  BY LocalInitial, LocalStep, PTL DEF Spec

(* Every server is recorded, awaited by the session that spawned it or     *)
(* being stopped: what the cleanup after ensure()'s deadline is for.       *)
THEOREM NoServerOrphaned == Spec => []NoOrphanUndisturbed
<1>1. LocalInv => NoOrphanUndisturbed
  BY DEF LocalInv, Calm, NoOrphanUndisturbed
<1> QED
  BY <1>1, LocalSafe, PTL

(* The sessions of one user share one server: two that live would both be  *)
(* in the record, or one in the record of a session that awaits the other. *)
THEOREM SessionsShareServer == Spec => []OneServer
<1>1. LocalInv => OneServer
  <2> SUFFICES ASSUME Calm PROVE Cardinality({s \in Sessions : Live(s)}) <= 1
    BY DEF LocalInv, OneServer
  <2>1. ASSUME NEW r \in Sessions, NEW s \in Sessions, Live(r), Live(s) PROVE r = s
    <3>1. CASE \E h \in Sessions : Awaited(h)
      BY <2>1, <3>1 DEF Calm, Alone
    <3>2. CASE ~ \E h \in Sessions : Awaited(h)
      BY <2>1, <3>2 DEF Calm, NoOrphan, BeingStopped, SeenRecord
    <3> QED
      BY <3>1, <3>2
  <2>2. CASE {s \in Sessions : Live(s)} = {}
    BY <2>2, FS_EmptySet, SMT
  <2>3. CASE \E r : {s \in Sessions : Live(s)} = {r}
    BY <2>3, FS_Singleton, SMT
  <2> QED
    BY <2>1, <2>2, <2>3
<1> QED
  BY <1>1, LocalSafe, PTL

(* /exit, once it is through, leaves no server alive.                      *)
THEOREM ExitLeavesNoServer == Spec => ExitStops
<1>1. ASSUME LocalInv, [Next]_vars
      PROVE  \A h \in Sessions : ~disturbed /\ hbox[h] \in Stopping /\ hbox'[h] = "left" =>
               disturbed' \/ \A s \in Sessions : ~Live(s)'
  <2> SUFFICES ASSUME NEW h \in Sessions, ~disturbed, hbox[h] \in Stopping,
                      hbox'[h] = "left", ~disturbed'
               PROVE  \A s \in Sessions : ~Live(s)'
    OBVIOUS
  <2>1. Shape /\ Calm
    BY <1>1 DEF LocalInv
  <2>2. hbox[h] \in {"stop", "stopping"} /\ hbox'[h] # hbox[h]
    BY DEF Stopping
  <2>3. ASSUME NEW g \in Sessions, g # h, NEW place, Goto(g, place) PROVE FALSE
    BY <2>3, <2>2 DEF Goto, Shape
  <2>4. ASSUME NEW g \in Sessions, Ensure(g) \/ Quit(g) \/ Exit(g) \/ Stop(g) \/ Interrupt(g)
        PROVE  g = h
    BY <2>4, <2>3, Zenon DEF Ensure, ReadRecord, Attach, ProbeFails, Spawn, SpawnFails, Poll,
       WriteRecord, GiveUp, Quit, Exit, Stop, StopNothing, StopRecorded, StopWaited, Interrupt
  <2>5. Ensure(h) \/ Quit(h) \/ Exit(h) \/ Stop(h) \/ Interrupt(h)
    <3>1. UNCHANGED hbox => FALSE
      BY <2>2
    <3>2. ~ \E s \in Sessions : Server(s)
      BY <3>1, Zenon DEF Server, Migrate, Bind, Stops
    <3>3. ~ UNCHANGED vars
      BY <3>1 DEF vars
    <3> QED
      BY <1>1, <2>4, <3>2, <3>3 DEF Next, Done
  <2>6. StopNothing(h) \/ StopRecorded(h) \/ StopWaited(h) \/ Interrupt(h)
    BY <2>2, <2>5 DEF Ensure, ReadRecord, Attach, ProbeFails, Spawn, SpawnFails, Poll,
       WriteRecord, GiveUp, Quit, Exit, Stop
  <2>7. ~ Interrupt(h) /\ ~ StopRecorded(h)
    BY <2>1, <2>2 DEF Interrupt, StopRecorded, Goto, Shape
  <2> QED
    BY <2>1, <2>6, <2>7, StopLeavesNone
<1> QED
  BY <1>1, LocalSafe, PTL DEF Spec, ExitStops
===============================================================================
