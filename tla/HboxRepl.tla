------------------------------ MODULE HboxRepl ------------------------------
(***************************************************************************)
(* hbox terminals at work: the REPL (hbox/app.py), the HTTP client it      *)
(* calls (client.py) and the workspaces of the server they talk to.  A     *)
(* REPL keeps a workspace id and the runtime state it last heard of; the   *)
(* server's workspaces change under it by provisioning, by the idle        *)
(* countdown, by other clients and by restarts.                            *)
(*                                                                         *)
(* Creating a workspace is a POST that is answered at once, and then a     *)
(* stream of events that the client reads until one says "active".  Pause, *)
(* resume and stop are single steps here: WorkspaceLifecycle takes them    *)
(* apart, EventLog does so for the stream of events.                       *)
(*                                                                         *)
(* A definition whose comment starts with "Variant" is a wrong form of the *)
(* definition below it, kept to show that a property would notice it.      *)
(***************************************************************************)
EXTENDS Integers

CONSTANTS
    Repls,          (* hbox terminals                                      *)
    MaxWorkspaces,  (* bound on the ids the server mints                   *)
    Branches,       (* what /add-repo may be given as --branch             *)
    MaxTrouble,     (* bound on what other clients do and what fails       *)
    MaxRestarts,    (* bound on the restarts of the server                 *)
    Main,           (* the default branch                                  *)
    NoRepo,         (* no /add-repo yet; the label of a workspace without  *)
    None            (* no workspace                                        *)

Workspaces == 1..MaxWorkspaces      (* numbered as they are minted *)

ASSUME NamesAssumption ==
    /\ None \notin Workspaces
    /\ Main \notin Branches
    /\ NoRepo \notin Branches \cup {Main}

ASSUME BoundsAssumption == {MaxWorkspaces, MaxTrouble, MaxRestarts} \subseteq Nat

VARIABLES
    state,      (* runtime_state in the registry, "none" without an entry  *)
    minted,     (* how many ids were given out                             *)
    label,      (* the branch of a workspace                               *)
    connected,  (* WorkspaceInstance.sandbox_conn                          *)
    saving,     (* provisioned, but save_workspace has not been called yet *)
    row,        (* the workspace has a row                                 *)
    ring,       (* the buffer has the "active" event of the provisioning   *)
    later,      (* stored events, all of them numbered after that one      *)
    turns,      (* clients whose turn is running                           *)
    leaked,     (* a turn was counted that will never be given back        *)
    timer,      (* the idle countdown runs                                 *)
    wid,        (* ReplState.workspace_id                                  *)
    cached,     (* ReplState.runtime_state                                 *)
    branch,     (* ReplState.branch, NoRepo before repo_url is set         *)
    making,     (* the workspace create_workspace waits for                *)
    texting,    (* the command is a bare text, to be sent when there is    *)
                (* a workspace                                             *)
    heard,      (* what the client's event stream has for it               *)
    pc,         (* where each REPL is                                      *)
    trouble,
    restarts

workspaceVars == <<state, minted, label, connected, saving, row>>
eventVars == <<ring, later>>
turnVars == <<turns, leaked, timer>>
serverVars == <<workspaceVars, eventVars, turnVars>>
replVars == <<wid, cached, branch, making, texting, heard, pc>>
bounds == <<trouble, restarts>>
vars == <<serverVars, replVars, bounds>>

Other == "other"        (* a client that is not a REPL *)

Set(f, x, v) == [f EXCEPT ![x] = v]
Spend == trouble < MaxTrouble /\ trouble' = trouble + 1
Goto(r, step) == pc' = Set(pc, r, step)

-----------------------------------------------------------------------------
(* Events of a workspace.  The client of a stream that is live hears of    *)
(* what is pushed, and of the end of the stream.                           *)

Tell(w, what) ==
    heard' = [r \in Repls |-> IF pc[r] = "live" /\ making[r] = w
                              THEN heard[r] \cup what ELSE heard[r]]

(* append_events: without a row the foreign key drops the event.           *)
Store(w, event) ==
    later' = IF row[w] THEN [later EXCEPT ![w] = @ \cup {event}] ELSE later

-----------------------------------------------------------------------------
(* The server's operations.                                                *)

(* register_workspace, and the 202 that answers POST /v1/workspaces/create *)
Register(w, l) ==
    /\ w = minted + 1
    /\ minted' = w
    /\ state' = Set(state, w, "starting")
    /\ label' = Set(label, w, l)
    /\ UNCHANGED <<connected, saving, row, eventVars, turnVars>>

(* provision_workspace up to the "active" event, which a live stream, the  *)
(* ring and, without a row, no table gets; or its failure.                 *)
Provision(w) ==
    /\ state[w] = "starting"
    /\ \/ /\ state' = Set(state, w, "active")
          /\ connected' = Set(connected, w, TRUE)
          /\ saving' = saving \cup {w}
          /\ ring' = ring \cup {w}
          /\ UNCHANGED trouble
       \/ /\ Spend
          /\ state' = Set(state, w, "error")
          /\ UNCHANGED <<connected, saving, ring>>
    /\ UNCHANGED <<minted, label, row, later, turnVars, replVars, restarts>>

(* UNIQUE(remote, branch); a workspace of the default branch gets a name   *)
(* of its own.                                                             *)
Taken(w) ==
    label[w] # Main /\ \E v \in Workspaces \ {w} : row[v] /\ label[v] = label[w]

(* save_workspace, whose failure is logged only, and the idle countdown.   *)
Save(w) ==
    /\ w \in saving
    /\ saving' = saving \ {w}
    /\ row' = Set(row, w, ~Taken(w))
    /\ timer' = Set(timer, w, state[w] = "active")
    /\ UNCHANGED <<state, minted, label, connected, eventVars, turns, leaked,
                   replVars, bounds>>

(* pause_workspace, once its drain is over.                                *)
PauseWorkspace(w) ==
    /\ state[w] = "active"
    /\ turns[w] = {} /\ ~leaked[w]
    /\ state' = Set(state, w, "paused")
    /\ Store(w, "other") /\ Tell(w, {"closed"})
    /\ timer' = Set(timer, w, FALSE)

(* registry.resume_workspace; after a restart it connects, without asking  *)
(* for the state (a dead machine may be made again from its snapshot), and *)
(* announces nothing.  Without a row it has resumed the machine and then   *)
(* raises, as a pause does: the client is told of a failure.               *)
Wake(w) ==
    /\ \/ connected[w] /\ state[w] = "paused"
       \/ ~connected[w] /\ state[w] # "none" /\ row[w]
    /\ state' = Set(state, w, "active")
    /\ connected' = Set(connected, w, TRUE)
    /\ IF connected[w]
       THEN Store(w, "active") /\ Tell(w, {"active"})
       ELSE UNCHANGED <<later, heard>>

(* Variant: nothing starts the idle countdown of a resumed workspace.      *)
ResumeUntimed(w) == Wake(w) /\ UNCHANGED timer

(* WorkspaceManager.resume_workspace also starts the countdown.            *)
ResumeWorkspace(w) == Wake(w) /\ timer' = Set(timer, w, row[w])

(* SessionRouter.prompt up to the event that repeats the prompt.  Touching *)
(* the row raises without one: after the turn was counted, and before the  *)
(* try that would give it back.                                            *)
AdmitTurn(w, client) ==
    /\ timer' = Set(timer, w, FALSE)
    /\ Store(w, "other")
    /\ turns' = IF row[w] THEN [turns EXCEPT ![w] = @ \cup {client}] ELSE turns
    /\ leaked' = Set(leaked, w, leaked[w] \/ ~row[w])

EndTurn(w, client) ==
    /\ client \in turns[w]
    /\ turns' = [turns EXCEPT ![w] = @ \ {client}]
    /\ timer' = Set(timer, w, turns[w] = {client} /\ ~leaked[w])

AutoPause(w) ==
    /\ timer[w]
    /\ PauseWorkspace(w)
    /\ UNCHANGED <<minted, label, connected, saving, row, ring, turns, leaked,
                   wid, cached, branch, making, texting, pc, bounds>>

(* A server that ends in order pauses what is active, whatever turns run.  *)
(* A pause that fails or takes too long is skipped, and a crash pauses     *)
(* nothing; all that a client can tell is whether the event is stored.     *)
GracefulShutdown ==
    \E paused \in SUBSET {w \in Workspaces : state[w] = "active" /\ connected[w]} :
        later' = [w \in Workspaces |-> IF w \in paused /\ row[w]
                                       THEN later[w] \cup {"other"} ELSE later[w]]

(* load_workspaces: the state of a workspace of the next server.           *)
Loaded(w) ==
    CASE ~row[w] -> "none"
      [] row[w] /\ state[w] = "active" -> "paused"
      [] row[w] /\ state[w] = "none" -> "dead"
      [] OTHER -> state[w]

(* The next server has the rows, and no machine is connected; every stream *)
(* and request breaks.                                                     *)
Restart ==
    /\ restarts < MaxRestarts
    /\ restarts' = restarts + 1
    /\ GracefulShutdown
    /\ state' = [w \in Workspaces |-> Loaded(w)]
    /\ connected' = [w \in Workspaces |-> FALSE]
    /\ saving' = {}
    /\ ring' = {}
    /\ turns' = [w \in Workspaces |-> {}]
    /\ leaked' = [w \in Workspaces |-> FALSE]
    /\ timer' = [w \in Workspaces |-> FALSE]
    /\ LET broken == {r \in Repls : pc[r] \in {"poll", "live", "admit", "turn"}}
       IN  /\ pc' = [r \in Repls |-> IF r \in broken THEN "prompt" ELSE pc[r]]
           /\ making' = [r \in Repls |-> IF r \in broken THEN None ELSE making[r]]
           /\ texting' = [r \in Repls |-> texting[r] /\ r \notin broken]
    /\ heard' = [r \in Repls |-> {}]
    /\ UNCHANGED <<minted, label, row, wid, cached, branch, trouble>>

-----------------------------------------------------------------------------
(* Other clients of the same server.                                       *)

(* stop keeps the record as "dead", destroy forgets it; both push the      *)
(* event, close the buffer and take the workspace from the idle            *)
(* orchestrator.                                                           *)
OthersKill(w) ==
    /\ state[w] \in {"active", "paused"}
    /\ turns[w] = {}
    /\ Spend
    /\ \E left \in {"dead", "none"} : state' = Set(state, w, left)
    /\ Store(w, "dead")
    /\ Tell(w, {"dead", "closed"})
    /\ timer' = Set(timer, w, FALSE)
    /\ leaked' = Set(leaked, w, FALSE)
    /\ UNCHANGED <<minted, label, connected, saving, row, ring, turns,
                   wid, cached, branch, making, texting, pc, restarts>>

OthersPause(w) ==
    /\ Spend
    /\ PauseWorkspace(w)
    /\ UNCHANGED <<minted, label, connected, saving, row, ring, turns, leaked,
                   wid, cached, branch, making, texting, pc, restarts>>

OthersResume(w) ==
    /\ Spend
    /\ ResumeWorkspace(w)
    /\ UNCHANGED <<minted, label, saving, row, ring, turns, leaked,
                   wid, cached, branch, making, texting, pc, restarts>>

OthersPrompt(w) ==
    /\ state[w] = "active" /\ connected[w]
    /\ Other \notin turns[w]
    /\ Spend
    /\ AdmitTurn(w, Other)
    /\ UNCHANGED <<workspaceVars, ring, replVars, restarts>>

OthersTurnEnds(w) ==
    /\ EndTurn(w, Other)
    /\ UNCHANGED <<workspaceVars, eventVars, leaked, replVars, bounds>>

-----------------------------------------------------------------------------
(* HarnessBoxClient.create_workspace.                                      *)

Waits == {"subscribe", "poll", "live", "ended", "fetch"}
Creating(r) == pc[r] \in Waits

(* The next step of a creation, or the end of it.                          *)
Proceed(r, step) ==
    /\ Goto(r, step)
    /\ making' = IF step \in Waits THEN making ELSE Set(making, r, None)
    /\ texting' = IF step \in Waits THEN texting ELSE Set(texting, r, FALSE)
    /\ heard' = Set(heard, r, {})

GiveUp(r) == Proceed(r, "prompt") /\ UNCHANGED <<wid, cached>>

(* GET /v1/workspaces/{id} and _apply_workspace, whose branch nobody reads *)
(* once there is a workspace id; a bare text goes on.                      *)
Adopt(r) ==
    /\ wid' = Set(wid, r, making[r])
    /\ cached' = Set(cached, r, state[making[r]])
    /\ Proceed(r, IF texting[r] THEN "text" ELSE "prompt")

Read(r, step) == Proceed(r, step) /\ UNCHANGED <<wid, cached>>

(* What is stored is read first: it ends the wait, or else `otherwise'.    *)
Stored(r, w, otherwise) ==
    Read(r, CASE "active" \in later[w] -> "fetch"
              [] "active" \notin later[w] /\ "dead" \in later[w] -> "prompt"
              [] OTHER -> otherwise)

(* replay_then_live from the start: after what is stored comes what the    *)
(* ring has after the last stored number, then what is pushed.             *)
Replay(r, w) ==
    Stored(r, w, IF later[w] = {} /\ w \in ring THEN "fetch" ELSE "live")

(* GET /v1/workspaces/{id}/events: not found, a buffer, a paused workspace *)
(* of a restarted server, whose stream ends, or one that is provisioned.   *)
Subscribe(r) ==
    LET w == making[r]
    IN  /\ pc[r] = "subscribe"
        /\ \/ state[w] = "none" /\ GiveUp(r)
           \/ state[w] # "none" /\ connected[w] /\ Replay(r, w)
           \/ state[w] = "paused" /\ ~connected[w] /\ Stored(r, w, "ended")
           \/ /\ state[w] \in {"starting", "error", "dead"} /\ ~connected[w]
              /\ Stored(r, w, "poll")
        /\ UNCHANGED <<serverVars, branch, bounds>>

(* Variant: only a buffer ends the wait.                                   *)
PollForBuffer(r) ==
    /\ pc[r] = "poll"
    /\ connected[making[r]] /\ Replay(r, making[r])
    /\ UNCHANGED <<serverVars, branch, bounds>>

(* Every half second: a buffer, or a state that will never have one.       *)
Poll(r) ==
    /\ pc[r] = "poll"
    /\ \/ connected[making[r]] /\ Replay(r, making[r])
       \/ ~connected[making[r]] /\ state[making[r]] \in {"error", "dead"} /\ GiveUp(r)
    /\ UNCHANGED <<serverVars, branch, bounds>>

Hear(r) ==
    /\ pc[r] = "live"
    /\ heard[r] # {}
    /\ Read(r, CASE "active" \in heard[r] -> "fetch"
                 [] "active" \notin heard[r] /\ "dead" \in heard[r] -> "prompt"
                 [] OTHER -> "ended")
    /\ UNCHANGED <<serverVars, branch, bounds>>

(* After the "active" event whatever GET answers is returned; after the    *)
(* end of the stream only an active workspace.                             *)
Fetch(r) ==
    LET found == state[making[r]]
    IN  /\ pc[r] \in {"fetch", "ended"}
        /\ IF found # "none" /\ (pc[r] = "fetch" \/ found = "active")
           THEN Adopt(r)
           ELSE GiveUp(r)
        /\ UNCHANGED <<serverVars, branch, bounds>>

(* asyncio.wait_for gives up; the workspace stays on the server.           *)
CreationTimesOut(r) ==
    /\ Creating(r)
    /\ Spend
    /\ GiveUp(r)
    /\ UNCHANGED <<serverVars, branch, restarts>>

AwaitActive(r) == Subscribe(r) \/ Poll(r) \/ Hear(r) \/ Fetch(r)

-----------------------------------------------------------------------------
(* Commands.                                                               *)

(* _create_workspace, up to the 202.                                       *)
BeginCreate(r, b, text) ==
    /\ \E w \in Workspaces : Register(w, b) /\ making' = Set(making, r, w)
    /\ texting' = Set(texting, r, text)
    /\ Goto(r, "subscribe")
    /\ UNCHANGED <<wid, cached, heard>>

(* A github remote needs credentials: without gh, a stored token or one     *)
(* that is typed in, the repository is only remembered.                    *)
Unauthorized ==
    UNCHANGED <<serverVars, wid, cached, making, texting, heard, pc>>

(* /add-repo *)
AddRepo(r) ==
    /\ pc[r] = "prompt"
    /\ \E b \in Branches \cup {Main} :
        /\ branch' = Set(branch, r, b)
        /\ BeginCreate(r, b, FALSE) \/ Unauthorized
    /\ UNCHANGED bounds

(* A line that is no command: without a workspace it creates one first.    *)
BareText(r) ==
    /\ pc[r] = "prompt"
    /\ IF wid[r] = None
       THEN BeginCreate(r, branch[r], TRUE)
       ELSE Goto(r, "text") /\ UNCHANGED <<serverVars, wid, cached, making, texting, heard>>
    /\ UNCHANGED <<branch, bounds>>

(* A workspace last seen paused is resumed before the text is sent; when   *)
(* that fails, or the server says it is not paused, the text is dropped.   *)
AutoResume(r) ==
    /\ pc[r] = "text"
    /\ cached[r] = "paused"
    /\ \/ /\ ResumeWorkspace(wid[r])
          /\ cached' = IF row[wid[r]] THEN Set(cached, r, "active") ELSE cached
          /\ Goto(r, IF row[wid[r]] THEN "send" ELSE "prompt")
          /\ UNCHANGED <<trouble, minted, label, saving, row, ring, turns, leaked>>
       \/ /\ \/ state[wid[r]] # "paused" /\ UNCHANGED trouble
             \/ Spend
          /\ Goto(r, "prompt")
          /\ UNCHANGED <<serverVars, cached, heard>>
    /\ UNCHANGED <<wid, branch, making, texting, restarts>>

NotPaused(r) ==
    /\ pc[r] = "text"
    /\ cached[r] # "paused"
    /\ Goto(r, "send")
    /\ UNCHANGED <<serverVars, wid, cached, branch, making, texting, heard, bounds>>

(* POST /v1/workspaces/{id}/prompt: ensure_sandbox resumes a paused        *)
(* workspace, without a countdown, or refuses what has ended.              *)
SendText(r) ==
    LET w == wid[r]
    IN  /\ pc[r] = "send"
        /\ \/ /\ state[w] = "paused"
              /\ Wake(w)
              /\ Goto(r, IF row[w] THEN "admit" ELSE "prompt")
              /\ UNCHANGED <<minted, label, saving, row, ring, turnVars>>
           \/ /\ state[w] = "active"
              /\ Goto(r, "admit")
              /\ UNCHANGED <<serverVars, heard>>
           \/ /\ state[w] \notin {"paused", "active"}
              /\ Goto(r, "prompt")
              /\ UNCHANGED <<serverVars, heard>>
        /\ UNCHANGED <<wid, cached, branch, making, texting, bounds>>

Admission(r) ==
    LET w == wid[r]
    IN  /\ pc[r] = "admit"
        /\ \/ /\ state[w] = "active"
              /\ AdmitTurn(w, r)
              /\ Goto(r, IF row[w] THEN "turn" ELSE "prompt")
           \/ /\ state[w] # "active"
              /\ Goto(r, "prompt")
              /\ UNCHANGED <<later, turnVars>>
        /\ UNCHANGED <<workspaceVars, ring, wid, cached, branch, making, texting,
                       heard, bounds>>

TurnEnds(r) ==
    /\ pc[r] = "turn"
    /\ EndTurn(wid[r], r)
    /\ Goto(r, "prompt")
    /\ UNCHANGED <<workspaceVars, eventVars, leaked, wid, cached,
                   branch, making, texting, heard, bounds>>

(* /pause and /resume, which fail in any other state.                      *)
CmdPauseResume(r) ==
    LET w == wid[r]
    IN  /\ pc[r] = "prompt"
        /\ w # None
        /\ \/ PauseWorkspace(w) /\ UNCHANGED connected
           \/ ResumeWorkspace(w)
        /\ cached' = IF row[w] THEN Set(cached, r, state'[w]) ELSE cached
        /\ UNCHANGED <<minted, label, saving, row, ring, turns, leaked,
                       wid, branch, making, texting, pc, bounds>>

(* /status: the only command that refreshes what the REPL knows.           *)
CmdStatus(r) ==
    /\ pc[r] = "prompt"
    /\ wid[r] # None
    /\ state[wid[r]] # "none"
    /\ cached' = Set(cached, r, state[wid[r]])
    /\ UNCHANGED <<serverVars, wid, branch, making, texting, heard, pc, bounds>>

Send(r) == AutoResume(r) \/ NotPaused(r) \/ SendText(r) \/ Admission(r)

-----------------------------------------------------------------------------
Init ==
    /\ state = [w \in Workspaces |-> "none"]
    /\ minted = 0
    /\ label = [w \in Workspaces |-> NoRepo]
    /\ connected = [w \in Workspaces |-> FALSE]
    /\ saving = {}
    /\ row = [w \in Workspaces |-> FALSE]
    /\ ring = {}
    /\ later = [w \in Workspaces |-> {}]
    /\ turns = [w \in Workspaces |-> {}]
    /\ leaked = [w \in Workspaces |-> FALSE]
    /\ timer = [w \in Workspaces |-> FALSE]
    /\ wid = [r \in Repls |-> None]
    /\ cached = [r \in Repls |-> "none"]
    /\ branch = [r \in Repls |-> NoRepo]
    /\ making = [r \in Repls |-> None]
    /\ texting = [r \in Repls |-> FALSE]
    /\ heard = [r \in Repls |-> {}]
    /\ pc = [r \in Repls |-> "prompt"]
    /\ trouble = 0
    /\ restarts = 0

Next ==
    \/ \E w \in Workspaces : Provision(w) \/ Save(w) \/ AutoPause(w)
    \/ \E w \in Workspaces :
        \/ OthersKill(w) \/ OthersPause(w) \/ OthersResume(w)
        \/ OthersPrompt(w) \/ OthersTurnEnds(w)
    \/ \E r \in Repls :
        \/ AwaitActive(r) \/ CreationTimesOut(r)
        \/ AddRepo(r) \/ BareText(r) \/ Send(r) \/ TurnEnds(r)
        \/ CmdPauseResume(r) \/ CmdStatus(r)
    \/ Restart

Spec == Init /\ [][Next]_vars

(* The server provisions, saves, fires its countdowns and ends its turns;  *)
(* a client goes on reading and sending.  A user goes on typing lines, and *)
(* may use other commands in between.  Timeouts need never fire.  A        *)
(* countdown of minutes may pause a workspace in the moment between the    *)
(* check of a prompt and its admission, but not every time.                *)
FairSpec ==
    /\ Spec
    /\ \A w \in Workspaces :
        WF_vars(Provision(w)) /\ WF_vars(Save(w)) /\ WF_vars(AutoPause(w))
            /\ WF_vars(OthersTurnEnds(w))
    /\ \A r \in Repls :
        /\ WF_vars(AwaitActive(r)) /\ WF_vars(Send(r)) /\ WF_vars(TurnEnds(r))
        /\ SF_vars(BareText(r))
        /\ SF_vars(pc[r] = "admit" /\ state[wid[r]] = "active" /\ Admission(r))

-----------------------------------------------------------------------------
(* An event was stored that is numbered after the "active" event of the    *)
(* provisioning, which never is.                                           *)
Overtaken(w) == later[w] # {}

(* Whoever creates a workspace is told what became of it, without waiting  *)
(* for the timeout: the stream of events shows it to a client that         *)
(* subscribes before, between or after any of the steps of provisioning,   *)
(* unless a later event is already stored.                                 *)
AnsweredUnlessOvertaken ==
    \A r \in Repls : Creating(r) ~> ~Creating(r) \/ Overtaken(making[r])

(* The same without the exception, which is what sessions.py promises: it  *)
(* does not hold (see README.md).                                          *)
CreationAnswered == \A r \in Repls : Creating(r) ~> ~Creating(r)

(* A user who goes on typing gets a text through to a workspace that could *)
(* take it, whatever the REPL last heard of its state, and whatever other  *)
(* clients did to it: a text the REPL drops because the workspace it takes *)
(* for paused is active gets through once the countdown has paused it.     *)
Usable(w) ==
    w # None /\ state[w] \in {"active", "paused"} /\ row[w] /\ ~leaked[w]
TextGetsThrough ==
    \A r \in Repls :
        Usable(wid[r]) ~> \/ pc[r] = "turn"
                          \/ ~Usable(wid[r])
                          \/ Creating(r) /\ Overtaken(making[r])
=============================================================================
