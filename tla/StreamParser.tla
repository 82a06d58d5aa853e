---------------------------- MODULE StreamParser ----------------------------
(***************************************************************************)
(* The stdout of one agent process, line by line: the CLI (outside) writes *)
(* NDJSON lines, stream_turn reads them during a turn and hands them to    *)
(* parse_line, which keeps a ParserState and makes the events a client     *)
(* sees; send_command reads them raw between turns for /context and /cost. *)
(*                                                                         *)
(* A line carries which input it answers and which content block it is     *)
(* about; the code does not see the first and knows the second only by the *)
(* block's index.  Both are there for the properties.                      *)
(***************************************************************************)
EXTENDS Naturals, Sequences, FiniteSets

CONSTANTS
  MaxTurns,      \* prompts sent
  MaxItems,      \* content blocks the CLI streams, over all turns
  MaxReplays,    \* slash command cycles the CLI repeats at the start of a turn
  MaxRetries,    \* API retries reported, over all turns
  MaxAhead,      \* lines in the queue at which the CLI waits for the reader
  ToolNames,     \* tools the model may call
  Faults,        \* subset of FaultKinds
  None

FaultKinds == {"late",       \* a status command or a turn runs into its timeout
               "exhausted"}  \* the CLI gives up after its last API retry

Indexes == 0..1
Items == 1..MaxItems
Kinds == ToolNames \cup {"text"}
Inputs == {"prompt", "context", "cost", "replay"} \X (1..MaxTurns)
LineTypes == {"init", "replay", "start", "delta", "assistant", "stop",
              "message_stop", "tool_result", "api_retry", "result"}

Lines == [type : LineTypes, of : Inputs, index : Indexes, block : Items \cup {None}]

ASSUME SettingsAssumption ==
  /\ {MaxTurns, MaxItems, MaxReplays, MaxRetries, MaxAhead} \subseteq Nat
  /\ "text" \notin ToolNames /\ Faults \subseteq FaultKinds
  /\ None \notin Kinds /\ None \notin Items /\ None \notin Inputs

VARIABLES
  turn,        \* prompts sent so far
  reader,      \* who reads stdout: a turn, a status command or nobody
  spawned,     \* the number of the first turn of the running process
  queue,       \* AgentProcess._stdout_queue
  inReplay, turnCount, blocks, tools,   \* ParserState
  event,       \* the last event made, with what its line was about
  started, finished,    \* history: items announced, items completed
  dropped,     \* history: items of messages the CLI started over
  endedBy,     \* history: the input whose result ended each turn
  behind,      \* history: a timeout left lines in the queue of this process
  stdin, task, stage, replays, retries,  \* the CLI and what it works on
  index, item, kindOf, pending           \* its message: next index, open block

parser == <<inReplay, turnCount, blocks, tools>>
history == <<started, finished, dropped>>
message == <<index, item, kindOf, pending>>
cli == <<stdin, task, stage, replays, retries, message>>
vars == <<turn, reader, spawned, queue, parser, event, history, endedBy, behind, cli>>

-----------------------------------------------------------------------------
(* The CLI.                                                                *)

Line(type, of, i, block) == [type |-> type, of |-> of, index |-> i, block |-> block]
Plain(type) == Line(type, task, 0, None)
Emit(lines) == Len(queue) < MaxAhead /\ queue' = queue \o lines
NextItem == Cardinality({b \in Items : kindOf[b] # None}) + 1

CliUnchanged == UNCHANGED <<turn, reader, spawned, parser, event, history, endedBy, behind>>

(* An input is taken up; from the second turn on the CLI may repeat the    *)
(* status commands of the turn before.                                     *)
CliTake ==
  /\ task = None /\ stdin # <<>>
  /\ task' = Head(stdin)
  /\ stdin' = Tail(stdin)
  /\ IF Head(stdin)[1] = "prompt"
       THEN /\ stage' = "turn"
            /\ \E n \in 0..(IF turn > spawned THEN MaxReplays ELSE 0) : replays' = n
            /\ Emit(<<Line("init", Head(stdin), 0, None)>>)
       ELSE /\ stage' = "command"
            /\ UNCHANGED replays
            /\ \/ Emit(<<Line("init", Head(stdin), 0, None)>>)
               \/ Emit(<<Line("init", Head(stdin), 0, None), Line("replay", Head(stdin), 0, None)>>)
  /\ UNCHANGED <<retries, message>>
  /\ CliUnchanged

CliReplay ==
  /\ stage = "turn" /\ replays > 0
  /\ replays' = replays - 1
  /\ LET of == <<"replay", task[2]>> IN
     Emit(<<Line("replay", of, 0, None), Line("result", of, 0, None), Plain("init")>>)
  /\ UNCHANGED <<stdin, task, stage, retries, message>>
  /\ CliUnchanged

Talking == stage = "turn" /\ replays = 0

CliOpenBlock ==
  /\ Talking /\ item = None /\ index \in Indexes /\ NextItem \in Items
  /\ index = 0 => pending = {}
  /\ item' = NextItem
  /\ \E k \in Kinds : kindOf' = [kindOf EXCEPT ![NextItem] = k]
  /\ Emit(<<Line("start", task, index, NextItem), Line("delta", task, index, NextItem)>>)
  /\ UNCHANGED <<stdin, task, stage, replays, retries, index, pending>>
  /\ CliUnchanged

CliCloseBlock ==
  /\ Talking /\ item # None
  /\ Emit(<<Line("assistant", task, 0, item), Line("stop", task, index, item)>>)
  /\ pending' = IF kindOf[item] \in ToolNames THEN pending \cup {item} ELSE pending
  /\ index' = index + 1
  /\ item' = None
  /\ UNCHANGED <<stdin, task, stage, replays, retries, kindOf>>
  /\ CliUnchanged

CliEndMessage ==
  /\ Talking /\ item = None /\ index > 0
  /\ Emit(<<Plain("message_stop")>>)
  /\ index' = 0
  /\ UNCHANGED <<stdin, task, stage, replays, retries, item, kindOf, pending>>
  /\ CliUnchanged

(* A subagent's tool call is printed without having been streamed.         *)
CliSubagentCall ==
  /\ Talking /\ index = 0 /\ NextItem \in Items
  /\ \E k \in ToolNames : kindOf' = [kindOf EXCEPT ![NextItem] = k]
  /\ pending' = pending \cup {NextItem}
  /\ Emit(<<Line("assistant", task, 0, NextItem)>>)
  /\ UNCHANGED <<stdin, task, stage, replays, retries, index, item>>
  /\ CliUnchanged

CliToolResult ==
  /\ Talking
  /\ \E call \in pending :
       /\ pending' = pending \ {call}
       /\ Emit(<<Line("tool_result", task, 0, call)>>)
  /\ UNCHANGED <<stdin, task, stage, replays, retries, index, item, kindOf>>
  /\ CliUnchanged

(* A request to the model fails, possibly in the middle of a message,      *)
(* which then starts over; the last retry may be the end of it.            *)
CliRetry ==
  /\ Talking /\ retries < MaxRetries
  /\ retries' = retries + 1
  /\ \E last \in {0} \cup IF "exhausted" \in Faults THEN {1} ELSE {} :
       Emit(<<Line("api_retry", task, last, item)>>)
  /\ index' = 0
  /\ item' = None
  /\ pending' = IF index > 0 THEN {} ELSE pending
  /\ UNCHANGED <<stdin, task, stage, replays, kindOf>>
  /\ CliUnchanged

CliResult ==
  /\ \/ Talking /\ item = None /\ index = 0 /\ pending = {}
     \/ stage = "command"
  /\ Emit(<<Plain("result")>>)
  /\ task' = None
  /\ stage' = "none"
  /\ UNCHANGED <<stdin, replays, retries, message>>
  /\ CliUnchanged

Cli == CliTake \/ CliReplay \/ CliOpenBlock \/ CliCloseBlock \/ CliEndMessage
       \/ CliSubagentCall \/ CliToolResult \/ CliRetry \/ CliResult

-----------------------------------------------------------------------------
(* parse_line: one disjunct per message type.  What a line says of its      *)
(* block's type, tool name and call id is kindOf of that block.             *)

Read == Head(queue)
Take(type) ==
  /\ reader = "stream" /\ queue # <<>> /\ Read.type = type
  /\ queue' = Tail(queue)

NoEvent == [type |-> "none", item |-> None, kind |-> None, line |-> None]
Make(type, it, kind) ==
  event' = [type |-> type, item |-> it, kind |-> kind, line |-> Read]

ReaderUnchanged == UNCHANGED <<turn, reader, spawned, endedBy, behind, cli>>

(* Variant: the init after a repeated command leaves the flag set.         *)
ParseInitReplaying ==
  /\ Take("init")
  /\ IF inReplay
       THEN event' = NoEvent /\ UNCHANGED turnCount
       ELSE /\ turnCount' = turnCount + 1
            /\ Make(IF turnCount > 0 THEN "turn.started" ELSE "session.started", None, None)
  /\ UNCHANGED <<inReplay, blocks, tools, history>>
  /\ ReaderUnchanged

(* The init that follows a repeated command is not a turn's.               *)
ParseInit ==
  /\ Take("init")
  /\ inReplay' = FALSE
  /\ IF inReplay
       THEN event' = NoEvent /\ UNCHANGED turnCount
       ELSE /\ turnCount' = turnCount + 1
            /\ Make(IF turnCount > 0 THEN "turn.started" ELSE "session.started", None, None)
  /\ UNCHANGED <<blocks, tools, history>>
  /\ ReaderUnchanged

ParseReplay ==
  /\ Take("replay")
  /\ inReplay' = TRUE
  /\ event' = NoEvent
  /\ UNCHANGED <<turnCount, blocks, tools, history>>
  /\ ReaderUnchanged

Called(tool_map, call) ==
  IF kindOf[call] \in ToolNames THEN [tool_map EXCEPT ![call] = kindOf[call]] ELSE tool_map

(* Variant: a block is kept under the number of blocks open before it.     *)
OnBlockStartCounting ==
  LET b == Read.block
      open == Cardinality({i \in Indexes : blocks[i] # None}) IN
  /\ Take("start") /\ open \in Indexes
  /\ blocks' = [blocks EXCEPT ![open] = b]
  /\ tools' = Called(tools, b)
  /\ started' = started \cup {b}
  /\ Make("item.started", b, kindOf[b])
  /\ UNCHANGED <<inReplay, turnCount, finished, dropped>>
  /\ ReaderUnchanged

OnBlockStart ==
  LET b == Read.block IN
  /\ Take("start")
  /\ blocks' = [blocks EXCEPT ![Read.index] = b]
  /\ tools' = Called(tools, b)
  /\ started' = started \cup {b}
  /\ Make("item.started", b, kindOf[b])
  /\ UNCHANGED <<inReplay, turnCount, finished, dropped>>
  /\ ReaderUnchanged

(* The item is looked up by index, the tool in tool_map by its call id.    *)
KindSeen(b) == IF b = None THEN None ELSE IF kindOf[b] = "text" THEN "text" ELSE tools[b]

OnBlockDelta ==
  LET b == blocks[Read.index] IN
  /\ Take("delta")
  /\ Make("item.delta", b, KindSeen(b))
  /\ UNCHANGED <<parser, history>>
  /\ ReaderUnchanged

(* Variant: a tool's block is completed only by its result.                *)
OnBlockStopTextOnly ==
  LET b == blocks[Read.index] IN
  /\ Take("stop")
  /\ blocks' = [blocks EXCEPT ![Read.index] = None]
  /\ IF b = None \/ KindSeen(b) # "text"
       THEN event' = NoEvent /\ UNCHANGED finished
       ELSE Make("item.completed", b, "text") /\ finished' = finished \cup {b}
  /\ UNCHANGED <<inReplay, turnCount, tools, started, dropped>>
  /\ ReaderUnchanged

OnBlockStop ==
  LET b == blocks[Read.index] IN
  /\ Take("stop")
  /\ blocks' = [blocks EXCEPT ![Read.index] = None]
  /\ IF b = None
       THEN event' = NoEvent /\ UNCHANGED finished
       ELSE Make("item.completed", b, KindSeen(b)) /\ finished' = finished \cup {b}
  /\ UNCHANGED <<inReplay, turnCount, tools, started, dropped>>
  /\ ReaderUnchanged

ParseMessageStop ==
  /\ Take("message_stop")
  /\ blocks' = [i \in Indexes |-> None]
  /\ event' = NoEvent
  /\ UNCHANGED <<inReplay, turnCount, tools, history>>
  /\ ReaderUnchanged

(* Variant: the tools are those of the streamed blocks alone.              *)
ParseAssistantIgnored ==
  /\ Take("assistant")
  /\ event' = NoEvent
  /\ UNCHANGED <<parser, history>>
  /\ ReaderUnchanged

ParseAssistant ==
  /\ Take("assistant")
  /\ tools' = Called(tools, Read.block)
  /\ event' = NoEvent
  /\ UNCHANGED <<inReplay, turnCount, blocks, history>>
  /\ ReaderUnchanged

ParseToolResult ==
  /\ Take("tool_result")
  /\ Make("tool_result", Read.block, tools[Read.block])
  /\ UNCHANGED <<parser, history>>
  /\ ReaderUnchanged

ParseRetry ==
  /\ Take("api_retry") /\ Read.index = 0
  /\ Make("api.retry", None, None)
  /\ dropped' = dropped \cup {Read.block}
  /\ UNCHANGED <<parser, started, finished>>
  /\ ReaderUnchanged

FreshParser ==
  /\ inReplay' = FALSE /\ turnCount' = 0
  /\ blocks' = [i \in Indexes |-> None]
  /\ tools' = [b \in Items |-> None]

(* The last retry: an ERROR ends the turn, and send_message forgets the     *)
(* process, so that the next prompt spawns one with a parser, a queue and a *)
(* CLI of its own.                                                          *)
Exhausted ==
  /\ reader = "stream" /\ queue # <<>>
  /\ Read.type = "api_retry" /\ Read.index = 1
  /\ Make("error", None, None)
  /\ dropped' = dropped \cup (started \ finished)
  /\ reader' = "idle"
  /\ spawned' = turn + 1
  /\ FreshParser
  /\ queue' = <<>> /\ stdin' = <<>> /\ task' = None /\ stage' = "none"
  /\ replays' = 0 /\ index' = 0 /\ item' = None /\ pending' = {}
  /\ behind' = FALSE
  /\ UNCHANGED <<turn, started, finished, endedBy, retries, kindOf>>

(* Variant: any result ends the turn.                                      *)
ParseResultEager ==
  /\ Take("result")
  /\ Make("turn.ended", None, None)
  /\ endedBy' = [endedBy EXCEPT ![turn] = Read.of]
  /\ reader' = "askContext"
  /\ UNCHANGED <<turn, spawned, parser, history, behind, cli>>

(* A result inside a repeated command is not the turn's; any other ends it: *)
(* the CLI's results carry a cost or a duration, which stream_turn asks for. *)
ParseResult ==
  /\ Take("result")
  /\ IF inReplay
       THEN event' = NoEvent /\ UNCHANGED <<reader, endedBy>>
       ELSE /\ Make("turn.ended", None, None)
            /\ endedBy' = [endedBy EXCEPT ![turn] = Read.of]
            /\ reader' = "askContext"
  /\ UNCHANGED <<turn, spawned, parser, history, behind, cli>>

(* The turn's deadline: an ERROR, and the status commands run next.          *)
TurnTimeout ==
  /\ "late" \in Faults /\ reader = "stream"
  /\ event' = [NoEvent EXCEPT !.type = "error"]
  /\ reader' = "askContext"
  /\ behind' = TRUE
  /\ UNCHANGED <<turn, spawned, queue, parser, history, endedBy, cli>>

ParseLine == ParseInit \/ ParseReplay \/ OnBlockStart \/ OnBlockDelta \/ OnBlockStop
             \/ ParseMessageStop \/ ParseAssistant \/ ParseToolResult \/ ParseRetry
             \/ Exhausted \/ ParseResult

-----------------------------------------------------------------------------
(* The turns of one conversation: prompt, stream, then /context and /cost.  *)

Write(what, t) == stdin' = Append(stdin, <<what, t>>)

SendPrompt ==
  /\ reader = "idle" /\ turn < MaxTurns
  /\ turn' = turn + 1
  /\ reader' = "stream"
  /\ Write("prompt", turn + 1)
  /\ UNCHANGED <<spawned, queue, parser, event, history, endedBy, behind>>
  /\ UNCHANGED <<task, stage, replays, retries, message>>

SendCommand(step, what) ==
  /\ reader = step
  /\ reader' = what
  /\ Write(what, turn)
  /\ UNCHANGED <<turn, spawned, queue, parser, event, history, endedBy, behind>>
  /\ UNCHANGED <<task, stage, replays, retries, message>>

(* send_command takes lines past the parser until a result.                 *)
ReadAnswer(what, then) ==
  /\ reader = what /\ queue # <<>>
  /\ queue' = Tail(queue)
  /\ reader' = IF Read.type = "result" THEN then ELSE what
  /\ UNCHANGED <<turn, spawned, parser, event, history, endedBy, behind, cli>>

CommandTimeout(what, then) ==
  /\ "late" \in Faults /\ reader = what
  /\ reader' = then
  /\ behind' = TRUE
  /\ UNCHANGED <<turn, spawned, queue, parser, event, history, endedBy, cli>>

PollStatus ==
  \/ SendCommand("askContext", "context") \/ SendCommand("askCost", "cost")
  \/ ReadAnswer("context", "askCost") \/ ReadAnswer("cost", "idle")
  \/ CommandTimeout("context", "askCost") \/ CommandTimeout("cost", "idle")

Init ==
  /\ turn = 0 /\ reader = "idle" /\ spawned = 1 /\ queue = <<>>
  /\ inReplay = FALSE /\ turnCount = 0
  /\ blocks = [i \in Indexes |-> None] /\ tools = [b \in Items |-> None]
  /\ event = NoEvent
  /\ started = {} /\ finished = {} /\ dropped = {}
  /\ endedBy = [t \in 1..MaxTurns |-> None] /\ behind = FALSE
  /\ stdin = <<>> /\ task = None /\ stage = "none" /\ replays = 0 /\ retries = 0
  /\ index = 0 /\ item = None /\ kindOf = [b \in Items |-> None] /\ pending = {}

Done == turn = MaxTurns /\ reader = "idle" /\ UNCHANGED vars

Next == Cli \/ ParseLine \/ TurnTimeout \/ SendPrompt \/ PollStatus \/ Done

Spec == Init /\ [][Next]_vars

(* The CLI works on its input, and the event loop reads what it prints.     *)
FairSpec == Spec /\ WF_vars(Cli) /\ WF_vars(ParseLine) /\ WF_vars(PollStatus)

-----------------------------------------------------------------------------
(* What the reader, the parser and the CLI keep.                            *)
TypeOK ==
  /\ turn \in 0..MaxTurns /\ spawned \in 1..MaxTurns + 1
  /\ reader \in {"idle", "stream", "askContext", "context", "askCost", "cost"}
  /\ queue \in Seq(Lines)
  /\ inReplay \in BOOLEAN /\ turnCount \in Nat
  /\ blocks \in [Indexes -> Items \cup {None}]
  /\ tools \in [Items -> ToolNames \cup {None}]
  /\ started \subseteq Items /\ finished \subseteq started
  /\ endedBy \in [1..MaxTurns -> Inputs \cup {None}] /\ behind \in BOOLEAN
  /\ stdin \in Seq(Inputs) /\ task \in Inputs \cup {None}
  /\ stage \in {"none", "turn", "command"} /\ replays \in Nat /\ retries \in Nat
  /\ index \in 0..2 /\ item \in Items \cup {None}
  /\ kindOf \in [Items -> Kinds \cup {None}] /\ pending \subseteq Items

(* A delta reaches the item whose block the model is writing, announced and *)
(* not completed, with the kind of that block; so does the completion:     *)
(* also when a message was cut off and started over with the same indexes. *)
EventsReachTheirItem ==
  ~behind /\ event.type \in {"item.delta", "item.completed"} =>
    /\ event.item = event.line.block
    /\ event.kind = kindOf[event.line.block]
    /\ event.type = "item.delta" => event.item \in started \ finished

(* The card of a tool result has the kind of the tool that was called,     *)
(* whether its call was streamed or only printed (a subagent's).           *)
ToolResultKind ==
  ~behind /\ event.type = "tool_result" => event.kind = kindOf[event.line.block]

(* When a turn is over no item is left in progress, but those of a message *)
(* that was started over.                                                  *)
ItemsSettled ==
  ~behind /\ reader # "stream" => started \ finished \subseteq dropped

(* What stream_turn promises, "events from stdout until the turn            *)
(* completes": a turn ends with the result of its own prompt, whatever      *)
(* status commands the CLI repeats before, in a process that no timeout    *)
(* left behind.                                                            *)
OwnResultInTime ==
  ~behind => \A t \in spawned..turn : endedBy[t] \in {None, <<"prompt", t>>}

(* Every turn comes to an end, also one that first has to read what a       *)
(* timeout left in the queue.                                              *)
TurnEnds == (reader = "stream") ~> (reader # "stream")
=============================================================================
