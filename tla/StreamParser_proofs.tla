------------------------- MODULE StreamParser_proofs -------------------------
(***************************************************************************)
(* Every event is about the block whose line it is made of, every item     *)
(* that was announced is settled, and every turn ends with its own result, *)
(* while nobody stops reading before the end.                              *)
(*                                                                         *)
(* The lines between the CLI and the parser are state of neither: what is  *)
(* said of them is said of a sequence of lines q and the parser that reads *)
(* it next, and kept by one line more at the end (what the CLI prints) and *)
(* by one line less at the front (what is parsed).                         *)
(***************************************************************************)
EXTENDS StreamParser, FiniteSetTheorems, TLAPS

(* After k lines of q the parser has block b under index i: it took it up  *)
(* since and nothing replaced it, or has it now and nothing will.          *)
Touches(line, i) == \/ line.type = "message_stop"
                    \/ line.type \in {"start", "stop"} /\ line.index = i
Opens(line, i, b) == line.type = "start" /\ line.index = i /\ line.block = b
Untouched(q, from, to, i) == \A m \in from..to : ~Touches(q[m], i)
Holds(q, held, k, i, b) ==
    \/ held[i] = b /\ Untouched(q, 1, k, i)
    \/ \E j \in 1..k : Opens(q[j], i, b) /\ Untouched(q, j + 1, k, i)

(* So it is at every delta and stop of b; and the block that the model is  *)
(* writing is the one under its index when all has been read.              *)
Placed(q, held, i, open) ==
    /\ \A k \in 1..Len(q) : q[k].type \in {"delta", "stop"}
                            => Holds(q, held, k - 1, q[k].index, q[k].block)
    /\ open # None => Holds(q, held, Len(q), i, open)

(* After k lines the parser knows the tool that call b is of.              *)
Names(line, b) == line.type \in {"start", "assistant"} /\ line.block = b
Known(q, map, kinds, k, b) ==
    map[b] = kinds[b] \/ \E j \in 1..k : Names(q[j], b)

CallsKnown(q, map, kinds, calls) ==
    /\ \A k \in 1..Len(q) : q[k].type = "tool_result"
                            => Known(q, map, kinds, k - 1, q[k].block)
    /\ \A b \in calls : Known(q, map, kinds, Len(q), b)

(* What is in progress has been given up, or is being written, or its end  *)
(* is among the lines; so has what will be announced.                      *)
Settles(line, b) == line.type \in {"stop", "api_retry"} /\ line.block = b
Settling(q, progress, given, open) ==
    /\ \A b \in progress : \/ b \in given \/ open = b
                           \/ \E k \in 1..Len(q) : Settles(q[k], b)
    /\ \A j \in 1..Len(q) : q[j].type = "start" =>
         \/ open = q[j].block
         \/ \E k \in j + 1..Len(q) : Settles(q[k], q[j].block)

(* A block is announced by one line, and not again.                        *)
AnnouncedOnce(q, announced) ==
    \A j \in 1..Len(q) : q[j].type = "start" =>
      /\ q[j].block \notin announced
      /\ \A k \in 1..Len(q) : q[k].type = "start" /\ q[k].block = q[j].block => k = j

(* The lines are about blocks that the CLI has numbered.                   *)
BlockLines == {"start", "delta", "assistant", "stop", "tool_result"}
Numbered(q, kinds) ==
    \A k \in 1..Len(q) :
      /\ q[k].type \in BlockLines => q[k].block \in Items
      /\ q[k].block \in Items => kinds[q[k].block] # None
      /\ q[k].type = "tool_result" => kinds[q[k].block] \in ToolNames

-----------------------------------------------------------------------------
(* What holds of the CLI and the parser whatever has been read.            *)
CliInv ==
    /\ task = None <=> stage = "none"
    /\ task # None => (stage = "turn" <=> task[1] = "prompt")
    /\ stage # "turn" => item = None /\ index = 0 /\ pending = {} /\ replays = 0
    /\ item # None => index \in Indexes
    /\ reader # "idle" => turn > 0
    /\ \A t \in 1..MaxTurns : t > turn => endedBy[t] = None

KindInv ==
    /\ \E n \in 0..MaxItems : \A b \in Items : kindOf[b] # None <=> b <= n
    /\ item # None => kindOf[item] # None
    /\ \A b \in pending : kindOf[b] \in ToolNames
    /\ \A b \in started : kindOf[b] # None
    /\ Numbered(queue, kindOf)

ParserInv ==
    /\ AnnouncedOnce(queue, started)
    /\ \A i \in Indexes : blocks[i] # None => blocks[i] \in started \ finished
    /\ \A i, j \in Indexes : blocks[i] = blocks[j] /\ blocks[i] # None => i = j
    /\ \A i \in Indexes : blocks[i] # None /\ kindOf[blocks[i]] \in ToolNames
                          => tools[blocks[i]] = kindOf[blocks[i]]

BaseInv == TypeOK /\ CliInv /\ KindInv /\ ParserInv

(* What holds while nobody stopped reading early.  One input is under way, *)
(* in stdin, in the CLI, or answered by the last line.                     *)
Reading == {"stream", "context", "cost"}
Asked == <<IF reader = "stream" THEN "prompt" ELSE reader, turn>>
Answers(line, input) == line.type = "result" /\ line.of = input
Unanswered(q, input) == \A k \in 1..Len(q) : ~Answers(q[k], input)
Answered(q, input) == Len(q) > 0 /\ \A k \in 1..Len(q) : Answers(q[k], input) <=> k = Len(q)

OneInput ==
    \/ stdin = <<Asked>> /\ task = None /\ queue = <<>>
    \/ stdin = <<>> /\ task = Asked /\ Unanswered(queue, Asked)
    \/ stdin = <<>> /\ task = None /\ Answered(queue, Asked)

(* A repeated command is three lines, and the parser is among them or not. *)
Repeats(q, replaying, input) ==
    /\ \A k \in 1..Len(q) : q[k].type = "replay" =>
         /\ k + 2 <= Len(q)
         /\ q[k + 1].type = "result" /\ ~Answers(q[k + 1], input)
         /\ q[k + 2].type = "init"
    /\ \A k \in 1..Len(q) : q[k].type = "result" /\ ~Answers(q[k], input) =>
         IF k = 1 THEN replaying ELSE q[k - 1].type = "replay"
    /\ replaying =>
         \/ Len(q) > 0 /\ q[1].type = "init"
         \/ /\ Len(q) > 1 /\ q[1].type = "result" /\ ~Answers(q[1], input)
            /\ q[2].type = "init"

(* What a status command prints.                                           *)
Plainly(q, input) == \A k \in 1..Len(q) :
    q[k].type \in {"init", "replay"} \/ Answers(q[k], input)

InputInv ==
    /\ reader \notin Reading => queue = <<>> /\ stdin = <<>> /\ task = None
    /\ reader \in Reading => OneInput
    /\ reader = "stream" => Repeats(queue, inReplay, Asked)
    /\ reader # "stream" => ~inReplay /\ Plainly(queue, Asked)

LinesInv ==
    /\ Placed(queue, blocks, index, item)
    /\ CallsKnown(queue, tools, kindOf, pending)
    /\ Settling(queue, started \ finished, dropped, item)

EventInv ==
    /\ event.type \in {"item.delta", "item.completed", "tool_result"} =>
         event.line.block \in Items /\ kindOf[event.line.block] # None
    /\ event.type \in {"item.delta", "item.completed"} =>
         /\ event.item = event.line.block
         /\ event.kind = kindOf[event.line.block]
         /\ event.type = "item.delta" => event.item \in started \ finished
    /\ event.type = "tool_result" => event.kind = kindOf[event.line.block]

InTimeInv == InputInv /\ LinesInv /\ EventInv /\ ItemsSettled /\ OwnResultInTime

StreamInv == BaseInv /\ (~behind => InTimeInv)
-----------------------------------------------------------------------------
(* One line more, and one line less.                                       *)
LEMMA OneMore ==
  ASSUME NEW q \in Seq(Lines), NEW line \in Lines
  PROVE  /\ Append(q, line) \in Seq(Lines)
         /\ Len(q) \in Nat /\ Len(Append(q, line)) = Len(q) + 1
         /\ \A k \in 1..Len(q) : Append(q, line)[k] = q[k]
         /\ Append(q, line)[Len(q) + 1] = line
  OBVIOUS

LEMMA OneLess ==
  ASSUME NEW q \in Seq(Lines), q # <<>>
  PROVE  /\ Tail(q) \in Seq(Lines) /\ Head(q) = q[1] /\ q[1] \in Lines
         /\ Len(q) \in Nat \ {0} /\ Len(Tail(q)) = Len(q) - 1
         /\ \A k \in 1..Len(q) - 1 : Tail(q)[k] = q[k + 1]
  OBVIOUS

LEMMA HoldsStep ==
  ASSUME NEW q \in Seq(Lines), NEW held, NEW k \in 1..Len(q), NEW i, NEW b,
         Holds(q, held, k - 1, i, b), ~Touches(q[k], i)
  PROVE  Holds(q, held, k, i, b)
<1>1. ASSUME NEW from \in Nat, Untouched(q, from, k - 1, i)
      PROVE  Untouched(q, from, k, i)
  BY <1>1 DEF Untouched
<1>. QED BY <1>1 DEF Holds

LEMMA HoldsMore ==
  ASSUME NEW q \in Seq(Lines), NEW line \in Lines, NEW held, NEW k \in 0..Len(q),
         NEW i, NEW b, Holds(q, held, k, i, b)
  PROVE  Holds(Append(q, line), held, k, i, b)
<1>1. \A j \in 1..k : Append(q, line)[j] = q[j]
  BY OneMore
<1>2. ASSUME NEW from \in Nat \ {0}, Untouched(q, from, k, i)
      PROVE  Untouched(Append(q, line), from, k, i)
  BY <1>1, <1>2 DEF Untouched
<1>. QED BY <1>1, <1>2 DEF Holds

(* What the CLI prints of a block is about the one it is writing.          *)
LEMMA PlacedMore ==
  ASSUME NEW q \in Seq(Lines), NEW line \in Lines, NEW held, NEW i, NEW open,
         NEW i2, NEW open2, Placed(q, held, i, open),
         line.type \in {"delta", "stop"} =>
           open # None /\ line.index = i /\ line.block = open,
         open2 # None => \/ Opens(line, i2, open2)
                         \/ open2 = open /\ i2 = i /\ ~Touches(line, i)
  PROVE  Placed(Append(q, line), held, i2, open2)
<1>. DEFINE r == Append(q, line)
<1>0. /\ r \in Seq(Lines) /\ Len(q) \in Nat /\ Len(r) = Len(q) + 1
      /\ \A k \in 1..Len(q) : r[k] = q[k]
      /\ r[Len(q) + 1] = line
  BY OneMore
<1>. HIDE DEF r
<1>1. ASSUME NEW k \in 0..Len(q), NEW j, NEW b, Holds(q, held, k, j, b)
      PROVE  Holds(r, held, k, j, b)
  BY <1>1, HoldsMore DEF r
<1>2. ASSUME NEW k \in 1..Len(r), r[k].type \in {"delta", "stop"}
      PROVE  Holds(r, held, k - 1, r[k].index, r[k].block)
  <2>1. CASE k \in 1..Len(q)
    <3>1. Holds(q, held, k - 1, q[k].index, q[k].block) /\ k - 1 \in 0..Len(q)
      BY <1>0, <1>2, <2>1 DEF Placed
    <3>. QED BY <1>0, <1>1, <2>1, <3>1
  <2>2. CASE k = Len(q) + 1
    <3>1. Holds(q, held, Len(q), line.index, line.block)
      BY <1>0, <1>2, <2>2 DEF Placed
    <3>. QED BY <1>0, <1>1, <2>2, <3>1
  <2>. QED BY <1>0, <2>1, <2>2
<1>3. ASSUME open2 # None PROVE Holds(r, held, Len(r), i2, open2)
  <2>1. CASE Opens(line, i2, open2)
    BY <1>0, <2>1 DEF Holds, Untouched
  <2>2. CASE open2 = open /\ i2 = i /\ ~Touches(line, i)
    <3>1. Holds(r, held, Len(q), i, open)
      BY <1>0, <1>1, <1>3, <2>2 DEF Placed
    <3>. QED BY <1>0, <2>2, <3>1, HoldsStep
  <2>. QED BY <1>3, <2>1, <2>2
<1>. QED BY <1>2, <1>3 DEF Placed, r

(* What a line leaves in the parser's blocks.                              *)
Taken(line, held) ==
    [j \in Indexes |-> IF Touches(line, j)
                         THEN IF line.type = "start" THEN line.block ELSE None
                         ELSE held[j]]

LEMMA HoldsLess ==
  ASSUME NEW q \in Seq(Lines), q # <<>>, NEW held, NEW k \in 1..Len(q),
         NEW i \in Indexes, NEW b, Holds(q, held, k, i, b)
  PROVE  Holds(Tail(q), Taken(q[1], held), k - 1, i, b)
<1>. DEFINE r == Tail(q)
<1>0. Len(q) \in Nat \ {0} /\ Len(r) = Len(q) - 1 /\ \A m \in 1..Len(q) - 1 : r[m] = q[m + 1]
  BY OneLess
<1>. HIDE DEF r
<1>1. ASSUME NEW from \in 1..k, Untouched(q, from + 1, k, i)
      PROVE  Untouched(r, from, k - 1, i)
  BY <1>0, <1>1 DEF Untouched
<1>2. CASE held[i] = b /\ Untouched(q, 1, k, i)
  <2>1. ~Touches(q[1], i) /\ Untouched(q, 2, k, i)
    BY <1>0, <1>2 DEF Untouched
  <2>2. Taken(q[1], held)[i] = b
    BY <1>2, <2>1 DEF Taken
  <2>. QED BY <1>0, <1>1, <2>1, <2>2 DEF Holds, r
<1>3. ASSUME NEW j \in 1..k, Opens(q[j], i, b), Untouched(q, j + 1, k, i)
      PROVE  Holds(r, Taken(q[1], held), k - 1, i, b)
  <2>1. CASE j = 1
    <3>1. Taken(q[1], held)[i] = b
      BY <1>3, <2>1 DEF Taken, Opens, Touches
    <3>. QED BY <1>1, <1>3, <2>1, <3>1 DEF Holds
  <2>2. CASE j > 1
    <3>1. j - 1 \in 1..k - 1 /\ r[j - 1] = q[j]
      BY <1>0, <2>2
    <3>2. Untouched(r, (j - 1) + 1, k - 1, i)
      BY <1>1, <1>3, <2>2
    <3>. QED BY <1>3, <3>1, <3>2 DEF Holds
  <2>. QED BY <2>1, <2>2
<1>. QED BY <1>2, <1>3 DEF Holds, r

LEMMA PlacedLess ==
  ASSUME NEW q \in Seq(Lines), q # <<>>, NEW held, NEW i, NEW open,
         Placed(q, held, i, open), open # None => i \in Indexes
  PROVE  /\ Placed(Tail(q), Taken(q[1], held), i, open)
         /\ q[1].type \in {"delta", "stop"} => held[q[1].index] = q[1].block
<1>. DEFINE r == Tail(q)
<1>0. /\ r \in Seq(Lines) /\ Len(q) \in Nat \ {0} /\ Len(r) = Len(q) - 1
      /\ \A m \in 1..Len(q) - 1 : r[m] = q[m + 1]
  BY OneLess
<1>1. \A m \in 1..Len(q) : q[m] \in Lines
  OBVIOUS
<1>. HIDE DEF r
<1>2. ASSUME NEW k \in 1..Len(r), r[k].type \in {"delta", "stop"}
      PROVE  Holds(r, Taken(q[1], held), k - 1, r[k].index, r[k].block)
  <2>1. k + 1 \in 1..Len(q) /\ r[k] = q[k + 1] /\ k \in 1..Len(q)
    BY <1>0
  <2>2. Holds(q, held, k, q[k + 1].index, q[k + 1].block)
    BY <1>2, <2>1 DEF Placed
  <2>3. q[k + 1].index \in Indexes
    BY <1>1, <2>1 DEF Lines
  <2>. QED BY <2>1, <2>2, <2>3, HoldsLess DEF r
<1>3. ASSUME open # None PROVE Holds(r, Taken(q[1], held), Len(r), i, open)
  <2>1. Holds(q, held, Len(q), i, open) /\ Len(q) \in 1..Len(q)
    BY <1>0, <1>3 DEF Placed
  <2>. QED BY <1>0, <1>3, <2>1, HoldsLess DEF r
<1>4. q[1].type \in {"delta", "stop"} => held[q[1].index] = q[1].block
  <2>1. q[1].type \in {"delta", "stop"} => Holds(q, held, 0, q[1].index, q[1].block)
    BY <1>0 DEF Placed
  <2>. QED BY <2>1 DEF Holds
<1>. QED BY <1>2, <1>3, <1>4 DEF Placed, r

(* What a line teaches the parser of the tools.                            *)
Learned(line, map, kinds) ==
    IF line.type \in {"start", "assistant"} /\ kinds[line.block] \in ToolNames
      THEN [map EXCEPT ![line.block] = kinds[line.block]] ELSE map

LEMMA CallsMore ==
  ASSUME NEW q \in Seq(Lines), NEW line \in Lines, NEW map, NEW kinds, NEW calls, NEW calls2,
         CallsKnown(q, map, kinds, calls),
         line.type = "tool_result" => line.block \in calls,
         \A b \in calls2 : b \in calls \/ Names(line, b)
  PROVE  CallsKnown(Append(q, line), map, kinds, calls2)
<1>. DEFINE r == Append(q, line)
<1>0. /\ Len(q) \in Nat /\ Len(r) = Len(q) + 1
      /\ \A k \in 1..Len(q) : r[k] = q[k]
      /\ r[Len(q) + 1] = line
  BY OneMore
<1>. HIDE DEF r
<1>1. ASSUME NEW k \in 0..Len(q), NEW n \in k..Len(r), NEW b, Known(q, map, kinds, k, b)
      PROVE  Known(r, map, kinds, n, b)
  BY <1>0, <1>1 DEF Known
<1>2. ASSUME NEW k \in 1..Len(r), r[k].type = "tool_result"
      PROVE  Known(r, map, kinds, k - 1, r[k].block)
  <2>1. CASE k \in 1..Len(q)
    <3>1. Known(q, map, kinds, k - 1, q[k].block) /\ k - 1 \in 0..Len(q)
      BY <1>0, <1>2, <2>1 DEF CallsKnown
    <3>. QED BY <1>0, <1>1, <2>1, <3>1
  <2>2. CASE k = Len(q) + 1
    <3>1. Known(q, map, kinds, Len(q), line.block)
      BY <1>0, <1>2, <2>2 DEF CallsKnown
    <3>. QED BY <1>0, <1>1, <2>2, <3>1
  <2>. QED BY <1>0, <2>1, <2>2
<1>3. ASSUME NEW b \in calls2 PROVE Known(r, map, kinds, Len(r), b)
  <2>1. CASE b \in calls
    BY <1>0, <1>1, <2>1 DEF CallsKnown
  <2>2. CASE Names(line, b)
    BY <1>0, <2>2 DEF Known
  <2>. QED BY <2>1, <2>2
<1>. QED BY <1>2, <1>3 DEF CallsKnown, r

LEMMA CallsLess ==
  ASSUME NEW q \in Seq(Lines), q # <<>>, NEW map \in [Items -> ToolNames \cup {None}],
         NEW kinds, NEW calls \in SUBSET Items, Numbered(q, kinds),
         \A b \in calls : kinds[b] \in ToolNames,
         CallsKnown(q, map, kinds, calls)
  PROVE  /\ CallsKnown(Tail(q), Learned(q[1], map, kinds), kinds, calls)
         /\ q[1].type = "tool_result" => map[q[1].block] = kinds[q[1].block]
<1>. DEFINE r == Tail(q)
            known == Learned(q[1], map, kinds)
<1>0. /\ Len(q) \in Nat \ {0} /\ Len(r) = Len(q) - 1
      /\ \A m \in 1..Len(q) - 1 : r[m] = q[m + 1]
  BY OneLess
<1>1. \A b \in Items : known[b] = kinds[b] \/ known[b] = map[b]
  BY DEF Learned
<1>. HIDE DEF r
<1>2. ASSUME NEW k \in 1..Len(q), NEW b \in Items, kinds[b] \in ToolNames,
             Known(q, map, kinds, k, b)
      PROVE  Known(r, known, kinds, k - 1, b)
  <2>1. CASE map[b] = kinds[b] \/ Names(q[1], b)
    <3>1. known[b] = kinds[b]
      BY <1>1, <1>2, <2>1 DEF Learned, Names
    <3>. QED BY <3>1 DEF Known
  <2>2. ASSUME NEW j \in 2..k, Names(q[j], b) PROVE Known(r, known, kinds, k - 1, b)
    <3>1. j - 1 \in 1..k - 1 /\ r[j - 1] = q[j]
      BY <1>0, <2>2
    <3>. QED BY <2>2, <3>1 DEF Known
  <2>. QED BY <1>2, <2>1, <2>2 DEF Known
<1>. HIDE DEF known
<1>3. ASSUME NEW k \in 1..Len(r), r[k].type = "tool_result"
      PROVE  Known(r, known, kinds, k - 1, r[k].block)
  <2>1. k + 1 \in 1..Len(q) /\ k \in 1..Len(q) /\ r[k] = q[k + 1]
    BY <1>0
  <2>2. Known(q, map, kinds, k, q[k + 1].block)
    BY <1>3, <2>1 DEF CallsKnown
  <2>3. q[k + 1].block \in Items /\ kinds[q[k + 1].block] \in ToolNames
    BY <1>3, <2>1 DEF Numbered, BlockLines
  <2>. QED BY <1>2, <2>1, <2>2, <2>3
<1>4. ASSUME NEW b \in calls PROVE Known(r, known, kinds, Len(r), b)
  BY <1>0, <1>2 DEF CallsKnown
<1>5. ASSUME q[1].type = "tool_result" PROVE map[q[1].block] = kinds[q[1].block]
  BY <1>0, <1>5 DEF CallsKnown, Known
<1>. QED BY <1>3, <1>4, <1>5 DEF CallsKnown, r, known

(* The model goes on with the block it writes, or ends it.                 *)
LEMMA SettlingMore ==
  ASSUME NEW q \in Seq(Lines), NEW line \in Lines, NEW progress \in SUBSET Items, NEW given,
         NEW kinds, Numbered(q, kinds), NEW open, NEW open2,
         Settling(q, progress, given, open),
         open2 = open \/ open = None \/ Settles(line, open),
         line.type = "start" => open2 = line.block
  PROVE  Settling(Append(q, line), progress, given, open2)
<1>. DEFINE r == Append(q, line)
<1>0. /\ Len(q) \in Nat /\ Len(r) = Len(q) + 1
      /\ \A k \in 1..Len(q) : r[k] = q[k]
      /\ r[Len(q) + 1] = line
  BY OneMore
<1>. HIDE DEF r
<1>1. ASSUME NEW b \in Items, NEW from \in 1..Len(r), 
             open = b \/ \E k \in from..Len(q) : Settles(q[k], b)
      PROVE  open2 = b \/ \E k \in from..Len(r) : Settles(r[k], b)
  <2>1. CASE open = b
    <3>1. open # None
      BY <2>1, SettingsAssumption
    <3>. QED BY <1>0, <2>1, <3>1
  <2>2. ASSUME NEW k \in from..Len(q), Settles(q[k], b)
        PROVE  \E n \in from..Len(r) : Settles(r[n], b)
    <3>1. k \in from..Len(r) /\ r[k] = q[k]
      BY <1>0
    <3>. QED BY <2>2, <3>1
  <2>. QED BY <1>1, <2>1, <2>2
<1>2. ASSUME NEW b \in progress
      PROVE  b \in given \/ open2 = b \/ \E k \in 1..Len(r) : Settles(r[k], b)
  BY <1>0, <1>1 DEF Settling
<1>3. ASSUME NEW j \in 1..Len(r), r[j].type = "start"
      PROVE  open2 = r[j].block \/ \E k \in j + 1..Len(r) : Settles(r[k], r[j].block)
  <2>1. CASE j \in 1..Len(q)
    <3>1. /\ r[j] = q[j] /\ q[j].block \in Items /\ j + 1 \in 1..Len(r)
          /\ \/ open = q[j].block
             \/ \E k \in j + 1..Len(q) : Settles(q[k], q[j].block)
      BY <1>0, <1>3, <2>1 DEF Settling, Numbered, BlockLines
    <3>. QED BY <1>1, <3>1
  <2>2. CASE j = Len(q) + 1
    BY <1>0, <1>3, <2>2
  <2>. QED BY <1>0, <2>1, <2>2
<1>. QED BY <1>2, <1>3 DEF Settling, r

LEMMA SettlingLess ==
  ASSUME NEW q \in Seq(Lines), q # <<>>, NEW progress, NEW given, NEW open,
         NEW progress2, NEW given2,
         Settling(q, progress, given, open), given \subseteq given2,
         q[1].type = "api_retry" => q[1].block \in given2,
         \A b \in progress2 :
           \/ b \in progress /\ ~(q[1].type = "stop" /\ q[1].block = b)
           \/ q[1].type = "start" /\ q[1].block = b
  PROVE  Settling(Tail(q), progress2, given2, open)
<1>. DEFINE r == Tail(q)
<1>0. /\ Len(q) \in Nat \ {0} /\ Len(r) = Len(q) - 1
      /\ \A m \in 1..Len(q) - 1 : r[m] = q[m + 1]
  BY OneLess
<1>. HIDE DEF r
<1>1. ASSUME NEW from \in 1..Len(q), NEW b, NEW k \in from + 1..Len(q), Settles(q[k], b)
      PROVE  \E n \in from..Len(r) : Settles(r[n], b)
  <2>1. k - 1 \in from..Len(r) /\ r[k - 1] = q[k]
    BY <1>0
  <2>. QED BY <1>1, <2>1
<1>2. ASSUME NEW b \in progress2
      PROVE  b \in given2 \/ open = b \/ \E k \in 1..Len(r) : Settles(r[k], b)
  <2>1. CASE q[1].type = "start" /\ q[1].block = b
    <3>1. 1 \in 1..Len(q)
      BY <1>0
    <3>2. open = b \/ \E k \in 1 + 1..Len(q) : Settles(q[k], b)
      BY <2>1, <3>1 DEF Settling
    <3>. QED BY <1>0, <1>1, <3>1, <3>2
  <2>2. CASE b \in progress /\ ~(q[1].type = "stop" /\ q[1].block = b)
    <3>1. \/ b \in given2 \/ open = b
          \/ \E k \in 1 + 1..Len(q) : Settles(q[k], b)
      BY <1>0, <2>2 DEF Settling, Settles
    <3>2. CASE b \in given2 \/ open = b
      BY <3>2
    <3>3. ASSUME NEW k \in 1 + 1..Len(q), Settles(q[k], b)
          PROVE  \E n \in 1..Len(r) : Settles(r[n], b)
      <4>1. k - 1 \in 1..Len(r) /\ r[k - 1] = q[k]
        BY <1>0
      <4>. QED BY <3>3, <4>1
    <3>. QED BY <3>1, <3>2, <3>3
  <2>. QED BY <2>1, <2>2
<1>3. ASSUME NEW j \in 1..Len(r), r[j].type = "start"
      PROVE  open = r[j].block \/ \E k \in j + 1..Len(r) : Settles(r[k], r[j].block)
  <2>1. j + 1 \in 1..Len(q) /\ r[j] = q[j + 1]
    BY <1>0
  <2>. QED BY <1>1, <1>3, <2>1 DEF Settling
<1>. QED BY <1>2, <1>3 DEF Settling, r

LEMMA AnnouncedMore ==
  ASSUME NEW q \in Seq(Lines), NEW line \in Lines, NEW announced,
         AnnouncedOnce(q, announced),
         line.type = "start" =>
           /\ line.block \notin announced
           /\ \A k \in 1..Len(q) : q[k].type = "start" => q[k].block # line.block
  PROVE  AnnouncedOnce(Append(q, line), announced)
<1>. DEFINE r == Append(q, line)
<1>0. /\ Len(q) \in Nat /\ Len(r) = Len(q) + 1
      /\ \A k \in 1..Len(q) : r[k] = q[k]
      /\ r[Len(q) + 1] = line
  BY OneMore
<1>. HIDE DEF r
<1>1. \A j \in 1..Len(r) : j \in 1..Len(q) \/ j = Len(q) + 1
  BY <1>0
<1>2. ASSUME NEW j \in 1..Len(r), r[j].type = "start"
      PROVE  /\ r[j].block \notin announced
             /\ \A k \in 1..Len(r) : r[k].type = "start" /\ r[k].block = r[j].block => k = j
  BY <1>0, <1>1, <1>2 DEF AnnouncedOnce
<1>. QED BY <1>2 DEF AnnouncedOnce, r

LEMMA AnnouncedLess ==
  ASSUME NEW q \in Seq(Lines), q # <<>>, NEW announced, NEW announced2,
         AnnouncedOnce(q, announced),
         \A b \in announced2 : b \in announced \/ (q[1].type = "start" /\ q[1].block = b)
  PROVE  AnnouncedOnce(Tail(q), announced2)
<1>. DEFINE r == Tail(q)
<1>0. /\ Len(q) \in Nat \ {0} /\ Len(r) = Len(q) - 1
      /\ \A m \in 1..Len(q) - 1 : r[m] = q[m + 1]
  BY OneLess
<1>. HIDE DEF r
<1>1. ASSUME NEW j \in 1..Len(r), r[j].type = "start"
      PROVE  /\ r[j].block \notin announced2
             /\ \A k \in 1..Len(r) : r[k].type = "start" /\ r[k].block = r[j].block => k = j
  <2>1. /\ j + 1 \in 1..Len(q) /\ r[j] = q[j + 1] /\ 1 \in 1..Len(q) /\ j + 1 # 1
        /\ \A k \in 1..Len(r) : k + 1 \in 1..Len(q) /\ r[k] = q[k + 1]
    BY <1>0
  <2>2. q[j + 1].type = "start"
    BY <1>1, <2>1
  <2>3. /\ q[j + 1].block \notin announced
        /\ \A k \in 1..Len(q) : q[k].type = "start" /\ q[k].block = q[j + 1].block
                                => k = j + 1
    BY <2>1, <2>2 DEF AnnouncedOnce
  <2>4. q[j + 1].block \notin announced2
    BY <2>1, <2>3
  <2>5. \A k \in 1..Len(r) : r[k].type = "start" /\ r[k].block = r[j].block => k + 1 = j + 1
    BY <2>1, <2>3
  <2>. QED BY <2>1, <2>4, <2>5
<1>. QED BY <1>1 DEF AnnouncedOnce, r

LEMMA NumberedMore ==
  ASSUME NEW q \in Seq(Lines), NEW line \in Lines, NEW kinds, Numbered(q, kinds),
         line.type \in BlockLines => line.block \in Items,
         line.block \in Items => kinds[line.block] # None,
         line.type = "tool_result" => kinds[line.block] \in ToolNames
  PROVE  Numbered(Append(q, line), kinds)
<1>1. \A k \in 1..Len(q) + 1 : k \in 1..Len(q) \/ k = Len(q) + 1
  BY OneMore
<1>. QED BY <1>1, OneMore DEF Numbered

LEMMA NumberedLess ==
  ASSUME NEW q \in Seq(Lines), q # <<>>, NEW kinds, Numbered(q, kinds)
  PROVE  Numbered(Tail(q), kinds)
<1>1. \A k \in 1..Len(q) - 1 : k + 1 \in 1..Len(q)
  BY OneLess
<1>. QED BY <1>1, OneLess DEF Numbered

LEMMA AnswersMore ==
  ASSUME NEW q \in Seq(Lines), NEW line \in Lines, NEW input
  PROVE  /\ Unanswered(q, input) /\ ~Answers(line, input) => Unanswered(Append(q, line), input)
         /\ Unanswered(q, input) /\ Answers(line, input) => Answered(Append(q, line), input)
         /\ Plainly(q, input) /\ (line.type \in {"init", "replay"} \/ Answers(line, input))
            => Plainly(Append(q, line), input)
<1>. DEFINE r == Append(q, line)
<1>0. /\ Len(q) \in Nat /\ Len(r) = Len(q) + 1
      /\ \A k \in 1..Len(q) : r[k] = q[k]
      /\ r[Len(q) + 1] = line
  BY OneMore
<1>. HIDE DEF r
<1>1. \A k \in 1..Len(r) : (k \in 1..Len(q) /\ k # Len(r)) \/ k = Len(q) + 1
  BY <1>0
<1>2. Unanswered(q, input) /\ ~Answers(line, input) => Unanswered(r, input)
  BY <1>0, <1>1 DEF Unanswered
<1>3. Unanswered(q, input) /\ Answers(line, input) => Answered(r, input)
  BY <1>0, <1>1 DEF Unanswered, Answered
<1>4. (Plainly(q, input) /\ (line.type \in {"init", "replay"} \/ Answers(line, input)))
      => Plainly(r, input)
  BY <1>0, <1>1 DEF Plainly
<1>. QED BY <1>2, <1>3, <1>4 DEF r

LEMMA AnswersLess ==
  ASSUME NEW q \in Seq(Lines), q # <<>>, NEW input
  PROVE  /\ Unanswered(q, input) => Unanswered(Tail(q), input) /\ ~Answers(q[1], input)
         /\ Answered(q, input) /\ ~Answers(q[1], input) => Answered(Tail(q), input)
         /\ Answered(q, input) /\ Answers(q[1], input) => Tail(q) = <<>>
         /\ Plainly(q, input) => Plainly(Tail(q), input)
<1>. DEFINE r == Tail(q)
<1>0. /\ Len(q) \in Nat \ {0} /\ Len(r) = Len(q) - 1
      /\ \A m \in 1..Len(r) : r[m] = q[m + 1] /\ m + 1 \in 1..Len(q)
      /\ r \in Seq(Lines) /\ 1 \in 1..Len(q)
  BY OneLess
<1>. HIDE DEF r
<1>1. Len(r) = 0 => r = <<>>
  BY <1>0
<1>2. Unanswered(q, input) => Unanswered(r, input) /\ ~Answers(q[1], input)
  BY <1>0 DEF Unanswered
<1>3. ASSUME Answered(q, input), ~Answers(q[1], input) PROVE Answered(r, input)
  <2>1. Len(q) # 1
    BY <1>0, <1>3 DEF Answered
  <2>2. \A m \in 1..Len(r) : Answers(r[m], input) <=> m + 1 = Len(q)
    BY <1>0, <1>3 DEF Answered
  <2>. QED BY <1>0, <2>1, <2>2 DEF Answered
<1>4. Answered(q, input) /\ Answers(q[1], input) => r = <<>>
  BY <1>0, <1>1 DEF Answered
<1>5. Plainly(q, input) => Plainly(r, input)
  BY <1>0 DEF Plainly
<1>. QED BY <1>2, <1>3, <1>4, <1>5 DEF r

LEMMA RepeatsMore ==
  ASSUME NEW q \in Seq(Lines), NEW line \in Lines, NEW replaying, NEW input,
         Repeats(q, replaying, input), line.type # "replay",
         line.type # "result" \/ Answers(line, input)
  PROVE  Repeats(Append(q, line), replaying, input)
<1>. DEFINE r == Append(q, line)
<1>0. /\ Len(q) \in Nat /\ Len(r) = Len(q) + 1
      /\ \A k \in 1..Len(q) : r[k] = q[k]
      /\ r[Len(q) + 1] = line
  BY OneMore
<1>. HIDE DEF r
<1>1. ASSUME NEW k \in 1..Len(r), r[k].type = "replay"
      PROVE  /\ k + 2 <= Len(r)
             /\ r[k + 1].type = "result" /\ ~Answers(r[k + 1], input)
             /\ r[k + 2].type = "init"
  <2>1. k \in 1..Len(q) /\ q[k].type = "replay"
    BY <1>0, <1>1
  <2>2. k + 2 <= Len(q) /\ q[k + 1].type = "result" /\ ~Answers(q[k + 1], input)
        /\ q[k + 2].type = "init"
    BY <2>1 DEF Repeats
  <2>3. k + 1 \in 1..Len(q) /\ k + 2 \in 1..Len(q)
    BY <1>0, <2>2
  <2>. QED BY <1>0, <2>2, <2>3
<1>2. ASSUME NEW k \in 1..Len(r), r[k].type = "result", ~Answers(r[k], input)
      PROVE  IF k = 1 THEN replaying ELSE r[k - 1].type = "replay"
  <2>1. k \in 1..Len(q) /\ r[k] = q[k]
    BY <1>0, <1>2
  <2>2. k # 1 => k - 1 \in 1..Len(q) /\ r[k - 1] = q[k - 1]
    BY <1>0, <2>1
  <2>. QED BY <1>2, <2>1, <2>2 DEF Repeats
<1>3. replaying => \/ Len(r) > 0 /\ r[1].type = "init"
                   \/ /\ Len(r) > 1 /\ r[1].type = "result" /\ ~Answers(r[1], input)
                      /\ r[2].type = "init"
  <2>1. /\ Len(q) > 0 => r[1] = q[1] /\ Len(r) > 0
        /\ Len(q) > 1 => r[2] = q[2] /\ Len(r) > 1
    BY <1>0
  <2>. QED BY <1>0, <2>1 DEF Repeats
<1>. QED BY <1>1, <1>2, <1>3 DEF Repeats, r

(* The three lines of a repeated command.                                  *)
LEMMA RepeatsCycle ==
  ASSUME NEW q \in Seq(Lines), NEW a \in Lines, NEW b \in Lines, NEW c \in Lines,
         NEW replaying, NEW input, Repeats(q, replaying, input),
         a.type = "replay", b.type = "result", ~Answers(b, input), c.type = "init"
  PROVE  Repeats(Append(Append(Append(q, a), b), c), replaying, input)
<1>. DEFINE r == Append(Append(Append(q, a), b), c)
            n == Len(q)
<1>0. /\ n \in Nat /\ Len(r) = n + 3
      /\ \A k \in 1..n : r[k] = q[k]
      /\ r[n + 1] = a /\ r[n + 2] = b /\ r[n + 3] = c
  <2>. DEFINE s == Append(q, a)
              t == Append(s, b)
  <2>1. s \in Seq(Lines) /\ n \in Nat /\ Len(s) = n + 1 /\ s[n + 1] = a
        /\ \A k \in 1..n : s[k] = q[k]
    BY OneMore
  <2>. HIDE DEF s
  <2>2. t \in Seq(Lines) /\ Len(t) = n + 2 /\ t[n + 2] = b /\ \A k \in 1..n + 1 : t[k] = s[k]
    BY <2>1, OneMore
  <2>. HIDE DEF t
  <2>3. Len(Append(t, c)) = n + 3 /\ Append(t, c)[n + 3] = c
        /\ \A k \in 1..n + 2 : Append(t, c)[k] = t[k]
    BY <2>1, <2>2, OneMore
  <2>4. r = Append(t, c)
    BY DEF t, s
  <2>. HIDE DEF r, n
  <2>. QED BY <2>1, <2>2, <2>3, <2>4
<1>. HIDE DEF r
<1>1. \A k \in 1..Len(r) : k \in 1..n \/ k = n + 1 \/ k = n + 2 \/ k = n + 3
  BY <1>0
<1>2. ASSUME NEW k \in 1..Len(r), r[k].type = "replay"
      PROVE  /\ k + 2 <= Len(r)
             /\ r[k + 1].type = "result" /\ ~Answers(r[k + 1], input)
             /\ r[k + 2].type = "init"
  <2>1. CASE k = n + 1
    BY <1>0, <2>1
  <2>2. CASE k \in 1..n
    <3>1. q[k].type = "replay"
      BY <1>0, <1>2, <2>2
    <3>2. k + 2 <= n /\ q[k + 1].type = "result" /\ ~Answers(q[k + 1], input)
          /\ q[k + 2].type = "init"
      BY <2>2, <3>1 DEF Repeats
    <3>3. k + 1 \in 1..n /\ k + 2 \in 1..n
      BY <1>0, <3>2
    <3>. QED BY <1>0, <3>2, <3>3
  <2>. QED BY <1>0, <1>1, <1>2, <2>1, <2>2
<1>3. ASSUME NEW k \in 1..Len(r), r[k].type = "result", ~Answers(r[k], input)
      PROVE  IF k = 1 THEN replaying ELSE r[k - 1].type = "replay"
  <2>1. CASE k = n + 2
    BY <1>0, <2>1
  <2>2. CASE k \in 1..n
    <3>1. k # 1 => k - 1 \in 1..n /\ r[k - 1] = q[k - 1]
      BY <1>0, <2>2
    <3>. QED BY <1>0, <1>3, <2>2, <3>1 DEF Repeats
  <2>. QED BY <1>0, <1>1, <1>3, <2>1, <2>2
<1>4. replaying => \/ Len(r) > 0 /\ r[1].type = "init"
                   \/ /\ Len(r) > 1 /\ r[1].type = "result" /\ ~Answers(r[1], input)
                      /\ r[2].type = "init"
  <2>1. /\ n > 0 => r[1] = q[1] /\ Len(r) > 0
        /\ n > 1 => r[2] = q[2] /\ Len(r) > 1
    BY <1>0
  <2>. QED BY <1>0, <2>1 DEF Repeats
<1>. QED BY <1>2, <1>3, <1>4 DEF Repeats, r

LEMMA RepeatsLess ==
  ASSUME NEW q \in Seq(Lines), q # <<>>, NEW replaying \in BOOLEAN, NEW replaying2, NEW input,
         Repeats(q, replaying, input),
         replaying2 = ((replaying /\ q[1].type # "init") \/ q[1].type = "replay")
  PROVE  /\ Repeats(Tail(q), replaying2, input)
         /\ q[1].type = "result" => (replaying <=> ~Answers(q[1], input))
<1>. DEFINE r == Tail(q)
<1>0. /\ Len(q) \in Nat \ {0} /\ Len(r) = Len(q) - 1
      /\ \A m \in 1..Len(r) : r[m] = q[m + 1] /\ m + 1 \in 1..Len(q)
      /\ 1 \in 1..Len(q)
  BY OneLess
<1>. HIDE DEF r
<1>1. q[1].type = "result" => (replaying <=> ~Answers(q[1], input))
  BY <1>0 DEF Repeats
<1>2. ASSUME NEW k \in 1..Len(r), r[k].type = "replay"
      PROVE  /\ k + 2 <= Len(r)
             /\ r[k + 1].type = "result" /\ ~Answers(r[k + 1], input)
             /\ r[k + 2].type = "init"
  <2>1. k + 1 \in 1..Len(q) /\ q[k + 1].type = "replay"
    BY <1>0, <1>2
  <2>2. /\ (k + 1) + 2 <= Len(q)
        /\ q[(k + 1) + 1].type = "result" /\ ~Answers(q[(k + 1) + 1], input)
        /\ q[(k + 1) + 2].type = "init"
    BY <2>1 DEF Repeats
  <2>3. k + 1 \in 1..Len(r) /\ k + 2 \in 1..Len(r)
    BY <1>0, <2>2
  <2>4. r[k + 1] = q[(k + 1) + 1] /\ r[k + 2] = q[(k + 1) + 2]
    BY <1>0, <2>3
  <2>. QED BY <1>0, <2>2, <2>3, <2>4
<1>3. ASSUME NEW k \in 1..Len(r), r[k].type = "result", ~Answers(r[k], input)
      PROVE  IF k = 1 THEN replaying2 ELSE r[k - 1].type = "replay"
  <2>1. k + 1 \in 1..Len(q) /\ r[k] = q[k + 1] /\ k + 1 # 1 /\ (k + 1) - 1 = k
    BY <1>0
  <2>2. q[k].type = "replay"
    BY <1>3, <2>1 DEF Repeats
  <2>3. k # 1 => k - 1 \in 1..Len(r) /\ r[k - 1] = q[k]
    BY <1>0
  <2>. QED BY <2>2, <2>3
<1>4. ASSUME replaying2
      PROVE  \/ Len(r) > 0 /\ r[1].type = "init"
             \/ /\ Len(r) > 1 /\ r[1].type = "result" /\ ~Answers(r[1], input)
                /\ r[2].type = "init"
  <2>1. CASE q[1].type = "replay"
    <3>1. /\ 1 + 2 <= Len(q)
          /\ q[1 + 1].type = "result" /\ ~Answers(q[1 + 1], input)
          /\ q[1 + 2].type = "init"
      BY <1>0, <2>1 DEF Repeats
    <3>2. r[1] = q[1 + 1] /\ r[2] = q[1 + 2] /\ Len(r) > 1
      BY <1>0, <3>1
    <3>. QED BY <3>1, <3>2
  <2>2. CASE replaying /\ q[1].type # "init"
    <3>1. Len(q) > 1 /\ q[2].type = "init"
      BY <2>2 DEF Repeats
    <3>2. Len(r) > 0 /\ r[1] = q[2]
      BY <1>0, <3>1
    <3>. QED BY <3>1, <3>2
  <2>. QED BY <1>4, <2>1, <2>2
<1>. QED BY <1>1, <1>2, <1>3, <1>4 DEF Repeats, r

-----------------------------------------------------------------------------
(* What the CLI prints.                                                    *)
LEMMA LineFacts ==
  ASSUME NEW type \in LineTypes, NEW of \in Inputs, NEW i \in Indexes,
         NEW block \in Items \cup {None}
  PROVE  /\ Line(type, of, i, block) \in Lines
         /\ Line(type, of, i, block).type = type /\ Line(type, of, i, block).of = of
         /\ Line(type, of, i, block).index = i /\ Line(type, of, i, block).block = block
  BY DEF Line, Lines

LEMMA Printed ==
  ASSUME NEW q \in Seq(Lines), NEW a \in Lines, NEW b \in Lines, NEW c \in Lines
  PROVE  /\ q \o <<a>> = Append(q, a)
         /\ q \o <<a, b>> = Append(Append(q, a), b)
         /\ q \o <<a, b, c>> = Append(Append(Append(q, a), b), c)
  OBVIOUS

(* Blocks are numbered in the order in which they come.                    *)
LEMMA NextIsNew ==
  ASSUME TypeOK, KindInv, NextItem \in Items
  PROVE  /\ kindOf[NextItem] = None
         /\ \A k \in Kinds : LET kinds == [kindOf EXCEPT ![NextItem] = k] IN
              \E n \in 0..MaxItems : \A b \in Items : kinds[b] # None <=> b <= n
<1>1. PICK n \in 0..MaxItems : \A b \in Items : kindOf[b] # None <=> b <= n
  BY DEF KindInv
<1>2. MaxItems \in Nat /\ n \in Nat /\ n <= MaxItems
  BY <1>1, SettingsAssumption
<1>3. {b \in Items : kindOf[b] # None} = 1..n
  BY <1>1, <1>2 DEF Items
<1>4. Cardinality(1..n) = n
  BY <1>2, FS_Interval
<1>5. NextItem = n + 1
  BY <1>3, <1>4 DEF NextItem
<1>6. ASSUME NEW k \in Kinds
      PROVE  \A b \in Items : [kindOf EXCEPT ![NextItem] = k][b] # None <=> b <= n + 1
  BY <1>1, <1>2, <1>5, SettingsAssumption DEF TypeOK, Items
<1>7. n + 1 \in 0..MaxItems
  BY <1>2, <1>5 DEF Items
<1>. QED BY <1>1, <1>2, <1>5, <1>6, <1>7 DEF Items

(* What the lines of a turn satisfy, the model being at block `open' under *)
(* index i with `calls' waiting for their results.                         *)
InTime(q, i, open, kinds, calls) ==
    /\ Placed(q, blocks, i, open)
    /\ CallsKnown(q, tools, kinds, calls)
    /\ Settling(q, started \ finished, dropped, open)
    /\ Unanswered(q, Asked)
    /\ Repeats(q, inReplay, Asked)

Pipe(q, i, open, kinds, calls) ==
    /\ q \in Seq(Lines)
    /\ Numbered(q, kinds)
    /\ AnnouncedOnce(q, started)
    /\ ~behind => InTime(q, i, open, kinds, calls)

LEMMA PipeMore ==
  ASSUME TypeOK, NEW q \in Seq(Lines), NEW line \in Lines, NEW i, NEW open, NEW i2, NEW open2,
         NEW kinds, NEW calls, NEW calls2, Pipe(q, i, open, kinds, calls),
         line.type \notin {"replay", "result"},
         line.type \in BlockLines => line.block \in Items,
         line.block \in Items => kinds[line.block] # None,
         line.type = "tool_result" => kinds[line.block] \in ToolNames /\ line.block \in calls,
         line.type = "start" =>
           /\ line.block \notin started /\ open2 = line.block
           /\ \A k \in 1..Len(q) : q[k].type = "start" => q[k].block # line.block,
         line.type \in {"delta", "stop"} =>
           open # None /\ line.index = i /\ line.block = open,
         open2 # None => \/ Opens(line, i2, open2)
                         \/ open2 = open /\ i2 = i /\ ~Touches(line, i),
         open2 = open \/ open = None \/ Settles(line, open),
         \A b \in calls2 : b \in calls \/ Names(line, b)
  PROVE  Pipe(Append(q, line), i2, open2, kinds, calls2)
<1>1. Append(q, line) \in Seq(Lines)
  OBVIOUS
<1>2. Numbered(Append(q, line), kinds)
  BY NumberedMore DEF Pipe
<1>3. AnnouncedOnce(Append(q, line), started)
  BY AnnouncedMore DEF Pipe
<1>4. ASSUME ~behind PROVE InTime(Append(q, line), i2, open2, kinds, calls2)
  <2>0. InTime(q, i, open, kinds, calls)
    BY <1>4 DEF Pipe
  <2>1. Placed(Append(q, line), blocks, i2, open2)
    BY <2>0, PlacedMore DEF InTime
  <2>2. CallsKnown(Append(q, line), tools, kinds, calls2)
    BY <2>0, CallsMore DEF InTime
  <2>3. Settling(Append(q, line), started \ finished, dropped, open2)
    <3>1. started \ finished \in SUBSET Items /\ Numbered(q, kinds)
      BY DEF TypeOK, Pipe
    <3>2. Settling(q, started \ finished, dropped, open)
      BY <2>0 DEF InTime
    <3>. QED BY <3>1, <3>2, SettlingMore
  <2>4. Unanswered(Append(q, line), Asked)
    <3>1. ~Answers(line, Asked)
      BY DEF Answers
    <3>. QED BY <2>0, <3>1, AnswersMore DEF InTime
  <2>5. Repeats(Append(q, line), inReplay, Asked)
    BY <2>0, RepeatsMore DEF InTime
  <2>. QED BY <2>1, <2>2, <2>3, <2>4, <2>5 DEF InTime
<1>. QED BY <1>1, <1>2, <1>3, <1>4 DEF Pipe

LEMMA PipeOf ==
  ASSUME StreamInv, stage = "turn"
  PROVE  /\ Pipe(queue, index, item, kindOf, pending)
         /\ task \in Inputs
         /\ ~behind => reader = "stream" /\ task = Asked /\ stdin = <<>>
<1>1. task \in Inputs /\ task # None /\ task[1] = "prompt"
  BY DEF StreamInv, BaseInv, CliInv, TypeOK
<1>2. ASSUME ~behind PROVE reader = "stream" /\ task = Asked /\ stdin = <<>> /\ Unanswered(queue, Asked)
  <2>1. reader \in Reading /\ stdin = <<>> /\ task = Asked /\ Unanswered(queue, Asked)
    BY <1>1, <1>2 DEF StreamInv, InTimeInv, InputInv, OneInput
  <2>2. reader = "stream"
    BY <1>1, <2>1 DEF Asked, Reading
  <2>. QED BY <2>1, <2>2
<1>3. ~behind => InTime(queue, index, item, kindOf, pending)
  BY <1>2 DEF StreamInv, InTimeInv, InputInv, LinesInv, InTime
<1>. QED
  BY <1>1, <1>2, <1>3 DEF Pipe, StreamInv, BaseInv, TypeOK, KindInv, ParserInv

(* New kinds are of new blocks.                                            *)
LEMMA PipeKinds ==
  ASSUME NEW q, NEW i, NEW open, NEW calls, NEW kinds, NEW kinds2,
         Pipe(q, i, open, kinds, calls),
         calls \subseteq Items, \A b \in calls : kinds[b] # None,
         None \notin ToolNames,
         \A b \in Items : kinds[b] # None => kinds2[b] = kinds[b]
  PROVE  Pipe(q, i, open, kinds2, calls)
<1>1. \A k \in 1..Len(q) : q[k].block \in Items => kinds2[q[k].block] = kinds[q[k].block]
  BY DEF Pipe, Numbered
<1>2. Numbered(q, kinds2)
  BY <1>1 DEF Pipe, Numbered, BlockLines
<1>3. ASSUME CallsKnown(q, tools, kinds, calls) PROVE CallsKnown(q, tools, kinds2, calls)
  BY <1>1, <1>3 DEF Pipe, Numbered, BlockLines, CallsKnown, Known
<1>. QED BY <1>2, <1>3 DEF Pipe, InTime

(* A step of the CLI in a turn.                                            *)
LEMMA Talked ==
  ASSUME StreamInv, stage = "turn", CliUnchanged, UNCHANGED <<stdin, task, stage, replays>>,
         retries' \in Nat, index' \in 0..2, item' \in Items \cup {None},
         kindOf' \in [Items -> Kinds \cup {None}], pending' \in SUBSET Items,
         item' # None => index' \in Indexes /\ kindOf'[item'] # None,
         \A b \in pending' : kindOf'[b] \in ToolNames,
         \E n \in 0..MaxItems : \A b \in Items : kindOf'[b] # None <=> b <= n,
         \A b \in Items : kindOf[b] # None => kindOf'[b] = kindOf[b],
         Pipe(queue', index', item', kindOf', pending')
  PROVE  StreamInv'
<1>. USE DEF CliUnchanged, parser, history
<1>1. TypeOK'
  BY DEF StreamInv, BaseInv, TypeOK, Pipe
<1>2. CliInv'
  BY DEF StreamInv, BaseInv, CliInv
<1>3. KindInv'
  <2>1. \A b \in started' : kindOf'[b] # None
    BY DEF StreamInv, BaseInv, KindInv, TypeOK
  <2>. QED BY <2>1 DEF KindInv, Pipe
<1>4. ParserInv'
  <2>1. \A i \in Indexes : blocks[i] # None => kindOf'[blocks[i]] = kindOf[blocks[i]]
    BY DEF StreamInv, BaseInv, KindInv, ParserInv, TypeOK
  <2>. QED BY <2>1 DEF StreamInv, BaseInv, ParserInv, Pipe
<1>5. ASSUME ~behind PROVE InTimeInv'
  <2>1. reader = "stream" /\ task = Asked /\ stdin = <<>> /\ Asked' = Asked
    BY <1>5, PipeOf DEF Asked
  <2>2. InTime(queue', index', item', kindOf', pending')
    BY <1>5 DEF Pipe
  <2>3. InputInv'
    BY <2>1, <2>2 DEF InTime, InputInv, OneInput, Reading
  <2>4. LinesInv'
    BY <2>2 DEF InTime, LinesInv
  <2>5. EventInv'
    BY <1>5 DEF StreamInv, InTimeInv, EventInv
  <2>6. ItemsSettled' /\ OwnResultInTime'
    BY <1>5 DEF StreamInv, InTimeInv, ItemsSettled, OwnResultInTime
  <2>. QED BY <2>3, <2>4, <2>5, <2>6 DEF InTimeInv
<1>. QED BY <1>1, <1>2, <1>3, <1>4, <1>5 DEF StreamInv, BaseInv

LEMMA KindsFacts ==
  ASSUME StreamInv, NextItem \in Items, NEW k \in Kinds,
         kindOf' = [kindOf EXCEPT ![NextItem] = k], stage = "turn"
  PROVE  /\ kindOf' \in [Items -> Kinds \cup {None}]
         /\ kindOf[NextItem] = None /\ kindOf'[NextItem] = k /\ k # None
         /\ \A b \in Items : b # NextItem => kindOf'[b] = kindOf[b]
         /\ \E n \in 0..MaxItems : \A b \in Items : kindOf'[b] # None <=> b <= n
         /\ NextItem \notin started /\ NextItem \notin pending
         /\ \A j \in 1..Len(queue) : queue[j].type = "start" => queue[j].block # NextItem
         /\ Pipe(queue, index, item, kindOf', pending)
<1>0. TypeOK /\ KindInv
  BY DEF StreamInv, BaseInv
<1>1. /\ kindOf[NextItem] = None
      /\ \E n \in 0..MaxItems : \A b \in Items : kindOf'[b] # None <=> b <= n
  BY <1>0, NextIsNew
<1>2. /\ kindOf' \in [Items -> Kinds \cup {None}]
      /\ kindOf'[NextItem] = k /\ k # None
      /\ \A b \in Items : b # NextItem => kindOf'[b] = kindOf[b]
  BY <1>0, SettingsAssumption DEF TypeOK
<1>3. NextItem \notin started /\ NextItem \notin pending
  BY <1>0, <1>1, SettingsAssumption DEF KindInv, Kinds
<1>4. \A j \in 1..Len(queue) : queue[j].type = "start" => queue[j].block # NextItem
  BY <1>0, <1>1 DEF KindInv, Numbered, BlockLines
<1>5. Pipe(queue, index, item, kindOf', pending)
  <2>1. \A b \in Items : kindOf[b] # None => kindOf'[b] = kindOf[b]
    BY <1>1, <1>2
  <2>2. pending \subseteq Items /\ \A b \in pending : kindOf[b] # None
    BY <1>0, SettingsAssumption DEF TypeOK, KindInv, Kinds
  <2>3. None \notin ToolNames
    BY SettingsAssumption DEF Kinds
  <2>4. Pipe(queue, index, item, kindOf, pending)
    BY PipeOf
  <2>. QED BY <2>1, <2>2, <2>3, <2>4, PipeKinds
<1>. QED BY <1>1, <1>2, <1>3, <1>4, <1>5

LEMMA OpenStep == StreamInv /\ CliOpenBlock => StreamInv'
<1>. SUFFICES ASSUME StreamInv, CliOpenBlock PROVE StreamInv'
  OBVIOUS
<1>. DEFINE b == NextItem
            first == Line("start", task, index, b)
            second == Line("delta", task, index, b)
<1>0. TypeOK /\ stage = "turn" /\ item = None /\ b \in Items /\ index \in Indexes
  BY DEF CliOpenBlock, Talking, StreamInv, BaseInv
<1>1. PICK k \in Kinds : kindOf' = [kindOf EXCEPT ![b] = k]
  BY DEF CliOpenBlock
<1>2. /\ kindOf' \in [Items -> Kinds \cup {None}]
      /\ kindOf[b] = None /\ kindOf'[b] = k /\ k # None
      /\ \A c \in Items : c # b => kindOf'[c] = kindOf[c]
      /\ \E n \in 0..MaxItems : \A c \in Items : kindOf'[c] # None <=> c <= n
      /\ b \notin started /\ b \notin pending
      /\ \A j \in 1..Len(queue) : queue[j].type = "start" => queue[j].block # b
      /\ Pipe(queue, index, None, kindOf', pending)
  BY <1>0, <1>1, KindsFacts
<1>3. task \in Inputs /\ b # None
  BY <1>0, PipeOf, SettingsAssumption
<1>4. /\ first \in Lines /\ first.type = "start" /\ first.index = index /\ first.block = b
      /\ second \in Lines /\ second.type = "delta" /\ second.index = index /\ second.block = b
  BY <1>0, <1>3, LineFacts DEF LineTypes
<1>5. queue' = Append(Append(queue, first), second)
  BY <1>0, <1>4, Printed DEF CliOpenBlock, Emit, TypeOK
<1>. HIDE DEF first, second, b
<1>6. Pipe(Append(queue, first), index, b, kindOf', pending)
  <2>1. queue \in Seq(Lines) /\ Opens(first, index, b)
    BY <1>0, <1>4 DEF TypeOK, Opens
  <2>2. first.type \notin {"replay", "result", "tool_result", "delta", "stop"}
    BY <1>4
  <2>3. first.block \in Items /\ kindOf'[first.block] # None
    BY <1>0, <1>2, <1>4
  <2>4. /\ first.block \notin started
        /\ \A j \in 1..Len(queue) : queue[j].type = "start" => queue[j].block # first.block
    BY <1>2, <1>4
  <2>. QED BY <1>0, <1>2, <1>4, <2>1, <2>2, <2>3, <2>4, PipeMore
<1>7. Pipe(Append(Append(queue, first), second), index, b, kindOf', pending)
  <2>1. ~Touches(second, index) /\ Append(queue, first) \in Seq(Lines)
    BY <1>0, <1>4 DEF Touches, TypeOK
  <2>. QED BY <1>0, <1>2, <1>3, <1>4, <1>6, <2>1, PipeMore DEF BlockLines
<1>8. /\ CliUnchanged /\ UNCHANGED <<stdin, task, stage, replays>> /\ UNCHANGED <<retries, index, pending>>
      /\ item' = b
  BY DEF CliOpenBlock, b
<1>9. \A c \in pending' : kindOf'[c] \in ToolNames
  BY <1>2, <1>8 DEF StreamInv, BaseInv, KindInv, TypeOK
<1>. QED
  BY <1>0, <1>2, <1>3, <1>5, <1>7, <1>8, <1>9, Talked DEF TypeOK

(* The steps of a turn that number no block.                               *)
LEMMA TalkedOn ==
  ASSUME StreamInv, stage = "turn", CliUnchanged, UNCHANGED <<stdin, task, stage, replays, kindOf>>,
         retries' \in Nat, index' \in 0..2, item' \in {item, None},
         pending' \in SUBSET Items, item' # None => index' = index,
         \A b \in pending' : b \in pending \/ kindOf[b] \in ToolNames,
         Pipe(queue', index', item', kindOf, pending')
  PROVE  StreamInv'
<1>1. /\ kindOf' \in [Items -> Kinds \cup {None}] /\ item' \in Items \cup {None}
      /\ item' # None => index' \in Indexes /\ kindOf'[item'] # None
      /\ \A b \in pending' : kindOf'[b] \in ToolNames
      /\ \E n \in 0..MaxItems : \A b \in Items : kindOf'[b] # None <=> b <= n
  BY DEF StreamInv, BaseInv, TypeOK, CliInv, KindInv
<1>. QED BY <1>1, Talked

LEMMA CloseStep == StreamInv /\ CliCloseBlock => StreamInv'
<1>. SUFFICES ASSUME StreamInv, CliCloseBlock PROVE StreamInv'
  OBVIOUS
<1>. DEFINE first == Line("assistant", task, 0, item)
            second == Line("stop", task, index, item)
<1>0. /\ TypeOK /\ stage = "turn" /\ item \in Items /\ item # None /\ index \in Indexes
      /\ kindOf[item] # None
  BY DEF CliCloseBlock, Talking, StreamInv, BaseInv, CliInv, KindInv, TypeOK
<1>1. task \in Inputs /\ Pipe(queue, index, item, kindOf, pending)
  BY <1>0, PipeOf
<1>2. /\ first \in Lines /\ first.type = "assistant" /\ first.index = 0 /\ first.block = item
      /\ second \in Lines /\ second.type = "stop" /\ second.index = index
      /\ second.block = item
  BY <1>0, <1>1, LineFacts DEF LineTypes, Indexes
<1>3. queue' = Append(Append(queue, first), second)
  BY <1>0, <1>2, Printed DEF CliCloseBlock, Emit, TypeOK
<1>4. /\ CliUnchanged /\ UNCHANGED <<stdin, task, stage, replays, kindOf>> /\ UNCHANGED retries
      /\ item' = None /\ index' = index + 1
      /\ pending' \subseteq pending \cup {item}
      /\ item \in pending' => item \in pending \/ kindOf[item] \in ToolNames
  BY DEF CliCloseBlock
<1>. HIDE DEF first, second
<1>5. Pipe(Append(queue, first), index, item, kindOf, pending')
  <2>1. ~Touches(first, index) /\ \A b \in pending' : b \in pending \/ Names(first, b)
    BY <1>2, <1>4 DEF Touches, Names
  <2>. QED BY <1>0, <1>1, <1>2, <2>1, PipeMore DEF BlockLines, TypeOK
<1>6. Pipe(Append(Append(queue, first), second), index', None, kindOf, pending')
  <2>1. Settles(second, item) /\ Append(queue, first) \in Seq(Lines)
    BY <1>0, <1>2 DEF Settles, TypeOK
  <2>. QED BY <1>0, <1>2, <1>5, <2>1, PipeMore DEF BlockLines
<1>7. index' \in 0..2 /\ pending' \in SUBSET Items /\ retries' \in Nat
  BY <1>0, <1>4 DEF TypeOK, Indexes
<1>8. \A b \in pending' : b \in pending \/ kindOf[b] \in ToolNames
  BY <1>4
<1>. QED BY <1>0, <1>3, <1>4, <1>6, <1>7, <1>8, TalkedOn

(* One line that leaves the block as it is.                                *)
LEMMA EndMessageStep == StreamInv /\ CliEndMessage => StreamInv'
<1>. SUFFICES ASSUME StreamInv, CliEndMessage PROVE StreamInv'
  OBVIOUS
<1>. DEFINE line == Line("message_stop", task, 0, None)
<1>0. TypeOK /\ stage = "turn" /\ item = None
  BY DEF CliEndMessage, Talking, StreamInv, BaseInv
<1>1. task \in Inputs /\ Pipe(queue, index, None, kindOf, pending)
  BY <1>0, PipeOf
<1>2. line \in Lines /\ line.type = "message_stop" /\ line.block = None
  BY <1>1, LineFacts DEF LineTypes, Indexes
<1>3. queue' = Append(queue, line)
  BY <1>0, <1>2, Printed DEF CliEndMessage, Emit, Plain, TypeOK
<1>4. /\ CliUnchanged /\ UNCHANGED <<stdin, task, stage, replays, kindOf>> /\ UNCHANGED retries
      /\ item' = item /\ index' = 0 /\ pending' = pending
  BY DEF CliEndMessage
<1>. HIDE DEF line
<1>5. Pipe(Append(queue, line), index', None, kindOf, pending)
  BY <1>0, <1>1, <1>2, SettingsAssumption, PipeMore DEF BlockLines, TypeOK
<1>6. index' \in 0..2 /\ pending' \in SUBSET Items /\ retries' \in Nat
  BY <1>0, <1>4 DEF TypeOK
<1>. QED BY <1>0, <1>3, <1>4, <1>5, <1>6, TalkedOn

LEMMA SubagentStep == StreamInv /\ CliSubagentCall => StreamInv'
<1>. SUFFICES ASSUME StreamInv, CliSubagentCall PROVE StreamInv'
  OBVIOUS
<1>. DEFINE b == NextItem
            line == Line("assistant", task, 0, b)
<1>0. TypeOK /\ stage = "turn" /\ b \in Items
  BY DEF CliSubagentCall, Talking, StreamInv, BaseInv
<1>1. PICK k \in ToolNames : kindOf' = [kindOf EXCEPT ![b] = k]
  BY DEF CliSubagentCall
<1>2. k \in Kinds
  BY DEF Kinds
<1>3. /\ kindOf' \in [Items -> Kinds \cup {None}]
      /\ kindOf[b] = None /\ kindOf'[b] = k /\ k # None
      /\ \A c \in Items : c # b => kindOf'[c] = kindOf[c]
      /\ \E n \in 0..MaxItems : \A c \in Items : kindOf'[c] # None <=> c <= n
      /\ Pipe(queue, index, item, kindOf', pending)
  BY <1>0, <1>1, <1>2, KindsFacts
<1>4. task \in Inputs
  BY <1>0, PipeOf
<1>5. line \in Lines /\ line.type = "assistant" /\ line.block = b
  BY <1>0, <1>4, LineFacts DEF LineTypes, Indexes
<1>6. queue' = Append(queue, line)
  BY <1>0, <1>5, Printed DEF CliSubagentCall, Emit, TypeOK
<1>7. /\ CliUnchanged /\ UNCHANGED <<stdin, task, stage, replays>> /\ UNCHANGED <<retries, index, item>>
      /\ pending' = pending \cup {b}
  BY DEF CliSubagentCall, b
<1>. HIDE DEF line, b
<1>8. Pipe(Append(queue, line), index, item, kindOf', pending')
  <2>1. ~Touches(line, index) /\ \A c \in pending' : c \in pending \/ Names(line, c)
    BY <1>5, <1>7 DEF Touches, Names
  <2>. QED BY <1>0, <1>3, <1>5, <2>1, PipeMore DEF BlockLines, TypeOK
<1>9. item' # None => index' \in Indexes /\ kindOf'[item'] # None
  BY <1>3, <1>7 DEF StreamInv, BaseInv, CliInv, KindInv, TypeOK
<1>10. \A c \in pending' : kindOf'[c] \in ToolNames
  BY <1>1, <1>3, <1>7 DEF StreamInv, BaseInv, KindInv, TypeOK
<1>11. \A c \in Items : kindOf[c] # None => kindOf'[c] = kindOf[c]
  BY <1>3
<1>12. retries' \in Nat /\ index' \in 0..2 /\ item' \in Items \cup {None} /\ pending' \in SUBSET Items
  BY <1>0, <1>7 DEF TypeOK
<1>. QED BY <1>0, <1>3, <1>6, <1>7, <1>8, <1>9, <1>10, <1>11, <1>12, Talked

LEMMA ToolResultStep == StreamInv /\ CliToolResult => StreamInv'
<1>. SUFFICES ASSUME StreamInv, CliToolResult PROVE StreamInv'
  OBVIOUS
<1>0. TypeOK /\ stage = "turn"
  BY DEF CliToolResult, Talking, StreamInv, BaseInv
<1>1. task \in Inputs /\ Pipe(queue, index, item, kindOf, pending)
  BY <1>0, PipeOf
<1>2. PICK call \in pending : /\ pending' = pending \ {call}
                              /\ Emit(<<Line("tool_result", task, 0, call)>>)
  BY DEF CliToolResult
<1>. DEFINE line == Line("tool_result", task, 0, call)
<1>3. call \in Items /\ kindOf[call] \in ToolNames /\ None \notin ToolNames
  BY <1>0, SettingsAssumption DEF StreamInv, BaseInv, KindInv, TypeOK, Kinds
<1>4. line \in Lines /\ line.type = "tool_result" /\ line.block = call
  BY <1>1, <1>3, LineFacts DEF LineTypes, Indexes
<1>5. queue' = Append(queue, line)
  BY <1>0, <1>2, <1>4, Printed DEF Emit, TypeOK
<1>6. /\ CliUnchanged /\ UNCHANGED <<stdin, task, stage, replays, kindOf>> /\ UNCHANGED <<retries, index, item>>
  BY DEF CliToolResult
<1>. HIDE DEF line
<1>7. Pipe(Append(queue, line), index, item, kindOf, pending')
  <2>1. ~Touches(line, index)
    BY <1>4 DEF Touches
  <2>. QED BY <1>0, <1>1, <1>2, <1>3, <1>4, <2>1, PipeMore DEF BlockLines, TypeOK
<1>8. retries' \in Nat /\ index' \in 0..2 /\ pending' \in SUBSET Items
  BY <1>0, <1>2, <1>6 DEF TypeOK
<1>. QED BY <1>0, <1>2, <1>5, <1>6, <1>7, <1>8, TalkedOn

LEMMA RetryStep == StreamInv /\ CliRetry => StreamInv'
<1>. SUFFICES ASSUME StreamInv, CliRetry PROVE StreamInv'
  OBVIOUS
<1>0. TypeOK /\ stage = "turn" /\ item \in Items \cup {None}
  BY DEF CliRetry, Talking, StreamInv, BaseInv, TypeOK
<1>1. task \in Inputs /\ Pipe(queue, index, item, kindOf, pending)
  BY <1>0, PipeOf
<1>2. PICK last \in 0..1 : Emit(<<Line("api_retry", task, last, item)>>)
  BY DEF CliRetry
<1>. DEFINE line == Line("api_retry", task, last, item)
<1>3. line \in Lines /\ line.type = "api_retry" /\ line.block = item
  BY <1>0, <1>1, LineFacts DEF LineTypes, Indexes
<1>4. queue' = Append(queue, line)
  BY <1>0, <1>2, <1>3, Printed DEF Emit, TypeOK
<1>5. /\ CliUnchanged /\ UNCHANGED <<stdin, task, stage, replays, kindOf>>
      /\ retries' = retries + 1 /\ index' = 0 /\ item' = None /\ pending' \subseteq pending
  BY DEF CliRetry
<1>. HIDE DEF line
<1>6. Pipe(Append(queue, line), index', None, kindOf, pending')
  <2>1. Settles(line, item)
    BY <1>3 DEF Settles
  <2>2. line.block \in Items => kindOf[line.block] # None
    BY <1>3, SettingsAssumption DEF StreamInv, BaseInv, KindInv
  <2>3. \A b \in pending' : b \in pending \/ Names(line, b)
    BY <1>5
  <2>. QED BY <1>0, <1>1, <1>3, <2>1, <2>2, <2>3, PipeMore DEF BlockLines, TypeOK
<1>7. retries' \in Nat /\ index' \in 0..2 /\ pending' \in SUBSET Items
  BY <1>0, <1>5 DEF TypeOK
<1>8. \A b \in pending' : b \in pending
  BY <1>5
<1>. QED BY <1>0, <1>4, <1>5, <1>6, <1>7, <1>8, TalkedOn

(* Lines without a block say nothing of blocks.                            *)
Content(q) ==
    /\ q \in Seq(Lines)
    /\ Numbered(q, kindOf) /\ AnnouncedOnce(q, started)
    /\ ~behind => /\ Placed(q, blocks, index, item)
                  /\ CallsKnown(q, tools, kindOf, pending)
                  /\ Settling(q, started \ finished, dropped, item)

LEMMA ContentMore ==
  ASSUME TypeOK, NEW q, NEW line \in Lines, Content(q),
         line.type \in {"init", "replay", "result"}, line.block = None
  PROVE  Content(Append(q, line))
<1>0. /\ q \in Seq(Lines) /\ line.block \notin Items /\ ~Touches(line, index)
      /\ line.type \notin BlockLines
  BY SettingsAssumption DEF Content, Touches, BlockLines
<1>1. Append(q, line) \in Seq(Lines)
  BY <1>0
<1>2. Numbered(Append(q, line), kindOf)
  BY <1>0, NumberedMore DEF Content, BlockLines
<1>3. AnnouncedOnce(Append(q, line), started)
  BY <1>0, AnnouncedMore DEF Content, BlockLines
<1>4. ASSUME ~behind PROVE Placed(Append(q, line), blocks, index, item)
  BY <1>0, <1>4, PlacedMore DEF Content, BlockLines
<1>5. ASSUME ~behind PROVE CallsKnown(Append(q, line), tools, kindOf, pending)
  BY <1>0, <1>5, CallsMore DEF Content, BlockLines
<1>6. ASSUME ~behind PROVE Settling(Append(q, line), started \ finished, dropped, item)
  <2>1. started \ finished \in SUBSET Items /\ Numbered(q, kindOf)
        /\ Settling(q, started \ finished, dropped, item)
    BY <1>6 DEF TypeOK, Content
  <2>. QED BY <1>0, <2>1, SettlingMore DEF BlockLines
<1>. QED BY <1>1, <1>2, <1>3, <1>4, <1>5, <1>6 DEF Content

LEMMA ContentOf == StreamInv => Content(queue) /\ TypeOK /\ queue \in Seq(Lines)
  BY DEF StreamInv, BaseInv, TypeOK, KindInv, ParserInv, InTimeInv, LinesInv, Content

(* A step of the CLI that starts or ends an input, or repeats a command.   *)
LEMMA Quieted ==
  ASSUME StreamInv, CliUnchanged, UNCHANGED <<retries, message>>, Content(queue'),
         stdin' \in Seq(Inputs), task' \in Inputs \cup {None},
         stage' \in {"none", "turn", "command"}, replays' \in Nat,
         task' = None <=> stage' = "none",
         task' # None => (stage' = "turn" <=> task'[1] = "prompt"),
         stage' # "turn" => item = None /\ index = 0 /\ pending = {} /\ replays' = 0,
         ~behind => InputInv'
  PROVE  StreamInv'
<1>. USE DEF CliUnchanged, parser, history, message
<1>1. TypeOK'
  BY DEF StreamInv, BaseInv, TypeOK, Content
<1>2. CliInv'
  BY DEF StreamInv, BaseInv, CliInv
<1>3. KindInv'
  BY DEF StreamInv, BaseInv, KindInv, Content
<1>4. ParserInv'
  BY DEF StreamInv, BaseInv, ParserInv, Content
<1>5. ASSUME ~behind PROVE InTimeInv'
  <2>1. LinesInv'
    BY <1>5 DEF Content, LinesInv
  <2>2. EventInv'
    BY <1>5 DEF StreamInv, InTimeInv, EventInv
  <2>3. ItemsSettled' /\ OwnResultInTime'
    BY <1>5 DEF StreamInv, InTimeInv, ItemsSettled, OwnResultInTime
  <2>. QED BY <1>5, <2>1, <2>2, <2>3 DEF InTimeInv
<1>. QED BY <1>1, <1>2, <1>3, <1>4, <1>5 DEF StreamInv, BaseInv

LEMMA AskedFacts ==
  /\ Asked[1] = (IF reader = "stream" THEN "prompt" ELSE reader)
  /\ reader \in Reading => (Asked[1] = "prompt" <=> reader = "stream")
  BY DEF Asked, Reading

LEMMA TakeStep == StreamInv /\ CliTake => StreamInv'
<1>. SUFFICES ASSUME StreamInv, CliTake PROVE StreamInv'
  OBVIOUS
<1>. DEFINE input == Head(stdin)
            first == Line("init", input, 0, None)
            second == Line("replay", input, 0, None)
<1>0. /\ TypeOK /\ Content(queue) /\ queue \in Seq(Lines)
      /\ task = None /\ stage = "none" /\ stdin \in Seq(Inputs) /\ stdin # <<>>
      /\ item = None /\ index = 0 /\ pending = {} /\ replays = 0
  BY ContentOf DEF CliTake, StreamInv, BaseInv, CliInv, TypeOK
<1>1. input \in Inputs /\ input # None /\ stdin' \in Seq(Inputs)
  BY <1>0, SettingsAssumption DEF CliTake
<1>2. /\ first \in Lines /\ first.type = "init" /\ first.block = None
      /\ second \in Lines /\ second.type = "replay" /\ second.block = None
  BY <1>1, LineFacts DEF LineTypes, Indexes
<1>3. \/ queue' = Append(queue, first)
      \/ input[1] # "prompt" /\ queue' = Append(Append(queue, first), second)
  <2>1. queue \o <<first>> = Append(queue, first)
        /\ queue \o <<first, second>> = Append(Append(queue, first), second)
    BY <1>0, <1>2, Printed
  <2>2. \/ queue' = queue \o <<first>>
        \/ input[1] # "prompt" /\ queue' = queue \o <<first, second>>
    BY DEF CliTake, Emit
  <2>. QED BY <2>1, <2>2
<1>4. /\ CliUnchanged /\ UNCHANGED <<retries, message>> /\ task' = input
      /\ stage' = IF input[1] = "prompt" THEN "turn" ELSE "command"
      /\ input[1] # "prompt" => replays' = replays
  BY DEF CliTake
<1>5. replays' \in Nat
  BY <1>0, SettingsAssumption DEF CliTake
<1>. HIDE DEF first, second, input
<1>6. Content(Append(queue, first))
  BY <1>0, <1>2, ContentMore
<1>7. Content(Append(Append(queue, first), second))
  BY <1>0, <1>2, <1>6, ContentMore
<1>8. ASSUME ~behind PROVE InputInv'
  <2>1. reader \in Reading /\ stdin = <<Asked>> /\ queue = <<>>
    BY <1>0, <1>8 DEF StreamInv, InTimeInv, InputInv, OneInput
  <2>2. stdin' = <<>> /\ input = Asked /\ Asked' = Asked /\ reader' = reader
        /\ inReplay' = inReplay
    <3>1. Tail(<<Asked>>) = <<>> /\ Head(<<Asked>>) = Asked
      OBVIOUS
    <3>. QED BY <1>4, <2>1, <3>1 DEF CliTake, input, CliUnchanged, Asked, parser
  <2>3. Unanswered(queue, Asked) /\ Append(queue, first) \in Seq(Lines)
        /\ ~Answers(first, Asked) /\ ~Answers(second, Asked)
    BY <1>0, <1>2, <2>1 DEF Unanswered, Answers
  <2>4. Unanswered(Append(queue, first), Asked)
        /\ Unanswered(Append(Append(queue, first), second), Asked)
    BY <1>0, <1>2, <2>3, AnswersMore
  <2>5. Unanswered(queue', Asked)
    BY <1>3, <2>4
  <2>6. ASSUME reader = "stream" PROVE Repeats(queue', inReplay, Asked)
    <3>1. queue' = Append(queue, first)
      BY <1>3, <2>2, <2>6, AskedFacts
    <3>2. Repeats(queue, inReplay, Asked)
      BY <1>8, <2>6 DEF StreamInv, InTimeInv, InputInv
    <3>. QED BY <1>0, <1>2, <3>1, <3>2, RepeatsMore
  <2>7. ASSUME reader # "stream" PROVE ~inReplay /\ Plainly(queue', Asked)
    <3>1. ~inReplay /\ Plainly(queue, Asked)
      BY <1>8, <2>7 DEF StreamInv, InTimeInv, InputInv
    <3>2. Plainly(Append(queue, first), Asked)
      BY <1>0, <1>2, <3>1, AnswersMore
    <3>3. Plainly(Append(Append(queue, first), second), Asked)
      BY <1>2, <2>3, <3>2, AnswersMore
    <3>. QED BY <1>3, <3>1, <3>2, <3>3
  <2>. QED BY <1>4, <2>1, <2>2, <2>5, <2>6, <2>7 DEF InputInv, OneInput
<1>9. Content(queue')
  BY <1>3, <1>6, <1>7
<1>10. stage' # "turn" => replays' = 0
  BY <1>0, <1>4
<1>. QED BY <1>0, <1>1, <1>4, <1>5, <1>8, <1>9, <1>10, Quieted

LEMMA ReplayStep == StreamInv /\ CliReplay => StreamInv'
<1>. SUFFICES ASSUME StreamInv, CliReplay PROVE StreamInv'
  OBVIOUS
<1>. DEFINE of == <<"replay", task[2]>>
            first == Line("replay", of, 0, None)
            second == Line("result", of, 0, None)
            third == Line("init", task, 0, None)
<1>0. /\ TypeOK /\ Content(queue) /\ queue \in Seq(Lines) /\ stage = "turn"
      /\ task \in Inputs /\ task # None /\ task[1] = "prompt"
      /\ ~behind => reader = "stream" /\ task = Asked /\ stdin = <<>>
  BY ContentOf, PipeOf DEF CliReplay, StreamInv, BaseInv, CliInv
<1>1. of \in Inputs /\ of[1] = "replay"
  BY <1>0 DEF Inputs
<1>2. /\ first \in Lines /\ first.type = "replay" /\ first.block = None
      /\ second \in Lines /\ second.type = "result" /\ second.block = None /\ second.of = of
      /\ third \in Lines /\ third.type = "init" /\ third.block = None
  BY <1>0, <1>1, LineFacts DEF LineTypes, Indexes
<1>3. queue' = Append(Append(Append(queue, first), second), third)
  <2>1. queue' = queue \o <<first, second, third>>
    BY DEF CliReplay, Emit, Plain
  <2>2. queue \o <<first, second, third>> = Append(Append(Append(queue, first), second), third)
    <3>. HIDE DEF first, second, third
    <3>. QED BY <1>0, <1>2, Printed
  <2>. QED BY <2>1, <2>2
<1>4. /\ CliUnchanged /\ UNCHANGED <<retries, message>> /\ UNCHANGED <<stdin, task, stage>>
      /\ replays' = replays - 1 /\ replays > 0
  BY DEF CliReplay
<1>. HIDE DEF first, second, third, of
<1>5. Content(Append(queue, first))
  BY <1>0, <1>2, ContentMore
<1>6. Content(Append(Append(queue, first), second))
  BY <1>0, <1>2, <1>5, ContentMore
<1>7. Content(queue')
  BY <1>0, <1>2, <1>3, <1>6, ContentMore
<1>8. ASSUME ~behind PROVE InputInv'
  <2>1. reader = "stream" /\ task = Asked /\ stdin = <<>> /\ Unanswered(queue, Asked)
        /\ Repeats(queue, inReplay, Asked) /\ Asked' = Asked /\ reader' = reader
        /\ inReplay' = inReplay
    BY <1>0, <1>4, <1>8, PipeOf DEF Pipe, InTime, CliUnchanged, Asked, parser
  <2>2. ~Answers(first, Asked) /\ ~Answers(second, Asked) /\ ~Answers(third, Asked)
    BY <1>1, <1>2, <2>1, AskedFacts DEF Answers
  <2>3. Repeats(queue', inReplay, Asked)
    BY <1>0, <1>2, <1>3, <2>1, <2>2, RepeatsCycle
  <2>4. Unanswered(Append(queue, first), Asked) /\ Append(queue, first) \in Seq(Lines)
    BY <1>0, <1>2, <2>1, <2>2, AnswersMore
  <2>5. Unanswered(Append(Append(queue, first), second), Asked)
    BY <1>2, <2>2, <2>4, AnswersMore
  <2>7. Append(Append(queue, first), second) \in Seq(Lines)
    BY <1>2, <2>4, OneMore
  <2>6. Unanswered(queue', Asked)
    BY <1>2, <1>3, <2>2, <2>5, <2>7, AnswersMore
  <2>. QED BY <1>4, <2>1, <2>3, <2>6 DEF InputInv, OneInput, Reading
<1>9. replays' \in Nat /\ stdin \in Seq(Inputs)
  BY <1>0, <1>4 DEF TypeOK
<1>. QED BY <1>0, <1>4, <1>7, <1>8, <1>9, Quieted

LEMMA ResultStep == StreamInv /\ CliResult => StreamInv'
<1>. SUFFICES ASSUME StreamInv, CliResult PROVE StreamInv'
  OBVIOUS
<1>. DEFINE line == Line("result", task, 0, None)
<1>0. /\ TypeOK /\ Content(queue) /\ queue \in Seq(Lines) /\ task \in Inputs /\ task # None
      /\ item = None /\ index = 0 /\ pending = {} /\ replays = 0
  BY ContentOf DEF CliResult, Talking, StreamInv, BaseInv, CliInv, TypeOK
<1>1. line \in Lines /\ line.type = "result" /\ line.block = None /\ line.of = task
  BY <1>0, LineFacts DEF LineTypes, Indexes
<1>2. queue' = Append(queue, line)
  BY <1>0, <1>1, Printed DEF CliResult, Emit, Plain
<1>3. /\ CliUnchanged /\ UNCHANGED <<retries, message>> /\ UNCHANGED <<stdin, replays>>
      /\ task' = None /\ stage' = "none"
  BY DEF CliResult
<1>. HIDE DEF line
<1>4. Content(queue')
  BY <1>0, <1>1, <1>2, ContentMore
<1>5. ASSUME ~behind PROVE InputInv'
  <2>1. reader \in Reading /\ task = Asked /\ stdin = <<>> /\ Unanswered(queue, Asked)
    BY <1>0, <1>5 DEF StreamInv, InTimeInv, InputInv, OneInput
  <2>2. Asked' = Asked /\ reader' = reader /\ inReplay' = inReplay
    BY <1>3 DEF CliUnchanged, Asked, parser
  <2>3. Answers(line, Asked)
    BY <1>1, <2>1 DEF Answers
  <2>4. Answered(queue', Asked)
    BY <1>0, <1>1, <1>2, <2>1, <2>3, AnswersMore
  <2>5. ASSUME reader = "stream" PROVE Repeats(queue', inReplay, Asked)
    <3>1. Repeats(queue, inReplay, Asked)
      BY <1>5, <2>5 DEF StreamInv, InTimeInv, InputInv
    <3>. QED BY <1>0, <1>1, <1>2, <2>3, <3>1, RepeatsMore
  <2>6. ASSUME reader # "stream" PROVE ~inReplay /\ Plainly(queue', Asked)
    <3>1. ~inReplay /\ Plainly(queue, Asked)
      BY <1>5, <2>6 DEF StreamInv, InTimeInv, InputInv
    <3>. QED BY <1>0, <1>1, <1>2, <2>3, <3>1, AnswersMore
  <2>. QED BY <1>3, <2>1, <2>2, <2>4, <2>5, <2>6 DEF InputInv, OneInput
<1>6. stdin' \in Seq(Inputs) /\ replays' \in Nat
  BY <1>0, <1>3 DEF TypeOK
<1>. QED BY <1>0, <1>3, <1>4, <1>5, <1>6, Quieted

-----------------------------------------------------------------------------
(* What is parsed.  A line does to the state of the parser, and to the     *)
(* history of items, what follows from its type; the rest is the event.    *)
ParsedState ==
    /\ reader = "stream" /\ queue # <<>> /\ queue' = Tail(queue)
    /\ blocks' = Taken(Read, blocks)
    /\ tools' = Learned(Read, tools, kindOf)
    /\ started' = IF Read.type = "start" THEN started \cup {Read.block} ELSE started
    /\ finished' = IF Read.type = "stop" /\ blocks[Read.index] # None
                     THEN finished \cup {blocks[Read.index]} ELSE finished
    /\ dropped' = IF Read.type = "api_retry" THEN dropped \cup {Read.block} ELSE dropped
    /\ turnCount' \in Nat /\ inReplay' \in BOOLEAN
    /\ UNCHANGED <<turn, spawned, behind, cli>>

LEMMA ReadFacts ==
  ASSUME StreamInv, queue # <<>>
  PROVE  /\ queue \in Seq(Lines) /\ Len(queue) \in Nat \ {0} /\ Tail(queue) \in Seq(Lines)
         /\ Read = queue[1] /\ Read \in Lines /\ 1 \in 1..Len(queue)
         /\ Read.type \in BlockLines => Read.block \in Items
         /\ Read.block \in Items => kindOf[Read.block] # None
         /\ Read.type = "tool_result" => kindOf[Read.block] \in ToolNames
         /\ Read.type = "start" => Read.block \notin started
         /\ Read.index \in Indexes /\ Read.type \in LineTypes
<1>0. queue \in Seq(Lines)
  BY DEF StreamInv, BaseInv, TypeOK
<1>1. /\ Len(queue) \in Nat \ {0} /\ Tail(queue) \in Seq(Lines)
      /\ Read = queue[1] /\ Read \in Lines /\ 1 \in 1..Len(queue)
  BY <1>0, OneLess DEF Read
<1>2. Numbered(queue, kindOf) /\ AnnouncedOnce(queue, started)
  BY DEF StreamInv, BaseInv, KindInv, ParserInv
<1>. HIDE DEF Read
<1>3. Read.index \in Indexes /\ Read.type \in LineTypes
  BY <1>1 DEF Lines
<1>. QED BY <1>0, <1>1, <1>2, <1>3 DEF Numbered, AnnouncedOnce

LEMMA ParsedBase ==
  ASSUME StreamInv, ParsedState, reader' \in {"stream", "askContext"},
         endedBy' \in [1..MaxTurns -> Inputs \cup {None}],
         \A t \in 1..MaxTurns : t > turn => endedBy'[t] = None
  PROVE  BaseInv'
<1>0. /\ TypeOK /\ CliInv /\ KindInv /\ ParserInv
      /\ queue # <<>> /\ queue \in Seq(Lines) /\ Read = queue[1]
  BY ReadFacts DEF StreamInv, BaseInv, ParsedState
<1>1. /\ Read \in Lines /\ Tail(queue) \in Seq(Lines)
      /\ Read.type \in BlockLines => Read.block \in Items
      /\ Read.block \in Items => kindOf[Read.block] # None
      /\ Read.type = "start" => Read.block \notin started
      /\ Read.index \in Indexes
  BY <1>0, ReadFacts
<1>. HIDE DEF Read
<1>2. /\ blocks' = [j \in Indexes |-> IF Touches(Read, j)
                     THEN IF Read.type = "start" THEN Read.block ELSE None ELSE blocks[j]]
      /\ blocks' \in [Indexes -> Items \cup {None}]
  BY <1>0, <1>1 DEF ParsedState, Taken, TypeOK, BlockLines
<1>3. /\ tools' \in [Items -> ToolNames \cup {None}]
      /\ \A b \in Items : \/ tools'[b] = tools[b] /\ ~Names(Read, b)
                          \/ tools'[b] = tools[b] /\ kindOf[b] \notin ToolNames
                          \/ tools'[b] = kindOf[b]
  <2>1. CASE Read.type \in {"start", "assistant"} /\ kindOf[Read.block] \in ToolNames
    <3>1. tools' = [tools EXCEPT ![Read.block] = kindOf[Read.block]] /\ Read.block \in Items
      BY <1>1, <2>1 DEF ParsedState, Learned, BlockLines
    <3>. QED BY <1>0, <2>1, <3>1 DEF TypeOK, Names
  <2>2. CASE ~(Read.type \in {"start", "assistant"} /\ kindOf[Read.block] \in ToolNames)
    <3>1. tools' = tools
      BY <2>2 DEF ParsedState, Learned
    <3>. QED BY <1>0, <2>2, <3>1 DEF TypeOK, Names
  <2>. QED BY <2>1, <2>2
<1>4. /\ started \subseteq started' /\ started' \subseteq Items
      /\ finished' \subseteq started'
      /\ \A b \in started' : b \in started \/ (Read.type = "start" /\ Read.block = b)
      /\ \A b \in finished' : \/ b \in finished
                              \/ (Read.type = "stop" /\ b = blocks[Read.index] /\ b # None)
  BY <1>0, <1>1 DEF ParsedState, TypeOK, ParserInv, BlockLines
<1>5. TypeOK'
  BY <1>0, <1>1, <1>2, <1>3, <1>4 DEF TypeOK, ParsedState, cli, message
<1>6. CliInv'
  BY <1>0 DEF CliInv, ParsedState, cli, message
<1>7. KindInv'
  <2>1. Numbered(queue', kindOf)
    BY <1>0, NumberedLess DEF KindInv, ParsedState
  <2>2. \A b \in started' : kindOf[b] # None
    BY <1>0, <1>1, <1>4 DEF KindInv, BlockLines
  <2>. QED BY <1>0, <2>1, <2>2 DEF KindInv, ParsedState, cli, message
<1>8. ParserInv'
  <2>1. AnnouncedOnce(queue', started')
    BY <1>0, <1>4, AnnouncedLess DEF ParserInv, ParsedState
  <2>2. \A j \in Indexes : \/ blocks'[j] = None
                           \/ Touches(Read, j) /\ Read.type = "start" /\ blocks'[j] = Read.block
                           \/ blocks'[j] = blocks[j] /\ ~Touches(Read, j)
    BY <1>2
  <2>3. \A j \in Indexes : blocks'[j] # None => blocks'[j] \in started' \ finished'
    <3>1. ASSUME NEW j \in Indexes, blocks'[j] # None, Touches(Read, j), Read.type = "start",
                 blocks'[j] = Read.block
          PROVE  blocks'[j] \in started' \ finished'
      BY <1>0, <1>1, <1>4, <3>1 DEF ParsedState, TypeOK
    <3>2. ASSUME NEW j \in Indexes, blocks'[j] # None, blocks'[j] = blocks[j], ~Touches(Read, j)
          PROVE  blocks'[j] \in started' \ finished'
      <4>1. blocks[j] \in started \ finished
        BY <1>0, <3>2 DEF ParserInv
      <4>2. Read.type = "stop" => blocks[j] # blocks[Read.index]
        BY <1>0, <1>1, <3>2 DEF ParserInv, Touches
      <4>. QED BY <1>4, <3>2, <4>1, <4>2
    <3>. QED BY <2>2, <3>1, <3>2
  <2>4. \A i, j \in Indexes : blocks'[i] = blocks'[j] /\ blocks'[i] # None => i = j
    <3>1. \A j \in Indexes : Read.type = "start" /\ blocks[j] # None => blocks[j] # Read.block
      BY <1>0, <1>1 DEF ParserInv
    <3>2. \A i, j \in Indexes : Read.type = "start" /\ Touches(Read, i) /\ Touches(Read, j) => i = j
      BY DEF Touches
    <3>. QED BY <1>0, <2>2, <3>1, <3>2 DEF ParserInv
  <2>5. \A j \in Indexes : blocks'[j] # None /\ kindOf[blocks'[j]] \in ToolNames
                           => tools'[blocks'[j]] = kindOf[blocks'[j]]
    <3>1. ASSUME NEW j \in Indexes, blocks'[j] # None, Touches(Read, j), Read.type = "start",
                 blocks'[j] = Read.block, kindOf[blocks'[j]] \in ToolNames
          PROVE  tools'[blocks'[j]] = kindOf[blocks'[j]]
      BY <1>1, <1>3, <3>1 DEF BlockLines, Names
    <3>2. ASSUME NEW j \in Indexes, blocks'[j] # None, blocks'[j] = blocks[j],
                 kindOf[blocks'[j]] \in ToolNames
          PROVE  tools'[blocks'[j]] = kindOf[blocks'[j]]
      BY <1>0, <1>2, <1>3, <3>2 DEF ParserInv
    <3>. QED BY <2>2, <3>1, <3>2
  <2>. QED BY <2>1, <2>3, <2>4, <2>5 DEF ParserInv, ParsedState, cli, message
<1>. QED BY <1>5, <1>6, <1>7, <1>8 DEF BaseInv

(* In time, a delta or the end of a block finds the block under its index, *)
(* and a result the tool of its call.                                      *)
LEMMA ParsedLines ==
  ASSUME StreamInv, ParsedState, ~behind
  PROVE  /\ LinesInv'
         /\ Read.type \in {"delta", "stop"} => blocks[Read.index] = Read.block
         /\ Read.type = "tool_result" => tools[Read.block] = kindOf[Read.block]
<1>0. /\ TypeOK /\ CliInv /\ KindInv /\ ParserInv /\ LinesInv
      /\ queue # <<>> /\ queue \in Seq(Lines) /\ Read = queue[1]
  BY ReadFacts DEF StreamInv, BaseInv, InTimeInv, ParsedState
<1>1. /\ Read.type \in BlockLines => Read.block \in Items
      /\ Read.type = "start" => Read.block \notin started
  BY <1>0, ReadFacts
<1>. HIDE DEF Read
<1>2. /\ Placed(Tail(queue), Taken(queue[1], blocks), index, item)
      /\ Read.type \in {"delta", "stop"} => blocks[Read.index] = Read.block
  BY <1>0, PlacedLess DEF LinesInv, CliInv
<1>3. /\ CallsKnown(Tail(queue), Learned(queue[1], tools, kindOf), kindOf, pending)
      /\ Read.type = "tool_result" => tools[Read.block] = kindOf[Read.block]
  BY <1>0, CallsLess DEF LinesInv, TypeOK, KindInv
<1>4. Settling(Tail(queue), started' \ finished', dropped', item)
  <2>1. dropped \subseteq dropped' /\ (Read.type = "api_retry" => Read.block \in dropped')
    BY DEF ParsedState
  <2>2. ASSUME NEW b \in started' \ finished'
        PROVE  \/ b \in started \ finished /\ ~(queue[1].type = "stop" /\ queue[1].block = b)
               \/ queue[1].type = "start" /\ queue[1].block = b
    <3>1. CASE Read.type = "start"
      BY <1>0, <2>2, <3>1 DEF ParsedState
    <3>2. CASE Read.type = "stop"
      <4>1. Read.block \in Items /\ Read.block # None /\ blocks[Read.index] = Read.block
        BY <1>1, <1>2, <3>2, SettingsAssumption DEF BlockLines
      <4>. QED BY <1>0, <2>2, <3>2, <4>1 DEF ParsedState
    <3>3. CASE Read.type \notin {"start", "stop"}
      BY <1>0, <2>2, <3>3 DEF ParsedState
    <3>. QED BY <3>1, <3>2, <3>3
  <2>. QED BY <1>0, <2>1, <2>2, SettlingLess DEF LinesInv
<1>. QED BY <1>0, <1>2, <1>3, <1>4 DEF LinesInv, ParsedState, cli, message

(* A line that does not end the turn.                                      *)
LEMMA ParsedOn ==
  ASSUME StreamInv, ParsedState, UNCHANGED <<reader, endedBy>>,
         inReplay' = ((inReplay /\ Read.type # "init") \/ Read.type = "replay"),
         Read.type = "result" => inReplay,
         ~behind => EventInv'
  PROVE  StreamInv'
<1>0. /\ queue # <<>> /\ queue \in Seq(Lines) /\ Read = queue[1] /\ TypeOK /\ CliInv
  BY ReadFacts DEF ParsedState, StreamInv, BaseInv
<1>. HIDE DEF Read
<1>1. BaseInv'
  BY <1>0, ParsedBase DEF ParsedState, TypeOK, CliInv
<1>2. ASSUME ~behind PROVE InTimeInv'
  <2>1. LinesInv'
    BY <1>2, ParsedLines
  <2>2. /\ reader = "stream" /\ OneInput /\ Repeats(queue, inReplay, Asked)
        /\ Asked' = Asked /\ inReplay \in BOOLEAN
    BY <1>0, <1>2 DEF StreamInv, InTimeInv, InputInv, Reading, ParsedState, Asked, TypeOK
  <2>3. /\ Repeats(queue', inReplay', Asked)
        /\ Read.type = "result" => (inReplay <=> ~Answers(Read, Asked))
    BY <1>0, <2>2, RepeatsLess DEF ParsedState
  <2>4. ~Answers(Read, Asked)
    BY <2>3 DEF Answers
  <2>5. OneInput'
    <3>1. /\ Unanswered(queue, Asked) => Unanswered(queue', Asked)
          /\ Answered(queue, Asked) => Answered(queue', Asked)
      BY <1>0, <2>4, AnswersLess DEF ParsedState
    <3>. QED BY <1>0, <2>2, <3>1 DEF OneInput, ParsedState, cli
  <2>6. InputInv'
    BY <2>2, <2>3, <2>5 DEF InputInv, Reading
  <2>7. ItemsSettled' /\ OwnResultInTime'
    BY <1>2, <2>2 DEF ItemsSettled, OwnResultInTime, StreamInv, InTimeInv, ParsedState
  <2>. QED BY <1>2, <2>1, <2>6, <2>7 DEF InTimeInv
<1>. QED BY <1>1, <1>2 DEF StreamInv, ParsedState

(* A line that leaves no block and no tool behind.                         *)
LEMMA Untaken ==
  ASSUME TypeOK, NEW line, line.type \notin {"start", "stop", "message_stop"}
  PROVE  /\ Taken(line, blocks) = blocks
         /\ line.type # "assistant" => Learned(line, tools, kindOf) = tools
<1>1. \A j \in Indexes : ~Touches(line, j)
  BY DEF Touches
<1>. QED BY <1>1 DEF Taken, Learned, TypeOK

LEMMA InitStep == StreamInv /\ ParseInit => StreamInv'
<1>. SUFFICES ASSUME StreamInv, ParseInit PROVE StreamInv'
  OBVIOUS
<1>0. TypeOK /\ Read.type = "init"
  BY DEF StreamInv, BaseInv, ParseInit, Take
<1>. USE DEF ParseInit, Take, ReaderUnchanged, history
<1>1. turnCount' \in Nat /\ inReplay' = FALSE
  BY <1>0 DEF TypeOK
<1>2. ParsedState
  BY <1>0, <1>1, Untaken DEF ParsedState
<1>3. event'.type \notin {"item.delta", "item.completed", "tool_result"}
  BY DEF Make, NoEvent
<1>. QED BY <1>0, <1>1, <1>2, <1>3, ParsedOn DEF EventInv

LEMMA ReplayedStep == StreamInv /\ ParseReplay => StreamInv'
<1>. SUFFICES ASSUME StreamInv, ParseReplay PROVE StreamInv'
  OBVIOUS
<1>0. TypeOK /\ Read.type = "replay"
  BY DEF StreamInv, BaseInv, ParseReplay, Take
<1>. USE DEF ParseReplay, Take, ReaderUnchanged, history
<1>1. ParsedState
  BY <1>0, Untaken DEF ParsedState, TypeOK
<1>2. event'.type = "none"
  BY DEF NoEvent
<1>. QED BY <1>0, <1>1, <1>2, ParsedOn DEF EventInv

(* In a repeated command or not, the flag stays.                           *)
LEMMA ParsedSame ==
  ASSUME StreamInv, ParsedState, UNCHANGED <<reader, endedBy, inReplay>>,
         Read.type \notin {"init", "replay", "result"}, ~behind => EventInv'
  PROVE  StreamInv'
<1>1. inReplay' = ((inReplay /\ Read.type # "init") \/ Read.type = "replay")
  BY DEF StreamInv, BaseInv, TypeOK
<1>. QED BY <1>1, ParsedOn

LEMMA StartStep == StreamInv /\ OnBlockStart => StreamInv'
<1>. SUFFICES ASSUME StreamInv, OnBlockStart PROVE StreamInv'
  OBVIOUS
<1>0. TypeOK /\ Read.type = "start" /\ queue # <<>> /\ reader = "stream"
  BY DEF StreamInv, BaseInv, OnBlockStart, Take
<1>1. Read.block \in Items /\ Read.index \in Indexes
  BY <1>0, ReadFacts DEF BlockLines
<1>2. /\ queue' = Tail(queue) /\ blocks' = [blocks EXCEPT ![Read.index] = Read.block]
      /\ tools' = Called(tools, Read.block) /\ started' = started \cup {Read.block}
      /\ UNCHANGED <<inReplay, turnCount, finished, dropped, reader, endedBy>>
      /\ UNCHANGED <<turn, spawned, behind, cli>> /\ event'.type = "item.started"
  BY DEF OnBlockStart, Take, Make, ReaderUnchanged
<1>. HIDE DEF Read
<1>3. blocks' = Taken(Read, blocks)
  BY <1>0, <1>1, <1>2 DEF Taken, Touches, TypeOK
<1>4. tools' = Learned(Read, tools, kindOf)
  BY <1>0, <1>2 DEF Learned, Called
<1>5. ParsedState
  BY <1>0, <1>2, <1>3, <1>4 DEF ParsedState, TypeOK
<1>. QED BY <1>0, <1>2, <1>5, ParsedSame DEF EventInv

(* The kind the parser takes a block for is the block's.                   *)
LEMMA SeenKind ==
  ASSUME StreamInv, NEW i \in Indexes, blocks[i] # None
  PROVE  KindSeen(blocks[i]) = kindOf[blocks[i]] /\ blocks[i] \in started \ finished
<1>1. blocks[i] \in started /\ blocks[i] \in Items /\ blocks[i] \notin finished
  BY DEF StreamInv, BaseInv, ParserInv, TypeOK
<1>2. kindOf[blocks[i]] \in Kinds
  BY <1>1 DEF StreamInv, BaseInv, KindInv, TypeOK
<1>3. kindOf[blocks[i]] \in ToolNames => tools[blocks[i]] = kindOf[blocks[i]]
  BY DEF StreamInv, BaseInv, ParserInv
<1>. QED BY <1>1, <1>2, <1>3, SettingsAssumption DEF KindSeen, Kinds

LEMMA DeltaStep == StreamInv /\ OnBlockDelta => StreamInv'
<1>. SUFFICES ASSUME StreamInv, OnBlockDelta PROVE StreamInv'
  OBVIOUS
<1>0. TypeOK /\ Read.type = "delta" /\ queue # <<>> /\ reader = "stream"
  BY DEF StreamInv, BaseInv, OnBlockDelta, Take
<1>1. /\ Read.block \in Items /\ Read.index \in Indexes /\ kindOf[Read.block] # None
      /\ Read.block # None
  BY <1>0, ReadFacts, SettingsAssumption DEF BlockLines
<1>2. /\ queue' = Tail(queue) /\ UNCHANGED <<parser, history>>
      /\ UNCHANGED <<turn, reader, spawned, endedBy, behind, cli>>
      /\ event' = [type |-> "item.delta", item |-> blocks[Read.index],
                   kind |-> KindSeen(blocks[Read.index]), line |-> Read]
  BY DEF OnBlockDelta, Take, Make, ReaderUnchanged
<1>. HIDE DEF Read
<1>3. ParsedState
  BY <1>0, <1>2, Untaken DEF ParsedState, TypeOK, parser, history
<1>4. ASSUME ~behind PROVE EventInv'
  <2>1. blocks[Read.index] = Read.block
    BY <1>0, <1>3, <1>4, ParsedLines
  <2>2. KindSeen(Read.block) = kindOf[Read.block] /\ Read.block \in started \ finished
    BY <1>1, <2>1, SeenKind
  <2>. QED BY <1>1, <1>2, <2>1, <2>2 DEF EventInv, cli, message, history
<1>. QED BY <1>0, <1>2, <1>3, <1>4, ParsedSame DEF parser

LEMMA StopStep == StreamInv /\ OnBlockStop => StreamInv'
<1>. SUFFICES ASSUME StreamInv, OnBlockStop PROVE StreamInv'
  OBVIOUS
<1>0. TypeOK /\ Read.type = "stop" /\ queue # <<>> /\ reader = "stream"
  BY DEF StreamInv, BaseInv, OnBlockStop, Take
<1>1. /\ Read.block \in Items /\ Read.index \in Indexes /\ kindOf[Read.block] # None
      /\ Read.block # None
  BY <1>0, ReadFacts, SettingsAssumption DEF BlockLines
<1>2. /\ queue' = Tail(queue) /\ blocks' = [blocks EXCEPT ![Read.index] = None]
      /\ UNCHANGED <<inReplay, turnCount, tools, started, dropped>>
      /\ UNCHANGED <<turn, reader, spawned, endedBy, behind, cli>>
      /\ IF blocks[Read.index] = None
           THEN event'.type = "none" /\ finished' = finished
           ELSE /\ event' = [type |-> "item.completed", item |-> blocks[Read.index],
                             kind |-> KindSeen(blocks[Read.index]), line |-> Read]
                /\ finished' = finished \cup {blocks[Read.index]}
  BY DEF OnBlockStop, Take, Make, NoEvent, ReaderUnchanged
<1>. HIDE DEF Read
<1>3. blocks' = Taken(Read, blocks)
  BY <1>0, <1>1, <1>2 DEF Taken, Touches, TypeOK
<1>4. tools' = Learned(Read, tools, kindOf)
  BY <1>0, <1>2 DEF Learned
<1>5. ParsedState
  BY <1>0, <1>2, <1>3, <1>4 DEF ParsedState, TypeOK
<1>6. ASSUME ~behind PROVE EventInv'
  <2>1. blocks[Read.index] = Read.block
    BY <1>0, <1>5, <1>6, ParsedLines
  <2>2. KindSeen(Read.block) = kindOf[Read.block]
    BY <1>1, <2>1, SeenKind
  <2>. QED BY <1>1, <1>2, <2>1, <2>2 DEF EventInv, cli, message
<1>. QED BY <1>0, <1>2, <1>5, <1>6, ParsedSame

LEMMA MessageStopStep == StreamInv /\ ParseMessageStop => StreamInv'
<1>. SUFFICES ASSUME StreamInv, ParseMessageStop PROVE StreamInv'
  OBVIOUS
<1>0. TypeOK /\ Read.type = "message_stop" /\ queue # <<>> /\ reader = "stream"
  BY DEF StreamInv, BaseInv, ParseMessageStop, Take
<1>1. /\ queue' = Tail(queue) /\ blocks' = [i \in Indexes |-> None]
      /\ UNCHANGED <<inReplay, turnCount, tools, started, finished, dropped>>
      /\ UNCHANGED <<turn, reader, spawned, endedBy, behind, cli>>
      /\ event'.type = "none"
  BY DEF ParseMessageStop, Take, NoEvent, ReaderUnchanged, history
<1>. HIDE DEF Read
<1>2. blocks' = Taken(Read, blocks)
  BY <1>0, <1>1 DEF Taken, Touches
<1>3. ParsedState
  BY <1>0, <1>1, <1>2 DEF ParsedState, Learned, TypeOK
<1>. QED BY <1>0, <1>1, <1>3, ParsedSame DEF EventInv

LEMMA AssistantStep == StreamInv /\ ParseAssistant => StreamInv'
<1>. SUFFICES ASSUME StreamInv, ParseAssistant PROVE StreamInv'
  OBVIOUS
<1>0. TypeOK /\ Read.type = "assistant" /\ queue # <<>> /\ reader = "stream"
  BY DEF StreamInv, BaseInv, ParseAssistant, Take
<1>1. /\ queue' = Tail(queue) /\ tools' = Called(tools, Read.block)
      /\ UNCHANGED <<inReplay, turnCount, blocks, started, finished, dropped>>
      /\ UNCHANGED <<turn, reader, spawned, endedBy, behind, cli>>
      /\ event'.type = "none"
  BY DEF ParseAssistant, Take, NoEvent, ReaderUnchanged, history
<1>. HIDE DEF Read
<1>2. tools' = Learned(Read, tools, kindOf)
  BY <1>0, <1>1 DEF Learned, Called
<1>3. ParsedState
  BY <1>0, <1>1, <1>2, Untaken DEF ParsedState, TypeOK
<1>. QED BY <1>0, <1>1, <1>3, ParsedSame DEF EventInv

LEMMA ResultReadStep == StreamInv /\ ParseToolResult => StreamInv'
<1>. SUFFICES ASSUME StreamInv, ParseToolResult PROVE StreamInv'
  OBVIOUS
<1>0. TypeOK /\ Read.type = "tool_result" /\ queue # <<>> /\ reader = "stream"
  BY DEF StreamInv, BaseInv, ParseToolResult, Take
<1>1. Read.block \in Items /\ kindOf[Read.block] # None
  BY <1>0, ReadFacts DEF BlockLines
<1>2. /\ queue' = Tail(queue) /\ UNCHANGED <<parser, history>>
      /\ UNCHANGED <<turn, reader, spawned, endedBy, behind, cli>>
      /\ event' = [type |-> "tool_result", item |-> Read.block, kind |-> tools[Read.block],
                   line |-> Read]
  BY DEF ParseToolResult, Take, Make, ReaderUnchanged
<1>. HIDE DEF Read
<1>3. ParsedState
  BY <1>0, <1>2, Untaken DEF ParsedState, TypeOK, parser, history
<1>4. ASSUME ~behind PROVE EventInv'
  <2>1. tools[Read.block] = kindOf[Read.block]
    BY <1>0, <1>3, <1>4, ParsedLines
  <2>. QED BY <1>1, <1>2, <2>1 DEF EventInv, cli, message
<1>. QED BY <1>0, <1>2, <1>3, <1>4, ParsedSame DEF parser

LEMMA RetryReadStep == StreamInv /\ ParseRetry => StreamInv'
<1>. SUFFICES ASSUME StreamInv, ParseRetry PROVE StreamInv'
  OBVIOUS
<1>0. TypeOK /\ Read.type = "api_retry" /\ queue # <<>> /\ reader = "stream"
  BY DEF StreamInv, BaseInv, ParseRetry, Take
<1>1. /\ queue' = Tail(queue) /\ UNCHANGED <<parser, started, finished>>
      /\ dropped' = dropped \cup {Read.block}
      /\ UNCHANGED <<turn, reader, spawned, endedBy, behind, cli>>
      /\ event'.type = "api.retry"
  BY DEF ParseRetry, Take, Make, ReaderUnchanged
<1>. HIDE DEF Read
<1>2. ParsedState
  BY <1>0, <1>1, Untaken DEF ParsedState, TypeOK, parser
<1>. QED BY <1>0, <1>1, <1>2, ParsedSame DEF EventInv, parser

(* The result of the turn leaves nothing unread and nothing unsettled.     *)
LEMMA TurnEndStep == StreamInv /\ ParseResult => StreamInv'
<1>. SUFFICES ASSUME StreamInv, ParseResult PROVE StreamInv'
  OBVIOUS
<1>0. /\ TypeOK /\ CliInv /\ Read.type = "result" /\ queue # <<>> /\ reader = "stream"
      /\ Read = queue[1] /\ Read.of \in Inputs /\ queue \in Seq(Lines)
  BY ReadFacts DEF StreamInv, BaseInv, ParseResult, Take, Lines
<1>1. /\ queue' = Tail(queue) /\ UNCHANGED <<parser, history>>
      /\ UNCHANGED <<turn, spawned, behind, cli>>
      /\ event'.type \in {"none", "turn.ended"}
      /\ inReplay => UNCHANGED <<reader, endedBy>>
      /\ ~inReplay => /\ endedBy' = [endedBy EXCEPT ![turn] = Read.of]
                      /\ reader' = "askContext"
  BY DEF ParseResult, Take, Make, NoEvent
<1>. HIDE DEF Read
<1>2. ParsedState
  BY <1>0, <1>1, Untaken DEF ParsedState, TypeOK, parser, history
<1>3. EventInv'
  BY <1>1 DEF EventInv
<1>4. CASE inReplay
  <2>1. inReplay' = ((inReplay /\ Read.type # "init") \/ Read.type = "replay")
    BY <1>0, <1>1, <1>4 DEF parser
  <2>. QED BY <1>1, <1>2, <1>3, <1>4, <2>1, ParsedOn
<1>5. CASE ~inReplay
  <2>1. turn \in 1..MaxTurns /\ MaxTurns \in Nat
    BY <1>0, SettingsAssumption DEF TypeOK, CliInv
  <2>2. /\ endedBy' \in [1..MaxTurns -> Inputs \cup {None}]
        /\ \A t \in 1..MaxTurns : t > turn => endedBy'[t] = None
        /\ endedBy'[turn] = Read.of
        /\ \A t \in 1..MaxTurns : t # turn => endedBy'[t] = endedBy[t]
    <3>1. endedBy' = [endedBy EXCEPT ![turn] = Read.of]
          /\ endedBy \in [1..MaxTurns -> Inputs \cup {None}]
      BY <1>0, <1>1, <1>5 DEF TypeOK
    <3>2. endedBy' \in [1..MaxTurns -> Inputs \cup {None}]
      BY <1>0, <2>1, <3>1
    <3>3. endedBy'[turn] = Read.of
          /\ \A t \in 1..MaxTurns : t # turn => endedBy'[t] = endedBy[t]
      BY <2>1, <3>1
    <3>4. \A t \in 1..MaxTurns : t > turn => t # turn
      BY <2>1
    <3>. QED BY <1>0, <3>2, <3>3, <3>4 DEF CliInv
  <2>3. BaseInv'
    BY <1>1, <1>2, <1>5, <2>2, ParsedBase
  <2>4. ASSUME ~behind PROVE InTimeInv'
    <3>1. LinesInv'
      BY <1>2, <2>4, ParsedLines
    <3>2. OneInput /\ Repeats(queue, inReplay, Asked) /\ Asked = <<"prompt", turn>>
      BY <1>0, <2>4 DEF StreamInv, InTimeInv, InputInv, Reading, Asked
    <3>3. Answers(queue[1], Asked)
      <4>1. inReplay \in BOOLEAN
        BY <1>0 DEF TypeOK
      <4>. QED BY <1>0, <1>5, <3>2, <4>1, RepeatsLess
    <3>4. stdin = <<>> /\ task = None /\ Answered(queue, Asked)
      BY <1>0, <3>2, <3>3, AnswersLess DEF OneInput
    <3>5. queue' = <<>>
      BY <1>0, <1>1, <3>3, <3>4, AnswersLess
    <3>6. InputInv'
      <4>1. Plainly(queue', Asked')
        BY <3>5 DEF Plainly
      <4>2. reader' = "askContext" /\ ~inReplay' /\ stdin' = <<>> /\ task' = None
        BY <1>1, <1>5, <3>4 DEF parser, cli
      <4>. QED BY <3>5, <4>1, <4>2 DEF InputInv, Reading
    <3>7. ItemsSettled'
      <4>1. item' = None
        BY <1>0, <1>1, <3>4 DEF CliInv, cli, message
      <4>2. Settling(<<>>, started' \ finished', dropped', None)
        BY <3>1, <3>5, <4>1 DEF LinesInv
      <4>3. None \notin started' \ finished'
        BY <2>3, SettingsAssumption DEF BaseInv, TypeOK
      <4>. QED BY <4>2, <4>3 DEF Settling, ItemsSettled
    <3>8. OwnResultInTime'
      <4>1. ASSUME NEW t \in spawned..turn PROVE endedBy'[t] \in {None, <<"prompt", t>>}
        <5>1. t \in 1..MaxTurns
          <6>1. spawned \in 1..MaxTurns + 1
            BY <1>0 DEF TypeOK
          <6>. QED BY <2>1, <6>1
        <5>2. endedBy[t] \in {None, <<"prompt", t>>}
          BY <2>4 DEF StreamInv, InTimeInv, OwnResultInTime
        <5>3. endedBy'[turn] = <<"prompt", turn>>
          BY <1>0, <2>2, <3>2, <3>3 DEF Answers
        <5>. QED BY <2>2, <5>1, <5>2, <5>3
      <4>. QED BY <1>1, <4>1 DEF OwnResultInTime
    <3>. QED BY <1>3, <3>1, <3>6, <3>7, <3>8 DEF InTimeInv
  <2>. QED BY <1>1, <2>3, <2>4 DEF StreamInv
<1>. QED BY <1>4, <1>5

(* A process that has given up leaves nothing to the next one.             *)
LEMMA ExhaustedStep == StreamInv /\ Exhausted => StreamInv'
<1>. SUFFICES ASSUME StreamInv, Exhausted PROVE StreamInv'
  OBVIOUS
<1>0. TypeOK /\ CliInv /\ KindInv /\ ParserInv
  BY DEF StreamInv, BaseInv
<1>1. /\ queue' = <<>> /\ stdin' = <<>> /\ task' = None /\ stage' = "none"
      /\ replays' = 0 /\ index' = 0 /\ item' = None /\ pending' = {}
      /\ behind' = FALSE /\ reader' = "idle" /\ spawned' = turn + 1
      /\ inReplay' = FALSE /\ turnCount' = 0 /\ event'.type = "error"
      /\ dropped' = dropped \cup (started \ finished)
      /\ UNCHANGED <<turn, started, finished, endedBy, retries, kindOf>>
  BY DEF Exhausted, FreshParser, Make
<1>2. /\ blocks' = [i \in Indexes |-> None]
      /\ tools' = [b \in Items |-> None]
  BY DEF Exhausted, FreshParser
<1>3. TypeOK'
  <2>1. queue' \in Seq(Lines) /\ stdin' \in Seq(Inputs)
    BY <1>1
  <2>2. spawned' \in 1..MaxTurns + 1
    BY <1>0, <1>1, SettingsAssumption DEF TypeOK
  <2>3. /\ blocks' \in [Indexes -> Items \cup {None}]
        /\ tools' \in [Items -> ToolNames \cup {None}]
    BY <1>2
  <2>4. index' \in 0..2 /\ replays' \in Nat /\ turnCount' \in Nat
    BY <1>1
  <2>. QED BY <1>0, <1>1, <2>1, <2>2, <2>3, <2>4 DEF TypeOK
<1>4. CliInv'
  BY <1>0, <1>1 DEF CliInv
<1>5. KindInv'
  <2>1. Numbered(queue', kindOf)
    BY <1>1 DEF Numbered
  <2>. QED BY <1>0, <1>1, <2>1 DEF KindInv
<1>6. ParserInv'
  BY <1>1, <1>2 DEF ParserInv, AnnouncedOnce
<1>7. InTimeInv'
  <2>1. InputInv'
    BY <1>1 DEF InputInv, Reading, Plainly
  <2>2. LinesInv'
    BY <1>1 DEF LinesInv, Placed, CallsKnown, Settling
  <2>3. EventInv' /\ ItemsSettled'
    BY <1>1 DEF EventInv, ItemsSettled
  <2>4. OwnResultInTime'
    BY <1>0, <1>1 DEF OwnResultInTime, TypeOK
  <2>. QED BY <2>1, <2>2, <2>3, <2>4 DEF InTimeInv
<1>. QED BY <1>3, <1>4, <1>5, <1>6, <1>7 DEF StreamInv, BaseInv

LEMMA TimeoutStep ==
  ASSUME StreamInv,
         TurnTimeout \/ CommandTimeout("context", "askCost") \/ CommandTimeout("cost", "idle")
  PROVE  StreamInv'
<1>1. /\ behind' = TRUE /\ reader # "idle" /\ reader' \in {"askContext", "askCost", "idle"}
      /\ UNCHANGED <<turn, spawned, queue, parser, history, endedBy, cli>>
  BY DEF TurnTimeout, CommandTimeout
<1>. USE <1>1 DEF parser, history, cli, message
<1>2. TypeOK'
  BY DEF StreamInv, BaseInv, TypeOK
<1>3. CliInv'
  BY DEF StreamInv, BaseInv, CliInv
<1>4. KindInv' /\ ParserInv'
  BY DEF StreamInv, BaseInv, KindInv, ParserInv
<1>. QED BY <1>2, <1>3, <1>4 DEF StreamInv, BaseInv

(* An input is written when the one before has been answered.              *)
LEMMA WriteStep ==
  ASSUME StreamInv, NEW input \in Inputs, reader \notin Reading, reader' \in Reading,
         stdin' = Append(stdin, input), input = Asked',
         turn' \in 1..MaxTurns, turn' >= turn, \A t \in spawned..turn' : t > turn => endedBy[t] = None,
         UNCHANGED <<spawned, queue, parser, event, history, endedBy, behind>>,
         UNCHANGED <<task, stage, replays, retries, message>>
  PROVE  StreamInv'
<1>. USE DEF parser, history, message
<1>0. stdin \in Seq(Inputs) /\ stdin' \in Seq(Inputs) /\ turn \in Nat /\ spawned \in Nat
  BY DEF StreamInv, BaseInv, TypeOK
<1>1. TypeOK'
  BY <1>0 DEF StreamInv, BaseInv, TypeOK, Reading
<1>2. CliInv'
  BY <1>0 DEF StreamInv, BaseInv, CliInv
<1>3. KindInv' /\ ParserInv'
  BY DEF StreamInv, BaseInv, KindInv, ParserInv
<1>4. ASSUME ~behind PROVE InTimeInv'
  <2>1. queue = <<>> /\ stdin = <<>> /\ task = None /\ ~inReplay
    BY <1>4 DEF StreamInv, InTimeInv, InputInv, Reading
  <2>2. stdin' = <<Asked'>>
    BY <2>1
  <2>3. Repeats(queue', inReplay', Asked') /\ Plainly(queue', Asked')
    BY <2>1 DEF Repeats, Plainly
  <2>4. InputInv'
    BY <2>1, <2>2, <2>3 DEF InputInv, OneInput
  <2>5. LinesInv' /\ EventInv'
    BY <1>4 DEF StreamInv, InTimeInv, LinesInv, EventInv
  <2>6. ItemsSettled'
    BY <1>4 DEF StreamInv, InTimeInv, ItemsSettled, Reading
  <2>7. OwnResultInTime'
    <3>1. ASSUME NEW t \in spawned..turn' PROVE endedBy[t] \in {None, <<"prompt", t>>}
      <4>1. t \in spawned..turn \/ t > turn
        BY <1>0
      <4>. QED BY <1>4, <4>1 DEF StreamInv, InTimeInv, OwnResultInTime
    <3>. QED BY <3>1 DEF OwnResultInTime
  <2>. QED BY <2>4, <2>5, <2>6, <2>7 DEF InTimeInv
<1>. QED BY <1>1, <1>2, <1>3, <1>4 DEF StreamInv, BaseInv

LEMMA PromptStep == StreamInv /\ SendPrompt => StreamInv'
<1>. SUFFICES ASSUME StreamInv, SendPrompt PROVE StreamInv'
  OBVIOUS
<1>1. TypeOK /\ CliInv
  BY DEF StreamInv, BaseInv
<1>2. /\ turn' = turn + 1 /\ turn' \in 1..MaxTurns
      /\ reader = "idle" /\ reader' = "stream" /\ Asked' = <<"prompt", turn'>>
  <2>1. turn \in 0..MaxTurns /\ MaxTurns \in Nat /\ turn < MaxTurns
    BY <1>1, SettingsAssumption DEF SendPrompt, TypeOK
  <2>. QED BY <2>1 DEF SendPrompt, Asked
<1>3. \A t \in spawned..turn' : t > turn => endedBy[t] = None
  BY <1>1, <1>2 DEF TypeOK, CliInv
<1>4. <<"prompt", turn'>> \in Inputs /\ turn' >= turn
  BY <1>1, <1>2 DEF Inputs, TypeOK
<1>. QED BY <1>1, <1>2, <1>3, <1>4, WriteStep DEF SendPrompt, Write, Reading

LEMMA CommandStep ==
  ASSUME StreamInv, SendCommand("askContext", "context") \/ SendCommand("askCost", "cost")
  PROVE  StreamInv'
<1>1. TypeOK /\ CliInv
  BY DEF StreamInv, BaseInv
<1>2. /\ turn' = turn /\ turn \in 1..MaxTurns /\ reader \notin Reading /\ reader' \in Reading
      /\ reader' # "stream" /\ Asked' = <<reader', turn>>
  BY <1>1 DEF SendCommand, Asked, TypeOK, CliInv, Reading
<1>3. Asked' \in Inputs /\ turn' >= turn
  BY <1>2 DEF Inputs, Reading
<1>4. \A t \in spawned..turn' : t > turn => endedBy[t] = None
  BY <1>1, <1>2 DEF TypeOK
<1>5. stdin' = Append(stdin, Asked')
  BY <1>2 DEF SendCommand, Write
<1>. QED BY <1>2, <1>3, <1>4, <1>5, WriteStep DEF SendCommand

LEMMA AnswerStep ==
  ASSUME StreamInv, ReadAnswer("context", "askCost") \/ ReadAnswer("cost", "idle")
  PROVE  StreamInv'
<1>0. /\ TypeOK /\ CliInv /\ KindInv /\ ParserInv
      /\ queue # <<>> /\ queue \in Seq(Lines) /\ Read = queue[1]
      /\ Tail(queue) \in Seq(Lines)
  BY ReadFacts DEF StreamInv, BaseInv, ReadAnswer
<1>1. /\ queue' = Tail(queue) /\ reader \in {"context", "cost"}
      /\ IF Read.type = "result" THEN reader' \in {"askCost", "idle"} ELSE reader' = reader
      /\ UNCHANGED <<turn, spawned, parser, event, history, endedBy, behind, cli>>
  BY DEF ReadAnswer
<1>. HIDE DEF Read
<1>. USE DEF parser, history, cli, message
<1>2. TypeOK'
  BY <1>0, <1>1 DEF TypeOK
<1>3. CliInv'
  BY <1>0, <1>1 DEF CliInv
<1>4. KindInv'
  <2>1. Numbered(queue', kindOf)
    BY <1>0, <1>1, NumberedLess DEF KindInv
  <2>. QED BY <1>0, <1>1, <2>1 DEF KindInv
<1>5. ParserInv'
  <2>1. AnnouncedOnce(queue', started)
    BY <1>0, <1>1, AnnouncedLess DEF ParserInv
  <2>. QED BY <1>0, <1>1, <2>1 DEF ParserInv
<1>6. ASSUME ~behind PROVE InTimeInv'
  <2>1. /\ OneInput /\ ~inReplay /\ Plainly(queue, Asked) /\ LinesInv
    BY <1>1, <1>6 DEF StreamInv, InTimeInv, InputInv, Reading
  <2>2. Read.type \in {"init", "replay"} \/ Answers(Read, Asked)
    BY <1>0, <2>1, ReadFacts DEF Plainly
  <2>3. Taken(Read, blocks) = blocks /\ Learned(Read, tools, kindOf) = tools
    BY <1>0, <2>2, Untaken DEF Answers
  <2>4. LinesInv'
    <3>1. Placed(queue', blocks, index, item)
      BY <1>0, <1>1, <2>1, <2>3, PlacedLess DEF LinesInv, CliInv
    <3>2. CallsKnown(queue', tools, kindOf, pending)
      <4>1. /\ tools \in [Items -> ToolNames \cup {None}] /\ pending \in SUBSET Items
            /\ Numbered(queue, kindOf) /\ \A b \in pending : kindOf[b] \in ToolNames
            /\ CallsKnown(queue, tools, kindOf, pending)
        BY <1>0, <2>1 DEF LinesInv, TypeOK, KindInv
      <4>2. CallsKnown(Tail(queue), Learned(queue[1], tools, kindOf), kindOf, pending)
        BY <1>0, <4>1, CallsLess
      <4>. QED BY <1>0, <1>1, <2>3, <4>2
    <3>3. Settling(queue', started \ finished, dropped, item)
      BY <1>0, <1>1, <2>1, <2>2, SettlingLess DEF LinesInv, Answers
    <3>. QED BY <1>1, <3>1, <3>2, <3>3 DEF LinesInv
  <2>5. InputInv'
    <3>1. CASE Read.type = "result"
      <4>1. Answers(Read, Asked)
        BY <2>2, <3>1
      <4>2. stdin = <<>> /\ task = None /\ Answered(queue, Asked)
        BY <1>0, <2>1, <4>1, AnswersLess DEF OneInput
      <4>3. queue' = <<>>
        BY <1>0, <1>1, <4>1, <4>2, AnswersLess
      <4>4. Plainly(queue', Asked')
        BY <4>3 DEF Plainly
      <4>. QED BY <1>1, <2>1, <3>1, <4>2, <4>3, <4>4 DEF InputInv, Reading
    <3>2. CASE Read.type # "result"
      <4>1. ~Answers(Read, Asked) /\ Asked' = Asked /\ reader' = reader
        BY <1>1, <3>2 DEF Answers, Asked
      <4>2. Plainly(queue', Asked)
        BY <1>0, <1>1, <2>1, AnswersLess
      <4>3. /\ Unanswered(queue, Asked) => Unanswered(queue', Asked)
            /\ Answered(queue, Asked) => Answered(queue', Asked)
        BY <1>0, <1>1, <4>1, AnswersLess
      <4>4. OneInput'
        BY <1>0, <1>1, <2>1, <4>1, <4>3 DEF OneInput
      <4>. QED BY <1>1, <2>1, <4>1, <4>2, <4>4 DEF InputInv, Reading
    <3>. QED BY <3>1, <3>2
  <2>6. EventInv'
    BY <1>1, <1>6 DEF StreamInv, InTimeInv, EventInv
  <2>7. ItemsSettled' /\ OwnResultInTime'
    BY <1>1, <1>6 DEF StreamInv, InTimeInv, ItemsSettled, OwnResultInTime
  <2>. QED BY <2>4, <2>5, <2>6, <2>7 DEF InTimeInv
<1>. QED BY <1>1, <1>2, <1>3, <1>4, <1>5, <1>6 DEF StreamInv, BaseInv

-----------------------------------------------------------------------------
LEMMA StreamInitial == Init => StreamInv
<1>. SUFFICES ASSUME Init PROVE StreamInv
  OBVIOUS
<1>. USE DEF Init
<1>1. TypeOK
  <2>1. MaxTurns \in Nat
    BY SettingsAssumption
  <2>2. turn \in 0..MaxTurns /\ spawned \in 1..MaxTurns + 1 /\ index \in 0..2
    BY <2>1
  <2>3. /\ blocks \in [Indexes -> Items \cup {None}]
        /\ tools \in [Items -> ToolNames \cup {None}]
        /\ endedBy \in [1..MaxTurns -> Inputs \cup {None}]
        /\ kindOf \in [Items -> Kinds \cup {None}]
    OBVIOUS
  <2>4. queue \in Seq(Lines) /\ stdin \in Seq(Inputs)
    OBVIOUS
  <2>5. turnCount \in Nat /\ replays \in Nat /\ retries \in Nat
    OBVIOUS
  <2>. QED BY <2>2, <2>3, <2>4, <2>5 DEF TypeOK
<1>2. CliInv
  BY DEF CliInv
<1>3. KindInv
  <2>1. 0 \in 0..MaxItems /\ \A b \in Items : kindOf[b] # None <=> b <= 0
    BY SettingsAssumption DEF Items
  <2>2. Numbered(queue, kindOf)
    BY DEF Numbered
  <2>. QED BY <2>1, <2>2 DEF KindInv
<1>4. ParserInv
  BY DEF ParserInv, AnnouncedOnce
<1>5. InputInv
  BY DEF InputInv, Reading, Plainly
<1>6. LinesInv
  BY DEF LinesInv, Placed, CallsKnown, Settling
<1>7. EventInv /\ ItemsSettled
  BY DEF EventInv, ItemsSettled, NoEvent
<1>8. OwnResultInTime
  BY DEF OwnResultInTime
<1>. QED BY <1>1, <1>2, <1>3, <1>4, <1>5, <1>6, <1>7, <1>8 DEF StreamInv, BaseInv, InTimeInv

LEMMA StreamStep == StreamInv /\ [Next]_vars => StreamInv'
<1>. SUFFICES ASSUME StreamInv, [Next]_vars PROVE StreamInv'
  OBVIOUS
<1>1. CASE Cli
  BY <1>1, TakeStep, ReplayStep, OpenStep, CloseStep, EndMessageStep, SubagentStep,
     ToolResultStep, RetryStep, ResultStep DEF Cli
<1>2. CASE ParseLine
  BY <1>2, InitStep, ReplayedStep, StartStep, DeltaStep, StopStep, MessageStopStep,
     AssistantStep, ResultReadStep, RetryReadStep, ExhaustedStep, TurnEndStep DEF ParseLine
<1>3. CASE TurnTimeout
  BY <1>3, TimeoutStep
<1>4. CASE SendPrompt
  BY <1>4, PromptStep
<1>5. CASE PollStatus
  BY <1>5, CommandStep, AnswerStep, TimeoutStep DEF PollStatus
<1>6. CASE UNCHANGED vars
  <2>. USE <1>6 DEF vars, parser, history, cli, message
  <2>1. BaseInv'
    BY DEF StreamInv, BaseInv, TypeOK, CliInv, KindInv, ParserInv
  <2>2. ASSUME ~behind PROVE InTimeInv'
    <3>1. Asked' = Asked /\ InputInv
      BY <2>2 DEF Asked, StreamInv, InTimeInv
    <3>2. InputInv'
      BY <3>1 DEF InputInv, OneInput
    <3>3. LinesInv' /\ EventInv' /\ ItemsSettled' /\ OwnResultInTime'
      BY <2>2 DEF StreamInv, InTimeInv, LinesInv, EventInv, ItemsSettled, OwnResultInTime
    <3>. QED BY <3>2, <3>3 DEF InTimeInv
  <2>. QED BY <2>1, <2>2 DEF StreamInv
<1>. QED BY <1>1, <1>2, <1>3, <1>4, <1>5, <1>6 DEF Next, Done

LEMMA StreamAlways == Spec => []StreamInv
  BY StreamInitial, StreamStep, PTL DEF Spec

(* The types.                                                              *)
THEOREM TypeCorrect == Spec => []TypeOK
<1>1. StreamInv => TypeOK
  BY DEF StreamInv, BaseInv
<1>. QED BY <1>1, StreamAlways, PTL

(* A delta and a completion reach the item whose block the model writes,   *)
(* however many messages were cut off and started over with its index.     *)
THEOREM DeltasReachTheirItem == Spec => []EventsReachTheirItem
<1>1. StreamInv => EventsReachTheirItem
  BY DEF StreamInv, InTimeInv, EventInv, EventsReachTheirItem
<1>. QED BY <1>1, StreamAlways, PTL

(* The card of a result has the kind of the tool that was called.          *)
THEOREM ResultsHaveTheirKind == Spec => []ToolResultKind
<1>1. StreamInv => ToolResultKind
  BY DEF StreamInv, InTimeInv, EventInv, ToolResultKind
<1>. QED BY <1>1, StreamAlways, PTL

(* No item that was announced is left open when the turn is over.          *)
THEOREM TurnsSettleTheirItems == Spec => []ItemsSettled
<1>1. StreamInv => ItemsSettled
  BY DEF StreamInv, InTimeInv, ItemsSettled
<1>. QED BY <1>1, StreamAlways, PTL

(* A turn ends with the result of its own prompt.                          *)
THEOREM TurnsEndWithTheirResult == Spec => []OwnResultInTime
<1>1. StreamInv => OwnResultInTime
  BY DEF StreamInv, InTimeInv, OwnResultInTime
<1>. QED BY <1>1, StreamAlways, PTL
=============================================================================
