------------------------------ MODULE EventLog ------------------------------
(***************************************************************************)
(* The events of one workspace: EventBuffer numbers them, keeps the last   *)
(* ones in a ring and hands them to its subscribers; SessionRouter appends *)
(* each of them to storage after it gave it to the client of the turn;     *)
(* EventReplay serves GET /events from storage first, page by page, and    *)
(* then from the buffer.  A restart of the server keeps only what storage  *)
(* has.                                                                    *)
(*                                                                         *)
(* A definition whose comment starts with "Variant" is a wrong form of the *)
(* definition below it, kept to show that a property would notice it.      *)
(***************************************************************************)
EXTENDS Integers, Sequences, FiniteSets, SequencesExt

CONSTANTS
    Turns,          (* turns, which produce the events                     *)
    Count,          (* how many events a turn produces                     *)
    Readers,        (* clients of GET /events                              *)
    RingSize,       (* EventBuffer.RING_SIZE                               *)
    QueueSize,      (* maxsize of a subscriber's queue                     *)
    FetchSize,      (* rows storage reads at a time                        *)
    ReplayLimit,    (* replay_limit: rows served from storage              *)
    MaxEvents,      (* SQLiteBackend.max_events                            *)
    MaxRestarts,    (* bound on the restarts of the server                 *)
    Faults,         (* what the environment may do, a subset of FaultKinds *)
    None            (* no event, the end of a stream                       *)

FaultKinds ==
    {"append",      (* append_events raises                                *)
     "abort",       (* the client of a turn disconnects                    *)
     "leave",       (* a reader disconnects                                *)
     "close"}       (* the workspace is paused: the buffer is closed       *)

Rows == [seq : Nat \ {0}, of : Turns \X (1..Count)]

ASSUME SizesAssumption ==
    /\ {Count, RingSize, QueueSize, FetchSize, ReplayLimit, MaxEvents} \subseteq Nat \ {0}
    /\ MaxRestarts \in Nat

ASSUME SettingsAssumption ==
    /\ Faults \subseteq FaultKinds
    /\ None \notin Rows

VARIABLES
    connected,  (* the workspace has a sandbox object, hence a buffer      *)
    sequence,   (* EventBuffer._sequence                                   *)
    ring,       (* EventBuffer._ring                                       *)
    subscribers,(* keys of EventBuffer._subscribers                        *)
    queues,     (* the queue of each reader's subscription                 *)
    rows,       (* the table of events                                     *)
    made,       (* how many events a turn has produced                     *)
    unsaved,    (* the event a turn has pushed and not appended yet        *)
    ended,      (* turns that are over                                     *)
    phase,      (* where each response to GET /events is                   *)
    after,      (* its after_sequence                                      *)
    last,       (* its last_replayed_seq                                   *)
    offset,     (* rows of storage it has fetched                          *)
    batch,      (* fetched events it has not sent yet                      *)
    more,       (* whether it goes on to another page of storage           *)
    left,       (* rows it may still send from storage                     *)
    got,        (* history: what the client received in all its responses  *)
    start,      (* history: how much of got is of earlier responses        *)
    late,       (* history: a row was appended below one that was there    *)
    restarts

bufferVars == <<connected, sequence, ring>>
turnVars == <<made, unsaved, ended>>
readVars == <<phase, after, last, offset, batch, more, left>>
historyVars == <<got, start, late>>
vars == <<bufferVars, subscribers, queues, rows, turnVars, readVars, historyVars, restarts>>

(* "stored": replay_from_sequence alone, of a workspace without a buffer;   *)
(* "replay": the first half of replay_then_live, "live": its second half.   *)
Replaying == {"stored", "replay"}
Phases == Replaying \cup {"off", "poll", "live"}

Seqs(S) == {row.seq : row \in S}

(* The numbers of a finite set, in order.                                  *)
Sorted(N) ==
    [k \in 1..Cardinality(N) |-> CHOOSE n \in N : Cardinality({m \in N : m <= n}) = k]

(* The id of the last message, which the client sends as Last-Event-ID.    *)
LastEventId(r) == IF got[r] = <<>> THEN 0 ELSE Last(got[r]).seq

-----------------------------------------------------------------------------
(* Storage.                                                                *)

(* The newest MaxEvents rows.                                              *)
Prune(S) == {row \in S : Cardinality({x \in S : x.seq > row.seq}) < MaxEvents}

(* A sequence number the workspace has already is silently skipped.        *)
AppendEvents(row) ==
    IF row.seq \in Seqs(rows) THEN Prune(rows) ELSE Prune(rows \cup {row})

RowOf(n) == CHOOSE row \in rows : row.seq = n

(* Variant: the newest rows first.                                         *)
PageDescending(r) ==
    LET found == Reverse(Sorted({n \in Seqs(rows) : n > after[r]}))
        rest == Len(found) - offset[r]
    IN  [i \in 1..(IF rest < FetchSize THEN rest ELSE FetchSize) |-> RowOf(found[offset[r] + i])]

(* Sequence > after ORDER BY sequence ASC LIMIT fetch_size OFFSET offset   *)
Page(r) ==
    LET found == Sorted({n \in Seqs(rows) : n > after[r]})
        rest == Len(found) - offset[r]
    IN  [i \in 1..(IF rest < FetchSize THEN rest ELSE FetchSize) |-> RowOf(found[offset[r] + i])]

-----------------------------------------------------------------------------
(* EventBuffer.                                                            *)

(* Variant: a subscriber that has something to read is passed over.        *)
BroadcastBusy(item) ==
    [r \in Readers |-> IF r \in subscribers /\ queues[r] = <<>>
                       THEN Append(queues[r], item) ELSE queues[r]]

(* A full queue misses the item.                                           *)
Broadcast(item) ==
    [r \in Readers |-> IF r \in subscribers /\ Len(queues[r]) < QueueSize
                       THEN Append(queues[r], item) ELSE queues[r]]

(* deque(maxlen=RING_SIZE)                                                 *)
RingAppend(row) ==
    LET longer == Append(ring, row)
    IN  IF Len(longer) > RingSize THEN Tail(longer) ELSE longer

-----------------------------------------------------------------------------
(* A turn: push an event, yield it to the client, append it to storage.    *)

Push(t) ==
    /\ connected
    /\ t \notin ended
    /\ unsaved[t] = None
    /\ LET row == [seq |-> sequence + 1, of |-> <<t, made[t] + 1>>]
       IN  /\ sequence' = sequence + 1
           /\ ring' = RingAppend(row)
           /\ queues' = Broadcast(row)
           /\ unsaved' = [unsaved EXCEPT ![t] = row]
    /\ made' = [made EXCEPT ![t] = @ + 1]
    /\ UNCHANGED <<connected, subscribers, rows, ended, readVars, historyVars, restarts>>

(* Appending may fail: it is logged and the turn goes on.                  *)
Persist(t) ==
    /\ unsaved[t] # None
    /\ \/ rows' = AppendEvents(unsaved[t])
       \/ "append" \in Faults /\ UNCHANGED rows
    /\ late' = (late \/ \E row \in rows : row.seq > unsaved[t].seq)
    /\ unsaved' = [unsaved EXCEPT ![t] = None]
    /\ ended' = IF made[t] = Count THEN ended \cup {t} ELSE ended
    /\ UNCHANGED <<bufferVars, subscribers, queues, made, readVars, got, start, restarts>>

(* The generator is closed at a yield: the event it gave away is in the    *)
(* buffer and will not be appended.                                        *)
Abort(t) ==
    /\ "abort" \in Faults
    /\ unsaved[t] # None
    /\ unsaved' = [unsaved EXCEPT ![t] = None]
    /\ ended' = ended \cup {t}
    /\ UNCHANGED <<bufferVars, subscribers, queues, rows, made, readVars, historyVars, restarts>>

-----------------------------------------------------------------------------
(* A response to GET /events.                                              *)

BeginReplay(r, id) ==
    /\ phase' = [phase EXCEPT ![r] = IF connected THEN "replay" ELSE "stored"]
    /\ after' = [after EXCEPT ![r] = id]
    /\ last' = [last EXCEPT ![r] = id]
    /\ offset' = [offset EXCEPT ![r] = 0]
    /\ batch' = [batch EXCEPT ![r] = <<>>]
    /\ more' = [more EXCEPT ![r] = TRUE]
    /\ left' = [left EXCEPT ![r] = ReplayLimit]

Request(r) ==
    /\ phase[r] = "off"
    /\ BeginReplay(r, LastEventId(r))
    /\ start' = [start EXCEPT ![r] = Len(got[r])]
    /\ UNCHANGED <<bufferVars, subscribers, queues, rows, turnVars, got, late, restarts>>

(* replay: the events of the ring after a number.                          *)
RingAfter(n) ==
    LET found == Sorted({i \in DOMAIN ring : ring[i].seq > n})
    IN  [k \in DOMAIN found |-> ring[found[k]]]

(* Variant: the ring is not replayed.                                      *)
SubscribeUnreplayed(r) ==
    /\ subscribers' = subscribers \cup {r}
    /\ queues' = [queues EXCEPT ![r] = <<>>]
    /\ batch' = [batch EXCEPT ![r] = <<>>]

(* Variant: the ring is replayed from where the client was.                *)
SubscribeAfter(r) ==
    /\ subscribers' = subscribers \cup {r}
    /\ queues' = [queues EXCEPT ![r] = <<>>]
    /\ batch' = [batch EXCEPT ![r] = RingAfter(after[r])]

(* stream(last_replayed_seq): a queue, and what the ring has beyond it.    *)
Subscribe(r) ==
    /\ subscribers' = subscribers \cup {r}
    /\ queues' = [queues EXCEPT ![r] = <<>>]
    /\ batch' = [batch EXCEPT ![r] = RingAfter(last[r])]

(* The end of a response, from either side.                                *)
EndResponse(r) ==
    /\ phase' = [phase EXCEPT ![r] = "off"]
    /\ subscribers' = subscribers \ {r}
    /\ queues' = [queues EXCEPT ![r] = <<>>]
    /\ batch' = [batch EXCEPT ![r] = <<>>]
    /\ UNCHANGED <<bufferVars, rows, turnVars, after, last, offset, more, left,
                   historyVars, restarts>>

(* Without a buffer the response of a paused workspace ends, any other     *)
(* waits for the buffer.                                                   *)
EndReplay(r) ==
    IF phase[r] = "replay"
    THEN /\ Subscribe(r)
         /\ phase' = [phase EXCEPT ![r] = "live"]
    ELSE /\ \E p \in {"off", "poll"} : phase' = [phase EXCEPT ![r] = p]
         /\ UNCHANGED <<subscribers, queues, batch>>

Fetch(r) ==
    /\ phase[r] \in Replaying
    /\ batch[r] = <<>>
    /\ \/ /\ more[r]
          /\ Page(r) # <<>>
          /\ batch' = [batch EXCEPT ![r] = Page(r)]
          /\ offset' = [offset EXCEPT ![r] = @ + Len(Page(r))]
          /\ more' = [more EXCEPT ![r] = Len(Page(r)) = FetchSize]
          /\ UNCHANGED <<phase, subscribers, queues>>
       \/ /\ more[r] => Page(r) = <<>>
          /\ EndReplay(r)
          /\ UNCHANGED <<offset, more>>
    /\ UNCHANGED <<bufferVars, rows, turnVars, after, last, left, historyVars, restarts>>

Deliver(r, row) == got' = [got EXCEPT ![r] = Append(@, row)]

(* The limit ends the replay in the middle of a page.                      *)
SendStored(r) ==
    /\ phase[r] \in Replaying
    /\ batch[r] # <<>>
    /\ Deliver(r, Head(batch[r]))
    /\ last' = [last EXCEPT ![r] = IF @ < Head(batch[r]).seq THEN Head(batch[r]).seq ELSE @]
    /\ left' = [left EXCEPT ![r] = @ - 1]
    /\ batch' = [batch EXCEPT ![r] = IF left[r] = 1 THEN <<>> ELSE Tail(@)]
    /\ more' = [more EXCEPT ![r] = @ /\ left[r] # 1]
    /\ UNCHANGED <<bufferVars, subscribers, queues, rows, turnVars, phase, after,
                   offset, start, late, restarts>>

(* The response that waited goes through storage again.                    *)
BufferAppears(r) ==
    /\ phase[r] = "poll"
    /\ connected
    /\ BeginReplay(r, last[r])
    /\ UNCHANGED <<bufferVars, subscribers, queues, rows, turnVars, historyVars, restarts>>

(* The workspace ended before it had a buffer.                             *)
BecomesTerminal(r) ==
    /\ phase[r] = "poll"
    /\ ~connected
    /\ EndResponse(r)

SendRing(r) ==
    /\ phase[r] = "live"
    /\ batch[r] # <<>>
    /\ Deliver(r, Head(batch[r]))
    /\ batch' = [batch EXCEPT ![r] = Tail(@)]
    /\ UNCHANGED <<bufferVars, subscribers, queues, rows, turnVars, phase, after, last,
                   offset, more, left, start, late, restarts>>

SendLive(r) ==
    /\ phase[r] = "live"
    /\ batch[r] = <<>>
    /\ queues[r] # <<>>
    /\ \/ Head(queues[r]) = None /\ EndResponse(r)
       \/ /\ Head(queues[r]) # None
          /\ Deliver(r, Head(queues[r]))
          /\ queues' = [queues EXCEPT ![r] = Tail(@)]
          /\ UNCHANGED <<bufferVars, subscribers, rows, turnVars, readVars, start, late, restarts>>

Leave(r) ==
    /\ "leave" \in Faults
    /\ phase[r] # "off"
    /\ EndResponse(r)

Respond(r) == Fetch(r) \/ SendStored(r) \/ BufferAppears(r) \/ SendRing(r) \/ SendLive(r)

-----------------------------------------------------------------------------
(* A pause closes the buffer, which the resumed session goes on using.     *)
Close ==
    /\ "close" \in Faults
    /\ subscribers # {}
    /\ queues' = Broadcast(None)
    /\ subscribers' = {}
    /\ UNCHANGED <<bufferVars, rows, turnVars, readVars, historyVars, restarts>>

Restart ==
    /\ restarts < MaxRestarts
    /\ restarts' = restarts + 1
    /\ connected' = FALSE
    /\ sequence' = 0
    /\ ring' = <<>>
    /\ subscribers' = {}
    /\ queues' = [r \in Readers |-> <<>>]
    /\ unsaved' = [t \in Turns |-> None]
    /\ ended' = ended \cup {t \in Turns : made[t] > 0}
    /\ phase' = [r \in Readers |-> "off"]
    /\ batch' = [r \in Readers |-> <<>>]
    /\ UNCHANGED <<rows, made, after, last, offset, more, left, historyVars>>

(* Variant: the new buffer starts at zero.                                 *)
ConnectUnseeded ==
    /\ ~connected
    /\ connected' = TRUE
    /\ sequence' = 0
    /\ UNCHANGED <<ring, subscribers, queues, rows, turnVars, readVars, historyVars, restarts>>

(* The new buffer continues after the highest sequence number of storage.  *)
Connect ==
    /\ ~connected
    /\ connected' = TRUE
    /\ \E n \in Seqs(rows) \cup {0} :
        /\ \A row \in rows : row.seq <= n
        /\ sequence' = n
    /\ UNCHANGED <<ring, subscribers, queues, rows, turnVars, readVars, historyVars, restarts>>

-----------------------------------------------------------------------------
Init ==
    /\ connected = TRUE
    /\ sequence = 0
    /\ ring = <<>>
    /\ subscribers = {}
    /\ queues = [r \in Readers |-> <<>>]
    /\ rows = {}
    /\ made = [t \in Turns |-> 0]
    /\ unsaved = [t \in Turns |-> None]
    /\ ended = {}
    /\ phase = [r \in Readers |-> "off"]
    /\ after = [r \in Readers |-> 0]
    /\ last = [r \in Readers |-> 0]
    /\ offset = [r \in Readers |-> 0]
    /\ batch = [r \in Readers |-> <<>>]
    /\ more = [r \in Readers |-> FALSE]
    /\ left = [r \in Readers |-> ReplayLimit]
    /\ got = [r \in Readers |-> <<>>]
    /\ start = [r \in Readers |-> 0]
    /\ late = FALSE
    /\ restarts = 0

Next ==
    \/ \E t \in Turns : Push(t) \/ Persist(t) \/ Abort(t)
    \/ \E r \in Readers : Request(r) \/ Respond(r) \/ BecomesTerminal(r) \/ Leave(r)
    \/ Close
    \/ Restart
    \/ Connect

Spec == Init /\ [][Next]_vars

(* The event loop serves every response and every append.  No turn has to  *)
(* produce an event, no client to connect, nobody to disconnect.           *)
FairSpec ==
    /\ Spec
    /\ \A t \in Turns : WF_vars(Persist(t))
    /\ \A r \in Readers : WF_vars(Respond(r))

-----------------------------------------------------------------------------
(* Every variable keeps its type; ring, queues and table their bounds.     *)
TypeOK ==
    /\ connected \in BOOLEAN
    /\ sequence \in Nat
    /\ ring \in Seq(Rows) /\ Len(ring) <= RingSize
    /\ subscribers \subseteq Readers
    /\ queues \in [Readers -> Seq(Rows \cup {None})]
    /\ \A r \in Readers : Len(queues[r]) <= QueueSize
    /\ rows \subseteq Rows /\ Cardinality(rows) <= MaxEvents
    /\ made \in [Turns -> 0..Count]
    /\ unsaved \in [Turns -> Rows \cup {None}]
    /\ ended \subseteq Turns
    /\ phase \in [Readers -> Phases]
    /\ after \in [Readers -> Nat]
    /\ last \in [Readers -> Nat]
    /\ offset \in [Readers -> Nat]
    /\ batch \in [Readers -> Seq(Rows)]
    /\ more \in [Readers -> BOOLEAN]
    /\ left \in [Readers -> 0..ReplayLimit]
    /\ got \in [Readers -> Seq(Rows)]
    /\ start \in [Readers -> Nat]
    /\ late \in BOOLEAN
    /\ restarts \in 0..MaxRestarts

Ascending(s, from) == \A i, j \in from..Len(s) : i < j => s[i].seq < s[j].seq

(* As long as rows reach the table in the order of their numbers, one      *)
(* response sends its events in order and none of them twice, while it     *)
(* moves from storage to the ring and to the queue, and whatever is        *)
(* appended, pruned or dropped meanwhile.  Two turns at once may append    *)
(* out of order; a response that reads its pages then may send an event    *)
(* twice (see README.md).                                                  *)
InOrder == ~late => \A r \in Readers : Ascending(got[r], start[r] + 1)

(* events.py, "monotonically increasing sequence number": what a client    *)
(* receives in all its responses is in order and without repetition, under *)
(* the same condition, as long as the server is not restarted.             *)
NeverBackwards == ~late => \A r \in Readers : Ascending(got[r], 1)

(* events.py, "no gaps": a client has received every stored event up to    *)
(* the last one it has received.                                           *)
NothingMissed ==
    \A r \in Readers, row \in rows :
        row.seq <= LastEventId(r) => \E i \in DOMAIN got[r] : got[r][i] = row

(* No event that a turn has pushed meets its own number in the table,      *)
(* where it would be silently skipped, also after restarts that lost the   *)
(* counter.                                                                *)
NumbersAreFresh ==
    \A t \in Turns : unsaved[t] # None => unsaved[t].seq \notin Seqs(rows)

(* A client that stays connected receives every event.                     *)
CaughtUp ==
    \A r \in Readers : \A n \in 1..(Cardinality(Turns) * Count) :
        (phase[r] # "off" /\ sequence >= n)
            ~> (phase[r] = "off" \/ LastEventId(r) >= n)
=============================================================================
