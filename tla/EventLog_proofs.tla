--------------------------- MODULE EventLog_proofs ---------------------------
(***************************************************************************)
(* Proofs about EventLog, for any number of turns, readers and restarts,   *)
(* any sizes and any faults.  FreshInv says that the buffer's counter is   *)
(* never behind the table and that the events on their way to the table    *)
(* have numbers of their own.  LogInv adds the types, and OrderInv says of *)
(* each response where what it has sent, what it has fetched and what is   *)
(* queued for it stand to each other and to the counter.  GapInv says of   *)
(* each event that is stored, or may be, where the response has it.        *)
(***************************************************************************)
EXTENDS EventLog, FiniteSetTheorems, TLAPS

ProducerTypes ==
    /\ sequence \in Nat
    /\ rows \subseteq Rows
    /\ made \in [Turns -> 0..Count]
    /\ unsaved \in [Turns -> Rows \cup {None}]

(* A turn that may push has an event left.                                 *)
TurnsGoOn ==
    \A t \in Turns : t \notin ended /\ unsaved[t] = None => made[t] < Count

CounterAhead == connected => \A row \in rows : row.seq <= sequence

(* Events on their way: numbered by the buffer there is, not stored yet,   *)
(* and no two with the same number.                                        *)
UnsavedDistinct ==
    \A t \in Turns : unsaved[t] # None =>
        /\ connected
        /\ unsaved[t].seq <= sequence
        /\ \A row \in rows : row.seq # unsaved[t].seq
        /\ \A u \in Turns \ {t} : unsaved[u] # None => unsaved[u].seq # unsaved[t].seq

FreshInv == ProducerTypes /\ TurnsGoOn /\ CounterAhead /\ UnsavedDistinct

-----------------------------------------------------------------------------
(* What a row of the table and the table after an append look like.        *)
LEMMA RowFacts ==
  ASSUME NEW row \in Rows
  PROVE  row.seq \in Nat /\ row # None
  BY SettingsAssumption DEF Rows

LEMMA AppendFacts ==
  ASSUME NEW row
  PROVE  AppendEvents(row) \subseteq rows \cup {row}
  BY DEF AppendEvents, Prune

(* The steps of readers touch neither the table nor the turns.             *)
LEMMA ReadersKeep ==
  ASSUME FreshInv, UNCHANGED <<connected, sequence, rows, made, unsaved, ended>>
  PROVE  FreshInv'
  BY DEF FreshInv, ProducerTypes, TurnsGoOn, CounterAhead, UnsavedDistinct

LEMMA RespondKeeps ==
  ASSUME FreshInv, NEW r \in Readers,
         Request(r) \/ Respond(r) \/ BecomesTerminal(r) \/ Leave(r)
  PROVE  FreshInv'
<1>1. UNCHANGED <<connected, sequence, rows, made, unsaved, ended>>
  BY DEF Request, Respond, Fetch, SendStored, BufferAppears, SendRing, SendLive,
         BecomesTerminal, Leave, EndResponse, bufferVars, turnVars
<1>. QED BY <1>1, ReadersKeep

-----------------------------------------------------------------------------
(* A pushed event gets a number above all there are.                       *)
LEMMA PushKeeps ==
  ASSUME FreshInv, NEW t \in Turns, Push(t)
  PROVE  FreshInv'
<1>. DEFINE new == [seq |-> sequence + 1, of |-> <<t, made[t] + 1>>]
<1>1. /\ connected /\ unsaved[t] = None /\ t \notin ended
      /\ sequence' = sequence + 1
      /\ unsaved' = [unsaved EXCEPT ![t] = new]
      /\ made' = [made EXCEPT ![t] = made[t] + 1]
      /\ UNCHANGED <<connected, rows, ended>>
  BY DEF Push
<1>2. made[t] \in 0..Count /\ made[t] < Count /\ Count \in Nat
  BY <1>1, SizesAssumption DEF FreshInv, TurnsGoOn, ProducerTypes
<1>3. new \in Rows
  BY <1>2 DEF Rows, FreshInv, ProducerTypes
<1>. HIDE DEF new
<1>4. ProducerTypes'
  BY <1>1, <1>2, <1>3 DEF FreshInv, ProducerTypes
<1>5. unsaved'[t] = new /\ new # None /\ new.seq = sequence + 1
  BY <1>1, <1>3, RowFacts DEF FreshInv, ProducerTypes, new
<1>6. \A u \in Turns \ {t} : unsaved'[u] = unsaved[u] /\ made'[u] = made[u]
  BY <1>1 DEF FreshInv, ProducerTypes
<1>7. TurnsGoOn'
  BY <1>1, <1>5, <1>6 DEF FreshInv, TurnsGoOn
<1>8. \A row \in rows : row.seq \in Nat /\ row.seq <= sequence
  BY <1>1, RowFacts DEF FreshInv, ProducerTypes, CounterAhead
<1>9. \A u \in Turns \ {t} : unsaved[u] # None =>
          unsaved[u].seq \in Nat /\ unsaved[u].seq <= sequence
  BY RowFacts DEF FreshInv, ProducerTypes, UnsavedDistinct
<1>10. CounterAhead'
  BY <1>1, <1>8 DEF CounterAhead, FreshInv, ProducerTypes
<1>11. UnsavedDistinct'
  <2>. SUFFICES ASSUME NEW u \in Turns, unsaved'[u] # None
                PROVE  /\ unsaved'[u].seq <= sequence'
                       /\ \A row \in rows : row.seq # unsaved'[u].seq
                       /\ \A v \in Turns \ {u} : unsaved'[v] # None =>
                              unsaved'[v].seq # unsaved'[u].seq
    BY <1>1 DEF UnsavedDistinct
  <2>1. CASE u = t
    BY <2>1, <1>1, <1>5, <1>6, <1>8, <1>9 DEF FreshInv, ProducerTypes
  <2>2. CASE u # t
    <3>1. unsaved'[u] = unsaved[u] /\ unsaved[u] # None
      BY <2>2, <1>6
    <3>2. unsaved[u].seq \in Nat /\ unsaved[u].seq <= sequence
      BY <2>2, <3>1, <1>9
    <3>3. \A v \in Turns \ {u} : unsaved'[v] # None => unsaved'[v].seq # unsaved[u].seq
      BY <2>2, <3>1, <3>2, <1>5, <1>6 DEF FreshInv, ProducerTypes, UnsavedDistinct
    <3>. QED BY <3>1, <3>2, <3>3, <1>1 DEF FreshInv, ProducerTypes, UnsavedDistinct
  <2>. QED BY <2>1, <2>2
<1>. QED BY <1>4, <1>7, <1>10, <1>11 DEF FreshInv

-----------------------------------------------------------------------------
(* A turn whose event reached the table, or never will.                    *)
LEMMA SettledKeeps ==
  ASSUME FreshInv, NEW t \in Turns, unsaved[t] # None,
         rows' \subseteq rows \cup {unsaved[t]},
         unsaved' = [unsaved EXCEPT ![t] = None],
         made[t] < Count \/ t \in ended',
         ended \subseteq ended',
         UNCHANGED <<connected, sequence, made>>
  PROVE  FreshInv'
<1>1. unsaved'[t] = None /\ \A u \in Turns \ {t} : unsaved'[u] = unsaved[u]
  BY DEF FreshInv, ProducerTypes
<1>2. unsaved[t] \in Rows /\ unsaved[t].seq <= sequence
  BY DEF FreshInv, ProducerTypes, UnsavedDistinct
<1>3. ProducerTypes'
  BY <1>2 DEF FreshInv, ProducerTypes
<1>4. TurnsGoOn'
  BY <1>1 DEF FreshInv, TurnsGoOn
<1>5. CounterAhead'
  BY <1>2 DEF FreshInv, CounterAhead
<1>6. UnsavedDistinct'
  BY <1>1 DEF FreshInv, UnsavedDistinct
<1>. QED BY <1>3, <1>4, <1>5, <1>6 DEF FreshInv

LEMMA PersistKeeps ==
  ASSUME FreshInv, NEW t \in Turns, Persist(t)
  PROVE  FreshInv'
<1>1. rows' \subseteq rows \cup {unsaved[t]}
  BY AppendFacts DEF Persist
<1>2. made[t] \in 0..Count /\ Count \in Nat
  BY SizesAssumption DEF FreshInv, ProducerTypes
<1>3. made[t] < Count \/ t \in ended'
  BY <1>2 DEF Persist
<1>4. ended \subseteq ended'
  BY DEF Persist
<1>. QED BY <1>1, <1>3, <1>4, SettledKeeps DEF Persist, bufferVars

LEMMA AbortKeeps ==
  ASSUME FreshInv, NEW t \in Turns, Abort(t)
  PROVE  FreshInv'
  BY SettledKeeps DEF Abort, bufferVars

-----------------------------------------------------------------------------
(* A restart loses the counter and every event on its way; the new buffer  *)
(* starts at the table's maximum.                                          *)
LEMMA RestartKeeps ==
  ASSUME FreshInv, Restart
  PROVE  FreshInv'
<1>1. ProducerTypes'
  BY DEF Restart, FreshInv, ProducerTypes
<1>2. TurnsGoOn'
  <2>. SUFFICES ASSUME NEW t \in Turns, t \notin ended' PROVE made'[t] < Count
    BY DEF TurnsGoOn
  <2>1. made[t] \in 0..Count /\ ~(made[t] > 0)
    BY DEF Restart, FreshInv, ProducerTypes
  <2>. QED BY <2>1, SizesAssumption DEF Restart
<1>3. CounterAhead' /\ UnsavedDistinct'
  BY DEF Restart, CounterAhead, UnsavedDistinct
<1>. QED BY <1>1, <1>2, <1>3 DEF FreshInv

LEMMA ConnectKeeps ==
  ASSUME FreshInv, Connect
  PROVE  FreshInv'
<1>1. sequence' \in Nat /\ \A row \in rows : row.seq <= sequence'
  BY RowFacts DEF Connect, Seqs, FreshInv, ProducerTypes
<1>2. UNCHANGED <<rows, made, unsaved, ended>> /\ ~connected
  BY DEF Connect, turnVars
<1>3. \A t \in Turns : unsaved[t] = None
  BY <1>2 DEF FreshInv, UnsavedDistinct
<1>. QED
  BY <1>1, <1>2, <1>3 DEF FreshInv, ProducerTypes, TurnsGoOn, CounterAhead, UnsavedDistinct

-----------------------------------------------------------------------------
LEMMA InitFresh == Init => FreshInv
  BY SizesAssumption DEF Init, FreshInv, ProducerTypes, TurnsGoOn, CounterAhead,
     UnsavedDistinct

LEMMA NextKeepsFresh == FreshInv /\ [Next]_vars => FreshInv'
<1>. SUFFICES ASSUME FreshInv, [Next]_vars PROVE FreshInv'
  OBVIOUS
<1>1. ASSUME NEW t \in Turns, Push(t) \/ Persist(t) \/ Abort(t) PROVE FreshInv'
  BY <1>1, PushKeeps, PersistKeeps, AbortKeeps
<1>2. ASSUME NEW r \in Readers,
             Request(r) \/ Respond(r) \/ BecomesTerminal(r) \/ Leave(r)
      PROVE  FreshInv'
  BY <1>2, RespondKeeps
<1>3. CASE Close
  BY <1>3, ReadersKeep DEF Close, bufferVars, turnVars
<1>4. CASE Restart
  BY <1>4, RestartKeeps
<1>5. CASE Connect
  BY <1>5, ConnectKeeps
<1>6. CASE UNCHANGED vars
  BY <1>6, ReadersKeep DEF vars, bufferVars, turnVars
<1>. QED BY <1>1, <1>2, <1>3, <1>4, <1>5, <1>6 DEF Next

(* No event that EventBuffer.push has numbered meets its number in the     *)
(* table, whatever appends fail, clients disconnect or restarts lose the   *)
(* counter: the unique index never drops an event of the buffer.           *)
THEOREM NumbersStayFresh == Spec => []NumbersAreFresh
<1>1. FreshInv => NumbersAreFresh
  BY DEF FreshInv, UnsavedDistinct, NumbersAreFresh, Seqs
<1>. QED BY <1>1, InitFresh, NextKeepsFresh, PTL DEF Spec
-----------------------------------------------------------------------------
(* Sorted lists a finite set of numbers in order: the k-th of them is the  *)
(* one at or below which k of them are.                                    *)
LEMMA SortedFacts ==
  ASSUME NEW N, N \subseteq Nat, IsFiniteSet(N)
  PROVE  /\ Cardinality(N) \in Nat
         /\ Sorted(N) \in Seq(N) /\ Len(Sorted(N)) = Cardinality(N)
         /\ \A k \in 1..Cardinality(N) : Cardinality({m \in N : m <= Sorted(N)[k]}) = k
         /\ \A j, k \in 1..Cardinality(N) : j < k => Sorted(N)[j] < Sorted(N)[k]
<1>. DEFINE upTo(n) == {m \in N : m <= n}
            size == Cardinality(N)
            rank == [n \in N |-> Cardinality(upTo(n))]
<1>1. size \in Nat
  BY FS_CardinalityType
<1>2. ASSUME NEW n \in N
      PROVE  /\ IsFiniteSet(upTo(n)) /\ Cardinality(upTo(n)) \in Nat
             /\ Cardinality(upTo(n)) <= size /\ Cardinality(upTo(n)) # 0
  <2>1. upTo(n) \in SUBSET N /\ n \in upTo(n)
    OBVIOUS
  <2>2. IsFiniteSet(upTo(n)) /\ Cardinality(upTo(n)) <= size
    BY <2>1, FS_Subset
  <2>. QED
    BY <2>1, <2>2, FS_CardinalityType, FS_EmptySet
<1>3. ASSUME NEW a \in N, NEW b \in N, a < b
      PROVE  Cardinality(upTo(a)) < Cardinality(upTo(b))
  <2>0. a \in Nat /\ b \in Nat /\ \A m \in N : m \in Nat
    OBVIOUS
  <2>1. upTo(a) \in SUBSET upTo(b) /\ b \in upTo(b) /\ b \notin upTo(a)
    <3>1. \A m \in N : m <= a => m <= b
      BY <1>3, <2>0
    <3>2. b <= b /\ ~(b <= a)
      BY <1>3, <2>0
    <3>. QED
      BY <3>1, <3>2, Zenon
  <2>2. Cardinality(upTo(a)) <= Cardinality(upTo(b))
        /\ Cardinality(upTo(a)) # Cardinality(upTo(b))
    BY <1>2, <2>1, FS_Subset, Zenon
  <2>. QED
    BY <1>2, <2>2
<1>4. \A n \in N : rank[n] = Cardinality(upTo(n)) /\ rank[n] \in 1..size
  BY <1>1, <1>2
<1>. HIDE DEF rank
<1>5. rank \in Injection(N, 1..size)
  <2>1. rank \in [N -> 1..size]
    BY <1>4 DEF rank
  <2>2. ASSUME NEW a \in N, NEW b \in N, rank[a] = rank[b] PROVE a = b
    <3>1. a \in Nat /\ b \in Nat /\ rank[a] \in Nat /\ rank[b] \in Nat
      <4>1. rank[a] \in 1..size /\ rank[b] \in 1..size
        BY <1>4, Zenon
      <4>. QED
        BY <1>1, <4>1
    <3>2. a < b => rank[a] < rank[b]
      BY <1>3, <1>4, Zenon
    <3>3. b < a => rank[b] < rank[a]
      BY <1>3, <1>4, Zenon
    <3>. QED
      BY <2>2, <3>1, <3>2, <3>3
  <2>. QED
    BY <2>1, <2>2 DEF Injection, IsInjective
<1>6. rank \in Surjection(N, 1..size)
  <2>1. IsFiniteSet(1..size) /\ Cardinality(1..size) = size
    BY <1>1, FS_Interval
  <2>. QED
    BY <1>5, <2>1, FS_Injection
<1>7. \A k \in 1..size : \E n \in N : Cardinality(upTo(n)) = k
  BY <1>4, <1>6 DEF Surjection
<1>8. Sorted(N) = [k \in 1..size |-> CHOOSE n \in N : Cardinality(upTo(n)) = k]
  BY DEF Sorted
<1>9. \A k \in 1..size : Sorted(N)[k] \in N /\ Cardinality(upTo(Sorted(N)[k])) = k
  BY <1>7, <1>8
<1>10. Sorted(N) \in [1..size -> N]
  BY <1>8, <1>9
<1>11. Sorted(N) \in Seq(N) /\ Len(Sorted(N)) = size
  BY <1>1, <1>10
<1>12. ASSUME NEW j \in 1..size, NEW k \in 1..size, j < k
       PROVE  Sorted(N)[j] < Sorted(N)[k]
  <2>. DEFINE a == Sorted(N)[j]
              b == Sorted(N)[k]
  <2>1. a \in N /\ b \in N /\ Cardinality(upTo(a)) = j /\ Cardinality(upTo(b)) = k
    BY <1>9
  <2>. HIDE DEF a, b
  <2>2. ~(b < a) /\ a # b
    BY <1>3, <1>12, <2>1
  <2>3. a \in Nat /\ b \in Nat
    BY <2>1
  <2>4. a < b
    BY <2>2, <2>3
  <2>. QED
    BY <2>4 DEF a, b
<1>. QED
  BY <1>1, <1>9, <1>11, <1>12

(* What the ring holds beyond a number.                                    *)
LEMMA RingAfterFacts ==
  ASSUME NEW n \in Nat, ring \in Seq(Rows)
  PROVE  /\ RingAfter(n) \in Seq(Rows)
         /\ \A k \in 1..Len(RingAfter(n)) :
                /\ RingAfter(n)[k].seq > n
                /\ \E i \in 1..Len(ring) : RingAfter(n)[k] = ring[i]
         /\ (\A i, j \in 1..Len(ring) : i < j => ring[i].seq < ring[j].seq)
                => Ascending(RingAfter(n), 1)
<1>. DEFINE N == {i \in DOMAIN ring : ring[i].seq > n}
            found == Sorted(N)
<1>1. N \in SUBSET (1..Len(ring)) /\ Len(ring) \in Nat
  OBVIOUS
<1>2. IsFiniteSet(N)
  BY <1>1, FS_Interval, FS_Subset
<1>3. N \subseteq Nat
  BY <1>1
<1>4. /\ found \in Seq(N)
      /\ Len(found) = Cardinality(N) /\ Cardinality(N) \in Nat
      /\ \A j, k \in 1..Cardinality(N) : j < k => found[j] < found[k]
  BY <1>2, <1>3, SortedFacts
<1>. HIDE DEF found
<1>5. RingAfter(n) = [k \in 1..Len(found) |-> ring[found[k]]]
  BY <1>4 DEF RingAfter, found
<1>6. \A k \in 1..Len(found) : found[k] \in N
  BY <1>4
<1>7. \A k \in 1..Len(found) : /\ found[k] \in 1..Len(ring)
                               /\ ring[found[k]] \in Rows /\ ring[found[k]].seq > n
  BY <1>6
<1>8. RingAfter(n) \in Seq(Rows) /\ Len(RingAfter(n)) = Len(found)
  BY <1>4, <1>5, <1>7
<1>9. \A k \in 1..Len(found) : RingAfter(n)[k] = ring[found[k]]
  BY <1>5
<1>10. ASSUME \A i, j \in 1..Len(ring) : i < j => ring[i].seq < ring[j].seq
       PROVE  Ascending(RingAfter(n), 1)
  <2>1. ASSUME NEW j \in 1..Len(found), NEW k \in 1..Len(found), j < k
        PROVE  RingAfter(n)[j].seq < RingAfter(n)[k].seq
    <3>1. found[j] < found[k] /\ found[j] \in 1..Len(ring) /\ found[k] \in 1..Len(ring)
      BY <1>4, <1>7, <2>1
    <3>. QED
      BY <1>9, <1>10, <3>1
  <2>. QED
    BY <1>8, <2>1 DEF Ascending
<1>. QED
  BY <1>7, <1>8, <1>9, <1>10

LEMMA FiniteSeqs ==
  ASSUME NEW S, IsFiniteSet(S)
  PROVE  IsFiniteSet(Seqs(S))
<1>. DEFINE f == [row \in S |-> row.seq]
<1>1. f \in Surjection(S, Seqs(S))
  BY DEF Surjection, Seqs
<1>. QED
  BY <1>1, FS_Surjection

(* A page: rows beyond the number the response began with, in order; the   *)
(* i-th of them has offset + i - 1 of these below it.                      *)
Unread(r) == {n \in Seqs(rows) : n > after[r]}

LEMMA PageFacts ==
  ASSUME NEW r \in Readers, rows \subseteq Rows, IsFiniteSet(rows),
         after[r] \in Nat, offset[r] \in Nat
  PROVE  /\ Page(r) \in Seq(Rows) /\ Len(Page(r)) <= FetchSize
         /\ \A i \in 1..Len(Page(r)) :
                /\ Page(r)[i] \in rows /\ Page(r)[i].seq > after[r]
                /\ Cardinality({n \in Unread(r) : n <= Page(r)[i].seq}) = offset[r] + i
         /\ Ascending(Page(r), 1)
<1>. DEFINE N == Unread(r)
            found == Sorted(N)
            rest == Len(found) - offset[r]
            size == IF rest < FetchSize THEN rest ELSE FetchSize
<1>1. IsFiniteSet(N)
  BY FiniteSeqs, FS_Subset DEF Unread
<1>2. \A n \in N : n \in Nat /\ n > after[r] /\ \E row \in rows : row.seq = n
  BY RowFacts DEF Unread, Seqs
<1>3. /\ found \in Seq(N)
      /\ Len(found) = Cardinality(N) /\ Cardinality(N) \in Nat
      /\ \A k \in 1..Cardinality(N) : Cardinality({m \in N : m <= found[k]}) = k
      /\ \A j, k \in 1..Cardinality(N) : j < k => found[j] < found[k]
  BY <1>1, <1>2, SortedFacts
<1>. HIDE DEF found
<1>4. Page(r) = [i \in 1..size |-> RowOf(found[offset[r] + i])]
  BY DEF Page, Unread, found
<1>5. FetchSize \in Nat \ {0} /\ rest \in Int
  BY <1>3, SizesAssumption
<1>6. \A i \in 1..size : offset[r] + i \in 1..Len(found)
  BY <1>3, <1>5
<1>7. \A n \in N : RowOf(n) \in rows /\ RowOf(n).seq = n
  BY <1>2 DEF RowOf
<1>8. ASSUME NEW i \in 1..size
      PROVE  /\ Page(r)[i] \in rows
             /\ Page(r)[i].seq = found[offset[r] + i]
             /\ found[offset[r] + i] \in N
  <2>1. found[offset[r] + i] \in N
    BY <1>3, <1>6
  <2>2. Page(r)[i] = RowOf(found[offset[r] + i])
    BY <1>4
  <2>. QED
    BY <1>7, <2>1, <2>2
<1>9. CASE size < 1
  <2>1. 1..size = {}
    BY <1>5, <1>9
  <2>2. Page(r) = <<>>
    BY <1>4, <2>1
  <2>. QED
    BY <1>5, <2>2 DEF Ascending
<1>10. CASE size >= 1
  <2>1. size \in Nat /\ size <= FetchSize
    BY <1>5, <1>10
  <2>. HIDE DEF size
  <2>2. Page(r) \in Seq(Rows) /\ Len(Page(r)) = size
    <3>1. Page(r) \in [1..size -> Rows]
      BY <1>4, <1>8
    <3>. QED
      BY <2>1, <3>1
  <2>3. ASSUME NEW i \in 1..size
        PROVE  /\ Page(r)[i] \in rows /\ Page(r)[i].seq > after[r]
               /\ Cardinality({n \in N : n <= Page(r)[i].seq}) = offset[r] + i
    BY <1>2, <1>3, <1>6, <1>8
  <2>4. ASSUME NEW i \in 1..size, NEW j \in 1..size, i < j
        PROVE  Page(r)[i].seq < Page(r)[j].seq
    <3>1. /\ offset[r] + i \in 1..Cardinality(N) /\ offset[r] + j \in 1..Cardinality(N)
          /\ offset[r] + i < offset[r] + j
      BY <1>3, <1>6, <2>4
    <3>. QED
      BY <1>3, <1>8, <3>1
  <2>5. Ascending(Page(r), 1)
    BY <2>2, <2>4 DEF Ascending
  <2>. QED
    BY <2>1, <2>2, <2>3, <2>5
<1>. QED
  BY <1>5, <1>9, <1>10
-----------------------------------------------------------------------------
(* Types: the table is finite and its numbers are distinct, so that Prune  *)
(* bounds it; a response that reached its limit has nothing left to send.  *)

TypeInv ==
    /\ TypeOK
    /\ IsFiniteSet(rows)
    /\ \A x, y \in rows : x.seq = y.seq => x = y
    /\ \A r \in Readers :
            phase[r] \in Replaying /\ left[r] = 0 => batch[r] = <<>> /\ ~more[r]

LogInv == FreshInv /\ TypeInv

LEMMA PruneFacts ==
  ASSUME NEW S, S \subseteq Rows, IsFiniteSet(S),
         \A x, y \in S : x.seq = y.seq => x = y
  PROVE  IsFiniteSet(Prune(S)) /\ Cardinality(Prune(S)) <= MaxEvents
<1>. DEFINE above(row) == {x \in S : x.seq > row.seq}
            rank == [row \in Prune(S) |-> Cardinality(above(row))]
<1>1. MaxEvents \in Nat \ {0}
  BY SizesAssumption
<1>2. \A row \in S : row.seq \in Nat
  BY RowFacts
<1>3. ASSUME NEW row \in S
      PROVE  IsFiniteSet(above(row)) /\ Cardinality(above(row)) \in Nat
  BY FS_Subset, FS_CardinalityType
<1>4. ASSUME NEW a \in S, NEW b \in S, a.seq < b.seq
      PROVE  Cardinality(above(b)) < Cardinality(above(a))
  <2>1. above(b) \in SUBSET above(a) /\ b \in above(a) /\ b \notin above(b)
    <3>1. \A x \in S : x.seq > b.seq => x.seq > a.seq
      BY <1>2, <1>4
    <3>2. b.seq > a.seq /\ ~(b.seq > b.seq)
      BY <1>2, <1>4
    <3>. QED
      BY <3>1, <3>2, Zenon
  <2>2. /\ Cardinality(above(b)) <= Cardinality(above(a))
        /\ Cardinality(above(b)) # Cardinality(above(a))
    BY <1>3, <2>1, FS_Subset, Zenon
  <2>. QED
    BY <1>3, <2>2
<1>5. Prune(S) \in SUBSET S
  BY DEF Prune
<1>6. \A row \in Prune(S) : rank[row] = Cardinality(above(row))
  OBVIOUS
<1>7. \A row \in Prune(S) : rank[row] \in 0..(MaxEvents - 1)
  <2>. SUFFICES ASSUME NEW row \in Prune(S) PROVE rank[row] \in 0..(MaxEvents - 1)
    OBVIOUS
  <2>1. row \in S /\ Cardinality(above(row)) < MaxEvents
    BY DEF Prune
  <2>2. Cardinality(above(row)) \in Nat
    BY <1>3, <2>1
  <2>3. Cardinality(above(row)) \in 0..(MaxEvents - 1)
    BY <1>1, <2>1, <2>2
  <2>. QED
    BY <1>6, <2>3
<1>8. rank \in [Prune(S) -> 0..(MaxEvents - 1)]
  BY <1>7
<1>. HIDE DEF rank
<1>9. ASSUME NEW a \in Prune(S), NEW b \in Prune(S), rank[a] = rank[b] PROVE a = b
  <2>1. a \in S /\ b \in S
    BY <1>5
  <2>2. a.seq \in Nat /\ b.seq \in Nat /\ rank[a] \in Int /\ rank[b] \in Int
    BY <1>2, <1>7, <2>1
  <2>3. a.seq < b.seq => rank[b] < rank[a]
    BY <1>4, <1>6, <2>1, Zenon
  <2>4. b.seq < a.seq => rank[a] < rank[b]
    BY <1>4, <1>6, <2>1, Zenon
  <2>5. a.seq = b.seq
    BY <1>9, <2>2, <2>3, <2>4
  <2>. QED
    BY <2>1, <2>5
<1>10. rank \in Injection(Prune(S), 0..(MaxEvents - 1))
  BY <1>8, <1>9 DEF Injection, IsInjective
<1>11. IsFiniteSet(0..(MaxEvents - 1)) /\ Cardinality(0..(MaxEvents - 1)) = MaxEvents
  BY <1>1, FS_Interval
<1>. QED
  BY <1>10, <1>11, FS_Injection

LEMMA RingAppendTyped ==
  ASSUME NEW row \in Rows, ring \in Seq(Rows), Len(ring) <= RingSize
  PROVE  RingAppend(row) \in Seq(Rows) /\ Len(RingAppend(row)) <= RingSize
<1>1. Append(ring, row) \in Seq(Rows) /\ Len(Append(ring, row)) = Len(ring) + 1
  OBVIOUS
<1>2. Tail(Append(ring, row)) \in Seq(Rows) /\ Len(Tail(Append(ring, row))) = Len(ring)
  BY <1>1
<1>. QED
  BY <1>1, <1>2, SizesAssumption DEF RingAppend

LEMMA BroadcastTyped ==
  ASSUME NEW item \in Rows \cup {None}, TypeOK
  PROVE  /\ Broadcast(item) \in [Readers -> Seq(Rows \cup {None})]
         /\ \A r \in Readers : Len(Broadcast(item)[r]) <= QueueSize
<1>1. \A r \in Readers : /\ Append(queues[r], item) \in Seq(Rows \cup {None})
                         /\ Len(Append(queues[r], item)) = Len(queues[r]) + 1
  BY DEF TypeOK
<1>2. QueueSize \in Nat /\ \A r \in Readers : Len(queues[r]) \in Nat
  BY SizesAssumption DEF TypeOK
<1>. QED
  BY <1>1, <1>2 DEF Broadcast, TypeOK

LEMMA PushTyped ==
  ASSUME LogInv, NEW t \in Turns, Push(t)
  PROVE  TypeInv'
<1>1. FreshInv'
  BY PushKeeps DEF LogInv
<1>. DEFINE row == [seq |-> sequence + 1, of |-> <<t, made[t] + 1>>]
<1>2. row \in Rows
  <2>1. unsaved'[t] = row /\ unsaved'[t] \in Rows \cup {None} /\ made'[t] = made[t] + 1
    BY <1>1 DEF Push, LogInv, TypeInv, TypeOK, FreshInv, ProducerTypes
  <2>2. made'[t] \in 0..Count /\ made[t] \in 0..Count /\ Count \in Nat
    BY <1>1, SizesAssumption DEF FreshInv, ProducerTypes, LogInv
  <2>3. made[t] + 1 \in 1..Count
    BY <2>1, <2>2
  <2>. QED
    BY <2>3 DEF Rows, LogInv, FreshInv, ProducerTypes
<1>. HIDE DEF row
<1>3. ring' \in Seq(Rows) /\ Len(ring') <= RingSize
  BY <1>2, RingAppendTyped DEF Push, row, LogInv, TypeInv, TypeOK
<1>4. /\ queues' \in [Readers -> Seq(Rows \cup {None})]
      /\ \A r \in Readers : Len(queues'[r]) <= QueueSize
  BY <1>2, BroadcastTyped DEF Push, row, LogInv, TypeInv
<1>5. UNCHANGED <<connected, subscribers, rows, ended, readVars, historyVars, restarts>>
  BY DEF Push
<1>. QED
  BY <1>1, <1>3, <1>4, <1>5
  DEF LogInv, TypeInv, TypeOK, FreshInv, ProducerTypes, readVars, historyVars

LEMMA PersistTyped ==
  ASSUME LogInv, NEW t \in Turns, Persist(t)
  PROVE  TypeInv'
<1>1. FreshInv'
  BY PersistKeeps DEF LogInv
<1>2. /\ rows \subseteq Rows /\ IsFiniteSet(rows) /\ Cardinality(rows) <= MaxEvents
      /\ \A x, y \in rows : x.seq = y.seq => x = y
      /\ unsaved[t] \in Rows /\ \A x \in rows : x.seq # unsaved[t].seq
  BY DEF LogInv, TypeInv, TypeOK, Persist, FreshInv, UnsavedDistinct
<1>3. /\ rows' \subseteq rows \cup {unsaved[t]}
      /\ IsFiniteSet(rows') /\ Cardinality(rows') <= MaxEvents
  <2>1. CASE UNCHANGED rows
    BY <1>2, <2>1
  <2>2. CASE rows' = AppendEvents(unsaved[t])
    <3>1. rows' = Prune(rows \cup {unsaved[t]})
      BY <1>2, <2>2 DEF AppendEvents, Seqs
    <3>2. rows \cup {unsaved[t]} \subseteq Rows /\ IsFiniteSet(rows \cup {unsaved[t]})
      BY <1>2, FS_AddElement
    <3>3. \A x, y \in rows \cup {unsaved[t]} : x.seq = y.seq => x = y
      BY <1>2
    <3>4. Prune(rows \cup {unsaved[t]}) \subseteq rows \cup {unsaved[t]}
      BY DEF Prune
    <3>. QED
      BY <3>1, <3>2, <3>3, <3>4, PruneFacts
  <2>. QED
    BY <2>1, <2>2 DEF Persist
<1>4. \A x, y \in rows' : x.seq = y.seq => x = y
  BY <1>2, <1>3
<1>5. UNCHANGED <<bufferVars, subscribers, queues, made, readVars, got, start, restarts>>
      /\ late' \in BOOLEAN /\ ended' \subseteq Turns
  BY DEF Persist, LogInv, TypeInv, TypeOK
<1>. QED
  BY <1>1, <1>2, <1>3, <1>4, <1>5
  DEF LogInv, TypeInv, TypeOK, FreshInv, ProducerTypes, readVars, bufferVars

LEMMA AbortTyped ==
  ASSUME LogInv, NEW t \in Turns, Abort(t)
  PROVE  TypeInv'
<1>1. FreshInv'
  BY AbortKeeps DEF LogInv
<1>. QED
  BY <1>1 DEF Abort, LogInv, TypeInv, TypeOK, FreshInv, ProducerTypes, readVars, bufferVars,
              historyVars

(* The steps of a response.                                                *)
LEMMA LastEventIdType ==
  ASSUME NEW r \in Readers, got[r] \in Seq(Rows)
  PROVE  LastEventId(r) \in Nat
<1>1. got[r] # <<>> => got[r][Len(got[r])] \in Rows
  OBVIOUS
<1>. QED
  BY <1>1, RowFacts DEF LastEventId, Last

LEMMA BeginTyped ==
  ASSUME LogInv, NEW r \in Readers, Request(r) \/ BufferAppears(r)
  PROVE  TypeInv'
<1>1. PICK id \in Nat : BeginReplay(r, id)
  BY LastEventIdType DEF Request, BufferAppears, LogInv, TypeInv, TypeOK
<1>2. /\ phase' \in [Readers -> Phases] /\ after' \in [Readers -> Nat]
      /\ last' \in [Readers -> Nat] /\ offset' \in [Readers -> Nat]
      /\ batch' \in [Readers -> Seq(Rows)] /\ more' \in [Readers -> BOOLEAN]
      /\ left' \in [Readers -> 0..ReplayLimit]
  BY <1>1, SizesAssumption, SMTT(30) DEF BeginReplay, LogInv, TypeInv, TypeOK, Phases, Replaying
<1>3. start' \in [Readers -> Nat]
  <2>1. start \in [Readers -> Nat] /\ got[r] \in Seq(Rows)
    BY DEF LogInv, TypeInv, TypeOK
  <2>2. Len(got[r]) \in Nat
    BY <2>1
  <2>3. start' = [start EXCEPT ![r] = Len(got[r])] \/ UNCHANGED start
    BY DEF Request, BufferAppears, historyVars
  <2>. QED
    BY <2>1, <2>2, <2>3
<1>4. \A u \in Readers : phase'[u] \in Replaying /\ left'[u] = 0 =>
            batch'[u] = <<>> /\ ~more'[u]
  BY <1>1, SizesAssumption DEF BeginReplay, LogInv, TypeInv, TypeOK
<1>5. UNCHANGED <<bufferVars, subscribers, queues, rows, turnVars, got, late, restarts>>
  BY DEF Request, BufferAppears, historyVars
<1>. QED
  BY <1>2, <1>3, <1>4, <1>5 DEF LogInv, TypeInv, TypeOK, bufferVars, turnVars

LEMMA QueuesBounded ==
  ASSUME LogInv
  PROVE  /\ Len(<<>>) <= QueueSize
         /\ \A r \in Readers : Len(queues[r]) <= QueueSize
<1>1. QueueSize \in Nat /\ Len(<<>>) = 0
  BY SizesAssumption
<1>. QED
  BY <1>1 DEF LogInv, TypeInv, TypeOK

LEMMA EndTyped ==
  ASSUME LogInv, NEW r \in Readers, EndResponse(r)
  PROVE  TypeInv'
<1>1. /\ phase' \in [Readers -> Phases] /\ batch' \in [Readers -> Seq(Rows)]
      /\ queues' \in [Readers -> Seq(Rows \cup {None})]
      /\ subscribers' \subseteq Readers
  BY DEF EndResponse, LogInv, TypeInv, TypeOK, Phases
<1>2. \A u \in Readers : Len(queues'[u]) <= QueueSize
  <2>1. \A u \in Readers : queues'[u] = IF u = r THEN <<>> ELSE queues[u]
    BY DEF EndResponse, LogInv, TypeInv, TypeOK
  <2>. QED
    BY <2>1, QueuesBounded
<1>3. \A u \in Readers : phase'[u] \in Replaying /\ left'[u] = 0 =>
        batch'[u] = <<>> /\ ~more'[u]
  <2>1. \A u \in Readers : /\ phase'[u] = IF u = r THEN "off" ELSE phase[u]
                           /\ batch'[u] = IF u = r THEN <<>> ELSE batch[u]
    BY DEF EndResponse, LogInv, TypeInv, TypeOK
  <2>. QED
    BY <2>1 DEF EndResponse, LogInv, TypeInv, Replaying
<1>. QED
  BY <1>1, <1>2, <1>3
  DEF EndResponse, LogInv, TypeInv, TypeOK, bufferVars, turnVars, historyVars

LEMMA FetchTyped ==
  ASSUME LogInv, NEW r \in Readers, Fetch(r)
  PROVE  TypeInv'
<1>1. /\ phase' \in [Readers -> Phases] /\ batch' \in [Readers -> Seq(Rows)]
      /\ offset' \in [Readers -> Nat] /\ more' \in [Readers -> BOOLEAN]
      /\ queues' \in [Readers -> Seq(Rows \cup {None})]
      /\ \A u \in Readers : Len(queues'[u]) <= QueueSize
      /\ \A u \in Readers : phase'[u] \in Replaying /\ left'[u] = 0 =>
            batch'[u] = <<>> /\ ~more'[u]
      /\ subscribers' \subseteq Readers
  <2>1. CASE /\ more[r]
             /\ batch' = [batch EXCEPT ![r] = Page(r)]
             /\ offset' = [offset EXCEPT ![r] = @ + Len(Page(r))]
             /\ more' = [more EXCEPT ![r] = Len(Page(r)) = FetchSize]
             /\ UNCHANGED <<phase, subscribers, queues>>
    <3>1. Page(r) \in Seq(Rows)
      BY PageFacts DEF LogInv, TypeInv, TypeOK
    <3>. QED
      BY <2>1, <3>1, SMTT(30) DEF Fetch, LogInv, TypeInv, TypeOK
  <2>2. CASE EndReplay(r) /\ UNCHANGED <<offset, more>>
    <3>1. RingAfter(last[r]) \in Seq(Rows)
      BY RingAfterFacts DEF LogInv, TypeInv, TypeOK
    <3>2. \/ /\ subscribers' = subscribers \cup {r}
             /\ queues' = [queues EXCEPT ![r] = <<>>]
             /\ batch' = [batch EXCEPT ![r] = RingAfter(last[r])]
          \/ UNCHANGED <<subscribers, queues, batch>>
      BY <2>2 DEF EndReplay, Subscribe
    <3>3. \E p \in {"live", "off", "poll"} : phase' = [phase EXCEPT ![r] = p]
      BY <2>2 DEF EndReplay
    <3>4. /\ phase' \in [Readers -> Phases] /\ batch' \in [Readers -> Seq(Rows)]
          /\ queues' \in [Readers -> Seq(Rows \cup {None})]
          /\ subscribers' \subseteq Readers
      <4>1. phase' \in [Readers -> Phases]
        BY <3>3 DEF LogInv, TypeInv, TypeOK, Phases
      <4>2. <<>> \in Seq(Rows \cup {None})
        OBVIOUS
      <4>. QED
        BY <3>1, <3>2, <4>1, <4>2 DEF LogInv, TypeInv, TypeOK
    <3>5. \A u \in Readers : Len(queues'[u]) <= QueueSize
      <4>1. \A u \in Readers : queues'[u] = <<>> \/ queues'[u] = queues[u]
        BY <3>2 DEF LogInv, TypeInv, TypeOK
      <4>. QED
        BY <4>1, QueuesBounded
    <3>6. \A u \in Readers : \/ phase'[u] \notin Replaying
                             \/ phase'[u] = phase[u] /\ batch'[u] = batch[u]
      BY <3>2, <3>3 DEF LogInv, TypeInv, TypeOK, Replaying
    <3>. QED
      BY <2>2, <3>4, <3>5, <3>6 DEF Fetch, LogInv, TypeInv, TypeOK
  <2>. QED
    BY <2>1, <2>2 DEF Fetch
<1>. QED
  BY <1>1 DEF Fetch, LogInv, TypeInv, TypeOK, bufferVars, turnVars, historyVars

LEMMA SendTyped ==
  ASSUME LogInv, NEW r \in Readers, SendStored(r) \/ SendRing(r)
  PROVE  TypeInv'
<1>1. batch[r] \in Seq(Rows) /\ batch[r] # <<>> /\ got[r] \in Seq(Rows)
  BY DEF SendStored, SendRing, LogInv, TypeInv, TypeOK
<1>2. Head(batch[r]) \in Rows /\ Tail(batch[r]) \in Seq(Rows) /\ Head(batch[r]).seq \in Nat
  BY <1>1, RowFacts
<1>3. Append(got[r], Head(batch[r])) \in Seq(Rows)
  BY <1>1, <1>2
<1>4. got' \in [Readers -> Seq(Rows)]
  BY <1>3 DEF SendStored, SendRing, Deliver, LogInv, TypeInv, TypeOK
<1>5. CASE SendStored(r)
  <2>1. left[r] \in 0..ReplayLimit /\ left[r] # 0
    BY <1>1, <1>5 DEF SendStored, LogInv, TypeInv, TypeOK
  <2>2. left' = [left EXCEPT ![r] = left[r] - 1] /\ left[r] - 1 \in 0..ReplayLimit
    BY <1>5, <2>1, SizesAssumption DEF SendStored
  <2>3. /\ left' \in [Readers -> 0..ReplayLimit]
        /\ last' \in [Readers -> Nat]
        /\ batch' \in [Readers -> Seq(Rows)] /\ more' \in [Readers -> BOOLEAN]
    BY <1>2, <1>5, <2>2 DEF SendStored, LogInv, TypeInv, TypeOK
  <2>4. \A u \in Readers : phase'[u] \in Replaying /\ left'[u] = 0 =>
            batch'[u] = <<>> /\ ~more'[u]
    <3>1. left'[r] = left[r] - 1 /\ \A u \in Readers : u # r => left'[u] = left[u]
      BY <2>2 DEF LogInv, TypeInv, TypeOK
    <3>2. left'[r] = 0 => left[r] = 1
      BY <2>1, <3>1
    <3>3. left[r] = 1 => batch'[r] = <<>> /\ ~more'[r]
      BY <1>5 DEF SendStored, LogInv, TypeInv, TypeOK
    <3>4. \A u \in Readers : u # r => batch'[u] = batch[u] /\ more'[u] = more[u]
      BY <1>5 DEF SendStored, LogInv, TypeInv, TypeOK
    <3>. QED
      BY <1>5, <3>1, <3>2, <3>3, <3>4 DEF SendStored, LogInv, TypeInv
  <2>. QED
    BY <1>4, <1>5, <2>3, <2>4
    DEF SendStored, LogInv, TypeInv, TypeOK, bufferVars, turnVars
<1>6. CASE SendRing(r)
  <2>1. batch' \in [Readers -> Seq(Rows)]
    BY <1>2, <1>6 DEF SendRing, LogInv, TypeInv, TypeOK
  <2>2. \A u \in Readers : phase'[u] \in Replaying /\ left'[u] = 0 =>
            batch'[u] = <<>> /\ ~more'[u]
    BY <1>6 DEF SendRing, Replaying, LogInv, TypeInv, TypeOK
  <2>. QED
    BY <1>4, <1>6, <2>1, <2>2 DEF SendRing, LogInv, TypeInv, TypeOK, bufferVars, turnVars
<1>. QED
  BY <1>5, <1>6

LEMMA SendLiveTyped ==
  ASSUME LogInv, NEW r \in Readers, SendLive(r)
  PROVE  TypeInv'
<1>1. CASE EndResponse(r)
  BY <1>1, EndTyped
<1>2. CASE /\ Head(queues[r]) # None
           /\ Deliver(r, Head(queues[r]))
           /\ queues' = [queues EXCEPT ![r] = Tail(@)]
           /\ UNCHANGED <<bufferVars, subscribers, rows, turnVars, readVars, start, late, restarts>>
  <2>1. /\ queues[r] \in Seq(Rows \cup {None}) /\ queues[r] # <<>>
        /\ Len(queues[r]) <= QueueSize /\ got[r] \in Seq(Rows)
    BY DEF SendLive, LogInv, TypeInv, TypeOK
  <2>2. /\ Head(queues[r]) \in Rows
        /\ Tail(queues[r]) \in Seq(Rows \cup {None})
        /\ Len(Tail(queues[r])) <= QueueSize
    BY <1>2, <2>1, SizesAssumption
  <2>3. Append(got[r], Head(queues[r])) \in Seq(Rows)
    BY <2>1, <2>2
  <2>. QED
    BY <1>2, <2>2, <2>3
    DEF Deliver, LogInv, TypeInv, TypeOK, bufferVars, turnVars, readVars
<1>. QED
  BY <1>1, <1>2 DEF SendLive

LEMMA CloseTyped ==
  ASSUME LogInv, Close
  PROVE  TypeInv'
<1>1. /\ queues' \in [Readers -> Seq(Rows \cup {None})]
      /\ \A r \in Readers : Len(queues'[r]) <= QueueSize
  BY BroadcastTyped DEF Close, LogInv, TypeInv
<1>. QED
  BY <1>1 DEF Close, LogInv, TypeInv, TypeOK, bufferVars, turnVars, readVars, historyVars

LEMMA RestartTyped ==
  ASSUME LogInv, Restart
  PROVE  TypeInv'
<1>1. restarts' \in 0..MaxRestarts
  BY SizesAssumption DEF Restart, LogInv, TypeInv, TypeOK
<1>2. /\ phase' \in [Readers -> Phases] /\ queues' \in [Readers -> Seq(Rows \cup {None})]
      /\ batch' \in [Readers -> Seq(Rows)] /\ ring' \in Seq(Rows) /\ Len(ring') <= RingSize
      /\ unsaved' \in [Turns -> Rows \cup {None}] /\ ended' \subseteq Turns
      /\ \A r \in Readers : Len(queues'[r]) <= QueueSize /\ phase'[r] = "off"
  BY SizesAssumption DEF Restart, LogInv, TypeInv, TypeOK, Phases
<1>. QED
  BY <1>1, <1>2 DEF Restart, Replaying, LogInv, TypeInv, TypeOK, historyVars

LEMMA ConnectTyped ==
  ASSUME LogInv, Connect
  PROVE  TypeInv'
<1>1. FreshInv'
  BY ConnectKeeps DEF LogInv
<1>. QED
  BY <1>1 DEF Connect, LogInv, TypeInv, TypeOK, FreshInv, ProducerTypes, turnVars, readVars,
              historyVars

LEMMA NextKeepsLog == LogInv /\ [Next]_vars => LogInv'
<1>. SUFFICES ASSUME LogInv, [Next]_vars PROVE TypeInv'
  BY NextKeepsFresh DEF LogInv
<1>1. ASSUME NEW t \in Turns, Push(t) \/ Persist(t) \/ Abort(t) PROVE TypeInv'
  BY <1>1, PushTyped, PersistTyped, AbortTyped
<1>2. ASSUME NEW r \in Readers,
             Request(r) \/ Respond(r) \/ BecomesTerminal(r) \/ Leave(r)
      PROVE  TypeInv'
  BY <1>2, BeginTyped, FetchTyped, SendTyped, SendLiveTyped, EndTyped
  DEF Respond, BecomesTerminal, Leave
<1>3. CASE Close
  BY <1>3, CloseTyped
<1>4. CASE Restart
  BY <1>4, RestartTyped
<1>5. CASE Connect
  BY <1>5, ConnectTyped
<1>6. CASE UNCHANGED vars
  BY <1>6 DEF vars, LogInv, TypeInv, TypeOK, bufferVars, turnVars, readVars, historyVars
<1>. QED BY <1>1, <1>2, <1>3, <1>4, <1>5, <1>6 DEF Next

LEMMA InitLog == Init => LogInv
<1>1. Init => TypeInv
  <2>1. IsFiniteSet({}) /\ Cardinality({}) = 0
    BY FS_EmptySet
  <2>. SUFFICES ASSUME Init PROVE TypeInv
    OBVIOUS
  <2>2. /\ ring \in Seq(Rows) /\ Len(ring) <= RingSize
        /\ queues \in [Readers -> Seq(Rows \cup {None})]
        /\ \A r \in Readers : Len(queues[r]) <= QueueSize
        /\ batch \in [Readers -> Seq(Rows)] /\ got \in [Readers -> Seq(Rows)]
    BY SizesAssumption DEF Init
  <2>3. /\ rows \subseteq Rows /\ Cardinality(rows) <= MaxEvents /\ IsFiniteSet(rows)
        /\ made \in [Turns -> 0..Count] /\ unsaved \in [Turns -> Rows \cup {None}]
        /\ left \in [Readers -> 0..ReplayLimit] /\ restarts \in 0..MaxRestarts
    BY <2>1, SizesAssumption DEF Init
  <2>. QED
    BY <2>2, <2>3 DEF Init, TypeInv, TypeOK, Phases, Replaying
<1>. QED
  BY <1>1, InitFresh DEF LogInv

LEMMA LogHolds == Spec => []LogInv
  BY InitLog, NextKeepsLog, PTL DEF Spec

(* Every variable keeps its type for any sizes, faults and restarts: the   *)
(* ring, the queues, the table and the rows a response may still send      *)
(* keep their bounds.                                                      *)
THEOREM TypeCorrect == Spec => []TypeOK
<1>1. LogInv => TypeOK
  BY DEF LogInv, TypeInv
<1>. QED
  BY <1>1, LogHolds, PTL

-----------------------------------------------------------------------------
(* The order of what a client receives.  The history of a response starts  *)
(* with the response, or with the client where the server is never         *)
(* restarted.  Before late, rows reach the table in the order of their     *)
(* numbers, so that the rows behind a response keep their places.          *)

From(r) == IF MaxRestarts = 0 THEN 0 ELSE start[r]

Sent(r) == (From(r) + 1)..Len(got[r])

Above(n) == \E row \in rows : n <= row.seq

(* A number the buffer has given, or the table will make it go on from.    *)
Known(n) == IF connected THEN n <= sequence ELSE Above(n)

(* How far the response has come, once its page is sent.                   *)
Far(r) == IF batch[r] = <<>> THEN last[r] ELSE batch[r][Len(batch[r])].seq

RingInv ==
    /\ Ascending(ring, 1)
    /\ \A i \in 1..Len(ring) : ring[i].seq <= sequence
    /\ ~connected => ring = <<>>

PhaseInv(r) ==
    /\ phase[r] \in {"replay", "live"} => connected
    /\ phase[r] # "live" => r \notin subscribers /\ queues[r] = <<>>
    /\ phase[r] \in {"off", "poll"} => batch[r] = <<>>

(* What the client has, below all that waits for it.                       *)
SentInv(r) ==
    /\ start[r] <= Len(got[r])
    /\ Ascending(got[r], From(r) + 1)
    /\ phase[r] # "off" \/ MaxRestarts = 0 =>
            \A i \in Sent(r) : Known(got[r][i].seq)
    /\ \A i \in Sent(r) : \A j \in 1..Len(batch[r]) : got[r][i].seq < batch[r][j].seq
    /\ \A i \in Sent(r) : \A k \in 1..Len(queues[r]) :
            queues[r][k] # None => got[r][i].seq < queues[r][k].seq
    /\ phase[r] \in Replaying \cup {"poll"} =>
            \A i \in Sent(r) : got[r][i].seq <= last[r]

(* What waits: the page or the ring's events, and the queue beyond them.   *)
WaitingInv(r) ==
    /\ Ascending(batch[r], 1)
    /\ \A j \in 1..Len(batch[r]) : Known(batch[r][j].seq)
    /\ \A j, k \in 1..Len(queues[r]) :
            j < k /\ queues[r][j] # None /\ queues[r][k] # None =>
                queues[r][j].seq < queues[r][k].seq
    /\ \A k \in 1..Len(queues[r]) : queues[r][k] # None => queues[r][k].seq <= sequence
    /\ \A j \in 1..Len(batch[r]) : \A k \in 1..Len(queues[r]) :
            queues[r][k] # None => batch[r][j].seq < queues[r][k].seq

(* The rows of the table the response has passed.                          *)
Passed(r) == {n \in Seqs(rows) : after[r] < n /\ n <= Far(r)}

(* A response that goes on to another page has fetched every row it has    *)
(* passed: no more of them are there than its offset skips.                *)
PageInv(r) ==
    phase[r] \in Replaying =>
        /\ \A j \in 1..Len(batch[r]) : last[r] < batch[r][j].seq
        /\ more[r] => /\ Far(r) = after[r] \/ Above(Far(r))
                      /\ Cardinality(Passed(r)) <= offset[r]

ReaderInv(r) == PhaseInv(r) /\ SentInv(r) /\ WaitingInv(r) /\ PageInv(r)

OrderInv ==
    /\ MaxRestarts = 0 => connected
    /\ ~late => RingInv /\ \A r \in Readers : ReaderInv(r)

(* Sequences of rows.                                                      *)
LEMMA RowSeqFacts ==
  ASSUME NEW s \in Seq(Rows)
  PROVE  /\ Len(s) \in Nat
         /\ \A i \in 1..Len(s) : s[i] \in Rows /\ s[i].seq \in Nat /\ s[i] # None
<1>1. Len(s) \in Nat /\ \A i \in 1..Len(s) : s[i] \in Rows
  OBVIOUS
<1>. QED
  BY <1>1, RowFacts

LEMMA AscendingAppend ==
  ASSUME NEW s \in Seq(Rows), NEW row \in Rows, NEW from \in Nat \ {0},
         Ascending(s, from), \A i \in from..Len(s) : s[i].seq < row.seq
  PROVE  Ascending(Append(s, row), from)
<1>1. /\ Len(Append(s, row)) = Len(s) + 1 /\ Len(s) \in Nat
      /\ Append(s, row)[Len(s) + 1] = row
      /\ \A i \in 1..Len(s) : Append(s, row)[i] = s[i]
  OBVIOUS
<1>2. ASSUME NEW i \in from..(Len(s) + 1), NEW j \in from..(Len(s) + 1), i < j
      PROVE  Append(s, row)[i].seq < Append(s, row)[j].seq
  <2>1. i \in from..Len(s) /\ i \in 1..Len(s)
    BY <1>1, <1>2
  <2>2. CASE j = Len(s) + 1
    BY <1>1, <2>1, <2>2
  <2>3. CASE j # Len(s) + 1
    <3>1. j \in from..Len(s) /\ j \in 1..Len(s)
      BY <1>1, <1>2, <2>3
    <3>. QED
      BY <1>1, <1>2, <2>1, <3>1 DEF Ascending
  <2>. QED
    BY <2>2, <2>3
<1>. QED
  BY <1>1, <1>2 DEF Ascending

LEMMA TailFacts ==
  ASSUME NEW S, NEW s \in Seq(S), s # <<>>
  PROVE  /\ Len(Tail(s)) = Len(s) - 1 /\ Len(s) \in Nat \ {0}
         /\ Head(s) = s[1] /\ Tail(s) \in Seq(S) /\ Head(s) \in S
         /\ \A i \in 1..Len(Tail(s)) : Tail(s)[i] = s[i + 1] /\ i + 1 \in 1..Len(s)
         /\ Tail(s) # <<>> => Tail(s)[Len(Tail(s))] = s[Len(s)]
         /\ Tail(s) = <<>> => Len(s) = 1
<1>1. /\ Len(Tail(s)) = Len(s) - 1 /\ Len(s) \in Nat \ {0}
      /\ Head(s) = s[1] /\ Tail(s) \in Seq(S) /\ Head(s) \in S
  OBVIOUS
<1>2. \A i \in 1..Len(Tail(s)) : Tail(s)[i] = s[i + 1] /\ i + 1 \in 1..Len(s)
  BY <1>1
<1>3. Tail(s) # <<>> => Len(Tail(s)) \in 1..Len(Tail(s))
  BY <1>1
<1>4. Tail(s) = <<>> => Len(s) = 1
  BY <1>1
<1>5. Tail(s) # <<>> => Tail(s)[Len(Tail(s))] = s[Len(s)]
  BY <1>1, <1>2, <1>3
<1>. QED
  BY <1>1, <1>2, <1>4, <1>5

LEMMA AscendingTail ==
  ASSUME NEW s \in Seq(Rows), s # <<>>, Ascending(s, 1)
  PROVE  /\ Ascending(Tail(s), 1)
         /\ \A i \in 1..Len(Tail(s)) : Head(s).seq < Tail(s)[i].seq
<1>1. /\ Len(Tail(s)) = Len(s) - 1 /\ Len(s) \in Nat \ {0} /\ Head(s) = s[1]
      /\ \A i \in 1..Len(Tail(s)) : Tail(s)[i] = s[i + 1] /\ i + 1 \in 1..Len(s)
  BY TailFacts
<1>2. \A i \in 1..Len(Tail(s)) : s[1].seq < s[i + 1].seq
  BY <1>1 DEF Ascending
<1>3. ASSUME NEW i \in 1..Len(Tail(s)), NEW j \in 1..Len(Tail(s)), i < j
      PROVE  s[i + 1].seq < s[j + 1].seq
  BY <1>1, <1>3 DEF Ascending
<1>. QED
  BY <1>1, <1>2, <1>3 DEF Ascending

(* The types an order of one reader is stated over.                        *)
LEMMA ReaderTypes ==
  ASSUME LogInv, NEW r \in Readers
  PROVE  /\ got[r] \in Seq(Rows) /\ batch[r] \in Seq(Rows)
         /\ queues[r] \in Seq(Rows \cup {None}) /\ Len(queues[r]) \in Nat
         /\ \A k \in 1..Len(queues[r]) : queues[r][k] # None =>
                queues[r][k] \in Rows /\ queues[r][k].seq \in Nat
         /\ sequence \in Nat /\ start[r] \in Nat /\ last[r] \in Nat /\ after[r] \in Nat
         /\ From(r) \in Nat /\ offset[r] \in Nat
         /\ Sent(r) \subseteq 1..Len(got[r])
         /\ ring \in Seq(Rows)
<1>1. /\ got[r] \in Seq(Rows) /\ batch[r] \in Seq(Rows)
      /\ queues[r] \in Seq(Rows \cup {None})
      /\ sequence \in Nat /\ start[r] \in Nat /\ last[r] \in Nat /\ after[r] \in Nat
      /\ offset[r] \in Nat /\ ring \in Seq(Rows)
  BY DEF LogInv, TypeInv, TypeOK
<1>2. Len(queues[r]) \in Nat /\ Len(got[r]) \in Nat
      /\ \A k \in 1..Len(queues[r]) : queues[r][k] \in Rows \cup {None}
  BY <1>1
<1>3. From(r) \in Nat
  BY <1>1 DEF From
<1>4. Sent(r) \subseteq 1..Len(got[r])
  BY <1>2, <1>3 DEF Sent
<1>. QED
  BY <1>1, <1>2, <1>3, <1>4, RowFacts

-----------------------------------------------------------------------------
(* Steps that leave a response alone.                                      *)
SameReader(r) ==
    /\ phase'[r] = phase[r] /\ after'[r] = after[r] /\ last'[r] = last[r]
    /\ offset'[r] = offset[r] /\ batch'[r] = batch[r] /\ more'[r] = more[r]
    /\ got'[r] = got[r] /\ start'[r] = start[r]

LEMMA KnownKept ==
  ASSUME NEW n \in Nat, Known(n), connected' = connected,
         sequence \in Nat, sequence' \in Nat, sequence <= sequence',
         connected \/ rows' = rows
  PROVE  Known(n)'
  BY DEF Known, Above

LEMMA SameSent ==
  ASSUME NEW r \in Readers, start'[r] = start[r], got'[r] = got[r]
  PROVE  From(r)' = From(r) /\ Sent(r)' = Sent(r)
  BY DEF From, Sent

LEMMA ReaderKeeps ==
  ASSUME LogInv, LogInv', NEW r \in Readers, ReaderInv(r), SameReader(r),
         queues'[r] = queues[r], r \in subscribers' => r \in subscribers,
         connected' = connected, sequence <= sequence',
         connected \/ rows' = rows,
         PageInv(r) => PageInv(r)'
  PROVE  ReaderInv(r)'
<1>1. /\ \A i \in Sent(r) : got[r][i].seq \in Nat
      /\ \A j \in 1..Len(batch[r]) : batch[r][j].seq \in Nat
      /\ \A k \in 1..Len(queues[r]) : queues[r][k] # None => queues[r][k].seq \in Nat
      /\ sequence \in Nat /\ sequence' \in Nat
  BY ReaderTypes, RowSeqFacts DEF LogInv, TypeInv, TypeOK
<1>2. From(r)' = From(r) /\ Sent(r)' = Sent(r)
  BY SameSent DEF SameReader
<1>3. PhaseInv(r)'
  BY DEF ReaderInv, PhaseInv, SameReader
<1>4. \A n \in Nat : Known(n) => Known(n)'
  BY <1>1, KnownKept
<1>5. SentInv(r)'
  <2>1. phase'[r] # "off" \/ MaxRestarts = 0 => \A i \in Sent(r) : Known(got[r][i].seq)'
    BY <1>1, <1>4 DEF ReaderInv, SentInv, SameReader
  <2>. QED
    BY <1>2, <2>1 DEF ReaderInv, SentInv, SameReader, Known, Ascending
<1>6. WaitingInv(r)'
  <2>1. \A j \in 1..Len(batch[r]) : Known(batch[r][j].seq)'
    BY <1>1, <1>4 DEF ReaderInv, WaitingInv, SameReader
  <2>2. \A k \in 1..Len(queues[r]) : queues[r][k] # None => queues[r][k].seq <= sequence'
    BY <1>1 DEF ReaderInv, WaitingInv
  <2>. QED
    BY <2>1, <2>2 DEF ReaderInv, WaitingInv, SameReader, Known, Ascending
<1>7. PageInv(r)'
  BY DEF ReaderInv
<1>. QED
  BY <1>3, <1>5, <1>6, <1>7 DEF ReaderInv

LEMMA PageKeeps ==
  ASSUME NEW r \in Readers, PageInv(r), SameReader(r), rows' = rows
  PROVE  PageInv(r)'
<1>1. Far(r)' = Far(r) /\ Passed(r)' = Passed(r)
  BY DEF Far, Passed, SameReader
<1>. QED
  BY <1>1 DEF PageInv, SameReader, Above

(* A step of one response.                                                 *)
LEMMA OthersKeep ==
  ASSUME LogInv, LogInv', OrderInv, NEW r \in Readers,
         UNCHANGED <<connected, sequence, ring, rows, late>>,
         \A u \in Readers \ {r} : /\ SameReader(u) /\ queues'[u] = queues[u]
                                  /\ u \in subscribers' => u \in subscribers,
         ~late /\ RingInv /\ ReaderInv(r) => ReaderInv(r)'
  PROVE  OrderInv'
<1>1. CASE late
  BY <1>1 DEF OrderInv
<1>2. CASE ~late
  <2>1. sequence <= sequence'
    BY DEF LogInv, TypeInv, TypeOK
  <2>2. \A u \in Readers \ {r} : ReaderInv(u)'
    BY <1>2, <2>1, ReaderKeeps, PageKeeps DEF OrderInv
  <2>3. RingInv'
    BY <1>2 DEF OrderInv, RingInv, Ascending
  <2>. QED
    BY <1>2, <2>2, <2>3 DEF OrderInv
<1>. QED
  BY <1>1, <1>2

LEMMA TurnsKeepReaders ==
  ASSUME LogInv, LogInv', OrderInv,
         UNCHANGED <<connected, subscribers, queues, readVars, historyVars, sequence, ring, rows>>
  PROVE  OrderInv'
<1>1. \A r \in Readers : SameReader(r)
  BY DEF SameReader, readVars, historyVars
<1>2. sequence <= sequence'
  BY DEF LogInv, TypeInv, TypeOK
<1>3. ~late => \A r \in Readers : ReaderInv(r)'
  BY <1>1, <1>2, ReaderKeeps, PageKeeps DEF OrderInv
<1>4. ~late => RingInv'
  BY DEF OrderInv, RingInv, Ascending
<1>. QED
  BY <1>3, <1>4 DEF OrderInv, historyVars

-----------------------------------------------------------------------------
(* A pushed event is above all there are.                                  *)
Pushed(t) == [seq |-> sequence + 1, of |-> <<t, made[t] + 1>>]

LEMMA PushedRow ==
  ASSUME LogInv, LogInv', NEW t \in Turns, Push(t)
  PROVE  /\ Pushed(t) \in Rows /\ Pushed(t).seq = sequence + 1 /\ Pushed(t) # None
         /\ sequence \in Nat
         /\ connected /\ connected' /\ sequence' = sequence + 1
         /\ ring' = RingAppend(Pushed(t)) /\ queues' = Broadcast(Pushed(t))
         /\ unsaved' = [unsaved EXCEPT ![t] = Pushed(t)]
         /\ UNCHANGED <<connected, subscribers, rows, ended, readVars, historyVars, restarts>>
<1>. DEFINE row == Pushed(t)
<1>1. /\ connected /\ connected' /\ sequence' = sequence + 1
      /\ ring' = RingAppend(row) /\ queues' = Broadcast(row) /\ unsaved' = [unsaved EXCEPT ![t] = row]
      /\ UNCHANGED <<connected, subscribers, rows, ended, readVars, historyVars, restarts>>
  BY DEF Push, Pushed
<1>2. unsaved'[t] = row /\ unsaved'[t] \in Rows \cup {None} /\ made'[t] = made[t] + 1
  BY DEF Push, Pushed, LogInv, TypeInv, TypeOK
<1>3. made'[t] \in 0..Count /\ made[t] \in 0..Count /\ Count \in Nat
  BY SizesAssumption DEF LogInv, TypeInv, TypeOK
<1>4. made[t] + 1 \in 1..Count
  BY <1>2, <1>3
<1>5. row \in Rows /\ row.seq = sequence + 1
  BY <1>4 DEF Pushed, Rows, LogInv, TypeInv, TypeOK
<1>. QED
  BY <1>1, <1>5, RowFacts DEF LogInv, TypeInv, TypeOK

LEMMA PushOrders ==
  ASSUME LogInv, LogInv', OrderInv, NEW t \in Turns, Push(t)
  PROVE  OrderInv'
<1>. DEFINE row == Pushed(t)
<1>1. /\ connected /\ connected' /\ sequence' = sequence + 1
      /\ ring' = RingAppend(row) /\ queues' = Broadcast(row) /\ unsaved' = [unsaved EXCEPT ![t] = row]
      /\ UNCHANGED <<connected, subscribers, rows, ended, readVars, historyVars, restarts>>
  BY PushedRow
<1>2. row \in Rows /\ row.seq = sequence + 1 /\ sequence \in Nat /\ row # None
  BY PushedRow
<1>. HIDE DEF row
<1>3. ASSUME ~late PROVE RingInv'
  <2>1. /\ ring \in Seq(Rows) /\ Ascending(ring, 1)
        /\ \A i \in 1..Len(ring) : ring[i].seq <= sequence /\ ring[i].seq \in Nat
    BY <1>3, RowSeqFacts DEF OrderInv, RingInv, LogInv, TypeInv, TypeOK
  <2>. DEFINE longer == Append(ring, row)
  <2>2. /\ longer \in Seq(Rows) /\ longer # <<>> /\ Len(longer) = Len(ring) + 1
        /\ \A i \in 1..Len(ring) : longer[i] = ring[i]
        /\ longer[Len(ring) + 1] = row /\ Len(ring) \in Nat
    BY <1>2, <2>1
  <2>3. Ascending(longer, 1)
    <3>1. \A i \in 1..Len(ring) : ring[i].seq < row.seq
      BY <1>2, <2>1
    <3>. QED
      BY <1>2, <2>1, <3>1, AscendingAppend
  <2>4. \A i \in 1..Len(longer) : longer[i].seq <= sequence + 1
    <3>. SUFFICES ASSUME NEW i \in 1..Len(longer) PROVE longer[i].seq <= sequence + 1
      OBVIOUS
    <3>1. i \in 1..Len(ring) \/ i = Len(ring) + 1
      BY <2>2
    <3>. QED
      BY <1>2, <2>1, <2>2, <3>1
  <2>. HIDE DEF longer
  <2>5. /\ Ascending(Tail(longer), 1)
        /\ \A i \in 1..Len(Tail(longer)) : Tail(longer)[i].seq <= sequence + 1
    BY <2>2, <2>3, <2>4, AscendingTail, TailFacts
  <2>6. ring' = longer \/ ring' = Tail(longer)
    BY <1>1 DEF RingAppend, longer
  <2>7. Ascending(ring', 1) /\ \A i \in 1..Len(ring') : ring'[i].seq <= sequence'
    BY <1>1, <2>3, <2>4, <2>5, <2>6
  <2>. QED
    BY <1>1, <2>7 DEF RingInv, Ascending
<1>4. ASSUME ~late, NEW r \in Readers PROVE ReaderInv(r)'
  <2>1. ReaderInv(r) /\ SameReader(r) /\ sequence <= sequence'
    BY <1>1, <1>2, <1>4 DEF OrderInv, SameReader, readVars, historyVars
  <2>2. PageInv(r)'
    BY <1>1, <2>1, PageKeeps DEF ReaderInv
  <2>3. CASE queues'[r] = queues[r]
    BY <1>1, <2>1, <2>2, <2>3, ReaderKeeps
  <2>4. CASE queues'[r] # queues[r]
    <3>. DEFINE q == queues[r]
    <3>1. queues'[r] = Append(q, row) /\ r \in subscribers
      BY <1>1, <2>4 DEF Broadcast
    <3>2. phase[r] = "live"
      BY <2>1, <3>1 DEF ReaderInv, PhaseInv
    <3>3. /\ \A i \in Sent(r) : got[r][i].seq \in Nat /\ got[r][i].seq <= sequence
          /\ \A j \in 1..Len(batch[r]) : batch[r][j].seq \in Nat /\ batch[r][j].seq <= sequence
          /\ \A k \in 1..Len(q) : q[k] # None => q[k].seq \in Nat /\ q[k].seq <= sequence
          /\ q \in Seq(Rows \cup {None})
      BY <1>1, <2>1, <3>2, ReaderTypes, RowSeqFacts DEF ReaderInv, SentInv, WaitingInv, Known
    <3>. HIDE DEF q
    <3>4. /\ Len(Append(q, row)) = Len(q) + 1 /\ Append(q, row)[Len(q) + 1] = row
          /\ \A k \in 1..Len(q) : Append(q, row)[k] = q[k]
          /\ Len(q) \in Nat
      BY <1>2, <3>3
    <3>5. \A k \in 1..Len(Append(q, row)) : k \in 1..Len(q) \/ k = Len(q) + 1
      BY <3>4
    <3>6. From(r)' = From(r) /\ Sent(r)' = Sent(r)
      BY <2>1, SameSent DEF SameReader
    <3>7. PhaseInv(r)'
      BY <1>1, <2>1, <3>2 DEF ReaderInv, PhaseInv, SameReader
    <3>8. \A n \in Nat : n <= sequence => Known(n)'
      BY <1>1, <1>2 DEF Known
    <3>9. SentInv(r)'
      <4>1. \A i \in Sent(r) : Known(got[r][i].seq)'
        BY <2>1, <3>3, <3>8 DEF SameReader
      <4>2. \A i \in Sent(r) : \A k \in 1..Len(Append(q, row)) :
              Append(q, row)[k] # None => got[r][i].seq < Append(q, row)[k].seq
        <5>. SUFFICES ASSUME NEW i \in Sent(r), NEW k \in 1..Len(Append(q, row)),
                             Append(q, row)[k] # None
                      PROVE  got[r][i].seq < Append(q, row)[k].seq
          OBVIOUS
        <5>1. CASE k \in 1..Len(q)
          BY <2>1, <3>4, <5>1 DEF ReaderInv, SentInv, q
        <5>2. CASE k = Len(q) + 1
          BY <1>2, <3>3, <3>4, <5>2
        <5>. QED
          BY <3>5, <5>1, <5>2
      <4>. QED
        BY <2>1, <3>1, <3>2, <3>6, <4>1, <4>2
        DEF ReaderInv, SentInv, SameReader, Known, Ascending
    <3>10. WaitingInv(r)'
      <4>1. \A j \in 1..Len(batch[r]) : Known(batch[r][j].seq)'
        BY <2>1, <3>3, <3>8 DEF SameReader
      <4>2. \A j, k \in 1..Len(Append(q, row)) :
              j < k /\ Append(q, row)[j] # None /\ Append(q, row)[k] # None =>
                Append(q, row)[j].seq < Append(q, row)[k].seq
        <5>. SUFFICES ASSUME NEW j \in 1..Len(Append(q, row)), NEW k \in 1..Len(Append(q, row)),
                             j < k, Append(q, row)[j] # None, Append(q, row)[k] # None
                      PROVE  Append(q, row)[j].seq < Append(q, row)[k].seq
          OBVIOUS
        <5>0. j \in 1..Len(q)
          BY <3>4
        <5>1. CASE k \in 1..Len(q)
          BY <2>1, <3>4, <5>0, <5>1 DEF ReaderInv, WaitingInv, q
        <5>2. CASE k = Len(q) + 1
          BY <1>2, <3>3, <3>4, <5>0, <5>2
        <5>. QED
          BY <3>5, <5>1, <5>2
      <4>3. \A k \in 1..Len(Append(q, row)) :
              Append(q, row)[k] # None => Append(q, row)[k].seq <= sequence'
        BY <1>1, <1>2, <3>3, <3>4, <3>5
      <4>4. \A j \in 1..Len(batch[r]) : \A k \in 1..Len(Append(q, row)) :
              Append(q, row)[k] # None => batch[r][j].seq < Append(q, row)[k].seq
        <5>. SUFFICES ASSUME NEW j \in 1..Len(batch[r]), NEW k \in 1..Len(Append(q, row)),
                             Append(q, row)[k] # None
                      PROVE  batch[r][j].seq < Append(q, row)[k].seq
          OBVIOUS
        <5>1. CASE k \in 1..Len(q)
          BY <2>1, <3>4, <5>1 DEF ReaderInv, WaitingInv, q
        <5>2. CASE k = Len(q) + 1
          BY <1>2, <3>3, <3>4, <5>2
        <5>. QED
          BY <3>5, <5>1, <5>2
      <4>. QED
        BY <2>1, <3>1, <4>1, <4>2, <4>3, <4>4
        DEF ReaderInv, WaitingInv, SameReader, Known, Ascending
    <3>. QED
      BY <2>2, <3>7, <3>9, <3>10 DEF ReaderInv
  <2>. QED
    BY <2>3, <2>4
<1>. QED
  BY <1>1, <1>3, <1>4 DEF OrderInv, historyVars

(* The rows a response has passed are finitely many; Far is a number.      *)
LEMMA FarFacts ==
  ASSUME LogInv, NEW r \in Readers
  PROVE  /\ Far(r) \in Nat
         /\ IsFiniteSet(Passed(r)) /\ Cardinality(Passed(r)) \in Nat
         /\ IsFiniteSet(Seqs(rows)) /\ Seqs(rows) \subseteq Nat
<1>1. batch[r] # <<>> => Len(batch[r]) \in 1..Len(batch[r])
  BY ReaderTypes
<1>2. Far(r) \in Nat
  BY <1>1, ReaderTypes, RowSeqFacts DEF Far
<1>3. IsFiniteSet(Seqs(rows)) /\ Seqs(rows) \subseteq Nat
  BY FiniteSeqs, RowFacts DEF LogInv, TypeInv, TypeOK, Seqs
<1>4. Passed(r) \in SUBSET Seqs(rows)
  BY DEF Passed
<1>. QED
  BY <1>2, <1>3, <1>4, FS_Subset, FS_CardinalityType

(* A row appended above all others leaves those a response has passed.     *)
LEMMA PersistOrders ==
  ASSUME LogInv, LogInv', OrderInv, NEW t \in Turns, Persist(t)
  PROVE  OrderInv'
<1>. DEFINE row == unsaved[t]
<1>1. /\ row # None
      /\ rows' = rows \/ rows' = AppendEvents(row)
      /\ late' = (late \/ \E x \in rows : x.seq > row.seq)
      /\ UNCHANGED <<bufferVars, subscribers, queues, made, readVars, got, start, restarts>>
  BY DEF Persist
<1>2. /\ connected /\ row \in Rows /\ row.seq \in Nat
      /\ \A x \in rows : x \in Rows /\ x.seq \in Nat /\ x.seq # row.seq
  BY <1>1, RowFacts DEF LogInv, FreshInv, UnsavedDistinct, TypeInv, TypeOK
<1>. HIDE DEF row
<1>3. SUFFICES ASSUME ~late', ~late, \A x \in rows : x.seq < row.seq
               PROVE  RingInv' /\ \A r \in Readers : ReaderInv(r)'
  <2>1. ~late' => ~late /\ \A x \in rows : ~(x.seq > row.seq)
    BY <1>1, Zenon
  <2>2. ~late' => ~late /\ \A x \in rows : x.seq < row.seq
    BY <1>2, <2>1
  <2>. QED
    BY <1>1, <2>2 DEF OrderInv, bufferVars
<1>4. RingInv'
  BY <1>1, <1>3 DEF OrderInv, RingInv, bufferVars, Ascending
<1>5. rows' \subseteq rows \cup {row}
  BY <1>1, AppendFacts
<1>6. rows' # rows => row \in rows'
  <2>1. SUFFICES ASSUME rows' = AppendEvents(row) PROVE row \in rows'
    BY <1>1
  <2>2. rows' = Prune(rows \cup {row})
    BY <1>2, <2>1 DEF AppendEvents, Seqs
  <2>3. {x \in rows \cup {row} : x.seq > row.seq} = {}
    BY <1>2, <1>3
  <2>4. Cardinality({x \in rows \cup {row} : x.seq > row.seq}) < MaxEvents
    BY <2>3, FS_EmptySet, SizesAssumption
  <2>. QED
    BY <2>2, <2>4 DEF Prune
<1>7. ASSUME NEW r \in Readers PROVE ReaderInv(r)'
  <2>1. ReaderInv(r) /\ SameReader(r) /\ sequence <= sequence'
    BY <1>1, <1>3 DEF OrderInv, SameReader, readVars, bufferVars, LogInv, TypeInv, TypeOK
  <2>2. PageInv(r) => PageInv(r)'
    <3>1. CASE rows' = rows
      BY <2>1, <3>1, PageKeeps
    <3>2. CASE rows' # rows
      <4>1. Far(r)' = Far(r) /\ after'[r] = after[r] /\ Far(r) \in Nat /\ after[r] \in Nat
        BY <2>1, FarFacts, ReaderTypes DEF Far, SameReader
      <4>2. Above(Far(r)) => Far(r) < row.seq
        BY <1>2, <1>3, <4>1 DEF Above
      <4>3. Above(Far(r)) => Above(Far(r))'
        BY <1>2, <1>6, <3>2, <4>1, <4>2 DEF Above
      <4>4. Far(r) = after[r] \/ Above(Far(r)) => Passed(r)' \in SUBSET Passed(r)
        BY <1>2, <1>5, <4>1, <4>2 DEF Passed, Seqs
      <4>5. Far(r) = after[r] \/ Above(Far(r)) =>
                /\ Cardinality(Passed(r)') <= Cardinality(Passed(r))
                /\ Cardinality(Passed(r)') \in Nat
        BY <4>4, FarFacts, FS_Subset, FS_CardinalityType
      <4>6. Cardinality(Passed(r)) \in Nat /\ offset[r] \in Nat
        BY FarFacts, ReaderTypes
      <4>. QED
        BY <2>1, <4>1, <4>3, <4>5, <4>6 DEF PageInv, SameReader
    <3>. QED
      BY <3>1, <3>2
  <2>. QED
    BY <1>1, <1>2, <2>1, <2>2, ReaderKeeps DEF bufferVars
<1>. QED
  BY <1>4, <1>7

(* A pause ends every subscription behind what waits in its queue.         *)
LEMMA CloseOrders ==
  ASSUME LogInv, LogInv', OrderInv, Close
  PROVE  OrderInv'
<1>1. /\ UNCHANGED <<bufferVars, rows, turnVars, readVars, historyVars, restarts>>
      /\ queues' = Broadcast(None) /\ subscribers' = {}
  BY DEF Close
<1>2. ~late => RingInv'
  BY <1>1 DEF OrderInv, RingInv, bufferVars, Ascending
<1>3. ASSUME ~late, NEW r \in Readers PROVE ReaderInv(r)'
  <2>1. ReaderInv(r) /\ SameReader(r) /\ sequence <= sequence' /\ rows' = rows
    BY <1>1, <1>3 DEF OrderInv, SameReader, readVars, bufferVars, historyVars, LogInv, TypeInv, TypeOK
  <2>2. PageInv(r)'
    BY <2>1, PageKeeps DEF ReaderInv
  <2>3. CASE queues'[r] = queues[r]
    BY <1>1, <2>1, <2>2, <2>3, ReaderKeeps DEF bufferVars
  <2>4. CASE queues'[r] # queues[r]
    <3>. DEFINE q == queues[r]
    <3>1. queues'[r] = Append(q, None) /\ r \in subscribers
      BY <1>1, <2>4 DEF Broadcast
    <3>2. phase[r] = "live"
      BY <2>1, <3>1 DEF ReaderInv, PhaseInv
    <3>3. q \in Seq(Rows \cup {None})
      BY ReaderTypes
    <3>. HIDE DEF q
    <3>4. \A k \in 1..Len(Append(q, None)) : Append(q, None)[k] # None =>
              k \in 1..Len(q) /\ Append(q, None)[k] = q[k]
      BY <3>3
    <3>5. From(r)' = From(r) /\ Sent(r)' = Sent(r) /\ \A n : Known(n)' <=> Known(n)
      BY <1>1, <2>1, SameSent DEF SameReader, Known, Above, bufferVars
    <3>6. PhaseInv(r)'
      BY <1>1, <2>1, <3>2 DEF ReaderInv, PhaseInv, SameReader, bufferVars
    <3>7. SentInv(r)'
      <4>1. \A i \in Sent(r) : \A k \in 1..Len(Append(q, None)) :
              Append(q, None)[k] # None => got[r][i].seq < Append(q, None)[k].seq
        BY <2>1, <3>4 DEF ReaderInv, SentInv, q
      <4>2. \A i \in Sent(r) : Known(got[r][i].seq)'
        BY <1>1, <2>1, <3>2, <3>5 DEF ReaderInv, SentInv, SameReader, Known, Above, bufferVars
      <4>. QED
        BY <2>1, <3>1, <3>2, <3>5, <4>1, <4>2
        DEF ReaderInv, SentInv, SameReader, Ascending
    <3>8. WaitingInv(r)'
      <4>1. /\ \A j, k \in 1..Len(Append(q, None)) :
                  j < k /\ Append(q, None)[j] # None /\ Append(q, None)[k] # None =>
                    Append(q, None)[j].seq < Append(q, None)[k].seq
            /\ \A k \in 1..Len(Append(q, None)) :
                  Append(q, None)[k] # None => Append(q, None)[k].seq <= sequence
            /\ \A j \in 1..Len(batch[r]) : \A k \in 1..Len(Append(q, None)) :
                  Append(q, None)[k] # None => batch[r][j].seq < Append(q, None)[k].seq
        BY <2>1, <3>4 DEF ReaderInv, WaitingInv, q
      <4>2. \A j \in 1..Len(batch[r]) : Known(batch[r][j].seq)'
        BY <1>1, <2>1 DEF ReaderInv, WaitingInv, SameReader, Known, Above, bufferVars
      <4>. QED
        BY <1>1, <2>1, <3>1, <4>1, <4>2
        DEF ReaderInv, WaitingInv, SameReader, Ascending, bufferVars
    <3>. QED
      BY <2>2, <3>6, <3>7, <3>8 DEF ReaderInv
  <2>. QED
    BY <2>3, <2>4
<1>. QED
  BY <1>1, <1>2, <1>3 DEF OrderInv, historyVars, bufferVars

(* A restart leaves a client with what it has.                             *)
LEMMA RestartOrders ==
  ASSUME LogInv, OrderInv, Restart
  PROVE  OrderInv'
<1>1. MaxRestarts # 0
  BY SizesAssumption DEF Restart, LogInv, TypeInv, TypeOK
<1>2. RingInv'
  BY DEF Restart, RingInv, Ascending
<1>3. ASSUME ~late, NEW r \in Readers PROVE ReaderInv(r)'
  <2>1. /\ phase'[r] = "off" /\ batch'[r] = <<>> /\ queues'[r] = <<>> /\ subscribers' = {}
        /\ start'[r] = start[r] /\ got'[r] = got[r]
    BY DEF Restart, historyVars
  <2>2. From(r)' = From(r) /\ Sent(r)' = Sent(r)
    BY <2>1, SameSent
  <2>3. SentInv(r)'
    BY <1>1, <1>3, <2>1, <2>2 DEF OrderInv, ReaderInv, SentInv, Replaying, Ascending
  <2>4. PhaseInv(r)' /\ WaitingInv(r)' /\ PageInv(r)'
    BY <2>1 DEF PhaseInv, WaitingInv, PageInv, Replaying, Ascending
  <2>. QED
    BY <2>3, <2>4 DEF ReaderInv
<1>. QED
  BY <1>1, <1>2, <1>3 DEF OrderInv, Restart, historyVars

(* The new buffer goes on after every row of the table.                    *)
LEMMA ConnectOrders ==
  ASSUME LogInv, LogInv', OrderInv, Connect
  PROVE  OrderInv'
<1>1. /\ ~connected /\ connected' /\ \A row \in rows : row.seq <= sequence'
      /\ UNCHANGED <<ring, subscribers, queues, rows, turnVars, readVars, historyVars, restarts>>
  BY DEF Connect
<1>2. \A row \in rows : row.seq \in Nat
  BY RowFacts DEF LogInv, TypeInv, TypeOK
<1>3. \A n \in Nat : Known(n) => n <= sequence'
  BY <1>1, <1>2 DEF Known, Above, LogInv, TypeInv, TypeOK
<1>4. ~late => RingInv'
  BY <1>1 DEF OrderInv, RingInv, Ascending
<1>5. ASSUME ~late, NEW r \in Readers PROVE ReaderInv(r)'
  <2>1. ReaderInv(r) /\ SameReader(r) /\ queues'[r] = queues[r] /\ subscribers' = subscribers
    BY <1>1, <1>5 DEF OrderInv, SameReader, readVars, historyVars
  <2>2. PageInv(r)'
    BY <1>1, <2>1, PageKeeps DEF ReaderInv
  <2>3. phase[r] # "live" /\ queues[r] = <<>>
    BY <1>1, <2>1 DEF ReaderInv, PhaseInv
  <2>4. /\ \A i \in Sent(r) : got[r][i].seq \in Nat
        /\ \A j \in 1..Len(batch[r]) : batch[r][j].seq \in Nat
    BY ReaderTypes, RowSeqFacts
  <2>5. From(r)' = From(r) /\ Sent(r)' = Sent(r)
    BY <2>1, SameSent DEF SameReader
  <2>6. PhaseInv(r)'
    BY <1>1, <2>1 DEF ReaderInv, PhaseInv, SameReader
  <2>7. SentInv(r)'
    <3>1. phase[r] # "off" \/ MaxRestarts = 0 => \A i \in Sent(r) : Known(got[r][i].seq)'
      BY <1>1, <1>3, <2>1, <2>4 DEF ReaderInv, SentInv, SameReader, Known
    <3>. QED
      BY <2>1, <2>5, <3>1 DEF ReaderInv, SentInv, SameReader, Ascending
  <2>8. WaitingInv(r)'
    <3>1. \A j \in 1..Len(batch[r]) : Known(batch[r][j].seq)'
      BY <1>1, <1>3, <2>1, <2>4 DEF ReaderInv, WaitingInv, SameReader, Known
    <3>. QED
      BY <2>1, <2>3, <3>1 DEF ReaderInv, WaitingInv, SameReader, Ascending
  <2>. QED
    BY <2>2, <2>6, <2>7, <2>8 DEF ReaderInv
<1>. QED
  BY <1>1, <1>4, <1>5 DEF OrderInv, historyVars

-----------------------------------------------------------------------------
(* The steps of a response.                                                *)

(* It begins at or after all it has sent, with nothing passed.             *)
LEMMA BeginOrders ==
  ASSUME LogInv, OrderInv, NEW r \in Readers, Request(r) \/ BufferAppears(r),
         ReaderInv(r)
  PROVE  ReaderInv(r)'
<1>. DEFINE id == IF phase[r] = "off" THEN LastEventId(r) ELSE last[r]
<1>1. /\ phase[r] \in {"off", "poll"} /\ BeginReplay(r, id)
      /\ UNCHANGED <<connected, sequence, queues, subscribers, rows, got>>
      /\ start'[r] = IF phase[r] = "off" THEN Len(got[r]) ELSE start[r]
  BY DEF Request, BufferAppears, historyVars, bufferVars, LogInv, TypeInv, TypeOK
<1>2. /\ phase'[r] = (IF connected THEN "replay" ELSE "stored")
      /\ after'[r] = id /\ last'[r] = id /\ offset'[r] = 0 /\ batch'[r] = <<>>
  BY <1>1 DEF BeginReplay, LogInv, TypeInv, TypeOK
<1>3. /\ got[r] \in Seq(Rows) /\ Len(got[r]) \in Nat /\ id \in Nat /\ start[r] \in Nat
      /\ \A i \in 1..Len(got[r]) : got[r][i].seq \in Nat
  BY ReaderTypes, RowSeqFacts, LastEventIdType
<1>4. /\ SentInv(r) /\ r \notin subscribers /\ queues[r] = <<>>
  BY <1>1 DEF ReaderInv, PhaseInv
<1>5. Sent(r)' \subseteq Sent(r)
  BY <1>1, <1>3, <1>4 DEF Sent, From, SentInv
<1>6. \A i \in Sent(r)' : got[r][i].seq <= id /\ Known(got[r][i].seq)
  <2>1. CASE phase[r] = "poll"
    BY <1>4, <1>5, <2>1 DEF SentInv
  <2>2. CASE phase[r] = "off"
    <3>1. CASE MaxRestarts # 0
      BY <1>1, <1>3, <2>2, <3>1 DEF Sent, From
    <3>2. CASE MaxRestarts = 0
      <4>1. Sent(r) = 1..Len(got[r]) /\ Sent(r)' = 1..Len(got[r])
        BY <1>1, <1>3, <3>2 DEF Sent, From
      <4>2. Ascending(got[r], 1) /\ \A i \in Sent(r) : Known(got[r][i].seq)
        BY <1>4, <3>2 DEF SentInv, From
      <4>3. got[r] # <<>> => id = got[r][Len(got[r])].seq
        BY <2>2 DEF LastEventId, Last
      <4>4. ASSUME NEW i \in 1..Len(got[r]) PROVE got[r][i].seq <= id
        <5>1. i = Len(got[r]) \/ i < Len(got[r])
          BY <1>3
        <5>2. Len(got[r]) \in 1..Len(got[r]) /\ got[r] # <<>>
          BY <1>3
        <5>. QED
          BY <1>3, <4>2, <4>3, <5>1, <5>2 DEF Ascending
      <4>. QED
        BY <4>1, <4>2, <4>4
    <3>. QED
      BY <3>1, <3>2
  <2>. QED
    BY <1>1, <2>1, <2>2
<1>7. PhaseInv(r)' /\ WaitingInv(r)'
  BY <1>1, <1>2, <1>4 DEF PhaseInv, WaitingInv, Ascending
<1>8. SentInv(r)'
  <2>1. start'[r] <= Len(got'[r])
    BY <1>1, <1>3, <1>4 DEF SentInv
  <2>2. Ascending(got[r], From(r)' + 1)
    <3>1. From(r)' \in Nat /\ (From(r) + 1)..Len(got[r]) = Sent(r)
          /\ (From(r)' + 1)..Len(got[r]) = Sent(r)'
      BY <1>1, <1>3 DEF From, Sent
    <3>2. \A i, j \in Sent(r) : i < j => got[r][i].seq < got[r][j].seq
      BY <1>4, <3>1 DEF SentInv, Ascending
    <3>. QED
      BY <1>5, <3>1, <3>2 DEF Ascending
  <2>3. \A i \in Sent(r)' : Known(got[r][i].seq)'
    BY <1>1, <1>6 DEF Known, Above
  <2>. QED
    BY <1>1, <1>2, <1>4, <1>6, <2>1, <2>2, <2>3 DEF SentInv
<1>9. PageInv(r)'
  <2>1. Far(r)' = id
    BY <1>2 DEF Far
  <2>2. Passed(r)' = {}
    <3>1. \A n \in Seqs(rows) : n \in Nat
      BY FarFacts
    <3>2. Passed(r)' = {n \in Seqs(rows) : id < n /\ n <= id}
      BY <1>1, <1>2, <2>1 DEF Passed, Seqs
    <3>. QED
      BY <1>3, <3>1, <3>2
  <2>3. Cardinality(Passed(r)') = 0
    BY <2>2, FS_EmptySet
  <2>. QED
    BY <1>2, <2>1, <2>3 DEF PageInv
<1>. QED
  BY <1>7, <1>8, <1>9 DEF ReaderInv

(* It ends with nothing left to send.                                      *)
LEMMA EndOrders ==
  ASSUME LogInv, OrderInv, NEW r \in Readers, EndResponse(r), ReaderInv(r)
  PROVE  ReaderInv(r)'
<1>1. /\ phase'[r] = "off" /\ r \notin subscribers' /\ queues'[r] = <<>> /\ batch'[r] = <<>>
      /\ UNCHANGED <<connected, sequence, rows, start, got>>
  BY DEF EndResponse, bufferVars, historyVars, LogInv, TypeInv, TypeOK
<1>2. From(r)' = From(r) /\ Sent(r)' = Sent(r)
  BY <1>1, SameSent
<1>3. SentInv(r)'
  <2>1. MaxRestarts = 0 => \A i \in Sent(r) : Known(got[r][i].seq)'
    BY <1>1 DEF ReaderInv, SentInv, Known, Above
  <2>. QED
    BY <1>1, <1>2, <2>1 DEF ReaderInv, SentInv, Replaying, Ascending
<1>4. PhaseInv(r)' /\ WaitingInv(r)' /\ PageInv(r)'
  BY <1>1 DEF PhaseInv, WaitingInv, PageInv, Replaying, Ascending
<1>. QED
  BY <1>3, <1>4 DEF ReaderInv

LEMMA RowKnown ==
  ASSUME LogInv, NEW row \in rows
  PROVE  Known(row.seq) /\ Above(row.seq)
<1>1. row.seq \in Nat
  BY RowFacts DEF LogInv, TypeInv, TypeOK
<1>. QED
  BY <1>1 DEF Known, Above, LogInv, FreshInv, CounterAhead

(* A page: its first row comes after all the offset skips, and these are   *)
(* at least the rows the response has passed.                              *)
LEMMA PageOrders ==
  ASSUME LogInv, OrderInv, NEW r \in Readers, ReaderInv(r),
         phase[r] \in Replaying, batch[r] = <<>>, more[r], Page(r) # <<>>,
         batch' = [batch EXCEPT ![r] = Page(r)],
         offset' = [offset EXCEPT ![r] = @ + Len(Page(r))],
         UNCHANGED <<connected, sequence, phase, subscribers, queues, rows, got, start,
                     after, last>>
  PROVE  ReaderInv(r)'
<1>0. PICK page : page = Page(r)
  OBVIOUS
<1>1. /\ page \in Seq(Rows) /\ Ascending(page, 1)
      /\ \A i \in 1..Len(page) :
            /\ page[i] \in rows /\ page[i].seq > after[r]
            /\ Cardinality({n \in Unread(r) : n <= page[i].seq}) = offset[r] + i
  BY <1>0, PageFacts DEF LogInv, TypeInv, TypeOK
<1>2. batch'[r] = page /\ offset'[r] = offset[r] + Len(page) /\ page # <<>>
  BY <1>0 DEF LogInv, TypeInv, TypeOK
<1>3. /\ Len(page) \in Nat \ {0} /\ \A i \in 1..Len(page) : page[i].seq \in Nat
      /\ Len(page) \in 1..Len(page)
  <2>1. Len(page) \in Nat \ {0}
    BY <1>1, <1>2
  <2>. QED
    BY <1>1, <2>1, RowSeqFacts
<1>4. /\ last[r] \in Nat /\ after[r] \in Nat /\ offset[r] \in Nat
      /\ \A i \in Sent(r) : got[r][i].seq \in Nat
      /\ \A n \in Seqs(rows) : n \in Nat
      /\ IsFiniteSet(Passed(r)) /\ Cardinality(Passed(r)) \in Nat
  BY ReaderTypes, RowSeqFacts, FarFacts
<1>5. /\ Far(r) = last[r] /\ Cardinality(Passed(r)) <= offset[r]
      /\ phase[r] # "live" /\ queues[r] = <<>> /\ r \notin subscribers
  BY DEF ReaderInv, PageInv, PhaseInv, Far, Replaying
<1>6. ASSUME NEW i \in 1..Len(page) PROVE last[r] < page[i].seq
  <2>1. SUFFICES ASSUME ~(last[r] < page[i].seq) PROVE FALSE
    OBVIOUS
  <2>2. {n \in Unread(r) : n <= page[i].seq} \in SUBSET Passed(r)
    BY <1>3, <1>4, <1>5, <2>1 DEF Unread, Passed
  <2>3. Cardinality({n \in Unread(r) : n <= page[i].seq}) <= Cardinality(Passed(r))
    BY <1>4, <2>2, FS_Subset
  <2>. QED
    BY <1>1, <1>3, <1>4, <1>5, <2>3
<1>7. From(r)' = From(r) /\ Sent(r)' = Sent(r) /\ \A n : Known(n)' <=> Known(n)
  BY SameSent DEF Known, Above
<1>8. \A i \in Sent(r) : got[r][i].seq <= last[r] /\ Known(got[r][i].seq)
  BY DEF ReaderInv, SentInv, Replaying
<1>9. PhaseInv(r)'
  BY <1>5 DEF ReaderInv, PhaseInv, Replaying
<1>10. SentInv(r)'
  <2>1. \A i \in Sent(r) : \A j \in 1..Len(page) : got[r][i].seq < page[j].seq
    BY <1>3, <1>4, <1>6, <1>8
  <2>2. \A i \in Sent(r) : Known(got[r][i].seq)'
    BY <1>8 DEF Known, Above
  <2>. QED
    BY <1>2, <1>5, <1>7, <1>8, <2>1, <2>2 DEF ReaderInv, SentInv, Ascending
<1>11. WaitingInv(r)'
  <2>1. \A j \in 1..Len(page) : Known(page[j].seq)'
    <3>1. \A j \in 1..Len(page) : Known(page[j].seq)
      BY <1>1, RowKnown
    <3>. QED
      BY <1>2, <3>1 DEF Known, Above
  <2>. QED
    BY <1>1, <1>2, <1>5, <2>1 DEF WaitingInv, Known, Ascending
<1>12. PageInv(r)'
  <2>1. Far(r)' = page[Len(page)].seq
    BY <1>2 DEF Far
  <2>2. Above(Far(r))'
    BY <1>1, <1>3, <2>1, RowKnown DEF Above
  <2>3. Passed(r)' = {n \in Unread(r) : n <= page[Len(page)].seq}
    BY <1>4, <2>1 DEF Passed, Unread
  <2>4. Cardinality(Passed(r)') = offset[r] + Len(page)
    BY <1>1, <1>3, <2>3
  <2>. QED
    BY <1>2, <1>3, <1>4, <1>6, <2>2, <2>4 DEF PageInv
<1>. QED
  BY <1>9, <1>10, <1>11, <1>12 DEF ReaderInv

(* After the pages, the ring: what it has beyond the last event sent.      *)
LEMMA EndReplayOrders ==
  ASSUME LogInv, OrderInv, NEW r \in Readers, ReaderInv(r), RingInv,
         phase[r] \in Replaying, batch[r] = <<>>, EndReplay(r),
         UNCHANGED <<connected, sequence, ring, rows, got, start, after, last, offset, more>>
  PROVE  ReaderInv(r)'
<1>1. /\ phase[r] # "live" /\ queues[r] = <<>> /\ r \notin subscribers
      /\ SentInv(r) /\ PageInv(r)
      /\ \A i \in Sent(r) : got[r][i].seq <= last[r] /\ Known(got[r][i].seq)
  BY DEF ReaderInv, PhaseInv, SentInv, Replaying
<1>2. From(r)' = From(r) /\ Sent(r)' = Sent(r)
  BY SameSent
<1>3. \A i \in Sent(r) : Known(got[r][i].seq)'
  BY <1>1 DEF Known, Above
<1>4. CASE phase[r] = "replay"
  <2>1. /\ phase'[r] = "live" /\ queues'[r] = <<>> /\ batch'[r] = RingAfter(last[r])
        /\ connected
    BY <1>4 DEF EndReplay, Subscribe, ReaderInv, PhaseInv, LogInv, TypeInv, TypeOK
  <2>. DEFINE found == RingAfter(last[r])
  <2>2. /\ ring \in Seq(Rows) /\ last[r] \in Nat /\ sequence \in Nat
        /\ \A i, j \in 1..Len(ring) : i < j => ring[i].seq < ring[j].seq
        /\ \A i \in 1..Len(ring) : ring[i].seq <= sequence
        /\ \A i \in Sent(r) : got[r][i].seq \in Nat
    BY ReaderTypes, RowSeqFacts DEF RingInv, Ascending
  <2>3. /\ found \in Seq(Rows) /\ Ascending(found, 1)
        /\ \A k \in 1..Len(found) : found[k].seq > last[r] /\ found[k].seq <= sequence
    BY <2>2, RingAfterFacts
  <2>. HIDE DEF found
  <2>4. \A k \in 1..Len(found) : found[k].seq \in Nat
    BY <2>3, RowSeqFacts
  <2>5. batch'[r] = found
    BY <2>1 DEF found
  <2>6. PhaseInv(r)' /\ PageInv(r)'
    BY <2>1 DEF PhaseInv, PageInv, Replaying
  <2>7. SentInv(r)'
    <3>1. \A i \in Sent(r) : \A j \in 1..Len(found) : got[r][i].seq < found[j].seq
      BY <1>1, <2>2, <2>3, <2>4
    <3>. QED
      BY <1>1, <1>2, <1>3, <2>1, <2>5, <3>1 DEF SentInv, Replaying, Ascending
  <2>8. WaitingInv(r)'
    BY <2>1, <2>3, <2>5 DEF WaitingInv, Known, Ascending
  <2>. QED
    BY <2>6, <2>7, <2>8 DEF ReaderInv
<1>5. CASE phase[r] # "replay"
  <2>1. /\ phase'[r] \in {"off", "poll"} /\ queues'[r] = <<>> /\ batch'[r] = <<>>
        /\ r \notin subscribers'
    BY <1>1, <1>5 DEF EndReplay, LogInv, TypeInv, TypeOK
  <2>2. PhaseInv(r)' /\ PageInv(r)' /\ WaitingInv(r)'
    BY <2>1 DEF PhaseInv, PageInv, WaitingInv, Replaying, Ascending
  <2>3. SentInv(r)'
    BY <1>1, <1>2, <1>3, <2>1 DEF SentInv, Ascending
  <2>. QED
    BY <2>2, <2>3 DEF ReaderInv
<1>. QED
  BY <1>4, <1>5

(* The first event of the batch is sent; the limit drops the others.       *)
LEMMA SendBatchOrders ==
  ASSUME LogInv, OrderInv, NEW r \in Readers, ReaderInv(r),
         SendStored(r) \/ SendRing(r)
  PROVE  ReaderInv(r)'
<1>0. PICK row, rest, sent : /\ row = Head(batch[r]) /\ rest = Tail(batch[r])
                             /\ sent = Append(got[r], row)
  OBVIOUS
<1>1. /\ batch[r] # <<>> /\ got'[r] = sent
      /\ UNCHANGED <<connected, sequence, queues, subscribers, rows, phase, start, after, offset>>
  BY <1>0 DEF SendStored, SendRing, Deliver, bufferVars, LogInv, TypeInv, TypeOK
<1>2. batch'[r] = rest \/ (batch'[r] = <<>> /\ ~more'[r])
  <2>1. batch \in [Readers -> Seq(Rows)] /\ more \in [Readers -> BOOLEAN]
    BY DEF LogInv, TypeInv, TypeOK
  <2>2. CASE SendRing(r)
    <3>1. batch' = [batch EXCEPT ![r] = rest]
      BY <1>0, <2>2 DEF SendRing
    <3>. QED
      BY <2>1, <3>1
  <2>3. CASE SendStored(r)
    <3>1. batch' = [batch EXCEPT ![r] = IF left[r] = 1 THEN <<>> ELSE rest]
      BY <1>0, <2>3 DEF SendStored
    <3>2. left[r] = 1 => more' = [more EXCEPT ![r] = FALSE]
      BY <2>1, <2>3 DEF SendStored
    <3>. QED
      BY <2>1, <3>1, <3>2
  <2>. QED
    BY <2>2, <2>3
<1>3. more'[r] => more[r]
  BY DEF SendStored, SendRing, LogInv, TypeInv, TypeOK
<1>4. /\ batch[r] \in Seq(Rows) /\ got[r] \in Seq(Rows) /\ Len(got[r]) \in Nat
      /\ \A i \in 1..Len(got[r]) : got[r][i].seq \in Nat
      /\ \A j \in 1..Len(batch[r]) : batch[r][j].seq \in Nat
      /\ last[r] \in Nat /\ start[r] \in Nat /\ From(r) \in Nat
      /\ Sent(r) \subseteq 1..Len(got[r])
  BY ReaderTypes, RowSeqFacts
<1>5. /\ row = batch[r][1] /\ row \in Rows /\ row.seq \in Nat /\ rest \in Seq(Rows)
      /\ Len(rest) = Len(batch[r]) - 1 /\ Len(batch[r]) \in Nat \ {0}
      /\ \A i \in 1..Len(rest) : rest[i] = batch[r][i + 1] /\ i + 1 \in 1..Len(batch[r])
      /\ rest # <<>> => rest[Len(rest)] = batch[r][Len(batch[r])]
      /\ rest = <<>> => Len(batch[r]) = 1
  BY <1>0, <1>1, <1>4, TailFacts, RowFacts
<1>6. /\ SentInv(r) /\ WaitingInv(r) /\ PageInv(r) /\ PhaseInv(r)
      /\ phase[r] \notin {"off", "poll"}
      /\ Ascending(batch[r], 1) /\ Known(row.seq)
      /\ \A i \in Sent(r) : got[r][i].seq < row.seq /\ Known(got[r][i].seq)
      /\ \A i \in 1..Len(rest) : row.seq < rest[i].seq /\ Known(rest[i].seq)
      /\ \A k \in 1..Len(queues[r]) : queues[r][k] # None => row.seq < queues[r][k].seq
      /\ Ascending(rest, 1)
  <2>1. SentInv(r) /\ WaitingInv(r) /\ PageInv(r) /\ PhaseInv(r)
        /\ phase[r] \notin {"off", "poll"}
    BY DEF ReaderInv, SendStored, SendRing, Replaying
  <2>2. 1 \in 1..Len(batch[r])
    BY <1>5
  <2>3. Ascending(rest, 1) /\ \A i \in 1..Len(rest) : row.seq < rest[i].seq
    BY <1>0, <1>1, <1>4, <2>1, AscendingTail DEF WaitingInv
  <2>4. Known(row.seq) /\ \A i \in 1..Len(rest) : Known(rest[i].seq)
    BY <1>5, <2>1, <2>2 DEF WaitingInv
  <2>. QED
    BY <1>5, <2>1, <2>2, <2>3, <2>4 DEF SentInv, WaitingInv
<1>7. /\ Len(sent) = Len(got[r]) + 1 /\ sent[Len(got[r]) + 1] = row
      /\ \A i \in 1..Len(got[r]) : sent[i] = got[r][i]
  BY <1>0, <1>4, <1>5
<1>8. /\ From(r)' = From(r)
      /\ \A i \in Sent(r)' : (i \in Sent(r) /\ sent[i] = got[r][i]) \/ sent[i] = row
  <2>1. From(r)' = From(r)
    BY <1>1 DEF From
  <2>2. Sent(r)' = (From(r) + 1)..(Len(got[r]) + 1)
    BY <1>1, <1>7, <2>1 DEF Sent
  <2>3. ASSUME NEW i \in Sent(r)', i # Len(got[r]) + 1
        PROVE  i \in Sent(r) /\ i \in 1..Len(got[r])
    <3>1. i \in (From(r) + 1)..(Len(got[r]) + 1)
      BY <2>2
    <3>2. From(r) \in Nat /\ Len(got[r]) \in Nat
      BY <1>4
    <3>3. i \in (From(r) + 1)..Len(got[r]) /\ i \in 1..Len(got[r])
      BY <2>3, <3>1, <3>2
    <3>. QED
      BY <3>3 DEF Sent
  <2>. QED
    BY <1>7, <2>1, <2>3
<1>9. Ascending(sent, From(r) + 1)
  <2>1. From(r) + 1 \in Nat \ {0} /\ \A i \in (From(r) + 1)..Len(got[r]) : got[r][i].seq < row.seq
    BY <1>4, <1>6 DEF Sent
  <2>. QED
    BY <1>0, <1>4, <1>5, <1>6, <2>1, AscendingAppend DEF SentInv
<1>10. \A i \in Sent(r)' : /\ sent[i].seq \in Nat /\ Known(sent[i].seq) /\ sent[i].seq <= row.seq
                           /\ \A k \in 1..Len(queues[r]) :
                                    queues[r][k] # None => sent[i].seq < queues[r][k].seq
  <2>1. \A i \in Sent(r) : got[r][i].seq \in Nat
    BY <1>4
  <2>. QED
    BY <1>5, <1>6, <1>8, <2>1, SMTT(30) DEF SentInv
<1>11. phase[r] \in Replaying => last[r] < row.seq /\ last'[r] = row.seq
  <2>. SUFFICES ASSUME phase[r] \in Replaying
                PROVE  last[r] < row.seq /\ last'[r] = row.seq
    OBVIOUS
  <2>1. last[r] < row.seq
    BY <1>5, <1>6 DEF PageInv
  <2>2. SendStored(r)
    BY DEF SendRing, Replaying
  <2>. QED
    BY <1>0, <1>5, <2>1, <2>2 DEF SendStored, LogInv, TypeInv, TypeOK
<1>12. PhaseInv(r)'
  BY <1>1, <1>6 DEF PhaseInv
<1>13. \A n : Known(n) => (IF connected' THEN n <= sequence' ELSE \E x \in rows' : n <= x.seq)
  BY <1>1 DEF Known, Above
<1>14. SentInv(r)'
  <2>1. start'[r] <= Len(got'[r])
    BY <1>1, <1>4, <1>6, <1>7 DEF SentInv
  <2>2. \A i \in Sent(r)' : \A j \in 1..Len(rest) : sent[i].seq < rest[j].seq
    <3>1. \A j \in 1..Len(rest) : rest[j].seq \in Nat
      BY <1>5, RowSeqFacts
    <3>. QED
      BY <1>5, <1>6, <1>10, <3>1
  <2>3. \A i \in Sent(r)' : \A j \in 1..Len(batch'[r]) : sent[i].seq < batch'[r][j].seq
    BY <1>2, <2>2
  <2>4. \A i \in Sent(r)' : Known(sent[i].seq)'
    BY <1>1, <1>10, <1>13 DEF Known, Above
  <2>5. phase'[r] \in Replaying \cup {"poll"} => \A i \in Sent(r)' : sent[i].seq <= last'[r]
    BY <1>1, <1>6, <1>10, <1>11
  <2>. QED
    BY <1>1, <1>8, <1>9, <1>10, <2>1, <2>3, <2>4, <2>5 DEF SentInv, Ascending
<1>15. WaitingInv(r)'
  <2>1. CASE batch'[r] = rest
    <3>1. \A j \in 1..Len(rest) : Known(rest[j].seq)'
      BY <1>1, <1>6, <1>13 DEF Known, Above
    <3>2. \A j \in 1..Len(rest) : \A k \in 1..Len(queues[r]) :
              queues[r][k] # None => rest[j].seq < queues[r][k].seq
      BY <1>5, <1>6 DEF WaitingInv
    <3>. QED
      BY <1>1, <1>6, <2>1, <3>1, <3>2 DEF WaitingInv, Ascending
  <2>2. CASE batch'[r] = <<>>
    BY <1>1, <1>6, <2>2 DEF WaitingInv, Ascending
  <2>. QED
    BY <1>2, <2>1, <2>2
<1>16. PageInv(r)'
  <2>. SUFFICES ASSUME phase[r] \in Replaying
                PROVE  /\ \A j \in 1..Len(batch'[r]) : last'[r] < batch'[r][j].seq
                       /\ more'[r] => /\ Far(r)' = after[r] \/ Above(Far(r))'
                                      /\ Cardinality(Passed(r)') <= offset[r]
    BY <1>1 DEF PageInv
  <2>1. \A j \in 1..Len(batch'[r]) : last'[r] < batch'[r][j].seq
    BY <1>2, <1>6, <1>11
  <2>2. ASSUME more'[r]
        PROVE  /\ Far(r)' = after[r] \/ Above(Far(r))'
               /\ Cardinality(Passed(r)') <= offset[r]
    <3>1. batch'[r] = rest
      BY <1>2, <2>2
    <3>2. Far(r)' = Far(r)
      <4>1. CASE rest = <<>>
        BY <1>1, <1>5, <1>11, <3>1, <4>1 DEF Far
      <4>2. CASE rest # <<>>
        BY <1>1, <1>5, <3>1, <4>2 DEF Far
      <4>. QED
        BY <4>1, <4>2
    <3>3. Passed(r)' = Passed(r)
      BY <1>1, <3>2 DEF Passed
    <3>. QED
      BY <1>1, <1>3, <1>6, <2>2, <3>2, <3>3 DEF PageInv, Above
  <2>. QED
    BY <2>1, <2>2
<1>. QED
  BY <1>12, <1>14, <1>15, <1>16 DEF ReaderInv

(* The first event of the queue is sent.                                   *)
LEMMA SendQueueOrders ==
  ASSUME LogInv, OrderInv, NEW r \in Readers, ReaderInv(r),
         phase[r] = "live", batch[r] = <<>>, queues[r] # <<>>, Head(queues[r]) # None,
         Deliver(r, Head(queues[r])), queues' = [queues EXCEPT ![r] = Tail(@)],
         UNCHANGED <<connected, sequence, subscribers, rows, phase, batch, start>>
  PROVE  ReaderInv(r)'
<1>0. PICK row, rest, sent : /\ row = Head(queues[r]) /\ rest = Tail(queues[r])
                             /\ sent = Append(got[r], row)
  OBVIOUS
<1>1. /\ got'[r] = sent /\ queues'[r] = rest /\ phase'[r] = "live" /\ batch'[r] = <<>>
      /\ \A j \in 1..Len(<<>>) : FALSE
  BY <1>0 DEF Deliver, LogInv, TypeInv, TypeOK
<1>2. /\ got[r] \in Seq(Rows) /\ Len(got[r]) \in Nat
      /\ \A i \in 1..Len(got[r]) : got[r][i].seq \in Nat
      /\ queues[r] \in Seq(Rows \cup {None}) /\ sequence \in Nat
      /\ \A k \in 1..Len(queues[r]) : queues[r][k] # None => queues[r][k].seq \in Nat
      /\ start[r] \in Nat /\ From(r) \in Nat
      /\ Sent(r) \subseteq 1..Len(got[r])
  BY ReaderTypes, RowSeqFacts
<1>3. /\ row = queues[r][1] /\ row \in Rows /\ row # None /\ row.seq \in Nat
      /\ Len(rest) = Len(queues[r]) - 1 /\ Len(queues[r]) \in Nat \ {0}
      /\ \A i \in 1..Len(rest) : rest[i] = queues[r][i + 1] /\ i + 1 \in 1..Len(queues[r])
  BY <1>0, <1>2, TailFacts, RowFacts
<1>4. /\ SentInv(r) /\ WaitingInv(r) /\ PhaseInv(r) /\ connected
      /\ \A i \in Sent(r) : got[r][i].seq < row.seq /\ got[r][i].seq <= sequence
      /\ row.seq <= sequence
      /\ \A i \in 1..Len(rest) : rest[i] # None => row.seq < rest[i].seq /\ rest[i].seq \in Nat
  <2>1. SentInv(r) /\ WaitingInv(r) /\ PhaseInv(r) /\ connected /\ 1 \in 1..Len(queues[r])
    BY <1>3 DEF ReaderInv, PhaseInv
  <2>2. \A i \in Sent(r) : got[r][i].seq < row.seq /\ got[r][i].seq <= sequence
    BY <1>3, <2>1 DEF SentInv, Known
  <2>3. \A i \in 1..Len(rest) : rest[i] # None => row.seq < rest[i].seq /\ rest[i].seq \in Nat
    <3>. SUFFICES ASSUME NEW i \in 1..Len(rest), rest[i] # None
                  PROVE  row.seq < rest[i].seq /\ rest[i].seq \in Nat
      OBVIOUS
    <3>1. 1 < i + 1
      BY <1>3
    <3>. QED
      BY <1>2, <1>3, <2>1, <3>1 DEF WaitingInv
  <2>. QED
    BY <1>3, <2>1, <2>2, <2>3 DEF WaitingInv
<1>5. /\ Len(sent) = Len(got[r]) + 1 /\ sent[Len(got[r]) + 1] = row
      /\ \A i \in 1..Len(got[r]) : sent[i] = got[r][i]
  BY <1>0, <1>2, <1>3
<1>6. /\ From(r)' = From(r)
      /\ \A i \in Sent(r)' : (i \in Sent(r) /\ sent[i] = got[r][i]) \/ sent[i] = row
  <2>1. From(r)' = From(r)
    BY DEF From
  <2>2. Sent(r)' = (From(r) + 1)..(Len(got[r]) + 1)
    BY <1>1, <1>5, <2>1 DEF Sent
  <2>3. ASSUME NEW i \in Sent(r)', i # Len(got[r]) + 1
        PROVE  i \in Sent(r) /\ i \in 1..Len(got[r])
    <3>1. i \in (From(r) + 1)..(Len(got[r]) + 1)
      BY <2>2
    <3>2. From(r) \in Nat /\ Len(got[r]) \in Nat
      BY <1>2
    <3>3. i \in (From(r) + 1)..Len(got[r]) /\ i \in 1..Len(got[r])
      BY <2>3, <3>1, <3>2
    <3>. QED
      BY <3>3 DEF Sent
  <2>. QED
    BY <1>5, <2>1, <2>3
<1>7. Ascending(sent, From(r) + 1)
  <2>1. From(r) + 1 \in Nat \ {0} /\ \A i \in (From(r) + 1)..Len(got[r]) : got[r][i].seq < row.seq
    BY <1>2, <1>4 DEF Sent
  <2>. QED
    BY <1>0, <1>2, <1>3, <1>4, <2>1, AscendingAppend DEF SentInv
<1>8. \A i \in Sent(r)' : sent[i].seq \in Nat /\ sent[i].seq <= sequence /\ sent[i].seq <= row.seq
  <2>1. \A i \in Sent(r) : got[r][i].seq \in Nat
    BY <1>2
  <2>. QED
    BY <1>3, <1>4, <1>6, <2>1
<1>9. SentInv(r)'
  <2>1. start'[r] <= Len(got'[r])
    BY <1>1, <1>2, <1>4, <1>5 DEF SentInv
  <2>2. \A i \in Sent(r)' : \A k \in 1..Len(rest) : rest[k] # None => sent[i].seq < rest[k].seq
    BY <1>3, <1>4, <1>8
  <2>3. \A i \in Sent(r)' : Known(sent[i].seq)'
    BY <1>1, <1>4, <1>8 DEF Known
  <2>. QED
    BY <1>1, <1>6, <1>7, <2>1, <2>2, <2>3 DEF SentInv, Replaying, Ascending
<1>10. WaitingInv(r)'
  <2>1. /\ \A j, k \in 1..Len(rest) : j < k /\ rest[j] # None /\ rest[k] # None =>
                rest[j].seq < rest[k].seq
        /\ \A k \in 1..Len(rest) : rest[k] # None => rest[k].seq <= sequence
    <3>1. \A j, k \in 1..Len(rest) : j < k => j + 1 < k + 1
      BY <1>3
    <3>. QED
      BY <1>3, <1>4, <3>1 DEF WaitingInv
  <2>. QED
    BY <1>1, <2>1 DEF WaitingInv, Ascending
<1>11. PhaseInv(r)' /\ PageInv(r)'
  BY <1>1, <1>4 DEF PhaseInv, PageInv, Replaying
<1>. QED
  BY <1>9, <1>10, <1>11 DEF ReaderInv

-----------------------------------------------------------------------------
LEMMA ResponseStep ==
  ASSUME LogInv, NEW r \in Readers,
         Request(r) \/ Respond(r) \/ BecomesTerminal(r) \/ Leave(r)
  PROVE  /\ UNCHANGED <<connected, sequence, ring, rows, late>>
         /\ \A u \in Readers \ {r} : /\ SameReader(u) /\ queues'[u] = queues[u]
                                     /\ u \in subscribers' => u \in subscribers
<1>. USE DEF LogInv, TypeInv, TypeOK, SameReader
<1>1. ASSUME BeginReplay(r, 0) \/ BeginReplay(r, LastEventId(r)) \/ BeginReplay(r, last[r]),
             NEW u \in Readers \ {r}
      PROVE  /\ phase'[u] = phase[u] /\ after'[u] = after[u] /\ last'[u] = last[u]
             /\ offset'[u] = offset[u] /\ batch'[u] = batch[u] /\ more'[u] = more[u]
  BY <1>1 DEF BeginReplay
<1>2. CASE Request(r)
  BY <1>1, <1>2 DEF Request, bufferVars
<1>3. CASE BufferAppears(r)
  BY <1>1, <1>3 DEF BufferAppears, bufferVars, historyVars
<1>4. CASE EndResponse(r)
  BY <1>4 DEF EndResponse, bufferVars, historyVars
<1>5. CASE SendStored(r)
  BY <1>5 DEF SendStored, Deliver, bufferVars
<1>6. CASE SendRing(r)
  BY <1>6 DEF SendRing, Deliver, bufferVars
<1>7. CASE SendLive(r)
  BY <1>4, <1>7 DEF SendLive, Deliver, bufferVars, readVars
<1>8. CASE Fetch(r)
  BY <1>8 DEF Fetch, EndReplay, Subscribe, bufferVars, historyVars
<1>. QED
  BY <1>2, <1>3, <1>4, <1>5, <1>6, <1>7, <1>8 DEF Respond, BecomesTerminal, Leave

LEMMA ResponseOrders ==
  ASSUME LogInv, LogInv', OrderInv, NEW r \in Readers,
         Request(r) \/ Respond(r) \/ BecomesTerminal(r) \/ Leave(r)
  PROVE  OrderInv'
<1>. SUFFICES ASSUME ~late, RingInv, ReaderInv(r) PROVE ReaderInv(r)'
  BY ResponseStep, OthersKeep
<1>1. CASE Request(r) \/ BufferAppears(r)
  BY <1>1, BeginOrders
<1>2. CASE EndResponse(r)
  BY <1>2, EndOrders
<1>3. CASE SendStored(r) \/ SendRing(r)
  BY <1>3, SendBatchOrders
<1>4. CASE Fetch(r)
  <2>1. /\ phase[r] \in Replaying /\ batch[r] = <<>>
        /\ UNCHANGED <<connected, sequence, ring, rows, got, start, after, last>>
    BY <1>4 DEF Fetch, bufferVars, historyVars
  <2>2. CASE /\ more[r]
             /\ Page(r) # <<>>
             /\ batch' = [batch EXCEPT ![r] = Page(r)]
             /\ offset' = [offset EXCEPT ![r] = @ + Len(Page(r))]
             /\ UNCHANGED <<phase, subscribers, queues>>
    BY <2>1, <2>2, PageOrders
  <2>3. CASE EndReplay(r) /\ UNCHANGED <<offset, more>>
    BY <2>1, <2>3, EndReplayOrders
  <2>. QED
    BY <1>4, <2>2, <2>3 DEF Fetch
<1>5. CASE SendLive(r)
  BY <1>2, <1>5, SendQueueOrders DEF SendLive, bufferVars, readVars
<1>. QED
  BY <1>1, <1>2, <1>3, <1>4, <1>5 DEF Respond, BecomesTerminal, Leave

LEMMA NextKeepsOrder == LogInv /\ LogInv' /\ OrderInv /\ [Next]_vars => OrderInv'
<1>. SUFFICES ASSUME LogInv, LogInv', OrderInv, [Next]_vars PROVE OrderInv'
  OBVIOUS
<1>1. ASSUME NEW t \in Turns, Push(t) PROVE OrderInv'
  BY <1>1, PushOrders
<1>2. ASSUME NEW t \in Turns, Persist(t) PROVE OrderInv'
  BY <1>2, PersistOrders
<1>3. ASSUME NEW t \in Turns, Abort(t) PROVE OrderInv'
  BY <1>3, TurnsKeepReaders DEF Abort, bufferVars
<1>4. ASSUME NEW r \in Readers,
             Request(r) \/ Respond(r) \/ BecomesTerminal(r) \/ Leave(r)
      PROVE  OrderInv'
  BY <1>4, ResponseOrders
<1>5. CASE Close
  BY <1>5, CloseOrders
<1>6. CASE Restart
  BY <1>6, RestartOrders
<1>7. CASE Connect
  BY <1>7, ConnectOrders
<1>8. CASE UNCHANGED vars
  BY <1>8, TurnsKeepReaders DEF vars, bufferVars
<1>. QED
  BY <1>1, <1>2, <1>3, <1>4, <1>5, <1>6, <1>7, <1>8 DEF Next

LEMMA InitOrder == Init => OrderInv
<1>1. Init => RingInv
  BY DEF Init, RingInv, Ascending
<1>2. ASSUME Init, NEW r \in Readers PROVE ReaderInv(r)
  <2>1. /\ phase[r] = "off" /\ batch[r] = <<>> /\ queues[r] = <<>> /\ got[r] = <<>>
        /\ start[r] = 0 /\ subscribers = {}
    BY <1>2 DEF Init
  <2>2. From(r) = 0 /\ Sent(r) = {}
    BY <2>1 DEF Sent, From
  <2>. QED
    BY <2>1, <2>2
    DEF ReaderInv, PhaseInv, SentInv, WaitingInv, PageInv, Replaying, Ascending
<1>. QED
  BY <1>1, <1>2 DEF Init, OrderInv

LEMMA OrderHolds == Spec => []OrderInv
  BY LogHolds, InitOrder, NextKeepsOrder, PTL DEF Spec

(* replay_then_live, for any number of turns, readers and restarts and any *)
(* sizes of page, ring, queue and table: as long as rows reach the table   *)
(* in the order of their numbers, one response sends its events in order   *)
(* and none twice, wherever pushes, appends, pruning and dropped events    *)
(* fall between its pages, the ring and its queue.                         *)
THEOREM ResponsesInOrder == Spec => []InOrder
<1>1. LogInv /\ OrderInv => InOrder
  <2>. SUFFICES ASSUME LogInv, OrderInv, ~late, NEW r \in Readers
                PROVE  Ascending(got[r], start[r] + 1)
    BY DEF InOrder
  <2>1. Ascending(got[r], From(r) + 1) /\ start[r] \in Nat
    BY ReaderTypes DEF OrderInv, ReaderInv, SentInv
  <2>. QED
    BY <2>1 DEF From, Ascending
<1>. QED
  BY <1>1, LogHolds, OrderHolds, PTL

(* Without a restart the same holds of all the responses of a client,      *)
(* which sends the last number it has as Last-Event-ID.                    *)
THEOREM ClientsNeverBackwards ==
  ASSUME MaxRestarts = 0
  PROVE  Spec => []NeverBackwards
<1>1. OrderInv => NeverBackwards
  BY DEF OrderInv, ReaderInv, SentInv, From, NeverBackwards
<1>. QED
  BY <1>1, OrderHolds, PTL

-----------------------------------------------------------------------------
(* No gaps.  While the buffer has given no more numbers than its ring, a   *)
(* queue and the table hold, the ring has every event there was and        *)
(* nothing is dropped or pruned; the limit of the replay and the size of a *)
(* page are free.                                                          *)
Fits == sequence <= RingSize /\ sequence <= QueueSize /\ sequence <= MaxEvents

(* The events that are in the table or may still get there.                *)
Written == rows \cup {unsaved[t] : t \in {u \in Turns : unsaved[u] # None}}

Has(s, x) == \E i \in 1..Len(s) : s[i] = x

(* Appending it now would be late.                                         *)
Overtaken(x) == x \notin rows /\ \E y \in rows : x.seq < y.seq

(* It is above all that the client has and that waits for it.              *)
Beyond(r, x) ==
    /\ \A i \in 1..Len(got[r]) : got[r][i].seq < x.seq
    /\ \A j \in 1..Len(batch[r]) : batch[r][j].seq < x.seq
    /\ \A k \in 1..Len(queues[r]) : queues[r][k] # None => queues[r][k].seq < x.seq
    /\ phase[r] \in Replaying \cup {"poll"} => last[r] < x.seq

(* A subscriber has everything, or it waits for it; another response may   *)
(* have what comes next to come.                                           *)
Accounted(r, x) ==
    \/ Overtaken(x)
    \/ Has(got[r], x) \/ Has(batch[r], x) \/ Has(queues[r], x)
    \/ r \notin subscribers /\ Beyond(r, x)

(* The offset skips no more than the rows that were passed.                *)
PlaceInv(r) ==
    /\ phase[r] \in Replaying \cup {"poll"} => last[r] <= sequence
    /\ phase[r] \in Replaying =>
        /\ after[r] <= last[r]
        /\ more[r] => offset[r] <= Cardinality(Passed(r))
    /\ r \in subscribers => \A k \in 1..Len(queues[r]) : queues[r][k] # None

Whole(r) == PlaceInv(r) /\ \A x \in Written : Accounted(r, x)

RingWhole ==
    /\ Len(ring) = sequence
    /\ \A i \in 1..Len(ring) : ring[i].seq = i
    /\ \A x \in Written : x.seq \in 1..sequence /\ ring[x.seq] = x

GapInv == Fits /\ ~late => RingWhole /\ \A r \in Readers : Whole(r)

(* What the order says where the server is never restarted.                *)
LEMMA Ordered ==
  ASSUME LogInv, OrderInv, ~late, MaxRestarts = 0, NEW r \in Readers
  PROVE  /\ connected
         /\ Ascending(got[r], 1) /\ Ascending(batch[r], 1)
         /\ \A i \in 1..Len(got[r]) : /\ got[r][i] \in Rows /\ got[r][i].seq \in Nat
                                      /\ got[r][i].seq <= sequence
         /\ \A j \in 1..Len(batch[r]) : /\ batch[r][j] \in Rows /\ batch[r][j].seq \in Nat
                                        /\ batch[r][j].seq <= sequence
         /\ \A k \in 1..Len(queues[r]) : queues[r][k] # None =>
                /\ queues[r][k] \in Rows /\ queues[r][k].seq \in Nat
                /\ queues[r][k].seq <= sequence
         /\ \A j, k \in 1..Len(queues[r]) :
                j < k /\ queues[r][j] # None /\ queues[r][k] # None =>
                    queues[r][j].seq < queues[r][k].seq
         /\ \A i \in 1..Len(got[r]) : \A j \in 1..Len(batch[r]) :
                got[r][i].seq < batch[r][j].seq
         /\ \A i \in 1..Len(got[r]) : \A k \in 1..Len(queues[r]) :
                queues[r][k] # None => got[r][i].seq < queues[r][k].seq
         /\ \A j \in 1..Len(batch[r]) : \A k \in 1..Len(queues[r]) :
                queues[r][k] # None => batch[r][j].seq < queues[r][k].seq
         /\ phase[r] # "live" => r \notin subscribers /\ queues[r] = <<>>
         /\ phase[r] \in {"off", "poll"} => batch[r] = <<>>
<1>1. From(r) = 0 /\ got[r] \in Seq(Rows) /\ batch[r] \in Seq(Rows)
  BY ReaderTypes DEF From
<1>2. Sent(r) = 1..Len(got[r]) /\ Len(got[r]) \in Nat
  BY <1>1 DEF Sent
<1>3. ReaderInv(r) /\ connected
  BY DEF OrderInv
<1>4. Ascending(got[r], 1)
  BY <1>1, <1>3 DEF ReaderInv, SentInv
<1>5. /\ \A i \in 1..Len(got[r]) : got[r][i].seq <= sequence
      /\ \A i \in 1..Len(got[r]) : \A j \in 1..Len(batch[r]) :
                got[r][i].seq < batch[r][j].seq
      /\ \A i \in 1..Len(got[r]) : \A k \in 1..Len(queues[r]) :
                queues[r][k] # None => got[r][i].seq < queues[r][k].seq
  BY <1>2, <1>3 DEF ReaderInv, SentInv, Known
<1>6. /\ \A i \in 1..Len(got[r]) : got[r][i] \in Rows /\ got[r][i].seq \in Nat
      /\ \A j \in 1..Len(batch[r]) : batch[r][j] \in Rows /\ batch[r][j].seq \in Nat
  BY <1>1, RowSeqFacts
<1>7. \A k \in 1..Len(queues[r]) : queues[r][k] # None =>
         queues[r][k] \in Rows /\ queues[r][k].seq \in Nat
  BY ReaderTypes
<1>8. WaitingInv(r) /\ PhaseInv(r)
  BY <1>3 DEF ReaderInv
<1>. QED
  BY <1>3, <1>4, <1>5, <1>6, <1>7, <1>8 DEF WaitingInv, PhaseInv, Known

(* Events on record have numbers of their own.                             *)
LEMMA WrittenFacts ==
  ASSUME LogInv, connected
  PROVE  /\ \A x \in Written : x \in Rows /\ x.seq \in Nat /\ x # None /\ x.seq <= sequence
         /\ \A x, y \in Written : x.seq = y.seq => x = y
         /\ rows \subseteq Written
<1>1. /\ rows \subseteq Rows /\ unsaved \in [Turns -> Rows \cup {None}]
      /\ \A x, y \in rows : x.seq = y.seq => x = y
      /\ \A x \in rows : x.seq <= sequence
  BY DEF LogInv, TypeInv, TypeOK, FreshInv, CounterAhead
<1>2. \A t \in Turns : unsaved[t] # None =>
        /\ unsaved[t].seq <= sequence
        /\ \A row \in rows : row.seq # unsaved[t].seq
        /\ \A u \in Turns \ {t} : unsaved[u] # None => unsaved[u].seq # unsaved[t].seq
  BY DEF LogInv, FreshInv, UnsavedDistinct
<1>3. \A x \in Written : x \in rows \/ \E t \in Turns : unsaved[t] # None /\ x = unsaved[t]
  BY DEF Written
<1>4. \A x \in Written : x \in Rows /\ x.seq \in Nat /\ x # None /\ x.seq <= sequence
  BY <1>1, <1>2, <1>3, RowFacts
<1>5. ASSUME NEW x \in Written, NEW y \in Written, x.seq = y.seq
      PROVE  x = y
  BY <1>1, <1>2, <1>3, <1>5
<1>. QED
  BY <1>4, <1>5 DEF Written

(* No more different numbers fit below a bound than the bound says.        *)
LEMMA AtMost ==
  ASSUME NEW S, NEW n \in Nat, NEW f \in [S -> 1..n],
         \A x, y \in S : f[x] = f[y] => x = y
  PROVE  IsFiniteSet(S) /\ Cardinality(S) \in Nat /\ Cardinality(S) <= n
<1>1. f \in Injection(S, 1..n)
  BY DEF Injection, IsInjective
<1>2. IsFiniteSet(1..n) /\ Cardinality(1..n) = n
  BY FS_Interval
<1>. QED
  BY <1>1, <1>2, FS_Injection, FS_CardinalityType

(* Steps that leave a response alone, while the table only grows and what  *)
(* is overtaken stays so.                                                  *)
LEMMA StaysWhole ==
  ASSUME LogInv, LogInv', NEW r \in Readers, Whole(r), SameReader(r),
         queues'[r] = queues[r], r \in subscribers' => r \in subscribers,
         sequence' = sequence, rows \subseteq rows', Written' \subseteq Written,
         \A x \in Written' : Overtaken(x) => Overtaken(x)'
  PROVE  Whole(r)'
<1>1. Far(r)' = Far(r) /\ Passed(r) \in SUBSET Passed(r)'
  BY DEF Far, Passed, SameReader, Seqs
<1>2. /\ Cardinality(Passed(r)) <= Cardinality(Passed(r)')
      /\ Cardinality(Passed(r)) \in Nat /\ Cardinality(Passed(r)') \in Nat
      /\ offset[r] \in Nat
  <2>1. IsFiniteSet(Passed(r)') /\ Cardinality(Passed(r)') \in Nat
    <3>1. IsFiniteSet(Seqs(rows'))
      BY FiniteSeqs DEF LogInv, TypeInv
    <3>2. Passed(r)' \in SUBSET Seqs(rows')
      BY DEF Passed, Seqs
    <3>. QED BY <3>1, <3>2, FS_Subset, FS_CardinalityType
  <2>. QED
    BY <1>1, <2>1, FarFacts, FS_Subset, ReaderTypes
<1>3. PlaceInv(r)'
  BY <1>2 DEF Whole, PlaceInv, SameReader
<1>4. ASSUME NEW x \in Written' PROVE Accounted(r, x)'
  <2>1. Accounted(r, x)
    BY <1>4 DEF Whole
  <2>2. Beyond(r, x) => Beyond(r, x)'
    BY DEF Beyond, SameReader
  <2>3. /\ Has(got[r], x) => Has(got[r], x)'
        /\ Has(batch[r], x) => Has(batch[r], x)'
        /\ Has(queues[r], x) => Has(queues[r], x)'
    BY DEF Has, SameReader
  <2>. QED
    BY <1>4, <2>1, <2>2, <2>3 DEF Accounted
<1>. QED
  BY <1>3, <1>4 DEF Whole

LEMMA RingStaysWhole ==
  ASSUME RingWhole, ring' = ring, sequence' = sequence, Written' \subseteq Written
  PROVE  RingWhole'
  BY DEF RingWhole

-----------------------------------------------------------------------------
(* Appending one item to a sequence.                                       *)
LEMMA OneLonger ==
  ASSUME NEW S, NEW s \in Seq(S), NEW item \in S
  PROVE  /\ Len(Append(s, item)) = Len(s) + 1 /\ Len(s) \in Nat
         /\ Append(s, item)[Len(s) + 1] = item
         /\ \A k \in 1..Len(s) : Append(s, item)[k] = s[k]
  OBVIOUS

LEMMA LongerHas ==
  ASSUME NEW s, NEW longer, NEW item, Len(s) \in Nat, Len(longer) = Len(s) + 1,
         longer[Len(s) + 1] = item, \A k \in 1..Len(s) : longer[k] = s[k]
  PROVE  /\ Has(longer, item)
         /\ \A x : Has(s, x) => Has(longer, x)
         /\ \A k \in 1..Len(longer) : longer[k] = item \/ (k \in 1..Len(s) /\ longer[k] = s[k])
<1>1. \A k \in 1..Len(longer) : k \in 1..Len(s) \/ k = Len(s) + 1
  OBVIOUS
<1>2. Has(longer, item)
  <2>1. Len(s) + 1 \in 1..Len(longer)
    OBVIOUS
  <2>. QED BY <2>1, Zenon DEF Has
<1>3. \A x : Has(s, x) => Has(longer, x)
  <2>1. \A k \in 1..Len(s) : k \in 1..Len(longer)
    OBVIOUS
  <2>. QED BY <2>1, Zenon DEF Has
<1>4. ASSUME NEW k \in 1..Len(longer)
      PROVE  longer[k] = item \/ (k \in 1..Len(s) /\ longer[k] = s[k])
  BY <1>1
<1>. QED BY <1>2, <1>3, <1>4

LEMMA QueueGrows ==
  ASSUME NEW q \in Seq(Rows \cup {None}), NEW item \in Rows \cup {None}
  PROVE  /\ Has(Append(q, item), item)
         /\ \A x : Has(q, x) => Has(Append(q, item), x)
         /\ \A k \in 1..Len(Append(q, item)) :
                \/ Append(q, item)[k] = item
                \/ k \in 1..Len(q) /\ Append(q, item)[k] = q[k]
<1>. PICK longer : longer = Append(q, item)
  OBVIOUS
<1>1. /\ Len(longer) = Len(q) + 1 /\ Len(q) \in Nat
      /\ longer[Len(q) + 1] = item
      /\ \A k \in 1..Len(q) : longer[k] = q[k]
  BY OneLonger
<1>2. /\ Has(longer, item)
      /\ \A x : Has(q, x) => Has(longer, x)
      /\ \A k \in 1..Len(longer) : longer[k] = item \/ (k \in 1..Len(q) /\ longer[k] = q[k])
  BY <1>1, LongerHas
<1>. QED BY <1>2, Zenon

(* A subscriber's queue has numbers of its own, and room for one more.     *)
LEMMA QueueHasRoom ==
  ASSUME LogInv, OrderInv, ~late, MaxRestarts = 0, NEW r \in Readers, PlaceInv(r),
         r \in subscribers, sequence + 1 <= QueueSize
  PROVE  Len(queues[r]) < QueueSize
<1>. DEFINE q == queues[r]
<1>1. /\ Len(q) \in Nat /\ sequence \in Nat /\ QueueSize \in Nat
      /\ \A k \in 1..Len(q) : q[k] # None
  BY ReaderTypes, SizesAssumption DEF PlaceInv
<1>2. /\ \A k \in 1..Len(q) : q[k] \in Rows /\ q[k].seq \in Nat /\ q[k].seq <= sequence
      /\ \A j, k \in 1..Len(q) : j < k => q[j].seq < q[k].seq
  BY <1>1, Ordered
<1>3. \A k \in 1..Len(q) : q[k].seq \in 1..sequence
  BY <1>1, <1>2 DEF Rows
<1>. HIDE DEF q
<1>. DEFINE f == [k \in 1..Len(q) |-> q[k].seq]
<1>4. f \in [1..Len(q) -> 1..sequence]
  BY <1>3
<1>5. ASSUME NEW j \in 1..Len(q), NEW k \in 1..Len(q), f[j] = f[k] PROVE j = k
  <2>1. j < k \/ k < j \/ j = k
    BY <1>1
  <2>2. q[j].seq = q[k].seq /\ q[j].seq \in Nat
    BY <1>2, <1>5
  <2>. QED BY <1>2, <2>1, <2>2
<1>. HIDE DEF f
<1>6. Cardinality(1..Len(q)) <= sequence
  BY <1>1, <1>4, <1>5, AtMost
<1>7. Cardinality(1..Len(q)) = Len(q)
  <2>1. Cardinality(1..Len(q)) = IF 1 > Len(q) THEN 0 ELSE Len(q) - 1 + 1
    BY <1>1, FS_Interval
  <2>. QED BY <1>1, <2>1
<1>8. Len(q) < QueueSize
  BY <1>1, <1>6, <1>7
<1>. QED BY <1>8 DEF q

(* A pushed event goes to every subscriber; other responses have it to     *)
(* come.                                                                   *)
LEMMA PushWhole ==
  ASSUME LogInv, LogInv', OrderInv, ~late, MaxRestarts = 0, Fits', RingWhole,
         \A r \in Readers : Whole(r), NEW t \in Turns, Push(t)
  PROVE  RingWhole' /\ \A r \in Readers : Whole(r)'
<1>0. PICK row : row = Pushed(t)
  OBVIOUS
<1>1. /\ row \in Rows /\ row.seq = sequence + 1 /\ row # None
      /\ sequence \in Nat /\ connected /\ sequence' = sequence + 1
      /\ ring' = RingAppend(row) /\ queues' = Broadcast(row)
      /\ unsaved' = [unsaved EXCEPT ![t] = row]
      /\ UNCHANGED <<subscribers, rows, readVars, historyVars>>
  BY <1>0, PushedRow
<1>2. sequence + 1 <= RingSize /\ sequence + 1 <= QueueSize
  BY <1>1 DEF Fits
<1>3. /\ Written' \subseteq Written \cup {row}
      /\ \A x \in Written : x \in Rows /\ x.seq \in Nat /\ x.seq <= sequence
      /\ \A x : Overtaken(x) => Overtaken(x)'
  <2>1. unsaved \in [Turns -> Rows \cup {None}]
    BY DEF LogInv, TypeInv, TypeOK
  <2>2. \A u \in Turns : unsaved'[u] = IF u = t THEN row ELSE unsaved[u]
    BY <1>1, <2>1
  <2>3. Written' \subseteq Written \cup {row}
    BY <1>1, <2>2 DEF Written
  <2>. QED BY <1>1, <2>3, WrittenFacts DEF Overtaken
<1>4. RingWhole'
  <2>1. ring \in Seq(Rows) /\ Len(ring) = sequence
    BY DEF LogInv, TypeInv, TypeOK, RingWhole
  <2>2. PICK longer : longer = Append(ring, row)
    OBVIOUS
  <2>3. /\ Len(longer) = sequence + 1 /\ longer[sequence + 1] = row
        /\ \A k \in 1..sequence : longer[k] = ring[k]
        /\ ring' = longer
    <3>1. /\ Len(longer) = sequence + 1 /\ longer[sequence + 1] = row
          /\ \A k \in 1..sequence : longer[k] = ring[k]
      BY <1>1, <2>1, <2>2, OneLonger
    <3>2. ~(Len(longer) > RingSize)
      BY <1>1, <1>2, <3>1, SizesAssumption
    <3>. QED BY <1>1, <2>2, <3>1, <3>2 DEF RingAppend
  <2>4. \A i \in 1..sequence + 1 : i \in 1..sequence \/ i = sequence + 1
    BY <1>1
  <2>5. \A i \in 1..Len(ring') : ring'[i].seq = i
    BY <1>1, <2>1, <2>3, <2>4 DEF RingWhole
  <2>6. ASSUME NEW x \in Written' PROVE x.seq \in 1..sequence + 1 /\ ring'[x.seq] = x
    <3>1. CASE x = row
      BY <1>1, <2>3, <3>1
    <3>2. CASE x \in Written
      <4>1. x.seq \in 1..sequence /\ ring[x.seq] = x
        BY <3>2 DEF RingWhole
      <4>. QED BY <1>1, <2>3, <4>1
    <3>. QED BY <1>3, <2>6, <3>1, <3>2
  <2>. QED BY <1>1, <2>3, <2>5, <2>6 DEF RingWhole
<1>5. ASSUME NEW r \in Readers PROVE Whole(r)'
  <2>1. /\ SameReader(r) /\ PlaceInv(r) /\ (r \in subscribers' <=> r \in subscribers)
        /\ last[r] \in Nat /\ after[r] \in Nat
    BY <1>1, ReaderTypes DEF SameReader, readVars, historyVars, Whole
  <2>2. Passed(r)' = Passed(r)
    BY <1>1, <2>1 DEF Passed, Far, SameReader
  <2>3. queues[r] \in Seq(Rows \cup {None}) /\ row \in Rows \cup {None}
    BY <1>1, ReaderTypes
  <2>4. CASE r \in subscribers
    <3>1. Len(queues[r]) < QueueSize
      BY <1>2, <2>1, <2>4, QueueHasRoom
    <3>2. queues'[r] = Append(queues[r], row)
      BY <1>1, <2>4, <3>1 DEF Broadcast
    <3>3. /\ Has(queues'[r], row) /\ \A x : Has(queues[r], x) => Has(queues'[r], x)
          /\ \A k \in 1..Len(queues'[r]) : queues'[r][k] = row \/
                (k \in 1..Len(queues[r]) /\ queues'[r][k] = queues[r][k])
      BY <2>3, <3>2, QueueGrows
    <3>4. PlaceInv(r)'
      <4>1. \A k \in 1..Len(queues'[r]) : queues'[r][k] # None
        BY <1>1, <2>1, <2>4, <3>3 DEF PlaceInv
      <4>. QED BY <1>1, <2>1, <2>2, <4>1 DEF PlaceInv, SameReader
    <3>5. ASSUME NEW x \in Written' PROVE Accounted(r, x)'
      <4>1. CASE x = row
        BY <3>3, <4>1 DEF Accounted, Has
      <4>2. CASE x \in Written
        <5>1. Overtaken(x) \/ Has(got[r], x) \/ Has(batch[r], x) \/ Has(queues[r], x)
          BY <2>4, <4>2 DEF Whole, Accounted
        <5>2. CASE Overtaken(x)
          BY <1>3, <5>2 DEF Accounted
        <5>3. CASE Has(got[r], x) \/ Has(batch[r], x)
          BY <2>1, <5>3 DEF Accounted, Has, SameReader
        <5>4. CASE Has(queues[r], x)
          BY <3>3, <5>4 DEF Accounted, Has
        <5>. QED BY <5>1, <5>2, <5>3, <5>4
      <4>. QED BY <1>3, <3>5, <4>1, <4>2
    <3>. QED BY <3>4, <3>5 DEF Whole
  <2>5. CASE r \notin subscribers
    <3>1. queues'[r] = queues[r]
      BY <1>1, <2>5 DEF Broadcast
    <3>2. PlaceInv(r)'
      BY <1>1, <2>1, <2>2, <2>5 DEF PlaceInv, SameReader
    <3>3. Beyond(r, row)'
      <4>1. \A i \in 1..Len(got[r]) : got[r][i].seq < row.seq
        BY <1>1, Ordered
      <4>2. \A j \in 1..Len(batch[r]) : batch[r][j].seq < row.seq
        BY <1>1, Ordered
      <4>3. \A k \in 1..Len(queues[r]) : queues[r][k] # None => queues[r][k].seq < row.seq
        BY <1>1, Ordered
      <4>4. phase[r] \in Replaying \cup {"poll"} => last[r] < row.seq
        BY <1>1, <2>1 DEF PlaceInv
      <4>. QED BY <2>1, <3>1, <4>1, <4>2, <4>3, <4>4 DEF Beyond, SameReader
    <3>4. ASSUME NEW x \in Written' PROVE Accounted(r, x)'
      <4>1. CASE x = row
        <5>1. Accounted(r, row)'
          BY <2>1, <2>5, <3>3 DEF Accounted, Beyond
        <5>. QED BY <4>1, <5>1
      <4>2. CASE x \in Written
        <5>1. Accounted(r, x)
          BY <4>2 DEF Whole
        <5>2. Beyond(r, x) => Beyond(r, x)'
          BY <2>1, <3>1 DEF Beyond, SameReader
        <5>. QED BY <1>3, <2>1, <3>1, <5>1, <5>2 DEF Accounted, Has, SameReader
      <4>. QED BY <1>3, <3>4, <4>1, <4>2
    <3>. QED BY <3>2, <3>4 DEF Whole
  <2>. QED BY <2>4, <2>5
<1>. QED BY <1>4, <1>5

-----------------------------------------------------------------------------
(* While there is room in the table nothing is pruned, and what is         *)
(* appended in order overtakes nothing that it should not.                 *)
LEMMA PersistWhole ==
  ASSUME LogInv, LogInv', ~late', MaxRestarts = 0, Fits, connected, RingWhole,
         \A r \in Readers : Whole(r), NEW t \in Turns, Persist(t)
  PROVE  RingWhole' /\ \A r \in Readers : Whole(r)'
<1>0. PICK row : row = unsaved[t]
  OBVIOUS
<1>1. /\ row # None
      /\ rows' = rows \/ rows' = AppendEvents(row)
      /\ late' = (late \/ \E x \in rows : x.seq > row.seq)
      /\ unsaved' = [unsaved EXCEPT ![t] = None]
      /\ UNCHANGED <<sequence, ring, subscribers, queues, readVars, got, start>>
  BY <1>0 DEF Persist, bufferVars
<1>2. /\ row \in Written
      /\ \A x \in rows : x.seq \in Nat /\ x.seq # row.seq
      /\ unsaved \in [Turns -> Rows \cup {None}]
  <2>1. row \in Written
    BY <1>0, <1>1 DEF Written
  <2>2. \A x \in rows : x.seq # row.seq
    BY <1>0, <1>1 DEF LogInv, FreshInv, UnsavedDistinct
  <2>. QED BY <2>1, <2>2, WrittenFacts DEF LogInv, TypeInv, TypeOK
<1>3. /\ \A x \in Written : x \in Rows /\ x.seq \in Nat /\ x.seq \in 1..sequence
      /\ \A x, y \in Written : x.seq = y.seq => x = y
      /\ rows \subseteq Written /\ sequence \in Nat
  BY WrittenFacts DEF RingWhole, LogInv, TypeInv, TypeOK
<1>4. rows' = rows \/ rows' = rows \cup {row}
  <2>. DEFINE S == rows \cup {row}
              above(y) == {x \in S : x.seq > y.seq}
  <2>1. ASSUME NEW y \in S PROVE Cardinality(above(y)) < MaxEvents
    <3>. DEFINE f == [x \in above(y) |-> x.seq - y.seq]
    <3>1. \A x \in above(y) : x \in Written /\ x.seq - y.seq \in 1..(sequence - 1)
      BY <1>2, <1>3, <2>1
    <3>2. f \in [above(y) -> 1..(sequence - 1)]
      BY <3>1
    <3>3. ASSUME NEW a \in above(y), NEW b \in above(y), f[a] = f[b] PROVE a = b
      <4>1. a.seq = b.seq
        BY <1>2, <1>3, <2>1, <3>1, <3>3
      <4>. QED BY <1>3, <3>1, <4>1
    <3>4. sequence \in Nat \ {0}
      BY <1>2, <1>3
    <3>. HIDE DEF f, above
    <3>5. Cardinality(above(y)) \in Nat /\ Cardinality(above(y)) <= sequence - 1
      <4>1. sequence - 1 \in Nat
        BY <3>4
      <4>. QED BY <3>2, <3>3, <4>1, AtMost
    <3>. QED BY <3>4, <3>5, SizesAssumption DEF Fits
  <2>2. Prune(S) = S
    BY <2>1 DEF Prune
  <2>3. row.seq \notin Seqs(rows)
    BY <1>2 DEF Seqs
  <2>. QED BY <1>1, <2>2, <2>3 DEF AppendEvents
<1>5. Written' \subseteq Written
  <2>1. \A u \in Turns : unsaved'[u] = IF u = t THEN None ELSE unsaved[u]
    BY <1>1, <1>2
  <2>. QED BY <1>2, <1>4, <2>1 DEF Written
<1>6. ASSUME NEW x \in Written', Overtaken(x) PROVE Overtaken(x)'
  <2>1. x # row
    <3>1. ~\E y \in rows : y.seq > row.seq
      BY <1>1, Zenon
    <3>2. \A y \in rows : ~(row.seq < y.seq)
      BY <1>2, <1>3, <3>1
    <3>. QED BY <1>6, <3>2 DEF Overtaken
  <2>2. x \notin rows'
    BY <1>4, <1>6, <2>1 DEF Overtaken
  <2>. QED BY <1>4, <1>6, <2>2 DEF Overtaken
<1>7. RingWhole'
  BY <1>1, <1>5, RingStaysWhole
<1>8. ASSUME NEW r \in Readers PROVE Whole(r)'
  <2>1. SameReader(r) /\ rows \subseteq rows'
    BY <1>1, <1>4 DEF SameReader, readVars
  <2>. QED BY <1>1, <1>5, <1>6, <2>1, StaysWhole
<1>. QED BY <1>7, <1>8

(* What is lost on its way is not missed.                                  *)
LEMMA AbortWhole ==
  ASSUME LogInv, LogInv', RingWhole, \A r \in Readers : Whole(r), NEW t \in Turns, Abort(t)
  PROVE  RingWhole' /\ \A r \in Readers : Whole(r)'
<1>1. /\ unsaved' = [unsaved EXCEPT ![t] = None]
      /\ UNCHANGED <<sequence, ring, subscribers, queues, rows, readVars, got, start>>
  BY DEF Abort, bufferVars, historyVars
<1>2. \A u \in Turns : unsaved'[u] = IF u = t THEN None ELSE unsaved[u]
  BY <1>1 DEF LogInv, TypeInv, TypeOK
<1>3. Written' \subseteq Written
  BY <1>1, <1>2 DEF Written
<1>4. \A x : Overtaken(x) => Overtaken(x)'
  BY <1>1 DEF Overtaken
<1>5. RingWhole'
  BY <1>1, <1>3, RingStaysWhole
<1>6. ASSUME NEW r \in Readers PROVE Whole(r)'
  <2>1. SameReader(r)
    BY <1>1 DEF SameReader, readVars
  <2>. QED BY <1>1, <1>3, <1>4, <2>1, StaysWhole
<1>. QED BY <1>5, <1>6

(* A pause leaves what waits, in front of the end of the stream.           *)
LEMMA CloseWhole ==
  ASSUME LogInv, RingWhole, \A r \in Readers : Whole(r), Close
  PROVE  RingWhole' /\ \A r \in Readers : Whole(r)'
<1>1. /\ queues' = Broadcast(None) /\ subscribers' = {}
      /\ UNCHANGED <<sequence, ring, rows, unsaved, readVars, got, start>>
  BY DEF Close, bufferVars, turnVars, historyVars
<1>2. Written' = Written
  BY <1>1 DEF Written
<1>3. RingWhole'
  BY <1>1, <1>2, RingStaysWhole
<1>4. ASSUME NEW r \in Readers PROVE Whole(r)'
  <2>0. SameReader(r)
    BY <1>1 DEF SameReader, readVars
  <2>1. /\ \A x : Has(queues[r], x) => Has(queues'[r], x)
        /\ \A k \in 1..Len(queues'[r]) : queues'[r][k] = None \/
                (k \in 1..Len(queues[r]) /\ queues'[r][k] = queues[r][k])
    <3>1. CASE queues'[r] = queues[r]
      BY <3>1
    <3>2. CASE queues'[r] # queues[r]
      <4>1. queues'[r] = Append(queues[r], None)
        BY <1>1, <3>2 DEF Broadcast
      <4>2. queues[r] \in Seq(Rows \cup {None})
        BY ReaderTypes
      <4>. QED BY <4>1, <4>2, QueueGrows
    <3>. QED BY <3>1, <3>2
  <2>2. Passed(r)' = Passed(r)
    BY <1>1, <2>0 DEF Passed, Far, SameReader
  <2>3. PlaceInv(r)'
    BY <1>1, <2>0, <2>2 DEF Whole, PlaceInv, SameReader
  <2>4. ASSUME NEW x \in Written' PROVE Accounted(r, x)'
    <3>1. Accounted(r, x)
      BY <1>2 DEF Whole
    <3>2. Beyond(r, x) => Beyond(r, x)'
      BY <2>0, <2>1 DEF Beyond, SameReader
    <3>3. CASE Overtaken(x) \/ Has(got[r], x) \/ Has(batch[r], x)
      BY <1>1, <2>0, <3>3 DEF Accounted, Overtaken, Has, SameReader
    <3>4. CASE Has(queues[r], x)
      BY <2>1, <3>4 DEF Accounted, Has
    <3>5. CASE Beyond(r, x)
      BY <1>1, <3>2, <3>5 DEF Accounted
    <3>. QED BY <3>1, <3>3, <3>4, <3>5 DEF Accounted
  <2>. QED BY <2>3, <2>4 DEF Whole
<1>. QED BY <1>3, <1>4

-----------------------------------------------------------------------------
(* A response begins where the client is, with everything to come.         *)
LEMMA BeginWhole ==
  ASSUME LogInv, OrderInv, ~late, MaxRestarts = 0, RingWhole, NEW r \in Readers, Whole(r),
         Request(r) \/ BufferAppears(r)
  PROVE  Whole(r)'
<1>. DEFINE id == IF phase[r] = "off" THEN LastEventId(r) ELSE last[r]
<1>1. /\ phase[r] \in {"off", "poll"} /\ BeginReplay(r, id)
      /\ UNCHANGED <<sequence, queues, subscribers, rows, unsaved, got>>
  BY DEF Request, BufferAppears, historyVars, bufferVars, turnVars
<1>2. /\ phase'[r] \in Replaying
      /\ after'[r] = id /\ last'[r] = id /\ offset'[r] = 0 /\ batch'[r] = <<>>
  BY <1>1 DEF BeginReplay, Replaying, LogInv, TypeInv, TypeOK
<1>3. /\ connected /\ r \notin subscribers /\ queues[r] = <<>> /\ batch[r] = <<>>
      /\ \A i \in 1..Len(got[r]) : got[r][i].seq <= sequence
      /\ got[r] \in Seq(Rows) /\ sequence \in Nat /\ id \in Nat
      /\ \A k \in 1..Len(<<>>) : FALSE
  BY <1>1, Ordered, ReaderTypes, LastEventIdType
<1>4. got[r] # <<>> => Len(got[r]) \in 1..Len(got[r]) /\ LastEventId(r) = got[r][Len(got[r])].seq
  BY <1>3 DEF LastEventId, Last
<1>5. id <= sequence
  <2>1. CASE phase[r] = "off"
    BY <1>3, <1>4, <2>1 DEF LastEventId
  <2>2. CASE phase[r] = "poll"
    BY <2>2 DEF Whole, PlaceInv
  <2>. QED BY <1>1, <2>1, <2>2
<1>6. PlaceInv(r)'
  <2>1. IsFiniteSet(Passed(r)')
    <3>1. IsFiniteSet(Seqs(rows'))
      BY <1>1, FarFacts
    <3>2. Passed(r)' \in SUBSET Seqs(rows')
      BY DEF Passed, Seqs
    <3>. QED BY <3>1, <3>2, FS_Subset
  <2>2. Cardinality(Passed(r)') \in Nat
    BY <2>1, FS_CardinalityType
  <2>. QED BY <1>1, <1>2, <1>3, <1>5, <2>2 DEF PlaceInv
<1>7. ASSUME NEW x \in Written' PROVE Accounted(r, x)'
  <2>1. x \in Written /\ x.seq \in 1..sequence
    BY <1>1, <1>7 DEF Written, RingWhole
  <2>2. Overtaken(x) \/ Has(got[r], x) \/ Beyond(r, x)
    BY <1>3, <2>1 DEF Whole, Accounted, Has
  <2>3. CASE Overtaken(x) \/ Has(got[r], x)
    BY <1>1, <2>3 DEF Accounted, Overtaken, Has
  <2>4. CASE Beyond(r, x)
    <3>1. id < x.seq
      <4>1. CASE phase[r] = "off"
        <5>1. CASE got[r] = <<>>
          BY <2>1, <4>1, <5>1 DEF LastEventId
        <5>2. CASE got[r] # <<>>
          BY <1>4, <2>4, <4>1, <5>2 DEF Beyond
        <5>. QED BY <5>1, <5>2
      <4>2. CASE phase[r] = "poll"
        BY <2>4, <4>2 DEF Beyond
      <4>. QED BY <1>1, <4>1, <4>2
    <3>2. Beyond(r, x)'
      BY <1>1, <1>2, <1>3, <2>4, <3>1 DEF Beyond
    <3>. QED BY <1>1, <1>3, <3>2 DEF Accounted
  <2>. QED BY <2>2, <2>3, <2>4
<1>. QED BY <1>6, <1>7 DEF Whole

(* Whatever waits when it ends comes after all that was sent.              *)
LEMMA EndWhole ==
  ASSUME LogInv, OrderInv, ~late, MaxRestarts = 0, NEW r \in Readers, Whole(r), EndResponse(r)
  PROVE  Whole(r)'
<1>1. /\ phase'[r] = "off" /\ r \notin subscribers' /\ queues'[r] = <<>> /\ batch'[r] = <<>>
      /\ UNCHANGED <<sequence, rows, unsaved, got>>
      /\ \A k \in 1..Len(<<>>) : FALSE
  BY DEF EndResponse, bufferVars, historyVars, turnVars, LogInv, TypeInv, TypeOK
<1>2. connected
  BY Ordered
<1>3. PlaceInv(r)'
  BY <1>1 DEF PlaceInv, Replaying
<1>4. ASSUME NEW x \in Written' PROVE Accounted(r, x)'
  <2>1. x \in Written /\ Accounted(r, x) /\ x # None
    BY <1>1, <1>2, <1>4, WrittenFacts DEF Written, Whole
  <2>2. CASE Overtaken(x) \/ Has(got[r], x)
    BY <1>1, <2>2 DEF Accounted, Overtaken, Has
  <2>3. CASE Has(batch[r], x) \/ Has(queues[r], x) \/ Beyond(r, x)
    <3>1. \A i \in 1..Len(got[r]) : got[r][i].seq < x.seq
      <4>1. CASE Has(batch[r], x)
        BY <4>1, Ordered DEF Has
      <4>2. CASE Has(queues[r], x)
        BY <2>1, <4>2, Ordered DEF Has
      <4>3. CASE Beyond(r, x)
        BY <4>3 DEF Beyond
      <4>. QED BY <2>3, <4>1, <4>2, <4>3
    <3>2. Beyond(r, x)'
      BY <1>1, <3>1 DEF Beyond, Replaying
    <3>. QED BY <1>1, <3>2 DEF Accounted
  <2>. QED BY <2>1, <2>2, <2>3 DEF Accounted
<1>. QED BY <1>3, <1>4 DEF Whole

(* The rank of a number among the unread ones tells it from the others.    *)
Rank(r, n) == Cardinality({m \in Unread(r) : m <= n})

LEMMA RankFacts ==
  ASSUME LogInv, NEW r \in Readers, NEW a \in Unread(r), NEW b \in Unread(r)
  PROVE  /\ a \in Nat /\ b \in Nat /\ Rank(r, a) \in Nat /\ Rank(r, b) \in Nat
         /\ a <= b => Rank(r, a) <= Rank(r, b)
         /\ a < b => Rank(r, a) # Rank(r, b)
<1>. DEFINE upTo(n) == {m \in Unread(r) : m <= n}
<1>1. IsFiniteSet(Unread(r)) /\ Unread(r) \subseteq Nat
  <2>1. Unread(r) \in SUBSET Seqs(rows)
    BY DEF Unread
  <2>. QED BY <2>1, FarFacts, FS_Subset
<1>2. a \in Nat /\ b \in Nat
  BY <1>1
<1>3. IsFiniteSet(upTo(a)) /\ IsFiniteSet(upTo(b))
  <2>1. upTo(a) \in SUBSET Unread(r) /\ upTo(b) \in SUBSET Unread(r)
    OBVIOUS
  <2>. QED BY <1>1, <2>1, FS_Subset
<1>4. Rank(r, a) \in Nat /\ Rank(r, b) \in Nat
  BY <1>3, FS_CardinalityType DEF Rank
<1>5. ASSUME a <= b PROVE upTo(a) \in SUBSET upTo(b)
  BY <1>1, <1>2, <1>5
<1>6. a <= b => Rank(r, a) <= Rank(r, b)
  BY <1>3, <1>5, FS_Subset DEF Rank
<1>7. ASSUME a < b, Rank(r, a) = Rank(r, b) PROVE FALSE
  <2>1. a <= b /\ b \in upTo(b) /\ b \notin upTo(a)
    BY <1>2, <1>7
  <2>2. upTo(a) = upTo(b)
    BY <1>3, <1>5, <1>7, <2>1, FS_Subset DEF Rank
  <2>. QED BY <2>1, <2>2
<1>. QED BY <1>2, <1>4, <1>6, <1>7

(* A row that the offset does not skip is on the page or after it.         *)
LEMMA PageComplete ==
  ASSUME LogInv, NEW r \in Readers, NEW x \in rows, x.seq > after[r],
         Rank(r, x.seq) > offset[r]
  PROVE  \/ Has(Page(r), x)
         \/ \A i \in 1..Len(Page(r)) : Page(r)[i].seq < x.seq
<1>0. PICK page : page = Page(r)
  OBVIOUS
<1>1. /\ page \in Seq(Rows)
      /\ \A i \in 1..Len(page) : /\ page[i] \in rows /\ page[i].seq > after[r]
                                 /\ Rank(r, page[i].seq) = offset[r] + i
      /\ offset[r] \in Nat /\ Len(page) \in Nat
  <2>1. /\ page \in Seq(Rows)
        /\ \A i \in 1..Len(page) :
              /\ page[i] \in rows /\ page[i].seq > after[r]
              /\ Cardinality({n \in Unread(r) : n <= page[i].seq}) = offset[r] + i
    BY <1>0, PageFacts DEF LogInv, TypeInv, TypeOK
  <2>2. \A i \in 1..Len(page) :
          Rank(r, page[i].seq) = Cardinality({n \in Unread(r) : n <= page[i].seq})
    BY DEF Rank
  <2>3. offset[r] \in Nat /\ Len(page) \in Nat
    BY <2>1, ReaderTypes
  <2>. QED BY <2>1, <2>2, <2>3
<1>2. /\ x.seq \in Unread(r)
      /\ \A i \in 1..Len(page) : page[i].seq \in Unread(r)
  BY <1>1 DEF Unread, Seqs
<1>3. \A y, z \in rows : y.seq = z.seq => y = z
  BY DEF LogInv, TypeInv
<1>4. Rank(r, x.seq) \in Nat /\ x.seq \in Nat
  BY <1>2, RankFacts
<1>5. CASE Rank(r, x.seq) <= offset[r] + Len(page)
  <2>. DEFINE i == Rank(r, x.seq) - offset[r]
  <2>1. i \in 1..Len(page) /\ Rank(r, page[i].seq) = Rank(r, x.seq)
    BY <1>1, <1>4, <1>5
  <2>. HIDE DEF i
  <2>2. page[i].seq = x.seq
    <3>1. page[i].seq \in Unread(r) /\ page[i].seq \in Nat
      BY <1>2, <2>1, RankFacts
    <3>2. ~(page[i].seq < x.seq) /\ ~(x.seq < page[i].seq)
      BY <1>2, <2>1, <3>1, RankFacts
    <3>. QED BY <1>4, <3>1, <3>2
  <2>3. page[i] = x
    BY <1>1, <1>3, <2>1, <2>2
  <2>. QED BY <1>0, <2>1, <2>3 DEF Has
<1>6. CASE ~(Rank(r, x.seq) <= offset[r] + Len(page))
  <2>1. ASSUME NEW i \in 1..Len(page) PROVE page[i].seq < x.seq
    <3>1. page[i].seq \in Unread(r) /\ page[i].seq \in Nat
      BY <1>2, <2>1, RankFacts
    <3>2. Rank(r, page[i].seq) < Rank(r, x.seq)
      BY <1>1, <1>4, <1>6
    <3>3. x.seq <= page[i].seq => Rank(r, x.seq) <= Rank(r, page[i].seq)
      BY <1>2, <3>1, RankFacts
    <3>4. Rank(r, page[i].seq) \in Nat
      BY <1>2, <3>1, RankFacts
    <3>. QED BY <1>4, <3>1, <3>2, <3>3, <3>4
  <2>. QED BY <1>0, <2>1
<1>. QED BY <1>5, <1>6

(* A page leaves out no row between what was sent and its last row.        *)
LEMMA PageWhole ==
  ASSUME LogInv, OrderInv, ~late, MaxRestarts = 0, NEW r \in Readers, Whole(r),
         phase[r] \in Replaying, batch[r] = <<>>, more[r],
         batch' = [batch EXCEPT ![r] = Page(r)],
         offset' = [offset EXCEPT ![r] = @ + Len(Page(r))], Page(r) # <<>>,
         UNCHANGED <<phase, subscribers, queues, sequence, rows, unsaved, after, last, got>>
  PROVE  Whole(r)'
<1>0. PICK page : page = Page(r)
  OBVIOUS
<1>1. /\ page \in Seq(Rows) /\ page # <<>>
      /\ \A i \in 1..Len(page) :
            /\ page[i] \in rows /\ page[i].seq > after[r]
            /\ Cardinality({n \in Unread(r) : n <= page[i].seq}) = offset[r] + i
      /\ batch'[r] = page /\ offset'[r] = offset[r] + Len(page)
  BY <1>0, PageFacts DEF LogInv, TypeInv, TypeOK
<1>2. /\ Len(page) \in Nat \ {0} /\ Len(page) \in 1..Len(page)
      /\ \A i \in 1..Len(page) : page[i].seq \in Nat
  <2>1. Len(page) \in Nat \ {0}
    BY <1>1
  <2>. QED BY <1>1, <2>1, RowSeqFacts
<1>3. /\ r \notin subscribers /\ queues[r] = <<>> /\ connected
      /\ last[r] \in Nat /\ after[r] \in Nat /\ offset[r] \in Nat
      /\ after[r] <= last[r] /\ last[r] <= sequence /\ offset[r] <= Cardinality(Passed(r))
      /\ Far(r) = last[r]
  BY Ordered, ReaderTypes DEF Whole, PlaceInv, Replaying, Far
<1>4. /\ \A n \in Seqs(rows) : n \in Nat
      /\ IsFiniteSet(Passed(r)) /\ Cardinality(Passed(r)) \in Nat
      /\ \A x, y \in rows : x.seq = y.seq => x = y
  BY FarFacts DEF LogInv, TypeInv
<1>5. PlaceInv(r)'
  <2>1. Far(r)' = page[Len(page)].seq
    BY <1>1 DEF Far
  <2>2. Passed(r)' = {n \in Unread(r) : n <= page[Len(page)].seq}
    BY <1>4, <2>1 DEF Passed, Unread
  <2>3. Cardinality(Passed(r)') = offset[r] + Len(page)
    BY <1>1, <1>2, <2>2
  <2>. QED BY <1>1, <1>2, <1>3, <2>3 DEF PlaceInv
<1>6. ASSUME NEW x \in Written' PROVE Accounted(r, x)'
  <2>1. x \in Written /\ Accounted(r, x) /\ x.seq \in Nat
    BY <1>3, <1>6, WrittenFacts DEF Written, Whole
  <2>2. CASE Overtaken(x) \/ Has(got[r], x)
    BY <2>2 DEF Accounted, Overtaken, Has
  <2>3. CASE Beyond(r, x)
    <3>1. last[r] < x.seq
      BY <2>3 DEF Beyond
    <3>2. CASE \A i \in 1..Len(page) : page[i].seq < x.seq
      <4>1. Beyond(r, x)'
        BY <1>1, <1>3, <2>3, <3>2 DEF Beyond
      <4>. QED BY <1>3, <4>1 DEF Accounted
    <3>3. CASE x \in rows /\ ~\A i \in 1..Len(page) : page[i].seq < x.seq
      <4>1. x.seq \in Unread(r) /\ x.seq > after[r]
        BY <1>3, <2>1, <3>1, <3>3 DEF Unread, Seqs
      <4>2. Rank(r, x.seq) > Cardinality(Passed(r))
        <5>. DEFINE upTo == {m \in Unread(r) : m <= x.seq}
        <5>1. Passed(r) \in SUBSET upTo
          BY <1>3, <1>4, <2>1, <3>1 DEF Passed, Unread
        <5>2. x.seq \in upTo /\ x.seq \notin Passed(r)
          BY <1>3, <2>1, <3>1, <4>1 DEF Passed
        <5>3. IsFiniteSet(upTo) /\ Cardinality(upTo) \in Nat
          <6>1. upTo \in SUBSET Seqs(rows)
            BY DEF Unread
          <6>. QED BY <6>1, FarFacts, FS_Subset, FS_CardinalityType
        <5>4. Cardinality(Passed(r)) <= Cardinality(upTo) /\ Cardinality(Passed(r)) # Cardinality(upTo)
          BY <5>1, <5>2, <5>3, FS_Subset
        <5>. QED BY <1>4, <5>3, <5>4 DEF Rank
      <4>3. Rank(r, x.seq) > offset[r]
        <5>1. Rank(r, x.seq) \in Nat
          BY <4>1, RankFacts
        <5>. QED BY <1>3, <1>4, <4>2, <5>1
      <4>4. Has(page, x)
        BY <1>0, <3>3, <4>1, <4>3, PageComplete
      <4>. QED BY <1>1, <4>4 DEF Accounted, Has
    <3>4. CASE x \notin rows /\ ~\A i \in 1..Len(page) : page[i].seq < x.seq
      <4>1. PICK i \in 1..Len(page) : ~(page[i].seq < x.seq)
        BY <3>4
      <4>2. page[i] \in rows /\ page[i].seq # x.seq
        <5>1. page[i] \in rows /\ page[i] \in Written
          BY <1>1, <1>3, <4>1, WrittenFacts
        <5>. QED BY <1>3, <2>1, <3>4, <5>1, WrittenFacts
      <4>3. x.seq < page[i].seq
        BY <1>2, <2>1, <4>1, <4>2
      <4>4. Overtaken(x)
        BY <3>4, <4>2, <4>3 DEF Overtaken
      <4>. QED BY <4>4 DEF Accounted, Overtaken
    <3>. QED BY <3>2, <3>3, <3>4
  <2>. QED
    <3>1. ~Has(batch[r], x) /\ ~Has(queues[r], x)
      BY <1>3 DEF Has
    <3>. QED BY <2>1, <2>2, <2>3, <3>1 DEF Accounted
<1>. QED BY <1>5, <1>6 DEF Whole

-----------------------------------------------------------------------------
(* Sorted has every number of the set, so that the ring's replay has every *)
(* event beyond the number it is given.                                    *)
LEMMA SortedHas ==
  ASSUME NEW N, N \subseteq Nat, IsFiniteSet(N), NEW n \in N
  PROVE  \E k \in 1..Len(Sorted(N)) : Sorted(N)[k] = n
<1>. DEFINE size == Cardinality(N)
<1>0. PICK list : list = Sorted(N)
  OBVIOUS
<1>1. /\ size \in Nat /\ list \in Seq(N) /\ Len(list) = size
      /\ \A j, k \in 1..size : j < k => list[j] < list[k]
  BY <1>0, SortedFacts
<1>. HIDE DEF size
<1>2. \A k \in 1..size : list[k] \in N /\ list[k] \in Nat
  <2>1. \A k \in 1..Len(list) : list[k] \in N
    BY <1>1
  <2>. QED BY <1>1, <2>1
<1>. DEFINE f == [k \in 1..size |-> list[k]]
<1>3. f \in [1..size -> N]
  BY <1>2
<1>4. ASSUME NEW j \in 1..size, NEW k \in 1..size, f[j] = f[k] PROVE j = k
  <2>1. j < k \/ k < j \/ j = k
    BY <1>1
  <2>2. list[j] = list[k] /\ list[j] \in Nat
    BY <1>2, <1>4
  <2>. QED BY <1>1, <2>1, <2>2
<1>5. f \in Injection(1..size, N)
  BY <1>3, <1>4 DEF Injection, IsInjective
<1>6. Cardinality(1..size) = size
  <2>1. Cardinality(1..size) = IF 1 > size THEN 0 ELSE size - 1 + 1
    BY <1>1, FS_Interval
  <2>. QED BY <1>1, <2>1
<1>7. f \in Surjection(1..size, N)
  BY <1>5, <1>6, FS_Injection DEF size
<1>8. \E k \in 1..size : f[k] = n
  BY <1>7 DEF Surjection
<1>. QED BY <1>0, <1>1, <1>8

LEMMA RingAfterHas ==
  ASSUME NEW n \in Nat, ring \in Seq(Rows), NEW i \in 1..Len(ring), ring[i].seq > n
  PROVE  Has(RingAfter(n), ring[i])
<1>. DEFINE N == {j \in DOMAIN ring : ring[j].seq > n}
            found == Sorted(N)
<1>1. N \in SUBSET (1..Len(ring)) /\ Len(ring) \in Nat /\ i \in N
  OBVIOUS
<1>2. IsFiniteSet(N)
  BY <1>1, FS_Interval, FS_Subset
<1>3. N \subseteq Nat
  BY <1>1
<1>4. found \in Seq(N)
  BY <1>2, <1>3, SortedFacts
<1>5. PICK k \in 1..Len(found) : found[k] = i
  BY <1>1, <1>2, <1>3, SortedHas
<1>. HIDE DEF found
<1>6. RingAfter(n) = [m \in 1..Len(found) |-> ring[found[m]]]
  BY <1>4 DEF RingAfter, found
<1>7. Len(found) \in Nat
  BY <1>4
<1>8. Len(RingAfter(n)) = Len(found) /\ RingAfter(n)[k] = ring[i]
  BY <1>5, <1>6, <1>7
<1>. QED BY <1>5, <1>8 DEF Has

(* The end of the replay hands over everything beyond the last event sent. *)
LEMMA EndReplayWhole ==
  ASSUME LogInv, OrderInv, ~late, MaxRestarts = 0, RingWhole, NEW r \in Readers, Whole(r),
         phase[r] \in Replaying, batch[r] = <<>>, EndReplay(r),
         UNCHANGED <<sequence, rows, unsaved, after, last, offset, more, got>>
  PROVE  Whole(r)'
<1>1. /\ r \notin subscribers /\ queues[r] = <<>> /\ connected
      /\ last[r] \in Nat /\ last[r] <= sequence /\ ring \in Seq(Rows)
      /\ \A k \in 1..Len(<<>>) : FALSE
  BY Ordered, ReaderTypes DEF Whole, PlaceInv, Replaying
<1>2. ASSUME NEW x \in Written'
      PROVE  /\ x \in Written
             /\ Overtaken(x) \/ Has(got[r], x) \/ Beyond(r, x)
  <2>1. x \in Written
    BY <1>2 DEF Written
  <2>2. ~Has(batch[r], x) /\ ~Has(queues[r], x)
    BY <1>1 DEF Has
  <2>. QED BY <2>1, <2>2 DEF Whole, Accounted
<1>3. CASE phase[r] = "replay"
  <2>1. /\ phase'[r] = "live" /\ queues'[r] = <<>> /\ batch'[r] = RingAfter(last[r])
    BY <1>3 DEF EndReplay, Subscribe, LogInv, TypeInv, TypeOK
  <2>2. PlaceInv(r)'
    BY <1>1, <2>1 DEF PlaceInv, Replaying
  <2>3. ASSUME NEW x \in Written' PROVE Accounted(r, x)'
    <3>1. CASE Overtaken(x) \/ Has(got[r], x)
      BY <3>1 DEF Accounted, Overtaken, Has
    <3>2. CASE Beyond(r, x)
      <4>1. last[r] < x.seq /\ x.seq \in 1..Len(ring) /\ ring[x.seq] = x
        BY <1>2, <2>3, <3>2 DEF Beyond, RingWhole
      <4>2. Has(RingAfter(last[r]), x)
        BY <1>1, <4>1, RingAfterHas
      <4>. QED BY <2>1, <4>2 DEF Accounted, Has
    <3>. QED BY <1>2, <2>3, <3>1, <3>2
  <2>. QED BY <2>2, <2>3 DEF Whole
<1>4. CASE phase[r] # "replay"
  <2>1. /\ phase'[r] \in {"off", "poll"} /\ queues'[r] = <<>> /\ batch'[r] = <<>>
        /\ r \notin subscribers'
    BY <1>1, <1>4 DEF EndReplay, LogInv, TypeInv, TypeOK
  <2>2. PlaceInv(r)'
    BY <1>1, <2>1 DEF PlaceInv, Replaying
  <2>3. ASSUME NEW x \in Written' PROVE Accounted(r, x)'
    <3>1. CASE Overtaken(x) \/ Has(got[r], x)
      BY <3>1 DEF Accounted, Overtaken, Has
    <3>2. CASE Beyond(r, x)
      <4>1. Beyond(r, x)'
        BY <1>1, <2>1, <3>2 DEF Beyond
      <4>. QED BY <2>1, <4>1 DEF Accounted
    <3>. QED BY <1>2, <2>3, <3>1, <3>2
  <2>. QED BY <2>2, <2>3 DEF Whole
<1>. QED BY <1>3, <1>4

-----------------------------------------------------------------------------
LEMMA TailHas ==
  ASSUME NEW S, NEW s \in Seq(S), s # <<>>, NEW x, Has(s, x)
  PROVE  x = Head(s) \/ Has(Tail(s), x)
<1>1. /\ Len(Tail(s)) = Len(s) - 1 /\ Len(s) \in Nat \ {0}
      /\ Head(s) = s[1]
      /\ \A i \in 1..Len(Tail(s)) : Tail(s)[i] = s[i + 1]
  BY TailFacts
<1>2. PICK k \in 1..Len(s) : s[k] = x
  BY DEF Has
<1>3. CASE k = 1
  BY <1>1, <1>2, <1>3
<1>4. CASE k # 1
  <2>1. k - 1 \in 1..Len(Tail(s)) /\ k - 1 + 1 = k
    BY <1>1, <1>4
  <2>2. Tail(s)[k - 1] = x
    BY <1>1, <1>2, <2>1
  <2>. QED BY <2>1, <2>2 DEF Has
<1>. QED BY <1>3, <1>4

LEMMA GotOneMore ==
  ASSUME LogInv, NEW r \in Readers, NEW row \in Rows, Deliver(r, row)
  PROVE  /\ Has(got'[r], row)
         /\ \A x : Has(got[r], x) => Has(got'[r], x)
         /\ \A i \in 1..Len(got'[r]) :
                got'[r][i] = row \/ (i \in 1..Len(got[r]) /\ got'[r][i] = got[r][i])
<1>. PICK longer : longer = Append(got[r], row)
  OBVIOUS
<1>1. got[r] \in Seq(Rows) /\ got'[r] = longer
  BY ReaderTypes DEF Deliver, LogInv, TypeInv, TypeOK
<1>2. /\ Len(longer) = Len(got[r]) + 1 /\ Len(got[r]) \in Nat
      /\ longer[Len(got[r]) + 1] = row
      /\ \A k \in 1..Len(got[r]) : longer[k] = got[r][k]
  BY <1>1, OneLonger
<1>3. /\ Has(longer, row)
      /\ \A x : Has(got[r], x) => Has(longer, x)
      /\ \A k \in 1..Len(longer) : longer[k] = row \/ (k \in 1..Len(got[r]) /\ longer[k] = got[r][k])
  BY <1>2, LongerHas
<1>. QED BY <1>1, <1>3, Zenon

(* The first event of a batch is sent; what the limit drops is still to    *)
(* come, from the ring.                                                    *)
LEMMA SendBatchWhole ==
  ASSUME LogInv, OrderInv, ~late, MaxRestarts = 0, NEW r \in Readers, Whole(r),
         SendStored(r) \/ SendRing(r)
  PROVE  Whole(r)'
<1>0. PICK row, rest : row = Head(batch[r]) /\ rest = Tail(batch[r])
  OBVIOUS
<1>1. /\ batch[r] # <<>> /\ Deliver(r, row)
      /\ UNCHANGED <<sequence, queues, subscribers, rows, unsaved, phase, after, offset>>
      /\ phase[r] \in Replaying \cup {"live"}
  BY <1>0 DEF SendStored, SendRing, bufferVars, turnVars
<1>2. /\ batch[r] \in Seq(Rows) /\ row = batch[r][1] /\ row \in Rows /\ 1 \in 1..Len(batch[r])
      /\ Len(batch[r]) \in Nat \ {0} /\ Len(rest) = Len(batch[r]) - 1
      /\ \A i \in 1..Len(rest) : rest[i] = batch[r][i + 1] /\ i + 1 \in 1..Len(batch[r])
      /\ rest # <<>> => rest[Len(rest)] = batch[r][Len(batch[r])]
      /\ rest = <<>> => Len(batch[r]) = 1
      /\ \A x : Has(batch[r], x) => x = row \/ Has(rest, x)
  <2>1. batch[r] \in Seq(Rows)
    BY ReaderTypes
  <2>2. \A x : Has(batch[r], x) => x = row \/ Has(rest, x)
    BY <1>0, <1>1, <2>1, TailHas
  <2>3. Len(batch[r]) \in Nat \ {0}
    BY <1>1, <2>1
  <2>4. 1 \in 1..Len(batch[r])
    BY <2>3
  <2>. QED BY <1>0, <1>1, <2>1, <2>2, <2>3, <2>4, TailFacts
<1>3. /\ \A i \in 1..Len(got[r]) : got[r][i].seq \in Nat /\ got[r][i].seq < row.seq
      /\ \A i \in 1..Len(got[r]) : \A j \in 1..Len(batch[r]) : got[r][i].seq < batch[r][j].seq
      /\ row.seq \in Nat /\ row.seq <= sequence /\ connected
      /\ phase[r] # "live" => r \notin subscribers /\ queues[r] = <<>>
      /\ \A j \in 1..Len(batch[r]) : batch[r][j].seq \in Nat
  BY <1>2, Ordered
<1>4. \A j \in 1..Len(rest) : row.seq < rest[j].seq
  <2>1. Ascending(batch[r], 1)
    BY Ordered
  <2>2. ASSUME NEW j \in 1..Len(rest) PROVE 1 < j + 1 /\ j + 1 \in 1..Len(batch[r])
    BY <1>2
  <2>. QED BY <1>2, <2>1, <2>2 DEF Ascending
<1>5. /\ Has(got'[r], row)
      /\ \A x : Has(got[r], x) => Has(got'[r], x)
      /\ \A i \in 1..Len(got'[r]) :
             got'[r][i] = row \/ (i \in 1..Len(got[r]) /\ got'[r][i] = got[r][i])
  BY <1>1, <1>2, GotOneMore
<1>6. CASE SendRing(r)
  <2>1. batch'[r] = rest /\ last' = last /\ phase[r] = "live" /\ phase'[r] = "live"
    BY <1>0, <1>6 DEF SendRing, LogInv, TypeInv, TypeOK
  <2>2. PlaceInv(r)'
    BY <1>1, <2>1 DEF Whole, PlaceInv, Replaying
  <2>3. ASSUME NEW x \in Written' PROVE Accounted(r, x)'
    <3>1. x \in Written /\ Accounted(r, x)
      BY <1>1, <2>3 DEF Written, Whole
    <3>2. CASE Overtaken(x) \/ Has(got[r], x) \/ Has(queues[r], x)
      BY <1>1, <1>5, <3>2 DEF Accounted, Overtaken
    <3>3. CASE Has(batch[r], x)
      BY <1>2, <1>5, <2>1, <3>3 DEF Accounted
    <3>4. CASE r \notin subscribers /\ Beyond(r, x)
      <4>1. row.seq < x.seq
        BY <1>2, <3>4 DEF Beyond
      <4>2. \A i \in 1..Len(got'[r]) : got'[r][i].seq < x.seq
        BY <1>5, <3>4, <4>1 DEF Beyond
      <4>3. \A j \in 1..Len(rest) : rest[j].seq < x.seq
        BY <1>2, <3>4 DEF Beyond
      <4>4. Beyond(r, x)'
        BY <1>1, <2>1, <3>4, <4>2, <4>3 DEF Beyond, Replaying
      <4>. QED BY <1>1, <3>4, <4>4 DEF Accounted
    <3>. QED BY <3>1, <3>2, <3>3, <3>4 DEF Accounted
  <2>. QED BY <2>2, <2>3 DEF Whole
<1>7. CASE SendStored(r)
  <2>1. /\ phase[r] \in Replaying /\ phase'[r] = phase[r] /\ phase[r] # "live"
        /\ last'[r] = (IF last[r] < row.seq THEN row.seq ELSE last[r])
        /\ batch'[r] = (IF left[r] = 1 THEN <<>> ELSE rest)
        /\ more'[r] => more[r] /\ left[r] # 1
        /\ last[r] \in Nat /\ after[r] \in Nat
    BY <1>0, <1>7, ReaderTypes DEF SendStored, Replaying, LogInv, TypeInv, TypeOK
  <2>2. PageInv(r)
    BY DEF OrderInv, ReaderInv
  <2>3. last[r] < row.seq /\ last'[r] = row.seq
    BY <1>2, <2>1, <2>2 DEF PageInv
  <2>4. more'[r] => Passed(r)' = Passed(r)
    <3>. SUFFICES ASSUME more'[r] PROVE Passed(r)' = Passed(r)
      OBVIOUS
    <3>1. batch'[r] = rest /\ Far(r) = batch[r][Len(batch[r])].seq
      BY <1>1, <2>1 DEF Far
    <3>2. Far(r)' = Far(r)
      <4>1. CASE rest = <<>>
        BY <1>2, <2>3, <3>1, <4>1 DEF Far
      <4>2. CASE rest # <<>>
        BY <1>2, <3>1, <4>2 DEF Far
      <4>. QED BY <4>1, <4>2
    <3>. QED BY <1>1, <3>2 DEF Passed
  <2>5. PlaceInv(r)'
    <3>1. after[r] <= last[r] /\ (more[r] => offset[r] <= Cardinality(Passed(r)))
      BY <2>1 DEF Whole, PlaceInv
    <3>2. r \notin subscribers'
      BY <1>1, <1>3, <2>1
    <3>3. after[r] <= row.seq
      BY <1>3, <2>1, <2>3, <3>1
    <3>. QED BY <1>1, <1>3, <2>1, <2>3, <2>4, <3>1, <3>2, <3>3 DEF PlaceInv
  <2>6. ASSUME NEW x \in Written' PROVE Accounted(r, x)'
    <3>1. x \in Written /\ Accounted(r, x) /\ x.seq \in Nat
      BY <1>1, <1>3, <2>6, WrittenFacts DEF Written, Whole
    <3>2. CASE Overtaken(x) \/ Has(got[r], x) \/ x = row
      BY <1>1, <1>5, <3>2 DEF Accounted, Overtaken
    <3>3. CASE Has(rest, x) /\ left[r] # 1
      BY <2>1, <3>3 DEF Accounted
    <3>4. CASE Has(rest, x) /\ left[r] = 1
      <4>1. row.seq < x.seq /\ \A i \in 1..Len(got[r]) : got[r][i].seq < x.seq
        BY <1>2, <1>3, <1>4, <3>4 DEF Has
      <4>2. \A i \in 1..Len(got'[r]) : got'[r][i].seq < x.seq
        BY <1>5, <4>1
      <4>3. batch'[r] = <<>> /\ queues'[r] = <<>> /\ \A k \in 1..Len(<<>>) : FALSE
        BY <1>1, <1>3, <2>1, <3>4
      <4>4. Beyond(r, x)'
        BY <2>3, <4>1, <4>2, <4>3 DEF Beyond
      <4>. QED BY <1>1, <1>3, <2>1, <4>4 DEF Accounted
    <3>5. CASE Beyond(r, x)
      <4>1. row.seq < x.seq
        BY <1>2, <3>5 DEF Beyond
      <4>2. \A i \in 1..Len(got'[r]) : got'[r][i].seq < x.seq
        BY <1>5, <3>5, <4>1 DEF Beyond
      <4>3. \A j \in 1..Len(rest) : rest[j].seq < x.seq
        BY <1>2, <3>5 DEF Beyond
      <4>4. \A j \in 1..Len(batch'[r]) : batch'[r][j].seq < x.seq
        <5>1. CASE left[r] = 1
          BY <2>1, <5>1
        <5>2. CASE left[r] # 1
          BY <2>1, <4>3, <5>2
        <5>. QED BY <5>1, <5>2
      <4>5. queues'[r] = <<>> /\ \A k \in 1..Len(<<>>) : FALSE
        BY <1>1, <1>3, <2>1
      <4>6. Beyond(r, x)'
        BY <2>3, <4>1, <4>2, <4>4, <4>5 DEF Beyond
      <4>. QED BY <1>1, <1>3, <2>1, <4>6 DEF Accounted
    <3>6. ~Has(queues[r], x)
      BY <1>3, <2>1 DEF Has
    <3>. QED BY <1>2, <3>1, <3>2, <3>3, <3>4, <3>5, <3>6 DEF Accounted
  <2>. QED BY <2>5, <2>6 DEF Whole
<1>. QED BY <1>6, <1>7

(* The first event of the queue is sent, whoever still subscribes.         *)
LEMMA SendQueueWhole ==
  ASSUME LogInv, OrderInv, ~late, MaxRestarts = 0, NEW r \in Readers, Whole(r),
         phase[r] = "live", batch[r] = <<>>, queues[r] # <<>>, Head(queues[r]) # None,
         Deliver(r, Head(queues[r])), queues' = [queues EXCEPT ![r] = Tail(@)],
         UNCHANGED <<sequence, subscribers, rows, unsaved, phase, batch>>
  PROVE  Whole(r)'
<1>0. PICK row, rest : row = Head(queues[r]) /\ rest = Tail(queues[r])
  OBVIOUS
<1>1. /\ queues[r] \in Seq(Rows \cup {None}) /\ row = queues[r][1] /\ row \in Rows
      /\ 1 \in 1..Len(queues[r]) /\ queues'[r] = rest
      /\ \A i \in 1..Len(rest) : rest[i] = queues[r][i + 1] /\ i + 1 \in 1..Len(queues[r])
      /\ \A x : Has(queues[r], x) => x = row \/ Has(rest, x)
      /\ \A k \in 1..Len(<<>>) : FALSE
  <2>1. queues[r] \in Seq(Rows \cup {None})
    BY ReaderTypes
  <2>2. \A x : Has(queues[r], x) => x = row \/ Has(rest, x)
    BY <1>0, <2>1, TailHas
  <2>3. Len(queues[r]) \in Nat \ {0} /\ row = queues[r][1] /\ row \in Rows \cup {None}
    BY <1>0, <2>1, TailFacts
  <2>4. 1 \in 1..Len(queues[r])
    BY <2>3
  <2>5. \A i \in 1..Len(rest) : rest[i] = queues[r][i + 1] /\ i + 1 \in 1..Len(queues[r])
    BY <1>0, <2>1, TailFacts
  <2>6. queues'[r] = rest
    BY <1>0 DEF LogInv, TypeInv, TypeOK
  <2>. QED BY <1>0, <2>1, <2>2, <2>3, <2>4, <2>5, <2>6
<1>2. /\ Has(got'[r], row)
      /\ \A x : Has(got[r], x) => Has(got'[r], x)
      /\ \A i \in 1..Len(got'[r]) :
             got'[r][i] = row \/ (i \in 1..Len(got[r]) /\ got'[r][i] = got[r][i])
  BY <1>0, <1>1, GotOneMore
<1>3. PlaceInv(r)'
  BY <1>1 DEF Whole, PlaceInv, Replaying
<1>4. ASSUME NEW x \in Written' PROVE Accounted(r, x)'
  <2>1. x \in Written /\ Accounted(r, x)
    BY <1>4 DEF Written, Whole
  <2>2. CASE Overtaken(x) \/ Has(got[r], x)
    BY <1>2, <2>2 DEF Accounted, Overtaken
  <2>3. CASE Has(queues[r], x)
    BY <1>1, <1>2, <2>3 DEF Accounted
  <2>4. CASE r \notin subscribers /\ Beyond(r, x)
    <3>1. row.seq < x.seq
      BY <1>0, <1>1, <2>4 DEF Beyond
    <3>2. \A i \in 1..Len(got'[r]) : got'[r][i].seq < x.seq
      BY <1>2, <2>4, <3>1 DEF Beyond
    <3>3. \A k \in 1..Len(rest) : rest[k] # None => rest[k].seq < x.seq
      BY <1>1, <2>4 DEF Beyond
    <3>4. Beyond(r, x)'
      BY <1>1, <3>2, <3>3 DEF Beyond, Replaying
    <3>. QED BY <2>4, <3>4 DEF Accounted
  <2>5. ~Has(batch[r], x)
    BY <1>1 DEF Has
  <2>. QED BY <2>1, <2>2, <2>3, <2>4, <2>5 DEF Accounted
<1>. QED BY <1>3, <1>4 DEF Whole

LEMMA ResponseWhole ==
  ASSUME LogInv, LogInv', OrderInv, ~late, MaxRestarts = 0, RingWhole,
         \A r \in Readers : Whole(r), NEW r \in Readers,
         Request(r) \/ Respond(r) \/ BecomesTerminal(r) \/ Leave(r)
  PROVE  RingWhole' /\ \A u \in Readers : Whole(u)'
<1>1. UNCHANGED <<sequence, ring, rows, unsaved>>
  BY DEF Request, Respond, Fetch, SendStored, BufferAppears, SendRing, SendLive,
         BecomesTerminal, Leave, EndResponse, bufferVars, turnVars
<1>2. Written' = Written /\ \A x : Overtaken(x) => Overtaken(x)'
  BY <1>1 DEF Written, Overtaken
<1>3. RingWhole'
  BY <1>1, <1>2, RingStaysWhole
<1>4. ASSUME NEW u \in Readers \ {r} PROVE Whole(u)'
  <2>1. SameReader(u) /\ queues'[u] = queues[u] /\ (u \in subscribers' => u \in subscribers)
    BY ResponseStep
  <2>. QED BY <1>1, <1>2, <2>1, StaysWhole
<1>5. Whole(r)'
  <2>1. CASE Request(r) \/ BufferAppears(r)
    BY <2>1, BeginWhole
  <2>2. CASE EndResponse(r)
    BY <2>2, EndWhole
  <2>3. CASE SendStored(r) \/ SendRing(r)
    BY <2>3, SendBatchWhole
  <2>4. CASE Fetch(r)
    <3>1. /\ phase[r] \in Replaying /\ batch[r] = <<>>
          /\ UNCHANGED <<sequence, rows, unsaved, got, after, last>>
      BY <2>4 DEF Fetch, bufferVars, turnVars, historyVars
    <3>2. CASE /\ more[r]
               /\ Page(r) # <<>>
               /\ batch' = [batch EXCEPT ![r] = Page(r)]
               /\ offset' = [offset EXCEPT ![r] = @ + Len(Page(r))]
               /\ UNCHANGED <<phase, subscribers, queues>>
      BY <3>1, <3>2, PageWhole
    <3>3. CASE EndReplay(r) /\ UNCHANGED <<offset, more>>
      BY <3>1, <3>3, EndReplayWhole
    <3>. QED BY <2>4, <3>2, <3>3 DEF Fetch
  <2>5. CASE SendLive(r)
    <3>1. CASE EndResponse(r)
      BY <3>1, EndWhole
    <3>2. CASE ~EndResponse(r)
      BY <1>1, <2>5, <3>2, SendQueueWhole DEF SendLive, readVars
    <3>. QED BY <3>1, <3>2
  <2>. QED BY <2>1, <2>2, <2>3, <2>4, <2>5 DEF Respond, BecomesTerminal, Leave
<1>. QED BY <1>3, <1>4, <1>5

(* Without a restart, what fits has always fitted.                         *)
LEMMA NextKeepsGap ==
  ASSUME MaxRestarts = 0
  PROVE  LogInv /\ LogInv' /\ OrderInv /\ GapInv /\ [Next]_vars => GapInv'
<1>. SUFFICES ASSUME LogInv, LogInv', OrderInv, GapInv, [Next]_vars, Fits', ~late'
              PROVE  RingWhole' /\ \A r \in Readers : Whole(r)'
  BY DEF GapInv
<1>1. connected /\ restarts \in 0..0
  BY DEF OrderInv, LogInv, TypeInv, TypeOK
<1>2. ~Restart /\ ~Connect
  BY <1>1 DEF Restart, Connect
<1>3. \A t \in Turns : Push(t) => sequence' = sequence + 1
  BY DEF Push
<1>4. (\A t \in Turns : ~Push(t)) => sequence' = sequence
  <2>1. ASSUME NEW r \in Readers,
               Request(r) \/ Respond(r) \/ BecomesTerminal(r) \/ Leave(r)
        PROVE  sequence' = sequence
    BY <2>1, ResponseStep
  <2>2. ASSUME NEW t \in Turns, Persist(t) \/ Abort(t) PROVE sequence' = sequence
    BY <2>2 DEF Persist, Abort, bufferVars
  <2>3. CASE Close
    BY <2>3 DEF Close, bufferVars
  <2>4. CASE UNCHANGED vars
    BY <2>4 DEF vars, bufferVars
  <2>. QED BY <1>2, <2>1, <2>2, <2>3, <2>4 DEF Next
<1>5. Fits
  <2>1. /\ sequence \in Nat /\ sequence <= sequence' /\ sequence' \in Nat
        /\ {RingSize, QueueSize, MaxEvents} \subseteq Nat
    BY <1>3, <1>4, SizesAssumption DEF LogInv, TypeInv, TypeOK
  <2>. QED BY <2>1 DEF Fits
<1>6. ~late
  <2>1. ASSUME NEW t \in Turns, Persist(t) PROVE ~late
    BY <2>1 DEF Persist
  <2>2. ASSUME NEW r \in Readers,
               Request(r) \/ Respond(r) \/ BecomesTerminal(r) \/ Leave(r)
        PROVE  ~late
    BY <2>2, ResponseStep
  <2>3. ASSUME NEW t \in Turns, Push(t) \/ Abort(t) PROVE ~late
    BY <2>3 DEF Push, Abort, historyVars
  <2>4. CASE Close \/ UNCHANGED vars
    BY <2>4 DEF Close, vars, historyVars
  <2>. QED BY <1>2, <2>1, <2>2, <2>3, <2>4 DEF Next
<1>7. RingWhole /\ \A r \in Readers : Whole(r)
  BY <1>5, <1>6 DEF GapInv
<1>8. ASSUME NEW t \in Turns, Push(t)
      PROVE  RingWhole' /\ \A r \in Readers : Whole(r)'
  BY <1>6, <1>7, <1>8, PushWhole
<1>9. ASSUME NEW t \in Turns, Persist(t)
      PROVE  RingWhole' /\ \A r \in Readers : Whole(r)'
  BY <1>1, <1>5, <1>7, <1>9, PersistWhole
<1>10. ASSUME NEW t \in Turns, Abort(t)
       PROVE  RingWhole' /\ \A r \in Readers : Whole(r)'
  BY <1>7, <1>10, AbortWhole
<1>11. ASSUME NEW r \in Readers,
              Request(r) \/ Respond(r) \/ BecomesTerminal(r) \/ Leave(r)
       PROVE  RingWhole' /\ \A u \in Readers : Whole(u)'
  BY <1>6, <1>7, <1>11, ResponseWhole
<1>12. CASE Close
  BY <1>7, <1>12, CloseWhole
<1>13. CASE UNCHANGED vars
  <2>1. /\ UNCHANGED <<sequence, ring, subscribers, queues, rows, unsaved>>
        /\ \A r \in Readers : SameReader(r)
    BY <1>13 DEF vars, bufferVars, turnVars, readVars, historyVars, SameReader
  <2>2. Written' = Written /\ \A x : Overtaken(x) => Overtaken(x)'
    BY <2>1 DEF Written, Overtaken
  <2>. QED BY <1>7, <2>1, <2>2, StaysWhole, RingStaysWhole
<1>. QED BY <1>2, <1>8, <1>9, <1>10, <1>11, <1>12, <1>13 DEF Next

LEMMA InitGap == Init => GapInv
<1>. SUFFICES ASSUME Init PROVE RingWhole /\ \A r \in Readers : Whole(r)
  BY DEF GapInv
<1>1. Written = {}
  BY DEF Init, Written
<1>2. RingWhole
  BY <1>1 DEF Init, RingWhole
<1>3. ASSUME NEW r \in Readers PROVE Whole(r)
  BY <1>1 DEF Init, Whole, PlaceInv, Replaying
<1>. QED BY <1>2, <1>3

(* events.py, "no gaps", for any number of turns and readers, any limit of *)
(* the replay, any size of page and any fault but a restart: while the     *)
(* buffer has numbered no more events than the ring, a queue and the table *)
(* hold, and rows reach the table in the order of their numbers, a client  *)
(* that reconnects as often as it likes has every stored event up to the   *)
(* last it received.                                                       *)
THEOREM NothingIsMissed ==
  ASSUME MaxRestarts = 0
  PROVE  Spec => [](Fits /\ ~late => NothingMissed)
<1>1. Spec => []GapInv
  BY InitGap, NextKeepsGap, LogHolds, OrderHolds, PTL DEF Spec
<1>2. LogInv /\ OrderInv /\ GapInv => (Fits /\ ~late => NothingMissed)
  <2>. SUFFICES ASSUME LogInv, OrderInv, GapInv, Fits, ~late,
                       NEW r \in Readers, NEW row \in rows, row.seq <= LastEventId(r)
                PROVE  \E i \in DOMAIN got[r] : got[r][i] = row
    BY DEF NothingMissed
  <2>1. connected /\ row \in Written /\ row.seq \in Nat /\ row.seq \in 1..sequence /\ row # None
    <3>1. connected
      BY Ordered
    <3>2. row \in Written
      BY <3>1, WrittenFacts
    <3>. QED BY <3>1, <3>2, WrittenFacts DEF GapInv, RingWhole
  <2>2. Accounted(r, row) /\ ~Overtaken(row)
    BY <2>1 DEF GapInv, Whole, Overtaken
  <2>3. got[r] \in Seq(Rows) /\ got[r] # <<>>
    BY <2>1, ReaderTypes DEF LastEventId
  <2>4. Len(got[r]) \in 1..Len(got[r]) /\ LastEventId(r) = got[r][Len(got[r])].seq
    BY <2>3 DEF LastEventId, Last
  <2>5. LastEventId(r) \in Nat
    BY LastEventIdType, <2>3
  <2>6. ~Has(batch[r], row) /\ ~Has(queues[r], row) /\ ~Beyond(r, row)
    <3>1. CASE Has(batch[r], row)
      BY <2>1, <2>4, <2>5, <3>1, Ordered DEF Has
    <3>2. CASE Has(queues[r], row)
      <4>1. PICK k \in 1..Len(queues[r]) : queues[r][k] = row
        BY <3>2 DEF Has
      <4>2. got[r][Len(got[r])].seq < row.seq
        BY <2>1, <2>4, <4>1, Ordered
      <4>. QED BY <2>1, <2>4, <2>5, <4>2
    <3>3. CASE Beyond(r, row)
      BY <2>1, <2>4, <2>5, <3>3 DEF Beyond
    <3>. QED BY <3>1, <3>2, <3>3
  <2>7. Has(got[r], row)
    BY <2>2, <2>6 DEF Accounted
  <2>. QED BY <2>3, <2>7 DEF Has
<1>. QED BY <1>1, <1>2, LogHolds, OrderHolds, PTL
=============================================================================
