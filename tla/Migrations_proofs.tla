-------------------------- MODULE Migrations_proofs --------------------------
(***************************************************************************)
(* Proofs about Migrations, for any number of servers that race, die and   *)
(* write the version late.  SafeInv follows each server through the table  *)
(* of statements: what it has passed is in the file and stays there,       *)
(* because no statement takes back what the queries need.  AloneInv says   *)
(* more of a start that nobody disturbs: the file holds exactly what the   *)
(* statements before its position made and did not drop, so none fails.    *)
(***************************************************************************)
EXTENDS Migrations, TLAPS

Positions ==
  /\ version \in 0..Latest
  /\ \A s \in Servers : phase[s] = "migrating" =>
        at[s] \in (1..Latest + 1) \X (Nat \ {0})
  /\ DOMAIN phase = Servers /\ DOMAIN at = Servers

Followed ==
  \A s \in Servers : phase[s] = "migrating" => DoneBefore(at[s][1], at[s][2])

RowFollowed ==
  /\ version >= Split => RowConverted
  /\ \A s \in Servers : phase[s] = "migrating" /\ at[s][1] > Split => RowConverted

SafeInv ==
  /\ Positions
  /\ VersionSound
  /\ Followed
  /\ RowFollowed
  /\ ServingHasSchema
  /\ RowsConverted

-----------------------------------------------------------------------------
(* The table of migrations: eight of them, none empty, each a sequence.    *)
LEMMA LatestIsEight == Latest = 8
  BY DEF Latest, Upgrades, V001, V002, V003, V004, V005, V006, V007, V008

LEMMA TableFacts ==
  ASSUME NEW i \in 1..8
  PROVE  DOMAIN Upgrades[i] = 1..Len(Upgrades[i]) /\ Len(Upgrades[i]) \in Nat
<1>1. i = 1 \/ i = 2 \/ i = 3 \/ i = 4 \/ i = 5 \/ i = 6 \/ i = 7 \/ i = 8
  OBVIOUS
<1>. QED BY <1>1 DEF Upgrades, V001, V002, V003, V004, V005, V006, V007, V008

(* Nothing a query needs is dropped, and what a CREATE TABLE skips because *)
(* the table is there is not needed either.                                *)
LEMMA StatementFacts ==
  ASSUME NEW i \in 1..8, NEW k \in DOMAIN Upgrades[i]
  PROVE  /\ Unmakes(Upgrades[i][k]) \cap Queried = {}
         /\ Upgrades[i][k].brings \cap Queried = {}
<1>1. i = 1 \/ i = 2 \/ i = 3 \/ i = 4 \/ i = 5 \/ i = 6 \/ i = 7 \/ i = 8
  OBVIOUS
<1>2. k \in 1..4
  BY <1>1, TableFacts DEF Upgrades, V001, V002, V003, V004, V005, V006, V007, V008
<1>. QED
  BY <1>1, <1>2
  DEF Upgrades, V001, V002, V003, V004, V005, V006, V007, V008,
      Table, Index, Add, Drop, DropIndex, Unmakes, Queried

(* The migrations together provide everything the queries name.            *)
LEMMA AllProvided ==
  ASSUME DoneBefore(Latest + 1, 1)
  PROVE  Queried \subseteq schema
<1>1. \A j \in 1..8 : \A st \in Statements(j) : Makes(st) \cap Queried \subseteq schema
  BY LatestIsEight DEF DoneBefore
<1>2. \A j \in 1..8 : \A k \in DOMAIN Upgrades[j] :
         Makes(Upgrades[j][k]) \cap Queried \subseteq schema
  BY <1>1 DEF Statements
<1>. USE DEF Upgrades, V001, V002, V003, V004, V005, V006, V007, V008,
              Makes, Table, Add, Queried
<1>3. {"workspaces", "conversations", "events"} \subseteq schema
  <2>1. 1 \in DOMAIN Upgrades[1] /\ 3 \in DOMAIN Upgrades[1] /\ 4 \in DOMAIN Upgrades[1]
    OBVIOUS
  <2>2. /\ "workspaces" \in Makes(Upgrades[1][1])
        /\ "conversations" \in Makes(Upgrades[1][3])
        /\ "events" \in Makes(Upgrades[1][4])
    OBVIOUS
  <2>. QED BY <1>2, <2>1, <2>2 DEF Queried
<1>4. {"runtime_state", "agent_session_id", "workspace_settings_json"} \subseteq schema
  <2>1. 1 \in DOMAIN Upgrades[3] /\ 1 \in DOMAIN Upgrades[5] /\ 1 \in DOMAIN Upgrades[8]
    OBVIOUS
  <2>2. /\ "runtime_state" \in Makes(Upgrades[3][1])
        /\ "agent_session_id" \in Makes(Upgrades[5][1])
        /\ "workspace_settings_json" \in Makes(Upgrades[8][1])
    OBVIOUS
  <2>. QED BY <1>2, <2>1, <2>2 DEF Queried
<1>5. {"projects", "project_id"} \subseteq schema
  <2>1. 1 \in DOMAIN Upgrades[7] /\ 2 \in DOMAIN Upgrades[7]
    OBVIOUS
  <2>2. "projects" \in Makes(Upgrades[7][1]) /\ "project_id" \in Makes(Upgrades[7][2])
    OBVIOUS
  <2>. QED BY <1>2, <2>1, <2>2 DEF Queried
<1>. QED BY <1>3, <1>4, <1>5

(* A statement that does not fail provides what it makes, and keeps what   *)
(* the queries need.                                                       *)
LEMMA ApplyFacts ==
  ASSUME NEW i \in 1..8, NEW k \in DOMAIN Upgrades[i]
  PROVE  /\ schema \cap Queried \subseteq Apply(Upgrades[i][k])
         /\ Makes(Upgrades[i][k]) \cap Queried \subseteq Apply(Upgrades[i][k])
<1>. DEFINE st == Upgrades[i][k]
<1>1. Unmakes(st) \cap Queried = {} /\ st.brings \cap Queried = {}
  BY StatementFacts
<1>. HIDE DEF st
<1>2. schema \cap Queried \subseteq Apply(st)
  BY <1>1 DEF Apply
<1>3. Makes(st) \cap Queried \subseteq Apply(st)
  <2>1. Makes(st) \cap Queried \subseteq {st.obj}
    BY <1>1 DEF Makes
  <2>2. CASE st.obj \in schema /\ st.op \in {"table", "index"}
    BY <1>2, <2>1, <2>2
  <2>3. CASE ~(st.obj \in schema /\ st.op \in {"table", "index"})
    BY <1>1, <2>3 DEF Apply
  <2>. QED BY <2>2, <2>3
<1>. QED BY <1>2, <1>3 DEF st

(* What has been done stays done while the file keeps what queries need.   *)
LEMMA DoneStays ==
  ASSUME NEW i, NEW k, DoneBefore(i, k), schema \cap Queried \subseteq schema'
  PROVE  DoneBefore(i, k)'
  BY DEF DoneBefore

(* Moving on past the last statement.                                      *)
LEMMA NextMigration ==
  ASSUME NEW i \in 1..Latest, DoneBefore(i, Len(Upgrades[i]) + 1)
  PROVE  DoneBefore(i + 1, 1)
<1>0. i \in 1..8 /\ Latest = 8
  BY LatestIsEight
<1>1. ASSUME NEW j \in 1..Latest, j < i + 1, NEW st \in Statements(j)
      PROVE  Makes(st) \cap Queried \subseteq schema
  <2>1. CASE j < i
    BY <1>1, <2>1 DEF DoneBefore
  <2>2. CASE j = i
    <3>1. PICK k \in DOMAIN Upgrades[i] : st = Upgrades[i][k]
      BY <1>1, <2>2 DEF Statements
    <3>2. DOMAIN Upgrades[i] = 1..Len(Upgrades[i]) /\ Len(Upgrades[i]) \in Nat
      BY <1>0, TableFacts
    <3>3. k < Len(Upgrades[i]) + 1
      BY <3>1, <3>2
    <3>. QED BY <1>0, <3>1, <3>3 DEF DoneBefore
  <2>. QED BY <1>0, <1>1, <2>1, <2>2
<1>2. i + 1 <= Latest => \A l \in DOMAIN Upgrades[i + 1] : ~(l < 1)
  <2>. SUFFICES ASSUME i + 1 <= Latest, NEW l \in DOMAIN Upgrades[i + 1] PROVE ~(l < 1)
    OBVIOUS
  <2>1. i + 1 \in 1..8
    BY <1>0
  <2>2. DOMAIN Upgrades[i + 1] = 1..Len(Upgrades[i + 1]) /\ Len(Upgrades[i + 1]) \in Nat
    BY <2>1, TableFacts
  <2>. QED BY <2>2
<1>. QED BY <1>1, <1>2 DEF DoneBefore

-----------------------------------------------------------------------------
(* The files an older release leaves satisfy the invariant.                *)
LEMMA InitSafe == Init => SafeInv
<1>. SUFFICES ASSUME Init PROVE SafeInv
  OBVIOUS
<1>1. version \in 0..8
  BY StartVersionsAssumption DEF Init
<1>2. \A j \in 1..8 : \A st \in Statements(j) : Unmakes(st) \cap Queried = {}
  BY StatementFacts DEF Statements
<1>3. \A j \in 1..8 : j < version + 1 =>
        \A st \in Statements(j) : Makes(st) \cap Queried \subseteq schema
  <2>. SUFFICES ASSUME NEW j \in 1..8, j < version + 1, NEW st \in Statements(j),
                       NEW o \in Makes(st) \cap Queried
                PROVE  o \in SchemaAt(version)
    BY DEF Init
  <2>1. j \in 1..version /\ 1..version \subseteq 1..8
    BY <1>1
  <2>2. o \in UNION {UNION {Makes(x) : x \in Statements(i)} : i \in 1..version}
    BY <2>1
  <2>3. o \notin UNION {UNION {Unmakes(x) : x \in Statements(i)} : i \in 1..version}
    BY <1>2, <2>1
  <2>. QED BY <2>2, <2>3 DEF SchemaAt
<1>4. VersionSound
  <2>1. version + 1 <= 8 => \A l \in DOMAIN Upgrades[version + 1] : ~(l < 1)
    BY <1>1, TableFacts, SMTT(30)
  <2>. QED BY <1>1, <1>3, <2>1, LatestIsEight DEF VersionSound, DoneBefore
<1>5. version >= Split => RowConverted
  BY <1>1 DEF Init, RowConverted, Split, NoRow
<1>. QED BY <1>1, <1>4, <1>5, LatestIsEight
     DEF Init, SafeInv, Positions, Followed, RowFollowed, ServingHasSchema, RowsConverted

LEMMA OpenSafe ==
  ASSUME SafeInv, NEW s \in Servers, Open(s)
  PROVE  SafeInv'
<1>. USE DEF SafeInv, Open, dbVars
<1>1. VersionSound'
  BY DEF VersionSound, DoneBefore
<1>2. Positions'
  BY LatestIsEight DEF Positions
<1>3. Followed'
  BY DEF Followed, VersionSound, DoneBefore, Positions
<1>4. RowFollowed'
  <2>1. ASSUME NEW r \in Servers, phase'[r] = "migrating", at'[r][1] > Split
        PROVE  RowConverted'
    BY <2>1 DEF RowFollowed, RowConverted, Positions, Split
  <2>. QED BY <2>1 DEF RowFollowed, RowConverted
<1>5. ServingHasSchema' /\ RowsConverted'
  BY DEF ServingHasSchema, RowsConverted, RowConverted, Positions
<1>. QED BY <1>1, <1>2, <1>3, <1>4, <1>5

(* The statement that gives the rows their default runs before any         *)
(* migration has converted them: afterwards the column is there and ALTER  *)
(* TABLE fails.                                                            *)
LEMMA ConvertedStays ==
  ASSUME SafeInv, NEW i \in 1..8, NEW k \in DOMAIN Upgrades[i],
         ~Fails(Upgrades[i][k]), Upgrades[i][k] = Add("runtime_state")
  PROVE  "runtime_state" \notin schema
  BY DEF Fails, Add

LEMMA ColumnBeforeRows ==
  ASSUME NEW i, NEW k, DoneBefore(i, k), i \in 4..9
  PROVE  "runtime_state" \in schema
<1>1. \A st \in Statements(3) : Makes(st) \cap Queried \subseteq schema
  BY LatestIsEight DEF DoneBefore
<1>2. 1 \in DOMAIN Upgrades[3] /\ Upgrades[3][1] = Add("runtime_state")
  BY DEF Upgrades, V001, V002, V003, V004, V005, V006, V007, V008
<1>3. "runtime_state" \in Makes(Add("runtime_state")) \cap Queried
  BY DEF Makes, Add, Queried
<1>. QED BY <1>1, <1>2, <1>3 DEF Statements

LEMMA ExecuteSafe ==
  ASSUME SafeInv, NEW s \in Servers, Execute(s)
  PROVE  SafeInv'
<1>. PICK i, k : at[s] = <<i, k>>
  BY DEF SafeInv, Positions, Execute
<1>1. /\ i \in 1..8 /\ k \in Nat \ {0} /\ k <= Len(Upgrades[i])
      /\ phase[s] = "migrating"
  BY LatestIsEight DEF SafeInv, Positions, Execute
<1>2. k \in DOMAIN Upgrades[i]
  BY <1>1, TableFacts
<1>3. CASE Fails(Upgrades[i][k])
  <2>1. UNCHANGED <<schema, version, row, at>> /\ phase' = [phase EXCEPT ![s] = "failed"]
    BY <1>3 DEF Execute, dbVars
  <2>. QED BY <2>1 DEF SafeInv, Positions, VersionSound, Followed, RowFollowed,
                       ServingHasSchema, RowsConverted, RowConverted, DoneBefore
<1>4. CASE ~Fails(Upgrades[i][k])
  <2>. DEFINE st == Upgrades[i][k]
  <2>1. /\ schema' = Apply(st)
        /\ row' = IF st = Add("runtime_state") THEN Defaulted(row) ELSE row
        /\ at' = [at EXCEPT ![s] = <<i, k + 1>>]
        /\ UNCHANGED <<version, phase>>
    BY <1>4 DEF Execute
  <2>2. schema \cap Queried \subseteq schema' /\ Makes(st) \cap Queried \subseteq schema'
    BY <1>1, <1>2, <2>1, ApplyFacts
  <2>3. Positions'
    BY <1>1, <2>1, LatestIsEight DEF SafeInv, Positions
  <2>4. VersionSound'
    BY <2>1, <2>2, DoneStays DEF SafeInv, VersionSound
  <2>5. Followed'
    <3>. SUFFICES ASSUME NEW r \in Servers, phase[r] = "migrating"
                  PROVE  DoneBefore(at[r][1], at[r][2])'
      BY <2>1 DEF Followed
    <3>. PICK j, l : at[r] = <<j, l>>
      BY DEF SafeInv, Positions
    <3>1. DoneBefore(j, l)'
      BY <2>2, DoneStays DEF SafeInv, Followed
    <3>2. CASE r # s
      <4>1. at'[r] = <<j, l>>
        BY <2>1, <3>2 DEF SafeInv, Positions
      <4>. QED BY <3>1, <4>1 DEF DoneBefore
    <3>3. CASE r = s
      <4>1. at'[r] = <<i, k + 1>>
        BY <2>1, <3>3 DEF SafeInv, Positions
      <4>2. DoneBefore(i, k)'
        BY <3>1, <3>3
      <4>3. ASSUME NEW m \in DOMAIN Upgrades[i], m < k + 1
            PROVE  Makes(Upgrades[i][m]) \cap Queried \subseteq schema'
        <5>1. DOMAIN Upgrades[i] = 1..Len(Upgrades[i]) /\ Len(Upgrades[i]) \in Nat
          BY <1>1, TableFacts
        <5>2. m < k \/ m = k
          BY <1>1, <4>3, <5>1
        <5>3. CASE m < k
          BY <1>1, <4>2, <5>3, LatestIsEight DEF DoneBefore
        <5>. QED BY <2>2, <5>2, <5>3
      <4>. QED BY <4>1, <4>2, <4>3 DEF DoneBefore
    <3>. QED BY <3>2, <3>3
  <2>6. RowFollowed' /\ RowsConverted'
    <3>1. CASE st # Add("runtime_state")
      BY <1>1, <2>1, <3>1 DEF SafeInv, RowFollowed, RowsConverted, RowConverted, Positions
    <3>2. CASE st = Add("runtime_state")
      <4>1. "runtime_state" \notin schema
        BY <1>1, <1>2, <1>4, <3>2, ConvertedStays
      <4>2. ~(version >= Split)
        BY <4>1, ColumnBeforeRows, LatestIsEight
        DEF SafeInv, VersionSound, Positions, Split
      <4>3. ASSUME NEW r \in Servers, phase[r] = "migrating" PROVE ~(at[r][1] > Split)
        BY <4>1, <4>3, ColumnBeforeRows, LatestIsEight DEF SafeInv, Followed, Positions, Split
      <4>4. \A r \in Servers : phase[r] # "serving"
        BY <4>1 DEF SafeInv, ServingHasSchema, Queried
      <4>5. ASSUME NEW r \in Servers, phase'[r] = "migrating" PROVE ~(at'[r][1] > Split)
        BY <1>1, <2>1, <4>3, <4>5 DEF SafeInv, Positions
      <4>. QED BY <2>1, <4>2, <4>4, <4>5 DEF RowFollowed, RowsConverted
    <3>. QED BY <3>1, <3>2
  <2>7. ServingHasSchema'
    BY <2>1, <2>2 DEF SafeInv, ServingHasSchema
  <2>. QED BY <2>3, <2>4, <2>5, <2>6, <2>7 DEF SafeInv
<1>. QED BY <1>3, <1>4

LEMMA CommitSafe ==
  ASSUME SafeInv, NEW s \in Servers, Commit(s)
  PROVE  SafeInv'
<1>. PICK i, k : at[s] = <<i, k>>
  BY DEF SafeInv, Positions, Commit
<1>1. /\ i \in 1..8 /\ i \in 1..Latest /\ phase[s] = "migrating"
      /\ k = Len(Upgrades[i]) + 1
  BY LatestIsEight DEF SafeInv, Positions, Commit
<1>2. /\ version' = i /\ at' = [at EXCEPT ![s] = <<i + 1, 1>>]
      /\ row' = IF i = Split THEN Converted(row) ELSE row
      /\ UNCHANGED <<schema, phase>>
  BY DEF Commit
<1>3. DoneBefore(i + 1, 1)
  BY <1>1, NextMigration DEF SafeInv, Followed
<1>4. Positions'
  BY <1>1, <1>2, LatestIsEight DEF SafeInv, Positions
<1>5. VersionSound'
  BY <1>2, <1>3 DEF VersionSound, DoneBefore
<1>6. Followed'
  <2>. SUFFICES ASSUME NEW r \in Servers, phase[r] = "migrating"
                PROVE  DoneBefore(at[r][1], at[r][2])'
    BY <1>2 DEF Followed
  <2>1. CASE r = s
    <3>1. at'[r] = <<i + 1, 1>>
      BY <1>2, <2>1 DEF SafeInv, Positions
    <3>. QED BY <1>2, <1>3, <3>1 DEF DoneBefore
  <2>2. CASE r # s
    <3>1. at'[r] = at[r]
      BY <1>2, <2>2 DEF SafeInv, Positions
    <3>. QED BY <1>2, <3>1 DEF SafeInv, Followed, DoneBefore
  <2>. QED BY <2>1, <2>2
<1>7. RowConverted => RowConverted'
  BY <1>2 DEF RowConverted, Converted
<1>8. i >= Split => RowConverted'
  <2>1. CASE i = Split
    BY <1>2, <2>1 DEF RowConverted, Converted
  <2>2. CASE i > Split
    BY <1>1, <1>7, <2>2 DEF SafeInv, RowFollowed
  <2>. QED BY <1>1, <2>1, <2>2 DEF Split
<1>9. RowFollowed'
  <2>1. ASSUME NEW r \in Servers, phase'[r] = "migrating", at'[r][1] > Split
        PROVE  RowConverted'
    <3>1. CASE r = s
      BY <1>1, <1>2, <1>8, <2>1, <3>1 DEF SafeInv, Positions, Split
    <3>2. CASE r # s
      BY <1>2, <1>7, <2>1, <3>2 DEF SafeInv, Positions, RowFollowed
    <3>. QED BY <3>1, <3>2
  <2>. QED BY <1>2, <1>8, <2>1 DEF RowFollowed
<1>10. ServingHasSchema' /\ RowsConverted'
  BY <1>2, <1>7 DEF SafeInv, ServingHasSchema, RowsConverted
<1>. QED BY <1>4, <1>5, <1>6, <1>9, <1>10 DEF SafeInv

LEMMA ServeSafe ==
  ASSUME SafeInv, NEW s \in Servers, Serve(s)
  PROVE  SafeInv'
<1>1. /\ phase' = [phase EXCEPT ![s] = "serving"] /\ UNCHANGED <<schema, version, row, at>>
      /\ phase[s] = "migrating" /\ at[s][1] = Latest + 1 /\ Latest = 8
  BY LatestIsEight DEF Serve, dbVars, SafeInv, Positions
<1>2. \A j \in 1..Latest : \A st \in Statements(j) : Makes(st) \cap Queried \subseteq schema
  BY <1>1 DEF SafeInv, Followed, DoneBefore
<1>3. DoneBefore(Latest + 1, 1)
  BY <1>1, <1>2 DEF DoneBefore
<1>4. Queried \subseteq schema
  BY <1>3, AllProvided
<1>5. RowConverted
  BY <1>1 DEF SafeInv, RowFollowed, Split
<1>. QED BY <1>1, <1>4, <1>5 DEF SafeInv, Positions, VersionSound, Followed, RowFollowed,
            ServingHasSchema, RowsConverted, RowConverted, DoneBefore

LEMMA DieSafe ==
  ASSUME SafeInv, NEW s \in Servers, Die(s)
  PROVE  SafeInv'
  BY DEF Die, dbVars, SafeInv, Positions, VersionSound, Followed, RowFollowed,
         ServingHasSchema, RowsConverted, RowConverted, DoneBefore

LEMMA StutterSafe ==
  ASSUME SafeInv, UNCHANGED vars
  PROVE  SafeInv'
  BY DEF vars, dbVars, SafeInv, Positions, VersionSound, Followed, RowFollowed,
         ServingHasSchema, RowsConverted, RowConverted, DoneBefore

LEMMA NextSafe ==
  ASSUME SafeInv, [Next]_vars
  PROVE  SafeInv'
<1>1. CASE UNCHANGED vars
  BY <1>1, StutterSafe
<1>2. ASSUME NEW s \in Servers, RunMigrations(s) \/ Die(s) PROVE SafeInv'
  BY <1>2, OpenSafe, ExecuteSafe, CommitSafe, ServeSafe, DieSafe DEF RunMigrations
<1>. QED BY <1>1, <1>2 DEF Next

-----------------------------------------------------------------------------
(* The recorded version never promises a table or column that is missing,  *)
(* for any number of racing, dying, late servers.                          *)
THEOREM VersionIsSound == Spec => []VersionSound
<1>1. SafeInv => VersionSound
  BY DEF SafeInv
<1>. QED BY <1>1, InitSafe, NextSafe, PTL DEF Spec

(* A server that answers requests never meets a missing table or column.   *)
THEOREM ServersHaveSchema == Spec => []ServingHasSchema
<1>1. SafeInv => ServingHasSchema
  BY DEF SafeInv
<1>. QED BY <1>1, InitSafe, NextSafe, PTL DEF Spec

(* A server that answers requests reads converted rows.                    *)
THEOREM RowsAreConverted == Spec => []RowsConverted
<1>1. SafeInv => RowsConverted
  BY DEF SafeInv
<1>. QED BY <1>1, InitSafe, NextSafe, PTL DEF Spec

-----------------------------------------------------------------------------
(* A start that nobody disturbs: the file holds exactly what the           *)
(* statements before the server's position made and did not take back.     *)

Objects == UNION {UNION {Makes(st) : st \in Statements(j)} : j \in 1..Latest}

Earlier(j, l, i, k) == j < i \/ (j = i /\ l < k)

MadeBefore(o, i, k) ==
  \E j \in 1..8 : \E l \in DOMAIN Upgrades[j] :
     Earlier(j, l, i, k) /\ o \in Makes(Upgrades[j][l])

UnmadeBefore(o, i, k) ==
  \E j \in 1..8 : \E l \in DOMAIN Upgrades[j] :
     Earlier(j, l, i, k) /\ o \in Unmakes(Upgrades[j][l])

Expected(i, k) == {o \in Objects : MadeBefore(o, i, k) /\ ~UnmadeBefore(o, i, k)}

OneServer ==
  /\ \A s \in Servers : phase[s] # "failed"
  /\ \A s, r \in Servers : phase[s] = "migrating" /\ phase[r] = "migrating" => s = r

OnItsWay == \A s \in Servers : phase[s] = "migrating" =>
  /\ at[s][1] = version + 1
  /\ at[s][2] <= IF at[s][1] <= Latest THEN Len(Upgrades[at[s][1]]) + 1 ELSE 1
  /\ schema = Expected(at[s][1], at[s][2])

AtRest == Migrating = {} => schema = Expected(version + 1, 1)

AloneInv == disturbed \/ (OneServer /\ OnItsWay /\ AtRest)

(* The number of each statement, over all migrations, and the numbers of   *)
(* the statements that make and that drop each object.                     *)
Start == <<0, 4, 5, 7, 9, 10, 14, 17, 18>>

Born ==
  [o \in {"workspaces", "status", "pr_url", "pr_number", "ci_status", "idx_status",
          "conversations", "events", "idx_events_type", "runtime_state", "workflow_state",
          "agent_session_id", "projects", "project_id", "idx_project",
          "workspace_settings_json"} |->
     CASE o \in {"workspaces", "status", "pr_url", "pr_number", "ci_status"} -> 1
       [] o = "idx_status" -> 2
       [] o = "conversations" -> 3
       [] o = "events" -> 4
       [] o = "idx_events_type" -> 5
       [] o = "runtime_state" -> 6
       [] o = "workflow_state" -> 7
       [] o = "agent_session_id" -> 10
       [] o = "projects" -> 15
       [] o = "project_id" -> 16
       [] o = "idx_project" -> 17
       [] OTHER -> 18]

Gone ==
  [o \in {"idx_status", "status", "workflow_state", "pr_url", "pr_number", "ci_status"} |->
     CASE o = "idx_status" -> 8
       [] o = "status" -> 9
       [] o = "workflow_state" -> 11
       [] o = "pr_url" -> 12
       [] o = "pr_number" -> 13
       [] OTHER -> 14]

LEMMA Numbering ==
  ASSUME NEW i \in 1..8, NEW k \in DOMAIN Upgrades[i]
  PROVE  /\ k \in 1..4
         /\ \A o \in Makes(Upgrades[i][k]) : Born[o] = Start[i] + k
         /\ \A o \in Unmakes(Upgrades[i][k]) : o \in DOMAIN Gone /\ Gone[o] = Start[i] + k
<1>. USE DEF Upgrades, V001, V002, V003, V004, V005, V006, V007, V008, Start
<1>1. i = 1 \/ i = 2 \/ i = 3 \/ i = 4 \/ i = 5 \/ i = 6 \/ i = 7 \/ i = 8
  OBVIOUS
<1>2. k \in 1..4
  BY <1>1, TableFacts
<1>3. \A o \in Makes(Upgrades[i][k]) : Born[o] = Start[i] + k
  BY <1>1, <1>2 DEF Table, Index, Add, Drop, DropIndex, Makes, Born
<1>4. \A o \in Unmakes(Upgrades[i][k]) : o \in DOMAIN Gone /\ Gone[o] = Start[i] + k
  BY <1>1, <1>2 DEF Table, Index, Add, Drop, DropIndex, Unmakes, Gone
<1>. QED BY <1>2, <1>3, <1>4

LEMMA Lengths ==
  ASSUME NEW j \in 1..8
  PROVE  Start[j] + Len(Upgrades[j]) = Start[j + 1]
<1>1. CASE j = 1
  BY <1>1 DEF V001, Upgrades, Start
<1>2. CASE j = 2
  BY <1>2 DEF V002, Upgrades, Start
<1>3. CASE j = 3
  BY <1>3 DEF V003, Upgrades, Start
<1>4. CASE j = 4
  BY <1>4 DEF V004, Upgrades, Start
<1>5. CASE j = 5
  BY <1>5 DEF V005, Upgrades, Start
<1>6. CASE j = 6
  BY <1>6 DEF V006, Upgrades, Start
<1>7. CASE j = 7
  BY <1>7 DEF V007, Upgrades, Start
<1>8. CASE j = 8
  BY <1>8 DEF V008, Upgrades, Start
<1>. QED BY <1>1, <1>2, <1>3, <1>4, <1>5, <1>6, <1>7, <1>8

LEMMA EarlierNumbers ==
  ASSUME NEW i \in 1..8, NEW k \in DOMAIN Upgrades[i],
         NEW j \in 1..8, NEW l \in DOMAIN Upgrades[j], Earlier(j, l, i, k)
  PROVE  Start[j] + l < Start[i] + k
<1>1. i = 1 \/ i = 2 \/ i = 3 \/ i = 4 \/ i = 5 \/ i = 6 \/ i = 7 \/ i = 8
  OBVIOUS
<1>2. j = 1 \/ j = 2 \/ j = 3 \/ j = 4 \/ j = 5 \/ j = 6 \/ j = 7 \/ j = 8
  OBVIOUS
<1>3. k \in 1..4 /\ l \in 1..4
  BY Numbering
<1>4. l <= Len(Upgrades[j])
  BY TableFacts
<1>5. Start[j] + Len(Upgrades[j]) = Start[j + 1]
  BY Lengths
<1>6. CASE j = i /\ l < k
  BY <1>1, <1>3, <1>6 DEF Start
<1>7. CASE j < i
  <2>1. Start[j + 1] <= Start[i]
    BY <1>1, <1>2, <1>7 DEF Start
  <2>2. Start[i] \in Nat /\ Start[j] \in Nat /\ Start[j + 1] \in Nat
    BY <1>1, <1>2, <1>7 DEF Start
  <2>3. Len(Upgrades[j]) \in Nat
    BY TableFacts
  <2>. QED BY <1>3, <1>4, <1>5, <2>1, <2>2, <2>3, SMTT(30)
<1>. QED BY <1>6, <1>7 DEF Earlier

(* No object is made twice, or made after it was dropped, or dropped twice. *)
LEMMA FreshObjects ==
  ASSUME NEW i \in 1..8, NEW k \in DOMAIN Upgrades[i], NEW o \in Makes(Upgrades[i][k])
  PROVE  ~MadeBefore(o, i, k) /\ ~UnmadeBefore(o, i, k)
<1>1. ASSUME MadeBefore(o, i, k) PROVE FALSE
  <2>1. PICK j \in 1..8 : \E l \in DOMAIN Upgrades[j] :
               Earlier(j, l, i, k) /\ o \in Makes(Upgrades[j][l])
    BY <1>1 DEF MadeBefore
  <2>2. PICK l \in DOMAIN Upgrades[j] : Earlier(j, l, i, k) /\ o \in Makes(Upgrades[j][l])
    BY <2>1
  <2>3. Start[j] + l < Start[i] + k /\ Start[j] + l = Start[i] + k
    BY <2>2, Numbering, EarlierNumbers
  <2>4. Start[i] + k \in Nat
    BY Numbering DEF Start
  <2>. QED BY <2>3, <2>4
<1>2. ASSUME UnmadeBefore(o, i, k) PROVE FALSE
  <2>1. PICK j \in 1..8 : \E l \in DOMAIN Upgrades[j] :
               Earlier(j, l, i, k) /\ o \in Unmakes(Upgrades[j][l])
    BY <1>2 DEF UnmadeBefore
  <2>2. PICK l \in DOMAIN Upgrades[j] : Earlier(j, l, i, k) /\ o \in Unmakes(Upgrades[j][l])
    BY <2>1
  <2>3. Gone[o] < Born[o]
    BY <2>2, Numbering, EarlierNumbers
  <2>4. o \in DOMAIN Gone
    BY <2>2, Numbering
  <2>5. Born[o] < Gone[o] /\ Born[o] \in Nat /\ Gone[o] \in Nat
    BY <2>4 DEF Born, Gone
  <2>. QED BY <2>3, <2>5
<1>. QED BY <1>1, <1>2

(* A column is dropped after it was added, and not before; the index that  *)
(* reads status goes first.                                                *)
LEMMA DropsInOrder ==
  ASSUME NEW i \in 1..8, NEW k \in DOMAIN Upgrades[i], Upgrades[i][k].op = "drop"
  PROVE  /\ MadeBefore(Upgrades[i][k].obj, i, k)
         /\ ~UnmadeBefore(Upgrades[i][k].obj, i, k)
         /\ Upgrades[i][k].obj = "status" => UnmadeBefore("idx_status", i, k)
<1>. USE DEF Upgrades, V001, V002, V003, V004, V005, V006, V007, V008
<1>0. /\ i = 1 \/ i = 2 \/ i = 3 \/ i = 4 \/ i = 5 \/ i = 6 \/ i = 7 \/ i = 8
      /\ k \in 1..4
  BY Numbering
<1>1. \/ i = 4 /\ k = 2 /\ Upgrades[i][k].obj = "status"
      \/ i = 6 /\ k = 1 /\ Upgrades[i][k].obj = "workflow_state"
      \/ i = 6 /\ k = 2 /\ Upgrades[i][k].obj = "pr_url"
      \/ i = 6 /\ k = 3 /\ Upgrades[i][k].obj = "pr_number"
      \/ i = 6 /\ k = 4 /\ Upgrades[i][k].obj = "ci_status"
  BY <1>0 DEF Table, Index, Add, Drop, DropIndex
<1>2. /\ 1 \in DOMAIN Upgrades[1] /\ 2 \in DOMAIN Upgrades[3] /\ 1 \in DOMAIN Upgrades[4]
      /\ {"status", "pr_url", "pr_number", "ci_status"} \subseteq Makes(Upgrades[1][1])
      /\ "workflow_state" \in Makes(Upgrades[3][2])
      /\ "idx_status" \in Unmakes(Upgrades[4][1])
  BY DEF Table, Add, DropIndex, Makes, Unmakes
<1>3. MadeBefore(Upgrades[i][k].obj, i, k)
  <2>1. CASE i = 6 /\ k = 1 /\ Upgrades[i][k].obj = "workflow_state"
    BY ONLY <1>2, <2>1 DEF MadeBefore, Earlier
  <2>2. CASE i \in {4, 6} /\ Upgrades[i][k].obj \in {"status", "pr_url", "pr_number", "ci_status"}
    BY ONLY <1>2, <2>2 DEF MadeBefore, Earlier
  <2>. QED BY <1>1, <2>1, <2>2
<1>4. Upgrades[i][k].obj = "status" => UnmadeBefore("idx_status", i, k)
  <2>1. CASE i = 4 /\ k = 2
    BY ONLY <1>2, <2>1 DEF UnmadeBefore, Earlier
  <2>. QED BY <1>1, <2>1
<1>5. ~UnmadeBefore(Upgrades[i][k].obj, i, k)
  <2>. SUFFICES ASSUME UnmadeBefore(Upgrades[i][k].obj, i, k) PROVE FALSE
    OBVIOUS
  <2>0. PICK j \in 1..8 : \E l \in DOMAIN Upgrades[j] :
           Earlier(j, l, i, k) /\ Upgrades[i][k].obj \in Unmakes(Upgrades[j][l])
    BY ONLY UnmadeBefore(Upgrades[i][k].obj, i, k) DEF UnmadeBefore
  <2>1. PICK l \in DOMAIN Upgrades[j] :
           Earlier(j, l, i, k) /\ Upgrades[i][k].obj \in Unmakes(Upgrades[j][l])
    BY ONLY <2>0
  <2>2. Upgrades[i][k].obj \in Unmakes(Upgrades[i][k])
    BY ONLY Upgrades[i][k].op = "drop" DEF Unmakes
  <2>3. Start[j] + l < Start[i] + k /\ Start[j] + l = Start[i] + k
    BY ONLY <2>1, <2>2, Numbering, EarlierNumbers, i \in 1..8, k \in DOMAIN Upgrades[i]
  <2>4. Start[i] + k \in Nat
    BY <1>0 DEF Start
  <2>. QED BY <2>3, <2>4
<1>. QED BY ONLY <1>3, <1>4, <1>5

(* An index is created on a column that is there.                          *)
LEMMA IndexesInOrder ==
  ASSUME NEW i \in 1..8, NEW k \in DOMAIN Upgrades[i], Upgrades[i][k].op = "index"
  PROVE  MadeBefore(Upgrades[i][k].on, i, k) /\ ~UnmadeBefore(Upgrades[i][k].on, i, k)
<1>. USE DEF Upgrades, V001, V002, V003, V004, V005, V006, V007, V008
<1>0. /\ i = 1 \/ i = 2 \/ i = 3 \/ i = 4 \/ i = 5 \/ i = 6 \/ i = 7 \/ i = 8
      /\ k \in 1..4
  BY Numbering
<1>1. \/ i = 1 /\ k = 2 /\ Upgrades[i][k].on = "status"
      \/ i = 2 /\ k = 1 /\ Upgrades[i][k].on = "events"
      \/ i = 7 /\ k = 3 /\ Upgrades[i][k].on = "project_id"
  BY <1>0 DEF Table, Index, Add, Drop, DropIndex
<1>2. /\ 1 \in DOMAIN Upgrades[1] /\ 4 \in DOMAIN Upgrades[1] /\ 2 \in DOMAIN Upgrades[7]
      /\ "status" \in Makes(Upgrades[1][1]) /\ "events" \in Makes(Upgrades[1][4])
      /\ "project_id" \in Makes(Upgrades[7][2])
  BY DEF Table, Add, Makes
<1>3. MadeBefore(Upgrades[i][k].on, i, k)
  <2>1. CASE i = 1 /\ k = 2 /\ Upgrades[i][k].on = "status"
    BY ONLY <1>2, <2>1 DEF MadeBefore, Earlier
  <2>2. CASE i = 2 /\ k = 1 /\ Upgrades[i][k].on = "events"
    BY ONLY <1>2, <2>2 DEF MadeBefore, Earlier
  <2>3. CASE i = 7 /\ k = 3 /\ Upgrades[i][k].on = "project_id"
    BY ONLY <1>2, <2>3 DEF MadeBefore, Earlier
  <2>. QED BY <1>1, <2>1, <2>2, <2>3
<1>4. ~UnmadeBefore(Upgrades[i][k].on, i, k)
  <2>. SUFFICES ASSUME UnmadeBefore(Upgrades[i][k].on, i, k) PROVE FALSE
    OBVIOUS
  <2>0. PICK j \in 1..8 : \E l \in DOMAIN Upgrades[j] :
           Earlier(j, l, i, k) /\ Upgrades[i][k].on \in Unmakes(Upgrades[j][l])
    BY ONLY UnmadeBefore(Upgrades[i][k].on, i, k) DEF UnmadeBefore
  <2>1. PICK l \in DOMAIN Upgrades[j] :
           Earlier(j, l, i, k) /\ Upgrades[i][k].on \in Unmakes(Upgrades[j][l])
    BY ONLY <2>0
  <2>2. /\ Start[j] + l < Start[i] + k
        /\ Upgrades[i][k].on \in DOMAIN Gone /\ Gone[Upgrades[i][k].on] = Start[j] + l
    BY ONLY <2>1, Numbering, EarlierNumbers, i \in 1..8, k \in DOMAIN Upgrades[i]
  <2>3. i = 1 /\ k = 2 /\ Upgrades[i][k].on = "status"
    BY ONLY <1>1, <2>2 DEF Gone
  <2>. QED BY ONLY <2>2, <2>3 DEF Gone, Start
<1>. QED BY ONLY <1>3, <1>4

(* The statements before the next position.                                *)
LEMMA NextStatement ==
  ASSUME NEW i \in 1..8, NEW k \in DOMAIN Upgrades[i], NEW o
  PROVE  /\ MadeBefore(o, i, k + 1) <=> (MadeBefore(o, i, k) \/ o \in Makes(Upgrades[i][k]))
         /\ UnmadeBefore(o, i, k + 1) <=> (UnmadeBefore(o, i, k) \/ o \in Unmakes(Upgrades[i][k]))
<1>1. ASSUME NEW j \in 1..8, NEW l \in DOMAIN Upgrades[j]
      PROVE  Earlier(j, l, i, k + 1) <=> (Earlier(j, l, i, k) \/ (j = i /\ l = k))
  <2>1. k \in 1..4 /\ l \in 1..4
    BY Numbering
  <2>. QED BY <2>1 DEF Earlier
<1>2. MadeBefore(o, i, k + 1) <=> (MadeBefore(o, i, k) \/ o \in Makes(Upgrades[i][k]))
  BY <1>1 DEF MadeBefore
<1>3. UnmadeBefore(o, i, k + 1) <=> (UnmadeBefore(o, i, k) \/ o \in Unmakes(Upgrades[i][k]))
  BY <1>1 DEF UnmadeBefore
<1>. QED BY <1>2, <1>3

(* The end of a migration and the beginning of the next.                   *)
LEMMA NextOne ==
  ASSUME NEW i \in 1..8
  PROVE  Expected(i, Len(Upgrades[i]) + 1) = Expected(i + 1, 1)
<1>1. ASSUME NEW j \in 1..8, NEW l \in DOMAIN Upgrades[j]
      PROVE  Earlier(j, l, i, Len(Upgrades[i]) + 1) <=> Earlier(j, l, i + 1, 1)
  <2>1. PICK n \in Nat : n = Len(Upgrades[i])
    BY TableFacts
  <2>2. l \in 1..4 /\ (j = i => l <= n)
    <3>1. l \in 1..4
      BY Numbering
    <3>2. DOMAIN Upgrades[i] = 1..n
      BY <2>1, TableFacts
    <3>3. j = i => l \in 1..n
      BY <3>2
    <3>. QED BY <2>1, <3>1, <3>3
  <2>3. j < i + 1 <=> j < i \/ j = i
    OBVIOUS
  <2>4. (j = i /\ l < n + 1) <=> j = i
    BY <2>2
  <2>. QED BY <2>1, <2>2, <2>3, <2>4 DEF Earlier
<1>. QED BY <1>1 DEF Expected, MadeBefore, UnmadeBefore

LEMMA SchemaExpected ==
  ASSUME NEW v \in 0..8
  PROVE  SchemaAt(v) = Expected(v + 1, 1)
<1>1. ASSUME NEW j \in 1..8, NEW l \in DOMAIN Upgrades[j]
      PROVE  Earlier(j, l, v + 1, 1) <=> j \in 1..v
  <2>1. l \in 1..4
    BY Numbering
  <2>. QED BY <2>1 DEF Earlier
<1>2. \A o : MadeBefore(o, v + 1, 1) <=> o \in UNION {UNION {Makes(st) : st \in Statements(i)} : i \in 1..v}
  <2>1. \A o : MadeBefore(o, v + 1, 1) <=>
               \E j \in 1..v : \E l \in DOMAIN Upgrades[j] : o \in Makes(Upgrades[j][l])
    BY <1>1 DEF MadeBefore
  <2>. QED BY <2>1 DEF Statements
<1>3. \A o : UnmadeBefore(o, v + 1, 1) <=> o \in UNION {UNION {Unmakes(st) : st \in Statements(i)} : i \in 1..v}
  <2>1. \A o : UnmadeBefore(o, v + 1, 1) <=>
               \E j \in 1..v : \E l \in DOMAIN Upgrades[j] : o \in Unmakes(Upgrades[j][l])
    BY <1>1 DEF UnmadeBefore
  <2>. QED BY <2>1 DEF Statements
<1>4. \A o : MadeBefore(o, v + 1, 1) => o \in Objects
  BY LatestIsEight DEF MadeBefore, Objects, Statements
<1>. QED BY <1>2, <1>3, <1>4 DEF SchemaAt, Expected

(* The next statement does not fail, and leaves what is expected then.     *)
LEMMA NextExpected ==
  ASSUME NEW i \in 1..8, NEW k \in DOMAIN Upgrades[i], schema = Expected(i, k)
  PROVE  ~Fails(Upgrades[i][k]) /\ Apply(Upgrades[i][k]) = Expected(i, k + 1)
<1>. DEFINE st == Upgrades[i][k]
<1>1. st.op \in {"table", "index", "add", "drop", "dropindex"}
  <2>1. /\ i = 1 \/ i = 2 \/ i = 3 \/ i = 4 \/ i = 5 \/ i = 6 \/ i = 7 \/ i = 8
        /\ k \in 1..4
    BY Numbering
  <2>. QED BY <2>1 DEF Upgrades, V001, V002, V003, V004, V005, V006, V007, V008,
                       Table, Index, Add, Drop, DropIndex
<1>2. \A o \in Makes(st) : o \in Objects /\ ~MadeBefore(o, i, k) /\ ~UnmadeBefore(o, i, k)
  BY FreshObjects, LatestIsEight DEF Objects, Statements
<1>3. st.op = "drop" => /\ MadeBefore(st.obj, i, k) /\ ~UnmadeBefore(st.obj, i, k)
                        /\ st.obj = "status" => UnmadeBefore("idx_status", i, k)
  BY DropsInOrder
<1>4. st.op = "index" => MadeBefore(st.on, i, k) /\ ~UnmadeBefore(st.on, i, k)
  BY IndexesInOrder
<1>5. \A o : /\ MadeBefore(o, i, k + 1) <=> (MadeBefore(o, i, k) \/ o \in Makes(st))
             /\ UnmadeBefore(o, i, k + 1) <=> (UnmadeBefore(o, i, k) \/ o \in Unmakes(st))
  BY NextStatement
<1>6. \A o : MadeBefore(o, i, k) => o \in Objects
  BY LatestIsEight DEF MadeBefore, Objects, Statements
<1>7. \A o : o \in schema <=> MadeBefore(o, i, k) /\ ~UnmadeBefore(o, i, k)
  BY <1>6 DEF Expected
<1>. HIDE DEF st
<1>8. ~Fails(st)
  BY <1>1, <1>2, <1>3, <1>4, <1>7 DEF Fails, Makes
<1>9. ~(st.obj \in schema /\ st.op \in {"table", "index"})
  BY <1>2, <1>7 DEF Makes
<1>10. Apply(st) = (schema \cup Makes(st)) \ Unmakes(st)
  BY <1>9 DEF Apply
<1>11. \A o \in Makes(st) : o \notin Unmakes(st)
  BY <1>1 DEF Makes, Unmakes
<1>12. \A o : o \in Expected(i, k + 1) <=> MadeBefore(o, i, k + 1) /\ ~UnmadeBefore(o, i, k + 1)
  BY <1>2, <1>5, <1>6 DEF Expected
<1>13. \A o : o \in Apply(st) <=> o \in Expected(i, k + 1)
  BY <1>2, <1>5, <1>7, <1>10, <1>11, <1>12
<1>14. Apply(st) = Expected(i, k + 1)
  BY <1>13
<1>. QED BY <1>8, <1>14 DEF st

-----------------------------------------------------------------------------
LEMMA InitAlone == Init => AloneInv
<1>. SUFFICES ASSUME Init PROVE AloneInv
  OBVIOUS
<1>1. version \in 0..8
  BY StartVersionsAssumption DEF Init
<1>2. schema = Expected(version + 1, 1)
  BY <1>1, SchemaExpected DEF Init
<1>3. \A s \in Servers : phase[s] = "off"
  BY DEF Init
<1>. QED BY <1>2, <1>3 DEF AloneInv, OneServer, OnItsWay, AtRest

LEMMA OpenAlone ==
  ASSUME SafeInv, AloneInv, NEW s \in Servers, Open(s)
  PROVE  AloneInv'
<1>. SUFFICES ASSUME ~disturbed' PROVE AloneInv'
  BY DEF AloneInv
<1>1. ~disturbed /\ Migrating = {}
  BY DEF Open
<1>2. /\ phase' = [phase EXCEPT ![s] = "migrating"]
      /\ at' = [at EXCEPT ![s] = <<version + 1, 1>>]
      /\ UNCHANGED <<schema, version>>
  BY DEF Open, dbVars
<1>3. schema = Expected(version + 1, 1) /\ OneServer
  BY <1>1 DEF AloneInv, AtRest
<1>4. \A r \in Servers : phase'[r] = "migrating" => r = s
  BY <1>1, <1>2 DEF Migrating
<1>5. phase'[s] = "migrating" /\ at'[s] = <<version + 1, 1>> /\ version \in 0..8
  BY <1>2, LatestIsEight DEF SafeInv, Positions
<1>6. OneServer'
  BY <1>2, <1>3, <1>4 DEF OneServer
<1>7. OnItsWay'
  <2>1. 1 <= IF version + 1 <= Latest THEN Len(Upgrades[version + 1]) + 1 ELSE 1
    BY <1>5, LatestIsEight, TableFacts
  <2>2. (schema = Expected(version + 1, 1))'
    BY <1>2, <1>3 DEF Expected
  <2>. QED BY <1>2, <1>4, <1>5, <2>1, <2>2 DEF OnItsWay
<1>8. AtRest'
  BY <1>5 DEF AtRest, Migrating
<1>. QED BY <1>6, <1>7, <1>8 DEF AloneInv

LEMMA ExecuteAlone ==
  ASSUME SafeInv, AloneInv, NEW s \in Servers, Execute(s)
  PROVE  AloneInv'
<1>. SUFFICES ASSUME ~disturbed PROVE AloneInv'
  BY DEF AloneInv, Execute
<1>. PICK i, k : at[s] = <<i, k>>
  BY DEF SafeInv, Positions, Execute
<1>1. /\ i \in 1..8 /\ k \in Nat \ {0} /\ k <= Len(Upgrades[i])
      /\ phase[s] = "migrating"
  BY LatestIsEight DEF SafeInv, Positions, Execute
<1>2. k \in DOMAIN Upgrades[i]
  BY <1>1, TableFacts
<1>3. OneServer /\ i = version + 1 /\ schema = Expected(i, k)
  BY <1>1 DEF AloneInv, OnItsWay
<1>4. ~Fails(Upgrades[i][k]) /\ Apply(Upgrades[i][k]) = Expected(i, k + 1)
  BY <1>1, <1>2, <1>3, NextExpected
<1>5. /\ schema' = Expected(i, k + 1)
      /\ at' = [at EXCEPT ![s] = <<i, k + 1>>]
      /\ UNCHANGED <<version, phase>>
  BY <1>4 DEF Execute
<1>6. OneServer' /\ AtRest'
  BY <1>1, <1>3, <1>5 DEF OneServer, AtRest, Migrating
<1>7. \A r \in Servers : phase[r] = "migrating" => r = s
  BY <1>1, <1>3 DEF OneServer
<1>8. at'[s] = <<i, k + 1>>
  BY <1>5 DEF SafeInv, Positions
<1>9. k + 1 <= IF i <= Latest THEN Len(Upgrades[i]) + 1 ELSE 1
  BY <1>1, LatestIsEight, TableFacts, SMTT(30)
<1>10. OnItsWay'
  BY <1>3, <1>5, <1>7, <1>8, <1>9 DEF OnItsWay
<1>. QED BY <1>6, <1>10 DEF AloneInv

LEMMA CommitAlone ==
  ASSUME SafeInv, AloneInv, NEW s \in Servers, Commit(s)
  PROVE  AloneInv'
<1>. SUFFICES ASSUME ~disturbed PROVE AloneInv'
  BY DEF AloneInv, Commit
<1>. PICK i, k : at[s] = <<i, k>>
  BY DEF SafeInv, Positions, Commit
<1>1. /\ i \in 1..8 /\ k = Len(Upgrades[i]) + 1 /\ phase[s] = "migrating"
  BY LatestIsEight DEF SafeInv, Positions, Commit
<1>2. OneServer /\ schema = Expected(i, k)
  BY <1>1 DEF AloneInv, OnItsWay
<1>3. schema = Expected(i + 1, 1)
  BY <1>1, <1>2, NextOne
<1>4. /\ version' = i /\ at' = [at EXCEPT ![s] = <<i + 1, 1>>]
      /\ UNCHANGED <<schema, phase>>
  BY DEF Commit
<1>5. OneServer' /\ AtRest'
  BY <1>1, <1>2, <1>4 DEF OneServer, AtRest, Migrating
<1>6. \A r \in Servers : phase[r] = "migrating" => r = s
  BY <1>1, <1>2 DEF OneServer
<1>7. at'[s] = <<i + 1, 1>>
  BY <1>4 DEF SafeInv, Positions
<1>8. 1 <= IF i + 1 <= Latest THEN Len(Upgrades[i + 1]) + 1 ELSE 1
  BY <1>1, LatestIsEight, TableFacts
<1>9. OnItsWay'
  BY <1>3, <1>4, <1>6, <1>7, <1>8 DEF OnItsWay
<1>. QED BY <1>5, <1>9 DEF AloneInv

LEMMA ServeAlone ==
  ASSUME SafeInv, AloneInv, NEW s \in Servers, Serve(s)
  PROVE  AloneInv'
<1>. SUFFICES ASSUME ~disturbed PROVE AloneInv'
  BY DEF AloneInv, Serve
<1>1. /\ phase' = [phase EXCEPT ![s] = "serving"] /\ UNCHANGED <<schema, version, at>>
      /\ phase[s] = "migrating" /\ at[s][1] = 9 /\ at[s][2] \in Nat \ {0} /\ Latest = 8
  BY LatestIsEight DEF Serve, dbVars, SafeInv, Positions
<1>2. OneServer /\ OnItsWay
  BY DEF AloneInv
<1>3. at[s][2] = 1 /\ version + 1 = 9 /\ schema = Expected(version + 1, 1)
  BY <1>1, <1>2 DEF OnItsWay
<1>4. OneServer' /\ OnItsWay'
  BY <1>1, <1>2 DEF OneServer, OnItsWay
<1>5. AtRest'
  BY <1>1, <1>3 DEF AtRest, Expected
<1>. QED BY <1>4, <1>5 DEF AloneInv

LEMMA DieAlone ==
  ASSUME SafeInv, AloneInv, NEW s \in Servers, Die(s)
  PROVE  AloneInv'
<1>. SUFFICES ASSUME ~disturbed' PROVE AloneInv'
  BY DEF AloneInv
<1>1. ~disturbed /\ phase[s] # "migrating"
  BY DEF Die
<1>2. phase' = [phase EXCEPT ![s] = "dead"] /\ UNCHANGED <<schema, version, at>>
  BY DEF Die, dbVars
<1>3. OneServer /\ OnItsWay /\ AtRest
  BY <1>1 DEF AloneInv
<1>4. \A r \in Servers : phase'[r] = "migrating" <=> phase[r] = "migrating"
  BY <1>1, <1>2
<1>5. OneServer' /\ OnItsWay'
  BY <1>2, <1>3, <1>4 DEF OneServer, OnItsWay
<1>6. Migrating' = Migrating
  BY <1>4 DEF Migrating
<1>7. AtRest'
  BY <1>2, <1>3, <1>6 DEF AtRest
<1>. QED BY <1>5, <1>7 DEF AloneInv

LEMMA NextAlone ==
  ASSUME SafeInv, AloneInv, [Next]_vars
  PROVE  AloneInv'
<1>1. CASE UNCHANGED vars
  BY <1>1 DEF vars, dbVars, AloneInv, OneServer, OnItsWay, AtRest, Migrating
<1>2. ASSUME NEW s \in Servers, RunMigrations(s) \/ Die(s) PROVE AloneInv'
  BY <1>2, OpenAlone, ExecuteAlone, CommitAlone, ServeAlone, DieAlone DEF RunMigrations
<1>. QED BY <1>1, <1>2 DEF Next

(* From every version an older release left, a start that nobody disturbs  *)
(* succeeds: the statements of v001..v008 are in an order in which none    *)
(* fails on what the earlier ones left, for any number of servers that     *)
(* start one after the other.                                              *)
THEOREM StartsSucceedAlone == Spec => []AloneSucceeds
<1>1. AloneInv => AloneSucceeds
  BY DEF AloneInv, AloneSucceeds, OneServer
<1>. QED BY <1>1, InitSafe, NextSafe, InitAlone, NextAlone, PTL DEF Spec

=============================================================================
