------------------------ MODULE SqliteRunStoreProofs ------------------------
(***************************************************************************)
(* Theorems about SqliteRunStore, for any runs, events, bounds and clock:  *)
(* the rows that failed calls leave are bounded, writes that returned      *)
(* survive, and while time goes forward the rows on disk are RunStore.     *)
(***************************************************************************)
EXTENDS SqliteRunStore, FiniteSetTheorems, SequenceTheorems, TLAPS

----------------------------------------------------------------------------
(* Rows and their ranks. *)

Status == {"running", "completed", "failed"}

Row == [createdAt : Nat, rowid : Nat \ {0}, status : Status, events : Seq(Event)]

\* A table of runs: finitely many rows, told apart by their rowids.
Rows(rows) ==
  /\ DOMAIN rows \subseteq Run
  /\ IsFiniteSet(DOMAIN rows)
  /\ rows \in [DOMAIN rows -> Row]
  /\ \A x, y \in DOMAIN rows : rows[x].rowid = rows[y].rowid => x = y

\* The rows listed before row x.
Newer(rows, x) == {y \in DOMAIN rows : Older(rows, x, y)}

LEMMA RankType ==
  ASSUME NEW rows, Rows(rows), NEW x
  PROVE  Rank(rows, x) \in Nat /\ IsFiniteSet(Newer(rows, x))
         /\ Rank(rows, x) = Cardinality(Newer(rows, x))
<1>1. Newer(rows, x) \subseteq DOMAIN rows /\ IsFiniteSet(DOMAIN rows)
  BY DEF Newer, Rows
<1>2. IsFiniteSet(Newer(rows, x))
  BY <1>1, FS_Subset
<1>. QED BY <1>2, FS_CardinalityType DEF Newer, Rank

\* Rows are listed in a strict order.
LEMMA OlderOrders ==
  ASSUME NEW rows, Rows(rows), NEW x \in DOMAIN rows, NEW y \in DOMAIN rows
  PROVE  /\ x # y => Older(rows, x, y) \/ Older(rows, y, x)
         /\ ~(Older(rows, x, y) /\ Older(rows, y, x))
         /\ ~Older(rows, x, x)
         /\ \A z \in DOMAIN rows : Older(rows, x, y) /\ Older(rows, y, z) => Older(rows, x, z)
<1>1. \A z \in DOMAIN rows : rows[z].createdAt \in Nat /\ rows[z].rowid \in Nat
  BY DEF Rows, Row
<1>. QED BY <1>1 DEF Older, Rows

LEMMA OlderRanks ==
  ASSUME NEW rows, Rows(rows), NEW x \in DOMAIN rows, NEW y \in DOMAIN rows,
         Older(rows, x, y)
  PROVE  Rank(rows, y) < Rank(rows, x)
<1>1. Newer(rows, y) \subseteq Newer(rows, x)
  BY OlderOrders DEF Newer
<1>2. y \in Newer(rows, x) /\ y \notin Newer(rows, y)
  BY OlderOrders DEF Newer
<1>3. IsFiniteSet(Newer(rows, x)) /\ Rank(rows, x) \in Nat /\ Rank(rows, y) \in Nat
      /\ Rank(rows, x) = Cardinality(Newer(rows, x))
      /\ Rank(rows, y) = Cardinality(Newer(rows, y))
  BY RankType
<1>. QED BY <1>1, <1>2, <1>3, FS_Subset

\* No two rows have the same rank.
LEMMA RanksDiffer ==
  ASSUME NEW rows, Rows(rows), NEW x \in DOMAIN rows, NEW y \in DOMAIN rows, x # y
  PROVE  Rank(rows, x) # Rank(rows, y)
<1>1. Rank(rows, x) \in Nat /\ Rank(rows, y) \in Nat
  BY RankType
<1>2. Older(rows, x, y) \/ Older(rows, y, x)
  BY OlderOrders
<1>. QED BY <1>1, <1>2, OlderRanks

\* The DELETE of create leaves max_runs rows at most.
LEMMA EvictedFits ==
  ASSUME NEW rows, Rows(rows)
  PROVE  /\ Rows(Evicted(rows))
         /\ DOMAIN Evicted(rows) = {x \in DOMAIN rows : Rank(rows, x) < MaxRuns}
         /\ \A x \in DOMAIN Evicted(rows) : Evicted(rows)[x] = rows[x]
         /\ Cardinality(DOMAIN Evicted(rows)) <= MaxRuns
<1> DEFINE K == {x \in DOMAIN rows : Rank(rows, x) < MaxRuns}
           new == Evicted(rows)
           f == [x \in K |-> Rank(rows, x)]
<1>1. /\ DOMAIN new = K /\ \A x \in K : new[x] = rows[x]
      /\ new = [x \in K |-> new[x]]
  BY DEF Evicted
<1>2. IsFiniteSet(K)
  BY FS_Subset DEF Rows
<1>3. Rows(new)
  <2>. HIDE DEF K, new
  <2>1. K \subseteq DOMAIN rows
    BY DEF K
  <2>2. \A x \in K : new[x] \in Row
    BY <1>1, <2>1 DEF Rows
  <2>3. new \in [K -> Row]
    BY <1>1, <2>2
  <2>. QED BY <1>1, <1>2, <2>1, <2>3 DEF Rows
<1>4. f \in Injection(K, 0..(MaxRuns - 1))
  <2>1. \A x \in K : f[x] \in 0..(MaxRuns - 1)
    BY RankType, StoreBoundsAssumption
  <2>2. \A x, y \in K : f[x] = f[y] => x = y
    BY RanksDiffer
  <2>. QED BY <2>1, <2>2 DEF Injection, IsInjective
<1>5. IsFiniteSet(0..(MaxRuns - 1)) /\ Cardinality(0..(MaxRuns - 1)) = MaxRuns
  BY StoreBoundsAssumption, FS_Interval
<1>6. Cardinality(K) <= MaxRuns
  BY <1>4, <1>5, FS_Injection
<1>. QED BY <1>1, <1>3, <1>6

\* A finite set of naturals has a largest element.
LEMMA LargestExists ==
  ASSUME NEW S \in SUBSET Nat, IsFiniteSet(S), S # {}
  PROVE  Max(S) \in S /\ \A n \in S : n <= Max(S)
<1> DEFINE Above(n) == {m \in S : m > n}
           T == {Above(n) : n \in S}
           R == StrictSubsetOrdering(S)
<1>1. SUFFICES \E n \in S : \A m \in S : n >= m
  BY DEF Max
<1>2. IsWellFoundedOn(R, SUBSET S)
  BY FS_StrictSubsetOrderingWellFounded, FS_FiniteSubsetsOfFinite
<1>3. T \subseteq SUBSET S /\ T # {}
  OBVIOUS
<1>4. PICK U \in T : \A V \in T : <<V, U>> \notin R
  <2>. HIDE DEF R, T
  <2>. QED BY <1>2, <1>3, WFMin
<1>5. PICK n \in S : U = Above(n)
  OBVIOUS
<1>6. ASSUME NEW m \in S, m > n PROVE FALSE
  <2>1. \A k \in S : k \in Nat
    OBVIOUS
  <2>2. Above(m) \subseteq Above(n) /\ m \in Above(n) /\ m \notin Above(m)
    <3>1. m \in Nat /\ n \in Nat /\ m > n
      BY <1>6, <2>1
    <3>2. \A k \in S : k > m => k > n
      BY <2>1, <3>1
    <3>3. ~(m > m)
      BY <3>1
    <3>. QED BY <3>1, <3>2, <3>3
  <2>3. <<Above(m), Above(n)>> \in R
    BY <2>2 DEF StrictSubsetOrdering
  <2>. QED BY <1>4, <1>5, <2>3
<1>. QED BY <1>6

\* A new row has the largest rowid.
LEMMA RowidsGrow ==
  ASSUME NEW rows, Rows(rows)
  PROVE  NextRowid(rows) \in Nat \ {0} /\ \A x \in DOMAIN rows : rows[x].rowid < NextRowid(rows)
<1> DEFINE ids == {rows[x].rowid : x \in DOMAIN rows}
           S == ids \cup {0}
<1>1. \A x \in DOMAIN rows : rows[x].rowid \in Nat
  BY DEF Rows, Row
<1>2. IsFiniteSet(ids)
  <2> DEFINE g == [x \in DOMAIN rows |-> rows[x].rowid]
  <2>1. g \in Surjection(DOMAIN rows, ids)
    BY DEF Surjection
  <2>. QED BY <2>1, FS_Surjection DEF Rows
<1>3. IsFiniteSet(S) /\ S \in SUBSET Nat /\ 0 \in S
  BY <1>1, <1>2, FS_AddElement
<1>4. Max(S) \in S /\ \A n \in S : n <= Max(S)
  <2>. HIDE DEF S
  <2>. QED BY <1>3, LargestExists
<1>5. NextRowid(rows) = 1 + Max(S)
  BY DEF NextRowid
<1>6. \A x \in DOMAIN rows : rows[x].rowid \in S
  OBVIOUS
<1>7. Max(S) \in Nat
  BY <1>3, <1>4
<1>8. ASSUME NEW x \in DOMAIN rows PROVE rows[x].rowid <= Max(S) /\ rows[x].rowid \in Nat
  BY <1>1, <1>4, <1>6
<1>. HIDE DEF S
<1>. QED BY <1>5, <1>7, <1>8

\* What create inserts.
NewRow(rows, at) ==
  [createdAt |-> at, rowid |-> NextRowid(rows), status |-> "running", events |-> <<>>]

LEMMA InsertedRows ==
  ASSUME NEW rows, Rows(rows), NEW r \in Run, NEW at \in Nat
  PROVE  /\ Rows(Inserted(rows, r, at))
         /\ DOMAIN Inserted(rows, r, at) = DOMAIN rows \cup {r}
         /\ Inserted(rows, r, at)[r] = NewRow(rows, at)
         /\ \A x \in DOMAIN rows \ {r} : Inserted(rows, r, at)[x] = rows[x]
         /\ Cardinality(DOMAIN Inserted(rows, r, at)) <= Cardinality(DOMAIN rows) + 1
<1> DEFINE new == Inserted(rows, r, at)
           D == DOMAIN rows \cup {r}
<1>1. /\ DOMAIN new = D /\ new[r] = NewRow(rows, at)
      /\ \A x \in DOMAIN rows \ {r} : new[x] = rows[x]
      /\ new = [x \in D |-> new[x]]
  BY DEF Inserted, NewRow
<1>. HIDE DEF new
<1>2. NewRow(rows, at) \in Row /\ NewRow(rows, at).rowid = NextRowid(rows)
  BY RowidsGrow DEF NewRow, Row, Status
<1>3. \A x \in D : new[x] \in Row
  BY <1>1, <1>2 DEF Rows
<1>4. \A x, y \in D : new[x].rowid = new[y].rowid => x = y
  <2>1. \A x \in DOMAIN rows \ {r} : new[x].rowid < new[r].rowid
    BY <1>1, <1>2, RowidsGrow
  <2>2. \A x \in D : new[x].rowid \in Nat
    BY <1>3 DEF Row
  <2>3. ASSUME NEW x \in D, NEW y \in D, new[x].rowid = new[y].rowid PROVE x = y
    <3>1. CASE x # r /\ y # r
      BY <1>1, <2>3, <3>1 DEF Rows
    <3>2. CASE x = r \/ y = r
      BY <2>1, <2>2, <2>3, <3>2
    <3>. QED BY <3>1, <3>2
  <2>. QED BY <2>3
<1>5. IsFiniteSet(D) /\ Cardinality(D) <= Cardinality(DOMAIN rows) + 1 /\ D \subseteq Run
  <2>1. IsFiniteSet(DOMAIN rows) /\ D \subseteq Run
    BY DEF Rows
  <2>2. Cardinality(DOMAIN rows) \in Nat
    BY <2>1, FS_CardinalityType
  <2>3. IsFiniteSet(D) /\ Cardinality(D) = IF r \in DOMAIN rows THEN Cardinality(DOMAIN rows)
                                            ELSE Cardinality(DOMAIN rows) + 1
    BY <2>1, FS_AddElement
  <2>. QED BY <2>1, <2>2, <2>3
<1>6. new \in [D -> Row]
  BY <1>1, <1>3
<1>7. Rows(new)
  BY <1>1, <1>4, <1>5, <1>6 DEF Rows
<1>. QED BY <1>1, <1>5, <1>7 DEF new

\* An UPDATE keeps the rows, their times and their ids.
LEMMA UpdatedRows ==
  ASSUME NEW rows, Rows(rows), NEW r \in DOMAIN rows, NEW row \in Row,
         row.createdAt = rows[r].createdAt, row.rowid = rows[r].rowid
  PROVE  /\ Rows([rows EXCEPT ![r] = row])
         /\ DOMAIN [rows EXCEPT ![r] = row] = DOMAIN rows
         /\ [rows EXCEPT ![r] = row][r] = row
         /\ \A x \in DOMAIN rows \ {r} : [rows EXCEPT ![r] = row][x] = rows[x]
<1> DEFINE new == [rows EXCEPT ![r] = row]
<1>1. /\ DOMAIN new = DOMAIN rows /\ new[r] = row
      /\ \A x \in DOMAIN rows \ {r} : new[x] = rows[x]
      /\ new = [x \in DOMAIN rows |-> new[x]]
  OBVIOUS
<1>. HIDE DEF new
<1>2. \A x \in DOMAIN rows : new[x] \in Row /\ new[x].rowid = rows[x].rowid
  BY <1>1 DEF Rows
<1>3. new \in [DOMAIN rows -> Row]
  BY <1>1, <1>2
<1>4. Rows(new)
  BY <1>1, <1>2, <1>3 DEF Rows
<1>. QED BY <1>1, <1>4 DEF new

----------------------------------------------------------------------------
(* Types, and the bound. *)

Creating  == [op : {"create"}, run : Run, at : 0..MaxClock, step : {"insert", "evict", "commit"}]
Reporting == [op : {"event"}, run : Run, event : Event, step : {"write", "commit"}]
Finishing == [op : {"finish"}, run : Run, status : {"completed", "failed"},
              step : {"write", "commit"}]

TypeOK ==
  /\ clock \in 0..MaxClock
  /\ Rows(table) /\ Rows(disk)
  /\ call \in {Idle} \cup Creating \cup Reporting \cup Finishing
  /\ created \in Seq(Run)
  /\ emitted \in [Run -> Seq(Event)]
  /\ told \in [Run -> Status]
  /\ tried \in [Run -> Seq([event : Event, fate : {"kept", "dropped", "raised"}])]
  /\ may \in [Run -> SUBSET Status]
  /\ raised \in Seq([op : {"create", "event", "finish"}, run : Run])

\* The calls of create that raised.
RaisedCreates(s) == {i \in DOMAIN s : s[i].op = "create"}

\* What the open transaction may hold beyond the bound, while create runs.
Bounded ==
  LET bound == MaxRuns + Cardinality(RaisedCreates(raised))
  IN /\ Cardinality(DOMAIN disk) <= bound
     /\ Cardinality(DOMAIN table) <= bound \/ (call.op = "create" /\ call.step = "evict")
     /\ call.op = "create" /\ call.step = "evict" => Cardinality(DOMAIN table) <= bound + 1
     /\ call.op = "create" /\ call.step = "commit" => Cardinality(DOMAIN table) <= MaxRuns

LEMMA InitTypeOK == Init => TypeOK
<1>1. SUFFICES ASSUME Init PROVE TypeOK
  OBVIOUS
<1>2. Rows(table) /\ Rows(disk)
  BY <1>1, FS_EmptySet DEF Init, Rows
<1>3. clock \in 0..MaxClock
  BY <1>1, ClockAssumption DEF Init
<1>4. /\ emitted \in [Run -> Seq(Event)] /\ told \in [Run -> Status]
      /\ tried \in [Run -> Seq([event : Event, fate : {"kept", "dropped", "raised"}])]
      /\ may \in [Run -> SUBSET Status]
  BY <1>1 DEF Init, Status
<1>. QED BY <1>1, <1>2, <1>3, <1>4 DEF Init, TypeOK

\* What the UPDATE of event and of finish writes.
LEMMA EventWritten ==
  ASSUME TypeOK, EventWrites
  PROVE  /\ call \in Reporting /\ call.run \in DOMAIN table
         /\ call' = [call EXCEPT !.step = "commit"]
         /\ Rows(table') /\ DOMAIN table' = DOMAIN table
         /\ table'[call.run] =
              [table[call.run] EXCEPT !.events = Append(table[call.run].events, call.event)]
         /\ \A x \in DOMAIN table \ {call.run} : table'[x] = table[x]
         /\ UNCHANGED <<clock, disk, calls, fates>>
<1>1. call \in Reporting /\ call.run \in DOMAIN table
  BY DEF TypeOK, EventWrites, HasRoom, Idle, Creating, Finishing
<1> DEFINE row == [table[call.run] EXCEPT !.events = Append(table[call.run].events, call.event)]
<1>2. table[call.run] \in Row
  BY <1>1 DEF TypeOK, Rows
<1>3. row \in Row /\ row.createdAt = table[call.run].createdAt /\ row.rowid = table[call.run].rowid
  BY <1>1, <1>2, SMTT(20) DEF Row, Reporting
<1>4. table' = [table EXCEPT ![call.run] = row]
  BY DEF EventWrites
<1>. HIDE DEF row
<1>5. Rows([table EXCEPT ![call.run] = row])
      /\ DOMAIN [table EXCEPT ![call.run] = row] = DOMAIN table
      /\ [table EXCEPT ![call.run] = row][call.run] = row
      /\ \A x \in DOMAIN table \ {call.run} : [table EXCEPT ![call.run] = row][x] = table[x]
  BY <1>1, <1>3, UpdatedRows DEF TypeOK
<1>. QED BY <1>1, <1>4, <1>5 DEF EventWrites, row

LEMMA FinishWritten ==
  ASSUME TypeOK, FinishWrites
  PROVE  /\ call \in Finishing /\ call.run \in DOMAIN table
         /\ call' = [call EXCEPT !.step = "commit"]
         /\ Rows(table') /\ DOMAIN table' = DOMAIN table
         /\ table'[call.run] = [table[call.run] EXCEPT !.status = call.status]
         /\ \A x \in DOMAIN table \ {call.run} : table'[x] = table[x]
         /\ UNCHANGED <<clock, disk, calls, fates>>
<1>1. call \in Finishing /\ call.run \in DOMAIN table
  BY DEF TypeOK, FinishWrites, Idle, Creating, Reporting
<1> DEFINE row == [table[call.run] EXCEPT !.status = call.status]
<1>2. table[call.run] \in Row
  BY <1>1 DEF TypeOK, Rows
<1>3. row \in Row /\ row.createdAt = table[call.run].createdAt /\ row.rowid = table[call.run].rowid
  BY <1>1, <1>2 DEF Row, Finishing, Status
<1>4. table' = [table EXCEPT ![call.run] = row]
  BY DEF FinishWrites
<1>. HIDE DEF row
<1>5. Rows([table EXCEPT ![call.run] = row])
      /\ DOMAIN [table EXCEPT ![call.run] = row] = DOMAIN table
      /\ [table EXCEPT ![call.run] = row][call.run] = row
      /\ \A x \in DOMAIN table \ {call.run} : [table EXCEPT ![call.run] = row][x] = table[x]
  BY <1>1, <1>3, UpdatedRows DEF TypeOK
<1>. QED BY <1>1, <1>4, <1>5 DEF FinishWrites, row

\* What create inserts and deletes.
LEMMA CreateInserted ==
  ASSUME TypeOK, CreateInserts
  PROVE  /\ call \in Creating /\ call.step = "insert" /\ call' = [call EXCEPT !.step = "evict"]
         /\ Rows(table') /\ DOMAIN table' = DOMAIN table \cup {call.run}
         /\ table'[call.run] = NewRow(table, call.at)
         /\ \A x \in DOMAIN table \ {call.run} : table'[x] = table[x]
         /\ Cardinality(DOMAIN table') <= Cardinality(DOMAIN table) + 1
         /\ UNCHANGED <<clock, disk, calls, fates>>
<1>1. call \in Creating /\ call.step = "insert" /\ call.run \in Run /\ call.at \in Nat
  BY ClockAssumption DEF TypeOK, CreateInserts, Idle, Creating, Reporting, Finishing
<1>2. table' = Inserted(table, call.run, call.at) /\ Rows(table)
      /\ call' = [call EXCEPT !.step = "evict"]
      /\ UNCHANGED <<clock, disk, calls, fates>>
  BY DEF CreateInserts, TypeOK
<1> DEFINE new == Inserted(table, call.run, call.at)
<1>3. /\ Rows(new) /\ DOMAIN new = DOMAIN table \cup {call.run}
      /\ new[call.run] = NewRow(table, call.at)
      /\ \A x \in DOMAIN table \ {call.run} : new[x] = table[x]
      /\ Cardinality(DOMAIN new) <= Cardinality(DOMAIN table) + 1
  <2>1. PICK r \in Run, at \in Nat : r = call.run /\ at = call.at
    BY <1>1
  <2>2. /\ Rows(Inserted(table, r, at)) /\ DOMAIN Inserted(table, r, at) = DOMAIN table \cup {r}
        /\ Inserted(table, r, at)[r] = NewRow(table, at)
        /\ \A x \in DOMAIN table \ {r} : Inserted(table, r, at)[x] = table[x]
        /\ Cardinality(DOMAIN Inserted(table, r, at)) <= Cardinality(DOMAIN table) + 1
    BY <1>2, InsertedRows
  <2>. QED BY <2>1, <2>2
<1>. QED BY <1>1, <1>2, <1>3

LEMMA CreateEvicted ==
  ASSUME TypeOK, CreateEvicts
  PROVE  /\ call \in Creating /\ call.step = "evict" /\ call' = [call EXCEPT !.step = "commit"]
         /\ Rows(table')
         /\ DOMAIN table' = {x \in DOMAIN table : Rank(table, x) < MaxRuns}
         /\ \A x \in DOMAIN table' : table'[x] = table[x]
         /\ Cardinality(DOMAIN table') <= MaxRuns
         /\ UNCHANGED <<clock, disk, calls, fates>>
<1>1. call \in Creating /\ call.step = "evict"
  BY DEF TypeOK, CreateEvicts, Idle, Creating, Reporting, Finishing
<1>2. table' = Evicted(table) /\ Rows(table) /\ call' = [call EXCEPT !.step = "commit"]
      /\ UNCHANGED <<clock, disk, calls, fates>>
  BY DEF CreateEvicts, TypeOK
<1>. QED BY <1>1, <1>2, EvictedFits

LEMMA Idles ==
  ASSUME TypeOK, Commit \/ Return
  PROVE  call' = Idle /\ Rows(table') /\ Rows(disk') /\ clock' = clock /\ table' = table
BY DEF TypeOK, Commit, Return, Committed

LEMMA TriedTypes ==
  ASSUME TypeOK, call \in Reporting, NEW fate \in {"kept", "dropped", "raised"}
  PROVE  [tried EXCEPT ![call.run] = Append(@, [event |-> call.event, fate |-> fate])]
           \in [Run -> Seq([event : Event, fate : {"kept", "dropped", "raised"}])]
<1> DEFINE S == [event : Event, fate : {"kept", "dropped", "raised"}]
           x == [event |-> call.event, fate |-> fate]
<1>1. x \in S /\ call.run \in Run
  BY DEF Reporting
<1>2. tried \in [Run -> Seq(S)]
  BY DEF TypeOK
<1>. HIDE DEF S, x
<1>3. Append(tried[call.run], x) \in Seq(S)
  BY <1>1, <1>2
<1>4. [tried EXCEPT ![call.run] = Append(@, x)] \in [Run -> Seq(S)]
  BY <1>1, <1>2, <1>3
<1>. QED BY <1>4 DEF S, x

LEMMA TypeStep == TypeOK /\ [Next]_vars => TypeOK'
<1>1. SUFFICES ASSUME TypeOK, [Next]_vars PROVE TypeOK'
  OBVIOUS
<1>. USE <1>1
<1>2. ASSUME NEW r \in Run, CreateBegins(r) PROVE TypeOK'
  <2>1. call' \in Creating
    BY <1>2 DEF CreateBegins, Creating, TypeOK
  <2>. QED BY <1>2, <2>1 DEF CreateBegins, TypeOK, calls, fates
<1>3. ASSUME NEW r \in Run, NEW e \in Event, EventBegins(r, e) PROVE TypeOK'
  <2>1. call' \in Reporting
    BY <1>3 DEF EventBegins, Reporting
  <2>. QED BY <1>3, <2>1 DEF EventBegins, TypeOK, calls, fates
<1>4. ASSUME NEW r \in Run, NEW status \in {"completed", "failed"}, FinishBegins(r, status)
      PROVE  TypeOK'
  <2>1. call' \in Finishing
    BY <1>4 DEF FinishBegins, Finishing
  <2>. QED BY <1>4, <2>1 DEF FinishBegins, TypeOK, calls, fates
<1>5. CASE CreateInserts
  <2>1. call' \in Creating /\ Rows(table') /\ UNCHANGED <<clock, disk, calls, fates>>
    BY <1>5, CreateInserted DEF Creating
  <2>. QED BY <2>1 DEF TypeOK, calls, fates
<1>6. CASE CreateEvicts
  <2>1. call' \in Creating /\ Rows(table') /\ UNCHANGED <<clock, disk, calls, fates>>
    BY <1>6, CreateEvicted DEF Creating
  <2>. QED BY <2>1 DEF TypeOK, calls, fates
<1>7. CASE CreateCommits
  <2>1. call.run \in Run
    BY <1>7 DEF CreateCommits, TypeOK, Idle, Creating, Reporting, Finishing
  <2>2. created' \in Seq(Run)
    BY <1>7, <2>1 DEF CreateCommits, TypeOK
  <2>. QED BY <1>7, <2>2, Idles DEF CreateCommits, TypeOK, fates
<1>8. CASE EventWrites
  <2>1. call' \in Reporting /\ Rows(table') /\ UNCHANGED <<clock, disk, calls, fates>>
    BY <1>8, EventWritten DEF Reporting
  <2>. QED BY <2>1 DEF TypeOK, calls, fates
<1>9. CASE EventReturns
  <2>1. call \in Reporting /\ (Commit \/ Return)
    BY <1>9 DEF EventReturns, TypeOK, Idle, Creating, Finishing
  <2>2. emitted' \in [Run -> Seq(Event)]
    BY <1>9, <2>1 DEF EventReturns, TypeOK, Reporting
  <2>3. tried' \in [Run -> Seq([event : Event, fate : {"kept", "dropped", "raised"}])]
    <3>1. tried' \in {[tried EXCEPT ![call.run] = Append(@, [event |-> call.event, fate |-> fate])] :
                       fate \in {"kept", "dropped"}}
      BY <1>9 DEF EventReturns, Tried
    <3>. QED BY <2>1, <3>1, TriedTypes
  <2>. QED BY <1>9, <2>1, <2>2, <2>3, Idles DEF EventReturns, TypeOK
<1>10. CASE FinishWrites
  <2>1. call' \in Finishing /\ Rows(table') /\ UNCHANGED <<clock, disk, calls, fates>>
    BY <1>10, FinishWritten DEF Finishing
  <2>. QED BY <2>1 DEF TypeOK, calls, fates
<1>11. CASE FinishReturns
  <2>1. call \in Finishing /\ (Commit \/ Return)
    BY <1>11 DEF FinishReturns, TypeOK, Idle, Creating, Reporting
  <2>2. told' \in [Run -> Status] /\ may' \in [Run -> SUBSET Status]
    <3>1. call.run \in Run /\ call.status \in Status
      BY <2>1 DEF Finishing, Status
    <3>2. told' = [told EXCEPT ![call.run] = call.status]
          /\ (may' = [may EXCEPT ![call.run] = {call.status}] \/ may' = may)
      BY <1>11 DEF FinishReturns
    <3>3. told \in [Run -> Status] /\ may \in [Run -> SUBSET Status]
      BY DEF TypeOK
    <3>4. told' \in [Run -> Status]
      BY <3>1, <3>2, <3>3
    <3>5. may' \in [Run -> SUBSET Status]
      BY <3>1, <3>2, <3>3
    <3>. QED BY <3>4, <3>5
  <2>. QED BY <1>11, <2>1, <2>2, Idles DEF FinishReturns, TypeOK
<1>12. CASE CallRaises
  <2>1. call \in Creating \cup Reporting \cup Finishing
    BY <1>12 DEF CallRaises, TypeOK
  <2>2. raised' \in Seq([op : {"create", "event", "finish"}, run : Run])
    BY <1>12, <2>1 DEF CallRaises, TypeOK, Creating, Reporting, Finishing
  <2>3. tried' \in [Run -> Seq([event : Event, fate : {"kept", "dropped", "raised"}])]
    <3>1. CASE call.op = "event"
      <4>1. call \in Reporting
        BY <2>1, <3>1 DEF Creating, Finishing
      <4>2. tried' = [tried EXCEPT ![call.run] =
                        Append(@, [event |-> call.event, fate |-> "raised"])]
        BY <1>12, <3>1 DEF CallRaises, Tried
      <4>. QED BY <4>1, <4>2, TriedTypes
    <3>2. CASE call.op # "event"
      BY <1>12, <3>2 DEF CallRaises, TypeOK
    <3>. QED BY <3>1, <3>2
  <2>4. may' \in [Run -> SUBSET Status]
    <3>1. CASE call.op = "finish"
      BY <1>12, <2>1, <3>1 DEF CallRaises, TypeOK, Creating, Reporting, Finishing, Status
    <3>2. CASE call.op # "finish"
      BY <1>12, <3>2 DEF CallRaises, TypeOK
    <3>. QED BY <3>1, <3>2
  <2>. QED BY <1>12, <2>2, <2>3, <2>4 DEF CallRaises, TypeOK, calls
<1>13. CASE ClockMoves \/ Restart \/ UNCHANGED vars
  BY <1>13 DEF ClockMoves, Restart, vars, TypeOK, calls, fates
<1>. QED BY <1>2, <1>3, <1>4, <1>5, <1>6, <1>7, <1>8, <1>9, <1>10, <1>11, <1>12, <1>13 DEF Next

\* Rows beyond max_runs are left by calls of create that raised, one each.
LEMMA InitBounded == Init => Bounded
<1>1. SUFFICES ASSUME Init PROVE Bounded
  OBVIOUS
<1>2. DOMAIN disk = {} /\ DOMAIN table = {} /\ RaisedCreates(raised) = {} /\ call.op = "idle"
  BY <1>1 DEF Init, RaisedCreates, Idle
<1>. QED BY <1>2, FS_EmptySet, StoreBoundsAssumption DEF Bounded

LEMMA RaisedCreatesFinite ==
  ASSUME TypeOK
  PROVE  /\ IsFiniteSet(RaisedCreates(raised)) /\ Cardinality(RaisedCreates(raised)) \in Nat
         /\ Cardinality(DOMAIN table) \in Nat /\ Cardinality(DOMAIN disk) \in Nat
<1>1. RaisedCreates(raised) \subseteq 1..Len(raised) /\ Len(raised) \in Nat
  BY DEF TypeOK, RaisedCreates
<1>2. IsFiniteSet(RaisedCreates(raised))
  <2>1. IsFiniteSet(1..Len(raised))
    BY <1>1, FS_Interval
  <2>. QED BY <1>1, <2>1, FS_Subset
<1>. QED BY <1>2, FS_CardinalityType DEF TypeOK, Rows

LEMMA RaisedCreatesCount ==
  ASSUME TypeOK, NEW c, c.op \in {"create", "event", "finish"}, raised' = Append(raised, c)
  PROVE  Cardinality(RaisedCreates(raised')) =
           IF c.op = "create" THEN Cardinality(RaisedCreates(raised)) + 1
                              ELSE Cardinality(RaisedCreates(raised))
<1>1. Len(raised) \in Nat /\ DOMAIN raised = 1..Len(raised)
      /\ DOMAIN raised' = 1..(Len(raised) + 1)
      /\ \A i \in 1..Len(raised) : raised'[i] = raised[i]
      /\ raised'[Len(raised) + 1] = c
  BY DEF TypeOK
<1>2. CASE c.op = "create"
  <2>1. RaisedCreates(raised') = RaisedCreates(raised) \cup {Len(raised) + 1}
        /\ Len(raised) + 1 \notin RaisedCreates(raised)
    BY <1>1, <1>2 DEF RaisedCreates
  <2>. QED BY <1>2, <2>1, RaisedCreatesFinite, FS_AddElement
<1>3. CASE c.op # "create"
  <2>1. RaisedCreates(raised') = RaisedCreates(raised)
    BY <1>1, <1>3 DEF RaisedCreates
  <2>. QED BY <1>3, <2>1
<1>. QED BY <1>2, <1>3

\* A call that begins, ends or steps without adding a row.
LEMMA BoundStays ==
  ASSUME TypeOK, Bounded, raised' = raised, table' \in {table, disk}, disk' = disk,
         ~(call.op = "create" /\ call.step = "evict") \/ table' = disk,
         call'.op # "create" \/ call'.step = "insert"
  PROVE  Bounded'
BY DEF Bounded

LEMMA BoundedStep == TypeOK /\ Bounded /\ [Next]_vars => Bounded'
<1>1. SUFFICES ASSUME TypeOK, Bounded, [Next]_vars PROVE Bounded'
  OBVIOUS
<1>. USE <1>1
<1> DEFINE bound == MaxRuns + Cardinality(RaisedCreates(raised))
<1>2. ASSUME \/ \E r \in Run : CreateBegins(r) \/ (\E e \in Event : EventBegins(r, e))
                    \/ (\E status \in {"completed", "failed"} : FinishBegins(r, status))
      PROVE  Bounded'
  BY <1>2, BoundStays DEF CreateBegins, EventBegins, FinishBegins, Idle, fates
<1>3. CASE CreateInserts
  <2>1. call.op = "create" /\ call.step = "insert" /\ call'.op = "create" /\ call'.step = "evict"
        /\ Cardinality(DOMAIN table') <= Cardinality(DOMAIN table) + 1
        /\ disk' = disk /\ raised' = raised
    BY <1>3, CreateInserted DEF Creating, fates
  <2>2. Cardinality(DOMAIN table') \in Nat
    BY <1>3, CreateInserted, FS_CardinalityType DEF Rows
  <2>. QED BY <2>1, <2>2, RaisedCreatesFinite, StoreBoundsAssumption DEF Bounded
<1>4. CASE CreateEvicts
  <2>1. call'.op = "create" /\ call'.step = "commit" /\ Cardinality(DOMAIN table') <= MaxRuns
        /\ disk' = disk /\ raised' = raised
    BY <1>4, CreateEvicted DEF Creating, fates
  <2>2. Cardinality(DOMAIN table') \in Nat
    BY <1>4, CreateEvicted, FS_CardinalityType DEF Rows
  <2>. QED BY <2>1, <2>2, RaisedCreatesFinite, StoreBoundsAssumption DEF Bounded
<1>5. CASE CreateCommits \/ EventReturns \/ FinishReturns
  <2>1. Commit \/ Return
    BY <1>5 DEF CreateCommits, EventReturns, FinishReturns
  <2>2. call' = Idle /\ table' = table /\ (disk' = disk \/ disk' = table) /\ raised' = raised
    BY <1>5, <2>1 DEF Commit, Return, Committed, CreateCommits, EventReturns, FinishReturns, fates
  <2>3. call.op # "create" \/ call.step = "commit"
    BY <1>5 DEF CreateCommits, EventReturns, FinishReturns
  <2>. QED BY <2>2, <2>3, RaisedCreatesFinite, StoreBoundsAssumption DEF Bounded, Idle
<1>6. CASE EventWrites \/ FinishWrites
  <2>1. /\ DOMAIN table' = DOMAIN table /\ disk' = disk /\ raised' = raised
        /\ call.op # "create" /\ call'.op # "create"
    BY <1>6, EventWritten, FinishWritten DEF Reporting, Finishing, fates
  <2>. QED BY <2>1 DEF Bounded
<1>7. CASE CallRaises
  <2>1. /\ raised' = Append(raised, [op |-> call.op, run |-> call.run])
        /\ table' \in {table, disk} /\ disk' = disk /\ call' = Idle
        /\ call.op \in {"create", "event", "finish"}
    BY <1>7 DEF CallRaises, TypeOK, Creating, Reporting, Finishing
  <2>2. Cardinality(RaisedCreates(raised')) =
          IF call.op = "create" THEN Cardinality(RaisedCreates(raised)) + 1
                                ELSE Cardinality(RaisedCreates(raised))
    <3> DEFINE c == [op |-> call.op, run |-> call.run]
    <3>1. c.op = call.op
      OBVIOUS
    <3>. HIDE DEF c
    <3>2. raised' = Append(raised, c)
      BY <2>1 DEF c
    <3>. QED BY <2>1, <3>1, <3>2, RaisedCreatesCount
  <2>. QED BY <2>1, <2>2, RaisedCreatesFinite, StoreBoundsAssumption DEF Bounded, Idle
<1>8. CASE ClockMoves \/ Restart \/ UNCHANGED vars
  BY <1>8, BoundStays DEF ClockMoves, Restart, vars, fates, Idle, Bounded
<1>. QED BY <1>2, <1>3, <1>4, <1>5, <1>6, <1>7, <1>8 DEF Next

\* However many calls raise, the store holds no more than its bound and one
\* run for each create that raised, and a create that returns restores it.
THEOREM BoundIsKept == Spec => []BoundIsRestored
<1>1. Bounded => BoundIsRestored
  BY DEF Bounded, BoundIsRestored, RaisedCreates
<1>. QED BY <1>1, InitTypeOK, TypeStep, InitBounded, BoundedStep, PTL DEF Spec

----------------------------------------------------------------------------
(* Which of the events tried a row has. *)

\* The place of j in T, and the i-th of T.
Index(T, j) == Cardinality({k \in T : k <= j})
Pick(T, i)  == CHOOSE j \in T : Index(T, j) = i

Numbered(T) == IsFiniteSet(T) /\ \A i \in 1..Cardinality(T) : \E j \in T : Index(T, j) = i

\* Of the tries t, those in T made the events s: every one that was kept, and
\* none that was dropped.
Explains(t, T, s) ==
  /\ T \subseteq {i \in DOMAIN t : t[i].fate # "dropped"}
  /\ {i \in DOMAIN t : t[i].fate = "kept"} \subseteq T
  /\ Numbered(T)
  /\ s = [i \in 1..Cardinality(T) |-> t[Pick(T, i)].event]

Explained(t, s) == \E T \in SUBSET DOMAIN t : Explains(t, T, s)

\* The call is about to commit what it wrote to r's row.
Committing(op, r) == call.op = op /\ call.step = "commit" /\ call.run = r

Written ==
  /\ \A r \in DOMAIN disk :
       Explained(tried[r], disk[r].events) /\ disk[r].status \in may[r]
  /\ \A r \in DOMAIN table :
       /\ IF Committing("event", r)
          THEN \E s \in Seq(Event) : /\ table[r].events = Append(s, call.event)
                                     /\ Explained(tried[r], s)
          ELSE Explained(tried[r], table[r].events)
       /\ IF Committing("finish", r) THEN table[r].status = call.status
                                     ELSE table[r].status \in may[r]
  /\ \A r \in Run \ ToSet(created) : tried[r] = <<>> /\ may[r] = {"running"}
  /\ call.op = "create" => call.run \notin ToSet(created)
  /\ call.op \in {"event", "finish"} => call.run \in ToSet(created)

LEMMA IndexType ==
  ASSUME NEW T, IsFiniteSet(T), NEW j
  PROVE  Index(T, j) \in 0..Cardinality(T) /\ IsFiniteSet({k \in T : k <= j})
<1>1. {k \in T : k <= j} \subseteq T
  OBVIOUS
<1>. QED BY <1>1, FS_Subset, FS_CardinalityType DEF Index

\* Places grow with the numbers, so that each place is one element's.
LEMMA IndexGrows ==
  ASSUME NEW T \in SUBSET Nat, IsFiniteSet(T), NEW j \in T, NEW m \in T, j < m
  PROVE  Index(T, j) < Index(T, m)
<1>. DEFINE A == {k \in T : k <= j}
            B == {k \in T : k <= m}
<1>1. /\ \A k \in T : k \in Nat
      /\ j \in Nat /\ m \in Nat
  OBVIOUS
<1>2. A \subseteq B /\ m \in B /\ m \notin A
  <2>1. \A k \in T : k <= j => k <= m
    BY <1>1
  <2>2. m <= m /\ ~(m <= j)
    BY <1>1
  <2>. QED BY <2>1, <2>2
<1>3. IsFiniteSet(A) /\ IsFiniteSet(B) /\ Cardinality(A) \in Nat /\ Cardinality(B) \in Nat
      /\ Index(T, j) = Cardinality(A) /\ Index(T, m) = Cardinality(B)
  BY IndexType, FS_CardinalityType DEF Index
<1>. HIDE DEF A, B
<1>4. Cardinality(A) <= Cardinality(B) /\ Cardinality(A) # Cardinality(B)
  BY <1>2, <1>3, FS_Subset
<1>. QED BY <1>3, <1>4

LEMMA PickIs ==
  ASSUME NEW T \in SUBSET Nat, IsFiniteSet(T), NEW j \in T
  PROVE  Pick(T, Index(T, j)) = j
<1>1. ASSUME NEW m \in T, Index(T, m) = Index(T, j) PROVE m = j
  <2>1. m \in Nat /\ j \in Nat
    OBVIOUS
  <2>2. Index(T, j) \in Nat /\ Index(T, m) \in Nat
    <3>1. Cardinality(T) \in Nat
      BY FS_CardinalityType
    <3>2. Index(T, j) \in 0..Cardinality(T) /\ Index(T, m) \in 0..Cardinality(T)
      BY IndexType
    <3>. QED BY <3>1, <3>2
  <2>3. ~(m < j) /\ ~(j < m)
    BY <1>1, <2>2, IndexGrows
  <2>. QED BY <2>1, <2>3
<1>2. \E m \in T : Index(T, m) = Index(T, j)
  OBVIOUS
<1>3. Pick(T, Index(T, j)) \in T /\ Index(T, Pick(T, Index(T, j))) = Index(T, j)
  BY <1>2 DEF Pick
<1>. QED BY <1>1, <1>3

\* A number above all of T comes last, and moves no other.
LEMMA PickNext ==
  ASSUME NEW n \in Nat, NEW T \in SUBSET (1..n), Numbered(T)
  PROVE  LET U == T \cup {n + 1}
         IN /\ Numbered(U) /\ Cardinality(U) = Cardinality(T) + 1
            /\ \A i \in 1..Cardinality(T) : Pick(T, i) \in T /\ Pick(U, i) = Pick(T, i)
            /\ Pick(U, Cardinality(T) + 1) = n + 1
<1>. DEFINE U == T \cup {n + 1}
            c == Cardinality(T)
<1>1. IsFiniteSet(T) /\ c \in Nat /\ T \in SUBSET Nat /\ U \in SUBSET Nat /\ n + 1 \notin T
  BY FS_CardinalityType DEF Numbered
<1>2. IsFiniteSet(U) /\ Cardinality(U) = c + 1
  BY <1>1, FS_AddElement
<1>3. ASSUME NEW j \in T PROVE Index(U, j) = Index(T, j)
  <2>1. j \in 1..n
    OBVIOUS
  <2>2. {k \in U : k <= j} = {k \in T : k <= j}
    BY <2>1
  <2>. QED BY <2>2 DEF Index
<1>4. Index(U, n + 1) = c + 1
  <2>1. {k \in U : k <= n + 1} = U
    <3>1. \A k \in U : k <= n + 1
      OBVIOUS
    <3>. QED BY <3>1
  <2>. QED BY <1>2, <2>1 DEF Index
<1>5. ASSUME NEW i \in 1..c PROVE Pick(T, i) \in T /\ Pick(U, i) = Pick(T, i)
  <2>1. PICK j \in T : Index(T, j) = i
    BY DEF Numbered
  <2>2. Pick(T, i) = j
    BY <1>1, <2>1, PickIs
  <2>3. j \in U /\ Index(U, j) = i
    BY <1>3, <2>1
  <2>4. Pick(U, i) = j
    <3>. HIDE DEF U
    <3>. QED BY <1>1, <1>2, <2>3, PickIs
  <2>. QED BY <2>2, <2>4
<1>6. Pick(U, c + 1) = n + 1
  <2>1. n + 1 \in U
    OBVIOUS
  <2>. HIDE DEF U
  <2>. QED BY <1>1, <1>2, <1>4, <2>1, PickIs
<1>7. Numbered(U)
  <2>1. ASSUME NEW i \in 1..(c + 1) PROVE \E j \in U : Index(U, j) = i
    <3>1. CASE i = c + 1
      BY <1>4, <3>1
    <3>2. CASE i \in 1..c
      <4>1. PICK j \in T : Index(T, j) = i
        BY <3>2 DEF Numbered
      <4>. QED BY <1>3, <4>1
    <3>. QED BY <1>1, <3>1, <3>2
  <2>. QED BY <1>2, <2>1 DEF Numbered
<1>. QED BY <1>2, <1>5, <1>6, <1>7

\* Nothing was tried, and nothing is there.
LEMMA NothingExplained == Explained(<<>>, <<>>)
<1>1. Cardinality({}) = 0 /\ IsFiniteSet({})
  BY FS_EmptySet
<1>2. Numbered({})
  BY <1>1 DEF Numbered
<1>3. <<>> = [i \in 1..Cardinality({}) |-> <<>>[Pick({}, i)].event]
  BY <1>1
<1>4. Explains(<<>>, {}, <<>>)
  BY <1>2, <1>3 DEF Explains
<1>. QED BY <1>4 DEF Explained

\* One more try: what the row had is still explained, if the try was not kept.
LEMMA TryExplained ==
  ASSUME NEW S, NEW t \in Seq(S), NEW x \in S, NEW s, Explained(t, s), x.fate # "kept"
  PROVE  Explained(Append(t, x), s)
<1>1. PICK T \in SUBSET DOMAIN t : Explains(t, T, s)
  BY DEF Explained
<1> DEFINE u == Append(t, x)
           n == Len(t)
<1>2. n \in Nat /\ DOMAIN t = 1..n /\ DOMAIN u = 1..(n + 1)
      /\ (\A i \in 1..n : u[i] = t[i]) /\ u[n + 1] = x
  OBVIOUS
<1>. HIDE DEF u, n
<1>3. \A i \in 1..Cardinality(T) : Pick(T, i) \in T
  BY <1>1, <1>2, PickNext DEF Explains
<1>4. s = [i \in 1..Cardinality(T) |-> u[Pick(T, i)].event]
  BY <1>1, <1>2, <1>3 DEF Explains
<1>5. Explains(u, T, s)
  BY <1>1, <1>2, <1>4 DEF Explains
<1>6. T \in SUBSET DOMAIN u
  BY <1>2
<1>. QED BY <1>5, <1>6 DEF Explained, u

\* One more try that wrote its event, and was not dropped.
LEMMA WriteExplained ==
  ASSUME NEW S, NEW t \in Seq(S), NEW x \in S, NEW E, NEW s \in Seq(E), x.event \in E,
         Explained(t, s), x.fate # "dropped"
  PROVE  Explained(Append(t, x), Append(s, x.event))
<1>1. PICK T \in SUBSET DOMAIN t : Explains(t, T, s)
  BY DEF Explained
<1> DEFINE u == Append(t, x)
           n == Len(t)
           U == T \cup {n + 1}
           c == Cardinality(T)
           v == Append(s, x.event)
<1>2. n \in Nat /\ DOMAIN t = 1..n /\ DOMAIN u = 1..(n + 1)
      /\ (\A i \in 1..n : u[i] = t[i]) /\ u[n + 1] = x
  OBVIOUS
<1>. HIDE DEF u, n
<1>3. /\ Numbered(U) /\ Cardinality(U) = c + 1
      /\ \A i \in 1..c : Pick(T, i) \in T /\ Pick(U, i) = Pick(T, i)
      /\ Pick(U, c + 1) = n + 1
  BY <1>1, <1>2, PickNext DEF Explains
<1>4. c \in Nat /\ Len(s) = c /\ \A i \in 1..c : s[i] = t[Pick(T, i)].event
  <2>1. c \in Nat
    BY <1>1, FS_CardinalityType DEF Explains, Numbered
  <2>. QED BY <1>1, <2>1 DEF Explains
<1>5. v = [i \in 1..(c + 1) |-> u[Pick(U, i)].event]
  <2>1. v \in Seq(E) /\ Len(v) = c + 1 /\ (\A i \in 1..c : v[i] = s[i]) /\ v[c + 1] = x.event
    BY <1>4
  <2>2. \A i \in 1..(c + 1) : v[i] = u[Pick(U, i)].event
    <3>1. ASSUME NEW i \in 1..c PROVE v[i] = u[Pick(U, i)].event
      BY <1>2, <1>3, <1>4, <2>1
    <3>2. v[c + 1] = u[Pick(U, c + 1)].event
      BY <1>2, <1>3, <2>1
    <3>. HIDE DEF v, U
    <3>. QED BY <1>4, <3>1, <3>2
  <2>3. v = [i \in 1..(c + 1) |-> v[i]]
    <3>. HIDE DEF v
    <3>1. DOMAIN v = 1..(c + 1)
      BY <1>4, <2>1
    <3>. QED BY <2>1, <3>1
  <2>. HIDE DEF v
  <2>. QED BY <2>2, <2>3
<1>6. U \subseteq {i \in DOMAIN u : u[i].fate # "dropped"}
      /\ {i \in DOMAIN u : u[i].fate = "kept"} \subseteq U
  BY <1>1, <1>2 DEF Explains
<1>7. Explains(u, U, v)
  BY <1>3, <1>5, <1>6 DEF Explains
<1>8. U \in SUBSET DOMAIN u
  BY <1>6
<1>. QED BY <1>7, <1>8 DEF Explained, u

----------------------------------------------------------------------------
(* Writes that returned survive. *)

LEMMA CreatedGrows ==
  ASSUME TypeOK, CreateCommits
  PROVE  call.run \in Run /\ ToSet(created') = ToSet(created) \cup {call.run}
<1>1. call.run \in Run
  BY DEF CreateCommits, TypeOK, Idle, Creating, Reporting, Finishing
<1>2. created' = Append(created, call.run) /\ created \in Seq(Run)
  BY DEF CreateCommits, TypeOK
<1>3. Len(created) \in Nat /\ DOMAIN created' = 1..(Len(created) + 1)
      /\ DOMAIN created = 1..Len(created)
      /\ (\A i \in 1..Len(created) : created'[i] = created[i])
      /\ created'[Len(created) + 1] = call.run
  BY <1>1, <1>2
<1>. QED BY <1>1, <1>3 DEF ToSet

LEMMA InitWritten == Init => Written
<1>1. SUFFICES ASSUME Init PROVE Written
  OBVIOUS
<1>. QED BY <1>1 DEF Init, Written, Idle

\* A call that begins, ends or is cut off without having written or tried.
LEMMA WrittenStays ==
  ASSUME Written, UNCHANGED <<disk, created, tried, may>>,
         \/ table' = disk
         \/ table' = table /\ \A r : ~Committing("event", r) /\ ~Committing("finish", r),
         \/ call'.op = "create" /\ call'.run \notin ToSet(created)
         \/ call'.op \in {"event", "finish"} /\ call'.run \in ToSet(created)
              /\ call'.step = "write"
         \/ call'.op = "idle"
  PROVE  Written'
<1>1. \A r : ~Committing("event", r)' /\ ~Committing("finish", r)'
  BY DEF Committing
<1>2. CASE table' = disk
  BY <1>1, <1>2 DEF Written
<1>3. CASE table' = table /\ \A r : ~Committing("event", r) /\ ~Committing("finish", r)
  BY <1>1, <1>3 DEF Written
<1>. QED BY <1>2, <1>3

\* A call of event or of create ends with what t tells of its run's tries.
LEMMA TryWritten ==
  ASSUME TypeOK, Written, call \in Reporting, NEW fate \in {"dropped", "raised"}, Tried(fate),
         UNCHANGED <<disk, created, may>>, call' = Idle,
         \/ table' = disk
         \/ table' = table /\ fate = "raised"
         \/ table' = table /\ call.step = "write"
  PROVE  Written'
<1> DEFINE S == [event : Event, fate : {"kept", "dropped", "raised"}]
           x == [event |-> call.event, fate |-> fate]
<1>1. /\ call.run \in Run /\ call.event \in Event /\ x \in S /\ x.event = call.event
      /\ x.fate = fate
      /\ call.op = "event" /\ call.step \in {"write", "commit"} /\ call.run \in ToSet(created)
  BY DEF Reporting, Written
<1>2. tried \in [Run -> Seq(S)]
  BY DEF TypeOK
<1>3. /\ tried'[call.run] = Append(tried[call.run], x)
      /\ \A r \in Run \ {call.run} : tried'[r] = tried[r]
  BY <1>1, <1>2 DEF Tried
<1>. HIDE DEF S, x
<1>4. ASSUME NEW r \in Run, NEW s, Explained(tried[r], s) PROVE Explained(tried'[r], s)
  <2>1. CASE r = call.run
    <3>1. Explained(Append(tried[r], x), s)
      BY <1>1, <1>2, <1>4, TryExplained
    <3>. QED BY <1>3, <2>1, <3>1
  <2>2. CASE r # call.run
    BY <1>3, <1>4, <2>2
  <2>. QED BY <2>1, <2>2
<1>5. DOMAIN disk \subseteq Run /\ DOMAIN table \subseteq Run
  BY DEF TypeOK, Rows
<1>6. ASSUME NEW r \in DOMAIN disk
      PROVE  Explained(tried'[r], disk[r].events) /\ disk[r].status \in may[r]
  BY <1>4, <1>5 DEF Written
<1>7. ASSUME table' = table, NEW r \in DOMAIN table
      PROVE  Explained(tried'[r], table[r].events) /\ table[r].status \in may[r]
  <2>1. table[r].status \in may[r]
    BY <1>1 DEF Written, Committing
  <2>2. CASE ~Committing("event", r)
    BY <1>4, <1>5, <2>1, <2>2 DEF Written
  <2>3. CASE Committing("event", r) /\ fate = "raised"
    <3>1. PICK s \in Seq(Event) : table[r].events = Append(s, call.event) /\ Explained(tried[r], s)
      BY <2>3 DEF Written
    <3>2. r = call.run
      BY <2>3 DEF Committing
    <3>3. Explained(Append(tried[r], x), Append(s, x.event))
      BY <1>1, <1>2, <2>3, <3>1, <3>2, WriteExplained
    <3>. QED BY <1>1, <1>3, <2>1, <3>1, <3>2, <3>3
  <2>4. CASE Committing("event", r) /\ fate # "raised"
    <3>1. table = disk
      BY <1>7, <2>4 DEF Committing
    <3>. QED BY <1>6, <3>1
  <2>. QED BY <2>2, <2>3, <2>4
<1>8. \A r \in DOMAIN table' :
        Explained(tried'[r], table'[r].events) /\ table'[r].status \in may[r]
  BY <1>6, <1>7
<1>9. \A r \in Run \ ToSet(created) : tried'[r] = <<>> /\ may[r] = {"running"}
  BY <1>1, <1>3 DEF Written
<1>. QED BY <1>6, <1>8, <1>9 DEF Written, Committing, Idle

\* An event that is written is committed, and kept.
LEMMA KeptWritten ==
  ASSUME TypeOK, Written, call \in Reporting, call.step = "commit", Tried("kept"),
         UNCHANGED <<table, created, may>>, disk' = table, call' = Idle
  PROVE  Written'
<1> DEFINE S == [event : Event, fate : {"kept", "dropped", "raised"}]
           x == [event |-> call.event, fate |-> "kept"]
<1>1. /\ call.run \in Run /\ call.event \in Event /\ x \in S /\ x.event = call.event
      /\ x.fate = "kept" /\ call.op = "event" /\ call.run \in ToSet(created)
  BY DEF Reporting, Written
<1>2. tried \in [Run -> Seq(S)]
  BY DEF TypeOK
<1>3. /\ tried'[call.run] = Append(tried[call.run], x)
      /\ \A r \in Run \ {call.run} : tried'[r] = tried[r]
  BY <1>1, <1>2 DEF Tried
<1>. HIDE DEF S, x
<1>4. ASSUME NEW r \in DOMAIN table
      PROVE  Explained(tried'[r], table[r].events) /\ table[r].status \in may[r]
  <2>1. table[r].status \in may[r] /\ r \in Run
    BY <1>1 DEF Written, Committing, TypeOK, Rows
  <2>2. CASE r # call.run
    BY <1>3, <2>1, <2>2 DEF Written, Committing
  <2>3. CASE r = call.run
    <3>1. PICK s \in Seq(Event) : table[r].events = Append(s, call.event) /\ Explained(tried[r], s)
      BY <1>1, <2>3 DEF Written, Committing
    <3>2. Explained(Append(tried[r], x), Append(s, x.event))
      BY <1>1, <1>2, <2>3, <3>1, WriteExplained
    <3>. QED BY <1>1, <1>3, <2>1, <2>3, <3>1, <3>2
  <2>. QED BY <2>2, <2>3
<1>5. \A r \in Run \ ToSet(created) : tried'[r] = <<>> /\ may[r] = {"running"}
  BY <1>1, <1>3 DEF Written
<1>. QED BY <1>4, <1>5 DEF Written, Committing, Idle

LEMMA WrittenStep == TypeOK /\ Written /\ [Next]_vars => Written'
<1>1. SUFFICES ASSUME TypeOK, Written, [Next]_vars PROVE Written'
  OBVIOUS
<1>. USE <1>1
<1> DEFINE Pending == \E r : Committing("event", r) \/ Committing("finish", r)
<1>2. DOMAIN disk \subseteq Run /\ DOMAIN table \subseteq Run
  BY DEF TypeOK, Rows
<1>3. ASSUME \/ \E r \in Run : CreateBegins(r) \/ (\E e \in Event : EventBegins(r, e))
                    \/ (\E status \in {"completed", "failed"} : FinishBegins(r, status))
      PROVE  Written'
  <2>1. ~Pending
    BY <1>3 DEF CreateBegins, EventBegins, FinishBegins, Idle, Committing
  <2>2. \/ call'.op = "create" /\ call'.run \notin ToSet(created)
        \/ call'.op \in {"event", "finish"} /\ call'.run \in ToSet(created)
             /\ call'.step = "write"
    BY <1>3 DEF CreateBegins, EventBegins, FinishBegins
  <2>3. UNCHANGED <<disk, table, created, tried, may>>
    BY <1>3 DEF CreateBegins, EventBegins, FinishBegins, calls, fates
  <2>. QED BY <2>1, <2>2, <2>3, WrittenStays
<1>4. CASE CreateInserts
  <2>1. /\ call.op = "create" /\ call'.op = "create" /\ call'.run = call.run /\ call.run \in Run
        /\ DOMAIN table' = DOMAIN table \cup {call.run}
        /\ table'[call.run] = NewRow(table, call.at)
        /\ \A x \in DOMAIN table \ {call.run} : table'[x] = table[x]
        /\ UNCHANGED <<disk, created, tried, may>>
    BY <1>4, CreateInserted DEF Creating, calls, fates
  <2>2. tried[call.run] = <<>> /\ may[call.run] = {"running"}
    BY <2>1 DEF Written
  <2>3. /\ Explained(tried[call.run], table'[call.run].events)
        /\ table'[call.run].status \in may[call.run]
    BY <2>1, <2>2, NothingExplained DEF NewRow
  <2>. QED BY <2>1, <2>3 DEF Written, Committing
<1>5. CASE CreateEvicts
  <2>1. /\ call.op = "create" /\ call'.op = "create" /\ call'.run = call.run
        /\ DOMAIN table' \subseteq DOMAIN table
        /\ \A x \in DOMAIN table' : table'[x] = table[x]
        /\ UNCHANGED <<disk, created, tried, may>>
    BY <1>5, CreateEvicted DEF Creating, calls, fates
  <2>. QED BY <2>1 DEF Written, Committing
<1>6. CASE CreateCommits
  <2>1. /\ call.op = "create" /\ call' = Idle /\ table' = table /\ disk' = table
        /\ UNCHANGED <<tried, may>> /\ ToSet(created) \subseteq ToSet(created')
    BY <1>6, CreatedGrows DEF CreateCommits, Commit, Committed, fates
  <2>. QED BY <2>1 DEF Written, Committing, Idle
<1>7. CASE EventWrites
  <2>1. /\ call \in Reporting /\ call.run \in DOMAIN table /\ call.step = "write"
        /\ call' = [call EXCEPT !.step = "commit"]
        /\ table'[call.run] =
             [table[call.run] EXCEPT !.events = Append(table[call.run].events, call.event)]
        /\ DOMAIN table' = DOMAIN table
        /\ \A x \in DOMAIN table \ {call.run} : table'[x] = table[x]
        /\ UNCHANGED <<disk, created, tried, may>>
    BY <1>7, EventWritten DEF EventWrites, calls, fates
  <2>2. /\ call'.op = "event" /\ call'.run = call.run /\ call'.event = call.event
        /\ call.op = "event"
    BY <2>1 DEF Reporting
  <2>3. table[call.run] \in Row
    BY <2>1 DEF TypeOK, Rows
  <2>4. /\ table'[call.run].events = Append(table[call.run].events, call.event)
        /\ table'[call.run].status = table[call.run].status
        /\ table[call.run].events \in Seq(Event)
    BY <2>1, <2>3 DEF Row
  <2>5. \A r : ~Committing("event", r) /\ ~Committing("finish", r) /\ ~Committing("finish", r)'
               /\ (Committing("event", r)' => r = call.run)
    BY <2>1, <2>2 DEF Committing
  <2>6. ASSUME NEW r \in DOMAIN table'
        PROVE  /\ IF Committing("event", r)'
                  THEN \E s \in Seq(Event) : /\ table'[r].events = Append(s, call'.event)
                                             /\ Explained(tried'[r], s)
                  ELSE Explained(tried'[r], table'[r].events)
               /\ table'[r].status \in may'[r]
    <3>1. Explained(tried[r], table[r].events) /\ table[r].status \in may[r]
      BY <2>1, <2>5, <2>6 DEF Written
    <3>2. CASE r = call.run
      <4>1. Committing("event", r)'
        BY <2>1, <2>2, <3>2 DEF Committing, Reporting
      <4>. QED BY <2>1, <2>2, <2>4, <3>1, <3>2, <4>1
    <3>3. CASE r # call.run
      BY <2>1, <2>5, <3>1, <3>3
    <3>. QED BY <3>2, <3>3
  <2>. QED BY <2>1, <2>2, <2>5, <2>6 DEF Written
<1>8. CASE EventReturns
  <2>1. call \in Reporting
    BY <1>8 DEF EventReturns, TypeOK, Idle, Creating, Finishing
  <2>2. CASE call.step = "commit" /\ Commit /\ Tried("kept")
    BY <1>8, <2>1, <2>2, KeptWritten DEF EventReturns, Commit, Committed
  <2>3. CASE call.step = "write" /\ Return /\ Tried("dropped")
    BY <1>8, <2>1, <2>3, TryWritten DEF EventReturns, Return
  <2>. QED BY <1>8, <2>2, <2>3 DEF EventReturns
<1>9. CASE FinishWrites
  <2>1. /\ call \in Finishing /\ call.run \in DOMAIN table /\ call.step = "write"
        /\ call' = [call EXCEPT !.step = "commit"]
        /\ table'[call.run] = [table[call.run] EXCEPT !.status = call.status]
        /\ DOMAIN table' = DOMAIN table
        /\ \A x \in DOMAIN table \ {call.run} : table'[x] = table[x]
        /\ UNCHANGED <<disk, created, tried, may>>
    BY <1>9, FinishWritten DEF FinishWrites, calls, fates
  <2>2. /\ call'.op = "finish" /\ call'.run = call.run /\ call'.status = call.status
        /\ call.op = "finish"
    BY <2>1 DEF Finishing
  <2>3. table[call.run] \in Row
    BY <2>1 DEF TypeOK, Rows
  <2>4. /\ table'[call.run].events = table[call.run].events
        /\ table'[call.run].status = call.status
    BY <2>1, <2>3 DEF Row
  <2>5. \A r : ~Committing("event", r) /\ ~Committing("finish", r) /\ ~Committing("event", r)'
               /\ (Committing("finish", r)' <=> r = call.run)
    BY <2>1, <2>2 DEF Committing, Finishing
  <2>6. ASSUME NEW r \in DOMAIN table'
        PROVE  /\ Explained(tried'[r], table'[r].events)
               /\ IF Committing("finish", r)' THEN table'[r].status = call'.status
                                              ELSE table'[r].status \in may'[r]
    BY <2>1, <2>2, <2>4, <2>5, <2>6 DEF Written
  <2>. QED BY <2>1, <2>2, <2>5, <2>6 DEF Written
<1>10. CASE FinishReturns
  <2>1. call \in Finishing /\ call.run \in Run /\ call.op = "finish"
    BY <1>10 DEF FinishReturns, TypeOK, Idle, Creating, Reporting, Finishing
  <2>2. CASE call.step = "commit" /\ Commit /\ may' = [may EXCEPT ![call.run] = {call.status}]
    <3>1. /\ call' = Idle /\ table' = table /\ disk' = table /\ UNCHANGED <<created, tried>>
          /\ call.run \in ToSet(created)
          /\ may'[call.run] = {call.status}
          /\ \A r \in Run \ {call.run} : may'[r] = may[r]
      BY <1>10, <2>1, <2>2 DEF FinishReturns, Commit, Committed, TypeOK, Written
    <3>2. ASSUME NEW r \in DOMAIN table
          PROVE  Explained(tried[r], table[r].events) /\ table[r].status \in may'[r]
      BY <1>2, <2>1, <2>2, <3>1 DEF Written, Committing
    <3>. QED BY <3>1, <3>2 DEF Written, Committing, Idle
  <2>3. CASE call.step = "write" /\ Return /\ UNCHANGED may
    <3>1. ~Pending
      BY <2>3 DEF Committing
    <3>2. call'.op = "idle"
      BY <2>3 DEF Return, Idle
    <3>. QED BY <1>10, <2>3, <3>1, <3>2, WrittenStays DEF FinishReturns, Return
  <2>. QED BY <1>10, <2>2, <2>3 DEF FinishReturns
<1>11. CASE CallRaises
  <2>1. /\ call \in Creating \cup Reporting \cup Finishing
        /\ table' \in {table, disk} /\ call' = Idle /\ UNCHANGED <<disk, created>>
    BY <1>11 DEF CallRaises, TypeOK, calls
  <2>2. CASE call \in Reporting
    <3>1. call.op = "event"
      BY <2>2 DEF Reporting
    <3>2. Tried("raised") /\ may' = may
      BY <1>11, <3>1 DEF CallRaises
    <3>. QED BY <2>1, <2>2, <3>2, TryWritten
  <2>3. CASE call \in Creating
    <3>1. call.op = "create"
      BY <2>3 DEF Creating
    <3>2. tried' = tried /\ may' = may
      BY <1>11, <3>1 DEF CallRaises
    <3>3. ~Pending /\ call'.op = "idle"
      BY <2>1, <3>1 DEF Committing, Idle
    <3>. QED BY <2>1, <3>2, <3>3, WrittenStays
  <2>4. CASE call \in Finishing
    <3>1. call.op = "finish" /\ call.run \in Run
      BY <2>4 DEF Finishing
    <3>2. /\ tried' = tried
          /\ may'[call.run] = may[call.run] \cup {call.status}
          /\ \A r \in Run \ {call.run} : may'[r] = may[r]
      BY <1>11, <3>1 DEF CallRaises, TypeOK
    <3>3. ASSUME NEW r \in DOMAIN table
          PROVE  Explained(tried[r], table[r].events) /\ table[r].status \in may'[r]
      BY <1>2, <3>1, <3>2 DEF Written, Committing
    <3>4. ASSUME NEW r \in DOMAIN disk
          PROVE  Explained(tried[r], disk[r].events) /\ disk[r].status \in may'[r]
      BY <1>2, <3>1, <3>2 DEF Written
    <3>5. call.run \in ToSet(created)
      BY <3>1 DEF Written
    <3>6. \A r \in DOMAIN table' : Explained(tried[r], table'[r].events)
                                   /\ table'[r].status \in may'[r]
      BY <2>1, <3>3, <3>4
    <3>. QED BY <2>1, <3>2, <3>4, <3>5, <3>6 DEF Written, Committing, Idle
  <2>. QED BY <2>1, <2>2, <2>3, <2>4
<1>12. CASE Restart
  BY <1>12, WrittenStays DEF Restart, Idle, calls, fates
<1>13. CASE ClockMoves \/ UNCHANGED vars
  BY <1>13 DEF ClockMoves, vars, calls, fates, Written, Committing
<1>. QED BY <1>3, <1>4, <1>5, <1>6, <1>7, <1>8, <1>9, <1>10, <1>11, <1>12, <1>13 DEF Next

LEMMA ExplainedTells ==
  ASSUME NEW r, NEW s, Explained(tried[r], s)
  PROVE  TellsEvents(s, r)
<1>1. PICK T \in SUBSET DOMAIN tried[r] : Explains(tried[r], T, s)
  BY DEF Explained
<1>2. /\ T \in SUBSET {i \in DOMAIN tried[r] : tried[r][i].fate # "dropped"}
      /\ {i \in DOMAIN tried[r] : tried[r][i].fate = "kept"} \subseteq T
  BY <1>1 DEF Explains
<1>3. s = [i \in 1..Cardinality(T) |->
             tried[r][CHOOSE j \in T : Cardinality({k \in T : k <= j}) = i].event]
  BY <1>1, Zenon DEF Explains, Pick, Index
<1>. QED BY <1>2, <1>3, Zenon DEF TellsEvents

\* Whichever calls raise and whenever the process stops, a row on disk has
\* what the calls that returned have written.
THEOREM ReturnedWritesAreKept == Spec => []ReturnedWritesSurvive
<1>1. Written => ReturnedWritesSurvive
  BY ExplainedTells DEF Written, ReturnedWritesSurvive
<1>. QED BY <1>1, InitTypeOK, TypeStep, InitWritten, WrittenStep, PTL DEF Spec

----------------------------------------------------------------------------
(* The order in which rows are listed. *)

Count(rows) == Cardinality(DOMAIN rows)

\* The ranks of n rows are the numbers below n, each of one row.
LEMMA RanksNumber ==
  ASSUME NEW rows, Rows(rows)
  PROVE  /\ Count(rows) \in Nat
         /\ \A x \in DOMAIN rows : Rank(rows, x) \in 0..(Count(rows) - 1)
         /\ \A i \in 0..(Count(rows) - 1) : \E x \in DOMAIN rows : Rank(rows, x) = i
<1> DEFINE n == Count(rows)
           f == [x \in DOMAIN rows |-> Rank(rows, x)]
<1>1. IsFiniteSet(DOMAIN rows) /\ n \in Nat
  BY FS_CardinalityType DEF Rows, Count
<1>2. ASSUME NEW x \in DOMAIN rows PROVE Rank(rows, x) \in 0..(n - 1)
  <2>1. IsFiniteSet(DOMAIN rows \ {x}) /\ Cardinality(DOMAIN rows \ {x}) = n - 1
    BY <1>1, FS_RemoveElement DEF Count
  <2>2. Newer(rows, x) \subseteq DOMAIN rows \ {x}
    BY OlderOrders DEF Newer
  <2>3. Cardinality(Newer(rows, x)) <= n - 1
    BY <2>1, <2>2, FS_Subset
  <2>4. Rank(rows, x) \in Nat /\ Rank(rows, x) = Cardinality(Newer(rows, x))
    BY RankType
  <2>. QED BY <1>1, <2>3, <2>4
<1>3. f \in Injection(DOMAIN rows, 0..(n - 1))
  BY <1>2, RanksDiffer DEF Injection, IsInjective
<1>4. IsFiniteSet(0..(n - 1)) /\ Cardinality(0..(n - 1)) = n
  <2>1. 0 \in Int /\ n - 1 \in Int
    BY <1>1
  <2>2. /\ IsFiniteSet(0..(n - 1))
        /\ Cardinality(0..(n - 1)) = IF 0 > n - 1 THEN 0 ELSE (n - 1) - 0 + 1
    BY <2>1, FS_Interval
  <2>. QED BY <1>1, <2>2
<1>5. f \in Surjection(DOMAIN rows, 0..(n - 1))
  <2>1. Cardinality(DOMAIN rows) = Cardinality(0..(n - 1))
    BY <1>4 DEF Count
  <2>. HIDE DEF f, n
  <2>. QED BY <1>3, <1>4, <2>1, FS_Injection
<1>6. \A i \in 0..(n - 1) : \E x \in DOMAIN rows : Rank(rows, x) = i
  BY <1>5 DEF Surjection
<1>. QED BY <1>1, <1>2, <1>6

\* The row of rank i is listed i places before the end.
LEMMA OrderedIs ==
  ASSUME NEW rows, Rows(rows)
  PROVE  /\ Ordered(rows) \in Seq(DOMAIN rows)
         /\ Len(Ordered(rows)) = Count(rows) /\ Count(rows) \in Nat
         /\ \A i \in 1..Count(rows) :
              /\ Ordered(rows)[i] \in DOMAIN rows
              /\ Rank(rows, Ordered(rows)[i]) = Count(rows) - i
<1> DEFINE n == Count(rows)
           s == Ordered(rows)
<1>1. n \in Nat /\ \A i \in 0..(n - 1) : \E x \in DOMAIN rows : Rank(rows, x) = i
  BY RanksNumber
<1>2. s = [i \in 1..n |-> CHOOSE x \in DOMAIN rows : Rank(rows, x) = n - i]
  BY DEF Ordered, Count
<1>3. ASSUME NEW i \in 1..n PROVE s[i] \in DOMAIN rows /\ Rank(rows, s[i]) = n - i
  <2>1. n - i \in 0..(n - 1)
    BY <1>1
  <2>2. \E x \in DOMAIN rows : Rank(rows, x) = n - i
    BY <1>1, <2>1
  <2>3. s[i] = CHOOSE x \in DOMAIN rows : Rank(rows, x) = n - i
    BY <1>2
  <2>. QED BY <2>2, <2>3
<1>4. s \in [1..n -> DOMAIN rows]
  <2>1. s = [i \in 1..n |-> s[i]]
    BY <1>2
  <2>. HIDE DEF s, n
  <2>. QED BY <1>3, <2>1
<1>. HIDE DEF s, n
<1>5. s \in Seq(DOMAIN rows) /\ Len(s) = n
  BY <1>1, <1>4
<1>. QED BY <1>1, <1>3, <1>5 DEF s, n

\* A sequence that has every row at the place its rank gives is the order.
LEMMA OrderedUnique ==
  ASSUME NEW rows, Rows(rows), NEW S, NEW s \in Seq(S), Len(s) = Count(rows),
         \A i \in 1..Len(s) : s[i] \in DOMAIN rows /\ Rank(rows, s[i]) = Len(s) - i
  PROVE  Ordered(rows) = s
<1>1. /\ Ordered(rows) \in Seq(DOMAIN rows) /\ Len(Ordered(rows)) = Len(s) /\ Len(s) \in Nat
      /\ \A i \in 1..Len(s) : /\ Ordered(rows)[i] \in DOMAIN rows
                              /\ Rank(rows, Ordered(rows)[i]) = Len(s) - i
  BY OrderedIs
<1>2. \A i \in 1..Len(s) : Ordered(rows)[i] = s[i]
  BY <1>1, RanksDiffer
<1>. QED BY <1>1, <1>2

LEMMA OrderedSet ==
  ASSUME NEW rows, Rows(rows)
  PROVE  ToSet(Ordered(rows)) = DOMAIN rows
<1> DEFINE n == Count(rows)
           s == Ordered(rows)
<1>1. /\ s \in Seq(DOMAIN rows) /\ Len(s) = n /\ n \in Nat
      /\ \A i \in 1..n : s[i] \in DOMAIN rows /\ Rank(rows, s[i]) = n - i
  BY OrderedIs
<1>2. ASSUME NEW x \in DOMAIN rows PROVE \E i \in 1..n : s[i] = x
  <2>1. Rank(rows, x) \in 0..(n - 1)
    BY RanksNumber
  <2>2. n - Rank(rows, x) \in 1..n /\ n - (n - Rank(rows, x)) = Rank(rows, x)
    BY <1>1, <2>1
  <2>3. Rank(rows, s[n - Rank(rows, x)]) = Rank(rows, x) /\ s[n - Rank(rows, x)] \in DOMAIN rows
    BY <1>1, <2>2
  <2>. QED BY <2>2, <2>3, RanksDiffer
<1>. HIDE DEF s, n
<1>3. DOMAIN s = 1..n
  BY <1>1
<1>. QED BY <1>1, <1>2, <1>3 DEF ToSet, s

\* Rows with the same times and rowids are listed in the same order.
LEMMA OrderedSame ==
  ASSUME NEW rows, Rows(rows), NEW new, Rows(new), DOMAIN new = DOMAIN rows,
         \A x \in DOMAIN rows : new[x].createdAt = rows[x].createdAt /\ new[x].rowid = rows[x].rowid
  PROVE  Ordered(new) = Ordered(rows)
<1>1. ASSUME NEW x \in DOMAIN rows PROVE Rank(new, x) = Rank(rows, x)
  <2>1. Newer(new, x) = Newer(rows, x)
    BY DEF Newer, Older
  <2>. QED BY <2>1, RankType
<1>2. Count(new) = Count(rows)
  BY DEF Count
<1>. QED BY <1>1, <1>2, OrderedIs, OrderedUnique

\* The run created last is listed after those that were there.
LEMMA OrderedInsert ==
  ASSUME NEW rows, Rows(rows), NEW r \in Run, r \notin DOMAIN rows, NEW at \in Nat,
         \A x \in DOMAIN rows : rows[x].createdAt <= at
  PROVE  Ordered(Inserted(rows, r, at)) = Append(Ordered(rows), r)
<1> DEFINE new == Inserted(rows, r, at)
           n == Count(rows)
           s == Ordered(rows)
           t == Append(s, r)
<1>1. /\ Rows(new) /\ DOMAIN new = DOMAIN rows \cup {r} /\ new[r] = NewRow(rows, at)
      /\ \A x \in DOMAIN rows : new[x] = rows[x]
  <2>1. /\ Rows(new) /\ DOMAIN new = DOMAIN rows \cup {r} /\ new[r] = NewRow(rows, at)
        /\ \A x \in DOMAIN rows \ {r} : new[x] = rows[x]
    BY InsertedRows
  <2>. HIDE DEF new
  <2>. QED BY <2>1
<1>2. new[r].createdAt = at /\ new[r].rowid = NextRowid(rows)
  BY <1>1 DEF NewRow
<1>3. \A x \in DOMAIN rows : rows[x].rowid < NextRowid(rows) /\ NextRowid(rows) \in Nat
                             /\ rows[x].createdAt \in Nat /\ rows[x].rowid \in Nat
  BY RowidsGrow DEF Rows, Row
<1>. HIDE DEF new
<1>4. \A x \in DOMAIN rows : Older(new, x, r)
  BY <1>1, <1>2, <1>3 DEF Older
<1>5. \A x, y \in DOMAIN rows : Older(new, x, y) <=> Older(rows, x, y)
  BY <1>1 DEF Older
<1>6. Rank(new, r) = 0
  <2>1. Newer(new, r) = {}
    BY <1>1, <1>4, OlderOrders DEF Newer
  <2>. QED BY <1>1, <2>1, RankType, FS_EmptySet
<1>7. ASSUME NEW x \in DOMAIN rows PROVE Rank(new, x) = Rank(rows, x) + 1
  <2>1. Newer(new, x) = Newer(rows, x) \cup {r} /\ r \notin Newer(rows, x)
    BY <1>1, <1>4, <1>5 DEF Newer
  <2>2. IsFiniteSet(Newer(rows, x))
    BY RankType
  <2>3. Cardinality(Newer(new, x)) = Cardinality(Newer(rows, x)) + 1
    BY <2>1, <2>2, FS_AddElement
  <2>4. Rank(new, x) = Cardinality(Newer(new, x)) /\ Rank(rows, x) = Cardinality(Newer(rows, x))
    BY <1>1, RankType
  <2>. QED BY <2>3, <2>4
<1>8. Count(new) = n + 1
  <2>1. IsFiniteSet(DOMAIN rows)
    BY DEF Rows
  <2>. QED BY <1>1, <2>1, FS_AddElement DEF Count
<1>9. /\ s \in Seq(DOMAIN rows) /\ Len(s) = n /\ n \in Nat
      /\ \A i \in 1..n : s[i] \in DOMAIN rows /\ Rank(rows, s[i]) = n - i
  BY OrderedIs
<1>. HIDE DEF s, n
<1>10. /\ t \in Seq(DOMAIN new) /\ Len(t) = n + 1
       /\ (\A i \in 1..n : t[i] = s[i]) /\ t[n + 1] = r
  <2>1. s \in Seq(DOMAIN new) /\ r \in DOMAIN new
    BY <1>1, <1>9
  <2>. QED BY <1>9, <2>1
<1>. HIDE DEF t
<1>11. ASSUME NEW i \in 1..(n + 1)
       PROVE  t[i] \in DOMAIN new /\ Rank(new, t[i]) = (n + 1) - i
  <2>1. CASE i = n + 1
    BY <1>1, <1>6, <1>9, <1>10, <2>1
  <2>2. CASE i \in 1..n
    <3>1. t[i] \in DOMAIN rows /\ Rank(rows, t[i]) = n - i
      BY <1>9, <1>10, <2>2
    <3>2. Rank(new, t[i]) = (n - i) + 1
      BY <1>7, <3>1
    <3>. QED BY <1>1, <1>9, <2>2, <3>1, <3>2
  <2>. QED BY <1>9, <2>1, <2>2
<1>12. Ordered(new) = t
  BY <1>1, <1>8, <1>10, <1>11, OrderedUnique
<1>. QED BY <1>12 DEF new, t, s

\* Deleting the rows after the first max_runs leaves the others in order.
LEMMA OrderedEvict ==
  ASSUME NEW rows, Rows(rows)
  PROVE  Ordered(Evicted(rows)) = Store!Newest(Ordered(rows), MaxRuns)
<1> DEFINE new == Evicted(rows)
           n == Count(rows)
           m == Store!Least(MaxRuns, n)
           s == Ordered(rows)
           t == SubSeq(s, n - m + 1, n)
<1>1. /\ Rows(new) /\ DOMAIN new = {x \in DOMAIN rows : Rank(rows, x) < MaxRuns}
      /\ \A x \in DOMAIN new : new[x] = rows[x]
  BY EvictedFits
<1>2. /\ s \in Seq(DOMAIN rows) /\ Len(s) = n /\ n \in Nat
      /\ \A i \in 1..n : s[i] \in DOMAIN rows /\ Rank(rows, s[i]) = n - i
  BY OrderedIs
<1>3. m \in Nat /\ m <= n /\ m <= MaxRuns /\ (m < n => m = MaxRuns)
  BY <1>2, StoreBoundsAssumption DEF Store!Least
<1>4. ASSUME NEW x \in DOMAIN rows PROVE Rank(rows, x) \in 0..(n - 1)
  BY RanksNumber
<1>5. DOMAIN new = {x \in DOMAIN rows : Rank(rows, x) < m}
  BY <1>1, <1>2, <1>3, <1>4, StoreBoundsAssumption
<1>. HIDE DEF new, m
<1>6. ASSUME NEW x \in DOMAIN new PROVE Rank(new, x) = Rank(rows, x)
  <2>1. ASSUME NEW y \in DOMAIN rows, Older(rows, x, y) PROVE y \in DOMAIN new
    <3>1. x \in DOMAIN rows /\ Rank(rows, x) < m /\ Rank(rows, x) \in Nat /\ Rank(rows, y) \in Nat
      BY <1>4, <1>5, RankType
    <3>2. Rank(rows, y) < Rank(rows, x)
      BY <2>1, <3>1, OlderRanks
    <3>. QED BY <1>3, <1>5, <3>1, <3>2
  <2>2. \A y \in DOMAIN new : Older(new, x, y) <=> Older(rows, x, y)
    BY <1>1 DEF Older
  <2>3. Newer(new, x) = Newer(rows, x)
    BY <1>5, <2>1, <2>2 DEF Newer
  <2>. QED BY <1>1, <2>3, RankType
<1>7. Count(new) = m
  <2> DEFINE f == [x \in DOMAIN new |-> Rank(rows, x)]
  <2>1. f \in [DOMAIN new -> 0..(m - 1)]
    BY <1>3, <1>4, <1>5
  <2>2. f \in Injection(DOMAIN new, 0..(m - 1))
    BY <1>5, <2>1, RanksDiffer DEF Injection, IsInjective
  <2>3. \A i \in 0..(m - 1) : \E x \in DOMAIN new : f[x] = i
    <3>1. ASSUME NEW i \in 0..(m - 1) PROVE \E x \in DOMAIN new : Rank(rows, x) = i
      <4>1. i \in 0..(n - 1) /\ i < m
        BY <1>2, <1>3
      <4>2. PICK x \in DOMAIN rows : Rank(rows, x) = i
        BY <4>1, RanksNumber
      <4>. QED BY <1>5, <4>1, <4>2
    <3>. QED BY <3>1
  <2>4. f \in Surjection(DOMAIN new, 0..(m - 1))
    BY <2>1, <2>3 DEF Surjection
  <2>5. IsFiniteSet(0..(m - 1)) /\ Cardinality(0..(m - 1)) = m
    <3>1. 0 \in Int /\ m - 1 \in Int
      BY <1>3
    <3>2. /\ IsFiniteSet(0..(m - 1))
          /\ Cardinality(0..(m - 1)) = IF 0 > m - 1 THEN 0 ELSE (m - 1) - 0 + 1
      BY <3>1, FS_Interval
    <3>. QED BY <1>3, <3>2
  <2>6. Cardinality(DOMAIN new) = Cardinality(0..(m - 1))
    <3>. HIDE DEF f
    <3>. QED BY <2>2, <2>4, <2>5, FS_Injection
  <2>. QED BY <2>5, <2>6 DEF Count
<1>. HIDE DEF s, n
<1>8. Len(t) = m /\ \A i \in 1..m : t[i] = s[n - m + i]
  BY <1>2, <1>3
<1>9. t \in Seq(DOMAIN rows)
  BY <1>2, <1>3
<1>. HIDE DEF t
<1>10. ASSUME NEW i \in 1..m PROVE t[i] \in DOMAIN new /\ Rank(new, t[i]) = m - i
  <2>1. n - m + i \in 1..n /\ n - (n - m + i) = m - i /\ m - i < m
    BY <1>2, <1>3
  <2>2. t[i] \in DOMAIN rows /\ Rank(rows, t[i]) = m - i
    BY <1>2, <1>8, <2>1
  <2>. QED BY <1>5, <1>6, <2>1, <2>2
<1>11. Ordered(new) = t
  BY <1>1, <1>7, <1>8, <1>9, <1>10, OrderedUnique
<1>. QED BY <1>2, <1>11 DEF Store!Newest, new, t, s, m

----------------------------------------------------------------------------
(* SqliteRunStore implements RunStore, until a call raises. *)

\* No row is from the future, and every row is of a run that was created.
Timely ==
  /\ \A x \in DOMAIN disk : disk[x].createdAt <= clock
  /\ DOMAIN disk \subseteq ToSet(created)
  /\ call.op = "create" =>
       call.at <= clock /\ \A x \in DOMAIN disk : disk[x].createdAt <= call.at
  /\ \A r \in Run : Len(tried[r]) = Len(emitted[r])
  /\ call.op = "event" => Len(tried[call.run]) < MaxEmitted

\* The open transaction is what the call has written so far, and no more.
Mirrors ==
  /\ call.op = "idle" => table = disk
  /\ call.op = "create" =>
       table = CASE call.step = "insert" -> disk
                 [] call.step = "evict"  -> Inserted(disk, call.run, call.at)
                 [] call.step = "commit" -> Evicted(Inserted(disk, call.run, call.at))
  /\ call.op \in {"event", "finish"} /\ call.step = "write" => table = disk
  /\ call.op = "event" /\ call.step = "commit" =>
       /\ call.run \in DOMAIN disk /\ Len(disk[call.run].events) < MaxEvents
       /\ table = [disk EXCEPT ![call.run].events = Append(@, call.event)]
  /\ call.op = "finish" /\ call.step = "commit" =>
       /\ call.run \in DOMAIN disk
       /\ table = [disk EXCEPT ![call.run].status = call.status]

Undisturbed == raised = <<>> => Timely /\ Mirrors

LEMMA InitUndisturbed == Init => Undisturbed
<1>1. SUFFICES ASSUME Init PROVE Undisturbed
  OBVIOUS
<1>. QED BY <1>1 DEF Init, Undisturbed, Timely, Mirrors, Idle

LEMMA CallTypes ==
  ASSUME TypeOK
  PROVE  /\ call.op = "idle" => call = Idle
         /\ call.op = "create" => call \in Creating
         /\ call.op = "event" => call \in Reporting
         /\ call.op = "finish" => call \in Finishing
BY DEF TypeOK, Idle, Creating, Reporting, Finishing

\* What create commits: the row it inserted, and rows that were there.
LEMMA CommitsRows ==
  ASSUME NEW rows, Rows(rows), NEW r \in Run, NEW at \in Nat
  PROVE  LET new == Evicted(Inserted(rows, r, at))
         IN /\ DOMAIN new \subseteq DOMAIN rows \cup {r}
            /\ \A x \in DOMAIN new : new[x] = IF x = r THEN NewRow(rows, at) ELSE rows[x]
<1> DEFINE ins == Inserted(rows, r, at)
<1>1. /\ Rows(ins) /\ DOMAIN ins = DOMAIN rows \cup {r} /\ ins[r] = NewRow(rows, at)
      /\ \A x \in DOMAIN rows \ {r} : ins[x] = rows[x]
  BY InsertedRows
<1>. HIDE DEF ins
<1>2. /\ DOMAIN Evicted(ins) \subseteq DOMAIN ins
      /\ \A x \in DOMAIN Evicted(ins) : Evicted(ins)[x] = ins[x]
  BY <1>1, EvictedFits
<1>. QED BY <1>1, <1>2 DEF ins

LEMMA UndisturbedStep ==
  ASSUME ~ClockStepsBack
  PROVE  TypeOK /\ Written /\ Undisturbed /\ [Next]_vars => Undisturbed'
<1>1. SUFFICES ASSUME TypeOK, Written, Undisturbed, [Next]_vars, raised' = <<>>
               PROVE  Timely' /\ Mirrors'
  BY DEF Undisturbed
<1>. USE <1>1
<1>2. ~CallRaises
  <2>1. SUFFICES ASSUME CallRaises PROVE FALSE
    OBVIOUS
  <2>2. PICK c : raised' = Append(raised, c)
    BY <2>1 DEF CallRaises
  <2>3. Len(Append(raised, c)) = Len(raised) + 1 /\ Len(raised) \in Nat
    BY DEF TypeOK
  <2>. QED BY <2>2, <2>3
<1>3. raised = <<>>
  BY <1>2 DEF Next, vars, fates, CreateBegins, EventBegins, FinishBegins, CreateInserts,
     CreateEvicts, CreateCommits, EventWrites, EventReturns, FinishWrites, FinishReturns,
     ClockMoves, Restart
<1>4. Timely /\ Mirrors
  BY <1>3 DEF Undisturbed
<1>5. clock \in Nat /\ MaxClock \in Nat
  BY ClockAssumption DEF TypeOK
<1>6. ASSUME NEW r \in Run, CreateBegins(r) PROVE Timely' /\ Mirrors'
  <2>1. call = Idle /\ call' = [op |-> "create", run |-> r, at |-> clock, step |-> "insert"]
        /\ UNCHANGED <<clock, table, disk, created, emitted, tried>>
    BY <1>6 DEF CreateBegins, calls, fates
  <2>. QED BY <1>4, <1>5, <2>1 DEF Timely, Mirrors, Idle
<1>7. ASSUME NEW r \in Run, NEW e \in Event, EventBegins(r, e) PROVE Timely' /\ Mirrors'
  <2>1. call = Idle /\ call' = [op |-> "event", run |-> r, event |-> e, step |-> "write"]
        /\ UNCHANGED <<clock, table, disk, created, emitted, tried>> /\ Len(tried[r]) < MaxEmitted
    BY <1>7 DEF EventBegins, calls, fates
  <2>. QED BY <1>4, <2>1 DEF Timely, Mirrors, Idle
<1>8. ASSUME NEW r \in Run, NEW status \in {"completed", "failed"}, FinishBegins(r, status)
      PROVE  Timely' /\ Mirrors'
  <2>1. call = Idle /\ call' = [op |-> "finish", run |-> r, status |-> status, step |-> "write"]
        /\ UNCHANGED <<clock, table, disk, created, emitted, tried>>
    BY <1>8 DEF FinishBegins, calls, fates
  <2>. QED BY <1>4, <2>1 DEF Timely, Mirrors, Idle
<1>9. CASE CreateInserts
  <2>1. /\ call \in Creating /\ call.step = "insert" /\ call' = [call EXCEPT !.step = "evict"]
        /\ UNCHANGED <<clock, disk, created, emitted, tried>>
        /\ table' = Inserted(table, call.run, call.at)
    BY <1>9, CreateInserted DEF CreateInserts, calls, fates
  <2>2. /\ call'.op = "create" /\ call'.step = "evict" /\ call'.run = call.run
        /\ call'.at = call.at /\ call.op = "create"
    BY <2>1 DEF Creating
  <2>. QED BY <1>4, <2>1, <2>2 DEF Timely, Mirrors
<1>10. CASE CreateEvicts
  <2>1. /\ call \in Creating /\ call.step = "evict" /\ call' = [call EXCEPT !.step = "commit"]
        /\ UNCHANGED <<clock, disk, created, emitted, tried>> /\ table' = Evicted(table)
    BY <1>10, CreateEvicted DEF CreateEvicts, calls, fates
  <2>2. /\ call'.op = "create" /\ call'.step = "commit" /\ call'.run = call.run
        /\ call'.at = call.at /\ call.op = "create"
    BY <2>1 DEF Creating
  <2>. QED BY <1>4, <2>1, <2>2 DEF Timely, Mirrors
<1>11. CASE CreateCommits
  <2>1. /\ call \in Creating /\ call.op = "create" /\ call.step = "commit" /\ call' = Idle
        /\ disk' = table /\ UNCHANGED <<clock, table, emitted, tried>>
    BY <1>11, CallTypes DEF CreateCommits, Commit, Committed, fates
  <2>2. /\ table = Evicted(Inserted(disk, call.run, call.at))
        /\ call.at <= clock /\ call.at \in Nat /\ call.run \in Run
        /\ \A x \in DOMAIN disk : disk[x].createdAt <= clock
    BY <1>4, <1>5, <2>1 DEF Timely, Mirrors, Creating
  <2>3. Rows(disk) /\ NewRow(disk, call.at).createdAt = call.at
    BY DEF TypeOK, NewRow
  <2>4. PICK r \in Run, at \in Nat : r = call.run /\ at = call.at
    BY <2>2
  <2>5. /\ DOMAIN Evicted(Inserted(disk, r, at)) \subseteq DOMAIN disk \cup {r}
        /\ \A x \in DOMAIN Evicted(Inserted(disk, r, at)) :
             Evicted(Inserted(disk, r, at))[x] = IF x = r THEN NewRow(disk, at) ELSE disk[x]
    BY <2>3, CommitsRows
  <2>6. /\ DOMAIN table \subseteq DOMAIN disk \cup {call.run}
        /\ \A x \in DOMAIN table : table[x] = IF x = call.run THEN NewRow(disk, call.at) ELSE disk[x]
    BY <2>2, <2>4, <2>5
  <2>7. ToSet(created') = ToSet(created) \cup {call.run}
    BY <1>11, CreatedGrows
  <2>. QED BY <1>4, <2>1, <2>2, <2>3, <2>6, <2>7 DEF Timely, Mirrors, Idle
<1>12. CASE EventWrites
  <2>1. /\ call \in Reporting /\ call.run \in DOMAIN table /\ call' = [call EXCEPT !.step = "commit"]
        /\ UNCHANGED <<clock, disk, created, emitted, tried>>
        /\ call.step = "write" /\ Len(table[call.run].events) < MaxEvents
        /\ table' = [table EXCEPT ![call.run].events = Append(@, call.event)]
    BY <1>12, EventWritten DEF EventWrites, HasRoom, calls, fates
  <2>2. /\ call'.op = "event" /\ call'.step = "commit" /\ call'.run = call.run
        /\ call'.event = call.event /\ call.op = "event"
    BY <2>1 DEF Reporting
  <2>3. table = disk
    BY <1>4, <2>1, <2>2 DEF Mirrors
  <2>. QED BY <1>4, <2>1, <2>2, <2>3 DEF Timely, Mirrors
<1>13. CASE EventReturns
  <2>1. /\ call \in Reporting /\ call' = Idle /\ UNCHANGED <<clock, table, created>>
        /\ table' = disk'
    <3>1. call \in Reporting
      BY <1>13, CallTypes DEF EventReturns
    <3>2. (Commit /\ UNCHANGED created) \/ (call.step = "write" /\ Return /\ UNCHANGED created)
      BY <1>13 DEF EventReturns
    <3>3. call.step = "write" => table = disk
      BY <1>4, <3>1 DEF Mirrors, Reporting
    <3>. QED BY <3>1, <3>2, <3>3 DEF Commit, Committed, Return
  <2>2. \A r \in Run : Len(tried'[r]) = Len(emitted'[r])
    <3>1. PICK fate \in {"kept", "dropped"} : Tried(fate)
      BY <1>13 DEF EventReturns
    <3> DEFINE x == [event |-> call.event, fate |-> fate]
    <3>2. tried' = [tried EXCEPT ![call.run] = Append(@, x)]
          /\ emitted' = [emitted EXCEPT ![call.run] = Append(@, call.event)]
      BY <1>13, <3>1 DEF EventReturns, Tried
    <3>. HIDE DEF x
    <3>3. ASSUME NEW r \in Run PROVE Len(tried'[r]) = Len(emitted'[r])
      <4>1. /\ Len(Append(tried[r], x)) = Len(tried[r]) + 1
            /\ Len(Append(emitted[r], call.event)) = Len(emitted[r]) + 1
        BY DEF TypeOK
      <4>2. Len(tried[r]) = Len(emitted[r])
        BY <1>4 DEF Timely
      <4>3. /\ tried'[r] = IF r = call.run THEN Append(tried[r], x) ELSE tried[r]
            /\ emitted'[r] = IF r = call.run THEN Append(emitted[r], call.event) ELSE emitted[r]
        BY <3>2 DEF TypeOK
      <4>. QED BY <4>1, <4>2, <4>3
    <3>. QED BY <3>3
  <2>3. /\ \A x \in DOMAIN disk' : disk'[x].createdAt <= clock
        /\ DOMAIN disk' \subseteq ToSet(created)
    <3>1. CASE call.step = "write"
      <4>1. disk' = disk
        BY <1>4, <2>1, <3>1 DEF Mirrors, Reporting
      <4>. QED BY <1>4, <4>1 DEF Timely
    <3>2. CASE call.step = "commit"
      <4>1. /\ call.run \in DOMAIN disk
            /\ disk' = [disk EXCEPT ![call.run].events = Append(@, call.event)]
        BY <1>4, <2>1, <3>2 DEF Mirrors, Reporting
      <4>2. DOMAIN disk' = DOMAIN disk /\ \A x \in DOMAIN disk : disk[x] \in Row
        BY <4>1 DEF TypeOK, Rows
      <4>3. \A x \in DOMAIN disk : disk'[x].createdAt = disk[x].createdAt
        BY <4>1, <4>2 DEF Row
      <4>. QED BY <1>4, <4>2, <4>3 DEF Timely
    <3>. QED BY <2>1, <3>1, <3>2 DEF Reporting
  <2>. QED BY <2>1, <2>2, <2>3 DEF Timely, Mirrors, Idle
<1>14. CASE FinishWrites
  <2>1. /\ call \in Finishing /\ call.run \in DOMAIN table /\ call' = [call EXCEPT !.step = "commit"]
        /\ UNCHANGED <<clock, disk, created, emitted, tried>> /\ call.step = "write"
        /\ table' = [table EXCEPT ![call.run].status = call.status]
    BY <1>14, FinishWritten DEF FinishWrites, calls, fates
  <2>2. /\ call'.op = "finish" /\ call'.step = "commit" /\ call'.run = call.run
        /\ call'.status = call.status /\ call.op = "finish"
    BY <2>1 DEF Finishing
  <2>3. table = disk
    BY <1>4, <2>1, <2>2 DEF Mirrors
  <2>. QED BY <1>4, <2>1, <2>2, <2>3 DEF Timely, Mirrors
<1>15. CASE FinishReturns
  <2>1. /\ call \in Finishing /\ call' = Idle /\ UNCHANGED <<clock, table, created, emitted, tried>>
        /\ table' = disk'
    <3>1. call \in Finishing
      BY <1>15, CallTypes DEF FinishReturns
    <3>2. Commit \/ (call.step = "write" /\ Return)
      BY <1>15 DEF FinishReturns
    <3>3. call.step = "write" => table = disk
      BY <1>4, <3>1 DEF Mirrors, Finishing
    <3>. QED BY <1>15, <3>1, <3>2, <3>3 DEF FinishReturns, Commit, Committed, Return
  <2>2. /\ \A x \in DOMAIN disk' : disk'[x].createdAt <= clock
        /\ DOMAIN disk' \subseteq ToSet(created)
    <3>1. CASE call.step = "write"
      <4>1. disk' = disk
        BY <1>4, <2>1, <3>1 DEF Mirrors, Finishing
      <4>. QED BY <1>4, <4>1 DEF Timely
    <3>2. CASE call.step = "commit"
      <4>1. /\ call.run \in DOMAIN disk
            /\ disk' = [disk EXCEPT ![call.run].status = call.status]
        BY <1>4, <2>1, <3>2 DEF Mirrors, Finishing
      <4>2. DOMAIN disk' = DOMAIN disk /\ \A x \in DOMAIN disk : disk[x] \in Row
        BY <4>1 DEF TypeOK, Rows
      <4>3. \A x \in DOMAIN disk : disk'[x].createdAt = disk[x].createdAt
        BY <4>1, <4>2 DEF Row
      <4>. QED BY <1>4, <4>2, <4>3 DEF Timely
    <3>. QED BY <2>1, <3>1, <3>2 DEF Finishing
  <2>. QED BY <1>4, <2>1, <2>2 DEF Timely, Mirrors, Idle
<1>16. CASE ClockMoves
  <2>1. clock' \in Nat /\ clock' > clock /\ UNCHANGED <<table, disk, call, created, emitted, tried>>
    BY <1>5, <1>16 DEF ClockMoves, calls, fates
  <2>2. \A x \in DOMAIN disk : disk[x].createdAt \in Nat
    BY DEF TypeOK, Rows, Row
  <2>3. call.op = "create" => call.at \in Nat
    BY <1>5, CallTypes DEF Creating
  <2>4. \A x \in DOMAIN disk : disk[x].createdAt <= clock'
    BY <1>4, <1>5, <2>1, <2>2 DEF Timely
  <2>5. call.op = "create" => call.at <= clock'
    BY <1>4, <1>5, <2>1, <2>3 DEF Timely
  <2>6. Timely'
    BY <1>4, <2>1, <2>4, <2>5 DEF Timely
  <2>7. Mirrors'
    BY <1>4, <2>1 DEF Mirrors
  <2>. QED BY <2>6, <2>7
<1>17. CASE Restart
  <2>1. table' = disk' /\ call' = Idle /\ UNCHANGED <<clock, disk, created, emitted, tried>>
    BY <1>17 DEF Restart, calls, fates
  <2>. QED BY <1>4, <2>1 DEF Timely, Mirrors, Idle
<1>18. CASE UNCHANGED vars
  BY <1>4, <1>18 DEF vars, calls, fates, Timely, Mirrors
<1>. QED BY <1>2, <1>6, <1>7, <1>8, <1>9, <1>10, <1>11, <1>12, <1>13, <1>14, <1>15, <1>16,
            <1>17, <1>18 DEF Next

\* The records of the rows, as RunStore sees them.
RecordOf(rows) == [r \in DOMAIN rows |-> [status |-> rows[r].status, events |-> rows[r].events]]

\* RunStore's operators on sequences are the ones of SqliteRunStore.
LEMMA StoreSets == \A s : Store!ToSet(s) = ToSet(s)
BY DEF Store!ToSet, ToSet

LEMMA CreateImplements ==
  ASSUME TypeOK, Written, Timely, Mirrors, CreateCommits
  PROVE  \E r \in Run : Store!Create(r)
<1>1. /\ call \in Creating /\ call.op = "create" /\ call.step = "commit"
      /\ disk' = table /\ created' = Append(created, call.run) /\ UNCHANGED <<emitted, told>>
  BY CallTypes DEF CreateCommits, Commit, Committed
<1>2. PICK r \in Run, at \in Nat : r = call.run /\ at = call.at
  BY <1>1, ClockAssumption DEF Creating
<1> DEFINE ins == Inserted(disk, r, at)
<1>3. /\ disk' = Evicted(ins) /\ Rows(disk)
      /\ \A x \in DOMAIN disk : disk[x].createdAt <= at
      /\ r \notin ToSet(created) /\ r \notin DOMAIN disk
  BY <1>1, <1>2 DEF TypeOK, Timely, Mirrors, Written
<1>4. Rows(ins)
  BY <1>3, InsertedRows
<1>5. Ordered(ins) = Append(Ordered(disk), r)
  BY <1>3, OrderedInsert
<1>6. Ordered(disk') = Store!Newest(Append(Ordered(disk), r), MaxRuns)
  <2>. HIDE DEF ins
  <2>. QED BY <1>3, <1>4, <1>5, OrderedEvict
<1>7. Rows(disk') /\ ToSet(Ordered(disk')) = DOMAIN disk'
  <2>. HIDE DEF ins
  <2>1. Rows(Evicted(ins))
    BY <1>4, EvictedFits
  <2>2. ToSet(Ordered(Evicted(ins))) = DOMAIN Evicted(ins)
    BY <2>1, OrderedSet
  <2>. QED BY <1>3, <2>1, <2>2
<1>8. /\ DOMAIN disk' \subseteq DOMAIN disk \cup {r}
      /\ \A x \in DOMAIN disk' : disk'[x] = IF x = r THEN NewRow(disk, at) ELSE disk[x]
  <2>1. /\ DOMAIN Evicted(ins) \subseteq DOMAIN disk \cup {r}
        /\ \A x \in DOMAIN Evicted(ins) :
             Evicted(ins)[x] = IF x = r THEN NewRow(disk, at) ELSE disk[x]
    BY <1>3, CommitsRows
  <2>. HIDE DEF ins
  <2>. QED BY <1>3, <2>1
<1>9. RecordOf(disk') =
        [k \in DOMAIN disk' |-> IF k = r THEN Store!FreshRecord ELSE RecordOf(disk)[k]]
  <2>1. ASSUME NEW k \in DOMAIN disk'
        PROVE  [status |-> disk'[k].status, events |-> disk'[k].events]
                 = IF k = r THEN Store!FreshRecord ELSE RecordOf(disk)[k]
    <3>1. CASE k = r
      BY <1>8, <3>1 DEF NewRow, Store!FreshRecord
    <3>2. CASE k # r
      BY <1>8, <3>2 DEF RecordOf
    <3>. QED BY <3>1, <3>2
  <2>. QED BY <2>1 DEF RecordOf
<1>10. RecordOf(disk') = [k \in ToSet(Store!Newest(Append(Ordered(disk), r), MaxRuns)) |->
                            IF k = r THEN Store!FreshRecord ELSE RecordOf(disk)[k]]
  BY <1>6, <1>7, <1>9
<1>11. Store!OrderAfter(r) = Store!Newest(Append(Ordered(disk), r), MaxRuns)
  BY DEF Store!OrderAfter
<1>12. Store!RecordsAfter(r) =
         [k \in ToSet(Store!OrderAfter(r)) |->
            IF k = r THEN Store!FreshRecord ELSE RecordOf(disk)[k]]
  BY StoreSets, Zenon DEF Store!RecordsAfter, RecordOf
<1>13. Ordered(disk)' = Store!OrderAfter(r) /\ RecordOf(disk)' = Store!RecordsAfter(r)
  BY <1>6, <1>10, <1>11, <1>12
<1>14. r \notin Store!ToSet(created) /\ created' = Append(created, r) /\ UNCHANGED <<emitted, told>>
  BY <1>1, <1>2, <1>3, StoreSets
<1>15. Store!Create(r)
  BY <1>13, <1>14, Zenon DEF Store!Create, RecordOf
<1>. QED BY <1>15

\* The table with another row for r.
Replaced(rows, r, row) == [rows EXCEPT ![r] = row]

\* Replacing a row by one of the same time and rowid keeps the order.
LEMMA ReplacedView ==
  ASSUME NEW rows, Rows(rows), NEW r \in DOMAIN rows, NEW row,
         row.createdAt = rows[r].createdAt, row.rowid = rows[r].rowid,
         Rows(Replaced(rows, r, row))
  PROVE  /\ Ordered(Replaced(rows, r, row)) = Ordered(rows)
         /\ RecordOf(Replaced(rows, r, row)) =
              Replaced(RecordOf(rows), r, [status |-> row.status, events |-> row.events])
<1> DEFINE new == Replaced(rows, r, row)
<1>1. /\ DOMAIN new = DOMAIN rows /\ new[r] = row
      /\ \A x \in DOMAIN rows : x # r => new[x] = rows[x]
  BY DEF Rows, Replaced
<1>. HIDE DEF new
<1>2. Rows(new)
  BY DEF new
<1>3. Ordered(new) = Ordered(rows)
  BY <1>1, <1>2, OrderedSame
<1>4. RecordOf(new) =
        [RecordOf(rows) EXCEPT ![r] = [status |-> row.status, events |-> row.events]]
  BY <1>1 DEF RecordOf
<1>. QED BY <1>3, <1>4 DEF new, Replaced

LEMMA EventImplements ==
  ASSUME TypeOK, TypeOK', Written, Timely, Mirrors, EventReturns
  PROVE  \E r \in Run, e \in Event : Store!ReportEvent(r, e)
<1>1. /\ call \in Reporting /\ call.op = "event"
      /\ emitted' = [emitted EXCEPT ![call.run] = Append(@, call.event)]
      /\ UNCHANGED <<created, told>>
  BY CallTypes DEF EventReturns
<1>2. PICK r \in Run, e \in Event : r = call.run /\ e = call.event
  BY <1>1 DEF Reporting
<1>3. /\ r \in Store!ToSet(created) /\ Len(emitted[r]) < MaxEmitted
      /\ emitted' = [emitted EXCEPT ![r] = Append(@, e)]
  BY <1>1, <1>2, StoreSets DEF Timely, TypeOK, Written
<1> DEFINE rec == RecordOf(disk)
<1>4. /\ Ordered(disk)' = Ordered(disk)
      /\ RecordOf(disk)' = IF r \in DOMAIN rec
                           THEN [rec EXCEPT ![r].events = Store!Extended(@, e)] ELSE rec
  <2>1. CASE call.step = "write" /\ ~HasRoom(call.run) /\ Return
    <3>1. disk' = disk /\ table = disk
      BY <1>1, <2>1 DEF Mirrors, Return
    <3>2. r \in DOMAIN disk => ~(Len(disk[r].events) < MaxEvents)
      BY <1>2, <2>1, <3>1 DEF HasRoom
    <3>3. DOMAIN rec = DOMAIN disk
          /\ (r \in DOMAIN disk => rec[r] = [status |-> disk[r].status, events |-> disk[r].events])
      BY DEF RecordOf
    <3>4. r \in DOMAIN rec => Store!Extended(rec[r].events, e) = rec[r].events
      BY <3>2, <3>3 DEF Store!Extended
    <3>5. rec = [x \in DOMAIN rec |-> rec[x]]
      BY DEF RecordOf
    <3>6. r \in DOMAIN rec => rec[r] = [rec[r] EXCEPT !.events = Store!Extended(@, e)]
      BY <3>3, <3>4
    <3>. HIDE DEF rec
    <3>7. r \in DOMAIN rec => rec = [rec EXCEPT ![r].events = Store!Extended(@, e)]
      BY <3>5, <3>6
    <3>. QED BY <3>1, <3>7 DEF rec
  <2>2. CASE call.step = "commit" /\ Commit
    <3>0. PICK row : row = [disk[r] EXCEPT !.events = Append(@, e)]
      OBVIOUS
    <3>1. /\ r \in DOMAIN disk /\ Len(disk[r].events) < MaxEvents
          /\ disk' = [disk EXCEPT ![r] = row]
      BY <1>1, <1>2, <2>2, <3>0 DEF Mirrors, Commit, Committed
    <3>2. disk[r] \in Row /\ Rows(disk) /\ Rows(disk')
      BY <3>1 DEF TypeOK, Rows
    <3>3. /\ row.createdAt = disk[r].createdAt /\ row.rowid = disk[r].rowid
          /\ row.status = disk[r].status /\ row.events = Append(disk[r].events, e)
      BY <3>0, <3>2 DEF Row
    <3>4. /\ Ordered(disk') = Ordered(disk)
          /\ RecordOf(disk') =
               [rec EXCEPT ![r] = [status |-> row.status, events |-> row.events]]
      <4>1. disk' = Replaced(disk, r, row) /\ Rows(Replaced(disk, r, row))
        BY <3>1, <3>2 DEF Replaced
      <4>2. /\ Ordered(Replaced(disk, r, row)) = Ordered(disk)
            /\ RecordOf(Replaced(disk, r, row)) =
                 Replaced(RecordOf(disk), r, [status |-> row.status, events |-> row.events])
        BY <3>1, <3>2, <3>3, <4>1, ReplacedView
      <4>. QED BY <4>1, <4>2 DEF Replaced
    <3>5. DOMAIN rec = DOMAIN disk
          /\ rec[r] = [status |-> disk[r].status, events |-> disk[r].events]
      BY <3>1 DEF RecordOf
    <3>6. Store!Extended(rec[r].events, e) = Append(disk[r].events, e)
      BY <3>1, <3>5 DEF Store!Extended
    <3>. HIDE DEF rec
    <3>7. [status |-> row.status, events |-> row.events]
            = [rec[r] EXCEPT !.events = Store!Extended(@, e)]
      <4>1. [rec[r] EXCEPT !.events = Store!Extended(@, e)]
              = [status |-> disk[r].status, events |-> Store!Extended(rec[r].events, e)]
        BY <3>5
      <4>. QED BY <3>3, <3>6, <4>1
    <3>. QED BY <3>1, <3>4, <3>5, <3>7
  <2>. QED BY <2>1, <2>2 DEF EventReturns
<1>5. Store!ReportEvent(r, e)
  BY <1>1, <1>3, <1>4, Zenon DEF Store!ReportEvent, RecordOf
<1>. QED BY <1>5

LEMMA FinishImplements ==
  ASSUME TypeOK, TypeOK', Written, Timely, Mirrors, FinishReturns
  PROVE  \E r \in Run, status \in {"completed", "failed"} : Store!Finish(r, status)
<1>1. /\ call \in Finishing /\ call.op = "finish"
      /\ told' = [told EXCEPT ![call.run] = call.status] /\ UNCHANGED <<created, emitted>>
  BY CallTypes DEF FinishReturns
<1>2. PICK r \in Run, status \in {"completed", "failed"} : r = call.run /\ status = call.status
  BY <1>1 DEF Finishing
<1>3. r \in Store!ToSet(created) /\ told' = [told EXCEPT ![r] = status]
  BY <1>1, <1>2, StoreSets DEF TypeOK, Written
<1> DEFINE rec == RecordOf(disk)
<1>4. /\ Ordered(disk)' = Ordered(disk)
      /\ RecordOf(disk)' = IF r \in DOMAIN rec THEN [rec EXCEPT ![r].status = status] ELSE rec
  <2>1. CASE call.step = "write" /\ call.run \notin DOMAIN table /\ Return
    <3>1. disk' = disk /\ r \notin DOMAIN rec
      BY <1>1, <1>2, <2>1 DEF Mirrors, Return, RecordOf
    <3>. QED BY <3>1
  <2>2. CASE call.step = "commit" /\ Commit
    <3>0. PICK row : row = [disk[r] EXCEPT !.status = status]
      OBVIOUS
    <3>1. r \in DOMAIN disk /\ disk' = [disk EXCEPT ![r] = row]
      BY <1>1, <1>2, <2>2, <3>0 DEF Mirrors, Commit, Committed
    <3>2. disk[r] \in Row /\ Rows(disk) /\ Rows(disk')
      BY <3>1 DEF TypeOK, Rows
    <3>3. /\ row.createdAt = disk[r].createdAt /\ row.rowid = disk[r].rowid
          /\ row.status = status /\ row.events = disk[r].events
      BY <3>0, <3>2 DEF Row
    <3>4. /\ Ordered(disk') = Ordered(disk)
          /\ RecordOf(disk') =
               [rec EXCEPT ![r] = [status |-> row.status, events |-> row.events]]
      <4>1. disk' = Replaced(disk, r, row) /\ Rows(Replaced(disk, r, row))
        BY <3>1, <3>2 DEF Replaced
      <4>2. /\ Ordered(Replaced(disk, r, row)) = Ordered(disk)
            /\ RecordOf(Replaced(disk, r, row)) =
                 Replaced(RecordOf(disk), r, [status |-> row.status, events |-> row.events])
        BY <3>1, <3>2, <3>3, <4>1, ReplacedView
      <4>. QED BY <4>1, <4>2 DEF Replaced
    <3>5. DOMAIN rec = DOMAIN disk
          /\ rec[r] = [status |-> disk[r].status, events |-> disk[r].events]
      BY <3>1 DEF RecordOf
    <3>. HIDE DEF rec
    <3>6. [status |-> row.status, events |-> row.events] = [rec[r] EXCEPT !.status = status]
      BY <3>3, <3>5
    <3>. QED BY <3>1, <3>4, <3>5, <3>6
  <2>. QED BY <2>1, <2>2 DEF FinishReturns
<1>5. Store!Finish(r, status)
  BY <1>1, <1>3, <1>4, Zenon DEF Store!Finish, RecordOf
<1>. QED BY <1>5

\* An empty disk is an empty store.
LEMMA InitImplements == Init => Store!Init
<1>1. SUFFICES ASSUME Init PROVE Store!Init
  OBVIOUS
<1>2. disk = <<>> /\ DOMAIN disk = {}
  BY <1>1 DEF Init
<1>3. Ordered(disk) = <<>>
  BY <1>2, FS_EmptySet DEF Ordered
<1>4. [r \in DOMAIN disk |-> [status |-> disk[r].status, events |-> disk[r].events]] = <<>>
  BY <1>2
<1>. QED BY <1>1, <1>3, <1>4 DEF Init, Store!Init

\* Every step maps to an operation of the store or to none, or a call raised.
LEMMA StepImplements ==
  ASSUME ~ClockStepsBack
  PROVE  TypeOK /\ TypeOK' /\ Written /\ Undisturbed /\ [Next]_vars
           => [Store!Next \/ raised' # <<>>]_(Store!vars)
<1>1. SUFFICES ASSUME TypeOK, TypeOK', Written, Undisturbed, [Next]_vars, raised' = <<>>
               PROVE  Store!Next \/ UNCHANGED Store!vars
  OBVIOUS
<1>. USE <1>1
<1>2. ~CallRaises
  <2>1. SUFFICES ASSUME CallRaises PROVE FALSE
    OBVIOUS
  <2>2. PICK c : raised' = Append(raised, c)
    BY <2>1 DEF CallRaises
  <2>3. Len(Append(raised, c)) = Len(raised) + 1 /\ Len(raised) \in Nat
    BY DEF TypeOK
  <2>. QED BY <2>2, <2>3
<1>3. raised = <<>>
  BY <1>2 DEF Next, vars, fates, CreateBegins, EventBegins, FinishBegins, CreateInserts,
     CreateEvicts, CreateCommits, EventWrites, EventReturns, FinishWrites, FinishReturns,
     ClockMoves, Restart
<1>4. Timely /\ Mirrors
  BY <1>3 DEF Undisturbed
<1>5. CASE UNCHANGED <<disk, created, emitted, told>>
  BY <1>5 DEF Store!vars, Ordered, Rank, Older
<1>6. CASE CreateCommits
  BY <1>4, <1>6, CreateImplements DEF Store!Next
<1>7. CASE EventReturns
  BY <1>4, <1>7, EventImplements DEF Store!Next
<1>8. CASE FinishReturns
  BY <1>4, <1>8, FinishImplements DEF Store!Next
<1>. QED BY <1>2, <1>5, <1>6, <1>7, <1>8 DEF Next, vars, calls, CreateBegins, EventBegins,
       FinishBegins, CreateInserts, CreateEvicts, EventWrites, FinishWrites, ClockMoves, Restart

\* What is committed is a run store in memory that never forgets, through
\* crashes, while time goes forward and until a call first raises
\* (SQLiteRunStore, against InMemoryRunStore).
THEOREM DiskIsARunStore ==
  ASSUME ~ClockStepsBack
  PROVE  Spec => StoreSpec
<1>1. Init => TypeOK /\ Written /\ Undisturbed
  BY InitTypeOK, InitWritten, InitUndisturbed
<1>2. TypeOK /\ Written /\ Undisturbed /\ [Next]_vars => (TypeOK /\ Written /\ Undisturbed)'
  BY TypeStep, WrittenStep, UndisturbedStep
<1>3. TypeOK /\ TypeOK' /\ Written /\ Undisturbed /\ [Next]_vars
        => [Store!Next \/ raised' # <<>>]_(Store!vars)
  BY StepImplements
<1>. QED BY <1>1, <1>2, <1>3, InitImplements, PTL DEF Spec, StoreSpec

=============================================================================
