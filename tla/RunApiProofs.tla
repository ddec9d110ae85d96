---------------------------- MODULE RunApiProofs ----------------------------
(***************************************************************************)
(* Theorems about RunStore and RunApi, for every set of runs and requests  *)
(* and all bounds of the store.  A store by itself keeps the newest runs,  *)
(* however they go on, and a record is what its run said; behind the       *)
(* endpoints, over a store in memory or on SQLite, whatever its calls      *)
(* raise and leave behind, whatever the engine reports and when the        *)
(* process stops, records, timelines and answers also agree.               *)
(***************************************************************************)
EXTENDS RunApi, SequenceTheorems, TLAPS

\* A store by itself: any events, and any number of them.
CONSTANTS Event, MaxEmitted

Alone == INSTANCE RunStore

----------------------------------------------------------------------------
(* The newest elements of a sequence. *)

LEMMA NewestElements ==
  ASSUME NEW S, NEW s \in Seq(S), NEW n \in Nat
  PROVE  /\ Store!Newest(s, n) \in Seq(S)
         /\ Len(Store!Newest(s, n)) = Store!Least(n, Len(s))
         /\ \A i \in 1..Store!Least(n, Len(s)) :
              Store!Newest(s, n)[i] = s[Len(s) - Store!Least(n, Len(s)) + i]
<1> DEFINE k == Store!Least(n, Len(s))
<1>1. Len(s) \in Nat
  BY LenProperties
<1>2. k \in 0..Len(s) /\ k <= n
  BY <1>1 DEF Store!Least
<1>3. \A i \in Len(s) - k + 1..Len(s) : s[i] \in S
  BY <1>1, <1>2, ElementOfSeq
<1>4. /\ SubSeq(s, Len(s) - k + 1, Len(s)) \in Seq(S)
      /\ Len(SubSeq(s, Len(s) - k + 1, Len(s))) = k
      /\ \A i \in 1..k : SubSeq(s, Len(s) - k + 1, Len(s))[i] = s[Len(s) - k + i]
  BY <1>1, <1>2, <1>3, SubSeqProperties
<1>. QED BY <1>4 DEF Store!Newest

\* A store that keeps the newest n of what it has seen needs only what it kept
\* to keep the newest n of one more.
LEMMA NewestIsIncremental ==
  ASSUME NEW S, NEW s \in Seq(S), NEW e \in S, NEW n \in Nat
  PROVE  Store!Newest(Append(Store!Newest(s, n), e), n) = Store!Newest(Append(s, e), n)
<1> DEFINE kept == Store!Newest(s, n)
           a == Store!Newest(Append(kept, e), n)
           b == Store!Newest(Append(s, e), n)
           m == Store!Least(n, Len(s) + 1)
<1>1. /\ Len(s) \in Nat /\ kept \in Seq(S) /\ Len(kept) = Store!Least(n, Len(s))
      /\ \A i \in 1..Len(kept) : kept[i] = s[Len(s) - Len(kept) + i]
  <2>1. /\ kept \in Seq(S) /\ Len(kept) = Store!Least(n, Len(s))
        /\ \A i \in 1..Store!Least(n, Len(s)) : kept[i] = s[Len(s) - Store!Least(n, Len(s)) + i]
    BY NewestElements, Zenon
  <2>2. Len(s) \in Nat
    BY LenProperties
  <2>. HIDE DEF kept
  <2>. QED BY <2>1, <2>2
<1>. HIDE DEF kept
<1>2. /\ Append(s, e) \in Seq(S) /\ Len(Append(s, e)) = Len(s) + 1
      /\ \A i \in 1..Len(s) : Append(s, e)[i] = s[i]
      /\ Append(s, e)[Len(s) + 1] = e
  BY AppendProperties
<1>3. /\ Append(kept, e) \in Seq(S) /\ Len(Append(kept, e)) = Len(kept) + 1
      /\ \A i \in 1..Len(kept) : Append(kept, e)[i] = kept[i]
      /\ Append(kept, e)[Len(kept) + 1] = e
  BY <1>1, AppendProperties
<1>4. /\ Len(kept) \in Nat /\ Len(kept) <= Len(s)
      /\ m \in Nat /\ m <= Len(kept) + 1 /\ Store!Least(n, Len(kept) + 1) = m
  BY <1>1 DEF Store!Least
<1>5. /\ a \in Seq(S) /\ Len(a) = m
      /\ \A i \in 1..m : a[i] = Append(kept, e)[Len(Append(kept, e)) - m + i]
  <2>1. Append(kept, e) \in Seq(S) /\ Store!Least(n, Len(Append(kept, e))) = m
    BY <1>3, <1>4
  <2>2. /\ a \in Seq(S) /\ Len(a) = Store!Least(n, Len(Append(kept, e)))
        /\ \A i \in 1..Store!Least(n, Len(Append(kept, e))) :
             a[i] = Append(kept, e)[Len(Append(kept, e)) - Store!Least(n, Len(Append(kept, e))) + i]
    BY <2>1, NewestElements, Zenon
  <2>. HIDE DEF a, m
  <2>. QED BY <2>1, <2>2, Zenon
<1>6. /\ b \in Seq(S) /\ Len(b) = m
      /\ \A i \in 1..m : b[i] = Append(s, e)[Len(Append(s, e)) - m + i]
  <2>1. Append(s, e) \in Seq(S) /\ Store!Least(n, Len(Append(s, e))) = m
    BY <1>2
  <2>2. /\ b \in Seq(S) /\ Len(b) = Store!Least(n, Len(Append(s, e)))
        /\ \A i \in 1..Store!Least(n, Len(Append(s, e))) :
             b[i] = Append(s, e)[Len(Append(s, e)) - Store!Least(n, Len(Append(s, e))) + i]
    BY <2>1, NewestElements, Zenon
  <2>. HIDE DEF b, m
  <2>. QED BY <2>1, <2>2, Zenon
<1>. HIDE DEF a, b, m
<1>7. ASSUME NEW i \in 1..m PROVE a[i] = b[i]
  <2> DEFINE j == Len(kept) + 1 - m + i
  <2>1. /\ j \in 1..Len(kept) + 1
        /\ Len(Append(kept, e)) - m + i = j
        /\ Len(Append(s, e)) - m + i = Len(s) - Len(kept) + j
    BY <1>1, <1>2, <1>3, <1>4, SMTT(20)
  <2>2. a[i] = Append(kept, e)[j] /\ b[i] = Append(s, e)[Len(s) - Len(kept) + j]
    BY <1>5, <1>6, <2>1
  <2>. HIDE DEF j
  <2>3. CASE j = Len(kept) + 1
    <3>1. Len(s) - Len(kept) + j = Len(s) + 1
      BY <1>1, <1>4, <2>3
    <3>. QED BY <1>2, <1>3, <2>2, <2>3, <3>1
  <2>4. CASE j \in 1..Len(kept)
    <3>1. a[i] = s[Len(s) - Len(kept) + j]
      BY <1>1, <1>3, <2>2, <2>4
    <3>2. Len(s) - Len(kept) + j \in 1..Len(s)
      BY <1>1, <1>4, <2>4
    <3>. QED BY <1>2, <2>2, <3>1, <3>2
  <2>. QED BY <1>4, <2>1, <2>3, <2>4
<1>8. a = b
  BY <1>5, <1>6, <1>7, SeqEqual
<1>. QED BY <1>8 DEF a, b, kept

LEMMA NewestOfFew ==
  ASSUME NEW S, NEW s \in Seq(S), NEW n \in Nat, Len(s) <= n
  PROVE  Store!Newest(s, n) = s
<1>1. Len(s) \in Nat
  BY LenProperties
<1>2. Store!Least(n, Len(s)) = Len(s)
  BY <1>1 DEF Store!Least
<1>3. /\ Store!Newest(s, n) \in Seq(S) /\ Len(Store!Newest(s, n)) = Len(s)
      /\ \A i \in 1..Len(s) : Store!Newest(s, n)[i] = s[Len(s) - Len(s) + i]
  <2>1. /\ Store!Newest(s, n) \in Seq(S) /\ Len(Store!Newest(s, n)) = Store!Least(n, Len(s))
        /\ \A i \in 1..Store!Least(n, Len(s)) : Store!Newest(s, n)[i] = s[Len(s) - Store!Least(n, Len(s)) + i]
    BY NewestElements, Zenon
  <2>. QED BY <1>2, <2>1, Zenon
<1>4. \A i \in 1..Len(s) : Store!Newest(s, n)[i] = s[i]
  BY <1>1, <1>3
<1>. QED BY <1>3, <1>4, SeqEqual

\* What is kept of one more element is the element or was kept before.
LEMMA NewestMembers ==
  ASSUME NEW S, NEW s \in Seq(S), NEW e \in S, NEW n \in Nat
  PROVE  Store!ToSet(Store!Newest(Append(s, e), n)) \subseteq Store!ToSet(s) \cup {e}
<1> DEFINE t == Append(s, e)
           m == Store!Least(n, Len(t))
<1>1. /\ t \in Seq(S) /\ Len(t) = Len(s) + 1 /\ Len(s) \in Nat
      /\ \A i \in 1..Len(s) : t[i] = s[i]
      /\ t[Len(s) + 1] = e
  BY AppendProperties, LenProperties
<1>2. /\ Store!Newest(t, n) \in Seq(S) /\ Len(Store!Newest(t, n)) = m
      /\ \A i \in 1..m : Store!Newest(t, n)[i] = t[Len(t) - m + i]
  BY <1>1, NewestElements, Zenon
<1>3. m \in 0..Len(s) + 1
  BY <1>1 DEF Store!Least
<1>. HIDE DEF t, m
<1>4. ASSUME NEW i \in 1..m PROVE Store!Newest(t, n)[i] \in Store!ToSet(s) \cup {e}
  <2> DEFINE j == Len(t) - m + i
  <2>1. Store!Newest(t, n)[i] = t[j] /\ j \in 1..Len(s) + 1
    BY <1>1, <1>2, <1>3
  <2>. HIDE DEF j
  <2>2. CASE j = Len(s) + 1
    BY <1>1, <2>1, <2>2
  <2>3. CASE j \in 1..Len(s)
    <3>1. DOMAIN s = 1..Len(s)
      BY LenProperties
    <3>. QED BY <1>1, <2>1, <2>3, <3>1 DEF Store!ToSet
  <2>. QED BY <1>1, <2>1, <2>2, <2>3
<1>5. DOMAIN Store!Newest(t, n) = 1..m
  BY <1>2, LenProperties
<1>. QED BY <1>4, <1>5 DEF Store!ToSet, t

LEMMA AppendMembers ==
  ASSUME NEW S, NEW s \in Seq(S), NEW e \in S
  PROVE  Store!ToSet(Append(s, e)) = Store!ToSet(s) \cup {e}
<1>1. /\ Append(s, e) \in Seq(S) /\ Len(Append(s, e)) = Len(s) + 1 /\ Len(s) \in Nat
      /\ \A i \in 1..Len(s) : Append(s, e)[i] = s[i]
      /\ Append(s, e)[Len(s) + 1] = e
  BY AppendProperties, LenProperties
<1>2. DOMAIN s = 1..Len(s) /\ DOMAIN Append(s, e) = 1..Len(s) + 1
  BY <1>1, LenProperties
<1>3. 1..Len(s) + 1 = (1..Len(s)) \cup {Len(s) + 1}
  BY <1>1
<1>. QED BY <1>1, <1>2, <1>3 DEF Store!ToSet

----------------------------------------------------------------------------
(* The beginning of a sequence, up to the bound on events. *)

Beginning(s) == SubSeq(s, 1, Store!Least(MaxEvents, Len(s)))

LEMMA BeginningElements ==
  ASSUME MaxEvents \in Nat, NEW S, NEW s \in Seq(S)
  PROVE  /\ Beginning(s) \in Seq(S)
         /\ Len(Beginning(s)) = Store!Least(MaxEvents, Len(s))
         /\ \A i \in 1..Store!Least(MaxEvents, Len(s)) : Beginning(s)[i] = s[i]
<1> DEFINE k == Store!Least(MaxEvents, Len(s))
<1>1. Len(s) \in Nat
  BY LenProperties
<1>2. k \in 0..Len(s)
  BY <1>1 DEF Store!Least
<1>3. \A i \in 1..k : s[i] \in S
  BY <1>1, <1>2, ElementOfSeq
<1>4. /\ SubSeq(s, 1, k) \in Seq(S) /\ Len(SubSeq(s, 1, k)) = k
      /\ \A i \in 1..k : SubSeq(s, 1, k)[i] = s[i]
  BY <1>1, <1>2, <1>3, SubSeqProperties
<1>. QED BY <1>4 DEF Beginning

\* Appending up to the bound keeps the beginning of what was appended.
LEMMA ExtendedBeginning ==
  ASSUME MaxEvents \in Nat, NEW S, NEW s \in Seq(S), NEW e \in S
  PROVE  Store!Extended(Beginning(s), e) = Beginning(Append(s, e))
<1> DEFINE t == Append(s, e)
           a == Beginning(s)
           b == Beginning(t)
<1>1. /\ t \in Seq(S) /\ Len(t) = Len(s) + 1 /\ Len(s) \in Nat
      /\ \A i \in 1..Len(s) : t[i] = s[i]
      /\ t[Len(s) + 1] = e
  BY AppendProperties, LenProperties
<1>2. /\ a \in Seq(S) /\ Len(a) = Store!Least(MaxEvents, Len(s))
      /\ \A i \in 1..Store!Least(MaxEvents, Len(s)) : a[i] = s[i]
  BY BeginningElements, Zenon
<1>3. /\ b \in Seq(S) /\ Len(b) = Store!Least(MaxEvents, Len(t))
      /\ \A i \in 1..Store!Least(MaxEvents, Len(t)) : b[i] = t[i]
  BY <1>1, BeginningElements, Zenon
<1>. HIDE DEF t, a, b
<1>4. CASE Len(s) < MaxEvents
  <2>1. Len(a) = Len(s) /\ Len(b) = Len(s) + 1
    BY <1>1, <1>2, <1>3, <1>4 DEF Store!Least
  <2>2. /\ Append(a, e) \in Seq(S) /\ Len(Append(a, e)) = Len(s) + 1
        /\ \A i \in 1..Len(s) : Append(a, e)[i] = a[i]
        /\ Append(a, e)[Len(s) + 1] = e
    BY <1>2, <2>1, AppendProperties
  <2>3. \A i \in 1..Len(s) : Append(a, e)[i] = b[i]
    BY <1>1, <1>2, <1>3, <2>1, <2>2
  <2>4. Append(a, e)[Len(s) + 1] = b[Len(s) + 1]
    BY <1>1, <1>3, <2>1, <2>2
  <2>5. Append(a, e) = b
    BY <1>1, <1>3, <2>1, <2>2, <2>3, <2>4, SeqEqual
  <2>. QED BY <1>4, <2>1, <2>5 DEF Store!Extended, a, b, t
<1>5. CASE ~(Len(s) < MaxEvents)
  <2>1. Len(a) = MaxEvents /\ Len(b) = MaxEvents
    BY <1>1, <1>2, <1>3, <1>5 DEF Store!Least
  <2>2. \A i \in 1..MaxEvents : a[i] = b[i]
    BY <1>1, <1>2, <1>3, <1>5, <2>1
  <2>3. a = b
    BY <1>2, <1>3, <2>1, <2>2, SeqEqual
  <2>. QED BY <2>1, <2>3 DEF Store!Extended, a, b, t
<1>. QED BY <1>4, <1>5

----------------------------------------------------------------------------
(* What the operations of a store preserve, E being the events its callers *)
(* may report.                                                             *)

Status == {"running", "completed", "failed"}

StoreTyped(E) ==
  /\ created \in Seq(Run) /\ order \in Seq(Run)
  /\ emitted \in [Run -> Seq(E)] /\ told \in [Run -> Status]
  /\ record \in [Store!ToSet(order) -> [status : Status, events : Seq(E)]]

\* Run r has said nothing.
Silent(r) == emitted[r] = <<>> /\ told[r] = "running"

Truthful ==
  \A r \in DOMAIN record :
    record[r].status = told[r] /\ record[r].events = Beginning(emitted[r])

Kept(E) == StoreTyped(E) /\ order = Store!Newest(created, MaxRuns) /\ Truthful

LEMMA NewStoreIsKept ==
  ASSUME MaxRuns \in Nat, MaxEvents \in Nat, NEW E,
         created = <<>>, order = <<>>, record = <<>>,
         emitted \in [Run -> Seq(E)], told \in [Run -> Status]
  PROVE  Kept(E)
<1>1. <<>> \in Seq(Run) /\ Len(<<>>) = 0
  OBVIOUS
<1>2. Store!ToSet(<<>>) = {} /\ DOMAIN <<>> = {}
  BY DEF Store!ToSet
<1>3. <<>> \in [{} -> [status : Status, events : Seq(E)]]
  OBVIOUS
<1>4. StoreTyped(E)
  BY <1>1, <1>2, <1>3 DEF StoreTyped
<1>5. Store!Newest(<<>>, MaxRuns) = <<>>
  <2>1. Len(<<>>) <= MaxRuns
    BY <1>1
  <2>. QED BY <1>1, <2>1, NewestOfFew, Zenon
<1>6. Truthful
  BY <1>2 DEF Truthful
<1>. QED BY <1>4, <1>5, <1>6 DEF Kept

LEMMA KeptCreate ==
  ASSUME MaxRuns \in Nat, MaxEvents \in Nat, NEW E, Kept(E),
         NEW r \in Run, Silent(r), Store!Create(r)
  PROVE  Kept(E)'
<1>1. /\ created' = Append(created, r) /\ order' = Store!Newest(Append(order, r), MaxRuns)
      /\ r \notin Store!ToSet(created)
      /\ record' = [k \in Store!ToSet(order') |-> IF k = r THEN Store!FreshRecord ELSE record[k]]
      /\ emitted' = emitted /\ told' = told
  BY DEF Store!Create, Store!OrderAfter, Store!RecordsAfter
<1>2. /\ created \in Seq(Run) /\ order \in Seq(Run) /\ order = Store!Newest(created, MaxRuns)
      /\ emitted \in [Run -> Seq(E)] /\ told \in [Run -> Status]
      /\ record \in [Store!ToSet(order) -> [status : Status, events : Seq(E)]]
  BY DEF Kept, StoreTyped
<1>3. created' \in Seq(Run) /\ order' \in Seq(Run)
  <2>1. Append(created, r) \in Seq(Run) /\ Append(order, r) \in Seq(Run)
    BY <1>2, AppendProperties
  <2>. QED BY <1>1, <2>1, NewestElements
<1>4. order' = Store!Newest(created', MaxRuns)
  BY <1>1, <1>2, NewestIsIncremental
<1>5. Store!ToSet(order') \subseteq Store!ToSet(order) \cup {r}
  BY <1>1, <1>2, NewestMembers
<1>6. Store!FreshRecord \in [status : Status, events : Seq(E)]
  BY DEF Store!FreshRecord, Status
<1>7. StoreTyped(E)'
  <2>1. record' \in [Store!ToSet(order') -> [status : Status, events : Seq(E)]]
    BY <1>1, <1>2, <1>5, <1>6
  <2>. QED BY <1>1, <1>2, <1>3, <2>1 DEF StoreTyped
<1>8. Truthful'
  <2>1. emitted[r] = <<>> /\ told[r] = "running"
    BY DEF Silent
  <2>2. Beginning(<<>>) = <<>>
    <3>1. <<>> \in Seq(E) /\ Len(<<>>) = 0
      OBVIOUS
    <3>2. Store!Least(MaxEvents, 0) = 0
      BY DEF Store!Least
    <3>3. Beginning(<<>>) \in Seq(E) /\ Len(Beginning(<<>>)) = 0
      BY <3>1, <3>2, BeginningElements, Zenon
    <3>. QED BY <3>3, EmptySeq
  <2>3. ASSUME NEW k \in DOMAIN record'
        PROVE  record'[k].status = told'[k] /\ record'[k].events = Beginning(emitted'[k])
    <3>1. CASE k = r
      BY <1>1, <2>1, <2>2, <3>1 DEF Store!FreshRecord
    <3>2. CASE k # r
      <4>1. k \in DOMAIN record /\ record'[k] = record[k]
        BY <1>1, <1>2, <1>5, <3>2
      <4>. QED BY <1>1, <4>1 DEF Kept, Truthful
    <3>. QED BY <3>1, <3>2
  <2>. QED BY <2>3 DEF Truthful, Beginning
<1>. QED BY <1>4, <1>7, <1>8 DEF Kept

\* What ReportEvent does, however many events there are already.
TakesEvent(r, e) ==
  /\ r \in Store!ToSet(created)
  /\ emitted' = [emitted EXCEPT ![r] = Append(@, e)]
  /\ record' = IF r \in DOMAIN record
               THEN [record EXCEPT ![r].events = Store!Extended(@, e)] ELSE record
  /\ UNCHANGED <<order, created, told>>

LEMMA KeptReportEvent ==
  ASSUME MaxRuns \in Nat, MaxEvents \in Nat, NEW E, Kept(E), NEW r \in Run, NEW e \in E,
         TakesEvent(r, e)
  PROVE  Kept(E)'
<1>1. /\ r \in Store!ToSet(created) /\ emitted' = [emitted EXCEPT ![r] = Append(@, e)]
      /\ record' = IF r \in DOMAIN record
                   THEN [record EXCEPT ![r].events = Store!Extended(@, e)] ELSE record
      /\ order' = order /\ created' = created /\ told' = told
  BY DEF TakesEvent
<1>2. /\ created \in Seq(Run) /\ order \in Seq(Run)
      /\ emitted \in [Run -> Seq(E)] /\ told \in [Run -> Status]
      /\ record \in [Store!ToSet(order) -> [status : Status, events : Seq(E)]]
  BY DEF Kept, StoreTyped
<1>3. Append(emitted[r], e) \in Seq(E)
  BY <1>2, AppendProperties
<1>4. ASSUME r \in DOMAIN record
      PROVE  Store!Extended(record[r].events, e) = Beginning(Append(emitted[r], e))
  <2>1. record[r].events = Beginning(emitted[r])
    BY <1>4 DEF Kept, Truthful
  <2>. QED BY <1>2, <2>1, ExtendedBeginning
<1>5. Beginning(Append(emitted[r], e)) \in Seq(E)
  BY <1>3, BeginningElements
<1>6. StoreTyped(E)'
  <2>1. emitted' \in [Run -> Seq(E)]
    BY <1>1, <1>2, <1>3
  <2>2. record' \in [Store!ToSet(order) -> [status : Status, events : Seq(E)]]
    <3>1. CASE r \in DOMAIN record
      BY <1>1, <1>2, <1>4, <1>5, <3>1
    <3>2. CASE r \notin DOMAIN record
      BY <1>1, <1>2, <3>2
    <3>. QED BY <3>1, <3>2
  <2>. QED BY <1>1, <1>2, <2>1, <2>2 DEF StoreTyped
<1>7. Truthful'
  <2>1. ASSUME NEW k \in DOMAIN record'
        PROVE  record'[k].status = told'[k] /\ record'[k].events = Beginning(emitted'[k])
    <3>1. DOMAIN record' = DOMAIN record /\ k \in Run
      BY <1>1, <1>2 DEF Store!ToSet
    <3>2. record[k].status = told[k] /\ record[k].events = Beginning(emitted[k])
      BY <3>1 DEF Kept, Truthful
    <3>3. CASE k = r
      <4>1. /\ record'[r].status = record[r].status
            /\ record'[r].events = Store!Extended(record[r].events, e)
        BY <1>1, <1>2, <3>1, <3>3
      <4>2. emitted'[r] = Append(emitted[r], e)
        BY <1>1, <1>2
      <4>. QED BY <1>1, <1>4, <3>1, <3>2, <3>3, <4>1, <4>2
    <3>4. CASE k # r
      BY <1>1, <1>2, <3>1, <3>2, <3>4
    <3>. QED BY <3>3, <3>4
  <2>. QED BY <2>1 DEF Truthful, Beginning
<1>. QED BY <1>1, <1>6, <1>7 DEF Kept

LEMMA KeptFinish ==
  ASSUME MaxRuns \in Nat, MaxEvents \in Nat, NEW E, Kept(E), NEW r \in Run,
         NEW status \in {"completed", "failed"}, Store!Finish(r, status)
  PROVE  Kept(E)'
<1>1. /\ r \in Store!ToSet(created) /\ told' = [told EXCEPT ![r] = status]
      /\ record' = IF r \in DOMAIN record
                   THEN [record EXCEPT ![r].status = status] ELSE record
      /\ order' = order /\ created' = created /\ emitted' = emitted
  BY DEF Store!Finish
<1>2. /\ created \in Seq(Run) /\ order \in Seq(Run)
      /\ emitted \in [Run -> Seq(E)] /\ told \in [Run -> Status]
      /\ record \in [Store!ToSet(order) -> [status : Status, events : Seq(E)]]
  BY DEF Kept, StoreTyped
<1>3. StoreTyped(E)'
  <2>1. told' \in [Run -> Status]
    BY <1>1, <1>2 DEF Status
  <2>2. record' \in [Store!ToSet(order) -> [status : Status, events : Seq(E)]]
    BY <1>1, <1>2 DEF Status
  <2>. QED BY <1>1, <1>2, <2>1, <2>2 DEF StoreTyped
<1>4. Truthful'
  <2>1. ASSUME NEW k \in DOMAIN record'
        PROVE  record'[k].status = told'[k] /\ record'[k].events = Beginning(emitted'[k])
    <3>1. DOMAIN record' = DOMAIN record /\ k \in Run
      BY <1>1, <1>2 DEF Store!ToSet
    <3>2. record[k].status = told[k] /\ record[k].events = Beginning(emitted[k])
      BY <3>1 DEF Kept, Truthful
    <3>. QED BY <1>1, <1>2, <3>1, <3>2
  <2>. QED BY <2>1 DEF Truthful, Beginning
<1>. QED BY <1>1, <1>3, <1>4 DEF Kept

\* A call on the store that raises without an effect, and every step that is
\* not about the store, leave it as it is.
LEMMA KeptUnchanged ==
  ASSUME NEW E, Kept(E), UNCHANGED <<record, inMemory>> PROVE Kept(E)'
BY DEF inMemory, Kept, StoreTyped, Truthful, Beginning

\* What is kept is what the two properties say.
LEMMA KeptMeans ==
  ASSUME MaxRuns \in Nat, MaxEvents \in Nat, NEW E, Kept(E)
  PROVE  Store!KeepsTheNewest /\ Store!RecordsWhatItWasTold
<1>1. created \in Seq(Run) /\ order = Store!Newest(created, MaxRuns) /\ DOMAIN record = Store!ToSet(order)
  BY DEF Kept, StoreTyped
<1>2. order \in Seq(Run) /\ Len(order) <= MaxRuns
  <2>1. order \in Seq(Run) /\ Len(order) = Store!Least(MaxRuns, Len(created))
    BY <1>1, NewestElements
  <2>2. Len(created) \in Nat
    BY <1>1, LenProperties
  <2>. QED BY <2>1, <2>2 DEF Store!Least
<1>3. Store!Newest(order, MaxRuns) = order
  BY <1>2, NewestOfFew
<1>4. Store!KeepsTheNewest
  BY <1>1, <1>3 DEF Store!KeepsTheNewest, Store!Listing
<1>5. Store!RecordsWhatItWasTold
  BY DEF Kept, Truthful, Store!RecordsWhatItWasTold, Beginning
<1>. QED BY <1>4, <1>5

----------------------------------------------------------------------------
(* The store by itself. *)

\* The callers of a store do not report for a run before they create it.
AloneInv == Kept(Event) /\ \A r \in Run : r \notin Store!ToSet(created) => Silent(r)

\* The two instances differ in which events there are, and how many.
LEMMA AloneIsStore ==
  /\ \A r : Alone!Create(r) => Store!Create(r)
  /\ \A r, e : Alone!ReportEvent(r, e) => TakesEvent(r, e)
  /\ \A r, status : Alone!Finish(r, status) => Store!Finish(r, status)
<1>1. ASSUME NEW r, Alone!Create(r) PROVE Store!Create(r)
  BY <1>1 DEF Alone!Create, Store!Create, Alone!OrderAfter, Store!OrderAfter,
     Alone!RecordsAfter, Store!RecordsAfter, Alone!FreshRecord, Store!FreshRecord,
     Alone!Newest, Store!Newest, Alone!Least, Store!Least, Alone!ToSet, Store!ToSet
<1>2. ASSUME NEW r, NEW e, Alone!ReportEvent(r, e) PROVE TakesEvent(r, e)
  BY <1>2 DEF Alone!ReportEvent, TakesEvent, Alone!Extended, Store!Extended,
     Alone!ToSet, Store!ToSet
<1>3. ASSUME NEW r, NEW status, Alone!Finish(r, status) PROVE Store!Finish(r, status)
  BY <1>3 DEF Alone!Finish, Store!Finish, Alone!ToSet, Store!ToSet
<1>. QED BY <1>1, <1>2, <1>3

LEMMA AloneInit == ASSUME MaxRuns \in Nat, MaxEvents \in Nat, Alone!Init PROVE AloneInv
<1>1. emitted \in [Run -> Seq(Event)] /\ told \in [Run -> Status]
  BY DEF Alone!Init, Status
<1>2. Kept(Event)
  BY <1>1, NewStoreIsKept DEF Alone!Init
<1>. QED BY <1>2 DEF AloneInv, Silent, Alone!Init

LEMMA AloneStep ==
  ASSUME MaxRuns \in Nat, MaxEvents \in Nat, AloneInv, [Alone!Next]_(Alone!vars)
  PROVE  AloneInv'
<1>1. created \in Seq(Run) /\ emitted \in [Run -> Seq(Event)] /\ told \in [Run -> Status]
  BY DEF AloneInv, Kept, StoreTyped
<1>2. ASSUME NEW r \in Run, Store!Create(r) PROVE AloneInv'
  <2>1. Silent(r) /\ Store!ToSet(created) \subseteq Store!ToSet(created')
    BY <1>1, <1>2, AppendMembers DEF AloneInv, Store!Create
  <2>2. Kept(Event)'
    BY <1>2, <2>1, KeptCreate DEF AloneInv
  <2>. QED BY <1>2, <2>1, <2>2 DEF AloneInv, Silent, Store!Create
<1>3. ASSUME NEW r \in Run, NEW e \in Event, TakesEvent(r, e) PROVE AloneInv'
  <2>1. Kept(Event)'
    BY <1>3, KeptReportEvent DEF AloneInv
  <2>. QED BY <1>1, <1>3, <2>1 DEF AloneInv, Silent, TakesEvent
<1>4. ASSUME NEW r \in Run, NEW status \in {"completed", "failed"}, Store!Finish(r, status)
      PROVE  AloneInv'
  <2>1. Kept(Event)'
    BY <1>4, KeptFinish DEF AloneInv
  <2>. QED BY <1>1, <1>4, <2>1 DEF AloneInv, Silent, Store!Finish
<1>5. CASE UNCHANGED Alone!vars
  BY <1>5, KeptUnchanged DEF Alone!vars, inMemory, AloneInv, Silent
<1>. QED BY <1>2, <1>3, <1>4, <1>5, AloneIsStore DEF Alone!Next

LEMMA AloneMeans ==
  ASSUME MaxRuns \in Nat, MaxEvents \in Nat, AloneInv
  PROVE  Alone!KeepsTheNewest /\ Alone!RecordsWhatItWasTold
<1>1. Store!KeepsTheNewest /\ Store!RecordsWhatItWasTold
  BY KeptMeans DEF AloneInv
<1>2. Alone!KeepsTheNewest
  BY <1>1 DEF Alone!KeepsTheNewest, Store!KeepsTheNewest, Alone!Listing, Store!Listing,
     Alone!Newest, Store!Newest, Alone!Least, Store!Least, Alone!ToSet, Store!ToSet,
     Alone!Reverse, Store!Reverse
<1>3. Alone!RecordsWhatItWasTold
  BY <1>1 DEF Alone!RecordsWhatItWasTold, Store!RecordsWhatItWasTold, Alone!Least, Store!Least
<1>. QED BY <1>2, <1>3

\* The store holds the max_runs runs created last and lists them newest first,
\* for every bound and however many of them still run: create never evicts a
\* run while it keeps an older one.
THEOREM NewestAreKept ==
  ASSUME MaxRuns \in Nat, MaxEvents \in Nat
  PROVE  Alone!Spec => []Alone!KeepsTheNewest
<1>1. Alone!Init => AloneInv
  BY AloneInit
<1>2. AloneInv /\ [Alone!Next]_(Alone!vars) => AloneInv'
  BY AloneStep
<1>3. AloneInv => Alone!KeepsTheNewest
  BY AloneMeans
<1>. QED BY <1>1, <1>2, <1>3, PTL DEF Alone!Spec

\* A kept record has its run's status and the first max_events of its events
\* in the order reported, for every bound and every interleaving of runs.
THEOREM RecordsAreTruthful ==
  ASSUME MaxRuns \in Nat, MaxEvents \in Nat
  PROVE  Alone!Spec => []Alone!RecordsWhatItWasTold
<1>1. Alone!Init => AloneInv
  BY AloneInit
<1>2. AloneInv /\ [Alone!Next]_(Alone!vars) => AloneInv'
  BY AloneStep
<1>3. AloneInv => Alone!RecordsWhatItWasTold
  BY AloneMeans
<1>. QED BY <1>1, <1>2, <1>3, PTL DEF Alone!Spec

----------------------------------------------------------------------------
(* The inductive invariant: what a store in memory keeps, and how every row *)
(* of a run, in either store, agrees with where the run's handler is and    *)
(* with what its client was told.                                           *)

Row == [status : Status, events : Seq(ApiEvent)]

IsTable(rows) == DOMAIN rows \subseteq Run /\ rows \in [DOMAIN rows -> Row]

BeforeStart == {"new", "create", "report start"}
BeforeEnd   == {"engine", "report agent", "report completed", "report failed"}
Finishing   == {"finish completed", "finish failed"}

Typed ==
  /\ durable \in BOOLEAN
  /\ pc \in [Run -> StoreCalls \cup {"new", "engine", "answered", "lost"}]
  /\ answer \in [Run -> {None, "ok", "failed", "error", "refused"}]
  /\ thread \subseteq Run
  /\ IsTable(record) /\ IsTable(disk)

\* The handler that calls the store has the loop, and has begun the run of
\* which a thread runs.
Handled ==
  /\ \A r \in Run : pc[r] \in StoreCalls => loop = r
  /\ \A r \in thread : pc[r] \notin BeforeStart

\* A store in memory is told of a run only after its create.
Memory ==
  ~durable =>
    /\ Kept(ApiEvent) /\ disk = <<>>
    /\ \A r \in Run : pc[r] \in {"new", "create"} => r \notin Store!ToSet(created) /\ Silent(r)

\* What callers see and what is on disk are the same runs, until a create
\* raises, and again between one that returns and the run's first event.
Aligned ==
  durable /\ (unmade = {} \/ \E r \in Run : pc[r] = "report start") =>
    DOMAIN record = DOMAIN disk

\* A run has rows only from its create on, and they end when its client is told.
Told(r, row) ==
  /\ pc[r] \notin {"new", "create"} /\ answer[r] # "refused"
  /\ row.status # "running" => pc[r] = "answered"
  /\ answer[r] = "ok" => row.status \in MaySay("completed")
  /\ answer[r] = "failed" => row.status \in MaySay("failed")

\* They begin with run_started, before the engine or a thread runs.
Opened(r, seen) ==
  /\ pc[r] = "report start" => seen = <<>>
  /\ pc[r] \in BeforeEnd \cup Finishing \/ r \in thread => seen # <<>>
  /\ \A i \in DOMAIN seen : seen[i] = "run_started" <=> i = 1

\* The event i ends run r, and at most one report of a thread follows.
IsTheEnd(r, seen, i) ==
  /\ pc[r] \in Finishing \cup {"answered", "lost"}
  /\ pc[r] = "finish completed" \/ answer[r] = "ok" => seen[i] = "run_completed"
  /\ pc[r] = "finish failed" \/ answer[r] = "failed" => seen[i] = "run_failed"
  /\ i = Len(seen) \/ (i = Len(seen) - 1 /\ seen[i + 1] = "route" /\ r \notin thread)

Ended(r, seen) == \A i \in DOMAIN seen : seen[i] \in Terminal => IsTheEnd(r, seen, i)

RowInv(r, row) == Told(r, row) /\ Opened(r, row.events) /\ Ended(r, row.events)

IInv ==
  /\ Typed /\ Handled /\ Memory /\ Aligned
  /\ \A r \in Run : \A row \in Rows(r) : RowInv(r, row)

----------------------------------------------------------------------------
(* What the calls do to the rows. *)

NewRow == [status |-> "running", events |-> <<>>]
Grown(row, e) == [row EXCEPT !.events = Append(@, e)]
Finished(row, status) == [row EXCEPT !.status = status]

LEMMA RowsAre ==
  ASSUME NEW r, NEW row
  PROVE  /\ row \in Rows(r) <=> (r \in DOMAIN record /\ row = record[r])
                                \/ (r \in DOMAIN disk /\ row = disk[r])
         /\ row \in Rows(r)' <=> (r \in DOMAIN record' /\ row = record'[r])
                                 \/ (r \in DOMAIN disk' /\ row = disk'[r])
BY DEF Rows

LEMMA RowsAreTyped == ASSUME Typed, NEW r, NEW row \in Rows(r) PROVE row \in Row
BY RowsAre DEF Typed, IsTable

\* The tables after a step are made of rows there were, and of new rows of r.
MadeOf(r, made) ==
  \A rows \in {record', disk'} :
    /\ rows = [x \in DOMAIN rows |-> rows[x]]
    /\ \A x \in DOMAIN rows : \/ x \in DOMAIN record /\ rows[x] = record[x]
                              \/ x \in DOMAIN disk /\ rows[x] = disk[x]
                              \/ x = r /\ rows[x] \in made

LEMMA MadeOfMeans ==
  ASSUME Typed, NEW r \in Run, NEW made \in SUBSET Row, MadeOf(r, made)
  PROVE  /\ IsTable(record)' /\ IsTable(disk)'
         /\ \A q : \A row \in Rows(q)' : row \in Rows(q) \/ (q = r /\ row \in made)
<1>1. ASSUME NEW rows \in {record', disk'} PROVE IsTable(rows)
  <2>1. ASSUME NEW x \in DOMAIN rows PROVE x \in Run /\ rows[x] \in Row
    BY <1>1, <2>1 DEF MadeOf, Typed, IsTable
  <2>2. rows = [x \in DOMAIN rows |-> rows[x]]
    BY <1>1 DEF MadeOf
  <2>. QED BY <2>1, <2>2 DEF IsTable
<1>2. ASSUME NEW q, NEW row \in Rows(q)' PROVE row \in Rows(q) \/ (q = r /\ row \in made)
  <2>1. PICK rows \in {record', disk'} : q \in DOMAIN rows /\ row = rows[q]
    BY <1>2, RowsAre
  <2>. QED BY <2>1, RowsAre DEF MadeOf
<1>. QED BY <1>1, <1>2 DEF IsTable

LEMMA Same ==
  ASSUME Typed, NEW r \in Run, NEW made, record' \in {record, disk}, disk' \in {record, disk}
  PROVE  MadeOf(r, made)
BY DEF MadeOf, Typed, IsTable

LEMMA CreateMakes ==
  ASSUME IInv, NEW r \in Run, Creates(r) \/ CreateRaises(r)
  PROVE  MadeOf(r, {NewRow})
<1>1. CASE ~durable
  <2>1. Kept(ApiEvent) /\ UNCHANGED disk /\ Store!Create(r)
    BY <1>1 DEF IInv, Memory, Creates, CreateRaises
  <2>2. /\ order \in Seq(Run) /\ DOMAIN record = Store!ToSet(order)
        /\ order' = Store!Newest(Append(order, r), MaxRuns)
        /\ record' = [k \in Store!ToSet(order') |-> IF k = r THEN Store!FreshRecord ELSE record[k]]
    BY <2>1 DEF Kept, StoreTyped, Store!Create, Store!OrderAfter, Store!RecordsAfter
  <2>3. Store!ToSet(order') \subseteq Store!ToSet(order) \cup {r}
    BY <2>2, BoundsAssumption, NewestMembers
  <2>4. record' = [x \in DOMAIN record' |-> record'[x]] /\ DOMAIN record' \subseteq DOMAIN record \cup {r}
    BY <2>2, <2>3
  <2>5. \A x \in DOMAIN record' : IF x = r THEN record'[x] = NewRow ELSE record'[x] = record[x]
    BY <2>2 DEF Store!FreshRecord, NewRow
  <2>6. disk' = disk /\ disk = [x \in DOMAIN disk |-> disk[x]]
    BY <2>1 DEF IInv, Typed, IsTable
  <2>. QED BY <2>4, <2>5, <2>6 DEF MadeOf
<1>2. CASE durable
  <2> DEFINE t == Sqlite!Inserted(r)
  <2>1. /\ t = [x \in DOMAIN t |-> t[x]]
        /\ \A x \in DOMAIN t : (x \in DOMAIN record /\ t[x] = record[x]) \/ (x = r /\ t[x] = NewRow)
    BY DEF Sqlite!Inserted, NewRow
  <2>. HIDE DEF t
  <2>2. ASSUME NEW rows \in Sqlite!Evictions(t)
        PROVE  /\ rows = [x \in DOMAIN rows |-> rows[x]]
               /\ DOMAIN rows \subseteq DOMAIN t /\ \A x \in DOMAIN rows : rows[x] = t[x]
    <3>1. CASE rows = t
      BY <2>1, <3>1
    <3>2. CASE \E k \in SUBSET DOMAIN t : rows = Sqlite!Restrict(t, k)
      BY <3>2 DEF Sqlite!Restrict
    <3>. QED BY <2>2, <3>1, <3>2 DEF Sqlite!Evictions
  <2>3. \A rows \in {record', disk'} : rows \in {record, disk, t} \cup Sqlite!Evictions(t)
    BY <1>2 DEF Creates, CreateRaises, Sqlite!Create, Sqlite!Commit, Sqlite!CreateRaises,
       Sqlite!Raise, t
  <2>4. ASSUME NEW rows \in {record', disk'}
        PROVE  /\ rows = [x \in DOMAIN rows |-> rows[x]]
               /\ \A x \in DOMAIN rows : \/ x \in DOMAIN record /\ rows[x] = record[x]
                                         \/ x \in DOMAIN disk /\ rows[x] = disk[x]
                                         \/ x = r /\ rows[x] \in {NewRow}
    <3>1. CASE rows \in {record, disk}
      BY <3>1 DEF IInv, Typed, IsTable
    <3>2. CASE rows = t
      BY <2>1, <3>2
    <3>3. CASE rows \in Sqlite!Evictions(t)
      BY <2>1, <2>2, <3>3
    <3>. QED BY <2>3, <3>1, <3>2, <3>3
  <2>. QED BY <2>4 DEF MadeOf
<1>. QED BY <1>1, <1>2 DEF IInv, Typed

\* An event that returns or raises: what was grown, if anything.
LEMMA EventMakes ==
  ASSUME IInv, NEW r \in Run, NEW e \in ApiEvent, ReportsEvent(r, e) \/ EventRaises(r, e)
  PROVE  /\ MadeOf(r, {Grown(row, e) : row \in Rows(r)})
         /\ durable /\ DOMAIN record = DOMAIN disk => DOMAIN record' = DOMAIN disk'
<1> DEFINE t == [record EXCEPT ![r].events = Append(@, e)]
<1>1. r \in DOMAIN record =>
        /\ DOMAIN t = DOMAIN record /\ t = [x \in DOMAIN t |-> t[x]]
        /\ \A x \in DOMAIN t : x # r => t[x] = record[x]
        /\ t[r] = Grown(record[r], e) /\ record[r] \in Rows(r)
  BY RowsAre DEF Grown
<1>2. /\ record = [x \in DOMAIN record |-> record[x]]
      /\ disk = [x \in DOMAIN disk |-> disk[x]]
  BY DEF IInv, Typed, IsTable
<1>3. /\ record' \in {record, disk} \/ (r \in DOMAIN record /\ record' = t)
      /\ disk' = disk \/ disk' = record'
      /\ durable \/ disk' = disk
  <2>1. CASE durable
    BY <2>1 DEF ReportsEvent, EventRaises, Sqlite!ReportEvent, Sqlite!ReportRaises, Sqlite!Commit,
       Sqlite!Raise, Sqlite!HasRoom, Sqlite!Extended, Sqlite!vars
  <2>2. CASE ~durable /\ ~UNCHANGED store
    <3>1. Store!ReportEvent(r, e) /\ disk' = disk
      BY <2>2 DEF ReportsEvent, EventRaises
    <3>2. CASE r \in DOMAIN record
      <4>1. record' = [record EXCEPT ![r].events = Store!Extended(@, e)]
        BY <3>1, <3>2 DEF Store!ReportEvent
      <4>2. CASE Len(record[r].events) < MaxEvents
        <5>1. Store!Extended(record[r].events, e) = Append(record[r].events, e)
          BY <4>2 DEF Store!Extended
        <5>. QED BY <3>1, <3>2, <4>1, <5>1
      <4>3. CASE ~(Len(record[r].events) < MaxEvents)
        <5>1. Store!Extended(record[r].events, e) = record[r].events
          BY <4>3 DEF Store!Extended
        <5>2. record[r] \in Row
          BY <3>2 DEF IInv, Typed, IsTable
        <5>3. record' = record
          BY <1>2, <3>2, <4>1, <5>1, <5>2 DEF Row
        <5>. QED BY <3>1, <5>3
      <4>. QED BY <4>2, <4>3
    <3>3. CASE r \notin DOMAIN record
      BY <3>1, <3>3 DEF Store!ReportEvent
    <3>. QED BY <3>2, <3>3
  <2>3. CASE UNCHANGED store
    BY <2>3 DEF store
  <2>. QED BY <2>1, <2>2, <2>3 DEF IInv, Typed
<1>. HIDE DEF t
<1>4. MadeOf(r, {Grown(row, e) : row \in Rows(r)})
  <2>1. CASE record' \in {record, disk}
    <3>1. disk' \in {record, disk}
      BY <1>3, <2>1
    <3>. QED BY <2>1, <3>1, Same DEF IInv
  <2>2. CASE r \in DOMAIN record /\ record' = t
    BY <1>1, <1>2, <1>3, <2>2 DEF MadeOf
  <2>. QED BY <1>3, <2>1, <2>2
<1>. QED BY <1>1, <1>3, <1>4

LEMMA EmptyDomain == DOMAIN <<>> = {}
<1>1. <<>> \in Seq({}) /\ Len(<<>>) = 0
  OBVIOUS
<1>2. DOMAIN <<>> = 1..0
  BY <1>1, LenProperties
<1>. QED BY <1>2

LEMMA NoEvents == Len(<<>>) < MaxEvents
<1>1. Len(<<>>) = 0
  OBVIOUS
<1>. QED BY <1>1, BoundsAssumption

\* The first event of a run is in all its rows, if callers see what is on disk.
LEMMA StartMakes ==
  ASSUME IInv, NEW r \in Run, pc[r] = "report start", NEW e \in ApiEvent, ReportsEvent(r, e)
  PROVE  \A row \in Rows(r)' : \E old \in Rows(r) : row = Grown(old, e)
<1>1. \A row \in Rows(r) : row \in Row /\ row.events = <<>>
  BY RowsAreTyped DEF IInv, RowInv, Opened
<1>2. CASE durable
  <2>1. DOMAIN record = DOMAIN disk
    BY <1>2 DEF IInv, Aligned
  <2>2. CASE r \in DOMAIN record
    <3>1. record[r].events = <<>>
      BY <1>1, <2>2, RowsAre
    <3>2. Sqlite!HasRoom(r)
      BY <2>2, <3>1, NoEvents DEF Sqlite!HasRoom
    <3>3. disk' = record' /\ record' = [record EXCEPT ![r].events = Append(@, e)]
      BY <1>2, <3>2 DEF ReportsEvent, Sqlite!ReportEvent, Sqlite!Commit, Sqlite!Extended
    <3>4. disk'[r] = Grown(record[r], e) /\ record'[r] = Grown(record[r], e)
      BY <2>2, <3>3 DEF Grown
    <3>. QED BY <2>2, <3>4, RowsAre
  <2>3. CASE r \notin DOMAIN record
    <3>1. record' = record /\ disk' = disk
      BY <1>2, <2>3 DEF ReportsEvent, Sqlite!ReportEvent, Sqlite!HasRoom, Sqlite!vars
    <3>. QED BY <2>1, <2>3, <3>1, RowsAre
  <2>. QED BY <2>2, <2>3
<1>3. CASE ~durable
  <2>1. disk' = <<>> /\ disk = <<>> /\ Store!ReportEvent(r, e)
    BY <1>3 DEF ReportsEvent, IInv, Memory
  <2>2. DOMAIN <<>> = {}
    BY EmptyDomain
  <2>3. r \notin DOMAIN disk /\ r \notin DOMAIN disk'
    BY <2>1, <2>2
  <2>4. CASE r \in DOMAIN record
    <3>1. record[r].events = <<>>
      BY <1>1, <2>4, RowsAre
    <3>2. Store!Extended(record[r].events, e) = Append(record[r].events, e)
      BY <3>1, NoEvents DEF Store!Extended
    <3>3. record'[r] = Grown(record[r], e)
      <4>1. record' = [record EXCEPT ![r].events = Store!Extended(@, e)]
        BY <2>1, <2>4 DEF Store!ReportEvent
      <4>2. record'[r] = [record[r] EXCEPT !.events = Store!Extended(@, e)]
        BY <2>4, <4>1
      <4>. QED BY <3>2, <4>2 DEF Grown
    <3>. QED BY <2>4, <2>3, <3>3, RowsAre
  <2>5. CASE r \notin DOMAIN record
    <3>1. record' = record
      BY <2>1, <2>5 DEF Store!ReportEvent
    <3>. QED BY <2>5, <2>3, <3>1, RowsAre
  <2>. QED BY <2>4, <2>5
<1>. QED BY <1>2, <1>3 DEF IInv, Typed

LEMMA FinishMakes ==
  ASSUME IInv, NEW r \in Run, NEW status \in {"completed", "failed"},
         Finishes(r, status) \/ FinishRaises(r, status)
  PROVE  /\ MadeOf(r, {Finished(row, status) : row \in Rows(r)})
         /\ durable /\ DOMAIN record = DOMAIN disk => DOMAIN record' = DOMAIN disk'
         /\ Finishes(r, status) /\ (durable => DOMAIN record = DOMAIN disk) =>
              \A row \in Rows(r)' : \E old \in Rows(r) : row = Finished(old, status)
<1> DEFINE t == [record EXCEPT ![r].status = status]
<1>1. r \in DOMAIN record =>
        /\ DOMAIN t = DOMAIN record /\ t = [x \in DOMAIN t |-> t[x]]
        /\ \A x \in DOMAIN t : x # r => t[x] = record[x]
        /\ t[r] = Finished(record[r], status) /\ record[r] \in Rows(r)
  BY RowsAre DEF Finished
<1>2. /\ record = [x \in DOMAIN record |-> record[x]]
      /\ disk = [x \in DOMAIN disk |-> disk[x]]
  BY DEF IInv, Typed, IsTable
<1>3. /\ record' \in {record, disk} \/ (r \in DOMAIN record /\ record' = t)
      /\ disk' = disk \/ disk' = record'
      /\ durable \/ disk' = disk
      /\ Finishes(r, status) =>
           \/ r \in DOMAIN record /\ record' = t /\ (durable => disk' = record')
           \/ r \notin DOMAIN record /\ record' = record /\ disk' = disk
  <2>1. CASE durable /\ Finishes(r, status)
    BY <2>1 DEF Finishes, Sqlite!Finish, Sqlite!Commit, Sqlite!Ended, Sqlite!vars
  <2>2. CASE durable /\ ~Finishes(r, status)
    BY <2>2 DEF FinishRaises, Sqlite!FinishRaises, Sqlite!Raise, Sqlite!Ended
  <2>3. CASE ~durable /\ Finishes(r, status)
    BY <2>3 DEF Finishes, Store!Finish
  <2>4. CASE ~durable /\ ~Finishes(r, status)
    BY <2>4 DEF FinishRaises, store
  <2>. QED BY <2>1, <2>2, <2>3, <2>4 DEF IInv, Typed
<1>. HIDE DEF t
<1>4. MadeOf(r, {Finished(row, status) : row \in Rows(r)})
  <2>1. CASE record' \in {record, disk}
    <3>1. disk' \in {record, disk}
      BY <1>3, <2>1
    <3>. QED BY <2>1, <3>1, Same DEF IInv
  <2>2. CASE r \in DOMAIN record /\ record' = t
    BY <1>1, <1>2, <1>3, <2>2 DEF MadeOf
  <2>. QED BY <1>3, <2>1, <2>2
<1>5. ASSUME Finishes(r, status), durable => DOMAIN record = DOMAIN disk
      PROVE  \A row \in Rows(r)' : \E old \in Rows(r) : row = Finished(old, status)
  <2>1. ~durable => disk = <<>> /\ disk' = <<>>
    BY <1>3 DEF IInv, Memory
  <2>2. CASE r \in DOMAIN record /\ record' = t /\ (durable => disk' = record')
    BY <1>1, <2>1, <2>2, RowsAre DEF IInv, Typed
  <2>3. CASE r \notin DOMAIN record /\ record' = record /\ disk' = disk
    BY <1>5, <2>1, <2>3, RowsAre DEF IInv, Typed
  <2>. QED BY <1>3, <1>5, <2>2, <2>3
<1>. QED BY <1>1, <1>3, <1>4, <1>5

----------------------------------------------------------------------------
(* What a step does to the rows of its run. *)

LEMMA GrownEvents ==
  ASSUME NEW seen \in Seq(ApiEvent), NEW e \in ApiEvent, NEW now, now = Append(seen, e)
  PROVE  /\ Len(seen) \in Nat /\ DOMAIN seen = 1..Len(seen)
         /\ now \in Seq(ApiEvent) /\ Len(now) = Len(seen) + 1 /\ DOMAIN now = 1..Len(seen) + 1
         /\ \A i \in 1..Len(seen) : now[i] = seen[i]
         /\ now[Len(seen) + 1] = e
         /\ seen = <<>> <=> Len(seen) = 0
         /\ now # <<>>
BY AppendProperties, LenProperties, EmptySeq

LEMMA GrownIs ==
  ASSUME NEW row \in Row, NEW e \in ApiEvent
  PROVE  /\ Grown(row, e) \in Row /\ Grown(row, e).status = row.status
         /\ Grown(row, e).events = Append(row.events, e) /\ row.events \in Seq(ApiEvent)
<1>1. row.events \in Seq(ApiEvent)
  BY DEF Row
<1>2. Append(row.events, e) \in Seq(ApiEvent)
  BY <1>1, AppendProperties
<1>. QED BY <1>1, <1>2 DEF Grown, Row

LEMMA LastIndex == ASSUME NEW n \in Nat, NEW i \in 1..n + 1, i \notin 1..n PROVE i = n + 1
OBVIOUS

\* The handler of r reports e and goes on, or raises.
Reporting(r, e) ==
  /\ \/ pc[r] = "report start" /\ e = "run_started" /\ pc'[r] \in {"engine", "answered"}
     \/ pc[r] = "report agent" /\ e = "agent_completed" /\ pc'[r] \in {"report completed", "answered"}
     \/ pc[r] = "report completed" /\ e = "run_completed" /\ pc'[r] \in {"finish completed", "answered"}
     \/ pc[r] = "report failed" /\ e = "run_failed" /\ pc'[r] \in {"finish failed", "answered"}
  /\ answer'[r] = IF pc'[r] = "answered" THEN "error" ELSE None
  /\ thread' = thread

\* The engine reports in the run r, or a thread does.
Meanwhile(r, e) ==
  /\ pc'[r] = pc[r] /\ answer'[r] = answer[r]
  /\ \/ e = "node" /\ pc[r] = "engine" /\ thread' = thread
     \/ e = "route" /\ r \in thread /\ thread' = thread \ {r}

LEMMA NoEndYet ==
  ASSUME NEW r, NEW row, RowInv(r, row), pc[r] \notin Finishing \cup {"answered", "lost"}
  PROVE  \A i \in DOMAIN row.events : row.events[i] \notin Terminal
BY DEF RowInv, Ended, IsTheEnd

LEMMA GrownOpened ==
  ASSUME Handled, NEW r \in Run, NEW row \in Row, RowInv(r, row), NEW e \in ApiEvent,
         Reporting(r, e) \/ Meanwhile(r, e)
  PROVE  Opened(r, Grown(row, e).events)'
<1> DEFINE seen == row.events
           now == Grown(row, e).events
<1>1. seen \in Seq(ApiEvent) /\ now = Append(seen, e)
  BY GrownIs
<1>2. Opened(r, seen)
  BY DEF RowInv
<1>. HIDE DEF seen, now
<1>3. e = "run_started" <=> seen = <<>>
  BY <1>2 DEF Opened, Reporting, Meanwhile, BeforeEnd
<1>4. \A i \in DOMAIN now : now[i] = "run_started" <=> i = 1
  <2>1. /\ Len(seen) \in Nat /\ DOMAIN seen = 1..Len(seen) /\ DOMAIN now = 1..Len(seen) + 1
        /\ \A i \in 1..Len(seen) : now[i] = seen[i]
        /\ now[Len(seen) + 1] = e /\ (seen = <<>> <=> Len(seen) = 0)
    BY <1>1, GrownEvents
  <2>2. \A i \in 1..Len(seen) : seen[i] = "run_started" <=> i = 1
    BY <1>2, <2>1 DEF Opened
  <2>3. ASSUME NEW i \in DOMAIN now PROVE now[i] = "run_started" <=> i = 1
    <3>1. CASE i \in 1..Len(seen)
      BY <2>1, <2>2, <3>1
    <3>2. CASE i \notin 1..Len(seen)
      <4>1. i = Len(seen) + 1
        BY <2>1, <3>2, LastIndex, Zenon
      <4>. QED BY <1>3, <2>1, <4>1
    <3>. QED BY <3>1, <3>2
  <2>. QED BY <2>3
<1>5. now # <<>>
  BY <1>1, GrownEvents
<1>6. pc'[r] # "report start"
  BY DEF Reporting, Meanwhile, Handled, BeforeStart
<1>. QED BY <1>4, <1>5, <1>6 DEF Opened, now

LEMMA GrownEnded ==
  ASSUME NEW r \in Run, NEW row \in Row, RowInv(r, row), NEW e \in ApiEvent,
         Reporting(r, e) \/ Meanwhile(r, e)
  PROVE  Ended(r, Grown(row, e).events)'
<1> DEFINE seen == row.events
           now == Grown(row, e).events
<1>1. seen \in Seq(ApiEvent) /\ now = Append(seen, e)
  BY GrownIs
<1>2. Ended(r, seen)
  BY DEF RowInv
<1>3. pc[r] \notin Finishing \cup {"answered", "lost"} => \A i \in DOMAIN seen : seen[i] \notin Terminal
  BY NoEndYet
<1>. HIDE DEF seen, now
<1>4. /\ Len(seen) \in Nat /\ DOMAIN seen = 1..Len(seen)
      /\ Len(now) = Len(seen) + 1 /\ DOMAIN now = 1..Len(seen) + 1
      /\ \A i \in 1..Len(seen) : now[i] = seen[i]
      /\ now[Len(seen) + 1] = e
  BY <1>1, GrownEvents
<1>5. ASSUME NEW i \in DOMAIN now, now[i] \in Terminal PROVE IsTheEnd(r, now, i)'
  <2>1. CASE Reporting(r, e)
    <3>1. i \notin 1..Len(seen)
      BY <1>3, <1>4, <1>5, <2>1 DEF Reporting, Finishing
    <3>2. i = Len(seen) + 1
      BY <1>4, <3>1, LastIndex, Zenon
    <3>3. i = Len(now) /\ now[i] = e
      BY <1>4, <3>2
    <3>. QED BY <1>5, <2>1, <3>3 DEF IsTheEnd, Reporting, Finishing, Terminal, None
  <2>2. CASE Meanwhile(r, e)
    <3>1. e \notin Terminal
      BY <2>2 DEF Meanwhile, Terminal
    <3>2. i \in 1..Len(seen) /\ seen[i] \in Terminal /\ now[i] = seen[i]
      <4>1. CASE i \in 1..Len(seen)
        BY <1>4, <1>5, <4>1
      <4>2. CASE i \notin 1..Len(seen)
        BY <1>4, <1>5, <3>1, <4>2, LastIndex, Zenon
      <4>. QED BY <4>1, <4>2
    <3>3. IsTheEnd(r, seen, i)
      BY <1>2, <1>4, <3>2 DEF Ended
    <3>4. e = "route" /\ r \in thread /\ r \notin thread'
      BY <2>2, <3>3 DEF Meanwhile, IsTheEnd, Finishing
    <3>5. i = Len(seen)
      BY <3>3, <3>4 DEF IsTheEnd
    <3>6. i = Len(now) - 1 /\ now[i + 1] = "route"
      BY <1>4, <3>4, <3>5
    <3>. QED BY <2>2, <3>2, <3>3, <3>4, <3>6 DEF IsTheEnd, Meanwhile
  <2>. QED BY <2>1, <2>2, <1>5
<1>. QED BY <1>5 DEF Ended, Terminal, now

\* A row that was given an event.
LEMMA GrownRow ==
  ASSUME Handled, NEW r \in Run, NEW row \in Row, RowInv(r, row), NEW e \in ApiEvent,
         Reporting(r, e) \/ Meanwhile(r, e), unmade' = unmade
  PROVE  RowInv(r, Grown(row, e))'
<1>1. Grown(row, e).status = row.status /\ Told(r, row)
  BY GrownIs DEF RowInv
<1>2. Told(r, Grown(row, e))'
  <2>1. CASE Reporting(r, e)
    BY <1>1, <2>1 DEF Told, Reporting, None
  <2>2. CASE Meanwhile(r, e)
    BY <1>1, <2>2 DEF Told, Meanwhile, MaySay
  <2>. QED BY <2>1, <2>2
<1>. QED BY <1>2, GrownOpened, GrownEnded DEF RowInv

\* A row that was not touched, and where its handler may go.
Untouched(r, row) ==
  \/ /\ pc'[r] = pc[r] /\ answer'[r] = answer[r]
     /\ r \in thread' => r \in thread \/ pc[r] = "engine"
  \/ /\ r \in thread' => r \in thread
     /\ \/ pc'[r] = "lost" /\ pc[r] # "answered" /\ answer'[r] = answer[r]
        \/ pc[r] \in StoreCalls /\ pc'[r] = "answered" /\ answer'[r] = "error"
        \/ pc[r] = "engine" /\ pc'[r] \in BeforeEnd /\ answer'[r] = answer[r]
        \/ \E e \in ApiEvent : Reporting(r, e) /\ pc[r] # "report start"
        \/ /\ pc'[r] = "answered" /\ unmade' # {}
           /\ \/ pc[r] = "finish completed" /\ answer'[r] = "ok"
              \/ pc[r] = "finish failed" /\ answer'[r] = "failed"

LEMMA UntouchedRow ==
  ASSUME NEW r \in Run, NEW row, RowInv(r, row), Untouched(r, row), unmade' = {} => unmade = {}
  PROVE  RowInv(r, row)'
<1>1. Told(r, row) /\ Opened(r, row.events) /\ Ended(r, row.events)
  BY DEF RowInv
<1>2. Told(r, row)'
  BY <1>1 DEF Untouched, Told, MaySay, StoreCalls, BeforeEnd, Reporting, None
<1>3. Opened(r, row.events)'
  BY <1>1 DEF Untouched, Told, Opened, BeforeEnd, Finishing, Reporting
<1>4. Ended(r, row.events)'
  <2>1. ASSUME NEW i \in DOMAIN row.events, row.events[i] \in Terminal
        PROVE  IsTheEnd(r, row.events, i)'
    <3>1. IsTheEnd(r, row.events, i)
      BY <1>1, <2>1 DEF Ended
    <3>2. (r \in thread' => r \in thread) \/ pc[r] = "engine"
      BY DEF Untouched
    <3>3. \/ pc'[r] = pc[r] /\ answer'[r] = answer[r]
          \/ pc'[r] = "lost" /\ answer'[r] = answer[r]
          \/ pc'[r] = "answered" /\ answer'[r] = "error"
          \/ pc[r] = "finish completed" /\ pc'[r] = "answered" /\ answer'[r] = "ok"
          \/ pc[r] = "finish failed" /\ pc'[r] = "answered" /\ answer'[r] = "failed"
      BY <3>1 DEF Untouched, IsTheEnd, Finishing, Reporting
    <3>. QED BY <3>1, <3>2, <3>3 DEF IsTheEnd, Finishing
  <2>. QED BY <2>1 DEF Ended, Terminal
<1>. QED BY <1>2, <1>3, <1>4 DEF RowInv

\* A row that was given its end, by a call that returns or raises.
Closing(r, status) ==
  /\ \/ pc[r] = "finish completed" /\ status = "completed" /\ answer'[r] \in {"ok", "error"}
     \/ pc[r] = "finish failed" /\ status = "failed" /\ answer'[r] \in {"failed", "error"}
  /\ pc'[r] = "answered" /\ thread' = thread

LEMMA FinishedRow ==
  ASSUME NEW r \in Run, NEW row \in Row, RowInv(r, row), NEW status, Closing(r, status)
  PROVE  RowInv(r, Finished(row, status))'
<1>1. Finished(row, status).status = status /\ Finished(row, status).events = row.events
  BY DEF Finished, Row
<1>2. Told(r, row) /\ Opened(r, row.events) /\ Ended(r, row.events)
  BY DEF RowInv
<1>3. Told(r, Finished(row, status))'
  BY <1>1 DEF Told, Closing, MaySay
<1>4. Opened(r, row.events)'
  BY <1>2 DEF Opened, Closing, BeforeEnd, Finishing
<1>5. Ended(r, row.events)'
  <2>1. ASSUME NEW i \in DOMAIN row.events, row.events[i] \in Terminal
        PROVE  IsTheEnd(r, row.events, i)'
    <3>1. IsTheEnd(r, row.events, i)
      BY <1>2, <2>1 DEF Ended
    <3>. QED BY <3>1 DEF IsTheEnd, Finishing, Closing
  <2>. QED BY <2>1 DEF Ended, Terminal
<1>. QED BY <1>1, <1>3, <1>4, <1>5 DEF RowInv

----------------------------------------------------------------------------
(* The invariant holds. *)

LEMMA InvInit == ASSUME Init PROVE IInv
<1>1. emitted \in [Run -> Seq(ApiEvent)] /\ told \in [Run -> Status]
  BY DEF Init, Store!Init, Status
<1>2. created = <<>> /\ order = <<>> /\ record = <<>> /\ disk = <<>>
  BY DEF Init, Store!Init, Sqlite!Init
<1>3. Kept(ApiEvent)
  BY <1>1, <1>2, BoundsAssumption, NewStoreIsKept
<1>4. \A r : Rows(r) = {}
  BY <1>2, EmptyDomain, RowsAre
<1>5. Typed
  <2>1. <<>> = [x \in DOMAIN <<>> |-> <<>>[x]] /\ DOMAIN <<>> = {}
    BY EmptyDomain
  <2>2. IsTable(<<>>)
    BY <2>1 DEF IsTable
  <2>. QED BY <1>2, <2>2 DEF Init, Typed
<1>6. Memory
  BY <1>2, <1>3 DEF Init, Store!Init, Memory, Silent, Store!ToSet
<1>7. Handled /\ Aligned
  BY <1>2 DEF Init, Handled, Aligned, StoreCalls
<1>. QED BY <1>4, <1>5, <1>6, <1>7 DEF IInv

\* The calls of a handler, by what they are and where they leave it.
LEMMA CallCases ==
  ASSUME IInv, NEW r \in Run, CallsStore(r) \/ StoreRaises(r)
  PROVE  /\ loop = r /\ durable' = durable /\ thread' = thread /\ pc[r] \in StoreCalls
         /\ \E n, a : /\ pc' = [pc EXCEPT ![r] = n] /\ answer' = [answer EXCEPT ![r] = a]
                      /\ n \in StoreCalls \cup {"engine", "answered"} /\ (n \in StoreCalls => loop' = r)
                      /\ a \in {None, "ok", "failed", "error"}
         /\ \/ /\ pc[r] = "create" /\ Creates(r) /\ unmade' = unmade
               /\ pc'[r] = "report start" /\ answer'[r] = None
            \/ /\ pc[r] = "create" /\ CreateRaises(r) /\ unmade' = unmade \cup {r}
               /\ pc'[r] = "answered" /\ answer'[r] = "error"
            \/ \E e \in ApiEvent :
                 /\ Reporting(r, e) /\ (ReportsEvent(r, e) \/ EventRaises(r, e)) /\ unmade' = unmade
                 /\ pc'[r] # "answered" => ReportsEvent(r, e)
            \/ \E status \in {"completed", "failed"} :
                 /\ Closing(r, status) /\ (Finishes(r, status) \/ FinishRaises(r, status))
                 /\ unmade' = unmade
                 /\ answer'[r] # "error" => Finishes(r, status)
<1>1. pc \in [Run -> StoreCalls \cup {"new", "engine", "answered", "lost"}] /\ r \in DOMAIN answer
  BY DEF IInv, Typed
<1>2. ASSUME CallsStore(r)
      PROVE  /\ CallOf(r) /\ pc' = [pc EXCEPT ![r] = NextCall(r)] /\ pc'[r] = NextCall(r)
             /\ answer' = [answer EXCEPT ![r] = AnswerAfter(r)] /\ answer'[r] = AnswerAfter(r)
             /\ loop = r /\ loop' = LoopAfter(r) /\ pc[r] \in StoreCalls
             /\ durable' = durable /\ thread' = thread /\ unmade' = unmade
  BY <1>1, <1>2 DEF CallsStore
<1>3. ASSUME StoreRaises(r)
      PROVE  /\ RaisedCallOf(r) /\ pc' = [pc EXCEPT ![r] = "answered"] /\ pc'[r] = "answered"
             /\ answer' = [answer EXCEPT ![r] = "error"] /\ answer'[r] = "error"
             /\ loop = r /\ pc[r] \in StoreCalls
             /\ durable' = durable /\ thread' = thread
             /\ unmade' = IF pc[r] = "create" THEN unmade \cup {r} ELSE unmade
  BY <1>1, <1>3 DEF StoreRaises, AfterStoreError
<1>4. \E n, a : /\ pc' = [pc EXCEPT ![r] = n] /\ answer' = [answer EXCEPT ![r] = a]
                /\ n \in StoreCalls \cup {"engine", "answered"} /\ (n \in StoreCalls => loop' = r)
                /\ a \in {None, "ok", "failed", "error"}
  <2>1. CASE CallsStore(r)
    <3>1. /\ NextCall(r) \in StoreCalls \cup {"engine", "answered"}
          /\ AnswerAfter(r) \in {None, "ok", "failed", "error"}
      BY DEF NextCall, AnswerAfter, StoreCalls
    <3>2. NextCall(r) \in StoreCalls => LoopAfter(r) = r
      BY DEF LoopAfter, StoreCalls
    <3>. QED BY <1>2, <2>1, <3>1, <3>2
  <2>2. CASE StoreRaises(r)
    BY <1>3, <2>2 DEF StoreCalls
  <2>. QED BY <2>1, <2>2
<1>5. CASE pc[r] = "create"
  <2>1. CASE CallsStore(r)
    BY <1>2, <1>4, <1>5, <2>1 DEF CallOf, NextCall, AnswerAfter
  <2>2. CASE StoreRaises(r)
    BY <1>3, <1>4, <1>5, <2>2 DEF RaisedCallOf
  <2>. QED BY <2>1, <2>2
<1>6. ASSUME NEW e \in ApiEvent,
             \/ pc[r] = "report start" /\ e = "run_started"
             \/ pc[r] = "report agent" /\ e = "agent_completed"
             \/ pc[r] = "report completed" /\ e = "run_completed"
             \/ pc[r] = "report failed" /\ e = "run_failed"
      PROVE  /\ Reporting(r, e) /\ (ReportsEvent(r, e) \/ EventRaises(r, e)) /\ unmade' = unmade
             /\ pc'[r] # "answered" => ReportsEvent(r, e)
  <2>1. CASE CallsStore(r)
    <3>1. ReportsEvent(r, e)
      BY <1>2, <1>6, <2>1 DEF CallOf
    <3>. QED BY <1>2, <1>6, <2>1, <3>1 DEF Reporting, NextCall, AnswerAfter
  <2>2. CASE StoreRaises(r)
    <3>1. EventRaises(r, e)
      BY <1>3, <1>6, <2>2 DEF RaisedCallOf
    <3>. QED BY <1>3, <1>6, <2>2, <3>1 DEF Reporting
  <2>. QED BY <2>1, <2>2
<1>7. ASSUME NEW status \in {"completed", "failed"},
             \/ pc[r] = "finish completed" /\ status = "completed"
             \/ pc[r] = "finish failed" /\ status = "failed"
      PROVE  /\ Closing(r, status) /\ (Finishes(r, status) \/ FinishRaises(r, status))
             /\ unmade' = unmade
             /\ answer'[r] # "error" => Finishes(r, status)
  <2>1. CASE CallsStore(r)
    <3>1. Finishes(r, status)
      BY <1>2, <1>7, <2>1 DEF CallOf
    <3>. QED BY <1>2, <1>7, <2>1, <3>1 DEF Closing, NextCall, AnswerAfter
  <2>2. CASE StoreRaises(r)
    <3>1. FinishRaises(r, status)
      BY <1>3, <1>7, <2>2 DEF RaisedCallOf
    <3>. QED BY <1>3, <1>7, <2>2, <3>1 DEF Closing
  <2>. QED BY <2>1, <2>2
<1>8. loop = r /\ durable' = durable /\ thread' = thread /\ pc[r] \in StoreCalls
  BY <1>2, <1>3
<1>9. CASE pc[r] # "create"
  <2>1. \/ \E e \in ApiEvent : \/ pc[r] = "report start" /\ e = "run_started"
                               \/ pc[r] = "report agent" /\ e = "agent_completed"
                               \/ pc[r] = "report completed" /\ e = "run_completed"
                               \/ pc[r] = "report failed" /\ e = "run_failed"
        \/ \E status \in {"completed", "failed"} :
             \/ pc[r] = "finish completed" /\ status = "completed"
             \/ pc[r] = "finish failed" /\ status = "failed"
    BY <1>8, <1>9 DEF StoreCalls, ApiEvent
  <2>. QED BY <1>4, <1>6, <1>7, <1>8, <2>1
<1>. QED BY <1>4, <1>5, <1>8, <1>9

LEMMA KeptByReport ==
  ASSUME Kept(ApiEvent), NEW r \in Run, NEW e \in ApiEvent, Store!ReportEvent(r, e)
  PROVE  Kept(ApiEvent)'
<1>1. TakesEvent(r, e)
  BY DEF Store!ReportEvent, TakesEvent
<1>. QED BY <1>1, BoundsAssumption, KeptReportEvent

\* A run of which nothing is said before its create is not touched by the
\* calls of another.
LEMMA MemoryAfter ==
  ASSUME IInv, durable' = durable, NEW r \in Run, pc'[r] \notin {"new", "create"},
         \A q \in Run : q # r => pc'[q] = pc[q],
         ~durable =>
           /\ disk' = disk
           /\ \/ UNCHANGED <<record, inMemory>>
              \/ pc[r] = "create" /\ Store!Create(r)
              \/ \E e \in ApiEvent : Store!ReportEvent(r, e)
              \/ \E status \in {"completed", "failed"} : Store!Finish(r, status)
  PROVE  Memory'
<1>1. CASE durable
  BY <1>1 DEF Memory
<1>2. CASE ~durable
  <2>1. /\ Kept(ApiEvent) /\ disk = <<>> /\ disk' = disk
        /\ \A q \in Run : pc[q] \in {"new", "create"} => q \notin Store!ToSet(created) /\ Silent(q)
    BY <1>2 DEF IInv, Memory
  <2>2. created \in Seq(Run) /\ emitted \in [Run -> Seq(ApiEvent)] /\ told \in [Run -> Status]
    BY <2>1 DEF Kept, StoreTyped
  <2>3. ASSUME Kept(ApiEvent)',
               \A q \in Run : q # r => Silent(q)' = Silent(q),
               Store!ToSet(created') \subseteq Store!ToSet(created) \cup {r}
        PROVE  Memory'
    <3>1. ASSUME NEW q \in Run, pc'[q] \in {"new", "create"}
          PROVE  q \notin Store!ToSet(created') /\ Silent(q)'
      <4>1. q # r /\ pc[q] \in {"new", "create"}
        BY <3>1
      <4>2. q \notin Store!ToSet(created) /\ Silent(q)
        BY <2>1, <4>1
      <4>. QED BY <2>3, <4>1, <4>2
    <3>. QED BY <2>1, <2>3, <3>1 DEF Memory, Store!ToSet
  <2>4. CASE UNCHANGED <<record, inMemory>>
    <3>1. Kept(ApiEvent)'
      BY <2>1, <2>4, KeptUnchanged
    <3>. QED BY <2>3, <2>4, <3>1 DEF inMemory, Silent
  <2>5. CASE pc[r] = "create" /\ Store!Create(r)
    <3>1. Kept(ApiEvent)'
      BY <2>1, <2>5, BoundsAssumption, KeptCreate
    <3>2. /\ Store!ToSet(created') = Store!ToSet(created) \cup {r}
          /\ emitted' = emitted /\ told' = told
      BY <2>2, <2>5, AppendMembers DEF Store!Create
    <3>. QED BY <2>3, <3>1, <3>2 DEF Silent
  <2>6. ASSUME NEW e \in ApiEvent, Store!ReportEvent(r, e) PROVE Memory'
    <3>1. Kept(ApiEvent)'
      BY <2>1, <2>6, KeptByReport
    <3>2. created' = created /\ told' = told /\ emitted' = [emitted EXCEPT ![r] = Append(@, e)]
      BY <2>6 DEF Store!ReportEvent
    <3>. QED BY <2>2, <2>3, <3>1, <3>2 DEF Silent
  <2>7. ASSUME NEW status \in {"completed", "failed"}, Store!Finish(r, status) PROVE Memory'
    <3>1. Kept(ApiEvent)'
      BY <2>1, <2>7, BoundsAssumption, KeptFinish
    <3>2. created' = created /\ emitted' = emitted /\ told' = [told EXCEPT ![r] = status]
      BY <2>7 DEF Store!Finish
    <3>. QED BY <2>2, <2>3, <3>1, <3>2 DEF Silent
  <2>. QED BY <1>2, <2>4, <2>5, <2>6, <2>7
<1>. QED BY <1>1, <1>2 DEF IInv, Typed

\* The rows callers see and those on disk are still the same runs.
LEMMA AlignedAfter ==
  ASSUME IInv, durable' = durable, unmade' = {} => unmade = {},
         \A q \in Run : pc'[q] = "report start" => pc[q] = "report start",
         durable /\ DOMAIN record = DOMAIN disk => DOMAIN record' = DOMAIN disk'
  PROVE  Aligned'
BY DEF IInv, Aligned

LEMMA InvStoreCall ==
  ASSUME IInv, NEW r \in Run, CallsStore(r) \/ StoreRaises(r)
  PROVE  IInv'
<1>1. /\ loop = r /\ durable' = durable /\ thread' = thread /\ pc[r] \in StoreCalls
      /\ \E n, a : /\ pc' = [pc EXCEPT ![r] = n] /\ answer' = [answer EXCEPT ![r] = a]
                   /\ n \in StoreCalls \cup {"engine", "answered"} /\ (n \in StoreCalls => loop' = r)
                   /\ a \in {None, "ok", "failed", "error"}
  BY CallCases
<1>2. /\ pc \in [Run -> StoreCalls \cup {"new", "engine", "answered", "lost"}]
      /\ answer \in [Run -> {None, "ok", "failed", "error", "refused"}]
      /\ \A q \in Run : pc[q] \in StoreCalls => q = r
      /\ \A q \in thread : pc[q] \notin BeforeStart
      /\ thread \subseteq Run /\ durable \in BOOLEAN
  BY <1>1 DEF IInv, Typed, Handled
<1>3. \A q \in Run : q # r => pc'[q] = pc[q] /\ answer'[q] = answer[q]
  BY <1>1, <1>2
<1>4. /\ pc' \in [Run -> StoreCalls \cup {"new", "engine", "answered", "lost"}]
      /\ answer' \in [Run -> {None, "ok", "failed", "error", "refused"}]
      /\ \A q \in Run : pc'[q] \in StoreCalls => loop' = q
  BY <1>1, <1>2
<1>5. ASSUME NEW made \in SUBSET Row, MadeOf(r, made), Memory', Aligned',
             unmade' = {} => unmade = {}, pc'[r] \notin BeforeStart \/ r \notin thread,
             \A row \in Rows(r)' : RowInv(r, row)'
      PROVE  IInv'
  <2>1. /\ IsTable(record)' /\ IsTable(disk)'
        /\ \A q : \A row \in Rows(q)' : row \in Rows(q) \/ (q = r /\ row \in made)
    BY <1>5, MadeOfMeans DEF IInv
  <2>2. Typed'
    BY <1>1, <1>2, <1>4, <2>1 DEF Typed
  <2>3. Handled'
    BY <1>1, <1>2, <1>3, <1>4, <1>5 DEF Handled
  <2>4. ASSUME NEW q \in Run, NEW row \in Rows(q)' PROVE RowInv(q, row)'
    <3>1. CASE q = r
      BY <1>5, <2>4, <3>1
    <3>2. CASE q # r
      <4>1. RowInv(q, row)
        BY <2>1, <2>4, <3>2 DEF IInv
      <4>2. Untouched(q, row)
        BY <1>1, <1>3, <3>2 DEF Untouched
      <4>. QED BY <1>5, <4>1, <4>2, UntouchedRow
    <3>. QED BY <3>1, <3>2
  <2>. QED BY <1>5, <2>2, <2>3, <2>4 DEF IInv
<1>6. ASSUME pc[r] = "create", Creates(r) \/ CreateRaises(r), pc'[r] \in {"report start", "answered"},
             \/ Creates(r) /\ unmade' = unmade /\ answer'[r] = None
             \/ /\ CreateRaises(r) /\ unmade' = unmade \cup {r}
                /\ pc'[r] = "answered" /\ answer'[r] = "error"
      PROVE  IInv'
  <2>1. MadeOf(r, {NewRow}) /\ {NewRow} \in SUBSET Row
    <3>1. NewRow \in Row
      BY DEF NewRow, Row, Status
    <3>. QED BY <1>6, <3>1, CreateMakes
  <2>2. r \notin thread
    BY <1>2, <1>6 DEF BeforeStart
  <2>3. ASSUME NEW row \in Rows(r)' PROVE RowInv(r, row)'
    <3>1. row \in Rows(r) \/ row = NewRow
      BY <2>1, <2>3, MadeOfMeans DEF IInv
    <3>2. row \notin Rows(r)
      BY <1>6 DEF IInv, RowInv, Told
    <3>3. row = NewRow
      BY <3>1, <3>2
    <3>4. Told(r, row)'
      BY <1>6, <3>3 DEF Told, NewRow, None
    <3>5. Opened(r, row.events)'
      BY <1>1, <1>6, <2>2, <3>3, EmptyDomain DEF Opened, NewRow, BeforeEnd, Finishing
    <3>6. Ended(r, row.events)'
      BY <3>3, EmptyDomain DEF Ended, NewRow
    <3>. QED BY <3>4, <3>5, <3>6 DEF RowInv
  <2>4. Memory'
    <3>1. ~durable => disk' = disk /\ Store!Create(r)
      BY <1>6 DEF Creates, CreateRaises
    <3>. QED BY <1>1, <1>3, <1>6, <3>1, MemoryAfter
  <2>5. Aligned'
    <3>1. CASE Creates(r)
      BY <1>1, <3>1 DEF Creates, Sqlite!Create, Sqlite!Commit, Aligned
    <3>2. CASE ~Creates(r)
      <4>1. unmade' # {} /\ \A q \in Run : pc'[q] # "report start"
        BY <1>2, <1>3, <1>6, <3>2 DEF StoreCalls
      <4>. QED BY <4>1 DEF Aligned
    <3>. QED BY <3>1, <3>2
  <2>. QED BY <1>5, <1>6, <2>1, <2>2, <2>3, <2>4, <2>5
<1>7. ASSUME NEW e \in ApiEvent, Reporting(r, e), ReportsEvent(r, e) \/ EventRaises(r, e),
             unmade' = unmade, pc'[r] # "answered" => ReportsEvent(r, e)
      PROVE  IInv'
  <2> DEFINE made == {Grown(row, e) : row \in Rows(r)}
  <2>1. MadeOf(r, made) /\ made \in SUBSET Row
    BY <1>7, EventMakes, RowsAreTyped, GrownIs DEF IInv
  <2>. HIDE DEF made
  <2>2. ASSUME NEW row \in Rows(r)' PROVE RowInv(r, row)'
    <3>1. row \in Rows(r) \/ \E old \in Rows(r) : row = Grown(old, e)
      BY <2>1, <2>2, MadeOfMeans DEF IInv, made
    <3>2. CASE \E old \in Rows(r) : row = Grown(old, e)
      <4>1. PICK old \in Rows(r) : row = Grown(old, e)
        BY <3>2
      <4>2. old \in Row /\ RowInv(r, old)
        BY RowsAreTyped DEF IInv
      <4>. QED BY <1>7, <4>1, <4>2, GrownRow DEF IInv
    <3>3. CASE row \in Rows(r) /\ ~\E old \in Rows(r) : row = Grown(old, e)
      <4>1. RowInv(r, row)
        BY <3>3 DEF IInv
      <4>2. pc[r] = "report start" => pc'[r] = "answered"
        BY <1>7, <2>2, <3>3, StartMakes
      <4>3. Untouched(r, row)
        BY <1>1, <1>7, <4>2 DEF Untouched, Reporting
      <4>. QED BY <1>7, <4>1, <4>3, UntouchedRow
    <3>. QED BY <3>1, <3>2, <3>3
  <2>3. pc'[r] \notin BeforeStart
    BY <1>7 DEF Reporting, BeforeStart
  <2>4. Memory'
    <3>1. ~durable => disk' = disk /\ (UNCHANGED <<record, inMemory>> \/ Store!ReportEvent(r, e))
      BY <1>7 DEF ReportsEvent, EventRaises, store
    <3>. QED BY <1>1, <1>3, <2>3, <3>1, MemoryAfter DEF BeforeStart
  <2>5. Aligned'
    BY <1>1, <1>3, <1>7, <2>3, EventMakes, AlignedAfter DEF BeforeStart
  <2>. QED BY <1>5, <1>7, <2>1, <2>2, <2>3, <2>4, <2>5
<1>8. ASSUME NEW status \in {"completed", "failed"}, Closing(r, status),
             Finishes(r, status) \/ FinishRaises(r, status),
             unmade' = unmade, answer'[r] # "error" => Finishes(r, status)
      PROVE  IInv'
  <2> DEFINE made == {Finished(row, status) : row \in Rows(r)}
  <2>1. MadeOf(r, made) /\ made \in SUBSET Row
    <3>1. \A row \in Row : Finished(row, status) \in Row
      BY DEF Finished, Row, Status
    <3>2. \A row \in Rows(r) : row \in Row
      BY RowsAreTyped DEF IInv
    <3>3. MadeOf(r, made)
      BY <1>8, FinishMakes
    <3>. QED BY <3>1, <3>2, <3>3
  <2>. HIDE DEF made
  <2>2. ASSUME NEW row \in Rows(r)' PROVE RowInv(r, row)'
    <3>1. row \in Rows(r) \/ \E old \in Rows(r) : row = Finished(old, status)
      BY <2>1, <2>2, MadeOfMeans DEF IInv, made
    <3>2. CASE \E old \in Rows(r) : row = Finished(old, status)
      <4>1. PICK old \in Rows(r) : row = Finished(old, status)
        BY <3>2
      <4>2. old \in Row /\ RowInv(r, old)
        BY RowsAreTyped DEF IInv
      <4>. QED BY <1>8, <4>1, <4>2, FinishedRow
    <3>3. CASE row \in Rows(r) /\ ~\E old \in Rows(r) : row = Finished(old, status)
      <4>1. RowInv(r, row)
        BY <3>3 DEF IInv
      <4>2. answer'[r] # "error" => unmade # {}
        BY <1>8, <2>2, <3>3, FinishMakes, ZenonT(60) DEF IInv, Aligned
      <4>3. Untouched(r, row)
        BY <1>1, <1>8, <4>2 DEF Untouched, Closing
      <4>. QED BY <1>8, <4>1, <4>3, UntouchedRow
    <3>. QED BY <3>1, <3>2, <3>3
  <2>3. pc'[r] \notin BeforeStart
    BY <1>8 DEF Closing, BeforeStart
  <2>4. Memory'
    <3>1. ~durable => disk' = disk /\ (UNCHANGED <<record, inMemory>> \/ Store!Finish(r, status))
      BY <1>8 DEF Finishes, FinishRaises, store
    <3>. QED BY <1>1, <1>3, <2>3, <3>1, MemoryAfter DEF BeforeStart
  <2>5. Aligned'
    BY <1>1, <1>3, <1>8, <2>3, FinishMakes, AlignedAfter DEF BeforeStart
  <2>. QED BY <1>5, <1>8, <2>1, <2>2, <2>3, <2>4, <2>5
<1>. QED BY <1>6, <1>7, <1>8, CallCases

\* Nothing is done to the store, and a handler moves, a thread begins, or the
\* loop goes to another handler.
LEMMA InvQuiet ==
  ASSUME IInv, UNCHANGED <<record, disk, inMemory, durable, unmade>>,
         pc' \in [Run -> StoreCalls \cup {"new", "engine", "answered", "lost"}],
         answer' \in [Run -> {None, "ok", "failed", "error", "refused"}],
         thread' \subseteq Run, Handled',
         \A q \in Run :
           \/ Untouched(q, <<>>) /\ pc'[q] \notin {"new", "create"}
           \/ Untouched(q, <<>>) /\ pc'[q] = pc[q]
           \/ pc[q] = "new" /\ pc'[q] \in {"create", "answered"}
  PROVE  IInv'
<1>1. Typed'
  BY DEF IInv, Typed
<1>2. \A q \in Run : pc'[q] \in {"new", "create"} => pc[q] \in {"new", "create"}
  OBVIOUS
<1>3. Memory'
  <2>1. ~durable => Kept(ApiEvent)'
    BY KeptUnchanged DEF IInv, Memory
  <2>. QED BY <1>2, <2>1 DEF IInv, Memory, inMemory, Silent, Store!ToSet
<1>4. Aligned'
  <2>1. \A q \in Run : pc'[q] = "report start" => pc[q] = "report start"
    BY DEF Untouched, Reporting, BeforeEnd
  <2>. QED BY <2>1, AlignedAfter
<1>5. ASSUME NEW q \in Run, NEW row \in Rows(q)' PROVE RowInv(q, row)'
  <2>1. row \in Rows(q)
    BY <1>5, RowsAre
  <2>2. RowInv(q, row) /\ pc[q] # "new"
    BY <2>1 DEF IInv, RowInv, Told
  <2>3. Untouched(q, row)
    BY <2>2 DEF Untouched
  <2>. QED BY <2>2, <2>3, UntouchedRow
<1>. QED BY <1>1, <1>3, <1>4, <1>5 DEF IInv

\* Where a handler goes from the engine.
Ending == {"report agent", "report completed", "report failed"}

LEMMA InvMove ==
  ASSUME IInv, NEW r \in Run, Refuse(r) \/ Accept(r) \/ EngineReturns(r) \/ EngineRaises(r)
  PROVE  IInv'
<1>1. /\ UNCHANGED <<record, disk, inMemory, durable, unmade, thread>> /\ loop = None
      /\ \E n, a : /\ pc' = [pc EXCEPT ![r] = n] /\ answer' = [answer EXCEPT ![r] = a]
                   /\ \/ pc[r] = "new" /\ n = "create" /\ a = answer[r] /\ loop' = r
                      \/ pc[r] = "new" /\ n = "answered" /\ a = "refused" /\ loop' = loop
                      \/ pc[r] = "engine" /\ n \in Ending /\ a = answer[r] /\ loop' = r
  <2>1. answer = [answer EXCEPT ![r] = answer[r]]
    BY DEF IInv, Typed
  <2>2. CASE Refuse(r)
    BY <2>2 DEF Refuse, store
  <2>3. CASE Accept(r)
    BY <2>1, <2>3 DEF Accept, store
  <2>4. CASE EngineReturns(r)
    <3>1. (IF kind[r] = "agent" THEN "report agent" ELSE "report completed") \in Ending
      BY DEF Ending
    <3>. QED BY <2>1, <2>4, <3>1 DEF EngineReturns, store
  <2>5. CASE EngineRaises(r)
    <3>1. "report failed" \in Ending
      BY DEF Ending
    <3>. QED BY <2>1, <2>5, <3>1 DEF EngineRaises, store
  <2>. QED BY <2>2, <2>3, <2>4, <2>5
<1>2. /\ pc \in [Run -> StoreCalls \cup {"new", "engine", "answered", "lost"}]
      /\ answer \in [Run -> {None, "ok", "failed", "error", "refused"}]
      /\ \A q \in Run : pc[q] \notin StoreCalls
      /\ \A q \in thread : pc[q] \notin BeforeStart
      /\ thread \subseteq Run
  BY <1>1, RunAssumption DEF IInv, Typed, Handled
<1>3. PICK n, a : /\ pc' = [pc EXCEPT ![r] = n] /\ answer' = [answer EXCEPT ![r] = a]
                  /\ \/ pc[r] = "new" /\ n = "create" /\ a = answer[r] /\ loop' = r
                     \/ pc[r] = "new" /\ n = "answered" /\ a = "refused" /\ loop' = loop
                     \/ pc[r] = "engine" /\ n \in Ending /\ a = answer[r] /\ loop' = r
  BY <1>1
<1>4. /\ pc' \in [Run -> StoreCalls \cup {"new", "engine", "answered", "lost"}]
      /\ answer' \in [Run -> {None, "ok", "failed", "error", "refused"}]
  BY <1>2, <1>3 DEF Ending, StoreCalls
<1>5. Handled'
  BY <1>1, <1>2, <1>3 DEF Handled, Ending, BeforeStart, StoreCalls
<1>6. ASSUME NEW q \in Run
      PROVE  \/ Untouched(q, <<>>) /\ pc'[q] \notin {"new", "create"}
             \/ Untouched(q, <<>>) /\ pc'[q] = pc[q]
             \/ pc[q] = "new" /\ pc'[q] \in {"create", "answered"}
  <2>1. CASE q # r
    BY <1>1, <1>2, <1>3, <2>1 DEF Untouched
  <2>2. CASE q = r
    BY <1>1, <1>2, <1>3, <2>2 DEF Untouched, BeforeEnd, Ending
  <2>. QED BY <2>1, <2>2
<1>. QED BY <1>1, <1>2, <1>4, <1>5, <1>6, InvQuiet

\* A thread begins, or ends without a report; the loop goes to a reload or
\* comes from one; nothing happens.
LEMMA InvThread ==
  ASSUME IInv, UNCHANGED <<record, disk, inMemory, durable, unmade, pc, answer>>,
         \/ \E r \in Run : RouteBegins(r)
         \/ loop' = loop /\ \E r : thread' = thread \ {r}
         \/ thread' = thread /\ (loop' = loop \/ loop \in {None, Reload})
  PROVE  IInv'
<1>1. /\ \A q \in Run : pc[q] \in StoreCalls => loop = q
      /\ \A q \in thread : pc[q] \notin BeforeStart
      /\ thread \subseteq Run
  BY DEF IInv, Typed, Handled
<1>2. Handled'
  BY <1>1, RunAssumption DEF Handled, RouteBegins, BeforeStart
<1>3. \A q \in Run : Untouched(q, <<>>)
  BY DEF Untouched, RouteBegins
<1>4. thread' \subseteq Run
  BY <1>1 DEF RouteBegins
<1>. QED BY <1>2, <1>3, <1>4, InvQuiet DEF IInv, Typed

LEMMA InvReport ==
  ASSUME IInv, NEW r \in Run, EngineReports(r) \/ RouteReports(r)
  PROVE  IInv'
<1>1. CASE UNCHANGED store /\ RouteReports(r)
  <2>1. /\ UNCHANGED <<record, disk, inMemory, durable, unmade, pc, answer>>
        /\ thread' = thread \ {r} /\ loop' = loop
    BY <1>1 DEF RouteReports, store
  <2>. QED BY <2>1, InvThread
<1>2. ASSUME NEW e \in ApiEvent, ReportsEvent(r, e) \/ EventRaises(r, e),
             UNCHANGED <<durable, unmade, pc, loop, answer>>, Meanwhile(r, e)
      PROVE  IInv'
  <2> DEFINE made == {Grown(row, e) : row \in Rows(r)}
  <2>1. MadeOf(r, made) /\ made \in SUBSET Row
    BY <1>2, EventMakes, RowsAreTyped, GrownIs DEF IInv
  <2>2. /\ IsTable(record)' /\ IsTable(disk)'
        /\ \A q : \A row \in Rows(q)' : row \in Rows(q) \/ (q = r /\ row \in made)
    BY <2>1, MadeOfMeans DEF IInv
  <2>3. thread' \subseteq thread
    BY <1>2 DEF Meanwhile
  <2>4. Typed' /\ Handled'
    BY <1>2, <2>2, <2>3 DEF IInv, Typed, Handled
  <2>5. Memory'
    <3>1. pc[r] \notin {"new", "create"}
      BY <1>2 DEF Meanwhile, IInv, Handled, BeforeStart
    <3>2. ~durable => disk' = disk /\ (UNCHANGED <<record, inMemory>> \/ Store!ReportEvent(r, e))
      BY <1>2 DEF ReportsEvent, EventRaises, store
    <3>. QED BY <1>2, <3>1, <3>2, MemoryAfter
  <2>6. Aligned'
    BY <1>2, EventMakes, AlignedAfter
  <2>7. ASSUME NEW q \in Run, NEW row \in Rows(q)' PROVE RowInv(q, row)'
    <3>1. CASE row \in Rows(q)
      <4>1. RowInv(q, row)
        BY <3>1 DEF IInv
      <4>2. Untouched(q, row)
        BY <1>2, <2>3 DEF Untouched
      <4>. QED BY <1>2, <4>1, <4>2, UntouchedRow
    <3>2. CASE q = r /\ \E old \in Rows(r) : row = Grown(old, e)
      <4>1. PICK old \in Rows(r) : row = Grown(old, e)
        BY <3>2
      <4>2. old \in Row /\ RowInv(r, old)
        BY RowsAreTyped DEF IInv
      <4>. QED BY <1>2, <3>2, <4>1, <4>2, GrownRow DEF IInv
    <3>. QED BY <2>2, <2>7, <3>1, <3>2
  <2>. QED BY <2>4, <2>5, <2>6, <2>7 DEF IInv
<1>3. "node" \in ApiEvent /\ "route" \in ApiEvent
  BY DEF ApiEvent
<1>4. CASE EngineReports(r)
  BY <1>2, <1>3, <1>4 DEF EngineReports, Meanwhile
<1>5. CASE RouteReports(r) /\ ~UNCHANGED store
  BY <1>2, <1>3, <1>5 DEF RouteReports, Meanwhile
<1>. QED BY <1>1, <1>4, <1>5

EmptyStore ==
  /\ created = <<>> /\ order = <<>> /\ record = <<>>
  /\ emitted \in [Run -> Seq(ApiEvent)] /\ told \in [Run -> Status]

LEMMA EmptyStoreIsKept == EmptyStore => Kept(ApiEvent)
BY BoundsAssumption, NewStoreIsKept DEF EmptyStore

\* The process stops: no handler and no thread goes on.
LEMMA InvRestart == ASSUME IInv, Restart PROVE IInv'
<1>1. /\ \A q \in Run : pc'[q] = IF pc[q] \in {"new", "answered"} THEN pc[q] ELSE "lost"
      /\ pc' \in [Run -> StoreCalls \cup {"new", "engine", "answered", "lost"}]
      /\ thread' = {} /\ answer' = answer /\ durable' = durable /\ unmade' = unmade
  BY DEF Restart, IInv, Typed
<1>2. /\ durable => record' = disk /\ disk' = disk
      /\ ~durable => record' = <<>> /\ disk' = disk
  BY DEF Restart, Sqlite!Restart
<1>3. /\ IsTable(record') /\ IsTable(disk')
      /\ \A q : \A row \in Rows(q)' : row \in Rows(q)
  <2>1. <<>> = [x \in DOMAIN <<>> |-> <<>>[x]] /\ DOMAIN <<>> = {}
    BY EmptyDomain
  <2>2. IsTable(<<>>)
    BY <2>1 DEF IsTable
  <2>. QED BY <1>2, <2>1, <2>2, RowsAre DEF IInv, Typed
<1>4. Typed'
  BY <1>1, <1>3 DEF IInv, Typed, IsTable
<1>5. Handled'
  BY <1>1 DEF Handled, StoreCalls
<1>6. Memory'
  <2>1. CASE ~durable
    <3>1. /\ created' = <<>> /\ order' = <<>> /\ record' = <<>> /\ disk' = <<>>
          /\ emitted' = emitted /\ told' = told
          /\ emitted \in [Run -> Seq(ApiEvent)] /\ told \in [Run -> Status]
      BY <2>1, <1>2 DEF Restart, IInv, Memory, Kept, StoreTyped
    <3>2. Kept(ApiEvent)'
      <4>1. EmptyStore'
        BY <3>1 DEF EmptyStore
      <4>. QED BY <4>1, EmptyStoreIsKept, PTL
    <3>. QED BY <1>1, <2>1, <3>1, <3>2, EmptyDomain DEF IInv, Memory, Silent, Store!ToSet
  <2>2. CASE durable
    BY <1>1, <2>2 DEF Memory
  <2>. QED BY <2>1, <2>2 DEF IInv, Typed
<1>7. Aligned'
  BY <1>1, <1>2 DEF Aligned
<1>8. ASSUME NEW q \in Run, NEW row \in Rows(q)' PROVE RowInv(q, row)'
  <2>1. RowInv(q, row)
    BY <1>3, <1>8 DEF IInv
  <2>2. Untouched(q, row)
    BY <1>1, <2>1 DEF Untouched, RowInv, Told
  <2>. QED BY <1>1, <2>1, <2>2, UntouchedRow
<1>. QED BY <1>4, <1>5, <1>6, <1>7, <1>8 DEF IInv

LEMMA InvStep == ASSUME IInv, [Next]_vars PROVE IInv'
<1>1. ASSUME NEW r \in Run, CallsStore(r) \/ StoreRaises(r) PROVE IInv'
  BY <1>1, InvStoreCall
<1>2. ASSUME NEW r \in Run, Refuse(r) \/ Accept(r) \/ EngineReturns(r) \/ EngineRaises(r)
      PROVE  IInv'
  BY <1>2, InvMove
<1>3. ASSUME NEW r \in Run, EngineReports(r) \/ RouteReports(r) PROVE IInv'
  BY <1>3, InvReport
<1>4. ASSUME NEW r \in Run, RouteBegins(r) PROVE IInv'
  <2>1. UNCHANGED <<record, disk, inMemory, durable, unmade, pc, answer>>
    BY <1>4 DEF RouteBegins, store
  <2>. QED BY <1>4, <2>1, InvThread
<1>5. CASE ReloadBegins \/ ReloadEnds \/ AllAnswered \/ UNCHANGED vars
  <2>1. /\ UNCHANGED <<record, disk, inMemory, durable, unmade, pc, answer>>
        /\ thread' = thread /\ (loop' = loop \/ loop \in {None, Reload})
    BY <1>5 DEF ReloadBegins, ReloadEnds, AllAnswered, vars, store
  <2>. QED BY <2>1, InvThread
<1>6. CASE Restart
  BY <1>6, InvRestart
<1>. QED BY <1>1, <1>2, <1>3, <1>4, <1>5, <1>6 DEF Next

LEMMA Invariance == Spec => []IInv
<1>1. Init => IInv
  BY InvInit
<1>2. IInv /\ [Next]_vars => IInv'
  BY InvStep
<1>. QED BY <1>1, <1>2, PTL DEF Spec

----------------------------------------------------------------------------
(* Theorems. *)

LEMMA StoreMeans == IInv => KeepsTheNewest /\ RecordsWhatItWasTold
BY BoundsAssumption, KeptMeans DEF IInv, Memory, KeepsTheNewest, RecordsWhatItWasTold

LEMMA AnswersMean == IInv => AnswerMatchesRecord
BY DEF IInv, RowInv, Told, AnswerMatchesRecord

LEMMA TimelinesMean == IInv => TimelineIsFramed
<1>1. ASSUME IInv, NEW r \in Run, NEW row \in Rows(r), NEW i \in DOMAIN row.events,
             row.events[i] \in Terminal
      PROVE  /\ Len(row.events) - i <= 1
             /\ \A j \in DOMAIN row.events : j > i => row.events[j] = "route"
             /\ answer[r] = "ok" => row.events[i] = "run_completed"
             /\ answer[r] = "failed" => row.events[i] = "run_failed"
  <2> DEFINE seen == row.events
  <2>1. IsTheEnd(r, seen, i)
    BY <1>1 DEF IInv, RowInv, Ended
  <2>2. seen \in Seq(ApiEvent)
    BY <1>1, RowsAreTyped DEF IInv, Row
  <2>3. Len(seen) \in Nat /\ DOMAIN seen = 1..Len(seen) /\ i \in 1..Len(seen)
    BY <1>1, <2>2, LenProperties
  <2>. HIDE DEF seen
  <2>4. i = Len(seen) \/ (i = Len(seen) - 1 /\ seen[i + 1] = "route")
    BY <2>1 DEF IsTheEnd
  <2>5. Len(seen) - i <= 1
    BY <2>3, <2>4
  <2>6. ASSUME NEW j \in DOMAIN seen, j > i PROVE seen[j] = "route"
    <3>1. j \in 1..Len(seen)
      BY <2>3
    <3>2. CASE i = Len(seen)
      BY <2>3, <2>6, <3>1, <3>2
    <3>3. CASE i = Len(seen) - 1 /\ seen[i + 1] = "route"
      <4>1. j = i + 1
        BY <2>3, <2>6, <3>1, <3>3
      <4>. QED BY <3>3, <4>1
    <3>. QED BY <2>4, <3>2, <3>3
  <2>7. answer[r] = "ok" => seen[i] = "run_completed"
    BY <2>1 DEF IsTheEnd
  <2>8. answer[r] = "failed" => seen[i] = "run_failed"
    BY <2>1 DEF IsTheEnd
  <2>. QED BY <2>5, <2>6, <2>7, <2>8 DEF seen
<1>2. ASSUME IInv, NEW r \in Run, NEW row \in Rows(r), NEW i \in DOMAIN row.events
      PROVE  row.events[i] = "run_started" <=> i = 1
  BY <1>2 DEF IInv, RowInv, Opened
<1>. QED BY <1>1, <1>2 DEF TimelineIsFramed

\* A store in memory keeps the max_runs runs created last whichever requests
\* run on, fail on a store call or are lost, for all requests and bounds.
THEOREM ServedRunsAreKept == Spec => []KeepsTheNewest
BY Invariance, StoreMeans, PTL

\* A record kept in memory says what its run said, for all requests and bounds.
THEOREM ServedRecordsAreTruthful == Spec => []RecordsWhatItWasTold
BY Invariance, StoreMeans, PTL

\* What a client was told is what the records of its run say, in memory, seen
\* on SQLite and on disk, for all requests and bounds, though any call on the
\* store may raise and leave the transaction open.  Once a create has raised, a
\* row that an uncommitted eviction hid may come back running, but never with
\* the other end.
THEOREM AnswersMatchRecords == Spec => []AnswerMatchesRecord
BY Invariance, AnswersMean, PTL

\* A timeline, in memory, seen on SQLite or on disk, begins with run_started and
\* has one end at most, the one its client was told of, for all requests and
\* bounds: a worker thread that runs on after a timeout adds one report at most.
THEOREM TimelinesAreFramed == Spec => []TimelineIsFramed
BY Invariance, TimelinesMean, PTL

============================================================================
