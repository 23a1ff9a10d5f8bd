------------------------ MODULE PeriodicTasksProofs -------------------------
(***************************************************************************)
(* Proofs about PeriodicTasks, for any set of task names with any intervals *)
(* and any bounds.  What the properties lack to be inductive is what is known *)
(* of the copies in dueTasks (no two of one name, each of the registration   *)
(* that had the name, none of them run yet) and of the time left (OnTime).   *)
(***************************************************************************)
EXTENDS PeriodicTasks, FiniteSetTheorems, TLAPS

RecordsDiffer ==
    \A i, j \in DOMAIN periodicTasks : periodicTasks[i].gen = periodicTasks[j].gen => i = j

\* What a registration has not reached it has not done.
UnusedAreFresh ==
    /\ retired \subseteq 1..gen
    /\ \A k \in DOMAIN dueTasks : dueTasks[k].gen <= gen
    /\ \A g \in Gens : g > gen => runs[g] = 0 /\ lateRuns[g] = 0

CopiesDiffer ==
    \A k, l \in DOMAIN dueTasks :
        dueTasks[k].name = dueTasks[l].name \/ dueTasks[k].gen = dueTasks[l].gen => k = l

CopiesHaveTheName ==
    \A k \in DOMAIN dueTasks : \A i \in DOMAIN periodicTasks :
        dueTasks[k].gen = periodicTasks[i].gen => dueTasks[k].name = periodicTasks[i].name

CopiesInHand ==
    /\ tpc \in {"off", "sleep", "scan"} => dueTasks = <<>>
    /\ tpc = "mark" => dueTasks # <<>>

LateOnlyOnce ==
    /\ \A g \in Gens : lateRuns[g] <= 1 /\ (lateRuns[g] > 0 => g \in retired)
    /\ \A k \in DOMAIN dueTasks :
         tpc = "run" \/ k > 1 => lateRuns[dueTasks[k].gen] = 0

\* The handler of g has run and is not yet marked.
InMark(g) == tpc = "mark" /\ outcome = "ok" /\ dueTasks[1].gen = g

CountOf(r) ==
    /\ r.runCount <= runs[r.gen] + 1
    /\ ~InMark(r.gen) => runs[r.gen] <= r.runCount
    /\ InMark(r.gen) => r.runCount <= runs[r.gen] /\ runs[r.gen] <= r.runCount + 1
    /\ \A k \in DOMAIN dueTasks :
         dueTasks[k].name = r.name /\ dueTasks[k].gen # r.gen => r.runCount <= runs[r.gen]

Counts == \A i \in DOMAIN periodicTasks : CountOf(periodicTasks[i])

\* What is left of the interval and what has passed of it make it up.
OnTime(r) == r.since < Interval[r.name] => r.left + r.since >= Interval[r.name]

AllOnTime == \A i \in DOMAIN periodicTasks : OnTime(periodicTasks[i])

IInv ==
    /\ TypeOK
    /\ OneRecordPerName
    /\ RecordsDiffer
    /\ UnusedAreFresh
    /\ CopiesDiffer
    /\ CopiesHaveTheName
    /\ CopiesInHand
    /\ LateOnlyOnce
    /\ Counts
    /\ AllOnTime

-----------------------------------------------------------------------------
(* Lists of positions *)

LEMMA InOrderLists ==
    ASSUME NEW n \in Nat, NEW S \in SUBSET (1..n), NEW f \in InOrder(S)
    PROVE  /\ Cardinality(S) \in Nat /\ f \in [1..Cardinality(S) -> S]
           /\ \A a, b \in DOMAIN f : f[a] = f[b] => a = b
           /\ \A i \in S : \E a \in DOMAIN f : f[a] = i
<1>1. IsFiniteSet(1..n)
    BY FS_Interval
<1>2. IsFiniteSet(S)
    BY <1>1, FS_Subset
<1>3. Cardinality(S) \in Nat
    BY <1>2, FS_CardinalityType
<1>4. f \in [1..Cardinality(S) -> S]
      /\ \A a, b \in 1..Cardinality(S) : a < b => f[a] < f[b]
    BY DEF InOrder
<1>5. ASSUME NEW a \in 1..Cardinality(S), NEW b \in 1..Cardinality(S), f[a] = f[b]
      PROVE  a = b
    <2>1. f[a] \in 1..n /\ f[b] \in 1..n
        BY <1>4
    <2>2. ~(a < b) /\ ~(b < a)
        BY <1>4, <1>5, <2>1
    <2> QED
        BY <2>2, <1>3
<1>6. f \in Injection(1..Cardinality(S), S)
    BY <1>4, <1>5 DEF Injection, IsInjective
<1>7. Cardinality(1..Cardinality(S)) = Cardinality(S)
    BY <1>3, FS_Interval
<1>8. f \in Surjection(1..Cardinality(S), S)
    BY <1>2, <1>6, <1>7, FS_Injection
<1>9. \A i \in S : \E a \in 1..Cardinality(S) : f[a] = i
    BY <1>8 DEF Surjection
<1> QED
    BY <1>3, <1>4, <1>5, <1>9

-----------------------------------------------------------------------------
(* Types *)

LEMMA ListType ==
    ASSUME NEW S, NEW n \in Nat, NEW s \in [1..n -> S]
    PROVE  s \in Seq(S)
    OBVIOUS

LEMMA RecordTypes ==
    ASSUME NEW r \in TaskRecords
    PROVE  /\ r.name \in Names /\ r.gen \in Gens /\ r.left \in Int /\ r.since \in Nat
           /\ r.runCount \in 0..MaxCount /\ r.lastError \in BOOLEAN
           /\ Restarted(r) \in TaskRecords
           /\ Restarted(r).name = r.name /\ Restarted(r).gen = r.gen
           /\ Restarted(r).runCount = r.runCount
           /\ Marked(r) \in TaskRecords
           /\ Marked(r).name = r.name /\ Marked(r).gen = r.gen
           /\ Marked(r).runCount = IF outcome = "ok" THEN Bump(r.runCount) ELSE r.runCount
           /\ Marked(r).left = r.left /\ Marked(r).since = r.since
<1>1. Interval[r.name] \in Nat
    BY IntervalAssumption DEF TaskRecords
<1>2. Bump(r.runCount) \in 0..MaxCount
    BY BoundsAssumption DEF TaskRecords, Bump
<1>3. /\ r.name \in Names /\ r.gen \in Gens /\ r.left \in Int /\ r.since \in Nat
      /\ r.runCount \in 0..MaxCount /\ r.lastError \in BOOLEAN
    BY DEF TaskRecords
<1>4. /\ Restarted(r) \in TaskRecords
      /\ Restarted(r).name = r.name /\ Restarted(r).gen = r.gen
      /\ Restarted(r).runCount = r.runCount
    <2>1. ASSUME NEW units \in Int
          PROVE  [r EXCEPT !.left = units, !.since = 0] \in TaskRecords
        BY DEF TaskRecords
    <2>2. Restarted(r) \in TaskRecords
        <3>1. Interval[r.name] \in Int
            BY <1>1
        <3> QED
            BY <2>1, <3>1 DEF Restarted
    <2>3. Restarted(r).name = r.name
        BY DEF TaskRecords, Restarted
    <2>4. Restarted(r).gen = r.gen
        BY DEF TaskRecords, Restarted
    <2>5. Restarted(r).runCount = r.runCount
        BY DEF TaskRecords, Restarted
    <2> QED
        BY <2>2, <2>3, <2>4, <2>5
<1>5. CASE outcome = "ok"
    <2>1. /\ Marked(r) \in TaskRecords
          /\ Marked(r).name = r.name /\ Marked(r).gen = r.gen
          /\ Marked(r).runCount = Bump(r.runCount)
          /\ Marked(r).left = r.left /\ Marked(r).since = r.since
        BY <1>2, <1>3, <1>5 DEF TaskRecords, Marked
    <2> QED
        BY <1>3, <1>4, <1>5, <2>1
<1>6. CASE outcome # "ok"
    <2>1. /\ Marked(r) \in TaskRecords
          /\ Marked(r).name = r.name /\ Marked(r).gen = r.gen
          /\ Marked(r).runCount = r.runCount
          /\ Marked(r).left = r.left /\ Marked(r).since = r.since
        BY <1>3, <1>6 DEF TaskRecords, Marked
    <2> QED
        BY <1>3, <1>4, <1>6, <2>1
<1> QED
    BY <1>5, <1>6

\* An interval starts whole, and time takes from it what it adds to the rest.
LEMMA RecordsOnTime ==
    ASSUME NEW r \in TaskRecords
    PROVE  /\ OnTime(Restarted(r))
           /\ OnTime(r) => OnTime(Marked(r))
           /\ Later(r) \in TaskRecords
           /\ Later(r).name = r.name /\ Later(r).gen = r.gen
           /\ Later(r).runCount = r.runCount
           /\ OnTime(r) => OnTime(Later(r))
<1>1. /\ r.name \in Names /\ r.left \in Int /\ r.since \in Nat
      /\ Interval[r.name] \in Nat /\ MaxOverdue \in Nat
    BY IntervalAssumption, BoundsAssumption DEF TaskRecords
<1>2. /\ Restarted(r).left = Interval[r.name] /\ Restarted(r).since = 0
      /\ Restarted(r).name = r.name
    BY DEF TaskRecords, Restarted
<1>3. OnTime(Restarted(r))
    BY <1>1, <1>2 DEF OnTime
<1>4. OnTime(r) => OnTime(Marked(r))
    BY RecordTypes DEF OnTime
<1>5. /\ Later(r).left = IF r.left > -MaxOverdue THEN r.left - 1 ELSE r.left
      /\ Later(r).since = IF r.since < Interval[r.name] THEN r.since + 1 ELSE r.since
      /\ Later(r).name = r.name /\ Later(r).gen = r.gen
      /\ Later(r).runCount = r.runCount
    BY DEF TaskRecords, Later
<1>6. Later(r) \in TaskRecords
    <2>1. /\ (IF r.left > -MaxOverdue THEN r.left - 1 ELSE r.left) \in Int
          /\ (IF r.since < Interval[r.name] THEN r.since + 1 ELSE r.since) \in Nat
        BY <1>1
    <2> QED
        BY <2>1 DEF TaskRecords, Later
<1>7. OnTime(r) => OnTime(Later(r))
    BY <1>1, <1>5 DEF OnTime
<1> QED
    BY <1>3, <1>4, <1>5, <1>6, <1>7

LEMMA NewRecordType ==
    ASSUME TypeOK, gen < MaxGen, NEW n \in Names
    PROVE  /\ NewRecord(n) \in TaskRecords
           /\ NewRecord(n).name = n /\ NewRecord(n).gen = gen + 1
           /\ NewRecord(n).runCount = 0
           /\ OnTime(NewRecord(n))
<1>1. Interval[n] \in Nat
    BY IntervalAssumption
<1> QED
    BY <1>1, BoundsAssumption DEF TypeOK, TaskRecords, NewRecord, Gens, OnTime

LEMMA TableType ==
    ASSUME TypeOK
    PROVE  /\ Len(periodicTasks) \in Nat
           /\ DOMAIN periodicTasks = 1..Len(periodicTasks)
           /\ \A i \in DOMAIN periodicTasks : periodicTasks[i] \in TaskRecords
           /\ Len(dueTasks) \in Nat
           /\ DOMAIN dueTasks = 1..Len(dueTasks)
           /\ \A k \in DOMAIN dueTasks :
                dueTasks[k].name \in Names /\ dueTasks[k].gen \in Gens
<1>1. /\ Len(periodicTasks) \in Nat
      /\ DOMAIN periodicTasks = 1..Len(periodicTasks)
      /\ \A i \in DOMAIN periodicTasks : periodicTasks[i] \in TaskRecords
    BY DEF TypeOK
<1>2. ASSUME NEW Copies, dueTasks \in Seq(Copies)
      PROVE  /\ Len(dueTasks) \in Nat
             /\ DOMAIN dueTasks = 1..Len(dueTasks)
             /\ \A k \in DOMAIN dueTasks : dueTasks[k] \in Copies
    BY <1>2
<1>3. /\ Len(dueTasks) \in Nat
      /\ DOMAIN dueTasks = 1..Len(dueTasks)
      /\ \A k \in DOMAIN dueTasks : dueTasks[k] \in [name : Names, gen : Gens]
    BY <1>2 DEF TypeOK
<1> QED
    BY <1>1, <1>3

LEMMA InitInv == Init => IInv
<1> SUFFICES ASSUME Init PROVE IInv
    OBVIOUS
<1>1. TypeOK
    BY BoundsAssumption DEF Init, TypeOK, Gens
<1>2. (1..gen) \ retired = {} /\ DOMAIN periodicTasks = {} /\ DOMAIN dueTasks = {}
    BY DEF Init
<1>3. OneRecordPerName /\ RecordsDiffer /\ CopiesDiffer /\ CopiesHaveTheName
    BY <1>2 DEF OneRecordPerName, RecordsDiffer, CopiesDiffer, CopiesHaveTheName
<1>4. UnusedAreFresh /\ CopiesInHand /\ LateOnlyOnce
    BY <1>2 DEF Init, UnusedAreFresh, CopiesInHand, LateOnlyOnce
<1>5. Counts /\ AllOnTime
    BY <1>2 DEF Counts, AllOnTime
<1> QED
    BY <1>1, <1>3, <1>4, <1>5 DEF IInv

\* A step that leaves names and registrations of the table alone.
SameTable ==
    /\ DOMAIN periodicTasks' = DOMAIN periodicTasks
    /\ \A i \in DOMAIN periodicTasks :
         /\ periodicTasks'[i] \in TaskRecords
         /\ periodicTasks'[i].name = periodicTasks[i].name
         /\ periodicTasks'[i].gen = periodicTasks[i].gen
    /\ UNCHANGED <<gen, retired>>

LEMMA SameTableKeepsNames ==
    ASSUME OneRecordPerName, RecordsDiffer, SameTable
    PROVE  OneRecordPerName' /\ RecordsDiffer'
<1>1. {periodicTasks'[i].gen : i \in DOMAIN periodicTasks'}
        = {periodicTasks[i].gen : i \in DOMAIN periodicTasks}
    BY DEF SameTable
<1> QED
    BY <1>1 DEF OneRecordPerName, RecordsDiffer, SameTable

\* A step that changes neither handlers nor counts, and copies nothing.
LEMMA QuietStep ==
    ASSUME IInv, SameTable, periodicTasks' \in Seq(TaskRecords),
           \A i \in DOMAIN periodicTasks :
               periodicTasks'[i].runCount = periodicTasks[i].runCount,
           AllOnTime', UNCHANGED <<dueTasks, outcome, runs, lateRuns>>,
           \/ tpc' = tpc
           \/ /\ dueTasks = <<>> /\ tpc # "mark"
              /\ tpc' \in {"off", "sleep", "scan", "run"},
           failures' \in 0..MaxFailures
    PROVE  IInv'
<1>1. TypeOK'
    BY DEF IInv, TypeOK, SameTable
<1>2. OneRecordPerName' /\ RecordsDiffer'
    BY SameTableKeepsNames DEF IInv
<1>3. UnusedAreFresh' /\ CopiesDiffer' /\ CopiesHaveTheName'
    BY DEF IInv, UnusedAreFresh, CopiesDiffer, CopiesHaveTheName, SameTable
<1>4. CopiesInHand'
    BY DEF IInv, CopiesInHand, TypeOK
<1>5. LateOnlyOnce'
    <2>1. tpc' = tpc \/ DOMAIN dueTasks = {}
        OBVIOUS
    <2> QED
        BY <2>1 DEF IInv, LateOnlyOnce, SameTable
<1>6. Counts'
    <2>1. \A g : InMark(g)' <=> InMark(g)
        BY DEF InMark
    <2> QED
        BY <2>1 DEF IInv, Counts, CountOf, SameTable
<1> QED
    BY <1>1, <1>2, <1>3, <1>4, <1>5, <1>6 DEF IInv

LEMMA RestInv == IInv /\ (Rest \/ Wake \/ Start \/ Stop) => IInv'
<1> SUFFICES ASSUME IInv, Rest \/ Wake \/ Start \/ Stop PROVE IInv'
    OBVIOUS
<1>1. SameTable /\ periodicTasks' \in Seq(TaskRecords)
    <2>1. UNCHANGED tableVars
        BY DEF Rest, Wake, Start, Stop
    <2> QED
        BY <2>1, TableType DEF tableVars, SameTable, IInv, TypeOK
<1>2. dueTasks = <<>>
    BY DEF Rest, Wake, Start, Stop, IInv, CopiesInHand
<1>3. UNCHANGED <<periodicTasks, dueTasks, outcome, runs, lateRuns, failures>>
    BY DEF Rest, Wake, Start, Stop, tableVars
<1>4. tpc # "mark" /\ tpc' \in {"off", "sleep", "scan", "run"}
    BY DEF Rest, Wake, Start, Stop
<1>5. AllOnTime'
    BY <1>3 DEF IInv, AllOnTime
<1> QED
    BY <1>1, <1>2, <1>3, <1>4, <1>5, QuietStep DEF IInv, TypeOK

LEMMA ElapseInv == IInv /\ Elapse => IInv'
<1> SUFFICES ASSUME IInv, Elapse PROVE IInv'
    OBVIOUS
<1>1. periodicTasks' = [i \in DOMAIN periodicTasks |-> Later(periodicTasks[i])]
    BY DEF Elapse
<1>2. ASSUME NEW i \in DOMAIN periodicTasks
      PROVE  /\ periodicTasks'[i] \in TaskRecords
             /\ periodicTasks'[i].name = periodicTasks[i].name
             /\ periodicTasks'[i].gen = periodicTasks[i].gen
             /\ periodicTasks'[i].runCount = periodicTasks[i].runCount
             /\ OnTime(periodicTasks'[i])
    <2>1. PICK r \in TaskRecords : r = periodicTasks[i]
        BY TableType DEF IInv
    <2>2. OnTime(r) /\ periodicTasks'[i] = Later(r)
        BY <1>1, <2>1 DEF IInv, AllOnTime
    <2> QED
        BY <2>1, <2>2, RecordsOnTime
<1>3. SameTable /\ periodicTasks' \in Seq(TaskRecords)
    BY <1>1, <1>2, TableType DEF SameTable, Elapse, IInv
<1>4. UNCHANGED <<dueTasks, outcome, runs, lateRuns, tpc, failures>>
    BY DEF Elapse, loopVars
<1>5. AllOnTime'
    BY <1>2, <1>3 DEF AllOnTime, SameTable
<1> QED
    BY <1>2, <1>3, <1>4, <1>5, QuietStep DEF IInv, TypeOK

LEMMA ScanThrowsInv == IInv /\ ScanThrows => IInv'
<1> SUFFICES ASSUME IInv, ScanThrows PROVE IInv'
    OBVIOUS
<1>1. PICK k \in DOMAIN periodicTasks :
        periodicTasks' =
          [i \in DOMAIN periodicTasks |->
             IF i < k /\ IsDue(periodicTasks[i]) THEN Restarted(periodicTasks[i])
                                                 ELSE periodicTasks[i]]
    BY DEF ScanThrows
<1>2. \A i \in DOMAIN periodicTasks :
        /\ periodicTasks'[i] \in TaskRecords
        /\ periodicTasks'[i].name = periodicTasks[i].name
        /\ periodicTasks'[i].gen = periodicTasks[i].gen
        /\ periodicTasks'[i].runCount = periodicTasks[i].runCount
    BY <1>1, TableType, RecordTypes DEF IInv
<1>3. SameTable /\ periodicTasks' \in Seq(TaskRecords)
    BY <1>1, <1>2, TableType DEF SameTable, ScanThrows, IInv
<1>4. dueTasks = <<>> /\ tpc # "mark" /\ tpc' = "off"
    BY DEF ScanThrows, IInv, CopiesInHand
<1>5. UNCHANGED <<dueTasks, outcome, runs, lateRuns>> /\ failures' \in 0..MaxFailures
    BY BoundsAssumption DEF ScanThrows, IInv, TypeOK
<1>6. AllOnTime'
    <2>1. ASSUME NEW i \in DOMAIN periodicTasks PROVE OnTime(periodicTasks'[i])
        <3>1. PICK r \in TaskRecords : r = periodicTasks[i]
            BY TableType DEF IInv
        <3>2. OnTime(r) /\ periodicTasks'[i] \in {r, Restarted(r)}
            BY <1>1, <3>1 DEF IInv, AllOnTime
        <3> QED
            BY <3>2, RecordsOnTime
    <2> QED
        BY <1>3, <2>1 DEF AllOnTime, SameTable
<1> QED
    BY <1>2, <1>3, <1>4, <1>5, <1>6, QuietStep

\* The copies of a scan are the due records.
LEMMA ScanInv == IInv /\ Scan => IInv'
<1> SUFFICES ASSUME IInv, Scan PROVE IInv'
    OBVIOUS
<1> DEFINE Due == {i \in DOMAIN periodicTasks : IsDue(periodicTasks[i])}
<1>1. PICK due \in InOrder(Due) :
        dueTasks' = [a \in DOMAIN due |-> [name |-> periodicTasks[due[a]].name,
                                           gen  |-> periodicTasks[due[a]].gen]]
    BY DEF Scan, CopyDue
<1>2. /\ Len(periodicTasks) \in Nat /\ Due \in SUBSET (1..Len(periodicTasks))
      /\ DOMAIN periodicTasks = 1..Len(periodicTasks)
    BY TableType DEF IInv
<1> HIDE DEF Due
<1>3. /\ Cardinality(Due) \in Nat /\ DOMAIN due = 1..Cardinality(Due)
      /\ \A a \in DOMAIN due : due[a] \in DOMAIN periodicTasks
      /\ \A a, b \in DOMAIN due : due[a] = due[b] => a = b
    <2>1. /\ Cardinality(Due) \in Nat /\ due \in [1..Cardinality(Due) -> Due]
          /\ \A a, b \in DOMAIN due : due[a] = due[b] => a = b
        BY <1>1, <1>2, InOrderLists
    <2> QED
        BY <2>1, <1>2
<1>4. \A i \in DOMAIN periodicTasks :
        /\ periodicTasks'[i] \in TaskRecords
        /\ periodicTasks'[i].name = periodicTasks[i].name
        /\ periodicTasks'[i].gen = periodicTasks[i].gen
        /\ periodicTasks'[i].runCount = periodicTasks[i].runCount
    BY TableType, RecordTypes DEF IInv, Scan
<1>5. SameTable /\ periodicTasks' \in Seq(TaskRecords)
    BY <1>4, TableType DEF SameTable, Scan, IInv
<1>6. OneRecordPerName' /\ RecordsDiffer'
    BY <1>5, SameTableKeepsNames DEF IInv
<1>7. /\ DOMAIN dueTasks' = DOMAIN due
      /\ \A a \in DOMAIN due : /\ dueTasks'[a].name = periodicTasks[due[a]].name
                               /\ dueTasks'[a].gen = periodicTasks[due[a]].gen
    BY <1>1
<1>8. \A i \in DOMAIN periodicTasks : /\ periodicTasks[i].name \in Names
                                     /\ periodicTasks[i].gen \in Gens
                                     /\ periodicTasks[i].gen \in (1..gen) \ retired
    BY TableType, RecordTypes DEF IInv, OneRecordPerName
<1>9. TypeOK'
    <2>1. dueTasks' \in Seq([name : Names, gen : Gens])
        <3> DEFINE copy(a) == [name |-> periodicTasks[due[a]].name,
                               gen  |-> periodicTasks[due[a]].gen]
        <3>1. \A a \in 1..Cardinality(Due) : copy(a) \in [name : Names, gen : Gens]
            BY <1>3, <1>8
        <3>2. dueTasks' = [a \in 1..Cardinality(Due) |-> copy(a)]
            BY <1>1, <1>3
        <3> HIDE DEF copy
        <3>3. dueTasks' \in [1..Cardinality(Due) -> [name : Names, gen : Gens]]
            BY <3>1, <3>2
        <3> QED
            BY <1>3, <3>3, ListType
    <2> QED
        BY <2>1, <1>5 DEF IInv, TypeOK, Scan
<1>10. UnusedAreFresh'
    BY <1>3, <1>7, <1>8 DEF IInv, UnusedAreFresh, Scan
<1>11. CopiesDiffer'
    <2>1. ASSUME NEW a \in DOMAIN due, NEW b \in DOMAIN due,
                 \/ periodicTasks[due[a]].name = periodicTasks[due[b]].name
                 \/ periodicTasks[due[a]].gen = periodicTasks[due[b]].gen
          PROVE  a = b
        BY <2>1, <1>3 DEF IInv, OneRecordPerName, RecordsDiffer
    <2> QED
        BY <2>1, <1>7 DEF CopiesDiffer
<1>12. CopiesHaveTheName'
    <2>1. ASSUME NEW a \in DOMAIN due, NEW i \in DOMAIN periodicTasks,
                 periodicTasks[due[a]].gen = periodicTasks[i].gen
          PROVE  periodicTasks[due[a]].name = periodicTasks[i].name
        BY <2>1, <1>3 DEF IInv, RecordsDiffer
    <2> QED
        BY <2>1, <1>5, <1>7 DEF CopiesHaveTheName, SameTable
<1>13. CopiesInHand'
    BY DEF Scan, CopiesInHand
<1>14. LateOnlyOnce'
    <2>1. \A i \in DOMAIN periodicTasks : lateRuns[periodicTasks[i].gen] = 0
        BY <1>8 DEF IInv, LateOnlyOnce, TypeOK
    <2> QED
        BY <2>1, <1>3, <1>7 DEF IInv, LateOnlyOnce, Scan
<1>15. Counts'
    <2> SUFFICES ASSUME NEW i \in DOMAIN periodicTasks PROVE CountOf(periodicTasks[i])'
        BY <1>5 DEF Counts, SameTable
    <2>1. tpc = "scan" /\ tpc' = "run" /\ runs' = runs
        BY DEF Scan
    <2>2. ~InMark(periodicTasks[i].gen) /\ ~InMark(periodicTasks[i].gen)'
        BY <2>1 DEF InMark
    <2>3. /\ periodicTasks[i].runCount <= runs[periodicTasks[i].gen] + 1
          /\ runs[periodicTasks[i].gen] <= periodicTasks[i].runCount
        BY <2>2 DEF IInv, Counts, CountOf
    <2>4. ASSUME NEW a \in DOMAIN due, periodicTasks[due[a]].name = periodicTasks[i].name
          PROVE  periodicTasks[due[a]].gen = periodicTasks[i].gen
        BY <2>4, <1>3 DEF IInv, OneRecordPerName
    <2>5. \A a \in DOMAIN dueTasks' :
            dueTasks'[a].name = periodicTasks[i].name => dueTasks'[a].gen = periodicTasks[i].gen
        BY <2>4, <1>7
    <2> QED
        BY <2>1, <2>2, <2>3, <2>5, <1>4 DEF CountOf
<1>16. AllOnTime'
    <2>1. ASSUME NEW i \in DOMAIN periodicTasks PROVE OnTime(periodicTasks'[i])
        <3>1. PICK r \in TaskRecords : r = periodicTasks[i]
            BY TableType DEF IInv
        <3>2. OnTime(r) /\ periodicTasks'[i] \in {r, Restarted(r)}
            BY <3>1 DEF IInv, AllOnTime, Scan
        <3> QED
            BY <3>2, RecordsOnTime
    <2> QED
        BY <1>5, <2>1 DEF AllOnTime, SameTable
<1> QED
    BY <1>6, <1>9, <1>10, <1>11, <1>12, <1>13, <1>14, <1>15, <1>16 DEF IInv

LEMMA RunHandlerInv == IInv /\ RunHandler => IInv'
<1> SUFFICES ASSUME IInv, RunHandler PROVE IInv'
    OBVIOUS
<1> DEFINE g == dueTasks[1].gen
<1>1. /\ tpc = "run" /\ tpc' = "mark" /\ dueTasks # <<>> /\ 1 \in DOMAIN dueTasks
      /\ Head(dueTasks) = dueTasks[1] /\ g \in Gens
      /\ UNCHANGED <<periodicTasks, gen, retired, dueTasks, failures>>
      /\ outcome' \in {"ok", "error"}
    BY TableType DEF IInv, RunHandler, tableVars, TypeOK
<1>2. /\ runs' = IF outcome' = "ok" THEN [runs EXCEPT ![g] = Bump(@)] ELSE runs
      /\ lateRuns' = IF g \in retired THEN [lateRuns EXCEPT ![g] = @ + 1] ELSE lateRuns
    BY <1>1 DEF RunHandler
<1> HIDE DEF g
<1>3. runs \in [Gens -> 0..MaxCount] /\ lateRuns \in [Gens -> Nat] /\ MaxCount \in Nat
    BY BoundsAssumption DEF IInv, TypeOK
<1>4. Bump(runs[g]) \in 0..MaxCount /\ Bump(runs[g]) \in {runs[g], runs[g] + 1}
      /\ (Bump(runs[g]) = runs[g] => runs[g] = MaxCount)
    BY <1>1, <1>3 DEF Bump
<1>5. /\ runs' \in [Gens -> 0..MaxCount] /\ lateRuns' \in [Gens -> Nat]
      /\ \A h \in Gens : h # g => runs'[h] = runs[h] /\ lateRuns'[h] = lateRuns[h]
      /\ runs'[g] = IF outcome' = "ok" THEN Bump(runs[g]) ELSE runs[g]
      /\ lateRuns'[g] = IF g \in retired THEN lateRuns[g] + 1 ELSE lateRuns[g]
    BY <1>1, <1>2, <1>3, <1>4
<1>6. TypeOK'
    BY <1>1, <1>5 DEF IInv, TypeOK
<1>7. OneRecordPerName' /\ RecordsDiffer' /\ CopiesDiffer' /\ CopiesHaveTheName'
    BY <1>1 DEF IInv, OneRecordPerName, RecordsDiffer, CopiesDiffer, CopiesHaveTheName
<1>8. UnusedAreFresh'
    <2>1. g <= gen
        BY <1>1 DEF IInv, UnusedAreFresh, g
    <2>2. gen \in Nat
        BY BoundsAssumption DEF IInv, TypeOK
    <2>3. \A h \in Gens : h > gen => h # g
        BY <2>1, <2>2, <1>1 DEF Gens
    <2> QED
        BY <1>1, <1>5, <2>3 DEF IInv, UnusedAreFresh
<1>9. CopiesInHand'
    BY <1>1 DEF CopiesInHand
<1>10. LateOnlyOnce'
    <2>1. lateRuns[g] = 0
        BY <1>1 DEF IInv, LateOnlyOnce, g
    <2>2. \A h \in Gens : lateRuns'[h] <= 1 /\ (lateRuns'[h] > 0 => h \in retired')
        BY <2>1, <1>1, <1>5 DEF IInv, LateOnlyOnce
    <2>3. ASSUME NEW k \in DOMAIN dueTasks, k > 1
          PROVE  lateRuns'[dueTasks[k].gen] = 0
        <3>1. dueTasks[k].gen # g /\ dueTasks[k].gen \in Gens
            BY <1>1, <2>3, TableType DEF IInv, CopiesDiffer, g
        <3>2. lateRuns[dueTasks[k].gen] = 0
            BY <1>1 DEF IInv, LateOnlyOnce
        <3> QED
            BY <3>1, <3>2, <1>5
    <2> QED
        BY <1>1, <2>2, <2>3 DEF LateOnlyOnce
<1>11. Counts'
    <2> SUFFICES ASSUME NEW i \in DOMAIN periodicTasks PROVE CountOf(periodicTasks[i])'
        BY <1>1 DEF Counts
    <2>0. PICK r \in TaskRecords : r = periodicTasks[i]
        BY TableType DEF IInv
    <2>1. r.gen \in Gens /\ r.runCount \in 0..MaxCount
        BY RecordTypes
    <2>2. periodicTasks'[i] = r /\ ~InMark(r.gen)
        BY <1>1, <2>0 DEF InMark
    <2>3. CountOf(r)
        BY <2>0 DEF IInv, Counts
    <2>4. InMark(r.gen)' <=> outcome' = "ok" /\ r.gen = g
        BY <1>1 DEF InMark, g
    <2>5. CASE r.gen # g
        <3>1. runs'[r.gen] = runs[r.gen] /\ ~InMark(r.gen)'
            BY <2>1, <2>4, <2>5, <1>5
        <3> QED
            BY <3>1, <2>2, <2>3, <1>1 DEF CountOf
    <2>6. CASE r.gen = g
        <3>1. dueTasks[1].name = r.name
            BY <2>0, <2>6, <1>1 DEF IInv, CopiesHaveTheName, g
        <3>2. \A k \in DOMAIN dueTasks : dueTasks[k].name = r.name => dueTasks[k].gen = g
            BY <3>1, <1>1 DEF IInv, CopiesDiffer, g
        <3>3. runs[g] <= r.runCount /\ r.runCount <= runs[g] + 1
            BY <2>2, <2>3, <2>6 DEF CountOf
        <3>4. /\ outcome' = "ok" => r.runCount <= runs'[g] /\ runs'[g] <= r.runCount + 1
              /\ outcome' # "ok" => runs'[g] = runs[g]
              /\ r.runCount <= runs'[g] + 1
            BY <3>3, <2>1, <1>1, <1>3, <1>4, <1>5
        <3> QED
            BY <3>2, <3>3, <3>4, <2>2, <2>4, <2>6, <1>1 DEF CountOf
    <2> QED
        BY <2>5, <2>6
<1>12. AllOnTime'
    BY <1>1 DEF IInv, AllOnTime
<1> QED
    BY <1>6, <1>7, <1>8, <1>9, <1>10, <1>11, <1>12 DEF IInv

LEMMA MarkInv == IInv /\ MarkPeriodicTask => IInv'
<1> SUFFICES ASSUME IInv, MarkPeriodicTask PROVE IInv'
    OBVIOUS
<1>1. /\ tpc = "mark" /\ tpc' = "run" /\ dueTasks # <<>> /\ 1 \in DOMAIN dueTasks
      /\ Head(dueTasks) = dueTasks[1] /\ dueTasks' = Tail(dueTasks)
      /\ UNCHANGED <<gen, retired, outcome, failures, runs, lateRuns>>
    BY TableType DEF IInv, MarkPeriodicTask, CopiesInHand
<1>2. /\ DOMAIN dueTasks' = 1..(Len(dueTasks) - 1)
      /\ \A k \in DOMAIN dueTasks' : /\ k + 1 \in DOMAIN dueTasks /\ k + 1 > 1
                                     /\ dueTasks'[k] = dueTasks[k + 1]
      /\ dueTasks' \in Seq([name : Names, gen : Gens])
    <2>1. ASSUME NEW Copies, dueTasks \in Seq(Copies), dueTasks # <<>>
          PROVE  /\ DOMAIN Tail(dueTasks) = 1..(Len(dueTasks) - 1)
                 /\ \A k \in DOMAIN Tail(dueTasks) :
                      /\ k + 1 \in DOMAIN dueTasks /\ k + 1 > 1
                      /\ Tail(dueTasks)[k] = dueTasks[k + 1]
                 /\ Tail(dueTasks) \in Seq(Copies)
        BY <2>1
    <2> QED
        BY <1>1, <2>1 DEF IInv, TypeOK
<1>3. \A i \in DOMAIN periodicTasks :
        periodicTasks'[i] = IF periodicTasks[i].name = dueTasks[1].name
                            THEN Marked(periodicTasks[i]) ELSE periodicTasks[i]
    BY <1>1 DEF MarkPeriodicTask, Find
<1>4. \A i \in DOMAIN periodicTasks :
        /\ periodicTasks'[i] \in TaskRecords
        /\ periodicTasks'[i].name = periodicTasks[i].name
        /\ periodicTasks'[i].gen = periodicTasks[i].gen
    BY <1>3, TableType, RecordTypes DEF IInv
<1>5. SameTable /\ periodicTasks' \in Seq(TaskRecords)
    BY <1>1, <1>4, TableType DEF SameTable, MarkPeriodicTask, IInv
<1>6. OneRecordPerName' /\ RecordsDiffer'
    BY <1>5, SameTableKeepsNames DEF IInv
<1>7. TypeOK'
    BY <1>1, <1>2, <1>5 DEF IInv, TypeOK
<1>8. UnusedAreFresh'
    BY <1>1, <1>2 DEF IInv, UnusedAreFresh
<1>9. CopiesDiffer'
    <2>1. ASSUME NEW k \in DOMAIN dueTasks', NEW l \in DOMAIN dueTasks',
                 \/ dueTasks'[k].name = dueTasks'[l].name
                 \/ dueTasks'[k].gen = dueTasks'[l].gen
          PROVE  k = l
        <3>1. k + 1 = l + 1
            BY <1>2, <2>1 DEF IInv, CopiesDiffer
        <3> QED
            BY <3>1, <1>2, TableType DEF IInv
    <2> QED
        BY <2>1 DEF CopiesDiffer
<1>10. CopiesHaveTheName'
    BY <1>2, <1>5 DEF IInv, CopiesHaveTheName, SameTable
<1>11. CopiesInHand'
    BY <1>1 DEF CopiesInHand
<1>12. LateOnlyOnce'
    BY <1>1, <1>2 DEF IInv, LateOnlyOnce
<1>13. Counts'
    <2> SUFFICES ASSUME NEW i \in DOMAIN periodicTasks PROVE CountOf(periodicTasks[i])'
        BY <1>5 DEF Counts, SameTable
    <2>0. PICK r \in TaskRecords : r = periodicTasks[i]
        BY TableType DEF IInv
    <2>1. r.gen \in Gens /\ r.runCount \in 0..MaxCount /\ runs[r.gen] \in 0..MaxCount
          /\ MaxCount \in Nat
        BY RecordTypes, BoundsAssumption DEF IInv, TypeOK
    <2>2. CountOf(r)
        BY <2>0 DEF IInv, Counts
    <2>3. PICK q \in TaskRecords : q = periodicTasks'[i]
        BY <1>4
    <2>4. q.name = r.name /\ q.gen = r.gen
        BY <1>4, <2>0, <2>3
    <2>5. ~InMark(r.gen)'
        BY <1>1 DEF InMark
    <2>6. CASE r.name # dueTasks[1].name
        <3>1. q = r
            BY <1>3, <2>0, <2>3, <2>6
        <3>2. ~InMark(r.gen)
            BY <1>1, <2>0, <2>6 DEF InMark, IInv, CopiesHaveTheName
        <3> QED
            BY <3>1, <3>2, <2>2, <2>3, <2>5, <1>1, <1>2 DEF CountOf
    <2>7. CASE r.name = dueTasks[1].name
        <3>1. q.runCount = IF outcome = "ok" THEN Bump(r.runCount) ELSE r.runCount
            <4>1. q = Marked(r)
                BY <1>3, <2>0, <2>3, <2>7
            <4> QED
                BY <4>1, RecordTypes
        <3>2. \A k \in DOMAIN dueTasks' : dueTasks'[k].name # q.name
            <4>1. ASSUME NEW k \in DOMAIN dueTasks', dueTasks'[k].name = q.name PROVE FALSE
                <5>1. k + 1 = 1
                    BY <1>1, <1>2, <2>4, <2>7, <4>1 DEF IInv, CopiesDiffer
                <5> QED
                    BY <5>1, <1>2
            <4> QED
                BY <4>1
        <3>3. q.runCount <= runs[r.gen] + 1 /\ runs[r.gen] <= q.runCount
            <4>1. CASE outcome # "ok"
                BY <4>1, <3>1, <2>2 DEF CountOf, InMark
            <4>2. CASE outcome = "ok" /\ dueTasks[1].gen = r.gen
                <5>1. r.runCount <= runs[r.gen] /\ runs[r.gen] <= r.runCount + 1
                    BY <4>2, <1>1, <2>2 DEF CountOf, InMark
                <5> QED
                    BY <5>1, <4>2, <3>1, <2>1 DEF Bump
            <4>3. CASE outcome = "ok" /\ dueTasks[1].gen # r.gen
                <5>1. r.runCount <= runs[r.gen] /\ runs[r.gen] <= r.runCount
                    BY <4>3, <1>1, <2>2, <2>7 DEF CountOf, InMark
                <5> QED
                    BY <5>1, <4>3, <3>1, <2>1 DEF Bump
            <4> QED
                BY <4>1, <4>2, <4>3
        <3> QED
            BY <3>2, <3>3, <2>3, <2>4, <2>5, <1>1 DEF CountOf
    <2> QED
        BY <2>6, <2>7
<1>14. AllOnTime'
    <2>1. ASSUME NEW i \in DOMAIN periodicTasks PROVE OnTime(periodicTasks'[i])
        <3>1. PICK r \in TaskRecords : r = periodicTasks[i]
            BY TableType DEF IInv
        <3>2. OnTime(r) /\ periodicTasks'[i] \in {r, Marked(r)}
            BY <1>3, <3>1 DEF IInv, AllOnTime
        <3> QED
            BY <3>2, RecordsOnTime
    <2> QED
        BY <1>5, <2>1 DEF AllOnTime, SameTable
<1> QED
    BY <1>6, <1>7, <1>8, <1>9, <1>10, <1>11, <1>12, <1>13, <1>14 DEF IInv

LEMMA MarkThrowsInv == IInv /\ MarkThrows => IInv'
<1> SUFFICES ASSUME IInv, MarkThrows PROVE IInv'
    OBVIOUS
<1>1. /\ tpc = "mark" /\ tpc' = "off" /\ outcome = "error"
      /\ dueTasks' = <<>> /\ DOMAIN dueTasks' = {}
      /\ failures' \in 0..MaxFailures
      /\ UNCHANGED <<periodicTasks, gen, retired, outcome, runs, lateRuns>>
    BY BoundsAssumption DEF IInv, TypeOK, MarkThrows, tableVars
<1>2. TypeOK'
    BY <1>1 DEF IInv, TypeOK
<1>3. OneRecordPerName' /\ RecordsDiffer' /\ AllOnTime'
    BY <1>1 DEF IInv, OneRecordPerName, RecordsDiffer, AllOnTime
<1>4. /\ UnusedAreFresh' /\ CopiesDiffer' /\ CopiesHaveTheName'
      /\ CopiesInHand' /\ LateOnlyOnce'
    BY <1>1 DEF IInv, UnusedAreFresh, CopiesDiffer, CopiesHaveTheName,
                CopiesInHand, LateOnlyOnce
<1>5. Counts'
    <2> SUFFICES ASSUME NEW i \in DOMAIN periodicTasks PROVE CountOf(periodicTasks[i])'
        BY <1>1 DEF Counts
    <2>1. CountOf(periodicTasks[i]) /\ periodicTasks'[i] = periodicTasks[i]
        BY <1>1 DEF IInv, Counts
    <2>2. ~InMark(periodicTasks[i].gen) /\ ~InMark(periodicTasks[i].gen)'
        BY <1>1 DEF InMark
    <2> QED
        BY <1>1, <2>1, <2>2 DEF CountOf
<1> QED
    BY <1>2, <1>3, <1>4, <1>5 DEF IInv

LEMMA RegisterInv == ASSUME NEW n \in Names PROVE IInv /\ Register(n) => IInv'
<1> SUFFICES ASSUME IInv, Register(n) PROVE IInv'
    OBVIOUS
<1>1. /\ gen < MaxGen /\ gen' = gen + 1 /\ gen + 1 \in Gens /\ gen \in Nat
      /\ retired' = retired \union {periodicTasks[i].gen : i \in Find(n)}
      /\ UNCHANGED <<dueTasks, tpc, outcome, failures, runs, lateRuns>>
    BY BoundsAssumption DEF IInv, TypeOK, Register, loopVars, Gens
<1>2. PICK new \in TaskRecords : new = NewRecord(n)
    BY <1>1, NewRecordType DEF IInv
<1>3. new.name = n /\ new.gen = gen + 1 /\ new.runCount = 0 /\ OnTime(new)
    BY <1>1, <1>2, NewRecordType DEF IInv
\* Wherever it is put, the new record is the only one of its name.
<1>4. PICK m \in DOMAIN periodicTasks' :
        /\ periodicTasks' \in Seq(TaskRecords)
        /\ periodicTasks'[m] = new
        /\ \A i \in DOMAIN periodicTasks' :
             i # m => /\ i \in DOMAIN periodicTasks /\ i \notin Find(n)
                      /\ periodicTasks'[i] = periodicTasks[i]
        /\ \A i \in DOMAIN periodicTasks :
             i \notin Find(n) => i \in DOMAIN periodicTasks' /\ i # m
    <2>1. CASE Find(n) = {}
        <3>1. periodicTasks' = Append(periodicTasks, new) /\ periodicTasks \in Seq(TaskRecords)
            BY <2>1, <1>2 DEF Register, IInv, TypeOK
        <3>2. /\ periodicTasks' \in Seq(TaskRecords)
              /\ DOMAIN periodicTasks' = 1..(Len(periodicTasks) + 1)
              /\ periodicTasks'[Len(periodicTasks) + 1] = new
              /\ \A i \in 1..Len(periodicTasks) : periodicTasks'[i] = periodicTasks[i]
            BY <3>1
        <3>3. Len(periodicTasks) + 1 \in DOMAIN periodicTasks'
              /\ Len(periodicTasks) \in Nat
            BY <3>2, TableType DEF IInv
        <3>4. DOMAIN periodicTasks = 1..Len(periodicTasks)
            BY TableType DEF IInv
        <3> QED
            BY <3>2, <3>3, <3>4, <2>1
    <2>2. CASE Find(n) # {}
        <3>1. PICK m \in Find(n) : TRUE
            BY <2>2
        <3>2. Find(n) = {m} /\ m \in DOMAIN periodicTasks
            BY <3>1 DEF Find, IInv, OneRecordPerName
        <3>3. periodicTasks' = [i \in DOMAIN periodicTasks |->
                                  IF i \in Find(n) THEN new ELSE periodicTasks[i]]
            BY <2>2, <1>2 DEF Register
        <3>4. periodicTasks' \in Seq(TaskRecords)
            BY <3>3, TableType, ListType DEF IInv
        <3> QED
            BY <3>2, <3>3, <3>4
    <2> QED
        BY <2>1, <2>2
<1>5. \A i \in DOMAIN periodicTasks :
        /\ periodicTasks[i] \in TaskRecords
        /\ periodicTasks[i].gen \in 1..gen /\ periodicTasks[i].gen \notin retired
        /\ i \in Find(n) <=> periodicTasks[i].name = n
    BY TableType DEF IInv, OneRecordPerName, Find
<1>6. OneRecordPerName'
    <2>1. \A i, j \in DOMAIN periodicTasks' :
            periodicTasks'[i].name = periodicTasks'[j].name => i = j
        BY <1>3, <1>4, <1>5 DEF IInv, OneRecordPerName
    <2>2. {periodicTasks'[i].gen : i \in DOMAIN periodicTasks'}
            = {gen + 1} \union {periodicTasks[i].gen : i \in DOMAIN periodicTasks \ Find(n)}
        BY <1>3, <1>4
    <2>3. \A i \in DOMAIN periodicTasks \ Find(n) : \A j \in Find(n) :
            periodicTasks[i].gen # periodicTasks[j].gen
        BY DEF IInv, RecordsDiffer, Find
    <2>4. (1..gen) \ retired = {periodicTasks[i].gen : i \in DOMAIN periodicTasks}
        BY DEF IInv, OneRecordPerName
    <2>5. {periodicTasks[i].gen : i \in DOMAIN periodicTasks \ Find(n)}
            = ((1..gen) \ retired) \ {periodicTasks[i].gen : i \in Find(n)}
        BY <2>3, <2>4 DEF Find
    <2>6. 1..(gen + 1) = (1..gen) \union {gen + 1} /\ gen + 1 \notin retired'
        BY <1>1, <1>5 DEF IInv, UnusedAreFresh, Find
    <2>7. {periodicTasks'[i].gen : i \in DOMAIN periodicTasks'} = (1..gen') \ retired'
        BY <1>1, <2>2, <2>5, <2>6
    <2> QED
        BY <2>1, <2>7 DEF OneRecordPerName
<1>7. RecordsDiffer'
    BY <1>1, <1>3, <1>4, <1>5 DEF IInv, RecordsDiffer
<1>8. TypeOK'
    <2>1. retired' \in SUBSET Gens
        <3>1. \A i \in Find(n) : periodicTasks[i].gen \in Gens
            BY TableType, RecordTypes DEF IInv, Find
        <3> QED
            BY <1>1, <3>1 DEF IInv, TypeOK
    <2>2. gen' \in 0..MaxGen
        BY <1>1, BoundsAssumption DEF IInv, TypeOK
    <2> QED
        BY <1>1, <1>4, <2>1, <2>2 DEF IInv, TypeOK
<1>9. UnusedAreFresh'
    <2>1. retired' \subseteq 1..gen'
        <3>1. retired \subseteq 1..gen /\ 1..gen \subseteq 1..(gen + 1)
            BY <1>1 DEF IInv, UnusedAreFresh
        <3>2. \A i \in Find(n) : periodicTasks[i].gen \in 1..gen
            BY <1>5 DEF Find
        <3> QED
            BY <1>1, <3>1, <3>2
    <2>2. \A k \in DOMAIN dueTasks : dueTasks[k].gen <= gen + 1
        BY <1>1, TableType DEF IInv, UnusedAreFresh, Gens
    <2>3. \A g \in Gens : g > gen + 1 => g > gen
        BY <1>1 DEF Gens
    <2> QED
        BY <1>1, <2>1, <2>2, <2>3 DEF IInv, UnusedAreFresh
<1>10. CopiesDiffer' /\ CopiesInHand'
    BY <1>1 DEF IInv, CopiesDiffer, CopiesInHand
<1>11. \A k \in DOMAIN dueTasks : dueTasks[k].gen # gen + 1
    BY <1>1, TableType DEF IInv, UnusedAreFresh, Gens
<1>12. CopiesHaveTheName'
    BY <1>1, <1>3, <1>4, <1>11 DEF IInv, CopiesHaveTheName
<1>13. LateOnlyOnce'
    BY <1>1 DEF IInv, LateOnlyOnce
<1>14. Counts'
    <2>1. ASSUME NEW i \in DOMAIN periodicTasks', i # m PROVE CountOf(periodicTasks[i])'
        <3>1. PICK r \in TaskRecords : r = periodicTasks[i]
            BY <2>1, <1>4, <1>5
        <3>2. periodicTasks'[i] = r /\ CountOf(r)
            BY <3>1, <2>1, <1>4 DEF IInv, Counts
        <3>3. InMark(r.gen)' <=> InMark(r.gen)
            BY <1>1 DEF InMark
        <3> QED
            BY <1>1, <3>2, <3>3 DEF CountOf
    <2>2. CountOf(new)'
        <3>1. runs[gen + 1] = 0
            BY <1>1 DEF IInv, UnusedAreFresh
        <3>2. ~InMark(new.gen)'
            BY <1>1, <1>3, <1>11, TableType DEF InMark, IInv, CopiesInHand, TypeOK
        <3> QED
            BY <1>1, <1>3, <3>1, <3>2 DEF CountOf
    <2> QED
        BY <2>1, <2>2, <1>4 DEF Counts
<1>15. AllOnTime'
    <2>1. ASSUME NEW i \in DOMAIN periodicTasks' PROVE OnTime(periodicTasks'[i])
        BY <1>3, <1>4 DEF IInv, AllOnTime
    <2> QED
        BY <2>1 DEF AllOnTime
<1> QED
    BY <1>6, <1>7, <1>8, <1>9, <1>10, <1>12, <1>13, <1>14, <1>15 DEF IInv

LEMMA UnregisterInv == ASSUME NEW n \in Names PROVE IInv /\ Unregister(n) => IInv'
<1> SUFFICES ASSUME IInv, Unregister(n) PROVE IInv'
    OBVIOUS
<1> DEFINE Others == DOMAIN periodicTasks \ Find(n)
<1>1. /\ retired' = retired \union {periodicTasks[i].gen : i \in Find(n)}
      /\ UNCHANGED <<gen, dueTasks, tpc, outcome, failures, runs, lateRuns>>
    BY DEF Unregister, loopVars
<1>2. PICK kept \in InOrder(Others) :
        periodicTasks' = [a \in DOMAIN kept |-> periodicTasks[kept[a]]]
    BY DEF Unregister
<1>3. /\ Len(periodicTasks) \in Nat /\ Others \in SUBSET (1..Len(periodicTasks))
      /\ Others \in SUBSET (DOMAIN periodicTasks)
    BY TableType DEF IInv
<1> HIDE DEF Others
<1>4. /\ Cardinality(Others) \in Nat /\ kept \in [1..Cardinality(Others) -> Others]
      /\ \A a, b \in DOMAIN kept : kept[a] = kept[b] => a = b
      /\ \A i \in Others : \E a \in DOMAIN kept : kept[a] = i
    BY <1>2, <1>3, InOrderLists
<1>5. /\ DOMAIN periodicTasks' = DOMAIN kept
      /\ \A a \in DOMAIN kept : /\ kept[a] \in DOMAIN periodicTasks
                                /\ periodicTasks'[a] = periodicTasks[kept[a]]
                                /\ periodicTasks'[a] \in TaskRecords
    BY <1>2, <1>3, <1>4, TableType DEF IInv
<1>6. periodicTasks' \in Seq(TaskRecords)
    BY <1>2, <1>4, <1>5, ListType
<1>7. \A i \in DOMAIN periodicTasks :
        /\ periodicTasks[i].gen \in Gens
        /\ periodicTasks[i].gen \in 1..gen /\ periodicTasks[i].gen \notin retired
    BY TableType, RecordTypes DEF IInv, OneRecordPerName
<1>8. Find(n) \subseteq DOMAIN periodicTasks
    BY DEF Find
<1>9. TypeOK'
    BY <1>1, <1>6, <1>7, <1>8 DEF IInv, TypeOK
<1>10. OneRecordPerName'
    <2>1. \A a, b \in DOMAIN periodicTasks' :
            periodicTasks'[a].name = periodicTasks'[b].name => a = b
        BY <1>4, <1>5 DEF IInv, OneRecordPerName
    <2>2. {periodicTasks'[a].gen : a \in DOMAIN periodicTasks'}
            = {periodicTasks[i].gen : i \in Others}
        BY <1>4, <1>5
    <2>3. \A i \in Others : \A j \in Find(n) : periodicTasks[i].gen # periodicTasks[j].gen
        BY <1>8 DEF IInv, RecordsDiffer, Others
    <2>4. (1..gen) \ retired = {periodicTasks[i].gen : i \in DOMAIN periodicTasks}
        BY DEF IInv, OneRecordPerName
    <2>5. {periodicTasks[i].gen : i \in Others}
            = ((1..gen) \ retired) \ {periodicTasks[i].gen : i \in Find(n)}
        BY <1>8, <2>3, <2>4 DEF Others
    <2> QED
        BY <1>1, <2>1, <2>2, <2>5 DEF OneRecordPerName
<1>11. RecordsDiffer'
    BY <1>4, <1>5 DEF IInv, RecordsDiffer
<1>12. UnusedAreFresh'
    BY <1>1, <1>7, <1>8 DEF IInv, UnusedAreFresh
<1>13. CopiesDiffer' /\ CopiesInHand'
    BY <1>1 DEF IInv, CopiesDiffer, CopiesInHand
<1>14. CopiesHaveTheName'
    BY <1>1, <1>5 DEF IInv, CopiesHaveTheName
<1>15. LateOnlyOnce'
    BY <1>1 DEF IInv, LateOnlyOnce
<1>16. Counts'
    <2> SUFFICES ASSUME NEW a \in DOMAIN periodicTasks' PROVE CountOf(periodicTasks[a])'
        BY DEF Counts
    <2>1. PICK r \in TaskRecords : r = periodicTasks'[a]
        BY <1>5
    <2>2. CountOf(r)
        BY <2>1, <1>5 DEF IInv, Counts
    <2>3. InMark(r.gen)' <=> InMark(r.gen)
        BY <1>1 DEF InMark
    <2> QED
        BY <1>1, <2>1, <2>2, <2>3 DEF CountOf
<1>17. AllOnTime'
    BY <1>5 DEF IInv, AllOnTime
<1> QED
    BY <1>9, <1>10, <1>11, <1>12, <1>13, <1>14, <1>15, <1>16, <1>17 DEF IInv

-----------------------------------------------------------------------------
LEMMA StepInv == IInv /\ [Next]_vars => IInv'
<1> SUFFICES ASSUME IInv, [Next]_vars PROVE IInv'
    OBVIOUS
<1>1. CASE UNCHANGED vars
    <2>1. UNCHANGED <<tableVars, dueTasks, outcome, runs, lateRuns, tpc, failures>>
        BY <1>1 DEF vars, loopVars
    <2>2. SameTable /\ periodicTasks' \in Seq(TaskRecords)
        BY <2>1, TableType DEF tableVars, SameTable, IInv, TypeOK
    <2>3. AllOnTime'
        BY <2>1 DEF tableVars, IInv, AllOnTime
    <2> QED
        BY <2>1, <2>2, <2>3, QuietStep DEF tableVars, IInv, TypeOK
<1>2. CASE Loop \/ Start \/ Stop
    BY <1>2, ScanInv, ScanThrowsInv, RunHandlerInv, MarkInv, MarkThrowsInv, RestInv
       DEF Loop
<1>3. CASE Elapse
    BY <1>3, ElapseInv
<1>4. CASE \E n \in Names : Register(n) \/ Unregister(n)
    BY <1>4, RegisterInv, UnregisterInv
<1> QED
    BY <1>1, <1>2, <1>3, <1>4 DEF Next

\* The strengthening holds in every reachable state: the copies are of
\* different names and each may still run once (runPeriodicTasks).
THEOREM TableInvariant == Spec => []IInv
    BY InitInv, StepInv, PTL DEF Spec

\* The table, the copies and the counts keep their types.
THEOREM TypeCorrect == Spec => []TypeOK
<1>1. IInv => TypeOK
    BY DEF IInv
<1> QED
    BY <1>1, TableInvariant, PTL

\* A name has one record, whoever registers and unregisters at whatever time
\* (registerPeriodicTask, unregisterPeriodicTask).
THEOREM OneRecordPerNameHolds == Spec => []OneRecordPerName
<1>1. IInv => OneRecordPerName
    BY DEF IInv
<1> QED
    BY <1>1, TableInvariant, PTL

\* A handler that was unregistered or replaced runs at most once more.
THEOREM RetiredRunsAtMostOnceHolds == Spec => []RetiredRunsAtMostOnce
<1>1. IInv => RetiredRunsAtMostOnce
    BY DEF IInv, LateOnlyOnce, RetiredRunsAtMostOnce
<1> QED
    BY <1>1, TableInvariant, PTL

\* A run count is that of its own handler but for one run (markPeriodicTaskRun).
THEOREM RunCountIsOwnHolds == Spec => []RunCountIsOwn
<1>1. IInv => RunCountIsOwn
    <2> SUFFICES ASSUME IInv, NEW i \in DOMAIN periodicTasks
                 PROVE  LET r == periodicTasks[i] IN
                        /\ r.runCount <= runs[r.gen] + 1
                        /\ r.runCount < runs[r.gen] => tpc = "mark" /\ Head(dueTasks).gen = r.gen
        BY DEF RunCountIsOwn
    <2>1. PICK r \in TaskRecords : r = periodicTasks[i]
        BY TableType DEF IInv
    <2>2. CountOf(r) /\ r.runCount \in 0..MaxCount /\ runs[r.gen] \in 0..MaxCount
        BY <2>1, RecordTypes DEF IInv, Counts, TypeOK
    <2>3. r.runCount < runs[r.gen] => InMark(r.gen)
        BY <2>2, BoundsAssumption DEF CountOf
    <2>4. tpc = "mark" => Head(dueTasks) = dueTasks[1]
        BY TableType DEF IInv, CopiesInHand, TypeOK
    <2> QED
        BY <2>1, <2>2, <2>3, <2>4 DEF CountOf, InMark
<1> QED
    BY <1>1, TableInvariant, PTL

\* A registration is not due again before its interval is over, whatever failed
\* or was stopped in between (runPeriodicTasks).
THEOREM RunsAreSpacedHolds == Spec => []RunsAreSpaced
<1>1. IInv => RunsAreSpaced
    <2> SUFFICES ASSUME IInv, NEW i \in DOMAIN periodicTasks, IsDue(periodicTasks[i])
                 PROVE  periodicTasks[i].since >= Interval[periodicTasks[i].name]
        BY DEF RunsAreSpaced
    <2>1. PICK r \in TaskRecords : r = periodicTasks[i]
        BY TableType DEF IInv
    <2>2. OnTime(r) /\ IsDue(r)
        BY <2>1 DEF IInv, AllOnTime
    <2>3. r.left \in Int /\ r.since \in Nat /\ Interval[r.name] \in Nat
        BY RecordTypes, IntervalAssumption
    <2> QED
        BY <2>1, <2>2, <2>3 DEF OnTime, IsDue
<1> QED
    BY <1>1, TableInvariant, PTL
=============================================================================
