------------------------- MODULE ServiceHostProofs --------------------------
(***************************************************************************)
(* Proofs about ServiceHost, for any set of services and any number of      *)
(* calls.  What is missing in the two properties to make them inductive is  *)
(* what the worker knows between two steps: the record of the service in    *)
(* hand says so or is a new one, and the service itself is as the outcome   *)
(* of the call says.                                                        *)
(***************************************************************************)
EXTENDS ServiceHost, TLAPS

\* A record that nobody may see is a fresh one.
UnlistedAreFresh == \A s \in Services : ~Has(s) => record[s] = Fresh

ListedOnce == \A i, j \in DOMAIN services : services[i] = services[j] => i = j

\* While the worker is in a service, its record is this call's or a new one.
RecordInHand ==
    walk \in {"call", "end"} =>
        record[Current].state \in {"registered", IF op = "start" THEN "starting" ELSE "stopping"}

\* The outcome the worker is about to record is the truth.
OutcomeInHand ==
    walk = "end" => IF thrown THEN Current \in threw ELSE up[Current] = (op = "start")

AllTruthful == \A s \in Services : Truthful(s)

IInv ==
    /\ TypeOK
    /\ UnlistedAreFresh
    /\ ListedOnce
    /\ RecordInHand
    /\ OutcomeInHand
    /\ AllTruthful
    /\ EachInItsTurn

-----------------------------------------------------------------------------
(* Types *)

LEMMA FreshIsASnapshot ==
    /\ Fresh \in Snapshots
    /\ Fresh.state = "registered" /\ Fresh.startCount = 0 /\ Fresh.stopCount = 0
    BY DEF Fresh, Snapshots, States

LEMMA InitType == Init => TypeOK
<1> SUFFICES ASSUME Init PROVE TypeOK
    OBVIOUS
<1>2. record \in [Services -> Snapshots]
    BY FreshIsASnapshot DEF Init
<1>3. services \in Seq(Services) /\ copy \in Seq(Services)
    BY DEF Init
<1>4. up \in [Services -> BOOLEAN] /\ calls \in 0..MaxCalls
    BY BoundAssumption DEF Init
<1>5. lastError \in {<<>>} \union (Services \X {"start", "stop"})
    BY DEF Init
<1> QED
    BY <1>2, <1>3, <1>4, <1>5 DEF Init, TypeOK

LEMMA InitInv == Init => IInv
<1> SUFFICES ASSUME Init PROVE IInv
    OBVIOUS
<1>1. TypeOK
    BY InitType
<1>2. UnlistedAreFresh /\ ListedOnce /\ RecordInHand /\ OutcomeInHand
    BY DEF Init, UnlistedAreFresh, ListedOnce, RecordInHand, OutcomeInHand
<1>3. AllTruthful
    <2>1. \A s \in Services : record[s] = Fresh
        BY DEF Init
    <2>2. snapshot.startCount = 0 /\ snapshot.stopCount = 0
        BY DEF snapshot, Init
    <2>3. ASSUME NEW s \in Services PROVE Truthful(s)
        <3>1. /\ record[s].state = "registered"
              /\ record[s].startCount <= snapshot.startCount
              /\ record[s].stopCount <= snapshot.stopCount
            BY <2>1, <2>2, FreshIsASnapshot
        <3> QED
            BY <3>1 DEF Truthful
    <2> QED
        BY <2>3 DEF AllTruthful
<1>4. EachInItsTurn
    BY DEF Init, EachInItsTurn, Passed
<1> QED
    BY <1>1, <1>2, <1>3, <1>4 DEF IInv

-----------------------------------------------------------------------------
(* The list *)

\* What a list that is registered once looks like without one of its members.
LEMMA WithoutOne ==
    ASSUME TypeOK, ListedOnce, NEW s \in Services, Has(s), services' = Without(s)
    PROVE  /\ services' \in Seq(Services)
           /\ ListedOnce'
           /\ \A t \in Services : Has(t)' <=> (Has(t) /\ t # s)
<1> DEFINE p == CHOOSE i \in DOMAIN services : services[i] = s
           n == Len(services)
<1>1. p \in DOMAIN services /\ services[p] = s
    BY DEF Has
<1>2. services \in [1..n -> Services] /\ DOMAIN services = 1..n /\ n \in Nat
    BY DEF TypeOK
<1>3. services' = [i \in 1..(n - 1) |-> services[IF i < p THEN i ELSE i + 1]]
    BY DEF Without
<1>4. \A i, j \in 1..n : services[i] = services[j] => i = j
    BY <1>2 DEF ListedOnce
<1> HIDE DEF p
<1>5. n \in Nat \ {0} /\ p \in 1..n
    BY <1>1, <1>2
<1> HIDE DEF n
<1>6. \A i \in 1..(n - 1) : (IF i < p THEN i ELSE i + 1) \in 1..n
    BY <1>5
<1>7. services' \in [1..(n - 1) -> Services]
    BY <1>2, <1>3, <1>6
<1>8. services' \in Seq(Services)
    BY <1>5, <1>7
<1>9. DOMAIN services' = 1..(n - 1)
    BY <1>3
<1>10. ListedOnce'
    <2> SUFFICES ASSUME NEW i \in 1..(n - 1), NEW j \in 1..(n - 1),
                        services'[i] = services'[j]
                 PROVE  i = j
        BY <1>9 DEF ListedOnce
    <2>1. (IF i < p THEN i ELSE i + 1) = (IF j < p THEN j ELSE j + 1)
        BY <1>3, <1>4, <1>6
    <2> QED
        BY <2>1, <1>5
<1>11. ASSUME NEW t \in Services, Has(t)' PROVE Has(t) /\ t # s
    <2>1. PICK i \in 1..(n - 1) : services'[i] = t
        BY <1>9, <1>11 DEF Has
    <2> DEFINE k == IF i < p THEN i ELSE i + 1
    <2>2. services[k] = t /\ k \in 1..n /\ k # p
        BY <2>1, <1>3, <1>5, <1>6
    <2> QED
        BY <2>2, <1>1, <1>2, <1>4, <1>5 DEF Has
<1>12. ASSUME NEW t \in Services, Has(t), t # s PROVE Has(t)'
    <2>1. PICK k \in 1..n : services[k] = t
        BY <1>2, <1>12 DEF Has
    <2>2. k # p
        BY <2>1, <1>1, <1>12
    <2> DEFINE i == IF k < p THEN k ELSE k - 1
    <2>3. i \in 1..(n - 1) /\ (IF i < p THEN i ELSE i + 1) = k
        BY <2>2, <1>5
    <2>4. services'[i] = t
        BY <2>1, <2>3, <1>3
    <2> QED
        BY <2>3, <2>4, <1>9 DEF Has
<1> QED
    BY <1>8, <1>10, <1>11, <1>12

LEMMA AppendOne ==
    ASSUME TypeOK, ListedOnce, NEW s \in Services, ~Has(s), services' = Append(services, s)
    PROVE  /\ services' \in Seq(Services)
           /\ ListedOnce'
           /\ \A t \in Services : Has(t)' <=> (Has(t) \/ t = s)
<1>1. services \in Seq(Services) /\ Len(services) \in Nat /\ DOMAIN services = 1..Len(services)
    BY DEF TypeOK
<1>2. /\ services' \in Seq(Services)
      /\ DOMAIN services' = 1..(Len(services) + 1)
      /\ \A i \in 1..Len(services) : services'[i] = services[i]
      /\ services'[Len(services) + 1] = s
    BY <1>1
<1>3. \A i \in 1..Len(services) : services[i] # s
    BY <1>1 DEF Has
<1>4. ListedOnce'
    BY <1>1, <1>2, <1>3 DEF ListedOnce
<1>5. \A t \in Services : Has(t)' <=> (Has(t) \/ t = s)
    BY <1>1, <1>2 DEF Has
<1> QED
    BY <1>2, <1>4, <1>5
-----------------------------------------------------------------------------
(* Calls of any thread.  They change the list and the records alone. *)

\* What such a call must see to.
ListChange ==
    /\ services' \in Seq(Services)
    /\ ListedOnce'
    /\ \A s \in Services : record'[s] = record[s] \/ record'[s] = Fresh
    /\ \A s \in Services : ~Has(s)' => record'[s] = Fresh
    /\ record' \in [Services -> Snapshots]
    /\ UNCHANGED <<tallyVars, callVars, walk, at, thrown, up, threw>>

LEMMA ListChangeKeeps == IInv /\ ListChange => IInv'
<1> SUFFICES ASSUME IInv, ListChange PROVE IInv'
    OBVIOUS
<1> USE DEF tallyVars, callVars
<1>1. TypeOK'
    BY DEF IInv, TypeOK, ListChange
<1>2. UnlistedAreFresh' /\ ListedOnce'
    BY DEF ListChange, UnlistedAreFresh
<1>3. Current' = Current /\ (walk # "idle" => Current \in Services)
    BY DEF IInv, TypeOK, ListChange, Current
<1>4. RecordInHand'
    <2> SUFFICES ASSUME walk \in {"call", "end"}
                 PROVE  record'[Current].state = record[Current].state
                        \/ record'[Current].state = "registered"
        BY <1>3 DEF IInv, RecordInHand, ListChange
    <2> QED
        BY <1>3, FreshIsASnapshot DEF ListChange
<1>5. OutcomeInHand'
    BY <1>3 DEF IInv, OutcomeInHand, ListChange
<1>6. AllTruthful'
    <2> SUFFICES ASSUME NEW s \in Services PROVE Truthful(s)'
        BY DEF AllTruthful
    <2>1. /\ snapshot'.startCount = snapshot.startCount
          /\ snapshot'.stopCount = snapshot.stopCount
          /\ snapshot'.lastError = snapshot.lastError
          /\ snapshot.startCount \in Nat /\ snapshot.stopCount \in Nat
        BY DEF IInv, TypeOK, ListChange, snapshot
    <2>2. InHand(s)' = InHand(s)
        BY <1>3 DEF InHand, ListChange
    <2>3. Truthful(s)
        BY DEF IInv, AllTruthful
    <2>4. CASE record'[s] = record[s]
        BY <2>1, <2>2, <2>3, <2>4 DEF Truthful, ListChange
    <2>5. CASE record'[s] = Fresh
        BY <2>1, <2>5, FreshIsASnapshot DEF Truthful
    <2> QED
        BY <2>4, <2>5 DEF ListChange
<1>7. EachInItsTurn'
    BY DEF IInv, EachInItsTurn, Passed, ListChange
<1> QED
    BY <1>1, <1>2, <1>4, <1>5, <1>6, <1>7 DEF IInv

LEMMA AddKeeps ==
    ASSUME NEW s \in Services PROVE IInv /\ Add(s) => IInv'
<1> SUFFICES ASSUME IInv, Add(s) PROVE IInv'
    OBVIOUS
<1>1. /\ services' \in Seq(Services)
      /\ ListedOnce'
      /\ \A t \in Services : Has(t)' <=> (Has(t) \/ t = s)
    BY AppendOne DEF IInv, Add
<1>2. ListChange
    BY <1>1 DEF IInv, TypeOK, UnlistedAreFresh, Add, ListChange
<1> QED
    BY <1>2, ListChangeKeeps

LEMMA RemoveKeeps ==
    ASSUME NEW s \in Services PROVE IInv /\ Remove(s) => IInv'
<1> SUFFICES ASSUME IInv, Remove(s) PROVE IInv'
    OBVIOUS
<1>1. /\ services' \in Seq(Services)
      /\ ListedOnce'
      /\ \A t \in Services : Has(t)' <=> (Has(t) /\ t # s)
    BY WithoutOne DEF IInv, Remove
<1>2. ListChange
    BY <1>1, FreshIsASnapshot DEF IInv, TypeOK, UnlistedAreFresh, Remove, ListChange
<1> QED
    BY <1>2, ListChangeKeeps

LEMMA ClearKeeps == IInv /\ Clear => IInv'
<1> SUFFICES ASSUME IInv, Clear PROVE IInv'
    OBVIOUS
<1>1. services' \in Seq(Services) /\ ListedOnce'
    BY DEF Clear, ListedOnce
<1>2. ListChange
    BY <1>1, FreshIsASnapshot DEF Clear, ListChange
<1> QED
    BY <1>2, ListChangeKeeps

-----------------------------------------------------------------------------
(* The worker *)

LEMMA EnterKeeps ==
    ASSUME NEW o \in {"start", "stop"} PROVE IInv /\ Enter(o) => IInv'
<1> SUFFICES ASSUME IInv, Enter(o) PROVE IInv'
    OBVIOUS
<1> USE DEF listVars, tallyVars
<1>1. /\ services \in Seq(Services) /\ Len(services) \in Nat
      /\ DOMAIN services = 1..Len(services)
      /\ walk' # "idle" => Len(services) # 0
    BY DEF IInv, TypeOK, Enter
<1>2. TypeOK'
    <2>1. at' \in Nat /\ (walk' # "idle" => at' \in DOMAIN copy')
        BY <1>1 DEF Enter
    <2>2. calls' \in 0..MaxCalls
        BY BoundAssumption DEF IInv, TypeOK, Enter
    <2> QED
        BY <2>1, <2>2 DEF IInv, TypeOK, Enter
<1>3. UnlistedAreFresh' /\ ListedOnce'
    BY DEF IInv, UnlistedAreFresh, ListedOnce, Enter, Has
<1>4. RecordInHand' /\ OutcomeInHand'
    BY DEF RecordInHand, OutcomeInHand, Enter
<1>5. AllTruthful'
    <2> SUFFICES ASSUME NEW s \in Services PROVE Truthful(s)'
        BY DEF AllTruthful
    <2>1. /\ snapshot'.startCount = snapshot.startCount
          /\ snapshot'.stopCount = snapshot.stopCount
          /\ snapshot'.lastError = snapshot.lastError
        BY DEF Enter, snapshot
    <2>2. Truthful(s) /\ ~InHand(s)
        BY DEF IInv, AllTruthful, Enter, InHand
    <2> QED
        BY <2>1, <2>2 DEF Truthful, Enter
<1>6. EachInItsTurn'
    BY <1>1 DEF EachInItsTurn, Passed, Enter
<1> QED
    BY <1>2, <1>3, <1>4, <1>5, <1>6 DEF IInv

LEMMA BeginKeeps == IInv /\ Begin => IInv'
<1> SUFFICES ASSUME IInv, Begin PROVE IInv'
    OBVIOUS
<1> USE DEF tallyVars, callVars
<1>1. Current \in Services /\ Current' = Current
    BY DEF IInv, TypeOK, Begin, Current
<1> DEFINE now == IF op = "start" THEN "starting" ELSE "stopping"
<1>2. record \in [Services -> Snapshots]
    BY DEF IInv, TypeOK
<1>3. \A s \in Services :
        /\ s # Current => record'[s] = record[s]
        /\ ~Has(Current) => record'[s] = record[s]
    BY <1>1, <1>2 DEF Begin
<1>4. Has(Current) => /\ record'[Current].state = now
                      /\ record'[Current].startCount = record[Current].startCount
                      /\ record'[Current].stopCount = record[Current].stopCount
                      /\ record'[Current] \in Snapshots
    BY <1>1, <1>2 DEF Begin, Snapshots, States
<1>5. record' \in [Services -> Snapshots]
    BY <1>1, <1>2, <1>4 DEF Begin, Snapshots, States
<1>6. TypeOK'
    BY <1>5 DEF IInv, TypeOK, Begin
<1>7. UnlistedAreFresh' /\ ListedOnce'
    BY <1>1, <1>3 DEF IInv, UnlistedAreFresh, ListedOnce, Begin, Has
<1>8. RecordInHand'
    BY <1>1, <1>3, <1>4, FreshIsASnapshot DEF IInv, UnlistedAreFresh, RecordInHand, Begin
<1>9. OutcomeInHand'
    BY DEF OutcomeInHand, Begin
<1>10. AllTruthful'
    <2> SUFFICES ASSUME NEW s \in Services PROVE Truthful(s)'
        BY DEF AllTruthful
    <2>1. /\ snapshot'.startCount = snapshot.startCount
          /\ snapshot'.stopCount = snapshot.stopCount
          /\ snapshot'.lastError = snapshot.lastError
        BY DEF Begin, snapshot
    <2>2. Truthful(s) /\ ~InHand(s)
        BY DEF IInv, AllTruthful, Begin, InHand
    <2>3. CASE record'[s] = record[s]
        BY <2>1, <2>2, <2>3 DEF Truthful, Begin
    <2>4. CASE Has(Current) /\ s = Current
        <3>1. InHand(s)' /\ op' = op /\ op \in {"start", "stop"}
            BY <1>1, <2>4 DEF IInv, TypeOK, Begin, InHand
        <3> QED
            BY <1>4, <2>1, <2>2, <2>4, <3>1 DEF Truthful
    <2> QED
        BY <1>3, <2>3, <2>4
<1>11. EachInItsTurn'
    BY DEF IInv, EachInItsTurn, Passed, Begin
<1> QED
    BY <1>6, <1>7, <1>8, <1>9, <1>10, <1>11 DEF IInv

LEMMA CallServiceKeeps == IInv /\ CallService => IInv'
<1> SUFFICES ASSUME IInv, CallService PROVE IInv'
    OBVIOUS
<1> USE DEF listVars, tallyVars, callVars
<1>1. Current \in Services /\ Current' = Current
    BY DEF IInv, TypeOK, CallService, Current
<1>2. /\ up' \in [Services -> BOOLEAN]
      /\ \A s \in Services : s # Current => up'[s] = up[s]
      /\ threw \subseteq threw' /\ threw' \subseteq Services
      /\ IF thrown' THEN Current \in threw' ELSE up'[Current] = (op = "start")
    BY <1>1 DEF IInv, TypeOK, CallService
<1>3. TypeOK'
    BY <1>2 DEF IInv, TypeOK, CallService
<1>4. UnlistedAreFresh' /\ ListedOnce'
    BY DEF IInv, UnlistedAreFresh, ListedOnce, CallService, Has
<1>5. RecordInHand' /\ OutcomeInHand'
    BY <1>1, <1>2 DEF IInv, RecordInHand, OutcomeInHand, CallService
<1>6. AllTruthful'
    <2> SUFFICES ASSUME NEW s \in Services PROVE Truthful(s)'
        BY DEF AllTruthful
    <2>1. /\ snapshot'.startCount = snapshot.startCount
          /\ snapshot'.stopCount = snapshot.stopCount
          /\ snapshot'.lastError = snapshot.lastError
        BY DEF CallService, snapshot
    <2>2. Truthful(s) /\ InHand(s)' = InHand(s)
        BY <1>1 DEF IInv, AllTruthful, CallService, InHand
    <2>3. CASE s # Current
        BY <1>2, <2>1, <2>2, <2>3 DEF Truthful, CallService
    <2>4. CASE s = Current
        BY <2>1, <2>2, <2>4 DEF IInv, RecordInHand, Truthful, CallService
    <2> QED
        BY <2>3, <2>4
<1>7. EachInItsTurn'
    <2> SUFFICES ASSUME NEW i \in Passed'
                 PROVE  copy[i] \in threw' \/ (up'[copy[i]] <=> op = "start")
        BY DEF EachInItsTurn, CallService
    <2>1. i \in Passed /\ copy[i] \in Services
        BY DEF Passed, CallService, IInv, TypeOK
    <2>2. copy[i] \in threw \/ (up[copy[i]] <=> op = "start")
        BY <2>1 DEF IInv, EachInItsTurn
    <2>3. CASE copy[i] # Current
        BY <1>2, <2>1, <2>2, <2>3
    <2>4. CASE copy[i] = Current
        BY <1>2, <2>4
    <2> QED
        BY <2>3, <2>4
<1> QED
    BY <1>3, <1>4, <1>5, <1>6, <1>7 DEF IInv

\* After Advance the service at the old position is done with.
LEMMA AdvancePasses ==
    ASSUME IInv, walk = "end", Advance,
           UNCHANGED <<callVars, up, threw>>,
           Current \in threw \/ up[Current] = (op = "start")
    PROVE  /\ at' \in Nat /\ walk' \in {"begin", "idle"}
           /\ walk' # "idle" => at' \in DOMAIN copy'
           /\ EachInItsTurn'
<1>1. /\ at \in DOMAIN copy /\ at \in Nat /\ DOMAIN copy = 1..Len(copy) /\ Len(copy) \in Nat
      /\ op \in {"start", "stop"} /\ at # 0
    BY DEF IInv, TypeOK
<1>2. /\ at' = (IF op = "start" THEN at + 1 ELSE at - 1)
      /\ walk' = (IF at' \in DOMAIN copy THEN "begin" ELSE "idle")
      /\ copy' = copy /\ op' = op /\ up' = up /\ threw' = threw
    BY DEF Advance, callVars
<1>3. \A i \in DOMAIN copy : i \in Passed' => i \in Passed \/ i = at
    BY <1>1, <1>2 DEF Passed
<1>4. \A i \in Passed' : i \in DOMAIN copy
    BY <1>2 DEF Passed
<1>5. \A i \in Passed : copy[i] \in threw \/ (up[copy[i]] <=> op = "start")
    BY DEF IInv, EachInItsTurn
<1>6. ASSUME NEW i \in Passed'
      PROVE  copy[i] \in threw \/ (up[copy[i]] <=> op = "start")
    BY <1>3, <1>4, <1>5 DEF Current
<1>7. EachInItsTurn'
    BY <1>2, <1>6 DEF EachInItsTurn
<1>8. at' \in Nat
    BY <1>1, <1>2
<1> QED
    BY <1>2, <1>7, <1>8

LEMMA InHandTypes ==
    IInv /\ EndWell => /\ Current \in Services /\ record \in [Services -> Snapshots]
                       /\ startCount \in Nat /\ stopCount \in Nat
<1>1. EndWell => walk = "end"
    BY DEF EndWell
<1> QED
    BY <1>1 DEF IInv, TypeOK, Current

\* A record's count stays within the host's, whether it is counted or not.
LEMMA CountsGrow ==
    /\ \A a, b, c \in Nat : a <= b /\ b <= c => a <= c
    /\ \A a, b \in Nat : a <= b => a + 1 <= b + 1 /\ a + 1 > 0 /\ b <= b + 1
    /\ \A a \in Nat : a + 1 \in Nat
    OBVIOUS

\* EndWell, with the record it writes and what that says.
LEMMA EndWellRecords ==
    ASSUME IInv, EndWell, NEW new \in Snapshots,
           record' = (IF Has(Current) THEN [record EXCEPT ![Current] = new] ELSE record),
           startCount' \in Nat, startCount <= startCount', new.startCount <= startCount',
           stopCount' \in Nat, stopCount <= stopCount', new.stopCount <= stopCount',
           new.lastError = "",
           \/ new.state = "running" /\ op = "start" /\ new.startCount > 0
           \/ new.state = "stopped" /\ op = "stop" /\ new.stopCount > 0
    PROVE  IInv'
<1>1. /\ Current \in Services /\ record \in [Services -> Snapshots]
      /\ startCount \in Nat /\ stopCount \in Nat
    BY InHandTypes
<1>2. up[Current] = (op = "start")
    BY DEF IInv, EndWell, OutcomeInHand
<1>3. /\ at' \in Nat /\ walk' \in {"begin", "idle"}
      /\ walk' # "idle" => at' \in DOMAIN copy'
      /\ EachInItsTurn'
    BY <1>2, AdvancePasses DEF EndWell
<1>4. /\ record' \in [Services -> Snapshots]
      /\ \A s \in Services : s # Current => record'[s] = record[s]
      /\ ~Has(Current) => record' = record
      /\ Has(Current) => record'[Current] = new
    BY <1>1
<1>5. TypeOK'
    BY <1>3, <1>4 DEF IInv, TypeOK, EndWell, callVars
<1>6. UnlistedAreFresh' /\ ListedOnce'
    BY <1>1, <1>4 DEF IInv, UnlistedAreFresh, ListedOnce, EndWell, Has
<1>7. RecordInHand' /\ OutcomeInHand'
    BY <1>3 DEF RecordInHand, OutcomeInHand
<1>8. AllTruthful'
    <2> SUFFICES ASSUME NEW s \in Services PROVE Truthful(s)'
        BY DEF AllTruthful
    <2>1. /\ snapshot.startCount = startCount /\ snapshot'.startCount = startCount'
          /\ snapshot.stopCount = stopCount /\ snapshot'.stopCount = stopCount'
          /\ snapshot'.lastError = snapshot.lastError
          /\ up' = up /\ op' = op
        BY DEF snapshot, EndWell, callVars
    <2>2. Truthful(s) /\ record[s].startCount \in Nat /\ record[s].stopCount \in Nat
        BY <1>1 DEF IInv, AllTruthful, Snapshots
    <2>3. record[s].startCount <= startCount /\ record[s].stopCount <= stopCount
        BY <2>1, <2>2 DEF Truthful
    <2>4. record[s].startCount <= startCount' /\ record[s].stopCount <= stopCount'
        BY <1>1, <2>2, <2>3, CountsGrow
    <2>5. CASE s # Current
        <3>1. ~InHand(s)
            BY <2>5 DEF InHand
        <3> QED
            BY <1>4, <2>1, <2>2, <2>4, <2>5, <3>1 DEF Truthful
    <2>6. CASE ~Has(s)
        <3>1. record'[s] = record[s] /\ record[s].state = "registered"
            BY <1>4, <2>6, FreshIsASnapshot DEF IInv, UnlistedAreFresh
        <3> QED
            BY <2>1, <2>4, <3>1 DEF Truthful
    <2>7. CASE s = Current /\ Has(Current)
        BY <1>2, <1>4, <2>1, <2>7 DEF Truthful
    <2> QED
        BY <2>5, <2>6, <2>7
<1> QED
    BY <1>3, <1>5, <1>6, <1>7, <1>8 DEF IInv

LEMMA EndWellKeeps == IInv /\ EndWell => IInv'
<1> SUFFICES ASSUME IInv, EndWell PROVE IInv'
    OBVIOUS
<1> DEFINE old == record[Current]
<1>1. /\ Current \in Services /\ old \in Snapshots
      /\ startCount \in Nat /\ stopCount \in Nat
    BY InHandTypes
<1>2. /\ old.startCount \in Nat /\ old.startCount <= startCount
      /\ old.stopCount \in Nat /\ old.stopCount <= stopCount
    BY <1>1 DEF IInv, AllTruthful, Truthful, snapshot, Snapshots
<1>3. CASE op = "start"
    <2> DEFINE new == [state |-> "running", startCount |-> old.startCount + 1,
                       stopCount |-> old.stopCount, lastError |-> ""]
    <2>1. /\ startCount' = startCount + 1 /\ stopCount' = stopCount
          /\ record' = (IF Has(Current) THEN [record EXCEPT ![Current] = new] ELSE record)
        BY <1>3 DEF EndWell
    <2>2. /\ new \in Snapshots /\ new.state = "running" /\ new.lastError = ""
          /\ new.startCount = old.startCount + 1 /\ new.stopCount = old.stopCount
        BY <1>2 DEF Snapshots, States
    <2> HIDE DEF new, old
    <2>3. new.startCount <= startCount' /\ new.startCount > 0 /\ new.stopCount <= stopCount'
        BY <1>1, <1>2, <2>1, <2>2, CountsGrow
    <2>4. /\ startCount' \in Nat /\ startCount <= startCount'
          /\ stopCount' \in Nat /\ stopCount <= stopCount'
        BY <1>1, <2>1, CountsGrow
    <2> QED
        BY <1>3, <2>1, <2>2, <2>3, <2>4, EndWellRecords
<1>4. CASE op = "stop"
    <2> DEFINE new == [state |-> "stopped", startCount |-> old.startCount,
                       stopCount |-> old.stopCount + 1, lastError |-> ""]
    <2>1. /\ startCount' = startCount /\ stopCount' = stopCount + 1
          /\ record' = (IF Has(Current) THEN [record EXCEPT ![Current] = new] ELSE record)
        BY <1>4 DEF EndWell
    <2>2. /\ new \in Snapshots /\ new.state = "stopped" /\ new.lastError = ""
          /\ new.startCount = old.startCount /\ new.stopCount = old.stopCount + 1
        BY <1>2 DEF Snapshots, States
    <2> HIDE DEF new, old
    <2>3. new.startCount <= startCount' /\ new.stopCount <= stopCount' /\ new.stopCount > 0
        BY <1>1, <1>2, <2>1, <2>2, CountsGrow
    <2>4. /\ startCount' \in Nat /\ startCount <= startCount'
          /\ stopCount' \in Nat /\ stopCount <= stopCount'
        BY <1>1, <2>1, CountsGrow
    <2> QED
        BY <1>4, <2>1, <2>2, <2>3, <2>4, EndWellRecords
<1> QED
    BY <1>3, <1>4 DEF IInv, TypeOK

LEMMA EndFailedKeeps == IInv /\ EndFailed => IInv'
<1> SUFFICES ASSUME IInv, EndFailed PROVE IInv'
    OBVIOUS
<1>1. /\ Current \in Services /\ record \in [Services -> Snapshots]
      /\ op \in {"start", "stop"} /\ Current \in threw
    BY DEF IInv, TypeOK, EndFailed, Current, OutcomeInHand
<1>2. /\ at' \in Nat /\ walk' \in {"begin", "idle"}
      /\ walk' # "idle" => at' \in DOMAIN copy'
      /\ EachInItsTurn'
    BY <1>1, AdvancePasses DEF EndFailed
<1> DEFINE new == [record[Current] EXCEPT !.state = "failed", !.lastError = op]
<1>3. /\ new \in Snapshots
      /\ new.state = "failed" /\ new.lastError = op
      /\ new.startCount = record[Current].startCount
      /\ new.stopCount = record[Current].stopCount
    BY <1>1 DEF Snapshots, States
<1>4. record' = IF Has(Current) THEN [record EXCEPT ![Current] = new] ELSE record
    BY <1>1 DEF EndFailed
<1> HIDE DEF new
<1>5. /\ record' \in [Services -> Snapshots]
      /\ \A s \in Services : s # Current => record'[s] = record[s]
      /\ ~Has(Current) => record' = record
      /\ Has(Current) => record'[Current] = new
    BY <1>1, <1>3, <1>4
<1>6. lastError' = <<Current, op>> /\ lastError' \in Services \X {"start", "stop"}
    BY <1>1 DEF EndFailed
<1>7. TypeOK'
    BY <1>2, <1>5, <1>6 DEF IInv, TypeOK, EndFailed, callVars
<1>8. UnlistedAreFresh' /\ ListedOnce'
    BY <1>1, <1>5 DEF IInv, UnlistedAreFresh, ListedOnce, EndFailed, Has
<1>9. RecordInHand' /\ OutcomeInHand'
    BY <1>2 DEF RecordInHand, OutcomeInHand
<1>10. AllTruthful'
    <2> SUFFICES ASSUME NEW s \in Services PROVE Truthful(s)'
        BY DEF AllTruthful
    <2>1. /\ snapshot'.startCount = snapshot.startCount
          /\ snapshot'.stopCount = snapshot.stopCount
          /\ snapshot'.lastError # <<>>
        BY <1>6 DEF snapshot, EndFailed
    <2>2. Truthful(s) /\ up' = up /\ op' = op
        BY DEF IInv, AllTruthful, EndFailed, callVars
    <2>3. CASE s # Current
        <3>1. ~InHand(s)
            BY <2>3 DEF InHand
        <3> QED
            BY <1>5, <2>1, <2>2, <2>3, <3>1 DEF Truthful
    <2>4. CASE ~Has(s)
        <3>1. record'[s] = record[s] /\ record[s].state = "registered"
            BY <1>5, <2>4, FreshIsASnapshot DEF IInv, UnlistedAreFresh
        <3> QED
            BY <2>1, <2>2, <3>1 DEF Truthful
    <2>5. CASE s = Current /\ Has(Current)
        BY <1>1, <1>3, <1>5, <2>1, <2>2, <2>5 DEF Truthful
    <2> QED
        BY <2>3, <2>4, <2>5
<1> QED
    BY <1>2, <1>7, <1>8, <1>9, <1>10 DEF IInv

LEMMA StutterKeeps == IInv /\ UNCHANGED vars => IInv'
<1> SUFFICES ASSUME IInv, UNCHANGED vars PROVE IInv'
    OBVIOUS
<1>1. TypeOK' /\ UnlistedAreFresh' /\ ListedOnce'
    BY DEF vars, IInv, TypeOK, UnlistedAreFresh, ListedOnce, Has
<1>2. RecordInHand' /\ OutcomeInHand'
    BY DEF vars, IInv, RecordInHand, OutcomeInHand, Current
<1>3. AllTruthful' /\ EachInItsTurn'
    BY DEF vars, IInv, AllTruthful, Truthful, snapshot, InHand, Current, EachInItsTurn, Passed
<1> QED
    BY <1>1, <1>2, <1>3 DEF IInv

-----------------------------------------------------------------------------
(* The theorems *)

\* In every state the list, its records, the services and the worker of
\* startAll() and stopAll() are in step (ServiceHost).
THEOREM HostInvariant == Spec => []IInv
<1>1. Init => IInv
    BY InitInv
<1>2. IInv /\ [Next]_vars => IInv'
    <2> SUFFICES ASSUME IInv, [Next]_vars PROVE IInv'
        OBVIOUS
    <2>1. ASSUME NEW s \in Services, Add(s) PROVE IInv'
        BY <2>1, AddKeeps
    <2>2. ASSUME NEW s \in Services, Remove(s) PROVE IInv'
        BY <2>2, RemoveKeeps
    <2>3. CASE Clear
        BY <2>3, ClearKeeps
    <2>4. ASSUME NEW o \in {"start", "stop"}, Enter(o) PROVE IInv'
        BY <2>4, EnterKeeps
    <2>5. CASE Begin
        BY <2>5, BeginKeeps
    <2>6. CASE CallService
        BY <2>6, CallServiceKeeps
    <2>7. CASE EndWell
        BY <2>7, EndWellKeeps
    <2>8. CASE EndFailed
        BY <2>8, EndFailedKeeps
    <2>9. CASE UNCHANGED vars
        BY <2>9, StutterKeeps
    <2> QED
        BY <2>1, <2>2, <2>3, <2>4, <2>5, <2>6, <2>7, <2>8, <2>9 DEF Next, Worker
<1> QED
    BY <1>1, <1>2, PTL DEF Spec

\* The types hold for any set of services.
THEOREM TypeCorrect == Spec => []TypeOK
<1>1. IInv => TypeOK
    BY DEF IInv
<1> QED
    BY <1>1, HostInvariant, PTL

\* No record ever says of its service what is not so, for any number of
\* services that are added and removed between the steps of startAll() and
\* stopAll().
THEOREM RecordsTellTheTruthHolds == Spec => []RecordsTellTheTruth
<1>1. IInv => RecordsTellTheTruth
    BY DEF IInv, ListedOnce, AllTruthful, RecordsTellTheTruth
<1> QED
    BY <1>1, HostInvariant, PTL

\* Every service of the list gets its turn in order, whichever of them throw.
THEOREM EachInItsTurnHolds == Spec => []EachInItsTurn
<1>1. IInv => EachInItsTurn
    BY DEF IInv
<1> QED
    BY <1>1, HostInvariant, PTL
=============================================================================
