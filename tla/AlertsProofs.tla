---------------------------- MODULE AlertsProofs ----------------------------
(****************************************************************************)
(* Proofs about Alerts, for any records, evaluators and limits.  An alert   *)
(* carries the numbers of the commits between which its evaluation ran; the *)
(* invariant says how these relate to the alerts that are there and to what *)
(* the open evaluations are about to write.                                 *)
(****************************************************************************)
EXTENDS Alerts, TLAPS, SequenceTheorems, FiniteSetTheorems

(* Evaluations and alerts begin before they are committed.                  *)
BegunBefore ==
    /\ \A p \in Evaluators : started[p] <= commits
    /\ \A a \in alerts : a.started < a.committed /\ a.committed <= commits

(* What an open evaluation found missing was committed, if at all, after it *)
(* began.                                                                   *)
PendingIsNew ==
    \A p \in Evaluators : \A d \in pending[p], a \in alerts :
        a.entry = d[1] /\ a.rule = d[2] => a.committed > started[p]

IInv == TypeOK /\ BegunBefore /\ PendingIsNew /\ DuplicatesOverlap

-----------------------------------------------------------------------------
LEMMA RowType ==
    ASSUME TypeOK, NEW e \in Present
    PROVE  e \in Entries /\ row[e] \in Row
<1>1. e \in Entries /\ version[e] \in 1 .. Len(Versions[e]) /\ Versions[e] \in Seq(Row)
    BY RecordsAssumption, LenProperties DEF Present, TypeOK
<1>2. Versions[e][version[e]] \in Row
    BY <1>1, ElementOfSeq
<1> QED BY <1>1, <1>2 DEF row

(* The rules that fire for a record are rules.                              *)
LEMMA FiresType ==
    ASSUME NEW read, NEW e, read[e] \in Row
    PROVE  Fires(read, e) \subseteq Rule
<1>1. /\ read[e].component \in Values \cup {None}
      /\ read[e].vendor \in Values \cup {None}
      /\ read[e].cve \in Values \cup {None}
    BY DEF Row
<1>2. /\ <<"critical", None>> \in Rule /\ <<"exploited", None>> \in Rule
      /\ <<"component", read[e].component>> \in Rule
      /\ <<"cve", read[e].cve>> \in Rule
      /\ <<"vendor burst", read[e].vendor>> \in Rule
      /\ <<"component burst", read[e].component>> \in Rule
    BY <1>1 DEF Rule, Kinds
<1> QED BY <1>2 DEF Fires

LEMMA CloseType ==
    ASSUME TypeOK, NEW p \in Evaluators, Close(p)
    PROVE  /\ pc' \in [Evaluators -> {"idle", "loading", "checking"}]
           /\ DOMAIN loaded' = Evaluators
           /\ \A q \in Evaluators : \A e \in DOMAIN loaded'[q] : e \in Present /\ loaded'[q][e] \in Row
           /\ due' \in [Evaluators -> SUBSET Due]
           /\ pending' \in [Evaluators -> SUBSET Due]
           /\ started' \in [Evaluators -> Nat]
           /\ stale' \in [Evaluators -> SUBSET Entries]
           /\ limit' \in [Evaluators -> Nat]
           /\ \A q \in Evaluators : pc'[q] = "idle" => due'[q] = {} /\ pending'[q] = {}
           /\ pending'[p] = {} /\ started'[p] = 0
           /\ \A q \in Evaluators \ {p} : pending'[q] = pending[q] /\ started'[q] = started[q]
<1>1. \A q \in Evaluators : loaded'[q] = IF q = p THEN Nothing ELSE loaded[q]
    BY DEF Close, TypeOK
<1>2. DOMAIN Nothing = {}
    BY DEF Nothing
<1> QED BY <1>1, <1>2 DEF Close, TypeOK

(* A review changes nothing of an alert but its status.                     *)
LEMMA ReviewFacts ==
    ASSUME TypeOK, NEW a \in alerts, NEW status \in Statuses, Review(a, status)
    PROVE  /\ alerts' \subseteq Alert
           /\ \A b \in alerts' : \E c \in alerts :
                /\ b.entry = c.entry /\ b.rule = c.rule
                /\ b.started = c.started /\ b.committed = c.committed
<1> DEFINE new == [a EXCEPT !.status = status]
<1>1. a \in Alert
    BY DEF TypeOK
<1>2. /\ new \in Alert /\ new.entry = a.entry /\ new.rule = a.rule
      /\ new.started = a.started /\ new.committed = a.committed
    BY <1>1 DEF Alert
<1>3. alerts' = (alerts \ {a}) \cup {new}
    BY DEF Review
<1> HIDE DEF new
<1> QED BY <1>2, <1>3 DEF TypeOK

(* The alerts that a commit adds.                                           *)
LEMMA CommitFacts ==
    ASSUME TypeOK, NEW p \in Evaluators, Commit(p)
    PROVE  /\ alerts' \subseteq Alert
           /\ \A a \in alerts' \ alerts : \E d \in pending[p] :
                /\ a.entry = d[1] /\ a.rule = d[2]
                /\ a.started = started[p] /\ a.committed = commits + 1
                /\ a.status = "open"
           /\ alerts \subseteq alerts'
           /\ \A d \in pending[p] : Exists(d)'
           /\ commits' = commits + 1 /\ commits' \in Nat
<1> DEFINE new(d) == [entry |-> d[1], rule |-> d[2], status |-> "open",
                      started |-> started[p], committed |-> commits + 1]
<1>1. alerts' = alerts \cup {new(d) : d \in pending[p]} /\ commits' = commits + 1
    BY DEF Commit
<1>2. ASSUME NEW d \in pending[p]
      PROVE  /\ new(d) \in Alert
             /\ new(d).entry = d[1] /\ new(d).rule = d[2]
             /\ new(d).started = started[p] /\ new(d).committed = commits + 1
             /\ new(d).status = "open"
    <2>1. d \in Due /\ started[p] \in Nat /\ commits + 1 \in Nat
        BY DEF TypeOK
    <2>2. d[1] \in Entries /\ d[2] \in Rule
        BY <2>1 DEF Due
    <2> QED BY <2>1, <2>2 DEF Alert, Statuses
<1>3. commits + 1 \in Nat
    BY DEF TypeOK
<1>4. alerts \subseteq Alert
    BY DEF TypeOK
<1> HIDE DEF new
<1>5. \A d \in pending[p] : Exists(d)'
    BY <1>1, <1>2 DEF Exists
<1> QED BY <1>1, <1>2, <1>3, <1>4, <1>5

LEMMA InitType == Init => TypeOK
    BY RecordsAssumption DEF Init, TypeOK, Nothing, Present

(* Type correctness: one step per action.                                   *)
LEMMA StepType ==
    ASSUME TypeOK, [Next]_vars
    PROVE  TypeOK'
<1> USE DEF evaluation, history
<1>1. ASSUME NEW e \in Entries, Change(e) PROVE TypeOK'
    <2>1. /\ version' \in [Entries -> Nat]
          /\ \A f \in Entries : version'[f] <= Len(Versions[f])
        <3>1. Versions[e] \in Seq(Row) /\ Len(Versions[e]) \in Nat
            BY RecordsAssumption, LenProperties
        <3> QED BY <1>1, <3>1 DEF Change, TypeOK
    <2>2. Present \subseteq Present'
        BY <1>1 DEF Change, Present, TypeOK
    <2>3. UNCHANGED <<alerts, audit, pc, limit, loaded, due, pending, started, commits>>
        BY <1>1 DEF Change
    <2>4. /\ stale' \in [Evaluators -> SUBSET Entries]
          /\ evaluated' \subseteq Present' /\ covered' \subseteq Present'
        BY <1>1, <2>2 DEF Change, TypeOK
    <2> QED BY <2>1, <2>2, <2>3, <2>4 DEF TypeOK
<1>2. ASSUME NEW a \in alerts, NEW status \in Statuses, Review(a, status) PROVE TypeOK'
    <2>1. alerts' \subseteq Alert
        BY <1>2, ReviewFacts
    <2>2. audit' \in Seq(Event)
        <3>1. Id(a) \in Entries \X Rule \X Nat
            BY DEF Id, TypeOK, Alert
        <3>2. [alert |-> Id(a), action |-> IF status = "closed" THEN "closure" ELSE "status change"]
                \in Event
            BY <3>1 DEF Event
        <3>3. audit \in Seq(Event)
            BY DEF TypeOK
        <3> QED BY <1>2, <3>2, <3>3, AppendProperties DEF Review
    <2>3. UNCHANGED <<version, evaluation, commits, history>>
        BY <1>2 DEF Review
    <2>4. Present' = Present
        BY <2>3 DEF Present
    <2> QED BY <2>1, <2>2, <2>3, <2>4 DEF TypeOK
<1>3. ASSUME NEW p \in Evaluators, LoadEntries(p) PROVE TypeOK'
    <2>1. PICK n \in Limits : \E entries \in {Newest(n)} \cup {{e} : e \in Present} :
            /\ limit' = [limit EXCEPT ![p] = n]
            /\ loaded' = [loaded EXCEPT ![p] = [e \in entries |-> row[e]]]
        BY <1>3 DEF LoadEntries
    <2>2. PICK entries \in {Newest(n)} \cup {{e} : e \in Present} :
            loaded' = [loaded EXCEPT ![p] = [e \in entries |-> row[e]]]
        BY <2>1
    <2>7. entries \subseteq Present
        BY DEF Newest
    <2>8. limit' \in [Evaluators -> Nat]
        BY <2>1, LimitsAssumption DEF TypeOK
    <2>3. /\ DOMAIN loaded' = Evaluators
          /\ \A q \in Evaluators : \A e \in DOMAIN loaded'[q] :
                e \in Present /\ loaded'[q][e] \in Row
        BY <2>2, <2>7, RowType DEF TypeOK
    <2>4. /\ pc' = [pc EXCEPT ![p] = "loading"]
          /\ started' = [started EXCEPT ![p] = commits]
          /\ stale' = [stale EXCEPT ![p] = {}]
          /\ UNCHANGED <<version, alerts, audit, due, pending, commits, evaluated, covered>>
        BY <1>3 DEF LoadEntries
    <2>5. /\ pc' \in [Evaluators -> {"idle", "loading", "checking"}]
          /\ started' \in [Evaluators -> Nat] /\ stale' \in [Evaluators -> SUBSET Entries]
          /\ \A q \in Evaluators : pc'[q] = "idle" => pc[q] = "idle"
        BY <2>4 DEF TypeOK
    <2>6. Present' = Present
        BY <2>4 DEF Present
    <2> QED BY <2>3, <2>4, <2>5, <2>6, <2>8 DEF TypeOK
<1>4. ASSUME NEW p \in Evaluators, LoadContext(p) PROVE TypeOK'
    <2> DEFINE entries == DOMAIN loaded[p]
               read == [e \in Context(p) |-> IF e \in entries THEN loaded[p][e] ELSE row[e]]
               new == UNION {{e} \X Fires(read, e) : e \in entries}
    <2>1. due' = [due EXCEPT ![p] = new]
        BY <1>4 DEF LoadContext
    <2>2. new \subseteq Due
        <3>1. ASSUME NEW e \in entries PROVE e \in Entries /\ Fires(read, e) \subseteq Rule
            <4>1. e \in Entries /\ read[e] \in Row
                BY DEF TypeOK, Present, Context
            <4> HIDE DEF read
            <4> QED BY <4>1, FiresType
        <3> HIDE DEF read, entries
        <3> QED BY <3>1 DEF Due
    <2> HIDE DEF new
    <2>3. /\ pc' = [pc EXCEPT ![p] = "checking"]
          /\ UNCHANGED <<version, alerts, audit, limit, loaded, pending, started, commits, history>>
        BY <1>4 DEF LoadContext
    <2>4. /\ due' \in [Evaluators -> SUBSET Due]
          /\ pc' \in [Evaluators -> {"idle", "loading", "checking"}]
          /\ \A q \in Evaluators : pc'[q] = "idle" => due'[q] = {} /\ pending'[q] = {}
        BY <2>1, <2>2, <2>3 DEF TypeOK
    <2>5. Present' = Present
        BY <2>3 DEF Present
    <2> QED BY <2>3, <2>4, <2>5 DEF TypeOK
<1>5. ASSUME NEW p \in Evaluators, Check(p) PROVE TypeOK'
    <2>1. PICK d \in due[p] :
             /\ due' = [due EXCEPT ![p] = @ \ {d}]
             /\ pending' = [pending EXCEPT ![p] = IF Exists(d) THEN @ ELSE @ \cup {d}]
        BY <1>5 DEF Check
    <2>2. /\ pc[p] = "checking"
          /\ UNCHANGED <<version, alerts, audit, pc, limit, loaded, started, commits, history>>
        BY <1>5 DEF Check
    <2>3. /\ due' \in [Evaluators -> SUBSET Due] /\ pending' \in [Evaluators -> SUBSET Due]
          /\ \A q \in Evaluators : pc'[q] = "idle" => due'[q] = {} /\ pending'[q] = {}
        BY <2>1, <2>2 DEF TypeOK
    <2>4. Present' = Present
        BY <2>2 DEF Present
    <2> QED BY <2>2, <2>3, <2>4 DEF TypeOK
<1>6. ASSUME NEW p \in Evaluators, Commit(p) PROVE TypeOK'
    <2>1. Close(p) /\ UNCHANGED <<version, audit>>
        BY <1>6 DEF Commit
    <2>2. alerts' \subseteq Alert /\ commits' \in Nat
        BY <1>6, CommitFacts
    <2>3. Present' = Present
        BY <2>1 DEF Present
    <2>4. evaluated' \subseteq Present' /\ covered' \subseteq Present'
        <3>1. DOMAIN loaded[p] \subseteq Present
            BY DEF TypeOK
        <3> QED BY <1>6, <2>3, <3>1 DEF Commit, TypeOK
    <2> QED BY <2>1, <2>2, <2>3, <2>4, CloseType DEF TypeOK
<1>7. ASSUME NEW p \in Evaluators, Abort(p) PROVE TypeOK'
    <2>1. Close(p) /\ UNCHANGED <<version, alerts, audit, commits, evaluated, covered>>
        BY <1>7 DEF Abort
    <2>2. Present' = Present
        BY <2>1 DEF Present
    <2> QED BY <2>1, <2>2, CloseType DEF TypeOK
<1>8. CASE UNCHANGED vars
    BY <1>8 DEF vars, TypeOK, Present
<1> QED BY <1>1, <1>2, <1>3, <1>4, <1>5, <1>6, <1>7, <1>8 DEF Next

-----------------------------------------------------------------------------
LEMMA InitIInv == Init => IInv
    BY InitType DEF Init, IInv, BegunBefore, PendingIsNew, DuplicatesOverlap

(* What is known of a set of alerts that differ from the old ones in their  *)
(* status at most.                                                          *)
LEMMA SameAlerts ==
    ASSUME IInv,
           \A b \in alerts' : \E c \in alerts :
               /\ b.entry = c.entry /\ b.rule = c.rule
               /\ b.started = c.started /\ b.committed = c.committed
    PROVE  /\ DuplicatesOverlap'
           /\ \A a \in alerts' : a.started < a.committed /\ a.committed <= commits
           /\ \A p \in Evaluators : \A d \in pending[p], a \in alerts' :
                  a.entry = d[1] /\ a.rule = d[2] => a.committed > started[p]
<1>1. DuplicatesOverlap'
    BY DEF IInv, DuplicatesOverlap
<1>2. \A a \in alerts' : a.started < a.committed /\ a.committed <= commits
    BY DEF IInv, BegunBefore
<1>3. \A p \in Evaluators : \A d \in pending[p], a \in alerts' :
                  a.entry = d[1] /\ a.rule = d[2] => a.committed > started[p]
    BY DEF IInv, PendingIsNew
<1> QED BY <1>1, <1>2, <1>3

LEMMA CommitKeeps ==
    ASSUME IInv, NEW p \in Evaluators, Commit(p)
    PROVE  BegunBefore' /\ PendingIsNew' /\ DuplicatesOverlap'
<1> TypeOK
    BY DEF IInv
<1>1. /\ commits \in Nat /\ started \in [Evaluators -> Nat]
      /\ \A a \in alerts : a.started \in Nat /\ a.committed \in Nat
    BY DEF TypeOK, Alert
<1>2. /\ alerts' \subseteq Alert
      /\ \A a \in alerts' \ alerts : \E d \in pending[p] :
            /\ a.entry = d[1] /\ a.rule = d[2]
            /\ a.started = started[p] /\ a.committed = commits + 1
      /\ commits' = commits + 1
    BY CommitFacts
<1>3. /\ pending'[p] = {} /\ started'[p] = 0
      /\ \A q \in Evaluators \ {p} : pending'[q] = pending[q] /\ started'[q] = started[q]
    BY CloseType DEF Commit
<1>4. /\ \A q \in Evaluators : started[q] <= commits
      /\ \A a \in alerts : a.started < a.committed /\ a.committed <= commits
    BY DEF IInv, BegunBefore
<1>5. \A a \in alerts' : a.started < a.committed /\ a.committed <= commits + 1
    BY <1>1, <1>2, <1>4
<1>6. BegunBefore'
    <2>1. \A q \in Evaluators : started'[q] <= commits + 1
        BY <1>1, <1>3, <1>4
    <2> QED BY <1>2, <1>5, <2>1 DEF BegunBefore
<1>7. PendingIsNew'
    <2> SUFFICES ASSUME NEW q \in Evaluators, NEW d \in pending'[q], NEW a \in alerts',
                        a.entry = d[1], a.rule = d[2]
                 PROVE  a.committed > started'[q]
        BY DEF PendingIsNew
    <2>1. q # p /\ d \in pending[q] /\ started'[q] = started[q]
        BY <1>3
    <2>2. CASE a \in alerts
        BY <2>1, <2>2 DEF IInv, PendingIsNew
    <2>3. CASE a \notin alerts
        BY <1>1, <1>2, <1>4, <2>1, <2>3
    <2> QED BY <2>2, <2>3
<1>8. DuplicatesOverlap'
    <2> SUFFICES ASSUME NEW a \in alerts', NEW b \in alerts',
                        a.entry = b.entry, a.rule = b.rule
                 PROVE  a.committed > b.started
        BY DEF DuplicatesOverlap
    <2>1. CASE a \in alerts /\ b \in alerts
        BY <2>1 DEF IInv, DuplicatesOverlap
    <2>2. CASE a \in alerts /\ b \notin alerts
        BY <1>2, <2>2 DEF IInv, PendingIsNew
    <2>3. CASE a \notin alerts
        <3>1. a.committed = commits + 1
            BY <1>2, <2>3
        <3>2. b.started \in Nat /\ b.started <= commits
            BY <1>1, <1>2, <1>4
        <3> QED BY <1>1, <3>1, <3>2
    <2> QED BY <2>1, <2>2, <2>3
<1> QED BY <1>6, <1>7, <1>8

LEMMA StepIInv == IInv /\ [Next]_vars => IInv'
<1> SUFFICES ASSUME IInv, [Next]_vars PROVE IInv'
    OBVIOUS
<1> USE DEF evaluation, history
<1>1. TypeOK /\ TypeOK'
    BY StepType DEF IInv
<1> DEFINE Rest == BegunBefore /\ PendingIsNew /\ DuplicatesOverlap
<1>2. ASSUME UNCHANGED <<alerts, pending, started, commits>> PROVE Rest'
    BY <1>2 DEF IInv, BegunBefore, PendingIsNew, DuplicatesOverlap
<1>3. ASSUME NEW a \in alerts, NEW status \in Statuses, Review(a, status) PROVE Rest'
    <2>1. UNCHANGED <<pending, started, commits>>
        BY <1>3 DEF Review
    <2>2. /\ DuplicatesOverlap'
          /\ \A b \in alerts' : b.started < b.committed /\ b.committed <= commits
          /\ \A p \in Evaluators : \A d \in pending[p], b \in alerts' :
                b.entry = d[1] /\ b.rule = d[2] => b.committed > started[p]
        BY <1>1, <1>3, ReviewFacts, SameAlerts
    <2>3. BegunBefore'
        BY <2>1, <2>2 DEF IInv, BegunBefore
    <2>4. PendingIsNew'
        BY <2>1, <2>2 DEF PendingIsNew
    <2> QED BY <2>2, <2>3, <2>4
<1>4. ASSUME NEW p \in Evaluators, LoadEntries(p) PROVE Rest'
    <2>1. /\ UNCHANGED <<alerts, pending, commits>> /\ pc[p] = "idle"
          /\ started' = [started EXCEPT ![p] = commits]
        BY <1>4 DEF LoadEntries
    <2>2. pending[p] = {} /\ commits \in Nat /\ started \in [Evaluators -> Nat]
        BY <1>1, <2>1 DEF TypeOK
    <2>3. BegunBefore'
        BY <2>1, <2>2 DEF IInv, BegunBefore
    <2>4. PendingIsNew'
        BY <2>1, <2>2 DEF IInv, PendingIsNew
    <2>5. DuplicatesOverlap'
        BY <2>1 DEF IInv, DuplicatesOverlap
    <2> QED BY <2>3, <2>4, <2>5
<1>5. ASSUME NEW p \in Evaluators, Check(p) PROVE Rest'
    <2>1. PICK d \in due[p] :
             pending' = [pending EXCEPT ![p] = IF Exists(d) THEN @ ELSE @ \cup {d}]
        BY <1>5 DEF Check
    <2>2. UNCHANGED <<alerts, started, commits>>
        BY <1>5 DEF Check
    <2>3. pending \in [Evaluators -> SUBSET Due]
        BY <1>1 DEF TypeOK
    <2>4. PendingIsNew'
        <3> SUFFICES ASSUME NEW q \in Evaluators, NEW c \in pending'[q], NEW a \in alerts,
                            a.entry = c[1], a.rule = c[2]
                     PROVE  a.committed > started[q]
            BY <2>2 DEF PendingIsNew
        <3>1. c \in pending[q]
            BY <2>1, <2>3 DEF Exists
        <3> QED BY <3>1 DEF IInv, PendingIsNew
    <2>5. BegunBefore' /\ DuplicatesOverlap'
        BY <2>2 DEF IInv, BegunBefore, DuplicatesOverlap
    <2> QED BY <2>4, <2>5
<1>6. ASSUME NEW p \in Evaluators, Commit(p) PROVE Rest'
    BY <1>6, CommitKeeps
<1>7. ASSUME NEW p \in Evaluators, Abort(p) PROVE Rest'
    <2>1. /\ pending'[p] = {} /\ started'[p] = 0
          /\ \A q \in Evaluators \ {p} : pending'[q] = pending[q] /\ started'[q] = started[q]
          /\ UNCHANGED <<alerts, commits>>
        BY <1>1, <1>7, CloseType DEF Abort
    <2>2. commits \in Nat
        BY <1>1 DEF TypeOK
    <2>3. BegunBefore'
        BY <2>1, <2>2 DEF IInv, BegunBefore
    <2>4. PendingIsNew'
        BY <2>1 DEF IInv, PendingIsNew
    <2>5. DuplicatesOverlap'
        BY <2>1 DEF IInv, DuplicatesOverlap
    <2> QED BY <2>3, <2>4, <2>5
<1>8. Rest'
    <2> HIDE DEF Rest
    <2> QED BY <1>2, <1>3, <1>4, <1>5, <1>6, <1>7 DEF Next, vars, Change, LoadContext
<1> QED BY <1>1, <1>8 DEF IInv

THEOREM Invariance == Spec => []IInv
    BY InitIInv, StepIInv, PTL DEF Spec

(* The state of the alert evaluation is well-formed, for any records,       *)
(* evaluators, limits and bounds.                                           *)
THEOREM TypeCorrectness == Spec => []TypeOK
<1>1. IInv => TypeOK
    BY DEF IInv
<1> QED BY <1>1, Invariance, PTL

(* Two alerts of one record and rule only ever come from evaluations that   *)
(* overlapped, however many there are and however they fail, and whatever   *)
(* reviewers do with the alerts in between (_existing_alert).               *)
THEOREM DuplicatesTheorem == Spec => []DuplicatesOverlap
<1>1. IInv => DuplicatesOverlap
    BY DEF IInv
<1> QED BY <1>1, Invariance, PTL

-----------------------------------------------------------------------------
(* What is due.  The rules that fire for a record are still to be checked,  *)
(* about to be written, or met by an alert: those that speak of the record  *)
(* alone for as long as it has not changed since the evaluation began, the  *)
(* others if nothing has changed and all records are compared.  When it     *)
(* commits, only the last is left.                                          *)
Own(r) ==
    {rule \in {<<"critical", None>>} : r.level = "critical" \/ r.severe}
      \cup {rule \in {<<"exploited", None>>} : KnownExploited(r)}
      \cup {rule \in {<<"component", r.component>>} :
                HighRisk(r) /\ r.component \in VehicleCritical}

LoadedIsCurrent(p) == \A e \in DOMAIN loaded[p] \ stale[p] : loaded[p][e] = row[e]

Kept(p, d) == d \in due[p] \cup pending[p] \/ Exists(d)

DueIsKept(p) ==
    pc[p] = "checking" =>
        /\ \A e \in DOMAIN loaded[p] \ stale[p] : \A rule \in Own(row[e]) : Kept(p, <<e, rule>>)
        /\ stale[p] = {} /\ Context(p) = Present =>
              \A e \in DOMAIN loaded[p] : \A rule \in Fires(row, e) : Kept(p, <<e, rule>>)

EvaluatedIsDone == \A e \in evaluated : \A rule \in Own(row[e]) : Exists(<<e, rule>>)

CoveredIsDone == \A e \in covered : \A rule \in Fires(row, e) : Exists(<<e, rule>>)

DueInv ==
    /\ \A p \in Evaluators : LoadedIsCurrent(p) /\ DueIsKept(p)
    /\ EvaluatedIsDone /\ CoveredIsDone

LEMMA OwnFires ==
    ASSUME NEW read, NEW e
    PROVE  Own(read[e]) \subseteq Fires(read, e)
BY DEF Own, Fires

LEMMA SameRows ==
    ASSUME UNCHANGED version
    PROVE  /\ Present' = Present /\ row' = row
           /\ \A p : UNCHANGED <<loaded[p], limit[p]>> => Context(p)' = Context(p)
<1>1. Present' = Present /\ row' = row
    BY DEF Present, row
<1>2. \A n : Newest(n)' = Newest(n)
    BY <1>1 DEF Newest, Before
<1> QED BY <1>1, <1>2 DEF Context

(* A change leaves the other records as they are. *)
LEMMA OtherRows ==
    ASSUME TypeOK, NEW e \in Entries, Change(e), NEW f \in Present, f # e
    PROVE  row'[f] = row[f]
<1>1. f \in Entries /\ version'[f] = version[f]
    BY DEF Change, TypeOK, Present
<1>2. f \in Present'
    BY <1>1 DEF Present
<1> QED BY <1>1, <1>2 DEF row

(* No step takes an alert away for good.                                    *)
LEMMA ExistsStays ==
    ASSUME TypeOK, [Next]_vars, NEW d, Exists(d)
    PROVE  Exists(d)'
<1>1. CASE UNCHANGED alerts
    BY <1>1 DEF Exists
<1>2. ASSUME NEW a \in alerts, NEW status \in Statuses, Review(a, status) PROVE Exists(d)'
    <2> DEFINE new == [a EXCEPT !.status = status]
    <2>1. alerts' = (alerts \ {a}) \cup {new}
        BY <1>2 DEF Review
    <2>2. new.entry = a.entry /\ new.rule = a.rule
        BY DEF TypeOK, Alert
    <2> HIDE DEF new
    <2> QED BY <2>1, <2>2 DEF Exists
<1>3. ASSUME NEW p \in Evaluators, Commit(p) PROVE Exists(d)'
    BY <1>3, CommitFacts DEF Exists
<1> QED BY <1>1, <1>2, <1>3
        DEF Next, vars, evaluation, history, Change, LoadEntries, LoadContext, Check, Abort

(* Without a change of the records, what is known of an evaluation or of    *)
(* the evaluated records stays for as long as these are left alone.         *)
LEMMA QuietKeeps ==
    ASSUME TypeOK, DueInv, [Next]_vars, UNCHANGED version
    PROVE  /\ UNCHANGED <<evaluated, covered>> => EvaluatedIsDone' /\ CoveredIsDone'
           /\ \A p \in Evaluators :
                UNCHANGED <<pc[p], limit[p], loaded[p], due[p], pending[p], stale[p]>>
                => LoadedIsCurrent(p)' /\ DueIsKept(p)'
<1>1. \A d : Exists(d) => Exists(d)'
    BY ExistsStays
<1>2. UNCHANGED <<evaluated, covered>> => EvaluatedIsDone' /\ CoveredIsDone'
    BY <1>1, SameRows DEF DueInv, EvaluatedIsDone, CoveredIsDone
<1>3. ASSUME NEW p \in Evaluators,
             UNCHANGED <<pc[p], limit[p], loaded[p], due[p], pending[p], stale[p]>>
      PROVE  LoadedIsCurrent(p)' /\ DueIsKept(p)'
    <2>1. LoadedIsCurrent(p)'
        BY <1>3, SameRows DEF DueInv, LoadedIsCurrent
    <2>2. \A d : Kept(p, d) => Kept(p, d)'
        BY <1>1, <1>3 DEF Kept
    <2>3. LoadedIsCurrent(p) /\ DueIsKept(p)
        BY DEF DueInv
    <2>4. Present' = Present /\ row' = row /\ Context(p)' = Context(p)
        BY <1>3, SameRows
    <2>5. DueIsKept(p)'
        BY <1>3, <2>2, <2>3, <2>4 DEF DueIsKept
    <2> QED BY <2>1, <2>5
<1> QED BY <1>2, <1>3

(* A change spares what is known of the other records.                      *)
LEMMA ChangeKeeps ==
    ASSUME TypeOK, DueInv, NEW e \in Entries, Change(e)
    PROVE  DueInv'
<1>1. /\ UNCHANGED <<alerts, pc, limit, loaded, due, pending>>
      /\ \A p \in Evaluators : stale'[p] = stale[p] \cup {e}
      /\ evaluated' = evaluated \ {e} /\ covered' = {}
    BY DEF Change, evaluation
<1>2. \A f \in Present : f # e => row'[f] = row[f]
    BY OtherRows
<1>3. ASSUME NEW p \in Evaluators PROVE LoadedIsCurrent(p)' /\ DueIsKept(p)'
    <2>1. DOMAIN loaded[p] \subseteq Present
        BY DEF TypeOK
    <2>2. \A f \in DOMAIN loaded[p] \ stale'[p] :
             f \in DOMAIN loaded[p] \ stale[p] /\ row'[f] = row[f]
        BY <1>1, <1>2, <2>1
    <2>3. LoadedIsCurrent(p) /\ DueIsKept(p)
        BY DEF DueInv
    <2>4. LoadedIsCurrent(p)'
        BY <1>1, <2>2, <2>3 DEF LoadedIsCurrent
    <2>5. stale'[p] # {}
        BY <1>1
    <2>6. \A d : Kept(p, d) => Kept(p, d)'
        BY <1>1 DEF Kept, Exists
    <2>7. DueIsKept(p)'
        BY <1>1, <2>2, <2>3, <2>5, <2>6 DEF DueIsKept
    <2> QED BY <2>4, <2>7
<1>4. EvaluatedIsDone'
    <2>1. \A f \in evaluated' : f \in evaluated /\ row'[f] = row[f]
        BY <1>1, <1>2 DEF TypeOK
    <2> QED BY <1>1, <2>1 DEF DueInv, EvaluatedIsDone, Exists
<1>5. CoveredIsDone'
    BY <1>1 DEF CoveredIsDone
<1> QED BY <1>3, <1>4, <1>5 DEF DueInv

(* The two reads of an evaluation and its checks. *)
LEMMA LoadKeeps ==
    ASSUME TypeOK, NEW p \in Evaluators, LoadEntries(p)
    PROVE  LoadedIsCurrent(p)' /\ DueIsKept(p)'
<1>1. PICK entries : loaded' = [loaded EXCEPT ![p] = [e \in entries |-> row[e]]]
    BY DEF LoadEntries
<1>2. loaded'[p] = [e \in entries |-> row[e]] /\ pc'[p] = "loading" /\ row' = row
    BY <1>1, SameRows DEF LoadEntries, TypeOK
<1> QED BY <1>2 DEF LoadedIsCurrent, DueIsKept

LEMMA ContextKeeps ==
    ASSUME TypeOK, DueInv, NEW p \in Evaluators, LoadContext(p)
    PROVE  LoadedIsCurrent(p)' /\ DueIsKept(p)'
<1> DEFINE entries == DOMAIN loaded[p]
           read == [e \in Context(p) |-> IF e \in entries THEN loaded[p][e] ELSE row[e]]
<1>1. /\ pc[p] = "loading" /\ UNCHANGED <<version, loaded, limit, stale>>
      /\ due' = [due EXCEPT ![p] = UNION {{e} \X Fires(read, e) : e \in entries}]
    BY DEF LoadContext, history
<1>2. /\ LoadedIsCurrent(p) /\ row' = row
      /\ Present' = Present /\ Context(p)' = Context(p)
    BY <1>1, SameRows DEF DueInv
<1>3. LoadedIsCurrent(p)'
    BY <1>1, <1>2 DEF LoadedIsCurrent
<1>4. due'[p] = UNION {{e} \X Fires(read, e) : e \in entries}
    BY <1>1 DEF TypeOK
<1>5. entries \subseteq Context(p) /\ \A e \in entries : read[e] = loaded[p][e]
    BY DEF Context
<1>6. ASSUME stale[p] = {}, Context(p) = Present PROVE read = row
    <2>1. \A e \in entries : loaded[p][e] = row[e]
        BY <1>2, <1>6 DEF LoadedIsCurrent
    <2>2. row = [e \in Present |-> row[e]]
        BY DEF row
    <2> QED BY <1>6, <2>1, <2>2
<1> HIDE DEF read
<1>7. \A e \in entries : \A rule \in Fires(read, e) : Kept(p, <<e, rule>>)'
    BY <1>4 DEF Kept
<1>8. \A e \in entries \ stale[p] : Own(row[e]) \subseteq Fires(read, e)
    BY <1>2, <1>5, OwnFires DEF LoadedIsCurrent
<1>9. DueIsKept(p)'
    BY <1>1, <1>2, <1>6, <1>7, <1>8 DEF DueIsKept
<1> QED BY <1>3, <1>9

LEMMA CheckKeeps ==
    ASSUME TypeOK, DueInv, NEW p \in Evaluators, Check(p)
    PROVE  LoadedIsCurrent(p)' /\ DueIsKept(p)'
<1>1. PICK d \in due[p] :
         /\ due' = [due EXCEPT ![p] = @ \ {d}]
         /\ pending' = [pending EXCEPT ![p] = IF Exists(d) THEN @ ELSE @ \cup {d}]
    BY DEF Check
<1>2. UNCHANGED <<version, alerts, pc, limit, loaded, stale>>
    BY DEF Check, history
<1>3. due'[p] = due[p] \ {d} /\ pending'[p] = IF Exists(d) THEN pending[p] ELSE pending[p] \cup {d}
    BY <1>1 DEF TypeOK
<1>4. Present' = Present /\ row' = row /\ Context(p)' = Context(p)
    BY <1>2, SameRows
<1>5. \A c : Kept(p, c) => Kept(p, c)'
    BY <1>2, <1>3 DEF Kept, Exists
<1>6. LoadedIsCurrent(p) /\ DueIsKept(p)
    BY DEF DueInv
<1> QED BY <1>2, <1>4, <1>5, <1>6 DEF LoadedIsCurrent, DueIsKept

(* When an evaluation commits, what it was to find is done.                 *)
LEMMA CommitCovers ==
    ASSUME TypeOK, DueInv, [Next]_vars, NEW p \in Evaluators, Commit(p)
    PROVE  EvaluatedIsDone' /\ CoveredIsDone'
<1>1. /\ pc[p] = "checking" /\ due[p] = {} /\ UNCHANGED version
      /\ evaluated' = evaluated \cup (DOMAIN loaded[p] \ stale[p])
      /\ covered' = IF stale[p] = {} /\ Context(p) = Present THEN covered \cup DOMAIN loaded[p]
                    ELSE covered
    BY DEF Commit
<1>2. row' = row
    BY <1>1, SameRows
<1>3. \A d : Kept(p, d) => Exists(d)'
    BY <1>1, ExistsStays, CommitFacts DEF Kept
<1>4. \A d : Exists(d) => Exists(d)'
    BY ExistsStays
<1>5. DueIsKept(p) /\ EvaluatedIsDone /\ CoveredIsDone
    BY DEF DueInv
<1>6. EvaluatedIsDone'
    BY <1>1, <1>2, <1>3, <1>4, <1>5 DEF EvaluatedIsDone, DueIsKept
<1>7. CoveredIsDone'
    BY <1>1, <1>2, <1>3, <1>4, <1>5 DEF CoveredIsDone, DueIsKept
<1> QED BY <1>6, <1>7

LEMMA CloseForgets ==
    ASSUME TypeOK, NEW p \in Evaluators, Close(p)
    PROVE  LoadedIsCurrent(p)' /\ DueIsKept(p)'
<1>1. pc'[p] = "idle" /\ loaded'[p] = Nothing /\ DOMAIN Nothing = {}
    BY DEF Close, TypeOK, Nothing
<1> QED BY <1>1 DEF LoadedIsCurrent, DueIsKept

(* Every evaluation but that of p is left alone. *)
Others(p) ==
    \A q \in Evaluators \ {p} :
        UNCHANGED <<pc[q], limit[q], loaded[q], due[q], pending[q], stale[q]>>

LEMMA StepDueInv ==
    ASSUME IInv, DueInv, [Next]_vars
    PROVE  DueInv'
<1> USE DEF evaluation, history
<1>1. TypeOK
    BY DEF IInv
<1>2. ASSUME UNCHANGED <<version, evaluated, covered, pc, limit, loaded, due, pending, stale>>
      PROVE  DueInv'
    BY <1>1, <1>2, QuietKeeps DEF DueInv
<1>3. ASSUME NEW p \in Evaluators, UNCHANGED <<version, evaluated, covered>>, Others(p),
             LoadedIsCurrent(p)', DueIsKept(p)'
      PROVE  DueInv'
    BY <1>1, <1>3, QuietKeeps DEF DueInv, Others
<1>4. ASSUME NEW e \in Entries, Change(e) PROVE DueInv'
    BY <1>1, <1>4, ChangeKeeps
<1>5. ASSUME NEW a \in alerts, NEW status \in Statuses, Review(a, status) PROVE DueInv'
    BY <1>2, <1>5 DEF Review
<1>6. ASSUME NEW p \in Evaluators, LoadEntries(p) PROVE DueInv'
    <2>1. UNCHANGED <<version, evaluated, covered>> /\ Others(p)
        BY <1>1, <1>6 DEF LoadEntries, Others, TypeOK
    <2> QED BY <1>1, <1>3, <1>6, <2>1, LoadKeeps
<1>7. ASSUME NEW p \in Evaluators, LoadContext(p) PROVE DueInv'
    <2>1. UNCHANGED <<version, evaluated, covered>> /\ Others(p)
        BY <1>1, <1>7 DEF LoadContext, Others, TypeOK
    <2> QED BY <1>1, <1>3, <1>7, <2>1, ContextKeeps
<1>8. ASSUME NEW p \in Evaluators, Check(p) PROVE DueInv'
    <2>1. UNCHANGED <<version, evaluated, covered>> /\ Others(p)
        BY <1>1, <1>8 DEF Check, Others, TypeOK
    <2> QED BY <1>1, <1>3, <1>8, <2>1, CheckKeeps
<1>9. ASSUME NEW p \in Evaluators, Close(p) PROVE Others(p)
    BY <1>1, <1>9 DEF Close, Others, TypeOK
<1>10. ASSUME NEW p \in Evaluators, Abort(p) PROVE DueInv'
    <2>1. UNCHANGED <<version, evaluated, covered>> /\ Close(p)
        BY <1>10 DEF Abort
    <2> QED BY <1>1, <1>3, <1>9, <2>1, CloseForgets
<1>11. ASSUME NEW p \in Evaluators, Commit(p) PROVE DueInv'
    <2>1. UNCHANGED version /\ Close(p)
        BY <1>11 DEF Commit
    <2>2. EvaluatedIsDone' /\ CoveredIsDone'
        BY <1>1, <1>11, CommitCovers
    <2>3. \A q \in Evaluators : LoadedIsCurrent(q)' /\ DueIsKept(q)'
        BY <1>1, <1>9, <2>1, CloseForgets, QuietKeeps DEF Others
    <2> QED BY <2>2, <2>3 DEF DueInv
<1>12. CASE UNCHANGED vars
    BY <1>2, <1>12 DEF vars
<1> QED BY <1>4, <1>5, <1>6, <1>7, <1>8, <1>10, <1>11, <1>12 DEF Next

-----------------------------------------------------------------------------
(* From the rules that fire to the alerts that there are.                   *)
LEMMA PresentFacts == IsFiniteSet(Present) /\ Cardinality(Present) \in Nat
BY RecordsAssumption, FS_Subset, FS_CardinalityType DEF Present

LEMMA ExistsAlerted == \A e, rule : Exists(<<e, rule>>) => Alerted(e, rule[1])
BY DEF Exists, Alerted

(* Two names, or two URLs, that differ are two sources. *)
LEMMA TwoSources ==
    ASSUME NEW read, NEW cve, \A o \in DOMAIN read : read[o] \in Row,
           NEW column \in {"names", "urls"},
           NEW f \in DOMAIN read, NEW g \in DOMAIN read,
           read[f].cve = cve, read[g].cve = cve,
           NEW m \in read[f][column], NEW n \in read[g][column], m # n
    PROVE  Cardinality(CveSources(read, cve, column)) >= 2
<1> DEFINE sources == CveSources(read, cve, column)
<1>1. m \in sources /\ n \in sources
    BY DEF CveSources
<1>2. sources \in SUBSET (Names \cup Urls)
    <2>1. ASSUME NEW o \in DOMAIN read PROVE read[o][column] \subseteq Names \cup Urls
        BY DEF Row
    <2> QED BY <2>1 DEF CveSources
<1> HIDE DEF sources
<1>3. IsFiniteSet(sources) /\ Cardinality(sources) \in Nat
    <2>1. IsFiniteSet(Names \cup Urls)
        BY RecordsAssumption, FS_Union
    <2> QED BY <1>2, <2>1, FS_Subset, FS_CardinalityType
<1>4. IsFiniteSet({m}) /\ Cardinality({m}) = 1
    BY FS_Singleton
<1>5. Cardinality({m} \cup {n}) = 2
    <2>1. n \notin {m}
        OBVIOUS
    <2>2. Cardinality({m} \cup {n}) = IF n \in {m} THEN Cardinality({m}) ELSE Cardinality({m}) + 1
        BY <1>4, FS_AddElement
    <2> QED BY <1>4, <2>1, <2>2
<1>6. {m} \cup {n} \in SUBSET sources
    BY <1>1
<1>7. Cardinality({m} \cup {n}) <= Cardinality(sources)
    BY <1>3, <1>6, FS_Subset
<1> QED BY <1>5, <1>7 DEF sources

(* What a record itself calls for. *)
LEMMA OwnFollows ==
    ASSUME EvaluatedIsDone, NEW e \in evaluated
    PROVE  /\ row[e].level = "critical" \/ row[e].severe => Alerted(e, "critical")
           /\ KnownExploited(row[e]) => Alerted(e, "exploited")
           /\ row[e].component \in VehicleCritical /\ HighRisk(row[e]) => Alerted(e, "component")
<1>1. \A rule \in Own(row[e]) : Alerted(e, rule[1])
    BY ExistsAlerted DEF EvaluatedIsDone
<1>2. row[e].level = "critical" \/ row[e].severe => <<"critical", None>> \in Own(row[e])
    BY DEF Own
<1>3. KnownExploited(row[e]) => <<"exploited", None>> \in Own(row[e])
    BY DEF Own
<1>4. row[e].component \in VehicleCritical /\ HighRisk(row[e])
         => <<"component", row[e].component>> \in Own(row[e])
    BY DEF Own
<1> QED BY <1>1, <1>2, <1>3, <1>4

LEMMA DueFollows ==
    ASSUME TypeOK, EvaluatedIsDone, CoveredIsDone
    PROVE  DueIsAlerted
<1>1. ASSUME NEW e \in covered, row[e].cve # None,
             NEW f \in Present, NEW g \in Present, NEW column \in {"names", "urls"},
             row[f].cve = row[e].cve, row[g].cve = row[e].cve,
             NEW m \in row[f][column], NEW n \in row[g][column], m # n
      PROVE  Alerted(e, "cve")
    <2>1. DOMAIN row = Present /\ \A o \in DOMAIN row : row[o] \in Row
        BY RowType DEF row
    <2>2. Cardinality(CveSources(row, row[e].cve, column)) >= 2
        BY <1>1, <2>1, TwoSources
    <2>3. <<"cve", row[e].cve>> \in Fires(row, e)
        BY <1>1, <2>2 DEF Fires
    <2>4. <<"cve", row[e].cve>>[1] = "cve"
        OBVIOUS
    <2> QED BY <1>1, <2>3, <2>4, ExistsAlerted DEF CoveredIsDone
<1> QED BY <1>1, OwnFollows DEF DueIsAlerted

(* Of finitely many records that were first seen at some time, one was      *)
(* first seen last.                                                         *)
LEMMA LatestExists ==
    ASSUME NEW S, IsFiniteSet(S), S # {}, NEW f, \A e \in S : f[e] \in Nat
    PROVE  \E e \in S : \A o \in S : f[o] <= f[e]
<1> DEFINE Later(e) == {o \in S : f[o] > f[e]}
           R == StrictSubsetOrdering(S)
           T == {Later(e) : e \in S}
<1>1. IsWellFoundedOn(R, SUBSET S)
    BY FS_FiniteSubsetsOfFinite, FS_StrictSubsetOrderingWellFounded
<1>2. T \subseteq SUBSET S /\ T # {}
    OBVIOUS
<1>3. PICK least \in T : \A other \in T : <<other, least>> \notin R
    <2> HIDE DEF R, T
    <2> QED BY <1>1, <1>2, WFMin
<1>4. PICK e \in S : least = Later(e)
    OBVIOUS
<1>5. ASSUME NEW o \in S, f[o] > f[e] PROVE FALSE
    <2>1. Later(o) \subseteq Later(e) /\ o \in Later(e) /\ o \notin Later(o)
        BY <1>5
    <2>2. <<Later(o), Later(e)>> \in R
        <3>1. Later(o) \in SUBSET S /\ Later(e) \in SUBSET S /\ Later(o) # Later(e)
            BY <2>1
        <3> HIDE DEF Later
        <3> QED BY <2>1, <3>1 DEF StrictSubsetOrdering
    <2> QED BY <1>3, <1>4, <2>2
<1> QED BY <1>5

(* The latest record of a burst has all the others in its look-back.        *)
LEMMA LatestBursts ==
    ASSUME NEW read, IsFiniteSet(DOMAIN read), NEW scope,
           \A o \in DOMAIN read : read[o] \in Row,
           NEW burst \in SUBSET DOMAIN read, NEW e \in burst,
           Cardinality(burst) = MinItems,
           \A o \in burst : read[o].first <= read[e].first,
           \A o, f \in burst : /\ HighRisk(read[o])
                               /\ read[o][scope] # None /\ read[o][scope] = read[f][scope]
                               /\ read[o].first <= read[f].first + Lookback
    PROVE  Bursts(scope, read, e)
<1> DEFINE seen == {o \in DOMAIN read : /\ HighRisk(read[o])
                                        /\ read[o][scope] = read[e][scope]
                                        /\ InWindow(read[o], read[e])}
<1>1. burst \in SUBSET seen
    BY DEF InWindow
<1>2. IsFiniteSet(seen)
    BY FS_Subset
<1> HIDE DEF seen
<1>3. Cardinality(burst) <= Cardinality(seen) /\ Cardinality(seen) \in Nat
    BY <1>1, <1>2, FS_Subset, FS_CardinalityType
<1>4. Cardinality(seen) >= MinItems
    BY <1>3, LimitsAssumption
<1> QED BY <1>4 DEF Bursts, seen

LEMMA BurstsFollow ==
    ASSUME TypeOK, CoveredIsDone
    PROVE  BurstsAreAlerted
<1> SUFFICES ASSUME NEW scope \in {"vendor", "component"}, NEW burst \in SUBSET covered,
                    Cardinality(burst) = MinItems,
                    \A e, f \in burst : /\ HighRisk(row[e])
                                        /\ row[e][scope] # None /\ row[e][scope] = row[f][scope]
                                        /\ row[e].first <= row[f].first + Lookback
             PROVE  \E e \in burst : Alerted(e, "vendor burst") \/ Alerted(e, "component burst")
    BY DEF BurstsAreAlerted
<1>1. burst \subseteq Present /\ IsFiniteSet(burst) /\ burst # {}
    BY PresentFacts, FS_Subset, FS_EmptySet, LimitsAssumption DEF TypeOK
<1>2. \A e \in Present : row[e] \in Row /\ row[e].first \in Nat
    BY RowType DEF Row
<1>3. PICK e \in burst : \A o \in burst : row[o].first <= row[e].first
    <2> DEFINE f == [o \in burst |-> row[o].first]
    <2>1. \A o \in burst : f[o] \in Nat
        BY <1>1, <1>2
    <2> HIDE DEF f
    <2>2. \E e \in burst : \A o \in burst : f[o] <= f[e]
        BY <1>1, <2>1, LatestExists
    <2> QED BY <2>2 DEF f
<1>5. \A rule \in Fires(row, e) : Alerted(e, rule[1])
    BY ExistsAlerted DEF CoveredIsDone
<1>6. Bursts(scope, row, e)
    <2>1. DOMAIN row = Present
        BY DEF row
    <2> QED BY <1>1, <1>2, <1>3, <2>1, PresentFacts, LatestBursts
<1>7. CASE Bursts("vendor", row, e)
    <2>1. <<"vendor burst", row[e].vendor>> \in Fires(row, e)
        BY <1>7 DEF Fires
    <2> QED BY <1>5, <2>1
<1>8. CASE ~ Bursts("vendor", row, e)
    <2>1. scope = "component"
        BY <1>6, <1>8
    <2>2. <<"component burst", row[e].component>> \in Fires(row, e)
        BY <1>6, <1>8, <2>1 DEF Fires
    <2> QED BY <1>5, <2>2
<1> QED BY <1>7, <1>8

LEMMA InvarianceDue == Spec => []DueInv
<1>1. Init => DueInv
    BY DEF Nothing, Init, DueInv, LoadedIsCurrent, DueIsKept, EvaluatedIsDone, CoveredIsDone
<1>2. IInv /\ DueInv /\ [Next]_vars => DueInv'
    BY StepDueInv
<1> QED BY <1>1, <1>2, Invariance, PTL DEF Spec

(* A record that was evaluated as it stands has an alert for everything     *)
(* that calls for one, for any number of records and of evaluations that    *)
(* fail, overlap or see records change (evaluate_and_create_alerts).        *)
THEOREM DueTheorem == Spec => []DueIsAlerted
<1>1. TypeOK /\ DueInv => DueIsAlerted
    BY DueFollows DEF DueInv
<1> QED BY <1>1, TypeCorrectness, InvarianceDue, PTL

(* Of MinItems high-risk records of one vendor or component that were all   *)
(* evaluated as they stand and first seen within the look-back of one       *)
(* another, at least one has a burst alert: that of the latest, which sees  *)
(* all the others (_burst_context).                                         *)
THEOREM BurstTheorem == Spec => []BurstsAreAlerted
<1>1. TypeOK /\ DueInv => BurstsAreAlerted
    BY BurstsFollow DEF DueInv
<1> QED BY <1>1, TypeCorrectness, InvarianceDue, PTL

-----------------------------------------------------------------------------
(* One evaluator at a time: nothing is committed between the beginning of   *)
(* an evaluation and its end.                                               *)
OneEvaluator == \A p, q \in Evaluators : p = q

NothingBetween ==
    /\ \A p \in Evaluators : pc[p] # "idle" => started[p] = commits
    /\ \A a \in alerts : a.committed = a.started + 1

LEMMA StepNothingBetween ==
    ASSUME IInv, OneEvaluator, NothingBetween, [Next]_vars
    PROVE  NothingBetween'
<1> USE DEF evaluation, history
<1>1. TypeOK
    BY DEF IInv
<1>2. CASE UNCHANGED <<alerts, pc, started, commits>>
    BY <1>2 DEF NothingBetween
<1>3. ASSUME NEW a \in alerts, NEW status \in Statuses, Review(a, status) PROVE NothingBetween'
    <2>1. ASSUME NEW b \in alerts' PROVE b.committed = b.started + 1
        <3>1. PICK c \in alerts : b.started = c.started /\ b.committed = c.committed
            BY <1>1, <1>3, ReviewFacts
        <3>2. c.committed = c.started + 1
            BY DEF NothingBetween
        <3>3. QED
            BY <3>1, <3>2
    <2>2. pc' = pc /\ started' = started /\ commits' = commits
        BY <1>3 DEF Review
    <2>3. QED
        BY <2>1, <2>2 DEF NothingBetween
<1>4. ASSUME NEW p \in Evaluators, LoadEntries(p) PROVE NothingBetween'
    BY <1>1, <1>4 DEF NothingBetween, LoadEntries, OneEvaluator, TypeOK
<1>5. ASSUME NEW p \in Evaluators, LoadContext(p) PROVE NothingBetween'
    BY <1>1, <1>5 DEF NothingBetween, LoadContext, OneEvaluator, TypeOK
<1>6. ASSUME NEW p \in Evaluators, Abort(p) PROVE NothingBetween'
    BY <1>1, <1>6 DEF NothingBetween, Abort, Close, OneEvaluator, TypeOK
<1>7. ASSUME NEW p \in Evaluators, Commit(p) PROVE NothingBetween'
    <2>1. \A q \in Evaluators : pc'[q] = "idle"
        BY <1>1, <1>7 DEF Commit, Close, OneEvaluator, TypeOK
    <2>2. \A a \in alerts' \ alerts : a.committed = a.started + 1
        <3>1. started[p] = commits
            BY <1>7 DEF NothingBetween, Commit
        <3> QED BY <1>1, <1>7, <3>1, CommitFacts
    <2> QED BY <2>1, <2>2 DEF NothingBetween
<1> QED BY <1>2, <1>3, <1>4, <1>5, <1>6, <1>7 DEF Next, vars, Change, Check

(* As long as one process evaluates at a time, a record has one alert for   *)
(* each rule, however often it is evaluated and reviewed (_existing_alert;  *)
(* docs/development.md).                                                    *)
THEOREM SerialUniqueness == OneEvaluator => (Spec => []OneAlertPerRule)
<1>1. Init => NothingBetween
    BY DEF Init, NothingBetween
<1>2. OneEvaluator /\ IInv /\ NothingBetween /\ [Next]_vars => NothingBetween'
    BY StepNothingBetween
<1>3. IInv /\ NothingBetween => OneAlertPerRule
    <2> SUFFICES ASSUME IInv, NothingBetween, NEW a \in alerts, NEW b \in alerts,
                        a.entry = b.entry, a.rule = b.rule
                 PROVE  Id(a) = Id(b)
        BY DEF OneAlertPerRule
    <2>1. a.committed > b.started /\ b.committed > a.started
        BY DEF IInv, DuplicatesOverlap
    <2>2. /\ a.committed = a.started + 1 /\ b.committed = b.started + 1
          /\ a.started \in Nat /\ b.started \in Nat
        BY DEF NothingBetween, IInv, TypeOK, Alert
    <2>3. a.committed = b.committed
        BY <2>1, <2>2
    <2> QED BY <2>3 DEF Id
<1> SUFFICES ASSUME OneEvaluator PROVE Spec => []OneAlertPerRule
    OBVIOUS
<1>4. IInv /\ NothingBetween /\ [Next]_vars => NothingBetween'
    BY <1>2
<1> QED BY <1>1, <1>3, <1>4, Invariance, PTL DEF Spec

=============================================================================
