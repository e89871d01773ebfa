----------------------- MODULE ConnectorRuntimeProofs -----------------------
(* Theorems about ConnectorRuntime, for every configuration of sources,     *)
(* every set of items and any bounds.                                       *)
EXTENDS ConnectorRuntime, TLAPS, SequenceTheorems, FiniteSetTheorems, WellFoundedInduction

Recalls(s) == ConnectorOf[s] = "nhtsa-recalls"

(* The items that the successful records of a source have brought. *)
Delivered(s) == {i \in Items : \E n \in 1 .. Len(log[s]) : i \in Got(log[s][n])}

(* A thread belongs to a source with a connector, and one that collects     *)
(* recalls has read none that its cursor names.                             *)
ThreadOK(t) ==
    /\ t \in Thread
    /\ ConnectorOf[t.source] \in Connectors
    /\ Recalls(t.source) => Got(t.read) \cap t.cursor.seen = {}

AttemptsCount ==
    /\ pc \in {"idle", "source"} => attempt = 0
    /\ pc = "waiting" => attempt # 0
    /\ pc = "backoff" => attempt \in 1 .. Retries

(* The source that is being collected has a connector; its cursor is the    *)
(* one in the state, and the thread that is waited for was given it.        *)
PresentIsCollected ==
    /\ pc \in {"waiting", "backoff"} =>
          ConnectorOf[Present] \in Connectors /\ given = state.cursors[Present]
    /\ pc = "waiting" =>
          /\ threads[Len(threads)].source = Present
          /\ threads[Len(threads)].cursor = given

ThreadsOK == \A n \in 1 .. Len(threads) : ThreadOK(threads[n])

(* While the state is kept, its cursors name exactly what was delivered. *)
CursorsAreDelivered ==
    \A s \in Sources : Recalls(s) =>
        /\ state.cursors[s].seen \subseteq Delivered(s)
        /\ kept => Delivered(s) \subseteq state.cursors[s].seen

DeliveredOnce ==
    \A s \in Sources : Recalls(s) /\ kept =>
        \A n, m \in 1 .. Len(log[s]) : n # m => Got(log[s][n]) \cap Got(log[s][m]) = {}

IInv ==
    /\ TypeOK /\ AttemptsCount /\ PresentIsCollected /\ ThreadsOK
    /\ CursorsAreDelivered /\ DeliveredOnce

-----------------------------------------------------------------------------
(* Sequences: one more element, one less, one replaced, one taken out.      *)
LEMMA AppendFacts ==
    ASSUME NEW S, NEW s \in Seq(S), NEW x \in S
    PROVE  /\ Append(s, x) \in Seq(S)
           /\ Len(s) \in Nat /\ Len(Append(s, x)) = Len(s) + 1
           /\ \A n \in 1 .. Len(s) : Append(s, x)[n] = s[n]
           /\ Append(s, x)[Len(s) + 1] = x
BY AppendProperties

LEMMA FrontFacts ==
    ASSUME NEW S, NEW s \in Seq(S), s # << >>
    PROVE  LET front == SubSeq(s, 1, Len(s) - 1) IN
           /\ front \in Seq(S)
           /\ Len(s) \in Nat \ {0} /\ Len(front) = Len(s) - 1
           /\ \A n \in 1 .. Len(s) - 1 : front[n] = s[n]
<1>1. Len(s) \in Nat \ {0}
  BY EmptySeq, LenProperties
<1>2. \A n \in 1 .. Len(s) - 1 : s[n] \in S
  BY <1>1, ElementOfSeq
<1> DEFINE last == Len(s) - 1
<1>3. last \in Int /\ 1 \in Int /\ \A n \in 1 .. last : s[n] \in S
  BY <1>1, <1>2
<1>4. last \in Nat
  BY <1>1
<1> HIDE DEF last
<1>5. /\ SubSeq(s, 1, last) \in Seq(S)
      /\ Len(SubSeq(s, 1, last)) = IF 1 <= last THEN last - 1 + 1 ELSE 0
      /\ \A n \in 1 .. last - 1 + 1 : SubSeq(s, 1, last)[n] = s[1 + n - 1]
  BY <1>3, SubSeqProperties
<1>6. Len(SubSeq(s, 1, last)) = last /\ \A n \in 1 .. last : SubSeq(s, 1, last)[n] = s[n]
  BY <1>4, <1>5
<1> QED
  BY <1>1, <1>5, <1>6 DEF last

LEMMA ReplaceFacts ==
    ASSUME NEW S, NEW s \in Seq(S), NEW n \in 1 .. Len(s), NEW x \in S
    PROVE  LET new == [s EXCEPT ![n] = x] IN
           /\ new \in Seq(S)
           /\ Len(new) = Len(s)
           /\ new[n] = x
           /\ \A m \in 1 .. Len(s) : m # n => new[m] = s[m]
<1>1. DOMAIN s = 1 .. Len(s)
  BY LenProperties
<1> QED
  BY <1>1, ExceptSeq

LEMMA WithoutFacts ==
    ASSUME NEW S, NEW s \in Seq(S), NEW n \in 1 .. Len(s)
    PROVE  LET rest == [m \in 1 .. Len(s) - 1 |-> s[IF m < n THEN m ELSE m + 1]] IN
           /\ rest \in Seq(S)
           /\ Len(rest) = Len(s) - 1 /\ Len(s) \in Nat
           /\ \A m \in 1 .. Len(s) - 1 : rest[m] = s[IF m < n THEN m ELSE m + 1]
<1> DEFINE rest == [m \in 1 .. Len(s) - 1 |-> s[IF m < n THEN m ELSE m + 1]]
<1>1. Len(s) \in Nat /\ Len(s) - 1 \in Nat
  BY LenProperties
<1>2. \A m \in 1 .. Len(s) - 1 : (IF m < n THEN m ELSE m + 1) \in 1 .. Len(s)
  BY <1>1
<1>3. \A m \in 1 .. Len(s) - 1 : s[IF m < n THEN m ELSE m + 1] \in S
  BY <1>2, ElementOfSeq
<1>4. rest \in [1 .. Len(s) - 1 -> S]
  BY <1>3
<1>5. rest \in Seq(S)
  BY <1>1, <1>4, IsASeq
<1>6. Len(rest) = Len(s) - 1
  BY <1>1, <1>5, LenProperties
<1> QED
  BY <1>1, <1>5, <1>6

-----------------------------------------------------------------------------
(* Of finitely many readings and a date, one is the latest. *)
LEMMA LatestIsADate ==
    ASSUME NEW reading \in Reading, NEW date \in Nat
    PROVE  Latest(reading, date) \in Nat /\ Latest(reading, date) >= date
<1> DEFINE dates == {reading[i] : i \in Items} \cup {date}
           Later(d) == {i \in Items : reading[i] > d}
           R == StrictSubsetOrdering(Items)
           T == {Later(d) : d \in dates}
<1>1. dates \subseteq Nat
  BY DEF Reading
<1>2. IsWellFoundedOn(R, SUBSET Items)
  BY ConfigurationAssumption, FS_FiniteSubsetsOfFinite, FS_StrictSubsetOrderingWellFounded
<1>3. T \subseteq SUBSET Items /\ T # {}
  OBVIOUS
<1>4. PICK least \in T : \A other \in T : <<other, least>> \notin R
  <2> HIDE DEF R, T
  <2> QED BY <1>2, <1>3, WFMin
<1>5. PICK d \in dates : least = Later(d)
  OBVIOUS
<1>6. \A i \in Items : d >= reading[i]
  <2> SUFFICES ASSUME NEW i \in Items, reading[i] > d PROVE FALSE
    BY <1>1 DEF Reading
  <2>1. reading[i] \in dates /\ i \in Later(d) /\ i \notin Later(reading[i])
    <3>1. reading[i] \in dates /\ i \in Later(d)
      OBVIOUS
    <3>2. reading[i] \in Nat
      BY <1>1, <3>1
    <3>3. ~ (reading[i] > reading[i])
      BY <3>2
    <3> QED
      BY <3>1, <3>3
  <2>2. Later(reading[i]) \subseteq Later(d)
    BY <1>1 DEF Reading
  <2>3. <<Later(reading[i]), Later(d)>> \in R
    BY <2>1, <2>2 DEF StrictSubsetOrdering
  <2> QED
    BY <1>4, <1>5, <2>1, <2>3
<1>7. \E e \in dates : e >= date /\ \A i \in Items : e >= reading[i]
  <2>1. CASE d >= date
    BY <1>6, <2>1
  <2>2. CASE date > d
    BY <1>1, <1>6, <2>2 DEF Reading
  <2> QED
    BY <1>1, <2>1, <2>2
<1>8. Latest(reading, date) \in dates /\ Latest(reading, date) >= date
  BY <1>7 DEF Latest
<1> QED
  BY <1>1, <1>8

-----------------------------------------------------------------------------
(* Cursors and windows. *)
LEMMA WindowType ==
    ASSUME NEW cursor \in Cursor, NEW time \in Nat
    PROVE  WindowOf(cursor, time).from \in Nat /\ WindowOf(cursor, time).to \in Nat
BY BoundAssumption DEF WindowOf, Cursor

LEMMA NewThreadFacts ==
    ASSUME NEW s \in Sources, ConnectorOf[s] \in Connectors,
           NEW cursor \in Cursor, NEW time \in Nat
    PROVE  LET t == NewThread(s, cursor, time) IN
           ThreadOK(t) /\ t.source = s /\ t.cursor = cursor /\ t.status = "running"
<1> DEFINE t == NewThread(s, cursor, time)
<1>1. t.from \in Nat /\ t.to \in Nat /\ t.next \in Nat
  BY WindowType DEF NewThread, Cursor
<1>2. Nothing \in Reading /\ Got(Nothing) = {}
  BY DEF Nothing, Reading, Got
<1>3. t \in Thread
  BY <1>1, <1>2 DEF NewThread, Thread
<1> QED
  BY <1>2, <1>3 DEF NewThread, ThreadOK

(* What a step of a thread may change. *)
Continues(t, new) == ThreadOK(new) /\ new.source = t.source /\ new.cursor = t.cursor

LEMMA ReadContinues ==
    ASSUME NEW t, ThreadOK(t), NEW items \in SUBSET Items, changed \in [Items -> Nat],
           Recalls(t.source) => items \cap t.cursor.seen = {}
    PROVE  Continues(t, Read(t, items))
<1> DEFINE reading == [i \in Items |-> IF i \in items THEN changed[i] ELSE t.read[i]]
<1>1. t \in Thread /\ t.read \in Reading
  BY DEF ThreadOK, Thread
<1>2. reading \in Reading
  BY <1>1 DEF Reading
<1>3. Read(t, items) = [t EXCEPT !.read = reading]
  BY <1>1 DEF Read
<1>4. Got(reading) \subseteq Got(t.read) \cup items
  BY DEF Got
<1> HIDE DEF reading
<1>5. [t EXCEPT !.read = reading] \in Thread
  BY <1>1, <1>2 DEF Thread
<1>6. /\ [t EXCEPT !.read = reading].read = reading
      /\ [t EXCEPT !.read = reading].source = t.source
      /\ [t EXCEPT !.read = reading].cursor = t.cursor
  BY <1>1 DEF Thread
<1> QED
  BY <1>3, <1>4, <1>5, <1>6 DEF Continues, ThreadOK, Recalls

LEMMA FreshFacts ==
    ASSUME NEW t, NEW items \in SUBSET Items
    PROVE  /\ Fresh(t, items) \in SUBSET Items
           /\ Recalls(t.source) => Fresh(t, items) \cap t.cursor.seen = {}
BY DEF Fresh, Recalls

(* A field that says how far a thread has come does not matter. *)
LEMMA MarkContinues ==
    ASSUME NEW t, NEW new, Continues(t, new), NEW next \in Nat, NEW pages \in Nat,
           NEW errs \in BOOLEAN, NEW status \in {"running", "answered", "raised"}
    PROVE  Continues(t, [new EXCEPT !.next = next, !.pages = pages, !.errors = errs,
                                    !.status = status])
BY DEF Continues, ThreadOK, Thread

LEMMA PageContinues ==
    ASSUME NEW t, ThreadOK(t), ConnectorOf[t.source] = "nvd", changed \in [Items -> Nat]
    PROVE  Continues(t, Page(t))
<1> DEFINE hits == Hits(t.source, t.from, t.to)
           page == {i \in hits : Place(i, hits) \in t.next + 1 .. t.next + PageSize}
           next == t.next + Cardinality(page)
           last == page = {} \/ next >= Cardinality(hits) \/ t.pages + 1 >= MaxPages
           new == Read(t, page)
<1>1. hits \in SUBSET Items /\ page \in SUBSET Items
  BY DEF Hits
<1>2. Cardinality(page) \in Nat
  BY <1>1, ConfigurationAssumption, FS_Subset, FS_CardinalityType
<1>3. t \in Thread /\ t.next \in Nat /\ t.pages \in Nat /\ t.errors \in BOOLEAN
  BY DEF ThreadOK, Thread
<1>4. Continues(t, new)
  <2> HIDE DEF page
  <2> QED BY <1>1, ReadContinues DEF Recalls
<1>5. new \in Thread /\ new.pages = t.pages /\ new.errors = t.errors
  BY <1>3, <1>4 DEF Read, Continues, ThreadOK, Thread
<1> DEFINE next2 == IF next >= Cardinality(hits) THEN 0 ELSE next
           status == IF last THEN "answered" ELSE "running"
           marked == [new EXCEPT !.next = next2, !.pages = new.pages + 1,
                                 !.errors = new.errors, !.status = status]
<1>6. next2 \in Nat /\ new.pages + 1 \in Nat /\ new.errors \in BOOLEAN
      /\ status \in {"running", "answered", "raised"}
  <2>1. next \in Nat
    BY <1>2, <1>3
  <2> QED BY <1>3, <1>5, <2>1
<1>7. Page(t) = [new EXCEPT !.pages = @ + 1, !.next = next2, !.status = status]
  BY DEF Page
<1> HIDE DEF new, next2, status
<1>8. Continues(t, marked)
  BY <1>4, <1>6, MarkContinues
<1>9. [new EXCEPT !.pages = @ + 1, !.next = next2, !.status = status] = marked
  BY <1>5 DEF Thread
<1> QED
  BY <1>7, <1>8, <1>9

LEMMA EndedContinues ==
    ASSUME NEW t, NEW new, Continues(t, new)
    PROVE  Continues(t, Ended(new))
BY DEF Continues, ThreadOK, Thread, Ended

LEMMA FetchedContinues ==
    ASSUME NEW t, ThreadOK(t), changed \in [Items -> Nat]
    PROVE  Continues(t, Ended(Fetched(t)))
<1> DEFINE items == Fresh(t, Shown(t.source, t.next + 1))
           new == Read(t, items)
<1>1. Shown(t.source, t.next + 1) \in SUBSET Items
  BY DEF Shown
<1>2. Continues(t, new)
  BY <1>1, FreshFacts, ReadContinues
<1> HIDE DEF new
<1>3. Continues(t, [new EXCEPT !.next = @ + 1])
  BY <1>2 DEF Continues, ThreadOK, Thread
<1>4. Fetched(t) = [new EXCEPT !.next = @ + 1]
  BY DEF Fetched, new
<1> QED
  BY <1>3, <1>4, EndedContinues

LEMMA MissedContinues ==
    ASSUME NEW t, ThreadOK(t), changed \in [Items -> Nat], NEW part \in SUBSET Items
    PROVE  Continues(t, Ended(Missed(t, part)))
<1> DEFINE new == Read(t, Fresh(t, part))
<1>1. Continues(t, new)
  BY FreshFacts, ReadContinues
<1> HIDE DEF new
<1> DEFINE yes == TRUE
           noted == [new EXCEPT !.next = new.next + 1, !.pages = new.pages,
                                !.errors = yes, !.status = new.status]
<1>4. /\ new \in Thread /\ new.next \in Nat /\ new.pages \in Nat
      /\ new.status \in {"running", "answered", "raised"}
  BY <1>1 DEF Continues, ThreadOK, Thread
<1>6. [new EXCEPT !.next = @ + 1, !.errors = TRUE] = noted
  BY <1>4 DEF Thread
<1>7. yes \in BOOLEAN /\ new.next + 1 \in Nat
  BY <1>4
<1> HIDE DEF yes
<1>5. Continues(t, noted)
  BY <1>1, <1>4, <1>7, MarkContinues
<1>2. Continues(t, [new EXCEPT !.next = @ + 1, !.errors = TRUE])
  BY <1>5, <1>6
<1>3. Missed(t, part) = [new EXCEPT !.next = @ + 1, !.errors = TRUE]
  BY DEF Missed, new
<1> QED
  BY <1>2, <1>3, EndedContinues

LEMMA AnswerContinues ==
    ASSUME NEW t, ThreadOK(t), changed \in [Items -> Nat]
    PROVE  /\ Continues(t, Answered(t))
           /\ \A new \in Failures(t) : Continues(t, new)
<1>1. Continues(t, t)
  BY DEF Continues
<1>2. Continues(t, Raised(t))
  BY <1>1 DEF Raised, Continues, ThreadOK, Thread
<1>3. Continues(t, Answered(t))
  <2>1. CASE ConnectorOf[t.source] = "nvd"
    BY <2>1, PageContinues DEF Answered
  <2>2. CASE ConnectorOf[t.source] = "cisa-kev"
    BY <1>2, <2>2, FetchedContinues DEF Answered
  <2>3. CASE ConnectorOf[t.source] \notin {"nvd", "cisa-kev"}
    BY <1>1, <2>3, FetchedContinues, EndedContinues DEF Answered
  <2> QED
    BY <2>1, <2>2, <2>3
<1>4. ASSUME NEW new \in Failures(t) PROVE Continues(t, new)
  <2>1. \A part \in SUBSET Shown(t.source, t.next + 1) : part \in SUBSET Items
    BY DEF Shown
  <2> QED
    BY <1>2, <2>1, MissedContinues DEF Failures
<1> QED
  BY <1>3, <1>4

LEMMA CursorAfterType ==
    ASSUME NEW t, ThreadOK(t)
    PROVE  CursorAfter(t) \in Cursor
<1>1. t.cursor \in Cursor /\ t.read \in Reading /\ t.next \in Nat /\ t.from \in Nat /\ t.to \in Nat
  BY DEF ThreadOK, Thread
<1>2. Latest(t.read, 0) \in Nat /\ Latest(t.read, t.cursor.to) \in Nat
  BY <1>1, LatestIsADate DEF Cursor
<1>3. Got(t.read) \in SUBSET Items /\ t.cursor.seen \in SUBSET Items
  BY <1>1 DEF Got, Cursor
<1>6. t.cursor.next + 1 \in Nat /\ NoCursor \in Cursor
  BY <1>1 DEF NoCursor, Cursor
<1>4. /\ [NoCursor EXCEPT !.next = t.cursor.next + 1] \in Cursor
      /\ [NoCursor EXCEPT !.to = t.to] \in Cursor
      /\ [NoCursor EXCEPT !.from = t.from, !.to = t.to, !.next = t.next] \in Cursor
      /\ [NoCursor EXCEPT !.to = Latest(t.read, 0)] \in Cursor
  BY <1>1, <1>2, <1>6 DEF Cursor
<1>5. /\ [NoCursor EXCEPT !.seen = t.cursor.seen \cup Got(t.read)] \in Cursor
      /\ [NoCursor EXCEPT !.to = Latest(t.read, t.cursor.to)] \in Cursor
      /\ [NoCursor EXCEPT !.seen = Got(t.read)] \in Cursor
  BY <1>2, <1>3, <1>6 DEF Cursor
<1> QED
  BY <1>1, <1>4, <1>5 DEF CursorAfter

LEMMA CursorAfterRecalls ==
    ASSUME NEW t, ThreadOK(t), Recalls(t.source)
    PROVE  CursorAfter(t).seen = t.cursor.seen \cup Got(t.read)
BY DEF CursorAfter, NoCursor, Recalls

-----------------------------------------------------------------------------
(* What the actions have in common. *)
LEMMA Numbers ==
    /\ Retries \in Nat /\ Interval \in Nat /\ Backoff \in Nat /\ MaxBackoff \in Nat
    /\ 0 \in 0 .. Retries + 1
BY BoundAssumption

LEMMA PresentType ==
    ASSUME TypeOK, pc # "idle"
    PROVE  Present \in Sources /\ Len(records) \in Nat /\ Len(records) < Len(order)
<1>1. order \in Seq(Sources) /\ records \in Seq(Record) /\ Len(records) < Len(order)
  BY ConfigurationAssumption DEF TypeOK
<1>2. Len(records) \in Nat /\ Len(order) \in Nat
  BY <1>1, LenProperties
<1>3. Len(records) + 1 \in 1 .. Len(order)
  BY <1>1, <1>2
<1> QED
  BY <1>1, <1>2, <1>3, ElementOfSeq DEF Present

LEMMA LastThread ==
    ASSUME TypeOK, pc = "waiting"
    PROVE  Len(threads) \in 1 .. Len(threads) /\ threads[Len(threads)] \in Thread
<1>1. threads \in Seq(Thread) /\ threads # << >>
  BY DEF TypeOK
<1>2. Len(threads) \in Nat \ {0}
  BY <1>1, EmptySeq, LenProperties
<1> QED
  BY <1>1, <1>2, ElementOfSeq

LEMMA DeliveryFrame ==
    ASSUME CursorsAreDelivered, DeliveredOnce, UNCHANGED <<log, kept>>,
           \A s \in Sources : state'.cursors[s] = state.cursors[s]
    PROVE  CursorsAreDelivered' /\ DeliveredOnce'
<1>1. \A s : Delivered(s)' = Delivered(s)
  BY DEF Delivered
<1>2. CursorsAreDelivered'
  BY <1>1 DEF CursorsAreDelivered
<1> QED
  BY <1>2 DEF DeliveredOnce

(* A thread makes a step, in its place or on its way out. *)
LEMMA ProgressFacts ==
    ASSUME TypeOK, ThreadsOK, NEW n \in 1 .. Len(threads), threads[n].status = "running",
           NEW t, Continues(threads[n], t), Progress(n, t)
    PROVE  /\ threads' \in Seq(Thread)
           /\ \A m \in 1 .. Len(threads') : ThreadOK(threads'[m])
           /\ \A m \in 1 .. Len(threads') :
                 threads'[m].status # "running" => pc = "waiting" /\ m = Len(threads')
           /\ pc = "waiting" =>
                 /\ threads' # << >>
                 /\ threads'[Len(threads')].source = threads[Len(threads)].source
                 /\ threads'[Len(threads')].cursor = threads[Len(threads)].cursor
<1>1. /\ threads \in Seq(Thread) /\ Len(threads) \in Nat
      /\ \A m \in 1 .. Len(threads) :
            threads[m].status # "running" => pc = "waiting" /\ m = Len(threads)
  BY LenProperties DEF TypeOK
<1>2. ThreadOK(t) /\ t \in Thread /\ t.source = threads[n].source /\ t.cursor = threads[n].cursor
  BY DEF Continues, ThreadOK
<1>3. \A m \in 1 .. Len(threads) : ThreadOK(threads[m])
  BY DEF ThreadsOK
<1>4. CASE t.status # "running" /\ ~ (pc = "waiting" /\ n = Len(threads))
  <2> DEFINE rest == [m \in 1 .. Len(threads) - 1 |-> threads[IF m < n THEN m ELSE m + 1]]
  <2>1. threads' = rest
    BY <1>4 DEF Progress
  <2>2. /\ rest \in Seq(Thread)
        /\ Len(rest) = Len(threads) - 1
        /\ \A m \in 1 .. Len(threads) - 1 : rest[m] = threads[IF m < n THEN m ELSE m + 1]
    BY <1>1, WithoutFacts
  <2> HIDE DEF rest
  <2>3. \A m \in 1 .. Len(threads') : threads'[m] = threads[IF m < n THEN m ELSE m + 1]
                                      /\ (IF m < n THEN m ELSE m + 1) \in 1 .. Len(threads)
    BY <1>1, <2>1, <2>2
  <2>4. \A m \in 1 .. Len(threads') : ThreadOK(threads'[m])
    BY <1>3, <2>3
  <2>5. ASSUME NEW m \in 1 .. Len(threads'), threads'[m].status # "running"
        PROVE  pc = "waiting" /\ m = Len(threads')
    <3> DEFINE old == IF m < n THEN m ELSE m + 1
    <3>1. old \in 1 .. Len(threads) /\ threads[old].status # "running"
      BY <2>3, <2>5
    <3>2. pc = "waiting" /\ old = Len(threads)
      BY <1>1, <3>1
    <3>3. m \in Nat /\ n \in Nat /\ n <= Len(threads) /\ m <= Len(threads) - 1
          /\ Len(threads') = Len(threads) - 1
      BY <1>1, <2>1, <2>2, <2>5
    <3> QED
      BY <1>1, <3>2, <3>3
  <2>6. ASSUME pc = "waiting"
        PROVE  threads' # << >> /\ threads'[Len(threads')] = threads[Len(threads)]
    <3>1. n < Len(threads)
      BY <1>1, <1>4, <2>6
    <3>2. Len(threads') = Len(threads) - 1 /\ Len(threads') \in 1 .. Len(threads) - 1
      BY <1>1, <2>1, <2>2, <3>1
    <3>3. threads'[Len(threads')] = threads[Len(threads)]
      BY <1>1, <2>1, <2>2, <3>1, <3>2
    <3>4. threads' # << >>
      BY <3>2, EmptySeq
    <3> QED
      BY <3>3, <3>4
  <2> QED
    BY <2>1, <2>2, <2>4, <2>5, <2>6
<1>5. CASE ~ (t.status # "running" /\ ~ (pc = "waiting" /\ n = Len(threads)))
  <2> DEFINE new == [threads EXCEPT ![n] = t]
  <2>1. threads' = new
    BY <1>5 DEF Progress
  <2>2. /\ new \in Seq(Thread) /\ Len(new) = Len(threads) /\ new[n] = t
        /\ \A m \in 1 .. Len(threads) : m # n => new[m] = threads[m]
    BY <1>1, <1>2, ReplaceFacts
  <2> HIDE DEF new
  <2>3. \A m \in 1 .. Len(threads') : ThreadOK(threads'[m])
    BY <1>2, <1>3, <2>1, <2>2
  <2>4. \A m \in 1 .. Len(threads') :
           threads'[m].status # "running" => pc = "waiting" /\ m = Len(threads')
    BY <1>1, <1>5, <2>1, <2>2
  <2>5. threads' # << >>
    BY <1>1, <2>1, <2>2, EmptySeq
  <2>6. Len(threads) \in 1 .. Len(threads)
    BY <1>1
  <2> QED
    BY <1>2, <2>1, <2>2, <2>3, <2>4, <2>5, <2>6
<1> QED
  BY <1>4, <1>5

(* Another thread begins. *)
LEMMA SubmitFacts ==
    ASSUME TypeOK, ThreadsOK, pc \in {"source", "backoff"},
           ConnectorOf[Present] \in Connectors, now' \in Nat,
           NEW cursor \in Cursor, Submit(cursor, now')
    PROVE  /\ threads' \in Seq(Thread) /\ threads' # << >>
           /\ \A m \in 1 .. Len(threads') : ThreadOK(threads'[m])
           /\ \A m \in 1 .. Len(threads') : threads'[m].status = "running"
           /\ threads'[Len(threads')].source = Present
           /\ threads'[Len(threads')].cursor = cursor
           /\ since' \in [Sources -> Nat]
<1> DEFINE t == NewThread(Present, cursor, now')
<1>1. Present \in Sources
  BY PresentType
<1>2. ThreadOK(t) /\ t.source = Present /\ t.cursor = cursor /\ t.status = "running"
  BY <1>1, NewThreadFacts
<1>3. t \in Thread /\ t.from \in Nat
  BY <1>2 DEF ThreadOK, Thread
<1>4. /\ threads' = Append(threads, t)
      /\ \/ since' = since
         \/ since' = [since EXCEPT ![Present] = t.from]
  BY DEF Submit
<1> HIDE DEF t
<1>5. since' \in [Sources -> Nat]
  BY <1>3, <1>4 DEF TypeOK
<1>6. /\ threads \in Seq(Thread) /\ Len(threads) \in Nat
      /\ \A m \in 1 .. Len(threads) : threads[m].status = "running"
  BY LenProperties DEF TypeOK
<1>7. /\ threads' \in Seq(Thread) /\ Len(threads') = Len(threads) + 1
      /\ \A m \in 1 .. Len(threads) : threads'[m] = threads[m]
      /\ threads'[Len(threads')] = t
  BY <1>3, <1>4, <1>6, AppendFacts
<1>8. threads' # << >>
  BY <1>6, <1>7, EmptySeq
<1>9. \A m \in 1 .. Len(threads') : m \in 1 .. Len(threads) \/ m = Len(threads')
  BY <1>6, <1>7
<1> QED
  BY <1>2, <1>5, <1>6, <1>7, <1>8, <1>9 DEF ThreadsOK

LEMMA ReportFacts ==
    ASSUME TypeOK, pc # "idle", NEW status \in {"success", "failed", "skipped"},
           NEW attempts \in Nat, Report(status, attempts)
    PROVE  /\ records' \in Seq(Record)
           /\ pc' \in {"idle", "source"}
           /\ pc' # "idle" => Len(records') < Len(order)
           /\ given' \in Cursor
           /\ attempt' = 0
<1> DEFINE r == [source |-> Present, status |-> status, attempts |-> attempts]
<1>1. Present \in Sources /\ Len(records) \in Nat /\ Len(records) < Len(order)
  BY PresentType
<1>2. r \in Record
  BY <1>1 DEF Record
<1>3. records' = Append(records, r)
  BY DEF Report
<1> HIDE DEF r
<1>4. records' \in Seq(Record) /\ Len(records') = Len(records) + 1
  BY <1>2, <1>3, AppendFacts DEF TypeOK
<1>5. Len(order) \in Nat
  BY ConfigurationAssumption, LenProperties DEF TypeOK
<1>6. pc' # "idle" => Len(records') < Len(order)
  BY <1>1, <1>4, <1>5 DEF Report
<1> QED
  BY <1>4, <1>6 DEF Report, NoCursor, Cursor

-----------------------------------------------------------------------------
(* The invariant holds in the beginning and through every action. *)
LEMMA InitInvariant == Init => IInv
<1> SUFFICES ASSUME Init PROVE IInv
  OBVIOUS
<1>1. threads = << >> /\ Len(threads) = 0 /\ records = << >>
  BY EmptySeq DEF Init
<1>2. \A s \in Sources : Len(log[s]) = 0 /\ log[s] \in Seq(Reading)
  BY EmptySeq DEF Init
<1>3. state.cursors \in [Sources -> Cursor] /\ state.allowed \in [Sources -> Nat]
      /\ state = [cursors |-> state.cursors, allowed |-> state.allowed]
  BY DEF Init, FreshState, NoCursor, Cursor
<1>4. TypeOK
  <2>1. state \in [cursors : [Sources -> Cursor], allowed : [Sources -> Nat]]
    BY <1>3
  <2>2. records \in Seq(Record) /\ threads \in Seq(Thread) /\ log \in [Sources -> Seq(Reading)]
    BY <1>1, <1>2, EmptySeq DEF Init
  <2>3. changed \in [Items -> Nat] /\ since \in [Sources -> Nat]
    BY DEF Init
  <2>4. given \in Cursor
    BY DEF Init, NoCursor, Cursor
  <2>5. attempt \in 0 .. Retries + 1
    BY Numbers DEF Init
  <2>6. slipped \in BOOLEAN /\ kept \in BOOLEAN
    BY DEF Init
  <2> QED
    BY <1>1, <2>1, <2>2, <2>3, <2>4, <2>5, <2>6 DEF TypeOK, Init
<1>5. AttemptsCount /\ PresentIsCollected /\ ThreadsOK
  BY <1>1 DEF Init, AttemptsCount, PresentIsCollected, ThreadsOK
<1>6. CursorsAreDelivered
  BY <1>2 DEF CursorsAreDelivered, Delivered, Init, FreshState, NoCursor
<1>7. DeliveredOnce
  BY <1>2 DEF DeliveredOnce
<1> QED
  BY <1>4, <1>5, <1>6, <1>7 DEF IInv

LEMMA ChangeKeeps == ASSUME IInv, NEW i \in Items, Change(i) PROVE IInv'
<1> USE DEF Change
<1>1. TypeOK'
  <2>1. now \in Nat /\ changed' \in [Items -> Nat] /\ {runs, changes', ticks, errors} \subseteq Nat
    BY DEF IInv, TypeOK
  <2>2. slipped' \in BOOLEAN
    BY Zenon DEF IInv, TypeOK
  <2> QED
    BY <2>1, <2>2 DEF IInv, TypeOK
<1>2. AttemptsCount' /\ PresentIsCollected' /\ ThreadsOK'
  BY DEF IInv, AttemptsCount, PresentIsCollected, ThreadsOK, Present
<1>3. CursorsAreDelivered' /\ DeliveredOnce'
  BY DeliveryFrame DEF IInv, history
<1> QED
  BY <1>1, <1>2, <1>3 DEF IInv

LEMMA TickKeeps == ASSUME IInv, Tick PROVE IInv'
<1> USE DEF Tick
<1>1. TypeOK'
  BY DEF IInv, TypeOK
<1>2. AttemptsCount' /\ PresentIsCollected' /\ ThreadsOK'
  BY DEF IInv, AttemptsCount, PresentIsCollected, ThreadsOK, Present
<1>3. CursorsAreDelivered' /\ DeliveredOnce'
  BY DeliveryFrame DEF IInv
<1> QED
  BY <1>1, <1>2, <1>3 DEF IInv

(* A request, answered or not. *)
LEMMA RequestsKeep ==
    ASSUME IInv, NEW n \in 1 .. Len(threads), Request(n) \/ RequestFails(n)
    PROVE  IInv'
<1>1. changed \in [Items -> Nat] /\ ThreadOK(threads[n]) /\ threads[n].status = "running"
  BY DEF IInv, TypeOK, ThreadsOK, Request, RequestFails
<1>2. PICK t : Continues(threads[n], t) /\ Progress(n, t)
  BY <1>1, AnswerContinues DEF Request, RequestFails
<1>3. /\ UNCHANGED <<upstream, order, kept, state, pc, records, given, attempt, history, runs>>
      /\ errors' \in Nat
  BY DEF Request, RequestFails, IInv, TypeOK
<1>4. /\ threads' \in Seq(Thread)
      /\ \A m \in 1 .. Len(threads') : ThreadOK(threads'[m])
      /\ \A m \in 1 .. Len(threads') :
            threads'[m].status # "running" => pc = "waiting" /\ m = Len(threads')
      /\ pc = "waiting" =>
            /\ threads' # << >>
            /\ threads'[Len(threads')].source = threads[Len(threads)].source
            /\ threads'[Len(threads')].cursor = threads[Len(threads)].cursor
  BY <1>1, <1>2, ProgressFacts DEF IInv
<1>5. TypeOK'
  BY <1>3, <1>4 DEF IInv, TypeOK, upstream, history
<1>6. AttemptsCount'
  BY <1>3 DEF IInv, AttemptsCount
<1>7. PresentIsCollected'
  BY <1>3, <1>4 DEF IInv, PresentIsCollected, Present
<1>8. ThreadsOK'
  BY <1>4 DEF ThreadsOK
<1>9. CursorsAreDelivered' /\ DeliveredOnce'
  BY <1>3, DeliveryFrame DEF IInv, history
<1> QED
  BY <1>5, <1>6, <1>7, <1>8, <1>9 DEF IInv

LEMMA StartRunKeeps == ASSUME IInv, StartRun PROVE IInv'
<1>1. /\ pc = "idle" /\ pc' = "source" /\ records' = << >> /\ runs' = runs + 1
      /\ state' = IF kept THEN state ELSE FreshState
      /\ UNCHANGED <<upstream, order, kept, given, attempt, threads, history, errors>>
  BY DEF StartRun
<1>2. FreshState \in [cursors : [Sources -> Cursor], allowed : [Sources -> Nat]]
  BY DEF FreshState, NoCursor, Cursor
<1>3. state' \in [cursors : [Sources -> Cursor], allowed : [Sources -> Nat]]
  BY <1>1, <1>2 DEF IInv, TypeOK
<1>4. Len(records') = 0 /\ records' \in Seq(Record) /\ Len(records') < Len(order)
  <2>1. order \in Seq(Sources) /\ order # << >>
    BY ConfigurationAssumption DEF IInv, TypeOK
  <2>2. Len(order) \in Nat /\ Len(order) # 0
    BY <2>1, EmptySeq, LenProperties
  <2> QED
    BY <1>1, <2>2, EmptySeq
<1>5. TypeOK'
  BY <1>1, <1>3, <1>4 DEF IInv, TypeOK, upstream, history
<1>6. AttemptsCount' /\ PresentIsCollected'
  BY <1>1 DEF IInv, AttemptsCount, PresentIsCollected
<1>7. ThreadsOK'
  BY <1>1 DEF IInv, ThreadsOK
<1>8. CursorsAreDelivered' /\ DeliveredOnce'
  <2>1. CASE kept
    BY <1>1, <2>1, DeliveryFrame DEF IInv, history
  <2>2. CASE ~ kept
    BY <1>1, <2>2 DEF CursorsAreDelivered, DeliveredOnce, FreshState, NoCursor
  <2> QED
    BY <2>1, <2>2
<1> QED
  BY <1>5, <1>6, <1>7, <1>8 DEF IInv

LEMMA SkipKeeps == ASSUME IInv, Skip PROVE IInv'
<1>1. /\ pc = "source" /\ Report("skipped", 0)
      /\ UNCHANGED <<upstream, order, kept, state, threads, history, runs, errors>>
  BY DEF Skip
<1>2. /\ records' \in Seq(Record)
      /\ pc' \in {"idle", "source"}
      /\ pc' # "idle" => Len(records') < Len(order)
      /\ given' \in Cursor
      /\ attempt' = 0
  BY <1>1, ReportFacts DEF IInv
<1>3. TypeOK'
  BY <1>1, <1>2, Numbers DEF IInv, TypeOK, upstream, history
<1>4. AttemptsCount' /\ PresentIsCollected' /\ ThreadsOK'
  BY <1>1, <1>2 DEF IInv, AttemptsCount, PresentIsCollected, ThreadsOK
<1>5. CursorsAreDelivered' /\ DeliveredOnce'
  BY <1>1, DeliveryFrame DEF IInv, history
<1> QED
  BY <1>3, <1>4, <1>5 DEF IInv

LEMMA BeginKeeps == ASSUME IInv, Begin PROVE IInv'
<1>1. /\ pc = "source" /\ pc' = "waiting" /\ attempt' = attempt + 1
      /\ Present \in Enabled /\ ConnectorOf[Present] # NoConnector
      /\ given' = state.cursors[Present]
      /\ Submit(state.cursors[Present], now')
      /\ UNCHANGED <<changed, order, kept, state, records, log, slipped,
                     runs, changes, ticks, errors>>
  BY DEF Begin, Submit
<1>2. Present \in Sources /\ Present' = Present
  BY <1>1, PresentType DEF IInv, Present
<1>3. state.cursors[Present] \in Cursor /\ ConnectorOf[Present] \in Connectors
  BY <1>1, <1>2, ConfigurationAssumption DEF IInv, TypeOK
<1>4. now' \in Nat
  BY <1>2 DEF Begin, IInv, TypeOK
<1>5. /\ threads' \in Seq(Thread) /\ threads' # << >>
      /\ \A m \in 1 .. Len(threads') : ThreadOK(threads'[m])
      /\ \A m \in 1 .. Len(threads') : threads'[m].status = "running"
      /\ threads'[Len(threads')].source = Present
      /\ threads'[Len(threads')].cursor = state.cursors[Present]
      /\ since' \in [Sources -> Nat]
  BY <1>1, <1>3, <1>4, SubmitFacts DEF IInv
<1>6. attempt' = 1 /\ attempt' \in 0 .. Retries + 1
  BY <1>1, Numbers DEF IInv, AttemptsCount
<1>7. TypeOK'
  BY <1>1, <1>3, <1>4, <1>5, <1>6 DEF IInv, TypeOK
<1>8. AttemptsCount' /\ ThreadsOK'
  BY <1>1, <1>5, <1>6 DEF AttemptsCount, ThreadsOK
<1>9. PresentIsCollected'
  BY <1>1, <1>2, <1>3, <1>5 DEF PresentIsCollected
<1>10. CursorsAreDelivered' /\ DeliveredOnce'
  BY <1>1, DeliveryFrame DEF IInv
<1> QED
  BY <1>7, <1>8, <1>9, <1>10 DEF IInv

LEMMA RetryKeeps == ASSUME IInv, Retry PROVE IInv'
<1>1. /\ pc = "backoff" /\ pc' = "waiting" /\ attempt' = attempt + 1
      /\ Submit(given, now')
      /\ UNCHANGED <<changed, order, kept, state, records, given, log, slipped,
                     runs, changes, ticks, errors>>
  BY DEF Retry, Submit
<1>2. Present \in Sources /\ Present' = Present
  BY <1>1, PresentType DEF IInv, Present
<1>3. given \in Cursor /\ ConnectorOf[Present] \in Connectors /\ given = state.cursors[Present]
  BY <1>1 DEF IInv, TypeOK, PresentIsCollected
<1>4. now' \in Nat
  <2>1. Sleep \in Nat
    BY Numbers DEF Sleep
  <2> QED
    BY <2>1 DEF Retry, IInv, TypeOK
<1>5. /\ threads' \in Seq(Thread) /\ threads' # << >>
      /\ \A m \in 1 .. Len(threads') : ThreadOK(threads'[m])
      /\ \A m \in 1 .. Len(threads') : threads'[m].status = "running"
      /\ threads'[Len(threads')].source = Present
      /\ threads'[Len(threads')].cursor = given
      /\ since' \in [Sources -> Nat]
  BY <1>1, <1>3, <1>4, SubmitFacts DEF IInv
<1>6. attempt' \in 1 .. Retries + 1
  BY <1>1, Numbers DEF IInv, AttemptsCount
<1>7. TypeOK'
  <2>1. attempt' \in 0 .. Retries + 1
    BY <1>6, Numbers
  <2> QED
    BY <1>1, <1>4, <1>5, <2>1 DEF IInv, TypeOK
<1>8. AttemptsCount' /\ ThreadsOK'
  BY <1>1, <1>5, <1>6, Numbers DEF AttemptsCount, ThreadsOK
<1>9. PresentIsCollected'
  BY <1>1, <1>2, <1>3, <1>5 DEF PresentIsCollected
<1>10. CursorsAreDelivered' /\ DeliveredOnce'
  BY <1>1, DeliveryFrame DEF IInv
<1> QED
  BY <1>7, <1>8, <1>9, <1>10 DEF IInv

(* After a failed attempt, whatever becomes of its thread. *)
LEMMA AfterFailureKeeps ==
    ASSUME IInv, pc = "waiting", AfterFailure,
           UNCHANGED <<upstream, order, kept, history, runs, errors>>,
           threads' \in Seq(Thread),
           \A n \in 1 .. Len(threads') : ThreadOK(threads'[n]) /\ threads'[n].status = "running"
    PROVE  IInv'
<1>1. Present \in Sources
  BY PresentType DEF IInv
<1>2. ThreadsOK'
  BY DEF ThreadsOK
<1>3. \A s \in Sources : state'.cursors[s] = state.cursors[s]
  BY DEF AfterFailure, IInv, TypeOK
<1>4. CursorsAreDelivered' /\ DeliveredOnce'
  BY <1>3, DeliveryFrame DEF IInv, history
<1>5. CASE attempt <= Retries
  <2>1. pc' = "backoff" /\ UNCHANGED <<state, records, given, attempt>>
    BY <1>5 DEF AfterFailure
  <2>2. TypeOK'
    BY <2>1 DEF IInv, TypeOK, upstream, history
  <2>3. attempt # 0
    BY DEF IInv, AttemptsCount
  <2>4. AttemptsCount'
    BY <1>5, <2>1, <2>3, Numbers DEF IInv, TypeOK, AttemptsCount
  <2>5. PresentIsCollected'
    BY <2>1 DEF IInv, PresentIsCollected, Present
  <2> QED
    BY <1>2, <1>4, <2>2, <2>4, <2>5 DEF IInv
<1>6. CASE ~ (attempt <= Retries)
  <2>1. /\ state' = [state EXCEPT !.allowed[Present] = now + Interval]
        /\ Report("failed", attempt)
    BY <1>6 DEF AfterFailure
  <2>2. attempt \in Nat
    BY Numbers DEF IInv, TypeOK
  <2>3. /\ records' \in Seq(Record)
        /\ pc' \in {"idle", "source"}
        /\ pc' # "idle" => Len(records') < Len(order)
        /\ given' \in Cursor
        /\ attempt' = 0
    BY <2>1, <2>2, ReportFacts DEF IInv
  <2>4. now \in Nat /\ now + Interval \in Nat
    <3>1. now \in Nat
      BY DEF IInv, TypeOK
    <3> QED
      BY <3>1, Numbers
  <2>5. state' \in [cursors : [Sources -> Cursor], allowed : [Sources -> Nat]]
    BY <1>1, <2>1, <2>4 DEF IInv, TypeOK
  <2>6. TypeOK'
    BY <2>3, <2>5, Numbers DEF IInv, TypeOK, upstream, history
  <2>7. AttemptsCount' /\ PresentIsCollected'
    BY <2>3 DEF AttemptsCount, PresentIsCollected
  <2> QED
    BY <1>2, <1>4, <2>6, <2>7 DEF IInv
<1> QED
  BY <1>5, <1>6

LEMMA AttemptFailsKeeps == ASSUME IInv, AttemptFails PROVE IInv'
<1> DEFINE front == SubSeq(threads, 1, Len(threads) - 1)
<1>1. /\ pc = "waiting" /\ threads' = front /\ AfterFailure
      /\ UNCHANGED <<upstream, order, kept, history, runs, errors>>
  BY DEF AttemptFails
<1>2. threads \in Seq(Thread) /\ threads # << >>
  BY <1>1 DEF IInv, TypeOK
<1>3. /\ front \in Seq(Thread) /\ Len(threads) \in Nat \ {0} /\ Len(front) = Len(threads) - 1
      /\ \A n \in 1 .. Len(threads) - 1 : front[n] = threads[n]
  BY <1>2, FrontFacts
<1> HIDE DEF front
<1>4. \A n \in 1 .. Len(threads') : ThreadOK(threads'[n]) /\ threads'[n].status = "running"
  BY <1>1, <1>3 DEF IInv, TypeOK, ThreadsOK
<1> QED
  BY <1>1, <1>3, <1>4, AfterFailureKeeps

LEMMA TimeOutKeeps == ASSUME IInv, TimeOut PROVE IInv'
<1>1. /\ pc = "waiting" /\ threads[Len(threads)].status = "running" /\ AfterFailure
      /\ UNCHANGED <<upstream, order, kept, threads, history, runs, errors>>
  BY DEF TimeOut
<1>2. \A n \in 1 .. Len(threads) : ThreadOK(threads[n]) /\ threads[n].status = "running"
  BY <1>1 DEF IInv, TypeOK, ThreadsOK
<1>3. threads' = threads /\ threads \in Seq(Thread)
  BY <1>1 DEF IInv, TypeOK
<1> QED
  BY <1>1, <1>2, <1>3, AfterFailureKeeps

LEMMA SucceedKeeps == ASSUME IInv, Succeed PROVE IInv'
<1> DEFINE t == threads[Len(threads)]
           front == SubSeq(threads, 1, Len(threads) - 1)
           cursor == CursorAfter(t)
<1>1. /\ pc = "waiting" /\ threads' = front /\ Report("success", attempt)
      /\ state' = [cursors |-> [state.cursors EXCEPT ![Present] = cursor],
                   allowed |-> [state.allowed EXCEPT ![Present] = now + Interval]]
      /\ log' = [log EXCEPT ![Present] = Append(@, t.read)]
      /\ UNCHANGED <<upstream, order, kept, since, slipped, runs, errors>>
  BY DEF Succeed
<1>2. Len(threads) \in 1 .. Len(threads) /\ t \in Thread
  BY <1>1, LastThread DEF IInv
<1>3. Present \in Sources
  BY <1>1, PresentType DEF IInv
<1>present. PICK p \in Sources : p = Present
  BY <1>3
<1>4. ThreadOK(t) /\ t.source = p /\ t.cursor = state.cursors[p]
  BY <1>1, <1>2, <1>present DEF IInv, ThreadsOK, PresentIsCollected
<1>5. cursor \in Cursor /\ (Recalls(p) => cursor.seen = t.cursor.seen \cup Got(t.read))
  BY <1>4, CursorAfterType, CursorAfterRecalls
<1>6. threads \in Seq(Thread) /\ threads # << >>
  BY <1>1 DEF IInv, TypeOK
<1>7. /\ front \in Seq(Thread) /\ Len(threads) \in Nat \ {0} /\ Len(front) = Len(threads) - 1
      /\ \A n \in 1 .. Len(threads) - 1 : front[n] = threads[n]
  BY <1>6, FrontFacts
<1>8. t.read \in Reading
  BY <1>2 DEF Thread
<1> HIDE DEF front, cursor, t
<1>9. \A n \in 1 .. Len(threads') : ThreadOK(threads'[n]) /\ threads'[n].status = "running"
  <2>1. \A n \in 1 .. Len(threads) :
           ThreadOK(threads[n]) /\ (n # Len(threads) => threads[n].status = "running")
    BY DEF IInv, TypeOK, ThreadsOK
  <2>2. threads' = front
    BY <1>1
  <2> QED
    BY <1>7, <2>1, <2>2
<1>10. attempt \in Nat
  BY Numbers DEF IInv, TypeOK
<1>11. /\ records' \in Seq(Record)
       /\ pc' \in {"idle", "source"}
       /\ pc' # "idle" => Len(records') < Len(order)
       /\ given' \in Cursor
       /\ attempt' = 0
  BY <1>1, <1>10, ReportFacts DEF IInv
<1>12. \A s \in Sources : s # p => log'[s] = log[s]
  BY <1>1, <1>present DEF IInv, TypeOK
<1>13. log[p] \in Seq(Reading) /\ log'[p] = Append(log[p], t.read)
  BY <1>1, <1>present, <1>3 DEF IInv, TypeOK
<1>14. /\ log'[p] \in Seq(Reading) /\ Len(log[p]) \in Nat
       /\ Len(log'[p]) = Len(log[p]) + 1
       /\ \A n \in 1 .. Len(log[p]) : log'[p][n] = log[p][n]
       /\ log'[p][Len(log[p]) + 1] = t.read
  BY <1>8, <1>13, AppendFacts
<1>15. TypeOK'
  <2>1. now + Interval \in Nat
    <3>1. now \in Nat
      BY DEF IInv, TypeOK
    <3> QED
      BY <3>1, Numbers
  <2>2. state' \in [cursors : [Sources -> Cursor], allowed : [Sources -> Nat]]
    BY <1>1, <1>present, <1>3, <1>5, <2>1 DEF IInv, TypeOK
  <2>3. log' \in [Sources -> Seq(Reading)]
    BY <1>1, <1>present, <1>3, <1>13, <1>14 DEF IInv, TypeOK
  <2> QED
    BY <1>1, <1>7, <1>9, <1>11, <2>2, <2>3, Numbers DEF IInv, TypeOK, upstream
<1>16. AttemptsCount' /\ PresentIsCollected' /\ ThreadsOK'
  BY <1>9, <1>11 DEF AttemptsCount, PresentIsCollected, ThreadsOK
<1>17. /\ \A s \in Sources : s # p => Delivered(s)' = Delivered(s)
       /\ Delivered(p)' = Delivered(p) \cup Got(t.read)
  <2>1. \A s \in Sources : s # p => Delivered(s)' = Delivered(s)
    BY <1>12 DEF Delivered
  <2>2. Got(t.read) \subseteq Items
    BY DEF Got
  <2>3. \A n \in 1 .. Len(log'[p]) :
           n \in 1 .. Len(log[p]) \/ n = Len(log[p]) + 1
    BY <1>14
  <2>4. Len(log[p]) + 1 \in 1 .. Len(log'[p])
        /\ \A n \in 1 .. Len(log[p]) : n \in 1 .. Len(log'[p])
    BY <1>14
  <2>5. ASSUME NEW i \in Items
        PROVE  (\E n \in 1 .. Len(log'[p]) : i \in Got(log'[p][n]))
                  <=> (i \in Got(t.read)
                       \/ \E n \in 1 .. Len(log[p]) : i \in Got(log[p][n]))
    BY <1>14, <2>3, <2>4
  <2>7. {i \in Items : \E n \in 1 .. Len(log'[p]) : i \in Got(log'[p][n])}
          = Delivered(p) \cup Got(t.read)
    BY <2>2, <2>5 DEF Delivered
  <2> QED
    BY <2>1, <2>7 DEF Delivered
<1>18. \A s \in Sources : s # p => state'.cursors[s] = state.cursors[s]
  BY <1>1, <1>present DEF IInv, TypeOK
<1>19. state'.cursors[p] = cursor
  BY <1>1, <1>present, <1>3 DEF IInv, TypeOK
<1>20. CursorsAreDelivered'
  BY <1>1, <1>4, <1>5, <1>17, <1>18, <1>19 DEF IInv, CursorsAreDelivered
<1>21. DeliveredOnce'
  <2> SUFFICES ASSUME NEW s \in Sources, Recalls(s), kept,
                      NEW n \in 1 .. Len(log'[s]), NEW m \in 1 .. Len(log'[s]), n # m
               PROVE  Got(log'[s][n]) \cap Got(log'[s][m]) = {}
    BY <1>1 DEF DeliveredOnce
  <2>1. CASE s # p
    BY <1>12, <2>1 DEF IInv, DeliveredOnce
  <2>2. CASE s = p
    <3>1. Got(t.read) \cap Delivered(p) = {}
      <4>1. Got(t.read) \cap t.cursor.seen = {}
        BY <1>4, <2>2 DEF ThreadOK
      <4>2. Delivered(p) \subseteq t.cursor.seen
        BY <1>4, <2>2 DEF IInv, CursorsAreDelivered
      <4> QED
        BY <4>1, <4>2
    <3>2. \A k \in 1 .. Len(log[p]) : Got(log[p][k]) \subseteq Delivered(p)
      BY DEF Delivered, Got
    <3>3. \A k \in 1 .. Len(log'[p]) :
             \/ k = Len(log[p]) + 1 /\ log'[p][k] = t.read
             \/ k \in 1 .. Len(log[p]) /\ log'[p][k] = log[p][k]
      BY <1>14
    <3>4. \A k, l \in 1 .. Len(log[p]) : k # l => Got(log[p][k]) \cap Got(log[p][l]) = {}
      BY <2>2 DEF IInv, DeliveredOnce
    <3>5. CASE n \in 1 .. Len(log[p]) /\ m \in 1 .. Len(log[p])
      BY <1>14, <2>2, <3>4, <3>5
    <3>6. CASE n = Len(log[p]) + 1 /\ m \in 1 .. Len(log[p])
      BY <1>14, <2>2, <3>1, <3>2, <3>6
    <3>7. CASE n \in 1 .. Len(log[p]) /\ m = Len(log[p]) + 1
      BY <1>14, <2>2, <3>1, <3>2, <3>7
    <3> QED
      BY <2>2, <3>3, <3>5, <3>6, <3>7
  <2> QED
    BY <2>1, <2>2
<1> QED
  BY <1>15, <1>16, <1>20, <1>21 DEF IInv

-----------------------------------------------------------------------------
LEMMA StepInvariant == IInv /\ [Next]_vars => IInv'
<1> SUFFICES ASSUME IInv, [Next]_vars PROVE IInv'
  OBVIOUS
<1>1. CASE \E i \in Items : Change(i)
  BY <1>1, ChangeKeeps
<1>2. CASE Tick
  BY <1>2, TickKeeps
<1>3. CASE \E n \in 1 .. Len(threads) : Request(n) \/ RequestFails(n)
  BY <1>3, RequestsKeep
<1>4. CASE StartRun
  BY <1>4, StartRunKeeps
<1>5. CASE Skip
  BY <1>5, SkipKeeps
<1>6. CASE Begin
  BY <1>6, BeginKeeps
<1>7. CASE Succeed
  BY <1>7, SucceedKeeps
<1>8. CASE AttemptFails
  BY <1>8, AttemptFailsKeeps
<1>9. CASE TimeOut
  BY <1>9, TimeOutKeeps
<1>10. CASE Retry
  BY <1>10, RetryKeeps
<1>11. CASE UNCHANGED vars
  <2> USE <1>11 DEF vars
  <2>1. TypeOK'
    BY DEF IInv, TypeOK
  <2>2. AttemptsCount' /\ PresentIsCollected' /\ ThreadsOK'
    BY DEF IInv, AttemptsCount, PresentIsCollected, ThreadsOK, Present
  <2>3. CursorsAreDelivered' /\ DeliveredOnce'
    BY DeliveryFrame DEF IInv
  <2> QED
    BY <2>1, <2>2, <2>3 DEF IInv
<1> QED
  BY <1>1, <1>2, <1>3, <1>4, <1>5, <1>6, <1>7, <1>8, <1>9, <1>10, <1>11 DEF Next, Worker

(* What is kept through every behaviour of the runtime. *)
THEOREM Invariance == Spec => []IInv
BY InitInvariant, StepInvariant, PTL DEF Spec

(* The runtime's state is well-formed for every configuration: there is at  *)
(* most one thread that anybody waits for, and it is the last that began.   *)
THEOREM TypeCorrectness == Spec => []TypeOK
<1>1. IInv => TypeOK
  BY DEF IInv
<1> QED
  BY <1>1, Invariance, PTL

(* However attempts fail, hang or answer late, a campaign that a cursor     *)
(* passes over was delivered by a successful record, and a kept state never *)
(* lets one be delivered twice (NhtsaRecallsConnector.collect).             *)
THEOREM CampaignsAreDeliveredOnce == Spec => []CampaignsOnce
<1>1. IInv => CampaignsOnce
  BY DEF IInv, CursorsAreDelivered, DeliveredOnce, Delivered, Recalls, CampaignsOnce
<1> QED
  BY <1>1, Invariance, PTL

(* An attempt is waited for with the cursor that its run began with, which  *)
(* no thread changes, and never goes past what the retry policy allows.     *)
THEOREM AttemptsAreBounded ==
    Spec => [](pc = "waiting" => /\ attempt \in 1 .. Retries + 1
                                 /\ given = state.cursors[Present])
<1>1. IInv => (pc = "waiting" => /\ attempt \in 1 .. Retries + 1
                                 /\ given = state.cursors[Present])
  <2> SUFFICES ASSUME IInv, pc = "waiting"
               PROVE  attempt \in 1 .. Retries + 1 /\ given = state.cursors[Present]
    OBVIOUS
  <2>1. attempt \in 0 .. Retries + 1 /\ attempt # 0
    BY DEF IInv, TypeOK, AttemptsCount
  <2> QED
    BY <2>1, Numbers DEF IInv, PresentIsCollected
<1> QED
  BY <1>1, Invariance, PTL

-----------------------------------------------------------------------------
(* Nothing is missed.  The windows of the NVD are spoken of by what the     *)
(* items' dates of change are, so that one can compare two moments.         *)
Paged(s) == ConnectorOf[s] = "nvd"

HitsIn(dates, s, from, to) ==
    {i \in Items : dates[i] \in (from .. to) \ {0} /\ i \in Endpoints[s][1]}

(* Of the items last changed from one date up to another, all are caught.   *)
Complete(dates, s, caught, start, end) ==
    \A i \in Endpoints[s][1] : dates[i] \in (start .. end - 1) \ {0} => i \in caught

(* Of the hits of a window, the first k are caught, unless they have just   *)
(* changed.                                                                 *)
UpTo(dates, s, caught, from, to, k) ==
    \A i \in HitsIn(dates, s, from, to) :
        Place(i, HitsIn(dates, s, from, to)) <= k /\ dates[i] < to => i \in caught

(* What the records of a source have brought, as it is now, and what a call *)
(* has in hand.                                                             *)
Caught(s) == {i \in Items : \E n \in 1 .. Len(log[s]) : log[s][n][i] = changed[i]}
InHand(t) == {i \in Items : t.read[i] = changed[i]}

CursorIsHonest(s) ==
    LET c == state.cursors[s] IN
    /\ c.from <= now /\ c.to <= now
    /\ c.next # 0 => c.to # 0
    /\ c.to # 0 /\ ~ slipped =>
         IF c.next = 0 THEN Complete(changed, s, Caught(s), since[s], c.to)
         ELSE /\ Complete(changed, s, Caught(s), since[s], c.from)
              /\ UpTo(changed, s, Caught(s), c.from, c.to, c.next)

CallIsHonest(t) ==
    LET caught == Caught(t.source) \cup InHand(t) IN
    /\ t.to # 0 /\ t.from <= now /\ t.to <= now
    /\ ~ slipped =>
         IF t.status = "answered" /\ t.next = 0
         THEN Complete(changed, t.source, caught, since[t.source], t.to)
         ELSE /\ Complete(changed, t.source, caught, since[t.source], t.from)
              /\ UpTo(changed, t.source, caught, t.from, t.to, t.next)

Waited == threads[Len(threads)]

WindowInv ==
    /\ now # 0
    /\ \A s \in Sources : Paged(s) => CursorIsHonest(s)
    /\ \A t \in Thread : pc = "waiting" /\ t = Waited /\ Paged(t.source) => CallIsHonest(t)

(* The hits of a window are finitely many and each has its place.           *)
LEMMA HitsFacts ==
    ASSUME NEW dates, NEW s, NEW from, NEW to
    PROVE  LET hits == HitsIn(dates, s, from, to) IN
           /\ hits \subseteq Items /\ hits \subseteq Nat /\ IsFiniteSet(hits)
           /\ Cardinality(hits) \in Nat
           /\ \A i \in hits : /\ Place(i, hits) \in Nat
                              /\ 0 < Place(i, hits) /\ Place(i, hits) <= Cardinality(hits)
<1> DEFINE hits == HitsIn(dates, s, from, to)
<1>1. hits \subseteq Items /\ hits \subseteq Nat /\ IsFiniteSet(hits)
  BY ConfigurationAssumption, FS_Subset DEF HitsIn
<1> HIDE DEF hits
<1>2. Cardinality(hits) \in Nat
  BY <1>1, FS_CardinalityType
<1>3. ASSUME NEW i \in hits
      PROVE  /\ Place(i, hits) \in Nat
             /\ 0 < Place(i, hits) /\ Place(i, hits) <= Cardinality(hits)
  <2> DEFINE before == {j \in hits : j <= i}
  <2>1. before \in SUBSET hits
    OBVIOUS
  <2>2. i \in before
    BY <1>1
  <2>3. Place(i, hits) = Cardinality(before)
    BY DEF Place
  <2> HIDE DEF before
  <2>4. IsFiniteSet(before) /\ Cardinality(before) <= Cardinality(hits)
    BY <1>1, <2>1, FS_Subset
  <2>5. Cardinality(before) \in Nat /\ Cardinality(before) # 0
    BY <2>2, <2>4, FS_CardinalityType, FS_EmptySet
  <2> QED BY <2>3, <2>4, <2>5
<1> QED BY <1>1, <1>2, <1>3 DEF hits

(* Places go by number. *)
LEMMA PlacesRise ==
    ASSUME NEW hits, hits \subseteq Nat, IsFiniteSet(hits),
           NEW i \in hits, NEW j \in hits, i < j
    PROVE  /\ Place(i, hits) \in Nat /\ Place(j, hits) \in Nat
           /\ Place(i, hits) < Place(j, hits)
<1> DEFINE upto(k) == {m \in hits : m <= k}
<1>1. upto(i) \in SUBSET hits /\ upto(j) \in SUBSET hits
  OBVIOUS
<1>2. upto(i) \in SUBSET (upto(j) \ {j}) /\ j \in upto(j)
  <2>1. i \in Nat /\ j \in Nat
    OBVIOUS
  <2>2. ASSUME NEW m \in upto(i) PROVE m \in upto(j) /\ m # j
    <3>1. m \in hits /\ m <= i /\ m \in Nat
      OBVIOUS
    <3> QED BY <2>1, <3>1
  <2>3. j \in upto(j)
    BY <2>1
  <2> HIDE DEF upto
  <2> QED BY <2>2, <2>3
<1>3. Place(i, hits) = Cardinality(upto(i)) /\ Place(j, hits) = Cardinality(upto(j))
  BY DEF Place
<1> HIDE DEF upto
<1>4. IsFiniteSet(upto(i)) /\ IsFiniteSet(upto(j))
  BY <1>1, FS_Subset
<1>5. Cardinality(upto(i)) \in Nat /\ Cardinality(upto(j)) \in Nat
  BY <1>4, FS_CardinalityType
<1>6. IsFiniteSet(upto(j) \ {j}) /\ Cardinality(upto(j) \ {j}) = Cardinality(upto(j)) - 1
  BY <1>2, <1>4, FS_RemoveElement
<1>7. Cardinality(upto(i)) <= Cardinality(upto(j)) - 1
  BY <1>2, <1>6, FS_Subset
<1> QED BY <1>3, <1>5, <1>7

(* A window with hits has a first one. *)
LEMMA FirstPlace ==
    ASSUME NEW hits, hits \subseteq Nat, IsFiniteSet(hits), hits # {}
    PROVE  \E i \in hits : Place(i, hits) = 1
<1> DEFINE upto(k) == {m \in hits : m <= k}
           R == StrictSubsetOrdering(hits)
           T == {upto(k) : k \in hits}
<1>1. IsWellFoundedOn(R, SUBSET hits)
  BY FS_FiniteSubsetsOfFinite, FS_StrictSubsetOrderingWellFounded
<1>2. T \subseteq SUBSET hits /\ T # {}
  OBVIOUS
<1>3. PICK least \in T : \A other \in T : <<other, least>> \notin R
  <2> HIDE DEF R, T
  <2> QED BY <1>1, <1>2, WFMin
<1>4. PICK i \in hits : least = upto(i)
  OBVIOUS
<1>5. ASSUME NEW j \in upto(i) PROVE j = i
  <2> SUFFICES ASSUME j # i PROVE FALSE
    OBVIOUS
  <2>1. j \in hits /\ j \in Nat /\ i \in Nat /\ j < i
    <3>1. j \in hits /\ j <= i
      BY <1>5
    <3>2. j \in Nat /\ i \in Nat
      BY <3>1
    <3> QED BY <3>1, <3>2
  <2>2. upto(j) \subseteq upto(i) /\ i \in upto(i) /\ i \notin upto(j)
    <3>1. ASSUME NEW m \in upto(j) PROVE m \in upto(i)
      <4>1. m \in hits /\ m <= j /\ m \in Nat
        OBVIOUS
      <4> QED BY <2>1, <4>1
    <3>2. i \in upto(i) /\ i \notin upto(j)
      BY <2>1
    <3> QED BY <3>1, <3>2
  <2>3. <<upto(j), upto(i)>> \in R
    BY <2>1, <2>2 DEF StrictSubsetOrdering
  <2> QED BY <1>3, <1>4, <2>1, <2>3
<1>6. upto(i) = {i}
  <2>1. i \in Nat
    OBVIOUS
  <2>2. i \in upto(i)
    BY <2>1
  <2> QED BY <1>5, <2>2
<1>7. Place(i, hits) = Cardinality({i})
  BY <1>6 DEF Place
<1> QED BY <1>7, FS_Singleton

(* The entries of a page. *)
IsPage(page, hits, k, size) == page = {i \in hits : Place(i, hits) \in k + 1 .. k + size}

(* A page has no more entries than it may. *)
LEMMA PageIsBounded ==
    ASSUME NEW hits, hits \subseteq Nat, IsFiniteSet(hits), NEW k \in Nat, NEW size \in Nat,
           NEW page, IsPage(page, hits, k, size)
    PROVE  Cardinality(page) \in Nat /\ Cardinality(page) <= size
<1> DEFINE f == [i \in page |-> Place(i, hits)]
<1> USE DEF IsPage
<1>1. page \in SUBSET hits
  OBVIOUS
<1>2. f \in [page -> k + 1 .. k + size]
  OBVIOUS
<1>3. \A i, j \in page : f[i] = f[j] => i = j
  <2> SUFFICES ASSUME NEW i \in page, NEW j \in page, i # j PROVE f[i] # f[j]
    OBVIOUS
  <2>1. i \in hits /\ j \in hits /\ f[i] = Place(i, hits) /\ f[j] = Place(j, hits)
    OBVIOUS
  <2> HIDE DEF f
  <2>2. i \in Nat /\ j \in Nat
    BY <2>1
  <2>3. CASE i < j
    <3>1. /\ Place(i, hits) \in Nat /\ Place(j, hits) \in Nat
          /\ Place(i, hits) < Place(j, hits)
      BY <2>1, <2>3, PlacesRise
    <3> QED BY <2>1, <3>1
  <2>4. CASE j < i
    <3>1. /\ Place(j, hits) \in Nat /\ Place(i, hits) \in Nat
          /\ Place(j, hits) < Place(i, hits)
      BY <2>1, <2>4, PlacesRise
    <3> QED BY <2>1, <3>1
  <2> QED BY <2>2, <2>3, <2>4
<1> HIDE DEF f
<1>4. f \in Injection(page, k + 1 .. k + size)
  BY <1>2, <1>3 DEF Injection, IsInjective
<1>5. IsFiniteSet(k + 1 .. k + size) /\ Cardinality(k + 1 .. k + size) = size
  <2>1. k + 1 \in Int /\ k + size \in Int
    OBVIOUS
  <2>2. /\ IsFiniteSet(k + 1 .. k + size)
        /\ Cardinality(k + 1 .. k + size) =
             IF k + 1 > k + size THEN 0 ELSE k + size - (k + 1) + 1
    BY <2>1, FS_Interval
  <2> QED BY <2>2
<1>6. IsFiniteSet(page) /\ Cardinality(page) <= size
  BY <1>4, <1>5, FS_Injection
<1> QED BY <1>6, FS_CardinalityType

(* An item that changes leaves a window as far as it has been read, and     *)
(* takes no other out of it, unless it slips.                               *)
LEMMA ChangedUpTo ==
    ASSUME NEW dates \in [Items -> Nat], NEW s, NEW from \in Nat, NEW to \in Nat, NEW k \in Nat,
           NEW time \in Nat \ {0}, to <= time, NEW i \in Items,
           ~ (/\ i \in HitsIn(dates, s, from, to)
              /\ Place(i, HitsIn(dates, s, from, to)) <= k
              /\ time \notin from .. to),
           NEW caught, NEW after, caught \ {i} \subseteq after,
           UpTo(dates, s, caught, from, to, k)
    PROVE  UpTo([dates EXCEPT ![i] = time], s, after, from, to, k)
<1> DEFINE new == [dates EXCEPT ![i] = time]
           old == HitsIn(dates, s, from, to)
           now2 == HitsIn(new, s, from, to)
<1>1. new[i] = time /\ (\A j \in Items : j # i => new[j] = dates[j])
  OBVIOUS
<1> HIDE DEF new
<1>2. /\ \A j \in Items : j # i => (j \in now2 <=> j \in old)
      /\ i \in old /\ time \in from .. to => i \in now2
      /\ now2 \subseteq Items /\ old \subseteq Items
  BY <1>1 DEF HitsIn
<1>3. /\ old \subseteq Nat /\ IsFiniteSet(old) /\ now2 \subseteq Nat /\ IsFiniteSet(now2)
  BY HitsFacts
<1>4. ~ (i \in old /\ Place(i, old) <= k /\ time \notin from .. to)
  OBVIOUS
<1>5. UpTo(dates, s, caught, from, to, k)
      <=> \A j \in old : Place(j, old) <= k /\ dates[j] < to => j \in caught
  BY DEF UpTo
<1>6. UpTo(new, s, after, from, to, k)
      <=> \A j \in now2 : Place(j, now2) <= k /\ new[j] < to => j \in after
  BY DEF UpTo
<1> HIDE DEF old, now2
<1> SUFFICES ASSUME NEW j \in now2, Place(j, now2) <= k, new[j] < to
             PROVE  j \in after
  BY <1>6 DEF new
<1>7. j # i /\ j \in Items
  BY <1>1, <1>2
<1>8. j \in old /\ dates[j] < to /\ j \in Nat /\ i \in Nat
  BY <1>1, <1>2, <1>3, <1>7, ConfigurationAssumption
<1> DEFINE before == {m \in old : m <= j}
           before2 == {m \in now2 : m <= j}
<1>9. /\ Place(j, old) = Cardinality(before) /\ Place(j, now2) = Cardinality(before2)
      /\ before \in SUBSET old /\ before2 \in SUBSET now2
  BY DEF Place
<1>10. /\ \A m : m # i => (m \in before <=> m \in before2)
       /\ i \in before <=> i \in old /\ i <= j
       /\ i \in before2 => i \in now2
       /\ i \in now2 /\ i <= j => i \in before2
  BY <1>2
<1> HIDE DEF before, before2
<1>11. IsFiniteSet(before) /\ IsFiniteSet(before2)
       /\ Cardinality(before) \in Nat /\ Cardinality(before2) \in Nat
  BY <1>3, <1>9, FS_Subset, FS_CardinalityType
<1>12. CASE before \subseteq before2
  <2>1. Cardinality(before) <= Cardinality(before2)
    BY <1>11, <1>12, FS_Subset
  <2>2. Place(j, old) <= k
    BY <1>9, <1>11, <2>1
  <2> QED BY <1>5, <1>7, <1>8, <2>2
<1>13. CASE ~ (before \subseteq before2)
  <2>1. i \in before /\ i \notin before2
    BY <1>10, <1>13
  <2>2. i \in old /\ i <= j /\ i \notin now2
    BY <1>10, <2>1
  <2>3. time \notin from .. to
    BY <1>2, <2>2
  <2>4. Place(i, old) \in Nat /\ Place(j, old) \in Nat /\ Place(i, old) < Place(j, old)
    <3>1. i < j
      BY <1>7, <1>8, <2>2
    <3> QED BY <1>3, <1>8, <2>2, <3>1, PlacesRise
  <2>5. before2 = before \ {i}
    BY <1>10, <2>1
  <2>6. Cardinality(before2) = Cardinality(before) - 1
    BY <1>11, <2>1, <2>5, FS_RemoveElement
  <2>7. Place(i, old) <= k
    BY <1>9, <2>4, <2>6
  <2> QED BY <1>4, <2>2, <2>3, <2>7
<1> QED BY <1>12, <1>13

LEMMA ChangedComplete ==
    ASSUME NEW dates \in [Items -> Nat], NEW s, Endpoints[s][1] \subseteq Items,
           NEW start \in Nat, NEW end \in Nat,
           NEW time \in Nat \ {0}, end <= time, NEW i \in Items,
           NEW caught, NEW after, caught \ {i} \subseteq after,
           Complete(dates, s, caught, start, end)
    PROVE  Complete([dates EXCEPT ![i] = time], s, after, start, end)
<1> DEFINE new == [dates EXCEPT ![i] = time]
<1>1. new[i] = time /\ (\A j \in Items : j # i => new[j] = dates[j])
  OBVIOUS
<1> HIDE DEF new
<1>2. time \notin (start .. end - 1)
  OBVIOUS
<1> SUFFICES Complete(new, s, after, start, end)
  BY DEF new
<1> QED BY <1>1, <1>2 DEF Complete

(* A page goes on where the last one ended. *)
LEMMA PageUpTo ==
    ASSUME NEW dates \in [Items -> Nat], NEW s, NEW from \in Nat, NEW to \in Nat, NEW k \in Nat,
           NEW size \in Nat, NEW caught, NEW after,
           UpTo(dates, s, caught, from, to, k),
           NEW hits, hits = HitsIn(dates, s, from, to),
           NEW page, IsPage(page, hits, k, size),
           caught \cup page \subseteq after
    PROVE  UpTo(dates, s, after, from, to, k + Cardinality(page))
<1>1. Cardinality(page) \in Nat /\ Cardinality(page) <= size
  <2>1. hits \subseteq Nat /\ IsFiniteSet(hits)
    BY HitsFacts
  <2> QED BY <2>1, PageIsBounded
<1>2. \A i \in hits : Place(i, hits) \in Nat
  BY HitsFacts
<1>3. \A i \in hits : Place(i, hits) <= k /\ dates[i] < to => i \in caught
  BY DEF UpTo
<1> DEFINE n == Cardinality(page)
<1>4. n \in Nat /\ n <= size
  BY <1>1
<1>5. ASSUME NEW i \in hits, Place(i, hits) <= k + n, dates[i] < to PROVE i \in after
  <2>1. Place(i, hits) \in Nat
    BY <1>2
  <2> HIDE DEF n
  <2>2. CASE Place(i, hits) <= k
    BY <1>3, <1>5, <2>2
  <2>3. CASE ~ (Place(i, hits) <= k)
    <3>1. Place(i, hits) \in k + 1 .. k + size
      BY <1>4, <1>5, <2>1, <2>3
    <3> QED BY <3>1 DEF IsPage
  <2> QED BY <2>2, <2>3
<1> QED BY <1>5 DEF UpTo

(* When all hits of a window are caught, everything up to its end is.       *)
LEMMA WholeWindow ==
    ASSUME NEW dates \in [Items -> Nat], NEW s, Endpoints[s][1] \subseteq Items,
           NEW start \in Nat, NEW from \in Nat, NEW to \in Nat, NEW k \in Nat, NEW caught,
           Cardinality(HitsIn(dates, s, from, to)) <= k,
           UpTo(dates, s, caught, from, to, k),
           Complete(dates, s, caught, start, from)
    PROVE  Complete(dates, s, caught, start, to)
<1> DEFINE hits == HitsIn(dates, s, from, to)
<1> SUFFICES ASSUME NEW i \in Endpoints[s][1], dates[i] \in (start .. to - 1) \ {0}
             PROVE  i \in caught
  BY DEF Complete
<1>1. dates[i] \in Nat /\ i \in Items
  OBVIOUS
<1>2. CASE dates[i] < from
  BY <1>1, <1>2 DEF Complete
<1>3. CASE ~ (dates[i] < from)
  <2>1. i \in hits
    BY <1>1, <1>3 DEF HitsIn
  <2>2. Place(i, hits) \in Nat /\ Cardinality(hits) \in Nat
        /\ Place(i, hits) <= Cardinality(hits)
    BY <2>1, HitsFacts
  <2>3. Place(i, hits) <= k /\ dates[i] < to
    <3> HIDE DEF hits
    <3>1. Cardinality(hits) <= k
      BY DEF hits
    <3> QED BY <1>1, <2>2, <3>1
  <2> QED BY <2>1, <2>3 DEF UpTo
<1> QED BY <1>2, <1>3

-----------------------------------------------------------------------------
LEMMA EndpointType ==
    ASSUME NEW s \in Sources, Paged(s)
    PROVE  Endpoints[s][1] \subseteq Items
<1>1. Endpoints[s] \in Seq(SUBSET Items) /\ Len(Endpoints[s]) = 1
  BY ConfigurationAssumption DEF Paged
<1> QED BY <1>1, ElementOfSeq

LEMMA CaughtMore ==
    ASSUME NEW dates, NEW s, NEW caught, NEW more, caught \subseteq more
    PROVE  /\ \A start, end : Complete(dates, s, caught, start, end)
                                => Complete(dates, s, more, start, end)
           /\ \A from, to, k : UpTo(dates, s, caught, from, to, k)
                                => UpTo(dates, s, more, from, to, k)
BY DEF Complete, UpTo

(* Nothing is before the beginning of a window. *)
LEMMA UpToNone == ASSUME NEW dates, NEW s, NEW caught, NEW from, NEW to
                  PROVE  UpTo(dates, s, caught, from, to, 0)
<1> SUFFICES ASSUME NEW i \in HitsIn(dates, s, from, to),
                    Place(i, HitsIn(dates, s, from, to)) <= 0
             PROVE  FALSE
  BY DEF UpTo
<1>1. /\ Place(i, HitsIn(dates, s, from, to)) \in Nat
      /\ 0 < Place(i, HitsIn(dates, s, from, to))
  BY HitsFacts
<1> QED BY <1>1

LEMMA CursorFrame ==
    ASSUME TypeOK, NEW s \in Sources, CursorIsHonest(s),
           changed' = changed, log' = log, slipped' = slipped,
           now' \in Nat, now <= now',
           state'.cursors[s] = state.cursors[s],
           since'[s] = since[s] \/ state.cursors[s].to = 0
    PROVE  CursorIsHonest(s)'
<1>1. Caught(s)' = Caught(s)
  BY DEF Caught
<1>2. state.cursors[s] \in Cursor /\ now \in Nat
  BY DEF TypeOK
<1>3. state'.cursors[s].from <= now' /\ state'.cursors[s].to <= now'
  BY <1>2 DEF CursorIsHonest, Cursor
<1> QED BY <1>1, <1>3 DEF CursorIsHonest

LEMMA CallFrame ==
    ASSUME TypeOK, NEW t \in Thread, CallIsHonest(t),
           changed' = changed, log' = log, slipped' = slipped,
           now' \in Nat, now <= now', since'[t.source] = since[t.source]
    PROVE  CallIsHonest(t)'
<1>1. Caught(t.source)' = Caught(t.source) /\ InHand(t)' = InHand(t)
  BY DEF Caught, InHand
<1>2. now \in Nat /\ t.from \in Nat /\ t.to \in Nat
  BY DEF TypeOK, Thread
<1>3. t.to # 0 /\ t.from <= now' /\ t.to <= now'
  BY <1>2 DEF CallIsHonest
<1> QED BY <1>1, <1>3 DEF CallIsHonest

LEMMA InitWindows == Init => WindowInv
<1> SUFFICES ASSUME Init PROVE WindowInv
  OBVIOUS
<1>1. \A s \in Sources : state.cursors[s].to = 0 /\ state.cursors[s].from = 0
                         /\ state.cursors[s].next = 0
  BY DEF Init, FreshState, NoCursor
<1>2. ASSUME NEW s \in Sources PROVE CursorIsHonest(s)
  BY <1>1 DEF Init, CursorIsHonest
<1> QED BY <1>2 DEF Init, WindowInv

(* What an item that changes does to a window that is read in part, or has  *)
(* been read.                                                               *)
LEMMA ChangeWindows == ASSUME IInv, WindowInv, NEW i \in Items, Change(i) PROVE WindowInv'
<1>1. /\ changed' = [changed EXCEPT ![i] = now]
      /\ slipped' = (slipped \/ Slips(i))
      /\ UNCHANGED <<now, state, pc, threads, log, since>>
  BY DEF Change
<1>2. changed \in [Items -> Nat] /\ now \in Nat \ {0} /\ log \in [Sources -> Seq(Reading)]
  BY DEF IInv, TypeOK, WindowInv
<1>3. \A j \in Items : j # i => changed'[j] = changed[j]
  BY <1>1, <1>2
<1>4. \A s \in Sources : Caught(s) \ {i} \subseteq Caught(s)'
  BY <1>1, <1>3 DEF Caught
<1>5. \A t \in Thread : InHand(t) \ {i} \subseteq InHand(t)'
  BY <1>3 DEF InHand
<1>6. ASSUME ~ slipped', NEW w \in HalfRead, Paged(w.source)
      PROVE  ~ (/\ i \in HitsIn(changed, w.source, w.from, w.to)
                /\ Place(i, HitsIn(changed, w.source, w.from, w.to)) <= w.next
                /\ now \notin w.from .. w.to)
  <2>1. ~ Slips(i)
    BY <1>1, <1>6
  <2>2. Hits(w.source, w.from, w.to) = HitsIn(changed, w.source, w.from, w.to)
    BY DEF Hits, HitsIn
  <2> QED BY <1>6, <2>1, <2>2 DEF Slips, Paged
<1>7. ASSUME NEW s \in Sources, Paged(s) PROVE CursorIsHonest(s)'
  <2> DEFINE c == state.cursors[s]
  <2>1. c \in Cursor /\ c.from \in Nat /\ c.to \in Nat /\ c.next \in Nat /\ since[s] \in Nat
    BY DEF IInv, TypeOK, Cursor
  <2>2. CursorIsHonest(s)
    BY <1>7 DEF WindowInv
  <2>3. c.from <= now /\ c.to <= now /\ (c.next # 0 => c.to # 0)
    BY <2>2 DEF CursorIsHonest
  <2>4. ASSUME c.to # 0, ~ slipped', c.next = 0
        PROVE  Complete(changed', s, Caught(s)', since[s], c.to)
    <3>1. Complete(changed, s, Caught(s), since[s], c.to)
      BY <1>1, <2>2, <2>4 DEF CursorIsHonest
    <3> QED BY <1>1, <1>2, <1>4, <1>7, <2>1, <2>3, <3>1, EndpointType, ChangedComplete
  <2>5. ASSUME c.to # 0, ~ slipped', c.next # 0
        PROVE  /\ Complete(changed', s, Caught(s)', since[s], c.from)
               /\ UpTo(changed', s, Caught(s)', c.from, c.to, c.next)
    <3>1. /\ Complete(changed, s, Caught(s), since[s], c.from)
          /\ UpTo(changed, s, Caught(s), c.from, c.to, c.next)
      BY <1>1, <2>2, <2>5 DEF CursorIsHonest
    <3> DEFINE w == [source |-> s, from |-> c.from, to |-> c.to, next |-> c.next]
    <3>2. w \in HalfRead /\ w.source = s /\ w.from = c.from /\ w.to = c.to /\ w.next = c.next
      BY DEF HalfRead
    <3>3. ~ (/\ i \in HitsIn(changed, s, c.from, c.to)
             /\ Place(i, HitsIn(changed, s, c.from, c.to)) <= c.next
             /\ now \notin c.from .. c.to)
      <4> HIDE DEF w
      <4> QED BY <1>6, <1>7, <2>5, <3>2
    <3> HIDE DEF c
    <3>4. Complete(changed', s, Caught(s)', since[s], c.from)
      BY <1>1, <1>2, <1>4, <1>7, <2>1, <2>3, <3>1, EndpointType, ChangedComplete
    <3>5. UpTo(changed', s, Caught(s)', c.from, c.to, c.next)
      BY <1>1, <1>2, <1>4, <2>1, <2>3, <3>1, <3>3, ChangedUpTo
    <3> QED BY <3>4, <3>5
  <2>6. state'.cursors[s] = c /\ now' = now /\ since'[s] = since[s]
    BY <1>1
  <2> HIDE DEF c
  <2> QED BY <2>3, <2>4, <2>5, <2>6 DEF CursorIsHonest
<1>8. ASSUME NEW t \in Thread, pc = "waiting", t = Waited, Paged(t.source)
      PROVE  CallIsHonest(t)'
  <2> DEFINE s == t.source
             caught == Caught(t.source) \cup InHand(t)
             after == Caught(t.source)' \cup InHand(t)'
  <2>1. s \in Sources /\ t.from \in Nat /\ t.to \in Nat /\ t.next \in Nat /\ since[s] \in Nat
    BY DEF IInv, TypeOK, Thread
  <2>2. CallIsHonest(t)
    BY <1>8 DEF WindowInv
  <2>3. t.to # 0 /\ t.from <= now /\ t.to <= now
    BY <2>2 DEF CallIsHonest
  <2>4. caught \ {i} \subseteq after
    BY <1>4, <1>5, <2>1
  <2>5. ASSUME ~ slipped', t.status = "answered" /\ t.next = 0
        PROVE  Complete(changed', s, after, since[s], t.to)
    <3>1. Complete(changed, s, caught, since[s], t.to)
      BY <1>1, <2>2, <2>5 DEF CallIsHonest
    <3> HIDE DEF caught, after
    <3> QED BY <1>1, <1>2, <1>8, <2>1, <2>3, <2>4, <3>1, EndpointType, ChangedComplete
  <2>6. ASSUME ~ slipped', ~ (t.status = "answered" /\ t.next = 0)
        PROVE  /\ Complete(changed', s, after, since[s], t.from)
               /\ UpTo(changed', s, after, t.from, t.to, t.next)
    <3>1. /\ Complete(changed, s, caught, since[s], t.from)
          /\ UpTo(changed, s, caught, t.from, t.to, t.next)
      BY <1>1, <2>2, <2>6 DEF CallIsHonest
    <3> DEFINE w == [source |-> s, from |-> t.from, to |-> t.to, next |-> t.next]
    <3>2. w \in HalfRead
      <4>1. Len(threads) \in 1 .. Len(threads)
        BY <1>8, LastThread DEF IInv
      <4> QED BY <1>8, <4>1 DEF HalfRead, Waited
    <3>3. w.source = s /\ w.from = t.from /\ w.to = t.to /\ w.next = t.next
      OBVIOUS
    <3> HIDE DEF w
    <3>4. ~ (/\ i \in HitsIn(changed, s, t.from, t.to)
             /\ Place(i, HitsIn(changed, s, t.from, t.to)) <= t.next
             /\ now \notin t.from .. t.to)
      BY <1>6, <1>8, <2>6, <3>2, <3>3
    <3> HIDE DEF caught, after, s
    <3>5. Complete(changed', s, after, since[s], t.from)
      BY <1>1, <1>2, <1>8, <2>1, <2>3, <2>4, <3>1, EndpointType, ChangedComplete DEF s
    <3>6. UpTo(changed', s, after, t.from, t.to, t.next)
      BY <1>1, <1>2, <2>1, <2>3, <2>4, <3>1, <3>4, ChangedUpTo
    <3> QED BY <3>5, <3>6
  <2> QED BY <1>1, <2>3, <2>5, <2>6 DEF CallIsHonest
<1> QED BY <1>1, <1>2, <1>7, <1>8 DEF WindowInv, Waited

(* A page, read as the items are now. *)
LEMMA PageIsHonest ==
    ASSUME TypeOK, NEW t \in Thread, t.source \in Sources, Paged(t.source), CallIsHonest(t),
           t.status = "running"
    PROVE  CallIsHonest(Page(t))
<1> DEFINE s == t.source
           hits == HitsIn(changed, s, t.from, t.to)
           page == {i \in hits : Place(i, hits) \in t.next + 1 .. t.next + PageSize}
           next == t.next + Cardinality(page)
           u == Page(t)
           caught == Caught(s) \cup InHand(t)
           after == Caught(s) \cup InHand(u)
<1>1. /\ t.from \in Nat /\ t.to \in Nat /\ t.next \in Nat /\ t.pages \in Nat
      /\ t.read \in [Items -> Nat] /\ changed \in [Items -> Nat] /\ since[s] \in Nat
  BY DEF Thread, TypeOK, Reading
<1>2. Hits(s, t.from, t.to) = hits
  BY DEF Hits, HitsIn
<1>3. /\ hits \subseteq Items /\ hits \subseteq Nat /\ IsFiniteSet(hits)
      /\ Cardinality(hits) \in Nat
  BY HitsFacts
<1>4. Cardinality(page) \in Nat
  <2>1. PageSize \in Nat
    BY BoundAssumption
  <2>2. IsPage(page, hits, t.next, PageSize)
    BY DEF IsPage
  <2> HIDE DEF hits, page
  <2> QED BY <1>1, <1>3, <2>1, <2>2, PageIsBounded
<1>5. /\ u.source = s /\ u.from = t.from /\ u.to = t.to
      /\ u.next = IF next >= Cardinality(hits) THEN 0 ELSE next
      /\ u.read = [i \in Items |-> IF i \in page THEN changed[i] ELSE t.read[i]]
      /\ u.status \in {"answered", "running"}
      /\ next >= Cardinality(hits) => u.status = "answered"
  <2> DEFINE v == Read(t, page)
  <2>1. /\ v.source = s /\ v.from = t.from /\ v.to = t.to /\ v.next = t.next
        /\ v.pages = t.pages
        /\ v.read = [i \in Items |-> IF i \in page THEN changed[i] ELSE t.read[i]]
        /\ v = [t EXCEPT !.read = [i \in Items |-> IF i \in page THEN changed[i] ELSE @[i]]]
    BY DEF Read, Thread
  <2> DEFINE last == page = {} \/ next >= Cardinality(hits) \/ t.pages + 1 >= MaxPages
  <2>2. Page(t) = [v EXCEPT !.pages = @ + 1,
                      !.next = IF next >= Cardinality(hits) THEN 0 ELSE next,
                      !.status = IF last THEN "answered" ELSE "running"]
    BY <1>2 DEF Page
  <2> HIDE DEF v
  <2>3. v \in [source : Sources, cursor : Cursor, from : Nat, to : Nat, next : Nat,
               pages : Nat, read : Reading, errors : BOOLEAN,
               status : {"running", "answered", "raised"}]
    <3>1. [i \in Items |-> IF i \in page THEN changed[i] ELSE t.read[i]] \in Reading
      BY <1>1 DEF Reading
    <3> HIDE DEF page
    <3> QED BY <2>1, <3>1 DEF Thread
  <2> HIDE DEF page, hits, next
  <2> QED BY <2>1, <2>2, <2>3
<1>6. caught \cup page \subseteq after
  <2>1. ASSUME NEW i \in Items, t.read[i] = changed[i] \/ i \in page PROVE u.read[i] = changed[i]
    BY <1>5, <2>1
  <2>2. page \subseteq Items
    BY <1>3
  <2> HIDE DEF page, u
  <2> QED BY <2>1, <2>2 DEF InHand
<1>7. /\ t.to # 0 /\ t.from <= now /\ t.to <= now
      /\ ~ slipped => /\ Complete(changed, s, caught, since[s], t.from)
                      /\ UpTo(changed, s, caught, t.from, t.to, t.next)
  BY DEF CallIsHonest
<1> SUFFICES ASSUME ~ slipped
             PROVE  IF u.status = "answered" /\ u.next = 0
                    THEN Complete(changed, s, after, since[s], u.to)
                    ELSE /\ Complete(changed, s, after, since[s], u.from)
                         /\ UpTo(changed, s, after, u.from, u.to, u.next)
  BY <1>5, <1>7 DEF CallIsHonest
<1> HIDE DEF u, caught, after, s
<1>8. UpTo(changed, s, after, t.from, t.to, next)
  <2>1. PageSize \in Nat
    BY BoundAssumption
  <2>2. /\ IsPage(page, hits, t.next, PageSize)
        /\ hits = HitsIn(changed, s, t.from, t.to)
    BY DEF IsPage
  <2> HIDE DEF hits, page
  <2> QED BY <1>1, <1>6, <1>7, <2>1, <2>2, PageUpTo
<1>9. Complete(changed, s, after, since[s], t.from)
  BY <1>6, <1>7, CaughtMore
<1>10. next \in Nat
  BY <1>1, <1>4
<1>11. CASE next >= Cardinality(hits)
  <2>1. u.status = "answered" /\ u.next = 0 /\ u.to = t.to
    BY <1>5, <1>11
  <2>2. Endpoints[s][1] \subseteq Items
    BY EndpointType DEF s
  <2>3. Cardinality(hits) <= next
    BY <1>3, <1>10, <1>11
  <2> HIDE DEF next
  <2>4. Complete(changed, s, after, since[s], t.to)
    BY <1>1, <1>8, <1>9, <1>10, <2>2, <2>3, WholeWindow
  <2> QED BY <2>1, <2>4
<1>12. CASE ~ (next >= Cardinality(hits))
  <2>1. u.next = next /\ u.from = t.from /\ u.to = t.to
    BY <1>5, <1>12
  <2>2. u.next # 0
    <3> SUFFICES ASSUME next = 0 PROVE FALSE
      BY <2>1
    <3>1. t.next = 0 /\ Cardinality(page) = 0
      BY <1>1, <1>4
    <3>2. IsFiniteSet(page)
      <4>1. page \in SUBSET hits
        OBVIOUS
      <4> HIDE DEF page, hits
      <4> QED BY <1>3, <4>1, FS_Subset
    <3>3. page = {}
      <4> HIDE DEF page
      <4> QED BY <3>1, <3>2, FS_EmptySet
    <3>4. hits # {}
      <4> HIDE DEF hits, page
      <4>1. Cardinality(hits) # 0
        BY <1>3, <1>12
      <4> QED BY <4>1, FS_EmptySet
    <3>5. PICK i \in hits : Place(i, hits) = 1
      <4> HIDE DEF hits
      <4> QED BY <1>3, <3>4, FirstPlace
    <3>6. 1 \in t.next + 1 .. t.next + PageSize
      BY <3>1, BoundAssumption
    <3>7. i \in page
      BY <3>5, <3>6
    <3> QED BY <3>3, <3>7
  <2> HIDE DEF next
  <2> QED BY <1>8, <1>9, <2>1, <2>2
<1> QED BY <1>11, <1>12

(* The thread that is waited for makes its step, or another one does. *)
LEMMA WaitedProgress ==
    ASSUME TypeOK, NEW n \in 1 .. Len(threads), threads[n].status = "running",
           NEW t \in Thread, Progress(n, t), pc = "waiting"
    PROVE  threads'[Len(threads')] = IF n = Len(threads) THEN t ELSE threads[Len(threads)]
<1>1. threads \in Seq(Thread) /\ Len(threads) \in Nat
  BY LenProperties DEF TypeOK
<1>2. CASE t.status # "running" /\ ~ (pc = "waiting" /\ n = Len(threads))
  <2> DEFINE rest == [m \in 1 .. Len(threads) - 1 |-> threads[IF m < n THEN m ELSE m + 1]]
  <2>1. threads' = rest
    BY <1>2 DEF Progress
  <2>2. /\ Len(rest) = Len(threads) - 1
        /\ \A m \in 1 .. Len(threads) - 1 : rest[m] = threads[IF m < n THEN m ELSE m + 1]
    BY <1>1, WithoutFacts
  <2> HIDE DEF rest
  <2>3. n < Len(threads)
    BY <1>1, <1>2
  <2>4. Len(threads') = Len(threads) - 1 /\ Len(threads') \in 1 .. Len(threads) - 1
    BY <1>1, <2>1, <2>2, <2>3
  <2> QED BY <1>1, <2>1, <2>2, <2>3, <2>4
<1>3. CASE ~ (t.status # "running" /\ ~ (pc = "waiting" /\ n = Len(threads)))
  <2> DEFINE new == [threads EXCEPT ![n] = t]
  <2>1. threads' = new
    BY <1>3 DEF Progress
  <2>2. /\ Len(new) = Len(threads) /\ new[n] = t
        /\ \A m \in 1 .. Len(threads) : m # n => new[m] = threads[m]
    BY <1>1, ReplaceFacts
  <2> HIDE DEF new
  <2>3. Len(threads) \in 1 .. Len(threads)
    BY <1>1
  <2> QED BY <2>1, <2>2, <2>3
<1> QED BY <1>2, <1>3

LEMMA RequestWindows ==
    ASSUME IInv, WindowInv, NEW n \in 1 .. Len(threads), Request(n) \/ RequestFails(n)
    PROVE  WindowInv'
<1>1. /\ threads[n].status = "running"
      /\ UNCHANGED <<now, changed, state, pc, log, since, slipped>>
  BY DEF Request, RequestFails, upstream, history
<1>2. PICK u : /\ u = Answered(threads[n]) \/ u \in Failures(threads[n])
               /\ Progress(n, u)
  BY DEF Request, RequestFails
<1>3. threads \in Seq(Thread) /\ TypeOK /\ now \in Nat
  BY DEF IInv, TypeOK
<1>4. threads[n] \in Thread /\ threads[n].source \in Sources
  <2>1. threads[n] \in Thread
    BY <1>3, ElementOfSeq
  <2> QED BY <2>1 DEF Thread
<1>5. u \in Thread /\ u.source = threads[n].source
  <2>1. changed \in [Items -> Nat] /\ ThreadOK(threads[n])
    BY DEF IInv, TypeOK, ThreadsOK
  <2>2. Continues(threads[n], u)
    BY <1>2, <2>1, AnswerContinues
  <2> QED BY <2>2 DEF Continues, ThreadOK
<1>6. ASSUME pc = "waiting", n = Len(threads), Paged(threads[n].source)
      PROVE  CallIsHonest(u)
  <2>1. CallIsHonest(threads[n])
    BY <1>4, <1>6 DEF WindowInv, Waited
  <2>2. CASE u = Answered(threads[n])
    <3>1. u = Page(threads[n])
      BY <1>6, <2>2 DEF Answered, Paged
    <3> QED BY <1>1, <1>3, <1>4, <1>6, <2>1, <3>1, PageIsHonest
  <2>3. CASE u \in Failures(threads[n])
    <3>1. u = [threads[n] EXCEPT !.status = "raised"]
      BY <1>6, <2>3 DEF Failures, Raised, Paged
    <3> DEFINE t == threads[n]
    <3>2. /\ u.source = t.source /\ u.from = t.from /\ u.to = t.to /\ u.next = t.next
          /\ u.read = t.read /\ u.status = "raised"
      BY <1>4, <3>1 DEF Thread
    <3>3. InHand(u) = InHand(t)
      BY <3>2 DEF InHand
    <3>4. t.status = "running" /\ CallIsHonest(t)
      BY <1>1, <2>1
    <3> HIDE DEF t
    <3> QED BY <3>2, <3>3, <3>4 DEF CallIsHonest
  <2> QED BY <1>2, <2>2, <2>3
<1>7. \A s \in Sources : Paged(s) => CursorIsHonest(s)'
  <2>1. now <= now' /\ now' \in Nat
    BY <1>1, <1>3
  <2> QED BY <1>1, <1>3, <2>1, CursorFrame DEF WindowInv
<1>8. ASSUME NEW t \in Thread, pc' = "waiting", t = Waited', Paged(t.source)
      PROVE  CallIsHonest(t)'
  <2>1. now <= now' /\ now' \in Nat /\ since'[t.source] = since[t.source]
    BY <1>1, <1>3
  <2>2. CallIsHonest(t)
    <3>1. t = IF n = Len(threads) THEN u ELSE threads[Len(threads)]
      BY <1>1, <1>2, <1>3, <1>5, <1>8, WaitedProgress DEF Waited
    <3>2. CASE n = Len(threads)
      BY <1>1, <1>5, <1>6, <1>8, <3>1, <3>2
    <3>3. CASE n # Len(threads)
      BY <1>1, <1>8, <3>1, <3>3 DEF WindowInv, Waited
    <3> QED BY <3>2, <3>3
  <2> QED BY <1>1, <1>3, <2>1, <2>2, CallFrame
<1> QED BY <1>1, <1>7, <1>8 DEF WindowInv

(* A new call goes on where the cursor is. *)
LEMMA SubmitWindows ==
    ASSUME IInv, WindowInv, pc \in {"source", "backoff"},
           ConnectorOf[Present] \in Connectors, now' \in Nat, now <= now',
           Submit(state.cursors[Present], now'),
           UNCHANGED <<changed, state, log, slipped>>
    PROVE  WindowInv'
<1>1. Present \in Sources
  BY PresentType DEF IInv
<1>2. PICK p \in Sources : p = Present
  BY <1>1
<1>3. PICK c \in Cursor : c = state.cursors[p]
  BY DEF IInv, TypeOK
<1>call. PICK u \in Thread : u = NewThread(p, c, now') /\ u.source = p
  BY <1>2, NewThreadFacts DEF ThreadOK
<1>4. /\ threads' = Append(threads, u)
      /\ since' = IF Paged(p) /\ c.to = 0 THEN [since EXCEPT ![p] = u.from] ELSE since
  BY <1>2, <1>3, <1>call DEF Submit, Paged
<1>5. now \in Nat \ {0} /\ now' # 0 /\ since \in [Sources -> Nat]
  BY DEF IInv, TypeOK, WindowInv
<1>6. Waited' = u
  <2>2. threads \in Seq(Thread)
    BY DEF IInv, TypeOK
  <2>3. /\ Append(threads, u) \in Seq(Thread) /\ Len(threads) \in Nat
        /\ Len(Append(threads, u)) = Len(threads) + 1
        /\ Append(threads, u)[Len(threads) + 1] = u
    BY <2>2, AppendFacts
  <2> QED BY <1>4, <2>3 DEF Waited
<1>7. ASSUME NEW s \in Sources, Paged(s) PROVE CursorIsHonest(s)'
  <2>1. since'[s] = since[s] \/ state.cursors[s].to = 0
    BY <1>3, <1>4, <1>5
  <2>2. TypeOK /\ CursorIsHonest(s) /\ state'.cursors[s] = state.cursors[s]
    BY <1>7 DEF IInv, WindowInv
  <2> QED BY <2>1, <2>2, CursorFrame
<1>8. ASSUME Paged(p) PROVE CallIsHonest(u)'
  <2>1. /\ CursorIsHonest(p) /\ c.from \in Nat /\ c.to \in Nat /\ c.next \in Nat
    BY <1>8 DEF WindowInv, Cursor
  <2>2. c.from <= now /\ c.to <= now /\ (c.next # 0 => c.to # 0)
    BY <1>3, <2>1 DEF CursorIsHonest
  <2>3. /\ u.source = p /\ u.from = WindowOf(c, now').from /\ u.to = WindowOf(c, now').to
        /\ u.next = c.next /\ u.status = "running" /\ u.read = Nothing
    BY <1>8, <1>call DEF NewThread, Paged
  <2>4. Caught(p)' = Caught(p)
    BY DEF Caught
  <2> DEFINE caught == Caught(p)' \cup InHand(u)'
  <2>5. Caught(p) \subseteq caught
    BY <2>4
  <2>6. ASSUME u.to # 0, u.from <= now', u.to <= now',
               ~ slipped => /\ Complete(changed, p, caught, since'[p], u.from)
                            /\ UpTo(changed, p, caught, u.from, u.to, u.next)
        PROVE  CallIsHonest(u)'
    BY <2>3, <2>6 DEF CallIsHonest
  <2> HIDE DEF caught
  <2>7. CASE c.next # 0
    <3>1. u.from = c.from /\ u.to = c.to /\ c.to # 0
      BY <2>1, <2>2, <2>3, <2>7 DEF WindowOf
    <3>2. since'[p] = since[p]
      BY <1>4, <3>1
    <3>3. ~ slipped => /\ Complete(changed, p, Caught(p), since[p], c.from)
                       /\ UpTo(changed, p, Caught(p), c.from, c.to, c.next)
      BY <1>3, <2>1, <2>7, <3>1 DEF CursorIsHonest
    <3>4. ~ slipped => /\ Complete(changed, p, caught, since'[p], u.from)
                       /\ UpTo(changed, p, caught, u.from, u.to, u.next)
      BY <2>3, <2>5, <3>1, <3>2, <3>3, CaughtMore
    <3>5. u.from <= now' /\ u.to <= now'
      BY <1>5, <2>1, <2>2, <3>1
    <3> QED BY <2>6, <3>1, <3>4, <3>5
  <2>8. CASE c.next = 0 /\ c.to # 0
    <3>1. u.from = c.to /\ u.to = now' /\ u.next = 0
      BY <2>1, <2>3, <2>8 DEF WindowOf
    <3>2. since'[p] = since[p]
      BY <1>4, <2>8
    <3>3. ~ slipped => Complete(changed, p, Caught(p), since[p], c.to)
      BY <1>3, <2>1, <2>8 DEF CursorIsHonest
    <3>4. ~ slipped => /\ Complete(changed, p, caught, since'[p], u.from)
                       /\ UpTo(changed, p, caught, u.from, u.to, u.next)
      BY <2>5, <3>1, <3>2, <3>3, CaughtMore, UpToNone
    <3>5. u.from <= now' /\ u.to <= now'
      BY <1>5, <2>1, <2>2, <3>1
    <3> QED BY <1>5, <2>6, <3>1, <3>4, <3>5
  <2>9. CASE c.next = 0 /\ c.to = 0
    <3>1. u.from \in Nat /\ u.from <= now' /\ u.to = now' /\ u.next = 0
      BY <2>1, <2>3, <2>9, BoundAssumption DEF WindowOf
    <3>2. since'[p] = u.from
      BY <1>4, <1>5, <1>8, <2>9
    <3>3. Complete(changed, p, caught, since'[p], u.from)
      <4>1. \A d \in Nat : d \notin since'[p] .. u.from - 1
        BY <3>1, <3>2
      <4>2. Endpoints[p][1] \subseteq Items /\ changed \in [Items -> Nat]
        BY <1>8, EndpointType DEF IInv, TypeOK
      <4> QED BY <4>1, <4>2 DEF Complete
    <3>4. UpTo(changed, p, caught, u.from, u.to, u.next)
      BY <3>1, UpToNone
    <3>5. u.to # 0 /\ u.to <= now'
      BY <1>5, <3>1
    <3> QED BY <2>6, <3>1, <3>3, <3>4, <3>5
  <2> QED BY <2>7, <2>8, <2>9
<1> QED BY <1>5, <1>6, <1>7, <1>8, <1>call DEF WindowInv

(* Steps after which no call is waited for, and cursors are as before.      *)
LEMMA RestWindows ==
    ASSUME IInv, WindowInv, pc' # "waiting",
           UNCHANGED <<now, changed, log, slipped, since>>,
           \A s \in Sources : state'.cursors[s] = state.cursors[s]
    PROVE  WindowInv'
<1>1. TypeOK /\ now \in Nat /\ now <= now' /\ now' \in Nat
  BY DEF IInv, TypeOK
<1>2. \A s \in Sources : Paged(s) => CursorIsHonest(s)'
  BY <1>1, CursorFrame DEF WindowInv
<1> QED BY <1>2 DEF WindowInv

LEMMA SucceedWindows == ASSUME IInv, WindowInv, Succeed PROVE WindowInv'
<1>1. PICK t \in Thread : t = Waited
  BY LastThread DEF Succeed, IInv, Waited
<1>2. /\ pc = "waiting" /\ t.status = "answered" /\ pc' # "waiting"
      /\ state'.cursors = [state.cursors EXCEPT ![Present] = CursorAfter(t)]
      /\ log' = [log EXCEPT ![Present] = Append(@, t.read)]
      /\ UNCHANGED <<now, changed, since, slipped>>
  BY <1>1 DEF Succeed, Waited, Report, upstream
<1>3. PICK p \in Sources : p = Present /\ t.source = p
  BY <1>1, <1>2, PresentType DEF IInv, PresentIsCollected, Waited
<1>4. /\ TypeOK /\ now \in Nat /\ now' \in Nat /\ now <= now'
      /\ state.cursors \in [Sources -> Cursor] /\ log \in [Sources -> Seq(Reading)]
  BY <1>2 DEF IInv, TypeOK
<1>5. ASSUME NEW s \in Sources, Paged(s), s # p PROVE CursorIsHonest(s)'
  <2>1. state'.cursors[s] = state.cursors[s] /\ log'[s] = log[s] /\ since'[s] = since[s]
    BY <1>2, <1>3, <1>4, <1>5
  <2>2. Caught(s)' = Caught(s)
    BY <1>2, <2>1 DEF Caught
  <2>3. CursorIsHonest(s)
    BY <1>5 DEF WindowInv
  <2> QED BY <1>2, <2>1, <2>2, <2>3 DEF CursorIsHonest
<1>6. ASSUME Paged(p) PROVE CursorIsHonest(p)'
  <2>1. CallIsHonest(t)
    BY <1>1, <1>2, <1>3, <1>6 DEF WindowInv
  <2>2. log[p] \in Seq(Reading) /\ t.read \in Reading /\ log'[p] = Append(log[p], t.read)
    BY <1>2, <1>3, <1>4 DEF Thread
  <2>3. /\ Len(log[p]) \in Nat /\ Len(log'[p]) = Len(log[p]) + 1
        /\ \A n \in 1 .. Len(log[p]) : log'[p][n] = log[p][n]
        /\ log'[p][Len(log[p]) + 1] = t.read
    BY <2>2, AppendFacts
  <2>4. /\ Len(log[p]) + 1 \in 1 .. Len(log'[p])
        /\ \A n \in 1 .. Len(log[p]) : n \in 1 .. Len(log'[p])
    BY <2>3
  <2>5. Caught(p) \cup InHand(t) \subseteq Caught(p)'
    BY <1>2, <2>3, <2>4 DEF Caught, InHand
  <2>6. state'.cursors[p] = CursorAfter(t)
    BY <1>2, <1>3, <1>4
  <2> DEFINE caught == Caught(p) \cup InHand(t)
  <2>7. /\ t.to # 0 /\ t.from <= now' /\ t.to <= now' /\ 0 <= now'
        /\ ~ slipped' =>
             IF t.next = 0 THEN Complete(changed', p, caught, since'[p], t.to)
             ELSE /\ Complete(changed', p, caught, since'[p], t.from)
                  /\ UpTo(changed', p, caught, t.from, t.to, t.next)
    BY <1>2, <1>3, <1>4, <2>1 DEF CallIsHonest
  <2> HIDE DEF caught
  <2>8. caught \subseteq Caught(p)'
    BY <2>5 DEF caught
  <2>9. /\ CursorAfter(t).to = t.to /\ CursorAfter(t).next = t.next
        /\ t.next # 0 => CursorAfter(t).from = t.from
        /\ t.next = 0 => CursorAfter(t).from = 0
    BY <1>3, <1>6 DEF CursorAfter, NoCursor, Paged
  <2>10. CASE t.next = 0
    BY <2>6, <2>7, <2>8, <2>9, <2>10, CaughtMore DEF CursorIsHonest
  <2>11. CASE t.next # 0
    BY <2>6, <2>7, <2>8, <2>9, <2>11, CaughtMore DEF CursorIsHonest
  <2> QED BY <2>10, <2>11
<1>7. now' # 0
  BY <1>2 DEF WindowInv
<1>8. \A s \in Sources : Paged(s) => CursorIsHonest(s)'
  BY <1>5, <1>6
<1> QED BY <1>2, <1>7, <1>8 DEF WindowInv

LEMMA StartRunWindows == ASSUME IInv, WindowInv, StartRun PROVE WindowInv'
<1>1. /\ pc' = "source" /\ UNCHANGED <<now, changed, log, slipped, since>>
      /\ state' = IF kept THEN state ELSE FreshState
  BY DEF StartRun, upstream, history
<1>2. CASE kept
  <2>1. state' = state
    BY <1>1, <1>2
  <2> QED BY <1>1, <2>1, RestWindows
<1>3. CASE ~ kept
  <2>1. \A s \in Sources : state'.cursors[s] = NoCursor
    BY <1>1, <1>3 DEF FreshState
  <2>2. 0 <= now' /\ now' # 0
    BY <1>1 DEF IInv, TypeOK, WindowInv
  <2>3. \A s \in Sources : CursorIsHonest(s)'
    BY <2>1, <2>2 DEF CursorIsHonest, NoCursor
  <2> QED BY <1>1, <2>2, <2>3 DEF WindowInv
<1> QED BY <1>2, <1>3

(* Time passes and nothing else. *)
LEMMA TickWindows == ASSUME IInv, WindowInv, Tick PROVE WindowInv'
<1>1. /\ now' = now + 1
      /\ UNCHANGED <<changed, state, pc, threads, log, slipped, since>>
  BY DEF Tick
<1>2. TypeOK /\ now \in Nat /\ now' \in Nat /\ now <= now' /\ now' # 0
  BY <1>1 DEF IInv, TypeOK
<1>3. \A s \in Sources : Paged(s) => CursorIsHonest(s)'
  BY <1>1, <1>2, CursorFrame DEF WindowInv
<1>4. ASSUME NEW t \in Thread, pc = "waiting", t = Waited, Paged(t.source)
      PROVE  CallIsHonest(t)'
  BY <1>1, <1>2, <1>4, CallFrame DEF WindowInv
<1> QED BY <1>1, <1>2, <1>3, <1>4 DEF WindowInv, Waited

LEMMA StepWindows == IInv /\ WindowInv /\ [Next]_vars => WindowInv'
<1> SUFFICES ASSUME IInv, WindowInv, [Next]_vars PROVE WindowInv'
  OBVIOUS
<1>1. CASE \E i \in Items : Change(i)
  BY <1>1, ChangeWindows
<1>2. CASE Tick
  BY <1>2, TickWindows
<1>3. CASE \E n \in 1 .. Len(threads) : Request(n) \/ RequestFails(n)
  BY <1>3, RequestWindows
<1>4. CASE StartRun
  BY <1>4, StartRunWindows
<1>5. CASE Skip
  BY <1>5, RestWindows DEF Skip, Report, upstream, history
<1>6. CASE Begin
  <2>1. /\ pc = "source" /\ ConnectorOf[Present] \in Connectors
        /\ UNCHANGED <<changed, state, log, slipped>>
        /\ Submit(state.cursors[Present], now')
    <3>1. Present \in Sources
      BY <1>6, PresentType DEF IInv, Begin
    <3> QED BY <1>6, <3>1, ConfigurationAssumption DEF Begin
  <2>2. now' \in Nat /\ now <= now'
    <3>1. now \in Nat /\ state.allowed[Present] \in Nat
      BY <1>6, PresentType DEF IInv, TypeOK, Begin
    <3> QED BY <1>6, <3>1 DEF Begin
  <2> QED BY <2>1, <2>2, SubmitWindows
<1>7. CASE Succeed
  BY <1>7, SucceedWindows
<1>8. CASE AttemptFails \/ TimeOut
  <2>1. /\ AfterFailure /\ UNCHANGED <<now, changed, log, slipped, since>>
    BY <1>8 DEF AttemptFails, TimeOut, upstream, history
  <2>2. pc' # "waiting"
    BY <2>1 DEF AfterFailure, Report
  <2>3. \A s \in Sources : state'.cursors[s] = state.cursors[s]
    BY <2>1 DEF AfterFailure, IInv, TypeOK
  <2> QED BY <2>1, <2>2, <2>3, RestWindows
<1>9. CASE Retry
  <2>1. /\ pc = "backoff" /\ UNCHANGED <<changed, state, log, slipped>>
        /\ Submit(given, now') /\ now' = now + Sleep
    BY <1>9 DEF Retry
  <2>2. ConnectorOf[Present] \in Connectors /\ given = state.cursors[Present]
    BY <2>1 DEF IInv, PresentIsCollected
  <2>3. now' \in Nat /\ now <= now'
    <3>1. Sleep \in Nat /\ now \in Nat
      BY Numbers DEF Sleep, IInv, TypeOK
    <3> QED BY <2>1, <3>1
  <2> QED BY <2>1, <2>2, <2>3, SubmitWindows
<1>10. CASE UNCHANGED vars
  <2>1. UNCHANGED <<now, changed, state, pc, threads, log, slipped, since>>
    BY <1>10 DEF vars
  <2>2. \A s \in Sources : CursorIsHonest(s)' <=> CursorIsHonest(s)
    BY <2>1 DEF CursorIsHonest, Caught
  <2>3. \A t \in Thread : CallIsHonest(t)' <=> CallIsHonest(t)
    BY <2>1 DEF CallIsHonest, Caught, InHand
  <2> QED BY <2>1, <2>2, <2>3 DEF WindowInv, Waited
<1> QED
  BY <1>1, <1>2, <1>3, <1>4, <1>5, <1>6, <1>7, <1>8, <1>9, <1>10 DEF Next, Worker

(* Across pages, runs, failed attempts and late threads, and whatever       *)
(* changes upstream meanwhile, what a cursor says of the windows read is    *)
(* true, unless an entry has slipped (NvdConnector.collect).                *)
THEOREM NothingIsEverMissed == Spec => []NothingIsMissed
<1>1. WindowInv => NothingIsMissed
  <2> SUFFICES ASSUME WindowInv, NEW s \in Sources, Paged(s), ~ slipped,
                      state.cursors[s].to # 0, state.cursors[s].next = 0,
                      NEW i \in Endpoints[s][1],
                      changed[i] \in (since[s] .. state.cursors[s].to - 1) \ {0}
               PROVE  \E n \in 1 .. Len(log[s]) : log[s][n][i] = changed[i]
    BY DEF NothingIsMissed, Paged
  <2>1. Complete(changed, s, Caught(s), since[s], state.cursors[s].to)
    BY DEF WindowInv, CursorIsHonest
  <2> QED BY <2>1 DEF Complete, Caught
<1> QED BY <1>1, InitWindows, StepWindows, Invariance, PTL DEF Spec

-----------------------------------------------------------------------------
(* The runtime implements SourceRuns: what is under way shows in nothing    *)
(* but the records, and in the cursors and deliveries that come with them.  *)

(* The source that is being collected is an enabled one. *)
PresentIsEnabled == pc \in {"waiting", "backoff"} => Present \in Enabled

LEMMA StepEnabled == PresentIsEnabled /\ [Next]_vars => PresentIsEnabled'
<1> SUFFICES ASSUME PresentIsEnabled, [Next]_vars PROVE PresentIsEnabled'
  OBVIOUS
<1>1. CASE pc' = pc /\ records' = records /\ order' = order
  BY <1>1 DEF PresentIsEnabled, Present
<1>2. CASE pc' \notin {"waiting", "backoff"}
  BY <1>2 DEF PresentIsEnabled
<1>3. CASE Begin \/ Retry
  <2>1. records' = records /\ order' = order /\ Present \in Enabled
    BY <1>3 DEF Begin, Retry, PresentIsEnabled
  <2> QED
    BY <2>1 DEF PresentIsEnabled, Present
<1>4. CASE AttemptFails \/ TimeOut
  <2>1. order' = order /\ pc = "waiting" /\ AfterFailure
    BY <1>4 DEF AttemptFails, TimeOut
  <2>2. CASE records' = records
    BY <2>1, <2>2 DEF PresentIsEnabled, Present
  <2>3. CASE records' # records
    BY <1>2, <2>1, <2>3 DEF AfterFailure, Report
  <2> QED
    BY <2>2, <2>3
<1> QED
  BY <1>1, <1>2, <1>3, <1>4
     DEF Next, Worker, Change, Tick, Request, RequestFails, StartRun, Skip, Succeed, Report, vars

(* The next cursor of an answer continues the cursor that was given. *)
LEMMA CursorContinues ==
    ASSUME NEW t, ThreadOK(t)
    PROVE  Runs!Continues(t.source, t.cursor, t.read, CursorAfter(t))
<1>1. CursorAfter(t) \in Cursor
  BY CursorAfterType
<1>2. ASSUME ConnectorOf[t.source] = "nhtsa-recalls"
      PROVE  /\ {i \in Items : t.read[i] # 0} \cap t.cursor.seen = {}
             /\ CursorAfter(t).seen = t.cursor.seen \cup {i \in Items : t.read[i] # 0}
  BY <1>2, CursorAfterRecalls DEF ThreadOK, Recalls, Got
<1>3. ASSUME ConnectorOf[t.source] = "rss" PROVE CursorAfter(t).to >= t.cursor.to
  <2>1. t.cursor.to \in Nat /\ t.read \in Reading
    BY DEF ThreadOK, Thread, Cursor
  <2>2. Latest(t.read, t.cursor.to) >= t.cursor.to
    BY <2>1, LatestIsADate
  <2>3. CursorAfter(t).to \in {t.cursor.to, Latest(t.read, t.cursor.to)}
    BY <1>3 DEF CursorAfter, NoCursor
  <2> QED
    BY <2>1, <2>2, <2>3
<1>4. ASSUME ConnectorOf[t.source] = "sample" PROVE CursorAfter(t).next = t.cursor.next + 1
  BY <1>4 DEF CursorAfter, NoCursor
<1> QED
  BY <1>1, <1>2, <1>3, <1>4 DEF Runs!Continues

(* A record ends the run of a source, and the last one the whole run. *)
LEMMA ReportIsRecord ==
    ASSUME NEW status, NEW attempts, Report(status, attempts), UNCHANGED <<order, kept>>
    PROVE  Runs!Record(status, attempts)
BY DEF Report, Runs!Record, Present, Runs!Present

LEMMA SucceedIsAtomic ==
    ASSUME IInv, PresentIsEnabled, Succeed PROVE Runs!Succeed
<1>1. PICK p \in Sources : p = Present
  BY PresentType DEF IInv, Succeed
<1>2. PICK t \in Thread : t = threads[Len(threads)]
  BY LastThread DEF IInv, Succeed
<1>3. ThreadOK(t) /\ t.source = p /\ t.cursor = state.cursors[p]
  BY <1>1, <1>2, LastThread DEF IInv, ThreadsOK, PresentIsCollected, Succeed
<1>4. PICK c \in Cursor : c = CursorAfter(t)
  BY <1>3, CursorAfterType
<1>5. /\ pc = "waiting" /\ Report("success", attempt) /\ UNCHANGED <<order, kept>>
      /\ state'.cursors = [state.cursors EXCEPT ![p] = c]
      /\ log' = [log EXCEPT ![p] = Append(@, t.read)]
  BY <1>1, <1>2, <1>4 DEF Succeed
<1>6. Runs!Present = p /\ p \in {s \in Enabled : ConnectorOf[s] # NoConnector}
  <2>1. p \in Enabled /\ ConnectorOf[p] \in Connectors
    BY <1>1, <1>5 DEF PresentIsEnabled, IInv, PresentIsCollected
  <2> QED
    BY <1>1, <2>1, ConfigurationAssumption DEF Runs!Present, Present
<1>7. attempt \in 1 .. Retries + 1
  BY <1>5, Numbers DEF IInv, TypeOK, AttemptsCount
<1>8. Runs!Record("success", attempt)
  BY <1>5, ReportIsRecord
<1>9. Runs!Continues(p, state.cursors[p], t.read, c)
  BY <1>3, <1>4, CursorContinues
<1>10. state'.cursors[p] = c
  BY <1>5 DEF IInv, TypeOK
<1>11. log'[p][Len(log[p]) + 1] = t.read
  <2>1. log[p] \in Seq(Reading) /\ t.read \in Reading
    BY DEF IInv, TypeOK, Thread
  <2>2. log'[p] = Append(log[p], t.read)
    BY <1>5 DEF IInv, TypeOK
  <2> QED
    BY <2>1, <2>2, AppendFacts
<1> QED
  BY <1>5, <1>6, <1>7, <1>8, <1>9, <1>10, <1>11 DEF Runs!Succeed

LEMMA FailureIsAtomic ==
    ASSUME IInv, PresentIsEnabled, AttemptFails \/ TimeOut
    PROVE  Runs!Fail \/ UNCHANGED Runs!runVars
<1>1. pc = "waiting" /\ AfterFailure /\ UNCHANGED <<order, kept, log>>
  BY DEF AttemptFails, TimeOut, history
<1>2. CASE attempt <= Retries
  BY <1>1, <1>2 DEF AfterFailure, Runs!runVars
<1>3. CASE ~ (attempt <= Retries)
  <2>1. attempt = Retries + 1
    BY <1>3, Numbers DEF IInv, TypeOK
  <2>2. Report("failed", attempt) /\ state' = [state EXCEPT !.allowed[Present] = now + Interval]
    BY <1>1, <1>3 DEF AfterFailure
  <2>3. state'.cursors = state.cursors
    BY <2>2 DEF IInv, TypeOK
  <2>4. Runs!Record("failed", Retries + 1)
    BY <1>1, <2>1, <2>2, ReportIsRecord
  <2>5. Runs!Present \in {s \in Enabled : ConnectorOf[s] # NoConnector}
    BY <1>1, ConfigurationAssumption
       DEF PresentIsEnabled, IInv, PresentIsCollected, Runs!Present, Present
  <2> QED
    BY <1>1, <2>3, <2>4, <2>5 DEF Runs!Fail
<1> QED
  BY <1>2, <1>3

LEMMA RunsStep ==
    IInv /\ PresentIsEnabled /\ [Next]_vars => [Runs!Next]_Runs!runVars
<1> SUFFICES ASSUME IInv, PresentIsEnabled, [Next]_vars
             PROVE  Runs!Next \/ UNCHANGED Runs!runVars
  OBVIOUS
<1>1. CASE /\ UNCHANGED <<order, kept, records, state, log>>
           /\ pc' # "idle" <=> pc # "idle"
  BY <1>1 DEF Runs!runVars
<1>2. CASE StartRun
  <2>1. /\ pc = "idle" /\ pc' = "source" /\ records' = << >>
        /\ state'.cursors = IF kept THEN state.cursors ELSE [s \in Sources |-> NoCursor]
        /\ UNCHANGED <<order, kept, log>>
    BY <1>2 DEF StartRun, FreshState, history
  <2> QED
    BY <2>1 DEF Runs!Next, Runs!Start
<1>3. CASE Skip
  <2>1. /\ pc = "source" /\ Report("skipped", 0) /\ UNCHANGED <<order, kept, state, log>>
        /\ Runs!Present \notin {s \in Enabled : ConnectorOf[s] # NoConnector}
    BY <1>3 DEF Skip, history, Present, Runs!Present
  <2> QED
    BY <2>1, ReportIsRecord DEF Runs!Next, Runs!Skip
<1>4. CASE Succeed
  BY <1>4, SucceedIsAtomic DEF Runs!Next
<1>5. CASE AttemptFails \/ TimeOut
  BY <1>5, FailureIsAtomic DEF Runs!Next
<1>6. CASE Begin \/ Retry
  BY <1>1, <1>6 DEF Begin, Retry, Submit
<1>7. CASE UNCHANGED vars
  BY <1>1, <1>7 DEF vars
<1>8. CASE \/ \E i \in Items : Change(i)
           \/ Tick
           \/ \E n \in 1 .. Len(threads) : Request(n) \/ RequestFails(n)
  BY <1>1, <1>8 DEF Change, Tick, Request, RequestFails, history
<1> QED
  BY <1>2, <1>3, <1>4, <1>5, <1>6, <1>7, <1>8 DEF Next, Worker

(* Seen from outside, every source is collected in one step, whatever       *)
(* fails, hangs or answers late: no thread that is left behind ever writes  *)
(* anything, and a success continues the cursor that is there               *)
(* (run_connector, run_with_timeout).                                       *)
THEOREM RunsAreCollectedAtomically == Spec => RunsAreAtomic
<1>1. Init => Runs!Init
  BY DEF Init, Runs!Init, FreshState
<1>2. Init => PresentIsEnabled
  BY DEF Init, PresentIsEnabled
<1> QED
  BY <1>1, <1>2, StepEnabled, RunsStep, Invariance, PTL DEF Spec, RunsAreAtomic, Runs!Spec
=============================================================================
