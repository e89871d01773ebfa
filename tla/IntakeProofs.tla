---------------------------- MODULE IntakeProofs ----------------------------
(* Theorems about Intake, for every set of submissions, changes, payloads   *)
(* and reports and every number of rows.                                    *)
EXTENDS Intake, TLAPS, SequenceTheorems, FiniteSetTheorems

-----------------------------------------------------------------------------
(* Sequences: an element is added at the end or replaced.                   *)
LEMMA AppendFacts ==
    ASSUME NEW S, NEW s \in Seq(S), NEW x \in S
    PROVE  /\ Append(s, x) \in Seq(S)
           /\ DOMAIN s = 1 .. Len(s) /\ Len(s) \in Nat
           /\ Len(Append(s, x)) = Len(s) + 1
           /\ DOMAIN Append(s, x) = DOMAIN s \cup {Len(s) + 1}
           /\ Len(s) + 1 \notin DOMAIN s
           /\ \A i \in DOMAIN s : Append(s, x)[i] = s[i]
           /\ Append(s, x)[Len(s) + 1] = x
BY AppendProperties

LEMMA AppendAny ==
    ASSUME NEW S, NEW s \in Seq(S), NEW x
    PROVE  /\ DOMAIN s = 1 .. Len(s) /\ Len(s) \in Nat
           /\ Len(Append(s, x)) = Len(s) + 1
           /\ DOMAIN Append(s, x) = DOMAIN s \cup {Len(s) + 1}
           /\ Len(s) + 1 \notin DOMAIN s
           /\ \A i \in DOMAIN s : Append(s, x)[i] = s[i]
           /\ Append(s, x)[Len(s) + 1] = x
<1> DEFINE T == S \cup {x}
<1>1. s \in Seq(T) /\ x \in T
    OBVIOUS
<1> HIDE DEF T
<1> QED BY <1>1, AppendFacts

LEMMA ReplaceFacts ==
    ASSUME NEW S, NEW s \in Seq(S), NEW i \in DOMAIN s, NEW x \in S
    PROVE  /\ [s EXCEPT ![i] = x] \in Seq(S)
           /\ DOMAIN [s EXCEPT ![i] = x] = DOMAIN s
           /\ Len([s EXCEPT ![i] = x]) = Len(s)
           /\ [s EXCEPT ![i] = x][i] = x
           /\ \A j \in DOMAIN s : j # i => [s EXCEPT ![i] = x][j] = s[j]
BY ExceptSeq

(* A sequence with an element has a first one. *)
LEMMA FirstFacts ==
    ASSUME NEW S, NEW s \in Seq(S), s # << >>
    PROVE  1 \in DOMAIN s /\ s[1] \in S
BY EmptySeq

LEMMA SingleFacts ==
    ASSUME NEW S, NEW x \in S
    PROVE  <<x>> \in Seq(S) /\ <<x>> # << >> /\ <<x>>[1] = x
OBVIOUS

(* A list that was not empty keeps its first element when it is extended.   *)
LEMMA ExtendedFacts ==
    ASSUME NEW S, NEW current \in Seq(S), NEW read \in Seq(S), NEW x \in S,
           current # << >>, read # << >>
    PROVE  /\ Extended(current, read, x) \in Seq(S)
           /\ Extended(current, read, x) # << >>
           /\ current = read => Extended(current, read, x)[1] = current[1]
<1>1. /\ Append(read, x) \in Seq(S) /\ Append(read, x) # << >>
      /\ Append(read, x)[1] = read[1]
    BY AppendFacts, FirstFacts, EmptySeq
<1> QED BY <1>1 DEF Extended

-----------------------------------------------------------------------------
(* The keys that the three intakes compute.                                 *)
LEMMA ManualKeyFacts ==
    ASSUME NEW cve \in Cves \cup {None}, NEW t \in Titles, NEW n \in Names, NEW u \in Urls
    PROVE  /\ ManualKey(cve, t, n, u) \in Key
           /\ ManualKey(cve, t, n, u).kind \in {"manual cve", "manual text"}
           /\ cve # None => ManualKey(cve, t, n, u).kind = "manual cve"
<1>1. <<t, n, u>> \in Texts
    BY DEF Texts
<1>2. CASE cve # None
    BY <1>2 DEF ManualKey, Key
<1>3. CASE cve = None
    BY <1>1, <1>3 DEF ManualKey, Key
<1> QED BY <1>2, <1>3

LEMMA SubmissionKeyFacts ==
    ASSUME NEW s \in Submission
    PROVE  /\ ManualKey(s.cve, s.title, s.name, s.url) \in Key
           /\ ManualKey(s.cve, s.title, s.name, s.url).kind \in {"manual cve", "manual text"}
           /\ s.cve # None => ManualKey(s.cve, s.title, s.name, s.url).kind = "manual cve"
<1> DEFINE cve == s.cve  t == s.title  n == s.name  u == s.url
<1>1. cve \in Cves \cup {None} /\ t \in Titles /\ n \in Names /\ u \in Urls
    BY DEF Submission
<1> HIDE DEF cve, t, n, u
<1>2. /\ ManualKey(cve, t, n, u) \in Key
      /\ ManualKey(cve, t, n, u).kind \in {"manual cve", "manual text"}
      /\ cve # None => ManualKey(cve, t, n, u).kind = "manual cve"
    BY <1>1, ManualKeyFacts
<1> QED BY <1>2, Zenon DEF cve, t, n, u

LEMMA IngestKeyFacts ==
    ASSUME NEW p \in Payload
    PROVE  /\ IngestKey(p) \in Key
           /\ IngestKey(p).kind \notin {"manual cve", "manual text"}
           /\ p.cve # None => IngestKey(p) = [kind |-> "cve", of |-> p.cve]
           /\ p.cve = None => IngestKey(p).kind # "cve"
<1>1. /\ p.cve \in Cves \cup {None} /\ p.dedup \in Ids \cup {None}
      /\ p.id \in Ids \cup {None} /\ p.hash \in Hashes \cup {None}
      /\ p.name \in Names /\ p.url \in Urls
    BY DEF Payload
<1>2. p.id # None => <<p.name, p.id>> \in Collectors
    BY <1>1 DEF Collectors
<1>3. CASE p.cve # None
    BY <1>1, <1>3 DEF IngestKey, Key
<1>4. CASE p.cve = None /\ p.dedup # None
    BY <1>1, <1>4 DEF IngestKey, Key
<1>5. CASE p.cve = None /\ p.dedup = None /\ p.id # None
    BY <1>1, <1>2, <1>5 DEF IngestKey, Key
<1>6. CASE p.cve = None /\ p.dedup = None /\ p.id = None /\ p.hash # None
    BY <1>1, <1>6 DEF IngestKey, Key
<1>7. CASE p.cve = None /\ p.dedup = None /\ p.id = None /\ p.hash = None
    BY <1>1, <1>7 DEF IngestKey, Key
<1> QED BY <1>3, <1>4, <1>5, <1>6, <1>7

LEMMA ReportKeyFacts ==
    ASSUME NEW r \in Report
    PROVE  /\ ReportKey(r) \in Key
           /\ ReportKey(r).kind \in {"cve", "url"}
           /\ r.cve # None => ReportKey(r) = [kind |-> "cve", of |-> r.cve]
           /\ r.cve = None => ReportKey(r).kind # "cve"
<1>1. r.cve \in Cves \cup {None} /\ r.url \in Urls
    BY DEF Report
<1>2. CASE r.cve # None
    BY <1>1, <1>2 DEF ReportKey, Key
<1>3. CASE r.cve = None
    BY <1>1, <1>3 DEF ReportKey, Key
<1> QED BY <1>2, <1>3

-----------------------------------------------------------------------------
(* The invariant.  A key of a CVE goes with that CVE, and outside manual    *)
(* entries the CVE with its key.                                            *)
KeyTellsCve(r) ==
    /\ r.key.kind = "cve" => r.cve = r.key.of
    /\ r.cve # None /\ r.key.kind # "manual cve" => r.key = [kind |-> "cve", of |-> r.cve]

GoodRow(r) == r \in Row /\ r.names # << >> /\ r.urls # << >> /\ KeyTellsCve(r)

RowsInv ==
    /\ rows \in Seq(Row) /\ raws \in Seq(Raw)
    /\ \A i \in DOMAIN rows : GoodRow(rows[i]) /\ rows[i].raw \in 0 .. Len(raws)
    /\ \A i, j \in DOMAIN rows : rows[i].key = rows[j].key => i = j
    /\ HandmadeKeyIsCurrent

(* What an ingest has read of an entry made by hand is still so.            *)
ApiInv ==
    api # None /\ api.row # 0 =>
        /\ api.row \in DOMAIN rows
        /\ GoodRow(api.copy)
        /\ Handmade(api.row) => api.copy = rows[api.row]

(* The worker is never at an entry made by hand.                            *)
WorkerInv ==
    worker # None /\ worker.row # 0 =>
        /\ worker.row \in DOMAIN rows
        /\ GoodRow(worker.copy)
        /\ worker.copy.key = ReportKey(worker.report)
        /\ ~ Handmade(worker.row)

IInv == TypeOK /\ RowsInv /\ ApiInv /\ WorkerInv

-----------------------------------------------------------------------------
(* A step that stores a new row. *)
LEMMA AppendRow ==
    ASSUME RowsInv, NEW r, GoodRow(r), Holders(r.key) = {}, rows' = Append(rows, r),
           raws' \in Seq(Raw), Len(raws') >= Len(raws),
           \A n \in 1 .. Len(raws) : raws'[n].hash = raws[n].hash,
           r.raw \in 0 .. Len(raws'),
           r.raw # 0 /\ raws'[r.raw].hash.kind = "manual" => r.manual /\ r.key = KeyNow(r)
    PROVE  /\ RowsInv'
           /\ \A i \in DOMAIN rows : i \in DOMAIN rows' /\ rows'[i] = rows[i]
                                   /\ (Handmade(i)' <=> Handmade(i))
<1>1. /\ rows' \in Seq(Row)
      /\ DOMAIN rows' = DOMAIN rows \cup {Len(rows) + 1}
      /\ Len(rows) + 1 \notin DOMAIN rows
      /\ \A i \in DOMAIN rows : rows'[i] = rows[i]
      /\ rows'[Len(rows) + 1] = r
    BY AppendFacts DEF RowsInv, GoodRow
<1> DEFINE last == Len(rows) + 1
<1> HIDE DEF last
<1>2. Len(raws) \in Nat /\ Len(raws') \in Nat
    BY LenProperties DEF RowsInv
<1>3. ASSUME NEW i \in DOMAIN rows PROVE Handmade(i)' <=> Handmade(i)
    BY <1>1, <1>2 DEF Handmade, RowsInv
<1>4. ASSUME NEW i \in DOMAIN rows'
      PROVE  GoodRow(rows'[i]) /\ rows'[i].raw \in 0 .. Len(raws')
    BY <1>1, <1>2 DEF RowsInv
<1>5. ASSUME NEW i \in DOMAIN rows', NEW j \in DOMAIN rows', rows'[i].key = rows'[j].key
      PROVE  i = j
    BY <1>1, <1>5 DEF RowsInv, Holders
<1>6. ASSUME NEW i \in DOMAIN rows', Handmade(i)'
      PROVE  rows'[i].manual /\ rows'[i].key = KeyNow(rows'[i])
    <2>1. CASE i \in DOMAIN rows
        BY <1>1, <1>3, <1>6, <2>1 DEF RowsInv, HandmadeKeyIsCurrent
    <2>2. CASE i = Len(rows) + 1
        BY <1>1, <1>6, <2>2 DEF Handmade
    <2> QED BY <1>1, <2>1, <2>2
<1> QED BY <1>1, <1>3, <1>4, <1>5, <1>6 DEF RowsInv, HandmadeKeyIsCurrent

(* A step that changes a row. *)
LEMMA ReplaceRow ==
    ASSUME RowsInv, NEW i \in DOMAIN rows, NEW r, GoodRow(r), Holders(r.key) \subseteq {i},
           rows' = [rows EXCEPT ![i] = r],
           raws' \in Seq(Raw), Len(raws') = Len(raws),
           \A n \in 1 .. Len(raws) : raws'[n].hash = raws[n].hash,
           r.raw = rows[i].raw,
           Handmade(i) => r.manual /\ r.key = KeyNow(r)
    PROVE  /\ RowsInv'
           /\ DOMAIN rows' = DOMAIN rows
           /\ \A j \in DOMAIN rows : (Handmade(j)' <=> Handmade(j)) /\ (j # i => rows'[j] = rows[j])
<1>1. /\ rows' \in Seq(Row)
      /\ DOMAIN rows' = DOMAIN rows
      /\ \A j \in DOMAIN rows : j # i => rows'[j] = rows[j]
      /\ rows'[i] = r
    BY ReplaceFacts DEF RowsInv, GoodRow
<1>2. Len(raws) \in Nat
    BY LenProperties DEF RowsInv
<1>3. ASSUME NEW j \in DOMAIN rows PROVE Handmade(j)' <=> Handmade(j)
    BY <1>1, <1>2 DEF Handmade, RowsInv
<1>4. ASSUME NEW j \in DOMAIN rows'
      PROVE  GoodRow(rows'[j]) /\ rows'[j].raw \in 0 .. Len(raws')
    BY <1>1, <1>2 DEF RowsInv
<1>5. ASSUME NEW j \in DOMAIN rows', NEW k \in DOMAIN rows', rows'[j].key = rows'[k].key
      PROVE  j = k
    BY <1>1, <1>5 DEF RowsInv, Holders
<1>6. ASSUME NEW j \in DOMAIN rows', Handmade(j)'
      PROVE  rows'[j].manual /\ rows'[j].key = KeyNow(rows'[j])
    BY <1>1, <1>3, <1>6 DEF RowsInv, HandmadeKeyIsCurrent
<1> QED BY <1>1, <1>3, <1>4, <1>5, <1>6 DEF RowsInv, HandmadeKeyIsCurrent

-----------------------------------------------------------------------------
(* The types of what the operations write.                                  *)
LEMMA LinkAfterType ==
    ASSUME NEW p \in Payload, NEW link \in Link \cup {None}
    PROVE  LinkAfter(link, p) \in Link
BY DEF LinkAfter, Payload, Link

LEMMA MergedFacts ==
    ASSUME NEW row, GoodRow(row), NEW read, GoodRow(read), NEW p \in Payload
    PROVE  /\ GoodRow(Merged(row, read, p))
           /\ Merged(row, read, p).key = row.key
           /\ Merged(row, read, p).raw = row.raw
           /\ row.manual => Merged(row, read, p).manual
           /\ read = row /\ row.key = KeyNow(row)
                 => Merged(row, read, p).key = KeyNow(Merged(row, read, p))
           /\ Merged(row, read, p).title = row.title
           /\ read = row => /\ Merged(row, read, p).names[1] = row.names[1]
                            /\ Merged(row, read, p).urls[1] = row.urls[1]
<1> DEFINE names == Extended(row.names, read.names, p.name)
           urls  == Extended(row.urls, read.urls, p.url)
           link  == LinkAfter(row.links[p.url], p)
<1>1. /\ row \in Row /\ row.names # << >> /\ row.urls # << >> /\ KeyTellsCve(row)
      /\ read \in Row /\ read.names # << >> /\ read.urls # << >>
      /\ row.names \in Seq(Names) /\ row.urls \in Seq(Urls)
      /\ read.names \in Seq(Names) /\ read.urls \in Seq(Urls)
      /\ row.links \in [Urls -> Link \cup {None}]
      /\ p.name \in Names /\ p.url \in Urls /\ p.manual \in BOOLEAN
    BY DEF GoodRow, Row, Payload
<1>2. names \in Seq(Names) /\ names # << >> /\ (row.names = read.names => names[1] = row.names[1])
    <2> DEFINE a == row.names  b == read.names  x == p.name
    <2>1. /\ a \in Seq(Names) /\ b \in Seq(Names) /\ x \in Names
          /\ a # << >> /\ b # << >> /\ names = Extended(a, b, x)
        BY <1>1
    <2> HIDE DEF a, b, x, names
    <2>2. names \in Seq(Names) /\ names # << >> /\ (a = b => names[1] = a[1])
        BY <2>1, ExtendedFacts
    <2> QED BY <2>2 DEF a, b
<1>3. urls \in Seq(Urls) /\ urls # << >> /\ (row.urls = read.urls => urls[1] = row.urls[1])
    <2> DEFINE a == row.urls  b == read.urls  x == p.url
    <2>1. /\ a \in Seq(Urls) /\ b \in Seq(Urls) /\ x \in Urls
          /\ a # << >> /\ b # << >> /\ urls = Extended(a, b, x)
        BY <1>1
    <2> HIDE DEF a, b, x, urls
    <2>2. urls \in Seq(Urls) /\ urls # << >> /\ (a = b => urls[1] = a[1])
        BY <2>1, ExtendedFacts
    <2> QED BY <2>2 DEF a, b
<1>4. link \in Link
    BY <1>1, LinkAfterType
<1> HIDE DEF names, urls, link
<1>5. Merged(row, read, p) =
        [row EXCEPT !.names = names, !.urls = urls, !.manual = row.manual \/ p.manual,
                    !.links = [row.links EXCEPT ![p.url] = link]]
    BY <1>1 DEF Merged, names, urls, link, Row
<1> DEFINE m == row.manual \/ p.manual
<1>6. m \in BOOLEAN /\ (row.manual => m)
    OBVIOUS
<1> DEFINE links == [row.links EXCEPT ![p.url] = link]
<1>7. links \in [Urls -> Link \cup {None}]
    BY <1>1, <1>4
<1> HIDE DEF m, links
<1> DEFINE new == [row EXCEPT !.names = names, !.urls = urls, !.manual = m, !.links = links]
<1>8. /\ new \in Row /\ new.key = row.key /\ new.cve = row.cve /\ new.title = row.title
      /\ new.names = names /\ new.urls = urls /\ new.manual = m /\ new.raw = row.raw
    BY <1>1, <1>2, <1>3, <1>6, <1>7 DEF Row
<1>9. Merged(row, read, p) = new
    BY <1>5 DEF m, links
<1> HIDE DEF new
<1>10. GoodRow(new)
    BY <1>1, <1>2, <1>3, <1>8 DEF GoodRow, KeyTellsCve
<1>11. read = row /\ row.key = KeyNow(row) => new.key = KeyNow(new)
    BY <1>2, <1>3, <1>8 DEF KeyNow
<1>12. read = row => new.names[1] = row.names[1] /\ new.urls[1] = row.urls[1]
    BY <1>2, <1>3, <1>8
<1> QED BY <1>6, <1>8, <1>9, <1>10, <1>11, <1>12

LEMMA ReportedFacts ==
    ASSUME NEW row, GoodRow(row), NEW read, GoodRow(read), NEW r \in Report,
           read.key = ReportKey(r)
    PROVE  /\ GoodRow(Reported(row, read, r))
           /\ Reported(row, read, r).key = row.key
           /\ Reported(row, read, r).raw = row.raw
<1> DEFINE names == Extended(read.names, read.names, r.name)
           urls  == Extended(read.urls, read.urls, r.url)
           link  == [name |-> r.name, id |-> r.id]
           links == [row.links EXCEPT ![r.url] = link]
<1>1. /\ row \in Row /\ row.names # << >> /\ row.urls # << >> /\ KeyTellsCve(row)
      /\ read \in Row /\ read.names # << >> /\ read.urls # << >> /\ KeyTellsCve(read)
      /\ read.names \in Seq(Names) /\ read.urls \in Seq(Urls) /\ read.manual \in BOOLEAN
      /\ row.links \in [Urls -> Link \cup {None}]
      /\ r.name \in Names /\ r.url \in Urls /\ r.id \in Ids \cup {None}
    BY DEF GoodRow, Row, Report
<1>2. names \in Seq(Names) /\ names # << >> /\ urls \in Seq(Urls) /\ urls # << >>
    <2> DEFINE a == read.names  x == r.name  b == read.urls  y == r.url
    <2>1. /\ a \in Seq(Names) /\ x \in Names /\ a # << >> /\ names = Extended(a, a, x)
          /\ b \in Seq(Urls) /\ y \in Urls /\ b # << >> /\ urls = Extended(b, b, y)
        BY <1>1
    <2> HIDE DEF a, b, x, y, names, urls
    <2> QED BY <2>1, ExtendedFacts
<1>3. link \in Link
    BY <1>1 DEF Link
<1> HIDE DEF link
<1>4. links \in [Urls -> Link \cup {None}]
    BY <1>1, <1>3
<1>5. ~ (read.cve = None /\ r.cve # None)
    <2>1. r.cve \in Cves \cup {None}
        BY DEF Report
    <2>2. r.cve # None => read.key = [kind |-> "cve", of |-> r.cve]
        BY ReportKeyFacts
    <2>3. KeyTellsCve(read)
        BY <1>1
    <2>4. r.cve # None => read.key.kind = "cve" /\ read.key.of = r.cve
        BY <2>2
    <2>5. r.cve # None => read.cve = r.cve
        BY <2>3, <2>4 DEF KeyTellsCve
    <2> QED BY <2>5
<1>6. Reported(row, read, r) =
        [row EXCEPT !.names = names, !.urls = urls, !.manual = read.manual, !.links = links]
    BY <1>1, <1>5 DEF Reported, link, Row
<1> HIDE DEF names, urls, links
<1> DEFINE new == [row EXCEPT !.names = names, !.urls = urls, !.manual = read.manual,
                              !.links = links]
<1>7. /\ new \in Row /\ new.key = row.key /\ new.cve = row.cve
      /\ new.names = names /\ new.urls = urls /\ new.raw = row.raw
    BY <1>1, <1>2, <1>4 DEF Row
<1> HIDE DEF new
<1>8. GoodRow(new)
    BY <1>1, <1>2, <1>7 DEF GoodRow, KeyTellsCve
<1> QED BY <1>6, <1>7, <1>8 DEF new

(* A row with its links replaced.                                           *)
Linked(row, links) == [row EXCEPT !.links = links]

(* A row that an update has changed is well-formed again, and its key is the *)
(* one of its new content.                                                   *)
LEMMA ChangedFacts ==
    ASSUME NEW row, GoodRow(row), NEW c \in Alteration,
           NEW links \in LinksAfter(Changed(row, c))
    PROVE  /\ GoodRow(Linked(Changed(row, c), links))
           /\ Linked(Changed(row, c), links).key = Changed(row, c).key
           /\ Linked(Changed(row, c), links).key = KeyNow(Linked(Changed(row, c), links))
           /\ Linked(Changed(row, c), links).raw = row.raw
           /\ Linked(Changed(row, c), links).manual = row.manual
           /\ Changed(row, c).raw = row.raw
           /\ Changed(row, c).title \in Titles
           /\ Changed(row, c).names[1] \in Names /\ Changed(row, c).urls[1] \in Urls
<1> DEFINE title == IF c.title = Same THEN row.title ELSE c.title
           cve   == IF c.cve = Same THEN row.cve ELSE c.cve
           name  == IF c.name = Same THEN row.names[1] ELSE c.name
           url   == IF c.url = Same THEN row.urls[1] ELSE c.url
           moved == c.name # Same \/ c.url # Same
           names == IF moved THEN <<name>> ELSE row.names
           urls  == IF moved THEN <<url>> ELSE row.urls
           key   == ManualKey(cve, title, name, url)
<1>1. /\ row \in Row /\ row.names # << >> /\ row.urls # << >>
      /\ row.names \in Seq(Names) /\ row.urls \in Seq(Urls)
      /\ row.title \in Titles /\ row.cve \in Cves \cup {None}
      /\ row.links \in [Urls -> Link \cup {None}]
      /\ c.title \in Titles \cup {Same} /\ c.cve \in Cves \cup {None, Same}
      /\ c.name \in Names \cup {Same} /\ c.url \in Urls \cup {Same}
    BY DEF GoodRow, Row, Alteration
<1>2. row.names[1] \in Names /\ row.urls[1] \in Urls
    BY <1>1, FirstFacts
<1>3. title \in Titles /\ cve \in Cves \cup {None} /\ name \in Names /\ url \in Urls
    BY <1>1, <1>2
<1>4. /\ names \in Seq(Names) /\ names # << >> /\ names[1] = name
      /\ urls \in Seq(Urls) /\ urls # << >> /\ urls[1] = url
    BY <1>1, <1>2, <1>3, SingleFacts
<1> HIDE DEF title, cve, name, url
<1>5. /\ key \in Key /\ key.kind \in {"manual cve", "manual text"}
      /\ cve # None => key.kind = "manual cve"
    BY <1>3, ManualKeyFacts, Zenon
<1>6. Changed(row, c) = [row EXCEPT !.title = title, !.cve = cve, !.names = names,
                                    !.urls = urls, !.key = key]
    BY <1>1 DEF Changed, Rekeyed, Row, title, cve, name, url
<1> HIDE DEF moved, names, urls, key
<1> DEFINE mid == [row EXCEPT !.title = title, !.cve = cve, !.names = names,
                              !.urls = urls, !.key = key]
<1>7. /\ mid \in Row /\ mid.title = title /\ mid.cve = cve /\ mid.names = names
      /\ mid.urls = urls /\ mid.key = key /\ mid.links = row.links
      /\ mid.raw = row.raw /\ mid.manual = row.manual
    BY <1>1, <1>3, <1>4, <1>5 DEF Row
<1>8. Changed(row, c) = mid
    BY <1>6
<1> HIDE DEF mid
<1>9. links \in [Urls -> Link \cup {None}]
    <2> DEFINE first == [name |-> mid.names[1], id |-> mid.key]
    <2>1. first \in Link
        BY <1>3, <1>4, <1>5, <1>7 DEF Link
    <2> HIDE DEF first
    <2>2. links \in LinksAfter(mid)
        BY <1>8
    <2>3. \/ links = mid.links
          \/ \E u \in Urls : links = [mid.links EXCEPT ![u] = None, ![mid.urls[1]] = first]
        BY <2>2 DEF LinksAfter, first
    <2> QED BY <1>1, <1>7, <2>1, <2>3
<1> DEFINE new == [mid EXCEPT !.links = links]
<1>10. /\ new \in Row /\ new.title = title /\ new.cve = cve /\ new.names = names
       /\ new.urls = urls /\ new.key = key /\ new.raw = row.raw /\ new.manual = row.manual
    BY <1>7, <1>9 DEF Row
<1> HIDE DEF new
<1>11. GoodRow(new)
    BY <1>4, <1>5, <1>10 DEF GoodRow, KeyTellsCve
<1>12. key = KeyNow(new)
    BY <1>4, <1>10 DEF KeyNow, key
<1>13. /\ new.key = mid.key /\ new.raw = row.raw /\ mid.raw = row.raw
       /\ mid.title \in Titles /\ mid.names[1] \in Names /\ mid.urls[1] \in Urls
    BY <1>3, <1>4, <1>7, <1>10
<1>14. Linked(Changed(row, c), links) = new
    BY <1>8 DEF new, Linked
<1> QED BY <1>8, <1>11, <1>12, <1>13, <1>10, <1>14

-----------------------------------------------------------------------------
(* Every step keeps the invariant.                                          *)
LEMMA Audits ==
    ASSUME audit \in Seq(Event), NEW action \in {"created", "duplicate", "updated"},
           NEW i \in Nat, NEW key \in Key
    PROVE  Audited(action, i, key) \in Seq(Event)
<1>1. [action |-> action, row |-> i, key |-> key] \in Event
    BY DEF Event
<1> QED BY <1>1, AppendFacts DEF Audited

LEMMA InitIInv == Init => IInv
<1> SUFFICES ASSUME Init PROVE IInv
    OBVIOUS
<1>1. TypeOK
    BY DEF Init, TypeOK
<1>2. RowsInv
    BY <1>1 DEF Init, RowsInv, TypeOK, HandmadeKeyIsCurrent
<1>3. ApiInv /\ WorkerInv
    BY DEF Init, ApiInv, WorkerInv
<1> QED BY <1>1, <1>2, <1>3 DEF IInv

(* The parts of IInv' that do not depend on the step. *)
LEMMA Rest ==
    ASSUME RowsInv', audit' \in Seq(Event), api' \in Ingesting \cup {None},
           worker' \in Reporting \cup {None}, requests' \in Nat, reports' \in Nat
    PROVE  TypeOK'
<1>1. rows' \in Seq(Row) /\ raws' \in Seq(Raw)
    BY DEF RowsInv
<1>2. \A i \in DOMAIN rows' : rows'[i].names # << >> /\ rows'[i].urls # << >>
    BY DEF RowsInv, GoodRow
<1>3. <<requests', reports'>> \in Nat \X Nat
    OBVIOUS
<1> QED BY <1>1, <1>2, <1>3 DEF TypeOK

(* When every row stays or is changed without becoming handmade, the worker *)
(* still is at none.                                                        *)
LEMMA WorkerStays ==
    ASSUME WorkerInv, UNCHANGED worker, NEW D, D = DOMAIN rows,
           \A i \in D : i \in DOMAIN rows' /\ (Handmade(i)' <=> Handmade(i))
    PROVE  WorkerInv'
BY DEF WorkerInv

LEMMA CreateStep ==
    ASSUME IInv, NEW s \in Submissions, Create(s)
    PROVE  IInv'
<1> DEFINE key == ManualKey(s.cve, s.title, s.name, s.url)
           raw == [hash |-> ManualHash(s), title |-> s.title, name |-> s.name, url |-> s.url]
           link == [name |-> s.name, id |-> key]
           links == [NoLinks EXCEPT ![s.url] = link]
           r == [key |-> key, cve |-> s.cve, title |-> s.title,
                 names |-> <<s.name>>, urls |-> <<s.url>>, manual |-> TRUE,
                 links |-> links, raw |-> Len(raws')]
<1>1. /\ s \in Submission /\ s.title \in Titles /\ s.name \in Names /\ s.url \in Urls
      /\ s.cve \in Cves \cup {None}
    BY RequestsAssumption DEF Submission
<1>2. /\ key \in Key /\ key.kind \in {"manual cve", "manual text"}
      /\ s.cve # None => key.kind = "manual cve"
    BY <1>1, SubmissionKeyFacts, Zenon DEF key
<1>3. ManualHash(s) \in RawHash /\ ManualHash(s).kind = "manual"
    BY <1>1 DEF ManualHash, RawHash
<1>4. raw \in Raw
    BY <1>1, <1>3 DEF Raw
<1>5. /\ raws' = Append(raws, raw) /\ rows' = Append(rows, r) /\ Holders(key) = {}
      /\ audit' = Audited("created", Len(rows'), key) /\ api = None
      /\ requests' = requests + 1 /\ UNCHANGED <<api, worker, reports>>
    BY DEF Create, Request
<1>6. link \in Link
    BY <1>1, <1>2 DEF Link
<1> HIDE DEF key, raw, link
<1>7. links \in [Urls -> Link \cup {None}]
    BY <1>1, <1>6 DEF NoLinks
<1> HIDE DEF links
<1>8. /\ raws' \in Seq(Raw) /\ Len(raws) \in Nat /\ Len(raws') = Len(raws) + 1
      /\ \A n \in 1 .. Len(raws) : raws'[n] = raws[n]
    BY <1>4, <1>5, AppendFacts DEF IInv, TypeOK
<1>9. /\ <<s.name>> \in Seq(Names) /\ <<s.name>> # << >> /\ <<s.name>>[1] = s.name
      /\ <<s.url>> \in Seq(Urls) /\ <<s.url>> # << >> /\ <<s.url>>[1] = s.url
    BY <1>1, SingleFacts
<1>10. r \in Row
    <2> DEFINE names == <<s.name>>  urls == <<s.url>>  n == Len(raws')
    <2>1. names \in Seq(Names) /\ urls \in Seq(Urls) /\ n \in Nat
        BY <1>8, <1>9
    <2> HIDE DEF names, urls, n
    <2>2. [key |-> key, cve |-> s.cve, title |-> s.title, names |-> names, urls |-> urls,
           manual |-> TRUE, links |-> links, raw |-> n] \in Row
        BY <1>1, <1>2, <1>7, <2>1 DEF Row
    <2> QED BY <2>2 DEF names, urls, n
<1>11. KeyTellsCve(r)
    BY <1>2 DEF KeyTellsCve
<1>12. GoodRow(r)
    BY <1>9, <1>10, <1>11 DEF GoodRow
<1>13. r.manual /\ r.key = KeyNow(r) /\ r.raw \in 0 .. Len(raws') /\ Holders(r.key) = {}
    BY <1>5, <1>8, <1>9 DEF KeyNow, key
<1> HIDE DEF r
<1>14. /\ RowsInv'
       /\ \A i \in DOMAIN rows : i \in DOMAIN rows' /\ (Handmade(i)' <=> Handmade(i))
    BY <1>5, <1>8, <1>12, <1>13, AppendRow DEF IInv
<1>15. Len(rows') \in Nat
    BY <1>14, LenProperties DEF RowsInv
<1>16. audit' \in Seq(Event)
    BY <1>2, <1>5, <1>15, Audits DEF IInv, TypeOK
<1>17. TypeOK'
    BY <1>5, <1>14, <1>16, Rest DEF IInv, TypeOK
<1>18. ApiInv'
    BY <1>5 DEF ApiInv
<1>19. WorkerInv'
    BY <1>5, <1>14, WorkerStays DEF IInv
<1> QED BY <1>14, <1>17, <1>18, <1>19 DEF IInv

LEMMA CreateAgainStep ==
    ASSUME IInv, NEW s \in Submissions, CreateAgain(s)
    PROVE  IInv'
<1> DEFINE key == ManualKey(s.cve, s.title, s.name, s.url)
<1>1. /\ s \in Submission /\ s.title \in Titles /\ s.name \in Names /\ s.url \in Urls
      /\ s.cve \in Cves \cup {None}
    BY RequestsAssumption DEF Submission
<1>2. key \in Key
    BY <1>1, SubmissionKeyFacts, Zenon DEF key
<1> HIDE DEF key
<1>3. PICK i \in DOMAIN rows : audit' = Audited("duplicate", i, key)
    BY DEF CreateAgain, Holders, key
<1>4. DOMAIN rows = 1 .. Len(rows)
    BY LenProperties DEF IInv, RowsInv
<1>5. audit' \in Seq(Event)
    BY <1>2, <1>3, <1>4, Audits DEF IInv, TypeOK
<1>6. UNCHANGED <<rows, raws, api, worker, reports>> /\ requests' = requests + 1
    BY DEF CreateAgain, Request
<1>7. RowsInv' /\ ApiInv' /\ WorkerInv'
    BY <1>6 DEF IInv, RowsInv, ApiInv, WorkerInv, Handmade, HandmadeKeyIsCurrent
<1>8. TypeOK'
    BY <1>5, <1>6, <1>7, Rest DEF IInv, TypeOK
<1> QED BY <1>7, <1>8 DEF IInv

LEMMA ChangeStep ==
    ASSUME IInv, NEW i \in DOMAIN rows, NEW c \in Changes, Change(i, c)
    PROVE  IInv'
<1> DEFINE new == Changed(rows[i], c)
<1>1. PICK links \in LinksAfter(new) : rows' = [rows EXCEPT ![i] = [new EXCEPT !.links = links]]
    BY DEF Change
<1> DEFINE r == [new EXCEPT !.links = links]
<1>2. /\ rows[i].manual /\ Holders(new.key) \subseteq {i} /\ api = None
      /\ raws' = IF new.raw = 0 THEN raws ELSE [raws EXCEPT ![new.raw] = RawAfter(@, new)]
      /\ audit' = Audited("updated", i, new.key)
      /\ requests' = requests + 1 /\ UNCHANGED <<api, worker, reports>>
    BY DEF Change, Request
<1>3. GoodRow(rows[i]) /\ rows[i].raw \in 0 .. Len(raws) /\ c \in Alteration
    BY RequestsAssumption DEF IInv, RowsInv
<1>4. /\ GoodRow(r) /\ r.key = new.key /\ r.key = KeyNow(r)
      /\ r.raw = rows[i].raw /\ r.manual = rows[i].manual /\ new.raw = rows[i].raw
      /\ new.title \in Titles /\ new.names[1] \in Names /\ new.urls[1] \in Urls
    <2> DEFINE row == rows[i]
    <2>1. GoodRow(row) /\ c \in Alteration /\ links \in LinksAfter(Changed(row, c))
        BY <1>1, <1>3
    <2> HIDE DEF row
    <2> DEFINE last == Linked(Changed(row, c), links)
    <2>2. /\ GoodRow(last) /\ last.key = Changed(row, c).key /\ last.key = KeyNow(last)
          /\ last.raw = row.raw /\ last.manual = row.manual
          /\ Changed(row, c).raw = row.raw
          /\ Changed(row, c).title \in Titles
          /\ Changed(row, c).names[1] \in Names /\ Changed(row, c).urls[1] \in Urls
        BY <2>1, ChangedFacts
    <2> QED BY <2>2 DEF row, Linked
<1> HIDE DEF new, r
<1>5. /\ raws' \in Seq(Raw) /\ Len(raws') = Len(raws)
      /\ \A n \in 1 .. Len(raws) : raws'[n].hash = raws[n].hash
    <2>1. raws \in Seq(Raw) /\ DOMAIN raws = 1 .. Len(raws) /\ Len(raws) \in Nat
        BY LenProperties DEF IInv, RowsInv
    <2>2. CASE new.raw = 0
        BY <1>2, <2>1, <2>2
    <2>3. CASE new.raw # 0
        <3>1. new.raw \in DOMAIN raws
            BY <1>3, <1>4, <2>1, <2>3
        <3>2. raws[new.raw] \in Raw
            BY <2>1, <3>1
        <3> DEFINE raw == RawAfter(raws[new.raw], new)
        <3>3. raw \in Raw /\ raw.hash = raws[new.raw].hash
            BY <1>4, <3>2 DEF RawAfter, Raw
        <3> HIDE DEF raw
        <3>4. raws' = [raws EXCEPT ![new.raw] = raw]
            BY <1>2, <2>3 DEF raw
        <3> QED BY <2>1, <3>1, <3>3, <3>4, ReplaceFacts
    <2> QED BY <2>2, <2>3
<1>6. rows' = [rows EXCEPT ![i] = r]
    BY <1>1 DEF r
<1>7. /\ RowsInv'
      /\ DOMAIN rows' = DOMAIN rows
      /\ \A j \in DOMAIN rows : Handmade(j)' <=> Handmade(j)
    BY <1>2, <1>4, <1>5, <1>6, ReplaceRow DEF IInv
<1>8. i \in Nat /\ new.key \in Key
    <2>1. DOMAIN rows = 1 .. Len(rows)
        BY LenProperties DEF IInv, RowsInv
    <2> QED BY <1>4, <2>1 DEF GoodRow, Row
<1>9. audit' \in Seq(Event)
    BY <1>2, <1>8, Audits DEF IInv, TypeOK
<1>10. TypeOK'
    BY <1>2, <1>7, <1>9, Rest DEF IInv, TypeOK
<1>11. ApiInv'
    BY <1>2 DEF ApiInv
<1>12. WorkerInv'
    BY <1>2, <1>7, WorkerStays DEF IInv
<1> QED BY <1>7, <1>10, <1>11, <1>12 DEF IInv

-----------------------------------------------------------------------------
(* What a search reads is a row as it is, or nothing.                       *)
LEMMA ReadFacts ==
    ASSUME RowsInv, NEW i \in DOMAIN rows \cup {0}
    PROVE  RowAt(i) \in Row \cup {None} /\ i \in Nat
           /\ (i # 0 => i \in DOMAIN rows /\ RowAt(i) = rows[i] /\ GoodRow(RowAt(i)))
<1>1. DOMAIN rows = 1 .. Len(rows) /\ Len(rows) \in Nat
    BY LenProperties DEF RowsInv
<1>2. CASE i = 0
    BY <1>2 DEF RowAt
<1>3. CASE i # 0
    BY <1>1, <1>3 DEF RowAt, RowsInv, GoodRow
<1> QED BY <1>2, <1>3

LEMMA BeginIngestStep ==
    ASSUME IInv, NEW p \in Payloads, BeginIngest(p)
    PROVE  IInv'
<1>1. PICK i \in Picks(Found(p)) : api' = [payload |-> p, row |-> i, copy |-> RowAt(i)]
    BY DEF BeginIngest
<1>2. i \in DOMAIN rows \cup {0}
    BY <1>1 DEF Picks, Found
<1>3. /\ RowAt(i) \in Row \cup {None} /\ i \in Nat
      /\ (i # 0 => i \in DOMAIN rows /\ RowAt(i) = rows[i] /\ GoodRow(RowAt(i)))
    BY <1>2, ReadFacts DEF IInv
<1>4. api' \in Ingesting
    BY <1>1, <1>3 DEF Ingesting
<1>5. UNCHANGED <<rows, raws, audit, worker, reports>> /\ requests' = requests + 1
    BY DEF BeginIngest, Request
<1>6. RowsInv' /\ WorkerInv'
    BY <1>5 DEF IInv, RowsInv, WorkerInv, Handmade, HandmadeKeyIsCurrent
<1>7. TypeOK'
    BY <1>4, <1>5, <1>6, Rest DEF IInv, TypeOK
<1>8. ApiInv'
    BY <1>1, <1>3, <1>5 DEF ApiInv
<1> QED BY <1>6, <1>7, <1>8 DEF IInv

LEMMA MergeIngestStep ==
    ASSUME IInv, MergeIngest
    PROVE  IInv'
<1> DEFINE i == api.row
           read == api.copy
           p == api.payload
           r == Merged(rows[i], read, p)
<1>1. /\ api # None /\ i # 0 /\ rows' = [rows EXCEPT ![i] = r]
      /\ audit' = Audited("duplicate", i, read.key)
      /\ api' = None /\ UNCHANGED <<raws, worker, requests, reports>>
    BY DEF MergeIngest
<1>2. i \in DOMAIN rows /\ GoodRow(read) /\ (Handmade(i) => read = rows[i])
    BY <1>1 DEF IInv, ApiInv
<1>3. p \in Payload
    <2>1. api \in Ingesting
        BY <1>1 DEF IInv, TypeOK
    <2> QED BY <2>1, RequestsAssumption DEF Ingesting
<1>4. GoodRow(rows[i]) /\ (Handmade(i) => rows[i].manual /\ rows[i].key = KeyNow(rows[i]))
    BY <1>2 DEF IInv, RowsInv, HandmadeKeyIsCurrent
<1> HIDE DEF i, read, p, r
<1>5. /\ GoodRow(r) /\ r.key = rows[i].key /\ r.raw = rows[i].raw
      /\ rows[i].manual => r.manual
      /\ read = rows[i] /\ rows[i].key = KeyNow(rows[i]) => r.key = KeyNow(r)
    BY <1>2, <1>3, <1>4, MergedFacts DEF r
<1>6. Handmade(i) => r.manual /\ r.key = KeyNow(r)
    BY <1>2, <1>4, <1>5
<1>7. Holders(r.key) \subseteq {i}
    BY <1>2, <1>5 DEF Holders, IInv, RowsInv
<1>8. /\ raws' \in Seq(Raw) /\ Len(raws') = Len(raws)
      /\ \A n \in 1 .. Len(raws) : raws'[n].hash = raws[n].hash
    BY <1>1 DEF IInv, TypeOK
<1>9. /\ RowsInv'
      /\ DOMAIN rows' = DOMAIN rows
      /\ \A j \in DOMAIN rows : Handmade(j)' <=> Handmade(j)
    BY <1>1, <1>2, <1>5, <1>6, <1>7, <1>8, ReplaceRow DEF IInv
<1>10. i \in Nat /\ read.key \in Key
    <2>1. DOMAIN rows = 1 .. Len(rows)
        BY LenProperties DEF IInv, RowsInv
    <2> QED BY <1>2, <2>1 DEF GoodRow, Row
<1>11. audit' \in Seq(Event)
    BY <1>1, <1>10, Audits DEF IInv, TypeOK
<1>12. TypeOK'
    BY <1>1, <1>9, <1>11, Rest DEF IInv, TypeOK
<1>13. ApiInv'
    BY <1>1 DEF ApiInv
<1>14. WorkerInv'
    BY <1>1, <1>9, WorkerStays DEF IInv
<1> QED BY <1>9, <1>12, <1>13, <1>14 DEF IInv

LEMMA CreateIngestStep ==
    ASSUME IInv, CreateIngest
    PROVE  IInv'
<1> DEFINE p == api.payload
           key == IngestKey(p)
           raw == [hash |-> IngestHash(p), title |-> p.title, name |-> p.name, url |-> p.url]
           link == LinkAfter(None, p)
           links == [NoLinks EXCEPT ![p.url] = link]
           names == <<p.name>>
           urls == <<p.url>>
           n == Len(raws')
           r == [key |-> key, cve |-> p.cve, title |-> p.title, names |-> names,
                 urls |-> urls, manual |-> p.manual, links |-> links, raw |-> n]
<1>1. /\ api # None /\ Holders(key) = {}
      /\ raws' = Append(raws, raw) /\ rows' = Append(rows, r)
      /\ audit' = Audited("created", Len(rows'), key)
      /\ api' = None /\ UNCHANGED <<worker, requests, reports>>
    BY DEF CreateIngest
<1>2. p \in Payload
    <2>1. api \in Ingesting
        BY <1>1 DEF IInv, TypeOK
    <2> QED BY <2>1, RequestsAssumption DEF Ingesting
<1> HIDE DEF p
<1>3. /\ p.title \in Titles /\ p.name \in Names /\ p.url \in Urls /\ p.manual \in BOOLEAN
      /\ p.cve \in Cves \cup {None}
    BY <1>2 DEF Payload
<1>4. /\ key \in Key /\ key.kind \notin {"manual cve", "manual text"}
      /\ p.cve # None => key = [kind |-> "cve", of |-> p.cve]
      /\ p.cve = None => key.kind # "cve"
    BY <1>2, IngestKeyFacts
<1>5. IngestHash(p) \in RawHash /\ IngestHash(p).kind = "ingest"
    <2> DEFINE content == IF p.hash # None THEN p.hash
                          ELSE [p EXCEPT !.dedup = None, !.manual = FALSE]
    <2>1. content \in Content
        BY <1>2 DEF Content, Payload
    <2> HIDE DEF content
    <2>2. [kind |-> "ingest", name |-> p.name, url |-> p.url, content |-> content] \in RawHash
        BY <1>3, <2>1 DEF RawHash
    <2> QED BY <2>2 DEF IngestHash, content
<1>6. raw \in Raw /\ raw.hash.kind = "ingest"
    BY <1>3, <1>5 DEF Raw
<1>7. link \in Link
    BY <1>2, LinkAfterType
<1> HIDE DEF key, raw, link
<1>8. links \in [Urls -> Link \cup {None}]
    BY <1>3, <1>7 DEF NoLinks
<1> HIDE DEF links
<1>9. /\ raws' \in Seq(Raw) /\ Len(raws) \in Nat /\ Len(raws') = Len(raws) + 1
      /\ \A m \in 1 .. Len(raws) : raws'[m] = raws[m]
      /\ raws'[Len(raws')] = raw
    BY <1>1, <1>6, AppendFacts DEF IInv, TypeOK
<1>10. /\ names \in Seq(Names) /\ names # << >> /\ urls \in Seq(Urls) /\ urls # << >>
       /\ n \in Nat /\ n \in 0 .. Len(raws')
    BY <1>3, <1>9, SingleFacts
<1>11. raws'[n].hash.kind = "ingest"
    BY <1>6, <1>9
<1> HIDE DEF names, urls, n
<1>12. r \in Row
    BY <1>3, <1>4, <1>8, <1>10 DEF Row
<1>13. KeyTellsCve(r)
    <2>1. r.key = key /\ r.cve = p.cve
        OBVIOUS
    <2>2. key.kind = "cve" => p.cve # None /\ key.of = p.cve
        <3>1. CASE p.cve = None
            BY <1>4, <3>1
        <3>2. CASE p.cve # None
            BY <1>4, <3>2
        <3> QED BY <3>1, <3>2
    <2> HIDE DEF r
    <2> QED BY <1>4, <2>1, <2>2 DEF KeyTellsCve
<1>14. GoodRow(r) /\ r.key = key /\ r.raw = n
    BY <1>10, <1>12, <1>13 DEF GoodRow
<1> HIDE DEF r
<1>15. /\ RowsInv'
       /\ \A i \in DOMAIN rows : i \in DOMAIN rows' /\ (Handmade(i)' <=> Handmade(i))
    BY <1>1, <1>9, <1>10, <1>11, <1>14, AppendRow DEF IInv
<1>16. Len(rows') \in Nat
    BY <1>15, LenProperties DEF RowsInv
<1>17. audit' \in Seq(Event)
    BY <1>1, <1>4, <1>16, Audits DEF IInv, TypeOK
<1>18. TypeOK'
    BY <1>1, <1>15, <1>17, Rest DEF IInv, TypeOK
<1>19. ApiInv'
    BY <1>1 DEF ApiInv
<1>20. WorkerInv'
    BY <1>1, <1>15, WorkerStays DEF IInv
<1> QED BY <1>15, <1>18, <1>19, <1>20 DEF IInv

(* Nothing is stored. *)
LEMMA NothingStored ==
    ASSUME IInv, UNCHANGED <<database, requests, reports>>,
           api' \in {api, None}, worker' \in {worker, None}
    PROVE  IInv'
<1>1. UNCHANGED <<rows, raws, audit, requests, reports>>
    BY DEF database
<1>2. RowsInv' /\ ApiInv' /\ WorkerInv'
    BY <1>1 DEF IInv, RowsInv, ApiInv, WorkerInv, Handmade, HandmadeKeyIsCurrent
<1>3. TypeOK'
    BY <1>1, <1>2, Rest DEF IInv, TypeOK
<1> QED BY <1>2, <1>3 DEF IInv

(* The worker finds no entry made by hand: such an entry has a manual key.  *)
LEMMA BeginReportStep ==
    ASSUME IInv, NEW r \in Reports, BeginReport(r)
    PROVE  IInv'
<1>1. PICK i \in Picks(Holders(ReportKey(r))) :
            worker' = [report |-> r, row |-> i, copy |-> RowAt(i)]
    BY DEF BeginReport
<1>2. i \in DOMAIN rows \cup {0} /\ (i # 0 => rows[i].key = ReportKey(r))
    <2>1. 0 \notin DOMAIN rows
        BY LenProperties DEF IInv, RowsInv
    <2> QED BY <1>1, <2>1 DEF Picks, Holders
<1>3. /\ RowAt(i) \in Row \cup {None} /\ i \in Nat
      /\ (i # 0 => i \in DOMAIN rows /\ RowAt(i) = rows[i] /\ GoodRow(RowAt(i)))
    BY <1>2, ReadFacts DEF IInv
<1>4. r \in Report
    BY RequestsAssumption
<1>5. worker' \in Reporting
    BY <1>1, <1>3 DEF Reporting
<1>6. UNCHANGED <<rows, raws, audit, api, requests>> /\ reports' = reports + 1
    BY DEF BeginReport, database
<1>7. i # 0 => ~ Handmade(i)
    <2> SUFFICES ASSUME i # 0, Handmade(i) PROVE FALSE
        OBVIOUS
    <2> DEFINE row == rows[i]
    <2>1. GoodRow(row) /\ row.key = KeyNow(row) /\ row.key = ReportKey(r)
        BY <1>2, <1>3 DEF IInv, RowsInv, HandmadeKeyIsCurrent
    <2> HIDE DEF row
    <2>2. /\ row.cve \in Cves \cup {None} /\ row.title \in Titles
          /\ row.names[1] \in Names /\ row.urls[1] \in Urls
        BY <2>1, FirstFacts DEF GoodRow, Row
    <2>3. KeyNow(row).kind \in {"manual cve", "manual text"}
        BY <2>2, ManualKeyFacts DEF KeyNow
    <2>4. ReportKey(r).kind \in {"cve", "url"}
        BY <1>4, ReportKeyFacts
    <2> QED BY <2>1, <2>3, <2>4
<1>8. RowsInv' /\ ApiInv'
    BY <1>6 DEF IInv, RowsInv, ApiInv, Handmade, HandmadeKeyIsCurrent
<1>9. WorkerInv'
    BY <1>1, <1>2, <1>3, <1>6, <1>7 DEF WorkerInv, Handmade
<1>10. TypeOK'
    BY <1>5, <1>6, <1>8, Rest DEF IInv, TypeOK
<1> QED BY <1>8, <1>9, <1>10 DEF IInv

LEMMA MergeReportStep ==
    ASSUME IInv, MergeReport
    PROVE  IInv'
<1> DEFINE i == worker.row
           read == worker.copy
           p == worker.report
           r == Reported(rows[i], read, p)
<1>1. /\ worker # None /\ i # 0 /\ rows' = [rows EXCEPT ![i] = r]
      /\ worker' = None /\ UNCHANGED <<raws, audit, api, requests, reports>>
    BY DEF MergeReport
<1>2. i \in DOMAIN rows /\ GoodRow(read) /\ read.key = ReportKey(p) /\ ~ Handmade(i)
    BY <1>1 DEF IInv, WorkerInv
<1>3. p \in Report
    <2>1. worker \in Reporting
        BY <1>1 DEF IInv, TypeOK
    <2> QED BY <2>1, RequestsAssumption DEF Reporting
<1>4. GoodRow(rows[i])
    BY <1>2 DEF IInv, RowsInv
<1> HIDE DEF i, read, p, r
<1>5. GoodRow(r) /\ r.key = rows[i].key /\ r.raw = rows[i].raw
    BY <1>2, <1>3, <1>4, ReportedFacts DEF r
<1>6. Holders(r.key) \subseteq {i}
    BY <1>2, <1>5 DEF Holders, IInv, RowsInv
<1>7. /\ raws' \in Seq(Raw) /\ Len(raws') = Len(raws)
      /\ \A n \in 1 .. Len(raws) : raws'[n].hash = raws[n].hash
    BY <1>1 DEF IInv, TypeOK
<1>8. /\ RowsInv'
      /\ DOMAIN rows' = DOMAIN rows
      /\ \A j \in DOMAIN rows : (Handmade(j)' <=> Handmade(j)) /\ (j # i => rows'[j] = rows[j])
    BY <1>1, <1>2, <1>5, <1>6, <1>7, ReplaceRow DEF IInv
<1>9. ApiInv'
    BY <1>1, <1>2, <1>8 DEF IInv, ApiInv
<1>10. WorkerInv'
    BY <1>1 DEF WorkerInv
<1>11. TypeOK'
    BY <1>1, <1>8, Rest DEF IInv, TypeOK
<1> QED BY <1>8, <1>9, <1>10, <1>11 DEF IInv

LEMMA CreateReportStep ==
    ASSUME IInv, CreateReport
    PROVE  IInv'
<1> DEFINE p == worker.report
           key == ReportKey(p)
           link == [name |-> p.name, id |-> p.id]
           links == [NoLinks EXCEPT ![p.url] = link]
           names == <<p.name>>
           urls == <<p.url>>
           r == [key |-> key, cve |-> p.cve, title |-> p.title, names |-> names,
                 urls |-> urls, manual |-> FALSE, links |-> links, raw |-> 0]
<1>1. /\ worker # None /\ Holders(key) = {} /\ rows' = Append(rows, r)
      /\ worker' = None /\ UNCHANGED <<raws, audit, api, requests, reports>>
    BY DEF CreateReport
<1>2. p \in Report
    <2>1. worker \in Reporting
        BY <1>1 DEF IInv, TypeOK
    <2> QED BY <2>1, RequestsAssumption DEF Reporting
<1> HIDE DEF p
<1>3. /\ p.title \in Titles /\ p.name \in Names /\ p.url \in Urls
      /\ p.cve \in Cves \cup {None} /\ p.id \in Ids \cup {None}
    BY <1>2 DEF Report
<1>4. /\ key \in Key /\ key.kind # "manual cve"
      /\ p.cve # None => key = [kind |-> "cve", of |-> p.cve]
      /\ p.cve = None => key.kind # "cve"
    BY <1>2, ReportKeyFacts
<1>5. link \in Link
    BY <1>3 DEF Link
<1> HIDE DEF key, link
<1>6. links \in [Urls -> Link \cup {None}]
    BY <1>3, <1>5 DEF NoLinks
<1> HIDE DEF links
<1>7. names \in Seq(Names) /\ names # << >> /\ urls \in Seq(Urls) /\ urls # << >>
    BY <1>3, SingleFacts
<1> HIDE DEF names, urls
<1>8. r \in Row
    BY <1>3, <1>4, <1>6, <1>7 DEF Row
<1>9. KeyTellsCve(r)
    <2>1. r.key = key /\ r.cve = p.cve
        OBVIOUS
    <2>2. key.kind = "cve" => p.cve # None /\ key.of = p.cve
        <3>1. CASE p.cve = None
            BY <1>4, <3>1
        <3>2. CASE p.cve # None
            BY <1>4, <3>2
        <3> QED BY <3>1, <3>2
    <2> HIDE DEF r
    <2> QED BY <1>4, <2>1, <2>2 DEF KeyTellsCve
<1>10. GoodRow(r) /\ r.key = key /\ r.raw = 0
    BY <1>7, <1>8, <1>9 DEF GoodRow
<1> HIDE DEF r
<1>11. raws' \in Seq(Raw) /\ raws' = raws /\ Len(raws) \in Nat
    BY <1>1, LenProperties DEF IInv, TypeOK
<1>12. /\ RowsInv'
       /\ \A i \in DOMAIN rows : i \in DOMAIN rows' /\ rows'[i] = rows[i]
                               /\ (Handmade(i)' <=> Handmade(i))
    BY <1>1, <1>10, <1>11, AppendRow DEF IInv
<1>13. ApiInv'
    BY <1>1, <1>12 DEF IInv, ApiInv
<1>14. WorkerInv'
    BY <1>1 DEF WorkerInv
<1>15. TypeOK'
    BY <1>1, <1>12, Rest DEF IInv, TypeOK
<1> QED BY <1>12, <1>13, <1>14, <1>15 DEF IInv

LEMMA NextIInv ==
    ASSUME IInv, [Next]_vars
    PROVE  IInv'
<1>1. CASE UNCHANGED vars
    BY <1>1, NothingStored DEF vars, database
<1>2. CASE Next
    <2>1. CASE \E s \in Submissions : Create(s) \/ CreateAgain(s)
        BY <2>1, CreateStep, CreateAgainStep
    <2>2. CASE \E i \in DOMAIN rows, c \in Changes : Change(i, c)
        BY <2>2, ChangeStep
    <2>3. CASE \E p \in Payloads : BeginIngest(p)
        BY <2>3, BeginIngestStep
    <2>4. CASE MergeIngest
        BY <2>4, MergeIngestStep
    <2>5. CASE CreateIngest
        BY <2>5, CreateIngestStep
    <2>6. CASE AbandonIngest \/ AbandonReport
        BY <2>6, NothingStored DEF AbandonIngest, AbandonReport
    <2>7. CASE \E r \in Reports : BeginReport(r)
        BY <2>7, BeginReportStep
    <2>8. CASE MergeReport
        BY <2>8, MergeReportStep
    <2>9. CASE CreateReport
        BY <2>9, CreateReportStep
    <2> QED BY <1>2, <2>1, <2>2, <2>3, <2>4, <2>5, <2>6, <2>7, <2>8, <2>9 DEF Next
<1> QED BY <1>1, <1>2

-----------------------------------------------------------------------------
(* The inductive invariant.                                                 *)
THEOREM Invariance == Spec => []IInv
<1>1. Init => IInv
    BY InitIInv
<1>2. IInv /\ [Next]_vars => IInv'
    BY NextIInv
<1> QED BY <1>1, <1>2, PTL DEF Spec

(* Every variable has its type: no row ever loses its last source.          *)
THEOREM TypeCorrectness == Spec => []TypeOK
<1>1. IInv => TypeOK
    BY DEF IInv
<1> QED BY <1>1, Invariance, PTL

(* An entry made by hand always has the key that its content gives, however *)
(* external payloads were merged into it meanwhile.                         *)
THEOREM HandmadeKeys == Spec => []HandmadeKeyIsCurrent
<1>1. IInv => HandmadeKeyIsCurrent
    BY DEF IInv, RowsInv
<1> QED BY <1>1, Invariance, PTL

(* The ingest API and the worker end on one row for a CVE, for their keys   *)
(* agree on it and the column of keys is unique.                            *)
THEOREM Convergence == Spec => []IntakesConverge
<1>1. IInv => IntakesConverge
    <2> SUFFICES ASSUME IInv, NEW i \in DOMAIN rows, NEW j \in DOMAIN rows,
                        rows[i].cve # None, rows[i].cve = rows[j].cve,
                        rows[i].key.kind # "manual cve", rows[j].key.kind # "manual cve"
                 PROVE  i = j
        BY DEF IntakesConverge
    <2>1. KeyTellsCve(rows[i]) /\ KeyTellsCve(rows[j])
        BY DEF IInv, RowsInv, GoodRow
    <2>2. rows[i].key = rows[j].key
        BY <2>1 DEF KeyTellsCve
    <2> QED BY <2>2 DEF IInv, RowsInv
<1> QED BY <1>1, Invariance, PTL

-----------------------------------------------------------------------------
(* The raw rows.  A raw row says what the entry says that goes back to it.  *)
Agrees(raw, r) == raw.title = r.title /\ raw.name = r.names[1] /\ raw.url = r.urls[1]

LEMMA RawsUnfold ==
    RawsFollowEntries <=>
        /\ \A n \in DOMAIN raws : \E i \in DOMAIN rows : rows[i].raw = n
        /\ \A i, j \in DOMAIN rows : rows[i].raw = rows[j].raw /\ rows[i].raw # 0 => i = j
        /\ \A i \in DOMAIN rows : Handmade(i) => Agrees(raws[rows[i].raw], rows[i])
BY Zenon DEF RawsFollowEntries, Agrees

(* A row is stored together with its raw row. *)
LEMMA RawsBothStored ==
    ASSUME IInv, RawsFollowEntries, NEW r, NEW raw,
           rows' = Append(rows, r), raws' = Append(raws, raw), r.raw = Len(raws'),
           raw.hash.kind = "manual" => Agrees(raw, r)
    PROVE  RawsFollowEntries'
<1>1. /\ DOMAIN rows' = DOMAIN rows \cup {Len(rows) + 1} /\ Len(rows) + 1 \notin DOMAIN rows
      /\ \A i \in DOMAIN rows : rows'[i] = rows[i]
      /\ rows'[Len(rows) + 1] = r
    BY AppendAny DEF IInv, RowsInv
<1>2. /\ DOMAIN raws = 1 .. Len(raws) /\ Len(raws) \in Nat
      /\ DOMAIN raws' = DOMAIN raws \cup {Len(raws) + 1} /\ Len(raws') = Len(raws) + 1
      /\ \A n \in DOMAIN raws : raws'[n] = raws[n]
      /\ raws'[Len(raws) + 1] = raw
    BY AppendAny DEF IInv, RowsInv
<1>3. \A i \in DOMAIN rows : rows[i].raw \in 0 .. Len(raws)
    BY DEF IInv, RowsInv
<1>4. ASSUME NEW n \in DOMAIN raws' PROVE \E i \in DOMAIN rows' : rows'[i].raw = n
    BY <1>1, <1>2, RawsUnfold
<1>5. ASSUME NEW i \in DOMAIN rows', NEW j \in DOMAIN rows',
             rows'[i].raw = rows'[j].raw, rows'[i].raw # 0
      PROVE  i = j
    BY <1>1, <1>2, <1>3, <1>5, RawsUnfold
<1>6. ASSUME NEW i \in DOMAIN rows', Handmade(i)'
      PROVE  Agrees(raws'[rows'[i].raw], rows'[i])
    <2>1. CASE i \in DOMAIN rows
        <3>1. /\ rows'[i] = rows[i] /\ rows[i].raw # 0 /\ rows[i].raw \in DOMAIN raws
              /\ raws'[rows[i].raw] = raws[rows[i].raw]
            BY <1>1, <1>2, <1>3, <1>6, <2>1 DEF Handmade
        <3>2. Handmade(i)
            BY <1>6, <3>1 DEF Handmade
        <3> QED BY <2>1, <3>1, <3>2, RawsUnfold
    <2>2. CASE i = Len(rows) + 1
        BY <1>1, <1>2, <1>6, <2>2 DEF Handmade
    <2> QED BY <1>1, <2>1, <2>2
<1> QED BY <1>4, <1>5, <1>6, Zenon DEF RawsFollowEntries, Agrees

(* A row of the worker is stored, without a raw row. *)
LEMMA RawsRowStored ==
    ASSUME IInv, RawsFollowEntries, NEW r,
           rows' = Append(rows, r), UNCHANGED raws, r.raw = 0
    PROVE  RawsFollowEntries'
<1>1. /\ DOMAIN rows' = DOMAIN rows \cup {Len(rows) + 1} /\ Len(rows) + 1 \notin DOMAIN rows
      /\ \A i \in DOMAIN rows : rows'[i] = rows[i]
      /\ rows'[Len(rows) + 1] = r
    BY AppendAny DEF IInv, RowsInv
<1>2. ASSUME NEW n \in DOMAIN raws' PROVE \E i \in DOMAIN rows' : rows'[i].raw = n
    BY <1>1, RawsUnfold
<1>3. ASSUME NEW i \in DOMAIN rows', NEW j \in DOMAIN rows',
             rows'[i].raw = rows'[j].raw, rows'[i].raw # 0
      PROVE  i = j
    BY <1>1, <1>3, RawsUnfold
<1>4. ASSUME NEW i \in DOMAIN rows', Handmade(i)'
      PROVE  Agrees(raws'[rows'[i].raw], rows'[i])
    BY <1>1, <1>4, RawsUnfold DEF Handmade
<1> QED BY <1>2, <1>3, <1>4, Zenon DEF RawsFollowEntries, Agrees

(* A row is changed, and its raw row with it when it is an entry.           *)
LEMMA RawsRowChanged ==
    ASSUME IInv, RawsFollowEntries, NEW k \in DOMAIN rows, NEW r,
           rows' = [rows EXCEPT ![k] = r], r.raw = rows[k].raw,
           DOMAIN raws' = DOMAIN raws,
           \A n \in DOMAIN raws : n # r.raw => raws'[n] = raws[n],
           \A n \in DOMAIN raws : raws'[n].hash = raws[n].hash,
           Handmade(k) => Agrees(raws'[r.raw], r)
    PROVE  RawsFollowEntries'
<1>1. /\ DOMAIN rows' = DOMAIN rows /\ rows'[k] = r
      /\ \A j \in DOMAIN rows : j # k => rows'[j] = rows[j]
    BY LenProperties DEF IInv, RowsInv
<1>2. \A i \in DOMAIN rows : rows'[i].raw = rows[i].raw
    BY <1>1
<1>3. ASSUME NEW i \in DOMAIN rows, Handmade(i)' PROVE Handmade(i) /\ rows[i].raw \in DOMAIN raws
    <2>1. rows[i].raw \in DOMAIN raws
        BY <1>2, <1>3, LenProperties DEF Handmade, IInv, RowsInv
    <2> QED BY <1>2, <1>3, <2>1 DEF Handmade
<1>4. ASSUME NEW n \in DOMAIN raws' PROVE \E i \in DOMAIN rows' : rows'[i].raw = n
    BY <1>1, <1>2, RawsUnfold
<1>5. ASSUME NEW i \in DOMAIN rows', NEW j \in DOMAIN rows',
             rows'[i].raw = rows'[j].raw, rows'[i].raw # 0
      PROVE  i = j
    BY <1>1, <1>2, <1>5, RawsUnfold
<1>6. ASSUME NEW i \in DOMAIN rows', Handmade(i)'
      PROVE  Agrees(raws'[rows'[i].raw], rows'[i])
    <2>1. CASE i = k
        BY <1>1, <1>3, <1>6, <2>1
    <2>2. CASE i # k
        <3>1. rows'[i] = rows[i] /\ Handmade(i) /\ rows[i].raw \in DOMAIN raws
            BY <1>1, <1>3, <1>6, <2>2
        <3>2. rows[i].raw # r.raw
            BY <1>1, <2>2, <3>1, RawsUnfold DEF Handmade
        <3> QED BY <1>1, <3>1, <3>2, RawsUnfold
    <2> QED BY <2>1, <2>2
<1>7. \A n \in DOMAIN raws' : \E i \in DOMAIN rows' : rows'[i].raw = n
    BY <1>4
<1>8. \A i, j \in DOMAIN rows' : rows'[i].raw = rows'[j].raw /\ rows'[i].raw # 0 => i = j
    BY <1>5
<1>9. ASSUME NEW i \in DOMAIN rows', Handmade(i)'
      PROVE  LET raw == raws'[rows'[i].raw] IN
             /\ raw.title = rows'[i].title
             /\ raw.name = rows'[i].names[1] /\ raw.url = rows'[i].urls[1]
    BY <1>6, <1>9, Zenon DEF Agrees
<1> QED BY <1>7, <1>8, <1>9, Zenon DEF RawsFollowEntries

-----------------------------------------------------------------------------
(* The audit log.                                                           *)
Births(i) == {n \in DOMAIN audit : audit[n].row = i /\ audit[n].action = "created"}

LastTells(i) ==
    \A n \in DOMAIN audit :
        audit[n].row = i /\ (\A m \in DOMAIN audit : audit[m].row = i => m <= n)
            => audit[n].key = rows[i].key

BornOnce(i) == IF rows[i].raw = 0 THEN Births(i) = {} ELSE \E n : Births(i) = {n}

(* An event is about a row that is there, the last one about a row has the  *)
(* key of the row, and an ingest knows the key of the row it has found,     *)
(* since keys change by requests only.                                      *)
LogInv ==
    /\ \A n \in DOMAIN audit : audit[n].row \in DOMAIN rows
    /\ \A i \in DOMAIN rows : LastTells(i) /\ BornOnce(i)
    /\ api # None /\ api.row # 0 => api.copy.key = rows[api.row].key

LEMMA LogFollows == TypeOK /\ LogInv => AuditTellsKey
<1> SUFFICES ASSUME TypeOK, LogInv, NEW i \in DOMAIN rows
             PROVE  LET events == {n \in DOMAIN audit : audit[n].row = i}
                        births == {n \in events : audit[n].action = "created"}
                    IN  /\ \A n \in events : (\A m \in events : m <= n) => audit[n].key = rows[i].key
                        /\ Cardinality(births) = IF rows[i].raw = 0 THEN 0 ELSE 1
    BY DEF AuditTellsKey
<1> DEFINE events == {n \in DOMAIN audit : audit[n].row = i}
           births == {n \in events : audit[n].action = "created"}
<1>1. births = Births(i)
    BY DEF Births
<1>2. Cardinality(births) = IF rows[i].raw = 0 THEN 0 ELSE 1
    <2>1. CASE rows[i].raw = 0
        BY <1>1, <2>1, FS_EmptySet DEF LogInv, BornOnce
    <2>2. CASE rows[i].raw # 0
        <3>1. PICK n : births = {n}
            BY <1>1, <2>2 DEF LogInv, BornOnce
        <3> QED BY <2>2, <3>1, FS_Singleton
    <2> QED BY <2>1, <2>2
<1>3. \A n \in events : (\A m \in events : m <= n) => audit[n].key = rows[i].key
    BY DEF LogInv, LastTells
<1> QED BY <1>2, <1>3

(* Nothing is logged: the rows there were keep their keys, and a new one is *)
(* not the API's.                                                           *)
LEMMA NothingLogged ==
    ASSUME TypeOK, LogInv, UNCHANGED audit, DOMAIN rows \subseteq DOMAIN rows',
           \A i \in DOMAIN rows : rows'[i].key = rows[i].key /\ rows'[i].raw = rows[i].raw,
           \A i \in DOMAIN rows' \ DOMAIN rows : rows'[i].raw = 0,
           api' # None /\ api'.row # 0 => api'.copy.key = rows'[api'.row].key
    PROVE  LogInv'
<1>1. ASSUME NEW i \in DOMAIN rows' PROVE LastTells(i)' /\ BornOnce(i)'
    <2>1. CASE i \in DOMAIN rows
        <3>1. LastTells(i) /\ BornOnce(i)
            BY <2>1 DEF LogInv
        <3>2. Births(i)' = Births(i) /\ rows'[i].raw = rows[i].raw /\ rows'[i].key = rows[i].key
            BY <2>1 DEF Births
        <3>3. LastTells(i)'
            BY <3>1, <3>2 DEF LastTells
        <3>4. BornOnce(i)'
            BY <3>1, <3>2, Zenon DEF BornOnce
        <3> QED BY <3>3, <3>4
    <2>2. CASE i \notin DOMAIN rows
        <3>1. \A n \in DOMAIN audit' : audit'[n].row # i
            BY <2>2 DEF LogInv
        <3>2. Births(i)' = {}
            BY <3>1 DEF Births
        <3>3. rows'[i].raw = 0
            BY <2>2
        <3> QED BY <3>1, <3>2, <3>3 DEF LastTells, BornOnce
    <2> QED BY <2>1, <2>2
<1> QED BY <1>1 DEF LogInv

(* The key that row k has after the step is logged.  An event of creation   *)
(* is logged for a new row of the API only.                                 *)
LEMMA KeyLogged ==
    ASSUME TypeOK, LogInv, NEW k \in DOMAIN rows',
           NEW action \in {"created", "duplicate", "updated"},
           audit' = Audited(action, k, rows'[k].key),
           rows'[k].key \in Key, k \in Nat,
           DOMAIN rows' = DOMAIN rows \cup {k},
           \A i \in DOMAIN rows : rows'[i].raw = rows[i].raw
                                 /\ (i # k => rows'[i].key = rows[i].key),
           action = "created" <=> k \notin DOMAIN rows,
           k \notin DOMAIN rows => rows'[k].raw # 0,
           api' # None /\ api'.row # 0 => api'.copy.key = rows'[api'.row].key
    PROVE  LogInv'
<1> DEFINE last == Len(audit) + 1
           event == [action |-> action, row |-> k, key |-> rows'[k].key]
<1>1. event \in Event /\ event.row = k /\ event.action = action /\ event.key = rows'[k].key
    BY DEF Event
<1>2. audit \in Seq(Event) /\ audit' = Append(audit, event)
    BY DEF TypeOK, Audited
<1> HIDE DEF event
<1>3. /\ DOMAIN audit = 1 .. Len(audit) /\ Len(audit) \in Nat
      /\ DOMAIN audit' = DOMAIN audit \cup {last} /\ last \notin DOMAIN audit
      /\ \A n \in DOMAIN audit : audit'[n] = audit[n]
      /\ audit'[last] = event
    BY <1>1, <1>2, AppendFacts
<1>4. \A n \in DOMAIN audit : n < last /\ ~ last <= n
    BY <1>3
<1> HIDE DEF last
<1>5. ASSUME NEW i \in DOMAIN rows' PROVE LastTells(i)'
    <2>1. CASE i = k
        BY <1>1, <1>3, <1>4, <2>1 DEF LastTells
    <2>2. CASE i # k
        <3>1. i \in DOMAIN rows /\ rows'[i].key = rows[i].key
            BY <2>2
        <3>2. \A n \in DOMAIN audit' : audit'[n].row = i => n \in DOMAIN audit /\ audit[n].row = i
            BY <1>1, <1>3, <2>2
        <3>3. \A n \in DOMAIN audit : audit'[n] = audit[n] /\ n \in DOMAIN audit'
            BY <1>3
        <3> QED BY <3>1, <3>2, <3>3 DEF LogInv, LastTells
    <2> QED BY <2>1, <2>2
<1>6. ASSUME NEW i \in DOMAIN rows' PROVE BornOnce(i)'
    <2>1. CASE i \in DOMAIN rows
        <3>1. ~ (event.row = i /\ event.action = "created")
            BY <1>1, <2>1
        <3>2. Births(i)' = Births(i)
            BY <1>3, <3>1 DEF Births
        <3> QED BY <2>1, <3>2 DEF LogInv, BornOnce
    <2>2. CASE i \notin DOMAIN rows
        <3>1. i = k /\ action = "created" /\ rows'[i].raw # 0
            BY <2>2
        <3>2. \A n \in DOMAIN audit : audit[n].row # i
            BY <2>2 DEF LogInv
        <3>3. Births(i)' = {last}
            BY <1>1, <1>3, <3>1, <3>2 DEF Births
        <3> QED BY <3>1, <3>3 DEF BornOnce
    <2> QED BY <2>1, <2>2
<1>7. \A n \in DOMAIN audit' : audit'[n].row \in DOMAIN rows'
    BY <1>1, <1>3 DEF LogInv
<1> QED BY <1>5, <1>6, <1>7 DEF LogInv

-----------------------------------------------------------------------------
(* Every step keeps the two.                                                *)
RecordInv == IInv /\ RawsFollowEntries /\ LogInv

(* What the typed invariant says of the rows that a step leaves. *)
LEMMA RowsTyped ==
    ASSUME RowsInv
    PROVE  /\ DOMAIN rows = 1 .. Len(rows) /\ Len(rows) \in Nat
           /\ \A i \in DOMAIN rows : i \in Nat /\ rows[i].key \in Key
<1>1. DOMAIN rows = 1 .. Len(rows) /\ Len(rows) \in Nat
    BY LenProperties DEF RowsInv
<1> QED BY <1>1 DEF RowsInv, GoodRow, Row

(* The API stores a row with its raw row and logs it. *)
LEMMA StoredTogether ==
    ASSUME RecordInv, IInv', NEW r, NEW raw, NEW key,
           rows' = Append(rows, r), raws' = Append(raws, raw),
           audit' = Audited("created", Len(rows'), key), api' = None,
           r.raw = Len(raws'), r.key = key,
           raw.hash.kind = "manual" => Agrees(raw, r)
    PROVE  RecordInv'
<1> DEFINE k == Len(rows) + 1
<1>1. /\ Len(rows') = k /\ DOMAIN rows' = DOMAIN rows \cup {k}
      /\ k \notin DOMAIN rows /\ rows'[k] = r
      /\ \A i \in DOMAIN rows : rows'[i] = rows[i]
    BY AppendAny DEF RecordInv, IInv, RowsInv
<1>2. Len(raws') # 0
    BY AppendAny DEF RecordInv, IInv, RowsInv
<1> HIDE DEF k
<1>3. rows'[k].key \in Key /\ k \in Nat
    <2>1. GoodRow(rows'[k]) /\ Len(rows) \in Nat
        BY <1>1, LenProperties DEF RecordInv, IInv, RowsInv
    <2> QED BY <2>1 DEF GoodRow, Row, k
<1>4. LogInv'
    BY <1>1, <1>2, <1>3, KeyLogged DEF RecordInv, IInv
<1>5. RawsFollowEntries'
    BY RawsBothStored DEF RecordInv
<1> QED BY <1>4, <1>5 DEF RecordInv

(* Nothing is stored, logged or changed; an ingest reads a row as it is.    *)
LEMMA NothingRecorded ==
    ASSUME RecordInv, IInv', UNCHANGED <<rows, raws, audit>>,
           \/ api' \in {api, None}
           \/ \E i \in DOMAIN rows \cup {0} : api'.row = i /\ api'.copy = RowAt(i)
    PROVE  RecordInv'
<1>1. RawsFollowEntries'
    BY DEF RecordInv, RawsFollowEntries, Handmade
<1>2. api' # None /\ api'.row # 0 => api'.copy.key = rows'[api'.row].key
    BY DEF RecordInv, LogInv, RowAt
<1>3. LogInv'
    BY <1>2, NothingLogged DEF RecordInv, IInv
<1> QED BY <1>1, <1>3 DEF RecordInv

LEMMA CreateRecorded ==
    ASSUME RecordInv, IInv', NEW s \in Submissions, Create(s)
    PROVE  RecordInv'
<1> DEFINE key == ManualKey(s.cve, s.title, s.name, s.url)
           raw == [hash |-> ManualHash(s), title |-> s.title, name |-> s.name, url |-> s.url]
           r == [key |-> key, cve |-> s.cve, title |-> s.title,
                 names |-> <<s.name>>, urls |-> <<s.url>>, manual |-> TRUE,
                 links |-> [NoLinks EXCEPT ![s.url] = [name |-> s.name, id |-> key]],
                 raw |-> Len(raws')]
<1>1. /\ raws' = Append(raws, raw) /\ rows' = Append(rows, r)
      /\ audit' = Audited("created", Len(rows'), key) /\ api' = None
    BY DEF Create, Request
<1>2. r.raw = Len(raws') /\ r.key = key
    OBVIOUS
<1>3. Agrees(raw, r)
    BY DEF Agrees
<1> HIDE DEF key, raw, r
<1> QED BY <1>1, <1>2, <1>3, StoredTogether

LEMMA CreateAgainRecorded ==
    ASSUME RecordInv, IInv', NEW s \in Submissions, CreateAgain(s)
    PROVE  RecordInv'
<1>1. PICK i \in DOMAIN rows : audit' = Audited("duplicate", i, rows[i].key)
    BY DEF CreateAgain, Holders
<1>2. UNCHANGED <<rows, raws, api>>
    BY DEF CreateAgain
<1>3. rows[i].key \in Key /\ i \in Nat
    BY RowsTyped DEF RecordInv, IInv
<1>4. LogInv'
    BY <1>1, <1>2, <1>3, KeyLogged DEF RecordInv, IInv, LogInv
<1>5. RawsFollowEntries'
    BY <1>2 DEF RecordInv, RawsFollowEntries, Handmade
<1> QED BY <1>4, <1>5 DEF RecordInv

LEMMA ChangeRecorded ==
    ASSUME RecordInv, IInv', NEW i \in DOMAIN rows, NEW c \in Changes, Change(i, c)
    PROVE  RecordInv'
<1> DEFINE new == Changed(rows[i], c)
<1>1. PICK links \in LinksAfter(new) : rows' = [rows EXCEPT ![i] = [new EXCEPT !.links = links]]
    BY DEF Change
<1> DEFINE r == [new EXCEPT !.links = links]
<1>2. /\ raws' = IF new.raw = 0 THEN raws ELSE [raws EXCEPT ![new.raw] = RawAfter(@, new)]
      /\ audit' = Audited("updated", i, new.key)
      /\ api' = None
    BY DEF Change, Request
<1>3. GoodRow(rows[i]) /\ rows[i].raw \in 0 .. Len(raws) /\ c \in Alteration
    BY RequestsAssumption DEF RecordInv, IInv, RowsInv
<1>4. r.key = new.key /\ r.raw = rows[i].raw /\ new.raw = rows[i].raw
    <2> DEFINE row == rows[i]
    <2>1. GoodRow(row) /\ c \in Alteration /\ links \in LinksAfter(Changed(row, c))
        BY <1>1, <1>3
    <2> HIDE DEF row
    <2> DEFINE last == Linked(Changed(row, c), links)
    <2>2. /\ last.key = Changed(row, c).key /\ last.raw = row.raw
          /\ Changed(row, c).raw = row.raw
        BY <2>1, ChangedFacts
    <2> QED BY <2>2 DEF row, Linked
<1>5. r.title = new.title /\ r.names = new.names /\ r.urls = new.urls
    BY DEF Changed
<1>6. rows' = [rows EXCEPT ![i] = r]
    BY <1>1
<1> HIDE DEF new, r
<1>7. /\ raws \in Seq(Raw) /\ DOMAIN raws = 1 .. Len(raws) /\ Len(raws) \in Nat
      /\ rows \in Seq(Row) /\ audit \in Seq(Event)
    BY LenProperties DEF RecordInv, IInv, RowsInv, TypeOK
<1>8. /\ DOMAIN raws' = DOMAIN raws
      /\ \A n \in DOMAIN raws : n # r.raw => raws'[n] = raws[n]
      /\ \A n \in DOMAIN raws : raws'[n].hash = raws[n].hash
      /\ r.raw # 0 => Agrees(raws'[r.raw], r)
    <2>1. CASE new.raw = 0
        BY <1>2, <1>4, <2>1
    <2>2. CASE new.raw # 0
        <3>1. new.raw \in DOMAIN raws
            BY <1>3, <1>4, <1>7, <2>2
        <3> DEFINE old == raws[new.raw]
                   raw == RawAfter(old, new)
        <3>2. old \in Raw
            BY <1>7, <3>1
        <3> HIDE DEF old
        <3>3. raw.hash = old.hash /\ Agrees(raw, r)
            BY <1>5, <3>2 DEF RawAfter, Raw, Agrees
        <3> HIDE DEF raw
        <3>4. raws' = [raws EXCEPT ![new.raw] = raw]
            BY <1>2, <2>2 DEF raw, old
        <3>5. /\ DOMAIN raws' = DOMAIN raws /\ raws'[new.raw] = raw
              /\ \A n \in DOMAIN raws : n # new.raw => raws'[n] = raws[n]
            BY <1>7, <3>1, <3>4
        <3> QED BY <1>4, <3>1, <3>3, <3>5 DEF old
    <2> QED BY <2>1, <2>2
<1>9. RawsFollowEntries'
    BY <1>4, <1>6, <1>8, RawsRowChanged DEF RecordInv, Handmade
<1>10. /\ DOMAIN rows' = DOMAIN rows /\ rows'[i] = r
       /\ \A j \in DOMAIN rows : j # i => rows'[j] = rows[j]
    BY <1>6, <1>7
<1>11. r.key \in Key /\ i \in Nat
    <2>1. GoodRow(rows'[i])
        BY <1>10 DEF IInv, RowsInv
    <2> QED BY <1>7, <1>10, <2>1, RowsTyped DEF GoodRow, Row, RecordInv, IInv
<1>12. LogInv'
    <2>1. \A j \in DOMAIN rows : rows'[j].raw = rows[j].raw
        BY <1>4, <1>10
    <2>2. audit' = Audited("updated", i, rows'[i].key)
        BY <1>2, <1>4, <1>10
    <2> QED BY <1>2, <1>10, <1>11, <2>1, <2>2, KeyLogged DEF RecordInv, IInv
<1> QED BY <1>9, <1>12 DEF RecordInv

LEMMA BeginIngestRecorded ==
    ASSUME RecordInv, IInv', NEW p \in Payloads, BeginIngest(p)
    PROVE  RecordInv'
<1>1. PICK i \in Picks(Found(p)) : api' = [payload |-> p, row |-> i, copy |-> RowAt(i)]
    BY DEF BeginIngest
<1>2. i \in DOMAIN rows \cup {0}
    BY <1>1 DEF Picks, Found
<1>3. api'.row = i /\ api'.copy = RowAt(i)
    BY <1>1
<1>4. UNCHANGED <<rows, raws, audit>>
    BY DEF BeginIngest
<1> QED BY <1>2, <1>3, <1>4, NothingRecorded

(* An entry made by hand keeps what its raw row says: the ingest has read   *)
(* it as it still is, and only adds to its sources.                         *)
LEMMA MergeIngestRecorded ==
    ASSUME RecordInv, IInv', MergeIngest
    PROVE  RecordInv'
<1> DEFINE i == api.row
           read == api.copy
           p == api.payload
           r == Merged(rows[i], read, p)
<1>1. /\ api # None /\ i # 0 /\ rows' = [rows EXCEPT ![i] = r]
      /\ audit' = Audited("duplicate", i, read.key)
      /\ api' = None /\ UNCHANGED raws
    BY DEF MergeIngest
<1>2. /\ i \in DOMAIN rows /\ GoodRow(read) /\ (Handmade(i) => read = rows[i])
      /\ read.key = rows[i].key
    BY <1>1 DEF RecordInv, IInv, ApiInv, LogInv
<1>3. p \in Payload
    <2>1. api \in Ingesting
        BY <1>1 DEF RecordInv, IInv, TypeOK
    <2> QED BY <2>1, RequestsAssumption DEF Ingesting
<1>4. GoodRow(rows[i])
    BY <1>2 DEF RecordInv, IInv, RowsInv
<1> HIDE DEF i, read, p, r
<1>5. /\ r.key = rows[i].key /\ r.raw = rows[i].raw /\ r.title = rows[i].title
      /\ read = rows[i] => r.names[1] = rows[i].names[1] /\ r.urls[1] = rows[i].urls[1]
    BY <1>2, <1>3, <1>4, MergedFacts DEF r
<1>6. Handmade(i) => Agrees(raws[rows[i].raw], rows[i])
    BY <1>2, RawsUnfold DEF RecordInv
<1>7. Handmade(i) => Agrees(raws'[r.raw], r)
    BY <1>1, <1>2, <1>5, <1>6 DEF Agrees
<1>8. RawsFollowEntries'
    BY <1>1, <1>2, <1>5, <1>7, RawsRowChanged DEF RecordInv
<1>9. /\ DOMAIN rows' = DOMAIN rows /\ rows'[i] = r
      /\ \A j \in DOMAIN rows : j # i => rows'[j] = rows[j]
    BY <1>1, <1>2 DEF RecordInv, IInv, RowsInv
<1>10. r.key \in Key /\ i \in Nat
    BY <1>2, <1>5, RowsTyped DEF RecordInv, IInv
<1>11. LogInv'
    <2>1. \A j \in DOMAIN rows : rows'[j].raw = rows[j].raw
        BY <1>5, <1>9
    <2>2. audit' = Audited("duplicate", i, rows'[i].key)
        BY <1>1, <1>2, <1>5, <1>9
    <2> QED BY <1>1, <1>2, <1>9, <1>10, <2>1, <2>2, KeyLogged DEF RecordInv, IInv
<1> QED BY <1>8, <1>11 DEF RecordInv

LEMMA CreateIngestRecorded ==
    ASSUME RecordInv, IInv', CreateIngest
    PROVE  RecordInv'
<1> DEFINE p == api.payload
           key == IngestKey(p)
           raw == [hash |-> IngestHash(p), title |-> p.title, name |-> p.name, url |-> p.url]
           r == [key |-> key, cve |-> p.cve, title |-> p.title,
                 names |-> <<p.name>>, urls |-> <<p.url>>, manual |-> p.manual,
                 links |-> [NoLinks EXCEPT ![p.url] = LinkAfter(None, p)],
                 raw |-> Len(raws')]
<1>1. /\ raws' = Append(raws, raw) /\ rows' = Append(rows, r)
      /\ audit' = Audited("created", Len(rows'), key) /\ api' = None
    BY DEF CreateIngest
<1>2. r.raw = Len(raws') /\ r.key = key
    OBVIOUS
<1>3. Agrees(raw, r)
    BY DEF Agrees
<1> HIDE DEF key, raw, r
<1> QED BY <1>1, <1>2, <1>3, StoredTogether

(* The worker changes no key and is never at an entry made by hand. *)
LEMMA MergeReportRecorded ==
    ASSUME RecordInv, IInv', MergeReport
    PROVE  RecordInv'
<1> DEFINE i == worker.row
           read == worker.copy
           p == worker.report
           r == Reported(rows[i], read, p)
<1>1. /\ worker # None /\ i # 0 /\ rows' = [rows EXCEPT ![i] = r]
      /\ UNCHANGED <<raws, audit, api>>
    BY DEF MergeReport
<1>2. i \in DOMAIN rows /\ GoodRow(read) /\ read.key = ReportKey(p) /\ ~ Handmade(i)
    BY <1>1 DEF RecordInv, IInv, WorkerInv
<1>3. p \in Report
    <2>1. worker \in Reporting
        BY <1>1 DEF RecordInv, IInv, TypeOK
    <2> QED BY <2>1, RequestsAssumption DEF Reporting
<1>4. GoodRow(rows[i])
    BY <1>2 DEF RecordInv, IInv, RowsInv
<1> HIDE DEF i, read, p, r
<1>5. r.key = rows[i].key /\ r.raw = rows[i].raw
    BY <1>2, <1>3, <1>4, ReportedFacts DEF r
<1>6. RawsFollowEntries'
    BY <1>1, <1>2, <1>5, RawsRowChanged DEF RecordInv
<1>7. /\ DOMAIN rows' = DOMAIN rows
      /\ \A j \in DOMAIN rows : rows'[j].key = rows[j].key /\ rows'[j].raw = rows[j].raw
    BY <1>1, <1>2, <1>5 DEF RecordInv, IInv, RowsInv
<1>8. api # None /\ api.row # 0 => api.copy.key = rows'[api.row].key
    BY <1>7 DEF RecordInv, IInv, ApiInv, LogInv
<1>9. LogInv'
    BY <1>1, <1>7, <1>8, NothingLogged DEF RecordInv, IInv
<1> QED BY <1>6, <1>9 DEF RecordInv

LEMMA CreateReportRecorded ==
    ASSUME RecordInv, IInv', CreateReport
    PROVE  RecordInv'
<1>1. PICK r : rows' = Append(rows, r) /\ r.raw = 0
    <2> DEFINE p == worker.report
               new == [key |-> ReportKey(p), cve |-> p.cve, title |-> p.title,
                       names |-> <<p.name>>, urls |-> <<p.url>>, manual |-> FALSE,
                       links |-> [NoLinks EXCEPT ![p.url] = [name |-> p.name, id |-> p.id]],
                       raw |-> 0]
    <2>1. rows' = Append(rows, new) /\ new.raw = 0
        BY DEF CreateReport
    <2> QED BY <2>1
<1>2. UNCHANGED <<raws, audit, api>>
    BY DEF CreateReport
<1>3. RawsFollowEntries'
    BY <1>1, <1>2, RawsRowStored DEF RecordInv
<1>4. /\ DOMAIN rows' = DOMAIN rows \cup {Len(rows) + 1}
      /\ \A j \in DOMAIN rows : rows'[j] = rows[j]
      /\ rows'[Len(rows) + 1] = r
    BY <1>1, AppendAny DEF RecordInv, IInv, RowsInv
<1>5. api # None /\ api.row # 0 => api.copy.key = rows'[api.row].key
    BY <1>4 DEF RecordInv, IInv, ApiInv, LogInv
<1>6. LogInv'
    BY <1>1, <1>2, <1>4, <1>5, NothingLogged DEF RecordInv, IInv
<1> QED BY <1>3, <1>6 DEF RecordInv

LEMMA NextRecordInv ==
    ASSUME RecordInv, [Next]_vars
    PROVE  RecordInv'
<1>0. IInv'
    BY NextIInv DEF RecordInv
<1>1. CASE UNCHANGED vars
    BY <1>0, <1>1, NothingRecorded DEF vars
<1>2. CASE Next
    <2>1. CASE \E s \in Submissions : Create(s) \/ CreateAgain(s)
        BY <1>0, <2>1, CreateRecorded, CreateAgainRecorded
    <2>2. CASE \E i \in DOMAIN rows, c \in Changes : Change(i, c)
        BY <1>0, <2>2, ChangeRecorded
    <2>3. CASE \E p \in Payloads : BeginIngest(p)
        BY <1>0, <2>3, BeginIngestRecorded
    <2>4. CASE MergeIngest
        BY <1>0, <2>4, MergeIngestRecorded
    <2>5. CASE CreateIngest
        BY <1>0, <2>5, CreateIngestRecorded
    <2>6. CASE AbandonIngest \/ AbandonReport \/ \E r \in Reports : BeginReport(r)
        BY <1>0, <2>6, NothingRecorded
        DEF AbandonIngest, AbandonReport, BeginReport, database
    <2>7. CASE MergeReport
        BY <1>0, <2>7, MergeReportRecorded
    <2>8. CASE CreateReport
        BY <1>0, <2>8, CreateReportRecorded
    <2> QED BY <1>2, <2>1, <2>2, <2>3, <2>4, <2>5, <2>6, <2>7, <2>8 DEF Next
<1> QED BY <1>1, <1>2

LEMMA Recorded == Spec => []RecordInv
<1>1. Init => RecordInv
    <2> SUFFICES ASSUME Init PROVE RecordInv
        OBVIOUS
    <2> QED BY InitIInv DEF Init, RecordInv, RawsFollowEntries, LogInv
<1>2. RecordInv /\ [Next]_vars => RecordInv'
    BY NextRecordInv
<1> QED BY <1>1, <1>2, PTL DEF Spec

(* The raw rows of the API and its core rows belong together one to one,    *)
(* and an entry made by hand and its raw row say the same, whatever is      *)
(* changed, merged, refused or lost in between (update_manual_entry).       *)
THEOREM RawRowsTheorem == Spec => []RawsFollowEntries
<1>1. RecordInv => RawsFollowEntries
    BY DEF RecordInv
<1> QED BY <1>1, Recorded, PTL

(* The last event about a row names its key, although the ingest logs the   *)
(* key it has read before: no step changes a key meanwhile.  And the API    *)
(* logs the creation of each of its rows exactly once (record_audit_event).   *)
THEOREM AuditTheorem == Spec => []AuditTellsKey
<1>1. RecordInv => AuditTellsKey
    BY LogFollows DEF RecordInv, IInv
<1> QED BY <1>1, Recorded, PTL
=============================================================================
