--------------------------- MODULE MCNormalization ---------------------------
(* A small catalogue of what the sources answer, turned into raw items by   *)
(* Payloads and into records by Normalizers, and stored by Normalization.   *)
(*                                                                          *)
(* A scope says which workers are running, what they collect and what may   *)
(* happen, so that one run covers a worker alone and two in competition.    *)
EXTENDS Normalization, Normalizers

CONSTANTS c1, c2,
          Scopes   \* [active, raws, collections, crashes, errors]

ASSUME ScopesAssumption ==
    \A s \in Scopes : s.active \subseteq Workers /\ IsFiniteSet(s.active)

VARIABLE scope

MCLexicon ==
    LET says(cve, cwe, senses) == [cve |-> cve, cwe |-> cwe, senses |-> senses] IN
    ("CVE-1" :> says("CVE-1", None, {}))         @@ ("cve-2" :> says("CVE-2", None, {}))
    @@ ("CWE-79" :> says(None, "CWE-79", {}))    @@ ("bulletin" :> says(None, None, {"advisory"}))
    @@ ("telematics" :> says(None, None, {"tbox"})) @@ ("ble" :> says(None, None, {"bluetooth"}))
    @@ ("in the wild" :> says(None, None, {"exploited"}))
    @@ ("OTA" :> says(None, None, {"ota", "software"}))

Source(name, type) == [name |-> name, type |-> type, base |-> Page(name, << >>)]

(* r1: a vulnerability in the NVD, later rated anew and without a score.    *)
Nvd(score, severity) ==
    LET metric == [score |-> score, severity |-> None, outerSeverity |-> severity,
                   vector |-> None] IN
    NvdPayload(Source("nvd", "api"),
        [id |-> "CVE-1", weaknesses |-> <<"NVD-CWE-noinfo", "CWE-79">>, status |-> "Analyzed",
         descriptions |-> <<[english |-> FALSE, value |-> <<"traducido">>],
                            [english |-> TRUE, value |-> <<"telematics", "ble">>]>>,
         metrics |-> << << >>, <<None>>, <<metric>> >>, references |-> << >>,
         cpes |-> <<[vendor |-> None, product |-> "tcu", version |-> None]>>,
         large |-> score = None])

(* r2: the same vulnerability in the KEV catalogue. *)
Kev(id, name) ==
    KevPayload(Source("cisa-kev", "api"),
        [id |-> id, name |-> name, vendor |-> "acme", product |-> None, notes |-> << >>,
         cwes |-> <<"CWE-79">>, ransomware |-> "known", added |-> "2026-05-01"])

(* r3: a catalogue entry without a number, until its name says one. *)

Feed(title, url) == [root |-> "feed", channel |-> FALSE, items |->
    <<[title |-> title, guid |-> Page("acme.com", <<"7">>),
       links |-> <<[href |-> Page("acme.com", <<"self">>), rel |-> "self"],
                   [href |-> url, rel |-> None]>>,
       summary |-> << >>, content |-> <<"ble">>]>>]

(* r4: a post in a feed, about the number of r3, and later about a page.    *)
Rss(title, url) ==
    RssPayload(Source("rss", "rss"), "acme blog", ParseFeed(Feed(title, url))[1],
               Page("acme.com", << >>))

(* r5: a page with a list of advisories, and r6: one of them. *)
Endpoint == [vendor |-> "acme", url |-> Page("acme.com", << >>), verification |-> "official"]

Advisory == Page("acme.com", <<"a1">>)

VendorPage(label) ==
    [url |-> Page("acme.com", << >>), title |-> <<"acme security">>, description |-> << >>,
     heading |-> <<"advisories">>, canonical |-> None,
     links |-> <<[url |-> Page("acme.com", <<"careers">>), text |-> <<"jobs">>, pdf |-> FALSE],
                 [url |-> [Advisory EXCEPT !.capitals = TRUE], text |-> label, pdf |-> TRUE]>>]

Vendor == Source("vendor-advisories", "vendor")

Link(label) ==
    LET page == VendorPage(label)
    IN  LinkPayload(Vendor, Endpoint, page, AdvisoryLinks(page)[1])

(* r7: a recall, found for one vehicle and then for another. *)
Recall(model) ==
    RecallPayload(Source("nhtsa-recalls", "api"),
        ParseRecalls([results |-> <<[campaign |-> "26V001", component |-> <<"OTA">>,
                                     summary |-> << >>, ota |-> FALSE]>>, count |-> 1])[1],
        [make |-> "ACME", model |-> model, year |-> "2026"], {})

(* The two items that each raw row may be collected as. *)
Items ==
    << <<Nvd(60, "medium"),                     Nvd(None, "high")>>,
       <<Kev("CVE-1", << >>),                   Kev("CVE-1", <<"in the wild">>)>>,
       <<Kev("candidate", <<"unnumbered">>),    Kev("candidate", <<"cve-2">>)>>,
       <<Rss(<<"cve-2">>, Page("acme.com", <<"p">>)),
         Rss(<<"in the wild">>, [Advisory EXCEPT !.fragment = TRUE])>>,
       <<VendorPayload(Vendor, Endpoint, VendorPage(<<"bulletin", "CVE-1">>)),
         VendorPayload(Vendor, Endpoint, VendorPage(<<"bulletin", "CVE-1">>))>>,
       <<Link(<<"bulletin", "CVE-1">>),         Link(<<"bulletin">>)>>,
       <<Recall("E"),                           Recall("S")>>,
       <<SamplePayload(Source("sample", "api"), 0), SamplePayload(Source("sample", "api"), 0)>> >>

(* What each of them is normalized to.  These sets are constants that TLC   *)
(* computes once, and the inner sets bind a value to a name.                *)
Catalogue ==
    UNION {{<<x, n>> : n \in {Normalize(item) : item \in {Items[x[1]][IF x[2] = c1 THEN 1 ELSE 2]}}}
           : x \in (1 .. 8) \X {c1, c2}}

Accepted == {p \in Catalogue : p[2] # NormalizationError}

Rank(severity) ==
    CASE severity = "unknown" -> 0 [] severity = "low" -> 1 [] severity = "medium" -> 2
      [] severity = "high" -> 3 [] severity = "critical" -> 4

Records ==
    {<<p[1], IF p \notin Accepted THEN Rejected
             ELSE [key |-> p[2].key, name |-> p[2].name, url |-> p[2].url, raw |-> p[1][1],
                   severity |-> Rank(p[2].severity),
                   detail |-> IF p[2].cvss = None THEN Unset ELSE p[2].cvss]>> : p \in Catalogue}

(* Records lists what the constant Normalized gives, once and for all. *)
Reported == {p[2] : p \in {q \in Records : q[2] # Rejected}}

ASSUME ReportedAssumption == Reported = {Normalized[x] : x \in Raws \X Contents} \ {Rejected}

ASSUME CatalogueAssumption ==
    \A p \in Accepted : /\ p[1] \in Raws \X Contents
                       /\ Normalized[p[1]].key = p[2].key /\ Normalized[p[1]].url = p[2].url

(* What has no CVE number has a page, and nobody else shows the page of a   *)
(* recall without a number: the key of a recall is its campaign.            *)
ASSUME PagesAssumption ==
    \A p, q \in Accepted : p[2].cve = None /\ q[2].cve = None =>
        /\ CanonicalUrl(p[2].url) # None
        /\ p[2].type = "incident" /\ q[2].url = p[2].url => q[2].key = p[2].key

Sources == {<<r, Items[r][1].source>> : r \in 1 .. 8}

MCKeys == {p[2].key : p \in Accepted}
MCUrls == {p[2].url : p \in Accepted}
MCNames == {s[2] : s \in Sources}
MCSourceOf == [r \in Raws |-> (CHOOSE s \in Sources : s[1] = r)[2]]
MCNormalized == [x \in Raws \X Contents |-> (CHOOSE p \in Records : p[1] = x)[2]]

-----------------------------------------------------------------------------
MCScopes ==
    {[active |-> {1}, raws |-> {1, 2, 3}, collections |-> 3, crashes |-> 1, errors |-> 0],
     [active |-> {1}, raws |-> {3, 4, 6}, collections |-> 3, crashes |-> 0, errors |-> 0],
     [active |-> {1}, raws |-> {5, 7, 8}, collections |-> 2, crashes |-> 1, errors |-> 0],
     [active |-> {1, 2}, raws |-> {1, 2, 3}, collections |-> 2, crashes |-> 1, errors |-> 1]}

MCPairScopes == {s \in MCScopes : s.active # {1}}

Alone == Cardinality(scope.active) = 1

MCInit == Init /\ scope \in Scopes

Active(w) ==
    /\ w \in scope.active
    /\ collections' <= scope.collections
    /\ crashes' <= scope.crashes /\ dbErrors' <= scope.errors
    /\ UNCHANGED scope

MCNext == \E w \in Workers :
    \/ Collect(w) /\ Active(w) /\ \A r \in Raws \ scope.raws : raw'[r].status = "absent"
    \/ Snapshot(w) /\ Active(w)
    \/ EmptyBatch(w) /\ Active(w)
    \/ Claim(w) /\ Active(w)
    \/ ReadRow(w) /\ Active(w)
    \/ Insert(w) /\ Active(w)
    \/ InsertConflict(w) /\ Active(w)
    \/ Update(w) /\ Active(w)
    \/ MarkFailed(w) /\ Active(w)
    \/ DbError(w) /\ Active(w)
    \/ Crash(w) /\ Active(w)

mcvars == <<vars, scope>>

(* Normalization!FairSpec, of the workers that are running. *)
MCSpec ==
    /\ MCInit /\ [][MCNext]_mcvars
    /\ \A w \in Workers : /\ WF_vars(w \in scope.active /\ Snapshot(w))
                          /\ WF_vars(w \in scope.active /\ Transaction(w))
-----------------------------------------------------------------------------
(* With one worker at a time, every source a core row is linked to is among *)
(* its source names: merging keeps them all (docs/connectors.md).           *)
AloneSourcesAreComplete == Alone => SourcesAreComplete

(* With one worker at a time, a raw row that is marked normalized is        *)
(* reflected as it stands now, not as it was when its batch was read        *)
(* (normalize_pending, upsert_raw_record).                                  *)
AloneNormalizedIsCurrent == Alone => NormalizedIsCurrent

(* With one worker at a time, only what the normalizer rejects is marked    *)
(* failed (normalize_raw_row, mark_failed).                                 *)
AloneOnlyRejectedFail == Alone => OnlyRejectedFail

(* With one worker at a time, reports of one subject are one row: what is   *)
(* normalized now and carries the same CVE number, or none and the same     *)
(* page, is linked from the same core row, whatever source it came from and *)
(* however it spells the number or the page (dedup.py, normalizers.py).     *)
SameSubject(n, m) ==
    IF n.cve # None \/ m.cve # None THEN n.cve = m.cve ELSE n.url = m.url

NormalizedNow ==
    {p[2] : p \in {q \in Accepted : /\ raw[q[1][1]].status = "normalized"
                                    /\ raw[q[1][1]].content = q[1][2]}}

AloneOneRowPerSubject ==
    Alone => \A n, m \in NormalizedNow : SameSubject(n, m) =>
        \E k \in Keys : links[k][n.url] # NoRaw /\ links[k][m.url] # NoRaw

(* With one worker at a time the table is the store of IntelligenceStore:   *)
(* every report is absorbed into the row of its key, and nothing is taken   *)
(* back.                                                                    *)
AloneStore == INSTANCE IntelligenceStore
    WITH rows    <- IF Alone THEN rows ELSE [k \in Keys |-> NoRow],
         Reports <- Reported

AloneRefinesStore == AloneStore!Spec
=============================================================================
