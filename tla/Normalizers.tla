----------------------------- MODULE Normalizers -----------------------------
(****************************************************************************)
(* The normalizers: src/worker/sentineldrive_worker/normalization/          *)
(* normalizers.py and registry.py, from a raw item of Payloads to a record  *)
(* of the core table.  ManualNormalizer and ExternalIngestNormalizer are    *)
(* left out: the backend stores what they are for as already normalized, so *)
(* no such row is ever in a batch.                                          *)
(****************************************************************************)
EXTENDS Payloads

CONSTANT NormalizationError   \* the item cannot be normalized

(* What a normalizer says of a record when it says nothing else: the        *)
(* defaults of base_record, and the text in which it looks for the          *)
(* component and the surface.                                               *)
Defaults ==
    [cve |-> None, cwe |-> None, cvss |-> None, vector |-> None,
     severity |-> "unknown", vendor |-> None, product |-> None, version |-> None,
     exploit |-> "unknown", confidence |-> "medium", hints |-> << >>, tags |-> {}]

(* clean_title *)
CleanTitle(item) == FirstText(<<item.title, UrlText(item.url), item.external>>)

(* base_record, of an item and the Defaults as far as they are not kept.    *)
BaseRecord(item, type, said) ==
    LET url == CanonicalUrl(item.url)
        key == DedupKey(said.cve, url, CleanTitle(item), item.source, ContentHash(item),
                        CleanTitle(item) \o item.summary \o Word(said.cve) \o Word(said.cwe))
    IN  IF CleanTitle(item) = << >> THEN NormalizationError
        ELSE [key |-> key, url |-> url, name |-> item.source, external |-> item.external,
              title |-> CleanTitle(item), summary |-> item.summary, type |-> type,
              component |-> InferVehicleComponent(said.hints),
              surface |-> InferAttackSurface(said.hints),
              cve |-> said.cve, cwe |-> said.cwe, cvss |-> said.cvss, vector |-> said.vector,
              severity |-> said.severity, vendor |-> said.vendor, product |-> said.product,
              version |-> said.version, exploit |-> said.exploit,
              confidence |-> said.confidence, tags |-> said.tags \ {None}]

(* exploit_status_from_text *)
ExploitStatus(text) ==
    IF Has(text, "exploited") THEN "exploited"
    ELSE IF Has(text, "poc") THEN "proof_of_concept" ELSE "unknown"

SeverityValue(severity) ==
    IF severity \in {"low", "medium", "high", "critical"} THEN severity ELSE "unknown"

(* first_cpe_part: the first product that says it, skipping wildcards. *)
FirstCpePart(content, part) ==
    LET named == IF content = None THEN << >>
                 ELSE SelectSeq(content.cpes, LAMBDA cpe : cpe[part] # None)
    IN  IF named = << >> THEN None ELSE named[1][part]

TypeOf(cve) == IF cve # None THEN "vulnerability" ELSE "advisory"

-----------------------------------------------------------------------------
NvdNormalizer(item) ==
    LET references == IF item.content = None THEN << >> ELSE item.content.references
        hints      == item.title \o item.summary \o references
        cve        == FindCve(item.external \o item.title \o item.summary)
        cwe        == NormalizeCwe(item.metadata.cwe)
    IN  IF cve = None THEN NormalizationError
        ELSE BaseRecord(item, "vulnerability",
               [Defaults EXCEPT !.cve = cve, !.cwe = cwe,
                !.cvss = item.metadata.cvss.score, !.vector = item.metadata.cvss.vector,
                !.severity = SeverityValue(item.metadata.cvss.severity),
                !.vendor = FirstCpePart(item.content, "vendor"),
                !.product = FirstCpePart(item.content, "product"),
                !.version = FirstCpePart(item.content, "version"),
                !.hints = hints,
                !.exploit = ExploitStatus(Word(item.metadata.status) \o references),
                !.confidence = "high",
                !.tags = {"nvd", "cve", cve, cwe, item.metadata.status}])

CisaKevNormalizer(item) ==
    LET cve == FindCve(item.external \o item.title \o item.summary)
        cwe == NormalizeCwe(item.metadata.cwes)
    IN  IF cve = None THEN NormalizationError
        ELSE BaseRecord(item, "vulnerability",
               [Defaults EXCEPT !.cve = cve, !.cwe = cwe,
                !.vendor = item.metadata.vendor, !.product = item.metadata.product,
                !.hints = item.title \o item.summary,
                !.exploit = "exploited", !.confidence = "high",
                !.tags = {"cisa-kev", "kev", "known_exploited", "cve", cve, cwe,
                          IF item.metadata.ransomware = "known" THEN "ransomware_use"
                          ELSE None}])

(* The normalizers that read everything out of one text. *)
FromText(item, text, said) ==
    LET cve == FindCve(text)
    IN  BaseRecord(item, TypeOf(cve),
            [said EXCEPT !.tags = @ \cup {cve}, !.cve = cve, !.cwe = NormalizeCwe(text),
                         !.hints = text])

ItemText(item) == item.title \o item.summary \o UrlText(item.url) \o item.external

RssNormalizer(item) ==
    FromText(item, ItemText(item),
             [Defaults EXCEPT !.exploit = ExploitStatus(ItemText(item)),
                             !.tags = {"rss", "feed", item.metadata.feed}])

(* The text of a page is also what its metadata says, its links included:   *)
(* a list of advisories is filed under the first number it links to.        *)
VendorAdvisoryNormalizer(item) ==
    LET text == item.title \o item.summary \o UrlText(item.url) \o item.metadata.text IN
    FromText(item, text,
             [Defaults EXCEPT
                !.vendor = item.metadata.vendor, !.exploit = ExploitStatus(text),
                !.tags = {"vendor_advisory", item.metadata.vendor, item.metadata.verification,
                          IF item.metadata.pdf THEN "pdf" ELSE None}])

(* A campaign is one record, whichever vehicle it was found for. *)
RecallNormalizer(item) ==
    LET r == BaseRecord(item, "incident",
               [Defaults EXCEPT
                !.vendor = item.metadata.make, !.product = item.metadata.model,
                !.hints = item.metadata.component \o item.title \o item.summary,
                !.tags = {"recall", "nhtsa", "software_related",
                          item.metadata.make, item.metadata.model}])
    IN  IF r = NormalizationError THEN NormalizationError
        ELSE [r EXCEPT !.key = <<"recall:campaign", item.metadata.campaign>>]

FallbackNormalizer(item) ==
    FromText(item, ItemText(item), [Defaults EXCEPT !.tags = {"raw_fallback"}])

-----------------------------------------------------------------------------
(* NormalizerRegistry.resolve: by the name of the source, and only for an   *)
(* unknown name by its type.                                                *)
BySourceName ==
    ("nvd" :> "nvd") @@ ("cisa-kev" :> "kev") @@ ("rss" :> "rss")
    @@ ("vendor-advisories" :> "vendor") @@ ("nhtsa-recalls" :> "recall")

BySourceType ==
    [rss |-> "rss", vendor |-> "vendor", html |-> "vendor", pdf |-> "vendor",
     api |-> "fallback"]

Resolve(item) ==
    IF item.source \in DOMAIN BySourceName THEN BySourceName[item.source]
    ELSE IF item.type \in DOMAIN BySourceType THEN BySourceType[item.type]
    ELSE "none"

Normalize(item) ==
    LET normalizer == Resolve(item) IN
    CASE normalizer = "nvd"      -> NvdNormalizer(item)
      [] normalizer = "kev"      -> CisaKevNormalizer(item)
      [] normalizer = "rss"      -> RssNormalizer(item)
      [] normalizer = "vendor"   -> VendorAdvisoryNormalizer(item)
      [] normalizer = "recall"   -> RecallNormalizer(item)
      [] normalizer = "fallback" -> FallbackNormalizer(item)
      [] OTHER                   -> NormalizationError
=============================================================================
