------------------------------ MODULE Payloads ------------------------------
(****************************************************************************)
(* What the connectors make of one upstream answer: the raw items of        *)
(* connectors/contracts.py, built by nvd_cisa.py, rss_vendor.py,            *)
(* nhtsa_recalls.py and samples.py (src/worker/sentineldrive_worker).       *)
(*                                                                          *)
(* An upstream entry is a record of the fields that are read; a field under *)
(* several names, or in JSON or CSV, is one field.  What the code cuts off  *)
(* (a title after 120 characters, a snippet after 500) repeats the summary  *)
(* and is left out; dates are those of the item and are left out too.       *)
(****************************************************************************)
EXTENDS DedupKeys, SequencesExt, TLC

CONSTANTS ConnectorError, \* the entry or the answer is malformed
          LinkLimit       \* links of a page that are kept, 20

(* RawIntelligencePayload.from_source and to_raw_record.  A source is       *)
(* [name, type, base], and an item has always a URL.                        *)
FromSource(source, url, external, title, summary, content, metadata) ==
    [source |-> source.name, type |-> source.type,
     url |-> IF url = None THEN source.base ELSE url,
     external |-> external, title |-> title, summary |-> summary,
     content |-> content, metadata |-> metadata]

(* What content_hash is the hash of. *)
ContentHash(item) == <<item.url, item.external, item.title, item.summary, item.content>>

Page(host, path) ==
    [scheme |-> "https", host |-> host, capitals |-> FALSE, path |-> path, fragment |-> FALSE]

-----------------------------------------------------------------------------
(* The NVD: an entry is [id, descriptions, metrics, weaknesses, status,     *)
(* references, cpes, large].                                                *)

(* best_nvd_description: the first in English, else the first. *)
BestNvdDescription(descriptions) ==
    LET english == SelectSeq(descriptions, LAMBDA d : d.english)
    IN  FirstText([i \in 1 .. Len(english) |-> english[i].value]
                  \o [i \in 1 .. Len(descriptions) |-> descriptions[i].value])

NoCvss == [score |-> None, severity |-> None, vector |-> None]

(* extract_cvss: metrics holds the lists of versions 3.1, 3.0 and 2, and    *)
(* only the first element of a list is looked at.                           *)
ExtractCvss(metrics) ==
    LET usable == SelectSeq(metrics, LAMBDA list : list # << >> /\ list[1] # None)
    IN  IF usable = << >> THEN NoCvss
        ELSE LET first == usable[1][1]
             IN  [score |-> first.score, vector |-> first.vector,
                  severity |-> IF first.severity # None THEN first.severity
                               ELSE first.outerSeverity]

ExtractCwe(weaknesses) == SelectSeq(weaknesses, LAMBDA w : Says(w).cwe # None)

(* nvd_payload.  An entry too large to keep loses its content, and with it  *)
(* the products that only the content names.                                *)
NvdPayload(source, entry) ==
    LET summary == BestNvdDescription(entry.descriptions) IN
    IF entry.id = None THEN ConnectorError
    ELSE FromSource(source, Page("nvd.nist.gov", <<entry.id>>), <<entry.id>>,
                    <<entry.id>> \o summary, summary,
                    IF entry.large THEN None ELSE entry,
                    [cvss |-> ExtractCvss(entry.metrics),
                     cwe |-> ExtractCwe(entry.weaknesses), status |-> entry.status])

-----------------------------------------------------------------------------
(* The KEV catalogue: an entry is [id, name, vendor, product, notes, cwes,  *)
(* ransomware, added].                                                      *)
KevPayload(source, entry) ==
    LET name    == IF entry.name = << >> THEN <<entry.id>> ELSE entry.name
        product == <<IF entry.vendor = None THEN "Unknown vendor" ELSE entry.vendor,
                     IF entry.product = None THEN "unknown product" ELSE entry.product>>
    IN
    IF entry.id = None THEN ConnectorError
    ELSE FromSource(source, Page("www.cisa.gov", <<entry.id>>), <<entry.id>>,
                    <<entry.id>> \o name, product \o name \o entry.notes, entry,
                    [entry EXCEPT !.name = name])

-----------------------------------------------------------------------------
(* Feeds: a document is [root, channel, items].                             *)

(* An Atom entry's link is the first that says it is the page itself. *)
AtomLink(anchors) ==
    LET own == SelectSeq(anchors, LAMBDA l : l.href # None /\ l.rel \in {None, "alternate"})
    IN  IF own = << >> THEN None ELSE own[1].href

ParseAtomEntry(entry) ==
    [title |-> entry.title, link |-> AtomLink(entry.links), guid |-> entry.guid,
     summary |-> FirstText(<<entry.summary, entry.content>>)]

(* parse_feed *)
ParseFeed(document) ==
    IF document.root = "rss" /\ document.channel THEN document.items
    ELSE IF document.root = "feed"
    THEN [i \in 1 .. Len(document.items) |-> ParseAtomEntry(document.items[i])]
    ELSE ConnectorError

(* rss_payload of an item [title, link, guid, summary]; link and guid are   *)
(* URLs or what stands in their place.                                      *)
RssPayload(source, feed, item, answered) ==
    LET url == IF item.link # None THEN item.link
               ELSE IF item.guid # None THEN item.guid ELSE answered
    IN  FromSource(source, url,
                   UrlText(IF item.guid # None THEN item.guid ELSE url),
                   FirstText(<<item.title, UrlText(url)>>), item.summary, item,
                   [feed |-> feed])

-----------------------------------------------------------------------------
(* Vendors' pages: [url, title, description, heading, canonical, links], a  *)
(* link being [url, text, pdf], of an endpoint [vendor, url, verification]. *)

(* What str(metadata) of a page or of a link says. *)
LinkText(link) == UrlText(link.url) \o link.text

FirstLinks(anchors) == SubSeq(anchors, 1, IF Len(anchors) < LinkLimit THEN Len(anchors) ELSE LinkLimit)

(* vendor_payload: the page is kept under an id that depends on its text,   *)
(* and its metadata lists what it links to.                                 *)
VendorPayload(source, endpoint, page) ==
    LET shown   == FirstLinks(page.links)
        summary == FirstText(<<page.description, page.heading, page.title>>)
    IN  FromSource(source, IF page.canonical # None THEN page.canonical ELSE page.url,
                   <<page>>,
                   FirstText(<<page.title, <<IF endpoint.vendor = None THEN "Vendor"
                                             ELSE endpoint.vendor, "advisory endpoint">> >>),
                   summary, None,
                   [vendor |-> endpoint.vendor, verification |-> endpoint.verification,
                    pdf |-> FALSE,
                    text |-> Word(endpoint.vendor) \o UrlText(endpoint.url) \o UrlText(page.url)
                             \o page.title \o page.description \o page.heading
                             \o UrlText(page.canonical)
                             \o FlattenSeq([i \in 1 .. Len(shown) |-> LinkText(shown[i])])])

(* looks_like_advisory_link *)
LooksLikeAdvisory(link) ==
    \/ Has(link.url.path \o link.text, "advisory")
    \/ link.pdf /\ Has(link.text, "psirt")

AdvisoryLinks(page) == FirstLinks(SelectSeq(page.links, LooksLikeAdvisory))

LinkPayload(source, endpoint, page, link) ==
    FromSource(source, link.url, Word(endpoint.vendor) \o UrlText(link.url),
               FirstText(<<link.text, UrlText(link.url)>>), << >>, None,
               [vendor |-> endpoint.vendor, verification |-> endpoint.verification,
                pdf |-> link.pdf,
                text |-> Word(endpoint.vendor) \o UrlText(endpoint.url)
                         \o UrlText(page.url) \o link.text])

-----------------------------------------------------------------------------
(* Recalls: an answer is [results, count], an entry [campaign, component,   *)
(* summary, ota] and a vehicle [make, model, year].                         *)
ParseRecalls(answer) ==
    IF answer.results # None THEN answer.results
    ELSE IF answer.count = 0 THEN << >> ELSE ConnectorError

SoftwareRelated(entry) ==
    entry.ota \/ Has(entry.component \o entry.summary, "software")

(* recall_payload: nothing for a campaign that is known or mechanical. *)
RecallPayload(source, entry, vehicle, seen) ==
    IF entry.campaign = None \/ entry.campaign \in seen \/ ~ SoftwareRelated(entry)
    THEN None
    ELSE FromSource(source, Page("www.nhtsa.gov", <<entry.campaign>>), <<entry.campaign>>,
                    <<vehicle.make, vehicle.model, vehicle.year, entry.campaign>>,
                    entry.summary, entry,
                    [campaign |-> entry.campaign, make |-> vehicle.make,
                     model |-> vehicle.model, component |-> entry.component])

-----------------------------------------------------------------------------
(* SampleConnector.collect: the item after the one the cursor names. *)
SamplePayload(source, cursor) ==
    FromSource(source, None, <<"sample", ToString(cursor + 1)>>, <<"sample">>, <<"no-op">>,
               cursor, cursor + 1)
=============================================================================
