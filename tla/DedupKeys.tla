------------------------------ MODULE DedupKeys ------------------------------
(****************************************************************************)
(* How the normalizers read text and name a record:                         *)
(* src/worker/sentineldrive_worker/normalization/dedup.py and hints.py.     *)
(*                                                                          *)
(* A text is a sequence of words, << >> when it is empty.  A word stands    *)
(* for whatever the code's patterns and term lists find at one place of a   *)
(* text, and Lexicon says what that is; a word outside it is plain.  Case,  *)
(* blanks and the length of a text are left out, and a hash is the value    *)
(* that is hashed.                                                          *)
(****************************************************************************)
EXTENDS Naturals, Sequences

CONSTANTS None,     \* an empty value
          Lexicon   \* [word -> [cve, cwe, senses]]

(* What a word may be found to be, besides a CVE or CWE number. *)
Surfaces == {"app", "tbox", "ivi", "ota", "v2x", "charging", "cloud_api",
             "bluetooth", "wifi", "cellular", "can", "usb"}

Senses == Surfaces \cup {"exploited", "poc", "advisory", "psirt", "software"}

Plain == [cve |-> None, cwe |-> None, senses |-> {}]

Says(word) == IF word \in DOMAIN Lexicon THEN Lexicon[word] ELSE Plain

Has(text, sense) == \E i \in DOMAIN text : sense \in Says(text[i]).senses

First(text, IsIt(_)) ==
    LET hits == {i \in DOMAIN text : IsIt(text[i])}
    IN  IF hits = {} THEN None
        ELSE text[CHOOSE i \in hits : \A j \in hits : i <= j]

(* find_cve of one text, or of several values one after the other: the      *)
(* first number that is mentioned, in capitals.                             *)
FindCve(text) ==
    LET word == First(text, LAMBDA w : Says(w).cve # None)
    IN  IF word = None THEN None ELSE Says(word).cve

NormalizeCwe(text) ==
    LET word == First(text, LAMBDA w : Says(w).cwe # None)
    IN  IF word = None THEN None ELSE Says(word).cwe

-----------------------------------------------------------------------------
(* A URL, or whatever else stands in a URL's place: [scheme, host,          *)
(* capitals, path, fragment], where capitals says that scheme or host has   *)
(* some, fragment that a #... follows, and path is a text.                  *)
Root == <<"/">>

CanonicalUrl(url) ==
    IF url = None THEN None
    ELSE IF url.scheme \notin {"http", "https"} THEN url
    ELSE [url EXCEPT !.capitals = FALSE, !.fragment = FALSE,
                     !.path = IF @ = << >> THEN Root ELSE @]

UrlText(url) == IF url = None THEN << >> ELSE <<url.host>> \o url.path

(* A name is one word, and may be missing. *)
Word(name) == IF name = None THEN << >> ELSE <<name>>

(* The first of several texts that is not empty: a or b or ... *)
FirstText(texts) ==
    LET found == SelectSeq(texts, LAMBDA t : t # << >>)
    IN  IF found = << >> THEN << >> ELSE Head(found)

(* Mutant of DedupKey: the URL comes first. *)
DedupKeyUrlFirst(cve, url, title, source, content, text) ==
    IF CanonicalUrl(url) # None THEN <<"url", CanonicalUrl(url)>> ELSE <<"cve", cve>>

(* dedup_key: the first of a CVE number, the page, the title in the source, *)
(* the content and the text that the record has.                            *)
DedupKey(cve, url, title, source, content, text) ==
    IF cve # None THEN <<"cve", cve>>
    ELSE IF CanonicalUrl(url) # None THEN <<"url", CanonicalUrl(url)>>
    ELSE IF title # << >> /\ source # None THEN <<"title-source", <<title, source>> >>
    ELSE IF content # None THEN <<"content", content>>
    ELSE IF text # << >> THEN <<"text", text>>
    ELSE <<"fallback", <<title, source>> >>

-----------------------------------------------------------------------------
(* VEHICLE_COMPONENTS and ATTACK_SURFACES look for the same terms in two    *)
(* different orders: a text about several of them has a component and a     *)
(* surface that are not the same.                                           *)
VehicleComponents ==
    <<"app", "tbox", "ivi", "ota", "v2x", "charging", "cloud_api",
      "bluetooth", "wifi", "cellular", "can", "usb">>

AttackSurfaces ==
    <<"bluetooth", "wifi", "cellular", "cloud_api", "usb", "can",
      "v2x", "charging", "ota", "app", "tbox", "ivi">>

(* infer_from_text *)
Infer(order, text) == First(order, LAMBDA surface : Has(text, surface))

InferVehicleComponent(text) == Infer(VehicleComponents, text)
InferAttackSurface(text)    == Infer(AttackSurfaces, text)
=============================================================================
