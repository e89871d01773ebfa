---------------------------- MODULE ScoringRules ----------------------------
(****************************************************************************)
(* The fixed scoring rules, src/worker/sentineldrive_worker/scoring/rules.py*)
(* as operators over a record.  All amounts are in TENTHS of a point, and a *)
(* CVSS score in tenths of its unit, so that the arithmetic is exact: the   *)
(* code rounds to two decimals, and no amount has more than one.            *)
(*                                                                          *)
(* What the code reads out of free text (searchable_text) is abstracted to  *)
(* "senses": the tables of terms that some word of the text is in.          *)
(****************************************************************************)
EXTENDS Integers

CONSTANT NoValue   \* an empty column

Senses == {"poc", "remote", "unauthenticated", "authenticated", "shared"}

SeverityFallback ==
    [critical |-> 620, high |-> 500, medium |-> 320, low |-> 150, unknown |-> 100]

ComponentWeight ==
    [tbox |-> 140, ota |-> 140, can |-> 140, v2x |-> 140, cloud_api |-> 130,
     app |-> 120, charging |-> 120, cellular |-> 100, wifi |-> 80,
     bluetooth |-> 80, ivi |-> 70, usb |-> 40]

Components == DOMAIN ComponentWeight

RemoteSurfaces == Components \ {"can", "ivi", "usb"}

ConfidenceWeight == [high |-> 50, medium |-> 0, low |-> -80]

ExploitedTags == {"cisa-kev", "kev", "known_exploited", "known-exploited"}

ASSUME NoValueAssumption == NoValue \notin Components \cup {"N", "A", "L", "P", "H"}

(* What the rules read in a CVSS vector. *)
Vectors == [access : {NoValue, "N", "A", "L", "P"}, privileges : {NoValue, "N", "L", "H"}]

(* The columns of a record that the rules look at.  "listed": the metadata  *)
(* has a date_added, a known_ransomware_campaign_use or a                   *)
(* vulnerability_name, whatever it says; "several": the vendor is           *)
(* "multiple", "various" or the like.                                       *)
Assessable ==
    [cvss : {NoValue} \cup Int, vector : {NoValue} \cup Vectors,
     severity : DOMAIN SeverityFallback,
     exploit : {"exploited", "proof_of_concept", "none_known", "unknown"},
     tags : SUBSET STRING, names : SUBSET STRING, listed : BOOLEAN,
     component : {NoValue} \cup Components, surface : {NoValue} \cup Components,
     several : BOOLEAN, senses : SUBSET Senses,
     confidence : DOMAIN ConfidenceWeight]

Least(x, y) == IF x < y THEN x ELSE y
Most(x, y)  == IF x > y THEN x ELSE y

-----------------------------------------------------------------------------
(* cvss_or_severity_factor: a CVSS score counts seven tenths, and only      *)
(* without one does the severity count.                                     *)
CvssOrSeverity(r) ==
    IF r.cvss # NoValue THEN 7 * Least(Most(r.cvss, 0), 100)
                        ELSE SeverityFallback[r.severity]

KnownExploited(r) ==
    \/ r.exploit = "exploited"
    \/ r.tags \cap ExploitedTags # {}
    \/ r.names \cap {"cisa-kev", "cisa_kev"} # {}
    \/ r.listed

(* Known exploitation counts, and only without it a proof of concept. *)
Exploitation(r) ==
    IF KnownExploited(r) THEN 250
    ELSE IF r.exploit = "proof_of_concept" THEN 120 ELSE 0

PublicPoc(r) ==
    IF "poc" \in r.senses \/ r.tags \cap {"poc", "proof_of_concept"} # {}
    THEN 100 ELSE 0

(* cvss_metric *)
Access(r)     == IF r.vector = NoValue THEN NoValue ELSE r.vector.access
Privileges(r) == IF r.vector = NoValue THEN NoValue ELSE r.vector.privileges

(* remote_exploitability_signal: the vector or what is affected, then the   *)
(* text; a vector that says "adjacent" hides a text that says "remote".     *)
Remote(r) ==
    IF Access(r) = "N" \/ {r.surface, r.component} \cap RemoteSurfaces # {} THEN 100
    ELSE IF Access(r) = "A" THEN 70
    ELSE IF "remote" \in r.senses THEN 80 ELSE 0

(* authentication_signal *)
Authentication(r) ==
    IF Privileges(r) = "N" \/ "unauthenticated" \in r.senses THEN 80
    ELSE IF Privileges(r) = "L" THEN 30
    ELSE IF Privileges(r) = "H" \/ "authenticated" \in r.senses THEN -40 ELSE 0

(* vehicle_component_signal: the attack surface only when the component is  *)
(* not a weighted one.                                                      *)
VehicleComponent(r) ==
    IF r.component \in Components THEN ComponentWeight[r.component]
    ELSE IF r.surface \in Components THEN ComponentWeight[r.surface] ELSE 0

(* multi_vendor_or_common_component *)
Shared(r) == IF r.several \/ "shared" \in r.senses THEN 80 ELSE 0

Bounded(score) == Least(Most(score, 0), 1000)

(* score_threat_intelligence *)
Score(r) ==
    Bounded(CvssOrSeverity(r) + Exploitation(r) + PublicPoc(r) + Remote(r)
            + Authentication(r) + VehicleComponent(r) + Shared(r)
            + ConfidenceWeight[r.confidence])

(* risk_level_for_score *)
Level(score) ==
    IF score >= 900 THEN "critical" ELSE IF score >= 700 THEN "high"
    ELSE IF score >= 400 THEN "medium" ELSE "low"
=============================================================================
