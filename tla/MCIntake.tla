------------------------------ MODULE MCIntake ------------------------------
(* A CVE that is entered by hand, sent by two collectors and reported by    *)
(* the worker, and an advisory without one at the same URL.                 *)
EXTENDS Intake, TLC

CONSTANTS c1, t1, t2, n1, n2, u1, u2, e1, e2, h1

MCCves   == {c1}
MCTitles == {t1, t2}
MCNames  == {n1, n2}
MCUrls   == {u1, u2}
MCIds    == {e1, e2}

MCSubmissions ==
    {[title |-> t1, name |-> n1, url |-> u1, cve |-> None],
     [title |-> t1, name |-> n1, url |-> u1, cve |-> c1]}

MCChanges ==
    {[title |-> t2, cve |-> Same, name |-> Same, url |-> Same],
     [title |-> Same, cve |-> None, name |-> Same, url |-> Same],
     [title |-> Same, cve |-> Same, name |-> Same, url |-> u2]}

Sent == [title |-> t1, name |-> n2, url |-> u1, cve |-> None,
         id |-> None, dedup |-> None, hash |-> None, manual |-> FALSE]

MCPayloads ==
    {[Sent EXCEPT !.cve = c1, !.id = e1, !.dedup = e2],
     [Sent EXCEPT !.id = e2],
     [Sent EXCEPT !.hash = h1],
     [Sent EXCEPT !.dedup = e1, !.hash = h1],
     [Sent EXCEPT !.cve = c1, !.url = u2, !.manual = TRUE]}

MCReports ==
    {[title |-> t1, name |-> n1, url |-> u1, cve |-> c1, id |-> None],
     [title |-> t1, name |-> n1, url |-> u1, cve |-> None, id |-> e1]}

MCSpells == (e1 :> [kind |-> "cve", of |-> c1]) @@ (e2 :> None)
=============================================================================
