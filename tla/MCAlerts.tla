------------------------------ MODULE MCAlerts ------------------------------
(* Three records of one vendor, two of them of one CVE, reported by one     *)
(* source at two URLs until the first is found in the catalogue of          *)
(* exploited vulnerabilities and is critical then.  Their dates span the    *)
(* look-back exactly.  One of the limits is larger than ContextLimit.       *)
(*                                                                          *)
(* A scope says which records there are and what may happen, so that one    *)
(* run covers more evaluations, with reviews, and more records.             *)
EXTENDS Alerts, TLC

CONSTANTS nvd, cisa, feed, page, mirror, cve, acme, tbox, radio,
          Scopes   \* [entries, limits, commits, reviews]
VARIABLE scope

MCRow(level, severe, names, urls, c, component, first, last) ==
    [level |-> level, severe |-> severe, exploited |-> FALSE, names |-> names, urls |-> urls,
     cve |-> c, vendor |-> acme, component |-> component, first |-> first, last |-> last]

MCVersions ==
    [e \in Entries |->
        CASE e = 1 -> <<MCRow("low", TRUE, {nvd}, {page}, cve, radio, 0, 1),
                        MCRow("critical", FALSE, {nvd, cisa}, {page}, cve, radio, 0, 2)>>
          [] e = 2 -> <<MCRow("high", FALSE, {nvd}, {mirror}, cve, tbox, 7, 2)>>
          [] e = 3 -> <<MCRow("high", FALSE, {feed}, {page}, None, radio, 3, 3)>>]

MCScopes ==
    {[entries |-> {1, 2}, limits |-> {1}, commits |-> 3, reviews |-> 1],
     [entries |-> {1, 2, 3}, limits |-> {1, 3}, commits |-> 2, reviews |-> 0]}

InScope == UNCHANGED scope

MCNext ==
    \/ \E e \in scope.entries : Change(e) /\ InScope
    \/ \E a \in alerts, status \in Statuses :
          Review(a, status) /\ InScope /\ Len(audit') <= scope.reviews
    \/ \E p \in Evaluators :
          \/ LoadEntries(p) /\ InScope /\ commits < scope.commits /\ limit'[p] \in scope.limits
          \/ LoadContext(p) /\ InScope
          \/ Check(p) /\ InScope
          \/ Commit(p) /\ InScope
          \/ Abort(p) /\ InScope

MCInit == Init /\ scope \in Scopes

MCSpec == MCInit /\ [][MCNext]_<<vars, scope>>

(* The evaluators are interchangeable. *)
MCSymmetry == Permutations(Evaluators)
=============================================================================
