------------------------------ MODULE MCScoring ------------------------------
(* Rows of the table, reported by five sources and scored by the rules of   *)
(* ScoringRules: the reports disagree about CVSS score, vector, severity,   *)
(* component and what their texts say.                                      *)
(*                                                                          *)
(* A scope says which processes are running and what may happen, so that    *)
(* one run covers a process alone, over more steps, and two in competition. *)
EXTENDS Scoring, Functions

CONSTANTS Scopes   \* [active, entries, limit, merges, errors, crashes, fresh, reports]
VARIABLE scope

ASSUME ScopesAssumption ==
    \A s \in Scopes : s.active \subseteq Processes /\ IsFiniteSet(s.active)

MCKeys == {"date_added", "feed_name"}

Silent == [t \in Texts |-> NoValue]
NoKeys == [k \in MCKeys |-> NoValue]

Nothing ==
    [cvss |-> NoValue, vector |-> NoValue, severity |-> "unknown",
     exploit |-> "unknown", confidence |-> "medium",
     component |-> NoValue, surface |-> NoValue,
     tags |-> {}, names |-> {}, texts |-> Silent, words |-> {}]

(* A medium CVSS score, with a vector that says "adjacent" and asks for     *)
(* high privileges.                                                         *)
Nvd ==
    [cols |-> [Nothing EXCEPT !.cvss = 50, !.severity = "medium", !.confidence = "high",
                              !.vector = [access |-> "A", privileges |-> "H"],
                              !.names = {"nvd"}, !.tags = {"nvd", "cve"}],
     says |-> NoKeys, sighting |-> {}]

(* Known to be exploited; its severity is not known. *)
Kev ==
    [cols |-> [Nothing EXCEPT !.exploit = "exploited", !.confidence = "high",
                              !.names = {"cisa-kev"}, !.tags = {"cisa-kev", "kev"},
                              !.texts = [Silent EXCEPT !["vendor"] = {"several"}]],
     says |-> [NoKeys EXCEPT !["date_added"] = {"listed"}], sighting |-> {}]

(* An entry by hand: high severity, a text that says "remote", a surface.   *)
Lead ==
    [cols |-> [Nothing EXCEPT !.severity = "high", !.surface = "can",
                              !.names = {"lab"},
                              !.texts = [Silent EXCEPT !["title"] = {"remote"}]],
     says |-> [NoKeys EXCEPT !["feed_name"] = {"blank"}], sighting |-> {}]

(* A feed with a proof of concept for a component of little weight, whose   *)
(* name says "supply chain".                                                *)
Feed ==
    [cols |-> [Nothing EXCEPT !.exploit = "proof_of_concept", !.component = "usb",
                              !.names = {"feed"}, !.tags = {"rss"},
                              !.texts = [Silent EXCEPT !["title"] = {}, !["summary"] = {"poc"}]],
     says |-> [NoKeys EXCEPT !["feed_name"] = {"shared"}], sighting |-> {"shared"}]

(* An advisory that says an attacker must be authenticated.                 *)
Advisory ==
    [cols |-> [Nothing EXCEPT !.names = {"vendor"},
                              !.texts = [Silent EXCEPT !["summary"] = {"authenticated"}]],
     says |-> NoKeys, sighting |-> {}]

Named == [nvd |-> Nvd, kev |-> Kev, lead |-> Lead, feed |-> Feed, advisory |-> Advisory]

MCReports == Range(Named)

(* How a row may begin.  The preset is the score the rules give to Feed.    *)
MCPresets == {Score(Evidence([cols |-> Feed.cols,
                              meta |-> [says |-> Feed.says, sightings |-> << >>]]))}

New(name, score, level) == <<name, score, level>>

(* One process alone with one row and three merges, or with two rows, an    *)
(* error and a crash; two in competition, with batches of one and an error. *)
MCScopes ==
    {[active |-> {1}, entries |-> {1}, limit |-> 1, merges |-> 3, errors |-> 0, crashes |-> 1,
      fresh |-> {New("lead", Unscored, "high"), New("nvd", Unscored, "info")},
      reports |-> {"nvd", "kev", "feed", "advisory"}],
     [active |-> {1}, entries |-> {1, 2}, limit |-> 2, merges |-> 1, errors |-> 1, crashes |-> 1,
      fresh |-> {New("lead", Unscored, "high"), New("nvd", Unscored, "info")},
      reports |-> {"kev"}],
     [active |-> {1, 2}, entries |-> {1, 2}, limit |-> 1, merges |-> 1, errors |-> 1, crashes |-> 0,
      fresh |-> {New("nvd", Unscored, "medium")} \cup {New("feed", s, "info") : s \in MCPresets},
      reports |-> {"kev"}]}

MCPairScopes == {s \in MCScopes : s.active # {1}}

Alone == Cardinality(scope.active) = 1

MCInit == Init /\ scope \in Scopes

InScope ==
    /\ merges' <= scope.merges /\ errors' <= scope.errors /\ crashes' <= scope.crashes
    /\ UNCHANGED scope

Active(p) == p \in scope.active /\ InScope

MCNext ==
    \/ \E e \in Entries :
         /\ Create(e) /\ InScope
         /\ e \in scope.entries
         /\ \E n \in scope.fresh : /\ table'[e].cols = Named[n[1]].cols
                                /\ table'[e].score = n[2] /\ table'[e].level = n[3]
    \/ \E p \in Processes :
         \/ ReadForMerge(p) /\ Active(p) /\ merging'[p].report \in {Named[n] : n \in scope.reports}
         \/ Merge(p) /\ Active(p)
         \/ LoadBatch(p) /\ Active(p) /\ Len(batch'[p]) <= scope.limit
         \/ EmptyBatch(p) /\ Active(p)
         \/ ReadEntry(p) /\ Active(p)
         \/ KeepScore(p) /\ Active(p)
         \/ WriteScore(p) /\ Active(p)
         \/ FailEntry(p) /\ Active(p)
         \/ Crash(p) /\ Active(p)

mcvars == <<vars, scope>>

(* Scoring!FairSpec, of the processes that are running. *)
MCSpec ==
    /\ MCInit /\ [][MCNext]_mcvars
    /\ \A p \in Processes : /\ WF_vars(p \in scope.active /\ LoadBatch(p))
                            /\ WF_vars(p \in scope.active /\ Work(p))
-----------------------------------------------------------------------------
(* With one process at a time, a row that has been scored carries the       *)
(* explanation of the score and level it shows, through merges, forced      *)
(* runs, errors and crashes (score_row, merge_normalized).                  *)
AloneExplained == Alone => ScoresAreExplained

(* With one process at a time, a score that the scorer has given falls only *)
(* for a reason: since it was given, a source has filled in something that  *)
(* makes the row look safer, or a sighting has been forgotten.  No order of *)
(* merges, which fill what is empty and replace by what is stronger, lowers *)
(* it in another way (merge_normalized, rules.py).                          *)
AloneFallsForAReason ==
    [][Alone => \A e \in scored :
          \/ table'[e].score >= table[e].score
          \/ Countered(table[e].scoring.basis, SignalsOf(table'[e]))]_mcvars

(* With one process at a time, a row whose score is up to date is left      *)
(* alone, its time of update included, by everything but a merge: scoring   *)
(* again is idempotent, forced or not (scoring_is_current).                 *)
AloneIdempotent ==
    [][Alone => \A e \in Rows :
          \/ ~ IsCurrent(table[e], Assess(table[e]))
          \/ table'[e] = table[e]
          \/ \E p \in Processes : Merge(p)]_mcvars
=============================================================================
