-------------------------- MODULE IntelligenceStore --------------------------
(****************************************************************************)
(* What the core intelligence table promises to its readers, with nothing   *)
(* of workers, transactions or raw rows: every report about a deduplication *)
(* key is absorbed into the one row of that key, and absorbing a report     *)
(* never takes anything back.  The merge rules are those the code applies   *)
(* to a row it has just read (merge_normalized); the module says that they  *)
(* always apply to the row as it IS, which is what a reader of the          *)
(* documentation expects.                                                   *)
(****************************************************************************)
EXTENDS Naturals

CONSTANTS Reports,   \* normalized records: [key, name, url, raw, severity, detail]
          Keys,      \* deduplication keys
          Unset,     \* an empty structured field
          NoRow      \* no row with this key

VARIABLE rows        \* [Keys -> row or NoRow]

Fresh(n) ==
    [origin |-> n.raw, names |-> {n.name},
     severity |-> n.severity, detail |-> n.detail]

Stronger(x, y) == IF x > y THEN x ELSE y

Absorb(row, n) ==
    [row EXCEPT !.names    = @ \cup {n.name},
                !.severity = Stronger(n.severity, @),
                !.detail   = IF @ = Unset THEN n.detail ELSE @]

Init == rows = [k \in Keys |-> NoRow]

(* One report reaches the table. *)
Report(n) ==
    rows' = [rows EXCEPT ![n.key] = IF @ = NoRow THEN Fresh(n) ELSE Absorb(@, n)]

Next == \E n \in Reports : Report(n)

Spec == Init /\ [][Next]_rows
=============================================================================
