----------------------------- MODULE SourceRuns -----------------------------
(****************************************************************************)
(* What the rest of the worker relies on in a run over the sources, with    *)
(* nothing of threads, attempts, requests or time: the sources are gone     *)
(* through in order, and each is collected in one step, which adds its one  *)
(* record.  A step that succeeds continues the cursor as it IS at that      *)
(* moment and delivers what it read; one that fails, having used up every   *)
(* attempt, leaves no trace but its record; and between the records nothing *)
(* happens, whatever is still under way somewhere.                          *)
(****************************************************************************)
EXTENDS Naturals, Sequences

CONSTANTS
    Sources,     \* names of sources
    Collected,   \* those that are enabled and have a connector
    Orders,      \* the lists of sources a worker may be configured with
    Items,       \* what there is to read
    Cursors,     \* records with at least the fields seen, to and next
    NoCursor,    \* the cursor of a source that was never collected
    Passing,     \* sources whose cursor names the items they pass over
    Dated,       \* sources whose cursor is the latest date they have seen
    Counting,    \* sources whose cursor counts their collections
    Retries      \* how often a source is collected again after a failure

VARIABLES
    order,       \* the configured sources, in order
    kept,        \* whether the cursors are kept from one run to the next
    running,     \* whether a run is under way
    records,     \* of the present or the last run
    cursors,     \* [Sources -> Cursors]
    log          \* [Sources -> sequence of what each success has read]

runVars == <<order, kept, running, records, cursors, log>>

Init ==
    /\ order \in Orders
    /\ kept \in BOOLEAN
    /\ running = FALSE
    /\ records = << >>
    /\ cursors = [s \in Sources |-> NoCursor]
    /\ log = [s \in Sources |-> << >>]

Start ==
    /\ ~ running
    /\ running' = TRUE
    /\ records' = << >>
    /\ cursors' = IF kept THEN cursors ELSE [s \in Sources |-> NoCursor]
    /\ UNCHANGED <<order, kept, log>>

Present == order[Len(records) + 1]

(* The one record of the present source. *)
Record(status, attempts) ==
    /\ records' = Append(records, [source |-> Present, status |-> status, attempts |-> attempts])
    /\ running' = (Len(records') # Len(order))
    /\ UNCHANGED <<order, kept>>

Skip ==
    /\ running
    /\ Present \notin Collected
    /\ Record("skipped", 0)
    /\ UNCHANGED <<cursors, log>>

(* How a source's next cursor continues the one before. *)
Continues(s, before, reading, after) ==
    LET got == {i \in Items : reading[i] # 0} IN
    /\ after \in Cursors
    /\ s \in Passing => got \cap before.seen = {} /\ after.seen = before.seen \cup got
    /\ s \in Dated => after.to >= before.to
    /\ s \in Counting => after.next = before.next + 1

Succeed ==
    /\ running
    /\ Present \in Collected
    /\ \E attempts \in 1 .. Retries + 1 : Record("success", attempts)
    /\ \E reading \in {log'[Present][Len(log[Present]) + 1]}, after \in {cursors'[Present]} :
          /\ Continues(Present, cursors[Present], reading, after)
          /\ cursors' = [cursors EXCEPT ![Present] = after]
          /\ log' = [log EXCEPT ![Present] = Append(@, reading)]

Fail ==
    /\ running
    /\ Present \in Collected
    /\ Record("failed", Retries + 1)
    /\ UNCHANGED <<cursors, log>>

Next == Start \/ Skip \/ Succeed \/ Fail

Spec == Init /\ [][Next]_runVars
=============================================================================
