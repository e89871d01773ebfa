------------------------ MODULE MCConnectorRuntime ------------------------
(* One source at a time with enough changes and failures to be interesting, *)
(* and a list of sources, dead and alive, in one run.                       *)
EXTENDS ConnectorRuntime, TLC

MCConnectorOf ==
    [nvd |-> "nvd", kev |-> "cisa-kev", rss |-> "rss", vendor |-> "vendor-advisories",
     recalls |-> "nhtsa-recalls", sample |-> "sample", off |-> "rss", unknown |-> NoConnector]

MCSources == DOMAIN MCConnectorOf

MCEnabled == MCSources \ {"off"}

MCEndpoints ==
    [nvd |-> <<{1, 2, 3, 4}>>, kev |-> <<{1}>>, rss |-> <<{2}, {1}>>, vendor |-> << >>,
     recalls |-> <<{2}, {1, 2}>>, sample |-> << >>, off |-> <<{2}>>, unknown |-> << >>]

(* Each list of sources with its bounds. *)
MCOrders == {<<"nvd">>, <<"recalls">>, <<"off", "kev", "rss">>, <<"unknown", "vendor", "sample">>}

MCBounds ==
    (<<"nvd">> :> [runs |-> 2, changes |-> 1, ticks |-> 2, errors |-> 0])
    @@ (<<"recalls">> :> [runs |-> 2, changes |-> 1, ticks |-> 0, errors |-> 1])
    @@ (<<"off", "kev", "rss">> :> [runs |-> 1, changes |-> 1, ticks |-> 0, errors |-> 1])
    @@ (<<"unknown", "vendor", "sample">> :> [runs |-> 1, changes |-> 0, ticks |-> 0, errors |-> 0])
============================================================================
