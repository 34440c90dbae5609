------------------------------ MODULE MCWatch ------------------------------
(***************************************************************************)
(* Scenarios for Watch.tla: writes of one setting at once, deliveries of   *)
(* one alert, and administrators and settings that change below them.      *)
(***************************************************************************)
EXTENDS Watch, TLC
Pair(k, v) == [of |-> k, value |-> v]
Signal(x, s, vm) == [of |-> x, status |-> s, vm |-> vm]
Mail(op, n, items) == [op |-> op, no |-> n, items |-> items, admins |-> {"root"}, held |-> {}, by |-> "root"]
Calm == [saved |-> [k \in Keys |-> "none"], alerts |-> [x \in Prints |-> {}], admins |-> {"root", "ann"},
    held |-> {"bob"}, mail |-> {}, trouble |-> 0]
Settings == [Calm EXCEPT !.trouble = 1, !.mail = {Mail("settings", 1, <<Pair("url", "a"), Pair("ttl", "b")>>),
    Mail("settings", 2, <<Pair("url", "b"), Pair("ttl", "bad")>>),
   Mail("settings", 3, <<Pair("ttl", "c")>>), Mail("kill", 4, <<>>)}]
Alarms == [Calm EXCEPT !.saved["url"] = "a", !.trouble = 1,
   !.mail = {Mail("deliver", 1, <<Signal("x", "firing", TRUE)>>), Mail("deliver", 2, <<Signal("x", "firing", TRUE),
    Signal("y", "firing", FALSE)>>),
   Mail("deliver", 3, <<Signal("x", "resolved", TRUE)>>), Mail("age", 4, <<>>)}]
Changing == [Calm EXCEPT !.saved["url"] = "a", !.trouble = 1, !.alerts["x"] = {[status |-> "firing", aged |-> TRUE]},
   !.mail = {Mail("deliver", 1, <<Signal("x", "firing", TRUE)>>), Mail("settings", 2, <<Pair("url", "empty")>>),
    Mail("staff", 3, <<>>), Mail("seen", 5, <<>>), [Mail("all seen", 6, <<>>) EXCEPT !.by = "bob"],
    Mail("kill", 4, <<>>)}]
\* One alert fires, is resolved and fires again.
Returning == {[Calm EXCEPT !.mail = {Mail("deliver", i, <<Signal("x", IF i = 2 THEN "resolved" ELSE "firing", FALSE)>>) : i \in 1..3}]}
AllWatches == {Calm, Settings, Alarms, Changing}

MCLegal == [k \in {"url","ttl"} |-> IF k = "url" THEN {"a","b","empty"} ELSE {"b","c"}]
=============================================================================
