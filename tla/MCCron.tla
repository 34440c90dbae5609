------------------------------- MODULE MCCron -------------------------------
(***************************************************************************)
(* Instances of Cron for TLC: one scenario per kind of trouble.            *)
(***************************************************************************)
EXTENDS Cron

Every == <<[base |-> "*", a |-> 0, b |-> 0, step |-> 0]>>
At(m) == <<[base |-> "value", a |-> m, b |-> 0, step |-> 0]>>
Odd == <<[base |-> "value", a |-> 1, b |-> 0, step |-> 2]>>
Span(m, n) == <<[base |-> "range", a |-> m, b |-> n, step |-> 0], [base |-> "value", a |-> n, b |-> 0, step |-> 0]>>

There(ok, bad) == [given |-> TRUE, here |-> TRUE, on |-> TRUE, ok |-> ok, bad |-> bad, count |-> 0, age |-> AgeCap]
Unborn == [given |-> FALSE, here |-> FALSE, on |-> FALSE, ok |-> None, bad |-> None, count |-> 0, age |-> 0]
Nothing == [manual |-> 0, faults |-> 0, crashes |-> 0, edits |-> 0]

Base == [quick |-> TRUE, keep |-> 1, health |-> <<>>, files |-> <<>>,
         grace |-> <<0, 0>>, news |-> {}, retry |-> <<0, 0>>, action |-> <<"other", "other">>,
         expr |-> <<Odd, At(0)>>, task |-> <<There(None, None), Unborn>>, left |-> Nothing]

\* Two tasks that chain to each other, run by hand and by the clock.
Cycle == [Base EXCEPT !.task = <<There(2, 2), There(1, None)>>, !.retry = <<1, 0>>,
          !.left = [Nothing EXCEPT !.manual = 1]]
\* A crash, a failed statement, a slow run.
Trouble == [Base EXCEPT !.expr = <<Every, At(0)>>, !.grace = <<1, 1>>, !.left = [Nothing EXCEPT !.manual = 1, !.faults = 1, !.crashes = 1]]
Slow == [Base EXCEPT !.quick = FALSE, !.expr = <<Every, Span(1, 1)>>, !.task = <<There(None, None), There(None, None)>>,
         !.left = [Nothing EXCEPT !.manual = 1]]
\* The handlers beside the scheduler.
Edited == [Base EXCEPT !.news = {[on |-> TRUE, ok |-> None, bad |-> 2], [on |-> FALSE, ok |-> 1, bad |-> None]},
           !.task = <<There(2, None), There(None, None)>>,
           !.left = [Nothing EXCEPT !.edits = 2]]
Copied == [Base EXCEPT !.news = {[on |-> TRUE, ok |-> 2, bad |-> None]}, !.left = [Nothing EXCEPT !.edits = 2, !.faults = 1]]
\* Dumps and snapshots that pile up, some of them bad, beside files of others.
Kept == [Base EXCEPT !.action = <<"backup", "other">>, !.retry = <<1, 0>>, !.expr = <<At(1), At(0)>>,
         !.files = <<[good |-> TRUE, fresh |-> FALSE, ours |-> FALSE]>>,
         !.left = [Nothing EXCEPT !.manual = 1, !.crashes = 1]]
Shots == [Base EXCEPT !.action = <<"snapshot", "other">>, !.keep = 2, !.expr = <<At(1), At(0)>>,
          !.files = <<[good |-> TRUE, fresh |-> FALSE, ours |-> TRUE],
                      [good |-> TRUE, fresh |-> FALSE, ours |-> FALSE]>>]
Played == [Base EXCEPT !.action = <<"ansible", "other">>, !.retry = <<1, 0>>, !.expr = <<At(1), At(0)>>,
           !.left = [Nothing EXCEPT !.manual = 1]]
Ill == [Base EXCEPT !.action = <<"health", "other">>, !.expr = <<At(1), At(0)>>,
        !.health = <<"unhealthy", "healthy">>]
AllMixes == {Cycle, Trouble, Slow, Edited, Copied, Kept, Shots, Played, Ill}
=============================================================================
