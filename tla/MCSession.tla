----------------------------- MODULE MCSession -----------------------------
(* Session for TLC: the plans of some lines, in the ids of up to MaxLines lines. *)
EXTENDS Session

Line(words) == [type |-> "Cmd", head |-> words]
Redirected(head, target) ==
    [type |-> "Redirect", head |-> head, clauses |-> <<[stream |-> "Stdout", target |-> target]>>]

Run == Line(<<"a">>)
ChangeDirectory == Line(<<"cd", "d">>)
EditFile == Line(<<"micro", "f">>)
ToFile == Redirected(<<"a">>, [type |-> "File", path |-> "f"])
Pipeline == Redirected(<<"a">>, [type |-> "Command", words |-> <<"b">>])
BadLine == Line(<<"cd">>)
PlansFor(inputs) == {PlanOf(<<>>, input) : input \in inputs}

AnyPlans == {EmptyPlan, ExitPlan} \cup PlansFor({Run, ChangeDirectory, EditFile, ToFile, Pipeline, BadLine})
CommandPlans == {ExitPlan} \cup PlansFor({Run})

\* What the theorem about expected messages assumes of the plans that are sent.
ASSUME PlansCanRun == \A plan \in AnyPlans \ {ExitPlan} : plan.outcome = "ok" => Runnable(plan)

MCIds == 0 .. 23
=============================================================================
