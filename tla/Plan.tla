-------------------------------- MODULE Plan --------------------------------
(***************************************************************************)
(* How the frontend turns a parsed line into a plan: convert_ast of        *)
(* frontend/src/edit.rs on the PlanBuilder of frontend/src/plan.rs.        *)
(*                                                                         *)
(* A line is what parse_input makes of the input: nothing, the words of a  *)
(* command, a command redirected to files and other commands, or a         *)
(* Sequence, which the grammar accepts and nothing behind it.              *)
(* Pipes are numbered from 0 in the order in which their steps are added.  *)
(***************************************************************************)
EXTENDS Prefs

\* What a builder holds: the plan's fields, the ends of each pipe that no one uses yet,
\* and how it ended: "ok", "error" (the reader's Err ends the shell) or "panic".
NewBuilder ==
    [steps |-> <<>>, sink_map |-> [pipe \in {} |-> ""], pipes |-> <<>>, outcome |-> "ok"]

\* The first failure is the last thing the code does.
Fail(b, how) == IF b.outcome = "ok" THEN [b EXCEPT !.outcome = how] ELSE b

NextPipe(b) == Len(b.pipes)

AddStep(b, step, free) ==
    [b EXCEPT !.steps = Append(@, step), !.pipes = Append(@, free)]
AddPipe(b) == AddStep(b, [type |-> "Pipe"], {"read", "write"})
AddFileOutput(b, path) == AddStep(b, [type |-> "OpenOutputFile", path |-> path], {"write"})

\* use_read_end and use_write_end.
UseEnd(b, pipe, end) ==
    IF end \in b.pipes[pipe + 1] THEN [b EXCEPT !.pipes[pipe + 1] = @ \ {end}]
                                 ELSE Fail(b, "panic")

AddCommand(b, words, kind, stdin, stdout, stderr) ==
    LET used == UseEnd(UseEnd(UseEnd(b, stdin, "read"), stdout, "write"), stderr, "write")
    IN  [used EXCEPT !.steps = Append(@, [type |-> "Run", words |-> words, kind |-> kind,
                                          stdin |-> stdin, stdout |-> stdout, stderr |-> stderr])]

AddSink(b, pipe, sink) ==
    IF pipe \in DOMAIN b.sink_map THEN Fail(b, "panic")
    ELSE [b EXCEPT !.sink_map = [q \in DOMAIN @ \cup {pipe} |-> IF q = pipe THEN sink ELSE @[q]]]

-----------------------------------------------------------------------------
\* convert_single behind the expansion: cd and micro take one argument, nak is not implemented.
KindOf(words) ==
    CASE words = <<>>          -> "panic"
      [] words # <<>> /\ Head(words) \in {"cd", "micro"} ->
            IF Len(words) = 2 THEN (IF Head(words) = "cd" THEN "SetDirectory" ELSE "Edit") ELSE "error"
      [] words # <<>> /\ Head(words) = "nak" -> "panic"
      [] OTHER                 -> "Unknown"

\* Where the output of what is converted next goes, what was built so far, and the preferences.
To(prefs, b, stdout, stderr) == [prefs |-> prefs, b |-> b, stdout |-> stdout, stderr |-> stderr]

\* convert_single; then Ast::Cmd and Target::Command: the stdin of a command is a new pipe,
\* which is where it can be reached.
Kind(prefs, words) ==
    LET expanded == Expand(prefs, words)
    IN  IF expanded.outcome = "panic" THEN "panic" ELSE KindOf(expanded.words)
ConvertCommand(words, to) ==
    LET kind == Kind(to.prefs, words)
        stdin == NextPipe(to.b)
        b == AddPipe(to.b)
    IN  [stdin |-> stdin,
         b |-> IF kind \in {"error", "panic"} THEN Fail(b, kind)
               ELSE AddCommand(b, Expand(to.prefs, words).words, kind, stdin, to.stdout, to.stderr)]

ConvertTarget(target, to) ==
    IF target.type = "File"
    THEN [stdin |-> NextPipe(to.b), b |-> AddFileOutput(to.b, target.path)]
    ELSE ConvertCommand(target.words, to)

ConvertClause_BothStreams(clause, to) ==
    LET target == ConvertTarget(clause.target, to) IN To(to.prefs, target.b, target.stdin, target.stdin)
\* One stream goes to the target, the other to a pipe that nobody reads.
ConvertClause(clause, to) ==
    LET target == ConvertTarget(clause.target, to)
        b == AddPipe(target.b) unread == NextPipe(target.b)
    IN  IF clause.stream = "Stdout" THEN To(to.prefs, b, target.stdin, unread)
                                     ELSE To(to.prefs, b, unread, target.stdin)

ConvertClauses_Forward(clauses, to) ==
    LET converted[k \in 0 .. Len(clauses)] ==
            IF k = 0 THEN to ELSE ConvertClause(clauses[k], converted[k - 1])
    IN  converted[Len(clauses)]
\* The last clause first; a FoldRight that can be proved about.
ConvertClauses(clauses, to) ==
    LET converted[k \in 0 .. Len(clauses)] ==
            IF k = 0 THEN to ELSE ConvertClause(clauses[Len(clauses) + 1 - k], converted[k - 1])
    IN  converted[Len(clauses)]

Convert(line, to) ==
    CASE line.type = "Empty"    -> [stdin |-> to.stdout, b |-> to.b]
      [] line.type = "Cmd"      -> ConvertCommand(line.head, to)
      [] line.type = "Sequence" -> [stdin |-> to.stdout, b |-> Fail(to.b, "panic")]
      [] line.type = "Redirect" ->
            ConvertCommand(line.head, ConvertClauses(line.clauses, to))

\* build(); only the fields that the session looks at.
Build(b) == [steps |-> b.steps, sink_map |-> b.sink_map, outcome |-> b.outcome]

\* parse_command_simple.
PlanOf(prefs, line) ==
    LET b == AddPipe(AddPipe(NewBuilder))
    IN  Build(AddSink(AddSink(Convert(line, To(prefs, b, 0, 1)).b, 0, "Stdout"), 1, "Stderr"))

\* Plan::empty, for a Ctrl-C at the prompt; and what a reader returns at the end of its input.
EmptyPlan == Build(AddSink(AddPipe(AddSink(AddPipe(NewBuilder), 0, "Stdout")), 1, "Stderr"))
ExitPlan == [Build(NewBuilder) EXCEPT !.steps = <<[type |-> "Close"]>>]

-----------------------------------------------------------------------------
\* The places of a plan's steps of some types, in order; a SelectSeq that can be proved about.
StepsOf(plan, types) ==
    LET among[k \in 0 .. Len(plan.steps)] ==
            IF k = 0 THEN <<>>
            ELSE IF plan.steps[k].type \in types THEN Append(among[k - 1], k) ELSE among[k - 1]
    IN  among[Len(plan.steps)]

\* The steps that make the pipes 0, 1, ... of a plan.
PipeSteps(plan) == StepsOf(plan, {"Pipe", "OpenOutputFile"})

RunSteps(plan) == {k \in DOMAIN plan.steps : plan.steps[k].type = "Run"}

\* The ends that the session takes with take().unwrap(), a set per step and one for the sinks.
EndsOf(plan, k) ==
    LET run == plan.steps[k]
    IN  {<<run.stdin, "read">>, <<run.stdout, "write">>, <<run.stderr, "write">>}
SinkEnds(plan) == {<<pipe, "read">> : pipe \in DOMAIN plan.sink_map}

\* No index and no unwrap of one_loop fails: pipes are there before they are used, files
\* have no end to read, and each end is taken once.
Runnable(plan) ==
    LET made == PipeSteps(plan)
        Exists(end, k) ==
            /\ end[1] < Len(made) /\ made[end[1] + 1] < k
            /\ end[2] = "read" => plan.steps[made[end[1] + 1]].type = "Pipe"
    IN  /\ \A k \in RunSteps(plan) :
              /\ plan.steps[k].stdout # plan.steps[k].stderr
              /\ \A end \in EndsOf(plan, k) : Exists(end, k)
              /\ \A j \in RunSteps(plan) \ {k} : EndsOf(plan, j) \cap EndsOf(plan, k) = {}
              /\ EndsOf(plan, k) \cap SinkEnds(plan) = {}
        /\ \A end \in SinkEnds(plan) : Exists(end, Len(plan.steps) + 1)
=============================================================================
