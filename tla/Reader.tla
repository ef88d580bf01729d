------------------------------- MODULE Reader -------------------------------
(***************************************************************************)
(* The readers of frontend/src/edit.rs: what get_command returns for what  *)
(* is typed.  SimpleReader edits a line on the terminal; the terminal is   *)
(* abstracted to the text, a Ctrl-C or the end of the input.               *)
(***************************************************************************)
EXTENDS Plan, Parser, FiniteSets

CONSTANTS
    Texts,       \* what may be typed, for each list of aliases that a preferences file may hold
    MaxRead      \* bound on the lines typed; a reader remembers nothing of them but a history

ASSUME ReaderAssumption ==
    /\ MaxRead \in Nat
    /\ \A aliases \in DOMAIN Texts : Texts[aliases] \subseteq Seq(STRING)

VARIABLES
    prefs,   \* the aliases, loaded once
    typed,   \* the text typed last
    line,    \* the line that it was parsed to
    plan,    \* what get_command returned for it
    read     \* how many lines were typed

readerVars == <<prefs, typed, line, plan, read>>

Unparsed == [type |-> "Unparsed"]    \* the parser panicked

Init == prefs \in DOMAIN Texts /\ typed = <<>> /\ line = Empty /\ plan = EmptyPlan /\ read = 0

\* After a Close, an error or a panic one_loop is not entered again.
Looping == plan # ExitPlan /\ plan.outcome = "ok"

ReadLine ==
    /\ Looping /\ read < MaxRead
    /\ typed' \in Texts[prefs]
    /\ \/ line' \in parse_line(typed') /\ plan' = PlanOf(prefs, line')
       \/ parse_line(typed') = {} /\ line' = Unparsed /\ plan' = [EmptyPlan EXCEPT !.outcome = "panic"]
    /\ read' = read + 1
    /\ UNCHANGED prefs

\* io::ErrorKind::Interrupted.
Interrupted ==
    Looping /\ typed' = <<>> /\ line' = Empty /\ plan' = EmptyPlan /\ UNCHANGED <<prefs, read>>

\* io::ErrorKind::UnexpectedEof, or the second call to a SingleCommandReader.
EndOfInput ==
    Looping /\ typed' = <<>> /\ line' = Empty /\ plan' = ExitPlan /\ UNCHANGED <<prefs, read>>

Next == ReadLine \/ Interrupted \/ EndOfInput
Spec == Init /\ [][Next]_readerVars

-----------------------------------------------------------------------------
(* The reference: a line read from left to right.                          *)

Elements ==
    CASE line.type = "Cmd"      -> <<[type |-> "Command", words |-> line.head]>>
      [] line.type = "Redirect" -> <<[type |-> "Command", words |-> line.head]>> \o
                                   [i \in DOMAIN line.clauses |-> line.clauses[i].target]
      [] OTHER                  -> <<>>
Commands == {i \in DOMAIN Elements : Elements[i].type = "Command"}
Files == DOMAIN Elements \ Commands

\* Steps are made for the last element first: the step of an element is as far from the
\* end of its kind as the element is from the beginning.
After(i, places) == Cardinality({j \in places : j > i})
RunOf(i) == plan.steps[StepsOf(plan, {"Run"})[After(i, Commands) + 1]]
FilePipe(i) ==
    LET made == PipeSteps(plan)
    IN  (CHOOSE p \in DOMAIN made : made[p] = StepsOf(plan, {"OpenOutputFile"})[After(i, Files) + 1]) - 1

\* What convert_single rejects, by what it does and by what the aliases mean.
Rejects(words) == Kind(prefs, words) \in {"error", "panic"}
Bad(words) == \E meaning \in Meanings(prefs, words) : KindOf(meaning) \in {"error", "panic"}

-----------------------------------------------------------------------------
\* A text that is read is read as it is written: all its words and separators, in their
\* order and with what is quoted as one word; spaces do not matter, and what is missing is "".
NothingIsMisread == line # Unparsed => SaysTheSame(typed, line)

\* The parser panics for what is malformed and for nothing else.
RefusesOnlyMalformed == line = Unparsed <=> Malformed(typed)

\* The ends that a plan of get_command uses are those that one_loop finds in its table of
\* pipes; a plan fails only for a text that is malformed, a sequence, or a command that
\* convert_single rejects.
PlansAreRunnable ==
    IF plan.outcome = "ok" THEN Runnable(plan)
    ELSE line.type \in {"Unparsed", "Sequence"} \/ \E i \in Commands : Rejects(Elements[i].words)

\* Each command of a line has its step and writes to what follows it on the line, a file
\* or the input of a command; what ends a line writes to the terminal.  Of stderr only that
\* of a command at the end of the line is shown.
FlowsAlongTheLine ==
    plan.outcome = "ok" =>
        /\ Cardinality(RunSteps(plan)) = Cardinality(Commands)
        /\ \A i \in Commands :
              IF i = Len(Elements)
              THEN /\ plan.sink_map[RunOf(i).stdout] = "Stdout"
                   /\ plan.sink_map[RunOf(i).stderr] = "Stderr"
              ELSE /\ RunOf(i).stdout = IF i + 1 \in Files THEN FilePipe(i + 1) ELSE RunOf(i + 1).stdin
                   /\ RunOf(i).stderr \notin DOMAIN plan.sink_map

\* A command is rewritten by the first alias that can be read as its beginning, in the one
\* way in which it can be read, and not again by another; and rejected for what it means.
ExpandsByFirstAlias ==
    \A i \in Commands :
        LET words == Elements[i].words
        IN  /\ plan.outcome = "ok" => Meanings(prefs, words) = {RunOf(i).words}
            /\ Rejects(words) <=> Bad(words)
=============================================================================
