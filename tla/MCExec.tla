------------------------------- MODULE MCExec -------------------------------
(* Exec for TLC: the requests that frontend/src/main.rs sends for one line. *)
EXTENDS ExecBackend, TLC

CONSTANTS a, b, cwd    \* two commands of a line, and the GetDirectory after it

MCState == {"Running", "AwaitingEdit"}
FrontendConditions == {None}
AllConditions == Condition
MCPipe == 0 .. 9

Enq(p, block_for, kind, stdin, stdout, stderr, writes, filter) ==
    [type |-> "Enqueue", pid |-> p, block_for |-> block_for,
     cmd |-> [kind |-> kind, stdin |-> stdin, stdout |-> stdout, stderr |-> stderr,
              writes |-> writes, filter |-> filter]]
Req(type, pipe) == [type |-> type, pipe |-> pipe]

Out(n, m) == [stdout |-> n, stderr |-> m]
After(pids) == [p \in pids |-> None]

GetDirectory(pids) == Enq(cwd, After(pids), "GetDirectory", 7, 8, 9, Out(0, 0), FALSE)
BeginRead(pipe) == Req("BeginRead", pipe)

\* plan.rs: pipes 0 and 1 go to the terminal; the others in the order of convert_ast.
Single(kind, writes) == <<Enq(a, After({}), kind, 2, 0, 1, writes, FALSE)>>
Redirect == <<Req("OpenOutputFile", 2), Enq(a, After({}), "Unknown", 4, 2, 3, Out(1, 1), FALSE)>>
Pipeline(kind, writes, filter) ==
    <<Enq(b, After({}), "Unknown", 2, 0, 1, Out(1, 0), filter),
      Enq(a, After({}), kind, 4, 2, 3, writes, FALSE)>>

\* What follows the commands: where are we, and read that and the commands' output.
Whole(commands_of_line, pids) ==
    commands_of_line \o
    <<GetDirectory(pids), BeginRead(8), BeginRead(9), BeginRead(0), BeginRead(1)>>

\* Most lines without the reading of the two stderr pipes, which interleaves with nothing.
Short(commands_of_line, pids) ==
    commands_of_line \o <<GetDirectory(pids), BeginRead(8), BeginRead(0)>>

FrontendInboxes ==
    {Whole(Single("Unknown", Out(1, 1)), {a}),
     Short(Single("Unknown", Out(2, 1)), {a}),
     Short(Single("SetDirectory", Out(0, 0)), {a}),
     Short(Single("Edit", Out(0, 0)), {a}),
     Short(Redirect, {a}),
     Short(Pipeline("Unknown", Out(2, 0), TRUE), {a, b}),
     Short(Pipeline("Unknown", Out(1, 1), FALSE), {a, b}),
     Short(Pipeline("SetDirectory", Out(0, 0), FALSE), {a, b})}
ShortInboxes ==
    FrontendInboxes \ {Whole(Single("Unknown", Out(1, 1)), {a}),
                       Short(Pipeline("Unknown", Out(1, 1), FALSE), {a, b})}

\* What only the interface allows: conditions on the status, and an input file.
Conditional(kind, cond) ==
    <<Enq(a, After({}), kind, 2, 0, 1, Out(1, 0), FALSE),
      Enq(b, (a :> cond), "Unknown", 4, 3, 5, Out(1, 0), FALSE)>>
InputFile ==
    <<Req("OpenInputFile", 2), Enq(a, After({}), "Unknown", 2, 0, 1, Out(1, 0), TRUE)>>

InterfaceInboxes ==
    ShortInboxes \cup
    {Short(Single("Unknown", Out(2, 0)), {a}),
     Short(InputFile, {a}),
     Short(Conditional("Unknown", "Success"), {a}),
     Short(Conditional("SetDirectory", "Failure"), {a})}

ASSUME InboxesAskOnce == \A requests \in InterfaceInboxes : EndsAskedOnce(requests)
ASSUME InboxesAreSent ==
    MaxChunks > 0 /\ \A requests \in InterfaceInboxes \cup FrontendInboxes : FrontendSends(requests)

CtrlC == {a, cwd}    \* the frontend cancels all it waits for
NoPids == {}

OneCommand == {Short(Single("Unknown", Out(1, 1)), {a})}
=============================================================================
