------------------------------- MODULE Session -------------------------------
(***************************************************************************)
(* A session of the nak shell: the loop of frontend/src/main.rs, what it   *)
(* keeps in StackedRemotes (frontend/src/comm.rs) and in Endpoint          *)
(* (protocol/src/comm.rs), in front of a Backend.                          *)
(*                                                                         *)
(* The reader thread passes the backend's responses on to the channel in   *)
(* which the Ctrl-Cs of the user arrive too; both are `responses` here.    *)
(* The loop sends all the requests of a line before it looks at a response *)
(* and so in one step.  Nothing begins a remote: the only one is the root. *)
(***************************************************************************)
EXTENDS Backend, Plan, FiniteSets

CONSTANTS
    Plans,       \* what get_command may return
    MaxLines,    \* bound on the lines that are typed
    MaxInFlight, \* bound on the responses that the frontend has not looked at
    Interrupts   \* bound on the Ctrl-Cs while the loop is not at the prompt

ASSUME SessionAssumption ==
    /\ MaxLines \in Nat /\ MaxInFlight \in Nat /\ Interrupts \in Nat
    /\ Pid \subseteq Nat /\ Pipe = Pid    \* all ids come from one counter

\* The plans of the builder that are sent, and ids for as many of them as there are lines.
IdsTaken(plan) == Len(plan.steps) + 4
IsPlan(plan) ==
    /\ Len(plan.steps) \in Nat /\ DOMAIN plan.steps = 1 .. Len(plan.steps)
    /\ \A k \in DOMAIN plan.steps : plan.steps[k].type \in {"Pipe", "OpenOutputFile", "Run"}
    /\ \A k \in RunSteps(plan) :
          /\ plan.steps[k].kind \in {"Unknown", "SetDirectory", "Edit"}
          /\ plan.steps[k].stdout \in Nat /\ plan.steps[k].stderr \in Nat
    /\ plan.sink_map \in [{0, 1} -> {"Stdout", "Stderr"}]
ASSUME PlansAssumption ==
    \A plan \in Plans \ {ExitPlan} :
        plan.outcome = "ok" => IsPlan(plan) /\ 0 .. MaxLines * IdsTaken(plan) - 1 \subseteq Pid

VARIABLES
    requests,                         \* on their way to the backend
    next_id, jobs, pipes,             \* Endpoint
    waiting_for_remote,               \* StackedRemotes
    waiting_for, waiting_for_eof,
    gathering_output, finished_output,
    cwd_for_remote,
    stdout_pipes, stderr_pipes,
    working_dir,                      \* of the root: the pipe that told it, {} at first
    prompting,                        \* get_command is waiting for a line
    lines, interrupts,                \* how many were typed
    outcome                           \* "running", "exit", or why the frontend panicked

endpointVars == <<next_id, jobs, pipes>>
outputVars == <<gathering_output, finished_output, cwd_for_remote, stdout_pipes, stderr_pipes, working_dir>>
waitVars == <<waiting_for_remote, waiting_for, waiting_for_eof>>
loopVars == <<prompting, lines, interrupts, outcome>>
frontendVars == <<endpointVars, outputVars, waitVars, loopVars>>
vars == <<backendVars, requests, frontendVars>>

Root == "root"
Remove(map, k) == [j \in DOMAIN map \ {k} |-> map[j]]

Running == outcome = "running"
Waiting == waiting_for # {} \/ waiting_for_eof # {}

-----------------------------------------------------------------------------
(* The user, and the backend's side of the queues. *)

\* The terminal is raw, and a Ctrl-C a key, while a line is edited.
CtrlC ==
    /\ Running /\ ~prompting /\ interrupts < Interrupts
    /\ interrupts' = interrupts + 1
    /\ Respond([type |-> "CtrlC"])
    /\ UNCHANGED <<jobVars, outVars, dead, requests, endpointVars, outputVars, waitVars,
                   prompting, lines, outcome>>

ReceiveRequest(r) ==
    \/ r.type = "BeginCommand" /\ ReceiveCommand(r.pid, r.command)
    \/ r.type = "OpenOutputFile" /\ ReceiveFile
    \/ r.type = "BeginRead" /\ ReceiveRead(r.pipe)
    \/ r.type = "CancelCommand" /\ ReceiveCancel(r.pid)
    \/ r.type = "FinishEdit" /\ ReceiveEdit(r.pid)

TakeRequest ==
    /\ Running /\ requests # <<>>
    /\ ReceiveRequest(Head(requests))
    /\ requests' = Tail(requests)
    /\ UNCHANGED frontendVars

\* What the backend does of itself.
ByItself(step) ==
    /\ Running /\ Len(responses) < MaxInFlight
    /\ step
    /\ UNCHANGED <<requests, frontendVars>>
BackendStep == ByItself(BackendSteps)

-----------------------------------------------------------------------------
(* one_loop at the prompt. *)

\* The outputs of the GetDirectory of the line before have all been gathered.
ShowPrompt ==
    /\ Running /\ waiting_for_remote = {} /\ ~Waiting /\ ~prompting
    /\ IF \E r \in DOMAIN cwd_for_remote : cwd_for_remote[r] \notin DOMAIN finished_output
       THEN /\ outcome' = "no output" /\ UNCHANGED <<finished_output, cwd_for_remote, working_dir, prompting>>
       ELSE /\ prompting' = TRUE
            /\ cwd_for_remote' = EmptyMap
            /\ finished_output' =
                  [q \in DOMAIN finished_output \ {cwd_for_remote[r] : r \in DOMAIN cwd_for_remote}
                     |-> finished_output[q]]
            /\ working_dir' =   \* an empty output tells nothing
                  IF \E r \in DOMAIN cwd_for_remote : finished_output[cwd_for_remote[r]] > 0
                  THEN {cwd_for_remote[Root]} ELSE working_dir
            /\ UNCHANGED outcome
    /\ UNCHANGED <<backendVars, requests, endpointVars, waitVars, gathering_output, stdout_pipes,
                   stderr_pipes, lines, interrupts>>

\* Each step but Close takes one fresh id, for its pipe or its process.
StepId(k) == next_id + k - 1
PipeId(plan, q) == StepId(PipeSteps(plan)[q + 1])

BeginCommand(p, kind, needs, stdout, stderr) ==
    [type |-> "BeginCommand", pid |-> p,
     command |-> [kind |-> kind, needs |-> needs, stdout |-> stdout, stderr |-> stderr]]
BeginRead(q) == [type |-> "BeginRead", pipe |-> q]

StepRequest(plan, k) ==
    LET step == plan.steps[k]
    IN  IF step.type = "Run"
        THEN BeginCommand(StepId(k), step.kind, {}, PipeId(plan, step.stdout), PipeId(plan, step.stderr))
        ELSE [type |-> step.type, pipe |-> StepId(k)]

\* A pipe is made without a message.
PlanRequests(plan) ==
    LET sent == StepsOf(plan, {"OpenOutputFile", "Run"})
    IN  [i \in DOMAIN sent |-> StepRequest(plan, sent[i])]

\* The GetDirectory behind the commands: its pipes come first, then its pid.
CwdStdout(plan) == next_id + Len(plan.steps)
CwdStderr(plan) == CwdStdout(plan) + 1
CwdStdin(plan) == CwdStdout(plan) + 2
CwdPid(plan) == CwdStdout(plan) + 3

LinePids(plan) == {StepId(k) : k \in RunSteps(plan)}
BlockOn_Nothing(plan) == {}
BlockOn(plan) == LinePids(plan)

DirectoryRequests(plan) ==
    <<BeginCommand(CwdPid(plan), "GetDirectory", BlockOn(plan), CwdStdout(plan), CwdStderr(plan)),
      BeginRead(CwdStdout(plan)), BeginRead(CwdStderr(plan))>>

\* The sinks of a plan are pipes 0 and 1.
SinkRequests(plan) == [i \in 1 .. Cardinality(DOMAIN plan.sink_map) |-> BeginRead(PipeId(plan, i - 1))]
SinksTo_Places(plan, sink) == {q \in DOMAIN plan.sink_map : plan.sink_map[q] = sink}
SinksTo(plan, sink) == {PipeId(plan, q) : q \in {r \in DOMAIN plan.sink_map : plan.sink_map[r] = sink}}

PlanPipes(plan) == {StepId(k) : k \in DOMAIN plan.steps \ RunSteps(plan)}
FreshPipes_OfThePlan(plan) == PlanPipes(plan)
FreshPipes(plan) == PlanPipes(plan) \cup {CwdStdout(plan), CwdStderr(plan), CwdStdin(plan)}

SendPlan(plan) ==
    /\ requests' = requests \o PlanRequests(plan) \o DirectoryRequests(plan) \o SinkRequests(plan)
    /\ next_id' = CwdPid(plan) + 1
    /\ pipes' = pipes \cup FreshPipes(plan)
    /\ jobs' = jobs \cup LinePids(plan) \cup {CwdPid(plan)}
    /\ gathering_output' = Put(gathering_output, CwdStdout(plan), 0)
    /\ waiting_for_eof' = waiting_for_eof \cup {CwdStdout(plan)}
    /\ cwd_for_remote' = Put(cwd_for_remote, Root, CwdStdout(plan))
    /\ stdout_pipes' = stdout_pipes \cup SinksTo(plan, "Stdout")
    /\ stderr_pipes' = stderr_pipes \cup SinksTo(plan, "Stderr") \cup {CwdStderr(plan)}
    /\ waiting_for' = LinePids(plan) \cup {CwdPid(plan)}

RunLine(plan) ==
    /\ Running /\ prompting /\ plan # ExitPlan /\ lines < MaxLines
    /\ prompting' = FALSE
    /\ lines' = lines + 1
    /\ IF plan.outcome = "ok" /\ Runnable(plan)
       THEN SendPlan(plan) /\ UNCHANGED outcome
       ELSE /\ outcome' = IF plan.outcome = "ok" THEN "plan" ELSE "line"
            /\ UNCHANGED <<requests, endpointVars, gathering_output, waiting_for, waiting_for_eof,
                           cwd_for_remote, stdout_pipes, stderr_pipes>>
    /\ UNCHANGED <<backendVars, waiting_for_remote, finished_output, working_dir, interrupts>>

\* Close with the root alone left.
Exit ==
    /\ Running /\ prompting /\ ExitPlan \in Plans
    /\ prompting' = FALSE /\ outcome' = "exit"
    /\ UNCHANGED <<backendVars, requests, endpointVars, outputVars, waitVars, lines, interrupts>>

-----------------------------------------------------------------------------
(* one_loop with a message: Endpoint::receive and the handler it calls.    *)

Receiving == Running /\ ~prompting /\ (waiting_for_remote # {} \/ Waiting)

Take(type) ==
    /\ Receiving /\ responses # <<>> /\ Head(responses).type = type
    /\ responses' = Tail(responses)

Panic(why) ==
    /\ outcome' = why
    /\ UNCHANGED <<jobVars, outVars, dead, requests, endpointVars, outputVars, waitVars,
                   prompting, lines, interrupts>>

Handled == UNCHANGED <<jobVars, outVars, dead, next_id, pipes, loopVars>>

RemoteReady ==
    /\ Take("RemoteReady")
    /\ IF Root \notin waiting_for_remote THEN Panic("no remote waiting")
       ELSE /\ waiting_for_remote' = {}
            /\ UNCHANGED <<jobs, requests, outputVars, waiting_for, waiting_for_eof>>
            /\ Handled

CommandIsDone ==
    LET p == Head(responses).pid IN
    /\ Take("CommandDone")
    /\ IF p \notin waiting_for THEN Panic("not waited for")
       ELSE /\ waiting_for' = waiting_for \ {p}
            /\ UNCHANGED <<jobs, requests, outputVars, waiting_for_remote, waiting_for_eof>>
            /\ Handled

PipeData_Shown ==
    /\ Take("Data")
    /\ UNCHANGED <<jobs, requests, outputVars, waitVars>>
    /\ Handled
\* Output is gathered or shown; what is shown leaves no trace in the state.
PipeData ==
    LET q == Head(responses).pipe IN
    /\ Take("Data")
    /\ IF q \notin pipes THEN Panic("unknown pipe")
       ELSE IF q \notin DOMAIN gathering_output \cup stdout_pipes \cup stderr_pipes
       THEN Panic("bad pipe")
       ELSE /\ gathering_output' = IF q \in DOMAIN gathering_output
                                   THEN [gathering_output EXCEPT ![q] = @ + 1] ELSE gathering_output
            /\ UNCHANGED <<jobs, requests, finished_output, cwd_for_remote, stdout_pipes,
                           stderr_pipes, working_dir, waitVars>>
            /\ Handled

PipeClosed_StillWaiting ==
    /\ Take("Closed")
    /\ UNCHANGED <<jobs, requests, outputVars, waitVars>>
    /\ Handled
PipeClosed ==
    LET q == Head(responses).pipe IN
    /\ Take("Closed")
    /\ IF q \notin pipes THEN Panic("unknown pipe")
       ELSE /\ waiting_for_eof' = waiting_for_eof \ {q}
            /\ IF q \in DOMAIN gathering_output
               THEN /\ finished_output' = Put(finished_output, q, gathering_output[q])
                    /\ gathering_output' = Remove(gathering_output, q)
               ELSE UNCHANGED <<finished_output, gathering_output>>
            /\ UNCHANGED <<jobs, requests, cwd_for_remote, stdout_pipes, stderr_pipes, working_dir,
                           waiting_for_remote, waiting_for>>
            /\ Handled

\* The frontend waits for the editor, asserts its success and sends what was saved.
EditRequest ==
    LET p == Head(responses).pid IN
    /\ Take("EditRequest")
    /\ \/ MayFail /\ Panic("editor")
       \/ p \notin jobs /\ Panic("finish_edit: process not running")
       \/ /\ p \in jobs
          /\ requests' = Append(requests, [type |-> "FinishEdit", pid |-> p])
          /\ UNCHANGED <<jobs, outputVars, waitVars>>
          /\ Handled

Orders(S) == {order \in [1 .. Cardinality(S) -> S] : \A i, j \in DOMAIN order : order[i] = order[j] => i = j}

Interrupted_StopsWaiting ==
    /\ Take("CtrlC")
    /\ waiting_for' = {}
    /\ UNCHANGED <<jobs, requests, outputVars, waiting_for_remote, waiting_for_eof>>
    /\ Handled
\* Every process that is waited for is cancelled, in the order of a hash set.
Interrupted ==
    /\ Take("CtrlC")
    /\ IF waiting_for_remote # {} THEN Panic("not ready")
       ELSE IF ~(waiting_for \subseteq jobs) THEN Panic("close_process: process not running")
       ELSE /\ \E order \in Orders(waiting_for) :
                  requests' = requests \o [i \in DOMAIN order |->
                                              [type |-> "CancelCommand", pid |-> order[i]]]
            /\ jobs' = jobs \ waiting_for
            /\ UNCHANGED <<outputVars, waitVars>>
            /\ Handled

ReceiveMessage == RemoteReady \/ CommandIsDone \/ PipeData \/ PipeClosed \/ EditRequest \/ Interrupted

-----------------------------------------------------------------------------
\* The session begins when the backend has said hello; it has sent RemoteReady by then, or
\* the user is faster.
Init ==
    /\ commands = EmptyMap /\ answered = {} /\ editing = {}
    /\ reading = {} /\ ended = {} /\ chunks = [q \in Pipe |-> 0] /\ dead = FALSE
    /\ \E early \in {0, 1} :
          /\ early <= Interrupts /\ interrupts = early
          /\ responses = [i \in 1 .. early |-> [type |-> "CtrlC"]] \o <<[type |-> "RemoteReady"]>>
    /\ requests = <<>>
    /\ next_id = 0 /\ jobs = {} /\ pipes = {}
    /\ waiting_for_remote = {Root} /\ waiting_for = {} /\ waiting_for_eof = {}
    /\ gathering_output = EmptyMap /\ finished_output = EmptyMap /\ cwd_for_remote = EmptyMap
    /\ stdout_pipes = {} /\ stderr_pipes = {}
    /\ working_dir = {}
    /\ prompting = FALSE /\ lines = 0 /\ outcome = "running"

Loop == ReceiveMessage \/ ShowPrompt \/ Exit \/ \E plan \in Plans : RunLine(plan)

Next == CtrlC \/ TakeRequest \/ BackendStep \/ Loop

Spec == Init /\ [][Next]_vars

\* Both sides are scheduled, processes exit and let go of their pipes, an edit is saved.
FairSpec ==
    /\ Spec
    /\ WF_vars(TakeRequest) /\ WF_vars(ReceiveMessage \/ ShowPrompt)
    /\ \A p \in Pid : WF_vars(ByItself(Answer(p) \/ AskForEdit(p)))
    /\ \A q \in Pipe : WF_vars(ByItself(End(q)))

-----------------------------------------------------------------------------
SessionRequest ==
    [type : {"BeginCommand"}, pid : Pid,
     command : [kind : {"Unknown", "SetDirectory", "GetDirectory", "Edit"},
                needs : SUBSET Pid, stdout : Pipe, stderr : Pipe]]
    \cup [type : {"CancelCommand", "FinishEdit"}, pid : Pid]
    \cup [type : {"OpenOutputFile", "BeginRead"}, pipe : Pipe]
Message == [type : {"CommandDone", "EditRequest"}, pid : Pid]
      \cup [type : {"Data", "Closed"}, pipe : Pipe] \cup [type : {"RemoteReady", "CtrlC"}]
Outcomes == {"running", "exit", "line", "plan", "not ready", "no remote waiting", "not waited for",
             "unknown pipe", "bad pipe", "no output", "editor", "finish_edit: process not running",
             "close_process: process not running"}
IsCount(map) == DOMAIN map \subseteq Pipe /\ \A q \in DOMAIN map : map[q] \in Nat

\* Every variable has its type; what is gathered and what is waited for belong to pipes and
\* processes that the endpoint has made.
SessionTypeOK ==
    /\ requests \in Seq(SessionRequest) /\ responses \in Seq(Message)
    /\ next_id \in Nat /\ jobs \subseteq Pid /\ pipes \subseteq Pipe
    /\ waiting_for_remote \subseteq {Root} /\ waiting_for \subseteq Pid /\ waiting_for_eof \subseteq pipes
    /\ IsCount(gathering_output) /\ IsCount(finished_output)
    /\ DOMAIN gathering_output \cup DOMAIN finished_output \subseteq pipes
    /\ DOMAIN cwd_for_remote \subseteq {Root} /\ \A r \in DOMAIN cwd_for_remote : cwd_for_remote[r] \in pipes
    /\ stdout_pipes \cup stderr_pipes \subseteq pipes
    /\ working_dir \subseteq pipes
    /\ prompting \in BOOLEAN /\ lines \in 0 .. MaxLines /\ interrupts \in 0 .. Interrupts
    /\ outcome \in Outcomes

\* Whatever the backend sends and however the user interrupts, a message finds the tables
\* ready for it: no assertion of the handler, and no unwrap of the loop, fails on one.
MessagesExpected ==
    outcome \notin {"no remote waiting", "not waited for", "unknown pipe", "bad pipe", "no output", "plan"}

\* The shell asks for a line when all commands of the lines before have been answered, and
\* their answers and edits dealt with.
NothingPending ==
    prompting =>
        /\ DOMAIN commands \subseteq answered
        /\ \A i \in DOMAIN requests : requests[i].type \notin {"BeginCommand", "FinishEdit"}
        /\ \A i \in DOMAIN responses : responses[i].type \notin {"CommandDone", "EditRequest"}

Directories == {g \in DOMAIN commands : commands[g].kind = "GetDirectory"}

\* The prompt shows what the last GetDirectory told, not the directory of a line before.
PromptIsCurrent ==
    prompting => \A g \in Directories :
        (\A h \in Directories : h <= g) /\ chunks[commands[g].stdout] > 0 =>
            working_dir = {commands[g].stdout}

\* A GetDirectory tells the directory after all commands that were sent before it.
DirectoryAfterCommands ==
    [][\A g \in Directories :
          LET q == commands[g].stdout
          IN  chunks'[q] > chunks[q] => \A p \in DOMAIN commands : p < g => p \in answered]_vars

\* integration.rs:22-23 and 50-66: when the frontend exits, it has shown the output of a command.
ExitsAfterOutput ==
    outcome = "exit" =>
        \A q \in stdout_pipes \cup stderr_pipes :
            \A i \in DOMAIN responses : responses[i] # [type |-> "Data", pipe |-> q]

\* After every line the shell comes back to the prompt, or ends.
PromptReturns == []<>(prompting \/ ~Running)
=============================================================================
