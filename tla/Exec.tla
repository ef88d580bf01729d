-------------------------------- MODULE Exec --------------------------------
(***************************************************************************)
(* The executor of the nak backend, backend/src/exec.rs: one thread that   *)
(* takes events from an mpsc channel and is the only one to touch the      *)
(* Machine and the table of pipe ends, and around it the threads and       *)
(* processes it creates: a waiter for each spawned process, a reader for   *)
(* each pipe the frontend reads, a writer for each output of a builtin.    *)
(*                                                                         *)
(* The main thread passes the frontend's requests on in order; the inbox   *)
(* holds those it has not read yet.  Output is counted in chunks, what a   *)
(* read or a write moves at once; a kernel pipe holds Capacity of them.    *)
(***************************************************************************)
EXTENDS Machine, FiniteSets, Naturals

CONSTANTS
    Pipe,         \* pipe ids
    Inboxes,      \* the sequences of requests a frontend may send
    Cancellable,  \* the processes that may be cancelled after that, once each
    Faults,       \* whether spawning and file operations may fail
    Capacity      \* chunks that a kernel pipe buffers

Stream == {"stdout", "stderr"}
Command == [kind : {"Unknown", "SetDirectory", "GetDirectory", "Edit"},
            stdin : Pipe, stdout : Pipe, stderr : Pipe,
            writes : [Stream -> Nat],   \* the chunks it writes, and
            filter : BOOLEAN]           \* whether it reads to the end of its input
PipeRequest == [type : {"OpenOutputFile", "OpenInputFile", "BeginRead"}, pipe : Pipe]
Request == PipeRequest \cup [type : {"Enqueue"}, pid : Pid, cmd : Command,
                             block_for : UNION {[D -> Conditions] : D \in SUBSET Pid}]

\* The executor hands on whatever it is sent: as a caller of the machine it names any pid.
ASSUME ExecAssumption ==
    /\ AnyPid /\ Inboxes \subseteq Seq(Request)
    /\ State = {"Running", "AwaitingEdit"}
    /\ Faults \in BOOLEAN
    /\ Capacity \in Nat \ {0}
    /\ Cancellable \subseteq Pid

VARIABLES
    inbox,            \* requests on their way to the main thread
    cancels,          \* processes the user may still cancel
    answers,          \* edits that the user has saved
    chan,             \* the mpsc channel to the executor
    work,             \* process_tasks: the tasks still to be acted upon, in order
    cancelling,       \* the process whose Child the executor is waiting to lock
    commands,         \* what each process was enqueued with
    ends,             \* open_handles, and who holds the pipe ends taken from it
    readers,          \* actively_reading: pipes with a live reader thread
    writers,          \* pipes that a thread of pipe_output_and_close writes
    waiting_edits,    \* the processes whose edit is with the frontend, one edit id each
    process,          \* operating system's view: "none", "alive", or the exit code
    waiter,           \* the waiter thread of each process
    todo,             \* chunks that each live process has still to write
    buffer,           \* chunks in each kernel pipe
    produced,         \* chunks ever written to each pipe
    sent,             \* the responses written to the frontend, in order
    crashed           \* the reason why the executor thread panicked, or "no"

ioVars == <<ends, readers, writers, process, waiter, todo, buffer, produced>>
userVars == <<inbox, cancels, answers>>
ctlVars == <<chan, work, cancelling, commands, waiting_edits, sent, crashed>>
vars == <<machineVars, ioVars, userVars, ctlVars>>

\* Child::code(), with -1 for a process ended by a signal.
ExitCode == {"0", "1", "-1"}
StatusOf_Failures(code) == IF code = "1" THEN "Failure" ELSE "Success"
StatusOf(code) == IF code = "0" THEN "Success" ELSE "Failure"

Alive == crashed = "no" /\ panicked = "no"
Idle == Alive /\ work = <<>> /\ cancelling = {}

Respond(message) == sent' = Append(sent, message)
CommandDone(p, code) == [type |-> "CommandDone", pid |-> p, code |-> code]

-----------------------------------------------------------------------------
(* Pipe ends: "unmade" before open_handles has the pipe, "table" while the *)
(* handle is in open_handles, "held" by a process or a thread, "closed",   *)
(* and "file" for the far side of a file.                                  *)

MayTake(end) == end \in {"unmade", "table"}

TakeRead_DropsOther(e, q) == [e EXCEPT ![q] = [read |-> "held", write |-> "closed"]]
TakeRead_Forgets(e, q) == [e EXCEPT ![q].read = "held"]
\* read_end and write_end: the first of them to be called makes the pipe.
TakeRead(e, q) ==
    [e EXCEPT ![q] = [read |-> "held", write |-> IF @.write = "unmade" THEN "table" ELSE @.write]]
TakeWrite(e, q) ==
    [e EXCEPT ![q] = [write |-> "held", read |-> IF @.read = "unmade" THEN "table" ELSE @.read]]

CloseRead(e, q) == [e EXCEPT ![q].read = "closed"]
CloseWrite_Leaks(e, q) == e
CloseWrite(e, q) == [e EXCEPT ![q].write = "closed"]

\* Nobody will read what is written; a write succeeds at once; a read finds the end.
Broken(q) == ends[q].read = "closed"
HasRoom(q) == ends[q].read = "file" \/ (~Broken(q) /\ buffer[q] < Capacity)
AtEof_Early(q) == ends[q].write \in {"closed", "file"}
AtEof(q) == buffer[q] = 0 /\ ends[q].write \in {"closed", "file"}

-----------------------------------------------------------------------------
(* The main thread. *)

SendRequest ==
    /\ Alive /\ inbox # <<>>
    /\ chan' = Append(chan, Head(inbox))
    /\ inbox' = Tail(inbox)
    /\ UNCHANGED <<machineVars, ioVars, cancels, answers, work, cancelling, commands,
                   waiting_edits, sent, crashed>>

\* Ctrl-C reaches the backend after the requests of the plan it interrupts.
SendCancel(p) ==
    /\ Alive /\ inbox = <<>> /\ p \in cancels
    /\ cancels' = cancels \ {p}
    /\ chan' = Append(chan, [type |-> "CancelExec", pid |-> p])
    /\ UNCHANGED <<machineVars, ioVars, inbox, answers, work, cancelling, commands,
                   waiting_edits, sent, crashed>>

\* The frontend reads no response before it has sent all of its line.
SendEdit(p) ==
    /\ Alive /\ inbox = <<>> /\ p \notin answers
    /\ \E i \in DOMAIN sent : sent[i] = [type |-> "EditRequest", pid |-> p]
    /\ answers' = answers \cup {p}
    /\ chan' = Append(chan, [type |-> "EditComplete", pid |-> p])
    /\ UNCHANGED <<machineVars, ioVars, inbox, cancels, work, cancelling, commands,
                   waiting_edits, sent, crashed>>

-----------------------------------------------------------------------------
(* run_handler: one event. *)

Take(type) ==
    /\ Idle /\ chan # <<>> /\ Head(chan).type = type
    /\ chan' = Tail(chan)

Starts(pids) == [i \in DOMAIN pids |-> [type |-> "Start", pid |-> pids[i]]]

ReleasedBy_Drops(p) == {<<>>}
\* The processes that resolve_tasks releases for p, in the order of its vector.
ReleasedBy(p) ==
    LET Before(v, w) == \E k, l \in DOMAIN check_on_completed[p] :
            k < l /\ check_on_completed[p][k].pid = v /\ check_on_completed[p][l].pid = w
    IN  {order \in [1 .. Cardinality(Released(p)) -> Released(p)] :
            /\ Released(p) = {order[i] : i \in DOMAIN order}
            /\ \A i, j \in DOMAIN order : i < j => Before(order[i], order[j])}

HandleEnqueue ==
    LET event == Head(chan) p == event.pid IN
    /\ Take("Enqueue")
    /\ Enqueue(p, event.block_for)
    /\ commands' = Put(commands, p, event.cmd)
    /\ work' = IF p \in tasks' THEN Starts(<<p>>)
               ELSE IF p \in refused' THEN <<[type |-> "ConditionFailed", pid |-> p]>>
               ELSE <<>>
    /\ UNCHANGED <<ioVars, userVars, cancelling, waiting_edits, sent, crashed>>

Finish_OnlyReports(p, code) ==
    Respond(CommandDone(p, code)) /\ work' = <<>> /\ UNCHANGED machineVars

\* The result is reported before the processes that waited for it are looked at.
Finish(p, code) ==
    /\ Respond(CommandDone(p, code))
    /\ Completed(p, StatusOf(code))
    /\ \E released \in ReleasedBy(p) : work' = Starts(released)

HandleCompleted ==
    /\ Take("Completed")
    /\ Finish(Head(chan).pid, Head(chan).code)
    /\ UNCHANGED <<ioVars, userVars, cancelling, commands, waiting_edits, crashed>>

HandleOpenFile ==
    LET event == Head(chan) IN
    /\ (Take("OpenOutputFile") \/ Take("OpenInputFile"))
    /\ ends[event.pipe].read = "unmade" /\ ends[event.pipe].write = "unmade"
    /\ \/ /\ ends' = [ends EXCEPT ![event.pipe] =
                        IF event.type = "OpenOutputFile" THEN [read |-> "file", write |-> "table"]
                                                         ELSE [read |-> "table", write |-> "file"]]
          /\ UNCHANGED crashed
       \/ Faults /\ crashed' = "open file" /\ UNCHANGED ends
    /\ UNCHANGED <<machineVars, readers, writers, process, waiter, todo, buffer, produced,
                   userVars, work, cancelling, commands, waiting_edits, sent>>

HandleBeginRead ==
    LET q == Head(chan).pipe IN
    /\ Take("BeginRead")
    /\ MayTake(ends[q].read)
    /\ ends' = TakeRead(ends, q)
    /\ readers' = readers \cup {q}
    /\ UNCHANGED <<machineVars, writers, process, waiter, todo, buffer, produced,
                   userVars, work, cancelling, commands, waiting_edits, sent, crashed>>

\* pipe_output and pipe_closed: what a reader thread saw is passed on.
HandlePipe ==
    LET event == Head(chan) IN
    /\ (Take("PipeOutput") \/ Take("PipeClosed"))
    /\ Respond([type |-> IF event.type = "PipeOutput" THEN "Data" ELSE "Closed",
                pipe |-> event.pipe])
    /\ UNCHANGED <<machineVars, ioVars, userVars, work, cancelling, commands, waiting_edits, crashed>>

HandleEditComplete ==
    LET p == Head(chan).pid IN
    /\ Take("EditComplete")
    /\ p \in waiting_edits
    /\ waiting_edits' = waiting_edits \ {p}
    /\ \/ Finish(p, "0") /\ UNCHANGED crashed
       \/ Faults /\ crashed' = "save edit" /\ UNCHANGED <<machineVars, sent, work>>
    /\ UNCHANGED <<ioVars, userVars, cancelling, commands>>

\* The state of a running process is matched on; for a pid that waits, is about to run
\* or was refused, Machine::status has none to give.
HandleCancel ==
    LET p == Head(chan).pid IN
    /\ Take("CancelExec")
    /\ \/ /\ p \in DOMAIN running /\ running[p] = "Running"
          /\ cancelling' = {p} /\ UNCHANGED crashed
       \/ /\ p \in DOMAIN running /\ running[p] = "AwaitingEdit"
          /\ crashed' = "cancel of an edit" /\ UNCHANGED cancelling
       \/ p \in DOMAIN finished /\ UNCHANGED <<cancelling, crashed>>
       \/ /\ p \notin DOMAIN running \cup DOMAIN finished
          /\ crashed' = "neither running nor exited" /\ UNCHANGED cancelling
    /\ UNCHANGED <<machineVars, ioVars, userVars, work, commands, waiting_edits, sent>>

-----------------------------------------------------------------------------
(* process_tasks: one task.  The tasks released by it come after those     *)
(* that are already there.                                                 *)

Act(type) ==
    /\ Alive /\ work # <<>> /\ Head(work).type = type

ActOnStart(kind) == Act("Start") /\ commands[Head(work).pid].kind = kind

\* write_end finds nothing to take when it is called for the same pipe again.
CanWrite(cmd) ==
    cmd.stdout # cmd.stderr /\ MayTake(ends[cmd.stdout].write) /\ MayTake(ends[cmd.stderr].write)
CanTake(cmd) == MayTake(ends[cmd.stdin].read) /\ CanWrite(cmd)

Taken(cmd) == TakeWrite(TakeWrite(TakeRead(ends, cmd.stdin), cmd.stdout), cmd.stderr)

StartProcess ==
    LET p == Head(work).pid cmd == commands[p] IN
    /\ ActOnStart("Unknown") /\ CanTake(cmd)
    /\ ends' = Taken(cmd)
    /\ process' = [process EXCEPT ![p] = "alive"]
    /\ waiter' = [waiter EXCEPT ![p] = "spawned"]
    /\ todo' = [todo EXCEPT ![p] = cmd.writes]
    /\ Start(p, "Running")
    /\ work' = Tail(work)
    /\ UNCHANGED <<readers, writers, buffer, produced, userVars,
                   chan, cancelling, commands, waiting_edits, sent, crashed>>

\* pipe_output_and_close asks for the ends that run has taken and dropped.
SpawnFails ==
    /\ Faults /\ ActOnStart("Unknown") /\ CanTake(commands[Head(work).pid])
    /\ StartCompleted(Head(work).pid, "Failure")
    /\ crashed' = IF panicked' = "no" THEN "write side taken" ELSE crashed
    /\ UNCHANGED <<ioVars, userVars, chan, work, cancelling, commands, waiting_edits, sent>>

\* pipe_output_and_close: `full` gets its text from a thread, `empty` is closed at once.
OutputAndClose(full, empty) ==
    /\ full # empty /\ MayTake(ends[full].write) /\ MayTake(ends[empty].write)
    /\ ends' = CloseWrite(TakeWrite(TakeWrite(ends, full), empty), empty)
    /\ writers' = writers \cup {full}
    /\ UNCHANGED <<readers, process, waiter, todo, buffer, produced>>

EndAtOnce_Unanswered(p, status, code) ==
    /\ StartCompleted(p, status)
    /\ \E released \in ReleasedBy(p) : work' = Tail(work) \o Starts(released)
    /\ UNCHANGED sent

\* start_completed comes before command_result.
EndAtOnce(p, status, code) ==
    /\ StartCompleted(p, status)
    /\ \E released \in ReleasedBy(p) : work' = Tail(work) \o Starts(released)
    /\ IF panicked' = "no" THEN Respond(CommandDone(p, code)) ELSE UNCHANGED sent

\* The result is 0 whether the directory could be changed, or read, or not.
RunSetDirectory ==
    LET p == Head(work).pid IN
    /\ ActOnStart("SetDirectory")
    /\ OutputAndClose(commands[p].stdout, commands[p].stderr)
    /\ \E status \in ExitStatus : EndAtOnce(p, status, "0")
    /\ UNCHANGED <<userVars, chan, cancelling, commands, waiting_edits, crashed>>

RunGetDirectory ==
    LET p == Head(work).pid IN
    /\ ActOnStart("GetDirectory")
    /\ \/ /\ OutputAndClose(commands[p].stdout, commands[p].stderr)
          /\ EndAtOnce(p, "Success", "0")
       \/ /\ OutputAndClose(commands[p].stderr, commands[p].stdout)
          /\ EndAtOnce(p, "Failure", "0")
    /\ UNCHANGED <<userVars, chan, cancelling, commands, waiting_edits, crashed>>

\* An edit takes no pipe.
BeginEdit ==
    LET p == Head(work).pid IN
    /\ ActOnStart("Edit")
    /\ waiting_edits' = waiting_edits \cup {p}
    /\ Respond([type |-> "EditRequest", pid |-> p])
    /\ Start(p, "AwaitingEdit")
    /\ work' = Tail(work)
    /\ UNCHANGED <<ioVars, userVars, chan, cancelling, commands, crashed>>

EditUnreadable ==
    LET p == Head(work).pid IN
    /\ Faults /\ ActOnStart("Edit")
    /\ OutputAndClose(commands[p].stderr, commands[p].stdout)
    /\ EndAtOnce(p, "Failure", "1")
    /\ UNCHANGED <<userVars, chan, cancelling, commands, waiting_edits, crashed>>

ReportRefused ==
    /\ Act("ConditionFailed")
    /\ Respond(CommandDone(Head(work).pid, "1"))
    /\ work' = Tail(work)
    /\ UNCHANGED <<machineVars, ioVars, userVars, chan, cancelling, commands, waiting_edits, crashed>>

-----------------------------------------------------------------------------
(* Processes, and the kernel's pipes. *)

\* The process is gone and the kernel closes its ends.
Dies(p, code) ==
    LET cmd == commands[p] IN
    /\ process' = [process EXCEPT ![p] = code]
    /\ ends' = CloseWrite(CloseWrite(CloseRead(ends, cmd.stdin), cmd.stdout), cmd.stderr)

\* A write to a full pipe blocks, one that nobody will read ends the process.
Writes(p, s) ==
    LET q == commands[p][s] IN
    /\ Alive /\ process[p] = "alive" /\ todo[p][s] > 0
    /\ \/ /\ HasRoom(q)
          /\ todo' = [todo EXCEPT ![p][s] = @ - 1]
          /\ buffer' = IF ends[q].read = "file" THEN buffer ELSE [buffer EXCEPT ![q] = @ + 1]
          /\ produced' = [produced EXCEPT ![q] = @ + 1]
          /\ UNCHANGED <<ends, process>>
       \/ Broken(q) /\ Dies(p, "-1") /\ UNCHANGED <<todo, buffer, produced>>
    /\ UNCHANGED <<machineVars, readers, writers, waiter, userVars, ctlVars>>

\* A filter reads its input to the end.
Consumes(p) ==
    LET q == commands[p].stdin IN
    /\ Alive /\ process[p] = "alive" /\ commands[p].filter /\ buffer[q] > 0
    /\ buffer' = [buffer EXCEPT ![q] = @ - 1]
    /\ UNCHANGED <<machineVars, ends, readers, writers, process, waiter, todo, produced,
                   userVars, ctlVars>>

ExitsWith(p, code) ==
    /\ Alive /\ process[p] = "alive"
    /\ \A s \in Stream : todo[p][s] = 0
    /\ commands[p].filter => AtEof(commands[p].stdin)
    /\ Dies(p, code)
    /\ UNCHANGED <<machineVars, readers, writers, waiter, todo, buffer, produced, userVars, ctlVars>>

ProcessStep(p) ==
    \/ \E s \in Stream : Writes(p, s)
    \/ Consumes(p)
    \/ \E code \in {"0", "1"} : ExitsWith(p, code)

-----------------------------------------------------------------------------
(* The waiter thread holds the lock of the Child from before wait() until  *)
(* after it, so kill() comes first or not before the process is gone.      *)

LockChild(p) ==
    /\ Alive /\ waiter[p] = "spawned"
    /\ waiter' = [waiter EXCEPT ![p] = "waiting"]
    /\ UNCHANGED <<machineVars, ends, readers, writers, process, todo, buffer, produced,
                   userVars, ctlVars>>

Reap(p) ==
    /\ Alive /\ waiter[p] = "waiting" /\ process[p] \in ExitCode
    /\ waiter' = [waiter EXCEPT ![p] = "done"]
    /\ chan' = Append(chan, [type |-> "Completed", pid |-> p, code |-> process[p]])
    /\ UNCHANGED <<machineVars, ends, readers, writers, process, todo, buffer, produced,
                   userVars, work, cancelling, commands, waiting_edits, sent, crashed>>

\* The executor has the lock.  kill() after wait() is an error before Rust 1.72, no more since.
Kill(p) ==
    /\ Alive /\ cancelling = {p} /\ waiter[p] # "waiting"
    /\ cancelling' = {}
    /\ \/ waiter[p] = "spawned" /\ process[p] = "alive" /\ Dies(p, "-1") /\ UNCHANGED crashed
       \/ waiter[p] = "spawned" /\ process[p] # "alive" /\ UNCHANGED <<process, ends, crashed>>
       \/ /\ waiter[p] = "done" /\ crashed' \in {"no", "kill after wait"}
          /\ UNCHANGED <<process, ends>>
    /\ UNCHANGED <<machineVars, readers, writers, waiter, todo, buffer, produced,
                   userVars, chan, work, commands, waiting_edits, sent>>

\* The thread of BeginRead.
ReaderReads(q) ==
    /\ Alive /\ q \in readers /\ buffer[q] > 0
    /\ buffer' = [buffer EXCEPT ![q] = @ - 1]
    /\ chan' = Append(chan, [type |-> "PipeOutput", pipe |-> q])
    /\ UNCHANGED <<machineVars, ends, readers, writers, process, waiter, todo, produced,
                   userVars, work, cancelling, commands, waiting_edits, sent, crashed>>

ReaderEnds(q) ==
    /\ Alive /\ q \in readers /\ AtEof(q)
    /\ readers' = readers \ {q}
    /\ ends' = CloseRead(ends, q)
    /\ chan' = Append(chan, [type |-> "PipeClosed", pipe |-> q])
    /\ UNCHANGED <<machineVars, writers, process, waiter, todo, buffer, produced,
                   userVars, work, cancelling, commands, waiting_edits, sent, crashed>>

\* A thread of pipe_output_and_close; it panics, alone, when nobody will read.
WriterWrites(q) ==
    /\ Alive /\ q \in writers
    /\ \/ /\ HasRoom(q)
          /\ buffer' = IF ends[q].read = "file" THEN buffer ELSE [buffer EXCEPT ![q] = @ + 1]
          /\ produced' = [produced EXCEPT ![q] = @ + 1]
       \/ Broken(q) /\ UNCHANGED <<buffer, produced>>
    /\ writers' = writers \ {q}
    /\ ends' = CloseWrite(ends, q)
    /\ UNCHANGED <<machineVars, readers, process, waiter, todo, userVars, ctlVars>>

-----------------------------------------------------------------------------
Init ==
    /\ MachineInit
    /\ inbox \in Inboxes
    /\ cancels = Cancellable
    /\ answers = {}
    /\ chan = <<>>
    /\ work = <<>>
    /\ cancelling = {}
    /\ commands = EmptyMap
    /\ ends = [q \in Pipe |-> [read |-> "unmade", write |-> "unmade"]]
    /\ readers = {}
    /\ writers = {}
    /\ waiting_edits = {}
    /\ process = [p \in Pid |-> "none"]
    /\ waiter = [p \in Pid |-> "none"]
    /\ todo = [p \in Pid |-> [stdout |-> 0, stderr |-> 0]]
    /\ buffer = [q \in Pipe |-> 0]
    /\ produced = [q \in Pipe |-> 0]
    /\ sent = <<>>
    /\ crashed = "no"

Handle ==
    \/ HandleEnqueue \/ HandleCompleted \/ HandleOpenFile \/ HandleBeginRead
    \/ HandlePipe \/ HandleEditComplete \/ HandleCancel

RunTask ==
    \/ StartProcess \/ SpawnFails \/ RunSetDirectory \/ RunGetDirectory
    \/ BeginEdit \/ EditUnreadable \/ ReportRefused

Executor == Handle \/ RunTask \/ \E p \in Pid : Kill(p)

Next ==
    \/ SendRequest
    \/ Executor
    \/ \E p \in Pid : SendCancel(p) \/ SendEdit(p) \/ ProcessStep(p) \/ LockChild(p) \/ Reap(p)
    \/ \E q \in Pipe : ReaderReads(q) \/ ReaderEnds(q) \/ WriterWrites(q)

Spec == Init /\ [][Next]_vars

(* Every thread is scheduled; processes get on with their work, and exit   *)
(* when it is done; the user saves what is being edited.                   *)
FairSpec ==
    /\ Spec
    /\ WF_vars(SendRequest) /\ WF_vars(Executor)
    /\ \A p \in Pid : /\ WF_vars(ProcessStep(p)) /\ WF_vars(SendEdit(p))
                      /\ WF_vars(LockChild(p)) /\ WF_vars(Reap(p))
    /\ \A q \in Pipe : WF_vars(ReaderReads(q) \/ ReaderEnds(q)) /\ WF_vars(WriterWrites(q))

-----------------------------------------------------------------------------
(* Type correctness. *)

ProcessEvent == [type : {"CancelExec", "EditComplete"}, pid : Pid]
              \cup [type : {"Completed"}, pid : Pid, code : ExitCode]
Event == Request \cup ProcessEvent \cup [type : {"PipeOutput", "PipeClosed"}, pipe : Pipe]
Task == [type : {"Start", "ConditionFailed"}, pid : Pid]
Response == [type : {"CommandDone"}, pid : Pid, code : ExitCode]
          \cup [type : {"EditRequest"}, pid : Pid]
          \cup [type : {"Data", "Closed"}, pipe : Pipe]
Crashes == {"no", "open file", "save edit", "cancel of an edit", "neither running nor exited",
            "write side taken", "kill after wait"}

ExecTypes ==
    /\ TypeOK
    /\ inbox \in Seq(Request)
    /\ cancels \subseteq Cancellable /\ answers \subseteq Pid
    /\ chan \in Seq(Event)
    /\ work \in Seq(Task)
    /\ cancelling \subseteq Pid /\ \A p, q \in cancelling : p = q
    /\ IsMap(commands, Pid, Command)
    /\ ends \in [Pipe -> [read : {"unmade", "table", "held", "closed", "file"},
                          write : {"unmade", "table", "held", "closed", "file"}]]
    /\ readers \subseteq Pipe /\ writers \subseteq Pipe /\ waiting_edits \subseteq Pid
    /\ process \in [Pid -> {"none", "alive"} \cup ExitCode]
    /\ waiter \in [Pid -> {"none", "spawned", "waiting", "done"}]
    /\ todo \in [Pid -> [Stream -> Nat]]
    /\ buffer \in [Pipe -> 0 .. Capacity]
    /\ produced \in [Pipe -> Nat]
    /\ sent \in Seq(Response)
    /\ crashed \in Crashes

\* Both ends of a pipe are made at once: open_handles keeps the end that was not asked for.
MadeTogether == \A q \in Pipe : ends[q].read = "unmade" <=> ends[q].write = "unmade"

\* Every variable of the executor has its type, no pipe holds more than it can, and none is left
\* with one end: whoever takes an end leaves the other in open_handles for the one who asks next.
ExecTypeOK == ExecTypes /\ MadeTogether

-----------------------------------------------------------------------------
(* Safety. *)

Places(seq, message) == {i \in DOMAIN seq : seq[i] = message}
Count(seq, message) == Cardinality(Places(seq, message))

AnswersTo(p) == {i \in DOMAIN sent : sent[i].type = "CommandDone" /\ sent[i].pid = p}
Answered == {p \in Pid : AnswersTo(p) # {}}
Completions(p) == {i \in DOMAIN chan : chan[i].type = "Completed" /\ chan[i].pid = p}

\* A command gets one CommandDone: when the machine counts it as finished, or as refused,
\* and not again for a completion, a saved edit or a cancel that comes late.
AnsweredOnce ==
    /\ \A p \in Pid : Cardinality(AnswersTo(p)) <= 1
    /\ Alive => Answered = DOMAIN finished \cup
                  {p \in refused : Places(work, [type |-> "ConditionFailed", pid |-> p]) = {}}

\* Before a process runs everything it waited for has been answered, and the answers
\* reach the frontend in that order.
AnsweredInOrder ==
    /\ \A p \in DOMAIN running : DOMAIN asked[p] \subseteq Answered
    /\ \A p \in DOMAIN finished : \A q \in DOMAIN asked[p] :
          \A i \in AnswersTo(p) : \E j \in AnswersTo(q) : j < i

\* process_tasks has in hand every process that the machine wants started, once.
TasksInHand ==
    Alive => /\ tasks = {work[i].pid : i \in {j \in DOMAIN work : work[j].type = "Start"}}
             /\ \A i, j \in DOMAIN work : work[i] = work[j] => i = j

\* A process counts as running exactly while its waiter is at work or the completion is on
\* its way, once: completed() always finds it in `running`, and it is never left there.
CompletionsExpected ==
    Alive => /\ {p \in DOMAIN running : running[p] = "Running"}
                  = {p \in Pid : waiter[p] \in {"spawned", "waiting"} \/ Completions(p) # {}}
             /\ \A p \in Pid : Cardinality(Completions(p)) <= 1
             /\ \A p \in Pid : Completions(p) # {} => waiter[p] = "done"

\* finish_edit finds the edit in waiting_edits, and its process awaiting it.
EditsExpected ==
    Alive => /\ waiting_edits = {p \in DOMAIN running : running[p] = "AwaitingEdit"}
             /\ \A p \in Pid : LET saved == Count(chan, [type |-> "EditComplete", pid |-> p])
                               IN  saved <= 1 /\ (saved = 1 => p \in waiting_edits)

\* The executor does all that the machine believes it to be doing, and nothing else.
MachineInStep == TasksInHand /\ CompletionsExpected /\ EditsExpected

(* What a request asks of the table of ends: the read ends and the write ends that it takes *)
(* or that a file takes the place of, and the pipe that must be new.                        *)
ReadEnds(request) ==
    IF request.type = "Enqueue" THEN {request.cmd.stdin}
    ELSE IF request.type = "OpenInputFile" THEN {} ELSE {request.pipe}
WriteEnds(request) ==
    IF request.type = "Enqueue" THEN {request.cmd.stdout, request.cmd.stderr}
    ELSE IF request.type = "OpenInputFile" THEN {request.pipe} ELSE {}
NewPipes(request) ==
    IF request.type \in {"OpenOutputFile", "OpenInputFile"} THEN {request.pipe} ELSE {}

Independent(first, second) ==
    /\ ReadEnds(first) \cap ReadEnds(second) = {} /\ WriteEnds(first) \cap WriteEnds(second) = {}
    /\ NewPipes(second) \cap (ReadEnds(first) \cup WriteEnds(first)) = {}

\* As the frontend's plans do: a file is opened before its pipe is used, and no end used twice.
EndsAskedOnce(requests) ==
    /\ \A i \in DOMAIN requests :
          requests[i].type = "Enqueue" => requests[i].cmd.stdout # requests[i].cmd.stderr
    /\ \A i, j \in DOMAIN requests : i < j => Independent(requests[i], requests[j])

\* No "read side taken", "write side taken" or failed assertion on open_handles: the ends
\* that the requests and tasks still to come will ask for can be taken.
EndsAreFree ==
    Alive => /\ \A p \in to_run \cup DOMAIN waiting_on :
                   /\ CanWrite(commands[p])
                   /\ commands[p].kind = "Unknown" => CanTake(commands[p])
             /\ \A i \in DOMAIN chan :
                   /\ chan[i].type = "BeginRead" => MayTake(ends[chan[i].pipe].read)
                   /\ chan[i].type \in {"OpenOutputFile", "OpenInputFile"} =>
                         ends[chan[i].pipe] = [read |-> "unmade", write |-> "unmade"]

\* Of what was written to a pipe that the frontend reads, every chunk is in the pipe, in
\* the channel or with the frontend; and the end is reported once, after all of it.
NothingIsLost ==
    \A q \in Pipe :
        LET data == [type |-> "Data", pipe |-> q] output == [type |-> "PipeOutput", pipe |-> q]
            end == [type |-> "Closed", pipe |-> q] eof == [type |-> "PipeClosed", pipe |-> q]
            ended == Count(sent, end) + Count(chan, eof)
        IN  /\ ended <= 1
            /\ q \in readers \/ ended = 1 =>
                  produced[q] = Count(sent, data) + Count(chan, output) + buffer[q]
            /\ ended = 1 => buffer[q] = 0 /\ ends[q].write \in {"closed", "file"}
            /\ \A i \in Places(sent, end) : \A j \in Places(sent, data) : j < i
            /\ Count(sent, end) = 1 => Count(chan, output) = 0
            /\ \A i \in Places(chan, eof) : \A j \in Places(chan, output) : j < i

\* The code reported for a process is the one it exited with, what waits for it goes by
\* the same code, and by then the process is gone and has let go of its pipes.
ReportedAsExited ==
    Alive => \A p \in DOMAIN finished : commands[p].kind = "Unknown" =>
        /\ waiter[p] = "done" /\ process[p] \in ExitCode
        /\ AnswersTo(p) = Places(sent, CommandDone(p, process[p]))
        /\ finished[p] = "Success" <=> process[p] = "0"
        /\ \A s \in Stream : ends[commands[p][s]].write = "closed"
        /\ ends[commands[p].stdin].read = "closed"

\* exec.rs:234, "write side taken": the ends of a pipe are taken once.
WriteSideFree == crashed # "write side taken"

\* machine.rs:49: a pid that is cancelled has a status.
CancelsWhatHasStatus == crashed # "neither running nor exited"

-----------------------------------------------------------------------------
(* Liveness. *)

Asks(p) == \E i \in DOMAIN inbox : inbox[i].type = "Enqueue" /\ inbox[i].pid = p

\* Every command that is sent is answered.
EveryCommandAnswered == \A p \in Pid : Asks(p) ~> (p \in Answered)

\* The frontend sees the end of every pipe that it reads and a command writes.
EveryReadEnds ==
    \A p \in Pid : \A s \in Stream :
        (p \in DOMAIN finished /\ commands[p].kind # "Edit" /\ commands[p][s] \in readers)
            ~> (p \in DOMAIN commands /\ Count(sent, [type |-> "Closed", pipe |-> commands[p][s]]) = 1)
=============================================================================
