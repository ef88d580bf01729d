# A verification project for Nak

Nak is a shell in two processes. The *frontend* parses lines, expands aliases and prompts; the
*backend* runs commands and answers JSON messages on its stdin and stdout, one per line. These
modules model the backend, the stack of remotes, what becomes of a typed line, the frontend's session
and the recorder, check them with TLC and prove what matters most about each of them with TLAPS. Line numbers refer to the files under `src/`.

## The system

| Part | State it keeps | Operations | Talks to |
|---|---|---|---|
| `backend/src/machine.rs` `Machine` | `finished`, `to_run`, `running`, `check_on_completed`, `waiting_on` | `enqueue`, `start`, `start_completed`, `completed`, `status` | called by the executor's thread only |
| `backend/src/exec.rs` `ExecInternal` | the machine, `open_handles`, `actively_reading`, `waiting_edits`, `edit_ids`; an mpsc channel | one handler per `ExecEvent`; `process_tasks`, `run` | the main thread (events in), waiter, reader and writer threads, processes, the frontend (responses out) |
| `backend/src/main.rs` | `subbackends`, a relay thread for each, and tables for an editback socket that nothing fills | `run_backend` (reads requests, routes them or passes them on), `begin_remote`, `end_remote` | the executor, nested backends |
| `protocol/src` `Endpoint`, `Request::route`, `Ids` | `ids`, `jobs`, `pipes`, `remotes` | `command`, `pipe`, `remote`, `close_process`, `finish_edit`, `receive` | the session, the transport |
| `frontend/src/main.rs`, `comm.rs` | `waiting_for`, `waiting_for_eof`, `gathering_output`, `cwd_for_remote`, ... | `one_loop`: prompt, send a plan, wait for its answers; Ctrl-C | the endpoint, the terminal |
| `frontend/src/plan.rs`, `edit.rs` | the steps of a plan | `convert_ast`, `PlanBuilder` | the session |
| `frontend/src/parse.rs`, `prefs.rs` | none | a grammar; alias expansion | the planner |
| `tools/record` | two `Piper`s with a buffer each, a file of records | `record`, `pipe_some`, `accept`; `parse` and play | a command on a pseudo-terminal, the user's terminal |

A command line becomes a plan: commands, each with three pipes, and pipes to read. The session
sends one `BeginCommand` per command, then a `GetDirectory` that waits for all of them
(`block_for`), then a `BeginRead` for each pipe it wants, and waits for a `CommandDone` per
command and for the end of the `GetDirectory` output. In the backend every request becomes an
event of the executor, whose thread alone touches the machine and the pipe table. A command that
waits for nothing is spawned at once: a waiter thread reports its exit, reader threads report its
output, and its completion starts the commands that waited for it. `cd`, `GetDirectory` and a file
read for editing happen inside the executor's thread.

A remote is another backend, a process begun by the backend below it. Requests for it go down through
the stdin that this one holds; a relay thread copies its stdout up and writes its id on each
response. The shell keeps the stack and talks to its top. Nothing begins a remote today:
`convert_single` panics for `nak` (edit.rs:46), and `one_loop` has no case for the step (main.rs:144).

What is hard in it: completions, output, requests, saved edits and cancels arrive in any order;
`check_on_completed` and `waiting_on` are two directions of one relation; a pipe end can be taken
once; a builtin finishes in the middle of `process_tasks`; the lock of a `Child` is held by its
waiter; assertions and `unwrap`s end the executor's thread, and with it the backend; remotes are closed
with answers under way, or die; the terminals of the recorder fill up, end or fail while it pumps.

What makes each part correct:

* Machine: every pid is in one collection, starts only when all it waits for has ended as asked,
  does start then, and nobody waits for nobody or in a circle.
* Executor: one `CommandDone` per command, after those of its prerequisites, with the code the
  process exited with; every chunk of output once, before the end of its pipe; every event finds
  the machine in the state it expects.
* Planner: a plan uses each end of a pipe once, after the step that makes it, and connects the
  elements of a line in their order; a command is what the first alias for it says.
* Session: a message never finds a table unprepared; the prompt returns, after all commands of the
  line, with the directory they left; Ctrl-C can be typed at any time; the output is all shown.
* Remotes: each has a line of its own to the shell; a response carries the id of the remote it came
  from; the stack is of remotes that are there, and none stays behind when nobody holds on to it.
* Parser: a line is read as it is written, and refused only if it is malformed.
* Recorder: the file says what went through, in both directions, whenever the recorder ends.

## Modules

| Module | What it is |
|---|---|
| `JobGraph` | abstract specification: jobs, what they need, when they begin, finish or are refused |
| `Machine` | `machine.rs`, one action per public method; extends nothing of the project, instantiates `JobGraph` |
| `MachineProofs` | the inductive invariant of `Machine`, the theorems from it, and that `Machine` implements `JobGraph` |
| `Exec` | `exec.rs` with its threads and processes; extends `Machine`, whose actions are parts of its own |
| `ExecProofs` | `Exec` is typed and uses the machine within its interface; its answers, completions and edits; its pipes, its output, and what it reports of a process |
| `Backend` | abstract specification of a backend as its frontend sees it: requests in, responses out |
| `ExecBackend` | `Exec` mapped onto `Backend`: `ImplementsBackend` |
| `ExecRefinement` | the theorem that `Exec` implements `Backend` |
| `Links` | abstract specification of what remotes promise: to each a line of its own |
| `Remotes` | the shell's stack, the backends' main threads and relays; instantiates `Links` |
| `RemotesProofs` | the inductive invariant of `Remotes`, the theorems from it, and that `Remotes` implements `Links` |
| `Parser` | `parse.rs` as operators, and what a text says |
| `Prefs` | `Prefs::expand` as operators, and what an alias means |
| `Plan` | `PlanBuilder`, `convert_ast` and `convert_single` as operators; extends `Prefs` |
| `Reader` | what `get_command` returns for what is typed; extends `Plan` and `Parser` |
| `ReaderProofs` | what is parsed is a line, what is planned of a line can be run and sends each output where the line says |
| `Session` | `one_loop`, `StackedRemotes` and `Endpoint` in front of a `Backend`; extends `Backend` and `Plan` |
| `SessionProofs` | the inductive invariant of `Session` and the theorems from it |
| `Recorder` | `tools/record`: the pumps, the file, and its playing |
| `RecorderProofs` | the inductive invariant of `Recorder` and the theorems from it |
| `Numbers` | induction over the natural numbers, for `SessionProofs`, `RecorderProofs`, `RemotesProofs` and `ReaderProofs` |
| `MCMachine`, `MCExec`, `MCReader`, `MCSession`, `MCRecorder` | constants for TLC |

The two processes meet in `Backend`: `Exec` is shown to implement it, and `Session` is the frontend
on top of it. The session is so checked against everything that a backend may do, which is more
than `Exec` does, and in far fewer states than the two together. `Remotes` is about the way of messages
between a shell and several backends, and reduces what either does with them to answering.

An operator whose name has an underscore, like `Released_Never`, is a mutant of the definition
after it: with it in place, TLC finds the property that PROJECT.json names violated.

### Machine

The variables have the names of the struct's fields. Four more are bookkeeping: `tasks` (the
`Task::Start`s returned and not yet acted upon), `refused`, `asked` (what each pid was enqueued
with) and `panicked`. The `Cmd` parameter is only handed through and is left out.

| Code | Definition |
|---|---|
| `enqueue` 53-94 | `Enqueue`, one of `EnqueueRefused` (67), `EnqueueUnknown` (assertion 72), `EnqueueReady` (81-83), `EnqueueBlocked` (84-92) |
| `start` 96-101 | `Start` |
| `start_completed` 103-109 | `StartCompleted` |
| `completed` 111-118 | `Completed` |
| `resolve_tasks` 120-148 | `Resolve`, part of the two above, and `ResolvePanics` |

`enqueue` walks a HashMap, so when one prerequisite was missed and another is unknown, either is
found first: both actions are enabled. The recursion of `resolve_tasks` into `completed` (130)
always fails the assertion at 114, so `ResolvePanics` is its exact meaning and no recursion is
left. The caller obeys the interface and nothing more: fresh pids, starts what it was told to start,
completes what runs. `AnyPid` says whether it may also name prerequisites it never enqueued.

### JobGraph

`job` is what became of a job (absent, submitted, running, refused or its exit status) and `needs`
what it asked for. `Submit` refuses exactly the jobs that are too late and accepts only jobs whose
needs were accepted. `Machine!JobOf` reads the job off the five collections.

### Exec

One step is one event of `run_handler` (`Handle...`), one task of `process_tasks`, one chunk or one
system call of another thread, or one act of a process. `chan` is the mpsc channel, `work` the tasks
still in hand, so an event is taken only when `work` is empty. `ends` gives each end of a pipe a
state: `unmade`, in `open_handles` (`table`), `held` by a process or thread, `closed`, or `file`.

| Code | Definition |
|---|---|
| `enqueue` 206, `completed` 211 | `HandleEnqueue`, `Finish`/`HandleCompleted` |
| `open_output_file`, `open_input_file` 335-351 | `HandleOpenFile` |
| `pipe_message` 353-393, its thread 359-382 | `HandleBeginRead`, `ReaderReads`, `ReaderEnds` |
| `finish_edit` 438, `begin_edit_request` 431 | `HandleEditComplete`, `BeginEdit` |
| `cancel` 414-429 | `HandleCancel`, and `Kill` once the lock is free |
| `run` 245-333 | `StartProcess`, `SpawnFails`, `RunSetDirectory`, `RunGetDirectory`, `BeginEdit`, `EditUnreadable` |
| `process_tasks` 166-204 | `work`, `EndAtOnce`, `ReportRefused` |
| `read_end`, `write_end` 217-243 | `TakeRead`, `TakeWrite`; whether their `expect` holds: `MayTake`, `CanWrite`, `CanTake` |
| `pipe_output_and_close` 395-412 | `OutputAndClose`, `WriterWrites` |
| waiter thread 274-281 | `LockChild`, `Reap` |

Processes, kernel pipes and files are external: `Writes`, `Consumes`, `ExitsWith`, `Dies`,
`HasRoom`, `AtEof`, `Broken`. Abstractions:

* Output is counted in chunks, what a read or a write moves; a pipe holds `Capacity` of them. Text
  of a builtin is one chunk (a path or an error line is shorter than any pipe).
* A command's record says how many chunks it writes on each stream and whether it reads its
  input to the end (`filter`).
* `ReleasedBy` is the order in which `resolve_tasks` pushes what it releases, that of
  `check_on_completed`: as a set, with one member, so that it needs no recursion.
* As a caller of `Machine` the executor names any pid (`AnyPid`): it hands on what it is sent.
* An edit is known by its pid instead of an edit id: `edit_ids` gives each edit a fresh one.
* `Reap` is the end of wait(), the release of the lock and the sending of the completion in one
  step; nothing else looks at the child in between but a kill of a child already reaped, which has
  the same outcomes before and after the sending.
* Killing a child that was waited for is an error in std before Rust 1.72 and is not any more. No
  toolchain is pinned, so `Kill` allows both.
* A command whose two outputs are the same pipe finds nothing at its second `write_end` (`CanWrite`).
* After the executor's thread has panicked (`crashed`, or `panicked` for the machine), nothing
  more happens: every later request would fail on the closed channel.
* `PipeMessage::Read` does nothing (386) and is left out. An error of read(2) in a reader thread
  and a grandchild that inherits a pipe are not modelled.

### Backend and ExecBackend

The state is what a frontend could know: the commands it sent, which were answered, which edits are
out, which pipes it reads, how much it was told of each and which ended. `Answer` and `AskForEdit`
need every prerequisite answered. `Output` and `End` may come before or after the answer. A backend
may die (`dead`) where exec.rs has an `unwrap`, `expect` or `panic!`: `DieOnSpawn`, and a cancel of
what waits or is edited (always), a cancel of a process (std's kill of a reaped child) and a
failing file operation (if `MayFail`). `ExecBackend` reads the state off `Exec`: its `sent` is the
queue of responses, `asked` the needs, and a request is received when the executor handles it. A pipe is
`Reading` from the BeginRead until its end is told, and what was told of it is counted in `sent`.
Exit codes are dropped: the session looks at none. `FrontendSends` is what `ImplementsBackend` takes of
the requests: a command needs only commands sent before it (main.rs:155-164), `MaxChunks` bounds what it
writes to a pipe, and a file that is opened for input is not read by the frontend.

### Links and Remotes

| Code | Definition |
|---|---|
| `Endpoint::remote`, `begin_remote` protocol/src/comm.rs:109, frontend/src/comm.rs:246 | `Begin` |
| `close_remote`, `end_remote` 188, 254 | `End` |
| `remote_ready`, `command_done` frontend/src/comm.rs:62, 93 | `ReceiveRemoteReady`, `ReceiveCommandDone` |
| `run_backend`, the loop, backend/src/main.rs:382-414 | `TakeRequest` with `ForItself` and `PassOn`; `EndOfInput` |
| `begin_remote` 143-197, its thread 168-189 | `TakeBeginRemote`, then `Connect`; `Relay` |
| `end_remote` 203 | `TakeEndRemote` |
| start of a backend 372-380 | `Start` |

The state of the shell is that of `Endpoint` and `StackedRemotes` as far as remotes go; each backend is
a process with the queues of its stdin and stdout and the tables of its main thread. A death leaves
what was written and not read. `Begin` is what the step of a plan (plan.rs:28) would do; after it, as
after a Close, the loop asks for the directory, and a request stands for all of a command. The field
`from` of a response is bookkeeping: the code has the id alone. A Ctrl-C is left to `Session`.

`Links` has for each remote the requests not taken, the commands not answered and the answers not
heard, all of them in order. `Remotes` reads off its queues which of their messages are whose.

### Parser, Prefs, Plan and Reader

A text is a sequence of items: the characters that the parser tells apart, one by one, and anything
else in one piece. Each `parse_` function gives a set: of what it returns and the position behind it, or
nothing for a panic. The loop of a `parse_` function is `Children`: a recursive function from the positions
of the text to what is found from there on. Against them stands `Cut`, which knows only "between words, in a word, in quotes",
and `Malformed`, which texts have no meaning: open quotes, quotes in a word, a word behind a file.
`NothingIsMisread` compares the line, written down again, with the text.

`Prefs` follows the iterator of `expand`: `next` is the word in hand and `it` the words behind it; an
Expando leaves the word in hand (prefs.rs:83-88), so only patterns that end in their Expando mean
what they say. As in the code there is a map of matches for each type of item, and an item of the
replacement that is not in the map of its type is a panic (99-100). Against it stands `Rewrites`: every way to read a rule as the beginning of a command.
Words behind a pattern without Expando are dropped, by the code and by the reference.

In `Plan` a builder is a record; the assertions of `use_read_end`, `use_write_end` and `sink` end it
with "panic", an Err with "error" (which ends the shell, main.rs:107). `ConvertClauses` takes the clauses
of a redirect from the last to the first, as `convert_ast` walks them (edit.rs:71). `Runnable` says what
`one_loop` needs of a plan: no failing index or `unwrap` (main.rs:121-123, 179). The parser gives no
`Stream::Stderr`, so the lines have none, although `ConvertClause` handles it. `StepsOf` is the order of a
plan's steps of some types; it, `ConvertClauses` and `Children` are recursive functions, so that they can be
proved about. `Parser` and `Prefs` take SequencesExt under a name, for the same reason: it and
FiniteSetTheorems, both of which the proofs would see, bring the same name otherwise.

`Rejects` is what `convert_single` rejects as it computes it, and what `PlansAreRunnable` is about; `Bad` is what it
should reject for what the aliases mean. That they agree is part of `ExpandsByFirstAlias`.

### Session

| Code | Definition |
|---|---|
| `one_loop` at the prompt, main.rs:84-107 | `ShowPrompt` |
| `one_loop` sending a plan, 107-207 | `RunLine`, `SendPlan`; `Exit` for Close (131-137) |
| `one_loop` with a message, 69-81 and 210-225 | `Take` and one action per message; `Interrupted` |
| `remote_ready` comm.rs:62, `command_done` 93, `pipe` 69, `edit_request` 102 | `RemoteReady`, `CommandIsDone`, `PipeData` and `PipeClosed`, `EditRequest` |
| `Endpoint` protocol/src/comm.rs:87-245, `Ids` | `next_id`, `jobs`, `pipes`; `StepId`, `BeginCommand`, `BeginRead` |
| `ctrlc::set_handler` main.rs:271 | `CtrlC` |
| `launch_backend` comm.rs:125 | `Init` |

The channel carries the backend's responses and the Ctrl-Cs in one order: both are `responses`. The
ids are those that the code would give, from one counter for pipes and processes. A plan is sent in
one step: the loop looks at no message meanwhile, and the backend takes the requests one by one.
Abstractions: gathered output is counted in chunks; the directory is named by the pipe that told it;
what is shown leaves no trace; the working directory is kept when GetDirectory told nothing. `cancel` walks a
hash set: `Interrupted` sends the cancels in any order. `PlansAssumption` says of the constant `Plans` what the
types of plan.rs say of a plan (`IsPlan`), and that there are ids for `MaxLines` of them. A panic sets `outcome` and ends the session.
Nothing begins a remote (convert_single panics first, edit.rs:46), so the root is the only one. When
the backend is dead nothing comes any more: the thread of comm.rs:171-186 spins on the end of file.

### Recorder

| Code | Definition |
|---|---|
| `record` 337-454 | `pc`: `CheckConfig`, `Select`, `PumpNext`, `Spawn`, `Wait` |
| `accept` 149-153 | `WriteLength`, `WritePayload`, `AcceptFails`, and what comes after it: `AfterConfig`, `AfterData` |
| `pipe_some` 279-330, one action per outcome of write(2) and read(2) | `WriteSome`, `WouldBlock`, `WriteFails`, `ReadSome`, `ReadWouldBlock`, `ReadEof`, `ReadFails` |
| `parse` 168-183, playing 482-500 | `Parse`, by the places in the file, and `Play` |

The user and the command are `World`: `Produce`, `Close`, `Drain`, `ChangeAttrs` and `Exit`. That nothing has the
command's terminal open any more (`Close("Output")`) and that the command has exited (`Exit`, which `Wait` needs for
the `child.wait()` of 451) are two events, in any order: a command may close its terminal and live on, and what it
started may keep the terminal open.

Bytes are numbered as they are typed or printed. A terminal takes `Room` bytes until somebody reads
(`Drain`). `capacity` is that of the vector: after a full terminal it is just what was left
(289), and the read that follows claims 4096 (304), so one of more than that is `undefined`. Whether a
hung-up pseudo-terminal reads as an end or as an error differs between systems: both are allowed. With `Faults` any
call may fail.
Time stamps, and the raw mode that `setup_master` sets, are left out.

## Runs

| Run | Bounds | Shows |
|---|---|---|
| `machine_conditions` | 3 pids, all conditions, `AnyPid` | bookkeeping, order of starts, no deadlock, `ImplementsJobGraph` |
| `machine_frontend` | 4 pids, condition None | no panic; everything finishes |
| `exec_frontend` | 8 lines | every command answered, every pipe ends |
| `exec_interface` | 10 inboxes, failures, two cancels at any time | one answer per command, in order, with the right code; machine and executor in step; single use of pipe ends; output complete; `ImplementsBackend` |
| `lines` | all texts of up to 6 items; 113 lines, 73 preferences | lines read as written, plans run, pipes follow the line, aliases |
| `session_lines` | 2 lines and the exit, 1 message in flight | messages expected, right directory, the prompt returns |
| `session_interrupts` | 1 line of 7 kinds, 2 in flight, 2 Ctrl-Cs, failures | messages expected, no early prompt, types |
| `remotes` | ids up to 9, deaths at any time | responses expected, the stack is connected, `ImplementsLinks`; the prompt returns, what nobody holds ends |
| `recorder` | 1 byte typed, 4 printed, a buffer of 2, room for 1, failures, a kill | the file says what was written, only what was refused is missing, it plays what was shown; the recorder ends after its command |
| `spawn_failure`, `cancel_waiting`, `lost_output` | | see *Findings* |

Three pids with any conditions allow a process with two prerequisites of which one has finished, two
waiters on one process, a chain and a cycle of three; an action looks at one pid and its direct
neighbours. `MachineFrontend` has a fourth, and the theorems hold for any number. The state of a
running process is opaque to the machine: one value. `MachineConditions` uses symmetry in pids; the
run with liveness does not.

For Exec, three pids are two commands and the `GetDirectory` after them, what one line of the
frontend amounts to: a pipeline of two is the longest that adds a new kind of neighbour. Ten pipes
are three per command and one to spare. `Capacity` is 1, so that every pipe with two chunks blocks its
writer. `sent` and `chan` are bounded by the requests; `MaxChunks` is what the commands write to a
pipe at most, 2. The inboxes are what `frontend/src/main.rs`
sends (with the pipes in the order `convert_ast` makes them) for: a command, `cd`, an edit,
`a > file`, and `a | b` with b reading to the end, with b ignoring its input, and with `cd` for a; most of
them without the reading of the two stderr pipes, one with it.
`exec_interface` leaves out the two largest of them and adds what the frontend does not use: conditions
on the status and input files. `ImplementsBackend` is about the lines without conditions.

For Reader, a line of four elements has every pair of neighbours that the conversion looks at, in the
middle and at both ends. Two aliases are enough for one to shadow, or to feed, the other. Six items are
a word on both sides of two separators, or two quoted words; a parser's state is its position.

For Remotes, ten ids let the shell begin and close two remotes in a row, or begin one on top of one, with
lines in between: every remote takes two ids and every line or Close one.

For Recorder, four printed bytes make two full reads of a buffer of two, so that the first can be
refused in part, the vector shrink and the second overrun it; what is typed takes the same code, and one byte
of it is enough for the two directions to interleave.

For Session, `MaxLines` 2 lets messages of one line arrive in the next, `MaxChunks` 1 tells output
from none, `MaxInFlight` bounds what the backend sends ahead (a Ctrl-C is queued regardless), and `Interrupts` 2
allows one before the first RemoteReady and one later, or two on one line. `MCIds` is what two lines need.

None of the runs checks for deadlock: the backend with nothing left to do rightly waits, and so does
a session that has ended or whose backend is gone.

### Fairness

`MachineFairSpec`: `process_tasks` is a loop over every task it is given, so acting on a task is
weakly fair; a started process is assumed to exit. `FairSpec` of Exec: every thread is scheduled
(weak fairness of the executor, the main thread, each waiter, reader and writer), a process goes
on with what it has to do and exits when it is done, and the user saves the file being edited. There
is no fairness for cancels, and none between the alternatives of a step: a process that is blocked
on a full pipe is not assumed to get on.

`FairSpec` of Session: the backend takes requests and the loop handles messages (both are loops over
a queue), and each answer, each edit request and each end of a pipe that the backend owes is sent, which
`EveryCommandAnswered` and `EveryReadEnds` show of Exec. Output is not owed, the user need not type.

`FairSpec` of Remotes: each main thread, relay and answer is scheduled, a backend that was spawned starts;
there is none for the user or for deaths. `StackPromptReturns` excuses deaths, since nothing tells the
shell of one. `FairSpec` of Recorder: the recorder is a loop, and select wakes it; nobody need type,
print, hang up, exit or read. `RecordingEnds` begins where the command has exited and nothing has its terminal
open: without either of the two the recorder rightly goes on, or waits.

`EveryCommandAnswered` and `EveryReadEnds` are about lines whose commands are not stuck on an
unread stderr or an open stdin: see *Hazards* in PROJECT.json; README.md:24 of Nak knows of the second.

## Findings

* `spawn_failure`: exec.rs:185 takes pipe ends that exec.rs:259-261 has taken; any command that
  cannot be spawned ends the executor.
* `cancel_waiting`: machine.rs:49 panics for a pid that waits; Ctrl-C always sends one, the
  `GetDirectory` behind the command.
* `lost_output`: main.rs:84 does not wait for the output of the commands; with `--command` the
  frontend may exit before it has shown what the integration tests expect.

In the models as well, without a run of their own:

* A missed condition panics at machine.rs:114 (`ResolvePanics`), and a refused pid is forgotten, so that
  those that name it later fail the assertion of machine.rs:72 (`EnqueueUnknown`). Both need
  conditions that the frontend does not send: `NeverPanics`.
* A second Ctrl-C on one line fails the `expect` of protocol/src/comm.rs:201: the first removed the job
  although the process still runs (`Interrupted`).
* A remote on top of a remote cannot work: each relay overwrites the id (backend/src/main.rs:178), so the
  assertion of frontend/src/comm.rs:63 fails when it announces itself (`Nested`). A remote begun before
  anything else would get the id 0 of the root and fail protocol/src/comm.rs:123 (`Begin`).
* The death of a remote is not told to the shell, which waits for ever, and the next request for it ends
  its parent (backend/src/main.rs:402, `PassOn`). A closed remote is killed and never waited for.
* A missing element of a line is a command with the empty name (parse.rs:128), whose spawn ends the backend;
  `a > f g`, a quote in a word and an open quote panic the shell (`Malformed`).
* The recorder loses what a full terminal refuses, and may then read over the end of its buffer
  (record/src/main.rs:289, 304); the end of its input is a panic (435); a kill between the two writes of a
  record leaves a file that panics the parser (175).
* An edit cannot be cancelled: exec.rs:421 panics for one (`HandleCancel`). If the Ctrl-C is handled before
  the EditRequest, the frontend panics as well when the edit is saved (`EditRequest`,
  protocol/src/comm.rs:213).
* A Ctrl-C before the first RemoteReady panics (main.rs:76), and one that is queued behind the last
  answer of a line cancels the next (`Interrupted`).
* `cd` without argument ends the shell (edit.rs:28, main.rs:107); a line with `;`, which the parser and its tests
  accept, panics (edit.rs:68).
* `jobs`, the endpoint's `pipes`, `stdout_pipes` and `stderr_pipes` only grow.

Met while reading, not in a model: the result of a failed `cd` is reported as 0 (exec.rs:179); the
recorder samples the attributes of the terminal once per round (record/src/main.rs:395), and a command that
prints without a pause keeps it from the input (284).

## What is proved

For every set of pids, of states and of conditions, finite or not (`MachineProofs`; the only assumption is
`ConditionsAssumption`):

* `TypeCorrect`: `TypeOK` is inductive by itself; it includes that a waiting process has something
  left to wait for, which the other proofs lean on.
* `BookkeepingIsRight`, `StartsInOrder`, `DeadlockFree`, `WaitingIsAcyclic`: consequences of `IInv`, the
  conjunction of `TypeOK`, `OneState`, `TasksAreToRun`, `IndexesAgree`, `WaitsForTheRest`,
  `WaitsForTheLiving`, `NoCircularWait` (all of these but the first are `Bookkeeping`) and
  `NoneStartsEarly`. None of the others is inductive alone: that a released process may start
  follows from `WaitsForTheRest`, which survives `Resolve` only because `IndexesAgree` says that every
  waiter of p is filed under p once with the condition it waits with, and that in turn needs
  `OneState` for the fresh pid. `DeadlockFree` takes the set of all waiting processes, picks with
  `NoCircularWait` one that waits for none of them, and finds with `WaitsForTheLiving` that what it
  waits for is about to run or runs.
* `UnconditionalNeverPanics`: if all conditions are None and only used pids are named, nothing is
  ever refused and no assertion fails: why the two findings about conditions are latent today.
* `MachineImplementsJobGraph`: each step of the machine is a step of the job graph under `JobOf`,
  or a stutter; `IInv` supplies that what is about to run has its needs met.

For every set of processes and pipes, every set of inboxes and of cancels, any capacity of a pipe, with
or without failures (`ExecProofs`, `ExecRefinement`; the assumptions are `ExecAssumption` and that of the machine):

* `UsesTheMachine`: a behaviour of `Exec` is one of `Machine`, so all of the above holds of the machine
  inside the executor. Each handler and task is an enqueue, a start, an end, or leaves the machine alone.
* `ExecTypeCorrect`, from `TInv`: `IInv`, `ExecTypes` and `CommandsKnown`, that whatever runs or is
  known to the machine has a command, which `ExecTypes` alone does not give. That the two ends of a pipe are
  made at once, `MadeTogether`, needs `HoldInv` as well: what a process or a thread lets go of was made.
* `StartsInHand`, from `WorkInv`: the starts in `work` are those the machine waits for. A builtin ends in
  the middle of `process_tasks`; that what it releases is new, so that appending it repeats nothing,
  is `OneState` and `IndexesAgree` of `IInv`.
* `OneAnswerEach`, from `AnswerInv`: what has finished, or was refused and reported, has its one answer,
  and nothing else has one. A step answers only what is in `tasks` or `running`, or a refusal in hand.
* `AnswersInOrder`: no further invariant; what was answered had finished, and had its prerequisites
  finished before it by `NoneStartsEarly`, so their answers are in `sent` when its own is appended.
* `EveryRunIsReported` and `EveryEditIsAwaited`, from `RunInv`: a process is in `running` as "Running" while
  its waiter is at work or its completion is on the way, and as "AwaitingEdit" while its edit is out, which is
  saved at most once. `StaysInStep` is these two with `StartsInHand`: `MachineInStep`.

* `ExitsAreReported`, from `HoldInv` (what is held is held by one: two processes that are alive share no
  end), `LetGoInv` (a process that has exited has closed its ends, and closed they stay) and `ExitInv`,
  which follows an exit code from wait(2) over the completion in the channel to the answer.
* `OutputIsKept`, from `OutInv`: as long as the frontend reads a pipe, or still may, the chunks produced are those in the
  buffer, in the channel and with the frontend; the end of file comes after the last of them, once.
  `HoldInv` is what keeps a second reader or a process from taking some.
* `EndsStayFree` has a hypothesis, `EndsAskedOnce` of each inbox: no request asks for an end that an earlier one
  asks for, a file is opened before its pipe is used. `InboxesAskOnce` of `MCExec` has TLC evaluate
  it for the inboxes of the run. What has to be found is that it is enough, in whatever order the
  machine releases the commands: `QueuedInv` carries it from the inbox over the channel to the commands
  that wait, and `FreeInv` says that what any of them is going to ask for is still there.

* `ExecIsABackend`: every step of `Exec` is a step of `Backend` or a stutter, as long as no condition was sent. It
  has two hypotheses: `MaxChunks` is not 0, and each inbox is one that a frontend sends (`FrontendSends`, which
  `InboxesAreSent` of `MCExec` has TLC evaluate for the inboxes of the runs). With what is above, `AnswersInOrder`
  as an invariant and `ExitInv` among it, the argument (`RefInv`) needs
  `SourceInv` (the requests in line are one frontend's), `NeedsInv` (what a command in line needs is enqueued or in
  line before it) and `KnownInv` (the machine knows all commands), so that an enqueue is a begin of what can begin;
  `RefusedInv` (only a condition leads to a refusal), so that an answer is of what ran; `WriteInv`
  (an end that is held or closed was taken by a command that has begun, and without that nothing is written) and
  `ReadInv` and `FileInv` (output on its way is from a pipe that is read and not yet at its end),
  so that output and ends are of what the backend owes; `SizeInv` and `ChunkInv` (what was written to a pipe and what
  its writer still has to write are within `MaxChunks`); and `CancelInv` (what is being killed is running), for the
  one way a cancel can end the executor. That data never follows the end of its pipe, and that an end comes once, is `OutInv`.

Each step lemma has a case per action and, under it, a step per conjunct the action disturbs; most
first treat what happens outside of the executor's thread, then events, then
tasks. TLC checks `IInv` and all that is proved of `Exec` in the runs above.

For every number of ids, with deaths at any moment or without (`RemotesProofs`; the assumption is `RemotesAssumption`):

* `RemotesTypes`, `ExpectsResponses` and `ConnectsStack`, from `RemotesInv`. The shell waits for one command and one
  new remote at most, and the invariant follows each of them through whatever holds it: `Flow` says where
  requests may be (a batch is in the root's input in one piece, its command last, and a request that was
  passed on is alone with the root as its addressee), `OneCommand` that the pid is in one place only, a request, the table of a
  backend or a CommandDone, and awaited by the shell wherever it is; `OneRemote` the same of an id, a
  process that starts and a RemoteReady. So a response is never a surprise by what it is about.
* That it is none by its id needs the shape of the stack. `Flat`: with nothing but remotes on the root, all relays are the root's,
  and a response in the root's output bears the id of its sender, `Stamp` having put it there; `Stamped` and
  `Fresh` (an id is greater than that of the remote below, and not yet given out otherwise) keep a new one apart
  from those before. `Stuck`: with a remote on a remote the shell waits for it for ever, since the
  root stamps with the id of another; this is what bounds the finding about `Nested`.
* `Connected` has a part for each stage of a Begin and an End: between prompts the root's table differs
  from the stack by just the request in its input or the process it waits for. At the prompt nothing is on its way
  (`PromptIsQuiet`), which leaves `StackIsConnected`.
* `KeepsLinks`: every step of `Remotes` is a step of `Links` or a stutter. What the line of a remote holds lies in up to three
  queues, one after the other: a step that passes a message on takes it from the end of one and puts it on the next, and the
  whole stays as it was; a step of the shell or of the remote itself adds or takes at one end of its own line,
  and the other lines have to stay as they are. That only these queues have messages of the remote is `LinkInv`, on top of `RemotesInv`: a
  backend is on one other at most, on its way or there (`Sole`), what is not begun has nothing and is in nothing
  (`Unborn`), a remote on a remote is asked for nothing (`Leaf`), and only the root has
  responses of more than itself and what is on it (`Origin`).

For every set of plans, number of lines, of messages in flight and of Ctrl-Cs, on any behaviour of `Backend`
(`SessionProofs`; the assumptions are those of `Session`, `PlansAssumption` among them):

* `SessionTypes`, `PromptsWhenDone`, `PromptShowsDirectory` and `DirectoryComesLast`, an action property, all
  from `SInv`: the types and, as long as the session runs, `RunInv`. Its parts follow one thing each from the
  table of the session through the queue of requests, the backend and the queue of responses back to the table:
  `CommandInv` a command (from when it is sent to when its answer is taken it is in `waiting_for`, and in one
  place of that way), `EditInv` an edit, `PipeInv` a pipe that is read (shown or gathered until its end is
  taken, behind its data), `CwdInv` the output that tells the directory, `ReadyInv` the first message. `IdInv`
  bounds what all ids in use come to, so that a fresh one is fresh everywhere; `LineInv` says that every line
  ends with a GetDirectory whose stdout is its own and which waits for all that came before and is not answered.
  None is inductive alone. What makes `DirectoryComesLast` hold across lines is that a line is sent only
  at a prompt, so that what it does not wait for is answered: `CommandInv` with `LineInv`.
* `MessagesAreExpected` has a hypothesis: the plans that are sent can be run (`Runnable`); without it the
  session panics on the plan. `PlansCanBeRun`, below, proves it of every plan that a reader returns, and `PlansCanRun` of
  `MCSession` has TLC evaluate it for the plans of the runs.

For every text and every list of aliases (`ReaderProofs`; the assumption is `ReaderAssumption`, that a text is a
sequence of strings):

* `PlansCanBeRun`: whatever is typed, the plan can be run, or is none because the text was refused, is a
  sequence, or has a command that `convert_single` rejects. `OutputFlows`: in a plan each command of the line has its
  step, and writes to what follows it on the line. Both follow from `Planned`: the plan is the one of the
  line, or the one for no line, and the line is one of the grammar (`IsLine`).
* The second part of `Planned` is about the parser. A `parse_` function finds something of its kind, at a position that is in
  the text and not before the one it was given: `ParsesWord` to `ParsesLine`, one lemma per function. A loop
  calls itself for a position behind its own, so that its function exists by induction over how much of the
  text is left (`ChildrenExist`), and what it finds is a sequence of the right kind (`ChildrenAre`).
* The first part is about the builder, and holds of it after each call. `Sound` is `Laid` (the pipes are numbered in the order of
  their steps, and only what is no file has an end to read), `Ran` (each end that a step takes is that of a pipe
  before it, is not free any more, and is no other step's) and `Shown` (the terminal's own pipes can be
  read). That an assertion of `use_read_end` or `use_write_end` never fails needs that what is converted next finds
  two different pipes with their write ends free, `Ready`; `ConvertedIs` shows that of what a clause leaves behind.
  The order of calls matters here: a new pipe is given on to the clause before, and to it alone.
* For where the output goes, `Behind` says of a builder that it has just the steps of the elements behind some
  place of the line, and that those lead along the line (`Leads`). Steps are counted from the end, so those
  of an element keep their number when more are added in front of it on the line (`Extends`, `StillLeads`). One clause
  takes `Sound`, `Ready` and `Behind` from a place to the one before (`ConvertsOneClause`), and
  `ConvertsClauses` is the induction over the clauses, from the last to the first; `ConvertsLine` ends it with the head.
  What `Expand` makes of the words enters only by what `KindOf` says of it, so that all of this is for any aliases.

For every number of bytes, every size of the buffer and of the terminals (`RecorderProofs`):

* `RecorderTypes`, `FileIsWhatWasWritten`, `LossNeedsRefusal` and `PlaysWhatWasShown`, from `RInv`: the types;
  `FileInv`, that what was written to a terminal is what the file says of it and the part of one record that is
  still to be written; and `PumpInv`, that what was read is the written, the refused and what is in hand, in
  order. `FileInv` says when the file ends within a record, which makes the parser's panic impossible
  otherwise. `Parse` and what a file says of a direction lay sequences end to end by recursion.

The library's induction takes an operator as its parameter, which the provers cannot instantiate. `Numbers` gets what
is needed of it from the well-foundedness of the numbers: a set of numbers has a least one
(`LeastOf`), so that a set that holds 0 and with a number the next holds all (`AllNumbers`), and that a function
that starts somewhere and is continued step by step exists (`Recursion`). The set is
first-order data and the provers take it. `JoinExists` and what follows of it in `RecorderProofs`, the lemmas
about `StepsOf` in `SessionProofs` and those about `Of` in `RemotesProofs` (what one message more or less at an end of a
queue does to the messages of one remote in it) and the inductions of `ReaderProofs` rest on it.

Only model-checked: liveness (`EveryJobFinishes`, `EveryCommandAnswered`, `EveryReadEnds`, `PromptReturns`,
`StackPromptReturns`, `OrphansEnd`, `RecordingEnds`), which is out of the prover's reach; and three properties of the run
`lines` that compare what is computed with a reference. `NothingIsMisread` and `RefusesOnlyMalformed` compare the
parser with `Cut`, a fold over the text that joins strings, and `ExpandsByFirstAlias` compares
`Expand`, a fold over the rules and their items, with `Meanings`. To prove these, induction over what a fold has seen
would have to be done for strings, of which the provers know nothing but that they are equal or not.

## Not modelled

The line editor, the pager and the editor client (terminal I/O), the editback socket (its table of commands
is never filled: backend main.rs:294), `list_directory` and `EndpointExt::run` (no caller), the reading of
the preferences file, JSON encoding and the framing of messages (a short write at backend main.rs:92 would
break it), the display of a recording, the vagrant script, Windows stubs.

## Plan

What is planned is done. What a change of the code is likely to ask for next: remotes begun from a line, once
`convert_single` plans them (edit.rs:46), in `Plan` and `Session`, where now the root is the only one;
conditions sent by the frontend, in the hypothesis of `ExecIsABackend`; sequences in `convert_ast`, in `IsLine` and
`Behind`.
