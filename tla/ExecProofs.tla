----------------------------- MODULE ExecProofs -----------------------------
(***************************************************************************)
(* Proofs about Exec: its types and its machine, the tasks that the        *)
(* executor has in hand and the answers that it gives; who holds the ends  *)
(* of the pipes, what becomes of the output, and what is reported of a     *)
(* process; for any requests, processes, pipes and interleaving.           *)
(***************************************************************************)
EXTENDS Exec, MachineProofs, FiniteSetTheorems

-----------------------------------------------------------------------------
(* Events. *)

\* What the executor relies on in an event is there, by its type.
LEMMA EventFields ==
    ASSUME NEW e \in Event
    PROVE  /\ e.type = "Enqueue" => e.pid \in Pid /\ e.cmd \in Command /\ e.block_for \in BlockFor
           /\ e.type \in {"OpenOutputFile", "OpenInputFile", "BeginRead", "PipeOutput", "PipeClosed"}
                 => e.pipe \in Pipe
           /\ e.type \in {"CancelExec", "EditComplete", "Completed"} => e.pid \in Pid
           /\ e.type = "Completed" => e.code \in ExitCode
<1>1. BlockFor = UNION {[D -> Conditions] : D \in SUBSET Pid}
  BY ExecAssumption DEF BlockFor
<1>2. CASE e \in PipeRequest
  BY <1>2 DEF PipeRequest
<1>3. CASE e \in ProcessEvent
  BY <1>3 DEF ProcessEvent
<1>4. CASE e \in [type : {"PipeOutput", "PipeClosed"}, pipe : Pipe]
  BY <1>4
<1>5. CASE e \in [type : {"Enqueue"}, pid : Pid, cmd : Command,
                  block_for : UNION {[D -> Conditions] : D \in SUBSET Pid}]
  BY <1>1, <1>5
<1> QED
  BY <1>2, <1>3, <1>4, <1>5 DEF Event, Request

\* An edit that the user has saved is known by its process.
LEMMA SavedEdit ==
    ASSUME NEW e \in Event, e.type = "EditComplete"
    PROVE  e = [type |-> "EditComplete", pid |-> e.pid]
<1>1. e \notin Request /\ e \notin [type : {"PipeOutput", "PipeClosed"}, pipe : Pipe]
  BY DEF Request, PipeRequest
<1>2. e \in [type : {"CancelExec", "EditComplete"}, pid : Pid]
  BY <1>1 DEF Event, ProcessEvent
<1> QED
  BY <1>2

\* The executor takes the first event of a channel, and leaves a channel.
LEMMA FirstEvent ==
    ASSUME chan \in Seq(Event), NEW type, Take(type)
    PROVE  /\ Head(chan) \in Event /\ Head(chan).type = type
           /\ chan' \in Seq(Event)
  BY DEF Take

-----------------------------------------------------------------------------
(* The executor uses the machine as its interface asks. *)

LEMMA FinishIsCompleted ==
    ASSUME TypeOK, NEW p, NEW code, Finish(p, code)
    PROVE  MachineNext
<1>1. p \in Pid
  BY DEF Finish, Completed, TypeOK, IsMap
<1>2. StatusOf(code) \in ExitStatus
  BY DEF StatusOf, ExitStatus
<1> QED
  BY <1>1, <1>2 DEF Finish, MachineNext

LEMMA StartIsStart ==
    ASSUME TypeOK, NEW p, NEW state \in {"Running", "AwaitingEdit"}, Start(p, state)
    PROVE  MachineNext
<1>1. p \in Pid
  BY DEF Start, TypeOK
<1> QED
  BY <1>1, ExecAssumption DEF MachineNext

LEMMA EndIsStartCompleted ==
    ASSUME TypeOK, NEW p, NEW status \in ExitStatus, StartCompleted(p, status)
    PROVE  MachineNext
<1>1. p \in Pid
  BY DEF StartCompleted, TypeOK
<1> QED
  BY <1>1 DEF MachineNext

\* Each step of the executor, of its threads and of the processes is a step of the machine,
\* or leaves the machine alone.
LEMMA StepOfMachine ==
    ASSUME TypeOK, chan \in Seq(Event), [Next]_vars
    PROVE  [MachineNext]_machineVars
<1>1. CASE Handle
  <2>1. ASSUME HandleEnqueue PROVE MachineNext
    <3>1. Head(chan).pid \in Pid /\ Head(chan).block_for \in BlockFor
      BY <2>1, FirstEvent, EventFields DEF HandleEnqueue
    <3> QED
      BY <2>1, <3>1 DEF HandleEnqueue, MachineNext
  <2>2. ASSUME HandleCompleted PROVE MachineNext
    BY <2>2, FinishIsCompleted DEF HandleCompleted
  <2>3. ASSUME HandleEditComplete PROVE MachineNext \/ UNCHANGED machineVars
    BY <2>3, FinishIsCompleted DEF HandleEditComplete
  <2>4. ASSUME HandleOpenFile \/ HandleBeginRead \/ HandlePipe \/ HandleCancel
        PROVE  UNCHANGED machineVars
    BY <2>4 DEF HandleOpenFile, HandleBeginRead, HandlePipe, HandleCancel
  <2> QED
    BY <1>1, <2>1, <2>2, <2>3, <2>4 DEF Handle
<1>2. CASE RunTask
  <2>1. ASSUME StartProcess \/ BeginEdit PROVE MachineNext
    BY <2>1, StartIsStart DEF StartProcess, BeginEdit
  <2>2. "Success" \in ExitStatus /\ "Failure" \in ExitStatus
    BY DEF ExitStatus
  <2>3. ASSUME SpawnFails \/ RunSetDirectory \/ RunGetDirectory \/ EditUnreadable PROVE MachineNext
    BY <2>2, <2>3, EndIsStartCompleted
       DEF SpawnFails, RunSetDirectory, RunGetDirectory, EditUnreadable, EndAtOnce
  <2> QED
    BY <1>2, <2>1, <2>3 DEF RunTask, ReportRefused
<1>3. CASE \E p \in Pid : Kill(p)
  BY <1>3 DEF Kill
<1>4. CASE SendRequest
  BY <1>4 DEF SendRequest
<1>5. CASE \E p \in Pid : SendCancel(p) \/ SendEdit(p) \/ ProcessStep(p) \/ LockChild(p) \/ Reap(p)
  BY <1>5 DEF SendCancel, SendEdit, ProcessStep, Writes, Consumes, ExitsWith, LockChild, Reap
<1>6. CASE \E q \in Pipe : ReaderReads(q) \/ ReaderEnds(q) \/ WriterWrites(q)
  BY <1>6 DEF ReaderReads, ReaderEnds, WriterWrites
<1>7. CASE UNCHANGED vars
  BY <1>7 DEF vars
<1> QED
  BY <1>1, <1>2, <1>3, <1>4, <1>5, <1>6, <1>7 DEF Next, Executor

-----------------------------------------------------------------------------
(* Type correctness.  A process that the machine has heard of, or that     *)
(* lives, has a command: its pipes are known.                              *)

CommandsKnown ==
    /\ DOMAIN asked \subseteq DOMAIN commands
    /\ \A p \in Pid : process[p] = "alive" => p \in DOMAIN commands

TInv == IInv /\ ExecTypes /\ CommandsKnown

\* What is about to run was enqueued.
LEMMA TasksHaveCommands ==
    ASSUME TInv, NEW p \in tasks
    PROVE  p \in Pid /\ p \in DOMAIN commands /\ commands[p] \in Command
  BY DEF TInv, IInv, TypeOK, OneState, TasksAreToRun, CommandsKnown, ExecTypes, IsMap

LEMMA CommandFields ==
    ASSUME NEW cmd \in Command
    PROVE  /\ cmd.stdin \in Pipe /\ cmd.stdout \in Pipe /\ cmd.stderr \in Pipe
           /\ cmd.writes \in [Stream -> Nat]
           /\ \A s \in Stream : cmd[s] \in Pipe
  BY DEF Command, Stream

\* Taking and closing an end of a pipe leaves the table of ends one.
Ends == [Pipe -> [read : {"unmade", "table", "held", "closed", "file"},
                  write : {"unmade", "table", "held", "closed", "file"}]]
LEMMA EndsKeepTypes ==
    ASSUME NEW e \in Ends, NEW q \in Pipe
    PROVE  /\ TakeRead(e, q) \in Ends /\ TakeWrite(e, q) \in Ends
           /\ CloseRead(e, q) \in Ends /\ CloseWrite(e, q) \in Ends
           /\ [e EXCEPT ![q] = [read |-> "file", write |-> "table"]] \in Ends
           /\ [e EXCEPT ![q] = [read |-> "table", write |-> "file"]] \in Ends
<1>1. TakeRead(e, q) \in Ends
  BY DEF Ends, TakeRead
<1>2. TakeWrite(e, q) \in Ends
  BY DEF Ends, TakeWrite
<1>3. CloseRead(e, q) \in Ends
  BY DEF Ends, CloseRead
<1>4. CloseWrite(e, q) \in Ends
  BY DEF Ends, CloseWrite
<1>5. /\ [e EXCEPT ![q] = [read |-> "file", write |-> "table"]] \in Ends
      /\ [e EXCEPT ![q] = [read |-> "table", write |-> "file"]] \in Ends
  BY DEF Ends
<1> QED
  BY <1>1, <1>2, <1>3, <1>4, <1>5

\* One process waits for another at most as often as check_on_completed has entries.
LEMMA ReleasedIsFinite ==
    ASSUME TInv, NEW p \in Pid
    PROVE  IsFiniteSet(Released(p))
<1>1. check_on_completed[p] \in Seq(Entry)
  BY DEF TInv, IInv, TypeOK
<1> DEFINE pid == [i \in DOMAIN check_on_completed[p] |-> check_on_completed[p][i].pid]
<1>2. IsFiniteSet(DOMAIN check_on_completed[p])
  BY <1>1, FS_Interval
<1>3. pid \in Surjection(DOMAIN check_on_completed[p], Waiters(p))
  BY DEF Surjection, Waiters
<1>4. IsFiniteSet(Waiters(p))
  BY <1>2, <1>3, FS_Surjection
<1> QED
  BY <1>4, FS_Subset DEF Released

\* The processes that an end releases are tasks.
LEMMA ReleasedAreTasks ==
    ASSUME TInv, NEW p \in Pid, NEW released \in ReleasedBy(p)
    PROVE  Starts(released) \in Seq(Task)
<1>1. check_on_completed[p] \in Seq(Entry)
  BY DEF TInv, IInv, TypeOK
<1>2. \A w \in Released(p) : w \in Pid
  <2> SUFFICES ASSUME NEW w \in Released(p) PROVE w \in Pid
    OBVIOUS
  <2>1. PICK i \in DOMAIN check_on_completed[p] : w = check_on_completed[p][i].pid
    BY DEF Released, Waiters
  <2>2. check_on_completed[p][i] \in Entry
    BY <1>1, <2>1, ElementsKeepTypes
  <2> QED
    BY <2>1, <2>2 DEF Entry
<1>3. Cardinality(Released(p)) \in Nat
  BY ReleasedIsFinite, FS_CardinalityType
<1>4. released \in [1 .. Cardinality(Released(p)) -> Released(p)]
  BY DEF ReleasedBy
<1>5. \A i \in 1 .. Cardinality(Released(p)) : Starts(released)[i] \in Task
  BY <1>2, <1>4 DEF Starts, Task
<1>6. Starts(released) \in [1 .. Cardinality(Released(p)) -> Task]
  BY <1>4, <1>5 DEF Starts
<1> QED
  BY <1>3, <1>6

\* A message appended to what has been sent is a response.
LEMMA ResponseKeepsTypes ==
    ASSUME sent \in Seq(Response), NEW p \in Pid, NEW code \in ExitCode, Respond(CommandDone(p, code))
    PROVE  sent' \in Seq(Response)
  BY DEF Respond, CommandDone, Response

\* What is known of the machine's variables is known after every step.
LEMMA MachinePart ==
    ASSUME TInv, [Next]_vars
    PROVE  IInv'
<1>1. [MachineNext]_machineVars
  BY StepOfMachine DEF TInv, IInv, ExecTypes
<1> QED
  BY <1>1, InvStep DEF TInv

\* A step that enqueues nothing adds no process that the machine has heard of.
LEMMA AskedByEnqueueOnly ==
    ASSUME NEW p, NEW status, Completed(p, status) \/ StartCompleted(p, status)
    PROVE  asked' = asked
  BY DEF Completed, StartCompleted

\* The main thread, the waiters and the readers append to the channel; the main thread
\* takes from the inbox.
LEMMA ThreadTypes ==
    ASSUME TInv, TypeOK',
           \/ SendRequest
           \/ \E p \in Pid : SendCancel(p) \/ SendEdit(p) \/ LockChild(p) \/ Reap(p)
           \/ \E q \in Pipe : ReaderReads(q) \/ ReaderEnds(q) \/ WriterWrites(q)
    PROVE  ExecTypes' /\ CommandsKnown'
<1> USE DEF TInv, ExecTypes, CommandsKnown
<1>1. CASE SendRequest
  <2>1. Head(inbox) \in Event /\ inbox' \in Seq(Request)
    BY <1>1 DEF SendRequest, Event
  <2>2. chan' \in Seq(Event)
    BY <1>1, <2>1 DEF SendRequest
  <2> QED
    BY <1>1, <2>1, <2>2 DEF SendRequest, machineVars, ioVars
<1>2. ASSUME NEW p \in Pid, SendCancel(p) \/ SendEdit(p)
      PROVE  ExecTypes' /\ CommandsKnown'
  <2>1. /\ [type |-> "CancelExec", pid |-> p] \in Event
        /\ [type |-> "EditComplete", pid |-> p] \in Event
    BY DEF Event, ProcessEvent
  <2>2. chan' \in Seq(Event)
    <3>1. chan' = Append(chan, [type |-> "CancelExec", pid |-> p])
          \/ chan' = Append(chan, [type |-> "EditComplete", pid |-> p])
      BY <1>2 DEF SendCancel, SendEdit
    <3>2. chan \in Seq(Event)
      OBVIOUS
    <3> HIDE DEF TInv
    <3> QED
      BY <2>1, <3>1, <3>2, AppendKeepsTypes
  <2> QED
    BY <1>2, <2>2 DEF SendCancel, SendEdit, machineVars, ioVars
<1>3. ASSUME NEW p \in Pid, LockChild(p)
      PROVE  ExecTypes' /\ CommandsKnown'
  BY <1>3 DEF LockChild, machineVars, userVars, ctlVars
<1>4. ASSUME NEW p \in Pid, Reap(p)
      PROVE  ExecTypes' /\ CommandsKnown'
  <2>1. [type |-> "Completed", pid |-> p, code |-> process[p]] \in Event
    BY <1>4 DEF Reap, Event, ProcessEvent
  <2>2. chan' \in Seq(Event)
    BY <1>4, <2>1 DEF Reap
  <2> QED
    BY <1>4, <2>2 DEF Reap, machineVars, userVars
<1>5. ASSUME NEW q \in Pipe, ReaderReads(q)
      PROVE  ExecTypes' /\ CommandsKnown'
  <2>1. [type |-> "PipeOutput", pipe |-> q] \in Event
    BY DEF Event
  <2>2. chan' \in Seq(Event)
    BY <1>5, <2>1 DEF ReaderReads
  <2>3. buffer' \in [Pipe -> 0 .. Capacity]
    BY <1>5, ExecAssumption DEF ReaderReads
  <2> QED
    BY <1>5, <2>2, <2>3 DEF ReaderReads, machineVars, userVars
<1>6. ASSUME NEW q \in Pipe, ReaderEnds(q)
      PROVE  ExecTypes' /\ CommandsKnown'
  <2>1. [type |-> "PipeClosed", pipe |-> q] \in Event
    BY DEF Event
  <2>2. chan' \in Seq(Event)
    BY <1>6, <2>1 DEF ReaderEnds
  <2>3. ends' \in Ends
    BY <1>6, EndsKeepTypes DEF ReaderEnds, Ends
  <2> QED
    BY <1>6, <2>2, <2>3 DEF ReaderEnds, Ends, machineVars, userVars
<1>7. ASSUME NEW q \in Pipe, WriterWrites(q)
      PROVE  ExecTypes' /\ CommandsKnown'
  <2>1. buffer' \in [Pipe -> 0 .. Capacity] /\ produced' \in [Pipe -> Nat]
    <3>1. HasRoom(q) /\ ends[q].read # "file" => buffer[q] + 1 \in 0 .. Capacity
      BY ExecAssumption DEF HasRoom
    <3>2. CASE /\ HasRoom(q)
               /\ buffer' = IF ends[q].read = "file" THEN buffer ELSE [buffer EXCEPT ![q] = @ + 1]
               /\ produced' = [produced EXCEPT ![q] = @ + 1]
      BY <3>1, <3>2
    <3>3. CASE UNCHANGED <<buffer, produced>>
      BY <3>3
    <3> QED
      BY <1>7, <3>2, <3>3 DEF WriterWrites
  <2>2. ends' \in Ends
    BY <1>7, EndsKeepTypes DEF WriterWrites, Ends
  <2> QED
    BY <1>7, <2>1, <2>2 DEF WriterWrites, Ends, machineVars, userVars, ctlVars
<1> QED
  BY <1>1, <1>2, <1>3, <1>4, <1>5, <1>6, <1>7

\* A process touches its pipes, and nothing of the executor's own.
LEMMA ProcessTypes ==
    ASSUME TInv, TypeOK', NEW p \in Pid, ProcessStep(p) \/ Kill(p)
    PROVE  ExecTypes' /\ CommandsKnown'
<1> USE DEF TInv, ExecTypes, CommandsKnown
<1>1. process[p] = "alive" => commands[p] \in Command
  BY DEF IsMap
<1>2. ASSUME NEW code \in ExitCode, process[p] = "alive", Dies(p, code)
      PROVE  ends' \in Ends /\ process' \in [Pid -> {"none", "alive"} \cup ExitCode]
             /\ \A r \in Pid : process'[r] = "alive" => r \in DOMAIN commands
  <2>1. ends' \in Ends
    BY <1>1, <1>2, CommandFields, EndsKeepTypes DEF Dies, Ends
  <2> QED
    BY <1>2, <2>1 DEF Dies, ExitCode
<1>3. ASSUME NEW s \in Stream, Writes(p, s)
      PROVE  ExecTypes' /\ CommandsKnown'
  <2>1. commands[p][s] \in Pipe
    BY <1>1, <1>3, CommandFields DEF Writes
  <2>2. CASE /\ HasRoom(commands[p][s])
             /\ todo' = [todo EXCEPT ![p][s] = @ - 1]
             /\ buffer' = IF ends[commands[p][s]].read = "file" THEN buffer
                          ELSE [buffer EXCEPT ![commands[p][s]] = @ + 1]
             /\ produced' = [produced EXCEPT ![commands[p][s]] = @ + 1]
             /\ UNCHANGED <<ends, process>>
    <3>1. todo' \in [Pid -> [Stream -> Nat]]
      <4>1. todo \in [Pid -> [Stream -> Nat]] /\ todo' = [todo EXCEPT ![p][s] = @ - 1]
        BY <2>2
      <4>2. todo[p] \in [Stream -> Nat] /\ todo[p][s] - 1 \in Nat
        BY <1>3, <4>1 DEF Writes
      <4>3. [todo[p] EXCEPT ![s] = @ - 1] \in [Stream -> Nat]
        BY <4>2
      <4>4. todo' = [todo EXCEPT ![p] = [todo[p] EXCEPT ![s] = @ - 1]]
        BY <4>1
      <4> QED
        BY <4>1, <4>3, <4>4
    <3>2. buffer' \in [Pipe -> 0 .. Capacity] /\ produced' \in [Pipe -> Nat]
      <4>0. buffer[commands[p][s]] \in 0 .. Capacity /\ Capacity \in Nat
        BY <2>1, ExecAssumption
      <4>1. ends[commands[p][s]].read # "file" => buffer[commands[p][s]] + 1 \in 0 .. Capacity
        <5> HIDE DEF TInv, ExecTypes, CommandsKnown
        <5> QED
          BY <2>2, <4>0 DEF HasRoom
      <4>2. buffer' \in [Pipe -> 0 .. Capacity]
        BY <2>1, <2>2, <4>1
      <4>3. produced' \in [Pipe -> Nat]
        BY <2>1, <2>2
      <4> QED
        BY <4>2, <4>3
    <3> QED
      BY <1>3, <2>2, <3>1, <3>2 DEF Writes, machineVars, userVars, ctlVars
  <2>3. CASE Dies(p, "-1") /\ UNCHANGED <<todo, buffer, produced>>
    <3>1. /\ ends' \in Ends /\ process' \in [Pid -> {"none", "alive"} \cup ExitCode]
          /\ \A r \in Pid : process'[r] = "alive" => r \in DOMAIN commands
      BY <1>2, <1>3, <2>3 DEF Writes, ExitCode
    <3> QED
      BY <1>3, <2>3, <3>1 DEF Writes, Ends, machineVars, userVars, ctlVars
  <2> QED
    BY <1>3, <2>2, <2>3 DEF Writes
<1>4. CASE Consumes(p)
  <2>1. commands[p].stdin \in Pipe
    BY <1>1, <1>4, CommandFields DEF Consumes
  <2>2. buffer' \in [Pipe -> 0 .. Capacity]
    BY <1>4, <2>1, ExecAssumption DEF Consumes
  <2> QED
    BY <1>4, <2>2 DEF Consumes, machineVars, userVars, ctlVars
<1>5. ASSUME NEW code \in {"0", "1"}, ExitsWith(p, code)
      PROVE  ExecTypes' /\ CommandsKnown'
  BY <1>2, <1>5 DEF ExitsWith, ExitCode, Ends, machineVars, userVars, ctlVars
<1>6. CASE Kill(p)
  <2>1. crashed' \in Crashes
    BY <1>6 DEF Kill, Crashes
  <2>2. CASE Dies(p, "-1") /\ process[p] = "alive"
    BY <1>2, <1>6, <2>1, <2>2 DEF Kill, ExitCode, Ends, machineVars, userVars
  <2>3. CASE UNCHANGED <<process, ends>>
    BY <1>6, <2>1, <2>3 DEF Kill, machineVars, userVars
  <2> QED
    BY <1>6, <2>2, <2>3 DEF Kill
<1> QED
  BY <1>3, <1>4, <1>5, <1>6 DEF ProcessStep

\* The executor takes an event, and gets tasks from the machine.
LEMMA HandleTypes ==
    ASSUME TInv, TypeOK', Handle
    PROVE  ExecTypes' /\ CommandsKnown'
<1> USE DEF TInv, ExecTypes, CommandsKnown
<1> DEFINE event == Head(chan)
<1>1. CASE HandleEnqueue
  <2>1. /\ event \in Event /\ event.type = "Enqueue" /\ chan' \in Seq(Event)
        /\ event.pid \in Pid /\ event.cmd \in Command
    BY <1>1, FirstEvent, EventFields DEF HandleEnqueue
  <2>2. IsMap(commands', Pid, Command)
    BY <1>1, <2>1, PutKeepsTypes DEF HandleEnqueue
  <2>3. \A k : k \in DOMAIN commands' <=> k \in DOMAIN commands \/ k = event.pid
    BY <1>1, PutIsMap DEF HandleEnqueue
  <2>4. \A k : k \in DOMAIN asked' => k \in DOMAIN asked \/ k = event.pid
    <3>1. Enqueue(event.pid, event.block_for)
      BY <1>1 DEF HandleEnqueue
    <3>2. asked' = asked \/ asked' = Put(asked, event.pid, event.block_for)
      BY <3>1 DEF Enqueue, EnqueueRefused, EnqueueUnknown, EnqueueReady, EnqueueBlocked
    <3> QED
      BY <3>2, PutIsMap
  <2>5. work' \in Seq(Task)
    <3>1. [type |-> "Start", pid |-> event.pid] \in Task
          /\ [type |-> "ConditionFailed", pid |-> event.pid] \in Task
      BY <2>1 DEF Task
    <3>2. Starts(<<event.pid>>) = <<[type |-> "Start", pid |-> event.pid]>>
      BY DEF Starts
    <3>3. \/ work' = Starts(<<event.pid>>) \/ work' = <<>>
          \/ work' = <<[type |-> "ConditionFailed", pid |-> event.pid]>>
      BY <1>1 DEF HandleEnqueue
    <3>4. <<>> \in Seq(Task)
          /\ \A task \in Task : <<task>> \in Seq(Task)
      OBVIOUS
    <3> QED
      BY <3>1, <3>2, <3>3, <3>4
  <2> QED
    BY <1>1, <2>1, <2>2, <2>3, <2>4, <2>5 DEF HandleEnqueue, ioVars, userVars
<1>2. ASSUME NEW p \in Pid, NEW code \in ExitCode, Finish(p, code)
      PROVE  sent' \in Seq(Response) /\ work' \in Seq(Task) /\ asked' = asked
  BY <1>2, ResponseKeepsTypes, ReleasedAreTasks, AskedByEnqueueOnly DEF Finish
<1>3. CASE HandleCompleted
  <2>1. chan' \in Seq(Event) /\ event.pid \in Pid /\ event.code \in ExitCode
    BY <1>3, FirstEvent, EventFields DEF HandleCompleted
  <2> QED
    BY <1>2, <1>3, <2>1 DEF HandleCompleted, ioVars, userVars
<1>4. CASE HandleEditComplete
  <2>1. chan' \in Seq(Event) /\ event.pid \in Pid
    BY <1>4, FirstEvent, EventFields DEF HandleEditComplete
  <2>2. CASE Finish(event.pid, "0") /\ UNCHANGED crashed
    BY <1>2, <1>4, <2>1, <2>2 DEF HandleEditComplete, ExitCode, ioVars, userVars
  <2>3. CASE crashed' = "save edit" /\ UNCHANGED <<machineVars, sent, work>>
    BY <1>4, <2>1, <2>3 DEF HandleEditComplete, Crashes, machineVars, ioVars, userVars
  <2> QED
    BY <1>4, <2>2, <2>3 DEF HandleEditComplete
<1>5. CASE HandleOpenFile
  <2>1. chan' \in Seq(Event) /\ event.pipe \in Pipe
    BY <1>5, FirstEvent, EventFields DEF HandleOpenFile
  <2>2. ends' \in Ends /\ crashed' \in Crashes
    <3>1. \/ ends' = [ends EXCEPT ![event.pipe] = [read |-> "file", write |-> "table"]]
          \/ ends' = [ends EXCEPT ![event.pipe] = [read |-> "table", write |-> "file"]]
          \/ ends' = ends
      BY <1>5 DEF HandleOpenFile
    <3>2. ends' \in Ends
      <4>1. ends \in Ends
        BY DEF Ends
      <4> HIDE DEF TInv, ExecTypes, event
      <4> QED
        BY <2>1, <3>1, <4>1, EndsKeepTypes
    <3>3. crashed' = crashed \/ crashed' = "open file"
      BY <1>5 DEF HandleOpenFile
    <3> QED
      BY <3>2, <3>3 DEF Crashes
  <2> QED
    BY <1>5, <2>1, <2>2 DEF HandleOpenFile, Ends, machineVars, userVars
<1>6. CASE HandleBeginRead
  <2>1. chan' \in Seq(Event) /\ event.pipe \in Pipe
    BY <1>6, FirstEvent, EventFields DEF HandleBeginRead
  <2>2. ends' \in Ends
    BY <1>6, <2>1, EndsKeepTypes DEF HandleBeginRead, Ends
  <2> QED
    BY <1>6, <2>1, <2>2 DEF HandleBeginRead, Ends, machineVars, userVars
<1>7. CASE HandlePipe
  <2>1. chan' \in Seq(Event) /\ event.pipe \in Pipe
    BY <1>7, FirstEvent, EventFields DEF HandlePipe
  <2>2. sent' \in Seq(Response)
    BY <1>7, <2>1 DEF HandlePipe, Respond, Response
  <2> QED
    BY <1>7, <2>1, <2>2 DEF HandlePipe, machineVars, ioVars, userVars
<1>8. CASE HandleCancel
  <2>1. chan' \in Seq(Event) /\ event.pid \in Pid
    BY <1>8, FirstEvent, EventFields DEF HandleCancel
  <2>2. cancelling = {}
    BY <1>8 DEF HandleCancel, Take, Idle
  <2>3. cancelling' \subseteq Pid /\ \A p, q \in cancelling' : p = q
    BY <1>8, <2>1, <2>2 DEF HandleCancel
  <2>4. crashed' \in Crashes
    BY <1>8 DEF HandleCancel, Crashes
  <2> QED
    BY <1>8, <2>1, <2>3, <2>4 DEF HandleCancel, machineVars, ioVars, userVars
<1> QED
  BY <1>1, <1>3, <1>4, <1>5, <1>6, <1>7, <1>8 DEF Handle

\* The executor acts on a task.
LEMMA TaskTypes ==
    ASSUME TInv, TypeOK', RunTask
    PROVE  ExecTypes' /\ CommandsKnown'
<1> USE DEF TInv, ExecTypes, CommandsKnown
<1> DEFINE p == Head(work)
<1>1. work # <<>> /\ Tail(work) \in Seq(Task) /\ Head(work).pid \in Pid
  <2>1. work # <<>>
    BY DEF RunTask, StartProcess, SpawnFails, RunSetDirectory, RunGetDirectory, BeginEdit,
           EditUnreadable, ReportRefused, ActOnStart, Act
  <2>2. Head(work) \in Task
    BY <2>1
  <2> QED
    BY <2>1, <2>2 DEF Task
<1> DEFINE pid == Head(work).pid cmd == commands[pid]
<1>2. ASSUME NEW full \in Pipe, NEW empty \in Pipe, OutputAndClose(full, empty)
      PROVE  /\ ends' \in Ends /\ writers' \subseteq Pipe
             /\ UNCHANGED <<readers, process, waiter, todo, buffer, produced>>
  BY <1>2, EndsKeepTypes DEF OutputAndClose, Ends
<1>3. ASSUME NEW status, NEW code \in ExitCode, EndAtOnce(pid, status, code)
      PROVE  sent' \in Seq(Response) /\ work' \in Seq(Task) /\ asked' = asked
  <2>1. PICK released \in ReleasedBy(pid) : work' = Tail(work) \o Starts(released)
    BY <1>3 DEF EndAtOnce
  <2>2. Starts(released) \in Seq(Task)
    BY <1>1, ReleasedAreTasks
  <2>3. work' \in Seq(Task)
    BY <1>1, <2>1, <2>2
  <2>4. sent' \in Seq(Response)
    BY <1>1, <1>3, ResponseKeepsTypes DEF EndAtOnce
  <2> QED
    BY <1>3, <2>3, <2>4, AskedByEnqueueOnly DEF EndAtOnce
<1>4. ASSUME pid \in tasks
      PROVE  cmd \in Command /\ pid \in DOMAIN commands
  BY <1>4, TasksHaveCommands
<1>5. CASE StartProcess
  <2>1. cmd \in Command /\ pid \in DOMAIN commands /\ asked' = asked
    BY <1>4, <1>5 DEF StartProcess, Start
  <2>2. ends' \in Ends
    BY <1>5, <2>1, CommandFields, EndsKeepTypes DEF StartProcess, Taken, Ends
  <2>3. todo' \in [Pid -> [Stream -> Nat]]
    BY <1>1, <1>5, <2>1, CommandFields DEF StartProcess
  <2>4. /\ process' \in [Pid -> {"none", "alive"} \cup ExitCode]
        /\ \A r \in Pid : process'[r] = "alive" => r \in DOMAIN commands
        /\ waiter' \in [Pid -> {"none", "spawned", "waiting", "done"}]
    BY <1>1, <1>5, <2>1 DEF StartProcess
  <2> QED
    BY <1>1, <1>5, <2>1, <2>2, <2>3, <2>4 DEF StartProcess, Ends, userVars
<1>6. CASE SpawnFails
  <2>1. crashed' \in Crashes
    BY <1>6 DEF SpawnFails, Crashes
  <2> QED
    BY <1>6, <2>1, AskedByEnqueueOnly DEF SpawnFails, ioVars, userVars
<1>7. ASSUME NEW status, NEW code \in ExitCode, EndAtOnce(pid, status, code),
             OutputAndClose(cmd.stdout, cmd.stderr) \/ OutputAndClose(cmd.stderr, cmd.stdout),
             UNCHANGED <<userVars, chan, cancelling, commands, waiting_edits, crashed>>
      PROVE  ExecTypes' /\ CommandsKnown'
  <2>1. cmd \in Command
    BY <1>4, <1>7 DEF EndAtOnce, StartCompleted
  <2>2. /\ ends' \in Ends /\ writers' \subseteq Pipe
        /\ UNCHANGED <<readers, process, waiter, todo, buffer, produced>>
    BY <1>2, <1>7, <2>1, CommandFields
  <2> QED
    BY <1>3, <1>7, <2>2 DEF Ends, userVars
<1>8. CASE RunSetDirectory \/ RunGetDirectory \/ EditUnreadable
  BY <1>7, <1>8 DEF RunSetDirectory, RunGetDirectory, EditUnreadable, ExitCode
<1>9. CASE BeginEdit
  <2>1. sent' \in Seq(Response)
    BY <1>1, <1>9 DEF BeginEdit, Respond, Response
  <2> QED
    BY <1>1, <1>9, <2>1 DEF BeginEdit, Start, ioVars, userVars
<1>10. CASE ReportRefused
  <2>1. sent' \in Seq(Response)
    BY <1>1, <1>10, ResponseKeepsTypes DEF ReportRefused, ExitCode
  <2> QED
    BY <1>1, <1>10, <2>1 DEF ReportRefused, machineVars, ioVars, userVars
<1> QED
  BY <1>5, <1>6, <1>8, <1>9, <1>10 DEF RunTask

-----------------------------------------------------------------------------
LEMMA TInvInit == Init => TInv
<1> SUFFICES ASSUME Init PROVE TInv
  OBVIOUS
<1>1. IInv
  BY InvInit DEF Init
<1>2. inbox \in Seq(Request)
  BY ExecAssumption DEF Init
<1>3. IsMap(commands, Pid, Command)
  BY DEF Init, IsMap, EmptyMap
<1>4. todo \in [Pid -> [Stream -> Nat]]
  BY DEF Init, Stream
<1>5. buffer \in [Pipe -> 0 .. Capacity] /\ produced \in [Pipe -> Nat]
  BY ExecAssumption DEF Init
<1>6. ExecTypes
  BY <1>1, <1>2, <1>3, <1>4, <1>5 DEF Init, ExecTypes, IInv, Crashes
<1>7. CommandsKnown
  BY DEF Init, CommandsKnown, MachineInit, EmptyMap
<1> QED
  BY <1>1, <1>6, <1>7 DEF TInv

LEMMA TInvStep == TInv /\ [Next]_vars => TInv'
<1> SUFFICES ASSUME TInv, [Next]_vars PROVE TInv'
  OBVIOUS
<1>1. IInv' /\ TypeOK'
  BY MachinePart DEF IInv
<1>2. CASE Handle
  BY <1>1, <1>2, HandleTypes DEF TInv
<1>3. CASE RunTask
  BY <1>1, <1>3, TaskTypes DEF TInv
<1>4. CASE \E p \in Pid : Kill(p) \/ ProcessStep(p)
  BY <1>1, <1>4, ProcessTypes DEF TInv
<1>5. CASE \/ SendRequest
           \/ \E p \in Pid : SendCancel(p) \/ SendEdit(p) \/ LockChild(p) \/ Reap(p)
           \/ \E q \in Pipe : ReaderReads(q) \/ ReaderEnds(q) \/ WriterWrites(q)
  BY <1>1, <1>5, ThreadTypes DEF TInv
<1>6. CASE UNCHANGED vars
  BY <1>1, <1>6 DEF vars, ioVars, userVars, ctlVars, machineVars, TInv, ExecTypes, CommandsKnown
<1> QED
  BY <1>2, <1>3, <1>4, <1>5, <1>6 DEF Next, Executor

(* The executor, with its threads, processes and pipes around it, uses the machine as    *)
(* its interface asks: a behaviour of the executor is one of the machine, so what holds  *)
(* of the machine for every caller holds here.                                           *)
THEOREM UsesTheMachine == Spec => MachineSpec
<1>1. Init => MachineInit
  BY DEF Init
<1>2. TInv /\ [Next]_vars => [MachineNext]_machineVars
  BY StepOfMachine DEF TInv, IInv, ExecTypes
<1> QED
  BY <1>1, <1>2, TInvInit, TInvStep, PTL DEF Spec, MachineSpec

-----------------------------------------------------------------------------
(* Sequences. *)

\* What is appended comes last, and moves nothing.
LEMMA Appended ==
    ASSUME NEW S, NEW seq \in Seq(S), NEW e
    PROVE  /\ \A i : i \in DOMAIN Append(seq, e) <=> i \in DOMAIN seq \/ i = Len(seq) + 1
           /\ \A i \in DOMAIN seq : Append(seq, e)[i] = seq[i] /\ i < Len(seq) + 1
           /\ Append(seq, e)[Len(seq) + 1] = e
           /\ Len(seq) + 1 \notin DOMAIN seq
  OBVIOUS

\* With the first element taken, the others are one place further to the front.
LEMMA Dropped ==
    ASSUME NEW S, NEW seq \in Seq(S), seq # <<>>
    PROVE  /\ 1 \in DOMAIN seq /\ Head(seq) = seq[1]
           /\ \A i \in DOMAIN Tail(seq) : /\ i + 1 \in DOMAIN seq /\ i + 1 # 1
                                          /\ Tail(seq)[i] = seq[i + 1]
           /\ \A i \in DOMAIN seq : i # 1 => /\ i - 1 \in DOMAIN Tail(seq)
                                             /\ Tail(seq)[i - 1] = seq[i]
           /\ \A i, j \in DOMAIN Tail(seq) : i + 1 = j + 1 => i = j
  OBVIOUS

\* A concatenation holds what its parts hold.
LEMMA Joined ==
    ASSUME NEW S, NEW s \in Seq(S), NEW t \in Seq(S)
    PROVE  /\ \A i \in DOMAIN s : i \in DOMAIN (s \o t) /\ (s \o t)[i] = s[i]
           /\ \A i \in DOMAIN t : Len(s) + i \in DOMAIN (s \o t) /\ (s \o t)[Len(s) + i] = t[i]
           /\ \A i \in DOMAIN (s \o t) :
                 \/ i \in DOMAIN s /\ (s \o t)[i] = s[i]
                 \/ \E j \in DOMAIN t : i = Len(s) + j /\ (s \o t)[i] = t[j]
<1>1. \A i \in DOMAIN (s \o t) : i \in DOMAIN s \/ i - Len(s) \in DOMAIN t
  OBVIOUS
<1> QED
  BY <1>1

\* A set without two elements has one or none.
LEMMA AtMostOne ==
    ASSUME NEW S, \A i, j \in S : i = j
    PROVE  Cardinality(S) <= 1 /\ (Cardinality(S) = 1 <=> S # {})
<1>1. CASE S = {}
  BY <1>1, FS_EmptySet
<1>2. CASE S # {}
  <2>1. PICK i \in S : TRUE
    BY <1>2
  <2>2. S = {i}
    BY <2>1
  <2>3. Cardinality({i}) = 1
    BY FS_Singleton
  <2> QED
    BY <1>2, <2>2, <2>3
<1> QED
  BY <1>1, <1>2

-----------------------------------------------------------------------------
(* The tasks in hand.  Outside of process_tasks there is none; a refusal   *)
(* is alone.                                                               *)

WorkInv ==
    Alive => /\ \A p : p \in tasks <=> \E i \in DOMAIN work : work[i] = [type |-> "Start", pid |-> p]
             /\ \A i, j \in DOMAIN work : work[i] = work[j] => i = j
             /\ \A i \in DOMAIN work : work[i].type = "ConditionFailed" =>
                   work[i].pid \in refused /\ Len(work) = 1

\* The tasks that an end releases: one for each process that it releases.
LEMMA StartsOfReleased ==
    ASSUME TInv, NEW p \in Pid, NEW released \in ReleasedBy(p)
    PROVE  /\ Starts(released) \in Seq(Task)
           /\ \A w : w \in Released(p) <=>
                 \E i \in DOMAIN Starts(released) : Starts(released)[i] = [type |-> "Start", pid |-> w]
           /\ \A i \in DOMAIN Starts(released) : Starts(released)[i].type = "Start"
           /\ \A i, j \in DOMAIN Starts(released) :
                 Starts(released)[i] = Starts(released)[j] => i = j
<1> DEFINE n == 1 .. Cardinality(Released(p))
<1>1. released \in [n -> Released(p)] /\ Released(p) = {released[i] : i \in DOMAIN released}
  BY DEF ReleasedBy
<1>2. Cardinality(Released(p)) \in Nat
  BY ReleasedIsFinite, FS_CardinalityType
<1>3. /\ DOMAIN Starts(released) = n
      /\ \A i \in n : Starts(released)[i] = [type |-> "Start", pid |-> released[i]]
  BY <1>1 DEF Starts
<1>4. ASSUME NEW i \in n, NEW j \in n, released[i] = released[j], i < j
      PROVE  FALSE
  <2>1. PICK k \in DOMAIN check_on_completed[p], l \in DOMAIN check_on_completed[p] :
            /\ k < l /\ check_on_completed[p][k].pid = released[i]
            /\ check_on_completed[p][l].pid = released[j]
    BY <1>1, <1>4 DEF ReleasedBy
  <2>2. k = l
    BY <1>4, <2>1 DEF TInv, IInv, IndexesAgree
  <2>3. k \in Nat
    BY DEF TInv, IInv, TypeOK
  <2> QED
    BY <2>1, <2>2, <2>3
<1>5. ASSUME NEW i \in n, NEW j \in n, released[i] = released[j]
      PROVE  i = j
  <2>1. i \in Nat /\ j \in Nat
    BY <1>2
  <2> QED
    BY <1>4, <1>5, <2>1
<1>6. ASSUME NEW w, w \in Released(p)
      PROVE  \E i \in n : released[i] = w
  BY <1>1, <1>6
<1>7. \A i \in n : released[i] \in Released(p)
  BY <1>1
<1> HIDE DEF n
<1> QED
  BY <1>3, <1>5, <1>6, <1>7, ReleasedAreTasks

\* An end takes its process out of tasks, if it was there, and adds those released.
LEMMA EndsInTasks ==
    ASSUME TInv, NEW p \in Pid, NEW status,
           StartCompleted(p, status) \/ Completed(p, status), panicked' = "no"
    PROVE  /\ \A w : w \in tasks' <=> (w \in tasks /\ w # p) \/ w \in Released(p)
           /\ \A w \in Released(p) : w \notin tasks
           /\ refused' = refused
<1>1. ~ResolvePanics(p, status)
  BY DEF ResolvePanics
<1>2. p \in DOMAIN running => p \notin tasks
  BY DEF TInv, IInv, OneState, TasksAreToRun
<1>3. \A w : w \in tasks' <=> (w \in tasks /\ w # p) \/ w \in Released(p)
  BY <1>1, <1>2 DEF StartCompleted, Completed, Resolve
<1>4. \A w \in Released(p) : w \notin tasks
  BY WaitersAgree DEF TInv, IInv, OneState, TasksAreToRun, Released
<1> QED
  BY <1>3, <1>4 DEF StartCompleted, Completed

\* The first task is acted upon, and nothing is put in its place.
LEMMA TaskTaken ==
    ASSUME WorkInv, Alive, work \in Seq(Task), NEW p, work # <<>>,
           Head(work) = [type |-> "Start", pid |-> p]
    PROVE  /\ \A w : w \in tasks /\ w # p <=>
                 \E i \in DOMAIN Tail(work) : Tail(work)[i] = [type |-> "Start", pid |-> w]
           /\ \A i, j \in DOMAIN Tail(work) : Tail(work)[i] = Tail(work)[j] => i = j
           /\ \A i \in DOMAIN Tail(work) : Tail(work)[i].type = "Start"
<1>1. \A i, j \in DOMAIN Tail(work) : Tail(work)[i] = Tail(work)[j] => i = j
  BY Dropped DEF WorkInv
<1>2. ASSUME NEW i \in DOMAIN Tail(work)
      PROVE  Tail(work)[i].type = "Start"
  <2>1. i + 1 \in DOMAIN work /\ Tail(work)[i] = work[i + 1] /\ work[i + 1] \in Task /\ i + 1 # 1
    BY Dropped, ElementsKeepTypes
  <2>2. work[i + 1].type # "ConditionFailed"
    <3>1. Len(work) = 1 => i + 1 = 1
      BY <2>1
    <3> QED
      BY <2>1, <3>1 DEF WorkInv
  <2> QED
    BY <2>1, <2>2 DEF Task
<1>3. ASSUME NEW w, w \in tasks, w # p
      PROVE  \E i \in DOMAIN Tail(work) : Tail(work)[i] = [type |-> "Start", pid |-> w]
  <2>1. PICK i \in DOMAIN work : work[i] = [type |-> "Start", pid |-> w]
    BY <1>3 DEF WorkInv
  <2>2. i # 1
    <3>1. [type |-> "Start", pid |-> w] # [type |-> "Start", pid |-> p]
      BY <1>3
    <3> QED
      BY <2>1, <3>1, Dropped
  <2>3. i - 1 \in DOMAIN Tail(work) /\ Tail(work)[i - 1] = work[i]
    BY <2>2, Dropped
  <2> QED
    BY <2>1, <2>3
<1>4. ASSUME NEW w, NEW i \in DOMAIN Tail(work), Tail(work)[i] = [type |-> "Start", pid |-> w]
      PROVE  w \in tasks /\ w # p
  <2>1. /\ i + 1 \in DOMAIN work /\ work[i + 1] = [type |-> "Start", pid |-> w]
        /\ 1 \in DOMAIN work /\ work[1] = [type |-> "Start", pid |-> p] /\ i + 1 # 1
    BY <1>4, Dropped
  <2>2. work[i + 1] # work[1]
    BY <2>1 DEF WorkInv
  <2> QED
    BY <2>1, <2>2 DEF WorkInv
<1> QED
  BY <1>1, <1>2, <1>3, <1>4

LEMMA WorkInit == Init => WorkInv
<1> SUFFICES ASSUME Init PROVE WorkInv
  OBVIOUS
<1>1. work = <<>> /\ tasks = {}
  BY DEF Init, MachineInit
<1> QED
  BY <1>1 DEF WorkInv

\* process_tasks is called once for each of the vectors that the machine returns.
LEMMA WorkHandled ==
    ASSUME TInv, WorkInv, Handle
    PROVE  WorkInv'
<1>1. Alive /\ work = <<>>
  BY DEF Handle, HandleEnqueue, HandleCompleted, HandleOpenFile, HandleBeginRead, HandlePipe,
         HandleEditComplete, HandleCancel, Take, Idle
<1>2. \A w : w \notin tasks
  BY <1>1 DEF WorkInv
<1>3. CASE HandleEnqueue
  <2> DEFINE p == Head(chan).pid
  <2>1. Enqueue(p, Head(chan).block_for) /\ p \notin refused
    BY <1>3 DEF HandleEnqueue, Enqueue, TInv, IInv, OneState
  <2>2. \/ tasks' = tasks /\ refused' = refused
        \/ tasks' = tasks /\ refused' = refused \cup {p}
        \/ tasks' = tasks \cup {p} /\ refused' = refused
    BY <2>1 DEF Enqueue, EnqueueRefused, EnqueueUnknown, EnqueueReady, EnqueueBlocked
  <2>3. work' = IF p \in tasks' THEN Starts(<<p>>)
                ELSE IF p \in refused' THEN <<[type |-> "ConditionFailed", pid |-> p]>>
                ELSE <<>>
    BY <1>3 DEF HandleEnqueue
  <2>4. Starts(<<p>>) = <<[type |-> "Start", pid |-> p]>>
    BY DEF Starts
  <2> HIDE DEF p
  <2>5. CASE p \in tasks'
    BY <1>2, <2>2, <2>3, <2>4, <2>5 DEF WorkInv
  <2>6. CASE p \notin tasks' /\ p \in refused'
    BY <1>2, <2>2, <2>3, <2>6 DEF WorkInv
  <2>7. CASE p \notin tasks' /\ p \notin refused'
    BY <1>2, <2>2, <2>3, <2>7 DEF WorkInv
  <2> QED
    BY <2>5, <2>6, <2>7
<1>4. ASSUME NEW p, NEW code, Finish(p, code), panicked' = "no"
      PROVE  WorkInv'
  <2>1. Completed(p, StatusOf(code)) /\ p \in Pid
    BY <1>4 DEF Finish, Completed, TInv, IInv, TypeOK, IsMap
  <2>2. PICK released \in ReleasedBy(p) : work' = Starts(released)
    BY <1>4 DEF Finish
  <2>3. \A w : w \in tasks' <=> w \in Released(p)
    BY <1>2, <1>4, <2>1, EndsInTasks
  <2> QED
    BY <2>1, <2>2, <2>3, StartsOfReleased DEF WorkInv
<1>5. CASE HandleCompleted
  BY <1>4, <1>5 DEF HandleCompleted, WorkInv, Alive
<1>6. CASE HandleEditComplete
  BY <1>1, <1>4, <1>6 DEF HandleEditComplete, WorkInv, Alive
<1>7. CASE HandleOpenFile \/ HandleBeginRead \/ HandlePipe \/ HandleCancel
  <2>1. UNCHANGED <<work, tasks, refused>>
    BY <1>7 DEF HandleOpenFile, HandleBeginRead, HandlePipe, HandleCancel, machineVars
  <2> QED
    BY <1>1, <2>1 DEF WorkInv
<1> QED
  BY <1>3, <1>5, <1>6, <1>7 DEF Handle

LEMMA WorkActedUpon ==
    ASSUME TInv, WorkInv, RunTask
    PROVE  WorkInv'
<1> DEFINE p == Head(work).pid
<1>1. Alive /\ work # <<>> /\ work \in Seq(Task)
  BY DEF RunTask, StartProcess, SpawnFails, RunSetDirectory, RunGetDirectory, BeginEdit,
         EditUnreadable, ReportRefused, ActOnStart, Act, TInv, ExecTypes
<1>2. Head(work) \in Task
  BY <1>1
<1>3. Head(work).type = "Start" => Head(work) = [type |-> "Start", pid |-> p] /\ p \in Pid
  BY <1>2 DEF Task
<1>4. ASSUME Head(work).type = "Start", work' = Tail(work), Start(p, "Running") \/ Start(p, "AwaitingEdit")
      PROVE  WorkInv'
  <2>1. tasks' = tasks \ {p} /\ refused' = refused
    BY <1>4 DEF Start
  <2> QED
    BY <1>1, <1>3, <1>4, <2>1, TaskTaken DEF WorkInv
<1>5. ASSUME NEW status, NEW code, Head(work).type = "Start", EndAtOnce(p, status, code),
             panicked' = "no"
      PROVE  WorkInv'
  <2>1. StartCompleted(p, status)
    BY <1>5 DEF EndAtOnce
  <2>2. PICK released \in ReleasedBy(p) : work' = Tail(work) \o Starts(released)
    BY <1>5 DEF EndAtOnce
  <2> DEFINE t == Tail(work) s == Starts(released)
  <2>3. /\ \A w : w \in tasks' <=> (w \in tasks /\ w # p) \/ w \in Released(p)
        /\ \A w \in Released(p) : w \notin tasks
    BY <1>3, <1>5, <2>1, EndsInTasks
  <2>4. /\ \A w : w \in tasks /\ w # p <=> \E i \in DOMAIN t : t[i] = [type |-> "Start", pid |-> w]
        /\ \A i, j \in DOMAIN t : t[i] = t[j] => i = j
        /\ \A i \in DOMAIN t : t[i].type = "Start"
    BY <1>1, <1>3, <1>5, TaskTaken
  <2>5. /\ s \in Seq(Task)
        /\ \A w : w \in Released(p) <=> \E i \in DOMAIN s : s[i] = [type |-> "Start", pid |-> w]
        /\ \A i \in DOMAIN s : s[i].type = "Start"
        /\ \A i, j \in DOMAIN s : s[i] = s[j] => i = j
    BY <1>3, <1>5, StartsOfReleased
  <2>6. t \in Seq(Task)
    BY <1>1
  <2>7. /\ \A i \in DOMAIN t : i \in DOMAIN work' /\ work'[i] = t[i]
        /\ \A i \in DOMAIN s : Len(t) + i \in DOMAIN work' /\ work'[Len(t) + i] = s[i]
        /\ \A i \in DOMAIN work' : \/ i \in DOMAIN t /\ work'[i] = t[i]
                                   \/ \E j \in DOMAIN s : i = Len(t) + j /\ work'[i] = s[j]
    <3>1. work' = t \o s
      BY <2>2
    <3> HIDE DEF t, s
    <3> QED
      BY <2>5, <2>6, <3>1, Joined
  <2>8. ASSUME NEW i \in DOMAIN t, NEW j \in DOMAIN s
        PROVE  t[i] # s[j]
    <3>1. t[i] \in Task /\ s[j] \in Task /\ t[i].type = "Start" /\ s[j].type = "Start"
      BY <2>4, <2>5, <2>6, ElementsKeepTypes
    <3>2. /\ t[i] = [type |-> "Start", pid |-> t[i].pid]
          /\ s[j] = [type |-> "Start", pid |-> s[j].pid]
      BY <3>1 DEF Task
    <3>3. t[i].pid \in tasks /\ s[j].pid \in Released(p)
      BY <2>4, <2>5, <3>2
    <3> QED
      BY <2>3, <3>3
  <2> HIDE DEF t, s
  <2>9. \A w : w \in tasks' <=> \E i \in DOMAIN work' : work'[i] = [type |-> "Start", pid |-> w]
    BY <2>3, <2>4, <2>5, <2>7
  <2>10. \A i, j \in DOMAIN work' : work'[i] = work'[j] => i = j
    BY <2>4, <2>5, <2>7, <2>8
  <2>11. \A i \in DOMAIN work' : work'[i].type # "ConditionFailed"
    BY <2>4, <2>5, <2>7
  <2> QED
    BY <2>9, <2>10, <2>11 DEF WorkInv
<1>6. CASE StartProcess
  BY <1>4, <1>6 DEF StartProcess, ActOnStart, Act
<1>7. CASE BeginEdit
  BY <1>4, <1>7 DEF BeginEdit, ActOnStart, Act
<1>8. CASE RunSetDirectory \/ RunGetDirectory \/ EditUnreadable
  <2>1. Head(work).type = "Start" /\ \E status, code : EndAtOnce(p, status, code)
    BY <1>8 DEF RunSetDirectory, RunGetDirectory, EditUnreadable, ActOnStart, Act
  <2> QED
    BY <1>5, <2>1 DEF WorkInv, Alive
<1>9. CASE SpawnFails
  <2>1. panicked' # "no" \/ crashed' = "write side taken"
    BY <1>9 DEF SpawnFails
  <2> QED
    BY <2>1 DEF WorkInv, Alive
<1>10. CASE ReportRefused
  <2>1. /\ Head(work).type = "ConditionFailed" /\ work' = Tail(work)
        /\ UNCHANGED <<tasks, refused>>
    BY <1>10 DEF ReportRefused, Act, machineVars
  <2>2. 1 \in DOMAIN work /\ work[1] = Head(work)
    BY <1>1, Dropped
  <2>3. Len(work) = 1
    BY <1>1, <2>1, <2>2 DEF WorkInv
  <2>4. work' = <<>>
    BY <1>1, <2>1, <2>3
  <2>5. \A i \in DOMAIN work : work[i].type = "ConditionFailed"
    BY <1>1, <2>1, <2>2, <2>3
  <2>6. \A w : w \notin tasks
    BY <1>1, <2>5 DEF WorkInv
  <2> QED
    BY <2>1, <2>4, <2>6 DEF WorkInv
<1> QED
  BY <1>6, <1>7, <1>8, <1>9, <1>10 DEF RunTask

LEMMA WorkStep ==
    ASSUME TInv, WorkInv, [Next]_vars
    PROVE  WorkInv'
<1>1. CASE SendRequest \/ \E p \in Pid : Kill(p)
  BY <1>1 DEF SendRequest, Kill, machineVars, WorkInv
<1>2. CASE \E p \in Pid : SendCancel(p) \/ SendEdit(p) \/ ProcessStep(p) \/ LockChild(p) \/ Reap(p)
  BY <1>2 DEF SendCancel, SendEdit, ProcessStep, Writes, Consumes, ExitsWith, LockChild, Reap,
              machineVars, ctlVars, WorkInv
<1>3. CASE \E q \in Pipe : ReaderReads(q) \/ ReaderEnds(q) \/ WriterWrites(q)
  BY <1>3 DEF ReaderReads, ReaderEnds, WriterWrites, machineVars, ctlVars, WorkInv
<1>4. CASE UNCHANGED vars
  BY <1>4 DEF vars, machineVars, ctlVars, WorkInv, Alive
<1> QED
  BY <1>1, <1>2, <1>3, <1>4, WorkHandled, WorkActedUpon DEF Next, Executor

(* The executor has in hand exactly the starts that the machine waits for, each once:   *)
(* of what resolve_tasks releases nothing is dropped and nothing comes twice.           *)
THEOREM StartsInHand == Spec => []TasksInHand
<1>1. TInv /\ WorkInv => TasksInHand
  <2> SUFFICES ASSUME TInv, WorkInv, Alive
               PROVE  /\ tasks = {work[i].pid : i \in {j \in DOMAIN work : work[j].type = "Start"}}
                      /\ \A i, j \in DOMAIN work : work[i] = work[j] => i = j
    BY DEF TasksInHand
  <2>1. \A i \in DOMAIN work : work[i] \in Task
    BY ElementsKeepTypes DEF TInv, ExecTypes
  <2>2. \A i \in DOMAIN work :
           work[i].type = "Start" => work[i] = [type |-> "Start", pid |-> work[i].pid]
    BY <2>1 DEF Task
  <2> QED
    BY <2>2 DEF WorkInv
<1> QED
  BY <1>1, TInvInit, TInvStep, WorkInit, WorkStep, PTL DEF Spec

-----------------------------------------------------------------------------
(* The answers.                                                            *)

\* A result that is sent is one answer more, and the last.
LEMMA AnswerGiven ==
    ASSUME sent \in Seq(Response), NEW p, NEW code, Respond(CommandDone(p, code)), NEW r
    PROVE  /\ \A i : i \in AnswersTo(r)' <=> i \in AnswersTo(r) \/ (r = p /\ i = Len(sent) + 1)
           /\ \A i \in AnswersTo(r) : i < Len(sent) + 1
<1>1. sent' = Append(sent, [type |-> "CommandDone", pid |-> p, code |-> code])
  BY DEF Respond, CommandDone
<1> QED
  BY <1>1, Appended DEF AnswersTo

\* Any other response is none.
LEMMA NoAnswerGiven ==
    ASSUME sent \in Seq(Response), NEW message, Respond(message), message.type # "CommandDone", NEW r
    PROVE  AnswersTo(r)' = AnswersTo(r)
<1>1. \A i : i \in AnswersTo(r)' <=> i \in AnswersTo(r)
  BY Appended DEF AnswersTo, Respond
<1> QED
  BY <1>1 DEF AnswersTo

LEMMA SameAnswers ==
    ASSUME UNCHANGED sent, NEW r
    PROVE  AnswersTo(r)' = AnswersTo(r)
  BY DEF AnswersTo

\* The refusal of p is in hand and has still to be reported.
Pending(p) == \E i \in DOMAIN work : work[i] = [type |-> "ConditionFailed", pid |-> p]

\* Those who may be answered, now or later.
Unanswered(p) == p \in tasks \cup DOMAIN running \/ (p \in refused /\ Pending(p))

AnswerInv ==
    /\ \A p \in Pid : \A i, j \in AnswersTo(p) : i = j
    /\ Alive => \A p \in Pid :
          AnswersTo(p) # {} <=> p \in DOMAIN finished \/ (p \in refused /\ ~Pending(p))

LEMMA AnswerInit == Init => AnswerInv
<1> SUFFICES ASSUME Init PROVE AnswerInv
  OBVIOUS
<1>1. \A p : AnswersTo(p) = {} /\ p \notin DOMAIN finished /\ p \notin refused
  BY DEF Init, MachineInit, EmptyMap, AnswersTo
<1> QED
  BY <1>1 DEF AnswerInv

\* No step answers a process other than one that may be answered.
LEMMA AnswerSteps ==
    ASSUME TInv, WorkInv, [Next]_vars
    PROVE  \/ \A r : AnswersTo(r)' = AnswersTo(r)
           \/ \E p \in Pid : /\ Alive /\ Unanswered(p)
                             /\ \A r, i : i \in AnswersTo(r)' <=>
                                   i \in AnswersTo(r) \/ (r = p /\ i = Len(sent) + 1)
<1> DEFINE Given == \E p \in Pid : /\ Alive /\ Unanswered(p)
                                   /\ \A r, i : i \in AnswersTo(r)' <=>
                                         i \in AnswersTo(r) \/ (r = p /\ i = Len(sent) + 1)
<1>1. sent \in Seq(Response)
  BY DEF TInv, ExecTypes
<1>2. ASSUME NEW p, NEW code, Respond(CommandDone(p, code)), Alive, Unanswered(p)
      PROVE  Given
  <2>1. p \in Pid
    BY <1>2 DEF Unanswered, TInv, IInv, TypeOK, IsMap
  <2> QED
    BY <1>1, <1>2, <2>1, AnswerGiven
<1> HIDE DEF Given
<1>3. ASSUME NEW p, NEW code, Alive, Finish(p, code)
      PROVE  Given
  BY <1>2, <1>3 DEF Finish, Completed, Unanswered
<1>4. ASSUME NEW p, NEW status, NEW code, Alive, EndAtOnce(p, status, code)
      PROVE  Given \/ UNCHANGED sent
  BY <1>2, <1>4 DEF EndAtOnce, StartCompleted, Unanswered
<1>5. ASSUME ReportRefused PROVE Given
  <2> DEFINE p == Head(work).pid
  <2>1. /\ Alive /\ work # <<>> /\ work \in Seq(Task) /\ Head(work).type = "ConditionFailed"
        /\ Respond(CommandDone(p, "1"))
    BY <1>5 DEF ReportRefused, Act, TInv, ExecTypes
  <2>2. 1 \in DOMAIN work /\ work[1] = Head(work) /\ work[1] \in Task
    BY <2>1, Dropped, ElementsKeepTypes
  <2>3. work[1] = [type |-> "ConditionFailed", pid |-> p]
    BY <2>1, <2>2 DEF Task
  <2>4. p \in refused
    BY <2>1, <2>2 DEF WorkInv
  <2>5. Unanswered(p)
    BY <2>2, <2>3, <2>4 DEF Unanswered, Pending
  <2> QED
    BY <1>2, <2>1, <2>5
<1>6. CASE Handle
  <2>1. ASSUME HandlePipe PROVE \A r : AnswersTo(r)' = AnswersTo(r)
    BY <1>1, <2>1, NoAnswerGiven DEF HandlePipe
  <2>2. ASSUME HandleCompleted \/ HandleEditComplete PROVE Given \/ UNCHANGED sent
    BY <1>3, <2>2 DEF HandleCompleted, HandleEditComplete, Take, Idle
  <2>3. ASSUME HandleEnqueue \/ HandleOpenFile \/ HandleBeginRead \/ HandleCancel PROVE UNCHANGED sent
    BY <2>3 DEF HandleEnqueue, HandleOpenFile, HandleBeginRead, HandleCancel
  <2> QED
    BY <1>6, <2>1, <2>2, <2>3, SameAnswers DEF Handle, Given
<1>7. CASE RunTask
  <2>1. ASSUME BeginEdit PROVE \A r : AnswersTo(r)' = AnswersTo(r)
    BY <1>1, <2>1, NoAnswerGiven DEF BeginEdit
  <2>2. ASSUME RunSetDirectory \/ RunGetDirectory \/ EditUnreadable PROVE Given \/ UNCHANGED sent
    BY <1>4, <2>2 DEF RunSetDirectory, RunGetDirectory, EditUnreadable, ActOnStart, Act
  <2>3. ASSUME StartProcess \/ SpawnFails PROVE UNCHANGED sent
    BY <2>3 DEF StartProcess, SpawnFails
  <2> QED
    BY <1>5, <1>7, <2>1, <2>2, <2>3, SameAnswers DEF RunTask, Given
<1>8. CASE SendRequest \/ \E p \in Pid : Kill(p)
  BY <1>8, SameAnswers DEF SendRequest, Kill
<1>9. CASE \E p \in Pid : SendCancel(p) \/ SendEdit(p) \/ ProcessStep(p) \/ LockChild(p) \/ Reap(p)
  BY <1>9, SameAnswers DEF SendCancel, SendEdit, ProcessStep, Writes, Consumes, ExitsWith,
                           LockChild, Reap, ctlVars
<1>10. CASE \E q \in Pipe : ReaderReads(q) \/ ReaderEnds(q) \/ WriterWrites(q)
  BY <1>10, SameAnswers DEF ReaderReads, ReaderEnds, WriterWrites, ctlVars
<1>11. CASE UNCHANGED vars
  BY <1>11, SameAnswers DEF vars, ctlVars
<1> QED
  BY <1>6, <1>7, <1>8, <1>9, <1>10, <1>11 DEF Next, Executor, Given

\* Where the answers, the tasks and the machine's results stay, so does their agreement.
LEMMA SameAgreement ==
    ASSUME AnswerInv, Alive' => Alive, UNCHANGED <<sent, work, finished, refused>>
    PROVE  AnswerInv'
<1>1. \A r : AnswersTo(r)' = AnswersTo(r) /\ (Pending(r)' <=> Pending(r))
  BY SameAnswers DEF Pending
<1> QED
  BY <1>1 DEF AnswerInv

\* Those who may be answered have not been.
LEMMA NotYetAnswered ==
    ASSUME TInv, AnswerInv, Alive, NEW p \in Pid, Unanswered(p)
    PROVE  AnswersTo(p) = {}
<1>1. p \notin DOMAIN finished /\ (p \in refused => Pending(p))
  BY DEF Unanswered, TInv, IInv, OneState, TasksAreToRun
<1> QED
  BY <1>1 DEF AnswerInv

\* A command is never answered twice.
LEMMA AnswersUnique ==
    ASSUME TInv, WorkInv, AnswerInv, [Next]_vars
    PROVE  \A p \in Pid : \A i, j \in AnswersTo(p)' : i = j
<1>1. CASE \A r : AnswersTo(r)' = AnswersTo(r)
  BY <1>1 DEF AnswerInv
<1>2. ASSUME NEW p \in Pid, Alive, Unanswered(p),
             \A r, i : i \in AnswersTo(r)' <=> i \in AnswersTo(r) \/ (r = p /\ i = Len(sent) + 1)
      PROVE  \A r \in Pid : \A i, j \in AnswersTo(r)' : i = j
  <2>1. AnswersTo(p) = {}
    BY <1>2, NotYetAnswered
  <2> QED
    BY <1>2, <2>1 DEF AnswerInv
<1> QED
  BY <1>1, <1>2, AnswerSteps

\* An end is answered, and the tasks that it leaves are starts.
LEMMA EndAnswered ==
    ASSUME TInv, AnswerInv, Alive, \A p \in Pid : \A i, j \in AnswersTo(p)' : i = j,
           \A r : ~Pending(r), \A r : ~Pending(r)',
           NEW p \in Pid, NEW status, NEW code,
           Completed(p, status) \/ StartCompleted(p, status), panicked' = "no",
           Respond(CommandDone(p, code))
    PROVE  AnswerInv'
<1>1. sent \in Seq(Response)
  BY DEF TInv, ExecTypes
<1>2. \A r, i : i \in AnswersTo(r)' <=> i \in AnswersTo(r) \/ (r = p /\ i = Len(sent) + 1)
  BY <1>1, AnswerGiven
<1>3. \A r : AnswersTo(r)' # {} <=> AnswersTo(r) # {} \/ r = p
  BY <1>2
<1>4. ~ResolvePanics(p, status)
  BY DEF ResolvePanics
<1>5. finished' = Put(finished, p, status) /\ refused' = refused
  BY <1>4 DEF Completed, StartCompleted, Resolve
<1>6. \A r : r \in DOMAIN finished' <=> r \in DOMAIN finished \/ r = p
  BY <1>5, PutIsMap
<1> QED
  BY <1>3, <1>5, <1>6 DEF AnswerInv

LEMMA AnswerHandled ==
    ASSUME TInv, WorkInv, AnswerInv, Handle, WorkInv',
           \A p \in Pid : \A i, j \in AnswersTo(p)' : i = j
    PROVE  AnswerInv'
<1>1. Alive /\ work = <<>>
  BY DEF Handle, HandleEnqueue, HandleCompleted, HandleOpenFile, HandleBeginRead, HandlePipe,
         HandleEditComplete, HandleCancel, Take, Idle
<1>2. \A r : ~Pending(r)
  BY <1>1 DEF Pending
<1>3. CASE HandleEnqueue
  <2> DEFINE p == Head(chan).pid
  <2>1. Enqueue(p, Head(chan).block_for) /\ p \notin refused /\ UNCHANGED sent
    BY <1>3 DEF HandleEnqueue, Enqueue, TInv, IInv, OneState
  <2>2. /\ finished' = finished
        /\ \/ refused' = refused
           \/ tasks' = tasks /\ refused' = refused \cup {p}
    BY <2>1 DEF Enqueue, EnqueueRefused, EnqueueUnknown, EnqueueReady, EnqueueBlocked
  <2>3. p \notin tasks
    BY <1>1 DEF WorkInv
  <2>4. work' = IF p \in tasks' THEN Starts(<<p>>)
                ELSE IF p \in refused' THEN <<[type |-> "ConditionFailed", pid |-> p]>>
                ELSE <<>>
    BY <1>3 DEF HandleEnqueue
  <2>5. Starts(<<p>>) = <<[type |-> "Start", pid |-> p]>>
    BY DEF Starts
  <2> HIDE DEF p
  <2>6. \A r : AnswersTo(r)' = AnswersTo(r)
    BY <2>1, SameAnswers
  <2>7. \A r : r \in refused' /\ ~Pending(r)' <=> r \in refused
    <3>1. CASE refused' = refused
      <4>1. \A r \in refused : ~Pending(r)'
        BY <2>1, <2>4, <2>5, <3>1 DEF Pending
      <4> QED
        BY <3>1, <4>1
    <3>2. CASE tasks' = tasks /\ refused' = refused \cup {p}
      <4>1. work' = <<[type |-> "ConditionFailed", pid |-> p]>>
        BY <2>3, <2>4, <3>2
      <4>2. \A r : Pending(r)' <=> r = p
        BY <4>1 DEF Pending
      <4> QED
        BY <2>1, <3>2, <4>2
    <3> QED
      BY <2>2, <3>1, <3>2
  <2> QED
    BY <1>1, <1>2, <2>2, <2>6, <2>7 DEF AnswerInv
<1>4. ASSUME NEW p, NEW code, Finish(p, code)
      PROVE  AnswerInv'
  <2>1. /\ Completed(p, StatusOf(code)) /\ p \in Pid
        /\ Respond(CommandDone(p, code))
    BY <1>4 DEF Finish, Completed, TInv, IInv, TypeOK, IsMap
  <2>2. PICK released \in ReleasedBy(p) : work' = Starts(released)
    BY <1>4 DEF Finish
  <2>3. \A r : ~Pending(r)'
    BY <2>1, <2>2, StartsOfReleased DEF Pending
  <2>4. CASE panicked' = "no"
    BY <1>1, <1>2, <2>1, <2>3, <2>4, EndAnswered
  <2>5. CASE panicked' # "no"
    BY <2>5 DEF AnswerInv, Alive
  <2> QED
    BY <2>4, <2>5
<1>5. CASE HandleCompleted
  BY <1>4, <1>5 DEF HandleCompleted
<1>6. CASE HandleEditComplete
  <2>1. ASSUME crashed' = "save edit" PROVE AnswerInv'
    BY <2>1 DEF AnswerInv, Alive
  <2> QED
    BY <1>4, <1>6, <2>1 DEF HandleEditComplete
<1>7. CASE HandlePipe
  <2>1. \A r : AnswersTo(r)' = AnswersTo(r)
    BY <1>7, NoAnswerGiven DEF HandlePipe, TInv, ExecTypes
  <2>2. \A r : Pending(r)' <=> Pending(r)
    BY <1>7 DEF HandlePipe, Pending
  <2> QED
    BY <1>1, <1>7, <2>1, <2>2 DEF HandlePipe, machineVars, AnswerInv
<1>8. CASE HandleOpenFile \/ HandleBeginRead \/ HandleCancel
  BY <1>1, <1>8, SameAgreement DEF HandleOpenFile, HandleBeginRead, HandleCancel, machineVars
<1> QED
  BY <1>3, <1>5, <1>6, <1>7, <1>8 DEF Handle

LEMMA AnswerActedUpon ==
    ASSUME TInv, WorkInv, AnswerInv, RunTask, WorkInv',
           \A p \in Pid : \A i, j \in AnswersTo(p)' : i = j
    PROVE  AnswerInv'
<1> DEFINE p == Head(work).pid
<1>1. Alive /\ work # <<>> /\ work \in Seq(Task)
  BY DEF RunTask, StartProcess, SpawnFails, RunSetDirectory, RunGetDirectory, BeginEdit,
         EditUnreadable, ReportRefused, ActOnStart, Act, TInv, ExecTypes
<1>2. 1 \in DOMAIN work /\ work[1] = Head(work) /\ Head(work) \in Task /\ p \in Pid
  <2>1. Head(work) \in Task
    BY <1>1
  <2> QED
    BY <1>1, <2>1, Dropped DEF Task
<1>3. Head(work).type = "Start" => Head(work) = [type |-> "Start", pid |-> p]
  BY <1>2 DEF Task
<1>4. ASSUME Head(work).type = "Start"
      PROVE  /\ \A i \in DOMAIN Tail(work) : Tail(work)[i].type = "Start"
             /\ \A r : ~Pending(r)
  <2>1. \A i \in DOMAIN Tail(work) : Tail(work)[i].type = "Start"
    BY <1>1, <1>3, <1>4, TaskTaken
  <2>2. ASSUME NEW i \in DOMAIN work PROVE work[i].type = "Start"
    <3>1. CASE i = 1
      BY <1>2, <1>4, <3>1
    <3>2. CASE i # 1
      <4>1. i - 1 \in DOMAIN Tail(work) /\ Tail(work)[i - 1] = work[i]
        BY <1>1, <3>2, Dropped
      <4> QED
        BY <2>1, <4>1
    <3> QED
      BY <3>1, <3>2
  <2> QED
    BY <2>1, <2>2 DEF Pending
<1>5. ASSUME NEW status, NEW code, Head(work).type = "Start", EndAtOnce(p, status, code)
      PROVE  AnswerInv'
  <2>1. PICK released \in ReleasedBy(p) : work' = Tail(work) \o Starts(released)
    BY <1>5 DEF EndAtOnce
  <2>2. /\ Starts(released) \in Seq(Task)
        /\ \A i \in DOMAIN Starts(released) : Starts(released)[i].type = "Start"
    BY <1>2, StartsOfReleased
  <2>3. Tail(work) \in Seq(Task)
    BY <1>1
  <2>4. \A r : ~Pending(r)'
    <3>1. \A i \in DOMAIN (Tail(work) \o Starts(released)) :
             (Tail(work) \o Starts(released))[i].type = "Start"
      BY <1>4, <1>5, <2>2, <2>3, Joined
    <3> QED
      BY <2>1, <3>1 DEF Pending
  <2>5. CASE panicked' = "no"
    BY <1>1, <1>2, <1>4, <1>5, <2>4, <2>5, EndAnswered DEF EndAtOnce
  <2>6. CASE panicked' # "no"
    BY <2>6 DEF AnswerInv, Alive
  <2> QED
    BY <2>5, <2>6
<1>6. ASSUME Head(work).type = "Start", work' = Tail(work),
             \A r : AnswersTo(r)' = AnswersTo(r), UNCHANGED <<finished, refused>>
      PROVE  AnswerInv'
  <2>1. \A r : ~Pending(r) /\ ~Pending(r)'
    BY <1>4, <1>6 DEF Pending
  <2> QED
    BY <1>1, <1>6, <2>1 DEF AnswerInv
<1>7. CASE StartProcess
  BY <1>6, <1>7, SameAnswers DEF StartProcess, ActOnStart, Act, Start
<1>8. CASE BeginEdit
  <2>1. \A r : AnswersTo(r)' = AnswersTo(r)
    BY <1>8, NoAnswerGiven DEF BeginEdit, TInv, ExecTypes
  <2> QED
    BY <1>6, <1>8, <2>1 DEF BeginEdit, ActOnStart, Act, Start
<1>9. CASE RunSetDirectory \/ RunGetDirectory \/ EditUnreadable
  <2>1. Head(work).type = "Start" /\ \E status, code : EndAtOnce(p, status, code)
    BY <1>9 DEF RunSetDirectory, RunGetDirectory, EditUnreadable, ActOnStart, Act
  <2> QED
    BY <1>5, <2>1
<1>10. CASE SpawnFails
  <2>1. panicked' # "no" \/ crashed' = "write side taken"
    BY <1>10 DEF SpawnFails
  <2> QED
    BY <2>1 DEF AnswerInv, Alive
<1>11. CASE ReportRefused
  <2>1. /\ Head(work).type = "ConditionFailed" /\ work' = Tail(work)
        /\ UNCHANGED <<finished, refused>> /\ Respond(CommandDone(p, "1"))
    BY <1>11 DEF ReportRefused, Act, machineVars
  <2>2. Len(work) = 1 /\ p \in refused
    BY <1>1, <1>2, <2>1 DEF WorkInv
  <2>3. work' = <<>> /\ \A r : ~Pending(r)'
    BY <1>1, <2>1, <2>2 DEF Pending
  <2>4. \A r : Pending(r) <=> r = p
    <3>1. DOMAIN work = {1} /\ work[1] = [type |-> "ConditionFailed", pid |-> p]
      BY <1>1, <1>2, <2>1, <2>2 DEF Task
    <3> QED
      BY <3>1 DEF Pending
  <2>5. \A r, i : i \in AnswersTo(r)' <=> i \in AnswersTo(r) \/ (r = p /\ i = Len(sent) + 1)
    BY <2>1, AnswerGiven DEF TInv, ExecTypes
  <2>6. \A r : AnswersTo(r)' # {} <=> AnswersTo(r) # {} \/ r = p
    BY <2>5
  <2> QED
    BY <1>1, <2>1, <2>2, <2>3, <2>4, <2>6 DEF AnswerInv
<1> QED
  BY <1>7, <1>8, <1>9, <1>10, <1>11 DEF RunTask

LEMMA AnswerStep ==
    ASSUME TInv, WorkInv, AnswerInv, [Next]_vars
    PROVE  AnswerInv'
<1>1. WorkInv' /\ \A p \in Pid : \A i, j \in AnswersTo(p)' : i = j
  BY WorkStep, AnswersUnique
<1>2. CASE SendRequest \/ \E p \in Pid : Kill(p)
  BY <1>2, SameAgreement DEF SendRequest, Kill, machineVars
<1>3. CASE \E p \in Pid : SendCancel(p) \/ SendEdit(p) \/ ProcessStep(p) \/ LockChild(p) \/ Reap(p)
  BY <1>3, SameAgreement DEF SendCancel, SendEdit, ProcessStep, Writes, Consumes, ExitsWith,
                             LockChild, Reap, machineVars, ctlVars
<1>4. CASE \E q \in Pipe : ReaderReads(q) \/ ReaderEnds(q) \/ WriterWrites(q)
  BY <1>4, SameAgreement DEF ReaderReads, ReaderEnds, WriterWrites, machineVars, ctlVars
<1>5. CASE UNCHANGED vars
  BY <1>5, SameAgreement DEF vars, machineVars, ctlVars, Alive
<1> QED
  BY <1>1, <1>2, <1>3, <1>4, <1>5, AnswerHandled, AnswerActedUpon DEF Next, Executor

(* Every command that the machine counts as finished or refused is answered, once, and  *)
(* no other is, whatever completes, is saved or is cancelled late.                      *)
THEOREM OneAnswerEach == Spec => []AnsweredOnce
<1>1. TInv /\ AnswerInv => AnsweredOnce
  <2> SUFFICES ASSUME TInv, AnswerInv PROVE AnsweredOnce
    OBVIOUS
  <2>1. ASSUME NEW p \in Pid PROVE Cardinality(AnswersTo(p)) <= 1
    <3>1. \A i, j \in AnswersTo(p) : i = j
      BY DEF AnswerInv
    <3> QED
      BY <3>1, AtMostOne
  <2>2. \A p : Pending(p) <=> Places(work, [type |-> "ConditionFailed", pid |-> p]) # {}
    BY DEF Pending, Places
  <2>3. DOMAIN finished \subseteq Pid /\ refused \subseteq Pid
    BY DEF TInv, IInv, TypeOK, IsMap
  <2> QED
    BY <2>1, <2>2, <2>3 DEF AnswerInv, AnsweredOnce, Answered
<1> QED
  BY <1>1, TInvInit, TInvStep, WorkInit, WorkStep, AnswerInit, AnswerStep, PTL DEF Spec

-----------------------------------------------------------------------------
(* The order of the answers.                                               *)

\* What a process was enqueued with stays, and so does its refusal.
LEMMA AskedStays ==
    ASSUME TInv, [Next]_vars
    PROVE  /\ \A p \in DOMAIN asked : p \in DOMAIN asked' /\ asked'[p] = asked[p]
           /\ refused \subseteq refused'
<1>1. [MachineNext]_machineVars
  BY StepOfMachine DEF TInv, IInv, ExecTypes
<1>2. ASSUME NEW p, NEW block_for, Enqueue(p, block_for)
      PROVE  /\ \A q \in DOMAIN asked : q \in DOMAIN asked' /\ asked'[q] = asked[q]
             /\ refused \subseteq refused'
  <2>1. p \notin DOMAIN asked
    BY <1>2 DEF Enqueue
  <2>2. (asked' = asked \/ asked' = Put(asked, p, block_for)) /\ refused \subseteq refused'
    BY <1>2 DEF Enqueue, EnqueueRefused, EnqueueUnknown, EnqueueReady, EnqueueBlocked
  <2> QED
    BY <2>1, <2>2, PutIsMap
<1>3. ASSUME NEW p, NEW status, NEW state,
             Start(p, state) \/ StartCompleted(p, status) \/ Completed(p, status)
      PROVE  UNCHANGED <<asked, refused>>
  BY <1>3 DEF Start, StartCompleted, Completed
<1> QED
  BY <1>1, <1>2, <1>3 DEF MachineNext, machineVars

\* After a panic of the executor nothing moves.
LEMMA StoppedForGood ==
    ASSUME [Next]_vars
    PROVE  Alive \/ UNCHANGED vars
  BY DEF Next, Executor, Handle, RunTask, SendRequest, SendCancel, SendEdit, ProcessStep, Writes,
         Consumes, ExitsWith, LockChild, Reap, ReaderReads, ReaderEnds, WriterWrites, Kill,
         HandleEnqueue, HandleCompleted, HandleOpenFile, HandleBeginRead, HandlePipe,
         HandleEditComplete, HandleCancel, Take, Idle, StartProcess, SpawnFails, RunSetDirectory,
         RunGetDirectory, BeginEdit, EditUnreadable, ReportRefused, ActOnStart, Act

\* A process that runs ran before the step, or was about to.
LEMMA RunningWasToRun ==
    ASSUME TInv, [Next]_vars, NEW p \in DOMAIN running'
    PROVE  p \in DOMAIN running \/ (Alive /\ p \in to_run)
<1>1. [MachineNext]_machineVars
  BY StepOfMachine DEF TInv, IInv, ExecTypes
<1>2. Alive \/ UNCHANGED vars
  BY StoppedForGood
<1>3. ASSUME NEW r, NEW block_for, Enqueue(r, block_for) PROVE running' = running
  BY <1>3 DEF Enqueue, EnqueueRefused, EnqueueUnknown, EnqueueReady, EnqueueBlocked
<1>4. ASSUME NEW r, NEW state, Start(r, state) PROVE p \in DOMAIN running \/ p \in to_run
  <2>1. r \in to_run /\ running' = Put(running, r, state)
    BY <1>4 DEF Start, TInv, IInv, TasksAreToRun
  <2> QED
    BY <2>1, PutIsMap
<1>5. ASSUME NEW r, NEW status, StartCompleted(r, status) \/ Completed(r, status)
      PROVE  p \in DOMAIN running
  <2>1. running' = running \/ running' = Remove(running, r)
    BY <1>5 DEF StartCompleted, Completed, ResolvePanics
  <2> QED
    BY <2>1, RemoveIsMap
<1> QED
  BY <1>1, <1>2, <1>3, <1>4, <1>5 DEF MachineNext, machineVars, vars

\* What a process that may run waited for has been answered.
LEMMA PrerequisitesAnswered ==
    ASSUME TInv, AnswerInv, Alive, NEW p \in to_run \cup DOMAIN running
    PROVE  DOMAIN asked[p] \subseteq Answered
<1>1. DOMAIN asked[p] \subseteq DOMAIN finished
  BY DEF TInv, IInv, NoneStartsEarly
<1>2. DOMAIN finished \subseteq Pid
  BY DEF TInv, IInv, TypeOK, IsMap
<1> QED
  BY <1>1, <1>2 DEF AnswerInv, Answered

LEMMA OrderInit == Init => AnsweredInOrder
  BY DEF Init, MachineInit, EmptyMap, AnsweredInOrder

LEMMA OrderStep ==
    ASSUME TInv, WorkInv, AnswerInv, AnsweredInOrder, [Next]_vars
    PROVE  AnsweredInOrder'
<1>1. IInv' /\ AnswerInv'
  BY MachinePart, AnswerStep
<1>2. \A r : AnswersTo(r) \subseteq AnswersTo(r)'
  BY AnswerSteps
<1>3. Answered \subseteq Answered'
  BY <1>2 DEF Answered
<1>4. ASSUME NEW p \in DOMAIN running'
      PROVE  DOMAIN asked'[p] \subseteq Answered'
  <2>1. p \in DOMAIN running \/ (Alive /\ p \in to_run)
    BY <1>4, RunningWasToRun
  <2>2. p \in DOMAIN asked
    BY <2>1 DEF TInv, IInv, OneState
  <2>3. DOMAIN asked[p] \subseteq Answered
    BY <2>1, PrerequisitesAnswered DEF AnsweredInOrder
  <2> QED
    BY <1>3, <2>2, <2>3, AskedStays
<1>5. ASSUME NEW p \in DOMAIN finished', NEW q \in DOMAIN asked'[p], NEW i \in AnswersTo(p)'
      PROVE  \E j \in AnswersTo(q)' : j < i
  <2>1. p \in Pid /\ p \notin refused
    BY <1>1, AskedStays DEF IInv, OneState, TypeOK, IsMap
  <2>2. CASE i \in AnswersTo(p)
    <3>1. p \in DOMAIN finished
      <4>1. CASE Alive
        BY <2>1, <2>2, <4>1 DEF AnswerInv
      <4>2. CASE ~Alive
        BY <4>2, StoppedForGood DEF vars, machineVars
      <4> QED
        BY <4>1, <4>2
    <3>2. p \in DOMAIN asked
      BY <3>1 DEF TInv, IInv, OneState
    <3>3. asked'[p] = asked[p]
      BY <3>2, AskedStays
    <3> QED
      BY <1>2, <2>2, <3>1, <3>3 DEF AnsweredInOrder
  <2>3. CASE i \notin AnswersTo(p)
    <3>1. Alive /\ Unanswered(p) /\ i = Len(sent) + 1
      BY <2>3, AnswerSteps
    <3>2. p \in to_run \cup DOMAIN running
      BY <2>1, <3>1 DEF Unanswered, TInv, IInv, TasksAreToRun
    <3>3. p \in DOMAIN asked
      BY <3>2 DEF TInv, IInv, OneState
    <3>4. q \in Answered
      BY <3>1, <3>2, <3>3, PrerequisitesAnswered, AskedStays
    <3>5. PICK j \in AnswersTo(q) : TRUE
      BY <3>4 DEF Answered
    <3>6. j \in DOMAIN sent /\ sent \in Seq(Response)
      BY <3>5 DEF AnswersTo, TInv, ExecTypes
    <3>7. j < Len(sent) + 1
      BY <3>6
    <3> QED
      BY <1>2, <3>1, <3>5, <3>7
  <2> QED
    BY <2>2, <2>3
<1> QED
  BY <1>4, <1>5 DEF AnsweredInOrder

(* Whatever a command waited for is answered before it runs, and its own answer comes    *)
(* after those: the frontend never sees a later command of a chain done first.           *)
THEOREM AnswersInOrder == Spec => []AnsweredInOrder
  BY TInvInit, TInvStep, WorkInit, WorkStep, AnswerInit, AnswerStep, OrderInit, OrderStep,
     PTL DEF Spec

-----------------------------------------------------------------------------
(* What is on its way to the executor: completions, and edits that the     *)
(* user has saved.                                                         *)

EditSaved(p) == [type |-> "EditComplete", pid |-> p]
Coming(p) == Completions(p) # {}
Saved(p) == Places(chan, EditSaved(p)) # {}
Requested(p) == \E i \in DOMAIN sent : sent[i] = [type |-> "EditRequest", pid |-> p]

Once == \A p \in Pid : /\ \A i, j \in Completions(p) : i = j
                       /\ \A i, j \in Places(chan, EditSaved(p)) : i = j

\* Every process that runs, and every edit, is awaited by someone who will report its end.
RunInv ==
    Alive => /\ Once
             /\ \A p \in Pid :
                  /\ p \in DOMAIN running /\ running[p] = "Running"
                        <=> waiter[p] \in {"spawned", "waiting"} \/ Coming(p)
                  /\ Coming(p) => waiter[p] = "done"
                  /\ p \in waiting_edits <=> p \in DOMAIN running /\ running[p] = "AwaitingEdit"
                  /\ Saved(p) => p \in waiting_edits /\ p \in answers
                  /\ Requested(p) => p \in waiting_edits \/ p \in answers

\* An event that says that p is done.
Completes(event, p) == event.type = "Completed" /\ event.pid = p

LEMMA ChanAppended ==
    ASSUME chan \in Seq(Event), NEW event \in Event, chan' = Append(chan, event), Once,
           \A r : Completes(event, r) => ~Coming(r),
           \A r : event = EditSaved(r) => ~Saved(r)
    PROVE  /\ Once'
           /\ \A r : Coming(r)' <=> Coming(r) \/ Completes(event, r)
           /\ \A r : Saved(r)' <=> Saved(r) \/ event = EditSaved(r)
<1>1. \A r, i : /\ i \in Completions(r)' <=>
                      i \in Completions(r) \/ (Completes(event, r) /\ i = Len(chan) + 1)
                /\ i \in Places(chan, EditSaved(r))' <=>
                      i \in Places(chan, EditSaved(r)) \/ (event = EditSaved(r) /\ i = Len(chan) + 1)
  BY Appended DEF Completions, Places, Completes, EditSaved
<1>2. ASSUME NEW r
      PROVE  /\ Coming(r)' <=> Coming(r) \/ Completes(event, r)
             /\ Saved(r)' <=> Saved(r) \/ event = EditSaved(r)
  BY <1>1 DEF Coming, Saved
<1>3. ASSUME NEW r \in Pid, NEW i \in Completions(r)', NEW j \in Completions(r)'
      PROVE  i = j
  BY <1>1, <1>3 DEF Once, Coming
<1>4. ASSUME NEW r \in Pid, NEW i \in Places(chan, EditSaved(r))', NEW j \in Places(chan, EditSaved(r))'
      PROVE  i = j
  BY <1>1, <1>4 DEF Once, Saved
<1> QED
  BY <1>2, <1>3, <1>4 DEF Once

LEMMA ChanTaken ==
    ASSUME chan \in Seq(Event), chan # <<>>, chan' = Tail(chan), Once
    PROVE  /\ Once'
           /\ \A r \in Pid : Coming(r)' <=> Coming(r) /\ ~Completes(Head(chan), r)
           /\ \A r \in Pid : Saved(r)' <=> Saved(r) /\ Head(chan) # EditSaved(r)
<1>1. /\ 1 \in DOMAIN chan /\ Head(chan) = chan[1]
      /\ \A i \in DOMAIN chan' : i + 1 \in DOMAIN chan /\ i + 1 # 1 /\ chan'[i] = chan[i + 1]
      /\ \A i \in DOMAIN chan : i # 1 => i - 1 \in DOMAIN chan' /\ chan'[i - 1] = chan[i]
      /\ \A i, j \in DOMAIN chan' : i + 1 = j + 1 => i = j
  BY Dropped
<1>2. \A r : /\ \A i \in Completions(r)' : i \in DOMAIN chan' /\ i + 1 \in Completions(r) /\ i + 1 # 1
             /\ \A i \in Completions(r) : i # 1 => i - 1 \in Completions(r)'
             /\ 1 \in Completions(r) <=> Completes(Head(chan), r)
  BY <1>1 DEF Completions, Completes
<1>3. \A r : /\ \A i \in Places(chan, EditSaved(r))' :
                   i \in DOMAIN chan' /\ i + 1 \in Places(chan, EditSaved(r)) /\ i + 1 # 1
             /\ \A i \in Places(chan, EditSaved(r)) : i # 1 => i - 1 \in Places(chan, EditSaved(r))'
             /\ 1 \in Places(chan, EditSaved(r)) <=> Head(chan) = EditSaved(r)
  BY <1>1 DEF Places, EditSaved
<1>4. Once'
  BY <1>1, <1>2, <1>3 DEF Once
<1>5. ASSUME NEW r \in Pid
      PROVE  Coming(r)' <=> Coming(r) /\ ~Completes(Head(chan), r)
  BY <1>2 DEF Once, Coming
<1>6. ASSUME NEW r \in Pid
      PROVE  Saved(r)' <=> Saved(r) /\ Head(chan) # EditSaved(r)
  BY <1>3 DEF Once, Saved
<1> QED
  BY <1>4, <1>5, <1>6

LEMMA SameEvents ==
    ASSUME UNCHANGED chan
    PROVE  /\ Once' <=> Once
           /\ \A r : (Coming(r)' <=> Coming(r)) /\ (Saved(r)' <=> Saved(r))
  BY DEF Once, Coming, Saved, Completions, Places, EditSaved

\* A request to edit is there once it has been sent.
LEMMA RequestSent ==
    ASSUME sent \in Seq(Response), NEW message, Respond(message), NEW r
    PROVE  Requested(r)' <=> Requested(r) \/ message = [type |-> "EditRequest", pid |-> r]
  BY Appended DEF Respond, Requested

LEMMA SameRequests ==
    ASSUME UNCHANGED sent, NEW r
    PROVE  Requested(r)' <=> Requested(r)
  BY DEF Requested

LEMMA RunInit == Init => RunInv
<1> SUFFICES ASSUME Init PROVE RunInv
  OBVIOUS
<1>1. /\ chan = <<>> /\ sent = <<>> /\ waiting_edits = {} /\ DOMAIN running = {}
      /\ \A p \in Pid : waiter[p] = "none"
  BY DEF Init, MachineInit, EmptyMap
<1>2. \A p : Completions(p) = {} /\ Places(chan, EditSaved(p)) = {} /\ ~Requested(p)
  BY <1>1 DEF Completions, Places, Requested
<1> QED
  BY <1>1, <1>2 DEF RunInv, Once, Coming, Saved

\* Steps that neither start nor end anything, and report no end.
LEMMA NothingBeginsOrEnds ==
    ASSUME RunInv, Alive' => Alive, UNCHANGED <<running, waiter, waiting_edits, answers>>,
           Once => Once', \A r \in Pid : (Coming(r)' <=> Coming(r)) /\ (Saved(r)' <=> Saved(r)),
           \A r \in Pid : Requested(r)' <=> Requested(r)
    PROVE  RunInv'
  BY DEF RunInv

\* The threads and the user.
LEMMA RunOutside ==
    ASSUME TInv, RunInv,
           \/ SendRequest \/ \E p \in Pid : Kill(p)
           \/ \E p \in Pid : SendCancel(p) \/ SendEdit(p) \/ ProcessStep(p) \/ LockChild(p) \/ Reap(p)
           \/ \E q \in Pipe : ReaderReads(q) \/ ReaderEnds(q) \/ WriterWrites(q)
    PROVE  RunInv'
<1>1. chan \in Seq(Event) /\ sent \in Seq(Response) /\ inbox \in Seq(Request)
  BY DEF TInv, ExecTypes
<1>2. Alive
  BY DEF SendRequest, SendCancel, SendEdit, ProcessStep, Writes, Consumes, ExitsWith, LockChild,
         Reap, ReaderReads, ReaderEnds, WriterWrites, Kill
<1>3. ASSUME NEW event \in Event, chan' = Append(chan, event),
             event.type \notin {"Completed", "EditComplete"},
             UNCHANGED <<running, waiter, waiting_edits, answers, sent>>
      PROVE  RunInv'
  <2>1. \A r : ~Completes(event, r) /\ event # EditSaved(r)
    BY <1>3 DEF Completes, EditSaved
  <2>2. Once
    BY <1>2 DEF RunInv
  <2>3. Once' /\ \A r : (Coming(r)' <=> Coming(r)) /\ (Saved(r)' <=> Saved(r))
    BY <1>1, <1>3, <2>1, <2>2, ChanAppended
  <2> QED
    BY <1>2, <1>3, <2>3, NothingBeginsOrEnds, SameRequests
<1>4. CASE SendRequest
  <2>1. Head(inbox) \in Request
    BY <1>1, <1>4 DEF SendRequest
  <2>2. Head(inbox) \in Event /\ Head(inbox).type \notin {"Completed", "EditComplete"}
    BY <2>1 DEF Event, Request, PipeRequest
  <2> QED
    BY <1>3, <1>4, <2>2 DEF SendRequest, ioVars, machineVars
<1>5. ASSUME NEW p \in Pid, SendCancel(p) PROVE RunInv'
  <2>1. [type |-> "CancelExec", pid |-> p] \in Event
    BY DEF Event, ProcessEvent
  <2> QED
    BY <1>3, <1>5, <2>1 DEF SendCancel, ioVars, machineVars
<1>6. ASSUME NEW q \in Pipe, ReaderReads(q) \/ ReaderEnds(q) PROVE RunInv'
  <2>1. /\ [type |-> "PipeOutput", pipe |-> q] \in Event
        /\ [type |-> "PipeClosed", pipe |-> q] \in Event
    BY DEF Event
  <2>2. CASE ReaderReads(q)
    BY <1>3, <2>1, <2>2 DEF ReaderReads, userVars, machineVars
  <2>3. CASE ReaderEnds(q)
    BY <1>3, <2>1, <2>3 DEF ReaderEnds, userVars, machineVars
  <2> QED
    BY <1>6, <2>2, <2>3
<1>7. CASE \/ \E p \in Pid : Kill(p) \/ ProcessStep(p)
           \/ \E q \in Pipe : WriterWrites(q)
  <2>1. UNCHANGED <<chan, sent, running, waiter, waiting_edits, answers>>
    BY <1>7 DEF Kill, ProcessStep, Writes, Consumes, ExitsWith, WriterWrites, machineVars,
                userVars, ctlVars
  <2> QED
    BY <1>2, <2>1, NothingBeginsOrEnds, SameEvents, SameRequests
<1>8. ASSUME NEW p \in Pid, SendEdit(p) PROVE RunInv'
  <2>1. /\ p \notin answers /\ Requested(p) /\ answers' = answers \cup {p}
        /\ chan' = Append(chan, EditSaved(p))
        /\ UNCHANGED <<running, waiter, waiting_edits, sent>>
    BY <1>8 DEF SendEdit, Requested, EditSaved, ioVars, machineVars
  <2>2. p \in waiting_edits /\ ~Saved(p) /\ Once
    BY <1>2, <2>1 DEF RunInv
  <2>3. EditSaved(p) \in Event /\ \A r : EditSaved(p) = EditSaved(r) <=> p = r
    BY DEF EditSaved, Event, ProcessEvent
  <2>4. \A r : ~Completes(EditSaved(p), r)
    BY DEF Completes, EditSaved
  <2>5. /\ Once' /\ \A r : Coming(r)' <=> Coming(r)
        /\ \A r : Saved(r)' <=> Saved(r) \/ r = p
    BY <1>1, <2>1, <2>2, <2>3, <2>4, ChanAppended
  <2> QED
    BY <1>2, <2>1, <2>2, <2>5, SameRequests DEF RunInv
<1>9. ASSUME NEW p \in Pid, LockChild(p) PROVE RunInv'
  <2>1. /\ waiter[p] = "spawned" /\ waiter' = [waiter EXCEPT ![p] = "waiting"]
        /\ UNCHANGED <<chan, sent, running, waiting_edits, answers>>
    BY <1>9 DEF LockChild, machineVars, userVars, ctlVars
  <2>2. waiter \in [Pid -> {"none", "spawned", "waiting", "done"}]
    BY DEF TInv, ExecTypes
  <2> QED
    BY <1>2, <2>1, <2>2, SameEvents, SameRequests DEF RunInv
<1>10. ASSUME NEW p \in Pid, Reap(p) PROVE RunInv'
  <2> DEFINE event == [type |-> "Completed", pid |-> p, code |-> process[p]]
  <2>1. /\ waiter[p] = "waiting" /\ waiter' = [waiter EXCEPT ![p] = "done"]
        /\ chan' = Append(chan, event) /\ process[p] \in ExitCode
        /\ UNCHANGED <<sent, running, waiting_edits, answers>>
    BY <1>10 DEF Reap, machineVars, userVars
  <2>2. waiter \in [Pid -> {"none", "spawned", "waiting", "done"}]
    BY DEF TInv, ExecTypes
  <2>3. ~Coming(p) /\ Once
    BY <1>2, <2>1 DEF RunInv
  <2>4. event \in Event
    BY <2>1 DEF Event, ProcessEvent
  <2>5. \A r : (Completes(event, r) <=> r = p) /\ event # EditSaved(r)
    <3>1. \A r : event.type # EditSaved(r).type
      BY DEF EditSaved
    <3> QED
      BY <3>1 DEF Completes
  <2> HIDE DEF event
  <2>6. /\ Once' /\ \A r : Coming(r)' <=> Coming(r) \/ r = p
        /\ \A r : Saved(r)' <=> Saved(r)
    BY <1>1, <2>1, <2>3, <2>4, <2>5, ChanAppended
  <2> QED
    BY <1>2, <2>1, <2>2, <2>6, SameRequests DEF RunInv
<1> QED
  BY <1>4, <1>5, <1>6, <1>7, <1>8, <1>9, <1>10

\* The executor takes an event, or has a task for the machine.
LEMMA RunHandled ==
    ASSUME TInv, RunInv, Handle
    PROVE  RunInv'
<1> DEFINE event == Head(chan)
<1>1. Alive /\ chan # <<>> /\ chan' = Tail(chan)
  BY DEF Handle, HandleEnqueue, HandleCompleted, HandleOpenFile, HandleBeginRead, HandlePipe,
         HandleEditComplete, HandleCancel, Take, Idle
<1>2. chan \in Seq(Event) /\ sent \in Seq(Response) /\ event \in Event
  <2>1. chan \in Seq(Event) /\ sent \in Seq(Response)
    BY DEF TInv, ExecTypes
  <2> QED
    BY <1>1, <2>1
<1>3. /\ Once' /\ \A r \in Pid : Coming(r)' <=> Coming(r) /\ ~Completes(event, r)
      /\ \A r \in Pid : Saved(r)' <=> Saved(r) /\ event # EditSaved(r)
  BY <1>1, <1>2, ChanTaken DEF RunInv
<1>4. UNCHANGED <<waiter, answers>>
  BY DEF Handle, HandleEnqueue, HandleCompleted, HandleOpenFile, HandleBeginRead, HandlePipe,
         HandleEditComplete, HandleCancel, ioVars, userVars
<1>5. ASSUME event.type \notin {"Completed", "EditComplete"}, UNCHANGED <<running, waiting_edits>>,
             \A r \in Pid : Requested(r)' <=> Requested(r)
      PROVE  RunInv'
  <2>1. \A r : ~Completes(event, r) /\ event # EditSaved(r)
    BY <1>5 DEF Completes, EditSaved
  <2>2. \A r \in Pid : (Coming(r)' <=> Coming(r)) /\ (Saved(r)' <=> Saved(r))
    BY <1>3, <2>1
  <2> QED
    BY <1>1, <1>3, <1>4, <1>5, <2>2, NothingBeginsOrEnds
<1>6. CASE HandleEnqueue
  <2>1. running' = running
    BY <1>6 DEF HandleEnqueue, Enqueue, EnqueueRefused, EnqueueUnknown, EnqueueReady, EnqueueBlocked
  <2> QED
    BY <1>5, <1>6, <2>1, SameRequests DEF HandleEnqueue, Take
<1>7. CASE HandleOpenFile \/ HandleBeginRead \/ HandleCancel
  BY <1>5, <1>7, SameRequests DEF HandleOpenFile, HandleBeginRead, HandleCancel, Take, machineVars
<1>8. CASE HandlePipe
  <2>1. PICK message : Respond(message) /\ message.type # "EditRequest"
    BY <1>8 DEF HandlePipe
  <2>2. \A r : Requested(r)' <=> Requested(r)
    <3>1. \A r : message # [type |-> "EditRequest", pid |-> r]
      BY <2>1
    <3> QED
      BY <1>2, <2>1, <3>1, RequestSent
  <2> QED
    BY <1>5, <1>8, <2>2 DEF HandlePipe, Take, machineVars
\* The process leaves running, if the machine does not panic.
<1>9. ASSUME NEW p \in Pid, NEW code, Finish(p, code), Alive'
      PROVE  /\ \A r : r \in DOMAIN running' <=> r \in DOMAIN running /\ r # p
             /\ \A r \in DOMAIN running' : running'[r] = running[r]
             /\ \A r : Requested(r)' <=> Requested(r)
  <2>1. Completed(p, StatusOf(code)) /\ Respond(CommandDone(p, code))
    BY <1>9 DEF Finish
  <2>2. running' = Remove(running, p)
    BY <1>9, <2>1 DEF Completed, ResolvePanics, Alive
  <2>3. \A r : CommandDone(p, code) # [type |-> "EditRequest", pid |-> r]
    <3>1. \A r : CommandDone(p, code).type # [type |-> "EditRequest", pid |-> r].type
      BY DEF CommandDone
    <3> QED
      BY <3>1
  <2> QED
    BY <1>2, <2>1, <2>2, <2>3, RemoveIsMap, RequestSent
<1>10. CASE HandleCompleted
  <2> DEFINE p == event.pid
  <2>1. /\ event.type = "Completed" /\ Finish(p, event.code) /\ p \in Pid
        /\ waiting_edits' = waiting_edits
    BY <1>2, <1>10, EventFields DEF HandleCompleted, Take
  <2>2. \A r : (Completes(event, r) <=> r = p) /\ event # EditSaved(r)
    BY <2>1 DEF Completes, EditSaved
  <2>3. Coming(p)
    <3>1. 1 \in DOMAIN chan /\ chan[1] = event
      BY <1>1, <1>2, Dropped
    <3> QED
      BY <2>1, <3>1 DEF Coming, Completions
  <2>4. p \in DOMAIN running /\ running[p] = "Running" /\ waiter[p] = "done" /\ p \notin waiting_edits
    BY <1>1, <2>1, <2>3 DEF RunInv
  <2>5. ASSUME Alive' PROVE RunInv'
    <3>1. /\ \A r : r \in DOMAIN running' <=> r \in DOMAIN running /\ r # p
          /\ \A r \in DOMAIN running' : running'[r] = running[r]
          /\ \A r : Requested(r)' <=> Requested(r)
      BY <1>9, <2>1, <2>5
    <3>2. \A r \in Pid : (Coming(r)' <=> Coming(r) /\ r # p) /\ (Saved(r)' <=> Saved(r))
      BY <1>3, <2>2
    <3> HIDE DEF p
    <3> QED
      BY <1>1, <1>3, <1>4, <2>1, <2>4, <3>1, <3>2 DEF RunInv
  <2> QED
    BY <2>5 DEF RunInv
<1>11. CASE HandleEditComplete
  <2> DEFINE p == event.pid
  <2>1. /\ event.type = "EditComplete" /\ p \in Pid /\ p \in waiting_edits
        /\ waiting_edits' = waiting_edits \ {p}
        /\ Finish(p, "0") \/ crashed' = "save edit"
    BY <1>2, <1>11, EventFields DEF HandleEditComplete, Take
  <2>2. event = EditSaved(p)
    BY <1>2, <2>1, SavedEdit DEF EditSaved
  <2>3. \A r : (event = EditSaved(r) <=> r = p) /\ ~Completes(event, r)
    <3>1. \A r : EditSaved(r).pid = r
      BY DEF EditSaved
    <3> QED
      BY <2>1, <2>2, <3>1 DEF Completes
  <2>4. Saved(p)
    <3>1. 1 \in DOMAIN chan /\ chan[1] = event
      BY <1>1, <1>2, Dropped
    <3> QED
      BY <2>2, <3>1 DEF Saved, Places
  <2>5. /\ p \in DOMAIN running /\ running[p] = "AwaitingEdit" /\ p \in answers
        /\ ~Coming(p) /\ waiter[p] \notin {"spawned", "waiting"}
    BY <1>1, <2>1, <2>4 DEF RunInv
  <2>6. ASSUME Alive' PROVE RunInv'
    <3>1. Finish(p, "0")
      BY <2>1, <2>6 DEF Alive
    <3>2. /\ \A r : r \in DOMAIN running' <=> r \in DOMAIN running /\ r # p
          /\ \A r \in DOMAIN running' : running'[r] = running[r]
          /\ \A r : Requested(r)' <=> Requested(r)
      BY <1>9, <2>1, <2>6, <3>1
    <3>3. \A r \in Pid : (Coming(r)' <=> Coming(r)) /\ (Saved(r)' <=> Saved(r) /\ r # p)
      BY <1>3, <2>3
    <3> HIDE DEF p
    <3> QED
      BY <1>1, <1>3, <1>4, <2>1, <2>5, <3>2, <3>3 DEF RunInv
  <2> QED
    BY <2>6 DEF RunInv
<1> QED
  BY <1>6, <1>7, <1>8, <1>10, <1>11 DEF Handle

LEMMA RunActedUpon ==
    ASSUME TInv, RunInv, RunTask
    PROVE  RunInv'
<1> DEFINE p == Head(work).pid
<1>1. /\ Alive /\ work # <<>> /\ work \in Seq(Task) /\ sent \in Seq(Response)
      /\ waiter \in [Pid -> {"none", "spawned", "waiting", "done"}]
      /\ UNCHANGED <<chan, answers>>
  BY DEF RunTask, StartProcess, SpawnFails, RunSetDirectory, RunGetDirectory, BeginEdit,
         EditUnreadable, ReportRefused, ActOnStart, Act, TInv, ExecTypes, userVars
<1>2. p \in Pid
  <2>1. Head(work) \in Task
    BY <1>1
  <2> QED
    BY <2>1 DEF Task
<1>3. /\ Once' <=> Once
      /\ \A r : (Coming(r)' <=> Coming(r)) /\ (Saved(r)' <=> Saved(r))
  BY <1>1, SameEvents
<1>4. ASSUME NEW state, Start(p, state)
      PROVE  /\ p \notin DOMAIN running
             /\ \A r : r \in DOMAIN running' <=> r \in DOMAIN running \/ r = p
             /\ running'[p] = state
             /\ \A r \in DOMAIN running : running'[r] = running[r]
  BY <1>4, PutIsMap DEF Start, TInv, IInv, OneState, TasksAreToRun
<1>5. CASE StartProcess
  <2>1. /\ Start(p, "Running") /\ waiter' = [waiter EXCEPT ![p] = "spawned"]
        /\ UNCHANGED <<sent, waiting_edits>>
    BY <1>5 DEF StartProcess
  <2>2. ~Coming(p) /\ p \notin waiting_edits
    BY <1>1, <1>2, <1>4, <2>1 DEF RunInv
  <2>3. /\ waiter'[p] = "spawned"
        /\ \A r \in Pid : r # p => waiter'[r] = waiter[r]
    BY <1>1, <1>2, <2>1
  <2>4. \A r : Requested(r)' <=> Requested(r)
    BY <2>1, SameRequests
  <2> HIDE DEF p
  <2> QED
    BY <1>1, <1>2, <1>3, <1>4, <2>1, <2>2, <2>3, <2>4 DEF RunInv
<1>6. CASE BeginEdit
  <2>1. /\ Start(p, "AwaitingEdit") /\ waiting_edits' = waiting_edits \cup {p}
        /\ Respond([type |-> "EditRequest", pid |-> p]) /\ waiter' = waiter
    BY <1>6 DEF BeginEdit, ioVars
  <2>2. ~Coming(p) /\ waiter[p] \notin {"spawned", "waiting"}
    BY <1>1, <1>2, <1>4, <2>1 DEF RunInv
  <2>3. \A r : Requested(r)' <=> Requested(r) \/ r = p
    <3>1. \A r : [type |-> "EditRequest", pid |-> p] = [type |-> "EditRequest", pid |-> r] <=> r = p
      OBVIOUS
    <3> QED
      BY <1>1, <2>1, <3>1, RequestSent
  <2> HIDE DEF p
  <2> QED
    BY <1>1, <1>2, <1>3, <1>4, <2>1, <2>2, <2>3 DEF RunInv
<1>7. ASSUME UNCHANGED <<running, waiter, waiting_edits>>, \A r \in Pid : Requested(r)' <=> Requested(r)
      PROVE  RunInv'
  BY <1>1, <1>3, <1>7, NothingBeginsOrEnds
<1>8. ASSUME NEW code, Respond(CommandDone(p, code))
      PROVE  \A r : Requested(r)' <=> Requested(r)
  <2>1. \A r : CommandDone(p, code) # [type |-> "EditRequest", pid |-> r]
    <3>1. \A r : CommandDone(p, code).type # [type |-> "EditRequest", pid |-> r].type
      BY DEF CommandDone
    <3> QED
      BY <3>1
  <2> QED
    BY <1>1, <1>8, <2>1, RequestSent
<1>9. ASSUME NEW status, NEW code, EndAtOnce(p, status, code), UNCHANGED <<waiter, waiting_edits>>
      PROVE  RunInv'
  <2>1. running' = running
    BY <1>9 DEF EndAtOnce, StartCompleted, ResolvePanics
  <2>2. \A r : Requested(r)' <=> Requested(r)
    BY <1>8, <1>9, SameRequests DEF EndAtOnce
  <2> QED
    BY <1>7, <1>9, <2>1, <2>2
<1>10. CASE RunSetDirectory \/ RunGetDirectory \/ EditUnreadable
  <2>1. /\ \E status, code : EndAtOnce(p, status, code)
        /\ UNCHANGED <<waiter, waiting_edits>>
    BY <1>10 DEF RunSetDirectory, RunGetDirectory, EditUnreadable, OutputAndClose
  <2> QED
    BY <1>9, <2>1
<1>11. CASE SpawnFails
  <2>1. panicked' # "no" \/ crashed' = "write side taken"
    BY <1>11 DEF SpawnFails
  <2> QED
    BY <2>1 DEF RunInv, Alive
<1>12. CASE ReportRefused
  BY <1>7, <1>8, <1>12 DEF ReportRefused, machineVars, ioVars
<1> QED
  BY <1>5, <1>6, <1>10, <1>11, <1>12 DEF RunTask

LEMMA RunStep ==
    ASSUME TInv, RunInv, [Next]_vars
    PROVE  RunInv'
<1>1. CASE UNCHANGED vars
  <2>1. UNCHANGED <<chan, sent, running, waiter, waiting_edits, answers>> /\ Alive' = Alive
    BY <1>1 DEF vars, machineVars, ioVars, userVars, ctlVars, Alive
  <2> QED
    BY <2>1, SameEvents, SameRequests, NothingBeginsOrEnds
<1> QED
  BY <1>1, RunOutside, RunHandled, RunActedUpon DEF Next, Executor

(* A process counts as running exactly while its end is still to be reported, once:      *)
(* completed() never meets a process that is not in running, and none stays there.       *)
THEOREM EveryRunIsReported == Spec => []CompletionsExpected
<1>1. TInv /\ RunInv => CompletionsExpected
  <2> SUFFICES ASSUME TInv, RunInv, Alive
               PROVE  /\ {p \in DOMAIN running : running[p] = "Running"}
                            = {p \in Pid : waiter[p] \in {"spawned", "waiting"} \/ Completions(p) # {}}
                      /\ \A p \in Pid : Cardinality(Completions(p)) <= 1
                      /\ \A p \in Pid : Completions(p) # {} => waiter[p] = "done"
    BY DEF CompletionsExpected
  <2>1. DOMAIN running \subseteq Pid
    BY DEF TInv, IInv, TypeOK, IsMap
  <2>2. ASSUME NEW p \in Pid PROVE Cardinality(Completions(p)) <= 1
    <3>1. \A i, j \in Completions(p) : i = j
      BY DEF RunInv, Once
    <3> QED
      BY <3>1, AtMostOne
  <2> QED
    BY <2>1, <2>2 DEF RunInv, Coming
<1> QED
  BY <1>1, TInvInit, TInvStep, RunInit, RunStep, PTL DEF Spec

(* A saved edit finds its process waiting for it, whatever else ends or is cancelled.    *)
THEOREM EveryEditIsAwaited == Spec => []EditsExpected
<1>1. TInv /\ RunInv => EditsExpected
  <2> SUFFICES ASSUME TInv, RunInv, Alive
               PROVE  /\ waiting_edits = {p \in DOMAIN running : running[p] = "AwaitingEdit"}
                      /\ \A p \in Pid : /\ Count(chan, EditSaved(p)) <= 1
                                        /\ Count(chan, EditSaved(p)) = 1 => p \in waiting_edits
    BY DEF EditsExpected, EditSaved
  <2>1. DOMAIN running \subseteq Pid /\ waiting_edits \subseteq Pid
    BY DEF TInv, IInv, TypeOK, IsMap, ExecTypes
  <2>2. ASSUME NEW p \in Pid
        PROVE  /\ Count(chan, EditSaved(p)) <= 1
               /\ Count(chan, EditSaved(p)) = 1 => p \in waiting_edits
    <3>1. \A i, j \in Places(chan, EditSaved(p)) : i = j
      BY DEF RunInv, Once
    <3>2. Places(chan, EditSaved(p)) # {} => p \in waiting_edits
      BY DEF RunInv, Saved
    <3> QED
      BY <3>1, <3>2, AtMostOne DEF Count
  <2> QED
    BY <2>1, <2>2 DEF RunInv
<1> QED
  BY <1>1, TInvInit, TInvStep, RunInit, RunStep, PTL DEF Spec

(* Between them: the machine inside the executor is never told of an end that it does    *)
(* not expect, and never waits for one that does not come.                               *)
THEOREM StaysInStep == Spec => []MachineInStep
<1>1. TasksInHand /\ CompletionsExpected /\ EditsExpected => MachineInStep
  BY DEF MachineInStep
<1> QED
  BY <1>1, StartsInHand, EveryRunIsReported, EveryEditIsAwaited, PTL

-----------------------------------------------------------------------------
(* The ends of the pipes, one by one. *)

\* What taking and closing an end of a pipe makes of every pipe.
LEMMA AfterEnd ==
    ASSUME NEW e \in Ends, NEW q \in Pipe, NEW r \in Pipe
    PROVE  /\ TakeRead(e, q)[r].read = IF r = q THEN "held" ELSE e[r].read
           /\ TakeRead(e, q)[r].write = IF r = q /\ e[r].write = "unmade" THEN "table" ELSE e[r].write
           /\ TakeWrite(e, q)[r].write = IF r = q THEN "held" ELSE e[r].write
           /\ TakeWrite(e, q)[r].read = IF r = q /\ e[r].read = "unmade" THEN "table" ELSE e[r].read
           /\ CloseRead(e, q)[r].read = IF r = q THEN "closed" ELSE e[r].read
           /\ CloseRead(e, q)[r].write = e[r].write
           /\ CloseWrite(e, q)[r].write = IF r = q THEN "closed" ELSE e[r].write
           /\ CloseWrite(e, q)[r].read = e[r].read
<1>1. /\ TakeRead(e, q)[r].read = IF r = q THEN "held" ELSE e[r].read
      /\ TakeRead(e, q)[r].write = IF r = q /\ e[r].write = "unmade" THEN "table" ELSE e[r].write
  BY DEF TakeRead, Ends
<1>2. /\ TakeWrite(e, q)[r].write = IF r = q THEN "held" ELSE e[r].write
      /\ TakeWrite(e, q)[r].read = IF r = q /\ e[r].read = "unmade" THEN "table" ELSE e[r].read
  BY DEF TakeWrite, Ends
<1>3. /\ CloseRead(e, q)[r].read = IF r = q THEN "closed" ELSE e[r].read
      /\ CloseRead(e, q)[r].write = e[r].write
  BY DEF CloseRead, Ends
<1>4. /\ CloseWrite(e, q)[r].write = IF r = q THEN "closed" ELSE e[r].write
      /\ CloseWrite(e, q)[r].read = e[r].read
  BY DEF CloseWrite, Ends
<1> QED
  BY <1>1, <1>2, <1>3, <1>4

\* A process takes its three ends.
LEMMA AfterTaken ==
    ASSUME ends \in Ends, NEW cmd \in Command, NEW r \in Pipe
    PROVE  /\ Taken(cmd) \in Ends
           /\ Taken(cmd)[r].read = IF r = cmd.stdin THEN "held"
                                   ELSE IF r \in {cmd.stdout, cmd.stderr} /\ ends[r].read = "unmade"
                                   THEN "table" ELSE ends[r].read
           /\ Taken(cmd)[r].write = IF r \in {cmd.stdout, cmd.stderr} THEN "held"
                                    ELSE IF r = cmd.stdin /\ ends[r].write = "unmade"
                                    THEN "table" ELSE ends[r].write
<1> DEFINE e1 == TakeRead(ends, cmd.stdin) e2 == TakeWrite(e1, cmd.stdout)
<1>1. cmd.stdin \in Pipe /\ cmd.stdout \in Pipe /\ cmd.stderr \in Pipe
  BY CommandFields
<1>2. e1 \in Ends
  BY <1>1, EndsKeepTypes
<1>3. e2 \in Ends
  BY <1>1, <1>2, EndsKeepTypes
<1>4. /\ e1[r].read = IF r = cmd.stdin THEN "held" ELSE ends[r].read
      /\ e1[r].write = IF r = cmd.stdin /\ ends[r].write = "unmade" THEN "table" ELSE ends[r].write
  BY <1>1, AfterEnd
<1> HIDE DEF e1
<1>5. /\ e2[r].write = IF r = cmd.stdout THEN "held" ELSE e1[r].write
      /\ e2[r].read = IF r = cmd.stdout /\ e1[r].read = "unmade" THEN "table" ELSE e1[r].read
  BY <1>1, <1>2, AfterEnd
<1> HIDE DEF e2
<1>6. /\ TakeWrite(e2, cmd.stderr)[r].write = IF r = cmd.stderr THEN "held" ELSE e2[r].write
      /\ TakeWrite(e2, cmd.stderr)[r].read =
            IF r = cmd.stderr /\ e2[r].read = "unmade" THEN "table" ELSE e2[r].read
  BY <1>1, <1>3, AfterEnd
<1>7. TakeWrite(e2, cmd.stderr) \in Ends
  BY <1>1, <1>3, EndsKeepTypes
<1> QED
  BY <1>4, <1>5, <1>6, <1>7 DEF Taken, e1, e2

\* pipe_output_and_close takes two.
LEMMA AfterOutput ==
    ASSUME ends \in Ends, NEW full \in Pipe, NEW empty \in Pipe, OutputAndClose(full, empty),
           NEW r \in Pipe
    PROVE  /\ ends' \in Ends
           /\ ends'[r].read = IF r \in {full, empty} /\ ends[r].read = "unmade"
                              THEN "table" ELSE ends[r].read
           /\ ends'[r].write = IF r = full THEN "held" ELSE IF r = empty THEN "closed"
                               ELSE ends[r].write
<1> DEFINE e1 == TakeWrite(ends, full) e2 == TakeWrite(e1, empty)
<1>1. full # empty /\ ends' = CloseWrite(e2, empty)
  BY DEF OutputAndClose
<1>2. e1 \in Ends
  BY EndsKeepTypes
<1>3. e2 \in Ends
  BY <1>2, EndsKeepTypes
<1>4. /\ e1[r].write = IF r = full THEN "held" ELSE ends[r].write
      /\ e1[r].read = IF r = full /\ ends[r].read = "unmade" THEN "table" ELSE ends[r].read
  BY AfterEnd
<1> HIDE DEF e1
<1>5. /\ e2[r].write = IF r = empty THEN "held" ELSE e1[r].write
      /\ e2[r].read = IF r = empty /\ e1[r].read = "unmade" THEN "table" ELSE e1[r].read
  BY <1>2, AfterEnd
<1> HIDE DEF e2
<1>6. /\ CloseWrite(e2, empty)[r].write = IF r = empty THEN "closed" ELSE e2[r].write
      /\ CloseWrite(e2, empty)[r].read = e2[r].read
  BY <1>3, AfterEnd
<1>7. CloseWrite(e2, empty) \in Ends
  BY <1>3, EndsKeepTypes
<1> QED
  BY <1>1, <1>4, <1>5, <1>6, <1>7

\* The kernel closes the three of a process that is gone.
LEMMA AfterDeath ==
    ASSUME ends \in Ends, NEW p, NEW code, commands[p] \in Command, Dies(p, code), NEW r \in Pipe
    PROVE  /\ ends' \in Ends
           /\ ends'[r].read = IF r = commands[p].stdin THEN "closed" ELSE ends[r].read
           /\ ends'[r].write = IF r \in {commands[p].stdout, commands[p].stderr}
                               THEN "closed" ELSE ends[r].write
<1>0. PICK cmd \in Command : cmd = commands[p]
  OBVIOUS
<1> DEFINE e1 == CloseRead(ends, cmd.stdin) e2 == CloseWrite(e1, cmd.stdout)
<1>1. cmd.stdin \in Pipe /\ cmd.stdout \in Pipe /\ cmd.stderr \in Pipe
  BY CommandFields
<1>2. ends' = CloseWrite(e2, cmd.stderr)
  BY <1>0 DEF Dies
<1>3. e1 \in Ends
  BY <1>1, EndsKeepTypes
<1>4. e2 \in Ends
  BY <1>1, <1>3, EndsKeepTypes
<1>5. CloseWrite(e2, cmd.stderr) \in Ends
  BY <1>1, <1>4, EndsKeepTypes
<1>6. /\ e1[r].write = ends[r].write
      /\ e1[r].read = IF r = cmd.stdin THEN "closed" ELSE ends[r].read
  BY <1>1, AfterEnd
<1> HIDE DEF e1
<1>7. /\ e2[r].read = e1[r].read
      /\ e2[r].write = IF r = cmd.stdout THEN "closed" ELSE e1[r].write
  BY <1>1, <1>3, AfterEnd
<1> HIDE DEF e2
<1>8. /\ CloseWrite(e2, cmd.stderr)[r].read = e2[r].read
      /\ CloseWrite(e2, cmd.stderr)[r].write = IF r = cmd.stderr THEN "closed" ELSE e2[r].write
  BY <1>1, <1>4, AfterEnd
<1> QED
  BY <1>0, <1>2, <1>5, <1>6, <1>7, <1>8

-----------------------------------------------------------------------------
(* What a step does to the ends of pipes and to those who hold them.       *)

Outputs(cmd) == {cmd.stdout, cmd.stderr}

LEMMA PipesOfCommand ==
    ASSUME NEW cmd \in Command
    PROVE  /\ cmd.stdin \in Pipe /\ cmd.stdout \in Pipe /\ cmd.stderr \in Pipe
           /\ Outputs(cmd) \subseteq Pipe
           /\ \A s \in Stream : cmd[s] \in Outputs(cmd)
  BY DEF Command, Outputs, Stream

\* The executor takes a request for q from the channel.
Requests(type, q) ==
    chan # <<>> /\ chan' = Tail(chan) /\ Head(chan).type = type /\ Head(chan).pipe = q

Opens(q) ==
    /\ ends[q].read = "unmade" /\ ends[q].write = "unmade"
    /\ \/ /\ Requests("OpenOutputFile", q)
          /\ ends' = [ends EXCEPT ![q] = [read |-> "file", write |-> "table"]]
       \/ /\ Requests("OpenInputFile", q)
          /\ ends' = [ends EXCEPT ![q] = [read |-> "table", write |-> "file"]]
    /\ UNCHANGED <<process, readers, writers>>

BeginsToRead(q) ==
    /\ Requests("BeginRead", q) /\ MayTake(ends[q].read)
    /\ ends' = TakeRead(ends, q) /\ readers' = readers \cup {q}
    /\ UNCHANGED <<process, writers>>

Spawns(p) ==
    /\ CanTake(commands[p]) /\ Start(p, "Running") /\ commands[p].kind = "Unknown"
    /\ ends' = Taken(commands[p]) /\ process' = [process EXCEPT ![p] = "alive"]
    /\ UNCHANGED <<readers, writers>>

\* A builtin ends at once, with a thread to write its text.
Prints(p, full, empty) ==
    /\ full \in Outputs(commands[p]) /\ empty \in Outputs(commands[p])
    /\ commands[p].kind = "Edit" => Faults
    /\ OutputAndClose(full, empty)
    /\ \E status \in ExitStatus : StartCompleted(p, status)

Leaves(p, code) == process[p] = "alive" /\ Dies(p, code) /\ UNCHANGED <<readers, writers>>

StopsReading(q) ==
    /\ q \in readers /\ readers' = readers \ {q} /\ ends' = CloseRead(ends, q)
    /\ UNCHANGED <<process, writers>>

StopsWriting(q) ==
    /\ q \in writers /\ writers' = writers \ {q} /\ ends' = CloseWrite(ends, q)
    /\ UNCHANGED <<process, readers>>

LEMMA PipeSteps ==
    ASSUME TInv, [Next]_vars
    PROVE  \/ UNCHANGED <<ends, process, readers, writers>>
           \/ \E q \in Pipe : Opens(q) \/ BeginsToRead(q) \/ StopsReading(q) \/ StopsWriting(q)
           \/ \E p \in tasks : Spawns(p) \/ \E full, empty : Prints(p, full, empty)
           \/ \E p \in Pid, code \in ExitCode : Leaves(p, code)
<1>1. ends \in Ends /\ chan \in Seq(Event) /\ work \in Seq(Task)
  BY DEF TInv, ExecTypes, Ends
<1>2. CASE Handle
  <2>1. CASE HandleOpenFile
    <3>1. Head(chan).pipe \in Pipe
      BY <1>1, <2>1, FirstEvent, EventFields DEF HandleOpenFile
    <3>2. (UNCHANGED <<ends, process, readers, writers>>) \/ Opens(Head(chan).pipe)
      BY <2>1 DEF HandleOpenFile, Opens, Take, Requests
    <3> QED
      BY <3>1, <3>2
  <2>2. CASE HandleBeginRead
    <3>1. Head(chan).pipe \in Pipe
      BY <1>1, <2>2, FirstEvent, EventFields DEF HandleBeginRead
    <3>2. BeginsToRead(Head(chan).pipe)
      BY <2>2 DEF HandleBeginRead, BeginsToRead, Take, Requests
    <3> QED
      BY <3>1, <3>2
  <2>3. CASE HandleEnqueue \/ HandleCompleted \/ HandlePipe \/ HandleEditComplete \/ HandleCancel
    BY <2>3 DEF HandleEnqueue, HandleCompleted, HandlePipe, HandleEditComplete, HandleCancel, ioVars
  <2> QED
    BY <1>2, <2>1, <2>2, <2>3 DEF Handle
<1>3. CASE RunTask
  <2> DEFINE p == Head(work).pid
  <2>1. CASE StartProcess
    <3>1. Spawns(p)
      BY <2>1 DEF StartProcess, ActOnStart, Spawns
    <3>2. p \in tasks
      BY <3>1 DEF Spawns, Start
    <3> QED
      BY <3>1, <3>2
  <2>2. CASE RunSetDirectory \/ RunGetDirectory \/ EditUnreadable
    <3>1. "Success" \in ExitStatus /\ "Failure" \in ExitStatus
      BY DEF ExitStatus
    <3>2. \E full, empty \in Outputs(commands[p]) :
             /\ OutputAndClose(full, empty)
             /\ \E status \in ExitStatus : StartCompleted(p, status)
      BY <2>2, <3>1 DEF RunSetDirectory, RunGetDirectory, EditUnreadable, EndAtOnce, Outputs
    <3>4. commands[p].kind = "Edit" => Faults
      BY <2>2 DEF RunSetDirectory, RunGetDirectory, EditUnreadable, ActOnStart
    <3>3. p \in tasks
      BY <3>2 DEF StartCompleted
    <3> QED
      BY <3>2, <3>3, <3>4 DEF Prints
  <2>3. CASE SpawnFails \/ BeginEdit \/ ReportRefused
    BY <2>3 DEF SpawnFails, BeginEdit, ReportRefused, ioVars
  <2> QED
    BY <1>3, <2>1, <2>2, <2>3 DEF RunTask
<1>4. ASSUME NEW p \in Pid, ProcessStep(p) \/ Kill(p)
      PROVE  (UNCHANGED <<ends, process, readers, writers>>) \/ \E code \in ExitCode : Leaves(p, code)
  <2>1. CASE \E s \in Stream : Writes(p, s)
    BY <2>1 DEF Writes, Leaves, ExitCode
  <2>2. CASE Consumes(p)
    BY <2>2 DEF Consumes
  <2>3. CASE \E code \in {"0", "1"} : ExitsWith(p, code)
    BY <2>3 DEF ExitsWith, Leaves, ExitCode
  <2>4. CASE Kill(p)
    BY <2>4 DEF Kill, Leaves, ExitCode
  <2> QED
    BY <1>4, <2>1, <2>2, <2>3, <2>4 DEF ProcessStep
<1>5. CASE SendRequest \/ \E p \in Pid : SendCancel(p) \/ SendEdit(p) \/ LockChild(p) \/ Reap(p)
  BY <1>5 DEF SendRequest, SendCancel, SendEdit, LockChild, Reap, ioVars
<1>6. ASSUME NEW q \in Pipe, ReaderReads(q) \/ ReaderEnds(q) \/ WriterWrites(q)
      PROVE  (UNCHANGED <<ends, process, readers, writers>>) \/ StopsReading(q) \/ StopsWriting(q)
  BY <1>6 DEF ReaderReads, ReaderEnds, WriterWrites, StopsReading, StopsWriting
<1>7. CASE UNCHANGED vars
  BY <1>7 DEF vars, ioVars
<1> QED
  BY <1>2, <1>3, <1>4, <1>5, <1>6, <1>7 DEF Next, Executor

\* A process keeps the command that it was enqueued with.
LEMMA CommandsStay ==
    ASSUME TInv, [Next]_vars, NEW p \in DOMAIN asked
    PROVE  p \in Pid /\ commands[p] \in Command /\ commands'[p] = commands[p]
<1>1. p \in Pid /\ p \in DOMAIN commands /\ commands[p] \in Command
  BY DEF TInv, IInv, TypeOK, IsMapOfMaps, ExecTypes, CommandsKnown, IsMap
<1>2. CASE HandleEnqueue
  <2>1. Head(chan).pid \notin DOMAIN asked /\ commands' = Put(commands, Head(chan).pid, Head(chan).cmd)
    BY <1>2 DEF HandleEnqueue, Enqueue
  <2> QED
    BY <1>1, <2>1, PutIsMap
<1>3. CASE commands' = commands
  BY <1>1, <1>3
<1>4. CASE Handle
  BY <1>2, <1>3, <1>4 DEF Handle, HandleCompleted, HandleOpenFile, HandleBeginRead, HandlePipe,
         HandleEditComplete, HandleCancel
<1>5. CASE RunTask
  BY <1>3, <1>5 DEF RunTask, StartProcess, SpawnFails, RunSetDirectory, RunGetDirectory, BeginEdit,
         EditUnreadable, ReportRefused
<1>6. CASE ~Handle /\ ~RunTask
  BY <1>3, <1>6 DEF Next, Executor, SendRequest, SendCancel, SendEdit, ProcessStep, Writes, Consumes,
         ExitsWith, LockChild, Reap, ReaderReads, ReaderEnds, WriterWrites, Kill, vars, ctlVars
<1> QED
  BY <1>4, <1>5, <1>6

-----------------------------------------------------------------------------
(* Who holds the ends that are held.                                       *)

Holds(p) ==
    /\ ends[commands[p].stdin].read = "held" /\ commands[p].stdin \notin readers
    /\ \A q \in Outputs(commands[p]) : ends[q].write = "held" /\ q \notin writers

Apart(cmd, other) == cmd.stdin # other.stdin /\ Outputs(cmd) \cap Outputs(other) = {}

\* What is held is held by one: a process, a reader or a writer.
HoldInv ==
    /\ \A p \in Pid : process[p] # "none" => p \in DOMAIN asked
    /\ \A p \in Pid : process[p] = "alive" => Holds(p)
    /\ \A p, r \in Pid : process[p] = "alive" /\ process[r] = "alive" /\ p # r =>
          Apart(commands[p], commands[r])
    /\ \A q \in readers : ends[q].read = "held"
    /\ \A q \in writers : ends[q].write = "held"

LEMMA HoldInit == Init => HoldInv
  BY DEF Init, HoldInv

\* Where nobody begins to live, it is enough to look at what those who live hold.
LEMMA HoldKept ==
    ASSUME TInv, HoldInv, [Next]_vars,
           \A p \in Pid : process'[p] = "alive" => process[p] = "alive",
           \A p \in Pid : process'[p] # "none" => process[p] # "none",
           \A p \in Pid : process'[p] = "alive" =>
              /\ ends'[commands[p].stdin].read = "held" /\ commands[p].stdin \notin readers'
              /\ \A q \in Outputs(commands[p]) : ends'[q].write = "held" /\ q \notin writers',
           \A q \in readers' : ends'[q].read = "held",
           \A q \in writers' : ends'[q].write = "held"
    PROVE  HoldInv'
<1>1. \A p \in Pid : process'[p] # "none" => p \in DOMAIN asked' /\ commands'[p] = commands[p]
  BY AskedStays, CommandsStay DEF HoldInv
<1>2. ASSUME NEW p \in Pid, process'[p] = "alive" PROVE Holds(p)'
  BY <1>1, <1>2 DEF Holds, Outputs
<1>3. ASSUME NEW p \in Pid, NEW r \in Pid, process'[p] = "alive", process'[r] = "alive", p # r
      PROVE  Apart(commands[p], commands[r])'
  BY <1>1, <1>3 DEF HoldInv, Apart, Outputs
<1> QED
  BY <1>1, <1>2, <1>3 DEF HoldInv

LEMMA HoldStep ==
    ASSUME TInv, HoldInv, [Next]_vars
    PROVE  HoldInv'
<1>1. /\ ends \in Ends /\ readers \subseteq Pipe /\ writers \subseteq Pipe
      /\ process \in [Pid -> {"none", "alive"} \cup ExitCode]
  BY DEF TInv, ExecTypes, Ends
<1>2. ASSUME NEW p \in Pid, process[p] = "alive"
      PROVE  /\ commands[p] \in Command /\ commands[p].stdin \in Pipe /\ Outputs(commands[p]) \subseteq Pipe
             /\ Holds(p)
  BY <1>2, CommandsStay, PipesOfCommand DEF HoldInv
<1>3. CASE UNCHANGED <<ends, process, readers, writers>>
  BY <1>2, <1>3, HoldKept DEF HoldInv, Holds
<1>4. ASSUME NEW q \in Pipe, Opens(q) PROVE HoldInv'
  <2>1. /\ UNCHANGED <<process, readers, writers>>
        /\ \A r \in Pipe : /\ ends[r].read = "held" => ends'[r].read = "held"
                           /\ ends[r].write = "held" => ends'[r].write = "held"
    BY <1>1, <1>4 DEF Opens, Ends
  <2> QED
    BY <1>1, <1>2, <2>1, HoldKept DEF HoldInv, Holds
<1>5. ASSUME NEW q \in Pipe, BeginsToRead(q) PROVE HoldInv'
  <2>1. /\ UNCHANGED <<process, writers>> /\ readers' = readers \cup {q} /\ ends[q].read # "held"
        /\ ends'[q].read = "held"
        /\ \A r \in Pipe : /\ ends[r].read = "held" => ends'[r].read = "held"
                           /\ ends[r].write = "held" => ends'[r].write = "held"
    BY <1>1, <1>5, AfterEnd DEF BeginsToRead, MayTake
  <2> QED
    BY <1>1, <1>2, <2>1, HoldKept DEF HoldInv, Holds
<1>6. ASSUME NEW q \in Pipe, StopsReading(q) PROVE HoldInv'
  <2>1. /\ UNCHANGED <<process, writers>> /\ readers' = readers \ {q} /\ q \in readers
        /\ \A r \in Pipe : /\ ends[r].read = "held" /\ r # q => ends'[r].read = "held"
                           /\ ends[r].write = "held" => ends'[r].write = "held"
    BY <1>1, <1>6, AfterEnd DEF StopsReading
  <2> QED
    BY <1>1, <1>2, <2>1, HoldKept DEF HoldInv, Holds
<1>7. ASSUME NEW q \in Pipe, StopsWriting(q) PROVE HoldInv'
  <2>1. /\ UNCHANGED <<process, readers>> /\ writers' = writers \ {q} /\ q \in writers
        /\ \A r \in Pipe : /\ ends[r].read = "held" => ends'[r].read = "held"
                           /\ ends[r].write = "held" /\ r # q => ends'[r].write = "held"
    BY <1>1, <1>7, AfterEnd DEF StopsWriting
  <2> QED
    BY <1>1, <1>2, <2>1, HoldKept DEF HoldInv, Holds
<1>8. ASSUME NEW p \in tasks, NEW full, NEW empty, Prints(p, full, empty) PROVE HoldInv'
  <2>1. full \in Pipe /\ empty \in Pipe
    BY <1>8, TasksHaveCommands, PipesOfCommand DEF Prints
  <2>2. /\ UNCHANGED <<process, readers>> /\ writers' = writers \cup {full} /\ OutputAndClose(full, empty)
        /\ full # empty /\ MayTake(ends[full].write) /\ MayTake(ends[empty].write)
    BY <1>8 DEF Prints, OutputAndClose
  <2>3. /\ ends'[full].write = "held" /\ ends[full].write # "held"
        /\ \A r \in Pipe : /\ ends[r].read = "held" => ends'[r].read = "held"
                           /\ ends[r].write = "held" => ends'[r].write = "held"
    BY <1>1, <2>1, <2>2, AfterOutput DEF MayTake
  <2> QED
    BY <1>1, <1>2, <2>1, <2>2, <2>3, HoldKept DEF HoldInv, Holds
<1>9. ASSUME NEW p \in Pid, NEW code \in ExitCode, Leaves(p, code) PROVE HoldInv'
  <2>1. /\ process' = [process EXCEPT ![p] = code] /\ process[p] = "alive"
        /\ UNCHANGED <<readers, writers>> /\ Dies(p, code)
    BY <1>9 DEF Leaves, Dies
  <2>2. \A r \in Pipe :
           /\ ends[r].read = "held" /\ r # commands[p].stdin => ends'[r].read = "held"
           /\ ends[r].write = "held" /\ r \notin Outputs(commands[p]) => ends'[r].write = "held"
    BY <1>1, <1>2, <2>1, AfterDeath DEF Outputs
  <2>3. "alive" \notin ExitCode /\ "none" \notin ExitCode
    BY DEF ExitCode
  <2>4. ASSUME NEW r \in Pid, process'[r] = "alive"
        PROVE  r # p /\ process[r] = "alive" /\ Apart(commands[r], commands[p])
    BY <1>1, <2>1, <2>3, <2>4 DEF HoldInv
  <2>5. ASSUME NEW r \in Pid, process'[r] = "alive"
        PROVE  /\ ends'[commands[r].stdin].read = "held" /\ commands[r].stdin \notin readers'
               /\ \A q \in Outputs(commands[r]) : ends'[q].write = "held" /\ q \notin writers'
    BY <1>2, <2>1, <2>2, <2>4, <2>5 DEF Holds, Apart
  <2>6. \A q \in readers : q # commands[p].stdin
    BY <1>2, <2>1 DEF Holds
  <2>7. \A q \in writers : q \notin Outputs(commands[p])
    BY <1>2, <2>1 DEF Holds
  <2>8. /\ \A q \in readers' : ends'[q].read = "held"
        /\ \A q \in writers' : ends'[q].write = "held"
    BY <1>1, <2>1, <2>2, <2>6, <2>7 DEF HoldInv
  <2>9. \A r \in Pid : process'[r] # "none" => process[r] # "none"
    BY <1>1, <2>1
  <2> QED
    BY <2>4, <2>5, <2>8, <2>9, HoldKept
<1>10. ASSUME NEW p \in tasks, Spawns(p) PROVE HoldInv'
  <2>1. p \in Pid /\ p \in DOMAIN asked /\ commands[p] \in Command
    <3>1. p \in DOMAIN asked
      BY DEF TInv, IInv, OneState, TasksAreToRun
    <3> QED
      BY <3>1, CommandsStay
  <2> DEFINE cmd == commands[p]
  <2>2. cmd.stdin \in Pipe /\ Outputs(cmd) \subseteq Pipe
    BY <2>1, PipesOfCommand
  <2>3. /\ MayTake(ends[cmd.stdin].read) /\ \A q \in Outputs(cmd) : MayTake(ends[q].write)
        /\ ends' = Taken(cmd) /\ process' = [process EXCEPT ![p] = "alive"]
        /\ UNCHANGED <<readers, writers>>
    BY <1>10 DEF Spawns, CanTake, CanWrite, Outputs
  <2>4. /\ ends'[cmd.stdin].read = "held"
        /\ \A q \in Outputs(cmd) : ends'[q].write = "held"
        /\ \A r \in Pipe : /\ ends[r].read = "held" => ends'[r].read = "held"
                           /\ ends[r].write = "held" => ends'[r].write = "held"
    BY <1>1, <2>1, <2>2, <2>3, AfterTaken DEF Outputs
  <2>5. cmd.stdin \notin readers /\ \A q \in Outputs(cmd) : q \notin writers
    BY <2>3 DEF HoldInv, MayTake
  <2>6. ASSUME NEW r \in Pid, process[r] = "alive"
        PROVE  /\ ends'[commands[r].stdin].read = "held" /\ commands[r].stdin \notin readers'
               /\ \A q \in Outputs(commands[r]) : ends'[q].write = "held" /\ q \notin writers'
               /\ Apart(commands[r], cmd) /\ Apart(cmd, commands[r])
    BY <1>2, <2>3, <2>4, <2>6 DEF Holds, Apart, MayTake
  <2>7. \A r \in Pid : process'[r] = IF r = p THEN "alive" ELSE process[r]
    BY <1>1, <2>1, <2>3
  <2>8. \A r \in Pid : process'[r] # "none" => r \in DOMAIN asked' /\ commands'[r] = commands[r]
    BY <2>1, <2>7, AskedStays, CommandsStay DEF HoldInv
  <2>9. ASSUME NEW r \in Pid, process'[r] = "alive" PROVE Holds(r)'
    BY <2>3, <2>4, <2>5, <2>6, <2>7, <2>8, <2>9 DEF Holds, Outputs
  <2>10. ASSUME NEW r \in Pid, NEW t \in Pid, process'[r] = "alive", process'[t] = "alive", r # t
         PROVE  Apart(commands[r], commands[t])'
    <3>1. Apart(commands[r], commands[t])
      BY <2>6, <2>7, <2>10 DEF HoldInv
    <3> QED
      BY <2>8, <2>10, <3>1 DEF Apart, Outputs
  <2>11. /\ \A q \in readers' : ends'[q].read = "held"
         /\ \A q \in writers' : ends'[q].write = "held"
    BY <1>1, <2>3, <2>4 DEF HoldInv
  <2> QED
    BY <2>8, <2>9, <2>10, <2>11 DEF HoldInv
<1> QED
  BY <1>3, <1>4, <1>5, <1>6, <1>7, <1>8, <1>9, <1>10, PipeSteps

-----------------------------------------------------------------------------
(* The two ends of a pipe are made at once.                                *)

LEMMA MadeInit == Init => MadeTogether
  BY DEF Init, MadeTogether

LEMMA MadeStep ==
    ASSUME TInv, HoldInv, MadeTogether, [Next]_vars
    PROVE  MadeTogether'
<1>1. ends \in Ends
  BY DEF TInv, ExecTypes, Ends
<1> SUFFICES ASSUME NEW r \in Pipe
             PROVE  ends'[r].read = "unmade" <=> ends'[r].write = "unmade"
  BY DEF MadeTogether
<1>2. ends[r].read = "unmade" <=> ends[r].write = "unmade"
  BY DEF MadeTogether
<1>3. CASE UNCHANGED <<ends, process, readers, writers>>
  BY <1>2, <1>3
<1>4. ASSUME NEW q \in Pipe, Opens(q)
      PROVE  ends'[r] = ends[r] \/ (ends'[r].read # "unmade" /\ ends'[r].write # "unmade")
  BY <1>1, <1>4 DEF Opens, Ends
<1>5. ASSUME NEW q \in Pipe, BeginsToRead(q)
      PROVE  ends'[r].read = "unmade" <=> ends'[r].write = "unmade"
  BY <1>1, <1>2, <1>5, AfterEnd DEF BeginsToRead
<1>6. ASSUME NEW q \in Pipe, StopsReading(q) \/ StopsWriting(q)
      PROVE  ends'[r].read = "unmade" <=> ends'[r].write = "unmade"
  <2>1. (q \in readers => ends[q].read = "held") /\ (q \in writers => ends[q].write = "held")
    BY DEF HoldInv
  <2> QED
    BY <1>1, <1>2, <1>6, <2>1, AfterEnd DEF StopsReading, StopsWriting
<1>7. ASSUME NEW p \in tasks, Spawns(p)
      PROVE  ends'[r].read = "unmade" <=> ends'[r].write = "unmade"
  <2>1. commands[p] \in Command /\ ends' = Taken(commands[p])
    BY <1>7, TasksHaveCommands DEF Spawns
  <2> QED
    BY <1>1, <1>2, <2>1, AfterTaken
<1>8. ASSUME NEW p \in tasks, NEW full, NEW empty, Prints(p, full, empty)
      PROVE  ends'[r].read = "unmade" <=> ends'[r].write = "unmade"
  <2>1. full \in Pipe /\ empty \in Pipe /\ OutputAndClose(full, empty)
    BY <1>8, TasksHaveCommands, PipesOfCommand DEF Prints
  <2> QED
    BY <1>1, <1>2, <2>1, AfterOutput
<1>9. ASSUME NEW p \in Pid, NEW code \in ExitCode, Leaves(p, code)
      PROVE  ends'[r].read = "unmade" <=> ends'[r].write = "unmade"
  <2>1. commands[p] \in Command /\ Holds(p) /\ Dies(p, code)
    BY <1>9, CommandsStay DEF HoldInv, Leaves
  <2>2. /\ ends[commands[p].stdin].read = "held"
        /\ \A q \in {commands[p].stdout, commands[p].stderr} : ends[q].write = "held"
    BY <2>1 DEF Holds, Outputs
  <2> QED
    BY <1>1, <1>2, <2>1, <2>2, AfterDeath
<1> QED
  BY <1>2, <1>3, <1>4, <1>5, <1>6, <1>7, <1>8, <1>9, PipeSteps

(* Whatever requests a frontend sends and whatever the threads and processes do, the   *)
(* executor's state is of its type: each event and task names processes and pipes that *)
(* are there, no pipe holds more than it can, and who takes one end of a pipe leaves   *)
(* the other where it will be asked for.                                               *)
THEOREM ExecTypeCorrect == Spec => []ExecTypeOK
<1> DEFINE Made == TInv /\ HoldInv /\ MadeTogether
<1>1. Init => Made
  BY TInvInit, HoldInit, MadeInit
<1>2. Made /\ [Next]_vars => Made'
  BY TInvStep, HoldStep, MadeStep
<1>3. Made => ExecTypeOK
  BY DEF TInv, ExecTypeOK
<1> QED
  BY <1>1, <1>2, <1>3, PTL DEF Spec

-----------------------------------------------------------------------------
(* What is reported of a process.                                          *)

HasLetGo(p) ==
    /\ ends[commands[p].stdin].read = "closed"
    /\ \A q \in Outputs(commands[p]) : ends[q].write = "closed"

LetGoInv == \A p \in Pid : process[p] \in ExitCode => HasLetGo(p)

\* An end that is closed stays closed.
LEMMA ClosedStays ==
    ASSUME TInv, HoldInv, [Next]_vars, NEW r \in Pipe
    PROVE  /\ ends[r].read = "closed" => ends'[r].read = "closed"
           /\ ends[r].write = "closed" => ends'[r].write = "closed"
<1>1. ends \in Ends
  BY DEF TInv, ExecTypes, Ends
<1>2. CASE UNCHANGED <<ends, process, readers, writers>>
  BY <1>2
<1>3. ASSUME NEW q \in Pipe, Opens(q)
      PROVE  ends'[r] = ends[r] \/ (ends[r].read # "closed" /\ ends[r].write # "closed")
  BY <1>1, <1>3 DEF Opens, Ends
<1>4. ASSUME NEW q \in Pipe, BeginsToRead(q)
      PROVE  /\ ends[r].read = "closed" => ends'[r].read = "closed"
             /\ ends[r].write = "closed" => ends'[r].write = "closed"
  BY <1>1, <1>4, AfterEnd DEF BeginsToRead, MayTake
<1>5. ASSUME NEW q \in Pipe, StopsReading(q) \/ StopsWriting(q)
      PROVE  /\ ends[r].read = "closed" => ends'[r].read = "closed"
             /\ ends[r].write = "closed" => ends'[r].write = "closed"
  BY <1>1, <1>5, AfterEnd DEF StopsReading, StopsWriting
<1>6. ASSUME NEW p \in tasks, Spawns(p)
      PROVE  /\ ends[r].read = "closed" => ends'[r].read = "closed"
             /\ ends[r].write = "closed" => ends'[r].write = "closed"
  <2>1. commands[p] \in Command
    BY TasksHaveCommands
  <2> QED
    BY <1>1, <1>6, <2>1, AfterTaken DEF Spawns, CanTake, CanWrite, MayTake
<1>7. ASSUME NEW p \in tasks, NEW full, NEW empty, Prints(p, full, empty)
      PROVE  /\ ends[r].read = "closed" => ends'[r].read = "closed"
             /\ ends[r].write = "closed" => ends'[r].write = "closed"
  <2>1. full \in Pipe /\ empty \in Pipe
    BY <1>7, TasksHaveCommands, PipesOfCommand DEF Prints
  <2>2. OutputAndClose(full, empty) /\ MayTake(ends[full].write) /\ MayTake(ends[empty].write)
    BY <1>7 DEF Prints, OutputAndClose
  <2> QED
    BY <1>1, <2>1, <2>2, AfterOutput DEF MayTake
<1>8. ASSUME NEW p \in Pid, NEW code \in ExitCode, Leaves(p, code)
      PROVE  /\ ends[r].read = "closed" => ends'[r].read = "closed"
             /\ ends[r].write = "closed" => ends'[r].write = "closed"
  <2>1. commands[p] \in Command
    BY <1>8, CommandsStay DEF HoldInv, Leaves
  <2> QED
    BY <1>1, <1>8, <2>1, AfterDeath DEF Leaves
<1> QED
  BY <1>2, <1>3, <1>4, <1>5, <1>6, <1>7, <1>8, PipeSteps

\* A process that is gone has let go of its pipes, for good.
LEMMA LetGoStep ==
    ASSUME TInv, HoldInv, LetGoInv, [Next]_vars
    PROVE  LetGoInv'
<1> SUFFICES ASSUME NEW p \in Pid, process'[p] \in ExitCode
             PROVE  HasLetGo(p)'
  BY DEF LetGoInv
<1>1. process \in [Pid -> {"none", "alive"} \cup ExitCode] /\ ends \in Ends
  BY DEF TInv, ExecTypes, Ends
<1>2. "none" \notin ExitCode /\ "alive" \notin ExitCode
  BY DEF ExitCode
<1>3. CASE process[p] \in ExitCode
  <2>1. commands[p] \in Command /\ commands'[p] = commands[p]
    BY <1>2, <1>3, CommandsStay DEF HoldInv
  <2>2. HasLetGo(p)
    BY <1>3 DEF LetGoInv
  <2>3. commands[p].stdin \in Pipe /\ Outputs(commands[p]) \subseteq Pipe
    BY <2>1, PipesOfCommand
  <2> QED
    BY <2>1, <2>2, <2>3, ClosedStays DEF HasLetGo, Outputs
<1>4. CASE process[p] \notin ExitCode
  <2>1. process' # process
    BY <1>4
  <2>2. ASSUME NEW r \in tasks, Spawns(r) PROVE FALSE
    BY <1>1, <1>2, <1>4, <2>2, TasksHaveCommands DEF Spawns
  <2>3. PICK r \in Pid, code \in ExitCode : Leaves(r, code)
    BY <2>1, <2>2, PipeSteps DEF Opens, BeginsToRead, StopsReading, StopsWriting, Prints, OutputAndClose
  <2>4. r = p
    BY <1>1, <1>4, <2>3 DEF Leaves, Dies
  <2>5. commands[p] \in Command /\ commands'[p] = commands[p]
    BY <2>3, <2>4, CommandsStay DEF HoldInv, Leaves
  <2>6. commands[p].stdin \in Pipe /\ Outputs(commands[p]) \subseteq Pipe
    BY <2>5, PipesOfCommand
  <2>7. /\ ends'[commands[p].stdin].read = "closed"
        /\ \A q \in Outputs(commands[p]) : ends'[q].write = "closed"
    BY <1>1, <2>3, <2>4, <2>5, <2>6, AfterDeath DEF Leaves, Outputs
  <2> QED
    BY <2>5, <2>7 DEF HasLetGo, Outputs
<1> QED
  BY <1>3, <1>4

LEMMA LetGoInit == Init => LetGoInv
  BY DEF Init, LetGoInv, ExitCode

\* How far p has come, and what is known of it on the way and at the end.
Reports(p) ==
    /\ process[p] # "none" => p \in DOMAIN running \cup DOMAIN finished
    /\ waiter[p] # "none" => process[p] # "none"
    /\ waiter[p] = "done" => process[p] \in ExitCode
    /\ \A i \in Completions(p) : chan[i].code = process[p]
    /\ p \in DOMAIN running => commands[p].kind = IF running[p] = "Running" THEN "Unknown" ELSE "Edit"
    /\ p \in DOMAIN finished /\ commands[p].kind = "Unknown" =>
          /\ waiter[p] = "done" /\ finished[p] = StatusOf(process[p])
          /\ \A i \in AnswersTo(p) : sent[i] = CommandDone(p, process[p])

ExitInv == Alive => \A p \in Pid : Reports(p)

LEMMA ExitInit == Init => ExitInv
<1> SUFFICES ASSUME Init, NEW p \in Pid PROVE Reports(p)
  BY DEF ExitInv
<1>1. /\ process[p] = "none" /\ waiter[p] = "none" /\ chan = <<>>
      /\ DOMAIN running = {} /\ DOMAIN finished = {}
  BY DEF Init, MachineInit, EmptyMap
<1>2. Completions(p) = {}
  BY <1>1 DEF Completions
<1> QED
  BY <1>1, <1>2 DEF Reports

\* What becomes of the completions of p in the channel.
LEMMA CompletionsKept ==
    ASSUME chan \in Seq(Event), NEW p
    PROVE  /\ UNCHANGED chan => \A i \in Completions(p)' : i \in Completions(p) /\ chan'[i] = chan[i]
           /\ \A event : chan' = Append(chan, event) /\ ~Completes(event, p) =>
                 \A i \in Completions(p)' : i \in Completions(p) /\ chan'[i] = chan[i]
           /\ chan # <<>> /\ chan' = Tail(chan) =>
                 \A i \in Completions(p)' : i + 1 \in Completions(p) /\ chan'[i] = chan[i + 1]
<1>1. UNCHANGED chan => \A i \in Completions(p)' : i \in Completions(p) /\ chan'[i] = chan[i]
  BY DEF Completions
<1>2. ASSUME NEW event, chan' = Append(chan, event), ~Completes(event, p)
      PROVE  \A i \in Completions(p)' : i \in Completions(p) /\ chan'[i] = chan[i]
  BY <1>2, Appended DEF Completions, Completes
<1>3. ASSUME chan # <<>>, chan' = Tail(chan)
      PROVE  \A i \in Completions(p)' : i + 1 \in Completions(p) /\ chan'[i] = chan[i + 1]
  BY <1>3, Dropped DEF Completions
<1> QED
  BY <1>1, <1>2, <1>3

\* What is sent stays sent.
LEMMA SentGrows ==
    ASSUME TInv, [Next]_vars
    PROVE  sent' = sent \/ \E message : sent' = Append(sent, message)
<1>1. CASE Handle
  BY <1>1 DEF Handle, HandleEnqueue, HandleCompleted, HandleOpenFile, HandleBeginRead, HandlePipe,
              HandleEditComplete, HandleCancel, Finish, Respond
<1>2. CASE RunTask
  BY <1>2 DEF RunTask, StartProcess, SpawnFails, RunSetDirectory, RunGetDirectory, BeginEdit,
              EditUnreadable, ReportRefused, EndAtOnce, Respond
<1>3. CASE ~Handle /\ ~RunTask
  BY <1>3 DEF Next, Executor, SendRequest, SendCancel, SendEdit, ProcessStep, Writes, Consumes,
         ExitsWith, LockChild, Reap, ReaderReads, ReaderEnds, WriterWrites, Kill, vars, ctlVars
<1> QED
  BY <1>1, <1>2, <1>3

\* To a process that has finished no step gives an answer.
LEMMA AnswersKept ==
    ASSUME TInv, WorkInv, AnswerInv, [Next]_vars, Alive, NEW p \in DOMAIN finished
    PROVE  \A i \in AnswersTo(p)' : i \in AnswersTo(p) /\ sent'[i] = sent[i]
<1>1. p \in Pid /\ AnswersTo(p) # {}
  BY DEF TInv, IInv, TypeOK, IsMap, AnswerInv
<1>2. \A i : i \in AnswersTo(p)' <=> i \in AnswersTo(p)
  <2>1. CASE \A r : AnswersTo(r)' = AnswersTo(r)
    BY <2>1
  <2>2. ASSUME NEW r \in Pid, Unanswered(r),
               \A t, i : i \in AnswersTo(t)' <=> i \in AnswersTo(t) \/ (t = r /\ i = Len(sent) + 1)
        PROVE  \A i : i \in AnswersTo(p)' <=> i \in AnswersTo(p)
    <3>1. r # p
      BY <1>1, <2>2, NotYetAnswered
    <3> QED
      BY <2>2, <3>1
  <2> QED
    BY <2>1, <2>2, AnswerSteps
<1>3. \A i \in DOMAIN sent : sent'[i] = sent[i]
  <2>1. sent \in Seq(Response)
    BY DEF TInv, ExecTypes
  <2> QED
    BY <2>1, SentGrows, Appended
<1> QED
  BY <1>2, <1>3 DEF AnswersTo

ExecInv == TInv /\ WorkInv /\ AnswerInv /\ RunInv /\ HoldInv /\ LetGoInv

\* Where nothing happens to p, what is known of it stays known.
LEMMA ReportsKept ==
    ASSUME ExecInv, [Next]_vars, Alive, NEW p \in Pid, Reports(p),
           process'[p] = process[p], waiter'[p] = waiter[p],
           p \in DOMAIN running' <=> p \in DOMAIN running,
           p \in DOMAIN running => running'[p] = running[p],
           p \in DOMAIN finished' <=> p \in DOMAIN finished,
           p \in DOMAIN finished => finished'[p] = finished[p],
           \A i \in Completions(p)' : \E j \in Completions(p) : chan'[i] = chan[j]
    PROVE  Reports(p)'
<1>1. ASSUME p \in DOMAIN running \cup DOMAIN finished
      PROVE  commands'[p] = commands[p]
  BY <1>1, CommandsStay DEF ExecInv, TInv, IInv, OneState
<1>2. p \in DOMAIN finished => \A i \in AnswersTo(p)' : i \in AnswersTo(p) /\ sent'[i] = sent[i]
  BY AnswersKept DEF ExecInv
<1> QED
  BY <1>1, <1>2 DEF Reports, CommandDone

\* The result of a process that has ended goes to the frontend and to those who wait for it.
LEMMA ReportsFinished ==
    ASSUME ExecInv, [Next]_vars, Alive, Alive', NEW p \in Pid, Reports(p), NEW code,
           Finish(p, code), UNCHANGED <<process, waiter>>,
           commands[p].kind = "Unknown" => waiter[p] = "done" /\ code = process[p],
           \A i \in Completions(p)' : \E j \in Completions(p) : chan'[i] = chan[j],
           NEW r \in Pid, Reports(r),
           \A i \in Completions(r)' : \E j \in Completions(r) : chan'[i] = chan[j]
    PROVE  Reports(r)'
<1>1. Completed(p, StatusOf(code)) /\ Respond(CommandDone(p, code)) /\ p \in DOMAIN running
  BY DEF Finish, Completed
<1>2. running' = Remove(running, p) /\ finished' = Put(finished, p, StatusOf(code))
  BY <1>1 DEF Completed, ResolvePanics, Resolve, Alive
<1>3. /\ \A t : t \in DOMAIN running' <=> t \in DOMAIN running /\ t # p
      /\ \A t \in DOMAIN running' : running'[t] = running[t]
      /\ \A t : t \in DOMAIN finished' <=> t \in DOMAIN finished \/ t = p
      /\ finished'[p] = StatusOf(code)
      /\ \A t \in DOMAIN finished : t # p => finished'[t] = finished[t]
  BY <1>2, RemoveIsMap, PutIsMap
<1>4. CASE r # p
  BY <1>3, <1>4, ReportsKept
<1>5. CASE r = p
  <2>1. AnswersTo(p) = {}
    BY <1>1, NotYetAnswered DEF ExecInv, Unanswered
  <2>2. sent \in Seq(Response)
    BY DEF ExecInv, TInv, ExecTypes
  <2>3. \A i \in AnswersTo(p)' : sent'[i] = CommandDone(p, code)
    BY <1>1, <2>1, <2>2, AnswerGiven, Appended DEF Respond
  <2>4. commands'[p] = commands[p]
    BY <1>1, CommandsStay DEF ExecInv, TInv, IInv, OneState
  <2> QED
    BY <1>3, <1>5, <2>3, <2>4 DEF Reports, CommandDone
<1> QED
  BY <1>4, <1>5

LEMMA ExitHandled ==
    ASSUME ExecInv, [Next]_vars, Alive, Alive', \A r \in Pid : Reports(r), Handle, NEW p \in Pid
    PROVE  Reports(p)'
<1> DEFINE event == Head(chan)
<1>1. chan # <<>> /\ chan' = Tail(chan) /\ UNCHANGED <<process, waiter>>
  BY DEF Handle, HandleEnqueue, HandleCompleted, HandleOpenFile, HandleBeginRead, HandlePipe,
         HandleEditComplete, HandleCancel, Take, ioVars
<1>2. chan \in Seq(Event) /\ event \in Event /\ 1 \in DOMAIN chan /\ chan[1] = event
  <2>1. chan \in Seq(Event)
    BY DEF ExecInv, TInv, ExecTypes
  <2> QED
    BY <1>1, <2>1, Dropped
<1>3. \A r : \A i \in Completions(r)' : \E j \in Completions(r) : chan'[i] = chan[j]
  BY <1>1, <1>2, CompletionsKept
<1>4. ASSUME UNCHANGED <<running, finished>> PROVE Reports(p)'
  BY <1>1, <1>3, <1>4, ReportsKept
<1>5. CASE HandleEnqueue
  <2>1. UNCHANGED <<running, finished>>
    BY <1>5 DEF HandleEnqueue, Enqueue, EnqueueRefused, EnqueueUnknown, EnqueueReady, EnqueueBlocked
  <2> QED
    BY <1>4, <2>1
<1>6. CASE HandleOpenFile \/ HandleBeginRead \/ HandlePipe \/ HandleCancel
  BY <1>4, <1>6 DEF HandleOpenFile, HandleBeginRead, HandlePipe, HandleCancel, machineVars
<1>7. CASE HandleCompleted
  <2> DEFINE r == event.pid
  <2>1. event.type = "Completed" /\ r \in Pid /\ Finish(r, event.code)
    BY <1>2, <1>7, EventFields DEF HandleCompleted, Take
  <2>2. 1 \in Completions(r)
    BY <1>2, <2>1 DEF Completions
  <2>3. waiter[r] = "done" /\ event.code = process[r]
    BY <1>2, <2>1, <2>2 DEF ExecInv, RunInv, Coming, Reports
  <2> HIDE DEF r
  <2> QED
    BY <1>1, <1>3, <2>1, <2>3, ReportsFinished
<1>8. CASE HandleEditComplete
  <2> DEFINE r == event.pid
  <2>1. event.type = "EditComplete" /\ r \in Pid /\ r \in waiting_edits
    BY <1>2, <1>8, EventFields DEF HandleEditComplete, Take
  <2>2. Finish(r, "0")
    BY <1>8 DEF HandleEditComplete, Alive
  <2>3. r \in DOMAIN running /\ running[r] = "AwaitingEdit"
    BY <2>1 DEF ExecInv, RunInv
  <2>4. commands[r].kind = "Edit"
    BY <2>1, <2>3 DEF Reports
  <2> HIDE DEF r
  <2> QED
    BY <1>1, <1>3, <2>1, <2>2, <2>4, ReportsFinished
<1> QED
  BY <1>5, <1>6, <1>7, <1>8 DEF Handle

LEMMA ExitActedUpon ==
    ASSUME ExecInv, [Next]_vars, Alive, Alive', \A r \in Pid : Reports(r), RunTask, NEW p \in Pid
    PROVE  Reports(p)'
<1> DEFINE r == Head(work).pid
<1>1. /\ UNCHANGED chan /\ chan \in Seq(Event)
      /\ process \in [Pid -> {"none", "alive"} \cup ExitCode]
      /\ waiter \in [Pid -> {"none", "spawned", "waiting", "done"}]
  BY DEF RunTask, StartProcess, SpawnFails, RunSetDirectory, RunGetDirectory, BeginEdit,
         EditUnreadable, ReportRefused, ExecInv, TInv, ExecTypes
<1>2. \A t : \A i \in Completions(t)' : i \in Completions(t) /\ chan'[i] = chan[i]
  BY <1>1, CompletionsKept
\* One whose task is in hand has not begun.
<1>3. ASSUME r \in tasks
      PROVE  /\ r \in Pid /\ r \in DOMAIN asked /\ r \notin DOMAIN running /\ r \notin DOMAIN finished
             /\ process[r] = "none" /\ waiter[r] = "none" /\ Completions(r) = {}
             /\ commands'[r] = commands[r]
  <2>1. r \in Pid /\ r \in DOMAIN asked /\ r \notin DOMAIN running /\ r \notin DOMAIN finished
    BY <1>3 DEF ExecInv, TInv, IInv, TypeOK, OneState, TasksAreToRun
  <2>2. process[r] = "none" /\ waiter[r] = "none"
    BY <2>1 DEF Reports
  <2>3. Completions(r) = {}
    BY <2>1, <2>2 DEF ExecInv, RunInv, Coming
  <2>4. commands'[r] = commands[r]
    BY <2>1, CommandsStay DEF ExecInv
  <2> QED
    BY <2>1, <2>2, <2>3, <2>4
<1>4. ASSUME NEW state, Start(r, state)
      PROVE  /\ r \in tasks /\ finished' = finished
             /\ \A t : t \in DOMAIN running' <=> t \in DOMAIN running \/ t = r
             /\ running'[r] = state
             /\ \A t \in DOMAIN running : t # r => running'[t] = running[t]
  BY <1>4, PutIsMap DEF Start
<1>5. CASE StartProcess
  <2>1. /\ Start(r, "Running") /\ commands[r].kind = "Unknown"
        /\ process' = [process EXCEPT ![r] = "alive"] /\ waiter' = [waiter EXCEPT ![r] = "spawned"]
    BY <1>5 DEF StartProcess, ActOnStart
  <2>2. CASE p # r
    BY <1>1, <1>2, <1>4, <2>1, <2>2, ReportsKept
  <2>3. CASE p = r
    <3>1. process'[p] = "alive" /\ waiter'[p] = "spawned" /\ Completions(p)' = {}
      BY <2>3, <1>1, <1>2, <1>3, <1>4, <2>1
    <3>2. p \in DOMAIN running' /\ running'[p] = "Running" /\ p \notin DOMAIN finished'
      BY <2>3, <1>3, <1>4, <2>1
    <3>3. commands'[p].kind = "Unknown"
      BY <2>3, <1>3, <1>4, <2>1
    <3> QED
      BY <2>3, <3>1, <3>2, <3>3 DEF Reports
  <2> QED
    BY <2>2, <2>3
<1>6. CASE BeginEdit
  <2>1. /\ Start(r, "AwaitingEdit") /\ commands[r].kind = "Edit" /\ UNCHANGED <<process, waiter>>
    BY <1>6 DEF BeginEdit, ActOnStart, ioVars
  <2>2. CASE p # r
    BY <1>2, <1>4, <2>1, <2>2, ReportsKept
  <2>3. CASE p = r
    <3>1. process'[p] = "none" /\ waiter'[p] = "none" /\ Completions(p)' = {}
      BY <2>3, <1>2, <1>3, <1>4, <2>1
    <3>2. p \in DOMAIN running' /\ running'[p] = "AwaitingEdit" /\ p \notin DOMAIN finished'
      BY <2>3, <1>3, <1>4, <2>1
    <3>3. commands'[p].kind = "Edit"
      BY <2>3, <1>3, <1>4, <2>1
    <3> QED
      BY <2>3, <3>1, <3>2, <3>3 DEF Reports
  <2> QED
    BY <2>2, <2>3
<1>7. CASE RunSetDirectory \/ RunGetDirectory \/ EditUnreadable
  <2>1. PICK status, code : EndAtOnce(r, status, code)
    BY <1>7 DEF RunSetDirectory, RunGetDirectory, EditUnreadable
  <2>2. commands[r].kind # "Unknown" /\ UNCHANGED <<process, waiter>>
    BY <1>7 DEF RunSetDirectory, RunGetDirectory, EditUnreadable, ActOnStart, OutputAndClose
  <2>3. r \in tasks /\ running' = running /\ finished' = Put(finished, r, status)
    BY <2>1 DEF EndAtOnce, StartCompleted, ResolvePanics, Resolve, Alive
  <2>4. /\ \A t : t \in DOMAIN finished' <=> t \in DOMAIN finished \/ t = r
        /\ \A t \in DOMAIN finished : t # r => finished'[t] = finished[t]
    BY <2>3, PutIsMap
  <2>5. CASE p # r
    BY <1>2, <2>2, <2>3, <2>4, <2>5, ReportsKept
  <2>6. CASE p = r
    <3>1. process'[p] = "none" /\ waiter'[p] = "none" /\ Completions(p)' = {} /\ p \notin DOMAIN running'
      BY <2>6, <1>2, <1>3, <2>2, <2>3
    <3>2. commands'[p].kind # "Unknown"
      BY <2>6, <1>3, <2>2, <2>3
    <3> QED
      BY <2>6, <3>1, <3>2 DEF Reports
  <2> QED
    BY <2>5, <2>6
<1>8. CASE SpawnFails
  <2>1. panicked' # "no" \/ crashed' = "write side taken"
    BY <1>8 DEF SpawnFails
  <2> QED
    BY <2>1 DEF Alive
<1>9. CASE ReportRefused
  BY <1>2, <1>9, ReportsKept DEF ReportRefused, machineVars, ioVars
<1> QED
  BY <1>5, <1>6, <1>7, <1>8, <1>9 DEF RunTask

LEMMA ExitOutside ==
    ASSUME ExecInv, [Next]_vars, Alive, Alive', \A r \in Pid : Reports(r), NEW p \in Pid,
           \/ SendRequest \/ \E r \in Pid : Kill(r)
           \/ \E r \in Pid : SendCancel(r) \/ SendEdit(r) \/ ProcessStep(r) \/ LockChild(r) \/ Reap(r)
           \/ \E q \in Pipe : ReaderReads(q) \/ ReaderEnds(q) \/ WriterWrites(q)
    PROVE  Reports(p)'
<1>1. /\ chan \in Seq(Event) /\ inbox \in Seq(Request)
      /\ process \in [Pid -> {"none", "alive"} \cup ExitCode]
      /\ waiter \in [Pid -> {"none", "spawned", "waiting", "done"}]
  BY DEF ExecInv, TInv, ExecTypes
<1>2. UNCHANGED <<running, finished>>
  BY DEF SendRequest, Kill, SendCancel, SendEdit, ProcessStep, Writes, Consumes, ExitsWith, LockChild,
         Reap, ReaderReads, ReaderEnds, WriterWrites, machineVars
<1>3. ASSUME NEW event, chan' = Append(chan, event), event.type # "Completed",
             UNCHANGED <<process, waiter>>
      PROVE  Reports(p)'
  BY <1>1, <1>2, <1>3, CompletionsKept, ReportsKept DEF Completes
<1>4. CASE SendRequest
  <2>1. Head(inbox) \in Request
    BY <1>1, <1>4 DEF SendRequest
  <2>2. Head(inbox).type # "Completed"
    BY <2>1 DEF Request, PipeRequest
  <2> QED
    BY <1>3, <1>4, <2>2 DEF SendRequest, ioVars
<1>5. CASE \E r \in Pid : SendCancel(r) \/ SendEdit(r)
  BY <1>3, <1>5 DEF SendCancel, SendEdit, ioVars
<1>6. CASE \E q \in Pipe : ReaderReads(q) \/ ReaderEnds(q)
  BY <1>3, <1>6 DEF ReaderReads, ReaderEnds
<1>7. ASSUME UNCHANGED <<chan, process, waiter>> PROVE Reports(p)'
  BY <1>1, <1>2, <1>7, CompletionsKept, ReportsKept
<1>8. CASE \E q \in Pipe : WriterWrites(q)
  BY <1>7, <1>8 DEF WriterWrites, ctlVars
<1>9. ASSUME NEW r \in Pid, ProcessStep(r) \/ Kill(r) PROVE Reports(p)'
  <2>1. UNCHANGED <<chan, waiter>>
    BY <1>9 DEF ProcessStep, Writes, Consumes, ExitsWith, Kill, ctlVars
  <2>2. (UNCHANGED process) \/ \E code \in ExitCode : process[r] = "alive" /\ Dies(r, code)
    BY <1>9 DEF ProcessStep, Writes, Consumes, ExitsWith, Kill, ExitCode
  <2>3. ASSUME NEW code \in ExitCode, process[r] = "alive", process' = [process EXCEPT ![r] = code], p = r
        PROVE  Reports(p)'
    <3>1. process'[r] \in ExitCode /\ "none" \notin ExitCode /\ "alive" \notin ExitCode
      BY <1>1, <2>3 DEF ExitCode
    <3>2. waiter[r] # "done" /\ Completions(r) = {}
      BY <2>3, <3>1 DEF Reports, ExecInv, RunInv, Coming
    <3>3. Completions(r)' = {}
      BY <1>1, <2>1, <3>2, CompletionsKept
    <3>4. r \in DOMAIN asked /\ commands'[r] = commands[r]
      BY <2>3, CommandsStay DEF ExecInv, HoldInv
    <3> QED
      BY <1>2, <2>1, <2>3, <3>1, <3>2, <3>3, <3>4 DEF Reports
  <2>4. ASSUME NEW code \in ExitCode, process' = [process EXCEPT ![r] = code], p # r
        PROVE  Reports(p)'
    BY <1>1, <1>2, <2>1, <2>4, CompletionsKept, ReportsKept
  <2> QED
    BY <1>7, <2>1, <2>2, <2>3, <2>4 DEF Dies
<1>10. ASSUME NEW r \in Pid, LockChild(r) PROVE Reports(p)'
  <2>1. /\ waiter[r] = "spawned" /\ waiter' = [waiter EXCEPT ![r] = "waiting"]
        /\ UNCHANGED <<chan, process, commands, sent>>
    BY <1>10 DEF LockChild, ctlVars
  <2>2. CASE p # r
    BY <1>1, <1>2, <2>1, <2>2, CompletionsKept, ReportsKept
  <2>3. CASE p = r
    <3>1. waiter'[r] = "waiting" /\ \A i \in Completions(r)' : chan'[i].code = process[r]
      BY <1>1, <2>1, CompletionsKept DEF Reports
    <3> QED
      BY <1>2, <2>1, <2>3, <3>1 DEF Reports
  <2> QED
    BY <2>2, <2>3
<1>11. ASSUME NEW r \in Pid, Reap(r) PROVE Reports(p)'
  <2> DEFINE event == [type |-> "Completed", pid |-> r, code |-> process[r]]
  <2>1. /\ waiter[r] = "waiting" /\ waiter' = [waiter EXCEPT ![r] = "done"]
        /\ process[r] \in ExitCode /\ chan' = Append(chan, event)
        /\ UNCHANGED <<process, commands, sent>>
    BY <1>11 DEF Reap
  <2>2. ~Completes(event, p) <=> p # r
    BY DEF Completes
  <2>3. CASE p # r
    BY <1>1, <1>2, <2>1, <2>2, <2>3, CompletionsKept, ReportsKept
  <2>4. CASE p = r
    <3>1. Completions(r) = {}
      BY <2>1 DEF ExecInv, RunInv, Coming
    <3>2. \A i \in Completions(r)' : chan'[i] = event
      BY <1>1, <2>1, <3>1, Appended DEF Completions
    <3>3. waiter'[r] = "done"
      BY <1>1, <2>1
    <3>4. \A i \in Completions(r)' : chan'[i].code = process[r]
      BY <3>2
    <3> QED
      BY <1>2, <2>1, <2>4, <3>3, <3>4 DEF Reports
  <2> QED
    BY <2>3, <2>4
<1> QED
  BY <1>4, <1>5, <1>6, <1>8, <1>9, <1>10, <1>11

LEMMA ExitStep ==
    ASSUME ExecInv, ExitInv, [Next]_vars
    PROVE  ExitInv'
<1> SUFFICES ASSUME Alive', NEW p \in Pid PROVE Reports(p)'
  BY DEF ExitInv
<1>1. Alive /\ \A r \in Pid : Reports(r)
  <2>1. UNCHANGED vars => Alive
    BY DEF vars, machineVars, ctlVars, Alive
  <2> QED
    BY <2>1, StoppedForGood DEF ExitInv
<1>2. CASE UNCHANGED vars
  <2>1. UNCHANGED <<chan, sent, running, finished, process, waiter, commands>>
    BY <1>2 DEF vars, machineVars, ioVars, userVars, ctlVars
  <2> QED
    BY <1>1, <2>1 DEF Reports, Completions, AnswersTo, CommandDone
<1>3. CASE Next
  BY <1>1, <1>3, ExitHandled, ExitActedUpon, ExitOutside DEF Next, Executor
<1> QED
  BY <1>2, <1>3

LEMMA ExecInvInit == Init => ExecInv
  BY TInvInit, WorkInit, AnswerInit, RunInit, HoldInit, LetGoInit DEF ExecInv

LEMMA ExecInvStep == ExecInv /\ [Next]_vars => ExecInv'
  BY TInvStep, WorkStep, AnswerStep, RunStep, HoldStep, LetGoStep DEF ExecInv

(* What the frontend is told of a process, and what decides whether those who wait for   *)
(* it may run, is the code that it exited with; it has let go of its pipes by then.      *)
THEOREM ExitsAreReported == Spec => []ReportedAsExited
<1>1. ExecInv /\ ExitInv => ReportedAsExited
  <2> SUFFICES ASSUME ExecInv, ExitInv, Alive, NEW p \in DOMAIN finished, commands[p].kind = "Unknown"
               PROVE  /\ waiter[p] = "done" /\ process[p] \in ExitCode
                      /\ AnswersTo(p) = Places(sent, CommandDone(p, process[p]))
                      /\ finished[p] = "Success" <=> process[p] = "0"
                      /\ \A s \in Stream : ends[commands[p][s]].write = "closed"
                      /\ ends[commands[p].stdin].read = "closed"
    BY DEF ReportedAsExited
  <2>1. p \in Pid /\ commands[p] \in Command
    BY CommandsStay DEF ExecInv, TInv, IInv, OneState, TypeOK, IsMap, ExecTypes, CommandsKnown
  <2>2. Reports(p)
    BY <2>1 DEF ExitInv
  <2>3. AnswersTo(p) = Places(sent, CommandDone(p, process[p]))
    BY <2>2 DEF Reports, AnswersTo, Places, CommandDone
  <2>4. finished[p] = "Success" <=> process[p] = "0"
    BY <2>2 DEF Reports, StatusOf
  <2>5. HasLetGo(p)
    BY <2>1, <2>2 DEF Reports, ExecInv, LetGoInv
  <2>6. \A s \in Stream : ends[commands[p][s]].write = "closed"
    BY <2>1, <2>5, PipesOfCommand DEF HasLetGo
  <2> QED
    BY <2>2, <2>3, <2>4, <2>5, <2>6 DEF Reports, HasLetGo
<1>2. ExecInv /\ ExitInv /\ [Next]_vars => ExitInv'
  BY ExitStep
<1> QED
  BY <1>1, <1>2, ExecInvInit, ExecInvStep, ExitInit, PTL DEF Spec

-----------------------------------------------------------------------------
(* Counting messages.                                                      *)

LEMMA PlacesFinite ==
    ASSUME NEW S, NEW seq \in Seq(S), NEW m
    PROVE  IsFiniteSet(Places(seq, m)) /\ Count(seq, m) \in Nat
           /\ (Count(seq, m) = 0 <=> Places(seq, m) = {})
<1>1. IsFiniteSet(DOMAIN seq)
  BY FS_Interval
<1>2. IsFiniteSet(Places(seq, m))
  BY <1>1, FS_Subset DEF Places
<1> QED
  BY <1>2, FS_CardinalityType, FS_EmptySet DEF Count

LEMMA CountAppended ==
    ASSUME NEW S, NEW seq \in Seq(S), NEW e, NEW m
    PROVE  /\ \A i : i \in Places(Append(seq, e), m) <=>
                        i \in Places(seq, m) \/ (e = m /\ i = Len(seq) + 1)
           /\ Count(Append(seq, e), m) = IF e = m THEN Count(seq, m) + 1 ELSE Count(seq, m)
<1>1. \A i : i \in Places(Append(seq, e), m) <=> i \in Places(seq, m) \/ (e = m /\ i = Len(seq) + 1)
  BY Appended DEF Places
<1>2. CASE e = m
  <2>1. Places(Append(seq, e), m) = Places(seq, m) \cup {Len(seq) + 1}
    BY <1>1, <1>2
  <2>2. Len(seq) + 1 \notin Places(seq, m)
    BY Appended DEF Places
  <2>3. IsFiniteSet(Places(seq, m))
    BY PlacesFinite
  <2>4. Cardinality(Places(seq, m) \cup {Len(seq) + 1}) = Cardinality(Places(seq, m)) + 1
    BY <2>2, <2>3, FS_AddElement
  <2> QED
    BY <1>1, <1>2, <2>1, <2>4 DEF Count
<1>3. CASE e # m
  <2>1. Places(Append(seq, e), m) = Places(seq, m)
    BY <1>1, <1>3
  <2> QED
    BY <1>1, <1>3, <2>1 DEF Count
<1> QED
  BY <1>2, <1>3

LEMMA CountTaken ==
    ASSUME NEW S, NEW seq \in Seq(S), seq # <<>>, NEW m
    PROVE  /\ \A i \in Places(Tail(seq), m) : i + 1 \in Places(seq, m) /\ i \in Nat
           /\ Count(Tail(seq), m) = IF Head(seq) = m THEN Count(seq, m) - 1 ELSE Count(seq, m)
<1> DEFINE rest == Places(seq, m) \ {1} shift == [i \in Places(Tail(seq), m) |-> i + 1]
<1>1. /\ 1 \in DOMAIN seq /\ Head(seq) = seq[1]
      /\ \A i \in DOMAIN Tail(seq) : i + 1 \in DOMAIN seq /\ i + 1 # 1 /\ Tail(seq)[i] = seq[i + 1]
      /\ \A i \in DOMAIN seq : i # 1 => i - 1 \in DOMAIN Tail(seq) /\ Tail(seq)[i - 1] = seq[i]
      /\ \A i, j \in DOMAIN Tail(seq) : i + 1 = j + 1 => i = j
  BY Dropped
<1>2. DOMAIN Tail(seq) \subseteq Nat /\ DOMAIN seq \subseteq Nat
  OBVIOUS
<1>3. \A i \in Places(Tail(seq), m) : i + 1 \in rest /\ i \in DOMAIN Tail(seq)
  BY <1>1 DEF Places
<1>4. \A j \in rest : j - 1 \in Places(Tail(seq), m) /\ j = (j - 1) + 1
  BY <1>1, <1>2 DEF Places
<1>5. shift \in Bijection(Places(Tail(seq), m), rest)
  <2>1. shift \in [Places(Tail(seq), m) -> rest]
    BY <1>3
  <2>2. \A i, j \in Places(Tail(seq), m) : shift[i] = shift[j] => i = j
    BY <1>1, <1>3
  <2>3. \A j \in rest : \E i \in Places(Tail(seq), m) : shift[i] = j
    BY <1>4
  <2> HIDE DEF shift, rest
  <2> QED
    BY <2>1, <2>2, <2>3 DEF Bijection, Injection, Surjection, IsInjective
<1>6. IsFiniteSet(Places(Tail(seq), m)) /\ IsFiniteSet(Places(seq, m))
  <2>1. Tail(seq) \in Seq(S)
    OBVIOUS
  <2> QED
    BY <2>1, PlacesFinite
<1>7. Cardinality(rest) = Cardinality(Places(Tail(seq), m))
  BY <1>5, <1>6, FS_Bijection DEF ExistsBijection
<1>8. Cardinality(rest) = IF 1 \in Places(seq, m) THEN Cardinality(Places(seq, m)) - 1
                                                  ELSE Cardinality(Places(seq, m))
  BY <1>6, FS_RemoveElement
<1>9. 1 \in Places(seq, m) <=> Head(seq) = m
  BY <1>1 DEF Places
<1> QED
  BY <1>2, <1>3, <1>7, <1>8, <1>9 DEF Count

-----------------------------------------------------------------------------
(* What becomes of the output.                                             *)

Data(q) == [type |-> "Data", pipe |-> q]
Closed(q) == [type |-> "Closed", pipe |-> q]
Output(q) == [type |-> "PipeOutput", pipe |-> q]
Eof(q) == [type |-> "PipeClosed", pipe |-> q]

\* The end of q has been reported, or is about to be; what its reader saw came before it.
Ended(q) == Places(sent, Closed(q)) # {} \/ Places(chan, Eof(q)) # {}

EndsLast(seq, last, message) ==
    /\ \A i, j \in Places(seq, last) : i = j
    /\ \A i \in Places(seq, last) : \A j \in Places(seq, message) : j < i

EndsOnce(q) ==
    /\ EndsLast(sent, Closed(q), Data(q)) /\ EndsLast(chan, Eof(q), Output(q))
    /\ Places(sent, Closed(q)) # {} => Places(chan, Eof(q)) = {} /\ Places(chan, Output(q)) = {}

\* What the frontend reads, or may come to read.
Watched(q) == MayTake(ends[q].read) \/ q \in readers \/ Ended(q)
Passed(q) == Count(sent, Data(q)) + Count(chan, Output(q))

Flows(q) ==
    /\ EndsOnce(q)
    /\ Ended(q) => ends[q].read = "closed" /\ buffer[q] = 0 /\ ends[q].write \in {"closed", "file"}
    /\ Watched(q) => produced[q] = Passed(q) + buffer[q]

OutInv == \A q \in Pipe : Flows(q)

LEMMA OutInit == Init => OutInv
<1> SUFFICES ASSUME Init, NEW q \in Pipe PROVE Flows(q)
  BY DEF OutInv
<1>1. chan = <<>> /\ sent = <<>> /\ produced[q] = 0 /\ buffer[q] = 0
  BY DEF Init
<1>2. \A m : Places(chan, m) = {} /\ Places(sent, m) = {}
  BY <1>1 DEF Places
<1>3. \A m : Count(chan, m) = 0 /\ Count(sent, m) = 0
  BY <1>2, FS_EmptySet DEF Count
<1> QED
  BY <1>1, <1>2, <1>3 DEF Flows, EndsOnce, EndsLast, Ended, Passed

\* Messages that are appended or taken and are not about an end leave its order alone.
LEMMA OrderKept ==
    ASSUME NEW S, NEW seq \in Seq(S), NEW new, NEW last, NEW message, EndsLast(seq, last, message),
           \/ new = seq
           \/ \E e : new = Append(seq, e) /\ e # last /\ e # message
           \/ seq # <<>> /\ new = Tail(seq) /\ Head(seq) # last /\ Head(seq) # message
    PROVE  /\ EndsLast(new, last, message)
           /\ Count(new, message) = Count(seq, message)
           /\ Places(new, message) = {} <=> Places(seq, message) = {}
           /\ Places(new, last) = {} <=> Places(seq, last) = {}
<1>1. CASE new = seq
  BY <1>1
<1>2. ASSUME NEW e, new = Append(seq, e), e # last, e # message
      PROVE  /\ \A i : i \in Places(new, last) <=> i \in Places(seq, last)
             /\ \A i : i \in Places(new, message) <=> i \in Places(seq, message)
             /\ Count(new, message) = Count(seq, message)
  BY <1>2, CountAppended
<1>3. ASSUME seq # <<>>, new = Tail(seq), Head(seq) # last, Head(seq) # message
      PROVE  /\ EndsLast(new, last, message)
             /\ Count(new, message) = Count(seq, message)
             /\ Places(new, message) = {} <=> Places(seq, message) = {}
             /\ Places(new, last) = {} <=> Places(seq, last) = {}
  <2>1. Tail(seq) \in Seq(S)
    BY <1>3
  <2>2. /\ \A i \in Places(new, last) : i + 1 \in Places(seq, last) /\ i \in Nat
        /\ \A i \in Places(new, message) : i + 1 \in Places(seq, message) /\ i \in Nat
        /\ Count(new, message) = Count(seq, message)
        /\ Count(new, last) = Count(seq, last)
    BY <1>3, CountTaken
  <2>3. /\ Count(new, message) = 0 <=> Places(new, message) = {}
        /\ Count(new, last) = 0 <=> Places(new, last) = {}
        /\ Count(seq, message) = 0 <=> Places(seq, message) = {}
        /\ Count(seq, last) = 0 <=> Places(seq, last) = {}
    BY <1>3, <2>1, PlacesFinite
  <2>4. ASSUME NEW i \in Places(new, last), NEW j \in Places(new, last) PROVE i = j
    <3>1. i + 1 = j + 1 /\ i \in Nat /\ j \in Nat
      BY <2>2, <2>4 DEF EndsLast
    <3> QED
      BY <3>1
  <2>5. ASSUME NEW i \in Places(new, last), NEW j \in Places(new, message) PROVE j < i
    <3>1. j + 1 < i + 1 /\ i \in Nat /\ j \in Nat
      BY <2>2, <2>5 DEF EndsLast
    <3> QED
      BY <3>1
  <2> QED
    BY <2>2, <2>3, <2>4, <2>5 DEF EndsLast
<1>4. CASE \E e : new = Append(seq, e) /\ e # last /\ e # message
  BY <1>2, <1>4 DEF EndsLast
<1> QED
  BY <1>1, <1>3, <1>4

\* Where nothing is said of q, what has been said of it stands.
LEMMA NothingSaid ==
    ASSUME TInv, NEW q, EndsOnce(q),
           \/ chan' = chan
           \/ \E e : chan' = Append(chan, e) /\ e # Eof(q) /\ e # Output(q)
           \/ chan # <<>> /\ chan' = Tail(chan) /\ Head(chan) # Eof(q) /\ Head(chan) # Output(q),
           \/ sent' = sent
           \/ \E e : sent' = Append(sent, e) /\ e # Closed(q) /\ e # Data(q)
    PROVE  EndsOnce(q)' /\ (Ended(q)' <=> Ended(q)) /\ Passed(q)' = Passed(q)
<1>1. chan \in Seq(Event) /\ sent \in Seq(Response)
  BY DEF TInv, ExecTypes
<1>2. EndsLast(chan, Eof(q), Output(q)) /\ EndsLast(sent, Closed(q), Data(q))
  BY DEF EndsOnce
<1>3. /\ EndsLast(chan', Eof(q), Output(q))
      /\ Count(chan', Output(q)) = Count(chan, Output(q))
      /\ Places(chan', Output(q)) = {} <=> Places(chan, Output(q)) = {}
      /\ Places(chan', Eof(q)) = {} <=> Places(chan, Eof(q)) = {}
  BY <1>1, <1>2, OrderKept
<1>4. /\ EndsLast(sent', Closed(q), Data(q))
      /\ Count(sent', Data(q)) = Count(sent, Data(q))
      /\ Places(sent', Closed(q)) = {} <=> Places(sent, Closed(q)) = {}
  BY <1>1, <1>2, OrderKept
<1>5. /\ Output(q)' = Output(q) /\ Eof(q)' = Eof(q) /\ Closed(q)' = Closed(q) /\ Data(q)' = Data(q)
  BY DEF Output, Eof, Closed, Data
<1> QED
  BY <1>3, <1>4, <1>5 DEF EndsOnce, EndsLast, Ended, Passed, Places, Count

\* What is said of pipes is said by four messages.
LEMMA FourMessages ==
    ASSUME NEW q
    PROVE  /\ Output(q) # Eof(q) /\ Data(q) # Closed(q)
           /\ Output(q)' = Output(q) /\ Eof(q)' = Eof(q) /\ Closed(q)' = Closed(q) /\ Data(q)' = Data(q)
<1>1. Output(q).type # Eof(q).type /\ Data(q).type # Closed(q).type
  BY DEF Output, Eof, Data, Closed
<1> QED
  BY <1>1 DEF Output, Eof, Data, Closed

\* A chunk that the reader has read.
LEMMA OutputSeen ==
    ASSUME TInv, NEW q, EndsOnce(q), ~Ended(q), chan' = Append(chan, Output(q)), sent' = sent
    PROVE  EndsOnce(q)' /\ ~Ended(q)' /\ Passed(q)' = Passed(q) + 1
<1>1. chan \in Seq(Event) /\ sent \in Seq(Response)
  BY DEF TInv, ExecTypes
<1>2. \A i : i \in Places(chan', Eof(q)) <=> i \in Places(chan, Eof(q))
  BY <1>1, FourMessages, CountAppended
<1>3. Count(chan', Output(q)) = Count(chan, Output(q)) + 1
  BY <1>1, CountAppended
<1>4. Count(chan, Output(q)) \in Nat /\ Count(sent, Data(q)) \in Nat
  BY <1>1, PlacesFinite
<1>5. ~Ended(q)'
  BY <1>2, FourMessages DEF Ended, Places
<1>6. Passed(q)' = Passed(q) + 1
  <2>1. Passed(q)' = Count(sent', Data(q)) + Count(chan', Output(q))
    BY FourMessages DEF Passed, Count, Places
  <2> QED
    BY <1>3, <1>4, <2>1 DEF Passed
<1> QED
  BY <1>2, <1>5, <1>6, FourMessages DEF EndsOnce, EndsLast, Ended, Places

\* The end, where the reader has found it.
LEMMA EofSeen ==
    ASSUME TInv, NEW q, EndsOnce(q), ~Ended(q), chan' = Append(chan, Eof(q)), sent' = sent
    PROVE  EndsOnce(q)' /\ Passed(q)' = Passed(q)
<1>1. chan \in Seq(Event)
  BY DEF TInv, ExecTypes
<1>2. /\ \A i : i \in Places(chan', Eof(q)) <=> i = Len(chan) + 1
      /\ \A i : i \in Places(chan', Output(q)) <=> i \in Places(chan, Output(q))
      /\ Count(chan', Output(q)) = Count(chan, Output(q))
  BY <1>1, FourMessages, CountAppended DEF Ended
<1>3. \A i \in Places(chan, Output(q)) : i < Len(chan) + 1
  BY <1>1, Appended DEF Places
<1>4. EndsLast(chan', Eof(q), Output(q))
  BY <1>2, <1>3 DEF EndsLast
<1>5. Passed(q)' = Passed(q)
  BY <1>2, FourMessages DEF Passed, Count, Places
<1> QED
  BY <1>4, <1>5, FourMessages DEF EndsOnce, EndsLast, Ended, Places

\* A chunk is passed on to the frontend.
LEMMA OutputForwarded ==
    ASSUME TInv, NEW q, EndsOnce(q), chan # <<>>, Head(chan) = Output(q), chan' = Tail(chan),
           sent' = Append(sent, Data(q))
    PROVE  EndsOnce(q)' /\ (Ended(q)' <=> Ended(q)) /\ Passed(q)' = Passed(q)
<1>1. chan \in Seq(Event) /\ sent \in Seq(Response) /\ chan' \in Seq(Event)
  BY DEF TInv, ExecTypes
<1>2. 1 \in Places(chan, Output(q))
  BY <1>1, Dropped DEF Places
<1>3. Places(sent, Closed(q)) = {}
  BY <1>2 DEF EndsOnce
<1>4. /\ \A i : i \in Places(sent', Closed(q)) <=> i \in Places(sent, Closed(q))
      /\ Count(sent', Data(q)) = Count(sent, Data(q)) + 1
  BY <1>1, FourMessages, CountAppended
<1>5. /\ \A i \in Places(chan', Eof(q)) : i + 1 \in Places(chan, Eof(q)) /\ i \in Nat
      /\ \A i \in Places(chan', Output(q)) : i + 1 \in Places(chan, Output(q)) /\ i \in Nat
      /\ Count(chan', Eof(q)) = Count(chan, Eof(q))
      /\ Count(chan', Output(q)) = Count(chan, Output(q)) - 1
  BY <1>1, FourMessages, CountTaken
<1>6. /\ Count(chan, Output(q)) \in Nat /\ Count(sent, Data(q)) \in Nat
      /\ Count(chan', Eof(q)) = 0 <=> Places(chan', Eof(q)) = {}
      /\ Count(chan, Eof(q)) = 0 <=> Places(chan, Eof(q)) = {}
  BY <1>1, PlacesFinite
<1>7. ASSUME NEW i \in Places(chan', Eof(q)), NEW j \in Places(chan', Eof(q)) PROVE i = j
  <2>1. i + 1 = j + 1 /\ i \in Nat /\ j \in Nat
    BY <1>5, <1>7 DEF EndsOnce, EndsLast
  <2> QED
    BY <2>1
<1>8. ASSUME NEW i \in Places(chan', Eof(q)), NEW j \in Places(chan', Output(q)) PROVE j < i
  <2>1. j + 1 < i + 1 /\ i \in Nat /\ j \in Nat
    BY <1>5, <1>8 DEF EndsOnce, EndsLast
  <2> QED
    BY <2>1
<1>9. EndsLast(chan', Eof(q), Output(q)) /\ Places(sent', Closed(q)) = {}
  BY <1>3, <1>4, <1>7, <1>8 DEF EndsLast
<1>10. Passed(q)' = Passed(q)
  <2>1. Passed(q)' = Count(sent', Data(q)) + Count(chan', Output(q))
    BY FourMessages DEF Passed, Count, Places
  <2> QED
    BY <1>4, <1>5, <1>6, <2>1 DEF Passed
<1>11. Ended(q)' <=> Ended(q)
  BY <1>3, <1>5, <1>6, <1>9, FourMessages DEF Ended, Places
<1>12. EndsOnce(q)'
  BY <1>9, FourMessages DEF EndsOnce, EndsLast, Places
<1> QED
  BY <1>10, <1>11, <1>12

\* So is the end, after all of them.
LEMMA EofForwarded ==
    ASSUME TInv, NEW q, EndsOnce(q), chan # <<>>, Head(chan) = Eof(q), chan' = Tail(chan),
           sent' = Append(sent, Closed(q))
    PROVE  EndsOnce(q)' /\ Ended(q) /\ Passed(q)' = Passed(q)
<1>1. chan \in Seq(Event) /\ sent \in Seq(Response) /\ chan' \in Seq(Event)
  BY DEF TInv, ExecTypes
<1>2. 1 \in Places(chan, Eof(q)) /\ DOMAIN chan \subseteq Nat /\ \A i \in DOMAIN chan : i >= 1
  BY <1>1, Dropped DEF Places
<1>3. Places(sent, Closed(q)) = {} /\ Ended(q)
  BY <1>2 DEF EndsOnce, Ended
<1>4. Places(chan, Output(q)) = {}
  <2>1. \A j \in Places(chan, Output(q)) : j < 1 /\ j >= 1 /\ j \in Nat
    BY <1>2 DEF EndsOnce, EndsLast, Places
  <2> QED
    BY <2>1
<1>5. /\ \A i : i \in Places(sent', Closed(q)) <=> i = Len(sent) + 1
      /\ \A i : i \in Places(sent', Data(q)) <=> i \in Places(sent, Data(q))
      /\ Count(sent', Data(q)) = Count(sent, Data(q))
  BY <1>1, <1>3, FourMessages, CountAppended
<1>6. /\ \A i \in Places(chan', Eof(q)) : i + 1 \in Places(chan, Eof(q)) /\ i \in Nat
      /\ \A i \in Places(chan', Output(q)) : i + 1 \in Places(chan, Output(q))
      /\ Count(chan', Output(q)) = Count(chan, Output(q))
  BY <1>1, FourMessages, CountTaken
<1>7. Places(chan', Eof(q)) = {}
  <2>1. \A i \in Places(chan', Eof(q)) : i + 1 = 1 /\ i \in Nat /\ i >= 1
    <3>1. \A i \in Places(chan', Eof(q)) : i >= 1
      BY <1>1 DEF Places
    <3> QED
      BY <1>2, <1>6, <3>1 DEF EndsOnce, EndsLast
  <2> QED
    BY <2>1
<1>8. Places(chan', Output(q)) = {}
  BY <1>4, <1>6
<1>9. \A j \in Places(sent, Data(q)) : j < Len(sent) + 1
  BY <1>1, Appended DEF Places
<1>10. EndsLast(chan', Eof(q), Output(q)) /\ EndsLast(sent', Closed(q), Data(q))
  BY <1>5, <1>7, <1>8, <1>9 DEF EndsLast
<1>11. Passed(q)' = Passed(q)
  BY <1>5, <1>6, FourMessages DEF Passed, Count, Places
<1>12. EndsOnce(q)'
  BY <1>7, <1>8, <1>10, FourMessages DEF EndsOnce, EndsLast, Places
<1> QED
  BY <1>3, <1>11, <1>12

\* An end that has been taken is not there to be taken again; one that nobody writes to
\* any more, nobody will.
LEMMA EndsSettle ==
    ASSUME TInv, HoldInv, [Next]_vars, NEW r \in Pipe
    PROVE  /\ MayTake(ends'[r].read) => MayTake(ends[r].read)
           /\ MayTake(ends'[r].write) => MayTake(ends[r].write)
           /\ r \in readers' => r \in readers \/ MayTake(ends[r].read)
           /\ ends[r].write \in {"closed", "file"} => ends'[r].write \in {"closed", "file"}
<1> DEFINE Settled == /\ MayTake(ends'[r].read) => MayTake(ends[r].read)
                      /\ MayTake(ends'[r].write) => MayTake(ends[r].write)
                      /\ r \in readers' => r \in readers \/ MayTake(ends[r].read)
                      /\ ends[r].write \in {"closed", "file"} => ends'[r].write \in {"closed", "file"}
<1>1. ends \in Ends
  BY DEF TInv, ExecTypes, Ends
<1>2. CASE UNCHANGED <<ends, process, readers, writers>>
  BY <1>2
<1>3. ASSUME NEW q \in Pipe, Opens(q) PROVE Settled
  BY <1>1, <1>3 DEF Opens, Ends, MayTake
<1>4. ASSUME NEW q \in Pipe, BeginsToRead(q) PROVE Settled
  BY <1>1, <1>4, AfterEnd DEF BeginsToRead, MayTake
<1>5. ASSUME NEW q \in Pipe, StopsReading(q) \/ StopsWriting(q) PROVE Settled
  BY <1>1, <1>5, AfterEnd DEF StopsReading, StopsWriting, MayTake
<1>6. ASSUME NEW p \in tasks, Spawns(p) PROVE Settled
  <2>1. commands[p] \in Command
    BY TasksHaveCommands
  <2> QED
    BY <1>1, <1>6, <2>1, AfterTaken DEF Spawns, CanTake, CanWrite, MayTake
<1>7. ASSUME NEW p \in tasks, NEW full, NEW empty, Prints(p, full, empty) PROVE Settled
  <2>1. full \in Pipe /\ empty \in Pipe
    BY <1>7, TasksHaveCommands, PipesOfCommand DEF Prints
  <2>2. /\ OutputAndClose(full, empty) /\ MayTake(ends[full].write) /\ MayTake(ends[empty].write)
        /\ UNCHANGED readers
    BY <1>7 DEF Prints, OutputAndClose
  <2> QED
    BY <1>1, <2>1, <2>2, AfterOutput DEF MayTake
<1>8. ASSUME NEW p \in Pid, NEW code \in ExitCode, Leaves(p, code) PROVE Settled
  <2>1. commands[p] \in Command
    BY <1>8, CommandsStay DEF HoldInv, Leaves
  <2> QED
    BY <1>1, <1>8, <2>1, AfterDeath DEF Leaves, MayTake
<1> HIDE DEF Settled
<1>9. Settled
  BY <1>2, <1>3, <1>4, <1>5, <1>6, <1>7, <1>8, PipeSteps DEF Settled
<1> QED
  BY <1>9 DEF Settled

\* Where no chunk moves and nothing is said of q, all its chunks are where they were.
LEMMA FlowsKept ==
    ASSUME TInv, HoldInv, [Next]_vars, NEW q \in Pipe, Flows(q),
           EndsOnce(q)', Ended(q)' <=> Ended(q), Passed(q)' = Passed(q),
           buffer'[q] = buffer[q], produced'[q] = produced[q]
    PROVE  Flows(q)'
<1>1. Watched(q)' => Watched(q)
  BY EndsSettle DEF Watched, MayTake
<1>2. Ended(q) => ends'[q].read = "closed" /\ ends'[q].write \in {"closed", "file"}
  BY ClosedStays, EndsSettle DEF Flows
<1> QED
  BY <1>1, <1>2 DEF Flows

\* A chunk is written: to a file, or to the pipe, where nobody has reported the end.
LEMMA FlowsWritten ==
    ASSUME TInv, HoldInv, [Next]_vars, NEW q \in Pipe, Flows(q), HasRoom(q),
           chan' = chan, sent' = sent,
           buffer'[q] = IF ends[q].read = "file" THEN buffer[q] ELSE buffer[q] + 1,
           produced'[q] = produced[q] + 1
    PROVE  Flows(q)'
<1>1. EndsOnce(q)' /\ (Ended(q)' <=> Ended(q)) /\ Passed(q)' = Passed(q)
  BY NothingSaid DEF Flows
<1>2. ~Ended(q)
  BY DEF Flows, HasRoom, Broken
<1>3. Watched(q)' => Watched(q)
  BY <1>1, EndsSettle DEF Watched, MayTake
<1>4. Watched(q) => ends[q].read # "file"
  BY <1>2 DEF Watched, MayTake, HoldInv
<1>5. produced[q] \in Nat /\ buffer[q] \in Nat /\ Passed(q) \in Nat
  <2>1. Count(sent, Data(q)) \in Nat /\ Count(chan, Output(q)) \in Nat
    BY PlacesFinite DEF TInv, ExecTypes
  <2> QED
    BY <2>1 DEF Passed, TInv, ExecTypes
<1> QED
  BY <1>1, <1>2, <1>3, <1>4, <1>5 DEF Flows

LEMMA OutHandled ==
    ASSUME TInv, HoldInv, [Next]_vars, Handle, NEW q \in Pipe, Flows(q)
    PROVE  Flows(q)'
<1> DEFINE event == Head(chan)
<1>1. chan # <<>> /\ chan' = Tail(chan) /\ UNCHANGED <<buffer, produced>>
  BY DEF Handle, HandleEnqueue, HandleCompleted, HandleOpenFile, HandleBeginRead, HandlePipe,
         HandleEditComplete, HandleCancel, Take, ioVars
<1>2. EndsOnce(q)
  BY DEF Flows
<1>3. CASE HandlePipe
  <2> DEFINE r == event.pipe
  <2>1. event \in Event
    BY <1>1 DEF TInv, ExecTypes
  <2>2. \/ event = Output(r) /\ sent' = Append(sent, Data(r))
        \/ event = Eof(r) /\ sent' = Append(sent, Closed(r))
    <3>1. event \notin Request /\ event \notin ProcessEvent
      BY <1>3 DEF HandlePipe, Take, Request, PipeRequest, ProcessEvent
    <3>2. event \in [type : {"PipeOutput", "PipeClosed"}, pipe : Pipe]
      BY <2>1, <3>1 DEF Event
    <3> QED
      BY <1>3, <3>2 DEF HandlePipe, Respond, Output, Eof, Data, Closed
  <2> HIDE DEF event, r
  <2>3. CASE r = q
    <3>1. CASE event = Output(q) /\ sent' = Append(sent, Data(q))
      BY <1>1, <1>2, <3>1, OutputForwarded, FlowsKept DEF event
    <3>2. CASE event = Eof(q) /\ sent' = Append(sent, Closed(q))
      <4>1. EndsOnce(q)' /\ Ended(q) /\ Passed(q)' = Passed(q) /\ Ended(q)'
        <5>1. EndsOnce(q)' /\ Ended(q) /\ Passed(q)' = Passed(q)
          BY <1>1, <1>2, <3>2, EofForwarded DEF event
        <5>2. Ended(q)'
          <6>1. sent \in Seq(Response)
            BY DEF TInv, ExecTypes
          <6>2. Len(sent) + 1 \in Places(sent', Closed(q))
            BY <3>2, <6>1, CountAppended
          <6> QED
            BY <6>2, FourMessages DEF Ended, Places
        <5> QED
          BY <5>1, <5>2
      <4> QED
        BY <1>1, <4>1, FlowsKept
    <3> QED
      BY <2>2, <2>3, <3>1, <3>2
  <2>4. CASE r # q
    <3>1. /\ Output(r) # Output(q) /\ Output(r) # Eof(q) /\ Eof(r) # Eof(q) /\ Eof(r) # Output(q)
          /\ Data(r) # Data(q) /\ Data(r) # Closed(q) /\ Closed(r) # Closed(q) /\ Closed(r) # Data(q)
      <4>1. /\ Output(r).pipe = r /\ Eof(r).pipe = r /\ Data(r).pipe = r /\ Closed(r).pipe = r
            /\ Output(q).pipe = q /\ Eof(q).pipe = q /\ Data(q).pipe = q /\ Closed(q).pipe = q
        BY DEF Output, Eof, Data, Closed
      <4> QED
        BY <2>4, <4>1
    <3>2. EndsOnce(q)' /\ (Ended(q)' <=> Ended(q)) /\ Passed(q)' = Passed(q)
      BY <1>1, <1>2, <2>2, <3>1, NothingSaid DEF event
    <3> QED
      BY <1>1, <3>2, FlowsKept
  <2> QED
    BY <2>3, <2>4
<1>4. CASE ~HandlePipe
  <2>1. event.type \notin {"PipeOutput", "PipeClosed"}
    BY <1>4 DEF Handle, HandleEnqueue, HandleCompleted, HandleOpenFile, HandleBeginRead,
         HandleEditComplete, HandleCancel, Take
  <2>2. event # Output(q) /\ event # Eof(q)
    BY <2>1 DEF Output, Eof
  <2>3. sent' = sent \/ \E p, code : sent' = Append(sent, CommandDone(p, code))
    BY <1>4 DEF Handle, HandleEnqueue, HandleCompleted, HandleOpenFile, HandleBeginRead,
         HandleEditComplete, HandleCancel, Finish, Respond
  <2>4. \A p, code : CommandDone(p, code) # Closed(q) /\ CommandDone(p, code) # Data(q)
    <3>1. \A p, code : /\ CommandDone(p, code).type # Closed(q).type
                       /\ CommandDone(p, code).type # Data(q).type
      BY DEF CommandDone, Closed, Data
    <3> QED
      BY <3>1
  <2> HIDE DEF event
  <2>5. EndsOnce(q)' /\ (Ended(q)' <=> Ended(q)) /\ Passed(q)' = Passed(q)
    BY <1>1, <1>2, <2>2, <2>3, <2>4, NothingSaid DEF event
  <2> QED
    BY <1>1, <2>5, FlowsKept
<1> QED
  BY <1>3, <1>4

LEMMA OutActedUpon ==
    ASSUME TInv, HoldInv, [Next]_vars, RunTask, NEW q \in Pipe, Flows(q)
    PROVE  Flows(q)'
<1>1. UNCHANGED <<chan, buffer, produced>>
  BY DEF RunTask, StartProcess, SpawnFails, RunSetDirectory, RunGetDirectory, BeginEdit,
         EditUnreadable, ReportRefused, OutputAndClose, ioVars
<1>2. \/ sent' = sent
      \/ \E p, code : sent' = Append(sent, CommandDone(p, code))
      \/ \E p : sent' = Append(sent, [type |-> "EditRequest", pid |-> p])
  BY DEF RunTask, StartProcess, SpawnFails, RunSetDirectory, RunGetDirectory, BeginEdit,
         EditUnreadable, ReportRefused, EndAtOnce, Respond
<1>3. /\ \A p, code : CommandDone(p, code) # Closed(q) /\ CommandDone(p, code) # Data(q)
      /\ \A p : /\ [type |-> "EditRequest", pid |-> p] # Closed(q)
                /\ [type |-> "EditRequest", pid |-> p] # Data(q)
  <2>1. /\ \A p, code : /\ CommandDone(p, code).type # Closed(q).type
                        /\ CommandDone(p, code).type # Data(q).type
        /\ \A p : /\ [type |-> "EditRequest", pid |-> p].type # Closed(q).type
                  /\ [type |-> "EditRequest", pid |-> p].type # Data(q).type
    BY DEF CommandDone, Closed, Data
  <2> QED
    BY <2>1
<1>4. EndsOnce(q)' /\ (Ended(q)' <=> Ended(q)) /\ Passed(q)' = Passed(q)
  BY <1>1, <1>2, <1>3, NothingSaid DEF Flows
<1> QED
  BY <1>1, <1>4, FlowsKept

LEMMA OutOutside ==
    ASSUME TInv, HoldInv, [Next]_vars, NEW q \in Pipe, Flows(q),
           \/ SendRequest \/ \E r \in Pid : Kill(r)
           \/ \E r \in Pid : SendCancel(r) \/ SendEdit(r) \/ ProcessStep(r) \/ LockChild(r) \/ Reap(r)
           \/ \E r \in Pipe : ReaderReads(r) \/ ReaderEnds(r) \/ WriterWrites(r)
    PROVE  Flows(q)'
<1>1. /\ chan \in Seq(Event) /\ sent \in Seq(Response) /\ inbox \in Seq(Request)
      /\ buffer \in [Pipe -> Nat] /\ produced \in [Pipe -> Nat] /\ EndsOnce(q)
  BY ExecAssumption DEF TInv, ExecTypes, Flows
<1>2. UNCHANGED sent
  BY DEF SendRequest, Kill, SendCancel, SendEdit, ProcessStep, Writes, Consumes, ExitsWith, LockChild,
         Reap, ReaderReads, ReaderEnds, WriterWrites, ctlVars
<1>3. ASSUME NEW event, chan' = Append(chan, event), event.type \notin {"PipeOutput", "PipeClosed"},
             UNCHANGED <<buffer, produced>>
      PROVE  Flows(q)'
  <2>1. event # Output(q) /\ event # Eof(q)
    BY <1>3 DEF Output, Eof
  <2>2. EndsOnce(q)' /\ (Ended(q)' <=> Ended(q)) /\ Passed(q)' = Passed(q)
    BY <1>1, <1>2, <1>3, <2>1, NothingSaid
  <2> QED
    BY <1>3, <2>2, FlowsKept
<1>4. ASSUME UNCHANGED chan
      PROVE  EndsOnce(q)' /\ (Ended(q)' <=> Ended(q)) /\ Passed(q)' = Passed(q)
  BY <1>1, <1>2, <1>4, NothingSaid
<1>5. CASE SendRequest
  <2>1. Head(inbox) \in Request
    BY <1>1, <1>5 DEF SendRequest
  <2>2. Head(inbox).type \notin {"PipeOutput", "PipeClosed"}
    BY <2>1 DEF Request, PipeRequest
  <2> QED
    BY <1>3, <1>5, <2>2 DEF SendRequest, ioVars
<1>6. CASE \E r \in Pid : SendCancel(r) \/ SendEdit(r)
  BY <1>3, <1>6 DEF SendCancel, SendEdit, ioVars
<1>7. ASSUME NEW r \in Pid, LockChild(r) PROVE Flows(q)'
  BY <1>4, <1>7, FlowsKept DEF LockChild, ctlVars
<1>8. ASSUME NEW r \in Pid, Reap(r) PROVE Flows(q)'
  BY <1>3, <1>8 DEF Reap
<1>9. ASSUME NEW r \in Pid, Kill(r) PROVE Flows(q)'
  BY <1>4, <1>9, FlowsKept DEF Kill
<1>10. ASSUME NEW r \in Pid, NEW code, ExitsWith(r, code) PROVE Flows(q)'
  BY <1>4, <1>10, FlowsKept DEF ExitsWith, ctlVars
<1>11. ASSUME NEW r \in Pid, NEW s \in Stream, Writes(r, s) PROVE Flows(q)'
  <2> DEFINE x == commands[r][s]
  <2>1. x \in Pipe
    BY <1>11, CommandsStay, PipesOfCommand DEF Writes, HoldInv
  <2>2. UNCHANGED chan
    BY <1>11 DEF Writes, ctlVars
  <2>3. CASE /\ HasRoom(x)
             /\ buffer' = IF ends[x].read = "file" THEN buffer ELSE [buffer EXCEPT ![x] = @ + 1]
             /\ produced' = [produced EXCEPT ![x] = @ + 1]
    <3>1. CASE x = q
      <4>1. /\ buffer'[q] = IF ends[q].read = "file" THEN buffer[q] ELSE buffer[q] + 1
            /\ produced'[q] = produced[q] + 1 /\ HasRoom(q)
        BY <1>1, <2>3, <3>1
      <4> QED
        BY <1>2, <2>2, <4>1, FlowsWritten
    <3>2. CASE x # q
      <4>1. buffer'[q] = buffer[q] /\ produced'[q] = produced[q]
        BY <1>1, <2>1, <2>3, <3>2
      <4> QED
        BY <1>4, <2>2, <4>1, FlowsKept
    <3> QED
      BY <3>1, <3>2
  <2>4. CASE UNCHANGED <<buffer, produced>>
    BY <1>4, <2>2, <2>4, FlowsKept
  <2> QED
    BY <1>11, <2>3, <2>4 DEF Writes
<1>12. ASSUME NEW r \in Pid, Consumes(r) PROVE Flows(q)'
  <2> DEFINE x == commands[r].stdin
  <2>1. /\ process[r] = "alive" /\ buffer' = [buffer EXCEPT ![x] = @ - 1]
        /\ UNCHANGED <<chan, ends, readers, produced>>
    BY <1>12 DEF Consumes, ctlVars
  <2>2. x \in Pipe /\ ends[x].read = "held" /\ x \notin readers
    BY <2>1, CommandsStay, PipesOfCommand DEF HoldInv, Holds
  <2>3. CASE x = q
    <3>1. ~Ended(q)
      BY <2>2, <2>3 DEF Flows
    <3>2. ~Watched(q)' /\ ~Ended(q)' /\ EndsOnce(q)'
      BY <1>4, <2>1, <2>2, <2>3, <3>1 DEF Watched, MayTake
    <3> QED
      BY <3>2 DEF Flows
  <2>4. CASE x # q
    <3>1. buffer'[q] = buffer[q] /\ produced'[q] = produced[q]
      BY <1>1, <2>1, <2>2, <2>4
    <3> QED
      BY <1>4, <2>1, <3>1, FlowsKept
  <2> QED
    BY <2>3, <2>4
<1>13. ASSUME NEW r \in Pipe, WriterWrites(r) PROVE Flows(q)'
  <2>1. UNCHANGED chan
    BY <1>13 DEF WriterWrites, ctlVars
  <2>2. CASE /\ HasRoom(r)
             /\ buffer' = IF ends[r].read = "file" THEN buffer ELSE [buffer EXCEPT ![r] = @ + 1]
             /\ produced' = [produced EXCEPT ![r] = @ + 1]
    <3>1. CASE r = q
      <4>1. /\ buffer'[q] = IF ends[q].read = "file" THEN buffer[q] ELSE buffer[q] + 1
            /\ produced'[q] = produced[q] + 1 /\ HasRoom(q)
        BY <1>1, <2>2, <3>1
      <4> QED
        BY <1>2, <2>1, <4>1, FlowsWritten
    <3>2. CASE r # q
      <4>1. buffer'[q] = buffer[q] /\ produced'[q] = produced[q]
        BY <1>1, <2>2, <3>2
      <4> QED
        BY <1>4, <2>1, <4>1, FlowsKept
    <3> QED
      BY <3>1, <3>2
  <2>3. CASE UNCHANGED <<buffer, produced>>
    BY <1>4, <2>1, <2>3, FlowsKept
  <2> QED
    BY <1>13, <2>2, <2>3 DEF WriterWrites
\* What a reader thread sees of its own pipe, and of another.
<1>14. ASSUME NEW r \in Pipe, r # q, chan' = Append(chan, Output(r)) \/ chan' = Append(chan, Eof(r))
       PROVE  EndsOnce(q)' /\ (Ended(q)' <=> Ended(q)) /\ Passed(q)' = Passed(q)
  <2>1. Output(r) # Output(q) /\ Output(r) # Eof(q) /\ Eof(r) # Eof(q) /\ Eof(r) # Output(q)
    <3>1. /\ Output(r).pipe = r /\ Eof(r).pipe = r
          /\ Output(q).pipe = q /\ Eof(q).pipe = q
      BY DEF Output, Eof
    <3> QED
      BY <1>14, <3>1
  <2> QED
    BY <1>1, <1>2, <1>14, <2>1, NothingSaid
<1>15. ASSUME q \in readers PROVE ~Ended(q) /\ produced[q] = Passed(q) + buffer[q]
  BY <1>15 DEF HoldInv, Flows, Watched
<1>16. ASSUME NEW r \in Pipe, ReaderReads(r) PROVE Flows(q)'
  <2>1. /\ r \in readers /\ buffer[r] > 0 /\ buffer' = [buffer EXCEPT ![r] = @ - 1]
        /\ chan' = Append(chan, Output(r)) /\ UNCHANGED <<ends, readers, produced>>
    BY <1>16 DEF ReaderReads, Output
  <2>2. CASE r # q
    <3>1. buffer'[q] = buffer[q] /\ produced'[q] = produced[q]
      BY <1>1, <2>1, <2>2
    <3> QED
      BY <1>14, <2>1, <2>2, <3>1, FlowsKept
  <2>3. CASE r = q
    <3>1. EndsOnce(q)' /\ ~Ended(q)' /\ Passed(q)' = Passed(q) + 1
      BY <1>1, <1>2, <1>15, <2>1, <2>3, OutputSeen
    <3>2. buffer'[q] = buffer[q] - 1 /\ produced'[q] = produced[q] /\ buffer[q] \in Nat
      BY <1>1, <2>1, <2>3
    <3>3. Passed(q) \in Nat
      <4>1. Count(sent, Data(q)) \in Nat /\ Count(chan, Output(q)) \in Nat
        BY <1>1, PlacesFinite
      <4> QED
        BY <4>1 DEF Passed
    <3>4. produced'[q] = Passed(q)' + buffer'[q]
      BY <1>15, <2>1, <2>3, <3>1, <3>2, <3>3
    <3> QED
      BY <3>1, <3>4 DEF Flows
  <2> QED
    BY <2>2, <2>3
<1>17. ASSUME NEW r \in Pipe, ReaderEnds(r) PROVE Flows(q)'
  <2>1. /\ r \in readers /\ AtEof(r) /\ ends' = CloseRead(ends, r)
        /\ chan' = Append(chan, Eof(r)) /\ UNCHANGED <<buffer, produced>>
    BY <1>17 DEF ReaderEnds, Eof
  <2>2. CASE r # q
    BY <1>14, <2>1, <2>2, FlowsKept
  <2>3. CASE r = q
    <3>1. EndsOnce(q)' /\ Passed(q)' = Passed(q)
      BY <1>1, <1>2, <1>15, <2>1, <2>3, EofSeen
    <3>2. ends \in Ends
      BY DEF TInv, ExecTypes, Ends
    <3>3. ends'[q].read = "closed" /\ ends'[q].write \in {"closed", "file"} /\ buffer'[q] = 0
      BY <2>1, <2>3, <3>2, AfterEnd DEF AtEof
    <3> QED
      BY <1>15, <2>1, <2>3, <3>1, <3>3 DEF Flows
  <2> QED
    BY <2>2, <2>3
<1> QED
  BY <1>5, <1>6, <1>7, <1>8, <1>9, <1>10, <1>11, <1>12, <1>13, <1>16, <1>17 DEF ProcessStep

LEMMA OutStep ==
    ASSUME TInv, HoldInv, OutInv, [Next]_vars
    PROVE  OutInv'
<1> SUFFICES ASSUME NEW q \in Pipe PROVE Flows(q)'
  BY DEF OutInv
<1>1. Flows(q)
  BY DEF OutInv
<1>2. CASE UNCHANGED vars
  <2>1. UNCHANGED <<chan, sent, buffer, produced>>
    BY <1>2 DEF vars, ioVars, ctlVars
  <2>2. EndsOnce(q)' /\ (Ended(q)' <=> Ended(q)) /\ Passed(q)' = Passed(q)
    BY <1>1, <2>1, NothingSaid DEF Flows
  <2> QED
    BY <1>1, <2>1, <2>2, FlowsKept
<1>3. CASE Next
  BY <1>1, <1>3, OutHandled, OutActedUpon, OutOutside DEF Next, Executor
<1> QED
  BY <1>2, <1>3

(* Every chunk that is written to a pipe the frontend reads is in the pipe, in the       *)
(* channel or with the frontend, until the end of it has been reported, once, and last.  *)
THEOREM OutputIsKept == Spec => []NothingIsLost
<1>1. TInv /\ HoldInv /\ OutInv => NothingIsLost
  <2> SUFFICES ASSUME TInv, HoldInv, OutInv, NEW q \in Pipe
               PROVE  LET ended == Count(sent, Closed(q)) + Count(chan, Eof(q)) IN
                      /\ ended <= 1
                      /\ q \in readers \/ ended = 1 =>
                            produced[q] = Count(sent, Data(q)) + Count(chan, Output(q)) + buffer[q]
                      /\ ended = 1 => buffer[q] = 0 /\ ends[q].write \in {"closed", "file"}
                      /\ \A i \in Places(sent, Closed(q)) : \A j \in Places(sent, Data(q)) : j < i
                      /\ Count(sent, Closed(q)) = 1 => Count(chan, Output(q)) = 0
                      /\ \A i \in Places(chan, Eof(q)) : \A j \in Places(chan, Output(q)) : j < i
    BY DEF NothingIsLost, Data, Closed, Output, Eof
  <2>1. Flows(q)
    BY DEF OutInv
  <2>2. /\ Count(sent, Closed(q)) <= 1 /\ (Count(sent, Closed(q)) = 1 <=> Places(sent, Closed(q)) # {})
        /\ Count(chan, Eof(q)) <= 1 /\ (Count(chan, Eof(q)) = 1 <=> Places(chan, Eof(q)) # {})
    BY <2>1, AtMostOne DEF Flows, EndsOnce, EndsLast, Count
  <2>3. /\ Count(sent, Closed(q)) \in Nat /\ Count(chan, Eof(q)) \in Nat
        /\ Count(chan, Output(q)) = 0 <=> Places(chan, Output(q)) = {}
    BY PlacesFinite DEF TInv, ExecTypes
  <2>4. /\ Count(sent, Closed(q)) + Count(chan, Eof(q)) <= 1
        /\ Count(sent, Closed(q)) + Count(chan, Eof(q)) = 1 => Ended(q)
        /\ Count(sent, Closed(q)) = 1 => Count(chan, Output(q)) = 0
    <3>1. Places(sent, Closed(q)) # {} => Places(chan, Eof(q)) = {} /\ Places(chan, Output(q)) = {}
      BY <2>1 DEF Flows, EndsOnce
    <3> QED
      BY <2>2, <2>3, <3>1 DEF Ended
  <2>5. /\ \A i \in Places(sent, Closed(q)) : \A j \in Places(sent, Data(q)) : j < i
        /\ \A i \in Places(chan, Eof(q)) : \A j \in Places(chan, Output(q)) : j < i
    BY <2>1 DEF Flows, EndsOnce, EndsLast
  <2>6. q \in readers \/ Ended(q) =>
           produced[q] = Count(sent, Data(q)) + Count(chan, Output(q)) + buffer[q]
    BY <2>1 DEF Flows, Watched, Passed
  <2>7. Ended(q) => buffer[q] = 0 /\ ends[q].write \in {"closed", "file"}
    BY <2>1 DEF Flows
  <2> QED
    BY <2>4, <2>5, <2>6, <2>7
<1> QED
  BY <1>1, TInvInit, TInvStep, HoldInit, HoldStep, OutInit, OutStep, PTL DEF Spec

-----------------------------------------------------------------------------
(* The ends that are still to be taken.                                    *)

IsRequest(e) == e.type \in {"Enqueue", "OpenOutputFile", "OpenInputFile", "BeginRead"}

\* The requests that the executor has still to act upon, in the channel and before it.
InLine == {chan[i] : i \in {j \in DOMAIN chan : IsRequest(chan[j])}} \cup {inbox[i] : i \in DOMAIN inbox}

LEMMA RequestEnds ==
    ASSUME NEW x \in Request
    PROVE  /\ IsRequest(x)
           /\ ReadEnds(x) \subseteq Pipe /\ WriteEnds(x) \subseteq Pipe /\ NewPipes(x) \subseteq Pipe
           /\ x.type = "Enqueue" => x.pid \in Pid /\ x.cmd \in Command
<1>1. CASE x \in PipeRequest
  BY <1>1 DEF PipeRequest, IsRequest, ReadEnds, WriteEnds, NewPipes
<1>2. CASE x \notin PipeRequest
  <2>1. x.type = "Enqueue" /\ x.pid \in Pid /\ x.cmd \in Command
    BY <1>2 DEF Request
  <2> QED
    BY <2>1, CommandFields DEF IsRequest, ReadEnds, WriteEnds, NewPipes
<1> QED
  BY <1>1, <1>2

LEMMA InLineAreRequests ==
    ASSUME TInv, NEW x \in InLine
    PROVE  x \in Request
<1>1. chan \in Seq(Event) /\ inbox \in Seq(Request)
  BY DEF TInv, ExecTypes
<1>2. ASSUME NEW e \in Event, IsRequest(e) PROVE e \in Request
  BY <1>2 DEF Event, ProcessEvent, IsRequest
<1>3. \A i \in DOMAIN chan : IsRequest(chan[i]) => chan[i] \in Request
  BY <1>1, <1>2, ElementsKeepTypes
<1>4. \A i \in DOMAIN inbox : inbox[i] \in Request
  BY <1>1, ElementsKeepTypes
<1> QED
  BY <1>3, <1>4 DEF InLine

\* What happens to the requests: one is passed on, or acted upon, or none.
LEMMA LineSteps ==
    ASSUME TInv, [Next]_vars
    PROVE  \/ chan' = chan /\ inbox' = inbox
           \/ chan # <<>> /\ chan' = Tail(chan) /\ inbox' = inbox
           \/ inbox # <<>> /\ chan' = Append(chan, Head(inbox)) /\ inbox' = Tail(inbox)
           \/ \E e : ~IsRequest(e) /\ chan' = Append(chan, e) /\ inbox' = inbox
<1>1. CASE Handle
  BY <1>1 DEF Handle, HandleEnqueue, HandleCompleted, HandleOpenFile, HandleBeginRead, HandlePipe,
              HandleEditComplete, HandleCancel, Take, userVars
<1>2. CASE RunTask
  BY <1>2 DEF RunTask, StartProcess, SpawnFails, RunSetDirectory, RunGetDirectory, BeginEdit,
              EditUnreadable, ReportRefused, userVars
<1>3. CASE SendRequest
  BY <1>3 DEF SendRequest
<1>4. ASSUME NEW p \in Pid, SendCancel(p) \/ SendEdit(p) \/ Reap(p)
      PROVE  \E e : ~IsRequest(e) /\ chan' = Append(chan, e) /\ inbox' = inbox
  <2>1. /\ ~IsRequest([type |-> "CancelExec", pid |-> p])
        /\ ~IsRequest([type |-> "EditComplete", pid |-> p])
        /\ ~IsRequest([type |-> "Completed", pid |-> p, code |-> process[p]])
    BY DEF IsRequest
  <2> QED
    BY <1>4, <2>1 DEF SendCancel, SendEdit, Reap, userVars
<1>5. ASSUME NEW q \in Pipe, ReaderReads(q) \/ ReaderEnds(q)
      PROVE  \E e : ~IsRequest(e) /\ chan' = Append(chan, e) /\ inbox' = inbox
  <2>1. ~IsRequest([type |-> "PipeOutput", pipe |-> q]) /\ ~IsRequest([type |-> "PipeClosed", pipe |-> q])
    BY DEF IsRequest
  <2> QED
    BY <1>5, <2>1 DEF ReaderReads, ReaderEnds, userVars
<1>6. CASE \/ \E p \in Pid : ProcessStep(p) \/ LockChild(p) \/ Kill(p)
           \/ \E q \in Pipe : WriterWrites(q)
           \/ UNCHANGED vars
  BY <1>6 DEF ProcessStep, Writes, Consumes, ExitsWith, LockChild, Kill, WriterWrites, vars, userVars, ctlVars
<1> QED
  BY <1>1, <1>2, <1>3, <1>4, <1>5, <1>6 DEF Next, Executor

\* A command that waits, or is about to run, was there or has just been enqueued.
Queued == to_run \cup DOMAIN waiting_on

LEMMA QueuedSteps ==
    ASSUME TInv, [Next]_vars, NEW p \in Queued'
    PROVE  \/ p \in Queued /\ commands'[p] = commands[p]
           \/ /\ HandleEnqueue /\ p = Head(chan).pid /\ commands'[p] = Head(chan).cmd /\ p \notin Queued
              /\ UNCHANGED ends
<1>1. CASE HandleEnqueue
  <2> DEFINE r == Head(chan).pid
  <2>1. /\ Enqueue(r, Head(chan).block_for) /\ commands' = Put(commands, r, Head(chan).cmd)
        /\ UNCHANGED ends
    BY <1>1 DEF HandleEnqueue, ioVars
  <2>2. r \notin Queued
    <3>1. r \notin DOMAIN asked
      BY <2>1 DEF Enqueue
    <3>2. OneState
      BY DEF TInv, IInv
    <3> QED
      BY <3>1, <3>2 DEF OneState, Queued
  <2>3. p \in Queued \/ p = r
    <3>1. /\ to_run' = to_run \/ to_run' = to_run \cup {r}
          /\ waiting_on' = waiting_on \/ \E value : waiting_on' = Put(waiting_on, r, value)
      BY <2>1 DEF Enqueue, EnqueueRefused, EnqueueUnknown, EnqueueReady, EnqueueBlocked
    <3>2. p \in to_run' \/ p \in DOMAIN waiting_on'
      BY DEF Queued
    <3>3. \A k \in DOMAIN waiting_on' : k \in DOMAIN waiting_on \/ k = r
      BY <3>1, PutIsMap
    <3> QED
      BY <3>1, <3>2, <3>3 DEF Queued
  <2>4. commands'[r] = Head(chan).cmd
    BY <2>1, PutIsMap
  <2>5. p \in Queued => commands'[p] = commands[p]
    BY CommandsStay DEF Queued, TInv, IInv, OneState
  <2> QED
    BY <1>1, <2>1, <2>2, <2>3, <2>4, <2>5
<1>2. CASE ~HandleEnqueue
  <2>1. UNCHANGED machineVars \/ \E r, status, state :
           Start(r, state) \/ StartCompleted(r, status) \/ Completed(r, status)
    <3>1. CASE Handle
      BY <1>2, <3>1 DEF Handle, HandleCompleted, HandleOpenFile, HandleBeginRead, HandlePipe,
              HandleEditComplete, HandleCancel, Finish
    <3>2. CASE RunTask
      BY <3>2 DEF RunTask, StartProcess, SpawnFails, RunSetDirectory, RunGetDirectory, BeginEdit,
              EditUnreadable, ReportRefused, EndAtOnce
    <3>3. CASE ~Handle /\ ~RunTask
      BY <3>3 DEF Next, Executor, SendRequest, SendCancel, SendEdit, ProcessStep, Writes, Consumes,
         ExitsWith, LockChild, Reap, ReaderReads, ReaderEnds, WriterWrites, Kill, vars
    <3> QED
      BY <3>1, <3>2, <3>3
  <2>2. \A r \in Pid : Waiters(r) \subseteq DOMAIN waiting_on
    BY DEF TInv, IInv, IndexesAgree, Waiters
  <2>3. ASSUME NEW r, NEW state, Start(r, state) PROVE p \in Queued
    BY <2>3 DEF Start, Queued
  <2>4. ASSUME NEW r, NEW status, StartCompleted(r, status) \/ Completed(r, status) PROVE p \in Queued
    <3>1. r \in Pid
      BY <2>4 DEF StartCompleted, Completed, TInv, IInv, TypeOK, IsMap
    <3> QED
      BY <2>2, <2>4, <3>1 DEF StartCompleted, Completed, ResolvePanics, Resolve, Released, Queued
  <2>5. p \in Queued
    BY <2>1, <2>3, <2>4 DEF machineVars, Queued
  <2> QED
    BY <2>5, CommandsStay DEF Queued, TInv, IInv, OneState
<1> QED
  BY <1>1, <1>2

\* What a command asks for when it is its turn.
Ask(cmd) == [type |-> "Enqueue", cmd |-> cmd]

\* A command writes to two pipes.
Sound(x) == x.type = "Enqueue" => x.cmd.stdout # x.cmd.stderr

\* No request in line asks for what an earlier one asks for.
LineInv ==
    /\ \A i, j \in DOMAIN chan : i < j /\ IsRequest(chan[i]) /\ IsRequest(chan[j]) =>
          Independent(chan[i], chan[j])
    /\ \A i \in DOMAIN chan : IsRequest(chan[i]) =>
          \A j \in DOMAIN inbox : Independent(chan[i], inbox[j])
    /\ \A i, j \in DOMAIN inbox : i < j => Independent(inbox[i], inbox[j])
    /\ \A x \in InLine : Sound(x)

\* The executor takes a request from the channel.
RequestTaken == chan # <<>> /\ chan' = Tail(chan) /\ IsRequest(Head(chan))

LEMMA LineInit ==
    ASSUME Init, \A requests \in Inboxes : EndsAskedOnce(requests)
    PROVE  LineInv
<1>1. chan = <<>> /\ EndsAskedOnce(inbox)
  BY DEF Init
<1>2. DOMAIN chan = {}
  BY <1>1
<1> QED
  BY <1>1, <1>2 DEF LineInv, EndsAskedOnce, InLine, Sound

LEMMA LineStep ==
    ASSUME TInv, LineInv, [Next]_vars
    PROVE  /\ LineInv'
           /\ \A x \in InLine' : x \in InLine /\ (RequestTaken => Independent(Head(chan), x))
           /\ RequestTaken => Head(chan) \in InLine
<1>1. chan \in Seq(Event) /\ inbox \in Seq(Request)
  BY DEF TInv, ExecTypes
<1>2. chan # <<>> => Len(Tail(chan)) # Len(chan)
  BY <1>1
<1>3. RequestTaken => Head(chan) \in InLine
  BY <1>1, Dropped DEF RequestTaken, InLine
<1>4. \A x \in InLine : IsRequest(x)
  BY InLineAreRequests, RequestEnds
<1>5. CASE chan' = chan /\ inbox' = inbox
  <2>1. ~RequestTaken /\ InLine' = InLine
    BY <1>2, <1>5 DEF RequestTaken, InLine
  <2> QED
    BY <1>5, <2>1 DEF LineInv
<1>6. CASE chan # <<>> /\ chan' = Tail(chan) /\ inbox' = inbox
  <2>1. /\ 1 \in DOMAIN chan /\ Head(chan) = chan[1]
        /\ \A i \in DOMAIN chan' : i + 1 \in DOMAIN chan /\ chan'[i] = chan[i + 1] /\ 1 < i + 1
        /\ \A i, j \in DOMAIN chan' : i < j => i + 1 < j + 1
    BY <1>1, <1>6, Dropped
  <2>2. \A x \in InLine' : \/ \E i \in DOMAIN chan' : x = chan'[i] /\ IsRequest(chan'[i])
                           \/ \E i \in DOMAIN inbox : x = inbox[i]
    BY <1>6 DEF InLine
  <2>3. \A x \in InLine' : x \in InLine
    BY <2>1, <2>2 DEF InLine
  <2>4. \A x \in InLine' : RequestTaken => Independent(Head(chan), x)
    BY <2>1, <2>2 DEF LineInv, RequestTaken
  <2>5. LineInv'
    BY <1>6, <2>1, <2>3 DEF LineInv
  <2> QED
    BY <1>3, <2>3, <2>4, <2>5
<1>7. CASE inbox # <<>> /\ chan' = Append(chan, Head(inbox)) /\ inbox' = Tail(inbox)
  <2>1. /\ 1 \in DOMAIN inbox /\ Head(inbox) = inbox[1]
        /\ \A i \in DOMAIN inbox' : i + 1 \in DOMAIN inbox /\ inbox'[i] = inbox[i + 1] /\ 1 < i + 1
        /\ \A i, j \in DOMAIN inbox' : i < j => i + 1 < j + 1
    BY <1>1, <1>7, Dropped
  <2>2. /\ \A i \in DOMAIN chan' : i \in DOMAIN chan \/ i = Len(chan) + 1
        /\ \A i \in DOMAIN chan : chan'[i] = chan[i] /\ i < Len(chan) + 1
        /\ chan'[Len(chan) + 1] = inbox[1]
    BY <1>1, <1>7, <2>1, Appended
  <2>3. /\ \A i \in DOMAIN chan : i \in Nat
        /\ Len(chan) \in Nat
    BY <1>1
  <2>4. ~RequestTaken
    BY <1>1, <1>7 DEF RequestTaken
  <2>5. \A x \in InLine' : x \in InLine
    BY <1>7, <2>1, <2>2 DEF InLine
  <2>6. ASSUME NEW i \in DOMAIN chan', NEW j \in DOMAIN chan', i < j, IsRequest(chan'[i]), IsRequest(chan'[j])
        PROVE  Independent(chan'[i], chan'[j])
    <3>1. i \in DOMAIN chan
      BY <2>2, <2>3, <2>6
    <3> QED
      BY <2>1, <2>2, <2>6, <3>1 DEF LineInv
  <2>7. ASSUME NEW i \in DOMAIN chan', IsRequest(chan'[i]), NEW j \in DOMAIN inbox'
        PROVE  Independent(chan'[i], inbox'[j])
    BY <2>1, <2>2, <2>7 DEF LineInv
  <2>8. \A i, j \in DOMAIN inbox' : i < j => Independent(inbox'[i], inbox'[j])
    BY <2>1 DEF LineInv
  <2> QED
    BY <2>4, <2>5, <2>6, <2>7, <2>8 DEF LineInv
<1>8. ASSUME NEW e, ~IsRequest(e), chan' = Append(chan, e), inbox' = inbox
      PROVE  LineInv' /\ InLine' \subseteq InLine /\ ~RequestTaken
  <2>1. /\ \A i \in DOMAIN chan' : IsRequest(chan'[i]) => i \in DOMAIN chan
        /\ \A i \in DOMAIN chan : chan'[i] = chan[i]
    BY <1>1, <1>8, Appended
  <2>2. InLine' \subseteq InLine
    BY <1>8, <2>1 DEF InLine
  <2>3. ~RequestTaken
    BY <1>1, <1>8 DEF RequestTaken
  <2> QED
    BY <1>8, <2>1, <2>2, <2>3 DEF LineInv
<1> QED
  BY <1>5, <1>6, <1>7, <1>8, LineSteps

\* A request to enqueue asks for what its command will ask for.
LEMMA AsksForTheSame ==
    ASSUME NEW e, e.type = "Enqueue"
    PROVE  /\ \A x : Independent(e, x) => Independent(Ask(e.cmd), x)
           /\ \A x : Independent(x, e) => Independent(Ask(e.cmd), Ask(x.cmd)) \/ x.type # "Enqueue"
           /\ Sound(e) => Sound(Ask(e.cmd))
           /\ ReadEnds(e) = ReadEnds(Ask(e.cmd)) /\ WriteEnds(e) = WriteEnds(Ask(e.cmd))
           /\ NewPipes(e) = {} /\ NewPipes(Ask(e.cmd)) = {}
  BY DEF Independent, ReadEnds, WriteEnds, NewPipes, Ask, Sound

LEMMA AsksAlike ==
    ASSUME NEW cmd, NEW other, Independent(Ask(cmd), Ask(other))
    PROVE  Independent(Ask(other), Ask(cmd))
  BY DEF Independent, NewPipes, Ask

\* Nothing in line asks for what a command that is to run will ask for, nor do two such.
QueuedInv ==
    \A p \in Queued :
        /\ Sound(Ask(commands[p]))
        /\ \A x \in InLine : Independent(Ask(commands[p]), x)
        /\ \A r \in Queued : p # r => Independent(Ask(commands[p]), Ask(commands[r]))

LEMMA QueuedStep ==
    ASSUME TInv, LineInv, QueuedInv, [Next]_vars
    PROVE  QueuedInv'
<1> DEFINE event == Head(chan)
<1>1. /\ \A x \in InLine' : x \in InLine /\ (RequestTaken => Independent(event, x))
      /\ RequestTaken => event \in InLine
  BY LineStep
<1>2. ASSUME HandleEnqueue
      PROVE  RequestTaken /\ event.type = "Enqueue" /\ event \in InLine /\ Sound(event)
  <2>1. RequestTaken /\ event.type = "Enqueue"
    BY <1>2 DEF HandleEnqueue, Take, RequestTaken, IsRequest
  <2> QED
    BY <1>1, <2>1 DEF LineInv
<1> SUFFICES ASSUME NEW p \in Queued'
             PROVE  /\ Sound(Ask(commands'[p]))
                    /\ \A x \in InLine' : Independent(Ask(commands'[p]), x)
                    /\ \A r \in Queued' : p # r => Independent(Ask(commands'[p]), Ask(commands'[r]))
  BY DEF QueuedInv, Ask, Sound, Independent, ReadEnds, WriteEnds, NewPipes
<1>3. ASSUME NEW r \in Queued, r = p, commands'[p] = commands[p]
      PROVE  /\ Sound(Ask(commands'[p])) /\ \A x \in InLine : Independent(Ask(commands'[p]), x)
  BY <1>3 DEF QueuedInv
<1>4. ASSUME HandleEnqueue, p = event.pid, commands'[p] = event.cmd
      PROVE  Sound(Ask(commands'[p])) /\ \A x \in InLine' : Independent(Ask(commands'[p]), x)
  BY <1>1, <1>2, <1>4, AsksForTheSame
<1>5. ASSUME NEW r \in Queued', p # r
      PROVE  Independent(Ask(commands'[p]), Ask(commands'[r]))
  <2>1. \A t \in Queued' : \/ t \in Queued /\ commands'[t] = commands[t]
                           \/ HandleEnqueue /\ t = event.pid /\ commands'[t] = event.cmd
    BY QueuedSteps
  <2>2. ASSUME HandleEnqueue, NEW t \in Queued
        PROVE  Independent(Ask(commands[t]), Ask(event.cmd))
    <3>1. Independent(Ask(commands[t]), event) /\ Ask(commands[t]).type = "Enqueue"
          /\ Ask(commands[t]).cmd = commands[t]
      BY <1>2, <2>2 DEF QueuedInv, Ask
    <3> QED
      BY <1>2, <2>2, <3>1, AsksForTheSame, AsksAlike
  <2>3. CASE p \in Queued /\ commands'[p] = commands[p] /\ r \in Queued /\ commands'[r] = commands[r]
    BY <1>5, <2>3 DEF QueuedInv
  <2>4. CASE p \in Queued /\ commands'[p] = commands[p] /\ HandleEnqueue /\ commands'[r] = event.cmd
    BY <2>2, <2>4
  <2>5. CASE r \in Queued /\ commands'[r] = commands[r] /\ HandleEnqueue /\ commands'[p] = event.cmd
    BY <2>2, <2>5, AsksAlike
  <2> QED
    BY <1>5, <2>1, <2>3, <2>4, <2>5
<1> QED
  BY <1>1, <1>3, <1>4, <1>5, QueuedSteps

\* Of the ends of q that could be taken, a step takes the read end only if q is one of
\* `reads`, the write end only if it is one of `writes`, and makes neither otherwise.
Unmade(end) == end.read = "unmade" /\ end.write = "unmade"
Spares(q, reads, writes) ==
    /\ MayTake(ends[q].read) /\ q \notin reads => MayTake(ends'[q].read)
    /\ MayTake(ends[q].write) /\ q \notin writes => MayTake(ends'[q].write)
    /\ Unmade(ends[q]) /\ q \notin reads /\ q \notin writes => Unmade(ends'[q])
TakesOnly(reads, writes) == \A q \in Pipe : Spares(q, reads, writes)

\* A step takes what the request at the head of the channel asks for, or a command whose
\* turn it is, or nothing; what it closes was held.
LEMMA TakesWhatIsAsked ==
    ASSUME TInv, TInv', HoldInv, [Next]_vars, Alive'
    PROVE  \/ TakesOnly({}, {})
           \/ RequestTaken /\ TakesOnly(ReadEnds(Head(chan)), WriteEnds(Head(chan)))
           \/ \E p \in Queued : /\ p \notin Queued'
                                /\ TakesOnly(ReadEnds(Ask(commands[p])), WriteEnds(Ask(commands[p])))
<1>1. ends \in Ends
  BY DEF TInv, ExecTypes, Ends
<1>2. CASE UNCHANGED <<ends, process, readers, writers>>
  BY <1>2 DEF TakesOnly, Spares
<1>3. ASSUME NEW q \in Pipe, Opens(q)
      PROVE  RequestTaken /\ TakesOnly(ReadEnds(Head(chan)), WriteEnds(Head(chan)))
  <2> DEFINE x == Head(chan)
  <2>1. /\ RequestTaken /\ x.pipe = q
        /\ x.type = "OpenOutputFile" \/ x.type = "OpenInputFile"
    BY <1>3 DEF Opens, Requests, RequestTaken, IsRequest
  <2>2. \A r \in Pipe : r # q => ends'[r] = ends[r]
    BY <1>1, <1>3 DEF Opens, Ends
  <2>3. CASE x.type = "OpenOutputFile"
    <3>1. ends'[q].write = "table" /\ ReadEnds(x) = {q} /\ WriteEnds(x) = {}
      BY <1>1, <1>3, <2>1, <2>3 DEF Opens, Requests, Ends, ReadEnds, WriteEnds
    <3> QED
      BY <2>1, <2>2, <3>1 DEF TakesOnly, Spares, MayTake
  <2>4. CASE x.type = "OpenInputFile"
    <3>1. ends'[q].read = "table" /\ ReadEnds(x) = {} /\ WriteEnds(x) = {q}
      BY <1>1, <1>3, <2>1, <2>4 DEF Opens, Requests, Ends, ReadEnds, WriteEnds
    <3> QED
      BY <2>1, <2>2, <3>1 DEF TakesOnly, Spares, MayTake
  <2> QED
    BY <2>1, <2>3, <2>4
<1>4. ASSUME NEW q \in Pipe, BeginsToRead(q)
      PROVE  RequestTaken /\ TakesOnly(ReadEnds(Head(chan)), WriteEnds(Head(chan)))
  <2>1. /\ RequestTaken
        /\ ReadEnds(Head(chan)) = {q} /\ WriteEnds(Head(chan)) = {}
    BY <1>4 DEF BeginsToRead, Requests, RequestTaken, IsRequest, ReadEnds, WriteEnds
  <2>2. ASSUME NEW r \in Pipe PROVE Spares(r, {q}, {})
    BY <1>1, <1>4, <2>2, AfterEnd DEF BeginsToRead, MayTake, Spares, Unmade
  <2> QED
    BY <2>1, <2>2 DEF TakesOnly
<1>5. ASSUME NEW q \in Pipe, StopsReading(q) \/ StopsWriting(q) PROVE TakesOnly({}, {})
  <2>1. /\ StopsReading(q) => ends[q].read = "held" /\ ends' = CloseRead(ends, q)
        /\ StopsWriting(q) => ends[q].write = "held" /\ ends' = CloseWrite(ends, q)
    BY DEF StopsReading, StopsWriting, HoldInv
  <2>2. ASSUME NEW r \in Pipe PROVE Spares(r, {}, {})
    BY <1>1, <1>5, <2>1, <2>2, AfterEnd DEF MayTake, Spares, Unmade
  <2> QED
    BY <2>2 DEF TakesOnly
<1>6. ASSUME NEW p \in tasks, Spawns(p) \/ \E full, empty : Prints(p, full, empty)
      PROVE  /\ p \in Queued /\ p \notin Queued' /\ commands[p] \in Command
             /\ ReadEnds(Ask(commands[p])) = {commands[p].stdin}
             /\ WriteEnds(Ask(commands[p])) = Outputs(commands[p])
  <2>1. p \in to_run /\ commands[p] \in Command
    BY TasksHaveCommands DEF TInv, IInv, TasksAreToRun
  <2>2. p \in DOMAIN running' \cup DOMAIN finished'
    <3>1. CASE Spawns(p)
      BY <3>1, PutIsMap DEF Spawns, Start
    <3>2. ASSUME NEW status, StartCompleted(p, status) PROVE p \in DOMAIN finished'
      <4>1. finished' = Put(finished, p, status)
        BY <3>2 DEF StartCompleted, ResolvePanics, Resolve, Alive
      <4> QED
        BY <4>1, PutIsMap
    <3> QED
      BY <1>6, <3>1, <3>2 DEF Prints
  <2>3. OneState'
    BY DEF TInv, IInv
  <2> QED
    BY <2>1, <2>2, <2>3 DEF OneState, Queued, ReadEnds, WriteEnds, Ask, Outputs
<1>7. ASSUME NEW p \in tasks, Spawns(p)
      PROVE  TakesOnly(ReadEnds(Ask(commands[p])), WriteEnds(Ask(commands[p])))
  <2>1. ends' = Taken(commands[p])
    BY <1>7 DEF Spawns
  <2>2. ASSUME NEW r \in Pipe PROVE Spares(r, {commands[p].stdin}, Outputs(commands[p]))
    BY <1>1, <1>6, <1>7, <2>1, AfterTaken DEF MayTake, Spares, Unmade, Outputs
  <2> QED
    BY <1>6, <1>7, <2>2 DEF TakesOnly
<1>8. ASSUME NEW p \in tasks, NEW full, NEW empty, Prints(p, full, empty)
      PROVE  TakesOnly(ReadEnds(Ask(commands[p])), WriteEnds(Ask(commands[p])))
  <2>1. /\ full \in Outputs(commands[p]) /\ empty \in Outputs(commands[p])
        /\ OutputAndClose(full, empty) /\ full \in Pipe /\ empty \in Pipe
    BY <1>6, <1>8, PipesOfCommand DEF Prints
  <2>2. ASSUME NEW r \in Pipe PROVE Spares(r, {commands[p].stdin}, Outputs(commands[p]))
    BY <1>1, <2>1, AfterOutput DEF MayTake, Spares, Unmade
  <2> QED
    BY <1>6, <1>8, <2>2 DEF TakesOnly
<1>9. ASSUME NEW p \in Pid, NEW code \in ExitCode, Leaves(p, code) PROVE TakesOnly({}, {})
  <2>1. /\ commands[p] \in Command /\ Dies(p, code)
        /\ ends[commands[p].stdin].read = "held" /\ ends[commands[p].stdout].write = "held"
        /\ ends[commands[p].stderr].write = "held"
    BY <1>9, CommandsStay DEF HoldInv, Holds, Leaves, Outputs
  <2>2. ASSUME NEW r \in Pipe PROVE Spares(r, {}, {})
    BY <1>1, <2>1, AfterDeath DEF MayTake, Spares, Unmade
  <2> QED
    BY <2>2 DEF TakesOnly
<1> QED
  BY <1>2, <1>3, <1>4, <1>5, <1>6, <1>7, <1>8, <1>9, PipeSteps

\* What x asks for can be taken.
Free(x) ==
    /\ \A q \in ReadEnds(x) : MayTake(ends[q].read)
    /\ \A q \in WriteEnds(x) : MayTake(ends[q].write)
    /\ \A q \in NewPipes(x) : Unmade(ends[q])

FreeInv ==
    Alive => /\ \A p \in Queued : Free(Ask(commands[p]))
             /\ \A x \in InLine : Free(x)

\* It can be after a step that takes nothing of it.
LEMMA StaysFree ==
    ASSUME NEW x, Free(x), NEW reads, NEW writes, TakesOnly(reads, writes),
           ReadEnds(x) \subseteq Pipe, WriteEnds(x) \subseteq Pipe, NewPipes(x) \subseteq Pipe,
           ReadEnds(x) \cap reads = {}, WriteEnds(x) \cap writes = {},
           NewPipes(x) \cap (reads \cup writes) = {}
    PROVE  /\ \A q \in ReadEnds(x) : MayTake(ends'[q].read)
           /\ \A q \in WriteEnds(x) : MayTake(ends'[q].write)
           /\ \A q \in NewPipes(x) : Unmade(ends'[q])
  BY DEF Free, TakesOnly, Spares

LEMMA FreeInit == Init => FreeInv
<1> SUFFICES ASSUME Init PROVE FreeInv
  OBVIOUS
<1>1. Queued = {} /\ \A q \in Pipe : Unmade(ends[q]) /\ MayTake(ends[q].read) /\ MayTake(ends[q].write)
  BY DEF Init, MachineInit, EmptyMap, Queued, Unmade, MayTake
<1>2. \A x \in InLine : /\ ReadEnds(x) \subseteq Pipe /\ WriteEnds(x) \subseteq Pipe
                        /\ NewPipes(x) \subseteq Pipe
  BY TInvInit, InLineAreRequests, RequestEnds
<1> QED
  BY <1>1, <1>2 DEF FreeInv, Free

LEMMA FreeStep ==
    ASSUME TInv, TInv', HoldInv, LineInv, QueuedInv, FreeInv, [Next]_vars
    PROVE  FreeInv'
<1> SUFFICES ASSUME Alive' PROVE (\A p \in Queued : Free(Ask(commands[p])))' /\ (\A x \in InLine : Free(x))'
  BY DEF FreeInv
<1> DEFINE StillFree(x) == /\ \A q \in ReadEnds(x) : MayTake(ends'[q].read)
                           /\ \A q \in WriteEnds(x) : MayTake(ends'[q].write)
                           /\ \A q \in NewPipes(x) : Unmade(ends'[q])
<1>1. Alive
  <2>1. UNCHANGED vars => Alive
    BY DEF vars, machineVars, ctlVars, Alive
  <2> QED
    BY <2>1, StoppedForGood
<1>2. \A x \in InLine' : x \in InLine /\ (RequestTaken => Independent(Head(chan), x))
  BY LineStep
<1>3. ASSUME NEW x \in InLine'
      PROVE  StillFree(x)
  <2>1. /\ ReadEnds(x) \subseteq Pipe /\ WriteEnds(x) \subseteq Pipe /\ NewPipes(x) \subseteq Pipe
        /\ x \in InLine /\ Free(x)
    BY <1>1, <1>2, <1>3, InLineAreRequests, RequestEnds DEF FreeInv
  <2>2. CASE TakesOnly({}, {})
    BY <2>1, <2>2, StaysFree
  <2>3. CASE RequestTaken /\ TakesOnly(ReadEnds(Head(chan)), WriteEnds(Head(chan)))
    BY <1>2, <1>3, <2>1, <2>3, StaysFree DEF Independent
  <2>4. ASSUME NEW p \in Queued, TakesOnly(ReadEnds(Ask(commands[p])), WriteEnds(Ask(commands[p])))
        PROVE  StillFree(x)
    <3>1. Independent(Ask(commands[p]), x)
      BY <2>1 DEF QueuedInv
    <3> QED
      BY <2>1, <2>4, <3>1, StaysFree DEF Independent
  <2> HIDE DEF StillFree
  <2> QED
    BY <2>2, <2>3, <2>4, TakesWhatIsAsked
<1>4. ASSUME NEW p \in Queued, p \in Queued', commands'[p] = commands[p]
      PROVE  StillFree(Ask(commands[p]))
  <2> DEFINE x == Ask(commands[p])
  <2>1. /\ ReadEnds(x) \subseteq Pipe /\ WriteEnds(x) \subseteq Pipe /\ NewPipes(x) = {} /\ Free(x)
    <3>1. commands[p] \in Command
      BY CommandsStay DEF TInv, IInv, OneState, Queued
    <3> QED
      BY <1>1, <3>1, CommandFields DEF FreeInv, ReadEnds, WriteEnds, NewPipes, Ask
  <2> HIDE DEF x
  <2>2. ASSUME TakesOnly({}, {}) PROVE StillFree(x)
    BY <2>1, <2>2, StaysFree
  <2>3. ASSUME RequestTaken, TakesOnly(ReadEnds(Head(chan)), WriteEnds(Head(chan)))
        PROVE  StillFree(x)
    <3>1. Independent(x, Head(chan))
      BY <2>3, LineStep DEF QueuedInv, x
    <3> QED
      BY <2>1, <2>3, <3>1, StaysFree DEF Independent
  <2>4. ASSUME NEW r \in Queued, r \notin Queued',
               TakesOnly(ReadEnds(Ask(commands[r])), WriteEnds(Ask(commands[r])))
        PROVE  StillFree(x)
    <3>1. Independent(Ask(commands[r]), x)
      BY <1>4, <2>4 DEF QueuedInv, x
    <3> QED
      BY <2>1, <2>4, <3>1, StaysFree DEF Independent
  <2> HIDE DEF StillFree
  <2>5. StillFree(x)
    BY <2>2, <2>3, <2>4, TakesWhatIsAsked
  <2> USE DEF StillFree
  <2> QED
    BY <2>5 DEF x
<1>5. ASSUME NEW p \in Queued' PROVE StillFree(Ask(commands'[p]))
  <2>1. CASE p \in Queued /\ commands'[p] = commands[p]
    BY <1>4, <1>5, <2>1
  <2>2. ASSUME HandleEnqueue, commands'[p] = Head(chan).cmd, UNCHANGED ends
        PROVE  StillFree(Ask(commands'[p]))
    <3>1. Head(chan) \in InLine /\ Head(chan).type = "Enqueue"
      BY <2>2, LineStep DEF HandleEnqueue, Take, RequestTaken, IsRequest
    <3>2. Free(Head(chan))
      BY <1>1, <3>1 DEF FreeInv
    <3> QED
      BY <2>2, <3>1, <3>2, AsksForTheSame DEF Free
  <2> QED
    BY <1>5, <2>1, <2>2, QueuedSteps
<1> QED
  BY <1>3, <1>5 DEF Free, Ask, ReadEnds, WriteEnds, NewPipes

(* When no request asks for an end that an earlier one asks for, no end is ever asked for *)
(* that is no longer there to be taken: the executor does not panic over pipe ends.       *)
THEOREM EndsStayFree ==
    ASSUME \A requests \in Inboxes : EndsAskedOnce(requests)
    PROVE  Spec => []EndsAreFree
<1>1. TInv /\ QueuedInv /\ FreeInv => EndsAreFree
  <2> SUFFICES ASSUME TInv, QueuedInv, FreeInv, Alive PROVE EndsAreFree
    BY DEF EndsAreFree
  <2>1. ASSUME NEW p \in Queued PROVE CanTake(commands[p])
    <3>1. Free(Ask(commands[p])) /\ Sound(Ask(commands[p]))
      BY <2>1 DEF FreeInv, QueuedInv
    <3> QED
      BY <3>1 DEF Free, Sound, Ask, ReadEnds, WriteEnds, CanTake, CanWrite
  <2>2. ASSUME NEW i \in DOMAIN chan, chan[i].type = "BeginRead" PROVE MayTake(ends[chan[i].pipe].read)
    <3>1. Free(chan[i])
      BY <2>2 DEF FreeInv, InLine, IsRequest
    <3> QED
      BY <2>2, <3>1 DEF Free, ReadEnds
  <2>3. ASSUME NEW i \in DOMAIN chan, chan[i].type \in {"OpenOutputFile", "OpenInputFile"}
        PROVE  ends[chan[i].pipe] = [read |-> "unmade", write |-> "unmade"]
    <3>1. chan[i] \in InLine
      BY <2>3 DEF InLine, IsRequest
    <3>2. Unmade(ends[chan[i].pipe]) /\ chan[i].pipe \in Pipe
      BY <2>3, <3>1, InLineAreRequests, RequestEnds DEF FreeInv, Free, NewPipes
    <3>3. ends[chan[i].pipe] \in [read : {"unmade", "table", "held", "closed", "file"},
                                  write : {"unmade", "table", "held", "closed", "file"}]
      BY <3>2 DEF TInv, ExecTypes
    <3> QED
      BY <3>2, <3>3 DEF Unmade
  <2> QED
    BY <2>1, <2>2, <2>3 DEF EndsAreFree, Queued, CanTake
<1>2. Init => QueuedInv
  BY DEF Init, MachineInit, EmptyMap, QueuedInv, Queued
<1> QED
  BY <1>1, <1>2, TInvInit, TInvStep, HoldInit, HoldStep, LineInit, LineStep, QueuedStep, FreeInit,
     FreeStep, PTL DEF Spec
=============================================================================
