--------------------------- MODULE ExecRefinement ---------------------------
(***************************************************************************)
(* The executor implements the backend that the session expects, for any   *)
(* requests of a frontend, processes, pipes and interleaving.              *)
(***************************************************************************)
EXTENDS ExecProofs, ExecBackend, SequenceTheorems

-----------------------------------------------------------------------------
(* What the executor has been asked, and is still to be asked.             *)

\* What a step does to the commands and to what the machine was asked.
LEMMA OnlyEnqueueAsks ==
    ASSUME [Next]_vars, ~HandleEnqueue
    PROVE  commands' = commands /\ asked' = asked /\ refused' = refused
<1>1. CASE Handle
  <2>1. CASE HandleCompleted \/ HandleEditComplete
    BY <2>1 DEF HandleCompleted, HandleEditComplete, Finish, Completed, machineVars
  <2>2. CASE HandleOpenFile \/ HandleBeginRead \/ HandlePipe \/ HandleCancel
    BY <2>2 DEF HandleOpenFile, HandleBeginRead, HandlePipe, HandleCancel, machineVars
  <2> QED
    BY <1>1, <2>1, <2>2 DEF Handle
<1>2. CASE RunTask
  BY <1>2 DEF RunTask, StartProcess, SpawnFails, RunSetDirectory, RunGetDirectory, BeginEdit,
              EditUnreadable, ReportRefused, EndAtOnce, Start, StartCompleted, machineVars
<1>3. CASE ~Handle /\ ~RunTask
  BY <1>3 DEF Next, Executor, SendRequest, SendCancel, SendEdit, ProcessStep, Writes, Consumes,
     ExitsWith, LockChild, Reap, ReaderReads, ReaderEnds, WriterWrites, Kill, vars, machineVars, ctlVars
<1> QED
  BY <1>1, <1>2, <1>3

\* The executor takes the request to enqueue from the channel.
LEMMA EnqueueTaken ==
    ASSUME TInv, HandleEnqueue
    PROVE  /\ Alive /\ chan # <<>> /\ chan' = Tail(chan) /\ Head(chan) = chan[1] /\ 1 \in DOMAIN chan
           /\ Head(chan) \in Event /\ Head(chan).type = "Enqueue"
           /\ Head(chan).pid \in Pid /\ Head(chan).cmd \in Command /\ Head(chan).block_for \in BlockFor
           /\ Head(chan) \in InLine
           /\ Enqueue(Head(chan).pid, Head(chan).block_for)
           /\ commands' = Put(commands, Head(chan).pid, Head(chan).cmd)
           /\ UNCHANGED <<ioVars, userVars, cancelling, waiting_edits, sent, crashed>>
<1>1. chan \in Seq(Event)
  BY DEF TInv, ExecTypes
<1>2. Take("Enqueue") /\ Alive
  BY DEF HandleEnqueue, Take, Idle
<1>3. /\ chan # <<>> /\ chan' = Tail(chan)
      /\ Head(chan) \in Event /\ Head(chan).type = "Enqueue"
  BY <1>1, <1>2, FirstEvent DEF Take
<1>4. 1 \in DOMAIN chan /\ Head(chan) = chan[1]
  BY <1>1, <1>3, Dropped
<1>5. Head(chan) \in InLine
  BY <1>3, <1>4 DEF InLine, IsRequest
<1>6. Head(chan).pid \in Pid /\ Head(chan).cmd \in Command /\ Head(chan).block_for \in BlockFor
  BY <1>3, EventFields
<1> QED
  BY <1>2, <1>3, <1>4, <1>5, <1>6 DEF HandleEnqueue

\* Only the handlers of events take from the channel.
LEMMA OnlyHandleTakes ==
    ASSUME TInv, [Next]_vars, chan # <<>>, chan' = Tail(chan)
    PROVE  Handle
<1>1. chan \in Seq(Event)
  BY DEF TInv, ExecTypes
<1>2. chan' # chan /\ \A e : chan' # Append(chan, e)
  BY <1>1
<1> QED
  BY <1>2 DEF Next, Executor, RunTask, StartProcess, SpawnFails, RunSetDirectory, RunGetDirectory, BeginEdit,
     EditUnreadable, ReportRefused, SendRequest, SendCancel, SendEdit, ProcessStep, Writes, Consumes,
     ExitsWith, LockChild, Reap, ReaderReads, ReaderEnds, WriterWrites, Kill, vars, ctlVars

\* Nothing joins the line.
LEMMA LineShrinks ==
    ASSUME TInv, [Next]_vars
    PROVE  InLine' \subseteq InLine
<1>1. chan \in Seq(Event) /\ inbox \in Seq(Request)
  BY DEF TInv, ExecTypes
<1>2. CASE chan' = chan /\ inbox' = inbox
  BY <1>2 DEF InLine
<1>3. CASE chan # <<>> /\ chan' = Tail(chan) /\ inbox' = inbox
  <2>1. \A i \in DOMAIN chan' : i + 1 \in DOMAIN chan /\ chan'[i] = chan[i + 1]
    BY <1>1, <1>3, Dropped
  <2> QED
    BY <1>3, <2>1 DEF InLine
<1>4. CASE inbox # <<>> /\ chan' = Append(chan, Head(inbox)) /\ inbox' = Tail(inbox)
  <2>1. /\ 1 \in DOMAIN inbox /\ Head(inbox) = inbox[1]
        /\ \A i \in DOMAIN inbox' : i + 1 \in DOMAIN inbox /\ inbox'[i] = inbox[i + 1]
    BY <1>1, <1>4, Dropped
  <2>2. /\ \A i \in DOMAIN chan' : i \in DOMAIN chan \/ i = Len(chan) + 1
        /\ \A i \in DOMAIN chan : chan'[i] = chan[i]
        /\ chan'[Len(chan) + 1] = inbox[1]
    BY <1>1, <1>4, <2>1, Appended
  <2> QED
    BY <2>1, <2>2 DEF InLine
<1>5. ASSUME NEW e, ~IsRequest(e), chan' = Append(chan, e), inbox' = inbox
      PROVE  InLine' \subseteq InLine
  <2>1. /\ \A i \in DOMAIN chan' : i \in DOMAIN chan \/ i = Len(chan) + 1
        /\ \A i \in DOMAIN chan : chan'[i] = chan[i]
        /\ chan'[Len(chan) + 1] = e
    BY <1>1, <1>5, Appended
  <2> QED
    BY <1>5, <2>1 DEF InLine
<1> QED
  BY <1>2, <1>3, <1>4, <1>5, LineSteps

\* The requests in line are those of one frontend.
SourceInv == \E requests \in Inboxes : \A x \in InLine : \E i \in DOMAIN requests : x = requests[i]

LEMMA SourceInit == Init => SourceInv
<1> SUFFICES ASSUME Init PROVE SourceInv
  OBVIOUS
<1>1. inbox \in Inboxes /\ chan = <<>>
  BY DEF Init
<1>2. \A x \in InLine : \E i \in DOMAIN inbox : x = inbox[i]
  BY <1>1 DEF InLine
<1> QED
  BY <1>1, <1>2 DEF SourceInv

LEMMA SourceStep ==
    ASSUME TInv, SourceInv, [Next]_vars
    PROVE  SourceInv'
  BY LineShrinks DEF SourceInv

\* A command in line needs only commands that were enqueued or are in line before it.
NeedsInv ==
    /\ \A i \in DOMAIN chan : chan[i].type = "Enqueue" =>
          \A q \in DOMAIN chan[i].block_for :
             q \in DOMAIN commands \/ \E j \in DOMAIN chan : j < i /\ Enqueues(chan[j], q)
    /\ \A i \in DOMAIN inbox : inbox[i].type = "Enqueue" =>
          \A q \in DOMAIN inbox[i].block_for :
             \/ q \in DOMAIN commands
             \/ \E j \in DOMAIN chan : Enqueues(chan[j], q)
             \/ \E j \in DOMAIN inbox : j < i /\ Enqueues(inbox[j], q)

LEMMA NeedsInit ==
    ASSUME Init, \A requests \in Inboxes : FrontendSends(requests)
    PROVE  NeedsInv
<1>1. chan = <<>> /\ FrontendSends(inbox)
  BY DEF Init
<1>2. DOMAIN chan = {}
  BY <1>1
<1> QED
  BY <1>1, <1>2 DEF NeedsInv, FrontendSends

LEMMA NeedsStep ==
    ASSUME TInv, NeedsInv, [Next]_vars
    PROVE  NeedsInv'
<1>1. chan \in Seq(Event) /\ inbox \in Seq(Request)
  BY DEF TInv, ExecTypes
<1>2. DOMAIN commands \subseteq DOMAIN commands'
  <2>1. CASE HandleEnqueue
    BY <2>1, EnqueueTaken, PutIsMap
  <2> QED
    BY <2>1, OnlyEnqueueAsks
<1>3. CASE chan' = chan /\ inbox' = inbox
  BY <1>2, <1>3 DEF NeedsInv
<1>4. CASE chan # <<>> /\ chan' = Tail(chan) /\ inbox' = inbox
  <2>1. /\ 1 \in DOMAIN chan /\ Head(chan) = chan[1]
        /\ \A i \in DOMAIN chan' : i + 1 \in DOMAIN chan /\ chan'[i] = chan[i + 1] /\ i \in Nat
        /\ \A i \in DOMAIN chan : i \in Nat /\ (i # 1 => i - 1 \in DOMAIN chan' /\ chan'[i - 1] = chan[i])
    BY <1>1, <1>4, Dropped
  \* The request that is taken is enqueued.
  <2>2. \A q : Enqueues(chan[1], q) => q \in DOMAIN commands'
    <3>1. CASE HandleEnqueue
      BY <3>1, EnqueueTaken, PutIsMap DEF Enqueues
    <3>2. CASE ~HandleEnqueue
      <4>1. Handle
        BY <1>4, OnlyHandleTakes
      <4>2. Head(chan).type # "Enqueue"
        BY <3>2, <4>1 DEF Handle, HandleCompleted, HandleOpenFile, HandleBeginRead, HandlePipe,
           HandleEditComplete, HandleCancel, Take
      <4> QED
        BY <2>1, <4>2 DEF Enqueues
    <3> QED
      BY <3>1, <3>2
  <2>3. ASSUME NEW i \in DOMAIN chan', chan'[i].type = "Enqueue", NEW q \in DOMAIN chan'[i].block_for
        PROVE  q \in DOMAIN commands' \/ \E j \in DOMAIN chan' : j < i /\ Enqueues(chan'[j], q)
    <3>1. i + 1 \in DOMAIN chan /\ chan'[i] = chan[i + 1] /\ i \in Nat
      BY <2>1
    <3>2. q \in DOMAIN commands \/ \E j \in DOMAIN chan : j < i + 1 /\ Enqueues(chan[j], q)
      BY <2>3, <3>1 DEF NeedsInv
    <3>3. ASSUME NEW j \in DOMAIN chan, j < i + 1, Enqueues(chan[j], q), j # 1
          PROVE  j - 1 \in DOMAIN chan' /\ j - 1 < i /\ Enqueues(chan'[j - 1], q)
      <4>1. j - 1 \in DOMAIN chan' /\ chan'[j - 1] = chan[j] /\ j \in Nat
        BY <2>1, <3>3
      <4>2. j - 1 < i
        BY <3>1, <3>3, <4>1
      <4> QED
        BY <3>3, <4>1, <4>2
    <3> QED
      BY <1>2, <2>2, <3>2, <3>3
  <2>4. ASSUME NEW q, NEW j \in DOMAIN chan, Enqueues(chan[j], q)
        PROVE  q \in DOMAIN commands' \/ \E k \in DOMAIN chan' : Enqueues(chan'[k], q)
    BY <2>1, <2>2, <2>4
  <2>5. ASSUME NEW i \in DOMAIN inbox', inbox'[i].type = "Enqueue", NEW q \in DOMAIN inbox'[i].block_for
        PROVE  \/ q \in DOMAIN commands'
               \/ \E j \in DOMAIN chan' : Enqueues(chan'[j], q)
               \/ \E j \in DOMAIN inbox' : j < i /\ Enqueues(inbox'[j], q)
    BY <1>2, <1>4, <2>4, <2>5 DEF NeedsInv
  <2> QED
    BY <2>3, <2>5 DEF NeedsInv
<1>5. CASE inbox # <<>> /\ chan' = Append(chan, Head(inbox)) /\ inbox' = Tail(inbox)
  <2>1. /\ 1 \in DOMAIN inbox /\ Head(inbox) = inbox[1]
        /\ \A i \in DOMAIN inbox' : i + 1 \in DOMAIN inbox /\ inbox'[i] = inbox[i + 1] /\ i \in Nat
        /\ \A i \in DOMAIN inbox : i \in Nat \ {0}
                                   /\ (i # 1 => i - 1 \in DOMAIN inbox' /\ inbox'[i - 1] = inbox[i])
    BY <1>1, <1>5, Dropped
  <2>2. /\ \A i \in DOMAIN chan' : i \in DOMAIN chan \/ i = Len(chan) + 1
        /\ \A i \in DOMAIN chan : i \in DOMAIN chan' /\ chan'[i] = chan[i] /\ i < Len(chan) + 1
        /\ chan'[Len(chan) + 1] = inbox[1] /\ Len(chan) + 1 \in DOMAIN chan'
    BY <1>1, <1>5, <2>1, Appended
  <2>3. ASSUME NEW i \in DOMAIN chan', chan'[i].type = "Enqueue", NEW q \in DOMAIN chan'[i].block_for
        PROVE  q \in DOMAIN commands' \/ \E j \in DOMAIN chan' : j < i /\ Enqueues(chan'[j], q)
    <3>1. CASE i \in DOMAIN chan
      BY <1>2, <2>2, <2>3, <3>1 DEF NeedsInv
    <3>2. CASE i = Len(chan) + 1
      <4>1. \/ q \in DOMAIN commands
            \/ \E j \in DOMAIN chan : Enqueues(chan[j], q)
            \/ \E j \in DOMAIN inbox : j < 1 /\ Enqueues(inbox[j], q)
        BY <2>1, <2>2, <2>3, <3>2 DEF NeedsInv
      <4>2. ~\E j \in DOMAIN inbox : j < 1
        BY <2>1
      <4> QED
        BY <1>2, <2>2, <3>2, <4>1, <4>2
    <3> QED
      BY <2>2, <3>1, <3>2
  <2>4. ASSUME NEW i \in DOMAIN inbox', inbox'[i].type = "Enqueue", NEW q \in DOMAIN inbox'[i].block_for
        PROVE  \/ q \in DOMAIN commands'
               \/ \E j \in DOMAIN chan' : Enqueues(chan'[j], q)
               \/ \E j \in DOMAIN inbox' : j < i /\ Enqueues(inbox'[j], q)
    <3>1. i + 1 \in DOMAIN inbox /\ inbox'[i] = inbox[i + 1] /\ i \in Nat
      BY <2>1
    <3>2. \/ q \in DOMAIN commands
          \/ \E j \in DOMAIN chan : Enqueues(chan[j], q)
          \/ \E j \in DOMAIN inbox : j < i + 1 /\ Enqueues(inbox[j], q)
      BY <2>4, <3>1 DEF NeedsInv
    <3>3. ASSUME NEW j \in DOMAIN inbox, j < i + 1, Enqueues(inbox[j], q)
          PROVE  \/ \E k \in DOMAIN chan' : Enqueues(chan'[k], q)
                 \/ \E k \in DOMAIN inbox' : k < i /\ Enqueues(inbox'[k], q)
      <4>1. CASE j = 1
        BY <2>2, <3>3, <4>1
      <4>2. CASE j # 1
        <5>1. j - 1 \in DOMAIN inbox' /\ inbox'[j - 1] = inbox[j] /\ j \in Nat
          BY <2>1, <4>2
        <5>2. j - 1 < i
          BY <3>1, <3>3, <5>1
        <5> QED
          BY <3>3, <5>1, <5>2
      <4> QED
        BY <4>1, <4>2
    <3> QED
      BY <1>2, <2>2, <3>2, <3>3
  <2> QED
    BY <2>3, <2>4 DEF NeedsInv
<1>6. ASSUME NEW e, ~IsRequest(e), chan' = Append(chan, e), inbox' = inbox
      PROVE  NeedsInv'
  <2>1. /\ \A i \in DOMAIN chan' : i \in DOMAIN chan \/ i = Len(chan) + 1
        /\ \A i \in DOMAIN chan : i \in DOMAIN chan' /\ chan'[i] = chan[i]
        /\ chan'[Len(chan) + 1] = e
    BY <1>1, <1>6, Appended
  <2>2. e.type # "Enqueue"
    BY <1>6 DEF IsRequest
  <2> QED
    BY <1>2, <1>6, <2>1, <2>2 DEF NeedsInv
<1> QED
  BY <1>3, <1>4, <1>5, <1>6, LineSteps

-----------------------------------------------------------------------------
(* What the commands are, and that none is refused that asks for nothing.  *)

\* As long as the executor lives, it has given each command to the machine.
KnownInv == Alive => DOMAIN commands = DOMAIN asked

LEMMA KnownStep ==
    ASSUME TInv, KnownInv, [Next]_vars
    PROVE  KnownInv'
<1> SUFFICES ASSUME Alive' PROVE DOMAIN commands' = DOMAIN asked'
  BY DEF KnownInv
<1>1. CASE HandleEnqueue
  <2> DEFINE p == Head(chan).pid
  <2>1. /\ Alive /\ Enqueue(p, Head(chan).block_for) /\ commands' = Put(commands, p, Head(chan).cmd)
    BY <1>1, EnqueueTaken
  <2>2. asked' = Put(asked, p, Head(chan).block_for)
    BY <2>1 DEF Enqueue, EnqueueRefused, EnqueueUnknown, EnqueueReady, EnqueueBlocked, Alive
  <2> QED
    BY <2>1, <2>2, PutIsMap DEF KnownInv
<1>2. CASE ~HandleEnqueue
  <2>1. Alive
    BY StoppedForGood DEF vars, machineVars, ctlVars, Alive
  <2> QED
    BY <1>2, <2>1, OnlyEnqueueAsks DEF KnownInv
<1> QED
  BY <1>1, <1>2

\* No command writes more to a pipe than the bound allows.
SizeInv == \A p \in DOMAIN commands : \A s \in Stream : commands[p].writes[s] <= MaxChunks

LEMMA SizeStep ==
    ASSUME TInv, SizeInv, SourceInv, \A requests \in Inboxes : FrontendSends(requests), [Next]_vars
    PROVE  SizeInv'
<1>1. CASE HandleEnqueue
  <2> DEFINE p == Head(chan).pid
  <2>1. /\ Head(chan).type = "Enqueue" /\ Head(chan) \in InLine
        /\ commands' = Put(commands, p, Head(chan).cmd)
    BY <1>1, EnqueueTaken
  <2>2. \A s \in Stream : Head(chan).cmd.writes[s] <= MaxChunks
    BY <2>1 DEF SourceInv, FrontendSends
  <2> QED
    BY <2>1, <2>2 DEF SizeInv, Put
<1>2. CASE ~HandleEnqueue
  BY <1>2, OnlyEnqueueAsks DEF SizeInv
<1> QED
  BY <1>1, <1>2

\* A command is refused over a condition that it has.
RefusedInv == \A p \in refused : \E q \in DOMAIN asked[p] : asked[p][q] # None

LEMMA RefusedStays ==
    ASSUME TInv, RefusedInv, [Next]_vars
    PROVE  RefusedInv'
<1>1. \A p \in refused : p \in DOMAIN asked
  BY DEF TInv, IInv, OneState
<1>2. \A p \in refused : \E q \in DOMAIN asked'[p] : asked'[p][q] # None
  BY <1>1, AskedStays DEF RefusedInv
<1>3. CASE HandleEnqueue
  <2> DEFINE p == Head(chan).pid
             block_for == Head(chan).block_for
  <2>1. Enqueue(p, block_for)
    BY <1>3, EnqueueTaken
  <2>2. CASE EnqueueRefused(p, block_for)
    <3>1. \E q \in DOMAIN block_for : ~Meets(block_for[q], finished[q])
      BY <2>2 DEF EnqueueRefused, Missed
    <3>2. \E q \in DOMAIN block_for : block_for[q] # None
      BY <3>1 DEF Meets
    <3>3. refused' = refused \cup {p} /\ asked'[p] = block_for
      BY <2>2, PutIsMap DEF EnqueueRefused
    <3> QED
      BY <1>2, <3>2, <3>3 DEF RefusedInv
  <2>3. CASE ~EnqueueRefused(p, block_for)
    <3>1. refused' = refused
      BY <2>1, <2>3 DEF Enqueue, EnqueueUnknown, EnqueueReady, EnqueueBlocked
    <3> QED
      BY <1>2, <3>1 DEF RefusedInv
  <2> QED
    BY <2>2, <2>3
<1>4. CASE ~HandleEnqueue
  BY <1>2, <1>4, OnlyEnqueueAsks DEF RefusedInv
<1> QED
  BY <1>3, <1>4

\* Without conditions nothing is refused, and the machine meets no exit that it cannot resolve.
LEMMA WithoutConditions ==
    ASSUME TInv, RefusedInv, Unconditional
    PROVE  /\ refused = {}
           /\ \A p \in Pid : \A status : ~ResolvePanics(p, status)
<1>1. refused = {}
  <2>1. refused \subseteq DOMAIN asked
    BY DEF TInv, IInv, OneState
  <2> QED
    BY <2>1 DEF RefusedInv, Unconditional
<1>2. ASSUME NEW p \in Pid, NEW i \in DOMAIN check_on_completed[p]
      PROVE  check_on_completed[p][i].cond = None
  <2> DEFINE entry == check_on_completed[p][i]
  <2>1. /\ entry.pid \in DOMAIN waiting_on
        /\ p \in DOMAIN waiting_on[entry.pid]
        /\ waiting_on[entry.pid][p] = entry.cond
    BY DEF TInv, IInv, IndexesAgree
  <2>2. entry.pid \in DOMAIN asked /\ waiting_on[entry.pid] = StillNeeded(asked[entry.pid])
    BY <2>1 DEF TInv, IInv, OneState, WaitsForTheRest
  <2>3. p \in DOMAIN asked[entry.pid] /\ waiting_on[entry.pid][p] = asked[entry.pid][p]
    BY <2>1, <2>2, StillNeededIsMap
  <2> QED
    BY <2>1, <2>2, <2>3 DEF Unconditional
<1>3. \A p \in Pid : \A status : MissedBy(p, status) = {}
  BY <1>2 DEF MissedBy, Meets
<1> QED
  BY <1>1, <1>3 DEF ResolvePanics

\* What was asked with a condition stays asked with it.
LEMMA StillUnconditional ==
    ASSUME TInv, [Next]_vars, Unconditional'
    PROVE  Unconditional
<1>1. \A p \in DOMAIN asked : p \in DOMAIN asked' /\ asked'[p] = asked[p]
  BY AskedStays
<1> QED
  BY <1>1 DEF Unconditional

-----------------------------------------------------------------------------
(* Who reads, and who has written.                                         *)

\* What a reader sees goes into the channel; nothing else there tells of output or its end.
LEMMA ChanSteps ==
    ASSUME TInv, [Next]_vars
    PROVE  \/ \E q \in readers : ReaderReads(q) \/ ReaderEnds(q)
           \/ /\ readers \subseteq readers'
              /\ \/ chan' = chan
                 \/ chan # <<>> /\ chan' = Tail(chan)
                 \/ \E e : e.type \notin {"PipeOutput", "PipeClosed"} /\ chan' = Append(chan, e)
<1>1. CASE \E q \in Pipe : ReaderReads(q) \/ ReaderEnds(q)
  BY <1>1 DEF ReaderReads, ReaderEnds
<1>2. CASE Handle
  BY <1>2 DEF Handle, HandleEnqueue, HandleCompleted, HandleOpenFile, HandleBeginRead, HandlePipe,
              HandleEditComplete, HandleCancel, Take, ioVars
<1>3. CASE RunTask
  BY <1>3 DEF RunTask, StartProcess, SpawnFails, RunSetDirectory, RunGetDirectory, BeginEdit,
              EditUnreadable, ReportRefused, OutputAndClose, ioVars
<1>4. CASE SendRequest
  <2>1. Head(inbox) \in Request
    BY <1>4 DEF SendRequest, TInv, ExecTypes
  <2>2. Head(inbox).type \notin {"PipeOutput", "PipeClosed"}
    BY <2>1 DEF Request, PipeRequest
  <2> QED
    BY <1>4, <2>2 DEF SendRequest, ioVars
<1>5. CASE \E p \in Pid : SendCancel(p) \/ SendEdit(p) \/ Reap(p)
  BY <1>5 DEF SendCancel, SendEdit, Reap, ioVars
<1>6. CASE \E p \in Pid : ProcessStep(p) \/ LockChild(p) \/ Kill(p)
  BY <1>6 DEF ProcessStep, Writes, Consumes, ExitsWith, LockChild, Kill, ctlVars
<1>7. CASE (\E q \in Pipe : WriterWrites(q)) \/ UNCHANGED vars
  BY <1>7 DEF WriterWrites, vars, ctlVars, ioVars
<1> QED
  BY <1>1, <1>2, <1>3, <1>4, <1>5, <1>6, <1>7 DEF Next, Executor

\* What is in the channel after a step was there before it, or is what the step put there.
LEMMA PlacesInChan ==
    ASSUME TInv, NEW m
    PROVE  /\ chan' = chan => (Places(chan', m) # {} <=> Places(chan, m) # {})
           /\ \A e : chan' = Append(chan, e) => (Places(chan', m) # {} <=> Places(chan, m) # {} \/ e = m)
           /\ chan # <<>> /\ chan' = Tail(chan) =>
                 /\ Places(chan', m) # {} => Places(chan, m) # {}
                 /\ Places(chan, m) # {} => Places(chan', m) # {} \/ Head(chan) = m
<1>1. chan \in Seq(Event)
  BY DEF TInv, ExecTypes
<1>2. ASSUME NEW e, chan' = Append(chan, e)
      PROVE  Places(chan', m) # {} <=> Places(chan, m) # {} \/ e = m
  BY <1>1, <1>2, CountAppended
<1>3. ASSUME chan # <<>>, chan' = Tail(chan)
      PROVE  /\ Places(chan', m) # {} => Places(chan, m) # {}
             /\ Places(chan, m) # {} => Places(chan', m) # {} \/ Head(chan) = m
  <2>1. Head(chan) = chan[1] /\ \A i \in DOMAIN chan : i # 1 => i - 1 \in DOMAIN chan' /\ chan'[i - 1] = chan[i]
    BY <1>1, <1>3, Dropped
  <2>2. Places(chan', m) # {} => Places(chan, m) # {}
    BY <1>1, <1>3, CountTaken
  <2> QED
    BY <2>1, <2>2 DEF Places
<1> QED
  BY <1>2, <1>3

\* Output on its way is from a pipe that is read, or whose end is on its way behind it.
ReadInv == \A q \in Pipe : Places(chan, Output(q)) # {} => q \in readers \/ Places(chan, Eof(q)) # {}

LEMMA ReadStep ==
    ASSUME TInv, OutInv, ReadInv, [Next]_vars
    PROVE  ReadInv'
<1> SUFFICES ASSUME NEW q \in Pipe, Places(chan', Output(q)) # {}
             PROVE  q \in readers' \/ Places(chan', Eof(q)) # {}
  BY FourMessages DEF ReadInv
<1>1. chan \in Seq(Event)
  BY DEF TInv, ExecTypes
<1>2. Output(q) # Eof(q) /\ Output(q).type = "PipeOutput" /\ Eof(q).type = "PipeClosed"
  BY DEF Output, Eof
<1>3. CASE \E r \in readers : ReaderReads(r)
  <2> PICK r \in readers : ReaderReads(r)
    BY <1>3
  <2>1. chan' = Append(chan, Output(r)) /\ readers' = readers
    BY DEF ReaderReads, Output
  <2>2. Output(r) = Output(q) => r = q
    BY DEF Output
  <2>3. Places(chan, Output(q)) # {} \/ r = q
    BY <2>1, <2>2, PlacesInChan
  <2>4. Places(chan, Eof(q)) # {} => Places(chan', Eof(q)) # {}
    BY <2>1, PlacesInChan
  <2> QED
    BY <2>1, <2>3, <2>4 DEF ReadInv
<1>4. CASE \E r \in readers : ReaderEnds(r)
  <2> PICK r \in readers : ReaderEnds(r)
    BY <1>4
  <2>1. chan' = Append(chan, Eof(r)) /\ readers' = readers \ {r}
    BY DEF ReaderEnds, Eof
  <2>2. Eof(r) # Output(q)
    BY DEF Eof, Output
  <2>3. Places(chan, Output(q)) # {}
    BY <2>1, <2>2, PlacesInChan
  <2>4. Places(chan, Eof(q)) # {} \/ r = q => Places(chan', Eof(q)) # {}
    BY <2>1, PlacesInChan
  <2> QED
    BY <2>1, <2>3, <2>4 DEF ReadInv
<1>5. CASE readers \subseteq readers' /\ chan' = chan
  BY <1>5 DEF ReadInv
<1>6. ASSUME readers \subseteq readers', NEW e, e.type \notin {"PipeOutput", "PipeClosed"}, chan' = Append(chan, e)
      PROVE  q \in readers' \/ Places(chan', Eof(q)) # {}
  <2>1. e # Output(q)
    BY <1>2, <1>6
  <2>2. Places(chan, Output(q)) # {}
    BY <1>6, <2>1, PlacesInChan
  <2>3. Places(chan, Eof(q)) # {} => Places(chan', Eof(q)) # {}
    BY <1>6, PlacesInChan
  <2> QED
    BY <1>6, <2>2, <2>3 DEF ReadInv
<1>7. CASE readers \subseteq readers' /\ chan # <<>> /\ chan' = Tail(chan)
  <2>1. Places(chan, Output(q)) # {}
    BY <1>7, PlacesInChan
  <2>2. Places(chan, Eof(q)) # {} => Places(chan', Eof(q)) # {} \/ Head(chan) = Eof(q)
    BY <1>7, PlacesInChan
  \* The end is never first when there is output.
  <2>3. Head(chan) # Eof(q)
    <3>1. SUFFICES ASSUME Head(chan) = Eof(q) PROVE FALSE
      OBVIOUS
    <3>2. 1 \in Places(chan, Eof(q))
      BY <1>1, <1>7, <3>1, Dropped DEF Places
    <3>3. \A j \in Places(chan, Output(q)) : j < 1
      BY <3>2 DEF OutInv, Flows, EndsOnce, EndsLast
    <3>4. \A j \in Places(chan, Output(q)) : j \in 1 .. Len(chan)
      BY <1>1 DEF Places
    <3> QED
      BY <1>1, <2>1, <3>3, <3>4
  <2> QED
    BY <1>7, <2>1, <2>2, <2>3 DEF ReadInv
<1> QED
  BY <1>3, <1>4, <1>5, <1>6, <1>7, ChanSteps

\* What becomes of the write end of a pipe.
LEMMA WriteEndSteps ==
    ASSUME TInv, HoldInv, [Next]_vars, NEW q \in Pipe
    PROVE  \/ ends'[q].write = ends[q].write
           \/ /\ Unmade(ends[q]) /\ ends'[q].write \in {"table", "file"}
              /\ ends'[q].write = "file" => Requests("OpenInputFile", q)
           \/ ends[q].write = "unmade" /\ ends'[q].write = "table"
           \/ ends[q].write = "held" /\ ends'[q].write = "closed"
           \/ /\ MayTake(ends[q].write) /\ ends'[q].write \in {"held", "closed"} /\ Alive
              /\ \E p \in tasks : q \in Outputs(commands[p]) /\ (commands[p].kind = "Edit" => Faults)
<1> DEFINE Goal == \/ ends'[q].write = ends[q].write
                   \/ /\ Unmade(ends[q]) /\ ends'[q].write \in {"table", "file"}
                      /\ ends'[q].write = "file" => Requests("OpenInputFile", q)
                   \/ ends[q].write = "unmade" /\ ends'[q].write = "table"
                   \/ ends[q].write = "held" /\ ends'[q].write = "closed"
                   \/ /\ MayTake(ends[q].write) /\ ends'[q].write \in {"held", "closed"} /\ Alive
                      /\ \E p \in tasks : q \in Outputs(commands[p]) /\ (commands[p].kind = "Edit" => Faults)
<1>1. ends \in Ends
  BY DEF TInv, ExecTypes, Ends
<1>2. CASE UNCHANGED <<ends, process, readers, writers>>
  BY <1>2
<1>3. ASSUME NEW r \in Pipe, Opens(r) PROVE Goal
  <2>1. CASE r = q
    BY <1>1, <1>3, <2>1 DEF Opens, Unmade, Ends, Requests
  <2>2. CASE r # q
    BY <1>1, <1>3, <2>2 DEF Opens, Ends
  <2> QED
    BY <2>1, <2>2
<1>4. ASSUME NEW r \in Pipe, BeginsToRead(r) PROVE Goal
  BY <1>1, <1>4, AfterEnd DEF BeginsToRead
<1>5. ASSUME NEW r \in Pipe, StopsReading(r) PROVE Goal
  BY <1>1, <1>5, AfterEnd DEF StopsReading
<1>6. ASSUME NEW r \in Pipe, StopsWriting(r) PROVE Goal
  BY <1>1, <1>6, AfterEnd DEF StopsWriting, HoldInv
<1>7. ASSUME NEW p \in tasks, Spawns(p) PROVE Goal
  <2>1. commands[p] \in Command
    BY TasksHaveCommands
  <2>2. /\ MayTake(ends[commands[p].stdout].write) /\ MayTake(ends[commands[p].stderr].write)
        /\ ends' = Taken(commands[p]) /\ commands[p].kind = "Unknown"
    BY <1>7 DEF Spawns, CanTake, CanWrite
  <2>3. ends'[q].write = IF q \in {commands[p].stdout, commands[p].stderr} THEN "held"
                         ELSE IF q = commands[p].stdin /\ ends[q].write = "unmade"
                         THEN "table" ELSE ends[q].write
    BY <1>1, <2>1, <2>2, AfterTaken
  <2>4. Alive \/ ends' = ends
    BY StoppedForGood DEF vars, ioVars
  <2> QED
    BY <2>2, <2>3, <2>4 DEF Outputs
<1>8. ASSUME NEW p \in tasks, NEW full, NEW empty, Prints(p, full, empty) PROVE Goal
  <2>1. full \in Pipe /\ empty \in Pipe
    BY <1>8, TasksHaveCommands, PipesOfCommand DEF Prints
  <2>2. /\ full \in Outputs(commands[p]) /\ empty \in Outputs(commands[p])
        /\ OutputAndClose(full, empty) /\ (commands[p].kind = "Edit" => Faults)
        /\ MayTake(ends[full].write) /\ MayTake(ends[empty].write)
    BY <1>8 DEF Prints, OutputAndClose
  <2>3. ends'[q].write = IF q = full THEN "held" ELSE IF q = empty THEN "closed" ELSE ends[q].write
    BY <1>1, <2>1, <2>2, AfterOutput
  <2>4. Alive \/ ends' = ends
    BY StoppedForGood DEF vars, ioVars
  <2> QED
    BY <2>2, <2>3, <2>4
<1>9. ASSUME NEW p \in Pid, NEW code \in ExitCode, Leaves(p, code) PROVE Goal
  <2>1. process[p] = "alive" /\ Dies(p, code)
    BY <1>9 DEF Leaves
  <2>2. commands[p] \in Command /\ \A r \in Outputs(commands[p]) : ends[r].write = "held"
    BY <2>1, CommandsStay DEF HoldInv, Holds
  <2>3. ends'[q].write = IF q \in {commands[p].stdout, commands[p].stderr} THEN "closed" ELSE ends[q].write
    BY <1>1, <2>1, <2>2, AfterDeath
  <2> QED
    BY <2>2, <2>3 DEF Outputs
<1> HIDE DEF Goal
<1>10. Goal
  BY <1>2, <1>3, <1>4, <1>5, <1>6, <1>7, <1>8, <1>9, PipeSteps DEF Goal
<1> QED
  BY <1>10 DEF Goal

\* Who begins to read, and whose end is new in the channel.
LEMMA ReaderSteps ==
    ASSUME TInv, [Next]_vars, NEW q \in Pipe
    PROVE  /\ q \in readers' => q \in readers \/ BeginsToRead(q)
           /\ Places(chan', Eof(q)) # {} => Places(chan, Eof(q)) # {} \/ q \in readers
<1>1. q \in readers' => q \in readers \/ BeginsToRead(q)
  BY PipeSteps DEF Opens, BeginsToRead, StopsReading, StopsWriting, Spawns, Prints, OutputAndClose, Leaves
<1>2. ASSUME Places(chan', Eof(q)) # {} PROVE Places(chan, Eof(q)) # {} \/ q \in readers
  <2>1. CASE \E r \in readers : ReaderReads(r)
    <3>1. \E r : chan' = Append(chan, Output(r))
      BY <2>1 DEF ReaderReads, Output
    <3>2. \A r : Output(r) # Eof(q)
      BY DEF Output, Eof
    <3> QED
      BY <1>2, <3>1, <3>2, PlacesInChan
  <2>2. CASE \E r \in readers : ReaderEnds(r)
    <3>1. \E r \in readers : chan' = Append(chan, Eof(r))
      BY <2>2 DEF ReaderEnds, Eof
    <3>2. \A r : Eof(r) = Eof(q) => r = q
      BY DEF Eof
    <3> QED
      BY <1>2, <3>1, <3>2, PlacesInChan
  <2>3. \A e : e.type \notin {"PipeOutput", "PipeClosed"} => e # Eof(q)
    BY DEF Eof
  <2> QED
    BY <1>2, <2>1, <2>2, <2>3, PlacesInChan, ChanSteps
<1> QED
  BY <1>1, <1>2

\* A file that is read from is not read by the frontend, nor will it be.
FileInv ==
    \A q \in Pipe : ends[q].write = "file" =>
        /\ q \notin readers /\ Places(chan, Eof(q)) = {}
        /\ \A x \in InLine : x.type = "BeginRead" => x.pipe # q

LEMMA FileStep ==
    ASSUME TInv, HoldInv, OutInv, SourceInv, FileInv, [Next]_vars,
           \A requests \in Inboxes : FrontendSends(requests)
    PROVE  FileInv'
<1> SUFFICES ASSUME NEW q \in Pipe, ends'[q].write = "file"
             PROVE  /\ q \notin readers' /\ Places(chan', Eof(q)) = {}
                    /\ \A x \in InLine' : x.type = "BeginRead" => x.pipe # q
  BY FourMessages DEF FileInv
<1>1. chan \in Seq(Event)
  BY DEF TInv, ExecTypes
<1>2. ASSUME NEW type \in {"BeginRead", "OpenInputFile"}, Requests(type, q)
      PROVE  Head(chan) \in InLine /\ Head(chan).type = type /\ Head(chan).pipe = q
  <2>1. 1 \in DOMAIN chan /\ Head(chan) = chan[1]
    BY <1>1, <1>2, Dropped DEF Requests
  <2> QED
    BY <1>2, <2>1 DEF Requests, InLine, IsRequest
<1>3. /\ q \notin readers /\ Places(chan, Eof(q)) = {} /\ ~BeginsToRead(q)
      /\ \A x \in InLine : x.type = "BeginRead" => x.pipe # q
  <2>1. CASE ends[q].write = "file"
    BY <1>2, <2>1 DEF FileInv, BeginsToRead
  <2>2. CASE ends[q].write # "file"
    <3>1. Unmade(ends[q]) /\ Requests("OpenInputFile", q)
      BY <2>2, WriteEndSteps
    <3>2. q \notin readers /\ Places(chan, Eof(q)) = {}
      BY <3>1 DEF Unmade, HoldInv, OutInv, Flows, Ended
    <3>3. ~BeginsToRead(q)
      BY <3>1 DEF BeginsToRead, Requests
    <3>4. \A x \in InLine : x.type = "BeginRead" => x.pipe # q
      BY <1>2, <3>1 DEF SourceInv, FrontendSends
    <3> QED
      BY <3>2, <3>3, <3>4
  <2> QED
    BY <2>1, <2>2
<1>4. q \notin readers' /\ Places(chan', Eof(q)) = {}
  BY <1>3, ReaderSteps
<1> QED
  BY <1>3, <1>4, LineShrinks

\* A command that has begun and that may write q.
Written(q) == \E p \in DOMAIN asked : /\ DOMAIN asked[p] \subseteq Answered
                                      /\ q \in Outputs(commands[p])
                                      /\ commands[p].kind = "Edit" => Faults

\* What is answered stays so.
LEMMA AnsweredStays ==
    ASSUME TInv, WorkInv, [Next]_vars
    PROVE  Answered \subseteq Answered'
  BY AnswerSteps DEF Answered

LEMMA WrittenStays ==
    ASSUME TInv, WorkInv, [Next]_vars, NEW q, Written(q)
    PROVE  Written(q)'
<1>1. PICK p \in DOMAIN asked : /\ DOMAIN asked[p] \subseteq Answered
                                /\ q \in Outputs(commands[p])
                                /\ commands[p].kind = "Edit" => Faults
  BY DEF Written
<1>2. p \in DOMAIN asked' /\ asked'[p] = asked[p] /\ commands'[p] = commands[p]
  BY AskedStays, CommandsStay
<1>3. Outputs(commands'[p]) = Outputs(commands[p])'
  BY DEF Outputs
<1> QED
  BY <1>1, <1>2, <1>3, AnsweredStays DEF Written, Outputs

\* What a step writes, and who writes it.
LEMMA ProducedSteps ==
    ASSUME TInv, HoldInv, [Next]_vars, NEW q \in Pipe
    PROVE  \/ produced'[q] = produced[q]
           \/ /\ produced'[q] = produced[q] + 1
              /\ ends[q].write = "held"
              /\ \/ q \in writers /\ q \notin writers'
                 \/ \E p \in Pid, s \in Stream : Writes(p, s) /\ commands[p][s] = q
<1>1. produced \in [Pipe -> Nat]
  BY DEF TInv, ExecTypes
<1>2. ASSUME NEW p \in Pid, NEW s \in Stream, Writes(p, s)
      PROVE  \/ produced'[q] = produced[q]
             \/ /\ produced'[q] = produced[q] + 1 /\ ends[q].write = "held" /\ commands[p][s] = q
  <2>1. process[p] = "alive" /\ p \in DOMAIN asked /\ Holds(p)
    BY <1>2 DEF Writes, HoldInv
  <2>2. commands[p][s] \in Outputs(commands[p]) /\ commands[p][s] \in Pipe
    BY <2>1, CommandsStay, PipesOfCommand
  <2>3. produced' = produced \/ produced' = [produced EXCEPT ![commands[p][s]] = @ + 1]
    BY <1>2 DEF Writes
  <2> QED
    BY <1>1, <2>1, <2>2, <2>3 DEF Holds
<1>3. ASSUME NEW r \in Pipe, WriterWrites(r)
      PROVE  \/ produced'[q] = produced[q]
             \/ produced'[q] = produced[q] + 1 /\ ends[q].write = "held" /\ q \in writers /\ q \notin writers'
  BY <1>1, <1>3 DEF WriterWrites, HoldInv
<1>4. CASE ~(\E p \in Pid, s \in Stream : Writes(p, s)) /\ ~(\E r \in Pipe : WriterWrites(r))
  BY <1>4 DEF Next, Executor, Handle, RunTask, SendRequest, SendCancel, SendEdit, ProcessStep,
         Consumes, ExitsWith, LockChild, Reap, ReaderReads, ReaderEnds, Kill,
         HandleEnqueue, HandleCompleted, HandleOpenFile, HandleBeginRead, HandlePipe,
         HandleEditComplete, HandleCancel, StartProcess, SpawnFails, RunSetDirectory, OutputAndClose,
         RunGetDirectory, BeginEdit, EditUnreadable, ReportRefused, vars, ioVars
<1> QED
  BY <1>2, <1>3, <1>4

\* Only a command that has begun takes the end that is written, and nothing is written without it.
WriteInv ==
    \A q \in Pipe : /\ ends[q].write \in {"held", "closed"} => Written(q)
                    /\ produced[q] > 0 => ends[q].write \in {"held", "closed"}

LEMMA WriteStep ==
    ASSUME TInv, WorkInv, AnswerInv, HoldInv, WriteInv, [Next]_vars
    PROVE  WriteInv'
<1> SUFFICES ASSUME NEW q \in Pipe
             PROVE  /\ ends'[q].write \in {"held", "closed"} => Written(q)'
                    /\ produced'[q] > 0 => ends'[q].write \in {"held", "closed"}
  BY DEF WriteInv
<1>1. ASSUME ends[q].write \in {"held", "closed"} PROVE ends'[q].write \in {"held", "closed"} /\ Written(q)'
  BY <1>1, WriteEndSteps, WrittenStays DEF WriteInv, MayTake, Unmade
<1>2. ASSUME ends[q].write \notin {"held", "closed"}, ends'[q].write \in {"held", "closed"}
      PROVE  Written(q)'
  <2>1. PICK p \in tasks : Alive /\ q \in Outputs(commands[p]) /\ (commands[p].kind = "Edit" => Faults)
    BY <1>2, WriteEndSteps
  <2>2. p \in DOMAIN asked /\ p \in to_run
    BY DEF TInv, IInv, OneState, TasksAreToRun
  <2>3. Written(q)
    BY <2>1, <2>2, PrerequisitesAnswered DEF Written
  <2> QED
    BY <2>3, WrittenStays
<1>3. ASSUME produced'[q] > 0 PROVE ends'[q].write \in {"held", "closed"}
  BY <1>1, <1>3, ProducedSteps DEF WriteInv
<1> QED
  BY <1>1, <1>2, <1>3

\* What becomes of what a process has still to write.
LEMMA TodoSteps ==
    ASSUME TInv, HoldInv, [Next]_vars, NEW p \in Pid
    PROVE  \/ todo'[p] = todo[p] /\ (process'[p] = "alive" => process[p] = "alive")
           \/ \E s \in Stream : /\ Writes(p, s) /\ todo'[p] = [todo[p] EXCEPT ![s] = @ - 1]
                                /\ produced' = [produced EXCEPT ![commands[p][s]] = @ + 1]
           \/ p \in tasks /\ Spawns(p) /\ todo'[p] = commands[p].writes /\ produced' = produced
<1>1. /\ todo \in [Pid -> [Stream -> Nat]]
      /\ process \in [Pid -> {"none", "alive"} \cup ExitCode] /\ "alive" \notin ExitCode
  BY DEF TInv, ExecTypes, ExitCode
<1>2. ASSUME NEW r \in Pid, NEW s \in Stream, Writes(r, s)
      PROVE  \/ todo'[p] = todo[p] /\ (process'[p] = "alive" => process[p] = "alive")
             \/ /\ r = p /\ todo'[p] = [todo[p] EXCEPT ![s] = @ - 1]
                /\ produced' = [produced EXCEPT ![commands[p][s]] = @ + 1]
  BY <1>1, <1>2 DEF Writes, Dies
<1>3. CASE StartProcess
  <2> DEFINE r == Head(work).pid
  <2>1. /\ Spawns(r) /\ todo' = [todo EXCEPT ![r] = commands[r].writes] /\ produced' = produced
        /\ process' = [process EXCEPT ![r] = "alive"]
    BY <1>3 DEF StartProcess, Spawns, ActOnStart
  <2>2. r \in tasks
    BY <2>1 DEF Spawns, Start
  <2> HIDE DEF r
  <2>3. r \in Pid
    BY <2>2, TasksHaveCommands
  <2> QED
    BY <1>1, <2>1, <2>2, <2>3
<1>4. ASSUME NEW r \in Pid, Consumes(r) \/ (\E code \in {"0", "1"} : ExitsWith(r, code)) \/ Kill(r)
      PROVE  todo'[p] = todo[p] /\ (process'[p] = "alive" => process[p] = "alive")
  BY <1>1, <1>4 DEF Consumes, ExitsWith, Kill, Dies
<1>5. CASE /\ ~StartProcess
           /\ ~\E r \in Pid : \/ (\E s \in Stream : Writes(r, s)) \/ Consumes(r)
                              \/ (\E code \in {"0", "1"} : ExitsWith(r, code)) \/ Kill(r)
  BY <1>5 DEF Next, Executor, Handle, RunTask, SendRequest, SendCancel, SendEdit, ProcessStep,
         LockChild, Reap, ReaderReads, ReaderEnds, WriterWrites,
         HandleEnqueue, HandleCompleted, HandleOpenFile, HandleBeginRead, HandlePipe,
         HandleEditComplete, HandleCancel, SpawnFails, RunSetDirectory, OutputAndClose,
         RunGetDirectory, BeginEdit, EditUnreadable, ReportRefused, vars, ioVars
<1> QED
  BY <1>2, <1>3, <1>4, <1>5

\* What has been written to a pipe and what is still to be written to it keep to the bound.
ChunkInv ==
    /\ \A q \in Pipe : produced[q] <= MaxChunks
    /\ \A q \in writers : produced[q] = 0
    /\ \A p \in Pid : process[p] = "alive" =>
          /\ commands[p].stdout # commands[p].stderr
          /\ \A s \in Stream : produced[commands[p][s]] + todo[p][s] <= MaxChunks

LEMMA ChunkStep ==
    ASSUME MaxChunks \in Nat \ {0}, TInv, HoldInv, SizeInv, WriteInv, ChunkInv, [Next]_vars
    PROVE  ChunkInv'
<1>1. /\ produced \in [Pipe -> Nat] /\ todo \in [Pid -> [Stream -> Nat]] /\ writers \subseteq Pipe
      /\ process \in [Pid -> {"none", "alive"} \cup ExitCode] /\ writers' \subseteq Pipe
  <2>1. TInv'
    BY TInvStep
  <2> QED
    BY <2>1 DEF TInv, ExecTypes
<1>2. ASSUME NEW p \in Pid, process[p] = "alive"
      PROVE  /\ p \in DOMAIN asked /\ commands[p] \in Command /\ commands'[p] = commands[p] /\ Holds(p)
             /\ \A s \in Stream : commands[p][s] \in Pipe /\ commands[p][s] \in Outputs(commands[p])
  BY <1>2, CommandsStay, PipesOfCommand, CommandFields DEF HoldInv
<1>3. ASSUME NEW q \in Pipe PROVE produced'[q] <= MaxChunks
  <2>1. CASE \E p \in Pid, s \in Stream : Writes(p, s) /\ commands[p][s] = q
    <3>1. PICK p \in Pid, s \in Stream : Writes(p, s) /\ commands[p][s] = q
      BY <2>1
    <3>2. process[p] = "alive" /\ todo[p][s] > 0
      BY <3>1 DEF Writes
    <3>3. produced[q] + todo[p][s] <= MaxChunks
      BY <3>1, <3>2 DEF ChunkInv
    <3>4. produced'[q] = produced[q] \/ produced'[q] = produced[q] + 1
      BY ProducedSteps
    <3>5. produced[q] \in Nat /\ todo[p][s] \in Nat
      BY <1>1
    <3> QED
      BY <3>2, <3>3, <3>4, <3>5
  <2>2. CASE ~\E p \in Pid, s \in Stream : Writes(p, s) /\ commands[p][s] = q
    BY <1>1, <2>2, ProducedSteps DEF ChunkInv
  <2> QED
    BY <2>1, <2>2
<1>4. ASSUME NEW q \in writers' PROVE produced'[q] = 0
  <2>1. q \in Pipe
    BY <1>1
  <2>2. q \in writers \/ MayTake(ends[q].write)
    BY <2>1, PipeSteps DEF Opens, BeginsToRead, StopsReading, StopsWriting, Spawns, Prints, OutputAndClose, Leaves
  <2>3. produced[q] = 0
    BY <1>1, <2>1, <2>2 DEF ChunkInv, WriteInv, MayTake
  <2>4. ASSUME ends[q].write = "held", NEW p \in Pid, NEW s \in Stream, Writes(p, s), commands[p][s] = q
        PROVE  FALSE
    <3>1. process[p] = "alive"
      BY <2>4 DEF Writes
    <3>2. q \notin writers
      BY <1>2, <2>4, <3>1 DEF Holds
    <3> QED
      BY <2>2, <2>4, <3>2 DEF MayTake
  <2> QED
    BY <2>1, <2>3, <2>4, ProducedSteps
<1>5. ASSUME NEW p \in Pid, process'[p] = "alive"
      PROVE  /\ commands'[p].stdout # commands'[p].stderr
             /\ \A s \in Stream : produced'[commands'[p][s]] + todo'[p][s] <= MaxChunks
  <2>1. CASE todo'[p] = todo[p] /\ process[p] = "alive"
    <3>1. commands'[p].stdout # commands'[p].stderr
      BY <1>2, <2>1 DEF ChunkInv
    <3>2. ASSUME NEW s \in Stream PROVE produced'[commands'[p][s]] + todo'[p][s] <= MaxChunks
      <4> DEFINE q == commands[p][s]
      <4>1. /\ q \in Pipe /\ q \in Outputs(commands[p]) /\ q \notin writers /\ commands'[p] = commands[p]
            /\ produced[q] + todo[p][s] <= MaxChunks
        BY <1>2, <2>1 DEF Holds, ChunkInv
      <4>2. ASSUME NEW r \in Pid, NEW t \in Stream, Writes(r, t), commands[r][t] = q
            PROVE  produced'[q] = produced[q]
        <5>1. process[r] = "alive"
          BY <4>2 DEF Writes
        <5>2. q \in Outputs(commands[r])
          BY <1>2, <4>2, <5>1
        <5>3. r = p
          BY <2>1, <4>1, <5>1, <5>2 DEF HoldInv, Apart
        <5>4. todo[p][t] \in Nat /\ todo[p][t] > 0 /\ todo[p] \in [Stream -> Nat]
          BY <1>1, <4>2, <5>3 DEF Writes
        <5>5. todo' # [todo EXCEPT ![p][t] = @ - 1]
          BY <1>1, <2>1, <5>4
        <5> QED
          BY <4>2, <5>3, <5>5 DEF Writes
      <4>3. produced'[q] = produced[q]
        BY <4>1, <4>2, ProducedSteps
      <4> QED
        BY <2>1, <4>1, <4>3
    <3> QED
      BY <3>1, <3>2
  <2>2. ASSUME NEW t \in Stream, Writes(p, t), todo'[p] = [todo[p] EXCEPT ![t] = @ - 1],
               produced' = [produced EXCEPT ![commands[p][t]] = @ + 1]
        PROVE  /\ commands'[p].stdout # commands'[p].stderr
               /\ \A s \in Stream : produced'[commands'[p][s]] + todo'[p][s] <= MaxChunks
    <3>1. process[p] = "alive"
      BY <2>2 DEF Writes
    <3>2. commands'[p] = commands[p] /\ commands[p].stdout # commands[p].stderr
      BY <1>2, <3>1 DEF ChunkInv
    <3>3. ASSUME NEW s \in Stream PROVE produced'[commands[p][s]] + todo'[p][s] <= MaxChunks
      <4>1. /\ commands[p][s] \in Pipe /\ commands[p][t] \in Pipe
            /\ produced[commands[p][s]] + todo[p][s] <= MaxChunks
            /\ todo[p] \in [Stream -> Nat] /\ todo[p][s] \in Nat /\ produced[commands[p][s]] \in Nat
        BY <1>1, <1>2, <3>1 DEF ChunkInv
      <4>2. s # t => commands[p][s] # commands[p][t]
        BY <3>2 DEF Stream
      <4>3. CASE s = t
        <5>1. produced'[commands[p][s]] = produced[commands[p][s]] + 1 /\ todo'[p][s] = todo[p][s] - 1
          BY <1>1, <2>2, <4>1, <4>3
        <5> QED
          BY <4>1, <5>1
      <4>4. CASE s # t
        <5>1. produced'[commands[p][s]] = produced[commands[p][s]] /\ todo'[p][s] = todo[p][s]
          BY <1>1, <2>2, <4>1, <4>2, <4>4
        <5> QED
          BY <4>1, <5>1
      <4> QED
        BY <4>3, <4>4
    <3> QED
      BY <3>2, <3>3
  <2>3. ASSUME p \in tasks, Spawns(p), todo'[p] = commands[p].writes, produced' = produced
        PROVE  /\ commands'[p].stdout # commands'[p].stderr
               /\ \A s \in Stream : produced'[commands'[p][s]] + todo'[p][s] <= MaxChunks
    <3>1. p \in DOMAIN asked
      BY <2>3 DEF TInv, IInv, OneState, TasksAreToRun
    <3>2. commands[p] \in Command /\ commands'[p] = commands[p] /\ p \in DOMAIN commands
      BY <2>3, <3>1, CommandsStay, TasksHaveCommands
    <3>3. /\ commands[p].stdout # commands[p].stderr
          /\ \A s \in Stream : MayTake(ends[commands[p][s]].write)
      BY <2>3 DEF Spawns, CanTake, CanWrite, Stream
    <3>4. ASSUME NEW s \in Stream PROVE produced[commands[p][s]] + commands[p].writes[s] <= MaxChunks
      <4>1. /\ commands[p][s] \in Pipe /\ commands[p].writes[s] \in Nat
            /\ commands[p].writes[s] <= MaxChunks
        BY <3>2, CommandFields DEF SizeInv
      <4>2. produced[commands[p][s]] = 0
        BY <1>1, <3>3, <4>1 DEF WriteInv, MayTake
      <4> QED
        BY <4>1, <4>2
    <3> QED
      BY <2>3, <3>2, <3>3, <3>4
  <2> QED
    BY <1>5, <2>1, <2>2, <2>3, TodoSteps
<1> QED
  BY <1>3, <1>4, <1>5 DEF ChunkInv

\* What is being cancelled runs, and while it is the executor has nothing else in hand.
CancelInv ==
    Alive => /\ cancelling # {} => work = <<>>
             /\ \A p \in cancelling : p \in DOMAIN running /\ running[p] = "Running"

LEMMA CancelStep ==
    ASSUME CancelInv, [Next]_vars
    PROVE  CancelInv'
<1> SUFFICES ASSUME Alive'
             PROVE  /\ cancelling' # {} => work' = <<>>
                    /\ \A p \in cancelling' : p \in DOMAIN running' /\ running'[p] = "Running"
  BY DEF CancelInv
<1>1. Alive
  BY StoppedForGood DEF vars, machineVars, ctlVars, Alive
<1>2. CASE HandleCancel
  BY <1>2 DEF HandleCancel, Take, Idle, machineVars
<1>3. CASE Handle /\ ~HandleCancel
  BY <1>3 DEF Handle, HandleEnqueue, HandleCompleted, HandleOpenFile, HandleBeginRead, HandlePipe,
              HandleEditComplete, Take, Idle
<1>4. CASE RunTask
  <2>1. work # <<>> /\ cancelling' = cancelling
    BY <1>4 DEF RunTask, StartProcess, SpawnFails, RunSetDirectory, RunGetDirectory, BeginEdit,
                EditUnreadable, ReportRefused, ActOnStart, Act
  <2> QED
    BY <1>1, <2>1 DEF CancelInv
<1>5. CASE \E p \in Pid : Kill(p)
  BY <1>5 DEF Kill
<1>6. CASE ~Handle /\ ~RunTask /\ ~\E p \in Pid : Kill(p)
  <2>1. UNCHANGED <<work, cancelling, running>>
    BY <1>6 DEF Next, Executor, SendRequest, SendCancel, SendEdit, ProcessStep, Writes, Consumes,
       ExitsWith, LockChild, Reap, ReaderReads, ReaderEnds, WriterWrites, vars, ctlVars, machineVars
  <2> QED
    BY <1>1, <2>1 DEF CancelInv
<1> QED
  BY <1>2, <1>3, <1>4, <1>5, <1>6

-----------------------------------------------------------------------------
(* What the frontend has been told.                                        *)

LEMMA SayingIsMessage ==
    ASSUME NEW q
    PROVE  /\ Saying("Closed", q) = Closed(q) /\ Saying("Data", q) = Data(q)
           /\ Saying("PipeClosed", q) = Eof(q)
  BY DEF Saying, Closed, Data, Eof

LEMMA WhatIsReported ==
    ASSUME TInv
    PROVE  /\ \A q : q \in EndsReported <=> q \in Pipe /\ Places(sent, Closed(q)) # {}
           /\ \A q : q \in Reading <=> q \in Pipe /\ (q \in readers \/ Ended(q))
           /\ \A q \in Pipe : ChunksReported[q] = Count(sent, Data(q)) /\ ChunksReported[q] \in Nat
           /\ DOMAIN ChunksReported = Pipe
<1>1. sent \in Seq(Response) /\ chan \in Seq(Event)
  BY DEF TInv, ExecTypes
<1>2. \A q : /\ Count(sent, Closed(q)) > 0 <=> Places(sent, Closed(q)) # {}
             /\ Count(chan, Eof(q)) > 0 <=> Places(chan, Eof(q)) # {}
             /\ Count(sent, Data(q)) \in Nat
  BY <1>1, PlacesFinite
<1>3. \A q : q \in EndsReported <=> q \in Pipe /\ Places(sent, Closed(q)) # {}
  BY <1>2, SayingIsMessage DEF EndsReported
<1>4. \A q : q \in Reading <=> q \in Pipe /\ (q \in readers \/ Ended(q))
  BY <1>2, <1>3, SayingIsMessage DEF Reading, Ended
<1>5. \A q \in Pipe : ChunksReported[q] = Count(sent, Data(q)) /\ ChunksReported[q] \in Nat
  BY <1>2, SayingIsMessage DEF ChunksReported
<1> QED
  BY <1>3, <1>4, <1>5 DEF ChunksReported

\* A response is told as it is, but for the exit code.
LEMMA Told ==
    ASSUME TInv, NEW message, sent' = Append(sent, message)
    PROVE  Responses' = Append(Responses, ResponseOf(message))
<1>1. sent \in Seq(Response)
  BY DEF TInv, ExecTypes
<1> DEFINE S == {ResponseOf(sent[i]) : i \in DOMAIN sent} \cup {ResponseOf(message)}
           new == [i \in DOMAIN Append(sent, message) |-> ResponseOf(Append(sent, message)[i])]
<1>2. Len(sent) \in Nat /\ DOMAIN sent = 1 .. Len(sent)
  BY <1>1
<1>3. /\ DOMAIN Append(sent, message) = 1 .. (Len(sent) + 1)
      /\ \A i \in DOMAIN sent : Append(sent, message)[i] = sent[i]
      /\ Append(sent, message)[Len(sent) + 1] = message
  BY <1>1
<1>4. Responses \in [1 .. Len(sent) -> S]
  BY <1>2 DEF Responses
<1>5. Responses \in Seq(S) /\ Len(Responses) = Len(sent)
  BY <1>2, <1>4
<1>6. \A i \in 1 .. (Len(sent) + 1) : new[i] = IF i = Len(sent) + 1 THEN ResponseOf(message) ELSE Responses[i]
  BY <1>2, <1>3 DEF Responses
<1>7. new \in [1 .. (Len(sent) + 1) -> S]
  <2>1. \A i \in 1 .. (Len(sent) + 1) : new[i] \in S
    BY <1>2, <1>3
  <2> QED
    BY <1>3, <2>1
<1>8. new \in Seq(S) /\ Len(new) = Len(sent) + 1
  BY <1>2, <1>7
<1> HIDE DEF S, new
<1>9. ResponseOf(message) \in S
  BY DEF S
<1>10. /\ Append(Responses, ResponseOf(message)) \in Seq(S)
       /\ Len(Append(Responses, ResponseOf(message))) = Len(sent) + 1
       /\ \A i \in 1 .. (Len(sent) + 1) : Append(Responses, ResponseOf(message))[i]
              = IF i = Len(sent) + 1 THEN ResponseOf(message) ELSE Responses[i]
  BY <1>2, <1>5, <1>9
<1>11. new = Append(Responses, ResponseOf(message))
  BY <1>6, <1>8, <1>10, SeqEqual
<1>12. Responses' = new
  BY DEF Responses, new
<1> QED
  BY <1>11, <1>12

\* An answer says nothing of pipes.
LEMMA ToldAnswer ==
    ASSUME TInv, NEW p \in Pid, NEW code, Respond(CommandDone(p, code))
    PROVE  /\ Responses' = Append(Responses, [type |-> "CommandDone", pid |-> p])
           /\ Answered' = Answered \cup {p}
           /\ UNCHANGED <<EndsReported, ChunksReported>>
<1>1. sent \in Seq(Response) /\ sent' = Append(sent, CommandDone(p, code))
  BY DEF TInv, ExecTypes, Respond
<1>2. Responses' = Append(Responses, [type |-> "CommandDone", pid |-> p])
  BY <1>1, Told DEF ResponseOf, CommandDone
<1>3. \A r : r \in Answered' <=> r \in Answered \cup {p}
  <2>1. \A r, i : i \in AnswersTo(r)' <=> i \in AnswersTo(r) \/ (r = p /\ i = Len(sent) + 1)
    BY <1>1, AnswerGiven
  <2> QED
    BY <2>1 DEF Answered
<1>4. \A q, type : type # "CommandDone" => CommandDone(p, code) # Saying(type, q)
  <2>1. \A q, type : CommandDone(p, code).type = "CommandDone" /\ Saying(type, q).type = type
    BY DEF CommandDone, Saying
  <2> QED
    BY <2>1
<1>5. \A q : /\ Count(sent', Saying("Closed", q)) = Count(sent, Saying("Closed", q))
             /\ Count(sent', Saying("Data", q)) = Count(sent, Saying("Data", q))
  BY <1>1, <1>4, CountAppended
<1>6. UNCHANGED EndsReported
  BY <1>5 DEF EndsReported, Count, Places, Saying
<1>7. UNCHANGED ChunksReported
  BY <1>5 DEF ChunksReported, Count, Places, Saying
<1> QED
  BY <1>2, <1>3, <1>6, <1>7

\* A request to edit says nothing of pipes either, and answers nothing.
LEMMA ToldEdit ==
    ASSUME TInv, NEW p \in Pid, Respond([type |-> "EditRequest", pid |-> p])
    PROVE  /\ Responses' = Append(Responses, [type |-> "EditRequest", pid |-> p])
           /\ UNCHANGED <<Answered, EndsReported, ChunksReported>>
<1> DEFINE message == [type |-> "EditRequest", pid |-> p]
<1>1. sent \in Seq(Response) /\ sent' = Append(sent, message)
  BY DEF TInv, ExecTypes, Respond
<1>2. Responses' = Append(Responses, message)
  BY <1>1, Told DEF ResponseOf
<1>3. Answered' = Answered
  <2>1. \A r : AnswersTo(r)' = AnswersTo(r)
    BY <1>1, NoAnswerGiven DEF Respond
  <2> QED
    BY <2>1 DEF Answered
<1>4. \A q, type : type # "EditRequest" => message # Saying(type, q)
  <2>1. \A q, type : message.type = "EditRequest" /\ Saying(type, q).type = type
    BY DEF Saying
  <2> QED
    BY <2>1
<1> HIDE DEF message
<1>5. \A q : /\ Count(sent', Saying("Closed", q)) = Count(sent, Saying("Closed", q))
             /\ Count(sent', Saying("Data", q)) = Count(sent, Saying("Data", q))
  BY <1>1, <1>4, CountAppended
<1>6. UNCHANGED EndsReported
  BY <1>5 DEF EndsReported, Count, Places, Saying
<1>7. UNCHANGED ChunksReported
  BY <1>5 DEF ChunksReported, Count, Places, Saying
<1> QED
  BY <1>2, <1>3, <1>6, <1>7 DEF message

LEMMA ToldNothing ==
    ASSUME UNCHANGED sent
    PROVE  UNCHANGED <<Responses, Answered, EndsReported, ChunksReported>>
<1>1. UNCHANGED Responses
  BY DEF Responses
<1>2. UNCHANGED Answered
  BY DEF Answered, AnswersTo
<1>3. UNCHANGED EndsReported
  BY DEF EndsReported, Count, Places
<1>4. UNCHANGED ChunksReported
  BY DEF ChunksReported, Count, Places
<1> QED
  BY <1>1, <1>2, <1>3, <1>4

\* A chunk of output, and an end.
LEMMA ToldOutput ==
    ASSUME TInv, NEW q \in Pipe, sent' = Append(sent, Data(q))
    PROVE  /\ Responses' = Append(Responses, [type |-> "Data", pipe |-> q])
           /\ ChunksReported' = [ChunksReported EXCEPT ![q] = @ + 1]
           /\ UNCHANGED <<Answered, EndsReported>>
<1>1. sent \in Seq(Response)
  BY DEF TInv, ExecTypes
<1>2. Responses' = Append(Responses, [type |-> "Data", pipe |-> q])
  BY Told DEF ResponseOf, Data
<1>3. Answered' = Answered
  <2>1. \A r : AnswersTo(r)' = AnswersTo(r)
    BY <1>1, NoAnswerGiven DEF Respond, Data
  <2> QED
    BY <2>1 DEF Answered
<1>4. \A r : Data(q) # Saying("Closed", r) /\ (Data(q) = Saying("Data", r) <=> r = q)
  BY DEF Data, Saying
<1>5. \A r : /\ Count(sent', Saying("Closed", r)) = Count(sent, Saying("Closed", r))
             /\ Count(sent', Saying("Data", r)) = IF r = q THEN Count(sent, Saying("Data", r)) + 1
                                                  ELSE Count(sent, Saying("Data", r))
  BY <1>1, <1>4, CountAppended
<1>6. UNCHANGED EndsReported
  BY <1>5 DEF EndsReported, Count, Places, Saying
<1>7. ChunksReported' = [ChunksReported EXCEPT ![q] = @ + 1]
  <2>1. ChunksReported' = [r \in Pipe |-> Count(sent', Saying("Data", r))]
    BY DEF ChunksReported, Count, Places, Saying
  <2> QED
    BY <1>5, <2>1 DEF ChunksReported
<1> QED
  BY <1>2, <1>3, <1>6, <1>7

LEMMA ToldEnd ==
    ASSUME TInv, NEW q \in Pipe, sent' = Append(sent, Closed(q))
    PROVE  /\ Responses' = Append(Responses, [type |-> "Closed", pipe |-> q])
           /\ EndsReported' = EndsReported \cup {q}
           /\ UNCHANGED <<Answered, ChunksReported>>
<1>1. sent \in Seq(Response)
  BY DEF TInv, ExecTypes
<1>2. Responses' = Append(Responses, [type |-> "Closed", pipe |-> q])
  BY Told DEF ResponseOf, Closed
<1>3. Answered' = Answered
  <2>1. \A r : AnswersTo(r)' = AnswersTo(r)
    BY <1>1, NoAnswerGiven DEF Respond, Closed
  <2> QED
    BY <2>1 DEF Answered
<1>4. \A r : Closed(q) # Saying("Data", r) /\ (Closed(q) = Saying("Closed", r) <=> r = q)
  BY DEF Closed, Saying
<1>5. \A r : /\ Count(sent', Saying("Data", r)) = Count(sent, Saying("Data", r))
             /\ Count(sent', Saying("Closed", r)) = IF r = q THEN Count(sent, Saying("Closed", r)) + 1
                                                    ELSE Count(sent, Saying("Closed", r))
             /\ Count(sent, Saying("Closed", r)) \in Nat
  BY <1>1, <1>4, CountAppended, PlacesFinite
<1>6. UNCHANGED ChunksReported
  BY <1>5 DEF ChunksReported, Count, Places, Saying
<1>7. EndsReported' = EndsReported \cup {q}
  <2>1. EndsReported' = {r \in Pipe : Count(sent', Saying("Closed", r)) > 0}
    BY DEF EndsReported, Count, Places, Saying
  <2>2. \A r : r \in EndsReported' <=> r \in EndsReported \/ r = q
    BY <1>5, <2>1 DEF EndsReported
  <2> QED
    BY <2>2
<1> QED
  BY <1>2, <1>3, <1>6, <1>7

\* The executor passes on what a reader saw.
LEMMA PipeSaid ==
    ASSUME TInv, HandlePipe
    PROVE  /\ Alive /\ chan # <<>> /\ chan' = Tail(chan)
           /\ \E r \in Pipe : \/ Head(chan) = Output(r) /\ sent' = Append(sent, Data(r))
                              \/ Head(chan) = Eof(r) /\ sent' = Append(sent, Closed(r))
<1> DEFINE event == Head(chan)
<1>1. Alive /\ chan # <<>> /\ chan' = Tail(chan)
  BY DEF HandlePipe, Take, Idle
<1>2. event \in Event
  BY <1>1 DEF TInv, ExecTypes
<1>3. event \notin Request /\ event \notin ProcessEvent
  BY DEF HandlePipe, Take, Request, PipeRequest, ProcessEvent
<1>4. event \in [type : {"PipeOutput", "PipeClosed"}, pipe : Pipe]
  BY <1>2, <1>3 DEF Event
<1>5. \/ event = Output(event.pipe) /\ sent' = Append(sent, Data(event.pipe))
      \/ event = Eof(event.pipe) /\ sent' = Append(sent, Closed(event.pipe))
  BY <1>4 DEF HandlePipe, Respond, Output, Eof, Data, Closed
<1> QED
  BY <1>1, <1>4, <1>5

\* An end is reported when it is taken from the channel, and stays reported.
LEMMA ClosedSteps ==
    ASSUME TInv, [Next]_vars, NEW q \in Pipe
    PROVE  Places(sent', Closed(q)) # {} <=>
              Places(sent, Closed(q)) # {} \/ (HandlePipe /\ Head(chan) = Eof(q))
<1>1. sent \in Seq(Response)
  BY DEF TInv, ExecTypes
<1>2. CASE HandlePipe
  <2>1. PICK r \in Pipe : \/ Head(chan) = Output(r) /\ sent' = Append(sent, Data(r))
                          \/ Head(chan) = Eof(r) /\ sent' = Append(sent, Closed(r))
    BY <1>2, PipeSaid
  <2>2. Output(r) # Eof(q) /\ Data(r) # Closed(q) /\ (Eof(r) = Eof(q) <=> r = q) /\ (Closed(r) = Closed(q) <=> r = q)
    BY DEF Output, Eof, Data, Closed
  <2>3. \A i : i \in Places(sent', Closed(q)) <=>
                  i \in Places(sent, Closed(q)) \/ (Head(chan) = Eof(q) /\ i = Len(sent) + 1)
    BY <1>1, <2>1, <2>2, CountAppended
  <2> QED
    BY <1>2, <2>3
<1>3. CASE ~HandlePipe
  <2>1. \/ sent' = sent
        \/ \E p, code : sent' = Append(sent, CommandDone(p, code))
        \/ \E p : sent' = Append(sent, [type |-> "EditRequest", pid |-> p])
    <3>1. CASE Handle
      BY <1>3, <3>1 DEF Handle, HandleEnqueue, HandleCompleted, HandleOpenFile, HandleBeginRead,
                        HandleEditComplete, HandleCancel, Finish, Respond
    <3>2. CASE RunTask
      BY <3>2 DEF RunTask, StartProcess, SpawnFails, RunSetDirectory, RunGetDirectory, BeginEdit,
                  EditUnreadable, ReportRefused, EndAtOnce, Respond
    <3>3. CASE ~Handle /\ ~RunTask
      BY <3>3 DEF Next, Executor, SendRequest, SendCancel, SendEdit, ProcessStep, Writes, Consumes,
             ExitsWith, LockChild, Reap, ReaderReads, ReaderEnds, WriterWrites, Kill, vars, ctlVars
    <3> QED
      BY <3>1, <3>2, <3>3
  <2>2. /\ \A p, code : CommandDone(p, code) # Closed(q)
        /\ \A p : [type |-> "EditRequest", pid |-> p] # Closed(q)
    <3>1. /\ \A p, code : CommandDone(p, code).type # Closed(q).type
          /\ \A p : [type |-> "EditRequest", pid |-> p].type # Closed(q).type
      BY DEF CommandDone, Closed
    <3> QED
      BY <3>1
  <2>3. \A i : i \in Places(sent', Closed(q)) <=> i \in Places(sent, Closed(q))
    BY <1>1, <2>1, <2>2, CountAppended
  <2> QED
    BY <1>3, <2>3
<1> QED
  BY <1>2, <1>3

\* The frontend begins to read a pipe when its request is acted upon, and never ceases to:
\* a reader that ends leaves word of it.
LEMMA ReadingSteps ==
    ASSUME TInv, [Next]_vars, NEW q \in Pipe
    PROVE  /\ q \in Reading => q \in Reading'
           /\ q \in Reading' => q \in Reading \/ (HandleBeginRead /\ Head(chan).pipe = q)
<1>1. /\ q \in Reading <=> q \in readers \/ Places(sent, Closed(q)) # {} \/ Places(chan, Eof(q)) # {}
      /\ q \in Reading' <=> q \in readers' \/ Places(sent', Closed(q)) # {} \/ Places(chan', Eof(q)) # {}
  <2>1. q \in Reading <=> q \in readers \/ Places(sent, Closed(q)) # {} \/ Places(chan, Eof(q)) # {}
    BY WhatIsReported DEF Ended
  <2>2. TInv'
    BY TInvStep
  <2>3. sent' \in Seq(Response) /\ chan' \in Seq(Event)
    BY <2>2 DEF TInv, ExecTypes
  <2>4. /\ Count(sent', Closed(q)) > 0 <=> Places(sent', Closed(q)) # {}
        /\ Count(chan', Eof(q)) > 0 <=> Places(chan', Eof(q)) # {}
    BY <2>3, PlacesFinite
  <2>5. Reading' = {r \in Pipe : \/ r \in readers'
                                 \/ r \in Pipe /\ Count(sent', Saying("Closed", r)) > 0
                                 \/ Count(chan', Saying("PipeClosed", r)) > 0}
    BY DEF Reading, EndsReported, Count, Places, Saying
  <2> QED
    BY <2>1, <2>4, <2>5, SayingIsMessage
<1>2. Head(chan) = Eof(q) => Head(chan).type = "PipeClosed"
  BY DEF Eof
<1>3. ASSUME q \in readers PROVE q \in readers' \/ Places(chan', Eof(q)) # {}
  <2>1. CASE \E r \in readers : ReaderEnds(r)
    <3>1. PICK r \in readers : ReaderEnds(r)
      BY <2>1
    <3>2. readers' = readers \ {r} /\ chan' = Append(chan, Eof(r))
      BY <3>1 DEF ReaderEnds, Eof
    <3>3. r = q => Places(chan', Eof(q)) # {}
      BY <3>2, PlacesInChan
    <3> QED
      BY <1>3, <3>2, <3>3
  <2>2. CASE \E r \in readers : ReaderReads(r)
    BY <1>3, <2>2 DEF ReaderReads
  <2> QED
    BY <1>3, <2>1, <2>2, ChanSteps
<1>4. ASSUME Places(chan, Eof(q)) # {} PROVE Places(chan', Eof(q)) # {} \/ Places(sent', Closed(q)) # {}
  <2>1. CASE chan # <<>> /\ chan' = Tail(chan)
    <3>1. Handle
      BY <2>1, OnlyHandleTakes
    <3>2. CASE Head(chan) = Eof(q)
      <4>1. HandlePipe
        BY <1>2, <3>1, <3>2 DEF Handle, HandleEnqueue, HandleCompleted, HandleOpenFile, HandleBeginRead,
                                HandleEditComplete, HandleCancel, Take
      <4> QED
        BY <3>2, <4>1, ClosedSteps
    <3> QED
      BY <1>4, <2>1, <3>2, PlacesInChan
  <2>2. CASE \E e : chan' = Append(chan, e)
    BY <1>4, <2>2, PlacesInChan
  <2>3. CASE chan' = chan
    BY <1>4, <2>3
  <2> QED
    BY <2>1, <2>2, <2>3, LineSteps
<1>5. BeginsToRead(q) => HandleBeginRead /\ Head(chan).pipe = q
  <2>1. SUFFICES ASSUME BeginsToRead(q) PROVE HandleBeginRead /\ Head(chan).pipe = q
    OBVIOUS
  <2>2. chan # <<>> /\ chan' = Tail(chan) /\ Head(chan).type = "BeginRead" /\ Head(chan).pipe = q
    BY <2>1 DEF BeginsToRead, Requests
  <2>3. Handle
    BY <2>2, OnlyHandleTakes
  <2> QED
    BY <2>2, <2>3 DEF Handle, HandleEnqueue, HandleCompleted, HandleOpenFile, HandlePipe,
                      HandleEditComplete, HandleCancel, Take
<1>6. q \in Reading => q \in Reading'
  BY <1>1, <1>3, <1>4, ClosedSteps
<1>7. HandlePipe /\ Head(chan) = Eof(q) => Places(chan, Eof(q)) # {}
  <2>1. chan \in Seq(Event)
    BY DEF TInv, ExecTypes
  <2>2. chan # <<>> => 1 \in DOMAIN chan /\ Head(chan) = chan[1]
    BY <2>1, Dropped
  <2> QED
    BY <2>2, PipeSaid DEF Places
<1>8. q \in Reading' => q \in Reading \/ (HandleBeginRead /\ Head(chan).pipe = q)
  BY <1>1, <1>5, <1>7, ClosedSteps, ReaderSteps
<1> QED
  BY <1>6, <1>8

LEMMA ReadingKept ==
    ASSUME TInv, [Next]_vars, ~HandleBeginRead
    PROVE  Reading' = Reading
<1>1. Reading \subseteq Pipe /\ Reading' \subseteq Pipe
  BY DEF Reading
<1> QED
  BY <1>1, ReadingSteps

-----------------------------------------------------------------------------
(* Each step of the executor is one of the backend, or none.               *)

RefInv ==
    /\ ExecInv /\ ExitInv /\ OutInv
    /\ SourceInv /\ NeedsInv /\ KnownInv /\ SizeInv /\ RefusedInv
    /\ ReadInv /\ FileInv /\ WriteInv /\ ChunkInv /\ CancelInv

LEMMA RefInvInit ==
    ASSUME MaxChunks \in Nat \ {0}, \A requests \in Inboxes : FrontendSends(requests)
    PROVE  Init => RefInv
<1> SUFFICES ASSUME Init PROVE RefInv
  OBVIOUS
<1>1. ExecInv /\ ExitInv /\ OutInv /\ SourceInv /\ NeedsInv
  BY ExecInvInit, ExitInit, OutInit, SourceInit, NeedsInit
<1>2. /\ DOMAIN commands = {} /\ DOMAIN asked = {} /\ refused = {} /\ chan = <<>>
      /\ cancelling = {} /\ writers = {} /\ \A p \in Pid : process[p] = "none"
      /\ \A q \in Pipe : /\ ends[q] = [read |-> "unmade", write |-> "unmade"]
                         /\ produced[q] = 0
  BY DEF Init, MachineInit, EmptyMap
<1>3. KnownInv /\ SizeInv /\ RefusedInv
  BY <1>2 DEF KnownInv, SizeInv, RefusedInv
<1>4. ReadInv /\ FileInv
  BY <1>2 DEF ReadInv, FileInv, Places
<1>5. WriteInv /\ CancelInv
  BY <1>2 DEF WriteInv, CancelInv
<1>6. ChunkInv
  BY <1>2 DEF ChunkInv
<1> QED
  BY <1>1, <1>3, <1>4, <1>5, <1>6 DEF RefInv

LEMMA RefInvStep ==
    ASSUME MaxChunks \in Nat \ {0}, \A requests \in Inboxes : FrontendSends(requests)
    PROVE  RefInv /\ [Next]_vars => RefInv'
<1> SUFFICES ASSUME RefInv, [Next]_vars PROVE RefInv'
  OBVIOUS
<1>1. ExecInv' /\ ExitInv' /\ OutInv'
  BY ExecInvStep, ExitStep, OutStep DEF RefInv, ExecInv
<1>2. SourceInv' /\ NeedsInv' /\ KnownInv' /\ SizeInv' /\ RefusedInv'
  BY SourceStep, NeedsStep, KnownStep, SizeStep, RefusedStays DEF RefInv, ExecInv
<1>3. ReadInv' /\ FileInv'
  BY ReadStep, FileStep DEF RefInv, ExecInv
<1>4. WriteInv' /\ ChunkInv' /\ CancelInv'
  BY WriteStep, ChunkStep, CancelStep DEF RefInv, ExecInv
<1> QED
  BY <1>1, <1>2, <1>3, <1>4 DEF RefInv

\* What a command that has been received is to the backend.
LEMMA ReceivedIs ==
    /\ DOMAIN Received = DOMAIN commands
    /\ \A p \in DOMAIN commands :
          Received[p] = [kind |-> commands[p].kind, needs |-> DOMAIN asked[p],
                         stdout |-> commands[p].stdout, stderr |-> commands[p].stderr]
  BY DEF Received, CommandOf

LEMMA ReceivedKept ==
    ASSUME [Next]_vars, ~HandleEnqueue
    PROVE  Received' = Received
  BY OnlyEnqueueAsks DEF Received

\* What runs or is about to is in progress.
LEMMA InProgressNow ==
    ASSUME RefInv, Alive, NEW p \in tasks \cup DOMAIN running
    PROVE  /\ p \in Pid /\ p \in DOMAIN Received /\ B!InProgress(p) /\ p \notin Answered
           /\ Received[p].kind = commands[p].kind
<1>1. p \in DOMAIN asked /\ p \in to_run \cup DOMAIN running
  BY DEF RefInv, ExecInv, TInv, IInv, OneState, TasksAreToRun
<1>2. p \in Pid /\ p \in DOMAIN commands
  BY <1>1 DEF RefInv, ExecInv, TInv, IInv, TypeOK, IsMapOfMaps, CommandsKnown
<1>3. DOMAIN asked[p] \subseteq Answered
  BY <1>1, PrerequisitesAnswered DEF RefInv, ExecInv
<1>4. p \notin Answered
  BY <1>2, NotYetAnswered DEF RefInv, ExecInv, Unanswered, Answered
<1> QED
  BY <1>2, <1>3, <1>4, ReceivedIs DEF B!InProgress, B!Begun

\* The executor answers a command.
LEMMA IsAnswer ==
    ASSUME RefInv, [Next]_vars, Alive, Alive', NEW p \in tasks \cup DOMAIN running, NEW code,
           Respond(CommandDone(p, code)), ~HandleEnqueue, ~HandleBeginRead,
           p \notin waiting_edits, commands[p].kind = "Edit" => Faults, UNCHANGED waiting_edits
    PROVE  B!Answer(p) /\ p \in DOMAIN Received
<1>1. p \in Pid /\ p \in DOMAIN Received /\ B!InProgress(p) /\ Received[p].kind = commands[p].kind
  BY InProgressNow
<1>2. /\ Responses' = Append(Responses, [type |-> "CommandDone", pid |-> p])
      /\ Answered' = Answered \cup {p}
      /\ UNCHANGED <<EndsReported, ChunksReported>>
  BY <1>1, ToldAnswer DEF RefInv, ExecInv
<1>3. Received' = Received /\ Reading' = Reading
  BY ReceivedKept, ReadingKept DEF RefInv, ExecInv
<1>4. ~Dead /\ Dead' = Dead
  BY DEF Dead
<1> QED
  BY <1>1, <1>2, <1>3, <1>4 DEF B!Answer, B!Respond, B!CommandDone, B!outVars

\* Nothing that the frontend sees.
LEMMA IsNothing ==
    ASSUME RefInv, [Next]_vars, Alive, Alive', ~HandleEnqueue, ~HandleBeginRead,
           UNCHANGED <<sent, waiting_edits>>
    PROVE  UNCHANGED B!backendVars
<1>1. UNCHANGED <<Responses, Answered, EndsReported, ChunksReported>>
  BY ToldNothing
<1>2. Received' = Received /\ Reading' = Reading
  BY ReceivedKept, ReadingKept DEF RefInv, ExecInv
<1>3. Dead' = Dead
  BY DEF Dead
<1> QED
  BY <1>1, <1>2, <1>3 DEF B!backendVars, B!jobVars, B!outVars

\* The executor stops, with nothing said.
LEMMA IsDeath ==
    ASSUME RefInv, [Next]_vars, Alive, ~Alive', ~HandleEnqueue, ~HandleBeginRead, UNCHANGED sent
    PROVE  /\ ~Dead /\ Dead' = TRUE
           /\ UNCHANGED <<Received, Answered, Reading, EndsReported, ChunksReported, Responses>>
<1>1. UNCHANGED <<Responses, Answered, EndsReported, ChunksReported>>
  BY ToldNothing
<1>2. Received' = Received /\ Reading' = Reading
  BY ReceivedKept, ReadingKept DEF RefInv, ExecInv
<1> QED
  BY <1>1, <1>2 DEF Dead

LEMMA IsReceiveCommand ==
    ASSUME RefInv, [Next]_vars, HandleEnqueue, refused = {}, refused' = {}
    PROVE  B!BackendNext(Sendable)
<1> DEFINE event == Head(chan) p == event.pid block_for == event.block_for
           command == CommandOf(event.cmd, block_for)
<1>1. TInv
  BY DEF RefInv, ExecInv
<1>2. /\ Alive /\ chan # <<>> /\ chan' = Tail(chan) /\ Head(chan) = chan[1] /\ 1 \in DOMAIN chan
      /\ event.type = "Enqueue" /\ p \in Pid /\ event \in InLine
      /\ Enqueue(p, block_for) /\ commands' = Put(commands, p, event.cmd)
      /\ UNCHANGED <<ioVars, userVars, cancelling, waiting_edits, sent, crashed>>
  BY <1>1, EnqueueTaken
<1>3. p \notin DOMAIN asked /\ DOMAIN commands = DOMAIN asked
  BY <1>2 DEF Enqueue, RefInv, KnownInv
\* What it needs is known.
<1>4. Unknown(block_for) = {}
  <2>1. \A q \in DOMAIN block_for : q \in DOMAIN commands \/ \E j \in DOMAIN chan : j < 1
    BY <1>2 DEF RefInv, NeedsInv
  <2>2. ~\E j \in DOMAIN chan : j < 1
    BY <1>1 DEF TInv, ExecTypes
  <2>3. \A q \in DOMAIN block_for : q \in DOMAIN asked
    BY <1>3, <2>1, <2>2
  <2>4. \A q \in DOMAIN asked : q \in DOMAIN finished \/ Known(q)
    BY <1>1 DEF TInv, IInv, OneState, Known
  <2> QED
    BY <2>3, <2>4 DEF Unknown
<1>5. asked' = Put(asked, p, block_for) /\ panicked' = panicked
  BY <1>2, <1>4 DEF Enqueue, EnqueueRefused, EnqueueUnknown, EnqueueReady, EnqueueBlocked
<1>6. Received' = [r \in DOMAIN Received \cup {p} |-> IF r = p THEN command ELSE Received[r]]
  <2>1. Received' = [r \in DOMAIN commands' |-> CommandOf(commands'[r], asked'[r])]
    BY DEF Received, CommandOf
  <2>2. /\ DOMAIN commands' = DOMAIN commands \cup {p}
        /\ commands'[p] = event.cmd /\ asked'[p] = block_for
        /\ \A r \in DOMAIN commands : commands'[r] = commands[r] /\ asked'[r] = asked[r]
    <3>1. \A r \in DOMAIN commands : r # p
      BY <1>3
    <3>2. /\ DOMAIN commands' = DOMAIN commands \cup {p} /\ commands'[p] = event.cmd
          /\ \A r \in DOMAIN commands : r # p => commands'[r] = commands[r]
      BY <1>2 DEF Put
    <3>3. asked'[p] = block_for /\ \A r \in DOMAIN asked : r # p => asked'[r] = asked[r]
      BY <1>5, PutIsMap
    <3> QED
      BY <1>3, <3>1, <3>2, <3>3
  <2> QED
    BY <2>1, <2>2 DEF Received
<1>7. /\ UNCHANGED <<Responses, Answered, EndsReported, ChunksReported>>
      /\ Reading' = Reading
  <2>1. ~HandleBeginRead
    BY <1>2 DEF HandleBeginRead, Take
  <2> QED
    BY <1>1, <1>2, <2>1, ToldNothing, ReadingKept
<1>8. ~Dead /\ Dead' = Dead
  BY <1>2, <1>5 DEF Dead, Alive
<1>9. [pid |-> p, command |-> command] \in Sendable
  <2>1. PICK requests \in Inboxes : \E i \in DOMAIN requests : event = requests[i]
    BY <1>2 DEF RefInv, SourceInv
  <2>2. event \in {r \in Range(requests) : r.type = "Enqueue"}
    BY <1>2, <2>1 DEF Range
  <2> QED
    BY <2>1, <2>2 DEF Sendable
<1>10. DOMAIN Received = DOMAIN commands
  BY ReceivedIs
<1> HIDE DEF event, p, block_for, command
<1>11. B!ReceiveCommand(p, command)
  BY <1>2, <1>3, <1>6, <1>7, <1>8, <1>10 DEF B!ReceiveCommand, B!outVars
<1> DEFINE s == [pid |-> p, command |-> command]
<1>12. s.pid = p /\ s.command = command
  OBVIOUS
<1>13. \E r \in Sendable : B!ReceiveCommand(r.pid, r.command)
  <2> HIDE DEF s
  <2> QED
    BY <1>9, <1>11, <1>12 DEF s
<1> QED
  BY <1>13 DEF B!BackendNext, B!Receive

LEMMA IsReceiveRead ==
    ASSUME RefInv, [Next]_vars, HandleBeginRead
    PROVE  B!BackendNext(Sendable)
<1> DEFINE q == Head(chan).pipe
<1>1. TInv
  BY DEF RefInv, ExecInv
<1>2. /\ Alive /\ chan # <<>> /\ Head(chan).type = "BeginRead" /\ MayTake(ends[q].read)
      /\ readers' = readers \cup {q}
      /\ UNCHANGED <<machineVars, sent, waiting_edits, crashed>>
  BY DEF HandleBeginRead, Take, Idle
<1>3. q \in Pipe
  BY <1>1, <1>2, FirstEvent, EventFields DEF TInv, ExecTypes
<1>4. q \notin Reading
  BY <1>1, <1>2, <1>3, WhatIsReported DEF RefInv, ExecInv, HoldInv, OutInv, Flows, MayTake
<1>5. Reading' = Reading \cup {q}
  <2>1. q \in Reading'
    BY <1>2, <1>3 DEF Reading
  <2>2. Reading \subseteq Pipe /\ Reading' \subseteq Pipe
    BY DEF Reading
  <2> QED
    BY <1>1, <1>3, <2>1, <2>2, ReadingSteps
<1>6. UNCHANGED <<Responses, Answered, EndsReported, ChunksReported>>
  BY <1>2, ToldNothing
<1>7. Received' = Received
  <2>1. ~HandleEnqueue
    BY <1>2 DEF HandleEnqueue, Take
  <2> QED
    BY <2>1, ReceivedKept
<1>8. ~Dead /\ Dead' = Dead
  BY <1>2 DEF Dead, Alive, machineVars
<1> HIDE DEF q
<1>9. B!ReceiveRead(q)
  BY <1>2, <1>4, <1>5, <1>6, <1>7, <1>8 DEF B!ReceiveRead, B!jobVars
<1> QED
  BY <1>3, <1>9 DEF B!BackendNext, B!Receive

LEMMA IsReceiveFile ==
    ASSUME RefInv, [Next]_vars, HandleOpenFile
    PROVE  B!BackendNext(Sendable)
<1>1. /\ Alive /\ ~HandleEnqueue /\ ~HandleBeginRead
      /\ UNCHANGED <<machineVars, sent, waiting_edits>>
      /\ UNCHANGED crashed \/ Faults
  BY DEF HandleOpenFile, HandleEnqueue, HandleBeginRead, Take, Idle
<1>2. UNCHANGED <<Responses, Answered, EndsReported, ChunksReported>>
  BY <1>1, ToldNothing
<1>3. Received' = Received /\ Reading' = Reading
  BY <1>1, ReceivedKept, ReadingKept DEF RefInv, ExecInv
<1>4. ~Dead /\ Dead' \in {Dead, Faults}
  <2>1. Faults \in BOOLEAN
    BY ExecAssumption
  <2>2. CASE UNCHANGED crashed
    BY <1>1, <2>2 DEF Dead, Alive, machineVars
  <2>3. CASE Faults
    BY <1>1, <2>1, <2>3 DEF Dead, Alive, machineVars
  <2> QED
    BY <1>1, <2>2, <2>3
<1>5. B!ReceiveFile
  BY <1>1, <1>2, <1>3, <1>4 DEF B!ReceiveFile, B!jobVars, B!outVars
<1> QED
  BY <1>5 DEF B!BackendNext, B!Receive

\* Who wrote what is read is a command that has begun.
LEMMA WriterHasBegun ==
    ASSUME RefInv, NEW q \in Pipe, Written(q)
    PROVE  \E p \in DOMAIN Received : B!Writes(p, q)
<1>1. PICK p \in DOMAIN asked : /\ DOMAIN asked[p] \subseteq Answered
                                /\ q \in Outputs(commands[p])
                                /\ commands[p].kind = "Edit" => Faults
  BY DEF Written
<1>2. p \in DOMAIN commands
  BY DEF RefInv, ExecInv, TInv, CommandsKnown
<1> QED
  BY <1>1, <1>2, ReceivedIs DEF B!Writes, B!Begun, Outputs

LEMMA IsOutputOrEnd ==
    ASSUME MaxChunks \in Nat, RefInv, [Next]_vars, HandlePipe
    PROVE  B!BackendNext(Sendable)
<1>1. TInv
  BY DEF RefInv, ExecInv
<1>2. /\ Alive /\ chan # <<>> /\ chan' = Tail(chan) /\ ~HandleEnqueue /\ ~HandleBeginRead
      /\ UNCHANGED <<machineVars, waiting_edits, crashed>>
  BY <1>1, PipeSaid DEF HandlePipe, HandleEnqueue, HandleBeginRead, Take
<1>3. PICK q \in Pipe : \/ Head(chan) = Output(q) /\ sent' = Append(sent, Data(q))
                        \/ Head(chan) = Eof(q) /\ sent' = Append(sent, Closed(q))
  BY <1>1, PipeSaid
<1>4. Received' = Received /\ Reading' = Reading
  BY <1>1, <1>2, ReceivedKept, ReadingKept
<1>5. ~Dead /\ Dead' = Dead
  BY <1>2 DEF Dead, Alive, machineVars
<1>6. chan \in Seq(Event) /\ sent \in Seq(Response) /\ 1 \in DOMAIN chan /\ Head(chan) = chan[1]
  BY <1>1, <1>2, Dropped DEF TInv, ExecTypes
<1>7. Flows(q)
  BY DEF RefInv, OutInv
<1>8. CASE Head(chan) = Output(q) /\ sent' = Append(sent, Data(q))
  <2>1. Places(chan, Output(q)) # {}
    BY <1>6, <1>8 DEF Places
  <2>2. q \in Reading
    BY <1>1, <2>1, WhatIsReported DEF RefInv, ReadInv, Ended
  <2>3. q \notin EndsReported
    BY <1>1, <1>7, <2>1, WhatIsReported DEF Flows, EndsOnce
  <2>4. /\ Count(chan, Output(q)) \in Nat /\ Count(chan, Output(q)) # 0 /\ Count(sent, Data(q)) \in Nat
        /\ ChunksReported[q] = Count(sent, Data(q))
    BY <1>1, <1>6, <2>1, PlacesFinite, WhatIsReported
  <2>5. produced[q] = Count(sent, Data(q)) + Count(chan, Output(q)) + buffer[q]
    BY <1>7, <2>1 DEF RefInv, ReadInv, Flows, Watched, Passed, Ended
  <2>6. buffer[q] \in Nat /\ produced[q] \in Nat /\ produced[q] <= MaxChunks
    BY <1>1, ExecAssumption DEF TInv, ExecTypes, RefInv, ChunkInv
  <2>7. ChunksReported[q] < MaxChunks /\ produced[q] > 0
    BY <2>4, <2>5, <2>6
  <2>8. Written(q)
    BY <2>7 DEF RefInv, WriteInv
  <2>9. /\ Responses' = Append(Responses, [type |-> "Data", pipe |-> q])
        /\ ChunksReported' = [ChunksReported EXCEPT ![q] = @ + 1]
        /\ UNCHANGED <<Answered, EndsReported>>
    BY <1>1, <1>8, ToldOutput
  <2>10. B!Output(q)
    BY <1>2, <1>4, <1>5, <2>2, <2>3, <2>7, <2>8, <2>9, WriterHasBegun
       DEF B!Output, B!Open, B!Respond, B!jobVars
  <2> QED
    BY <2>2, <2>10 DEF B!BackendNext, B!BackendSteps
<1>9. CASE Head(chan) = Eof(q) /\ sent' = Append(sent, Closed(q))
  <2>1. Places(chan, Eof(q)) # {}
    BY <1>6, <1>9 DEF Places
  <2>2. q \in Reading /\ q \notin EndsReported
    BY <1>1, <1>7, <2>1, WhatIsReported DEF Flows, EndsOnce, Ended
  <2>3. ends[q].write = "closed"
    BY <1>7, <2>1 DEF Flows, Ended, RefInv, FileInv
  <2>4. Written(q)
    BY <2>3 DEF RefInv, WriteInv
  <2>5. /\ Responses' = Append(Responses, [type |-> "Closed", pipe |-> q])
        /\ EndsReported' = EndsReported \cup {q}
        /\ UNCHANGED <<Answered, ChunksReported>>
    BY <1>1, <1>9, ToldEnd
  <2>6. B!End(q)
    BY <1>2, <1>4, <1>5, <2>2, <2>4, <2>5, WriterHasBegun DEF B!End, B!Open, B!Respond, B!jobVars
  <2> QED
    BY <2>2, <2>6 DEF B!BackendNext, B!BackendSteps
<1> QED
  BY <1>3, <1>8, <1>9

\* A process that ends is taken out of those that run, if nobody waits for it on a condition.
LEMMA EndsWithoutPanic ==
    ASSUME RefInv, Unconditional, Alive, NEW p \in Pid, NEW status,
           StartCompleted(p, status) \/ Completed(p, status)
    PROVE  panicked' = "no"
<1>1. ~ResolvePanics(p, status)
  BY WithoutConditions DEF RefInv, ExecInv
<1> QED
  BY <1>1 DEF StartCompleted, Completed, Resolve, Alive

LEMMA IsCompletion ==
    ASSUME RefInv, [Next]_vars, Unconditional, HandleCompleted
    PROVE  B!BackendNext(Sendable)
<1> DEFINE event == Head(chan) p == event.pid
<1>1. TInv
  BY DEF RefInv, ExecInv
<1>2. /\ Alive /\ chan # <<>> /\ event.type = "Completed" /\ Finish(p, event.code)
      /\ UNCHANGED <<ioVars, waiting_edits, crashed>>
      /\ ~HandleEnqueue /\ ~HandleBeginRead
  BY DEF HandleCompleted, HandleEnqueue, HandleBeginRead, Take, Idle
<1>3. p \in Pid /\ p \in DOMAIN running
  BY <1>1, <1>2, FirstEvent, EventFields DEF TInv, ExecTypes, Finish, Completed
<1>4. Alive'
  BY <1>2, <1>3, EndsWithoutPanic DEF Finish, Alive
<1>5. p \in DOMAIN running /\ running[p] = "Running"
  <2>1. chan \in Seq(Event) /\ 1 \in DOMAIN chan /\ event = chan[1]
    BY <1>1, <1>2, Dropped DEF TInv, ExecTypes
  <2>2. Coming(p)
    BY <1>2, <2>1 DEF Coming, Completions
  <2> QED
    BY <1>2, <1>3, <2>2 DEF RefInv, ExecInv, RunInv
<1>6. p \notin waiting_edits /\ commands[p].kind = "Unknown"
  BY <1>2, <1>3, <1>5 DEF RefInv, ExecInv, RunInv, ExitInv, Reports
<1> HIDE DEF event, p
<1>7. B!Answer(p) /\ p \in DOMAIN Received
  BY <1>2, <1>3, <1>4, <1>6, IsAnswer DEF Finish
<1> QED
  BY <1>7 DEF B!BackendNext, B!BackendSteps

LEMMA IsReceiveEdit ==
    ASSUME RefInv, [Next]_vars, Unconditional, HandleEditComplete
    PROVE  B!BackendNext(Sendable)
<1> DEFINE p == Head(chan).pid
<1>1. TInv
  BY DEF RefInv, ExecInv
<1>2. /\ Alive /\ p \in waiting_edits /\ waiting_edits' = waiting_edits \ {p}
      /\ \/ Finish(p, "0") /\ UNCHANGED crashed
         \/ Faults /\ crashed' = "save edit" /\ UNCHANGED <<machineVars, sent, work>>
      /\ ~HandleEnqueue /\ ~HandleBeginRead
  BY DEF HandleEditComplete, HandleEnqueue, HandleBeginRead, Take, Idle
<1>3. p \in Pid
  BY <1>1, <1>2 DEF TInv, ExecTypes
<1> HIDE DEF p
<1>4. CASE Finish(p, "0") /\ UNCHANGED crashed
  <2>1. Alive'
    BY <1>2, <1>3, <1>4, EndsWithoutPanic DEF Finish, Alive
  <2>2. /\ Responses' = Append(Responses, [type |-> "CommandDone", pid |-> p])
        /\ Answered' = Answered \cup {p}
        /\ UNCHANGED <<EndsReported, ChunksReported>>
    BY <1>1, <1>3, <1>4, ToldAnswer DEF Finish
  <2>3. Received' = Received /\ Reading' = Reading
    BY <1>1, <1>2, ReceivedKept, ReadingKept
  <2>4. ~Dead /\ Dead' = Dead
    BY <1>2, <2>1 DEF Dead
  <2>5. B!ReceiveEdit(p)
    BY <1>2, <2>2, <2>3, <2>4 DEF B!ReceiveEdit, B!Respond, B!CommandDone, B!outVars
  <2> QED
    BY <1>3, <2>5 DEF B!BackendNext, B!Receive
<1>5. CASE Faults /\ crashed' = "save edit" /\ UNCHANGED <<machineVars, sent, work>>
  <2>1. ~Alive'
    BY <1>5 DEF Alive
  <2>2. B!ReceiveEdit(p)
    BY <1>2, <1>5, <2>1, IsDeath DEF B!ReceiveEdit, B!outVars
  <2> QED
    BY <1>3, <2>2 DEF B!BackendNext, B!Receive
<1> QED
  BY <1>2, <1>4, <1>5

\* What waits for something is not in progress.
LEMMA NotInProgress ==
    ASSUME RefInv, Alive, refused = {}, work = <<>>, NEW p \in Pid, p \notin DOMAIN running \cup DOMAIN finished
    PROVE  p \notin Answered /\ ~B!InProgress(p)
<1>1. \A r \in Pid : r \in Answered <=> r \in DOMAIN finished
  BY DEF RefInv, ExecInv, AnswerInv, Answered
<1>2. SUFFICES ASSUME p \in DOMAIN commands, DOMAIN asked[p] \subseteq Answered PROVE FALSE
  BY <1>1, ReceivedIs DEF B!InProgress, B!Begun
<1>3. p \notin to_run
  <2>1. p \notin tasks
    BY DEF RefInv, ExecInv, WorkInv
  <2> QED
    BY <2>1 DEF RefInv, ExecInv, TInv, IInv, TasksAreToRun
<1>4. p \in DOMAIN waiting_on
  BY <1>2, <1>3 DEF RefInv, KnownInv, ExecInv, TInv, IInv, OneState
<1>5. waiting_on[p] = StillNeeded(asked[p]) /\ DOMAIN waiting_on[p] # {}
  BY <1>4 DEF RefInv, ExecInv, TInv, IInv, WaitsForTheRest, TypeOK
<1>6. \A q \in DOMAIN StillNeeded(asked[p]) : q \in DOMAIN asked[p] /\ q \notin DOMAIN finished
  BY StillNeededIsMap
<1>7. Answered \subseteq Pid
  BY DEF Answered
<1> QED
  BY <1>1, <1>2, <1>5, <1>6, <1>7

LEMMA IsReceiveCancel ==
    ASSUME RefInv, [Next]_vars, refused = {}, HandleCancel
    PROVE  B!BackendNext(Sendable) \/ UNCHANGED B!backendVars
<1> DEFINE p == Head(chan).pid
<1>1. TInv
  BY DEF RefInv, ExecInv
<1>2. /\ Alive /\ work = <<>> /\ chan # <<>> /\ Head(chan).type = "CancelExec"
      /\ UNCHANGED <<machineVars, sent, waiting_edits>>
      /\ ~HandleEnqueue /\ ~HandleBeginRead
  BY DEF HandleCancel, HandleEnqueue, HandleBeginRead, Take, Idle
<1>3. p \in Pid
  BY <1>1, <1>2, FirstEvent, EventFields DEF TInv, ExecTypes
<1>4. \/ UNCHANGED crashed
      \/ /\ p \in DOMAIN running /\ running[p] = "AwaitingEdit" /\ crashed' # "no"
      \/ /\ p \notin DOMAIN running \cup DOMAIN finished /\ crashed' # "no"
  BY DEF HandleCancel
<1> HIDE DEF p
<1>5. CASE UNCHANGED crashed
  <2>1. Alive'
    BY <1>2, <1>5 DEF Alive, machineVars
  <2> QED
    BY <1>2, <2>1, IsNothing
<1>6. ASSUME crashed' # "no", p \notin Answered, ~(B!InProgress(p) /\ Received[p].kind = "Unknown")
      PROVE  B!BackendNext(Sendable)
  <2>1. ~Alive'
    BY <1>6 DEF Alive
  <2>2. B!ReceiveCancel(p)
    BY <1>2, <1>6, <2>1, IsDeath DEF B!ReceiveCancel, B!jobVars, B!outVars
  <2> QED
    BY <1>3, <2>2 DEF B!BackendNext, B!Receive
<1>7. CASE p \in DOMAIN running /\ running[p] = "AwaitingEdit" /\ crashed' # "no"
  <2>1. commands[p].kind = "Edit"
    BY <1>2, <1>3, <1>7 DEF RefInv, ExitInv, Reports
  <2>2. p \notin Answered /\ Received[p].kind # "Unknown"
    BY <1>2, <1>7, <2>1, InProgressNow
  <2> QED
    BY <1>6, <1>7, <2>2
<1>8. CASE p \notin DOMAIN running \cup DOMAIN finished /\ crashed' # "no"
  BY <1>2, <1>3, <1>6, <1>8, NotInProgress
<1> QED
  BY <1>4, <1>5, <1>7, <1>8

\* The kill that comes after the wait.
LEMMA IsKill ==
    ASSUME RefInv, [Next]_vars, ~HandleEnqueue, ~HandleBeginRead, NEW p \in Pid, Kill(p)
    PROVE  B!BackendNext(Sendable) \/ UNCHANGED B!backendVars
<1>1. /\ Alive /\ p \in cancelling /\ UNCHANGED <<machineVars, sent, waiting_edits>>
      /\ UNCHANGED crashed \/ crashed' \in {"no", "kill after wait"}
  BY DEF Kill
<1>2. CASE crashed' = "no"
  <2>1. Alive'
    BY <1>1, <1>2 DEF Alive, machineVars
  <2> QED
    BY <1>1, <2>1, IsNothing
<1>3. CASE crashed' # "no"
  <2>1. ~Alive'
    BY <1>3 DEF Alive
  <2>2. p \in DOMAIN running /\ running[p] = "Running"
    BY <1>1 DEF RefInv, CancelInv
  <2>3. commands[p].kind = "Unknown"
    BY <1>1, <2>2 DEF RefInv, ExitInv, Reports
  <2>4. B!InProgress(p) /\ Received[p].kind = "Unknown"
    BY <1>1, <2>2, <2>3, InProgressNow
  <2>5. B!ReceiveCancel(p)
    BY <1>1, <2>1, <2>4, IsDeath DEF B!ReceiveCancel, B!jobVars, B!outVars
  <2> QED
    BY <2>5 DEF B!BackendNext, B!Receive
<1> QED
  BY <1>2, <1>3

LEMMA IsTask ==
    ASSUME RefInv, [Next]_vars, Unconditional, refused = {}, ~HandleEnqueue, ~HandleBeginRead, RunTask
    PROVE  B!BackendNext(Sendable) \/ UNCHANGED B!backendVars
<1> DEFINE p == Head(work).pid
<1>1. TInv
  BY DEF RefInv, ExecInv
<1>2. Alive /\ work # <<>>
  BY DEF RunTask, StartProcess, SpawnFails, RunSetDirectory, RunGetDirectory, BeginEdit,
         EditUnreadable, ReportRefused, ActOnStart, Act
<1>3. work \in Seq(Task) /\ 1 \in DOMAIN work /\ Head(work) = work[1] /\ Head(work) \in Task
  BY <1>1, <1>2, Dropped DEF TInv, ExecTypes
<1>4. p \in Pid
  BY <1>3 DEF Task
<1>5. CASE StartProcess
  <2>1. Alive' /\ UNCHANGED <<sent, waiting_edits>>
    BY <1>5 DEF StartProcess, ActOnStart, Act, Start, Alive
  <2> QED
    BY <1>2, <2>1, IsNothing
<1>6. CASE SpawnFails
  <2>1. StartCompleted(p, "Failure") /\ commands[p].kind = "Unknown" /\ Faults /\ UNCHANGED <<sent, waiting_edits>>
    BY <1>6 DEF SpawnFails, ActOnStart
  <2>2. panicked' = "no"
    BY <1>2, <1>4, <2>1, EndsWithoutPanic
  <2>3. ~Alive'
    BY <1>6, <2>2 DEF SpawnFails, Alive
  <2>4. p \in tasks
    BY <2>1 DEF StartCompleted
  <2> HIDE DEF p
  <2>5. B!InProgress(p) /\ Received[p].kind = "Unknown" /\ p \in DOMAIN Received
    BY <1>2, <2>1, <2>4, InProgressNow
  <2>6. B!DieOnSpawn(p)
    BY <1>2, <2>1, <2>3, <2>5, IsDeath DEF B!DieOnSpawn, B!jobVars, B!outVars
  <2> QED
    BY <2>5, <2>6 DEF B!BackendNext, B!BackendSteps
<1>7. CASE RunSetDirectory \/ RunGetDirectory \/ EditUnreadable
  <2>1. PICK status, code : EndAtOnce(p, status, code)
    BY <1>7 DEF RunSetDirectory, RunGetDirectory, EditUnreadable
  <2>2. /\ UNCHANGED <<waiting_edits, crashed>>
        /\ commands[p].kind = "Edit" => Faults
    BY <1>7 DEF RunSetDirectory, RunGetDirectory, EditUnreadable, ActOnStart
  <2>3. StartCompleted(p, status) /\ p \in tasks
    BY <2>1 DEF EndAtOnce, StartCompleted
  <2>4. panicked' = "no"
    BY <1>2, <1>4, <2>3, EndsWithoutPanic
  <2>5. Respond(CommandDone(p, code)) /\ Alive'
    BY <1>2, <2>1, <2>2, <2>4 DEF EndAtOnce, Alive
  <2>6. p \notin waiting_edits
    BY <1>1, <1>2, <1>4, <2>3 DEF RefInv, ExecInv, RunInv, TInv, IInv, OneState, TasksAreToRun
  <2> HIDE DEF p
  <2>7. B!Answer(p) /\ p \in DOMAIN Received
    BY <1>2, <2>2, <2>3, <2>5, <2>6, IsAnswer
  <2> QED
    BY <2>7 DEF B!BackendNext, B!BackendSteps
<1>8. CASE BeginEdit
  <2>1. /\ commands[p].kind = "Edit" /\ Respond([type |-> "EditRequest", pid |-> p]) /\ p \in tasks
        /\ waiting_edits' = waiting_edits \cup {p} /\ Alive'
    BY <1>8 DEF BeginEdit, ActOnStart, Act, Start, Alive
  <2>2. p \notin waiting_edits
    BY <1>1, <1>2, <1>4, <2>1 DEF RefInv, ExecInv, RunInv, TInv, IInv, OneState, TasksAreToRun
  <2>3. /\ Responses' = Append(Responses, [type |-> "EditRequest", pid |-> p])
        /\ UNCHANGED <<Answered, EndsReported, ChunksReported>>
    BY <1>1, <1>4, <2>1, ToldEdit
  <2>4. Received' = Received /\ Reading' = Reading
    BY <1>1, ReceivedKept, ReadingKept
  <2>5. ~Dead /\ Dead' = Dead
    BY <1>2, <2>1 DEF Dead
  <2> HIDE DEF p
  <2>6. B!InProgress(p) /\ Received[p].kind = "Edit" /\ p \in DOMAIN Received
    BY <1>2, <2>1, InProgressNow
  <2>7. B!AskForEdit(p)
    BY <2>1, <2>2, <2>3, <2>4, <2>5, <2>6 DEF B!AskForEdit, B!Respond, B!outVars
  <2> QED
    BY <2>6, <2>7 DEF B!BackendNext, B!BackendSteps
<1>9. CASE ReportRefused
  <2>1. work[1].type = "ConditionFailed"
    BY <1>3, <1>9 DEF ReportRefused, Act
  <2> QED
    BY <1>2, <1>3, <2>1 DEF RefInv, ExecInv, WorkInv
<1> QED
  BY <1>5, <1>6, <1>7, <1>8, <1>9 DEF RunTask

LEMMA IsBackendStep ==
    ASSUME MaxChunks \in Nat \ {0}, \A requests \in Inboxes : FrontendSends(requests),
           RefInv, [Next]_vars, Unconditional'
    PROVE  B!BackendNext(Sendable) \/ UNCHANGED B!backendVars
<1>1. Unconditional /\ refused = {}
  BY StillUnconditional, WithoutConditions DEF RefInv, ExecInv
<1>2. refused' = {}
  <2>1. RefInv'
    BY RefInvStep
  <2>2. RefusedInv' /\ refused' \subseteq DOMAIN asked'
    BY <2>1 DEF RefInv, ExecInv, TInv, IInv, OneState
  <2> QED
    BY <2>2 DEF RefusedInv, Unconditional
<1>3. CASE HandleEnqueue
  BY <1>1, <1>2, <1>3, IsReceiveCommand
<1>4. CASE HandleBeginRead
  BY <1>4, IsReceiveRead
<1>5. CASE Handle /\ ~HandleEnqueue /\ ~HandleBeginRead
  BY <1>1, <1>5, IsCompletion, IsReceiveFile, IsOutputOrEnd, IsReceiveEdit, IsReceiveCancel DEF Handle
<1>6. CASE RunTask /\ ~HandleEnqueue /\ ~HandleBeginRead
  BY <1>1, <1>6, IsTask
<1>7. CASE (\E p \in Pid : Kill(p)) /\ ~HandleEnqueue /\ ~HandleBeginRead
  BY <1>7, IsKill
<1>8. CASE ~Handle /\ ~RunTask /\ ~\E p \in Pid : Kill(p)
  <2>1. UNCHANGED <<sent, waiting_edits, panicked, crashed>>
    BY <1>8 DEF Next, Executor, SendRequest, SendCancel, SendEdit, ProcessStep, Writes, Consumes,
       ExitsWith, LockChild, Reap, ReaderReads, ReaderEnds, WriterWrites, vars, ctlVars, machineVars
  <2>2. CASE Alive
    BY <1>8, <2>1, <2>2, IsNothing DEF Handle, Alive
  <2>3. CASE UNCHANGED vars
    <3>1. UNCHANGED <<sent, commands, asked, readers, chan, crashed, panicked, waiting_edits>>
      BY <2>3 DEF vars, machineVars, ctlVars, ioVars
    <3>2. UNCHANGED <<Responses, Answered, EndsReported, ChunksReported>>
      BY <3>1, ToldNothing
    <3>3. UNCHANGED <<Received, Reading, Dead>>
      BY <3>1, <3>2 DEF Received, Reading, Dead, Alive, Count, Places
    <3> QED
      BY <3>1, <3>2, <3>3 DEF B!backendVars, B!jobVars, B!outVars
  <2> QED
    BY <2>2, <2>3, StoppedForGood
<1> QED
  BY <1>3, <1>4, <1>5, <1>6, <1>7, <1>8

LEMMA IsBackendInit ==
    ASSUME Init
    PROVE  B!BackendInit
<1>1. /\ sent = <<>> /\ chan = <<>> /\ DOMAIN commands = {} /\ readers = {} /\ waiting_edits = {} /\ Alive
  BY DEF Init, MachineInit, EmptyMap, Alive
<1>2. \A m : Places(sent, m) = {} /\ Places(chan, m) = {} /\ Count(sent, m) = 0 /\ Count(chan, m) = 0
  <2>1. \A m : Places(sent, m) = {} /\ Places(chan, m) = {}
    BY <1>1 DEF Places
  <2> QED
    BY <2>1, FS_EmptySet DEF Count
<1>3. Received = [p \in {} |-> {}]
  BY <1>1 DEF Received
<1>4. Answered = {}
  BY <1>1 DEF Answered, AnswersTo
<1>5. EndsReported = {} /\ Reading = {} /\ ChunksReported = [q \in Pipe |-> 0]
  BY <1>1, <1>2 DEF EndsReported, Reading, ChunksReported
<1>6. Responses = <<>>
  <2>1. Responses \in [1 .. 0 -> {}]
    BY <1>1 DEF Responses
  <2>2. Responses \in Seq({}) /\ Len(Responses) = 0
    BY <2>1
  <2> QED
    BY <2>2, EmptySeq
<1> QED
  BY <1>1, <1>3, <1>4, <1>5, <1>6 DEF B!BackendInit, Dead

\* The executor is a backend to its frontend: for any requests that a frontend sends, without
\* conditions, and whatever its processes and threads do, every response that it gives is one
\* that Backend may give then: answers once and after those of the needs, edits handed out
\* once, output and one end for each pipe that is read and written, nothing after the end.
THEOREM ExecIsABackend ==
    ASSUME MaxChunks \in Nat \ {0}, \A requests \in Inboxes : FrontendSends(requests)
    PROVE  Spec => ImplementsBackend
<1>1. Init => RefInv
  BY RefInvInit
<1>2. RefInv /\ [Next]_vars => RefInv'
  BY RefInvStep
<1>3. Init => B!BackendInit
  BY IsBackendInit
<1>4. RefInv /\ [Next]_vars => [Unconditional' => B!BackendNext(Sendable)]_(B!backendVars)
  <2>1. ASSUME RefInv, [Next]_vars, Unconditional'
        PROVE  B!BackendNext(Sendable) \/ UNCHANGED B!backendVars
    BY <2>1, IsBackendStep
  <2> QED
    BY <2>1
<1> QED
  BY <1>1, <1>2, <1>3, <1>4, PTL DEF Spec, ImplementsBackend
=============================================================================
