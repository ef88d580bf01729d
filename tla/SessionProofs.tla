---------------------------- MODULE SessionProofs ----------------------------
(***************************************************************************)
(* A session of the shell, for plans of any kind and length, any number of *)
(* lines and of Ctrl-Cs, and a backend that answers when it likes: the     *)
(* loop's tables are ready for every message, the prompt is shown when     *)
(* nothing is pending, with the directory that is current, and the         *)
(* directory is asked for behind all commands.                             *)
(***************************************************************************)
EXTENDS Session, FiniteSetTheorems, Numbers

-----------------------------------------------------------------------------
(* What is in a queue. *)

In(queue, E) == \E i \in DOMAIN queue : queue[i] \in E
Once(queue, E) == \A i, j \in DOMAIN queue : queue[i] \in E /\ queue[j] \in E => i = j
Before(queue, a, b) == \A i, j \in DOMAIN queue : queue[i] = a /\ queue[j] = b => i < j

LEMMA Rest ==
    ASSUME NEW S, NEW queue \in Seq(S), queue # <<>>
    PROVE  /\ Tail(queue) \in Seq(S) /\ Head(queue) \in S /\ 1 \in DOMAIN queue /\ queue[1] = Head(queue)
           /\ \A i \in DOMAIN Tail(queue) : i + 1 \in DOMAIN queue /\ Tail(queue)[i] = queue[i + 1] /\ i \in Nat /\ i + 1 # 1
           /\ \A i \in DOMAIN queue : i = 1 \/ (i - 1 \in DOMAIN Tail(queue) /\ queue[i] = Tail(queue)[i - 1])
  OBVIOUS

LEMMA InRest ==
    ASSUME NEW S, NEW queue \in Seq(S), queue # <<>>, NEW E
    PROVE  /\ In(Tail(queue), E) => In(queue, E)
           /\ In(queue, E) => In(Tail(queue), E) \/ Head(queue) \in E
           /\ Head(queue) \in E => In(queue, E)
           /\ Once(queue, E) => Once(Tail(queue), E)
           /\ Once(queue, E) /\ Head(queue) \in E => ~In(Tail(queue), E)
<1>1. (In(Tail(queue), E) => In(queue, E)) /\ (Head(queue) \in E => In(queue, E))
  BY Rest DEF In
<1>2. In(queue, E) => In(Tail(queue), E) \/ Head(queue) \in E
  BY Rest DEF In
<1>3. Once(queue, E) => Once(Tail(queue), E)
  <2> SUFFICES ASSUME Once(queue, E), NEW i \in DOMAIN Tail(queue), NEW j \in DOMAIN Tail(queue),
                      Tail(queue)[i] \in E, Tail(queue)[j] \in E
               PROVE  i = j
    BY DEF Once
  <2>1. i + 1 = j + 1 /\ i \in Nat /\ j \in Nat
    BY Rest DEF Once
  <2> QED
    BY <2>1
<1>4. Once(queue, E) /\ Head(queue) \in E => ~In(Tail(queue), E)
  BY Rest DEF In, Once
<1> QED
  BY <1>1, <1>2, <1>3, <1>4

LEMMA BeforeRest ==
    ASSUME NEW S, NEW queue \in Seq(S), queue # <<>>, NEW a, NEW b, Before(queue, a, b)
    PROVE  Before(Tail(queue), a, b) /\ (Head(queue) = b => ~In(queue, {a}))
<1>1. Before(Tail(queue), a, b)
  <2> SUFFICES ASSUME NEW i \in DOMAIN Tail(queue), NEW j \in DOMAIN Tail(queue),
                      Tail(queue)[i] = a, Tail(queue)[j] = b
               PROVE  i < j
    BY DEF Before
  <2>1. i + 1 < j + 1 /\ i \in Nat /\ j \in Nat
    BY Rest DEF Before
  <2> QED
    BY <2>1
<1>2. Head(queue) = b => ~In(queue, {a})
  <2> SUFFICES ASSUME Head(queue) = b, NEW i \in DOMAIN queue, queue[i] = a PROVE FALSE
    BY DEF In
  <2>1. i < 1 /\ i \in Nat /\ i # 0
    BY Rest DEF Before
  <2> QED
    BY <2>1
<1> QED
  BY <1>1, <1>2

LEMMA Added ==
    ASSUME NEW S, NEW queue \in Seq(S), NEW m \in S
    PROVE  /\ Append(queue, m) \in Seq(S) /\ Len(queue) \in Nat /\ Append(queue, m)[Len(queue) + 1] = m
           /\ Len(queue) + 1 \in DOMAIN Append(queue, m)
           /\ \A i \in DOMAIN queue : i \in DOMAIN Append(queue, m) /\ Append(queue, m)[i] = queue[i]
                                      /\ i \in Nat /\ i < Len(queue) + 1
           /\ \A i \in DOMAIN Append(queue, m) : i \in DOMAIN queue \/ i = Len(queue) + 1
  OBVIOUS

LEMMA InAdded ==
    ASSUME NEW S, NEW queue \in Seq(S), NEW m \in S, NEW E
    PROVE  /\ In(Append(queue, m), E) <=> In(queue, E) \/ m \in E
           /\ Once(queue, E) /\ ~(m \in E /\ In(queue, E)) => Once(Append(queue, m), E)
<1>1. In(Append(queue, m), E) <=> In(queue, E) \/ m \in E
  BY Added DEF In
<1>2. Once(queue, E) /\ ~(m \in E /\ In(queue, E)) => Once(Append(queue, m), E)
  BY Added DEF In, Once
<1> QED
  BY <1>1, <1>2

LEMMA BeforeAdded ==
    ASSUME NEW S, NEW queue \in Seq(S), NEW m \in S, NEW a, NEW b, a # b,
           Before(queue, a, b), m = a => ~In(queue, {b})
    PROVE  Before(Append(queue, m), a, b)
<1> SUFFICES ASSUME NEW i \in DOMAIN Append(queue, m), NEW j \in DOMAIN Append(queue, m),
                    Append(queue, m)[i] = a, Append(queue, m)[j] = b
             PROVE  i < j
  BY DEF Before
<1>1. CASE i \in DOMAIN queue /\ j \in DOMAIN queue
  BY <1>1, Added DEF Before
<1>2. CASE i \in DOMAIN queue /\ j \notin DOMAIN queue
  BY <1>2, Added
<1>3. CASE i \notin DOMAIN queue
  BY <1>3, Added DEF In
<1> QED
  BY <1>1, <1>2, <1>3

LEMMA InJoined ==
    ASSUME NEW S, NEW queue \in Seq(S), NEW more \in Seq(S), NEW E
    PROVE  /\ queue \o more \in Seq(S)
           /\ In(queue \o more, E) <=> In(queue, E) \/ In(more, E)
           /\ Once(queue, E) /\ Once(more, E) /\ ~(In(queue, E) /\ In(more, E)) => Once(queue \o more, E)
<1> DEFINE all == queue \o more n == Len(queue)
<1>1. /\ all \in Seq(S) /\ n \in Nat
      /\ \A i \in DOMAIN queue : i \in DOMAIN all /\ all[i] = queue[i]
      /\ \A i \in DOMAIN more : n + i \in DOMAIN all /\ all[n + i] = more[i]
      /\ \A i \in DOMAIN all : i \in DOMAIN queue
                               \/ (i - n \in DOMAIN more /\ all[i] = more[i - n] /\ n + (i - n) = i /\ i \in Nat)
  OBVIOUS
<1> HIDE DEF all, n
<1>2. In(all, E) <=> In(queue, E) \/ In(more, E)
  BY <1>1 DEF In
<1>3. ASSUME Once(queue, E), Once(more, E), ~(In(queue, E) /\ In(more, E)) PROVE Once(all, E)
  <2> SUFFICES ASSUME NEW i \in DOMAIN all, NEW j \in DOMAIN all, all[i] \in E, all[j] \in E
               PROVE  i = j
    BY DEF Once
  <2>1. CASE i \in DOMAIN queue
    <3>1. j \in DOMAIN queue
      BY <1>1, <1>3, <2>1 DEF In
    <3> QED
      BY <1>1, <1>3, <2>1, <3>1 DEF Once
  <2>2. CASE i \notin DOMAIN queue
    <3>1. i - n \in DOMAIN more /\ more[i - n] \in E
      BY <1>1, <2>2
    <3>2. j \notin DOMAIN queue
      BY <1>1, <1>3, <3>1 DEF In
    <3>3. j - n \in DOMAIN more /\ more[j - n] \in E
      BY <1>1, <3>2
    <3>4. i - n = j - n
      BY <1>3, <3>1, <3>3 DEF Once
    <3> QED
      BY <1>1, <2>2, <3>2, <3>4
  <2> QED
    BY <2>1, <2>2
<1> QED
  BY <1>1, <1>2, <1>3 DEF all

-----------------------------------------------------------------------------
(* The steps of a plan. *)

\* among[k] are the places up to k, of those types.
Among(f, plan, types, n) ==
    \A k \in 0 .. n :
        f[k] = IF k = 0 THEN <<>>
               ELSE IF plan.steps[k].type \in types THEN Append(f[k - 1], k) ELSE f[k - 1]

\* They are in order, and of those types.
Placed(places, plan, types, n) ==
    /\ places \in Seq(1 .. n)
    /\ \A i \in DOMAIN places : plan.steps[places[i]].type \in types
    /\ \A i, j \in DOMAIN places : i < j => places[i] < places[j]

LEMMA OnePlaceMore ==
    ASSUME NEW plan, NEW types, NEW n \in Nat, NEW places, Placed(places, plan, types, n)
    PROVE  /\ Placed(places, plan, types, n + 1)
           /\ plan.steps[n + 1].type \in types => Placed(Append(places, n + 1), plan, types, n + 1)
<1>1. places \in Seq(1 .. n + 1) /\ \A i \in DOMAIN places : places[i] \in 1 .. n
  BY DEF Placed
<1>2. Placed(places, plan, types, n + 1)
  BY <1>1 DEF Placed
<1>3. ASSUME plan.steps[n + 1].type \in types PROVE Placed(Append(places, n + 1), plan, types, n + 1)
  <2> DEFINE more == Append(places, n + 1)
  <2>1. n + 1 \in 1 .. n + 1
    OBVIOUS
  <2>2. /\ more \in Seq(1 .. n + 1) /\ more[Len(places) + 1] = n + 1
        /\ \A i \in DOMAIN places : more[i] = places[i] /\ i < Len(places) + 1
        /\ \A i \in DOMAIN more : i \in DOMAIN places \/ i = Len(places) + 1
    BY <1>1, <2>1, Added
  <2>3. Len(places) \in Nat /\ \A i \in DOMAIN places : i \in Nat
    BY <1>1
  <2> HIDE DEF more
  <2>4. \A i \in DOMAIN more : plan.steps[more[i]].type \in types
    <3> SUFFICES ASSUME NEW i \in DOMAIN more PROVE plan.steps[more[i]].type \in types
      OBVIOUS
    <3>1. \A k \in DOMAIN places : plan.steps[places[k]].type \in types
      BY DEF Placed
    <3>2. i \in DOMAIN places \/ more[i] = n + 1
      BY <2>2
    <3> QED
      BY <1>3, <2>2, <3>1, <3>2
  <2>5. \A i, j \in DOMAIN more : i < j => more[i] < more[j]
    <3> SUFFICES ASSUME NEW i \in DOMAIN more, NEW j \in DOMAIN more, i < j PROVE more[i] < more[j]
      OBVIOUS
    <3>1. i \in DOMAIN places
      <4>1. (i \in DOMAIN places \/ i = Len(places) + 1) /\ (j \in DOMAIN places \/ j = Len(places) + 1)
        BY <2>2
      <4>2. j \in Nat /\ j <= Len(places) + 1
        BY <2>2, <2>3, <4>1
      <4>3. i # Len(places) + 1
        BY <2>3, <4>2
      <4> QED
        BY <4>1, <4>3
    <3>2. CASE j \in DOMAIN places
      <4>1. places[i] < places[j]
        BY <3>1, <3>2 DEF Placed
      <4> QED
        BY <2>2, <3>1, <3>2, <4>1
    <3>3. CASE j = Len(places) + 1
      BY <1>1, <2>2, <3>1, <3>3
    <3> QED
      BY <2>2, <3>2, <3>3
  <2> QED
    BY <2>2, <2>4, <2>5 DEF Placed, more
<1> QED
  BY <1>2, <1>3

LEMMA AmongExists ==
    ASSUME NEW plan, NEW types, NEW n \in Nat
    PROVE  \E f : DOMAIN f = 0 .. n /\ f = [k \in 0 .. n |-> f[k]] /\ Among(f, plan, types, n)
<1> DEFINE T == {m \in Nat : \E f : DOMAIN f = 0 .. m /\ f = [k \in 0 .. m |-> f[k]] /\ Among(f, plan, types, m)}
<1>1. 0 \in T
  <2> DEFINE f == [k \in 0 .. 0 |-> <<>>]
  <2>1. DOMAIN f = 0 .. 0 /\ f = [k \in 0 .. 0 |-> f[k]] /\ Among(f, plan, types, 0)
    BY DEF Among
  <2> QED
    BY <2>1
<1>2. ASSUME NEW m \in Nat, m \in T PROVE m + 1 \in T
  <2>1. PICK f : DOMAIN f = 0 .. m /\ f = [k \in 0 .. m |-> f[k]] /\ Among(f, plan, types, m)
    BY <1>2
  <2> DEFINE last == IF plan.steps[m + 1].type \in types THEN Append(f[m], m + 1) ELSE f[m]
             g == [k \in 0 .. m + 1 |-> IF k = m + 1 THEN last ELSE f[k]]
  <2>2. /\ DOMAIN g = 0 .. m + 1 /\ g = [k \in 0 .. m + 1 |-> g[k]] /\ g[m + 1] = last
        /\ \A k \in 0 .. m : g[k] = f[k]
    OBVIOUS
  <2>3. Among(g, plan, types, m + 1)
    <3> HIDE DEF g
    <3> SUFFICES ASSUME NEW k \in 0 .. m + 1
                 PROVE  g[k] = IF k = 0 THEN <<>>
                               ELSE IF plan.steps[k].type \in types THEN Append(g[k - 1], k) ELSE g[k - 1]
      BY DEF Among
    <3>1. k = 0 \/ k - 1 \in 0 .. m
      OBVIOUS
    <3>2. CASE k \in 0 .. m
      <4>1. f[k] = IF k = 0 THEN <<>>
                   ELSE IF plan.steps[k].type \in types THEN Append(f[k - 1], k) ELSE f[k - 1]
        BY <2>1, <3>2 DEF Among
      <4> QED
        BY <2>2, <3>1, <3>2, <4>1
    <3>3. CASE k = m + 1
      <4>1. k # 0 /\ k - 1 = m /\ m \in 0 .. m
        BY <3>3
      <4> QED
        BY <2>2, <3>3, <4>1 DEF last
    <3> QED
      BY <3>2, <3>3
  <2> HIDE DEF g
  <2> QED
    BY <2>2, <2>3
<1>3. n \in T
  <2> HIDE DEF T
  <2>1. Nat \subseteq T
    BY <1>1, <1>2, AllNumbers
  <2> QED
    BY <2>1
<1> QED
  BY <1>3

LEMMA StepsAreInOrder ==
    ASSUME NEW plan, NEW types, NEW n \in Nat, n = Len(plan.steps)
    PROVE  Placed(StepsOf(plan, types), plan, types, n)
<1> DEFINE Def(f) == f = [k \in 0 .. n |-> IF k = 0 THEN <<>>
                                          ELSE IF plan.steps[k].type \in types
                                          THEN Append(f[k - 1], k) ELSE f[k - 1]]
           g == CHOOSE f : Def(f)
<1>1. \E f : Def(f)
  <2>1. PICK f : DOMAIN f = 0 .. n /\ f = [k \in 0 .. n |-> f[k]] /\ Among(f, plan, types, n)
    BY AmongExists
  <2>2. Def(f)
    BY <2>1 DEF Among
  <2> QED
    BY <2>2
<1>2. Def(g)
  BY <1>1, Zenon
<1>3. StepsOf(plan, types) = g[n]
  BY DEF StepsOf
<1>4. Among(g, plan, types, n)
  BY <1>2 DEF Among
<1> HIDE DEF g, Def
<1> DEFINE T == {k \in Nat : k <= n => Placed(g[k], plan, types, k)}
<1>5. 0 \in T
  <2>1. g[0] = <<>>
    BY <1>4 DEF Among
  <2>2. <<>> \in Seq(1 .. 0) /\ DOMAIN <<>> = {}
    OBVIOUS
  <2> QED
    BY <2>1, <2>2 DEF Placed
<1>6. ASSUME NEW k \in Nat, k \in T PROVE k + 1 \in T
  <2> SUFFICES ASSUME k + 1 <= n PROVE Placed(g[k + 1], plan, types, k + 1)
    OBVIOUS
  <2>1. Placed(g[k], plan, types, k)
    BY <1>6
  <2>2. k + 1 \in 0 .. n /\ k + 1 # 0 /\ (k + 1) - 1 = k
    OBVIOUS
  <2>3. g[k + 1] = IF plan.steps[k + 1].type \in types THEN Append(g[k], k + 1) ELSE g[k]
    BY <1>4, <2>2 DEF Among
  <2> QED
    BY <2>1, <2>3, OnePlaceMore
<1>7. n \in T
  <2> HIDE DEF T
  <2>1. Nat \subseteq T
    BY <1>5, <1>6, AllNumbers
  <2> QED
    BY <2>1
<1> QED
  BY <1>3, <1>7

-----------------------------------------------------------------------------
(* The inductive invariant, of a session that is running. *)

Command == [kind : {"Unknown", "SetDirectory", "GetDirectory", "Edit"},
            needs : SUBSET Pid, stdout : Pipe, stderr : Pipe]
Begin(p) == {r \in SessionRequest : r.type = "BeginCommand" /\ r.pid = p}
Finish(p) == {[type |-> "FinishEdit", pid |-> p]}
Read(q) == {BeginRead(q)}
Done(p) == {CommandDone(p)}
ToEdit(p) == {[type |-> "EditRequest", pid |-> p]}
DataOf(q) == [type |-> "Data", pipe |-> q]
ClosedOf(q) == [type |-> "Closed", pipe |-> q]
Ready == {[type |-> "RemoteReady"]}

\* The command p was sent, and may have been received.
Known(p, c) ==
    \/ p \in DOMAIN commands /\ commands[p] = c
    \/ In(requests, {[type |-> "BeginCommand", pid |-> p, command |-> c]})

\* Ids are given out in order, and there are enough of them.
IdInv ==
    /\ next_id # 0 =>
         \E plan \in Plans \ {ExitPlan} :
            plan.outcome = "ok" /\ next_id <= lines * IdsTaken(plan)
    /\ \A q \in pipes : q < next_id
    /\ \A p \in Pid, c \in Command : Known(p, c) => p < next_id /\ c.stdout < next_id /\ c.stderr < next_id

\* Every line ends with a GetDirectory, which waits for the line's commands and whose stdout
\* is its own.
LineInv ==
    /\ next_id # 0 =>
         \E p \in Pid, c \in Command : p + 1 = next_id /\ Known(p, c) /\ c.kind = "GetDirectory"
    /\ \A p \in Pid, c \in Command : Known(p, c) /\ c.kind = "GetDirectory" =>
         /\ c.stdout + 3 = p
         /\ \A o \in Pid, other \in Command : Known(o, other) =>
              /\ o < p => o \in answered \cup c.needs
              /\ o # p => c.stdout \notin {other.stdout, other.stderr}

BackendTypes ==
    /\ DOMAIN commands \subseteq Pid /\ \A p \in DOMAIN commands : commands[p] \in Command
    /\ answered \subseteq DOMAIN commands /\ editing \subseteq DOMAIN commands \ answered
    /\ reading \subseteq Pipe /\ ended \subseteq reading /\ chunks \in [Pipe -> Nat]

\* A command is waited for from the time that it is sent until its answer is taken.
CommandInv ==
    /\ \A p \in Pid :
         /\ Once(requests, Begin(p)) /\ Once(responses, Done(p))
         /\ In(requests, Begin(p)) => p \notin DOMAIN commands /\ p \in waiting_for
         /\ p \in DOMAIN commands \ answered => p \in waiting_for
         /\ In(responses, Done(p)) => p \in answered \cap waiting_for
    /\ IsFiniteSet(waiting_for)
    /\ prompting => waiting_for = {} /\ waiting_for_eof = {} /\ waiting_for_remote = {}

\* An edit is asked for once and finished once.
EditInv ==
    \A p \in Pid :
        /\ Once(responses, ToEdit(p)) /\ Once(requests, Finish(p))
        /\ In(responses, ToEdit(p)) => p \in editing /\ ~In(requests, Finish(p))
        /\ In(requests, Finish(p)) => p \in editing

ReadyInv == Once(responses, Ready) /\ (In(responses, Ready) => waiting_for_remote = {Root})

Shown == stdout_pipes \cup stderr_pipes
\* What is read is shown or gathered until its end is taken, which comes behind its data.
PipeInv ==
    \A q \in Pipe :
        /\ In(requests, Read(q)) \/ q \in reading =>
             /\ q \in pipes
             /\ \/ q \in Shown \cup DOMAIN gathering_output
                \/ q \in ended /\ ~In(responses, {DataOf(q), ClosedOf(q)})
        /\ In(responses, {DataOf(q), ClosedOf(q)}) => q \in reading
        /\ In(responses, {ClosedOf(q)}) => q \in ended
        /\ Once(responses, {ClosedOf(q)}) /\ Before(responses, DataOf(q), ClosedOf(q))
        /\ q \in waiting_for_eof => q \in DOMAIN gathering_output
        /\ q \in DOMAIN finished_output => q \in ended /\ q \notin DOMAIN gathering_output
        /\ chunks[q] > 0 => q \in reading

\* The output that tells the directory is gathered, then finished.
CwdInv ==
    /\ \A r \in DOMAIN cwd_for_remote :
         cwd_for_remote[r] + 4 = next_id /\ cwd_for_remote[r] \in waiting_for_eof \cup DOMAIN finished_output
    /\ prompting \/ Root \in DOMAIN cwd_for_remote \/ next_id = 0
    /\ \A q \in Pipe : q + 4 = next_id =>
         /\ q \notin Shown
         /\ prompting => q \in ended /\ (chunks[q] > 0 => working_dir = {q})
         /\ ~prompting /\ chunks[q] > 0 =>
              \/ q \in DOMAIN gathering_output /\ (gathering_output[q] > 0 \/ In(responses, {DataOf(q)}))
              \/ q \in DOMAIN finished_output /\ finished_output[q] > 0

RunInv == IdInv /\ LineInv /\ CommandInv /\ EditInv /\ ReadyInv /\ PipeInv /\ CwdInv
SInv == SessionTypeOK /\ (prompting => Running) /\ BackendTypes /\ (Running => RunInv)

LEMMA Running_ == SInv /\ Running => RunInv
  BY DEF SInv

-----------------------------------------------------------------------------
(* What leaves each part of the invariant alone. *)

\* The queue `later` has no more of E than `queue` had.
Quieter(queue, later, E) == (In(later, E) => In(queue, E)) /\ (Once(queue, E) => Once(later, E))

LEMMA Quiet ==
    ASSUME NEW S, NEW queue \in Seq(S), NEW E
    PROVE  /\ Quieter(queue, queue, E)
           /\ queue # <<>> => Quieter(queue, Tail(queue), E)
           /\ \A m \in S : m \notin E => Quieter(queue, Append(queue, m), E)
           /\ \A more \in Seq(S) : ~In(more, E) => Quieter(queue, queue \o more, E)
<1>1. Quieter(queue, queue, E)
  BY DEF Quieter
<1>2. queue # <<>> => Quieter(queue, Tail(queue), E)
  BY InRest DEF Quieter
<1>3. ASSUME NEW m \in S, m \notin E PROVE Quieter(queue, Append(queue, m), E)
  BY <1>3, InAdded DEF Quieter
<1>4. ASSUME NEW more \in Seq(S), ~In(more, E) PROVE Quieter(queue, queue \o more, E)
  <2>1. Once(more, E)
    BY <1>4 DEF In, Once
  <2> QED
    BY <1>4, <2>1, InJoined DEF Quieter
<1> QED
  BY <1>1, <1>2, <1>3, <1>4

BeginsQuiet == \A p \in Pid : Quieter(requests, requests', Begin(p))
FinishesQuiet == \A p \in Pid : Quieter(requests, requests', Finish(p))
ReadsQuiet == \A q \in Pipe : Quieter(requests, requests', Read(q))
KnownStays == \A p \in Pid, c \in Command : Known(p, c)' <=> Known(p, c)

AnswersQuiet == \A p \in Pid : Quieter(responses, responses', Done(p))
EditsQuiet == \A p \in Pid : Quieter(responses, responses', ToEdit(p))
ReadyQuiet == Quieter(responses, responses', Ready)
OutputQuiet ==
    \A q \in Pipe :
        /\ Quieter(responses, responses', {DataOf(q), ClosedOf(q)})
        /\ Quieter(responses, responses', {ClosedOf(q)})
        /\ Before(responses, DataOf(q), ClosedOf(q)) => Before(responses', DataOf(q), ClosedOf(q))
DataStays == \A q \in Pipe : In(responses, {DataOf(q)}) => In(responses', {DataOf(q)})

LEMMA SameResponses ==
    ASSUME responses \in Seq(Message), responses' = responses
    PROVE  AnswersQuiet /\ EditsQuiet /\ ReadyQuiet /\ OutputQuiet /\ DataStays
  BY Quiet DEF AnswersQuiet, EditsQuiet, ReadyQuiet, OutputQuiet, DataStays

LEMMA TakenResponse ==
    ASSUME responses \in Seq(Message), responses # <<>>, responses' = Tail(responses)
    PROVE  /\ AnswersQuiet /\ EditsQuiet /\ ReadyQuiet /\ OutputQuiet
           /\ Head(responses).type # "Data" => DataStays
<1>1. AnswersQuiet /\ EditsQuiet /\ ReadyQuiet
  BY Quiet DEF AnswersQuiet, EditsQuiet, ReadyQuiet
<1>2. OutputQuiet
  BY Quiet, BeforeRest DEF OutputQuiet
<1>3. Head(responses).type # "Data" => DataStays
  BY InRest DEF DataStays, DataOf
<1> QED
  BY <1>1, <1>2, <1>3

LEMMA AddedResponse ==
    ASSUME responses \in Seq(Message), NEW m \in Message, responses' = Append(responses, m)
    PROVE  /\ m.type # "CommandDone" => AnswersQuiet
           /\ m.type # "EditRequest" => EditsQuiet
           /\ m.type # "RemoteReady" => ReadyQuiet
           /\ m.type \notin {"Data", "Closed"} => OutputQuiet
           /\ DataStays
<1>1. m.type # "CommandDone" => AnswersQuiet
  <2>1. m.type # "CommandDone" => \A p \in Pid : m \notin Done(p)
    BY DEF Done, CommandDone
  <2> QED
    BY <2>1, Quiet DEF AnswersQuiet
<1>2. m.type # "EditRequest" => EditsQuiet
  <2>1. m.type # "EditRequest" => \A p \in Pid : m \notin ToEdit(p)
    BY DEF ToEdit
  <2> QED
    BY <2>1, Quiet DEF EditsQuiet
<1>3. m.type # "RemoteReady" => ReadyQuiet
  BY Quiet DEF ReadyQuiet, Ready
<1>4. ASSUME m.type \notin {"Data", "Closed"}, NEW q \in Pipe
      PROVE  /\ Quieter(responses, responses', {DataOf(q), ClosedOf(q)})
             /\ Quieter(responses, responses', {ClosedOf(q)})
             /\ Before(responses, DataOf(q), ClosedOf(q)) => Before(responses', DataOf(q), ClosedOf(q))
  <2>1. m # DataOf(q) /\ m # ClosedOf(q) /\ DataOf(q) # ClosedOf(q)
    BY <1>4 DEF DataOf, ClosedOf
  <2>2. m \notin {DataOf(q), ClosedOf(q)} /\ m \notin {ClosedOf(q)}
    BY <2>1
  <2> QED
    BY <2>1, <2>2, Quiet, BeforeAdded
<1>5. DataStays
  BY InAdded DEF DataStays
<1> QED
  BY <1>1, <1>2, <1>3, <1>4, <1>5 DEF OutputQuiet

LEMMA SameRequests ==
    ASSUME requests \in Seq(SessionRequest), requests' = requests
    PROVE  BeginsQuiet /\ FinishesQuiet /\ ReadsQuiet /\ (UNCHANGED commands => KnownStays)
<1>1. BeginsQuiet /\ FinishesQuiet /\ ReadsQuiet
  BY Quiet DEF BeginsQuiet, FinishesQuiet, ReadsQuiet
<1>2. UNCHANGED commands => KnownStays
  BY DEF KnownStays, Known
<1> QED
  BY <1>1, <1>2

LEMMA TakenRequest ==
    ASSUME requests \in Seq(SessionRequest), requests # <<>>, requests' = Tail(requests)
    PROVE  /\ BeginsQuiet /\ FinishesQuiet /\ ReadsQuiet
           /\ Head(requests).type # "BeginCommand" /\ UNCHANGED commands => KnownStays
<1>1. BeginsQuiet /\ FinishesQuiet /\ ReadsQuiet
  BY Quiet DEF BeginsQuiet, FinishesQuiet, ReadsQuiet
<1>2. ASSUME Head(requests).type # "BeginCommand", UNCHANGED commands, NEW p \in Pid, NEW c \in Command
      PROVE  Known(p, c)' <=> Known(p, c)
  <2> DEFINE begin == [type |-> "BeginCommand", pid |-> p, command |-> c]
  <2>1. Head(requests) \notin {begin}
    BY <1>2
  <2>2. In(Tail(requests), {begin}) <=> In(requests, {begin})
    BY <2>1, InRest
  <2> QED
    BY <1>2, <2>2 DEF Known
<1> QED
  BY <1>1, <1>2 DEF KnownStays

LEMMA AddedRequests ==
    ASSUME requests \in Seq(SessionRequest), NEW more \in Seq(SessionRequest), requests' = requests \o more
    PROVE  /\ (\A i \in DOMAIN more : more[i].type # "BeginCommand") =>
                  BeginsQuiet /\ (UNCHANGED commands => KnownStays)
           /\ (\A i \in DOMAIN more : more[i].type # "FinishEdit") => FinishesQuiet
           /\ (\A i \in DOMAIN more : more[i].type # "BeginRead") => ReadsQuiet
<1>1. ASSUME \A i \in DOMAIN more : more[i].type # "BeginCommand" PROVE BeginsQuiet
  <2>1. \A p \in Pid : ~In(more, Begin(p))
    BY <1>1 DEF In, Begin
  <2> QED
    BY <2>1, Quiet DEF BeginsQuiet
<1>2. ASSUME \A i \in DOMAIN more : more[i].type # "FinishEdit" PROVE FinishesQuiet
  <2>1. \A p \in Pid : ~In(more, Finish(p))
    BY <1>2 DEF In, Finish
  <2> QED
    BY <2>1, Quiet DEF FinishesQuiet
<1>3. ASSUME \A i \in DOMAIN more : more[i].type # "BeginRead" PROVE ReadsQuiet
  <2>1. \A q \in Pipe : ~In(more, Read(q))
    BY <1>3 DEF In, Read, BeginRead
  <2> QED
    BY <2>1, Quiet DEF ReadsQuiet
<1>4. ASSUME \A i \in DOMAIN more : more[i].type # "BeginCommand", UNCHANGED commands,
             NEW p \in Pid, NEW c \in Command
      PROVE  Known(p, c)' <=> Known(p, c)
  <2> DEFINE begin == [type |-> "BeginCommand", pid |-> p, command |-> c]
  <2>1. ~In(more, {begin})
    BY <1>4 DEF In
  <2>2. In(requests \o more, {begin}) <=> In(requests, {begin})
    BY <2>1, InJoined
  <2> QED
    BY <1>4, <2>2 DEF Known
<1> QED
  BY <1>1, <1>2, <1>3, <1>4 DEF KnownStays

LEMMA IdKept ==
    ASSUME IdInv, UNCHANGED <<next_id, pipes, lines>>, KnownStays
    PROVE  IdInv'
  BY DEF IdInv, KnownStays

LEMMA LineKept ==
    ASSUME LineInv, UNCHANGED next_id, KnownStays, answered \subseteq answered'
    PROVE  LineInv'
<1>1. next_id' # 0 =>
        \E p \in Pid, c \in Command : p + 1 = next_id' /\ Known(p, c)' /\ c.kind = "GetDirectory"
  BY DEF LineInv, KnownStays
<1>2. ASSUME NEW p \in Pid, NEW c \in Command, Known(p, c)', c.kind = "GetDirectory",
             NEW o \in Pid, NEW other \in Command, Known(o, other)'
      PROVE  /\ c.stdout + 3 = p
             /\ o < p => o \in answered' \cup c.needs
             /\ o # p => c.stdout \notin {other.stdout, other.stderr}
  BY <1>2 DEF LineInv, KnownStays
<1> QED
  BY <1>1, <1>2 DEF LineInv

LEMMA CommandKept ==
    ASSUME CommandInv, BeginsQuiet, AnswersQuiet,
           UNCHANGED <<commands, answered, waiting_for, waiting_for_eof, waiting_for_remote, prompting>>
    PROVE  CommandInv'
  BY DEF CommandInv, Quieter, BeginsQuiet, AnswersQuiet

LEMMA EditKept ==
    ASSUME EditInv, UNCHANGED editing, FinishesQuiet, EditsQuiet
    PROVE  EditInv'
  BY DEF EditInv, Quieter, FinishesQuiet, EditsQuiet

LEMMA ReadyKept ==
    ASSUME ReadyInv, UNCHANGED waiting_for_remote, ReadyQuiet
    PROVE  ReadyInv'
  BY DEF ReadyInv, Quieter, ReadyQuiet

LEMMA PipeKept ==
    ASSUME PipeInv, ReadsQuiet, OutputQuiet,
           UNCHANGED <<reading, ended, chunks, pipes, stdout_pipes, stderr_pipes,
                       gathering_output, finished_output, waiting_for_eof>>
    PROVE  PipeInv'
  BY DEF PipeInv, Quieter, Shown, ReadsQuiet, OutputQuiet

LEMMA CwdKept ==
    ASSUME CwdInv, DataStays,
           UNCHANGED <<next_id, cwd_for_remote, waiting_for_eof, finished_output, gathering_output,
                       stdout_pipes, stderr_pipes, prompting, ended, chunks, working_dir>>
    PROVE  CwdInv'
  BY DEF CwdInv, Shown, DataStays

LEMMA InRun ==
    ASSUME SInv, Running
    PROVE  /\ requests \in Seq(SessionRequest) /\ responses \in Seq(Message)
           /\ Pid \subseteq Nat /\ Pipe = Pid /\ BackendTypes
           /\ IdInv /\ LineInv /\ CommandInv /\ EditInv /\ ReadyInv /\ PipeInv /\ CwdInv
  BY SessionAssumption DEF SInv, RunInv, SessionTypeOK

\* Nothing in the tables changes.
LEMMA NothingNew ==
    ASSUME SInv, Running, BeginsQuiet, FinishesQuiet, ReadsQuiet, KnownStays,
           AnswersQuiet, EditsQuiet, ReadyQuiet, OutputQuiet, DataStays,
           UNCHANGED <<jobVars, outVars, next_id, pipes, outputVars, waitVars, prompting, lines>>
    PROVE  RunInv'
<1>1. /\ UNCHANGED <<commands, answered, editing, reading, ended, chunks, next_id, pipes, prompting, lines>>
      /\ UNCHANGED <<gathering_output, finished_output, cwd_for_remote, stdout_pipes, stderr_pipes, working_dir>>
      /\ UNCHANGED <<waiting_for_remote, waiting_for, waiting_for_eof>>
  BY DEF jobVars, outVars, outputVars, waitVars
<1> QED
  BY <1>1, InRun, IdKept, LineKept, CommandKept, EditKept, ReadyKept, PipeKept, CwdKept DEF RunInv

-----------------------------------------------------------------------------
(* The steps of the backend. *)

LEMMA CtrlCStep == ASSUME SInv, CtrlC PROVE RunInv'
<1>1. Running /\ UNCHANGED <<jobVars, outVars, requests, next_id, pipes, outputVars, waitVars, prompting, lines>>
  BY DEF CtrlC, endpointVars
<1>2. [type |-> "CtrlC"] \in Message /\ responses' = Append(responses, [type |-> "CtrlC"])
  BY DEF CtrlC, Respond, Message
<1>3. UNCHANGED commands
  BY <1>1 DEF jobVars
<1>4. AnswersQuiet /\ EditsQuiet /\ ReadyQuiet /\ OutputQuiet /\ DataStays
  BY <1>1, <1>2, InRun, AddedResponse
<1> QED
  BY <1>1, <1>3, <1>4, InRun, SameRequests, NothingNew

LEMMA TakeCommandStep ==
    ASSUME SInv, Running, requests # <<>>, requests' = Tail(requests), UNCHANGED frontendVars,
           Head(requests).type = "BeginCommand", ReceiveCommand(Head(requests).pid, Head(requests).command)
    PROVE  RunInv'
<1> DEFINE r == Head(requests)
<1>1. /\ requests \in Seq(SessionRequest) /\ responses \in Seq(Message) /\ BackendTypes
      /\ IdInv /\ LineInv /\ CommandInv /\ EditInv /\ ReadyInv /\ PipeInv /\ CwdInv
  BY InRun
<1>2. /\ UNCHANGED <<answered, editing, reading, ended, chunks, responses, next_id, pipes, prompting, lines>>
      /\ UNCHANGED <<gathering_output, finished_output, cwd_for_remote, stdout_pipes, stderr_pipes, working_dir>>
      /\ UNCHANGED <<waiting_for_remote, waiting_for, waiting_for_eof>>
  BY DEF ReceiveCommand, outVars, frontendVars, endpointVars, outputVars, waitVars, loopVars
<1>3. AnswersQuiet /\ EditsQuiet /\ ReadyQuiet /\ OutputQuiet /\ DataStays
  BY <1>1, <1>2, SameResponses
<1>4. BeginsQuiet /\ FinishesQuiet /\ ReadsQuiet
  BY <1>1, TakenRequest
<1>5. r \in SessionRequest /\ r.type = "BeginCommand" /\ r.pid \in Pid /\ r.command \in Command
      /\ r = [type |-> "BeginCommand", pid |-> r.pid, command |-> r.command]
  <2>1. r \in SessionRequest /\ r.type = "BeginCommand"
    BY <1>1, Rest
  <2> QED
    BY <2>1 DEF SessionRequest, Command
<1>6. PICK p \in Pid, c \in Command : p = r.pid /\ c = r.command
  BY <1>5
<1>7. p \notin DOMAIN commands /\ commands' = [o \in DOMAIN commands \cup {p} |-> IF o = p THEN c ELSE commands[o]]
  BY <1>6 DEF ReceiveCommand
<1>8. r = [type |-> "BeginCommand", pid |-> p, command |-> c] /\ r \in Begin(p)
  BY <1>5, <1>6 DEF Begin
<1> HIDE DEF r
<1>9. Head(requests) = r
  BY DEF r
<1>10. KnownStays
  <2> SUFFICES ASSUME NEW o \in Pid, NEW d \in Command PROVE Known(o, d)' <=> Known(o, d)
    BY DEF KnownStays
  <2> DEFINE begin == [type |-> "BeginCommand", pid |-> o, command |-> d]
  <2>1. CASE o = p
    <3>1. Known(o, d)' <=> d = c \/ In(Tail(requests), {begin})
      BY <1>7, <2>1 DEF Known
    <3>2. In(Tail(requests), {begin}) => In(Tail(requests), Begin(p))
      <4>1. \A m \in SessionRequest : m = begin => m \in Begin(p)
        BY <2>1 DEF Begin
      <4>2. Tail(requests) \in Seq(SessionRequest)
        BY <1>1, Rest
      <4> QED
        BY <4>1, <4>2 DEF In
    <3>3. ~In(Tail(requests), Begin(p))
      BY <1>1, <1>8, <1>9, InRest DEF CommandInv
    <3>4. Known(o, d) <=> In(requests, {begin})
      BY <1>7, <2>1 DEF Known
    <3>5. In(requests, {begin}) <=> In(Tail(requests), {begin}) \/ r \in {begin}
      BY <1>1, <1>9, InRest
    <3>6. r = begin <=> d = c
      BY <1>8, <2>1
    <3> QED
      BY <3>1, <3>2, <3>3, <3>4, <3>5, <3>6
  <2>2. CASE o # p
    <3>1. r \notin {begin}
      BY <1>8, <2>2
    <3>2. In(Tail(requests), {begin}) <=> In(requests, {begin})
      BY <1>1, <1>9, <3>1, InRest
    <3> QED
      BY <1>7, <2>2, <3>2 DEF Known
  <2> QED
    BY <2>1, <2>2
<1>11. CommandInv'
  <2>1. ASSUME NEW o \in Pid
        PROVE  /\ Once(requests', Begin(o)) /\ Once(responses', Done(o))
               /\ In(requests', Begin(o)) => o \notin DOMAIN commands' /\ o \in waiting_for
               /\ o \in DOMAIN commands' \ answered => o \in waiting_for
               /\ In(responses', Done(o)) => o \in answered \cap waiting_for
    <3>1. ~In(requests', Begin(p)) /\ In(requests, Begin(p))
      BY <1>1, <1>8, <1>9, InRest DEF CommandInv
    <3>2. DOMAIN commands' = DOMAIN commands \cup {p}
      BY <1>7
    <3> QED
      BY <1>1, <1>3, <1>4, <3>1, <3>2 DEF CommandInv, BeginsQuiet, AnswersQuiet, Quieter
  <2> QED
    BY <1>1, <1>2, <2>1 DEF CommandInv
<1> QED
  BY <1>1, <1>2, <1>3, <1>4, <1>10, <1>11, IdKept, LineKept, EditKept, ReadyKept, PipeKept, CwdKept DEF RunInv

\* Neither a file nor a cancel shows in what the frontend can see.
LEMMA TakeSilentStep ==
    ASSUME SInv, Running, requests # <<>>, requests' = Tail(requests), UNCHANGED frontendVars,
           Head(requests).type # "BeginCommand", UNCHANGED <<jobVars, outVars, responses>>
    PROVE  RunInv'
<1>1. /\ UNCHANGED <<next_id, pipes, outputVars, waitVars, prompting, lines>>
      /\ UNCHANGED <<responses, commands>>
  BY DEF frontendVars, endpointVars, loopVars, jobVars
<1>2. AnswersQuiet /\ EditsQuiet /\ ReadyQuiet /\ OutputQuiet /\ DataStays
  BY <1>1, InRun, SameResponses
<1>3. BeginsQuiet /\ FinishesQuiet /\ ReadsQuiet /\ KnownStays
  BY <1>1, InRun, TakenRequest
<1> QED
  BY <1>1, <1>2, <1>3, NothingNew

LEMMA TakeReadStep ==
    ASSUME SInv, Running, requests # <<>>, requests' = Tail(requests), UNCHANGED frontendVars,
           Head(requests).type = "BeginRead", ReceiveRead(Head(requests).pipe)
    PROVE  RunInv'
<1>1. /\ requests \in Seq(SessionRequest) /\ responses \in Seq(Message) /\ BackendTypes
      /\ IdInv /\ LineInv /\ CommandInv /\ EditInv /\ ReadyInv /\ PipeInv /\ CwdInv
  BY InRun
<1>2. /\ UNCHANGED <<commands, answered, editing, ended, chunks, responses, next_id, pipes, prompting, lines>>
      /\ UNCHANGED <<gathering_output, finished_output, cwd_for_remote, stdout_pipes, stderr_pipes, working_dir>>
      /\ UNCHANGED <<waiting_for_remote, waiting_for, waiting_for_eof>>
  BY DEF ReceiveRead, jobVars, frontendVars, endpointVars, outputVars, waitVars, loopVars
<1>3. AnswersQuiet /\ EditsQuiet /\ ReadyQuiet /\ OutputQuiet /\ DataStays
  BY <1>1, <1>2, SameResponses
<1>4. BeginsQuiet /\ FinishesQuiet /\ ReadsQuiet /\ KnownStays
  BY <1>1, <1>2, TakenRequest
<1>5. PICK q \in Pipe : Head(requests) = BeginRead(q)
  <2>1. Head(requests) \in SessionRequest
    BY <1>1, Rest
  <2> QED
    BY <2>1 DEF SessionRequest, BeginRead
<1>6. In(requests, Read(q)) /\ reading' = reading \cup {q}
  <2>1. Head(requests) \in Read(q)
    BY <1>5 DEF Read
  <2> QED
    BY <1>1, <1>5, <2>1, InRest DEF ReceiveRead, BeginRead
<1>7. PipeInv'
  BY <1>1, <1>2, <1>3, <1>4, <1>6 DEF PipeInv, Quieter, Shown, ReadsQuiet, OutputQuiet
<1> QED
  BY <1>1, <1>2, <1>3, <1>4, <1>7, IdKept, LineKept, CommandKept, EditKept, ReadyKept, CwdKept DEF RunInv

\* A command p whose answer is given: p was not answered before.
LEMMA AnswerAdded ==
    ASSUME SInv, Running, NEW p \in Pid, p \in DOMAIN commands \ answered,
           responses' = Append(responses, CommandDone(p)), answered' = answered \cup {p},
           BeginsQuiet, UNCHANGED <<commands, waiting_for, waiting_for_eof, waiting_for_remote, prompting>>
    PROVE  CommandInv' /\ CommandDone(p) \in Message
<1>1. responses \in Seq(Message) /\ CommandInv
  BY InRun
<1>2. CommandDone(p) \in Message /\ \A o \in Pid : CommandDone(p) \in Done(o) <=> o = p
  BY DEF CommandDone, Message, Done
<1>3. \A o \in Pid :
        /\ In(responses', Done(o)) <=> In(responses, Done(o)) \/ o = p
        /\ Once(responses, Done(o)) /\ ~(o = p /\ In(responses, Done(o))) => Once(responses', Done(o))
  BY <1>1, <1>2, InAdded
<1>4. ~In(responses, Done(p)) /\ p \in waiting_for
  BY <1>1 DEF CommandInv
<1> QED
  BY <1>1, <1>2, <1>3, <1>4 DEF CommandInv, BeginsQuiet, Quieter

LEMMA TakeEditStep ==
    ASSUME SInv, Running, requests # <<>>, requests' = Tail(requests), UNCHANGED frontendVars,
           Head(requests).type = "FinishEdit", ReceiveEdit(Head(requests).pid)
    PROVE  RunInv'
<1>1. /\ requests \in Seq(SessionRequest) /\ responses \in Seq(Message) /\ BackendTypes
      /\ IdInv /\ LineInv /\ CommandInv /\ EditInv /\ ReadyInv /\ PipeInv /\ CwdInv
  BY InRun
<1>2. /\ UNCHANGED <<commands, reading, ended, chunks, next_id, pipes, prompting, lines>>
      /\ UNCHANGED <<gathering_output, finished_output, cwd_for_remote, stdout_pipes, stderr_pipes, working_dir>>
      /\ UNCHANGED <<waiting_for_remote, waiting_for, waiting_for_eof>>
  BY DEF ReceiveEdit, outVars, frontendVars, endpointVars, outputVars, waitVars, loopVars
<1>3. BeginsQuiet /\ FinishesQuiet /\ ReadsQuiet /\ KnownStays
  BY <1>1, <1>2, TakenRequest
<1>4. PICK p \in Pid : Head(requests) = [type |-> "FinishEdit", pid |-> p]
  <2>1. Head(requests) \in SessionRequest
    BY <1>1, Rest
  <2> QED
    BY <2>1 DEF SessionRequest
<1>5. p \in editing /\ editing' = editing \ {p} /\ p \in DOMAIN commands \ answered
  BY <1>1, <1>4 DEF ReceiveEdit, BackendTypes
<1>6. \/ answered' = answered \cup {p} /\ responses' = Append(responses, CommandDone(p))
      \/ answered' = answered /\ responses' = responses
  BY <1>4 DEF ReceiveEdit, Respond
<1>7. /\ CommandInv' /\ answered \subseteq answered'
      /\ EditsQuiet /\ ReadyQuiet /\ OutputQuiet /\ DataStays
  <2>1. CASE answered' = answered /\ responses' = responses
    BY <1>1, <1>2, <1>3, <2>1, SameResponses, CommandKept
  <2>2. CASE answered' = answered \cup {p} /\ responses' = Append(responses, CommandDone(p))
    <3>1. CommandInv' /\ CommandDone(p) \in Message
      BY <1>2, <1>3, <1>5, <2>2, AnswerAdded
    <3>2. CommandDone(p).type = "CommandDone"
      BY DEF CommandDone
    <3> QED
      BY <1>1, <2>2, <3>1, <3>2, AddedResponse
  <2> QED
    BY <1>6, <2>1, <2>2
<1>8. EditInv'
  <2>1. Head(requests) \in Finish(p)
    BY <1>4 DEF Finish
  <2>2. In(requests, Finish(p)) /\ ~In(requests', Finish(p))
    BY <1>1, <2>1, InRest DEF EditInv
  <2> QED
    BY <1>1, <1>3, <1>5, <1>7, <2>2 DEF EditInv, Quieter, FinishesQuiet, EditsQuiet
<1> QED
  BY <1>1, <1>2, <1>3, <1>7, <1>8, IdKept, LineKept, ReadyKept, PipeKept, CwdKept DEF RunInv

LEMMA TakeStep == ASSUME SInv, TakeRequest PROVE RunInv'
<1> DEFINE r == Head(requests)
<1>1. Running /\ requests # <<>> /\ requests' = Tail(requests) /\ UNCHANGED frontendVars /\ ReceiveRequest(r)
  BY DEF TakeRequest
<1>2. CASE r.type = "BeginCommand" /\ ReceiveCommand(r.pid, r.command)
  BY <1>1, <1>2, TakeCommandStep
<1>3. CASE r.type = "OpenOutputFile" /\ ReceiveFile
  BY <1>1, <1>3, TakeSilentStep DEF ReceiveFile
<1>4. CASE r.type = "BeginRead" /\ ReceiveRead(r.pipe)
  BY <1>1, <1>4, TakeReadStep
<1>5. CASE r.type = "CancelCommand" /\ ReceiveCancel(r.pid)
  BY <1>1, <1>5, TakeSilentStep DEF ReceiveCancel
<1>6. CASE r.type = "FinishEdit" /\ ReceiveEdit(r.pid)
  BY <1>1, <1>6, TakeEditStep
<1> QED
  BY <1>1, <1>2, <1>3, <1>4, <1>5, <1>6 DEF ReceiveRequest

LEMMA AnswerStep ==
    ASSUME SInv, Running, UNCHANGED <<requests, frontendVars>>, NEW p, p \in DOMAIN commands, Answer(p)
    PROVE  RunInv'
<1>1. /\ requests \in Seq(SessionRequest) /\ responses \in Seq(Message) /\ BackendTypes
      /\ IdInv /\ LineInv /\ CommandInv /\ EditInv /\ ReadyInv /\ PipeInv /\ CwdInv
  BY InRun
<1>2. /\ UNCHANGED <<requests, commands, editing, reading, ended, chunks, next_id, pipes, prompting, lines>>
      /\ UNCHANGED <<gathering_output, finished_output, cwd_for_remote, stdout_pipes, stderr_pipes, working_dir>>
      /\ UNCHANGED <<waiting_for_remote, waiting_for, waiting_for_eof>>
  BY DEF Answer, outVars, frontendVars, endpointVars, outputVars, waitVars, loopVars
<1>3. BeginsQuiet /\ FinishesQuiet /\ ReadsQuiet /\ KnownStays
  BY <1>1, <1>2, SameRequests
<1>4. /\ p \in Pid /\ p \in DOMAIN commands \ answered
      /\ answered' = answered \cup {p} /\ responses' = Append(responses, CommandDone(p))
  BY <1>1 DEF Answer, InProgress, Respond, BackendTypes
<1>5. CommandInv' /\ CommandDone(p) \in Message
  BY <1>2, <1>3, <1>4, AnswerAdded
<1>6. CommandDone(p).type = "CommandDone"
  BY DEF CommandDone
<1>7. EditsQuiet /\ ReadyQuiet /\ OutputQuiet /\ DataStays
  BY <1>1, <1>4, <1>5, <1>6, AddedResponse
<1>8. answered \subseteq answered'
  BY <1>4
<1> QED
  BY <1>1, <1>2, <1>3, <1>5, <1>7, <1>8, IdKept, LineKept, EditKept, ReadyKept, PipeKept, CwdKept DEF RunInv

LEMMA AskStep ==
    ASSUME SInv, Running, UNCHANGED <<requests, frontendVars>>, NEW p, p \in DOMAIN commands, AskForEdit(p)
    PROVE  RunInv'
<1>1. /\ requests \in Seq(SessionRequest) /\ responses \in Seq(Message) /\ BackendTypes
      /\ IdInv /\ LineInv /\ CommandInv /\ EditInv /\ ReadyInv /\ PipeInv /\ CwdInv
  BY InRun
<1>2. /\ UNCHANGED <<requests, commands, answered, reading, ended, chunks, next_id, pipes, prompting, lines>>
      /\ UNCHANGED <<gathering_output, finished_output, cwd_for_remote, stdout_pipes, stderr_pipes, working_dir>>
      /\ UNCHANGED <<waiting_for_remote, waiting_for, waiting_for_eof>>
  BY DEF AskForEdit, outVars, frontendVars, endpointVars, outputVars, waitVars, loopVars
<1>3. BeginsQuiet /\ FinishesQuiet /\ ReadsQuiet /\ KnownStays
  BY <1>1, <1>2, SameRequests
<1> DEFINE m == [type |-> "EditRequest", pid |-> p]
<1>4. /\ p \in Pid /\ p \notin editing
      /\ editing' = editing \cup {p} /\ responses' = Append(responses, m)
  BY <1>1 DEF AskForEdit, Respond, BackendTypes
<1>5. m \in Message /\ m.type = "EditRequest" /\ \A o \in Pid : m \in ToEdit(o) <=> o = p
  BY <1>4 DEF Message, ToEdit
<1> HIDE DEF m
<1>6. AnswersQuiet /\ ReadyQuiet /\ OutputQuiet /\ DataStays
  BY <1>1, <1>4, <1>5, AddedResponse
<1>7. \A o \in Pid :
        /\ In(responses', ToEdit(o)) <=> In(responses, ToEdit(o)) \/ o = p
        /\ Once(responses, ToEdit(o)) /\ ~(o = p /\ In(responses, ToEdit(o))) => Once(responses', ToEdit(o))
  BY <1>1, <1>4, <1>5, InAdded
<1>8. ~In(responses, ToEdit(p)) /\ ~In(requests, Finish(p))
  BY <1>1, <1>4 DEF EditInv
<1>9. EditInv'
  BY <1>1, <1>2, <1>4, <1>7, <1>8 DEF EditInv
<1> QED
  BY <1>1, <1>2, <1>3, <1>6, <1>9, IdKept, LineKept, CommandKept, ReadyKept, PipeKept, CwdKept DEF RunInv

LEMMA OutputStep ==
    ASSUME SInv, Running, UNCHANGED <<requests, frontendVars>>, NEW q, q \in reading, Output(q)
    PROVE  RunInv'
<1>1. /\ requests \in Seq(SessionRequest) /\ responses \in Seq(Message) /\ BackendTypes
      /\ IdInv /\ LineInv /\ CommandInv /\ EditInv /\ ReadyInv /\ PipeInv /\ CwdInv
  BY InRun
<1>2. /\ UNCHANGED <<requests, commands, answered, editing, reading, ended, next_id, pipes, prompting, lines>>
      /\ UNCHANGED <<gathering_output, finished_output, cwd_for_remote, stdout_pipes, stderr_pipes, working_dir>>
      /\ UNCHANGED <<waiting_for_remote, waiting_for, waiting_for_eof>>
  BY DEF Output, jobVars, frontendVars, endpointVars, outputVars, waitVars, loopVars
<1>3. BeginsQuiet /\ FinishesQuiet /\ ReadsQuiet /\ KnownStays
  BY <1>1, <1>2, SameRequests
<1> DEFINE m == [type |-> "Data", pipe |-> q]
<1>4. /\ q \in Pipe /\ q \in reading /\ q \notin ended /\ chunks \in [Pipe -> Nat]
      /\ chunks' = [chunks EXCEPT ![q] = @ + 1] /\ responses' = Append(responses, m)
  BY <1>1 DEF Output, Open, Respond, BackendTypes
<1>5. m \in Message /\ m.type = "Data" /\ \A o \in Pipe : m # ClosedOf(o) /\ (m = DataOf(o) <=> o = q)
  BY <1>4 DEF Message, ClosedOf, DataOf
<1> HIDE DEF m
<1>6. AnswersQuiet /\ EditsQuiet /\ ReadyQuiet /\ DataStays
  BY <1>1, <1>4, <1>5, AddedResponse
<1>7. ~In(responses, {ClosedOf(q)})
  BY <1>1, <1>4 DEF PipeInv
<1>8. ASSUME NEW o \in Pipe
      PROVE  /\ In(responses', {DataOf(o), ClosedOf(o)}) <=> In(responses, {DataOf(o), ClosedOf(o)}) \/ o = q
             /\ In(responses', {ClosedOf(o)}) <=> In(responses, {ClosedOf(o)})
             /\ Once(responses, {ClosedOf(o)}) => Once(responses', {ClosedOf(o)})
             /\ Before(responses, DataOf(o), ClosedOf(o)) => Before(responses', DataOf(o), ClosedOf(o))
             /\ In(responses', {DataOf(o)}) <=> In(responses, {DataOf(o)}) \/ o = q
  <2>1. m \notin {ClosedOf(o)} /\ (m \in {DataOf(o), ClosedOf(o)} <=> o = q) /\ (m \in {DataOf(o)} <=> o = q)
    BY <1>5
  <2>2. DataOf(o) # ClosedOf(o) /\ (m = DataOf(o) => ~In(responses, {ClosedOf(o)}))
    BY <1>5, <1>7 DEF DataOf, ClosedOf
  <2>3. Before(responses, DataOf(o), ClosedOf(o)) => Before(responses', DataOf(o), ClosedOf(o))
    BY <1>1, <1>4, <1>5, <2>2, BeforeAdded
  <2> QED
    BY <1>1, <1>4, <1>5, <2>1, <2>3, InAdded
<1>9. \A o \in Pipe : chunks'[o] > 0 <=> chunks[o] > 0 \/ o = q
  BY <1>4
<1>10. PipeInv'
  <2>1. ASSUME NEW o \in Pipe
        PROVE  /\ In(requests', Read(o)) \/ o \in reading' =>
                    /\ o \in pipes'
                    /\ \/ o \in Shown' \cup DOMAIN gathering_output'
                       \/ o \in ended' /\ ~In(responses', {DataOf(o), ClosedOf(o)})
               /\ In(responses', {DataOf(o), ClosedOf(o)}) => o \in reading'
               /\ In(responses', {ClosedOf(o)}) => o \in ended'
               /\ Once(responses', {ClosedOf(o)}) /\ Before(responses', DataOf(o), ClosedOf(o))
    BY <1>1, <1>2, <1>4, <1>8 DEF PipeInv, Shown
  <2>2. ASSUME NEW o \in Pipe
        PROVE  /\ o \in waiting_for_eof' => o \in DOMAIN gathering_output'
               /\ o \in DOMAIN finished_output' => o \in ended' /\ o \notin DOMAIN gathering_output'
               /\ chunks'[o] > 0 => o \in reading'
    BY <1>1, <1>2, <1>4, <1>9 DEF PipeInv
  <2> QED
    BY <2>1, <2>2 DEF PipeInv
<1>11. CwdInv'
  <2>1. ASSUME NEW o \in Pipe, o + 4 = next_id
        PROVE  /\ prompting => o # q
               /\ o = q => q \in DOMAIN gathering_output
    <3>1. o \notin Shown /\ (prompting => o \in ended)
      BY <1>1, <2>1 DEF CwdInv
    <3>2. q \in Shown \cup DOMAIN gathering_output
      BY <1>1, <1>4 DEF PipeInv
    <3> QED
      BY <1>4, <3>1, <3>2
  <2>2. ASSUME NEW o \in Pipe, o + 4 = next_id
        PROVE  /\ o \notin Shown'
               /\ prompting' => o \in ended' /\ (chunks'[o] > 0 => working_dir' = {o})
               /\ ~prompting' /\ chunks'[o] > 0 =>
                    \/ o \in DOMAIN gathering_output' /\ (gathering_output'[o] > 0 \/ In(responses', {DataOf(o)}))
                    \/ o \in DOMAIN finished_output' /\ finished_output'[o] > 0
    <3>1. o = q => In(responses', {DataOf(o)})
      BY <1>8
    <3>2. CASE o = q
      BY <1>1, <1>2, <2>1, <2>2, <3>1, <3>2 DEF CwdInv, Shown
    <3>3. CASE o # q
      BY <1>1, <1>2, <1>8, <1>9, <2>2, <3>3 DEF CwdInv, Shown
    <3> QED
      BY <3>2, <3>3
  <2> QED
    BY <1>1, <1>2, <2>2 DEF CwdInv
<1> QED
  BY <1>1, <1>2, <1>3, <1>6, <1>10, <1>11, IdKept, LineKept, CommandKept, EditKept, ReadyKept DEF RunInv

LEMMA EndStep ==
    ASSUME SInv, Running, UNCHANGED <<requests, frontendVars>>, NEW q, q \in reading, End(q)
    PROVE  RunInv'
<1>1. /\ requests \in Seq(SessionRequest) /\ responses \in Seq(Message) /\ BackendTypes
      /\ IdInv /\ LineInv /\ CommandInv /\ EditInv /\ ReadyInv /\ PipeInv /\ CwdInv
  BY InRun
<1>2. /\ UNCHANGED <<requests, commands, answered, editing, reading, chunks, next_id, pipes, prompting, lines>>
      /\ UNCHANGED <<gathering_output, finished_output, cwd_for_remote, stdout_pipes, stderr_pipes, working_dir>>
      /\ UNCHANGED <<waiting_for_remote, waiting_for, waiting_for_eof>>
  BY DEF End, jobVars, frontendVars, endpointVars, outputVars, waitVars, loopVars
<1>3. BeginsQuiet /\ FinishesQuiet /\ ReadsQuiet /\ KnownStays
  BY <1>1, <1>2, SameRequests
<1> DEFINE m == [type |-> "Closed", pipe |-> q]
<1>4. /\ q \in Pipe /\ q \in reading /\ q \notin ended
      /\ ended' = ended \cup {q} /\ responses' = Append(responses, m)
  BY <1>1 DEF End, Open, Respond, BackendTypes
<1>5. m \in Message /\ m.type = "Closed" /\ \A o \in Pipe : m # DataOf(o) /\ (m = ClosedOf(o) <=> o = q)
  BY <1>4 DEF Message, ClosedOf, DataOf
<1> HIDE DEF m
<1>6. AnswersQuiet /\ EditsQuiet /\ ReadyQuiet /\ DataStays
  BY <1>1, <1>4, <1>5, AddedResponse
<1>7. ~In(responses, {ClosedOf(q)})
  BY <1>1, <1>4 DEF PipeInv
<1>8. ASSUME NEW o \in Pipe
      PROVE  /\ In(responses', {DataOf(o), ClosedOf(o)}) <=> In(responses, {DataOf(o), ClosedOf(o)}) \/ o = q
             /\ In(responses', {ClosedOf(o)}) <=> In(responses, {ClosedOf(o)}) \/ o = q
             /\ Once(responses, {ClosedOf(o)}) => Once(responses', {ClosedOf(o)})
             /\ Before(responses, DataOf(o), ClosedOf(o)) => Before(responses', DataOf(o), ClosedOf(o))
  <2>1. (m \in {ClosedOf(o)} <=> o = q) /\ (m \in {DataOf(o), ClosedOf(o)} <=> o = q)
    BY <1>5
  <2>2. DataOf(o) # ClosedOf(o) /\ m # DataOf(o)
    BY <1>5 DEF DataOf, ClosedOf
  <2>3. Before(responses, DataOf(o), ClosedOf(o)) => Before(responses', DataOf(o), ClosedOf(o))
    BY <1>1, <1>4, <1>5, <2>2, BeforeAdded
  <2>4. o = q => ~In(responses, {ClosedOf(o)})
    BY <1>7
  <2> QED
    BY <1>1, <1>4, <1>5, <2>1, <2>3, <2>4, InAdded
<1>9. PipeInv'
  <2>1. ASSUME NEW o \in Pipe
        PROVE  /\ In(requests', Read(o)) \/ o \in reading' =>
                    /\ o \in pipes'
                    /\ \/ o \in Shown' \cup DOMAIN gathering_output'
                       \/ o \in ended' /\ ~In(responses', {DataOf(o), ClosedOf(o)})
               /\ In(responses', {DataOf(o), ClosedOf(o)}) => o \in reading'
               /\ In(responses', {ClosedOf(o)}) => o \in ended'
               /\ Once(responses', {ClosedOf(o)}) /\ Before(responses', DataOf(o), ClosedOf(o))
    BY <1>1, <1>2, <1>4, <1>8 DEF PipeInv, Shown
  <2>2. ASSUME NEW o \in Pipe
        PROVE  /\ o \in waiting_for_eof' => o \in DOMAIN gathering_output'
               /\ o \in DOMAIN finished_output' => o \in ended' /\ o \notin DOMAIN gathering_output'
               /\ chunks'[o] > 0 => o \in reading'
    BY <1>1, <1>2, <1>4 DEF PipeInv
  <2> QED
    BY <2>1, <2>2 DEF PipeInv
<1>10. CwdInv'
  BY <1>1, <1>2, <1>4, <1>6 DEF CwdInv, Shown, DataStays
<1> QED
  BY <1>1, <1>2, <1>3, <1>6, <1>9, <1>10, IdKept, LineKept, CommandKept, EditKept, ReadyKept DEF RunInv

LEMMA DieStep ==
    ASSUME SInv, Running, UNCHANGED <<requests, frontendVars>>, NEW p, DieOnSpawn(p)
    PROVE  RunInv'
<1>1. /\ UNCHANGED <<next_id, pipes, outputVars, waitVars, prompting, lines>>
      /\ UNCHANGED <<requests, responses, commands, jobVars, outVars>>
  BY DEF frontendVars, endpointVars, loopVars, jobVars, DieOnSpawn
<1> QED
  BY <1>1, InRun, SameResponses, SameRequests, NothingNew

LEMMA BackendStepKeeps == ASSUME SInv, BackendStep PROVE RunInv'
<1>1. Running /\ UNCHANGED <<requests, frontendVars>> /\ BackendSteps
  BY DEF BackendStep, ByItself
<1> QED
  BY <1>1, AnswerStep, AskStep, DieStep, OutputStep, EndStep DEF BackendSteps

-----------------------------------------------------------------------------
(* The steps of the loop with a message. *)

LEMMA Received ==
    ASSUME SInv, NEW type, Take(type)
    PROVE  /\ Running /\ ~prompting
           /\ responses \in Seq(Message) /\ responses # <<>> /\ responses' = Tail(responses)
           /\ Head(responses) \in Message /\ Head(responses).type = type
           /\ AnswersQuiet /\ EditsQuiet /\ ReadyQuiet /\ OutputQuiet /\ (type # "Data" => DataStays)
<1>1. Running /\ ~prompting /\ responses # <<>> /\ responses' = Tail(responses) /\ Head(responses).type = type
  BY DEF Take, Receiving
<1>2. responses \in Seq(Message) /\ Head(responses) \in Message
  BY <1>1, InRun, Rest
<1> QED
  BY <1>1, <1>2, TakenResponse

LEMMA Stops == ASSUME NEW why, Panic(why), why # "running" PROVE ~Running'
  BY DEF Panic, Running

LEMMA ReadyStep == ASSUME SInv, RemoteReady, Running' PROVE RunInv'
<1>1. /\ requests \in Seq(SessionRequest) /\ BackendTypes
      /\ IdInv /\ LineInv /\ CommandInv /\ EditInv /\ ReadyInv /\ PipeInv /\ CwdInv
  BY InRun, Received DEF RemoteReady
<1>2. /\ ~prompting /\ responses \in Seq(Message) /\ responses # <<>> /\ responses' = Tail(responses)
      /\ Head(responses) \in Message /\ Head(responses).type = "RemoteReady"
      /\ AnswersQuiet /\ EditsQuiet /\ ReadyQuiet /\ OutputQuiet /\ DataStays
  <2>1. Take("RemoteReady") /\ "RemoteReady" # "Data"
    BY DEF RemoteReady
  <2> QED
    BY <2>1, Received
<1>3. /\ waiting_for_remote' = {}
      /\ UNCHANGED <<requests, outputVars, waiting_for, waiting_for_eof>> /\ Handled
  BY Stops DEF RemoteReady
<1>4. /\ UNCHANGED <<requests, commands, answered, editing, reading, ended, chunks, next_id, pipes, prompting, lines>>
      /\ UNCHANGED <<gathering_output, finished_output, cwd_for_remote, stdout_pipes, stderr_pipes, working_dir>>
      /\ UNCHANGED <<waiting_for, waiting_for_eof>>
  BY <1>3 DEF Handled, jobVars, outVars, loopVars, outputVars
<1>5. BeginsQuiet /\ FinishesQuiet /\ ReadsQuiet /\ KnownStays
  BY <1>1, <1>4, SameRequests
<1>6. CommandInv'
  BY <1>1, <1>2, <1>3, <1>4, <1>5 DEF CommandInv, Quieter, BeginsQuiet, AnswersQuiet
<1>7. ReadyInv'
  <2>1. Head(responses) \in Ready
    BY <1>2 DEF Message, Ready
  <2> QED
    BY <1>1, <1>2, <2>1, InRest DEF ReadyInv
<1> QED
  BY <1>1, <1>2, <1>4, <1>5, <1>6, <1>7, IdKept, LineKept, EditKept, PipeKept, CwdKept DEF RunInv

LEMMA LessIsFinite == ASSUME NEW S, IsFiniteSet(S), NEW T, T \subseteq S PROVE IsFiniteSet(T)
<1>1. T \in SUBSET S
  OBVIOUS
<1> QED
  BY <1>1, FS_Subset

LEMMA DoneStep == ASSUME SInv, CommandIsDone, Running' PROVE RunInv'
<1>1. /\ requests \in Seq(SessionRequest) /\ BackendTypes
      /\ IdInv /\ LineInv /\ CommandInv /\ EditInv /\ ReadyInv /\ PipeInv /\ CwdInv
  BY InRun, Received DEF CommandIsDone
<1>2. /\ ~prompting /\ responses \in Seq(Message) /\ responses # <<>> /\ responses' = Tail(responses)
      /\ Head(responses) \in Message /\ Head(responses).type = "CommandDone"
      /\ AnswersQuiet /\ EditsQuiet /\ ReadyQuiet /\ OutputQuiet /\ DataStays
  <2>1. Take("CommandDone") /\ "CommandDone" # "Data"
    BY DEF CommandIsDone
  <2> QED
    BY <2>1, Received
<1>3. PICK p \in Pid : Head(responses) = CommandDone(p)
  BY <1>2 DEF Message, CommandDone
<1>4. /\ waiting_for' = waiting_for \ {p}
      /\ UNCHANGED <<requests, outputVars, waiting_for_remote, waiting_for_eof>> /\ Handled
  <2>1. Head(responses).pid = p
    BY <1>3 DEF CommandDone
  <2>2. ~Panic("not waited for")
    BY Stops
  <2> QED
    BY <2>1, <2>2 DEF CommandIsDone
<1>5. /\ UNCHANGED <<requests, commands, answered, editing, reading, ended, chunks, next_id, pipes, prompting, lines>>
      /\ UNCHANGED <<gathering_output, finished_output, cwd_for_remote, stdout_pipes, stderr_pipes, working_dir>>
      /\ UNCHANGED <<waiting_for_remote, waiting_for_eof>>
  BY <1>4 DEF Handled, jobVars, outVars, loopVars, outputVars
<1>6. BeginsQuiet /\ FinishesQuiet /\ ReadsQuiet /\ KnownStays
  BY <1>1, <1>5, SameRequests
<1>7. CommandInv'
  <2>1. Head(responses) \in Done(p)
    BY <1>3 DEF Done
  <2>2. p \in answered /\ p \in DOMAIN commands
    BY <1>1, <1>2, <2>1, InRest DEF CommandInv, BackendTypes
  <2>3. ~In(responses', Done(p))
    BY <1>1, <1>2, <2>1, InRest DEF CommandInv
  <2>4. ~In(requests, Begin(p))
    BY <1>1, <2>2 DEF CommandInv
  <2>5. IsFiniteSet(waiting_for')
    <3>1. IsFiniteSet(waiting_for)
      BY <1>1 DEF CommandInv
    <3>2. waiting_for' = waiting_for \ {p}
      BY <1>4
    <3>3. waiting_for' \subseteq waiting_for
      BY <3>2
    <3> QED
      BY <3>1, <3>3, LessIsFinite
  <2> QED
    BY <1>1, <1>2, <1>4, <1>5, <1>6, <2>2, <2>3, <2>4, <2>5 DEF CommandInv, Quieter, BeginsQuiet, AnswersQuiet
<1> QED
  BY <1>1, <1>2, <1>5, <1>6, <1>7, IdKept, LineKept, EditKept, ReadyKept, PipeKept, CwdKept DEF RunInv

LEMMA DataStep == ASSUME SInv, PipeData, Running' PROVE RunInv'
<1>1. /\ requests \in Seq(SessionRequest) /\ BackendTypes
      /\ IdInv /\ LineInv /\ CommandInv /\ EditInv /\ ReadyInv /\ PipeInv /\ CwdInv
  BY InRun, Received DEF PipeData
<1>2. /\ ~prompting /\ responses \in Seq(Message) /\ responses # <<>> /\ responses' = Tail(responses)
      /\ Head(responses) \in Message /\ Head(responses).type = "Data"
      /\ AnswersQuiet /\ EditsQuiet /\ ReadyQuiet /\ OutputQuiet
  BY Received DEF PipeData
<1>3. PICK q \in Pipe : Head(responses) = DataOf(q)
  BY <1>2 DEF Message, DataOf
<1>4. /\ gathering_output' = IF q \in DOMAIN gathering_output
                             THEN [gathering_output EXCEPT ![q] = @ + 1] ELSE gathering_output
      /\ UNCHANGED <<requests, finished_output, cwd_for_remote, stdout_pipes, stderr_pipes, working_dir, waitVars>>
      /\ Handled
  <2>1. Head(responses).pipe = q
    BY <1>3 DEF DataOf
  <2>2. ~Panic("unknown pipe") /\ ~Panic("bad pipe")
    BY Stops
  <2> QED
    BY <2>1, <2>2 DEF PipeData
<1>5. /\ UNCHANGED <<requests, commands, answered, editing, reading, ended, chunks, next_id, pipes, prompting, lines>>
      /\ UNCHANGED <<finished_output, cwd_for_remote, stdout_pipes, stderr_pipes, working_dir>>
      /\ UNCHANGED <<waiting_for_remote, waiting_for, waiting_for_eof>>
  BY <1>4 DEF Handled, jobVars, outVars, loopVars, waitVars
<1>6. BeginsQuiet /\ FinishesQuiet /\ ReadsQuiet /\ KnownStays
  BY <1>1, <1>5, SameRequests
<1>7. IsCount(gathering_output)
  BY DEF SInv, SessionTypeOK
<1>8. /\ DOMAIN gathering_output' = DOMAIN gathering_output
      /\ \A o \in Pipe : o # q => gathering_output'[o] = gathering_output[o]
      /\ q \in DOMAIN gathering_output => gathering_output'[q] > 0
  BY <1>4, <1>7 DEF IsCount
<1>9. PipeInv'
  BY <1>1, <1>2, <1>5, <1>6, <1>8 DEF PipeInv, Quieter, Shown, ReadsQuiet, OutputQuiet
<1>10. CwdInv'
  <2>1. ASSUME NEW o \in Pipe, o # q, In(responses, {DataOf(o)}) PROVE In(responses', {DataOf(o)})
    <3>1. Head(responses) \notin {DataOf(o)}
      BY <1>3, <2>1 DEF DataOf
    <3> QED
      BY <1>2, <2>1, <3>1, InRest
  <2>2. ASSUME q + 4 = next_id PROVE q \in DOMAIN gathering_output
    <3>1. Head(responses) \in {DataOf(q), ClosedOf(q)}
      BY <1>3
    <3>2. In(responses, {DataOf(q), ClosedOf(q)})
      BY <1>2, <3>1, InRest
    <3>3. q \in Shown \cup DOMAIN gathering_output
      BY <1>1, <3>2 DEF PipeInv
    <3>4. q \notin Shown
      BY <1>1, <2>2 DEF CwdInv
    <3> QED
      BY <3>3, <3>4
  <2>3. ASSUME NEW o \in Pipe, o + 4 = next_id
        PROVE  /\ o \notin Shown'
               /\ chunks'[o] > 0 =>
                    \/ o \in DOMAIN gathering_output' /\ (gathering_output'[o] > 0 \/ In(responses', {DataOf(o)}))
                    \/ o \in DOMAIN finished_output' /\ finished_output'[o] > 0
    <3>1. CASE o = q
      BY <1>1, <1>5, <1>8, <2>2, <2>3, <3>1 DEF CwdInv, Shown
    <3>2. CASE o # q
      BY <1>1, <1>2, <1>5, <1>8, <2>1, <2>3, <3>2 DEF CwdInv, Shown
    <3> QED
      BY <3>1, <3>2
  <2> QED
    BY <1>1, <1>2, <1>5, <2>3 DEF CwdInv
<1> QED
  BY <1>1, <1>2, <1>5, <1>6, <1>9, <1>10, IdKept, LineKept, CommandKept, EditKept, ReadyKept DEF RunInv

LEMMA ClosedStep == ASSUME SInv, PipeClosed, Running' PROVE RunInv'
<1>1. /\ requests \in Seq(SessionRequest) /\ BackendTypes
      /\ IdInv /\ LineInv /\ CommandInv /\ EditInv /\ ReadyInv /\ PipeInv /\ CwdInv
  BY InRun, Received DEF PipeClosed
<1>2. /\ ~prompting /\ responses \in Seq(Message) /\ responses # <<>> /\ responses' = Tail(responses)
      /\ Head(responses) \in Message /\ Head(responses).type = "Closed"
      /\ AnswersQuiet /\ EditsQuiet /\ ReadyQuiet /\ OutputQuiet /\ DataStays
  <2>1. Take("Closed") /\ "Closed" # "Data"
    BY DEF PipeClosed
  <2> QED
    BY <2>1, Received
<1>3. PICK q \in Pipe : Head(responses) = ClosedOf(q)
  BY <1>2 DEF Message, ClosedOf
<1>4. /\ waiting_for_eof' = waiting_for_eof \ {q}
      /\ IF q \in DOMAIN gathering_output
         THEN /\ finished_output' = Put(finished_output, q, gathering_output[q])
              /\ gathering_output' = Remove(gathering_output, q)
         ELSE UNCHANGED <<finished_output, gathering_output>>
      /\ UNCHANGED <<requests, cwd_for_remote, stdout_pipes, stderr_pipes, working_dir,
                     waiting_for_remote, waiting_for>>
      /\ Handled
  <2>1. Head(responses).pipe = q
    BY <1>3 DEF ClosedOf
  <2>2. ~Panic("unknown pipe")
    BY Stops
  <2> QED
    BY <2>1, <2>2 DEF PipeClosed
<1>5. /\ UNCHANGED <<requests, commands, answered, editing, reading, ended, chunks, next_id, pipes, prompting, lines>>
      /\ UNCHANGED <<cwd_for_remote, stdout_pipes, stderr_pipes, working_dir>>
      /\ UNCHANGED <<waiting_for_remote, waiting_for>>
  BY <1>4 DEF Handled, jobVars, outVars, loopVars
<1>6. BeginsQuiet /\ FinishesQuiet /\ ReadsQuiet /\ KnownStays
  BY <1>1, <1>5, SameRequests
<1>7. /\ DOMAIN gathering_output' = DOMAIN gathering_output \ {q}
      /\ \A o \in DOMAIN gathering_output' : gathering_output'[o] = gathering_output[o]
      /\ DOMAIN finished_output' =
             DOMAIN finished_output \cup (IF q \in DOMAIN gathering_output THEN {q} ELSE {})
      /\ \A o \in DOMAIN finished_output : o # q => finished_output'[o] = finished_output[o]
      /\ q \in DOMAIN gathering_output => finished_output'[q] = gathering_output[q]
      /\ q \notin DOMAIN gathering_output => finished_output' = finished_output
  BY <1>4 DEF Put, Remove
<1>8. q \in ended /\ ~In(responses, {DataOf(q)}) /\ ~In(responses', {DataOf(q), ClosedOf(q)})
  <2>1. Head(responses) \in {ClosedOf(q)} /\ Head(responses) = ClosedOf(q)
    BY <1>3
  <2>2. q \in ended /\ ~In(responses', {ClosedOf(q)})
    BY <1>1, <1>2, <2>1, InRest DEF PipeInv
  <2>3. ~In(responses, {DataOf(q)})
    BY <1>1, <1>2, <2>1, BeforeRest DEF PipeInv
  <2>4. ~In(responses', {DataOf(q)})
    BY <1>2, <2>3, InRest
  <2> QED
    BY <2>2, <2>3, <2>4 DEF In
<1>9. PipeInv'
  <2>1. ASSUME NEW o \in Pipe
        PROVE  /\ In(requests', Read(o)) \/ o \in reading' =>
                    /\ o \in pipes'
                    /\ \/ o \in Shown' \cup DOMAIN gathering_output'
                       \/ o \in ended' /\ ~In(responses', {DataOf(o), ClosedOf(o)})
               /\ In(responses', {DataOf(o), ClosedOf(o)}) => o \in reading'
               /\ In(responses', {ClosedOf(o)}) => o \in ended'
               /\ Once(responses', {ClosedOf(o)}) /\ Before(responses', DataOf(o), ClosedOf(o))
    BY <1>1, <1>2, <1>5, <1>6, <1>7, <1>8 DEF PipeInv, Shown, Quieter, ReadsQuiet, OutputQuiet
  <2>2. ASSUME NEW o \in Pipe
        PROVE  /\ o \in waiting_for_eof' => o \in DOMAIN gathering_output'
               /\ o \in DOMAIN finished_output' => o \in ended' /\ o \notin DOMAIN gathering_output'
               /\ chunks'[o] > 0 => o \in reading'
    BY <1>1, <1>4, <1>5, <1>7, <1>8 DEF PipeInv
  <2> QED
    BY <2>1, <2>2 DEF PipeInv
<1>10. CwdInv'
  <2>1. ASSUME NEW r \in DOMAIN cwd_for_remote
        PROVE  cwd_for_remote[r] \in waiting_for_eof' \cup DOMAIN finished_output'
    <3>1. cwd_for_remote[r] \in waiting_for_eof \cup DOMAIN finished_output
      BY <1>1 DEF CwdInv
    <3>2. q \in waiting_for_eof => q \in DOMAIN gathering_output
      BY <1>1 DEF PipeInv
    <3> QED
      BY <1>4, <1>7, <3>1, <3>2
  <2>2. q \in DOMAIN finished_output => q \notin DOMAIN gathering_output
    BY <1>1 DEF PipeInv
  <2>3. ASSUME NEW o \in Pipe, o + 4 = next_id
        PROVE  /\ o \notin Shown'
               /\ chunks'[o] > 0 =>
                    \/ o \in DOMAIN gathering_output' /\ (gathering_output'[o] > 0 \/ In(responses', {DataOf(o)}))
                    \/ o \in DOMAIN finished_output' /\ finished_output'[o] > 0
    <3>1. CASE o = q
      BY <1>1, <1>2, <1>5, <1>7, <1>8, <2>2, <2>3, <3>1 DEF CwdInv, Shown
    <3>2. CASE o # q
      BY <1>1, <1>2, <1>5, <1>7, <2>3, <3>2 DEF CwdInv, Shown, DataStays
    <3> QED
      BY <3>1, <3>2
  <2> QED
    BY <1>1, <1>2, <1>5, <2>1, <2>3 DEF CwdInv
<1>11. CommandInv'
  BY <1>1, <1>2, <1>5, <1>6 DEF CommandInv, Quieter, BeginsQuiet, AnswersQuiet
<1> QED
  BY <1>1, <1>2, <1>5, <1>6, <1>9, <1>10, <1>11, IdKept, LineKept, EditKept, ReadyKept DEF RunInv

LEMMA EditStep == ASSUME SInv, EditRequest, Running' PROVE RunInv'
<1>1. /\ requests \in Seq(SessionRequest) /\ BackendTypes
      /\ IdInv /\ LineInv /\ CommandInv /\ EditInv /\ ReadyInv /\ PipeInv /\ CwdInv
  BY InRun, Received DEF EditRequest
<1>2. /\ ~prompting /\ responses \in Seq(Message) /\ responses # <<>> /\ responses' = Tail(responses)
      /\ Head(responses) \in Message /\ Head(responses).type = "EditRequest"
      /\ AnswersQuiet /\ EditsQuiet /\ ReadyQuiet /\ OutputQuiet /\ DataStays
  <2>1. Take("EditRequest") /\ "EditRequest" # "Data"
    BY DEF EditRequest
  <2> QED
    BY <2>1, Received
<1>3. PICK p \in Pid : Head(responses) = [type |-> "EditRequest", pid |-> p]
  BY <1>2 DEF Message
<1>4. /\ requests' = Append(requests, [type |-> "FinishEdit", pid |-> p])
      /\ UNCHANGED <<jobs, outputVars, waitVars>> /\ Handled
  <2>1. Head(responses).pid = p
    BY <1>3
  <2>2. ~Panic("editor") /\ ~Panic("finish_edit: process not running")
    BY Stops
  <2> QED
    BY <2>1, <2>2 DEF EditRequest
<1>5. /\ UNCHANGED <<commands, answered, editing, reading, ended, chunks, next_id, pipes, prompting, lines>>
      /\ UNCHANGED <<gathering_output, finished_output, cwd_for_remote, stdout_pipes, stderr_pipes, working_dir>>
      /\ UNCHANGED <<waiting_for_remote, waiting_for, waiting_for_eof>>
  BY <1>4 DEF Handled, jobVars, outVars, loopVars, outputVars, waitVars
<1> DEFINE m == [type |-> "FinishEdit", pid |-> p]
<1>6. /\ m \in SessionRequest /\ m.type = "FinishEdit" /\ \A o \in Pid : m \in Finish(o) <=> o = p
      /\ requests' = requests \o <<m>> /\ requests' = Append(requests, m)
  <2>1. m \in SessionRequest /\ m.type = "FinishEdit" /\ \A o \in Pid : m \in Finish(o) <=> o = p
    BY DEF SessionRequest, Finish
  <2> QED
    BY <1>1, <1>4, <2>1
<1> HIDE DEF m
<1>7. BeginsQuiet /\ ReadsQuiet /\ KnownStays
  <2>1. <<m>> \in Seq(SessionRequest) /\ \A i \in DOMAIN <<m>> : <<m>>[i] = m
    BY <1>6
  <2> QED
    BY <1>1, <1>5, <1>6, <2>1, AddedRequests
<1>8. EditInv'
  <2>1. Head(responses) \in ToEdit(p)
    BY <1>3 DEF ToEdit
  <2>2. /\ p \in editing /\ ~In(requests, Finish(p)) /\ ~In(responses', ToEdit(p))
    BY <1>1, <1>2, <2>1, InRest DEF EditInv
  <2>3. \A o \in Pid :
          /\ In(requests', Finish(o)) <=> In(requests, Finish(o)) \/ o = p
          /\ Once(requests, Finish(o)) /\ ~(o = p /\ In(requests, Finish(o))) => Once(requests', Finish(o))
    <3> SUFFICES ASSUME NEW o \in Pid
                 PROVE  /\ In(requests', Finish(o)) <=> In(requests, Finish(o)) \/ o = p
                        /\ Once(requests, Finish(o)) /\ ~(o = p /\ In(requests, Finish(o))) => Once(requests', Finish(o))
      OBVIOUS
    <3>1. requests' = Append(requests, m) /\ m \in SessionRequest /\ (m \in Finish(o) <=> o = p)
      BY <1>6
    <3> QED
      BY <1>1, <3>1, InAdded
  <2> QED
    BY <1>1, <1>2, <1>5, <2>2, <2>3 DEF EditInv, Quieter, EditsQuiet
<1> QED
  BY <1>1, <1>2, <1>5, <1>7, <1>8, IdKept, LineKept, CommandKept, ReadyKept, PipeKept, CwdKept DEF RunInv

LEMMA AnOrder ==
    ASSUME NEW S, IsFiniteSet(S), NEW order \in Orders(S)
    PROVE  Cardinality(S) \in Nat /\ order \in [1 .. Cardinality(S) -> S]
<1>1. Cardinality(S) \in Nat
  BY FS_CardinalityType
<1> QED
  BY <1>1 DEF Orders

LEMMA CancelsSent ==
    ASSUME IsFiniteSet(waiting_for), waiting_for \subseteq Pid, NEW order \in Orders(waiting_for)
    PROVE  [i \in DOMAIN order |-> [type |-> "CancelCommand", pid |-> order[i]]] \in Seq(SessionRequest)
<1>1. PICK n \in Nat : order \in [1 .. n -> waiting_for]
  BY AnOrder
<1>2. \A i \in 1 .. n : [type |-> "CancelCommand", pid |-> order[i]] \in SessionRequest
  BY <1>1 DEF SessionRequest
<1> QED
  BY <1>1, <1>2

LEMMA InterruptedStep == ASSUME SInv, Interrupted, Running' PROVE RunInv'
<1>1. requests \in Seq(SessionRequest) /\ CommandInv /\ waiting_for \subseteq Pid
  BY InRun, Received DEF Interrupted, SInv, SessionTypeOK
<1>2. Running /\ AnswersQuiet /\ EditsQuiet /\ ReadyQuiet /\ OutputQuiet /\ DataStays
  <2>1. Take("CtrlC") /\ "CtrlC" # "Data"
    BY DEF Interrupted
  <2> QED
    BY <2>1, Received
<1>3. /\ \E order \in Orders(waiting_for) :
            requests' = requests \o [i \in DOMAIN order |-> [type |-> "CancelCommand", pid |-> order[i]]]
      /\ UNCHANGED <<outputVars, waitVars>> /\ Handled
  <2>1. ~Panic("not ready") /\ ~Panic("close_process: process not running")
    BY Stops
  <2> QED
    BY <2>1 DEF Interrupted
<1>4. PICK order \in Orders(waiting_for) :
         requests' = requests \o [i \in DOMAIN order |-> [type |-> "CancelCommand", pid |-> order[i]]]
  BY <1>3
<1>5. UNCHANGED <<jobVars, outVars, next_id, pipes, outputVars, waitVars, prompting, lines>> /\ UNCHANGED commands
  BY <1>3 DEF Handled, loopVars, jobVars
<1> DEFINE more == [i \in DOMAIN order |-> [type |-> "CancelCommand", pid |-> order[i]]]
<1>6. more \in Seq(SessionRequest) /\ \A i \in DOMAIN more : more[i].type = "CancelCommand"
  BY <1>1, CancelsSent DEF CommandInv
<1> HIDE DEF more
<1>7. requests' = requests \o more
  BY <1>4 DEF more
<1>8. BeginsQuiet /\ FinishesQuiet /\ ReadsQuiet /\ KnownStays
  BY <1>1, <1>5, <1>6, <1>7, AddedRequests
<1> QED
  BY <1>2, <1>5, <1>8, NothingNew

LEMMA PromptStep == ASSUME SInv, ShowPrompt, Running' PROVE RunInv'
<1>1. /\ requests \in Seq(SessionRequest) /\ responses \in Seq(Message) /\ BackendTypes
      /\ IdInv /\ LineInv /\ CommandInv /\ EditInv /\ ReadyInv /\ PipeInv /\ CwdInv
  BY InRun DEF ShowPrompt
<1>2. /\ waiting_for_remote = {} /\ waiting_for = {} /\ waiting_for_eof = {} /\ ~prompting
      /\ \A r \in DOMAIN cwd_for_remote : cwd_for_remote[r] \in DOMAIN finished_output
      /\ prompting' = TRUE /\ cwd_for_remote' = EmptyMap
      /\ DOMAIN finished_output' \subseteq DOMAIN finished_output
      /\ working_dir' = IF \E r \in DOMAIN cwd_for_remote : finished_output[cwd_for_remote[r]] > 0
                        THEN {cwd_for_remote[Root]} ELSE working_dir
  <2>1. outcome' # "no output"
    BY DEF Running
  <2> QED
    BY <2>1 DEF ShowPrompt, Waiting
<1>3. /\ UNCHANGED <<requests, responses, commands, answered, editing, reading, ended, chunks, next_id, pipes, lines>>
      /\ UNCHANGED <<gathering_output, stdout_pipes, stderr_pipes>>
      /\ UNCHANGED <<waiting_for_remote, waiting_for, waiting_for_eof>>
  BY DEF ShowPrompt, backendVars, jobVars, outVars, endpointVars, waitVars
<1>4. AnswersQuiet /\ EditsQuiet /\ ReadyQuiet /\ OutputQuiet /\ DataStays
  BY <1>1, <1>3, SameResponses
<1>5. BeginsQuiet /\ FinishesQuiet /\ ReadsQuiet /\ KnownStays
  BY <1>1, <1>3, SameRequests
<1>6. CommandInv'
  BY <1>1, <1>2, <1>3, <1>4, <1>5 DEF CommandInv, Quieter, BeginsQuiet, AnswersQuiet
<1>7. PipeInv'
  BY <1>1, <1>2, <1>3, <1>4, <1>5 DEF PipeInv, Quieter, Shown, ReadsQuiet, OutputQuiet
<1>8. CwdInv'
  <2>1. ASSUME NEW q \in Pipe, q + 4 = next_id
        PROVE  q \notin Shown' /\ q \in ended' /\ (chunks'[q] > 0 => working_dir' = {q})
    <3>1. next_id # 0 /\ q \in Nat
      BY <2>1, SessionAssumption
    <3>2. Root \in DOMAIN cwd_for_remote
      BY <1>1, <1>2, <3>1 DEF CwdInv
    <3>3. cwd_for_remote[Root] \in DOMAIN finished_output /\ cwd_for_remote[Root] + 4 = next_id
      BY <1>1, <1>2, <3>2 DEF CwdInv
    <3>4. cwd_for_remote[Root] = q
      <4>1. cwd_for_remote[Root] \in Nat
        BY <3>3, SessionAssumption DEF SInv, SessionTypeOK, IsCount
      <4> QED
        BY <2>1, <3>1, <3>3, <4>1
    <3>5. q \in ended /\ q \notin DOMAIN gathering_output
      BY <1>1, <3>3, <3>4 DEF PipeInv
    <3>6. q \notin Shown /\ (chunks[q] > 0 => finished_output[q] > 0)
      BY <1>1, <1>2, <2>1, <3>5 DEF CwdInv
    <3>7. chunks[q] > 0 => working_dir' = {q}
      BY <1>2, <3>2, <3>4, <3>6
    <3> QED
      BY <1>3, <3>5, <3>6, <3>7 DEF Shown
  <2>2. DOMAIN cwd_for_remote' = {}
    BY <1>2 DEF EmptyMap
  <2> QED
    BY <1>2, <1>3, <2>1, <2>2 DEF CwdInv
<1> QED
  BY <1>1, <1>3, <1>4, <1>5, <1>6, <1>7, <1>8, IdKept, LineKept, EditKept, ReadyKept DEF RunInv

-----------------------------------------------------------------------------
(* A line. *)

LEMMA MorePlaces == ASSUME NEW l \in Nat, NEW a \in Nat, NEW b \in Nat, a <= b PROVE l * a <= l * b
  OBVIOUS

LEMMA OneMore ==
    ASSUME NEW l \in Nat, NEW taken \in Nat, NEW a \in Nat, NEW b \in Nat, taken <= l * a
    PROVE  /\ a <= b => taken + b <= (l + 1) * b
           /\ b <= a => taken + b <= (l + 1) * a
<1>1. (l + 1) * b = l * b + b /\ (l + 1) * a = l * a + a /\ l * a \in Nat /\ l * b \in Nat
  OBVIOUS
<1>2. a <= b => l * a <= l * b
  BY MorePlaces
<1> QED
  BY <1>1, <1>2

\* There are ids for all that a line takes.
LEMMA LineStarts ==
    ASSUME SInv, NEW plan \in Plans, RunLine(plan), Running'
    PROVE  /\ Running /\ prompting /\ ~prompting' /\ lines' = lines + 1 /\ lines + 1 \in 0 .. MaxLines
           /\ IsPlan(plan) /\ Runnable(plan) /\ SendPlan(plan) /\ Len(plan.steps) \in Nat /\ next_id \in Nat
           /\ \E larger \in Plans \ {ExitPlan} :
                 larger.outcome = "ok" /\ next_id + IdsTaken(plan) <= (lines + 1) * IdsTaken(larger)
           /\ 0 .. next_id + Len(plan.steps) + 3 \subseteq Pid
<1>1. /\ Running /\ prompting /\ ~prompting' /\ lines' = lines + 1 /\ lines < MaxLines /\ plan # ExitPlan
  BY DEF RunLine
<1>2. plan.outcome = "ok" /\ Runnable(plan) /\ SendPlan(plan)
  <2>1. ~(outcome' = IF plan.outcome = "ok" THEN "plan" ELSE "line")
    BY DEF Running
  <2> QED
    BY <2>1 DEF RunLine
<1>3. lines \in Nat /\ MaxLines \in Nat /\ next_id \in Nat /\ lines + 1 \in 0 .. MaxLines /\ IdInv
  BY <1>1, InRun, SessionAssumption DEF SInv, SessionTypeOK
<1>4. \A other \in Plans \ {ExitPlan} : other.outcome = "ok" =>
        IsPlan(other) /\ IdsTaken(other) \in Nat /\ 0 .. MaxLines * IdsTaken(other) - 1 \subseteq Pid
  BY PlansAssumption DEF IdsTaken, IsPlan
<1>5. Len(plan.steps) \in Nat /\ IdsTaken(plan) = Len(plan.steps) + 4 /\ IdsTaken(plan) \in Nat /\ IsPlan(plan)
  BY <1>1, <1>2, <1>4 DEF IsPlan, IdsTaken
<1>6. PICK larger \in Plans \ {ExitPlan} :
        larger.outcome = "ok" /\ IdsTaken(larger) \in Nat
        /\ next_id + IdsTaken(plan) <= (lines + 1) * IdsTaken(larger)
  <2>1. CASE next_id = 0
    <3>1. PICK none \in Nat : none = 0
      OBVIOUS
    <3>2. next_id <= lines * none /\ none <= IdsTaken(plan)
      BY <1>3, <1>5, <2>1, <3>1
    <3>3. next_id + IdsTaken(plan) <= (lines + 1) * IdsTaken(plan)
      BY <1>3, <1>5, <3>2, OneMore
    <3> QED
      BY <1>1, <1>2, <1>5, <3>3
  <2>2. CASE next_id # 0
    <3>1. PICK other \in Plans \ {ExitPlan} : other.outcome = "ok" /\ next_id <= lines * IdsTaken(other)
      BY <1>3, <2>2 DEF IdInv
    <3>2. IdsTaken(other) \in Nat
      BY <1>4, <3>1
    <3>3. CASE IdsTaken(other) <= IdsTaken(plan)
      <4>1. next_id + IdsTaken(plan) <= (lines + 1) * IdsTaken(plan)
        BY <1>3, <1>5, <3>1, <3>2, <3>3, OneMore
      <4> QED
        BY <1>1, <1>2, <1>5, <4>1
    <3>4. CASE IdsTaken(plan) <= IdsTaken(other)
      <4>1. next_id + IdsTaken(plan) <= (lines + 1) * IdsTaken(other)
        BY <1>3, <1>5, <3>1, <3>2, <3>4, OneMore
      <4> QED
        BY <3>1, <3>2, <4>1
    <3> QED
      BY <1>5, <3>2, <3>3, <3>4
  <2> QED
    BY <2>1, <2>2
<1>7. 0 .. next_id + Len(plan.steps) + 3 \subseteq Pid
  <2>1. IdsTaken(larger) * (lines + 1) <= IdsTaken(larger) * MaxLines
    BY <1>3, <1>6, MorePlaces
  <2>2. 0 .. MaxLines * IdsTaken(larger) - 1 \subseteq Pid
    BY <1>4, <1>6
  <2>3. next_id + Len(plan.steps) + 3 <= MaxLines * IdsTaken(larger) - 1
    BY <1>3, <1>5, <1>6, <2>1
  <2>4. MaxLines * IdsTaken(larger) - 1 \in Int
    BY <1>3, <1>6
  <2> QED
    BY <1>3, <1>5, <2>2, <2>3, <2>4
<1> QED
  BY <1>1, <1>2, <1>3, <1>5, <1>6, <1>7

\* The pipes of a plan that is runnable are steps of it.
LEMMA PipesOfPlan ==
    ASSUME NEW plan, IsPlan(plan), Runnable(plan)
    PROVE  /\ \A k \in RunSteps(plan) :
                 /\ PipeSteps(plan)[plan.steps[k].stdout + 1] \in 1 .. Len(plan.steps)
                 /\ PipeSteps(plan)[plan.steps[k].stderr + 1] \in 1 .. Len(plan.steps)
           /\ \A q \in {0, 1} : PipeSteps(plan)[q + 1] \in (1 .. Len(plan.steps)) \ RunSteps(plan)
<1> DEFINE made == PipeSteps(plan)
<1>1. PICK n \in Nat : n = Len(plan.steps)
  BY DEF IsPlan
<1>2. Placed(made, plan, {"Pipe", "OpenOutputFile"}, n)
  BY <1>1, StepsAreInOrder DEF PipeSteps
<1>3. ASSUME NEW q \in Nat, q < Len(made)
      PROVE  made[q + 1] \in (1 .. n) \ RunSteps(plan)
  <2>1. made \in Seq(1 .. n)
    BY <1>2 DEF Placed
  <2>2. q + 1 \in DOMAIN made
    BY <1>3, <2>1
  <2>3. plan.steps[made[q + 1]].type \in {"Pipe", "OpenOutputFile"}
    BY <1>2, <2>2 DEF Placed
  <2> QED
    BY <2>1, <2>2, <2>3 DEF RunSteps
<1>4. ASSUME NEW k \in RunSteps(plan)
      PROVE  plan.steps[k].stdout < Len(made) /\ plan.steps[k].stderr < Len(made)
  <2> DEFINE out == <<plan.steps[k].stdout, "write">> err == <<plan.steps[k].stderr, "write">>
  <2>1. out \in EndsOf(plan, k) /\ err \in EndsOf(plan, k)
    BY DEF EndsOf
  <2>2. out[1] < Len(made) /\ err[1] < Len(made)
    BY <2>1 DEF Runnable
  <2> QED
    BY <2>2
<1>5. ASSUME NEW q \in {0, 1} PROVE q < Len(made)
  <2> DEFINE end == <<q, "read">>
  <2>1. end \in SinkEnds(plan)
    BY DEF SinkEnds, IsPlan
  <2>2. end[1] < Len(made)
    BY <2>1 DEF Runnable
  <2> QED
    BY <2>2
<1> HIDE DEF made
<1>6. \A k \in RunSteps(plan) : plan.steps[k].stdout \in Nat /\ plan.steps[k].stderr \in Nat
  BY DEF IsPlan
<1>7. \A k \in RunSteps(plan) :
         made[plan.steps[k].stdout + 1] \in 1 .. n /\ made[plan.steps[k].stderr + 1] \in 1 .. n
  BY <1>3, <1>4, <1>6
<1>8. \A q \in {0, 1} : made[q + 1] \in (1 .. n) \ RunSteps(plan)
  BY <1>3, <1>5
<1> QED
  BY <1>1, <1>7, <1>8 DEF made

\* The requests of a line: its files and commands, the GetDirectory behind them, and what is read.
Directory(plan) ==
    [kind |-> "GetDirectory", needs |-> BlockOn(plan), stdout |-> CwdStdout(plan), stderr |-> CwdStderr(plan)]
ForPlan(plan, c) ==
    /\ c.kind # "GetDirectory"
    /\ c.stdout \in next_id .. next_id + Len(plan.steps) - 1
    /\ c.stderr \in next_id .. next_id + Len(plan.steps) - 1
PlanIds(plan) ==
    next_id \in Nat /\ IsPlan(plan) /\ Runnable(plan) /\ 0 .. next_id + Len(plan.steps) + 3 \subseteq Pid

LEMMA StepIds ==
    ASSUME NEW plan, PlanIds(plan), NEW k \in 1 .. Len(plan.steps)
    PROVE  StepId(k) \in next_id .. next_id + Len(plan.steps) - 1 /\ StepId(k) \in Pid
<1>1. next_id \in Nat /\ Len(plan.steps) \in Nat /\ 0 .. next_id + Len(plan.steps) + 3 \subseteq Pid
  BY DEF PlanIds, IsPlan
<1> QED
  BY <1>1 DEF StepId

LEMMA PipeIds ==
    ASSUME NEW plan, PlanIds(plan)
    PROVE  /\ \A k \in RunSteps(plan) :
                 /\ PipeId(plan, plan.steps[k].stdout) \in next_id .. next_id + Len(plan.steps) - 1
                 /\ PipeId(plan, plan.steps[k].stderr) \in next_id .. next_id + Len(plan.steps) - 1
                 /\ PipeId(plan, plan.steps[k].stdout) \in Pid /\ PipeId(plan, plan.steps[k].stderr) \in Pid
           /\ \A q \in {0, 1} :
                 /\ PipeId(plan, q) \in next_id .. next_id + Len(plan.steps) - 1
                 /\ PipeId(plan, q) \in Pid /\ PipeId(plan, q) \in PlanPipes(plan)
<1>1. IsPlan(plan) /\ Runnable(plan) /\ DOMAIN plan.steps = 1 .. Len(plan.steps)
  BY DEF PlanIds, IsPlan
<1>2. ASSUME NEW k \in RunSteps(plan)
      PROVE  /\ PipeId(plan, plan.steps[k].stdout) \in next_id .. next_id + Len(plan.steps) - 1
             /\ PipeId(plan, plan.steps[k].stderr) \in next_id .. next_id + Len(plan.steps) - 1
             /\ PipeId(plan, plan.steps[k].stdout) \in Pid /\ PipeId(plan, plan.steps[k].stderr) \in Pid
  BY <1>1, PipesOfPlan, StepIds DEF PipeId
<1>3. ASSUME NEW q \in {0, 1}
      PROVE  /\ PipeId(plan, q) \in next_id .. next_id + Len(plan.steps) - 1
             /\ PipeId(plan, q) \in Pid /\ PipeId(plan, q) \in PlanPipes(plan)
  BY <1>1, PipesOfPlan, StepIds DEF PipeId, PlanPipes
<1> QED
  BY <1>2, <1>3

LEMMA PlanSent ==
    ASSUME NEW plan, PlanIds(plan), Pipe = Pid
    PROVE  /\ PlanRequests(plan) \in Seq(SessionRequest)
           /\ \A i \in DOMAIN PlanRequests(plan) :
                 \/ PlanRequests(plan)[i].type = "OpenOutputFile"
                 \/ \E k \in RunSteps(plan), c \in Command :
                       ForPlan(plan, c)
                       /\ PlanRequests(plan)[i] = [type |-> "BeginCommand", pid |-> StepId(k), command |-> c]
           /\ \A p \in Pid : Once(PlanRequests(plan), Begin(p))
<1>1. PICK n \in Nat : n = Len(plan.steps) /\ DOMAIN plan.steps = 1 .. n /\ next_id \in Nat
  BY DEF PlanIds, IsPlan
<1>2. PICK sent : sent = StepsOf(plan, {"OpenOutputFile", "Run"})
  OBVIOUS
<1>3. Placed(sent, plan, {"OpenOutputFile", "Run"}, n)
  BY <1>1, <1>2, StepsAreInOrder
<1>4. /\ sent \in Seq(1 .. n)
      /\ \A i \in DOMAIN sent : sent[i] \in 1 .. n /\ plan.steps[sent[i]].type \in {"OpenOutputFile", "Run"}
      /\ \A i, j \in DOMAIN sent : sent[i] = sent[j] => i = j
  <2>1. sent \in Seq(1 .. n) /\ \A i \in DOMAIN sent : i \in Nat /\ sent[i] \in 1 .. n
    BY <1>3 DEF Placed
  <2>2. \A i \in DOMAIN sent : plan.steps[sent[i]].type \in {"OpenOutputFile", "Run"}
    BY <1>3 DEF Placed
  <2>3. ASSUME NEW i \in DOMAIN sent, NEW j \in DOMAIN sent, sent[i] = sent[j] PROVE i = j
    <3>1. ~(i < j) /\ ~(j < i)
      <4>1. (i < j => sent[i] < sent[j]) /\ (j < i => sent[j] < sent[i])
        BY <1>3 DEF Placed
      <4> QED
        BY <2>1, <2>3, <4>1
    <3> QED
      BY <2>1, <3>1
  <2> QED
    BY <2>1, <2>2, <2>3
<1>5. PlanRequests(plan) = [i \in DOMAIN sent |-> StepRequest(plan, sent[i])]
  BY <1>2 DEF PlanRequests
<1>6. ASSUME NEW k \in 1 .. n, plan.steps[k].type = "Run"
      PROVE  \E c \in Command :
                ForPlan(plan, c) /\ StepRequest(plan, k) = [type |-> "BeginCommand", pid |-> StepId(k), command |-> c]
  <2>1. k \in RunSteps(plan)
    BY <1>1, <1>6 DEF RunSteps
  <2> DEFINE out == PipeId(plan, plan.steps[k].stdout) err == PipeId(plan, plan.steps[k].stderr)
             c == [kind |-> plan.steps[k].kind, needs |-> {}, stdout |-> out, stderr |-> err]
  <2>2. /\ out \in next_id .. next_id + n - 1 /\ err \in next_id .. next_id + n - 1
        /\ out \in Pipe /\ err \in Pipe
    BY <1>1, <2>1, PipeIds
  <2>3. plan.steps[k].kind \in {"Unknown", "SetDirectory", "Edit"}
    BY <2>1 DEF PlanIds, IsPlan
  <2>4. StepRequest(plan, k) = [type |-> "BeginCommand", pid |-> StepId(k), command |-> c]
    BY <1>6 DEF StepRequest, BeginCommand
  <2> HIDE DEF out, err
  <2>5. c \in Command /\ ForPlan(plan, c)
    BY <1>1, <2>2, <2>3 DEF Command, ForPlan
  <2> QED
    BY <2>4, <2>5
<1>7. ASSUME NEW k \in 1 .. n, plan.steps[k].type = "OpenOutputFile"
      PROVE  StepRequest(plan, k) \in SessionRequest /\ StepRequest(plan, k).type = "OpenOutputFile"
  <2>1. StepId(k) \in Pipe
    BY <1>1, StepIds
  <2>2. StepRequest(plan, k) = [type |-> "OpenOutputFile", pipe |-> StepId(k)]
    BY <1>7 DEF StepRequest
  <2> QED
    BY <2>1, <2>2 DEF SessionRequest
<1>8. ASSUME NEW k \in 1 .. n, plan.steps[k].type = "Run"
      PROVE  StepRequest(plan, k) \in SessionRequest
  <2>1. PICK c \in Command : StepRequest(plan, k) = [type |-> "BeginCommand", pid |-> StepId(k), command |-> c]
    BY <1>6, <1>8
  <2>2. StepId(k) \in Pid
    BY <1>1, StepIds
  <2> QED
    BY <2>1, <2>2 DEF SessionRequest, Command
<1>9. PlanRequests(plan) \in Seq(SessionRequest)
  <2>1. \A i \in DOMAIN sent : StepRequest(plan, sent[i]) \in SessionRequest
    BY <1>4, <1>7, <1>8
  <2>2. PICK m \in Nat : DOMAIN sent = 1 .. m
    BY <1>4
  <2> QED
    BY <1>5, <2>1, <2>2
<1>10. ASSUME NEW i \in DOMAIN PlanRequests(plan)
       PROVE  \/ PlanRequests(plan)[i].type = "OpenOutputFile"
              \/ \E k \in RunSteps(plan), c \in Command :
                    ForPlan(plan, c)
                    /\ PlanRequests(plan)[i] = [type |-> "BeginCommand", pid |-> StepId(k), command |-> c]
  <2>1. i \in DOMAIN sent /\ PlanRequests(plan)[i] = StepRequest(plan, sent[i]) /\ sent[i] \in 1 .. n
    BY <1>4, <1>5
  <2>2. CASE plan.steps[sent[i]].type = "OpenOutputFile"
    BY <1>7, <2>1, <2>2
  <2>3. CASE plan.steps[sent[i]].type = "Run"
    <3>1. sent[i] \in RunSteps(plan)
      BY <1>1, <2>1, <2>3 DEF RunSteps
    <3> QED
      BY <1>6, <2>1, <2>3, <3>1
  <2> QED
    BY <1>4, <2>1, <2>2, <2>3
<1>11. ASSUME NEW p \in Pid PROVE Once(PlanRequests(plan), Begin(p))
  <2>1. ASSUME NEW i \in DOMAIN PlanRequests(plan), PlanRequests(plan)[i] \in Begin(p)
        PROVE  i \in DOMAIN sent /\ sent[i] = p - next_id + 1
    <3>1. i \in DOMAIN sent /\ PlanRequests(plan)[i] = StepRequest(plan, sent[i]) /\ sent[i] \in 1 .. n
      BY <1>4, <1>5, <2>1
    <3>2. StepRequest(plan, sent[i]).type = "BeginCommand" /\ StepRequest(plan, sent[i]).pid = p
      BY <2>1, <3>1 DEF Begin
    <3>3. plan.steps[sent[i]].type = "Run"
      BY <1>4, <1>7, <3>1, <3>2
    <3>4. PICK c \in Command :
             StepRequest(plan, sent[i]) = [type |-> "BeginCommand", pid |-> StepId(sent[i]), command |-> c]
      BY <1>6, <3>1, <3>3
    <3>5. p = StepId(sent[i])
      BY <3>2, <3>4
    <3> QED
      BY <1>1, <3>1, <3>5 DEF StepId
  <2> QED
    BY <1>4, <2>1 DEF Once
<1> QED
  BY <1>9, <1>10, <1>11

BeginOf(p, c) == [type |-> "BeginCommand", pid |-> p, command |-> c]

LEMMA DirectorySent ==
    ASSUME NEW plan, PlanIds(plan), Pipe = Pid
    PROVE  /\ DirectoryRequests(plan) \in Seq(SessionRequest)
           /\ Directory(plan) \in Command /\ CwdPid(plan) \in Pid /\ LinePids(plan) \subseteq Pid
           /\ DOMAIN DirectoryRequests(plan) = 1 .. 3
           /\ DirectoryRequests(plan)[1] = BeginOf(CwdPid(plan), Directory(plan))
           /\ DirectoryRequests(plan)[2] = BeginRead(CwdStdout(plan))
           /\ DirectoryRequests(plan)[3] = BeginRead(CwdStderr(plan))
<1>1. PICK n \in Nat : n = Len(plan.steps) /\ DOMAIN plan.steps = 1 .. n /\ next_id \in Nat
                       /\ 0 .. next_id + n + 3 \subseteq Pid
  BY DEF PlanIds, IsPlan
<1>2. CwdStdout(plan) \in Pid /\ CwdStderr(plan) \in Pid /\ CwdPid(plan) \in Pid
  BY <1>1 DEF CwdStdout, CwdStderr, CwdPid
<1>3. LinePids(plan) \subseteq Pid
  BY <1>1, StepIds DEF LinePids, RunSteps
<1>4. Directory(plan) \in Command
  BY <1>2, <1>3 DEF Directory, Command, BlockOn
<1>5. /\ BeginOf(CwdPid(plan), Directory(plan)) \in SessionRequest
      /\ BeginRead(CwdStdout(plan)) \in SessionRequest /\ BeginRead(CwdStderr(plan)) \in SessionRequest
  BY <1>2, <1>4 DEF SessionRequest, BeginOf, BeginRead, Command
<1>6. DirectoryRequests(plan) =
        <<BeginOf(CwdPid(plan), Directory(plan)), BeginRead(CwdStdout(plan)), BeginRead(CwdStderr(plan))>>
  BY DEF DirectoryRequests, BeginOf, BeginCommand, Directory
<1> QED
  BY <1>2, <1>3, <1>4, <1>5, <1>6

LEMMA SinksSent ==
    ASSUME NEW plan, PlanIds(plan), Pipe = Pid
    PROVE  /\ SinkRequests(plan) \in Seq(SessionRequest)
           /\ \A i \in DOMAIN SinkRequests(plan) :
                 \E q \in {0, 1} : SinkRequests(plan)[i] = BeginRead(PipeId(plan, q))
<1>1. DOMAIN plan.sink_map = {0, 1}
  BY DEF PlanIds, IsPlan
<1>2. Cardinality({0, 1}) = 2
  <2>1. IsFiniteSet({0}) /\ Cardinality({0}) = 1
    BY FS_Singleton
  <2>2. Cardinality({0} \cup {1}) = Cardinality({0}) + 1
    BY <2>1, FS_AddElement
  <2>3. {0} \cup {1} = {0, 1}
    OBVIOUS
  <2> QED
    BY <2>1, <2>2, <2>3
<1>3. SinkRequests(plan) = [i \in 1 .. 2 |-> BeginRead(PipeId(plan, i - 1))]
  BY <1>1, <1>2 DEF SinkRequests
<1>4. \A i \in 1 .. 2 : i - 1 \in {0, 1}
  OBVIOUS
<1>5. \A q \in {0, 1} : BeginRead(PipeId(plan, q)) \in SessionRequest
  BY PipeIds DEF SessionRequest, BeginRead
<1> QED
  BY <1>3, <1>4, <1>5

\* What is in the queue behind a line.
LEMMA LineSent ==
    ASSUME SInv, Running, NEW plan, PlanIds(plan), SendPlan(plan)
    PROVE  /\ requests' \in Seq(SessionRequest)
           /\ \A E : In(requests', E) <=>
                 \/ In(requests, E) \/ In(PlanRequests(plan), E)
                 \/ In(DirectoryRequests(plan), E) \/ In(SinkRequests(plan), E)
           /\ \A E : /\ ~In(requests, E) /\ ~In(SinkRequests(plan), E)
                     /\ Once(PlanRequests(plan), E) /\ Once(DirectoryRequests(plan), E)
                     /\ ~(In(PlanRequests(plan), E) /\ In(DirectoryRequests(plan), E))
                     => Once(requests', E)
           /\ \A E : Once(requests, E) /\ ~In(PlanRequests(plan), E) /\ ~In(DirectoryRequests(plan), E)
                     /\ ~In(SinkRequests(plan), E) => Once(requests', E)
<1>1. PICK a, b, c : a = PlanRequests(plan) /\ b = DirectoryRequests(plan) /\ c = SinkRequests(plan)
  OBVIOUS
<1>2. requests \in Seq(SessionRequest) /\ Pipe = Pid
  BY InRun
<1>3. /\ a \in Seq(SessionRequest) /\ b \in Seq(SessionRequest) /\ c \in Seq(SessionRequest)
      /\ requests' = ((requests \o a) \o b) \o c
  BY <1>1, <1>2, PlanSent, DirectorySent, SinksSent DEF SendPlan
<1>4. requests \o a \in Seq(SessionRequest) /\ (requests \o a) \o b \in Seq(SessionRequest)
      /\ ((requests \o a) \o b) \o c \in Seq(SessionRequest)
  BY <1>2, <1>3
<1>5. \A E : \A queue \in Seq(SessionRequest) : ~In(queue, E) => Once(queue, E)
  BY DEF In, Once
<1>6. ASSUME NEW E
      PROVE  /\ In(requests', E) <=> In(requests, E) \/ In(a, E) \/ In(b, E) \/ In(c, E)
             /\ ~In(requests, E) /\ ~In(c, E) /\ Once(a, E) /\ Once(b, E) /\ ~(In(a, E) /\ In(b, E))
                => Once(requests', E)
             /\ Once(requests, E) /\ ~In(a, E) /\ ~In(b, E) /\ ~In(c, E) => Once(requests', E)
  <2>1. /\ In(requests \o a, E) <=> In(requests, E) \/ In(a, E)
        /\ Once(requests, E) /\ Once(a, E) /\ ~(In(requests, E) /\ In(a, E)) => Once(requests \o a, E)
    BY <1>2, <1>3, InJoined
  <2>2. /\ In((requests \o a) \o b, E) <=> In(requests \o a, E) \/ In(b, E)
        /\ Once(requests \o a, E) /\ Once(b, E) /\ ~(In(requests \o a, E) /\ In(b, E))
           => Once((requests \o a) \o b, E)
    BY <1>3, <1>4, InJoined
  <2>3. /\ In(requests', E) <=> In((requests \o a) \o b, E) \/ In(c, E)
        /\ Once((requests \o a) \o b, E) /\ Once(c, E) /\ ~(In((requests \o a) \o b, E) /\ In(c, E))
           => Once(requests', E)
    <3>1. PICK d \in Seq(SessionRequest) : d = (requests \o a) \o b
      BY <1>4
    <3>2. requests' = d \o c
      BY <1>3, <3>1
    <3>3. /\ In(d \o c, E) <=> In(d, E) \/ In(c, E)
          /\ Once(d, E) /\ Once(c, E) /\ ~(In(d, E) /\ In(c, E)) => Once(d \o c, E)
      BY <1>3, InJoined
    <3> QED
      BY <3>1, <3>2, <3>3
  <2>4. /\ ~In(requests, E) => Once(requests, E)
        /\ ~In(a, E) => Once(a, E)
        /\ ~In(b, E) => Once(b, E)
        /\ ~In(c, E) => Once(c, E)
    BY <1>2, <1>3, <1>5
  <2> QED
    BY <2>1, <2>2, <2>3, <2>4
<1>7. \A E : In(requests', E) <=> In(requests, E) \/ In(a, E) \/ In(b, E) \/ In(c, E)
  BY <1>6
<1>8. \A E : ~In(requests, E) /\ ~In(c, E) /\ Once(a, E) /\ Once(b, E) /\ ~(In(a, E) /\ In(b, E))
             => Once(requests', E)
  BY <1>6
<1>9. \A E : Once(requests, E) /\ ~In(a, E) /\ ~In(b, E) /\ ~In(c, E) => Once(requests', E)
  BY <1>6
<1> QED
  BY <1>1, <1>3, <1>4, <1>7, <1>8, <1>9

\* Which commands the line adds, and which pipes it reads.
LEMMA LineAdds ==
    ASSUME SInv, Running, NEW plan, PlanIds(plan), SendPlan(plan)
    PROVE  /\ \A p \in Pid :
                 /\ In(PlanRequests(plan), Begin(p)) => p \in LinePids(plan)
                 /\ In(DirectoryRequests(plan), Begin(p)) => p = CwdPid(plan)
                 /\ ~In(SinkRequests(plan), Begin(p)) /\ Once(DirectoryRequests(plan), Begin(p))
           /\ \A p \in Pid, c \in Command :
                 /\ In(PlanRequests(plan), {BeginOf(p, c)}) => p \in LinePids(plan) /\ ForPlan(plan, c)
                 /\ In(DirectoryRequests(plan), {BeginOf(p, c)}) => p = CwdPid(plan) /\ c = Directory(plan)
                 /\ ~In(SinkRequests(plan), {BeginOf(p, c)})
           /\ In(DirectoryRequests(plan), {BeginOf(CwdPid(plan), Directory(plan))})
           /\ \A q \in Pipe :
                 /\ ~In(PlanRequests(plan), Read(q))
                 /\ In(DirectoryRequests(plan), Read(q)) => q \in {CwdStdout(plan), CwdStderr(plan)}
                 /\ In(SinkRequests(plan), Read(q)) => \E r \in {0, 1} : q = PipeId(plan, r)
           /\ \A p \in Pid :
                 /\ ~In(PlanRequests(plan), Finish(p)) /\ ~In(DirectoryRequests(plan), Finish(p))
                 /\ ~In(SinkRequests(plan), Finish(p))
<1> DEFINE a == PlanRequests(plan) b == DirectoryRequests(plan) c == SinkRequests(plan)
<1>1. Pipe = Pid
  BY InRun
<1>2. \A i \in DOMAIN a :
         \/ a[i].type = "OpenOutputFile"
         \/ \E k \in RunSteps(plan), d \in Command : ForPlan(plan, d) /\ a[i] = BeginOf(StepId(k), d)
  BY <1>1, PlanSent DEF BeginOf
<1>3. /\ DOMAIN b = 1 .. 3 /\ b[1] = BeginOf(CwdPid(plan), Directory(plan))
      /\ b[2] = BeginRead(CwdStdout(plan)) /\ b[3] = BeginRead(CwdStderr(plan))
  BY <1>1, DirectorySent
<1>4. \A i \in DOMAIN c : \E r \in {0, 1} : c[i] = BeginRead(PipeId(plan, r))
  BY <1>1, SinksSent
<1> HIDE DEF a, b, c
<1>5. ASSUME NEW p \in Pid
      PROVE  /\ In(a, Begin(p)) => p \in LinePids(plan)
             /\ In(b, Begin(p)) => p = CwdPid(plan)
             /\ ~In(c, Begin(p)) /\ Once(b, Begin(p))
  <2>1. In(a, Begin(p)) => p \in LinePids(plan)
    BY <1>2 DEF In, Begin, BeginOf, LinePids
  <2>2. \A i \in 1 .. 3 : b[i] \in Begin(p) => i = 1 /\ p = CwdPid(plan)
    BY <1>3 DEF Begin, BeginOf, BeginRead
  <2>3. ~In(c, Begin(p))
    BY <1>4 DEF In, Begin, BeginRead
  <2> QED
    BY <1>3, <2>1, <2>2, <2>3 DEF In, Once
<1>6. ASSUME NEW p \in Pid, NEW d \in Command
      PROVE  /\ In(a, {BeginOf(p, d)}) => p \in LinePids(plan) /\ ForPlan(plan, d)
             /\ In(b, {BeginOf(p, d)}) => p = CwdPid(plan) /\ d = Directory(plan)
             /\ ~In(c, {BeginOf(p, d)})
  <2>1. In(a, {BeginOf(p, d)}) => p \in LinePids(plan) /\ ForPlan(plan, d)
    BY <1>2 DEF In, BeginOf, LinePids
  <2>2. In(b, {BeginOf(p, d)}) => p = CwdPid(plan) /\ d = Directory(plan)
    BY <1>3 DEF In, BeginOf, BeginRead
  <2>3. ~In(c, {BeginOf(p, d)})
    BY <1>4 DEF In, BeginOf, BeginRead
  <2> QED
    BY <2>1, <2>2, <2>3
<1>7. In(b, {BeginOf(CwdPid(plan), Directory(plan))})
  BY <1>3 DEF In
<1>8. ASSUME NEW q \in Pipe
      PROVE  /\ ~In(a, Read(q))
             /\ In(b, Read(q)) => q \in {CwdStdout(plan), CwdStderr(plan)}
             /\ In(c, Read(q)) => \E r \in {0, 1} : q = PipeId(plan, r)
  <2>1. ~In(a, Read(q))
    BY <1>2 DEF In, Read, BeginOf, BeginRead
  <2>2. In(b, Read(q)) => q \in {CwdStdout(plan), CwdStderr(plan)}
    BY <1>3 DEF In, Read, BeginOf, BeginRead
  <2>3. In(c, Read(q)) => \E r \in {0, 1} : q = PipeId(plan, r)
    BY <1>4 DEF In, Read, BeginRead
  <2> QED
    BY <2>1, <2>2, <2>3
<1>9. ASSUME NEW p \in Pid
      PROVE  ~In(a, Finish(p)) /\ ~In(b, Finish(p)) /\ ~In(c, Finish(p))
  <2>1. ~In(a, Finish(p))
    BY <1>2 DEF In, Finish, BeginOf
  <2>2. ~In(b, Finish(p))
    BY <1>3 DEF In, Finish, BeginOf, BeginRead
  <2>3. ~In(c, Finish(p))
    BY <1>4 DEF In, Finish, BeginRead
  <2> QED
    BY <2>1, <2>2, <2>3
<1> QED
  BY <1>5, <1>6, <1>7, <1>8, <1>9 DEF a, b, c

LEMMA LineBegins ==
    ASSUME SInv, NEW plan \in Plans, RunLine(plan), Running'
    PROVE  /\ PlanIds(plan) /\ SendPlan(plan) /\ Running /\ prompting
           /\ \A p \in Pid, c \in Command : Known(p, c)' =>
                 \/ Known(p, c)
                 \/ p \in LinePids(plan) /\ ForPlan(plan, c)
                 \/ p = CwdPid(plan) /\ c = Directory(plan)
           /\ \E p \in Pid, c \in Command : p = CwdPid(plan) /\ c = Directory(plan) /\ Known(p, c)'
           /\ UNCHANGED <<commands, answered, editing, reading, ended, chunks, responses>>
           /\ UNCHANGED <<waiting_for_remote, finished_output, working_dir, interrupts>>
<1>1. PlanIds(plan) /\ SendPlan(plan) /\ Running /\ prompting
  BY LineStarts DEF PlanIds
<1>2. /\ UNCHANGED <<commands, answered, editing, reading, ended, chunks, responses>>
      /\ UNCHANGED <<waiting_for_remote, finished_output, working_dir, interrupts>>
  BY DEF RunLine, backendVars, jobVars, outVars
<1>3. ASSUME NEW p \in Pid, NEW c \in Command, Known(p, c)'
      PROVE  \/ Known(p, c)
             \/ p \in LinePids(plan) /\ ForPlan(plan, c)
             \/ p = CwdPid(plan) /\ c = Directory(plan)
  <2>1. (p \in DOMAIN commands /\ commands[p] = c) \/ In(requests', {BeginOf(p, c)})
    BY <1>2, <1>3 DEF Known, BeginOf
  <2>2. In(requests', {BeginOf(p, c)}) =>
          \/ In(requests, {BeginOf(p, c)}) \/ In(PlanRequests(plan), {BeginOf(p, c)})
          \/ In(DirectoryRequests(plan), {BeginOf(p, c)}) \/ In(SinkRequests(plan), {BeginOf(p, c)})
    BY <1>1, LineSent
  <2>3. Known(p, c) <=> (p \in DOMAIN commands /\ commands[p] = c) \/ In(requests, {BeginOf(p, c)})
    BY DEF Known, BeginOf
  <2> QED
    BY <1>1, <2>1, <2>2, <2>3, LineAdds
<1>4. \E p \in Pid, c \in Command : p = CwdPid(plan) /\ c = Directory(plan) /\ Known(p, c)'
  <2>1. PICK p \in Pid, c \in Command : p = CwdPid(plan) /\ c = Directory(plan)
    BY <1>1, InRun, DirectorySent
  <2>2. In(requests', {BeginOf(p, c)})
    BY <1>1, <2>1, LineSent, LineAdds
  <2> QED
    BY <2>1, <2>2 DEF Known, BeginOf
<1> QED
  BY <1>1, <1>2, <1>3, <1>4

\* The ids of a line, and what is known when it is typed: all is answered.
LEMMA LineFacts ==
    ASSUME SInv, NEW plan \in Plans, RunLine(plan), Running'
    PROVE  /\ next_id \in Nat /\ Len(plan.steps) \in Nat /\ next_id' = next_id + Len(plan.steps) + 4
           /\ 0 .. next_id + Len(plan.steps) + 3 \subseteq Pid
           /\ CwdStdout(plan) = next_id + Len(plan.steps) /\ CwdStderr(plan) = next_id + Len(plan.steps) + 1
           /\ CwdStdin(plan) = next_id + Len(plan.steps) + 2 /\ CwdPid(plan) = next_id + Len(plan.steps) + 3
           /\ LinePids(plan) \subseteq next_id .. next_id + Len(plan.steps) - 1
           /\ PlanPipes(plan) \subseteq next_id .. next_id + Len(plan.steps) - 1
           /\ \A p \in Pid, c \in Command : Known(p, c) => p \in answered
           /\ \A p \in Pid : p \in DOMAIN commands => p < next_id /\ p \in answered
           /\ \A p \in Pid : ~In(requests, Begin(p)) /\ ~In(responses, Done(p))
<1>1. PlanIds(plan) /\ SendPlan(plan) /\ prompting /\ Running
  BY LineBegins
<1>2. /\ next_id \in Nat /\ Len(plan.steps) \in Nat /\ 0 .. next_id + Len(plan.steps) + 3 \subseteq Pid
      /\ DOMAIN plan.steps = 1 .. Len(plan.steps)
  BY <1>1 DEF PlanIds, IsPlan
<1>3. /\ CwdStdout(plan) = next_id + Len(plan.steps) /\ CwdStderr(plan) = next_id + Len(plan.steps) + 1
      /\ CwdStdin(plan) = next_id + Len(plan.steps) + 2 /\ CwdPid(plan) = next_id + Len(plan.steps) + 3
  BY <1>2 DEF CwdStdout, CwdStderr, CwdStdin, CwdPid
<1>4. next_id' = next_id + Len(plan.steps) + 4
  BY <1>1, <1>2, <1>3 DEF SendPlan
<1>5. LinePids(plan) \subseteq next_id .. next_id + Len(plan.steps) - 1
  BY <1>1, <1>2, StepIds DEF LinePids, RunSteps
<1>6. PlanPipes(plan) \subseteq next_id .. next_id + Len(plan.steps) - 1
  BY <1>1, <1>2, StepIds DEF PlanPipes
<1>7. CommandInv /\ IdInv /\ BackendTypes
  BY <1>1, InRun
<1>8. \A p \in Pid : ~In(requests, Begin(p)) /\ ~In(responses, Done(p)) /\ p \notin DOMAIN commands \ answered
  BY <1>1, <1>7 DEF CommandInv
<1>9. ASSUME NEW p \in Pid, NEW c \in Command, Known(p, c) PROVE p \in answered
  <2>1. In(requests, {BeginOf(p, c)}) => In(requests, Begin(p))
    <3>1. BeginOf(p, c) \in Begin(p)
      BY DEF BeginOf, Begin, SessionRequest, Command
    <3> QED
      BY <3>1 DEF In
  <2> QED
    BY <1>8, <1>9, <2>1 DEF Known, BeginOf
<1>10. ASSUME NEW p \in Pid, p \in DOMAIN commands PROVE p < next_id /\ p \in answered
  <2>1. commands[p] \in Command
    BY <1>7, <1>10 DEF BackendTypes
  <2>2. Known(p, commands[p])
    BY <1>10 DEF Known
  <2> QED
    BY <1>7, <1>9, <2>1, <2>2 DEF IdInv
<1> QED
  BY <1>2, <1>3, <1>4, <1>5, <1>6, <1>8, <1>9, <1>10

LEMMA LineIds ==
    ASSUME SInv, NEW plan \in Plans, RunLine(plan), Running'
    PROVE  IdInv'
<1> DEFINE n == Len(plan.steps)
<1>1. /\ next_id \in Nat /\ n \in Nat /\ next_id' = next_id + n + 4
      /\ CwdStdout(plan) = next_id + n /\ CwdStderr(plan) = next_id + n + 1
      /\ CwdStdin(plan) = next_id + n + 2 /\ CwdPid(plan) = next_id + n + 3
      /\ LinePids(plan) \subseteq next_id .. next_id + n - 1
      /\ PlanPipes(plan) \subseteq next_id .. next_id + n - 1
  BY LineFacts
<1>2. IdInv /\ pipes \subseteq Nat /\ Pid \subseteq Nat /\ Pipe = Pid
  BY InRun, LineBegins, SessionAssumption DEF SInv, SessionTypeOK
<1>3. PICK larger \in Plans \ {ExitPlan} :
         larger.outcome = "ok" /\ next_id + IdsTaken(plan) <= (lines + 1) * IdsTaken(larger)
  BY LineStarts
<1>4. next_id' <= lines' * IdsTaken(larger)
  <2>1. lines' = lines + 1
    BY LineStarts
  <2>2. IdsTaken(plan) = n + 4
    BY DEF IdsTaken
  <2>3. next_id' = next_id + IdsTaken(plan)
    BY <1>1, <2>2
  <2> QED
    BY <1>3, <2>1, <2>3
<1>5. ASSUME NEW q \in pipes' PROVE q < next_id'
  <2>1. q \in pipes \/ q \in PlanPipes(plan) \/ q \in {CwdStdout(plan), CwdStderr(plan), CwdStdin(plan)}
    BY <1>5, LineBegins DEF SendPlan, FreshPipes
  <2>2. CASE q \in pipes
    <3>1. q \in Nat /\ q < next_id
      BY <1>2, <2>2 DEF IdInv
    <3> QED
      BY <1>1, <3>1
  <2>3. CASE q \in PlanPipes(plan)
    BY <1>1, <2>3
  <2>4. CASE q \in {CwdStdout(plan), CwdStderr(plan), CwdStdin(plan)}
    BY <1>1, <2>4
  <2> QED
    BY <2>1, <2>2, <2>3, <2>4
<1>6. ASSUME NEW p \in Pid, NEW c \in Command, Known(p, c)'
      PROVE  p < next_id' /\ c.stdout < next_id' /\ c.stderr < next_id'
  <2>1. p \in Nat /\ c.stdout \in Nat /\ c.stderr \in Nat
    BY <1>2 DEF Command
  <2>2. CASE Known(p, c)
    <3>1. p < next_id /\ c.stdout < next_id /\ c.stderr < next_id
      BY <1>2, <2>2 DEF IdInv
    <3> QED
      BY <1>1, <2>1, <3>1
  <2>3. CASE p \in LinePids(plan) /\ ForPlan(plan, c)
    <3>1. /\ c.stdout \in next_id .. next_id + n - 1 /\ c.stderr \in next_id .. next_id + n - 1
          /\ p \in next_id .. next_id + n - 1
      BY <1>1, <2>3 DEF ForPlan
    <3> HIDE DEF n
    <3> QED
      BY <1>1, <3>1
  <2>4. CASE p = CwdPid(plan) /\ c = Directory(plan)
    BY <1>1, <2>1, <2>4 DEF Directory
  <2> QED
    BY <1>6, <2>2, <2>3, <2>4, LineBegins
<1> HIDE DEF n
<1> QED
  BY <1>3, <1>4, <1>5, <1>6 DEF IdInv

LEMMA LineOfLine ==
    ASSUME SInv, NEW plan \in Plans, RunLine(plan), Running'
    PROVE  LineInv'
<1> DEFINE n == Len(plan.steps)
<1>1. /\ next_id \in Nat /\ n \in Nat /\ next_id' = next_id + n + 4
      /\ CwdStdout(plan) = next_id + n /\ CwdStderr(plan) = next_id + n + 1
      /\ CwdPid(plan) = next_id + n + 3
      /\ LinePids(plan) \subseteq next_id .. next_id + n - 1
      /\ \A p \in Pid, c \in Command : Known(p, c) => p \in answered
  BY LineFacts
<1>2. IdInv /\ LineInv /\ Pid \subseteq Nat /\ Pipe = Pid /\ answered' = answered
  BY InRun, LineBegins, SessionAssumption
<1>3. \E p \in Pid, c \in Command : p + 1 = next_id' /\ Known(p, c)' /\ c.kind = "GetDirectory"
  <2>1. PICK p \in Pid, c \in Command : p = CwdPid(plan) /\ c = Directory(plan) /\ Known(p, c)'
    BY LineBegins
  <2>2. p + 1 = next_id' /\ c.kind = "GetDirectory"
    BY <1>1, <2>1 DEF Directory
  <2> QED
    BY <2>1, <2>2
<1> HIDE DEF n
<1>4. ASSUME NEW p \in Pid, NEW c \in Command, Known(p, c)'
      PROVE  /\ p \in Nat /\ c.stdout \in Nat /\ c.stderr \in Nat
             /\ \/ Known(p, c) /\ p < next_id /\ c.stdout < next_id /\ c.stderr < next_id
                \/ /\ p \in LinePids(plan) /\ next_id <= p /\ p < next_id + n
                   /\ c.kind # "GetDirectory"
                   /\ next_id <= c.stdout /\ c.stdout < next_id + n
                   /\ next_id <= c.stderr /\ c.stderr < next_id + n
                \/ /\ p = next_id + n + 3 /\ c.needs = LinePids(plan)
                   /\ c.stdout = next_id + n /\ c.stderr = next_id + n + 1
  <2>1. p \in Nat /\ c.stdout \in Nat /\ c.stderr \in Nat
    BY <1>2 DEF Command
  <2>2. CASE Known(p, c)
    BY <1>2, <2>1, <2>2 DEF IdInv
  <2>3. CASE p \in LinePids(plan) /\ ForPlan(plan, c)
    <3>1. /\ c.kind # "GetDirectory" /\ c.stdout \in next_id .. next_id + n - 1
          /\ c.stderr \in next_id .. next_id + n - 1
      BY <2>3 DEF ForPlan, n
    <3>2. p \in next_id .. next_id + n - 1 /\ next_id \in Nat /\ n \in Nat
      BY <1>1, <2>3
    <3> QED
      BY <2>1, <2>3, <3>1, <3>2
  <2>4. CASE p = CwdPid(plan) /\ c = Directory(plan)
    BY <1>1, <2>1, <2>4 DEF Directory, BlockOn
  <2> QED
    BY <1>4, <2>2, <2>3, <2>4, LineBegins
<1>5. ASSUME NEW p \in Pid, NEW c \in Command, Known(p, c)', c.kind = "GetDirectory",
             NEW o \in Pid, NEW other \in Command, Known(o, other)'
      PROVE  /\ c.stdout + 3 = p
             /\ o < p => o \in answered' \cup c.needs
             /\ o # p => c.stdout \notin {other.stdout, other.stderr}
  <2>1. CASE Known(p, c) /\ p < next_id /\ c.stdout < next_id
    <3>1. c.stdout + 3 = p /\ p \in Nat /\ c.stdout \in Nat
      BY <1>2, <1>4, <1>5, <2>1 DEF LineInv
    <3>2. CASE Known(o, other)
      BY <1>2, <1>5, <2>1, <3>1, <3>2 DEF LineInv
    <3>3. CASE ~Known(o, other)
      <4>1. o \in Nat /\ next_id <= o /\ other.stdout \in Nat /\ next_id <= other.stdout
            /\ other.stderr \in Nat /\ next_id <= other.stderr
        BY <1>1, <1>4, <1>5, <3>3
      <4> QED
        BY <1>1, <2>1, <3>1, <4>1
    <3> QED
      BY <3>2, <3>3
  <2>2. CASE p = next_id + n + 3 /\ c.needs = LinePids(plan) /\ c.stdout = next_id + n
    <3>1. CASE Known(o, other) /\ other.stdout < next_id /\ other.stderr < next_id
      <4>1. o \in answered' /\ other.stdout \in Nat /\ other.stderr \in Nat
        BY <1>1, <1>2, <1>4, <1>5, <3>1
      <4> QED
        BY <1>1, <2>2, <3>1, <4>1
    <3>2. CASE o \in LinePids(plan) /\ other.stdout < next_id + n /\ other.stderr < next_id + n
      <4>1. other.stdout \in Nat /\ other.stderr \in Nat
        BY <1>4, <1>5
      <4> QED
        BY <1>1, <2>2, <3>2, <4>1
    <3>3. CASE o = next_id + n + 3
      BY <1>1, <2>2, <3>3
    <3> QED
      BY <1>4, <1>5, <3>1, <3>2, <3>3
  <2> QED
    BY <1>4, <1>5, <2>1, <2>2
<1>6. ASSUME NEW p \in Pid, NEW c \in Command, Known(p, c)', c.kind = "GetDirectory"
      PROVE  /\ c.stdout + 3 = p
             /\ \A o \in Pid, other \in Command : Known(o, other)' =>
                  /\ o < p => o \in answered' \cup c.needs
                  /\ o # p => c.stdout \notin {other.stdout, other.stderr}
  BY <1>5, <1>6
<1> QED
  BY <1>3, <1>6 DEF LineInv

LEMMA LineWaits ==
    ASSUME SInv, NEW plan \in Plans, RunLine(plan), Running'
    PROVE  CommandInv' /\ EditInv' /\ ReadyInv' /\ IsFiniteSet(waiting_for') /\ waiting_for' \subseteq Pid
<1> DEFINE n == Len(plan.steps)
<1>1. /\ next_id \in Nat /\ n \in Nat /\ next_id' = next_id + n + 4
      /\ 0 .. next_id + n + 3 \subseteq Pid
      /\ CwdPid(plan) = next_id + n + 3
      /\ LinePids(plan) \subseteq next_id .. next_id + n - 1
  BY LineFacts
<1>2. /\ \A p \in Pid : p \in DOMAIN commands => p < next_id /\ p \in answered
      /\ \A p \in Pid : ~In(requests, Begin(p)) /\ ~In(responses, Done(p))
  BY LineFacts
<1>3. /\ UNCHANGED <<commands, answered, editing, responses, waiting_for_remote>>
      /\ PlanIds(plan) /\ SendPlan(plan) /\ Running /\ prompting
  BY LineBegins
<1>4. /\ responses \in Seq(Message) /\ Pid \subseteq Nat /\ Pipe = Pid
      /\ CommandInv /\ EditInv /\ ReadyInv /\ BackendTypes
  BY <1>3, InRun
<1>5. AnswersQuiet /\ EditsQuiet /\ ReadyQuiet
  BY <1>3, <1>4, SameResponses
<1>6. waiting_for' = LinePids(plan) \cup {CwdPid(plan)} /\ ~prompting'
  BY <1>3, LineStarts DEF SendPlan
<1>7. ASSUME NEW p \in Pid
      PROVE  Once(requests', Begin(p)) /\ (In(requests', Begin(p)) => p \in waiting_for' /\ p >= next_id)
  <2> DEFINE E == Begin(p) a == PlanRequests(plan) b == DirectoryRequests(plan) c == SinkRequests(plan)
  <2>1. In(requests', E) <=> In(requests, E) \/ In(a, E) \/ In(b, E) \/ In(c, E)
    BY <1>3, LineSent
  <2>2. ~In(requests, E) /\ ~In(c, E) /\ Once(a, E) /\ Once(b, E) /\ ~(In(a, E) /\ In(b, E)) => Once(requests', E)
    BY <1>3, LineSent
  <2>3. /\ In(a, E) => p \in LinePids(plan)
        /\ In(b, E) => p = CwdPid(plan)
        /\ ~In(c, E) /\ Once(b, E)
    BY <1>3, LineAdds
  <2>4. ~In(requests, E)
    BY <1>2
  <2>5. Once(a, E)
    BY <1>3, <1>4, PlanSent
  <2> HIDE DEF E, a, b, c
  <2>6. p \in LinePids(plan) => p # CwdPid(plan) /\ p >= next_id
    BY <1>1
  <2>7. CwdPid(plan) >= next_id
    BY <1>1
  <2>8. Once(requests', E)
    BY <2>2, <2>3, <2>4, <2>5, <2>6
  <2>9. In(requests', E) => p \in waiting_for' /\ p >= next_id
    BY <1>6, <2>1, <2>3, <2>4, <2>6, <2>7
  <2> QED
    BY <2>8, <2>9 DEF E
<1>8. IsFiniteSet(waiting_for') /\ waiting_for' \subseteq Pid
  <2>1. waiting_for' \subseteq 0 .. next_id + n + 3
    BY <1>1, <1>6
  <2>2. 0 \in Int /\ next_id + n + 3 \in Int
    BY <1>1
  <2>3. IsFiniteSet(0 .. next_id + n + 3)
    BY <2>2, FS_Interval
  <2>4. IsFiniteSet(waiting_for')
    BY <2>1, <2>3, LessIsFinite
  <2> QED
    BY <1>1, <2>1, <2>4
<1>9. CommandInv'
  <2>1. ASSUME NEW p \in Pid
        PROVE  /\ Once(requests', Begin(p)) /\ Once(responses', Done(p))
               /\ In(requests', Begin(p)) => p \notin DOMAIN commands' /\ p \in waiting_for'
               /\ p \in DOMAIN commands' \ answered' => p \in waiting_for'
               /\ In(responses', Done(p)) => p \in answered' \cap waiting_for'
    <3>1. In(requests', Begin(p)) => p \notin DOMAIN commands
      <4>1. p \in Nat /\ next_id \in Nat
        BY <1>1, <1>4
      <4>2. p \in DOMAIN commands => p < next_id
        BY <1>2
      <4> QED
        BY <1>7, <4>1, <4>2
    <3>2. Once(responses', Done(p)) /\ ~In(responses', Done(p))
      BY <1>2, <1>3, <1>4 DEF CommandInv
    <3>3. p \notin DOMAIN commands' \ answered'
      BY <1>2, <1>3
    <3>4. DOMAIN commands' = DOMAIN commands
      BY <1>3
    <3> QED
      BY <1>7, <3>1, <3>2, <3>3, <3>4
  <2> QED
    BY <1>6, <1>8, <2>1 DEF CommandInv
<1>10. FinishesQuiet
  <2>1. ASSUME NEW p \in Pid PROVE Quieter(requests, requests', Finish(p))
    <3> DEFINE E == Finish(p) a == PlanRequests(plan) b == DirectoryRequests(plan) c == SinkRequests(plan)
    <3>1. In(requests', E) <=> In(requests, E) \/ In(a, E) \/ In(b, E) \/ In(c, E)
      BY <1>3, LineSent
    <3>2. Once(requests, E) /\ ~In(a, E) /\ ~In(b, E) /\ ~In(c, E) => Once(requests', E)
      BY <1>3, LineSent
    <3>3. ~In(a, E) /\ ~In(b, E) /\ ~In(c, E)
      BY <1>3, LineAdds
    <3> QED
      BY <3>1, <3>2, <3>3 DEF Quieter
  <2> QED
    BY <2>1 DEF FinishesQuiet
<1>11. EditInv' /\ ReadyInv'
  BY <1>3, <1>4, <1>5, <1>10, EditKept, ReadyKept
<1> QED
  BY <1>8, <1>9, <1>11

LEMMA LinePipes ==
    ASSUME SInv, NEW plan \in Plans, RunLine(plan), Running'
    PROVE  PipeInv' /\ CwdInv'
<1> DEFINE n == Len(plan.steps)
<1>1. /\ next_id \in Nat /\ n \in Nat /\ next_id' = next_id + n + 4
      /\ CwdStdout(plan) = next_id + n /\ CwdStderr(plan) = next_id + n + 1
      /\ 0 .. next_id + n + 3 \subseteq Pid
  BY LineFacts
<1>2. /\ UNCHANGED <<commands, answered, reading, ended, chunks, responses, finished_output, working_dir>>
      /\ PlanIds(plan) /\ SendPlan(plan) /\ Running /\ prompting
  BY LineBegins
<1>3. /\ responses \in Seq(Message) /\ Pid \subseteq Nat /\ Pipe = Pid
      /\ IdInv /\ PipeInv /\ BackendTypes
  BY <1>2, InRun
<1>4. /\ Shown \subseteq pipes /\ DOMAIN gathering_output \subseteq pipes /\ DOMAIN finished_output \subseteq pipes
      /\ DOMAIN cwd_for_remote \subseteq {Root} /\ pipes \subseteq Pipe
      /\ \A q \in pipes : q \in Nat /\ q < next_id
  <2>1. \A q \in pipes : q < next_id
    BY <1>3 DEF IdInv
  <2> QED
    BY <1>3, <2>1 DEF SInv, SessionTypeOK, Shown
<1> HIDE DEF n
<1>5. PICK out, err : out = CwdStdout(plan) /\ err = CwdStderr(plan)
  OBVIOUS
<1>6. /\ waiting_for_eof' = waiting_for_eof \cup {out}
      /\ gathering_output' = Put(gathering_output, out, 0) /\ cwd_for_remote' = Put(cwd_for_remote, Root, out)
      /\ Shown' = Shown \cup SinksTo(plan, "Stdout") \cup SinksTo(plan, "Stderr") \cup {err}
      /\ pipes' = pipes \cup FreshPipes(plan)
  BY <1>2, <1>5 DEF SendPlan, Shown
<1>7. DOMAIN gathering_output' = DOMAIN gathering_output \cup {out} /\ cwd_for_remote'[Root] = out
      /\ DOMAIN cwd_for_remote' = {Root}
  BY <1>4, <1>6 DEF Put
<1>8. /\ out \in Nat /\ err \in Nat /\ out \in pipes' /\ err \in pipes' /\ out \notin pipes /\ err # out /\ out + 4 = next_id'
  <2>1. out \in pipes' /\ err \in pipes'
    BY <1>5, <1>6 DEF FreshPipes
  <2>2. out = next_id + n /\ err = next_id + n + 1
    BY <1>1, <1>5
  <2>3. out \notin pipes
    BY <1>1, <1>4, <2>2
  <2> QED
    BY <1>1, <2>1, <2>2, <2>3
<1>9. ASSUME NEW r \in {0, 1}
      PROVE  PipeId(plan, r) \in Shown' /\ PipeId(plan, r) \in pipes' /\ PipeId(plan, r) # out
  <2>1. PipeId(plan, r) \in PlanPipes(plan) /\ PipeId(plan, r) \in next_id .. next_id + n - 1
    BY <1>2, PipeIds DEF n
  <2>2. plan.sink_map \in [{0, 1} -> {"Stdout", "Stderr"}]
    BY <1>2 DEF PlanIds, IsPlan
  <2>3. PipeId(plan, r) \in SinksTo(plan, "Stdout") \cup SinksTo(plan, "Stderr")
    BY <2>2 DEF SinksTo
  <2> QED
    BY <1>1, <1>5, <1>6, <2>1, <2>3 DEF FreshPipes
<1>10. out \notin Shown'
  <2>1. out \notin Shown
    BY <1>4, <1>8
  <2>2. \A r \in {0, 1} : PipeId(plan, r) # out
    BY <1>9
  <2>3. plan.sink_map \in [{0, 1} -> {"Stdout", "Stderr"}]
    BY <1>2 DEF PlanIds, IsPlan
  <2>4. out \notin SinksTo(plan, "Stdout") /\ out \notin SinksTo(plan, "Stderr")
    BY <2>2, <2>3 DEF SinksTo
  <2> QED
    BY <1>6, <1>8, <2>1, <2>4
<1>11. ASSUME NEW q \in Pipe, In(requests', Read(q)), ~In(requests, Read(q))
       PROVE  q \in pipes' /\ q \in Shown' \cup DOMAIN gathering_output'
  <2> DEFINE E == Read(q) a == PlanRequests(plan) b == DirectoryRequests(plan) c == SinkRequests(plan)
  <2>1. In(requests', E) <=> In(requests, E) \/ In(a, E) \/ In(b, E) \/ In(c, E)
    BY <1>2, LineSent
  <2>2. /\ ~In(a, E)
        /\ In(b, E) => q \in {CwdStdout(plan), CwdStderr(plan)}
        /\ In(c, E) => \E r \in {0, 1} : q = PipeId(plan, r)
    BY <1>2, LineAdds
  <2> HIDE DEF E, a, b, c
  <2>3. q \in {out, err} \/ \E r \in {0, 1} : q = PipeId(plan, r)
    BY <1>5, <1>11, <2>1, <2>2 DEF E
  <2>4. err \in Shown'
    BY <1>6
  <2> QED
    BY <1>7, <1>8, <1>9, <2>3, <2>4
<1>12. PipeInv'
  <2>1. ASSUME NEW q \in Pipe
        PROVE  In(requests', Read(q)) \/ q \in reading' =>
                   /\ q \in pipes'
                   /\ \/ q \in Shown' \cup DOMAIN gathering_output'
                      \/ q \in ended' /\ ~In(responses', {DataOf(q), ClosedOf(q)})
    <3>1. CASE In(requests, Read(q)) \/ q \in reading
      <4>1. /\ q \in pipes
            /\ \/ q \in Shown \cup DOMAIN gathering_output
               \/ q \in ended /\ ~In(responses, {DataOf(q), ClosedOf(q)})
        BY <1>3, <3>1 DEF PipeInv
      <4> QED
        BY <1>2, <1>6, <1>7, <4>1
    <3>2. CASE ~(In(requests, Read(q)) \/ q \in reading)
      BY <1>2, <1>11, <3>2
    <3> QED
      BY <3>1, <3>2
  <2>2. ASSUME NEW q \in Pipe
        PROVE  /\ In(responses', {DataOf(q), ClosedOf(q)}) => q \in reading'
               /\ In(responses', {ClosedOf(q)}) => q \in ended'
               /\ Once(responses', {ClosedOf(q)}) /\ Before(responses', DataOf(q), ClosedOf(q))
               /\ chunks'[q] > 0 => q \in reading'
    BY <1>2, <1>3 DEF PipeInv
  <2>3. ASSUME NEW q \in Pipe
        PROVE  /\ q \in waiting_for_eof' => q \in DOMAIN gathering_output'
               /\ q \in DOMAIN finished_output' => q \in ended' /\ q \notin DOMAIN gathering_output'
    <3>1. /\ q \in waiting_for_eof => q \in DOMAIN gathering_output
          /\ q \in DOMAIN finished_output => q \in ended /\ q \notin DOMAIN gathering_output
      BY <1>3 DEF PipeInv
    <3> QED
      BY <1>2, <1>4, <1>6, <1>7, <1>8, <3>1
  <2> QED
    BY <2>1, <2>2, <2>3 DEF PipeInv
<1>13. CwdInv'
  <2>1. ~prompting'
    BY LineStarts
  <2>2. ASSUME NEW q \in Pipe, q + 4 = next_id' PROVE q = out
    <3>1. q \in Nat
      BY <1>3
    <3> QED
      BY <1>8, <2>2, <3>1
  <2>3. out \in Pipe => ~(chunks'[out] > 0)
    BY <1>2, <1>3, <1>8 DEF PipeInv
  <2>4. \A r \in DOMAIN cwd_for_remote' :
           cwd_for_remote'[r] + 4 = next_id' /\ cwd_for_remote'[r] \in waiting_for_eof' \cup DOMAIN finished_output'
    BY <1>6, <1>7, <1>8
  <2> QED
    BY <1>7, <1>10, <2>1, <2>2, <2>3, <2>4 DEF CwdInv
<1> QED
  BY <1>12, <1>13

-----------------------------------------------------------------------------
(* Types. *)

QueueTypes == requests \in Seq(SessionRequest) /\ responses \in Seq(Message)
TableTypes ==
    /\ next_id \in Nat /\ jobs \subseteq Pid /\ pipes \subseteq Pipe
    /\ waiting_for_remote \subseteq {Root} /\ waiting_for \subseteq Pid /\ waiting_for_eof \subseteq pipes
    /\ IsCount(gathering_output) /\ IsCount(finished_output)
    /\ DOMAIN gathering_output \cup DOMAIN finished_output \subseteq pipes
    /\ DOMAIN cwd_for_remote \subseteq {Root} /\ \A r \in DOMAIN cwd_for_remote : cwd_for_remote[r] \in pipes
    /\ stdout_pipes \cup stderr_pipes \subseteq pipes
    /\ working_dir \subseteq pipes
LoopTypes ==
    prompting \in BOOLEAN /\ lines \in 0 .. MaxLines /\ interrupts \in 0 .. Interrupts /\ outcome \in Outcomes
\* The prompt is shown by a loop that runs.
Prompts == prompting => Running

LEMMA TypeParts == SessionTypeOK <=> QueueTypes /\ TableTypes /\ LoopTypes
  BY DEF SessionTypeOK, QueueTypes, TableTypes, LoopTypes

LEMMA Types == SInv => QueueTypes /\ TableTypes /\ LoopTypes /\ Prompts /\ BackendTypes
  BY TypeParts DEF SInv, Prompts

LEMMA TablesKept ==
    ASSUME TableTypes, UNCHANGED <<endpointVars, outputVars, waitVars>>
    PROVE  TableTypes'
  BY DEF TableTypes, endpointVars, outputVars, waitVars, IsCount

LEMMA BackendKept ==
    ASSUME BackendTypes, UNCHANGED <<jobVars, outVars>>
    PROVE  BackendTypes'
  BY DEF BackendTypes, jobVars, outVars

LEMMA TakeTypes ==
    ASSUME SInv, TakeRequest
    PROVE  QueueTypes' /\ BackendTypes'
<1> DEFINE r == Head(requests)
<1>1. /\ requests # <<>> /\ requests' = Tail(requests) /\ ReceiveRequest(r)
      /\ requests \in Seq(SessionRequest) /\ responses \in Seq(Message) /\ BackendTypes
  BY Types DEF TakeRequest, QueueTypes
<1>2. r \in SessionRequest /\ requests' \in Seq(SessionRequest)
  BY <1>1, Rest
<1> HIDE DEF r
<1>3. CASE r.type = "BeginCommand" /\ ReceiveCommand(r.pid, r.command)
  <2>1. r.pid \in Pid /\ r.command \in Command
    BY <1>2, <1>3 DEF SessionRequest, Command
  <2>2. PICK p \in Pid, c \in Command : p = r.pid /\ c = r.command
    BY <2>1
  <2>3. /\ commands' = [o \in DOMAIN commands \cup {p} |-> IF o = p THEN c ELSE commands[o]]
        /\ UNCHANGED <<answered, editing, reading, ended, chunks, responses>>
    BY <1>3, <2>2 DEF ReceiveCommand, outVars
  <2>4. DOMAIN commands' = DOMAIN commands \cup {p} /\ \A o \in DOMAIN commands' : commands'[o] \in Command
    BY <1>1, <2>2, <2>3 DEF BackendTypes
  <2>5. BackendTypes'
    BY <1>1, <2>3, <2>4 DEF BackendTypes
  <2> QED
    BY <1>1, <1>2, <2>3, <2>5 DEF QueueTypes
<1>4. CASE UNCHANGED <<jobVars, outVars, responses>>
  BY <1>1, <1>2, <1>4, BackendKept DEF QueueTypes
<1>5. CASE r.type = "BeginRead" /\ ReceiveRead(r.pipe)
  <2>1. r.pipe \in Pipe
    BY <1>2, <1>5 DEF SessionRequest
  <2>2. reading' = reading \cup {r.pipe} /\ UNCHANGED <<commands, answered, editing, ended, chunks, responses>>
    BY <1>5 DEF ReceiveRead, jobVars
  <2> QED
    BY <1>1, <1>2, <2>1, <2>2 DEF BackendTypes, QueueTypes
<1>6. CASE r.type = "FinishEdit" /\ ReceiveEdit(r.pid)
  <2>1. PICK p \in Pid : p = r.pid
    BY <1>2, <1>6 DEF SessionRequest
  <2>2. /\ p \in editing /\ editing' = editing \ {p} /\ UNCHANGED <<commands, reading, ended, chunks>>
        /\ \/ answered' = answered \cup {p} /\ responses' = Append(responses, CommandDone(p))
           \/ UNCHANGED <<answered, responses>>
    BY <1>6, <2>1 DEF ReceiveEdit, Respond, outVars
  <2>3. CommandDone(p) \in Message
    BY DEF CommandDone, Message
  <2>4. responses' \in Seq(Message)
    BY <1>1, <2>2, <2>3, Added
  <2>5. BackendTypes'
    BY <1>1, <2>2 DEF BackendTypes
  <2> QED
    BY <1>2, <2>4, <2>5 DEF QueueTypes
<1> QED
  BY <1>1, <1>3, <1>4, <1>5, <1>6 DEF ReceiveRequest, ReceiveFile, ReceiveCancel

LEMMA ByItselfTypes ==
    ASSUME SInv, BackendStep
    PROVE  QueueTypes' /\ BackendTypes'
<1>1. BackendSteps /\ requests' = requests
  BY DEF BackendStep, ByItself
<1>2. requests \in Seq(SessionRequest) /\ responses \in Seq(Message) /\ BackendTypes
  BY Types DEF QueueTypes
<1>3. ASSUME NEW p \in DOMAIN commands, Answer(p) PROVE QueueTypes' /\ BackendTypes'
  <2>1. /\ p \in Pid /\ p \notin answered /\ p \notin editing /\ answered' = answered \cup {p}
        /\ responses' = Append(responses, CommandDone(p))
        /\ UNCHANGED <<commands, editing, reading, ended, chunks>>
    BY <1>2, <1>3 DEF Answer, InProgress, Respond, outVars, BackendTypes
  <2>2. CommandDone(p) \in Message
    BY <2>1 DEF CommandDone, Message
  <2>3. responses' \in Seq(Message)
    BY <1>2, <2>1, <2>2, Added
  <2>4. BackendTypes'
    BY <1>2, <2>1 DEF BackendTypes
  <2> QED
    BY <1>1, <1>2, <2>3, <2>4 DEF QueueTypes
<1>4. ASSUME NEW p \in DOMAIN commands, AskForEdit(p) PROVE QueueTypes' /\ BackendTypes'
  <2> DEFINE m == [type |-> "EditRequest", pid |-> p]
  <2>1. /\ p \in Pid /\ p \notin answered /\ editing' = editing \cup {p}
        /\ responses' = Append(responses, m)
        /\ UNCHANGED <<commands, answered, reading, ended, chunks>>
    BY <1>2, <1>4 DEF AskForEdit, InProgress, Respond, outVars, BackendTypes
  <2>2. m \in Message
    BY <2>1 DEF Message
  <2>3. responses' \in Seq(Message)
    BY <1>2, <2>1, <2>2, Added
  <2>4. BackendTypes'
    BY <1>2, <2>1 DEF BackendTypes
  <2> QED
    BY <1>1, <1>2, <2>3, <2>4 DEF QueueTypes
<1>5. ASSUME NEW p \in DOMAIN commands, DieOnSpawn(p) PROVE QueueTypes' /\ BackendTypes'
  BY <1>1, <1>2, <1>5, BackendKept DEF DieOnSpawn, QueueTypes
<1>6. ASSUME NEW q \in reading, Output(q) PROVE QueueTypes' /\ BackendTypes'
  <2> DEFINE m == [type |-> "Data", pipe |-> q]
  <2>1. /\ q \in Pipe /\ chunks' = [chunks EXCEPT ![q] = @ + 1] /\ responses' = Append(responses, m)
        /\ UNCHANGED <<commands, answered, editing, reading, ended>>
    BY <1>2, <1>6 DEF Output, Respond, jobVars, BackendTypes
  <2>2. m \in Message
    BY <2>1 DEF Message
  <2>3. responses' \in Seq(Message)
    BY <1>2, <2>1, <2>2, Added
  <2>4. BackendTypes'
    BY <1>2, <2>1 DEF BackendTypes
  <2> QED
    BY <1>1, <1>2, <2>3, <2>4 DEF QueueTypes
<1>7. ASSUME NEW q \in reading, End(q) PROVE QueueTypes' /\ BackendTypes'
  <2> DEFINE m == [type |-> "Closed", pipe |-> q]
  <2>1. /\ q \in Pipe /\ ended' = ended \cup {q} /\ responses' = Append(responses, m)
        /\ UNCHANGED <<commands, answered, editing, reading, chunks>>
    BY <1>2, <1>7 DEF End, Respond, jobVars, BackendTypes
  <2>2. m \in Message
    BY <2>1 DEF Message
  <2>3. responses' \in Seq(Message)
    BY <1>2, <2>1, <2>2, Added
  <2>4. BackendTypes'
    BY <1>2, <2>1 DEF BackendTypes
  <2> QED
    BY <1>1, <1>2, <2>3, <2>4 DEF QueueTypes
<1> QED
  BY <1>1, <1>3, <1>4, <1>5, <1>6, <1>7 DEF BackendSteps

\* All but RunInv of SInv.
AllTypes == QueueTypes /\ TableTypes /\ LoopTypes /\ Prompts /\ BackendTypes

LEMMA Assembled == AllTypes /\ (Running => RunInv) <=> SInv
  BY TypeParts DEF SInv, AllTypes, Prompts

\* A step of the backend changes nothing of the frontend's.
LEMMA BackendLeaves ==
    ASSUME SInv, UNCHANGED frontendVars, QueueTypes', BackendTypes'
    PROVE  AllTypes'
<1>1. UNCHANGED <<endpointVars, outputVars, waitVars, prompting, lines, interrupts, outcome>>
  BY DEF frontendVars, loopVars
<1>2. TableTypes'
  BY <1>1, Types, TablesKept
<1>3. LoopTypes' /\ Prompts'
  BY <1>1, Types DEF LoopTypes, Prompts, Running
<1> QED
  BY <1>2, <1>3 DEF AllTypes

LEMMA CtrlCTypes == ASSUME SInv, CtrlC PROVE AllTypes'
<1>1. /\ UNCHANGED <<jobVars, outVars, requests, endpointVars, outputVars, waitVars, prompting, lines, outcome>>
      /\ responses' = Append(responses, [type |-> "CtrlC"]) /\ interrupts < Interrupts /\ interrupts' = interrupts + 1
  BY DEF CtrlC, Respond
<1>2. TableTypes' /\ BackendTypes'
  BY <1>1, Types, TablesKept, BackendKept
<1>3. QueueTypes'
  <2>1. [type |-> "CtrlC"] \in Message /\ requests \in Seq(SessionRequest) /\ responses \in Seq(Message)
    BY Types DEF Message, QueueTypes
  <2> QED
    BY <1>1, <2>1, Added DEF QueueTypes
<1>4. LoopTypes' /\ Prompts'
  BY <1>1, Types, SessionAssumption DEF LoopTypes, Prompts, Running
<1> QED
  BY <1>2, <1>3, <1>4 DEF AllTypes

LEMMA PanicTypes ==
    ASSUME SInv, NEW type, Take(type), NEW why \in Outcomes, Panic(why)
    PROVE  AllTypes'
<1>1. UNCHANGED <<jobVars, outVars, requests, endpointVars, outputVars, waitVars, prompting, lines, interrupts>>
      /\ outcome' = why
  BY DEF Panic
<1>2. ~prompting /\ responses # <<>> /\ responses' = Tail(responses)
  BY DEF Take, Receiving
<1>3. TableTypes' /\ BackendTypes' /\ QueueTypes'
  <2>1. QueueTypes'
    BY <1>1, <1>2, Types, Rest DEF QueueTypes
  <2>2. TableTypes' /\ BackendTypes'
    BY <1>1, Types, TablesKept, BackendKept
  <2> QED
    BY <2>1, <2>2
<1>4. LoopTypes' /\ Prompts'
  BY <1>1, <1>2, Types DEF LoopTypes, Prompts
<1> QED
  BY <1>3, <1>4 DEF AllTypes

\* A message that is handled.
LEMMA HandledTypes ==
    ASSUME SInv, NEW type, Take(type), Handled, requests' \in Seq(SessionRequest), TableTypes'
    PROVE  AllTypes'
<1>1. UNCHANGED <<jobVars, outVars, prompting, lines, interrupts, outcome>>
  BY DEF Handled, loopVars
<1>2. responses' \in Seq(Message)
  BY Types, Rest DEF Take, QueueTypes
<1>3. BackendTypes'
  BY <1>1, Types, BackendKept
<1>4. LoopTypes' /\ Prompts'
  BY <1>1, Types DEF LoopTypes, Prompts, Running
<1> QED
  BY <1>2, <1>3, <1>4 DEF AllTypes, QueueTypes

LEMMA MessageTypes == ASSUME SInv, ReceiveMessage PROVE AllTypes'
<1>1. /\ requests \in Seq(SessionRequest) /\ responses \in Seq(Message) /\ TableTypes
      /\ IsCount(gathering_output) /\ IsCount(finished_output)
  BY Types DEF QueueTypes, TableTypes
<1>2. ASSUME RemoteReady PROVE AllTypes'
  <2>1. Take("RemoteReady") /\ "no remote waiting" \in Outcomes
    BY <1>2 DEF RemoteReady, Outcomes
  <2>2. CASE Panic("no remote waiting")
    BY <2>1, <2>2, PanicTypes
  <2>3. CASE ~Panic("no remote waiting")
    <3>1. /\ waiting_for_remote' = {} /\ UNCHANGED <<jobs, requests, outputVars, waiting_for, waiting_for_eof>>
          /\ Handled
      BY <1>2, <2>3 DEF RemoteReady
    <3>2. TableTypes'
      BY <1>1, <3>1 DEF Handled, TableTypes, outputVars, IsCount
    <3> QED
      BY <1>1, <2>1, <3>1, <3>2, HandledTypes
  <2> QED
    BY <2>2, <2>3
<1>3. ASSUME CommandIsDone PROVE AllTypes'
  <2>1. Take("CommandDone") /\ "not waited for" \in Outcomes
    BY <1>3 DEF CommandIsDone, Outcomes
  <2>2. CASE Panic("not waited for")
    BY <2>1, <2>2, PanicTypes
  <2>3. CASE ~Panic("not waited for")
    <3>1. /\ waiting_for' \subseteq waiting_for
          /\ UNCHANGED <<jobs, requests, outputVars, waiting_for_remote, waiting_for_eof>>
          /\ Handled
      BY <1>3, <2>3 DEF CommandIsDone
    <3>2. TableTypes'
      BY <1>1, <3>1 DEF Handled, TableTypes, outputVars, IsCount
    <3> QED
      BY <1>1, <2>1, <3>1, <3>2, HandledTypes
  <2> QED
    BY <2>2, <2>3
<1>4. ASSUME PipeData PROVE AllTypes'
  <2>1. Take("Data") /\ "unknown pipe" \in Outcomes /\ "bad pipe" \in Outcomes
    BY <1>4 DEF PipeData, Outcomes
  <2>2. CASE Panic("unknown pipe") \/ Panic("bad pipe")
    BY <2>1, <2>2, PanicTypes
  <2>3. CASE ~(Panic("unknown pipe") \/ Panic("bad pipe"))
    <3>1. PICK q : q = Head(responses).pipe
      OBVIOUS
    <3>2. /\ gathering_output' = IF q \in DOMAIN gathering_output
                                 THEN [gathering_output EXCEPT ![q] = @ + 1] ELSE gathering_output
          /\ UNCHANGED <<jobs, requests, finished_output, cwd_for_remote, stdout_pipes, stderr_pipes,
                         working_dir, waitVars>>
          /\ Handled
      BY <1>4, <2>3, <3>1 DEF PipeData
    <3>3. IsCount(gathering_output') /\ DOMAIN gathering_output' = DOMAIN gathering_output
      BY <1>1, <3>2 DEF IsCount
    <3>4. TableTypes'
      BY <1>1, <3>2, <3>3 DEF Handled, TableTypes, waitVars, IsCount
    <3> QED
      BY <1>1, <2>1, <3>2, <3>4, HandledTypes
  <2> QED
    BY <2>2, <2>3
<1>5. ASSUME PipeClosed PROVE AllTypes'
  <2>1. Take("Closed") /\ "unknown pipe" \in Outcomes
    BY <1>5 DEF PipeClosed, Outcomes
  <2>2. CASE Panic("unknown pipe")
    BY <2>1, <2>2, PanicTypes
  <2>3. CASE ~Panic("unknown pipe")
    <3>1. PICK q : q = Head(responses).pipe
      OBVIOUS
    <3>2. /\ waiting_for_eof' \subseteq waiting_for_eof
          /\ IF q \in DOMAIN gathering_output
             THEN /\ finished_output' = Put(finished_output, q, gathering_output[q])
                  /\ gathering_output' = Remove(gathering_output, q)
             ELSE UNCHANGED <<finished_output, gathering_output>>
          /\ UNCHANGED <<jobs, requests, cwd_for_remote, stdout_pipes, stderr_pipes, working_dir,
                         waiting_for_remote, waiting_for>>
          /\ Handled
      BY <1>5, <2>3, <3>1 DEF PipeClosed
    <3>3. /\ IsCount(gathering_output') /\ IsCount(finished_output')
          /\ DOMAIN gathering_output' \cup DOMAIN finished_output' \subseteq
                DOMAIN gathering_output \cup DOMAIN finished_output
      BY <1>1, <3>2 DEF IsCount, Put, Remove
    <3>4. TableTypes'
      BY <1>1, <3>2, <3>3 DEF Handled, TableTypes, IsCount
    <3> QED
      BY <1>1, <2>1, <3>2, <3>4, HandledTypes
  <2> QED
    BY <2>2, <2>3
<1>6. ASSUME EditRequest PROVE AllTypes'
  <2>1. Take("EditRequest") /\ "editor" \in Outcomes /\ "finish_edit: process not running" \in Outcomes
    BY <1>6 DEF EditRequest, Outcomes
  <2>2. CASE Panic("editor") \/ Panic("finish_edit: process not running")
    BY <2>1, <2>2, PanicTypes
  <2>3. CASE ~(Panic("editor") \/ Panic("finish_edit: process not running"))
    <3>1. PICK p : p = Head(responses).pid
      OBVIOUS
    <3>2. /\ p \in jobs /\ requests' = Append(requests, [type |-> "FinishEdit", pid |-> p])
          /\ UNCHANGED <<jobs, outputVars, waitVars>> /\ Handled
      BY <1>6, <2>3, <3>1 DEF EditRequest
    <3>3. [type |-> "FinishEdit", pid |-> p] \in SessionRequest
      BY <1>1, <3>2 DEF TableTypes, SessionRequest
    <3>4. requests' \in Seq(SessionRequest)
      BY <1>1, <3>2, <3>3, Added
    <3>5. TableTypes'
      BY <1>1, <3>2, TablesKept DEF Handled, endpointVars
    <3> QED
      BY <2>1, <3>2, <3>4, <3>5, HandledTypes
  <2> QED
    BY <2>2, <2>3
<1>7. ASSUME Interrupted PROVE AllTypes'
  <2>1. Take("CtrlC") /\ "not ready" \in Outcomes /\ "close_process: process not running" \in Outcomes
    BY <1>7 DEF Interrupted, Outcomes
  <2>2. CASE Panic("not ready") \/ Panic("close_process: process not running")
    BY <2>1, <2>2, PanicTypes
  <2>3. CASE ~(Panic("not ready") \/ Panic("close_process: process not running"))
    <3>1. /\ \E order \in Orders(waiting_for) :
                requests' = requests \o [i \in DOMAIN order |-> [type |-> "CancelCommand", pid |-> order[i]]]
          /\ jobs' = jobs \ waiting_for /\ UNCHANGED <<outputVars, waitVars>> /\ Handled
      BY <1>7, <2>3 DEF Interrupted
    <3>2. IsFiniteSet(waiting_for) /\ waiting_for \subseteq Pid
      BY <1>1, <2>1, InRun DEF Take, Receiving, CommandInv, TableTypes
    <3>3. PICK order \in Orders(waiting_for) :
             requests' = requests \o [i \in DOMAIN order |-> [type |-> "CancelCommand", pid |-> order[i]]]
      BY <3>1
    <3>4. requests' \in Seq(SessionRequest)
      BY <1>1, <3>2, <3>3, CancelsSent
    <3>5. TableTypes'
      BY <1>1, <3>1 DEF Handled, TableTypes, outputVars, waitVars, IsCount
    <3> QED
      BY <2>1, <3>1, <3>4, <3>5, HandledTypes
  <2> QED
    BY <2>2, <2>3
<1> QED
  BY <1>2, <1>3, <1>4, <1>5, <1>6, <1>7 DEF ReceiveMessage

LEMMA PromptTypes == ASSUME SInv, ShowPrompt PROVE AllTypes'
<1>1. TableTypes /\ LoopTypes /\ QueueTypes
  BY Types
<1>2. /\ UNCHANGED <<jobVars, outVars, requests, responses, endpointVars, waitVars>>
      /\ UNCHANGED <<gathering_output, stdout_pipes, stderr_pipes, lines, interrupts>>
      /\ ~prompting /\ Running
  BY DEF ShowPrompt, backendVars
<1>3. BackendTypes' /\ QueueTypes'
  <2>1. QueueTypes'
    BY <1>1, <1>2 DEF QueueTypes
  <2> QED
    BY <1>2, <2>1, Types, BackendKept
<1>4. CASE outcome' = "no output" /\ UNCHANGED <<finished_output, cwd_for_remote, working_dir, prompting>>
  <2>1. UNCHANGED <<endpointVars, outputVars, waitVars>>
    BY <1>2, <1>4 DEF outputVars
  <2>2. TableTypes'
    BY <1>1, <2>1, TablesKept
  <2>3. LoopTypes' /\ Prompts'
    BY <1>1, <1>2, <1>4 DEF LoopTypes, Prompts, Outcomes
  <2> QED
    BY <1>3, <2>2, <2>3 DEF AllTypes
<1>5. CASE ~(outcome' = "no output" /\ UNCHANGED <<finished_output, cwd_for_remote, working_dir, prompting>>)
  <2>1. /\ prompting' = TRUE /\ cwd_for_remote' = EmptyMap /\ UNCHANGED outcome
        /\ finished_output' =
              [q \in DOMAIN finished_output \ {cwd_for_remote[r] : r \in DOMAIN cwd_for_remote} |-> finished_output[q]]
        /\ working_dir' = IF \E r \in DOMAIN cwd_for_remote : finished_output[cwd_for_remote[r]] > 0
                          THEN {cwd_for_remote[Root]} ELSE working_dir
    BY <1>5 DEF ShowPrompt
  <2>2. IsCount(finished_output') /\ DOMAIN finished_output' \subseteq DOMAIN finished_output
    <3>1. IsCount(finished_output)
      BY <1>1 DEF TableTypes
    <3> QED
      BY <2>1, <3>1 DEF IsCount
  <2>3. working_dir' \subseteq pipes
    <3>1. CASE DOMAIN cwd_for_remote = {}
      BY <1>1, <2>1, <3>1 DEF TableTypes
    <3>2. CASE DOMAIN cwd_for_remote # {}
      <4>1. cwd_for_remote[Root] \in pipes
        BY <1>1, <3>2 DEF TableTypes
      <4> QED
        BY <1>1, <2>1, <4>1 DEF TableTypes
    <3> QED
      BY <3>1, <3>2
  <2>4. DOMAIN cwd_for_remote' = {}
    BY <2>1 DEF EmptyMap
  <2>5. TableTypes'
    BY <1>1, <1>2, <2>2, <2>3, <2>4 DEF TableTypes, endpointVars, waitVars, IsCount
  <2>6. LoopTypes' /\ Prompts'
    BY <1>1, <1>2, <2>1 DEF LoopTypes, Prompts, Running
  <2> QED
    BY <1>3, <2>5, <2>6 DEF AllTypes
<1> QED
  BY <1>4, <1>5

LEMMA ExitTypes == ASSUME SInv, Exit PROVE AllTypes' /\ ~Running'
<1>1. /\ UNCHANGED <<jobVars, outVars, requests, responses, endpointVars, outputVars, waitVars, lines, interrupts>>
      /\ prompting' = FALSE /\ outcome' = "exit"
  BY DEF Exit, backendVars
<1>2. QueueTypes' /\ BackendTypes'
  <2>1. QueueTypes'
    BY <1>1, Types DEF QueueTypes
  <2> QED
    BY <1>1, <2>1, Types, BackendKept
<1>3. TableTypes'
  BY <1>1, Types, TablesKept
<1>4. LoopTypes'
  <2>1. lines \in 0 .. MaxLines /\ interrupts \in 0 .. Interrupts /\ "exit" \in Outcomes
    BY Types DEF LoopTypes, Outcomes
  <2> QED
    BY <1>1, <2>1 DEF LoopTypes
<1>5. Prompts' /\ ~Running'
  BY <1>1 DEF Prompts, Running
<1> QED
  BY <1>2, <1>3, <1>4, <1>5 DEF AllTypes

LEMMA LineTypes == ASSUME SInv, NEW plan \in Plans, RunLine(plan) PROVE AllTypes'
<1>1. TableTypes /\ LoopTypes /\ QueueTypes
  BY Types
<1>2. /\ UNCHANGED <<jobVars, outVars, responses, waiting_for_remote, finished_output, working_dir, interrupts>>
      /\ ~prompting' /\ prompting' = FALSE /\ lines < MaxLines /\ lines' = lines + 1
  BY DEF RunLine, backendVars
<1>3. BackendTypes'
  BY <1>2, Types, BackendKept
<1>4. lines' \in 0 .. MaxLines /\ interrupts' \in 0 .. Interrupts
  BY <1>1, <1>2, SessionAssumption DEF LoopTypes
<1>5. CASE plan.outcome = "ok" /\ Runnable(plan)
  <2>1. outcome' = outcome /\ Running /\ Running'
    BY <1>5 DEF RunLine, Running
  <2>2. LoopTypes' /\ Prompts'
    BY <1>1, <1>2, <1>4, <2>1 DEF LoopTypes, Prompts
  <2>3. PlanIds(plan) /\ SendPlan(plan)
    BY <2>1, LineBegins
  <2>4. QueueTypes'
    BY <1>1, <1>2, <2>1, <2>3, LineSent DEF QueueTypes
  <2>5. TableTypes'
    <3>1. /\ next_id' \in Nat
          /\ FreshPipes(plan) \subseteq Pid /\ LinePids(plan) \cup {CwdPid(plan)} \subseteq Pid
          /\ Pipe = Pid
      <4>1. /\ next_id \in Nat /\ Len(plan.steps) \in Nat /\ next_id' = next_id + Len(plan.steps) + 4
            /\ 0 .. next_id + Len(plan.steps) + 3 \subseteq Pid
            /\ CwdStdout(plan) = next_id + Len(plan.steps) /\ CwdStderr(plan) = next_id + Len(plan.steps) + 1
            /\ CwdStdin(plan) = next_id + Len(plan.steps) + 2 /\ CwdPid(plan) = next_id + Len(plan.steps) + 3
            /\ LinePids(plan) \subseteq next_id .. next_id + Len(plan.steps) - 1
            /\ PlanPipes(plan) \subseteq next_id .. next_id + Len(plan.steps) - 1
        BY <2>1, LineFacts
      <4> QED
        BY <4>1, SessionAssumption DEF FreshPipes
    <3>2. PICK out, err : out = CwdStdout(plan) /\ err = CwdStderr(plan)
      OBVIOUS
    <3>3. out \in FreshPipes(plan) /\ err \in FreshPipes(plan)
      BY <3>2 DEF FreshPipes
    <3>4. SinksTo(plan, "Stdout") \subseteq FreshPipes(plan) /\ SinksTo(plan, "Stderr") \subseteq FreshPipes(plan)
      <4>1. \A q \in {0, 1} : PipeId(plan, q) \in PlanPipes(plan)
        BY <2>3, PipeIds
      <4>2. DOMAIN plan.sink_map = {0, 1}
        BY <2>3 DEF PlanIds, IsPlan
      <4> QED
        BY <4>1, <4>2 DEF SinksTo, FreshPipes
    <3>5. /\ pipes' = pipes \cup FreshPipes(plan)
          /\ jobs' = jobs \cup LinePids(plan) \cup {CwdPid(plan)}
          /\ gathering_output' = Put(gathering_output, out, 0)
          /\ waiting_for_eof' = waiting_for_eof \cup {out}
          /\ cwd_for_remote' = Put(cwd_for_remote, Root, out)
          /\ stdout_pipes' = stdout_pipes \cup SinksTo(plan, "Stdout")
          /\ stderr_pipes' = stderr_pipes \cup SinksTo(plan, "Stderr") \cup {err}
          /\ waiting_for' = LinePids(plan) \cup {CwdPid(plan)}
      BY <2>3, <3>2 DEF SendPlan
    <3>6. pipes' \subseteq Pipe /\ jobs' \subseteq Pid /\ waiting_for' \subseteq Pid /\ pipes \subseteq pipes'
          /\ out \in pipes' /\ err \in pipes'
      BY <1>1, <3>1, <3>3, <3>5 DEF TableTypes
    <3>7. IsCount(gathering_output') /\ DOMAIN gathering_output' \subseteq pipes'
      <4>1. IsCount(gathering_output) /\ DOMAIN gathering_output \subseteq pipes
        BY <1>1 DEF TableTypes
      <4> QED
        BY <3>5, <3>6, <4>1 DEF IsCount, Put
    <3>8. DOMAIN cwd_for_remote' \subseteq {Root} /\ \A r \in DOMAIN cwd_for_remote' : cwd_for_remote'[r] \in pipes'
      <4>1. DOMAIN cwd_for_remote \subseteq {Root}
        BY <1>1 DEF TableTypes
      <4> QED
        BY <3>5, <3>6, <4>1 DEF Put
    <3>9. waiting_for_eof' \subseteq pipes' /\ stdout_pipes' \cup stderr_pipes' \subseteq pipes'
      BY <1>1, <3>4, <3>5, <3>6 DEF TableTypes
    <3>10. /\ waiting_for_remote' \subseteq {Root} /\ IsCount(finished_output')
           /\ DOMAIN finished_output' \subseteq pipes' /\ working_dir' \subseteq pipes'
      BY <1>1, <1>2, <3>6 DEF TableTypes, IsCount
    <3> QED
      BY <3>1, <3>6, <3>7, <3>8, <3>9, <3>10 DEF TableTypes, IsCount
  <2> QED
    BY <1>3, <2>2, <2>4, <2>5 DEF AllTypes
<1>6. CASE ~(plan.outcome = "ok" /\ Runnable(plan))
  <2>1. /\ outcome' \in Outcomes
        /\ UNCHANGED <<requests, endpointVars, gathering_output, waiting_for, waiting_for_eof,
                       cwd_for_remote, stdout_pipes, stderr_pipes>>
    BY <1>6 DEF RunLine, Outcomes
  <2>2. UNCHANGED <<endpointVars, outputVars, waitVars>>
    BY <1>2, <2>1 DEF outputVars, waitVars
  <2>3. TableTypes'
    BY <1>1, <2>2, TablesKept
  <2>4. QueueTypes'
    BY <1>1, <1>2, <2>1 DEF QueueTypes
  <2>5. LoopTypes' /\ Prompts'
    BY <1>2, <1>4, <2>1 DEF LoopTypes, Prompts
  <2> QED
    BY <1>3, <2>3, <2>4, <2>5 DEF AllTypes
<1> QED
  BY <1>5, <1>6

-----------------------------------------------------------------------------
(* The invariant. *)

LEMMA LineStep == ASSUME SInv, NEW plan \in Plans, RunLine(plan), Running' PROVE RunInv'
  BY LineIds, LineOfLine, LineWaits, LinePipes DEF RunInv

LEMMA StutterKeeps == ASSUME SInv, UNCHANGED vars PROVE SInv'
<1>1. /\ UNCHANGED <<jobVars, outVars, responses, requests, next_id, pipes, endpointVars, outputVars, waitVars>>
      /\ UNCHANGED <<prompting, lines, interrupts, outcome, commands>>
  BY DEF vars, backendVars, frontendVars, endpointVars, loopVars, jobVars
<1>2. TableTypes' /\ BackendTypes'
  BY <1>1, Types, TablesKept, BackendKept
<1>3. QueueTypes' /\ LoopTypes' /\ Prompts'
  BY <1>1, Types DEF QueueTypes, LoopTypes, Prompts, Running
<1>4. Running' => RunInv'
  <2> SUFFICES ASSUME Running PROVE RunInv'
    BY <1>1 DEF Running
  <2> QED
    BY <1>1, InRun, SameResponses, SameRequests, NothingNew
<1> QED
  BY <1>2, <1>3, <1>4, Assembled DEF AllTypes, SInv, SessionTypeOK, QueueTypes, TableTypes, LoopTypes, Prompts

LEMMA StepKeeps == ASSUME SInv, Next PROVE SInv'
<1>1. AllTypes' /\ (Running' => RunInv') => SInv'
  BY DEF AllTypes, SInv, SessionTypeOK, QueueTypes, TableTypes, LoopTypes, Prompts
<1>2. ASSUME CtrlC PROVE SInv'
  BY <1>1, <1>2, CtrlCTypes, CtrlCStep
<1>3. ASSUME TakeRequest PROVE SInv'
  <2>1. UNCHANGED frontendVars
    BY <1>3 DEF TakeRequest
  <2> QED
    BY <1>1, <1>3, <2>1, TakeTypes, BackendLeaves, TakeStep
<1>4. ASSUME BackendStep PROVE SInv'
  <2>1. UNCHANGED frontendVars
    BY <1>4 DEF BackendStep, ByItself
  <2> QED
    BY <1>1, <1>4, <2>1, ByItselfTypes, BackendLeaves, BackendStepKeeps
<1>5. ASSUME ReceiveMessage PROVE SInv'
  <2>1. AllTypes'
    BY <1>5, MessageTypes
  <2>2. Running' => RunInv'
    BY <1>5, ReadyStep, DoneStep, DataStep, ClosedStep, EditStep, InterruptedStep DEF ReceiveMessage
  <2> QED
    BY <1>1, <2>1, <2>2
<1>6. ASSUME ShowPrompt PROVE SInv'
  BY <1>1, <1>6, PromptTypes, PromptStep
<1>7. ASSUME Exit PROVE SInv'
  BY <1>1, <1>7, ExitTypes
<1>8. ASSUME NEW plan \in Plans, RunLine(plan) PROVE SInv'
  BY <1>1, <1>8, LineTypes, LineStep
<1> QED
  BY <1>2, <1>3, <1>4, <1>5, <1>6, <1>7, <1>8 DEF Next, Loop

LEMMA SInvInit == Init => SInv
<1> SUFFICES ASSUME Init PROVE SInv
  OBVIOUS
<1>1. /\ commands = EmptyMap /\ answered = {} /\ editing = {}
      /\ reading = {} /\ ended = {} /\ chunks = [q \in Pipe |-> 0]
      /\ requests = <<>> /\ next_id = 0 /\ jobs = {} /\ pipes = {}
      /\ waiting_for_remote = {Root} /\ waiting_for = {} /\ waiting_for_eof = {}
      /\ gathering_output = EmptyMap /\ finished_output = EmptyMap /\ cwd_for_remote = EmptyMap
      /\ stdout_pipes = {} /\ stderr_pipes = {} /\ working_dir = {}
      /\ prompting = FALSE /\ lines = 0 /\ outcome = "running"
  BY DEF Init
<1>2. PICK early \in {0, 1} :
         /\ early <= Interrupts /\ interrupts = early
         /\ responses = [i \in 1 .. early |-> [type |-> "CtrlC"]] \o <<[type |-> "RemoteReady"]>>
  BY DEF Init
<1>3. /\ responses \in Seq(Message) /\ Len(responses) = early + 1
      /\ \A i \in DOMAIN responses : responses[i].type = "CtrlC" \/ (i = early + 1 /\ responses[i].type = "RemoteReady")
  <2>1. [type |-> "CtrlC"] \in Message /\ [type |-> "RemoteReady"] \in Message
    BY DEF Message
  <2>2. early \in Nat
    OBVIOUS
  <2>3. PICK s : s = [i \in 1 .. early |-> [type |-> "CtrlC"]]
    OBVIOUS
  <2>4. s \in Seq(Message) /\ Len(s) = early /\ DOMAIN s = 1 .. early /\ \A i \in DOMAIN s : s[i].type = "CtrlC"
    BY <2>1, <2>2, <2>3
  <2>5. PICK m \in Message : m = [type |-> "RemoteReady"]
    BY <2>1
  <2>6. responses = Append(s, m)
    BY <1>2, <2>3, <2>4, <2>5
  <2>7. /\ responses \in Seq(Message) /\ responses[early + 1] = m
        /\ \A i \in DOMAIN s : responses[i] = s[i]
        /\ \A i \in DOMAIN responses : i \in DOMAIN s \/ i = early + 1
    BY <2>4, <2>6, Added
  <2>8. Len(responses) = early + 1
    BY <2>4, <2>6
  <2>9. \A i \in DOMAIN responses :
           responses[i].type = "CtrlC" \/ (i = early + 1 /\ responses[i].type = "RemoteReady")
    <3> SUFFICES ASSUME NEW i \in DOMAIN responses
                 PROVE  responses[i].type = "CtrlC" \/ (i = early + 1 /\ responses[i].type = "RemoteReady")
      OBVIOUS
    <3>1. i \in DOMAIN s => responses[i].type = "CtrlC"
      BY <2>4, <2>7
    <3>2. i = early + 1 => responses[i].type = "RemoteReady"
      <4>1. responses[early + 1] = m /\ m.type = "RemoteReady"
        BY <2>5, <2>7
      <4> QED
        BY <4>1
    <3>3. i \in DOMAIN s \/ i = early + 1
      BY <2>7
    <3> QED
      BY <3>1, <3>2, <3>3
  <2> QED
    BY <2>7, <2>8, <2>9
<1>4. DOMAIN EmptyMap = {}
  BY DEF EmptyMap
<1>5. QueueTypes /\ TableTypes /\ LoopTypes /\ Prompts
  <2>1. QueueTypes
    BY <1>1, <1>3 DEF QueueTypes
  <2>2. TableTypes
    BY <1>1, <1>4 DEF TableTypes, IsCount
  <2>3. LoopTypes /\ Prompts
    <3>1. interrupts \in 0 .. Interrupts /\ lines \in 0 .. MaxLines
      <4>1. MaxLines \in Nat /\ Interrupts \in Nat
        BY SessionAssumption
      <4>2. interrupts \in {0, 1} /\ interrupts <= Interrupts /\ lines = 0
        BY <1>1, <1>2
      <4> QED
        BY <4>1, <4>2
    <3>2. prompting = FALSE /\ outcome = "running"
      BY <1>1
    <3> QED
      BY <3>1, <3>2 DEF LoopTypes, Prompts, Outcomes
  <2> QED
    BY <2>1, <2>2, <2>3
<1>6. BackendTypes
  BY <1>1, <1>4 DEF BackendTypes
<1>7. \A E : ~In(requests, E) /\ Once(requests, E)
  BY <1>1 DEF In, Once
<1>8. /\ \A p \in Pid : ~In(responses, Done(p)) /\ ~In(responses, ToEdit(p))
      /\ \A q \in Pipe : ~In(responses, {DataOf(q), ClosedOf(q)}) /\ ~In(responses, {ClosedOf(q)})
      /\ \A q \in Pipe : Before(responses, DataOf(q), ClosedOf(q))
      /\ Once(responses, Ready)
  <2>1. \A p \in Pid : ~In(responses, Done(p)) /\ ~In(responses, ToEdit(p))
    BY <1>3 DEF In, Done, ToEdit, CommandDone
  <2>2. \A q \in Pipe : ~In(responses, {DataOf(q), ClosedOf(q)}) /\ ~In(responses, {ClosedOf(q)})
    BY <1>3 DEF In, DataOf, ClosedOf
  <2>3. \A q \in Pipe : Before(responses, DataOf(q), ClosedOf(q))
    BY <1>3 DEF Before, DataOf
  <2>4. Once(responses, Ready)
    BY <1>3 DEF Once, Ready
  <2> QED
    BY <2>1, <2>2, <2>3, <2>4
<1>9. \A queue, E : ~In(queue, E) => Once(queue, E)
  BY DEF In, Once
<1>10. \A p, c : ~Known(p, c)
  BY <1>1, <1>4, <1>7 DEF Known
<1>11. IdInv /\ LineInv
  BY <1>1, <1>10 DEF IdInv, LineInv
<1>12. CommandInv
  <2>1. IsFiniteSet({})
    BY FS_EmptySet
  <2> QED
    BY <1>1, <1>4, <1>7, <1>8, <1>9, <2>1 DEF CommandInv
<1>13. EditInv /\ ReadyInv
  BY <1>1, <1>7, <1>8, <1>9 DEF EditInv, ReadyInv
<1>14. PipeInv
  <2>1. ASSUME NEW q \in Pipe
        PROVE  /\ ~In(requests, Read(q)) /\ q \notin reading /\ ~(chunks[q] > 0)
               /\ q \notin waiting_for_eof /\ q \notin DOMAIN finished_output
    BY <1>1, <1>4, <1>7
  <2>2. \A q \in Pipe : Once(responses, {ClosedOf(q)})
    BY <1>8, <1>9
  <2> QED
    BY <1>8, <2>1, <2>2 DEF PipeInv
<1>15. CwdInv
  <2>1. ASSUME NEW q \in Pipe PROVE q + 4 # next_id
    <3>1. q \in Nat /\ next_id = 0
      BY <1>1, SessionAssumption
    <3> QED
      BY <3>1
  <2> QED
    BY <1>1, <1>4, <2>1 DEF CwdInv
<1> QED
  BY <1>5, <1>6, <1>11, <1>12, <1>13, <1>14, <1>15, Assembled DEF AllTypes, RunInv

LEMMA SInvAlways == Spec => []SInv
  BY SInvInit, StepKeeps, StutterKeeps, PTL DEF Spec

\* Every variable has its type, whatever the plans, their number and the interrupts.
THEOREM SessionTypes == Spec => []SessionTypeOK
<1>1. SInv => SessionTypeOK
  BY DEF SInv
<1> QED
  BY <1>1, SInvAlways, PTL

-----------------------------------------------------------------------------
(* What the invariant is for. *)

\* When the loop asks for a line, nothing of the lines before is under way: every command has
\* been answered and every answer and every edit has been dealt with.
THEOREM PromptsWhenDone == Spec => []NothingPending
<1>1. ASSUME SInv, prompting PROVE
        /\ DOMAIN commands \subseteq answered
        /\ \A i \in DOMAIN requests : requests[i].type \notin {"BeginCommand", "FinishEdit"}
        /\ \A i \in DOMAIN responses : responses[i].type \notin {"CommandDone", "EditRequest"}
  <2>1. /\ requests \in Seq(SessionRequest) /\ responses \in Seq(Message)
        /\ BackendTypes /\ CommandInv /\ EditInv /\ waiting_for = {}
    BY <1>1, Types, InRun DEF Prompts, CommandInv
  <2>2. DOMAIN commands \subseteq answered
    BY <2>1 DEF CommandInv, BackendTypes
  <2>3. \A p \in Pid : p \notin editing /\ ~In(requests, Begin(p)) /\ ~In(responses, Done(p))
    BY <2>1, <2>2 DEF CommandInv, BackendTypes
  <2>4. \A p \in Pid : ~In(requests, Finish(p)) /\ ~In(responses, ToEdit(p))
    BY <2>1, <2>3 DEF EditInv
  <2>5. ASSUME NEW i \in DOMAIN requests PROVE requests[i].type \notin {"BeginCommand", "FinishEdit"}
    <3>1. requests[i] \in SessionRequest
      BY <2>1
    <3>2. PICK r \in SessionRequest : r = requests[i]
      BY <3>1
    <3>3. r.type = "BeginCommand" => r.pid \in Pid /\ r \in Begin(r.pid)
      BY DEF SessionRequest, Begin
    <3>4. r.type = "FinishEdit" => r.pid \in Pid /\ r \in Finish(r.pid)
      BY DEF SessionRequest, Finish
    <3> QED
      BY <2>3, <2>4, <3>2, <3>3, <3>4 DEF In
  <2>6. ASSUME NEW i \in DOMAIN responses PROVE responses[i].type \notin {"CommandDone", "EditRequest"}
    <3>1. responses[i] \in Message
      BY <2>1
    <3>2. PICK m \in Message : m = responses[i]
      BY <3>1
    <3>3. m.type = "CommandDone" => m.pid \in Pid /\ m \in Done(m.pid)
      BY DEF Message, Done, CommandDone
    <3>4. m.type = "EditRequest" => m.pid \in Pid /\ m \in ToEdit(m.pid)
      BY DEF Message, ToEdit
    <3> QED
      BY <2>3, <2>4, <3>2, <3>3, <3>4 DEF In
  <2> QED
    BY <2>2, <2>5, <2>6
<1>2. SInv => NothingPending
  BY <1>1 DEF NothingPending
<1> QED
  BY <1>2, SInvAlways, PTL

\* The directory in the prompt is the one that the last GetDirectory told.
THEOREM PromptShowsDirectory == Spec => []PromptIsCurrent
<1>1. ASSUME SInv, prompting, NEW g \in Directories, \A h \in Directories : h <= g, chunks[commands[g].stdout] > 0
      PROVE  working_dir = {commands[g].stdout}
  <2>1. /\ BackendTypes /\ CommandInv /\ IdInv /\ LineInv /\ CwdInv /\ Pid \subseteq Nat /\ Pipe = Pid
        /\ requests \in Seq(SessionRequest) /\ next_id \in Nat
    BY <1>1, Types, InRun DEF Prompts, TableTypes
  <2>2. PICK c : c = commands[g] /\ g \in Pid /\ g \in DOMAIN commands /\ c \in Command /\ c.kind = "GetDirectory"
    BY <2>1 DEF Directories, BackendTypes
  <2>3. Known(g, c)
    BY <2>2 DEF Known
  <2>4. c.stdout + 3 = g
    BY <2>1, <2>2, <2>3 DEF LineInv
  <2>5. g < next_id
    BY <2>1, <2>2, <2>3 DEF IdInv
  <2>6. next_id # 0
    BY <2>1, <2>2, <2>5
  <2>7. PICK p \in Pid, d \in Command : p + 1 = next_id /\ Known(p, d) /\ d.kind = "GetDirectory"
    BY <2>1, <2>6 DEF LineInv
  <2>8. p \in Directories
    <3>1. ~In(requests, Begin(p))
      BY <1>1, <2>1 DEF CommandInv
    <3>2. BeginOf(p, d) \in Begin(p)
      BY DEF BeginOf, Begin, SessionRequest, Command
    <3>3. ~In(requests, {BeginOf(p, d)})
      BY <3>1, <3>2 DEF In
    <3> QED
      BY <2>7, <3>3 DEF Known, BeginOf, Directories
  <2>9. g = p
    BY <1>1, <2>1, <2>2, <2>5, <2>7, <2>8
  <2>10. c.stdout \in Pipe /\ c.stdout + 4 = next_id
    <3>1. c.stdout \in Pipe
      BY <2>2 DEF Command
    <3>2. c.stdout \in Nat /\ p \in Nat /\ c.stdout + 3 = p /\ p + 1 = next_id
      BY <2>1, <2>4, <2>7, <2>9, <3>1
    <3> QED
      BY <3>1, <3>2
  <2> QED
    BY <1>1, <2>1, <2>2, <2>10 DEF CwdInv
<1>2. SInv => PromptIsCurrent
  BY <1>1 DEF PromptIsCurrent
<1> QED
  BY <1>2, SInvAlways, PTL

\* A GetDirectory speaks of the directory after all that was asked before: what it writes
\* comes when every command with a smaller pid has been answered.
THEOREM DirectoryComesLast == Spec => DirectoryAfterCommands
<1> DEFINE Told == \A g \in Directories :
                      LET q == commands[g].stdout
                      IN  chunks'[q] > chunks[q] => \A p \in DOMAIN commands : p < g => p \in answered
<1>1. ASSUME SInv, Next, NEW g \in Directories, NEW q, q = commands[g].stdout, chunks'[q] > chunks[q],
             NEW p \in DOMAIN commands, p < g
      PROVE  p \in answered
  <2>1. BackendTypes /\ Pipe = Pid
    BY <1>1, Types, SessionAssumption
  <2>2. PICK c : c = commands[g] /\ g \in Pid /\ g \in DOMAIN commands /\ c \in Command /\ c.kind = "GetDirectory"
    BY <1>1, <2>1 DEF Directories, BackendTypes
  <2>3. q \in Pipe /\ chunks \in [Pipe -> Nat] /\ chunks' # chunks
    <3>1. q \in Pipe /\ chunks \in [Pipe -> Nat]
      BY <1>1, <2>1, <2>2 DEF Command, BackendTypes
    <3>2. ~(chunks[q] > chunks[q])
      BY <3>1
    <3> QED
      BY <1>1, <3>1, <3>2
  <2>4. ~UNCHANGED outVars
    BY <2>3 DEF outVars
  <2>5. BackendStep \/ TakeRequest
    <3>1. Loop => UNCHANGED outVars
      BY DEF Loop, ReceiveMessage, RemoteReady, CommandIsDone, PipeData, PipeClosed, EditRequest, Interrupted,
             ShowPrompt, Exit, RunLine, Handled, Panic, backendVars
    <3>2. CtrlC => UNCHANGED outVars
      BY DEF CtrlC
    <3> QED
      BY <1>1, <2>4, <3>1, <3>2 DEF Next
  <2>6. ~TakeRequest
    BY <2>3 DEF TakeRequest, ReceiveRequest, ReceiveCommand, ReceiveFile, ReceiveRead, ReceiveCancel, ReceiveEdit, outVars
  <2>7. BackendSteps /\ Running
    BY <2>5, <2>6 DEF BackendStep, ByItself
  <2>8. PICK o \in reading : Output(o)
    BY <2>3, <2>7 DEF BackendSteps, Answer, AskForEdit, DieOnSpawn, End, outVars
  <2>9. o \in Pipe /\ chunks' = [chunks EXCEPT ![o] = @ + 1] /\ \E w \in DOMAIN commands : Writes(w, o)
    BY <2>1, <2>8 DEF Output, BackendTypes
  <2>10. o = q
    <3>1. o # q => chunks'[q] = chunks[q]
      BY <2>3, <2>9
    <3> QED
      BY <1>1, <2>3, <3>1
  <2>11. PICK w \in DOMAIN commands : Writes(w, q)
    BY <2>9, <2>10
  <2>12. PICK d : d = commands[w] /\ w \in Pid /\ d \in Command /\ q \in {d.stdout, d.stderr} /\ d.needs \subseteq answered
    BY <2>1, <2>11 DEF Writes, Begun, BackendTypes
  <2>13. LineInv /\ Known(g, c) /\ Known(w, d)
    BY <1>1, <2>2, <2>7, <2>12, InRun DEF Known
  <2>14. w = g
    BY <1>1, <2>2, <2>12, <2>13 DEF LineInv
  <2>15. PICK e : e = commands[p] /\ p \in Pid /\ e \in Command
    BY <2>1 DEF BackendTypes
  <2>16. Known(p, e)
    BY <2>15 DEF Known
  <2>17. p \in answered \cup c.needs
    BY <1>1, <2>2, <2>13, <2>15, <2>16 DEF LineInv
  <2> QED
    BY <2>2, <2>12, <2>14, <2>17
<1>2. SInv /\ Next => Told
  BY <1>1
<1>3. SInv /\ [Next]_vars => [Told]_vars
  BY <1>2
<1> QED
  BY <1>3, SInvAlways, PTL DEF Spec, DirectoryAfterCommands

Unexpected == {"no remote waiting", "not waited for", "unknown pipe", "bad pipe", "no output"}

\* A handler that takes a message finds what it looks for.
LEMMA HandlersReady ==
    ASSUME SInv, ReceiveMessage
    PROVE  outcome' \notin Unexpected \cup {"plan"}
<1>1. /\ Running /\ responses \in Seq(Message) /\ responses # <<>> /\ Head(responses) \in Message
      /\ ReadyInv /\ CommandInv /\ PipeInv
  <2>1. \E type : Take(type)
    BY DEF ReceiveMessage, RemoteReady, CommandIsDone, PipeData, PipeClosed, EditRequest, Interrupted
  <2> QED
    BY <2>1, Received, InRun
<1>2. Handled => outcome' \notin Unexpected \cup {"plan"}
  BY <1>1 DEF Handled, loopVars, Unexpected, Running
<1>3. ASSUME RemoteReady PROVE Handled
  <2>1. Head(responses) \in Ready
    BY <1>1, <1>3 DEF RemoteReady, Take, Message, Ready
  <2>2. waiting_for_remote = {Root}
    BY <1>1, <2>1, InRest DEF ReadyInv
  <2> QED
    BY <1>3, <2>2 DEF RemoteReady
<1>4. ASSUME CommandIsDone PROVE Handled
  <2>1. PICK p \in Pid : Head(responses) = CommandDone(p)
    BY <1>1, <1>4 DEF CommandIsDone, Take, Message, CommandDone
  <2>2. Head(responses) \in Done(p) /\ Head(responses).pid = p
    BY <2>1 DEF Done, CommandDone
  <2>3. p \in waiting_for
    BY <1>1, <2>2, InRest DEF CommandInv
  <2> QED
    BY <1>4, <2>2, <2>3 DEF CommandIsDone
<1>5. ASSUME PipeData PROVE Handled
  <2>1. PICK q \in Pipe : Head(responses) = DataOf(q)
    BY <1>1, <1>5 DEF PipeData, Take, Message, DataOf
  <2>2. Head(responses) \in {DataOf(q), ClosedOf(q)}
    BY <2>1
  <2>3. In(responses, {DataOf(q), ClosedOf(q)})
    BY <1>1, <2>2, InRest
  <2>4. q \in pipes /\ q \in Shown \cup DOMAIN gathering_output
    BY <1>1, <2>3 DEF PipeInv
  <2>5. Head(responses).pipe = q
    BY <2>1 DEF DataOf
  <2> QED
    BY <1>5, <2>4, <2>5 DEF PipeData, Shown
<1>6. ASSUME PipeClosed PROVE Handled
  <2>1. PICK q \in Pipe : Head(responses) = ClosedOf(q)
    BY <1>1, <1>6 DEF PipeClosed, Take, Message, ClosedOf
  <2>2. Head(responses) \in {DataOf(q), ClosedOf(q)}
    BY <2>1
  <2>3. In(responses, {DataOf(q), ClosedOf(q)})
    BY <1>1, <2>2, InRest
  <2>4. q \in pipes
    BY <1>1, <2>3 DEF PipeInv
  <2>5. Head(responses).pipe = q
    BY <2>1 DEF ClosedOf
  <2> QED
    BY <1>6, <2>4, <2>5 DEF PipeClosed
<1>7. ASSUME EditRequest PROVE outcome' \notin Unexpected \cup {"plan"}
  BY <1>2, <1>7 DEF EditRequest, Panic, Unexpected
<1>8. ASSUME Interrupted PROVE outcome' \notin Unexpected \cup {"plan"}
  BY <1>2, <1>8 DEF Interrupted, Panic, Unexpected
<1> QED
  BY <1>2, <1>3, <1>4, <1>5, <1>6, <1>7, <1>8 DEF ReceiveMessage

\* Whatever the backend sends, and however the user interrupts, the frontend's tables are
\* ready for it: no assertion of a handler and no unwrap of the loop fails on a message.  That
\* none fails on a plan is what is assumed: the plans that can be run are those of the reader.
THEOREM MessagesAreExpected ==
    ASSUME \A plan \in Plans \ {ExitPlan} : plan.outcome = "ok" => Runnable(plan)
    PROVE  Spec => []MessagesExpected
<1> DEFINE Fine == outcome \notin Unexpected \cup {"plan"}
<1>1. Init => Fine
  BY DEF Init, Unexpected
<1>2. ASSUME SInv, Fine, Next PROVE Fine'
  <2>1. outcome' = outcome => Fine'
    BY <1>2
  <2>2. ASSUME CtrlC \/ TakeRequest \/ BackendStep PROVE outcome' = outcome
    BY <2>2 DEF CtrlC, TakeRequest, BackendStep, ByItself, frontendVars, loopVars
  <2>3. ASSUME ReceiveMessage PROVE Fine'
    BY <1>2, <2>3, HandlersReady
  <2>4. ASSUME ShowPrompt PROVE outcome' = outcome
    <3>1. CwdInv /\ waiting_for_eof = {}
      BY <1>2, <2>4, InRun DEF ShowPrompt, Waiting
    <3>2. \A r \in DOMAIN cwd_for_remote : cwd_for_remote[r] \in DOMAIN finished_output
      BY <3>1 DEF CwdInv
    <3> QED
      BY <2>4, <3>2 DEF ShowPrompt
  <2>5. ASSUME Exit PROVE Fine'
    BY <2>5 DEF Exit, Unexpected
  <2>6. ASSUME NEW plan \in Plans, RunLine(plan) PROVE Fine'
    <3>1. outcome' = outcome \/ outcome' = "line"
      BY <2>6 DEF RunLine
    <3> QED
      BY <1>2, <3>1 DEF Unexpected
  <2> QED
    BY <1>2, <2>1, <2>2, <2>3, <2>4, <2>5, <2>6 DEF Next, Loop
<1>3. Fine /\ UNCHANGED vars => Fine'
  BY DEF vars, frontendVars, loopVars
<1>4. Fine => MessagesExpected
  BY DEF MessagesExpected, Unexpected
<1> HIDE DEF Fine
<1>5. SInv /\ Fine /\ [Next]_vars => Fine'
  BY <1>2, <1>3
<1> QED
  BY <1>1, <1>4, <1>5, SInvAlways, PTL DEF Spec
=============================================================================
