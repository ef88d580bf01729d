---------------------------- MODULE ReaderProofs ----------------------------
(***************************************************************************)
(* Proofs about Reader: for every text and all aliases, the plan that is   *)
(* made of a line can be run and sends each output where the line says.    *)
(*                                                                         *)
(* The planner works its way from the end of a line to its beginning, so   *)
(* what is said of a builder is said of the elements of the line behind    *)
(* some place, and proved by induction over their number.                  *)
(***************************************************************************)
EXTENDS Reader, Numbers, FiniteSetTheorems

-----------------------------------------------------------------------------
(* The steps of some types, of a plan and of one that is a step longer.    *)

Among(f, plan_, types, n) ==
    /\ f \in [0 .. n -> Seq(Nat)] /\ f[0] = <<>>
    /\ \A k \in 1 .. n : f[k] = IF plan_.steps[k].type \in types THEN Append(f[k - 1], k) ELSE f[k - 1]

LEMMA StepsAreAmong ==
    ASSUME NEW p, NEW types, Len(p.steps) \in Nat
    PROVE  \E f : Among(f, p, types, Len(p.steps)) /\ StepsOf(p, types) = f[Len(p.steps)]
<1> DEFINE n == Len(p.steps)
           next == [k \in 1 .. n |-> [s \in Seq(Nat) |-> IF p.steps[k].type \in types THEN Append(s, k) ELSE s]]
           Def(f) == f = [k \in 0 .. n |-> IF k = 0 THEN <<>>
                                           ELSE IF p.steps[k].type \in types THEN Append(f[k - 1], k) ELSE f[k - 1]]
           g == CHOOSE f : Def(f)
<1>1. <<>> \in Seq(Nat) /\ next \in [1 .. n -> [Seq(Nat) -> Seq(Nat)]]
  OBVIOUS
<1>2. \A k \in 1 .. n, s \in Seq(Nat) : next[k][s] = IF p.steps[k].type \in types THEN Append(s, k) ELSE s
  OBVIOUS
<1> HIDE DEF next
<1>3. PICK f \in [0 .. n -> Seq(Nat)] : f[0] = <<>> /\ \A k \in 1 .. n : f[k] = next[k][f[k - 1]]
  <2> DEFINE V == Seq(Nat) first == <<>>
  <2>1. n \in Nat /\ first \in V /\ next \in [1 .. n -> [V -> V]]
    BY <1>1
  <2> HIDE DEF n, V, first
  <2>2. \E f \in [0 .. n -> V] : f[0] = first /\ \A k \in 1 .. n : f[k] = next[k][f[k - 1]]
    BY <2>1, Recursion
  <2> QED
    BY <2>2 DEF n, V, first
<1>4. ASSUME NEW k \in 0 .. n
      PROVE  f[k] = IF k = 0 THEN <<>> ELSE IF p.steps[k].type \in types THEN Append(f[k - 1], k) ELSE f[k - 1]
  <2>1. CASE k = 0
    BY <1>3, <2>1
  <2>2. CASE k # 0
    <3>1. k \in 1 .. n /\ k - 1 \in 0 .. n /\ f[k - 1] \in Seq(Nat)
      BY <1>3, <2>2
    <3> QED
      BY <1>2, <1>3, <2>2, <3>1
  <2> QED
    BY <2>1, <2>2
<1>5. Def(f)
  BY <1>3, <1>4
<1>6. Def(g)
  BY <1>5, Zenon
<1>7. /\ DOMAIN g = 0 .. n /\ g = [k \in 0 .. n |-> g[k]] /\ g[0] = <<>>
      /\ \A k \in 1 .. n : g[k] = IF p.steps[k].type \in types THEN Append(g[k - 1], k) ELSE g[k - 1]
  <2>1. g = [k \in 0 .. n |-> IF k = 0 THEN <<>>
                             ELSE IF p.steps[k].type \in types THEN Append(g[k - 1], k) ELSE g[k - 1]]
    BY <1>6
  <2> HIDE DEF g
  <2>2. DOMAIN g = 0 .. n
    BY <2>1
  <2>3. \A k \in 0 .. n : g[k] = IF k = 0 THEN <<>>
                                 ELSE IF p.steps[k].type \in types THEN Append(g[k - 1], k) ELSE g[k - 1]
    BY <2>1
  <2>4. [k \in 0 .. n |-> g[k]] = [k \in 0 .. n |-> IF k = 0 THEN <<>>
                             ELSE IF p.steps[k].type \in types THEN Append(g[k - 1], k) ELSE g[k - 1]]
    BY <2>3
  <2>5. \A k \in 1 .. n : k \in 0 .. n /\ k # 0
    OBVIOUS
  <2>6. g = [k \in 0 .. n |-> g[k]]
    BY <2>1, <2>4
  <2>7. 0 \in 0 .. n
    OBVIOUS
  <2> QED
    BY <2>2, <2>3, <2>5, <2>6, <2>7
<1>9. StepsOf(p, types) = g[n]
  BY DEF StepsOf
<1> HIDE DEF g, Def
<1> DEFINE T == {k \in Nat : k <= n => g[k] \in Seq(Nat)}
<1>10. 0 \in T
  BY <1>7, <1>1
<1>11. ASSUME NEW k \in Nat, k \in T PROVE k + 1 \in T
  <2> SUFFICES ASSUME k + 1 <= n PROVE g[k + 1] \in Seq(Nat)
    OBVIOUS
  <2>1. k + 1 \in 1 .. n /\ (k + 1) - 1 = k /\ g[k] \in Seq(Nat)
    BY <1>11
  <2>2. g[k + 1] = IF p.steps[k + 1].type \in types THEN Append(g[k], k + 1) ELSE g[k]
    BY <1>7, <2>1
  <2>3. k + 1 \in Nat /\ Append(g[k], k + 1) \in Seq(Nat)
    BY <2>1
  <2> QED
    BY <2>1, <2>2, <2>3
<1>12. \A k \in 0 .. n : g[k] \in Seq(Nat)
  <2> HIDE DEF T
  <2>1. Nat \subseteq T
    BY <1>10, <1>11, AllNumbers
  <2> QED
    BY <2>1 DEF T
<1> QED
  BY <1>7, <1>9, <1>12 DEF Among

LEMMA StepsOfNone ==
    ASSUME NEW p, NEW types, p.steps = <<>>
    PROVE  StepsOf(p, types) = <<>>
<1>1. Len(p.steps) = 0
  OBVIOUS
<1> QED
  BY <1>1, StepsAreAmong DEF Among

Longer(p, more, n) ==
    /\ n \in Nat /\ Len(p.steps) = n /\ Len(more.steps) = n + 1
    /\ \A i \in 1 .. n : more.steps[i] = p.steps[i]

LEMMA StepsOfMore ==
    ASSUME NEW p, NEW more, NEW n, Longer(p, more, n), NEW types
    PROVE  StepsOf(more, types) =
             IF more.steps[n + 1].type \in types THEN Append(StepsOf(p, types), n + 1) ELSE StepsOf(p, types)
<1>1. n \in Nat /\ n = Len(p.steps) /\ Len(more.steps) = n + 1 /\ \A i \in 1 .. n : more.steps[i] = p.steps[i]
  BY DEF Longer
<1>2. PICK f : Among(f, p, types, n) /\ StepsOf(p, types) = f[n]
  BY <1>1, StepsAreAmong
<1>3. PICK g : Among(g, more, types, n + 1) /\ StepsOf(more, types) = g[n + 1]
  BY <1>1, StepsAreAmong
<1> DEFINE T == {k \in Nat : k <= n => g[k] = f[k]}
<1>4. 0 \in T
  BY <1>2, <1>3 DEF Among
<1>5. ASSUME NEW k \in Nat, k \in T PROVE k + 1 \in T
  <2> SUFFICES ASSUME k + 1 <= n PROVE g[k + 1] = f[k + 1]
    OBVIOUS
  <2>1. k + 1 \in 1 .. n /\ k + 1 \in 1 .. n + 1 /\ (k + 1) - 1 = k /\ g[k] = f[k]
    BY <1>1, <1>5
  <2>2. more.steps[k + 1] = p.steps[k + 1]
    BY <1>1, <2>1
  <2>3. f[k + 1] = IF p.steps[k + 1].type \in types THEN Append(f[k], k + 1) ELSE f[k]
    BY <1>2, <2>1 DEF Among
  <2>4. g[k + 1] = IF more.steps[k + 1].type \in types THEN Append(g[k], k + 1) ELSE g[k]
    BY <1>3, <2>1 DEF Among
  <2> QED
    BY <2>1, <2>2, <2>3, <2>4
<1>6. g[n] = f[n]
  <2> HIDE DEF T
  <2>1. n \in T
    BY <1>1, <1>4, <1>5, AllNumbers
  <2> QED
    BY <1>1, <2>1 DEF T
<1>7. n + 1 \in 1 .. n + 1 /\ (n + 1) - 1 = n
  BY <1>1
<1>8. g[n + 1] = IF more.steps[n + 1].type \in types THEN Append(g[n], n + 1) ELSE g[n]
  BY <1>3, <1>7 DEF Among
<1> QED
  BY <1>2, <1>3, <1>6, <1>8

\* A plan and a builder with the same steps.
LEMMA StepsOfSame ==
    ASSUME NEW p, NEW q, p.steps = q.steps, NEW types
    PROVE  StepsOf(p, types) = StepsOf(q, types)
<1> DEFINE Places(steps) ==
             LET among[k \in 0 .. Len(steps)] ==
                     IF k = 0 THEN <<>>
                     ELSE IF steps[k].type \in types THEN Append(among[k - 1], k) ELSE among[k - 1]
             IN  among[Len(steps)]
<1>1. StepsOf(p, types) = Places(p.steps) /\ StepsOf(q, types) = Places(q.steps)
  BY DEF StepsOf
<1> HIDE DEF Places
<1> QED
  BY <1>1

-----------------------------------------------------------------------------
(* What is planned: words of a text, in a line, in steps, in a builder.    *)

Item == UNION {{Join(text, i, j) : i, j \in Nat} : text \in Seq(STRING)}
Words == Seq(Item)
Element == [type : {"Command"}, words : Words] \cup [type : {"File"}, path : Item]
Clause == [stream : {"Stdout"}, target : Element]

Step(a) ==
    [type : {"Pipe"}] \cup [type : {"OpenOutputFile"}, path : Item]
    \cup [type : {"Run"}, words : {Expand(a, words).words : words \in Words},
          kind : {"SetDirectory", "Edit", "Unknown"}, stdin : Nat, stdout : Nat, stderr : Nat]
NoSinks == [pipe \in {} |-> ""]
Free == SUBSET {"read", "write"}
Builder(a) ==
    [steps : Seq(Step(a)), sink_map : {NoSinks}, pipes : Seq(Free), outcome : {"ok", "error", "panic"}]
Goal(a) == [prefs : {a}, b : Builder(a), stdout : Nat, stderr : Nat]

Runs(b) == StepsOf(b, {"Run"})
FileSteps(b) == StepsOf(b, {"OpenOutputFile"})

\* The pipes are numbered as their steps are ordered, and what can be read is not a file.
Laid(b) ==
    /\ Len(PipeSteps(b)) = Len(b.pipes)
    /\ \A q \in 1 .. Len(b.pipes) :
          /\ PipeSteps(b)[q] \in 1 .. Len(b.steps)
          /\ "read" \in b.pipes[q] => b.steps[PipeSteps(b)[q]].type = "Pipe"
    /\ \A q, r \in 1 .. Len(b.pipes) : q < r => PipeSteps(b)[q] < PipeSteps(b)[r]

\* The end of a pipe that a step takes is that of a pipe before it, and not free any more.
Taken(b, k, pipe, end) ==
    /\ pipe \in Nat /\ pipe < Len(b.pipes)
    /\ PipeSteps(b)[pipe + 1] < k
    /\ end = "read" => b.steps[PipeSteps(b)[pipe + 1]].type = "Pipe"
    /\ end \notin b.pipes[pipe + 1]
Ran(b) ==
    /\ \A k \in RunSteps(b) :
          /\ Taken(b, k, b.steps[k].stdin, "read")
          /\ Taken(b, k, b.steps[k].stdout, "write")
          /\ Taken(b, k, b.steps[k].stderr, "write")
          /\ b.steps[k].stdout # b.steps[k].stderr
    /\ \A j, k \in RunSteps(b) :
          j # k => /\ b.steps[j].stdin # b.steps[k].stdin
                   /\ b.steps[j].stdout \notin {b.steps[k].stdout, b.steps[k].stderr}
                   /\ b.steps[j].stderr \notin {b.steps[k].stdout, b.steps[k].stderr}

\* The terminal can be read, and what is converted next finds where it is to write to.
Shown(b) == Len(b.pipes) > 1 /\ "read" \in b.pipes[1] /\ "read" \in b.pipes[2]
Writable(b, pipe) == pipe \in Nat /\ pipe < Len(b.pipes) /\ "write" \in b.pipes[pipe + 1]
Ready(to) == to.stdout # to.stderr /\ Writable(to.b, to.stdout) /\ Writable(to.b, to.stderr)

Sound(b) == Laid(b) /\ Ran(b) /\ Shown(b)

\* What is built on what was built before.
Front(s, t) == Len(s) \in Nat /\ Len(t) \in Nat /\ Len(s) <= Len(t) /\ \A i \in 1 .. Len(s) : t[i] = s[i]
Extends(b, c) ==
    /\ Front(b.steps, c.steps) /\ Front(PipeSteps(b), PipeSteps(c))
    /\ Front(Runs(b), Runs(c)) /\ Front(FileSteps(b), FileSteps(c))

LEMMA ExtendsOn ==
    ASSUME NEW b, NEW c, NEW d, Extends(b, c), Extends(c, d)
    PROVE  Extends(b, d)
<1>1. ASSUME NEW s, NEW t, NEW u, Front(s, t), Front(t, u) PROVE Front(s, u)
  BY <1>1 DEF Front
<1> QED
  BY <1>1 DEF Extends

-----------------------------------------------------------------------------
(* One step more.                                                          *)

LEMMA OneStepMore ==
    ASSUME NEW a, NEW b \in Builder(a), NEW step \in Step(a), NEW c, c.steps = Append(b.steps, step), NEW types
    PROVE  /\ Longer(b, c, Len(b.steps)) /\ c.steps[Len(b.steps) + 1] = step /\ Len(b.steps) \in Nat
           /\ StepsOf(b, types) \in Seq(Nat)
           /\ StepsOf(c, types) = IF step.type \in types THEN Append(StepsOf(b, types), Len(b.steps) + 1)
                                  ELSE StepsOf(b, types)
           /\ Front(StepsOf(b, types), StepsOf(c, types))
<1>1. b.steps \in Seq(Step(a))
  BY DEF Builder
<1>2. Longer(b, c, Len(b.steps)) /\ c.steps[Len(b.steps) + 1] = step /\ Len(b.steps) \in Nat
  BY <1>1 DEF Longer
<1>3. StepsOf(b, types) \in Seq(Nat)
  BY <1>2, StepsAreAmong DEF Among
<1>4. StepsOf(c, types) = IF step.type \in types THEN Append(StepsOf(b, types), Len(b.steps) + 1) ELSE StepsOf(b, types)
  BY <1>2, StepsOfMore
<1>5. Front(StepsOf(b, types), StepsOf(c, types))
  BY <1>2, <1>3, <1>4 DEF Front
<1> QED
  BY <1>2, <1>3, <1>4, <1>5

LEMMA PlacesAre ==
    ASSUME NEW a, NEW b \in Builder(a), NEW types
    PROVE  StepsOf(b, types) \in Seq(Nat)
<1>1. Len(b.steps) \in Nat
  BY DEF Builder
<1> QED
  BY <1>1, StepsAreAmong DEF Among

LEMMA ExtendsMore ==
    ASSUME NEW a, NEW b \in Builder(a), NEW step \in Step(a), NEW c, c.steps = Append(b.steps, step)
    PROVE  Extends(b, c)
<1>1. Front(b.steps, c.steps)
  BY DEF Front, Builder
<1> QED
  BY <1>1, OneStepMore DEF Extends, PipeSteps, Runs, FileSteps

\* A pipe or a file.
LEMMA AddsPipe ==
    ASSUME NEW a, NEW b \in Builder(a), NEW step \in Step(a), step.type \in {"Pipe", "OpenOutputFile"},
           NEW free \in Free, "read" \in free => step.type = "Pipe"
    PROVE  LET c == AddStep(b, step, free)
           IN  /\ c \in Builder(a) /\ c.outcome = b.outcome /\ Extends(b, c)
               /\ Len(b.pipes) \in Nat /\ Len(c.pipes) = Len(b.pipes) + 1 /\ c.pipes[Len(b.pipes) + 1] = free
               /\ \A q \in 1 .. Len(b.pipes) : c.pipes[q] = b.pipes[q]
               /\ Runs(c) = Runs(b) /\ RunSteps(c) = RunSteps(b)
               /\ PipeSteps(c) = Append(PipeSteps(b), Len(b.steps) + 1)
               /\ FileSteps(c) = IF step.type = "Pipe" THEN FileSteps(b) ELSE Append(FileSteps(b), Len(b.steps) + 1)
               /\ c.steps = Append(b.steps, step)
<1> DEFINE c == AddStep(b, step, free)
<1>1. /\ b.steps \in Seq(Step(a)) /\ b.pipes \in Seq(Free) /\ b.sink_map = NoSinks
      /\ b.outcome \in {"ok", "error", "panic"}
  BY DEF Builder
<1>2. /\ c.steps = Append(b.steps, step) /\ c.pipes = Append(b.pipes, free) /\ c.outcome = b.outcome
      /\ c \in Builder(a)
  <2> DEFINE steps == Append(b.steps, step) pipes == Append(b.pipes, free)
  <2>1. steps \in Seq(Step(a)) /\ pipes \in Seq(Free)
    BY <1>1
  <2>2. c = [b EXCEPT !.steps = steps, !.pipes = pipes]
    BY DEF AddStep
  <2> HIDE DEF steps, pipes
  <2>3. c.steps = steps /\ c.pipes = pipes /\ c.outcome = b.outcome /\ c \in Builder(a)
    BY <2>1, <2>2 DEF Builder
  <2> QED
    BY <2>3 DEF steps, pipes
<1> HIDE DEF c
<1>3. /\ Len(b.pipes) \in Nat /\ Len(c.pipes) = Len(b.pipes) + 1 /\ c.pipes[Len(b.pipes) + 1] = free
      /\ \A q \in 1 .. Len(b.pipes) : c.pipes[q] = b.pipes[q]
  BY <1>1, <1>2
<1>4. Extends(b, c)
  BY <1>2, ExtendsMore
<1>5. /\ Runs(c) = Runs(b)
      /\ PipeSteps(c) = Append(PipeSteps(b), Len(b.steps) + 1)
      /\ FileSteps(c) = IF step.type = "Pipe" THEN FileSteps(b) ELSE Append(FileSteps(b), Len(b.steps) + 1)
  BY <1>2, OneStepMore DEF Runs, PipeSteps, FileSteps
<1>6. RunSteps(c) = RunSteps(b)
  BY <1>1, <1>2 DEF RunSteps
<1> QED
  BY <1>2, <1>3, <1>4, <1>5, <1>6 DEF c

LEMMA AddsAPipe ==
    ASSUME NEW a, NEW b \in Builder(a)
    PROVE  LET c == AddPipe(b)
           IN  /\ c \in Builder(a) /\ c.outcome = b.outcome /\ Extends(b, c)
               /\ Len(b.pipes) \in Nat /\ Len(c.pipes) = Len(b.pipes) + 1 /\ c.pipes[Len(b.pipes) + 1] = {"read", "write"}
               /\ \A q \in 1 .. Len(b.pipes) : c.pipes[q] = b.pipes[q]
               /\ Runs(c) = Runs(b) /\ RunSteps(c) = RunSteps(b) /\ FileSteps(c) = FileSteps(b)
               /\ PipeSteps(c) = Append(PipeSteps(b), Len(b.steps) + 1)
               /\ c.steps = Append(b.steps, [type |-> "Pipe"])
<1> DEFINE step == [type |-> "Pipe"] free == {"read", "write"} c == AddStep(b, step, free)
<1>1. step \in Step(a) /\ step.type = "Pipe" /\ free \in Free
  BY DEF Step, Free
<1>2. c = AddPipe(b)
  BY DEF AddPipe
<1> HIDE DEF step, free
<1>3. /\ c \in Builder(a) /\ c.outcome = b.outcome /\ Extends(b, c)
      /\ Len(b.pipes) \in Nat /\ Len(c.pipes) = Len(b.pipes) + 1 /\ c.pipes[Len(b.pipes) + 1] = free
      /\ \A q \in 1 .. Len(b.pipes) : c.pipes[q] = b.pipes[q]
      /\ Runs(c) = Runs(b) /\ RunSteps(c) = RunSteps(b) /\ FileSteps(c) = FileSteps(b)
      /\ PipeSteps(c) = Append(PipeSteps(b), Len(b.steps) + 1)
      /\ c.steps = Append(b.steps, step)
  BY <1>1, AddsPipe
<1> HIDE DEF c
<1> QED
  BY <1>2, <1>3 DEF step, free

LEMMA SoundWithPipe ==
    ASSUME NEW a, NEW b \in Builder(a), NEW step \in Step(a), step.type \in {"Pipe", "OpenOutputFile"},
           NEW free \in Free, "read" \in free => step.type = "Pipe", Laid(b), Ran(b)
    PROVE  LET c == AddStep(b, step, free)
           IN  Laid(c) /\ Ran(c) /\ (Shown(b) => Shown(c)) /\ \A pipe : Writable(b, pipe) => Writable(c, pipe)
<1> DEFINE c == AddStep(b, step, free) n == Len(b.steps) m == Len(b.pipes)
<1>1. /\ c \in Builder(a) /\ m \in Nat /\ Len(c.pipes) = m + 1 /\ c.pipes[m + 1] = free
      /\ \A q \in 1 .. m : c.pipes[q] = b.pipes[q]
      /\ RunSteps(c) = RunSteps(b)
      /\ PipeSteps(c) = Append(PipeSteps(b), n + 1) /\ c.steps = Append(b.steps, step)
  BY AddsPipe
<1> HIDE DEF c
<1>2. b.steps \in Seq(Step(a)) /\ n \in Nat
  BY DEF Builder
<1>3. PipeSteps(b) \in Seq(Nat) /\ Len(PipeSteps(b)) = m
  BY <1>1, OneStepMore DEF PipeSteps, Laid
<1>4. /\ Len(c.steps) = n + 1 /\ c.steps[n + 1] = step
      /\ \A k \in 1 .. n : c.steps[k] = b.steps[k]
  BY <1>1, <1>2
<1>5. /\ Len(PipeSteps(c)) = m + 1 /\ PipeSteps(c)[m + 1] = n + 1
      /\ \A q \in 1 .. m : PipeSteps(c)[q] = PipeSteps(b)[q]
  BY <1>1, <1>2, <1>3
<1>6. Laid(c)
  <2>1. ASSUME NEW q \in 1 .. m + 1
        PROVE  PipeSteps(c)[q] \in 1 .. n + 1 /\ ("read" \in c.pipes[q] => c.steps[PipeSteps(c)[q]].type = "Pipe")
    BY <1>1, <1>2, <1>4, <1>5, <2>1 DEF Laid
  <2>2. ASSUME NEW q \in 1 .. m + 1, NEW r \in 1 .. m + 1, q < r PROVE PipeSteps(c)[q] < PipeSteps(c)[r]
    BY <1>1, <1>2, <1>4, <1>5, <2>2 DEF Laid
  <2> QED
    BY <1>1, <1>4, <1>5, <2>1, <2>2 DEF Laid
<1>7. ASSUME NEW k \in Nat, NEW pipe, NEW end, Taken(b, k, pipe, end) PROVE Taken(c, k, pipe, end)
  <2>1. pipe \in Nat /\ pipe < m /\ pipe + 1 \in 1 .. m /\ PipeSteps(b)[pipe + 1] \in 1 .. n
    BY <1>1, <1>7 DEF Taken, Laid
  <2> QED
    BY SMTT(20), <1>1, <1>4, <1>5, <1>7, <2>1 DEF Taken
<1>8. \A k \in RunSteps(b) : k \in Nat /\ c.steps[k] = b.steps[k]
  BY <1>2, <1>4 DEF RunSteps
<1>9. Ran(c)
  BY <1>1, <1>7, <1>8 DEF Ran
<1>10. Shown(b) => Shown(c)
  BY SMTT(20), <1>1 DEF Shown
<1>11. \A pipe : Writable(b, pipe) => Writable(c, pipe)
  BY SMTT(20), <1>1 DEF Writable
<1> QED
  BY <1>6, <1>9, <1>10, <1>11 DEF c

-----------------------------------------------------------------------------
(* A command.                                                              *)

Less(free, end) == free \ {end}
Without(pipes, i, end) == [pipes EXCEPT ![i] = @ \ {end}]

LEMMA TakenFrom ==
    ASSUME NEW pipes \in Seq(Free), NEW i \in Nat, NEW end
    PROVE  LET taken == Without(pipes, i, end)
           IN  /\ taken \in Seq(Free) /\ Len(taken) = Len(pipes)
               /\ \A q \in 1 .. Len(pipes) : taken[q] = IF q = i THEN Less(pipes[q], end) ELSE pipes[q]
<1> DEFINE n == Len(pipes) taken == Without(pipes, i, end)
<1>1. pipes \in [1 .. n -> Free] /\ n \in Nat
  OBVIOUS
<1>2. Len(taken) = n
  BY DEF Free, Without, Less
<1>3. taken = [q \in 1 .. n |-> IF q = i THEN Less(pipes[q], end) ELSE pipes[q]]
  BY <1>1 DEF Free, Without, Less
<1>4. \A q \in 1 .. n : (IF q = i THEN Less(pipes[q], end) ELSE pipes[q]) \in Free
  BY <1>1 DEF Free, Less
<1> HIDE DEF taken
<1>5. taken \in [1 .. n -> Free] /\ \A q \in 1 .. n : taken[q] = IF q = i THEN Less(pipes[q], end) ELSE pipes[q]
  BY <1>3, <1>4
<1>6. taken \in Seq(Free)
  BY <1>1, <1>5
<1> QED
  BY <1>2, <1>5, <1>6 DEF taken

LEMMA UsesEnd ==
    ASSUME NEW a, NEW b \in Builder(a), NEW pipe \in Nat, NEW end \in {"read", "write"}
    PROVE  LET c == UseEnd(b, pipe, end)
           IN  /\ c \in Builder(a) /\ c.steps = b.steps /\ Len(c.pipes) = Len(b.pipes)
               /\ b.outcome # "ok" => c.outcome # "ok"
               /\ pipe < Len(b.pipes) /\ end \in b.pipes[pipe + 1] =>
                    /\ c.outcome = b.outcome
                    /\ \A q \in 1 .. Len(b.pipes) :
                          c.pipes[q] = IF q = pipe + 1 THEN Less(b.pipes[q], end) ELSE b.pipes[q]
<1> DEFINE c == UseEnd(b, pipe, end)
<1>1. /\ b.steps \in Seq(Step(a)) /\ b.pipes \in Seq(Free) /\ b.sink_map = NoSinks
      /\ b.outcome \in {"ok", "error", "panic"}
  BY DEF Builder
<1>2. CASE end \in b.pipes[pipe + 1]
  <2> DEFINE left == Without(b.pipes, pipe + 1, end)
  <2>1. c = [b EXCEPT !.pipes = left]
    BY <1>2 DEF UseEnd, Without
  <2>2. /\ left \in Seq(Free) /\ Len(left) = Len(b.pipes)
        /\ \A q \in 1 .. Len(b.pipes) : left[q] = IF q = pipe + 1 THEN Less(b.pipes[q], end) ELSE b.pipes[q]
    <3>1. pipe + 1 \in Nat
      OBVIOUS
    <3> QED
      BY <1>1, <3>1, TakenFrom
  <2> HIDE DEF left
  <2>4. c = [steps |-> b.steps, sink_map |-> NoSinks, pipes |-> left, outcome |-> b.outcome]
    BY <2>1 DEF Builder
  <2> HIDE DEF c
  <2>5. c \in Builder(a)
    BY <1>1, <2>2, <2>4 DEF Builder
  <2> QED
    BY <2>2, <2>4, <2>5 DEF c
<1>3. CASE end \notin b.pipes[pipe + 1]
  <2>1. c = Fail(b, "panic")
    BY <1>3 DEF UseEnd
  <2>2. c = [steps |-> b.steps, sink_map |-> NoSinks, pipes |-> b.pipes,
             outcome |-> IF b.outcome = "ok" THEN "panic" ELSE b.outcome]
    BY <2>1 DEF Fail, Builder
  <2> HIDE DEF c
  <2>3. c \in Builder(a)
    BY <1>1, <2>2 DEF Builder
  <2> QED
    BY <1>1, <1>3, <2>2, <2>3 DEF c
<1> QED
  BY <1>2, <1>3

\* The builder of a command, before its own step: a pipe, the three ends taken.
Used(b, pipe, stdout, stderr) ==
    UseEnd(UseEnd(UseEnd(AddPipe(b), pipe, "read"), stdout, "write"), stderr, "write")

LEMMA UsesEnds ==
    ASSUME NEW a, NEW to \in Goal(a)
    PROVE  LET n == Len(to.b.pipes)
               c == Used(to.b, n, to.stdout, to.stderr)
           IN  /\ c \in Builder(a) /\ c.steps = AddPipe(to.b).steps /\ n \in Nat /\ Len(c.pipes) = n + 1
               /\ to.b.outcome # "ok" => c.outcome # "ok"
               /\ Ready(to) =>
                    /\ c.outcome = to.b.outcome /\ c.pipes[n + 1] = {"write"}
                    /\ \A q \in 1 .. n :
                          c.pipes[q] = IF q - 1 \in {to.stdout, to.stderr} THEN Less(to.b.pipes[q], "write") ELSE to.b.pipes[q]
<1> DEFINE n == Len(to.b.pipes)
           b0 == AddPipe(to.b)
           b1 == UseEnd(b0, n, "read")
           b2 == UseEnd(b1, to.stdout, "write")
           b3 == UseEnd(b2, to.stderr, "write")
<1>1. to.b \in Builder(a) /\ to.stdout \in Nat /\ to.stderr \in Nat
  BY DEF Goal
<1>2. /\ b0 \in Builder(a) /\ b0.outcome = to.b.outcome /\ n \in Nat /\ Len(b0.pipes) = n + 1
      /\ b0.pipes[n + 1] = {"read", "write"}
      /\ \A q \in 1 .. n : b0.pipes[q] = to.b.pipes[q]
  BY <1>1, AddsAPipe
<1>0. ASSUME Ready(to)
      PROVE  /\ to.stdout < n /\ to.stderr < n /\ to.stdout # to.stderr
             /\ "write" \in to.b.pipes[to.stdout + 1] /\ "write" \in to.b.pipes[to.stderr + 1]
  BY <1>0 DEF Ready, Writable
<1> HIDE DEF b0, n
<1>3. /\ b1 \in Builder(a) /\ b1.steps = b0.steps /\ Len(b1.pipes) = n + 1
      /\ b0.outcome # "ok" => b1.outcome # "ok"
      /\ b1.outcome = b0.outcome
      /\ b1.pipes[n + 1] = {"write"} /\ \A q \in 1 .. n : b1.pipes[q] = to.b.pipes[q]
  <2>1. n < Len(b0.pipes) /\ "read" \in b0.pipes[n + 1] /\ n + 1 \in 1 .. Len(b0.pipes)
        /\ \A q \in 1 .. n : q \in 1 .. Len(b0.pipes) /\ q # n + 1
    BY <1>2
  <2>2. /\ b1 \in Builder(a) /\ b1.steps = b0.steps /\ Len(b1.pipes) = Len(b0.pipes)
        /\ b1.outcome = b0.outcome
        /\ \A q \in 1 .. Len(b0.pipes) :
              b1.pipes[q] = IF q = n + 1 THEN Less(b0.pipes[q], "read") ELSE b0.pipes[q]
    BY <1>2, <2>1, UsesEnd DEF b1
  <2> HIDE DEF b1
  <2>3. b1.pipes[n + 1] = Less({"read", "write"}, "read")
    BY <1>2, <2>1, <2>2
  <2>4. \A q \in 1 .. n : b1.pipes[q] = to.b.pipes[q]
    BY <1>2, <2>1, <2>2
  <2> QED
    BY <1>2, <2>2, <2>3, <2>4 DEF Less
<1> HIDE DEF b1
<1>4. /\ b2 \in Builder(a) /\ b2.steps = b1.steps /\ Len(b2.pipes) = n + 1
      /\ b1.outcome # "ok" => b2.outcome # "ok"
      /\ Ready(to) => /\ b2.outcome = b1.outcome
                      /\ \A q \in 1 .. n + 1 :
                            b2.pipes[q] = IF q = to.stdout + 1 THEN Less(b1.pipes[q], "write") ELSE b1.pipes[q]
  <2>1. /\ b2 \in Builder(a) /\ b2.steps = b1.steps /\ Len(b2.pipes) = n + 1
        /\ b1.outcome # "ok" => b2.outcome # "ok"
    BY <1>1, <1>3, UsesEnd
  <2>2. ASSUME Ready(to) PROVE to.stdout < Len(b1.pipes) /\ "write" \in b1.pipes[to.stdout + 1]
    <3>1. to.stdout + 1 \in 1 .. n /\ to.stdout < n + 1
      BY <1>0, <1>1, <1>2, <2>2
    <3>2. b1.pipes[to.stdout + 1] = to.b.pipes[to.stdout + 1]
      BY <1>3, <3>1
    <3> QED
      BY <1>0, <1>3, <2>2, <3>1, <3>2
  <2>3. ASSUME Ready(to)
        PROVE  /\ b2.outcome = b1.outcome
               /\ \A q \in 1 .. n + 1 :
                     b2.pipes[q] = IF q = to.stdout + 1 THEN Less(b1.pipes[q], "write") ELSE b1.pipes[q]
    BY <1>1, <1>3, <2>2, <2>3, UsesEnd
  <2> QED
    BY <2>1, <2>3
<1> HIDE DEF b2
<1>5. /\ b3 \in Builder(a) /\ b3.steps = b2.steps /\ Len(b3.pipes) = n + 1
      /\ b2.outcome # "ok" => b3.outcome # "ok"
      /\ Ready(to) => /\ b3.outcome = b2.outcome
                      /\ \A q \in 1 .. n + 1 :
                            b3.pipes[q] = IF q = to.stderr + 1 THEN Less(b2.pipes[q], "write") ELSE b2.pipes[q]
  <2>1. /\ b3 \in Builder(a) /\ b3.steps = b2.steps /\ Len(b3.pipes) = n + 1
        /\ b2.outcome # "ok" => b3.outcome # "ok"
    BY <1>1, <1>4, UsesEnd
  <2>2. ASSUME Ready(to) PROVE to.stderr < Len(b2.pipes) /\ "write" \in b2.pipes[to.stderr + 1]
    <3>1. to.stderr + 1 \in 1 .. n /\ to.stderr + 1 \in 1 .. n + 1 /\ to.stderr + 1 # to.stdout + 1 /\ to.stderr < n + 1
      BY <1>0, <1>1, <1>2, <2>2
    <3>2. b2.pipes[to.stderr + 1] = to.b.pipes[to.stderr + 1]
      BY <1>3, <1>4, <2>2, <3>1
    <3> QED
      BY <1>0, <1>4, <2>2, <3>1, <3>2
  <2>3. ASSUME Ready(to)
        PROVE  /\ b3.outcome = b2.outcome
               /\ \A q \in 1 .. n + 1 :
                     b3.pipes[q] = IF q = to.stderr + 1 THEN Less(b2.pipes[q], "write") ELSE b2.pipes[q]
    BY <1>1, <1>4, <2>2, <2>3, UsesEnd
  <2> QED
    BY <2>1, <2>3
<1> HIDE DEF b3
<1>6. b3 = Used(to.b, n, to.stdout, to.stderr)
  BY DEF b0, b1, b2, b3, Used, n
<1>7. ASSUME Ready(to)
      PROVE  /\ b3.pipes[n + 1] = {"write"}
             /\ \A q \in 1 .. n :
                   b3.pipes[q] = IF q - 1 \in {to.stdout, to.stderr} THEN Less(to.b.pipes[q], "write") ELSE to.b.pipes[q]
  <2>1. to.stdout \in Nat /\ to.stderr \in Nat /\ to.stdout < n /\ to.stderr < n /\ n + 1 \in 1 .. n + 1
    BY <1>0, <1>1, <1>2, <1>7
  <2>2. n + 1 # to.stdout + 1 /\ n + 1 # to.stderr + 1
    BY <1>2, <2>1
  <2>3. b3.pipes[n + 1] = {"write"}
    BY <1>3, <1>4, <1>5, <1>7, <2>1, <2>2
  <2>4. ASSUME NEW q \in 1 .. n
        PROVE  b3.pipes[q] = IF q - 1 \in {to.stdout, to.stderr} THEN Less(to.b.pipes[q], "write") ELSE to.b.pipes[q]
    <3>1. q \in 1 .. n + 1 /\ (q = to.stdout + 1 <=> q - 1 = to.stdout) /\ (q = to.stderr + 1 <=> q - 1 = to.stderr)
      BY <1>2, <2>1
    <3>2. /\ b1.pipes[q] = to.b.pipes[q]
          /\ b2.pipes[q] = IF q = to.stdout + 1 THEN Less(b1.pipes[q], "write") ELSE b1.pipes[q]
          /\ b3.pipes[q] = IF q = to.stderr + 1 THEN Less(b2.pipes[q], "write") ELSE b2.pipes[q]
      BY <1>3, <1>4, <1>5, <1>7, <3>1
    <3>3. CASE q - 1 = to.stdout
      BY <1>0, <1>7, <3>1, <3>2, <3>3
    <3>4. CASE q - 1 = to.stderr
      BY <1>0, <1>7, <3>1, <3>2, <3>4
    <3>5. CASE q - 1 # to.stdout /\ q - 1 # to.stderr
      BY <3>1, <3>2, <3>5
    <3> QED
      BY <3>3, <3>4, <3>5
  <2> QED
    BY <2>3, <2>4
<1> QED
  BY <1>2, <1>3, <1>4, <1>5, <1>6, <1>7 DEF b0, n

Failing == {"error", "panic"}

LEMMA KindIs ==
    ASSUME NEW a, NEW words
    PROVE  Kind(a, words) \in Failing \cup {"SetDirectory", "Edit", "Unknown"}
<1>1. ASSUME NEW w PROVE KindOf(w) \in Failing \cup {"SetDirectory", "Edit", "Unknown"}
  BY DEF KindOf, Failing
<1> QED
  BY <1>1 DEF Kind, Failing

RunOn(a, words, to) ==
    [type |-> "Run", words |-> Expand(a, words).words, kind |-> Kind(a, words),
     stdin |-> Len(to.b.pipes), stdout |-> to.stdout, stderr |-> to.stderr]

\* The builder after a command, if nothing fails.
Converted(a, words, to) ==
    LET c == Used(to.b, Len(to.b.pipes), to.stdout, to.stderr)
    IN  [c EXCEPT !.steps = Append(AddPipe(to.b).steps, RunOn(a, words, to))]

LEMMA ConvertsOrFails ==
    ASSUME NEW a, NEW to \in Goal(a), NEW words \in Words
    PROVE  LET r == ConvertCommand(words, to)
           IN  /\ r.b \in Builder(a) /\ r.stdin = Len(to.b.pipes) /\ r.stdin \in Nat
               /\ to.b.outcome # "ok" => r.b.outcome # "ok"
               /\ Kind(a, words) \in Failing => r.b.outcome # "ok"
               /\ Kind(a, words) \notin Failing => r.b = Converted(a, words, to) /\ RunOn(a, words, to) \in Step(a)
               /\ Kind(a, words) \notin Failing /\ Ready(to) => r.b.outcome = to.b.outcome
<1> DEFINE r == ConvertCommand(words, to) n == Len(to.b.pipes) b0 == AddPipe(to.b)
           c == Used(to.b, n, to.stdout, to.stderr)
<1>1. to.prefs = a /\ to.b \in Builder(a) /\ to.stdout \in Nat /\ to.stderr \in Nat
  BY DEF Goal
<1>2. b0 \in Builder(a) /\ b0.outcome = to.b.outcome /\ n \in Nat
  BY <1>1, AddsAPipe
<1>3. /\ c \in Builder(a) /\ c.steps = b0.steps
      /\ to.b.outcome # "ok" => c.outcome # "ok"
      /\ Ready(to) => c.outcome = to.b.outcome
  BY UsesEnds
<1>4. r.stdin = n
  BY DEF ConvertCommand, NextPipe
<1>5. CASE Kind(a, words) \in Failing
  <2> DEFINE kind == Kind(a, words)
  <2>1. r.b = Fail(b0, kind)
    BY <1>1, <1>5 DEF ConvertCommand, Failing
  <2>2. kind \in {"error", "panic"}
    BY <1>5 DEF Failing
  <2> HIDE DEF kind, b0, r
  <2>3. r.b \in Builder(a) /\ r.b.outcome # "ok"
    <3>1. CASE b0.outcome = "ok"
      <4>1. r.b = [b0 EXCEPT !.outcome = kind]
        BY <2>1, <3>1 DEF Fail
      <4> QED
        BY <1>2, <2>2, <4>1 DEF Builder
    <3>2. CASE b0.outcome # "ok"
      BY <1>2, <2>1, <3>2 DEF Fail
    <3> QED
      BY <3>1, <3>2
  <2> QED
    BY <1>2, <1>4, <1>5, <2>3 DEF r
<1>6. CASE Kind(a, words) \notin Failing
  <2>1. RunOn(a, words, to) \in Step(a)
    <3>1. Kind(a, words) \in {"SetDirectory", "Edit", "Unknown"}
      BY <1>6, KindIs
    <3> QED
      BY <1>1, <1>2, <3>1 DEF RunOn, Step
  <2>2. r.b = AddCommand(b0, Expand(a, words).words, Kind(a, words), n, to.stdout, to.stderr)
    BY <1>1, <1>6 DEF ConvertCommand, Failing, NextPipe
  <2>3. r.b = [c EXCEPT !.steps = Append(c.steps, RunOn(a, words, to))]
    BY <2>2 DEF AddCommand, Used, RunOn
  <2>4. r.b = Converted(a, words, to)
    BY <1>3, <2>3 DEF Converted
  <2> DEFINE steps == Append(c.steps, RunOn(a, words, to))
  <2> HIDE DEF c, r
  <2>5. steps \in Seq(Step(a))
    BY <1>3, <2>1 DEF Builder
  <2> HIDE DEF steps
  <2>6. r.b \in Builder(a) /\ r.b.outcome = c.outcome
    <3>1. r.b = [c EXCEPT !.steps = steps]
      BY <2>3 DEF steps
    <3> QED
      BY <1>3, <2>5, <3>1 DEF Builder
  <2> QED
    BY <1>2, <1>3, <1>4, <1>6, <2>1, <2>4, <2>6 DEF r
<1> QED
  BY <1>5, <1>6

LEMMA ConvertedIs ==
    ASSUME NEW a, NEW to \in Goal(a), NEW words \in Words, RunOn(a, words, to) \in Step(a),
           Converted(a, words, to) \in Builder(a), Laid(to.b), Ran(to.b), Ready(to)
    PROVE  LET b == to.b
               c == Converted(a, words, to)
               n == Len(b.pipes)
               k == Len(b.steps)
           IN  /\ n \in Nat /\ k \in Nat /\ Len(c.pipes) = n + 1 /\ c.pipes[n + 1] = {"write"}
               /\ \A q \in 1 .. n :
                     c.pipes[q] = IF q - 1 \in {to.stdout, to.stderr} THEN Less(b.pipes[q], "write") ELSE b.pipes[q]
               /\ Len(c.steps) = k + 2 /\ c.steps[k + 1].type = "Pipe" /\ c.steps[k + 2] = RunOn(a, words, to)
               /\ \A i \in 1 .. k : c.steps[i] = b.steps[i]
               /\ Len(PipeSteps(c)) = n + 1 /\ PipeSteps(c)[n + 1] = k + 1
               /\ \A q \in 1 .. n : PipeSteps(c)[q] = PipeSteps(b)[q]
               /\ RunSteps(c) = RunSteps(b) \cup {k + 2} /\ RunSteps(b) \subseteq 1 .. k
               /\ Runs(c) = Append(Runs(b), k + 2) /\ FileSteps(c) = FileSteps(b)
               /\ Extends(b, c)
<1> DEFINE b == to.b b0 == AddPipe(b) c == Converted(a, words, to) n == Len(b.pipes) k == Len(b.steps)
           run == RunOn(a, words, to)
<1>1. b \in Builder(a)
  BY DEF Goal
<1>2. b.steps \in Seq(Step(a)) /\ k \in Nat
  BY <1>1 DEF Builder
<1>3. /\ b0 \in Builder(a) /\ n \in Nat /\ Len(b0.pipes) = n + 1 /\ b0.pipes[n + 1] = {"read", "write"}
      /\ \A q \in 1 .. n : b0.pipes[q] = b.pipes[q]
      /\ Runs(b0) = Runs(b) /\ RunSteps(b0) = RunSteps(b) /\ FileSteps(b0) = FileSteps(b)
      /\ PipeSteps(b0) = Append(PipeSteps(b), k + 1)
      /\ b0.steps = Append(b.steps, [type |-> "Pipe"]) /\ Extends(b, b0)
  BY <1>1, AddsAPipe
<1>4. /\ c.steps = Append(b0.steps, run) /\ Len(c.pipes) = n + 1 /\ c.pipes[n + 1] = {"write"}
      /\ \A q \in 1 .. n :
            c.pipes[q] = IF q - 1 \in {to.stdout, to.stderr} THEN Less(b.pipes[q], "write") ELSE b.pipes[q]
  <2> DEFINE u == Used(b, n, to.stdout, to.stderr) steps == Append(b0.steps, run)
  <2>1. /\ u \in Builder(a) /\ Len(u.pipes) = n + 1 /\ u.pipes[n + 1] = {"write"}
        /\ \A q \in 1 .. n :
              u.pipes[q] = IF q - 1 \in {to.stdout, to.stderr} THEN Less(b.pipes[q], "write") ELSE b.pipes[q]
    BY UsesEnds
  <2>2. c = [u EXCEPT !.steps = steps]
    BY DEF Converted
  <2> HIDE DEF u, steps, c
  <2>3. c.steps = steps /\ c.pipes = u.pipes
    BY <2>1, <2>2 DEF Builder
  <2> QED
    BY <2>1, <2>3 DEF steps
<1> HIDE DEF b0, c, run, b
<1>5. /\ Len(c.steps) = k + 2 /\ c.steps[k + 1] = [type |-> "Pipe"] /\ c.steps[k + 2] = run
      /\ \A i \in 1 .. k : c.steps[i] = b.steps[i]
  <2>1. b0.steps \in Seq(Step(a)) /\ run \in Step(a)
    BY <1>3 DEF Builder, run
  <2>2. Len(b0.steps) = k + 1 /\ b0.steps[k + 1] = [type |-> "Pipe"] /\ \A i \in 1 .. k : b0.steps[i] = b.steps[i]
    BY <1>2, <1>3
  <2> QED
    BY <1>2, <1>4, <2>1, <2>2
<1>6. PipeSteps(b) \in Seq(Nat) /\ Len(PipeSteps(b)) = n /\ PipeSteps(c) = PipeSteps(b0) /\ FileSteps(c) = FileSteps(b0)
      /\ Runs(c) = Append(Runs(b0), k + 2) /\ Extends(b0, c)
  <2>1. run \in Step(a) /\ run.type = "Run"
    BY DEF run, RunOn
  <2>2. b0.steps \in Seq(Step(a)) /\ Len(b0.steps) = k + 1
    BY <1>2, <1>3 DEF Builder
  <2>3. PipeSteps(b) \in Seq(Nat)
    BY <1>1, PlacesAre DEF PipeSteps
  <2>4. Extends(b0, c)
    BY <1>3, <1>4, <2>1, ExtendsMore
  <2>5. /\ StepsOf(c, {"Pipe", "OpenOutputFile"}) = StepsOf(b0, {"Pipe", "OpenOutputFile"})
        /\ StepsOf(c, {"OpenOutputFile"}) = StepsOf(b0, {"OpenOutputFile"})
        /\ StepsOf(c, {"Run"}) = Append(StepsOf(b0, {"Run"}), Len(b0.steps) + 1)
    <3>1. \A types : StepsOf(c, types) = IF "Run" \in types THEN Append(StepsOf(b0, types), Len(b0.steps) + 1)
                                        ELSE StepsOf(b0, types)
      BY SMTT(20), <1>3, <1>4, <2>1, OneStepMore
    <3> QED
      BY <3>1
  <2> QED
    BY <1>2, <2>2, <2>3, <2>4, <2>5 DEF Laid, PipeSteps, FileSteps, Runs, b
<1>7. Len(PipeSteps(c)) = n + 1 /\ PipeSteps(c)[n + 1] = k + 1 /\ \A q \in 1 .. n : PipeSteps(c)[q] = PipeSteps(b)[q]
  BY <1>2, <1>3, <1>6
<1>8. RunSteps(c) = RunSteps(b) \cup {k + 2} /\ RunSteps(b) \subseteq 1 .. k
  <2>1. b0.steps \in Seq(Step(a)) /\ DOMAIN b.steps = 1 .. k
    BY <1>2, <1>3 DEF Builder
  <2>2. DOMAIN c.steps = 1 .. k + 2
    BY <1>2, <1>3, <1>4, <1>5, <2>1 DEF run
  <2>3. run.type = "Run"
    BY DEF run, RunOn
  <2>4. \A i \in 1 .. k + 2 : i \in 1 .. k \/ i = k + 1 \/ i = k + 2
    BY <1>2
  <2>5. \A i \in 1 .. k : i \in 1 .. k + 2
    BY <1>2
  <2>6. c.steps[k + 1].type # "Run" /\ c.steps[k + 2].type = "Run" /\ k + 2 \in 1 .. k + 2
    BY <1>2, <1>5, <2>3
  <2>7. \A i : i \in RunSteps(c) <=> i \in RunSteps(b) \cup {k + 2}
    BY <1>5, <2>1, <2>2, <2>4, <2>5, <2>6 DEF RunSteps
  <2> QED
    BY <2>1, <2>7 DEF RunSteps
<1>9. Extends(b, c)
  BY <1>3, <1>6, ExtendsOn
<1>10. c.steps[k + 1].type = "Pipe" /\ Runs(c) = Append(Runs(b), k + 2) /\ FileSteps(c) = FileSteps(b)
  BY <1>3, <1>5, <1>6
<1> QED
  BY <1>2, <1>3, <1>4, <1>5, <1>7, <1>8, <1>9, <1>10 DEF b, c, run

LEMMA SoundWithCommand ==
    ASSUME NEW a, NEW to \in Goal(a), NEW words \in Words, RunOn(a, words, to) \in Step(a),
           Converted(a, words, to) \in Builder(a), Sound(to.b), Ready(to)
    PROVE  Sound(Converted(a, words, to)) /\ Writable(Converted(a, words, to), Len(to.b.pipes))
<1> DEFINE b == to.b c == Converted(a, words, to) n == Len(b.pipes) k == Len(b.steps)
           run == RunOn(a, words, to)
<1>1. /\ n \in Nat /\ k \in Nat /\ Len(c.pipes) = n + 1 /\ c.pipes[n + 1] = {"write"}
      /\ \A q \in 1 .. n :
            c.pipes[q] = IF q - 1 \in {to.stdout, to.stderr} THEN Less(b.pipes[q], "write") ELSE b.pipes[q]
      /\ Len(c.steps) = k + 2 /\ c.steps[k + 1].type = "Pipe" /\ c.steps[k + 2] = run
      /\ \A i \in 1 .. k : c.steps[i] = b.steps[i]
      /\ Len(PipeSteps(c)) = n + 1 /\ PipeSteps(c)[n + 1] = k + 1
      /\ \A q \in 1 .. n : PipeSteps(c)[q] = PipeSteps(b)[q]
      /\ RunSteps(c) = RunSteps(b) \cup {k + 2} /\ RunSteps(b) \subseteq 1 .. k
  BY ConvertedIs DEF Sound
<1>2. /\ to.stdout # to.stderr /\ to.stdout \in Nat /\ to.stderr \in Nat /\ to.stdout < n /\ to.stderr < n
      /\ "write" \in b.pipes[to.stdout + 1] /\ "write" \in b.pipes[to.stderr + 1]
  BY DEF Ready, Writable
<1>3. run.stdin = n /\ run.stdout = to.stdout /\ run.stderr = to.stderr
  BY DEF RunOn
<1>4. Laid(b) /\ Ran(b) /\ Shown(b)
  BY DEF Sound
<1> HIDE DEF c, b, n, k, run
<1>5. \A q \in 1 .. n : \A end : end \in c.pipes[q] => end \in b.pipes[q]
  BY <1>1 DEF Less
<1>6. \A q \in 1 .. n : "read" \in b.pipes[q] => "read" \in c.pipes[q]
  BY <1>1 DEF Less
<1>7. \A q \in 1 .. n : PipeSteps(b)[q] \in 1 .. k
  BY <1>4 DEF Laid, n, k
<1>8. Laid(c)
  <2>1. ASSUME NEW q \in 1 .. n + 1
        PROVE  PipeSteps(c)[q] \in 1 .. k + 2 /\ ("read" \in c.pipes[q] => c.steps[PipeSteps(c)[q]].type = "Pipe")
    <3>1. CASE q = n + 1
      BY <1>1, <3>1
    <3>2. CASE q \in 1 .. n
      <4>1. PipeSteps(c)[q] = PipeSteps(b)[q] /\ PipeSteps(b)[q] \in 1 .. k
        BY <1>1, <1>7, <3>2
      <4>2. "read" \in c.pipes[q] => b.steps[PipeSteps(b)[q]].type = "Pipe"
        BY <1>4, <1>5, <3>2 DEF Laid, n
      <4> QED
        BY <1>1, <4>1, <4>2
    <3> QED
      BY <1>1, <3>1, <3>2
  <2>2. ASSUME NEW q \in 1 .. n + 1, NEW r \in 1 .. n + 1, q < r PROVE PipeSteps(c)[q] < PipeSteps(c)[r]
    <3>1. q \in 1 .. n
      BY <1>1, <2>2
    <3>2. CASE r = n + 1
      BY <1>1, <1>7, <3>1, <3>2
    <3>3. CASE r \in 1 .. n
      BY <1>1, <1>4, <2>2, <3>1, <3>3 DEF Laid, n
    <3> QED
      BY <1>1, <3>2, <3>3
  <2> QED
    BY <1>1, <2>1, <2>2 DEF Laid
<1>9. ASSUME NEW i \in Nat, NEW pipe, NEW end, Taken(b, i, pipe, end) PROVE Taken(c, i, pipe, end) /\ pipe < n
  <2>1. pipe \in Nat /\ pipe < n /\ pipe + 1 \in 1 .. n /\ end \notin b.pipes[pipe + 1]
        /\ PipeSteps(b)[pipe + 1] < i
        /\ (end = "read" => b.steps[PipeSteps(b)[pipe + 1]].type = "Pipe")
    BY <1>1, <1>9 DEF Taken, n
  <2>2. PipeSteps(c)[pipe + 1] = PipeSteps(b)[pipe + 1] /\ PipeSteps(b)[pipe + 1] \in 1 .. k
    BY <1>1, <1>7, <2>1
  <2>3. c.steps[PipeSteps(b)[pipe + 1]] = b.steps[PipeSteps(b)[pipe + 1]] /\ end \notin c.pipes[pipe + 1]
    BY <1>1, <1>5, <2>1, <2>2
  <2> QED
    BY <1>1, <2>1, <2>2, <2>3 DEF Taken
<1>10. Taken(c, k + 2, n, "read")
  BY <1>1 DEF Taken
<1>11. ASSUME NEW pipe \in {to.stdout, to.stderr} PROVE Taken(c, k + 2, pipe, "write")
  <2>1. pipe \in Nat /\ pipe < n /\ pipe + 1 \in 1 .. n /\ (pipe + 1) - 1 = pipe
    BY <1>1, <1>2
  <2>2. "write" \notin c.pipes[pipe + 1]
    BY <1>1, <2>1 DEF Less
  <2>3. PipeSteps(c)[pipe + 1] < k + 2
    BY <1>1, <1>7, <2>1
  <2> QED
    BY <1>1, <2>1, <2>2, <2>3 DEF Taken
<1>12. \A i \in RunSteps(b) : i \in Nat /\ i # k + 2 /\ c.steps[i] = b.steps[i]
  BY <1>1
<1>13. ASSUME NEW i \in RunSteps(c)
       PROVE  /\ Taken(c, i, c.steps[i].stdin, "read")
              /\ Taken(c, i, c.steps[i].stdout, "write")
              /\ Taken(c, i, c.steps[i].stderr, "write")
              /\ c.steps[i].stdout # c.steps[i].stderr
  <2>1. CASE i = k + 2
    BY <1>1, <1>2, <1>3, <1>10, <1>11, <2>1
  <2>2. CASE i \in RunSteps(b)
    BY <1>4, <1>9, <1>12, <2>2 DEF Ran
  <2> QED
    BY <1>1, <2>1, <2>2
<1>14. ASSUME NEW i \in RunSteps(b)
       PROVE  /\ b.steps[i].stdin # n
              /\ b.steps[i].stdout \notin {to.stdout, to.stderr}
              /\ b.steps[i].stderr \notin {to.stdout, to.stderr}
  <2>1. /\ Taken(b, i, b.steps[i].stdin, "read") /\ Taken(b, i, b.steps[i].stdout, "write")
        /\ Taken(b, i, b.steps[i].stderr, "write")
    BY <1>4 DEF Ran
  <2>2. /\ b.steps[i].stdin \in Nat /\ b.steps[i].stdin < n
        /\ "write" \notin b.pipes[b.steps[i].stdout + 1] /\ "write" \notin b.pipes[b.steps[i].stderr + 1]
    BY <2>1 DEF Taken, n
  <2>3. b.steps[i].stdin # n
    BY <1>1, <2>2
  <2>4. b.steps[i].stdout # to.stdout /\ b.steps[i].stdout # to.stderr
    BY <1>2, <2>2
  <2>5. b.steps[i].stderr # to.stdout /\ b.steps[i].stderr # to.stderr
    BY <1>2, <2>2
  <2> QED
    BY <2>3, <2>4, <2>5
<1>15. ASSUME NEW i \in RunSteps(c), NEW j \in RunSteps(c), i # j
       PROVE  /\ c.steps[i].stdin # c.steps[j].stdin
              /\ c.steps[i].stdout \notin {c.steps[j].stdout, c.steps[j].stderr}
              /\ c.steps[i].stderr \notin {c.steps[j].stdout, c.steps[j].stderr}
  <2>1. CASE i \in RunSteps(b) /\ j \in RunSteps(b)
    BY <1>4, <1>12, <1>15, <2>1 DEF Ran
  <2>2. CASE i = k + 2 /\ j \in RunSteps(b)
    BY <1>1, <1>3, <1>12, <1>14, <2>2
  <2>3. CASE i \in RunSteps(b) /\ j = k + 2
    BY <1>1, <1>3, <1>12, <1>14, <2>3
  <2> QED
    BY <1>1, <1>15, <2>1, <2>2, <2>3
<1>16. Ran(c)
  BY <1>13, <1>15 DEF Ran
<1>17. Shown(c)
  <2>1. n > 1 /\ "read" \in b.pipes[1] /\ "read" \in b.pipes[2]
    BY <1>4 DEF Shown, n
  <2>2. 1 \in 1 .. n /\ 2 \in 1 .. n
    BY <1>1, <2>1
  <2> QED
    BY <1>1, <1>6, <2>1, <2>2 DEF Shown
<1>18. Writable(c, n)
  BY <1>1 DEF Writable
<1> QED
  BY <1>8, <1>16, <1>17, <1>18 DEF Sound, c, n, b

-----------------------------------------------------------------------------
(* How many elements are behind one.                                       *)

Cmds(e) == {i \in DOMAIN e : e[i].type = "Command"}
Fls(e) == DOMAIN e \ Cmds(e)

LEMMA CountBehind ==
    ASSUME NEW m \in Nat, NEW places, places \subseteq 1 .. m, NEW j \in 1 .. m
    PROVE  /\ After(j, places) \in Nat
           /\ After(j - 1, places) = IF j \in places THEN After(j, places) + 1 ELSE After(j, places)
<1> DEFINE P == {i \in places : i > j} Q == {i \in places : i > j - 1}
<1>0. \A i \in places : i \in 1 .. m /\ (i > j - 1 <=> i = j \/ i > j)
  OBVIOUS
<1>1. IsFiniteSet(P)
  <2>1. 1 \in Int /\ m \in Int /\ P \subseteq 1 .. m
    <3>1. \A i \in P : i \in 1 .. m
      BY <1>0
    <3> HIDE DEF P
    <3> QED
      BY <3>1
  <2> HIDE DEF P
  <2>2. IsFiniteSet(1 .. m)
    BY <2>1, FS_Interval
  <2> QED
    BY <2>1, <2>2, FS_Subset
<1>2. Cardinality(P) \in Nat
  BY <1>1, FS_CardinalityType
<1>3. j \notin P
  OBVIOUS
<1>4. CASE j \in places
  <2>1. \A i : i \in Q <=> i \in P \cup {j}
    BY <1>0, <1>4
  <2> HIDE DEF P, Q
  <2>2. Q = P \cup {j}
    BY <2>1
  <2>3. Cardinality(P \cup {j}) = Cardinality(P) + 1
    BY <1>1, <1>3, FS_AddElement
  <2> QED
    BY <1>2, <1>4, <2>2, <2>3 DEF After, P, Q
<1>5. CASE j \notin places
  <2>1. \A i : i \in Q <=> i \in P
    BY <1>0, <1>5
  <2> HIDE DEF P, Q
  <2>2. Q = P
    BY <2>1
  <2> QED
    BY <1>2, <1>5, <2>2 DEF After, P, Q
<1> QED
  BY <1>4, <1>5

LEMMA NoneBehind ==
    ASSUME NEW m \in Nat, NEW places, places \subseteq 1 .. m
    PROVE  After(m, places) = 0
<1> DEFINE P == {i \in places : i > m}
<1>1. \A i \in places : i \in 1 .. m /\ ~(i > m)
  OBVIOUS
<1>2. \A i : i \notin P
  BY <1>1
<1> HIDE DEF P
<1>3. P = {}
  BY <1>2
<1> QED
  BY <1>3, FS_EmptySet DEF After, P

\* One that is further on has fewer behind it.
LEMMA FewerBehind ==
    ASSUME NEW m \in Nat, NEW places, places \subseteq 1 .. m, NEW i \in places, NEW j \in Nat, j < i
    PROVE  After(i, places) \in Nat /\ After(j, places) \in Nat /\ After(i, places) + 1 <= After(j, places)
<1> DEFINE P == {k \in places : k > i} Q == {k \in places : k > j}
<1>0. i \in Nat /\ \A k \in places : k \in 1 .. m /\ (k > i => k > j)
  OBVIOUS
<1>1. 1 \in Int /\ m \in Int /\ P \subseteq 1 .. m /\ Q \subseteq 1 .. m
  <2>1. (\A k \in P : k \in 1 .. m) /\ \A k \in Q : k \in 1 .. m
    BY <1>0
  <2> HIDE DEF P, Q
  <2> QED
    BY <2>1
<1>2. i \notin P /\ P \cup {i} \subseteq Q
  <2>1. \A k \in P : k \in Q
    BY <1>0
  <2>2. i \in Q /\ i \notin P
    BY <1>0
  <2> QED
    BY <2>1, <2>2
<1> HIDE DEF P, Q
<1>3. IsFiniteSet(P) /\ IsFiniteSet(Q)
  <2>1. IsFiniteSet(1 .. m)
    BY <1>1, FS_Interval
  <2> QED
    BY <1>1, <2>1, FS_Subset
<1>4. Cardinality(P) \in Nat /\ Cardinality(Q) \in Nat
  BY <1>3, FS_CardinalityType
<1>5. Cardinality(P \cup {i}) = Cardinality(P) + 1
  BY <1>2, <1>3, FS_AddElement
<1>6. Cardinality(P \cup {i}) <= Cardinality(Q)
  BY <1>2, <1>3, FS_Subset
<1> QED
  BY <1>4, <1>5, <1>6 DEF After, P, Q

-----------------------------------------------------------------------------
(* What is built of the elements behind a place.                           *)

\* The step of a command, and where what is written to an element goes.
StepAt(e, b, i) == b.steps[Runs(b)[After(i, Cmds(e)) + 1]]
Enters(e, b, i, pipe) ==
    IF i \in Cmds(e) THEN pipe = StepAt(e, b, i).stdin
    ELSE /\ pipe \in Nat /\ pipe < Len(PipeSteps(b))
         /\ PipeSteps(b)[pipe + 1] = FileSteps(b)[After(i, Fls(e)) + 1]
Leads(e, b, i, stdout, stderr) ==
    IF i = Len(e) THEN stdout = 0 /\ stderr = 1 ELSE Enters(e, b, i + 1, stdout) /\ stderr \in Nat /\ stderr > 1

Behind(e, b, j) ==
    /\ Len(Runs(b)) = After(j, Cmds(e)) /\ Len(FileSteps(b)) = After(j, Fls(e))
    /\ IsFiniteSet(RunSteps(b)) /\ Cardinality(RunSteps(b)) = After(j, Cmds(e))
    /\ \A x \in 1 .. Len(Runs(b)) : Runs(b)[x] \in 1 .. Len(b.steps)
    /\ \A i \in Cmds(e) : i > j => Leads(e, b, i, StepAt(e, b, i).stdout, StepAt(e, b, i).stderr)

LEMMA StillThere ==
    ASSUME NEW e \in Seq(Element), NEW b, NEW c, Extends(b, c), NEW j \in 0 .. Len(e),
           Len(Runs(b)) = After(j, Cmds(e)), Len(FileSteps(b)) = After(j, Fls(e)),
           \A x \in 1 .. Len(Runs(b)) : Runs(b)[x] \in 1 .. Len(b.steps)
    PROVE  /\ \A i \in Cmds(e) : i > j => StepAt(e, c, i) = StepAt(e, b, i)
           /\ \A i \in DOMAIN e : i > j => \A pipe : Enters(e, b, i, pipe) => Enters(e, c, i, pipe)
<1>1. Len(e) \in Nat /\ Cmds(e) \subseteq 1 .. Len(e) /\ Fls(e) \subseteq 1 .. Len(e) /\ DOMAIN e = 1 .. Len(e)
  BY DEF Cmds, Fls
<1>2. ASSUME NEW i \in Cmds(e), i > j PROVE StepAt(e, c, i) = StepAt(e, b, i)
  <2>1. After(i, Cmds(e)) + 1 \in 1 .. Len(Runs(b))
    BY <1>1, <1>2, FewerBehind
  <2>2. Runs(c)[After(i, Cmds(e)) + 1] = Runs(b)[After(i, Cmds(e)) + 1]
    BY <2>1 DEF Extends, Front
  <2>3. Runs(b)[After(i, Cmds(e)) + 1] \in 1 .. Len(b.steps)
    BY <2>1
  <2>4. \A k \in 1 .. Len(b.steps) : c.steps[k] = b.steps[k]
    BY DEF Extends, Front
  <2> QED
    BY <2>2, <2>3, <2>4 DEF StepAt
<1>3. ASSUME NEW i \in DOMAIN e, i > j, NEW pipe, Enters(e, b, i, pipe) PROVE Enters(e, c, i, pipe)
  <2>1. CASE i \in Cmds(e)
    BY <1>2, <1>3, <2>1 DEF Enters
  <2>2. CASE i \notin Cmds(e)
    <3>1. i \in Fls(e)
      BY <2>2 DEF Fls
    <3>2. After(i, Fls(e)) + 1 \in 1 .. Len(FileSteps(b))
      BY <1>1, <1>3, <3>1, FewerBehind
    <3>3. FileSteps(c)[After(i, Fls(e)) + 1] = FileSteps(b)[After(i, Fls(e)) + 1]
      BY <3>2 DEF Extends, Front
    <3>4. /\ pipe \in Nat /\ pipe < Len(PipeSteps(b))
          /\ PipeSteps(b)[pipe + 1] = FileSteps(b)[After(i, Fls(e)) + 1]
      BY <1>3, <2>2 DEF Enters
    <3>5. Len(PipeSteps(b)) \in Nat /\ Len(PipeSteps(c)) \in Nat /\ Len(PipeSteps(b)) <= Len(PipeSteps(c))
          /\ \A q \in 1 .. Len(PipeSteps(b)) : PipeSteps(c)[q] = PipeSteps(b)[q]
      BY DEF Extends, Front
    <3>6. pipe + 1 \in 1 .. Len(PipeSteps(b)) /\ pipe < Len(PipeSteps(c))
      BY <3>4, <3>5
    <3>7. PipeSteps(c)[pipe + 1] = PipeSteps(b)[pipe + 1]
      BY <3>5, <3>6
    <3> QED
      BY <2>2, <3>3, <3>4, <3>6, <3>7 DEF Enters
  <2> QED
    BY <2>1, <2>2
<1> QED
  BY <1>2, <1>3

LEMMA StillLeads ==
    ASSUME NEW e \in Seq(Element), NEW b, NEW c, Extends(b, c), NEW j \in 0 .. Len(e), Behind(e, b, j)
    PROVE  /\ \A i \in Cmds(e) : i > j => Leads(e, c, i, StepAt(e, c, i).stdout, StepAt(e, c, i).stderr)
           /\ \A i \in DOMAIN e : i >= j => \A stdout, stderr : Leads(e, b, i, stdout, stderr) => Leads(e, c, i, stdout, stderr)
           /\ \A stdout, stderr : j = 0 \/ Leads(e, b, j, stdout, stderr) => j = 0 \/ Leads(e, c, j, stdout, stderr)
<1>1. Len(e) \in Nat /\ DOMAIN e = 1 .. Len(e) /\ Cmds(e) \subseteq 1 .. Len(e)
  BY DEF Cmds
<1>2. ASSUME NEW i \in DOMAIN e, i >= j, NEW stdout, NEW stderr, Leads(e, b, i, stdout, stderr)
      PROVE  Leads(e, c, i, stdout, stderr)
  <2>1. CASE i = Len(e)
    BY <1>2, <2>1 DEF Leads
  <2>2. CASE i # Len(e)
    <3>1. i + 1 \in DOMAIN e /\ i + 1 > j
      BY <1>1, <1>2, <2>2
    <3>2. Enters(e, b, i + 1, stdout) /\ stderr \in Nat /\ stderr > 1
      BY <1>2, <2>2 DEF Leads
    <3>3. Enters(e, c, i + 1, stdout)
      BY <3>1, <3>2, StillThere DEF Behind
    <3> QED
      BY <2>2, <3>2, <3>3 DEF Leads
  <2> QED
    BY <2>1, <2>2
<1>3. ASSUME NEW i \in Cmds(e), i > j PROVE Leads(e, c, i, StepAt(e, c, i).stdout, StepAt(e, c, i).stderr)
  <2>1. StepAt(e, c, i) = StepAt(e, b, i)
    BY <1>3, StillThere DEF Behind
  <2>2. Leads(e, b, i, StepAt(e, b, i).stdout, StepAt(e, b, i).stderr)
    BY <1>3 DEF Behind
  <2>3. i \in DOMAIN e /\ i >= j
    BY <1>1, <1>3
  <2> QED
    BY <1>2, <2>1, <2>2, <2>3
<1> QED
  BY <1>1, <1>2, <1>3

-----------------------------------------------------------------------------
(* One element.                                                            *)

\* What a line that is not planned has: a command that is rejected.
Hopeless(a, e) == \E i \in Cmds(e) : Kind(a, e[i].words) \in Failing
Good(a, e, to, j) ==
    IF to.b.outcome = "ok"
    THEN Sound(to.b) /\ Ready(to) /\ Behind(e, to.b, j) /\ Leads(e, to.b, j, to.stdout, to.stderr)
    ELSE Hopeless(a, e)
Done(a, e, r, j) ==
    IF r.b.outcome = "ok"
    THEN Sound(r.b) /\ Writable(r.b, r.stdin) /\ Behind(e, r.b, j - 1) /\ Enters(e, r.b, j, r.stdin)
    ELSE Hopeless(a, e)

LEMMA OneBehindLess ==
    ASSUME NEW e \in Seq(Element), NEW j \in DOMAIN e
    PROVE  /\ j \in Nat /\ j >= 1 /\ j \in 0 .. Len(e) /\ j - 1 \in 0 .. Len(e)
           /\ After(j, Cmds(e)) \in Nat /\ After(j, Fls(e)) \in Nat
           /\ j \in Cmds(e) => After(j - 1, Cmds(e)) = After(j, Cmds(e)) + 1 /\ After(j - 1, Fls(e)) = After(j, Fls(e))
           /\ j \notin Cmds(e) => After(j - 1, Cmds(e)) = After(j, Cmds(e)) /\ After(j - 1, Fls(e)) = After(j, Fls(e)) + 1
           /\ \A i \in Cmds(e) : i > j - 1 => i = j \/ i > j
<1>1. Len(e) \in Nat /\ j \in 1 .. Len(e) /\ Cmds(e) \subseteq 1 .. Len(e) /\ Fls(e) \subseteq 1 .. Len(e)
  BY DEF Cmds, Fls
<1>2. /\ After(j, Cmds(e)) \in Nat
      /\ After(j - 1, Cmds(e)) = IF j \in Cmds(e) THEN After(j, Cmds(e)) + 1 ELSE After(j, Cmds(e))
  BY <1>1, CountBehind
<1>3. /\ After(j, Fls(e)) \in Nat
      /\ After(j - 1, Fls(e)) = IF j \in Fls(e) THEN After(j, Fls(e)) + 1 ELSE After(j, Fls(e))
  BY <1>1, CountBehind
<1>4. j \in Fls(e) <=> j \notin Cmds(e)
  BY DEF Fls
<1>5. \A i \in Cmds(e) : i > j - 1 => i = j \/ i > j
  BY <1>1
<1> QED
  BY <1>1, <1>2, <1>3, <1>4, <1>5

LEMMA ConvertsFile ==
    ASSUME NEW a, NEW e \in Seq(Element), NEW j \in DOMAIN e, j \notin Cmds(e), NEW to \in Goal(a), Good(a, e, to, j)
    PROVE  LET r == ConvertTarget(e[j], to)
           IN  r.b \in Builder(a) /\ r.stdin \in Nat /\ Done(a, e, r, j)
<1> DEFINE r == ConvertTarget(e[j], to) b == to.b n == Len(b.pipes) k == Len(b.steps)
           step == [type |-> "OpenOutputFile", path |-> e[j].path] free == {"write"} c == AddStep(b, step, free)
<1>1. b \in Builder(a)
  BY DEF Goal
<1>2. e[j] \in Element /\ e[j].type = "File"
  BY DEF Cmds, Element
<1>3. step \in Step(a) /\ step.type = "OpenOutputFile" /\ free \in Free /\ "read" \notin free
  BY <1>2 DEF Step, Free, Element
<1>4. r.stdin = n /\ r.b = c
  BY <1>2 DEF ConvertTarget, AddFileOutput, NextPipe
<1>40. "write" \in free
  OBVIOUS
<1> HIDE DEF c, step, free, r
<1>5. /\ c \in Builder(a) /\ c.outcome = b.outcome /\ Extends(b, c)
      /\ n \in Nat /\ Len(c.pipes) = n + 1 /\ c.pipes[n + 1] = free
      /\ Runs(c) = Runs(b) /\ RunSteps(c) = RunSteps(b)
      /\ PipeSteps(c) = Append(PipeSteps(b), k + 1)
      /\ FileSteps(c) = Append(FileSteps(b), k + 1) /\ c.steps = Append(b.steps, step)
  <2>1. "read" \in free => step.type = "Pipe"
    BY <1>3
  <2>2. step.type \in {"Pipe", "OpenOutputFile"} /\ step.type # "Pipe"
    BY <1>3
  <2> HIDE DEF b
  <2>3. /\ c \in Builder(a) /\ c.outcome = b.outcome /\ Extends(b, c)
        /\ n \in Nat /\ Len(c.pipes) = n + 1 /\ c.pipes[n + 1] = free
        /\ Runs(c) = Runs(b) /\ RunSteps(c) = RunSteps(b)
        /\ PipeSteps(c) = Append(PipeSteps(b), k + 1)
        /\ FileSteps(c) = IF step.type = "Pipe" THEN FileSteps(b) ELSE Append(FileSteps(b), k + 1)
        /\ c.steps = Append(b.steps, step)
    BY <1>1, <1>3, <2>1, <2>2, AddsPipe DEF c
  <2> QED
    BY <2>2, <2>3
<1>6. CASE b.outcome # "ok"
  BY <1>4, <1>5, <1>6 DEF Good, Done, r
<1>7. CASE b.outcome = "ok"
  <2>1. Sound(b) /\ Behind(e, b, j)
    BY <1>7 DEF Good
  <2>2. Sound(c)
    BY <1>1, <1>3, <2>1, SoundWithPipe DEF Sound, c
  <2>3. Writable(c, n)
    BY <1>5, <1>40 DEF Writable
  <2>4. /\ Len(Runs(b)) = After(j, Cmds(e)) /\ Len(FileSteps(b)) = After(j, Fls(e))
        /\ IsFiniteSet(RunSteps(b)) /\ Cardinality(RunSteps(b)) = After(j, Cmds(e))
        /\ \A x \in 1 .. Len(Runs(b)) : Runs(b)[x] \in 1 .. Len(b.steps)
    BY <2>1 DEF Behind
  <2>5. /\ PipeSteps(b) \in Seq(Nat) /\ FileSteps(b) \in Seq(Nat) /\ k \in Nat /\ Len(c.steps) = k + 1
    BY <1>1, <1>5, PlacesAre DEF PipeSteps, FileSteps, Builder
  <2>6. Enters(e, c, j, n)
    <3>1. Len(PipeSteps(b)) = n
      BY <2>1 DEF Sound, Laid
    <3>2. PipeSteps(c)[n + 1] = k + 1 /\ n < Len(PipeSteps(c))
      <4> DEFINE made == PipeSteps(b) more == PipeSteps(c)
      <4>1. made \in Seq(Nat) /\ Len(made) = n /\ more = Append(made, k + 1) /\ n \in Nat
        BY <1>5, <2>5, <3>1
      <4> HIDE DEF made, more, n, k
      <4>2. more[n + 1] = k + 1 /\ Len(more) = n + 1
        BY <4>1
      <4> QED
        BY <4>1, <4>2 DEF more
    <3>3. FileSteps(c)[After(j, Fls(e)) + 1] = k + 1
      BY <1>5, <2>4, <2>5
    <3> QED
      BY <1>5, <3>2, <3>3 DEF Enters
  <2>7. Behind(e, c, j - 1)
    <3>1. Len(Runs(c)) = After(j - 1, Cmds(e)) /\ Cardinality(RunSteps(c)) = After(j - 1, Cmds(e)) /\ IsFiniteSet(RunSteps(c))
      BY <1>5, <2>4, OneBehindLess
    <3>2. Len(FileSteps(c)) = After(j - 1, Fls(e))
      BY SMTT(20), <1>5, <2>4, <2>5, OneBehindLess
    <3>3. \A x \in 1 .. Len(Runs(c)) : Runs(c)[x] \in 1 .. Len(c.steps)
      BY <1>5, <2>4, <2>5
    <3>4. \A i \in Cmds(e) : i > j - 1 => i > j
      BY OneBehindLess
    <3>5. \A i \in Cmds(e) : i > j => Leads(e, c, i, StepAt(e, c, i).stdout, StepAt(e, c, i).stderr)
      BY <1>5, <2>1, StillLeads, OneBehindLess
    <3> QED
      BY <3>1, <3>2, <3>3, <3>4, <3>5 DEF Behind
  <2> QED
    BY <1>4, <1>5, <1>7, <2>2, <2>3, <2>6, <2>7 DEF Done, r
<1> QED
  BY <1>6, <1>7

LEMMA ConvertsCommand ==
    ASSUME NEW a, NEW e \in Seq(Element), NEW j \in Cmds(e), NEW to \in Goal(a), Good(a, e, to, j)
    PROVE  LET r == ConvertCommand(e[j].words, to)
           IN  r.b \in Builder(a) /\ r.stdin \in Nat /\ Done(a, e, r, j)
<1> DEFINE words == e[j].words r == ConvertCommand(words, to) b == to.b n == Len(b.pipes) k == Len(b.steps)
           c == Converted(a, words, to) run == RunOn(a, words, to)
<1>1. b \in Builder(a) /\ j \in DOMAIN e
  BY DEF Goal, Cmds
<1>2. words \in Words
  <2>1. e[j] \in Element /\ e[j].type = "Command"
    BY DEF Cmds
  <2> QED
    BY <2>1 DEF Element
<1> HIDE DEF words
<1>3. /\ r.b \in Builder(a) /\ r.stdin = n /\ r.stdin \in Nat
      /\ b.outcome # "ok" => r.b.outcome # "ok"
      /\ Kind(a, words) \in Failing => r.b.outcome # "ok"
      /\ Kind(a, words) \notin Failing => r.b = c /\ run \in Step(a)
      /\ Kind(a, words) \notin Failing /\ Ready(to) => r.b.outcome = b.outcome
  BY <1>2, ConvertsOrFails
<1> HIDE DEF r, c, run
<1>4. CASE b.outcome # "ok" \/ Kind(a, words) \in Failing
  <2>1. Hopeless(a, e)
    BY <1>4 DEF Good, Hopeless, words
  <2> QED
    BY <1>3, <1>4, <2>1 DEF Done, r, words
<1>5. CASE b.outcome = "ok" /\ Kind(a, words) \notin Failing
  <2>1. Sound(b) /\ Ready(to) /\ Behind(e, b, j) /\ Leads(e, b, j, to.stdout, to.stderr)
    BY <1>5 DEF Good
  <2>2. r.b.outcome = "ok" /\ r.b = c /\ run \in Step(a) /\ c \in Builder(a)
    BY <1>3, <1>5, <2>1
  <2>3. Sound(c) /\ Writable(c, n)
    BY <1>2, <2>1, <2>2, SoundWithCommand DEF c, run
  <2>4. /\ n \in Nat /\ k \in Nat /\ Len(c.steps) = k + 2 /\ c.steps[k + 2] = run
        /\ RunSteps(c) = RunSteps(b) \cup {k + 2} /\ RunSteps(b) \subseteq 1 .. k
        /\ Runs(c) = Append(Runs(b), k + 2) /\ FileSteps(c) = FileSteps(b)
        /\ Extends(b, c)
    BY <1>2, <2>1, <2>2, ConvertedIs DEF c, run, Sound
  <2>5. /\ Len(Runs(b)) = After(j, Cmds(e)) /\ Len(FileSteps(b)) = After(j, Fls(e))
        /\ IsFiniteSet(RunSteps(b)) /\ Cardinality(RunSteps(b)) = After(j, Cmds(e))
        /\ \A x \in 1 .. Len(Runs(b)) : Runs(b)[x] \in 1 .. k
    BY <2>1 DEF Behind
  <2>6. Runs(b) \in Seq(Nat)
    BY <1>1, PlacesAre DEF Runs
  <2>7. StepAt(e, c, j) = run
    <3>1. Runs(c)[After(j, Cmds(e)) + 1] = k + 2
      BY <2>4, <2>5, <2>6
    <3> QED
      BY <2>4, <3>1 DEF StepAt
  <2>8. run.stdin = n /\ run.stdout = to.stdout /\ run.stderr = to.stderr
    BY DEF run, RunOn
  <2>9. Enters(e, c, j, n)
    BY <2>7, <2>8 DEF Enters
  <2>10. Behind(e, c, j - 1)
    <3>1. Len(Runs(c)) = After(j - 1, Cmds(e)) /\ Len(FileSteps(c)) = After(j - 1, Fls(e))
      BY <1>1, <2>4, <2>5, <2>6, OneBehindLess
    <3>2. IsFiniteSet(RunSteps(c)) /\ Cardinality(RunSteps(c)) = After(j - 1, Cmds(e))
      <4>1. k + 2 \notin RunSteps(b)
        BY <2>4
      <4>2. IsFiniteSet(RunSteps(b) \cup {k + 2}) /\ Cardinality(RunSteps(b) \cup {k + 2}) = Cardinality(RunSteps(b)) + 1
        BY <2>5, <4>1, FS_AddElement
      <4> QED
        BY <1>1, <2>4, <2>5, <4>2, OneBehindLess
    <3>3. \A x \in 1 .. Len(Runs(c)) : Runs(c)[x] \in 1 .. Len(c.steps)
      <4>1. ASSUME NEW x \in 1 .. Len(Runs(c)) PROVE Runs(c)[x] \in 1 .. Len(c.steps)
        <5>1. CASE x = Len(Runs(b)) + 1
          BY <2>4, <2>6, <5>1
        <5>2. CASE x \in 1 .. Len(Runs(b))
          <6>1. Runs(c)[x] = Runs(b)[x] /\ Runs(b)[x] \in 1 .. k
            BY <2>4, <2>5, <2>6, <5>2
          <6> QED
            BY <2>4, <6>1
        <5> QED
          BY <2>4, <2>6, <5>1, <5>2
      <4> QED
        BY <4>1
    <3>4. ASSUME NEW i \in Cmds(e), i > j - 1
          PROVE  Leads(e, c, i, StepAt(e, c, i).stdout, StepAt(e, c, i).stderr)
      <4>1. CASE i = j
        <5>1. Leads(e, c, j, to.stdout, to.stderr)
          BY <1>1, <2>1, <2>4, StillLeads, OneBehindLess
        <5> QED
          BY <2>7, <2>8, <4>1, <5>1
      <4>2. CASE i > j
        BY <1>1, <2>1, <2>4, <4>2, StillLeads, OneBehindLess
      <4> QED
        BY <1>1, <3>4, <4>1, <4>2, OneBehindLess
    <3> QED
      BY <3>1, <3>2, <3>3, <3>4 DEF Behind
  <2> QED
    BY <1>3, <2>2, <2>3, <2>9, <2>10 DEF Done, r, words
<1> QED
  BY <1>4, <1>5

LEMMA ConvertsElement ==
    ASSUME NEW a, NEW e \in Seq(Element), NEW j \in DOMAIN e, NEW to \in Goal(a), Good(a, e, to, j)
    PROVE  LET r == ConvertTarget(e[j], to)
           IN  r.b \in Builder(a) /\ r.stdin \in Nat /\ Done(a, e, r, j)
<1>1. CASE j \in Cmds(e)
  <2>1. ConvertTarget(e[j], to) = ConvertCommand(e[j].words, to)
    BY <1>1 DEF ConvertTarget, Cmds
  <2> QED
    BY <1>1, <2>1, ConvertsCommand
<1>2. CASE j \notin Cmds(e)
  BY <1>2, ConvertsFile
<1> QED
  BY <1>1, <1>2

-----------------------------------------------------------------------------
(* The clauses of a line, from the last to the first.                      *)

LEMMA ConvertsToGoals ==
    ASSUME NEW a, NEW clause \in Clause, NEW to \in Goal(a)
    PROVE  LET r == ConvertTarget(clause.target, to)
               c == ConvertClause(clause, to)
           IN  /\ r.b \in Builder(a) /\ r.stdin \in Nat
               /\ c = To(a, AddPipe(r.b), r.stdin, Len(r.b.pipes)) /\ c \in Goal(a)
<1> DEFINE target == clause.target r == ConvertTarget(target, to) c == ConvertClause(clause, to)
<1>1. target \in Element /\ clause.stream = "Stdout"
  BY DEF Clause
<1>2. to.prefs = a /\ to.b \in Builder(a)
  BY DEF Goal
<1>3. c = To(a, AddPipe(r.b), r.stdin, Len(r.b.pipes))
  BY <1>1, <1>2 DEF ConvertClause, NextPipe
<1> HIDE DEF target
<1>4. r.b \in Builder(a) /\ r.stdin \in Nat
  <2>1. CASE target.type = "File"
    <3> DEFINE step == [type |-> "OpenOutputFile", path |-> target.path] free == {"write"} d == AddStep(to.b, step, free)
    <3>1. step \in Step(a) /\ step.type \in {"Pipe", "OpenOutputFile"} /\ free \in Free
          /\ ("read" \in free => step.type = "Pipe")
      BY <1>1, <2>1 DEF Step, Free, Element
    <3>2. r.stdin = Len(to.b.pipes) /\ r.b = d
      BY <2>1 DEF ConvertTarget, NextPipe, AddFileOutput
    <3> HIDE DEF step, free, r
    <3>3. d \in Builder(a) /\ Len(to.b.pipes) \in Nat
      BY <1>2, <3>1, AddsPipe
    <3> QED
      BY <3>2, <3>3
  <2>2. CASE target.type # "File"
    <3>1. target.words \in Words
      BY <1>1, <2>2 DEF Element
    <3>2. r = ConvertCommand(target.words, to)
      BY <2>2 DEF ConvertTarget
    <3> HIDE DEF r
    <3> QED
      BY <3>1, <3>2, ConvertsOrFails
  <2> QED
    BY <2>1, <2>2
<1> HIDE DEF r, c
<1>5. AddPipe(r.b) \in Builder(a) /\ Len(r.b.pipes) \in Nat
  BY <1>4, AddsAPipe
<1>6. c \in Goal(a)
  BY <1>3, <1>4, <1>5 DEF To, Goal
<1> QED
  BY <1>3, <1>4, <1>6 DEF r, c, target

LEMMA BehindWithPipe ==
    ASSUME NEW a, NEW e \in Seq(Element), NEW j \in 0 .. Len(e), NEW b \in Builder(a), Behind(e, b, j)
    PROVE  Behind(e, AddPipe(b), j)
<1> DEFINE c == AddPipe(b)
<1>1. /\ Extends(b, c) /\ Runs(c) = Runs(b) /\ RunSteps(c) = RunSteps(b) /\ FileSteps(c) = FileSteps(b)
      /\ c.steps = Append(b.steps, [type |-> "Pipe"])
  BY AddsAPipe
<1> HIDE DEF c
<1>2. b.steps \in Seq(Step(a)) /\ Runs(b) \in Seq(Nat)
  BY PlacesAre DEF Builder, Runs
<1>3. Len(b.steps) \in Nat /\ Len(c.steps) = Len(b.steps) + 1
  BY <1>1, <1>2
<1>4. \A x \in 1 .. Len(Runs(c)) : Runs(c)[x] \in 1 .. Len(c.steps)
  <2>1. \A x \in 1 .. Len(Runs(b)) : Runs(b)[x] \in 1 .. Len(b.steps)
    BY DEF Behind
  <2> QED
    BY <1>1, <1>3, <2>1
<1>5. \A i \in Cmds(e) : i > j => Leads(e, c, i, StepAt(e, c, i).stdout, StepAt(e, c, i).stderr)
  BY <1>1, StillLeads
<1> QED
  BY <1>1, <1>4, <1>5 DEF Behind, c

LEMMA ConvertsOneClause ==
    ASSUME NEW a, NEW clause \in Clause, NEW e \in Seq(Element), NEW j \in DOMAIN e, e[j] = clause.target, j > 1,
           NEW to \in Goal(a), Good(a, e, to, j)
    PROVE  Good(a, e, ConvertClause(clause, to), j - 1)
<1> DEFINE r == ConvertTarget(e[j], to) n == Len(r.b.pipes) b == AddPipe(r.b) c == ConvertClause(clause, to)
<1>1. r.b \in Builder(a) /\ r.stdin \in Nat /\ Done(a, e, r, j)
  BY ConvertsElement
<1>2. c = To(a, b, r.stdin, n)
  BY ConvertsToGoals
<1> HIDE DEF r, c
<1>3. /\ b.outcome = r.b.outcome /\ Extends(r.b, b) /\ n \in Nat /\ Len(b.pipes) = n + 1
      /\ b.pipes[n + 1] = {"read", "write"}
  BY <1>1, AddsAPipe
<1>4. c.b = b /\ c.stdout = r.stdin /\ c.stderr = n
  BY <1>2 DEF To
<1>5. CASE r.b.outcome # "ok"
  BY <1>1, <1>3, <1>4, <1>5 DEF Done, Good, c
<1>6. CASE r.b.outcome = "ok"
  <2>1. Sound(r.b) /\ Writable(r.b, r.stdin) /\ Behind(e, r.b, j - 1) /\ Enters(e, r.b, j, r.stdin)
    BY <1>1, <1>6 DEF Done
  <2>2. Sound(b) /\ \A pipe : Writable(r.b, pipe) => Writable(b, pipe)
    <3> DEFINE step == [type |-> "Pipe"] free == {"read", "write"}
    <3>1. step \in Step(a) /\ step.type \in {"Pipe", "OpenOutputFile"} /\ free \in Free
          /\ ("read" \in free => step.type = "Pipe")
      BY DEF Step, Free
    <3>2. b = AddStep(r.b, step, free)
      BY DEF AddPipe
    <3> HIDE DEF step, free, b
    <3> QED
      BY <1>1, <2>1, <3>1, <3>2, SoundWithPipe DEF Sound
  <2> HIDE DEF b
  <2>3. Ready(c)
    <3>1. r.stdin < n /\ "write" \in b.pipes[n + 1] /\ n < Len(b.pipes)
      BY <1>3, <2>1 DEF Writable
    <3>2. Writable(b, r.stdin) /\ Writable(b, n) /\ r.stdin # n
      BY <1>1, <1>3, <2>1, <2>2, <3>1 DEF Writable
    <3> QED
      BY <1>4, <3>2 DEF Ready
  <2>4. Behind(e, b, j - 1)
    BY <1>1, <2>1, BehindWithPipe, OneBehindLess DEF b
  <2>5. Leads(e, b, j - 1, r.stdin, n)
    <3>1. j - 1 # Len(e) /\ (j - 1) + 1 = j /\ j > j - 1
      OBVIOUS
    <3>2. Enters(e, b, j, r.stdin)
      BY <1>3, <2>1, <3>1, StillThere, OneBehindLess DEF Behind
    <3>3. n > 1
      BY <2>1 DEF Sound, Shown
    <3> QED
      BY <1>3, <3>1, <3>2, <3>3 DEF Leads
  <2> QED
    BY <1>3, <1>4, <1>6, <2>2, <2>3, <2>4, <2>5 DEF Good, c
<1> QED
  BY <1>5, <1>6

\* The elements of a line.
Spells(e, head, clauses) ==
    /\ e \in Seq(Element) /\ Len(clauses) \in Nat /\ Len(e) = Len(clauses) + 1
    /\ e[1] = [type |-> "Command", words |-> head]
    /\ \A i \in 1 .. Len(clauses) : e[i + 1] = clauses[i].target

LEMMA GoalsInARow ==
    ASSUME NEW a, NEW first \in Goal(a), NEW n \in Nat, NEW next \in [1 .. n -> [Goal(a) -> Goal(a)]]
    PROVE  \E f \in [0 .. n -> Goal(a)] : f[0] = first /\ \A k \in 1 .. n : f[k] = next[k][f[k - 1]]
  BY Recursion

LEMMA ConvertsClauses ==
    ASSUME NEW a, NEW head, NEW clauses \in Seq(Clause), NEW e, Spells(e, head, clauses),
           NEW to \in Goal(a), Good(a, e, to, Len(e))
    PROVE  ConvertClauses(clauses, to) \in Goal(a) /\ Good(a, e, ConvertClauses(clauses, to), 1)
<1> DEFINE n == Len(clauses)
           next == [k \in 1 .. n |-> [t \in Goal(a) |-> ConvertClause(clauses[n + 1 - k], t)]]
           Def(f) == f = [k \in 0 .. n |-> IF k = 0 THEN to ELSE ConvertClause(clauses[n + 1 - k], f[k - 1])]
           g == CHOOSE f : Def(f)
<1>0. n \in Nat /\ e \in Seq(Element) /\ Len(e) = n + 1 /\ \A k \in 1 .. n : n + 1 - k \in 1 .. n /\ clauses[n + 1 - k] \in Clause
  BY DEF Spells
<1>1. \A k \in 1 .. n, t \in Goal(a) : next[k][t] = ConvertClause(clauses[n + 1 - k], t) /\ next[k][t] \in Goal(a)
  BY <1>0, ConvertsToGoals
<1>2. next \in [1 .. n -> [Goal(a) -> Goal(a)]]
  BY <1>0, ConvertsToGoals
<1> HIDE DEF next
<1>3. PICK f \in [0 .. n -> Goal(a)] : f[0] = to /\ \A k \in 1 .. n : f[k] = next[k][f[k - 1]]
  <2> HIDE DEF n
  <2>1. n \in Nat
    BY <1>0
  <2> QED
    BY <1>2, <2>1, GoalsInARow
<1>4. ASSUME NEW k \in 0 .. n
      PROVE  f[k] = IF k = 0 THEN to ELSE ConvertClause(clauses[n + 1 - k], f[k - 1])
  <2>1. CASE k = 0
    BY <1>3, <2>1
  <2>2. CASE k # 0
    <3>1. k \in 1 .. n /\ k - 1 \in 0 .. n /\ f[k - 1] \in Goal(a)
      BY <1>0, <1>3, <2>2
    <3> QED
      BY <1>1, <1>3, <2>2, <3>1
  <2> QED
    BY <2>1, <2>2
<1>5. Def(f)
  BY <1>3, <1>4
<1>6. Def(g)
  BY <1>5, Zenon
<1>7. g[0] = to /\ \A k \in 1 .. n : g[k] = ConvertClause(clauses[n + 1 - k], g[k - 1])
  <2>1. g = [k \in 0 .. n |-> IF k = 0 THEN to ELSE ConvertClause(clauses[n + 1 - k], g[k - 1])]
    BY <1>6
  <2> HIDE DEF g
  <2>2. \A k \in 0 .. n : g[k] = IF k = 0 THEN to ELSE ConvertClause(clauses[n + 1 - k], g[k - 1])
    BY <2>1
  <2>3. 0 \in 0 .. n /\ \A k \in 1 .. n : k \in 0 .. n /\ k # 0
    BY <1>0
  <2> QED
    BY <2>2, <2>3
<1>8. ConvertClauses(clauses, to) = g[n]
  BY DEF ConvertClauses
<1> HIDE DEF g, Def
<1> DEFINE T == {k \in Nat : k <= n => g[k] \in Goal(a) /\ Good(a, e, g[k], n + 1 - k)}
<1>9. 0 \in T
  BY <1>0, <1>7
<1>10. ASSUME NEW k \in Nat, k \in T PROVE k + 1 \in T
  <2> SUFFICES ASSUME k + 1 <= n PROVE g[k + 1] \in Goal(a) /\ Good(a, e, g[k + 1], n + 1 - (k + 1))
    OBVIOUS
  <2> DEFINE j == n + 1 - k i == n - k
  <2>1. /\ k + 1 \in 1 .. n /\ (k + 1) - 1 = k /\ j \in DOMAIN e /\ j > 1 /\ j - 1 = i
        /\ n + 1 - (k + 1) = i /\ i \in 1 .. n /\ i + 1 = j
    BY <1>0, <1>10
  <2>2. g[k] \in Goal(a) /\ Good(a, e, g[k], j)
    BY <1>10, <2>1
  <2>3. g[k + 1] = ConvertClause(clauses[i], g[k]) /\ clauses[i] \in Clause
    BY <1>0, <1>7, <2>1
  <2>4. e[j] = clauses[i].target
    BY <2>1 DEF Spells
  <2> HIDE DEF i, j
  <2>5. ConvertClause(clauses[i], g[k]) \in Goal(a)
    BY <2>2, <2>3, ConvertsToGoals
  <2>6. Good(a, e, ConvertClause(clauses[i], g[k]), i)
    BY <1>0, <2>1, <2>2, <2>3, <2>4, ConvertsOneClause
  <2> QED
    BY <2>1, <2>3, <2>5, <2>6
<1>11. g[n] \in Goal(a) /\ Good(a, e, g[n], 1)
  <2> HIDE DEF T
  <2>1. n \in T
    BY <1>0, <1>9, <1>10, AllNumbers
  <2>2. n <= n /\ n + 1 - n = 1
    BY <1>0
  <2> QED
    BY <2>1, <2>2 DEF T
<1> QED
  BY <1>8, <1>11

-----------------------------------------------------------------------------
(* A whole line.                                                           *)

IsLine(l) ==
    \/ l = Empty
    \/ l.type = "Cmd" /\ l.head \in Words
    \/ l.type = "Redirect" /\ l.head \in Words /\ l.clauses \in Seq(Clause)
    \/ l.type = "Sequence"

ElementsOf(l) ==
    CASE l.type = "Cmd"      -> <<[type |-> "Command", words |-> l.head]>>
      [] l.type = "Redirect" -> <<[type |-> "Command", words |-> l.head]>> \o
                                [i \in DOMAIN l.clauses |-> l.clauses[i].target]
      [] OTHER               -> <<>>

LEMMA HeadIsElement ==
    ASSUME NEW head \in Words
    PROVE  [type |-> "Command", words |-> head] \in Element
  BY DEF Element

LEMMA ElementsAre ==
    ASSUME NEW l, IsLine(l)
    PROVE  /\ ElementsOf(l) \in Seq(Element)
           /\ l.type = "Cmd" => Len(ElementsOf(l)) = 1 /\ ElementsOf(l)[1] = [type |-> "Command", words |-> l.head]
           /\ l.type = "Redirect" => Spells(ElementsOf(l), l.head, l.clauses)
           /\ l.type \notin {"Cmd", "Redirect"} => ElementsOf(l) = <<>>
<1>1. CASE l.type = "Cmd"
  <2> DEFINE x == [type |-> "Command", words |-> l.head]
  <2>1. x \in Element
    BY <1>1, HeadIsElement DEF IsLine, Empty
  <2>2. ElementsOf(l) = <<x>>
    BY <1>1 DEF ElementsOf
  <2> HIDE DEF x
  <2>3. ElementsOf(l) \in Seq(Element) /\ Len(ElementsOf(l)) = 1 /\ ElementsOf(l)[1] = x
    BY <2>1, <2>2
  <2> QED
    BY <1>1, <2>3 DEF x
<1>2. CASE l.type = "Redirect"
  <2> DEFINE x == [type |-> "Command", words |-> l.head] clauses == l.clauses
             targets == [i \in DOMAIN clauses |-> clauses[i].target]
  <2>1. x \in Element /\ clauses \in Seq(Clause)
    BY <1>2, HeadIsElement DEF IsLine, Empty
  <2>2. ElementsOf(l) = <<x>> \o targets
    BY <1>2 DEF ElementsOf
  <2> HIDE DEF x, clauses
  <2>3. \A i \in 1 .. Len(clauses) : clauses[i].target \in Element
    <3>1. \A i \in 1 .. Len(clauses) : clauses[i] \in Clause
      BY <2>1
    <3> QED
      BY <3>1 DEF Clause
  <2>4. /\ targets \in Seq(Element) /\ Len(targets) = Len(clauses) /\ Len(clauses) \in Nat
        /\ \A i \in 1 .. Len(clauses) : targets[i] = clauses[i].target
    <3>1. DOMAIN clauses = 1 .. Len(clauses) /\ Len(clauses) \in Nat
      BY <2>1
    <3>2. targets \in [1 .. Len(clauses) -> Element]
      BY <2>3, <3>1
    <3> QED
      BY <3>1, <3>2
  <2> HIDE DEF targets
  <2>5. /\ <<x>> \o targets \in Seq(Element) /\ Len(<<x>> \o targets) = Len(clauses) + 1 /\ (<<x>> \o targets)[1] = x
        /\ \A i \in 1 .. Len(clauses) : (<<x>> \o targets)[i + 1] = targets[i]
    BY <2>1, <2>4
  <2>6. Spells(ElementsOf(l), l.head, clauses)
    BY <2>2, <2>4, <2>5 DEF Spells, x
  <2> QED
    BY <1>2, <2>2, <2>5, <2>6 DEF clauses
<1>3. CASE l.type \notin {"Cmd", "Redirect"}
  <2>1. ElementsOf(l) = <<>>
    BY <1>3 DEF ElementsOf
  <2>2. <<>> \in Seq(Element)
    OBVIOUS
  <2> QED
    BY <1>3, <2>1, <2>2
<1> QED
  BY <1>1, <1>2, <1>3

\* The builder that a line is converted to.
TwoPipes == AddPipe(AddPipe(NewBuilder))

LEMMA StartsSound ==
    ASSUME NEW a
    PROVE  LET b == TwoPipes
           IN  /\ b \in Builder(a) /\ b.outcome = "ok" /\ Sound(b)
               /\ To(a, b, 0, 1) \in Goal(a) /\ Ready(To(a, b, 0, 1))
               /\ Runs(b) = <<>> /\ FileSteps(b) = <<>> /\ RunSteps(b) = {}
<1> DEFINE none == NewBuilder one == AddPipe(none) b == AddPipe(one) step == [type |-> "Pipe"] free == {"read", "write"}
<1>1. none \in Builder(a) /\ none.outcome = "ok" /\ none.steps = <<>> /\ none.pipes = <<>>
  BY DEF NewBuilder, Builder, NoSinks
<1> HIDE DEF none
<1>2. /\ PipeSteps(none) = <<>> /\ Runs(none) = <<>> /\ FileSteps(none) = <<>>
  BY <1>1, StepsOfNone DEF PipeSteps, Runs, FileSteps
<1>3. RunSteps(none) = {}
  BY <1>1 DEF RunSteps
<1>4. Laid(none) /\ Ran(none)
  BY <1>1, <1>2, <1>3 DEF Laid, Ran
<1>5. step \in Step(a) /\ step.type \in {"Pipe", "OpenOutputFile"} /\ free \in Free /\ ("read" \in free => step.type = "Pipe")
  BY DEF Step, Free
<1>6. one = AddStep(none, step, free) /\ b = AddStep(one, step, free)
  BY DEF AddPipe
<1>7. /\ one \in Builder(a) /\ one.outcome = "ok"
      /\ Len(one.pipes) = 1 /\ one.pipes[1] = free
      /\ Runs(one) = <<>> /\ RunSteps(one) = {} /\ FileSteps(one) = <<>>
      /\ one.steps = <<step>>
  <2>1. /\ one \in Builder(a) /\ one.outcome = none.outcome
        /\ Len(one.pipes) = Len(none.pipes) + 1 /\ one.pipes[Len(none.pipes) + 1] = free
        /\ Runs(one) = Runs(none) /\ RunSteps(one) = RunSteps(none) /\ FileSteps(one) = FileSteps(none)
        /\ one.steps = Append(none.steps, step)
    BY <1>1, AddsAPipe
  <2> HIDE DEF one, step, free
  <2>2. Len(none.pipes) = 0 /\ Append(none.steps, step) = <<step>>
    BY <1>1
  <2> QED
    BY <1>1, <1>2, <1>3, <2>1, <2>2
<1> HIDE DEF one, step, free
<1>8. Laid(one) /\ Ran(one)
  BY <1>1, <1>4, <1>5, <1>6, SoundWithPipe
<1>9. /\ b \in Builder(a) /\ b.outcome = "ok"
      /\ Len(b.pipes) = 2 /\ b.pipes[2] = {"read", "write"} /\ b.pipes[1] = one.pipes[1]
      /\ Runs(b) = <<>> /\ RunSteps(b) = {} /\ FileSteps(b) = <<>>
  <2>1. /\ b \in Builder(a) /\ b.outcome = one.outcome
        /\ Len(b.pipes) = Len(one.pipes) + 1 /\ b.pipes[Len(one.pipes) + 1] = {"read", "write"}
        /\ \A q \in 1 .. Len(one.pipes) : b.pipes[q] = one.pipes[q]
        /\ Runs(b) = Runs(one) /\ RunSteps(b) = RunSteps(one) /\ FileSteps(b) = FileSteps(one)
    BY <1>7, AddsAPipe
  <2> HIDE DEF b
  <2>2. 1 \in 1 .. Len(one.pipes) /\ Len(one.pipes) + 1 = 2
    BY <1>7
  <2> QED
    BY <1>7, <2>1, <2>2
<1> HIDE DEF b
<1>10. Laid(b) /\ Ran(b)
  BY <1>5, <1>6, <1>7, <1>8, SoundWithPipe
<1>11. Sound(b)
  BY <1>7, <1>9, <1>10 DEF Sound, Shown, free
<1>12. To(a, b, 0, 1) \in Goal(a)
  BY <1>9 DEF To, Goal
<1>13. Ready(To(a, b, 0, 1))
  BY <1>7, <1>9 DEF To, Ready, Writable, free
<1>14. b = TwoPipes
  BY DEF b, one, none, TwoPipes
<1> QED
  BY <1>9, <1>11, <1>12, <1>13, <1>14

LEMMA StartsGood ==
    ASSUME NEW a, NEW e \in Seq(Element)
    PROVE  Behind(e, TwoPipes, Len(e)) /\ Good(a, e, To(a, TwoPipes, 0, 1), Len(e))
<1> DEFINE b == TwoPipes to == To(a, b, 0, 1)
<1>1. Len(e) \in Nat /\ Cmds(e) \subseteq 1 .. Len(e) /\ Fls(e) \subseteq 1 .. Len(e)
  BY DEF Cmds, Fls
<1>2. After(Len(e), Cmds(e)) = 0 /\ After(Len(e), Fls(e)) = 0
  BY <1>1, NoneBehind
<1>3. /\ b \in Builder(a) /\ b.outcome = "ok" /\ Sound(b) /\ Ready(to)
      /\ Runs(b) = <<>> /\ FileSteps(b) = <<>> /\ RunSteps(b) = {}
  BY StartsSound
<1>4. to.b = b /\ to.stdout = 0 /\ to.stderr = 1
  BY DEF To
<1> HIDE DEF b, to
<1>5. Behind(e, b, Len(e))
  <2>1. IsFiniteSet({}) /\ Cardinality({}) = 0
    BY FS_EmptySet
  <2>2. \A i \in Cmds(e) : ~(i > Len(e))
    BY <1>1
  <2>3. Len(Runs(b)) = 0 /\ Len(FileSteps(b)) = 0
    BY <1>3
  <2>4. \A x \in 1 .. Len(Runs(b)) : FALSE
    BY <2>3
  <2> QED
    BY <1>2, <1>3, <2>1, <2>2, <2>3, <2>4 DEF Behind
<1>6. Leads(e, b, Len(e), 0, 1)
  BY DEF Leads
<1> QED
  BY <1>3, <1>4, <1>5, <1>6 DEF Good, b, to

LEMMA ConvertsLine ==
    ASSUME NEW a, NEW l, IsLine(l)
    PROVE  LET b == Convert(l, To(a, TwoPipes, 0, 1)).b e == ElementsOf(l)
           IN  /\ b \in Builder(a)
               /\ IF b.outcome = "ok" THEN Sound(b) /\ Behind(e, b, 0)
                  ELSE l.type = "Sequence" \/ Hopeless(a, e)
<1> DEFINE to == To(a, TwoPipes, 0, 1) r == Convert(l, to) e == ElementsOf(l)
<1>1. e \in Seq(Element)
  BY ElementsAre
<1>2. TwoPipes \in Builder(a) /\ TwoPipes.outcome = "ok" /\ Sound(TwoPipes) /\ to \in Goal(a) /\ to.b = TwoPipes
  <2>1. to.b = TwoPipes
    BY DEF To
  <2> HIDE DEF to
  <2> QED
    BY <2>1, StartsSound DEF to
<1>3. Behind(e, TwoPipes, Len(e)) /\ Good(a, e, to, Len(e))
  BY <1>1, StartsGood
<1> HIDE DEF to
<1>4. CASE l = Empty
  <2>1. r.b = TwoPipes
    BY <1>2, <1>4 DEF Convert, Empty
  <2>2. e = <<>>
    BY <1>4, ElementsAre DEF Empty
  <2>3. Len(e) = 0
    BY <2>2
  <2> QED
    BY <1>2, <1>3, <2>1, <2>3 DEF to
<1>5. CASE l.type = "Sequence"
  <2>1. r.b = Fail(to.b, "panic")
    BY <1>5 DEF Convert
  <2>2. r.b = [to.b EXCEPT !.outcome = "panic"]
    BY <1>2, <2>1 DEF Fail
  <2> HIDE DEF r
  <2>3. r.b \in Builder(a) /\ r.b.outcome = "panic"
    BY <1>2, <2>2 DEF Builder
  <2> QED
    BY <1>5, <2>3 DEF r, to
<1> DEFINE head == [type |-> "Command", words |-> l.head]
<1>6. ASSUME NEW goal \in Goal(a), Good(a, e, goal, 1), 1 \in DOMAIN e, e[1] = head, r = ConvertCommand(l.head, goal)
      PROVE  /\ r.b \in Builder(a)
             /\ IF r.b.outcome = "ok" THEN Sound(r.b) /\ Behind(e, r.b, 0) ELSE Hopeless(a, e)
  <2>1. 1 \in Cmds(e) /\ e[1].words = l.head
    BY <1>6 DEF Cmds
  <2> HIDE DEF r, e
  <2>2. r.b \in Builder(a) /\ Done(a, e, r, 1)
    BY <1>1, <1>6, <2>1, ConvertsCommand
  <2> QED
    BY <2>2 DEF Done
<1>7. CASE l.type = "Cmd"
  <2>1. Len(e) = 1 /\ e[1] = head /\ 1 \in DOMAIN e
    BY <1>1, <1>7, ElementsAre
  <2>2. r = ConvertCommand(l.head, to)
    BY <1>7 DEF Convert
  <2> HIDE DEF r, e, head
  <2>3. /\ r.b \in Builder(a)
        /\ IF r.b.outcome = "ok" THEN Sound(r.b) /\ Behind(e, r.b, 0) ELSE Hopeless(a, e)
    BY <1>2, <1>3, <1>6, <2>1, <2>2
  <2> QED
    BY <2>3 DEF r, e, to
<1>8. CASE l.type = "Redirect"
  <2> DEFINE goal == ConvertClauses(l.clauses, to)
  <2>1. Spells(e, l.head, l.clauses) /\ l.clauses \in Seq(Clause)
    <3>1. Spells(e, l.head, l.clauses)
      BY <1>8, ElementsAre
    <3>2. l # Empty
      BY <1>8 DEF Empty
    <3> HIDE DEF e
    <3> QED
      BY <1>8, <3>1, <3>2 DEF IsLine
  <2>2. goal \in Goal(a) /\ Good(a, e, goal, 1)
    BY <1>2, <1>3, <2>1, ConvertsClauses
  <2>3. 1 \in DOMAIN e /\ e[1] = head
    <3>1. Len(e) = Len(l.clauses) + 1 /\ Len(l.clauses) \in Nat /\ e[1] = head
      BY <2>1 DEF Spells
    <3> HIDE DEF e, head
    <3> QED
      BY <1>1, <3>1
  <2>4. r = ConvertCommand(l.head, goal)
    BY <1>8 DEF Convert
  <2> HIDE DEF r, e, head, goal
  <2>5. /\ r.b \in Builder(a)
        /\ IF r.b.outcome = "ok" THEN Sound(r.b) /\ Behind(e, r.b, 0) ELSE Hopeless(a, e)
    BY <1>6, <2>2, <2>3, <2>4
  <2> QED
    BY <2>5 DEF r, e, to
<1> QED
  BY <1>4, <1>5, <1>7, <1>8 DEF IsLine

-----------------------------------------------------------------------------
(* The plan of a line.                                                     *)

HasSinks(p) == DOMAIN p.sink_map = {0, 1} /\ p.sink_map[0] = "Stdout" /\ p.sink_map[1] = "Stderr"

HasFields(b) == b = [steps |-> b.steps, sink_map |-> b.sink_map, pipes |-> b.pipes, outcome |-> b.outcome]

LEMMA PipeAdded ==
    ASSUME NEW b, HasFields(b)
    PROVE  LET c == AddPipe(b)
           IN  /\ HasFields(c) /\ c.steps = Append(b.steps, [type |-> "Pipe"])
               /\ c.sink_map = b.sink_map /\ c.outcome = b.outcome
<1> DEFINE steps == Append(b.steps, [type |-> "Pipe"]) pipes == Append(b.pipes, {"read", "write"}) c == AddPipe(b)
<1>1. c = [b EXCEPT !.steps = steps, !.pipes = pipes]
  BY DEF AddPipe, AddStep
<1> HIDE DEF steps, pipes, c
<1>2. c = [steps |-> steps, sink_map |-> b.sink_map, pipes |-> pipes, outcome |-> b.outcome]
  BY <1>1 DEF HasFields
<1>3. c.steps = steps /\ c.sink_map = b.sink_map /\ c.outcome = b.outcome /\ HasFields(c)
  BY <1>2 DEF HasFields
<1> QED
  BY <1>3 DEF steps, c

LEMMA SinkAdded ==
    ASSUME NEW b, NEW pipe, NEW sink, pipe \notin DOMAIN b.sink_map, HasFields(b)
    PROVE  LET c == AddSink(b, pipe, sink)
           IN  /\ c.steps = b.steps /\ c.pipes = b.pipes /\ c.outcome = b.outcome
               /\ HasFields(c)
               /\ DOMAIN c.sink_map = DOMAIN b.sink_map \cup {pipe} /\ c.sink_map[pipe] = sink
               /\ \A q \in DOMAIN b.sink_map : c.sink_map[q] = b.sink_map[q]
<1> DEFINE c == AddSink(b, pipe, sink)
           sinks == [q \in DOMAIN b.sink_map \cup {pipe} |-> IF q = pipe THEN sink ELSE b.sink_map[q]]
<1>1. c = [b EXCEPT !.sink_map = sinks]
  BY DEF AddSink
<1>2. /\ DOMAIN sinks = DOMAIN b.sink_map \cup {pipe} /\ sinks[pipe] = sink
      /\ \A q \in DOMAIN b.sink_map : sinks[q] = b.sink_map[q]
  OBVIOUS
<1> HIDE DEF sinks, c
<1>3. c = [steps |-> b.steps, sink_map |-> sinks, pipes |-> b.pipes, outcome |-> b.outcome]
  BY <1>1 DEF HasFields
<1>4. c.steps = b.steps /\ c.pipes = b.pipes /\ c.outcome = b.outcome /\ c.sink_map = sinks /\ HasFields(c)
  BY <1>3 DEF HasFields
<1> QED
  BY <1>2, <1>4 DEF c

LEMMA SinksAdded ==
    ASSUME NEW a, NEW b \in Builder(a)
    PROVE  LET p == Build(AddSink(AddSink(b, 0, "Stdout"), 1, "Stderr"))
           IN  p.steps = b.steps /\ p.outcome = b.outcome /\ HasSinks(p)
<1> DEFINE c == AddSink(b, 0, "Stdout") d == AddSink(c, 1, "Stderr") p == Build(d)
<1>1. HasFields(b) /\ DOMAIN b.sink_map = {}
  BY DEF Builder, NoSinks, HasFields
<1>2. /\ c.steps = b.steps /\ c.outcome = b.outcome
      /\ HasFields(c)
      /\ DOMAIN c.sink_map = DOMAIN b.sink_map \cup {0} /\ c.sink_map[0] = "Stdout"
  <2>1. 0 \notin DOMAIN b.sink_map
    BY <1>1
  <2> QED
    BY <1>1, <2>1, SinkAdded
<1> HIDE DEF c
<1>3. /\ d.steps = c.steps /\ d.outcome = c.outcome
      /\ DOMAIN d.sink_map = DOMAIN c.sink_map \cup {1} /\ d.sink_map[1] = "Stderr"
      /\ \A q \in DOMAIN c.sink_map : d.sink_map[q] = c.sink_map[q]
  <2>1. 1 \notin DOMAIN c.sink_map
    BY <1>1, <1>2
  <2> QED
    BY <1>2, <2>1, SinkAdded
<1> HIDE DEF d
<1>4. p.steps = d.steps /\ p.outcome = d.outcome /\ p.sink_map = d.sink_map
  BY DEF Build
<1> HIDE DEF p
<1>5. HasSinks(p)
  BY <1>1, <1>2, <1>3, <1>4 DEF HasSinks
<1> QED
  BY <1>2, <1>3, <1>4, <1>5 DEF p, d, c

LEMMA EmptyPlanIs == EmptyPlan.steps = TwoPipes.steps /\ EmptyPlan.outcome = "ok" /\ HasSinks(EmptyPlan)
<1> DEFINE pipe == [type |-> "Pipe"]
           b0 == NewBuilder b1 == AddPipe(b0) b2 == AddSink(b1, 0, "Stdout") b3 == AddPipe(b2) b4 == AddSink(b3, 1, "Stderr")
           t == AddPipe(b1)
<1>0. HasFields(b0) /\ b0.steps = <<>> /\ b0.sink_map = NoSinks /\ b0.outcome = "ok" /\ DOMAIN NoSinks = {}
  BY DEF NewBuilder, HasFields, NoSinks
<1>1. /\ HasFields(b1) /\ b1.steps = Append(<<>>, pipe) /\ b1.outcome = "ok" /\ DOMAIN b1.sink_map = {}
  <2>1. HasFields(b1) /\ b1.steps = Append(b0.steps, pipe) /\ b1.outcome = b0.outcome /\ b1.sink_map = b0.sink_map
    BY <1>0, PipeAdded
  <2> HIDE DEF b0, b1
  <2> QED
    BY <1>0, <2>1
<1>5. TwoPipes.steps = Append(Append(<<>>, pipe), pipe)
  <2>1. t.steps = Append(b1.steps, pipe)
    BY <1>1, PipeAdded
  <2>2. t = TwoPipes
    BY DEF TwoPipes
  <2> HIDE DEF t, b1
  <2> QED
    BY <1>1, <2>1, <2>2
<1> HIDE DEF b1
<1>2. HasFields(b2) /\ b2.steps = b1.steps /\ b2.outcome = b1.outcome /\ DOMAIN b2.sink_map = {0} /\ b2.sink_map[0] = "Stdout"
  <2>1. 0 \notin DOMAIN b1.sink_map
    BY <1>1
  <2>2. /\ HasFields(b2) /\ b2.steps = b1.steps /\ b2.outcome = b1.outcome
        /\ DOMAIN b2.sink_map = DOMAIN b1.sink_map \cup {0} /\ b2.sink_map[0] = "Stdout"
    BY <1>1, <2>1, SinkAdded
  <2> HIDE DEF b2
  <2> QED
    BY <1>1, <2>2
<1> HIDE DEF b2
<1>3. HasFields(b3) /\ b3.steps = Append(b2.steps, pipe) /\ b3.outcome = b2.outcome /\ b3.sink_map = b2.sink_map
  BY <1>2, PipeAdded
<1> HIDE DEF b3
<1>4. /\ b4.steps = b3.steps /\ b4.outcome = b3.outcome /\ DOMAIN b4.sink_map = {0, 1}
      /\ b4.sink_map[0] = "Stdout" /\ b4.sink_map[1] = "Stderr"
  <2>1. 1 \notin DOMAIN b3.sink_map
    BY <1>2, <1>3
  <2>2. /\ b4.steps = b3.steps /\ b4.outcome = b3.outcome
        /\ DOMAIN b4.sink_map = DOMAIN b3.sink_map \cup {1} /\ b4.sink_map[1] = "Stderr"
        /\ \A q \in DOMAIN b3.sink_map : b4.sink_map[q] = b3.sink_map[q]
    BY <1>3, <2>1, SinkAdded
  <2> HIDE DEF b4
  <2> QED
    BY <1>2, <1>3, <2>2
<1> HIDE DEF b4
<1>6. EmptyPlan = Build(b4)
  BY DEF EmptyPlan, b1, b2, b3, b4
<1>7. Build(b4).steps = b4.steps /\ Build(b4).outcome = b4.outcome /\ Build(b4).sink_map = b4.sink_map
  BY DEF Build
<1> QED
  BY <1>1, <1>2, <1>3, <1>4, <1>5, <1>6, <1>7 DEF HasSinks

LEMMA SoundIsRunnable ==
    ASSUME NEW a, NEW b \in Builder(a), Sound(b), NEW p, p.steps = b.steps, HasSinks(p)
    PROVE  Runnable(p)
<1> DEFINE made == PipeSteps(p)
           Exists(end, k) == /\ end[1] < Len(made) /\ made[end[1] + 1] < k
                             /\ end[2] = "read" => p.steps[made[end[1] + 1]].type = "Pipe"
<1>1. made = PipeSteps(b) /\ RunSteps(p) = RunSteps(b)
  BY StepsOfSame DEF PipeSteps, RunSteps
<1>2. Len(made) = Len(b.pipes)
  BY <1>1 DEF Sound, Laid
<1> HIDE DEF made
<1>3. ASSUME NEW k, NEW pipe, NEW end, Taken(b, k, pipe, end) PROVE Exists(<<pipe, end>>, k)
  BY <1>1, <1>2, <1>3 DEF Taken
<1>4. SinkEnds(p) = {<<0, "read">>, <<1, "read">>}
  BY DEF SinkEnds, HasSinks
<1>5. ASSUME NEW end \in SinkEnds(p) PROVE Exists(end, Len(p.steps) + 1)
  <2>1. PICK pipe \in {0, 1} : end = <<pipe, "read">>
    BY <1>4
  <2>2. Len(b.pipes) > 1 /\ "read" \in b.pipes[1] /\ "read" \in b.pipes[2] /\ Len(b.pipes) \in Nat /\ Len(b.steps) \in Nat
    BY DEF Sound, Shown, Builder
  <2>3. pipe + 1 \in 1 .. Len(b.pipes) /\ pipe < Len(b.pipes) /\ "read" \in b.pipes[pipe + 1]
    BY <2>2
  <2>4. PipeSteps(b)[pipe + 1] \in 1 .. Len(b.steps) /\ b.steps[PipeSteps(b)[pipe + 1]].type = "Pipe"
    BY <2>3 DEF Sound, Laid
  <2> QED
    BY <1>1, <1>2, <2>1, <2>2, <2>3, <2>4
<1>6. ASSUME NEW k \in RunSteps(p)
      PROVE  /\ p.steps[k].stdout # p.steps[k].stderr
             /\ \A end \in EndsOf(p, k) : Exists(end, k)
             /\ EndsOf(p, k) \cap SinkEnds(p) = {}
  <2> DEFINE run == b.steps[k]
  <2>1. /\ Taken(b, k, run.stdin, "read") /\ Taken(b, k, run.stdout, "write") /\ Taken(b, k, run.stderr, "write")
        /\ run.stdout # run.stderr
    BY <1>1, <1>6 DEF Sound, Ran
  <2>2. EndsOf(p, k) = {<<run.stdin, "read">>, <<run.stdout, "write">>, <<run.stderr, "write">>}
    BY DEF EndsOf
  <2>3. \A end \in EndsOf(p, k) : Exists(end, k)
    <3> HIDE DEF Exists, run
    <3> QED
      BY <1>3, <2>1, <2>2
  <2>4. run.stdin \notin {0, 1}
    <3>1. "read" \notin b.pipes[run.stdin + 1]
      BY <2>1 DEF Taken
    <3>2. "read" \in b.pipes[0 + 1] /\ "read" \in b.pipes[1 + 1]
      BY DEF Sound, Shown
    <3> QED
      BY <3>1, <3>2
  <2>5. EndsOf(p, k) \cap SinkEnds(p) = {}
    BY <1>4, <2>2, <2>4
  <2> QED
    BY <2>1, <2>3, <2>5
<1>7. ASSUME NEW k \in RunSteps(p), NEW j \in RunSteps(p) \ {k} PROVE EndsOf(p, j) \cap EndsOf(p, k) = {}
  <2>1. /\ b.steps[j].stdin # b.steps[k].stdin
        /\ b.steps[j].stdout \notin {b.steps[k].stdout, b.steps[k].stderr}
        /\ b.steps[j].stderr \notin {b.steps[k].stdout, b.steps[k].stderr}
    BY <1>1, <1>7 DEF Sound, Ran
  <2>2. \A i : EndsOf(p, i) = {<<b.steps[i].stdin, "read">>, <<b.steps[i].stdout, "write">>, <<b.steps[i].stderr, "write">>}
    BY DEF EndsOf
  <2> QED
    BY <2>1, <2>2
<1> HIDE DEF Exists
<1>8. /\ \A k \in RunSteps(p) :
            /\ p.steps[k].stdout # p.steps[k].stderr
            /\ \A end \in EndsOf(p, k) : Exists(end, k)
            /\ \A j \in RunSteps(p) \ {k} : EndsOf(p, j) \cap EndsOf(p, k) = {}
            /\ EndsOf(p, k) \cap SinkEnds(p) = {}
      /\ \A end \in SinkEnds(p) : Exists(end, Len(p.steps) + 1)
  BY <1>5, <1>6, <1>7
<1> QED
  BY <1>8, Zenon DEF Runnable, Exists, made

-----------------------------------------------------------------------------
(* Where the output of a line goes.                                        *)

RunIn(p, e, i) == p.steps[StepsOf(p, {"Run"})[After(i, Cmds(e)) + 1]]
FilePipeIn(p, e, i) ==
    (CHOOSE q \in DOMAIN PipeSteps(p) :
        PipeSteps(p)[q] = StepsOf(p, {"OpenOutputFile"})[After(i, Fls(e)) + 1]) - 1
FlowsIn(p, e) ==
    /\ Cardinality(RunSteps(p)) = Cardinality(Cmds(e))
    /\ \A i \in Cmds(e) :
          IF i = Len(e)
          THEN /\ p.sink_map[RunIn(p, e, i).stdout] = "Stdout"
               /\ p.sink_map[RunIn(p, e, i).stderr] = "Stderr"
          ELSE /\ RunIn(p, e, i).stdout = IF i + 1 \in Fls(e) THEN FilePipeIn(p, e, i + 1) ELSE RunIn(p, e, i + 1).stdin
               /\ RunIn(p, e, i).stderr \notin DOMAIN p.sink_map

LEMMA FilePipeIs ==
    ASSUME NEW a, NEW b \in Builder(a), Laid(b), NEW p, p.steps = b.steps, NEW e, NEW i, NEW pipe,
           i \notin Cmds(e), Enters(e, b, i, pipe)
    PROVE  pipe = FilePipeIn(p, e, i)
<1> DEFINE made == PipeSteps(b) place == FileSteps(b)[After(i, Fls(e)) + 1]
<1>1. made \in Seq(Nat) /\ Len(made) \in Nat /\ DOMAIN made = 1 .. Len(made)
  BY PlacesAre DEF PipeSteps
<1>2. pipe \in Nat /\ pipe < Len(made) /\ made[pipe + 1] = place
  BY DEF Enters
<1>3. \A q \in DOMAIN made : made[q] \in Nat /\ \A r \in DOMAIN made : q < r => made[q] < made[r]
  BY <1>1 DEF Laid
<1>4. PipeSteps(p) = made /\ StepsOf(p, {"OpenOutputFile"}) = FileSteps(b)
  BY StepsOfSame DEF PipeSteps, FileSteps
<1> HIDE DEF made, place
<1>5. pipe + 1 \in DOMAIN made /\ (pipe + 1) - 1 = pipe
  BY <1>1, <1>2
<1>6. ASSUME NEW q \in DOMAIN made, made[q] = place PROVE q = pipe + 1
  <2>1. q \in Nat /\ pipe + 1 \in Nat /\ made[q] = made[pipe + 1] /\ made[q] \in Nat
    BY <1>1, <1>2, <1>3, <1>6
  <2>2. ~(q < pipe + 1) /\ ~(pipe + 1 < q)
    BY <1>3, <1>5, <2>1
  <2> QED
    BY <2>1, <2>2
<1>7. (CHOOSE q \in DOMAIN made : made[q] = place) = pipe + 1
  BY <1>2, <1>5, <1>6
<1>8. FilePipeIn(p, e, i) = (CHOOSE q \in DOMAIN made : made[q] = place) - 1
  BY <1>4 DEF FilePipeIn, place
<1> QED
  BY <1>5, <1>7, <1>8

LEMMA FlowsAreIn ==
    ASSUME NEW a, NEW e \in Seq(Element), NEW b \in Builder(a), Sound(b), Behind(e, b, 0),
           NEW p, p.steps = b.steps, HasSinks(p)
    PROVE  FlowsIn(p, e)
<1>1. Len(e) \in Nat /\ DOMAIN e = 1 .. Len(e) /\ Cmds(e) \subseteq 1 .. Len(e)
  BY DEF Cmds
<1>2. RunSteps(p) = RunSteps(b) /\ \A i : RunIn(p, e, i) = StepAt(e, b, i)
  BY StepsOfSame DEF RunSteps, RunIn, StepAt, Runs
<1>3. Cardinality(RunSteps(p)) = Cardinality(Cmds(e))
  <2> DEFINE P == {i \in Cmds(e) : i > 0}
  <2>1. \A i \in Cmds(e) : i > 0
    BY <1>1
  <2>2. P = Cmds(e)
    BY <2>1
  <2>3. After(0, Cmds(e)) = Cardinality(P)
    BY DEF After
  <2> QED
    BY <1>2, <2>2, <2>3 DEF Behind
<1>4. ASSUME NEW i \in Cmds(e)
      PROVE  IF i = Len(e)
             THEN /\ p.sink_map[RunIn(p, e, i).stdout] = "Stdout"
                  /\ p.sink_map[RunIn(p, e, i).stderr] = "Stderr"
             ELSE /\ RunIn(p, e, i).stdout = IF i + 1 \in Fls(e) THEN FilePipeIn(p, e, i + 1) ELSE RunIn(p, e, i + 1).stdin
                  /\ RunIn(p, e, i).stderr \notin DOMAIN p.sink_map
  <2> DEFINE run == StepAt(e, b, i)
  <2>1. Leads(e, b, i, run.stdout, run.stderr)
    BY <1>1 DEF Behind
  <2>2. CASE i = Len(e)
    BY <1>2, <2>1, <2>2 DEF Leads, HasSinks
  <2>3. CASE i # Len(e)
    <3>1. Enters(e, b, i + 1, run.stdout) /\ run.stderr \in Nat /\ run.stderr > 1
      BY <2>1, <2>3 DEF Leads
    <3>2. run.stderr \notin DOMAIN p.sink_map
      BY <3>1 DEF HasSinks
    <3>3. i + 1 \in DOMAIN e
      BY <1>1, <2>3
    <3>4. CASE i + 1 \in Fls(e)
      <4>1. i + 1 \notin Cmds(e)
        BY <3>4 DEF Fls
      <4>2. run.stdout = FilePipeIn(p, e, i + 1)
        BY <3>1, <4>1, FilePipeIs DEF Sound
      <4> QED
        BY <1>2, <2>3, <3>2, <3>4, <4>2
    <3>5. CASE i + 1 \notin Fls(e)
      <4>1. i + 1 \in Cmds(e)
        BY <3>3, <3>5 DEF Fls
      <4>2. run.stdout = StepAt(e, b, i + 1).stdin
        BY <3>1, <4>1 DEF Enters
      <4> QED
        BY <1>2, <2>3, <3>2, <3>5, <4>2
    <3> QED
      BY <3>4, <3>5
  <2> QED
    BY <2>2, <2>3
<1> QED
  BY <1>3, <1>4 DEF FlowsIn

LEMMA PlanOfLine ==
    ASSUME NEW a, NEW l, IsLine(l)
    PROVE  LET p == PlanOf(a, l) e == ElementsOf(l)
           IN  IF p.outcome = "ok" THEN Runnable(p) /\ FlowsIn(p, e)
               ELSE l.type = "Sequence" \/ Hopeless(a, e)
<1> DEFINE b == Convert(l, To(a, TwoPipes, 0, 1)).b p == PlanOf(a, l) e == ElementsOf(l)
<1>1. /\ b \in Builder(a)
      /\ IF b.outcome = "ok" THEN Sound(b) /\ Behind(e, b, 0) ELSE l.type = "Sequence" \/ Hopeless(a, e)
  BY ConvertsLine
<1>2. e \in Seq(Element)
  BY ElementsAre
<1>3. p = Build(AddSink(AddSink(b, 0, "Stdout"), 1, "Stderr"))
  BY DEF PlanOf, TwoPipes
<1> HIDE DEF b, p, e
<1>4. p.steps = b.steps /\ p.outcome = b.outcome /\ HasSinks(p)
  BY <1>1, <1>3, SinksAdded
<1>5. CASE b.outcome = "ok"
  <2>1. Sound(b) /\ Behind(e, b, 0)
    BY <1>1, <1>5
  <2>2. Runnable(p)
    BY <1>1, <1>4, <2>1, SoundIsRunnable
  <2>3. FlowsIn(p, e)
    BY <1>1, <1>2, <1>4, <2>1, FlowsAreIn
  <2> QED
    BY <1>4, <1>5, <2>2, <2>3 DEF p, e
<1>6. CASE b.outcome # "ok"
  BY <1>1, <1>4, <1>6 DEF p, e
<1> QED
  BY <1>5, <1>6

\* What is returned at a Ctrl-C, and at the end of the input.
LEMMA PlanOfNothing ==
    /\ EmptyPlan.outcome = "ok" /\ Runnable(EmptyPlan) /\ FlowsIn(EmptyPlan, <<>>)
    /\ ExitPlan.outcome = "ok" /\ Runnable(ExitPlan) /\ FlowsIn(ExitPlan, <<>>)
<1>1. Cmds(<<>>) = {} /\ Cardinality({}) = 0
  BY FS_EmptySet DEF Cmds
<1>2. EmptyPlan.outcome = "ok" /\ Runnable(EmptyPlan) /\ FlowsIn(EmptyPlan, <<>>)
  <2>1. EmptyPlan.steps = TwoPipes.steps /\ EmptyPlan.outcome = "ok" /\ HasSinks(EmptyPlan)
    BY EmptyPlanIs
  <2>2. TwoPipes \in Builder(<<>>) /\ Sound(TwoPipes) /\ RunSteps(TwoPipes) = {}
    BY StartsSound
  <2>3. Runnable(EmptyPlan)
    BY <2>1, <2>2, SoundIsRunnable
  <2>4. RunSteps(EmptyPlan) = {}
    BY <2>1, <2>2 DEF RunSteps
  <2>5. FlowsIn(EmptyPlan, <<>>)
    BY <1>1, <2>4 DEF FlowsIn
  <2> QED
    BY <2>1, <2>3, <2>5
<1>3. ExitPlan.outcome = "ok" /\ Runnable(ExitPlan) /\ FlowsIn(ExitPlan, <<>>)
  <2>1. ExitPlan.outcome = "ok" /\ ExitPlan.steps = <<[type |-> "Close"]>> /\ DOMAIN ExitPlan.sink_map = {}
    BY DEF ExitPlan, Build, NewBuilder
  <2>2. RunSteps(ExitPlan) = {} /\ SinkEnds(ExitPlan) = {}
    BY <2>1 DEF RunSteps, SinkEnds
  <2>3. Runnable(ExitPlan)
    BY <2>2 DEF Runnable
  <2>4. FlowsIn(ExitPlan, <<>>)
    BY <1>1, <2>2 DEF FlowsIn
  <2> QED
    BY <2>1, <2>3, <2>4
<1> QED
  BY <1>2, <1>3

-----------------------------------------------------------------------------
(* What is parsed: each parse_... finds something of its kind, and goes on.*)

Results(V, first, last) == [value : V, pos : first .. last]
PipeLine == [type : {"Cmd"}, head : Words] \cup [type : {"Redirect"}, head : Words, clauses : Seq(Clause)]

LEMMA SkipsTo ==
    ASSUME NEW text \in Seq(STRING), NEW k \in Positions(text)
    PROVE  /\ skip_whitespace(text, k) \in k .. Len(text) + 1 /\ skip_whitespace(text, k) \in Positions(text)
           /\ cur(text, skip_whitespace(text, k)) # Space
<1> DEFINE n == Len(text) + 1
           Stops == {j \in k .. n : cur(text, j) # Space}
           Is(j) == cur(text, j) # Space /\ \A i \in k .. j - 1 : text[i] = Space
<1>1. n \in Nat /\ k \in Nat /\ k <= n /\ k >= 1
  BY DEF Positions
<1>2. n \in Stops
  BY <1>1 DEF cur, AtEnd, Space
<1>3. Stops \subseteq Nat /\ Stops # {}
  BY <1>1, <1>2
<1>4. PICK j \in Stops : \A i \in Stops : ~(i < j)
  BY <1>3, LeastOf
<1>5. j \in k .. n /\ cur(text, j) # Space
  BY <1>4
<1>6. ASSUME NEW i \in k .. j - 1 PROVE text[i] = Space
  <2>1. i \in k .. n /\ i < j /\ i # n
    BY <1>1, <1>5
  <2>2. cur(text, i) = Space
    BY <1>4, <2>1
  <2> QED
    BY <2>1, <2>2 DEF cur, AtEnd
<1>7. \E i \in k .. n : Is(i)
  BY <1>5, <1>6
<1> DEFINE c == CHOOSE i \in k .. n : Is(i)
<1>8. c \in k .. n /\ Is(c)
  BY <1>7
<1>9. skip_whitespace(text, k) = c
  BY DEF skip_whitespace
<1> HIDE DEF c
<1> QED
  BY <1>1, <1>8, <1>9 DEF Positions

LEMMA UntilIs ==
    ASSUME NEW text \in Seq(STRING), NEW k \in Positions(text), NEW items
    PROVE  LET end == Until(text, k, items)
           IN  end \in k .. Len(text) + 1 /\ (AtEnd(text, end) \/ text[end] \in items)
<1> DEFINE n == Len(text) + 1
           Stops == {j \in k .. n : AtEnd(text, j) \/ text[j] \in items}
           Is(j) == (AtEnd(text, j) \/ text[j] \in items) /\ \A i \in k .. j - 1 : text[i] \notin items
<1>1. n \in Nat /\ k \in Nat /\ k <= n /\ k >= 1
  BY DEF Positions
<1>2. n \in Stops
  BY <1>1 DEF AtEnd
<1>3. Stops \subseteq Nat /\ Stops # {}
  BY <1>1, <1>2
<1>4. PICK j \in Stops : \A i \in Stops : ~(i < j)
  BY <1>3, LeastOf
<1>5. j \in k .. n /\ (AtEnd(text, j) \/ text[j] \in items)
  BY <1>4
<1>6. ASSUME NEW i \in k .. j - 1 PROVE text[i] \notin items
  <2>1. i \in k .. n /\ i < j
    BY <1>1, <1>5
  <2> QED
    BY <1>4, <2>1
<1>7. \E i \in k .. n : Is(i)
  BY <1>5, <1>6
<1> DEFINE c == CHOOSE i \in k .. n : Is(i)
<1>8. c \in k .. n /\ Is(c)
  BY <1>7
<1>9. Until(text, k, items) = c
  BY DEF Until
<1> HIDE DEF c
<1> QED
  BY <1>8, <1>9

LEMMA JoinIs ==
    ASSUME NEW text \in Seq(STRING), NEW i \in Nat, NEW j \in Nat
    PROVE  Join(text, i, j) \in Item
<1>1. Join(text, i, j) \in {Join(text, k, m) : k, m \in Nat}
  OBVIOUS
<1> QED
  BY <1>1 DEF Item

LEMMA ParsesQuote ==
    ASSUME NEW text \in Seq(STRING), NEW i \in Positions(text), ~AtEnd(text, i)
    PROVE  parse_quote(text, i) \subseteq Results(Item, i + 1, Len(text) + 1)
<1> DEFINE n == Len(text) + 1 close == Until(text, i + 1, {Quote}) word == Join(text, i + 1, close - 1)
<1>1. n \in Nat /\ i \in Nat /\ i >= 1 /\ i + 1 \in Positions(text) /\ i + 1 <= n
  BY DEF Positions, AtEnd
<1>2. close \in i + 1 .. n
  BY <1>1, UntilIs
<1>3. parse_quote(text, i) = IF AtEnd(text, close) THEN {} ELSE {[value |-> word, pos |-> close + 1]}
  BY DEF parse_quote, Found
<1>4. word \in Item
  <2>1. i + 1 \in Nat /\ close - 1 \in Nat
    BY <1>1, <1>2
  <2> QED
    BY <2>1, JoinIs
<1>5. ~AtEnd(text, close) => close + 1 \in i + 1 .. n
  BY <1>1, <1>2 DEF AtEnd
<1> HIDE DEF close, word, n
<1> QED
  BY <1>3, <1>4, <1>5 DEF Results, n

LEMMA ParsesWord ==
    ASSUME NEW text \in Seq(STRING), NEW i \in Positions(text)
    PROVE  /\ parse_word(text, i) \subseteq Results(Item, i, Len(text) + 1)
           /\ cur(text, i) \notin Separators \cup {"", Space} => parse_word(text, i) \subseteq Results(Item, i + 1, Len(text) + 1)
<1> DEFINE n == Len(text) + 1 end == Until(text, i, Special) word == Join(text, i, end - 1)
<1>1. n \in Nat /\ i \in Nat /\ i >= 1 /\ i <= n
  BY DEF Positions
<1>2. end \in i .. n /\ (AtEnd(text, end) \/ text[end] \in Special)
  BY UntilIs
<1>3. word \in Item
  <2>1. end - 1 \in Nat
    BY <1>1, <1>2
  <2> QED
    BY <1>1, <2>1, JoinIs
<1>4. parse_word(text, i) = IF cur(text, i) = Quote THEN parse_quote(text, i)
                            ELSE IF cur(text, end) = Quote THEN {} ELSE {[value |-> word, pos |-> end]}
  BY DEF parse_word, Found
<1>5. ASSUME cur(text, i) = Quote
      PROVE  parse_quote(text, i) \subseteq Results(Item, i + 1, n)
  <2>1. ~AtEnd(text, i)
    BY <1>5 DEF cur, Quote
  <2> QED
    BY <2>1, ParsesQuote
<1>6. ASSUME cur(text, i) # Quote, cur(text, i) \notin Separators \cup {"", Space} PROVE end \in i + 1 .. n
  <2>1. ~AtEnd(text, i) /\ text[i] \notin Special
    BY <1>6 DEF cur, Special
  <2>2. end # i
    BY <1>2, <2>1
  <2> QED
    BY <1>1, <1>2, <2>2
<1>7. Results(Item, i + 1, n) \subseteq Results(Item, i, n)
  <2>1. i + 1 .. n \subseteq i .. n
    BY <1>1
  <2> QED
    BY <2>1 DEF Results
<1> HIDE DEF end, word, n
<1>8. ASSUME NEW m, end \in m .. n, cur(text, i) # Quote PROVE parse_word(text, i) \subseteq Results(Item, m, n)
  BY <1>3, <1>4, <1>8 DEF Results
<1>9. CASE cur(text, i) = Quote
  BY <1>4, <1>5, <1>7, <1>9 DEF n
<1>10. CASE cur(text, i) # Quote
  BY <1>2, <1>6, <1>8, <1>10 DEF n
<1> QED
  BY <1>9, <1>10

-----------------------------------------------------------------------------
(* The loop of a parse_...: from any position on it finds a sequence.      *)

LEMMA ThenIs ==
    ASSUME NEW V, NEW W, NEW k \in Nat, NEW n \in Nat, NEW results, results \subseteq Results(V, k, n),
           NEW rest, \A p \in k .. n : rest[p] \subseteq Results(W, p, n), NEW x \in Then(results, rest)
    PROVE  \E first \in V, more \in W : x.value = <<first>> \o more /\ x.pos \in k .. n
<1>1. PICK r \in results : x \in {[value |-> <<r.value>> \o more.value, pos |-> more.pos] : more \in rest[r.pos]}
  BY DEF Then
<1>2. PICK more \in rest[r.pos] : x = [value |-> <<r.value>> \o more.value, pos |-> more.pos]
  BY <1>1
<1>3. r.value \in V /\ r.pos \in k .. n
  BY <1>1 DEF Results
<1>4. more.value \in W /\ more.pos \in r.pos .. n
  BY <1>2, <1>3 DEF Results
<1>5. more.pos \in k .. n
  BY <1>3, <1>4
<1> QED
  BY <1>2, <1>3, <1>4, <1>5

LEMMA ThenRecord ==
    ASSUME NEW results, NEW rest, NEW x \in Then(results, rest)
    PROVE  x = [value |-> x.value, pos |-> x.pos]
<1>1. PICK r \in results : x \in {[value |-> <<r.value>> \o more.value, pos |-> more.pos] : more \in rest[r.pos]}
  BY DEF Then
<1>2. PICK more \in rest[r.pos] : x = [value |-> <<r.value>> \o more.value, pos |-> more.pos]
  BY <1>1
<1> DEFINE value == <<r.value>> \o more.value
<1> HIDE DEF value
<1>3. x = [value |-> value, pos |-> more.pos]
  BY <1>2 DEF value
<1> QED
  BY <1>3

LEMMA ThenInOrder ==
    ASSUME NEW V, NEW k \in Nat, NEW n \in Nat, NEW results, results \subseteq Results(V, k, n),
           NEW rest, \A p \in k .. n : rest[p] \subseteq Results(Seq(V), p, n)
    PROVE  Then(results, rest) \subseteq Results(Seq(V), k, n)
<1> SUFFICES ASSUME NEW x \in Then(results, rest) PROVE x \in Results(Seq(V), k, n)
  OBVIOUS
<1>1. PICK first \in V, more \in Seq(V) : x.value = <<first>> \o more /\ x.pos \in k .. n
  BY ThenIs
<1>2. <<first>> \o more \in Seq(V)
  OBVIOUS
<1>3. x = [value |-> x.value, pos |-> x.pos]
  BY ThenRecord
<1> QED
  BY <1>1, <1>2, <1>3 DEF Results

LEMMA ThenSame ==
    ASSUME NEW results, NEW f, NEW g, \A r \in results : f[r.pos] = g[r.pos]
    PROVE  Then(results, f) = Then(results, g)
<1> DEFINE With(rest, r) == {[value |-> <<r.value>> \o more.value, pos |-> more.pos] : more \in rest[r.pos]}
<1>1. ASSUME NEW r \in results PROVE With(f, r) = With(g, r)
  <2>1. f[r.pos] = g[r.pos]
    OBVIOUS
  <2> QED
    BY <2>1
<1>2. /\ Then(results, f) = UNION {With(f, r) : r \in results}
      /\ Then(results, g) = UNION {With(g, r) : r \in results}
  BY DEF Then
<1> HIDE DEF With
<1>3. {With(f, r) : r \in results} = {With(g, r) : r \in results}
  BY <1>1
<1> QED
  BY <1>2, <1>3

\* What a loop parses goes on, and where it ends it has found nothing.
Loops(V, n, parsed, ended) ==
    /\ DOMAIN parsed = 1 .. n
    /\ \A k \in 1 .. n : parsed[k] \subseteq Results(V, k + 1, n) /\ ended[k] \subseteq Results({<<>>}, k, n)

LEMMA OneMoreChild ==
    ASSUME NEW V, NEW n \in Nat, NEW parsed, NEW ended, Loops(V, n, parsed, ended), NEW k \in 1 .. n,
           NEW f, \A p \in k + 1 .. n : f[p] \subseteq Results(Seq(V), p, n)
    PROVE  ended[k] \cup Then(parsed[k], f) \subseteq Results(Seq(V), k, n)
<1>1. parsed[k] \subseteq Results(V, k + 1, n) /\ ended[k] \subseteq Results({<<>>}, k, n)
  BY DEF Loops
<1>2. Then(parsed[k], f) \subseteq Results(Seq(V), k + 1, n)
  <2>1. k + 1 \in Nat
    OBVIOUS
  <2> QED
    BY <1>1, <2>1, ThenInOrder
<1>3. k + 1 .. n \subseteq k .. n /\ <<>> \in Seq(V)
  OBVIOUS
<1>4. Results(Seq(V), k + 1, n) \subseteq Results(Seq(V), k, n)
  BY <1>3 DEF Results
<1>5. Results({<<>>}, k, n) \subseteq Results(Seq(V), k, n)
  BY <1>3 DEF Results
<1> QED
  BY <1>1, <1>2, <1>4, <1>5

FoundFrom(f, n, parsed, ended) == f = [k \in 1 .. n |-> ended[k] \cup Then(parsed[k], f)]

LEMMA ChildrenExist ==
    ASSUME NEW V, NEW n \in Nat, NEW parsed, NEW ended, Loops(V, n, parsed, ended)
    PROVE  \E f : FoundFrom(f, n, parsed, ended)
<1> DEFINE S == SUBSET Results(Seq(V), 1, n)
           From(f, m) == /\ DOMAIN f = 1 .. n
                         /\ \A k \in 1 .. n : k > n - m => f[k] = ended[k] \cup Then(parsed[k], f)
           T == {m \in Nat : m <= n => \E f : From(f, m)}
<1>1. 0 \in T
  <2>1. From([k \in 1 .. n |-> {}], 0)
    <3>1. \A k \in 1 .. n : ~(k > n - 0)
      OBVIOUS
    <3> QED
      BY <3>1
  <2> HIDE DEF From
  <2> QED
    BY <2>1
<1>2. ASSUME NEW m \in Nat, m \in T PROVE m + 1 \in T
  <2>0. m + 1 \in Nat
    OBVIOUS
  <2> HIDE DEF From
  <2> SUFFICES ASSUME m + 1 <= n PROVE \E f : From(f, m + 1)
    BY <2>0
  <2> USE DEF From
  <2>1. m <= n
    OBVIOUS
  <2>2. PICK f : From(f, m)
    BY <1>2, <2>1
  <2> DEFINE last == n - m
             new == ended[last] \cup Then(parsed[last], f)
             g == [k \in 1 .. n |-> IF k = last THEN new ELSE f[k]]
  <2>3. last \in 1 .. n
    BY <2>1
  <2> HIDE DEF new
  <2>4. DOMAIN g = 1 .. n /\ g[last] = new /\ \A k \in 1 .. n : k > last => g[k] = f[k]
    BY <2>3
  <2> HIDE DEF g
  <2>5. ASSUME NEW k \in 1 .. n, k >= last PROVE Then(parsed[k], g) = Then(parsed[k], f)
    <3>1. \A r \in parsed[k] : r.pos \in k + 1 .. n
      BY DEF Loops, Results
    <3>2. \A r \in parsed[k] : r.pos \in 1 .. n /\ r.pos > last
      BY <2>3, <2>5, <3>1
    <3> HIDE DEF last
    <3>3. \A r \in parsed[k] : g[r.pos] = f[r.pos]
      BY <2>4, <3>2
    <3> QED
      BY <3>3, ThenSame
  <2>6. ASSUME NEW k \in 1 .. n, k > n - (m + 1) PROVE g[k] = ended[k] \cup Then(parsed[k], g)
    <3>1. k >= last
      BY <2>6
    <3>2. CASE k = last
      BY <2>3, <2>4, <2>5, <3>2 DEF new
    <3>3. CASE k > last
      <4>1. f[k] = ended[k] \cup Then(parsed[k], f)
        BY <2>2, <3>3
      <4>2. Then(parsed[k], g) = Then(parsed[k], f) /\ g[k] = f[k]
        BY <2>4, <2>5, <3>1, <3>3
      <4> QED
        BY <4>1, <4>2
    <3> QED
      BY <3>1, <3>2, <3>3
  <2> QED
    BY <2>4, <2>6
<1>3. PICK f : From(f, n)
  <2> HIDE DEF T
  <2>1. n \in T
    BY <1>1, <1>2, AllNumbers
  <2> QED
    BY <2>1 DEF T
<1>4. \A k \in 1 .. n : f[k] = ended[k] \cup Then(parsed[k], f)
  <2>1. \A k \in 1 .. n : k > n - n
    OBVIOUS
  <2> QED
    BY <1>3, <2>1
<1>5. PICK g : g = [k \in 1 .. n |-> ended[k] \cup Then(parsed[k], f)]
  OBVIOUS
<1>6. DOMAIN g = 1 .. n /\ \A k \in 1 .. n : g[k] = f[k]
  BY <1>4, <1>5
<1>7. \A k \in 1 .. n : Then(parsed[k], g) = Then(parsed[k], f)
  <2>1. ASSUME NEW k \in 1 .. n PROVE Then(parsed[k], g) = Then(parsed[k], f)
    <3>1. \A r \in parsed[k] : r.pos \in k + 1 .. n
      BY DEF Loops, Results
    <3>2. \A r \in parsed[k] : r.pos \in 1 .. n
      BY <3>1
    <3>3. \A r \in parsed[k] : g[r.pos] = f[r.pos]
      BY <1>6, <3>2
    <3> QED
      BY <3>3, ThenSame
  <2> QED
    BY <2>1
<1>8. FoundFrom(g, n, parsed, ended)
  BY <1>5, <1>7 DEF FoundFrom
<1> QED
  BY <1>8

LEMMA ChildrenAre ==
    ASSUME NEW V, NEW n \in Nat, NEW parsed, NEW ended, Loops(V, n, parsed, ended)
    PROVE  \A k \in 1 .. n : Children(parsed, ended)[k] \subseteq Results(Seq(V), k, n)
<1> DEFINE g == CHOOSE f : f = [k \in 1 .. n |-> ended[k] \cup Then(parsed[k], f)]
<1>1. DOMAIN parsed = 1 .. n
  BY DEF Loops
<1>2. FoundFrom(g, n, parsed, ended)
  <2>1. \E f : FoundFrom(f, n, parsed, ended)
    BY ChildrenExist
  <2>2. PICK f : f = [k \in 1 .. n |-> ended[k] \cup Then(parsed[k], f)]
    BY <2>1 DEF FoundFrom
  <2>3. g = [k \in 1 .. n |-> ended[k] \cup Then(parsed[k], g)]
    BY <2>2, Zenon
  <2> QED
    BY <2>3 DEF FoundFrom
<1>3. Children(parsed, ended) = g
  BY <1>1 DEF Children
<1> HIDE DEF g
<1>4. \A k \in 1 .. n : g[k] = ended[k] \cup Then(parsed[k], g)
  <2>1. g = [k \in 1 .. n |-> ended[k] \cup Then(parsed[k], g)]
    BY <1>2 DEF FoundFrom
  <2> QED
    BY <2>1, Zenon
<1> DEFINE T == {m \in Nat : m <= n => \A k \in 1 .. n : k > n - m => g[k] \subseteq Results(Seq(V), k, n)}
<1>5. 0 \in T
  OBVIOUS
<1>6. ASSUME NEW m \in Nat, m \in T PROVE m + 1 \in T
  <2> SUFFICES ASSUME m + 1 <= n, NEW k \in 1 .. n, k > n - (m + 1) PROVE g[k] \subseteq Results(Seq(V), k, n)
    OBVIOUS
  <2>1. \A p \in k + 1 .. n : p \in 1 .. n /\ p > n - m
    OBVIOUS
  <2>2. \A p \in k + 1 .. n : g[p] \subseteq Results(Seq(V), p, n)
    BY <1>6, <2>1
  <2> QED
    BY <1>4, <2>2, OneMoreChild
<1>7. n \in T
  <2> HIDE DEF T
  <2> QED
    BY <1>5, <1>6, AllNumbers
<1>8. \A k \in 1 .. n : k > n - n
  OBVIOUS
<1>9. \A k \in 1 .. n : g[k] \subseteq Results(Seq(V), k, n)
  BY <1>7, <1>8
<1> QED
  BY <1>3, <1>9

-----------------------------------------------------------------------------
(* What each parse_... finds.                                              *)

LEMMA ParsesCmd ==
    ASSUME NEW text \in Seq(STRING), NEW i \in Positions(text)
    PROVE  parse_cmd(text, i) \subseteq Results(Words, i, Len(text) + 1)
<1> DEFINE n == Len(text) + 1
           next(k) == skip_whitespace(text, k)
           Ends(k) == cur(text, next(k)) \in Separators \cup {""}
           parsed == [k \in Positions(text) |-> IF Ends(k) THEN {} ELSE parse_word(text, next(k))]
           ended == [k \in Positions(text) |-> IF Ends(k) THEN Found(<<>>, next(k)) ELSE {}]
<1>1. n \in Nat /\ Positions(text) = 1 .. n /\ i \in Nat /\ i >= 1
  BY DEF Positions
<1>2. ASSUME NEW k \in 1 .. n PROVE next(k) \in Positions(text) /\ next(k) \in k .. n /\ cur(text, next(k)) # Space
  BY <1>1, SkipsTo
<1> HIDE DEF next, n
<1>3. DOMAIN parsed = 1 .. n
  BY <1>1
<1>4. ASSUME NEW k \in 1 .. n
      PROVE  parsed[k] \subseteq Results(Item, k + 1, n) /\ ended[k] \subseteq Results({<<>>}, k, n)
  <2>1. CASE Ends(k)
    <3>1. parsed[k] = {} /\ ended[k] = {[value |-> <<>>, pos |-> next(k)]}
      BY <1>1, <2>1 DEF Found
    <3>2. next(k) \in k .. n
      BY <1>2
    <3> HIDE DEF parsed, ended
    <3> QED
      BY <3>1, <3>2 DEF Results
  <2>2. CASE ~Ends(k)
    <3>1. parsed[k] = parse_word(text, next(k)) /\ ended[k] = {}
      BY <1>1, <2>2
    <3>2. cur(text, next(k)) \notin Separators \cup {"", Space}
      BY <1>2, <2>2
    <3> HIDE DEF parsed, ended, Ends
    <3>3. parse_word(text, next(k)) \subseteq Results(Item, next(k) + 1, n)
      BY <1>2, <3>2, ParsesWord DEF n
    <3>4. next(k) + 1 .. n \subseteq k + 1 .. n
      BY <1>1, <1>2
    <3>5. Results(Item, next(k) + 1, n) \subseteq Results(Item, k + 1, n)
      BY <3>4 DEF Results
    <3> QED
      BY <3>1, <3>3, <3>5
  <2> QED
    BY <2>1, <2>2
<1>5. Loops(Item, n, parsed, ended)
  BY <1>3, <1>4 DEF Loops
<1>6. parse_cmd(text, i) = Then(parse_word(text, i), Children(parsed, ended))
  BY Zenon DEF parse_cmd, next
<1> HIDE DEF parsed, ended
<1>7. \A k \in 1 .. n : Children(parsed, ended)[k] \subseteq Results(Seq(Item), k, n)
  BY <1>1, <1>5, ChildrenAre
<1>8. \A k \in i .. n : Children(parsed, ended)[k] \subseteq Results(Seq(Item), k, n)
  BY <1>1, <1>7
<1>9. parse_word(text, i) \subseteq Results(Item, i, n)
  BY ParsesWord DEF n
<1>10. Then(parse_word(text, i), Children(parsed, ended)) \subseteq Results(Seq(Item), i, n)
  BY <1>1, <1>8, <1>9, ThenInOrder
<1> QED
  BY <1>6, <1>10 DEF n, Words

LEMMA ParsesClause ==
    ASSUME NEW text \in Seq(STRING), NEW i \in Positions(text)
    PROVE  parse_clause(text, i) \subseteq Results(Clause, i + 1, Len(text) + 1)
<1> DEFINE n == Len(text) + 1 target == skip_whitespace(text, i + 1)
<1>1. n \in Nat /\ i \in Nat /\ i >= 1
  BY DEF Positions
<1>2. ASSUME ~AtEnd(text, i) PROVE target \in Positions(text) /\ target \in i + 1 .. n
  <2>1. i + 1 \in Positions(text)
    BY <1>2 DEF Positions, AtEnd
  <2> QED
    BY <2>1, SkipsTo
<1> HIDE DEF n, target
<1>3. CASE cur(text, i) = "|"
  <2>1. ~AtEnd(text, i)
    BY <1>3 DEF cur
  <2>2. parse_clause(text, i) = {[value |-> Stdout([type |-> "Command", words |-> r.value]), pos |-> r.pos] :
                                    r \in parse_cmd(text, target)}
    BY <1>3 DEF parse_clause, target
  <2>3. parse_cmd(text, target) \subseteq Results(Words, target, n)
    BY <1>2, <2>1, ParsesCmd DEF n
  <2>4. ASSUME NEW r \in parse_cmd(text, target)
        PROVE  [value |-> Stdout([type |-> "Command", words |-> r.value]), pos |-> r.pos] \in Results(Clause, i + 1, n)
    <3>1. r.value \in Words /\ r.pos \in target .. n
      BY <2>3 DEF Results
    <3>2. r.pos \in i + 1 .. n
      BY <1>1, <1>2, <2>1, <3>1
    <3>3. Stdout([type |-> "Command", words |-> r.value]) \in Clause
      BY <3>1 DEF Stdout, Clause, Element
    <3> QED
      BY <3>2, <3>3 DEF Results
  <2> QED
    BY <2>2, <2>4 DEF n
<1>4. CASE cur(text, i) = ">"
  <2>1. ~AtEnd(text, i)
    BY <1>4 DEF cur
  <2>2. parse_clause(text, i) = {[value |-> Stdout([type |-> "File", path |-> r.value]), pos |-> r.pos] :
                                    r \in parse_word(text, target)}
    BY <1>4 DEF parse_clause, target
  <2>3. parse_word(text, target) \subseteq Results(Item, target, n)
    BY <1>2, <2>1, ParsesWord DEF n
  <2>4. ASSUME NEW r \in parse_word(text, target)
        PROVE  [value |-> Stdout([type |-> "File", path |-> r.value]), pos |-> r.pos] \in Results(Clause, i + 1, n)
    <3>1. r.value \in Item /\ r.pos \in target .. n
      BY <2>3 DEF Results
    <3>2. r.pos \in i + 1 .. n
      BY <1>1, <1>2, <2>1, <3>1
    <3>3. Stdout([type |-> "File", path |-> r.value]) \in Clause
      BY <3>1 DEF Stdout, Clause, Element
    <3> QED
      BY <3>2, <3>3 DEF Results
  <2> QED
    BY <2>2, <2>4 DEF n
<1>5. CASE cur(text, i) \notin {"|", ">"}
  <2>1. parse_clause(text, i) = {}
    BY <1>5 DEF parse_clause
  <2> QED
    BY <2>1
<1> QED
  BY <1>3, <1>4, <1>5

LEMMA HeadAndTail ==
    ASSUME NEW V, NEW first, NEW more \in Seq(V)
    PROVE  /\ Head(<<first>> \o more) = first /\ Tail(<<first>> \o more) = more
           /\ Len(<<first>> \o more) = Len(more) + 1 /\ (<<first>> \o more)[1] = first
<1> DEFINE U == V \cup {first} s == <<first>> \o more
<1>1. more \in Seq(U) /\ <<first>> \in Seq(U)
  OBVIOUS
<1> HIDE DEF U
<1>2. /\ s \in Seq(U) /\ Len(s) = Len(more) + 1 /\ Len(more) \in Nat /\ s[1] = first
      /\ \A i \in 1 .. Len(more) : s[i + 1] = more[i]
  BY <1>1
<1> HIDE DEF s
<1>3. s # <<>>
  BY <1>2
<1>4. /\ Tail(s) \in Seq(U) /\ Len(Tail(s)) = Len(more) /\ \A i \in 1 .. Len(more) : Tail(s)[i] = more[i]
  BY <1>2, <1>3
<1>5. Tail(s) = more
  BY <1>1, <1>4
<1>6. Head(s) = first
  BY <1>2, <1>3
<1> QED
  BY <1>2, <1>5, <1>6 DEF s

LEMMA ParsesPipe ==
    ASSUME NEW text \in Seq(STRING), NEW i \in Positions(text)
    PROVE  parse_pipe(text, i) \subseteq Results(PipeLine, i, Len(text) + 1)
<1> DEFINE n == Len(text) + 1
           next(k) == skip_whitespace(text, k)
           parsed == [k \in Positions(text) |-> parse_clause(text, next(k))]
           ended == [k \in Positions(text) |->
                        IF cur(text, next(k)) \in {"", ";"} THEN Found(<<>>, next(k)) ELSE {}]
           all == Then(parse_cmd(text, i), Children(parsed, ended))
<1>1. n \in Nat /\ Positions(text) = 1 .. n /\ i \in Nat /\ i >= 1
  BY DEF Positions
<1>2. ASSUME NEW k \in 1 .. n PROVE next(k) \in Positions(text) /\ next(k) \in k .. n
  BY <1>1, SkipsTo
<1> HIDE DEF next, n
<1>3. DOMAIN parsed = 1 .. n
  BY <1>1
<1>4. ASSUME NEW k \in 1 .. n
      PROVE  parsed[k] \subseteq Results(Clause, k + 1, n) /\ ended[k] \subseteq Results({<<>>}, k, n)
  <2>1. parsed[k] = parse_clause(text, next(k)) /\ ended[k] \subseteq {[value |-> <<>>, pos |-> next(k)]}
    BY <1>1 DEF Found
  <2> HIDE DEF parsed, ended
  <2>2. parse_clause(text, next(k)) \subseteq Results(Clause, next(k) + 1, n)
    BY <1>2, ParsesClause DEF n
  <2>3. next(k) + 1 .. n \subseteq k + 1 .. n
    BY <1>1, <1>2
  <2>4. Results(Clause, next(k) + 1, n) \subseteq Results(Clause, k + 1, n)
    BY <2>3 DEF Results
  <2>5. ended[k] \subseteq Results({<<>>}, k, n)
    BY <1>2, <2>1 DEF Results
  <2> QED
    BY <2>1, <2>2, <2>4, <2>5
<1>5. Loops(Clause, n, parsed, ended)
  BY <1>3, <1>4 DEF Loops
<1>6. parse_pipe(text, i) = {[value |-> Redirected(Head(r.value), Tail(r.value)), pos |-> r.pos] : r \in all}
  BY Zenon DEF parse_pipe, next
<1> HIDE DEF parsed, ended
<1>7. \A k \in 1 .. n : Children(parsed, ended)[k] \subseteq Results(Seq(Clause), k, n)
  BY <1>1, <1>5, ChildrenAre
<1>8. \A k \in i .. n : Children(parsed, ended)[k] \subseteq Results(Seq(Clause), k, n)
  BY <1>1, <1>7
<1>9. parse_cmd(text, i) \subseteq Results(Words, i, n)
  BY ParsesCmd DEF n
<1>10. ASSUME NEW r \in all
       PROVE  [value |-> Redirected(Head(r.value), Tail(r.value)), pos |-> r.pos] \in Results(PipeLine, i, n)
  <2>1. PICK head \in Words, clauses \in Seq(Clause) : r.value = <<head>> \o clauses /\ r.pos \in i .. n
    BY <1>1, <1>8, <1>9, ThenIs
  <2>2. Head(r.value) = head /\ Tail(r.value) = clauses
    BY <2>1, HeadAndTail
  <2>3. Redirected(head, clauses) \in PipeLine
    BY <2>1 DEF Redirected, PipeLine
  <2> QED
    BY <2>1, <2>2, <2>3 DEF Results
<1> HIDE DEF all
<1> QED
  BY <1>6, <1>10 DEF n

LEMMA ParsesSeq ==
    ASSUME NEW text \in Seq(STRING), NEW i \in Positions(text), NEW r \in parse_seq(text, i)
    PROVE  IsLine(r.value)
<1> DEFINE n == Len(text) + 1
           next(k) == skip_whitespace(text, k)
           parsed == [k \in Positions(text) |->
                        IF cur(text, next(k)) = ";" THEN parse_pipe(text, skip_whitespace(text, next(k) + 1)) ELSE {}]
           ended == [k \in Positions(text) |-> IF AtEnd(text, next(k)) THEN Found(<<>>, next(k)) ELSE {}]
           all == Then(parse_pipe(text, i), Children(parsed, ended))
<1>1. n \in Nat /\ Positions(text) = 1 .. n /\ i \in Nat /\ i >= 1
  BY DEF Positions
<1>2. ASSUME NEW k \in 1 .. n PROVE next(k) \in Positions(text) /\ next(k) \in k .. n
  BY <1>1, SkipsTo
<1> HIDE DEF next, n
<1>3. DOMAIN parsed = 1 .. n
  BY <1>1
<1>4. ASSUME NEW k \in 1 .. n
      PROVE  parsed[k] \subseteq Results(PipeLine, k + 1, n) /\ ended[k] \subseteq Results({<<>>}, k, n)
  <2> DEFINE behind == skip_whitespace(text, next(k) + 1)
  <2>0. next(k) \in k .. n
    BY <1>2
  <2>1. parsed[k] = (IF cur(text, next(k)) = ";" THEN parse_pipe(text, behind) ELSE {})
    BY <1>1
  <2>2. ended[k] \subseteq Results({<<>>}, k, n)
    <3>1. ended[k] \subseteq {[value |-> <<>>, pos |-> next(k)]}
      BY <1>1 DEF Found
    <3> HIDE DEF ended
    <3> QED
      BY <2>0, <3>1 DEF Results
  <2> HIDE DEF parsed, ended
  <2>3. ASSUME cur(text, next(k)) = ";"
        PROVE  parse_pipe(text, behind) \subseteq Results(PipeLine, k + 1, n)
    <3>0. next(k) # n
      BY <2>3 DEF cur, AtEnd, n
    <3>1. next(k) \in Nat /\ next(k) >= k /\ next(k) <= n /\ next(k) # n
      BY <1>1, <2>0, <3>0
    <3>2. next(k) + 1 \in Positions(text)
      BY <1>1, <3>1
    <3>3. behind \in Positions(text) /\ behind \in next(k) + 1 .. n
      BY <3>2, SkipsTo DEF n
    <3> HIDE DEF behind
    <3>4. parse_pipe(text, behind) \subseteq Results(PipeLine, behind, n)
      BY <3>3, ParsesPipe DEF n
    <3>5. behind .. n \subseteq k + 1 .. n
      BY <1>1, <3>1, <3>3
    <3>6. Results(PipeLine, behind, n) \subseteq Results(PipeLine, k + 1, n)
      BY <3>5 DEF Results
    <3> QED
      BY <3>4, <3>6
  <2> QED
    BY <2>1, <2>2, <2>3
<1>5. Loops(PipeLine, n, parsed, ended)
  BY <1>3, <1>4 DEF Loops
<1>6. parse_seq(text, i) = {[value |-> InSequence(s.value), pos |-> s.pos] : s \in all}
  BY Zenon DEF parse_seq, next
<1> HIDE DEF parsed, ended
<1>7. \A k \in 1 .. n : Children(parsed, ended)[k] \subseteq Results(Seq(PipeLine), k, n)
  BY <1>1, <1>5, ChildrenAre
<1>8. \A k \in i .. n : Children(parsed, ended)[k] \subseteq Results(Seq(PipeLine), k, n)
  BY <1>1, <1>7
<1>9. parse_pipe(text, i) \subseteq Results(PipeLine, i, n)
  BY ParsesPipe DEF n
<1>10. \A s \in all : \E first \in PipeLine, more \in Seq(PipeLine) : s.value = <<first>> \o more
  <2>1. ASSUME NEW s \in all PROVE \E first \in PipeLine, more \in Seq(PipeLine) : s.value = <<first>> \o more /\ s.pos \in i .. n
    BY <1>1, <1>8, <1>9, ThenIs
  <2> HIDE DEF all
  <2> QED
    BY <2>1
<1> HIDE DEF all
<1>0. PICK s \in all : r.value = InSequence(s.value)
  BY <1>6
<1>11. PICK first \in PipeLine, more \in Seq(PipeLine) : s.value = <<first>> \o more
  BY <1>10
<1>12. Len(s.value) = 1 => s.value[1] = first
  BY <1>11, HeadAndTail
<1> QED
  BY <1>0, <1>12 DEF InSequence, IsLine, PipeLine

\* A line that is parsed can be planned.
LEMMA ParsesLine ==
    ASSUME NEW text \in Seq(STRING), NEW l \in parse_line(text)
    PROVE  IsLine(l)
<1> DEFINE first == skip_whitespace(text, 1)
<1>1. 1 \in Positions(text)
  BY DEF Positions
<1>2. first \in Positions(text)
  BY <1>1, SkipsTo
<1>3. parse_line(text) = IF AtEnd(text, first) THEN {Empty}
                         ELSE {r.value : r \in {s \in parse_seq(text, first) : AtEnd(text, s.pos)}}
  BY DEF parse_line
<1> HIDE DEF first
<1>4. l = Empty \/ \E r \in parse_seq(text, first) : l = r.value
  BY <1>3
<1> QED
  BY <1>2, <1>4, ParsesSeq DEF IsLine

-----------------------------------------------------------------------------
(* The readers.                                                            *)

\* The inductive invariant: the plan is the one of the line, and the line one of the grammar.
Planned ==
    /\ prefs \in DOMAIN Texts
    /\ \/ IsLine(line) /\ plan = PlanOf(prefs, line)
       \/ line = Empty /\ plan \in {EmptyPlan, ExitPlan}
       \/ line = Unparsed /\ plan.outcome = "panic"

LEMMA PlannedInit == Init => Planned
  BY DEF Init, Planned

LEMMA PlannedNext == Planned /\ [Next]_readerVars => Planned'
<1> SUFFICES ASSUME Planned, [Next]_readerVars PROVE Planned'
  OBVIOUS
<1>1. CASE ReadLine
  <2>1. prefs' = prefs /\ prefs \in DOMAIN Texts /\ typed' \in Texts[prefs]
    BY <1>1 DEF ReadLine, Planned
  <2>2. typed' \in Seq(STRING)
    BY <2>1, ReaderAssumption
  <2>3. CASE line' \in parse_line(typed') /\ plan' = PlanOf(prefs, line')
    <3>1. IsLine(line')
      BY <2>2, <2>3, ParsesLine
    <3> QED
      BY <2>1, <2>3, <3>1 DEF Planned
  <2>4. CASE line' = Unparsed /\ plan' = [EmptyPlan EXCEPT !.outcome = "panic"]
    <3>1. plan'.outcome = "panic"
      BY <2>4 DEF EmptyPlan, Build
    <3> QED
      BY <2>1, <2>4, <3>1 DEF Planned
  <2> QED
    BY <1>1, <2>3, <2>4 DEF ReadLine
<1>2. CASE Interrupted
  BY <1>2 DEF Interrupted, Planned
<1>3. CASE EndOfInput
  BY <1>3 DEF EndOfInput, Planned
<1>4. CASE UNCHANGED readerVars
  BY <1>4 DEF readerVars, Planned
<1> QED
  BY <1>1, <1>2, <1>3, <1>4 DEF Next

LEMMA PlannedAlways == Spec => []Planned
  BY PlannedInit, PlannedNext, PTL DEF Spec

LEMMA ElementsAreOf ==
    /\ Elements = ElementsOf(line) /\ Commands = Cmds(ElementsOf(line)) /\ Files = Fls(ElementsOf(line))
    /\ line = Empty => ElementsOf(line) = <<>>
<1>1. Elements = ElementsOf(line)
  BY Zenon DEF Elements, ElementsOf
<1>2. Commands = Cmds(ElementsOf(line)) /\ Files = Fls(ElementsOf(line))
  BY <1>1 DEF Commands, Files, Cmds, Fls
<1>3. line = Empty => ElementsOf(line) = <<>>
  BY DEF ElementsOf, Empty
<1> QED
  BY <1>1, <1>2, <1>3

LEMMA PlannedRunnable == Planned => PlansAreRunnable
<1> SUFFICES ASSUME Planned PROVE PlansAreRunnable
  OBVIOUS
<1>1. CASE IsLine(line) /\ plan = PlanOf(prefs, line)
  <2>1. IF plan.outcome = "ok" THEN Runnable(plan) ELSE line.type = "Sequence" \/ Hopeless(prefs, ElementsOf(line))
    BY <1>1, PlanOfLine
  <2>2. Hopeless(prefs, ElementsOf(line)) => \E i \in Commands : Rejects(Elements[i].words)
    BY ElementsAreOf DEF Hopeless, Rejects, Failing
  <2> QED
    BY <2>1, <2>2 DEF PlansAreRunnable
<1>2. CASE plan \in {EmptyPlan, ExitPlan}
  BY <1>2, PlanOfNothing DEF PlansAreRunnable
<1>3. CASE line = Unparsed /\ plan.outcome = "panic"
  BY <1>3 DEF PlansAreRunnable, Unparsed
<1> QED
  BY <1>1, <1>2, <1>3 DEF Planned

LEMMA PlannedFlows == Planned => FlowsAlongTheLine
<1> SUFFICES ASSUME Planned, plan.outcome = "ok" PROVE FlowsAlongTheLine
  BY DEF FlowsAlongTheLine
<1> DEFINE e == ElementsOf(line)
<1>1. FlowsIn(plan, e)
  <2>1. CASE IsLine(line) /\ plan = PlanOf(prefs, line)
    BY <2>1, PlanOfLine
  <2>2. CASE line = Empty /\ plan \in {EmptyPlan, ExitPlan}
    BY <2>2, PlanOfNothing, ElementsAreOf
  <2> QED
    BY <2>1, <2>2 DEF Planned
<1>2. Elements = e /\ Commands = Cmds(e) /\ Files = Fls(e)
  BY ElementsAreOf
<1> HIDE DEF e
<1>3. \A i : RunOf(i) = RunIn(plan, e, i)
  BY <1>2 DEF RunOf, RunIn
<1>4. \A i : FilePipe(i) = FilePipeIn(plan, e, i)
  BY <1>2 DEF FilePipe, FilePipeIn
<1> QED
  BY <1>1, <1>2, <1>3, <1>4 DEF FlowsIn, FlowsAlongTheLine

\* Whatever is typed and whatever the aliases are: one_loop can run the plan that get_command
\* returns, finds in its table of pipes each end that a step asks for, and takes no end twice;
\* and there is no plan only for a text that is malformed, a sequence, or a command that
\* convert_single rejects.
THEOREM PlansCanBeRun == Spec => []PlansAreRunnable
  BY PlannedAlways, PlannedRunnable, PTL

\* Each command of a line, of any length and with any aliases, has its step, and its output
\* goes to what follows it: the file, the input of the next command, or the terminal.
THEOREM OutputFlows == Spec => []FlowsAlongTheLine
  BY PlannedAlways, PlannedFlows, PTL
=============================================================================
