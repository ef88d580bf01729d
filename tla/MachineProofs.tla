---------------------------- MODULE MachineProofs ----------------------------
(***************************************************************************)
(* Proofs about Machine, for every set of pids and every set of            *)
(* conditions: its invariants, and that it implements JobGraph.            *)
(***************************************************************************)
EXTENDS Machine, TLAPS

-----------------------------------------------------------------------------
(* Facts about maps. *)

\* A map with one entry more is a map, and holds the new value at the new key.
LEMMA PutIsMap ==
    ASSUME NEW map, NEW key, NEW value
    PROVE  /\ IsFunction(Put(map, key, value))
           /\ \A k : k \in DOMAIN Put(map, key, value) <=> k \in DOMAIN map \/ k = key
           /\ Put(map, key, value)[key] = value
           /\ \A k \in DOMAIN map : k # key => Put(map, key, value)[k] = map[k]
  BY DEF Put, IsFunction

\* A map with a key removed keeps the values of the others.
LEMMA RemoveIsMap ==
    ASSUME NEW map, NEW key
    PROVE  /\ IsFunction(Remove(map, key))
           /\ \A k : k \in DOMAIN Remove(map, key) <=> k \in DOMAIN map /\ k # key
           /\ \A k \in DOMAIN map : k # key => Remove(map, key)[k] = map[k]
  BY DEF Remove, Restrict, IsFunction

\* What is left of a block_for is a part of it.
LEMMA StillNeededIsMap ==
    ASSUME NEW block_for
    PROVE  /\ IsFunction(StillNeeded(block_for))
           /\ \A q : q \in DOMAIN StillNeeded(block_for)
                         <=> q \in DOMAIN block_for /\ q \notin DOMAIN finished
           /\ \A q \in DOMAIN block_for :
                 q \notin DOMAIN finished => StillNeeded(block_for)[q] = block_for[q]
  BY DEF StillNeeded, Restrict, IsFunction

\* These keep a map within its types.
LEMMA PutKeepsTypes ==
    ASSUME NEW K, NEW V, NEW map, IsMap(map, K, V), NEW key \in K, NEW value \in V
    PROVE  IsMap(Put(map, key, value), K, V)
  BY DEF IsMap, Put

LEMMA RemoveKeepsTypes ==
    ASSUME NEW K, NEW V, NEW map, IsMap(map, K, V), NEW key
    PROVE  IsMap(Remove(map, key), K, V)
  BY DEF IsMap, Remove, Restrict

LEMMA AppendKeepsTypes ==
    ASSUME NEW S, NEW seq \in Seq(S), NEW elem \in S
    PROVE  Append(seq, elem) \in Seq(S)
  OBVIOUS

LEMMA ElementsKeepTypes ==
    ASSUME NEW S, NEW seq \in Seq(S), NEW i \in DOMAIN seq
    PROVE  seq[i] \in S
  OBVIOUS

\* An entry that is a block_for may be added to a map of them.
LEMMA PutInMapOfMaps ==
    ASSUME NEW map, IsMapOfMaps(map), NEW key \in Pid, NEW value, IsBlockFor(value)
    PROVE  IsMapOfMaps(Put(map, key, value))
  BY PutIsMap DEF IsMapOfMaps

\* The argument of enqueue is a map from pids to conditions, and, of a careful caller, from
\* pids that were used before.
LEMMA BlockForIsMap ==
    ASSUME TypeOK, NEW block_for \in BlockFor
    PROVE  /\ IsMap(block_for, Pid, Conditions)
           /\ ~AnyPid => DOMAIN block_for \subseteq DOMAIN asked
<1>1. PICK D \in SUBSET (IF AnyPid THEN Pid ELSE DOMAIN asked) : block_for \in [D -> Conditions]
  BY DEF BlockFor
<1>2. DOMAIN asked \subseteq Pid
  BY DEF TypeOK, IsMapOfMaps
<1>3. D \subseteq Pid /\ (~AnyPid => D \subseteq DOMAIN asked)
  BY <1>1, <1>2
<1> QED
  BY <1>1, <1>3 DEF IsMap

-----------------------------------------------------------------------------
LEMMA TypeInit == MachineInit => TypeOK
<1> SUFFICES ASSUME MachineInit PROVE TypeOK
  OBVIOUS
<1>1. IsFunction(EmptyMap) /\ DOMAIN EmptyMap = {} /\ \A K, V : IsMap(EmptyMap, K, V)
  BY DEF EmptyMap, IsFunction, IsMap
<1>2. check_on_completed \in [Pid -> Seq(Entry)]
  BY DEF MachineInit
<1> QED
  BY <1>1, <1>2 DEF MachineInit, TypeOK, IsMapOfMaps, Panics

LEMMA TypeStep == TypeOK /\ [MachineNext]_machineVars => TypeOK'
<1> SUFFICES ASSUME TypeOK, [MachineNext]_machineVars PROVE TypeOK'
  OBVIOUS
<1> USE DEF TypeOK
<1>1. ASSUME NEW p \in Pid, NEW block_for \in BlockFor, Enqueue(p, block_for)
      PROVE  TypeOK'
  <2>1. IsBlockFor(block_for)
    BY BlockForIsMap DEF IsBlockFor, IsMap, IsMapOfMaps
  <2>2. IsMapOfMaps(Put(asked, p, block_for))
    BY <2>1, PutInMapOfMaps
  <2>3. CASE EnqueueRefused(p, block_for)
    BY <2>2, <2>3 DEF EnqueueRefused
  <2>4. CASE EnqueueUnknown(p, block_for)
    BY <2>4 DEF EnqueueUnknown, Panics
  <2>5. CASE EnqueueReady(p, block_for)
    BY <2>2, <2>5 DEF EnqueueReady
  <2>6. CASE EnqueueBlocked(p, block_for)
    <3> DEFINE entry(q) == [cond |-> block_for[q], pid |-> p]
    <3>1. IsBlockFor(StillNeeded(block_for))
      BY <2>1 DEF StillNeeded, Restrict, IsBlockFor, IsMap
    <3>2. DOMAIN StillNeeded(block_for) \subseteq DOMAIN block_for
      BY StillNeededIsMap
    <3>3. \A q \in DOMAIN StillNeeded(block_for) : entry(q) \in Entry
      BY <2>1, <3>2 DEF IsBlockFor, IsMap, Entry
    <3>4. \A q \in Pid : q \in DOMAIN StillNeeded(block_for) =>
              Append(check_on_completed[q], entry(q)) \in Seq(Entry)
      BY <3>3, AppendKeepsTypes
    <3>5. check_on_completed' \in [Pid -> Seq(Entry)]
      BY <2>6, <3>4 DEF EnqueueBlocked
    <3>6. IsMapOfMaps(Put(waiting_on, p, StillNeeded(block_for)))
      BY <3>1, PutInMapOfMaps
    <3>7. DOMAIN StillNeeded(block_for) # {}
      BY <2>6 DEF EnqueueBlocked
    <3>8. \A w \in DOMAIN Put(waiting_on, p, StillNeeded(block_for)) :
             DOMAIN Put(waiting_on, p, StillNeeded(block_for))[w] # {}
      BY <3>7, PutIsMap
    <3> QED
      BY <2>2, <2>6, <3>5, <3>6, <3>8 DEF EnqueueBlocked
  <2> QED
    BY <1>1, <2>3, <2>4, <2>5, <2>6 DEF Enqueue
<1>2. ASSUME NEW p \in Pid, NEW state \in State, Start(p, state)
      PROVE  TypeOK'
  BY <1>2, PutKeepsTypes DEF Start
<1>3. ASSUME NEW p \in Pid, NEW status \in ExitStatus, ResolvePanics(p, status),
             UNCHANGED <<refused, asked>>
      PROVE  TypeOK'
  BY <1>3 DEF ResolvePanics, Panics
<1>4. ASSUME NEW p \in Pid, NEW status \in ExitStatus,
             NEW ready \in SUBSET Pid, NEW started \in SUBSET Pid,
             Resolve(p, status, ready, started),
             IsMap(running', Pid, State), UNCHANGED <<refused, asked>>
      PROVE  TypeOK'
  <2>1. Released(p) \subseteq Pid
    <3>1. \A i \in DOMAIN check_on_completed[p] : check_on_completed[p][i].pid \in Pid
      <4>1. check_on_completed[p] \in Seq(Entry)
        OBVIOUS
      <4>2. \A i \in DOMAIN check_on_completed[p] : check_on_completed[p][i] \in Entry
        BY <4>1, ElementsKeepTypes
      <4> QED
        BY <4>2 DEF Entry
    <3> QED
      BY <3>1 DEF Released, Waiters
  <2>2. /\ IsFunction(waiting_on')
        /\ DOMAIN waiting_on' = DOMAIN waiting_on \ Released(p)
    BY <1>4 DEF Resolve, IsFunction
  <2>3. ASSUME NEW w \in DOMAIN waiting_on'
        PROVE  IsBlockFor(waiting_on'[w]) /\ DOMAIN waiting_on'[w] # {}
    <3>1. IsBlockFor(waiting_on[w]) /\ DOMAIN waiting_on[w] # {}
      BY <2>2 DEF IsMapOfMaps
    <3>2. CASE w \in Waiters(p)
      <4>1. waiting_on'[w] = Remove(waiting_on[w], p) /\ DOMAIN waiting_on[w] # {p}
        BY <1>4, <2>2, <3>2 DEF Resolve, Released
      <4>2. DOMAIN Remove(waiting_on[w], p) # {}
        <5>1. PICK q \in DOMAIN waiting_on[w] : q # p
          BY <3>1, <4>1
        <5> QED
          BY <5>1, RemoveIsMap
      <4> QED
        BY <3>1, <4>1, <4>2, RemoveKeepsTypes DEF IsBlockFor
    <3>3. CASE w \notin Waiters(p)
      <4>1. waiting_on'[w] = waiting_on[w]
        BY <1>4, <2>2, <3>3 DEF Resolve
      <4> QED
        BY <3>1, <4>1
    <3> QED
      BY <3>2, <3>3
  <2>4. IsMapOfMaps(waiting_on')
    BY <2>2, <2>3 DEF IsMapOfMaps
  <2>5. IsMap(finished', Pid, ExitStatus)
    BY <1>4, PutKeepsTypes DEF Resolve
  <2>6. check_on_completed' \in [Pid -> Seq(Entry)]
    <3>1. <<>> \in Seq(Entry)
      OBVIOUS
    <3> QED
      BY <1>4, <3>1 DEF Resolve
  <2>7. to_run' \subseteq Pid /\ tasks' \subseteq Pid /\ panicked' = panicked
    BY <1>4, <2>1 DEF Resolve
  <2> QED
    BY <1>4, <2>3, <2>4, <2>5, <2>6, <2>7
<1>5. ASSUME NEW p \in Pid, NEW status \in ExitStatus, StartCompleted(p, status)
      PROVE  TypeOK'
  <2>1. to_run \ {p} \in SUBSET Pid /\ tasks \ {p} \in SUBSET Pid
    OBVIOUS
  <2> QED
    BY <1>3, <1>4, <1>5, <2>1 DEF StartCompleted
<1>6. ASSUME NEW p \in Pid, NEW status \in ExitStatus, Completed(p, status)
      PROVE  TypeOK'
  <2>1. to_run \in SUBSET Pid /\ tasks \in SUBSET Pid
    OBVIOUS
  <2>2. IsMap(Remove(running, p), Pid, State)
    BY RemoveKeepsTypes
  <2> QED
    BY <1>3, <1>4, <1>6, <2>1, <2>2 DEF Completed
<1>7. CASE UNCHANGED machineVars
  BY <1>7 DEF machineVars
<1> QED
  BY <1>1, <1>2, <1>5, <1>6, <1>7 DEF MachineNext

(* The fields are typed, whatever the caller does. *)
THEOREM TypeCorrect == MachineSpec => []TypeOK
  BY TypeInit, TypeStep, PTL DEF MachineSpec

-----------------------------------------------------------------------------
(***************************************************************************)
(* The inductive invariant.  None of the safety properties is inductive on *)
(* its own: that a process is started only when everything it asked for    *)
(* has finished (NoneStartsEarly) needs that what it still waits for is    *)
(* exactly the rest (WaitsForTheRest), which needs the two indexes to      *)
(* agree, since resolve_tasks finds the waiting processes through one and  *)
(* strikes conditions from the other, and that needs a pid to be in one    *)
(* collection only.                                                        *)
(***************************************************************************)
IInv ==
    /\ TypeOK
    /\ OneState
    /\ TasksAreToRun
    /\ IndexesAgree
    /\ WaitsForTheRest
    /\ NoneStartsEarly
    /\ WaitsForTheLiving
    /\ NoCircularWait

LEMMA InvInit == MachineInit => IInv
<1> SUFFICES ASSUME MachineInit PROVE IInv
  OBVIOUS
<1>1. DOMAIN EmptyMap = {}
  BY DEF EmptyMap
<1>2. TypeOK
  BY TypeInit
<1>3. OneState /\ TasksAreToRun /\ WaitsForTheRest /\ WaitsForTheLiving
  BY <1>1 DEF MachineInit, OneState, TasksAreToRun, WaitsForTheRest, WaitsForTheLiving
<1>4. NoneStartsEarly /\ NoCircularWait
  BY <1>1 DEF MachineInit, NoneStartsEarly, NoCircularWait
<1>5. IndexesAgree
  <2>1. \A q \in Pid : DOMAIN check_on_completed[q] = {}
    BY DEF MachineInit
  <2> QED
    BY <1>1, <2>1 DEF MachineInit, IndexesAgree
<1> QED
  BY <1>2, <1>3, <1>4, <1>5 DEF IInv

\* The processes that wait for p, seen from either index.
LEMMA WaitersAgree ==
    ASSUME IndexesAgree, NEW p \in Pid
    PROVE  \A w : w \in Waiters(p) <=> w \in DOMAIN waiting_on /\ p \in DOMAIN waiting_on[w]
  BY DEF IndexesAgree, Waiters

\* No condition of a block_for is missed if all that finished did so as asked.
LEMMA NothingMissed ==
    ASSUME NEW block_for
    PROVE  Missed(block_for) = {} <=>
              \A q \in DOMAIN block_for :
                  q \in DOMAIN finished => Meets(block_for[q], finished[q])
  BY DEF Missed

-----------------------------------------------------------------------------
(* Steps that touch no index. *)

\* A refused process is remembered, and nothing else.
LEMMA RefusedStep ==
    ASSUME IInv, TypeOK', NEW p \in Pid, NEW block_for \in BlockFor,
           p \notin DOMAIN asked, EnqueueRefused(p, block_for)
    PROVE  IInv'
<1> USE DEF EnqueueRefused
<1>1. /\ \A q \in DOMAIN asked : q \in DOMAIN asked' /\ asked'[q] = asked[q]
      /\ \A q : q \in DOMAIN asked' <=> q \in DOMAIN asked \/ q = p
  BY PutIsMap
<1>2. OneState' /\ TasksAreToRun'
  BY <1>1 DEF IInv, OneState, TasksAreToRun
<1>3. IndexesAgree' /\ WaitsForTheLiving' /\ NoCircularWait'
  BY DEF IInv, IndexesAgree, WaitsForTheLiving, NoCircularWait, Known, Waiters
<1>4. WaitsForTheRest'
  BY <1>1 DEF IInv, OneState, WaitsForTheRest, Missed, StillNeeded
<1>5. NoneStartsEarly'
  BY <1>1 DEF IInv, OneState, NoneStartsEarly, Missed
<1> QED
  BY <1>2, <1>3, <1>4, <1>5 DEF IInv

\* A process that may run is asked to be started; it met its conditions in enqueue.
LEMMA ReadyStep ==
    ASSUME IInv, TypeOK', NEW p \in Pid, NEW block_for \in BlockFor,
           p \notin DOMAIN asked, EnqueueReady(p, block_for)
    PROVE  IInv'
<1> USE DEF EnqueueReady
<1>1. /\ \A q \in DOMAIN asked : q \in DOMAIN asked' /\ asked'[q] = asked[q]
      /\ asked'[p] = block_for
      /\ \A q : q \in DOMAIN asked' <=> q \in DOMAIN asked \/ q = p
  BY PutIsMap
<1>2. OneState' /\ TasksAreToRun'
  <2>1. OneState /\ tasks = to_run
    BY DEF IInv, TasksAreToRun
  <2>2. DOMAIN asked' = DOMAIN asked \cup {p}
    BY <1>1
  <2> QED
    BY <2>1, <2>2 DEF OneState, TasksAreToRun
<1>3. IndexesAgree' /\ WaitsForTheLiving' /\ NoCircularWait'
  BY DEF IInv, IndexesAgree, WaitsForTheLiving, NoCircularWait, Known, Waiters
<1>4. WaitsForTheRest'
  BY <1>1 DEF IInv, OneState, WaitsForTheRest, Missed, StillNeeded
<1>5. NoneStartsEarly'
  <2>1. DOMAIN block_for \subseteq DOMAIN finished
    BY StillNeededIsMap
  <2>2. DOMAIN asked'[p] \subseteq DOMAIN finished' /\ Missed(asked[p])' = {}
    BY <1>1, <2>1 DEF Missed
  <2>3. ASSUME NEW q \in to_run \cup DOMAIN running \cup DOMAIN finished
        PROVE  DOMAIN asked'[q] \subseteq DOMAIN finished' /\ Missed(asked[q])' = {}
    BY <1>1 DEF IInv, OneState, NoneStartsEarly, Missed
  <2> QED
    BY <2>2, <2>3 DEF NoneStartsEarly
<1> QED
  BY <1>2, <1>3, <1>4, <1>5 DEF IInv

\* A started process moves from to_run to running, and its task is spent.
LEMMA StartStep ==
    ASSUME IInv, TypeOK', NEW p \in Pid, NEW state \in State, Start(p, state)
    PROVE  IInv'
<1> USE DEF Start
<1>1. p \in to_run /\ \A q : q \in DOMAIN running' <=> q \in DOMAIN running \/ q = p
  BY PutIsMap DEF IInv, TasksAreToRun
<1>2. OneState' /\ TasksAreToRun'
  BY <1>1 DEF IInv, OneState, TasksAreToRun
<1>3. IndexesAgree' /\ NoCircularWait'
  BY DEF IInv, IndexesAgree, NoCircularWait, Waiters
<1>6. WaitsForTheRest'
  BY DEF IInv, WaitsForTheRest, Missed, StillNeeded
<1>4. WaitsForTheLiving'
  BY <1>1 DEF IInv, WaitsForTheLiving, Known
<1>5. NoneStartsEarly'
  BY <1>1 DEF IInv, NoneStartsEarly, Missed
<1> QED
  BY <1>2, <1>3, <1>4, <1>5, <1>6 DEF IInv

\* A panic, like a stuttering step, leaves the collections as they are.
LEMMA SameCollections ==
    ASSUME IInv, TypeOK',
           UNCHANGED <<finished, to_run, running, check_on_completed, waiting_on, tasks,
                       refused, asked>>
    PROVE  IInv'
<1>1. OneState' /\ TasksAreToRun' /\ IndexesAgree' /\ WaitsForTheLiving' /\ NoCircularWait'
  BY DEF IInv, OneState, TasksAreToRun, IndexesAgree, WaitsForTheLiving, NoCircularWait,
         Known, Waiters
<1>2. WaitsForTheRest'
  BY DEF IInv, WaitsForTheRest, Missed, StillNeeded
<1>3. NoneStartsEarly'
  BY DEF IInv, NoneStartsEarly, Missed
<1> QED
  BY <1>1, <1>2, <1>3 DEF IInv

-----------------------------------------------------------------------------
(* The step that adds to both indexes. *)

\* Append adds one element, after the others.
LEMMA AppendElements ==
    ASSUME NEW S, NEW seq \in Seq(S), NEW elem
    PROVE  /\ \A i : i \in DOMAIN Append(seq, elem) <=> i \in DOMAIN seq \/ i = Len(seq) + 1
           /\ \A i \in DOMAIN seq : Append(seq, elem)[i] = seq[i]
           /\ Append(seq, elem)[Len(seq) + 1] = elem
           /\ Len(seq) + 1 \notin DOMAIN seq
  OBVIOUS

\* A process that must wait is filed under each process it waits for.
LEMMA BlockedStep ==
    ASSUME IInv, TypeOK', NEW p \in Pid, NEW block_for \in BlockFor,
           p \notin DOMAIN asked, EnqueueBlocked(p, block_for)
    PROVE  IInv'
<1> DEFINE rest == StillNeeded(block_for)
           entry(q) == [cond |-> block_for[q], pid |-> p]
           last(q) == Len(check_on_completed[q]) + 1
<1>1. /\ \A q \in DOMAIN asked : q # p /\ q \in DOMAIN asked' /\ asked'[q] = asked[q]
      /\ asked'[p] = block_for
      /\ \A q : q \in DOMAIN asked' <=> q \in DOMAIN asked \/ q = p
  BY PutIsMap DEF EnqueueBlocked
<1>2. /\ \A w \in DOMAIN waiting_on :
             w # p /\ w \in DOMAIN asked /\ w \in DOMAIN waiting_on' /\ waiting_on'[w] = waiting_on[w]
      /\ waiting_on'[p] = rest
      /\ \A w : w \in DOMAIN waiting_on' <=> w \in DOMAIN waiting_on \/ w = p
  BY PutIsMap DEF EnqueueBlocked, IInv, OneState
<1>3. \A q \in DOMAIN rest :
         q \in DOMAIN block_for /\ q \notin DOMAIN finished /\ rest[q] = block_for[q]
  BY StillNeededIsMap
<1>4. \A q \in DOMAIN block_for : q \in DOMAIN asked /\ q \in Pid /\ q # p
  <2>1. \A q \in DOMAIN block_for : q \in DOMAIN finished \/ Known(q)
    BY DEF EnqueueBlocked, Unknown
  <2>2. \A q : q \in DOMAIN finished \/ Known(q) => q \in DOMAIN asked
    BY DEF IInv, OneState, Known
  <2>3. \A q \in DOMAIN block_for : q \in Pid
    BY BlockForIsMap DEF IsMap, IInv
  <2> QED
    BY <2>1, <2>2, <2>3
<1>5. /\ UNCHANGED <<finished, to_run, running, tasks, refused>>
      /\ Missed(block_for) = {} /\ Unknown(block_for) = {}
  BY DEF EnqueueBlocked
<1>6. ASSUME NEW q \in Pid
      PROVE  /\ \A i \in DOMAIN check_on_completed[q] :
                   /\ i \in DOMAIN check_on_completed'[q] /\ i # last(q)
                   /\ check_on_completed'[q][i] = check_on_completed[q][i]
             /\ q \in DOMAIN rest => /\ last(q) \in DOMAIN check_on_completed'[q]
                                     /\ check_on_completed'[q][last(q)] = entry(q)
             /\ \A i \in DOMAIN check_on_completed'[q] :
                   i \in DOMAIN check_on_completed[q] \/ (q \in DOMAIN rest /\ i = last(q))
  <2>1. check_on_completed[q] \in Seq(Entry)
    BY DEF IInv, TypeOK
  <2>2. check_on_completed'[q] = IF q \in DOMAIN rest THEN Append(check_on_completed[q], entry(q))
                                                      ELSE check_on_completed[q]
    BY DEF EnqueueBlocked
  <2>3. last(q) \notin DOMAIN check_on_completed[q]
    BY <2>1, AppendElements
  <2> HIDE DEF rest
  <2>4. CASE q \in DOMAIN rest
    BY <2>1, <2>2, <2>3, <2>4, AppendElements
  <2>5. CASE q \notin DOMAIN rest
    BY <2>2, <2>3, <2>5
  <2> QED
    BY <2>4, <2>5
<1> HIDE DEF rest
<1>7. OneState' /\ TasksAreToRun'
  <2>1. OneState /\ tasks = to_run
    BY DEF IInv, TasksAreToRun
  <2>2. DOMAIN asked' = DOMAIN asked \cup {p} /\ DOMAIN waiting_on' = DOMAIN waiting_on \cup {p}
    BY <1>1, <1>2
  <2> QED
    BY <1>5, <2>1, <2>2 DEF OneState, TasksAreToRun
<1>8. IndexesAgree'
  <2>1. ASSUME NEW q \in Pid, NEW i \in DOMAIN check_on_completed'[q]
        PROVE  /\ check_on_completed'[q][i].pid \in DOMAIN waiting_on'
               /\ q \in DOMAIN waiting_on'[check_on_completed'[q][i].pid]
               /\ waiting_on'[check_on_completed'[q][i].pid][q] = check_on_completed'[q][i].cond
    <3>1. CASE i \in DOMAIN check_on_completed[q]
      <4>1. check_on_completed'[q][i] = check_on_completed[q][i]
        BY <1>6, <3>1
      <4>2. /\ check_on_completed[q][i].pid \in DOMAIN waiting_on
            /\ q \in DOMAIN waiting_on[check_on_completed[q][i].pid]
            /\ waiting_on[check_on_completed[q][i].pid][q] = check_on_completed[q][i].cond
        BY <3>1 DEF IInv, IndexesAgree
      <4> QED
        BY <1>2, <4>1, <4>2
    <3>2. CASE q \in DOMAIN rest /\ i = last(q)
      <4>1. check_on_completed'[q][i] = entry(q)
        BY <1>6, <3>2
      <4>2. check_on_completed'[q][i].pid = p /\ check_on_completed'[q][i].cond = block_for[q]
        BY <4>1
      <4> QED
        BY <1>2, <1>3, <3>2, <4>2
    <3> QED
      BY <1>6, <3>1, <3>2
  <2>2. ASSUME NEW w \in DOMAIN waiting_on', NEW q \in DOMAIN waiting_on'[w]
        PROVE  \E i \in DOMAIN check_on_completed'[q] : check_on_completed'[q][i].pid = w
    <3>1. CASE w = p
      <4>1. q \in DOMAIN rest /\ q \in Pid
        BY <1>2, <1>3, <1>4, <3>1
      <4>2. last(q) \in DOMAIN check_on_completed'[q] /\ check_on_completed'[q][last(q)] = entry(q)
        BY <1>6, <4>1
      <4>3. check_on_completed'[q][last(q)].pid = w
        BY <3>1, <4>2
      <4> QED
        BY <4>2, <4>3
    <3>2. CASE w # p
      <4>1. w \in DOMAIN waiting_on /\ q \in DOMAIN waiting_on[w]
        BY <1>2, <3>2
      <4>2. q \in Pid /\ w \in Waiters(q)
        BY <4>1 DEF IInv, IndexesAgree, TypeOK, IsMapOfMaps, IsBlockFor, IsMap
      <4>3. PICK i \in DOMAIN check_on_completed[q] : check_on_completed[q][i].pid = w
        BY <4>2 DEF Waiters
      <4>4. i \in DOMAIN check_on_completed'[q] /\ check_on_completed'[q][i] = check_on_completed[q][i]
        BY <1>6, <4>2, <4>3
      <4> QED
        BY <4>3, <4>4
    <3> QED
      BY <3>1, <3>2
  <2>3. ASSUME NEW q \in Pid, NEW i \in DOMAIN check_on_completed'[q],
               NEW j \in DOMAIN check_on_completed'[q],
               check_on_completed'[q][i].pid = check_on_completed'[q][j].pid
        PROVE  i = j
    <3>1. \A k \in DOMAIN check_on_completed[q] : check_on_completed[q][k].pid # p
      BY <1>2 DEF IInv, IndexesAgree
    <3>2. \A k \in DOMAIN check_on_completed[q] : check_on_completed'[q][k] = check_on_completed[q][k]
      BY <1>6
    <3>3. q \in DOMAIN rest => check_on_completed'[q][last(q)].pid = p
      <4>1. entry(q).pid = p
        OBVIOUS
      <4> QED
        BY <1>6, <4>1
    <3>4. CASE i \in DOMAIN check_on_completed[q] /\ j \in DOMAIN check_on_completed[q]
      BY <2>3, <3>2, <3>4 DEF IInv, IndexesAgree
    <3>5. CASE i = last(q) /\ j = last(q)
      BY <3>5
    <3>6. CASE i \in DOMAIN check_on_completed[q] /\ q \in DOMAIN rest /\ j = last(q)
      BY <2>3, <3>1, <3>2, <3>3, <3>6
    <3>7. CASE j \in DOMAIN check_on_completed[q] /\ q \in DOMAIN rest /\ i = last(q)
      BY <2>3, <3>1, <3>2, <3>3, <3>7
    <3>8. \A k \in DOMAIN check_on_completed'[q] :
             k \in DOMAIN check_on_completed[q] \/ (q \in DOMAIN rest /\ k = last(q))
      BY <1>6
    <3> QED
      BY <3>4, <3>5, <3>6, <3>7, <3>8
  <2> QED
    BY <2>1, <2>2, <2>3 DEF IndexesAgree, Waiters
<1>9. WaitsForTheRest'
  <2>1. waiting_on'[p] = StillNeeded(asked[p])' /\ Missed(asked[p])' = {}
    BY <1>1, <1>2, <1>5 DEF rest, StillNeeded, Missed
  <2>2. ASSUME NEW w \in DOMAIN waiting_on
        PROVE  waiting_on'[w] = StillNeeded(asked[w])' /\ Missed(asked[w])' = {}
    BY <1>1, <1>2, <1>5 DEF IInv, WaitsForTheRest, StillNeeded, Missed
  <2> QED
    BY <1>2, <2>1, <2>2 DEF WaitsForTheRest
<1>10. NoneStartsEarly'
  BY <1>1, <1>5 DEF IInv, OneState, NoneStartsEarly, Missed
<1>11. WaitsForTheLiving'
  <2>1. \A q \in DOMAIN rest : Known(q)
    BY <1>3, <1>5 DEF Unknown
  <2>2. \A q : Known(q) => Known(q)'
    BY <1>2, <1>5 DEF Known
  <2> QED
    BY <1>2, <2>1, <2>2 DEF IInv, WaitsForTheLiving
<1>12. NoCircularWait'
  <2> SUFFICES ASSUME NEW S \in SUBSET DOMAIN waiting_on', S # {}
               PROVE  \E w \in S : DOMAIN waiting_on'[w] \cap S = {}
    BY DEF NoCircularWait
  <2>1. CASE S \ {p} = {}
    BY <1>2, <1>3, <1>4, <2>1
  <2>2. CASE S \ {p} # {}
    <3>1. S \ {p} \in SUBSET DOMAIN waiting_on
      BY <1>2
    <3>2. PICK w \in S \ {p} : DOMAIN waiting_on[w] \cap (S \ {p}) = {}
      BY <2>2, <3>1 DEF IInv, NoCircularWait
    <3>3. \A q \in DOMAIN waiting_on[w] : Known(q)
      BY <3>1 DEF IInv, WaitsForTheLiving
    <3>4. p \notin DOMAIN waiting_on[w]
      BY <3>3 DEF IInv, OneState, Known
    <3> QED
      BY <1>2, <3>1, <3>2, <3>4
  <2> QED
    BY <2>1, <2>2
<1> QED
  BY <1>7, <1>8, <1>9, <1>10, <1>11, <1>12 DEF IInv

-----------------------------------------------------------------------------
(* The step that takes from both indexes. *)

\* A process that leaves to_run or running is struck from the conditions of all who
\* wait for it, and those left with no condition move to to_run.
LEMMA ResolveStep ==
    ASSUME IInv, TypeOK', NEW p \in Pid, NEW status \in ExitStatus,
           p \in to_run \cup DOMAIN running,
           Resolve(p, status, to_run \ {p}, tasks \ {p}),
           \A q : q \in DOMAIN running' <=> q \in DOMAIN running /\ q # p,
           UNCHANGED <<refused, asked>>
    PROVE  IInv'
<1> DEFINE free == Released(p)
<1>1. /\ p \notin DOMAIN finished /\ p \notin DOMAIN waiting_on /\ p \notin refused
      /\ p \in DOMAIN asked
  BY DEF IInv, OneState
<1>2. /\ \A q : q \in DOMAIN finished' <=> q \in DOMAIN finished \/ q = p
      /\ finished'[p] = status
      /\ \A q \in DOMAIN finished : finished'[q] = finished[q]
  BY <1>1, PutIsMap DEF Resolve
<1>3. \A w : w \in Waiters(p) <=> w \in DOMAIN waiting_on /\ p \in DOMAIN waiting_on[w]
  BY WaitersAgree DEF IInv
<1>4. \A w : w \in free <=>
         w \in DOMAIN waiting_on /\ \A q : q \in DOMAIN waiting_on[w] <=> q = p
  <2>1. ASSUME NEW w
        PROVE  DOMAIN waiting_on[w] = {p} <=> \A q : q \in DOMAIN waiting_on[w] <=> q = p
    OBVIOUS
  <2> QED
    BY <1>3, <2>1 DEF Released
<1> HIDE DEF free
<1>5. \A w : w \in DOMAIN waiting_on' <=> w \in DOMAIN waiting_on /\ w \notin free
  BY DEF Resolve, free
<1>6. ASSUME NEW w \in DOMAIN waiting_on'
      PROVE  /\ \A q : q \in DOMAIN waiting_on'[w] <=> q \in DOMAIN waiting_on[w] /\ q # p
             /\ \A q \in DOMAIN waiting_on'[w] : waiting_on'[w][q] = waiting_on[w][q]
  <2>1. waiting_on'[w] = IF w \in Waiters(p) THEN Remove(waiting_on[w], p) ELSE waiting_on[w]
    BY DEF Resolve
  <2> QED
    BY <1>3, <1>5, <2>1, RemoveIsMap
<1>7. /\ check_on_completed'[p] = <<>>
      /\ \A q \in Pid : q # p => check_on_completed'[q] = check_on_completed[q]
  BY DEF Resolve, IInv, TypeOK
<1>8. \A w \in DOMAIN waiting_on : p \in DOMAIN waiting_on[w] => Meets(waiting_on[w][p], status)
  <2> SUFFICES ASSUME NEW w \in DOMAIN waiting_on, p \in DOMAIN waiting_on[w]
               PROVE  Meets(waiting_on[w][p], status)
    OBVIOUS
  <2>1. PICK i \in DOMAIN check_on_completed[p] : check_on_completed[p][i].pid = w
    BY DEF IInv, IndexesAgree, Waiters
  <2>2. Meets(check_on_completed[p][i].cond, status)
    BY <2>1 DEF Resolve, MissedBy
  <2> QED
    BY <2>1, <2>2 DEF IInv, IndexesAgree
<1>9. /\ \A q : q \in to_run' <=> (q \in to_run /\ q # p) \/ q \in free
      /\ \A q : q \in tasks' <=> (q \in tasks /\ q # p) \/ q \in free
  BY DEF Resolve, free
<1>10. UNCHANGED <<refused, asked>>
  OBVIOUS
\* What a waiting process asked for has finished as asked, but for what it still waits for.
<1>11. ASSUME NEW w \in DOMAIN waiting_on
       PROVE  /\ IsFunction(waiting_on[w])
              /\ \A q : q \in DOMAIN waiting_on[w] <=>
                           q \in DOMAIN asked[w] /\ q \notin DOMAIN finished
              /\ \A q \in DOMAIN waiting_on[w] : waiting_on[w][q] = asked[w][q]
              /\ \A q \in DOMAIN asked[w] :
                     q \in DOMAIN finished' => Meets(asked[w][q], finished'[q])
  <2>1. waiting_on[w] = StillNeeded(asked[w]) /\ Missed(asked[w]) = {}
    BY DEF IInv, WaitsForTheRest
  <2>2. \A q \in DOMAIN asked[w] : q \in DOMAIN finished => Meets(asked[w][q], finished[q])
    BY <2>1, NothingMissed
  <2>3. /\ IsFunction(waiting_on[w])
        /\ \A q : q \in DOMAIN waiting_on[w] <=>
                     q \in DOMAIN asked[w] /\ q \notin DOMAIN finished
        /\ \A q \in DOMAIN waiting_on[w] : waiting_on[w][q] = asked[w][q]
    BY <2>1, StillNeededIsMap
  <2>4. p \in DOMAIN asked[w] => Meets(asked[w][p], status)
    BY <1>1, <1>8, <2>3
  <2> QED
    BY <1>2, <2>2, <2>3, <2>4
<1>12. OneState' /\ TasksAreToRun'
  <2>1. TasksAreToRun'
    BY <1>9 DEF IInv, TasksAreToRun
  <2>2. OneState
    BY DEF IInv
  <2> QED
    BY <1>1, <1>2, <1>4, <1>5, <1>9, <2>1, <2>2 DEF OneState
<1>13. IndexesAgree'
  <2>1. ASSUME NEW q \in Pid, NEW i \in DOMAIN check_on_completed'[q]
        PROVE  /\ check_on_completed'[q][i].pid \in DOMAIN waiting_on'
               /\ q \in DOMAIN waiting_on'[check_on_completed'[q][i].pid]
               /\ waiting_on'[check_on_completed'[q][i].pid][q] = check_on_completed'[q][i].cond
    <3>1. q # p
      BY <1>7
    <3>2. check_on_completed'[q] = check_on_completed[q]
      BY <1>7, <3>1
    <3>3. /\ check_on_completed[q][i].pid \in DOMAIN waiting_on
          /\ q \in DOMAIN waiting_on[check_on_completed[q][i].pid]
          /\ waiting_on[check_on_completed[q][i].pid][q] = check_on_completed[q][i].cond
      BY <3>2 DEF IInv, IndexesAgree
    <3>4. check_on_completed[q][i].pid \in DOMAIN waiting_on'
      BY <1>4, <1>5, <3>1, <3>3
    <3> QED
      BY <1>6, <3>1, <3>2, <3>3, <3>4
  <2>2. ASSUME NEW w \in DOMAIN waiting_on', NEW q \in DOMAIN waiting_on'[w]
        PROVE  \E i \in DOMAIN check_on_completed'[q] : check_on_completed'[q][i].pid = w
    <3>1. w \in DOMAIN waiting_on /\ q \in DOMAIN waiting_on[w] /\ q # p
      BY <1>5, <1>6
    <3>2. q \in Pid /\ w \in Waiters(q)
      BY <3>1 DEF IInv, IndexesAgree, TypeOK, IsMapOfMaps, IsBlockFor, IsMap
    <3> QED
      BY <1>7, <3>1, <3>2 DEF Waiters
  <2>3. ASSUME NEW q \in Pid, NEW i \in DOMAIN check_on_completed'[q],
               NEW j \in DOMAIN check_on_completed'[q],
               check_on_completed'[q][i].pid = check_on_completed'[q][j].pid
        PROVE  i = j
    BY <1>7, <2>3 DEF IInv, IndexesAgree
  <2> QED
    BY <2>1, <2>2, <2>3 DEF IndexesAgree, Waiters
<1>14. WaitsForTheRest'
  <2> SUFFICES ASSUME NEW w \in DOMAIN waiting_on'
               PROVE  waiting_on'[w] = StillNeeded(asked[w])' /\ Missed(asked[w])' = {}
    BY DEF WaitsForTheRest
  <2>1. w \in DOMAIN waiting_on
    BY <1>5
  <2>2. Missed(asked[w])' = {}
    BY <1>10, <1>11, <2>1 DEF Missed
  <2>3. waiting_on'[w] \in [DOMAIN waiting_on'[w] -> Conditions]
    BY DEF TypeOK, IsMapOfMaps, IsBlockFor, IsMap
  <2>4. \A q : q \in DOMAIN waiting_on'[w] <=> q \in DOMAIN asked[w] /\ q \notin DOMAIN finished'
    BY <1>2, <1>6, <1>11, <2>1
  <2>5. \A q \in DOMAIN waiting_on'[w] : waiting_on'[w][q] = asked[w][q]
    BY <1>6, <1>11, <2>1
  <2>6. waiting_on'[w] = StillNeeded(asked[w])'
    BY <1>10, <2>3, <2>4, <2>5 DEF StillNeeded, Restrict
  <2> QED
    BY <2>2, <2>6
<1>15. NoneStartsEarly'
  <2> SUFFICES ASSUME NEW r \in to_run' \cup DOMAIN running' \cup DOMAIN finished'
               PROVE  DOMAIN asked[r] \subseteq DOMAIN finished' /\ Missed(asked[r])' = {}
    BY <1>10 DEF NoneStartsEarly
  <2>1. CASE r \in free
    <3>1. r \in DOMAIN waiting_on /\ \A q \in DOMAIN waiting_on[r] : q = p
      BY <1>4, <2>1
    <3>2. DOMAIN asked[r] \subseteq DOMAIN finished'
      BY <1>2, <1>11, <3>1
    <3>3. Missed(asked[r])' = {}
      BY <1>10, <1>11, <3>1 DEF Missed
    <3> QED
      BY <3>2, <3>3
  <2>2. CASE r \in to_run \cup DOMAIN running \cup DOMAIN finished
    <3>1. DOMAIN asked[r] \subseteq DOMAIN finished /\ Missed(asked[r]) = {}
      BY <2>2 DEF IInv, NoneStartsEarly
    <3>2. Missed(asked[r])' = {}
      BY <1>2, <1>10, <3>1 DEF Missed
    <3> QED
      BY <1>2, <3>1, <3>2
  <2> QED
    BY <1>2, <1>9, <2>1, <2>2
<1>16. WaitsForTheLiving'
  <2> SUFFICES ASSUME NEW w \in DOMAIN waiting_on', NEW q \in DOMAIN waiting_on'[w]
               PROVE  Known(q)'
    BY DEF WaitsForTheLiving
  <2>1. w \in DOMAIN waiting_on /\ q \in DOMAIN waiting_on[w] /\ q # p
    BY <1>5, <1>6
  <2>2. Known(q)
    BY <2>1 DEF IInv, WaitsForTheLiving
  <2> QED
    BY <1>5, <1>9, <2>1, <2>2 DEF Known
<1>17. NoCircularWait'
  <2> SUFFICES ASSUME NEW S \in SUBSET DOMAIN waiting_on', S # {}
               PROVE  \E w \in S : DOMAIN waiting_on'[w] \cap S = {}
    BY DEF NoCircularWait
  <2>1. S \in SUBSET DOMAIN waiting_on
    BY <1>5
  <2>2. PICK w \in S : DOMAIN waiting_on[w] \cap S = {}
    BY <2>1 DEF IInv, NoCircularWait
  <2> QED
    BY <1>6, <2>2
<1> QED
  BY <1>12, <1>13, <1>14, <1>15, <1>16, <1>17 DEF IInv

-----------------------------------------------------------------------------
LEMMA InvStep == IInv /\ [MachineNext]_machineVars => IInv'
<1> SUFFICES ASSUME IInv, [MachineNext]_machineVars PROVE IInv'
  OBVIOUS
<1>1. TypeOK'
  BY TypeStep DEF IInv
<1>2. ASSUME NEW p \in Pid, NEW block_for \in BlockFor, Enqueue(p, block_for)
      PROVE  IInv'
  <2>1. CASE EnqueueRefused(p, block_for)
    BY <1>1, <1>2, <2>1, RefusedStep DEF Enqueue
  <2>2. CASE EnqueueUnknown(p, block_for)
    BY <1>1, <2>2, SameCollections DEF EnqueueUnknown
  <2>3. CASE EnqueueReady(p, block_for)
    BY <1>1, <1>2, <2>3, ReadyStep DEF Enqueue
  <2>4. CASE EnqueueBlocked(p, block_for)
    BY <1>1, <1>2, <2>4, BlockedStep DEF Enqueue
  <2> QED
    BY <1>2, <2>1, <2>2, <2>3, <2>4 DEF Enqueue
<1>3. ASSUME NEW p \in Pid, NEW state \in State, Start(p, state)
      PROVE  IInv'
  BY <1>1, <1>3, StartStep
<1>4. ASSUME NEW p \in Pid, NEW status \in ExitStatus, ResolvePanics(p, status),
             UNCHANGED <<refused, asked>>
      PROVE  IInv'
  BY <1>1, <1>4, SameCollections DEF ResolvePanics
<1>5. ASSUME NEW p \in Pid, NEW status \in ExitStatus, StartCompleted(p, status)
      PROVE  IInv'
  <2>1. CASE ResolvePanics(p, status)
    BY <1>4, <1>5, <2>1 DEF StartCompleted
  <2>2. CASE Resolve(p, status, to_run \ {p}, tasks \ {p}) /\ UNCHANGED running
    <3>1. p \in to_run /\ \A q : q \in DOMAIN running' <=> q \in DOMAIN running /\ q # p
      BY <1>5, <2>2 DEF StartCompleted, IInv, OneState, TasksAreToRun
    <3> QED
      BY <1>1, <1>5, <2>2, <3>1, ResolveStep DEF StartCompleted
  <2> QED
    BY <1>5, <2>1, <2>2 DEF StartCompleted
<1>6. ASSUME NEW p \in Pid, NEW status \in ExitStatus, Completed(p, status)
      PROVE  IInv'
  <2>1. CASE ResolvePanics(p, status)
    BY <1>4, <1>6, <2>1 DEF Completed
  <2>2. CASE Resolve(p, status, to_run, tasks) /\ running' = Remove(running, p)
    <3>1. p \in DOMAIN running /\ \A q : q \in DOMAIN running' <=> q \in DOMAIN running /\ q # p
      BY <1>6, <2>2, RemoveIsMap DEF Completed
    <3>2. to_run = to_run \ {p} /\ tasks = tasks \ {p}
      BY <3>1 DEF IInv, OneState, TasksAreToRun
    <3>3. Resolve(p, status, to_run \ {p}, tasks \ {p})
      BY <2>2, <3>2
    <3> QED
      BY <1>1, <1>6, <3>1, <3>3, ResolveStep DEF Completed
  <2> QED
    BY <1>6, <2>1, <2>2 DEF Completed
<1>7. CASE UNCHANGED machineVars
  BY <1>1, <1>7, SameCollections DEF machineVars
<1> QED
  BY <1>2, <1>3, <1>5, <1>6, <1>7 DEF MachineNext

(* Whatever a caller does, a pid is found in one of the collections, everyone who waits *)
(* is filed under all that it still waits for and under nothing else, that is still to   *)
(* come, and nobody waits in a circle.                                                   *)
THEOREM BookkeepingIsRight == MachineSpec => []Bookkeeping
<1>1. IInv => Bookkeeping
  BY DEF IInv, Bookkeeping
<1> QED
  BY <1>1, InvInit, InvStep, PTL DEF MachineSpec

(* No set of processes ever waits in a circle, however many processes there are.         *)
THEOREM WaitingIsAcyclic == MachineSpec => []NoCircularWait
<1>1. IInv => NoCircularWait
  BY DEF IInv
<1> QED
  BY <1>1, InvInit, InvStep, PTL DEF MachineSpec

(* No process is started before all it was asked to wait for has finished as asked. *)
THEOREM StartsInOrder == MachineSpec => []NoneStartsEarly
<1>1. IInv => NoneStartsEarly
  BY DEF IInv
<1> QED
  BY <1>1, InvInit, InvStep, PTL DEF MachineSpec

(* While a process waits, some process runs or is about to: the machine alone never   *)
(* leaves all its processes waiting.  Among all who wait there is one who waits for    *)
(* none of them (NoCircularWait); what it waits for has not finished and is known.     *)
THEOREM DeadlockFree == MachineSpec => []NoDeadlock
<1>1. IInv => NoDeadlock
  <2> SUFFICES ASSUME IInv, DOMAIN waiting_on # {} PROVE to_run \cup DOMAIN running # {}
    BY DEF NoDeadlock
  <2>1. PICK w \in DOMAIN waiting_on : DOMAIN waiting_on[w] \cap DOMAIN waiting_on = {}
    BY DEF IInv, NoCircularWait
  <2>2. PICK q \in DOMAIN waiting_on[w] : TRUE
    BY DEF IInv, TypeOK
  <2>3. Known(q)
    BY DEF IInv, WaitsForTheLiving
  <2> QED
    BY <2>1, <2>2, <2>3 DEF Known
<1> QED
  BY <1>1, InvInit, InvStep, PTL DEF MachineSpec

-----------------------------------------------------------------------------
\* With no condition on the exit status nothing is refused, and no assertion fails.
NoneRefused == panicked = "no" /\ refused = {}

(* A caller that, like the frontend, puts no condition on the exit status and names no *)
(* pid that it has not used before, never makes the machine panic.                     *)
THEOREM UnconditionalNeverPanics ==
    ASSUME Conditions = {None}, ~AnyPid
    PROVE  MachineSpec => []NeverPanics
<1>1. MachineInit => NoneRefused
  BY DEF MachineInit, NoneRefused
<1>2. ASSUME IInv, NoneRefused, [MachineNext]_machineVars
      PROVE  NoneRefused'
  <2> USE <1>2
  <2>1. ASSUME NEW p \in Pid, NEW block_for \in BlockFor, Enqueue(p, block_for)
        PROVE  NoneRefused'
    <3>1. /\ DOMAIN block_for \subseteq DOMAIN asked
          /\ \A q \in DOMAIN block_for : block_for[q] = None
      BY BlockForIsMap DEF IsMap, IInv
    <3>2. Missed(block_for) = {}
      BY <3>1 DEF Missed, Meets
    <3>3. Unknown(block_for) = {}
      BY <3>1 DEF Unknown, Known, IInv, OneState, NoneRefused
    <3> QED
      BY <2>1, <3>2, <3>3 DEF Enqueue, EnqueueRefused, EnqueueUnknown, EnqueueReady,
                              EnqueueBlocked, NoneRefused
  <2>2. ASSUME NEW p \in Pid, NEW status \in ExitStatus
        PROVE  ~ResolvePanics(p, status)
    <3>1. \A i \in DOMAIN check_on_completed[p] : check_on_completed[p][i].cond \in Conditions
      <4>1. check_on_completed[p] \in Seq(Entry)
        BY DEF IInv, TypeOK
      <4>2. \A i \in DOMAIN check_on_completed[p] : check_on_completed[p][i] \in Entry
        BY <4>1, ElementsKeepTypes
      <4> QED
        BY <4>2 DEF Entry
    <3> QED
      BY <3>1 DEF ResolvePanics, MissedBy, Meets
  <2>3. ASSUME NEW p \in Pid, NEW status \in ExitStatus,
               StartCompleted(p, status) \/ Completed(p, status)
        PROVE  NoneRefused'
    BY <2>2, <2>3 DEF StartCompleted, Completed, Resolve, NoneRefused
  <2> QED
    BY <2>1, <2>3 DEF MachineNext, machineVars, Start, NoneRefused
<1>3. NoneRefused => NeverPanics
  BY DEF NoneRefused, NeverPanics
<1>4. IInv /\ NoneRefused /\ [MachineNext]_machineVars => NoneRefused'
  BY <1>2
<1> QED
  BY <1>1, <1>3, <1>4, InvInit, InvStep, PTL DEF MachineSpec

-----------------------------------------------------------------------------
(* The machine implements the job graph: every step of the machine is a    *)
(* step of JobGraph on the jobs that JobOf reads off the collections, or   *)
(* leaves them alone.                                                      *)

jobs == [p \in Pid |-> JobOf(p)]

\* A job that was never submitted is in none of the collections.
LEMMA AbsentJob ==
    ASSUME OneState, NEW q \in Pid, q \notin DOMAIN asked
    PROVE  JobOf(q) = "absent"
  BY DEF OneState, JobOf

\* Finished jobs are those in finished, and only they have an exit status.
LEMMA JobFinished ==
    ASSUME TypeOK, NEW q \in Pid
    PROVE  JobOf(q) \in ExitStatus <=> q \in DOMAIN finished
  BY DEF JobOf, TypeOK, IsMap, ExitStatus

LEMMA TooLateIsMissed ==
    ASSUME TypeOK, NEW block_for \in BlockFor
    PROVE  Jobs!TooLate(block_for) <=> Missed(block_for) # {}
<1>1. \A q \in DOMAIN block_for : q \in Pid
  BY BlockForIsMap DEF IsMap, TypeOK, IsMapOfMaps
<1>2. \A q \in Pid : q \in DOMAIN finished => JobOf(q) = finished[q]
  BY DEF JobOf
<1>3. \A q \in DOMAIN block_for : jobs[q] \in ExitStatus <=> q \in DOMAIN finished
  BY <1>1, JobFinished DEF jobs
<1> QED
  BY <1>1, <1>2, <1>3 DEF jobs, Missed, Jobs!TooLate, Jobs!Finished, Jobs!ExitStatus, ExitStatus,
     Jobs!Meets, Meets, None

\* What was asked for has finished as asked: the job graph lets the job begin.
LEMMA AllMet ==
    ASSUME IInv, NEW p \in Pid, p \in to_run \cup DOMAIN running
    PROVE  Jobs!Met(p)
<1>1. DOMAIN asked[p] \subseteq DOMAIN finished /\ Missed(asked[p]) = {}
  BY DEF IInv, NoneStartsEarly
<1>2. DOMAIN asked[p] \subseteq Pid
  BY DEF IInv, OneState, TypeOK, IsMapOfMaps, IsBlockFor, IsMap
<1>3. \A q \in DOMAIN asked[p] : jobs[q] \in ExitStatus /\ jobs[q] = finished[q]
  BY <1>1, <1>2, JobFinished DEF jobs, JobOf, IInv
<1> QED
  BY <1>1, <1>3 DEF jobs, Missed, Jobs!Met, Jobs!Finished, Jobs!ExitStatus, ExitStatus,
     Jobs!Meets, Meets, None

LEMMA SubmitStep ==
    ASSUME IInv, IInv', NEW p \in Pid, NEW block_for \in BlockFor,
           Enqueue(p, block_for), ~EnqueueUnknown(p, block_for)
    PROVE  Jobs!Submit(p)
<1>1. p \notin DOMAIN asked /\ asked' = Put(asked, p, block_for)
  BY DEF Enqueue, EnqueueRefused, EnqueueReady, EnqueueBlocked
<1>2. asked' = [q \in DOMAIN asked \cup {p} |-> IF q = p THEN block_for ELSE asked[q]]
  BY <1>1 DEF Put
<1>3. block_for \in Jobs!Submissions
  <2>1. block_for \in [DOMAIN block_for -> Conditions] /\ DOMAIN block_for \in SUBSET Pid
    BY BlockForIsMap DEF IsMap, IInv
  <2> QED
    BY <2>1 DEF Jobs!Submissions
<1>4. jobs[p] = "absent"
  BY <1>1, AbsentJob DEF jobs, IInv
<1>5. \A q \in Pid : q # p => JobOf(q)' = JobOf(q)
  <2>1. \A w : w # p => (w \in DOMAIN waiting_on' <=> w \in DOMAIN waiting_on)
    BY PutIsMap DEF Enqueue, EnqueueRefused, EnqueueReady, EnqueueBlocked
  <2> QED
    BY <2>1 DEF Enqueue, EnqueueRefused, EnqueueReady, EnqueueBlocked, JobOf
<1>6. JobOf(p)' = IF Jobs!TooLate(block_for) THEN "refused" ELSE "submitted"
  <2>1. TypeOK /\ OneState'
    BY DEF IInv
  <2>2. CASE Missed(block_for) # {}
    <3>1. p \in refused'
      BY <2>2 DEF Enqueue, EnqueueRefused, EnqueueReady, EnqueueBlocked
    <3>2. JobOf(p)' = "refused"
      BY <2>1, <3>1 DEF OneState, JobOf
    <3> QED
      BY <2>1, <2>2, <3>2, TooLateIsMissed
  <2>3. CASE Missed(block_for) = {}
    <3>1. p \in to_run' \cup DOMAIN waiting_on'
      BY <2>3, PutIsMap DEF Enqueue, EnqueueRefused, EnqueueReady, EnqueueBlocked
    <3>2. JobOf(p)' = "submitted"
      BY <2>1, <3>1 DEF OneState, JobOf
    <3> QED
      BY <2>1, <2>3, <3>2, TooLateIsMissed
  <2> QED
    BY <2>2, <2>3
<1>7. jobs' = [jobs EXCEPT ![p] = IF Jobs!TooLate(block_for) THEN "refused" ELSE "submitted"]
  BY <1>5, <1>6 DEF jobs
<1>8. Jobs!TooLate(block_for) \/ Jobs!Accepted(block_for)
  <2>1. CASE Missed(block_for) # {}
    BY <2>1, TooLateIsMissed DEF IInv
  <2>2. CASE Missed(block_for) = {}
    <3>1. \A q \in DOMAIN block_for : q \in Pid
      BY BlockForIsMap DEF IsMap, IInv
    <3>2. Unknown(block_for) = {}
      BY <2>2 DEF Enqueue, EnqueueRefused, EnqueueReady, EnqueueBlocked
    <3>3. \A q \in DOMAIN block_for :
             q \in DOMAIN finished \cup to_run \cup DOMAIN running \cup DOMAIN waiting_on
      BY <3>2 DEF Unknown, Known
    <3>4. \A q \in DOMAIN block_for : JobOf(q) \notin {"absent", "refused"}
      BY <3>1, <3>3 DEF JobOf, IInv, TypeOK, IsMap, ExitStatus
    <3> QED
      BY <3>1, <3>4 DEF jobs, Jobs!Accepted
  <2> QED
    BY <2>1, <2>2
<1> QED
  BY <1>2, <1>3, <1>4, <1>7, <1>8 DEF jobs, Jobs!Submit

LEMMA BeginStep ==
    ASSUME IInv, IInv', NEW p \in Pid, NEW state \in State, Start(p, state)
    PROVE  Jobs!Begin(p)
<1>1. p \in to_run /\ p \in DOMAIN running'
  BY PutIsMap DEF Start, IInv, TasksAreToRun
<1>2. jobs[p] = "submitted" /\ JobOf(p)' = "running"
  BY <1>1 DEF jobs, JobOf, IInv, OneState
<1>3. \A q \in Pid : q # p => JobOf(q)' = JobOf(q)
  <2>1. \A q : q # p => (q \in DOMAIN running' <=> q \in DOMAIN running)
    BY PutIsMap DEF Start
  <2> QED
    BY <2>1 DEF Start, JobOf
<1>4. jobs' = [jobs EXCEPT ![p] = "running"]
  BY <1>2, <1>3 DEF jobs
<1> QED
  BY <1>1, <1>2, <1>4, AllMet DEF jobs, Jobs!Begin, Start

LEMMA FinishStep ==
    ASSUME IInv, IInv', NEW p \in Pid, NEW status \in ExitStatus, NEW ready, NEW started,
           p \in to_run \cup DOMAIN running,
           Resolve(p, status, ready, started), to_run \ {p} \subseteq ready, ready \subseteq to_run,
           \A q : q # p => (q \in DOMAIN running' <=> q \in DOMAIN running),
           UNCHANGED <<refused, asked>>
    PROVE  Jobs!Finish(p, status)
<1>1. /\ p \in DOMAIN finished' /\ finished'[p] = status
      /\ \A q : q # p => (q \in DOMAIN finished' <=> q \in DOMAIN finished)
      /\ \A q \in DOMAIN finished : q # p => finished'[q] = finished[q]
  BY PutIsMap DEF Resolve
<1>2. jobs[p] \in {"submitted", "running"}
  BY DEF jobs, JobOf, IInv, OneState
<1>3. JobOf(p)' = status
  BY <1>1 DEF JobOf
<1>4. ASSUME NEW q \in Pid, q # p
      PROVE  JobOf(q)' = JobOf(q)
  <2>1. Released(p) \subseteq DOMAIN waiting_on
    BY WaitersAgree DEF IInv, Released
  <2>2. q \in to_run' \cup DOMAIN waiting_on' <=> q \in to_run \cup DOMAIN waiting_on
    BY <1>4, <2>1 DEF Resolve
  <2> QED
    BY <1>1, <1>4, <2>2 DEF JobOf
<1>5. jobs' = [jobs EXCEPT ![p] = status]
  BY <1>3, <1>4 DEF jobs
<1>6. Jobs!Met(p)
  BY AllMet
<1> QED
  BY <1>2, <1>5, <1>6 DEF jobs, Jobs!Finish

\* Steps that leave the collections alone leave the jobs alone.
LEMMA StutterStep ==
    ASSUME UNCHANGED <<finished, to_run, running, waiting_on, refused, asked>>
    PROVE  UNCHANGED Jobs!vars
<1>1. \A q \in Pid : JobOf(q)' = JobOf(q)
  BY DEF JobOf
<1> QED
  BY <1>1 DEF Jobs!vars

(* The collections and the two indexes of the machine implement the job graph: a job *)
(* begins once its needs are met, keeps its exit status, and is refused when, and      *)
(* only when, it is submitted too late.                                                *)
THEOREM MachineImplementsJobGraph == MachineSpec => ImplementsJobGraph
<1>1. MachineInit => Jobs!Init
  <2> SUFFICES ASSUME MachineInit PROVE Jobs!Init
    OBVIOUS
  <2>1. \A p \in Pid : JobOf(p) = "absent"
    BY DEF MachineInit, JobOf, EmptyMap
  <2>2. asked = [p \in {} |-> {}]
    BY DEF MachineInit, EmptyMap
  <2> QED
    BY <2>1, <2>2 DEF Jobs!Init
<1>2. IInv /\ IInv' /\ [MachineNext]_machineVars => [Jobs!Next]_Jobs!vars
  <2> SUFFICES ASSUME IInv, IInv', [MachineNext]_machineVars PROVE [Jobs!Next]_Jobs!vars
    OBVIOUS
  <2>1. ASSUME NEW p \in Pid, NEW block_for \in BlockFor, Enqueue(p, block_for)
        PROVE  [Jobs!Next]_Jobs!vars
    <3>1. CASE EnqueueUnknown(p, block_for)
      BY <3>1, StutterStep DEF EnqueueUnknown
    <3>2. CASE ~EnqueueUnknown(p, block_for)
      BY <2>1, <3>2, SubmitStep DEF Jobs!Next
    <3> QED
      BY <3>1, <3>2
  <2>2. ASSUME NEW p \in Pid, NEW state \in State, Start(p, state)
        PROVE  Jobs!Next
    BY <2>2, BeginStep DEF Jobs!Next
  <2>3. ASSUME NEW p \in Pid, NEW status \in ExitStatus, StartCompleted(p, status)
        PROVE  [Jobs!Next]_Jobs!vars
    <3>1. CASE ResolvePanics(p, status)
      BY <2>3, <3>1, StutterStep DEF StartCompleted, ResolvePanics
    <3>2. CASE Resolve(p, status, to_run \ {p}, tasks \ {p}) /\ UNCHANGED running
      <4>1. p \in to_run
        BY <2>3 DEF StartCompleted, IInv, TasksAreToRun
      <4>2. Jobs!Finish(p, status)
        BY <2>3, <3>2, <4>1, FinishStep DEF StartCompleted
      <4> QED
        BY <4>2 DEF Jobs!Next, Jobs!ExitStatus, ExitStatus
    <3> QED
      BY <2>3, <3>1, <3>2 DEF StartCompleted
  <2>4. ASSUME NEW p \in Pid, NEW status \in ExitStatus, Completed(p, status)
        PROVE  [Jobs!Next]_Jobs!vars
    <3>1. CASE ResolvePanics(p, status)
      BY <2>4, <3>1, StutterStep DEF Completed, ResolvePanics
    <3>2. CASE Resolve(p, status, to_run, tasks) /\ running' = Remove(running, p)
      <4>1. p \in DOMAIN running /\ \A q : q # p => (q \in DOMAIN running' <=> q \in DOMAIN running)
        BY <2>4, <3>2, RemoveIsMap DEF Completed
      <4>2. Jobs!Finish(p, status)
        BY <2>4, <3>2, <4>1, FinishStep DEF Completed
      <4> QED
        BY <4>2 DEF Jobs!Next, Jobs!ExitStatus, ExitStatus
    <3> QED
      BY <2>4, <3>1, <3>2 DEF Completed
  <2>5. CASE UNCHANGED machineVars
    BY <2>5, StutterStep DEF machineVars
  <2> QED
    BY <2>1, <2>2, <2>3, <2>4, <2>5 DEF MachineNext
<1> QED
  BY <1>1, <1>2, InvInit, InvStep, PTL DEF MachineSpec, ImplementsJobGraph, Jobs!Spec
=============================================================================
