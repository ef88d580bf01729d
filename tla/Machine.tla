------------------------------ MODULE Machine ------------------------------
(***************************************************************************)
(* The scheduler of the nak backend, backend/src/machine.rs.               *)
(*                                                                         *)
(* A Machine is a sequential object: each public method is one action.     *)
(* The caller (ExecInternal in backend/src/exec.rs) is left as free as the *)
(* interface leaves it: it may call any method in any order, except that   *)
(* it uses a fresh pid for each enqueue, starts what it was told to start, *)
(* once, and completes only what runs.  The variables keep the names of    *)
(* the struct's fields; the Cmd parameter, which the machine only hands    *)
(* back, is left out.                                                      *)
(***************************************************************************)
EXTENDS Sequences, Functions

CONSTANTS
    Pid,          \* process ids
    State,        \* what the caller stores for a running process
    Conditions,   \* the conditions that the caller puts in a block_for
    AnyPid        \* whether it names pids there that it has not used before

ExitStatus == {"Success", "Failure"}
None == "None"
Condition == {None} \cup ExitStatus

ASSUME ConditionsAssumption == Conditions \subseteq Condition /\ AnyPid \in BOOLEAN

VARIABLES
    finished,            \* HashMap<Id, ExitStatus>
    to_run,              \* HashSet<Id>
    running,             \* HashMap<Id, State>
    check_on_completed,  \* HashMap<Id, Vec<(Condition, Id)>>; <<>> for an absent key
    waiting_on,          \* HashMap<Id, Waiting>: the conditions still to be met
    tasks,               \* the pids of the Task::Start returned and not yet acted upon
    refused,             \* the pids answered with Task::ConditionFailed
    asked,               \* the block_for that each accepted or refused pid came with
    panicked             \* the assertion that failed, or "no"

machineVars == <<finished, to_run, running, check_on_completed, waiting_on,
                 tasks, refused, asked, panicked>>

-----------------------------------------------------------------------------
(* Hash maps are functions on the set of their keys.  A definition whose   *)
(* name has an underscore and a word after it, like Meets_Exactly, is a    *)
(* mutant of the one that follows it: it shows that a property would catch *)
(* the mistake, and is used nowhere.                                       *)

Put(map, key, value) ==
    [k \in DOMAIN map \cup {key} |-> IF k = key THEN value ELSE map[k]]

Remove(map, key) == Restrict(map, DOMAIN map \ {key})

EmptyMap == [k \in {} |-> None]

\* `Some(expected) if expected != status` is the only way to miss a condition.
Meets_Exactly(cond, status) == cond = status
Meets(cond, status) == cond \in {None, status}

Known(p) == p \in to_run \/ p \in DOMAIN running \/ p \in DOMAIN waiting_on

-----------------------------------------------------------------------------
(* enqueue.  The loop over block_for visits a HashMap, in any order: it     *)
(* returns at the first condition already missed and asserts at the first  *)
(* prerequisite it does not know.  When both are there either may come     *)
(* first.                                                                  *)

Missed_Never(block_for) == {}
Missed(block_for) ==
    {q \in DOMAIN block_for \cap DOMAIN finished : ~Meets(block_for[q], finished[q])}

Unknown_Unchecked(block_for) == {}
Unknown(block_for) == {q \in DOMAIN block_for \ DOMAIN finished : ~Known(q)}

StillNeeded_All(block_for) == block_for
StillNeeded(block_for) == Restrict(block_for, DOMAIN block_for \ DOMAIN finished)

EnqueueRefused(p, block_for) ==
    /\ Missed(block_for) # {}
    /\ refused' = refused \cup {p}
    /\ asked' = Put(asked, p, block_for)
    /\ UNCHANGED <<finished, to_run, running, check_on_completed, waiting_on, tasks, panicked>>

EnqueueUnknown(p, block_for) ==
    /\ Unknown(block_for) # {}
    /\ panicked' = "unknown prerequisite"
    /\ UNCHANGED <<finished, to_run, running, check_on_completed, waiting_on, tasks, refused, asked>>

EnqueueReady(p, block_for) ==
    /\ Missed(block_for) = {} /\ Unknown(block_for) = {}
    /\ DOMAIN StillNeeded(block_for) = {}
    /\ to_run' = to_run \cup {p}
    /\ tasks' = tasks \cup {p}
    /\ asked' = Put(asked, p, block_for)
    /\ UNCHANGED <<finished, running, check_on_completed, waiting_on, refused, panicked>>

EnqueueBlocked(p, block_for) ==
    /\ Missed(block_for) = {} /\ Unknown(block_for) = {}
    /\ DOMAIN StillNeeded(block_for) # {}
    /\ check_on_completed' =
         [q \in Pid |-> IF q \in DOMAIN StillNeeded(block_for)
                        THEN Append(check_on_completed[q], [cond |-> block_for[q], pid |-> p])
                        ELSE check_on_completed[q]]
    /\ waiting_on' = Put(waiting_on, p, StillNeeded(block_for))
    /\ asked' = Put(asked, p, block_for)
    /\ UNCHANGED <<finished, to_run, running, tasks, refused, panicked>>

Enqueue(p, block_for) ==
    /\ panicked = "no"
    /\ p \notin DOMAIN asked
    /\ \/ EnqueueRefused(p, block_for)
       \/ EnqueueUnknown(p, block_for)
       \/ EnqueueReady(p, block_for)
       \/ EnqueueBlocked(p, block_for)

-----------------------------------------------------------------------------
(* start, start_completed, completed, resolve_tasks.                       *)

Start(p, state) ==
    /\ panicked = "no"
    /\ p \in tasks
    /\ tasks' = tasks \ {p}
    /\ to_run' = to_run \ {p}
    /\ running' = Put(running, p, state)
    /\ UNCHANGED <<finished, check_on_completed, waiting_on, refused, asked, panicked>>

Waiters_First(p) == {check_on_completed[p][i].pid : i \in DOMAIN check_on_completed[p] \cap {1}}
Waiters(p) == {check_on_completed[p][i].pid : i \in DOMAIN check_on_completed[p]}

Released_Never(p) == {}
Released_All(p) == Waiters(p)
\* The waiting processes that needed nothing but p: `conditions.len() == 0`.
Released(p) == {w \in Waiters(p) : DOMAIN waiting_on[w] = {p}}

MissedBy(p, status) ==
    {i \in DOMAIN check_on_completed[p] : ~Meets(check_on_completed[p][i].cond, status)}

(* A waiting process whose condition p's exit misses is given to           *)
(* `self.completed`, whose first act is to take it out of `running`, where *)
(* a waiting process never is: the assertion there fails.                  *)
ResolvePanics(p, status) ==
    /\ MissedBy(p, status) # {}
    /\ panicked' = "completed a process that is not running"
    /\ UNCHANGED <<finished, to_run, running, check_on_completed, waiting_on, tasks>>

(* Otherwise p is struck from the conditions of everyone who waits for it. *)
\* `ready` and `started` are to_run and tasks as the caller of resolve_tasks leaves them.
Resolve(p, status, ready, started) ==
    /\ MissedBy(p, status) = {}
    /\ finished' = Put(finished, p, status)
    /\ check_on_completed' = [check_on_completed EXCEPT ![p] = <<>>]
    /\ waiting_on' = [w \in DOMAIN waiting_on \ Released(p) |->
                         IF w \in Waiters(p) THEN Remove(waiting_on[w], p)
                                             ELSE waiting_on[w]]
    /\ to_run' = ready \cup Released(p)
    /\ tasks' = started \cup Released(p)
    /\ UNCHANGED panicked

StartCompleted(p, status) ==
    /\ panicked = "no"
    /\ p \in tasks
    /\ \/ ResolvePanics(p, status)
       \/ Resolve(p, status, to_run \ {p}, tasks \ {p}) /\ UNCHANGED running
    /\ UNCHANGED <<refused, asked>>

Completed(p, status) ==
    /\ panicked = "no"
    /\ p \in DOMAIN running
    /\ \/ ResolvePanics(p, status)
       \/ Resolve(p, status, to_run, tasks) /\ running' = Remove(running, p)
    /\ UNCHANGED <<refused, asked>>

-----------------------------------------------------------------------------
MachineInit ==
    /\ finished = EmptyMap
    /\ to_run = {}
    /\ running = EmptyMap
    /\ check_on_completed = [p \in Pid |-> <<>>]
    /\ waiting_on = EmptyMap
    /\ tasks = {}
    /\ refused = {}
    /\ asked = EmptyMap
    /\ panicked = "no"

\* The maps the caller may pass.
BlockFor == UNION {[D -> Conditions] : D \in SUBSET (IF AnyPid THEN Pid ELSE DOMAIN asked)}

MachineNext ==
    \E p \in Pid :
        \/ \E block_for \in BlockFor : Enqueue(p, block_for)
        \/ \E state \in State : Start(p, state)
        \/ \E status \in ExitStatus : StartCompleted(p, status)
        \/ \E status \in ExitStatus : Completed(p, status)

MachineSpec == MachineInit /\ [][MachineNext]_machineVars

\* process_tasks acts on every task it is given; a started process is assumed to exit.
ActOn(p) == \/ \E state \in State : Start(p, state)
            \/ \E status \in ExitStatus : StartCompleted(p, status)
Exits(p) == \E status \in ExitStatus : Completed(p, status)

MachineFairSpec ==
    /\ MachineSpec
    /\ \A p \in Pid : WF_machineVars(ActOn(p)) /\ WF_machineVars(Exits(p))

-----------------------------------------------------------------------------
(* Type correctness. *)

IsMap(map, Keys, Values) ==
    DOMAIN map \subseteq Keys /\ map \in [DOMAIN map -> Values]

IsBlockFor(map) == IsMap(map, Pid, Conditions)

\* An element of a check_on_completed vector.
Entry == [cond : Conditions, pid : Pid]

IsFunction(map) == map = [k \in DOMAIN map |-> map[k]]

IsMapOfMaps(map) ==
    /\ IsFunction(map)
    /\ DOMAIN map \subseteq Pid
    /\ \A k \in DOMAIN map : IsBlockFor(map[k])

Panics == {"no", "unknown prerequisite", "completed a process that is not running"}

\* Every field has its type; a process that waits has something left to wait for.
TypeOK ==
    /\ IsMap(finished, Pid, ExitStatus)
    /\ to_run \subseteq Pid
    /\ IsMap(running, Pid, State)
    /\ check_on_completed \in [Pid -> Seq(Entry)]
    /\ IsMapOfMaps(waiting_on)
    /\ \A w \in DOMAIN waiting_on : DOMAIN waiting_on[w] # {}
    /\ tasks \subseteq Pid
    /\ refused \subseteq Pid
    /\ IsMapOfMaps(asked)
    /\ panicked \in Panics

-----------------------------------------------------------------------------
(* Safety. *)

\* A pid that was enqueued is in exactly one of the four collections, or was refused;
\* this is what the assertion of enqueue and the lookups of status rely on.
OneState ==
    /\ DOMAIN asked = DOMAIN finished \cup to_run \cup DOMAIN running
                          \cup DOMAIN waiting_on \cup refused
    /\ DOMAIN finished \cap (to_run \cup DOMAIN running \cup DOMAIN waiting_on \cup refused) = {}
    /\ to_run \cap (DOMAIN running \cup DOMAIN waiting_on \cup refused) = {}
    /\ DOMAIN running \cap (DOMAIN waiting_on \cup refused) = {}
    /\ DOMAIN waiting_on \cap refused = {}

\* A process is in to_run exactly while a Start for it is in the hands of the caller, so
\* `assert!(self.to_run.remove(&pid))` holds and no process that may run is forgotten.
TasksAreToRun == tasks = to_run

\* check_on_completed and waiting_on are the two directions of one relation, with the
\* same conditions and without a repetition: "must be waiting", "was waiting" and the
\* assert_eq of resolve_tasks never fail.
IndexesAgree ==
    /\ \A q \in Pid : \A i \in DOMAIN check_on_completed[q] :
          LET entry == check_on_completed[q][i] IN
          /\ entry.pid \in DOMAIN waiting_on
          /\ q \in DOMAIN waiting_on[entry.pid]
          /\ waiting_on[entry.pid][q] = entry.cond
    /\ \A w \in DOMAIN waiting_on : \A q \in DOMAIN waiting_on[w] : w \in Waiters(q)
    /\ \A q \in Pid : \A i, j \in DOMAIN check_on_completed[q] :
          check_on_completed[q][i].pid = check_on_completed[q][j].pid => i = j

\* What a process still waits for is what it was asked to wait for, less what finished,
\* and what finished did so as asked.
WaitsForTheRest ==
    \A w \in DOMAIN waiting_on :
        /\ waiting_on[w] = StillNeeded(asked[w])
        /\ Missed(asked[w]) = {}

\* No process is handed out to be started, runs or has run before everything in its
\* block_for has finished with a status it accepts.
NoneStartsEarly ==
    \A p \in to_run \cup DOMAIN running \cup DOMAIN finished :
        /\ DOMAIN asked[p] \subseteq DOMAIN finished
        /\ Missed(asked[p]) = {}

\* Everyone who waits, waits for a process that is still to come.
WaitsForTheLiving ==
    \A w \in DOMAIN waiting_on : \A q \in DOMAIN waiting_on[w] : Known(q)

\* The wait-for relation has no cycle: in any set of waiting processes there is one
\* that waits for none of the set.
NoCircularWait ==
    \A S \in SUBSET DOMAIN waiting_on :
        S # {} => \E w \in S : DOMAIN waiting_on[w] \cap S = {}

\* The five collections tell of each process where it is, and of those who wait what they
\* wait for: no more, no less, never in vain and never for one another.
Bookkeeping ==
    /\ OneState /\ TasksAreToRun
    /\ IndexesAgree /\ WaitsForTheRest /\ WaitsForTheLiving /\ NoCircularWait

\* As long as some process waits, some process runs or is about to.
NoDeadlock == DOMAIN waiting_on # {} => to_run \cup DOMAIN running # {}

\* No assertion of the machine fails.
NeverPanics == panicked = "no"

-----------------------------------------------------------------------------
(* What the machine implements, and liveness. *)

JobOf(p) ==
    IF p \in DOMAIN finished THEN finished[p]
    ELSE IF p \in DOMAIN running THEN "running"
    ELSE IF p \in to_run \cup DOMAIN waiting_on THEN "submitted"
    ELSE IF p \in refused THEN "refused"
    ELSE "absent"

Jobs == INSTANCE JobGraph WITH job <- [p \in Pid |-> JobOf(p)], needs <- asked

\* The four collections and the two indexes implement the job graph.
ImplementsJobGraph == Jobs!Spec

\* If started processes exit, every process that was enqueued and not refused finishes: the
\* wakeup that resolve_tasks owes it is never lost.
EveryJobFinishes ==
    \A p \in Pid : (p \in DOMAIN asked \ refused) ~> (p \in DOMAIN finished)
=============================================================================
