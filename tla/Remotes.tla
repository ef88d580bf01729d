------------------------------ MODULE Remotes ------------------------------
(***************************************************************************)
(* Remotes on top of each other: a backend begins another backend, a       *)
(* process whose stdin it writes and whose stdout a relay thread of it     *)
(* copies to its own (backend/src/main.rs); the shell keeps a stack of     *)
(* them (frontend/src/comm.rs) and names them by ids of its Endpoint       *)
(* (protocol/src/comm.rs).                                                 *)
(*                                                                         *)
(* A plan has a step to begin a remote (frontend/src/plan.rs:28), which    *)
(* one_loop does not handle and convert_single does not make yet (it       *)
(* panics for `nak`).  Here the step calls begin_remote; Close calls       *)
(* end_remote, and after either the loop asks for the directory.  A line   *)
(* is one command, whose answer stands for all that the loop waits for:    *)
(* what a backend does with it is in Exec, what the shell does with its    *)
(* output in Session.                                                      *)
(***************************************************************************)
EXTENDS Naturals, Sequences, FiniteSets

CONSTANTS
    MaxId,     \* bound on the ids that are given out
    Faults     \* whether a backend may die, or fail to start

ASSUME RemotesAssumption == MaxId \in Nat /\ Faults \in BOOLEAN

VARIABLES
    next_id, remotes,      \* Endpoint: the ids, and the remotes with their parents
    stack,                 \* StackedRemotes::remotes
    waiting_for_remote, waiting_for,
    outcome,               \* "running", or why the shell ended
    state,                 \* of each backend's process: "none", "starting", "live" or "gone"
    input, output,         \* what each has not read, and what nobody has read from it
    starting,              \* the remote whose first line a backend's main thread waits for
    subbackends,           \* those whose stdin it holds
    relays,                \* those whose stdout a thread of it copies
    running,               \* commands that it has not answered
    broken                 \* whether something has died of itself

waitVars == <<waiting_for_remote, waiting_for>>
shellVars == <<next_id, remotes, stack, waitVars, outcome>>
tableVars == <<starting, subbackends, relays, running>>
backendVars == <<state, input, output, tableVars, broken>>
vars == <<shellVars, backendVars>>

Root == 0
Remote == 0 .. MaxId
Running == outcome = "running"

-----------------------------------------------------------------------------
(* The shell at the prompt.  All it sends goes through the root's stdin.    *)

AtPrompt == Running /\ waiting_for_remote = {} /\ waiting_for = {}

cur_remote == stack[Len(stack)]

Command(p) == [type |-> "Command", pid |-> p]
BeginRemote(id) == [type |-> "BeginRemote", id |-> id]
EndRemote(id) == [type |-> "EndRemote", id |-> id]

\* A write to a backend that is gone is an error, which ends the shell.
SendTo(r, requests) ==
    IF state[Root] = "gone"
    THEN outcome' = "no backend" /\ UNCHANGED <<input, waiting_for>>
    ELSE /\ input' = [input EXCEPT ![Root] =
                        @ \o [i \in DOMAIN requests |-> [remote_id |-> r, message |-> requests[i]]]]
         /\ waiting_for' = {m.pid : m \in {n \in {requests[i] : i \in DOMAIN requests} : n.type = "Command"}}
         /\ UNCHANGED outcome

RunLine ==
    /\ AtPrompt /\ next_id <= MaxId
    /\ SendTo(cur_remote, <<Command(next_id)>>)
    /\ next_id' = next_id + 1
    /\ UNCHANGED <<remotes, stack, waiting_for_remote, state, output, tableVars, broken>>

Register_Never(id) == remotes
Register(id) == [r \in DOMAIN remotes \cup {id} |-> IF r = id THEN {cur_remote} ELSE remotes[r]]

\* Ids are those of pipes and processes too, and the first is the root's: to begin a remote
\* before anything else fails an assertion (protocol/src/comm.rs:123).  The request that was
\* sent by then is left out: it reaches a root that ends, and whatever it began.
Begin ==
    LET id == next_id IN
    /\ AtPrompt /\ id + 1 <= MaxId
    /\ IF id \in DOMAIN remotes
       THEN outcome' = "id in use" /\ UNCHANGED <<next_id, remotes, waitVars, input>>
       ELSE /\ remotes' = Register(id)
            /\ waiting_for_remote' = {id}
            /\ next_id' = id + 2
            /\ SendTo(cur_remote, <<BeginRemote(id), Command(id + 1)>>)
    /\ UNCHANGED <<stack, state, output, tableVars, broken>>

Popped_First(s) == Tail(s)
Popped(s) == SubSeq(s, 1, Len(s) - 1)

\* Close, and the directory of the remote below.
End ==
    LET closed == cur_remote
        parent == CHOOSE r \in remotes[closed] : TRUE
    IN  /\ AtPrompt /\ Len(stack) > 1 /\ next_id <= MaxId
        /\ stack' = Popped(stack)
        /\ remotes' = [r \in DOMAIN remotes \ {closed} |-> remotes[r]]
        /\ next_id' = next_id + 1
        /\ SendTo(parent, <<EndRemote(closed), Command(next_id)>>)    \* parent: the new cur_remote
        /\ UNCHANGED <<waiting_for_remote, state, output, tableVars, broken>>

Exit ==
    /\ AtPrompt /\ Len(stack) = 1
    /\ outcome' = "exit"
    /\ UNCHANGED <<next_id, remotes, stack, waitVars, backendVars>>

-----------------------------------------------------------------------------
(* The shell with a response. *)

Response == Head(output[Root])
Receive(type) ==
    /\ Running /\ ~AtPrompt
    /\ output[Root] # <<>> /\ Response.message.type = type
    /\ output' = [output EXCEPT ![Root] = Tail(@)]
    /\ UNCHANGED <<next_id, remotes, state, input, tableVars, broken>>

ReceiveRemoteReady ==
    /\ Receive("RemoteReady")
    /\ IF waiting_for_remote = {Response.remote_id}
       THEN /\ stack' = Append(stack, Response.remote_id) /\ waiting_for_remote' = {}
            /\ UNCHANGED outcome
       ELSE outcome' = "unexpected remote" /\ UNCHANGED <<stack, waiting_for_remote>>
    /\ UNCHANGED waiting_for

ReceiveCommandDone ==
    /\ Receive("CommandDone")
    /\ IF Response.message.pid \in waiting_for
       THEN waiting_for' = waiting_for \ {Response.message.pid} /\ UNCHANGED outcome
       ELSE outcome' = "unexpected answer" /\ UNCHANGED waiting_for
    /\ UNCHANGED <<stack, waiting_for_remote>>

Shell == ReceiveRemoteReady \/ ReceiveCommandDone

-----------------------------------------------------------------------------
(* The main thread of a backend: one request. *)

Responds(r, message) == output' = [output EXCEPT ![r] = Append(@, [remote_id |-> 0, from |-> r, message |-> message])]

\* A panic of the main thread is the end of the process.
Panic(r) ==
    /\ state' = [state EXCEPT ![r] = "gone"]
    /\ UNCHANGED <<input, tableVars>>

CanTake(r) == state[r] = "live" /\ starting[r] = {} /\ input[r] # <<>>
Taken(r) == input' = [input EXCEPT ![r] = Tail(@)]

TakeCommand(r) ==
    LET m == Head(input[r]).message IN
    /\ m.type = "Command"
    /\ Taken(r)
    /\ running' = [running EXCEPT ![r] = @ \cup {m.pid}]
    /\ UNCHANGED <<state, starting, subbackends, relays>>

\* The main thread stands still until the new backend has written its first line.
TakeBeginRemote(r) ==
    LET m == Head(input[r]).message IN
    /\ m.type = "BeginRemote"
    /\ Taken(r)
    /\ state' = [state EXCEPT ![m.id] = "starting"]
    /\ starting' = [starting EXCEPT ![r] = {m.id}]
    /\ UNCHANGED <<subbackends, relays, running>>

TakeEndRemote(r) ==
    LET m == Head(input[r]).message IN
    /\ m.type = "EndRemote"
    /\ IF m.id \in subbackends[r]
       THEN /\ Taken(r)
            /\ state' = [state EXCEPT ![m.id] = "gone"]
            /\ subbackends' = [subbackends EXCEPT ![r] = @ \ {m.id}]
            /\ UNCHANGED <<starting, relays, running>>
       ELSE Panic(r)

ForItself_Always(r) == TRUE
ForItself(r) == Head(input[r]).remote_id = 0

PassOn(r) ==
    LET request == Head(input[r]) c == request.remote_id IN
    IF c \in subbackends[r] /\ state[c] # "gone"
    THEN /\ input' = [input EXCEPT ![r] = Tail(@), ![c] = Append(@, [request EXCEPT !.remote_id = 0])]
         /\ UNCHANGED <<state, tableVars>>
    ELSE Panic(r)

TakeRequest(r) ==
    /\ CanTake(r)
    /\ \/ ForItself(r) /\ (TakeCommand(r) \/ TakeBeginRemote(r) \/ TakeEndRemote(r))
       \/ ~ForItself(r) /\ PassOn(r)
    /\ UNCHANGED <<shellVars, output, broken>>

WithRelay_None(threads, c) == threads
WithRelay(threads, c) == threads \cup {c}
Connect(r) ==
    /\ state[r] = "live" /\ starting[r] # {}
    /\ \E c \in starting[r] :
          \/ /\ state[c] = "live"
             /\ subbackends' = [subbackends EXCEPT ![r] = @ \cup {c}]
             /\ relays' = [relays EXCEPT ![r] = WithRelay(@, c)]
             /\ starting' = [starting EXCEPT ![r] = {}]
             /\ UNCHANGED <<state, input, running>>
          \/ state[c] = "gone" /\ Panic(r)
    /\ UNCHANGED <<shellVars, output, broken>>

\* Somebody holds the other end of its stdin.
Held(r) ==
    IF r = Root THEN Running
    ELSE \E s \in Remote : state[s] = "live" /\ r \in subbackends[s] \cup starting[s]

EndOfInput_Spins(r) == state[r] = "live" /\ input[r] = <<>> /\ ~Held(r) /\ UNCHANGED vars
EndOfInput(r) ==
    /\ state[r] = "live" /\ starting[r] = {} /\ input[r] = <<>> /\ ~Held(r)
    /\ state' = [state EXCEPT ![r] = "gone"]
    /\ UNCHANGED <<shellVars, input, output, tableVars, broken>>

MainThread(r) == TakeRequest(r) \/ Connect(r) \/ EndOfInput(r)

-----------------------------------------------------------------------------
(* The rest of a backend. *)

\* The first line, which Connect reads, and RemoteReady behind it.
Start(r) ==
    /\ state[r] = "starting"
    /\ state' = [state EXCEPT ![r] = "live"]
    /\ Responds(r, [type |-> "RemoteReady"])
    /\ UNCHANGED <<shellVars, input, tableVars, broken>>

Answer(r) ==
    /\ state[r] = "live"
    /\ \E p \in running[r] :
          /\ running' = [running EXCEPT ![r] = @ \ {p}]
          /\ Responds(r, [type |-> "CommandDone", pid |-> p])
    /\ UNCHANGED <<shellVars, state, input, starting, subbackends, relays, broken>>

Stamp_Keeps(response, c) == response
\* Each relay on the way puts the id that it knows over the one before.
Stamp(response, c) == [response EXCEPT !.remote_id = c]

\* Relays outlive EndRemote, not the process of their backend.
Relay(r, c) ==
    /\ state[r] = "live" /\ c \in relays[r] /\ output[c] # <<>>
    /\ output' = [output EXCEPT ![c] = Tail(@), ![r] = Append(@, Stamp(Head(output[c]), c))]
    /\ UNCHANGED <<shellVars, state, input, tableVars, broken>>

Dies(r) ==
    /\ Faults /\ state[r] \in {"starting", "live"}
    /\ state' = [state EXCEPT ![r] = "gone"]
    /\ broken' = TRUE
    /\ UNCHANGED <<shellVars, input, output, tableVars>>

-----------------------------------------------------------------------------
Init ==
    /\ next_id = 0 /\ remotes = [r \in {Root} |-> {}]
    /\ stack = <<>> /\ waiting_for_remote = {Root} /\ waiting_for = {} /\ outcome = "running"
    /\ state = [r \in Remote |-> IF r = Root THEN "live" ELSE "none"]
    /\ input = [r \in Remote |-> <<>>]
    /\ output = [r \in Remote |-> IF r = Root
                   THEN <<[remote_id |-> 0, from |-> Root, message |-> [type |-> "RemoteReady"]]>> ELSE <<>>]
    /\ starting = [r \in Remote |-> {}] /\ subbackends = [r \in Remote |-> {}]
    /\ relays = [r \in Remote |-> {}] /\ running = [r \in Remote |-> {}]
    /\ broken = FALSE

User == RunLine \/ Begin \/ End \/ Exit
Next ==
    \/ User \/ Shell
    \/ \E r \in Remote : MainThread(r) \/ Start(r) \/ Answer(r) \/ Dies(r)
    \/ \E r, c \in Remote : Relay(r, c)

\* All threads are scheduled, commands end and backends start; the user need not do anything.
Fairness ==
    /\ WF_vars(Shell)
    /\ \A r \in Remote : WF_vars(MainThread(r)) /\ WF_vars(Start(r)) /\ WF_vars(Answer(r))
    /\ \A r, c \in Remote : WF_vars(Relay(r, c))
Spec == Init /\ [][Next]_vars
FairSpec == Spec /\ Fairness

-----------------------------------------------------------------------------
\* What the shell may send at once: always with a fresh id.
Batches ==
    {<<Command(next_id)>>, <<BeginRemote(next_id), Command(next_id + 1)>>}
    \cup {<<EndRemote(r), Command(next_id)>> : r \in DOMAIN remotes}
ReadyMessage == [type |-> "RemoteReady"]
Messages == {ReadyMessage} \cup [type : {"CommandDone"}, pid : Remote]

\* Of what waits in a queue and bears the id r, the messages, the oldest first.
Of(queue, id, r) ==
    LET among[i \in 0 .. Len(queue)] ==
            IF i = 0 THEN <<>>
            ELSE IF queue[i][id] = r THEN Append(among[i - 1], queue[i].message) ELSE among[i - 1]
    IN  among[Len(queue)]

\* The requests for r that it has not taken, in its input and in the root's.
To(r) == Of(input[Root], "remote_id", r)
Reached(r) == [i \in DOMAIN input[r] |-> input[r][i].message]
Asked == [r \in Remote |-> IF r = Root THEN To(Root) ELSE Reached(r) \o To(r)]

\* The responses of r that the shell has not received: in the output of the root, in that of the
\* backend between the two, if there is one, and in its own.
From(r, s) == Of(output[s], "from", r)
Between(r) ==
    IF \E s \in Remote \ {Root, r} : r \in relays[s]
    THEN From(r, CHOOSE s \in Remote \ {Root, r} : r \in relays[s]) ELSE <<>>
Told == [r \in Remote |-> From(r, Root) \o Between(r) \o (IF r = Root THEN <<>> ELSE From(r, r))]

L == INSTANCE Links WITH to_remote <- Asked, from_remote <- Told

\* Each remote has, through the root and its relays, a line of its own to the shell.
ImplementsLinks == L!LinksInit(Root) /\ [][L!LinksNext(Batches)]_(L!linkVars)

-----------------------------------------------------------------------------
\* A remote on top of a remote.  Its id is replaced on the way to the shell, which refuses it
\* (frontend/src/comm.rs:63).
Nested == \E r \in DOMAIN remotes : remotes[r] \notin {{}, {Root}}

\* Every variable has its type; the shell knows what it stacks and waits for, and a backend
\* copies the output of all that it writes to.
RemotesTypeOK ==
    /\ next_id \in 0 .. MaxId + 1
    /\ DOMAIN remotes \subseteq Remote /\ \A r \in DOMAIN remotes : remotes[r] \subseteq Remote
    /\ \A i \in DOMAIN stack : stack[i] \in DOMAIN remotes
    /\ waiting_for_remote \subseteq DOMAIN remotes /\ waiting_for \subseteq Remote
    /\ outcome \in {"running", "exit", "no backend", "id in use", "unexpected remote", "unexpected answer"}
    /\ state \in [Remote -> {"none", "starting", "live", "gone"}]
    /\ \A r \in Remote : \A i \in DOMAIN input[r] : input[r][i].remote_id \in Remote
    /\ \A r \in Remote : \A i \in DOMAIN output[r] : output[r][i].message \in Messages
    /\ \A r \in Remote : Cardinality(starting[r]) <= 1 /\ starting[r] \subseteq Remote
    /\ \A r \in Remote : subbackends[r] \subseteq relays[r] /\ running[r] \subseteq Remote
    /\ broken \in BOOLEAN

\* With no remote but on the root the shell expects every response: each bears the id of the
\* remote that it is from, those of a remote that was closed are over, and a RemoteReady is for
\* the remote it has begun last.
ResponsesExpected == outcome \in {"unexpected remote", "unexpected answer"} => Nested

\* At the prompt what the shell has on its stack is there: each remote runs, and the one below
\* holds its stdin and copies its stdout.  Nothing else that is known runs.
StackIsConnected ==
    AtPrompt /\ ~broken =>
        /\ \A i \in DOMAIN stack : state[stack[i]] = "live"
        /\ \A i \in 1 .. Len(stack) - 1 :
              /\ subbackends[stack[i]] = {stack[i + 1]}
              /\ stack[i + 1] \in relays[stack[i]]
        /\ subbackends[stack[Len(stack)]] = {}

\* The prompt returns, also after a remote was begun or closed, if nothing dies of itself.
StackPromptReturns == []<>(AtPrompt \/ ~Running \/ broken)

\* When the shell is gone, or a backend, so are in the end all the backends above it.
Orphan(r) == state[r] \in {"starting", "live"} /\ ~Held(r)
OrphansEnd == []<>(\A r \in Remote : ~Orphan(r))
=============================================================================
