-------------------------------- MODULE Links --------------------------------
(***************************************************************************)
(* What a stack of remotes promises to the shell on top of it: to each     *)
(* remote a line of its own, as if it were the only one.  Requests reach   *)
(* the remote they are meant for in order and take effect there; what a    *)
(* remote answers comes in order and is known to come from it.             *)
(***************************************************************************)
EXTENDS Naturals, Sequences

CONSTANT Remote

VARIABLES
    to_remote,    \* requests that each remote has not taken
    running,      \* commands that each remote has taken and not answered
    from_remote   \* answers that the shell has not received

linkVars == <<to_remote, running, from_remote>>

RemoteReady == [type |-> "RemoteReady"]
CommandDone(p) == [type |-> "CommandDone", pid |-> p]

LinksInit(first) ==
    /\ to_remote = [r \in Remote |-> <<>>]
    /\ running = [r \in Remote |-> {}]
    /\ from_remote = [r \in Remote |-> IF r = first THEN <<RemoteReady>> ELSE <<>>]

Send(r, requests) ==
    /\ to_remote' = [to_remote EXCEPT ![r] = @ \o requests]
    /\ UNCHANGED <<running, from_remote>>

CommandsOf(request) == IF request.type = "Command" THEN {request.pid} ELSE {}
Take(r) ==
    /\ to_remote[r] # <<>>
    /\ to_remote' = [to_remote EXCEPT ![r] = Tail(@)]
    /\ running' = [running EXCEPT ![r] = @ \cup CommandsOf(Head(to_remote[r]))]
    /\ UNCHANGED from_remote

Begin(r) ==
    /\ from_remote' = [from_remote EXCEPT ![r] = Append(@, RemoteReady)]
    /\ UNCHANGED <<to_remote, running>>

Answer(r, p) ==
    /\ p \in running[r]
    /\ running' = [running EXCEPT ![r] = @ \ {p}]
    /\ from_remote' = [from_remote EXCEPT ![r] = Append(@, CommandDone(p))]
    /\ UNCHANGED to_remote

Hear(r) ==
    /\ from_remote[r] # <<>>
    /\ from_remote' = [from_remote EXCEPT ![r] = Tail(@)]
    /\ UNCHANGED <<to_remote, running>>

\* Given the sequences of requests that the shell sends at once, each to one remote.
LinksNext(batches) ==
    \E r \in Remote :
        \/ \E requests \in batches : Send(r, requests)
        \/ Take(r) \/ Begin(r) \/ Hear(r)
        \/ \E p \in running[r] : Answer(r, p)
=============================================================================
