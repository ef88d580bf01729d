------------------------------- MODULE Backend -------------------------------
(***************************************************************************)
(* What a nak backend promises to its frontend, and no more: the abstract  *)
(* specification that Exec implements (ExecBackend) and the session relies *)
(* on (Session).  Requests are received one at a time; responses are put   *)
(* into a queue that somebody else empties.  The requests are those of the *)
(* frontend: every condition on a prerequisite is None.                    *)
(***************************************************************************)
EXTENDS Naturals, Sequences

CONSTANTS
    Pid, Pipe,
    MaxChunks,  \* bound on the chunks of output of a pipe
    MayFail     \* whether the system may fail the backend

ASSUME BackendAssumption == MaxChunks \in Nat /\ MayFail \in BOOLEAN

VARIABLES
    commands,   \* the commands received: their kind, needs, stdout and stderr
    answered,   \* those that were answered
    editing,    \* those whose edit is with the frontend
    reading,    \* the pipes that the frontend reads
    ended,      \* those of them whose end was reported
    chunks,     \* the chunks of output reported for each pipe
    responses,  \* the responses on their way to the frontend
    dead        \* whether the executor is gone

jobVars == <<commands, answered, editing>>
outVars == <<reading, ended, chunks>>
backendVars == <<jobVars, outVars, responses, dead>>

BackendInit ==
    /\ commands = [p \in {} |-> {}]
    /\ answered = {} /\ editing = {}
    /\ reading = {} /\ ended = {} /\ chunks = [q \in Pipe |-> 0]
    /\ responses = <<>>
    /\ dead = FALSE

Respond(message) == responses' = Append(responses, message)
CommandDone(p) == [type |-> "CommandDone", pid |-> p]

\* A command begins when all it needs is answered.
Begun(p) == p \in DOMAIN commands /\ commands[p].needs \subseteq answered
InProgress(p) == Begun(p) /\ p \notin answered

\* An edit touches its pipes only to report that its file could not be read.
Writes(p, q) ==
    /\ Begun(p) /\ q \in {commands[p].stdout, commands[p].stderr}
    /\ commands[p].kind = "Edit" => MayFail
Open(q) == q \in reading \ ended

-----------------------------------------------------------------------------
(* Requests. *)

ReceiveCommand(p, command) ==
    /\ ~dead /\ p \notin DOMAIN commands
    /\ commands' = [r \in DOMAIN commands \cup {p} |-> IF r = p THEN command ELSE commands[r]]
    /\ UNCHANGED <<answered, editing, outVars, responses, dead>>

ReceiveRead(q) ==
    /\ ~dead /\ q \notin reading
    /\ reading' = reading \cup {q}
    /\ UNCHANGED <<jobVars, ended, chunks, responses, dead>>

\* An output file shows in no response; opening it may fail.
ReceiveFile ==
    /\ ~dead
    /\ dead' \in {dead, MayFail}
    /\ UNCHANGED <<jobVars, outVars, responses>>

\* A running process is killed and answered like any other, or is found reaped, which the
\* backend may not survive; an answered one is left alone.  It never survives a cancel of
\* what waits or is edited.
ReceiveCancel(p) ==
    /\ ~dead
    /\ \/ p \in answered /\ UNCHANGED dead
       \/ InProgress(p) /\ commands[p].kind = "Unknown" /\ dead' \in BOOLEAN
       \/ p \notin answered /\ ~(InProgress(p) /\ commands[p].kind = "Unknown") /\ dead' = TRUE
    /\ UNCHANGED <<jobVars, outVars, responses>>

ReceiveEdit(p) ==
    /\ ~dead /\ p \in editing
    /\ editing' = editing \ {p}
    /\ \/ answered' = answered \cup {p} /\ Respond(CommandDone(p)) /\ UNCHANGED dead
       \/ MayFail /\ dead' = TRUE /\ UNCHANGED <<answered, responses>>
    /\ UNCHANGED <<commands, outVars>>

-----------------------------------------------------------------------------
(* Responses. *)

Answer(p) ==
    /\ ~dead /\ InProgress(p) /\ p \notin editing
    /\ commands[p].kind = "Edit" => MayFail
    /\ answered' = answered \cup {p}
    /\ Respond(CommandDone(p))
    /\ UNCHANGED <<commands, editing, outVars, dead>>

AskForEdit(p) ==
    /\ ~dead /\ InProgress(p) /\ p \notin editing /\ commands[p].kind = "Edit"
    /\ editing' = editing \cup {p}
    /\ Respond([type |-> "EditRequest", pid |-> p])
    /\ UNCHANGED <<commands, answered, outVars, dead>>

\* Output and its end may come before and after the answer to the command that wrote it.
Output(q) ==
    /\ ~dead /\ Open(q) /\ chunks[q] < MaxChunks
    /\ \E p \in DOMAIN commands : Writes(p, q)
    /\ chunks' = [chunks EXCEPT ![q] = @ + 1]
    /\ Respond([type |-> "Data", pipe |-> q])
    /\ UNCHANGED <<jobVars, reading, ended, dead>>

End(q) ==
    /\ ~dead /\ Open(q)
    /\ \E p \in DOMAIN commands : Writes(p, q)
    /\ ended' = ended \cup {q}
    /\ Respond([type |-> "Closed", pipe |-> q])
    /\ UNCHANGED <<jobVars, reading, chunks, dead>>

\* A command that cannot be spawned.
DieOnSpawn(p) ==
    /\ MayFail /\ ~dead /\ InProgress(p) /\ commands[p].kind = "Unknown"
    /\ dead' = TRUE
    /\ UNCHANGED <<jobVars, outVars, responses>>

BackendSteps ==
    \/ \E p \in DOMAIN commands : Answer(p) \/ AskForEdit(p) \/ DieOnSpawn(p)
    \/ \E q \in reading : Output(q) \/ End(q)

-----------------------------------------------------------------------------
Receive(sendable) ==
    \/ \E s \in sendable : ReceiveCommand(s.pid, s.command)
    \/ \E p \in Pid : ReceiveCancel(p) \/ ReceiveEdit(p)
    \/ \E q \in Pipe : ReceiveRead(q)
    \/ ReceiveFile

\* Given the commands that a frontend may send, each with the pid it gives to it.
BackendNext(sendable) == BackendSteps \/ Receive(sendable)
=============================================================================
