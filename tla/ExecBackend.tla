----------------------------- MODULE ExecBackend -----------------------------
(***************************************************************************)
(* The executor is a backend as the session expects it: what the frontend  *)
(* sees of Exec, mapped onto Backend.  Requests count as received when the *)
(* executor handles them.                                                  *)
(***************************************************************************)
EXTENDS Exec

CONSTANT MaxChunks

CommandOf(cmd, block_for) == [kind |-> cmd.kind, needs |-> DOMAIN block_for,
                              stdout |-> cmd.stdout, stderr |-> cmd.stderr]

Sendable == UNION {{[pid |-> request.pid, command |-> CommandOf(request.cmd, request.block_for)] :
                      request \in {r \in Range(requests) : r.type = "Enqueue"}} :
                   requests \in Inboxes}

\* The session looks at no exit code.
ResponseOf(message) ==
    IF message.type = "CommandDone" THEN [type |-> "CommandDone", pid |-> message.pid] ELSE message

Saying(type, q) == [type |-> type, pipe |-> q]

Received == [p \in DOMAIN commands |-> CommandOf(commands[p], asked[p])]
EndsReported == {q \in Pipe : Count(sent, Saying("Closed", q)) > 0}
Reading == {q \in Pipe : \/ q \in readers \/ q \in EndsReported
                         \/ Count(chan, Saying("PipeClosed", q)) > 0}
ChunksReported == [q \in Pipe |-> Count(sent, Saying("Data", q))]
Responses == [i \in DOMAIN sent |-> ResponseOf(sent[i])]
Dead == ~Alive

B == INSTANCE Backend WITH
        MayFail <- Faults, commands <- Received, answered <- Answered, editing <- waiting_edits,
        reading <- Reading, ended <- EndsReported, chunks <- ChunksReported,
        responses <- Responses, dead <- Dead

Enqueues(x, p) == x.type = "Enqueue" /\ x.pid = p

\* What a frontend sends: a command needs only commands that were sent before it and writes
\* no more to a pipe than the bound allows; and a file that is opened for input is not read
\* by the frontend itself.
FrontendSends(requests) ==
    /\ \A i \in DOMAIN requests : requests[i].type = "Enqueue" =>
          /\ \A p \in DOMAIN requests[i].block_for :
                \E j \in DOMAIN requests : j < i /\ Enqueues(requests[j], p)
          /\ \A s \in Stream : requests[i].cmd.writes[s] <= MaxChunks
    /\ \A i, j \in DOMAIN requests :
          requests[i].type = "OpenInputFile" /\ requests[j].type = "BeginRead" =>
             requests[i].pipe # requests[j].pipe

\* The frontend puts no condition on the exit status of what a command needs.
Unconditional == \A p \in DOMAIN asked : \A q \in DOMAIN asked[p] : asked[p][q] = None

\* Whatever the executor's threads and processes do, in any order, the frontend sees a
\* backend, as long as it sends no conditions itself: answers once and after those of the
\* needs, edits handed out once, output and one end for each pipe it reads and a command
\* writes, nothing after the end.
ImplementsBackend ==
    B!BackendInit /\ [][Unconditional' => B!BackendNext(Sendable)]_(B!backendVars)
=============================================================================
