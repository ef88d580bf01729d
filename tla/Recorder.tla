------------------------------ MODULE Recorder ------------------------------
(***************************************************************************)
(* The recorder, tools/record/src/main.rs: it runs a command on a pseudo-  *)
(* terminal of its own, pumps what is typed to the command and what the    *)
(* command prints to the user's terminal, and writes a file of records     *)
(* from which the session can be played again.                             *)
(*                                                                         *)
(* The bytes of a direction are numbered as they are typed or printed.     *)
(* Time stamps are left out, and so is what the attributes say.            *)
(***************************************************************************)
EXTENDS Naturals, Sequences, SequencesExt

CONSTANTS
    BufSize,    \* bytes that one read asks for: 4096
    Room,       \* bytes that a terminal takes before somebody reads them
    MaxBytes,   \* bound on the bytes, for each direction
    Faults      \* whether a call may fail, or the recorder be killed

Dir == {"Input", "Output"}

ASSUME RecorderAssumption ==
    /\ BufSize \in Nat \ {0} /\ Room \in Nat
    /\ \A d \in Dir : MaxBytes[d] \in Nat
    /\ Faults \in BOOLEAN

VARIABLES
    made,       \* bytes typed and printed so far
    closed,     \* the directions that have ended: standard input, the command's terminal
    backlog,    \* bytes written to a terminal and not yet read there
    attrs,      \* attributes of the command's terminal, changed at most once
    exited,     \* whether the command itself has exited
    pc,         \* where record() is
    ready,      \* what select found and is still to be pumped
    current,    \* the direction that is pumped
    buf,        \* Piper::buf of both directions, and
    capacity,   \* what it has room for
    offset, chunk, eof,   \* of pipe_some
    config,     \* the attributes recorded last
    pending,    \* the record that accept was called with
    file,       \* the lengths and payloads in the file
    taken,      \* bytes read from each direction
    written,    \* bytes written to each
    refused,    \* bytes in hand when a terminal had no room
    outcome     \* "recording", or how the recorder ended

worldVars == <<made, closed, backlog, attrs, exited>>
pumpVars == <<buf, capacity, offset, chunk, eof, taken, written, refused>>
fileVars == <<config, pending, file>>
vars == <<worldVars, pumpVars, fileVars, pc, ready, current, outcome>>

Recording == outcome = "recording"
At(label) == Recording /\ pc = label

-----------------------------------------------------------------------------
(* The user and the command.  A direction ends when the user hangs up, or  *)
(* when nothing is left that has the command's terminal open.  A command   *)
(* may close its terminal and live on, and what it started may keep the    *)
(* terminal open when it has exited.                                       *)

Spawned == Len(file) >= 2 /\ pc # "spawn"
Open(d) == d \notin closed /\ (d = "Output" => Spawned)

Produce(d) ==
    /\ Recording /\ Open(d) /\ made[d] < MaxBytes[d]
    /\ made' = [made EXCEPT ![d] = @ + 1]
    /\ UNCHANGED <<closed, backlog, attrs, exited, pumpVars, fileVars, pc, ready, current, outcome>>

Close(d) ==
    /\ Recording /\ Open(d)
    /\ closed' = closed \cup {d}
    /\ UNCHANGED <<made, backlog, attrs, exited, pumpVars, fileVars, pc, ready, current, outcome>>

Drain(d) ==
    /\ Recording /\ backlog[d] > 0
    /\ backlog' = [backlog EXCEPT ![d] = @ - 1]
    /\ UNCHANGED <<made, closed, attrs, exited, pumpVars, fileVars, pc, ready, current, outcome>>

ChangeAttrs ==
    /\ Recording /\ Open("Output") /\ attrs = "first"
    /\ attrs' = "second"
    /\ UNCHANGED <<made, closed, backlog, exited, pumpVars, fileVars, pc, ready, current, outcome>>

Exit ==
    /\ Recording /\ Spawned /\ ~exited
    /\ exited' = TRUE
    /\ UNCHANGED <<made, closed, backlog, attrs, pumpVars, fileVars, pc, ready, current, outcome>>

World == ChangeAttrs \/ Exit \/ \E d \in Dir : Produce(d) \/ Close(d) \/ Drain(d)

-----------------------------------------------------------------------------
(* The end of the recorder. *)

Stop(how) ==
    /\ outcome' = how
    /\ UNCHANGED <<worldVars, fileVars, pc, ready, current>>

Killed == Recording /\ Faults /\ Stop("killed") /\ UNCHANGED pumpVars

-----------------------------------------------------------------------------
(* DiskRecording: a record is its length and its payload, two writes. *)

Cut(f) == Len(f) % 2 = 1
Accept(record) == pc' = "accept" /\ pending' = record

WriteLength ==
    /\ At("accept") /\ ~Cut(file)
    /\ file' = Append(file, [type |-> "Length"])
    /\ UNCHANGED <<worldVars, pumpVars, config, pending, pc, ready, current, outcome>>

\* Both directions are pumped by what one select found.
PumpNext(found) ==
    \/ found = {} /\ pc' = "config" /\ UNCHANGED <<ready, current>>
    \/ /\ found # {} /\ pc' = "pump"
       /\ current' = IF "Input" \in found THEN "Input" ELSE "Output"
       /\ ready' = found \ {current'}

AfterConfig ==
    /\ pending.type = "Config"
    /\ pc' = IF Len(file) = 1 THEN "spawn" ELSE "select"
    /\ UNCHANGED <<ready, current, outcome>>

\* The end of the input is a panic, that of the output ends the recording.
AfterData ==
    /\ pending.type # "Config"
    /\ \/ ~eof /\ PumpNext(ready) /\ UNCHANGED outcome
       \/ eof /\ pending.type = "Output" /\ pc' = "wait" /\ UNCHANGED <<ready, current, outcome>>
       \/ eof /\ pending.type = "Input" /\ outcome' = "panic" /\ UNCHANGED <<pc, ready, current>>

WritePayload ==
    /\ At("accept") /\ Cut(file)
    /\ file' = Append(file, pending)
    /\ AfterConfig \/ AfterData
    /\ UNCHANGED <<worldVars, pumpVars, config, pending>>

AcceptFails ==
    /\ At("accept") /\ Faults
    /\ Stop("no space") /\ UNCHANGED pumpVars

-----------------------------------------------------------------------------
(* record(). *)

Spawn ==
    /\ At("spawn")
    /\ \/ pc' = "config" /\ UNCHANGED outcome
       \/ Faults /\ outcome' = "error" /\ UNCHANGED pc
    /\ UNCHANGED <<worldVars, pumpVars, fileVars, ready, current>>

CheckConfig ==
    /\ At("config")
    /\ IF attrs # config
       THEN config' = attrs /\ Accept([type |-> "Config", data |-> <<>>])
       ELSE pc' = "select" /\ UNCHANGED <<config, pending>>
    /\ UNCHANGED <<worldVars, pumpVars, file, ready, current, outcome>>

Readable_DataOnly(d) == taken[d] < made[d]
Readable(d) == taken[d] < made[d] \/ d \in closed
Writable(d) == buf[d] # <<>> /\ backlog[d] < Room

Select ==
    LET found == {d \in Dir : Readable(d) \/ Writable(d)} IN
    /\ At("select") /\ found # {}
    /\ PumpNext(found)
    /\ UNCHANGED <<worldVars, pumpVars, fileVars, outcome>>

\* child.wait() blocks until the command has exited, whatever has become of its terminal.
Wait ==
    /\ At("wait") /\ exited
    /\ Stop("ok") \/ (Faults /\ Stop("error"))
    /\ UNCHANGED pumpVars

-----------------------------------------------------------------------------
(* pipe_some: write what is in buf, then read into it, until a read has     *)
(* nothing to give.                                                         *)

Left(d) == SubSeq(buf[d], offset + 1, Len(buf[d]))
WithBuf(d, bytes) == buf' = [buf EXCEPT ![d] = bytes]

WriteSome_RecordsAll(n) ==
    LET d == current IN
    /\ At("pump") /\ Left(d) # <<>>
    /\ n <= Len(Left(d)) /\ backlog[d] + n <= Room
    /\ offset' = offset + n
    /\ chunk' = chunk \o Left(d)
    /\ written' = [written EXCEPT ![d] = @ \o SubSeq(Left(d), 1, n)]
    /\ backlog' = [backlog EXCEPT ![d] = @ + n]
    /\ UNCHANGED <<made, closed, attrs, exited, buf, capacity, eof, taken, refused, fileVars,
                   pc, ready, current, outcome>>
WriteSome(n) ==
    LET d == current IN
    /\ At("pump") /\ Left(d) # <<>>
    /\ n <= Len(Left(d)) /\ backlog[d] + n <= Room
    /\ offset' = offset + n
    /\ chunk' = chunk \o SubSeq(Left(d), 1, n)
    /\ written' = [written EXCEPT ![d] = @ \o SubSeq(Left(d), 1, n)]
    /\ backlog' = [backlog EXCEPT ![d] = @ + n]
    /\ UNCHANGED <<made, closed, attrs, exited, buf, capacity, eof, taken, refused, fileVars,
                   pc, ready, current, outcome>>

\* No room: what is left moves to a vector of just its length, and the read comes next.
WouldBlock ==
    LET d == current IN
    /\ At("pump") /\ Left(d) # <<>> /\ backlog[d] >= Room
    /\ WithBuf(d, Left(d))
    /\ capacity' = [capacity EXCEPT ![d] = Len(Left(d))]
    /\ refused' = [refused EXCEPT ![d] = @ \cup Range(Left(d))]
    /\ offset' = Len(Left(d))
    /\ UNCHANGED <<worldVars, chunk, eof, taken, written, fileVars, pc, ready, current, outcome>>

\* Also when nothing has the command's terminal open any more.
WriteFails ==
    LET d == current IN
    /\ At("pump") /\ Left(d) # <<>>
    /\ Faults \/ (d = "Input" /\ "Output" \in closed)
    /\ WithBuf(d, Left(d)) /\ offset' = 0
    /\ UNCHANGED <<capacity, chunk, eof, taken, written, refused>>
    /\ Stop("error")

Reads == At("pump") /\ Left(current) = <<>>
NextBytes(d, n) == [i \in 1 .. n |-> taken[d] + i]

ReadSome_KeepsOffset(n) ==
    LET d == current IN
    /\ Reads /\ taken[d] + n <= made[d] /\ n <= BufSize
    /\ taken' = [taken EXCEPT ![d] = @ + n]
    /\ WithBuf(d, NextBytes(d, n))
    /\ outcome' = IF n > capacity[d] THEN "undefined" ELSE outcome
    /\ UNCHANGED <<worldVars, capacity, offset, chunk, eof, written, refused, fileVars, pc, ready, current>>
\* set_len claims BufSize bytes, whatever the vector has room for: a read of more is undefined.
ReadSome(n) ==
    LET d == current IN
    /\ Reads /\ taken[d] + n <= made[d] /\ n <= BufSize
    /\ taken' = [taken EXCEPT ![d] = @ + n]
    /\ WithBuf(d, NextBytes(d, n)) /\ offset' = 0
    /\ outcome' = IF n > capacity[d] THEN "undefined" ELSE outcome
    /\ UNCHANGED <<worldVars, capacity, chunk, eof, written, refused, fileVars, pc, ready, current>>

EndPump(at_eof) ==
    /\ eof' = at_eof /\ offset' = 0 /\ chunk' = <<>>
    /\ Accept([type |-> current, data |-> chunk])
    /\ UNCHANGED <<worldVars, capacity, taken, written, refused, config, file, ready, current, outcome>>

Drained(d) == taken[d] = made[d]
ReadWouldBlock_Keeps == Reads /\ Drained(current) /\ current \notin closed /\ EndPump(FALSE) /\ UNCHANGED buf
ReadWouldBlock ==
    /\ Reads /\ Drained(current) /\ current \notin closed
    /\ WithBuf(current, <<>>)
    /\ EndPump(FALSE)

ReadEof ==
    /\ Reads /\ Drained(current) /\ current \in closed
    /\ EndPump(TRUE) /\ UNCHANGED buf

\* A terminal that has been hung up gives an error instead of an end on some systems: what was
\* pumped in this call is not recorded.
ReadFails ==
    /\ Reads /\ (Faults \/ (Drained(current) /\ current \in closed))
    /\ WithBuf(current, <<>>)
    /\ UNCHANGED <<capacity, offset, chunk, eof, taken, written, refused>>
    /\ Stop("error")

PipeSome ==
    \/ \E n \in 1 .. BufSize : WriteSome(n) \/ ReadSome(n)
    \/ WouldBlock \/ WriteFails
    \/ ReadWouldBlock \/ ReadEof \/ ReadFails

-----------------------------------------------------------------------------
Init ==
    /\ made = [d \in Dir |-> 0] /\ closed = {} /\ backlog = [d \in Dir |-> 0] /\ attrs = "first"
    /\ exited = FALSE
    /\ buf = [d \in Dir |-> <<>>] /\ capacity = [d \in Dir |-> BufSize]
    /\ offset = 0 /\ chunk = <<>> /\ eof = FALSE
    /\ config = "first" /\ pending = [type |-> "Config", data |-> <<>>] /\ file = <<>>
    /\ taken = [d \in Dir |-> 0] /\ written = [d \in Dir |-> <<>>] /\ refused = [d \in Dir |-> {}]
    /\ pc = "accept" /\ ready = {} /\ current = "Input"
    /\ outcome = "recording"

Recorder ==
    \/ WriteLength \/ WritePayload \/ AcceptFails
    \/ Spawn \/ CheckConfig \/ Select \/ Wait
    \/ PipeSome
Next == World \/ Killed \/ Recorder

Spec == Init /\ [][Next]_vars
\* The recorder is a loop; nobody need type, print, hang up or exit, or read what was written.
FairSpec == Spec /\ WF_vars(Recorder)

-----------------------------------------------------------------------------
(* Recording::parse, and the playing of what it returns. *)

\* A length without its payload is a slice out of bounds.
Parses(f) == ~Cut(f)
\* What comes after each length is a record.
Parse(f) == [i \in 1 .. Len(f) \div 2 |-> f[2 * i]]

DataOf(records, d) ==
    FlattenSeq([i \in DOMAIN records |-> IF records[i].type = d THEN records[i].data ELSE <<>>])
Play_All(records) == DataOf(records, "Input") \o DataOf(records, "Output")
Play(records) == DataOf(records, "Output")

-----------------------------------------------------------------------------
Bytes == Seq(Nat \ {0})
Record == [type : {"Config"}, data : {<<>>}] \cup [type : Dir, data : Bytes]
Outcome == {"recording", "ok", "panic", "error", "killed", "no space", "undefined"}

\* Every variable has its type; no more is read or written than there is, or has room, and a
\* write starts within the buffer.
RecorderTypeOK ==
    /\ made \in [Dir -> Nat] /\ closed \subseteq Dir
    /\ backlog \in [Dir -> 0 .. Room] /\ attrs \in {"first", "second"}
    /\ exited \in BOOLEAN
    /\ pc \in {"accept", "spawn", "config", "select", "pump", "wait"}
    /\ ready \subseteq Dir /\ current \in Dir /\ outcome \in Outcome
    /\ buf \in [Dir -> Bytes] /\ capacity \in [Dir -> 0 .. BufSize]
    /\ offset \in Nat /\ (At("pump") => offset <= Len(buf[current])) /\ chunk \in Bytes /\ eof \in BOOLEAN
    /\ config \in {"first", "second"} /\ pending \in Record
    /\ file \in Seq(Record \cup [type : {"Length"}])
    /\ taken \in [Dir -> Nat] /\ \A d \in Dir : taken[d] <= made[d]
    /\ written \in [Dir -> Bytes]
    /\ refused \in [Dir -> SUBSET Nat] /\ \A d \in Dir : refused[d] \subseteq 1 .. taken[d]

Settled == pc \in {"config", "select", "wait"} \/ outcome = "panic"

\* The file says of each direction what was written to its terminal, in order: nothing that was
\* not written, and at the end of each call of pipe_some, at the end of the command and at the
\* end of the input, all of it.
RecordedAsWritten ==
    \A d \in Dir :
        LET recorded == DataOf(Parse(file), d)
        IN  /\ IsPrefix(recorded, written[d])
            /\ outcome \in {"recording", "ok", "panic"} /\ Settled => recorded = written[d]

\* What is read is written once and in order; all that can be missing, also at the next select,
\* is what a terminal had no room for, and only after that can the pump overrun its buffer.
OnlyRefusedIsLost ==
    \A d \in Dir :
        LET arrived == Range(written[d])
            held == IF pc = "pump" /\ current = d THEN Range(buf[d]) ELSE {}
        IN  /\ \A i, j \in DOMAIN written[d] : i < j => written[d][i] < written[d][j]
            /\ arrived \cap refused[d] = {}
            /\ Recording => 1 .. taken[d] = arrived \cup refused[d] \cup held
            /\ outcome = "undefined" => \E e \in Dir : refused[e] # {}

\* A recording can be played, from whatever the recorder left behind, unless it was stopped
\* between a length and its payload; it shows what the user saw, and all of it if the
\* recorder came to its end.
ReplayShowsWhatWasShown ==
    /\ Parses(file) => IsPrefix(Play(Parse(file)), written["Output"])
    /\ outcome \in {"ok", "panic"} => Parses(file) /\ Play(Parse(file)) = written["Output"]

\* When the command has exited and nothing has its terminal open any more, whichever came first,
\* the recorder ends.
RecordingEnds == (exited /\ "Output" \in closed) ~> ~Recording
=============================================================================
