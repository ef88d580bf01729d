---------------------------- MODULE RemotesProofs ----------------------------
(***************************************************************************)
(* Proofs about Remotes: that the shell expects every response, that at    *)
(* the prompt what it has on its stack is there, and that each remote has  *)
(* a line of its own to the shell (Links).                                 *)
(*                                                                         *)
(* Of the inductive invariant, Types to Stacked say what the variables     *)
(* hold, Flow, OneCommand and OneRemote follow the one command and the one *)
(* new remote that the shell may wait for, and Flat, Stuck and Connected   *)
(* relate the stack of the shell to the processes, with and without a      *)
(* remote on a remote.  For Links, Sole to Origin say which queues the     *)
(* requests and responses of a backend can be in.                          *)
(***************************************************************************)
EXTENDS Remotes, Numbers, FiniteSetTheorems, TLAPS

CommandMessage == [type : {"Command"}, pid : Remote]
RemoteMessage == [type : {"BeginRemote", "EndRemote"}, id : Remote]
Request == [remote_id : Remote, message : CommandMessage \cup RemoteMessage]
Answered == [remote_id : Remote, from : Remote, message : Messages]

-----------------------------------------------------------------------------
(* What the variables hold. *)

Types ==
    /\ next_id \in 0 .. MaxId + 1
    /\ outcome \in {"running", "exit", "no backend", "id in use", "unexpected remote", "unexpected answer"}
    /\ state \in [Remote -> {"none", "starting", "live", "gone"}]
    /\ input \in [Remote -> Seq(Request)]
    /\ output \in [Remote -> Seq(Answered)]
    /\ starting \in [Remote -> SUBSET Remote]
    /\ subbackends \in [Remote -> SUBSET Remote]
    /\ relays \in [Remote -> SUBSET Remote]
    /\ running \in [Remote -> SUBSET Remote]
    /\ broken \in BOOLEAN
    /\ \A r \in Remote : subbackends[r] \subseteq relays[r]
    /\ \A r \in Remote : \A x, y \in starting[r] : x = y

Ids ==
    /\ waiting_for \subseteq Remote /\ \A p, q \in waiting_for : p = q
    /\ waiting_for_remote \subseteq DOMAIN remotes /\ \A x, y \in waiting_for_remote : x = y
    /\ DOMAIN remotes \subseteq Remote
    /\ Root \in DOMAIN remotes /\ remotes[Root] = {}
    /\ \A x \in DOMAIN remotes \ {Root} : x < next_id /\ \E y \in Remote : remotes[x] = {y}

Stacked ==
    /\ stack \in Seq(Remote)
    /\ stack = <<>> => waiting_for_remote = {Root}
    /\ stack # <<>> => stack[1] = Root
    /\ \A i, j \in 1 .. Len(stack) : stack[i] = stack[j] => i = j
    /\ \A i \in 1 .. Len(stack) : stack[i] \in DOMAIN remotes \ waiting_for_remote

-----------------------------------------------------------------------------
(* The one command: in the inputs, the other requests of its batch in      *)
(* front of it, then with a backend, then on its way to the shell.         *)

IsCommand(q, i) == i \in 1 .. Len(q) /\ q[i].message.type = "Command"
IsOther(q, i) == i \in 1 .. Len(q) /\ q[i].message.type # "Command"
Out(q, i, type) == i \in 1 .. Len(q) /\ q[i].message.type = type
None(type) == \A s \in Remote : \A i \in Nat : ~Out(output[s], i, type)
Unique(type) ==
    \A r, s \in Remote : \A i, j \in Nat : Out(output[r], i, type) /\ Out(output[s], j, type) => r = s /\ i = j

Flow ==
    /\ \A r \in Remote : \A i \in Nat : IsCommand(input[r], i) => i = Len(input[r])
    /\ \A r \in Remote : \A i \in Nat : IsOther(input[r], i) => i = 1
    /\ \A r, s \in Remote : \A i, j \in Nat : IsCommand(input[r], i) /\ IsCommand(input[s], j) => r = s
    /\ \A r, s \in Remote : IsOther(input[r], 1) /\ IsOther(input[s], 1) => r = s
    /\ input[Root] # <<>> => IsCommand(input[Root], Len(input[Root]))
    /\ \A i \in 1 .. Len(input[Root]) : input[Root][i].remote_id = input[Root][1].remote_id
    /\ \A r \in Remote \ {Root} : \A i \in 1 .. Len(input[r]) : input[r][i].remote_id = Root
    /\ \A r \in Remote \ {Root} : IsOther(input[r], Len(input[r])) =>
          input[Root] # <<>> /\ input[Root][1].remote_id = r

NoneRuns == \A s \in Remote : running[s] = {}
OneCommand ==
    /\ \A r \in Remote : \A i \in Nat : IsCommand(input[r], i) =>
          input[r][i].message.pid \in waiting_for /\ NoneRuns /\ None("CommandDone")
    /\ \A r \in Remote : \A p \in running[r] :
          /\ p \in waiting_for
          /\ \A s \in Remote : running[s] # {} => s = r
          /\ None("CommandDone")
    /\ \A r \in Remote : \A i \in Nat : Out(output[r], i, "CommandDone") =>
          output[r][i].message.pid \in waiting_for
    /\ Unique("CommandDone")

\* The one remote: in a request to begin it, then a process that starts, then its first response.
IsBegin(q) == IsOther(q, 1) /\ q[1].message.type = "BeginRemote"
NoneStarts == \A s \in Remote : state[s] # "starting"
OneRemote ==
    /\ \A r \in Remote : IsBegin(input[r]) =>
          input[r][1].message.id \in waiting_for_remote /\ NoneStarts /\ None("RemoteReady")
    /\ \A r \in Remote : state[r] = "starting" => r \in waiting_for_remote /\ None("RemoteReady")
    /\ \A r \in Remote : \A i \in Nat : Out(output[r], i, "RemoteReady") =>
          output[r][i].from \in waiting_for_remote
    /\ Unique("RemoteReady")

-----------------------------------------------------------------------------
(* The shell's view and the processes. *)

\* Ids are given out in order, and a remote has a greater one than that below it.
Fresh ==
    /\ \A r \in Remote : \A x \in relays[r] \cup starting[r] : r < x /\ x < next_id
    /\ \A r \in Remote : IsBegin(input[r]) =>
          /\ r < input[r][1].message.id /\ input[r][1].remote_id < input[r][1].message.id
          /\ input[r][1].message.id < next_id

\* A response that comes to the root is stamped by a relay of the root.
Stamped == \A i \in 1 .. Len(output[Root]) : output[Root][i].remote_id \in {Root} \cup relays[Root]

\* With a remote on a remote the shell waits for it, and no relay of the root will stamp its id.
Stuck == Running /\ Nested =>
    \E n \in Remote \ {Root} :
        /\ waiting_for_remote = {n}
        /\ n \notin relays[Root] \cup starting[Root]
        /\ IsBegin(input[Root]) => input[Root][1].remote_id # Root

\* Without one, only the root has remotes, and a response of theirs bears the id of its sender.
Flat == ~Nested =>
    /\ \A s \in Remote \ {Root} :
          /\ relays[s] = {} /\ starting[s] = {}
          /\ \A i \in Nat : ~IsOther(input[s], i)
          /\ \A i \in 1 .. Len(output[s]) : output[s][i].from = s
    /\ IsOther(input[Root], 1) => input[Root][1].remote_id = Root
    /\ \A i \in 1 .. Len(output[Root]) : output[Root][i].from = output[Root][i].remote_id
    /\ Len(stack) <= 2 /\ (Len(stack) = 2 => waiting_for_remote = {})

\* The remote above the root, begun or to begin, and what the root has of it: nothing while the
\* request to begin it waits, a process while the root waits for its first line, and also when
\* the request to end it waits and the shell has taken it from the stack.
Above == {stack[i] : i \in 2 .. Len(stack)} \cup (waiting_for_remote \ {Root})
Connected == Running /\ ~broken /\ ~Nested =>
    /\ state[Root] = "live"
    /\ ~IsOther(input[Root], 1) /\ starting[Root] = {} =>
          subbackends[Root] = Above /\ \A c \in Above : state[c] = "live"
    /\ IsBegin(input[Root]) =>
          Above = {input[Root][1].message.id} /\ subbackends[Root] = {} /\ starting[Root] = {}
    /\ IsOther(input[Root], 1) /\ ~IsBegin(input[Root]) =>
          Above = {} /\ subbackends[Root] = {input[Root][1].message.id} /\ starting[Root] = {}
    /\ starting[Root] # {} =>
          /\ ~IsOther(input[Root], 1) /\ input[Root] # <<>>
          /\ Above = starting[Root] /\ subbackends[Root] = {}
          /\ \A x \in starting[Root] : state[x] \in {"starting", "live"}
    /\ input[Root] # <<>> => input[Root][1].remote_id \in {Root} \cup Above

RemotesInv ==
    /\ Types /\ Ids /\ Stacked /\ Flow /\ OneCommand /\ OneRemote
    /\ Fresh /\ Stamped /\ ResponsesExpected /\ Stuck /\ Flat /\ Connected

-----------------------------------------------------------------------------
(* Sequences. *)

LEMMA TailIndex ==
    ASSUME NEW S, NEW q \in Seq(S), q # <<>>
    PROVE  /\ Tail(q) \in Seq(S) /\ Len(q) \in Nat \ {0} /\ Len(Tail(q)) = Len(q) - 1
           /\ \A i \in 1 .. Len(q) - 1 : Tail(q)[i] = q[i + 1]
           /\ Head(q) = q[1] /\ q[1] \in S
  OBVIOUS

LEMMA AppendIndex ==
    ASSUME NEW S, NEW q \in Seq(S), NEW x \in S
    PROVE  /\ Append(q, x) \in Seq(S) /\ Len(q) \in Nat /\ Len(Append(q, x)) = Len(q) + 1
           /\ \A i \in 1 .. Len(q) : Append(q, x)[i] = q[i]
           /\ Append(q, x)[Len(q) + 1] = x
  OBVIOUS

\* The elements of a sequence over S are in S.
LEMMA ElementsOf == ASSUME NEW S, NEW q \in Seq(S) PROVE \A i \in DOMAIN q : q[i] \in S
  OBVIOUS

\* What a function changed at one place is, there and elsewhere.
LEMMA ExceptAt ==
    ASSUME NEW D, NEW S, NEW f \in [D -> S], NEW d \in D, NEW v, NEW g, g = [f EXCEPT ![d] = v]
    PROVE  g[d] = v /\ \A e \in D \ {d} : g[e] = f[e]
  OBVIOUS

LEMMA EmptyLen == ASSUME NEW S, NEW q \in Seq(S) PROVE Len(q) \in Nat /\ (q = <<>> <=> Len(q) = 0)
  OBVIOUS

LEMMA IsSeq == ASSUME NEW S, NEW n \in Nat, NEW f \in [1 .. n -> S] PROVE f \in Seq(S) /\ Len(f) = n
  OBVIOUS

LEMMA AfterEmpty == ASSUME NEW S, NEW q \in Seq(S) PROVE <<>> \o q = q
  OBVIOUS

LEMMA RootIsRemote == Root \in Remote /\ Remote \subseteq Nat
  BY RemotesAssumption DEF Root, Remote

-----------------------------------------------------------------------------
(* What the actions do to the queues. *)

\* What SendTo makes of a batch, to the backend that the messages are for.
Addressed(r, requests) == [i \in DOMAIN requests |-> [remote_id |-> r, message |-> requests[i]]]

LEMMA AddressedOne ==
    ASSUME NEW r \in Remote, NEW m \in CommandMessage \cup RemoteMessage
    PROVE  /\ Addressed(r, <<m>>) \in Seq(Request) /\ Len(Addressed(r, <<m>>)) = 1
           /\ Addressed(r, <<m>>)[1] = [remote_id |-> r, message |-> m]
<1> DEFINE f == Addressed(r, <<m>>)
<1>1. DOMAIN f = 1 .. 1 /\ f[1] = [remote_id |-> r, message |-> m]
  BY DEF Addressed
<1>2. f[1] \in Request
  BY <1>1 DEF Request
<1>3. f = [i \in 1 .. 1 |-> f[i]]
  BY <1>1 DEF Addressed
<1> HIDE DEF f
<1>4. f \in [1 .. 1 -> Request]
  BY <1>2, <1>3
<1>5. f \in Seq(Request) /\ Len(f) = 1
  BY <1>4, IsSeq
<1> QED
  BY <1>1, <1>5 DEF f

LEMMA AddressedTwo ==
    ASSUME NEW r \in Remote, NEW m \in CommandMessage \cup RemoteMessage,
           NEW n \in CommandMessage \cup RemoteMessage
    PROVE  /\ Addressed(r, <<m, n>>) \in Seq(Request) /\ Len(Addressed(r, <<m, n>>)) = 2
           /\ Addressed(r, <<m, n>>)[1] = [remote_id |-> r, message |-> m]
           /\ Addressed(r, <<m, n>>)[2] = [remote_id |-> r, message |-> n]
<1> DEFINE f == Addressed(r, <<m, n>>)
<1>1. DOMAIN f = 1 .. 2 /\ f[1] = [remote_id |-> r, message |-> m] /\ f[2] = [remote_id |-> r, message |-> n]
  BY DEF Addressed
<1>2. f[1] \in Request /\ f[2] \in Request
  BY <1>1 DEF Request
<1>3. f = [i \in 1 .. 2 |-> f[i]]
  BY <1>1 DEF Addressed
<1> HIDE DEF f
<1>4. f \in [1 .. 2 -> Request]
  BY <1>2, <1>3
<1>5. f \in Seq(Request) /\ Len(f) = 2
  BY <1>4, IsSeq
<1> QED
  BY <1>1, <1>5 DEF f

\* A batch that the shell sends when the root has nothing to read.
Sends(r, requests) ==
    \/ outcome' = "no backend" /\ UNCHANGED <<input, waiting_for>>
    \/ /\ UNCHANGED outcome
       /\ input' \in [Remote -> Seq(Request)]
       /\ input'[Root] = Addressed(r, requests)
       /\ \A s \in Remote \ {Root} : input'[s] = input[s]

LEMMA SendsBatch ==
    ASSUME Types, input[Root] = <<>>, NEW r \in Remote, NEW requests,
           Addressed(r, requests) \in Seq(Request), SendTo(r, requests)
    PROVE  Sends(r, requests) /\ (state[Root] = "gone" => outcome' = "no backend")
                              /\ (state[Root] # "gone" => outcome' = outcome)
<1> DEFINE f == Addressed(r, requests)
<1> HIDE DEF f
<1>1. state[Root] = "gone" \/ (input' = [input EXCEPT ![Root] = @ \o f] /\ UNCHANGED outcome)
  BY DEF SendTo, f, Addressed
<1>2. f \in Seq(Request) /\ <<>> \o f = f
  BY AfterEmpty DEF f
<1>3. Root \in Remote /\ input \in [Remote -> Seq(Request)]
  BY RootIsRemote DEF Types
<1>4. ASSUME state[Root] # "gone"
      PROVE  /\ input' \in [Remote -> Seq(Request)] /\ input'[Root] = f
             /\ \A s \in Remote \ {Root} : input'[s] = input[s]
  BY <1>1, <1>2, <1>3, <1>4
<1>5. state[Root] = "gone" => outcome' = "no backend" /\ UNCHANGED <<input, waiting_for>>
  BY DEF SendTo
<1> QED
  BY <1>1, <1>4, <1>5 DEF Sends, f

\* What waits after a batch with a command.
LEMMA WaitsForOne ==
    ASSUME NEW p, NEW r \in Remote, SendTo(r, <<Command(p)>>), state[Root] # "gone"
    PROVE  waiting_for' = {p}
  BY DEF SendTo, Command

LEMMA WaitsForSecond ==
    ASSUME NEW p, NEW m \in RemoteMessage, NEW r \in Remote, SendTo(r, <<m, Command(p)>>),
           state[Root] # "gone"
    PROVE  waiting_for' = {p}
<1> DEFINE requests == <<m, Command(p)>>
<1>1. {requests[i] : i \in DOMAIN requests} = {m, Command(p)}
  OBVIOUS
<1>2. {n \in {m, Command(p)} : n.type = "Command"} = {Command(p)}
  BY DEF RemoteMessage, Command
<1>3. waiting_for' = {n.pid : n \in {Command(p)}}
  BY <1>1, <1>2 DEF SendTo
<1>4. Command(p).pid = p
  BY DEF Command
<1> QED
  BY <1>3, <1>4

\* The head of the queue is gone, and the rest one place further in front.
InputTaken(r) ==
    /\ input' \in [Remote -> Seq(Request)]
    /\ Len(input'[r]) = Len(input[r]) - 1
    /\ \A i \in 1 .. Len(input[r]) - 1 : input'[r][i] = input[r][i + 1]

LEMMA TakesHead ==
    ASSUME Types, NEW r \in Remote, input[r] # <<>>, Taken(r)
    PROVE  InputTaken(r) /\ \A s \in Remote \ {r} : input'[s] = input[s]
<1>1. input \in [Remote -> Seq(Request)] /\ input[r] \in Seq(Request)
  BY DEF Types
<1>2. /\ input' = [input EXCEPT ![r] = Tail(@)] /\ input'[r] = Tail(input[r])
      /\ \A s \in Remote \ {r} : input'[s] = input[s]
  BY <1>1 DEF Taken
<1> QED
  BY <1>1, <1>2, TailIndex DEF InputTaken

LEMMA PassesHead ==
    ASSUME Types, NEW r \in Remote, NEW c \in Remote \ {r}, input[r] # <<>>,
           input' = [input EXCEPT ![r] = Tail(@), ![c] = Append(@, [input[r][1] EXCEPT !.remote_id = 0])]
    PROVE  /\ InputTaken(r)
           /\ Len(input'[c]) = Len(input[c]) + 1
           /\ \A i \in 1 .. Len(input[c]) : input'[c][i] = input[c][i]
           /\ input'[c][Len(input[c]) + 1] = [remote_id |-> Root, message |-> input[r][1].message]
           /\ \A s \in Remote \ {r, c} : input'[s] = input[s]
<1> DEFINE m == [input[r][1] EXCEPT !.remote_id = 0]
<1>1. input \in [Remote -> Seq(Request)] /\ input[r] \in Seq(Request) /\ input[c] \in Seq(Request)
  BY DEF Types
<1>2. input[r][1] \in Request
  BY <1>1, TailIndex
<1>3. m = [remote_id |-> Root, message |-> input[r][1].message] /\ m \in Request
  BY <1>2, RootIsRemote DEF Request, Root
<1> HIDE DEF m
<1>4. /\ input'[r] = Tail(input[r]) /\ input'[c] = Append(input[c], m)
      /\ \A s \in Remote \ {r, c} : input'[s] = input[s]
  BY <1>1 DEF m
<1>5. Tail(input[r]) \in Seq(Request) /\ Append(input[c], m) \in Seq(Request)
  BY <1>1, <1>3, TailIndex, AppendIndex
<1>6. input' \in [Remote -> Seq(Request)]
  BY <1>1, <1>5 DEF m
<1>7. InputTaken(r)
  <2>1. /\ Len(Tail(input[r])) = Len(input[r]) - 1
        /\ \A i \in 1 .. Len(input[r]) - 1 : Tail(input[r])[i] = input[r][i + 1]
    BY <1>1, TailIndex
  <2> QED
    BY <1>4, <1>6, <2>1 DEF InputTaken
<1>8. /\ Len(input'[c]) = Len(input[c]) + 1
      /\ \A i \in 1 .. Len(input[c]) : input'[c][i] = input[c][i]
      /\ input'[c][Len(input[c]) + 1] = m
  BY <1>1, <1>3, <1>4, AppendIndex
<1> QED
  BY <1>3, <1>4, <1>7, <1>8

-----------------------------------------------------------------------------
(* Flow. *)

LEMMA InputPlace ==
    ASSUME Types, Flow, NEW r \in Remote
    PROVE  \A i \in 1 .. Len(input[r]) :
              (IsCommand(input[r], i) /\ i = Len(input[r])) \/ (IsOther(input[r], i) /\ i = 1)
<1>1. Len(input[r]) \in Nat
  BY EmptyLen DEF Types
<1> QED
  BY <1>1 DEF Flow, IsCommand, IsOther

LEMMA InputLen ==
    ASSUME Types, Flow, NEW r \in Remote
    PROVE  Len(input[r]) \in 0 .. 2
<1>1. Len(input[r]) \in Nat
  BY EmptyLen DEF Types
<1> DEFINE n == Len(input[r])
<1>2. \A i \in 1 .. n : i = n \/ i = 1
  BY InputPlace
<1> HIDE DEF n
<1>3. n \in Nat
  BY <1>1 DEF n
<1>4. n \in 0 .. 2
  BY <1>2, <1>3
<1> QED
  BY <1>4 DEF n

\* A batch ends in a command.
IsBatch(q) ==
    /\ Len(q) \in 1 .. 2
    /\ q[Len(q)].message.type = "Command"
    /\ Len(q) = 2 => q[1].message.type # "Command" /\ q[2].remote_id = q[1].remote_id

LEMMA FlowOfBatch ==
    ASSUME Flow, \A s \in Remote : input[s] = <<>>, IsBatch(input'[Root]),
           \A s \in Remote \ {Root} : input'[s] = input[s]
    PROVE  Flow'
<1>1. \A s \in Remote \ {Root} : Len(input'[s]) = 0
  OBVIOUS
<1>2. \A s \in Remote : \A i \in Nat :
         /\ IsCommand(input'[s], i) => s = Root /\ i = Len(input'[Root])
         /\ IsOther(input'[s], i) => s = Root /\ i = 1
  BY <1>1, RootIsRemote DEF IsCommand, IsOther, IsBatch
<1>3. input'[Root] # <<>> => IsCommand(input'[Root], Len(input'[Root]))
  BY DEF IsCommand, IsBatch
<1>4. \A i \in 1 .. Len(input'[Root]) : input'[Root][i].remote_id = input'[Root][1].remote_id
  BY DEF IsBatch
<1>5. \A s \in Remote \ {Root} : ~IsOther(input'[s], Len(input'[s]))
  BY <1>1 DEF IsOther
<1>6. \A r \in Remote \ {Root} : \A i \in 1 .. Len(input'[r]) : input'[r][i].remote_id = Root
  BY <1>1
<1> QED
  BY <1>2, <1>3, <1>4, <1>5, <1>6 DEF Flow

\* What a backend takes itself, and what it passes on, leaves nothing in an input that was not
\* in one before.
InputsFrom ==
    /\ \A s \in Remote : \A i \in Nat : IsCommand(input'[s], i) =>
          \E t \in Remote : \E j \in Nat :
             IsCommand(input[t], j) /\ input'[s][i].message = input[t][j].message
    /\ \A s \in Remote : IsBegin(input'[s]) =>
          \E t \in Remote : IsBegin(input[t]) /\ input'[s][1].message = input[t][1].message

LEMMA FlowOfTaken ==
    ASSUME Types, Flow, NEW r \in Remote, input[r] # <<>>, input[r][1].remote_id = Root,
           InputTaken(r), \A s \in Remote \ {r} : input'[s] = input[s]
    PROVE  /\ Flow' /\ InputsFrom
           /\ \A i \in Nat : ~IsOther(input'[r], i)
           /\ IsCommand(input[r], 1) => \A s \in Remote : \A i \in Nat : ~IsCommand(input'[s], i)
           /\ IsOther(input[r], 1) => \A s \in Remote : \A i \in Nat : ~IsOther(input'[s], i)
<1>1. Len(input[r]) \in Nat \ {0}
  BY EmptyLen DEF Types
<1>2. \A i \in Nat : /\ IsCommand(input'[r], i) => IsCommand(input[r], i + 1) /\ input'[r][i] = input[r][i + 1]
                     /\ IsOther(input'[r], i) => IsOther(input[r], i + 1) /\ i + 1 > 1
  BY <1>1 DEF InputTaken, IsCommand, IsOther
<1>3. \A i \in Nat : ~IsOther(input'[r], i)
  BY <1>2 DEF Flow
<1>4. \A s \in Remote \ {r} : \A i \in Nat : /\ IsCommand(input'[s], i) => IsCommand(input[s], i)
                                            /\ IsOther(input'[s], i) => IsOther(input[s], i)
                                            /\ input'[s][i] = input[s][i]
  BY DEF IsCommand, IsOther
<1>5. \A s \in Remote : \A i \in Nat : IsCommand(input'[s], i) => i = Len(input'[s])
  <2>1. ASSUME NEW i \in Nat, IsCommand(input'[r], i) PROVE i = Len(input'[r])
    <3>1. i + 1 = Len(input[r])
      BY <1>2, <2>1 DEF Flow
    <3> QED
      BY <1>1, <3>1 DEF InputTaken
  <2> QED
    BY <1>4, <2>1 DEF Flow
<1>6. \A s \in Remote : \A i \in Nat : IsOther(input'[s], i) => i = 1
  BY <1>3, <1>4 DEF Flow
<1>7. \A s, t \in Remote : \A i, j \in Nat : IsCommand(input'[s], i) /\ IsCommand(input'[t], j) => s = t
  <2>1. \A s \in Remote : \A i \in Nat : IsCommand(input'[s], i) => \E j \in Nat : IsCommand(input[s], j)
    BY <1>2, <1>4
  <2> QED
    BY <2>1 DEF Flow
<1>8. \A s, t \in Remote : IsOther(input'[s], 1) /\ IsOther(input'[t], 1) => s = t
  BY <1>3, <1>4 DEF Flow
<1>9. input'[Root] # <<>> => IsCommand(input'[Root], Len(input'[Root]))
  <2>1. CASE r = Root
    <3>1. IsCommand(input[Root], Len(input[Root])) /\ Len(input'[Root]) \in Nat
      <4>1. Len(input'[Root]) = Len(input[Root]) - 1 /\ input'[Root] \in Seq(Request)
        <5>1. InputTaken(Root)
          BY <1>1, <2>1
        <5>2. input'[Root] \in Seq(Request)
          BY <5>1, RootIsRemote DEF InputTaken
        <5> QED
          BY <5>1, <5>2 DEF InputTaken
      <4>2. input[Root] # <<>>
        BY <1>1, <2>1
      <4>3. IsCommand(input[Root], Len(input[Root]))
        BY <4>2 DEF Flow
      <4> QED
        BY <4>1, <4>3
    <3>2. ASSUME Len(input'[Root]) # 0 PROVE IsCommand(input'[Root], Len(input'[Root]))
      BY <1>1, <2>1, <3>1, <3>2 DEF InputTaken, IsCommand
    <3>3. input'[Root] # <<>> => Len(input'[Root]) # 0
      BY RootIsRemote, EmptyLen DEF InputTaken
    <3> QED
      BY <3>2, <3>3
  <2>2. CASE r # Root
    BY <1>4, <2>2, RootIsRemote DEF Flow, IsCommand
  <2> QED
    BY <2>1, <2>2
<1>10. \A i \in 1 .. Len(input'[Root]) : input'[Root][i].remote_id = input'[Root][1].remote_id
  <2>1. CASE r = Root
    <3>1. \A i \in 1 .. Len(input'[Root]) : i + 1 \in 1 .. Len(input[Root]) /\ 2 \in 1 .. Len(input[Root])
              /\ input'[Root][i] = input[Root][i + 1] /\ input'[Root][1] = input[Root][2]
      <4> DEFINE k == Len(input[Root])
                 l == Len(input'[Root])
      <4>1. /\ k \in Nat \ {0} /\ l = k - 1
            /\ \A i \in 1 .. k - 1 : input'[Root][i] = input[Root][i + 1]
        BY <1>1, <2>1 DEF InputTaken
      <4> HIDE DEF k, l
      <4>2. \A i \in 1 .. l : i \in 1 .. k - 1 /\ 1 \in 1 .. k - 1 /\ i + 1 \in 1 .. k /\ 2 \in 1 .. k
        BY <4>1
      <4>3. \A i \in 1 .. l : input'[Root][i] = input[Root][i + 1] /\ input'[Root][1] = input[Root][2]
        BY <4>1, <4>2
      <4> QED
        BY <4>2, <4>3 DEF k, l
    <3> QED
      BY <3>1 DEF Flow
  <2>2. CASE r # Root
    BY <2>2, RootIsRemote DEF Flow
  <2> QED
    BY <2>1, <2>2
<1>11. \A s \in Remote \ {Root} : \A i \in 1 .. Len(input'[s]) : input'[s][i].remote_id = Root
  <2>1. ASSUME r # Root, NEW i \in 1 .. Len(input'[r]) PROVE input'[r][i].remote_id = Root
    <3>1. i + 1 \in 1 .. Len(input[r]) /\ input'[r][i] = input[r][i + 1]
      BY <1>1, <2>1 DEF InputTaken
    <3> QED
      BY <2>1, <3>1 DEF Flow
  <2> QED
    BY <2>1 DEF Flow
<1>12. \A s \in Remote \ {Root} : IsOther(input'[s], Len(input'[s])) =>
          input'[Root] # <<>> /\ input'[Root][1].remote_id = s
  <2> SUFFICES ASSUME NEW s \in Remote \ {Root}, IsOther(input'[s], Len(input'[s]))
               PROVE  input'[Root] # <<>> /\ input'[Root][1].remote_id = s
    OBVIOUS
  <2>0. Len(input'[s]) \in Nat
    BY EmptyLen DEF InputTaken
  <2>1. s # r
    BY <1>3, <2>0
  <2>2. IsOther(input[s], Len(input[s]))
    BY <2>1 DEF IsOther
  <2>3. input[Root] # <<>> /\ input[Root][1].remote_id = s
    BY <2>2 DEF Flow
  <2>4. r # Root
    BY <2>3
  <2> QED
    BY <2>3, <2>4, RootIsRemote
<1>13. Flow'
  BY <1>5, <1>6, <1>7, <1>8, <1>9, <1>10, <1>11, <1>12 DEF Flow
<1>14. InputsFrom
  <2>1. \A s \in Remote : \A i \in Nat : IsCommand(input'[s], i) =>
          \E t \in Remote : \E j \in Nat :
             IsCommand(input[t], j) /\ input'[s][i].message = input[t][j].message
    <3>1. \A i \in Nat : IsCommand(input'[r], i) =>
            i + 1 \in Nat /\ IsCommand(input[r], i + 1) /\ input'[r][i].message = input[r][i + 1].message
      BY <1>2
    <3> QED
      BY <1>4, <3>1
  <2>2. \A s \in Remote : IsBegin(input'[s]) => s # r /\ IsBegin(input[s]) /\ input'[s][1] = input[s][1]
    BY <1>3, <1>4 DEF IsBegin
  <2> QED
    BY <2>1, <2>2 DEF InputsFrom
<1>15. IsCommand(input[r], 1) => \A s \in Remote : \A i \in Nat : ~IsCommand(input'[s], i)
  <2>1. IsCommand(input[r], 1) => Len(input[r]) = 1
    BY DEF Flow
  <2>2. IsCommand(input[r], 1) => \A i \in Nat : ~IsCommand(input'[r], i)
    BY <2>1 DEF InputTaken, IsCommand
  <2>3. IsCommand(input[r], 1) => \A s \in Remote \ {r} : \A i \in Nat : ~IsCommand(input[s], i)
    BY DEF Flow
  <2> QED
    BY <1>4, <2>2, <2>3
<1>16. IsOther(input[r], 1) => \A s \in Remote : \A i \in Nat : ~IsOther(input'[s], i)
  <2>1. IsOther(input[r], 1) => \A s \in Remote \ {r} : ~IsOther(input[s], 1)
    BY DEF Flow
  <2>2. \A s \in Remote \ {r} : \A i \in Nat : IsOther(input'[s], i) => i = 1 /\ IsOther(input[s], i)
    BY <1>4, <1>6
  <2> QED
    BY <1>3, <2>1, <2>2
<1> QED
  BY <1>3, <1>13, <1>14, <1>15, <1>16

LEMMA FlowOfPassed ==
    ASSUME Types, Flow, NEW c \in Remote \ {Root}, input[Root] # <<>>,
           input[Root][1].remote_id = c, InputTaken(Root),
           Len(input'[c]) = Len(input[c]) + 1,
           \A i \in 1 .. Len(input[c]) : input'[c][i] = input[c][i],
           input'[c][Len(input[c]) + 1] = [remote_id |-> Root, message |-> input[Root][1].message],
           \A s \in Remote \ {Root, c} : input'[s] = input[s]
    PROVE  /\ Flow' /\ InputsFrom
           /\ \A i \in Nat : ~IsOther(input'[Root], i)
           /\ \A i \in Nat : IsOther(input'[c], i) => IsOther(input[c], 1) \/ IsOther(input[Root], 1)
           /\ IsCommand(input[Root], 1) => input'[Root] = <<>>
           /\ IsBegin(input'[c]) =>
                 \/ IsBegin(input[c]) /\ input'[c][1] = input[c][1]
                 \/ /\ IsBegin(input[Root])
                    /\ input'[c][1] = [remote_id |-> Root, message |-> input[Root][1].message]
<1> DEFINE n == Len(input[c])
           first == input[Root][1]
<1>0. Root \in Remote /\ Len(input[Root]) \in 1 .. 2 /\ n \in 0 .. 2
  <2>1. Root \in Remote /\ input[Root] \in Seq(Request)
    BY RootIsRemote DEF Types
  <2>2. Len(input[Root]) \in 0 .. 2 /\ n \in 0 .. 2
    BY <2>1, InputLen
  <2>3. Len(input[Root]) # 0
    BY <2>1, EmptyLen
  <2> QED
    BY <2>1, <2>2, <2>3
<1>1. \A i \in 1 .. Len(input'[Root]) : i = 1 /\ Len(input[Root]) = 2 /\ Len(input'[Root]) = 1
                                          /\ input'[Root][1] = input[Root][2]
  <2>1. Len(input'[Root]) = Len(input[Root]) - 1
    BY DEF InputTaken
  <2>2. Len(input[Root]) = 2 => input'[Root][1] = input[Root][2]
    BY DEF InputTaken
  <2> DEFINE k == Len(input[Root])
             l == Len(input'[Root])
  <2> HIDE DEF k, l
  <2>3. k \in 1 .. 2 /\ l = k - 1
    BY <1>0, <2>1 DEF k, l
  <2>4. \A i \in 1 .. l : i = 1 /\ k = 2 /\ l = 1
    BY <2>3
  <2> QED
    BY <2>2, <2>4 DEF k, l
<1>2. Len(input[Root]) = 2 => IsCommand(input[Root], 2) /\ IsOther(input[Root], 1)
  <2>1. Len(input[Root]) = 2 => IsCommand(input[Root], 2)
    BY <1>0 DEF Flow
  <2>2. Len(input[Root]) = 2 => IsOther(input[Root], 1)
    <3>1. Len(input[Root]) = 2 => 1 \in 1 .. Len(input[Root]) /\ Len(input[Root]) # 1
      BY <1>0
    <3> QED
      BY <1>0, <3>1, InputPlace DEF IsOther, IsCommand
  <2> QED
    BY <2>1, <2>2
<1>3. \A i \in Nat : IsCommand(input'[Root], i) =>
         i = 1 /\ IsCommand(input[Root], 2) /\ Len(input'[Root]) = 1 /\ input'[Root][1] = input[Root][2]
  BY <1>1, <1>2 DEF IsCommand
<1>4. \A i \in Nat : ~IsOther(input'[Root], i)
  BY <1>1, <1>2 DEF IsCommand, IsOther
\* The place at the end of c's queue was not taken by a command.
<1>5. \A i \in Nat : ~IsCommand(input[c], i)
  <2>1. IsCommand(input[Root], Len(input[Root]))
    BY DEF Flow
  <2> QED
    BY <1>0, <2>1 DEF Flow
<1>6. n <= 1 /\ (n = 1 => IsOther(input[c], 1))
  <2>1. \A i \in 1 .. n : IsOther(input[c], i) /\ i = 1
    BY <1>0, <1>5, InputPlace
  <2>2. n \in 0 .. 2
    BY <1>0
  <2> HIDE DEF n
  <2> QED
    BY <2>1, <2>2
<1>7. IsOther(input[Root], 1) => n = 0
  <2>1. IsOther(input[Root], 1) => ~IsOther(input[c], 1)
    BY <1>0 DEF Flow
  <2>2. n \in 0 .. 2
    BY <1>0
  <2> HIDE DEF n
  <2> QED
    BY <1>6, <2>1, <2>2
<1>8. IsCommand(input[Root], 1) => Len(input[Root]) = 1
  BY <1>0 DEF Flow
<1>9. IsCommand(input[Root], 1) \/ IsOther(input[Root], 1)
  BY <1>0 DEF IsCommand, IsOther
<1>10. \A i \in Nat : IsCommand(input'[c], i) =>
          i = n + 1 /\ IsCommand(input[Root], 1) /\ input'[c][i].message = first.message
  <2> SUFFICES ASSUME NEW i \in Nat, IsCommand(input'[c], i)
               PROVE  i = n + 1 /\ IsCommand(input[Root], 1) /\ input'[c][i].message = first.message
    OBVIOUS
  <2>1. i \in 1 .. n + 1 /\ input'[c][i].message.type = "Command"
    BY <1>0 DEF IsCommand
  <2>2. i = n + 1
    <3>1. ASSUME i # n + 1 PROVE FALSE
      <4>1. i \in 1 .. n /\ input'[c][i] = input[c][i]
        BY <1>0, <2>1, <3>1
      <4>2. IsCommand(input[c], i)
        BY <2>1, <4>1 DEF IsCommand
      <4> QED
        BY <1>5, <4>2
    <3> QED
      BY <3>1
  <2>3. input'[c][i].message = first.message
    BY <1>0, <2>2
  <2>4. IsCommand(input[Root], 1)
    BY <1>9, <2>1, <2>3 DEF IsOther
  <2> QED
    BY <2>2, <2>3, <2>4
<1>11. \A i \in Nat : IsOther(input'[c], i) =>
          i = 1 /\ (  (n = 1 /\ IsOther(input[c], 1) /\ input'[c][1] = input[c][1])
                   \/ (n = 0 /\ IsOther(input[Root], 1)
                        /\ input'[c][1] = [remote_id |-> Root, message |-> first.message]))
  <2> SUFFICES ASSUME NEW i \in Nat, IsOther(input'[c], i)
               PROVE  i = 1 /\ (  (n = 1 /\ IsOther(input[c], 1) /\ input'[c][1] = input[c][1])
                   \/ (n = 0 /\ IsOther(input[Root], 1)
                        /\ input'[c][1] = [remote_id |-> Root, message |-> first.message]))
    OBVIOUS
  <2>1. CASE i \in 1 .. n
    <3>1. i = 1 /\ n = 1
      <4>1. n \in 0 .. 2 /\ n <= 1
        BY <1>0, <1>6
      <4> HIDE DEF n
      <4> QED
        BY <2>1, <4>1
    <3>2. input'[c][1] = input[c][1]
      BY <3>1
    <3> QED
      BY <1>6, <3>1, <3>2
  <2>2. CASE i = n + 1
    <3>1. IsOther(input[Root], 1)
      BY <1>9, <2>2 DEF IsOther, IsCommand
    <3> QED
      BY <1>0, <1>7, <2>2, <3>1
  <2> QED
    BY <1>0, <2>1, <2>2 DEF IsOther
<1>12. \A s \in Remote \ {Root, c} : \A i \in Nat : ~IsCommand(input'[s], i)
  <2>1. IsCommand(input[Root], Len(input[Root]))
    BY DEF Flow
  <2> QED
    BY <1>0, <2>1 DEF Flow
<1>13. \A s \in Remote : \A i \in Nat : IsCommand(input'[s], i) => i = Len(input'[s])
  BY <1>3, <1>10, <1>12
<1>14. \A s \in Remote : \A i \in Nat : IsOther(input'[s], i) => i = 1
  BY <1>4, <1>11 DEF Flow
<1>15. \A s, t \in Remote : \A i, j \in Nat : IsCommand(input'[s], i) /\ IsCommand(input'[t], j) => s = t
  <2>1. \A i, j \in Nat : ~(IsCommand(input'[Root], i) /\ IsCommand(input'[c], j))
    BY <1>3, <1>8, <1>10 DEF IsCommand
  <2> QED
    BY <1>12, <2>1
<1>16. \A s, t \in Remote : IsOther(input'[s], 1) /\ IsOther(input'[t], 1) => s = t
  <2>1. \A s \in Remote \ {Root, c} : IsOther(input'[s], 1) => IsOther(input[s], 1)
    OBVIOUS
  <2>2. \A s \in Remote \ {Root, c} : ~(IsOther(input'[s], 1) /\ IsOther(input'[c], 1))
    BY <1>0, <1>11, <2>1 DEF Flow
  <2>3. \A s, t \in Remote \ {Root, c} : IsOther(input'[s], 1) /\ IsOther(input'[t], 1) => s = t
    BY <2>1 DEF Flow
  <2> QED
    BY <1>4, <2>2, <2>3
<1>17. input'[Root] # <<>> => IsCommand(input'[Root], Len(input'[Root]))
  <2>1. input'[Root] # <<>> => Len(input'[Root]) # 0 /\ Len(input'[Root]) \in Nat
    BY <1>0, EmptyLen DEF InputTaken
  <2>2. Len(input'[Root]) \in Nat /\ Len(input'[Root]) # 0 =>
          Len(input'[Root]) = 1 /\ Len(input[Root]) = 2 /\ input'[Root][1] = input[Root][2]
    BY <1>1
  <2> QED
    BY <1>2, <2>1, <2>2 DEF IsCommand
<1>18. \A i \in 1 .. Len(input'[Root]) : input'[Root][i].remote_id = input'[Root][1].remote_id
  BY <1>1
<1>19. \A s \in Remote \ {Root} : \A i \in 1 .. Len(input'[s]) : input'[s][i].remote_id = Root
  <2>1. \A i \in 1 .. Len(input'[c]) : i \in 1 .. n \/ i = n + 1
    BY <1>0
  <2>2. \A i \in 1 .. Len(input'[c]) : input'[c][i].remote_id = Root
    BY <2>1 DEF Flow
  <2> QED
    BY <2>2 DEF Flow
<1>20. \A s \in Remote \ {Root} : IsOther(input'[s], Len(input'[s])) =>
          input'[Root] # <<>> /\ input'[Root][1].remote_id = s
  <2> SUFFICES ASSUME NEW s \in Remote \ {Root}, IsOther(input'[s], Len(input'[s]))
               PROVE  input'[Root] # <<>> /\ input'[Root][1].remote_id = s
    OBVIOUS
  <2>1. s = c
    <3>1. s # c => IsOther(input[s], Len(input[s]))
      OBVIOUS
    <3> QED
      BY <3>1 DEF Flow
  <2>2. Len(input'[c]) = 1
    BY <1>0, <1>11, <2>1
  <2>3. IsOther(input[Root], 1)
    BY <1>0, <1>11, <2>1, <2>2
  <2>4. Len(input[Root]) = 2
    <3>1. IsCommand(input[Root], Len(input[Root]))
      BY DEF Flow
    <3> QED
      BY <1>0, <2>3, <3>1 DEF IsOther, IsCommand
  <2>5. Len(input'[Root]) = 1 /\ input'[Root][1] = input[Root][2]
    BY <2>4 DEF InputTaken
  <2>6. input[Root][2].remote_id = c
    BY <1>0, <2>4 DEF Flow
  <2> QED
    BY <1>0, <2>1, <2>5, <2>6, EmptyLen DEF InputTaken
<1>21. Flow'
  BY <1>13, <1>14, <1>15, <1>16, <1>17, <1>18, <1>19, <1>20 DEF Flow
<1>22. \A s \in Remote : \A i \in Nat : IsCommand(input'[s], i) =>
          \E t \in Remote : \E j \in Nat :
             IsCommand(input[t], j) /\ input'[s][i].message = input[t][j].message
  <2>1. \A i \in Nat : IsCommand(input'[Root], i) =>
          IsCommand(input[Root], 2) /\ input'[Root][i].message = input[Root][2].message
    BY <1>3
  <2> QED
    BY <1>0, <1>10, <1>12, <2>1
<1>23. \A s \in Remote : IsBegin(input'[s]) =>
          \E t \in Remote : IsBegin(input[t]) /\ input'[s][1].message = input[t][1].message
  <2>1. \A s \in Remote \ {Root, c} : IsBegin(input'[s]) => IsBegin(input[s])
    OBVIOUS
  <2>2. IsBegin(input'[c]) =>
          \/ IsBegin(input[c]) /\ input'[c][1] = input[c][1]
          \/ IsBegin(input[Root]) /\ input'[c][1] = [remote_id |-> Root, message |-> first.message]
    BY <1>11 DEF IsBegin
  <2> QED
    BY <1>0, <1>4, <2>1, <2>2 DEF IsBegin
<1>24. IsCommand(input[Root], 1) => input'[Root] = <<>>
  <2>1. input'[Root] # <<>> => Len(input[Root]) = 2
    BY <1>1, <1>17 DEF IsCommand
  <2> DEFINE k == Len(input[Root])
  <2>2. (IsCommand(input[Root], 1) => k = 1) /\ (input'[Root] # <<>> => k = 2)
    BY <1>8, <2>1
  <2> HIDE DEF k
  <2> QED
    BY <2>2
<1>25. IsBegin(input'[c]) =>
          \/ IsBegin(input[c]) /\ input'[c][1] = input[c][1]
          \/ IsBegin(input[Root]) /\ input'[c][1] = [remote_id |-> Root, message |-> first.message]
  BY <1>11 DEF IsBegin
<1> QED
  BY <1>4, <1>11, <1>21, <1>22, <1>23, <1>24, <1>25 DEF InputsFrom

-----------------------------------------------------------------------------
(* Responses on their way. *)

\* One more response in the output of r.
Adds(r, m) ==
    /\ output' \in [Remote -> Seq(Answered)]
    /\ Len(output'[r]) = Len(output[r]) + 1
    /\ \A i \in 1 .. Len(output[r]) : output'[r][i] = output[r][i]
    /\ output'[r][Len(output[r]) + 1] = m
    /\ \A s \in Remote \ {r} : output'[s] = output[s]

\* The first response of r is gone.
Drops(r) ==
    /\ output' \in [Remote -> Seq(Answered)]
    /\ Len(output'[r]) = Len(output[r]) - 1
    /\ \A i \in 1 .. Len(output[r]) - 1 : output'[r][i] = output[r][i + 1]
    /\ \A s \in Remote \ {r} : output'[s] = output[s]

\* The first response of c goes to the end of r's.
Moves(r, c) ==
    /\ output' \in [Remote -> Seq(Answered)]
    /\ Len(output'[c]) = Len(output[c]) - 1
    /\ \A i \in 1 .. Len(output[c]) - 1 : output'[c][i] = output[c][i + 1]
    /\ Len(output'[r]) = Len(output[r]) + 1
    /\ \A i \in 1 .. Len(output[r]) : output'[r][i] = output[r][i]
    /\ output'[r][Len(output[r]) + 1] = Stamp(output[c][1], c)
    /\ \A s \in Remote \ {r, c} : output'[s] = output[s]

LEMMA RespondsAdds ==
    ASSUME Types, NEW r \in Remote, NEW m \in Messages, Responds(r, m)
    PROVE  Adds(r, [remote_id |-> Root, from |-> r, message |-> m])
<1> DEFINE x == [remote_id |-> 0, from |-> r, message |-> m]
<1>1. x = [remote_id |-> Root, from |-> r, message |-> m] /\ x \in Answered
  BY RootIsRemote DEF Answered, Root
<1>2. output \in [Remote -> Seq(Answered)] /\ output' = [output EXCEPT ![r] = Append(@, x)]
  BY DEF Types, Responds
<1> HIDE DEF x
<1>3. Append(output[r], x) \in Seq(Answered) /\ output'[r] = Append(output[r], x)
  BY <1>1, <1>2
<1>4. output' \in [Remote -> Seq(Answered)] /\ \A s \in Remote \ {r} : output'[s] = output[s]
  BY <1>2, <1>3
<1>5. /\ Len(output'[r]) = Len(output[r]) + 1
      /\ \A i \in 1 .. Len(output[r]) : output'[r][i] = output[r][i]
      /\ output'[r][Len(output[r]) + 1] = x
  BY <1>1, <1>2, <1>3, AppendIndex
<1> QED
  BY <1>1, <1>4, <1>5 DEF Adds

LEMMA ReceivesDrops ==
    ASSUME Types, NEW r \in Remote, output[r] # <<>>, output' = [output EXCEPT ![r] = Tail(@)]
    PROVE  Drops(r) /\ Head(output[r]) = output[r][1] /\ 1 \in 1 .. Len(output[r]) /\ output[r][1] \in Answered
<1>1. output \in [Remote -> Seq(Answered)] /\ output[r] \in Seq(Answered)
  BY DEF Types
<1>2. Tail(output[r]) \in Seq(Answered) /\ output'[r] = Tail(output[r])
  BY <1>1, TailIndex
<1>3. output' \in [Remote -> Seq(Answered)] /\ \A s \in Remote \ {r} : output'[s] = output[s]
  BY <1>1, <1>2
<1>4. /\ Len(Tail(output[r])) = Len(output[r]) - 1
      /\ \A i \in 1 .. Len(output[r]) - 1 : Tail(output[r])[i] = output[r][i + 1]
      /\ Head(output[r]) = output[r][1] /\ output[r][1] \in Answered
      /\ Len(output[r]) \in Nat \ {0}
  BY <1>1, TailIndex
<1>5. 1 \in 1 .. Len(output[r])
  BY <1>4
<1> QED
  BY <1>2, <1>3, <1>4, <1>5 DEF Drops

LEMMA RelayMoves ==
    ASSUME Types, NEW r \in Remote, NEW c \in Remote \ {r}, output[c] # <<>>,
           output' = [output EXCEPT ![c] = Tail(@), ![r] = Append(@, Stamp(Head(output[c]), c))]
    PROVE  Moves(r, c) /\ output[c][1] \in Answered /\ 1 \in 1 .. Len(output[c])
<1> DEFINE x == Stamp(Head(output[c]), c)
<1>1. /\ output \in [Remote -> Seq(Answered)]
      /\ output[r] \in Seq(Answered) /\ output[c] \in Seq(Answered)
  BY DEF Types
<1>2. /\ Tail(output[c]) \in Seq(Answered)
      /\ Len(Tail(output[c])) = Len(output[c]) - 1
      /\ \A i \in 1 .. Len(output[c]) - 1 : Tail(output[c])[i] = output[c][i + 1]
      /\ Head(output[c]) = output[c][1] /\ output[c][1] \in Answered
      /\ Len(output[c]) \in Nat \ {0}
  BY <1>1, TailIndex
<1>3. x = Stamp(output[c][1], c) /\ x \in Answered
  BY <1>2 DEF Stamp, Answered
<1> HIDE DEF x
<1>4. Append(output[r], x) \in Seq(Answered)
  BY <1>1, <1>3
<1>5. /\ output'[c] = Tail(output[c]) /\ output'[r] = Append(output[r], x)
      /\ \A s \in Remote \ {r, c} : output'[s] = output[s]
  BY <1>1 DEF x
<1>6. output' \in [Remote -> Seq(Answered)]
  BY <1>1, <1>2, <1>4 DEF x
<1>7. /\ Len(Append(output[r], x)) = Len(output[r]) + 1
      /\ \A i \in 1 .. Len(output[r]) : Append(output[r], x)[i] = output[r][i]
      /\ Append(output[r], x)[Len(output[r]) + 1] = x
  BY <1>1, <1>3, AppendIndex
<1>8. 1 \in 1 .. Len(output[c])
  BY <1>2
<1> QED
  BY <1>2, <1>3, <1>5, <1>6, <1>7, <1>8 DEF Moves

LEMMA OutputLen == ASSUME Types, NEW r \in Remote PROVE Len(output[r]) \in Nat
  BY EmptyLen DEF Types

LEMMA TokensAdded ==
    ASSUME Types, NEW r \in Remote, NEW m, Adds(r, m), NEW type
    PROVE  /\ \A s \in Remote : \A i \in Nat : Out(output'[s], i, type) =>
                \/ Out(output[s], i, type) /\ output'[s][i] = output[s][i]
                \/ s = r /\ i = Len(output[r]) + 1 /\ m.message.type = type /\ output'[s][i] = m
           /\ None(type) => Unique(type)'
           /\ m.message.type # type /\ Unique(type) => Unique(type)'
           /\ m.message.type # type /\ None(type) => None(type)'
<1> DEFINE n == Len(output[r])
<1>1. n \in Nat
  BY OutputLen
<1>2. \A i \in Nat : i \in 1 .. Len(output'[r]) => i \in 1 .. n \/ i = n + 1
  BY <1>1 DEF Adds
<1> HIDE DEF n
<1>3. ASSUME NEW i \in Nat, Out(output'[r], i, type)
      PROVE  \/ Out(output[r], i, type) /\ output'[r][i] = output[r][i]
             \/ i = n + 1 /\ m.message.type = type /\ output'[r][i] = m
  <2>1. CASE i \in 1 .. n
    BY <1>3, <2>1 DEF Out, Adds, n
  <2>2. CASE i = n + 1
    BY <1>3, <2>2 DEF Out, Adds, n
  <2> QED
    BY <1>2, <1>3, <2>1, <2>2 DEF Out
<1>4. \A s \in Remote : \A i \in Nat : Out(output'[s], i, type) =>
         \/ Out(output[s], i, type) /\ output'[s][i] = output[s][i]
         \/ s = r /\ i = n + 1 /\ m.message.type = type /\ output'[s][i] = m
  BY <1>3 DEF Adds
<1>5. m.message.type # type /\ Unique(type) => Unique(type)'
  BY <1>4 DEF Unique
<1>6. None(type) => Unique(type)'
  BY <1>4 DEF Unique, None
<1>7. m.message.type # type /\ None(type) => None(type)'
  BY <1>4 DEF None
<1> QED
  BY <1>4, <1>5, <1>6, <1>7 DEF n

LEMMA TokensDropped ==
    ASSUME Types, NEW r \in Remote, Drops(r), output[r] # <<>>, NEW type
    PROVE  /\ \A s \in Remote : \A i \in Nat : Out(output'[s], i, type) =>
                \E j \in Nat : Out(output[s], j, type) /\ output'[s][i] = output[s][j]
           /\ Unique(type) => Unique(type)'
           /\ None(type) => None(type)'
           /\ Unique(type) /\ output[r][1].message.type = type => None(type)'
<1> DEFINE n == Len(output[r])
           Place(s, i) == IF s = r THEN i + 1 ELSE i
<1>1. n \in Nat
  BY OutputLen
<1>2. n # 0
  <2>1. output[r] \in Seq(Answered)
    BY DEF Types
  <2> QED
    BY <2>1, EmptyLen
<1> HIDE DEF n
<1>3. \A i \in Nat : i \in 1 .. n - 1 => i + 1 \in 1 .. n /\ i + 1 # 1
  BY <1>1
<1>4. \A i \in Nat : Out(output'[r], i, type) =>
         Out(output[r], i + 1, type) /\ output'[r][i] = output[r][i + 1] /\ i + 1 # 1
  BY <1>3 DEF Out, Drops, n
<1>5. \A s \in Remote : \A i \in Nat : Out(output'[s], i, type) =>
         /\ Place(s, i) \in Nat /\ Out(output[s], Place(s, i), type)
         /\ output'[s][i] = output[s][Place(s, i)]
         /\ s = r => Place(s, i) # 1
  BY <1>4 DEF Drops
<1>6. Unique(type) => Unique(type)'
  <2> SUFFICES ASSUME Unique(type), NEW s \in Remote, NEW t \in Remote, NEW i \in Nat, NEW j \in Nat,
                      Out(output'[s], i, type), Out(output'[t], j, type)
               PROVE  s = t /\ i = j
    BY DEF Unique
  <2>1. s = t /\ Place(s, i) = Place(t, j)
    BY <1>5 DEF Unique
  <2> QED
    BY <2>1
<1>7. None(type) => None(type)'
  BY <1>5 DEF None
<1>8. ASSUME Unique(type), output[r][1].message.type = type PROVE None(type)'
  <2>1. Out(output[r], 1, type)
    BY <1>1, <1>2, <1>8 DEF Out, n
  <2> SUFFICES ASSUME NEW s \in Remote, NEW i \in Nat, Out(output'[s], i, type) PROVE FALSE
    BY DEF None
  <2>2. s = r /\ Place(s, i) = 1
    BY <1>5, <1>8, <2>1 DEF Unique
  <2> QED
    BY <1>5, <2>2
<1>9. \A s \in Remote : \A i \in Nat : Out(output'[s], i, type) =>
         \E j \in Nat : Out(output[s], j, type) /\ output'[s][i] = output[s][j]
  BY <1>5
<1> QED
  BY <1>6, <1>7, <1>8, <1>9

LEMMA TokensMoved ==
    ASSUME Types, NEW r \in Remote, NEW c \in Remote \ {r}, Moves(r, c), output[c] # <<>>, NEW type,
           output[c][1] \in Answered
    PROVE  /\ \A s \in Remote : \A i \in Nat : Out(output'[s], i, type) =>
                \E t \in Remote : \E j \in Nat :
                   /\ Out(output[t], j, type)
                   /\ output'[s][i].message = output[t][j].message
                   /\ output'[s][i].from = output[t][j].from
           /\ Unique(type) => Unique(type)'
           /\ None(type) => None(type)'
<1> DEFINE n == Len(output[r])
           k == Len(output[c])
           Queue(s, i) == IF s = r /\ i = n + 1 THEN c ELSE s
           Place(s, i) == IF s = r /\ i = n + 1 THEN 1 ELSE IF s = c THEN i + 1 ELSE i
<1>1. n \in Nat /\ k \in Nat
  BY OutputLen
<1>2. k # 0
  <2>1. output[c] \in Seq(Answered)
    BY DEF Types
  <2> QED
    BY <2>1, EmptyLen
<1>3. Stamp(output[c][1], c).message = output[c][1].message /\ Stamp(output[c][1], c).from = output[c][1].from
  BY DEF Stamp, Answered
<1> HIDE DEF n, k
<1>4. \A i \in Nat : /\ i \in 1 .. k - 1 => i + 1 \in 1 .. k /\ i + 1 # 1
                     /\ i \in 1 .. n + 1 => i \in 1 .. n \/ i = n + 1
  BY <1>1
<1>5. \A i \in Nat : Out(output'[c], i, type) =>
         Out(output[c], i + 1, type) /\ output'[c][i] = output[c][i + 1] /\ i + 1 # 1
  BY <1>4 DEF Out, Moves, k
<1>6. Out(output'[r], n + 1, type) =>
         /\ Out(output[c], 1, type)
         /\ output'[r][n + 1].message = output[c][1].message
         /\ output'[r][n + 1].from = output[c][1].from
  <2>1. 1 \in 1 .. k
    BY <1>1, <1>2
  <2> QED
    BY <1>3, <2>1 DEF Out, Moves, n, k
<1>7. \A i \in Nat : Out(output'[r], i, type) /\ i # n + 1 =>
         Out(output[r], i, type) /\ output'[r][i] = output[r][i]
  BY <1>4 DEF Out, Moves, n
<1>8. \A s \in Remote : \A i \in Nat : Out(output'[s], i, type) =>
         /\ Queue(s, i) \in Remote /\ Place(s, i) \in Nat
         /\ Out(output[Queue(s, i)], Place(s, i), type)
         /\ output'[s][i].message = output[Queue(s, i)][Place(s, i)].message
         /\ output'[s][i].from = output[Queue(s, i)][Place(s, i)].from
         /\ s = c => Place(s, i) # 1
  <2> SUFFICES ASSUME NEW s \in Remote, NEW i \in Nat, Out(output'[s], i, type)
               PROVE  /\ Queue(s, i) \in Remote /\ Place(s, i) \in Nat
                      /\ Out(output[Queue(s, i)], Place(s, i), type)
                      /\ output'[s][i].message = output[Queue(s, i)][Place(s, i)].message
                      /\ output'[s][i].from = output[Queue(s, i)][Place(s, i)].from
                      /\ s = c => Place(s, i) # 1
    OBVIOUS
  <2>1. CASE s = r /\ i = n + 1
    BY <1>6, <2>1
  <2>2. CASE s = r /\ i # n + 1
    BY <1>7, <2>2
  <2>3. CASE s = c
    BY <1>5, <2>3
  <2>4. CASE s \notin {r, c}
    BY <2>4 DEF Moves
  <2> QED
    BY <2>1, <2>2, <2>3, <2>4
<1>9. Unique(type) => Unique(type)'
  <2> SUFFICES ASSUME Unique(type), NEW s \in Remote, NEW t \in Remote, NEW i \in Nat, NEW j \in Nat,
                      Out(output'[s], i, type), Out(output'[t], j, type)
               PROVE  s = t /\ i = j
    BY DEF Unique
  <2>1. Queue(s, i) = Queue(t, j) /\ Place(s, i) = Place(t, j)
    BY <1>8 DEF Unique
  <2>2. (s = c => Place(s, i) # 1) /\ (t = c => Place(t, j) # 1)
    BY <1>8
  <2> QED
    BY <2>1, <2>2
<1>10. None(type) => None(type)'
  BY <1>8 DEF None
<1>11. \A s \in Remote : \A i \in Nat : Out(output'[s], i, type) =>
          \E t \in Remote : \E j \in Nat :
             /\ Out(output[t], j, type)
             /\ output'[s][i].message = output[t][j].message
             /\ output'[s][i].from = output[t][j].from
  BY <1>8
<1> QED
  BY <1>9, <1>10, <1>11

-----------------------------------------------------------------------------
(* The main thread of a backend takes a request for itself. *)

LEMMA FirstRequest ==
    ASSUME Types, NEW r \in Remote, input[r] # <<>>
    PROVE  /\ Head(input[r]) = input[r][1] /\ 1 \in 1 .. Len(input[r])
           /\ input[r][1].remote_id \in Remote
           /\ \/ IsCommand(input[r], 1) /\ ~IsOther(input[r], 1) /\ input[r][1].message \in CommandMessage
              \/ IsOther(input[r], 1) /\ ~IsCommand(input[r], 1) /\ input[r][1].message \in RemoteMessage
<1>1. input[r] \in Seq(Request)
  BY DEF Types
<1>2. Head(input[r]) = input[r][1] /\ input[r][1] \in Request /\ Len(input[r]) \in Nat \ {0}
  BY <1>1, TailIndex
<1>3. 1 \in 1 .. Len(input[r])
  BY <1>2
<1>4. /\ input[r][1].remote_id \in Remote
      /\ input[r][1].message \in CommandMessage \/ input[r][1].message \in RemoteMessage
  BY <1>2 DEF Request
<1>5. input[r][1].message \in CommandMessage => input[r][1].message.type = "Command"
  BY DEF CommandMessage
<1>6. input[r][1].message \in RemoteMessage => input[r][1].message.type # "Command"
  BY DEF RemoteMessage
<1> QED
  BY <1>2, <1>3, <1>4, <1>5, <1>6 DEF IsCommand, IsOther

\* What remains of the inputs after it.
TookIts(r) ==
    /\ input' \in [Remote -> Seq(Request)]
    /\ Flow' /\ InputsFrom
    /\ \A i \in Nat : ~IsOther(input'[r], i)
    /\ \A s \in Remote \ {r} : input'[s] = input[s]
    /\ IsCommand(input[r], 1) =>
          input'[r] = <<>> /\ \A s \in Remote : \A i \in Nat : ~IsCommand(input'[s], i)
    /\ IsOther(input[r], 1) => \A s \in Remote : \A i \in Nat : ~IsOther(input'[s], i)
    /\ IsOther(input[Root], 1) => input'[Root] # <<>>
    /\ input'[Root] # <<>> =>
          input[Root] # <<>> /\ input'[Root][1].remote_id = input[Root][1].remote_id

LEMMA TakesItsFirst ==
    ASSUME Types, Flow, NEW r \in Remote, input[r] # <<>>, ForItself(r), Taken(r)
    PROVE  TookIts(r)
<1>1. InputTaken(r) /\ \A s \in Remote \ {r} : input'[s] = input[s]
  BY TakesHead
<1>2. input[r][1].remote_id = Root
  BY FirstRequest DEF ForItself, Root
<1>3. /\ Flow' /\ InputsFrom
      /\ \A i \in Nat : ~IsOther(input'[r], i)
      /\ IsCommand(input[r], 1) => \A s \in Remote : \A i \in Nat : ~IsCommand(input'[s], i)
      /\ IsOther(input[r], 1) => \A s \in Remote : \A i \in Nat : ~IsOther(input'[s], i)
  BY <1>1, <1>2, FlowOfTaken
<1>4. input' \in [Remote -> Seq(Request)]
  BY <1>1 DEF InputTaken
<1>5. IsCommand(input[r], 1) => input'[r] = <<>>
  <2>1. IsCommand(input[r], 1) => Len(input[r]) = 1
    BY DEF Flow
  <2>2. IsCommand(input[r], 1) => Len(input'[r]) = 0
    BY <1>1, <2>1 DEF InputTaken
  <2> QED
    BY <1>4, <2>2, EmptyLen
<1>6. ASSUME r = Root
      PROVE  /\ IsOther(input[Root], 1) => input'[Root] # <<>>
             /\ input'[Root] # <<>> => input'[Root][1].remote_id = input[Root][1].remote_id
  <2> DEFINE k == Len(input[Root])
             l == Len(input'[Root])
  <2>1. k \in Nat /\ l = k - 1 /\ (input'[Root] = <<>> <=> l = 0) /\ k # 0 /\ l \in Nat
    BY <1>1, <1>4, <1>6, EmptyLen DEF InputTaken, Types
  <2>2. k # 1 => input'[Root][1] = input[Root][2] /\ 2 \in 1 .. k
    <3>1. k # 1 => 1 \in 1 .. k - 1 /\ 2 \in 1 .. k
      <4> HIDE DEF k, l
      <4> QED
        BY <2>1
    <3> QED
      BY <1>1, <1>6, <3>1 DEF InputTaken
  <2>3. IsOther(input[Root], 1) => k # 1
    BY <1>6 DEF Flow, IsCommand, IsOther
  <2>4. 2 \in 1 .. k => input[Root][2].remote_id = input[Root][1].remote_id
    BY DEF Flow
  <2> HIDE DEF k, l
  <2> QED
    BY <2>1, <2>2, <2>3, <2>4
<1>7. ASSUME r # Root
      PROVE  /\ IsOther(input[Root], 1) => input'[Root] # <<>>
             /\ input'[Root] # <<>> => input'[Root][1].remote_id = input[Root][1].remote_id
  <2>1. input'[Root] = input[Root]
    BY <1>1, <1>7, RootIsRemote
  <2>2. IsOther(input[Root], 1) => input[Root] # <<>>
    BY DEF IsOther
  <2> QED
    BY <2>1, <2>2
<1>8. input'[Root] # <<>> => input[Root] # <<>>
  BY <1>1, RootIsRemote
<1> QED
  BY <1>1, <1>3, <1>4, <1>5, <1>6, <1>7, <1>8 DEF TookIts

\* What is left of the inputs leaves the places of the command and of the new remote as they were.
LEMMA LeftCommand ==
    ASSUME OneCommand, InputsFrom, UNCHANGED <<output, running, waiting_for>>
    PROVE  OneCommand'
<1>1. None("CommandDone")' = None("CommandDone") /\ Unique("CommandDone")' = Unique("CommandDone")
      /\ NoneRuns' = NoneRuns
  BY DEF None, Unique, NoneRuns
<1>2. \A r \in Remote : \A i \in Nat : IsCommand(input'[r], i) =>
         input'[r][i].message.pid \in waiting_for /\ NoneRuns /\ None("CommandDone")
  BY DEF OneCommand, InputsFrom
<1> QED
  BY <1>1, <1>2 DEF OneCommand

LEMMA LeftRemote ==
    ASSUME OneRemote, InputsFrom, UNCHANGED <<output, state, waiting_for_remote>>
    PROVE  OneRemote'
<1>1. None("RemoteReady")' = None("RemoteReady") /\ Unique("RemoteReady")' = Unique("RemoteReady")
      /\ NoneStarts' = NoneStarts
  BY DEF None, Unique, NoneStarts
<1>2. \A r \in Remote : IsBegin(input'[r]) =>
         input'[r][1].message.id \in waiting_for_remote /\ NoneStarts /\ None("RemoteReady")
  BY DEF OneRemote, InputsFrom
<1> QED
  BY <1>1, <1>2 DEF OneRemote

LEMMA LeftFresh ==
    ASSUME Fresh, NEW r \in Remote, TookIts(r), UNCHANGED next_id,
           \A s \in Remote : \A x \in (relays[s] \cup starting[s])' :
              x \in relays[s] \cup starting[s] \/ (s < x /\ x < next_id)
    PROVE  Fresh'
<1>1. \A s \in Remote : IsBegin(input'[s]) => IsBegin(input[s]) /\ input'[s] = input[s]
  BY DEF TookIts, IsBegin
<1>2. \A s \in Remote : \A x \in relays'[s] \cup starting'[s] : s < x /\ x < next_id
  BY DEF Fresh
<1>3. \A s \in Remote : IsBegin(input'[s]) =>
         /\ s < input'[s][1].message.id /\ input'[s][1].remote_id < input'[s][1].message.id
         /\ input'[s][1].message.id < next_id
  BY <1>1 DEF Fresh
<1> QED
  BY <1>2, <1>3 DEF Fresh

LEMMA ShellStays ==
    ASSUME RemotesInv, UNCHANGED shellVars
    PROVE  /\ Ids' /\ Stacked' /\ ResponsesExpected'
           /\ UNCHANGED <<next_id, remotes, stack, waiting_for_remote, waiting_for, outcome>>
           /\ Nested' = Nested /\ Running' = Running /\ Above' = Above
<1>1. UNCHANGED <<next_id, remotes, stack, waiting_for_remote, waiting_for, outcome>>
  BY DEF shellVars, waitVars
<1>2. Ids /\ Stacked /\ ResponsesExpected
  BY DEF RemotesInv
<1>3. Ids'
  BY <1>1, <1>2 DEF Ids
<1>4. Stacked'
  BY <1>1, <1>2 DEF Stacked
<1>5. Nested' = Nested /\ Running' = Running /\ Above' = Above
  BY <1>1 DEF Nested, Running, Above
<1>6. ResponsesExpected'
  BY <1>1, <1>2, <1>5 DEF ResponsesExpected
<1> QED
  BY <1>1, <1>3, <1>4, <1>5, <1>6

-----------------------------------------------------------------------------
(* One step each of a backend's main thread. *)

LEMMA InvTakeCommand ==
    ASSUME RemotesInv, NEW r \in Remote, CanTake(r), ForItself(r), TakeCommand(r),
           UNCHANGED <<shellVars, output, broken>>
    PROVE  RemotesInv'
<1>0. /\ Types /\ Flow /\ OneCommand /\ OneRemote /\ Fresh /\ Stamped /\ Stuck /\ Flat /\ Connected
      /\ UNCHANGED <<state, starting, subbackends, relays, output, broken>>
  BY DEF RemotesInv, TakeCommand
<1>1. input[r] # <<>> /\ starting[r] = {} /\ Taken(r)
  BY DEF CanTake, TakeCommand
<1>2. TookIts(r)
  BY <1>0, <1>1, TakesItsFirst
<1>3. /\ UNCHANGED <<next_id, remotes, stack, waiting_for_remote, waiting_for, outcome>>
      /\ Nested' = Nested /\ Running' = Running /\ Above' = Above
      /\ Ids' /\ Stacked' /\ ResponsesExpected'
  BY ShellStays
<1>4. /\ IsCommand(input[r], 1) /\ ~IsOther(input[r], 1)
      /\ running' = [running EXCEPT ![r] = @ \cup {input[r][1].message.pid}]
      /\ input[r][1].message.pid \in Remote
  <2>1. Head(input[r]).message.type = "Command"
    BY DEF TakeCommand
  <2>2. /\ IsCommand(input[r], 1) /\ ~IsOther(input[r], 1)
        /\ input[r][1].message \in CommandMessage /\ Head(input[r]) = input[r][1]
    BY <1>0, <1>1, <2>1, FirstRequest DEF IsOther
  <2> QED
    BY <2>2 DEF TakeCommand, CommandMessage
<1>5. Types'
  <2>1. running' \in [Remote -> SUBSET Remote]
    <3> DEFINE p == input[r][1].message.pid
    <3>1. running' = [running EXCEPT ![r] = @ \cup {p}] /\ p \in Remote
      BY <1>4
    <3>2. running \in [Remote -> SUBSET Remote]
      BY <1>0 DEF Types
    <3> HIDE DEF p
    <3> QED
      BY <3>1, <3>2
  <2> QED
    BY <1>0, <1>2, <1>3, <2>1 DEF Types, TookIts
<1>6. OneCommand'
  <2> DEFINE p == input[r][1].message.pid
  <2>1. p \in waiting_for /\ NoneRuns /\ None("CommandDone")
    BY <1>0, <1>4 DEF OneCommand
  <2>2. running \in [Remote -> SUBSET Remote]
    BY <1>0 DEF Types
  <2>3. running'[r] = {p} /\ \A s \in Remote \ {r} : running'[s] = {}
    BY <1>4, <2>1, <2>2 DEF NoneRuns
  <2>4. None("CommandDone")' /\ Unique("CommandDone")'
    BY <1>0, <2>1 DEF None, Unique, OneCommand
  <2>5. \A s \in Remote : \A i \in Nat : ~IsCommand(input'[s], i)
    BY <1>2, <1>4 DEF TookIts
  <2>6. \A s \in Remote : \A i \in Nat : ~Out(output'[s], i, "CommandDone")
    BY <2>4 DEF None
  <2> HIDE DEF p
  <2>7. \A s \in Remote : \A q \in running'[s] : s = r /\ q = p
    BY <2>3
  <2> QED
    BY <1>3, <2>1, <2>3, <2>4, <2>5, <2>6, <2>7 DEF OneCommand
<1>7. OneRemote'
  BY <1>0, <1>2, <1>3, LeftRemote DEF TookIts
<1>8. Fresh'
  BY <1>0, <1>2, <1>3, LeftFresh
<1>9. Stamped'
  BY <1>0 DEF Stamped
<1>10. \A i \in Nat : \A s \in Remote : IsOther(input'[s], i) => IsOther(input[s], i) /\ input'[s] = input[s]
  BY <1>2 DEF TookIts
<1>11. Stuck'
  BY <1>0, <1>3, <1>10, RootIsRemote DEF Stuck, IsBegin
<1>12. Flat'
  BY <1>0, <1>3, <1>10, RootIsRemote DEF Flat
<1>13. Connected'
  <2> SUFFICES ASSUME Running, ~broken, ~Nested PROVE Connected'
    BY <1>0, <1>3 DEF Connected
  <2>1. IsOther(input'[Root], 1) <=> IsOther(input[Root], 1)
    BY <1>2, <1>4, <1>10, RootIsRemote DEF TookIts
  <2>2. IsBegin(input'[Root]) <=> IsBegin(input[Root])
    BY <1>2, <1>4, <1>10, RootIsRemote DEF TookIts, IsBegin
  <2>3. IsOther(input[Root], 1) => input'[Root] = input[Root]
    BY <1>10, <2>1, RootIsRemote
  <2>4. starting[Root] # {} => input'[Root] = input[Root]
    BY <1>1, <1>2, RootIsRemote DEF TookIts
  <2>5. input'[Root] # <<>> => input[Root] # <<>> /\ input'[Root][1].remote_id = input[Root][1].remote_id
    BY <1>2 DEF TookIts
  <2>6. IsBegin(input[Root]) => IsOther(input[Root], 1)
    BY DEF IsBegin
  <2> QED
    BY <1>0, <1>3, <2>1, <2>2, <2>3, <2>4, <2>5, <2>6 DEF Connected
<1> QED
  BY <1>2, <1>3, <1>5, <1>6, <1>7, <1>8, <1>9, <1>11, <1>12, <1>13 DEF RemotesInv, TookIts

LEMMA InvTakeBegin ==
    ASSUME RemotesInv, NEW r \in Remote, CanTake(r), ForItself(r), TakeBeginRemote(r),
           UNCHANGED <<shellVars, output, broken>>
    PROVE  RemotesInv'
<1> DEFINE id == input[r][1].message.id
<1>0. /\ Types /\ Flow /\ OneCommand /\ OneRemote /\ Fresh /\ Stamped /\ Stuck /\ Flat /\ Connected
      /\ UNCHANGED <<subbackends, relays, running, output, broken>>
  BY DEF RemotesInv, TakeBeginRemote
<1>1. input[r] # <<>> /\ starting[r] = {} /\ state[r] = "live" /\ Taken(r)
  BY DEF CanTake, TakeBeginRemote
<1>2. TookIts(r)
  BY <1>0, <1>1, TakesItsFirst
<1>3. /\ UNCHANGED <<next_id, remotes, stack, waiting_for_remote, waiting_for, outcome>>
      /\ Nested' = Nested /\ Running' = Running /\ Above' = Above
      /\ Ids' /\ Stacked' /\ ResponsesExpected'
  BY ShellStays
<1>4. /\ IsBegin(input[r]) /\ IsOther(input[r], 1) /\ id \in Remote
      /\ state' = [state EXCEPT ![id] = "starting"]
      /\ starting' = [starting EXCEPT ![r] = {id}]
      /\ input[r][1].remote_id = Root
  <2>1. Head(input[r]).message.type = "BeginRemote" /\ Head(input[r]).remote_id = 0
    BY DEF TakeBeginRemote, ForItself
  <2>2. Head(input[r]) = input[r][1]
    BY <1>0, <1>1, FirstRequest
  <2>3. IsOther(input[r], 1) /\ input[r][1].message \in RemoteMessage
    BY <1>0, <1>1, <2>1, <2>2, FirstRequest DEF IsCommand
  <2> QED
    BY <2>1, <2>2, <2>3 DEF TakeBeginRemote, RemoteMessage, IsBegin, Root
<1>5. r < id /\ id < next_id /\ id # Root
  BY <1>0, <1>4, RootIsRemote DEF Fresh, Root
<1>6. id \in waiting_for_remote /\ NoneStarts /\ None("RemoteReady")
  BY <1>0, <1>4 DEF OneRemote
<1>7. \A s \in Remote : \A i \in Nat : ~IsOther(input'[s], i)
  BY <1>2, <1>4 DEF TookIts
<1>8. \A s \in Remote : ~IsBegin(input'[s])
  BY <1>7 DEF IsBegin
<1> HIDE DEF id
<1>9. /\ starting'[r] = {id} /\ state'[id] = "starting"
      /\ \A s \in Remote \ {r} : starting'[s] = starting[s]
      /\ \A s \in Remote \ {id} : state'[s] = state[s]
  <2>1. starting \in [Remote -> SUBSET Remote] /\ state \in [Remote -> {"none", "starting", "live", "gone"}]
    BY <1>0 DEF Types
  <2>2. starting'[r] = {id} /\ \A s \in Remote \ {r} : starting'[s] = starting[s]
    BY <1>4, <2>1, ExceptAt
  <2>3. state'[id] = "starting" /\ \A s \in Remote \ {id} : state'[s] = state[s]
    BY <1>4, <2>1, ExceptAt
  <2> QED
    BY <2>2, <2>3
<1>10. Types'
  <2>1. /\ starting' \in [Remote -> SUBSET Remote]
        /\ state' \in [Remote -> {"none", "starting", "live", "gone"}]
    <3>1. /\ starting \in [Remote -> SUBSET Remote]
          /\ state \in [Remote -> {"none", "starting", "live", "gone"}]
      BY <1>0 DEF Types
    <3> QED
      BY <1>4, <3>1
  <2>2. \A s \in Remote : \A x, y \in starting'[s] : x = y
    <3>1. \A s \in Remote : \A x, y \in starting[s] : x = y
      BY <1>0 DEF Types
    <3> QED
      BY <1>9, <3>1
  <2> QED
    BY <1>0, <1>2, <1>3, <2>1, <2>2 DEF Types, TookIts
<1>11. OneCommand'
  BY <1>0, <1>2, <1>3, LeftCommand DEF TookIts
<1>12. OneRemote'
  <2>1. None("RemoteReady")' /\ Unique("RemoteReady")'
    BY <1>0, <1>6 DEF None, Unique, OneRemote
  <2>2. \A s \in Remote : state'[s] = "starting" => s = id
    BY <1>6, <1>9 DEF NoneStarts
  <2>3. \A s \in Remote : \A i \in Nat : ~Out(output'[s], i, "RemoteReady")
    BY <2>1 DEF None
  <2> QED
    BY <1>3, <1>6, <1>8, <2>1, <2>2, <2>3 DEF OneRemote
<1>13. Fresh'
  BY <1>0, <1>2, <1>3, <1>5, <1>9, LeftFresh
<1>14. Stamped'
  BY <1>0 DEF Stamped
<1>15. Stuck'
  <2> SUFFICES ASSUME Running, Nested PROVE Stuck'
    BY <1>3 DEF Stuck
  <2>1. PICK n \in Remote \ {Root} :
          /\ waiting_for_remote = {n} /\ n \notin relays[Root] \cup starting[Root]
          /\ IsBegin(input[Root]) => input[Root][1].remote_id # Root
    BY <1>0 DEF Stuck
  <2>2. r # Root
    BY <1>4, <2>1
  <2> QED
    BY <1>0, <1>3, <1>8, <1>9, <2>1, <2>2, RootIsRemote DEF Stuck
<1>16. ~Nested => r = Root
  BY <1>0, <1>4 DEF Flat
<1>17. Flat'
  BY <1>0, <1>3, <1>7, <1>9, <1>16, RootIsRemote DEF Flat
<1>18. Connected'
  <2> SUFFICES ASSUME Running, ~broken, ~Nested PROVE Connected'
    BY <1>0, <1>3 DEF Connected
  <2>1. Above = {id} /\ subbackends[Root] = {} /\ state[Root] = "live"
    BY <1>0, <1>4, <1>16 DEF Connected, id
  <2>2. input'[Root] # <<>> /\ input'[Root][1].remote_id = Root
    BY <1>2, <1>4, <1>16 DEF TookIts
  <2>3. state'[Root] = "live" /\ starting'[Root] = {id}
    BY <1>5, <1>9, <1>16, <2>1, RootIsRemote
  <2> QED
    BY <1>0, <1>3, <1>7, <1>8, <1>9, <1>16, <2>1, <2>2, <2>3, RootIsRemote DEF Connected
<1> QED
  BY <1>2, <1>3, <1>10, <1>11, <1>12, <1>13, <1>14, <1>15, <1>17, <1>18 DEF RemotesInv, TookIts

\* A process that ends, whatever the reason.
LEMMA InvGone ==
    ASSUME RemotesInv, NEW c \in Remote, state' = [state EXCEPT ![c] = "gone"],
           UNCHANGED <<shellVars, input, output, tableVars>>, broken' \in BOOLEAN, Connected'
    PROVE  RemotesInv'
<1>0. /\ Types /\ Flow /\ OneCommand /\ OneRemote /\ Fresh /\ Stamped /\ Stuck /\ Flat
      /\ UNCHANGED <<input, output, starting, subbackends, relays, running>>
  BY DEF RemotesInv, tableVars
<1>1. /\ UNCHANGED <<next_id, remotes, stack, waiting_for_remote, waiting_for, outcome>>
      /\ Nested' = Nested /\ Running' = Running
      /\ Ids' /\ Stacked' /\ ResponsesExpected'
  BY ShellStays
<1>2. Types'
  BY <1>0, <1>1 DEF Types
<1>3. Flow'
  BY <1>0 DEF Flow
<1>4. OneCommand'
  BY <1>0, <1>1 DEF OneCommand, NoneRuns, None, Unique
<1>5. \A s \in Remote : state'[s] = "starting" => state[s] = "starting"
  BY <1>0 DEF Types
<1>6. OneRemote'
  <2>1. None("RemoteReady")' = None("RemoteReady") /\ Unique("RemoteReady")' = Unique("RemoteReady")
    BY <1>0 DEF None, Unique
  <2>2. NoneStarts => NoneStarts'
    BY <1>5 DEF NoneStarts
  <2> QED
    BY <1>0, <1>1, <1>5, <2>1, <2>2 DEF OneRemote
<1>7. Fresh'
  BY <1>0, <1>1 DEF Fresh
<1>8. Stamped'
  BY <1>0 DEF Stamped
<1>9. Stuck'
  BY <1>0, <1>1 DEF Stuck
<1>10. Flat'
  BY <1>0, <1>1 DEF Flat
<1> QED
  BY <1>1, <1>2, <1>3, <1>4, <1>6, <1>7, <1>8, <1>9, <1>10 DEF RemotesInv

LEMMA InvPanic ==
    ASSUME RemotesInv, NEW r \in Remote, Panic(r), UNCHANGED <<shellVars, output, broken>>,
           Running /\ ~broken /\ ~Nested => FALSE
    PROVE  RemotesInv'
<1>1. /\ state' = [state EXCEPT ![r] = "gone"]
      /\ UNCHANGED <<shellVars, input, output, tableVars, broken>>
  BY DEF Panic
<1>2. broken' \in BOOLEAN
  BY <1>1 DEF RemotesInv, Types
<1>3. Connected'
  <2>1. Nested' = Nested /\ Running' = Running
    BY ShellStays
  <2> QED
    BY <1>1, <2>1 DEF Connected
<1> QED
  BY <1>1, <1>2, <1>3, InvGone

LEMMA InvTakeEnd ==
    ASSUME RemotesInv, NEW r \in Remote, CanTake(r), ForItself(r), TakeEndRemote(r),
           UNCHANGED <<shellVars, output, broken>>
    PROVE  RemotesInv'
<1> DEFINE id == input[r][1].message.id
<1>0. /\ Types /\ Flow /\ OneCommand /\ OneRemote /\ Fresh /\ Stamped /\ Stuck /\ Flat /\ Connected
      /\ UNCHANGED <<output, broken>>
  BY DEF RemotesInv
<1>1. input[r] # <<>> /\ starting[r] = {} /\ state[r] = "live"
  BY DEF CanTake
<1>2. /\ IsOther(input[r], 1) /\ ~IsBegin(input[r]) /\ id \in Remote /\ Head(input[r]) = input[r][1]
      /\ Head(input[r]).message.id = id
  <2>1. Head(input[r]).message.type = "EndRemote"
    BY DEF TakeEndRemote
  <2>2. Head(input[r]) = input[r][1]
    BY <1>0, <1>1, FirstRequest
  <2>3. IsOther(input[r], 1) /\ input[r][1].message \in RemoteMessage
    BY <1>0, <1>1, <2>1, <2>2, FirstRequest DEF IsCommand
  <2> QED
    BY <2>1, <2>2, <2>3 DEF RemoteMessage, IsBegin
<1>3. ~Nested => r = Root
  BY <1>0, <1>2 DEF Flat
<1>4. Running /\ ~broken /\ ~Nested => Above = {} /\ subbackends[Root] = {id} /\ state[Root] = "live"
  BY <1>0, <1>2, <1>3 DEF Connected
<1>5. CASE id \notin subbackends[r]
  <2>1. Panic(r)
    BY <1>2, <1>5 DEF TakeEndRemote
  <2> QED
    BY <1>3, <1>4, <1>5, <2>1, InvPanic
<1>6. CASE id \in subbackends[r]
  <2> HIDE DEF id
  <2>1. /\ Taken(r) /\ state' = [state EXCEPT ![id] = "gone"]
        /\ subbackends' = [subbackends EXCEPT ![r] = @ \ {id}]
        /\ UNCHANGED <<starting, relays, running>>
    BY <1>2, <1>6 DEF TakeEndRemote
  <2>2. TookIts(r)
    BY <1>0, <1>1, <2>1, TakesItsFirst
  <2>3. /\ UNCHANGED <<next_id, remotes, stack, waiting_for_remote, waiting_for, outcome>>
        /\ Nested' = Nested /\ Running' = Running /\ Above' = Above
        /\ Ids' /\ Stacked' /\ ResponsesExpected'
    BY ShellStays
  <2>4. \A s \in Remote : \A i \in Nat : ~IsOther(input'[s], i)
    BY <1>2, <2>2 DEF TookIts
  <2>5. \A s \in Remote : ~IsBegin(input'[s])
    BY <2>4 DEF IsBegin
  <2>6. \A s \in Remote : state'[s] = "starting" => state[s] = "starting"
    BY <1>0, <2>1 DEF Types
  <2>7. Types'
    <3>1. /\ state \in [Remote -> {"none", "starting", "live", "gone"}]
          /\ subbackends \in [Remote -> SUBSET Remote]
      BY <1>0 DEF Types
    <3>2. /\ state' \in [Remote -> {"none", "starting", "live", "gone"}]
          /\ subbackends' \in [Remote -> SUBSET Remote]
          /\ \A s \in Remote : subbackends'[s] \subseteq subbackends[s]
      BY <2>1, <3>1
    <3> QED
      BY <1>0, <2>1, <2>2, <2>3, <3>2 DEF Types, TookIts
  <2>8. OneCommand'
    BY <1>0, <2>1, <2>2, <2>3, LeftCommand DEF TookIts
  <2>9. OneRemote'
    <3>1. None("RemoteReady")' = None("RemoteReady") /\ Unique("RemoteReady")' = Unique("RemoteReady")
      BY <1>0 DEF None, Unique
    <3> QED
      BY <1>0, <2>3, <2>5, <2>6, <3>1 DEF OneRemote
  <2>10. Fresh'
    BY <1>0, <2>1, <2>2, <2>3, LeftFresh
  <2>11. Stamped'
    BY <1>0, <2>1 DEF Stamped
  <2>12. Stuck'
    BY <1>0, <2>1, <2>3, <2>5, RootIsRemote DEF Stuck
  <2>13. Flat'
    BY <1>0, <2>1, <2>3, <2>4, RootIsRemote DEF Flat
  <2>14. Connected'
    <3> SUFFICES ASSUME Running, ~broken, ~Nested PROVE Connected'
      BY <1>0, <2>3 DEF Connected
    <3>1. Above = {} /\ subbackends[Root] = {id} /\ state[Root] = "live" /\ r = Root
      BY <1>3, <1>4
    <3>2. id # Root
      <4>1. id \in relays[Root]
        BY <1>0, <3>1, RootIsRemote DEF Types
      <4> QED
        BY <1>0, <4>1, RootIsRemote DEF Fresh, Root
    <3>3. subbackends'[Root] = {} /\ state'[Root] = "live" /\ starting'[Root] = {}
      BY <1>0, <1>1, <2>1, <3>1, <3>2, RootIsRemote DEF Types
    <3>4. ~IsOther(input'[Root], 1) /\ ~IsBegin(input'[Root])
      BY <2>4, <2>5, RootIsRemote
    <3>5. input'[Root] # <<>> => input'[Root][1].remote_id = Root
      BY <1>0, <1>2, <2>2, <3>1 DEF TookIts, Flat
    <3> QED
      BY <1>0, <2>3, <3>1, <3>3, <3>4, <3>5 DEF Connected
  <2> QED
    BY <2>2, <2>3, <2>7, <2>8, <2>9, <2>10, <2>11, <2>12, <2>13, <2>14 DEF RemotesInv, TookIts
<1> QED
  BY <1>5, <1>6

LEMMA InvEndOfInput ==
    ASSUME RemotesInv, NEW r \in Remote, EndOfInput(r)
    PROVE  RemotesInv'
<1>1. /\ state' = [state EXCEPT ![r] = "gone"] /\ ~Held(r)
      /\ UNCHANGED <<shellVars, input, output, tableVars, broken>>
  BY DEF EndOfInput
<1>2. UNCHANGED <<input, starting, subbackends, broken>> /\ Types /\ Connected
  BY <1>1 DEF tableVars, RemotesInv
<1>3. Nested' = Nested /\ Running' = Running /\ Above' = Above
  BY <1>1, ShellStays
<1>4. Connected'
  <2> SUFFICES ASSUME Running, ~broken, ~Nested PROVE Connected'
    BY <1>2, <1>3 DEF Connected
  <2>1. r # Root
    BY <1>1 DEF Held
  <2>2. state[Root] = "live"
    BY <1>2 DEF Connected
  <2>3. r \notin subbackends[Root] \cup starting[Root]
    BY <1>1, <2>1, <2>2, RootIsRemote DEF Held
  <2>4. state'[Root] = "live" /\ \A c \in subbackends[Root] \cup starting[Root] : state'[c] = state[c]
    <3>1. state \in [Remote -> {"none", "starting", "live", "gone"}]
      BY <1>2 DEF Types
    <3>2. \A s \in Remote \ {r} : state'[s] = state[s]
      BY <1>1, <3>1, ExceptAt
    <3>3. subbackends[Root] \subseteq Remote /\ starting[Root] \subseteq Remote
      BY <1>2, RootIsRemote DEF Types
    <3> QED
      BY <2>1, <2>2, <2>3, <3>2, <3>3, RootIsRemote
  <2> QED
    BY <1>2, <1>3, <2>4 DEF Connected
<1>5. broken' \in BOOLEAN
  BY <1>2 DEF Types
<1> QED
  BY <1>1, <1>4, <1>5, InvGone

LEMMA InvDies ==
    ASSUME RemotesInv, NEW r \in Remote, Dies(r)
    PROVE  RemotesInv'
<1>1. /\ state' = [state EXCEPT ![r] = "gone"] /\ broken' = TRUE
      /\ UNCHANGED <<shellVars, input, output, tableVars>>
  BY DEF Dies
<1>2. Connected'
  BY <1>1 DEF Connected
<1> QED
  BY <1>1, <1>2, InvGone

LEMMA InvPassOn ==
    ASSUME RemotesInv, NEW r \in Remote, CanTake(r), ~ForItself(r), PassOn(r),
           UNCHANGED <<shellVars, output, broken>>
    PROVE  RemotesInv'
<1> DEFINE c == input[r][1].remote_id
<1>0. /\ Types /\ Flow /\ OneCommand /\ OneRemote /\ Fresh /\ Stamped /\ Stuck /\ Flat /\ Connected
      /\ UNCHANGED <<output, broken>>
  BY DEF RemotesInv
<1>1. input[r] # <<>> /\ starting[r] = {} /\ state[r] = "live"
  BY DEF CanTake
<1>2. Head(input[r]) = input[r][1] /\ 1 \in 1 .. Len(input[r]) /\ c \in Remote
  BY <1>0, <1>1, FirstRequest
<1>3. c # Root
  BY <1>2 DEF ForItself, Root
<1>4. r = Root
  BY <1>0, <1>2, <1>3 DEF Flow
<1>5. Running /\ ~broken /\ ~Nested =>
         /\ IsCommand(input[Root], 1) /\ ~IsOther(input[Root], 1)
         /\ c \in subbackends[Root] /\ state[c] = "live"
  <2>1. ~Nested => ~IsOther(input[Root], 1)
    BY <1>0, <1>3, <1>4 DEF Flat
  <2>2. IsCommand(input[Root], 1) \/ IsOther(input[Root], 1)
    BY <1>0, <1>1, <1>4, FirstRequest
  <2>3. Running /\ ~broken /\ ~Nested => c \in Above
    BY <1>0, <1>1, <1>3, <1>4 DEF Connected
  <2> QED
    BY <1>0, <1>1, <1>4, <2>1, <2>2, <2>3 DEF Connected
<1>6. CASE ~(c \in subbackends[r] /\ state[c] # "gone")
  <2>1. Panic(r)
    BY <1>2, <1>6 DEF PassOn
  <2> QED
    BY <1>4, <1>5, <1>6, <2>1, InvPanic
<1>7. CASE c \in subbackends[r] /\ state[c] # "gone"
  <2>1. /\ input' = [input EXCEPT ![r] = Tail(@), ![c] = Append(@, [input[r][1] EXCEPT !.remote_id = 0])]
        /\ UNCHANGED <<state, starting, subbackends, relays, running>>
    BY <1>2, <1>7 DEF PassOn, tableVars
  <2> HIDE DEF c
  <2>2. /\ InputTaken(Root)
        /\ Len(input'[c]) = Len(input[c]) + 1
        /\ \A i \in 1 .. Len(input[c]) : input'[c][i] = input[c][i]
        /\ input'[c][Len(input[c]) + 1] = [remote_id |-> Root, message |-> input[Root][1].message]
        /\ \A s \in Remote \ {Root, c} : input'[s] = input[s]
    <3>1. c \in Remote \ {r} /\ input[r] # <<>> /\ Types /\ input[r][1].remote_id = c
      BY <1>0, <1>1, <1>2, <1>3, <1>4 DEF c
    <3>2. input' = [input EXCEPT ![r] = Tail(@), ![c] = Append(@, [input[r][1] EXCEPT !.remote_id = 0])]
      BY <2>1
    <3>3. /\ InputTaken(r)
          /\ Len(input'[c]) = Len(input[c]) + 1
          /\ \A i \in 1 .. Len(input[c]) : input'[c][i] = input[c][i]
          /\ input'[c][Len(input[c]) + 1] = [remote_id |-> Root, message |-> input[r][1].message]
          /\ \A s \in Remote \ {r, c} : input'[s] = input[s]
      BY <3>1, <3>2, PassesHead, ZenonT(40)
    <3> QED
      BY <1>4, <3>3
  <2>3. /\ Flow' /\ InputsFrom
        /\ \A i \in Nat : ~IsOther(input'[Root], i)
        /\ \A i \in Nat : IsOther(input'[c], i) => IsOther(input[c], 1) \/ IsOther(input[Root], 1)
        /\ IsCommand(input[Root], 1) => input'[Root] = <<>>
        /\ IsBegin(input'[c]) =>
              \/ IsBegin(input[c]) /\ input'[c][1] = input[c][1]
              \/ /\ IsBegin(input[Root])
                 /\ input'[c][1] = [remote_id |-> Root, message |-> input[Root][1].message]
    <3>1. input[Root] # <<>> /\ input[Root][1].remote_id = c /\ c \in Remote \ {Root}
      BY <1>1, <1>2, <1>3, <1>4 DEF c
    <3> QED
      BY <1>0, <2>2, <3>1, FlowOfPassed
  <2>4. /\ UNCHANGED <<next_id, remotes, stack, waiting_for_remote, waiting_for, outcome>>
        /\ Nested' = Nested /\ Running' = Running /\ Above' = Above
        /\ Ids' /\ Stacked' /\ ResponsesExpected'
    BY ShellStays
  <2>5. Types'
    <3>1. input' \in [Remote -> Seq(Request)]
      BY <2>2 DEF InputTaken
    <3> QED
      BY <1>0, <2>1, <2>4, <3>1 DEF Types
  <2>6. OneCommand'
    BY <1>0, <2>1, <2>3, <2>4, LeftCommand
  <2>7. OneRemote'
    BY <1>0, <2>1, <2>3, <2>4, LeftRemote
  <2>8. ~IsBegin(input'[Root])
    BY <2>3 DEF IsBegin
  <2>9. Fresh'
    <3>1. ASSUME IsBegin(input'[c])
          PROVE  /\ c < input'[c][1].message.id /\ input'[c][1].remote_id < input'[c][1].message.id
                 /\ input'[c][1].message.id < next_id
      <4>1. CASE IsBegin(input[c]) /\ input'[c][1] = input[c][1]
        BY <1>0, <1>2, <4>1 DEF Fresh, c
      <4>2. CASE IsBegin(input[Root]) /\ input'[c][1] = [remote_id |-> Root, message |-> input[Root][1].message]
        <5>1. /\ Root < input[Root][1].message.id /\ input[Root][1].remote_id < input[Root][1].message.id
              /\ input[Root][1].message.id < next_id
          BY <1>0, <4>2, RootIsRemote DEF Fresh
        <5> QED
          BY <1>4, <4>2, <5>1 DEF c
      <4> QED
        BY <2>3, <3>1, <4>1, <4>2
    <3>2. \A s \in Remote \ {Root, c} : IsBegin(input'[s]) =>
             /\ s < input'[s][1].message.id /\ input'[s][1].remote_id < input'[s][1].message.id
             /\ input'[s][1].message.id < next_id
      BY <1>0, <2>2 DEF Fresh
    <3>3. \A s \in Remote : IsBegin(input'[s]) =>
             /\ s < input'[s][1].message.id /\ input'[s][1].remote_id < input'[s][1].message.id
             /\ input'[s][1].message.id < next_id
      BY <2>8, <3>1, <3>2
    <3>4. \A s \in Remote : \A x \in relays'[s] \cup starting'[s] : s < x /\ x < next_id
      BY <1>0, <2>1 DEF Fresh
    <3> QED
      BY <2>4, <3>3, <3>4 DEF Fresh
  <2>10. Stamped'
    BY <1>0, <2>1 DEF Stamped
  <2>11. Stuck'
    BY <1>0, <2>1, <2>4, <2>8 DEF Stuck
  <2>12. Flat'
    <3> SUFFICES ASSUME ~Nested PROVE Flat'
      BY <2>4 DEF Flat
    <3>1. ~IsOther(input[Root], 1) /\ ~IsOther(input[c], 1)
      BY <1>0, <1>2, <1>3, <1>4 DEF Flat, c
    <3>2. \A s \in Remote \ {Root} : \A i \in Nat : ~IsOther(input'[s], i)
      BY <1>0, <2>2, <2>3, <3>1 DEF Flat
    <3> QED
      BY <1>0, <2>1, <2>3, <2>4, <3>2 DEF Flat
  <2>13. Connected'
    <3> SUFFICES ASSUME Running, ~broken, ~Nested PROVE Connected'
      BY <1>0, <2>4 DEF Connected
    <3>1. IsCommand(input[Root], 1) /\ ~IsOther(input[Root], 1)
      BY <1>5
    <3>2. input'[Root] = <<>> /\ ~IsOther(input'[Root], 1) /\ ~IsBegin(input'[Root])
      BY <2>3, <2>8, <3>1
    <3> QED
      BY <1>0, <1>1, <1>4, <2>1, <2>4, <3>1, <3>2 DEF Connected
  <2> QED
    BY <2>3, <2>4, <2>5, <2>6, <2>7, <2>9, <2>10, <2>11, <2>12, <2>13 DEF RemotesInv
<1> QED
  BY <1>6, <1>7

LEMMA InvConnect ==
    ASSUME RemotesInv, NEW r \in Remote, Connect(r)
    PROVE  RemotesInv'
<1>0. /\ Types /\ Flow /\ OneCommand /\ OneRemote /\ Fresh /\ Stamped /\ Stuck /\ Flat /\ Connected
      /\ UNCHANGED <<shellVars, output, broken>> /\ state[r] = "live"
  BY DEF RemotesInv, Connect
<1>1. PICK c \in starting[r] :
          \/ /\ state[c] = "live"
             /\ subbackends' = [subbackends EXCEPT ![r] = @ \cup {c}]
             /\ relays' = [relays EXCEPT ![r] = @ \cup {c}]
             /\ starting' = [starting EXCEPT ![r] = {}]
             /\ UNCHANGED <<state, input, running>>
          \/ state[c] = "gone" /\ Panic(r)
  BY DEF Connect, WithRelay
<1>2. starting[r] = {c} /\ c \in Remote
  <2>1. starting[r] \subseteq Remote /\ \A x, y \in starting[r] : x = y
    BY <1>0 DEF Types
  <2> QED
    BY <2>1
<1>3. ~Nested => r = Root
  BY <1>0, <1>2 DEF Flat
<1>4. CASE state[c] = "gone" /\ Panic(r)
  <2>1. Running /\ ~broken /\ ~Nested => FALSE
    BY <1>0, <1>2, <1>3, <1>4 DEF Connected
  <2> QED
    BY <1>0, <1>4, <2>1, InvPanic
<1>5. CASE /\ state[c] = "live"
           /\ subbackends' = [subbackends EXCEPT ![r] = @ \cup {c}]
           /\ relays' = [relays EXCEPT ![r] = @ \cup {c}]
           /\ starting' = [starting EXCEPT ![r] = {}]
           /\ UNCHANGED <<state, input, running>>
  <2>1. /\ UNCHANGED <<next_id, remotes, stack, waiting_for_remote, waiting_for, outcome>>
        /\ Nested' = Nested /\ Running' = Running /\ Above' = Above
        /\ Ids' /\ Stacked' /\ ResponsesExpected'
    BY <1>0, ShellStays
  <2>2. /\ subbackends \in [Remote -> SUBSET Remote] /\ relays \in [Remote -> SUBSET Remote]
        /\ starting \in [Remote -> SUBSET Remote]
        /\ \A s \in Remote : subbackends[s] \subseteq relays[s]
        /\ \A s \in Remote : \A x, y \in starting[s] : x = y
    BY <1>0 DEF Types
  <2>3. /\ subbackends'[r] = subbackends[r] \cup {c} /\ relays'[r] = relays[r] \cup {c} /\ starting'[r] = {}
        /\ \A s \in Remote \ {r} : /\ subbackends'[s] = subbackends[s] /\ relays'[s] = relays[s]
                                   /\ starting'[s] = starting[s]
    BY <1>5, <2>2
  <2>4. Types'
    <3>1. /\ subbackends' \in [Remote -> SUBSET Remote] /\ relays' \in [Remote -> SUBSET Remote]
          /\ starting' \in [Remote -> SUBSET Remote]
      BY <1>2, <1>5, <2>2
    <3>2. \A s \in Remote : subbackends'[s] \subseteq relays'[s]
      BY <2>2, <2>3
    <3>3. \A s \in Remote : \A x, y \in starting'[s] : x = y
      BY <2>2, <2>3
    <3> QED
      BY <1>0, <1>5, <2>1, <3>1, <3>2, <3>3 DEF Types
  <2>5. Flow'
    BY <1>0, <1>5 DEF Flow
  <2>6. OneCommand'
    BY <1>0, <1>5, <2>1 DEF OneCommand, NoneRuns, None, Unique
  <2>7. OneRemote'
    BY <1>0, <1>5, <2>1 DEF OneRemote, NoneStarts, None, Unique
  <2>8. \A s \in Remote : relays'[s] \cup starting'[s] \subseteq relays[s] \cup starting[s]
    BY <1>2, <2>3
  <2>9. Fresh'
    BY <1>0, <1>5, <2>1, <2>8 DEF Fresh
  <2>10. \A s \in Remote : relays[s] \subseteq relays'[s]
    BY <2>3
  <2>11. Stamped'
    BY <1>0, <2>10, RootIsRemote DEF Stamped
  <2>12. Stuck'
    BY <1>0, <1>5, <2>1, <2>8, RootIsRemote DEF Stuck
  <2>13. Flat'
    BY <1>0, <1>3, <1>5, <2>1, <2>3 DEF Flat
  <2>14. Connected'
    <3> SUFFICES ASSUME Running, ~broken, ~Nested PROVE Connected'
      BY <1>0, <2>1 DEF Connected
    <3>1. /\ ~IsOther(input[Root], 1) /\ Above = {c} /\ subbackends[Root] = {} /\ state[Root] = "live"
          /\ r = Root
      BY <1>0, <1>2, <1>3 DEF Connected
    <3>2. subbackends'[Root] = {c} /\ starting'[Root] = {}
      BY <2>3, <3>1
    <3> QED
      BY <1>0, <1>5, <2>1, <3>1, <3>2 DEF Connected, IsBegin
  <2> QED
    BY <2>1, <2>4, <2>5, <2>6, <2>7, <2>9, <2>11, <2>12, <2>13, <2>14 DEF RemotesInv
<1> QED
  BY <1>1, <1>4, <1>5

-----------------------------------------------------------------------------
(* One step each of the rest of a backend. *)

LEMMA InvStart ==
    ASSUME RemotesInv, NEW r \in Remote, Start(r)
    PROVE  RemotesInv'
<1> DEFINE m == [remote_id |-> Root, from |-> r, message |-> ReadyMessage]
<1>0. /\ Types /\ Flow /\ OneCommand /\ OneRemote /\ Fresh /\ Stamped /\ Stuck /\ Flat /\ Connected
      /\ UNCHANGED <<shellVars, input, starting, subbackends, relays, running, broken>>
      /\ state[r] = "starting"
  BY DEF RemotesInv, Start, tableVars
<1>1. Adds(r, m)
  <2>1. Responds(r, ReadyMessage) /\ ReadyMessage \in Messages
    BY DEF Start, ReadyMessage, Messages
  <2> QED
    BY <1>0, <2>1, RespondsAdds
<1>2. m.message.type = "RemoteReady" /\ m.from = r /\ m.remote_id = Root
  BY DEF ReadyMessage
<1> HIDE DEF m
<1>3. /\ UNCHANGED <<next_id, remotes, stack, waiting_for_remote, waiting_for, outcome>>
      /\ Nested' = Nested /\ Running' = Running /\ Above' = Above
      /\ Ids' /\ Stacked' /\ ResponsesExpected'
  BY <1>0, ShellStays
<1>4. /\ state'[r] = "live" /\ \A s \in Remote \ {r} : state'[s] = state[s]
      /\ state' \in [Remote -> {"none", "starting", "live", "gone"}]
  <2>1. state \in [Remote -> {"none", "starting", "live", "gone"}]
    BY <1>0 DEF Types
  <2> QED
    BY <2>1 DEF Start
<1>5. Types'
  <2>1. output' \in [Remote -> Seq(Answered)]
    BY <1>1 DEF Adds
  <2> QED
    BY <1>0, <1>3, <1>4, <2>1 DEF Types
<1>6. Flow'
  BY <1>0 DEF Flow
<1>7. OneCommand'
  <2>1. /\ Unique("CommandDone")'
        /\ None("CommandDone") => None("CommandDone")'
        /\ \A s \in Remote : \A i \in Nat : Out(output'[s], i, "CommandDone") =>
              Out(output[s], i, "CommandDone") /\ output'[s][i] = output[s][i]
    BY <1>0, <1>1, <1>2, TokensAdded DEF OneCommand
  <2>2. NoneRuns' = NoneRuns
    BY <1>0 DEF NoneRuns
  <2> QED
    BY <1>0, <1>3, <2>1, <2>2 DEF OneCommand
<1>8. OneRemote'
  <2>1. r \in waiting_for_remote /\ None("RemoteReady")
    BY <1>0 DEF OneRemote
  <2>2. \A x \in waiting_for_remote : x = r
    BY <2>1 DEF RemotesInv, Ids
  <2>3. \A s \in Remote : state'[s] # "starting"
    BY <1>0, <1>4, <2>2 DEF OneRemote
  <2>4. \A s \in Remote : ~IsBegin(input'[s])
    BY <1>0 DEF OneRemote, NoneStarts
  <2>5. /\ Unique("RemoteReady")'
        /\ \A s \in Remote : \A i \in Nat : Out(output'[s], i, "RemoteReady") =>
             Out(output[s], i, "RemoteReady") \/ output'[s][i] = m
    BY <1>0, <1>1, <1>2, <2>1, TokensAdded
  <2>6. \A s \in Remote : \A i \in Nat : Out(output'[s], i, "RemoteReady") =>
             output'[s][i].from \in waiting_for_remote
    BY <1>2, <2>1, <2>5 DEF None
  <2> QED
    BY <1>3, <2>3, <2>4, <2>5, <2>6 DEF OneRemote
<1>9. Fresh'
  BY <1>0, <1>3 DEF Fresh
<1>10. \A s \in Remote : \A i \in 1 .. Len(output'[s]) :
          \/ i \in 1 .. Len(output[s]) /\ output'[s][i] = output[s][i]
          \/ s = r /\ output'[s][i] = m
  <2>1. \A i \in 1 .. Len(output'[r]) : i \in 1 .. Len(output[r]) \/ i = Len(output[r]) + 1
    BY <1>0, <1>1, OutputLen DEF Adds
  <2> QED
    BY <1>1, <2>1 DEF Adds
<1>11. Stamped'
  BY <1>0, <1>2, <1>10, RootIsRemote DEF Stamped
<1>12. Stuck'
  BY <1>0, <1>3 DEF Stuck
<1>13. Flat'
  <2> SUFFICES ASSUME ~Nested PROVE Flat'
    BY <1>3 DEF Flat
  <2>1. \A s \in Remote \ {Root} : \A i \in 1 .. Len(output'[s]) : output'[s][i].from = s
    BY <1>0, <1>2, <1>10 DEF Flat
  <2>2. \A i \in 1 .. Len(output'[Root]) : output'[Root][i].from = output'[Root][i].remote_id
    <3>1. \A i \in 1 .. Len(output[Root]) : output[Root][i].from = output[Root][i].remote_id
      BY <1>0 DEF Flat
    <3>2. r = Root => m.from = m.remote_id
      BY <1>2
    <3> QED
      BY <1>10, <3>1, <3>2, RootIsRemote
  <2> QED
    BY <1>0, <1>3, <2>1, <2>2 DEF Flat
<1>14. Connected'
  <2>1. \A s \in Remote : state[s] = "live" => state'[s] = "live"
    BY <1>4
  <2>2. \A s \in Remote : state[s] \in {"starting", "live"} => state'[s] \in {"starting", "live"}
    BY <1>4
  <2>3. Ids /\ Stacked /\ Root \in Remote /\ starting[Root] \subseteq Remote
    BY <1>0, RootIsRemote DEF RemotesInv, Types
  <2>4. Above \subseteq Remote
    BY <2>3 DEF Above, Ids, Stacked
  <2> QED
    BY <1>0, <1>3, <2>1, <2>2, <2>3, <2>4 DEF Connected
<1> QED
  BY <1>3, <1>5, <1>6, <1>7, <1>8, <1>9, <1>11, <1>12, <1>13, <1>14 DEF RemotesInv

LEMMA InvAnswer ==
    ASSUME RemotesInv, NEW r \in Remote, Answer(r)
    PROVE  RemotesInv'
<1>0. /\ Types /\ Flow /\ OneCommand /\ OneRemote /\ Fresh /\ Stamped /\ Stuck /\ Flat /\ Connected
      /\ UNCHANGED <<shellVars, input, state, starting, subbackends, relays, broken>>
  BY DEF RemotesInv, Answer
<1>1. PICK p \in running[r] :
          /\ running' = [running EXCEPT ![r] = @ \ {p}]
          /\ Responds(r, [type |-> "CommandDone", pid |-> p])
  BY DEF Answer
<1> DEFINE m == [remote_id |-> Root, from |-> r, message |-> [type |-> "CommandDone", pid |-> p]]
<1>2. running \in [Remote -> SUBSET Remote] /\ p \in Remote
  BY <1>0 DEF Types
<1>3. Adds(r, m)
  <2>1. [type |-> "CommandDone", pid |-> p] \in Messages
    BY <1>2 DEF Messages
  <2> QED
    BY <1>0, <1>1, <2>1, RespondsAdds
<1>4. m.message.type = "CommandDone" /\ m.message.pid = p /\ m.from = r /\ m.remote_id = Root
  OBVIOUS
<1> HIDE DEF m
<1>5. /\ UNCHANGED <<next_id, remotes, stack, waiting_for_remote, waiting_for, outcome>>
      /\ Nested' = Nested /\ Running' = Running /\ Above' = Above
      /\ Ids' /\ Stacked' /\ ResponsesExpected'
  BY <1>0, ShellStays
<1>6. running' \in [Remote -> SUBSET Remote]
  BY <1>1, <1>2
<1>7. Types'
  BY <1>0, <1>3, <1>5, <1>6 DEF Types, Adds
<1>8. Flow'
  BY <1>0 DEF Flow
<1>9. OneCommand'
  <2>1. /\ p \in waiting_for /\ None("CommandDone")
        /\ \A s \in Remote : running[s] # {} => s = r
    BY <1>0 DEF OneCommand
  <2>2. \A q \in running[r] : q = p
    BY <1>0, <2>1 DEF OneCommand, RemotesInv, Ids
  <2>3. \A s \in Remote : running'[s] = {}
    BY <1>1, <1>2, <2>1, <2>2
  <2>4. \A s \in Remote : \A i \in Nat : ~IsCommand(input'[s], i)
    BY <1>0 DEF OneCommand, NoneRuns
  <2>5. /\ Unique("CommandDone")'
        /\ \A s \in Remote : \A i \in Nat : Out(output'[s], i, "CommandDone") =>
             Out(output[s], i, "CommandDone") \/ output'[s][i] = m
    BY <1>0, <1>3, <1>4, <2>1, TokensAdded
  <2>6. \A s \in Remote : \A i \in Nat : Out(output'[s], i, "CommandDone") =>
             output'[s][i].message.pid \in waiting_for
    BY <1>4, <2>1, <2>5 DEF None
  <2> QED
    BY <1>5, <2>3, <2>4, <2>5, <2>6 DEF OneCommand
<1>10. OneRemote'
  <2>1. /\ Unique("RemoteReady")'
        /\ None("RemoteReady") => None("RemoteReady")'
        /\ \A s \in Remote : \A i \in Nat : Out(output'[s], i, "RemoteReady") =>
              Out(output[s], i, "RemoteReady") /\ output'[s][i] = output[s][i]
    BY <1>0, <1>3, <1>4, TokensAdded DEF OneRemote
  <2>2. NoneStarts' = NoneStarts
    BY <1>0 DEF NoneStarts
  <2> QED
    BY <1>0, <1>5, <2>1, <2>2 DEF OneRemote
<1>11. Fresh'
  BY <1>0, <1>5 DEF Fresh
<1>12. \A s \in Remote : \A i \in 1 .. Len(output'[s]) :
          \/ i \in 1 .. Len(output[s]) /\ output'[s][i] = output[s][i]
          \/ s = r /\ output'[s][i] = m
  <2>1. \A i \in 1 .. Len(output'[r]) : i \in 1 .. Len(output[r]) \/ i = Len(output[r]) + 1
    BY <1>0, <1>3, OutputLen DEF Adds
  <2> QED
    BY <1>3, <2>1 DEF Adds
<1>13. Stamped'
  BY <1>0, <1>4, <1>12, RootIsRemote DEF Stamped
<1>14. Stuck'
  BY <1>0, <1>5 DEF Stuck
<1>15. Flat'
  <2> SUFFICES ASSUME ~Nested PROVE Flat'
    BY <1>5 DEF Flat
  <2>1. \A s \in Remote \ {Root} : \A i \in 1 .. Len(output'[s]) : output'[s][i].from = s
    BY <1>0, <1>4, <1>12 DEF Flat
  <2>2. \A i \in 1 .. Len(output'[Root]) : output'[Root][i].from = output'[Root][i].remote_id
    BY <1>0, <1>4, <1>12, RootIsRemote DEF Flat
  <2> QED
    BY <1>0, <1>5, <2>1, <2>2 DEF Flat
<1>16. Connected'
  BY <1>0, <1>5 DEF Connected
<1> QED
  BY <1>5, <1>7, <1>8, <1>9, <1>10, <1>11, <1>13, <1>14, <1>15, <1>16 DEF RemotesInv

LEMMA InvRelay ==
    ASSUME RemotesInv, NEW r \in Remote, NEW c \in Remote, Relay(r, c)
    PROVE  RemotesInv'
<1>0. /\ Types /\ Flow /\ OneCommand /\ OneRemote /\ Fresh /\ Stamped /\ Stuck /\ Flat /\ Connected
      /\ UNCHANGED <<shellVars, state, input, starting, subbackends, relays, running, broken>>
      /\ c \in relays[r] /\ output[c] # <<>>
  BY DEF RemotesInv, Relay, tableVars
<1>1. c # r /\ c # Root
  <2>1. r < c /\ r \in Nat
    BY <1>0, RootIsRemote DEF Fresh
  <2> QED
    BY <2>1 DEF Root
<1>2. Moves(r, c) /\ output[c][1] \in Answered /\ 1 \in 1 .. Len(output[c])
  BY <1>0, <1>1, RelayMoves DEF Relay
<1>3. /\ UNCHANGED <<next_id, remotes, stack, waiting_for_remote, waiting_for, outcome>>
      /\ Nested' = Nested /\ Running' = Running /\ Above' = Above
      /\ Ids' /\ Stacked' /\ ResponsesExpected'
  BY <1>0, ShellStays
<1>4. Types'
  <2>1. output' \in [Remote -> Seq(Answered)]
    BY <1>2 DEF Moves
  <2> QED
    BY <1>0, <1>3, <2>1 DEF Types
<1>5. Flow'
  BY <1>0 DEF Flow
<1>6. OneCommand'
  <2>1. /\ Unique("CommandDone")'
        /\ None("CommandDone") => None("CommandDone")'
        /\ \A s \in Remote : \A i \in Nat : Out(output'[s], i, "CommandDone") =>
              \E t \in Remote : \E j \in Nat :
                 Out(output[t], j, "CommandDone") /\ output'[s][i].message = output[t][j].message
    BY <1>0, <1>1, <1>2, TokensMoved DEF OneCommand
  <2>2. NoneRuns' = NoneRuns
    BY <1>0 DEF NoneRuns
  <2>3. \A s \in Remote : \A i \in Nat : Out(output'[s], i, "CommandDone") =>
           output'[s][i].message.pid \in waiting_for
    BY <1>0, <2>1 DEF OneCommand
  <2> QED
    BY <1>0, <1>3, <2>1, <2>2, <2>3 DEF OneCommand
<1>7. OneRemote'
  <2>1. /\ Unique("RemoteReady")'
        /\ None("RemoteReady") => None("RemoteReady")'
        /\ \A s \in Remote : \A i \in Nat : Out(output'[s], i, "RemoteReady") =>
              \E t \in Remote : \E j \in Nat :
                 Out(output[t], j, "RemoteReady") /\ output'[s][i].from = output[t][j].from
    BY <1>0, <1>1, <1>2, TokensMoved DEF OneRemote
  <2>2. NoneStarts' = NoneStarts
    BY <1>0 DEF NoneStarts
  <2>3. \A s \in Remote : \A i \in Nat : Out(output'[s], i, "RemoteReady") =>
           output'[s][i].from \in waiting_for_remote
    BY <1>0, <2>1 DEF OneRemote
  <2> QED
    BY <1>0, <1>3, <2>1, <2>2, <2>3 DEF OneRemote
<1>8. Fresh'
  BY <1>0, <1>3 DEF Fresh
<1>9. \A i \in 1 .. Len(output'[r]) :
         \/ i \in 1 .. Len(output[r]) /\ output'[r][i] = output[r][i]
         \/ output'[r][i].remote_id = c /\ output'[r][i].from = output[c][1].from
  <2>1. \A i \in 1 .. Len(output'[r]) : i \in 1 .. Len(output[r]) \/ i = Len(output[r]) + 1
    BY <1>0, <1>2, OutputLen DEF Moves
  <2>2. Stamp(output[c][1], c).remote_id = c /\ Stamp(output[c][1], c).from = output[c][1].from
    BY <1>2 DEF Stamp, Answered
  <2> QED
    BY <1>2, <2>1, <2>2 DEF Moves
<1>10. Stamped'
  <2>1. r # Root => output'[Root] = output[Root]
    BY <1>1, <1>2, RootIsRemote DEF Moves
  <2> QED
    BY <1>0, <1>9, <2>1 DEF Stamped
<1>11. Stuck'
  BY <1>0, <1>3 DEF Stuck
<1>12. Flat'
  <2> SUFFICES ASSUME ~Nested PROVE Flat'
    BY <1>3 DEF Flat
  <2>1. r = Root
    BY <1>0 DEF Flat
  <2>2. output[c][1].from = c
    BY <1>0, <1>1, <1>2, <2>1 DEF Flat
  <2>3. \A i \in 1 .. Len(output'[Root]) : output'[Root][i].from = output'[Root][i].remote_id
    BY <1>0, <1>9, <2>1, <2>2 DEF Flat
  <2>4. \A i \in 1 .. Len(output'[c]) : output'[c][i].from = c
    <3>1. \A i \in 1 .. Len(output'[c]) : i + 1 \in 1 .. Len(output[c]) /\ output'[c][i] = output[c][i + 1]
      <4>1. \A i \in 1 .. Len(output[c]) - 1 : i + 1 \in 1 .. Len(output[c])
        BY <1>0, OutputLen
      <4> QED
        BY <1>2, <4>1 DEF Moves
    <3> QED
      BY <1>0, <1>1, <3>1 DEF Flat
  <2>5. \A s \in Remote \ {Root, c} : output'[s] = output[s]
    BY <1>2, <2>1 DEF Moves
  <2> QED
    BY <1>0, <1>3, <2>3, <2>4, <2>5 DEF Flat
<1>13. Connected'
  BY <1>0, <1>3 DEF Connected
<1> QED
  BY <1>3, <1>4, <1>5, <1>6, <1>7, <1>8, <1>10, <1>11, <1>12, <1>13 DEF RemotesInv

-----------------------------------------------------------------------------
(* The shell with a response. *)

LEMMA ReceivesOne ==
    ASSUME RemotesInv, NEW type, Receive(type)
    PROVE  /\ Drops(Root) /\ output[Root] # <<>> /\ Response = output[Root][1] /\ output[Root][1] \in Answered
           /\ Out(output[Root], 1, type) /\ 1 \in 1 .. Len(output[Root]) /\ Running
           /\ UNCHANGED <<next_id, remotes, state, input, starting, subbackends, relays, running, broken>>
<1>1. /\ Types /\ Running /\ output[Root] # <<>> /\ Response.message.type = type
      /\ output' = [output EXCEPT ![Root] = Tail(@)]
      /\ UNCHANGED <<next_id, remotes, state, input, starting, subbackends, relays, running, broken>>
  BY DEF RemotesInv, Receive, tableVars
<1>2. Drops(Root) /\ Head(output[Root]) = output[Root][1] /\ 1 \in 1 .. Len(output[Root])
      /\ output[Root][1] \in Answered
  BY <1>1, ReceivesDrops, RootIsRemote
<1> QED
  BY <1>1, <1>2 DEF Out, Response

\* What a response of the root's leaves behind.
LEMMA RestOfOutput ==
    ASSUME Types, Drops(Root), output[Root] # <<>>
    PROVE  \A i \in 1 .. Len(output'[Root]) :
              i + 1 \in 1 .. Len(output[Root]) /\ output'[Root][i] = output[Root][i + 1]
<1>1. Len(output[Root]) \in Nat
  BY OutputLen, RootIsRemote
<1>2. \A i \in 1 .. Len(output[Root]) - 1 : i + 1 \in 1 .. Len(output[Root])
  BY <1>1
<1> QED
  BY <1>2 DEF Drops

LEMMA InvReceiveRemoteReady ==
    ASSUME RemotesInv, ReceiveRemoteReady
    PROVE  RemotesInv'
<1>0. /\ Types /\ Ids /\ Stacked /\ Flow /\ OneCommand /\ OneRemote /\ Fresh /\ Stamped /\ Stuck /\ Flat
      /\ Connected /\ ResponsesExpected
  BY DEF RemotesInv
<1>1. /\ Drops(Root) /\ output[Root] # <<>> /\ Response = output[Root][1] /\ output[Root][1] \in Answered
      /\ Out(output[Root], 1, "RemoteReady") /\ 1 \in 1 .. Len(output[Root]) /\ Running
      /\ UNCHANGED <<next_id, remotes, state, input, starting, subbackends, relays, running, broken>>
      /\ UNCHANGED waiting_for
  BY ReceivesOne DEF ReceiveRemoteReady
<1> DEFINE x == output[Root][1].remote_id
<1>2. x \in Remote /\ output[Root][1].from \in waiting_for_remote
  BY <1>0, <1>1, RootIsRemote DEF OneRemote, Answered
<1>3. /\ None("RemoteReady")' /\ Unique("RemoteReady")'
      /\ Unique("CommandDone")' /\ (None("CommandDone") => None("CommandDone")')
      /\ \A s \in Remote : \A i \in Nat : Out(output'[s], i, "CommandDone") =>
            \E j \in Nat : Out(output[s], j, "CommandDone") /\ output'[s][i] = output[s][j]
  <2>1. Unique("RemoteReady") /\ Unique("CommandDone") /\ output[Root][1].message.type = "RemoteReady"
    BY <1>0, <1>1 DEF OneRemote, OneCommand, Out
  <2> QED
    BY <1>0, <1>1, <2>1, TokensDropped, RootIsRemote
<1>4. OneCommand'
  <2>1. NoneRuns' = NoneRuns
    BY <1>1 DEF NoneRuns
  <2>2. \A s \in Remote : \A i \in Nat : Out(output'[s], i, "CommandDone") =>
           output'[s][i].message.pid \in waiting_for
    BY <1>0, <1>3 DEF OneCommand
  <2> QED
    BY <1>0, <1>1, <1>3, <2>1, <2>2 DEF OneCommand
\* It was the only one.
<1>5. OneRemote'
  <2>1. \A s \in Remote : ~IsBegin(input[s])
    BY <1>0, <1>1, RootIsRemote DEF OneRemote, None
  <2>2. \A s \in Remote : state[s] # "starting"
    BY <1>0, <1>1, RootIsRemote DEF OneRemote, None
  <2>3. \A s \in Remote : \A i \in Nat : ~Out(output'[s], i, "RemoteReady")
    BY <1>3 DEF None
  <2> QED
    BY <1>1, <1>3, <2>1, <2>2, <2>3 DEF OneRemote
<1>6. \A i \in 1 .. Len(output'[Root]) :
          i + 1 \in 1 .. Len(output[Root]) /\ output'[Root][i] = output[Root][i + 1]
  BY <1>0, <1>1, RestOfOutput
<1>7. Stamped'
  BY <1>0, <1>1, <1>6 DEF Stamped
<1>8. Flow'
  BY <1>0, <1>1 DEF Flow
<1>9. Fresh'
  BY <1>0, <1>1 DEF Fresh
<1>10. Nested' = Nested
  BY <1>1 DEF Nested
<1>11. ~Nested => output[Root][1].from = x
  BY <1>0, <1>1 DEF Flat
<1>12. output' \in [Remote -> Seq(Answered)]
  BY <1>1 DEF Drops
<1>13. ~Nested => /\ \A s \in Remote \ {Root} : \A i \in 1 .. Len(output'[s]) : output'[s][i].from = s
                  /\ \A i \in 1 .. Len(output'[Root]) : output'[Root][i].from = output'[Root][i].remote_id
  <2>1. \A s \in Remote \ {Root} : output'[s] = output[s]
    BY <1>1 DEF Drops
  <2> QED
    BY <1>0, <1>6, <2>1 DEF Flat
<1>14. CASE waiting_for_remote # {x}
  <2> HIDE DEF x
  <2>1. outcome' = "unexpected remote" /\ UNCHANGED <<stack, waiting_for_remote>>
    BY <1>1, <1>14 DEF ReceiveRemoteReady, x
  <2>2. Nested
    BY <1>0, <1>2, <1>11, <1>14 DEF Ids
  <2>3. ~Running'
    BY <2>1 DEF Running
  <2>4. ResponsesExpected' /\ Stuck' /\ Connected'
    BY <1>10, <2>2, <2>3 DEF ResponsesExpected, Stuck, Connected
  <2>5. Flat'
    BY <1>10, <2>2 DEF Flat
  <2>6. Types'
    BY <1>0, <1>1, <1>12, <2>1 DEF Types
  <2>7. Ids' /\ Stacked'
    BY <1>0, <1>1, <2>1 DEF Ids, Stacked
  <2> QED
    BY <1>4, <1>5, <1>7, <1>8, <1>9, <2>4, <2>5, <2>6, <2>7 DEF RemotesInv
<1>15. CASE waiting_for_remote = {x}
  <2>1. stack' = Append(stack, x) /\ waiting_for_remote' = {} /\ UNCHANGED outcome
    BY <1>1, <1>15 DEF ReceiveRemoteReady
  <2>2. ~Nested
    <3>1. x \in {Root} \cup relays[Root]
      BY <1>0, <1>1 DEF Stamped
    <3> QED
      BY <1>0, <1>1, <1>15, <3>1 DEF Stuck
  <2> HIDE DEF x
  <2>3. Types'
    BY <1>0, <1>1, <1>12, <2>1 DEF Types
  <2>4. Ids'
    BY <1>0, <1>1, <2>1 DEF Ids
  <2> DEFINE n == Len(stack)
  <2>5. /\ stack' \in Seq(Remote) /\ n \in Nat /\ Len(stack') = n + 1 /\ stack'[n + 1] = x
        /\ \A i \in 1 .. n : stack'[i] = stack[i]
        /\ (stack = <<>> <=> n = 0)
    <3>1. stack \in Seq(Remote)
      BY <1>0 DEF Stacked
    <3> QED
      BY <1>2, <2>1, <3>1, AppendIndex, EmptyLen DEF x
  <2>6. x \in DOMAIN remotes
    BY <1>0, <1>15 DEF Ids
  <2>7. \A i \in 1 .. n : stack[i] # x
    BY <1>0, <1>15 DEF Stacked
  <2>8. \A i \in 1 .. Len(stack') : i \in 1 .. n \/ i = n + 1
    BY <2>5
  <2>9. n = 0 => x = Root
    BY <1>0, <1>15, <2>5 DEF Stacked
  <2>10. n # 0 => 1 \in 1 .. n
    BY <2>5
  <2>11. Stacked'
    <3>1. stack'[1] = Root /\ stack' # <<>>
      <4>1. n = 0 => stack'[1] = Root
        BY <2>5, <2>9
      <4>2. n # 0 => stack'[1] = Root
        BY <1>0, <2>5, <2>10 DEF Stacked
      <4>3. Len(stack') # 0
        BY <2>5
      <4> QED
        BY <4>1, <4>2, <4>3
    <3>2. \A i, j \in 1 .. Len(stack') : stack'[i] = stack'[j] => i = j
      <4>1. \A i, j \in 1 .. n : stack[i] = stack[j] => i = j
        BY <1>0 DEF Stacked
      <4> HIDE DEF n
      <4> QED
        BY <2>5, <2>7, <2>8, <4>1
    <3>3. \A i \in 1 .. Len(stack') : stack'[i] \in DOMAIN remotes
      <4>1. \A i \in 1 .. n : stack[i] \in DOMAIN remotes
        BY <1>0 DEF Stacked
      <4> HIDE DEF n
      <4> QED
        BY <2>5, <2>6, <2>8, <4>1
    <3> QED
      BY <1>1, <2>1, <2>5, <3>1, <3>2, <3>3 DEF Stacked
  <2>12. n <= 1
    <3>1. n <= 2 /\ n # 2
      BY <1>0, <1>15, <2>2 DEF Flat
    <3> HIDE DEF n
    <3> QED
      BY <2>5, <3>1
  <2>13. Flat'
    <3>1. Len(stack') <= 2
      BY <2>5, <2>12
    <3> QED
      BY <1>0, <1>1, <1>13, <2>1, <2>2, <1>10, <3>1 DEF Flat
  <2>14. Above' = Above
    <3>1. CASE n = 0
      <4>1. Len(stack') = 1 /\ 2 .. Len(stack') = {} /\ 2 .. Len(stack) = {}
        BY <2>5, <3>1
      <4> QED
        BY <1>15, <2>1, <2>9, <3>1, <4>1 DEF Above
    <3>2. CASE n = 1
      <4>1. x # Root
        BY <1>0, <2>5, <2>7, <2>10, <3>2 DEF Stacked
      <4>2. 2 .. Len(stack') = {2} /\ stack'[2] = x
        BY <2>5, <3>2
      <4>3. 2 .. Len(stack) = {}
        BY <3>2
      <4> QED
        BY <1>15, <2>1, <4>1, <4>2, <4>3 DEF Above
    <3> HIDE DEF n
    <3> QED
      BY <2>5, <2>12, <3>1, <3>2
  <2>15. Connected'
    BY <1>0, <1>1, <1>10, <2>1, <2>2, <2>14 DEF Connected, Running
  <2>16. ResponsesExpected' /\ Stuck'
    BY <1>0, <1>1, <1>10, <2>1, <2>2 DEF ResponsesExpected, Stuck
  <2> QED
    BY <1>4, <1>5, <1>7, <1>8, <1>9, <2>3, <2>4, <2>11, <2>13, <2>15, <2>16 DEF RemotesInv
<1> QED
  BY <1>14, <1>15

LEMMA InvReceiveCommandDone ==
    ASSUME RemotesInv, ReceiveCommandDone
    PROVE  RemotesInv'
<1>0. /\ Types /\ Ids /\ Stacked /\ Flow /\ OneCommand /\ OneRemote /\ Fresh /\ Stamped /\ Stuck /\ Flat
      /\ Connected /\ ResponsesExpected
  BY DEF RemotesInv
<1>1. /\ Drops(Root) /\ output[Root] # <<>> /\ Response = output[Root][1] /\ output[Root][1] \in Answered
      /\ Out(output[Root], 1, "CommandDone") /\ 1 \in 1 .. Len(output[Root])
      /\ UNCHANGED <<next_id, remotes, state, input, starting, subbackends, relays, running, broken>>
      /\ UNCHANGED <<stack, waiting_for_remote>>
  BY ReceivesOne DEF ReceiveCommandDone
<1> DEFINE p == output[Root][1].message.pid
<1>2. p \in waiting_for
  BY <1>0, <1>1, RootIsRemote DEF OneCommand
<1>3. waiting_for' = {} /\ outcome' = outcome
  <2>1. waiting_for' = waiting_for \ {p} /\ outcome' = outcome
    BY <1>1, <1>2 DEF ReceiveCommandDone
  <2> QED
    BY <1>0, <1>2, <2>1 DEF Ids
<1>4. /\ None("CommandDone")' /\ Unique("CommandDone")'
      /\ Unique("RemoteReady")' /\ (None("RemoteReady") => None("RemoteReady")')
      /\ \A s \in Remote : \A i \in Nat : Out(output'[s], i, "RemoteReady") =>
            \E j \in Nat : Out(output[s], j, "RemoteReady") /\ output'[s][i] = output[s][j]
  <2>1. Unique("RemoteReady") /\ Unique("CommandDone") /\ output[Root][1].message.type = "CommandDone"
    BY <1>0, <1>1 DEF OneRemote, OneCommand, Out
  <2> QED
    BY <1>0, <1>1, <2>1, TokensDropped, RootIsRemote
<1>5. OneRemote'
  <2>1. NoneStarts' = NoneStarts
    BY <1>1 DEF NoneStarts
  <2>2. \A s \in Remote : \A i \in Nat : Out(output'[s], i, "RemoteReady") =>
           output'[s][i].from \in waiting_for_remote
    BY <1>0, <1>4 DEF OneRemote
  <2> QED
    BY <1>0, <1>1, <1>4, <2>1, <2>2 DEF OneRemote
\* It was the only one.
<1>6. OneCommand'
  <2>1. \A s \in Remote : \A i \in Nat : ~IsCommand(input[s], i)
    BY <1>0, <1>1, RootIsRemote DEF OneCommand, None
  <2>2. \A s \in Remote : \A q \in running[s] : FALSE
    BY <1>0, <1>1, RootIsRemote DEF OneCommand, None
  <2>3. \A s \in Remote : \A i \in Nat : ~Out(output'[s], i, "CommandDone")
    BY <1>4 DEF None
  <2> QED
    BY <1>1, <1>4, <2>1, <2>2, <2>3 DEF OneCommand
<1>7. \A i \in 1 .. Len(output'[Root]) :
          i + 1 \in 1 .. Len(output[Root]) /\ output'[Root][i] = output[Root][i + 1]
  BY <1>0, <1>1, RestOfOutput
<1>8. Stamped'
  BY <1>0, <1>1, <1>7 DEF Stamped
<1>9. Flow' /\ Fresh'
  BY <1>0, <1>1 DEF Flow, Fresh
<1>10. Nested' = Nested /\ Running' = Running /\ Above' = Above
  BY <1>1, <1>3 DEF Nested, Running, Above
<1>11. output' \in [Remote -> Seq(Answered)]
  BY <1>1 DEF Drops
<1>12. Types'
  BY <1>0, <1>1, <1>3, <1>11 DEF Types
<1>13. Ids' /\ Stacked'
  BY <1>0, <1>1, <1>3 DEF Ids, Stacked
<1>14. Flat'
  <2>1. \A s \in Remote \ {Root} : output'[s] = output[s]
    BY <1>1 DEF Drops
  <2>2. ~Nested => /\ \A s \in Remote \ {Root} : \A i \in 1 .. Len(output'[s]) : output'[s][i].from = s
                   /\ \A i \in 1 .. Len(output'[Root]) : output'[Root][i].from = output'[Root][i].remote_id
    BY <1>0, <1>7, <2>1 DEF Flat
  <2> QED
    BY <1>0, <1>1, <1>10, <2>2 DEF Flat
<1>15. Connected'
  BY <1>0, <1>1, <1>3, <1>10 DEF Connected
<1>16. ResponsesExpected' /\ Stuck'
  BY <1>0, <1>1, <1>3, <1>10 DEF ResponsesExpected, Stuck
<1> QED
  BY <1>5, <1>6, <1>8, <1>9, <1>12, <1>13, <1>14, <1>15, <1>16 DEF RemotesInv

-----------------------------------------------------------------------------
(* The shell at the prompt. *)

\* Nothing that it has sent, and nothing that it waits for, is anywhere.
LEMMA PromptIsQuiet ==
    ASSUME RemotesInv, AtPrompt
    PROVE  /\ \A s \in Remote : input[s] = <<>> /\ running[s] = {} /\ state[s] # "starting"
           /\ NoneRuns /\ NoneStarts /\ None("CommandDone") /\ None("RemoteReady")
           /\ ~Nested /\ Running /\ waiting_for = {} /\ waiting_for_remote = {}
<1>0. /\ Types /\ Flow /\ OneCommand /\ OneRemote /\ Stuck
      /\ waiting_for = {} /\ waiting_for_remote = {} /\ Running
  BY DEF RemotesInv, AtPrompt
<1>1. \A s \in Remote : \A i \in Nat : ~IsCommand(input[s], i)
  BY <1>0 DEF OneCommand
<1>2. \A s \in Remote : Len(input[s]) \in Nat /\ (input[s] = <<>> <=> Len(input[s]) = 0)
  BY <1>0, EmptyLen DEF Types
<1>3. input[Root] = <<>>
  BY <1>0, <1>1, <1>2, RootIsRemote DEF Flow
<1>4. \A s \in Remote \ {Root} : input[s] = <<>>
  <2> SUFFICES ASSUME NEW s \in Remote \ {Root}, input[s] # <<>> PROVE FALSE
    OBVIOUS
  <2> DEFINE n == Len(input[s])
  <2>1. n \in Nat /\ n # 0
    BY <1>2
  <2>2. n \in 1 .. n
    <3> HIDE DEF n
    <3> QED
      BY <2>1
  <2>3. IsOther(input[s], n)
    BY <1>1, <2>1, <2>2 DEF IsOther, IsCommand
  <2> QED
    BY <1>0, <1>3, <2>3 DEF Flow
<1>5. NoneRuns /\ NoneStarts
  BY <1>0 DEF OneCommand, OneRemote, NoneRuns, NoneStarts, Types
<1>6. None("CommandDone") /\ None("RemoteReady")
  BY <1>0 DEF OneCommand, OneRemote, None
<1>7. ~Nested
  BY <1>0 DEF Stuck
<1> QED
  BY <1>0, <1>3, <1>4, <1>5, <1>6, <1>7 DEF NoneRuns, NoneStarts

\* The remote at the top of the stack, and without one on a remote the one below it.
LEMMA PromptStack ==
    ASSUME RemotesInv, AtPrompt
    PROVE  /\ Len(stack) \in 1 .. 2 /\ stack[1] = Root
           /\ cur_remote \in DOMAIN remotes /\ cur_remote \in Remote
           /\ cur_remote \in {Root} \cup Above
           /\ cur_remote = Root => Len(stack) = 1
           /\ Len(stack) = 1 => cur_remote = Root /\ Above = {}
           /\ Len(stack) = 2 => cur_remote # Root /\ Above = {cur_remote} /\ remotes[cur_remote] = {Root}
<1> DEFINE n == Len(stack)
<1>0. /\ Stacked /\ Flat /\ Ids /\ ~Nested /\ waiting_for_remote = {}
  BY PromptIsQuiet DEF RemotesInv
<1>1. n \in Nat /\ n # 0
  BY <1>0, EmptyLen DEF Stacked
<1>2. n <= 2
  BY <1>0 DEF Flat
<1>3. n \in 1 .. 2 /\ n \in 1 .. n /\ 1 \in 1 .. n
  <2> HIDE DEF n
  <2> QED
    BY <1>1, <1>2
<1>4. cur_remote = stack[n]
  BY DEF cur_remote
<1>5. stack[1] = Root /\ cur_remote \in DOMAIN remotes /\ cur_remote \in Remote
  BY <1>0, <1>1, <1>3, <1>4 DEF Stacked, Ids
<1>6. n = 1 => cur_remote = Root /\ Above = {}
  <2>1. n = 1 => 2 .. n = {}
    OBVIOUS
  <2> QED
    BY <1>0, <1>4, <1>5, <2>1 DEF Above
<1>7. n = 2 => cur_remote # Root /\ Above = {cur_remote}
  <2>1. n = 2 => 2 .. n = {2}
    OBVIOUS
  <2>2. n = 2 => stack[1] # stack[2]
    BY <1>0, <1>3 DEF Stacked
  <2> QED
    BY <1>0, <1>4, <1>5, <2>1, <2>2 DEF Above
<1>8. cur_remote # Root => remotes[cur_remote] = {Root}
  <2>1. cur_remote # Root => \E y \in Remote : remotes[cur_remote] = {y}
    BY <1>0, <1>5 DEF Ids
  <2>2. remotes[cur_remote] \in {{}, {Root}}
    BY <1>0, <1>5 DEF Nested
  <2> QED
    BY <2>1, <2>2
<1> HIDE DEF n
<1>9. n = 1 \/ n = 2
  BY <1>3
<1> QED
  BY <1>3, <1>5, <1>6, <1>7, <1>8, <1>9 DEF n

\* What the invariant says of the tokens after a batch.
LEMMA BatchTokens ==
    ASSUME RemotesInv, AtPrompt, UNCHANGED <<state, output, starting, subbackends, relays, running, broken>>,
           \/ UNCHANGED <<input, waiting_for>>
           \/ /\ IsBatch(input'[Root]) /\ \A s \in Remote \ {Root} : input'[s] = input[s]
              /\ waiting_for' = {input'[Root][Len(input'[Root])].message.pid},
           IsBegin(input'[Root]) => waiting_for_remote' = {input'[Root][1].message.id}
    PROVE  Flow' /\ OneCommand' /\ OneRemote' /\ Stamped'
<1>0. /\ Types /\ Flow /\ OneCommand /\ OneRemote /\ Stamped
      /\ \A s \in Remote : input[s] = <<>> /\ running[s] = {} /\ state[s] # "starting"
      /\ NoneRuns /\ NoneStarts /\ None("CommandDone") /\ None("RemoteReady")
  BY PromptIsQuiet DEF RemotesInv
<1>1. /\ NoneRuns' /\ NoneStarts' /\ None("CommandDone")' /\ None("RemoteReady")'
      /\ Unique("CommandDone")' /\ Unique("RemoteReady")'
      /\ \A s \in Remote : \A i \in Nat : ~Out(output'[s], i, "CommandDone") /\ ~Out(output'[s], i, "RemoteReady")
      /\ \A s \in Remote : running'[s] = {} /\ state'[s] # "starting"
  <2>1. state' = state /\ output' = output /\ running' = running /\ starting' = starting
    OBVIOUS
  <2>2. NoneRuns' /\ NoneStarts' /\ None("CommandDone")' /\ None("RemoteReady")'
    BY <1>0, <2>1 DEF NoneRuns, NoneStarts, None
  <2>3. \A s \in Remote : \A i \in Nat : ~Out(output'[s], i, "CommandDone") /\ ~Out(output'[s], i, "RemoteReady")
    BY <2>2 DEF None
  <2>4. Unique("CommandDone")' /\ Unique("RemoteReady")'
    BY <2>3 DEF Unique
  <2>5. \A s \in Remote : running'[s] = {} /\ state'[s] # "starting"
    BY <1>0, <2>1
  <2> QED
    BY <2>2, <2>3, <2>4, <2>5
<1>2. Stamped'
  BY <1>0 DEF Stamped
<1>3. \A s \in Remote \ {Root} : \A i \in Nat : ~IsCommand(input'[s], i) /\ ~IsOther(input'[s], i)
  <2>1. \A s \in Remote \ {Root} : Len(input'[s]) = 0
    BY <1>0
  <2> QED
    BY <2>1 DEF IsCommand, IsOther
<1>4. Flow'
  <2>1. CASE input' = input
    BY <1>0, <2>1 DEF Flow
  <2>2. CASE IsBatch(input'[Root]) /\ \A s \in Remote \ {Root} : input'[s] = input[s]
    <3>1. Flow /\ \A s \in Remote : input[s] = <<>>
      BY <1>0
    <3> QED
      BY <2>2, <3>1, FlowOfBatch
  <2> QED
    BY <2>1, <2>2
<1>5. \A i \in Nat : IsCommand(input'[Root], i) => input'[Root][i].message.pid \in waiting_for'
  <2>1. CASE UNCHANGED <<input, waiting_for>>
    <3>1. Len(input'[Root]) = 0
      BY <1>0, <2>1, RootIsRemote
    <3> QED
      BY <3>1 DEF IsCommand
  <2>2. CASE /\ IsBatch(input'[Root])
             /\ waiting_for' = {input'[Root][Len(input'[Root])].message.pid}
    BY <1>4, <2>2, RootIsRemote DEF Flow
  <2> QED
    BY <2>1, <2>2
<1>6. OneCommand'
  BY <1>1, <1>3, <1>5 DEF OneCommand
<1>7. OneRemote'
  BY <1>1, <1>3 DEF OneRemote, IsBegin
<1> QED
  BY <1>2, <1>4, <1>6, <1>7

LEMMA RunLineSends ==
    ASSUME RemotesInv, RunLine
    PROVE  /\ next_id \in Remote /\ next_id' = next_id + 1
           /\ UNCHANGED <<remotes, stack, waiting_for_remote, state, output, broken>>
           /\ UNCHANGED <<starting, subbackends, relays, running>>
           /\ \/ outcome' = "no backend" /\ UNCHANGED <<input, waiting_for>>
              \/ /\ UNCHANGED outcome /\ state[Root] # "gone"
                 /\ input' \in [Remote -> Seq(Request)] /\ IsBatch(input'[Root])
                 /\ \A s \in Remote \ {Root} : input'[s] = input[s]
                 /\ waiting_for' = {next_id} /\ Len(input'[Root]) = 1
                 /\ input'[Root][1].message.pid = next_id
                 /\ input'[Root][1].remote_id = cur_remote
                 /\ ~IsOther(input'[Root], 1)
<1>1. AtPrompt /\ SendTo(cur_remote, <<Command(next_id)>>)
  BY DEF RunLine
<1>2. next_id \in Remote /\ next_id' = next_id + 1
  <2>1. next_id \in 0 .. MaxId + 1 /\ next_id <= MaxId /\ MaxId \in Nat
    BY RemotesAssumption DEF RemotesInv, Types, RunLine
  <2>2. next_id \in 0 .. MaxId
    BY <2>1
  <2> QED
    BY <2>2 DEF RunLine, Remote
<1>3. /\ UNCHANGED <<remotes, stack, waiting_for_remote, state, output, broken>>
      /\ UNCHANGED <<starting, subbackends, relays, running>>
  BY DEF RunLine, tableVars
<1>4. Command(next_id) \in CommandMessage \cup RemoteMessage /\ Command(next_id).type = "Command"
      /\ Command(next_id).pid = next_id
  BY <1>2 DEF Command, CommandMessage
<1>5. input[Root] = <<>> /\ cur_remote \in Remote /\ Types
  BY <1>1, PromptIsQuiet, PromptStack, RootIsRemote DEF RemotesInv
<1>6. /\ Addressed(cur_remote, <<Command(next_id)>>) \in Seq(Request)
      /\ Len(Addressed(cur_remote, <<Command(next_id)>>)) = 1
      /\ Addressed(cur_remote, <<Command(next_id)>>)[1] = [remote_id |-> cur_remote, message |-> Command(next_id)]
  BY <1>4, <1>5, AddressedOne
<1>7. /\ Sends(cur_remote, <<Command(next_id)>>)
      /\ state[Root] = "gone" => outcome' = "no backend" /\ UNCHANGED <<input, waiting_for>>
      /\ state[Root] # "gone" => outcome' = outcome
  BY <1>1, <1>5, <1>6, SendsBatch DEF SendTo
<1>8. ASSUME state[Root] # "gone"
      PROVE  /\ UNCHANGED outcome
             /\ input' \in [Remote -> Seq(Request)] /\ IsBatch(input'[Root])
             /\ \A s \in Remote \ {Root} : input'[s] = input[s]
             /\ waiting_for' = {next_id} /\ Len(input'[Root]) = 1
             /\ input'[Root][1].message.pid = next_id
             /\ input'[Root][1].remote_id = cur_remote
             /\ ~IsOther(input'[Root], 1)
  <2>1. outcome = "running" /\ outcome' = outcome
    BY <1>1, <1>7, <1>8, PromptIsQuiet DEF Running
  <2>2. /\ input' \in [Remote -> Seq(Request)]
        /\ input'[Root] = Addressed(cur_remote, <<Command(next_id)>>)
        /\ \A s \in Remote \ {Root} : input'[s] = input[s]
    BY <1>7, <2>1 DEF Sends
  <2>3. waiting_for' = {next_id}
    BY <1>1, <1>5, <1>8, WaitsForOne
  <2>4. Len(input'[Root]) = 1 /\ input'[Root][1] = [remote_id |-> cur_remote, message |-> Command(next_id)]
    BY <1>6, <2>2
  <2>5. /\ input'[Root][1].message.pid = next_id /\ input'[Root][1].remote_id = cur_remote
        /\ input'[Root][1].message.type = "Command"
    BY <1>4, <2>4
  <2>6. IsBatch(input'[Root]) /\ ~IsOther(input'[Root], 1)
    BY <2>4, <2>5 DEF IsBatch, IsOther
  <2> QED
    BY <2>1, <2>2, <2>3, <2>4, <2>5, <2>6
<1> QED
  BY <1>2, <1>3, <1>7, <1>8

LEMMA InvRunLine ==
    ASSUME RemotesInv, RunLine
    PROVE  RemotesInv'
<1>0. /\ Types /\ Ids /\ Stacked /\ Fresh /\ Stuck /\ Flat /\ Connected /\ ResponsesExpected
      /\ AtPrompt
  BY DEF RemotesInv, RunLine
<1>1. /\ \A s \in Remote : input[s] = <<>>
      /\ ~Nested /\ Running /\ waiting_for = {} /\ waiting_for_remote = {}
  BY <1>0, PromptIsQuiet
<1>2. /\ next_id \in Remote /\ next_id' = next_id + 1
      /\ UNCHANGED <<remotes, stack, waiting_for_remote, state, output, broken>>
      /\ UNCHANGED <<starting, subbackends, relays, running>>
      /\ \/ outcome' = "no backend" /\ UNCHANGED <<input, waiting_for>>
         \/ /\ UNCHANGED outcome /\ state[Root] # "gone"
            /\ input' \in [Remote -> Seq(Request)] /\ IsBatch(input'[Root])
            /\ \A s \in Remote \ {Root} : input'[s] = input[s]
            /\ waiting_for' = {next_id} /\ Len(input'[Root]) = 1
            /\ input'[Root][1].message.pid = next_id
            /\ input'[Root][1].remote_id = cur_remote
            /\ ~IsOther(input'[Root], 1)
  BY RunLineSends
<1>3. ~IsOther(input'[Root], 1)
  <2>1. input[Root] = <<>> /\ Len(<<>>) = 0
    BY <1>1, RootIsRemote
  <2>2. ~IsOther(input[Root], 1)
    BY <2>1 DEF IsOther
  <2> QED
    BY <1>2, <2>2
<1>4. ~IsBegin(input'[Root])
  BY <1>3 DEF IsBegin
<1>5. Flow' /\ OneCommand' /\ OneRemote' /\ Stamped'
  <2>1. \/ UNCHANGED <<input, waiting_for>>
        \/ /\ IsBatch(input'[Root]) /\ \A s \in Remote \ {Root} : input'[s] = input[s]
           /\ waiting_for' = {input'[Root][Len(input'[Root])].message.pid}
    BY <1>2
  <2> QED
    BY <1>0, <1>2, <1>4, <2>1, BatchTokens
<1>6. Types'
  <2>1. next_id' \in 0 .. MaxId + 1
    <3>1. next_id \in 0 .. MaxId /\ next_id' = next_id + 1 /\ MaxId \in Nat
      BY <1>2, RemotesAssumption DEF Remote
    <3> QED
      BY <3>1
  <2>2. input' \in [Remote -> Seq(Request)]
    BY <1>0, <1>2 DEF Types
  <2>3. outcome' \in {"running", "no backend"}
    BY <1>1, <1>2 DEF Running
  <2> QED
    BY <1>0, <1>2, <2>1, <2>2, <2>3 DEF Types
<1>7. Ids'
  <2>1. waiting_for' \subseteq Remote /\ \A p, q \in waiting_for' : p = q
    BY <1>1, <1>2
  <2>2. \A x \in DOMAIN remotes \ {Root} : x < next_id' /\ \E y \in Remote : remotes[x] = {y}
    <3>1. /\ next_id \in Nat /\ next_id' = next_id + 1
          /\ \A x \in DOMAIN remotes : x \in Nat
      BY <1>0, <1>2, RootIsRemote DEF Ids
    <3>2. \A x \in DOMAIN remotes \ {Root} : x < next_id /\ \E y \in Remote : remotes[x] = {y}
      BY <1>0 DEF Ids
    <3> QED
      BY <3>1, <3>2
  <2> QED
    BY <1>0, <1>2, <2>1, <2>2 DEF Ids
<1>8. Stacked'
  BY <1>0, <1>2 DEF Stacked
<1>9. \A s \in Remote \ {Root} : input'[s] = <<>>
  BY <1>1, <1>2
<1>10. \A s \in Remote : ~IsBegin(input'[s])
  <2>1. Len(<<>>) = 0
    OBVIOUS
  <2> QED
    BY <1>4, <1>9, <2>1 DEF IsBegin, IsOther
<1>11. Fresh'
  <2>1. \A s \in Remote : \A x \in relays[s] \cup starting[s] : s < x /\ x < next_id + 1
    <3>1. \A s \in Remote : \A x \in relays[s] \cup starting[s] : x \in Nat
      BY <1>0, RootIsRemote DEF Types
    <3>2. next_id \in Nat
      BY <1>2, RootIsRemote
    <3> QED
      BY <1>0, <3>1, <3>2 DEF Fresh
  <2> QED
    BY <1>2, <1>10, <2>1 DEF Fresh
<1>12. Nested' = Nested /\ Above' = Above
  BY <1>2 DEF Nested, Above
<1>13. ResponsesExpected' /\ Stuck'
  BY <1>1, <1>2, <1>12 DEF ResponsesExpected, Stuck, Running
<1>14. Flat'
  <2>1. \A s \in Remote \ {Root} : \A i \in Nat : ~IsOther(input'[s], i)
    BY <1>1, <1>9, <1>0 DEF Flat
  <2> QED
    BY <1>0, <1>1, <1>2, <1>3, <1>12, <2>1 DEF Flat
<1>15. Connected'
  <2> SUFFICES ASSUME outcome' = outcome, ~broken PROVE Connected'
    BY <1>1, <1>2 DEF Connected, Running
  <2>1. state[Root] = "live" /\ starting[Root] = {} /\ subbackends[Root] = Above
        /\ \A c \in Above : state[c] = "live"
    <3>1. input[Root] = <<>> /\ ~IsOther(input[Root], 1)
      BY <1>1, RootIsRemote DEF IsOther
    <3> QED
      BY <1>0, <1>1, <3>1 DEF Connected
  <2>2. input'[Root] # <<>> => input'[Root][1].remote_id \in {Root} \cup Above
    BY <1>0, <1>1, <1>2, PromptStack, RootIsRemote
  <2> QED
    BY <1>2, <1>3, <1>4, <1>12, <2>1, <2>2 DEF Connected
<1> QED
  BY <1>5, <1>6, <1>7, <1>8, <1>11, <1>13, <1>14, <1>15 DEF RemotesInv

\* A batch of two: what it asks of a remote, and a command.
LEMMA TwoSent ==
    ASSUME RemotesInv, AtPrompt, NEW r \in Remote, NEW m \in RemoteMessage, NEW p \in Remote,
           SendTo(r, <<m, Command(p)>>)
    PROVE  \/ outcome' = "no backend" /\ UNCHANGED <<input, waiting_for>>
           \/ /\ UNCHANGED outcome /\ state[Root] # "gone"
              /\ input' \in [Remote -> Seq(Request)] /\ IsBatch(input'[Root])
              /\ \A s \in Remote \ {Root} : input'[s] = input[s]
              /\ waiting_for' = {p} /\ input'[Root][Len(input'[Root])].message.pid = p
              /\ Len(input'[Root]) = 2
              /\ input'[Root][1].message = m /\ input'[Root][1].remote_id = r
              /\ IsOther(input'[Root], 1)
<1>1. Command(p) \in CommandMessage \cup RemoteMessage /\ Command(p).type = "Command" /\ Command(p).pid = p
  BY DEF Command, CommandMessage
<1>2. m \in CommandMessage \cup RemoteMessage /\ m.type # "Command"
  BY DEF RemoteMessage
<1>3. input[Root] = <<>> /\ Types
  BY PromptIsQuiet, RootIsRemote DEF RemotesInv
<1> DEFINE q == Addressed(r, <<m, Command(p)>>)
<1>4. /\ q \in Seq(Request) /\ Len(q) = 2
      /\ q[1] = [remote_id |-> r, message |-> m] /\ q[2] = [remote_id |-> r, message |-> Command(p)]
  BY <1>1, <1>2, AddressedTwo
<1>5. /\ Sends(r, <<m, Command(p)>>)
      /\ state[Root] = "gone" => outcome' = "no backend" /\ UNCHANGED <<input, waiting_for>>
      /\ state[Root] # "gone" => outcome' = outcome
  BY <1>3, <1>4, SendsBatch DEF SendTo
<1>6. CASE state[Root] # "gone"
  <2>1. outcome = "running" /\ outcome' = outcome
    BY <1>5, <1>6, PromptIsQuiet DEF Running
  <2>2. /\ input' \in [Remote -> Seq(Request)] /\ input'[Root] = q
        /\ \A s \in Remote \ {Root} : input'[s] = input[s]
    BY <1>5, <2>1 DEF Sends
  <2>3. waiting_for' = {p}
    BY <1>6, WaitsForSecond
  <2> HIDE DEF q
  <2>4. /\ q[1].message = m /\ q[1].remote_id = r /\ q[2].remote_id = r
        /\ q[1].message.type # "Command" /\ q[2].message.type = "Command" /\ q[2].message.pid = p
    BY <1>1, <1>2, <1>4
  <2>5. IsBatch(q) /\ IsOther(q, 1)
    BY <1>4, <2>4 DEF IsBatch, IsOther
  <2> QED
    BY <1>4, <1>6, <2>1, <2>2, <2>3, <2>4, <2>5
<1> QED
  BY <1>5, <1>6

LEMMA NothingAtFirst == ASSUME NEW q, q = <<>> PROVE ~IsOther(q, 1) /\ ~IsBegin(q)
<1>1. Len(<<>>) = 0
  OBVIOUS
<1> QED
  BY <1>1 DEF IsOther, IsBegin

LEMMA InvBegin ==
    ASSUME RemotesInv, Begin
    PROVE  RemotesInv'
<1> DEFINE id == next_id
<1>0. /\ Types /\ Ids /\ Stacked /\ Flow /\ OneCommand /\ OneRemote /\ Fresh /\ Stamped /\ Stuck /\ Flat
      /\ Connected /\ ResponsesExpected /\ AtPrompt
      /\ UNCHANGED <<stack, state, output, starting, subbackends, relays, running, broken>>
  BY DEF RemotesInv, Begin, tableVars
<1>1. /\ \A s \in Remote : input[s] = <<>>
      /\ ~Nested /\ Running /\ waiting_for = {} /\ waiting_for_remote = {}
  BY <1>0, PromptIsQuiet
<1>2. id \in Remote /\ id + 1 \in Remote /\ id + 2 \in 0 .. MaxId + 1
  <2>1. next_id \in 0 .. MaxId + 1 /\ next_id + 1 <= MaxId /\ MaxId \in Nat
    BY <1>0, RemotesAssumption DEF Types, Begin
  <2>2. next_id \in 0 .. MaxId /\ next_id + 1 \in 0 .. MaxId /\ next_id + 2 \in 0 .. MaxId + 1
    BY <2>1
  <2> QED
    BY <2>2 DEF Remote
<1>3. CASE id \in DOMAIN remotes
  <2>1. outcome' = "id in use" /\ UNCHANGED <<next_id, remotes, waiting_for_remote, waiting_for, input>>
    BY <1>3 DEF Begin, waitVars
  <2>2. Types'
    BY <1>0, <2>1, ZenonT(40) DEF Types
  <2>3. Ids' /\ Stacked' /\ Flow' /\ Fresh' /\ Stamped'
    <3>1. Ids'
      BY <1>0, <2>1 DEF Ids
    <3>2. Stacked'
      BY <1>0, <2>1 DEF Stacked
    <3>3. Flow'
      BY <1>0, <2>1 DEF Flow
    <3>4. Fresh'
      BY <1>0, <2>1 DEF Fresh
    <3>5. Stamped'
      BY <1>0, <2>1 DEF Stamped
    <3> QED
      BY <3>1, <3>2, <3>3, <3>4, <3>5
  <2>4. OneCommand' /\ OneRemote'
    <3>1. OneCommand'
      BY <1>0, <2>1 DEF OneCommand, None, Unique, NoneRuns
    <3>2. OneRemote'
      BY <1>0, <2>1 DEF OneRemote, None, Unique, NoneStarts
    <3> QED
      BY <3>1, <3>2
  <2>5. Nested' = Nested /\ ~Running'
    BY <2>1 DEF Nested, Running
  <2>6. ResponsesExpected' /\ Stuck' /\ Flat' /\ Connected'
    BY <1>0, <2>1, <2>5 DEF ResponsesExpected, Stuck, Flat, Connected
  <2> QED
    BY <2>2, <2>3, <2>4, <2>6 DEF RemotesInv
<1>4. CASE id \notin DOMAIN remotes
  <2>1. /\ remotes' = [x \in DOMAIN remotes \cup {id} |-> IF x = id THEN {cur_remote} ELSE remotes[x]]
        /\ waiting_for_remote' = {id} /\ next_id' = id + 2
        /\ SendTo(cur_remote, <<BeginRemote(id), Command(id + 1)>>)
    BY <1>4 DEF Begin, Register
  <2>2. BeginRemote(id) \in RemoteMessage /\ BeginRemote(id).type = "BeginRemote" /\ BeginRemote(id).id = id
    BY <1>2 DEF RemoteMessage, BeginRemote
  <2>3. /\ Len(stack) \in 1 .. 2 /\ stack[1] = Root
        /\ cur_remote \in DOMAIN remotes /\ cur_remote \in Remote
        /\ cur_remote = Root => Len(stack) = 1
        /\ Len(stack) = 1 => cur_remote = Root /\ Above = {}
    BY <1>0, PromptStack
  <2> DEFINE m == BeginRemote(id)
  <2>4. \/ outcome' = "no backend" /\ UNCHANGED <<input, waiting_for>>
        \/ /\ UNCHANGED outcome /\ state[Root] # "gone"
           /\ input' \in [Remote -> Seq(Request)] /\ IsBatch(input'[Root])
           /\ \A s \in Remote \ {Root} : input'[s] = input[s]
           /\ waiting_for' = {id + 1} /\ input'[Root][Len(input'[Root])].message.pid = id + 1
           /\ Len(input'[Root]) = 2
           /\ input'[Root][1].message = m /\ input'[Root][1].remote_id = cur_remote
           /\ IsOther(input'[Root], 1)
    BY <1>0, <1>2, <2>1, <2>2, <2>3, TwoSent
  <2> HIDE DEF m, id
  <2>5. m.type = "BeginRemote" /\ m.id = id
    BY <2>2 DEF m
  <2>6. id # Root /\ Root < id /\ cur_remote < id
    <3>1. id # Root
      BY <1>0, <1>4 DEF Ids
    <3>2. id \in Nat /\ cur_remote \in Nat
      BY <1>2, <2>3, RootIsRemote
    <3>3. cur_remote # Root => cur_remote < id
      BY <1>0, <2>3 DEF Ids, id
    <3> QED
      BY <3>1, <3>2, <3>3 DEF Root
  <2>7. \A s \in Remote \ {Root} : input'[s] = <<>>
    BY <1>1, <2>4
  <2>8. IsOther(input'[Root], 1) => input'[Root][1].message = m /\ input'[Root][1].remote_id = cur_remote
                                     /\ outcome' = outcome
    BY <1>1, <2>4, NothingAtFirst, RootIsRemote
  <2>9. Flow' /\ OneCommand' /\ OneRemote' /\ Stamped'
    <3>1. \/ UNCHANGED <<input, waiting_for>>
          \/ /\ IsBatch(input'[Root]) /\ \A s \in Remote \ {Root} : input'[s] = input[s]
             /\ waiting_for' = {input'[Root][Len(input'[Root])].message.pid}
      BY <2>4
    <3>2. IsBegin(input'[Root]) => waiting_for_remote' = {input'[Root][1].message.id}
      BY <2>1, <2>5, <2>8 DEF IsBegin
    <3> QED
      BY <1>0, <3>1, <3>2, BatchTokens
  <2>10. Types'
    <3>1. next_id' \in 0 .. MaxId + 1
      BY <1>2, <2>1 DEF id
    <3>2. input' \in [Remote -> Seq(Request)]
      BY <1>0, <2>4 DEF Types
    <3>3. outcome' \in {"running", "no backend"}
      BY <1>1, <2>4 DEF Running
    <3> QED
      BY <1>0, <3>1, <3>2, <3>3 DEF Types
  <2>11. /\ DOMAIN remotes' = DOMAIN remotes \cup {id} /\ remotes'[id] = {cur_remote}
         /\ \A x \in DOMAIN remotes : x # id /\ remotes'[x] = remotes[x]
    BY <1>4, <2>1
  <2>12. Ids'
    <3>1. waiting_for' \subseteq Remote /\ \A p, q \in waiting_for' : p = q
      BY <1>1, <1>2, <2>4 DEF id
    <3>2. DOMAIN remotes' \subseteq Remote /\ Root \in DOMAIN remotes' /\ remotes'[Root] = {}
      BY <1>0, <1>2, <2>11 DEF Ids
    <3>3. \A x \in DOMAIN remotes \ {Root} : x < next_id /\ \E y \in Remote : remotes[x] = {y}
      BY <1>0 DEF Ids
    <3>4. \A x \in DOMAIN remotes' : x \in Nat
      BY <3>2, RootIsRemote
    <3>5. next_id \in Nat /\ next_id' = next_id + 2 /\ id = next_id
      BY <1>2, <2>1, RootIsRemote DEF id
    <3>6. \A x \in DOMAIN remotes' \ {Root} : x < next_id'
      BY <2>11, <3>3, <3>4, <3>5
    <3>7. \A x \in DOMAIN remotes' \ {Root} : \E y \in Remote : remotes'[x] = {y}
      BY <2>3, <2>11, <3>3
    <3> QED
      BY <2>1, <2>11, <3>1, <3>2, <3>6, <3>7 DEF Ids
  <2>13. Stacked'
    <3>1. stack # <<>>
      BY <1>0, <1>1 DEF Stacked
    <3> QED
      BY <1>0, <2>1, <2>3, <2>11, <3>1 DEF Stacked
  <2>14. Fresh'
    <3>1. \A s \in Remote : \A x \in relays[s] \cup starting[s] : s < x /\ x < next_id + 2
      <4>1. \A s \in Remote : \A x \in relays[s] \cup starting[s] : x \in Nat
        BY <1>0, RootIsRemote DEF Types
      <4>2. next_id \in Nat
        BY <1>2, RootIsRemote DEF id
      <4> QED
        BY <1>0, <4>1, <4>2 DEF Fresh
    <3>2. IsBegin(input'[Root]) =>
            /\ Root < input'[Root][1].message.id
            /\ input'[Root][1].remote_id < input'[Root][1].message.id
            /\ input'[Root][1].message.id < id + 2
      <4>1. id < id + 2
        BY <1>2, RootIsRemote
      <4> QED
        BY <2>5, <2>6, <2>8, <4>1 DEF IsBegin
    <3>3. \A s \in Remote \ {Root} : ~IsBegin(input'[s])
      BY <2>7, NothingAtFirst
    <3> QED
      BY <1>0, <2>1, <3>1, <3>2, <3>3 DEF Fresh, id
  <2>15. ResponsesExpected'
    BY <1>1, <2>4 DEF ResponsesExpected, Running
  <2>16. ~Nested' <=> cur_remote = Root
    <3>1. \A x \in DOMAIN remotes : remotes[x] \in {{}, {Root}}
      BY <1>1 DEF Nested
    <3> QED
      BY <2>11, <3>1 DEF Nested
  <2>17. Stuck'
    <3>1. id \notin relays[Root] \cup starting[Root]
      <4>1. \A x \in relays[Root] \cup starting[Root] : x < id /\ x \in Nat
        BY <1>0, RootIsRemote DEF Fresh, Types, id
      <4>2. id \in Nat
        BY <1>2, RootIsRemote
      <4> QED
        BY <4>1, <4>2
    <3>2. IsBegin(input'[Root]) => input'[Root][1].remote_id = cur_remote
      BY <2>8 DEF IsBegin
    <3> QED
      BY <1>0, <1>2, <2>1, <2>6, <2>16, <3>1, <3>2 DEF Stuck
  <2>18. Flat'
    <3> SUFFICES ASSUME cur_remote = Root PROVE Flat'
      BY <2>16 DEF Flat
    <3>1. \A s \in Remote \ {Root} : \A i \in Nat : ~IsOther(input'[s], i)
      BY <1>0, <1>1, <2>7 DEF Flat
    <3>2. Len(stack) = 1
      BY <2>3
    <3>3. IsOther(input'[Root], 1) => input'[Root][1].remote_id = Root
      BY <2>8
    <3> QED
      BY <1>0, <1>1, <2>1, <3>1, <3>2, <3>3 DEF Flat
  <2>19. Connected'
    <3> SUFFICES ASSUME cur_remote = Root, outcome' = outcome, ~broken PROVE Connected'
      BY <1>0, <1>1, <2>4, <2>16 DEF Connected, Running
    <3>1. state[Root] = "live" /\ starting[Root] = {} /\ subbackends[Root] = Above
      <4>1. input[Root] = <<>> /\ ~IsOther(input[Root], 1)
        BY <1>1, NothingAtFirst, RootIsRemote
      <4> QED
        BY <1>0, <1>1, <4>1 DEF Connected
    <3>2. Above = {} /\ 2 .. Len(stack) = {}
      <4>1. Len(stack) = 1
        BY <2>3
      <4> QED
        BY <2>3, <4>1
    <3>3. Above' = {id}
      BY <1>0, <2>1, <2>6, <3>2 DEF Above
    <3>4. /\ IsOther(input'[Root], 1) /\ IsBegin(input'[Root]) /\ input'[Root] # <<>>
          /\ input'[Root][1].message.id = id /\ input'[Root][1].remote_id = Root
      <4>1. outcome' # "no backend"
        BY <1>1 DEF Running
      <4>2. /\ Len(input'[Root]) = 2 /\ IsOther(input'[Root], 1)
            /\ input'[Root][1].message = m /\ input'[Root][1].remote_id = Root
        BY <2>4, <4>1
      <4> QED
        BY <2>5, <4>2, NothingAtFirst DEF IsBegin
    <3> QED
      BY <1>0, <3>1, <3>2, <3>3, <3>4 DEF Connected
  <2> QED
    BY <2>9, <2>10, <2>12, <2>13, <2>14, <2>15, <2>17, <2>18, <2>19 DEF RemotesInv
<1> QED
  BY <1>3, <1>4

LEMMA InvEnd ==
    ASSUME RemotesInv, End
    PROVE  RemotesInv'
<1> DEFINE closed == cur_remote
<1>0. /\ Types /\ Ids /\ Stacked /\ Flow /\ OneCommand /\ OneRemote /\ Fresh /\ Stamped /\ Stuck /\ Flat
      /\ Connected /\ ResponsesExpected /\ AtPrompt
      /\ UNCHANGED <<waiting_for_remote, state, output, starting, subbackends, relays, running, broken>>
  BY DEF RemotesInv, End, tableVars
<1>1. /\ \A s \in Remote : input[s] = <<>>
      /\ ~Nested /\ Running /\ waiting_for = {} /\ waiting_for_remote = {}
  BY <1>0, PromptIsQuiet
<1>2. /\ Len(stack) = 2 /\ stack[1] = Root /\ closed \in DOMAIN remotes /\ closed \in Remote
      /\ closed # Root /\ Above = {closed} /\ remotes[closed] = {Root}
  <2>1. Len(stack) > 1 /\ Len(stack) \in 1 .. 2
    BY <1>0, PromptStack DEF End
  <2>2. \A n \in 1 .. 2 : n > 1 => n = 2
    OBVIOUS
  <2>3. Len(stack) = 2
    BY <2>1, <2>2
  <2> QED
    BY <1>0, <2>3, PromptStack
<1>3. next_id \in Remote /\ next_id' = next_id + 1 /\ next_id + 1 \in 0 .. MaxId + 1 /\ next_id \in Nat
  <2>1. next_id \in 0 .. MaxId + 1 /\ next_id <= MaxId /\ MaxId \in Nat
    BY <1>0, RemotesAssumption DEF Types, End
  <2>2. next_id \in 0 .. MaxId /\ next_id + 1 \in 0 .. MaxId + 1 /\ next_id \in Nat
    BY <2>1
  <2> QED
    BY <2>2 DEF Remote, End
<1>4. (CHOOSE x \in remotes[closed] : TRUE) = Root
  BY <1>2
<1>5. /\ stack' = SubSeq(stack, 1, Len(stack) - 1)
      /\ remotes' = [x \in DOMAIN remotes \ {closed} |-> remotes[x]]
      /\ SendTo(Root, <<EndRemote(closed), Command(next_id)>>)
  BY <1>4 DEF End, Popped
<1> HIDE DEF closed
<1> DEFINE m == EndRemote(closed)
<1>6. m \in RemoteMessage /\ m.type = "EndRemote" /\ m.id = closed
  BY <1>2 DEF RemoteMessage, EndRemote
<1>7. \/ outcome' = "no backend" /\ UNCHANGED <<input, waiting_for>>
      \/ /\ UNCHANGED outcome /\ state[Root] # "gone"
         /\ input' \in [Remote -> Seq(Request)] /\ IsBatch(input'[Root])
         /\ \A s \in Remote \ {Root} : input'[s] = input[s]
         /\ waiting_for' = {next_id} /\ input'[Root][Len(input'[Root])].message.pid = next_id
         /\ Len(input'[Root]) = 2
         /\ input'[Root][1].message = m /\ input'[Root][1].remote_id = Root
         /\ IsOther(input'[Root], 1)
  BY <1>0, <1>3, <1>5, <1>6, TwoSent, RootIsRemote
<1> HIDE DEF m
<1>8. IsOther(input'[Root], 1) => input'[Root][1].message = m /\ input'[Root][1].remote_id = Root
  BY <1>1, <1>7, NothingAtFirst, RootIsRemote
<1>9. ~IsBegin(input'[Root])
  BY <1>6, <1>8 DEF IsBegin
<1>10. \A s \in Remote \ {Root} : input'[s] = <<>>
  BY <1>1, <1>7
<1>11. Flow' /\ OneCommand' /\ OneRemote' /\ Stamped'
  <2>1. \/ UNCHANGED <<input, waiting_for>>
        \/ /\ IsBatch(input'[Root]) /\ \A s \in Remote \ {Root} : input'[s] = input[s]
           /\ waiting_for' = {input'[Root][Len(input'[Root])].message.pid}
    BY <1>7
  <2> QED
    BY <1>0, <1>9, <2>1, BatchTokens
<1>12. Types'
  <2>1. next_id' \in 0 .. MaxId + 1
    BY <1>3
  <2>2. input' \in [Remote -> Seq(Request)]
    BY <1>0, <1>7 DEF Types
  <2>3. outcome' \in {"running", "no backend"}
    BY <1>1, <1>7 DEF Running
  <2> QED
    BY <1>0, <2>1, <2>2, <2>3 DEF Types
<1>13. /\ DOMAIN remotes' = DOMAIN remotes \ {closed}
       /\ \A x \in DOMAIN remotes' : remotes'[x] = remotes[x]
  BY <1>5
<1>14. Ids'
  <2>1. waiting_for' \subseteq Remote /\ \A p, q \in waiting_for' : p = q
    BY <1>1, <1>3, <1>7
  <2>2. \A x \in DOMAIN remotes \ {Root} : x < next_id /\ \E y \in Remote : remotes[x] = {y}
    BY <1>0 DEF Ids
  <2>3. DOMAIN remotes \subseteq Remote /\ Root \in DOMAIN remotes /\ remotes[Root] = {}
    BY <1>0 DEF Ids
  <2>4. \A x \in DOMAIN remotes : x \in Nat
    BY <2>3, RootIsRemote
  <2>5. \A x \in DOMAIN remotes' \ {Root} : x < next_id'
    BY <1>3, <1>13, <2>2, <2>4
  <2>6. \A x \in DOMAIN remotes' \ {Root} : \E y \in Remote : remotes'[x] = {y}
    BY <1>13, <2>2
  <2> QED
    BY <1>0, <1>1, <1>2, <1>13, <2>1, <2>3, <2>5, <2>6 DEF Ids
<1>15. stack' \in Seq(Remote) /\ Len(stack') = 1 /\ stack'[1] = Root /\ stack' # <<>>
  <2>1. stack \in Seq(Remote)
    BY <1>0 DEF Stacked
  <2>2. stack' = SubSeq(stack, 1, 1)
    BY <1>2, <1>5
  <2>3. SubSeq(stack, 1, 1) \in Seq(Remote) /\ Len(SubSeq(stack, 1, 1)) = 1 /\ SubSeq(stack, 1, 1)[1] = stack[1]
    BY <1>2, <2>1
  <2> QED
    BY <1>2, <2>2, <2>3, EmptyLen
<1>16. Stacked'
  <2>1. Root \in DOMAIN remotes'
    BY <1>2, <1>13, <1>0 DEF Ids
  <2>2. \A i \in 1 .. Len(stack') : i = 1
    BY <1>15
  <2> QED
    BY <1>0, <1>1, <1>15, <2>1, <2>2 DEF Stacked
<1>17. Fresh'
  <2>1. \A s \in Remote : \A x \in relays[s] \cup starting[s] : s < x /\ x < next_id + 1
    <3>1. \A s \in Remote : \A x \in relays[s] \cup starting[s] : x \in Nat
      BY <1>0, RootIsRemote DEF Types
    <3> QED
      BY <1>0, <1>3, <3>1 DEF Fresh
  <2>2. \A s \in Remote : ~IsBegin(input'[s])
    BY <1>9, <1>10, NothingAtFirst
  <2> QED
    BY <1>0, <1>3, <2>1, <2>2 DEF Fresh
<1>18. ~Nested'
  <2>1. \A x \in DOMAIN remotes : remotes[x] \in {{}, {Root}}
    BY <1>1 DEF Nested
  <2> QED
    BY <1>13, <2>1 DEF Nested
<1>19. ResponsesExpected' /\ Stuck'
  BY <1>1, <1>7, <1>18 DEF ResponsesExpected, Stuck, Running
<1>20. Flat'
  <2>1. \A s \in Remote \ {Root} : \A i \in Nat : ~IsOther(input'[s], i)
    BY <1>0, <1>1, <1>10 DEF Flat
  <2> QED
    BY <1>0, <1>1, <1>8, <1>15, <2>1 DEF Flat
<1>21. Connected'
  <2> SUFFICES ASSUME outcome' = outcome, ~broken PROVE Connected'
    BY <1>0, <1>1, <1>7 DEF Connected, Running
  <2>1. state[Root] = "live" /\ starting[Root] = {} /\ subbackends[Root] = {closed}
    <3>1. input[Root] = <<>> /\ ~IsOther(input[Root], 1)
      BY <1>1, NothingAtFirst, RootIsRemote
    <3> QED
      BY <1>0, <1>1, <1>2, <3>1 DEF Connected
  <2>2. Above' = {}
    <3>1. 2 .. Len(stack') = {}
      BY <1>15
    <3> QED
      BY <1>0, <1>1, <3>1 DEF Above
  <2>3. /\ IsOther(input'[Root], 1) /\ input'[Root] # <<>>
        /\ input'[Root][1].message.id = closed /\ input'[Root][1].remote_id = Root
    <3>1. outcome' # "no backend"
      BY <1>1 DEF Running
    <3>2. IsOther(input'[Root], 1)
      BY <1>7, <3>1
    <3> QED
      BY <1>6, <1>8, <3>2, NothingAtFirst
  <2> QED
    BY <1>0, <1>9, <2>1, <2>2, <2>3 DEF Connected
<1> QED
  BY <1>11, <1>12, <1>14, <1>16, <1>17, <1>19, <1>20, <1>21 DEF RemotesInv

LEMMA InvExit ==
    ASSUME RemotesInv, Exit
    PROVE  RemotesInv'
<1>0. /\ Types /\ Ids /\ Stacked /\ Flow /\ OneCommand /\ OneRemote /\ Fresh /\ Stamped /\ Stuck /\ Flat
      /\ Connected /\ ResponsesExpected
      /\ outcome' = "exit" /\ UNCHANGED <<next_id, remotes, stack, waiting_for_remote, waiting_for>>
      /\ UNCHANGED <<state, input, output, starting, subbackends, relays, running, broken>>
  BY DEF RemotesInv, Exit, waitVars, backendVars, tableVars
<1>1. Types'
  BY <1>0 DEF Types
<1>2. Ids' /\ Stacked' /\ Flow' /\ Fresh' /\ Stamped'
  BY <1>0 DEF Ids, Stacked, Flow, Fresh, Stamped
<1>3. OneCommand' /\ OneRemote'
  BY <1>0 DEF OneCommand, OneRemote, None, Unique, NoneRuns, NoneStarts
<1>4. Nested' = Nested /\ ~Running'
  BY <1>0 DEF Nested, Running
<1>5. ResponsesExpected' /\ Stuck' /\ Flat' /\ Connected'
  BY <1>0, <1>4 DEF ResponsesExpected, Stuck, Flat, Connected
<1> QED
  BY <1>1, <1>2, <1>3, <1>5 DEF RemotesInv

-----------------------------------------------------------------------------
LEMMA InvInit == Init => RemotesInv
<1> SUFFICES ASSUME Init PROVE RemotesInv
  OBVIOUS
<1> DEFINE first == [remote_id |-> 0, from |-> Root, message |-> [type |-> "RemoteReady"]]
<1>0. Root \in Remote /\ MaxId \in Nat /\ Remote \subseteq Nat
  BY RootIsRemote, RemotesAssumption
<1>1. /\ first \in Answered /\ first.remote_id = Root /\ first.from = Root
      /\ first.message.type = "RemoteReady"
  BY <1>0 DEF Answered, Messages, ReadyMessage, Root
<1>2. /\ output[Root] = <<first>> /\ \A s \in Remote \ {Root} : output[s] = <<>>
      /\ output = [r \in Remote |-> IF r = Root THEN <<first>> ELSE <<>>]
  BY <1>0 DEF Init
<1> HIDE DEF first
<1>3. <<first>> \in Seq(Answered) /\ <<>> \in Seq(Answered) /\ Len(<<first>>) = 1 /\ Len(<<>>) = 0
      /\ <<first>>[1] = first
  BY <1>1
<1>4. output \in [Remote -> Seq(Answered)]
  BY <1>2, <1>3
<1>5. Types
  <2>1. next_id = 0 /\ outcome = "running" /\ broken = FALSE /\ 0 \in 0 .. MaxId + 1
    BY <1>0 DEF Init
  <2>2. state \in [Remote -> {"none", "starting", "live", "gone"}]
    BY DEF Init
  <2>3. /\ starting = [r \in Remote |-> {}] /\ subbackends = [r \in Remote |-> {}]
        /\ relays = [r \in Remote |-> {}] /\ running = [r \in Remote |-> {}]
    BY DEF Init
  <2>4. input = [r \in Remote |-> <<>>] /\ <<>> \in Seq(Request)
    BY DEF Init
  <2>5. input \in [Remote -> Seq(Request)]
    BY <2>4
  <2> QED
    BY <1>4, <2>1, <2>2, <2>3, <2>5 DEF Types
<1>6. Ids
  BY <1>0 DEF Init, Ids
<1>7. Stacked
  BY <1>0 DEF Init, Stacked
<1>8. \A s \in Remote : /\ Len(input[s]) = 0 /\ running[s] = {} /\ starting[s] = {} /\ relays[s] = {}
                        /\ subbackends[s] = {} /\ state[s] # "starting"
  BY DEF Init
<1>9. \A s \in Remote : ~IsBegin(input[s]) /\ \A i \in Nat : ~IsCommand(input[s], i) /\ ~IsOther(input[s], i)
  BY <1>8 DEF IsCommand, IsOther, IsBegin
<1>10. \A s \in Remote : \A type : \A i \in Nat :
          Out(output[s], i, type) => s = Root /\ i = 1 /\ type = "RemoteReady"
  BY <1>1, <1>2, <1>3 DEF Out
<1>11. Flow
  <2>1. input[Root] = <<>> /\ Len(input[Root]) = 0
    BY <1>0 DEF Init
  <2>2. \A s \in Remote : ~IsOther(input[s], Len(input[s]))
    BY <1>8 DEF IsOther
  <2> QED
    BY <1>8, <1>9, <2>1, <2>2 DEF Flow
<1>12. OneCommand
  BY <1>8, <1>9, <1>10 DEF OneCommand, Unique
<1>13. OneRemote
  <2>1. output[Root][1].from = Root /\ waiting_for_remote = {Root}
    BY <1>1, <1>2, <1>3 DEF Init
  <2> QED
    BY <1>8, <1>9, <1>10, <2>1 DEF OneRemote, Unique
<1>14. Fresh
  BY <1>8, <1>9 DEF Fresh
<1>15. \A i \in 1 .. Len(output[Root]) : output[Root][i] = first
  BY <1>2, <1>3
<1>16. Stamped
  BY <1>1, <1>15 DEF Stamped
<1>17. ~Nested
  BY DEF Nested, Init
<1>18. ResponsesExpected /\ Stuck
  BY <1>17 DEF ResponsesExpected, Stuck, Init
<1>19. Flat
  <2>1. Len(stack) = 0
    BY DEF Init
  <2>2. \A s \in Remote \ {Root} : \A i \in 1 .. Len(output[s]) : FALSE
    BY <1>2, <1>3
  <2> QED
    BY <1>0, <1>1, <1>8, <1>9, <1>15, <2>1, <2>2 DEF Flat
<1>20. Connected
  <2>1. Above = {}
    BY DEF Above, Init
  <2>2. state[Root] = "live" /\ input[Root] = <<>>
    BY <1>0 DEF Init
  <2> QED
    BY <1>0, <1>8, <1>9, <2>1, <2>2 DEF Connected
<1> QED
  BY <1>5, <1>6, <1>7, <1>11, <1>12, <1>13, <1>14, <1>16, <1>18, <1>19, <1>20 DEF RemotesInv

LEMMA InvNext == RemotesInv /\ [Next]_vars => RemotesInv'
<1> SUFFICES ASSUME RemotesInv, [Next]_vars PROVE RemotesInv'
  OBVIOUS
<1>1. CASE User
  BY <1>1, InvRunLine, InvBegin, InvEnd, InvExit DEF User
<1>2. CASE Shell
  BY <1>2, InvReceiveRemoteReady, InvReceiveCommandDone DEF Shell
<1>3. ASSUME NEW r \in Remote, TakeRequest(r) PROVE RemotesInv'
  <2>1. CanTake(r) /\ UNCHANGED <<shellVars, output, broken>>
    BY <1>3 DEF TakeRequest
  <2>2. CASE ForItself(r) /\ TakeCommand(r)
    BY <2>1, <2>2, InvTakeCommand
  <2>3. CASE ForItself(r) /\ TakeBeginRemote(r)
    BY <2>1, <2>3, InvTakeBegin
  <2>4. CASE ForItself(r) /\ TakeEndRemote(r)
    BY <2>1, <2>4, InvTakeEnd
  <2>5. CASE ~ForItself(r) /\ PassOn(r)
    BY <2>1, <2>5, InvPassOn
  <2> QED
    BY <1>3, <2>2, <2>3, <2>4, <2>5 DEF TakeRequest
<1>4. ASSUME NEW r \in Remote, MainThread(r) PROVE RemotesInv'
  BY <1>3, <1>4, InvConnect, InvEndOfInput DEF MainThread
<1>5. ASSUME NEW r \in Remote, Start(r) \/ Answer(r) \/ Dies(r) PROVE RemotesInv'
  BY <1>5, InvStart, InvAnswer, InvDies
<1>6. ASSUME NEW r \in Remote, NEW c \in Remote, Relay(r, c) PROVE RemotesInv'
  BY <1>6, InvRelay
<1>7. CASE UNCHANGED vars
  <2>0. /\ Types /\ Ids /\ Stacked /\ Flow /\ OneCommand /\ OneRemote /\ Fresh /\ Stamped /\ Stuck /\ Flat
        /\ Connected /\ ResponsesExpected
        /\ UNCHANGED <<next_id, remotes, stack, waiting_for_remote, waiting_for, outcome>>
        /\ UNCHANGED <<state, input, output, starting, subbackends, relays, running, broken>>
    BY <1>7 DEF RemotesInv, vars, shellVars, waitVars, backendVars, tableVars
  <2>1. Types'
    BY <2>0 DEF Types
  <2>2. Ids' /\ Stacked' /\ Flow' /\ Fresh' /\ Stamped'
    BY <2>0 DEF Ids, Stacked, Flow, Fresh, Stamped
  <2>3. OneCommand' /\ OneRemote'
    BY <2>0 DEF OneCommand, OneRemote, None, Unique, NoneRuns, NoneStarts
  <2>4. Nested' = Nested /\ Running' = Running /\ Above' = Above
    BY <2>0 DEF Nested, Running, Above
  <2>5. ResponsesExpected' /\ Stuck' /\ Flat' /\ Connected'
    BY <2>0, <2>4 DEF ResponsesExpected, Stuck, Flat, Connected
  <2> QED
    BY <2>1, <2>2, <2>3, <2>5 DEF RemotesInv
<1> QED
  BY <1>1, <1>2, <1>4, <1>5, <1>6, <1>7 DEF Next

LEMMA RemotesInvariant == Spec => []RemotesInv
  BY InvInit, InvNext, PTL DEF Spec

\* Every variable has its type, for every number of ids: the queues hold requests and responses,
\* a main thread waits for one process, and a backend copies the output of all that it writes to.
THEOREM RemotesTypes == Spec => []RemotesTypeOK
<1>1. RemotesInv => RemotesTypeOK
  <2> SUFFICES ASSUME RemotesInv PROVE RemotesTypeOK
    OBVIOUS
  <2>0. Types /\ Ids /\ Stacked
    BY DEF RemotesInv
  <2>1. \A r \in Remote : Cardinality(starting[r]) <= 1
    <3> SUFFICES ASSUME NEW r \in Remote PROVE Cardinality(starting[r]) <= 1
      OBVIOUS
    <3>1. \A x, y \in starting[r] : x = y
      BY <2>0 DEF Types
    <3>2. CASE starting[r] = {}
      <4>1. Cardinality(starting[r]) = 0
        BY <3>2, FS_EmptySet
      <4> QED
        BY <4>1
    <3>3. CASE starting[r] # {}
      <4>1. PICK x : starting[r] = {x}
        BY <3>1, <3>3
      <4>2. Cardinality(starting[r]) = 1
        BY <4>1, FS_Singleton
      <4> QED
        BY <4>2
    <3> QED
      BY <3>2, <3>3
  <2>2. \A r \in Remote : \A i \in DOMAIN input[r] : input[r][i].remote_id \in Remote
    <3>1. \A r \in Remote : \A i \in DOMAIN input[r] : input[r][i] \in Request
      BY <2>0, ElementsOf DEF Types
    <3> QED
      BY <3>1 DEF Request
  <2>3. \A r \in Remote : \A i \in DOMAIN output[r] : output[r][i].message \in Messages
    <3>1. \A r \in Remote : \A i \in DOMAIN output[r] : output[r][i] \in Answered
      BY <2>0, ElementsOf DEF Types
    <3> QED
      BY <3>1 DEF Answered
  <2>4. \A i \in DOMAIN stack : stack[i] \in DOMAIN remotes
    <3>1. DOMAIN stack = 1 .. Len(stack)
      BY <2>0 DEF Stacked
    <3> QED
      BY <2>0, <3>1 DEF Stacked
  <2>5. \A r \in DOMAIN remotes : remotes[r] \subseteq Remote
    BY <2>0 DEF Ids
  <2> QED
    BY <2>0, <2>1, <2>2, <2>3, <2>4, <2>5 DEF RemotesTypeOK, Types, Ids
<1> QED
  BY <1>1, RemotesInvariant, PTL

\* The shell refuses no response unless it has begun a remote on a remote: each bears the id of
\* its sender, and at most one command and one new remote are on their way at a time.
THEOREM ExpectsResponses == Spec => []ResponsesExpected
<1>1. RemotesInv => ResponsesExpected
  BY DEF RemotesInv
<1> QED
  BY <1>1, RemotesInvariant, PTL

\* At the prompt the processes are as the shell's stack has them, if none has died of itself.
THEOREM ConnectsStack == Spec => []StackIsConnected
<1>1. RemotesInv => StackIsConnected
  <2> SUFFICES ASSUME RemotesInv, AtPrompt, ~broken PROVE StackIsConnected
    BY DEF StackIsConnected
  <2>0. /\ Types /\ Flat /\ Connected /\ Stacked /\ ~Nested /\ Running /\ input[Root] = <<>>
    BY PromptIsQuiet, RootIsRemote DEF RemotesInv
  <2>1. ~IsOther(input[Root], 1)
    BY <2>0, NothingAtFirst
  <2>2. state[Root] = "live" /\ subbackends[Root] = Above /\ \A c \in Above : state[c] = "live"
    BY <2>0, <2>1 DEF Connected
  <2>3. /\ Len(stack) \in 1 .. 2 /\ stack[1] = Root /\ cur_remote \in Remote
        /\ Len(stack) = 1 => Above = {}
        /\ Len(stack) = 2 => cur_remote # Root /\ Above = {cur_remote}
        /\ cur_remote = stack[Len(stack)]
    BY PromptStack DEF cur_remote
  <2>4. \A c \in Remote \ {Root} : subbackends[c] = {}
    BY <2>0 DEF Flat, Types
  <2>5. subbackends[Root] \subseteq relays[Root]
    BY <2>0, RootIsRemote DEF Types
  <2>6. DOMAIN stack = 1 .. Len(stack)
    BY <2>0 DEF Stacked
  <2>7. CASE Len(stack) = 1
    <3>1. \A i \in DOMAIN stack : i = 1
      BY <2>6, <2>7
    <3>2. 1 .. Len(stack) - 1 = {}
      BY <2>7
    <3> QED
      BY <2>2, <2>3, <2>7, <3>1, <3>2 DEF StackIsConnected
  <2>8. CASE Len(stack) = 2
    <3>1. \A i \in DOMAIN stack : i = 1 \/ i = 2
      BY <2>6, <2>8
    <3>2. 1 .. Len(stack) - 1 = {1}
      BY <2>8
    <3>3. stack[2] = cur_remote
      BY <2>3, <2>8
    <3>4. \A i \in {1} : subbackends[stack[i]] = {stack[i + 1]} /\ stack[i + 1] \in relays[stack[i]]
      <4>1. subbackends[stack[1]] = {stack[2]} /\ stack[2] \in relays[stack[1]]
        BY <2>2, <2>3, <2>5, <2>8, <3>3
      <4>2. \A i \in {1} : i + 1 = 2
        OBVIOUS
      <4> QED
        BY <4>1, <4>2
    <3>5. subbackends[stack[Len(stack)]] = {}
      BY <2>3, <2>4, <2>8
    <3>6. \A i \in DOMAIN stack : state[stack[i]] = "live"
      BY <2>2, <2>3, <2>8, <3>1, <3>3
    <3> QED
      BY <3>2, <3>4, <3>5, <3>6 DEF StackIsConnected
  <2> QED
    BY <2>3, <2>7, <2>8
<1> QED
  BY <1>1, RemotesInvariant, PTL

-----------------------------------------------------------------------------
(* What Of takes out of a queue, when the queue grows and shrinks.         *)

Among(f, queue, id, r, n) ==
    \A k \in 0 .. n : f[k] = IF k = 0 THEN <<>>
                             ELSE IF queue[k][id] = r THEN Append(f[k - 1], queue[k].message) ELSE f[k - 1]

LEMMA AmongExists ==
    ASSUME NEW queue, NEW id, NEW r, NEW n \in Nat
    PROVE  \E f : DOMAIN f = 0 .. n /\ f = [k \in 0 .. n |-> f[k]] /\ Among(f, queue, id, r, n)
<1> DEFINE T == {m \in Nat : \E f : DOMAIN f = 0 .. m /\ f = [k \in 0 .. m |-> f[k]] /\ Among(f, queue, id, r, m)}
<1>1. 0 \in T
  <2> DEFINE f == [k \in 0 .. 0 |-> <<>>]
  <2>1. DOMAIN f = 0 .. 0 /\ f = [k \in 0 .. 0 |-> f[k]] /\ Among(f, queue, id, r, 0)
    BY DEF Among
  <2> QED
    BY <2>1
<1>2. ASSUME NEW m \in Nat, m \in T PROVE m + 1 \in T
  <2>1. PICK f : DOMAIN f = 0 .. m /\ f = [k \in 0 .. m |-> f[k]] /\ Among(f, queue, id, r, m)
    BY <1>2
  <2> DEFINE last == IF queue[m + 1][id] = r THEN Append(f[m], queue[m + 1].message) ELSE f[m]
             g == [k \in 0 .. m + 1 |-> IF k = m + 1 THEN last ELSE f[k]]
  <2>2. /\ DOMAIN g = 0 .. m + 1 /\ g = [k \in 0 .. m + 1 |-> g[k]] /\ g[m + 1] = last
        /\ \A k \in 0 .. m : g[k] = f[k]
    OBVIOUS
  <2>3. Among(g, queue, id, r, m + 1)
    <3> HIDE DEF g
    <3> SUFFICES ASSUME NEW k \in 0 .. m + 1
                 PROVE  g[k] = IF k = 0 THEN <<>>
                               ELSE IF queue[k][id] = r THEN Append(g[k - 1], queue[k].message) ELSE g[k - 1]
      BY DEF Among
    <3>1. k = 0 \/ k - 1 \in 0 .. m
      OBVIOUS
    <3>2. CASE k \in 0 .. m
      <4>1. f[k] = IF k = 0 THEN <<>>
                   ELSE IF queue[k][id] = r THEN Append(f[k - 1], queue[k].message) ELSE f[k - 1]
        BY <2>1, <3>2 DEF Among
      <4> QED
        BY <2>2, <3>1, <3>2, <4>1
    <3>3. CASE k = m + 1
      <4>1. k # 0 /\ k - 1 = m /\ m \in 0 .. m
        BY <3>3
      <4> QED
        BY <2>2, <3>3, <4>1 DEF last
    <3> QED
      BY <3>2, <3>3
  <2> HIDE DEF g
  <2> QED
    BY <2>2, <2>3
<1>3. Nat \subseteq T
  <2> HIDE DEF T
  <2> QED
    BY <1>1, <1>2, AllNumbers
<1> QED
  BY <1>3

LEMMA OfIsAmong ==
    ASSUME NEW queue, NEW id, NEW r, Len(queue) \in Nat
    PROVE  \E f : Among(f, queue, id, r, Len(queue)) /\ Of(queue, id, r) = f[Len(queue)]
<1> DEFINE n == Len(queue)
<1> DEFINE Def(f) == f = [k \in 0 .. n |-> IF k = 0 THEN <<>>
                                          ELSE IF queue[k][id] = r
                                          THEN Append(f[k - 1], queue[k].message) ELSE f[k - 1]]
           g == CHOOSE f : Def(f)
<1>1. \E f : Def(f)
  <2>1. PICK f : DOMAIN f = 0 .. n /\ f = [k \in 0 .. n |-> f[k]] /\ Among(f, queue, id, r, n)
    BY AmongExists
  <2>2. Def(f)
    BY <2>1 DEF Among
  <2> QED
    BY <2>2
<1>2. Def(g)
  BY <1>1, Zenon
<1>3. Of(queue, id, r) = g[n]
  BY DEF Of
<1>4. Among(g, queue, id, r, n)
  BY <1>2 DEF Among
<1> QED
  BY <1>3, <1>4

LEMMA OfNone ==
    ASSUME NEW S, NEW queue \in Seq(S), NEW id, NEW r, \A i \in 1 .. Len(queue) : queue[i][id] # r
    PROVE  Of(queue, id, r) = <<>>
<1> DEFINE n == Len(queue)
<1>1. n \in Nat
  OBVIOUS
<1>2. PICK f : Among(f, queue, id, r, n) /\ Of(queue, id, r) = f[n]
  BY <1>1, OfIsAmong
<1> HIDE DEF n
<1> DEFINE T == {k \in Nat : k <= n => f[k] = <<>>}
<1>3. 0 \in T
  BY <1>1, <1>2 DEF Among
<1>4. ASSUME NEW k \in Nat, k \in T PROVE k + 1 \in T
  <2> SUFFICES ASSUME k + 1 <= n PROVE f[k + 1] = <<>>
    OBVIOUS
  <2>1. k + 1 \in 0 .. n /\ k + 1 \in 1 .. Len(queue) /\ k + 1 # 0 /\ (k + 1) - 1 = k /\ f[k] = <<>>
    BY <1>1, <1>4 DEF n
  <2> QED
    BY <1>2, <2>1 DEF Among
<1>5. n \in T
  <2> HIDE DEF T
  <2> QED
    BY <1>1, <1>3, <1>4, AllNumbers
<1> QED
  BY <1>1, <1>2, <1>5

LEMMA SeqEqual ==
    ASSUME NEW M, NEW a \in Seq(M), NEW b \in Seq(M), Len(a) = Len(b), \A i \in 1 .. Len(a) : a[i] = b[i]
    PROVE  a = b
  OBVIOUS

LEMMA AppendAfter ==
    ASSUME NEW M, NEW a \in Seq(M), NEW b \in Seq(M), NEW x \in M
    PROVE  Append(a \o b, x) = a \o Append(b, x) /\ Append(b, x) \in Seq(M)
<1>1. a \o b \in Seq(M) /\ Append(b, x) \in Seq(M) /\ Append(a \o b, x) \in Seq(M) /\ a \o Append(b, x) \in Seq(M)
  OBVIOUS
<1>2. Len(Append(a \o b, x)) = Len(a) + Len(b) + 1 /\ Len(a \o Append(b, x)) = Len(a) + Len(b) + 1
  OBVIOUS
<1>3. \A i \in 1 .. Len(a) + Len(b) + 1 : Append(a \o b, x)[i] = (a \o Append(b, x))[i]
  OBVIOUS
<1> QED
  BY <1>1, <1>2, <1>3, SeqEqual

\* One more in the queue.
Longer(queue, more, n) ==
    n \in Nat /\ n = Len(queue) /\ Len(more) = n + 1 /\ \A i \in 1 .. n : more[i] = queue[i]

LEMMA OfMore ==
    ASSUME NEW queue, NEW more, NEW n, Longer(queue, more, n), NEW id, NEW r
    PROVE  Of(more, id, r) = IF more[n + 1][id] = r THEN Append(Of(queue, id, r), more[n + 1].message)
                             ELSE Of(queue, id, r)
<1> n \in Nat /\ n = Len(queue) /\ Len(more) = n + 1 /\ \A i \in 1 .. n : more[i] = queue[i]
  BY DEF Longer
<1>1. PICK f : Among(f, queue, id, r, n) /\ Of(queue, id, r) = f[n]
  BY OfIsAmong
<1>2. PICK g : Among(g, more, id, r, n + 1) /\ Of(more, id, r) = g[n + 1]
  BY OfIsAmong
<1> DEFINE T == {k \in Nat : k <= n => g[k] = f[k]}
<1>3. 0 \in T
  BY <1>1, <1>2 DEF Among
<1>4. ASSUME NEW k \in Nat, k \in T PROVE k + 1 \in T
  <2> SUFFICES ASSUME k + 1 <= n PROVE g[k + 1] = f[k + 1]
    OBVIOUS
  <2>1. /\ k + 1 \in 0 .. n /\ k + 1 \in 0 .. n + 1 /\ k + 1 \in 1 .. n /\ k + 1 # 0 /\ (k + 1) - 1 = k
        /\ g[k] = f[k]
    BY <1>4
  <2>2. more[k + 1] = queue[k + 1]
    BY <2>1
  <2>3. f[k + 1] = IF queue[k + 1][id] = r THEN Append(f[k], queue[k + 1].message) ELSE f[k]
    BY <1>1, <2>1 DEF Among
  <2>4. g[k + 1] = IF more[k + 1][id] = r THEN Append(g[k], more[k + 1].message) ELSE g[k]
    BY <1>2, <2>1 DEF Among
  <2> QED
    BY <2>1, <2>2, <2>3, <2>4
<1>5. n \in T
  <2> HIDE DEF T
  <2> QED
    BY <1>3, <1>4, AllNumbers
<1>6. n + 1 \in 0 .. n + 1 /\ n + 1 # 0 /\ (n + 1) - 1 = n
  OBVIOUS
<1>7. g[n + 1] = IF more[n + 1][id] = r THEN Append(g[n], more[n + 1].message) ELSE g[n]
  BY <1>2, <1>6 DEF Among
<1> QED
  BY <1>1, <1>2, <1>5, <1>7

\* The first in the queue gone.
Shorter(M, queue, less, n) ==
    /\ n \in Nat /\ n = Len(less) /\ Len(queue) = n + 1
    /\ \A i \in 1 .. n + 1 : queue[i].message \in M
    /\ \A i \in 1 .. n : less[i] = queue[i + 1]

FirstOf(queue) == <<queue[1].message>>

LEMMA OfLess ==
    ASSUME NEW M, NEW queue, NEW less, NEW n, Shorter(M, queue, less, n), NEW id, NEW r
    PROVE  /\ Of(less, id, r) \in Seq(M)
           /\ Of(queue, id, r) = IF queue[1][id] = r THEN FirstOf(queue) \o Of(less, id, r)
                                 ELSE Of(less, id, r)
<1> /\ n \in Nat /\ n = Len(less) /\ Len(queue) = n + 1
    /\ \A i \in 1 .. n + 1 : queue[i].message \in M
    /\ \A i \in 1 .. n : less[i] = queue[i + 1]
  BY DEF Shorter
<1>1. PICK f : Among(f, queue, id, r, n + 1) /\ Of(queue, id, r) = f[n + 1]
  BY OfIsAmong
<1>2. PICK g : Among(g, less, id, r, n) /\ Of(less, id, r) = g[n]
  BY OfIsAmong
<1> DEFINE first == IF queue[1][id] = r THEN <<queue[1].message>> ELSE <<>>
           T == {k \in Nat : k <= n => g[k] \in Seq(M) /\ f[k + 1] = first \o g[k]}
<1>0. first \in Seq(M)
  <2>1. 1 \in 1 .. n + 1
    OBVIOUS
  <2> QED
    BY <2>1
<1>3. 0 \in T
  <2>1. g[0] = <<>> /\ f[0] = <<>>
    BY <1>1, <1>2 DEF Among
  <2>2. 1 \in 0 .. n + 1 /\ 0 + 1 = 1 /\ 1 - 1 = 0
    OBVIOUS
  <2>3. f[1] = IF queue[1][id] = r THEN Append(<<>>, queue[1].message) ELSE <<>>
    <3>1. \A k \in 0 .. n + 1 : k = 1 => f[k] = IF queue[1][id] = r THEN Append(f[0], queue[1].message) ELSE f[0]
      BY <1>1, <2>2 DEF Among
    <3> QED
      BY <2>1, <2>2, <3>1
  <2>5. Append(<<>>, queue[1].message) = <<queue[1].message>>
    OBVIOUS
  <2>6. f[1] = first
    BY <2>3, <2>5
  <2>4. first \o <<>> = first /\ <<>> \in Seq(M)
    <3> HIDE DEF first
    <3> QED
      BY <1>0
  <2> QED
    BY <2>1, <2>2, <2>4, <2>6
<1> HIDE DEF first
<1>4. ASSUME NEW k \in Nat, k \in T PROVE k + 1 \in T
  <2> SUFFICES ASSUME k + 1 <= n PROVE g[k + 1] \in Seq(M) /\ f[(k + 1) + 1] = first \o g[k + 1]
    OBVIOUS
  <2>1. /\ k + 1 \in 0 .. n /\ k + 1 \in 1 .. n /\ k + 1 # 0 /\ (k + 1) - 1 = k
        /\ (k + 1) + 1 \in 0 .. n + 1 /\ (k + 1) + 1 \in 1 .. n + 1 /\ (k + 1) + 1 # 0 /\ ((k + 1) + 1) - 1 = k + 1
        /\ g[k] \in Seq(M) /\ f[k + 1] = first \o g[k]
    <3>1. g[k] \in Seq(M) /\ f[k + 1] = first \o g[k]
      <4>1. k <= n
        OBVIOUS
      <4> QED
        BY <1>4, <4>1
    <3>2. k + 1 \in 1 .. n /\ k + 1 # 0 /\ (k + 1) - 1 = k
      OBVIOUS
    <3>3. (k + 1) + 1 \in 1 .. n + 1 /\ (k + 1) + 1 # 0 /\ ((k + 1) + 1) - 1 = k + 1
      OBVIOUS
    <3>4. 1 .. n \subseteq 0 .. n /\ 1 .. n + 1 \subseteq 0 .. n + 1
      OBVIOUS
    <3> QED
      BY <3>1, <3>2, <3>3, <3>4
  <2> DEFINE x == less[k + 1]
  <2>2. x = queue[(k + 1) + 1] /\ x.message \in M
    BY <2>1
  <2>3. g[k + 1] = IF x[id] = r THEN Append(g[k], x.message) ELSE g[k]
    BY <1>2, <2>1 DEF Among
  <2>4. f[(k + 1) + 1] = IF queue[(k + 1) + 1][id] = r THEN Append(f[k + 1], queue[(k + 1) + 1].message) ELSE f[k + 1]
    BY <1>1, <2>1 DEF Among
  <2> HIDE DEF x
  <2>5. Append(first \o g[k], x.message) = first \o Append(g[k], x.message) /\ Append(g[k], x.message) \in Seq(M)
    BY <1>0, <2>1, <2>2, AppendAfter
  <2> QED
    BY <2>1, <2>2, <2>3, <2>4, <2>5
<1>5. n \in T
  <2> HIDE DEF T
  <2> QED
    BY <1>3, <1>4, AllNumbers
<1>6. g[n] \in Seq(M) /\ f[n + 1] = first \o g[n]
  BY <1>5
<1>7. <<>> \o g[n] = g[n]
  BY <1>6, AfterEmpty
<1> QED
  BY <1>1, <1>2, <1>6, <1>7 DEF first, FirstOf

-----------------------------------------------------------------------------
(* Which backends a response passes, and which have been begun.            *)

Within(r) == relays[r] \cup starting[r]

\* A backend is within one other.
Sole == \A r, s \in Remote : \A x \in Remote : x \in Within(r) /\ x \in Within(s) => r = s

\* What is not begun has nothing and is in nothing; a fresh id and one that is to be begun are of such.
Unborn ==
    /\ state[Root] # "none"
    /\ \A x \in Remote : state[x] = "none" =>
          input[x] = <<>> /\ Within(x) = {} /\ \A r \in Remote : x \notin Within(r)
    /\ \A x \in Remote \ {Root} : x >= next_id => state[x] = "none"
    /\ \A r \in Remote : IsBegin(input[r]) => state[input[r][1].message.id] = "none"

\* A remote on a remote is asked for nothing.
Leaf == \A s \in Remote \ {Root} : \A x \in Remote : x \in Within(s) => input[x] = <<>> /\ Within(x) = {}

\* Only the root has responses of more than itself and those within it.
Origin == \A s \in Remote \ {Root} : \A i \in 1 .. Len(output[s]) : output[s][i].from \in {s} \cup relays[s]

LinkInv == Sole /\ Unborn /\ Leaf /\ Origin

\* A step that begins nothing keeps all but Origin, if it gives requests only to the root and to
\* those within it.
LEMMA LinksKept ==
    ASSUME RemotesInv, LinkInv,
           \A r \in Remote : Within(r)' = Within(r),
           \A r \in Remote : state'[r] = "none" <=> state[r] = "none",
           next_id' = next_id \/ (next_id \in Nat /\ next_id' \in Nat /\ next_id' > next_id),
           \A x \in Remote \ {Root} : input[x] = <<>> /\ x \notin Within(Root) => input'[x] = <<>>,
           \A r \in Remote : IsBegin(input'[r]) =>
              \/ \E s \in Remote : IsBegin(input[s]) /\ input'[r][1].message = input[s][1].message
              \/ input'[r][1].message.id = next_id /\ next_id \in Remote \ {Root},
           Origin'
    PROVE  LinkInv'
<1>0. Fresh /\ Sole /\ Unborn /\ Leaf /\ Root \in Remote /\ Remote \subseteq Nat
  BY RootIsRemote DEF RemotesInv, LinkInv
<1>1. Sole'
  BY <1>0 DEF Sole
<1>2. \A x \in Remote \ {Root} : input[x] = <<>> /\ (\E s \in Remote \ {Root} : x \in Within(s)) => input'[x] = <<>>
  BY <1>0 DEF Sole
<1>3. \A s, x \in Remote : x \in Within(s) => x # Root
  <2>1. \A s, x \in Remote : x \in Within(s) => s < x /\ s \in Nat
    BY <1>0 DEF Fresh, Within
  <2> QED
    BY <2>1 DEF Root
<1>4. Leaf'
  BY <1>0, <1>2, <1>3 DEF Leaf
<1>5. Unborn'
  <2>1. \A x \in Remote : state'[x] = "none" =>
           input'[x] = <<>> /\ Within(x)' = {} /\ \A r \in Remote : x \notin Within(r)'
    BY <1>0 DEF Unborn
  <2>2. \A x \in Remote \ {Root} : x >= next_id' => state'[x] = "none"
    <3> SUFFICES ASSUME NEW x \in Remote \ {Root}, x >= next_id' PROVE state[x] = "none"
      OBVIOUS
    <3>1. x >= next_id
      BY <1>0
    <3> QED
      BY <1>0, <3>1 DEF Unborn
  <2>3. \A r \in Remote : IsBegin(input'[r]) => state'[input'[r][1].message.id] = "none"
    <3> SUFFICES ASSUME NEW r \in Remote, IsBegin(input'[r]) PROVE state'[input'[r][1].message.id] = "none"
      OBVIOUS
    <3>1. CASE \E s \in Remote : IsBegin(input[s]) /\ input'[r][1].message = input[s][1].message
      <4>1. PICK s \in Remote : IsBegin(input[s]) /\ input'[r][1].message = input[s][1].message
        BY <3>1
      <4>2. input[s][1].message.id \in Remote
        <5>1. input[s] # <<>>
          BY <4>1, NothingAtFirst
        <5>2. Types
          BY DEF RemotesInv
        <5> QED
          BY <4>1, <5>1, <5>2, FirstRequest DEF IsBegin, RemoteMessage
      <4> QED
        BY <1>0, <4>1, <4>2 DEF Unborn
    <3>2. CASE input'[r][1].message.id = next_id /\ next_id \in Remote \ {Root}
      <4>1. next_id >= next_id
        BY <1>0, <3>2
      <4> QED
        BY <1>0, <3>2, <4>1 DEF Unborn
    <3> QED
      BY <3>1, <3>2
  <2>4. state'[Root] # "none"
    BY <1>0 DEF Unborn
  <2> QED
    BY <2>1, <2>2, <2>3, <2>4 DEF Unborn
<1> QED
  BY <1>1, <1>4, <1>5 DEF LinkInv

-----------------------------------------------------------------------------
(* What the shell does to its queues. *)

\* The shell at the prompt has sent a batch.
Sent(r, requests) ==
    /\ requests \in Batches
    /\ input' \in [Remote -> Seq(Request)]
    /\ input'[Root] = Addressed(r, requests)
    /\ \A s \in Remote \ {Root} : input'[s] = input[s]

BatchOfOne(requests, m) == requests = <<m>> /\ m \in CommandMessage
BatchOfTwo(requests, m, n) == requests = <<m, n>> /\ m \in RemoteMessage /\ n \in CommandMessage

LEMMA UserSends ==
    ASSUME RemotesInv, User
    PROVE  /\ AtPrompt
           /\ UNCHANGED <<state, output, starting, subbackends, relays, running, broken>>
           /\ next_id' = next_id \/ (next_id \in Nat /\ next_id' \in Nat /\ next_id' > next_id)
           /\ \/ UNCHANGED input
              \/ \E r \in Remote : \E requests : \E m \in CommandMessage \cup RemoteMessage : \E n \in CommandMessage :
                    /\ Sent(r, requests)
                    /\ BatchOfOne(requests, m) \/ BatchOfTwo(requests, m, n)
                    /\ m.type = "BeginRemote" => m.id = next_id /\ next_id \in Remote \ {Root}
<1>0. Types /\ Ids /\ next_id \in 0 .. MaxId + 1 /\ MaxId \in Nat /\ next_id \in Nat
  <2>1. next_id \in 0 .. MaxId + 1 /\ MaxId \in Nat
    BY RemotesAssumption DEF RemotesInv, Types
  <2> QED
    BY <2>1 DEF RemotesInv
<1>1. ASSUME AtPrompt, NEW r \in Remote, NEW requests, SendTo(r, requests), requests \in Batches,
             Addressed(r, requests) \in Seq(Request)
      PROVE  UNCHANGED input \/ Sent(r, requests)
  <2>1. input[Root] = <<>>
    BY <1>1, PromptIsQuiet, RootIsRemote
  <2>2. Sends(r, requests)
    BY <1>0, <1>1, <2>1, SendsBatch
  <2> QED
    BY <1>1, <2>2 DEF Sends, Sent
<1>2. next_id <= MaxId => next_id \in Remote /\ next_id + 1 \in Nat /\ next_id + 1 > next_id
  BY <1>0 DEF Remote
<1>3. \A p \in Remote : Command(p) \in CommandMessage /\ Command(p).type = "Command"
  BY DEF Command, CommandMessage
<1>4. CASE RunLine
  <2>1. AtPrompt /\ next_id <= MaxId /\ SendTo(cur_remote, <<Command(next_id)>>) /\ next_id' = next_id + 1
        /\ UNCHANGED <<state, output, starting, subbackends, relays, running, broken>>
    BY <1>4 DEF RunLine, tableVars
  <2>2. cur_remote \in Remote /\ <<Command(next_id)>> \in Batches
    BY <2>1, PromptStack DEF Batches
  <2> DEFINE m == Command(next_id)
  <2>3. m \in CommandMessage /\ m.type = "Command"
    BY <1>2, <1>3, <2>1
  <2> HIDE DEF m
  <2>4. Addressed(cur_remote, <<m>>) \in Seq(Request)
    BY <2>2, <2>3, AddressedOne
  <2>5. UNCHANGED input \/ Sent(cur_remote, <<m>>)
    BY <1>1, <2>1, <2>2, <2>4 DEF m
  <2>6. BatchOfOne(<<m>>, m)
    BY <2>3 DEF BatchOfOne
  <2> QED
    BY <1>0, <1>2, <2>1, <2>2, <2>3, <2>5, <2>6
<1>5. CASE Begin
  <2>1. AtPrompt /\ next_id + 1 <= MaxId
        /\ UNCHANGED <<state, output, starting, subbackends, relays, running, broken>>
    BY <1>5 DEF Begin, tableVars
  <2>2. CASE next_id \in DOMAIN remotes
    BY <1>5, <2>1, <2>2 DEF Begin
  <2>3. CASE next_id \notin DOMAIN remotes
    <3> DEFINE m == BeginRemote(next_id)
               n == Command(next_id + 1)
    <3>1. next_id' = next_id + 2 /\ SendTo(cur_remote, <<m, n>>)
      BY <1>5, <2>3 DEF Begin
    <3>2. next_id \in Remote \ {Root} /\ next_id + 1 \in Remote /\ next_id + 2 \in Nat /\ next_id + 2 > next_id
      <4>1. next_id # Root
        BY <1>0, <2>3 DEF Ids
      <4>2. next_id \in 0 .. MaxId /\ next_id + 1 \in 0 .. MaxId /\ next_id + 2 \in Nat /\ next_id + 2 > next_id
        BY <1>0, <2>1
      <4> QED
        BY <4>1, <4>2 DEF Remote
    <3>3. cur_remote \in Remote /\ <<m, n>> \in Batches
      BY <2>1, PromptStack DEF Batches
    <3>4. m \in RemoteMessage /\ m.type = "BeginRemote" /\ m.id = next_id /\ n \in CommandMessage
      BY <1>3, <3>2 DEF RemoteMessage, BeginRemote
    <3> HIDE DEF m, n
    <3>5. Addressed(cur_remote, <<m, n>>) \in Seq(Request)
      BY <3>3, <3>4, AddressedTwo
    <3>6. UNCHANGED input \/ Sent(cur_remote, <<m, n>>)
      BY <1>1, <2>1, <3>1, <3>3, <3>5
    <3>7. BatchOfTwo(<<m, n>>, m, n)
      BY <3>4 DEF BatchOfTwo
    <3> QED
      BY <1>0, <2>1, <3>1, <3>2, <3>3, <3>4, <3>6, <3>7
  <2> QED
    BY <2>2, <2>3
<1>6. CASE End
  <2> DEFINE closed == cur_remote
             parent == CHOOSE x \in remotes[closed] : TRUE
             m == EndRemote(closed)
             n == Command(next_id)
  <2>1. AtPrompt /\ next_id <= MaxId /\ next_id' = next_id + 1 /\ Len(stack) > 1 /\ SendTo(parent, <<m, n>>)
        /\ UNCHANGED <<state, output, starting, subbackends, relays, running, broken>>
    BY <1>6 DEF End, tableVars
  <2>2. Len(stack) \in 1 .. 2
    BY <2>1, PromptStack
  <2>3. Len(stack) = 2
    <3>1. \A k \in 1 .. 2 : k > 1 => k = 2
      OBVIOUS
    <3> QED
      BY <2>1, <2>2, <3>1
  <2>4. closed \in DOMAIN remotes /\ closed \in Remote /\ remotes[closed] = {Root}
    BY <2>1, <2>3, PromptStack
  <2>5. parent = Root /\ Root \in Remote
    BY <2>4, RootIsRemote
  <2>6. <<m, n>> \in Batches
    BY <2>4 DEF Batches
  <2>7. m \in RemoteMessage /\ m.type = "EndRemote" /\ n \in CommandMessage
    BY <1>2, <1>3, <2>1, <2>4 DEF RemoteMessage, EndRemote
  <2> HIDE DEF m, n, parent
  <2>8. Addressed(Root, <<m, n>>) \in Seq(Request)
    BY <2>5, <2>7, AddressedTwo
  <2>9. UNCHANGED input \/ Sent(Root, <<m, n>>)
    BY <1>1, <2>1, <2>5, <2>6, <2>8
  <2>10. BatchOfTwo(<<m, n>>, m, n)
    BY <2>7 DEF BatchOfTwo
  <2> QED
    BY <1>0, <1>2, <2>1, <2>5, <2>7, <2>9, <2>10
<1>7. CASE Exit
  BY <1>7 DEF Exit, backendVars, tableVars
<1> QED
  BY <1>4, <1>5, <1>6, <1>7 DEF User

-----------------------------------------------------------------------------
(* LinkInv, one step each.                                                 *)

LEMMA LinkUser ==
    ASSUME RemotesInv, LinkInv, User
    PROVE  LinkInv'
<1>1. /\ UNCHANGED <<state, output, starting, subbackends, relays, running, broken>>
      /\ next_id' = next_id \/ (next_id \in Nat /\ next_id' \in Nat /\ next_id' > next_id)
      /\ \/ UNCHANGED input
         \/ \E r \in Remote : \E requests : \E m \in CommandMessage \cup RemoteMessage : \E n \in CommandMessage :
               /\ Sent(r, requests)
               /\ BatchOfOne(requests, m) \/ BatchOfTwo(requests, m, n)
               /\ m.type = "BeginRemote" => m.id = next_id /\ next_id \in Remote \ {Root}
  BY UserSends
<1>2. \A x \in Remote \ {Root} : input'[x] = input[x]
  BY <1>1 DEF Sent
<1>3. ASSUME NEW r \in Remote, IsBegin(input'[r])
      PROVE  \/ \E s \in Remote : IsBegin(input[s]) /\ input'[r][1].message = input[s][1].message
             \/ input'[r][1].message.id = next_id /\ next_id \in Remote \ {Root}
  <2>1. CASE input'[r] = input[r]
    BY <1>3, <2>1
  <2>2. CASE r = Root /\ input'[r] # input[r]
    <3>1. ASSUME NEW t \in Remote, NEW requests, NEW m \in CommandMessage \cup RemoteMessage,
                 NEW n \in CommandMessage, Sent(t, requests),
                 BatchOfOne(requests, m) \/ BatchOfTwo(requests, m, n),
                 m.type = "BeginRemote" => m.id = next_id /\ next_id \in Remote \ {Root}
          PROVE  input'[r][1].message.id = next_id /\ next_id \in Remote \ {Root}
      <4>1. input'[Root] = Addressed(t, requests)
        BY <3>1 DEF Sent
      <4>2. Addressed(t, requests)[1] = [remote_id |-> t, message |-> m]
        <5>1. Addressed(t, <<m>>)[1] = [remote_id |-> t, message |-> m]
          BY AddressedOne
        <5>2. n \in CommandMessage \cup RemoteMessage
          OBVIOUS
        <5>3. Addressed(t, <<m, n>>)[1] = [remote_id |-> t, message |-> m]
          BY <5>2, AddressedTwo
        <5> QED
          BY <3>1, <5>1, <5>3 DEF BatchOfOne, BatchOfTwo
      <4>3. input'[r][1].message = m
        BY <2>2, <4>1, <4>2
      <4> QED
        BY <1>3, <3>1, <4>3 DEF IsBegin
    <3> QED
      BY <1>1, <2>2, <3>1
  <2> QED
    BY <1>2, <2>1, <2>2
<1>4. Origin'
  BY <1>1 DEF LinkInv, Origin
<1>5. \A r \in Remote : Within(r)' = Within(r)
  BY <1>1 DEF Within
<1> QED
  BY <1>1, <1>2, <1>3, <1>4, <1>5, LinksKept

LEMMA LinkShell ==
    ASSUME RemotesInv, LinkInv, Shell
    PROVE  LinkInv'
<1>1. PICK type : Receive(type)
  BY DEF Shell, ReceiveRemoteReady, ReceiveCommandDone
<1>2. Drops(Root) /\ UNCHANGED <<next_id, state, input, starting, subbackends, relays>>
  BY <1>1, ReceivesOne
<1>3. \A s \in Remote \ {Root} : output'[s] = output[s]
  BY <1>2 DEF Drops
<1>4. Origin'
  BY <1>2, <1>3 DEF LinkInv, Origin
<1>5. \A r \in Remote : Within(r)' = Within(r)
  BY <1>2 DEF Within
<1>6. \A r \in Remote : IsBegin(input'[r]) => IsBegin(input[r]) /\ input'[r][1].message = input[r][1].message
  BY <1>2
<1> QED
  BY <1>2, <1>4, <1>5, <1>6, LinksKept

\* Nothing but the state of one process changes, from begun to begun.
LEMMA LinkState ==
    ASSUME RemotesInv, LinkInv, NEW r \in Remote, NEW new \in {"live", "gone"},
           state' = [state EXCEPT ![r] = new], state[r] # "none",
           UNCHANGED <<next_id, input, tableVars>>, Origin'
    PROVE  LinkInv'
<1>1. state \in [Remote -> {"none", "starting", "live", "gone"}]
  BY DEF RemotesInv, Types
<1>2. \A s \in Remote : state'[s] = "none" <=> state[s] = "none"
  BY <1>1
<1>3. \A s \in Remote : Within(s)' = Within(s)
  BY DEF Within, tableVars
<1>4. \A s \in Remote : IsBegin(input'[s]) => IsBegin(input[s]) /\ input'[s][1].message = input[s][1].message
  OBVIOUS
<1> QED
  BY <1>2, <1>3, <1>4, LinksKept

LEMMA LinkPanic ==
    ASSUME RemotesInv, LinkInv, NEW r \in Remote, state[r] = "live", Panic(r), UNCHANGED <<next_id, output>>
    PROVE  LinkInv'
<1>1. Origin'
  BY DEF LinkInv, Origin, Panic, tableVars
<1> QED
  BY <1>1, LinkState DEF Panic

\* A request that a backend takes for itself, if it begins nothing.
LEMMA LinkTaken ==
    ASSUME RemotesInv, LinkInv, NEW r \in Remote, input[r] # <<>>, ForItself(r), Taken(r),
           \A s \in Remote : state'[s] = "none" <=> state[s] = "none",
           UNCHANGED <<next_id, output, starting, relays>>
    PROVE  LinkInv'
<1>1. TookIts(r)
  BY TakesItsFirst DEF RemotesInv
<1>2. \A s \in Remote \ {Root} : input[s] = <<>> => input'[s] = <<>>
  BY <1>1 DEF TookIts
<1>3. \A s \in Remote : IsBegin(input'[s]) =>
         \E t \in Remote : IsBegin(input[t]) /\ input'[s][1].message = input[t][1].message
  BY <1>1 DEF TookIts, InputsFrom
<1>4. Origin'
  BY DEF LinkInv, Origin
<1>5. \A s \in Remote : Within(s)' = Within(s)
  BY DEF Within
<1> QED
  BY <1>2, <1>3, <1>4, <1>5, LinksKept

LEMMA LinkTakeEnd ==
    ASSUME RemotesInv, LinkInv, NEW r \in Remote, CanTake(r), ForItself(r), TakeEndRemote(r),
           UNCHANGED <<shellVars, output, broken>>
    PROVE  LinkInv'
<1> DEFINE id == Head(input[r]).message.id
<1>1. Types /\ Unborn /\ input[r] # <<>> /\ state[r] = "live" /\ next_id' = next_id
  BY DEF CanTake, RemotesInv, LinkInv, shellVars
<1>2. CASE id \in subbackends[r]
  <2>1. Taken(r) /\ state' = [state EXCEPT ![id] = "gone"] /\ UNCHANGED <<starting, relays>>
    BY <1>2 DEF TakeEndRemote
  <2>2. id \in relays[r] /\ id \in Remote
    <3>1. subbackends[r] \subseteq relays[r] /\ relays[r] \subseteq Remote
      BY <1>1 DEF Types
    <3> HIDE DEF id
    <3> QED
      BY <1>2, <3>1
  <2>3. state[id] # "none"
    BY <1>1, <2>2 DEF Unborn, Within
  <2>4. \A s \in Remote : state'[s] = "none" <=> state[s] = "none"
    <3> HIDE DEF id
    <3>1. state \in [Remote -> {"none", "starting", "live", "gone"}]
      BY <1>1 DEF Types
    <3> QED
      BY <2>1, <2>2, <2>3, <3>1
  <2> QED
    BY <1>1, <2>1, <2>4, LinkTaken
<1>3. CASE id \notin subbackends[r]
  BY <1>1, <1>3, LinkPanic DEF TakeEndRemote
<1> QED
  BY <1>2, <1>3

LEMMA LinkTakeBegin ==
    ASSUME RemotesInv, LinkInv, NEW r \in Remote, CanTake(r), ForItself(r), TakeBeginRemote(r),
           UNCHANGED <<shellVars, output, broken>>
    PROVE  LinkInv'
<1> DEFINE id == input[r][1].message.id
<1>0. /\ Types /\ Flow /\ Fresh /\ Sole /\ Unborn /\ Leaf /\ Origin
      /\ input[r] # <<>> /\ starting[r] = {} /\ state[r] = "live"
      /\ UNCHANGED <<next_id, output, relays>>
      /\ Root \in Remote /\ Remote \subseteq Nat /\ Taken(r)
  BY RootIsRemote DEF CanTake, RemotesInv, LinkInv, shellVars, TakeBeginRemote
<1>1. Head(input[r]) = input[r][1] /\ id \in Remote /\ IsBegin(input[r]) /\ IsOther(input[r], 1)
  <2>1. Head(input[r]).message.type = "BeginRemote" /\ Head(input[r]) = input[r][1]
    BY <1>0, FirstRequest DEF TakeBeginRemote
  <2>2. IsOther(input[r], 1) /\ input[r][1].message \in RemoteMessage
    BY <1>0, <2>1, FirstRequest DEF IsCommand
  <2> QED
    BY <2>1, <2>2 DEF IsBegin, RemoteMessage
<1>2. state' = [state EXCEPT ![id] = "starting"] /\ starting' = [starting EXCEPT ![r] = {id}]
  BY <1>1 DEF TakeBeginRemote
<1>3. TookIts(r)
  BY <1>0, TakesItsFirst
<1>4. state[id] = "none" /\ id # Root /\ id # r /\ id < next_id
  BY <1>0, <1>1 DEF Unborn, Fresh
<1>5. input[id] = <<>> /\ Within(id) = {} /\ \A s \in Remote : id \notin Within(s)
  BY <1>0, <1>1, <1>4 DEF Unborn
<1>6. \A s \in Remote : ~IsBegin(input'[s])
  BY <1>1, <1>3 DEF TookIts, IsBegin
<1> HIDE DEF id
<1>7. /\ \A s \in Remote \ {id} : state'[s] = state[s] /\ state'[id] = "starting"
      /\ starting'[r] = {id} /\ \A s \in Remote \ {r} : starting'[s] = starting[s]
  <2>1. starting \in [Remote -> SUBSET Remote] /\ state \in [Remote -> {"none", "starting", "live", "gone"}]
    BY <1>0 DEF Types
  <2> QED
    BY <1>1, <1>2, <2>1
<1>8. /\ Within(r)' = Within(r) \cup {id}
      /\ \A s \in Remote \ {r} : Within(s)' = Within(s)
  BY <1>0, <1>7 DEF Within
<1>9. \A s \in Remote \ {r} : input'[s] = input[s]
  BY <1>3 DEF TookIts
<1>10. \A s \in Remote : state[s] = "none" => s # r
  BY <1>0
<1>11. Sole'
  BY <1>0, <1>5, <1>8 DEF Sole
<1>12. Unborn'
  <2>1. state'[Root] # "none"
    BY <1>0, <1>4, <1>7 DEF Unborn
  <2>2. \A x \in Remote \ {id} : state[x] = "none" =>
           input'[x] = <<>> /\ Within(x)' = {} /\ \A s \in Remote : x \notin Within(s)'
    BY <1>0, <1>8, <1>9, <1>10 DEF Unborn
  <2>3. \A x \in Remote \ {Root} : x >= next_id => x # id /\ state'[x] = "none"
    <3>1. \A x \in Remote : x >= next_id => x # id
      <4>1. next_id \in Nat
        <5>1. next_id \in 0 .. MaxId + 1 /\ MaxId \in Nat
          BY <1>0, RemotesAssumption DEF Types
        <5> QED
          BY <5>1
      <4> QED
        BY <1>0, <1>1, <1>4, <4>1
    <3> QED
      BY <1>0, <1>7, <3>1 DEF Unborn
  <2> QED
    BY <1>0, <1>6, <1>7, <2>1, <2>2, <2>3 DEF Unborn
<1>13. Leaf'
  <2> SUFFICES ASSUME NEW s \in Remote \ {Root}, NEW x \in Remote, x \in Within(s)'
               PROVE  input'[x] = <<>> /\ Within(x)' = {}
    BY DEF Leaf
  <2>1. CASE x = id
    BY <1>1, <1>4, <1>5, <1>8, <1>9, <2>1
  <2>2. CASE x # id
    <3>1. x \in Within(s)
      BY <1>8, <2>2
    <3>2. input[x] = <<>> /\ Within(x) = {}
      BY <1>0, <3>1 DEF Leaf
    <3>3. x # r
      BY <1>0, <3>2
    <3> QED
      BY <1>8, <1>9, <3>2, <3>3
  <2> QED
    BY <2>1, <2>2
<1>14. Origin'
  BY <1>0 DEF Origin
<1> QED
  BY <1>11, <1>12, <1>13, <1>14 DEF LinkInv

LEMMA LinkTakeCommand ==
    ASSUME RemotesInv, LinkInv, NEW r \in Remote, CanTake(r), ForItself(r), TakeCommand(r),
           UNCHANGED <<shellVars, output, broken>>
    PROVE  LinkInv'
<1>1. /\ input[r] # <<>> /\ Taken(r)
      /\ UNCHANGED <<next_id, output, state, starting, relays>>
  BY DEF CanTake, TakeCommand, shellVars
<1>2. \A s \in Remote : state'[s] = "none" <=> state[s] = "none"
  BY <1>1
<1> QED
  BY <1>1, <1>2, LinkTaken

\* What the root passes on is for a backend within it.
LEMMA PassedOn ==
    ASSUME RemotesInv, NEW r \in Remote, CanTake(r), ~ForItself(r), PassOn(r)
    PROVE  \/ state[r] = "live" /\ Panic(r)
           \/ LET c == input[Root][1].remote_id IN
              /\ r = Root /\ c \in Remote \ {Root} /\ c \in Within(Root) /\ input[Root] # <<>>
              /\ InputTaken(Root)
              /\ Len(input'[c]) = Len(input[c]) + 1
              /\ \A i \in 1 .. Len(input[c]) : input'[c][i] = input[c][i]
              /\ input'[c][Len(input[c]) + 1] = [remote_id |-> Root, message |-> input[Root][1].message]
              /\ \A s \in Remote \ {Root, c} : input'[s] = input[s]
              /\ UNCHANGED <<state, starting, subbackends, relays, running>>
<1> DEFINE c == input[r][1].remote_id
<1>0. Types /\ Flow /\ input[r] # <<>> /\ state[r] = "live"
  BY DEF RemotesInv, CanTake
<1>1. Head(input[r]) = input[r][1] /\ 1 \in 1 .. Len(input[r]) /\ c \in Remote
  BY <1>0, FirstRequest
<1>2. c # Root
  BY <1>1 DEF ForItself, Root
<1>3. r = Root
  BY <1>0, <1>1, <1>2 DEF Flow
<1>4. CASE ~(c \in subbackends[r] /\ state[c] # "gone")
  BY <1>0, <1>1, <1>4 DEF PassOn
<1>5. CASE c \in subbackends[r] /\ state[c] # "gone"
  <2>1. /\ input' = [input EXCEPT ![r] = Tail(@), ![c] = Append(@, [input[r][1] EXCEPT !.remote_id = 0])]
        /\ UNCHANGED <<state, starting, subbackends, relays, running>>
    BY <1>1, <1>5 DEF PassOn, tableVars
  <2>2. c \in Within(Root)
    BY <1>0, <1>3, <1>5, RootIsRemote DEF Types, Within
  <2> HIDE DEF c
  <2>3. c \in Remote \ {r}
    BY <1>1, <1>2, <1>3
  <2>4. /\ InputTaken(r)
        /\ Len(input'[c]) = Len(input[c]) + 1
        /\ \A i \in 1 .. Len(input[c]) : input'[c][i] = input[c][i]
        /\ input'[c][Len(input[c]) + 1] = [remote_id |-> Root, message |-> input[r][1].message]
        /\ \A s \in Remote \ {r, c} : input'[s] = input[s]
    BY <1>0, <2>1, <2>3, PassesHead, ZenonT(40)
  <2>5. c = input[Root][1].remote_id
    BY <1>3 DEF c
  <2> QED
    BY <1>0, <1>3, <2>1, <2>2, <2>3, <2>4, <2>5
<1> QED
  BY <1>4, <1>5

LEMMA LinkPassOn ==
    ASSUME RemotesInv, LinkInv, NEW r \in Remote, CanTake(r), ~ForItself(r), PassOn(r),
           UNCHANGED <<shellVars, output, broken>>
    PROVE  LinkInv'
<1> DEFINE c == input[Root][1].remote_id
<1>0. Types /\ Flow /\ next_id' = next_id
  BY DEF RemotesInv, shellVars
<1>1. CASE state[r] = "live" /\ Panic(r)
  BY <1>0, <1>1, LinkPanic
<1>2. CASE /\ r = Root /\ c \in Remote \ {Root} /\ c \in Within(Root) /\ input[Root] # <<>>
           /\ InputTaken(Root)
           /\ Len(input'[c]) = Len(input[c]) + 1
           /\ \A i \in 1 .. Len(input[c]) : input'[c][i] = input[c][i]
           /\ input'[c][Len(input[c]) + 1] = [remote_id |-> Root, message |-> input[Root][1].message]
           /\ \A s \in Remote \ {Root, c} : input'[s] = input[s]
           /\ UNCHANGED <<state, starting, subbackends, relays, running>>
  <2>1. InputsFrom
    BY <1>0, <1>2, FlowOfPassed
  <2>2. \A s \in Remote : IsBegin(input'[s]) =>
           \E t \in Remote : IsBegin(input[t]) /\ input'[s][1].message = input[t][1].message
    BY <2>1 DEF InputsFrom
  <2> HIDE DEF c
  <2>3. \A x \in Remote \ {Root} : input[x] = <<>> /\ x \notin Within(Root) => input'[x] = <<>>
    BY <1>2
  <2>4. \A s \in Remote : Within(s)' = Within(s)
    BY <1>2 DEF Within
  <2>5. Origin'
    BY <1>2 DEF LinkInv, Origin
  <2>6. \A s \in Remote : state'[s] = "none" <=> state[s] = "none"
    BY <1>2
  <2> QED
    BY <1>0, <2>2, <2>3, <2>4, <2>5, <2>6, LinksKept
<1> QED
  BY <1>1, <1>2, PassedOn

LEMMA ConnectsOne ==
    ASSUME RemotesInv, NEW r \in Remote, Connect(r)
    PROVE  /\ state[r] = "live" /\ UNCHANGED <<next_id, output>>
           /\ \/ Panic(r)
              \/ /\ UNCHANGED <<state, input, running>>
                 /\ \E c \in Remote :
                       /\ starting[r] = {c}
                       /\ relays'[r] = relays[r] \cup {c} /\ starting'[r] = {}
                       /\ \A s \in Remote \ {r} : relays'[s] = relays[s] /\ starting'[s] = starting[s]
<1>0. Types /\ state[r] = "live" /\ UNCHANGED <<next_id, output>>
  BY DEF RemotesInv, Connect, shellVars
<1>1. PICK c \in starting[r] :
          \/ /\ relays' = [relays EXCEPT ![r] = @ \cup {c}]
             /\ starting' = [starting EXCEPT ![r] = {}]
             /\ UNCHANGED <<state, input, running>>
          \/ Panic(r)
  BY DEF Connect, WithRelay
<1>2. starting[r] = {c} /\ c \in Remote
  <2>1. starting[r] \subseteq Remote /\ \A x, y \in starting[r] : x = y
    BY <1>0 DEF Types
  <2> QED
    BY <2>1
<1>3. relays \in [Remote -> SUBSET Remote] /\ starting \in [Remote -> SUBSET Remote]
  BY <1>0 DEF Types
<1>4. CASE relays' = [relays EXCEPT ![r] = @ \cup {c}] /\ starting' = [starting EXCEPT ![r] = {}]
  <2>1. /\ relays'[r] = relays[r] \cup {c} /\ starting'[r] = {}
        /\ \A s \in Remote \ {r} : relays'[s] = relays[s] /\ starting'[s] = starting[s]
    BY <1>3, <1>4
  <2> QED
    BY <1>0, <1>1, <1>2, <2>1
<1> QED
  BY <1>0, <1>1, <1>4

LEMMA LinkConnect ==
    ASSUME RemotesInv, LinkInv, NEW r \in Remote, Connect(r)
    PROVE  LinkInv'
<1>1. /\ state[r] = "live" /\ UNCHANGED <<next_id, output>>
      /\ \/ Panic(r)
         \/ /\ UNCHANGED <<state, input, running>>
            /\ \E c \in Remote :
                  /\ starting[r] = {c}
                  /\ relays'[r] = relays[r] \cup {c} /\ starting'[r] = {}
                  /\ \A s \in Remote \ {r} : relays'[s] = relays[s] /\ starting'[s] = starting[s]
  BY ConnectsOne
<1>2. CASE Panic(r)
  BY <1>1, <1>2, LinkPanic
<1>3. CASE /\ UNCHANGED <<state, input, running>>
           /\ \E c \in Remote :
                 /\ starting[r] = {c}
                 /\ relays'[r] = relays[r] \cup {c} /\ starting'[r] = {}
                 /\ \A s \in Remote \ {r} : relays'[s] = relays[s] /\ starting'[s] = starting[s]
  <2>1. PICK c \in Remote :
           /\ starting[r] = {c}
           /\ relays'[r] = relays[r] \cup {c} /\ starting'[r] = {}
           /\ \A s \in Remote \ {r} : relays'[s] = relays[s] /\ starting'[s] = starting[s]
    BY <1>3
  <2>2. \A s \in Remote : Within(s)' = Within(s)
    BY <2>1 DEF Within
  <2>3. \A s \in Remote : relays[s] \subseteq relays'[s]
    BY <2>1
  <2>4. Origin'
    BY <1>1, <2>3 DEF LinkInv, Origin
  <2>5. /\ \A s \in Remote : state'[s] = "none" <=> state[s] = "none"
        /\ \A x \in Remote : input'[x] = input[x]
    BY <1>3
  <2> QED
    BY <1>1, <2>2, <2>4, <2>5, LinksKept
<1> QED
  BY <1>1, <1>2, <1>3

LEMMA LinkEndOfInput ==
    ASSUME RemotesInv, LinkInv, NEW r \in Remote, EndOfInput(r)
    PROVE  LinkInv'
<1>1. /\ state[r] = "live" /\ state' = [state EXCEPT ![r] = "gone"]
      /\ UNCHANGED <<next_id, input, output, tableVars, relays>>
  BY DEF EndOfInput, shellVars, tableVars
<1>2. Origin'
  BY <1>1 DEF LinkInv, Origin
<1> QED
  BY <1>1, <1>2, LinkState

LEMMA LinkDies ==
    ASSUME RemotesInv, LinkInv, NEW r \in Remote, Dies(r)
    PROVE  LinkInv'
<1>1. /\ state[r] # "none" /\ state' = [state EXCEPT ![r] = "gone"]
      /\ UNCHANGED <<next_id, input, output, tableVars, relays>>
  BY DEF Dies, shellVars, tableVars
<1>2. Origin'
  BY <1>1 DEF LinkInv, Origin
<1> QED
  BY <1>1, <1>2, LinkState

\* A response of a backend of its own.
LEMMA OriginAdds ==
    ASSUME Types, Origin, NEW r \in Remote, NEW m, Adds(r, m), m.from = r, UNCHANGED relays
    PROVE  Origin'
<1> SUFFICES ASSUME NEW s \in Remote \ {Root}, NEW i \in 1 .. Len(output'[s])
             PROVE  output'[s][i].from \in {s} \cup relays[s]
  BY DEF Origin
<1>1. CASE s # r
  BY <1>1 DEF Origin, Adds
<1>2. CASE s = r /\ i \in 1 .. Len(output[r])
  BY <1>2 DEF Origin, Adds
<1>3. CASE s = r /\ i = Len(output[r]) + 1
  BY <1>3 DEF Adds
<1>4. Len(output[r]) \in Nat
  BY OutputLen
<1>5. s = r => i \in 1 .. Len(output[r]) + 1
  BY DEF Adds
<1> QED
  BY <1>1, <1>2, <1>3, <1>4, <1>5

LEMMA LinkStart ==
    ASSUME RemotesInv, LinkInv, NEW r \in Remote, Start(r)
    PROVE  LinkInv'
<1> DEFINE m == [remote_id |-> Root, from |-> r, message |-> ReadyMessage]
<1>1. /\ Types /\ Origin /\ state[r] # "none" /\ state' = [state EXCEPT ![r] = "live"]
      /\ Responds(r, ReadyMessage)
      /\ UNCHANGED <<next_id, input, tableVars, relays>>
  BY DEF Start, shellVars, tableVars, RemotesInv, LinkInv, ReadyMessage
<1>2. Adds(r, m)
  BY <1>1, RespondsAdds DEF Messages
<1>3. Origin'
  BY <1>1, <1>2, OriginAdds
<1> QED
  BY <1>1, <1>3, LinkState

LEMMA LinkAnswer ==
    ASSUME RemotesInv, LinkInv, NEW r \in Remote, Answer(r)
    PROVE  LinkInv'
<1>1. Types /\ Origin /\ UNCHANGED <<next_id, state, input, starting, relays>>
  BY DEF Answer, shellVars, RemotesInv, LinkInv
<1>2. PICK p \in running[r] : Responds(r, [type |-> "CommandDone", pid |-> p])
  BY DEF Answer
<1> DEFINE m == [type |-> "CommandDone", pid |-> p]
<1>3. m \in Messages
  BY <1>1 DEF Messages, Types
<1> HIDE DEF m
<1>4. Adds(r, [remote_id |-> Root, from |-> r, message |-> m])
  BY <1>1, <1>2, <1>3, RespondsAdds DEF m
<1>5. Origin'
  BY <1>1, <1>4, OriginAdds
<1>6. \A s \in Remote : Within(s)' = Within(s)
  BY <1>1 DEF Within
<1>7. \A s \in Remote : IsBegin(input'[s]) => IsBegin(input[s]) /\ input'[s][1].message = input[s][1].message
  BY <1>1
<1>8. /\ \A s \in Remote : state'[s] = "none" <=> state[s] = "none"
      /\ \A x \in Remote \ {Root} : input[x] = <<>> => input'[x] = <<>>
  BY <1>1
<1> QED
  BY <1>1, <1>5, <1>6, <1>7, <1>8, LinksKept

\* What the relay of a backend moves comes, but for the root's, from the backend it is within.
LEMMA RelayedFrom ==
    ASSUME RemotesInv, LinkInv, NEW r \in Remote, NEW c \in Remote, Relay(r, c)
    PROVE  /\ c # r /\ c # Root /\ c \in relays[r] /\ Moves(r, c) /\ output[c] # <<>>
           /\ output[c][1] \in Answered /\ 1 \in 1 .. Len(output[c])
           /\ output[c][1].from = c \/ (r = Root /\ output[c][1].from \in relays[c])
           /\ UNCHANGED <<next_id, state, input, starting, subbackends, relays, running>>
<1>0. /\ Types /\ Fresh /\ Leaf /\ Origin
      /\ UNCHANGED <<next_id, state, input, starting, subbackends, relays, running>>
      /\ c \in relays[r] /\ output[c] # <<>>
  BY DEF RemotesInv, LinkInv, Relay, shellVars, tableVars
<1>1. c # r /\ c # Root
  <2>1. r < c /\ r \in Nat
    BY <1>0, RootIsRemote DEF Fresh
  <2> QED
    BY <2>1 DEF Root
<1>2. Moves(r, c) /\ output[c][1] \in Answered /\ 1 \in 1 .. Len(output[c])
  BY <1>0, <1>1, RelayMoves DEF Relay
<1>3. output[c][1].from \in {c} \cup relays[c]
  BY <1>0, <1>1, <1>2 DEF Origin
<1>4. r # Root => relays[c] = {}
  BY <1>0 DEF Leaf, Within
<1> QED
  BY <1>0, <1>1, <1>2, <1>3, <1>4

LEMMA LinkRelay ==
    ASSUME RemotesInv, LinkInv, NEW r \in Remote, NEW c \in Remote, Relay(r, c)
    PROVE  LinkInv'
<1>0. Types /\ Origin
  BY DEF RemotesInv, LinkInv
<1>1. /\ c # r /\ c # Root /\ c \in relays[r] /\ Moves(r, c) /\ output[c] # <<>>
      /\ output[c][1] \in Answered /\ 1 \in 1 .. Len(output[c])
      /\ output[c][1].from = c \/ (r = Root /\ output[c][1].from \in relays[c])
      /\ UNCHANGED <<next_id, state, input, starting, relays>>
  BY RelayedFrom
<1>2. Stamp(output[c][1], c).from = output[c][1].from
  BY <1>1 DEF Answered, Stamp
<1>3. Len(output[c]) \in Nat /\ Len(output[r]) \in Nat
  BY <1>0, OutputLen
<1>4. Origin'
  <2> SUFFICES ASSUME NEW s \in Remote \ {Root}, NEW i \in 1 .. Len(output'[s])
               PROVE  output'[s][i].from \in {s} \cup relays[s]
    BY <1>1 DEF Origin
  <2>1. CASE s = c
    <3>1. i \in 1 .. Len(output[c]) - 1 /\ i + 1 \in 1 .. Len(output[c]) /\ output'[c][i] = output[c][i + 1]
      BY <1>1, <1>3, <2>1 DEF Moves
    <3> QED
      BY <1>0, <1>1, <2>1, <3>1 DEF Origin
  <2>2. CASE s = r
    <3>1. i \in 1 .. Len(output[r]) \/ i = Len(output[r]) + 1
      BY <1>1, <1>3, <2>2 DEF Moves
    <3>2. CASE i \in 1 .. Len(output[r])
      BY <1>0, <1>1, <2>2, <3>2 DEF Origin, Moves
    <3>3. CASE i = Len(output[r]) + 1
      BY <1>1, <1>2, <2>2, <3>3 DEF Moves
    <3> QED
      BY <3>1, <3>2, <3>3
  <2>3. CASE s \notin {r, c}
    BY <1>0, <1>1, <2>3 DEF Origin, Moves
  <2> QED
    BY <2>1, <2>2, <2>3
<1>5. \A s \in Remote : Within(s)' = Within(s)
  BY <1>1 DEF Within
<1>6. \A s \in Remote : IsBegin(input'[s]) => IsBegin(input[s]) /\ input'[s][1].message = input[s][1].message
  BY <1>1
<1>7. /\ \A s \in Remote : state'[s] = "none" <=> state[s] = "none"
      /\ \A x \in Remote \ {Root} : input[x] = <<>> => input'[x] = <<>>
  BY <1>1
<1> QED
  BY <1>1, <1>4, <1>5, <1>6, <1>7, LinksKept

LEMMA LinkInit == Init => LinkInv
<1> SUFFICES ASSUME Init PROVE LinkInv
  OBVIOUS
<1>0. Root \in Remote /\ Remote \subseteq Nat
  BY RootIsRemote
<1>1. /\ \A s \in Remote : input[s] = <<>> /\ starting[s] = {} /\ relays[s] = {}
      /\ \A s \in Remote : s # Root => state[s] = "none"
      /\ state[Root] = "live"
      /\ \A s \in Remote \ {Root} : output[s] = <<>>
  BY <1>0 DEF Init
<1>2. \A s \in Remote : Within(s) = {} /\ ~IsBegin(input[s])
  BY <1>1, NothingAtFirst DEF Within
<1>3. Sole /\ Leaf
  BY <1>2 DEF Sole, Leaf
<1>4. Unborn
  BY <1>0, <1>1, <1>2 DEF Unborn
<1>5. Origin
  BY <1>1 DEF Origin
<1> QED
  BY <1>3, <1>4, <1>5 DEF LinkInv

LEMMA LinkNext == RemotesInv /\ LinkInv /\ [Next]_vars => LinkInv'
<1> SUFFICES ASSUME RemotesInv, LinkInv, [Next]_vars PROVE LinkInv'
  OBVIOUS
<1>1. CASE User
  BY <1>1, LinkUser
<1>2. CASE Shell
  BY <1>2, LinkShell
<1>3. ASSUME NEW r \in Remote, TakeRequest(r) PROVE LinkInv'
  <2>1. CanTake(r) /\ UNCHANGED <<shellVars, output, broken>>
    BY <1>3 DEF TakeRequest
  <2>2. CASE ForItself(r) /\ TakeCommand(r)
    BY <2>1, <2>2, LinkTakeCommand
  <2>3. CASE ForItself(r) /\ TakeBeginRemote(r)
    BY <2>1, <2>3, LinkTakeBegin
  <2>4. CASE ForItself(r) /\ TakeEndRemote(r)
    BY <2>1, <2>4, LinkTakeEnd
  <2>5. CASE ~ForItself(r) /\ PassOn(r)
    BY <2>1, <2>5, LinkPassOn
  <2> QED
    BY <1>3, <2>2, <2>3, <2>4, <2>5 DEF TakeRequest
<1>4. ASSUME NEW r \in Remote, MainThread(r) PROVE LinkInv'
  BY <1>3, <1>4, LinkConnect, LinkEndOfInput DEF MainThread
<1>5. ASSUME NEW r \in Remote, Start(r) \/ Answer(r) \/ Dies(r) PROVE LinkInv'
  BY <1>5, LinkStart, LinkAnswer, LinkDies
<1>6. ASSUME NEW r \in Remote, NEW c \in Remote, Relay(r, c) PROVE LinkInv'
  BY <1>6, LinkRelay
<1>7. CASE UNCHANGED vars
  <2>1. UNCHANGED <<next_id, state, input, output, starting, relays>>
    BY <1>7 DEF vars, shellVars, backendVars, tableVars
  <2>2. \A s \in Remote : Within(s)' = Within(s)
    BY <2>1 DEF Within
  <2>3. \A s \in Remote : IsBegin(input'[s]) => IsBegin(input[s]) /\ input'[s][1].message = input[s][1].message
    BY <2>1
  <2>4. Origin'
    BY <2>1 DEF LinkInv, Origin
  <2>5. /\ \A s \in Remote : state'[s] = "none" <=> state[s] = "none"
        /\ \A x \in Remote \ {Root} : input[x] = <<>> => input'[x] = <<>>
    BY <2>1
  <2> QED
    BY <2>1, <2>2, <2>3, <2>4, <2>5, LinksKept
<1> QED
  BY <1>1, <1>2, <1>4, <1>5, <1>6, <1>7 DEF Next

LEMMA LinkInvariant == Spec => [](RemotesInv /\ LinkInv)
<1>1. Init => RemotesInv /\ LinkInv
  BY InvInit, LinkInit
<1>2. RemotesInv /\ LinkInv /\ [Next]_vars => (RemotesInv /\ LinkInv)'
  BY InvNext, LinkNext
<1> QED
  BY <1>1, <1>2, PTL DEF Spec

-----------------------------------------------------------------------------
(* The lines of Links, where a request or a response joins them, leaves    *)
(* them and goes from one part of them to the next.                        *)

LEMMA Joined ==
    ASSUME NEW M, NEW a \in Seq(M), NEW b \in Seq(M)
    PROVE  a \o b \in Seq(M) /\ Len(a \o b) = Len(a) + Len(b)
  OBVIOUS

LEMMA JoinedEmpty == ASSUME NEW M, NEW a \in Seq(M) PROVE a \o <<>> = a /\ <<>> \o a = a
  OBVIOUS

LEMMA JoinedThree ==
    ASSUME NEW M, NEW a \in Seq(M), NEW b \in Seq(M), NEW c \in Seq(M)
    PROVE  (a \o b) \o c = a \o (b \o c)
<1>1. Len((a \o b) \o c) = Len(a) + Len(b) + Len(c) /\ Len(a \o (b \o c)) = Len(a) + Len(b) + Len(c)
  OBVIOUS
<1>2. (a \o b) \o c \in Seq(M) /\ a \o (b \o c) \in Seq(M)
  OBVIOUS
<1>3. \A i \in 1 .. Len(a) + Len(b) + Len(c) : ((a \o b) \o c)[i] = (a \o (b \o c))[i]
  OBVIOUS
<1> QED
  BY <1>1, <1>2, <1>3, SeqEqual

\* The first of the one part is the last of the part in front of it.
LEMMA PassesOver ==
    ASSUME NEW M, NEW a \in Seq(M), NEW b \in Seq(M), NEW x \in M
    PROVE  Append(a, x) \o b = a \o (<<x>> \o b)
<1>1. Append(a, x) = a \o <<x>> /\ <<x>> \in Seq(M)
  OBVIOUS
<1> QED
  BY <1>1, JoinedThree

LEMMA FirstAndRest ==
    ASSUME NEW M, NEW a \in Seq(M), NEW x \in M
    PROVE  <<x>> \o a # <<>> /\ Head(<<x>> \o a) = x /\ Tail(<<x>> \o a) = a
<1>1. <<x>> \o a \in Seq(M) /\ Len(<<x>> \o a) = Len(a) + 1 /\ Len(a) \in Nat
  OBVIOUS
<1>2. \A i \in 1 .. Len(a) : (<<x>> \o a)[i + 1] = a[i]
  OBVIOUS
<1>3. (<<x>> \o a)[1] = x
  OBVIOUS
<1>4. <<x>> \o a # <<>>
  BY <1>1, EmptyLen
<1> DEFINE q == <<x>> \o a
<1> HIDE DEF q
<1>5. /\ Tail(q) \in Seq(M) /\ Len(Tail(q)) = Len(q) - 1 /\ Head(q) = q[1]
      /\ \A i \in 1 .. Len(q) - 1 : Tail(q)[i] = q[i + 1]
  BY <1>1, <1>4, TailIndex DEF q
<1>6. Len(Tail(q)) = Len(a) /\ \A i \in 1 .. Len(Tail(q)) : Tail(q)[i] = a[i]
  BY <1>1, <1>2, <1>5 DEF q
<1>7. Tail(q) = a
  BY <1>5, <1>6, SeqEqual
<1> QED
  BY <1>3, <1>4, <1>5, <1>7 DEF q

\* A function that differs from another at one place.
LEMMA OnePlace ==
    ASSUME NEW D, NEW f, NEW g, f = [x \in D |-> f[x]], g = [x \in D |-> g[x]], NEW d \in D,
           \A x \in D \ {d} : g[x] = f[x]
    PROVE  g = [f EXCEPT ![d] = g[d]]
  OBVIOUS

LEMMA SameFunction ==
    ASSUME NEW D, NEW f, NEW g, f = [x \in D |-> f[x]], g = [x \in D |-> g[x]], \A x \in D : g[x] = f[x]
    PROVE  g = f
  OBVIOUS

\* What Of takes out is of what the queue holds.
LEMMA OfSeq ==
    ASSUME NEW M, NEW S, NEW queue \in Seq(S), \A i \in 1 .. Len(queue) : queue[i].message \in M, NEW id, NEW r
    PROVE  Of(queue, id, r) \in Seq(M)
<1> DEFINE n == Len(queue)
<1>1. n \in Nat
  OBVIOUS
<1>2. PICK f : Among(f, queue, id, r, n) /\ Of(queue, id, r) = f[n]
  BY <1>1, OfIsAmong
<1> HIDE DEF n
<1> DEFINE T == {k \in Nat : k <= n => f[k] \in Seq(M)}
<1>3. 0 \in T
  <2>1. 0 \in 0 .. n /\ f[0] = <<>> /\ <<>> \in Seq(M)
    BY <1>1, <1>2 DEF Among
  <2> QED
    BY <2>1
<1>4. ASSUME NEW k \in Nat, k \in T PROVE k + 1 \in T
  <2> SUFFICES ASSUME k + 1 <= n PROVE f[k + 1] \in Seq(M)
    OBVIOUS
  <2>1. k + 1 \in 0 .. n /\ k + 1 \in 1 .. Len(queue) /\ k + 1 # 0 /\ (k + 1) - 1 = k /\ f[k] \in Seq(M)
    BY <1>1, <1>4 DEF n
  <2> DEFINE x == queue[k + 1]
  <2>2. x.message \in M
    BY <2>1
  <2>3. f[k + 1] = IF x[id] = r THEN Append(f[k], x.message) ELSE f[k]
    BY <1>2, <2>1 DEF Among
  <2> HIDE DEF x
  <2> QED
    BY <2>1, <2>2, <2>3
<1>5. n \in T
  <2> HIDE DEF T
  <2> QED
    BY <1>1, <1>3, <1>4, AllNumbers
<1> QED
  BY <1>1, <1>2, <1>5

-----------------------------------------------------------------------------
(* Requests: to_remote of Links. *)

RequestMessage == CommandMessage \cup RemoteMessage

\* What a queue holds, without the ids.
Content(queue) == [i \in DOMAIN queue |-> queue[i].message]
AskedIn(in, r) == IF r = Root THEN Of(in[Root], "remote_id", Root)
                  ELSE Content(in[r]) \o Of(in[Root], "remote_id", r)

LEMMA AskedIs ==
    /\ Asked = [r \in Remote |-> AskedIn(input, r)] /\ Asked = [r \in Remote |-> Asked[r]]
    /\ Asked' = [r \in Remote |-> AskedIn(input', r)] /\ Asked' = [r \in Remote |-> Asked'[r]]
    /\ \A r \in Remote : Asked[r] = AskedIn(input, r) /\ Asked'[r] = AskedIn(input', r)
<1>1. Asked = [r \in Remote |-> AskedIn(input, r)]
  BY DEF Asked, AskedIn, To, Reached, Content
<1>2. Asked' = [r \in Remote |-> AskedIn(input', r)]
  BY DEF Asked, AskedIn, To, Reached, Content
<1> QED
  BY <1>1, <1>2

LEMMA ContentSeq ==
    ASSUME NEW queue \in Seq(Request)
    PROVE  /\ Content(queue) \in Seq(RequestMessage) /\ Len(Content(queue)) = Len(queue)
           /\ \A i \in 1 .. Len(queue) : Content(queue)[i] = queue[i].message /\ queue[i].message \in RequestMessage
<1>1. Len(queue) \in Nat /\ DOMAIN queue = 1 .. Len(queue)
  OBVIOUS
<1>2. \A i \in 1 .. Len(queue) : queue[i].message \in RequestMessage
  <2>1. \A i \in 1 .. Len(queue) : queue[i] \in Request
    BY <1>1, ElementsOf
  <2> QED
    BY <2>1 DEF Request, RequestMessage
<1>3. Content(queue) \in [1 .. Len(queue) -> RequestMessage]
  BY <1>1, <1>2 DEF Content
<1>4. Content(queue) \in Seq(RequestMessage) /\ Len(Content(queue)) = Len(queue)
  BY <1>1, <1>3, IsSeq
<1> QED
  BY <1>1, <1>2, <1>4 DEF Content

\* What waits for a remote consists of requests.
LEMMA ToSeq ==
    ASSUME NEW queue \in Seq(Request), NEW r
    PROVE  Of(queue, "remote_id", r) \in Seq(RequestMessage)
<1>1. \A i \in 1 .. Len(queue) : queue[i].message \in RequestMessage
  BY ContentSeq
<1> QED
  BY <1>1, OfSeq

\* The first request of a queue, in what waits for each.
LEMMA ToTaken ==
    ASSUME Types, NEW r \in Remote, input[r] # <<>>, InputTaken(r)
    PROVE  /\ input'[r] \in Seq(Request) /\ input[r][1].message \in RequestMessage
           /\ \A s : Of(input[r], "remote_id", s) =
                 IF input[r][1].remote_id = s
                 THEN FirstOf(input[r]) \o Of(input'[r], "remote_id", s) ELSE Of(input'[r], "remote_id", s)
           /\ FirstOf(input[r]) = <<input[r][1].message>>
           /\ Content(input[r]) = FirstOf(input[r]) \o Content(input'[r])
<1> DEFINE q == input[r]
           p == input'[r]
           n == Len(p)
<1>1. q \in Seq(Request) /\ p \in Seq(Request)
  BY DEF Types, InputTaken
<1>2. n = Len(q) - 1 /\ \A i \in 1 .. Len(q) - 1 : p[i] = q[i + 1]
  BY DEF InputTaken
<1> HIDE DEF q, p
<1>3. n \in Nat /\ Len(q) = n + 1 /\ \A i \in 1 .. n : p[i] = q[i + 1]
  BY <1>1, <1>2
<1>4. \A i \in 1 .. n + 1 : q[i].message \in RequestMessage
  BY <1>1, <1>3, ContentSeq
<1>5. \A s : Of(q, "remote_id", s) = IF q[1]["remote_id"] = s THEN FirstOf(q) \o Of(p, "remote_id", s)
                                     ELSE Of(p, "remote_id", s)
  <2> HIDE DEF n
  <2>1. n = Len(p)
    BY DEF n
  <2>2. \A s, id : Of(q, id, s) = IF q[1][id] = s THEN FirstOf(q) \o Of(p, id, s) ELSE Of(p, id, s)
    <3>1. Shorter(RequestMessage, q, p, n)
      BY <1>3, <1>4, <2>1 DEF Shorter
    <3> QED
      BY <3>1, OfLess
  <2> QED
    BY <2>2
<1>6. 1 \in 1 .. n + 1
  BY <1>3
<1>7. Content(q) = FirstOf(q) \o Content(p)
  <2> DEFINE x == q[1].message
             a == Content(q)
             b == Content(p)
  <2>1. /\ a \in Seq(RequestMessage) /\ Len(a) = n + 1 /\ \A i \in 1 .. n + 1 : a[i] = q[i].message
        /\ b \in Seq(RequestMessage) /\ Len(b) = n /\ \A i \in 1 .. n : b[i] = p[i].message
        /\ x \in RequestMessage
    BY <1>1, <1>3, <1>4, <1>6, ContentSeq
  <2>2. a[1] = x /\ \A i \in 1 .. n : a[i + 1] = b[i]
    <3> SUFFICES ASSUME NEW i \in 1 .. n PROVE a[i + 1] = b[i]
      BY <1>6, <2>1
    <3>1. i + 1 \in 1 .. n + 1
      BY <1>3
    <3> QED
      BY <1>3, <2>1, <3>1
  <2> HIDE DEF x, a, b, n
  <2>3. /\ <<x>> \o b \in Seq(RequestMessage) /\ Len(<<x>> \o b) = n + 1 /\ (<<x>> \o b)[1] = x
        /\ \A i \in 1 .. n : (<<x>> \o b)[i + 1] = b[i]
    BY <1>3, <2>1
  <2>4. \A j \in 1 .. n + 1 : j = 1 \/ (j - 1 \in 1 .. n /\ (j - 1) + 1 = j)
    BY <1>3
  <2>5. \A j \in 1 .. n + 1 : a[j] = (<<x>> \o b)[j]
    BY <2>2, <2>3, <2>4
  <2>6. a = <<x>> \o b
    BY <2>1, <2>3, <2>5, SeqEqual
  <2> QED
    BY <2>6 DEF x, a, b, FirstOf
<1> QED
  BY <1>1, <1>4, <1>5, <1>6, <1>7 DEF q, p, FirstOf

\* A batch in the queue of the root: what it holds for each.
LEMMA BatchOf ==
    ASSUME NEW r \in Remote, NEW requests, NEW m \in RequestMessage, NEW n \in CommandMessage,
           BatchOfOne(requests, m) \/ BatchOfTwo(requests, m, n)
    PROVE  /\ requests \in Seq(RequestMessage)
           /\ \A s : Of(Addressed(r, requests), "remote_id", s) = IF s = r THEN requests ELSE <<>>
<1> DEFINE one == Addressed(r, <<m>>)
           two == Addressed(r, <<m, n>>)
<1>0. m \in RequestMessage /\ n \in RequestMessage
  BY DEF RequestMessage
<1>1. /\ one \in Seq(Request) /\ Len(one) = 1 /\ one[1] = [remote_id |-> r, message |-> m]
      /\ two \in Seq(Request) /\ Len(two) = 2 /\ two[1] = [remote_id |-> r, message |-> m]
      /\ two[2] = [remote_id |-> r, message |-> n]
  BY <1>0, AddressedOne, AddressedTwo DEF RequestMessage
<1> HIDE DEF one, two
<1>2. \A s : Of(<<>>, "remote_id", s) = <<>>
  <2>1. <<>> \in Seq(Request) /\ \A i \in 1 .. Len(<<>>) : FALSE
    OBVIOUS
  <2> QED
    BY <2>1, OfNone
<1>3. \A s : Of(one, "remote_id", s) = IF s = r THEN <<m>> ELSE <<>>
  <2>1. Longer(<<>>, one, 0)
    BY <1>1 DEF Longer
  <2>2. \A s, id : Of(one, id, s) =
           IF one[0 + 1][id] = s THEN Append(Of(<<>>, id, s), one[0 + 1].message) ELSE Of(<<>>, id, s)
    BY <2>1, OfMore
  <2>3. one[0 + 1].message = m /\ one[0 + 1]["remote_id"] = r
    BY <1>1
  <2>4. Append(<<>>, m) = <<m>>
    OBVIOUS
  <2>5. \A s : Of(one, "remote_id", s) =
           IF one[0 + 1]["remote_id"] = s THEN Append(Of(<<>>, "remote_id", s), one[0 + 1].message)
           ELSE Of(<<>>, "remote_id", s)
    BY <2>2
  <2> QED
    BY <1>2, <2>3, <2>4, <2>5
<1>4. \A s : Of(two, "remote_id", s) = IF s = r THEN <<m, n>> ELSE <<>>
  <2>1. Longer(one, two, 1)
    BY <1>1 DEF Longer
  <2>2. \A s, id : Of(two, id, s) =
           IF two[1 + 1][id] = s THEN Append(Of(one, id, s), two[1 + 1].message) ELSE Of(one, id, s)
    BY <2>1, OfMore
  <2>3. two[1 + 1].message = n /\ two[1 + 1]["remote_id"] = r
    BY <1>1
  <2>4. Append(<<m>>, n) = <<m, n>>
    <3>1. <<m>> \in Seq(RequestMessage) /\ Len(<<m>>) = 1 /\ <<m>>[1] = m
      BY <1>0
    <3>2. <<m, n>> \in Seq(RequestMessage) /\ Len(<<m, n>>) = 2 /\ <<m, n>>[1] = m /\ <<m, n>>[2] = n
      BY <1>0
    <3> DEFINE a == Append(<<m>>, n)
    <3>3. a \in Seq(RequestMessage) /\ Len(a) = 2 /\ a[1] = m /\ a[2] = n
      BY <1>0, <3>1, AppendIndex
    <3> HIDE DEF a
    <3>4. \A i \in 1 .. 2 : i = 1 \/ i = 2
      OBVIOUS
    <3>5. a = <<m, n>>
      BY <3>2, <3>3, <3>4, SeqEqual
    <3> QED
      BY <3>5 DEF a
  <2> QED
    BY <1>3, <2>2, <2>3, <2>4
<1>5. <<m>> \in Seq(RequestMessage) /\ <<m, n>> \in Seq(RequestMessage)
  BY <1>0
<1> QED
  BY <1>3, <1>4, <1>5 DEF BatchOfOne, BatchOfTwo, one, two

\* What the shell sends comes to the end of what one backend is asked.
LEMMA AskedSent ==
    ASSUME RemotesInv, AtPrompt, NEW r \in Remote, NEW requests,
           NEW m \in RequestMessage, NEW n \in CommandMessage,
           BatchOfOne(requests, m) \/ BatchOfTwo(requests, m, n), Sent(r, requests)
    PROVE  Asked' = [Asked EXCEPT ![r] = @ \o requests]
<1>0. Root \in Remote
  BY RootIsRemote
<1>1. /\ requests \in Seq(RequestMessage)
      /\ \A s : Of(input'[Root], "remote_id", s) = IF s = r THEN requests ELSE <<>>
  BY BatchOf DEF Sent
<1>2. \A s \in Remote : input[s] = <<>>
  BY PromptIsQuiet
<1>3. Content(<<>>) = <<>> /\ \A s : Of(<<>>, "remote_id", s) = <<>>
  <2>1. <<>> \in Seq(Request) /\ Len(<<>>) = 0 /\ \A i \in 1 .. Len(<<>>) : FALSE
    OBVIOUS
  <2>2. \A s : Of(<<>>, "remote_id", s) = <<>>
    BY <2>1, OfNone
  <2>3. Content(<<>>) = <<>>
    BY <2>1, ContentSeq, EmptyLen
  <2> QED
    BY <2>2, <2>3
<1>4. <<>> \o requests = requests /\ <<>> \o <<>> = <<>>
  BY <1>1, JoinedEmpty
<1>5. \A s \in Remote : Asked[s] = <<>>
  BY <1>0, <1>2, <1>3, <1>4, AskedIs DEF AskedIn
<1>6. \A s \in Remote \ {Root} : input'[s] = <<>>
  BY <1>2 DEF Sent
<1>7. \A s \in Remote : Asked'[s] = IF s = r THEN requests ELSE <<>>
  BY <1>0, <1>1, <1>3, <1>4, <1>6, AskedIs DEF AskedIn
<1>8. Asked' = [Asked EXCEPT ![r] = Asked'[r]]
  BY <1>5, <1>7, AskedIs, OnePlace
<1> QED
  BY <1>4, <1>5, <1>7, <1>8

\* What a backend takes for itself is the first that it is asked.
LEMMA AskedTaken ==
    ASSUME RemotesInv, NEW r \in Remote, input[r] # <<>>, ForItself(r), Taken(r)
    PROVE  /\ Asked[r] # <<>> /\ Head(Asked[r]) = Head(input[r]).message
           /\ Asked' = [Asked EXCEPT ![r] = Tail(@)]
<1> DEFINE m == input[r][1].message
<1>0. Types /\ Flow /\ Root \in Remote
  BY RootIsRemote DEF RemotesInv
<1>1. InputTaken(r) /\ \A s \in Remote \ {r} : input'[s] = input[s]
  BY <1>0, TakesHead
<1>2. Head(input[r]) = input[r][1] /\ input[r][1].remote_id = Root
  <2>1. Head(input[r]) = input[r][1]
    BY <1>0, FirstRequest
  <2> QED
    BY <2>1 DEF ForItself, Root
<1>3. /\ input'[r] \in Seq(Request) /\ m \in RequestMessage
      /\ \A s : Of(input[r], "remote_id", s) =
            IF input[r][1].remote_id = s
            THEN FirstOf(input[r]) \o Of(input'[r], "remote_id", s) ELSE Of(input'[r], "remote_id", s)
      /\ FirstOf(input[r]) = <<m>>
      /\ Content(input[r]) = FirstOf(input[r]) \o Content(input'[r])
  BY <1>0, <1>1, ToTaken
<1>4. /\ Content(input'[r]) \in Seq(RequestMessage)
      /\ \A s : Of(input'[r], "remote_id", s) \in Seq(RequestMessage)
  BY <1>3, ContentSeq, ToSeq
<1>5. \A s : Of(input'[Root], "remote_id", s) \in Seq(RequestMessage)
  <2>1. input'[Root] \in Seq(Request)
    BY <1>0, <1>1, <1>3 DEF Types
  <2> QED
    BY <2>1, ToSeq
<1> HIDE DEF m
<1>6. \A s \in Remote \ {r} : Asked'[s] = Asked[s]
  <2> SUFFICES ASSUME NEW s \in Remote \ {r} PROVE AskedIn(input', s) = AskedIn(input, s)
    BY AskedIs
  <2>1. input'[s] = input[s]
    BY <1>1
  <2>2. Of(input'[Root], "remote_id", s) = Of(input[Root], "remote_id", s)
    <3>1. CASE r = Root
      <4>1. input[r][1].remote_id # s
        BY <1>2, <3>1
      <4> QED
        BY <1>3, <3>1, <4>1
    <3>2. CASE r # Root
      BY <1>0, <1>1, <3>2
    <3> QED
      BY <3>1, <3>2
  <2> QED
    BY <2>1, <2>2 DEF AskedIn
<1>7. \E rest \in Seq(RequestMessage) : Asked[r] = <<m>> \o rest /\ Asked'[r] = rest
  <2>1. CASE r = Root
    <3>1. AskedIn(input, r) = <<m>> \o AskedIn(input', r) /\ AskedIn(input', r) \in Seq(RequestMessage)
      BY <1>2, <1>3, <1>4, <2>1 DEF AskedIn
    <3> QED
      BY <3>1, AskedIs
  <2>2. CASE r # Root
    <3> DEFINE b == Content(input'[r])
               c == Of(input[Root], "remote_id", r)
    <3>1. c \in Seq(RequestMessage) /\ b \in Seq(RequestMessage) /\ input'[Root] = input[Root]
      BY <1>0, <1>1, <1>4, <1>5, <2>2
    <3>2. Asked[r] = (<<m>> \o b) \o c /\ Asked'[r] = b \o c
      BY <1>3, <2>2, <3>1, AskedIs DEF AskedIn
    <3> HIDE DEF b, c
    <3>3. <<m>> \in Seq(RequestMessage)
      BY <1>3
    <3>4. (<<m>> \o b) \o c = <<m>> \o (b \o c) /\ b \o c \in Seq(RequestMessage)
      BY <3>1, <3>3, JoinedThree, Joined
    <3> QED
      BY <3>2, <3>4
  <2> QED
    BY <2>1, <2>2
<1>8. PICK rest \in Seq(RequestMessage) : Asked[r] = <<m>> \o rest /\ Asked'[r] = rest
  BY <1>7
<1>9. Asked[r] # <<>> /\ Head(Asked[r]) = m /\ Tail(Asked[r]) = rest
  BY <1>3, <1>8, FirstAndRest
<1>10. Asked' = [Asked EXCEPT ![r] = Asked'[r]]
  BY <1>6, AskedIs, OnePlace
<1>11. m = Head(input[r]).message
  BY <1>2 DEF m
<1> QED
  BY <1>8, <1>9, <1>10, <1>11

LEMMA ContentGrown ==
    ASSUME NEW q \in Seq(Request), NEW p \in Seq(Request), Len(p) = Len(q) + 1,
           \A i \in 1 .. Len(q) : p[i] = q[i], NEW m \in RequestMessage, p[Len(q) + 1].message = m
    PROVE  Content(p) = Append(Content(q), m)
<1> DEFINE a == Content(q)
           b == Content(p)
           n == Len(q)
<1>1. n \in Nat /\ 1 .. n \subseteq 1 .. n + 1 /\ n + 1 \in 1 .. n + 1
  OBVIOUS
<1>2. a \in Seq(RequestMessage) /\ Len(a) = n /\ \A i \in 1 .. n : a[i] = q[i].message
  BY ContentSeq
<1>3. b \in Seq(RequestMessage) /\ Len(b) = n + 1 /\ \A i \in 1 .. n + 1 : b[i] = p[i].message
  BY ContentSeq
<1>4. b[n + 1] = m
  BY <1>1, <1>3
<1>5. \A i \in 1 .. n : b[i] = a[i]
  BY <1>1, <1>2, <1>3
<1> HIDE DEF a, b, n
<1> DEFINE c == Append(a, m)
<1>6. c \in Seq(RequestMessage) /\ Len(c) = n + 1 /\ c[n + 1] = m
  BY <1>2, AppendIndex
<1>7. \A i \in 1 .. n : c[i] = a[i]
  BY <1>2, AppendIndex
<1> HIDE DEF c
<1>8. \A i \in 1 .. n + 1 : i \in 1 .. n \/ i = n + 1
  BY <1>1
<1>9. \A i \in 1 .. n + 1 : b[i] = c[i]
  BY <1>4, <1>5, <1>6, <1>7, <1>8
<1>10. b = c
  BY <1>3, <1>6, <1>9, SeqEqual
<1> QED
  BY <1>10 DEF a, b, c

\* What the root passes on has been asked before.
LEMMA AskedPassed ==
    ASSUME RemotesInv, NEW c \in Remote \ {Root}, c = input[Root][1].remote_id, input[Root] # <<>>,
           InputTaken(Root), Len(input'[c]) = Len(input[c]) + 1,
           \A i \in 1 .. Len(input[c]) : input'[c][i] = input[c][i],
           input'[c][Len(input[c]) + 1] = [remote_id |-> Root, message |-> input[Root][1].message],
           \A s \in Remote \ {Root, c} : input'[s] = input[s]
    PROVE  Asked' = Asked
<1> DEFINE m == input[Root][1].message
<1>0. Types /\ Root \in Remote
  BY RootIsRemote DEF RemotesInv
<1>1. /\ input'[Root] \in Seq(Request) /\ m \in RequestMessage
      /\ \A s : Of(input[Root], "remote_id", s) =
            IF c = s THEN FirstOf(input[Root]) \o Of(input'[Root], "remote_id", s)
            ELSE Of(input'[Root], "remote_id", s)
      /\ FirstOf(input[Root]) = <<m>>
  <2>1. /\ input'[Root] \in Seq(Request) /\ m \in RequestMessage
        /\ FirstOf(input[Root]) = <<m>>
    BY <1>0, ToTaken
  <2>2. \A s : Of(input[Root], "remote_id", s) =
           IF input[Root][1].remote_id = s THEN FirstOf(input[Root]) \o Of(input'[Root], "remote_id", s)
           ELSE Of(input'[Root], "remote_id", s)
    BY <1>0, ToTaken
  <2> QED
    BY <2>1, <2>2
<1>2. input[c] \in Seq(Request) /\ input'[c] \in Seq(Request)
  BY <1>0 DEF Types, InputTaken
<1>3. Content(input'[c]) = Append(Content(input[c]), m) /\ Content(input[c]) \in Seq(RequestMessage)
  <2>1. input'[c][Len(input[c]) + 1].message = m
    OBVIOUS
  <2> HIDE DEF m
  <2>2. Content(input'[c]) = Append(Content(input[c]), m)
    BY <1>1, <1>2, <2>1, ContentGrown
  <2> QED
    BY <1>2, <2>2, ContentSeq
<1>4. \A s : Of(input'[Root], "remote_id", s) \in Seq(RequestMessage)
  BY <1>1, ToSeq
<1> HIDE DEF m
<1>5. \A s \in Remote \ {c} : AskedIn(input', s) = AskedIn(input, s)
  BY <1>1 DEF AskedIn
<1>6. AskedIn(input', c) = AskedIn(input, c)
  <2>1. Append(Content(input[c]), m) \o Of(input'[Root], "remote_id", c)
           = Content(input[c]) \o (<<m>> \o Of(input'[Root], "remote_id", c))
    <3> DEFINE a == Content(input[c])
               b == Of(input'[Root], "remote_id", c)
    <3>1. a \in Seq(RequestMessage) /\ b \in Seq(RequestMessage) /\ m \in RequestMessage
      BY <1>1, <1>3, <1>4
    <3> HIDE DEF a, b
    <3>2. Append(a, m) \o b = a \o (<<m>> \o b)
      BY <3>1, PassesOver
    <3> QED
      BY <3>2 DEF a, b
  <2> QED
    BY <1>1, <1>3, <2>1 DEF AskedIn
<1>7. \A s \in Remote : Asked'[s] = Asked[s]
  BY <1>5, <1>6, AskedIs
<1> QED
  BY <1>7, AskedIs, SameFunction

LEMMA AskedSame == UNCHANGED input => UNCHANGED Asked
  BY DEF Asked, To, Reached

LEMMA ToldSame == UNCHANGED <<output, relays>> => UNCHANGED Told
  BY DEF Told, From, Between

-----------------------------------------------------------------------------
(* Responses: from_remote of Links. *)

Middle(rel, out, r) ==
    IF \E s \in Remote \ {Root, r} : r \in rel[s]
    THEN Of(out[CHOOSE s \in Remote \ {Root, r} : r \in rel[s]], "from", r) ELSE <<>>
ToldIn(rel, out, r) ==
    (Of(out[Root], "from", r) \o Middle(rel, out, r)) \o (IF r = Root THEN <<>> ELSE Of(out[r], "from", r))

LEMMA ToldIs ==
    /\ Told = [r \in Remote |-> Told[r]] /\ Told' = [r \in Remote |-> Told'[r]]
    /\ \A r \in Remote : Told[r] = ToldIn(relays, output, r) /\ Told'[r] = ToldIn(relays', output', r)
<1>1. Told = [r \in Remote |-> ToldIn(relays, output, r)]
  BY DEF Told, ToldIn, From, Between, Middle
<1>2. Told' = [r \in Remote |-> ToldIn(relays', output', r)]
  BY DEF Told, ToldIn, From, Between, Middle
<1> QED
  BY <1>1, <1>2

LEMMA MiddleAt ==
    ASSUME NEW rel, NEW out, NEW r, NEW s \in Remote \ {Root, r}, r \in rel[s],
           \A t \in Remote : r \in rel[t] => t = s
    PROVE  Middle(rel, out, r) = Of(out[s], "from", r)
<1>1. (CHOOSE t \in Remote \ {Root, r} : r \in rel[t]) = s
  OBVIOUS
<1> QED
  BY <1>1 DEF Middle

LEMMA MiddleNone ==
    ASSUME NEW rel, NEW out, NEW r, \A s \in Remote \ {Root, r} : r \notin rel[s]
    PROVE  Middle(rel, out, r) = <<>>
  BY DEF Middle

\* The part between depends on the queues of neither the root nor the remote itself.
LEMMA MiddleSame ==
    ASSUME NEW rel, NEW out, NEW other, NEW r,
           \A s \in Remote \ {Root, r} : Of(other[s], "from", r) = Of(out[s], "from", r)
    PROVE  Middle(rel, other, r) = Middle(rel, out, r)
<1>1. CASE \E s \in Remote \ {Root, r} : r \in rel[s]
  <2> DEFINE t == CHOOSE s \in Remote \ {Root, r} : r \in rel[s]
  <2>1. t \in Remote \ {Root, r}
    BY <1>1
  <2>2. Middle(rel, other, r) = Of(other[t], "from", r) /\ Middle(rel, out, r) = Of(out[t], "from", r)
    BY <1>1 DEF Middle
  <2> HIDE DEF t
  <2> QED
    BY <2>1, <2>2
<1>2. CASE ~\E s \in Remote \ {Root, r} : r \in rel[s]
  BY <1>2 DEF Middle
<1> QED
  BY <1>1, <1>2

LEMMA SameParts ==
    ASSUME NEW rel, NEW out, NEW other, NEW r \in Remote,
           \A s \in Remote : Of(other[s], "from", r) = Of(out[s], "from", r)
    PROVE  ToldIn(rel, other, r) = ToldIn(rel, out, r)
<1>1. Middle(rel, other, r) = Middle(rel, out, r)
  BY MiddleSame
<1> QED
  BY <1>1, RootIsRemote DEF ToldIn

LEMMA FromSeq ==
    ASSUME NEW queue \in Seq(Answered), NEW r
    PROVE  Of(queue, "from", r) \in Seq(Messages)
<1>1. \A i \in 1 .. Len(queue) : queue[i] \in Answered
  BY ElementsOf
<1>2. \A i \in 1 .. Len(queue) : queue[i].message \in Messages
  BY <1>1 DEF Answered
<1> QED
  BY <1>2, OfSeq

LEMMA PartsSeq ==
    ASSUME NEW rel, NEW out \in [Remote -> Seq(Answered)], NEW r \in Remote
    PROVE  /\ Middle(rel, out, r) \in Seq(Messages)
           /\ \A s \in Remote : Of(out[s], "from", r) \in Seq(Messages)
           /\ ToldIn(rel, out, r) \in Seq(Messages)
<1>1. \A s \in Remote : Of(out[s], "from", r) \in Seq(Messages)
  <2>1. \A s \in Remote : out[s] \in Seq(Answered)
    OBVIOUS
  <2> QED
    BY <2>1, FromSeq
<1>2. <<>> \in Seq(Messages)
  OBVIOUS
<1>3. Middle(rel, out, r) \in Seq(Messages)
  <2>1. CASE \E s \in Remote \ {Root, r} : r \in rel[s]
    <3> DEFINE t == CHOOSE s \in Remote \ {Root, r} : r \in rel[s]
    <3>1. t \in Remote
      BY <2>1
    <3>2. Middle(rel, out, r) = Of(out[t], "from", r)
      BY <2>1 DEF Middle
    <3> HIDE DEF t
    <3> QED
      BY <1>1, <3>1, <3>2
  <2>2. CASE ~\E s \in Remote \ {Root, r} : r \in rel[s]
    BY <1>2, <2>2 DEF Middle
  <2> QED
    BY <2>1, <2>2
<1>4. ToldIn(rel, out, r) \in Seq(Messages)
  BY <1>1, <1>2, <1>3, Joined, RootIsRemote DEF ToldIn
<1> QED
  BY <1>1, <1>3, <1>4

\* A response comes to the end of a queue, or goes from the front of it.
Grown(q, p, x) ==
    /\ q \in Seq(Answered) /\ p \in Seq(Answered)
    /\ Len(p) = Len(q) + 1 /\ \A i \in 1 .. Len(q) : p[i] = q[i]
    /\ p[Len(q) + 1] = x

Shrunk(q, p) ==
    /\ q \in Seq(Answered) /\ p \in Seq(Answered) /\ q # <<>>
    /\ Len(p) = Len(q) - 1 /\ \A i \in 1 .. Len(q) - 1 : p[i] = q[i + 1]

LEMMA FromGrown ==
    ASSUME NEW q, NEW p, NEW x, Grown(q, p, x)
    PROVE  /\ \A r : r # x.from => Of(p, "from", r) = Of(q, "from", r)
           /\ Of(p, "from", x.from) = Append(Of(q, "from", x.from), x.message)
<1> DEFINE n == Len(q)
<1>1. Longer(q, p, n) /\ p[n + 1] = x
  BY DEF Grown, Longer
<1> HIDE DEF n
<1>2. \A r, id : Of(p, id, r) = IF p[n + 1][id] = r THEN Append(Of(q, id, r), p[n + 1].message) ELSE Of(q, id, r)
  BY <1>1, OfMore
<1>3. \A r : Of(p, "from", r) = IF x["from"] = r THEN Append(Of(q, "from", r), x.message) ELSE Of(q, "from", r)
  BY <1>1, <1>2
<1> QED
  BY <1>3

LEMMA FromShrunk ==
    ASSUME NEW q, NEW p, Shrunk(q, p)
    PROVE  /\ q[1] \in Answered
           /\ \A r : r # q[1].from => Of(p, "from", r) = Of(q, "from", r)
           /\ Of(q, "from", q[1].from) = FirstOf(q) \o Of(p, "from", q[1].from)
           /\ FirstOf(q) = <<q[1].message>>
<1> DEFINE n == Len(p)
<1>1. q \in Seq(Answered) /\ q # <<>> /\ n \in Nat /\ Len(q) = n + 1 /\ \A i \in 1 .. n : p[i] = q[i + 1]
  BY DEF Shrunk
<1>2. \A i \in 1 .. n + 1 : q[i] \in Answered
  BY <1>1, ElementsOf
<1>3. \A i \in 1 .. n + 1 : q[i].message \in Messages
  BY <1>2 DEF Answered
<1>4. Shorter(Messages, q, p, n)
  BY <1>1, <1>3 DEF Shorter
<1>5. 1 \in 1 .. n + 1
  BY <1>1
<1> HIDE DEF n
<1>6. \A r, id : Of(q, id, r) = IF q[1][id] = r THEN FirstOf(q) \o Of(p, id, r) ELSE Of(p, id, r)
  BY <1>4, OfLess
<1>7. \A r : Of(q, "from", r) = IF q[1]["from"] = r THEN FirstOf(q) \o Of(p, "from", r) ELSE Of(p, "from", r)
  BY <1>6
<1>8. q[1] \in Answered /\ FirstOf(q) = <<q[1].message>>
  BY <1>2, <1>5 DEF FirstOf
<1> QED
  BY <1>7, <1>8

\* No backend is within itself, and the root within none.
LEMMA AboveOnly ==
    ASSUME RemotesInv
    PROVE  \A s, x \in Remote : x \in Within(s) => x # s /\ x # Root
<1>1. \A s, x \in Remote : x \in Within(s) => s < x /\ s \in Nat /\ x \in Nat
  BY RootIsRemote DEF RemotesInv, Fresh, Within
<1> QED
  BY <1>1 DEF Root

\* A response of its own comes to the end of what a backend has told.
LEMMA ToldAdded ==
    ASSUME RemotesInv, NEW r \in Remote, NEW x, Adds(r, x), x.from = r, x.message \in Messages,
           UNCHANGED relays
    PROVE  Told' = [Told EXCEPT ![r] = Append(@, x.message)]
<1> DEFINE m == x.message
<1>0. Root \in Remote /\ output \in [Remote -> Seq(Answered)] /\ output' \in [Remote -> Seq(Answered)]
  BY RootIsRemote DEF RemotesInv, Types, Adds
<1>1. Grown(output[r], output'[r], x) /\ \A s \in Remote \ {r} : output'[s] = output[s]
  BY <1>0 DEF Adds, Grown
<1>2. /\ \A z : z # r => Of(output'[r], "from", z) = Of(output[r], "from", z)
      /\ Of(output'[r], "from", r) = Append(Of(output[r], "from", r), m)
  BY <1>1, FromGrown
<1>3. \A z \in Remote \ {r} : Told'[z] = Told[z]
  <2> SUFFICES ASSUME NEW z \in Remote \ {r} PROVE ToldIn(relays, output', z) = ToldIn(relays, output, z)
    BY ToldIs
  <2>1. \A s \in Remote : Of(output'[s], "from", z) = Of(output[s], "from", z)
    BY <1>1, <1>2
  <2> QED
    BY <2>1, SameParts
<1>4. /\ Middle(relays, output, r) \in Seq(Messages)
      /\ Of(output[r], "from", r) \in Seq(Messages) /\ Of(output[Root], "from", r) \in Seq(Messages)
  BY <1>0, PartsSeq
<1>5. m \in Messages
  OBVIOUS
<1> HIDE DEF m
<1>6. ToldIn(relays, output', r) = Append(ToldIn(relays, output, r), m)
  <2>1. CASE r = Root
    <3>1. \A s \in Remote \ {Root} : Root \notin relays[s]
      BY <1>0, AboveOnly DEF Within
    <3>2. Middle(relays, output, r) = <<>> /\ Middle(relays, output', r) = <<>>
      BY <2>1, <3>1, MiddleNone
    <3>3. Append(Of(output[r], "from", r), m) \in Seq(Messages)
      BY <1>4, <1>5, AppendIndex
    <3>4. /\ (Of(output[r], "from", r) \o <<>>) \o <<>> = Of(output[r], "from", r)
          /\ (Of(output'[r], "from", r) \o <<>>) \o <<>> = Of(output'[r], "from", r)
      BY <1>2, <1>4, <3>3, JoinedEmpty
    <3> QED
      BY <1>2, <2>1, <3>2, <3>4 DEF ToldIn
  <2>2. CASE r # Root
    <3>1. \A s \in Remote \ {Root, r} : Of(output'[s], "from", r) = Of(output[s], "from", r)
      BY <1>1
    <3>2. Middle(relays, output', r) = Middle(relays, output, r)
      BY <3>1, MiddleSame
    <3> DEFINE a == Of(output[Root], "from", r) \o Middle(relays, output, r)
               b == Of(output[r], "from", r)
    <3>3. a \in Seq(Messages) /\ b \in Seq(Messages)
      BY <1>4, Joined
    <3>4. ToldIn(relays, output, r) = a \o b /\ ToldIn(relays, output', r) = a \o Append(b, m)
      BY <1>0, <1>1, <1>2, <2>2, <3>2 DEF ToldIn
    <3> HIDE DEF a, b
    <3> QED
      BY <1>5, <3>3, <3>4, AppendAfter
  <2> QED
    BY <2>1, <2>2
<1>7. Told'[r] = Append(Told[r], m)
  BY <1>6, ToldIs
<1>8. Told' = [Told EXCEPT ![r] = Told'[r]]
  BY <1>3, ToldIs, OnePlace
<1> QED
  BY <1>7, <1>8 DEF m

\* What the shell receives is the first that its sender has told.
LEMMA ToldDropped ==
    ASSUME RemotesInv, Drops(Root), output[Root] # <<>>, UNCHANGED relays
    PROVE  \E z \in Remote : Told[z] # <<>> /\ Told' = [Told EXCEPT ![z] = Tail(@)]
<1> DEFINE y == output[Root][1].from
           m == output[Root][1].message
<1>0. Root \in Remote /\ output \in [Remote -> Seq(Answered)] /\ output' \in [Remote -> Seq(Answered)]
  BY RootIsRemote DEF RemotesInv, Types, Drops
<1>1. Shrunk(output[Root], output'[Root]) /\ \A s \in Remote \ {Root} : output'[s] = output[s]
  BY <1>0 DEF Drops, Shrunk
<1>2. /\ output[Root][1] \in Answered
      /\ \A z : z # y => Of(output'[Root], "from", z) = Of(output[Root], "from", z)
      /\ Of(output[Root], "from", y) = FirstOf(output[Root]) \o Of(output'[Root], "from", y)
      /\ FirstOf(output[Root]) = <<m>>
  BY <1>1, FromShrunk
<1>3. y \in Remote /\ m \in Messages
  BY <1>2 DEF Answered
<1> HIDE DEF y, m
<1>4. \A z \in Remote \ {y} : Told'[z] = Told[z]
  <2> SUFFICES ASSUME NEW z \in Remote \ {y} PROVE ToldIn(relays, output', z) = ToldIn(relays, output, z)
    BY ToldIs
  <2>1. \A s \in Remote : Of(output'[s], "from", z) = Of(output[s], "from", z)
    BY <1>1, <1>2
  <2> QED
    BY <2>1, SameParts
<1>5. Told[y] = <<m>> \o Told'[y] /\ Told'[y] \in Seq(Messages)
  <2> DEFINE a == Of(output'[Root], "from", y)
             b == Middle(relays, output, y)
             c == IF y = Root THEN <<>> ELSE Of(output[y], "from", y)
  <2>1. a \in Seq(Messages) /\ b \in Seq(Messages) /\ c \in Seq(Messages)
    <3>1. a \in Seq(Messages)
      BY <1>0, <1>3, PartsSeq
    <3>2. b \in Seq(Messages) /\ Of(output[y], "from", y) \in Seq(Messages)
      BY <1>0, <1>3, PartsSeq
    <3>3. <<>> \in Seq(Messages)
      OBVIOUS
    <3> QED
      BY <3>1, <3>2, <3>3
  <2>2. Middle(relays, output', y) = b
    <3>1. \A s \in Remote \ {Root, y} : Of(output'[s], "from", y) = Of(output[s], "from", y)
      BY <1>1
    <3> QED
      BY <3>1, MiddleSame
  <2>3. Told[y] = ((<<m>> \o a) \o b) \o c
    BY <1>2, <1>3, ToldIs DEF ToldIn
  <2>4. y # Root => output'[y] = output[y]
    BY <1>1, <1>3
  <2>5. Told'[y] = (a \o b) \o c
    BY <1>3, <2>2, <2>4, ToldIs DEF ToldIn
  <2> HIDE DEF a, b, c
  <2>6. <<m>> \in Seq(Messages) /\ a \o b \in Seq(Messages) /\ (a \o b) \o c \in Seq(Messages)
    BY <1>3, <2>1, Joined
  <2>7. (<<m>> \o a) \o b = <<m>> \o (a \o b)
    BY <2>1, <2>6, JoinedThree
  <2>8. (<<m>> \o (a \o b)) \o c = <<m>> \o ((a \o b) \o c)
    BY <2>1, <2>6, JoinedThree
  <2> QED
    BY <2>3, <2>5, <2>6, <2>7, <2>8
<1>6. Told[y] # <<>> /\ Tail(Told[y]) = Told'[y]
  BY <1>3, <1>5, FirstAndRest
<1>7. Told' = [Told EXCEPT ![y] = Told'[y]]
  BY <1>3, <1>4, ToldIs, OnePlace
<1> QED
  BY <1>3, <1>6, <1>7

\* What is moved goes from the front of one part of a line to the end of the part before.
LEMMA ToldMoved ==
    ASSUME RemotesInv, LinkInv, NEW r \in Remote, NEW c \in Remote, Relay(r, c)
    PROVE  Told' = Told
<1> DEFINE y == output[c][1].from
           m == output[c][1].message
           x == Stamp(output[c][1], c)
<1>0. /\ Root \in Remote /\ output \in [Remote -> Seq(Answered)] /\ output' \in [Remote -> Seq(Answered)]
      /\ c # r /\ c # Root /\ c \in relays[r] /\ Moves(r, c) /\ output[c] # <<>>
      /\ y = c \/ (r = Root /\ y \in relays[c])
      /\ relays' = relays
  <2>1. /\ c # r /\ c # Root /\ c \in relays[r] /\ Moves(r, c) /\ output[c] # <<>>
        /\ y = c \/ (r = Root /\ y \in relays[c])
        /\ relays' = relays
    BY RelayedFrom
  <2>2. output \in [Remote -> Seq(Answered)] /\ output' \in [Remote -> Seq(Answered)]
    BY <2>1 DEF RemotesInv, Types, Moves
  <2> QED
    BY <2>1, <2>2, RootIsRemote
<1>1. /\ Shrunk(output[c], output'[c]) /\ Grown(output[r], output'[r], x)
      /\ \A s \in Remote \ {r, c} : output'[s] = output[s]
  BY <1>0 DEF Moves, Shrunk, Grown
<1>2. /\ output[c][1] \in Answered
      /\ \A z : z # y => Of(output'[c], "from", z) = Of(output[c], "from", z)
      /\ Of(output[c], "from", y) = FirstOf(output[c]) \o Of(output'[c], "from", y)
      /\ FirstOf(output[c]) = <<m>>
  BY <1>1, FromShrunk
<1>3. y \in Remote /\ m \in Messages /\ x.from = y /\ x.message = m
  BY <1>2 DEF Answered, Stamp
<1>4. /\ \A z : z # y => Of(output'[r], "from", z) = Of(output[r], "from", z)
      /\ Of(output'[r], "from", y) = Append(Of(output[r], "from", y), m)
  <2> HIDE DEF x, y, m
  <2>1. /\ \A z : z # x.from => Of(output'[r], "from", z) = Of(output[r], "from", z)
        /\ Of(output'[r], "from", x.from) = Append(Of(output[r], "from", x.from), x.message)
    BY <1>1, FromGrown
  <2> QED
    BY <1>3, <2>1
<1> HIDE DEF x, y, m
<1>5. \A z \in Remote \ {y} : ToldIn(relays, output', z) = ToldIn(relays, output, z)
  <2> SUFFICES ASSUME NEW z \in Remote \ {y} PROVE ToldIn(relays, output', z) = ToldIn(relays, output, z)
    OBVIOUS
  <2>1. \A s \in Remote : Of(output'[s], "from", z) = Of(output[s], "from", z)
    BY <1>1, <1>2, <1>4
  <2> QED
    BY <2>1, SameParts
<1>6. /\ \A s, z \in Remote : z \in relays[s] => z # s /\ z # Root
      /\ \A s, t, z \in Remote : z \in relays[s] /\ z \in relays[t] => s = t
  <2>1. Sole
    BY DEF LinkInv
  <2> QED
    BY <2>1, AboveOnly DEF Sole, Within
<1> DEFINE a == Of(output[r], "from", y)
           b == Of(output'[c], "from", y)
<1>7. a \in Seq(Messages) /\ b \in Seq(Messages) /\ <<m>> \in Seq(Messages)
  <2>1. a \in Seq(Messages)
    BY <1>0, <1>3, PartsSeq
  <2>2. b \in Seq(Messages)
    BY <1>0, <1>3, PartsSeq
  <2>3. <<m>> \in Seq(Messages)
    BY <1>3
  <2> QED
    BY <2>1, <2>2, <2>3
<1>8. /\ Of(output'[r], "from", y) = Append(a, m)
      /\ Of(output[c], "from", y) = <<m>> \o b
  BY <1>2, <1>4
<1>9. Append(a, m) \o b = a \o (<<m>> \o b) /\ Append(a, m) \in Seq(Messages) /\ <<m>> \o b \in Seq(Messages)
  <2> HIDE DEF a, b
  <2> QED
    BY <1>3, <1>7, PassesOver, AppendIndex, Joined
<1>10. ToldIn(relays, output', y) = ToldIn(relays, output, y)
  <2>1. CASE r # Root
    <3>1. y = c /\ r \in Remote \ {Root, y} /\ y \in relays[r]
      BY <1>0, <2>1
    <3>2. \A t \in Remote : y \in relays[t] => t = r
      BY <1>3, <1>6, <3>1
    <3>3. Middle(relays, output, y) = a /\ Middle(relays, output', y) = Append(a, m)
      <4>1. \A out : Middle(relays, out, y) = Of(out[r], "from", y)
        BY <3>1, <3>2, MiddleAt
      <4> QED
        BY <1>8, <4>1
    <3> DEFINE d == Of(output[Root], "from", y)
    <3>4. output'[Root] = output[Root] /\ y # Root /\ d \in Seq(Messages)
      BY <1>0, <1>1, <1>3, <2>1, <3>1, PartsSeq
    <3>5. /\ ToldIn(relays, output, y) = (d \o a) \o (<<m>> \o b)
          /\ ToldIn(relays, output', y) = (d \o Append(a, m)) \o b
      BY <1>8, <3>1, <3>3, <3>4 DEF ToldIn
    <3> HIDE DEF a, b, d
    <3>6. (d \o a) \o (<<m>> \o b) = d \o (a \o (<<m>> \o b)) /\ (d \o Append(a, m)) \o b = d \o (Append(a, m) \o b)
      <4>1. (d \o a) \o (<<m>> \o b) = d \o (a \o (<<m>> \o b))
        BY <1>7, <1>9, <3>4, JoinedThree
      <4> DEFINE e == Append(a, m)
      <4>2. e \in Seq(Messages)
        BY <1>9
      <4> HIDE DEF e
      <4>3. (d \o e) \o b = d \o (e \o b)
        BY <1>7, <3>4, <4>2, JoinedThree
      <4> QED
        BY <4>1, <4>3 DEF e
    <3> QED
      BY <1>9, <3>5, <3>6
  <2>2. CASE r = Root /\ y = c
    <3>1. \A s \in Remote \ {Root, y} : y \notin relays[s]
      BY <1>0, <1>3, <1>6, <2>2
    <3>2. Middle(relays, output, y) = <<>> /\ Middle(relays, output', y) = <<>>
      BY <3>1, MiddleNone
    <3>3. /\ ToldIn(relays, output, y) = (a \o <<>>) \o (<<m>> \o b)
          /\ ToldIn(relays, output', y) = (Append(a, m) \o <<>>) \o b
      BY <1>0, <1>8, <2>2, <3>2 DEF ToldIn
    <3> HIDE DEF a, b
    <3>4. a \o <<>> = a /\ Append(a, m) \o <<>> = Append(a, m)
      BY <1>7, <1>9, JoinedEmpty
    <3> QED
      BY <1>9, <3>3, <3>4
  <2>3. CASE r = Root /\ y \in relays[c] /\ y # c
    <3>1. y # Root /\ c \in Remote \ {Root, y}
      BY <1>0, <1>3, <1>6, <2>3
    <3>2. \A t \in Remote : y \in relays[t] => t = c
      BY <1>3, <1>6, <2>3
    <3>3. Middle(relays, output, y) = <<m>> \o b /\ Middle(relays, output', y) = b
      <4>1. \A out : Middle(relays, out, y) = Of(out[c], "from", y)
        BY <2>3, <3>1, <3>2, MiddleAt
      <4> QED
        BY <1>8, <4>1
    <3> DEFINE d == Of(output[y], "from", y)
    <3>4. output'[y] = output[y] /\ d \in Seq(Messages)
      BY <1>0, <1>1, <1>3, <2>3, <3>1, PartsSeq
    <3>5. /\ ToldIn(relays, output, y) = (a \o (<<m>> \o b)) \o d
          /\ ToldIn(relays, output', y) = (Append(a, m) \o b) \o d
      BY <1>8, <2>3, <3>1, <3>3, <3>4 DEF ToldIn
    <3> HIDE DEF a, b, d
    <3> QED
      BY <1>9, <3>5
  <2> QED
    BY <1>0, <2>1, <2>2, <2>3
<1>11. \A z \in Remote : Told'[z] = Told[z]
  BY <1>0, <1>5, <1>10, ToldIs
<1> QED
  BY <1>11, ToldIs, SameFunction

\* A new relay: nothing has gone that way.
LEMMA ToldConnected ==
    ASSUME RemotesInv, LinkInv, NEW r \in Remote, NEW c \in Remote, starting[r] = {c}, output' = output,
           relays'[r] = relays[r] \cup {c}, \A s \in Remote \ {r} : relays'[s] = relays[s]
    PROVE  Told' = Told
<1>0. /\ \A s, z \in Remote : z \in relays[s] => z # s /\ z # Root
      /\ \A s, t, z \in Remote : z \in relays[s] /\ z \in relays[t] => s = t
      /\ \A t \in Remote : c \in relays[t] => t = r
      /\ c # r
  <2>1. Sole
    BY DEF LinkInv
  <2> QED
    BY <2>1, AboveOnly DEF Sole, Within
<1>1. \A z \in Remote : Middle(relays', output, z) = Middle(relays, output, z)
  <2> SUFFICES ASSUME NEW z \in Remote PROVE Middle(relays', output, z) = Middle(relays, output, z)
    OBVIOUS
  <2>1. CASE z # c \/ c \in relays[r]
    <3>1. \A s \in Remote : z \in relays'[s] <=> z \in relays[s]
      BY <2>1
    <3>2. CASE \E s \in Remote \ {Root, z} : z \in relays[s]
      <4>1. PICK s \in Remote \ {Root, z} : z \in relays[s]
        BY <3>2
      <4>2. /\ \A t \in Remote : z \in relays[t] => t = s
            /\ z \in relays'[s] /\ \A t \in Remote : z \in relays'[t] => t = s
        BY <1>0, <3>1, <4>1
      <4>3. Middle(relays, output, z) = Of(output[s], "from", z)
        BY <4>1, <4>2, MiddleAt
      <4>4. Middle(relays', output, z) = Of(output[s], "from", z)
        BY <4>1, <4>2, MiddleAt
      <4> QED
        BY <4>3, <4>4
    <3>3. CASE \A s \in Remote \ {Root, z} : z \notin relays[s]
      <4>1. \A s \in Remote \ {Root, z} : z \notin relays'[s]
        BY <3>1, <3>3
      <4> QED
        BY <3>3, <4>1, MiddleNone
    <3> QED
      BY <3>2, <3>3
  <2>2. CASE z = c /\ c \notin relays[r]
    <3>1. \A s \in Remote : z \notin relays[s]
      BY <1>0, <2>2
    <3>2. \A t \in Remote : z \in relays'[t] => t = r
      BY <2>2, <3>1
    <3>3. Middle(relays, output, z) = <<>>
      BY <3>1, MiddleNone
    <3>4. CASE r = Root
      <4>1. \A s \in Remote \ {Root, z} : z \notin relays'[s]
        BY <3>2, <3>4
      <4> QED
        BY <3>3, <4>1, MiddleNone
    <3>5. CASE r # Root
      <4>1. r \in Remote \ {Root, z} /\ z \in relays'[r]
        BY <1>0, <2>2, <3>5
      <4>2. Middle(relays', output, z) = Of(output[r], "from", z)
        <5> DEFINE rel == relays'
        <5>1. z \in rel[r] /\ \A t \in Remote : z \in rel[t] => t = r
          BY <3>2, <4>1
        <5> HIDE DEF rel
        <5>2. Middle(rel, output, z) = Of(output[r], "from", z)
          BY <4>1, <5>1, MiddleAt
        <5> QED
          BY <5>2 DEF rel
      <4>3. \A i \in 1 .. Len(output[r]) : output[r][i]["from"] # z
        BY <1>0, <2>2, <3>5 DEF LinkInv, Origin
      <4>4. output[r] \in Seq(Answered)
        BY DEF RemotesInv, Types
      <4>5. Of(output[r], "from", z) = <<>>
        BY <4>3, <4>4, OfNone
      <4> QED
        BY <3>3, <4>2, <4>5
    <3> QED
      BY <3>4, <3>5
  <2> QED
    BY <2>1, <2>2
<1>2. \A z \in Remote : ToldIn(relays', output', z) = ToldIn(relays, output, z)
  BY <1>1 DEF ToldIn
<1>3. \A z \in Remote : Told'[z] = Told[z]
  BY <1>2, ToldIs
<1> QED
  BY <1>3, ToldIs, SameFunction

-----------------------------------------------------------------------------
(* Each step is one of Links, or none that Links sees.                     *)

LinkStep == [L!LinksNext(Batches)]_(L!linkVars)

LEMMA Unseen ==
    ASSUME UNCHANGED <<Asked, running, Told>>
    PROVE  LinkStep
  BY DEF LinkStep, L!linkVars

LEMMA UserLinks ==
    ASSUME RemotesInv, User
    PROVE  LinkStep
<1>1. /\ AtPrompt
      /\ UNCHANGED <<output, relays, running>>
      /\ \/ UNCHANGED input
         \/ \E r \in Remote : \E requests : \E m \in CommandMessage \cup RemoteMessage : \E n \in CommandMessage :
               /\ Sent(r, requests)
               /\ BatchOfOne(requests, m) \/ BatchOfTwo(requests, m, n)
  BY UserSends
<1>2. Told' = Told
  BY <1>1, ToldSame
<1>3. CASE UNCHANGED input
  BY <1>1, <1>2, <1>3, AskedSame, Unseen
<1>4. ASSUME NEW r \in Remote, NEW requests, NEW m \in CommandMessage \cup RemoteMessage,
             NEW n \in CommandMessage, Sent(r, requests),
             BatchOfOne(requests, m) \/ BatchOfTwo(requests, m, n)
      PROVE  LinkStep
  <2>1. Asked' = [Asked EXCEPT ![r] = @ \o requests]
    BY <1>1, <1>4, AskedSent DEF RequestMessage
  <2>2. L!Send(r, requests) /\ requests \in Batches
    BY <1>1, <1>2, <1>4, <2>1 DEF L!Send, Sent
  <2> QED
    BY <2>2 DEF LinkStep, L!LinksNext
<1> QED
  BY <1>1, <1>3, <1>4

LEMMA ShellLinks ==
    ASSUME RemotesInv, Shell
    PROVE  LinkStep
<1>1. PICK type : Receive(type)
  BY DEF Shell, ReceiveRemoteReady, ReceiveCommandDone
<1>2. Drops(Root) /\ output[Root] # <<>> /\ UNCHANGED <<input, relays, running>>
  BY <1>1, ReceivesOne
<1>3. PICK z \in Remote : Told[z] # <<>> /\ Told' = [Told EXCEPT ![z] = Tail(@)]
  BY <1>2, ToldDropped
<1>4. Asked' = Asked
  BY <1>2, AskedSame
<1>5. L!Hear(z)
  BY <1>2, <1>3, <1>4 DEF L!Hear
<1> QED
  BY <1>5 DEF LinkStep, L!LinksNext

LEMMA TakeLinks ==
    ASSUME RemotesInv, LinkInv, NEW r \in Remote, TakeRequest(r)
    PROVE  LinkStep
<1> DEFINE m == Head(input[r]).message
<1>1. /\ Types /\ CanTake(r) /\ input[r] # <<>> /\ UNCHANGED output
      /\ \/ ForItself(r) /\ (TakeCommand(r) \/ TakeBeginRemote(r) \/ TakeEndRemote(r))
         \/ ~ForItself(r) /\ PassOn(r)
  BY DEF RemotesInv, TakeRequest, CanTake
<1>2. CASE UNCHANGED <<input, relays, running>>
  BY <1>1, <1>2, AskedSame, ToldSame, Unseen
<1>3. ASSUME Panic(r) PROVE LinkStep
  BY <1>2, <1>3 DEF Panic, tableVars
<1>4. ASSUME ForItself(r), Taken(r), UNCHANGED relays,
             running' = [running EXCEPT ![r] = @ \cup L!CommandsOf(m)]
      PROVE  LinkStep
  <2>1. /\ Asked[r] # <<>> /\ Head(Asked[r]) = m
        /\ Asked' = [Asked EXCEPT ![r] = Tail(@)]
    BY <1>1, <1>4, AskedTaken
  <2>2. Told' = Told
    BY <1>1, <1>4, ToldSame
  <2> HIDE DEF m
  <2>3. L!Take(r)
    BY <1>4, <2>1, <2>2 DEF L!Take
  <2> QED
    BY <2>3 DEF LinkStep, L!LinksNext
<1>5. m.type # "Command" /\ UNCHANGED running => running' = [running EXCEPT ![r] = @ \cup L!CommandsOf(m)]
  <2> HIDE DEF m
  <2> SUFFICES ASSUME m.type # "Command" PROVE running = [running EXCEPT ![r] = @ \cup L!CommandsOf(m)]
    OBVIOUS
  <2>1. L!CommandsOf(m) = {}
    BY DEF L!CommandsOf
  <2>2. running \in [Remote -> SUBSET Remote]
    BY <1>1 DEF Types
  <2> QED
    BY <2>1, <2>2
<1>6. CASE ForItself(r) /\ TakeCommand(r)
  <2>1. m.type = "Command" /\ Taken(r) /\ UNCHANGED relays /\ running' = [running EXCEPT ![r] = @ \cup {m.pid}]
    BY <1>6 DEF TakeCommand
  <2>2. L!CommandsOf(m) = {m.pid}
    BY <2>1 DEF L!CommandsOf
  <2> HIDE DEF m
  <2> QED
    BY <1>4, <1>6, <2>1, <2>2
<1>7. CASE ForItself(r) /\ TakeBeginRemote(r)
  <2>1. m.type # "Command" /\ Taken(r) /\ UNCHANGED <<relays, running>>
    BY <1>7 DEF TakeBeginRemote
  <2> HIDE DEF m
  <2> QED
    BY <1>4, <1>5, <1>7, <2>1
<1>8. CASE ForItself(r) /\ TakeEndRemote(r)
  <2>1. m.type # "Command" /\ (Panic(r) \/ (Taken(r) /\ UNCHANGED <<relays, running>>))
    BY <1>8 DEF TakeEndRemote
  <2> HIDE DEF m
  <2> QED
    BY <1>3, <1>4, <1>5, <1>8, <2>1
<1>9. CASE ~ForItself(r) /\ PassOn(r)
  <2> DEFINE c == input[Root][1].remote_id
  <2>1. \/ Panic(r)
        \/ /\ r = Root /\ c \in Remote \ {Root} /\ input[Root] # <<>>
           /\ InputTaken(Root)
           /\ Len(input'[c]) = Len(input[c]) + 1
           /\ \A i \in 1 .. Len(input[c]) : input'[c][i] = input[c][i]
           /\ input'[c][Len(input[c]) + 1] = [remote_id |-> Root, message |-> input[Root][1].message]
           /\ \A s \in Remote \ {Root, c} : input'[s] = input[s]
           /\ UNCHANGED <<relays, running>>
    BY <1>1, <1>9, PassedOn
  <2>2. CASE ~Panic(r)
    <3>1. Asked' = Asked
      BY <2>1, <2>2, AskedPassed
    <3>2. Told' = Told
      BY <1>1, <2>1, <2>2, ToldSame
    <3> QED
      BY <2>1, <2>2, <3>1, <3>2, Unseen
  <2> QED
    BY <1>3, <2>2
<1> QED
  BY <1>1, <1>6, <1>7, <1>8, <1>9

LEMMA ConnectLinks ==
    ASSUME RemotesInv, LinkInv, NEW r \in Remote, Connect(r)
    PROVE  LinkStep
<1>1. /\ UNCHANGED output
      /\ \/ Panic(r)
         \/ /\ UNCHANGED <<input, running>>
            /\ \E c \in Remote :
                  /\ starting[r] = {c}
                  /\ relays'[r] = relays[r] \cup {c}
                  /\ \A s \in Remote \ {r} : relays'[s] = relays[s]
  BY ConnectsOne
<1>2. CASE Panic(r)
  BY <1>1, <1>2, AskedSame, ToldSame, Unseen DEF Panic, tableVars
<1>3. CASE ~Panic(r)
  <2>1. Told' = Told
    BY <1>1, <1>3, ToldConnected
  <2> QED
    BY <1>1, <1>3, <2>1, AskedSame, Unseen
<1> QED
  BY <1>2, <1>3

LEMMA StartLinks ==
    ASSUME RemotesInv, NEW r \in Remote, Start(r)
    PROVE  LinkStep
<1> DEFINE x == [remote_id |-> Root, from |-> r, message |-> ReadyMessage]
<1>1. Types /\ Responds(r, ReadyMessage) /\ UNCHANGED <<input, relays, running>>
  BY DEF Start, tableVars, RemotesInv, ReadyMessage
<1>2. ReadyMessage \in Messages
  BY DEF Messages
<1>3. Adds(r, x) /\ x.from = r /\ x.message = ReadyMessage
  BY <1>1, <1>2, RespondsAdds
<1> HIDE DEF x
<1>4. Told' = [Told EXCEPT ![r] = Append(@, ReadyMessage)]
  BY <1>1, <1>2, <1>3, ToldAdded
<1>5. L!Begin(r)
  BY <1>1, <1>4, AskedSame DEF L!Begin, L!RemoteReady, ReadyMessage
<1> QED
  BY <1>5 DEF LinkStep, L!LinksNext

LEMMA AnswerLinks ==
    ASSUME RemotesInv, NEW r \in Remote, Answer(r)
    PROVE  LinkStep
<1>1. Types /\ UNCHANGED <<input, relays>>
  BY DEF Answer, RemotesInv
<1>2. PICK p \in running[r] : /\ running' = [running EXCEPT ![r] = @ \ {p}]
                              /\ Responds(r, [type |-> "CommandDone", pid |-> p])
  BY DEF Answer
<1> DEFINE m == [type |-> "CommandDone", pid |-> p]
           x == [remote_id |-> Root, from |-> r, message |-> m]
<1>3. m \in Messages
  BY <1>1 DEF Messages, Types
<1>4. m = L!CommandDone(p)
  BY DEF L!CommandDone
<1> HIDE DEF m
<1>5. Adds(r, x) /\ x.from = r /\ x.message = m
  BY <1>1, <1>2, <1>3, RespondsAdds DEF m
<1> HIDE DEF x
<1>6. Told' = [Told EXCEPT ![r] = Append(@, m)]
  BY <1>1, <1>3, <1>5, ToldAdded
<1>7. L!Answer(r, p)
  BY <1>1, <1>2, <1>4, <1>6, AskedSame DEF L!Answer
<1> QED
  BY <1>2, <1>7 DEF LinkStep, L!LinksNext

LEMMA RelayLinks ==
    ASSUME RemotesInv, LinkInv, NEW r \in Remote, NEW c \in Remote, Relay(r, c)
    PROVE  LinkStep
<1>1. Told' = Told
  BY ToldMoved
<1>2. UNCHANGED <<input, running>>
  BY DEF Relay, tableVars
<1> QED
  BY <1>1, <1>2, AskedSame, Unseen

LEMMA NextLinks == RemotesInv /\ LinkInv /\ [Next]_vars => LinkStep
<1> SUFFICES ASSUME RemotesInv, LinkInv, [Next]_vars PROVE LinkStep
  OBVIOUS
<1>1. ASSUME UNCHANGED <<input, output, relays, running>> PROVE LinkStep
  BY <1>1, AskedSame, ToldSame, Unseen
<1>2. CASE User
  BY <1>2, UserLinks
<1>3. CASE Shell
  BY <1>3, ShellLinks
<1>4. ASSUME NEW r \in Remote, MainThread(r) PROVE LinkStep
  <2>1. EndOfInput(r) => UNCHANGED <<input, output, relays, running>>
    BY DEF EndOfInput, tableVars
  <2> QED
    BY <1>1, <1>4, <2>1, TakeLinks, ConnectLinks DEF MainThread
<1>5. ASSUME NEW r \in Remote, Start(r) \/ Answer(r) \/ Dies(r) PROVE LinkStep
  <2>1. Dies(r) => UNCHANGED <<input, output, relays, running>>
    BY DEF Dies, tableVars
  <2> QED
    BY <1>1, <1>5, <2>1, StartLinks, AnswerLinks
<1>6. ASSUME NEW r \in Remote, NEW c \in Remote, Relay(r, c) PROVE LinkStep
  BY <1>6, RelayLinks
<1>7. CASE UNCHANGED vars
  BY <1>1, <1>7 DEF vars, backendVars, tableVars
<1> QED
  BY <1>2, <1>3, <1>4, <1>5, <1>6, <1>7 DEF Next

LEMMA InitLinks == Init => L!LinksInit(Root)
<1> SUFFICES ASSUME Init PROVE L!LinksInit(Root)
  OBVIOUS
<1> DEFINE first == [remote_id |-> 0, from |-> Root, message |-> ReadyMessage]
<1>0. Root \in Remote /\ RemotesInv
  BY RootIsRemote, InvInit
<1>1. /\ \A r \in Remote : input[r] = <<>> /\ relays[r] = {}
      /\ running = [r \in Remote |-> {}]
      /\ output[Root] = <<first>> /\ \A r \in Remote \ {Root} : output[r] = <<>>
  BY <1>0 DEF Init, ReadyMessage
<1>2. first \in Answered /\ first.message = ReadyMessage /\ first["from"] = Root /\ ReadyMessage \in Messages
  BY <1>0 DEF Answered, Messages, Root
<1> HIDE DEF first
<1>3. /\ <<>> \in Seq(Answered) /\ <<>> \in Seq(Request) /\ Len(<<>>) = 0 /\ \A i \in 1 .. Len(<<>>) : FALSE
      /\ <<>> \o <<>> = <<>>
  OBVIOUS
<1>4. \A id, r : Of(<<>>, id, r) = <<>>
  BY <1>3, OfNone
<1>5. Content(<<>>) = <<>>
  BY <1>3, ContentSeq, EmptyLen
<1>6. Asked = [r \in Remote |-> <<>>]
  <2>1. \A r \in Remote : Asked[r] = <<>>
    BY <1>0, <1>1, <1>3, <1>4, <1>5, AskedIs DEF AskedIn
  <2> QED
    BY <2>1, AskedIs
<1>7. \A r : Of(<<first>>, "from", r) = IF r = Root THEN <<ReadyMessage>> ELSE <<>>
  <2>1. Longer(<<>>, <<first>>, 0) /\ <<first>>[0 + 1] = first
    BY DEF Longer
  <2> DEFINE q == <<first>>
  <2> HIDE DEF q
  <2>2. \A id, r : Of(q, id, r) = IF q[0 + 1][id] = r THEN Append(Of(<<>>, id, r), q[0 + 1].message)
                                  ELSE Of(<<>>, id, r)
    BY <2>1, OfMore DEF q
  <2>3. q[0 + 1] = first
    BY <2>1 DEF q
  <2>4. Append(<<>>, ReadyMessage) = <<ReadyMessage>>
    OBVIOUS
  <2>5. \A r : Of(q, "from", r) = IF r = Root THEN <<ReadyMessage>> ELSE <<>>
    BY <1>2, <1>4, <2>2, <2>3, <2>4
  <2> QED
    BY <2>5 DEF q
<1>8. \A r \in Remote : Middle(relays, output, r) = <<>>
  BY <1>1, MiddleNone
<1>9. /\ <<ReadyMessage>> \o <<>> = <<ReadyMessage>>
      /\ (<<ReadyMessage>> \o <<>>) \o <<>> = <<ReadyMessage>>
  <2>1. <<ReadyMessage>> \in Seq(Messages)
    BY <1>2
  <2> QED
    BY <2>1, JoinedEmpty
<1>10. \A r \in Remote : Told[r] = IF r = Root THEN <<ReadyMessage>> ELSE <<>>
  <2> SUFFICES ASSUME NEW r \in Remote PROVE ToldIn(relays, output, r) = IF r = Root THEN <<ReadyMessage>> ELSE <<>>
    BY ToldIs
  <2>1. CASE r = Root
    BY <1>0, <1>1, <1>7, <1>8, <1>9, <2>1 DEF ToldIn
  <2>2. CASE r # Root
    BY <1>0, <1>1, <1>3, <1>4, <1>7, <1>8, <2>2 DEF ToldIn
  <2> QED
    BY <2>1, <2>2
<1>11. Told = [r \in Remote |-> IF r = Root THEN <<ReadyMessage>> ELSE <<>>]
  <2> DEFINE g == [r \in Remote |-> IF r = Root THEN <<ReadyMessage>> ELSE <<>>]
  <2>1. g = [r \in Remote |-> g[r]] /\ \A r \in Remote : g[r] = Told[r]
    BY <1>10
  <2> HIDE DEF g
  <2>2. Told = g
    BY <2>1, ToldIs, SameFunction
  <2> QED
    BY <2>2 DEF g
<1> QED
  BY <1>1, <1>6, <1>11 DEF L!LinksInit, L!RemoteReady, ReadyMessage

\* However remotes are begun, used, closed and die, each has through the root and the relays a
\* line of its own to the shell: it takes what it is asked in order, and what it answers arrives
\* in order, one time, and as its own answer.
THEOREM KeepsLinks == Spec => ImplementsLinks
<1>1. Init => L!LinksInit(Root)
  BY InitLinks
<1>2. RemotesInv /\ LinkInv /\ [Next]_vars => [L!LinksNext(Batches)]_(L!linkVars)
  BY NextLinks DEF LinkStep
<1> QED
  BY <1>1, <1>2, LinkInvariant, PTL DEF Spec, ImplementsLinks
=============================================================================
