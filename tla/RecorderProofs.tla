--------------------------- MODULE RecorderProofs ---------------------------
(***************************************************************************)
(* The recorder loses only what a terminal has no room for, and the file   *)
(* it writes plays back what was shown, for buffers and terminals of any   *)
(* size.                                                                   *)
(*                                                                         *)
(* What a file says of a direction is laid end to end from its records, by *)
(* recursion; the induction that this takes comes from the least element   *)
(* that a set of numbers has.                                              *)
(***************************************************************************)
EXTENDS Recorder, Numbers

-----------------------------------------------------------------------------
(* Sequences of sequences, laid end to end. *)

\* f[i] is the first i sequences laid end to end, up to the n-th.
Joins(f, seqs, n) ==
    \A i \in 1 .. n : f[i] = IF i = 1 THEN seqs[i] ELSE f[i - 1] \o seqs[i]

LEMMA JoinExists ==
    ASSUME NEW S, NEW seqs \in Seq(Seq(S))
    PROVE  \E f \in [1 .. Len(seqs) -> Seq(S)] : Joins(f, seqs, Len(seqs))
<1> DEFINE T == {n \in Nat : n <= Len(seqs) => \E f \in [1 .. n -> Seq(S)] : Joins(f, seqs, n)}
<1>1. 0 \in T
  <2>1. Joins([i \in 1 .. 0 |-> <<>>], seqs, 0)
    BY DEF Joins
  <2>2. [i \in 1 .. 0 |-> <<>>] \in [1 .. 0 -> Seq(S)]
    OBVIOUS
  <2> QED
    BY <2>1, <2>2
<1>2. ASSUME NEW n \in Nat, n \in T PROVE n + 1 \in T
  <2> SUFFICES ASSUME n + 1 <= Len(seqs)
               PROVE  \E f \in [1 .. n + 1 -> Seq(S)] : Joins(f, seqs, n + 1)
    OBVIOUS
  <2>1. PICK f \in [1 .. n -> Seq(S)] : Joins(f, seqs, n)
    BY <1>2
  <2> DEFINE last == IF n = 0 THEN seqs[n + 1] ELSE f[n] \o seqs[n + 1]
             g == [i \in 1 .. n + 1 |-> IF i = n + 1 THEN last ELSE f[i]]
  <2>2. last \in Seq(S)
    BY <2>1
  <2> HIDE DEF last
  <2>3. g \in [1 .. n + 1 -> Seq(S)]
    BY <2>1, <2>2
  <2>4. \A i \in 1 .. n : g[i] = f[i] /\ i \in 1 .. n + 1 /\ i # n + 1
    OBVIOUS
  <2>5. g[n + 1] = last
    OBVIOUS
  <2> HIDE DEF g
  <2>6. Joins(g, seqs, n + 1)
    <3> SUFFICES ASSUME NEW i \in 1 .. n + 1
                 PROVE  g[i] = IF i = 1 THEN seqs[i] ELSE g[i - 1] \o seqs[i]
      BY DEF Joins
    <3>1. CASE i \in 1 .. n
      <4>1. i = 1 \/ i - 1 \in 1 .. n
        BY <3>1
      <4> QED
        BY <2>1, <2>4, <3>1, <4>1 DEF Joins
    <3>2. CASE i = n + 1
      <4>1. n = 0 \/ (n \in 1 .. n /\ i # 1 /\ i - 1 = n)
        BY <3>2
      <4> QED
        BY <2>4, <2>5, <3>2, <4>1 DEF last
    <3> QED
      BY <3>1, <3>2
  <2> QED
    BY <2>3, <2>6
<1>3. Nat \subseteq T
  <2> HIDE DEF T
  <2> QED
    BY <1>1, <1>2, AllNumbers
<1> QED
  BY <1>3

LEMMA FlattenJoins ==
    ASSUME NEW S, NEW seqs \in Seq(Seq(S)), seqs # <<>>
    PROVE  \E f : Joins(f, seqs, Len(seqs)) /\ FlattenSeq(seqs) = f[Len(seqs)]
<1> DEFINE Def(f) == f = [i \in 1 .. Len(seqs) |-> IF i = 1 THEN seqs[i] ELSE f[i - 1] \o seqs[i]]
           g == CHOOSE f : Def(f)
<1>1. PICK f \in [1 .. Len(seqs) -> Seq(S)] : Joins(f, seqs, Len(seqs))
  BY JoinExists
<1>2. Def(f)
  BY <1>1 DEF Joins
<1>3. Def(g)
  BY <1>2, Zenon
<1>4. Joins(g, seqs, Len(seqs))
  BY <1>3 DEF Joins
<1>5. Len(seqs) # 0
  OBVIOUS
<1>6. FlattenSeq(seqs) = g[Len(seqs)]
  BY <1>5 DEF FlattenSeq
<1> QED
  BY <1>4, <1>6

LEMMA JoinUnique ==
    ASSUME NEW f, NEW g, NEW seqs, NEW others, NEW n \in Nat, Joins(f, seqs, n), Joins(g, others, n),
           \A i \in 1 .. n : others[i] = seqs[i]
    PROVE  \A i \in 1 .. n : f[i] = g[i]
<1> DEFINE T == {i \in Nat : i \in 1 .. n => f[i] = g[i]}
<1>1. 0 \in T
  OBVIOUS
<1>2. ASSUME NEW i \in Nat, i \in T PROVE i + 1 \in T
  <2> SUFFICES ASSUME i + 1 \in 1 .. n PROVE f[i + 1] = g[i + 1]
    OBVIOUS
  <2>1. i + 1 = 1 \/ (i \in 1 .. n /\ (i + 1) - 1 = i /\ i + 1 # 1)
    OBVIOUS
  <2> QED
    BY <1>2, <2>1 DEF Joins
<1>3. Nat \subseteq T
  <2> HIDE DEF T
  <2> QED
    BY <1>1, <1>2, AllNumbers
<1> QED
  BY <1>3

LEMMA FlattenOneMore ==
    ASSUME NEW S, NEW seqs \in Seq(Seq(S)), NEW n \in Nat, n = Len(seqs),
           NEW more \in Seq(Seq(S)), Len(more) = n + 1, \A i \in 1 .. n : more[i] = seqs[i]
    PROVE  FlattenSeq(seqs) \in Seq(S) /\ FlattenSeq(more) = FlattenSeq(seqs) \o more[n + 1]
<1>1. more # <<>> /\ 1 \in 1 .. n + 1 /\ n + 1 \in 1 .. n + 1 /\ more[n + 1] \in Seq(S)
  OBVIOUS
<1>2. PICK g : Joins(g, more, n + 1) /\ FlattenSeq(more) = g[n + 1]
  BY <1>1, FlattenJoins
<1>3. CASE seqs = <<>>
  <2>1. n = 0
    BY <1>3
  <2>2. g[1] = more[1]
    BY <1>1, <1>2 DEF Joins
  <2>3. FlattenSeq(seqs) = <<>>
    BY <1>3 DEF FlattenSeq
  <2>4. <<>> \in Seq(S) /\ \A s \in Seq(S) : <<>> \o s = s
    OBVIOUS
  <2>5. FlattenSeq(more) = more[n + 1]
    BY <1>2, <2>1, <2>2
  <2> QED
    BY <1>1, <2>3, <2>4, <2>5
<1>4. CASE seqs # <<>>
  <2>1. PICK f : Joins(f, seqs, n) /\ FlattenSeq(seqs) = f[n]
    BY <1>4, FlattenJoins
  <2>2. PICK h \in [1 .. n -> Seq(S)] : Joins(h, seqs, n)
    BY JoinExists
  <2>3. n \in 1 .. n /\ n + 1 # 1 /\ (n + 1) - 1 = n /\ \A i \in 1 .. n : i \in 1 .. n + 1
    BY <1>4
  <2>4. Joins(g, more, n)
    BY <1>2, <2>3 DEF Joins
  <2>5. f[n] = h[n]
    BY <2>1, <2>2, <2>3, JoinUnique
  <2>6. f[n] = g[n]
    <3>1. \A i \in 1 .. n : f[i] = g[i]
      BY <2>1, <2>4, JoinUnique, ZenonT(40)
    <3> QED
      BY <2>3, <3>1
  <2>7. g[n + 1] = g[n] \o more[n + 1]
    BY <1>1, <1>2, <2>3 DEF Joins
  <2> QED
    BY <1>2, <2>1, <2>2, <2>3, <2>5, <2>6, <2>7
<1> QED
  BY <1>3, <1>4

LEMMA OneMore ==
    ASSUME NEW S, NEW seq \in Seq(S), NEW e \in S
    PROVE  /\ Append(seq, e) \in Seq(S) /\ Len(Append(seq, e)) = Len(seq) + 1 /\ Len(seq) \in Nat
           /\ Append(seq, e)[Len(seq) + 1] = e /\ \A i \in 1 .. Len(seq) : Append(seq, e)[i] = seq[i]
  OBVIOUS

LEMMA FlattenAppended ==
    ASSUME NEW S, NEW seqs \in Seq(Seq(S)), NEW seq \in Seq(S)
    PROVE  FlattenSeq(seqs) \in Seq(S) /\ FlattenSeq(Append(seqs, seq)) = FlattenSeq(seqs) \o seq
<1> DEFINE more == Append(seqs, seq)
<1>1. /\ more \in Seq(Seq(S)) /\ Len(more) = Len(seqs) + 1 /\ Len(seqs) \in Nat
      /\ more[Len(seqs) + 1] = seq /\ \A i \in 1 .. Len(seqs) : more[i] = seqs[i]
  BY OneMore
<1> HIDE DEF more
<1>2. FlattenSeq(seqs) \in Seq(S) /\ FlattenSeq(more) = FlattenSeq(seqs) \o more[Len(seqs) + 1]
  BY <1>1, FlattenOneMore
<1> QED
  BY <1>1, <1>2 DEF more

-----------------------------------------------------------------------------
(* Parts of sequences. *)

LEMMA Tails ==
    ASSUME NEW S, NEW seq \in Seq(S), NEW k \in Nat, k <= Len(seq)
    PROVE  LET rest == SubSeq(seq, k + 1, Len(seq)) IN
           /\ rest \in Seq(S) /\ Len(rest) = Len(seq) - k
           /\ \A i \in 1 .. Len(seq) - k : rest[i] = seq[k + i]
           /\ rest = <<>> <=> k = Len(seq)
<1> DEFINE rest == SubSeq(seq, k + 1, Len(seq))
<1>1. rest \in Seq(S) /\ Len(rest) = Len(seq) - k
      /\ \A i \in 1 .. Len(seq) - k : rest[i] = seq[k + i]
  OBVIOUS
<1>2. Len(seq) \in Nat /\ (Len(seq) - k = 0 <=> k = Len(seq))
  OBVIOUS
<1> HIDE DEF rest
<1>3. rest = <<>> <=> Len(rest) = 0
  BY <1>1
<1> QED
  BY <1>1, <1>2, <1>3 DEF rest

LEMMA GrownBy ==
    ASSUME NEW S, NEW seq \in Seq(S), NEW more \in Seq(S), Len(more) = Len(seq) + 1,
           \A i \in 1 .. Len(seq) : more[i] = seq[i]
    PROVE  more = Append(seq, more[Len(seq) + 1])
  OBVIOUS

LEMMA Heads ==
    ASSUME NEW S, NEW seq \in Seq(S), NEW n \in Nat, n <= Len(seq)
    PROVE  LET part == SubSeq(seq, 1, n) IN
           part \in Seq(S) /\ Len(part) = n /\ \A i \in 1 .. n : part[i] = seq[i]
  OBVIOUS

LEMMA JoinsAssociate ==
    ASSUME NEW s \in Bytes, NEW t \in Bytes, NEW u \in Bytes
    PROVE  (s \o t) \o u = s \o (t \o u)
  BY SMTT(60) DEF Bytes

LEMMA Joined ==
    ASSUME NEW S, NEW s \in Seq(S), NEW t \in Seq(S)
    PROVE  /\ s \o t \in Seq(S) /\ Len(s \o t) = Len(s) + Len(t)
           /\ \A i \in 1 .. Len(s) : (s \o t)[i] = s[i]
           /\ \A i \in 1 .. Len(t) : (s \o t)[Len(s) + i] = t[i]
           /\ \A i \in DOMAIN (s \o t) : i \in 1 .. Len(s) \/ (i - Len(s) \in 1 .. Len(t) /\ Len(s) + (i - Len(s)) = i)
           /\ IsPrefix(s, s \o t)
<1>1. /\ s \o t \in Seq(S) /\ Len(s \o t) = Len(s) + Len(t)
      /\ \A i \in 1 .. Len(s) : (s \o t)[i] = s[i]
      /\ \A i \in 1 .. Len(t) : (s \o t)[Len(s) + i] = t[i]
      /\ \A i \in DOMAIN (s \o t) : i \in 1 .. Len(s) \/ (i - Len(s) \in 1 .. Len(t) /\ Len(s) + (i - Len(s)) = i)
  OBVIOUS
<1>2. Len(s) \in Nat /\ Len(t) \in Nat /\ Len(s) <= Len(s \o t)
  BY <1>1
<1>3. SubSeq(s, 1, Len(s)) = SubSeq(s \o t, 1, Len(s))
  <2>1. SubSeq(s, 1, Len(s)) \in Seq(S) /\ Len(SubSeq(s, 1, Len(s))) = Len(s)
        /\ \A i \in 1 .. Len(s) : SubSeq(s, 1, Len(s))[i] = s[i]
    BY <1>2, Heads
  <2>2. SubSeq(s \o t, 1, Len(s)) \in Seq(S) /\ Len(SubSeq(s \o t, 1, Len(s))) = Len(s)
        /\ \A i \in 1 .. Len(s) : SubSeq(s \o t, 1, Len(s))[i] = (s \o t)[i]
    BY <1>1, <1>2, Heads
  <2> QED
    BY <1>1, <2>1, <2>2
<1> QED
  BY <1>1, <1>2, <1>3 DEF IsPrefix

-----------------------------------------------------------------------------
(* What the file says. *)

Recorded(d) == DataOf(Parse(file), d)
Item == Record \cup [type : {"Length"}]
PartOf(record, d) == IF record.type = d THEN record.data ELSE <<>>

\* Every second item is a record.
Alternates(f) == \A i \in 1 .. Len(f) \div 2 : f[2 * i] \in Record

LEMMA ParseTypes ==
    ASSUME NEW f \in Seq(Item), Alternates(f)
    PROVE  Parse(f) \in Seq(Record)
  BY DEF Parse, Alternates

LEMMA LengthsSayNothing ==
    ASSUME NEW f \in Seq(Item), Alternates(f), ~Cut(f), NEW item \in Item
    PROVE  /\ Append(f, item) \in Seq(Item) /\ Cut(Append(f, item)) /\ Alternates(Append(f, item))
           /\ Parse(Append(f, item)) = Parse(f)
<1> DEFINE g == Append(f, item)
<1>1. /\ g \in Seq(Item) /\ Len(g) = Len(f) + 1 /\ Len(f) \in Nat
      /\ \A i \in 1 .. Len(f) : g[i] = f[i]
  BY OneMore
<1>2. Len(f) % 2 = 0 /\ (Len(f) + 1) % 2 = 1 /\ (Len(f) + 1) \div 2 = Len(f) \div 2
  BY <1>1 DEF Cut
<1>3. \A i \in 1 .. Len(f) \div 2 : 2 * i \in 1 .. Len(f)
  BY <1>1
<1> HIDE DEF g
<1>4. Cut(g) /\ Alternates(g) /\ Parse(g) = Parse(f)
  BY <1>1, <1>2, <1>3 DEF Cut, Alternates, Parse
<1> QED
  BY <1>1, <1>4 DEF g

LEMMA PayloadsAreRead ==
    ASSUME NEW f \in Seq(Item), Alternates(f), Cut(f), NEW record \in Record
    PROVE  /\ Append(f, record) \in Seq(Item) /\ ~Cut(Append(f, record)) /\ Alternates(Append(f, record))
           /\ Parse(Append(f, record)) = Append(Parse(f), record)
<1> DEFINE g == Append(f, record) n == Len(f) \div 2
<1>1. /\ g \in Seq(Item) /\ Len(g) = Len(f) + 1 /\ Len(f) \in Nat
      /\ g[Len(f) + 1] = record /\ \A i \in 1 .. Len(f) : g[i] = f[i]
  BY OneMore DEF Item
<1>2. n \in Nat /\ Len(f) = 2 * n + 1 /\ Len(g) % 2 = 0 /\ Len(g) \div 2 = n + 1
  BY <1>1 DEF Cut
<1>3. /\ \A i \in 1 .. n : 2 * i \in 1 .. Len(f)
      /\ \A i \in 1 .. n + 1 : i \in 1 .. n \/ (i = n + 1 /\ 2 * i = Len(f) + 1)
  BY <1>1, <1>2
<1> HIDE DEF g
<1>4. ~Cut(g) /\ \A i \in 1 .. n : f[2 * i] \in Record
  BY <1>2 DEF Cut, Alternates
<1> HIDE DEF n
<1>5. Alternates(g)
  BY <1>1, <1>2, <1>3, <1>4 DEF Alternates
<1>6. Parse(f) = [i \in 1 .. n |-> f[2 * i]] /\ Parse(f) \in Seq(Record) /\ Len(Parse(f)) = n
  <2>1. Parse(f) = [i \in 1 .. n |-> f[2 * i]]
    BY DEF Parse, n
  <2> QED
    BY <1>2, <1>4, <2>1
<1>7. Parse(g) = [i \in 1 .. n + 1 |-> g[2 * i]] /\ Parse(g) \in Seq(Record) /\ Len(Parse(g)) = n + 1
  <2>1. Parse(g) = [i \in 1 .. n + 1 |-> g[2 * i]]
    BY <1>2 DEF Parse
  <2>2. \A i \in 1 .. n + 1 : g[2 * i] \in Record
    BY <1>2, <1>5 DEF Alternates
  <2> QED
    BY <1>2, <2>1, <2>2
<1>8. ASSUME NEW i \in 1 .. n PROVE Parse(g)[i] = Parse(f)[i]
  <2>1. i \in 1 .. n + 1 /\ g[2 * i] = f[2 * i]
    BY <1>1, <1>2, <1>3
  <2> QED
    BY <1>6, <1>7, <2>1
<1>9. Parse(g)[n + 1] = record
  BY <1>1, <1>2, <1>3, <1>7
<1>10. Parse(g) = Append(Parse(f), record)
  BY <1>6, <1>7, <1>8, <1>9, GrownBy
<1> QED
  BY <1>1, <1>4, <1>5, <1>10 DEF g

LEMMA DataOfOneMore ==
    ASSUME NEW records \in Seq(Record), NEW record \in Record, NEW d \in Dir
    PROVE  /\ DataOf(records, d) \in Bytes
           /\ DataOf(Append(records, record), d) = DataOf(records, d) \o PartOf(record, d)
<1> DEFINE more == Append(records, record) n == Len(records)
           Parts(rs) == [i \in DOMAIN rs |-> IF rs[i].type = d THEN rs[i].data ELSE <<>>]
<1>1. \A r \in Record : PartOf(r, d) \in Bytes
  BY DEF Record, PartOf, Bytes, Dir
<1>2. /\ more \in Seq(Record) /\ Len(more) = n + 1 /\ n \in Nat
      /\ more[n + 1] = record /\ \A i \in 1 .. n : more[i] = records[i]
  BY OneMore
<1>3. /\ Parts(records) \in Seq(Bytes) /\ Len(Parts(records)) = n
      /\ \A i \in 1 .. n : Parts(records)[i] = PartOf(records[i], d)
  BY <1>1 DEF PartOf
<1> HIDE DEF more
<1>4. /\ Parts(more) \in Seq(Bytes) /\ Len(Parts(more)) = n + 1
      /\ \A i \in 1 .. n + 1 : Parts(more)[i] = PartOf(more[i], d)
  BY <1>1, <1>2 DEF PartOf
<1>5. \A i \in 1 .. n : Parts(more)[i] = Parts(records)[i]
  BY <1>2, <1>3, <1>4
<1>6. Parts(more)[n + 1] = PartOf(record, d)
  BY <1>2, <1>4
<1>7. DataOf(records, d) = FlattenSeq(Parts(records)) /\ DataOf(more, d) = FlattenSeq(Parts(more))
  BY DEF DataOf
<1> HIDE DEF Parts
<1>8. /\ FlattenSeq(Parts(records)) \in Bytes
      /\ FlattenSeq(Parts(more)) = FlattenSeq(Parts(records)) \o Parts(more)[n + 1]
  BY <1>2, <1>3, <1>4, <1>5, FlattenOneMore DEF Bytes
<1> QED
  BY <1>6, <1>7, <1>8 DEF more

-----------------------------------------------------------------------------
(* The inductive invariant. *)

\* What was written in the call of pipe_some that goes on, or is about to be recorded.
Unrecorded(d) ==
    IF pc = "pump" /\ current = d THEN chunk
    ELSE IF pc = "accept" /\ outcome # "panic" THEN PartOf(pending, d)
    ELSE <<>>

FileInv ==
    /\ \A d \in Dir : written[d] = Recorded(d) \o Unrecorded(d)
    /\ pc # "pump" => chunk = <<>>
    /\ pc # "accept" \/ outcome = "panic" => ~Cut(file)
    /\ outcome = "panic" => pc = "accept"
    /\ outcome = "ok" => pc = "wait"
    /\ Alternates(file)

\* The bytes that were read and neither written nor refused are the last ones of buf.
InHand(d) == IF pc = "pump" /\ current = d THEN Len(buf[d]) - offset ELSE 0

BufInv(d) ==
    /\ Len(buf[d]) <= BufSize /\ Len(buf[d]) <= taken[d]
    /\ \A i \in 1 .. Len(buf[d]) : buf[d][i] = taken[d] - Len(buf[d]) + i
    /\ \A i, j \in 1 .. Len(written[d]) : i < j => written[d][i] < written[d][j]
    /\ \A i \in 1 .. Len(written[d]) : written[d][i] <= taken[d] /\ written[d][i] \notin refused[d]
    /\ Recording => Range(written[d]) \cup refused[d] = 1 .. taken[d] - InHand(d)
    /\ capacity[d] # BufSize => refused[d] # {}

PumpInv ==
    /\ \A d \in Dir : BufInv(d)
    /\ outcome = "undefined" => \E d \in Dir : refused[d] # {}
    /\ Recording /\ pc # "pump" => offset = 0
    /\ Recording /\ eof => pc = "wait" \/ (pc = "accept" /\ pending.type # "Config")
    /\ Recording /\ ~eof => \A d \in Dir : buf[d] = <<>> \/ (pc = "pump" /\ current = d)

RInv == RecorderTypeOK /\ FileInv /\ PumpInv

LEMMA RInvInit == Init => RInv
<1> SUFFICES ASSUME Init PROVE RInv
  OBVIOUS
<1>1. <<>> \in Bytes /\ Len(<<>>) = 0 /\ "Input" \in Dir
  BY DEF Bytes, Dir
<1>2. RecorderTypeOK
  <2>1. /\ 0 \in 0 .. Room /\ BufSize \in 0 .. BufSize
    BY RecorderAssumption
  <2>2. [type |-> "Config", data |-> <<>>] \in Record
    BY DEF Record
  <2>3. \A d \in Dir : refused[d] \subseteq 1 .. taken[d]
    BY DEF Init
  <2>4. /\ made \in [Dir -> Nat] /\ backlog \in [Dir -> 0 .. Room] /\ capacity \in [Dir -> 0 .. BufSize]
        /\ taken \in [Dir -> Nat] /\ \A d \in Dir : taken[d] <= made[d]
    BY <2>1 DEF Init
  <2>5. /\ buf \in [Dir -> Bytes] /\ written \in [Dir -> Bytes] /\ refused \in [Dir -> SUBSET Nat]
    BY <1>1 DEF Init
  <2>6. file \in Seq(Record \cup [type : {"Length"}]) /\ pending \in Record /\ chunk \in Bytes
    BY <1>1, <2>2 DEF Init
  <2>7. /\ ~At("pump") /\ outcome \in Outcome /\ current \in Dir
    BY <1>1 DEF Init, At, Outcome
  <2> QED
    BY <2>3, <2>4, <2>5, <2>6, <2>7 DEF Init, RecorderTypeOK
<1>3. FileInv
  <2>1. ~Cut(file) /\ Alternates(file) /\ Parse(file) = <<>>
    <3>1. Len(file) = 0 /\ 0 % 2 = 0 /\ 0 \div 2 = 0
      BY DEF Init
    <3> QED
      BY <3>1 DEF Cut, Alternates, Parse
  <2>2. \A d \in Dir : Recorded(d) = <<>>
    <3>1. \A d \in Dir : DataOf(<<>>, d) = FlattenSeq(<<>>)
      BY DEF DataOf
    <3>2. FlattenSeq(<<>>) = <<>>
      BY DEF FlattenSeq
    <3> QED
      BY <2>1, <3>1, <3>2 DEF Recorded
  <2>3. \A d \in Dir : Unrecorded(d) = <<>>
    BY DEF Init, Unrecorded, PartOf, Dir
  <2> QED
    BY <2>1, <2>2, <2>3 DEF Init, FileInv
<1>4. \A d \in Dir : BufInv(d)
  BY RecorderAssumption DEF Init, BufInv, InHand, Range
<1> QED
  BY <1>2, <1>3, <1>4 DEF Init, PumpInv, RInv

-----------------------------------------------------------------------------
(* Types. *)

LEMMA LeftOver ==
    ASSUME RecorderTypeOK, At("pump")
    PROVE  LET left == Left(current) IN
           /\ current \in Dir /\ buf[current] \in Bytes /\ Len(buf[current]) \in Nat
           /\ left \in Bytes /\ Len(left) = Len(buf[current]) - offset
           /\ \A i \in 1 .. Len(buf[current]) - offset : left[i] = buf[current][offset + i]
           /\ left = <<>> <=> offset = Len(buf[current])
<1>1. /\ current \in Dir /\ buf[current] \in Bytes /\ offset \in Nat /\ offset <= Len(buf[current])
      /\ Len(buf[current]) \in Nat
  BY DEF RecorderTypeOK, Bytes
<1> DEFINE rest == SubSeq(buf[current], offset + 1, Len(buf[current]))
<1>2. /\ rest \in Seq(Nat \ {0}) /\ Len(rest) = Len(buf[current]) - offset
      /\ \A i \in 1 .. Len(buf[current]) - offset : rest[i] = buf[current][offset + i]
      /\ rest = <<>> <=> offset = Len(buf[current])
  <2>1. buf[current] \in Seq(Nat \ {0})
    BY <1>1 DEF Bytes
  <2> QED
    BY <1>1, <2>1, Tails
<1>3. Left(current) = rest
  BY DEF Left
<1> HIDE DEF rest
<1> QED
  BY <1>1, <1>2, <1>3 DEF Bytes

\* The next n bytes.
LEMMA NextAreBytes ==
    ASSUME RecorderTypeOK, NEW d \in Dir, NEW n \in Nat
    PROVE  /\ NextBytes(d, n) \in Bytes /\ Len(NextBytes(d, n)) = n
           /\ \A i \in 1 .. n : NextBytes(d, n)[i] = taken[d] + i
<1>1. taken[d] \in Nat
  BY DEF RecorderTypeOK
<1>2. \A i \in 1 .. n : taken[d] + i \in Nat \ {0}
  BY <1>1
<1>3. [i \in 1 .. n |-> taken[d] + i] \in [1 .. n -> Nat \ {0}]
  BY <1>2
<1>4. NextBytes(d, n) \in Seq(Nat \ {0}) /\ Len(NextBytes(d, n)) = n
  BY <1>3 DEF NextBytes
<1> QED
  BY <1>4 DEF NextBytes, Bytes

LEMMA WorldTypes ==
    ASSUME RInv, World \/ Killed
    PROVE  RecorderTypeOK'
<1> USE DEF RecorderTypeOK, At, Recording
<1>1. CASE ChangeAttrs
  BY <1>1 DEF RInv, ChangeAttrs, pumpVars, fileVars
<1>2. ASSUME NEW d \in Dir, Produce(d) PROVE RecorderTypeOK'
  <2>1. made' \in [Dir -> Nat] /\ \A e \in Dir : taken[e] <= made'[e]
    BY <1>2 DEF RInv, Produce
  <2> QED
    BY <1>2, <2>1 DEF RInv, Produce, pumpVars, fileVars
<1>4. ASSUME NEW d \in Dir, Close(d) PROVE RecorderTypeOK'
  BY <1>4 DEF RInv, Close, pumpVars, fileVars
<1>5. ASSUME NEW d \in Dir, Drain(d) PROVE RecorderTypeOK'
  <2>1. backlog' \in [Dir -> 0 .. Room]
    BY <1>5, RecorderAssumption DEF RInv, Drain
  <2> QED
    BY <1>5, <2>1 DEF RInv, Drain, pumpVars, fileVars
<1>6. CASE Exit
  BY <1>6 DEF RInv, Exit, pumpVars, fileVars
<1>3. CASE Killed
  BY <1>3 DEF RInv, Killed, Stop, Outcome, worldVars, pumpVars, fileVars
<1> QED
  BY <1>1, <1>2, <1>3, <1>4, <1>5, <1>6 DEF World

\* The pump begins with an empty buffer, or one from which it has written nothing.
LEMMA LoopTypes ==
    ASSUME RInv, WriteLength \/ WritePayload \/ AcceptFails \/ Spawn \/ CheckConfig \/ Select \/ Wait
    PROVE  RecorderTypeOK'
<1>1. RecorderTypeOK /\ (Recording /\ pc # "pump" => offset = 0)
  BY DEF RInv, PumpInv
<1>2. \A d \in Dir : Len(buf[d]) \in Nat
  BY <1>1 DEF RecorderTypeOK, Bytes
<1>3. /\ pending \in Item /\ [type |-> "Length"] \in Item
      /\ \A item \in Item : Append(file, item) \in Seq(Item) 
  BY <1>1 DEF RecorderTypeOK, Item
<1>4. \A found \in SUBSET Dir : PumpNext(found) /\ (found = {} \/ found # {}) =>
         /\ pc' \in {"config", "pump"} /\ ready' \subseteq Dir /\ current' \in Dir
  BY <1>1 DEF PumpNext, Dir, RecorderTypeOK
<1> USE DEF RecorderTypeOK, At, Recording
<1>5. CASE WriteLength
  BY <1>1, <1>3, <1>5 DEF WriteLength, worldVars, pumpVars, Item
<1>6. CASE WritePayload
  <2>1. /\ pc' \in {"accept", "spawn", "config", "select", "pump", "wait"}
        /\ ready' \subseteq Dir /\ current' \in Dir /\ outcome' \in Outcome
    <3>1. CASE AfterConfig
      BY <1>1, <3>1 DEF AfterConfig
    <3>2. CASE AfterData
      <4>1. CASE PumpNext(ready) /\ UNCHANGED outcome
        BY <1>1, <1>4, <4>1
      <4> QED
        BY <1>1, <3>2, <4>1 DEF AfterData, Outcome
    <3> QED
      BY <1>6, <3>1, <3>2 DEF WritePayload
  <2> QED
    BY <1>1, <1>2, <1>3, <1>6, <2>1 DEF WritePayload, worldVars, pumpVars, Item
<1>7. CASE AcceptFails
  BY <1>1, <1>7 DEF AcceptFails, Stop, Outcome, worldVars, pumpVars, fileVars
<1>8. CASE Spawn
  BY <1>1, <1>8 DEF Spawn, Outcome, worldVars, pumpVars, fileVars
<1>9. CASE CheckConfig
  <2>1. [type |-> "Config", data |-> <<>>] \in Record
    BY DEF Record
  <2> QED
    BY <1>1, <1>9, <2>1 DEF CheckConfig, Accept, worldVars, pumpVars
<1>10. CASE Select
  <2>1. PICK found \in SUBSET Dir : PumpNext(found)
    BY <1>10 DEF Select
  <2>2. pc' \in {"config", "pump"} /\ ready' \subseteq Dir /\ current' \in Dir
    BY <1>4, <2>1
  <2>3. /\ offset = 0 /\ UNCHANGED <<worldVars, pumpVars, fileVars, outcome>>
    BY <1>1, <1>10 DEF Select
  <2> QED
    BY <1>1, <1>2, <2>2, <2>3 DEF worldVars, pumpVars, fileVars
<1>11. CASE Wait
  BY <1>1, <1>11 DEF Wait, Stop, Outcome, worldVars, pumpVars, fileVars
<1> QED
  BY <1>5, <1>6, <1>7, <1>8, <1>9, <1>10, <1>11

LEMMA PumpTypes ==
    ASSUME RInv, PipeSome
    PROVE  RecorderTypeOK'
<1> DEFINE d == current left == Left(current)
<1>1. At("pump") /\ RecorderTypeOK /\ BufInv(d) /\ (\A e \in Dir : Len(buf[e]) \in Nat)
  <2>1. At("pump")
    BY DEF PipeSome, WriteSome, ReadSome, WouldBlock, WriteFails, ReadWouldBlock, ReadEof, ReadFails, Reads
  <2>2. RecorderTypeOK
    BY DEF RInv
  <2> QED
    BY <2>1, <2>2 DEF RInv, PumpInv, RecorderTypeOK, Bytes
<1>2. /\ d \in Dir /\ left \in Bytes /\ Len(left) = Len(buf[d]) - offset
      /\ \A i \in 1 .. Len(buf[d]) - offset : left[i] = buf[d][offset + i]
      /\ left = <<>> <=> offset = Len(buf[d])
  BY <1>1, LeftOver
<1>3. <<>> \in Bytes /\ Len(<<>>) = 0
  BY DEF Bytes
<1> HIDE DEF d, left
<1>4. \A bytes \in Bytes : WithBuf(d, bytes) => buf' \in [Dir -> Bytes] /\ buf'[d] = bytes
  BY <1>1, <1>2 DEF WithBuf, RecorderTypeOK
<1>5. Left(current) = left /\ d = current /\ offset \in Nat /\ Len(left) \in Nat
  BY <1>1, <1>2 DEF d, left, RecorderTypeOK, Bytes
<1>6. ASSUME NEW n \in 1 .. BufSize, WriteSome(n) PROVE RecorderTypeOK'
  <2>1. n \in Nat /\ n <= Len(left) /\ backlog[d] + n <= Room
    BY <1>5, <1>6, RecorderAssumption DEF WriteSome
  <2>2. SubSeq(left, 1, n) \in Bytes
    BY <1>2, <2>1, Heads DEF Bytes
  <2>3. chunk' \in Bytes
    BY <1>1, <1>5, <1>6, <2>2 DEF WriteSome, RecorderTypeOK, Bytes
  <2>4. written' \in [Dir -> Bytes]
    <3>1. written[d] \o SubSeq(left, 1, n) \in Bytes
      BY <1>1, <1>2, <2>2 DEF RecorderTypeOK, Bytes
    <3>2. written' = [written EXCEPT ![d] = @ \o SubSeq(left, 1, n)]
      BY <1>5, <1>6 DEF WriteSome
    <3> QED
      BY <1>1, <3>1, <3>2 DEF RecorderTypeOK
  <2>5. backlog' \in [Dir -> 0 .. Room]
    <3>1. backlog' = [backlog EXCEPT ![d] = @ + n]
      BY <1>5, <1>6 DEF WriteSome
    <3>2. backlog \in [Dir -> 0 .. Room] /\ Room \in Nat
      BY <1>1, RecorderAssumption DEF RecorderTypeOK
    <3>3. backlog[d] + n \in 0 .. Room
      BY <1>2, <2>1, <3>2
    <3> QED
      BY <1>2, <3>1, <3>2, <3>3
  <2>6. offset' \in Nat /\ offset' <= Len(buf'[current'])
    BY <1>1, <1>2, <1>5, <1>6, <2>1 DEF WriteSome
  <2> QED
    BY <1>1, <1>6, <2>3, <2>4, <2>5, <2>6 DEF WriteSome, RecorderTypeOK, fileVars
<1>7. ASSUME NEW n \in 1 .. BufSize, ReadSome(n) PROVE RecorderTypeOK'
  <2>1. n \in Nat /\ taken[d] + n <= made[d]
    BY <1>5, <1>7, RecorderAssumption DEF ReadSome
  <2>2. taken' \in [Dir -> Nat] /\ \A e \in Dir : taken'[e] <= made[e] /\ taken'[e] >= taken[e]
    BY <1>1, <1>2, <1>5, <1>7, <2>1 DEF ReadSome, RecorderTypeOK
  <2>3. buf' \in [Dir -> Bytes] /\ Len(buf'[d]) \in Nat
    <3>1. NextBytes(d, n) \in Bytes
      BY <1>1, <1>2, <2>1, NextAreBytes
    <3> QED
      BY <1>2, <1>4, <1>5, <1>7, <3>1 DEF ReadSome, Bytes
  <2>4. \A e \in Dir : refused[e] \subseteq 1 .. taken'[e]
    BY <1>1, <2>2 DEF RecorderTypeOK
  <2>5. outcome' \in Outcome
    BY <1>1, <1>7 DEF ReadSome, RecorderTypeOK, Outcome
  <2>6. offset' = 0 /\ current' = d
    BY <1>5, <1>7 DEF ReadSome
  <2> QED
    BY <1>1, <1>7, <2>2, <2>3, <2>4, <2>5, <2>6 DEF ReadSome, RecorderTypeOK, fileVars, worldVars
<1>8. CASE WouldBlock
  <2>1. buf' \in [Dir -> Bytes] /\ buf'[d] = left /\ offset' = Len(left)
    BY <1>2, <1>4, <1>5, <1>8 DEF WouldBlock
  <2>2. Len(left) \in 0 .. BufSize /\ Len(buf[d]) <= BufSize
    BY <1>1, <1>2, <1>5, RecorderAssumption DEF BufInv
  <2>3. capacity' \in [Dir -> 0 .. BufSize]
    BY <1>1, <1>2, <1>5, <1>8, <2>2 DEF WouldBlock, RecorderTypeOK
  <2>4. Range(left) \subseteq 1 .. taken[d]
    <3> SUFFICES ASSUME NEW i \in 1 .. Len(left) PROVE left[i] \in 1 .. taken[d]
      BY <1>2 DEF Range, Bytes
    <3>1. offset + i \in 1 .. Len(buf[d]) /\ left[i] = buf[d][offset + i]
      BY <1>1, <1>2, <1>5
    <3>2. left[i] = taken[d] - Len(buf[d]) + (offset + i)
      BY <1>1, <3>1 DEF BufInv
    <3>3. Len(buf[d]) <= taken[d] /\ taken[d] \in Nat
      BY <1>1, <1>2 DEF BufInv, RecorderTypeOK
    <3> QED
      BY <1>1, <1>2, <1>5, <3>1, <3>2, <3>3
  <2>5. refused' \in [Dir -> SUBSET Nat] /\ \A e \in Dir : refused'[e] \subseteq 1 .. taken[e]
    <3>1. refused' = [refused EXCEPT ![d] = @ \cup Range(left)]
      BY <1>5, <1>8 DEF WouldBlock
    <3>2. refused[d] \cup Range(left) \subseteq 1 .. taken[d] /\ 1 .. taken[d] \subseteq Nat
      BY <1>1, <1>2, <2>4 DEF RecorderTypeOK
    <3> QED
      BY <1>1, <1>2, <3>1, <3>2 DEF RecorderTypeOK
  <2>6. offset' \in Nat /\ offset' <= Len(buf'[current'])
    BY <1>5, <1>8, <2>1 DEF WouldBlock
  <2> QED
    BY <1>1, <1>8, <2>1, <2>3, <2>5, <2>6 DEF WouldBlock, RecorderTypeOK, fileVars, worldVars
<1>9. CASE WriteFails
  <2>1. buf' \in [Dir -> Bytes] /\ ~At("pump")' /\ offset' = 0 /\ outcome' \in Outcome
    BY <1>2, <1>4, <1>5, <1>9 DEF WriteFails, Stop, At, Recording, Outcome
  <2> QED
    BY <1>1, <1>9, <2>1 DEF WriteFails, Stop, RecorderTypeOK, fileVars, worldVars
<1>10. ASSUME NEW end \in BOOLEAN, EndPump(end), buf' \in [Dir -> Bytes] PROVE RecorderTypeOK'
  <2>1. [type |-> current, data |-> chunk] \in Record
    BY <1>1 DEF Record, RecorderTypeOK
  <2>2. ~At("pump")' /\ pc' = "accept" /\ pending' \in Record /\ chunk' \in Bytes
    BY <1>3, <1>10, <2>1 DEF EndPump, Accept, At
  <2> QED
    BY <1>1, <1>10, <2>2 DEF EndPump, RecorderTypeOK, worldVars
<1>11. CASE ReadWouldBlock
  BY <1>3, <1>4, <1>5, <1>10, <1>11 DEF ReadWouldBlock
<1>12. CASE ReadEof
  BY <1>1, <1>10, <1>12 DEF ReadEof, RecorderTypeOK
<1>13. CASE ReadFails
  <2>1. buf' \in [Dir -> Bytes] /\ ~At("pump")' /\ outcome' \in Outcome
    BY <1>3, <1>4, <1>5, <1>13 DEF ReadFails, Stop, At, Recording, Outcome
  <2> QED
    BY <1>1, <1>13, <2>1 DEF ReadFails, Stop, RecorderTypeOK, fileVars, worldVars
<1> QED
  BY <1>6, <1>7, <1>8, <1>9, <1>11, <1>12, <1>13 DEF PipeSome

LEMMA Types == ASSUME RInv, [Next]_vars PROVE RecorderTypeOK'
<1>1. CASE UNCHANGED vars
  BY <1>1 DEF RInv, RecorderTypeOK, At, Recording, vars, worldVars, pumpVars, fileVars
<1> QED
  BY <1>1, WorldTypes, LoopTypes, PumpTypes DEF Next, Recorder

-----------------------------------------------------------------------------
(* What was written is what the file says, and what will be recorded next. *)

\* A step that leaves the file and the record in hand alone.
LEMMA FileKept ==
    ASSUME RInv, UNCHANGED <<file, written, chunk>>, \A d \in Dir : Unrecorded(d)' = Unrecorded(d),
           pc' # "pump" => chunk = <<>>, (pc' # "accept" \/ outcome' = "panic") => ~Cut(file),
           outcome' = "panic" => pc' = "accept", outcome' = "ok" => pc' = "wait"
    PROVE  FileInv'
<1>1. \A d \in Dir : Recorded(d)' = Recorded(d)
  BY DEF Recorded
<1> QED
  BY <1>1 DEF RInv, FileInv, Cut, Alternates

\* Nothing is in hand when the pump begins, and outside of it between two records.
LEMMA NothingInHand ==
    ASSUME RInv
    PROVE  /\ \A d \in Dir : pc # "pump" /\ (pc # "accept" \/ outcome = "panic") => Unrecorded(d) = <<>>
           /\ \A d \in Dir : chunk' = <<>> /\ (pc' # "accept" \/ outcome' = "panic") => Unrecorded(d)' = <<>>
           /\ \A d \in Dir : pc' = "accept" /\ pending'.type = "Config" => Unrecorded(d)' = <<>>
  BY DEF Unrecorded, Dir, PartOf

LEMMA LoopFile ==
    ASSUME RInv, World \/ Killed \/ AcceptFails \/ Spawn \/ CheckConfig \/ Select \/ Wait
    PROVE  FileInv'
<1>1. RecorderTypeOK /\ FileInv
  BY DEF RInv
<1>2. CASE World
  BY <1>1, <1>2, FileKept
     DEF World, ChangeAttrs, Exit, Produce, Close, Drain, pumpVars, fileVars, Unrecorded, FileInv
<1>3. CASE Killed \/ AcceptFails \/ Wait
  BY <1>1, <1>3, FileKept
     DEF Killed, AcceptFails, Wait, Stop, At, Recording, pumpVars, fileVars, Unrecorded, FileInv
<1>4. CASE Spawn
  <2>1. /\ UNCHANGED <<file, written, chunk>> /\ pc = "spawn" /\ pc' \in {"spawn", "config"}
        /\ outcome' \in {"recording", "error"} /\ outcome = "recording"
    BY <1>4 DEF Spawn, At, Recording, pumpVars, fileVars
  <2> QED
    BY <1>1, <2>1, FileKept, NothingInHand DEF FileInv
<1>5. CASE CheckConfig
  <2>1. /\ UNCHANGED <<file, written, chunk, outcome>> /\ pc = "config" /\ outcome = "recording"
        /\ pc' = "select" \/ (pc' = "accept" /\ pending'.type = "Config")
    BY <1>5 DEF CheckConfig, Accept, At, Recording, pumpVars
  <2>2. \A d \in Dir : Unrecorded(d)' = Unrecorded(d)
    BY <1>1, <2>1, NothingInHand DEF FileInv
  <2> QED
    BY <1>1, <2>1, <2>2, FileKept DEF FileInv
<1>6. CASE Select
  <2>1. /\ UNCHANGED <<file, written, chunk, outcome>> /\ pc = "select" /\ outcome = "recording"
        /\ pc' \in {"config", "pump"}
    BY <1>6 DEF Select, PumpNext, At, Recording, pumpVars, fileVars
  <2>2. chunk = <<>> /\ ~Cut(file)
    BY <1>1, <2>1 DEF FileInv
  <2>3. \A d \in Dir : Unrecorded(d)' = Unrecorded(d)
    BY <2>1, <2>2, NothingInHand
  <2> QED
    BY <1>1, <2>1, <2>2, <2>3, FileKept
<1> QED
  BY <1>2, <1>3, <1>4, <1>5, <1>6

\* The file grows by a length, of which nothing is read, and by the record in hand.
LEMMA AcceptFile ==
    ASSUME RInv, WriteLength \/ WritePayload
    PROVE  FileInv'
<1>1. RecorderTypeOK /\ FileInv /\ file \in Seq(Item) /\ pending \in Record
  BY DEF RInv, RecorderTypeOK, Item
<1>2. CASE WriteLength
  <2>1. [type |-> "Length"] \in Item
    BY DEF Item
  <2>2. /\ pc = "accept" /\ outcome = "recording" /\ ~Cut(file)
        /\ file' = Append(file, [type |-> "Length"])
        /\ UNCHANGED <<written, chunk, pending, pc, current, outcome>>
    BY <1>2 DEF WriteLength, At, Recording, pumpVars
  <2>3. Parse(file') = Parse(file) /\ Alternates(file')
    BY <1>1, <2>1, <2>2, LengthsSayNothing DEF FileInv
  <2>4. \A d \in Dir : Recorded(d)' = Recorded(d) /\ Unrecorded(d)' = Unrecorded(d)
    BY <2>2, <2>3 DEF Recorded, Unrecorded
  <2> QED
    BY <1>1, <2>2, <2>3, <2>4 DEF FileInv
<1>3. CASE WritePayload
  <2>1. /\ pc = "accept" /\ outcome = "recording" /\ Cut(file) /\ file' = Append(file, pending)
        /\ UNCHANGED <<written, chunk>>
    BY <1>3 DEF WritePayload, At, Recording, pumpVars
  <2>2. /\ pc' # "accept" \/ outcome' = "panic"
        /\ outcome' = "panic" => pc' = "accept"
        /\ outcome' # "ok"
    BY <1>3, <2>1 DEF WritePayload, AfterConfig, AfterData, PumpNext
  <2>3. ~Cut(file') /\ Alternates(file') /\ Parse(file') = Append(Parse(file), pending)
    BY <1>1, <2>1, PayloadsAreRead DEF FileInv
  <2>4. Parse(file) \in Seq(Record) /\ chunk = <<>>
    BY <1>1, <2>1, ParseTypes DEF FileInv
  <2>5. ASSUME NEW d \in Dir PROVE written'[d] = Recorded(d)' \o Unrecorded(d)'
    <3>1. Unrecorded(d) = PartOf(pending, d) /\ Unrecorded(d)' = <<>>
      BY <2>1, <2>2, <2>4, NothingInHand DEF Unrecorded
    <3>2. written[d] = Recorded(d) \o PartOf(pending, d)
      BY <1>1, <3>1 DEF FileInv
    <3>3. Recorded(d)' = written[d]
      BY <1>1, <2>3, <2>4, <3>2, DataOfOneMore DEF Recorded
    <3>4. written[d] \o <<>> = written[d]
      BY <1>1 DEF RecorderTypeOK, Bytes
    <3> QED
      BY <2>1, <3>1, <3>3, <3>4
  <2>6. Cut(file)' = Cut(file') /\ Alternates(file)' = Alternates(file')
    BY DEF Cut, Alternates
  <2> QED
    BY <2>1, <2>2, <2>3, <2>4, <2>5, <2>6 DEF FileInv
<1> QED
  BY <1>2, <1>3

\* What the pump writes it adds to the chunk, which becomes the next record.
LEMMA PumpFile ==
    ASSUME RInv, PipeSome
    PROVE  FileInv'
<1>1. RecorderTypeOK /\ FileInv
  BY DEF RInv
<1>2. ASSUME NEW n \in 1 .. BufSize, WriteSome(n) PROVE FileInv'
  <2> DEFINE part == SubSeq(Left(current), 1, n)
  <2>1. /\ UNCHANGED <<file, pc, current, outcome>> /\ pc = "pump" /\ outcome = "recording"
        /\ chunk' = chunk \o part /\ written' = [written EXCEPT ![current] = @ \o part]
    BY <1>2 DEF WriteSome, At, Recording, fileVars
  <2>2. part \in Bytes
    <3>1. Left(current) \in Bytes /\ n \in Nat /\ n <= Len(Left(current))
      BY <1>1, <1>2, LeftOver, RecorderAssumption DEF WriteSome
    <3> QED
      BY <3>1, Heads DEF Bytes
  <2> HIDE DEF part
  <2>3. ASSUME NEW d \in Dir PROVE written'[d] = Recorded(d)' \o Unrecorded(d)'
    <3>1. Recorded(d)' = Recorded(d) /\ written[d] = Recorded(d) \o Unrecorded(d)
      BY <1>1, <2>1 DEF FileInv, Recorded
    <3>2. CASE d # current
      BY <1>1, <2>1, <3>1, <3>2 DEF Unrecorded, RecorderTypeOK
    <3>3. CASE d = current
      <4>1. Unrecorded(d) = chunk /\ Unrecorded(d)' = chunk \o part
        BY <2>1, <3>3 DEF Unrecorded
      <4>2. written'[d] = (Recorded(d) \o chunk) \o part
        <5>1. written \in [Dir -> Bytes] /\ written'[d] = written[d] \o part
          BY <1>1, <2>1, <3>3 DEF RecorderTypeOK
        <5> QED
          BY <3>1, <4>1, <5>1
      <4>3. Recorded(d) \in Bytes /\ chunk \in Bytes
        <5>1. file \in Seq(Item) /\ Parse(file) \in Seq(Record)
          BY <1>1, ParseTypes DEF FileInv, RecorderTypeOK, Item
        <5>2. \E record : record \in Record
          BY <1>1 DEF RecorderTypeOK
        <5>3. DataOf(Parse(file), d) \in Bytes
          BY <5>1, <5>2, DataOfOneMore
        <5>4. chunk \in Bytes
          BY <1>1 DEF RecorderTypeOK
        <5> QED
          BY <5>3, <5>4 DEF Recorded
      <4>4. (Recorded(d) \o chunk) \o part = Recorded(d) \o (chunk \o part)
        BY <2>2, <4>3, JoinsAssociate
      <4> QED
        BY <3>1, <4>1, <4>2, <4>4
    <3> QED
      BY <3>2, <3>3
  <2> QED
    BY <1>1, <2>1, <2>3 DEF FileInv, Cut, Alternates
<1>3. ASSUME NEW n \in 1 .. BufSize, ReadSome(n) PROVE FileInv'
  BY <1>1, <1>3, FileKept DEF ReadSome, Reads, At, Recording, fileVars, Unrecorded, FileInv
<1>4. CASE WouldBlock
  BY <1>1, <1>4, FileKept DEF WouldBlock, At, Recording, fileVars, Unrecorded, FileInv
<1>5. CASE WriteFails \/ ReadFails
  BY <1>1, <1>5, FileKept DEF WriteFails, ReadFails, Reads, Stop, At, Recording, fileVars, Unrecorded, FileInv
<1>6. ASSUME NEW end \in BOOLEAN, EndPump(end), At("pump") PROVE FileInv'
  <2>1. /\ pc = "pump" /\ outcome = "recording" /\ pc' = "accept" /\ chunk' = <<>>
        /\ pending' = [type |-> current, data |-> chunk]
        /\ UNCHANGED <<written, file, current, outcome>>
    BY <1>6 DEF EndPump, Accept, At, Recording
  <2>2. \A d \in Dir : Unrecorded(d)' = Unrecorded(d) /\ Recorded(d)' = Recorded(d)
    BY <2>1 DEF Unrecorded, PartOf, Recorded
  <2> QED
    BY <1>1, <2>1, <2>2 DEF FileInv, Cut, Alternates
<1>7. CASE ReadWouldBlock \/ ReadEof
  BY <1>6, <1>7 DEF ReadWouldBlock, ReadEof, Reads
<1> QED
  BY <1>2, <1>3, <1>4, <1>5, <1>7 DEF PipeSome

LEMMA FileStep == ASSUME RInv, [Next]_vars PROVE FileInv'
<1>1. CASE UNCHANGED vars
  BY <1>1, FileKept DEF RInv, FileInv, Unrecorded, vars, pumpVars, fileVars
<1> QED
  BY <1>1, LoopFile, AcceptFile, PumpFile DEF Next, Recorder

-----------------------------------------------------------------------------
(* What was read is written, refused or in hand. *)

\* Consecutive numbers, the last of them t.
LEMMA LastOnes ==
    ASSUME NEW s \in Bytes, NEW t \in Nat, Len(s) <= t,
           \A i \in 1 .. Len(s) : s[i] = t - Len(s) + i
    PROVE  Range(s) = (t - Len(s) + 1) .. t
<1>1. Len(s) \in Nat /\ DOMAIN s = 1 .. Len(s)
  BY DEF Bytes
<1>2. ASSUME NEW k \in (t - Len(s) + 1) .. t PROVE k \in Range(s)
  <2>1. k - (t - Len(s)) \in 1 .. Len(s) /\ (t - Len(s)) + (k - (t - Len(s))) = k
    BY <1>1
  <2>2. s[k - (t - Len(s))] = k
    BY <1>1, <2>1
  <2> QED
    BY <1>1, <2>1, <2>2 DEF Range
<1>3. ASSUME NEW i \in 1 .. Len(s) PROVE s[i] \in (t - Len(s) + 1) .. t
  BY <1>1
<1> QED
  BY <1>1, <1>2, <1>3 DEF Range

\* The numbers that come next are appended to increasing ones.
LEMMA NextOnes ==
    ASSUME NEW s \in Bytes, NEW more \in Bytes, NEW low \in Nat, NEW others,
           Range(s) \cup others = 1 .. low,
           \A i, j \in 1 .. Len(s) : i < j => s[i] < s[j],
           \A i \in 1 .. Len(s) : s[i] \notin others,
           \A i \in 1 .. Len(more) : more[i] = low + i
    PROVE  /\ Range(s \o more) \cup others = 1 .. low + Len(more)
           /\ \A i, j \in 1 .. Len(s \o more) : i < j => (s \o more)[i] < (s \o more)[j]
           /\ \A i \in 1 .. Len(s \o more) : (s \o more)[i] <= low + Len(more) /\ (s \o more)[i] \notin others
<1> DEFINE all == s \o more n == Len(s) m == Len(more)
<1>1. /\ n \in Nat /\ m \in Nat /\ Len(all) = n + m
      /\ DOMAIN s = 1 .. n /\ DOMAIN more = 1 .. m /\ DOMAIN all = 1 .. n + m
      /\ \A i \in 1 .. n : all[i] = s[i] /\ s[i] \in Nat
      /\ \A i \in 1 .. m : all[n + i] = low + i
      /\ \A i \in 1 .. n + m : i \in 1 .. n \/ (i - n \in 1 .. m /\ n + (i - n) = i)
  BY Joined DEF Bytes
<1> HIDE DEF all, n, m
<1>2. \A i \in 1 .. n : s[i] \in 1 .. low /\ s[i] \in Range(s)
  BY <1>1 DEF Range
<1>3. \A i \in 1 .. n : all[i] \in 1 .. low /\ all[i] \notin others
  BY <1>1, <1>2 DEF n
<1>4. \A i \in 1 .. n + m : i \notin 1 .. n => all[i] = low + (i - n) /\ i > n
  <2> SUFFICES ASSUME NEW i \in 1 .. n + m, i \notin 1 .. n PROVE all[i] = low + (i - n) /\ i > n
    OBVIOUS
  <2>1. i - n \in 1 .. m /\ n + (i - n) = i
    BY <1>1
  <2>2. all[n + (i - n)] = low + (i - n)
    BY <1>1, <2>1
  <2> QED
    BY <1>1, <2>1, <2>2
<1>5. \A i \in 1 .. n + m : i \notin 1 .. n => all[i] \notin others
  <2>1. others \subseteq 1 .. low
    OBVIOUS
  <2> QED
    BY <1>1, <1>4, <2>1
<1>6. \A i, j \in 1 .. n + m : i < j => all[i] < all[j]
  <2> SUFFICES ASSUME NEW i \in 1 .. n + m, NEW j \in 1 .. n + m, i < j PROVE all[i] < all[j]
    OBVIOUS
  <2>1. CASE j \in 1 .. n
    <3>1. i \in 1 .. n /\ s[i] < s[j]
      BY <1>1, <2>1 DEF n
    <3> QED
      BY <1>1, <2>1, <3>1
  <2>2. CASE j \notin 1 .. n
    BY <1>1, <1>3, <1>4, <2>2
  <2> QED
    BY <2>1, <2>2
<1>7. \A i \in 1 .. n + m : all[i] <= low + m
  BY <1>1, <1>3, <1>4
<1>8. Range(all) \cup others = 1 .. low + m
  <2>1. ASSUME NEW k \in 1 .. low + m PROVE k \in Range(all) \cup others
    <3>1. CASE k <= low
      <4>1. k \in Range(s) \cup others
        BY <3>1
      <4>2. Range(s) \subseteq Range(all)
        <5> SUFFICES ASSUME NEW x \in Range(s) PROVE x \in Range(all)
          OBVIOUS
        <5>1. PICK i \in 1 .. n : s[i] = x
          BY <1>1 DEF Range
        <5>2. i \in 1 .. n + m /\ all[i] = x
          BY <1>1, <5>1
        <5> QED
          BY <1>1, <5>2 DEF Range
      <4> QED
        BY <4>1, <4>2
    <3>2. CASE k > low
      <4>1. k - low \in 1 .. m /\ n + (k - low) \in 1 .. n + m
        BY <1>1, <3>2
      <4>2. all[n + (k - low)] = low + (k - low)
        BY <1>1, <4>1
      <4>3. low + (k - low) = k
        OBVIOUS
      <4> QED
        BY <1>1, <4>1, <4>2, <4>3 DEF Range
    <3> QED
      BY <3>1, <3>2
  <2>2. ASSUME NEW i \in 1 .. n + m PROVE all[i] \in 1 .. low + m
    BY <1>1, <1>3, <1>4
  <2>3. others \subseteq 1 .. low + m
    BY <1>1
  <2> QED
    BY <1>1, <2>1, <2>2, <2>3 DEF Range
<1> QED
  BY <1>1, <1>3, <1>5, <1>6, <1>7, <1>8 DEF all, n, m

\* A direction that the step leaves alone.
LEMMA BufKept ==
    ASSUME RecorderTypeOK, NEW d \in Dir, BufInv(d), Recording' => Recording /\ InHand(d)' = InHand(d),
           buf'[d] = buf[d], written'[d] = written[d], taken'[d] = taken[d],
           refused'[d] = refused[d], capacity'[d] = capacity[d]
    PROVE  BufInv(d)'
  BY DEF BufInv

LEMMA LoopPump ==
    ASSUME RInv, World \/ Killed \/ Spawn \/ CheckConfig \/ Wait \/ AcceptFails \/ WriteLength
    PROVE  PumpInv'
<1>1. RecorderTypeOK /\ PumpInv /\ UNCHANGED pumpVars
  BY DEF RInv, World, ChangeAttrs, Exit, Produce, Close, Drain, Killed, Spawn, CheckConfig, Wait, AcceptFails, WriteLength
<1>2. Recording' => Recording /\ UNCHANGED current /\ (pc = "pump" <=> pc' = "pump")
  BY DEF World, ChangeAttrs, Exit, Produce, Close, Drain, Killed, Stop, Spawn, CheckConfig, Accept, Wait, AcceptFails,
         WriteLength, At, Recording
<1>3. outcome' # "undefined" \/ outcome' = outcome
  BY DEF World, ChangeAttrs, Exit, Produce, Close, Drain, Killed, Stop, Spawn, CheckConfig, Wait, AcceptFails, WriteLength
<1>4. Recording' /\ eof => pc' = "wait" \/ (pc' = "accept" /\ pending'.type # "Config")
  <2> SUFFICES ASSUME Recording', eof PROVE pc' = "wait" \/ (pc' = "accept" /\ pending'.type # "Config")
    OBVIOUS
  <2>1. pc = "wait" \/ (pc = "accept" /\ pending.type # "Config")
    BY <1>1, <1>2 DEF PumpInv
  <2>2. UNCHANGED <<pc, pending>>
    BY <2>1 DEF World, ChangeAttrs, Exit, Produce, Close, Drain, Killed, Stop, Spawn, CheckConfig, Wait, AcceptFails,
                WriteLength, At, Recording, fileVars
  <2> QED
    BY <2>1, <2>2
<1>5. \A d \in Dir : BufInv(d)'
  BY <1>1, <1>2, BufKept DEF PumpInv, InHand, pumpVars
<1> QED
  BY <1>1, <1>2, <1>3, <1>4, <1>5 DEF PumpInv, pumpVars

\* The pump begins with nothing in hand.
LEMMA BeginPump ==
    ASSUME RInv, Select \/ WritePayload
    PROVE  PumpInv'
<1>1. RecorderTypeOK /\ PumpInv /\ UNCHANGED pumpVars /\ Recording /\ pc # "pump" /\ offset = 0
  BY DEF RInv, PumpInv, Select, WritePayload, At, Recording
<1>2. pc' = "pump" => ~eof
  BY <1>1 DEF PumpInv, Select, WritePayload, AfterConfig, AfterData, At
<1>3. Recording' /\ eof => pc' = "wait"
  BY <1>1 DEF PumpInv, Select, WritePayload, AfterConfig, AfterData, At, Recording
<1>4. \A d \in Dir : BufInv(d)'
  <2> SUFFICES ASSUME NEW d \in Dir PROVE BufInv(d)'
    OBVIOUS
  <2>1. InHand(d) = 0
    BY <1>1 DEF InHand
  <2>2. InHand(d)' = 0
    <3>1. CASE pc' = "pump"
      <4>1. buf[d] = <<>> /\ Len(buf[d]) = 0
        BY <1>1, <1>2, <3>1 DEF PumpInv
      <4> QED
        BY <1>1, <4>1 DEF InHand, pumpVars
    <3> QED
      BY <3>1 DEF InHand
  <2> QED
    BY <1>1, <2>1, <2>2, BufKept DEF PumpInv, pumpVars
<1>5. outcome' # "undefined"
  BY <1>1 DEF Select, WritePayload, AfterConfig, AfterData, Recording
<1> QED
  BY <1>1, <1>3, <1>4, <1>5 DEF PumpInv, pumpVars, Recording

\* The buffer that is pumped; the other direction is left alone.
LEMMA PumpOne ==
    ASSUME RInv, At("pump"), UNCHANGED current, \/ pc' \in {"pump", "accept"}
                                                \/ ~Recording',
           \A e \in Dir : e # current =>
              /\ buf'[e] = buf[e] /\ written'[e] = written[e] /\ taken'[e] = taken[e]
              /\ refused'[e] = refused[e] /\ capacity'[e] = capacity[e],
           BufInv(current)'
    PROVE  \A d \in Dir : BufInv(d)'
<1> SUFFICES ASSUME NEW d \in Dir, d # current PROVE BufInv(d)'
  OBVIOUS
<1>1. RecorderTypeOK /\ BufInv(d) /\ InHand(d)' = InHand(d) /\ (Recording' => Recording)
  BY DEF RInv, PumpInv, InHand, At
<1> QED
  BY <1>1, BufKept

LEMMA BufAgain ==
    ASSUME NEW d \in Dir, written'[d] = written[d],
           Len(buf'[d]) <= BufSize /\ Len(buf'[d]) <= taken'[d],
           \A i \in 1 .. Len(buf'[d]) : buf'[d][i] = taken'[d] - Len(buf'[d]) + i,
           \A i, j \in 1 .. Len(written[d]) : i < j => written[d][i] < written[d][j],
           \A i \in 1 .. Len(written[d]) : written[d][i] <= taken'[d] /\ written[d][i] \notin refused'[d],
           Recording' => Range(written[d]) \cup refused'[d] = 1 .. taken'[d] - InHand(d)',
           capacity'[d] # BufSize => refused'[d] # {}
    PROVE  BufInv(d)'
  BY DEF BufInv

LEMMA PumpedStep ==
    ASSUME RInv, PipeSome
    PROVE  PumpInv'
<1>a. PICK d, left : d = current /\ left = Left(current)
  OBVIOUS
<1>1. /\ At("pump") /\ RecorderTypeOK /\ BufInv(d) /\ outcome = "recording" /\ pc = "pump"
      /\ ~eof /\ \A e \in Dir : e # current => buf[e] = <<>>
  <2>1. At("pump")
    BY DEF PipeSome, WriteSome, ReadSome, WouldBlock, WriteFails, ReadWouldBlock, ReadEof, ReadFails, Reads
  <2> QED
    BY <1>a, <2>1 DEF RInv, PumpInv, RecorderTypeOK, At, Recording
<1>2. /\ d \in Dir /\ left \in Bytes /\ Len(left) = Len(buf[d]) - offset /\ Len(buf[d]) \in Nat
      /\ \A i \in 1 .. Len(buf[d]) - offset : left[i] = buf[d][offset + i]
      /\ left = <<>> <=> offset = Len(buf[d])
  BY <1>1, <1>a, LeftOver
<1>3. /\ Left(current) = left /\ d = current /\ offset \in Nat /\ Len(left) \in Nat
      /\ taken[d] \in Nat /\ buf[d] \in Bytes /\ offset <= Len(buf[d]) /\ refused[d] \subseteq 1 .. taken[d]
  BY <1>1, <1>2, <1>a DEF RecorderTypeOK, Bytes
<1>4. /\ Len(buf[d]) <= BufSize /\ Len(buf[d]) <= taken[d] /\ InHand(d) = Len(left)
      /\ Range(written[d]) \cup refused[d] = 1 .. taken[d] - Len(left)
      /\ \A i \in 1 .. Len(left) : left[i] = (taken[d] - Len(left)) + i
  <2>1. /\ Len(buf[d]) <= BufSize /\ Len(buf[d]) <= taken[d] /\ InHand(d) = Len(left)
        /\ Range(written[d]) \cup refused[d] = 1 .. taken[d] - Len(left)
        /\ \A i \in 1 .. Len(buf[d]) : buf[d][i] = taken[d] - Len(buf[d]) + i
    BY <1>1, <1>2, <1>3 DEF BufInv, InHand, Recording
  <2>2. ASSUME NEW i \in 1 .. Len(left) PROVE left[i] = (taken[d] - Len(left)) + i
    <3>1. offset + i \in 1 .. Len(buf[d]) /\ left[i] = buf[d][offset + i]
      BY <1>2, <1>3
    <3>2. left[i] = taken[d] - Len(buf[d]) + (offset + i)
      BY <2>1, <3>1
    <3> QED
      BY <1>2, <1>3, <3>2
  <2> QED
    BY <2>1, <2>2
<1>5. \A bytes : WithBuf(d, bytes) => buf'[d] = bytes /\ \A e \in Dir : e # d => buf'[e] = buf[e]
  BY <1>1, <1>2 DEF WithBuf, RecorderTypeOK
<1>6. /\ written[d] \in Bytes
      /\ capacity[d] # BufSize => refused[d] # {}
      /\ \A i, j \in 1 .. Len(written[d]) : i < j => written[d][i] < written[d][j]
      /\ \A i \in 1 .. Len(written[d]) : written[d][i] \notin refused[d] /\ written[d][i] \in Range(written[d])
      /\ \A i \in 1 .. Len(written[d]) : written[d][i] <= taken[d] /\ written[d][i] \in Nat
  <2>1. written[d] \in Seq(Nat \ {0})
    BY <1>1, <1>2 DEF RecorderTypeOK, Bytes
  <2>2. DOMAIN written[d] = 1 .. Len(written[d]) /\ \A i \in DOMAIN written[d] : written[d][i] \in Nat
    BY <2>1
  <2>3. \A i \in DOMAIN written[d] : written[d][i] \in Range(written[d])
    BY DEF Range
  <2>4. written[d] \in Bytes
    BY <2>1 DEF Bytes
  <2>5. /\ capacity[d] # BufSize => refused[d] # {}
        /\ \A i, j \in 1 .. Len(written[d]) : i < j => written[d][i] < written[d][j]
        /\ \A i \in 1 .. Len(written[d]) : written[d][i] \notin refused[d] /\ written[d][i] <= taken[d]
    BY <1>1 DEF BufInv
  <2> QED
    BY <2>2, <2>3, <2>4, <2>5
<1>7. ASSUME NEW n \in 1 .. BufSize, WriteSome(n) PROVE PumpInv'
  <2> DEFINE part == SubSeq(left, 1, n) low == taken[d] - Len(left)
  <2>1. n \in Nat /\ n <= Len(left)
    BY <1>3, <1>7, RecorderAssumption DEF WriteSome
  <2>2. part \in Bytes /\ Len(part) = n /\ \A i \in 1 .. n : part[i] = left[i]
    BY <1>2, <2>1, Heads DEF Bytes
  <2>3. \A i \in 1 .. n : i \in 1 .. Len(left)
    BY <1>3, <2>1
  <2>4. low \in Nat /\ \A i \in 1 .. n : part[i] = low + i
    <3>1. low \in Nat
      BY <1>2, <1>3, <1>4
    <3> QED
      BY <1>4, <2>2, <2>3, <3>1
  <2>5. /\ UNCHANGED <<pc, current, buf, capacity, eof, taken, refused, outcome>>
        /\ offset' = offset + n /\ written' = [written EXCEPT ![d] = @ \o part]
    BY <1>3, <1>7 DEF WriteSome
  <2>6. written'[d] = written[d] \o part /\ \A e \in Dir : e # d => written'[e] = written[e]
    BY <1>1, <1>2, <2>5 DEF RecorderTypeOK
  <2> HIDE DEF part, low
  <2>7. /\ Range(written[d] \o part) \cup refused[d] = 1 .. low + n
        /\ \A i, j \in 1 .. Len(written[d] \o part) : i < j => (written[d] \o part)[i] < (written[d] \o part)[j]
        /\ \A i \in 1 .. Len(written[d] \o part) :
              (written[d] \o part)[i] <= low + n /\ (written[d] \o part)[i] \notin refused[d]
    <3>1. Range(written[d]) \cup refused[d] = 1 .. low
      BY <1>4 DEF low
    <3>2. \A i \in 1 .. Len(part) : part[i] = low + i
      BY <2>2, <2>4
    <3>3. /\ Range(written[d] \o part) \cup refused[d] = 1 .. low + Len(part)
          /\ \A i, j \in 1 .. Len(written[d] \o part) : i < j => (written[d] \o part)[i] < (written[d] \o part)[j]
          /\ \A i \in 1 .. Len(written[d] \o part) :
                (written[d] \o part)[i] <= low + Len(part) /\ (written[d] \o part)[i] \notin refused[d]
      <4>1. part \in Bytes /\ low \in Nat /\ written[d] \in Bytes
        BY <1>6, <2>2, <2>4
      <4>2. \A i, j \in 1 .. Len(written[d]) : i < j => written[d][i] < written[d][j]
        BY <1>6
      <4>3. \A i \in 1 .. Len(written[d]) : written[d][i] \notin refused[d]
        BY <1>6
      <4>4. PICK s, more, others : s = written[d] /\ more = part /\ others = refused[d]
        OBVIOUS
      <4>5. PICK l : l = low
        OBVIOUS
      <4>6. s \in Bytes /\ more \in Bytes /\ l \in Nat /\ Range(s) \cup others = 1 .. l
        BY <3>1, <4>1, <4>4, <4>5
      <4>7. /\ \A i, j \in 1 .. Len(s) : i < j => s[i] < s[j]
            /\ \A i \in 1 .. Len(s) : s[i] \notin others
            /\ \A i \in 1 .. Len(more) : more[i] = l + i
        BY <3>2, <4>2, <4>3, <4>4, <4>5
      <4>8. /\ Range(s \o more) \cup others = 1 .. l + Len(more)
            /\ \A i, j \in 1 .. Len(s \o more) : i < j => (s \o more)[i] < (s \o more)[j]
            /\ \A i \in 1 .. Len(s \o more) :
                  (s \o more)[i] <= l + Len(more) /\ (s \o more)[i] \notin others
        BY <4>6, <4>7, NextOnes
      <4> QED
        BY <4>4, <4>5, <4>8
    <3> QED
      BY <2>2, <3>3
  <2>8. InHand(d)' = Len(left) - n /\ low + n = taken[d] - InHand(d)' /\ low + n <= taken[d]
    BY <1>1, <1>2, <1>3, <2>1, <2>5 DEF InHand, low
  <2>9. BufInv(d)'
    <3>1. \A i \in 1 .. Len(written'[d]) : written'[d][i] <= taken[d]
      <4> SUFFICES ASSUME NEW i \in 1 .. Len(written[d] \o part)
                   PROVE  (written[d] \o part)[i] <= taken[d]
        BY <2>6
      <4>1. written[d] \o part \in Seq(Nat \ {0})
        BY <1>6, <2>2 DEF Bytes
      <4>2. (written[d] \o part)[i] \in Nat
        BY <4>1
      <4>3. (written[d] \o part)[i] <= low + n
        BY <2>7
      <4>4. low + n \in Nat /\ low + n <= taken[d]
        BY <2>1, <2>4, <2>8
      <4> QED
        BY <1>3, <4>2, <4>3, <4>4
    <3> QED
      BY <1>1, <2>5, <2>6, <2>7, <2>8, <3>1 DEF BufInv
  <2>10. \A e \in Dir : BufInv(e)'
    BY <1>1, <1>3, <2>5, <2>6, <2>9, PumpOne
  <2> QED
    BY <1>1, <1>3, <2>5, <2>10 DEF PumpInv, Recording
<1>8. ASSUME NEW n \in 1 .. BufSize, ReadSome(n) PROVE PumpInv'
  <2>1. n \in Nat /\ n <= BufSize /\ left = <<>> /\ Len(left) = 0
    BY <1>3, <1>8, RecorderAssumption DEF ReadSome, Reads
  <2>2. NextBytes(d, n) \in Bytes /\ Len(NextBytes(d, n)) = n /\ \A i \in 1 .. n : NextBytes(d, n)[i] = taken[d] + i
    BY <1>1, <1>2, <2>1, NextAreBytes
  <2>3. /\ UNCHANGED <<pc, current, capacity, eof, written, refused>> /\ offset' = 0
        /\ taken' = [taken EXCEPT ![d] = @ + n]
        /\ outcome' = IF n > capacity[d] THEN "undefined" ELSE outcome
    BY <1>3, <1>8 DEF ReadSome, fileVars
  <2>4. buf'[d] = NextBytes(d, n) /\ \A e \in Dir : e # d => buf'[e] = buf[e]
    BY <1>3, <1>5, <1>8 DEF ReadSome
  <2>5. taken'[d] = taken[d] + n /\ \A e \in Dir : e # d => taken'[e] = taken[e]
    BY <1>1, <1>2, <2>3 DEF RecorderTypeOK
  <2>6. InHand(d)' = n
    BY <1>1, <1>3, <2>1, <2>2, <2>3, <2>4 DEF InHand
  <2>7. BufInv(d)'
    <3>1. \A i \in 1 .. Len(buf'[d]) : buf'[d][i] = taken'[d] - Len(buf'[d]) + i
      BY <1>3, <2>1, <2>2, <2>4, <2>5
    <3>2. Range(written[d]) \cup refused[d] = 1 .. taken'[d] - InHand(d)'
      BY <1>3, <1>4, <2>1, <2>5, <2>6
    <3>3. \A i \in 1 .. Len(written[d]) : written[d][i] <= taken'[d]
      BY <1>3, <1>6, <2>1, <2>5
    <3>4. Len(buf'[d]) <= BufSize /\ Len(buf'[d]) <= taken'[d]
      BY <1>3, <2>1, <2>2, <2>4, <2>5
    <3> QED
      BY <1>2, <1>6, <2>3, <3>1, <3>2, <3>3, <3>4, BufAgain
  <2>8. \A e \in Dir : BufInv(e)'
    BY <1>1, <1>3, <2>3, <2>4, <2>5, <2>7, PumpOne
  <2>9. outcome' = "undefined" => refused[d] # {}
    <3>1. capacity[d] \in Nat /\ BufSize \in Nat
      BY <1>1, <1>2, RecorderAssumption DEF RecorderTypeOK
    <3> QED
      BY <1>1, <1>6, <2>1, <2>3, <3>1 DEF Recording
  <2>10. Recording' /\ ~eof' => \A e \in Dir : buf'[e] = <<>> \/ (pc' = "pump" /\ current' = e)
    BY <1>1, <1>3, <2>3, <2>4
  <2> QED
    BY <1>1, <1>2, <2>3, <2>8, <2>9, <2>10 DEF PumpInv, Recording
<1>9. CASE WouldBlock
  <2>1. /\ UNCHANGED <<pc, current, eof, taken, written, outcome>> /\ left # <<>> /\ offset' = Len(left)
        /\ capacity' = [capacity EXCEPT ![d] = Len(left)]
        /\ refused' = [refused EXCEPT ![d] = @ \cup Range(left)]
    BY <1>3, <1>9 DEF WouldBlock
  <2>2. buf'[d] = left /\ \A e \in Dir : e # d => buf'[e] = buf[e]
    BY <1>3, <1>5, <1>9 DEF WouldBlock
  <2>3. /\ refused'[d] = refused[d] \cup Range(left) /\ \A e \in Dir : e # d => refused'[e] = refused[e]
        /\ \A e \in Dir : e # d => capacity'[e] = capacity[e]
    BY <1>1, <1>2, <2>1 DEF RecorderTypeOK
  <2>4. Range(left) = (taken[d] - Len(left) + 1) .. taken[d] /\ Len(left) <= taken[d]
    <3>1. Len(left) <= taken[d]
      BY <1>2, <1>3, <1>4
    <3>2. \A i \in 1 .. Len(left) : left[i] = taken[d] - Len(left) + i
      BY <1>4
    <3> QED
      BY <1>2, <1>3, <3>1, <3>2, LastOnes
  <2>5. refused'[d] # {}
    <3>1. taken[d] \in Range(left)
      BY <1>2, <1>3, <2>1, <2>4
    <3> QED
      BY <2>3, <3>1
  <2>6. InHand(d)' = 0
    BY <1>1, <1>2, <1>3, <2>1, <2>2 DEF InHand
  <2>7. BufInv(d)'
    <3>1. \A i \in 1 .. Len(buf'[d]) : buf'[d][i] = taken[d] - Len(buf'[d]) + i
      BY <1>4, <2>2
    <3>2. Range(written[d]) \cup refused'[d] = 1 .. taken[d] - InHand(d)'
      <4>1. (1 .. taken[d] - Len(left)) \cup ((taken[d] - Len(left) + 1) .. taken[d]) = 1 .. taken[d]
        BY <1>3, <2>4
      <4> QED
        BY <1>3, <1>4, <2>3, <2>4, <2>6, <4>1
    <3>3. \A i \in 1 .. Len(written[d]) : written[d][i] \notin Range(left)
      <4>1. \A i \in 1 .. Len(written[d]) : written[d][i] \in 1 .. taken[d] - Len(left)
        BY <1>4, <1>6
      <4> QED
        BY <1>3, <2>4, <4>1
    <3>4. Len(buf'[d]) <= BufSize /\ Len(buf'[d]) <= taken[d]
      BY <1>2, <1>3, <1>4, <2>2, <2>4, RecorderAssumption
    <3> QED
      BY <1>6, <2>1, <2>3, <2>5, <3>1, <3>2, <3>3, <3>4 DEF BufInv
  <2>8. \A e \in Dir : BufInv(e)'
    BY <1>1, <1>3, <2>1, <2>2, <2>3, <2>7, PumpOne
  <2> QED
    BY <1>1, <1>3, <2>1, <2>2, <2>8 DEF PumpInv, Recording
<1>10. CASE WriteFails \/ ReadFails
  <2>1. /\ UNCHANGED <<current, eof, taken, written, refused, capacity>> /\ outcome' = "error"
        /\ buf'[d] = left \/ buf'[d] = <<>>
        /\ \A e \in Dir : e # d => buf'[e] = buf[e]
    BY <1>3, <1>5, <1>10 DEF WriteFails, ReadFails, Reads, Stop
  <2>2. /\ \A i \in 1 .. Len(buf'[d]) : buf'[d][i] = taken[d] - Len(buf'[d]) + i
        /\ Len(buf'[d]) <= BufSize /\ Len(buf'[d]) <= taken[d]
    <3>1. CASE buf'[d] = left
      <4>1. Len(left) <= Len(buf[d])
        BY <1>2, <1>3
      <4>2. Len(left) <= BufSize /\ Len(left) <= taken[d]
        BY <1>2, <1>3, <1>4, <4>1, RecorderAssumption
      <4> QED
        BY <1>4, <3>1, <4>2
    <3>2. CASE buf'[d] = <<>>
      <4>1. Len(buf'[d]) = 0
        BY <3>2
      <4> QED
        BY <1>3, <4>1, RecorderAssumption
    <3> QED
      BY <2>1, <3>1, <3>2
  <2>3. BufInv(d)'
    BY <1>2, <1>6, <2>1, <2>2, BufAgain DEF Recording
  <2>4. \A e \in Dir : BufInv(e)'
    BY <1>1, <1>3, <2>1, <2>3, PumpOne DEF Recording
  <2> QED
    BY <2>1, <2>4 DEF PumpInv, Recording
<1>11. ASSUME NEW end \in BOOLEAN, EndPump(end), left = <<>>,
              \A e \in Dir : e # d => buf'[e] = buf[e], buf'[d] = <<>> \/ (end /\ buf'[d] = buf[d])
       PROVE  PumpInv'
  <2>1. /\ UNCHANGED <<current, outcome, taken, written, refused, capacity>> /\ offset' = 0 /\ eof' = end
        /\ pc' = "accept" /\ pending'.type = current
    BY <1>11 DEF EndPump, Accept
  <2>2. /\ \A i \in 1 .. Len(buf'[d]) : buf'[d][i] = taken[d] - Len(buf'[d]) + i
        /\ Len(buf'[d]) <= BufSize /\ Len(buf'[d]) <= taken[d]
    <3>1. CASE buf'[d] = buf[d]
      BY <1>1, <1>4, <3>1 DEF BufInv
    <3>2. CASE buf'[d] = <<>>
      <4>1. Len(buf'[d]) = 0
        BY <3>2
      <4> QED
        BY <1>3, <4>1, RecorderAssumption
    <3> QED
      BY <1>11, <3>1, <3>2
  <2>3. InHand(d)' = 0 /\ Len(left) = 0
    BY <1>11, <2>1 DEF InHand
  <2>4. BufInv(d)'
    <3>1. taken[d] - Len(left) = taken[d] - InHand(d)'
      BY <2>3
    <3>2. Range(written[d]) \cup refused[d] = 1 .. taken[d] - InHand(d)'
      BY <1>4, <3>1
    <3> QED
      BY <1>2, <1>6, <2>1, <2>2, <3>2, BufAgain
  <2>5. \A e \in Dir : BufInv(e)'
    BY <1>1, <1>3, <1>11, <2>1, <2>4, PumpOne
  <2>6. pending'.type # "Config"
    BY <1>2, <1>3, <2>1 DEF Dir
  <2>7. Recording' /\ ~eof' => \A e \in Dir : buf'[e] = <<>>
    BY <1>1, <1>3, <1>11, <2>1
  <2> QED
    BY <1>1, <2>1, <2>5, <2>6, <2>7 DEF PumpInv
<1>12. CASE ReadWouldBlock
  <2>1. EndPump(FALSE) /\ left = <<>> /\ WithBuf(d, <<>>)
    BY <1>3, <1>12 DEF ReadWouldBlock, Reads
  <2> QED
    BY <1>5, <1>11, <2>1
<1>13. CASE ReadEof
  <2>1. EndPump(TRUE) /\ left = <<>> /\ UNCHANGED buf
    BY <1>3, <1>13 DEF ReadEof, Reads
  <2> QED
    BY <1>11, <2>1
<1> QED
  BY <1>7, <1>8, <1>9, <1>10, <1>12, <1>13 DEF PipeSome

LEMMA PumpStep == ASSUME RInv, [Next]_vars PROVE PumpInv'
<1>1. CASE UNCHANGED vars
  <2>1. \A d \in Dir : BufInv(d)'
    BY <1>1, BufKept DEF RInv, PumpInv, InHand, Recording, vars, pumpVars
  <2> QED
    BY <1>1, <2>1 DEF RInv, PumpInv, Recording, vars, pumpVars, fileVars
<1> QED
  BY <1>1, LoopPump, BeginPump, PumpedStep DEF Next, Recorder

-----------------------------------------------------------------------------
(* The theorems. *)

LEMMA RInvAlways == Spec => []RInv
<1>1. RInv /\ [Next]_vars => RInv'
  BY Types, FileStep, PumpStep DEF RInv
<1> QED
  BY <1>1, RInvInit, PTL DEF Spec

\* Every variable of the recorder keeps its type, no more is taken in or given out than there
\* is or has room, and a write starts within the buffer.
THEOREM RecorderTypes == Spec => []RecorderTypeOK
<1>1. RInv => RecorderTypeOK
  BY DEF RInv
<1> QED
  BY <1>1, RInvAlways, PTL

LEMMA RecordedPrefix ==
    ASSUME RInv, NEW d \in Dir
    PROVE  /\ IsPrefix(Recorded(d), written[d])
           /\ pc \notin {"pump", "accept"} \/ outcome = "panic" => Recorded(d) = written[d]
<1>1. file \in Seq(Item) /\ Parse(file) \in Seq(Record) /\ pending \in Record /\ chunk \in Bytes
  <2>1. RecorderTypeOK /\ FileInv
    BY DEF RInv
  <2>2. file \in Seq(Item) /\ pending \in Record /\ chunk \in Bytes
    BY <2>1 DEF RecorderTypeOK, Item
  <2> QED
    BY <2>1, <2>2, ParseTypes DEF FileInv
<1>2. Recorded(d) \in Bytes /\ Unrecorded(d) \in Bytes
  <2>1. PartOf(pending, d) \in Bytes /\ <<>> \in Bytes
    BY <1>1 DEF PartOf, Record, Bytes, Dir
  <2>2. Unrecorded(d) \in Bytes
    BY <1>1, <2>1 DEF Unrecorded
  <2> QED
    BY <1>1, <2>2, DataOfOneMore DEF Recorded
<1>3. written[d] = Recorded(d) \o Unrecorded(d)
  BY DEF RInv, FileInv
<1>4. pc \notin {"pump", "accept"} \/ outcome = "panic" => Unrecorded(d) = <<>>
  <2>1. outcome = "panic" => pc = "accept"
    BY DEF RInv, FileInv
  <2> QED
    BY <2>1 DEF Unrecorded
<1>5. Recorded(d) \o <<>> = Recorded(d)
  BY <1>2 DEF Bytes
<1> QED
  BY <1>2, <1>3, <1>4, <1>5, Joined DEF Bytes

\* The file says of each direction only what was written to its terminal, in order, and all of it
\* when record() is between two records (DiskRecording::accept is called with what pipe_some
\* wrote, and with nothing else).
THEOREM FileIsWhatWasWritten == Spec => []RecordedAsWritten
<1>1. RInv => RecordedAsWritten
  <2> SUFFICES ASSUME RInv, NEW d \in Dir
               PROVE  /\ IsPrefix(Recorded(d), written[d])
                      /\ Settled => Recorded(d) = written[d]
    BY DEF RecordedAsWritten, Recorded
  <2> QED
    BY RecordedPrefix DEF Settled
<1> QED
  BY <1>1, RInvAlways, PTL

\* Whatever the sizes of buffer and terminals, pipe_some writes every byte that it reads, once
\* and in order, save those in hand when a terminal has no room; and set_len goes beyond what
\* the buffer has room for only after such a write.
THEOREM LossNeedsRefusal == Spec => []OnlyRefusedIsLost
<1>1. RInv => OnlyRefusedIsLost
  <2> SUFFICES ASSUME RInv, NEW d \in Dir
               PROVE  LET arrived == Range(written[d])
                          held == IF pc = "pump" /\ current = d THEN Range(buf[d]) ELSE {}
                      IN  /\ \A i, j \in DOMAIN written[d] : i < j => written[d][i] < written[d][j]
                          /\ arrived \cap refused[d] = {}
                          /\ Recording => 1 .. taken[d] = arrived \cup refused[d] \cup held
                          /\ outcome = "undefined" => \E e \in Dir : refused[e] # {}
    BY DEF OnlyRefusedIsLost
  <2>1. RecorderTypeOK /\ BufInv(d)
    BY DEF RInv, PumpInv
  <2>2. written[d] \in Bytes /\ buf[d] \in Bytes /\ taken[d] \in Nat /\ Len(buf[d]) \in Nat /\ offset \in Nat
    BY <2>1 DEF RecorderTypeOK, Bytes
  <2>3. DOMAIN written[d] = 1 .. Len(written[d])
    BY <2>2 DEF Bytes
  <2>4. Range(written[d]) \cap refused[d] = {}
    BY <2>1, <2>3 DEF BufInv, Range
  <2>5. \A i, j \in DOMAIN written[d] : i < j => written[d][i] < written[d][j]
    BY <2>1, <2>3 DEF BufInv
  <2>6. outcome = "undefined" => \E e \in Dir : refused[e] # {}
    BY DEF RInv, PumpInv
  <2>7. CASE ~(pc = "pump" /\ current = d)
    <3>1. Recording => Range(written[d]) \cup refused[d] = 1 .. taken[d]
      <4>1. InHand(d) = 0
        BY <2>7 DEF InHand
      <4> QED
        BY <2>1, <2>2, <4>1 DEF BufInv
    <3> QED
      BY <2>4, <2>5, <2>6, <2>7, <3>1
  <2>8. CASE pc = "pump" /\ current = d
    <3>1. Range(buf[d]) = (taken[d] - Len(buf[d]) + 1) .. taken[d] /\ Len(buf[d]) <= taken[d]
      BY <2>1, <2>2, LastOnes DEF BufInv
    <3>2. Recording => Range(written[d]) \cup refused[d] = 1 .. taken[d] - (Len(buf[d]) - offset)
      BY <2>1, <2>8 DEF BufInv, InHand
    <3>3. Recording => offset <= Len(buf[d])
      BY <2>1, <2>8 DEF RecorderTypeOK, At
    <3>4. Recording => 1 .. taken[d] = Range(written[d]) \cup refused[d] \cup Range(buf[d])
      <4> SUFFICES ASSUME Recording
                   PROVE  1 .. taken[d] = (1 .. taken[d] - (Len(buf[d]) - offset))
                                             \cup ((taken[d] - Len(buf[d]) + 1) .. taken[d])
        BY <3>1, <3>2
      <4> QED
        BY <2>2, <3>1, <3>3
    <3> QED
      BY <2>4, <2>5, <2>6, <2>8, <3>4
  <2> QED
    BY <2>7, <2>8
<1> QED
  BY <1>1, RInvAlways, PTL

\* A file that ends with a payload, Recording::parse reads and `play` shows a prefix of what the
\* user saw; the file of a recorder that came to its end is such a one, and shows all of it.
THEOREM PlaysWhatWasShown == Spec => []ReplayShowsWhatWasShown
<1>1. RInv => ReplayShowsWhatWasShown
  <2> SUFFICES ASSUME RInv PROVE ReplayShowsWhatWasShown
    OBVIOUS
  <2>1. "Output" \in Dir /\ Play(Parse(file)) = Recorded("Output")
    BY DEF Dir, Play, Recorded
  <2>2. outcome \in {"ok", "panic"} => Parses(file) /\ (pc \notin {"pump", "accept"} \/ outcome = "panic")
    BY DEF RInv, FileInv, Parses
  <2> QED
    BY <2>1, <2>2, RecordedPrefix DEF ReplayShowsWhatWasShown
<1> QED
  BY <1>1, RInvAlways, PTL
=============================================================================
