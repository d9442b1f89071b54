--------------------------- MODULE EmulatorProofs ---------------------------
(***************************************************************************)
(* Theorems about Emulator, for any number of clients, commands and        *)
(* messages in transit.                                                    *)
(*                                                                         *)
(* InStep is about the next message; the inductive invariant is about all  *)
(* that are in transit, and about what the client is going to send.  It    *)
(* holds whatever the script does with its timers; that responses go to    *)
(* the client that asked is proved for a script that cancels them in the   *)
(* callback detached, and for this kind of script only.                    *)
(***************************************************************************)
EXTENDS Emulator, TLAPS

\* Connections are accepted once, and one that has not been made is silent.
Queued ==
  /\ backlog \in Seq(Client)
  /\ \A i \in 1 .. Len(backlog) : conn[backlog[i]] = "queued"
  /\ \A i, j \in 1 .. Len(backlog) : backlog[i] = backlog[j] => i = j
  /\ \A c \in Client : conn[c] = "out" => stream[c] = <<>> /\ say[c] = "op" /\ c \notin left
  /\ say \in [Client -> {"op", "busid", "cmd", "data", "isodata", "packets", "none"}]
  /\ phase # "accept" => client \in Client
  /\ \A c \in reset : stream[c] = <<>>
  /\ phase = "stopped" => client \in reset

\* u is of the kind e stands for.
Fits(e, u) ==
  \/ e = "op" /\ u \in Op
  \/ e = "busid" /\ u \in Busid
  \/ e = "cmd" /\ u \in Submit \cup Unlink \cup Unknown
  \/ e = "data" /\ u \in Data /\ ~ u.iso
  \/ e = "isodata" /\ u \in Data /\ u.iso
  \/ e = "packets" /\ u \in Packets

IsData(e) == e \in {"data", "isodata"}

\* The stream s is what it should be for a server that expects e next, and if that is
\* the data of a submit, of the one numbered n; and each message may follow the one
\* before it.
Line(s, e, n) ==
  /\ s # <<>> => Fits(e, s[1]) /\ (IsData(e) => s[1].seqnum = n)
  /\ \A i \in 1 .. Len(s) : i + 1 \in 1 .. Len(s) =>
       /\ Fits(After(s[i]), s[i + 1])
       /\ IsData(After(s[i])) => s[i + 1].seqnum = s[i].seqnum

\* A client that has sent s is going to send w, which is what its last message, or the
\* server, calls for; and if that is data, of the submit numbered m.
Says(s, e, n, w, m) ==
  IF s = <<>> THEN w = e /\ (IsData(w) => m = n)
  ELSE w = After(s[Len(s)]) /\ (IsData(w) => m = s[Len(s)].seqnum)

\* What the server may find in phase p, and what it may find next from c.
Awaited(p) ==
  CASE p = "busid" -> {"busid"}
    [] p = "attached" -> {"cmd", "packets"}
    [] p = "data" -> {"data", "isodata"}
    [] OTHER -> {"op"}
Expected(c) == IF conn[c] = "served" THEN Awaited(phase) ELSE {"op"}

\* The stream of c, and what c is going to send, for the number n of a submit.
Follows(c, e, n) ==
  /\ Line(stream[c], e, n)
  /\ c \notin left => Says(stream[c], e, n, say[c], seqnum[c] - 1)

InLine ==
  \A c \in Client : conn[c] \in {"queued", "served"} =>
    \E e \in Expected(c) : Follows(c, e, submit.seqnum)

Inv == TypeOK /\ Queued /\ InLine

-----------------------------------------------------------------------------
(* Streams.                                                                *)

\* A message added to a stream, as its sender may.
LEMMA LineSend ==
  ASSUME NEW s \in Seq(Message), NEW e, NEW n, NEW w, NEW m, NEW u \in Message, NEW k,
         Line(s, e, n), Says(s, e, n, w, m),
         Fits(w, u), IsData(w) => u.seqnum = m,
         IsData(After(u)) => k = u.seqnum
  PROVE  Line(Append(s, u), e, n) /\ Says(Append(s, u), e, n, After(u), k)
<1> DEFINE t == Append(s, u)
<1>1. /\ Len(s) \in Nat /\ Len(t) = Len(s) + 1 /\ t # <<>> /\ t[Len(t)] = u
      /\ \A i \in 1 .. Len(s) : t[i] = s[i]
  OBVIOUS
<1> HIDE DEF t
<1>2. Says(t, e, n, After(u), k)
  BY <1>1 DEF Says
<1>3. t # <<>> => Fits(e, t[1]) /\ (IsData(e) => t[1].seqnum = n)
  <2>1. CASE s = <<>>
    <3>1. Len(s) = 0 /\ t[1] = u
      BY <1>1, <2>1
    <3> QED
      BY <2>1, <3>1 DEF Says
  <2>2. CASE s # <<>>
    <3>1. 1 \in 1 .. Len(s)
      BY <1>1, <2>2
    <3> QED
      BY <1>1, <2>2, <3>1 DEF Line
  <2> QED
    BY <2>1, <2>2
<1>4. ASSUME NEW i \in 1 .. Len(t), i + 1 \in 1 .. Len(t)
      PROVE  /\ Fits(After(t[i]), t[i + 1])
             /\ IsData(After(t[i])) => t[i + 1].seqnum = t[i].seqnum
  <2>1. i \in 1 .. Len(s) /\ t[i] = s[i]
    BY <1>1, <1>4
  <2>2. CASE i = Len(s)
    <3>1. s # <<>> /\ t[i + 1] = u
      BY <1>1, <2>1, <2>2
    <3>2. w = After(s[i]) /\ (IsData(w) => m = s[i].seqnum)
      BY <2>2, <3>1 DEF Says
    <3> QED
      BY <2>1, <3>1, <3>2
  <2>3. CASE i # Len(s)
    <3>1. i + 1 \in 1 .. Len(s) /\ t[i + 1] = s[i + 1]
      BY <1>1, <2>1, <2>3
    <3> QED
      BY <2>1, <3>1 DEF Line
  <2> QED
    BY <2>2, <2>3
<1>5. Line(t, e, n)
  BY <1>3, <1>4 DEF Line
<1> QED
  BY <1>2, <1>5 DEF t

\* A message taken from a stream: the next is what may follow it.
LEMMA LineReceive ==
  ASSUME NEW s \in Seq(Message), NEW e, NEW n, NEW k, Line(s, e, n), s # <<>>,
         IsData(After(Head(s))) => k = Head(s).seqnum
  PROVE  /\ Line(Tail(s), After(Head(s)), k)
         /\ \A w, m : Says(s, e, n, w, m) => Says(Tail(s), After(Head(s)), k, w, m)
<1> DEFINE t == Tail(s)
           u == Head(s)
<1>1. /\ Len(s) \in Nat \ {0} /\ Len(t) = Len(s) - 1 /\ u = s[1]
      /\ t = <<>> <=> Len(s) = 1
      /\ \A i \in 1 .. Len(t) : t[i] = s[i + 1] /\ i + 1 \in 1 .. Len(s)
  <2>1. Len(s) \in Nat \ {0} /\ u = s[1]
    OBVIOUS
  <2>2. t \in Seq(Message) /\ Len(t) = Len(s) - 1
    BY <2>1
  <2>3. \A i \in 1 .. Len(t) : t[i] = s[i + 1] /\ i + 1 \in 1 .. Len(s)
    BY <2>1, <2>2
  <2>4. \A x \in Seq(Message) : x = <<>> <=> Len(x) = 0
    OBVIOUS
  <2>5. t = <<>> <=> Len(t) = 0
    BY <2>2, <2>4
  <2>6. t = <<>> <=> Len(s) = 1
    BY <2>1, <2>2, <2>5
  <2> QED
    BY <2>1, <2>2, <2>3, <2>6
<1> HIDE DEF t, u
<1>2. t # <<>> => Fits(After(u), t[1]) /\ (IsData(After(u)) => t[1].seqnum = k)
  <2> SUFFICES ASSUME t # <<>>
               PROVE  Fits(After(u), t[1]) /\ (IsData(After(u)) => t[1].seqnum = k)
    OBVIOUS
  <2>1. 1 \in 1 .. Len(s) /\ 1 + 1 \in 1 .. Len(s) /\ t[1] = s[1 + 1]
    BY <1>1
  <2> QED
    BY <1>1, <2>1 DEF Line, u
<1>3. ASSUME NEW i \in 1 .. Len(t), i + 1 \in 1 .. Len(t)
      PROVE  /\ Fits(After(t[i]), t[i + 1])
             /\ IsData(After(t[i])) => t[i + 1].seqnum = t[i].seqnum
  <2>1. /\ i + 1 \in 1 .. Len(s) /\ (i + 1) + 1 \in 1 .. Len(s)
        /\ t[i] = s[i + 1] /\ t[i + 1] = s[(i + 1) + 1]
    BY <1>1, <1>3
  <2> QED
    BY <2>1 DEF Line
<1>4. ASSUME NEW w, NEW m, Says(s, e, n, w, m)
      PROVE  Says(t, After(u), k, w, m)
  <2>1. CASE t = <<>>
    <3>1. Len(s) = 1 /\ s[Len(s)] = u
      BY <1>1, <2>1
    <3> QED
      BY <1>4, <2>1, <3>1 DEF Says, u
  <2>2. CASE t # <<>>
    <3>1. Len(t) \in 1 .. Len(t) /\ t[Len(t)] = s[Len(s)]
      BY <1>1, <2>2
    <3> QED
      BY <1>4, <2>2, <3>1 DEF Says
  <2> QED
    BY <2>1, <2>2
<1> QED
  BY <1>2, <1>3, <1>4 DEF Line, t, u

\* Kinds of messages do not overlap.
LEMMA Kinds ==
  /\ \A u \in Op : u.kind = "op"
  /\ \A u \in Busid : u.kind = "busid"
  /\ \A u \in Submit : u.kind = "submit" /\ u.seqnum \in 1 .. MaxSeq /\ u.length \in Length
                      /\ u.iso \in BOOLEAN
  /\ \A u \in Unlink : u.kind = "unlink" /\ u.seqnum \in 1 .. MaxSeq
  /\ \A u \in Unknown : u.kind = "unknown"
  /\ \A u \in Data : u.kind = "data" /\ u.seqnum \in 1 .. MaxSeq /\ u.iso \in BOOLEAN
  /\ \A u \in Packets : u.kind = "packets"
BY DEF Op, Busid, Submit, Unlink, Unknown, Data, Packets

LEMMA SubmitKind ==
  ASSUME NEW u \in Message, u.kind = "submit"
  PROVE  u \in Submit
BY Kinds DEF Message

\* The client that is served is the only one that the server's phase is about.
LEMMA ServedOne ==
  ASSUME TypeOK, Queued, phase # "accept"
  PROVE  /\ client \in Client /\ conn[client] = "served" /\ Expected(client) = Awaited(phase)
         /\ \A c \in Client : c # client => conn[c] # "served" /\ Expected(c) = {"op"}
BY DEF TypeOK, Queued, Expected

-----------------------------------------------------------------------------
(* The invariant, step by step.                                            *)

LEMMA InitInv == Init => Inv
<1> SUFFICES ASSUME Init PROVE Inv
  OBVIOUS
<1>1. /\ client = Nil /\ phase = "accept" /\ submit = Nil /\ deferred = {} /\ backlog = <<>>
      /\ left = {} /\ reset = {} /\ conn = [c \in Client |-> "out"] /\ say = [c \in Client |-> "op"]
      /\ seqnum = [c \in Client |-> 1] /\ stream = [c \in Client |-> <<>>]
      /\ sent = [c \in Client |-> {}]
  BY DEF Init
<1>2. TypeOK
  <2>1. seqnum \in [Client -> 1 .. MaxSeq + 1] /\ stream \in [Client -> Seq(Message)]
    BY <1>1, EmulatorAssumption
  <2>2. conn \in [Client -> {"out", "queued", "served", "closed"}]
    BY <1>1
  <2>3. \A c \in Client : conn[c] # "served"
    BY <1>1
  <2> QED
    BY <1>1, <2>1, <2>2, <2>3 DEF TypeOK
<1>3. Queued
  <2>1. backlog \in Seq(Client) /\ Len(backlog) = 0
    BY <1>1
  <2>2. say \in [Client -> {"op", "busid", "cmd", "data", "isodata", "packets", "none"}]
    BY <1>1
  <2> QED
    BY <1>1, <2>1, <2>2 DEF Queued
<1>4. InLine
  BY <1>1 DEF InLine
<1> QED
  BY <1>2, <1>3, <1>4 DEF Inv

LEMMA ConnectInv ==
  ASSUME Inv, NEW c \in Client, Connect(c)
  PROVE  Inv'
<1>0. TypeOK /\ Queued /\ InLine
  BY DEF Inv
<1>1. /\ conn[c] = "out" /\ conn' = [conn EXCEPT ![c] = "queued"]
      /\ backlog' = Append(backlog, c)
      /\ UNCHANGED <<client, phase, submit, deferred, left, reset, say, seqnum, stream>>
  BY DEF Connect, server
<1>2. /\ conn' \in [Client -> {"out", "queued", "served", "closed"}]
      /\ conn'[c] = "queued" /\ \A d \in Client : d # c => conn'[d] = conn[d]
  BY <1>0, <1>1 DEF TypeOK
<1>3. TypeOK'
  BY <1>0, <1>1, <1>2 DEF TypeOK
<1>4. Queued'
  <2>1. /\ backlog \in Seq(Client) /\ backlog' \in Seq(Client)
        /\ Len(backlog') = Len(backlog) + 1 /\ backlog'[Len(backlog')] = c
        /\ \A i \in 1 .. Len(backlog) : backlog'[i] = backlog[i] /\ backlog[i] \in Client
    BY <1>0, <1>1 DEF Queued
  <2>2. \A i \in 1 .. Len(backlog) : backlog[i] # c
    BY <1>0, <1>1 DEF Queued
  <2>3. \A i \in 1 .. Len(backlog') : conn'[backlog'[i]] = "queued"
    BY <1>0, <1>2, <2>1, <2>2 DEF Queued
  <2>4. \A i, j \in 1 .. Len(backlog') : backlog'[i] = backlog'[j] => i = j
    BY <1>0, <2>1, <2>2 DEF Queued
  <2> QED
    BY <1>0, <1>1, <1>2, <2>1, <2>3, <2>4 DEF Queued
<1>5. InLine'
  <2> SUFFICES ASSUME NEW d \in Client, conn'[d] \in {"queued", "served"}
               PROVE  \E e \in Expected(d)' : Follows(d, e, submit.seqnum)
    BY <1>1 DEF InLine, Follows
  <2>1. CASE d = c
    <3>1. stream[d] = <<>> /\ say[d] = "op" /\ Expected(d)' = {"op"}
      BY <1>0, <1>1, <1>2, <2>1 DEF Queued, Expected
    <3>2. Follows(d, "op", submit.seqnum)
      BY <3>1 DEF Follows, Line, Says, IsData
    <3> QED
      BY <3>1, <3>2
  <2>2. CASE d # c
    <3>1. Expected(d)' = Expected(d) /\ conn[d] = conn'[d]
      BY <1>1, <1>2, <2>2 DEF Expected
    <3> QED
      BY <1>0, <3>1 DEF InLine
  <2> QED
    BY <2>1, <2>2
<1> QED
  BY <1>3, <1>4, <1>5 DEF Inv

LEMMA UtteredFits ==
  ASSUME NEW c, NEW u \in Message, Utters(c, u)
  PROVE  /\ Fits(say[c], u)
         /\ IsData(say[c]) => u.seqnum = seqnum[c] - 1
         /\ u.kind \in {"submit", "unlink"} => u.seqnum = seqnum[c] /\ u.seqnum \in 1 .. MaxSeq
         /\ After(u) \in {"op", "busid", "cmd", "data", "isodata", "packets", "none"}
         /\ IsData(After(u)) => u.kind = "submit"
BY Kinds DEF Utters, Fits, After, IsData

LEMMA SendInv ==
  ASSUME Inv, NEW c \in Client, Send(c)
  PROVE  Inv'
<1>0. TypeOK /\ Queued /\ InLine
  BY DEF Inv
<1>1. PICK u \in Message :
        /\ Utters(c, u)
        /\ stream' = [stream EXCEPT ![c] = Append(@, u)]
        /\ say' = [say EXCEPT ![c] = After(u)]
        /\ seqnum' = [seqnum EXCEPT ![c] = IF u.kind \in {"submit", "unlink"} THEN @ + 1 ELSE @]
  BY DEF Send
<1>2. /\ conn[c] \in {"queued", "served"} /\ c \notin left
      /\ UNCHANGED <<client, phase, submit, deferred, backlog, conn, left, reset>>
  BY DEF Send, server
<1>3. /\ stream[c] \in Seq(Message) /\ stream'[c] = Append(stream[c], u)
      /\ stream' \in [Client -> Seq(Message)]
      /\ \A d \in Client : d # c => stream'[d] = stream[d]
  BY <1>0, <1>1 DEF TypeOK
<1>4. /\ seqnum' \in [Client -> 1 .. MaxSeq + 1]
      /\ IsData(After(u)) => seqnum'[c] - 1 = u.seqnum
      /\ \A d \in Client : d # c => seqnum'[d] = seqnum[d]
  <2>1. seqnum[c] \in 1 .. MaxSeq + 1 /\ MaxSeq \in Nat /\ seqnum \in [Client -> 1 .. MaxSeq + 1]
    BY <1>0, EmulatorAssumption DEF TypeOK
  <2>2. u.kind \in {"submit", "unlink"} => seqnum[c] \in 1 .. MaxSeq
    BY <1>1, UtteredFits
  <2>3. (IF u.kind \in {"submit", "unlink"} THEN seqnum[c] + 1 ELSE seqnum[c]) \in 1 .. MaxSeq + 1
    BY <2>1, <2>2
  <2>4. u.kind \in {"submit", "unlink"} => seqnum'[c] = seqnum[c] + 1 /\ u.seqnum = seqnum[c]
    BY <1>1, <2>1, UtteredFits
  <2>5. IsData(After(u)) => seqnum'[c] - 1 = u.seqnum
    BY <1>1, <2>1, <2>4, UtteredFits
  <2> QED
    BY <1>1, <2>1, <2>3, <2>5
<1>5. /\ say' \in [Client -> {"op", "busid", "cmd", "data", "isodata", "packets", "none"}] /\ say'[c] = After(u)
      /\ \A d \in Client : d # c => say'[d] = say[d]
  BY <1>0, <1>1, UtteredFits DEF Queued
<1>6. TypeOK'
  BY <1>0, <1>2, <1>3, <1>4 DEF TypeOK
<1>7. Queued'
  <2>1. \A d \in Client : conn[d] = "out" => stream'[d] = <<>> /\ say'[d] = "op" /\ d \notin left
    <3> TAKE d \in Client
    <3>1. conn[d] = "out" => d # c
      BY <1>2
    <3> QED
      BY <1>0, <1>3, <1>5, <3>1 DEF Queued
  <2>2. \A d \in reset : stream'[d] = <<>>
    <3> TAKE d \in reset
    <3>1. d \in left /\ d \in Client
      BY <1>0 DEF TypeOK
    <3>2. d # c
      BY <1>2, <3>1
    <3> QED
      BY <1>0, <1>3, <3>1, <3>2 DEF Queued
  <2> QED
    BY <1>0, <1>2, <1>5, <2>1, <2>2 DEF Queued
<1>8. InLine'
  <2> SUFFICES ASSUME NEW d \in Client, conn[d] \in {"queued", "served"}
               PROVE  \E e \in Expected(d) : Follows(d, e, submit.seqnum)'
    BY <1>2 DEF InLine, Expected
  <2>1. PICK e \in Expected(d) : Follows(d, e, submit.seqnum)
    BY <1>0 DEF InLine
  <2>2. CASE d = c
    <3>1. /\ Line(stream[c], e, submit.seqnum)
          /\ Says(stream[c], e, submit.seqnum, say[c], seqnum[c] - 1)
      BY <1>2, <2>1, <2>2 DEF Follows
    <3>2. Fits(say[c], u) /\ (IsData(say[c]) => u.seqnum = seqnum[c] - 1)
      BY <1>1, UtteredFits
    <3>3. IsData(After(u)) => seqnum'[c] - 1 = u.seqnum
      BY <1>4
    <3>4. /\ Line(Append(stream[c], u), e, submit.seqnum)
          /\ Says(Append(stream[c], u), e, submit.seqnum, After(u), seqnum'[c] - 1)
      BY <1>3, <3>1, <3>2, <3>3, LineSend
    <3>5. Follows(d, e, submit.seqnum)'
      BY <1>2, <1>3, <1>5, <2>2, <3>4 DEF Follows
    <3> QED
      BY <3>5
  <2>3. CASE d # c
    <3>1. Follows(d, e, submit.seqnum)'
      BY <1>2, <1>3, <1>4, <1>5, <2>1, <2>3 DEF Follows
    <3> QED
      BY <3>1
  <2> QED
    BY <2>2, <2>3
<1> QED
  BY <1>6, <1>7, <1>8 DEF Inv

LEMMA LeaveInv ==
  ASSUME Inv, NEW c \in Client, Leave(c)
  PROVE  Inv'
<1>0. TypeOK /\ Queued /\ InLine
  BY DEF Inv
<1>1. /\ conn[c] \in {"queued", "served"} /\ left' = left \cup {c}
      /\ \/ UNCHANGED <<reset, stream>>
         \/ reset' = reset \cup {c} /\ stream' = [stream EXCEPT ![c] = <<>>]
      /\ UNCHANGED <<client, phase, submit, deferred, backlog, conn, say, seqnum>>
  BY DEF Leave, server
<1>2. /\ stream' \in [Client -> Seq(Message)]
      /\ stream'[c] \in {stream[c], <<>>}
      /\ \A d \in Client : d # c => stream'[d] = stream[d]
      /\ reset' \in {reset, reset \cup {c}} /\ (reset' # reset => stream'[c] = <<>>)
  <2>1. stream \in [Client -> Seq(Message)] /\ <<>> \in Seq(Message)
    BY <1>0 DEF TypeOK
  <2>2. CASE UNCHANGED <<reset, stream>>
    BY <2>1, <2>2
  <2>3. CASE reset' = reset \cup {c} /\ stream' = [stream EXCEPT ![c] = <<>>]
    BY <2>1, <2>3
  <2> QED
    BY <1>1, <2>2, <2>3
<1>3. TypeOK'
  BY <1>0, <1>1, <1>2 DEF TypeOK
<1>4. Queued'
  <2>1. \A d \in Client : conn[d] = "out" => stream'[d] = <<>> /\ say[d] = "op" /\ d \notin left'
    <3> TAKE d \in Client
    <3>1. conn[d] = "out" => d # c
      BY <1>1
    <3> QED
      BY <1>0, <1>1, <1>2, <3>1 DEF Queued
  <2>2. \A d \in reset' : stream'[d] = <<>>
    BY <1>0, <1>2 DEF Queued, TypeOK
  <2>3. phase = "stopped" => client \in reset'
    BY <1>0, <1>2 DEF Queued
  <2> QED
    BY <1>0, <1>1, <2>1, <2>2, <2>3 DEF Queued
<1>5. InLine'
  <2> SUFFICES ASSUME NEW d \in Client, conn[d] \in {"queued", "served"}
               PROVE  \E e \in Expected(d) : Follows(d, e, submit.seqnum)'
    BY <1>1 DEF InLine, Expected
  <2>1. PICK e \in Expected(d) : Follows(d, e, submit.seqnum)
    BY <1>0 DEF InLine
  <2>2. Line(<<>>, e, submit.seqnum)
    BY DEF Line
  <2>3. Follows(d, e, submit.seqnum)'
    BY <1>1, <1>2, <2>1, <2>2 DEF Follows
  <2> QED
    BY <2>3
<1> QED
  BY <1>3, <1>4, <1>5 DEF Inv

LEMMA AcceptInv ==
  ASSUME Inv, Accept \/ AcceptReset
  PROVE  Inv'
<1> DEFINE h == Head(backlog)
<1>0. TypeOK /\ Queued /\ InLine
  BY DEF Inv
<1>1. /\ phase = "accept" /\ phase' \in {"op", "stopped"} /\ backlog # <<>>
      /\ phase' = "stopped" => client' \in reset
      /\ client' = h /\ backlog' = Tail(backlog)
      /\ conn' = [conn EXCEPT ![h] = "served"]
      /\ UNCHANGED <<submit, deferred, left, reset, say, seqnum, stream>>
  BY DEF Accept, AcceptReset, TakeFirst
<1>2. /\ Len(backlog) \in Nat \ {0} /\ h = backlog[1] /\ h \in Client
      /\ backlog' \in Seq(Client) /\ Len(backlog') = Len(backlog) - 1
      /\ \A i \in 1 .. Len(backlog') : backlog'[i] = backlog[i + 1] /\ backlog'[i] \in Client
  <2>1. backlog \in Seq(Client) /\ Len(backlog) \in Nat \ {0} /\ h = backlog[1] /\ h \in Client
    BY <1>0, <1>1 DEF Queued
  <2>2. backlog' \in Seq(Client) /\ Len(backlog') = Len(backlog) - 1
    BY <1>1, <2>1
  <2> QED
    BY <1>1, <2>1, <2>2
<1>3. conn[h] = "queued"
  BY <1>0, <1>2 DEF Queued
<1> HIDE DEF h
<1>4. /\ conn' \in [Client -> {"out", "queued", "served", "closed"}] /\ conn'[h] = "served"
      /\ \A d \in Client : d # h => conn'[d] = conn[d]
  BY <1>0, <1>1, <1>2 DEF TypeOK
<1>5. \A d \in Client : conn[d] # "served"
  BY <1>0, <1>1 DEF TypeOK
<1>6. TypeOK'
  BY <1>0, <1>1, <1>2, <1>4, <1>5 DEF TypeOK
<1>7. Queued'
  <2>1. \A i \in 1 .. Len(backlog') : i + 1 \in 1 .. Len(backlog) /\ i + 1 # 1
    BY <1>2
  <2>2. \A i \in 1 .. Len(backlog') : backlog'[i] # h
    BY <1>0, <1>2, <2>1 DEF Queued
  <2>3. \A i \in 1 .. Len(backlog') : conn'[backlog'[i]] = "queued"
    <3> TAKE i \in 1 .. Len(backlog')
    <3>1. conn[backlog[i + 1]] = "queued"
      BY <1>0, <2>1 DEF Queued
    <3>2. backlog'[i] = backlog[i + 1] /\ backlog'[i] \in Client /\ backlog'[i] # h
      BY <1>2, <2>2
    <3> QED
      BY <1>4, <3>1, <3>2
  <2>4. \A i, j \in 1 .. Len(backlog') : backlog'[i] = backlog'[j] => i = j
    <3> TAKE i, j \in 1 .. Len(backlog')
    <3>1. backlog[i + 1] = backlog[j + 1] => i + 1 = j + 1
      BY <1>0, <2>1 DEF Queued
    <3> QED
      BY <1>2, <3>1
  <2> QED
    BY <1>0, <1>1, <1>2, <1>4, <2>3, <2>4 DEF Queued
<1>8. InLine'
  <2> SUFFICES ASSUME NEW d \in Client, conn'[d] \in {"queued", "served"}
               PROVE  \E e \in Expected(d)' : Follows(d, e, submit.seqnum)
    BY <1>1 DEF InLine, Follows
  <2>1. conn[d] \in {"queued", "served"} /\ Expected(d) = {"op"} /\ Expected(d)' = {"op"}
    BY <1>1, <1>3, <1>4, <1>5 DEF Expected, Awaited
  <2> QED
    BY <1>0, <2>1 DEF InLine
<1> QED
  BY <1>6, <1>7, <1>8 DEF Inv

-----------------------------------------------------------------------------
(* The server's steps.                                                     *)

\* A receive after which the server waits for what may follow the message.
LEMMA GoOnInLine ==
  ASSUME TypeOK, Queued, InLine, phase \notin {"accept", "stopped"}, stream[client] # <<>>,
         stream' = [stream EXCEPT ![client] = Tail(@)],
         phase' \in {"busid", "attached", "data"},
         After(Head(stream[client])) \in Awaited(phase'),
         phase' = "data" => submit' = Head(stream[client]),
         UNCHANGED <<client, net>>
  PROVE  stream' \in [Client -> Seq(Message)] /\ Queued' /\ InLine'
<1> DEFINE s == stream[client]
           u == Head(s)
<1>1. /\ client \in Client /\ conn[client] = "served" /\ Expected(client) = Awaited(phase)
      /\ \A d \in Client : d # client => conn[d] # "served" /\ Expected(d) = {"op"}
  BY ServedOne
<1>2. UNCHANGED <<client, backlog, conn, left, reset, say, seqnum>>
  BY DEF net
<1>3. s \in Seq(Message) /\ s # <<>> /\ Tail(s) \in Seq(Message)
  BY <1>1 DEF TypeOK
<1>4. /\ stream' \in [Client -> Seq(Message)] /\ stream'[client] = Tail(s)
      /\ \A d \in Client : d # client => stream'[d] = stream[d]
  BY <1>1, <1>3 DEF TypeOK
<1>5. Queued'
  <2>1. \A d \in Client : conn[d] = "out" => d # client
    BY <1>1
  <2>2. \A d \in reset : d \in Client /\ d # client
    BY <1>3 DEF TypeOK, Queued
  <2>3. \A d \in reset : stream'[d] = <<>>
    BY <1>4, <2>2 DEF Queued
  <2> QED
    BY <1>1, <1>2, <1>4, <2>1, <2>3 DEF Queued
<1>6. /\ Expected(client)' = Awaited(phase')
      /\ \A d \in Client : d # client => Expected(d)' = {"op"}
  BY <1>1, <1>2 DEF Expected
<1>7. IsData(After(u)) => submit' = u
  BY DEF Awaited, IsData
<1>8. InLine'
  <2> SUFFICES ASSUME NEW d \in Client, conn[d] \in {"queued", "served"}
               PROVE  \E e \in Expected(d)' : Follows(d, e, submit.seqnum)'
    BY <1>2 DEF InLine
  <2>0. PICK e \in Expected(d) : Follows(d, e, submit.seqnum)
    BY DEF InLine
  <2>1. CASE d = client
    <3>1. IsData(After(u)) => submit'.seqnum = u.seqnum
      BY <1>7
    <3>2. Line(s, e, submit.seqnum)
      BY <2>0, <2>1 DEF Follows
    <3>3. client \notin left => Says(s, e, submit.seqnum, say[client], seqnum[client] - 1)
      BY <2>0, <2>1 DEF Follows
    <3>a. PICK a : a = After(u)
      OBVIOUS
    <3> HIDE DEF s, u
    <3>4. /\ Line(Tail(s), a, submit'.seqnum)
          /\ \A w, m : Says(s, e, submit.seqnum, w, m) => Says(Tail(s), a, submit'.seqnum, w, m)
      BY <1>3, <3>1, <3>2, <3>a, LineReceive DEF u
    <3>5. client \notin left =>
            Says(Tail(s), a, submit'.seqnum, say[client], seqnum[client] - 1)
      BY <3>3, <3>4
    <3>6. Follows(client, a, submit.seqnum)'
      BY <1>2, <1>4, <3>4, <3>5 DEF Follows
    <3>7. a \in Expected(client)'
      BY <1>6, <3>a DEF s, u
    <3> QED
      BY <1>2, <2>1, <3>6, <3>7
  <2>2. CASE d # client
    <3>1. e = "op" /\ "op" \in Expected(d)'
      BY <1>1, <1>6, <2>0, <2>2
    <3>2. Follows(d, "op", submit.seqnum)'
      BY <1>2, <1>4, <2>0, <2>2, <3>1 DEF Follows, Line, Says, IsData
    <3> QED
      BY <3>1, <3>2
  <2> QED
    BY <2>1, <2>2
<1> QED
  BY <1>4, <1>5, <1>8

\* The end of a connection: the streams of the other clients are untouched.
LEMMA CloseInLine ==
  ASSUME TypeOK, Queued, InLine, phase # "accept", Close,
         \/ UNCHANGED stream
         \/ stream[client] # <<>> /\ stream' = [stream EXCEPT ![client] = Tail(@)]
  PROVE  /\ stream' \in [Client -> Seq(Message)]
         /\ conn' \in [Client -> {"out", "queued", "served", "closed"}]
         /\ \A c \in Client : conn'[c] # "served"
         /\ Queued' /\ InLine'
<1>1. /\ client \in Client /\ conn[client] = "served"
      /\ \A d \in Client : d # client => conn[d] # "served" /\ Expected(d) = {"op"}
  BY ServedOne
<1>2. /\ conn' = [conn EXCEPT ![client] = "closed"]
      /\ phase' = "accept" /\ submit' = Nil
      /\ UNCHANGED <<client, backlog, left, reset, say, seqnum>>
  BY DEF Close
<1>3. stream[client] \in Seq(Message) /\ (stream[client] # <<>> => Tail(stream[client]) \in Seq(Message))
  BY <1>1 DEF TypeOK
<1>4. /\ stream' \in [Client -> Seq(Message)]
      /\ \A d \in Client : d # client => stream'[d] = stream[d]
      /\ stream[client] = <<>> => stream'[client] = <<>>
  <2>1. CASE UNCHANGED stream
    BY <2>1 DEF TypeOK
  <2>2. CASE stream[client] # <<>> /\ stream' = [stream EXCEPT ![client] = Tail(@)]
    BY <1>3, <2>2 DEF TypeOK
  <2> QED
    BY <2>1, <2>2
<1>5. /\ conn' \in [Client -> {"out", "queued", "served", "closed"}] /\ conn'[client] = "closed"
      /\ \A d \in Client : d # client => conn'[d] = conn[d]
  BY <1>1, <1>2 DEF TypeOK
<1>6. \A c \in Client : conn'[c] # "served"
  BY <1>1, <1>5
<1>7. Queued'
  <2>1. \A d \in Client : conn'[d] = "out" => stream'[d] = <<>> /\ say[d] = "op" /\ d \notin left
    BY <1>4, <1>5 DEF Queued
  <2>2. \A i \in 1 .. Len(backlog) : conn'[backlog[i]] = "queued"
    <3> TAKE i \in 1 .. Len(backlog)
    <3>1. backlog[i] \in Client /\ conn[backlog[i]] = "queued"
      BY DEF Queued
    <3> QED
      BY <1>1, <1>5, <3>1
  <2>3. \A d \in reset : stream'[d] = <<>>
    BY <1>4 DEF TypeOK, Queued
  <2> QED
    BY <1>2, <2>1, <2>2, <2>3 DEF Queued
<1>8. InLine'
  <2> SUFFICES ASSUME NEW d \in Client, conn'[d] \in {"queued", "served"}
               PROVE  \E e \in Expected(d)' : Follows(d, e, submit.seqnum)'
    BY DEF InLine
  <2>1. d # client /\ conn[d] = conn'[d] /\ Expected(d)' = {"op"}
    BY <1>5, <1>6 DEF Expected
  <2>2. Follows(d, "op", submit.seqnum)
    BY <1>1, <2>1 DEF InLine
  <2>3. Follows(d, "op", submit.seqnum)'
    BY <1>2, <1>4, <2>1, <2>2 DEF Follows, Line, Says, IsData
  <2> QED
    BY <2>1, <2>3
<1> QED
  BY <1>4, <1>5, <1>6, <1>7, <1>8

\* A step after which the server goes on with the client it has.
LEMMA GoOnInv ==
  ASSUME Inv, phase \notin {"accept", "stopped"}, stream[client] # <<>>,
         stream' = [stream EXCEPT ![client] = Tail(@)],
         phase' \in {"busid", "attached", "data"},
         After(Head(stream[client])) \in Awaited(phase'),
         phase' = "data" => submit' = Head(stream[client]) /\ submit' \in Submit,
         phase' # "data" => submit' = Nil,
         UNCHANGED <<client, net>>,
         deferred' \subseteq [owner : Client, submit : Submit]
  PROVE  Inv'
<1>0. TypeOK /\ Queued /\ InLine
  BY DEF Inv
<1>1. stream' \in [Client -> Seq(Message)] /\ Queued' /\ InLine'
  BY <1>0, GoOnInLine
<1>2. client \in Client /\ conn[client] = "served" /\ \A c \in Client : c # client => conn[c] # "served"
  BY <1>0, ServedOne
<1>3. UNCHANGED <<client, backlog, conn, left, reset, say, seqnum>>
  BY DEF net
<1>4. \A c \in Client : conn'[c] = "served" <=> phase' # "accept" /\ c = client'
  BY <1>2, <1>3
<1>5. TypeOK'
  BY <1>0, <1>1, <1>3, <1>4 DEF TypeOK
<1> QED
  BY <1>1, <1>5 DEF Inv

\* A step that ends the connection.
LEMMA CloseInv ==
  ASSUME Inv, phase # "accept", Close, deferred' \subseteq deferred,
         \/ UNCHANGED stream
         \/ stream[client] # <<>> /\ stream' = [stream EXCEPT ![client] = Tail(@)]
  PROVE  Inv'
<1>0. TypeOK /\ Queued /\ InLine
  BY DEF Inv
<1>1. /\ stream' \in [Client -> Seq(Message)]
      /\ conn' \in [Client -> {"out", "queued", "served", "closed"}]
      /\ \A c \in Client : conn'[c] # "served"
      /\ Queued' /\ InLine'
  BY <1>0, CloseInLine
<1>2. phase' = "accept" /\ submit' = Nil /\ UNCHANGED <<client, backlog, left, reset, say, seqnum>>
  BY DEF Close
<1>3. TypeOK'
  BY <1>0, <1>1, <1>2 DEF TypeOK
<1> QED
  BY <1>1, <1>3 DEF Inv

\* The callback receive_submit defers no response but to a submit of its client.
LEMMA SubmitCallbackType ==
  ASSUME TypeOK, client \in Client, NEW s \in Submit, ReceiveSubmitCallback(s)
  PROVE  deferred' \subseteq [owner : Client, submit : Submit]
BY DEF TypeOK, ReceiveSubmitCallback

\* What the callback detached leaves to timers.
LEMMA DetachType ==
  ASSUME Detach
  PROVE  /\ Close /\ deferred' \subseteq deferred
         /\ CancelsTimers => deferred' = {}
BY DEF Detach

\* The message that arrives is the head of the client's stream, of a kind awaited.
LEMMA Arrived ==
  ASSUME Inv, NEW p, NEW u, Receive(p, u)
  PROVE  /\ phase = p /\ p # "accept" /\ p # "stopped"
         /\ client \in Client /\ stream[client] # <<>> /\ u = Head(stream[client])
         /\ stream' = [stream EXCEPT ![client] = Tail(@)]
         /\ u \in Message
         /\ \E e \in Awaited(p) : Fits(e, u) /\ (IsData(e) => u.seqnum = submit.seqnum)
<1>0. TypeOK /\ Queued /\ InLine
  BY DEF Inv
<1>1. /\ phase = p /\ p # "accept" /\ stream[client] # <<>> /\ u = Head(stream[client])
      /\ stream' = [stream EXCEPT ![client] = Tail(@)]
  BY DEF Receive, Arriving
<1>2. client \in Client /\ conn[client] = "served" /\ Expected(client) = Awaited(p)
  BY <1>0, <1>1, ServedOne
<1>3. stream[client] \in Seq(Message)
  BY <1>0, <1>2 DEF TypeOK
<1>4. u = stream[client][1] /\ u \in Message
  BY <1>1, <1>3
<1>5. PICK e \in Awaited(p) : Line(stream[client], e, submit.seqnum)
  BY <1>0, <1>2 DEF InLine, Follows
<1>6. Fits(e, u) /\ (IsData(e) => u.seqnum = submit.seqnum)
  BY <1>1, <1>4, <1>5 DEF Line
<1>7. p # "stopped"
  BY <1>0, <1>1 DEF Queued
<1> QED
  BY <1>1, <1>2, <1>4, <1>6, <1>7

LEMMA ReceiveOpInv ==
  ASSUME Inv, NEW u, ReceiveOp(u)
  PROVE  Inv'
<1>0. TypeOK
  BY DEF Inv
<1>1. Receive("op", u)
  BY DEF ReceiveOp
<1>2. phase = "op" /\ stream[client] # <<>> /\ u = Head(stream[client])
      /\ stream' = [stream EXCEPT ![client] = Tail(@)]
  BY <1>1, Arrived
<1>3. CASE Refuse
  BY <1>2, <1>3, CloseInv DEF Refuse
<1>4. CASE u.kind = "op" /\ u.op = "import" /\ phase' = "busid"
           /\ UNCHANGED <<client, submit, deferred, net>>
  <2>1. After(u) \in Awaited(phase')
    BY <1>4 DEF After, Awaited
  <2>2. submit' = Nil /\ deferred' \subseteq [owner : Client, submit : Submit]
    BY <1>0, <1>2, <1>4 DEF TypeOK
  <2> QED
    BY <1>2, <1>4, <2>1, <2>2, GoOnInv
<1> QED
  BY <1>3, <1>4 DEF ReceiveOp

LEMMA ReceiveBusidInv ==
  ASSUME Inv, NEW u, ReceiveBusid(u)
  PROVE  Inv'
<1>0. TypeOK
  BY DEF Inv
<1>1. Receive("busid", u)
  BY DEF ReceiveBusid
<1>2. phase = "busid" /\ stream[client] # <<>> /\ u = Head(stream[client])
      /\ stream' = [stream EXCEPT ![client] = Tail(@)]
  BY <1>1, Arrived
<1>3. CASE u.kind = "busid" /\ phase' = "attached" /\ UNCHANGED <<client, submit, deferred, net>>
  <2>1. After(u) \in Awaited(phase')
    BY <1>3 DEF After, Awaited
  <2>2. submit' = Nil /\ deferred' \subseteq [owner : Client, submit : Submit]
    BY <1>0, <1>2, <1>3 DEF TypeOK
  <2> QED
    BY <1>2, <1>3, <2>1, <2>2, GoOnInv
<1>4. CASE Refuse
  BY <1>2, <1>4, CloseInv DEF Refuse
<1> QED
  BY <1>3, <1>4 DEF ReceiveBusid

LEMMA NoOpInv ==
  ASSUME Inv, NoOp
  PROVE  Inv'
<1>1. phase \in {"op", "busid"} /\ UNCHANGED stream /\ Close /\ UNCHANGED deferred
  BY DEF NoOp, ReceiveNil, Refuse
<1> QED
  BY <1>1, CloseInv

LEMMA ReceiveCmdInv ==
  ASSUME Inv, NEW u, ReceiveCmd(u)
  PROVE  Inv'
<1>0. TypeOK
  BY DEF Inv
<1>1. Receive("attached", u)
  BY DEF ReceiveCmd
<1>2. phase = "attached" /\ stream[client] # <<>> /\ u = Head(stream[client])
      /\ stream' = [stream EXCEPT ![client] = Tail(@)] /\ u \in Message /\ client \in Client
  BY <1>1, Arrived
<1>3. submit = Nil /\ deferred \subseteq [owner : Client, submit : Submit]
  BY <1>0, <1>2 DEF TypeOK
<1>4. CASE u.kind = "submit" /\ HasData(u) /\ phase' = "data" /\ submit' = u
           /\ UNCHANGED <<client, deferred, net>>
  <2>1. After(u) \in Awaited(phase')
    BY <1>4 DEF After, Awaited, HasData
  <2>2. u \in Submit
    BY <1>2, <1>4, SubmitKind
  <2> QED
    BY <1>2, <1>3, <1>4, <2>1, <2>2, GoOnInv
<1>5. CASE u.kind = "submit" /\ ~ HasData(u) /\ ReceiveSubmitCallback(u)
           /\ UNCHANGED <<client, phase, submit, net>>
  <2>1. After(u) \in Awaited(phase')
    BY <1>2, <1>5 DEF After, Awaited, HasData
  <2>2. deferred' \subseteq [owner : Client, submit : Submit]
    BY <1>0, <1>2, <1>5, SubmitKind, SubmitCallbackType
  <2> QED
    BY <1>2, <1>3, <1>5, <2>1, <2>2, GoOnInv
<1>6. CASE u.kind = "unlink" /\ ReceiveUnlinkCallback(u)
           /\ UNCHANGED <<client, phase, submit, net>>
  <2>1. After(u) \in Awaited(phase')
    BY <1>2, <1>6 DEF After, Awaited
  <2>2. deferred' \subseteq deferred
    BY <1>6 DEF ReceiveUnlinkCallback
  <2> QED
    BY <1>2, <1>3, <1>6, <2>1, <2>2, GoOnInv
<1>7. CASE Detach
  BY <1>2, <1>7, DetachType, CloseInv
<1> QED
  BY <1>4, <1>5, <1>6, <1>7 DEF ReceiveCmd

LEMMA ReceiveDataInv ==
  ASSUME Inv, NEW u, ReceiveData(u)
  PROVE  Inv'
<1>0. TypeOK
  BY DEF Inv
<1>1. /\ Receive("data", u) /\ ReceiveSubmitCallback(submit)
      /\ phase' = "attached" /\ submit' = Nil /\ UNCHANGED <<client, net>>
  BY DEF ReceiveData
<1>2. phase = "data" /\ client \in Client /\ stream[client] # <<>> /\ u = Head(stream[client])
      /\ stream' = [stream EXCEPT ![client] = Tail(@)]
      /\ \E e \in Awaited("data") : Fits(e, u)
  BY <1>1, Arrived
<1>3. submit \in Submit
  BY <1>0, <1>2 DEF TypeOK
<1>4. u.kind = "data"
  BY <1>2, Kinds DEF Fits, Awaited
<1>5. After(u) \in Awaited(phase')
  BY <1>1, <1>4 DEF After, Awaited
<1>6. deferred' \subseteq [owner : Client, submit : Submit]
  BY <1>0, <1>1, <1>2, <1>3, SubmitCallbackType
<1> QED
  BY <1>1, <1>2, <1>5, <1>6, GoOnInv

LEMMA NoCmdInv ==
  ASSUME Inv, NoCmd
  PROVE  Inv'
<1>1. phase # "accept" /\ UNCHANGED stream /\ Detach
  BY DEF NoCmd, ReceiveNil
<1> QED
  BY <1>1, DetachType, CloseInv

LEMMA TriggerInv ==
  ASSUME Inv, NEW d \in deferred, Trigger(d)
  PROVE  Inv'
<1>0. TypeOK /\ Queued /\ InLine
  BY DEF Inv
<1>1. /\ deferred' = deferred \ {d}
      /\ UNCHANGED <<client, phase, submit, stream, backlog, conn, left, reset, say, seqnum>>
  BY DEF Trigger, net
<1>2. TypeOK'
  BY <1>0, <1>1 DEF TypeOK
<1>3. Queued'
  BY <1>0, <1>1 DEF Queued
<1>4. InLine'
  BY <1>0, <1>1 DEF InLine, Expected, Follows
<1> QED
  BY <1>2, <1>3, <1>4 DEF Inv

LEMMA StepInv == Inv /\ [Next]_vars => Inv'
<1> SUFFICES ASSUME Inv, [Next]_vars
             PROVE  Inv'
  OBVIOUS
<1>1. CASE \E c \in Client : Connect(c) \/ Send(c) \/ Leave(c)
  BY <1>1, ConnectInv, SendInv, LeaveInv
<1>2. CASE Serve
  BY <1>2, AcceptInv, ReceiveOpInv, ReceiveBusidInv, ReceiveCmdInv, ReceiveDataInv, NoOpInv, NoCmdInv
     DEF Serve
<1>3. CASE \E d \in deferred : Trigger(d)
  BY <1>3, TriggerInv
<1>4. CASE UNCHANGED vars
  <2>1. UNCHANGED <<client, phase, submit, deferred, backlog, conn, left, reset, say, seqnum, stream>>
    BY <1>4 DEF vars, server, net
  <2>2. TypeOK' /\ Queued'
    BY <2>1 DEF Inv, TypeOK, Queued
  <2>3. InLine'
    BY <2>1 DEF Inv, InLine, Expected, Follows
  <2> QED
    BY <2>2, <2>3 DEF Inv
<1> QED
  BY <1>1, <1>2, <1>3, <1>4 DEF Next

LEMMA Invariance == Spec => []Inv
<1> QED
  BY InitInv, StepInv, PTL DEF Spec

-----------------------------------------------------------------------------
(* Owners of responses, for a script that cancels its timers.              *)

\* The responses left to timers are to the client of now.
DeferredOwned == \A d \in deferred : phase \in {"attached", "data"} /\ d.owner = client

Owned ==
  CancelsTimers => DeferredOwned /\ AnswersOwner /\ sent = [c \in Client |-> sent[c]]

\* A response to the client of now, of the length it asked for at most.
LEMMA Replied ==
  ASSUME CancelsTimers, Owned, NEW r, Reply(r),
         r.ret \in {"submit", "unlink"} => r.owner = client,
         r.ret = "submit" => r.length <= r.room
  PROVE  AnswersOwner' /\ sent' = [c \in Client |-> sent'[c]]
<1>1. sent = [c \in Client |-> sent[c]] /\ sent' = [sent EXCEPT ![client] = @ \cup {r}]
  BY DEF Owned, Reply
<1>2. sent' = [c \in Client |-> sent'[c]]
  BY <1>1
<1>3. \A c \in Client : \A q \in sent'[c] : q \in sent[c] \/ (c = client /\ q = r)
  BY <1>1
<1>4. AnswersOwner'
  BY <1>3 DEF AnswersOwner, Owned
<1> QED
  BY <1>2, <1>4

LEMMA Unanswered ==
  ASSUME CancelsTimers, Owned, UNCHANGED sent
  PROVE  AnswersOwner' /\ sent' = [c \in Client |-> sent'[c]]
BY DEF Owned, AnswersOwner

LEMMA SubmitAnswered ==
  ASSUME CancelsTimers, Owned, NEW s \in Submit, NEW n \in Length,
         Reply(SubmitResponse([owner |-> client, submit |-> s], n))
  PROVE  AnswersOwner' /\ sent' = [c \in Client |-> sent'[c]]
<1> DEFINE d == [owner |-> client, submit |-> s]
           r == SubmitResponse(d, n)
<1>1. s.length \in Nat /\ n \in Nat
  BY Kinds, EmulatorAssumption
<1>2. /\ r.ret = "submit" /\ r.owner = client /\ r.room = s.length
      /\ r.length = IF n > s.length THEN s.length ELSE n
  BY DEF SubmitResponse
<1>3. r.length <= r.room
  BY <1>1, <1>2
<1> QED
  BY <1>2, <1>3, Replied

\* A step that goes on with the client of now, in whose session deferred is extended
\* with a response to it at most.
LEMMA GoOnOwned ==
  ASSUME CancelsTimers, Owned, UNCHANGED client, phase' \in {"attached", "data"},
         \A d \in deferred' : d \in deferred \/ d.owner = client,
         AnswersOwner' /\ sent' = [c \in Client |-> sent'[c]]
  PROVE  Owned'
BY DEF Owned, DeferredOwned

\* A step after which no response is left to timers.
LEMMA NoneOwned ==
  ASSUME deferred' = {}, AnswersOwner' /\ sent' = [c \in Client |-> sent'[c]]
  PROVE  Owned'
BY DEF Owned, DeferredOwned

LEMMA SubmitCallbackOwned ==
  ASSUME CancelsTimers, Owned, NEW s \in Submit, ReceiveSubmitCallback(s)
  PROVE  /\ \A d \in deferred' : d \in deferred \/ d.owner = client
         /\ AnswersOwner' /\ sent' = [c \in Client |-> sent'[c]]
<1> DEFINE d == [owner |-> client, submit |-> s]
<1>1. CASE (\E n \in Length : Reply(SubmitResponse(d, n))) /\ UNCHANGED deferred
  BY <1>1, SubmitAnswered
<1>2. CASE deferred' = deferred \cup {d} /\ UNCHANGED sent
  BY <1>2, Unanswered
<1>3. CASE UNCHANGED <<deferred, sent>>
  BY <1>3, Unanswered
<1> QED
  BY <1>1, <1>2, <1>3 DEF ReceiveSubmitCallback

\* The steps of the server, while there is no response left to timers.
LEMMA RefuseOwned ==
  ASSUME CancelsTimers, Inv, Owned, NEW u,
         Accept \/ AcceptReset \/ ReceiveOp(u) \/ ReceiveBusid(u) \/ NoOp
  PROVE  Owned'
<1>1. phase \in {"accept", "op", "busid"} /\ UNCHANGED deferred
  BY DEF Accept, AcceptReset, TakeFirst, ReceiveOp, ReceiveBusid, NoOp, Receive, ReceiveNil, Refuse
<1>2. deferred' = {}
  BY <1>1 DEF Owned, DeferredOwned
<1>3. CASE UNCHANGED sent
  BY <1>2, <1>3, Unanswered, NoneOwned
<1>4. CASE \E r : Reply(r) /\ r.ret \in {"devlist", "import"}
  <2>1. PICK r : Reply(r) /\ r.ret \in {"devlist", "import"}
    BY <1>4
  <2>2. AnswersOwner' /\ sent' = [c \in Client |-> sent'[c]]
    BY <2>1, Replied
  <2> QED
    BY <1>2, <2>2, NoneOwned
<1>5. [ret |-> "devlist"].ret = "devlist" /\ \A b : [ret |-> "import", ok |-> b].ret = "import"
  OBVIOUS
<1> QED
  BY <1>3, <1>4, <1>5 DEF Accept, AcceptReset, TakeFirst, ReceiveOp, ReceiveBusid, NoOp

LEMMA ReceiveCmdOwned ==
  ASSUME CancelsTimers, Inv, Owned, NEW u, ReceiveCmd(u)
  PROVE  Owned'
<1>1. phase = "attached" /\ u \in Message
  BY Arrived DEF ReceiveCmd
<1>2. CASE phase' = "data" /\ UNCHANGED <<client, deferred, sent>>
  BY <1>2, Unanswered, GoOnOwned
<1>3. CASE u.kind = "submit" /\ ReceiveSubmitCallback(u) /\ UNCHANGED <<client, phase>>
  BY <1>1, <1>3, SubmitKind, SubmitCallbackOwned, GoOnOwned
<1>4. CASE ReceiveUnlinkCallback(u) /\ UNCHANGED <<client, phase>>
  <2>1. deferred' \subseteq deferred
    BY <1>4 DEF ReceiveUnlinkCallback
  <2>2. UnlinkResponse(u).ret = "unlink" /\ UnlinkResponse(u).owner = client
    BY DEF UnlinkResponse
  <2>3. AnswersOwner' /\ sent' = [c \in Client |-> sent'[c]]
    BY <1>4, <2>2, Replied DEF ReceiveUnlinkCallback
  <2> QED
    BY <1>1, <1>4, <2>1, <2>3, GoOnOwned
<1>5. CASE Detach /\ UNCHANGED sent
  BY <1>5, DetachType, Unanswered, NoneOwned
<1> QED
  BY <1>2, <1>3, <1>4, <1>5 DEF ReceiveCmd

LEMMA ReceiveDataOwned ==
  ASSUME CancelsTimers, Inv, Owned, NEW u, ReceiveData(u)
  PROVE  Owned'
<1>1. phase = "data" /\ phase' = "attached" /\ UNCHANGED client /\ ReceiveSubmitCallback(submit)
  BY DEF ReceiveData, Receive
<1>2. submit \in Submit
  BY <1>1 DEF Inv, TypeOK
<1> QED
  BY <1>1, <1>2, SubmitCallbackOwned, GoOnOwned

LEMMA NoCmdOwned ==
  ASSUME CancelsTimers, Owned, NoCmd
  PROVE  Owned'
BY DetachType, Unanswered, NoneOwned DEF NoCmd

LEMMA TriggerOwned ==
  ASSUME CancelsTimers, Inv, Owned, NEW d \in deferred, Trigger(d)
  PROVE  Owned'
<1>1. /\ phase = "attached" /\ deferred' = deferred \ {d} /\ UNCHANGED <<client, phase>>
  BY DEF Trigger
<1>2. PICK n \in Length : Reply(SubmitResponse(d, n))
  BY DEF Trigger
<1>3. d.owner = client /\ d.submit \in Submit
  BY DEF Inv, TypeOK, Owned, DeferredOwned
<1>4. SubmitResponse(d, n) = SubmitResponse([owner |-> client, submit |-> d.submit], n)
  BY <1>3 DEF SubmitResponse
<1>5. AnswersOwner' /\ sent' = [c \in Client |-> sent'[c]]
  BY <1>2, <1>3, <1>4, SubmitAnswered
<1> QED
  BY <1>1, <1>5, GoOnOwned

LEMMA StepOwned == Inv /\ Owned /\ [Next]_vars => Owned'
<1> SUFFICES ASSUME Inv, Owned, [Next]_vars, CancelsTimers
             PROVE  Owned'
  BY DEF Owned
<1>1. CASE UNCHANGED <<client, phase, deferred, sent>>
  BY <1>1 DEF Owned, DeferredOwned, AnswersOwner
<1>2. CASE \E c \in Client : Connect(c) \/ Send(c) \/ Leave(c)
  BY <1>1, <1>2 DEF Connect, Send, Leave, server
<1>3. CASE Serve
  BY <1>3, RefuseOwned, ReceiveCmdOwned, ReceiveDataOwned, NoCmdOwned DEF Serve
<1>4. CASE \E d \in deferred : Trigger(d)
  BY <1>4, TriggerOwned
<1>5. CASE UNCHANGED vars
  BY <1>1, <1>5 DEF vars, server
<1> QED
  BY <1>2, <1>3, <1>4, <1>5 DEF Next

-----------------------------------------------------------------------------
(* The theorems.                                                           *)

\* receive_op, receive_busid and receive_cmd never read a header where the client has
\* sent data, nor data where it has sent a header, save in one place: the packets of an
\* isochronous submit are what receive_cmd may read as a header, and nothing else is.
THEOREM AlwaysInStep == Spec => []InStep
<1>1. Inv => InStep
  <2> SUFFICES ASSUME Inv
               PROVE  InStep
    OBVIOUS
  <2>0. TypeOK /\ Queued /\ InLine
    BY DEF Inv
  <2>1. ASSUME phase # "accept", stream[client] # <<>>
        PROVE  LET u == Head(stream[client])
               IN  /\ phase = "op" => u \in Op
                   /\ phase = "busid" => u \in Busid
                   /\ phase = "attached" => u \in Submit \cup Unlink \cup Unknown \cup Packets
                   /\ phase = "data" => u \in Data /\ u.seqnum = submit.seqnum
    <3> DEFINE u == Head(stream[client])
    <3>1. client \in Client /\ conn[client] = "served" /\ Expected(client) = Awaited(phase)
      BY <2>0, <2>1, ServedOne
    <3>2. stream[client] \in Seq(Message) /\ u = stream[client][1]
      BY <2>0, <2>1, <3>1 DEF TypeOK
    <3>3. PICK e \in Awaited(phase) : Line(stream[client], e, submit.seqnum)
      BY <2>0, <3>1 DEF InLine, Follows
    <3>4. Fits(e, u) /\ (IsData(e) => u.seqnum = submit.seqnum)
      BY <2>1, <3>2, <3>3 DEF Line
    <3> QED
      BY <3>4 DEF Fits, Awaited, IsData
  <2> QED
    BY <2>0, <2>1 DEF InStep
<1> QED
  BY <1>1, Invariance, PTL

\* A response, sent at once or from a timer, goes to the client that sent the command,
\* and is no longer than it asked for, if the script cancels its timers in detached.
THEOREM AnswersAlwaysOwner == Spec => []AnswersOwner
<1>1. Init => Owned
  BY DEF Init, Owned, DeferredOwned, AnswersOwner
<1>2. Owned => AnswersOwner
  BY DEF Owned, AnswersOwner
<1> QED
  BY <1>1, <1>2, StepOwned, Invariance, PTL DEF Spec
=============================================================================
